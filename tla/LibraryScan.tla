----------------------------- MODULE LibraryScan -----------------------------
(***************************************************************************)
(* The library scanner of the core (core/app/services/scanner.py) together *)
(* with the serial job worker (jobs.py), the rows it keeps (repositories.py) *)
(* and the API calls that touch the same rows while it works.              *)
(*                                                                         *)
(* One watched root folder holds anime directories.  Three kinds of actors *)
(* interleave at every await of the code: the job worker (full scans and   *)
(* identification jobs), one debounce task per changed directory, and the  *)
(* API handlers.  The disk changes under all of them.  A step of this      *)
(* module is the code between two awaits.                                  *)
(*                                                                         *)
(* One directory holds at most one episode file, so an episode row is      *)
(* keyed by the directory of its file path.                                *)
(***************************************************************************)
EXTENDS Naturals, Sequences, FiniteSets, SequencesExt

CONSTANTS
  Dirs,            \* the possible anime directories under the root
  NoDir,           \* not a directory
  Scan,            \* the full scan as a processor of directories
  MaxRows,         \* bound on the anime row ids in use
  MaxQueue,        \* bound on the queued jobs
  Budget,          \* bound on the steps of the user, the network and crashes
  Overlap          \* which outside steps may meet unfinished work: of
                   \* "rename" (an API rename, or a crash inside one), "outage"
                   \* (the share drops); "reuse" lets a new row take the id
                   \* of a deleted one that a job or a step still holds

ASSUME LibraryAssumption ==
  /\ NoDir \notin Dirs /\ Scan \notin Dirs
  /\ MaxRows \in Nat /\ MaxQueue \in Nat /\ Budget \in Nat
  /\ Overlap \subseteq {"rename", "outage", "reuse"}

VARIABLES
  disk,       \* what each directory holds
  online,     \* is the root reachable?
  running,    \* does the core process run?
  watching,   \* does the root have a file system observer?
  rows,       \* anime rows by id
  eps,        \* episode rows by the directory of their path
  queue,      \* the job queue
  worker,     \* the job worker's position in its job
  task,       \* the processors of directories: the scan and the debounce tasks
  rename,     \* an API rename between its disk move and its commit
  budget,     \* steps left to the environment
  unseen,     \* ghost: changes no scan or event has led to a look at yet
  blurred,    \* ghost: directories that changed while the scan was in them
  corrected   \* ghost: files numbered by hand and untouched since

env  == <<online, running, watching>>
db   == <<rows, eps>>
ghost == <<unseen, blurred, corrected>>
vars == <<disk, env, db, queue, worker, task, rename, budget, ghost>>

Ids   == 1..MaxRows
Procs == Dirs \cup {Scan}

(***************************************************************************)
(* Records.                                                                *)
(***************************************************************************)
NoRow == [dir |-> NoDir, status |-> "none", aid |-> FALSE, tried |-> FALSE]
NoEp  == [row |-> 0, manual |-> FALSE]
NoJob == [kind |-> "none", row |-> 0, dir |-> NoDir]
Idle  == [pc |-> "idle", dir |-> NoDir, row |-> 0, should |-> FALSE,
          known |-> {}, found |-> FALSE]
IdleWorker == [pc |-> "idle", job |-> NoJob, listed |-> {}, todo |-> {}, rest |-> {}]
NoRename   == [pc |-> "idle", row |-> 0, from |-> NoDir, to |-> NoDir, eps |-> FALSE]
Settling(d) == [Idle EXCEPT !.pc = "settling", !.dir = d]

Job == [kind : {"none", "scan", "identify", "identify_if_pending", "rescan"},
        row : Ids \cup {0}, dir : Dirs \cup {NoDir}]
ScanJob == [kind |-> "scan", row |-> 0, dir |-> NoDir]

Row == [dir : Dirs \cup {NoDir}, status : {"none", "pending", "unclear", "identified"},
        aid : BOOLEAN, tried : BOOLEAN]
Episode == [row : Ids \cup {0}, manual : BOOLEAN]

Processor == [pc : {"idle", "settling", "gone", "forget", "lookup", "probe",
                    "create", "read", "walk", "record"},
              dir : Dirs \cup {NoDir}, row : Ids \cup {0}, should : BOOLEAN,
              known : SUBSET Dirs, found : BOOLEAN]
WorkerState == [pc : {"idle", "online", "list", "dirs", "purge", "delete", "apply"},
                job : Job, listed : SUBSET Dirs, todo : SUBSET Dirs,
                rest : SUBSET (Ids \X Dirs)]
RenameState == [pc : {"idle", "moved"}, row : Ids \cup {0}, from : Dirs \cup {NoDir},
                to : Dirs \cup {NoDir}, eps : BOOLEAN]

TypeOK ==
  /\ disk \in [Dirs -> {"absent", "bare", "other", "video"}]
  /\ online \in BOOLEAN /\ running \in BOOLEAN /\ watching \in BOOLEAN
  /\ rows \in [Ids -> Row]
  /\ eps \in [Dirs -> Episode]
  /\ queue \in Seq(Job)
  /\ worker \in WorkerState
  /\ task \in [Procs -> Processor]
  /\ rename \in RenameState
  /\ budget \in 0..Budget
  /\ unseen \subseteq Dirs /\ blurred \subseteq Dirs /\ corrected \subseteq Dirs

-----------------------------------------------------------------------------
(* The rows: AnimeRepo and LocalEpisodeRepo.                               *)

Live     == {r \in Ids : rows[r] # NoRow}
RowsAt(d) == {r \in Live : rows[r].dir = d}      \* directory_path is UNIQUE

\* SQLite hands out max(id) + 1: the id of a deleted last row comes back.
\* Without "reuse" a new row takes an id nothing in flight refers to.
Held ==
  {queue[i].row : i \in 1..Len(queue)} \cup {worker.job.row, rename.row}
    \cup {v[1] : v \in worker.rest} \cup {task[p].row : p \in Procs}

Least(S) == CHOOSE r \in S : \A q \in S : r <= q

NextId ==
  IF "reuse" \in Overlap
    THEN Least({r \in 1..(MaxRows + 1) : \A q \in Live : q < r})
    ELSE Least(1..(MaxRows + 1) \ (Live \cup Held))

RowBecomes(r, v) == rows' = [rows EXCEPT ![r] = v]

\* A wrong RowDeleted that only marks the row.
RowDeletedSoftly(r) ==
  /\ RowBecomes(r, [rows[r] EXCEPT !.status = "deleted"])
  /\ eps'  = eps

\* AnimeRepo.delete by id: the row goes with its episodes, by whatever path.
RowDeleted(r) ==
  /\ RowBecomes(r, NoRow)
  /\ eps'  = [d \in Dirs |-> IF eps[d].row = r THEN NoEp ELSE eps[d]]

-----------------------------------------------------------------------------
(* Events and jobs.                                                        *)

\* A wrong Restarted that lets a running check finish and drops the event.
RestartedIfIdle(ds) ==
  [p \in Procs |-> IF p \in ds /\ task[p] = Idle THEN Settling(p) ELSE task[p]]

\* _debounce: the running check of this directory is cancelled, a new one starts.
Restarted(ds) ==
  [p \in Procs |-> IF p \in ds THEN Settling(p) ELSE task[p]]

Watched == running /\ watching /\ online

\* A change of directories ds on disk: an event if the root is watched; the
\* ghosts note what nobody was told of and what the scan had already read.
Touched(ds) ==
  /\ task'    = IF Watched THEN Restarted(ds) ELSE task
  /\ unseen'  = IF Watched THEN unseen ELSE unseen \cup ds
  /\ blurred' = blurred \cup (ds \cap {task[Scan].dir})

CanQueue(n) == Len(queue) + n <= MaxQueue

\* Steps of a few milliseconds that another actor's two-second timer never
\* overtakes: a stat followed by one statement, or a rename and its commit.
ShortStepPending ==
  \/ \E p \in Procs : task[p].pc \in {"create", "read", "forget"}
  \/ worker.pc = "delete"
  \/ rename.pc = "moved"

AllIdle ==
  /\ worker = IdleWorker /\ queue = <<>> /\ rename = NoRename
  /\ \A p \in Procs : task[p] = Idle

MayMeet(kind) == kind \in Overlap \/ AllIdle
RenameAside   == "rename" \in Overlap \/ rename = NoRename

-----------------------------------------------------------------------------
(* The processor of one directory: _stabilize_and_process for a debounce   *)
(* task, the loop body of full_scan_folder for the scan.                   *)

Becomes(p, t) == task' = [task EXCEPT ![p] = t]
Goto(p, pc)   == Becomes(p, [task[p] EXCEPT !.pc = pc])

\* The processor returns, or ends with an exception that aborts a whole scan.
Ended(p) ==
  /\ Becomes(p, Idle)
  /\ UNCHANGED worker

Failed(p) ==
  /\ Becomes(p, Idle)
  /\ worker' = IF p = Scan THEN IdleWorker ELSE worker

\* The sample loop: a vanished directory is forgotten, a stable one with
\* anything in it processed; an empty one (signature (0, 0.0)) is sampled on.
Settle(d) ==
  /\ task[d].pc = "settling" /\ ~ShortStepPending
  /\ IF online /\ disk[d] # "absent"
       THEN disk[d] # "bare" /\ Goto(d, "lookup")
       ELSE Goto(d, "gone")
  /\ UNCHANGED <<disk, env, db, queue, worker, rename, budget, ghost>>

\* _handle_removed: the row is looked up by path, then deleted by id.
FindGone(d) ==
  /\ task[d].pc = "gone"
  /\ IF RowsAt(d) = {}
       THEN Ended(d)
       ELSE \E r \in RowsAt(d) :
              /\ Becomes(d, [task[d] EXCEPT !.pc = "forget", !.row = r])
              /\ UNCHANGED worker
  /\ UNCHANGED <<disk, env, db, queue, rename, budget, ghost>>

Forget(d) ==
  /\ task[d].pc = "forget"
  /\ RowDeleted(task[d].row)
  /\ Ended(d)
  /\ UNCHANGED <<disk, env, queue, rename, budget, ghost>>

\* A wrong ShouldIdentify: only new anime are queued.
OnlyNew(r) == r \notin Live

\* should_identify of a known row: its first identification never came.
ShouldIdentify(r) == rows[r].status = "pending"

\* get_by_directory.  A debounce task starts a fresh look at the directory.
Lookup(p) ==
  LET d == task[p].dir IN
  /\ task[p].pc = "lookup"
  /\ IF RowsAt(d) = {}
       THEN Goto(p, "probe")
       ELSE \E r \in RowsAt(d) :
              Becomes(p, [task[p] EXCEPT !.pc = "read", !.row = r,
                                         !.should = ShouldIdentify(r)])
  /\ unseen'  = unseen \ {d}
  /\ blurred' = IF p # Scan /\ task[Scan].dir = d THEN blurred ELSE blurred \ {d}
  /\ UNCHANGED <<disk, env, db, queue, worker, rename, budget, corrected>>

\* has_video_files, in a worker thread: no videos, no row.
Probe(p) ==
  /\ task[p].pc = "probe"
  /\ IF online /\ disk[task[p].dir] = "video"
       THEN Goto(p, "create") /\ UNCHANGED worker
       ELSE Ended(p)
  /\ UNCHANGED <<disk, env, db, queue, rename, budget, ghost>>

\* create_pending: refused by UNIQUE if the other processor was faster.
Create(p) ==
  LET d == task[p].dir IN
  /\ task[p].pc = "create"
  /\ \/ /\ RowsAt(d) # {}
        /\ Failed(p)
        /\ UNCHANGED rows
     \/ /\ RowsAt(d) = {}
        /\ NextId <= MaxRows
        /\ RowBecomes(NextId, [dir |-> d, status |-> "pending", aid |-> FALSE, tried |-> FALSE])
        /\ Becomes(p, [task[p] EXCEPT !.pc = "read", !.row = NextId, !.should = TRUE])
        /\ UNCHANGED worker
  /\ UNCHANGED <<disk, env, eps, queue, rename, budget, ghost>>

\* by_anime: the episode rows stored for this anime, whatever their path.
ReadEpisodes(p) ==
  /\ task[p].pc = "read"
  /\ Becomes(p, [task[p] EXCEPT !.pc = "walk",
                                !.known = {x \in Dirs : eps[x].row = task[p].row}])
  /\ UNCHANGED <<disk, env, db, queue, worker, rename, budget, ghost>>

\* _list_video_files, in a worker thread: an unreachable directory lists empty.
Walk(p) ==
  /\ task[p].pc = "walk"
  /\ Becomes(p, [task[p] EXCEPT !.pc = "record",
                                !.found = (online /\ disk[task[p].dir] = "video")])
  /\ UNCHANGED <<disk, env, db, queue, worker, rename, budget, ghost>>

\* A wrong FileIsNew that writes every file it finds.
EveryFile(p) == task[p].found

\* The walk found a file no episode row has.
FileIsNew(p) ==
  task[p].found /\ task[p].dir \notin task[p].known /\ eps[task[p].dir].row = 0

\* The comparison with the stored rows: new files are upserted by path (an
\* insert for an anime that is gone fails), unseen ones deleted by path.  Then
\* a new or still pending anime is queued for identification.
Record(p) ==
  LET d     == task[p].dir
      r     == task[p].row
      gone  == task[p].known \ (IF task[p].found THEN {d} ELSE {})
      new   == FileIsNew(p)
  IN
  /\ task[p].pc = "record"
  /\ \/ /\ new /\ rows[r] = NoRow
        /\ Failed(p)
        /\ unseen' = IF p = Scan THEN unseen \cup {d} ELSE unseen
        /\ UNCHANGED <<eps, queue>>
     \/ /\ ~(new /\ rows[r] = NoRow)
        /\ task[p].should => CanQueue(1)
        /\ queue' = IF task[p].should
                      THEN Append(queue, [kind |-> "identify", row |-> r, dir |-> d]) ELSE queue
        /\ eps' = [x \in Dirs |-> IF x \in gone THEN NoEp
                                  ELSE IF x = d /\ new THEN [row |-> r, manual |-> FALSE]
                                  ELSE eps[x]]
        /\ Ended(p)
        /\ UNCHANGED unseen
  /\ UNCHANGED <<disk, env, rows, rename, budget, blurred, corrected>>

Process(p) ==
  \/ Lookup(p) \/ Probe(p) \/ Create(p) \/ ReadEpisodes(p)
  \/ Walk(p) \/ Record(p)

Debounce(d) == Settle(d) \/ FindGone(d) \/ Forget(d) \/ Process(d)

-----------------------------------------------------------------------------
(* The job worker: one job at a time, a failed job is only logged.         *)

\* _run_identify, _run_identify_if_pending, _run_rescan: is there still
\* something to do for the id the job was queued with?
Wanted(j) ==
  /\ rows[j.row] # NoRow
  /\ j.kind = "identify_if_pending" => rows[j.row].status = "pending"
  /\ j.kind = "rescan" => rows[j.row].aid

TakeJob ==
  /\ running /\ worker.pc = "idle" /\ queue # <<>>
  /\ RenameAside
  /\ queue' = Tail(queue)
  /\ worker' =
       IF Head(queue) = ScanJob THEN [IdleWorker EXCEPT !.job = ScanJob, !.pc = "online"]
       ELSE IF Wanted(Head(queue)) THEN [IdleWorker EXCEPT !.job = Head(queue), !.pc = "apply"]
       ELSE IdleWorker
  /\ UNCHANGED <<disk, env, db, task, rename, budget, ghost>>

\* full_scan_folder: an unreachable root is flagged and nothing else touched;
\* a reachable one is watched before anything is listed.
ScanOnline ==
  /\ worker.pc = "online"
  /\ watching' = (watching \/ online)
  /\ worker' = IF online THEN [worker EXCEPT !.pc = "list"] ELSE IdleWorker
  /\ UNCHANGED <<disk, online, running, db, queue, task, rename, budget, ghost>>

\* _list_subdirs, once for the whole scan: raises if the root went away.
ScanList ==
  LET present == {d \in Dirs : disk[d] # "absent"} IN
  /\ worker.pc = "list"
  /\ worker' = IF online THEN [worker EXCEPT !.pc = "dirs", !.listed = present, !.todo = present]
                         ELSE IdleWorker
  /\ UNCHANGED <<disk, env, db, queue, task, rename, budget, ghost>>

ScanNextDir ==
  /\ worker.pc = "dirs" /\ task[Scan] = Idle
  /\ \E d \in worker.todo :
       /\ Becomes(Scan, [Idle EXCEPT !.pc = "lookup", !.dir = d])
       /\ worker' = [worker EXCEPT !.todo = @ \ {d}]
  /\ UNCHANGED <<disk, env, db, queue, rename, budget, ghost>>

\* The rows of the folder whose path the listing does not have.
ScanSelect ==
  /\ worker.pc = "dirs" /\ task[Scan] = Idle /\ worker.todo = {}
  /\ worker' = [worker EXCEPT !.pc = "purge", !.listed = {},
                  !.rest = {<<r, rows[r].dir>> : r \in {q \in Live : rows[q].dir \notin worker.listed}}]
  /\ unseen' = {d \in unseen : disk[d] # "absent"}
  /\ UNCHANGED <<disk, env, db, queue, task, rename, budget, blurred, corrected>>

\* A wrong ScanRecheck that trusts the listing from the start of the scan.
ScanTrustsListing ==
  /\ worker.pc = "purge"
  /\ \E v \in worker.rest :
       worker' = [worker EXCEPT !.pc = "delete", !.rest = @ \ {v},
                                !.job = [ScanJob EXCEPT !.row = v[1], !.dir = v[2]]]
  /\ UNCHANGED <<disk, env, db, queue, task, rename, budget, ghost>>

\* is_dir again for each, with the path read above.
ScanRecheck ==
  /\ worker.pc = "purge"
  /\ \E v \in worker.rest :
       worker' = IF online /\ disk[v[2]] # "absent"
                   THEN [worker EXCEPT !.rest = @ \ {v}]
                   ELSE [worker EXCEPT !.pc = "delete", !.rest = @ \ {v},
                                       !.job = [ScanJob EXCEPT !.row = v[1], !.dir = v[2]]]
  /\ UNCHANGED <<disk, env, db, queue, task, rename, budget, ghost>>

ScanPurge ==
  /\ worker.pc = "delete"
  /\ RowDeleted(worker.job.row)
  /\ worker' = [worker EXCEPT !.pc = "purge", !.job = ScanJob]
  /\ UNCHANGED <<disk, env, queue, task, rename, budget, ghost>>

ScanDone ==
  /\ worker.pc = "purge" /\ worker.rest = {}
  /\ worker' = IdleWorker
  /\ UNCHANGED <<disk, env, db, queue, task, rename, budget, ghost>>

\* The answer is there: no match, ambiguous, nothing fetched, or identified.
\* The last writes tvshow.nfo and aniinfo.json into the directory the job was
\* queued with, creating it if it is missing.
ApplyAnswer ==
  LET j == worker.job
      d == j.dir
  IN
  /\ worker.pc = "apply"
  /\ worker' = IdleWorker
  /\ \/ /\ rows[j.row] = NoRow                       \* the UPDATE finds no row
        /\ UNCHANGED <<disk, rows, task, ghost>>
     \/ /\ rows[j.row] # NoRow
        /\ RowBecomes(j.row, [rows[j.row] EXCEPT !.tried = TRUE])   \* fetch failed
        /\ UNCHANGED <<disk, task, ghost>>
     \/ /\ rows[j.row] # NoRow /\ j.kind # "rescan"
        /\ RowBecomes(j.row, [rows[j.row] EXCEPT !.tried = TRUE, !.status = "unclear"])
        /\ UNCHANGED <<disk, task, ghost>>
     \/ /\ rows[j.row] # NoRow
        /\ RowBecomes(j.row, [rows[j.row] EXCEPT !.tried = TRUE, !.status = "identified",
                                                 !.aid = TRUE])
        /\ IF online
             THEN /\ disk' = [disk EXCEPT ![d] = IF @ = "video" THEN @ ELSE "other"]
                  /\ task' = IF Watched THEN Restarted({d}) ELSE task
             ELSE UNCHANGED <<disk, task>>
        /\ UNCHANGED ghost
  /\ UNCHANGED <<env, eps, queue, rename, budget>>

Worker ==
  \/ TakeJob \/ ScanOnline \/ ScanList \/ ScanNextDir \/ ScanSelect
  \/ ScanRecheck \/ ScanPurge \/ ScanDone \/ ApplyAnswer

-----------------------------------------------------------------------------
(* The API.                                                                *)

Spend == budget > 0 /\ budget' = budget - 1

\* POST /folders/{id}/rescan
RequestScan ==
  /\ running /\ CanQueue(1) /\ Spend
  /\ queue' = Append(queue, ScanJob)
  /\ UNCHANGED <<disk, env, db, worker, task, rename, ghost>>

JobsFor(kind, rs) ==
  LET order == SetToSeq(rs)
  IN [i \in 1..Len(order) |-> [kind |-> kind, row |-> order[i], dir |-> rows[order[i]].dir]]

\* enqueue_metadata_rescan and enqueue_pending_identifications: the paths
\* are those of this moment.
EnqueueForRows ==
  /\ running /\ RenameAside /\ Spend
  /\ \E kind \in {"rescan", "identify_if_pending"} :
       LET rs == {r \in Live : rows[r].status = IF kind = "rescan" THEN "identified" ELSE "pending"}
       IN /\ rs # {} /\ CanQueue(Cardinality(rs))
          /\ queue' = queue \o JobsFor(kind, rs)
  /\ UNCHANGED <<disk, env, db, worker, task, rename, ghost>>

\* The purge has found d gone and deletes its row within milliseconds.
Purging(d) == worker.pc = "delete" /\ worker.job.dir = d

\* PATCH /animes/{id}/episodes/{episode}: a number by hand, or back to the parser.
CorrectEpisode(d) ==
  /\ running /\ eps[d].row # 0 /\ Spend
  /\ \E byHand \in BOOLEAN :
       /\ eps' = [eps EXCEPT ![d] = [@ EXCEPT !.manual = byHand]]
       /\ corrected' = IF byHand /\ disk[d] = "video" /\ rows[eps[d].row].dir = d
                          /\ rename = NoRename /\ d \notin blurred /\ ~Purging(d)
                         THEN corrected \cup {d} ELSE corrected \ {d}
  /\ UNCHANGED <<disk, env, rows, queue, worker, task, rename, unseen, blurred>>

\* DELETE /animes/{id}: the row goes, the files stay.
DeleteAnime(r) ==
  /\ running /\ r \in Live /\ Spend
  /\ RowDeleted(r)
  /\ unseen' = unseen \cup {rows[r].dir}
  /\ corrected' = corrected \ {d \in Dirs : eps[d].row = r}
  /\ UNCHANGED <<disk, env, queue, worker, task, rename, blurred>>

\* rename_anime: the directory is renamed on disk, which the watcher sees, ...
RenameOnDisk(r, to) ==
  LET from == rows[r].dir IN
  /\ running /\ online /\ r \in Live /\ rows[r].aid
  /\ rename = NoRename /\ MayMeet("rename")
  /\ disk[from] # "absent" /\ disk[to] = "absent"
  /\ Spend
  /\ disk' = [disk EXCEPT ![to] = disk[from], ![from] = "absent"]
  /\ rename' = [pc |-> "moved", row |-> r, from |-> from, to |-> to, eps |-> eps[from].row = r]
  /\ Touched({from, to})
  /\ UNCHANGED <<env, db, queue, worker, corrected>>

\* ... then the recorded paths follow in one commit, which fails if one of the
\* rows is gone or another row has taken a path.  What was corrected at the
\* old path is then a directory that is gone.
RenameCommit ==
  LET r == rename.row
      possible == /\ rows[r] # NoRow
                  /\ rename.eps => eps[rename.from].row = r /\ eps[rename.to] = NoEp
                  /\ RowsAt(rename.to) = {}
  IN
  /\ rename.pc = "moved"
  /\ rename' = NoRename
  /\ IF possible
       THEN /\ RowBecomes(r, [rows[r] EXCEPT !.dir = rename.to])
            /\ eps'  = IF rename.eps THEN [eps EXCEPT ![rename.to] = eps[rename.from],
                                                      ![rename.from] = NoEp] ELSE eps
            /\ corrected' = IF rename.from \in corrected
                              THEN (corrected \ {rename.from}) \cup {rename.to} ELSE corrected
       ELSE UNCHANGED db /\ corrected' = corrected \ {rename.from}
  /\ UNCHANGED <<disk, env, queue, worker, task, budget, unseen, blurred>>

-----------------------------------------------------------------------------
(* The world around.                                                       *)

\* Somebody creates, fills, empties or removes a directory.
DiskChange(d) ==
  /\ Spend
  /\ \E s \in {"absent", "bare", "other", "video"} :
       /\ s # disk[d]
       /\ disk' = [disk EXCEPT ![d] = s]
  /\ Touched({d})
  /\ corrected' = corrected \ {d, IF rename.to = d THEN rename.from ELSE d}
  /\ UNCHANGED <<env, db, queue, worker, rename>>

ShareDrops ==
  /\ online /\ MayMeet("outage") /\ Spend
  /\ online' = FALSE
  /\ UNCHANGED <<disk, running, watching, db, queue, worker, task, rename, ghost>>

ShareReturns ==
  /\ ~online
  /\ online' = TRUE
  /\ UNCHANGED <<disk, running, watching, db, queue, worker, task, rename, budget, ghost>>

\* The core ends: everything in memory is gone, what is on disk stays.
Stop ==
  /\ running /\ RenameAside /\ Spend
  /\ running' = FALSE /\ watching' = FALSE
  /\ queue' = <<>> /\ worker' = IdleWorker /\ rename' = NoRename
  /\ task' = [p \in Procs |-> Idle]
  /\ unseen' = Dirs
  /\ UNCHANGED <<disk, online, db, blurred, corrected>>

\* start: watch first, then queue the scan, then the metadata rescan of the
\* identified anime the staleness rule leaves in.
Start ==
  /\ ~running
  /\ running' = TRUE /\ watching' = online
  /\ \E rs \in SUBSET {r \in Live : rows[r].status = "identified"} :
       /\ CanQueue(1 + Cardinality(rs))
       /\ queue' = <<ScanJob>> \o JobsFor("rescan", rs)
  /\ UNCHANGED <<disk, online, db, worker, task, rename, budget, ghost>>

Api ==
  \/ RequestScan \/ EnqueueForRows
  \/ \E d \in Dirs : CorrectEpisode(d)
  \/ \E r \in Ids : DeleteAnime(r) \/ \E to \in Dirs : RenameOnDisk(r, to)
  \/ RenameCommit

World == ShareDrops \/ ShareReturns \/ Stop \/ Start \/ \E d \in Dirs : DiskChange(d)

Init ==
  /\ disk \in [Dirs -> {"absent", "video"}]
  /\ online \in BOOLEAN /\ running = FALSE /\ watching = FALSE
  /\ rows = [r \in Ids |-> NoRow] /\ eps = [d \in Dirs |-> NoEp]
  /\ queue = <<>> /\ worker = IdleWorker /\ rename = NoRename
  /\ task = [p \in Procs |-> Idle]
  /\ budget = Budget
  /\ unseen = Dirs /\ blurred = {} /\ corrected = {}

Next == Worker \/ (\E d \in Dirs : Debounce(d)) \/ Process(Scan) \/ Api \/ World

Fairness ==
  /\ WF_vars(Worker) /\ WF_vars(Process(Scan)) /\ WF_vars(RenameCommit)
  /\ \A d \in Dirs : WF_vars(Debounce(d))

Spec     == Init /\ [][Next]_vars
FairSpec == Spec /\ Fairness

-----------------------------------------------------------------------------
(* Properties.                                                             *)

\* Nothing is in flight and every change has been looked at.
Quiet == running /\ watching /\ online /\ AllIdle

\* The catalogue says about d what the disk says.
InSync(d) ==
  /\ disk[d] = "video" => \E r \in RowsAt(d) : eps[d].row = r
  /\ disk[d] = "absent" => RowsAt(d) = {}
  /\ disk[d] # "video" => eps[d] = NoEp

(* Once the queue is drained and no check is running, the catalogue matches
   the disk for every directory that did not change while a full scan was
   inside it: whatever scans, events, restarts, outages and API calls came
   before, in whatever order (scanner.py, full_scan_folder and _debounce). *)
InSyncWhenQuiet == Quiet => \A d \in Dirs \ (unseen \cup blurred) : InSync(d)

(* "A manual number survives later scans" (animes.py:347): a file numbered by
   hand and untouched since keeps its episode row and its number, also when
   its directory is renamed and the rename recorded. *)
CorrectionsKept == \A d \in corrected : eps[d].row # 0 /\ eps[d].manual

(* A row waiting for its first identification always has somebody who will
   queue or run it: a job, a processor about to queue one, a check of its
   directory, or a scan that has yet to come to it (scanner.py, should_identify). *)
PendingIsScheduled ==
  \A r \in Live :
    (running /\ rows[r].status = "pending" /\ ~rows[r].tried
       /\ rows[r].dir \notin unseen /\ disk[rows[r].dir] # "absent") =>
      \/ \E i \in 1..Len(queue) : queue[i].row = r
      \/ worker.job.row = r
      \/ \E p \in Procs : task[p].dir = rows[r].dir
      \/ \E p \in Procs : task[p].row = r /\ task[p].should

(* A directory with a finished video in a watched, reachable root gets its
   row, unless it changes again first. *)
VideosGetRows ==
  \A d \in Dirs :
    (disk[d] = "video" /\ Watched /\ d \notin unseen)
      ~> (RowsAt(d) # {} \/ disk[d] # "video" \/ ~Watched \/ d \in unseen)
=============================================================================
