------------------------------- MODULE Downloads -------------------------------
(***************************************************************************)
(* Downloads of the core (core/app/downloads/service.py, handover.py,       *)
(* watch.py, isolation.py): a link is handed to a download client, at once  *)
(* or in the background after link resolvers had their turn; the list shows *)
(* how it goes; a watcher has the download folders scanned once the client  *)
(* reports a download done.                                                 *)
(*                                                                         *)
(* Plugin code runs on a thread of its own which nobody can stop: a caller  *)
(* that gives up leaves it working.  The database writes only the columns   *)
(* an operation has changed, however long ago it loaded the row.            *)
(*                                                                         *)
(* One client is configured.  A tick is a minute; database queries and      *)
(* status calls (30 s at most) take less.                                   *)
(***************************************************************************)
EXTENDS Naturals, FiniteSets

CONSTANTS
  Reqs,            \* requests
  Folders,         \* active download folders
  NoFolder,        \* no folder is known for the request
  MaxSteps,        \* resolver steps of one link (MAX_RESOLVE_STEPS)
  StepLimit,       \* ticks for one of them
  ResolveLimit,    \* ticks for all of them (RESOLVE_LIMIT_S)
  AddLimit,        \* ticks for the client to take the link
  GiveUp,          \* ticks after which a pending request counts as aborted
  CheckInterval,   \* ticks between two checks of the watcher
  RescanInterval,  \* ticks between two rescans of all folders; 0: never
  LateDelay,       \* ticks until the second scan
  UnpackTime,      \* ticks a client may still unpack after it has finished
  MaxOps           \* bound on the restarts and operations on the list

ASSUME DownloadAssumption ==
  /\ NoFolder \notin Folders
  /\ {MaxSteps, StepLimit, ResolveLimit, AddLimit, GiveUp, CheckInterval, LateDelay}
       \subseteq Nat \ {0}
  /\ RescanInterval \in Nat /\ UnpackTime \in Nat /\ MaxOps \in Nat
  /\ ResolveLimit + AddLimit <= GiveUp /\ UnpackTime < LateDelay

VARIABLES
  configured,  \* is the client still configured?
  row,         \* the request's row
  age,         \* ticks a pending request has waited
  job,         \* what the core does for the request: send or complete_handover
  threads,     \* requests whose link a plugin thread gives to the client
  client,      \* the download in the client
  unpack,      \* ticks left in which the client may still unpack it
  watcher,     \* the watcher of finished downloads
  late,        \* second scans to come: folder and ticks left
  queue,       \* folders with a scan in the job queue
  dirty,       \* ghost: requests with files no scan has come to yet
  noted,       \* ghost: requests this process has found finished
  ops          \* restarts and operations on the list so far

rows  == <<row, age>>
add   == <<job, threads>>
world == <<client, unpack>>
scans == <<late, queue>>
vars  == <<configured, rows, add, world, watcher, scans, dirty, noted, ops>>

(***************************************************************************)
(* Records.                                                                *)
(***************************************************************************)
NoRow == [handover |-> "none", handle |-> FALSE, dismissed |-> FALSE, finished |-> FALSE,
          folder |-> NoFolder, lands |-> NoFolder]
NoJob == [pc |-> "idle", steps |-> 0, left |-> 0, total |-> 0, folder |-> NoFolder,
          lands |-> NoFolder]
Asleep == [pc |-> "asleep", left |-> CheckInterval, since |-> 0, reqs |-> {}]

AnyFolder == Folders \cup {NoFolder}

Row     == [handover : {"none", "pending", "sent", "failed"}, handle : BOOLEAN,
            dismissed : BOOLEAN, finished : BOOLEAN, folder : AnyFolder, lands : AnyFolder]
Job     == [pc : {"idle", "direct", "resolve", "add"}, steps : 0..MaxSteps, left : Nat,
            total : 0..ResolveLimit, folder : AnyFolder, lands : AnyFolder]
Watcher == [pc : {"asleep", "asking", "report"}, left : 0..CheckInterval,
            since : 0..RescanInterval, reqs : SUBSET Reqs]

TypeOK ==
  /\ configured \in BOOLEAN /\ ops \in 0..MaxOps
  /\ row \in [Reqs -> Row] /\ age \in [Reqs -> 0..(GiveUp + 1)]
  /\ job \in [Reqs -> Job] /\ threads \subseteq Reqs
  /\ client \in [Reqs -> {"none", "running", "done", "gone"}]
  /\ unpack \in [Reqs -> 0..UnpackTime]
  /\ watcher \in Watcher
  /\ late \subseteq Folders \X (0..LateDelay) /\ queue \subseteq Folders
  /\ dirty \subseteq Reqs /\ noted \subseteq Reqs

-----------------------------------------------------------------------------
(* Sending.                                                                *)

\* A restart, or an operation on the list.
Operation == ops < MaxOps /\ ops' = ops + 1

Working(r) == job[r].pc # "idle"
Adding(r)  == job[r].pc \in {"direct", "add"}

\* A wrong Concluded that writes the row as it was loaded.
ConcludedAsLoaded(now, how, handle) ==
  [now EXCEPT !.handover = how, !.handle = handle, !.dismissed = FALSE]

\* What a background hand-over writes at its end.
Concluded(now, how, handle) == [now EXCEPT !.handover = how, !.handle = handle]

\* The job of r ends without the client's answer; only a row that waits for
\* the background says so.
Failed(r) ==
  /\ job' = [job EXCEPT ![r] = NoJob]
  /\ row' = IF job[r].pc = "direct" THEN row
            ELSE [row EXCEPT ![r] = Concluded(row[r], "failed", FALSE)]
  /\ age' = [age EXCEPT ![r] = 0]

\* send: the client takes the link right away, ...
SendNow(r, f, l) ==
  /\ configured /\ ~Working(r)
  /\ row[r] = NoRow /\ r \notin threads /\ client[r] = "none"
  /\ job' = [job EXCEPT ![r] = [NoJob EXCEPT !.pc = "direct", !.left = AddLimit,
                                             !.folder = f, !.lands = l]]
  /\ threads' = threads \cup {r}
  /\ UNCHANGED <<ops, configured, rows, world, watcher, scans, dirty, noted>>

\* ... or a resolver works on it first, in the background.
SendLater(r, f, l) ==
  /\ configured /\ ~Working(r)
  /\ row[r] = NoRow /\ r \notin threads /\ client[r] = "none"
  /\ row' = [row EXCEPT ![r] = [NoRow EXCEPT !.handover = "pending", !.folder = f, !.lands = l]]
  /\ job' = [job EXCEPT ![r] = [NoJob EXCEPT !.pc = "resolve", !.left = StepLimit,
                                             !.total = ResolveLimit]]
  /\ UNCHANGED <<ops, configured, age, threads, world, watcher, scans, dirty, noted>>

\* One resolver step is done: another one, or the client's turn.
Resolved(r) ==
  /\ job[r].pc = "resolve"
  /\ \/ /\ job[r].steps + 1 < MaxSteps
        /\ job' = [job EXCEPT ![r] = [job[r] EXCEPT !.steps = @ + 1, !.left = StepLimit]]
        /\ UNCHANGED threads
     \/ /\ job' = [job EXCEPT ![r] = [NoJob EXCEPT !.pc = "add", !.left = AddLimit]]
        /\ threads' = threads \cup {r}
  /\ UNCHANGED <<ops, configured, rows, world, watcher, scans, dirty, noted>>

\* A resolver fails, or the time for a step or for all of them is over.
ResolveFailed(r) ==
  /\ job[r].pc = "resolve"
  /\ Failed(r)
  /\ UNCHANGED <<ops, configured, threads, world, watcher, scans, dirty, noted>>

\* The plugin's add, on its thread: the client takes the link, and the answer,
\* with a handle to ask for progress or without one, is recorded if the core
\* still waits for it.
ClientTakes(r) ==
  /\ r \in threads
  /\ threads' = threads \ {r}
  /\ client' = [client EXCEPT ![r] = "running"]
  /\ IF ~Adding(r)
       THEN UNCHANGED <<rows, job>>
       ELSE /\ \E handle \in BOOLEAN :
                 row' = [row EXCEPT ![r] =
                           IF job[r].pc = "add" THEN Concluded(row[r], "sent", handle)
                           ELSE [NoRow EXCEPT !.handover = "sent", !.handle = handle,
                                              !.folder = job[r].folder, !.lands = job[r].lands]]
            /\ job' = [job EXCEPT ![r] = NoJob]
            /\ age' = [age EXCEPT ![r] = 0]
  /\ UNCHANGED <<ops, configured, unpack, watcher, scans, dirty, noted>>

\* The client or the plugin refuses the link.
ClientRefuses(r) ==
  /\ r \in threads
  /\ threads' = threads \ {r}
  /\ IF Adding(r) THEN Failed(r) ELSE UNCHANGED <<rows, job>>
  /\ UNCHANGED <<ops, configured, world, watcher, scans, dirty, noted>>

\* The core gives up waiting; the thread does not.
AddTimedOut(r) ==
  /\ Adding(r) /\ job[r].left = 0
  /\ Failed(r)
  /\ UNCHANGED <<ops, configured, threads, world, watcher, scans, dirty, noted>>

Handover(r) ==
  \/ Resolved(r) \/ ResolveFailed(r) \/ ClientTakes(r) \/ ClientRefuses(r)
  \/ AddTimedOut(r)

-----------------------------------------------------------------------------
(* Progress.                                                               *)

\* What the client says about a download it has a handle of (DONE_STATES).
IsDone(r)   == client[r] = "done"
CanAsk(r)   == row[r].handover = "sent" /\ row[r].handle
Listed(r)   == row[r] # NoRow /\ ~row[r].dismissed

\* poll_statuses: those of rs the client reports done; none if it is not
\* configured any more or does not answer.
Reported(rs, done) ==
  \/ done = {}
  \/ configured /\ done = {r \in rs : CanAsk(r) /\ IsDone(r)}

\* A wrong ToScan that passes over downloads without a folder.
ToScanKnown(done) == {row[r].folder : r \in done} \ {NoFolder}

\* The folders to scan for downloads found done: theirs, or all if one of
\* them has none.
ToScan(done) ==
  IF \A r \in done : row[r].folder # NoFolder THEN {row[r].folder : r \in done} ELSE Folders

\* A wrong Elapsed that never gets to the interval.
ElapsedNever == 0

Elapsed == watcher.since + 1

\* _run after each check: now and then all folders are scanned, too.
RoundEnds(found) ==
  LET due == RescanInterval > 0 /\ Elapsed >= RescanInterval IN
  /\ watcher' = [Asleep EXCEPT !.since = IF due \/ RescanInterval = 0 THEN 0 ELSE Elapsed]
  /\ queue' = queue \cup found \cup (IF due THEN Folders ELSE {})

\* FinishedDownloadsWatcher.check: the rows that are not finished yet, ...
CheckBegins ==
  LET pending == {r \in Reqs : Listed(r) /\ ~row[r].finished /\ CanAsk(r)} IN
  /\ watcher.pc = "asleep" /\ watcher.left = 0
  /\ IF pending = {}
       THEN RoundEnds({})
       ELSE watcher' = [watcher EXCEPT !.pc = "asking", !.reqs = pending] /\ UNCHANGED queue
  /\ UNCHANGED <<ops, configured, rows, add, world, late, dirty, noted>>

\* ... the client's answer, recorded once, ...
CheckAnswered ==
  /\ watcher.pc = "asking"
  /\ \E done \in SUBSET watcher.reqs :
       /\ Reported(watcher.reqs, done)
       /\ row' = [r \in Reqs |-> IF r \in done THEN [row[r] EXCEPT !.finished = TRUE] ELSE row[r]]
       /\ noted' = noted \cup done
       /\ IF done = {}
            THEN RoundEnds({})
            ELSE watcher' = [watcher EXCEPT !.pc = "report", !.reqs = done] /\ UNCHANGED queue
  /\ UNCHANGED <<ops, configured, age, add, world, late, dirty>>

\* ... and the scans: at once, and once more later.
CheckReports ==
  /\ watcher.pc = "report"
  /\ RoundEnds(ToScan(watcher.reqs))
  /\ late' = late \cup (ToScan(watcher.reqs) \X {LateDelay})
  /\ UNCHANGED <<ops, configured, rows, add, world, dirty, noted>>

\* _rescan_later
LateRescan ==
  /\ \E f \in Folders :
       /\ <<f, 0>> \in late
       /\ late' = late \ {<<f, 0>>} /\ queue' = queue \cup {f}
  /\ UNCHANGED <<ops, configured, rows, add, world, watcher, dirty, noted>>

Watch == CheckBegins \/ CheckAnswered \/ CheckReports

\* The job worker scans a folder (see LibraryScan).
ScanFolder(f) ==
  /\ f \in queue
  /\ queue' = queue \ {f} /\ dirty' = {r \in dirty : row[r].lands # f}
  /\ UNCHANGED <<ops, configured, rows, add, world, watcher, late, noted>>

\* clear_finished: what is done is hidden; after that the finished ones leave
\* the client's list too, unless they are seeding or it does not play along.
ClearFinished ==
  /\ Operation
  /\ \E done \in SUBSET {r \in Reqs : Listed(r)} :
       /\ Reported({r \in Reqs : Listed(r)}, done)
       /\ row' = [r \in Reqs |-> IF r \in done THEN [row[r] EXCEPT !.dismissed = TRUE] ELSE row[r]]
       /\ \E removed \in SUBSET done :
            client' = [r \in Reqs |-> IF r \in removed THEN "gone" ELSE client[r]]
  /\ UNCHANGED <<configured, age, add, unpack, watcher, scans, dirty, noted>>

\* dismiss
Dismiss(r) ==
  /\ row[r] # NoRow /\ ~row[r].dismissed /\ Operation
  /\ row' = [row EXCEPT ![r].dismissed = TRUE]
  /\ UNCHANGED <<configured, age, add, world, watcher, scans, dirty, noted>>

\* delete_integration; configured anew, the client has another id.
DeleteIntegration ==
  /\ configured /\ configured' = FALSE /\ Operation
  /\ UNCHANGED <<rows, add, world, watcher, scans, dirty, noted>>

-----------------------------------------------------------------------------
(* The world around.                                                       *)

\* The client is done: the files are there, or still to be unpacked.
ClientDone(r) ==
  /\ client[r] = "running"
  /\ client' = [client EXCEPT ![r] = "done"]
  /\ unpack' = [unpack EXCEPT ![r] = UnpackTime]
  /\ dirty' = dirty \cup {r}
  /\ UNCHANGED <<ops, configured, rows, add, watcher, scans, noted>>

ClientUnpacks(r) ==
  /\ unpack[r] > 0
  /\ unpack' = [unpack EXCEPT ![r] = 0]
  /\ dirty' = dirty \cup {r}
  /\ UNCHANGED <<ops, configured, rows, add, client, watcher, scans, noted>>

\* The process ends, with plugin threads that are through or are not, and
\* starts again: every folder is scanned.  (While it is down requests grow
\* older and clients go on, as they do before or after.)
Restart ==
  /\ Operation
  /\ \E through \in SUBSET threads :
       client' = [r \in Reqs |-> IF r \in through THEN "running" ELSE client[r]]
  /\ threads' = {} /\ job' = [r \in Reqs |-> NoJob]
  /\ watcher' = Asleep /\ late' = {} /\ noted' = {}
  /\ queue' = Folders
  /\ UNCHANGED <<configured, rows, unpack, dirty>>

\* Nothing is due that takes less than a tick or has run out of time.
Prompt ==
  /\ \A r \in Reqs :
       Working(r) => job[r].left > 0 /\ (job[r].pc = "resolve" => job[r].total > 0)
  /\ watcher.pc = "asleep" /\ watcher.left > 0
  /\ \A f \in Folders : <<f, 0>> \notin late

Down(n) == IF n = 0 THEN 0 ELSE n - 1

Tick ==
  /\ Prompt
  /\ age' = [r \in Reqs |-> IF row[r].handover = "pending" /\ age[r] <= GiveUp
                              THEN age[r] + 1 ELSE age[r]]
  /\ job' = [r \in Reqs |-> [job[r] EXCEPT !.left = Down(@), !.total = Down(@)]]
  /\ unpack' = [r \in Reqs |-> Down(unpack[r])]
  /\ watcher' = [watcher EXCEPT !.left = Down(@)]
  /\ late' = {<<v[1], Down(v[2])>> : v \in late}
  /\ UNCHANGED <<ops, configured, row, threads, client, queue, dirty, noted>>

Init ==
  /\ configured = TRUE /\ ops = 0
  /\ row = [r \in Reqs |-> NoRow] /\ age = [r \in Reqs |-> 0]
  /\ job = [r \in Reqs |-> NoJob] /\ threads = {}
  /\ client = [r \in Reqs |-> "none"] /\ unpack = [r \in Reqs |-> 0]
  /\ watcher = Asleep /\ late = {} /\ queue = {}
  /\ dirty = {} /\ noted = {}

Next ==
  \/ \E r \in Reqs :
       \/ \E l \in Folders, f \in AnyFolder :
            f \in {l, NoFolder} /\ (SendNow(r, f, l) \/ SendLater(r, f, l))
       \/ Dismiss(r) \/ ClientDone(r) \/ ClientUnpacks(r)
       \/ Handover(r)
  \/ Watch \/ LateRescan \/ (\E f \in Folders : ScanFolder(f)) \/ ClearFinished \/ DeleteIntegration
  \/ Restart \/ Tick

Spec == Init /\ [][Next]_vars

(***************************************************************************)
(* Time passes, however busy the API is; the core's tasks and the job       *)
(* worker go on.                                                           *)
(***************************************************************************)
FairSpec ==
  /\ Spec /\ SF_vars(Tick) /\ WF_vars(Watch) /\ WF_vars(LateRescan)
  /\ \A f \in Folders : WF_vars(ScanFolder(f))
  /\ \A r \in Reqs : WF_vars(Handover(r))
-----------------------------------------------------------------------------
(* Properties.                                                             *)

\* A pending request is given up after a while.
GivenUp(r) == row[r].handover = "pending" /\ age[r] > GiveUp

\* What the list shows of a request.
Shown(r) ==
  IF row[r] = NoRow THEN "nothing"
  ELSE IF row[r].dismissed THEN "hidden"
  ELSE IF row[r].handover = "failed" \/ GivenUp(r) THEN "error"
  ELSE IF row[r].handover = "pending" THEN "resolving"
  ELSE "sent"

List == INSTANCE DownloadList WITH shown <- [r \in Reqs |-> Shown(r)]

(* The list keeps its promises: above all, a request it calls aborted, "please
   send it again" (service.py, poll_statuses), is not handed over after all,
   because resolving and adding have limits that end before; and what the user
   hides stays hidden, though a hand-over loaded the row minutes earlier. *)
ListKeepsItsWord == List!Spec

(* For every download this process has found finished, files no scan has seen
   have one to come, now or a little later, also those unpacked after it
   (watch.py, check). *)
FinishedIsFollowedUp ==
  \A r \in noted \cap dirty :
    \/ row[r].lands \in queue
    \/ \E n \in 0..LateDelay : <<row[r].lands, n>> \in late
    \/ watcher.pc = "report" /\ r \in watcher.reqs

(* "Every download folder is also rescanned now and then" (watch.py:5): files
   of a request get scanned even if the user hid it, its client was removed or
   never answers. *)
FilesGetScanned ==
  \A r \in Reqs : r \in dirty /\ row[r] # NoRow ~> r \notin dirty
=============================================================================
