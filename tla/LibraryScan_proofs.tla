-------------------------- MODULE LibraryScan_proofs --------------------------
(***************************************************************************)
(* Proofs about LibraryScan, in four stages.                               *)
(*                                                                         *)
(* TInv types every variable, and says which processors, jobs and renames  *)
(* refer to a row and a directory.  Each action has a lemma that says what *)
(* it does in terms of fields (SettleStep, ..., CommitStep), which the     *)
(* stages share.                                                           *)
(*                                                                         *)
(* PInv is the invariant behind PendingIsScheduled: of every row that waits *)
(* for its identification either somebody in flight will take it up, or    *)
(* nothing in flight is about its directory and no scan has come to it.    *)
(* One lemma per action (...Keeps) shows that the step hands a row on.     *)
(*                                                                         *)
(* CInv is the invariant behind CorrectionsKept: what each processor and   *)
(* the purge have read of the disk and of the rows is still so, or will be *)
(* looked at again, and the file of a correction is where its row says.    *)
(* One lemma per action (...Fits) again.                                   *)
(*                                                                         *)
(* SInv is the invariant behind InSyncWhenQuiet: a directory that somebody *)
(* has looked at is recorded as it is, or a processor will leave it so, or *)
(* the purge has its rows (Settled).  One lemma per action (...Settles).   *)
(***************************************************************************)
EXTENDS LibraryScan, FiniteSetTheorems, WellFoundedInduction, TLAPS

\* What the assumption on the constants says of the sets built from them.
LEMMA Constants ==
  /\ NoDir \notin Dirs /\ Scan \notin Dirs /\ Scan \in Procs /\ Dirs \subseteq Procs
  /\ \A p \in Procs : p # Scan => p \in Dirs
  /\ Ids \subseteq Nat /\ 0 \notin Ids
  /\ MaxRows \in Nat /\ Budget \in Nat /\ IsFiniteSet(Ids)
<1>1. MaxRows \in Nat /\ 1 \in Int /\ MaxRows \in Int
  BY LibraryAssumption
<1>2. IsFiniteSet(Ids)
  BY <1>1, FS_Interval DEF Ids
<1> QED
  BY <1>1, <1>2, LibraryAssumption DEF Procs, Ids

(* The records of what is not there, and of a check that starts. *)
LEMMA EmptyRecords ==
  /\ Idle \in Processor /\ Idle.pc = "idle" /\ Idle.dir = NoDir /\ Idle.row = 0
  /\ Idle.should = FALSE /\ Idle.known = {} /\ Idle.found = FALSE
  /\ NoRow \in Row /\ NoRow.dir = NoDir /\ NoRow.status = "none" /\ NoRow.aid = FALSE
  /\ NoEp \in Episode /\ NoEp.row = 0 /\ NoEp.manual = FALSE
  /\ NoJob \in Job /\ NoJob.row = 0 /\ NoJob.dir = NoDir /\ NoJob.kind = "none"
  /\ ScanJob \in Job /\ ScanJob.row = 0 /\ ScanJob.dir = NoDir /\ ScanJob.kind = "scan"
  /\ IdleWorker \in WorkerState /\ IdleWorker.pc = "idle" /\ IdleWorker.job = NoJob
  /\ IdleWorker.rest = {} /\ IdleWorker.listed = {} /\ IdleWorker.todo = {}
  /\ NoRename \in RenameState /\ NoRename.pc = "idle" /\ NoRename.from = NoDir
  /\ NoRename.row = 0 /\ NoRename.to = NoDir
BY DEF Idle, Processor, NoRow, Row, NoEp, Episode, NoJob, ScanJob, Job, IdleWorker,
       WorkerState, NoRename, RenameState

LEMMA SettlingFields ==
  ASSUME NEW d \in Dirs
  PROVE  /\ Settling(d) \in Processor /\ Settling(d).pc = "settling" /\ Settling(d).dir = d
         /\ Settling(d).row = 0 /\ Settling(d).should = FALSE /\ Settling(d).known = {}
BY DEF Settling, Idle, Processor

(* One processor of directories, or one row, changes. *)
LEMMA TaskStep ==
  ASSUME task \in [Procs -> Processor], NEW p \in Procs, NEW t \in Processor, Becomes(p, t)
  PROVE  /\ task' \in [Procs -> Processor] /\ task'[p] = t
         /\ \A q \in Procs : q # p => task'[q] = task[q]
BY DEF Becomes

LEMMA RowStep ==
  ASSUME rows \in [Ids -> Row], NEW r \in Ids, NEW v \in Row, RowBecomes(r, v)
  PROVE  /\ rows' \in [Ids -> Row] /\ rows'[r] = v
         /\ \A q \in Ids : q # r => rows'[q] = rows[q]
BY DEF RowBecomes

(* A check starts in each of the changed directories. *)
LEMMA RestartStep ==
  ASSUME task \in [Procs -> Processor], NEW ds \in SUBSET Dirs, task' = Restarted(ds)
  PROVE  /\ task' \in [Procs -> Processor]
         /\ \A p \in Procs : IF p \in ds THEN task'[p] = Settling(p) ELSE task'[p] = task[p]
<1>1. \A p \in Procs : IF p \in ds THEN task'[p] = Settling(p) ELSE task'[p] = task[p]
  BY DEF Restarted
<1>2. \A p \in Procs : task'[p] \in Processor
  BY <1>1, SettlingFields
<1> QED
  BY <1>1, <1>2 DEF Restarted

-----------------------------------------------------------------------------
(* Types. *)

\* A processor at work is in a directory, a debounce task in its own, and
\* from some point on it has the id of a row.
WithRow == {"forget", "read", "walk", "record"}
Fit(p, t) ==
  \/ t = Idle
  \/ /\ t.pc # "idle" /\ t.dir \in Dirs /\ (p # Scan => t.dir = p)
     /\ t.pc \in WithRow => t.row \in Ids

\* A job is a scan or names a row and its directory of some moment.
JobFit(j) == j = ScanJob \/ (j.kind # "scan" /\ j.row \in Ids /\ j.dir \in Dirs)

RowsFit   == \A r \in Ids : rows[r] # NoRow => rows[r].dir \in Dirs
TasksFit  == \A p \in Procs : Fit(p, task[p])
RenameFit == \/ rename = NoRename
             \/ /\ rename.pc = "moved" /\ rename.row \in Ids
                /\ rename.from \in Dirs /\ rename.to \in Dirs

JobsFit   == /\ \A i \in 1..Len(queue) : JobFit(queue[i])
             /\ worker.pc = "apply" => JobFit(worker.job) /\ worker.job # ScanJob

TInv == TypeOK /\ RowsFit /\ TasksFit /\ RenameFit /\ JobsFit

LEMMA TypedInit ==
  ASSUME Init
  PROVE  TInv
<1>1. queue \in Seq(Job)
  BY DEF Init
<1>2. /\ task \in [Procs -> Processor] /\ rows \in [Ids -> Row] /\ eps \in [Dirs -> Episode]
      /\ worker \in WorkerState /\ rename \in RenameState
  BY EmptyRecords DEF Init
<1>3. disk \in [Dirs -> {"absent", "bare", "other", "video"}]
  BY DEF Init
<1>4. budget \in 0..Budget
  BY Constants DEF Init
<1>5. TypeOK
  BY <1>1, <1>2, <1>3, <1>4 DEF Init, TypeOK
<1>6. RowsFit /\ TasksFit /\ RenameFit
  BY DEF Init, RowsFit, TasksFit, Fit, RenameFit
<1>7. JobsFit
  <2>1. queue = <<>> /\ Len(queue) = 0 /\ worker.pc = "idle"
    BY EmptyRecords DEF Init
  <2> QED
    BY <2>1 DEF JobsFit
<1> QED
  BY <1>5, <1>6, <1>7 DEF TInv

(* What a step of one processor leaves typed. *)
LEMMA ProcessorGoes ==
  ASSUME TInv, NEW p \in Procs, NEW t \in Processor, Becomes(p, t), Fit(p, t)
  PROVE  task' \in [Procs -> Processor] /\ TasksFit'
BY TaskStep DEF TInv, TypeOK, TasksFit, Fit

LEMMA ProcessorEnds ==
  ASSUME TInv, NEW p \in Procs, Ended(p) \/ Failed(p)
  PROVE  /\ task' \in [Procs -> Processor] /\ TasksFit'
         /\ Becomes(p, Idle)
         /\ worker' \in WorkerState
<1>1. Fit(p, Idle)
  BY DEF Fit
<1>2. Becomes(p, Idle) /\ (worker' = worker \/ worker' = IdleWorker)
  BY DEF Ended, Failed
<1>3. worker' \in WorkerState
  BY <1>2, EmptyRecords DEF TInv, TypeOK
<1> QED
  BY <1>1, <1>2, <1>3, ProcessorGoes, EmptyRecords

LEMMA RestartFits ==
  ASSUME TInv, NEW ds \in SUBSET Dirs, task' = Restarted(ds) \/ task' = task
  PROVE  task' \in [Procs -> Processor] /\ TasksFit'
<1>1. task \in [Procs -> Processor] /\ \A p \in Procs : Fit(p, task[p])
  BY DEF TInv, TypeOK, TasksFit
<1>2. CASE task' = task
  BY <1>1, <1>2 DEF TasksFit
<1>3. CASE task' = Restarted(ds)
  <2>1. /\ task' \in [Procs -> Processor]
        /\ \A p \in Procs : IF p \in ds THEN task'[p] = Settling(p) ELSE task'[p] = task[p]
    BY <1>1, <1>3, RestartStep
  <2>2. ASSUME NEW p \in ds PROVE Fit(p, Settling(p))
    BY SettlingFields DEF Fit, WithRow
  <2> QED
    BY <1>1, <2>1, <2>2 DEF TasksFit
<1> QED
  BY <1>2, <1>3

LEMMA TouchFits ==
  ASSUME TInv, NEW ds \in SUBSET Dirs, Touched(ds)
  PROVE  /\ task' \in [Procs -> Processor] /\ TasksFit'
         /\ unseen' \subseteq Dirs /\ blurred' \subseteq Dirs
BY RestartFits DEF Touched, TInv, TypeOK

LEMMA DeletionFits ==
  ASSUME TInv, NEW r \in Ids \cup {0}, RowDeleted(r)
  PROVE  rows' \in [Ids -> Row] /\ eps' \in [Dirs -> Episode] /\ RowsFit'
<1>1. eps' \in [Dirs -> Episode]
  BY EmptyRecords DEF TInv, TypeOK, RowDeleted
<1>2. CASE r \in Ids
  BY <1>1, <1>2, RowStep, EmptyRecords DEF TInv, TypeOK, RowDeleted, RowsFit
<1>3. CASE r \notin Ids
  BY <1>1, <1>3, Constants DEF TInv, TypeOK, RowDeleted, RowsFit, RowBecomes
<1> QED
  BY <1>1, <1>2, <1>3

-----------------------------------------------------------------------------
(* What the steps of a processor do to it. *)

\* Processor p is at pc now, with these fields; the others stay.
Turns(p, pc, r, should, known, found) ==
  /\ task' \in [Procs -> Processor]
  /\ \A q \in Procs : q # p => task'[q] = task[q]
  /\ task'[p].pc = pc /\ task'[p].dir = task[p].dir /\ task'[p].row = r
  /\ task'[p].should = should /\ task'[p].known = known /\ task'[p].found = found

Stops(p) ==
  /\ task' \in [Procs -> Processor] /\ task'[p] = Idle
  /\ \A q \in Procs : q # p => task'[q] = task[q]

Pcs == {"idle", "settling", "gone", "forget", "lookup", "probe",
        "create", "read", "walk", "record"}

LEMMA TurnedTo ==
  ASSUME TInv, NEW p \in Procs, NEW t \in Processor, Becomes(p, t), t.dir = task[p].dir
  PROVE  Turns(p, t.pc, t.row, t.should, t.known, t.found)
<1>1. task \in [Procs -> Processor]
  BY DEF TInv, TypeOK
<1> QED
  BY <1>1, TaskStep DEF Turns

LEMMA ProcessorFields ==
  ASSUME TInv, NEW p \in Procs
  PROVE  /\ task[p].pc \in Pcs /\ task[p].dir \in Dirs \cup {NoDir} /\ task[p].row \in Ids \cup {0}
         /\ task[p].should \in BOOLEAN /\ task[p].known \in SUBSET Dirs /\ task[p].found \in BOOLEAN
         /\ task[p].pc # "idle" => task[p].dir \in Dirs /\ (p # Scan => task[p].dir = p)
         /\ task[p].pc \in WithRow => task[p].row \in Ids
         /\ task[p].pc = "idle" => task[p] = Idle
<1>1. task[p] \in Processor /\ Fit(p, task[p])
  BY DEF TInv, TypeOK, TasksFit
<1>2. /\ task[p].pc \in Pcs /\ task[p].dir \in Dirs \cup {NoDir} /\ task[p].row \in Ids \cup {0}
      /\ task[p].should \in BOOLEAN /\ task[p].known \in SUBSET Dirs /\ task[p].found \in BOOLEAN
  BY <1>1 DEF Processor, Pcs
<1> QED
  BY <1>1, <1>2, EmptyRecords DEF Fit, WithRow

LEMMA GoneTo ==
  ASSUME TInv, NEW p \in Procs, NEW pc \in Pcs, Goto(p, pc)
  PROVE  Turns(p, pc, task[p].row, task[p].should, task[p].known, task[p].found)
<1>1. task[p] \in Processor
  BY DEF TInv, TypeOK
<1>2. PICK t : t = [task[p] EXCEPT !.pc = pc]
  OBVIOUS
<1>3. /\ t \in Processor /\ t.pc = pc /\ t.dir = task[p].dir /\ t.row = task[p].row
      /\ t.should = task[p].should /\ t.known = task[p].known /\ t.found = task[p].found
  BY <1>1, <1>2 DEF Processor, Pcs
<1>4. Becomes(p, t)
  BY <1>2 DEF Goto
<1>5. Turns(p, t.pc, t.row, t.should, t.known, t.found)
  BY <1>3, <1>4, TurnedTo
<1> QED
  BY <1>3, <1>5

LEMMA Stopped ==
  ASSUME TInv, NEW p \in Procs, Becomes(p, Idle)
  PROVE  Stops(p)
BY EmptyRecords, TaskStep DEF TInv, TypeOK, Stops

(* _stabilize_and_process and _handle_removed. *)
LEMMA SettleStep ==
  ASSUME TInv, NEW d \in Dirs, Settle(d)
  PROVE  \E pc \in {"gone", "lookup"} :
           /\ Turns(d, pc, task[d].row, task[d].should, task[d].known, task[d].found)
           /\ pc = "gone" => ~online \/ disk[d] = "absent"
           /\ pc = "lookup" => disk[d] # "absent"
BY Constants, GoneTo DEF Settle, Pcs

LEMMA FindGoneStep ==
  ASSUME TInv, NEW d \in Dirs, FindGone(d)
  PROVE  \/ RowsAt(d) = {} /\ Stops(d) /\ UNCHANGED worker
         \/ /\ UNCHANGED worker
            /\ \E r \in RowsAt(d) : Turns(d, "forget", r, task[d].should, task[d].known, task[d].found)
<1>1. d \in Procs
  BY Constants
<1>2. CASE RowsAt(d) = {}
  BY <1>1, <1>2, Stopped DEF FindGone, Ended
<1>3. CASE RowsAt(d) # {}
  <2>1. PICK r \in RowsAt(d) : Becomes(d, [task[d] EXCEPT !.pc = "forget", !.row = r]) /\ UNCHANGED worker
    BY <1>3 DEF FindGone
  <2>2. r \in Ids
    BY DEF RowsAt, Live
  <2>3. PICK t : t = [task[d] EXCEPT !.pc = "forget", !.row = r]
    OBVIOUS
  <2>4. /\ t \in Processor /\ t.pc = "forget" /\ t.dir = task[d].dir /\ t.row = r
        /\ t.should = task[d].should /\ t.known = task[d].known /\ t.found = task[d].found
    BY <1>1, <2>2, <2>3 DEF TInv, TypeOK, Processor
  <2>5. Turns(d, t.pc, t.row, t.should, t.known, t.found)
    BY <1>1, <2>1, <2>3, <2>4, TurnedTo
  <2> QED
    BY <2>1, <2>4, <2>5
<1> QED
  BY <1>2, <1>3

LEMMA LookupStep ==
  ASSUME TInv, NEW p \in Procs, Lookup(p)
  PROVE  \/ /\ RowsAt(task[p].dir) = {}
            /\ Turns(p, "probe", task[p].row, task[p].should, task[p].known, task[p].found)
         \/ \E r \in RowsAt(task[p].dir) :
              Turns(p, "read", r, ShouldIdentify(r), task[p].known, task[p].found)
<1>1. CASE RowsAt(task[p].dir) = {}
  BY <1>1, GoneTo DEF Lookup, Pcs
<1>2. CASE RowsAt(task[p].dir) # {}
  <2>1. PICK r \in RowsAt(task[p].dir) :
          Becomes(p, [task[p] EXCEPT !.pc = "read", !.row = r, !.should = ShouldIdentify(r)])
    BY <1>2 DEF Lookup
  <2>2. r \in Ids /\ ShouldIdentify(r) \in BOOLEAN
    BY DEF RowsAt, Live, ShouldIdentify
  <2>3. PICK b \in BOOLEAN : b = ShouldIdentify(r)
    BY <2>2
  <2>4. PICK t : t = [task[p] EXCEPT !.pc = "read", !.row = r, !.should = b]
    OBVIOUS
  <2>5. /\ t \in Processor /\ t.pc = "read" /\ t.dir = task[p].dir /\ t.row = r
        /\ t.should = b /\ t.known = task[p].known /\ t.found = task[p].found
    BY <2>2, <2>4 DEF TInv, TypeOK, Processor
  <2>6. Turns(p, t.pc, t.row, t.should, t.known, t.found)
    BY <2>1, <2>3, <2>4, <2>5, TurnedTo
  <2> QED
    BY <2>3, <2>5, <2>6
<1> QED
  BY <1>1, <1>2

LEMMA ProbeStep ==
  ASSUME TInv, NEW p \in Procs, Probe(p)
  PROVE  /\ UNCHANGED worker
         /\ \/ /\ disk[task[p].dir] = "video"
               /\ Turns(p, "create", task[p].row, task[p].should, task[p].known, task[p].found)
            \/ Stops(p) /\ ~(online /\ disk[task[p].dir] = "video")
BY GoneTo, Stopped DEF Probe, Ended, Pcs

LEMMA ReadStep ==
  ASSUME TInv, NEW p \in Procs, ReadEpisodes(p)
  PROVE  Turns(p, "walk", task[p].row, task[p].should,
               {x \in Dirs : eps[x].row = task[p].row}, task[p].found)
<1>1. PICK ks \in SUBSET Dirs : ks = {x \in Dirs : eps[x].row = task[p].row}
  OBVIOUS
<1>2. PICK t : t = [task[p] EXCEPT !.pc = "walk", !.known = ks]
  OBVIOUS
<1>3. /\ t \in Processor /\ t.pc = "walk" /\ t.dir = task[p].dir /\ t.row = task[p].row
      /\ t.should = task[p].should /\ t.known = ks /\ t.found = task[p].found
  BY <1>2 DEF TInv, TypeOK, Processor
<1>4. Becomes(p, t)
  BY <1>1, <1>2 DEF ReadEpisodes
<1>5. Turns(p, t.pc, t.row, t.should, t.known, t.found)
  BY <1>3, <1>4, TurnedTo
<1> QED
  BY <1>1, <1>3, <1>5

LEMMA WalkStep ==
  ASSUME TInv, NEW p \in Procs, Walk(p)
  PROVE  Turns(p, "record", task[p].row, task[p].should, task[p].known,
               (online /\ disk[task[p].dir] = "video"))
<1>1. PICK b \in BOOLEAN : b = (online /\ disk[task[p].dir] = "video")
  OBVIOUS
<1>2. PICK t : t = [task[p] EXCEPT !.pc = "record", !.found = b]
  OBVIOUS
<1>3. /\ t \in Processor /\ t.pc = "record" /\ t.dir = task[p].dir /\ t.row = task[p].row
      /\ t.should = task[p].should /\ t.known = task[p].known /\ t.found = b
  BY <1>2 DEF TInv, TypeOK, Processor
<1>4. Becomes(p, t)
  BY <1>1, <1>2 DEF Walk
<1>5. Turns(p, t.pc, t.row, t.should, t.known, t.found)
  BY <1>3, <1>4, TurnedTo
<1> QED
  BY <1>1, <1>3, <1>5

LEMMA QueuedJobs ==
  ASSUME TInv
  PROVE  /\ queue \in Seq(Job)
         /\ \A i \in 1..Len(queue) :
              /\ queue[i] \in Job /\ queue[i].row \in Ids \cup {0}
              /\ queue[i].dir \in Dirs \cup {NoDir}
<1>1. queue \in Seq(Job)
  BY DEF TInv, TypeOK
<1>2. \A i \in 1..Len(queue) : queue[i] \in Job
  BY <1>1
<1> QED
  BY <1>1, <1>2 DEF Job

LEMMA WorkerFields ==
  ASSUME TInv
  PROVE  /\ worker.job \in Job /\ worker.job.row \in Ids \cup {0} /\ worker.job.dir \in Dirs \cup {NoDir}
         /\ worker.listed \subseteq Dirs /\ worker.todo \subseteq Dirs
         /\ \A v \in worker.rest : v[1] \in Ids /\ v[2] \in Dirs
         /\ rename.row \in Ids \cup {0}
BY DEF TInv, TypeOK, WorkerState, RenameState, Job

(* A scan's listed directory is its next one. *)
LEMMA NextDirStep ==
  ASSUME TInv, ScanNextDir
  PROVE  \E d \in worker.todo :
           /\ d \in Dirs
           /\ task' \in [Procs -> Processor]
           /\ \A q \in Procs : q # Scan => task'[q] = task[q]
           /\ task'[Scan].pc = "lookup" /\ task'[Scan].dir = d /\ task'[Scan].row = 0
           /\ task'[Scan].should = FALSE /\ task'[Scan].known = {}
           /\ worker' = [worker EXCEPT !.todo = @ \ {d}]
<1>1. PICK d \in worker.todo :
        /\ Becomes(Scan, [Idle EXCEPT !.pc = "lookup", !.dir = d])
        /\ worker' = [worker EXCEPT !.todo = @ \ {d}]
  BY DEF ScanNextDir
<1>2. d \in Dirs /\ task \in [Procs -> Processor] /\ Scan \in Procs
  BY Constants DEF TInv, TypeOK, WorkerState
<1>3. PICK t : t = [Idle EXCEPT !.pc = "lookup", !.dir = d]
  OBVIOUS
<1>4. /\ t \in Processor /\ t.pc = "lookup" /\ t.dir = d /\ t.row = 0
      /\ t.should = FALSE /\ t.known = {}
  BY <1>2, <1>3 DEF Idle, Processor
<1>5. task' \in [Procs -> Processor] /\ task'[Scan] = t /\ \A q \in Procs : q # Scan => task'[q] = task[q]
  BY <1>1, <1>2, <1>3, <1>4, TaskStep
<1> QED
  BY <1>1, <1>2, <1>4, <1>5

LEMMA LeastOf ==
  ASSUME NEW S \in SUBSET Nat, S # {}
  PROVE  Least(S) \in S /\ \A q \in S : Least(S) <= q
<1>1. OpToRel(<, Nat) = {v \in Nat \X Nat : v[1] < v[2]}
  BY DEF OpToRel
<1>2. PICK i \in S : \A j \in S : <<j, i>> \notin {v \in Nat \X Nat : v[1] < v[2]}
  BY <1>1, WFMin, NatLessThanWellFounded
<1>3. \A j \in S : ~(j < i)
  BY <1>2
<1>4. \A j \in S : i <= j
  BY <1>3
<1> QED
  BY <1>4, ZenonT(40) DEF Least

(* The id of a new row is one no row has, and without "reuse" one that
   nothing in flight refers to. *)
LEMMA NextIdIsNew ==
  ASSUME TInv
  PROVE  /\ NextId \in 1..(MaxRows + 1) /\ NextId \notin Live
         /\ "reuse" \notin Overlap => NextId \notin Held
<1>1. MaxRows \in Nat /\ MaxRows + 1 \in 1..(MaxRows + 1) /\ 1..(MaxRows + 1) \subseteq Nat
  BY Constants
<1>2. MaxRows + 1 \notin Live /\ Live \subseteq Ids
  BY <1>1 DEF Live, Ids
<1>3. CASE "reuse" \in Overlap
  <2> DEFINE S == {r \in 1..(MaxRows + 1) : \A q \in Live : q < r}
  <2>1. MaxRows + 1 \in S
    BY <1>1, <1>2 DEF Ids
  <2>2. S \in SUBSET Nat /\ S # {}
    BY <1>1, <2>1
  <2>3. NextId = Least(S)
    BY <1>3 DEF NextId
  <2>4. Least(S) \in S
    <3> HIDE DEF S
    <3> QED
      BY <2>2, LeastOf
  <2>5. NextId \in 1..(MaxRows + 1) /\ \A q \in Live : q < NextId
    BY <2>3, <2>4
  <2>6. NextId \in Nat /\ ~(NextId < NextId)
    BY <1>1, <2>5
  <2>7. NextId \notin Live
    BY <2>5, <2>6
  <2> QED
    BY <1>3, <2>5, <2>7
<1>4. CASE "reuse" \notin Overlap
  <2> DEFINE S == 1..(MaxRows + 1) \ (Live \cup Held)
  <2>1. Held \subseteq Ids \cup {0}
    <3>1. \A i \in 1..Len(queue) : queue[i].row \in Ids \cup {0}
      BY QueuedJobs
    <3>2. worker.job.row \in Ids \cup {0} /\ rename.row \in Ids \cup {0}
      BY WorkerFields
    <3>3. \A v \in worker.rest : v[1] \in Ids
      BY WorkerFields
    <3>4. \A p \in Procs : task[p].row \in Ids \cup {0}
      BY ProcessorFields
    <3> QED
      BY <3>1, <3>2, <3>3, <3>4 DEF Held
  <2>2. MaxRows + 1 \notin Ids \cup {0}
    BY <1>1 DEF Ids
  <2>3. S \in SUBSET Nat /\ S # {}
    BY <1>1, <1>2, <2>1, <2>2
  <2>4. NextId = Least(S)
    BY <1>4 DEF NextId
  <2>5. Least(S) \in S
    <3> HIDE DEF S
    <3> QED
      BY <2>3, LeastOf
  <2> QED
    BY <2>4, <2>5
<1> QED
  BY <1>3, <1>4

\* Row n is new and waits for its identification.
NewRow(n, d) ==
  /\ rows' \in [Ids -> Row] /\ \A q \in Ids : q # n => rows'[q] = rows[q]
  /\ rows'[n].dir = d /\ rows'[n].status = "pending" /\ rows'[n].aid = FALSE /\ rows'[n].tried = FALSE
  /\ rows'[n] # NoRow

LEMMA CreateStep ==
  ASSUME TInv, NEW p \in Procs, Create(p)
  PROVE  \/ RowsAt(task[p].dir) # {} /\ Failed(p) /\ UNCHANGED rows
         \/ /\ RowsAt(task[p].dir) = {} /\ UNCHANGED worker
            /\ \E n \in Ids :
                 /\ n \notin Live /\ NewRow(n, task[p].dir)
                 /\ ("reuse" \notin Overlap => n \notin Held)
                 /\ Turns(p, "read", n, TRUE, task[p].known, task[p].found)
<1>1. CASE RowsAt(task[p].dir) # {}
  BY <1>1 DEF Create
<1>2. CASE RowsAt(task[p].dir) = {}
  <2>1. PICK n : n = NextId
    OBVIOUS
  <2>2. PICK v : v = [dir |-> task[p].dir, status |-> "pending", aid |-> FALSE, tried |-> FALSE]
    OBVIOUS
  <2>3. PICK t : t = [task[p] EXCEPT !.pc = "read", !.row = n, !.should = TRUE]
    OBVIOUS
  <2>4. /\ n <= MaxRows /\ RowBecomes(n, v) /\ Becomes(p, t) /\ UNCHANGED worker
    BY <1>2, <2>1, <2>2, <2>3 DEF Create
  <2>5. n \in Ids /\ n \notin Live /\ ("reuse" \notin Overlap => n \notin Held)
    BY <2>1, <2>4, NextIdIsNew, Constants DEF Ids
  <2>6. task[p] \in Processor /\ rows \in [Ids -> Row] /\ task[p].dir \in Dirs \cup {NoDir}
    BY ProcessorFields DEF TInv, TypeOK
  <2>7. /\ t \in Processor /\ t.pc = "read" /\ t.dir = task[p].dir /\ t.row = n
        /\ t.should = TRUE /\ t.known = task[p].known /\ t.found = task[p].found
    BY <2>3, <2>5, <2>6 DEF Processor
  <2>8. v \in Row /\ v.dir = task[p].dir /\ v.status = "pending" /\ v.aid = FALSE /\ v.tried = FALSE
    BY <2>2, <2>6 DEF Row
  <2>9. v # NoRow
    BY <2>8, EmptyRecords
  <2>10. NewRow(n, task[p].dir)
    BY <2>4, <2>5, <2>6, <2>8, <2>9, RowStep DEF NewRow
  <2>11. Turns(p, t.pc, t.row, t.should, t.known, t.found)
    BY <2>4, <2>7, TurnedTo
  <2> QED
    BY <1>2, <2>4, <2>5, <2>7, <2>10, <2>11
<1> QED
  BY <1>1, <1>2

(* The jobs of some rows: one for each, with the path of the moment. *)
LEMMA JobsOfRows ==
  ASSUME TInv, NEW rs \in SUBSET Ids, NEW kind \in {"identify_if_pending", "rescan"}
  PROVE  /\ JobsFor(kind, rs) \in Seq(Job)
         /\ \A i \in 1..Len(JobsFor(kind, rs)) : \E r \in rs :
              JobsFor(kind, rs)[i] = [kind |-> kind, row |-> r, dir |-> rows[r].dir]
<1>1. IsFiniteSet(rs)
  BY Constants, FS_Subset
<1>2. PICK n : n = Cardinality(rs)
  OBVIOUS
<1>3. n \in Nat /\ \E f : f \in [1..n -> rs] /\ IsInjective(f)
  <2>1. n \in Nat /\ ExistsBijection(1..n, rs)
    BY <1>1, <1>2, FS_CardinalityType
  <2> QED
    BY <2>1 DEF ExistsBijection, Bijection, Injection
<1>4. PICK order : order = SetToSeq(rs)
  OBVIOUS
<1>5. order \in [1..n -> rs]
  BY <1>2, <1>3, <1>4 DEF SetToSeq
<1>6. order \in Seq(rs) /\ Len(order) = n
  BY <1>3, <1>5
<1>7. JobsFor(kind, rs) = [i \in 1..n |-> [kind |-> kind, row |-> order[i], dir |-> rows[order[i]].dir]]
  BY <1>4, <1>6 DEF JobsFor
<1>8. \A r \in rs : [kind |-> kind, row |-> r, dir |-> rows[r].dir] \in Job
  BY DEF TInv, TypeOK, Row, Job
<1>9. \A i \in 1..n : order[i] \in rs
  BY <1>5
<1>10. PICK jobs : jobs = JobsFor(kind, rs)
  OBVIOUS
<1>11. jobs \in [1..n -> Job] /\ \A i \in 1..n : jobs[i] = [kind |-> kind, row |-> order[i], dir |-> rows[order[i]].dir]
  BY <1>7, <1>8, <1>9, <1>10
<1>12. jobs \in Seq(Job) /\ Len(jobs) = n
  BY <1>3, <1>11
<1> QED
  BY <1>9, <1>10, <1>11, <1>12

-----------------------------------------------------------------------------
(* Every step keeps the types. *)

LEMMA TurnFits ==
  ASSUME TInv, NEW p \in Procs, task[p].pc # "idle", NEW pc \in Pcs \ {"idle"}, NEW r, NEW b, NEW ks, NEW f,
         Turns(p, pc, r, b, ks, f), pc \in WithRow => r \in Ids
  PROVE  task' \in [Procs -> Processor] /\ TasksFit'
<1>1. /\ task' \in [Procs -> Processor]
      /\ \A q \in Procs : q # p => task'[q] = task[q]
      /\ task'[p].pc = pc /\ task'[p].dir = task[p].dir /\ task'[p].row = r
  BY DEF Turns
<1>2. task[p].dir \in Dirs /\ (p # Scan => task[p].dir = p)
  BY ProcessorFields
<1>3. Fit(p, task'[p])
  BY <1>1, <1>2 DEF Fit
<1>4. \A q \in Procs : Fit(q, task[q])
  BY DEF TInv, TasksFit
<1>5. \A q \in Procs : Fit(q, task'[q])
  BY <1>1, <1>3, <1>4
<1> QED
  BY <1>1, <1>5 DEF TasksFit

LEMMA StopFits ==
  ASSUME TInv, NEW p \in Procs, Stops(p)
  PROVE  task' \in [Procs -> Processor] /\ TasksFit'
<1>1. \A q \in Procs : Fit(q, task[q])
  BY DEF TInv, TasksFit
<1>2. \A q \in Procs : Fit(q, task'[q])
  BY <1>1 DEF Stops, Fit
<1> QED
  BY <1>2 DEF TasksFit, Stops

(* A job more at the end of the queue. *)
LEMMA JobAdded ==
  ASSUME TInv, NEW j \in Job, JobFit(j), queue' = Append(queue, j)
  PROVE  queue' \in Seq(Job) /\ \A i \in 1..Len(queue') : JobFit(queue'[i])
<1>1. queue \in Seq(Job) /\ \A i \in 1..Len(queue) : JobFit(queue[i])
  BY DEF TInv, TypeOK, JobsFit
<1>2. /\ queue' \in Seq(Job) /\ Len(queue') = Len(queue) + 1 /\ Len(queue) \in Nat
      /\ \A i \in 1..Len(queue) : queue'[i] = queue[i]
      /\ queue'[Len(queue) + 1] = j
  BY <1>1
<1>3. \A i \in 1..Len(queue') : i \in 1..Len(queue) \/ i = Len(queue) + 1
  BY <1>2
<1> QED
  BY <1>1, <1>2, <1>3

(* The end of a processor takes no job, and ends no other than a scan's. *)
LEMMA FailedJobs ==
  ASSUME TInv, NEW p \in Procs, Ended(p) \/ Failed(p), UNCHANGED queue
  PROVE  JobsFit'
<1>1. worker' = worker \/ worker'.pc = "idle"
  BY EmptyRecords DEF Ended, Failed
<1> QED
  BY <1>1 DEF TInv, JobsFit

LEMMA DebounceTyped ==
  ASSUME TInv, NEW d \in Dirs, Settle(d) \/ FindGone(d) \/ Forget(d)
  PROVE  TInv'
<1> d \in Procs
  BY Constants
<1>1. CASE Settle(d)
  <2>1. task' \in [Procs -> Processor] /\ TasksFit'
    <3>1. PICK pc \in {"gone", "lookup"} :
            Turns(d, pc, task[d].row, task[d].should, task[d].known, task[d].found)
      BY <1>1, SettleStep
    <3> QED
      BY <1>1, <3>1, TurnFits DEF Settle, Pcs, WithRow
  <2> QED
    BY <1>1, <2>1 DEF Settle, TInv, TypeOK, RowsFit, RenameFit, JobsFit, env, db, ghost
<1>2. CASE FindGone(d)
  <2>1. task' \in [Procs -> Processor] /\ TasksFit' /\ UNCHANGED worker
    <3>1. task[d].pc = "gone" /\ \A r \in RowsAt(d) : r \in Ids
      BY <1>2 DEF FindGone, RowsAt, Live
    <3>2. CASE Stops(d) /\ UNCHANGED worker
      BY <3>2, StopFits
    <3>3. CASE /\ UNCHANGED worker
               /\ \E r \in RowsAt(d) :
                    Turns(d, "forget", r, task[d].should, task[d].known, task[d].found)
      BY <3>1, <3>3, TurnFits DEF Pcs
    <3> QED
      BY <1>2, <3>2, <3>3, FindGoneStep
  <2> QED
    BY <1>2, <2>1 DEF FindGone, TInv, TypeOK, RowsFit, RenameFit, JobsFit, env, db, ghost
<1>3. CASE Forget(d)
  <2>1. task' \in [Procs -> Processor] /\ TasksFit' /\ UNCHANGED worker
    BY <1>3, ProcessorEnds DEF Forget, Ended
  <2>2. rows' \in [Ids -> Row] /\ eps' \in [Dirs -> Episode] /\ RowsFit'
    BY <1>3, ProcessorFields, DeletionFits DEF Forget
  <2> QED
    BY <1>3, <2>1, <2>2 DEF Forget, TInv, TypeOK, RenameFit, JobsFit, env, ghost
<1> QED
  BY <1>1, <1>2, <1>3

LEMMA LookTyped ==
  ASSUME TInv, NEW p \in Procs, Lookup(p) \/ Probe(p) \/ ReadEpisodes(p) \/ Walk(p)
  PROVE  TInv'
<1>1. CASE Lookup(p)
  <2>1. task' \in [Procs -> Processor] /\ TasksFit'
    BY <1>1, LookupStep, TurnFits, ZenonT(40) DEF Lookup, Pcs, WithRow, RowsAt, Live
  <2>2. unseen' \subseteq Dirs /\ blurred' \subseteq Dirs
    BY <1>1 DEF Lookup, TInv, TypeOK
  <2> QED
    BY <1>1, <2>1, <2>2 DEF Lookup, TInv, TypeOK, RowsFit, RenameFit, JobsFit, env, db
<1>2. CASE Probe(p)
  <2>1. task' \in [Procs -> Processor] /\ TasksFit' /\ UNCHANGED worker
    BY <1>2, ProbeStep, TurnFits, StopFits DEF Probe, Pcs, WithRow
  <2> QED
    BY <1>2, <2>1 DEF Probe, TInv, TypeOK, RowsFit, RenameFit, JobsFit, env, db, ghost
<1>3. CASE ReadEpisodes(p)
  <2>1. task' \in [Procs -> Processor] /\ TasksFit'
    BY <1>3, ReadStep, TurnFits, ProcessorFields DEF ReadEpisodes, Pcs, WithRow
  <2> QED
    BY <1>3, <2>1 DEF ReadEpisodes, TInv, TypeOK, RowsFit, RenameFit, JobsFit, env, db, ghost
<1>4. CASE Walk(p)
  <2>1. task' \in [Procs -> Processor] /\ TasksFit'
    BY <1>4, WalkStep, TurnFits, ProcessorFields DEF Walk, Pcs, WithRow
  <2> QED
    BY <1>4, <2>1 DEF Walk, TInv, TypeOK, RowsFit, RenameFit, JobsFit, env, db, ghost
<1> QED
  BY <1>1, <1>2, <1>3, <1>4

LEMMA CreateTyped ==
  ASSUME TInv, NEW p \in Procs, Create(p)
  PROVE  TInv'
<1>1. task[p].pc = "create" /\ UNCHANGED <<disk, env, eps, queue, rename, budget, ghost>>
  BY DEF Create
<1>2. CASE Failed(p) /\ UNCHANGED rows
  <2>1. task' \in [Procs -> Processor] /\ TasksFit' /\ worker' \in WorkerState
    BY <1>2, ProcessorEnds
  <2>2. JobsFit'
    BY <1>1, <1>2, FailedJobs
  <2> QED
    BY <1>1, <1>2, <2>1, <2>2 DEF TInv, TypeOK, RowsFit, RenameFit, env, ghost
<1>3. ASSUME UNCHANGED worker, NEW n \in Ids, NewRow(n, task[p].dir),
             Turns(p, "read", n, TRUE, task[p].known, task[p].found)
      PROVE  TInv'
  <2>1. task' \in [Procs -> Processor] /\ TasksFit'
    BY <1>1, <1>3, TurnFits DEF Pcs
  <2>2. rows' \in [Ids -> Row] /\ RowsFit'
    BY <1>1, <1>3, ProcessorFields DEF NewRow, TInv, RowsFit
  <2> QED
    BY <1>1, <1>3, <2>1, <2>2 DEF TInv, TypeOK, RenameFit, JobsFit, env, ghost
<1>4. \/ Failed(p) /\ UNCHANGED rows
      \/ /\ UNCHANGED worker
         /\ \E n \in Ids :
              NewRow(n, task[p].dir) /\ Turns(p, "read", n, TRUE, task[p].known, task[p].found)
  BY CreateStep
<1>5. CASE Failed(p) /\ UNCHANGED rows
  BY <1>2, <1>5
<1>6. CASE /\ UNCHANGED worker
           /\ \E n \in Ids :
                NewRow(n, task[p].dir) /\ Turns(p, "read", n, TRUE, task[p].known, task[p].found)
  <2>1. PICK n \in Ids :
          NewRow(n, task[p].dir) /\ Turns(p, "read", n, TRUE, task[p].known, task[p].found)
    BY <1>6
  <2> QED
    BY <1>3, <1>6, <2>1
<1> QED
  BY <1>4, <1>5, <1>6

\* The walk found nothing new for a row that is gone.
CanRecord(p) == ~(FileIsNew(p) /\ rows[task[p].row] = NoRow)

LEMMA RecordStep ==
  ASSUME TInv, NEW p \in Procs, Record(p)
  PROVE  /\ task[p].pc = "record"
         /\ UNCHANGED <<disk, env, rows, rename, budget, blurred, corrected>>
         /\ \/ /\ ~CanRecord(p) /\ Failed(p) /\ UNCHANGED <<eps, queue>>
               /\ unseen' = IF p = Scan THEN unseen \cup {task[p].dir} ELSE unseen
            \/ /\ CanRecord(p) /\ Ended(p) /\ UNCHANGED unseen
               /\ eps' \in [Dirs -> Episode]
               /\ \A x \in Dirs :
                    \/ eps'[x] = eps[x]
                    \/ eps'[x] = NoEp /\ x \in task[p].known /\ (task[p].found => x # task[p].dir)
                    \/ /\ eps'[x].row = task[p].row /\ x = task[p].dir /\ FileIsNew(p)
               /\ queue' = IF task[p].should
                             THEN Append(queue, [kind |-> "identify", row |-> task[p].row, dir |-> task[p].dir])
                             ELSE queue
<1>1. CASE ~CanRecord(p)
  BY <1>1 DEF Record, CanRecord
<1>2. CASE CanRecord(p)
  <2>1. PICK e : e = [row |-> task[p].row, manual |-> FALSE]
    OBVIOUS
  <2>2. e \in Episode /\ e.row = task[p].row
    BY <2>1, ProcessorFields DEF Episode
  <2>3. PICK gone : gone = task[p].known \ (IF task[p].found THEN {task[p].dir} ELSE {})
    OBVIOUS
  <2>4. eps' = [x \in Dirs |-> IF x \in gone THEN NoEp
                               ELSE IF x = task[p].dir /\ FileIsNew(p) THEN e ELSE eps[x]]
    BY <1>2, <2>1, <2>3 DEF Record, CanRecord
  <2>5. eps' \in [Dirs -> Episode]
    BY <2>2, <2>4, EmptyRecords DEF TInv, TypeOK
  <2>6. \A x \in Dirs :
          \/ eps'[x] = eps[x]
          \/ eps'[x] = NoEp /\ x \in task[p].known /\ (task[p].found => x # task[p].dir)
          \/ /\ eps'[x].row = task[p].row /\ x = task[p].dir /\ FileIsNew(p)
    BY <2>2, <2>3, <2>4
  <2> QED
    BY <1>2, <2>5, <2>6 DEF Record, CanRecord
<1> QED
  BY <1>1, <1>2

LEMMA RecordTyped ==
  ASSUME TInv, NEW p \in Procs, Record(p)
  PROVE  TInv'
<1>1. task[p].pc = "record" /\ UNCHANGED <<disk, env, rows, rename, budget, blurred, corrected>>
  BY RecordStep
<1>2. task' \in [Procs -> Processor] /\ TasksFit' /\ worker' \in WorkerState
  BY RecordStep, ProcessorEnds
<1>3. eps' \in [Dirs -> Episode]
  BY RecordStep DEF TInv, TypeOK
<1>4. unseen' \subseteq Dirs
  <2>1. unseen' = unseen \/ unseen' = unseen \cup {task[p].dir}
    BY RecordStep
  <2>2. task[p].dir \in Dirs
    BY <1>1, ProcessorFields
  <2> QED
    BY <2>1, <2>2 DEF TInv, TypeOK
<1>5. queue' \in Seq(Job) /\ JobsFit'
  <2>1. PICK j : j = [kind |-> "identify", row |-> task[p].row, dir |-> task[p].dir]
    OBVIOUS
  <2>2. j \in Job /\ JobFit(j)
    BY <1>1, <2>1, ProcessorFields DEF Job, JobFit, WithRow
  <2>3. queue' = queue \/ queue' = Append(queue, j)
    BY <2>1, RecordStep
  <2>4. worker' = worker \/ worker'.pc = "idle"
    BY RecordStep, EmptyRecords DEF Ended, Failed
  <2>5. CASE queue' = queue
    BY <2>4, <2>5, QueuedJobs DEF TInv, JobsFit
  <2>6. CASE queue' = Append(queue, j)
    BY <2>2, <2>4, <2>6, JobAdded DEF TInv, JobsFit
  <2> QED
    BY <2>3, <2>5, <2>6
<1> QED
  BY <1>1, <1>2, <1>3, <1>4, <1>5 DEF TInv, TypeOK, RowsFit, RenameFit, env

(* The worker's own fields change, or it becomes idle. *)
LEMMA WorkerTyped ==
  ASSUME TInv, NEW w \in WorkerState, worker' = w, w.pc # "apply",
         UNCHANGED <<disk, env, db, queue, task, rename, budget, ghost>>
  PROVE  TInv'
BY DEF TInv, TypeOK, RowsFit, TasksFit, RenameFit, JobsFit, Fit, env, db, ghost

LEMMA TakeJobTyped ==
  ASSUME TInv, TakeJob
  PROVE  TInv'
<1>1. queue \in Seq(Job) /\ queue # <<>>
  BY QueuedJobs DEF TakeJob
<1>2. /\ Head(queue) \in Job /\ Tail(queue) \in Seq(Job) /\ Head(queue) = queue[1]
      /\ 1 \in 1..Len(queue)
      /\ \A i \in 1..Len(Tail(queue)) : i + 1 \in 1..Len(queue) /\ Tail(queue)[i] = queue[i + 1]
  BY <1>1
<1>3. /\ worker' \in WorkerState
      /\ worker'.pc = "apply" => worker'.job = Head(queue) /\ Head(queue) # ScanJob
  <2>1. CASE worker' = IdleWorker
    BY <2>1, EmptyRecords
  <2>2. CASE worker' = [IdleWorker EXCEPT !.job = ScanJob, !.pc = "online"]
    BY <2>2, EmptyRecords DEF IdleWorker, WorkerState
  <2>3. CASE worker' = [IdleWorker EXCEPT !.job = Head(queue), !.pc = "apply"] /\ Head(queue) # ScanJob
    BY <1>2, <2>3 DEF IdleWorker, WorkerState
  <2> QED
    BY <2>1, <2>2, <2>3 DEF TakeJob
<1>4. \A i \in 1..Len(queue) : JobFit(queue[i])
  BY DEF TInv, JobsFit
<1>5. queue' = Tail(queue)
  BY DEF TakeJob
<1>6. JobsFit'
  BY <1>2, <1>3, <1>4, <1>5 DEF JobsFit
<1> QED
  BY <1>2, <1>3, <1>5, <1>6 DEF TakeJob, TInv, TypeOK, RowsFit, TasksFit, RenameFit, Fit, env, db, ghost

LEMMA ScanTyped ==
  ASSUME TInv, ScanOnline \/ ScanList \/ ScanNextDir \/ ScanSelect \/ ScanRecheck \/ ScanPurge \/ ScanDone
  PROVE  TInv'
<1> worker \in WorkerState
  BY DEF TInv, TypeOK
<1>1. CASE ScanOnline
  <2>1. worker' \in WorkerState /\ worker'.pc # "apply"
    BY <1>1, EmptyRecords DEF ScanOnline, WorkerState
  <2>2. watching' \in BOOLEAN
    BY <1>1 DEF ScanOnline
  <2> QED
    BY <1>1, <2>1, <2>2
       DEF ScanOnline, TInv, TypeOK, RowsFit, TasksFit, RenameFit, JobsFit, Fit, db, ghost
<1>2. CASE ScanList
  <2>1. PICK present \in SUBSET Dirs : present = {d \in Dirs : disk[d] # "absent"}
    OBVIOUS
  <2>2. worker' = [worker EXCEPT !.pc = "dirs", !.listed = present, !.todo = present] \/ worker' = IdleWorker
    BY <1>2, <2>1 DEF ScanList
  <2>3. worker' \in WorkerState /\ worker'.pc # "apply"
    BY <2>2, EmptyRecords DEF WorkerState
  <2> QED
    BY <1>2, <2>3, WorkerTyped DEF ScanList
<1>3. CASE ScanNextDir
  <2>1. PICK d \in worker.todo :
           /\ d \in Dirs
           /\ task' \in [Procs -> Processor]
           /\ \A q \in Procs : q # Scan => task'[q] = task[q]
           /\ task'[Scan].pc = "lookup" /\ task'[Scan].dir = d
           /\ worker' = [worker EXCEPT !.todo = @ \ {d}]
    BY <1>3, NextDirStep
  <2>2. worker' \in WorkerState /\ worker'.pc # "apply"
    BY <1>3, <2>1 DEF ScanNextDir, WorkerState
  <2>3. \A p \in Procs : Fit(p, task[p])
    BY DEF TInv, TasksFit
  <2>4. \A p \in Procs : Fit(p, task'[p])
    BY <2>1, <2>3 DEF Fit, WithRow
  <2> QED
    BY <1>3, <2>1, <2>2, <2>4 DEF ScanNextDir, TInv, TypeOK, RowsFit, TasksFit, RenameFit, JobsFit, env, db, ghost
<1>4. CASE ScanSelect
  <2>1. PICK rest : rest = {<<r, rows[r].dir>> : r \in {q \in Live : rows[q].dir \notin worker.listed}}
    OBVIOUS
  <2>2. \A r \in Live : r \in Ids /\ rows[r].dir \in Dirs
    BY DEF Live, TInv, RowsFit
  <2>3. rest \in SUBSET (Ids \X Dirs)
    BY <2>1, <2>2
  <2>4. worker' = [worker EXCEPT !.pc = "purge", !.listed = {}, !.rest = rest]
    BY <1>4, <2>1 DEF ScanSelect
  <2>5. worker' \in WorkerState /\ worker'.pc # "apply"
    BY <2>3, <2>4 DEF WorkerState
  <2>6. unseen' \subseteq Dirs
    BY <1>4 DEF ScanSelect, TInv, TypeOK
  <2> QED
    BY <1>4, <2>5, <2>6 DEF ScanSelect, TInv, TypeOK, RowsFit, TasksFit, RenameFit, JobsFit, Fit, env, db
<1>5. CASE ScanRecheck
  <2>1. PICK v \in worker.rest :
          worker' = IF online /\ disk[v[2]] # "absent"
                      THEN [worker EXCEPT !.rest = @ \ {v}]
                      ELSE [worker EXCEPT !.pc = "delete", !.rest = @ \ {v},
                                          !.job = [ScanJob EXCEPT !.row = v[1], !.dir = v[2]]]
    BY <1>5 DEF ScanRecheck
  <2>2. PICK j : j = [ScanJob EXCEPT !.row = v[1], !.dir = v[2]]
    OBVIOUS
  <2>3. j \in Job
    BY <2>2, WorkerFields DEF ScanJob, Job
  <2>4. worker' = [worker EXCEPT !.rest = @ \ {v}] \/ worker' = [worker EXCEPT !.pc = "delete", !.rest = @ \ {v}, !.job = j]
    BY <2>1, <2>2
  <2>5. [worker EXCEPT !.rest = @ \ {v}] \in WorkerState /\ [worker EXCEPT !.rest = @ \ {v}].pc = "purge"
    BY <1>5 DEF ScanRecheck, WorkerState
  <2>6. /\ [worker EXCEPT !.pc = "delete", !.rest = @ \ {v}, !.job = j] \in WorkerState
        /\ [worker EXCEPT !.pc = "delete", !.rest = @ \ {v}, !.job = j].pc = "delete"
    BY <2>3 DEF WorkerState
  <2> QED
    BY <1>5, <2>4, <2>5, <2>6, WorkerTyped DEF ScanRecheck
<1>6. CASE ScanPurge
  <2>1. worker' \in WorkerState /\ worker'.pc # "apply"
    BY <1>6, EmptyRecords DEF ScanPurge, WorkerState
  <2>2. rows' \in [Ids -> Row] /\ eps' \in [Dirs -> Episode] /\ RowsFit'
    BY <1>6, WorkerFields, DeletionFits DEF ScanPurge
  <2> QED
    BY <1>6, <2>1, <2>2 DEF ScanPurge, TInv, TypeOK, TasksFit, RenameFit, JobsFit, Fit, env, ghost
<1>7. CASE ScanDone
  BY <1>7, EmptyRecords, WorkerTyped DEF ScanDone
<1> QED
  BY <1>1, <1>2, <1>3, <1>4, <1>5, <1>6, <1>7

\* Row r was answered: the same directory, tried, with a status and an aid.
Answered(r, status, aid) ==
  /\ rows' \in [Ids -> Row] /\ \A q \in Ids : q # r => rows'[q] = rows[q]
  /\ rows'[r].dir = rows[r].dir /\ rows'[r].tried = TRUE
  /\ rows'[r].status = status /\ rows'[r].aid = aid

LEMMA AnswerStep ==
  ASSUME TInv, worker.job.row \in Ids, ApplyAnswer
  PROVE  LET r == worker.job.row IN
         /\ worker' = IdleWorker /\ worker.pc = "apply"
         /\ UNCHANGED <<env, eps, queue, rename, budget, ghost>>
         /\ \/ UNCHANGED <<disk, rows, task>> /\ rows[r] = NoRow
            \/ /\ rows[r] # NoRow /\ UNCHANGED <<disk, task>>
               /\ Answered(r, rows[r].status, rows[r].aid) \/ Answered(r, "unclear", rows[r].aid)
            \/ /\ rows[r] # NoRow /\ Answered(r, "identified", TRUE)
               /\ \/ UNCHANGED <<disk, task>>
                  \/ /\ disk' = [disk EXCEPT ![worker.job.dir] = IF @ = "video" THEN @ ELSE "other"]
                     /\ online
                     /\ task' = IF Watched THEN Restarted({worker.job.dir}) ELSE task
<1> DEFINE r == worker.job.row
<1>1. rows \in [Ids -> Row] /\ rows[r] \in Row
  BY DEF TInv, TypeOK
<1>2. worker' = IdleWorker /\ worker.pc = "apply" /\ UNCHANGED <<env, eps, queue, rename, budget, ghost>>
  BY DEF ApplyAnswer, ghost
<1>3. \/ /\ rows[r] = NoRow /\ UNCHANGED <<disk, rows, task>>
      \/ /\ rows[r] # NoRow /\ UNCHANGED <<disk, task>>
         /\ RowBecomes(r, [rows[r] EXCEPT !.tried = TRUE])
      \/ /\ rows[r] # NoRow /\ UNCHANGED <<disk, task>>
         /\ RowBecomes(r, [rows[r] EXCEPT !.tried = TRUE, !.status = "unclear"])
      \/ /\ rows[r] # NoRow
         /\ RowBecomes(r, [rows[r] EXCEPT !.tried = TRUE, !.status = "identified", !.aid = TRUE])
         /\ \/ UNCHANGED <<disk, task>>
            \/ /\ disk' = [disk EXCEPT ![worker.job.dir] = IF @ = "video" THEN @ ELSE "other"]
               /\ online
               /\ task' = IF Watched THEN Restarted({worker.job.dir}) ELSE task
  BY DEF ApplyAnswer
<1>4. ASSUME RowBecomes(r, [rows[r] EXCEPT !.tried = TRUE])
      PROVE  Answered(r, rows[r].status, rows[r].aid)
  <2>1. PICK v : v = [rows[r] EXCEPT !.tried = TRUE]
    OBVIOUS
  <2>2. v \in Row /\ v.dir = rows[r].dir /\ v.tried = TRUE /\ v.status = rows[r].status /\ v.aid = rows[r].aid
    BY <1>1, <2>1 DEF Row
  <2> QED
    BY <1>1, <1>4, <2>1, <2>2, RowStep DEF Answered
<1>5. ASSUME RowBecomes(r, [rows[r] EXCEPT !.tried = TRUE, !.status = "unclear"])
      PROVE  Answered(r, "unclear", rows[r].aid)
  <2>1. PICK v : v = [rows[r] EXCEPT !.tried = TRUE, !.status = "unclear"]
    OBVIOUS
  <2>2. v \in Row /\ v.dir = rows[r].dir /\ v.tried = TRUE /\ v.status = "unclear" /\ v.aid = rows[r].aid
    BY <1>1, <2>1 DEF Row
  <2> QED
    BY <1>1, <1>5, <2>1, <2>2, RowStep DEF Answered
<1>6. ASSUME RowBecomes(r, [rows[r] EXCEPT !.tried = TRUE, !.status = "identified", !.aid = TRUE])
      PROVE  Answered(r, "identified", TRUE)
  <2>1. PICK v : v = [rows[r] EXCEPT !.tried = TRUE, !.status = "identified", !.aid = TRUE]
    OBVIOUS
  <2>2. v \in Row /\ v.dir = rows[r].dir /\ v.tried = TRUE /\ v.status = "identified" /\ v.aid = TRUE
    BY <1>1, <2>1 DEF Row
  <2> QED
    BY <1>1, <1>6, <2>1, <2>2, RowStep DEF Answered
<1> QED
  BY <1>2, <1>3, <1>4, <1>5, <1>6

LEMMA ApplyTyped ==
  ASSUME TInv, ApplyAnswer
  PROVE  TInv'
<1>1. worker.job.row \in Ids /\ worker.job.dir \in Dirs
  BY EmptyRecords DEF TInv, JobsFit, JobFit, ApplyAnswer
<1>2. PICK r : r = worker.job.row
  OBVIOUS
<1>3. rows' \in [Ids -> Row] /\ RowsFit'
  <2>1. \/ rows' = rows
        \/ /\ rows[r] # NoRow /\ rows' \in [Ids -> Row] /\ rows'[r].dir = rows[r].dir
           /\ \A q \in Ids : q # r => rows'[q] = rows[q]
    BY <1>1, <1>2, AnswerStep DEF Answered
  <2> QED
    BY <2>1 DEF TInv, TypeOK, RowsFit
<1>4. disk' \in [Dirs -> {"absent", "bare", "other", "video"}]
  BY <1>1, AnswerStep DEF TInv, TypeOK
<1>5. task' \in [Procs -> Processor] /\ TasksFit'
  <2>1. task' = task \/ task' = Restarted({worker.job.dir})
    BY <1>1, AnswerStep
  <2> QED
    BY <1>1, <2>1, RestartFits
<1>6. worker' = IdleWorker /\ UNCHANGED <<env, eps, queue, rename, budget, ghost>>
  BY <1>1, AnswerStep
<1> QED
  BY <1>3, <1>4, <1>5, <1>6, EmptyRecords DEF TInv, TypeOK, RenameFit, JobsFit, env, ghost

(* More jobs at the end of the queue. *)
LEMMA JobsAdded ==
  ASSUME TInv, NEW new \in Seq(Job), \A i \in 1..Len(new) : JobFit(new[i]), queue' = queue \o new
  PROVE  queue' \in Seq(Job) /\ \A i \in 1..Len(queue') : JobFit(queue'[i])
<1>1. queue \in Seq(Job) /\ \A i \in 1..Len(queue) : JobFit(queue[i])
  BY DEF TInv, TypeOK, JobsFit
<1>2. queue' \in Seq(Job) /\ Len(queue') = Len(queue) + Len(new) /\ Len(queue) \in Nat /\ Len(new) \in Nat
  BY <1>1
<1>3. ASSUME NEW i \in 1..Len(queue') PROVE JobFit(queue'[i])
  <2>1. CASE i \in 1..Len(queue)
    BY <1>1, <2>1
  <2>2. CASE i \notin 1..Len(queue)
    <3>1. i - Len(queue) \in 1..Len(new) /\ queue'[i] = new[i - Len(queue)]
      BY <1>1, <1>2, <2>2
    <3> QED
      BY <3>1
  <2> QED
    BY <2>1, <2>2
<1> QED
  BY <1>2, <1>3

(* The jobs of live rows name them and their directories. *)
LEMMA JobsOfRowsFit ==
  ASSUME TInv, NEW rs \in SUBSET Live, NEW kind \in {"identify_if_pending", "rescan"},
         NEW i \in 1..Len(JobsFor(kind, rs))
  PROVE  \E r \in rs : LET j == JobsFor(kind, rs)[i] IN
           JobFit(j) /\ j \in Job /\ j.kind = kind /\ j.row = r /\ j.dir = rows[r].dir
<1>1. rs \in SUBSET Ids
  BY DEF Live
<1>2. PICK j : j = JobsFor(kind, rs)[i]
  OBVIOUS
<1>3. PICK r \in rs : j = [kind |-> kind, row |-> r, dir |-> rows[r].dir]
  BY <1>1, <1>2, JobsOfRows
<1>4. r \in Ids /\ rows[r].dir \in Dirs
  BY DEF Live, TInv, RowsFit
<1>5. j.kind = kind /\ j.row = r /\ j.dir = rows[r].dir /\ j \in Job
  BY <1>3, <1>4 DEF Job
<1>6. JobFit(j)
  BY <1>4, <1>5 DEF JobFit
<1> QED
  BY <1>2, <1>5, <1>6

LEMMA RequestsTyped ==
  ASSUME TInv, RequestScan \/ EnqueueForRows
  PROVE  TInv'
<1>1. budget' \in 0..Budget
  BY Constants DEF RequestScan, EnqueueForRows, Spend, TInv, TypeOK
<1>2. CASE RequestScan
  <2>1. queue' = Append(queue, ScanJob) /\ JobFit(ScanJob) /\ ScanJob \in Job
    BY <1>2, EmptyRecords DEF RequestScan, JobFit
  <2>2. queue' \in Seq(Job) /\ \A i \in 1..Len(queue') : JobFit(queue'[i])
    BY <2>1, JobAdded
  <2> QED
    BY <1>1, <1>2, <2>2
       DEF RequestScan, TInv, TypeOK, RowsFit, TasksFit, RenameFit, JobsFit, Fit, env, db, ghost
<1>3. CASE EnqueueForRows
  <2>1. PICK kind \in {"rescan", "identify_if_pending"} :
          \E rs : rs \in SUBSET Live /\ queue' = queue \o JobsFor(kind, rs)
    BY <1>3 DEF EnqueueForRows
  <2>2. PICK rs : rs \in SUBSET Live /\ queue' = queue \o JobsFor(kind, rs)
    BY <2>1
  <2>3. JobsFor(kind, rs) \in Seq(Job)
    BY <2>2, JobsOfRows DEF Live
  <2>4. \A i \in 1..Len(JobsFor(kind, rs)) : JobFit(JobsFor(kind, rs)[i])
    BY <2>2, JobsOfRowsFit
  <2>5. queue' \in Seq(Job) /\ \A i \in 1..Len(queue') : JobFit(queue'[i])
    BY <2>2, <2>3, <2>4, JobsAdded
  <2> QED
    BY <1>1, <1>3, <2>5
       DEF EnqueueForRows, TInv, TypeOK, RowsFit, TasksFit, RenameFit, JobsFit, Fit, env, db, ghost
<1> QED
  BY <1>2, <1>3

LEMMA CorrectStep ==
  ASSUME TInv, NEW d \in Dirs, CorrectEpisode(d)
  PROVE  /\ eps[d].row # 0 /\ eps' \in [Dirs -> Episode]
         /\ \A x \in Dirs : eps'[x].row = eps[x].row /\ (x # d => eps'[x] = eps[x])
         /\ \/ corrected' = corrected \ {d}
            \/ /\ corrected' = corrected \cup {d} /\ eps'[d].manual
               /\ disk[d] = "video" /\ rows[eps[d].row].dir = d /\ rename = NoRename
               /\ d \notin blurred /\ ~Purging(d)
<1>1. PICK byHand \in BOOLEAN :
        /\ eps' = [eps EXCEPT ![d] = [@ EXCEPT !.manual = byHand]]
        /\ corrected' = IF byHand /\ disk[d] = "video" /\ rows[eps[d].row].dir = d
                           /\ rename = NoRename /\ d \notin blurred /\ ~Purging(d)
                          THEN corrected \cup {d} ELSE corrected \ {d}
  BY DEF CorrectEpisode
<1>2. PICK e : e = [eps[d] EXCEPT !.manual = byHand]
  OBVIOUS
<1>3. eps \in [Dirs -> Episode]
  BY DEF TInv, TypeOK
<1>4. e \in Episode /\ e.row = eps[d].row /\ e.manual = byHand
  BY <1>2, <1>3 DEF Episode
<1>5. eps' \in [Dirs -> Episode] /\ eps'[d] = e /\ \A x \in Dirs : x # d => eps'[x] = eps[x]
  BY <1>1, <1>2, <1>3, <1>4
<1> QED
  BY <1>1, <1>4, <1>5 DEF CorrectEpisode

LEMMA EditsTyped ==
  ASSUME TInv, \/ \E d \in Dirs : CorrectEpisode(d)
               \/ \E r \in Ids : DeleteAnime(r)
  PROVE  TInv'
<1>1. ASSUME NEW d \in Dirs, CorrectEpisode(d) PROVE TInv'
  <2>1. budget' \in 0..Budget
    BY <1>1, Constants DEF CorrectEpisode, Spend, TInv, TypeOK
  <2>2. eps' \in [Dirs -> Episode] /\ corrected' \subseteq Dirs
    BY <1>1, CorrectStep DEF TInv, TypeOK
  <2> QED
    BY <1>1, <2>1, <2>2
       DEF CorrectEpisode, TInv, TypeOK, RowsFit, TasksFit, RenameFit, JobsFit, Fit, env
<1>2. ASSUME NEW r \in Ids, DeleteAnime(r) PROVE TInv'
  <2>1. budget' \in 0..Budget
    BY <1>2, Constants DEF DeleteAnime, Spend, TInv, TypeOK
  <2>2. rows' \in [Ids -> Row] /\ eps' \in [Dirs -> Episode] /\ RowsFit'
    BY <1>2, DeletionFits DEF DeleteAnime
  <2>3. rows[r].dir \in Dirs
    BY <1>2 DEF DeleteAnime, Live, TInv, RowsFit
  <2>4. unseen' \subseteq Dirs /\ corrected' \subseteq Dirs
    BY <1>2, <2>3 DEF DeleteAnime, TInv, TypeOK
  <2> QED
    BY <1>2, <2>1, <2>2, <2>4
       DEF DeleteAnime, TInv, TypeOK, TasksFit, RenameFit, JobsFit, Fit, env
<1> QED
  BY <1>1, <1>2

LEMMA OnDiskStep ==
  ASSUME TInv, NEW r \in Ids, NEW to \in Dirs, RenameOnDisk(r, to)
  PROVE  LET from == rows[r].dir IN
         /\ r \in Live /\ rows[r].aid /\ from \in Dirs /\ from # to
         /\ disk[from] # "absent" /\ disk[to] = "absent"
         /\ disk' \in [Dirs -> {"absent", "bare", "other", "video"}]
         /\ disk'[to] = disk[from] /\ disk'[from] = "absent"
         /\ \A x \in Dirs : x # from /\ x # to => disk'[x] = disk[x]
         /\ rename' \in RenameState /\ rename'.pc = "moved" /\ rename'.row = r
         /\ rename'.from = from /\ rename'.to = to /\ rename'.eps = (eps[from].row = r)
<1>1. r \in Live /\ rows[r].aid /\ rows[r].dir \in Dirs
  BY DEF RenameOnDisk, TInv, RowsFit, Live
<1>2. disk[rows[r].dir] # "absent" /\ disk[to] = "absent"
  BY DEF RenameOnDisk
<1>3. PICK from \in Dirs : from = rows[r].dir
  BY <1>1
<1>4. PICK b \in BOOLEAN : b = (eps[from].row = r)
  OBVIOUS
<1>5. /\ rename' = [pc |-> "moved", row |-> r, from |-> from, to |-> to, eps |-> b]
      /\ disk' = [disk EXCEPT ![to] = disk[from], ![from] = "absent"]
  BY <1>3, <1>4 DEF RenameOnDisk
<1>6. /\ rename' \in RenameState /\ rename'.pc = "moved" /\ rename'.row = r
      /\ rename'.from = from /\ rename'.to = to /\ rename'.eps = b
  BY <1>5 DEF RenameState
<1>7. disk \in [Dirs -> {"absent", "bare", "other", "video"}] /\ from # to
  BY <1>2, <1>3 DEF TInv, TypeOK
<1>8. /\ disk' \in [Dirs -> {"absent", "bare", "other", "video"}]
      /\ disk'[to] = disk[from] /\ disk'[from] = "absent"
      /\ \A x \in Dirs : x # from /\ x # to => disk'[x] = disk[x]
  BY <1>5, <1>7
<1> QED
  BY <1>1, <1>2, <1>3, <1>4, <1>6, <1>7, <1>8

\* The commit of a rename: the row and its episode take the new path.
Committed ==
  LET r == rename.row IN
  /\ rows[r] # NoRow /\ RowsAt(rename.to) = {}
  /\ rows' \in [Ids -> Row] /\ \A q \in Ids : q # r => rows'[q] = rows[q]
  /\ rows'[r] # NoRow /\ rows'[r].dir = rename.to /\ rows'[r].status = rows[r].status
  /\ rows'[r].aid = rows[r].aid /\ rows'[r].tried = rows[r].tried
  /\ IF rename.eps
       THEN /\ eps[rename.from].row = r /\ eps[rename.to] = NoEp
            /\ eps' = [eps EXCEPT ![rename.to] = eps[rename.from], ![rename.from] = NoEp]
       ELSE eps' = eps
  /\ corrected' = IF rename.from \in corrected
                    THEN (corrected \ {rename.from}) \cup {rename.to} ELSE corrected

LEMMA CommitStep ==
  ASSUME TInv, RenameCommit
  PROVE  /\ rename.pc = "moved" /\ rename.row \in Ids /\ rename.from \in Dirs /\ rename.to \in Dirs
         /\ rename' = NoRename
         /\ Committed \/ (UNCHANGED db /\ corrected' = corrected \ {rename.from})
         /\ UNCHANGED <<disk, env, queue, worker, task, budget, unseen, blurred>>
<1>1. rename.pc = "moved" /\ rename.row \in Ids /\ rename.from \in Dirs /\ rename.to \in Dirs
  BY EmptyRecords DEF RenameCommit, TInv, RenameFit
<1>2. PICK r \in Ids : r = rename.row
  BY <1>1
<1>3. PICK possible : possible = (/\ rows[r] # NoRow
                                  /\ rename.eps => eps[rename.from].row = r /\ eps[rename.to] = NoEp
                                  /\ RowsAt(rename.to) = {})
  OBVIOUS
<1>4. CASE ~possible
  BY <1>1, <1>2, <1>3, <1>4 DEF RenameCommit
<1>5. CASE possible
  <2>1. PICK v : v = [rows[r] EXCEPT !.dir = rename.to]
    OBVIOUS
  <2>2. rows \in [Ids -> Row] /\ rows[r] \in Row
    BY DEF TInv, TypeOK
  <2>3. /\ v \in Row /\ v.dir = rename.to /\ v.status = rows[r].status
        /\ v.aid = rows[r].aid /\ v.tried = rows[r].tried
    BY <1>1, <2>1, <2>2 DEF Row
  <2>4. v # NoRow
    BY <1>1, <2>3, EmptyRecords, Constants
  <2>5. RowBecomes(r, v)
    BY <1>2, <1>3, <1>5, <2>1 DEF RenameCommit
  <2>6. rows' \in [Ids -> Row] /\ rows'[r] = v /\ \A q \in Ids : q # r => rows'[q] = rows[q]
    BY <2>2, <2>3, <2>5, RowStep
  <2>7. /\ eps' = IF rename.eps THEN [eps EXCEPT ![rename.to] = eps[rename.from],
                                                 ![rename.from] = NoEp] ELSE eps
        /\ corrected' = IF rename.from \in corrected
                          THEN (corrected \ {rename.from}) \cup {rename.to} ELSE corrected
    BY <1>2, <1>3, <1>5 DEF RenameCommit
  <2>8. Committed
    BY <1>2, <1>3, <1>5, <2>3, <2>4, <2>6, <2>7 DEF Committed
  <2> QED
    BY <1>1, <2>8 DEF RenameCommit
<1> QED
  BY <1>4, <1>5

LEMMA RenameTyped ==
  ASSUME TInv, RenameCommit \/ \E r \in Ids : \E to \in Dirs : RenameOnDisk(r, to)
  PROVE  TInv'
<1>1. ASSUME NEW r \in Ids, NEW to \in Dirs, RenameOnDisk(r, to) PROVE TInv'
  <2>1. budget' \in 0..Budget
    BY <1>1, Constants DEF RenameOnDisk, Spend, TInv, TypeOK
  <2>2. PICK from \in Dirs : from = rows[r].dir
    BY <1>1, OnDiskStep
  <2>3. /\ disk' \in [Dirs -> {"absent", "bare", "other", "video"}]
        /\ rename' \in RenameState /\ rename'.pc = "moved" /\ rename'.row = r
        /\ rename'.from = from /\ rename'.to = to
    BY <1>1, <2>2, OnDiskStep
  <2>4. Touched({from, to})
    BY <1>1, <2>2 DEF RenameOnDisk
  <2>5. task' \in [Procs -> Processor] /\ TasksFit' /\ unseen' \subseteq Dirs /\ blurred' \subseteq Dirs
    BY <2>4, TouchFits
  <2> QED
    BY <1>1, <2>1, <2>3, <2>5
       DEF RenameOnDisk, TInv, TypeOK, RowsFit, RenameFit, JobsFit, env, db
<1>2. CASE RenameCommit
  <2>1. /\ rename.pc = "moved" /\ rename.row \in Ids /\ rename.from \in Dirs /\ rename.to \in Dirs
        /\ rename' = NoRename /\ UNCHANGED <<disk, env, queue, worker, task, budget, unseen, blurred>>
    BY <1>2, CommitStep
  <2>2. CASE Committed
    <3>1. rows' \in [Ids -> Row] /\ RowsFit'
      BY <2>1, <2>2 DEF Committed, TInv, RowsFit
    <3>2. eps' \in [Dirs -> Episode]
      <4>1. eps \in [Dirs -> Episode] /\ NoEp \in Episode
        BY EmptyRecords DEF TInv, TypeOK
      <4>2. \/ eps' = [eps EXCEPT ![rename.to] = eps[rename.from], ![rename.from] = NoEp]
            \/ eps' = eps
        BY <2>2 DEF Committed
      <4> QED
        BY <2>1, <4>1, <4>2
    <3>3. corrected' \subseteq Dirs
      BY <2>1, <2>2 DEF Committed, TInv, TypeOK
    <3> QED
      BY <2>1, <3>1, <3>2, <3>3, EmptyRecords DEF TInv, TypeOK, TasksFit, RenameFit, JobsFit, Fit, env
  <2>3. CASE UNCHANGED db /\ corrected' = corrected \ {rename.from}
    BY <2>1, <2>3, EmptyRecords DEF TInv, TypeOK, RowsFit, TasksFit, RenameFit, JobsFit, Fit, env, db
  <2> QED
    BY <1>2, <2>2, <2>3, CommitStep
<1> QED
  BY <1>1, <1>2

LEMMA WorldTyped ==
  ASSUME TInv, World
  PROVE  TInv'
<1>1. CASE ShareDrops \/ ShareReturns
  <2>1. budget' \in 0..Budget /\ online' \in BOOLEAN
    <3>1. online' \in BOOLEAN
      BY <1>1 DEF ShareDrops, ShareReturns
    <3>2. budget \in 0..Budget /\ (budget' = budget \/ (budget > 0 /\ budget' = budget - 1))
      BY <1>1 DEF ShareDrops, ShareReturns, Spend, TInv, TypeOK
    <3> QED
      BY <3>1, <3>2, Constants
  <2> QED
    BY <1>1, <2>1
       DEF ShareDrops, ShareReturns, TInv, TypeOK, RowsFit, TasksFit, RenameFit, JobsFit, Fit, db, ghost
<1>2. CASE Stop
  <2>1. budget' \in 0..Budget
    BY <1>2, Constants DEF Stop, Spend, TInv, TypeOK
  <2>2. task' \in [Procs -> Processor] /\ TasksFit'
    BY <1>2, EmptyRecords DEF Stop, TasksFit, Fit
  <2>3. queue' \in Seq(Job) /\ worker' \in WorkerState /\ rename' \in RenameState /\ RenameFit'
    BY <1>2, EmptyRecords DEF Stop, RenameFit
  <2>4. JobsFit'
    <3>1. queue' = <<>> /\ Len(queue') = 0 /\ worker'.pc = "idle"
      BY <1>2, EmptyRecords DEF Stop
    <3> QED
      BY <3>1 DEF JobsFit
  <2> QED
    BY <1>2, <2>1, <2>2, <2>3, <2>4 DEF Stop, TInv, TypeOK, RowsFit, db
<1>3. CASE Start
  <2>1. PICK rs \in SUBSET Live : queue' = <<ScanJob>> \o JobsFor("rescan", rs)
    BY <1>3 DEF Start
  <2>2. JobsFor("rescan", rs) \in Seq(Job) /\ <<ScanJob>> \in Seq(Job)
    BY <2>1, EmptyRecords, JobsOfRows DEF Live
  <2>3. PICK jobs \in Seq(Job) : jobs = JobsFor("rescan", rs)
    BY <2>2
  <2>4. \A i \in 1..Len(jobs) : JobFit(jobs[i])
    BY <2>1, <2>3, JobsOfRowsFit
  <2>5. /\ queue' \in Seq(Job) /\ Len(queue') = 1 + Len(jobs) /\ queue'[1] = ScanJob
        /\ \A i \in 1..Len(queue') : i = 1 \/ (i - 1 \in 1..Len(jobs) /\ queue'[i] = jobs[i - 1])
    BY <2>1, <2>2, <2>3
  <2>6. \A i \in 1..Len(queue') : JobFit(queue'[i])
    BY <2>4, <2>5 DEF JobFit
  <2> QED
    BY <1>3, <2>5, <2>6
       DEF Start, TInv, TypeOK, RowsFit, TasksFit, RenameFit, JobsFit, Fit, db, ghost
<1>4. ASSUME NEW d \in Dirs, DiskChange(d) PROVE TInv'
  <2>1. budget' \in 0..Budget
    BY <1>4, Constants DEF DiskChange, Spend, TInv, TypeOK
  <2>2. task' \in [Procs -> Processor] /\ TasksFit' /\ unseen' \subseteq Dirs /\ blurred' \subseteq Dirs
    BY <1>4, TouchFits DEF DiskChange
  <2>3. disk' \in [Dirs -> {"absent", "bare", "other", "video"}] /\ corrected' \subseteq Dirs
    BY <1>4 DEF DiskChange, TInv, TypeOK
  <2> QED
    BY <1>4, <2>1, <2>2, <2>3
       DEF DiskChange, TInv, TypeOK, RowsFit, RenameFit, JobsFit, env, db
<1> QED
  BY <1>1, <1>2, <1>3, <1>4 DEF World

\* Every step keeps TInv.
LEMMA TypedStep ==
  ASSUME TInv, [Next]_vars
  PROVE  TInv'
<1>1. CASE UNCHANGED vars
  BY <1>1 DEF vars, env, db, ghost, TInv, TypeOK, RowsFit, TasksFit, RenameFit, JobsFit, Fit
<1>2. CASE Worker
  BY <1>2, TakeJobTyped, ScanTyped, ApplyTyped DEF Worker
<1>3. ASSUME NEW p \in Procs, Process(p) PROVE TInv'
  BY <1>3, LookTyped, CreateTyped, RecordTyped DEF Process
<1>4. ASSUME NEW d \in Dirs, Debounce(d) PROVE TInv'
  BY <1>3, <1>4, DebounceTyped, Constants DEF Debounce
<1>5. CASE Api
  BY <1>5, RequestsTyped, EditsTyped, RenameTyped DEF Api
<1>6. CASE World
  BY <1>6, WorldTyped
<1> QED
  BY <1>1, <1>2, <1>3, <1>4, <1>5, <1>6, Constants DEF Next

(* Every variable has its type in every reachable state: in particular what
   a processor or a job carries is a row id and a directory, whichever steps
   of the scanner, the worker and the API interleave. *)
THEOREM TypeCorrect == Spec => []TypeOK
<1>1. Init => TInv
  BY TypedInit
<1>2. TInv /\ [Next]_vars => TInv'
  BY TypedStep
<1>3. TInv => TypeOK
  BY DEF TInv
<1> QED
  BY <1>1, <1>2, <1>3, PTL DEF Spec

-----------------------------------------------------------------------------
(* A row that waits for its identification is taken up. *)

OneRowPerDir ==
  \A r, q \in Ids :
    (rows[r] # NoRow /\ rows[q] # NoRow /\ rows[r].dir = rows[q].dir) => r = q

\* A pending row has no aid, and so none is renamed.
TitlesFit ==
  /\ \A r \in Ids : rows[r].status = "pending" => ~rows[r].aid
  /\ rename.pc = "moved" => rows[rename.row] = NoRow \/ rows[rename.row].aid

WorkerFits ==
  /\ task[Scan] # Idle => worker.pc = "dirs"
  /\ worker.pc = "idle" => worker = IdleWorker
  /\ worker.pc \in {"online", "list", "dirs", "purge"} => worker.job = ScanJob

\* Nothing is in flight before the start.
Asleep == ~running => /\ unseen = Dirs /\ queue = <<>> /\ worker = IdleWorker
                      /\ rename = NoRename /\ \A p \in Procs : task[p] = Idle

RescansFit ==
  \A i \in 1..Len(queue) : queue[i].kind = "rescan" => rows[queue[i].row].status # "pending"

\* A processor that will queue its row is past the look at it, and a row that
\* still waits is that of its directory.
AskersFit == \A p \in Procs : task[p].should =>
  /\ task[p].pc \in {"read", "walk", "record"}
  /\ rows[task[p].row].status = "pending" => rows[task[p].row].dir = task[p].dir

Waits(r) == rows[r] # NoRow /\ rows[r].status = "pending" /\ ~rows[r].tried

\* A processor that will come to r, or will queue it.
TakesUp(p, r) ==
  \/ task[p].row = r /\ task[p].should
  \/ /\ task[p].dir = rows[r].dir
     /\ task[p].pc \in {"settling", "gone", "lookup"} \/ (task[p].pc = "forget" /\ task[p].row = r)

Queued(r) == \E i \in 1..Len(queue) : queue[i].row = r

Scheduled(r) == Queued(r) \/ worker.job.row = r \/ \E p \in Procs : TakesUp(p, r)

\* Nobody has come to r, and nothing in flight is about its directory.
LeftAlone(r) ==
  /\ running => rows[r].dir \in unseen \/ disk[rows[r].dir] = "absent"
  /\ \A i \in 1..Len(queue) : queue[i].dir # rows[r].dir
  /\ worker.pc = "apply" => worker.job.dir # rows[r].dir
  /\ \A p \in Procs : task[p].dir # rows[r].dir

WaitingFit == \A r \in Ids : Waits(r) => Scheduled(r) \/ LeftAlone(r)

PInv == /\ OneRowPerDir /\ TitlesFit /\ WorkerFits /\ Asleep
        /\ RescansFit /\ AskersFit /\ WaitingFit

\* In the beginning there is no row and nothing in flight.
LEMMA WaitingInit ==
  ASSUME Init
  PROVE  PInv
<1>1. \A r \in Ids : rows[r] = NoRow
  BY DEF Init
<1>2. queue = <<>> /\ Len(queue) = 0 /\ worker = IdleWorker /\ rename = NoRename /\ unseen = Dirs
      /\ \A p \in Procs : task[p] = Idle
  BY DEF Init
<1>3. OneRowPerDir /\ TitlesFit /\ WaitingFit
  BY <1>1, <1>2, EmptyRecords DEF OneRowPerDir, TitlesFit, WaitingFit, Waits
<1>4. WorkerFits /\ Asleep /\ RescansFit /\ AskersFit
  BY <1>2, EmptyRecords, Constants DEF WorkerFits, Asleep, RescansFit, AskersFit
<1> QED
  BY <1>3, <1>4 DEF PInv

LEMMA NoRowAt ==
  ASSUME NEW d, RowsAt(d) = {}
  PROVE  \A r \in Ids : rows[r] # NoRow => rows[r].dir # d
BY DEF RowsAt, Live

LEMMA RowAt ==
  ASSUME NEW d, NEW r \in RowsAt(d)
  PROVE  r \in Ids /\ rows[r] # NoRow /\ rows[r].dir = d
BY DEF RowsAt, Live

\* A waiting row has a directory.
LEMMA WaitingPlace ==
  ASSUME TInv, NEW r \in Ids, Waits(r)
  PROVE  rows[r].dir \in Dirs /\ rows[r].dir # NoDir
BY Constants DEF TInv, RowsFit, Waits

(* A processor at work goes on in its directory, and still takes up whatever
   waiting row it took up before. *)
LEMMA TurnKeeps ==
  ASSUME TInv, PInv, NEW p \in Procs, task[p].pc # "idle",
         NEW pc \in Pcs \ {"idle"}, NEW r, NEW b, NEW ks, NEW f,
         Turns(p, pc, r, b, ks, f),
         UNCHANGED <<disk, running, rows, queue, worker, rename>>,
         unseen \ {task[p].dir} \subseteq unseen',
         b => /\ pc \in {"read", "walk", "record"}
              /\ rows[r].status = "pending" => rows[r].dir = task[p].dir,
         \A q \in Ids : Waits(q) /\ TakesUp(p, q) => TakesUp(p, q)'
  PROVE  PInv'
<1>1. running
  BY EmptyRecords DEF PInv, Asleep
<1>2. /\ \A q \in Procs : q # p => task'[q] = task[q]
      /\ task'[p].pc = pc /\ task'[p].dir = task[p].dir /\ task'[p].row = r /\ task'[p].should = b
  BY DEF Turns
<1>3. OneRowPerDir' /\ TitlesFit'
  BY DEF PInv, OneRowPerDir, TitlesFit
<1>4. WorkerFits'
  <2>1. task'[Scan] # Idle => task[Scan] # Idle
    BY <1>2, EmptyRecords, Constants
  <2> QED
    BY <2>1 DEF PInv, WorkerFits
<1>5. Asleep' /\ RescansFit'
  BY <1>1 DEF PInv, Asleep, RescansFit
<1>6. AskersFit'
  BY <1>2 DEF PInv, AskersFit
<1>7. ASSUME NEW q \in Ids, Waits(q)' PROVE Scheduled(q)' \/ LeftAlone(q)'
  <2>1. Waits(q)
    BY <1>7 DEF Waits
  <2>2. CASE Scheduled(q)
    <3>1. Queued(q) => Queued(q)'
      BY DEF Queued
    <3>2. ASSUME NEW x \in Procs, TakesUp(x, q) PROVE TakesUp(x, q)'
      BY <1>2, <2>1, <3>2 DEF TakesUp
    <3> QED
      BY <2>2, <3>1, <3>2 DEF Scheduled
  <2>3. CASE LeftAlone(q)
    <3>1. rows[q].dir # task[p].dir
      BY <2>3 DEF LeftAlone
    <3> QED
      BY <1>2, <2>3, <3>1 DEF LeftAlone
  <2> QED
    BY <2>1, <2>2, <2>3 DEF PInv, WaitingFit
<1> QED
  BY <1>3, <1>4, <1>5, <1>6, <1>7 DEF PInv, WaitingFit

(* A processor ends that took up no waiting row, or whose row is queued now. *)
LEMMA StopKeeps ==
  ASSUME TInv, PInv, NEW p \in Procs, task[p].pc # "idle",
         Stops(p), UNCHANGED <<disk, running, rows, queue, rename>>,
         worker' = worker \/ (p = Scan /\ worker' = IdleWorker),
         unseen \subseteq unseen',
         \A q \in Ids : Waits(q) => ~TakesUp(p, q)
  PROVE  PInv'
<1>1. running
  BY EmptyRecords DEF PInv, Asleep
<1>2. task'[p] = Idle /\ \A q \in Procs : q # p => task'[q] = task[q]
  BY DEF Stops
<1>3. OneRowPerDir' /\ TitlesFit'
  BY DEF PInv, OneRowPerDir, TitlesFit
<1>4. WorkerFits'
  BY <1>2, EmptyRecords, Constants DEF PInv, WorkerFits
<1>5. Asleep' /\ RescansFit'
  BY <1>1 DEF PInv, Asleep, RescansFit
<1>6. AskersFit'
  BY <1>2, EmptyRecords DEF PInv, AskersFit
<1>7. ASSUME NEW q \in Ids, Waits(q)' PROVE Scheduled(q)' \/ LeftAlone(q)'
  <2>1. Waits(q) /\ rows[q].dir # NoDir
    BY <1>7, WaitingPlace DEF Waits
  <2>2. CASE Scheduled(q)
    <3>1. Queued(q) => Queued(q)'
      BY DEF Queued
    <3>2. ASSUME NEW x \in Procs, TakesUp(x, q) PROVE TakesUp(x, q)'
      BY <1>2, <2>1, <3>2 DEF TakesUp
    <3>3. worker.job.row = q => worker'.job.row = q
      <4>1. p = Scan => worker.job.row = 0
        BY EmptyRecords DEF PInv, WorkerFits
      <4> QED
        BY <4>1, Constants
    <3> QED
      BY <2>2, <3>1, <3>2, <3>3 DEF Scheduled
  <2>3. CASE LeftAlone(q)
    BY <1>2, <2>1, <2>3, EmptyRecords DEF LeftAlone
  <2> QED
    BY <2>1, <2>2, <2>3 DEF PInv, WaitingFit
<1> QED
  BY <1>3, <1>4, <1>5, <1>6, <1>7 DEF PInv, WaitingFit

LEMMA SettleKeeps ==
  ASSUME TInv, PInv, NEW d \in Dirs, Settle(d)
  PROVE  PInv'
<1>1. d \in Procs /\ task[d].pc = "settling" /\ UNCHANGED <<disk, env, db, queue, worker, rename, ghost>>
  BY Constants DEF Settle
<1>2. PICK pc \in {"gone", "lookup"} :
        Turns(d, pc, task[d].row, task[d].should, task[d].known, task[d].found)
  BY SettleStep
<1>3. ~task[d].should
  BY <1>1 DEF PInv, AskersFit
<1>4. \A q \in Ids : TakesUp(d, q) => TakesUp(d, q)'
  BY <1>1, <1>2, <1>3 DEF TakesUp, Turns, db
<1> QED
  BY <1>1, <1>2, <1>3, <1>4, TurnKeeps DEF Pcs, env, db, ghost

LEMMA FindGoneKeeps ==
  ASSUME TInv, PInv, NEW d \in Dirs, FindGone(d)
  PROVE  PInv'
<1>1. /\ d \in Procs /\ task[d].pc = "gone" /\ UNCHANGED <<disk, env, db, queue, rename, ghost>>
      /\ task[d].dir = d /\ ~task[d].should
  BY Constants, ProcessorFields DEF FindGone, PInv, AskersFit
<1>2. CASE RowsAt(d) = {} /\ Stops(d) /\ UNCHANGED worker
  <2>1. \A q \in Ids : Waits(q) => ~TakesUp(d, q)
    BY <1>1, <1>2, NoRowAt DEF TakesUp, Waits
  <2> QED
    BY <1>1, <1>2, <2>1, StopKeeps DEF env, db, ghost
<1>3. ASSUME UNCHANGED worker, NEW r \in RowsAt(d),
             Turns(d, "forget", r, task[d].should, task[d].known, task[d].found)
      PROVE  PInv'
  <2>1. \A q \in Ids : Waits(q) /\ TakesUp(d, q) => q = r
    BY <1>1, RowAt DEF TakesUp, Waits, PInv, OneRowPerDir
  <2>2. TakesUp(d, r)'
    BY <1>1, <1>3, RowAt DEF TakesUp, Turns, db
  <2> QED
    BY <1>1, <1>3, <2>1, <2>2, TurnKeeps DEF Pcs, env, db, ghost
<1> QED
  BY <1>2, <1>3, FindGoneStep

LEMMA LookupKeeps ==
  ASSUME TInv, PInv, NEW p \in Procs, Lookup(p)
  PROVE  PInv'
<1>1. /\ task[p].pc = "lookup" /\ UNCHANGED <<disk, env, db, queue, worker, rename>>
      /\ unseen' = unseen \ {task[p].dir} /\ ~task[p].should
  BY DEF Lookup, PInv, AskersFit
<1>2. CASE /\ RowsAt(task[p].dir) = {}
           /\ Turns(p, "probe", task[p].row, task[p].should, task[p].known, task[p].found)
  <2>1. \A q \in Ids : Waits(q) => ~TakesUp(p, q)
    BY <1>1, <1>2, NoRowAt DEF TakesUp, Waits
  <2> QED
    BY <1>1, <1>2, <2>1, TurnKeeps DEF Pcs, env, db
<1>3. ASSUME NEW r \in RowsAt(task[p].dir),
             Turns(p, "read", r, ShouldIdentify(r), task[p].known, task[p].found)
      PROVE  PInv'
  <2>1. \A q \in Ids : Waits(q) /\ TakesUp(p, q) => q = r
    BY <1>1, RowAt DEF TakesUp, Waits, PInv, OneRowPerDir
  <2>2. Waits(r) => TakesUp(p, r)'
    BY <1>1, <1>3 DEF TakesUp, Turns, Waits, ShouldIdentify
  <2>3. rows[r].dir = task[p].dir
    BY RowAt
  <2> QED
    BY <1>1, <1>3, <2>1, <2>2, <2>3, TurnKeeps DEF Pcs, env, db
<1> QED
  BY <1>2, <1>3, LookupStep

LEMMA LookKeeps ==
  ASSUME TInv, PInv, NEW p \in Procs, Probe(p) \/ ReadEpisodes(p) \/ Walk(p)
  PROVE  PInv'
<1>1. CASE Probe(p)
  <2>1. /\ task[p].pc = "probe" /\ UNCHANGED <<disk, env, db, queue, rename, ghost>>
        /\ ~task[p].should
    BY <1>1 DEF Probe, PInv, AskersFit
  <2>2. \A q \in Ids : ~TakesUp(p, q)
    BY <2>1 DEF TakesUp
  <2>3. CASE UNCHANGED worker /\ Stops(p)
    BY <2>1, <2>2, <2>3, StopKeeps DEF env, db, ghost
  <2>4. CASE UNCHANGED worker /\ Turns(p, "create", task[p].row, task[p].should, task[p].known, task[p].found)
    BY <2>1, <2>2, <2>4, TurnKeeps DEF Pcs, env, db, ghost
  <2> QED
    BY <1>1, <2>3, <2>4, ProbeStep
<1>2. ASSUME NEW pc \in {"walk", "record"}, NEW ks, NEW f,
             Turns(p, pc, task[p].row, task[p].should, ks, f),
             task[p].pc \in {"read", "walk"},
             UNCHANGED <<disk, env, db, queue, worker, rename, budget, ghost>>
      PROVE  PInv'
  <2>1. task[p].should => (rows[task[p].row].status = "pending" => rows[task[p].row].dir = task[p].dir)
    BY DEF PInv, AskersFit
  <2>2. \A q \in Ids : TakesUp(p, q) => TakesUp(p, q)'
    BY <1>2 DEF TakesUp, Turns, db
  <2> QED
    BY <1>2, <2>1, <2>2, TurnKeeps DEF Pcs, env, db, ghost
<1>3. CASE ReadEpisodes(p)
  BY <1>2, <1>3, ReadStep DEF ReadEpisodes
<1>4. CASE Walk(p)
  BY <1>2, <1>4, WalkStep DEF Walk
<1> QED
  BY <1>1, <1>3, <1>4

\* Row r is gone, the others are as before.
RowGone(r) == \A q \in Ids : rows'[q] = IF q = r THEN NoRow ELSE rows[q]

LEMMA DeletedRow ==
  ASSUME TInv, NEW r \in Ids \cup {0}, RowDeleted(r)
  PROVE  RowGone(r)
BY Constants DEF TInv, TypeOK, RowDeleted, RowBecomes, RowGone

LEMMA GoneKeeps ==
  ASSUME TInv, PInv, NEW r, RowGone(r), UNCHANGED <<queue, rename>>,
         \A p \in Procs : task'[p] = task[p] \/ task'[p] = Idle
  PROVE  OneRowPerDir' /\ TitlesFit' /\ RescansFit' /\ AskersFit'
<1>1. OneRowPerDir'
  BY DEF RowGone, PInv, OneRowPerDir
<1>2. TitlesFit'
  BY EmptyRecords DEF RowGone, PInv, TitlesFit, TInv, RenameFit
<1>3. RescansFit'
  <2>1. ASSUME NEW i \in 1..Len(queue), queue[i].kind = "rescan"
        PROVE  rows'[queue[i].row].status # "pending"
    <3>1. queue[i].row \in Ids
      BY <2>1, EmptyRecords DEF TInv, JobsFit, JobFit
    <3> QED
      BY <2>1, <3>1, EmptyRecords DEF RowGone, PInv, RescansFit
  <2> QED
    BY <2>1 DEF RescansFit
<1>4. AskersFit'
  <2>1. ASSUME NEW p \in Procs, task'[p].should
        PROVE  /\ task'[p].pc \in {"read", "walk", "record"}
               /\ rows'[task'[p].row].status = "pending" => rows'[task'[p].row].dir = task'[p].dir
    <3>1. task'[p] = task[p]
      BY <2>1, EmptyRecords
    <3>2. task[p].pc \in {"read", "walk", "record"}
      BY <2>1, <3>1 DEF PInv, AskersFit
    <3>3. task[p].row \in Ids
      BY <3>2, ProcessorFields DEF WithRow
    <3> QED
      BY <2>1, <3>1, <3>2, <3>3, EmptyRecords DEF RowGone, PInv, AskersFit
  <2> QED
    BY <2>1 DEF AskersFit
<1> QED
  BY <1>1, <1>2, <1>3, <1>4

LEMMA ForgetKeeps ==
  ASSUME TInv, PInv, NEW d \in Dirs, Forget(d)
  PROVE  PInv'
<1>1. /\ d \in Procs /\ task[d].pc = "forget" /\ task[d].row \in Ids /\ ~task[d].should
      /\ UNCHANGED <<disk, env, queue, rename, budget, ghost, worker>>
  BY Constants, ProcessorFields DEF Forget, Ended, PInv, AskersFit, WithRow
<1>2. PICK r \in Ids : r = task[d].row
  BY <1>1
<1>3. RowGone(r) /\ Stops(d)
  BY <1>1, <1>2, DeletedRow, Stopped DEF Forget, Ended
<1>4. running
  BY <1>1, EmptyRecords DEF PInv, Asleep
<1>5. task'[d] = Idle /\ \A q \in Procs : q # d => task'[q] = task[q]
  BY <1>3 DEF Stops
<1>6. OneRowPerDir' /\ TitlesFit' /\ RescansFit' /\ AskersFit'
  BY <1>1, <1>3, <1>5, GoneKeeps
<1>7. WorkerFits'
  BY <1>1, <1>5, EmptyRecords, Constants DEF PInv, WorkerFits
<1>8. Asleep'
  BY <1>1, <1>4 DEF Asleep, env
<1>9. ASSUME NEW q \in Ids, Waits(q)' PROVE Scheduled(q)' \/ LeftAlone(q)'
  <2>1. q # r /\ rows'[q] = rows[q] /\ Waits(q)
    BY <1>3, <1>9 DEF Waits, RowGone
  <2>2. CASE Scheduled(q)
    <3>1. ASSUME NEW x \in Procs, TakesUp(x, q) PROVE TakesUp(x, q)'
      BY <1>1, <1>2, <1>5, <2>1, <3>1 DEF TakesUp
    <3> QED
      BY <1>1, <2>2, <3>1 DEF Scheduled, Queued
  <2>3. CASE LeftAlone(q)
    <3>1. rows[q].dir # NoDir
      BY <2>1, WaitingPlace
    <3> QED
      BY <1>1, <1>5, <2>1, <2>3, <3>1, EmptyRecords DEF LeftAlone, env, ghost
  <2> QED
    BY <2>1, <2>2, <2>3 DEF PInv, WaitingFit
<1> QED
  BY <1>6, <1>7, <1>8, <1>9 DEF PInv, WaitingFit

LEMMA HeldRows ==
  ASSUME TInv, NEW n \in Ids, n \notin Held
  PROVE  /\ \A i \in 1..Len(queue) : queue[i].row # n
         /\ worker.job.row # n /\ rename.row # n
         /\ \A v \in worker.rest : v[1] # n
         /\ \A p \in Procs : task[p].row # n
BY DEF Held

LEMMA CreateKeeps ==
  ASSUME "reuse" \notin Overlap, TInv, PInv, NEW p \in Procs, Create(p)
  PROVE  PInv'
<1>1. /\ task[p].pc = "create" /\ ~task[p].should
      /\ UNCHANGED <<disk, env, eps, queue, rename, budget, ghost>>
  BY DEF Create, PInv, AskersFit
<1>2. CASE Failed(p) /\ UNCHANGED rows
  <2>1. Stops(p) /\ (worker' = worker \/ (p = Scan /\ worker' = IdleWorker))
    BY <1>2, Stopped DEF Failed
  <2>2. \A q \in Ids : ~TakesUp(p, q)
    BY <1>1 DEF TakesUp
  <2> QED
    BY <1>1, <1>2, <2>1, <2>2, StopKeeps DEF env, ghost
<1>3. ASSUME RowsAt(task[p].dir) = {}, UNCHANGED worker, NEW n \in Ids, n \notin Live,
             NewRow(n, task[p].dir), n \notin Held,
             Turns(p, "read", n, TRUE, task[p].known, task[p].found)
      PROVE  PInv'
  <2>1. /\ task[p].dir \in Dirs /\ rows[n] = NoRow
        /\ \A q \in Ids : rows[q] # NoRow => rows[q].dir # task[p].dir
    BY <1>1, <1>3, ProcessorFields, NoRowAt DEF Live
  <2>2. /\ rows'[n].dir = task[p].dir /\ rows'[n].status = "pending" /\ rows'[n].aid = FALSE
        /\ \A q \in Ids : q # n => rows'[q] = rows[q]
    BY <1>3 DEF NewRow
  <2>3. /\ task'[p].pc = "read" /\ task'[p].row = n /\ task'[p].should /\ task'[p].dir = task[p].dir
        /\ \A x \in Procs : x # p => task'[x] = task[x]
    BY <1>3 DEF Turns
  <2>4. running
    BY <1>1, EmptyRecords DEF PInv, Asleep
  <2>5. OneRowPerDir'
    BY <2>1, <2>2 DEF PInv, OneRowPerDir
  <2>6. TitlesFit'
    BY <1>1, <1>3, <2>2, HeldRows, EmptyRecords DEF PInv, TitlesFit, TInv, RenameFit
  <2>7. WorkerFits'
    <3>1. task'[Scan] # Idle => task[Scan] # Idle
      BY <1>1, <2>3, EmptyRecords, Constants
    <3> QED
      BY <1>3, <3>1 DEF PInv, WorkerFits
  <2>8. Asleep'
    BY <1>1, <2>4 DEF Asleep, env
  <2>9. RescansFit'
    <3>1. ASSUME NEW i \in 1..Len(queue), queue[i].kind = "rescan"
          PROVE  rows'[queue[i].row].status # "pending"
      <4>1. queue[i].row \in Ids /\ queue[i].row # n
        BY <1>3, <3>1, HeldRows, EmptyRecords DEF TInv, JobsFit, JobFit
      <4> QED
        BY <2>2, <3>1, <4>1 DEF PInv, RescansFit
    <3> QED
      BY <1>1, <3>1 DEF RescansFit
  <2>10. AskersFit'
    <3>1. ASSUME NEW x \in Procs, x # p, task[x].should
          PROVE  rows'[task[x].row].status = "pending" => rows'[task[x].row].dir = task[x].dir
      <4>1. task[x].row \in Ids /\ task[x].row # n
        BY <1>3, <3>1, HeldRows, ProcessorFields DEF PInv, AskersFit, WithRow
      <4> QED
        BY <2>2, <3>1, <4>1 DEF PInv, AskersFit
    <3> QED
      BY <2>2, <2>3, <3>1 DEF PInv, AskersFit
  <2>11. ASSUME NEW q \in Ids, Waits(q)' PROVE Scheduled(q)' \/ LeftAlone(q)'
    <3>1. CASE q = n
      BY <2>3, <3>1 DEF Scheduled, TakesUp
    <3>2. CASE q # n
      <4>1. rows'[q] = rows[q] /\ Waits(q) /\ rows[q].dir # task[p].dir
        BY <2>1, <2>2, <2>11, <3>2 DEF Waits
      <4>2. CASE Scheduled(q)
        <5>1. ASSUME NEW x \in Procs, TakesUp(x, q) PROVE TakesUp(x, q)'
          BY <1>1, <2>3, <4>1, <5>1 DEF TakesUp
        <5> QED
          BY <1>1, <1>3, <4>2, <5>1 DEF Scheduled, Queued
      <4>3. CASE LeftAlone(q)
        BY <1>1, <1>3, <2>3, <4>1, <4>3 DEF LeftAlone, env, ghost
      <4> QED
        BY <4>1, <4>2, <4>3 DEF PInv, WaitingFit
    <3> QED
      BY <3>1, <3>2
  <2> QED
    BY <2>5, <2>6, <2>7, <2>8, <2>9, <2>10, <2>11 DEF PInv, WaitingFit
<1>4. \/ Failed(p) /\ UNCHANGED rows
      \/ /\ RowsAt(task[p].dir) = {} /\ UNCHANGED worker
         /\ \E n \in Ids :
              /\ n \notin Live /\ NewRow(n, task[p].dir) /\ n \notin Held
              /\ Turns(p, "read", n, TRUE, task[p].known, task[p].found)
  BY CreateStep
<1> QED
  BY <1>2, <1>3, <1>4

(* The queue with one job more. *)
LEMMA Appended ==
  ASSUME TInv, NEW j \in Job, queue' = Append(queue, j)
  PROVE  /\ \A i \in 1..Len(queue) : i \in 1..Len(queue') /\ queue'[i] = queue[i]
         /\ \E i \in 1..Len(queue') : queue'[i] = j
         /\ \A i \in 1..Len(queue') : queue'[i] = j \/ (i \in 1..Len(queue) /\ queue'[i] = queue[i])
<1>1. queue \in Seq(Job)
  BY QueuedJobs
<1>2. Len(queue) \in Nat /\ Len(queue') = Len(queue) + 1
  BY <1>1
<1>3. queue'[Len(queue) + 1] = j /\ \A i \in 1..Len(queue) : queue'[i] = queue[i]
  BY <1>1
<1>4. Len(queue) + 1 \in 1..Len(queue') /\ \A i \in 1..Len(queue') : i \in 1..Len(queue) \/ i = Len(queue) + 1
  BY <1>2
<1> QED
  BY <1>2, <1>3, <1>4

LEMMA RecordKeeps ==
  ASSUME TInv, PInv, NEW p \in Procs, Record(p)
  PROVE  PInv'
<1>1. /\ task[p].pc = "record" /\ task[p].row \in Ids /\ task[p].dir \in Dirs
      /\ UNCHANGED <<disk, env, rows, rename>>
  BY RecordStep, ProcessorFields DEF WithRow
<1>2. PICK r \in Ids : r = task[p].row
  BY <1>1
<1>3. Stops(p) /\ (worker' = worker \/ (p = Scan /\ worker' = IdleWorker)) /\ unseen \subseteq unseen'
  BY RecordStep, Stopped DEF Ended, Failed
<1>4. CASE ~CanRecord(p)
  <2>1. rows[r] = NoRow /\ queue' = queue
    BY <1>2, <1>4, RecordStep DEF CanRecord
  <2>2. \A q \in Ids : Waits(q) => ~TakesUp(p, q)
    BY <1>1, <1>2, <2>1 DEF TakesUp, Waits
  <2> QED
    BY <1>1, <1>3, <2>1, <2>2, StopKeeps DEF env
<1>5. CASE CanRecord(p) /\ ~task[p].should
  <2>1. queue' = queue
    BY <1>5, RecordStep
  <2>2. \A q \in Ids : ~TakesUp(p, q)
    BY <1>1, <1>5 DEF TakesUp
  <2> QED
    BY <1>1, <1>3, <2>1, <2>2, StopKeeps DEF env
<1>6. CASE CanRecord(p) /\ task[p].should
  <2>1. PICK j : j = [kind |-> "identify", row |-> r, dir |-> task[p].dir]
    OBVIOUS
  <2>2. j \in Job /\ j.kind = "identify" /\ j.row = r /\ j.dir = task[p].dir
    BY <1>1, <2>1 DEF Job
  <2>3. queue' = Append(queue, j) /\ worker' = worker /\ unseen' = unseen
    BY <1>2, <1>6, <2>1, RecordStep DEF Ended
  <2>4. task'[p] = Idle /\ \A x \in Procs : x # p => task'[x] = task[x]
    BY <1>3 DEF Stops
  <2>5. running
    BY <1>1, EmptyRecords DEF PInv, Asleep
  <2>6. OneRowPerDir' /\ TitlesFit'
    BY <1>1 DEF PInv, OneRowPerDir, TitlesFit
  <2>7. WorkerFits' /\ AskersFit'
    <3>1. task'[Scan] # Idle => task[Scan] # Idle
      BY <2>4, Constants
    <3>2. WorkerFits'
      BY <2>3, <3>1 DEF PInv, WorkerFits
    <3>3. AskersFit'
      BY <1>1, <2>4, EmptyRecords DEF PInv, AskersFit
    <3> QED
      BY <3>2, <3>3
  <2>8. Asleep'
    BY <1>1, <2>5 DEF Asleep, env
  <2>9. RescansFit'
    BY <1>1, <2>2, <2>3, Appended DEF PInv, RescansFit
  <2>10. ASSUME NEW q \in Ids, Waits(q)' PROVE Scheduled(q)' \/ LeftAlone(q)'
    <3>1. Waits(q) /\ rows[q].dir # NoDir
      BY <1>1, <2>10, WaitingPlace DEF Waits
    <3>2. CASE q = r
      <4>1. Queued(q)'
        BY <2>2, <2>3, <3>2, Appended DEF Queued
      <4> QED
        BY <4>1 DEF Scheduled
    <3>3. CASE Scheduled(q) /\ q # r
      <4>1. Queued(q) => Queued(q)'
        BY <2>2, <2>3, Appended DEF Queued
      <4>2. ASSUME NEW x \in Procs, TakesUp(x, q) PROVE TakesUp(x, q)'
        BY <1>1, <1>2, <2>4, <3>3, <4>2 DEF TakesUp
      <4> QED
        BY <2>3, <3>3, <4>1, <4>2 DEF Scheduled
    <3>4. CASE LeftAlone(q)
      <4>1. rows[q].dir # task[p].dir
        BY <3>4 DEF LeftAlone
      <4>2. \A i \in 1..Len(queue') : queue'[i].dir # rows[q].dir
        BY <2>2, <2>3, <3>4, <4>1, Appended DEF LeftAlone
      <4> QED
        BY <1>1, <2>3, <2>4, <3>1, <3>4, <4>2, EmptyRecords DEF LeftAlone, env
    <3> QED
      BY <3>1, <3>2, <3>3, <3>4 DEF PInv, WaitingFit
  <2> QED
    BY <2>6, <2>7, <2>8, <2>9, <2>10 DEF PInv, WaitingFit
<1> QED
  BY <1>4, <1>5, <1>6

(* The worker goes on with a job that takes up no waiting row. *)
LEMMA WorkerGoes ==
  ASSUME TInv, PInv, worker.pc # "idle",
         \A q \in Ids : Waits(q) => worker.job.row # q,
         UNCHANGED <<disk, running, rows, queue, task, rename>>,
         WorkerFits', worker'.pc # "apply",
         \A d \in unseen : disk[d] # "absent" => d \in unseen'
  PROVE  PInv'
<1>1. running
  BY EmptyRecords DEF PInv, Asleep
<1>2. OneRowPerDir' /\ TitlesFit' /\ RescansFit' /\ AskersFit'
  BY DEF PInv, OneRowPerDir, TitlesFit, RescansFit, AskersFit
<1>3. Asleep'
  BY <1>1 DEF Asleep
<1>4. ASSUME NEW q \in Ids, Waits(q)' PROVE Scheduled(q)' \/ LeftAlone(q)'
  <2>1. Waits(q)
    BY <1>4 DEF Waits
  <2>2. CASE Scheduled(q)
    BY <2>1, <2>2 DEF Scheduled, Queued, TakesUp
  <2>3. CASE LeftAlone(q)
    BY <2>3 DEF LeftAlone
  <2> QED
    BY <2>1, <2>2, <2>3 DEF PInv, WaitingFit
<1> QED
  BY <1>2, <1>3, <1>4 DEF PInv, WaitingFit

LEMMA ScanKeeps ==
  ASSUME TInv, PInv, ScanOnline \/ ScanList \/ ScanSelect \/ ScanRecheck \/ ScanDone
  PROVE  PInv'
<1>1. /\ worker.pc \in {"online", "list", "dirs", "purge"}
      /\ UNCHANGED <<disk, running, rows, queue, task, rename>>
      /\ \A d \in unseen : disk[d] # "absent" => d \in unseen'
  BY DEF ScanOnline, ScanList, ScanSelect, ScanRecheck, ScanDone, env, db, ghost
<1>2. worker \in WorkerState /\ worker.job = ScanJob /\ worker.job.row = 0
  BY <1>1, EmptyRecords DEF PInv, WorkerFits, TInv, TypeOK
<1>3. \A q \in Ids : worker.job.row # q
  BY <1>2, Constants
<1>4. \/ worker' = IdleWorker /\ task[Scan] = Idle
      \/ worker'.pc \in {"list", "dirs", "purge"} /\ worker'.job = ScanJob /\ task[Scan] = Idle
      \/ worker'.pc = "delete" /\ task[Scan] = Idle
  <2>1. CASE ScanOnline
    BY <1>2, <2>1 DEF ScanOnline, PInv, WorkerFits, WorkerState
  <2>2. CASE ScanList
    BY <1>2, <2>2 DEF ScanList, PInv, WorkerFits, WorkerState
  <2>3. CASE ScanSelect
    <3>1. PICK rest : worker' = [worker EXCEPT !.pc = "purge", !.listed = {}, !.rest = rest]
      BY <2>3 DEF ScanSelect
    <3> QED
      BY <1>2, <2>3, <3>1 DEF ScanSelect, WorkerState
  <2>4. CASE ScanRecheck
    <3>1. PICK v, j : \/ worker' = [worker EXCEPT !.rest = @ \ {v}]
                      \/ worker' = [worker EXCEPT !.pc = "delete", !.rest = @ \ {v}, !.job = j]
      BY <2>4 DEF ScanRecheck
    <3>2. worker.pc = "purge" /\ task[Scan] = Idle
      BY <2>4 DEF ScanRecheck, PInv, WorkerFits
    <3> QED
      BY <1>2, <3>1, <3>2 DEF WorkerState
  <2>5. CASE ScanDone
    BY <2>5 DEF ScanDone, PInv, WorkerFits
  <2> QED
    BY <2>1, <2>2, <2>3, <2>4, <2>5
<1>5. WorkerFits' /\ worker'.pc # "apply"
  BY <1>1, <1>4, EmptyRecords DEF WorkerFits
<1> QED
  BY <1>1, <1>3, <1>5, WorkerGoes

LEMMA NextDirKeeps ==
  ASSUME TInv, PInv, ScanNextDir
  PROVE  PInv'
<1>1. /\ worker.pc = "dirs" /\ task[Scan] = Idle
      /\ UNCHANGED <<disk, env, db, queue, rename, budget, ghost>>
  BY DEF ScanNextDir
<1>2. PICK d \in worker.todo :
        /\ d \in Dirs
        /\ \A q \in Procs : q # Scan => task'[q] = task[q]
        /\ task'[Scan].pc = "lookup" /\ task'[Scan].dir = d /\ task'[Scan].should = FALSE
        /\ worker' = [worker EXCEPT !.todo = @ \ {d}]
  BY NextDirStep
<1>3. worker \in WorkerState /\ worker.job = ScanJob /\ running
  BY <1>1, EmptyRecords DEF PInv, WorkerFits, Asleep, TInv, TypeOK
<1>4. worker'.pc = "dirs" /\ worker'.job = ScanJob
  BY <1>1, <1>2, <1>3 DEF WorkerState
<1>5. OneRowPerDir' /\ TitlesFit' /\ RescansFit'
  BY <1>1 DEF PInv, OneRowPerDir, TitlesFit, RescansFit, db
<1>6. WorkerFits' /\ Asleep'
  BY <1>1, <1>3, <1>4 DEF WorkerFits, Asleep, env
<1>7. AskersFit'
  BY <1>1, <1>2 DEF PInv, AskersFit, db
<1>8. ASSUME NEW q \in Ids, Waits(q)' PROVE Scheduled(q)' \/ LeftAlone(q)'
  <2>1. Waits(q) /\ rows[q].dir # NoDir /\ rows'[q] = rows[q]
    BY <1>1, <1>8, WaitingPlace DEF Waits, db
  <2>2. CASE Scheduled(q)
    <3>1. ~TakesUp(Scan, q)
      BY <1>1, <2>1, EmptyRecords DEF TakesUp
    <3>2. ASSUME NEW x \in Procs, TakesUp(x, q) PROVE TakesUp(x, q)'
      BY <1>2, <2>1, <3>1, <3>2 DEF TakesUp
    <3> QED
      BY <1>1, <1>3, <1>4, <2>2, <3>2 DEF Scheduled, Queued
  <2>3. CASE LeftAlone(q) /\ rows[q].dir = d
    <3>1. TakesUp(Scan, q)'
      BY <1>2, <2>1, <2>3 DEF TakesUp
    <3> QED
      BY <3>1, Constants DEF Scheduled
  <2>4. CASE LeftAlone(q) /\ rows[q].dir # d
    BY <1>1, <1>2, <1>4, <2>1, <2>4 DEF LeftAlone, env, ghost
  <2> QED
    BY <2>1, <2>2, <2>3, <2>4 DEF PInv, WaitingFit
<1> QED
  BY <1>5, <1>6, <1>7, <1>8 DEF PInv, WaitingFit

LEMMA PurgeKeeps ==
  ASSUME TInv, PInv, ScanPurge
  PROVE  PInv'
<1>1. /\ worker.pc = "delete" /\ UNCHANGED <<disk, env, queue, task, rename, budget, ghost>>
      /\ worker' = [worker EXCEPT !.pc = "purge", !.job = ScanJob]
      /\ worker \in WorkerState /\ task[Scan] = Idle
  BY DEF ScanPurge, TInv, TypeOK, PInv, WorkerFits
<1>2. PICK r \in Ids \cup {0} : r = worker.job.row
  BY WorkerFields
<1>3. RowGone(r)
  BY <1>2, DeletedRow DEF ScanPurge
<1>4. worker'.pc = "purge" /\ worker'.job = ScanJob
  BY <1>1 DEF WorkerState
<1>5. running
  BY <1>1, EmptyRecords DEF PInv, Asleep
<1>6. OneRowPerDir' /\ TitlesFit' /\ RescansFit' /\ AskersFit'
  BY <1>1, <1>3, GoneKeeps
<1>7. WorkerFits' /\ Asleep'
  BY <1>1, <1>4, <1>5 DEF WorkerFits, Asleep, env
<1>8. ASSUME NEW q \in Ids, Waits(q)' PROVE Scheduled(q)' \/ LeftAlone(q)'
  <2>1. q # r /\ rows'[q] = rows[q] /\ Waits(q)
    BY <1>3, <1>8 DEF Waits, RowGone
  <2>2. CASE Scheduled(q)
    BY <1>1, <1>2, <2>1, <2>2 DEF Scheduled, Queued, TakesUp
  <2>3. CASE LeftAlone(q)
    BY <1>1, <1>4, <2>1, <2>3 DEF LeftAlone, env, ghost
  <2> QED
    BY <2>1, <2>2, <2>3 DEF PInv, WaitingFit
<1> QED
  BY <1>6, <1>7, <1>8 DEF PInv, WaitingFit

LEMMA TakeJobKeeps ==
  ASSUME TInv, PInv, TakeJob
  PROVE  PInv'
<1>1. /\ running /\ worker.pc = "idle" /\ queue # <<>> /\ queue' = Tail(queue)
      /\ UNCHANGED <<disk, env, db, task, rename, budget, ghost>>
      /\ worker = IdleWorker /\ task[Scan] = Idle
  BY DEF TakeJob, PInv, WorkerFits
<1>2. queue \in Seq(Job)
  BY QueuedJobs
<1>3. /\ Head(queue) = queue[1] /\ 1 \in 1..Len(queue)
      /\ \A i \in 1..Len(Tail(queue)) : i + 1 \in 1..Len(queue) /\ Tail(queue)[i] = queue[i + 1]
      /\ \A i \in 1..Len(queue) : i = 1 \/ (i - 1 \in 1..Len(Tail(queue)) /\ Tail(queue)[i - 1] = queue[i])
  BY <1>1, <1>2
<1>4. PICK j \in Job : j = Head(queue)
  BY <1>2, <1>3
<1>5. JobFit(j) /\ (j.kind = "rescan" => rows[j.row].status # "pending")
  BY <1>3, <1>4 DEF TInv, JobsFit, PInv, RescansFit
<1>6. \/ j = ScanJob /\ worker'.pc = "online" /\ worker'.job = ScanJob
      \/ j # ScanJob /\ Wanted(j) /\ worker'.pc = "apply" /\ worker'.job = j
      \/ j # ScanJob /\ ~Wanted(j) /\ worker' = IdleWorker
  BY <1>4 DEF TakeJob, IdleWorker
<1>7. OneRowPerDir' /\ TitlesFit' /\ AskersFit'
  BY <1>1 DEF PInv, OneRowPerDir, TitlesFit, AskersFit, db
<1>8. RescansFit'
  BY <1>1, <1>3 DEF PInv, RescansFit, db
<1>9. WorkerFits' /\ Asleep'
  BY <1>1, <1>6, EmptyRecords DEF WorkerFits, Asleep, env
<1>10. ASSUME NEW q \in Ids, Waits(q)' PROVE Scheduled(q)' \/ LeftAlone(q)'
  <2>1. Waits(q) /\ rows'[q] = rows[q] /\ q # 0
    BY <1>1, <1>10, Constants DEF Waits, db
  <2>2. CASE Scheduled(q)
    <3>1. CASE \E p \in Procs : TakesUp(p, q)
      BY <1>1, <2>1, <3>1 DEF Scheduled, TakesUp
    <3>2. CASE Queued(q)
      <4>1. PICK i \in 1..Len(queue) : queue[i].row = q
        BY <3>2 DEF Queued
      <4>2. CASE i = 1
        <5>1. j.row = q /\ j # ScanJob
          BY <1>3, <1>4, <2>1, <4>1, <4>2, EmptyRecords
        <5>2. Wanted(j)
          BY <1>5, <2>1, <5>1 DEF Wanted, Waits
        <5> QED
          BY <1>6, <5>1, <5>2 DEF Scheduled
      <4>3. CASE i # 1
        <5>1. i - 1 \in 1..Len(queue') /\ queue'[i - 1].row = q
          BY <1>1, <1>3, <4>1, <4>3
        <5> QED
          BY <5>1 DEF Scheduled, Queued
      <4> QED
        BY <4>2, <4>3
    <3>3. worker.job.row # q
      BY <1>1, <2>1, EmptyRecords
    <3> QED
      BY <2>2, <3>1, <3>2, <3>3 DEF Scheduled
  <2>3. CASE LeftAlone(q)
    <3>1. \A i \in 1..Len(queue') : queue'[i].dir # rows[q].dir
      BY <1>1, <1>3, <2>3 DEF LeftAlone
    <3>2. worker'.pc = "apply" => worker'.job.dir # rows[q].dir
      BY <1>3, <1>4, <1>6, <2>3, EmptyRecords DEF LeftAlone
    <3> QED
      BY <1>1, <2>1, <2>3, <3>1, <3>2 DEF LeftAlone, env, ghost
  <2> QED
    BY <2>1, <2>2, <2>3 DEF PInv, WaitingFit
<1> QED
  BY <1>7, <1>8, <1>9, <1>10 DEF PInv, WaitingFit

(* Checks start in some directories, or nobody is told. *)
LEMMA RestartedTask ==
  ASSUME TInv, NEW ds \in SUBSET Dirs, task' = Restarted(ds)
  PROVE  /\ \A d \in ds : /\ d \in Procs /\ task'[d].pc = "settling" /\ task'[d].dir = d
                          /\ task'[d].should = FALSE /\ task'[d].row = 0
         /\ \A p \in Procs : p \notin ds => task'[p] = task[p]
         /\ task'[Scan] = task[Scan]
<1>1. \A p \in Procs : IF p \in ds THEN task'[p] = Settling(p) ELSE task'[p] = task[p]
  BY RestartStep DEF TInv, TypeOK
<1>2. \A p \in Procs : p \notin ds => task'[p] = task[p]
  BY <1>1
<1>3. ASSUME NEW d \in ds
      PROVE  /\ d \in Procs /\ task'[d].pc = "settling" /\ task'[d].dir = d
             /\ task'[d].should = FALSE /\ task'[d].row = 0
  <2>1. d \in Dirs /\ d \in Procs
    BY Constants
  <2>2. task'[d] = Settling(d)
    BY <1>1, <2>1
  <2> QED
    BY <2>1, <2>2, SettlingFields
<1>4. Scan \in Procs /\ Scan \notin ds
  BY Constants
<1> QED
  BY <1>2, <1>3, <1>4

(* A waiting row that was taken up stays so where checks start: in its own
   directory one starts, and elsewhere nothing was about it. *)
LEMMA RestartTakes ==
  ASSUME TInv, PInv, NEW ds \in SUBSET Dirs, task' = Restarted(ds),
         NEW q \in Ids, Waits(q), rows'[q] = rows[q], NEW p \in Procs, TakesUp(p, q)
  PROVE  TakesUp(p, q)'
<1>1. CASE p \notin ds
  BY <1>1, RestartedTask DEF TakesUp
<1>2. CASE p \in ds
  <2>1. task[p].pc # "idle" /\ task[p].dir = p
    <3>1. task[p].pc # "idle"
      BY EmptyRecords, ProcessorFields DEF TakesUp, PInv, AskersFit
    <3> QED
      BY <1>2, <3>1, ProcessorFields, Constants
  <2>2. rows[q].dir = p
    BY <2>1 DEF TakesUp, PInv, AskersFit, Waits
  <2>3. task'[p].pc = "settling" /\ task'[p].dir = p
    BY <1>2, RestartedTask
  <2> QED
    BY <2>2, <2>3 DEF TakesUp
<1> QED
  BY <1>1, <1>2

(* An answer settles its row.  If it changes the disk, a check starts in the
   directory of its job, which is that of no row left alone. *)
LEMMA ApplyKeeps ==
  ASSUME TInv, PInv, ApplyAnswer
  PROVE  PInv'
<1>1. /\ worker.pc = "apply" /\ worker.job.row \in Ids /\ worker.job.dir \in Dirs /\ worker' = IdleWorker
      /\ UNCHANGED <<env, eps, queue, rename, budget, ghost>>
  BY EmptyRecords, AnswerStep DEF TInv, JobsFit, JobFit, ApplyAnswer
<1>2. PICK r \in Ids : r = worker.job.row
  BY <1>1
<1>3. PICK d \in Dirs : d = worker.job.dir
  BY <1>1
<1>4. /\ \A q \in Ids : q # r => rows'[q] = rows[q]
      /\ \/ rows'[r] = rows[r] /\ rows[r] = NoRow
         \/ /\ rows[r] # NoRow /\ rows'[r].dir = rows[r].dir /\ rows'[r].tried = TRUE
            /\ \/ rows'[r].status = rows[r].status /\ rows'[r].aid = rows[r].aid
               \/ rows'[r].status = "unclear" /\ rows'[r].aid = rows[r].aid
               \/ rows'[r].status = "identified" /\ rows'[r].aid = TRUE
  BY <1>1, <1>2, AnswerStep DEF Answered
<1>5. /\ task' = task \/ task' = Restarted({d})
      /\ \A x \in Dirs : x # d => disk'[x] = disk[x]
  <2>1. task' = task \/ task' = Restarted({d})
    BY <1>1, <1>3, AnswerStep
  <2>2. disk' = disk \/ disk' = [disk EXCEPT ![d] = IF @ = "video" THEN @ ELSE "other"]
    BY <1>1, <1>3, AnswerStep
  <2> QED
    BY <2>1, <2>2 DEF TInv, TypeOK
<1>6. running /\ task[Scan] = Idle
  BY <1>1, EmptyRecords DEF PInv, Asleep, WorkerFits
<1>7. \A p \in Procs : task'[p] = task[p] \/ (task'[p].should = FALSE /\ task'[p].dir = d)
  <2>1. CASE task' = task
    BY <2>1
  <2>2. CASE task' = Restarted({d})
    <3>1. PICK ds \in SUBSET Dirs : ds = {d}
      OBVIOUS
    <3>2. /\ \A x \in ds : task'[x].dir = x /\ task'[x].should = FALSE
          /\ \A p \in Procs : p \notin ds => task'[p] = task[p]
      BY <2>2, <3>1, RestartedTask
    <3> QED
      BY <3>1, <3>2
  <2> QED
    BY <1>5, <2>1, <2>2
<1>8. OneRowPerDir'
  BY <1>4, EmptyRecords DEF PInv, OneRowPerDir
<1>9. TitlesFit'
  BY <1>1, <1>4, EmptyRecords DEF PInv, TitlesFit, TInv, RenameFit
<1>10. WorkerFits'
  BY <1>1, <1>5, <1>6, RestartedTask, EmptyRecords DEF WorkerFits
<1>11. Asleep'
  BY <1>1, <1>6 DEF Asleep, env
<1>12. RescansFit'
  <2>1. ASSUME NEW i \in 1..Len(queue), queue[i].kind = "rescan"
        PROVE  rows'[queue[i].row].status # "pending"
    <3>1. queue[i].row \in Ids
      BY <2>1, EmptyRecords DEF TInv, JobsFit, JobFit
    <3>2. rows[queue[i].row].status # "pending"
      BY <2>1 DEF PInv, RescansFit
    <3> QED
      BY <1>4, <3>1, <3>2
  <2> QED
    BY <1>1, <2>1 DEF RescansFit
<1>13. AskersFit'
  <2>1. ASSUME NEW p \in Procs, task'[p].should
        PROVE  /\ task'[p].pc \in {"read", "walk", "record"}
               /\ rows'[task'[p].row].status = "pending" => rows'[task'[p].row].dir = task'[p].dir
    <3>1. task'[p] = task[p] /\ task[p].should
      BY <1>7, <2>1
    <3>2. /\ task[p].pc \in {"read", "walk", "record"} /\ task[p].row \in Ids
          /\ rows[task[p].row].status = "pending" => rows[task[p].row].dir = task[p].dir
      BY <3>1, ProcessorFields DEF PInv, AskersFit, WithRow
    <3> QED
      BY <1>4, <3>1, <3>2
  <2> QED
    BY <2>1 DEF AskersFit
<1>14. ASSUME NEW q \in Ids, Waits(q)' PROVE Scheduled(q)' \/ LeftAlone(q)'
  <2>1. q # r /\ rows'[q] = rows[q] /\ Waits(q)
    BY <1>4, <1>14 DEF Waits
  <2>2. CASE Scheduled(q)
    <3>1. ASSUME NEW x \in Procs, TakesUp(x, q) PROVE TakesUp(x, q)'
      <4>1. CASE task' = task
        BY <2>1, <3>1, <4>1 DEF TakesUp
      <4>2. CASE task' = Restarted({d})
        BY <2>1, <3>1, <4>2, RestartTakes
      <4> QED
        BY <1>5, <4>1, <4>2
    <3> QED
      BY <1>1, <1>2, <2>1, <2>2, <3>1 DEF Scheduled, Queued
  <2>3. CASE LeftAlone(q)
    <3>1. rows[q].dir # d /\ rows[q].dir \in Dirs
      BY <1>1, <1>3, <2>1, <2>3, WaitingPlace DEF LeftAlone
    <3>2. disk'[rows[q].dir] = disk[rows[q].dir]
      BY <1>5, <3>1
    <3>3. \A p \in Procs : task'[p].dir # rows[q].dir
      BY <1>7, <2>3, <3>1 DEF LeftAlone
    <3> QED
      BY <1>1, <2>1, <2>3, <3>2, <3>3, EmptyRecords DEF LeftAlone, env, ghost
  <2> QED
    BY <2>1, <2>2, <2>3 DEF PInv, WaitingFit
<1> QED
  BY <1>8, <1>9, <1>10, <1>11, <1>12, <1>13, <1>14 DEF PInv, WaitingFit

(* Jobs queued behind the others, rescans only for rows that are not pending,
   and none about the directory of a waiting row but for that row. *)
LEMMA QueueGrows ==
  ASSUME TInv, PInv, running, NEW new \in Seq(Job), queue' = queue \o new,
         UNCHANGED <<disk, running, rows, worker, task, rename, unseen>>,
         \A i \in 1..Len(new) :
           /\ new[i].kind = "rescan" => rows[new[i].row].status # "pending"
           /\ \A q \in Ids : Waits(q) /\ new[i].dir = rows[q].dir => new[i].row = q
  PROVE  PInv'
<1>1. queue \in Seq(Job)
  BY QueuedJobs
<1>2. /\ Len(queue) \in Nat /\ Len(new) \in Nat /\ Len(queue') = Len(queue) + Len(new)
      /\ \A i \in 1..Len(queue) : i \in 1..Len(queue') /\ queue'[i] = queue[i]
      /\ \A i \in 1..Len(new) : Len(queue) + i \in 1..Len(queue') /\ queue'[Len(queue) + i] = new[i]
      /\ \A i \in 1..Len(queue') : i \in 1..Len(queue) \/ (i - Len(queue) \in 1..Len(new) /\ i = Len(queue) + (i - Len(queue)))
  BY <1>1
<1>3. \A i \in 1..Len(queue') :
        \/ i \in 1..Len(queue) /\ queue'[i] = queue[i]
        \/ \E k \in 1..Len(new) : queue'[i] = new[k]
  BY <1>2
<1>4. OneRowPerDir' /\ TitlesFit' /\ AskersFit'
  BY DEF PInv, OneRowPerDir, TitlesFit, AskersFit
<1>5. WorkerFits' /\ Asleep'
  BY DEF PInv, WorkerFits, Asleep
<1>6. RescansFit'
  BY <1>3 DEF PInv, RescansFit
<1>7. ASSUME NEW q \in Ids, Waits(q)' PROVE Scheduled(q)' \/ LeftAlone(q)'
  <2>1. Waits(q)
    BY <1>7 DEF Waits
  <2>2. CASE Scheduled(q)
    <3>1. Queued(q) => Queued(q)'
      BY <1>2 DEF Queued
    <3> QED
      BY <2>2, <3>1 DEF Scheduled, TakesUp
  <2>3. CASE LeftAlone(q) /\ \E i \in 1..Len(new) : new[i].dir = rows[q].dir
    <3>1. PICK i \in 1..Len(new) : new[i].row = q
      BY <2>1, <2>3
    <3>2. Queued(q)'
      BY <1>2, <3>1 DEF Queued
    <3> QED
      BY <3>2 DEF Scheduled
  <2>4. CASE LeftAlone(q) /\ \A i \in 1..Len(new) : new[i].dir # rows[q].dir
    <3>1. \A i \in 1..Len(queue') : queue'[i].dir # rows[q].dir
      BY <1>3, <2>4 DEF LeftAlone
    <3> QED
      BY <2>4, <3>1 DEF LeftAlone
  <2> QED
    BY <2>1, <2>2, <2>3, <2>4 DEF PInv, WaitingFit
<1> QED
  BY <1>4, <1>5, <1>6, <1>7 DEF PInv, WaitingFit

(* Rescans of identified rows, or identifications of pending ones. *)
LEMMA JobsOfRowsAside ==
  ASSUME TInv, PInv, NEW rs \in SUBSET Live, NEW kind \in {"identify_if_pending", "rescan"},
         kind = "rescan" => \A r \in rs : rows[r].status = "identified",
         NEW i \in 1..Len(JobsFor(kind, rs)), NEW j, j = JobsFor(kind, rs)[i]
  PROVE  /\ j.kind = "rescan" => rows[j.row].status # "pending"
         /\ \A q \in Ids : Waits(q) /\ j.dir = rows[q].dir => j.row = q
<1>1. PICK r \in rs : j.kind = kind /\ j.row = r /\ j.dir = rows[r].dir
  BY JobsOfRowsFit
<1>2. r \in Ids /\ rows[r] # NoRow
  BY DEF Live
<1> QED
  BY <1>1, <1>2 DEF PInv, OneRowPerDir, Waits

LEMMA RequestsKeep ==
  ASSUME TInv, PInv, RequestScan \/ EnqueueForRows
  PROVE  PInv'
<1>1. CASE RequestScan
  <2>1. PICK new : new = <<ScanJob>>
    OBVIOUS
  <2>2. new \in Seq(Job) /\ Len(new) = 1 /\ new[1] = ScanJob
    BY <2>1, EmptyRecords
  <2>3. queue' = queue \o new
    <3>1. queue' = Append(queue, ScanJob) /\ queue \in Seq(Job)
      BY <1>1, QueuedJobs DEF RequestScan
    <3> QED
      BY <2>1, <3>1, EmptyRecords
  <2>4. /\ running /\ UNCHANGED <<disk, running, rows, worker, task, rename, unseen>>
    BY <1>1 DEF RequestScan, env, db, ghost
  <2>5. \A i \in 1..Len(new) : new[i].kind = "scan" /\ new[i].dir = NoDir
    BY <2>2, EmptyRecords
  <2>6. \A q \in Ids : Waits(q) => rows[q].dir # NoDir
    BY WaitingPlace
  <2> QED
    BY <2>2, <2>3, <2>4, <2>5, <2>6, QueueGrows
<1>2. CASE EnqueueForRows
  <2>1. PICK kind \in {"rescan", "identify_if_pending"} :
          \E rs : /\ rs \in SUBSET Live /\ queue' = queue \o JobsFor(kind, rs)
                  /\ kind = "rescan" => \A r \in rs : rows[r].status = "identified"
    BY <1>2 DEF EnqueueForRows
  <2>2. PICK rs : /\ rs \in SUBSET Live /\ queue' = queue \o JobsFor(kind, rs)
                  /\ kind = "rescan" => \A r \in rs : rows[r].status = "identified"
    BY <2>1
  <2>3. PICK new \in Seq(Job) : new = JobsFor(kind, rs)
    BY <2>2, JobsOfRows DEF Live
  <2>4. \A i \in 1..Len(new) :
           /\ new[i].kind = "rescan" => rows[new[i].row].status # "pending"
           /\ \A q \in Ids : Waits(q) /\ new[i].dir = rows[q].dir => new[i].row = q
    <3>1. ASSUME NEW i \in 1..Len(new)
          PROVE  /\ new[i].kind = "rescan" => rows[new[i].row].status # "pending"
                 /\ \A q \in Ids : Waits(q) /\ new[i].dir = rows[q].dir => new[i].row = q
      <4>1. PICK j : j = new[i]
        OBVIOUS
      <4>2. i \in 1..Len(JobsFor(kind, rs)) /\ j = JobsFor(kind, rs)[i]
        BY <2>3, <4>1
      <4>3. /\ j.kind = "rescan" => rows[j.row].status # "pending"
            /\ \A q \in Ids : Waits(q) /\ j.dir = rows[q].dir => j.row = q
        BY <2>2, <4>2, JobsOfRowsAside, ZenonT(40)
      <4> QED
        BY <4>1, <4>3
    <3> QED
      BY <3>1
  <2>5. running /\ UNCHANGED <<disk, running, rows, worker, task, rename, unseen>>
    BY <1>2 DEF EnqueueForRows, env, db, ghost
  <2> QED
    BY <2>2, <2>3, <2>4, <2>5, QueueGrows
<1> QED
  BY <1>1, <1>2

\* What no part of PInv looks at may change.
LEMMA AsideKeeps ==
  ASSUME PInv, UNCHANGED <<disk, running, rows, queue, worker, task, rename, unseen>>
  PROVE  PInv'
BY DEF PInv, OneRowPerDir, TitlesFit, WorkerFits, Asleep, RescansFit, AskersFit, WaitingFit,
       Waits, Scheduled, Queued, TakesUp, LeftAlone

LEMMA DeleteKeeps ==
  ASSUME TInv, PInv, NEW r \in Ids, DeleteAnime(r)
  PROVE  PInv'
<1>1. running /\ RowGone(r) /\ UNCHANGED <<disk, env, queue, worker, task, rename>> /\ unseen \subseteq unseen'
  BY DeletedRow DEF DeleteAnime
<1>2. OneRowPerDir' /\ TitlesFit' /\ RescansFit' /\ AskersFit'
  BY <1>1, GoneKeeps
<1>3. WorkerFits' /\ Asleep'
  BY <1>1 DEF PInv, WorkerFits, Asleep, env
<1>4. ASSUME NEW q \in Ids, Waits(q)' PROVE Scheduled(q)' \/ LeftAlone(q)'
  <2>1. q # r /\ rows'[q] = rows[q] /\ Waits(q)
    BY <1>1, <1>4 DEF Waits, RowGone
  <2>2. CASE Scheduled(q)
    BY <1>1, <2>1, <2>2 DEF Scheduled, Queued, TakesUp
  <2>3. CASE LeftAlone(q)
    BY <1>1, <2>1, <2>3 DEF LeftAlone, env
  <2> QED
    BY <2>1, <2>2, <2>3 DEF PInv, WaitingFit
<1> QED
  BY <1>2, <1>3, <1>4 DEF PInv, WaitingFit

(* Directories change on disk, none of them that of a waiting row unless it
   is told of.  A row left alone in one of them is checked or unseen now. *)
LEMMA TouchKeeps ==
  ASSUME TInv, PInv, NEW ds \in SUBSET Dirs, Touched(ds),
         UNCHANGED <<running, rows, queue, worker>>,
         \A x \in Dirs : x \notin ds => disk'[x] = disk[x],
         running \/ rename' = rename,
         rename'.pc = "moved" => rename' = rename \/ rows[rename'.row].aid
  PROVE  PInv'
<1>1. \/ Watched /\ task' = Restarted(ds) /\ unseen' = unseen
      \/ ~Watched /\ task' = task /\ unseen' = unseen \cup ds
  BY DEF Touched
<1>2. OneRowPerDir' /\ RescansFit'
  BY DEF PInv, OneRowPerDir, RescansFit
<1>3. TitlesFit'
  BY DEF PInv, TitlesFit
<1>4. task'[Scan] = task[Scan]
  BY <1>1, RestartedTask
<1>5. WorkerFits'
  BY <1>4 DEF PInv, WorkerFits
<1>6. Asleep'
  BY <1>1 DEF PInv, Asleep, Watched, TInv, TypeOK
<1>7. AskersFit'
  <2>1. \A p \in Procs : task'[p] = task[p] \/ ~task'[p].should
    BY <1>1, RestartedTask
  <2> QED
    BY <2>1 DEF PInv, AskersFit
<1>8. ASSUME NEW q \in Ids, Waits(q)' PROVE Scheduled(q)' \/ LeftAlone(q)'
  <2>1. Waits(q) /\ rows[q].dir \in Dirs
    BY <1>8, WaitingPlace DEF Waits
  <2>2. CASE Scheduled(q)
    <3>1. ASSUME NEW x \in Procs, TakesUp(x, q) PROVE TakesUp(x, q)'
      <4>1. CASE task' = task
        BY <3>1, <4>1 DEF TakesUp
      <4>2. CASE task' = Restarted(ds)
        BY <2>1, <3>1, <4>2, RestartTakes
      <4> QED
        BY <1>1, <4>1, <4>2
    <3> QED
      BY <2>2, <3>1 DEF Scheduled, Queued
  <2>3. CASE LeftAlone(q) /\ Watched /\ rows[q].dir \in ds
    <3>1. PICK d \in ds : d = rows[q].dir
      BY <2>3
    <3>2. d \in Procs /\ task'[d].pc = "settling" /\ task'[d].dir = d
      BY <1>1, <2>3, RestartedTask
    <3>3. TakesUp(d, q)'
      BY <3>1, <3>2 DEF TakesUp
    <3> QED
      BY <3>2, <3>3 DEF Scheduled
  <2>4. CASE LeftAlone(q) /\ ~(Watched /\ rows[q].dir \in ds)
    <3>1. \A p \in Procs : task'[p].dir # rows[q].dir
      <4>1. \A p \in Procs : task[p].dir # rows[q].dir
        BY <2>4 DEF LeftAlone
      <4>2. CASE task' = task
        BY <4>1, <4>2
      <4>3. CASE task' = Restarted(ds) /\ rows[q].dir \notin ds
        <5>1. /\ \A d \in ds : task'[d].dir = d
              /\ \A p \in Procs : p \notin ds => task'[p] = task[p]
          BY <4>3, RestartedTask
        <5> QED
          BY <4>1, <4>3, <5>1
      <4> QED
        BY <1>1, <2>4, <4>2, <4>3
    <3>2. running => rows[q].dir \in unseen' \/ disk'[rows[q].dir] = "absent"
      BY <1>1, <2>1, <2>4 DEF LeftAlone
    <3> QED
      BY <2>4, <3>1, <3>2 DEF LeftAlone
  <2> QED
    BY <2>1, <2>2, <2>3, <2>4 DEF PInv, WaitingFit
<1> QED
  BY <1>2, <1>3, <1>5, <1>6, <1>7, <1>8 DEF PInv, WaitingFit

LEMMA OnDiskKeeps ==
  ASSUME TInv, PInv, NEW r \in Ids, NEW to \in Dirs, RenameOnDisk(r, to)
  PROVE  PInv'
<1>1. PICK from \in Dirs : from = rows[r].dir
  BY OnDiskStep
<1>2. /\ rows[r].aid /\ rename'.row = r
      /\ \A x \in Dirs : x # from /\ x # to => disk'[x] = disk[x]
  BY <1>1, OnDiskStep
<1>3. Touched({from, to}) /\ running /\ UNCHANGED <<running, rows, queue, worker>>
  BY <1>1 DEF RenameOnDisk, env, db
<1>4. PICK ds \in SUBSET Dirs : ds = {from, to}
  OBVIOUS
<1>5. Touched(ds) /\ \A x \in Dirs : x \notin ds => disk'[x] = disk[x]
  BY <1>2, <1>3, <1>4
<1> QED
  BY <1>2, <1>3, <1>5, TouchKeeps

(* The recorded path of an identified row changes. *)
LEMMA CommitKeeps ==
  ASSUME TInv, PInv, RenameCommit
  PROVE  PInv'
<1>1. /\ rename.pc = "moved" /\ rename.to \in Dirs /\ rename' = NoRename
      /\ UNCHANGED <<disk, env, queue, worker, task, unseen>>
  BY CommitStep
<1>2. PICK r \in Ids : r = rename.row
  BY CommitStep
<1>3. running
  BY <1>1, EmptyRecords DEF PInv, Asleep
<1>4. \/ rows' = rows
      \/ /\ rows[r] # NoRow /\ RowsAt(rename.to) = {} /\ rows[r].status # "pending"
         /\ \A q \in Ids : q # r => rows'[q] = rows[q]
         /\ rows'[r] # NoRow /\ rows'[r].dir = rename.to /\ rows'[r].status = rows[r].status
         /\ rows'[r].aid = rows[r].aid
  <2>1. Committed \/ UNCHANGED db
    BY CommitStep
  <2>2. CASE Committed
    <3>1. rows[r] # NoRow
      BY <1>2, <2>2 DEF Committed
    <3>2. rows[r].aid
      BY <1>1, <1>2, <3>1 DEF PInv, TitlesFit
    <3>3. rows[r].status # "pending"
      BY <3>2 DEF PInv, TitlesFit
    <3> QED
      BY <1>2, <2>2, <3>3 DEF Committed
  <2> QED
    BY <2>1, <2>2 DEF db
<1>5. \A q \in Ids : /\ rows'[q].status = rows[q].status /\ rows'[q].aid = rows[q].aid
                     /\ rows'[q] = NoRow <=> rows[q] = NoRow
                     /\ rows[q].status = "pending" => rows'[q] = rows[q]
  BY <1>4
<1>6. OneRowPerDir'
  <2>1. RowsAt(rename.to) = {} => \A q \in Ids : rows[q] # NoRow => rows[q].dir # rename.to
    BY <1>1, NoRowAt
  <2> QED
    BY <1>4, <2>1 DEF PInv, OneRowPerDir
<1>7. TitlesFit'
  BY <1>1, <1>5, EmptyRecords DEF PInv, TitlesFit
<1>8. WorkerFits' /\ Asleep'
  BY <1>1, <1>3 DEF PInv, WorkerFits, Asleep, env
<1>9. RescansFit'
  <2>1. ASSUME NEW i \in 1..Len(queue), queue[i].kind = "rescan"
        PROVE  rows'[queue[i].row].status # "pending"
    <3>1. queue[i].row \in Ids
      BY <2>1, EmptyRecords DEF TInv, JobsFit, JobFit
    <3> QED
      BY <1>5, <2>1, <3>1 DEF PInv, RescansFit
  <2> QED
    BY <1>1, <2>1 DEF RescansFit
<1>10. AskersFit'
  <2>1. ASSUME NEW p \in Procs, task[p].should
        PROVE  /\ task[p].pc \in {"read", "walk", "record"}
               /\ rows'[task[p].row].status = "pending" => rows'[task[p].row].dir = task[p].dir
    <3>1. /\ task[p].pc \in {"read", "walk", "record"} /\ task[p].row \in Ids
          /\ rows[task[p].row].status = "pending" => rows[task[p].row].dir = task[p].dir
      BY <2>1, ProcessorFields DEF PInv, AskersFit, WithRow
    <3> QED
      BY <1>5, <3>1
  <2> QED
    BY <1>1, <2>1 DEF AskersFit
<1>11. ASSUME NEW q \in Ids, Waits(q)' PROVE Scheduled(q)' \/ LeftAlone(q)'
  <2>1. Waits(q) /\ rows'[q] = rows[q]
    BY <1>5, <1>11 DEF Waits
  <2>2. Scheduled(q) \/ LeftAlone(q)
    BY <2>1 DEF PInv, WaitingFit
  <2> QED
    BY <1>1, <2>1, <2>2 DEF Scheduled, Queued, TakesUp, LeftAlone, env
<1> QED
  BY <1>6, <1>7, <1>8, <1>9, <1>10, <1>11 DEF PInv, WaitingFit

LEMMA CoreStopKeeps ==
  ASSUME TInv, PInv, Stop
  PROVE  PInv'
<1>1. /\ ~running' /\ queue' = <<>> /\ Len(queue') = 0 /\ worker' = IdleWorker /\ rename' = NoRename
      /\ rows' = rows /\ unseen' = Dirs
      /\ \A p \in Procs : task'[p] = Idle
  BY DEF Stop, db
<1>2. OneRowPerDir' /\ TitlesFit'
  BY <1>1, EmptyRecords DEF PInv, OneRowPerDir, TitlesFit
<1>3. WorkerFits' /\ Asleep' /\ RescansFit' /\ AskersFit'
  BY <1>1, EmptyRecords, Constants DEF WorkerFits, Asleep, RescansFit, AskersFit
<1>4. ASSUME NEW q \in Ids, Waits(q)' PROVE LeftAlone(q)'
  <2>1. rows'[q].dir = rows[q].dir /\ rows[q].dir \in Dirs /\ rows[q].dir # NoDir
    BY <1>1, <1>4, WaitingPlace DEF Waits
  <2> QED
    BY <1>1, <2>1, EmptyRecords DEF LeftAlone
<1> QED
  BY <1>2, <1>3, <1>4 DEF PInv, WaitingFit

(* The first jobs are a scan, to which every directory is still to be seen,
   and rescans. *)
LEMMA StartKeeps ==
  ASSUME TInv, PInv, Start
  PROVE  PInv'
<1>1. /\ ~running /\ running' /\ unseen = Dirs /\ queue = <<>> /\ worker = IdleWorker
      /\ rename = NoRename /\ (\A p \in Procs : task[p] = Idle)
      /\ UNCHANGED <<disk, rows, worker, task, rename, unseen>>
  BY DEF Start, PInv, Asleep, db, ghost
<1>2. PICK rs \in SUBSET Live : /\ queue' = <<ScanJob>> \o JobsFor("rescan", rs)
                                /\ \A r \in rs : rows[r].status = "identified"
  BY DEF Start
<1>3. PICK jobs \in Seq(Job) : jobs = JobsFor("rescan", rs)
  BY <1>2, JobsOfRows DEF Live
<1>4. \A i \in 1..Len(jobs) :
        /\ jobs[i].kind = "rescan" => rows[jobs[i].row].status # "pending"
        /\ \A q \in Ids : Waits(q) /\ jobs[i].dir = rows[q].dir => jobs[i].row = q
  <2>1. ASSUME NEW i \in 1..Len(jobs)
        PROVE  /\ jobs[i].kind = "rescan" => rows[jobs[i].row].status # "pending"
               /\ \A q \in Ids : Waits(q) /\ jobs[i].dir = rows[q].dir => jobs[i].row = q
    <3>1. PICK j : j = jobs[i]
      OBVIOUS
    <3>2. PICK kind \in {"identify_if_pending", "rescan"} : kind = "rescan"
      OBVIOUS
    <3>3. i \in 1..Len(JobsFor(kind, rs)) /\ j = JobsFor(kind, rs)[i]
      BY <1>3, <3>1, <3>2
    <3>4. /\ j.kind = "rescan" => rows[j.row].status # "pending"
          /\ \A q \in Ids : Waits(q) /\ j.dir = rows[q].dir => j.row = q
      BY <1>2, <3>3, JobsOfRowsAside
    <3> QED
      BY <3>1, <3>4
  <2> QED
    BY <2>1
<1>5. \A i \in 1..Len(queue') : queue'[i] = ScanJob \/ \E k \in 1..Len(jobs) : queue'[i] = jobs[k]
  <2>1. <<ScanJob>> \in Seq(Job) /\ Len(<<ScanJob>>) = 1 /\ <<ScanJob>>[1] = ScanJob
    BY EmptyRecords
  <2>2. queue' = <<ScanJob>> \o jobs
    BY <1>2, <1>3
  <2>3. \A i \in 1..Len(queue') : queue'[i] = ScanJob \/ (i - 1 \in 1..Len(jobs) /\ queue'[i] = jobs[i - 1])
    BY <2>1, <2>2
  <2> QED
    BY <2>3
<1>6. OneRowPerDir' /\ TitlesFit' /\ WorkerFits' /\ AskersFit'
  BY <1>1 DEF PInv, OneRowPerDir, TitlesFit, WorkerFits, AskersFit
<1>7. Asleep'
  BY <1>1 DEF Asleep
<1>8. RescansFit'
  BY <1>1, <1>4, <1>5, EmptyRecords DEF RescansFit
<1>9. ASSUME NEW q \in Ids, Waits(q)' PROVE Scheduled(q)' \/ LeftAlone(q)'
  <2>1. Waits(q) /\ rows'[q] = rows[q] /\ rows[q].dir \in Dirs /\ rows[q].dir # NoDir
    BY <1>1, <1>9, WaitingPlace DEF Waits
  <2>2. CASE \E i \in 1..Len(queue') : queue'[i].dir = rows[q].dir
    <3>1. PICK i \in 1..Len(queue') : queue'[i].dir = rows[q].dir
      BY <2>2
    <3>2. PICK k \in 1..Len(jobs) : queue'[i] = jobs[k]
      BY <1>5, <2>1, <3>1, EmptyRecords
    <3>3. queue'[i].row = q
      BY <1>4, <2>1, <3>1, <3>2
    <3> QED
      BY <3>3 DEF Scheduled, Queued
  <2>3. CASE \A i \in 1..Len(queue') : queue'[i].dir # rows[q].dir
    <3>1. worker'.pc # "apply" /\ \A p \in Procs : task'[p].dir # rows'[q].dir
      BY <1>1, <2>1, EmptyRecords
    <3> QED
      BY <1>1, <2>1, <2>3, <3>1 DEF LeftAlone
  <2> QED
    BY <2>2, <2>3
<1> QED
  BY <1>6, <1>7, <1>8, <1>9 DEF PInv, WaitingFit

LEMMA WorldKeeps ==
  ASSUME TInv, PInv, World
  PROVE  PInv'
<1>1. CASE ShareDrops \/ ShareReturns
  BY <1>1, AsideKeeps DEF ShareDrops, ShareReturns, db, ghost
<1>2. ASSUME NEW d \in Dirs, DiskChange(d) PROVE PInv'
  <2>1. PICK ds \in SUBSET Dirs : ds = {d}
    OBVIOUS
  <2>2. Touched(ds) /\ UNCHANGED <<running, rows, queue, worker, rename>>
    BY <1>2, <2>1 DEF DiskChange, env, db
  <2>3. \A x \in Dirs : x \notin ds => disk'[x] = disk[x]
    BY <1>2, <2>1 DEF DiskChange, TInv, TypeOK
  <2> QED
    BY <2>2, <2>3, TouchKeeps
<1> QED
  BY <1>1, <1>2, CoreStopKeeps, StartKeeps DEF World

LEMMA ApiKeeps ==
  ASSUME TInv, PInv, Api
  PROVE  PInv'
<1>1. ASSUME NEW d \in Dirs, CorrectEpisode(d) PROVE PInv'
  BY <1>1, AsideKeeps DEF CorrectEpisode, env
<1> QED
  BY <1>1, RequestsKeep, DeleteKeeps, OnDiskKeeps, CommitKeeps DEF Api

\* Every step keeps PInv.
LEMMA PendingStep ==
  ASSUME "reuse" \notin Overlap, TInv, PInv, [Next]_vars
  PROVE  PInv'
<1>1. CASE UNCHANGED vars
  BY <1>1, AsideKeeps DEF vars, env, db, ghost
<1>2. CASE Worker
  BY <1>2, TakeJobKeeps, ScanKeeps, NextDirKeeps, PurgeKeeps, ApplyKeeps DEF Worker
<1>3. ASSUME NEW p \in Procs, Process(p) PROVE PInv'
  BY <1>3, LookupKeeps, LookKeeps, CreateKeeps, RecordKeeps DEF Process
<1>4. ASSUME NEW d \in Dirs, Debounce(d) PROVE PInv'
  BY <1>3, <1>4, SettleKeeps, FindGoneKeeps, ForgetKeeps, Constants DEF Debounce
<1>5. CASE Api
  BY <1>5, ApiKeeps
<1>6. CASE World
  BY <1>6, WorldKeeps
<1> QED
  BY <1>1, <1>2, <1>3, <1>4, <1>5, <1>6, Constants DEF Next

(* Every row that waits for its first identification has somebody who will
   queue or run it (scanner.py, should_identify), through renames and
   outages at any moment, as long as no row takes the id of a deleted one
   that something in flight still refers to. *)
THEOREM PendingTakenUp ==
  ASSUME "reuse" \notin Overlap
  PROVE  Spec => []PendingIsScheduled
<1>1. Init => TInv /\ PInv
  BY TypedInit, WaitingInit
<1>2. TInv /\ PInv /\ [Next]_vars => TInv' /\ PInv'
  BY TypedStep, PendingStep
<1>3. TInv /\ PInv => PendingIsScheduled
  <2>1. ASSUME TInv, PInv, NEW r \in Live, running, rows[r].status = "pending", ~rows[r].tried,
               rows[r].dir \notin unseen, disk[rows[r].dir] # "absent"
        PROVE  \/ \E i \in 1..Len(queue) : queue[i].row = r
               \/ worker.job.row = r
               \/ \E p \in Procs : task[p].dir = rows[r].dir
               \/ \E p \in Procs : task[p].row = r /\ task[p].should
    <3>1. r \in Ids /\ Waits(r)
      BY <2>1 DEF Live, Waits
    <3>2. Scheduled(r)
      BY <2>1, <3>1 DEF PInv, WaitingFit, LeftAlone
    <3> QED
      BY <3>2 DEF Scheduled, Queued, TakesUp
  <2> QED
    BY <2>1 DEF PendingIsScheduled
<1> QED
  BY <1>1, <1>2, <1>3, PTL DEF Spec

-----------------------------------------------------------------------------
(* A number by hand is kept, where renames and outages meet nothing in flight. *)

\* What is known of row r holds for as long as it is there.
GoneOrAt(r, d) == rows[r] = NoRow \/ rows[r].dir = d

\* A stored episode is that of the row of its directory.
EpisodesFit == \A x \in Dirs : eps[x].row # 0 =>
  eps[x].row \in Ids /\ rows[eps[x].row] # NoRow /\ rows[eps[x].row].dir = x

\* Nobody works on directories of a root that is unreachable or unwatched.
WatchedFit ==
  /\ worker.pc \in {"list", "dirs", "purge", "delete"} => Watched
  /\ \A p \in Procs : task[p].pc # "idle" => Watched

\* Until a rename is recorded nothing moves, except checks that settle.
RenamesFit == rename.pc = "moved" =>
  /\ worker.pc = "idle" /\ \A p \in Procs : task[p].pc \in {"idle", "settling"}
  /\ rename.from # rename.to /\ GoneOrAt(rename.row, rename.from)
  /\ ~rename.eps => eps[rename.from].row # rename.row

\* What a processor has read is still so, or it will be told, or it is the
\* scan and the directory is blurred for it.
CheckFit(p) ==
  /\ task[p].pc \in {"settling", "gone", "forget"} => p # Scan
  /\ task[p].pc \in {"gone", "forget"} => disk[task[p].dir] = "absent"
  /\ task[p].pc \in WithRow => GoneOrAt(task[p].row, task[p].dir)
  /\ task[p].known \subseteq {task[p].dir}
  /\ (task[p].pc = "record" /\ ~task[p].found) =>
       disk[task[p].dir] # "video" \/ (p = Scan /\ task[p].dir \in blurred)
  /\ (p = Scan /\ task[p].pc \notin {"idle", "lookup"}) => task[p].dir \notin corrected \cap blurred

ChecksFit == \A p \in Procs : CheckFit(p)

\* The rows a purge has selected are those of directories that were gone.
PurgeFits ==
  /\ \A v \in worker.rest : GoneOrAt(v[1], v[2])
  /\ worker.pc = "delete" => /\ worker.job.row \in Ids /\ worker.job.dir \notin corrected
                             /\ GoneOrAt(worker.job.row, worker.job.dir)

\* The file of a corrected episode is there, or just renamed with its row.
CorrectedFit == \A d \in corrected :
  /\ eps[d].row # 0 /\ eps[d].manual
  /\ \/ disk[d] = "video" /\ rename.from # d
     \/ rename.from = d /\ rename.row = eps[d].row /\ rename.eps /\ disk[rename.to] = "video"

CInv == EpisodesFit /\ WatchedFit /\ RenamesFit /\ ChecksFit /\ PurgeFits /\ CorrectedFit

\* In the beginning nothing is in flight and nothing was numbered.
LEMMA CorrectedInit ==
  ASSUME Init
  PROVE  CInv
<1>1. /\ worker = IdleWorker /\ rename = NoRename /\ corrected = {}
      /\ \A p \in Procs : task[p] = Idle
      /\ \A d \in Dirs : eps[d] = NoEp
  BY DEF Init
<1>2. EpisodesFit /\ WatchedFit /\ RenamesFit /\ PurgeFits /\ CorrectedFit
  BY <1>1, EmptyRecords DEF EpisodesFit, WatchedFit, RenamesFit, PurgeFits, CorrectedFit
<1>3. ChecksFit
  BY <1>1, EmptyRecords DEF ChecksFit, CheckFit, WithRow
<1> QED
  BY <1>2, <1>3 DEF CInv

\* At work there is no rename.
LEMMA AtWork ==
  ASSUME TInv, CInv, \/ worker.pc # "idle"
                     \/ \E p \in Procs : task[p].pc \notin {"idle", "settling"}
  PROVE  rename.pc # "moved" /\ rename = NoRename
<1>1. rename.pc # "moved"
  BY DEF CInv, RenamesFit
<1> QED
  BY <1>1 DEF TInv, RenameFit

\* A processor another one leaves alone.
LEMMA CheckStays ==
  ASSUME TInv, NEW p \in Procs, CheckFit(p), task'[p] = task[p], disk' = disk,
         \A r \in Ids : task[p].row = r => rows'[r] = NoRow \/ (rows[r] # NoRow /\ rows'[r].dir = rows[r].dir),
         blurred' \subseteq blurred, corrected' \subseteq corrected,
         p = Scan /\ task[p].dir \in blurred => task[p].dir \in blurred'
  PROVE  CheckFit(p)'
<1>1. task[p].pc \in WithRow => task[p].row \in Ids
  BY ProcessorFields
<1>2. task[p].pc \in WithRow => GoneOrAt(task[p].row, task[p].dir)'
  BY <1>1 DEF CheckFit, GoneOrAt
<1> QED
  BY <1>2 DEF CheckFit

\* A processor goes on or ends, and no row or episode changes.
LEMMA CheckGoes ==
  ASSUME TInv, CInv, NEW p \in Procs, task[p].pc # "idle", rename.pc # "moved",
         \A q \in Procs : q # p => task'[q] = task[q], CheckFit(p)',
         UNCHANGED <<disk, env, db, rename, corrected>>,
         worker' = worker \/ worker' = IdleWorker,
         blurred' \subseteq blurred,
         p # Scan /\ task[Scan].dir \in blurred => task[Scan].dir \in blurred'
  PROVE  CInv'
<1>1. EpisodesFit' /\ RenamesFit' /\ CorrectedFit'
  BY DEF CInv, EpisodesFit, RenamesFit, CorrectedFit, db
<1>2. WatchedFit'
  BY EmptyRecords DEF CInv, WatchedFit, Watched, env
<1>3. PurgeFits'
  BY EmptyRecords DEF CInv, PurgeFits, GoneOrAt, db
<1>4. ASSUME NEW q \in Procs PROVE CheckFit(q)'
  <2>1. CASE q = p
    BY <2>1
  <2>2. CASE q # p
    <3>1. CheckFit(q) /\ task'[q] = task[q] /\ rows' = rows
      BY <2>2 DEF CInv, ChecksFit, db
    <3>2. q = Scan /\ task[q].dir \in blurred => task[q].dir \in blurred'
      BY <2>2
    <3>3. \A r \in Ids : rows'[r] = NoRow \/ (rows[r] # NoRow /\ rows'[r].dir = rows[r].dir)
      BY <3>1
    <3> QED
      BY <3>1, <3>2, <3>3, CheckStays
  <2> QED
    BY <2>1, <2>2
<1> QED
  BY <1>1, <1>2, <1>3, <1>4 DEF CInv, ChecksFit

LEMMA SettleFits ==
  ASSUME TInv, CInv, NEW d \in Dirs, Settle(d)
  PROVE  CInv'
<1>1. /\ d \in Procs /\ d # Scan /\ task[d].pc = "settling" /\ rename.pc # "moved"
      /\ UNCHANGED <<disk, env, db, queue, worker, rename, budget, ghost>>
  BY Constants DEF Settle, ShortStepPending
<1>2. PICK pc \in {"gone", "lookup"} :
        /\ Turns(d, pc, task[d].row, task[d].should, task[d].known, task[d].found)
        /\ pc = "gone" => ~online \/ disk[d] = "absent"
  BY SettleStep
<1>3. online /\ task[d].dir = d /\ task[d].known \subseteq {d}
  BY <1>1, ProcessorFields DEF CInv, WatchedFit, Watched, ChecksFit, CheckFit
<1>4. CheckFit(d)'
  BY <1>1, <1>2, <1>3 DEF Turns, CheckFit, WithRow, GoneOrAt
<1>5. \A q \in Procs : q # d => task'[q] = task[q]
  BY <1>2 DEF Turns
<1> QED
  BY <1>1, <1>4, <1>5, CheckGoes DEF ghost

LEMMA IdleFits ==
  ASSUME NEW p \in Procs, task'[p] = Idle
  PROVE  CheckFit(p)'
BY EmptyRecords DEF CheckFit, WithRow

LEMMA FindGoneFits ==
  ASSUME TInv, CInv, NEW d \in Dirs, FindGone(d)
  PROVE  CInv'
<1>1. /\ d \in Procs /\ d # Scan /\ task[d].pc = "gone"
      /\ UNCHANGED <<disk, env, db, rename, blurred, corrected>>
  BY Constants DEF FindGone, ghost
<1>2. rename.pc # "moved" /\ UNCHANGED worker
  BY <1>1, AtWork, FindGoneStep
<1>3. disk[task[d].dir] = "absent" /\ task[d].known \subseteq {task[d].dir}
  BY <1>1 DEF CInv, ChecksFit, CheckFit
<1>4. CheckFit(d)' /\ \A q \in Procs : q # d => task'[q] = task[q]
  <2>1. CASE Stops(d)
    BY <1>1, <2>1, IdleFits DEF Stops
  <2>2. ASSUME NEW r \in RowsAt(d), Turns(d, "forget", r, task[d].should, task[d].known, task[d].found)
        PROVE  CheckFit(d)' /\ \A q \in Procs : q # d => task'[q] = task[q]
    <3>1. rows[r].dir = d /\ rows'[r] = rows[r] /\ task[d].dir = d
      BY <1>1, RowAt, ProcessorFields DEF db
    <3> QED
      BY <1>1, <1>3, <2>2, <3>1 DEF Turns, CheckFit, WithRow, GoneOrAt
  <2> QED
    BY <2>1, <2>2, FindGoneStep
<1> QED
  BY <1>1, <1>2, <1>4, CheckGoes

LEMMA LookupFits ==
  ASSUME TInv, CInv, NEW p \in Procs, Lookup(p)
  PROVE  CInv'
<1>1. /\ task[p].pc = "lookup" /\ UNCHANGED <<disk, env, db, worker, rename, corrected>>
      /\ blurred' = IF p # Scan /\ task[Scan].dir = task[p].dir THEN blurred ELSE blurred \ {task[p].dir}
  BY DEF Lookup
<1>2. rename.pc # "moved" /\ task[p].known \subseteq {task[p].dir}
  BY <1>1, AtWork DEF CInv, ChecksFit, CheckFit
<1>3. /\ blurred' \subseteq blurred
      /\ p # Scan /\ task[Scan].dir \in blurred => task[Scan].dir \in blurred'
      /\ p = Scan => task[p].dir \notin blurred'
  BY <1>1
<1>4. CheckFit(p)' /\ \A q \in Procs : q # p => task'[q] = task[q]
  <2>1. CASE Turns(p, "probe", task[p].row, task[p].should, task[p].known, task[p].found)
    BY <1>2, <1>3, <2>1 DEF Turns, CheckFit, WithRow, GoneOrAt
  <2>2. ASSUME NEW r \in RowsAt(task[p].dir),
               Turns(p, "read", r, ShouldIdentify(r), task[p].known, task[p].found)
        PROVE  CheckFit(p)' /\ \A q \in Procs : q # p => task'[q] = task[q]
    <3>1. rows'[r].dir = task[p].dir
      BY <1>1, RowAt DEF db
    <3> QED
      BY <1>2, <1>3, <2>2, <3>1 DEF Turns, CheckFit, WithRow, GoneOrAt
  <2> QED
    BY <2>1, <2>2, LookupStep
<1> QED
  BY <1>1, <1>2, <1>3, <1>4, CheckGoes

(* The episode rows read are at most that of the directory. *)
LEMMA LookFits ==
  ASSUME TInv, CInv, NEW p \in Procs, Probe(p) \/ ReadEpisodes(p) \/ Walk(p)
  PROVE  CInv'
<1>1. /\ task[p].pc \in {"probe", "read", "walk"}
      /\ UNCHANGED <<disk, env, db, worker, rename, blurred, corrected>>
  BY ProbeStep DEF Probe, ReadEpisodes, Walk, ghost
<1>2. rename.pc # "moved" /\ CheckFit(p) /\ online
  BY <1>1, AtWork DEF CInv, ChecksFit, WatchedFit, Watched
<1>3. rows' = rows /\ disk' = disk /\ blurred' = blurred /\ corrected' = corrected
  BY <1>1 DEF db
<1>4. CASE Probe(p)
  <2>1. task[p].pc = "probe"
    BY <1>4 DEF Probe
  <2>2. CASE Stops(p)
    <3>1. task'[p] = Idle /\ \A q \in Procs : q # p => task'[q] = task[q]
      BY <2>2 DEF Stops
    <3> QED
      BY <1>1, <1>2, <1>3, <3>1, IdleFits, CheckGoes
  <2>3. CASE Turns(p, "create", task[p].row, task[p].should, task[p].known, task[p].found)
    <3>1. CheckFit(p)' /\ \A q \in Procs : q # p => task'[q] = task[q]
      BY <1>2, <1>3, <2>1, <2>3 DEF Turns, CheckFit, WithRow
    <3> QED
      BY <1>1, <1>2, <1>3, <3>1, CheckGoes
  <2> QED
    BY <1>4, <2>2, <2>3, ProbeStep
<1>5. CASE ReadEpisodes(p)
  <2>1. task[p].pc = "read" /\ task[p].row \in Ids
    BY <1>5, ProcessorFields DEF ReadEpisodes, WithRow
  <2>2. PICK ks : ks = {x \in Dirs : eps[x].row = task[p].row}
    OBVIOUS
  <2>3. Turns(p, "walk", task[p].row, task[p].should, ks, task[p].found)
    BY <1>5, <2>2, ReadStep
  <2>4. GoneOrAt(task[p].row, task[p].dir)
    BY <1>2, <2>1 DEF CheckFit, WithRow
  <2>5. ks \subseteq {task[p].dir}
    BY <2>1, <2>2, <2>4, Constants DEF CInv, EpisodesFit, GoneOrAt
  <2>6. CheckFit(p)' /\ \A q \in Procs : q # p => task'[q] = task[q]
    BY <1>2, <1>3, <2>1, <2>3, <2>4, <2>5 DEF Turns, CheckFit, WithRow, GoneOrAt
  <2> QED
    BY <1>1, <1>2, <1>3, <2>6, CheckGoes
<1>6. CASE Walk(p)
  <2>1. task[p].pc = "walk"
    BY <1>6 DEF Walk
  <2>2. PICK f : f = (online /\ disk[task[p].dir] = "video")
    OBVIOUS
  <2>3. Turns(p, "record", task[p].row, task[p].should, task[p].known, f)
    BY <1>6, <2>2, WalkStep
  <2>4. ~f => disk[task[p].dir] # "video"
    BY <1>2, <2>2
  <2>5. CheckFit(p)' /\ \A q \in Procs : q # p => task'[q] = task[q]
    BY <1>2, <1>3, <2>1, <2>3, <2>4 DEF Turns, CheckFit, WithRow, GoneOrAt
  <2> QED
    BY <1>1, <1>2, <1>3, <2>5, CheckGoes
<1> QED
  BY <1>4, <1>5, <1>6

\* A new row has an id nothing refers to.
LEMMA CreateFits ==
  ASSUME Overlap = {}, TInv, CInv, NEW p \in Procs, Create(p)
  PROVE  CInv'
<1>1. /\ task[p].pc = "create"
      /\ UNCHANGED <<disk, env, eps, rename, blurred, corrected>>
  BY DEF Create, ghost
<1>2. rename.pc # "moved" /\ CheckFit(p)
  BY <1>1, AtWork DEF CInv, ChecksFit
<1>3. CASE Failed(p) /\ UNCHANGED rows
  <2>1. Stops(p) /\ (worker' = worker \/ worker' = IdleWorker)
    BY <1>3, Stopped DEF Failed
  <2>2. task'[p] = Idle /\ \A q \in Procs : q # p => task'[q] = task[q]
    BY <2>1 DEF Stops
  <2> QED
    BY <1>1, <1>2, <1>3, <2>1, <2>2, IdleFits, CheckGoes DEF db
<1>4. ASSUME UNCHANGED worker, NEW n \in Ids, n \notin Live, n \notin Held, NewRow(n, task[p].dir),
             Turns(p, "read", n, TRUE, task[p].known, task[p].found)
      PROVE  CInv'
  <2>1. rows[n] = NoRow /\ (\A q \in Ids : q # n => rows'[q] = rows[q]) /\ rows'[n].dir = task[p].dir
    BY <1>4 DEF Live, NewRow
  <2>2. \A q \in Procs : q # p => task'[q] = task[q]
    BY <1>4 DEF Turns
  <2>3. EpisodesFit'
    BY <1>1, <2>1 DEF CInv, EpisodesFit
  <2>4. WatchedFit'
    BY <1>1, <1>4, <2>2 DEF CInv, WatchedFit, Watched, env
  <2>5. RenamesFit' /\ CorrectedFit'
    BY <1>1, <1>2 DEF CInv, RenamesFit, CorrectedFit
  <2>6. PurgeFits'
    <3>1. worker.job.row # n /\ \A v \in worker.rest : v[1] # n /\ v[1] \in Ids
      BY <1>4, HeldRows, WorkerFields
    <3> QED
      BY <1>1, <1>4, <2>1, <3>1 DEF CInv, PurgeFits, GoneOrAt
  <2>7. ASSUME NEW q \in Procs PROVE CheckFit(q)'
    <3>1. CASE q = p
      BY <1>1, <1>2, <1>4, <2>1, <3>1 DEF Turns, CheckFit, WithRow, GoneOrAt
    <3>2. CASE q # p
      <4>1. task[q].row # n
        BY <1>4, HeldRows
      <4>2. \A r \in Ids : task[q].row = r =>
              rows'[r] = NoRow \/ (rows[r] # NoRow /\ rows'[r].dir = rows[r].dir)
        BY <2>1, <4>1
      <4>3. CheckFit(q) /\ task'[q] = task[q]
        BY <2>2, <3>2 DEF CInv, ChecksFit
      <4> QED
        BY <1>1, <4>2, <4>3, CheckStays
    <3> QED
      BY <3>1, <3>2
  <2> QED
    BY <2>3, <2>4, <2>5, <2>6, <2>7 DEF CInv, ChecksFit
<1>5. "reuse" \notin Overlap
  OBVIOUS
<1> QED
  BY <1>3, <1>4, <1>5, CreateStep

(* An episode is forgotten only if its file was gone, or came back while the
   scan was there; a new one is that of a file nobody has numbered. *)
LEMMA RecordFits ==
  ASSUME TInv, CInv, NEW p \in Procs, Record(p)
  PROVE  CInv'
<1>1. /\ task[p].pc = "record" /\ task[p].row \in Ids
      /\ UNCHANGED <<disk, env, rows, rename, blurred, corrected>>
  BY RecordStep, ProcessorFields DEF WithRow
<1>2. rename = NoRename /\ rename.pc # "moved" /\ CheckFit(p)
  BY <1>1, AtWork DEF CInv, ChecksFit
<1>3. CASE Failed(p) /\ UNCHANGED eps
  <2>1. Stops(p) /\ (worker' = worker \/ worker' = IdleWorker)
    BY <1>3, Stopped DEF Failed
  <2>2. task'[p] = Idle /\ \A q \in Procs : q # p => task'[q] = task[q]
    BY <2>1 DEF Stops
  <2> QED
    BY <1>1, <1>2, <1>3, <2>1, <2>2, IdleFits, CheckGoes DEF db
<1>4. CASE /\ CanRecord(p) /\ Ended(p)
           /\ \A x \in Dirs :
                \/ eps'[x] = eps[x]
                \/ eps'[x] = NoEp /\ x \in task[p].known /\ (task[p].found => x # task[p].dir)
                \/ /\ eps'[x].row = task[p].row /\ x = task[p].dir /\ FileIsNew(p)
  <2>1. worker' = worker /\ task'[p] = Idle /\ \A q \in Procs : q # p => task'[q] = task[q]
    BY <1>4, Stopped DEF Ended, Stops
  <2>2. GoneOrAt(task[p].row, task[p].dir) /\ task[p].known \subseteq {task[p].dir}
    BY <1>1, <1>2 DEF CheckFit, WithRow
  <2>3. EpisodesFit'
    <3>1. FileIsNew(p) => rows[task[p].row] # NoRow /\ rows[task[p].row].dir = task[p].dir
      BY <1>4, <2>2 DEF CanRecord, GoneOrAt
    <3> QED
      BY <1>1, <1>4, <3>1, EmptyRecords DEF CInv, EpisodesFit
  <2>4. WatchedFit'
    BY <1>1, <2>1, EmptyRecords DEF CInv, WatchedFit, Watched, env
  <2>5. RenamesFit' /\ PurgeFits'
    BY <1>1, <1>2, <2>1 DEF CInv, RenamesFit, PurgeFits, GoneOrAt
  <2>6. CorrectedFit'
    <3>1. ASSUME NEW x \in corrected PROVE eps'[x] = eps[x]
      <4>1. x \in Dirs /\ eps[x].row # 0 /\ disk[x] = "video"
        BY <1>2, EmptyRecords, Constants DEF CInv, CorrectedFit, TInv, TypeOK
      <4>2. ~(x = task[p].dir /\ FileIsNew(p))
        BY <4>1 DEF FileIsNew
      <4>3. ~(x \in task[p].known /\ (task[p].found => x # task[p].dir))
        BY <1>1, <1>2, <2>2, <4>1 DEF CheckFit
      <4> QED
        BY <1>4, <4>1, <4>2, <4>3
    <3> QED
      BY <1>1, <3>1 DEF CInv, CorrectedFit
  <2>7. ASSUME NEW q \in Procs PROVE CheckFit(q)'
    <3>1. CASE q = p
      BY <2>1, <3>1, IdleFits
    <3>2. CASE q # p
      BY <1>1, <2>1, <3>2, CheckStays DEF CInv, ChecksFit
    <3> QED
      BY <3>1, <3>2
  <2> QED
    BY <2>3, <2>4, <2>5, <2>6, <2>7 DEF CInv, ChecksFit
<1> QED
  BY <1>3, <1>4, RecordStep

(* A row goes with its episodes, none of them a corrected one. *)
LEMMA DeletionSpares ==
  ASSUME TInv, CInv, NEW r \in Ids, RowDeleted(r), UNCHANGED <<disk, env, rename, blurred>>,
         corrected' \subseteq corrected, \A x \in corrected' : eps[x].row # r,
         \A p \in Procs : task'[p] = task[p] \/ task'[p] = Idle,
         \/ worker' = worker
         \/ worker.pc = "delete" /\ worker'.pc = "purge" /\ worker'.rest = worker.rest
  PROVE  CInv'
<1>1. \A q \in Ids : rows'[q] = IF q = r THEN NoRow ELSE rows[q]
  BY DeletedRow DEF RowGone
<1>2. \A x \in Dirs : eps'[x] = IF eps[x].row = r THEN NoEp ELSE eps[x]
  BY DEF RowDeleted
<1>3. EpisodesFit'
  BY <1>1, <1>2, EmptyRecords DEF CInv, EpisodesFit
<1>4. WatchedFit'
  BY EmptyRecords DEF CInv, WatchedFit, Watched, env
<1>5. RenamesFit'
  <2>1. ASSUME rename.pc = "moved"
        PROVE  /\ worker'.pc = "idle" /\ \A p \in Procs : task'[p].pc \in {"idle", "settling"}
               /\ rename.from # rename.to /\ GoneOrAt(rename.row, rename.from)'
               /\ ~rename.eps => eps'[rename.from].row # rename.row
    <3>1. rename.row \in Ids /\ rename.from \in Dirs
      BY <2>1, EmptyRecords DEF TInv, RenameFit
    <3>2. /\ worker'.pc = "idle" /\ \A p \in Procs : task'[p].pc \in {"idle", "settling"}
          /\ rename.from # rename.to /\ GoneOrAt(rename.row, rename.from)
          /\ ~rename.eps => eps[rename.from].row # rename.row
      BY <2>1, EmptyRecords DEF CInv, RenamesFit
    <3> QED
      BY <1>1, <1>2, <3>1, <3>2, EmptyRecords, Constants DEF GoneOrAt
  <2> QED
    BY <2>1 DEF RenamesFit
<1>6. PurgeFits'
  BY <1>1, WorkerFields DEF CInv, PurgeFits, GoneOrAt
<1>7. CorrectedFit'
  <2>1. \A x \in corrected' : x \in corrected /\ eps'[x] = eps[x]
    BY <1>2 DEF TInv, TypeOK
  <2> QED
    BY <2>1 DEF CInv, CorrectedFit
<1>8. ASSUME NEW p \in Procs PROVE CheckFit(p)'
  <2>1. CASE task'[p] = Idle
    BY <2>1, IdleFits
  <2>2. CASE task'[p] = task[p]
    <3>1. \A q \in Ids : rows'[q] = NoRow \/ (rows[q] # NoRow /\ rows'[q].dir = rows[q].dir)
      BY <1>1
    <3> QED
      BY <2>2, <3>1, CheckStays DEF CInv, ChecksFit
  <2> QED
    BY <2>1, <2>2
<1> QED
  BY <1>3, <1>4, <1>5, <1>6, <1>7, <1>8 DEF CInv, ChecksFit

\* The three ways a row goes.
LEMMA ForgetFits ==
  ASSUME TInv, CInv, NEW d \in Dirs, Forget(d)
  PROVE  CInv'
<1>1. /\ d \in Procs /\ task[d].pc = "forget" /\ task[d].row \in Ids /\ task[d].dir = d
      /\ UNCHANGED <<disk, env, rename, blurred, corrected, worker>>
  BY Constants, ProcessorFields DEF Forget, Ended, WithRow, ghost
<1>2. PICK r \in Ids : r = task[d].row
  BY <1>1
<1>3. RowDeleted(r) /\ Stops(d)
  BY <1>1, <1>2, Stopped DEF Forget, Ended
<1>4. \A p \in Procs : task'[p] = task[p] \/ task'[p] = Idle
  BY <1>3 DEF Stops
<1>5. rename = NoRename /\ disk[d] = "absent" /\ GoneOrAt(r, d)
  BY <1>1, <1>2, AtWork DEF CInv, ChecksFit, CheckFit, WithRow
<1>6. ASSUME NEW x \in corrected PROVE eps[x].row # r
  <2>1. x \in Dirs /\ disk[x] = "video"
    BY <1>5, EmptyRecords, Constants DEF CInv, CorrectedFit, TInv, TypeOK
  <2> QED
    BY <1>5, <2>1, Constants DEF CInv, EpisodesFit, GoneOrAt
<1> QED
  BY <1>1, <1>3, <1>4, <1>6, DeletionSpares

LEMMA ScanPurgeFits ==
  ASSUME TInv, CInv, ScanPurge
  PROVE  CInv'
<1>1. /\ worker.pc = "delete" /\ worker.job.row \in Ids
      /\ UNCHANGED <<disk, env, rename, blurred, corrected, task>>
  BY DEF ScanPurge, CInv, PurgeFits, ghost
<1>2. worker'.pc = "purge" /\ worker'.rest = worker.rest
  BY DEF ScanPurge, TInv, TypeOK, WorkerState
<1>3. PICK r \in Ids : r = worker.job.row
  BY <1>1
<1>4. RowDeleted(r)
  BY <1>3 DEF ScanPurge
<1>5. GoneOrAt(r, worker.job.dir) /\ worker.job.dir \notin corrected
  BY <1>1, <1>3 DEF CInv, PurgeFits
<1>6. ASSUME NEW x \in corrected PROVE eps[x].row # r
  <2>1. x \in Dirs
    BY DEF TInv, TypeOK
  <2> QED
    BY <1>5, <2>1, Constants DEF CInv, EpisodesFit, GoneOrAt
<1> QED
  BY <1>1, <1>2, <1>4, <1>6, DeletionSpares

LEMMA DeleteFits ==
  ASSUME TInv, CInv, NEW r \in Ids, DeleteAnime(r)
  PROVE  CInv'
<1>1. /\ RowDeleted(r) /\ UNCHANGED <<disk, env, rename, blurred, worker, task>>
      /\ corrected' = corrected \ {d \in Dirs : eps[d].row = r}
  BY DEF DeleteAnime
<1>2. corrected' \subseteq corrected /\ \A x \in corrected' : eps[x].row # r
  BY <1>1 DEF TInv, TypeOK
<1> QED
  BY <1>1, <1>2, DeletionSpares

-----------------------------------------------------------------------------
\* The worker goes on, and no processor, row or episode changes.
LEMMA WorkerGoesOn ==
  ASSUME TInv, CInv, UNCHANGED <<disk, online, running, db, task, rename, blurred, corrected>>,
         watching => watching',
         worker'.pc \in {"list", "dirs", "purge", "delete"} => Watched',
         rename.pc = "moved" => worker'.pc = "idle",
         PurgeFits'
  PROVE  CInv'
<1>1. EpisodesFit' /\ RenamesFit' /\ CorrectedFit'
  BY DEF CInv, EpisodesFit, RenamesFit, CorrectedFit, GoneOrAt, db
<1>2. WatchedFit'
  BY DEF CInv, WatchedFit, Watched
<1>3. ChecksFit'
  BY DEF CInv, ChecksFit, CheckFit, GoneOrAt, db
<1> QED
  BY <1>1, <1>2, <1>3 DEF CInv

LEMMA ScanFits ==
  ASSUME TInv, PInv, CInv, ScanOnline \/ ScanList \/ ScanSelect \/ ScanRecheck \/ ScanDone
  PROVE  CInv'
<1> worker \in WorkerState
  BY DEF TInv, TypeOK
<1>1. /\ worker.pc # "idle" /\ UNCHANGED <<disk, online, running, db, task, rename, blurred, corrected>>
      /\ watching => watching'
  <2>1. CASE ScanOnline
    BY <2>1 DEF ScanOnline, ghost
  <2>2. CASE ScanList
    BY <2>2 DEF ScanList, env, ghost
  <2>3. CASE ScanSelect
    BY <2>3 DEF ScanSelect, env
  <2>4. CASE ScanRecheck
    BY <2>4 DEF ScanRecheck, env, ghost
  <2>5. CASE ScanDone
    BY <2>5 DEF ScanDone, env, ghost
  <2> QED
    BY <2>1, <2>2, <2>3, <2>4, <2>5
<1>2. rename = NoRename /\ rename.pc # "moved" /\ running /\ rows' = rows
  BY <1>1, AtWork, EmptyRecords DEF PInv, Asleep, db
<1>3. worker.pc \in {"list", "dirs", "purge", "delete"} => Watched
  BY DEF CInv, WatchedFit
<1>4. (worker'.pc \in {"list", "dirs", "purge", "delete"} => Watched') /\ PurgeFits'
  <2>1. CASE ScanOnline
    <3>1. \/ worker'.rest = worker.rest /\ worker'.pc = "list" /\ online /\ watching'
          \/ worker' = IdleWorker
      BY <2>1 DEF ScanOnline, WorkerState
    <3> QED
      BY <1>1, <1>2, <3>1, EmptyRecords DEF CInv, PurgeFits, GoneOrAt, Watched
  <2>2. CASE ScanList
    <3>1. \/ worker'.rest = worker.rest /\ worker'.pc = "dirs"
          \/ worker' = IdleWorker
      BY <2>2 DEF ScanList, WorkerState
    <3> QED
      BY <1>1, <1>2, <1>3, <2>2, <3>1, EmptyRecords DEF ScanList, CInv, PurgeFits, GoneOrAt, Watched, env
  <2>3. CASE ScanSelect
    <3>1. PICK rest : rest = {<<r, rows[r].dir>> : r \in {q \in Live : rows[q].dir \notin worker.listed}}
      OBVIOUS
    <3>2. worker' = [worker EXCEPT !.pc = "purge", !.listed = {}, !.rest = rest]
      BY <2>3, <3>1 DEF ScanSelect
    <3>3. worker'.pc = "purge" /\ worker'.rest = rest
      BY <3>2 DEF WorkerState
    <3>4. \A v \in rest : rows[v[1]].dir = v[2]
      BY <3>1
    <3> QED
      BY <1>1, <1>2, <1>3, <2>3, <3>3, <3>4 DEF ScanSelect, PurgeFits, GoneOrAt, Watched, env
  <2>4. CASE ScanRecheck
    <3>1. worker.pc = "purge" /\ env' = env
      BY <2>4 DEF ScanRecheck
    <3>2. PICK v \in worker.rest :
            worker' = IF online /\ disk[v[2]] # "absent"
                        THEN [worker EXCEPT !.rest = @ \ {v}]
                        ELSE [worker EXCEPT !.pc = "delete", !.rest = @ \ {v},
                                            !.job = [ScanJob EXCEPT !.row = v[1], !.dir = v[2]]]
      BY <2>4 DEF ScanRecheck
    <3>3. PICK j : j = [ScanJob EXCEPT !.row = v[1], !.dir = v[2]]
      OBVIOUS
    <3>4. v[1] \in Ids /\ v[2] \in Dirs /\ j.row = v[1] /\ j.dir = v[2]
      BY <3>3, WorkerFields DEF ScanJob
    <3>5. \/ worker'.pc = "purge" /\ worker'.rest = worker.rest \ {v}
          \/ /\ ~(online /\ disk[v[2]] # "absent")
             /\ worker'.pc = "delete" /\ worker'.rest = worker.rest \ {v} /\ worker'.job = j
      <4>1. CASE online /\ disk[v[2]] # "absent"
        BY <3>1, <3>2, <4>1 DEF WorkerState
      <4>2. CASE ~(online /\ disk[v[2]] # "absent")
        <5>1. worker' = [worker EXCEPT !.pc = "delete", !.rest = @ \ {v}, !.job = j]
          BY <3>2, <3>3, <4>2
        <5> QED
          BY <4>2, <5>1 DEF WorkerState
      <4> QED
        BY <4>1, <4>2
    <3>6. Watched' /\ online
      BY <1>3, <3>1 DEF Watched, env
    <3>7. disk[v[2]] = "absent" => v[2] \notin corrected
      BY <1>2, <3>4, EmptyRecords, Constants DEF CInv, CorrectedFit
    <3>8. \A w \in worker.rest : GoneOrAt(w[1], w[2])'
      BY <1>2 DEF CInv, PurgeFits, GoneOrAt
    <3>9. PurgeFits'
      BY <1>1, <3>4, <3>5, <3>6, <3>7, <3>8 DEF PurgeFits, GoneOrAt
    <3> QED
      BY <3>6, <3>9
  <2>5. CASE ScanDone
    BY <2>5, EmptyRecords DEF ScanDone, PurgeFits
  <2> QED
    BY <2>1, <2>2, <2>3, <2>4, <2>5
<1> QED
  BY <1>1, <1>2, <1>4, WorkerGoesOn

LEMMA TakeJobFits ==
  ASSUME Overlap = {}, TInv, PInv, CInv, TakeJob
  PROVE  CInv'
<1>1. /\ UNCHANGED <<disk, online, running, db, task, rename, blurred, corrected>>
      /\ watching => watching'
  BY DEF TakeJob, env, ghost
<1>2. rename.pc # "moved"
  BY EmptyRecords DEF TakeJob, RenameAside
<1>3. worker'.pc \in {"online", "apply", "idle"} /\ worker'.rest = {}
  <2>1. CASE worker' = IdleWorker
    BY <2>1, EmptyRecords
  <2>2. CASE worker' = [IdleWorker EXCEPT !.job = ScanJob, !.pc = "online"]
    BY <2>2 DEF IdleWorker
  <2>3. CASE worker' = [IdleWorker EXCEPT !.job = Head(queue), !.pc = "apply"]
    BY <2>3 DEF IdleWorker
  <2> QED
    BY <2>1, <2>2, <2>3 DEF TakeJob
<1>4. PurgeFits'
  BY <1>3 DEF PurgeFits
<1> QED
  BY <1>1, <1>2, <1>3, <1>4, WorkerGoesOn

LEMMA NextDirFits ==
  ASSUME TInv, CInv, ScanNextDir
  PROVE  CInv'
<1>1. /\ worker.pc = "dirs" /\ UNCHANGED <<disk, env, db, rename, blurred, corrected>>
  BY DEF ScanNextDir, ghost
<1>2. PICK d \in worker.todo :
        /\ \A q \in Procs : q # Scan => task'[q] = task[q]
        /\ task'[Scan].pc = "lookup" /\ task'[Scan].dir = d /\ task'[Scan].known = {}
        /\ worker' = [worker EXCEPT !.todo = @ \ {d}]
  BY NextDirStep
<1>3. worker'.pc = "dirs" /\ worker'.rest = worker.rest
  BY <1>1, <1>2 DEF TInv, TypeOK, WorkerState
<1>4. Watched /\ Watched' /\ rename.pc # "moved"
  BY <1>1, AtWork DEF CInv, WatchedFit, Watched, env
<1>5. EpisodesFit' /\ RenamesFit' /\ CorrectedFit' /\ WatchedFit'
  BY <1>1, <1>4 DEF CInv, EpisodesFit, RenamesFit, CorrectedFit, WatchedFit, db
<1>6. PurgeFits'
  BY <1>1, <1>3 DEF CInv, PurgeFits, GoneOrAt, db
<1>7. ASSUME NEW q \in Procs PROVE CheckFit(q)'
  <2>1. CASE q = Scan
    BY <1>2, <2>1 DEF CheckFit, WithRow
  <2>2. CASE q # Scan
    <3>1. \A r \in Ids : rows'[r] = NoRow \/ (rows[r] # NoRow /\ rows'[r].dir = rows[r].dir)
      BY <1>1 DEF db
    <3> QED
      BY <1>1, <1>2, <2>2, <3>1, CheckStays DEF CInv, ChecksFit
  <2> QED
    BY <2>1, <2>2
<1> QED
  BY <1>5, <1>6, <1>7 DEF CInv, ChecksFit

(* A directory that changes restarts the check in it: what the others have
   read of the disk is still so. *)
LEMMA ChecksToldFit ==
  ASSUME TInv, CInv, NEW ds \in SUBSET Dirs,
         task' = IF Watched THEN Restarted(ds) ELSE task,
         \A x \in Dirs : x \notin ds => disk'[x] = disk[x],
         \A r \in Ids : rows'[r] = NoRow \/ (rows[r] # NoRow /\ rows'[r].dir = rows[r].dir),
         corrected' \subseteq corrected, blurred \subseteq blurred',
         task[Scan].pc = "record" /\ task[Scan].dir \in ds => task[Scan].dir \in blurred',
         task[Scan].dir \in corrected' \cap blurred' => task[Scan].dir \in blurred
  PROVE  ChecksFit'
<1>1. ASSUME NEW p \in Procs PROVE CheckFit(p)'
  <2>1. CASE task[p].pc = "idle" /\ task'[p] = task[p]
    <3>1. task'[p] = Idle
      BY <2>1, ProcessorFields
    <3> QED
      BY <3>1, IdleFits
  <2>2. CASE Watched /\ p \in ds
    <3>1. task'[p].pc = "settling" /\ task'[p] = Settling(p) /\ p # Scan
      <4>1. task' = Restarted(ds) /\ p \in Dirs /\ p # Scan /\ task \in [Procs -> Processor]
        BY <2>2, Constants DEF TInv, TypeOK
      <4>2. task'[p] = Settling(p)
        BY <2>2, <4>1, RestartStep
      <4> QED
        BY <4>1, <4>2, SettlingFields
    <3>2. task'[p].known = {}
      BY <2>2, <3>1, SettlingFields
    <3> QED
      BY <3>1, <3>2 DEF CheckFit, WithRow
  <2>3. CASE task[p].pc # "idle" /\ ~(Watched /\ p \in ds)
    <3>1. Watched /\ p \notin ds /\ task'[p] = task[p]
      <4>1. Watched
        BY <2>3 DEF CInv, WatchedFit
      <4> QED
        BY <2>3, <4>1, RestartedTask
    <3>2. CheckFit(p) /\ task[p].dir \in Dirs /\ (p # Scan => task[p].dir = p)
      BY <2>3, ProcessorFields DEF CInv, ChecksFit
    <3>3. p # Scan => disk'[task[p].dir] = disk[task[p].dir]
      BY <3>1, <3>2
    <3>4. task[p].pc \in WithRow => task[p].row \in Ids /\ GoneOrAt(task[p].row, task[p].dir)'
      BY <3>1, <3>2, ProcessorFields DEF CheckFit, GoneOrAt
    <3>5. CASE p # Scan
      BY <3>1, <3>2, <3>3, <3>4, <3>5 DEF CheckFit
    <3>6. CASE p = Scan
      <4>1. task[p].pc \notin {"settling", "gone", "forget"} /\ task[p].known \subseteq {task[p].dir}
        BY <3>2, <3>6 DEF CheckFit
      <4>2. task[p].pc = "record" /\ ~task[p].found => disk'[task[p].dir] # "video" \/ task[p].dir \in blurred'
        BY <3>2, <3>6 DEF CheckFit
      <4>3. task[p].pc # "lookup" => task[p].dir \notin corrected' \cap blurred'
        BY <2>3, <3>2, <3>6 DEF CheckFit
      <4> QED
        BY <3>1, <3>4, <3>6, <4>1, <4>2, <4>3 DEF CheckFit
    <3> QED
      BY <3>5, <3>6
  <2>4. ~(Watched /\ p \in ds) => task'[p] = task[p]
    BY RestartedTask
  <2> QED
    BY <2>1, <2>2, <2>3, <2>4
<1> QED
  BY <1>1 DEF ChecksFit

LEMMA ToldWatched ==
  ASSUME TInv, CInv, NEW ds \in SUBSET Dirs,
         task' = IF Watched THEN Restarted(ds) ELSE task,
         UNCHANGED env, worker' = worker \/ worker' = IdleWorker
  PROVE  WatchedFit' /\ \A p \in Procs : task'[p] = task[p] \/ task'[p].pc = "settling"
<1>1. Watched' <=> Watched
  BY DEF Watched, env
<1>2. \A p \in Procs : task'[p] = task[p] \/ (Watched /\ task'[p].pc = "settling")
  BY RestartedTask
<1> QED
  BY <1>1, <1>2, EmptyRecords DEF CInv, WatchedFit

(* The answer never takes a video away, and the scan is elsewhere. *)
LEMMA ApplyFits ==
  ASSUME TInv, PInv, CInv, ApplyAnswer
  PROVE  CInv'
<1>1. /\ worker.pc = "apply" /\ worker.job.row \in Ids /\ worker.job.dir \in Dirs /\ worker' = IdleWorker
      /\ UNCHANGED <<env, eps, rename, ghost>>
  BY EmptyRecords, AnswerStep DEF TInv, JobsFit, JobFit, ApplyAnswer
<1>2. PICK d \in Dirs : d = worker.job.dir
  BY <1>1
<1>3. PICK k \in Ids : k = worker.job.row
  BY <1>1
<1>4. /\ task[Scan] = Idle /\ rename.pc # "moved"
      /\ corrected' = corrected /\ blurred' = blurred /\ eps' = eps
  BY <1>1, AtWork DEF PInv, WorkerFits, ghost
<1>5. \A r \in Ids : /\ rows[r] = NoRow => rows'[r] = NoRow
                     /\ rows[r] # NoRow => rows'[r].dir = rows[r].dir
  BY <1>1, <1>3, AnswerStep DEF Answered
<1>6. \A r \in Ids : rows[r] # NoRow => rows'[r] # NoRow
  BY <1>5, EmptyRecords, Constants DEF TInv, RowsFit
<1>7. \/ disk' = disk /\ task' = task
      \/ /\ disk' = [disk EXCEPT ![d] = IF @ = "video" THEN @ ELSE "other"]
         /\ task' = IF Watched THEN Restarted({d}) ELSE task
  BY <1>1, <1>2, AnswerStep
<1>8. \A x \in Dirs : /\ x # d => disk'[x] = disk[x]
                      /\ disk[x] = "video" => disk'[x] = "video"
  BY <1>7 DEF TInv, TypeOK
<1>9. EpisodesFit'
  BY <1>4, <1>5, <1>6 DEF CInv, EpisodesFit
<1>10. RenamesFit' /\ PurgeFits'
  BY <1>1, <1>4, EmptyRecords DEF RenamesFit, PurgeFits
<1>11. CorrectedFit'
  <2>1. rename = NoRename /\ rename' = rename
    BY <1>1, <1>4 DEF TInv, RenameFit
  <2>2. \A x \in corrected : x \in Dirs /\ x # NoDir
    BY Constants DEF TInv, TypeOK
  <2> QED
    BY <1>4, <1>8, <2>1, <2>2, EmptyRecords DEF CInv, CorrectedFit
<1>12. PICK ds \in SUBSET Dirs : ds = {d}
  OBVIOUS
<1>13. \A r \in Ids : rows'[r] = NoRow \/ (rows[r] # NoRow /\ rows'[r].dir = rows[r].dir)
  BY <1>5
<1>14. WatchedFit' /\ ChecksFit'
  <2>1. CASE disk' = disk /\ task' = task
    <3>1. WatchedFit'
      BY <1>1, <2>1, EmptyRecords DEF CInv, WatchedFit, Watched, env
    <3>2. ASSUME NEW p \in Procs PROVE CheckFit(p)'
      BY <1>4, <1>13, <2>1, CheckStays DEF CInv, ChecksFit
    <3> QED
      BY <3>1, <3>2 DEF ChecksFit
  <2>2. CASE task' = IF Watched THEN Restarted(ds) ELSE task
    <3>1. WatchedFit'
      BY <1>1, <2>2, ToldWatched
    <3>2. \A x \in Dirs : x \notin ds => disk'[x] = disk[x]
      BY <1>8, <1>12
    <3>3. task[Scan].pc # "record"
      BY <1>4, EmptyRecords
    <3>4. ChecksFit'
      BY <1>4, <1>13, <2>2, <3>2, <3>3, ChecksToldFit
    <3> QED
      BY <3>1, <3>4
  <2> QED
    BY <1>7, <1>12, <2>1, <2>2
<1> QED
  BY <1>9, <1>10, <1>11, <1>14 DEF CInv

LEMMA RequestsFit ==
  ASSUME TInv, CInv, RequestScan \/ EnqueueForRows
  PROVE  CInv'
<1>1. UNCHANGED <<disk, online, running, watching, db, worker, task, rename, blurred, corrected>>
  BY DEF RequestScan, EnqueueForRows, env, ghost
<1>2. Watched' = Watched /\ PurgeFits'
  BY <1>1 DEF Watched, CInv, PurgeFits, GoneOrAt, db
<1>3. worker.pc \in {"list", "dirs", "purge", "delete"} => Watched
  BY DEF CInv, WatchedFit
<1>4. rename.pc = "moved" => worker.pc = "idle"
  BY DEF CInv, RenamesFit
<1> QED
  BY <1>1, <1>2, <1>3, <1>4, WorkerGoesOn

(* A file is numbered where it is, seen by no scan that missed it. *)
LEMMA CorrectFits ==
  ASSUME TInv, CInv, NEW d \in Dirs, CorrectEpisode(d)
  PROVE  CInv'
<1>1. /\ UNCHANGED <<disk, env, rows, queue, worker, task, rename, blurred>> /\ eps[d].row # 0
      /\ \A x \in Dirs : eps'[x].row = eps[x].row /\ (x # d => eps'[x] = eps[x])
  BY CorrectStep DEF CorrectEpisode
<1>2. \/ corrected' = corrected \ {d}
      \/ /\ corrected' = corrected \cup {d} /\ eps'[d].manual
         /\ disk[d] = "video" /\ rename = NoRename /\ d \notin blurred /\ ~Purging(d)
  BY CorrectStep
<1>3. EpisodesFit'
  BY <1>1 DEF CInv, EpisodesFit
<1>4. WatchedFit'
  BY <1>1 DEF CInv, WatchedFit, Watched, env
<1>5. RenamesFit'
  <2>1. rename.pc = "moved" => rename.from \in Dirs
    BY EmptyRecords DEF TInv, RenameFit
  <2> QED
    BY <1>1, <2>1 DEF CInv, RenamesFit, GoneOrAt
<1>6. PurgeFits'
  BY <1>1, <1>2 DEF CInv, PurgeFits, GoneOrAt, Purging
<1>7. CorrectedFit'
  <2>1. ASSUME NEW x \in corrected, x # d
        PROVE  /\ eps'[x].row # 0 /\ eps'[x].manual
               /\ \/ disk'[x] = "video" /\ rename'.from # x
                  \/ rename'.from = x /\ rename'.row = eps'[x].row /\ rename'.eps /\ disk'[rename'.to] = "video"
    <3>1. x \in Dirs
      BY DEF TInv, TypeOK
    <3> QED
      BY <1>1, <2>1, <3>1 DEF CInv, CorrectedFit
  <2>2. CASE corrected' = corrected \ {d}
    BY <2>1, <2>2 DEF CorrectedFit
  <2>3. CASE /\ corrected' = corrected \cup {d} /\ eps'[d].manual
             /\ disk[d] = "video" /\ rename = NoRename
    <3>1. /\ eps'[d].row # 0 /\ eps'[d].manual /\ disk'[d] = "video" /\ rename'.from # d
      BY <1>1, <2>3, EmptyRecords, Constants
    <3> QED
      BY <2>1, <2>3, <3>1 DEF CorrectedFit
  <2> QED
    BY <1>2, <2>2, <2>3
<1>8. ChecksFit'
  <2>1. \A p \in Procs : task[p].dir \in corrected' \cap blurred => task[p].dir \in corrected
    BY <1>2
  <2> QED
    BY <1>1, <2>1 DEF CInv, ChecksFit, CheckFit, GoneOrAt
<1> QED
  BY <1>3, <1>4, <1>5, <1>6, <1>7, <1>8 DEF CInv

(* Whoever changes the disk of a corrected episode, or what a rename has just
   made of it, ends its story. *)
LEMMA ChangeFits ==
  ASSUME TInv, CInv, NEW d \in Dirs, DiskChange(d)
  PROVE  CInv'
<1>1. /\ UNCHANGED <<env, db, worker, rename>>
      /\ task' = IF Watched THEN Restarted({d}) ELSE task
      /\ blurred' = blurred \cup ({d} \cap {task[Scan].dir})
      /\ corrected' = corrected \ {d, IF rename.to = d THEN rename.from ELSE d}
  BY DEF DiskChange, Touched
<1>2. \A x \in Dirs : x # d => disk'[x] = disk[x]
  BY DEF DiskChange, TInv, TypeOK
<1>3. PICK ds \in SUBSET Dirs : ds = {d}
  OBVIOUS
<1>4. task' = IF Watched THEN Restarted(ds) ELSE task
  BY <1>1, <1>3
<1>5. WatchedFit' /\ \A p \in Procs : task'[p] = task[p] \/ task'[p].pc = "settling"
  BY <1>1, <1>4, ToldWatched
<1>6. EpisodesFit' /\ PurgeFits'
  BY <1>1 DEF CInv, EpisodesFit, PurgeFits, GoneOrAt, db
<1>7. RenamesFit'
  BY <1>1, <1>5 DEF CInv, RenamesFit, GoneOrAt, db
<1>8. CorrectedFit'
  <2>1. ASSUME NEW x \in corrected'
        PROVE  /\ eps'[x].row # 0 /\ eps'[x].manual
               /\ \/ disk'[x] = "video" /\ rename'.from # x
                  \/ rename'.from = x /\ rename'.row = eps'[x].row /\ rename'.eps /\ disk'[rename'.to] = "video"
    <3>1. x \in corrected /\ x # d /\ (rename.to = d => x # rename.from)
      BY <1>1, <2>1
    <3>2. x \in Dirs /\ disk'[x] = disk[x] /\ eps' = eps
      BY <1>1, <1>2, <3>1 DEF TInv, TypeOK, db
    <3>3. CASE disk[x] = "video" /\ rename.from # x
      BY <1>1, <3>1, <3>2, <3>3 DEF CInv, CorrectedFit
    <3>4. CASE rename.from = x /\ rename.row = eps[x].row /\ rename.eps /\ disk[rename.to] = "video"
      <4>1. rename.to \in Dirs /\ rename.to # d
        BY <3>1, <3>2, <3>4, EmptyRecords, Constants DEF TInv, RenameFit
      <4> QED
        BY <1>1, <1>2, <3>1, <3>2, <3>4, <4>1 DEF CInv, CorrectedFit
    <3> QED
      BY <3>1, <3>3, <3>4 DEF CInv, CorrectedFit
  <2> QED
    BY <2>1 DEF CorrectedFit
<1>9. ChecksFit'
  <2>1. \A x \in Dirs : x \notin ds => disk'[x] = disk[x]
    BY <1>2, <1>3
  <2>2. \A r \in Ids : rows'[r] = NoRow \/ (rows[r] # NoRow /\ rows'[r].dir = rows[r].dir)
    BY <1>1 DEF db
  <2>3. corrected' \subseteq corrected /\ blurred \subseteq blurred'
    BY <1>1
  <2>4. task[Scan].dir \in ds => task[Scan].dir \in blurred'
    BY <1>1, <1>3
  <2>5. task[Scan].dir \in corrected' \cap blurred' => task[Scan].dir \in blurred
    BY <1>1
  <2> QED
    BY <1>4, <2>1, <2>2, <2>3, <2>4, <2>5, ChecksToldFit
<1> QED
  BY <1>5, <1>6, <1>7, <1>8, <1>9 DEF CInv

(* A rename begins when nothing is in flight, so its episode row is known. *)
LEMMA OnDiskFits ==
  ASSUME Overlap = {}, TInv, PInv, CInv, NEW r \in Ids, NEW to \in Dirs, RenameOnDisk(r, to)
  PROVE  CInv'
<1>1. PICK from \in Dirs : from = rows[r].dir
  BY OnDiskStep
<1>2. /\ rows[r] # NoRow /\ rows[r].dir = from /\ from # to /\ disk[to] = "absent"
      /\ disk'[to] = disk[from] /\ disk'[from] = "absent"
      /\ \A x \in Dirs : x # from /\ x # to => disk'[x] = disk[x]
      /\ rename'.pc = "moved" /\ rename'.row = r /\ rename'.from = from /\ rename'.to = to
      /\ rename'.eps = (eps[from].row = r)
  BY <1>1, OnDiskStep DEF Live
<1>3. AllIdle
  BY DEF RenameOnDisk, MayMeet
<1>4. worker.pc = "idle" /\ rename.pc # "moved" /\ rename = NoRename /\ \A p \in Procs : task[p] = Idle
  BY <1>3, EmptyRecords DEF AllIdle
<1>5. PICK ds \in SUBSET Dirs : ds = {from, to}
  OBVIOUS
<1>6. Touched(ds) /\ UNCHANGED <<env, db, worker, corrected>>
  BY <1>1, <1>5 DEF RenameOnDisk
<1>7. task' = (IF Watched THEN Restarted(ds) ELSE task) /\ blurred' = blurred \cup (ds \cap {task[Scan].dir})
  BY <1>6 DEF Touched
<1>8. WatchedFit' /\ \A p \in Procs : task'[p] = task[p] \/ task'[p].pc = "settling"
  BY <1>6, <1>7, ToldWatched
<1>9. blurred' = blurred /\ Scan \in Procs
  <2>1. task[Scan].dir = NoDir
    BY <1>4, EmptyRecords, Constants
  <2> QED
    BY <1>7, <2>1, Constants
<1>10. EpisodesFit' /\ PurgeFits'
  BY <1>6 DEF CInv, EpisodesFit, PurgeFits, GoneOrAt, db
<1>11. RenamesFit'
  <2>1. \A p \in Procs : task'[p].pc \in {"idle", "settling"}
    BY <1>4, <1>8, EmptyRecords
  <2> QED
    BY <1>2, <1>4, <1>6, <2>1 DEF RenamesFit, GoneOrAt, db
<1>12. CorrectedFit'
  <2>1. ASSUME NEW x \in corrected
        PROVE  /\ eps[x].row # 0 /\ eps[x].manual
               /\ \/ disk'[x] = "video" /\ rename'.from # x
                  \/ rename'.from = x /\ rename'.row = eps[x].row /\ rename'.eps /\ disk'[rename'.to] = "video"
    <3>1. x \in Dirs /\ eps[x].row # 0 /\ eps[x].manual /\ disk[x] = "video"
      BY <1>4, EmptyRecords, Constants DEF CInv, CorrectedFit, TInv, TypeOK
    <3>2. CASE x # from
      BY <1>2, <3>1, <3>2
    <3>3. CASE x = from
      <4>1. eps[x].row \in Ids /\ rows[eps[x].row] # NoRow /\ rows[eps[x].row].dir = from
        BY <3>1, <3>3 DEF CInv, EpisodesFit
      <4>2. eps[x].row = r
        BY <1>2, <4>1 DEF PInv, OneRowPerDir
      <4> QED
        BY <1>2, <3>1, <3>3, <4>2
    <3> QED
      BY <3>2, <3>3
  <2> QED
    BY <1>6, <2>1 DEF CorrectedFit, db
<1>13. ChecksFit'
  <2>1. \A x \in Dirs : x \notin ds => disk'[x] = disk[x]
    BY <1>2, <1>5
  <2>2. \A q \in Ids : rows'[q] = NoRow \/ (rows[q] # NoRow /\ rows'[q].dir = rows[q].dir)
    BY <1>6 DEF db
  <2>3. task[Scan].pc # "record" /\ corrected' = corrected
    BY <1>4, <1>6, <1>9, EmptyRecords
  <2> QED
    BY <1>7, <1>9, <2>1, <2>2, <2>3, ChecksToldFit
<1> QED
  BY <1>8, <1>10, <1>11, <1>12, <1>13 DEF CInv

(* The commit takes a corrected episode along. *)
LEMMA CommitFits ==
  ASSUME TInv, PInv, CInv, RenameCommit
  PROVE  CInv'
<1>1. /\ rename.pc = "moved" /\ rename.to \in Dirs /\ rename.from \in Dirs /\ rename' = NoRename
      /\ UNCHANGED <<disk, env, worker, task, blurred>>
  BY CommitStep
<1>2. PICK r \in Ids : r = rename.row
  BY CommitStep
<1>3. /\ worker.pc = "idle" /\ \A p \in Procs : task[p].pc \in {"idle", "settling"}
      /\ rename.from # rename.to /\ GoneOrAt(r, rename.from)
      /\ ~rename.eps => eps[rename.from].row # r
  BY <1>1, <1>2 DEF CInv, RenamesFit
<1>4. WatchedFit' /\ RenamesFit'
  BY <1>1, EmptyRecords DEF CInv, WatchedFit, Watched, RenamesFit, env
<1>5. rename.from \notin corrected'
  BY <1>3, CommitStep DEF Committed
<1>6. \A x \in corrected : /\ x \in Dirs /\ eps[x].row # 0 /\ eps[x].manual
                           /\ x # rename.from => disk[x] = "video"
                           /\ x = rename.from => rename.eps /\ disk[rename.to] = "video"
  BY DEF CInv, CorrectedFit, TInv, TypeOK
<1>7. ASSUME Committed PROVE EpisodesFit' /\ CorrectedFit'
  <2>1. /\ \A q \in Ids : q # r => rows'[q] = rows[q]
        /\ rows[r] # NoRow /\ rows'[r] # NoRow /\ rows'[r].dir = rename.to
    BY <1>2, <1>7 DEF Committed
  <2>2. /\ rename.eps => /\ eps[rename.from].row = r /\ eps[rename.to].row = 0
                         /\ eps'[rename.to] = eps[rename.from] /\ eps'[rename.from].row = 0
        /\ \A x \in Dirs : (x # rename.to /\ x # rename.from) \/ ~rename.eps => eps'[x] = eps[x]
    <3>1. eps \in [Dirs -> Episode]
      BY DEF TInv, TypeOK
    <3> QED
      BY <1>1, <1>2, <1>3, <1>7, <3>1, EmptyRecords DEF Committed
  <2>3. EpisodesFit'
    <3>1. ASSUME NEW x \in Dirs, eps'[x].row # 0
          PROVE  eps'[x].row \in Ids /\ rows'[eps'[x].row] # NoRow /\ rows'[eps'[x].row].dir = x
      <4>1. CASE rename.eps /\ x = rename.to
        BY <1>2, <2>1, <2>2, <4>1
      <4>2. CASE ~(rename.eps /\ x = rename.to)
        <5>1. eps'[x] = eps[x] /\ (rename.eps => x # rename.from)
          BY <1>1, <2>2, <3>1, <4>2
        <5>2. eps[x].row \in Ids /\ rows[eps[x].row] # NoRow /\ rows[eps[x].row].dir = x
          BY <3>1, <5>1 DEF CInv, EpisodesFit
        <5>3. eps[x].row # r
          BY <1>3, <2>1, <5>1, <5>2 DEF GoneOrAt
        <5> QED
          BY <2>1, <5>1, <5>2, <5>3
      <4> QED
        BY <4>1, <4>2
    <3> QED
      BY <3>1 DEF EpisodesFit
  <2>4. CorrectedFit'
    <3>1. corrected' = IF rename.from \in corrected
                         THEN (corrected \ {rename.from}) \cup {rename.to} ELSE corrected
      BY <1>7 DEF Committed
    <3>2. ASSUME NEW x \in corrected' PROVE eps'[x].row # 0 /\ eps'[x].manual /\ disk[x] = "video" /\ x \in Dirs
      <4>1. CASE x = rename.to /\ rename.from \in corrected
        BY <1>1, <1>6, <2>2, <4>1
      <4>2. CASE ~(x = rename.to /\ rename.from \in corrected)
        <5>1. x \in corrected /\ x # rename.from
          BY <1>5, <3>1, <3>2, <4>2
        <5>2. rename.eps => x # rename.to
          BY <1>6, <2>2, <5>1
        <5> QED
          BY <1>6, <2>2, <5>1, <5>2
      <4> QED
        BY <4>1, <4>2
    <3> QED
      BY <1>1, <3>2, EmptyRecords, Constants DEF CorrectedFit
  <2> QED
    BY <2>3, <2>4
<1>8. ASSUME UNCHANGED db, corrected' = corrected \ {rename.from} PROVE EpisodesFit' /\ CorrectedFit'
  <2>1. EpisodesFit'
    BY <1>8 DEF CInv, EpisodesFit, db
  <2>2. CorrectedFit'
    BY <1>1, <1>6, <1>8, EmptyRecords, Constants DEF CorrectedFit, db
  <2> QED
    BY <2>1, <2>2
<1>9. EpisodesFit' /\ CorrectedFit'
  BY <1>7, <1>8, CommitStep
<1>10. PurgeFits'
  <2>1. worker' = IdleWorker
    BY <1>1, <1>3 DEF PInv, WorkerFits
  <2> QED
    BY <2>1, EmptyRecords DEF PurgeFits
<1>11. ASSUME NEW p \in Procs PROVE CheckFit(p)'
  <2>1. CheckFit(p) /\ task[p].pc \in {"idle", "settling"} /\ task'[p] = task[p]
    BY <1>1, <1>3 DEF CInv, ChecksFit
  <2> QED
    BY <2>1 DEF CheckFit, WithRow
<1> QED
  BY <1>4, <1>9, <1>10, <1>11 DEF CInv, ChecksFit

LEMMA WorldFits ==
  ASSUME Overlap = {}, TInv, PInv, CInv, World
  PROVE  CInv'
<1>1. CASE ShareDrops
  <2>1. /\ worker = IdleWorker /\ rename = NoRename /\ \A p \in Procs : task[p] = Idle
    BY <1>1 DEF ShareDrops, MayMeet, AllIdle
  <2>2. UNCHANGED <<disk, running, watching, db, worker, task, rename, blurred, corrected>>
    BY <1>1 DEF ShareDrops, ghost
  <2>3. WatchedFit' /\ RenamesFit' /\ PurgeFits'
    BY <2>1, <2>2, EmptyRecords DEF WatchedFit, RenamesFit, PurgeFits
  <2>4. EpisodesFit' /\ CorrectedFit' /\ ChecksFit'
    BY <2>2 DEF CInv, EpisodesFit, CorrectedFit, ChecksFit, CheckFit, GoneOrAt, db
  <2> QED
    BY <2>3, <2>4 DEF CInv
<1>2. CASE ShareReturns
  <2>1. /\ UNCHANGED <<disk, running, watching, db, worker, task, rename, blurred, corrected>>
        /\ online'
    BY <1>2 DEF ShareReturns, ghost
  <2>2. EpisodesFit' /\ CorrectedFit' /\ ChecksFit' /\ RenamesFit' /\ PurgeFits'
    BY <2>1 DEF CInv, EpisodesFit, CorrectedFit, ChecksFit, CheckFit, RenamesFit, PurgeFits, GoneOrAt, db
  <2>3. WatchedFit'
    BY <2>1 DEF CInv, WatchedFit, Watched
  <2> QED
    BY <2>2, <2>3 DEF CInv
<1>3. CASE Stop
  <2>1. rename = NoRename
    BY <1>3 DEF Stop, RenameAside
  <2>2. /\ worker' = IdleWorker /\ rename' = NoRename /\ \A p \in Procs : task'[p] = Idle
        /\ UNCHANGED <<disk, db, blurred, corrected>>
    BY <1>3 DEF Stop
  <2>3. WatchedFit' /\ RenamesFit' /\ PurgeFits'
    BY <2>2, EmptyRecords DEF WatchedFit, RenamesFit, PurgeFits
  <2>4. EpisodesFit' /\ CorrectedFit'
    BY <2>1, <2>2 DEF CInv, EpisodesFit, CorrectedFit, db
  <2>5. ChecksFit'
    BY <2>2, IdleFits DEF ChecksFit
  <2> QED
    BY <2>3, <2>4, <2>5 DEF CInv
<1>4. CASE Start
  <2>1. /\ worker = IdleWorker /\ rename = NoRename /\ \A p \in Procs : task[p] = Idle
    BY <1>4 DEF Start, PInv, Asleep
  <2>2. UNCHANGED <<disk, db, worker, task, rename, blurred, corrected>>
    BY <1>4 DEF Start, ghost
  <2>3. WatchedFit' /\ RenamesFit' /\ PurgeFits'
    BY <2>1, <2>2, EmptyRecords DEF WatchedFit, RenamesFit, PurgeFits
  <2>4. EpisodesFit' /\ CorrectedFit' /\ ChecksFit'
    BY <2>2 DEF CInv, EpisodesFit, CorrectedFit, ChecksFit, CheckFit, GoneOrAt, db
  <2> QED
    BY <2>3, <2>4 DEF CInv
<1> QED
  BY <1>1, <1>2, <1>3, <1>4, ChangeFits DEF World

\* Every step keeps CInv.
LEMMA CorrectedStep ==
  ASSUME Overlap = {}, TInv, PInv, CInv, [Next]_vars
  PROVE  CInv'
<1>1. CASE UNCHANGED vars
  BY <1>1 DEF vars, env, db, ghost, CInv, EpisodesFit, CorrectedFit, ChecksFit, CheckFit,
              RenamesFit, PurgeFits, GoneOrAt, WatchedFit, Watched
<1>2. CASE Worker
  BY <1>2, TakeJobFits, ScanFits, NextDirFits, ScanPurgeFits, ApplyFits DEF Worker
<1>3. ASSUME NEW p \in Procs, Process(p) PROVE CInv'
  BY <1>3, LookupFits, LookFits, CreateFits, RecordFits DEF Process
<1>4. ASSUME NEW d \in Dirs, Debounce(d) PROVE CInv'
  BY <1>3, <1>4, SettleFits, FindGoneFits, ForgetFits, Constants DEF Debounce
<1>5. CASE Api
  BY <1>5, RequestsFit, CorrectFits, DeleteFits, OnDiskFits, CommitFits DEF Api
<1>6. CASE World
  BY <1>6, WorldFits
<1> QED
  BY <1>1, <1>2, <1>3, <1>4, <1>5, <1>6, Constants DEF Next

(* A number given by hand survives every scan, check and purge that follows
   (animes.py, update_local_episode_number), where renames and outages find nothing in
   flight: the scan's walk of an unreachable directory lists no file. *)
THEOREM CorrectionsSurvive ==
  ASSUME Overlap = {}
  PROVE  Spec => []CorrectionsKept
<1>1. Init => TInv /\ PInv /\ CInv
  BY TypedInit, WaitingInit, CorrectedInit
<1>2. TInv /\ PInv /\ CInv /\ [Next]_vars => TInv' /\ PInv' /\ CInv'
  <2>1. "reuse" \notin Overlap
    OBVIOUS
  <2> QED
    BY <2>1, TypedStep, PendingStep, CorrectedStep
<1>3. CInv => CorrectionsKept
  BY DEF CInv, CorrectedFit, CorrectionsKept
<1> QED
  BY <1>1, <1>2, <1>3, PTL DEF Spec

-----------------------------------------------------------------------------
(* All is quiet only when the catalogue matches the disk.                   *)

NoneAt(d)  == \A q \in Ids : rows[q] = NoRow \/ rows[q].dir # d
Only(d, r) == \A q \in Ids : rows[q] = NoRow \/ rows[q].dir # d \/ q = r

\* The catalogue says of d what the disk says.
Recorded(d) ==
  /\ disk[d] = "video" <=> eps[d].row # 0
  /\ disk[d] = "absent" => NoneAt(d)

\* A check of d is on its way, or will remove the row of d.
Goes(d) == \/ task[d].pc \in {"settling", "gone"}
           \/ task[d].pc = "forget" /\ Only(d, task[d].row)

\* A processor that has the row of d will write what is missing, and delete
\* what is too much.
Reads(p, d) ==
  /\ rows[task[p].row] # NoRow /\ disk[d] # "absent"
  /\ task[p].pc # "read" => /\ (disk[d] = "video" /\ d \in task[p].known) => eps[d].row # 0
                            /\ (disk[d] # "video" /\ eps[d].row # 0) => d \in task[p].known

\* Processor p will leave d recorded, unless d changes before.
Brings(p, d) ==
  /\ task[p].dir = d
  /\ \/ p = d /\ Goes(d)
     \/ task[p].pc = "lookup" /\ disk[d] # "absent"
     \/ task[p].pc = "probe" /\ NoneAt(d)
     \/ task[p].pc = "create" /\ NoneAt(d) /\ disk[d] = "video"
     \/ task[p].pc \in {"read", "walk", "record"} /\ Reads(p, d)

\* The purge has all rows of d, which is gone.
Purges(d) ==
  /\ worker.pc \in {"purge", "delete"} /\ disk[d] = "absent"
  /\ \A r \in Ids : (rows[r] # NoRow /\ rows[r].dir = d) =>
       <<r, d>> \in worker.rest \/ (worker.pc = "delete" /\ worker.job.row = r)

Settled(d) == Recorded(d) \/ (\E p \in Procs : Brings(p, d)) \/ Purges(d)

SettledFit == \A d \in Dirs : d \in unseen \/ d \in blurred \/ Settled(d)

\* What a processor knows of its directory is so, or it will be told, or it is
\* the scan and the directory is blurred for it.
SeenBy(p) ==
  /\ (p # Scan /\ task[p].pc \notin {"idle", "settling", "gone", "forget"}) =>
       disk[task[p].dir] # "absent"
  /\ (task[p].pc = "create" \/ (task[p].pc = "record" /\ task[p].found)) =>
       disk[task[p].dir] = "video" \/ (p = Scan /\ task[p].dir \in blurred)

SeenFit == \A p \in Procs : SeenBy(p)

\* The scan has been in d, which changed meanwhile.
Passed(d) ==
  d \notin worker.todo /\ ~(task[Scan].pc = "lookup" /\ task[Scan].dir = d) /\ d \in blurred

\* A directory that goes during the scan has no row, or loses it.
AbsentFit == worker.pc = "dirs" => \A d \in worker.listed :
  disk[d] = "absent" => Passed(d) \/ NoneAt(d) \/ Goes(d)

TodoFit ==
  /\ worker.pc = "dirs" => worker.todo \subseteq worker.listed
  /\ task[Scan].pc # "idle" => task[Scan].dir \in worker.listed \ worker.todo

\* A directory that comes back while its row is deleted is looked at again.
DeleteFit == worker.pc = "delete" =>
  /\ worker.job.dir \in Dirs
  /\ task[worker.job.dir].pc = "settling" \/ disk[worker.job.dir] = "absent"

\* The directories of a rename are looked at when it is recorded.
RenameSeen == rename.pc = "moved" =>
  \A d \in {rename.from, rename.to} : d \in unseen \/ task[d].pc = "settling"

NoEpFit == \A d \in Dirs : eps[d].row = 0 => eps[d] = NoEp

SInv == /\ SettledFit /\ SeenFit /\ AbsentFit /\ TodoFit /\ DeleteFit /\ RenameSeen /\ NoEpFit

\* In the beginning nobody has looked at anything.
LEMMA SettledInit ==
  ASSUME Init
  PROVE  SInv
<1>1. /\ worker = IdleWorker /\ rename = NoRename /\ unseen = Dirs
      /\ \A p \in Procs : task[p] = Idle
      /\ \A d \in Dirs : eps[d] = NoEp
  BY DEF Init
<1>2. SettledFit /\ AbsentFit /\ DeleteFit /\ RenameSeen /\ NoEpFit
  BY <1>1, EmptyRecords DEF SettledFit, AbsentFit, DeleteFit, RenameSeen, NoEpFit
<1>3. SeenFit /\ TodoFit
  BY <1>1, EmptyRecords, Constants DEF SeenFit, SeenBy, TodoFit
<1> QED
  BY <1>2, <1>3 DEF SInv

\* The rows at d, as the code asks for them.
LEMMA NoneThere ==
  ASSUME NEW d
  PROVE  RowsAt(d) = {} <=> NoneAt(d)
BY DEF RowsAt, Live, NoneAt

\* Without a row there is no episode.
LEMMA NoneNoEpisode ==
  ASSUME CInv, NEW d \in Dirs, NoneAt(d)
  PROVE  eps[d].row = 0
BY DEF CInv, EpisodesFit, NoneAt

LEMMA NoneRecorded ==
  ASSUME CInv, NEW d \in Dirs, NoneAt(d), disk[d] # "video"
  PROVE  Recorded(d)
BY NoneNoEpisode DEF Recorded

\* Who is idle brings nothing.
LEMMA IdleBrings ==
  ASSUME NEW p \in Procs, task[p].pc = "idle", NEW d
  PROVE  ~Brings(p, d)
BY DEF Brings, Goes

\* A processor brings nothing but its directory.
LEMMA BringsHere ==
  ASSUME NEW p \in Procs, NEW d, Brings(p, d)
  PROVE  task[p].dir = d
BY DEF Brings

(* Where disk, row and episode of d are as before, it stays settled if those
   who bring it go on. *)
LEMMA StaysSettled ==
  ASSUME NEW d \in Dirs, Settled(d), disk'[d] = disk[d], eps'[d].row = eps[d].row,
         \A r \in Ids : (rows'[r] # NoRow /\ rows'[r].dir = d) <=> (rows[r] # NoRow /\ rows[r].dir = d),
         \A p \in Procs : Brings(p, d) => \/ Settled(d)'
                                          \/ /\ task'[p] = task[p]
                                             /\ (task[p].pc \in WithRow /\ rows[task[p].row] # NoRow) =>
                                                  rows'[task[p].row] # NoRow,
         Purges(d) => \/ Settled(d)'
                      \/ UNCHANGED <<worker>>
  PROVE  Settled(d)'
<1>1. NoneAt(d)' <=> NoneAt(d)
  BY DEF NoneAt
<1>2. \A r : Only(d, r)' <=> Only(d, r)
  BY DEF Only
<1>3. CASE Recorded(d)
  BY <1>1, <1>3 DEF Recorded, Settled
<1>4. ASSUME NEW p \in Procs, Brings(p, d), task'[p] = task[p],
             (task[p].pc \in WithRow /\ rows[task[p].row] # NoRow) => rows'[task[p].row] # NoRow
      PROVE  Settled(d)'
  <2>1. CASE p = d /\ Goes(d)
    <3>1. Only(d, task[d].row)' <=> Only(d, task[d].row)
      BY <1>4, <2>1 DEF Only
    <3>2. Goes(d)'
      BY <1>4, <2>1, <3>1 DEF Goes
    <3> QED
      BY <1>4, <2>1, <3>2 DEF Brings, Settled
  <2>2. CASE ~(p = d /\ Goes(d))
    <3>1. task[p].pc \in WithRow /\ Reads(p, d) => Reads(p, d)'
      BY <1>4 DEF Reads
    <3>2. Brings(p, d)'
      BY <1>1, <1>4, <2>2, <3>1 DEF Brings, WithRow
    <3> QED
      BY <3>2 DEF Settled
  <2> QED
    BY <2>1, <2>2
<1>5. CASE Purges(d) /\ UNCHANGED worker
  BY <1>5 DEF Purges, Settled
<1> QED
  BY <1>3, <1>4, <1>5 DEF Settled

-----------------------------------------------------------------------------
(* The steps of processors. *)

\* Processor p in d turns to something else, and no row or episode changes.
LEMMA TurnSettles ==
  ASSUME TInv, CInv, SInv, NEW p \in Procs, task[p].pc # "idle", NEW d, d = task[p].dir,
         rename.pc # "moved", UNCHANGED <<disk, rows, eps, rename>>,
         \A q \in Procs : q # p => task'[q] = task[q],
         \/ worker' = worker
         \/ worker' = IdleWorker /\ worker.pc = "dirs" /\ p = Scan /\ task'[p] = Idle,
         p = Scan => task'[p] = Idle \/ (task'[p].pc # "lookup" /\ task'[p].dir = d),
         task[p].pc = "settling" => worker.pc # "delete",
         \A x \in unseen : x = d \/ x \in unseen',
         \/ blurred' = blurred
         \/ blurred' = blurred \ {d} /\ (p # Scan => task[Scan].dir # d),
         SeenBy(p)',
         d \in unseen \/ d \in blurred \/ Brings(p, d) => d \in unseen' \/ d \in blurred' \/ Settled(d)',
         worker.pc = "dirs" /\ d \in worker.listed /\ disk[d] = "absent" =>
           Passed(d)' \/ NoneAt(d) \/ Goes(d)'
  PROVE  SInv'
<1>1. d \in Dirs /\ (p # Scan => d = p)
  BY ProcessorFields
<1>2. SettledFit'
  <2>1. ASSUME NEW x \in Dirs, x \notin unseen', x \notin blurred'
        PROVE  Settled(x)'
    <3>1. CASE x = d /\ (d \in unseen \/ d \in blurred \/ Brings(p, d))
      BY <2>1, <3>1
    <3>2. CASE ~(x = d /\ (d \in unseen \/ d \in blurred \/ Brings(p, d)))
      <4>1. Settled(x)
        BY <2>1, <3>2 DEF SInv, SettledFit
      <4>2. ~Brings(p, x)
        BY <3>2, BringsHere
      <4>3. Purges(x) => worker' = worker
        BY DEF Purges
      <4>4. \A q \in Procs : Brings(q, x) => task'[q] = task[q]
        BY <4>2
      <4>5. /\ disk'[x] = disk[x] /\ eps'[x].row = eps[x].row
            /\ \A r \in Ids : (rows'[r] # NoRow /\ rows'[r].dir = x) <=> (rows[r] # NoRow /\ rows[r].dir = x)
            /\ \A q : rows[task[q].row] # NoRow => rows'[task[q].row] # NoRow
        OBVIOUS
      <4> QED
        BY <4>1, <4>3, <4>4, <4>5, StaysSettled
    <3> QED
      BY <3>1, <3>2
  <2> QED
    BY <2>1 DEF SettledFit
<1>3. SeenFit'
  <2>1. ASSUME NEW q \in Procs, q # p PROVE SeenBy(q)'
    <3>1. q = Scan /\ task[q].dir \in blurred => task[q].dir \in blurred'
      BY <2>1
    <3> QED
      BY <2>1, <3>1 DEF SInv, SeenFit, SeenBy
  <2> QED
    BY <2>1 DEF SeenFit
<1>4. AbsentFit'
  <2>1. ASSUME worker'.pc = "dirs", NEW x \in worker'.listed, disk'[x] = "absent"
        PROVE  Passed(x)' \/ NoneAt(x)' \/ Goes(x)'
    <3>1. worker' = worker /\ x \in Dirs /\ Scan \notin Dirs
      BY <2>1, EmptyRecords, WorkerFields, Constants
    <3>2. NoneAt(x)' <=> NoneAt(x)
      BY DEF NoneAt
    <3>3. CASE x = d
      BY <2>1, <3>1, <3>2, <3>3
    <3>4. CASE x # d
      <4>1. Passed(x) \/ NoneAt(x) \/ Goes(x)
        BY <2>1, <3>1 DEF SInv, AbsentFit
      <4>2. Passed(x) => Passed(x)'
        <5>1. x \in blurred => x \in blurred'
          BY <3>4
        <5>2. task'[Scan].pc = "lookup" /\ task'[Scan].dir = x => task[Scan].pc = "lookup" /\ task[Scan].dir = x
          BY EmptyRecords, Constants
        <5> QED
          BY <3>1, <5>1, <5>2 DEF Passed
      <4>3. task'[x] = task[x]
        BY <1>1, <3>1, <3>4, Constants
      <4>4. Goes(x) => Goes(x)'
        BY <4>3 DEF Goes, Only
      <4> QED
        BY <3>2, <4>1, <4>2, <4>4
    <3> QED
      BY <3>3, <3>4
  <2> QED
    BY <2>1 DEF AbsentFit
<1>5. TodoFit'
  BY EmptyRecords, Constants DEF SInv, TodoFit
<1>6. DeleteFit'
  BY EmptyRecords, Constants DEF SInv, DeleteFit
<1>7. RenameSeen' /\ NoEpFit'
  BY DEF SInv, RenameSeen, NoEpFit
<1> QED
  BY <1>2, <1>3, <1>4, <1>5, <1>6, <1>7 DEF SInv

LEMMA SettleSettles ==
  ASSUME TInv, CInv, SInv, NEW d \in Dirs, Settle(d)
  PROVE  SInv'
<1>1. /\ d \in Procs /\ d # Scan /\ task[d].pc = "settling" /\ rename.pc # "moved" /\ worker.pc # "delete"
      /\ UNCHANGED <<disk, rows, eps, rename, worker, unseen, blurred>>
  BY Constants DEF Settle, ShortStepPending, db, ghost
<1>2. PICK pc \in {"gone", "lookup"} :
        /\ Turns(d, pc, task[d].row, task[d].should, task[d].known, task[d].found)
        /\ pc = "gone" => ~online \/ disk[d] = "absent"
        /\ pc = "lookup" => disk[d] # "absent"
  BY SettleStep
<1>3. online /\ task[d].dir = d
  BY <1>1, ProcessorFields DEF CInv, WatchedFit, Watched
<1>4. SeenBy(d)'
  BY <1>1, <1>2, <1>3 DEF Turns, SeenBy
<1>5. Brings(d, d)'
  BY <1>1, <1>2, <1>3 DEF Turns, Brings, Goes
<1>6. Settled(d)'
  BY <1>1, <1>5 DEF Settled
<1>7. disk[d] = "absent" => Goes(d)'
  BY <1>2 DEF Turns, Goes
<1>8. \A q \in Procs : q # d => task'[q] = task[q]
  BY <1>2 DEF Turns
<1> QED
  BY <1>1, <1>3, <1>4, <1>6, <1>7, <1>8, TurnSettles

LEMMA FindGoneSettles ==
  ASSUME TInv, PInv, CInv, SInv, NEW d \in Dirs, FindGone(d)
  PROVE  SInv'
<1>1. /\ d \in Procs /\ d # Scan /\ task[d].pc = "gone"
      /\ UNCHANGED <<disk, rows, eps, rename, worker, unseen, blurred>>
  BY Constants, FindGoneStep DEF FindGone, db, ghost
<1>2. rename.pc # "moved" /\ task[d].dir = d /\ disk[d] = "absent"
  BY <1>1, AtWork, ProcessorFields DEF CInv, ChecksFit, CheckFit
<1>3. CASE NoneAt(d) /\ Stops(d)
  <2>1. task'[d] = Idle /\ \A q \in Procs : q # d => task'[q] = task[q]
    BY <1>3 DEF Stops
  <2>2. Recorded(d)
    BY <1>2, <1>3, NoneRecorded
  <2>3. Recorded(d)'
    BY <1>1, <2>2 DEF Recorded, NoneAt
  <2>4. Settled(d)' /\ SeenBy(d)'
    BY <2>1, <2>3, EmptyRecords DEF Settled, SeenBy
  <2> QED
    BY <1>1, <1>2, <1>3, <2>1, <2>4, TurnSettles
<1>4. ASSUME NEW r \in RowsAt(d), Turns(d, "forget", r, task[d].should, task[d].known, task[d].found)
      PROVE  SInv'
  <2>1. /\ task'[d].pc = "forget" /\ task'[d].row = r /\ task'[d].dir = d
        /\ \A q \in Procs : q # d => task'[q] = task[q]
    BY <1>2, <1>4 DEF Turns
  <2>2. r \in Ids /\ rows[r] # NoRow /\ rows[r].dir = d
    BY RowAt
  <2>3. Only(d, r)
    BY <2>2 DEF PInv, OneRowPerDir, Only
  <2>4. Goes(d)'
    BY <1>1, <2>1, <2>3 DEF Goes, Only
  <2>5. Settled(d)' /\ SeenBy(d)'
    BY <1>1, <2>1, <2>4 DEF Settled, Brings, SeenBy
  <2> QED
    BY <1>1, <1>2, <2>1, <2>4, <2>5, TurnSettles
<1> QED
  BY <1>3, <1>4, FindGoneStep, NoneThere

(* A scan that is further on in a directory that is gone has passed it, or the
   directory has no row, or the check that will remove it is on its way. *)
LEMMA PassedBy ==
  ASSUME TInv, SInv, NEW p \in Procs, NEW d, d = task[p].dir,
         task[p].pc \notin {"idle", "settling", "gone", "forget", "lookup"},
         worker.pc = "dirs", d \in worker.listed, disk[d] = "absent",
         UNCHANGED <<rows, blurred>>, worker' = worker \/ worker' = IdleWorker,
         \A q \in Procs : q # p => task'[q] = task[q],
         task'[p].pc # "lookup"
  PROVE  Passed(d)' \/ NoneAt(d) \/ Goes(d)'
<1>1. p = Scan /\ d \in Dirs /\ d # Scan /\ d \in Procs
  BY ProcessorFields, Constants DEF SInv, SeenFit, SeenBy
<1>2. CASE Passed(d)
  BY <1>1, <1>2, EmptyRecords DEF Passed
<1>3. CASE Goes(d)
  <2>1. task'[d] = task[d]
    BY <1>1
  <2> QED
    BY <1>3, <2>1 DEF Goes, Only
<1> QED
  BY <1>2, <1>3 DEF SInv, AbsentFit

(* A scan that looks at a directory which is gone finds no row, or the check
   that will remove it is on its way. *)
LEMMA LookupSettles ==
  ASSUME TInv, PInv, CInv, SInv, NEW p \in Procs, Lookup(p)
  PROVE  SInv'
<1>1. PICK d : d = task[p].dir
  OBVIOUS
<1>2. /\ task[p].pc = "lookup" /\ d \in Dirs /\ (p # Scan => d = p) /\ d # Scan
      /\ UNCHANGED <<disk, rows, eps, rename, worker>>
      /\ unseen' = unseen \ {d}
      /\ blurred' = IF p # Scan /\ task[Scan].dir = d THEN blurred ELSE blurred \ {d}
  BY <1>1, ProcessorFields, Constants DEF Lookup, db
<1>3. rename.pc # "moved"
  BY <1>2, AtWork
<1>4. PICK pc \in {"probe", "read"}, r \in Ids \cup {0}, b \in BOOLEAN :
        /\ Turns(p, pc, r, b, task[p].known, task[p].found)
        /\ pc = "probe" => NoneAt(d)
        /\ pc = "read" => r \in Ids /\ rows[r] # NoRow /\ rows[r].dir = d
  <2>1. CASE /\ RowsAt(d) = {}
             /\ Turns(p, "probe", task[p].row, task[p].should, task[p].known, task[p].found)
    BY <1>2, <2>1, NoneThere, ProcessorFields
  <2>2. ASSUME NEW r \in RowsAt(d), Turns(p, "read", r, ShouldIdentify(r), task[p].known, task[p].found)
        PROVE  \E pc \in {"probe", "read"}, q \in Ids \cup {0}, b \in BOOLEAN :
                 /\ Turns(p, pc, q, b, task[p].known, task[p].found)
                 /\ pc = "probe" => NoneAt(d)
                 /\ pc = "read" => q \in Ids /\ rows[q] # NoRow /\ rows[q].dir = d
    <3>1. ShouldIdentify(r) \in BOOLEAN
      BY DEF ShouldIdentify
    <3> QED
      BY <2>2, <3>1, RowAt
  <2> QED
    BY <1>1, <2>1, <2>2, LookupStep
<1>5. /\ task'[p].pc = pc /\ task'[p].dir = d /\ task'[p].row = r
      /\ \A q \in Procs : q # p => task'[q] = task[q]
  BY <1>1, <1>4 DEF Turns
<1>6. p # Scan => disk[d] # "absent"
  BY <1>1, <1>2 DEF SInv, SeenFit, SeenBy
<1>7. SeenBy(p)'
  BY <1>2, <1>4, <1>5, <1>6 DEF SeenBy
<1>8. disk[d] # "absent" => Brings(p, d)'
  BY <1>2, <1>4, <1>5 DEF Brings, Reads, NoneAt
<1>9. ASSUME disk[d] = "absent"
      PROVE  /\ p = Scan /\ worker.pc = "dirs" /\ d \in worker.listed
             /\ NoneAt(d) \/ Goes(d)
  <2>1. p = Scan /\ worker.pc = "dirs"
    BY <1>2, <1>6, <1>9, EmptyRecords DEF PInv, WorkerFits
  <2>2. d \in worker.listed
    BY <1>1, <1>2, <2>1 DEF SInv, TodoFit
  <2>3. ~Passed(d)
    BY <1>1, <1>2, <2>1 DEF Passed
  <2> QED
    BY <1>9, <2>1, <2>2, <2>3 DEF SInv, AbsentFit
<1>10. disk[d] = "absent" => NoneAt(d) \/ Goes(d)'
  <2>1. disk[d] = "absent" => task'[d] = task[d]
    BY <1>2, <1>5, <1>9, Constants
  <2>2. disk[d] = "absent" /\ Goes(d) => Goes(d)'
    BY <1>2, <2>1 DEF Goes, Only
  <2> QED
    BY <1>9, <2>2
<1>11. Settled(d)'
  <2>1. CASE disk[d] # "absent"
    BY <1>8, <2>1 DEF Settled
  <2>2. CASE disk[d] = "absent" /\ NoneAt(d)
    <3>1. Recorded(d)
      BY <1>2, <2>2, NoneRecorded
    <3>2. Recorded(d)'
      BY <1>2, <3>1 DEF Recorded, NoneAt
    <3> QED
      BY <3>2 DEF Settled
  <2>3. CASE disk[d] = "absent" /\ Goes(d)'
    <3>1. d \in Procs /\ task'[d] = task[d] /\ task[d].pc # "idle"
      BY <1>2, <1>5, <1>9, <2>3, Constants DEF Goes
    <3>2. Brings(d, d)'
      BY <1>2, <2>3, <3>1, ProcessorFields DEF Brings
    <3> QED
      BY <3>1, <3>2 DEF Settled
  <2> QED
    BY <1>10, <2>1, <2>2, <2>3
<1>12. /\ p = Scan => task'[p].pc # "lookup" /\ task'[p].dir = d
       /\ \A x \in unseen : x = d \/ x \in unseen'
       /\ blurred' = blurred \/ (blurred' = blurred \ {d} /\ (p # Scan => task[Scan].dir # d))
  BY <1>2, <1>4, <1>5
<1> QED
  BY <1>1, <1>2, <1>3, <1>5, <1>7, <1>10, <1>11, <1>12, TurnSettles

(* A directory without videos is left without a row. *)
LEMMA ProbeSettles ==
  ASSUME TInv, PInv, CInv, SInv, NEW p \in Procs, Probe(p)
  PROVE  SInv'
<1>1. PICK d : d = task[p].dir
  OBVIOUS
<1>2. /\ task[p].pc = "probe" /\ d \in Dirs /\ (p # Scan => d = p) /\ d # Scan
      /\ UNCHANGED <<disk, rows, eps, rename, worker, unseen, blurred>>
  BY <1>1, ProbeStep, ProcessorFields, Constants DEF Probe, db, ghost
<1>3. rename.pc # "moved" /\ online
  BY <1>2, AtWork DEF CInv, WatchedFit, Watched
<1>4. NoneAt(d)' <=> NoneAt(d)
  BY <1>2 DEF NoneAt
<1>5. Brings(p, d) => NoneAt(d)
  BY <1>2 DEF Brings, Goes
<1>6. /\ \A q \in Procs : q # p => task'[q] = task[q]
      /\ \/ task'[p].pc = "create" /\ task'[p].dir = d /\ disk[d] = "video"
         \/ task'[p] = Idle /\ disk[d] # "video"
  BY <1>1, <1>3, ProbeStep DEF Turns, Stops
<1>7. SeenBy(p)'
  BY <1>2, <1>6, EmptyRecords DEF SeenBy
<1>8. Brings(p, d) => Settled(d)'
  <2>1. ASSUME Brings(p, d) PROVE Recorded(d)' \/ Brings(p, d)'
    <3>1. CASE disk[d] = "video"
      BY <1>2, <1>4, <1>5, <1>6, <2>1, <3>1 DEF Brings
    <3>2. CASE disk[d] # "video"
      <4>1. Recorded(d)
        BY <1>2, <1>5, <2>1, <3>2, NoneRecorded
      <4> QED
        BY <1>2, <1>4, <4>1 DEF Recorded
    <3> QED
      BY <3>1, <3>2
  <2> QED
    BY <2>1 DEF Settled
<1>9. task'[p].pc # "lookup"
  BY <1>6, EmptyRecords
<1>10. worker.pc = "dirs" /\ d \in worker.listed /\ disk[d] = "absent" => Passed(d)' \/ NoneAt(d) \/ Goes(d)'
  BY <1>1, <1>2, <1>6, <1>9, PassedBy
<1> QED
  BY <1>1, <1>2, <1>3, <1>6, <1>7, <1>8, <1>9, <1>10, TurnSettles

(* What is stored is read as it is, and compared with what is there. *)
LEMMA ReadSettles ==
  ASSUME TInv, PInv, CInv, SInv, NEW p \in Procs, ReadEpisodes(p) \/ Walk(p)
  PROVE  SInv'
<1>1. PICK d : d = task[p].dir
  OBVIOUS
<1>2. /\ task[p].pc \in {"read", "walk"} /\ d \in Dirs /\ (p # Scan => d = p) /\ task[p].row \in Ids
      /\ UNCHANGED <<disk, rows, eps, rename, worker, unseen, blurred>>
  BY <1>1, ProcessorFields, Constants DEF ReadEpisodes, Walk, WithRow, db, ghost
<1>3. rename.pc # "moved" /\ online
  BY <1>2, AtWork DEF CInv, WatchedFit, Watched
<1>4. PICK r \in Ids : r = task[p].row
  BY <1>2
<1>5. GoneOrAt(r, d)
  BY <1>1, <1>2, <1>4 DEF CInv, ChecksFit, CheckFit, WithRow
<1>6. /\ task'[p].dir = d /\ task'[p].row = r /\ task'[p].pc \in {"walk", "record"}
      /\ \A q \in Procs : q # p => task'[q] = task[q]
      /\ task'[p].pc = "record" /\ task'[p].found => disk[d] = "video"
      /\ Brings(p, d) => Brings(p, d)'
  <2>1. CASE ReadEpisodes(p)
    <3>1. PICK ks : ks = {x \in Dirs : eps[x].row = r}
      OBVIOUS
    <3>2. task[p].pc = "read" /\ Turns(p, "walk", r, task[p].should, ks, task[p].found)
      BY <1>4, <2>1, <3>1, ReadStep DEF ReadEpisodes
    <3>3. /\ task'[p].dir = d /\ task'[p].row = r /\ task'[p].pc = "walk" /\ task'[p].known = ks
          /\ \A q \in Procs : q # p => task'[q] = task[q]
      BY <1>1, <3>2 DEF Turns
    <3>4. d \in ks => eps[d].row # 0
      BY <1>4, <3>1, Constants
    <3>5. rows[r] # NoRow /\ eps[d].row # 0 => d \in ks
      <4>1. rows[r] # NoRow /\ eps[d].row # 0 => eps[d].row = r
        BY <1>2, <1>5 DEF CInv, EpisodesFit, PInv, OneRowPerDir, GoneOrAt
      <4> QED
        BY <1>2, <3>1, <4>1
    <3>6. Brings(p, d) => rows[r] # NoRow /\ disk[d] # "absent"
      BY <1>4, <3>2 DEF Brings, Goes, Reads
    <3>7. Brings(p, d) => Brings(p, d)'
      BY <1>2, <3>3, <3>4, <3>5, <3>6 DEF Brings, Reads
    <3> QED
      BY <3>3, <3>7
  <2>2. CASE Walk(p)
    <3>1. PICK f : f = (online /\ disk[d] = "video")
      OBVIOUS
    <3>2. task[p].pc = "walk" /\ Turns(p, "record", r, task[p].should, task[p].known, f)
      BY <1>1, <1>4, <2>2, <3>1, WalkStep DEF Walk
    <3>3. /\ task'[p].dir = d /\ task'[p].row = r /\ task'[p].pc = "record" /\ task'[p].known = task[p].known
          /\ task'[p].found = f /\ \A q \in Procs : q # p => task'[q] = task[q]
      BY <1>1, <3>2 DEF Turns
    <3>4. Brings(p, d) => Reads(p, d)
      BY <3>2 DEF Brings, Goes
    <3>5. Brings(p, d) => Brings(p, d)'
      BY <1>2, <1>4, <3>2, <3>3, <3>4 DEF Brings, Reads
    <3> QED
      BY <3>1, <3>3, <3>5
  <2> QED
    BY <2>1, <2>2
<1>7. SeenBy(p)'
  <2>1. p # Scan => disk[d] # "absent"
    BY <1>1, <1>2 DEF SInv, SeenFit, SeenBy
  <2> QED
    BY <1>2, <1>6, <2>1 DEF SeenBy
<1>8. Brings(p, d) => Settled(d)'
  BY <1>6 DEF Settled
<1>9. worker.pc = "dirs" /\ d \in worker.listed /\ disk[d] = "absent" => Passed(d)' \/ NoneAt(d) \/ Goes(d)'
  BY <1>1, <1>2, <1>6, PassedBy
<1> QED
  BY <1>1, <1>2, <1>3, <1>6, <1>7, <1>8, <1>9, TurnSettles

(* The rows and episodes of d change, and those who are in d may go on: the
   other directories are as settled as before. *)
LEMMA PlaceSettles ==
  ASSUME TInv, PInv, CInv, SInv, NEW d \in Dirs, UNCHANGED <<disk, rename, blurred>>,
         unseen \subseteq unseen',
         \A q \in Procs : \/ task'[q] = task[q]
                          \/ /\ task[q].dir = d /\ task[q].pc # "settling" /\ SeenBy(q)'
                             /\ rename.pc # "moved"
                             /\ q # Scan => q = d
                             /\ q = Scan => task'[q] = Idle \/ (task'[q].pc # "lookup" /\ task'[q].dir = d),
         \A x \in Dirs : x # d => eps'[x].row = eps[x].row,
         \A x \in Dirs, r \in Ids : x # d =>
           ((rows'[r] # NoRow /\ rows'[r].dir = x) <=> (rows[r] # NoRow /\ rows[r].dir = x)),
         \/ worker' = worker
         \/ /\ worker.pc = "delete" /\ worker'.pc = "purge" /\ worker.job.dir = d
            /\ worker'.rest = worker.rest,
         d \in unseen' \/ d \in blurred \/ Settled(d)',
         worker.pc = "dirs" /\ d \in worker.listed /\ disk[d] = "absent" =>
           Passed(d)' \/ NoneAt(d)' \/ Goes(d)',
         NoEpFit'
  PROVE  SInv'
<1>1. d \in Procs /\ d # Scan /\ Scan \in Procs
  BY Constants
<1>2. \A x \in Dirs : x # d => (NoneAt(x)' <=> NoneAt(x)) /\ \A r : Only(x, r)' <=> Only(x, r)
  BY DEF NoneAt, Only
<1>3. SettledFit'
  <2>1. ASSUME NEW x \in Dirs, x # d, x \notin unseen', x \notin blurred
        PROVE  Settled(x)'
    <3>1. Settled(x)
      BY <2>1 DEF SInv, SettledFit
    <3>2. ASSUME NEW q \in Procs, Brings(q, x)
          PROVE  /\ task'[q] = task[q]
                 /\ (task[q].pc \in WithRow /\ rows[task[q].row] # NoRow) => rows'[task[q].row] # NoRow
      <4>1. task[q].dir = x /\ task'[q] = task[q]
        BY <2>1, <3>2, BringsHere
      <4>2. task[q].pc \in WithRow => task[q].row \in Ids /\ GoneOrAt(task[q].row, x)
        BY <4>1, ProcessorFields DEF CInv, ChecksFit, CheckFit
      <4> QED
        BY <2>1, <4>1, <4>2 DEF GoneOrAt
    <3>3. Purges(x) => UNCHANGED worker \/ Settled(x)'
      <4>1. ASSUME Purges(x), worker.pc = "delete", worker'.pc = "purge", worker.job.dir = d,
                   worker'.rest = worker.rest
            PROVE  Purges(x)'
        <5>1. GoneOrAt(worker.job.row, d)
          BY <4>1 DEF CInv, PurgeFits
        <5> QED
          BY <2>1, <4>1, <5>1 DEF Purges, GoneOrAt
      <4> QED
        BY <4>1 DEF Settled
    <3> QED
      BY <2>1, <3>1, <3>2, <3>3, StaysSettled
  <2> QED
    BY <2>1 DEF SettledFit
<1>4. SeenFit'
  BY DEF SInv, SeenFit, SeenBy
<1>5. AbsentFit'
  <2>1. ASSUME worker'.pc = "dirs", NEW x \in worker'.listed, disk[x] = "absent", x # d
        PROVE  Passed(x)' \/ NoneAt(x)' \/ Goes(x)'
    <3>1. worker' = worker /\ x \in Dirs /\ x \in Procs
      BY <2>1, WorkerFields, Constants
    <3>2. Passed(x) \/ NoneAt(x) \/ Goes(x)
      BY <2>1, <3>1 DEF SInv, AbsentFit
    <3>3. Passed(x) => Passed(x)'
      BY <1>1, <2>1, <3>1, EmptyRecords DEF Passed
    <3>4. task[x].pc # "idle" => task'[x] = task[x]
      BY <2>1, <3>1, ProcessorFields, Constants
    <3>5. Goes(x) => Goes(x)'
      BY <1>2, <2>1, <3>1, <3>4 DEF Goes
    <3> QED
      BY <1>2, <2>1, <3>1, <3>2, <3>3, <3>5
  <2> QED
    BY <2>1 DEF AbsentFit
<1>6. TodoFit'
  <2>1. worker.pc = "delete" => task[Scan] = Idle
    BY DEF PInv, WorkerFits
  <2>2. task[Scan] = Idle => task'[Scan] = Idle
    BY <1>1, EmptyRecords, Constants
  <2>3. task'[Scan].pc # "idle" => worker' = worker /\ task[Scan].pc # "idle" /\ task'[Scan].dir = task[Scan].dir
    BY <1>1, <2>1, <2>2, EmptyRecords, ProcessorFields
  <2> QED
    BY <2>3 DEF SInv, TodoFit
<1>7. DeleteFit'
  <2>1. ASSUME worker'.pc = "delete"
        PROVE  worker'.job.dir \in Dirs /\ (task'[worker'.job.dir].pc = "settling" \/ disk[worker'.job.dir] = "absent")
    <3>1. worker' = worker /\ worker.job.dir \in Dirs /\ worker.job.dir \in Procs
      BY <2>1, Constants DEF SInv, DeleteFit
    <3> QED
      BY <2>1, <3>1 DEF SInv, DeleteFit
  <2> QED
    BY <2>1 DEF DeleteFit
<1>8. RenameSeen'
  <2>1. ASSUME rename.pc = "moved", NEW x \in {rename.from, rename.to}
        PROVE  x \in unseen' \/ task'[x].pc = "settling"
    <3>1. x \in Procs
      BY <2>1, EmptyRecords, Constants DEF TInv, RenameFit
    <3> QED
      BY <2>1, <3>1 DEF SInv, RenameSeen
  <2> QED
    BY <2>1 DEF RenameSeen
<1> QED
  BY <1>3, <1>4, <1>5, <1>6, <1>7, <1>8 DEF SInv

(* A row is created for a directory with videos, and its file recorded next. *)
LEMMA CreateSettles ==
  ASSUME Overlap = {}, TInv, PInv, CInv, SInv, NEW p \in Procs, Create(p)
  PROVE  SInv'
<1>1. PICK d : d = task[p].dir
  OBVIOUS
<1>2. /\ task[p].pc = "create" /\ d \in Dirs /\ (p # Scan => d = p) /\ d # Scan
      /\ UNCHANGED <<disk, eps, rename, unseen, blurred>>
  BY <1>1, ProcessorFields, Constants DEF Create, ghost
<1>3. rename.pc # "moved" /\ (p = Scan => worker.pc = "dirs")
  BY <1>2, AtWork, EmptyRecords DEF PInv, WorkerFits
<1>4. CASE RowsAt(d) # {} /\ Failed(p) /\ UNCHANGED rows
  <2>1. /\ task'[p] = Idle /\ \A q \in Procs : q # p => task'[q] = task[q]
        /\ worker' = IF p = Scan THEN IdleWorker ELSE worker
    BY <1>4, Stopped DEF Failed, Stops
  <2>2. ~Brings(p, d)
    BY <1>2, <1>4, NoneThere DEF Brings, Goes
  <2>3. SeenBy(p)'
    BY <2>1, EmptyRecords DEF SeenBy
  <2>4. worker.pc = "dirs" /\ d \in worker.listed /\ disk[d] = "absent" => Passed(d)' \/ NoneAt(d) \/ Goes(d)'
    BY <1>1, <1>2, <1>4, <2>1, EmptyRecords, PassedBy
  <2> QED
    BY <1>1, <1>2, <1>3, <1>4, <2>1, <2>2, <2>3, <2>4, TurnSettles
<1>5. ASSUME RowsAt(d) = {}, UNCHANGED worker, NEW n \in Ids, n \notin Live, NewRow(n, d), n \notin Held,
             Turns(p, "read", n, TRUE, task[p].known, task[p].found)
      PROVE  SInv'
  <2>1. /\ rows[n] = NoRow /\ \A q \in Ids : q # n => rows'[q] = rows[q]
        /\ rows'[n] # NoRow /\ rows'[n].dir = d
    BY <1>5 DEF NewRow, Live
  <2>2. /\ task'[p].pc = "read" /\ task'[p].row = n /\ task'[p].dir = d
        /\ \A q \in Procs : q # p => task'[q] = task[q]
    BY <1>1, <1>5 DEF Turns
  <2>3. \A x \in Dirs, r \in Ids : x # d =>
           ((rows'[r] # NoRow /\ rows'[r].dir = x) <=> (rows[r] # NoRow /\ rows[r].dir = x))
    BY <2>1
  <2>4. /\ disk[d] = "video" \/ (p = Scan /\ d \in blurred)
        /\ p # Scan => disk[d] # "absent"
    BY <1>1, <1>2 DEF SInv, SeenFit, SeenBy
  <2>5. SeenBy(p)'
    BY <1>2, <2>2, <2>4 DEF SeenBy
  <2>6. disk[d] = "video" => Brings(p, d)'
    BY <1>2, <2>1, <2>2 DEF Brings, Reads
  <2>7. d \in unseen' \/ d \in blurred \/ Settled(d)'
    BY <2>4, <2>6 DEF Settled
  <2>8. worker.pc = "dirs" /\ d \in worker.listed /\ disk[d] = "absent" => Passed(d)'
    <3>1. p = Scan => d \notin worker.todo
      BY <1>1, <1>2 DEF SInv, TodoFit
    <3> QED
      BY <1>2, <1>5, <2>2, <2>4, <3>1 DEF Passed
  <2>9. NoEpFit'
    BY <1>2 DEF SInv, NoEpFit
  <2>10. \A q \in Procs : \/ task'[q] = task[q]
                          \/ /\ task[q].dir = d /\ task[q].pc # "settling" /\ SeenBy(q)'
                             /\ rename.pc # "moved"
                             /\ q # Scan => q = d
                             /\ q = Scan => task'[q] = Idle \/ (task'[q].pc # "lookup" /\ task'[q].dir = d)
    BY <1>1, <1>2, <1>3, <2>2, <2>5
  <2> QED
    BY <1>2, <1>5, <2>3, <2>7, <2>8, <2>9, <2>10, PlaceSettles
<1>6. "reuse" \notin Overlap
  OBVIOUS
<1> QED
  BY <1>1, <1>4, <1>5, <1>6, CreateStep

(* What Record makes of the episode of its directory. *)
LEMMA RecordedEpisode ==
  ASSUME TInv, CInv, NEW p \in Procs, Record(p), CanRecord(p), NEW d, d = task[p].dir
  PROVE  /\ Ended(p) /\ UNCHANGED unseen
         /\ \A x \in Dirs : x # d => eps'[x] = eps[x]
         /\ eps'[d] = IF d \in task[p].known /\ ~task[p].found THEN NoEp
                      ELSE IF FileIsNew(p) THEN [row |-> task[p].row, manual |-> FALSE]
                      ELSE eps[d]
<1>1. task[p].pc = "record" /\ d \in Dirs
  BY ProcessorFields DEF Record
<1>2. task[p].known \subseteq {d}
  BY DEF CInv, ChecksFit, CheckFit
<1>3. PICK e : e = [row |-> task[p].row, manual |-> FALSE]
  OBVIOUS
<1>4. PICK gone : gone = task[p].known \ (IF task[p].found THEN {d} ELSE {})
  OBVIOUS
<1>5. /\ eps' = [x \in Dirs |-> IF x \in gone THEN NoEp
                                ELSE IF x = d /\ FileIsNew(p) THEN e ELSE eps[x]]
      /\ Ended(p) /\ UNCHANGED unseen
  BY <1>3, <1>4 DEF Record, CanRecord
<1>6. (\A x \in gone : x = d) /\ (d \in gone <=> d \in task[p].known /\ ~task[p].found)
  BY <1>2, <1>4
<1> QED
  BY <1>1, <1>3, <1>5, <1>6

(* Once the file is written, or what is not there deleted, d is recorded. *)
LEMMA RecordSettles ==
  ASSUME TInv, PInv, CInv, SInv, NEW p \in Procs, Record(p)
  PROVE  SInv'
<1>1. PICK d : d = task[p].dir
  OBVIOUS
<1>2. /\ task[p].pc = "record" /\ d \in Dirs /\ (p # Scan => d = p) /\ d # Scan /\ task[p].row \in Ids
      /\ UNCHANGED <<disk, rows, rename, blurred>>
  <2>1. task[p].pc = "record" /\ UNCHANGED <<disk, rows, rename, blurred>>
    BY RecordStep
  <2> QED
    BY <1>1, <2>1, ProcessorFields, Constants DEF WithRow
<1>3. rename.pc # "moved" /\ (p = Scan => worker.pc = "dirs")
  BY <1>2, AtWork, EmptyRecords DEF PInv, WorkerFits
<1>4. PICK r \in Ids : r = task[p].row
  BY <1>2
<1>5. CASE ~CanRecord(p)
  <2>1. /\ Failed(p) /\ UNCHANGED eps
        /\ unseen' = IF p = Scan THEN unseen \cup {d} ELSE unseen
    BY <1>1, <1>5, RecordStep
  <2>2. /\ task'[p] = Idle /\ \A q \in Procs : q # p => task'[q] = task[q]
        /\ worker' = IF p = Scan THEN IdleWorker ELSE worker
    BY <2>1, Stopped DEF Failed, Stops
  <2>3. ~Brings(p, d)
    BY <1>2, <1>5 DEF Brings, Goes, Reads, CanRecord
  <2>4. SeenBy(p)'
    BY <2>2, EmptyRecords DEF SeenBy
  <2>5. worker.pc = "dirs" /\ d \in worker.listed /\ disk[d] = "absent" => Passed(d)' \/ NoneAt(d) \/ Goes(d)'
    BY <1>1, <1>2, <2>2, EmptyRecords, PassedBy
  <2>6. \A x \in unseen : x \in unseen'
    BY <2>1
  <2> QED
    BY <1>1, <1>2, <1>3, <2>1, <2>2, <2>3, <2>4, <2>5, <2>6, TurnSettles
<1>6. CASE CanRecord(p)
  <2>1. /\ Ended(p) /\ UNCHANGED unseen
        /\ \A x \in Dirs : x # d => eps'[x] = eps[x]
    BY <1>1, <1>6, RecordedEpisode
  <2>2. eps'[d] = IF d \in task[p].known /\ ~task[p].found THEN NoEp
                  ELSE IF FileIsNew(p) THEN [row |-> task[p].row, manual |-> FALSE]
                  ELSE eps[d]
    BY <1>1, <1>6, RecordedEpisode
  <2>3. /\ task'[p] = Idle /\ (\A q \in Procs : q # p => task'[q] = task[q])
        /\ worker' = worker
    BY <2>1, Stopped DEF Ended, Stops
  <2>4. FileIsNew(p) <=> task[p].found /\ d \notin task[p].known /\ eps[d].row = 0
    BY <1>1 DEF FileIsNew
  <2>5. eps'[d].row = IF d \in task[p].known /\ ~task[p].found THEN 0
                      ELSE IF FileIsNew(p) THEN r ELSE eps[d].row
    BY <1>4, <2>2, EmptyRecords
  <2>6. NoEpFit'
    <3>1. eps'[d].row = 0 => eps'[d] = NoEp
      BY <1>2, <1>4, <2>2, EmptyRecords, Constants DEF SInv, NoEpFit
    <3> QED
      BY <2>1, <3>1 DEF SInv, NoEpFit
  <2>7. SeenBy(p)'
    BY <2>3, EmptyRecords DEF SeenBy
  <2>8. worker.pc = "dirs" /\ d \in worker.listed /\ disk[d] = "absent" => Passed(d)' \/ NoneAt(d)' \/ Goes(d)'
    <3>1. NoneAt(d)' <=> NoneAt(d)
      BY <1>2 DEF NoneAt
    <3> QED
      BY <1>1, <1>2, <2>3, <3>1, EmptyRecords, PassedBy
  <2>9. ASSUME d \notin unseen, d \notin blurred PROVE Settled(d)'
    <3>1. task[p].found <=> disk[d] = "video"
      BY <1>1, <1>2, <2>9 DEF SInv, SeenFit, SeenBy, CInv, ChecksFit, CheckFit
    <3>2. disk[d] = "video" => (eps[d].row # 0 => eps'[d].row # 0)
      BY <1>4, <2>4, <2>5, <3>1
    <3>3. disk[d] # "video" => (eps'[d].row # 0 => eps[d].row # 0 /\ d \notin task[p].known)
      BY <2>4, <2>5, <3>1
    <3>4. disk[d] = "video" /\ d \notin task[p].known => eps'[d].row # 0
      BY <1>4, <2>4, <2>5, <3>1, Constants
    <3>5. NoneAt(d)' <=> NoneAt(d)
      BY <1>2 DEF NoneAt
    <3>6. CASE Recorded(d)
      BY <1>2, <3>2, <3>3, <3>5, <3>6 DEF Recorded, Settled
    <3>7. CASE Brings(p, d)
      <4>1. Reads(p, d)
        BY <1>2, <3>7 DEF Brings, Goes
      <4>2. Recorded(d)'
        BY <1>2, <3>2, <3>3, <3>4, <4>1 DEF Reads, Recorded
      <4> QED
        BY <4>2 DEF Settled
    <3>8. ASSUME NEW q \in Procs, q # p, Brings(q, d) PROVE Settled(d)'
      <4>1. task'[q] = task[q]
        BY <2>3, <3>8
      <4>2. q = d /\ Goes(d) => Goes(d)'
        BY <1>2, <4>1 DEF Goes, Only
      <4>3. Reads(q, d) => Reads(q, d)'
        BY <1>2, <3>2, <3>3, <4>1 DEF Reads
      <4>4. Brings(q, d)'
        BY <1>2, <3>5, <3>8, <4>1, <4>2, <4>3 DEF Brings
      <4> QED
        BY <4>4 DEF Settled
    <3>9. Purges(d) => Settled(d)'
      BY <1>2, <2>3 DEF Purges, Settled
    <3>10. Settled(d)
      BY <1>2, <2>9 DEF SInv, SettledFit
    <3> QED
      BY <3>6, <3>7, <3>8, <3>9, <3>10 DEF Settled
  <2>10. \A q \in Procs : \/ task'[q] = task[q]
                          \/ /\ task[q].dir = d /\ task[q].pc # "settling" /\ SeenBy(q)'
                             /\ rename.pc # "moved"
                             /\ q # Scan => q = d
                             /\ q = Scan => task'[q] = Idle \/ (task'[q].pc # "lookup" /\ task'[q].dir = d)
    BY <1>1, <1>2, <1>3, <2>3, <2>7
  <2> QED
    BY <1>2, <2>1, <2>3, <2>6, <2>8, <2>9, <2>10, PlaceSettles
<1> QED
  BY <1>5, <1>6

-----------------------------------------------------------------------------
(* Rows go. *)

LEMMA DeletedAt ==
  ASSUME TInv, CInv, NoEpFit, NEW d \in Dirs, NEW r \in Ids, RowDeleted(r), GoneOrAt(r, d)
  PROVE  /\ NoEpFit'
         /\ \A x \in Dirs : x # d => eps'[x].row = eps[x].row
         /\ \A x \in Dirs, q \in Ids : x # d =>
              ((rows'[q] # NoRow /\ rows'[q].dir = x) <=> (rows[q] # NoRow /\ rows[q].dir = x))
         /\ \A q \in Ids : rows'[q] # NoRow => q # r /\ rows'[q] = rows[q]
         /\ NoneAt(d) \/ Only(d, r) => NoneAt(d)'
         /\ NoneAt(d)' /\ disk[d] # "video" /\ disk' = disk => Recorded(d)'
<1>1. \A q \in Ids : rows'[q] = IF q = r THEN NoRow ELSE rows[q]
  BY DeletedRow DEF RowGone
<1>2. \A x \in Dirs : eps'[x] = IF eps[x].row = r THEN NoEp ELSE eps[x]
  BY DEF RowDeleted
<1>3. NoEpFit'
  BY <1>2 DEF NoEpFit
<1>4. ASSUME NEW x \in Dirs, x # d PROVE eps'[x].row = eps[x].row
  BY <1>2, <1>4, Constants DEF CInv, EpisodesFit, GoneOrAt
<1>5. \A x \in Dirs, q \in Ids : x # d =>
        ((rows'[q] # NoRow /\ rows'[q].dir = x) <=> (rows[q] # NoRow /\ rows[q].dir = x))
  BY <1>1 DEF GoneOrAt
<1>6. NoneAt(d) \/ Only(d, r) => NoneAt(d)'
  BY <1>1 DEF NoneAt, Only
<1>7. NoneAt(d)' => eps'[d].row = 0
  BY <1>1, <1>2, EmptyRecords DEF CInv, EpisodesFit, NoneAt
<1>8. NoneAt(d)' /\ disk[d] # "video" /\ disk' = disk => Recorded(d)'
  BY <1>7 DEF Recorded
<1> QED
  BY <1>1, <1>3, <1>4, <1>5, <1>6, <1>8

\* The check deletes the row of a directory that is gone.
LEMMA ForgetSettles ==
  ASSUME TInv, PInv, CInv, SInv, NEW d \in Dirs, Forget(d)
  PROVE  SInv'
<1>1. /\ d \in Procs /\ d # Scan /\ task[d].pc = "forget" /\ task[d].row \in Ids /\ task[d].dir = d
      /\ UNCHANGED <<disk, rename, worker, unseen, blurred>>
  BY Constants, ProcessorFields DEF Forget, Ended, WithRow, ghost
<1>2. PICK r \in Ids : r = task[d].row
  BY <1>1
<1>3. RowDeleted(r) /\ task'[d] = Idle /\ \A q \in Procs : q # d => task'[q] = task[q]
  BY <1>1, <1>2, Stopped DEF Forget, Ended, Stops
<1>4. rename.pc # "moved" /\ disk[d] = "absent" /\ GoneOrAt(r, d)
  BY <1>1, <1>2, AtWork DEF CInv, ChecksFit, CheckFit, WithRow
<1>5. /\ NoEpFit'
      /\ \A x \in Dirs : x # d => eps'[x].row = eps[x].row
      /\ \A x \in Dirs, q \in Ids : x # d =>
           ((rows'[q] # NoRow /\ rows'[q].dir = x) <=> (rows[q] # NoRow /\ rows[q].dir = x))
      /\ \A q \in Ids : rows'[q] # NoRow => q # r /\ rows'[q] = rows[q]
      /\ NoneAt(d) \/ Only(d, r) => NoneAt(d)'
      /\ NoneAt(d)' => Recorded(d)'
  BY <1>1, <1>3, <1>4, DeletedAt DEF SInv
<1>6. Goes(d) => NoneAt(d)'
  BY <1>1, <1>2, <1>5 DEF Goes
<1>7. ASSUME d \notin unseen, d \notin blurred PROVE Settled(d)'
  <2>1. Settled(d)
    BY <1>7 DEF SInv, SettledFit
  <2>2. Recorded(d) => Settled(d)'
    BY <1>4, <1>5 DEF Recorded, Settled
  <2>3. ASSUME NEW q \in Procs, Brings(q, d) PROVE Settled(d)'
    BY <1>4, <1>5, <1>6, <2>3 DEF Brings, Reads, Settled
  <2>4. Purges(d) => Purges(d)'
    BY <1>1, <1>5 DEF Purges
  <2> QED
    BY <2>1, <2>2, <2>3, <2>4 DEF Settled
<1>8. worker.pc = "dirs" /\ d \in worker.listed => Passed(d)' \/ NoneAt(d)' \/ Goes(d)'
  <2>1. Passed(d) => Passed(d)'
    BY <1>1, <1>3, Constants DEF Passed
  <2> QED
    BY <1>4, <1>5, <1>6, <2>1 DEF SInv, AbsentFit
<1>9. SeenBy(d)'
  BY <1>3, EmptyRecords DEF SeenBy
<1> QED
  BY <1>1, <1>3, <1>4, <1>5, <1>7, <1>8, <1>9, PlaceSettles

(* The purge deletes a row: its directory is gone, or back and looked at. *)
LEMMA ScanPurgeSettles ==
  ASSUME TInv, PInv, CInv, SInv, ScanPurge
  PROVE  SInv'
<1>1. /\ worker.pc = "delete" /\ worker.job.row \in Ids /\ worker.job.dir \in Dirs
      /\ UNCHANGED <<disk, rename, unseen, blurred, task>>
  BY DEF ScanPurge, CInv, PurgeFits, SInv, DeleteFit, ghost
<1>2. worker'.pc = "purge" /\ worker'.rest = worker.rest
  BY DEF ScanPurge, TInv, TypeOK, WorkerState
<1>3. PICK r \in Ids : r = worker.job.row
  BY <1>1
<1>4. PICK d \in Dirs : d = worker.job.dir
  BY <1>1
<1>5. RowDeleted(r) /\ GoneOrAt(r, d)
  BY <1>1, <1>3, <1>4 DEF ScanPurge, CInv, PurgeFits
<1>6. /\ NoEpFit'
      /\ \A x \in Dirs : x # d => eps'[x].row = eps[x].row
      /\ \A x \in Dirs, q \in Ids : x # d =>
           ((rows'[q] # NoRow /\ rows'[q].dir = x) <=> (rows[q] # NoRow /\ rows[q].dir = x))
      /\ \A q \in Ids : rows'[q] # NoRow => q # r /\ rows'[q] = rows[q]
      /\ NoneAt(d) => NoneAt(d)'
      /\ NoneAt(d)' /\ disk[d] # "video" => Recorded(d)'
  BY <1>1, <1>5, DeletedAt DEF SInv
<1>7. Goes(d) => Settled(d)'
  <2>1. Goes(d) => Goes(d)'
    BY <1>1, <1>6 DEF Goes, Only
  <2>2. d \in Procs /\ (Goes(d) => task[d].dir = d)
    BY Constants, ProcessorFields DEF Goes
  <2> QED
    BY <1>1, <2>1, <2>2 DEF Brings, Settled
<1>8. d \in unseen' \/ d \in blurred \/ Settled(d)'
  <2>1. ASSUME disk[d] = "absent", Settled(d) PROVE Settled(d)'
    <3>1. Recorded(d) => Settled(d)'
      BY <1>6, <2>1 DEF Recorded, Settled
    <3>2. ASSUME NEW q \in Procs, Brings(q, d) PROVE Settled(d)'
      BY <1>6, <1>7, <2>1, <3>2 DEF Brings, Reads, Settled
    <3>3. Purges(d) => Purges(d)'
      BY <1>1, <1>2, <1>3, <1>6 DEF Purges
    <3> QED
      BY <2>1, <3>1, <3>2, <3>3 DEF Settled
  <2>2. task[d].pc = "settling" => Settled(d)'
    BY <1>7 DEF Goes
  <2> QED
    BY <1>1, <1>4, <2>1, <2>2 DEF SInv, DeleteFit, SettledFit
<1> QED
  BY <1>1, <1>2, <1>4, <1>6, <1>8, PlaceSettles

\* Nobody has looked since the anime was deleted.
LEMMA DeleteSettles ==
  ASSUME TInv, PInv, CInv, SInv, NEW r \in Ids, DeleteAnime(r)
  PROVE  SInv'
<1>1. /\ RowDeleted(r) /\ UNCHANGED <<disk, rename, blurred, worker, task>>
      /\ unseen' = unseen \cup {rows[r].dir}
  BY DEF DeleteAnime
<1>2. PICK d \in Dirs : d = rows[r].dir
  BY DEF DeleteAnime, Live, TInv, RowsFit
<1>3. /\ NoEpFit'
      /\ \A x \in Dirs : x # d => eps'[x].row = eps[x].row
      /\ \A x \in Dirs, q \in Ids : x # d =>
           ((rows'[q] # NoRow /\ rows'[q].dir = x) <=> (rows[q] # NoRow /\ rows[q].dir = x))
      /\ \A q \in Ids : rows'[q] # NoRow => q # r /\ rows'[q] = rows[q]
      /\ NoneAt(d) => NoneAt(d)'
  BY <1>1, <1>2, DeletedAt DEF SInv, GoneOrAt
<1>4. worker.pc = "dirs" /\ d \in worker.listed /\ disk[d] = "absent" =>
        Passed(d)' \/ NoneAt(d)' \/ Goes(d)'
  <2>1. Passed(d) => Passed(d)'
    BY <1>1 DEF Passed
  <2>2. Goes(d) => Goes(d)'
    BY <1>1, <1>3 DEF Goes, Only
  <2> QED
    BY <1>3, <2>1, <2>2 DEF SInv, AbsentFit
<1> QED
  BY <1>1, <1>2, <1>3, <1>4, PlaceSettles

-----------------------------------------------------------------------------
(* The worker goes on, and no processor, row or episode changes. *)
LEMMA WorkerSettles ==
  ASSUME SInv, UNCHANGED <<disk, rows, eps, task, rename, blurred>>,
         \A x \in Dirs : x \in unseen => x \in unseen' \/ x \in blurred \/ Settled(x)',
         \A x \in Dirs : Purges(x) => Settled(x)',
         rename.pc = "moved" => unseen' = unseen,
         AbsentFit', TodoFit', DeleteFit'
  PROVE  SInv'
<1>1. \A x : (Recorded(x)' <=> Recorded(x)) /\ (Goes(x)' <=> Goes(x))
  BY DEF Recorded, NoneAt, Goes, Only
<1>2. \A q, x : Brings(q, x)' <=> Brings(q, x)
  BY DEF Brings, Reads, Goes, NoneAt, Only
<1>3. \A x \in Dirs : Settled(x) => Settled(x)'
  BY <1>1, <1>2 DEF Settled
<1>4. SettledFit'
  BY <1>3 DEF SInv, SettledFit
<1>5. SeenFit' /\ RenameSeen' /\ NoEpFit'
  BY DEF SInv, SeenFit, SeenBy, RenameSeen, NoEpFit
<1> QED
  BY <1>4, <1>5 DEF SInv

\* A job begins, up to the listing of the directories.
LEMMA JobSettles ==
  ASSUME TInv, PInv, SInv, TakeJob \/ ScanOnline \/ ScanList
  PROVE  SInv'
<1>1. /\ worker.pc \in {"idle", "online", "list"} /\ task[Scan].pc = "idle"
      /\ UNCHANGED <<disk, rows, eps, task, rename, blurred, unseen>>
  <2>1. worker.pc \in {"idle", "online", "list"}
    BY DEF TakeJob, ScanOnline, ScanList
  <2>2. task[Scan].pc = "idle"
    BY <2>1, EmptyRecords DEF PInv, WorkerFits
  <2> QED
    BY <2>1, <2>2 DEF TakeJob, ScanOnline, ScanList, db, ghost
<1>2. \/ worker'.pc \in {"idle", "online", "apply", "list"}
      \/ /\ worker'.pc = "dirs" /\ worker'.todo \subseteq worker'.listed
         /\ \A x \in worker'.listed : disk[x] # "absent"
  <2>1. CASE TakeJob
    <3>1. CASE worker' = IdleWorker
      BY <3>1, EmptyRecords
    <3>2. CASE worker' = [IdleWorker EXCEPT !.job = ScanJob, !.pc = "online"]
      BY <3>2 DEF IdleWorker
    <3>3. CASE worker' = [IdleWorker EXCEPT !.job = Head(queue), !.pc = "apply"]
      BY <3>3 DEF IdleWorker
    <3> QED
      BY <2>1, <3>1, <3>2, <3>3 DEF TakeJob
  <2>2. CASE ScanOnline
    BY <2>2, EmptyRecords DEF ScanOnline, TInv, TypeOK, WorkerState
  <2>3. CASE ScanList
    <3>1. PICK present : present = {x \in Dirs : disk[x] # "absent"}
      OBVIOUS
    <3>2. worker' = [worker EXCEPT !.pc = "dirs", !.listed = present, !.todo = present] \/ worker' = IdleWorker
      BY <2>3, <3>1 DEF ScanList
    <3>3. \/ worker'.pc = "dirs" /\ worker'.listed = present /\ worker'.todo = present
          \/ worker'.pc = "idle"
      BY <3>2, EmptyRecords DEF TInv, TypeOK, WorkerState
    <3> QED
      BY <3>1, <3>3
  <2> QED
    BY <2>1, <2>2, <2>3
<1>3. AbsentFit'
  BY <1>1, <1>2 DEF AbsentFit
<1>4. TodoFit' /\ DeleteFit'
  BY <1>1, <1>2 DEF TodoFit, DeleteFit
<1>5. \A x \in Dirs : ~Purges(x)
  BY <1>1 DEF Purges
<1> QED
  BY <1>1, <1>3, <1>4, <1>5, WorkerSettles

\* The scan enters the next directory.
LEMMA NextDirSettles ==
  ASSUME TInv, PInv, CInv, SInv, ScanNextDir
  PROVE  SInv'
<1>1. /\ worker.pc = "dirs" /\ task[Scan] = Idle /\ task[Scan].pc = "idle" /\ Scan \in Procs
      /\ UNCHANGED <<disk, rows, eps, rename, unseen, blurred>>
  BY EmptyRecords, Constants DEF ScanNextDir, db, ghost
<1>2. PICK d \in worker.todo :
        /\ d \in Dirs
        /\ \A q \in Procs : q # Scan => task'[q] = task[q]
        /\ task'[Scan].pc = "lookup" /\ task'[Scan].dir = d
        /\ worker' = [worker EXCEPT !.todo = @ \ {d}]
  BY NextDirStep
<1>3. worker'.pc = "dirs" /\ worker'.listed = worker.listed /\ worker'.todo = worker.todo \ {d}
  BY <1>1, <1>2 DEF TInv, TypeOK, WorkerState
<1>4. rename.pc # "moved"
  BY <1>1, AtWork
<1>5. SettledFit'
  <2>1. ASSUME NEW x \in Dirs, x \notin unseen, x \notin blurred
        PROVE  Settled(x)'
    <3>1. Settled(x)
      BY <2>1 DEF SInv, SettledFit
    <3>2. \A q \in Procs : Brings(q, x) => task'[q] = task[q]
      BY <1>1, <1>2, IdleBrings
    <3>3. ~Purges(x)
      BY <1>1 DEF Purges
    <3> QED
      BY <1>1, <2>1, <3>1, <3>2, <3>3, StaysSettled
  <2> QED
    BY <1>1, <2>1 DEF SettledFit
<1>6. SeenFit'
  <2>1. ASSUME NEW q \in Procs PROVE SeenBy(q)'
    <3>1. CASE q = Scan
      BY <1>2, <3>1 DEF SeenBy
    <3>2. CASE q # Scan
      BY <1>1, <1>2, <3>2 DEF SInv, SeenFit, SeenBy
    <3> QED
      BY <3>1, <3>2
  <2> QED
    BY <2>1 DEF SeenFit
<1>7. AbsentFit'
  <2>1. ASSUME NEW x \in worker.listed, disk[x] = "absent"
        PROVE  Passed(x)' \/ NoneAt(x)' \/ Goes(x)'
    <3>1. x \in Procs /\ x # Scan
      BY WorkerFields, Constants
    <3>2. Passed(x) => Passed(x)'
      BY <1>1, <1>2, <1>3 DEF Passed
    <3>3. NoneAt(x) => NoneAt(x)'
      BY <1>1 DEF NoneAt
    <3>4. Goes(x) => Goes(x)'
      BY <1>1, <1>2, <3>1 DEF Goes, Only
    <3> QED
      BY <1>1, <2>1, <3>2, <3>3, <3>4 DEF SInv, AbsentFit
  <2> QED
    BY <1>1, <1>3, <2>1 DEF AbsentFit
<1>8. TodoFit'
  BY <1>1, <1>2, <1>3 DEF SInv, TodoFit
<1>9. DeleteFit' /\ RenameSeen' /\ NoEpFit'
  BY <1>1, <1>3, <1>4 DEF SInv, DeleteFit, RenameSeen, NoEpFit
<1> QED
  BY <1>5, <1>6, <1>7, <1>8, <1>9 DEF SInv

(* The purge selects all rows of the directories that were not listed; of
   those that went since, a listed one has no row or a check that goes. *)
LEMMA SelectSettles ==
  ASSUME TInv, PInv, CInv, SInv, ScanSelect
  PROVE  SInv'
<1>1. /\ worker.pc = "dirs" /\ task[Scan].pc = "idle"
      /\ UNCHANGED <<disk, rows, eps, task, rename, blurred>>
      /\ unseen' = {d \in unseen : disk[d] # "absent"}
  BY EmptyRecords DEF ScanSelect, db
<1>2. PICK rest : rest = {<<r, rows[r].dir>> : r \in {q \in Live : rows[q].dir \notin worker.listed}}
  OBVIOUS
<1>3. worker' = [worker EXCEPT !.pc = "purge", !.listed = {}, !.rest = rest]
  BY <1>2 DEF ScanSelect
<1>4. worker'.pc = "purge" /\ worker'.rest = rest
  BY <1>3 DEF TInv, TypeOK, WorkerState
<1>5. rename.pc # "moved"
  BY <1>1, AtWork
<1>6. ASSUME NEW x \in Dirs, disk[x] = "absent", x \notin blurred
      PROVE  Settled(x)'
  <2>1. CASE x \in worker.listed
    <3>1. NoneAt(x) \/ Goes(x)
      BY <1>1, <1>6, <2>1 DEF SInv, AbsentFit, Passed
    <3>2. CASE NoneAt(x)
      <4>1. Recorded(x)
        BY <1>6, <3>2, NoneRecorded
      <4>2. Recorded(x)'
        BY <1>1, <4>1 DEF Recorded, NoneAt
      <4> QED
        BY <4>2 DEF Settled
    <3>3. CASE Goes(x)
      <4>1. x \in Procs /\ task[x].dir = x
        BY <3>3, Constants, ProcessorFields DEF Goes
      <4>2. Brings(x, x)'
        BY <1>1, <3>3, <4>1 DEF Brings, Goes, Only
      <4> QED
        BY <4>1, <4>2 DEF Settled
    <3> QED
      BY <3>1, <3>2, <3>3
  <2>2. CASE x \notin worker.listed
    <3>1. \A r \in Ids : (rows[r] # NoRow /\ rows[r].dir = x) => <<r, x>> \in rest
      BY <1>2, <2>2 DEF Live
    <3>2. Purges(x)'
      BY <1>1, <1>4, <1>6, <3>1 DEF Purges
    <3> QED
      BY <3>2 DEF Settled
  <2> QED
    BY <2>1, <2>2
<1>7. \A x \in Dirs : x \in unseen => x \in unseen' \/ x \in blurred \/ Settled(x)'
  BY <1>1, <1>6
<1>8. \A x \in Dirs : ~Purges(x)
  BY <1>1 DEF Purges
<1>9. AbsentFit' /\ TodoFit' /\ DeleteFit'
  BY <1>1, <1>4 DEF AbsentFit, TodoFit, DeleteFit
<1> QED
  BY <1>1, <1>5, <1>7, <1>8, <1>9, WorkerSettles

(* A selected row is deleted next, unless its directory is back. *)
LEMMA RecheckSettles ==
  ASSUME TInv, PInv, CInv, SInv, ScanRecheck
  PROVE  SInv'
<1>1. /\ worker.pc = "purge" /\ task[Scan].pc = "idle" /\ online
      /\ UNCHANGED <<disk, rows, eps, task, rename, blurred, unseen>>
  BY EmptyRecords DEF ScanRecheck, PInv, WorkerFits, CInv, WatchedFit, Watched, db, ghost
<1>2. PICK v \in worker.rest :
        worker' = IF online /\ disk[v[2]] # "absent"
                    THEN [worker EXCEPT !.rest = @ \ {v}]
                    ELSE [worker EXCEPT !.pc = "delete", !.rest = @ \ {v},
                                        !.job = [ScanJob EXCEPT !.row = v[1], !.dir = v[2]]]
  BY DEF ScanRecheck
<1>3. PICK j : j = [ScanJob EXCEPT !.row = v[1], !.dir = v[2]]
  OBVIOUS
<1>4. v[1] \in Ids /\ v[2] \in Dirs /\ j.row = v[1] /\ j.dir = v[2]
  BY <1>3, WorkerFields DEF ScanJob
<1>5. \/ worker'.pc = "purge" /\ worker'.rest = worker.rest \ {v} /\ disk[v[2]] # "absent"
      \/ /\ disk[v[2]] = "absent"
         /\ worker'.pc = "delete" /\ worker'.rest = worker.rest \ {v} /\ worker'.job = j
  <2>1. CASE disk[v[2]] # "absent"
    BY <1>1, <1>2, <2>1 DEF TInv, TypeOK, WorkerState
  <2>2. CASE disk[v[2]] = "absent"
    <3>1. worker' = [worker EXCEPT !.pc = "delete", !.rest = @ \ {v}, !.job = j]
      BY <1>2, <1>3, <2>2
    <3> QED
      BY <2>2, <3>1 DEF TInv, TypeOK, WorkerState
  <2> QED
    BY <2>1, <2>2
<1>6. ASSUME NEW x \in Dirs, Purges(x) PROVE Settled(x)'
  <2>1. disk[x] = "absent" /\ \A r \in Ids : (rows[r] # NoRow /\ rows[r].dir = x) => <<r, x>> \in worker.rest
    BY <1>1, <1>6 DEF Purges
  <2>2. \A r \in Ids : <<r, x>> \in worker.rest => <<r, x>> \in worker.rest \ {v} \/ (v[1] = r /\ v[2] = x)
    OBVIOUS
  <2>3. \A r \in Ids : (rows[r] # NoRow /\ rows[r].dir = x) =>
           <<r, x>> \in worker'.rest \/ (worker'.pc = "delete" /\ worker'.job.row = r)
    BY <1>4, <1>5, <2>1, <2>2
  <2>4. Purges(x)'
    BY <1>1, <1>5, <2>1, <2>3 DEF Purges
  <2> QED
    BY <2>4 DEF Settled
<1>7. AbsentFit' /\ TodoFit' /\ DeleteFit'
  BY <1>1, <1>4, <1>5 DEF AbsentFit, TodoFit, DeleteFit
<1> QED
  BY <1>1, <1>6, <1>7, WorkerSettles

LEMMA DoneSettles ==
  ASSUME TInv, PInv, CInv, SInv, ScanDone
  PROVE  SInv'
<1>1. /\ worker.pc = "purge" /\ worker.rest = {} /\ task[Scan].pc = "idle" /\ worker' = IdleWorker
      /\ UNCHANGED <<disk, rows, eps, task, rename, blurred, unseen>>
  BY EmptyRecords DEF ScanDone, PInv, WorkerFits, db, ghost
<1>2. ASSUME NEW x \in Dirs, Purges(x) PROVE Settled(x)'
  <2>1. NoneAt(x) /\ disk[x] # "video"
    BY <1>1, <1>2 DEF Purges, NoneAt
  <2>2. Recorded(x)
    BY <2>1, NoneRecorded
  <2>3. Recorded(x)'
    BY <1>1, <2>2 DEF Recorded, NoneAt
  <2> QED
    BY <2>3 DEF Settled
<1>3. AbsentFit' /\ TodoFit' /\ DeleteFit'
  BY <1>1, EmptyRecords DEF AbsentFit, TodoFit, DeleteFit
<1> QED
  BY <1>1, <1>2, <1>3, WorkerSettles

-----------------------------------------------------------------------------
(* The directories ds change on disk: where the root is watched a check starts
   in each, elsewhere they are unseen or as settled as before.  Rows keep
   their directories, and episodes their rows. *)
LEMMA ToldSettles ==
  ASSUME TInv, PInv, CInv, SInv, NEW ds \in SUBSET Dirs,
         \A p \in Procs : IF Watched /\ p \in ds THEN task'[p] = Settling(p) ELSE task'[p] = task[p],
         \A x \in Dirs : x \notin ds => disk'[x] = disk[x],
         \A x \in Dirs : eps'[x].row = eps[x].row,
         NoEpFit',
         \A x \in Dirs, r \in Ids :
           (rows'[r] # NoRow /\ rows'[r].dir = x) <=> (rows[r] # NoRow /\ rows[r].dir = x),
         worker' = worker \/ (worker' = IdleWorker /\ worker.pc = "apply"),
         unseen \subseteq unseen', blurred \subseteq blurred',
         task[Scan].dir \in ds => task[Scan].dir \in blurred',
         ~Watched => \A x \in ds : x \in unseen' \/ x \in blurred' \/ Settled(x)',
         rename'.pc = "moved" => \A x \in {rename'.from, rename'.to} :
           (x \in ds /\ (Watched \/ x \in unseen')) \/ (rename.pc = "moved" /\ x \in {rename.from, rename.to})
  PROVE  SInv'
<1>1. /\ task'[Scan] = task[Scan] /\ Scan \in Procs /\ Scan \notin ds /\ ds \subseteq Procs
      /\ \A x \in Dirs : x \in Procs /\ x # Scan
  BY Constants
<1>2. ASSUME NEW x \in ds, Watched
      PROVE  /\ task'[x].pc = "settling" /\ task'[x].dir = x
             /\ Goes(x)' /\ Settled(x)'
  <2>1. task'[x] = Settling(x) /\ x \in Procs /\ x \in Dirs
    BY <1>1, <1>2
  <2>2. Settling(x).pc = "settling" /\ Settling(x).dir = x
    BY <2>1, SettlingFields
  <2>3. Goes(x)'
    BY <2>1, <2>2 DEF Goes
  <2>4. Brings(x, x)'
    BY <2>1, <2>2, <2>3 DEF Brings
  <2> QED
    BY <2>1, <2>2, <2>3, <2>4 DEF Settled
<1>3. \A x \in Dirs : (NoneAt(x)' <=> NoneAt(x)) /\ \A r : Only(x, r)' <=> Only(x, r)
  BY DEF NoneAt, Only
<1>4. SettledFit'
  <2>1. ASSUME NEW x \in Dirs, x \notin unseen', x \notin blurred', x \notin ds
        PROVE  Settled(x)'
    <3>1. Settled(x) /\ disk'[x] = disk[x]
      BY <2>1 DEF SInv, SettledFit
    <3>2. ASSUME NEW q \in Procs, Brings(q, x)
          PROVE  /\ task'[q] = task[q]
                 /\ (task[q].pc \in WithRow /\ rows[task[q].row] # NoRow) => rows'[task[q].row] # NoRow
      <4>1. task[q].dir = x /\ task[q].pc # "idle"
        BY <3>2, IdleBrings, BringsHere
      <4>2. task'[q] = task[q]
        BY <2>1, <4>1, <1>1, ProcessorFields
      <4>3. task[q].pc \in WithRow => task[q].row \in Ids /\ GoneOrAt(task[q].row, x)
        BY <4>1, ProcessorFields DEF CInv, ChecksFit, CheckFit
      <4> QED
        BY <4>2, <4>3 DEF GoneOrAt
    <3>3. Purges(x) => UNCHANGED worker
      BY DEF Purges
    <3>4. eps'[x].row = eps[x].row
      BY <2>1
    <3>5. \A r \in Ids : (rows'[r] # NoRow /\ rows'[r].dir = x) <=> (rows[r] # NoRow /\ rows[r].dir = x)
      BY <2>1
    <3> QED
      BY <3>1, <3>2, <3>3, <3>4, <3>5, StaysSettled
  <2> QED
    BY <1>2, <2>1 DEF SettledFit
<1>5. SeenFit'
  <2>1. ASSUME NEW q \in Procs, q # Scan PROVE SeenBy(q)'
    <3>1. CASE task'[q].pc \in {"idle", "settling"}
      BY <3>1 DEF SeenBy
    <3>2. CASE task'[q].pc \notin {"idle", "settling"}
      <4>1. task'[q] = task[q] /\ task[q].pc # "idle"
        BY <1>2, <3>2
      <4>2. Watched /\ task[q].dir = q /\ q \in Dirs
        BY <2>1, <4>1, ProcessorFields DEF CInv, WatchedFit
      <4>3. q \notin ds
        BY <1>2, <3>2, <4>2
      <4>4. SeenBy(q)
        BY DEF SInv, SeenFit
      <4> QED
        BY <2>1, <4>1, <4>2, <4>3, <4>4 DEF SeenBy
    <3> QED
      BY <3>1, <3>2
  <2>2. SeenBy(Scan)'
    <3>1. SeenBy(Scan)
      BY <1>1 DEF SInv, SeenFit
    <3>2. task[Scan].pc # "idle" => task[Scan].dir \in Dirs
      BY <1>1, ProcessorFields
    <3> QED
      BY <1>1, <3>1, <3>2 DEF SeenBy
  <2> QED
    BY <2>1, <2>2 DEF SeenFit
<1>6. AbsentFit'
  <2>1. ASSUME worker'.pc = "dirs", NEW x \in worker'.listed, disk'[x] = "absent"
        PROVE  Passed(x)' \/ NoneAt(x)' \/ Goes(x)'
    <3>1. worker' = worker /\ x \in Dirs /\ Watched
      BY <2>1, WorkerFields, EmptyRecords DEF CInv, WatchedFit
    <3>2. CASE x \notin ds
      <4>1. task'[x] = task[x] /\ disk[x] = "absent"
        BY <1>1, <2>1, <3>1, <3>2
      <4>2. Passed(x) => Passed(x)'
        BY <1>1, <3>1 DEF Passed
      <4>3. Goes(x) => Goes(x)'
        BY <1>3, <3>1, <4>1 DEF Goes
      <4> QED
        BY <1>3, <2>1, <3>1, <4>1, <4>2, <4>3 DEF SInv, AbsentFit
    <3> QED
      BY <1>2, <3>1, <3>2
  <2> QED
    BY <2>1 DEF AbsentFit
<1>7. TodoFit'
  <2>1. task[Scan].pc # "idle" => worker.pc = "dirs"
    BY EmptyRecords DEF PInv, WorkerFits
  <2>2. worker.pc = "dirs" \/ worker'.pc = "dirs" => worker' = worker
    BY EmptyRecords
  <2> QED
    BY <1>1, <2>1, <2>2 DEF SInv, TodoFit
<1>8. DeleteFit'
  <2>1. ASSUME worker'.pc = "delete"
        PROVE  worker'.job.dir \in Dirs /\ (task'[worker'.job.dir].pc = "settling" \/ disk'[worker'.job.dir] = "absent")
    <3>1. worker' = worker /\ Watched
      BY <2>1, EmptyRecords DEF CInv, WatchedFit
    <3>2. worker.job.dir \in Dirs /\ (task[worker.job.dir].pc = "settling" \/ disk[worker.job.dir] = "absent")
      BY <2>1, <3>1 DEF SInv, DeleteFit
    <3>3. CASE worker.job.dir \in ds
      BY <1>2, <3>1, <3>2, <3>3
    <3>4. CASE worker.job.dir \notin ds
      BY <1>1, <3>1, <3>2, <3>4
    <3> QED
      BY <3>3, <3>4
  <2> QED
    BY <2>1 DEF DeleteFit
<1>9. RenameSeen'
  <2>1. ASSUME rename'.pc = "moved", NEW x \in {rename'.from, rename'.to}
        PROVE  x \in unseen' \/ task'[x].pc = "settling"
    <3>1. CASE x \in ds
      <4>1. CASE Watched
        BY <1>2, <3>1, <4>1
      <4>2. CASE ~Watched /\ x \in unseen'
        BY <4>2
      <4>3. CASE ~Watched /\ x \notin unseen'
        <5>1. rename.pc = "moved" /\ x \in {rename.from, rename.to}
          BY <2>1, <4>3
        <5> QED
          BY <1>1, <3>1, <4>3, <5>1 DEF SInv, RenameSeen
      <4> QED
        BY <4>1, <4>2, <4>3
    <3>2. CASE x \notin ds
      <4>1. rename.pc = "moved" /\ x \in {rename.from, rename.to}
        BY <2>1, <3>2
      <4>2. x \in Procs
        BY <1>1, <4>1, EmptyRecords DEF TInv, RenameFit
      <4> QED
        BY <3>2, <4>1, <4>2 DEF SInv, RenameSeen
    <3> QED
      BY <3>1, <3>2
  <2> QED
    BY <2>1 DEF RenameSeen
<1> QED
  BY <1>4, <1>5, <1>6, <1>7, <1>8, <1>9 DEF SInv

\* Who is told.
LEMMA Told ==
  ASSUME TInv, NEW ds \in SUBSET Dirs, task' = IF Watched THEN Restarted(ds) ELSE task
  PROVE  \A p \in Procs : IF Watched /\ p \in ds THEN task'[p] = Settling(p) ELSE task'[p] = task[p]
BY RestartStep DEF TInv, TypeOK

(* Nothing changes but the environment, the queue, jobs that ask for no
   directory, and numbers. *)
LEMMA NothingSettles ==
  ASSUME TInv, PInv, CInv, SInv, UNCHANGED <<disk, task, unseen, blurred>>,
         \A x \in Dirs : eps'[x].row = eps[x].row, NoEpFit',
         \A x \in Dirs, r \in Ids :
           (rows'[r] # NoRow /\ rows'[r].dir = x) <=> (rows[r] # NoRow /\ rows[r].dir = x),
         worker' = worker \/ (worker' = IdleWorker /\ worker.pc = "apply"),
         rename' = rename \/ rename'.pc # "moved"
  PROVE  SInv'
<1>1. PICK ds \in SUBSET Dirs : ds = {}
  OBVIOUS
<1>2. /\ \A p \in Procs : IF Watched /\ p \in ds THEN task'[p] = Settling(p) ELSE task'[p] = task[p]
      /\ ~Watched => \A x \in ds : x \in unseen' \/ x \in blurred' \/ Settled(x)'
      /\ task[Scan].dir \in ds => task[Scan].dir \in blurred'
      /\ rename'.pc = "moved" => \A x \in {rename'.from, rename'.to} :
           (x \in ds /\ (Watched \/ x \in unseen')) \/ (rename.pc = "moved" /\ x \in {rename.from, rename.to})
  BY <1>1
<1> QED
  BY <1>2, ToldSettles

\* The answer of a job may make a directory; without a check of it there is no video.
LEMMA ApplySettles ==
  ASSUME TInv, PInv, CInv, SInv, ApplyAnswer
  PROVE  SInv'
<1>1. /\ worker.pc = "apply" /\ worker.job.row \in Ids /\ worker.job.dir \in Dirs /\ worker' = IdleWorker
      /\ UNCHANGED <<env, eps, rename, ghost>>
  BY EmptyRecords, AnswerStep DEF TInv, JobsFit, JobFit, ApplyAnswer
<1>2. PICK d \in Dirs : d = worker.job.dir
  BY <1>1
<1>3. PICK k \in Ids : k = worker.job.row
  BY <1>1
<1>4. \A r \in Ids : /\ rows[r] = NoRow => rows'[r] = NoRow
                     /\ rows[r] # NoRow => rows'[r].dir = rows[r].dir
  BY <1>1, <1>3, AnswerStep DEF Answered
<1>5. \A x \in Dirs, r \in Ids :
        (rows'[r] # NoRow /\ rows'[r].dir = x) <=> (rows[r] # NoRow /\ rows[r].dir = x)
  BY <1>4, EmptyRecords, Constants DEF TInv, RowsFit
<1>6. task[Scan].dir = NoDir /\ task[Scan].dir \notin Dirs /\ rename.pc # "moved"
  BY <1>1, AtWork, EmptyRecords, Constants DEF PInv, WorkerFits
<1>7. NoEpFit' /\ (\A x \in Dirs : eps'[x].row = eps[x].row) /\ unseen' = unseen /\ blurred' = blurred
      /\ rename' = rename
  BY <1>1 DEF SInv, NoEpFit, ghost
<1>8. CASE disk' = disk /\ task' = task
  BY <1>1, <1>5, <1>7, <1>8, NothingSettles
<1>9. CASE /\ disk' = [disk EXCEPT ![d] = IF @ = "video" THEN @ ELSE "other"]
           /\ task' = IF Watched THEN Restarted({d}) ELSE task
  <2>1. PICK ds \in SUBSET Dirs : ds = {d}
    OBVIOUS
  <2>2. \A p \in Procs : IF Watched /\ p \in ds THEN task'[p] = Settling(p) ELSE task'[p] = task[p]
    <3>1. task' = IF Watched THEN Restarted(ds) ELSE task
      BY <1>9, <2>1
    <3> QED
      BY <3>1, Told
  <2>3. /\ \A x \in Dirs : x \notin ds => disk'[x] = disk[x]
        /\ disk'[d] = "video" <=> disk[d] = "video"
        /\ disk'[d] # "absent"
    BY <1>9, <2>1 DEF TInv, TypeOK
  <2>4. ASSUME ~Watched, d \notin unseen, d \notin blurred PROVE Settled(d)'
    <3>1. \A q \in Procs : ~Brings(q, d)
      BY <2>4, IdleBrings DEF CInv, WatchedFit
    <3>2. ~Purges(d)
      BY <1>1 DEF Purges
    <3>3. Recorded(d)
      BY <2>4, <3>1, <3>2 DEF SInv, SettledFit, Settled
    <3>4. Recorded(d)'
      BY <1>7, <2>3, <3>3 DEF Recorded
    <3> QED
      BY <3>4 DEF Settled
  <2>5. ~Watched => \A x \in ds : x \in unseen' \/ x \in blurred' \/ Settled(x)'
    BY <1>7, <2>1, <2>4
  <2>6. task[Scan].dir \in ds => task[Scan].dir \in blurred'
    BY <1>6
  <2> QED
    BY <1>1, <1>5, <1>6, <1>7, <2>2, <2>3, <2>5, <2>6, ToldSettles
<1> QED
  BY <1>1, <1>2, <1>8, <1>9, AnswerStep

\* Requests queue jobs; a number leaves its episode to its row.
LEMMA RequestsSettle ==
  ASSUME TInv, PInv, CInv, SInv,
         RequestScan \/ EnqueueForRows \/ \E d \in Dirs : CorrectEpisode(d)
  PROVE  SInv'
<1>1. CASE RequestScan \/ EnqueueForRows
  <2>1. UNCHANGED <<disk, task, unseen, blurred, rows, eps, worker, rename>>
    BY <1>1 DEF RequestScan, EnqueueForRows, db, ghost
  <2>2. NoEpFit'
    BY <2>1 DEF SInv, NoEpFit
  <2> QED
    BY <2>1, <2>2, NothingSettles
<1>2. ASSUME NEW d \in Dirs, CorrectEpisode(d) PROVE SInv'
  <2>1. UNCHANGED <<disk, task, unseen, blurred, rows, worker, rename>>
    BY <1>2 DEF CorrectEpisode
  <2>2. /\ eps[d].row # 0
        /\ \A x \in Dirs : eps'[x].row = eps[x].row /\ (x # d => eps'[x] = eps[x])
    BY <1>2, CorrectStep
  <2>3. NoEpFit'
    BY <2>2 DEF SInv, NoEpFit
  <2> QED
    BY <2>1, <2>2, <2>3, NothingSettles
<1> QED
  BY <1>1, <1>2

\* Somebody changes a directory.
LEMMA ChangeSettles ==
  ASSUME TInv, PInv, CInv, SInv, NEW d \in Dirs, DiskChange(d)
  PROVE  SInv'
<1>1. PICK ds \in SUBSET Dirs : ds = {d}
  OBVIOUS
<1>2. Touched(ds) /\ UNCHANGED <<rows, eps, worker, rename>>
  BY <1>1 DEF DiskChange, db
<1>3. \A x \in Dirs : x \notin ds => disk'[x] = disk[x]
  BY <1>1 DEF DiskChange, TInv, TypeOK
<1>4. /\ \A p \in Procs : IF Watched /\ p \in ds THEN task'[p] = Settling(p) ELSE task'[p] = task[p]
      /\ unseen' = IF Watched THEN unseen ELSE unseen \cup ds
      /\ blurred' = blurred \cup (ds \cap {task[Scan].dir})
  BY <1>2, Told DEF Touched
<1>5. NoEpFit'
  BY <1>2 DEF SInv, NoEpFit
<1> QED
  BY <1>2, <1>3, <1>4, <1>5, ToldSettles

\* A rename moves one directory, and nothing is in flight.
LEMMA OnDiskSettles ==
  ASSUME TInv, PInv, CInv, SInv, NEW r \in Ids, NEW to \in Dirs, RenameOnDisk(r, to)
  PROVE  SInv'
<1>1. PICK from \in Dirs : from = rows[r].dir
  BY OnDiskStep
<1>2. /\ \A x \in Dirs : x # from /\ x # to => disk'[x] = disk[x]
      /\ rename'.from = from /\ rename'.to = to
  BY <1>1, OnDiskStep
<1>3. PICK ds \in SUBSET Dirs : ds = {from, to}
  OBVIOUS
<1>4. Touched(ds) /\ UNCHANGED <<rows, eps, worker>>
  BY <1>1, <1>3 DEF RenameOnDisk, db
<1>5. /\ \A p \in Procs : IF Watched /\ p \in ds THEN task'[p] = Settling(p) ELSE task'[p] = task[p]
      /\ unseen' = IF Watched THEN unseen ELSE unseen \cup ds
      /\ blurred' = blurred \cup (ds \cap {task[Scan].dir})
  BY <1>4, Told DEF Touched
<1>6. NoEpFit'
  BY <1>4 DEF SInv, NoEpFit
<1>7. rename'.pc = "moved" => \A x \in {rename'.from, rename'.to} :
        (x \in ds /\ (Watched \/ x \in unseen')) \/ (rename.pc = "moved" /\ x \in {rename.from, rename.to})
  BY <1>2, <1>3, <1>5
<1>8. /\ \A x \in Dirs : x \notin ds => disk'[x] = disk[x]
      /\ ~Watched => \A x \in ds : x \in unseen' \/ x \in blurred' \/ Settled(x)'
  BY <1>2, <1>3, <1>5
<1> QED
  BY <1>4, <1>5, <1>6, <1>7, <1>8, ToldSettles

\* The commit touches two directories that will both be looked at.
LEMMA CommitSettles ==
  ASSUME TInv, PInv, CInv, SInv, RenameCommit
  PROVE  SInv'
<1>1. /\ rename.pc = "moved" /\ rename.to \in Dirs /\ rename.from \in Dirs /\ rename' = NoRename
      /\ UNCHANGED <<disk, worker, task, unseen, blurred>>
  BY CommitStep
<1>2. PICK r \in Ids : r = rename.row
  BY CommitStep
<1>3. /\ worker.pc = "idle" /\ \A p \in Procs : task[p].pc \in {"idle", "settling"}
      /\ rename.from # rename.to /\ GoneOrAt(r, rename.from)
      /\ task[Scan].pc = "idle"
  BY <1>1, <1>2, Constants DEF CInv, RenamesFit, ChecksFit, CheckFit
<1>4. ASSUME UNCHANGED db PROVE SInv'
  <2>1. UNCHANGED <<rows, eps>> /\ NoEpFit'
    BY <1>4 DEF SInv, NoEpFit, db
  <2> QED
    BY <1>1, <2>1, EmptyRecords, NothingSettles
<1>5. ASSUME Committed PROVE SInv'
  <2>1. /\ \A q \in Ids : q # r => rows'[q] = rows[q]
        /\ rows[r] # NoRow /\ rows'[r] # NoRow /\ rows'[r].dir = rename.to
    BY <1>2, <1>5 DEF Committed
  <2>2. /\ \A x \in Dirs : x # rename.from /\ x # rename.to => eps'[x] = eps[x]
        /\ NoEpFit'
    <3>1. eps \in [Dirs -> Episode]
      BY DEF TInv, TypeOK
    <3>2. CASE rename.eps
      <4>1. eps' = [eps EXCEPT ![rename.to] = eps[rename.from], ![rename.from] = NoEp]
        BY <1>5, <3>2 DEF Committed
      <4>2. /\ eps'[rename.from] = NoEp /\ eps'[rename.to] = eps[rename.from]
            /\ \A x \in Dirs : x # rename.from /\ x # rename.to => eps'[x] = eps[x]
        BY <1>1, <1>3, <3>1, <4>1
      <4> QED
        BY <1>1, <4>2 DEF SInv, NoEpFit
    <3>3. CASE ~rename.eps
      BY <1>5, <3>3 DEF Committed, SInv, NoEpFit
    <3> QED
      BY <3>2, <3>3
  <2>3. ASSUME NEW x \in Dirs, x \notin unseen, x \notin blurred PROVE Settled(x)'
    <3>1. CASE x \in {rename.from, rename.to}
      <4>1. x \in Procs /\ task[x].pc = "settling"
        BY <1>1, <2>3, <3>1, Constants DEF SInv, RenameSeen
      <4>2. task[x].dir = x
        BY <2>3, <4>1, Constants, ProcessorFields
      <4>3. Brings(x, x)'
        BY <1>1, <4>1, <4>2 DEF Brings, Goes
      <4> QED
        BY <4>1, <4>3 DEF Settled
    <3>2. CASE x \notin {rename.from, rename.to}
      <4>1. Settled(x)
        BY <2>3 DEF SInv, SettledFit
      <4>2. \A q \in Procs : task[q].pc \notin WithRow
        BY <1>3 DEF WithRow
      <4>3. \A q \in Ids : (rows'[q] # NoRow /\ rows'[q].dir = x) <=> (rows[q] # NoRow /\ rows[q].dir = x)
        BY <1>3, <2>1, <3>2 DEF GoneOrAt
      <4>4. eps'[x].row = eps[x].row /\ disk'[x] = disk[x]
        BY <1>1, <2>2, <3>2
      <4> QED
        BY <1>1, <4>1, <4>2, <4>3, <4>4, StaysSettled
    <3> QED
      BY <3>1, <3>2
  <2>4. SettledFit'
    BY <1>1, <2>3 DEF SettledFit
  <2>5. SeenFit'
    BY <1>1, <1>3 DEF SeenFit, SeenBy
  <2>6. AbsentFit' /\ TodoFit' /\ DeleteFit' /\ RenameSeen'
    BY <1>1, <1>3, EmptyRecords DEF AbsentFit, TodoFit, DeleteFit, RenameSeen
  <2> QED
    BY <2>2, <2>4, <2>5, <2>6 DEF SInv
<1> QED
  BY <1>4, <1>5, CommitStep

\* The share and the process come and go.
LEMMA WorldSettles ==
  ASSUME TInv, PInv, CInv, SInv, World
  PROVE  SInv'
<1>1. CASE ShareDrops \/ ShareReturns \/ Start
  <2>1. UNCHANGED <<disk, task, unseen, blurred, rows, eps, worker, rename>>
    BY <1>1 DEF ShareDrops, ShareReturns, Start, db, ghost
  <2>2. NoEpFit'
    BY <2>1 DEF SInv, NoEpFit
  <2> QED
    BY <2>1, <2>2, NothingSettles
<1>2. CASE Stop
  <2>1. /\ worker' = IdleWorker /\ rename' = NoRename /\ \A p \in Procs : task'[p] = Idle
        /\ unseen' = Dirs /\ UNCHANGED <<disk, eps>>
    BY <1>2 DEF Stop, db
  <2>2. SettledFit' /\ AbsentFit' /\ DeleteFit' /\ RenameSeen' /\ NoEpFit'
    BY <2>1, EmptyRecords DEF SettledFit, AbsentFit, DeleteFit, RenameSeen, NoEpFit, SInv
  <2>3. SeenFit' /\ TodoFit'
    BY <2>1, EmptyRecords, Constants DEF SeenFit, SeenBy, TodoFit
  <2> QED
    BY <2>2, <2>3 DEF SInv
<1> QED
  BY <1>1, <1>2, ChangeSettles DEF World

\* Every step keeps SInv.
LEMMA SettledStep ==
  ASSUME Overlap = {}, TInv, PInv, CInv, SInv, [Next]_vars
  PROVE  SInv'
<1>1. CASE UNCHANGED vars
  <2>1. UNCHANGED <<disk, task, unseen, blurred, rows, eps, worker, rename>>
    BY <1>1 DEF vars, db, ghost
  <2>2. NoEpFit'
    BY <2>1 DEF SInv, NoEpFit
  <2> QED
    BY <2>1, <2>2, NothingSettles
<1>2. CASE Worker
  BY <1>2, JobSettles, NextDirSettles, SelectSettles, RecheckSettles, ScanPurgeSettles, DoneSettles,
     ApplySettles DEF Worker
<1>3. ASSUME NEW p \in Procs, Process(p) PROVE SInv'
  BY <1>3, LookupSettles, ProbeSettles, ReadSettles, CreateSettles, RecordSettles DEF Process
<1>4. ASSUME NEW d \in Dirs, Debounce(d) PROVE SInv'
  BY <1>3, <1>4, SettleSettles, FindGoneSettles, ForgetSettles, Constants DEF Debounce
<1>5. CASE Api
  BY <1>5, RequestsSettle, DeleteSettles, OnDiskSettles, CommitSettles DEF Api
<1>6. CASE World
  BY <1>6, WorldSettles
<1> QED
  BY <1>1, <1>2, <1>3, <1>4, <1>5, <1>6, Constants DEF Next

(* When all is quiet the catalogue matches the disk, for every directory that
   somebody has looked at since it last changed (scanner.py, full_scan_folder
   and _debounce), where renames and outages find nothing in flight. *)
THEOREM QuietIsInSync ==
  ASSUME Overlap = {}
  PROVE  Spec => []InSyncWhenQuiet
<1>1. Init => TInv /\ PInv /\ CInv /\ SInv
  BY TypedInit, WaitingInit, CorrectedInit, SettledInit
<1>2. TInv /\ PInv /\ CInv /\ SInv /\ [Next]_vars => TInv' /\ PInv' /\ CInv' /\ SInv'
  <2>1. "reuse" \notin Overlap
    OBVIOUS
  <2> QED
    BY <2>1, TypedStep, PendingStep, CorrectedStep, SettledStep
<1>3. CInv /\ SInv => InSyncWhenQuiet
  <2>1. ASSUME CInv, SInv, Quiet, NEW d \in Dirs, d \notin unseen, d \notin blurred
        PROVE  InSync(d)
    <3>1. worker = IdleWorker /\ \A p \in Procs : task[p].pc = "idle"
      BY <2>1, EmptyRecords DEF Quiet, AllIdle
    <3>2. Recorded(d)
      <4>1. ~Purges(d)
        BY <3>1, EmptyRecords DEF Purges
      <4>2. \A p \in Procs : ~Brings(p, d)
        BY <3>1, IdleBrings
      <4> QED
        BY <2>1, <4>1, <4>2 DEF SInv, SettledFit, Settled
    <3>3. disk[d] = "video" => \E r \in RowsAt(d) : eps[d].row = r
      BY <2>1, <3>2 DEF Recorded, CInv, EpisodesFit, RowsAt, Live
    <3>4. disk[d] = "absent" => RowsAt(d) = {}
      BY <3>2, NoneThere DEF Recorded
    <3>5. disk[d] # "video" => eps[d] = NoEp
      BY <2>1, <3>2 DEF Recorded, SInv, NoEpFit
    <3> QED
      BY <3>3, <3>4, <3>5 DEF InSync
  <2> QED
    BY <2>1 DEF InSyncWhenQuiet
<1> QED
  BY <1>1, <1>2, <1>3, PTL DEF Spec
=============================================================================
