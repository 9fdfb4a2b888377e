---------------------------- MODULE Downloads_proofs ----------------------------
(***************************************************************************)
(* Proofs about Downloads for every number of requests and folders, every   *)
(* limit and interval: that the files of a download found finished have a   *)
(* scan to come, and, step by step, that the list shows each request as     *)
(* DownloadList promises.                                                   *)
(***************************************************************************)
EXTENDS Downloads, TLAPS

(* The limits are positive; resolving and adding end before a request is
   given up, unpacking before the second scan. *)
LEMMA Limits ==
  /\ NoFolder \notin Folders
  /\ MaxSteps \in Nat \ {0} /\ StepLimit \in Nat \ {0} /\ ResolveLimit \in Nat \ {0}
  /\ AddLimit \in Nat \ {0} /\ GiveUp \in Nat \ {0} /\ CheckInterval \in Nat \ {0}
  /\ LateDelay \in Nat \ {0} /\ RescanInterval \in Nat /\ UnpackTime \in Nat /\ MaxOps \in Nat
  /\ ResolveLimit + AddLimit <= GiveUp /\ UnpackTime < LateDelay
BY DownloadAssumption

(* No request, no job and the watcher asleep have their types. *)
LEMMA NoneTypes ==
  /\ NoRow \in Row /\ NoRow.handover = "none" /\ ~NoRow.dismissed /\ ~NoRow.finished
  /\ NoJob \in Job /\ NoJob.pc = "idle"
  /\ Asleep \in Watcher /\ Asleep.pc = "asleep"
BY Limits DEF NoRow, Row, NoJob, Job, Asleep, Watcher, AnyFolder

(* A timer that counts down stays in its range. *)
LEMMA DownBounds ==
  ASSUME NEW n \in Nat
  PROVE  Down(n) \in Nat /\ Down(n) <= n /\ (n > 0 => Down(n) = n - 1)
BY DEF Down

(* What a hand-over writes at its end leaves folders and dismissal alone. *)
LEMMA ConcludedRow ==
  ASSUME NEW x \in Row, NEW how \in {"sent", "failed"}, NEW handle \in BOOLEAN
  PROVE  /\ Concluded(x, how, handle) \in Row
         /\ Concluded(x, how, handle).handover = how
         /\ Concluded(x, how, handle).lands = x.lands
         /\ Concluded(x, how, handle).folder = x.folder
         /\ Concluded(x, how, handle).dismissed = x.dismissed
<1>1. PICK q : q = [x EXCEPT !.handover = how, !.handle = handle]
  OBVIOUS
<1>2. q \in Row /\ q.handover = how /\ q.lands = x.lands /\ q.folder = x.folder
      /\ q.dismissed = x.dismissed
  BY <1>1 DEF Row
<1> QED
  BY <1>1, <1>2 DEF Concluded

(* Marking a row as finished or as dismissed leaves the hand-over alone. *)
LEMMA MarkedRow ==
  ASSUME NEW x \in Row
  PROVE  /\ [x EXCEPT !.finished = TRUE] \in Row
         /\ [x EXCEPT !.finished = TRUE].handover = x.handover
         /\ [x EXCEPT !.finished = TRUE].lands = x.lands
         /\ [x EXCEPT !.finished = TRUE].folder = x.folder
         /\ [x EXCEPT !.dismissed = TRUE] \in Row
         /\ [x EXCEPT !.dismissed = TRUE].handover = x.handover
         /\ [x EXCEPT !.dismissed = TRUE].lands = x.lands
         /\ [x EXCEPT !.dismissed = TRUE].folder = x.folder
<1>1. PICK q : q = [x EXCEPT !.finished = TRUE]
  OBVIOUS
<1>2. q \in Row /\ q.handover = x.handover /\ q.lands = x.lands /\ q.folder = x.folder
  BY <1>1 DEF Row
<1>3. PICK p : p = [x EXCEPT !.dismissed = TRUE]
  OBVIOUS
<1>4. p \in Row /\ p.handover = x.handover /\ p.lands = x.lands /\ p.folder = x.folder
  BY <1>3 DEF Row
<1> QED
  BY <1>1, <1>2, <1>3, <1>4
-----------------------------------------------------------------------------
(* The inductive invariant: what holds of each request. *)

Clients == {"none", "running", "done", "gone"}

\* A row has the folder its files land in, or none.
RowFits(r) ==
  IF row[r].handover = "none" THEN row[r] = NoRow
  ELSE row[r].lands \in Folders /\ row[r].folder \in {row[r].lands, NoFolder}

\* A job in the background has a row that waits for it, one that has not a row
\* yet; the client gets a link once, from one thread.
JobFits(r) ==
  /\ job[r].pc = "direct" =>
       row[r] = NoRow /\ job[r].lands \in Folders /\ job[r].folder \in {job[r].lands, NoFolder}
  /\ job[r].pc \in {"resolve", "add"} => row[r].handover = "pending"
  /\ job[r].pc = "resolve" => r \notin threads
  /\ job[r].pc = "resolve" \/ r \in threads => client[r] = "none"

\* What is left of the limits of a job ends before its request is given up.
InTime(r) ==
  /\ row[r].handover # "pending" => age[r] = 0
  /\ job[r].pc = "resolve" => age[r] + job[r].total <= ResolveLimit
  /\ job[r].pc = "add" => age[r] + job[r].left <= ResolveLimit + AddLimit

\* The second scan of the folder of r comes, not before m ticks are over.
ScanComes(r, m) ==
  \/ watcher.pc = "report" /\ r \in watcher.reqs
  \/ \E n \in m..LateDelay : <<row[r].lands, n>> \in late

\* A download found finished has a scan for the files that are there, and the
\* second one comes after those still to be unpacked.
Followed(r) ==
  r \in noted =>
    /\ client[r] \in {"done", "gone"} /\ row[r].handover # "none"
    /\ r \in dirty => row[r].lands \in queue \/ ScanComes(r, 0)
    /\ unpack[r] > 0 => ScanComes(r, unpack[r])

IInv == TypeOK /\ \A r \in Reqs : RowFits(r) /\ JobFits(r) /\ InTime(r) /\ Followed(r)

\* A step of one request: its row, age, job, client and thread are all it moves.
OnlyMoves(r, q, a, j, c) ==
  /\ row' = [row EXCEPT ![r] = q] /\ age' = [age EXCEPT ![r] = a]
  /\ job' = [job EXCEPT ![r] = j] /\ client' = [client EXCEPT ![r] = c]
  /\ threads' \in {threads, threads \cup {r}, threads \ {r}}
  /\ UNCHANGED <<configured, unpack, watcher, scans, dirty, noted, ops>>

(* Such a step keeps the invariant if what it leaves is right for the request,
   and nothing changes for one that was found finished. *)
LEMMA OneRequest ==
  ASSUME IInv, NEW r \in Reqs, NEW q \in Row, NEW a \in 0..(GiveUp + 1), NEW j \in Job,
         NEW c \in Clients, OnlyMoves(r, q, a, j, c),
         r \in noted => q.lands = row[r].lands /\ q.handover # "none" /\ c = client[r],
         RowFits(r)', JobFits(r)', InTime(r)'
  PROVE  IInv'
<1> USE DEF OnlyMoves
<1>1. TypeOK'
  BY DEF IInv, TypeOK, Clients, scans
<1>2. /\ row'[r] = q /\ job'[r] = j /\ client'[r] = c
      /\ \A s \in Reqs \ {r} : /\ row'[s] = row[s] /\ job'[s] = job[s] /\ age'[s] = age[s]
                               /\ client'[s] = client[s] /\ (s \in threads' <=> s \in threads)
  BY DEF IInv, TypeOK
<1>3. ASSUME NEW s \in Reqs \ {r} PROVE RowFits(s)' /\ JobFits(s)' /\ InTime(s)'
  BY <1>2 DEF IInv, RowFits, JobFits, InTime
<1>4. ASSUME NEW s \in Reqs PROVE Followed(s)'
  <2>1. s \in noted => row'[s].lands = row[s].lands /\ row'[s].handover # "none"
                       /\ client'[s] = client[s]
    BY <1>2 DEF IInv, Followed
  <2>2. ASSUME s \in noted, NEW m, ScanComes(s, m) PROVE ScanComes(s, m)'
    BY <2>1, <2>2 DEF ScanComes, scans
  <2>3. unpack' = unpack /\ dirty' = dirty /\ noted' = noted /\ queue' = queue
    BY DEF scans
  <2> QED
    BY <2>1, <2>2, <2>3 DEF IInv, Followed
<1> QED
  BY <1>1, <1>3, <1>4 DEF IInv

(* No job: nothing is asked of it. *)
LEMMA IdleFits ==
  ASSUME IInv, NEW r \in Reqs, NEW q \in Row, row'[r] = q, job'[r] = NoJob, age'[r] = 0,
         q.handover # "pending", r \in threads' => client'[r] = "none",
         q = row[r] \/ (q.lands \in Folders /\ q.folder \in {q.lands, NoFolder}
                        /\ q.handover # "none")
  PROVE  RowFits(r)' /\ JobFits(r)' /\ InTime(r)'
<1>1. RowFits(r)'
  BY DEF IInv, RowFits
<1>2. JobFits(r)'
  BY NoneTypes DEF JobFits
<1>3. InTime(r)'
  BY NoneTypes DEF InTime
<1> QED
  BY <1>1, <1>2, <1>3
-----------------------------------------------------------------------------
(* Sending keeps the invariant. *)

LEMMA SendNowStep ==
  ASSUME IInv, NEW r \in Reqs, NEW l \in Folders, NEW f \in {l, NoFolder}, SendNow(r, f, l)
  PROVE  IInv'
<1>0. row[r] = NoRow /\ row[r] \in Row /\ client[r] = "none" /\ age[r] \in 0..(GiveUp + 1)
  BY DEF IInv, TypeOK, SendNow
<1>1. PICK j : j = [NoJob EXCEPT !.pc = "direct", !.left = AddLimit, !.folder = f, !.lands = l]
  OBVIOUS
<1>2. j \in Job /\ j.pc = "direct" /\ j.folder = f /\ j.lands = l
  BY <1>1, Limits, NoneTypes DEF Job, AnyFolder
<1>3. job'[r] = j /\ row' = row /\ age' = age /\ client' = client
  BY <1>1 DEF IInv, TypeOK, rows, world, SendNow
<1>4. r \notin noted
  BY <1>0 DEF IInv, Followed
<1>5. RowFits(r)' /\ JobFits(r)' /\ InTime(r)'
  BY <1>0, <1>2, <1>3 DEF IInv, RowFits, JobFits, InTime, SendNow
<1>6. OnlyMoves(r, row[r], age[r], j, client[r])
  BY <1>1, <1>3 DEF IInv, TypeOK, SendNow, OnlyMoves, world
<1> QED
  BY <1>0, <1>2, <1>4, <1>5, <1>6, OneRequest DEF Clients

LEMMA SendLaterStep ==
  ASSUME IInv, NEW r \in Reqs, NEW l \in Folders, NEW f \in {l, NoFolder}, SendLater(r, f, l)
  PROVE  IInv'
<1>0. row[r] = NoRow /\ client[r] = "none" /\ age[r] \in 0..(GiveUp + 1) /\ r \notin threads
  BY DEF IInv, TypeOK, SendLater
<1>1. PICK j : j = [NoJob EXCEPT !.pc = "resolve", !.left = StepLimit, !.total = ResolveLimit]
  OBVIOUS
<1>2. j \in Job /\ j.pc = "resolve" /\ j.total = ResolveLimit
  <2>1. StepLimit \in Nat /\ ResolveLimit \in 0..ResolveLimit
    BY Limits
  <2> QED
    BY <1>1, <2>1, NoneTypes DEF Job
<1>3. PICK q : q = [NoRow EXCEPT !.handover = "pending", !.folder = f, !.lands = l]
  OBVIOUS
<1>4. q \in Row /\ q.handover = "pending" /\ q.folder = f /\ q.lands = l
  BY <1>3, NoneTypes DEF Row, AnyFolder
<1>5. row'[r] = q /\ job'[r] = j /\ age' = age /\ client' = client /\ threads' = threads
  BY <1>1, <1>3 DEF IInv, TypeOK, world, SendLater
<1>6. age[r] = 0 /\ r \notin noted
  BY <1>0, NoneTypes DEF IInv, InTime, Followed
<1>7. RowFits(r)' /\ JobFits(r)' /\ InTime(r)'
  BY <1>0, <1>2, <1>4, <1>5, <1>6, Limits DEF RowFits, JobFits, InTime
<1>8. OnlyMoves(r, q, age[r], j, client[r])
  BY <1>1, <1>3, <1>5 DEF IInv, TypeOK, SendLater, OnlyMoves, world
<1> QED
  BY <1>0, <1>2, <1>4, <1>6, <1>7, <1>8, OneRequest DEF Clients

(* Another resolver step has the time that is left; the client is asked while
   enough of it is left for the answer. *)
LEMMA ResolvedStep ==
  ASSUME IInv, NEW r \in Reqs, Resolved(r)
  PROVE  IInv'
<1>0. /\ row[r] \in Row /\ job[r] \in Job /\ age[r] \in 0..(GiveUp + 1)
      /\ job[r].pc = "resolve" /\ client[r] = "none" /\ row[r].handover = "pending"
      /\ r \notin threads /\ age[r] + job[r].total <= ResolveLimit /\ r \notin noted
  BY DEF IInv, TypeOK, JobFits, InTime, Followed, Resolved
<1>1. row' = row /\ age' = age /\ client' = client
      /\ UNCHANGED <<configured, unpack, watcher, scans, dirty, noted, ops>>
  BY DEF rows, world, Resolved
<1>2. /\ row' = [row EXCEPT ![r] = row[r]] /\ age' = [age EXCEPT ![r] = age[r]]
      /\ client' = [client EXCEPT ![r] = client[r]] /\ RowFits(r)'
  BY <1>1 DEF IInv, TypeOK, RowFits
<1>3. CASE job[r].steps + 1 < MaxSteps
           /\ job' = [job EXCEPT ![r] = [job[r] EXCEPT !.steps = @ + 1, !.left = StepLimit]]
           /\ UNCHANGED threads
  <2>1. PICK n : n = job[r].steps + 1
    OBVIOUS
  <2>2. n \in 0..MaxSteps
    BY <1>0, <1>3, <2>1, Limits DEF Job
  <2>3. PICK j : j = [job[r] EXCEPT !.steps = n, !.left = StepLimit]
    OBVIOUS
  <2>4. j \in Job /\ j.pc = "resolve" /\ j.total = job[r].total
    BY <1>0, <2>2, <2>3, Limits DEF Job
  <2>5. job' = [job EXCEPT ![r] = j] /\ job'[r] = j
    BY <1>3, <2>1, <2>3 DEF IInv, TypeOK
  <2>6. JobFits(r)' /\ InTime(r)'
    BY <1>0, <1>1, <1>3, <2>4, <2>5 DEF JobFits, InTime
  <2>7. OnlyMoves(r, row[r], age[r], j, client[r])
    BY <1>1, <1>2, <1>3, <2>5 DEF OnlyMoves
  <2> QED
    BY <1>0, <1>2, <2>4, <2>6, <2>7, OneRequest DEF Clients
<1>4. CASE job' = [job EXCEPT ![r] = [NoJob EXCEPT !.pc = "add", !.left = AddLimit]]
           /\ threads' = threads \cup {r}
  <2>1. PICK j : j = [NoJob EXCEPT !.pc = "add", !.left = AddLimit]
    OBVIOUS
  <2>2. j \in Job /\ j.pc = "add" /\ j.left = AddLimit
    BY <2>1, NoneTypes, Limits DEF Job
  <2>3. job' = [job EXCEPT ![r] = j] /\ job'[r] = j
    BY <1>4, <2>1 DEF IInv, TypeOK
  <2>4. age[r] <= ResolveLimit
    BY <1>0, Limits DEF Job
  <2>5. JobFits(r)' /\ InTime(r)'
    BY <1>0, <1>1, <2>2, <2>3, <2>4, Limits DEF JobFits, InTime
  <2>6. OnlyMoves(r, row[r], age[r], j, client[r])
    BY <1>1, <1>2, <1>4, <2>3 DEF OnlyMoves
  <2> QED
    BY <1>0, <1>2, <2>2, <2>5, <2>6, OneRequest DEF Clients
<1> QED
  BY <1>3, <1>4 DEF Resolved

\* What the end of a job leaves as it is.
Beside == <<configured, unpack, watcher, scans, dirty, noted, ops>>

(* A job that fails leaves a row that says so, or none. *)
LEMMA FailedStep ==
  ASSUME IInv, NEW r \in Reqs, Working(r), Failed(r), client' = client,
         threads' \in {threads, threads \ {r}}, UNCHANGED Beside
  PROVE  IInv'
<1>0. /\ row[r] \in Row /\ job[r] \in Job /\ client[r] \in Clients
      /\ job[r].pc \in {"direct", "resolve", "add"} /\ 0 \in 0..(GiveUp + 1)
      /\ (r \in threads => client[r] = "none")
  BY Limits DEF IInv, TypeOK, Clients, Working, Job, JobFits
<1>1. PICK q \in Row : /\ row' = [row EXCEPT ![r] = q]
                       /\ q = IF job[r].pc = "direct" THEN row[r]
                              ELSE Concluded(row[r], "failed", FALSE)
  BY <1>0, ConcludedRow DEF IInv, TypeOK, Failed
<1>2. row'[r] = q /\ job'[r] = NoJob /\ age'[r] = 0 /\ client'[r] = client[r]
  BY <1>1 DEF IInv, TypeOK, Failed
<1>3. OnlyMoves(r, q, 0, NoJob, client[r])
  BY <1>1 DEF IInv, TypeOK, Failed, OnlyMoves, Beside
<1>4. r \in threads' => client'[r] = "none"
  BY <1>0, <1>2
<1>5. CASE job[r].pc = "direct"
  <2>1. q = NoRow /\ q = row[r] /\ q.handover = "none" /\ r \notin noted
    BY <1>1, <1>5, NoneTypes DEF IInv, JobFits, Followed
  <2>2. RowFits(r)' /\ JobFits(r)' /\ InTime(r)'
    BY <1>2, <1>4, <2>1, IdleFits
  <2> QED
    BY <1>0, <1>3, <2>1, <2>2, NoneTypes, OneRequest
<1>6. CASE job[r].pc # "direct"
  <2>1. /\ q.handover = "failed" /\ q.lands = row[r].lands /\ q.folder = row[r].folder
        /\ row[r].handover # "none"
    BY <1>0, <1>1, <1>6, ConcludedRow DEF IInv, JobFits
  <2>2. q.lands \in Folders /\ q.folder \in {q.lands, NoFolder}
    BY <2>1 DEF IInv, RowFits
  <2>3. RowFits(r)' /\ JobFits(r)' /\ InTime(r)'
    BY <1>2, <1>4, <2>1, <2>2, IdleFits
  <2> QED
    BY <1>0, <1>3, <2>1, <2>3, NoneTypes, OneRequest
<1> QED
  BY <1>5, <1>6

LEMMA ResolveFailedStep ==
  ASSUME IInv, NEW r \in Reqs, ResolveFailed(r)
  PROVE  IInv'
BY FailedStep DEF ResolveFailed, Working, world, Beside

LEMMA AddTimedOutStep ==
  ASSUME IInv, NEW r \in Reqs, AddTimedOut(r)
  PROVE  IInv'
BY FailedStep DEF AddTimedOut, Adding, Working, world, Beside

(* A thread that answers a core that does not wait any more. *)
LEMMA LateAnswerStep ==
  ASSUME IInv, NEW r \in Reqs, r \in threads, r \notin threads', NEW c \in Clients, ~Adding(r),
         OnlyMoves(r, row[r], age[r], job[r], c)
  PROVE  IInv'
<1>0. /\ row[r] \in Row /\ job[r] \in Job /\ age[r] \in 0..(GiveUp + 1)
      /\ client[r] = "none" /\ job[r].pc = "idle" /\ r \notin noted
  BY DEF IInv, TypeOK, JobFits, Followed, Adding, Job
<1>1. row' = row /\ age' = age /\ job' = job
  BY DEF IInv, TypeOK, OnlyMoves
<1>2. RowFits(r)' /\ InTime(r)'
  BY <1>0, <1>1 DEF IInv, RowFits, InTime
<1>3. JobFits(r)'
  BY <1>0, <1>1 DEF JobFits
<1> QED
  BY <1>0, <1>2, <1>3, OneRequest

LEMMA ClientRefusesStep ==
  ASSUME IInv, NEW r \in Reqs, ClientRefuses(r)
  PROVE  IInv'
<1>1. CASE Adding(r)
  BY <1>1, FailedStep DEF ClientRefuses, Adding, Working, Beside, world
<1>2. CASE ~Adding(r)
  <2>1. OnlyMoves(r, row[r], age[r], job[r], client[r])
    BY <1>2 DEF IInv, TypeOK, OnlyMoves, ClientRefuses, rows, world
  <2>2. r \in threads /\ r \notin threads' /\ client[r] \in Clients
    BY DEF ClientRefuses, IInv, TypeOK, Clients
  <2> QED
    BY <1>2, <2>1, <2>2, LateAnswerStep
<1> QED
  BY <1>1, <1>2

(* The row of a request the client takes: the one that waited, or a new one. *)
LEMMA TakenRow ==
  ASSUME IInv, NEW r \in Reqs, ClientTakes(r), Adding(r)
  PROVE  \E q \in Row : /\ row' = [row EXCEPT ![r] = q] /\ q.handover = "sent"
                        /\ q.lands \in Folders /\ q.folder \in {q.lands, NoFolder}
                        /\ q.dismissed = row[r].dismissed
<1>0. row[r] \in Row /\ job[r] \in Job /\ job[r].pc \in {"direct", "add"}
  BY DEF IInv, TypeOK, Adding
<1>1. PICK f : f = job[r].folder
  OBVIOUS
<1>2. PICK l : l = job[r].lands
  OBVIOUS
<1>3. PICK handle \in BOOLEAN :
        row' = [row EXCEPT ![r] =
                  IF job[r].pc = "add" THEN Concluded(row[r], "sent", handle)
                  ELSE [NoRow EXCEPT !.handover = "sent", !.handle = handle, !.folder = f, !.lands = l]]
  BY <1>1, <1>2 DEF ClientTakes
<1>4. CASE job[r].pc = "add"
  <2>1. row[r].lands \in Folders /\ row[r].folder \in {row[r].lands, NoFolder}
    BY <1>4 DEF IInv, JobFits, RowFits
  <2>2. row' = [row EXCEPT ![r] = Concluded(row[r], "sent", handle)]
    BY <1>3, <1>4
  <2>3. PICK q : q = Concluded(row[r], "sent", handle)
    OBVIOUS
  <2>4. q \in Row /\ q.handover = "sent" /\ q.lands = row[r].lands /\ q.folder = row[r].folder
        /\ q.dismissed = row[r].dismissed
    BY <1>0, <2>3, ConcludedRow
  <2> QED
    BY <2>1, <2>2, <2>3, <2>4
<1>5. CASE job[r].pc = "direct"
  <2>1. row[r] = NoRow /\ l \in Folders /\ f \in {l, NoFolder}
    BY <1>1, <1>2, <1>5 DEF IInv, JobFits
  <2>2. PICK q : q = [NoRow EXCEPT !.handover = "sent", !.handle = handle, !.folder = f, !.lands = l]
    OBVIOUS
  <2>3. q \in Row /\ q.handover = "sent" /\ q.folder = f /\ q.lands = l
        /\ q.dismissed = NoRow.dismissed
    BY <2>1, <2>2, NoneTypes DEF Row, AnyFolder
  <2>4. row' = [row EXCEPT ![r] = q]
    BY <1>3, <1>5, <2>2
  <2> QED
    BY <2>1, <2>3, <2>4
<1> QED
  BY <1>0, <1>4, <1>5

LEMMA ClientTakesStep ==
  ASSUME IInv, NEW r \in Reqs, ClientTakes(r)
  PROVE  IInv'
<1>0. /\ "running" \in Clients /\ r \in threads /\ r \notin threads'
      /\ threads' = threads \ {r} /\ client' = [client EXCEPT ![r] = "running"]
      /\ UNCHANGED Beside
  BY DEF Clients, ClientTakes, Beside
<1>1. CASE ~Adding(r)
  <2>1. OnlyMoves(r, row[r], age[r], job[r], "running")
    BY <1>0, <1>1 DEF IInv, TypeOK, OnlyMoves, ClientTakes, rows, Beside
  <2> QED
    BY <1>0, <1>1, <2>1, LateAnswerStep
<1>2. CASE Adding(r)
  <2>0. 0 \in 0..(GiveUp + 1) /\ r \notin noted
    BY <1>0, Limits DEF IInv, JobFits, Followed
  <2>1. PICK q \in Row : /\ row' = [row EXCEPT ![r] = q] /\ q.handover = "sent"
                         /\ q.lands \in Folders /\ q.folder \in {q.lands, NoFolder}
    BY <1>2, TakenRow
  <2>2. job' = [job EXCEPT ![r] = NoJob] /\ age' = [age EXCEPT ![r] = 0]
    BY <1>2 DEF ClientTakes
  <2>3. row'[r] = q /\ job'[r] = NoJob /\ age'[r] = 0
    BY <2>1, <2>2 DEF IInv, TypeOK
  <2>4. RowFits(r)' /\ JobFits(r)' /\ InTime(r)'
    BY <1>0, <2>1, <2>3, IdleFits
  <2>5. OnlyMoves(r, q, 0, NoJob, "running")
    BY <1>0, <2>1, <2>2 DEF OnlyMoves, Beside
  <2> QED
    BY <1>0, <2>0, <2>1, <2>4, <2>5, NoneTypes, OneRequest
<1> QED
  BY <1>1, <1>2
-----------------------------------------------------------------------------
(* The watcher and the scans keep the invariant. *)

\* A step that leaves jobs and clients alone, and of each row its hand-over,
\* its folders and whether it is there.
Marks == \A r \in Reqs :
  /\ row'[r].handover = row[r].handover /\ row'[r].lands = row[r].lands
  /\ row'[r].folder = row[r].folder /\ (row[r].handover = "none" => row'[r] = row[r])

(* Such a step does not touch hand-overs. *)
LEMMA MarksKeep ==
  ASSUME IInv, Marks, age' = age, job' = job, threads' = threads,
         \A r \in Reqs : client[r] = "none" => client'[r] = "none"
  PROVE  \A r \in Reqs : RowFits(r)' /\ JobFits(r)' /\ InTime(r)'
<1> SUFFICES ASSUME NEW r \in Reqs PROVE RowFits(r)' /\ JobFits(r)' /\ InTime(r)'
  OBVIOUS
<1>1. RowFits(r)' /\ InTime(r)'
  BY DEF IInv, Marks, RowFits, InTime
<1>2. JobFits(r)'
  <2>1. job[r].pc = "direct" => row[r].handover = "none"
    BY NoneTypes DEF IInv, JobFits
  <2> QED
    BY <2>1 DEF IInv, Marks, JobFits
<1> QED
  BY <1>1, <1>2

(* At the end of a round the watcher is asleep, and its scans are in the queue. *)
LEMMA RoundEndsStep ==
  ASSUME IInv, NEW found \in SUBSET Folders, RoundEnds(found)
  PROVE  /\ watcher' \in Watcher /\ watcher'.pc = "asleep"
         /\ queue' \subseteq Folders /\ queue \subseteq queue' /\ found \subseteq queue'
<1> DEFINE due == RescanInterval > 0 /\ Elapsed >= RescanInterval
           n == IF due \/ RescanInterval = 0 THEN 0 ELSE Elapsed
<1>1. watcher \in Watcher /\ watcher.since \in 0..RescanInterval
  BY DEF IInv, TypeOK, Watcher
<1>2. n \in 0..RescanInterval
  BY <1>1, Limits DEF Elapsed
<1>3. [Asleep EXCEPT !.since = n] \in Watcher /\ [Asleep EXCEPT !.since = n].pc = "asleep"
  <2> HIDE DEF n
  <2> QED
    BY <1>2, NoneTypes DEF Watcher
<1>4. watcher' = [Asleep EXCEPT !.since = n]
      /\ queue' = queue \cup found \cup (IF due THEN Folders ELSE {})
  BY DEF RoundEnds
<1> QED
  BY <1>3, <1>4 DEF IInv, TypeOK

(* A scan that comes still comes after a step that keeps the second scans to
   come, and does not end a report. *)
LEMMA StillComes ==
  ASSUME NEW r \in Reqs, NEW m, ScanComes(r, m), late \subseteq late',
         row'[r].lands = row[r].lands, watcher.pc = "report" => watcher' = watcher
  PROVE  ScanComes(r, m)'
BY DEF ScanComes

(* A download stays followed if nothing new is found of it, and what is to come
   for it still comes. *)
LEMMA StillFollowed ==
  ASSUME IInv, NEW r \in Reqs, r \in noted' => r \in noted,
         row'[r].lands = row[r].lands, row'[r].handover = row[r].handover,
         client[r] \in {"done", "gone"} => client'[r] \in {"done", "gone"},
         late \subseteq late', queue \subseteq queue', dirty' = dirty, unpack' = unpack,
         watcher.pc = "report" => watcher' = watcher
  PROVE  Followed(r)'
<1> SUFFICES ASSUME r \in noted' PROVE Followed(r)'
  BY DEF Followed
<1>1. /\ client'[r] \in {"done", "gone"} /\ row'[r].handover # "none"
      /\ (r \in dirty => row[r].lands \in queue \/ ScanComes(r, 0))
      /\ (unpack[r] > 0 => ScanComes(r, unpack[r]))
  BY DEF IInv, Followed
<1>2. /\ (ScanComes(r, 0) => ScanComes(r, 0)')
      /\ (ScanComes(r, unpack[r]) => ScanComes(r, unpack[r])')
  <2>1. ASSUME NEW m, ScanComes(r, m) PROVE ScanComes(r, m)'
    BY <2>1, StillComes
  <2> QED
    BY <2>1
<1> QED
  BY <1>1, <1>2 DEF Followed

LEMMA CheckBeginsStep ==
  ASSUME IInv, CheckBegins
  PROVE  IInv'
<1> DEFINE pending == {r \in Reqs : Listed(r) /\ ~row[r].finished /\ CanAsk(r)}
<1>1. /\ watcher.pc = "asleep" /\ row' = row /\ age' = age /\ job' = job /\ threads' = threads
      /\ client' = client
      /\ unpack' = unpack /\ UNCHANGED <<configured, late, dirty, noted, ops>>
  BY DEF CheckBegins, rows, add, world
<1>2. watcher' \in Watcher /\ queue' \subseteq Folders /\ queue \subseteq queue'
  <2>1. CASE pending = {}
    BY <2>1, RoundEndsStep DEF CheckBegins
  <2>2. CASE pending # {}
    <3>1. PICK q : q = pending
      OBVIOUS
    <3>2. PICK w : w = [watcher EXCEPT !.pc = "asking", !.reqs = q]
      OBVIOUS
    <3>3. w \in Watcher
      BY <3>1, <3>2 DEF IInv, TypeOK, Watcher
    <3>4. watcher' = w /\ queue' = queue
      BY <2>2, <3>1, <3>2 DEF CheckBegins
    <3> QED
      BY <3>3, <3>4 DEF IInv, TypeOK
  <2> QED
    BY <2>1, <2>2
<1>3. TypeOK'
  BY <1>1, <1>2 DEF IInv, TypeOK
<1>4. \A r \in Reqs : RowFits(r)' /\ JobFits(r)' /\ InTime(r)'
  BY <1>1 DEF IInv, RowFits, JobFits, InTime
<1>5. \A r \in Reqs : Followed(r)'
  BY <1>1, <1>2, StillFollowed
<1> QED
  BY <1>3, <1>4, <1>5 DEF IInv

(* Those the client reports done are marked, and reported next. *)
LEMMA CheckAnsweredStep ==
  ASSUME IInv, CheckAnswered
  PROVE  IInv' /\ Marks
<1>1. /\ watcher.pc = "asking" /\ age' = age /\ job' = job /\ threads' = threads
      /\ client' = client
      /\ unpack' = unpack /\ UNCHANGED <<configured, late, dirty, ops>>
  BY DEF CheckAnswered, add, world
<1>2. PICK done \in SUBSET watcher.reqs :
       /\ Reported(watcher.reqs, done)
       /\ row' = [r \in Reqs |-> IF r \in done THEN [row[r] EXCEPT !.finished = TRUE] ELSE row[r]]
       /\ noted' = noted \cup done
       /\ IF done = {}
            THEN RoundEnds({})
            ELSE watcher' = [watcher EXCEPT !.pc = "report", !.reqs = done] /\ UNCHANGED queue
  BY DEF CheckAnswered
<1>3. /\ watcher \in Watcher /\ done \subseteq Reqs
      /\ \A r \in done : row[r].handover = "sent" /\ client[r] = "done"
  BY <1>2 DEF IInv, TypeOK, Watcher, Reported, CanAsk, IsDone
<1>4. \A r \in Reqs : /\ row'[r] \in Row
                      /\ row'[r].handover = row[r].handover /\ row'[r].lands = row[r].lands
                      /\ row'[r].folder = row[r].folder
                      /\ (row'[r] = row[r] \/ row[r].handover = "sent")
  <2> SUFFICES ASSUME NEW r \in Reqs
               PROVE  /\ row'[r] \in Row
                      /\ row'[r].handover = row[r].handover /\ row'[r].lands = row[r].lands
                      /\ row'[r].folder = row[r].folder
                      /\ (row'[r] = row[r] \/ row[r].handover = "sent")
    OBVIOUS
  <2>1. row[r] \in Row
    BY DEF IInv, TypeOK
  <2>2. CASE r \in done
    BY <1>2, <1>3, <2>1, <2>2, MarkedRow
  <2>3. CASE r \notin done
    BY <1>2, <2>1, <2>3
  <2> QED
    BY <2>2, <2>3
<1>5. Marks
  BY <1>4 DEF Marks
<1>6. /\ watcher' \in Watcher /\ queue' \subseteq Folders /\ queue \subseteq queue'
      /\ (done # {} => watcher'.pc = "report" /\ watcher'.reqs = done)
  <2>1. CASE done = {}
    BY <1>2, <2>1, RoundEndsStep
  <2>2. CASE done # {}
    <3>1. PICK w : w = [watcher EXCEPT !.pc = "report", !.reqs = done]
      OBVIOUS
    <3>2. w \in Watcher /\ w.pc = "report" /\ w.reqs = done
      BY <1>3, <3>1 DEF Watcher
    <3> QED
      BY <1>2, <2>2, <3>1, <3>2 DEF IInv, TypeOK
  <2> QED
    BY <2>1, <2>2
<1>7. TypeOK'
  <2>1. row' \in [Reqs -> Row]
    BY <1>2, <1>4
  <2> QED
    BY <1>1, <1>2, <1>3, <1>6, <2>1 DEF IInv, TypeOK
<1>8. \A r \in Reqs : RowFits(r)' /\ JobFits(r)' /\ InTime(r)'
  BY <1>1, <1>5, MarksKeep
<1>9. \A r \in Reqs : Followed(r)'
  <2>1. ASSUME NEW r \in done PROVE Followed(r)'
    <3>1. r \in Reqs /\ client'[r] = "done" /\ row'[r].handover = "sent"
          /\ watcher'.pc = "report" /\ r \in watcher'.reqs
      BY <1>1, <1>3, <1>4, <1>6
    <3> QED
      BY <3>1 DEF Followed, ScanComes
  <2>2. ASSUME NEW r \in Reqs, r \notin done PROVE Followed(r)'
    BY <1>1, <1>2, <1>4, <1>6, <2>2, StillFollowed
  <2> QED
    BY <2>1, <2>2
<1> QED
  BY <1>5, <1>7, <1>8, <1>9 DEF IInv

(* The folder the files of a row land in is among those scanned for it. *)
LEMMA ScannedFolders ==
  ASSUME IInv, NEW done \in SUBSET Reqs
  PROVE  /\ ToScan(done) \subseteq Folders
         /\ \A r \in done : row[r].handover # "none" => row[r].lands \in ToScan(done)
<1>1. \A r \in Reqs : row[r] \in Row /\ row[r].folder \in Folders \cup {NoFolder}
  BY DEF IInv, TypeOK, Row, AnyFolder
<1>2. \A r \in Reqs : row[r].handover # "none" =>
        row[r].lands \in Folders /\ row[r].folder \in {row[r].lands, NoFolder}
  BY DEF IInv, RowFits
<1>3. CASE \A r \in done : row[r].folder # NoFolder
  BY <1>1, <1>2, <1>3 DEF ToScan
<1>4. CASE ~(\A r \in done : row[r].folder # NoFolder)
  BY <1>1, <1>2, <1>4 DEF ToScan
<1> QED
  BY <1>3, <1>4

LEMMA CheckReportsStep ==
  ASSUME IInv, CheckReports
  PROVE  IInv'
<1> DEFINE done == watcher.reqs
           fs == ToScan(watcher.reqs)
<1>1. /\ watcher.pc = "report" /\ row' = row /\ age' = age /\ job' = job /\ threads' = threads
      /\ client' = client
      /\ unpack' = unpack /\ UNCHANGED <<configured, dirty, noted, ops>>
      /\ late' = late \cup (fs \X {LateDelay}) /\ RoundEnds(fs)
  BY DEF CheckReports, rows, add, world
<1>2. done \subseteq Reqs /\ watcher \in Watcher
  BY DEF IInv, TypeOK, Watcher
<1>3. /\ fs \subseteq Folders
      /\ \A r \in done : row[r].handover # "none" => row[r].lands \in fs
  BY <1>2, ScannedFolders
<1>4. watcher' \in Watcher /\ queue' \subseteq Folders /\ queue \subseteq queue' /\ fs \subseteq queue'
  BY <1>1, <1>3, RoundEndsStep
<1>5. late' \subseteq Folders \X (0..LateDelay)
  BY <1>1, <1>3, Limits DEF IInv, TypeOK
<1>6. TypeOK'
  BY <1>1, <1>4, <1>5 DEF IInv, TypeOK
<1>7. \A r \in Reqs : RowFits(r)' /\ JobFits(r)' /\ InTime(r)'
  BY <1>1 DEF IInv, RowFits, JobFits, InTime
<1>8. ASSUME NEW r \in Reqs, r \in noted PROVE Followed(r)'
  <2>0. /\ client[r] \in {"done", "gone"} /\ row[r].handover # "none"
        /\ (r \in dirty => row[r].lands \in queue \/ ScanComes(r, 0))
        /\ (unpack[r] > 0 => ScanComes(r, unpack[r]))
        /\ unpack[r] \in 0..UnpackTime
    BY <1>8 DEF IInv, Followed, TypeOK
  <2>1. CASE r \in done
    <3>1. row[r].lands \in fs
      BY <1>3, <2>0, <2>1
    <3>2. <<row[r].lands, LateDelay>> \in late' /\ row[r].lands \in queue'
      BY <1>1, <1>4, <3>1
    <3>3. LateDelay \in unpack[r]..LateDelay
      BY <2>0, Limits
    <3>4. ScanComes(r, unpack[r])'
      BY <1>1, <3>2, <3>3 DEF ScanComes
    <3> QED
      BY <1>1, <2>0, <3>2, <3>4 DEF Followed
  <2>2. CASE r \notin done
    <3>1. \A m : ScanComes(r, m) => ScanComes(r, m)'
      BY <1>1, <2>2 DEF ScanComes
    <3> QED
      BY <1>1, <1>4, <2>0, <3>1 DEF Followed
  <2> QED
    BY <2>1, <2>2
<1>9. \A r \in Reqs : Followed(r)'
  BY <1>1, <1>8 DEF Followed
<1> QED
  BY <1>6, <1>7, <1>9 DEF IInv

LEMMA LateRescanStep ==
  ASSUME IInv, LateRescan
  PROVE  IInv'
<1>1. /\ row' = row /\ age' = age /\ job' = job /\ threads' = threads /\ client' = client
      /\ unpack' = unpack /\ UNCHANGED <<configured, watcher, dirty, noted, ops>>
  BY DEF LateRescan, rows, add, world
<1>2. PICK f \in Folders : /\ <<f, 0>> \in late /\ late' = late \ {<<f, 0>>}
                          /\ queue' = queue \cup {f}
  BY DEF LateRescan
<1>3. TypeOK'
  BY <1>1, <1>2 DEF IInv, TypeOK
<1>4. \A r \in Reqs : RowFits(r)' /\ JobFits(r)' /\ InTime(r)'
  BY <1>1 DEF IInv, RowFits, JobFits, InTime
<1>5. ASSUME NEW r \in Reqs, r \in noted PROVE Followed(r)'
  <2>0. /\ client[r] \in {"done", "gone"} /\ row[r].handover # "none"
        /\ (r \in dirty => row[r].lands \in queue \/ ScanComes(r, 0))
        /\ (unpack[r] > 0 => ScanComes(r, unpack[r]))
        /\ unpack[r] \in Nat
    BY <1>5, Limits DEF IInv, Followed, TypeOK
  <2>1. ScanComes(r, 0) => ScanComes(r, 0)' \/ row[r].lands \in queue'
    BY <1>1, <1>2 DEF ScanComes
  <2>2. unpack[r] > 0 /\ ScanComes(r, unpack[r]) => ScanComes(r, unpack[r])'
    <3>1. \A n \in unpack[r]..LateDelay : unpack[r] > 0 => <<row[r].lands, n>> # <<f, 0>>
      BY <2>0
    <3> QED
      BY <1>1, <1>2, <3>1 DEF ScanComes
  <2> QED
    BY <1>1, <1>2, <2>0, <2>1, <2>2 DEF Followed
<1>6. \A r \in Reqs : Followed(r)'
  BY <1>1, <1>5 DEF Followed
<1> QED
  BY <1>3, <1>4, <1>6 DEF IInv

LEMMA ScanFolderStep ==
  ASSUME IInv, NEW f \in Folders, ScanFolder(f)
  PROVE  IInv'
<1>1. /\ row' = row /\ age' = age /\ job' = job /\ threads' = threads /\ client' = client
      /\ unpack' = unpack /\ UNCHANGED <<configured, watcher, late, noted, ops>>
      /\ queue' = queue \ {f} /\ dirty' = {r \in dirty : row[r].lands # f}
  BY DEF ScanFolder, rows, add, world
<1>2. TypeOK'
  BY <1>1 DEF IInv, TypeOK
<1>3. \A r \in Reqs : RowFits(r)' /\ JobFits(r)' /\ InTime(r)'
  BY <1>1 DEF IInv, RowFits, JobFits, InTime
<1>4. ASSUME NEW r \in Reqs PROVE Followed(r)'
  BY <1>1 DEF IInv, Followed, ScanComes
<1> QED
  BY <1>2, <1>3, <1>4 DEF IInv

LEMMA ClearFinishedStep ==
  ASSUME IInv, ClearFinished
  PROVE  IInv' /\ Marks
<1>1. /\ age' = age /\ job' = job /\ threads' = threads /\ unpack' = unpack
      /\ UNCHANGED <<configured, watcher, late, queue, dirty, noted>> /\ ops' \in 0..MaxOps
  BY Limits DEF ClearFinished, add, scans, Operation, IInv, TypeOK
<1>2. PICK done \in SUBSET {r \in Reqs : Listed(r)} :
        /\ Reported({r \in Reqs : Listed(r)}, done)
        /\ row' = [r \in Reqs |-> IF r \in done THEN [row[r] EXCEPT !.dismissed = TRUE] ELSE row[r]]
        /\ \E removed \in SUBSET done :
             client' = [r \in Reqs |-> IF r \in removed THEN "gone" ELSE client[r]]
  BY DEF ClearFinished
<1>3. \A r \in done : r \in Reqs /\ row[r].handover = "sent" /\ client[r] = "done"
  BY <1>2 DEF Reported, CanAsk, IsDone
<1>4. \A r \in Reqs : /\ row'[r] \in Row
                      /\ row'[r].handover = row[r].handover /\ row'[r].lands = row[r].lands
                      /\ row'[r].folder = row[r].folder
                      /\ (row'[r] = row[r] \/ row[r].handover = "sent")
  <2> SUFFICES ASSUME NEW r \in Reqs
               PROVE  /\ row'[r] \in Row
                      /\ row'[r].handover = row[r].handover /\ row'[r].lands = row[r].lands
                      /\ row'[r].folder = row[r].folder
                      /\ (row'[r] = row[r] \/ row[r].handover = "sent")
    OBVIOUS
  <2>1. row[r] \in Row
    BY DEF IInv, TypeOK
  <2>2. CASE r \in done
    BY <1>2, <1>3, <2>1, <2>2, MarkedRow
  <2>3. CASE r \notin done
    BY <1>2, <2>1, <2>3
  <2> QED
    BY <2>2, <2>3
<1>5. Marks
  BY <1>4 DEF Marks
<1>6. \A r \in Reqs : /\ client'[r] \in Clients /\ (client[r] = "none" => client'[r] = "none")
                      /\ (client[r] \in {"done", "gone"} => client'[r] \in {"done", "gone"})
  BY <1>2, <1>3 DEF IInv, TypeOK, Clients
<1>7. TypeOK'
  <2>1. row' \in [Reqs -> Row] /\ client' \in [Reqs -> Clients]
    BY <1>2, <1>4, <1>6
  <2> QED
    BY <1>1, <2>1 DEF IInv, TypeOK, Clients
<1>8. \A r \in Reqs : RowFits(r)' /\ JobFits(r)' /\ InTime(r)'
  BY <1>1, <1>5, <1>6, MarksKeep
<1>9. \A r \in Reqs : Followed(r)'
  BY <1>1, <1>4, <1>6, StillFollowed
<1> QED
  BY <1>5, <1>7, <1>8, <1>9 DEF IInv

LEMMA DismissStep ==
  ASSUME IInv, NEW r \in Reqs, Dismiss(r)
  PROVE  IInv' /\ Marks
<1>1. /\ age' = age /\ job' = job /\ threads' = threads /\ unpack' = unpack /\ client' = client
      /\ UNCHANGED <<configured, watcher, late, queue, dirty, noted>> /\ ops' \in 0..MaxOps
  BY Limits DEF Dismiss, add, scans, world, Operation, IInv, TypeOK
<1>2. row' = [row EXCEPT ![r] = [row[r] EXCEPT !.dismissed = TRUE]] /\ row[r].handover # "none"
  BY DEF Dismiss, IInv, RowFits
<1>3. \A s \in Reqs : /\ row'[s] \in Row
                      /\ row'[s].handover = row[s].handover /\ row'[s].lands = row[s].lands
                      /\ row'[s].folder = row[s].folder
                      /\ (row'[s] = row[s] \/ row[s].handover # "none")
  <2>1. \A s \in Reqs : row[s] \in Row
    BY DEF IInv, TypeOK
  <2>2. PICK q : q = [row[r] EXCEPT !.dismissed = TRUE]
    OBVIOUS
  <2>3. row'[r] = q /\ \A s \in Reqs \ {r} : row'[s] = row[s]
    BY <1>2, <2>2 DEF IInv, TypeOK
  <2>4. q \in Row /\ q.handover = row[r].handover /\ q.lands = row[r].lands
        /\ q.folder = row[r].folder
    BY <2>1, <2>2, MarkedRow
  <2> QED
    BY <1>2, <2>1, <2>3, <2>4
<1>4. Marks
  BY <1>3 DEF Marks
<1>5. TypeOK'
  <2>1. row' \in [Reqs -> Row]
    BY <1>2, <1>3 DEF IInv, TypeOK
  <2> QED
    BY <1>1, <2>1 DEF IInv, TypeOK
<1>6. \A s \in Reqs : RowFits(s)' /\ JobFits(s)' /\ InTime(s)'
  BY <1>1, <1>4, MarksKeep
<1>7. \A s \in Reqs : Followed(s)'
  BY <1>1, <1>3, StillFollowed
<1> QED
  BY <1>4, <1>5, <1>6, <1>7 DEF IInv

LEMMA DeleteIntegrationStep ==
  ASSUME IInv, DeleteIntegration
  PROVE  IInv'
<1>1. /\ row' = row /\ age' = age /\ job' = job /\ threads' = threads /\ client' = client
      /\ unpack' = unpack /\ UNCHANGED <<watcher, late, queue, dirty, noted>>
      /\ ops' \in 0..MaxOps /\ configured' \in BOOLEAN
  <2>1. ops' \in 0..MaxOps
    BY Limits DEF DeleteIntegration, Operation, IInv, TypeOK
  <2> QED
    BY <2>1 DEF DeleteIntegration, rows, add, world, scans
<1>2. TypeOK'
  BY <1>1 DEF IInv, TypeOK
<1>3. \A r \in Reqs : RowFits(r)' /\ JobFits(r)' /\ InTime(r)' /\ Followed(r)'
  BY <1>1 DEF IInv, RowFits, JobFits, InTime, Followed, ScanComes
<1> QED
  BY <1>2, <1>3 DEF IInv

(* A download is not found finished before its client is done. *)
LEMMA ClientDoneStep ==
  ASSUME IInv, NEW r \in Reqs, ClientDone(r)
  PROVE  IInv'
<1>1. /\ row' = row /\ age' = age /\ job' = job /\ threads' = threads
      /\ UNCHANGED <<configured, watcher, late, queue, noted, ops>>
      /\ client[r] = "running" /\ client' = [client EXCEPT ![r] = "done"]
      /\ unpack' = [unpack EXCEPT ![r] = UnpackTime] /\ dirty' = dirty \cup {r}
  BY DEF ClientDone, rows, add, scans
<1>2. TypeOK'
  BY <1>1, Limits DEF IInv, TypeOK
<1>3. r \notin noted /\ \A s \in Reqs \ {r} : client'[s] = client[s] /\ unpack'[s] = unpack[s]
  BY <1>1 DEF IInv, TypeOK, Followed
<1>4. \A s \in Reqs : RowFits(s)' /\ JobFits(s)' /\ InTime(s)'
  BY <1>1, <1>3 DEF IInv, RowFits, JobFits, InTime
<1>5. \A s \in Reqs : Followed(s)'
  BY <1>1, <1>3 DEF IInv, Followed, ScanComes
<1> QED
  BY <1>2, <1>4, <1>5 DEF IInv

(* What is unpacked later has the second scan to come. *)
LEMMA ClientUnpacksStep ==
  ASSUME IInv, NEW r \in Reqs, ClientUnpacks(r)
  PROVE  IInv'
<1>1. /\ row' = row /\ age' = age /\ job' = job /\ threads' = threads /\ client' = client
      /\ UNCHANGED <<configured, watcher, late, queue, noted, ops>>
      /\ unpack[r] > 0 /\ unpack' = [unpack EXCEPT ![r] = 0] /\ dirty' = dirty \cup {r}
  BY DEF ClientUnpacks, rows, add, scans
<1>2. TypeOK'
  BY <1>1, Limits DEF IInv, TypeOK
<1>3. \A s \in Reqs : RowFits(s)' /\ JobFits(s)' /\ InTime(s)'
  BY <1>1 DEF IInv, RowFits, JobFits, InTime
<1>4. Followed(r)'
  <2>0. unpack[r] \in Nat /\ unpack'[r] = 0
    BY <1>1, Limits DEF IInv, TypeOK
  <2>1. r \in noted => ScanComes(r, unpack[r]) /\ client[r] \in {"done", "gone"}
                       /\ row[r].handover # "none"
    BY <1>1 DEF IInv, Followed
  <2>2. ScanComes(r, unpack[r]) => ScanComes(r, 0)'
    BY <1>1, <2>0 DEF ScanComes
  <2> QED
    BY <1>1, <2>0, <2>1, <2>2 DEF Followed
<1>5. \A s \in Reqs \ {r} : Followed(s)'
  BY <1>1 DEF IInv, TypeOK, Followed, ScanComes
<1> QED
  BY <1>2, <1>3, <1>4, <1>5 DEF IInv

(* Nothing survives a restart that could still hand over a request. *)
LEMMA RestartStep ==
  ASSUME IInv, Restart
  PROVE  IInv'
<1>1. /\ row' = row /\ age' = age /\ job' = [r \in Reqs |-> NoJob] /\ threads' = {}
      /\ UNCHANGED <<configured, unpack, dirty>> /\ ops' \in 0..MaxOps
      /\ watcher' = Asleep /\ late' = {} /\ noted' = {} /\ queue' = Folders
      /\ client' \in [Reqs -> Clients]
  BY Limits DEF Restart, rows, Operation, IInv, TypeOK, Clients
<1>2. TypeOK'
  BY <1>1, NoneTypes DEF IInv, TypeOK, Clients
<1>3. \A r \in Reqs : job'[r].pc = "idle" /\ row'[r] = row[r] /\ age'[r] = age[r]
  BY <1>1, NoneTypes
<1>4. \A r \in Reqs : RowFits(r)' /\ JobFits(r)' /\ InTime(r)' /\ Followed(r)'
  BY <1>1, <1>3 DEF IInv, RowFits, JobFits, InTime, Followed
<1> QED
  BY <1>2, <1>4 DEF IInv

(* What a tick does to a job: it has one tick less. *)
LEMMA TickJob ==
  ASSUME IInv, Tick, NEW r \in Reqs
  PROVE  /\ job'[r] \in Job /\ job'[r].pc = job[r].pc /\ job'[r].folder = job[r].folder
         /\ job'[r].lands = job[r].lands
         /\ job'[r].left = Down(job[r].left) /\ job'[r].total = Down(job[r].total)
<1>0. job[r] \in Job
  BY DEF IInv, TypeOK
<1>1. PICK m : m = Down(job[r].left)
  OBVIOUS
<1>2. PICK n : n = Down(job[r].total)
  OBVIOUS
<1>3. PICK j : j = [job[r] EXCEPT !.left = m, !.total = n]
  OBVIOUS
<1>4. m \in Nat /\ n \in 0..ResolveLimit
  BY <1>0, <1>1, <1>2, Limits DEF Job, Down
<1>5. j \in Job /\ j.pc = job[r].pc /\ j.folder = job[r].folder /\ j.lands = job[r].lands
      /\ j.left = m /\ j.total = n
  BY <1>0, <1>3, <1>4 DEF Job
<1>6. job'[r] = j
  BY <1>1, <1>2, <1>3 DEF Tick
<1> QED
  BY <1>1, <1>2, <1>5, <1>6

(* A tick takes from a limit what it adds to the age, and as much from what is
   to be unpacked as from the second scan. *)
LEMMA TickStep ==
  ASSUME IInv, Tick
  PROVE  IInv'
<1>1. /\ row' = row /\ threads' = threads /\ client' = client /\ Prompt
      /\ UNCHANGED <<configured, queue, dirty, noted, ops>>
      /\ age' = [r \in Reqs |-> IF row[r].handover = "pending" /\ age[r] <= GiveUp
                                  THEN age[r] + 1 ELSE age[r]]
      /\ unpack' = [r \in Reqs |-> Down(unpack[r])]
      /\ watcher' = [watcher EXCEPT !.left = Down(watcher.left)]
      /\ late' = {<<v[1], Down(v[2])>> : v \in late}
  BY DEF Tick
<1>2. /\ watcher \in Watcher /\ watcher.pc = "asleep" /\ watcher.left \in 0..CheckInterval
      /\ watcher.left \in Nat
  BY <1>1, Limits DEF Prompt, IInv, TypeOK, Watcher
<1>3. watcher' \in Watcher
  <2>1. Down(watcher.left) \in 0..CheckInterval
    BY <1>2, Limits DEF Down
  <2> QED
    BY <1>1, <1>2, <2>1 DEF Watcher
<1>4. late' \subseteq Folders \X (0..LateDelay)
  <2>1. \A v \in late : v[1] \in Folders /\ v[2] \in 0..LateDelay
    BY DEF IInv, TypeOK
  <2>2. \A v \in late : Down(v[2]) \in 0..LateDelay
    BY <2>1, Limits DEF Down
  <2> QED
    BY <1>1, <2>1, <2>2
<1>5. age' \in [Reqs -> 0..(GiveUp + 1)] /\ unpack' \in [Reqs -> 0..UnpackTime]
  BY <1>1, Limits DEF IInv, TypeOK, Down
<1>6. job' \in [Reqs -> Job]
  <2>1. \A r \in Reqs : job'[r] \in Job
    BY TickJob
  <2>2. job' = [r \in Reqs |-> job'[r]]
    BY DEF Tick
  <2> QED
    BY <2>1, <2>2
<1>7. TypeOK'
  BY <1>1, <1>3, <1>4, <1>5, <1>6 DEF IInv, TypeOK
<1>8. ASSUME NEW r \in Reqs PROVE RowFits(r)' /\ JobFits(r)'
  BY <1>1, TickJob DEF IInv, RowFits, JobFits
<1>9. ASSUME NEW r \in Reqs PROVE InTime(r)'
  <2>0. /\ job[r].left \in Nat /\ job[r].total \in Nat /\ age[r] \in Nat
        /\ (job[r].pc = "resolve" => job[r].total > 0)
        /\ (job[r].pc = "add" => job[r].left > 0)
    <3>1. job[r] \in Job /\ age[r] \in 0..(GiveUp + 1)
      BY DEF IInv, TypeOK
    <3> QED
      BY <1>1, <3>1, Limits DEF Prompt, Working, Job
  <2>1. job[r].pc = "resolve" => job'[r].total = job[r].total - 1
    BY <2>0, TickJob, DownBounds
  <2>2. job[r].pc = "add" => job'[r].left = job[r].left - 1
    BY <2>0, TickJob, DownBounds
  <2>3. age'[r] \in {age[r], age[r] + 1} /\ (row[r].handover # "pending" => age'[r] = age[r])
    BY <1>1
  <2> QED
    BY <1>1, <2>0, <2>1, <2>2, <2>3, TickJob, Limits DEF IInv, InTime
<1>10. ASSUME NEW r \in Reqs, r \in noted PROVE Followed(r)'
  <2>0. /\ client[r] \in {"done", "gone"} /\ row[r].handover # "none"
        /\ (r \in dirty => row[r].lands \in queue \/ ScanComes(r, 0))
        /\ (unpack[r] > 0 => ScanComes(r, unpack[r]))
        /\ unpack[r] \in Nat
    BY <1>10, Limits DEF IInv, Followed, TypeOK
  <2>1. ASSUME NEW m \in Nat, ScanComes(r, m) PROVE ScanComes(r, Down(m))'
    <3>1. PICK n \in m..LateDelay : <<row[r].lands, n>> \in late
      BY <1>2, <2>1 DEF ScanComes
    <3>2. Down(n) \in Down(m)..LateDelay /\ <<row[r].lands, Down(n)>> \in late'
      BY <1>1, <2>1, <3>1, Limits DEF Down
    <3> QED
      BY <1>1, <3>2 DEF ScanComes
  <2>2. ScanComes(r, 0) => ScanComes(r, 0)'
    BY <2>1 DEF Down
  <2>3. PICK m \in Nat : m = unpack[r]
    BY <2>0
  <2>4. unpack'[r] = Down(m) /\ (unpack'[r] > 0 => m > 0)
    BY <1>1, <2>3, DownBounds
  <2>5. unpack'[r] > 0 => ScanComes(r, unpack[r])'
    <3>1. unpack'[r] > 0 => ScanComes(r, Down(m))'
      BY <2>0, <2>1, <2>3, <2>4
    <3> QED
      BY <2>4, <3>1 DEF ScanComes
  <2> QED
    BY <1>1, <2>0, <2>2, <2>5 DEF Followed
<1>11. \A r \in Reqs : Followed(r)'
  BY <1>1, <1>10 DEF Followed
<1> QED
  BY <1>7, <1>8, <1>9, <1>11 DEF IInv
-----------------------------------------------------------------------------
(* The invariant is inductive. *)
LEMMA InductiveStep ==
  ASSUME IInv, [Next]_vars
  PROVE  IInv'
<1>1. ASSUME NEW r \in Reqs, NEW l \in Folders, NEW f \in AnyFolder, f \in {l, NoFolder},
             SendNow(r, f, l) \/ SendLater(r, f, l)
      PROVE  IInv'
  BY <1>1, SendNowStep, SendLaterStep
<1>2. ASSUME NEW r \in Reqs, Handover(r) PROVE IInv'
  BY <1>2, ResolvedStep, ResolveFailedStep, ClientTakesStep, ClientRefusesStep, AddTimedOutStep
     DEF Handover
<1>3. CASE Watch
  BY <1>3, CheckBeginsStep, CheckAnsweredStep, CheckReportsStep DEF Watch
<1>4. CASE UNCHANGED vars
  <2>0. /\ row' = row /\ age' = age /\ job' = job /\ threads' = threads /\ client' = client
        /\ unpack' = unpack /\ (configured' <=> configured) /\ watcher' = watcher /\ late' = late
        /\ queue' = queue /\ dirty' = dirty /\ noted' = noted /\ ops' = ops
    BY <1>4 DEF vars, rows, add, world, scans
  <2>00. configured' \in BOOLEAN
    BY <1>4, Zenon DEF vars, IInv, TypeOK
  <2>1. TypeOK'
    BY <2>0, <2>00 DEF IInv, TypeOK
  <2>2. \A r \in Reqs : RowFits(r)' /\ JobFits(r)' /\ InTime(r)' /\ Followed(r)'
    BY <2>0 DEF IInv, RowFits, JobFits, InTime, Followed, ScanComes
  <2> QED
    BY <2>1, <2>2 DEF IInv
<1>5. ASSUME NEW r \in Reqs, Dismiss(r) \/ ClientDone(r) \/ ClientUnpacks(r) PROVE IInv'
  BY <1>5, DismissStep, ClientDoneStep, ClientUnpacksStep
<1> QED
  BY <1>1, <1>2, <1>3, <1>4, <1>5, LateRescanStep, ScanFolderStep, ClearFinishedStep,
     DeleteIntegrationStep, RestartStep, TickStep DEF Next

(* The invariant holds in every reachable state. *)
THEOREM Inductive == Spec => []IInv
<1>1. Init => IInv
  <2> SUFFICES ASSUME Init PROVE IInv
    OBVIOUS
  <2>1. TypeOK
    BY NoneTypes, Limits DEF Init, TypeOK
  <2>2. ASSUME NEW r \in Reqs PROVE RowFits(r) /\ JobFits(r) /\ InTime(r) /\ Followed(r)
    BY NoneTypes DEF Init, RowFits, JobFits, InTime, Followed
  <2> QED
    BY <2>1, <2>2 DEF IInv
<1>2. IInv /\ [Next]_vars => IInv'
  BY InductiveStep
<1> QED
  BY <1>1, <1>2, PTL DEF Spec

(* Every variable keeps its type. *)
THEOREM TypeCorrect == Spec => []TypeOK
<1>1. IInv => TypeOK
  BY DEF IInv
<1> QED
  BY <1>1, Inductive, PTL

(* Files of a download that was found finished are never forgotten: a scan of
   their folder is in the queue, or comes later, or is about to be reported,
   and that one comes after whatever is still unpacked. *)
THEOREM FinishedAreScanned == Spec => []FinishedIsFollowedUp
<1>1. IInv => FinishedIsFollowedUp
  BY DEF IInv, TypeOK, Followed, ScanComes, FinishedIsFollowedUp
<1> QED
  BY <1>1, Inductive, PTL
-----------------------------------------------------------------------------
(* The list implements DownloadList, step by step. *)

\* What the list shows: the variable of DownloadList.
Entries == [r \in Reqs |-> Shown(r)]

(* No entry changes. *)
LEMMA NoEntry ==
  ASSUME \A r \in Reqs : Shown(r)' = Shown(r)
  PROVE  Entries' = Entries
BY DEF Entries

(* What one entry may do. *)
LEMMA OneEntry ==
  ASSUME NEW r \in Reqs, \A s \in Reqs \ {r} : Shown(s)' = Shown(s),
         \/ Shown(r) = "nothing" /\ Shown(r)' \in {"resolving", "sent"}
         \/ Shown(r) = "resolving" /\ Shown(r)' = "sent"
  PROVE  List!Next
<1> DEFINE to == Shown(r)'
<1>1. [s \in Reqs |-> Shown(s)'] = [[s \in Reqs |-> Shown(s)] EXCEPT ![r] = to]
  OBVIOUS
<1>2. CASE Shown(r) = "nothing" /\ Shown(r)' \in {"resolving", "sent"}
  <2>1. List!Appears(r)
    BY <1>1, <1>2 DEF List!Appears, List!Shows
  <2> QED
    BY <2>1 DEF List!Next
<1>3. CASE Shown(r) = "resolving" /\ Shown(r)' = "sent"
  <2>1. List!Succeeds(r)
    BY <1>1, <1>3 DEF List!Succeeds, List!Shows
  <2> QED
    BY <2>1 DEF List!Next
<1> QED
  BY <1>2, <1>3

(* Some entries fail, or are hidden, together. *)
LEMMA SomeEntries ==
  ASSUME NEW S \in SUBSET Reqs, \A s \in Reqs \ S : Shown(s)' = Shown(s),
         \/ \A s \in S : Shown(s) = "resolving" /\ Shown(s)' = "error"
         \/ \A s \in S : Shown(s) # "nothing" /\ Shown(s)' = "hidden"
  PROVE  List!Next
<1>1. CASE \A s \in S : Shown(s) = "resolving" /\ Shown(s)' = "error"
  <2>1. [s \in Reqs |-> Shown(s)'] = [s \in Reqs |-> IF s \in S THEN "error" ELSE Entries[s]]
    BY <1>1 DEF Entries
  <2>2. List!Fails(S)
    BY <1>1, <2>1 DEF List!Fails, Entries
  <2> QED
    BY <2>2 DEF List!Next
<1>2. CASE \A s \in S : Shown(s) # "nothing" /\ Shown(s)' = "hidden"
  <2>1. [s \in Reqs |-> Shown(s)'] = [s \in Reqs |-> IF s \in S THEN "hidden" ELSE Entries[s]]
    BY <1>2 DEF Entries
  <2>2. List!Hides(S)
    BY <1>2, <2>1 DEF List!Hides, Entries
  <2> QED
    BY <2>2 DEF List!Next
<1> QED
  BY <1>1, <1>2

\* A step that DownloadList allows.
Kept == List!Next \/ Entries' = Entries

(* An entry depends on the row and its age only. *)
LEMMA SameEntry ==
  ASSUME NEW r \in Reqs, row'[r] = row[r], age'[r] = age[r]
  PROVE  Shown(r)' = Shown(r)
BY DEF Shown, GivenUp

(* Steps that leave rows and ages alone. *)
LEMMA SameRows ==
  ASSUME UNCHANGED rows
  PROVE  Kept
BY SameEntry, NoEntry DEF rows, Kept

(* A new entry. *)
LEMMA SendKeeps ==
  ASSUME IInv, NEW r \in Reqs, NEW l \in Folders, NEW f \in {l, NoFolder},
         SendNow(r, f, l) \/ SendLater(r, f, l)
  PROVE  Kept
<1>1. CASE SendNow(r, f, l)
  BY <1>1, SameRows DEF SendNow
<1>2. CASE SendLater(r, f, l)
  <2>1. PICK q : q = [NoRow EXCEPT !.handover = "pending", !.folder = f, !.lands = l]
    OBVIOUS
  <2>2. q.handover = "pending" /\ ~q.dismissed
    BY <2>1, NoneTypes DEF Row
  <2>3. row' = [row EXCEPT ![r] = q] /\ age' = age /\ row[r] = NoRow
    BY <1>2, <2>1 DEF SendLater
  <2>4. row'[r] = q /\ age'[r] = 0 /\ \A s \in Reqs \ {r} : row'[s] = row[s] /\ age'[s] = age[s]
    BY <2>3, NoneTypes DEF IInv, TypeOK, InTime
  <2>5. Shown(r) = "nothing" /\ Shown(r)' = "resolving"
    BY <2>2, <2>3, <2>4, NoneTypes, Limits DEF Shown, GivenUp
  <2> QED
    BY <2>4, <2>5, SameEntry, OneEntry DEF Kept
<1> QED
  BY <1>1, <1>2

(* A job that fails turns its entry into an error, unless it is one already
   or hidden. *)
LEMMA FailedKeeps ==
  ASSUME IInv, NEW r \in Reqs, Working(r), Failed(r)
  PROVE  Kept
<1>0. row[r] \in Row /\ job[r].pc \in {"direct", "resolve", "add"} /\ age[r] \in Nat
  BY Limits DEF IInv, TypeOK, Working, Job
<1>1. \A s \in Reqs \ {r} : Shown(s)' = Shown(s)
  BY SameEntry DEF Failed, IInv, TypeOK
<1>2. CASE job[r].pc = "direct"
  <2>1. row' = row /\ age'[r] = 0 /\ row[r] = NoRow
    BY <1>2 DEF Failed, IInv, TypeOK, JobFits
  <2>2. Shown(r)' = Shown(r)
    BY <2>1 DEF Shown
  <2> QED
    BY <1>1, <2>2, NoEntry DEF Kept
<1>3. CASE job[r].pc # "direct"
  <2>1. /\ row'[r] = Concluded(row[r], "failed", FALSE) /\ age'[r] = 0
        /\ row[r].handover = "pending"
    BY <1>0, <1>3 DEF Failed, IInv, TypeOK, JobFits
  <2>2. row'[r].handover = "failed" /\ (row'[r].dismissed <=> row[r].dismissed)
    <3>1. PICK q : q = Concluded(row[r], "failed", FALSE)
      OBVIOUS
    <3>2. q.handover = "failed" /\ q.dismissed = row[r].dismissed
      BY <1>0, <3>1, ConcludedRow
    <3> QED
      BY <2>1, <3>1, <3>2
  <2>3. Shown(r)' = IF row[r].dismissed THEN "hidden" ELSE "error"
    BY <2>2, NoneTypes DEF Shown
  <2>4. Shown(r) = IF row[r].dismissed THEN "hidden"
                   ELSE IF age[r] > GiveUp THEN "error" ELSE "resolving"
    BY <2>1, NoneTypes DEF Shown, GivenUp
  <2>5. CASE Shown(r)' = Shown(r)
    BY <1>1, <2>5, NoEntry DEF Kept
  <2>6. CASE Shown(r)' # Shown(r)
    <3>1. Shown(r) = "resolving" /\ Shown(r)' = "error"
      BY <2>3, <2>4, <2>6
    <3>2. {r} \in SUBSET Reqs /\ \A s \in Reqs \ {r} : Shown(s)' = Shown(s)
      BY <1>1
    <3> QED
      BY <3>1, <3>2, SomeEntries DEF Kept
  <2> QED
    BY <2>5, <2>6
<1> QED
  BY <1>2, <1>3

(* A link that is handed over appears as sent, or its entry was being resolved:
   the client answers within the limits, so nobody was told to send it again. *)
LEMMA ClientTakesKeeps ==
  ASSUME IInv, NEW r \in Reqs, ClientTakes(r)
  PROVE  Kept
<1>1. CASE ~Adding(r)
  BY <1>1, SameRows DEF ClientTakes
<1>2. CASE Adding(r)
  <2>0. row[r] \in Row /\ job[r] \in Job /\ job[r].pc \in {"direct", "add"} /\ age[r] \in Nat
    BY <1>2, Limits DEF IInv, TypeOK, Adding
  <2>1. PICK q \in Row : /\ row' = [row EXCEPT ![r] = q] /\ q.handover = "sent"
                         /\ q.dismissed = row[r].dismissed
    BY <1>2, TakenRow
  <2>2. age' = [age EXCEPT ![r] = 0]
    BY <1>2 DEF ClientTakes
  <2>3. row'[r] = q /\ age'[r] = 0 /\ \A s \in Reqs \ {r} : row'[s] = row[s] /\ age'[s] = age[s]
    BY <2>1, <2>2 DEF IInv, TypeOK
  <2>4. \A s \in Reqs \ {r} : Shown(s)' = Shown(s)
    BY <2>3, SameEntry
  <2>5. Shown(r)' = IF row[r].dismissed THEN "hidden" ELSE "sent"
    BY <2>1, <2>3, NoneTypes DEF Shown, GivenUp
  <2>6. CASE job[r].pc = "direct"
    <3>1. row[r] = NoRow
      BY <2>6 DEF IInv, JobFits
    <3>2. Shown(r) = "nothing" /\ Shown(r)' = "sent"
      BY <2>5, <3>1, NoneTypes DEF Shown
    <3> QED
      BY <2>4, <3>2, OneEntry DEF Kept
  <2>7. CASE job[r].pc = "add"
    <3>1. row[r].handover = "pending" /\ age[r] <= GiveUp
      <4>1. age[r] + job[r].left <= ResolveLimit + AddLimit /\ job[r].left \in Nat
        BY <2>0, <2>7 DEF IInv, InTime, Job
      <4>2. age[r] <= GiveUp
        BY <2>0, <4>1, Limits
      <4> QED
        BY <2>7, <4>2 DEF IInv, JobFits
    <3>2. Shown(r) = IF row[r].dismissed THEN "hidden" ELSE "resolving"
      BY <2>0, <3>1, NoneTypes, Limits DEF Shown, GivenUp
    <3>3. CASE row[r].dismissed
      <4>1. Shown(r)' = Shown(r)
        BY <2>5, <3>2, <3>3
      <4> QED
        BY <2>4, <4>1, NoEntry DEF Kept
    <3>4. CASE ~row[r].dismissed
      <4>1. Shown(r) = "resolving" /\ Shown(r)' = "sent"
        BY <2>5, <3>2, <3>4
      <4> QED
        BY <2>4, <4>1, OneEntry DEF Kept
    <3> QED
      BY <3>3, <3>4
  <2> QED
    BY <2>0, <2>6, <2>7
<1> QED
  BY <1>1, <1>2

LEMMA HandoverKeeps ==
  ASSUME IInv, NEW r \in Reqs, Handover(r)
  PROVE  Kept
<1>1. CASE Resolved(r)
  BY <1>1, SameRows DEF Resolved
<1>2. CASE ResolveFailed(r)
  BY <1>2, FailedKeeps DEF ResolveFailed, Working
<1>3. CASE ClientRefuses(r)
  <2>1. CASE Adding(r)
    BY <1>3, <2>1, FailedKeeps DEF ClientRefuses, Working, Adding
  <2>2. CASE ~Adding(r)
    BY <1>3, <2>2, SameRows DEF ClientRefuses
  <2> QED
    BY <2>1, <2>2
<1>4. CASE AddTimedOut(r)
  BY <1>4, FailedKeeps DEF AddTimedOut, Working, Adding
<1> QED
  BY <1>1, <1>2, <1>3, <1>4, ClientTakesKeeps DEF Handover

(* That a download is done is not shown: its row is marked, no more. *)
LEMMA CheckAnsweredKeeps ==
  ASSUME IInv, CheckAnswered
  PROVE  Kept
<1>1. PICK done \in SUBSET watcher.reqs :
        /\ Reported(watcher.reqs, done)
        /\ row' = [r \in Reqs |-> IF r \in done THEN [row[r] EXCEPT !.finished = TRUE] ELSE row[r]]
  BY DEF CheckAnswered
<1>2. age' = age
  BY DEF CheckAnswered
<1>3. ASSUME NEW r \in Reqs PROVE Shown(r)' = Shown(r)
  <2>1. CASE r \notin done
    BY <1>1, <1>2, <2>1, SameEntry
  <2>2. CASE r \in done
    <3>1. row[r] \in Row /\ row[r].handover = "sent" /\ row'[r] = [row[r] EXCEPT !.finished = TRUE]
      BY <1>1, <2>2 DEF IInv, TypeOK, Reported, CanAsk
    <3>2. row'[r].handover = "sent" /\ (row'[r].dismissed <=> row[r].dismissed)
      BY <3>1 DEF Row
    <3> QED
      BY <3>1, <3>2, NoneTypes DEF Shown, GivenUp
  <2> QED
    BY <2>1, <2>2
<1> QED
  BY <1>3, NoEntry DEF Kept

(* What is marked as dismissed is hidden. *)
LEMMA HidingKeeps ==
  ASSUME IInv, age' = age, NEW S \in SUBSET Reqs,
         \A r \in S : row[r] # NoRow /\ row'[r] = [row[r] EXCEPT !.dismissed = TRUE],
         \A r \in Reqs \ S : row'[r] = row[r]
  PROVE  Kept
<1>1. ASSUME NEW r \in S PROVE Shown(r) # "nothing" /\ Shown(r)' = "hidden"
  <2>1. row[r] \in Row /\ row[r].handover # "none"
    BY DEF IInv, TypeOK, RowFits
  <2>2. row'[r].handover = row[r].handover /\ row'[r].dismissed
    BY <2>1 DEF Row
  <2> QED
    BY <2>1, <2>2, NoneTypes DEF Shown
<1>2. \A r \in Reqs \ S : Shown(r)' = Shown(r)
  BY SameEntry
<1> QED
  BY <1>1, <1>2, SomeEntries DEF Kept

LEMMA ListOperationsKeep ==
  ASSUME IInv, ClearFinished \/ \E r \in Reqs : Dismiss(r)
  PROVE  Kept
<1>1. CASE ClearFinished
  <2>1. PICK done \in SUBSET {r \in Reqs : Listed(r)} :
          row' = [r \in Reqs |-> IF r \in done THEN [row[r] EXCEPT !.dismissed = TRUE] ELSE row[r]]
    BY <1>1 DEF ClearFinished
  <2>2. /\ done \in SUBSET Reqs /\ age' = age
        /\ \A r \in done : row[r] # NoRow /\ row'[r] = [row[r] EXCEPT !.dismissed = TRUE]
        /\ \A r \in Reqs \ done : row'[r] = row[r]
    BY <1>1, <2>1 DEF ClearFinished, Listed
  <2> QED
    BY <2>2, HidingKeeps
<1>2. ASSUME NEW r \in Reqs, Dismiss(r) PROVE Kept
  <2>1. /\ {r} \in SUBSET Reqs /\ age' = age
        /\ \A s \in {r} : row[s] # NoRow /\ row'[s] = [row[s] EXCEPT !.dismissed = TRUE]
        /\ \A s \in Reqs \ {r} : row'[s] = row[s]
    BY <1>2 DEF Dismiss, IInv, TypeOK
  <2> QED
    BY <2>1, HidingKeeps
<1> QED
  BY <1>1, <1>2

(* Entries that have been resolving for too long turn into errors with a tick. *)
LEMMA TickKeeps ==
  ASSUME IInv, Tick
  PROVE  Kept
<1> DEFINE S == {r \in Reqs : Shown(r)' # Shown(r)}
<1>1. \A r \in Reqs : row'[r] = row[r] /\ age[r] \in Nat /\ age'[r] \in Nat /\ age'[r] >= age[r]
  <2>1. /\ age' = [r \in Reqs |-> IF row[r].handover = "pending" /\ age[r] <= GiveUp
                                 THEN age[r] + 1 ELSE age[r]]
        /\ row' = row
    BY DEF Tick
  <2>2. \A r \in Reqs : age[r] \in Nat
    BY Limits DEF IInv, TypeOK
  <2> QED
    BY <2>1, <2>2
<1>2. ASSUME NEW r \in S PROVE Shown(r) = "resolving" /\ Shown(r)' = "error"
  BY <1>1, Limits DEF Shown, GivenUp
<1>3. \A r \in Reqs \ S : Shown(r)' = Shown(r)
  OBVIOUS
<1> QED
  BY <1>2, <1>3, SomeEntries DEF Kept

LEMMA ListStep ==
  ASSUME IInv, [Next]_vars
  PROVE  Kept
<1>1. ASSUME NEW r \in Reqs, NEW l \in Folders, NEW f \in AnyFolder, f \in {l, NoFolder},
             SendNow(r, f, l) \/ SendLater(r, f, l)
      PROVE  Kept
  BY <1>1, SendKeeps
<1>2. CASE Watch
  BY <1>2, SameRows, CheckAnsweredKeeps DEF Watch, CheckBegins, CheckReports
<1>3. CASE LateRescan \/ (\E f \in Folders : ScanFolder(f)) \/ DeleteIntegration \/ Restart
  BY <1>3, SameRows DEF LateRescan, ScanFolder, DeleteIntegration, Restart
<1>4. ASSUME NEW r \in Reqs, ClientDone(r) \/ ClientUnpacks(r) PROVE Kept
  BY <1>4, SameRows DEF ClientDone, ClientUnpacks
<1>5. CASE UNCHANGED vars
  BY <1>5, SameRows DEF vars
<1> QED
  BY <1>1, <1>2, <1>3, <1>4, <1>5, HandoverKeeps, ListOperationsKeep, TickKeeps DEF Next

(* The list keeps what DownloadList promises: a request it calls aborted is not
   handed over after all, and what the user hides stays hidden, whatever the
   background, the client and restarts do. *)
THEOREM ListImplements == Spec => ListKeepsItsWord
<1>1. Init => List!Init
  <2> SUFFICES ASSUME Init PROVE List!Init
    OBVIOUS
  <2>1. \A r \in Reqs : Shown(r) = "nothing"
    BY DEF Init, Shown
  <2> QED
    BY <2>1 DEF List!Init
<1>2. IInv /\ [Next]_vars => [List!Next]_([r \in Reqs |-> Shown(r)])
  BY ListStep DEF Kept, Entries
<1> QED
  BY <1>1, <1>2, Inductive, PTL DEF Spec, ListKeepsItsWord, List!Spec
=============================================================================
