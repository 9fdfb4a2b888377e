------------------------------ MODULE AniDBGate ------------------------------
(***************************************************************************)
(* The way to AniDB (core/app/providers/anidb.py and base.py): response     *)
(* cache, ban, circuit breaker and rate limiter in front of every request,  *)
(* and the watcher that queues the refused work again when a block ends     *)
(* (core/app/services/anidb_watch.py).                                      *)
(*                                                                         *)
(* The serial job worker fetches for library anime and wishlist entries;    *)
(* API handlers fetch at the same time.  Clocks are timers that count down  *)
(* with Tick.  The steps of the event loop take less than a tick, except   *)
(* for telling the UI about the state of a request, which waits for the     *)
(* database and for WebSockets.                                             *)
(***************************************************************************)
EXTENDS Naturals, FiniteSets

CONSTANTS
  Work, Wishes,    \* AniDB ids of library anime and of wishlist entries
  NoAid,           \* not an AniDB id
  Worker,          \* the job worker
  Handlers,        \* the API handlers that may fetch
  MinInterval,     \* ticks between two requests
  DailyCap,        \* requests a day
  DayLength,       \* ticks of a day
  Threshold,       \* failures in a row that open the circuit breaker
  Cooldown,        \* ticks the breaker stays open
  BanCooldown,     \* ticks a ban is assumed to last
  CheckInterval,   \* ticks between two checks of the watcher
  MaxTries         \* attempts of one fetch

Aids   == Work \cup Wishes
Actors == Handlers \cup {Worker}

ASSUME GateAssumption ==
  /\ Work \cap Wishes = {} /\ NoAid \notin Aids /\ Worker \notin Handlers
  /\ {MinInterval, DailyCap, DayLength, Threshold, Cooldown, BanCooldown, CheckInterval, MaxTries}
       \subseteq Nat \ {0}
  /\ CheckInterval < BanCooldown /\ MinInterval <= DayLength
  /\ IsFiniteSet(Handlers)

VARIABLES
  up,          \* does the core run?
  calls,       \* the fetch each actor is in
  ban,         \* ticks left of the ban, in memory ...
  saved,       \* ... and in the settings table
  breaker,     \* the circuit breaker
  limiter,     \* the rate limiter
  day,         \* ticks left of the day
  watcher,     \* the block watcher
  wanted,      \* ids whose anime is pending or whose entry has no details
  queue,       \* ids with a job in the queue
  refused,     \* ghost: why a block made the last job of an id fail
  acked,       \* ghost: ticks left of the longest ban a caller was told of
  sentToday,   \* ghost: requests this process sent today
  over,        \* ghost: the actors whose call a midnight has caught unsent ...
  late         \* ghost: ... and those that have sent it today

clocks == <<ban, saved, limiter, breaker, day, watcher, acked>>
work   == <<wanted, queue, refused>>
sends  == <<sentToday, over, late>>
vars   == <<up, calls, clocks, work, sends>>

NoCall     == [pc |-> "idle", aid |-> NoAid, tries |-> 0]
Closed     == [failures |-> 0, open |-> FALSE, left |-> 0]
NewLimiter == [gap |-> 0, count |-> 0, stale |-> TRUE]   \* stale: not today's count

Call    == [pc : {"idle", "gate", "locked", "announce", "sent", "backoff", "save"},
            aid : Aids \cup {NoAid}, tries : 0..MaxTries]
Breaker == [failures : 0..Threshold, open : BOOLEAN, left : 0..Cooldown]
Limiter == [gap : 0..MinInterval, count : 0..DailyCap, stale : BOOLEAN]
Watcher == [left : 0..CheckInterval, blocked : BOOLEAN]

TypeOK ==
  /\ up \in BOOLEAN
  /\ calls \in [Actors -> Call]
  /\ ban \in 0..BanCooldown /\ saved \in 0..BanCooldown /\ acked \in 0..BanCooldown
  /\ breaker \in Breaker /\ limiter \in Limiter /\ watcher \in Watcher
  /\ day \in 1..DayLength
  /\ wanted \subseteq Aids /\ queue \subseteq Aids
  /\ refused \in [Aids -> {"no", "ban", "paused", "daily_cap"}]
  /\ sentToday \in Nat /\ over \subseteq Actors /\ late \subseteq Actors

-----------------------------------------------------------------------------
(* What keeps requests from going out.                                     *)

IsOpen(b)  == b.open /\ b.left > 0
\* is_open() closes a breaker whose time is over.
Settled(b) == IF b.open /\ b.left = 0 THEN Closed ELSE b

\* Failures count up to the threshold: only that they reach it matters.
RecordFailure ==
  LET n == IF breaker.failures < Threshold THEN breaker.failures + 1 ELSE Threshold IN
  breaker' = IF n = Threshold THEN [failures |-> n, open |-> TRUE, left |-> Cooldown]
             ELSE [breaker EXCEPT !.failures = n]

CallsToday == IF limiter.stale THEN 0 ELSE limiter.count

\* A wrong Exhausted, one call late.
ExhaustedLate == CallsToday > DailyCap

Exhausted  == CallsToday >= DailyCap
Blocked    == ban > 0 \/ Exhausted \/ IsOpen(breaker)

\* A wrong LockIsFree: no lock.
LockIsFreeAlways == TRUE

LockIsFree == \A y \in Actors : calls[y].pc # "locked"

-----------------------------------------------------------------------------
(* A fetch.                                                                *)

Becomes(x, call) == calls' = [calls EXCEPT ![x] = call]
To(x, pc)        == Becomes(x, [calls[x] EXCEPT !.pc = pc])

\* The fetch of actor x ends without metadata; a refused job is remembered.
Refuse(x, a, why) ==
  /\ Becomes(x, NoCall)
  /\ refused' = IF x = Worker /\ a \in wanted THEN [refused EXCEPT ![a] = why] ELSE refused

\* The fetch ends with metadata: the worker's job is done.
Deliver(x, a) ==
  /\ Becomes(x, NoCall)
  /\ wanted'  = IF x = Worker THEN wanted \ {a} ELSE wanted
  /\ refused' = IF x = Worker THEN [refused EXCEPT ![a] = "no"] ELSE refused

\* Whose turn it is: a job from the queue, or any id a user asks for.
Asks(x, a) ==
  /\ up /\ calls[x].pc = "idle"
  /\ IF x = Worker THEN a \in queue /\ queue' = queue \ {a} ELSE a \in Aids /\ queue' = queue

\* The disk cache has a fresh answer (which answers are fresh is left open).
FromCache(x, a) ==
  /\ Asks(x, a)
  /\ Deliver(x, a)
  /\ UNCHANGED <<up, clocks, sends>>

\* _get_xml refuses while a ban or the breaker says so.
TurnedAway(x, a) ==
  /\ Asks(x, a)
  /\ \/ ban > 0 /\ Refuse(x, a, "ban")
     \/ ban = 0 /\ IsOpen(breaker) /\ Refuse(x, a, "paused")
  /\ UNCHANGED <<up, clocks, wanted, sends>>

\* ... and otherwise goes to the rate limiter.
Begin(x, a) ==
  /\ Asks(x, a)
  /\ ban = 0 /\ ~IsOpen(breaker)
  /\ breaker' = Settled(breaker)
  /\ Becomes(x, [pc |-> "gate", aid |-> a, tries |-> 0])
  /\ UNCHANGED <<up, ban, saved, limiter, day, watcher, acked, wanted, refused, sends>>

\* A wrong CapReached that takes the refusal for an error worth a retry.
CapRetried(x) == To(x, "backoff") /\ UNCHANGED refused

\* "daily call cap reached": the refusal goes through to the caller.
CapReached(x) == Refuse(x, calls[x].aid, "daily_cap")

\* RateLimiter.acquire: the lock, the count of the day, the cap, ...
Acquire(x) ==
  /\ calls[x].pc = "gate" /\ LockIsFree
  /\ limiter' = [limiter EXCEPT !.count = CallsToday, !.stale = FALSE]
  /\ IF Exhausted
       THEN CapReached(x)
       ELSE To(x, "locked") /\ UNCHANGED refused
  /\ UNCHANGED <<up, ban, saved, breaker, day, watcher, acked, wanted, queue, sends>>

\* ... then the wait for the interval, still under the lock; the call counts.
WaitOver(x) ==
  /\ calls[x].pc = "locked" /\ limiter.gap = 0
  /\ limiter' = [limiter EXCEPT !.gap = MinInterval, !.count = limiter.count + 1]
  /\ To(x, "announce")
  /\ UNCHANGED <<up, ban, saved, breaker, day, watcher, acked, work, sends>>

\* The listeners were told; the request goes out.
Send(x) ==
  /\ calls[x].pc = "announce"
  /\ To(x, "sent")
  /\ sentToday' = sentToday + 1
  /\ over' = over \ {x}
  /\ late' = IF x \in over THEN late \cup {x} ELSE late
  /\ UNCHANGED <<up, clocks, work>>

\* An HTTP error: another attempt after a pause, or the fetch has failed.
HttpError(x) ==
  LET tries == calls[x].tries + 1 IN
  /\ calls[x].pc = "sent"
  /\ IF tries < MaxTries
       THEN Becomes(x, [calls[x] EXCEPT !.pc = "backoff", !.tries = tries]) /\ UNCHANGED breaker
       ELSE Becomes(x, NoCall) /\ RecordFailure
  /\ UNCHANGED <<up, ban, saved, limiter, day, watcher, acked, work, sends>>

Retry(x) ==
  /\ calls[x].pc = "backoff"
  /\ To(x, "gate")
  /\ UNCHANGED <<up, clocks, work, sends>>

\* An error answer that is not a ban.
ErrorAnswer(x) ==
  /\ calls[x].pc = "sent"
  /\ Becomes(x, NoCall)
  /\ RecordFailure
  /\ UNCHANGED <<up, ban, saved, limiter, day, watcher, acked, work, sends>>

\* The anime.
Data(x) ==
  /\ calls[x].pc = "sent"
  /\ Deliver(x, calls[x].aid)
  /\ breaker' = Closed
  /\ UNCHANGED <<up, ban, saved, limiter, day, watcher, acked, queue, sends>>

\* AniDB says the client is banned.
BanAnswer(x) ==
  /\ calls[x].pc = "sent"
  /\ ban' = BanCooldown
  /\ To(x, "save")
  /\ UNCHANGED <<up, saved, breaker, limiter, day, watcher, acked, work, sends>>

\* _persist_ban_state, then the caller is told.
SaveBan(x) ==
  /\ calls[x].pc = "save"
  /\ saved' = ban /\ acked' = ban
  /\ Refuse(x, calls[x].aid, "ban")
  /\ UNCHANGED <<up, ban, breaker, limiter, day, watcher, wanted, queue, sends>>

-----------------------------------------------------------------------------
(* The watcher, the clock, the process.                                    *)

\* A wrong note of the watcher: it remembers the block only when it resumes.
NotedOnlyOnResume(resumes) == IF resumes THEN Blocked ELSE watcher.blocked

\* What the watcher remembers of this check for the next one.
Noted(resumes) == Blocked

\* AniDBBlockWatcher.check: a block that ended puts all open work in the queue.
Check ==
  LET resumes == watcher.blocked /\ ~Blocked IN
  /\ up /\ watcher.left = 0
  /\ breaker' = IF ban > 0 \/ Exhausted THEN breaker ELSE Settled(breaker)
  /\ queue'   = IF resumes THEN queue \cup wanted ELSE queue
  /\ refused' = IF resumes THEN [a \in Aids |-> "no"] ELSE refused
  /\ watcher' = [left |-> CheckInterval, blocked |-> Noted(resumes)]
  /\ UNCHANGED <<up, calls, ban, saved, limiter, day, acked, wanted, sends>>

\* A new pending anime or wishlist entry, with its job.
Discover(a) ==
  /\ up /\ a \notin wanted
  /\ wanted' = wanted \cup {a} /\ queue' = queue \cup {a}
  /\ refused' = [refused EXCEPT ![a] = "no"]
  /\ UNCHANGED <<up, calls, clocks, sends>>

\* The process ends: memory is gone.
Stop ==
  /\ up /\ up' = FALSE
  /\ calls' = [x \in Actors |-> NoCall]
  /\ ban' = 0 /\ breaker' = Closed /\ limiter' = NewLimiter
  /\ watcher' = [left |-> CheckInterval, blocked |-> FALSE]
  /\ queue' = {}
  /\ sentToday' = 0 /\ over' = {} /\ late' = {}
  /\ UNCHANGED <<saved, day, acked, wanted, refused>>

\* A wrong restore that starts without the saved ban.
NoBan == 0

\* load_ban_state
Restored == saved

\* The process starts: the ban is restored, the scans queue the pending anime.
Start ==
  /\ ~up /\ up' = TRUE
  /\ ban' = Restored
  /\ watcher' = [watcher EXCEPT !.blocked = Restored > 0]
  /\ queue' = wanted \cap Work
  /\ refused' = [a \in Aids |-> IF a \in Work THEN "no" ELSE refused[a]]
  /\ UNCHANGED <<calls, saved, breaker, limiter, day, acked, wanted, sends>>

\* No step of the event loop that takes no time is due.
Prompt ==
  up => /\ watcher.left > 0
        /\ \A x \in Actors :
             /\ calls[x].pc # "save"
             /\ calls[x].pc = "locked" => limiter.gap > 0

Down(n) == IF n = 0 THEN 0 ELSE n - 1

\* A tick of the clocks; with the last tick of a day the next one begins.
Tick ==
  /\ Prompt
  /\ ban' = Down(ban) /\ saved' = Down(saved) /\ acked' = Down(acked)
  /\ breaker' = [breaker EXCEPT !.left = Down(breaker.left)]
  /\ watcher' = IF up THEN [watcher EXCEPT !.left = Down(watcher.left)] ELSE watcher
  /\ IF day = 1
       THEN day' = DayLength /\ sentToday' = 0 /\ late' = {}
            /\ over' = {x \in Actors : calls[x].pc \in {"locked", "announce"}}
            /\ limiter' = [limiter EXCEPT !.gap = Down(limiter.gap), !.stale = TRUE]
       ELSE day' = day - 1 /\ UNCHANGED sends
            /\ limiter' = [limiter EXCEPT !.gap = Down(limiter.gap)]
  /\ UNCHANGED <<up, calls, work>>

Answer(x) == HttpError(x) \/ ErrorAnswer(x) \/ Data(x) \/ BanAnswer(x)
Step(x)   == WaitOver(x) \/ Send(x) \/ Answer(x) \/ Retry(x) \/ SaveBan(x)

Init ==
  /\ up = TRUE
  /\ calls = [x \in Actors |-> NoCall]
  /\ ban = 0 /\ saved = 0 /\ acked = 0
  /\ breaker = Closed /\ limiter = NewLimiter
  /\ day = DayLength
  /\ watcher = [left |-> CheckInterval, blocked |-> FALSE]
  /\ wanted = {} /\ queue = {} /\ refused = [a \in Aids |-> "no"]
  /\ sentToday = 0 /\ over = {} /\ late = {}

Next ==
  \/ \E x \in Actors :
       \/ \E a \in Aids : FromCache(x, a) \/ TurnedAway(x, a) \/ Begin(x, a)
       \/ Acquire(x) \/ Step(x)
  \/ \E a \in Aids : Discover(a)
  \/ Check \/ Stop \/ Start \/ Tick

Spec == Init /\ [][Next]_vars

(***************************************************************************)
(* Time passes, a started step ends (requests time out after 30 s), and the *)
(* limiter's lock is first come, first served.                              *)
(***************************************************************************)
FairSpec ==
  /\ Spec
  /\ WF_vars(Tick) /\ WF_vars(Check)
  /\ \A x \in Actors : WF_vars(Step(x)) /\ SF_vars(Acquire(x))
-----------------------------------------------------------------------------
(* Properties.                                                             *)

(* A process sends at most DailyCap requests a day, and once more for each
   actor whose call a midnight caught unsent: waiting for its interval, or for
   the UI to be told, it counts for the day before. *)
DailyCapHeld == sentToday <= DailyCap + Cardinality(late)

(* Once a caller was told of a ban, no fetch that begins later gets to the
   network before the ban is over: not by another actor, not after a crash. *)
NoNewFetchInBan ==
  [][\A x \in Actors, a \in Aids : Begin(x, a) => acked = 0]_vars

(* "the work that failed meanwhile" (anidb_watch.py:20): a library anime whose
   job failed on a ban is queued again, because the watcher has seen the block
   or is going to. *)
Noticed(a) == up /\ refused[a] # "no" => Blocked \/ watcher.blocked

BanRefusalsNoticed == \A a \in Work : refused[a] = "ban" => Noticed(a)

(* Every fetch comes to an end: retries are bounded, the lock is released, the
   limiter lets everyone pass or refuses. *)
FetchesEnd == \A x \in Actors : calls[x].pc # "idle" ~> calls[x].pc = "idle"
=============================================================================
