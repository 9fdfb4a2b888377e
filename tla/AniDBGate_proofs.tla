--------------------------- MODULE AniDBGate_proofs ---------------------------
(***************************************************************************)
(* Proofs about AniDBGate for every number of ids and handlers, every       *)
(* interval, cap, threshold and cool-down: the types (and with them that    *)
(* the day's count never passes the cap), that a ban a caller was told of    *)
(* keeps later fetches back across restarts, that the watcher notices every *)
(* ban that made a library anime's job fail, and the cap on requests sent.  *)
(***************************************************************************)
EXTENDS AniDBGate, FiniteSetTheorems, TLAPS

USE DEF sends

(* The limits are positive numbers, and a ban outlasts a check interval. *)
LEMMA Limits ==
  /\ MinInterval \in Nat \ {0} /\ DailyCap \in Nat \ {0} /\ DayLength \in Nat \ {0}
  /\ Threshold \in Nat \ {0} /\ Cooldown \in Nat \ {0} /\ BanCooldown \in Nat \ {0}
  /\ CheckInterval \in Nat \ {0} /\ MaxTries \in Nat \ {0}
  /\ CheckInterval < BanCooldown
BY GateAssumption

(* No fetch, a closed breaker and a new limiter have their types. *)
LEMMA RecordTypes ==
  /\ NoCall \in Call /\ NoCall.pc = "idle"
  /\ Closed \in Breaker
  /\ NewLimiter \in Limiter
BY Limits DEF NoCall, Call, Closed, Breaker, NewLimiter, Limiter

(* A timer that counts down stays in its range, and timers keep their order. *)
LEMMA DownBounds ==
  ASSUME NEW m \in Nat, NEW n \in 0..m
  PROVE  Down(n) \in 0..m /\ Down(n) <= n /\ (n > 0 => Down(n) = n - 1)
BY DEF Down

(* A step of an actor changes its own fetch only. *)
LEMMA OthersKeepTheirs ==
  ASSUME calls \in [Actors -> Call], NEW x \in Actors, NEW c, Becomes(x, c)
  PROVE  /\ calls'[x] = c /\ \A y \in Actors \ {x} : calls'[y] = calls[y]
         /\ c \in Call => calls' \in [Actors -> Call]
BY DEF Becomes

(* To changes the position only. *)
LEMMA ToType ==
  ASSUME calls \in [Actors -> Call], NEW x \in Actors,
         NEW pc \in {"idle", "gate", "locked", "announce", "sent", "backoff", "save"}, To(x, pc)
  PROVE  /\ calls' \in [Actors -> Call]
         /\ calls'[x].pc = pc /\ \A y \in Actors \ {x} : calls'[y] = calls[y]
<1> DEFINE c == [calls[x] EXCEPT !.pc = pc]
<1>1. c \in Call /\ c.pc = pc
  BY DEF Call
<1> QED
  BY <1>1, OthersKeepTheirs DEF To

(* The breaker keeps its type when a failure is recorded. *)
LEMMA RecordFailureType ==
  ASSUME breaker \in Breaker, RecordFailure
  PROVE  breaker' \in Breaker
<1> DEFINE n == IF breaker.failures < Threshold THEN breaker.failures + 1 ELSE Threshold
<1>1. n \in 0..Threshold
  BY Limits DEF Breaker
<1>2. [failures |-> n, open |-> TRUE, left |-> Cooldown] \in Breaker
  BY <1>1, Limits DEF Breaker
<1>3. [breaker EXCEPT !.failures = n] \in Breaker
  BY <1>1 DEF Breaker
<1> QED
  BY <1>2, <1>3 DEF RecordFailure
-----------------------------------------------------------------------------
(* The inductive invariant. *)

\* The lock has one holder, for whom there is room under the cap.
OneLocked ==
  \A x \in Actors : calls[x].pc = "locked" =>
    limiter.count < DailyCap /\ \A y \in Actors : calls[y].pc = "locked" => x = y

\* A ban that is being saved is not over; no fetch outlives the process.
SavesHaveBan ==
  \A x \in Actors : (calls[x].pc = "save" => ban > 0) /\ (~up => calls[x].pc = "idle")

\* Memory holds a ban at least as long as the table, and that as what was told.
BanKept == acked <= saved /\ (up => saved <= ban)

\* A ban the watcher has not seen lasts beyond its next check.
CheckInTime == up /\ ban > 0 /\ ~watcher.blocked => watcher.left < ban

\* A ban that made a job fail is on, or the watcher has seen it.
BanPending ==
  up => \A a \in Work : refused[a] = "ban" /\ ~watcher.blocked => ban > 0

IInv == TypeOK /\ OneLocked /\ SavesHaveBan /\ BanKept /\ CheckInTime /\ BanPending

(* A step that only ends or moves an actor's fetch, not to the lock nor to the
   saving of a ban, keeps the claims about fetches. *)
LEMMA FetchSteps ==
  ASSUME IInv, NEW x \in Actors, NEW c \in Call, Becomes(x, c), up,
         c.pc \notin {"locked", "save"}, limiter' = limiter, ban' = ban, up' = up
  PROVE  OneLocked' /\ SavesHaveBan'
<1>1. calls'[x] = c /\ \A y \in Actors \ {x} : calls'[y] = calls[y]
  BY OthersKeepTheirs DEF IInv, TypeOK
<1>2. \A y \in Actors : calls'[y].pc \in {"locked", "save"} => y # x /\ calls'[y] = calls[y]
  BY <1>1
<1>3. OneLocked'
  BY <1>2 DEF IInv, OneLocked
<1>4. SavesHaveBan'
  BY <1>2 DEF IInv, SavesHaveBan
<1> QED
  BY <1>3, <1>4

(* A refusal keeps the types and the claims about fetches; a job that failed
   on a ban is one more to notice. *)
LEMMA RefuseStep ==
  ASSUME IInv, NEW x \in Actors, NEW a, NEW why \in {"ban", "paused", "daily_cap"},
         Refuse(x, a, why)
  PROVE  /\ calls' \in [Actors -> Call] /\ Becomes(x, NoCall)
         /\ refused' \in [Aids -> {"no", "ban", "paused", "daily_cap"}]
         /\ \A b \in Aids : refused'[b] = "ban" => refused[b] = "ban" \/ why = "ban"
<1>1. calls' \in [Actors -> Call] /\ Becomes(x, NoCall)
  BY RecordTypes, OthersKeepTheirs DEF IInv, TypeOK, Refuse
<1>2. refused' = refused \/ refused' = [refused EXCEPT ![a] = why]
  BY DEF Refuse
<1> QED
  BY <1>1, <1>2 DEF IInv, TypeOK

(* An answer delivered keeps the types; no job newly failed. *)
LEMMA DeliverStep ==
  ASSUME IInv, NEW x \in Actors, NEW a, Deliver(x, a)
  PROVE  /\ calls' \in [Actors -> Call] /\ Becomes(x, NoCall)
         /\ wanted' \subseteq Aids
         /\ refused' \in [Aids -> {"no", "ban", "paused", "daily_cap"}]
         /\ \A b \in Aids : refused'[b] = "ban" => refused[b] = "ban"
<1>1. calls' \in [Actors -> Call] /\ Becomes(x, NoCall)
  BY RecordTypes, OthersKeepTheirs DEF IInv, TypeOK, Deliver
<1>2. refused' = refused \/ refused' = [refused EXCEPT ![a] = "no"]
  BY DEF Deliver
<1>3. wanted' \subseteq Aids
  BY DEF Deliver, IInv, TypeOK
<1> QED
  BY <1>1, <1>2, <1>3 DEF IInv, TypeOK

(* An actor that asks leaves the queue within the ids; the process runs. *)
LEMMA AsksStep ==
  ASSUME IInv, NEW x \in Actors, NEW a \in Aids, Asks(x, a)
  PROVE  up /\ queue' \subseteq Aids /\ calls[x].pc = "idle"
BY DEF IInv, TypeOK, Asks

(* A fetch that is on shows that the process runs. *)
LEMMA BusyIsUp ==
  ASSUME IInv, NEW x \in Actors, calls[x].pc # "idle"
  PROVE  up
BY DEF IInv, SavesHaveBan

(* A step that leaves the timers of the ban and the watcher alone, and makes
   jobs fail on a ban only while there is one, keeps the claims about bans. *)
LEMMA BanClaims ==
  ASSUME IInv, up' = up, ban' = ban, saved' = saved, acked' = acked, watcher' = watcher,
         \A a \in Aids : refused'[a] = "ban" => refused[a] = "ban" \/ ban > 0
  PROVE  BanKept' /\ CheckInTime' /\ BanPending'
BY DEF IInv, BanKept, CheckInTime, BanPending, Aids
-----------------------------------------------------------------------------
(* Every action keeps the invariant. *)

LEMMA FromCacheStep ==
  ASSUME IInv, NEW x \in Actors, NEW a \in Aids, FromCache(x, a)
  PROVE  IInv'
<1> USE DEF FromCache
<1>1. up /\ queue' \subseteq Aids
  BY AsksStep
<1>2. /\ calls' \in [Actors -> Call] /\ Becomes(x, NoCall) /\ wanted' \subseteq Aids
      /\ refused' \in [Aids -> {"no", "ban", "paused", "daily_cap"}]
      /\ \A b \in Aids : refused'[b] = "ban" => refused[b] = "ban"
  BY DeliverStep
<1>3. TypeOK'
  BY <1>1, <1>2 DEF IInv, TypeOK, clocks
<1>4. OneLocked' /\ SavesHaveBan'
  BY <1>1, <1>2, RecordTypes, FetchSteps DEF clocks
<1>5. BanKept' /\ CheckInTime' /\ BanPending'
  BY <1>2, BanClaims DEF clocks
<1> QED
  BY <1>3, <1>4, <1>5 DEF IInv

LEMMA TurnedAwayStep ==
  ASSUME IInv, NEW x \in Actors, NEW a \in Aids, TurnedAway(x, a)
  PROVE  IInv'
<1> USE DEF TurnedAway
<1>1. up /\ queue' \subseteq Aids
  BY AsksStep
<1>2. /\ calls' \in [Actors -> Call] /\ Becomes(x, NoCall)
      /\ refused' \in [Aids -> {"no", "ban", "paused", "daily_cap"}]
      /\ \A b \in Aids : refused'[b] = "ban" => refused[b] = "ban" \/ ban > 0
  BY RefuseStep
<1>3. TypeOK'
  BY <1>1, <1>2 DEF IInv, TypeOK, clocks
<1>4. OneLocked' /\ SavesHaveBan'
  BY <1>1, <1>2, RecordTypes, FetchSteps DEF clocks
<1>5. BanKept' /\ CheckInTime' /\ BanPending'
  BY <1>2, BanClaims DEF clocks
<1> QED
  BY <1>3, <1>4, <1>5 DEF IInv

LEMMA BeginStep ==
  ASSUME IInv, NEW x \in Actors, NEW a \in Aids, Begin(x, a)
  PROVE  IInv'
<1> USE DEF Begin
<1> DEFINE c == [pc |-> "gate", aid |-> a, tries |-> 0]
<1>1. up /\ queue' \subseteq Aids
  BY AsksStep
<1>2. c \in Call /\ c.pc = "gate" /\ Becomes(x, c)
  BY Limits DEF Call
<1>3. calls' \in [Actors -> Call]
  BY <1>2, OthersKeepTheirs DEF IInv, TypeOK
<1>4. breaker' \in Breaker
  BY RecordTypes DEF IInv, TypeOK, Settled
<1>5. TypeOK'
  BY <1>1, <1>3, <1>4 DEF IInv, TypeOK
<1>6. OneLocked' /\ SavesHaveBan'
  BY <1>1, <1>2, FetchSteps
<1>7. BanKept' /\ CheckInTime' /\ BanPending'
  BY BanClaims
<1> QED
  BY <1>5, <1>6, <1>7 DEF IInv

(* The holder of the lock has seen that there is room under the cap. *)
LEMMA AcquireStep ==
  ASSUME IInv, NEW x \in Actors, Acquire(x)
  PROVE  IInv'
<1> USE DEF Acquire
<1>0. /\ calls \in [Actors -> Call] /\ limiter \in Limiter /\ calls[x].pc = "gate" /\ up
      /\ \A y \in Actors : calls[y].pc # "locked"
  BY BusyIsUp DEF IInv, TypeOK, LockIsFree
<1>1. CallsToday \in 0..DailyCap
  BY <1>0, Limits DEF CallsToday, Limiter
<1>2. limiter' \in Limiter /\ limiter'.count = CallsToday
  BY <1>0, <1>1 DEF Limiter
<1>3. CASE Exhausted
  <2>1. /\ calls' \in [Actors -> Call] /\ Becomes(x, NoCall)
        /\ refused' \in [Aids -> {"no", "ban", "paused", "daily_cap"}]
        /\ \A b \in Aids : refused'[b] = "ban" => refused[b] = "ban"
    BY <1>3, RefuseStep DEF CapReached
  <2>2. \A y \in Actors : calls'[y].pc \notin {"locked", "save"} \/ (y # x /\ calls'[y] = calls[y])
    BY <1>0, <2>1, RecordTypes, OthersKeepTheirs
  <2>3. OneLocked' /\ SavesHaveBan'
    BY <1>0, <2>2 DEF IInv, OneLocked, SavesHaveBan
  <2>4. TypeOK'
    BY <1>2, <2>1 DEF IInv, TypeOK
  <2>5. BanKept' /\ CheckInTime' /\ BanPending'
    BY <2>1, BanClaims
  <2> QED
    BY <2>3, <2>4, <2>5 DEF IInv
<1>4. CASE ~Exhausted
  <2>1. /\ calls' \in [Actors -> Call] /\ calls'[x].pc = "locked"
        /\ \A y \in Actors \ {x} : calls'[y] = calls[y]
    BY <1>0, <1>4, ToType
  <2>2. limiter'.count < DailyCap
    BY <1>1, <1>2, <1>4, Limits DEF Exhausted
  <2>3. OneLocked' /\ SavesHaveBan'
    BY <1>0, <2>1, <2>2 DEF IInv, OneLocked, SavesHaveBan
  <2>4. TypeOK'
    BY <1>2, <1>4, <2>1 DEF IInv, TypeOK
  <2>5. BanKept' /\ CheckInTime' /\ BanPending'
    BY <1>4, BanClaims
  <2> QED
    BY <2>3, <2>4, <2>5 DEF IInv
<1> QED
  BY <1>3, <1>4

LEMMA WaitOverStep ==
  ASSUME IInv, NEW x \in Actors, WaitOver(x)
  PROVE  IInv'
<1> USE DEF WaitOver
<1>0. calls \in [Actors -> Call] /\ limiter \in Limiter /\ up
  BY BusyIsUp DEF IInv, TypeOK
<1>1. limiter.count < DailyCap /\ \A y \in Actors : calls[y].pc = "locked" => x = y
  BY DEF IInv, OneLocked
<1>2. limiter' \in Limiter
  <2>1. limiter.count + 1 \in 0..DailyCap /\ MinInterval \in 0..MinInterval
    BY <1>0, <1>1, Limits DEF Limiter
  <2>2. limiter' = [limiter EXCEPT !.gap = MinInterval, !.count = limiter.count + 1]
    OBVIOUS
  <2> QED
    BY <1>0, <2>1, <2>2 DEF Limiter
<1>3. /\ calls' \in [Actors -> Call] /\ calls'[x].pc = "announce"
      /\ \A y \in Actors \ {x} : calls'[y] = calls[y]
  BY <1>0, ToType
<1>4. OneLocked' /\ SavesHaveBan'
  BY <1>0, <1>1, <1>3 DEF IInv, OneLocked, SavesHaveBan
<1>5. TypeOK'
  BY <1>2, <1>3 DEF IInv, TypeOK, work
<1>6. BanKept' /\ CheckInTime' /\ BanPending'
  BY BanClaims DEF work
<1> QED
  BY <1>4, <1>5, <1>6 DEF IInv

LEMMA SendStep ==
  ASSUME IInv, NEW x \in Actors, Send(x)
  PROVE  IInv'
<1> USE DEF Send
<1>0. calls \in [Actors -> Call] /\ up /\ limiter' = limiter
  BY BusyIsUp DEF IInv, TypeOK, clocks
<1>1. /\ calls' \in [Actors -> Call] /\ calls'[x].pc = "sent"
      /\ \A y \in Actors \ {x} : calls'[y] = calls[y]
  BY <1>0, ToType
<1>2. OneLocked' /\ SavesHaveBan'
  BY <1>0, <1>1 DEF IInv, OneLocked, SavesHaveBan, clocks
<1>3. TypeOK'
  BY <1>1 DEF IInv, TypeOK, clocks, work
<1>4. BanKept' /\ CheckInTime' /\ BanPending'
  BY BanClaims DEF clocks, work
<1> QED
  BY <1>2, <1>3, <1>4 DEF IInv

LEMMA RetryStep ==
  ASSUME IInv, NEW x \in Actors, Retry(x)
  PROVE  IInv'
<1> USE DEF Retry
<1>0. calls \in [Actors -> Call] /\ up /\ limiter' = limiter
  BY BusyIsUp DEF IInv, TypeOK, clocks
<1>1. /\ calls' \in [Actors -> Call] /\ calls'[x].pc = "gate"
      /\ \A y \in Actors \ {x} : calls'[y] = calls[y]
  BY <1>0, ToType
<1>2. OneLocked' /\ SavesHaveBan'
  BY <1>0, <1>1 DEF IInv, OneLocked, SavesHaveBan, clocks
<1>3. TypeOK'
  BY <1>1 DEF IInv, TypeOK, clocks, work
<1>4. BanKept' /\ CheckInTime' /\ BanPending'
  BY BanClaims DEF clocks, work
<1> QED
  BY <1>2, <1>3, <1>4 DEF IInv

LEMMA HttpErrorStep ==
  ASSUME IInv, NEW x \in Actors, HttpError(x)
  PROVE  IInv'
<1> USE DEF HttpError
<1> DEFINE c == [calls[x] EXCEPT !.pc = "backoff", !.tries = calls[x].tries + 1]
<1>0. calls[x] \in Call /\ up
  BY BusyIsUp DEF IInv, TypeOK
<1>1. calls[x].tries + 1 < MaxTries => c \in Call /\ c.pc = "backoff"
  <2>1. calls[x].tries + 1 < MaxTries => calls[x].tries + 1 \in 0..MaxTries
    BY <1>0, Limits DEF Call
  <2> HIDE DEF HttpError
  <2> QED
    BY <1>0, <2>1 DEF Call
<1>2. PICK d \in Call : Becomes(x, d) /\ d.pc \in {"idle", "backoff"}
  BY <1>1, RecordTypes
<1>3. calls' \in [Actors -> Call]
  BY <1>2, OthersKeepTheirs DEF IInv, TypeOK
<1>4. breaker' \in Breaker
  BY RecordFailureType DEF IInv, TypeOK
<1>5. TypeOK'
  BY <1>3, <1>4 DEF IInv, TypeOK, work
<1>6. OneLocked' /\ SavesHaveBan'
  BY <1>0, <1>2, FetchSteps
<1>7. BanKept' /\ CheckInTime' /\ BanPending'
  BY BanClaims DEF work
<1> QED
  BY <1>5, <1>6, <1>7 DEF IInv

LEMMA ErrorAnswerStep ==
  ASSUME IInv, NEW x \in Actors, ErrorAnswer(x)
  PROVE  IInv'
<1> USE DEF ErrorAnswer
<1>0. up
  BY BusyIsUp
<1>1. calls' \in [Actors -> Call] /\ breaker' \in Breaker
  BY RecordTypes, OthersKeepTheirs, RecordFailureType DEF IInv, TypeOK
<1>2. TypeOK'
  BY <1>1 DEF IInv, TypeOK, work
<1>3. OneLocked' /\ SavesHaveBan'
  BY <1>0, RecordTypes, FetchSteps
<1>4. BanKept' /\ CheckInTime' /\ BanPending'
  BY BanClaims DEF work
<1> QED
  BY <1>2, <1>3, <1>4 DEF IInv

LEMMA DataStep ==
  ASSUME IInv, NEW x \in Actors, Data(x)
  PROVE  IInv'
<1> USE DEF Data
<1>0. up
  BY BusyIsUp
<1>1. /\ calls' \in [Actors -> Call] /\ Becomes(x, NoCall) /\ wanted' \subseteq Aids
      /\ refused' \in [Aids -> {"no", "ban", "paused", "daily_cap"}]
      /\ \A b \in Aids : refused'[b] = "ban" => refused[b] = "ban"
  BY DeliverStep
<1>2. TypeOK'
  BY <1>1, RecordTypes DEF IInv, TypeOK
<1>3. OneLocked' /\ SavesHaveBan'
  BY <1>0, <1>1, RecordTypes, FetchSteps
<1>4. BanKept' /\ CheckInTime' /\ BanPending'
  BY <1>1, BanClaims
<1> QED
  BY <1>2, <1>3, <1>4 DEF IInv

(* A new ban lasts longer than the table's and than the next check is away. *)
LEMMA BanAnswerStep ==
  ASSUME IInv, NEW x \in Actors, BanAnswer(x)
  PROVE  IInv'
<1> USE DEF BanAnswer
<1>0. calls \in [Actors -> Call] /\ up /\ saved \in 0..BanCooldown /\ watcher.left \in 0..CheckInterval
  BY BusyIsUp DEF IInv, TypeOK, Watcher
<1>1. /\ calls' \in [Actors -> Call] /\ calls'[x].pc = "save"
      /\ \A y \in Actors \ {x} : calls'[y] = calls[y]
  BY <1>0, ToType
<1>2. ban' > 0 /\ ban' \in 0..BanCooldown /\ saved <= ban' /\ watcher.left < ban'
  BY <1>0, Limits
<1>3. OneLocked' /\ SavesHaveBan'
  BY <1>0, <1>1, <1>2 DEF IInv, OneLocked, SavesHaveBan
<1>4. TypeOK'
  BY <1>1, <1>2 DEF IInv, TypeOK, work
<1>5. BanKept' /\ CheckInTime' /\ BanPending'
  BY <1>2 DEF IInv, BanKept, CheckInTime, BanPending, work
<1> QED
  BY <1>3, <1>4, <1>5 DEF IInv

LEMMA SaveBanStep ==
  ASSUME IInv, NEW x \in Actors, SaveBan(x)
  PROVE  IInv'
<1> USE DEF SaveBan
<1>0. up /\ ban > 0 /\ ban \in 0..BanCooldown
  BY BusyIsUp DEF IInv, TypeOK, SavesHaveBan
<1>1. /\ calls' \in [Actors -> Call] /\ Becomes(x, NoCall)
      /\ refused' \in [Aids -> {"no", "ban", "paused", "daily_cap"}]
  BY RefuseStep
<1>2. TypeOK'
  BY <1>0, <1>1 DEF IInv, TypeOK
<1>3. OneLocked' /\ SavesHaveBan'
  BY <1>0, <1>1, RecordTypes, FetchSteps
<1>4. BanKept' /\ CheckInTime' /\ BanPending'
  BY <1>0 DEF IInv, BanKept, CheckInTime, BanPending
<1> QED
  BY <1>2, <1>3, <1>4 DEF IInv

(* The check of the watcher sees a ban that is on. *)
LEMMA CheckStep ==
  ASSUME IInv, Check
  PROVE  IInv'
<1> USE DEF Check
<1>1. breaker' \in Breaker
  BY RecordTypes DEF IInv, TypeOK, Settled
<1>2. watcher' \in Watcher /\ (ban > 0 => watcher'.blocked)
  <2>1. Blocked \in BOOLEAN
    BY DEF Blocked, IsOpen, Exhausted, IInv, TypeOK, Breaker
  <2>2. watcher' = [left |-> CheckInterval, blocked |-> Blocked] /\ (ban > 0 => Blocked)
    BY DEF Noted, Blocked
  <2>3. CheckInterval \in 0..CheckInterval
    BY Limits
  <2> QED
    BY <2>1, <2>2, <2>3 DEF Watcher
<1>3. /\ refused' \in [Aids -> {"no", "ban", "paused", "daily_cap"}]
      /\ queue' \subseteq Aids
      /\ \A a \in Aids : refused'[a] = "ban" => refused[a] = "ban" /\ ~(watcher.blocked /\ ~Blocked)
  BY DEF IInv, TypeOK
<1>4. TypeOK'
  BY <1>1, <1>2, <1>3 DEF IInv, TypeOK
<1>5. OneLocked' /\ SavesHaveBan'
  BY DEF IInv, OneLocked, SavesHaveBan
<1>6. BanKept' /\ CheckInTime'
  BY <1>2 DEF IInv, BanKept, CheckInTime
<1>7. BanPending'
  <2>1. ASSUME NEW a \in Work, refused'[a] = "ban", ~watcher'.blocked PROVE ban' > 0
    <3>1. refused[a] = "ban" /\ ~Blocked /\ ~watcher.blocked
      BY <1>3, <2>1 DEF Noted, Aids
    <3> QED
      BY <3>1 DEF IInv, BanPending
  <2> QED
    BY <2>1 DEF BanPending
<1> QED
  BY <1>4, <1>5, <1>6, <1>7 DEF IInv

LEMMA DiscoverStep ==
  ASSUME IInv, NEW a \in Aids, Discover(a)
  PROVE  IInv'
<1> USE DEF Discover
<1>1. \A b \in Aids : refused'[b] = "ban" => refused[b] = "ban"
  BY DEF IInv, TypeOK
<1>2. TypeOK'
  BY DEF IInv, TypeOK, clocks
<1>3. OneLocked' /\ SavesHaveBan'
  BY DEF IInv, OneLocked, SavesHaveBan, clocks
<1>4. BanKept' /\ CheckInTime' /\ BanPending'
  BY <1>1, BanClaims DEF clocks
<1> QED
  BY <1>2, <1>3, <1>4 DEF IInv

LEMMA StopStep ==
  ASSUME IInv, Stop
  PROVE  IInv'
<1> USE DEF Stop
<1>1. \A x \in Actors : calls'[x].pc = "idle"
  BY RecordTypes
<1>2. watcher' \in Watcher
  BY Limits DEF Watcher
<1>3. TypeOK'
  <2>1. 0 \in 0..BanCooldown /\ 0 \in Nat
    BY Limits
  <2>2. calls' \in [Actors -> Call]
    BY RecordTypes
  <2> QED
    BY <1>2, <2>1, <2>2, RecordTypes DEF IInv, TypeOK
<1>4. OneLocked' /\ SavesHaveBan'
  BY <1>1 DEF OneLocked, SavesHaveBan
<1>5. BanKept' /\ CheckInTime' /\ BanPending'
  BY DEF IInv, BanKept, CheckInTime, BanPending
<1> QED
  BY <1>3, <1>4, <1>5 DEF IInv

(* The restored ban is the saved one; the library's jobs are queued anew. *)
LEMMA StartStep ==
  ASSUME IInv, Start
  PROVE  IInv'
<1> USE DEF Start, Restored
<1>0. saved \in 0..BanCooldown /\ (saved > 0) \in BOOLEAN
  BY DEF IInv, TypeOK
<1>1. watcher' \in Watcher /\ (saved > 0 => watcher'.blocked)
  BY <1>0 DEF IInv, TypeOK, Watcher
<1>2. /\ refused' \in [Aids -> {"no", "ban", "paused", "daily_cap"}]
      /\ \A a \in Work : refused'[a] = "no"
  BY DEF IInv, TypeOK, Aids
<1>3. TypeOK'
  BY <1>0, <1>1, <1>2 DEF IInv, TypeOK
<1>4. OneLocked' /\ SavesHaveBan'
  BY DEF IInv, OneLocked, SavesHaveBan
<1>5. BanKept' /\ CheckInTime'
  BY <1>0, <1>1 DEF IInv, BanKept, CheckInTime, TypeOK
<1>6. BanPending'
  BY <1>2 DEF BanPending
<1> QED
  BY <1>3, <1>4, <1>5, <1>6 DEF IInv

(* The timers go down together: none overtakes another. *)
LEMMA TickStep ==
  ASSUME IInv, Tick
  PROVE  IInv'
<1> USE DEF Tick
<1>1. /\ ban \in 0..BanCooldown /\ saved \in 0..BanCooldown /\ acked \in 0..BanCooldown
      /\ watcher \in Watcher /\ breaker \in Breaker /\ limiter \in Limiter /\ BanCooldown \in Nat
  BY Limits DEF IInv, TypeOK
<1>2. ban' \in 0..BanCooldown /\ saved' \in 0..BanCooldown /\ acked' \in 0..BanCooldown
  BY <1>1, DownBounds
<1>3. breaker' \in Breaker
  BY <1>1, Limits, DownBounds DEF Breaker
<1>4. watcher.left \in 0..CheckInterval /\ watcher'.blocked = watcher.blocked /\ watcher' \in Watcher
  <2>1. watcher.left \in 0..CheckInterval /\ Down(watcher.left) \in 0..CheckInterval
    BY <1>1, Limits, DownBounds DEF Watcher
  <2>2. PICK w : w = [watcher EXCEPT !.left = Down(watcher.left)]
    OBVIOUS
  <2>3. w \in Watcher /\ w.blocked = watcher.blocked
    BY <1>1, <2>1, <2>2 DEF Watcher
  <2>4. watcher' = w \/ watcher' = watcher
    BY <2>2
  <2> QED
    BY <1>1, <2>1, <2>3, <2>4
<1>5. limiter' \in Limiter /\ limiter'.count = limiter.count
  <2>1. PICK n \in 0..MinInterval : n = Down(limiter.gap)
    BY <1>1, Limits, DownBounds DEF Limiter
  <2>2. PICK l : l = [limiter EXCEPT !.gap = n]
    OBVIOUS
  <2>3. PICK m : m = [limiter EXCEPT !.gap = n, !.stale = TRUE]
    OBVIOUS
  <2>4. l \in Limiter /\ l.count = limiter.count /\ m \in Limiter /\ m.count = limiter.count
    BY <1>1, <2>2, <2>3 DEF Limiter
  <2>5. limiter' = l \/ limiter' = m
    BY <2>1, <2>2, <2>3
  <2> QED
    BY <2>4, <2>5
<1>6. day' \in 1..DayLength /\ sentToday' \in Nat /\ over' \subseteq Actors /\ late' \subseteq Actors
  BY Limits DEF IInv, TypeOK
<1>7. TypeOK'
  BY <1>2, <1>3, <1>4, <1>5, <1>6 DEF IInv, TypeOK, work
<1>8. OneLocked'
  BY <1>5 DEF IInv, OneLocked
<1>9. SavesHaveBan'
  BY DEF IInv, SavesHaveBan, Prompt
<1>10. BanKept'
  BY <1>1 DEF IInv, BanKept, Down
<1>11. up => watcher.left > 0 /\ watcher'.left = watcher.left - 1
  BY <1>1, <1>4 DEF Prompt, Down, Watcher
<1>12. up /\ ban > 0 /\ ~watcher.blocked => ban' > 0 /\ watcher'.left < ban'
  BY <1>1, <1>4, <1>11 DEF IInv, CheckInTime, Down
<1>13. CheckInTime'
  BY <1>1, <1>4, <1>12 DEF CheckInTime, Down
<1>14. BanPending'
  BY <1>4, <1>12 DEF IInv, BanPending, work
<1> QED
  BY <1>7, <1>8, <1>9, <1>10, <1>13, <1>14 DEF IInv
-----------------------------------------------------------------------------
(* The invariant is inductive. *)
LEMMA InductiveStep ==
  ASSUME IInv, [Next]_vars
  PROVE  IInv'
<1>1. ASSUME NEW x \in Actors, NEW a \in Aids, FromCache(x, a) \/ TurnedAway(x, a) \/ Begin(x, a)
      PROVE  IInv'
  BY <1>1, FromCacheStep, TurnedAwayStep, BeginStep
<1>2. ASSUME NEW x \in Actors, Step(x) PROVE IInv'
  BY <1>2, WaitOverStep, SendStep, HttpErrorStep, ErrorAnswerStep, DataStep, BanAnswerStep,
     RetryStep, SaveBanStep DEF Step, Answer
<1>3. CASE UNCHANGED vars
  BY <1>3 DEF vars, clocks, work, IInv, TypeOK, OneLocked, SavesHaveBan, BanKept, CheckInTime,
              BanPending
<1> QED
  BY <1>1, <1>2, <1>3, AcquireStep, DiscoverStep, CheckStep, StopStep, StartStep, TickStep DEF Next

(* The invariant holds in every reachable state. *)
THEOREM Inductive == Spec => []IInv
<1>1. Init => IInv
  <2> SUFFICES ASSUME Init PROVE IInv
    OBVIOUS
  <2>1. TypeOK
    BY RecordTypes, Limits DEF Init, TypeOK, Watcher
  <2>2. \A x \in Actors : calls[x].pc = "idle"
    BY RecordTypes DEF Init
  <2>3. OneLocked /\ SavesHaveBan
    BY <2>2 DEF OneLocked, SavesHaveBan
  <2>4. BanKept /\ CheckInTime /\ BanPending
    BY DEF Init, BanKept, CheckInTime, BanPending, Aids
  <2> QED
    BY <2>1, <2>3, <2>4 DEF IInv
<1>2. IInv /\ [Next]_vars => IInv'
  BY InductiveStep
<1> QED
  BY <1>1, <1>2, PTL DEF Spec

(* Every variable keeps its type; the count of a day never passes the cap,
   whoever waits for the limiter. *)
THEOREM TypeCorrect == Spec => []TypeOK
<1>1. IInv => TypeOK
  BY DEF IInv
<1> QED
  BY <1>1, Inductive, PTL

(* The watcher has seen, or is going to see, every ban that made the job of a
   library anime fail. *)
THEOREM BanIsNoticed == Spec => []BanRefusalsNoticed
<1>1. IInv => BanRefusalsNoticed
  BY DEF IInv, BanPending, BanRefusalsNoticed, Noticed, Blocked
<1> QED
  BY <1>1, Inductive, PTL

(* No fetch that begins after a caller was told of a ban reaches the limiter
   before the ban is over, also after a restart. *)
THEOREM BanKeepsFetchesBack == Spec => NoNewFetchInBan
<1>1. ASSUME IInv, NEW x \in Actors, NEW a \in Aids, Begin(x, a) PROVE acked = 0
  BY <1>1, AsksStep DEF IInv, TypeOK, BanKept, Begin
<1>2. IInv /\ [Next]_vars => [\A x \in Actors, a \in Aids : Begin(x, a) => acked = 0]_vars
  BY <1>1
<1> QED
  BY <1>2, Inductive, PTL DEF Spec, NoNewFetchInBan
-----------------------------------------------------------------------------
(* The cap of the day.  A call is counted before it is sent, so the count of  *)
(* the limiter runs ahead of the requests that go out, but for those a        *)
(* midnight has caught in between, with the count beginning anew.             *)

Due(x)  == calls[x].pc = "announce"
Held(x) == calls[x].pc = "locked"

\* Counted today, and not sent yet.
Fresh == {x \in Actors : Due(x) /\ x \notin over}

\* The calls midnight caught are still unsent; any other that holds the lock
\* has begun the count of the day.
OverUnsent ==
  /\ over \cap late = {}
  /\ \A x \in over : Due(x) \/ Held(x)
  /\ \A x \in Actors : Held(x) /\ x \notin over => ~limiter.stale

Counted == sentToday + Cardinality(Fresh) <= CallsToday + Cardinality(late)

CapInv == OverUnsent /\ Counted

LEMMA ActorsAreFinite ==
  \A S : S \subseteq Actors => IsFiniteSet(S) /\ Cardinality(S) \in Nat
<1>1. IsFiniteSet(Actors)
  BY GateAssumption, FS_AddElement DEF Actors
<1> QED
  BY <1>1, FS_Subset, FS_CardinalityType

LEMMA OneMore ==
  ASSUME NEW S, S \subseteq Actors, NEW x \in Actors, x \notin S
  PROVE  Cardinality(S \cup {x}) = Cardinality(S) + 1
BY ActorsAreFinite, FS_AddElement

LEMMA Sizes ==
  ASSUME IInv
  PROVE  /\ sentToday \in Nat /\ CallsToday \in 0..DailyCap
         /\ over \subseteq Actors /\ late \subseteq Actors /\ Fresh \subseteq Actors
         /\ Cardinality(late) \in Nat /\ Cardinality(Fresh) \in Nat
<1>1. limiter.count \in 0..DailyCap /\ 0 \in 0..DailyCap
  BY Limits DEF IInv, TypeOK, Limiter
<1>2. CallsToday \in 0..DailyCap
  BY <1>1 DEF CallsToday
<1>3. late \subseteq Actors /\ Fresh \subseteq Actors
  BY DEF IInv, TypeOK, Fresh
<1> QED
  BY <1>2, <1>3, ActorsAreFinite DEF IInv, TypeOK

(* A step that counts and sends nothing, and brings no one to the lock or to
   its request nor away from them, keeps the claims. *)
LEMMA CalmStep ==
  ASSUME CapInv, limiter' = limiter, UNCHANGED sends,
         \A x \in Actors : (Due(x)' <=> Due(x)) /\ (Held(x)' <=> Held(x)),
         over \subseteq Actors
  PROVE  CapInv'
<1>1. Fresh' = Fresh /\ CallsToday' = CallsToday
  BY DEF Fresh, CallsToday
<1>2. Counted'
  BY <1>1 DEF CapInv, Counted
<1>3. OverUnsent'
  BY DEF CapInv, OverUnsent
<1> QED
  BY <1>2, <1>3 DEF CapInv

(* An actor that moves, but neither from nor to the lock or its request, is calm. *)
LEMMA MoverIsCalm ==
  ASSUME IInv, CapInv, NEW x \in Actors, NEW c, Becomes(x, c), c.pc \notin {"locked", "announce"},
         calls[x].pc \notin {"locked", "announce"}, limiter' = limiter, UNCHANGED sends
  PROVE  CapInv'
<1>1. calls'[x] = c /\ \A y \in Actors \ {x} : calls'[y] = calls[y]
  BY OthersKeepTheirs DEF IInv, TypeOK
<1>2. \A y \in Actors : (Due(y)' <=> Due(y)) /\ (Held(y)' <=> Held(y))
  BY <1>1 DEF Due, Held
<1> QED
  BY <1>2, CalmStep, Sizes

LEMMA ToMoves ==
  ASSUME IInv, NEW x \in Actors,
         NEW pc \in {"idle", "gate", "locked", "announce", "sent", "backoff", "save"}, To(x, pc)
  PROVE  \E c : Becomes(x, c) /\ c.pc = pc
<1>1. [calls[x] EXCEPT !.pc = pc].pc = pc
  BY DEF IInv, TypeOK, Call
<1> QED
  BY <1>1 DEF To

LEMMA AskerCaps ==
  ASSUME IInv, CapInv, NEW x \in Actors, NEW a \in Aids,
         FromCache(x, a) \/ TurnedAway(x, a) \/ Begin(x, a)
  PROVE  CapInv'
<1>0. calls[x].pc \notin {"locked", "announce"}
  BY DEF FromCache, TurnedAway, Begin, Asks
<1>1. CASE FromCache(x, a)
  BY <1>0, <1>1, MoverIsCalm, RecordTypes DEF FromCache, Deliver, clocks
<1>2. CASE TurnedAway(x, a)
  BY <1>0, <1>2, MoverIsCalm, RecordTypes DEF TurnedAway, Refuse, clocks
<1>3. CASE Begin(x, a)
  BY <1>0, <1>3, MoverIsCalm DEF Begin
<1> QED
  BY <1>1, <1>2, <1>3

LEMMA AnswerCaps ==
  ASSUME IInv, CapInv, NEW x \in Actors, Answer(x) \/ Retry(x) \/ SaveBan(x)
  PROVE  CapInv'
<1>0. calls[x].pc \notin {"locked", "announce"}
  BY DEF Answer, HttpError, ErrorAnswer, Data, BanAnswer, Retry, SaveBan
<1>1. CASE HttpError(x)
  <2> DEFINE c == [calls[x] EXCEPT !.pc = "backoff", !.tries = calls[x].tries + 1]
  <2>1. c.pc = "backoff"
    BY DEF IInv, TypeOK, Call
  <2>2. \E d : Becomes(x, d) /\ d.pc \in {"backoff", "idle"}
    BY <1>1, <2>1, RecordTypes DEF HttpError
  <2> QED
    BY <1>0, <1>1, <2>2, MoverIsCalm DEF HttpError
<1>2. CASE ErrorAnswer(x)
  BY <1>0, <1>2, MoverIsCalm, RecordTypes DEF ErrorAnswer
<1>3. CASE Data(x)
  BY <1>0, <1>3, MoverIsCalm, RecordTypes DEF Data, Deliver
<1>4. CASE BanAnswer(x)
  BY <1>0, <1>4, MoverIsCalm, ToMoves DEF BanAnswer
<1>5. CASE Retry(x)
  BY <1>0, <1>5, MoverIsCalm, ToMoves DEF Retry, clocks
<1>6. CASE SaveBan(x)
  BY <1>0, <1>6, MoverIsCalm, RecordTypes DEF SaveBan, Refuse
<1> QED
  BY <1>1, <1>2, <1>3, <1>4, <1>5, <1>6 DEF Answer

(* The count begins anew with the first call of a day that gets the lock. *)
LEMMA AcquireCaps ==
  ASSUME IInv, CapInv, NEW x \in Actors, Acquire(x)
  PROVE  CapInv'
<1> USE DEF Acquire
<1>0. limiter \in Limiter /\ calls \in [Actors -> Call]
  BY DEF IInv, TypeOK
<1>1. limiter'.count = CallsToday /\ limiter'.stale = FALSE
  <2>1. PICK l : l = [limiter EXCEPT !.count = CallsToday, !.stale = FALSE]
    OBVIOUS
  <2> QED
    BY <1>0, <2>1 DEF Limiter
<1>2. UNCHANGED sends /\ CallsToday' = CallsToday
  BY <1>1 DEF CallsToday
<1>3. ~Due(x) /\ ~Held(x)
  BY DEF Due, Held
<1>4. (\A y \in Actors : Due(y)' <=> Due(y)) /\ (\A y \in Actors : Held(y) => Held(y)')
  <2>1. \E c : Becomes(x, c) /\ c.pc # "announce"
    BY RecordTypes, ToMoves DEF CapReached, Refuse
  <2>2. PICK c : Becomes(x, c) /\ c.pc # "announce"
    BY <2>1
  <2>3. calls'[x] = c /\ \A y \in Actors \ {x} : calls'[y] = calls[y]
    BY <1>0, <2>2, OthersKeepTheirs
  <2> QED
    BY <1>3, <2>2, <2>3 DEF Due, Held
<1>5. Fresh' = Fresh
  BY <1>2, <1>4 DEF Fresh
<1>6. Counted'
  BY <1>2, <1>5 DEF CapInv, Counted
<1>7. OverUnsent'
  BY <1>1, <1>2, <1>4, Sizes DEF CapInv, OverUnsent
<1> QED
  BY <1>6, <1>7 DEF CapInv

(* A call that counts for today may be sent today. *)
LEMMA WaitOverCaps ==
  ASSUME IInv, CapInv, NEW x \in Actors, WaitOver(x)
  PROVE  CapInv'
<1> USE DEF WaitOver
<1>0. limiter \in Limiter /\ calls \in [Actors -> Call] /\ limiter.count \in Nat
  BY Limits DEF IInv, TypeOK, Limiter
<1>1. limiter'.count = limiter.count + 1 /\ limiter'.stale = limiter.stale
  <2>1. PICK n : n = limiter.count + 1
    OBVIOUS
  <2>2. PICK l : l = [limiter EXCEPT !.gap = MinInterval, !.count = n]
    OBVIOUS
  <2> QED
    BY <1>0, <2>1, <2>2 DEF Limiter
<1>2. UNCHANGED sends
  OBVIOUS
<1>3. calls'[x].pc = "announce" /\ \A y \in Actors \ {x} : calls'[y] = calls[y]
  BY <1>0, ToType
<1>4. Held(x) /\ ~Due(x)
  BY DEF Held, Due
<1>5. /\ sentToday \in Nat /\ CallsToday \in 0..DailyCap
      /\ over \subseteq Actors /\ late \subseteq Actors /\ Fresh \subseteq Actors
      /\ Cardinality(late) \in Nat /\ Cardinality(Fresh) \in Nat
  BY Sizes
<1>6. Counted'
  <2>1. CASE x \in over
    <3>1. Fresh' = Fresh
      BY <1>2, <1>3, <1>4, <2>1 DEF Fresh, Due
    <3>2. CallsToday' >= CallsToday /\ CallsToday' \in Nat
      BY <1>0, <1>1 DEF CallsToday
    <3> QED
      BY <1>2, <1>5, <3>1, <3>2 DEF CapInv, Counted
  <2>2. CASE x \notin over
    <3>1. Fresh' = Fresh \cup {x} /\ x \notin Fresh
      BY <1>2, <1>3, <1>4, <2>2 DEF Fresh, Due
    <3>2. Cardinality(Fresh') = Cardinality(Fresh) + 1
      BY <1>5, <3>1, OneMore
    <3>3. CallsToday' = CallsToday + 1
      BY <1>0, <1>1, <1>4, <2>2 DEF CallsToday, CapInv, OverUnsent
    <3> QED
      BY <1>2, <1>5, <3>2, <3>3 DEF CapInv, Counted
  <2> QED
    BY <2>1, <2>2
<1>7. OverUnsent'
  BY <1>1, <1>2, <1>3, <1>5 DEF CapInv, OverUnsent, Due, Held
<1> QED
  BY <1>6, <1>7 DEF CapInv

(* What is sent was counted today, or caught by midnight. *)
LEMMA SendCaps ==
  ASSUME IInv, CapInv, NEW x \in Actors, Send(x)
  PROVE  CapInv'
<1> USE DEF Send
<1>0. calls \in [Actors -> Call]
  BY DEF IInv, TypeOK
<1>1. limiter' = limiter /\ CallsToday' = CallsToday /\ sentToday' = sentToday + 1 /\ over' = over \ {x}
  BY DEF clocks, CallsToday
<1>2. Due(x) /\ calls'[x].pc = "sent" /\ \A y \in Actors \ {x} : calls'[y] = calls[y]
  BY <1>0, ToType DEF Due
<1>3. Fresh' = Fresh \ {x}
  BY <1>1, <1>2 DEF Fresh, Due
<1>4. Counted' /\ over' \cap late' = {}
  <2>1. CASE x \in over
    <3>1. late' = late \cup {x} /\ x \notin late
      BY <2>1 DEF CapInv, OverUnsent
    <3>2. Cardinality(late') = Cardinality(late) + 1
      BY <3>1, OneMore, Sizes
    <3>3. Fresh' = Fresh
      BY <1>3, <2>1 DEF Fresh
    <3> QED
      BY <1>1, <3>1, <3>2, <3>3, Sizes DEF CapInv, Counted, OverUnsent
  <2>2. CASE x \notin over
    <3>1. x \in Fresh /\ late' = late
      BY <1>2, <2>2 DEF Fresh
    <3>2. Cardinality(Fresh) = Cardinality(Fresh') + 1 /\ Cardinality(Fresh') \in Nat
      <4>1. Fresh = Fresh' \cup {x} /\ x \notin Fresh' /\ Fresh' \subseteq Actors
        BY <1>3, <3>1, Sizes
      <4> QED
        BY <4>1, OneMore, ActorsAreFinite
    <3> QED
      BY <1>1, <3>1, <3>2, Sizes DEF CapInv, Counted, OverUnsent
  <2> QED
    BY <2>1, <2>2
<1>5. OverUnsent'
  BY <1>1, <1>2, <1>4, Sizes DEF CapInv, OverUnsent, Due, Held
<1> QED
  BY <1>4, <1>5 DEF CapInv

LEMMA NobodyDue ==
  ASSUME sentToday' = 0, late' = {}, limiter'.stale, Fresh' = {}
  PROVE  Counted'
BY FS_EmptySet DEF Counted, CallsToday

(* A process that stops leaves nothing due. *)
LEMMA StopCaps ==
  ASSUME Stop
  PROVE  CapInv'
<1>1. /\ limiter'.stale /\ sentToday' = 0 /\ over' = {} /\ late' = {}
      /\ \A x \in Actors : calls'[x].pc = "idle"
  BY RecordTypes DEF Stop, NewLimiter
<1>2. Fresh' = {}
  BY <1>1 DEF Fresh, Due
<1>3. Counted'
  BY <1>1, <1>2, NobodyDue
<1> QED
  BY <1>1, <1>3 DEF CapInv, OverUnsent, Held

(* With a new day every call that is still to go out is one midnight caught. *)
LEMMA TickCaps ==
  ASSUME IInv, CapInv, Tick
  PROVE  CapInv'
<1> USE DEF Tick
<1>0. limiter \in Limiter /\ calls' = calls
  BY DEF IInv, TypeOK
<1>1. CASE day = 1
  <2>1. limiter'.stale
    <3>1. PICK d : d = Down(limiter.gap)
      OBVIOUS
    <3>2. PICK l : l = [limiter EXCEPT !.gap = d, !.stale = TRUE]
      OBVIOUS
    <3> QED
      BY <1>0, <1>1, <3>1, <3>2 DEF Limiter
  <2>2. sentToday' = 0 /\ late' = {} /\ over' = {x \in Actors : calls[x].pc \in {"locked", "announce"}}
    BY <1>1
  <2>3. Fresh' = {}
    BY <1>0, <2>2 DEF Fresh, Due
  <2>4. Counted'
    BY <2>1, <2>2, <2>3, NobodyDue
  <2> QED
    BY <1>0, <2>2, <2>4 DEF CapInv, OverUnsent, Due, Held
<1>2. CASE day # 1
  <2>1. limiter'.stale = limiter.stale /\ limiter'.count = limiter.count
    BY <1>0, <1>2 DEF Limiter
  <2>2. UNCHANGED sends
    BY <1>2
  <2>3. Fresh' = Fresh /\ CallsToday' = CallsToday
    BY <1>0, <2>1, <2>2 DEF Fresh, Due, CallsToday
  <2> QED
    BY <1>0, <2>1, <2>2, <2>3 DEF CapInv, OverUnsent, Counted, Due, Held
<1> QED
  BY <1>1, <1>2

LEMMA CapStep ==
  ASSUME IInv, CapInv, [Next]_vars
  PROVE  CapInv'
<1>1. CASE \E a \in Aids : Discover(a)
  BY <1>1, CalmStep, Sizes DEF Discover, clocks, Due, Held
<1>2. CASE Check
  BY <1>2, CalmStep, Sizes DEF Check, Due, Held
<1>3. CASE Start
  BY <1>3, CalmStep, Sizes DEF Start, Due, Held
<1>4. CASE UNCHANGED vars
  BY <1>4, CalmStep, Sizes DEF vars, clocks, Due, Held
<1>5. ASSUME NEW x \in Actors, Step(x) PROVE CapInv'
  BY <1>5, WaitOverCaps, SendCaps, AnswerCaps DEF Step
<1> QED
  BY <1>1, <1>2, <1>3, <1>4, <1>5, AskerCaps, AcquireCaps, StopCaps, TickCaps DEF Next

(* A process sends at most DailyCap requests on any day, and once more for
   each actor whose call midnight caught unsent, however many fetch at once,
   however long the UI takes to be told and wherever the process ends. *)
THEOREM CapIsHeld == Spec => []DailyCapHeld
<1>1. Init => CapInv
  <2> SUFFICES ASSUME Init PROVE CapInv
    OBVIOUS
  <2>1. /\ limiter.stale /\ sentToday = 0 /\ over = {} /\ late = {}
        /\ \A x \in Actors : calls[x].pc = "idle"
    BY RecordTypes DEF Init, NewLimiter
  <2>2. Fresh = {} /\ CallsToday = 0
    BY <2>1 DEF Fresh, Due, CallsToday
  <2>3. Counted
    BY <2>1, <2>2, FS_EmptySet DEF Counted
  <2> QED
    BY <2>1, <2>3 DEF CapInv, OverUnsent, Held
<1>2. IInv /\ CapInv /\ [Next]_vars => CapInv'
  BY CapStep
<1>3. IInv /\ CapInv => DailyCapHeld
  BY Sizes, Limits DEF CapInv, Counted, DailyCapHeld
<1> QED
  BY <1>1, <1>2, <1>3, Inductive, PTL DEF Spec
===============================================================================
