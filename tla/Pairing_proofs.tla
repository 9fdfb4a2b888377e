---------------------------- MODULE Pairing_proofs ----------------------------
(***************************************************************************)
(* Proofs about Pairing for any number of shells, codes, keys and restarts:  *)
(* the types, that a code lets in one device, that a shell with a server     *)
(* holds the key the server has for it, and that an admin stays.             *)
(***************************************************************************)
EXTENDS Pairing, FiniteSetTheorems, WellFoundedInduction, TLAPS

Answers == {"none", "admin", "overtaken", "refused", "paired", "joined", "pending", "approved", "rejected"}

(* A call is about a key, unless it revokes a device. *)
Keyed == \A t \in task : t.op # "revoke" => t.key # NoKey

Typed == TypeOK /\ Keyed /\ IsFiniteSet(codes)

-----------------------------------------------------------------------------
(* Types. *)

LEMMA BoundsAreNumbers ==
  /\ MaxCodeAttempts \in Nat /\ MaxCodeAttempts > 0 /\ MaxPairingCodes \in Nat /\ MaxPairingCodes > 0
  /\ MaxKeys \in Nat /\ MaxCodes \in Nat /\ MaxCodes > 0 /\ MaxStops \in Nat
BY PairingAssumption

(* A call that is replaced, answered or ended leaves calls. *)
LEMMA GoesType ==
  ASSUME Typed, NEW t \in task, NEW u \in Calls, Goes(t, u), u.op # "revoke" => u.key # NoKey
  PROVE  task' \subseteq Calls /\ Keyed'
BY DEF Typed, TypeOK, Keyed, Goes

LEMMA EndsType ==
  ASSUME Typed, NEW t, Ends(t)
  PROVE  task' \subseteq Calls /\ Keyed'
BY DEF Typed, TypeOK, Keyed, Ends

LEMMA AnswerType ==
  ASSUME Typed, NEW t \in task, NEW a \in Answers, NEW d \in Nat, Answer(t, a, d)
  PROVE  task' \subseteq Calls /\ Keyed'
<1>1. CASE t.to = Nobody
  BY <1>1, EndsType DEF Answer
<1>2. CASE t.to # Nobody
  <2> DEFINE u == [t EXCEPT !.at = "answered", !.ans = a, !.dev = d]
  <2>1. t \in Calls
    BY DEF Typed, TypeOK
  <2>2. u \in Calls /\ u.op = t.op /\ u.key = t.key
    BY <2>1 DEF Calls, Answers
  <2>3. u.op # "revoke" => u.key # NoKey
    BY <2>2 DEF Typed, Keyed
  <2>4. Goes(t, u)
    BY <1>2 DEF Answer
  <2> QED
    BY ONLY <2>2, <2>3, <2>4, GoesType, Typed, t \in task
<1> QED
  BY <1>1, <1>2

\* The variables but the calls; what is changed in the store is typed apart.
OthersTyped ==
  /\ device \in Seq([key : 1 .. MaxKeys, admin : BOOLEAN, revoked : BOOLEAN])
  /\ setupCode \in Codes \union {NoCode}
  /\ codes \subseteq Codes /\ Cardinality(codes) <= MaxPairingCodes /\ IsFiniteSet(codes)
  /\ DOMAIN request \subseteq 1 .. MaxKeys
  /\ \A k \in DOMAIN request :
       request[k] \in [status : {"pending", "approved", "rejected"}, dev : Nat]
  /\ shell \in [Shells -> [server : Nat, key : 0 .. MaxKeys, pending : 0 .. MaxKeys,
                          pairing : 0 .. MaxKeys, waiting : BOOLEAN]]
  /\ lastKey \in 0 .. MaxKeys /\ lastCode \in 1 .. MaxCodes /\ stops \in 0 .. MaxStops
  /\ letIn \subseteq (1 .. MaxCodes) \X (1 .. MaxKeys)
  /\ alone \in [Shells -> BOOLEAN]

LEMMA TypedParts == Typed <=> OthersTyped /\ task \subseteq Calls /\ Keyed
BY DEF Typed, TypeOK, OthersTyped

LEMMA TypedNext ==
  ASSUME OthersTyped', task' \subseteq Calls, Keyed'
  PROVE  Typed'
BY DEF Typed, TypeOK, OthersTyped

LEMMA OthersSame ==
  ASSUME OthersTyped, UNCHANGED <<device, store, shell, bounds, ghosts>>
  PROVE  OthersTyped'
<1> UNCHANGED <<device, setupCode, codes, request, shell, lastKey, lastCode, stops, letIn, alone>>
  BY DEF store, bounds, ghosts
<1> QED
  BY DEF OthersTyped

(* A miss keeps the codes, with fewer attempts. *)
LEMMA MissedType ==
  ASSUME codes \subseteq Codes, IsFiniteSet(codes)
  PROVE  /\ Missed(codes) \subseteq Codes /\ IsFiniteSet(Missed(codes))
         /\ Cardinality(Missed(codes)) <= Cardinality(codes)
         /\ \A o \in Missed(codes) : \E q \in codes : q.code = o.code
<1> DEFINE L == {q \in codes : q.left > 1}
           F == [o \in L |-> [o EXCEPT !.left = @ - 1]]
<1>1. IsFiniteSet(L) /\ Cardinality(L) <= Cardinality(codes)
  BY FS_Subset
<1>2. F \in Surjection(L, Missed(codes))
  BY DEF Surjection, Missed
<1>3. Cardinality(Missed(codes)) <= Cardinality(L) /\ IsFiniteSet(Missed(codes))
  BY <1>1, <1>2, FS_Surjection
<1>4. Missed(codes) \subseteq Codes
  BY PairingAssumption DEF Missed, Codes
<1>5. \A o \in Missed(codes) : \E q \in codes : q.code = o.code
  BY DEF Missed, Codes
<1> QED
  BY <1>1, <1>3, <1>4, <1>5, FS_CardinalityType

\* What a shell keeps.
Kept == [server : Nat, key : 0 .. MaxKeys, pending : 0 .. MaxKeys, pairing : 0 .. MaxKeys,
         waiting : BOOLEAN]

LEMMA ShellTyped == OthersTyped => shell \in [Shells -> Kept]
BY DEF OthersTyped, Kept

(* Only shells change, and stay well typed. *)
LEMMA ShellSame ==
  ASSUME OthersTyped, shell' \in [Shells -> Kept],
         UNCHANGED <<device, setupCode, codes, request, lastCode, letIn>>,
         lastKey' \in 0 .. MaxKeys, stops' \in 0 .. MaxStops, alone' \in [Shells -> BOOLEAN]
  PROVE  OthersTyped'
BY DEF OthersTyped, Kept

\* A row of the table of devices.
Device == [key : 1 .. MaxKeys, admin : BOOLEAN, revoked : BOOLEAN]

LEMMA CreateType ==
  ASSUME OthersTyped, NEW k \in 1 .. MaxKeys, NEW admin \in BOOLEAN, CreateDevice(k, admin)
  PROVE  /\ device' \in Seq([key : 1 .. MaxKeys, admin : BOOLEAN, revoked : BOOLEAN])
         /\ Len(device') = Len(device) + 1 /\ Len(device') \in Nat
<1> DEFINE row == [key |-> k, admin |-> admin, revoked |-> FALSE]
<1>1. row \in Device
  BY DEF Device
<1>2. device \in Seq(Device) /\ device' = Append(device, row)
  BY DEF OthersTyped, Device, CreateDevice
<1>3. device' \in Seq(Device) /\ Len(device') = Len(device) + 1 /\ Len(device') \in Nat
  BY <1>1, <1>2
<1> QED
  BY <1>3 DEF Device

LEMMA CallFields ==
  ASSUME NEW t \in Calls
  PROVE  DOMAIN t = {"to", "op", "at", "key", "code", "dev", "ans", "shown"}
BY DEF Calls

(* A call without its caller, or without its wizard, is a call. *)
LEMMA GoneType ==
  ASSUME NEW t \in Calls
  PROVE  /\ [t EXCEPT !.to = Nobody, !.shown = FALSE] \in Calls
         /\ [t EXCEPT !.to = Nobody, !.shown = FALSE].to = Nobody
         /\ [t EXCEPT !.to = Nobody, !.shown = FALSE].op = t.op
         /\ [t EXCEPT !.to = Nobody, !.shown = FALSE].at = t.at
         /\ [t EXCEPT !.to = Nobody, !.shown = FALSE].key = t.key
         /\ [t EXCEPT !.to = Nobody, !.shown = FALSE].dev = t.dev
         /\ [t EXCEPT !.to = Nobody, !.shown = FALSE].ans = t.ans
         /\ [t EXCEPT !.shown = FALSE] \in Calls
         /\ [t EXCEPT !.shown = FALSE].to = t.to
         /\ [t EXCEPT !.shown = FALSE].op = t.op
         /\ [t EXCEPT !.shown = FALSE].at = t.at
         /\ [t EXCEPT !.shown = FALSE].key = t.key
         /\ [t EXCEPT !.shown = FALSE].dev = t.dev
         /\ [t EXCEPT !.shown = FALSE].ans = t.ans
BY Zenon, CallFields DEF Calls

(* A call that has been overtaken is a call. *)
LEMMA OvertakenType ==
  ASSUME Typed, NEW ts \in SUBSET task, NEW d, task' = Overtaken(ts, d)
  PROVE  task' \subseteq Calls /\ Keyed'
<1>1. ASSUME NEW t \in task
      PROVE  [t EXCEPT !.ans = "overtaken"] \in Calls /\ [t EXCEPT !.ans = "overtaken"].op = t.op
             /\ [t EXCEPT !.ans = "overtaken"].key = t.key
  BY TypedParts DEF Calls
<1>2. ASSUME NEW u \in task' PROVE u \in Calls /\ (u.op # "revoke" => u.key # NoKey)
  <2>1. PICK t \in task : u = t \/ u = [t EXCEPT !.ans = "overtaken"]
    BY <1>2 DEF Overtaken
  <2>2. t \in Calls /\ (t.op # "revoke" => t.key # NoKey)
    BY TypedParts DEF Keyed
  <2> QED
    BY <1>1, <2>1, <2>2
<1> QED
  BY <1>2 DEF Keyed

(* Every handler of the server keeps the types. *)
LEMMA HandlerType ==
  ASSUME Typed, NEW t \in task, Handler(t)
  PROVE  Typed'
<1> t \in Calls /\ (t.op # "revoke" => t.key \in 1 .. MaxKeys) /\ OthersTyped
  BY TypedParts DEF Keyed, NoKey, Calls
<1> USE BoundsAreNumbers
<1>1. ASSUME SetupAsked(t) PROVE Typed'
  <2> DEFINE c == Proved(t.code, {setupCode.code})
             u == [t EXCEPT !.at = "proof", !.code = c]
  <2>c. c \in 0 .. MaxCodes
    BY DEF Calls, Proved, Wrong
  <2>1. u \in Calls /\ u.op = t.op /\ u.key = t.key
    BY <2>c DEF Calls
  <2>2. task' \subseteq Calls /\ Keyed'
    <3>1. CASE Answer(t, "refused", NoDevice)
      BY <3>1, AnswerType DEF Answers, NoDevice
    <3>2. CASE Goes(t, u)
      BY <3>2, <2>1, GoesType DEF Typed, Keyed
    <3> QED
      BY <1>1, <3>1, <3>2 DEF SetupAsked
  <2>3. OthersTyped'
    <3>1. UNCHANGED <<device, store, shell, bounds, ghosts>>
      BY <1>1 DEF SetupAsked
    <3> QED
      BY <3>1, OthersSame
  <2> QED
    BY <2>2, <2>3, TypedNext
<1>2. ASSUME SetupProved(t) PROVE Typed'
  <2> DEFINE u == [t EXCEPT !.at = "create"]
  <2>1. u \in Calls /\ u.op = t.op /\ u.key = t.key /\ t.op = "setup"
    BY <1>2 DEF Calls, SetupProved, At
  <2>2. task' \subseteq Calls /\ Keyed'
    <3>1. CASE Answer(t, "refused", NoDevice)
      BY <3>1, AnswerType DEF Answers, NoDevice
    <3>2. CASE Goes(t, u)
      BY <3>2, <2>1, GoesType DEF Typed, Keyed
    <3> QED
      BY <1>2, <3>1, <3>2 DEF SetupProved
  <2>3. setupCode' \in Codes \union {NoCode}
    <3>1. CASE setupCode' = NoCode
      BY <3>1
    <3>2. CASE /\ setupCode \in Codes /\ setupCode.left # 1
               /\ setupCode' = [setupCode EXCEPT !.left = @ - 1]
      BY <3>2 DEF Codes
    <3> QED
      BY <1>2, <3>1, <3>2 DEF SetupProved, UseSetupCode, OthersTyped
  <2>4. letIn' \subseteq (1 .. MaxCodes) \X (1 .. MaxKeys)
    <3>1. CASE IsSetupCode(t.code)
      <4>1. t.code \in 1 .. MaxCodes /\ t.key \in 1 .. MaxKeys
        BY <2>1, <3>1 DEF IsSetupCode, OthersTyped, Codes
      <4>2. letIn' = letIn \union {<<t.code, t.key>>}
        BY <1>2, <3>1 DEF SetupProved
      <4> QED
        BY <4>1, <4>2 DEF OthersTyped
    <3> QED
      BY <1>2, <3>1 DEF SetupProved, OthersTyped
  <2>5. OthersTyped'
    BY <1>2, <2>3, <2>4 DEF SetupProved, OthersTyped, bounds, ghosts
  <2> QED
    BY <2>2, <2>5, TypedNext
<1>3. ASSUME SetupCreates(t) PROVE Typed'
  <2>1. device' \in Seq([key : 1 .. MaxKeys, admin : BOOLEAN, revoked : BOOLEAN])
    BY <1>3, CreateType DEF SetupCreates, At
  <2>2. task' \subseteq Calls /\ Keyed'
    BY <1>3, <2>1, AnswerType DEF SetupCreates, Answers
  <2>3. OthersTyped'
    BY <1>3, <2>1 DEF SetupCreates, OthersTyped, store, bounds, ghosts
  <2> QED
    BY <2>2, <2>3, TypedNext
<1>4. ASSUME JoinAsked(t) PROVE Typed'
  <2> DEFINE c == Proved(t.code, {o.code : o \in codes})
             u == [t EXCEPT !.at = "proof", !.code = c]
  <2>c. c \in 0 .. MaxCodes
    BY DEF Calls, Proved, Wrong
  <2>1. u \in Calls /\ u.op = t.op /\ u.key = t.key
    BY <2>c DEF Calls
  <2>2. task' \subseteq Calls /\ Keyed'
    <3>1. CASE Answer(t, "refused", NoDevice)
      BY <3>1, AnswerType DEF Answers, NoDevice
    <3>2. CASE Goes(t, u)
      BY <3>2, <2>1, GoesType DEF Typed, Keyed
    <3> QED
      BY <1>4, <3>1, <3>2 DEF JoinAsked
  <2>3. OthersTyped'
    BY <1>4, OthersSame DEF JoinAsked
  <2> QED
    BY <2>2, <2>3, TypedNext
<1>5. ASSUME JoinProved(t) PROVE Typed'
  <2>1. t.key \in 1 .. MaxKeys
    BY <1>5 DEF JoinProved, At
  <2>2. task' \subseteq Calls /\ Keyed'
    BY <1>5, AnswerType DEF JoinProved, Answers, NoDevice
  <2>3. codes' \subseteq Codes /\ Cardinality(codes') <= MaxPairingCodes /\ IsFiniteSet(codes')
    <3>1. CASE Open(t.code)
      <4>1. codes' = {o \in codes : o.code # t.code}
        BY <1>5, <3>1 DEF JoinProved, UsePairingCode
      <4>2. Cardinality(codes') <= Cardinality(codes) /\ IsFiniteSet(codes') /\ codes' \subseteq codes
        BY <4>1, FS_Subset DEF OthersTyped
      <4> QED
        BY <4>2, FS_CardinalityType DEF OthersTyped
    <3>2. CASE ~Open(t.code)
      <4>1. codes' = Missed(codes)
        BY <1>5, <3>2 DEF JoinProved, UsePairingCode
      <4> QED
        BY <4>1, MissedType, FS_CardinalityType DEF OthersTyped
    <3> QED
      BY <3>1, <3>2
  <2>4. /\ DOMAIN request' \subseteq 1 .. MaxKeys
        /\ \A k \in DOMAIN request' :
             request'[k] \in [status : {"pending", "approved", "rejected"}, dev : Nat]
    BY <1>5, <2>1 DEF JoinProved, OthersTyped, NoDevice
  <2>5. letIn' \subseteq (1 .. MaxCodes) \X (1 .. MaxKeys)
    <3>1. CASE Open(t.code)
      <4>1. t.code \in 1 .. MaxCodes
        BY <3>1 DEF Open, OthersTyped, Codes
      <4>2. letIn' = letIn \union {<<t.code, t.key>>}
        BY <1>5, <3>1 DEF JoinProved
      <4> QED
        BY <2>1, <4>1, <4>2 DEF OthersTyped
    <3> QED
      BY <1>5, <3>1 DEF JoinProved, OthersTyped
  <2>6. OthersTyped'
    BY <1>5, <2>3, <2>4, <2>5 DEF JoinProved, OthersTyped, bounds, ghosts
  <2> QED
    BY <2>2, <2>6, TypedNext
<1>6. ASSUME JoinStatus(t) PROVE Typed'
  <2>1. Found(t.key).status \in Answers /\ Found(t.key).dev \in Nat
    BY DEF Found, OthersTyped, Answers, NoDevice
  <2>2. task' \subseteq Calls /\ Keyed'
    BY <1>6, <2>1, AnswerType DEF JoinStatus
  <2>3. OthersTyped'
    BY <1>6, OthersSame DEF JoinStatus
  <2> QED
    BY <2>2, <2>3, TypedNext
<1>7. ASSUME ApproveCreates(t) PROVE Typed'
  <2>1. device' \in Seq([key : 1 .. MaxKeys, admin : BOOLEAN, revoked : BOOLEAN])
    <3>1. (t.ans = "admin") \in BOOLEAN /\ t.key \in 1 .. MaxKeys
      BY <1>7 DEF ApproveCreates, At
    <3>2. CASE UNCHANGED device
      BY <3>2 DEF OthersTyped
    <3>3. CASE CreateDevice(t.key, t.ans = "admin")
      BY <3>1, <3>3, CreateType
    <3> QED
      BY <1>7, <3>2, <3>3 DEF ApproveCreates
  <2> DEFINE u == [t EXCEPT !.at = "mark", !.dev = Len(device')]
  <2>2. u \in Calls /\ u.op = t.op /\ u.key = t.key
    <3>1. Len(device') \in Nat
      BY <2>1
    <3> QED
      BY <3>1 DEF Calls
  <2>3. task' \subseteq Calls /\ Keyed'
    <3>1. CASE Ends(t)
      BY <3>1, EndsType
    <3>2. CASE Goes(t, u)
      BY <3>2, <2>2, GoesType DEF Typed, Keyed
    <3> QED
      BY <1>7, <3>1, <3>2 DEF ApproveCreates
  <2>4. OthersTyped'
    BY <1>7, <2>1 DEF ApproveCreates, OthersTyped, store, bounds, ghosts
  <2> QED
    BY <2>3, <2>4, TypedNext
<1>8. ASSUME ApproveMarks(t) PROVE Typed'
  <2>1. task' \subseteq Calls /\ Keyed'
    BY <1>8, EndsType DEF ApproveMarks
  <2>2. /\ DOMAIN request' \subseteq 1 .. MaxKeys
        /\ \A k \in DOMAIN request' :
             request'[k] \in [status : {"pending", "approved", "rejected"}, dev : Nat]
    BY <1>8 DEF ApproveMarks, OthersTyped, Calls
  <2>3. OthersTyped'
    BY <1>8, <2>2 DEF ApproveMarks, OthersTyped, bounds, ghosts
  <2> QED
    BY <2>1, <2>3, TypedNext
<1>9. ASSUME RevokeCommits(t) PROVE Typed'
  <2>1. task' \subseteq Calls /\ Keyed'
    BY <1>9, OvertakenType DEF RevokeCommits
  <2>2. device' \in Seq([key : 1 .. MaxKeys, admin : BOOLEAN, revoked : BOOLEAN])
    <3>1. device \in Seq(Device)
      BY DEF OthersTyped, Device
    <3>2. device' = [device EXCEPT ![t.dev] = [@ EXCEPT !.revoked = TRUE]]
      BY <1>9 DEF RevokeCommits
    <3>3. device \in [1 .. Len(device) -> Device] /\ Len(device) \in Nat
      BY <3>1
    <3>4. device' \in [1 .. Len(device) -> Device]
      BY <3>2, <3>3 DEF Device
    <3>5. device' \in Seq(Device)
      BY <3>3, <3>4
    <3> QED
      BY <3>5 DEF Device
  <2>3. OthersTyped'
    BY <1>9, <2>2 DEF RevokeCommits, OthersTyped, store, bounds, ghosts
  <2> QED
    BY <2>1, <2>3, TypedNext
<1> QED
  BY <1>1, <1>2, <1>3, <1>4, <1>5, <1>6, <1>7, <1>8, <1>9 DEF Handler

LEMMA AddOne ==
  ASSUME NEW S, NEW x, IsFiniteSet(S)
  PROVE  /\ IsFiniteSet(S \union {x}) /\ Cardinality(S \union {x}) \in Nat
         /\ Cardinality(S \union {x}) <= Cardinality(S) + 1
<1>1. IsFiniteSet(S \union {x}) /\ Cardinality(S) \in Nat
  BY FS_AddElement, FS_CardinalityType
<1>2. Cardinality(S \union {x}) = IF x \in S THEN Cardinality(S) ELSE Cardinality(S) + 1
  BY FS_AddElement
<1> QED
  BY <1>1, <1>2

(* A new call of an admin is a call. *)
LEMMA CallType ==
  ASSUME NEW s \in Shells \union {Nobody}, NEW op \in {"setup", "join", "status", "approve", "revoke"},
         NEW k \in 0 .. MaxKeys, NEW c \in 0 .. MaxCodes
  PROVE  /\ Call(s, op, k, c) \in Calls
         /\ Call(s, op, k, c).to = s /\ Call(s, op, k, c).op = op /\ Call(s, op, k, c).at = "sent"
         /\ Call(s, op, k, c).key = k
<1>1. PICK b \in BOOLEAN : b = (s # Nobody)
  BY Zenon
<1>2. Call(s, op, k, c) = [to |-> s, op |-> op, at |-> "sent", key |-> k, code |-> c,
                           dev |-> NoDevice, ans |-> "none", shown |-> b]
  BY <1>1, Zenon DEF Call
<1> QED
  BY <1>2 DEF Calls, NoDevice

LEMMA PairCallType ==
  ASSUME NEW s \in Shells, NEW setup \in BOOLEAN, NEW k \in 1 .. MaxKeys, NEW c \in 0 .. MaxCodes
  PROVE  LET u == Call(s, IF setup THEN "setup" ELSE "join", k, c) IN
         u \in Calls /\ u.to = s /\ u.at = "sent" /\ u.key = k /\ u.op # "revoke"
<1>1. PICK op \in {"setup", "join"} : op = IF setup THEN "setup" ELSE "join"
  OBVIOUS
<1>2. k \in 0 .. MaxKeys
  BY BoundsAreNumbers
<1> QED
  BY <1>1, <1>2, CallType

LEMMA StatusCallType ==
  ASSUME NEW s \in Shells, NEW k \in 0 .. MaxKeys
  PROVE  LET u == Call(s, "status", k, Wrong) IN
         u \in Calls /\ u.to = s /\ u.at = "sent" /\ u.key = k /\ u.op = "status"
BY CallType, BoundsAreNumbers DEF Wrong

LEMMA ApproveType ==
  ASSUME NEW c \in Calls, NEW a \in Answers
  PROVE  [c EXCEPT !.at = "create", !.ans = a] \in Calls /\ [c EXCEPT !.at = "create", !.ans = a].key = c.key
BY DEF Calls, Answers

LEMMA RevokeType ==
  ASSUME NEW c \in Calls, NEW d \in Nat
  PROVE  [c EXCEPT !.at = "commit", !.dev = d] \in Calls /\ [c EXCEPT !.at = "commit", !.dev = d].op = c.op
BY DEF Calls

(* Some code is the oldest. *)
LEMMA OldestCode ==
  ASSUME codes \subseteq Codes, codes # {}
  PROVE  \E o \in codes : \A q \in codes : o.code <= q.code
<1> DEFINE Less == {ss \in Nat \X Nat : ss[1] < ss[2]}
           N == {o.code : o \in codes}
<1>1. IsWellFoundedOn(Less, Nat)
  BY NatLessThanWellFounded DEF OpToRel
<1>2. N \subseteq Nat /\ N # {}
  BY BoundsAreNumbers DEF Codes
<1> HIDE DEF Less, N
<1>3. PICK n \in N : \A m \in N : <<m, n>> \notin Less
  BY <1>1, <1>2, WFMin
<1>4. \A m \in N : n <= m
  <2> SUFFICES ASSUME NEW m \in N, m < n PROVE FALSE
    BY <1>2
  <2>1. <<m, n>> \in Nat \X Nat /\ <<m, n>>[1] < <<m, n>>[2]
    BY <1>2
  <2>2. <<m, n>> \in Less
    BY <2>1 DEF Less
  <2> QED
    BY <1>3, <2>2
<1> QED
  BY <1>4 DEF N

(* An admin's calls keep the types. *)
LEMMA AdminType ==
  ASSUME Typed, NEW s \in Shells, AdminCalls(s)
  PROVE  Typed'
<1> OthersTyped /\ task \subseteq Calls /\ Keyed
  BY TypedParts
<1> USE BoundsAreNumbers
<1>1. ASSUME NewPairingCode(s) PROVE Typed'
  <2>1. lastCode' \in 1 .. MaxCodes
    BY <1>1 DEF NewPairingCode, OthersTyped
  <2>2. OneTimeCode(lastCode') \in Codes
    BY <2>1 DEF OneTimeCode, Codes
  <2> DEFINE old == {o \in codes : \A q \in codes : o.code <= q.code}
             rest == IF Cardinality(codes) < MaxPairingCodes THEN codes ELSE codes \ old
  <2>3. rest \subseteq codes /\ IsFiniteSet(rest) /\ Cardinality(rest) \in Nat
    BY FS_Subset, FS_CardinalityType DEF OthersTyped
  <2>4. Cardinality(rest) < MaxPairingCodes
    <3>1. CASE Cardinality(codes) < MaxPairingCodes
      BY <3>1
    <3>2. CASE ~(Cardinality(codes) < MaxPairingCodes)
      <4> DEFINE n == Cardinality(codes)
      <4>0. n \in Nat /\ n <= MaxPairingCodes
        BY FS_CardinalityType DEF OthersTyped
      <4> HIDE DEF n
      <4>a. n = MaxPairingCodes /\ n # 0
        BY <3>2, <4>0 DEF n
      <4>1. Cardinality(codes) = MaxPairingCodes /\ codes # {}
        BY <4>a, FS_EmptySet, Zenon DEF n
      <4>2. PICK o \in codes : \A q \in codes : o.code <= q.code
        BY <4>1, OldestCode DEF OthersTyped
      <4>3. rest \subseteq codes \ {o}
        BY <3>2, <4>2
      <4>4. IsFiniteSet(codes \ {o}) /\ Cardinality(codes \ {o}) = MaxPairingCodes - 1
        BY <4>1, FS_RemoveElement DEF OthersTyped
      <4> HIDE DEF rest
      <4>5. Cardinality(rest) <= MaxPairingCodes - 1
        BY <4>3, <4>4, FS_Subset
      <4> QED
        BY <2>3, <4>5
    <3> QED
      BY <3>1, <3>2
  <2>5. codes' = rest \union {OneTimeCode(lastCode')}
    BY <1>1 DEF NewPairingCode
  <2>6. codes' \subseteq Codes /\ IsFiniteSet(codes') /\ Cardinality(codes') <= MaxPairingCodes
    <3> HIDE DEF rest
    <3>1. /\ IsFiniteSet(rest \union {OneTimeCode(lastCode')})
          /\ Cardinality(rest \union {OneTimeCode(lastCode')}) \in Nat
          /\ Cardinality(rest \union {OneTimeCode(lastCode')}) <= Cardinality(rest) + 1
      BY <2>3, AddOne
    <3>2. codes' \subseteq Codes
      BY <2>2, <2>3, <2>5 DEF OthersTyped
    <3> QED
      BY <2>3, <2>4, <2>5, <3>1, <3>2
  <2> QED
    BY <1>1, <2>1, <2>6 DEF NewPairingCode, OthersTyped, Typed, TypeOK, Keyed, ghosts
<1>2. ASSUME NEW k \in DOMAIN request, Reject(s, k) PROVE Typed'
  <2>1. /\ DOMAIN request' \subseteq 1 .. MaxKeys
        /\ \A q \in DOMAIN request' :
             request'[q] \in [status : {"pending", "approved", "rejected"}, dev : Nat]
    BY <1>2 DEF Reject, OthersTyped
  <2>2. OthersTyped'
    BY <1>2, <2>1 DEF Reject, OthersTyped, bounds, ghosts
  <2> QED
    BY <1>2, <2>2, TypedNext DEF Reject, Keyed
<1>3. ASSUME NEW k \in DOMAIN request, NEW admin \in BOOLEAN, Approve(s, k, admin) PROVE Typed'
  <2> DEFINE u == [Call(Nobody, "approve", k, Wrong) EXCEPT !.at = "create",
                     !.ans = IF admin THEN "admin" ELSE "none"]
  <2>0. k \in 1 .. MaxKeys
    BY DEF OthersTyped
  <2>1. u \in Calls /\ u.key # NoKey
    <3> DEFINE a == IF admin THEN "admin" ELSE "none"
               c == Call(Nobody, "approve", k, Wrong)
    <3>0. k \in 0 .. MaxKeys
      BY <2>0, BoundsAreNumbers
    <3>1. c \in Calls /\ c.key = k
      BY <3>0, CallType, BoundsAreNumbers DEF Wrong
    <3>2. a \in {"none", "admin"}
      OBVIOUS
    <3>3. u = [c EXCEPT !.at = "create", !.ans = a]
      OBVIOUS
    <3> HIDE DEF a, c, u
    <3>4. a \in Answers
      BY <3>2 DEF Answers
    <3>5. [c EXCEPT !.at = "create", !.ans = a] \in Calls /\ [c EXCEPT !.at = "create", !.ans = a].key = c.key
      BY <3>1, <3>4, ApproveType
    <3>6. u \in Calls /\ u.key = c.key
      BY <3>3, <3>5
    <3> QED
      BY <2>0, <3>1, <3>6 DEF NoKey
  <2>2. task' = task \union {u}
    BY <1>3 DEF Approve
  <2>3. task' \subseteq Calls /\ Keyed'
    BY <2>1, <2>2 DEF Keyed
  <2> QED
    BY <1>3, <2>3, TypedNext, OthersSame DEF Approve
<1>4. ASSUME NEW d \in Ids, Revoke(s, d) PROVE Typed'
  <2> DEFINE u == [Call(Nobody, "revoke", NoKey, Wrong) EXCEPT !.at = "commit", !.dev = d]
  <2>0. d \in Nat
    BY DEF Ids, OthersTyped
  <2>1. u \in Calls /\ u.op = "revoke"
    <3> DEFINE c == Call(Nobody, "revoke", NoKey, Wrong)
    <3>1. c \in Calls /\ c.op = "revoke"
      BY CallType DEF Wrong, NoKey
    <3>2. u = [c EXCEPT !.at = "commit", !.dev = d]
      OBVIOUS
    <3> HIDE DEF c, u
    <3> QED
      BY <2>0, <3>1, <3>2, RevokeType
  <2>2. task' = task \union {u}
    BY <1>4 DEF Revoke
  <2>3. task' \subseteq Calls /\ Keyed'
    BY <2>1, <2>2 DEF Keyed
  <2> QED
    BY <1>4, <2>3, TypedNext, OthersSame DEF Revoke
<1> QED
  BY <1>1, <1>2, <1>3, <1>4 DEF AdminCalls

\* A shell's record, changed.
LEMMA KeptChange ==
  ASSUME OthersTyped, NEW s \in Shells, NEW sh \in Kept, shell' = [shell EXCEPT ![s] = sh]
  PROVE  shell' \in [Shells -> Kept]
BY ShellTyped

(* One field of what a shell keeps, changed. *)
LEMMA KeptServer ==
  ASSUME NEW sh \in Kept, NEW d \in Nat
  PROVE  [sh EXCEPT !.server = d] \in Kept
BY DEF Kept

LEMMA KeptKey ==
  ASSUME NEW sh \in Kept, NEW k \in 0 .. MaxKeys
  PROVE  [sh EXCEPT !.key = k] \in Kept
BY DEF Kept

LEMMA KeptPending ==
  ASSUME NEW sh \in Kept, NEW k \in 0 .. MaxKeys
  PROVE  [sh EXCEPT !.pending = k] \in Kept
BY DEF Kept

LEMMA KeptPairing ==
  ASSUME NEW sh \in Kept, NEW k \in 0 .. MaxKeys
  PROVE  [sh EXCEPT !.pairing = k] \in Kept
BY DEF Kept

LEMMA KeptWaits ==
  ASSUME NEW sh \in Kept, NEW w \in BOOLEAN
  PROVE  [sh EXCEPT !.waiting = w] \in Kept
BY DEF Kept

LEMMA KeptIs ==
  ASSUME NEW sh \in Kept
  PROVE  /\ sh.server \in Nat /\ sh.key \in 0 .. MaxKeys /\ sh.pending \in 0 .. MaxKeys
         /\ sh.pairing \in 0 .. MaxKeys /\ sh.waiting \in BOOLEAN
         /\ DOMAIN sh = {"server", "key", "pending", "pairing", "waiting"}
BY DEF Kept

(* What becomes of the wizard is one of two things. *)
LEMMA Booleans ==
  ASSUME NEW x \in BOOLEAN, NEW y
  PROVE  (x /\ ~y) \in BOOLEAN /\ (x \/ y) \in BOOLEAN
BY Zenon

(* What a shell does with an answer leaves it well typed. *)
LEMMA FinishedType ==
  ASSUME NEW sh \in Kept, NEW d \in Nat, NEW how
  PROVE  Finished(sh, d, how) \in Kept
<1>1. sh.pending \in 0 .. MaxKeys /\ NoKey \in 0 .. MaxKeys
  BY KeptIs, BoundsAreNumbers DEF NoKey
<1>2. [sh EXCEPT !.pending = NoKey] \in Kept
  BY <1>1, KeptPending
<1>3. [sh EXCEPT !.key = sh.pending] \in Kept
  BY <1>1, KeptKey
<1>4. [[sh EXCEPT !.key = sh.pending] EXCEPT !.pending = NoKey] \in Kept
  BY <1>1, <1>3, KeptPending
<1>5. ASSUME NEW n \in Nat
      PROVE  [[[sh EXCEPT !.key = sh.pending] EXCEPT !.pending = NoKey] EXCEPT !.server = n] \in Kept
  BY <1>4, KeptServer
<1>6. ASSUME NEW n \in Nat PROVE [sh EXCEPT !.key = sh.pending, !.pending = NoKey, !.server = n] \in Kept
  BY <1>5, Zenon
<1>7. (IF how = "saved" THEN d ELSE sh.server) \in Nat
  BY KeptIs
<1> QED
  BY <1>2, <1>6, <1>7, Zenon DEF Finished

LEMMA ReceivedType ==
  ASSUME Typed, NEW t \in task, NEW how, t.to \in Shells
  PROVE  Received(t, how) \in Kept
<1> DEFINE sh == shell[t.to]
           f == Finished([sh EXCEPT !.pairing = NoKey], t.dev, how)
<1>1. t \in Calls /\ sh \in Kept
  BY TypedParts, ShellTyped
<1>2. t.dev \in Nat /\ t.key \in 0 .. MaxKeys /\ NoKey \in 0 .. MaxKeys
  BY <1>1, BoundsAreNumbers DEF Calls, NoKey
<1>3. Finished(sh, t.dev, how) \in Kept
  BY <1>1, <1>2, FinishedType
<1>4. [sh EXCEPT !.pairing = NoKey] \in Kept /\ [sh EXCEPT !.pairing = t.key] \in Kept
  BY <1>1, <1>2, KeptPairing
<1>5. f \in Kept
  BY <1>2, <1>4, FinishedType
<1>6. sh.waiting \in BOOLEAN /\ f.waiting \in BOOLEAN
  BY <1>1, <1>5, KeptIs
<1> HIDE DEF f, sh
<1>7. /\ (sh.waiting \/ t.shown) \in BOOLEAN /\ (sh.waiting /\ ~t.shown) \in BOOLEAN
      /\ (f.waiting /\ ~t.shown) \in BOOLEAN
  BY <1>6, Booleans
<1>8. [[sh EXCEPT !.pairing = t.key] EXCEPT !.waiting = sh.waiting \/ t.shown] \in Kept
  BY <1>4, <1>7, KeptWaits
<1>9. [f EXCEPT !.waiting = f.waiting /\ ~t.shown] \in Kept
  BY <1>5, <1>7, KeptWaits
<1>10. [[sh EXCEPT !.pairing = NoKey] EXCEPT !.waiting = sh.waiting /\ ~t.shown] \in Kept
  BY <1>4, <1>7, KeptWaits
<1>11. [sh EXCEPT !.waiting = sh.waiting /\ ~t.shown] \in Kept
  BY <1>1, <1>7, KeptWaits
<1>12. DOMAIN sh = {"server", "key", "pending", "pairing", "waiting"}
  BY <1>1, KeptIs
<1>13. /\ [sh EXCEPT !.pairing = t.key, !.waiting = @ \/ t.shown] \in Kept
       /\ [sh EXCEPT !.pairing = NoKey, !.waiting = @ /\ ~t.shown] \in Kept
  <2>1. [sh EXCEPT !.pairing = t.key].waiting = sh.waiting /\ [sh EXCEPT !.pairing = NoKey].waiting = sh.waiting
    BY <1>12, Zenon
  <2> QED
    BY <1>8, <1>10, <2>1, Zenon
<1>14. /\ [f EXCEPT !.waiting = @ /\ ~t.shown] \in Kept
       /\ [sh EXCEPT !.waiting = @ /\ ~t.shown] \in Kept
  BY <1>9, <1>11, Zenon
<1> QED
  BY <1>1, <1>3, <1>13, <1>14, Zenon DEF Received, sh, f

(* Calls whose caller goes, or whose wizard is closed, are calls. *)
LEMMA DetachedType ==
  ASSUME Typed, NEW s, task' = Detached(task, s) \/ task' = Hidden(task, s)
  PROVE  task' \subseteq Calls /\ Keyed'
<1> DEFINE Gone(t) == [t EXCEPT !.to = Nobody, !.shown = FALSE]
           Hid(t) == [t EXCEPT !.shown = FALSE]
<1>1. ASSUME NEW t \in task
      PROVE  /\ Gone(t) \in Calls /\ Gone(t).op = t.op /\ Gone(t).key = t.key
             /\ Hid(t) \in Calls /\ Hid(t).op = t.op /\ Hid(t).key = t.key
  BY TypedParts, GoneType
<1>2. ASSUME NEW u \in task' PROVE u \in Calls /\ (u.op # "revoke" => u.key # NoKey)
  <2>1. PICK t \in task : u \in {t, Gone(t), Hid(t)}
    BY <1>2 DEF Detached, Hidden
  <2>2. t \in Calls /\ (t.op # "revoke" => t.key # NoKey)
    BY TypedParts DEF Keyed
  <2> HIDE DEF Gone, Hid
  <2> QED
    BY <1>1, <2>1, <2>2
<1> QED
  BY <1>2 DEF Keyed

(* Every step of a shell keeps the types. *)
LEMMA ShellType ==
  ASSUME Typed, NEW s \in Shells,
         \/ \E setup \in BOOLEAN, c \in 0 .. lastCode : Pair(s, setup, c)
         \/ Poll(s) \/ Reopen(s) \/ Forget(s) \/ ShellRestart(s)
  PROVE  Typed'
<1>a. OthersTyped /\ task \subseteq Calls /\ Keyed
  BY TypedParts
<1>b. shell \in [Shells -> Kept] /\ shell[s] \in Kept
  BY <1>a, ShellTyped
<1> USE BoundsAreNumbers
<1>1. ASSUME NEW setup \in BOOLEAN, NEW c \in 0 .. lastCode, Pair(s, setup, c) PROVE Typed'
  <2>1. lastKey' \in 1 .. MaxKeys /\ c \in 0 .. MaxCodes
    BY <1>1, <1>a DEF Pair, OthersTyped
  <2> DEFINE u == Call(s, IF setup THEN "setup" ELSE "join", lastKey', c)
             sh == Begun(shell[s], lastKey')
  <2>2. u \in Calls /\ u.key # NoKey
    BY <2>1, PairCallType DEF NoKey
  <2>3. task' \subseteq Calls /\ Keyed'
    <3>1. task' = task \union {u}
      BY <1>1, Zenon DEF Pair
    <3> HIDE DEF u
    <3> QED
      BY <2>2, <3>1, <1>a DEF Keyed
  <2>4. sh \in Kept
    BY <2>1, <1>b, KeptPending DEF Begun
  <2>5. shell' = [shell EXCEPT ![s] = sh] /\ alone' = [alone EXCEPT ![s] = Out(s) = {}]
    BY <1>1, Zenon DEF Pair
  <2>6. shell' \in [Shells -> Kept]
    BY <2>4, <2>5, <1>a, KeptChange
  <2>7. alone' \in [Shells -> BOOLEAN]
    <3>1. (Out(s) = {}) \in BOOLEAN
      BY Zenon
    <3> QED
      BY <2>5, <3>1, <1>a DEF OthersTyped
  <2>8. OthersTyped'
    <3>1. UNCHANGED <<device, setupCode, codes, request, lastCode, letIn>> /\ stops' = stops
      BY <1>1 DEF Pair, store
    <3>2. stops' \in 0 .. MaxStops /\ lastKey' \in 0 .. MaxKeys
      BY <2>1, <3>1, <1>a DEF OthersTyped
    <3> QED
      BY <3>1, <3>2, <2>6, <2>7, <1>a, ShellSame
  <2> QED
    BY <2>3, <2>8, TypedNext
<1>2. ASSUME Poll(s) PROVE Typed'
  <2>1. UNCHANGED <<device, store, bounds, ghosts>>
    BY <1>2 DEF Poll
  <2>2. CASE shell[s].pairing = NoKey
    <3>1. shell' = [shell EXCEPT ![s].waiting = FALSE] /\ task' = task
      BY <1>2, <2>2 DEF Poll
    <3>2. shell' \in [Shells -> Kept]
      BY <3>1, <1>b DEF Kept
    <3>3. OthersTyped'
      BY <2>1, <3>2, <1>a, ShellSame DEF store, bounds, ghosts, OthersTyped
    <3> QED
      BY <3>1, <3>3, <1>a, TypedNext DEF Keyed
  <2>3. CASE shell[s].pairing # NoKey
    <3> DEFINE u == Call(s, "status", shell[s].pairing, Wrong)
    <3>1. task' = task \union {u} /\ shell' = shell
      BY <1>2, <2>3 DEF Poll
    <3>2. u \in Calls /\ u.key # NoKey
      BY <2>3, <1>b, KeptIs, StatusCallType
    <3> HIDE DEF u
    <3>3. task' \subseteq Calls /\ Keyed'
      BY <3>1, <3>2, <1>a DEF Keyed
    <3>4. OthersTyped'
      BY <2>1, <3>1, <1>a, OthersSame
    <3> QED
      BY <3>3, <3>4, TypedNext
  <2> QED
    BY <2>2, <2>3
<1>3. ASSUME Reopen(s) PROVE Typed'
  <2>1. shell' \in [Shells -> Kept]
    BY <1>3, <1>b DEF Reopen, Kept
  <2>2. OthersTyped'
    BY <1>3, <2>1, <1>a, ShellSame DEF Reopen, store, bounds, ghosts, OthersTyped
  <2>3. task' \subseteq Calls /\ Keyed'
    BY <1>3, DetachedType DEF Reopen
  <2> QED
    BY <2>2, <2>3, TypedNext
<1>4. ASSUME Forget(s) PROVE Typed'
  <2>1. shell' \in [Shells -> Kept]
    <3> DEFINE sh == [shell[s] EXCEPT !.server = NoDevice, !.key = NoKey, !.pending = NoKey]
    <3>1. shell' = [shell EXCEPT ![s] = sh]
      BY <1>4 DEF Forget
    <3>2. NoDevice \in Nat /\ NoKey \in 0 .. MaxKeys
      BY DEF NoDevice, NoKey
    <3>3. [shell[s] EXCEPT !.server = NoDevice] \in Kept
      BY <1>b, <3>2, KeptServer
    <3>4. [[shell[s] EXCEPT !.server = NoDevice] EXCEPT !.key = NoKey] \in Kept
      BY <3>2, <3>3, KeptKey
    <3>5. sh \in Kept
      BY <3>2, <3>4, KeptPending, Zenon
    <3> QED
      BY <3>1, <3>5, <1>a, KeptChange
  <2>2. OthersTyped'
    <3>1. UNCHANGED <<device, setupCode, codes, request, lastCode, letIn, alone>> /\ lastKey' = lastKey
      BY <1>4 DEF Forget, store, ghosts
    <3>2. stops' \in 0 .. MaxStops /\ lastKey' \in 0 .. MaxKeys /\ alone' \in [Shells -> BOOLEAN]
      BY <1>4, <3>1, <1>a DEF Forget, OthersTyped
    <3> QED
      BY <3>1, <3>2, <2>1, <1>a, ShellSame
  <2> QED
    BY <1>4, <2>2, <1>a, TypedNext DEF Forget, Keyed
<1>5. ASSUME ShellRestart(s) PROVE Typed'
  <2>1. shell' \in [Shells -> Kept]
    <3> DEFINE sh == [NewShell EXCEPT !.server = shell[s].server, !.key = shell[s].key]
    <3>1. shell' = [shell EXCEPT ![s] = sh]
      BY <1>5 DEF ShellRestart
    <3>2. NewShell \in Kept
      BY DEF NewShell, Kept, NoDevice, NoKey
    <3>3. sh \in Kept
      BY <1>b, <3>2 DEF Kept
    <3> QED
      BY <3>1, <3>3, <1>a, KeptChange
  <2>2. OthersTyped'
    <3>1. UNCHANGED <<device, setupCode, codes, request, lastCode, letIn, alone>> /\ lastKey' = lastKey
      BY <1>5 DEF ShellRestart, store, ghosts
    <3>2. stops' \in 0 .. MaxStops /\ lastKey' \in 0 .. MaxKeys /\ alone' \in [Shells -> BOOLEAN]
      BY <1>5, <3>1, <1>a DEF ShellRestart, OthersTyped
    <3> QED
      BY <3>1, <3>2, <2>1, <1>a, ShellSame
  <2>3. task' \subseteq Calls /\ Keyed'
    BY <1>5, DetachedType DEF ShellRestart
  <2> QED
    BY <2>2, <2>3, TypedNext
<1> QED
  BY <1>1, <1>2, <1>3, <1>4, <1>5

(* What comes back, or gets lost, and what the server forgets. *)
LEMMA ReceiveType ==
  ASSUME Typed, NEW t \in task, NEW how, Receive(t, how)
  PROVE  Typed'
<1>a. OthersTyped
  BY TypedParts
<1>1. shell' \in [Shells -> Kept]
  <2>1. CASE t.to \in Shells
    BY <2>1, <1>a, ReceivedType, KeptChange DEF Receive
  <2>2. CASE t.to \notin Shells
    BY <2>2, <1>a, ShellTyped DEF Receive
  <2> QED
    BY <2>1, <2>2
<1>2. OthersTyped'
  BY <1>1, <1>a, ShellSame DEF Receive, store, bounds, ghosts, OthersTyped
<1>3. task' \subseteq Calls /\ Keyed'
  BY EndsType DEF Receive
<1> QED
  BY <1>2, <1>3, TypedNext

LEMMA LoseType ==
  ASSUME Typed, NEW t \in task, Lose(t)
  PROVE  Typed'
<1>a. OthersTyped /\ t \in Calls /\ t.to \in Shells
  BY TypedParts DEF Lose, Calls
<1>1. shell' \in [Shells -> Kept]
  <2> DEFINE sh == shell[t.to]
             w == sh.waiting /\ ~(t.shown /\ t.op = "status")
  <2>1. sh \in Kept /\ sh.waiting \in BOOLEAN
    BY <1>a, ShellTyped, KeptIs
  <2> HIDE DEF sh
  <2>2. w \in BOOLEAN
    BY <2>1, Booleans
  <2>3. [sh EXCEPT !.waiting = w] \in Kept
    BY <2>1, <2>2, KeptWaits
  <2>4. shell' = [shell EXCEPT ![t.to] = [sh EXCEPT !.waiting = w]]
    BY Zenon DEF Lose, sh
  <2> HIDE DEF w
  <2> QED
    BY <1>a, <2>3, <2>4, KeptChange
<1>2. OthersTyped'
  BY <1>1, <1>a, ShellSame DEF Lose, store, bounds, ghosts, OthersTyped
<1>3. task' \subseteq Calls /\ Keyed'
  <2> DEFINE u == [t EXCEPT !.to = Nobody, !.shown = FALSE]
  <2>1. u \in Calls /\ u.op = t.op /\ u.key = t.key
    BY <1>a, GoneType
  <2>2. u.op # "revoke" => u.key # NoKey
    BY <2>1, TypedParts DEF Keyed
  <2>3. CASE Ends(t)
    BY <2>3, EndsType
  <2>4. CASE Goes(t, u)
    BY <2>1, <2>2, <2>4, GoesType
  <2> QED
    BY <2>3, <2>4 DEF Lose
<1> QED
  BY <1>2, <1>3, TypedNext

LEMMA ExpiryType ==
  ASSUME Typed, Expiry
  PROVE  Typed'
<1>a. OthersTyped /\ task \subseteq Calls /\ Keyed
  BY TypedParts
<1>1. ASSUME NEW o \in codes, ExpireCode(o) PROVE Typed'
  <2>1. codes' \subseteq codes /\ IsFiniteSet(codes)
    BY <1>1, <1>a DEF ExpireCode, OthersTyped
  <2>2. IsFiniteSet(codes') /\ Cardinality(codes') <= Cardinality(codes)
        /\ Cardinality(codes) \in Nat /\ Cardinality(codes') \in Nat
    BY <2>1, FS_Subset, FS_CardinalityType
  <2>3. codes' \subseteq Codes /\ Cardinality(codes') <= MaxPairingCodes
    BY <2>1, <2>2, <1>a, BoundsAreNumbers DEF OthersTyped
  <2>4. OthersTyped'
    BY <1>1, <2>2, <2>3, <1>a DEF ExpireCode, OthersTyped, bounds, ghosts
  <2> QED
    BY <1>1, <2>4, <1>a, TypedNext DEF ExpireCode, Keyed
<1>2. ASSUME NEW k \in DOMAIN request, ExpireRequest(k) PROVE Typed'
  <2>1. /\ DOMAIN request' \subseteq 1 .. MaxKeys
        /\ \A q \in DOMAIN request' :
             request'[q] \in [status : {"pending", "approved", "rejected"}, dev : Nat]
    BY <1>2, <1>a DEF ExpireRequest, OthersTyped
  <2>2. OthersTyped'
    BY <1>2, <2>1, <1>a DEF ExpireRequest, OthersTyped, bounds, ghosts
  <2> QED
    BY <1>2, <2>2, <1>a, TypedNext DEF ExpireRequest, Keyed
<1> QED
  BY <1>1, <1>2 DEF Expiry

LEMMA ServerRestartType ==
  ASSUME Typed, ServerRestart
  PROVE  Typed'
<1>a. OthersTyped
  BY TypedParts
<1> USE BoundsAreNumbers
<1>1. shell' \in [Shells -> Kept]
  <2> DEFINE Over(s) == \E t \in Out(s) : t.shown /\ t.op = "status"
  <2>1. ASSUME NEW s \in Shells
        PROVE  [shell[s] EXCEPT !.waiting = @ /\ ~Over(s)] \in Kept
    <3> DEFINE sh == shell[s]
    <3>1. sh \in Kept /\ sh.waiting \in BOOLEAN
      BY <1>a, ShellTyped, KeptIs
    <3> HIDE DEF sh, Over
    <3>2. (sh.waiting /\ ~Over(s)) \in BOOLEAN
      BY <3>1, Booleans
    <3>3. [sh EXCEPT !.waiting = sh.waiting /\ ~Over(s)] \in Kept
      BY <3>1, <3>2, KeptWaits
    <3> QED
      BY <3>3, Zenon DEF sh
  <2> HIDE DEF Over
  <2>2. shell' = [s \in Shells |-> [shell[s] EXCEPT !.waiting = @ /\ ~Over(s)]]
    BY Zenon DEF ServerRestart, Over
  <2> QED
    BY <2>1, <2>2
<1>2. /\ stops < MaxStops /\ stops' = stops + 1 /\ task' = {} /\ codes' = {} /\ request' = <<>>
      /\ UNCHANGED <<device, lastKey, letIn, alone>>
      /\ \/ setupCode' = NoCode /\ lastCode' = lastCode
         \/ lastCode < MaxCodes /\ lastCode' = lastCode + 1 /\ setupCode' = OneTimeCode(lastCode')
  BY Zenon DEF ServerRestart, ghosts
<1>3. setupCode' \in Codes \union {NoCode} /\ lastCode' \in 1 .. MaxCodes
  BY <1>2, <1>a DEF OthersTyped, OneTimeCode, Codes
<1>4. IsFiniteSet(codes') /\ codes' \subseteq Codes /\ Cardinality(codes') <= MaxPairingCodes
  BY <1>2, FS_EmptySet
<1>5. OthersTyped'
  BY <1>1, <1>2, <1>3, <1>4, <1>a DEF OthersTyped, Kept
<1>6. task' \subseteq Calls /\ Keyed'
  BY <1>2 DEF Keyed
<1> QED
  BY <1>5, <1>6, TypedNext

LEMMA InitType == Init => Typed
<1> SUFFICES ASSUME Init PROVE Typed
  OBVIOUS
<1> USE BoundsAreNumbers
<1>1. shell \in [Shells -> Kept]
  BY DEF Init, NewShell, Kept, NoDevice, NoKey
<1>2. codes = {} /\ IsFiniteSet(codes) /\ Cardinality(codes) = 0
  BY FS_EmptySet DEF Init
<1>3. device \in Seq([key : 1 .. MaxKeys, admin : BOOLEAN, revoked : BOOLEAN])
  BY DEF Init
<1>4. setupCode \in Codes /\ lastCode \in 1 .. MaxCodes
  BY BoundsAreNumbers DEF Init, OneTimeCode, Codes
<1>5. DOMAIN request = {}
  BY DEF Init
<1>6. OthersTyped
  BY <1>1, <1>2, <1>3, <1>4, <1>5 DEF Init, OthersTyped, Kept
<1> QED
  BY <1>6, TypedParts DEF Init, Keyed

LEMMA TypeStep == Typed /\ [Next]_vars => Typed'
<1> SUFFICES ASSUME Typed, [Next]_vars PROVE Typed'
  OBVIOUS
<1>1. CASE UNCHANGED vars
  BY <1>1 DEF Typed, TypeOK, Keyed, vars, store, bounds, ghosts
<1>2. CASE Next
  <2>1. ASSUME NEW t \in task, Handler(t) \/ Lose(t) \/ \E how \in Savings : Receive(t, how)
        PROVE  Typed'
    BY <2>1, HandlerType, LoseType, ReceiveType
  <2>2. ASSUME NEW s \in Shells,
               \/ \E setup \in BOOLEAN, c \in 0 .. lastCode : Pair(s, setup, c)
               \/ Poll(s) \/ Reopen(s) \/ Forget(s) \/ ShellRestart(s) \/ AdminCalls(s)
        PROVE  Typed'
    BY <2>2, ShellType, AdminType
  <2> QED
    BY <1>2, <2>1, <2>2, ExpiryType, ServerRestartType, Zenon DEF Next
<1> QED
  BY <1>1, <1>2

(* The calls, the store of the server and what the shells keep are what the  *)
(* code can make of them, for any number of shells and any bounds.           *)
THEOREM TypeCorrect == Spec => []TypeOK
<1>1. Init => Typed
  BY InitType
<1>2. Typed /\ [Next]_vars => Typed'
  BY TypeStep
<1>3. Typed => TypeOK
  BY DEF Typed
<1> QED
  BY <1>1, <1>2, <1>3, PTL DEF Spec

-----------------------------------------------------------------------------
(* A code lets in one device. *)

\* A code that has let somebody in is not open any more, and the numbers of
\* codes to come are higher than any that was used.
CodesInv ==
  /\ CodesOnce
  /\ setupCode.code <= lastCode
  /\ \A o \in codes : o.code <= lastCode /\ o.code # setupCode.code
  /\ \A p \in letIn : p[1] <= lastCode /\ p[1] # setupCode.code /\ ~Open(p[1])

LEMMA CodesInit == Init => CodesInv
BY DEF Init, CodesInv, CodesOnce, OneTimeCode

(* Codes that go and codes that lose attempts cannot let anybody in again. *)
LEMMA CodesLess ==
  ASSUME OthersTyped, CodesInv, UNCHANGED <<lastCode, letIn>>,
         setupCode'.code \in {setupCode.code, Wrong},
         \A o \in codes' : o.code # Wrong /\ \E q \in codes : q.code = o.code
  PROVE  CodesInv'
<1>1. \A p \in letIn : p[1] # Wrong
  BY DEF OthersTyped, Wrong
<1>2. setupCode'.code <= lastCode'
  BY DEF CodesInv, Wrong, OthersTyped
<1>3. \A o \in codes' : o.code <= lastCode' /\ o.code # setupCode'.code
  BY DEF CodesInv
<1>4. \A p \in letIn : ~Open(p[1])'
  BY DEF CodesInv, Open
<1> QED
  BY <1>1, <1>2, <1>3, <1>4 DEF CodesInv, CodesOnce

(* A code lets a key in and is used up. *)
LEMMA CodeUsed ==
  ASSUME OthersTyped, CodesInv, NEW c \in 1 .. MaxCodes, NEW k, UNCHANGED lastCode,
         letIn' = letIn \union {<<c, k>>},
         IsSetupCode(c) \/ Open(c),
         setupCode'.code \in {setupCode.code, Wrong}, setupCode'.code # c,
         codes' \subseteq codes, \A o \in codes' : o.code # c
  PROVE  CodesInv'
<1>1. \A p \in letIn : p[1] # c
  BY DEF CodesInv, IsSetupCode
<1>2. CodesOnce'
  BY <1>1 DEF CodesInv, CodesOnce
<1>3. setupCode'.code <= lastCode'
  BY DEF CodesInv, Wrong, OthersTyped
<1>4. \A o \in codes' : o.code \in 1 .. MaxCodes
  BY DEF OthersTyped, Codes
<1>5. \A o \in codes' : o.code <= lastCode' /\ o.code # setupCode'.code
  BY <1>4 DEF CodesInv, Wrong
<1>6. c <= lastCode
  BY DEF CodesInv, IsSetupCode, Open
<1>7. \A p \in letIn : p[1] # Wrong
  BY DEF OthersTyped, Wrong
<1>8. \A p \in letIn' : p[1] <= lastCode' /\ p[1] # setupCode'.code /\ ~Open(p[1])'
  BY <1>6, <1>7 DEF CodesInv, Open
<1> QED
  BY <1>2, <1>3, <1>5, <1>8 DEF CodesInv

LEMMA CodesStep == Typed /\ CodesInv /\ [Next]_vars => CodesInv'
<1> SUFFICES ASSUME Typed, CodesInv, [Next]_vars PROVE CodesInv'
  OBVIOUS
<1>a. OthersTyped
  BY TypedParts
<1>b. setupCode.code \in Nat /\ \A o \in codes : o.code \in 1 .. MaxCodes
  BY <1>a, BoundsAreNumbers DEF OthersTyped, Codes, NoCode, Wrong
<1>s. ASSUME UNCHANGED <<setupCode, codes, lastCode, letIn>> PROVE CodesInv'
  BY <1>s DEF CodesInv, CodesOnce, Open
<1>1. ASSUME NEW t \in task, SetupProved(t) PROVE CodesInv'
  <2>1. setupCode'.code \in {setupCode.code, Wrong} /\ UNCHANGED <<codes, lastCode>>
        /\ (IsSetupCode(t.code) => setupCode' = NoCode)
    BY <1>1, <1>a DEF SetupProved, UseSetupCode, bounds, NoCode, OthersTyped, Codes
  <2>2. CASE IsSetupCode(t.code)
    <3>1. t.code \in 1 .. MaxCodes
      BY <2>2, <1>a DEF IsSetupCode, OthersTyped, Codes
    <3>2. letIn' = letIn \union {<<t.code, t.key>>}
      BY <1>1, <2>2 DEF SetupProved
    <3>3. setupCode'.code # t.code /\ \A o \in codes : o.code # t.code
      BY <2>1, <2>2, <3>1 DEF NoCode, Wrong, CodesInv, IsSetupCode
    <3> QED
      BY <2>1, <2>2, <3>1, <3>2, <3>3, <1>a, CodeUsed
  <2>3. CASE ~IsSetupCode(t.code)
    <3>1. UNCHANGED letIn
      BY <1>1, <2>3 DEF SetupProved
    <3> QED
      BY <2>1, <3>1, <1>a, <1>b, CodesLess DEF Wrong
  <2> QED
    BY <2>2, <2>3
<1>2. ASSUME NEW t \in task, JoinProved(t) PROVE CodesInv'
  <2>1. UNCHANGED <<setupCode, lastCode>>
    BY <1>2 DEF JoinProved, bounds
  <2>2. CASE Open(t.code)
    <3>1. t.code \in 1 .. MaxCodes
      BY <2>2, <1>b DEF Open
    <3>2. letIn' = letIn \union {<<t.code, t.key>>} /\ codes' = {o \in codes : o.code # t.code}
      BY <1>2, <2>2 DEF JoinProved, UsePairingCode
    <3>3. setupCode'.code # t.code
      BY <2>1, <2>2 DEF CodesInv, Open
    <3> QED
      BY <2>1, <2>2, <3>1, <3>2, <3>3, <1>a, CodeUsed
  <2>3. CASE ~Open(t.code)
    <3>1. UNCHANGED letIn /\ codes' = Missed(codes)
      BY <1>2, <2>3 DEF JoinProved, UsePairingCode
    <3>2. \A o \in codes' : \E q \in codes : q.code = o.code
      BY <3>1, <1>a, MissedType DEF OthersTyped
    <3> QED
      BY <2>1, <3>1, <3>2, <1>a, <1>b, CodesLess DEF Wrong
  <2> QED
    BY <2>2, <2>3
<1>3. ASSUME NEW s \in Shells, NewPairingCode(s) PROVE CodesInv'
  <2>1. lastCode' = lastCode + 1 /\ UNCHANGED <<setupCode, letIn>> /\ lastCode \in Nat
    BY <1>3, <1>a DEF NewPairingCode, ghosts, OthersTyped
  <2>2. \A o \in codes' : o \in codes \/ o = OneTimeCode(lastCode')
    BY <1>3 DEF NewPairingCode
  <2>3. OneTimeCode(lastCode').code = lastCode + 1
    BY <2>1 DEF OneTimeCode
  <2>4. \A p \in letIn : p[1] \in Nat
    BY <1>a, BoundsAreNumbers DEF OthersTyped
  <2>5. \A o \in codes' : o.code <= lastCode' /\ o.code # setupCode'.code
    BY <2>1, <2>2, <2>3, <1>b DEF CodesInv
  <2>6. \A p \in letIn' : p[1] <= lastCode' /\ p[1] # setupCode'.code /\ ~Open(p[1])'
    BY <2>1, <2>2, <2>3, <2>4 DEF CodesInv, Open
  <2>7. setupCode'.code <= lastCode' /\ CodesOnce'
    BY <2>1, <1>b DEF CodesInv, CodesOnce
  <2> QED
    BY <2>5, <2>6, <2>7 DEF CodesInv
<1>4. ASSUME NEW o \in codes, ExpireCode(o) PROVE CodesInv'
  <2>1. codes' \subseteq codes /\ UNCHANGED <<setupCode, lastCode, letIn>>
    BY <1>4 DEF ExpireCode, bounds, ghosts
  <2> QED
    BY <2>1, <1>a, <1>b, CodesLess DEF Wrong
<1>5. ASSUME ServerRestart PROVE CodesInv'
  <2>1. /\ codes' = {} /\ UNCHANGED letIn
        /\ \/ setupCode' = NoCode /\ lastCode' = lastCode
           \/ lastCode' = lastCode + 1 /\ setupCode' = OneTimeCode(lastCode')
    BY <1>5, Zenon DEF ServerRestart, ghosts
  <2>2. lastCode \in Nat /\ \A p \in letIn : p[1] \in Nat /\ p[1] # 0
    BY <1>a, BoundsAreNumbers DEF OthersTyped
  <2> QED
    BY <2>1, <2>2 DEF CodesInv, CodesOnce, Open, NoCode, Wrong, OneTimeCode
<1>6. ASSUME NEW t \in task,
             \/ SetupAsked(t) \/ SetupCreates(t) \/ JoinAsked(t) \/ JoinStatus(t)
             \/ ApproveCreates(t) \/ ApproveMarks(t) \/ RevokeCommits(t)
             \/ Lose(t) \/ \E how \in Savings : Receive(t, how)
      PROVE  CodesInv'
  <2>1. UNCHANGED <<setupCode, codes, lastCode, letIn>>
    BY <1>6, Zenon DEF SetupAsked, SetupCreates, JoinAsked, JoinStatus, ApproveCreates, ApproveMarks,
                       RevokeCommits, Lose, Receive, store, bounds, ghosts
  <2> QED
    BY <2>1, <1>s
<1>7. ASSUME NEW s \in Shells,
             \/ \E setup \in BOOLEAN, c \in 0 .. lastCode : Pair(s, setup, c)
             \/ Poll(s) \/ Reopen(s) \/ Forget(s) \/ ShellRestart(s)
             \/ \E k \in DOMAIN request : Reject(s, k) \/ \E admin \in BOOLEAN : Approve(s, k, admin)
             \/ \E d \in Ids : Revoke(s, d)
      PROVE  CodesInv'
  <2>1. UNCHANGED <<setupCode, codes, lastCode, letIn>>
    BY <1>7, Zenon DEF Pair, Poll, Reopen, Forget, ShellRestart, Reject, Approve, Revoke, store, bounds, ghosts
  <2> QED
    BY <2>1, <1>s
<1>8. ASSUME NEW k \in DOMAIN request, ExpireRequest(k) PROVE CodesInv'
  BY <1>8, <1>s DEF ExpireRequest, bounds, ghosts
<1>9. CASE UNCHANGED vars
  BY <1>9, <1>s DEF vars, store, bounds, ghosts
<1>10. ASSUME NEW t \in task, Handler(t) PROVE CodesInv'
  BY <1>1, <1>2, <1>6, <1>10 DEF Handler
<1>11. ASSUME NEW s \in Shells, AdminCalls(s) PROVE CodesInv'
  BY <1>3, <1>7, <1>11 DEF AdminCalls
<1> QED
  BY <1>4, <1>5, <1>6, <1>7, <1>8, <1>9, <1>10, <1>11, Zenon DEF Next, Expiry

(* However many calls prove at once that they know a code, it lets in one     *)
(* device: the code is looked up and taken out in one go, after the proof.    *)
THEOREM OneDevicePerCode == Spec => []CodesOnce
<1>1. Init => Typed /\ CodesInv
  BY InitType, CodesInit
<1>2. Typed /\ CodesInv /\ [Next]_vars => Typed' /\ CodesInv'
  BY TypeStep, CodesStep
<1>3. CodesInv => CodesOnce
  BY DEF CodesInv
<1> QED
  BY <1>1, <1>2, <1>3, PTL DEF Spec

-----------------------------------------------------------------------------
(* An admin stays. *)

Revokes == {t \in task : t.op = "revoke"}

\* A device is revoked only while another active admin is there, unless that
\* one has been revoked meanwhile.
AdminInv == \A t \in Revokes :
  t.to = Nobody /\ (t.ans = "overtaken" \/ \E e \in ActiveAdmins : e # t.dev)

LEMMA AdminInit == Init => AdminInv
BY DEF Init, AdminInv, Revokes

(* No revocation is added and no device lost its rights: the invariant stays. *)
LEMMA AdminKept ==
  ASSUME AdminInv, Revokes' \subseteq Revokes, ActiveAdmins \subseteq ActiveAdmins'
  PROVE  AdminInv' /\ (HasActiveAdmin => HasActiveAdmin')
BY DEF AdminInv, HasActiveAdmin

LEMMA AdminsSame == UNCHANGED device => ActiveAdmins' = ActiveAdmins
BY DEF ActiveAdmins, Active, Ids

LEMMA AdminsGrow ==
  ASSUME OthersTyped, NEW k \in 1 .. MaxKeys, NEW admin \in BOOLEAN, CreateDevice(k, admin)
  PROVE  ActiveAdmins \subseteq ActiveAdmins'
<1> DEFINE row == [key |-> k, admin |-> admin, revoked |-> FALSE]
<1>1. device \in Seq(Device) /\ row \in Device /\ device' = Append(device, row)
  BY DEF OthersTyped, Device, CreateDevice
<1> HIDE DEF row
<1>2. Len(device') = Len(device) + 1 /\ \A d \in 1 .. Len(device) : device'[d] = device[d]
  BY <1>1
<1>3. Len(device) \in Nat
  BY <1>1
<1> QED
  BY <1>2, <1>3 DEF ActiveAdmins, Active, Ids

(* A call of another kind goes on: the revocations stay as they are. *)
LEMMA RevokesSame ==
  ASSUME NEW t \in task, t.op # "revoke", NEW u, u.op = t.op, Ends(t) \/ Goes(t, u)
  PROVE  Revokes' \subseteq Revokes
BY DEF Revokes, Ends, Goes

LEMMA RevokesAnswer ==
  ASSUME Typed, NEW t \in task, t.op # "revoke", NEW a, NEW d, Answer(t, a, d)
  PROVE  Revokes' \subseteq Revokes
<1> DEFINE u == [t EXCEPT !.at = "answered", !.ans = a, !.dev = d]
<1>1. t \in Calls
  BY TypedParts
<1>2. u.op = t.op
  BY <1>1 DEF Calls
<1>3. Ends(t) \/ Goes(t, u)
  BY DEF Answer
<1> HIDE DEF u
<1> QED
  BY <1>2, <1>3, RevokesSame

(* Revoking one device leaves the other admins as they are. *)
LEMMA StaysActive ==
  ASSUME OthersTyped, NEW r, device' = [device EXCEPT ![r].revoked = TRUE],
         NEW e \in ActiveAdmins, e # r
  PROVE  e \in ActiveAdmins'
<1>1. device \in Seq(Device)
  BY DEF OthersTyped, Device
<1>2. DOMAIN device = 1 .. Len(device) /\ Len(device) \in Nat /\ device \in [1 .. Len(device) -> Device]
  BY <1>1
<1>3. DOMAIN device' = 1 .. Len(device) /\ device'[e] = device[e]
  BY <1>2 DEF ActiveAdmins, Ids
<1>4. device' \in Seq(Device)
  <2>1. device' \in [1 .. Len(device) -> Device]
    BY <1>2 DEF Device
  <2> QED
    BY <1>2, <2>1
<1>5. Len(device') = Len(device)
  BY <1>2, <1>3, <1>4
<1> QED
  BY <1>3, <1>5 DEF ActiveAdmins, Active, Ids

(* One step keeps the invariant and an admin. *)
LEMMA AdminStep ==
  ASSUME Typed, AdminInv, [Next]_vars
  PROVE  AdminInv' /\ (HasActiveAdmin => HasActiveAdmin' \/ LastAdminRevoked)
<1> DEFINE G == AdminInv' /\ (HasActiveAdmin => HasActiveAdmin' \/ LastAdminRevoked)
<1>a. OthersTyped /\ task \subseteq Calls
  BY TypedParts
<1>1. ASSUME NEW t \in task, SetupAsked(t) \/ SetupProved(t) \/ JoinAsked(t) \/ JoinProved(t) \/ JoinStatus(t)
      PROVE  G
  <2> DEFINE c == Proved(t.code, {setupCode.code})
             e == Proved(t.code, {o.code : o \in codes})
  <2>1. t \in Calls /\ t.op # "revoke" /\ UNCHANGED device
    BY <1>1, <1>a, Zenon DEF SetupAsked, SetupProved, JoinAsked, JoinProved, JoinStatus, At
  <2>2. [t EXCEPT !.at = "proof", !.code = c].op = t.op /\ [t EXCEPT !.at = "create"].op = t.op
        /\ [t EXCEPT !.at = "proof", !.code = e].op = t.op
    BY <2>1 DEF Calls
  <2>3. \/ \E a, d : Answer(t, a, d)
        \/ Goes(t, [t EXCEPT !.at = "proof", !.code = c]) \/ Goes(t, [t EXCEPT !.at = "create"])
        \/ Goes(t, [t EXCEPT !.at = "proof", !.code = e])
    BY <1>1, Zenon DEF SetupAsked, SetupProved, JoinAsked, JoinProved, JoinStatus
  <2> HIDE DEF c, e
  <2>4. Revokes' \subseteq Revokes
    BY <2>1, <2>2, <2>3, RevokesSame, RevokesAnswer
  <2> QED
    BY <2>1, <2>4, AdminsSame, AdminKept
<1>2. ASSUME NEW t \in task, SetupCreates(t) PROVE G
  <2>1. t \in Calls /\ t.op = "setup" /\ CreateDevice(t.key, TRUE) /\ Answer(t, "paired", Len(device'))
    BY <1>2, <1>a DEF SetupCreates, At
  <2>2. t.key \in 1 .. MaxKeys
    BY <2>1, TypedParts DEF Keyed, NoKey, Calls
  <2>3. Revokes' \subseteq Revokes
    BY <2>1, RevokesAnswer
  <2> QED
    BY <2>1, <2>2, <2>3, <1>a, AdminsGrow, AdminKept
<1>3. ASSUME NEW t \in task, ApproveCreates(t) PROVE G
  <2> DEFINE u == [t EXCEPT !.at = "mark", !.dev = Len(device')]
             admin == t.ans = "admin"
  <2>1. t \in Calls /\ t.op = "approve" /\ (Ends(t) \/ Goes(t, u))
        /\ (UNCHANGED device \/ CreateDevice(t.key, admin))
    BY <1>3, <1>a DEF ApproveCreates, At
  <2>2. t.key \in 1 .. MaxKeys /\ u.op = t.op /\ admin \in BOOLEAN
    BY <2>1, TypedParts DEF Keyed, NoKey, Calls
  <2> HIDE DEF u, admin
  <2>3. Revokes' \subseteq Revokes
    BY <2>1, <2>2, RevokesSame
  <2>4. ActiveAdmins \subseteq ActiveAdmins'
    BY <2>1, <2>2, <1>a, AdminsGrow, AdminsSame
  <2> QED
    BY <2>3, <2>4, AdminKept
<1>4. ASSUME NEW t \in task, ApproveMarks(t) \/ \E how \in Savings : Receive(t, how) PROVE G
  <2>1. UNCHANGED device /\ Ends(t)
    BY <1>4, Zenon DEF ApproveMarks, Receive
  <2>2. Revokes' \subseteq Revokes
    BY <2>1 DEF Revokes, Ends
  <2> QED
    BY <2>1, <2>2, AdminsSame, AdminKept
<1>5. ASSUME NEW t \in task, Lose(t) PROVE G
  <2>1. UNCHANGED device /\ t.to # Nobody /\ t \in Calls
        /\ (Ends(t) \/ Goes(t, [t EXCEPT !.to = Nobody, !.shown = FALSE]))
    BY <1>5, <1>a, Zenon DEF Lose
  <2>2. t.op # "revoke" /\ [t EXCEPT !.to = Nobody, !.shown = FALSE].op = t.op
    BY <2>1 DEF AdminInv, Revokes, Calls
  <2>3. Revokes' \subseteq Revokes
    BY <2>1, <2>2, RevokesSame
  <2> QED
    BY <2>1, <2>3, AdminsSame, AdminKept
<1>6. ASSUME NEW t \in task, RevokeCommits(t) PROVE G
  <2>1. t \in Revokes /\ task' = Overtaken(task \ {t}, t.dev)
        /\ device' = [device EXCEPT ![t.dev].revoked = TRUE]
    BY <1>6 DEF RevokeCommits, At, Revokes
  <2>2. ASSUME NEW u \in task'
        PROVE  \E w \in task \ {t} :
                 \/ u = w /\ (u.op = "revoke" => u.dev = t.dev \/ t.dev \notin ActiveAdmins)
                 \/ /\ u.op = "revoke" /\ w.op = "revoke" /\ u.to = w.to
                    /\ u.ans = "overtaken" /\ u.dev # t.dev
    <3>1. PICK w \in task \ {t} :
            u = IF w.op = "revoke" /\ w.dev # t.dev /\ t.dev \in ActiveAdmins
                THEN [w EXCEPT !.ans = "overtaken"] ELSE w
      BY <2>1 DEF Overtaken
    <3>2. LET v == [w EXCEPT !.ans = "overtaken"]
          IN  v.op = w.op /\ v.to = w.to /\ v.dev = w.dev /\ v.ans = "overtaken"
      BY <1>a DEF Calls
    <3> QED
      BY <3>1, <3>2
  <2>3. \A u \in Revokes' : u.to = Nobody
    BY <2>2 DEF AdminInv, Revokes
  <2>4. \A e \in ActiveAdmins : e # t.dev => e \in ActiveAdmins'
    BY <2>1, <1>a, StaysActive
  <2>5. \A u \in Revokes' : u.ans = "overtaken" \/ \E e \in ActiveAdmins' : e # u.dev
    <3> SUFFICES ASSUME NEW u \in Revokes', u.ans # "overtaken" PROVE \E e \in ActiveAdmins' : e # u.dev
      OBVIOUS
    <3>1. u \in Revokes /\ (u.dev = t.dev \/ t.dev \notin ActiveAdmins)
      BY <2>2 DEF Revokes
    <3>2. PICK e \in ActiveAdmins : e # u.dev
      BY <3>1 DEF AdminInv
    <3> QED
      BY <2>4, <3>1, <3>2
  <2>6. CASE t.ans = "overtaken"
    <3>1. t \notin task'
      BY <2>1, <2>2 DEF Revokes
    <3> QED
      BY <1>6, <2>3, <2>5, <2>6, <3>1 DEF AdminInv, LastAdminRevoked, RevokeCommits
  <2>7. CASE t.ans # "overtaken"
    <3>1. PICK e \in ActiveAdmins : e # t.dev
      BY <2>1, <2>7 DEF AdminInv
    <3> QED
      BY <2>3, <2>4, <2>5, <3>1 DEF AdminInv, HasActiveAdmin
  <2> QED
    BY <2>6, <2>7
<1>7. ASSUME NEW s \in Shells, NEW d \in Ids, Revoke(s, d) PROVE G
  <2> DEFINE u == [Call(Nobody, "revoke", NoKey, Wrong) EXCEPT !.at = "commit", !.dev = d]
  <2>1. UNCHANGED device /\ task' = task \union {u}
    BY <1>7 DEF Revoke
  <2>2. u.to = Nobody /\ u.dev = d
    BY DEF Call
  <2>3. Revokes' \subseteq Revokes \union {u}
    BY <2>1 DEF Revokes
  <2>4. \E e \in ActiveAdmins : e # d
    <3>1. CASE device[d].admin
      <4>1. Cardinality(ActiveAdmins) > 1
        BY <1>7, <3>1 DEF Revoke, Revocable
      <4>2. ASSUME \A e \in ActiveAdmins : e = d PROVE FALSE
        <5>1. ActiveAdmins \subseteq {d}
          BY <4>2
        <5>2. IsFiniteSet({d}) /\ Cardinality({d}) = 1
          BY FS_Singleton
        <5>3. Cardinality(ActiveAdmins) <= 1 /\ IsFiniteSet(ActiveAdmins)
          BY <5>1, <5>2, FS_Subset
        <5>4. Cardinality(ActiveAdmins) \in Nat
          BY <5>3, FS_CardinalityType
        <5> QED
          BY <4>1, <5>3, <5>4
      <4> QED
        BY <4>2
    <3>2. CASE ~device[d].admin
      <4>1. shell[s].server \in ActiveAdmins /\ device[shell[s].server].admin
        BY <1>7, Zenon DEF Revoke, AdminSession, ActiveAdmins, Active
      <4> QED
        BY <3>2, <4>1
    <3> QED
      BY <3>1, <3>2
  <2> HIDE DEF u
  <2>5. AdminInv'
    BY <2>1, <2>2, <2>3, <2>4, AdminsSame DEF AdminInv
  <2> QED
    BY <2>1, <2>5, AdminsSame DEF HasActiveAdmin
<1>8. ASSUME NEW s \in Shells,
             \/ \E setup \in BOOLEAN, c \in 0 .. lastCode : Pair(s, setup, c)
             \/ Poll(s) \/ Forget(s) \/ NewPairingCode(s)
             \/ \E k \in DOMAIN request : Reject(s, k) \/ \E admin \in BOOLEAN : Approve(s, k, admin)
      PROVE  G
  <2>1. UNCHANGED device
    BY <1>8, Zenon DEF Pair, Poll, Forget, NewPairingCode, Reject, Approve
  <2>3. \A u \in task' : u \in task \/ u.op # "revoke"
    <3>1. ASSUME NEW setup \in BOOLEAN, NEW c \in 0 .. lastCode, Pair(s, setup, c)
          PROVE  \A u \in task' : u \in task \/ u.op # "revoke"
      <4>1. task' = task \union {Call(s, IF setup THEN "setup" ELSE "join", lastKey', c)}
        BY <3>1, Zenon DEF Pair
      <4> QED
        BY <4>1 DEF Call
    <3>2. ASSUME NEW k \in DOMAIN request, NEW admin \in BOOLEAN, Approve(s, k, admin)
          PROVE  \A u \in task' : u \in task \/ u.op # "revoke"
      <4> DEFINE a == IF admin THEN "admin" ELSE "none"
                 c == Call(Nobody, "approve", k, Wrong)
      <4>1. task' = task \union {[c EXCEPT !.at = "create", !.ans = a]}
        BY <3>2, Zenon DEF Approve
      <4>2. c.op = "approve" /\ DOMAIN c = DOMAIN [c EXCEPT !.at = "create", !.ans = a]
            /\ "op" \in DOMAIN c
        BY DEF Call
      <4> HIDE DEF c, a
      <4>3. [c EXCEPT !.at = "create", !.ans = a].op = c.op
        BY <4>2
      <4> QED
        BY <4>1, <4>2, <4>3
    <3>3. ASSUME Poll(s) PROVE \A u \in task' : u \in task \/ u.op # "revoke"
      BY <3>3 DEF Poll, Call
    <3>4. ASSUME Forget(s) \/ NewPairingCode(s) \/ \E k \in DOMAIN request : Reject(s, k)
          PROVE  \A u \in task' : u \in task \/ u.op # "revoke"
      <4>1. UNCHANGED task
        BY <3>4, Zenon DEF Forget, NewPairingCode, Reject
      <4> QED
        BY <4>1
    <3> QED
      BY <1>8, <3>1, <3>2, <3>3, <3>4, Zenon
  <2>4. Revokes' \subseteq Revokes
    BY <2>3 DEF Revokes
  <2> QED
    BY <2>1, <2>4, AdminsSame, AdminKept
<1>9. ASSUME NEW s \in Shells, ShellRestart(s) \/ Reopen(s) PROVE G
  <2>1. UNCHANGED device /\ (task' = Detached(task, s) \/ task' = Hidden(task, s))
    BY <1>9 DEF ShellRestart, Reopen
  <2>2. ASSUME NEW u \in Revokes' PROVE u \in Revokes
    <3>1. PICK t \in task :
            u \in {IF t.to = s THEN [t EXCEPT !.to = Nobody, !.shown = FALSE] ELSE t,
                  IF t.to = s THEN [t EXCEPT !.shown = FALSE] ELSE t}
      BY <2>1 DEF Revokes, Detached, Hidden
    <3>2. t.op = "revoke"
      <4>1. [t EXCEPT !.to = Nobody, !.shown = FALSE].op = t.op /\ [t EXCEPT !.shown = FALSE].op = t.op
        BY <1>a DEF Calls
      <4> QED
        BY <3>1, <4>1 DEF Revokes
    <3>3. t.to # s
      BY <3>2, PairingAssumption DEF AdminInv, Revokes
    <3> QED
      BY <3>1, <3>2, <3>3 DEF Revokes
  <2>3. Revokes' \subseteq Revokes
    BY <2>2
  <2> QED
    BY <2>1, <2>3, AdminsSame, AdminKept
<1>10. ASSUME Expiry PROVE G
  <2>1. UNCHANGED <<device, task>>
    BY <1>10, Zenon DEF Expiry, ExpireCode, ExpireRequest
  <2> QED
    BY <2>1, AdminsSame, AdminKept DEF Revokes
<1>11. ASSUME ServerRestart PROVE G
  <2>1. UNCHANGED device /\ task' = {}
    BY <1>11, Zenon DEF ServerRestart
  <2> QED
    BY <2>1, AdminsSame, AdminKept DEF Revokes
<1>12. CASE UNCHANGED vars
  <2>1. UNCHANGED <<device, task>>
    BY <1>12 DEF vars
  <2> QED
    BY <2>1, AdminsSame, AdminKept DEF Revokes
<1>13. ASSUME NEW t \in task, Handler(t) PROVE G
  BY <1>1, <1>2, <1>3, <1>4, <1>6, <1>13, Zenon DEF Handler
<1>14. ASSUME NEW s \in Shells, AdminCalls(s) PROVE G
  BY <1>7, <1>8, <1>14, Zenon DEF AdminCalls
<1> HIDE DEF G
<1>15. CASE Next
  <2>1. ASSUME NEW t \in task, Handler(t) \/ Lose(t) \/ \E how \in Savings : Receive(t, how)
        PROVE  G
    BY <2>1, <1>4, <1>5, <1>13
  <2>2. ASSUME NEW s \in Shells,
               \/ \E setup \in BOOLEAN, c \in 0 .. lastCode : Pair(s, setup, c)
               \/ Poll(s) \/ Reopen(s) \/ Forget(s) \/ ShellRestart(s) \/ AdminCalls(s)
        PROVE  G
    BY <2>2, <1>8, <1>9, <1>14
  <2> QED
    BY <1>10, <1>11, <1>15, <2>1, <2>2, Zenon DEF Next, G
<1> QED
  BY <1>12, <1>15 DEF G

(* An active admin stays, however calls, approvals, stops and revocations are   *)
(* interleaved, unless a revocation commits that another one has overtaken: a    *)
(* revocation is checked against the admins there are, and nothing else takes    *)
(* one away before its commit.                                                   *)
THEOREM LastAdminStays == Spec => AdminStays
<1>1. Init => Typed /\ AdminInv
  BY InitType, AdminInit
<1>2. Typed /\ AdminInv /\ [Next]_vars =>
        Typed' /\ AdminInv' /\ (HasActiveAdmin => HasActiveAdmin' \/ LastAdminRevoked)
  BY TypeStep, AdminStep
<1>3. (HasActiveAdmin => HasActiveAdmin' \/ LastAdminRevoked) =>
        [HasActiveAdmin => HasActiveAdmin' \/ LastAdminRevoked]_vars
  OBVIOUS
<1> QED
  BY <1>1, <1>2, <1>3, PTL DEF Spec, AdminStays

-----------------------------------------------------------------------------
(* A shell with a server holds the key the server has for it. *)

\* Fits, of the next state.
FitsNext(d, k) == d \in 1 .. Len(device') /\ device'[d].key = k

\* What an answer for the key k may finish is the pairing with that key.
Meant(k, sh) == sh.pending \in {k, NoKey}

\* The device a call has led to is the one of its key.
Told(t) == t.at = "mark" \/ (t.at = "answered" /\ t.ans \in {"paired", "approved"})
             => Fits(t.dev, t.key)
ToldNext(t) == t.at = "mark" \/ (t.at = "answered" /\ t.ans \in {"paired", "approved"})
                 => FitsNext(t.dev, t.key)

RequestsFit == \A k \in DOMAIN request : request[k].status = "approved" => Fits(request[k].dev, k)
TasksTold == \A t \in task : Told(t)
CallsMeant == \A t \in task : t.to \in Shells /\ alone[t.to] => Meant(t.key, shell[t.to])

\* What a shell that was alone keeps: the wizard waits for the pending key.
Good(sh) == Holds(sh) /\ (sh.waiting => sh.pairing = NoKey \/ Meant(sh.pairing, sh))
New(sh) == sh.pending # NoKey => sh.server = NoDevice
ShellsGood == \A s \in Shells : New(shell[s]) /\ (alone[s] => Good(shell[s]))

KeyInv == RequestsFit /\ TasksTold /\ CallsMeant /\ ShellsGood

LEMMA KeyInit == Init => KeyInv
BY DEF Init, KeyInv, RequestsFit, TasksTold, CallsMeant, ShellsGood, Good, New, Holds, NewShell

LEMMA KeyGives == KeyInv => KeyFits
BY DEF KeyInv, KeyFits, ShellsGood, Good

\* A device keeps its number and its key.
FitsStay == \A d, k : Fits(d, k) => FitsNext(d, k)

LEMMA FitsSame == UNCHANGED device => FitsStay
BY DEF FitsStay, Fits, Ids, FitsNext

LEMMA FitsCreated ==
  ASSUME OthersTyped, NEW k \in 1 .. MaxKeys, NEW admin \in BOOLEAN, CreateDevice(k, admin)
  PROVE  FitsStay /\ FitsNext(Len(device'), k)
<1> DEFINE row == [key |-> k, admin |-> admin, revoked |-> FALSE]
<1>1. device \in Seq(Device) /\ row \in Device /\ device' = Append(device, row) /\ row.key = k
  BY DEF OthersTyped, Device, CreateDevice
<1> HIDE DEF row
<1>2. Len(device') = Len(device) + 1 /\ \A d \in 1 .. Len(device) : device'[d] = device[d]
  BY <1>1
<1>3. Len(device) \in Nat /\ device'[Len(device) + 1] = row
  BY <1>1
<1>4. FitsStay
  BY <1>2, <1>3 DEF FitsStay, Fits, Ids, FitsNext
<1>5. FitsNext(Len(device'), k)
  BY <1>1, <1>2, <1>3 DEF FitsNext
<1> QED
  BY <1>4, <1>5

LEMMA FitsRevoked ==
  ASSUME OthersTyped, NEW n, device' = [device EXCEPT ![n].revoked = TRUE]
  PROVE  FitsStay
<1>1. device \in Seq(Device)
  BY DEF OthersTyped, Device
<1>2. DOMAIN device = 1 .. Len(device) /\ Len(device) \in Nat /\ device \in [1 .. Len(device) -> Device]
  BY <1>1
<1>3. device' \in [1 .. Len(device) -> Device] /\ \A d \in 1 .. Len(device) : device'[d].key = device[d].key
  BY <1>2 DEF Device
<1>4. device' \in Seq(Device) /\ DOMAIN device' = 1 .. Len(device)
  BY <1>2, <1>3
<1>5. Len(device') = Len(device)
  BY <1>2, <1>4
<1> QED
  BY <1>3, <1>5 DEF FitsStay, Fits, Ids, FitsNext

\* A call that has gone on without its caller or its wizard, or been overtaken.
Like(u, t) == u.to \in {t.to, Nobody} /\ u.at = t.at /\ u.dev = t.dev /\ u.key = t.key
              /\ u.ans \in {t.ans, "overtaken"}

LEMMA ToldLike ==
  ASSUME TasksTold, FitsStay, NEW u, NEW t \in task, Like(u, t)
  PROVE  ToldNext(u)
BY DEF TasksTold, Told, ToldNext, Like, FitsStay

LEMMA ShellsStay ==
  ASSUME ShellsGood, FitsStay, UNCHANGED <<shell, alone>>
  PROVE  ShellsGood'
BY DEF ShellsGood, Good, New, Holds, Meant, FitsStay, FitsNext, Fits, Ids

(* A handler leaves a call to the same caller, about the same key. *)
LEMMA KeyGoes ==
  ASSUME KeyInv, NEW t \in task, NEW u, Goes(t, u), u.to = t.to, u.key = t.key,
         FitsStay, ToldNext(u), RequestsFit', UNCHANGED <<shell, alone>>
  PROVE  KeyInv'
<1>1. task' = (task \ {t}) \union {u}
  BY DEF Goes
<1>2. ShellsGood'
  BY ShellsStay DEF KeyInv
<1>3. TasksTold'
  BY <1>1 DEF KeyInv, TasksTold, Told, FitsStay, FitsNext, ToldNext, Fits, Ids
<1>4. CallsMeant'
  BY <1>1 DEF KeyInv, CallsMeant, Meant
<1> QED
  BY <1>2, <1>3, <1>4 DEF KeyInv

LEMMA KeyEnds ==
  ASSUME KeyInv, \A u \in task' : \E t \in task : Like(u, t), FitsStay, RequestsFit',
         UNCHANGED <<shell, alone>>
  PROVE  KeyInv'
<1>1. ShellsGood'
  BY ShellsStay DEF KeyInv
<1>2. TasksTold'
  <2>1. ASSUME NEW u \in task' PROVE ToldNext(u)
    BY ToldLike DEF KeyInv
  <2> QED
    BY <2>1 DEF TasksTold, Told, ToldNext, FitsNext, Fits, Ids
<1>3. CallsMeant'
  BY PairingAssumption DEF KeyInv, CallsMeant, Meant, Like
<1> QED
  BY <1>1, <1>2, <1>3 DEF KeyInv

LEMMA LikeSame == ASSUME task' \subseteq task PROVE \A u \in task' : \E t \in task : Like(u, t)
BY DEF Like

LEMMA KeyAnswer ==
  ASSUME Typed, KeyInv, NEW t \in task, NEW a, NEW d, Answer(t, a, d),
         a \in {"paired", "approved"} => FitsNext(d, t.key),
         FitsStay, RequestsFit', UNCHANGED <<shell, alone>>
  PROVE  KeyInv'
<1> DEFINE u == [t EXCEPT !.at = "answered", !.ans = a, !.dev = d]
<1>1. t \in Calls
  BY TypedParts
<1>2. u.to = t.to /\ u.key = t.key /\ u.ans = a /\ u.dev = d /\ u.at = "answered"
  BY <1>1 DEF Calls
<1>3. Ends(t) \/ Goes(t, u)
  BY DEF Answer
<1> HIDE DEF u
<1>4. CASE Ends(t)
  BY <1>4, LikeSame, KeyEnds DEF Ends
<1>5. CASE Goes(t, u)
  <2>1. ToldNext(u)
    BY <1>2 DEF ToldNext
  <2> QED
    BY <1>2, <1>5, <2>1, KeyGoes
<1> QED
  BY <1>3, <1>4, <1>5

(* A call without a caller is added. *)
LEMMA KeyInternal ==
  ASSUME KeyInv, NEW u, task' = task \union {u}, u.to = Nobody, u.at \notin {"mark", "answered"},
         UNCHANGED <<device, request, shell, alone>>
  PROVE  KeyInv'
<1>1. ShellsGood' /\ RequestsFit'
  BY FitsSame, ShellsStay DEF KeyInv, RequestsFit, Fits, Ids
<1>2. TasksTold'
  BY DEF KeyInv, TasksTold, Told, Fits, Ids
<1>3. CallsMeant'
  BY PairingAssumption DEF KeyInv, CallsMeant, Meant
<1> QED
  BY <1>1, <1>2, <1>3 DEF KeyInv

LEMMA RequestsSame == RequestsFit /\ FitsStay /\ UNCHANGED request => RequestsFit'
BY DEF RequestsFit, FitsStay, FitsNext, Fits, Ids

LEMMA KeyHandler ==
  ASSUME Typed, KeyInv, NEW t \in task, Handler(t)
  PROVE  KeyInv'
<1>a. OthersTyped /\ t \in Calls /\ (t.op # "revoke" => t.key \in 1 .. MaxKeys)
  BY TypedParts DEF Keyed, NoKey, Calls
<1>b. RequestsFit
  BY DEF KeyInv
<1>1. ASSUME SetupAsked(t) \/ JoinAsked(t) PROVE KeyInv'
  <2> DEFINE c == Proved(t.code, {setupCode.code})
             e == Proved(t.code, {o.code : o \in codes})
             u == [t EXCEPT !.at = "proof", !.code = c]
             v == [t EXCEPT !.at = "proof", !.code = e]
  <2>1. UNCHANGED <<device, shell, request, alone>>
        /\ (Answer(t, "refused", NoDevice) \/ Goes(t, u) \/ Goes(t, v))
    BY <1>1, Zenon DEF SetupAsked, JoinAsked, store, ghosts
  <2>2. u.op = t.op /\ u.to = t.to /\ u.key = t.key /\ u.at = "proof"
    BY <1>a DEF Calls
  <2>3. v.op = t.op /\ v.to = t.to /\ v.key = t.key /\ v.at = "proof"
    BY <1>a DEF Calls
  <2> HIDE DEF c, e, u, v
  <2>4. FitsStay /\ RequestsFit'
    BY <2>1, <1>b, FitsSame, RequestsSame
  <2>5. ToldNext(u) /\ ToldNext(v)
    BY <2>2, <2>3 DEF ToldNext
  <2> QED
    BY <2>1, <2>2, <2>3, <2>4, <2>5, KeyAnswer, KeyGoes
<1>2. ASSUME SetupProved(t) PROVE KeyInv'
  <2> DEFINE u == [t EXCEPT !.at = "create"]
  <2>1. UNCHANGED <<device, shell, request, alone>> /\ (Answer(t, "refused", NoDevice) \/ Goes(t, u))
    BY <1>2, Zenon DEF SetupProved
  <2>2. u.op = t.op /\ u.to = t.to /\ u.key = t.key /\ u.at = "create"
    BY <1>a DEF Calls
  <2> HIDE DEF u
  <2>3. FitsStay /\ RequestsFit' /\ ToldNext(u)
    BY <2>1, <2>2, <1>b, FitsSame, RequestsSame DEF ToldNext
  <2> QED
    BY <2>1, <2>2, <2>3, KeyAnswer, KeyGoes
<1>3. ASSUME SetupCreates(t) PROVE KeyInv'
  <2>1. t.op = "setup" /\ CreateDevice(t.key, TRUE) /\ Answer(t, "paired", Len(device'))
        /\ UNCHANGED <<shell, request, alone>>
    BY <1>3 DEF SetupCreates, At, store, ghosts
  <2>2. FitsStay /\ FitsNext(Len(device'), t.key)
    BY <2>1, <1>a, FitsCreated
  <2>3. RequestsFit'
    BY <2>1, <2>2, <1>b, RequestsSame
  <2> QED
    BY <2>1, <2>2, <2>3, KeyAnswer
<1>4. ASSUME JoinProved(t) PROVE KeyInv'
  <2>1. UNCHANGED <<device, shell, alone>> /\ (Answer(t, "refused", NoDevice) \/ Answer(t, "joined", NoDevice))
        /\ \/ UNCHANGED request
           \/ request' = [k \in {t.key} \union DOMAIN request |->
               IF k = t.key THEN [status |-> "pending", dev |-> NoDevice] ELSE request[k]]
    BY <1>4, Zenon DEF JoinProved
  <2>2. FitsStay
    BY <2>1, FitsSame
  <2>3. RequestsFit'
    BY <2>1, <2>2, <1>b DEF RequestsFit, FitsStay, FitsNext, Fits, Ids
  <2> QED
    BY <2>1, <2>2, <2>3, KeyAnswer
<1>5. ASSUME JoinStatus(t) PROVE KeyInv'
  <2>1. UNCHANGED <<device, shell, request, alone>> /\ Answer(t, Found(t.key).status, Found(t.key).dev)
    BY <1>5 DEF JoinStatus, store, ghosts
  <2>2. FitsStay /\ RequestsFit'
    BY <2>1, <1>b, FitsSame, RequestsSame
  <2>3. Found(t.key).status \in {"paired", "approved"} => Fits(Found(t.key).dev, t.key)
    BY <1>a, <1>b DEF Found, RequestsFit, OthersTyped
  <2>4. Found(t.key).status \in {"paired", "approved"} => FitsNext(Found(t.key).dev, t.key)
    BY <2>2, <2>3 DEF FitsStay
  <2> QED
    BY <2>1, <2>2, <2>4, KeyAnswer
<1>6. ASSUME ApproveCreates(t) PROVE KeyInv'
  <2> DEFINE u == [t EXCEPT !.at = "mark", !.dev = Len(device')]
             admin == t.ans = "admin"
  <2>1. t.op = "approve" /\ UNCHANGED <<shell, request, alone>>
        /\ \/ Ends(t) /\ UNCHANGED device
           \/ Goes(t, u) /\ CreateDevice(t.key, admin)
    BY <1>6, Zenon DEF ApproveCreates, At, store, ghosts
  <2>2. u.op = t.op /\ u.to = t.to /\ u.key = t.key /\ u.dev = Len(device') /\ admin \in BOOLEAN
    BY <1>a DEF Calls
  <2> HIDE DEF u, admin
  <2>3. CASE Ends(t) /\ UNCHANGED device
    <3>1. FitsStay /\ RequestsFit'
      BY <2>1, <2>3, <1>b, FitsSame, RequestsSame
    <3> QED
      BY <2>1, <2>3, <3>1, LikeSame, KeyEnds DEF Ends
  <2>4. CASE Goes(t, u) /\ CreateDevice(t.key, admin)
    <3>1. FitsStay /\ FitsNext(Len(device'), t.key)
      BY <2>1, <2>2, <2>4, <1>a, FitsCreated
    <3>2. ToldNext(u) /\ RequestsFit'
      BY <2>1, <2>2, <3>1, <1>b, RequestsSame DEF ToldNext
    <3> QED
      BY <2>1, <2>2, <2>4, <3>1, <3>2, KeyGoes
  <2> QED
    BY <2>1, <2>3, <2>4
<1>7. ASSUME ApproveMarks(t) PROVE KeyInv'
  <2>1. UNCHANGED <<device, shell, alone>> /\ Ends(t) /\ t.at = "mark"
    BY <1>7 DEF ApproveMarks, At, ghosts
  <2>2. FitsStay /\ Fits(t.dev, t.key)
    BY <2>1, FitsSame DEF KeyInv, TasksTold, Told
  <2>3. RequestsFit'
    BY <1>7, <2>2, <1>b DEF ApproveMarks, RequestsFit, FitsStay, FitsNext, Fits, Ids
  <2> QED
    BY <2>1, <2>2, <2>3, LikeSame, KeyEnds DEF Ends
<1>8. ASSUME RevokeCommits(t) PROVE KeyInv'
  <2>1. UNCHANGED <<shell, request, alone>> /\ task' = Overtaken(task \ {t}, t.dev)
        /\ device' = [device EXCEPT ![t.dev].revoked = TRUE]
    BY <1>8 DEF RevokeCommits, store, ghosts
  <2>2. FitsStay
    BY <2>1, <1>a, FitsRevoked
  <2>3. ASSUME NEW u \in task' PROVE \E w \in task : Like(u, w)
    <3>1. PICK w \in task : u = w \/ u = [w EXCEPT !.ans = "overtaken"]
      BY <2>1 DEF Overtaken
    <3>2. w \in Calls
      BY TypedParts
    <3> QED
      BY <3>1, <3>2 DEF Calls, Like
  <2> QED
    BY <2>1, <2>2, <2>3, <1>b, RequestsSame, KeyEnds
<1> QED
  BY <1>1, <1>2, <1>3, <1>4, <1>5, <1>6, <1>7, <1>8 DEF Handler

(* What one shell does, the others and the server unchanged. *)
LEMMA KeyShell ==
  ASSUME OthersTyped, KeyInv, NEW s \in Shells, NEW sh, shell' = [shell EXCEPT ![s] = sh],
         UNCHANGED <<device, request>>, \A r \in Shells \ {s} : alone'[r] = alone[r],
         New(sh), alone'[s] => Good(sh),
         \A u \in task' : u.to = s /\ alone'[s] => Meant(u.key, sh),
         \A u \in task' : (\E t \in task : Like(u, t)) \/ (u.to = s /\ u.at = "sent")
  PROVE  KeyInv'
<1>1. shell'[s] = sh /\ \A r \in Shells : r # s => shell'[r] = shell[r]
  BY ShellTyped
<1>2. FitsStay
  BY FitsSame
<1>3. RequestsFit'
  BY <1>2, RequestsSame DEF KeyInv
<1>4. ShellsGood'
  BY <1>1 DEF KeyInv, ShellsGood, Good, New, Holds, Fits, Ids, Meant
<1>5. TasksTold'
  <2>1. ASSUME NEW u \in task' PROVE ToldNext(u)
    <3>1. CASE \E t \in task : Like(u, t)
      BY <1>2, <3>1, ToldLike DEF KeyInv
    <3>2. CASE u.at = "sent"
      BY <3>2 DEF ToldNext
    <3> QED
      BY <3>1, <3>2
  <2> QED
    BY <2>1 DEF TasksTold, Told, ToldNext, FitsNext, Fits, Ids
<1>6. CallsMeant'
  <2> SUFFICES ASSUME NEW u \in task', u.to \in Shells, alone'[u.to] PROVE Meant(u.key, shell'[u.to])
    BY DEF CallsMeant, Meant
  <2>1. CASE u.to = s
    BY <1>1, <2>1
  <2>2. CASE u.to # s
    <3>1. PICK t \in task : Like(u, t)
      BY <2>2
    <3>2. t.to = u.to /\ t.key = u.key
      BY <3>1, PairingAssumption DEF Like
    <3> QED
      BY <1>1, <2>2, <3>2 DEF KeyInv, CallsMeant
  <2> QED
    BY <2>1, <2>2
<1> QED
  BY <1>3, <1>4, <1>5, <1>6 DEF KeyInv

(* A shell changes while no call is added: what is pending stays or goes. *)
LEMMA KeyAlone ==
  ASSUME OthersTyped, KeyInv, NEW s \in Shells, NEW sh, shell' = [shell EXCEPT ![s] = sh],
         UNCHANGED <<device, request, alone>>, New(sh), alone[s] => Good(sh),
         sh.pending \in {shell[s].pending, NoKey},
         \A u \in task' : \E t \in task : Like(u, t)
  PROVE  KeyInv'
<1>1. \A u \in task' : u.to = s /\ alone[s] => Meant(u.key, sh)
  BY PairingAssumption DEF KeyInv, CallsMeant, Meant, Like
<1> QED
  BY <1>1, KeyShell

(* What finishing a pairing with a fitting device makes of a shell. *)
LEMMA FinishedFits ==
  ASSUME NEW sh \in Kept, NEW d, NEW k, NEW how \in Savings, New(sh)
  PROVE  LET f == Finished(sh, d, how) IN
         /\ f.pending = NoKey /\ f.waiting = sh.waiting /\ f.pairing = sh.pairing
         /\ Holds(sh) /\ Fits(d, k) /\ Meant(k, sh) => Holds(f)
<1> DEFINE f == Finished(sh, d, how)
<1>0. DOMAIN sh = {"server", "key", "pending", "pairing", "waiting"}
  BY KeptIs
<1>1. CASE sh.pending = NoKey \/ how = "no key"
  <2>1. f = [sh EXCEPT !.pending = NoKey]
    BY <1>1, Zenon DEF Finished
  <2> HIDE DEF f
  <2>2. f.server = sh.server /\ f.key = sh.key /\ f.pending = NoKey /\ f.waiting = sh.waiting
        /\ f.pairing = sh.pairing
    BY <1>0, <2>1, Zenon
  <2> QED
    BY <2>2 DEF Holds, f
<1>2. CASE ~(sh.pending = NoKey \/ how = "no key")
  <2> DEFINE n == IF how = "saved" THEN d ELSE sh.server
  <2>1. f = [sh EXCEPT !.key = sh.pending, !.pending = NoKey, !.server = n]
    BY <1>2, Zenon DEF Finished
  <2>2. n \in {d, NoDevice}
    BY <1>2 DEF New
  <2> HIDE DEF f, n
  <2>3. f.server = n /\ f.key = sh.pending /\ f.pending = NoKey /\ f.waiting = sh.waiting
        /\ f.pairing = sh.pairing
    BY <1>0, <2>1, Zenon
  <2> QED
    BY <1>2, <2>2, <2>3 DEF Holds, Meant, f
<1> QED
  BY <1>1, <1>2

LEMMA KeyPair ==
  ASSUME Typed, KeyInv, NEW s \in Shells, NEW setup \in BOOLEAN,
         NEW c \in 0 .. lastCode, Pair(s, setup, c)
  PROVE  KeyInv'
<1> DEFINE sh == Begun(shell[s], lastKey')
           u == Call(s, IF setup THEN "setup" ELSE "join", lastKey', c)
<1>1. OthersTyped /\ shell[s] \in Kept
  BY TypedParts, ShellTyped
<1>2. /\ shell[s].server = NoDevice /\ ~shell[s].waiting
      /\ task' = task \union {u} /\ UNCHANGED <<device, request>>
  BY Zenon DEF Pair, store, Busy
<1>3. shell' = [shell EXCEPT ![s] = sh] /\ alone' = [alone EXCEPT ![s] = Out(s) = {}]
  BY Zenon DEF Pair
<1>4. u.to = s /\ u.at = "sent" /\ u.key = lastKey'
  BY DEF Call
<1>5. sh.server = shell[s].server /\ sh.waiting = shell[s].waiting /\ sh.pending = lastKey'
  <2>1. DOMAIN shell[s] = {"server", "key", "pending", "pairing", "waiting"}
    BY <1>1, KeptIs
  <2> QED
    BY <2>1, Zenon DEF Begun
<1> HIDE DEF sh, u
<1>6. New(sh) /\ Good(sh)
  BY <1>2, <1>5 DEF New, Good, Holds
<1>7. ASSUME alone'[s], NEW w \in task', w.to = s PROVE Meant(w.key, sh)
  <2>1. Out(s) = {}
    BY <1>1, <1>3, <1>7 DEF OthersTyped
  <2>2. w = u
    BY <1>2, <1>7, <2>1 DEF Out
  <2> QED
    BY <1>4, <1>5, <2>2 DEF Meant
<1>8. \A r \in Shells \ {s} : alone'[r] = alone[r]
  BY <1>1, <1>3 DEF OthersTyped
<1>9. \A w \in task' : (\E t \in task : Like(w, t)) \/ (w.to = s /\ w.at = "sent")
  BY <1>2, <1>4 DEF Like
<1> QED
  BY <1>1, <1>2, <1>3, <1>6, <1>7, <1>8, <1>9, KeyShell

LEMMA KeyPoll ==
  ASSUME Typed, KeyInv, NEW s \in Shells, Poll(s)
  PROVE  KeyInv'
<1>1. OthersTyped /\ shell[s] \in Kept
  BY TypedParts, ShellTyped
<1>2. shell[s].waiting /\ UNCHANGED <<device, request, alone>>
  BY DEF Poll, store, ghosts
<1>g. New(shell[s]) /\ (alone[s] => Good(shell[s]))
  BY DEF KeyInv, ShellsGood
<1>3. CASE shell[s].pairing = NoKey
  <2> DEFINE sh == [shell[s] EXCEPT !.waiting = FALSE]
  <2>1. shell' = [shell EXCEPT ![s] = sh] /\ task' = task
    BY <1>3 DEF Poll
  <2>2. sh.server = shell[s].server /\ sh.key = shell[s].key /\ sh.pending = shell[s].pending
        /\ sh.waiting = FALSE
    BY <1>1 DEF Kept
  <2> HIDE DEF sh
  <2>3. New(sh) /\ (alone[s] => Good(sh))
    BY <1>g, <2>2 DEF New, Good, Holds
  <2> QED
    BY <1>1, <1>2, <2>1, <2>2, <2>3, LikeSame, KeyAlone
<1>4. CASE shell[s].pairing # NoKey
  <2> DEFINE u == Call(s, "status", shell[s].pairing, Wrong)
  <2>1. task' = task \union {u} /\ shell' = shell
    BY <1>4 DEF Poll
  <2>2. u.to = s /\ u.at = "sent" /\ u.key = shell[s].pairing
    BY DEF Call
  <2> HIDE DEF u
  <2>3. shell' = [shell EXCEPT ![s] = shell[s]]
    BY <1>1, <2>1, ShellTyped
  <2>4. \A w \in task' : w.to = s /\ alone'[s] => Meant(w.key, shell[s])
    BY <1>2, <1>4, <1>g, <2>1, <2>2 DEF KeyInv, CallsMeant, Good
  <2>5. \A w \in task' : (\E t \in task : Like(w, t)) \/ (w.to = s /\ w.at = "sent")
    BY <2>1, <2>2 DEF Like
  <2> QED
    BY <1>1, <1>2, <1>g, <2>3, <2>4, <2>5, KeyShell
<1> QED
  BY <1>3, <1>4

(* Calls without their caller or their wizard. *)
LEMMA LikeGone ==
  ASSUME Typed, NEW s \in Shells, task' = Detached(task, s) \/ task' = Hidden(task, s)
  PROVE  \A u \in task' : \E t \in task : Like(u, t)
<1>1. ASSUME NEW u \in task' PROVE \E t \in task : Like(u, t)
  <2>1. PICK t \in task :
          u \in {t, [t EXCEPT !.to = Nobody, !.shown = FALSE], [t EXCEPT !.shown = FALSE]}
    BY DEF Detached, Hidden
  <2>2. t \in Calls
    BY TypedParts
  <2>3. Like(t, t)
    BY DEF Like
  <2>4. Like([t EXCEPT !.to = Nobody, !.shown = FALSE], t) /\ Like([t EXCEPT !.shown = FALSE], t)
    BY <2>2, GoneType DEF Like
  <2> QED
    BY <2>1, <2>3, <2>4
<1> QED
  BY <1>1

LEMMA KeyReopenForget ==
  ASSUME Typed, KeyInv, NEW s \in Shells, Reopen(s) \/ Forget(s) \/ ShellRestart(s)
  PROVE  KeyInv'
<1>1. OthersTyped /\ shell[s] \in Kept
  BY TypedParts, ShellTyped
<1>g. New(shell[s]) /\ (alone[s] => Good(shell[s]))
  BY DEF KeyInv, ShellsGood
<1>2. ASSUME Reopen(s) PROVE KeyInv'
  <2> DEFINE sh == [shell[s] EXCEPT !.waiting = FALSE]
  <2>1. shell' = [shell EXCEPT ![s] = sh] /\ UNCHANGED <<device, request, alone>>
        /\ task' = Hidden(task, s)
    BY <1>2 DEF Reopen, store, ghosts
  <2>2. sh.waiting = FALSE /\ sh.server = shell[s].server /\ sh.key = shell[s].key
        /\ sh.pending = shell[s].pending
    BY <1>1 DEF Kept
  <2> HIDE DEF sh
  <2>3. New(sh) /\ (alone[s] => Good(sh))
    BY <1>g, <2>2 DEF New, Good, Holds
  <2> QED
    BY <1>1, <2>1, <2>2, <2>3, LikeGone, KeyAlone
<1>3. ASSUME Forget(s) PROVE KeyInv'
  <2> DEFINE sh == [shell[s] EXCEPT !.server = NoDevice, !.key = NoKey, !.pending = NoKey]
  <2>1. shell' = [shell EXCEPT ![s] = sh] /\ UNCHANGED <<device, request, task, alone>>
    BY <1>3 DEF Forget, store, ghosts
  <2>2. sh.server = NoDevice /\ sh.pending = NoKey
    <3>1. DOMAIN shell[s] = {"server", "key", "pending", "pairing", "waiting"}
      BY <1>1, KeptIs
    <3> QED
      BY <3>1, Zenon
  <2> HIDE DEF sh
  <2>3. New(sh) /\ Good(sh)
    BY <2>2 DEF New, Good, Holds, Meant
  <2> QED
    BY <1>1, <2>1, <2>2, <2>3, LikeSame, KeyAlone
<1>4. ASSUME ShellRestart(s) PROVE KeyInv'
  <2> DEFINE sh == [NewShell EXCEPT !.server = shell[s].server, !.key = shell[s].key]
  <2>1. shell' = [shell EXCEPT ![s] = sh] /\ task' = Detached(task, s)
        /\ UNCHANGED <<device, request, alone>>
    BY <1>4 DEF ShellRestart, store, ghosts
  <2>2. sh.server = shell[s].server /\ sh.key = shell[s].key /\ sh.waiting = FALSE /\ sh.pending = NoKey
    BY DEF NewShell
  <2> HIDE DEF sh
  <2>3. New(sh) /\ (alone[s] => Good(sh))
    BY <1>g, <2>2 DEF New, Good, Holds
  <2> QED
    BY <1>1, <2>1, <2>2, <2>3, LikeGone, KeyAlone
<1> QED
  BY <1>2, <1>3, <1>4

LEMMA KeyReceive ==
  ASSUME Typed, KeyInv, NEW t \in task, NEW how \in Savings, Receive(t, how)
  PROVE  KeyInv'
<1> DEFINE sh == shell[t.to]
           r == Received(t, how)
<1>1. OthersTyped /\ t \in Calls
  BY TypedParts
<1>2. shell' = [shell EXCEPT ![t.to] = r] /\ UNCHANGED <<device, request, alone>> /\ Ends(t)
      /\ t.at = "answered"
  BY DEF Receive, store, ghosts
<1>3. CASE t.to \notin Shells
  <2>1. UNCHANGED shell
    BY <1>1, <1>2, <1>3, ShellTyped
  <2> QED
    BY <1>2, <2>1, FitsSame, RequestsSame, LikeSame, KeyEnds DEF Ends, KeyInv
<1>4. CASE t.to \in Shells
  <2>1. sh \in Kept /\ DOMAIN sh = {"server", "key", "pending", "pairing", "waiting"}
    BY <1>1, <1>4, ShellTyped, KeptIs
  <2>2. New(sh) /\ (alone[t.to] => Good(sh) /\ Meant(t.key, sh))
    BY <1>4 DEF KeyInv, ShellsGood, CallsMeant
  <2>3. t.ans \in {"paired", "approved"} => Fits(t.dev, t.key)
    BY <1>2 DEF KeyInv, TasksTold, Told
  <2> DEFINE G == New(r) /\ (alone[t.to] => Good(r)) /\ r.pending \in {sh.pending, NoKey}
  <2>4. ASSUME t.ans = "paired" PROVE G
    <3>1. r = Finished(sh, t.dev, how)
      BY <2>4, Zenon DEF Received
    <3> HIDE DEF r, sh
    <3>2. r.pending = NoKey /\ (Holds(sh) /\ Meant(t.key, sh) => Holds(r))
      BY <2>1, <2>2, <2>3, <2>4, <3>1, FinishedFits
    <3> QED
      BY <2>2, <3>2 DEF New, Good, Meant
  <2>5. ASSUME t.ans = "joined" PROVE G
    <3>1. r = [sh EXCEPT !.pairing = t.key, !.waiting = @ \/ t.shown]
      BY <2>5, Zenon DEF Received
    <3> HIDE DEF r, sh
    <3>2. r.server = sh.server /\ r.key = sh.key /\ r.pending = sh.pending /\ r.pairing = t.key
      BY <2>1, <3>1, Zenon
    <3> QED
      BY <2>2, <3>2 DEF New, Good, Meant, Holds
  <2>6. ASSUME t.ans = "approved" PROVE G
    <3> DEFINE v == [sh EXCEPT !.pairing = NoKey]
               f == Finished(v, t.dev, how)
    <3>1. r = [f EXCEPT !.waiting = @ /\ ~t.shown]
      BY <2>6, Zenon DEF Received
    <3>2. v \in Kept
      BY <2>1, BoundsAreNumbers, KeptPairing DEF NoKey
    <3>3. v.server = sh.server /\ v.key = sh.key /\ v.pending = sh.pending
      BY <2>1, Zenon
    <3> HIDE DEF v, r, sh
    <3>4. New(v) /\ (Holds(sh) => Holds(v)) /\ (Meant(t.key, sh) => Meant(t.key, v))
      BY <2>2, <3>3 DEF New, Holds, Meant
    <3>5. f \in Kept
      BY <1>1, <3>2, FinishedType DEF Calls
    <3>6. f.pending = NoKey /\ (Holds(v) /\ Meant(t.key, v) => Holds(f))
      BY <2>3, <2>6, <3>2, <3>4, FinishedFits
    <3> HIDE DEF f
    <3>7. DOMAIN f = {"server", "key", "pending", "pairing", "waiting"}
      BY <3>5, KeptIs
    <3>8. r.server = f.server /\ r.key = f.key /\ r.pending = f.pending
      BY <3>1, <3>7, Zenon
    <3> QED
      BY <2>2, <3>4, <3>6, <3>8 DEF New, Good, Meant, Holds
  <2>7. ASSUME t.ans = "rejected" PROVE G
    <3>1. r = [sh EXCEPT !.pairing = NoKey, !.waiting = @ /\ ~t.shown]
      BY <2>7, Zenon DEF Received
    <3> HIDE DEF r, sh
    <3>2. r.server = sh.server /\ r.key = sh.key /\ r.pending = sh.pending /\ r.pairing = NoKey
      BY <2>1, <3>1, Zenon
    <3> QED
      BY <2>2, <3>2 DEF New, Good, Holds
  <2>8. ASSUME t.ans = "refused", t.op = "status" PROVE G
    <3>1. r = [sh EXCEPT !.waiting = @ /\ ~t.shown]
      BY <2>8, Zenon DEF Received
    <3> HIDE DEF r, sh
    <3>2. r.server = sh.server /\ r.key = sh.key /\ r.pending = sh.pending /\ r.pairing = sh.pairing
      BY <2>1, <3>1, Zenon
    <3>3. r.waiting => sh.waiting
      BY <2>1, <3>1, Zenon
    <3> QED
      BY <2>2, <3>2, <3>3 DEF New, Good, Holds, Meant
  <2>9. ASSUME t.ans \notin {"paired", "joined", "approved", "rejected"},
               ~(t.ans = "refused" /\ t.op = "status")
        PROVE  G
    <3>1. r = sh
      BY <2>9 DEF Received
    <3> QED
      BY <2>2, <3>1
  <2>10. G
    BY <2>4, <2>5, <2>6, <2>7, <2>8, <2>9
  <2> HIDE DEF r
  <2> QED
    BY <1>1, <1>2, <1>4, <2>10, LikeSame, KeyAlone DEF Ends
<1> QED
  BY <1>3, <1>4

LEMMA KeyLose ==
  ASSUME Typed, KeyInv, NEW t \in task, Lose(t)
  PROVE  KeyInv'
<1> DEFINE sh == shell[t.to]
           w == sh.waiting /\ ~(t.shown /\ t.op = "status")
           r == [sh EXCEPT !.waiting = w]
           u == [t EXCEPT !.to = Nobody, !.shown = FALSE]
<1>1. OthersTyped /\ t \in Calls /\ t.to \in Shells
  BY TypedParts DEF Lose, Calls
<1>2. sh \in Kept /\ DOMAIN sh = {"server", "key", "pending", "pairing", "waiting"}
  BY <1>1, ShellTyped, KeptIs
<1>3. shell' = [shell EXCEPT ![t.to] = r] /\ UNCHANGED <<device, request, alone>>
      /\ (Ends(t) \/ Goes(t, u))
  BY Zenon DEF Lose, store, ghosts
<1>4. New(sh) /\ (alone[t.to] => Good(sh))
  BY <1>1 DEF KeyInv, ShellsGood
<1>5. Like(u, t)
  BY <1>1, GoneType DEF Like
<1>6. w => sh.waiting
  OBVIOUS
<1> HIDE DEF u, w
<1>7. \A v \in task' : \E q \in task : Like(v, q)
  BY <1>3, <1>5, LikeSame DEF Ends, Goes, Like
<1>8. r.server = sh.server /\ r.key = sh.key /\ r.pending = sh.pending /\ r.pairing = sh.pairing
      /\ r.waiting = w
  BY <1>2, Zenon
<1> HIDE DEF r
<1>9. New(r) /\ (alone[t.to] => Good(r))
  BY <1>4, <1>6, <1>8 DEF New, Good, Holds, Meant
<1> QED
  BY <1>1, <1>3, <1>7, <1>8, <1>9, KeyAlone

LEMMA KeyServerRestart ==
  ASSUME Typed, KeyInv, ServerRestart
  PROVE  KeyInv'
<1>1. task' = {} /\ request' = <<>> /\ UNCHANGED <<device, alone>>
  BY Zenon DEF ServerRestart, ghosts
<1>2. ASSUME NEW s \in Shells
      PROVE  /\ shell'[s].server = shell[s].server /\ shell'[s].key = shell[s].key
             /\ shell'[s].pending = shell[s].pending /\ shell'[s].pairing = shell[s].pairing
             /\ shell'[s].waiting => shell[s].waiting
  <2> DEFINE w == shell[s].waiting /\ ~\E t \in Out(s) : t.shown /\ t.op = "status"
  <2>1. DOMAIN shell[s] = {"server", "key", "pending", "pairing", "waiting"}
    BY TypedParts, ShellTyped, KeptIs
  <2>2. shell'[s] = [shell[s] EXCEPT !.waiting = w]
    BY Zenon DEF ServerRestart
  <2>3. w => shell[s].waiting
    OBVIOUS
  <2> HIDE DEF w
  <2> QED
    BY <2>1, <2>2, <2>3, Zenon
<1>3. ShellsGood'
  BY <1>1, <1>2 DEF KeyInv, ShellsGood, Good, New, Holds, Meant, Fits, Ids
<1>4. RequestsFit' /\ TasksTold' /\ CallsMeant'
  BY <1>1 DEF RequestsFit, TasksTold, CallsMeant
<1> QED
  BY <1>3, <1>4 DEF KeyInv

LEMMA KeyAdmin ==
  ASSUME Typed, KeyInv, NEW s \in Shells, AdminCalls(s)
  PROVE  KeyInv'
<1>0. RequestsFit
  BY DEF KeyInv
<1>1. ASSUME NewPairingCode(s) PROVE KeyInv'
  <2>1. UNCHANGED <<device, request, task, shell, alone>>
    BY <1>1 DEF NewPairingCode, ghosts
  <2> QED
    BY <1>0, <2>1, FitsSame, RequestsSame, LikeSame, KeyEnds
<1>2. ASSUME NEW k \in DOMAIN request, Reject(s, k) PROVE KeyInv'
  <2>1. UNCHANGED <<device, task, shell, alone>> /\ request' = [request EXCEPT ![k].status = "rejected"]
    BY <1>2 DEF Reject, ghosts
  <2>2. \A q \in DOMAIN request : request[q] \in [status : {"pending", "approved", "rejected"}, dev : Nat]
    BY TypedParts DEF OthersTyped
  <2>3. RequestsFit'
    BY <1>0, <2>1, <2>2 DEF RequestsFit, Fits, Ids
  <2> QED
    BY <2>1, <2>3, FitsSame, LikeSame, KeyEnds
<1>3. ASSUME NEW k \in DOMAIN request, NEW admin \in BOOLEAN, Approve(s, k, admin) PROVE KeyInv'
  <2> DEFINE a == IF admin THEN "admin" ELSE "none"
             c == Call(Nobody, "approve", k, Wrong)
             u == [c EXCEPT !.at = "create", !.ans = a]
  <2>1. task' = task \union {u} /\ UNCHANGED <<device, request, shell, alone>>
    BY <1>3, Zenon DEF Approve, store, ghosts
  <2>2. c.to = Nobody /\ DOMAIN c = {"to", "op", "at", "key", "code", "dev", "ans", "shown"}
    BY DEF Call
  <2> HIDE DEF a, c
  <2>3. u.to = Nobody /\ u.at = "create"
    BY <2>2
  <2> HIDE DEF u
  <2> QED
    BY <2>1, <2>3, KeyInternal
<1>4. ASSUME NEW d \in Ids, Revoke(s, d) PROVE KeyInv'
  <2> DEFINE u == [Call(Nobody, "revoke", NoKey, Wrong) EXCEPT !.at = "commit", !.dev = d]
  <2>1. task' = task \union {u} /\ UNCHANGED <<device, request, shell, alone>>
    BY <1>4 DEF Revoke, store, ghosts
  <2>2. u.to = Nobody /\ u.at = "commit"
    BY DEF Call
  <2> HIDE DEF u
  <2> QED
    BY <2>1, <2>2, KeyInternal
<1> QED
  BY <1>1, <1>2, <1>3, <1>4 DEF AdminCalls

LEMMA KeyStep ==
  ASSUME Typed, KeyInv, [Next]_vars
  PROVE  KeyInv'
<1>0. RequestsFit
  BY DEF KeyInv
<1>1. ASSUME NEW o \in codes, ExpireCode(o) PROVE KeyInv'
  <2>1. UNCHANGED <<device, request, task, shell, alone>>
    BY <1>1 DEF ExpireCode, ghosts
  <2> QED
    BY <1>0, <2>1, FitsSame, RequestsSame, LikeSame, KeyEnds
<1>2. ASSUME NEW k \in DOMAIN request, ExpireRequest(k) PROVE KeyInv'
  <2>1. UNCHANGED <<device, task, shell, alone>> /\ request' = [q \in DOMAIN request \ {k} |-> request[q]]
    BY <1>2 DEF ExpireRequest, ghosts
  <2>2. RequestsFit'
    BY <1>0, <2>1 DEF RequestsFit, Fits, Ids
  <2> QED
    BY <2>1, <2>2, FitsSame, LikeSame, KeyEnds
<1>3. CASE UNCHANGED vars
  <2>1. UNCHANGED <<device, request, task, shell, alone>>
    BY <1>3 DEF vars, store, ghosts
  <2> QED
    BY <1>0, <2>1, FitsSame, RequestsSame, LikeSame, KeyEnds
<1>4. CASE Next
  <2>1. ASSUME NEW t \in task, Handler(t) \/ Lose(t) \/ \E how \in Savings : Receive(t, how)
        PROVE  KeyInv'
    BY <2>1, KeyHandler, KeyLose, KeyReceive
  <2>2. ASSUME NEW s \in Shells,
               \/ \E setup \in BOOLEAN, c \in 0 .. lastCode : Pair(s, setup, c)
               \/ Poll(s) \/ Reopen(s) \/ Forget(s) \/ ShellRestart(s) \/ AdminCalls(s)
        PROVE  KeyInv'
    BY <2>2, KeyPair, KeyPoll, KeyReopenForget, KeyAdmin
  <2>3. ASSUME Expiry PROVE KeyInv'
    BY <1>1, <1>2, <2>3 DEF Expiry
  <2> QED
    BY <1>4, <2>1, <2>2, <2>3, KeyServerRestart, Zenon DEF Next
<1> QED
  BY <1>3, <1>4

(* A shell that began its pairing with no call of an earlier one out holds,    *)
(* once it has a server, the key the server has for it, however its calls are  *)
(* lost, refused, repeated or answered late: every answer that can finish the  *)
(* pending pairing is about the pending key.                                   *)
THEOREM ShellHoldsItsKey == Spec => []KeyFits
<1>1. Init => Typed /\ KeyInv
  BY InitType, KeyInit
<1>2. Typed /\ KeyInv /\ [Next]_vars => Typed' /\ KeyInv'
  BY TypeStep, KeyStep
<1> QED
  BY <1>1, <1>2, KeyGives, PTL DEF Spec
=============================================================================
