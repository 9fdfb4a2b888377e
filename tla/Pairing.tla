-------------------------------- MODULE Pairing --------------------------------
(***************************************************************************)
(* Pairing a device with a server: core/app/api/pairing.py, auth_api.py     *)
(* (the list of devices), security/store.py and devices.py on one side; the *)
(* shell's device.rs, server.rs and the wizard of its user interface on the *)
(* other.                                                                   *)
(*                                                                         *)
(* A shell makes a key, proves that it knows a code and sends the key; the  *)
(* setup code of a new server lets the first device in at once, as admin,   *)
(* and a pairing code leaves a request an admin decides.  Handlers run      *)
(* interleaved at their awaits, calls and answers get lost, codes and       *)
(* requests expire, and both ends may stop at any time: the server keeps    *)
(* only its table of devices, a shell its key and its server.               *)
(*                                                                         *)
(* Logging in, and what a session is good for, is in RemoteSession.         *)
(***************************************************************************)
EXTENDS Naturals, Sequences, FiniteSets

CONSTANTS
  Shells,            \* apps to be paired
  Nobody,            \* the caller has gone
  MaxCodeAttempts,   \* MAX_CODE_ATTEMPTS
  MaxPairingCodes,   \* MAX_PAIRING_CODES
  MaxJoinRequests,   \* MAX_JOIN_REQUESTS
  MaxKeys,           \* bound on the pairings begun
  MaxCodes,          \* bound on the codes made
  MaxStops           \* bound on restarts of server and shells, and on forgetting

ASSUME PairingAssumption ==
  /\ Nobody \notin Shells
  /\ {MaxCodeAttempts, MaxPairingCodes, MaxJoinRequests, MaxCodes} \subseteq Nat \ {0}
  /\ {MaxKeys, MaxStops} \subseteq Nat

VARIABLES
  device,     \* the table of devices, by id
  setupCode,  \* the code of the server's log
  codes,      \* the open pairing codes; a lower number is an older one
  request,    \* the join requests, by the key they ask for
  task,       \* calls on their way, handlers at work, answers on their way back
  shell,      \* what a shell keeps
  lastKey, lastCode, stops,   \* how many there have been
  letIn,      \* ghost: which keys each code has let in
  alone       \* ghost: no call of the shell was out when it began its pairing

store == <<setupCode, codes, request>>
bounds == <<lastKey, lastCode, stops>>
ghosts == <<letIn, alone>>
vars == <<device, store, task, shell, bounds, ghosts>>

\* Keys, codes and devices are numbered from 1; 0 stands for none of them,
\* and as a code for one that was mistyped.
NoKey == 0
Wrong == 0
NoDevice == 0

Ids == 1 .. Len(device)
Active(d) == d \in Ids /\ ~device[d].revoked
ActiveAdmins == {d \in Ids : Active(d) /\ device[d].admin}
HasActiveAdmin == ActiveAdmins # {}
KeyInUse(k) == \E d \in Ids : device[d].key = k

\* The shell of an active admin device gets a session whenever it needs one
\* (RemoteSession), if its key is the one the server knows.
AdminSession(s) == LET d == shell[s].server IN
                   Active(d) /\ device[d].admin /\ shell[s].key = device[d].key

NoCode == [code |-> Wrong, left |-> 0]
OneTimeCode(c) == [code |-> c, left |-> MaxCodeAttempts]

\* A shell without a server.  "waiting" is the wizard showing the fingerprint
\* until an admin has decided.
NewShell == [server |-> NoDevice, key |-> NoKey, pending |-> NoKey,
             pairing |-> NoKey, waiting |-> FALSE]

Init ==
  /\ device = <<>>
  /\ setupCode = OneTimeCode(1) /\ codes = {}
  /\ request = <<>>
  /\ task = {}
  /\ shell = [s \in Shells |-> NewShell]
  /\ lastKey = 0 /\ lastCode = 1 /\ stops = 0
  /\ letIn = {} /\ alone = [s \in Shells |-> TRUE]

-----------------------------------------------------------------------------
(* The one-time codes.                                                      *)

\* Every use, right or wrong, costs something: a match uses the code up, a
\* miss costs every open code an attempt, and a code without attempts is gone.
Missed(open) == {[o EXCEPT !.left = @ - 1] : o \in {q \in open : q.left > 1}}

Open(c) == \E o \in codes : o.code = c
UsePairingCode(c) ==
  codes' = IF Open(c) THEN {o \in codes : o.code # c} ELSE Missed(codes)

\* A wrong IsSetupCode: not whether the code is still open.
WasSetupCode(c) == c # Wrong

IsSetupCode(c) == setupCode # NoCode /\ setupCode.code = c

\* A wrong UseSetupCode: the last miss leaves the code open.
UseSetupCodeLate(c) ==
  setupCode' = IF setupCode = NoCode \/ IsSetupCode(c)
               THEN NoCode ELSE [setupCode EXCEPT !.left = @ - 1]

UseSetupCode(c) ==
  setupCode' = IF \/ setupCode = NoCode \/ IsSetupCode(c) \/ setupCode.left = 1
               THEN NoCode ELSE [setupCode EXCEPT !.left = @ - 1]

\* The code a proof was made with, if it was open when the proof came in; the
\* proof is checked on another thread meanwhile.
Proved(c, candidates) == IF c \in candidates THEN c ELSE Wrong

-----------------------------------------------------------------------------
(* The wire.                                                                *)

\* "shown" is whether the wizard that made the call is still on the screen.
Call(s, op, k, c) == [to |-> s, op |-> op, at |-> "sent", key |-> k, code |-> c,
                      dev |-> NoDevice, ans |-> "none", shown |-> s # Nobody]
At(t, op, at) == t \in task /\ t.op = op /\ t.at = at
Out(s) == {t \in task : t.to = s}
PollOut(s) == \E t \in Out(s) : t.op = "status"

Goes(t, u) == task' = (task \ {t}) \union {u}
Ends(t) == task' = task \ {t}
Answer(t, a, d) ==
  IF t.to = Nobody THEN Ends(t)
  ELSE Goes(t, [t EXCEPT !.at = "answered", !.ans = a, !.dev = d])

\* A caller that has gone cannot be answered; the handler does not notice.
Detached(ts, s) == {IF t.to = s THEN [t EXCEPT !.to = Nobody, !.shown = FALSE] ELSE t :
                      t \in {u \in ts : u.to # s \/ u.at \notin {"sent", "answered"}}}

-----------------------------------------------------------------------------
(* The server's handlers.                                                   *)

\* setup(): only without an active admin, and only for a new key.
SetupAsked(t) ==
  /\ At(t, "setup", "sent")
  /\ IF HasActiveAdmin \/ KeyInUse(t.key) THEN Answer(t, "refused", NoDevice)
     ELSE Goes(t, [t EXCEPT !.at = "proof", !.code = Proved(@, {setupCode.code})])
  /\ UNCHANGED <<device, store, shell, bounds, ghosts>>

SetupProved(t) ==
  /\ At(t, "setup", "proof")
  /\ UseSetupCode(t.code)
  /\ IF IsSetupCode(t.code)
     THEN /\ Goes(t, [t EXCEPT !.at = "create"])
          /\ letIn' = letIn \union {<<t.code, t.key>>}
     ELSE Answer(t, "refused", NoDevice) /\ UNCHANGED letIn
  /\ UNCHANGED <<device, codes, request, shell, bounds, alone>>

CreateDevice(k, admin) ==
  device' = Append(device, [key |-> k, admin |-> admin, revoked |-> FALSE])

SetupCreates(t) ==
  /\ At(t, "setup", "create")
  /\ CreateDevice(t.key, TRUE)
  /\ Answer(t, "paired", Len(device'))
  /\ UNCHANGED <<store, shell, bounds, ghosts>>

\* join(): the answer is the id of the request, here the key it asks for.
JoinAsked(t) ==
  /\ At(t, "join", "sent")
  /\ IF KeyInUse(t.key) \/ Cardinality(DOMAIN request) >= MaxJoinRequests
     THEN Answer(t, "refused", NoDevice)
     ELSE Goes(t, [t EXCEPT !.at = "proof",
                            !.code = Proved(@, {o.code : o \in codes})])
  /\ UNCHANGED <<device, store, shell, bounds, ghosts>>

JoinProved(t) ==
  /\ At(t, "join", "proof")
  /\ UsePairingCode(t.code)
  /\ IF Open(t.code)
     THEN /\ request' = [k \in {t.key} \union DOMAIN request |->
               IF k = t.key THEN [status |-> "pending", dev |-> NoDevice] ELSE request[k]]
          /\ letIn' = letIn \union {<<t.code, t.key>>}
          /\ Answer(t, "joined", NoDevice)
     ELSE Answer(t, "refused", NoDevice) /\ UNCHANGED <<request, letIn>>
  /\ UNCHANGED <<device, setupCode, shell, bounds, alone>>

\* join_status(): a request that has expired, or that an earlier process of
\* the server took, is not found.
FoundOrPending(k) == IF k \in DOMAIN request THEN request[k]
                     ELSE [status |-> "pending", dev |-> NoDevice]
Found(k) == IF k \in DOMAIN request THEN request[k]
            ELSE [status |-> "refused", dev |-> NoDevice]

JoinStatus(t) ==
  /\ At(t, "status", "sent")
  /\ Answer(t, Found(t.key).status, Found(t.key).dev)
  /\ UNCHANGED <<device, store, shell, bounds, ghosts>>

\* new_pairing_code(), for an admin; the oldest makes room.
NewPairingCode(s) ==
  /\ AdminSession(s) /\ lastCode < MaxCodes
  /\ lastCode' = lastCode + 1
  /\ codes' = {OneTimeCode(lastCode')} \union
                IF Cardinality(codes) < MaxPairingCodes THEN codes
                ELSE codes \ {o \in codes : \A q \in codes : o.code <= q.code}
  /\ UNCHANGED <<device, setupCode, request, task, shell, lastKey, stops, ghosts>>

\* decide(), for an admin.  A rejection is one step; an approval checks the
\* key, creates the device and then marks the request.
Pending(k) == k \in DOMAIN request /\ request[k].status = "pending"

Reject(s, k) ==
  /\ AdminSession(s) /\ Pending(k)
  /\ request' = [request EXCEPT ![k].status = "rejected"]
  /\ UNCHANGED <<device, setupCode, codes, task, shell, bounds, ghosts>>

Approve(s, k, admin) ==
  /\ AdminSession(s) /\ Pending(k)
  /\ ~KeyInUse(k)
  /\ task' = task \union {[Call(Nobody, "approve", k, Wrong) EXCEPT !.at = "create",
                             !.ans = IF admin THEN "admin" ELSE "none"]}
  /\ UNCHANGED <<device, store, shell, bounds, ghosts>>

\* The column of keys is unique: a second approval fails here.
ApproveCreates(t) ==
  /\ At(t, "approve", "create")
  /\ IF KeyInUse(t.key) THEN Ends(t) /\ UNCHANGED device
     ELSE /\ CreateDevice(t.key, t.ans = "admin")
          /\ Goes(t, [t EXCEPT !.at = "mark", !.dev = Len(device')])
  /\ UNCHANGED <<store, shell, bounds, ghosts>>

\* The request may have expired by now; then nobody sees the mark.
ApproveMarks(t) ==
  /\ At(t, "approve", "mark")
  /\ request' = [k \in DOMAIN request |->
                   IF k = t.key THEN [status |-> "approved", dev |-> t.dev] ELSE request[k]]
  /\ Ends(t)
  /\ UNCHANGED <<device, setupCode, codes, shell, bounds, ghosts>>

\* revoke_device(): reads the device and the admins, then commits; its sessions
\* end with it (RemoteSession).  Others that have read an admin that is revoked
\* now are marked, as a ghost.
RevocableAlways(d) == Active(d)
Revocable(d) == Active(d) /\ (device[d].admin => Cardinality(ActiveAdmins) > 1)

Revoke(s, d) ==
  /\ AdminSession(s) /\ Revocable(d)
  /\ task' = task \union {[Call(Nobody, "revoke", NoKey, Wrong) EXCEPT !.at = "commit", !.dev = d]}
  /\ UNCHANGED <<device, store, shell, bounds, ghosts>>

Overtaken(ts, d) ==
  {IF t.op = "revoke" /\ t.dev # d /\ d \in ActiveAdmins THEN [t EXCEPT !.ans = "overtaken"] ELSE t :
     t \in ts}

RevokeCommits(t) ==
  /\ At(t, "revoke", "commit")
  /\ device' = [device EXCEPT ![t.dev].revoked = TRUE]
  /\ task' = Overtaken(task \ {t}, t.dev)
  /\ UNCHANGED <<store, shell, bounds, ghosts>>

\* purge(): what is too old is gone.
ExpireCode(o) ==
  /\ codes' = codes \ {o}
  /\ UNCHANGED <<device, setupCode, request, task, shell, bounds, ghosts>>

ExpireRequest(k) ==
  /\ request' = [q \in DOMAIN request \ {k} |-> request[q]]
  /\ UNCHANGED <<device, setupCode, codes, task, shell, bounds, ghosts>>

-----------------------------------------------------------------------------
(* The shell.                                                               *)

\* begin_pairing(): the key of an earlier attempt is replaced.
BegunOnce(sh, k) == IF sh.pending # NoKey THEN sh ELSE [sh EXCEPT !.pending = k]
Begun(sh, k) == [sh EXCEPT !.pending = k]

\* server_pair(), from the wizard's form, which waits for the answer; calls of
\* a wizard that has been closed may still be out.
Busy(s) == shell[s].waiting \/ \E t \in Out(s) : t.shown

Pair(s, setup, c) ==
  /\ shell[s].server = NoDevice /\ ~Busy(s)
  /\ lastKey < MaxKeys
  /\ lastKey' = lastKey + 1
  /\ shell' = [shell EXCEPT ![s] = Begun(shell[s], lastKey')]
  /\ task' = task \union {Call(s, IF setup THEN "setup" ELSE "join", lastKey', c)}
  /\ alone' = [alone EXCEPT ![s] = Out(s) = {}]
  /\ UNCHANGED <<device, store, lastCode, stops, letIn>>

\* server_pair_status(), while the wizard waits.  One at a time: it holds the
\* mutex of the pairing.
Poll(s) ==
  /\ shell[s].waiting /\ ~PollOut(s)
  /\ IF shell[s].pairing = NoKey
     THEN shell' = [shell EXCEPT ![s].waiting = FALSE] /\ UNCHANGED task
     ELSE /\ task' = task \union {Call(s, "status", shell[s].pairing, Wrong)}
          /\ UNCHANGED shell
  /\ UNCHANGED <<device, store, bounds, ghosts>>

\* The wizard is closed while calls of it are out; opened again it shows its
\* form and knows nothing of them.
Hidden(ts, s) == {IF t.to = s THEN [t EXCEPT !.shown = FALSE] ELSE t : t \in ts}

Reopen(s) ==
  /\ Busy(s)
  /\ shell' = [shell EXCEPT ![s].waiting = FALSE]
  /\ task' = Hidden(task, s)
  /\ UNCHANGED <<device, store, bounds, ghosts>>

\* finish_pairing(): the pending key becomes the device's own, then the
\* server is saved, either of which may fail.
Finished(sh, d, how) ==
  IF sh.pending = NoKey \/ how = "no key" THEN [sh EXCEPT !.pending = NoKey]
  ELSE [sh EXCEPT !.key = sh.pending, !.pending = NoKey,
                  !.server = IF how = "saved" THEN d ELSE @]

\* What an answer does to the shell, and to the wizard that shows it.
Received(t, how) ==
  LET sh == shell[t.to] IN
  CASE t.ans = "paired"   -> Finished(sh, t.dev, how)
    [] t.ans = "joined"   -> [sh EXCEPT !.pairing = t.key, !.waiting = @ \/ t.shown]
    [] t.ans = "approved" -> [Finished([sh EXCEPT !.pairing = NoKey], t.dev, how)
                                EXCEPT !.waiting = @ /\ ~t.shown]
    [] t.ans = "rejected" -> [sh EXCEPT !.pairing = NoKey, !.waiting = @ /\ ~t.shown]
    [] t.ans = "refused" /\ t.op = "status" -> [sh EXCEPT !.waiting = @ /\ ~t.shown]
    [] OTHER              -> sh

\* The mutex of the pairing is waited for before a new one is stored.
Receive(t, how) ==
  /\ t \in task /\ t.at = "answered"
  /\ t.ans = "joined" => ~PollOut(t.to)
  /\ shell' = [shell EXCEPT ![t.to] = Received(t, how)]
  /\ Ends(t)
  /\ UNCHANGED <<device, store, bounds, ghosts>>

\* The connection breaks: the caller sees an error, and the call may or may
\* not have reached the server.
Lose(t) ==
  /\ t \in task /\ t.to # Nobody
  /\ shell' = [shell EXCEPT ![t.to].waiting = @ /\ ~(t.shown /\ t.op = "status")]
  /\ \/ Ends(t)
     \/ t.at # "answered" /\ t.op # "status" /\ Goes(t, [t EXCEPT !.to = Nobody, !.shown = FALSE])
  /\ UNCHANGED <<device, store, bounds, ghosts>>

\* server_forget(): the server and the keys go; the server is not told.
Forget(s) ==
  /\ shell[s].server # NoDevice /\ stops < MaxStops
  /\ stops' = stops + 1
  /\ shell' = [shell EXCEPT ![s] =
                 [shell[s] EXCEPT !.server = NoDevice, !.key = NoKey, !.pending = NoKey]]
  /\ UNCHANGED <<device, store, task, lastKey, lastCode, ghosts>>

\* The app is closed and started again: connection.json and the key remain.
ShellRestart(s) ==
  /\ stops < MaxStops /\ stops' = stops + 1
  /\ shell' = [shell EXCEPT ![s] = [NewShell EXCEPT !.server = shell[s].server,
                                                    !.key = shell[s].key]]
  /\ task' = Detached(task, s)
  /\ UNCHANGED <<device, store, lastKey, lastCode, ghosts>>

\* The server starts anew: whoever waits for an answer gets an error, and
\* without an active admin there is a new setup code.
ServerRestart ==
  /\ stops < MaxStops /\ stops' = stops + 1
  /\ task' = {}
  /\ shell' = [s \in Shells |-> [shell[s] EXCEPT
                 !.waiting = @ /\ ~\E t \in Out(s) : t.shown /\ t.op = "status"]]
  /\ codes' = {} /\ request' = <<>>
  /\ IF HasActiveAdmin THEN setupCode' = NoCode /\ UNCHANGED lastCode
     ELSE /\ lastCode < MaxCodes /\ lastCode' = lastCode + 1
          /\ setupCode' = OneTimeCode(lastCode')
  /\ UNCHANGED <<device, lastKey, ghosts>>

-----------------------------------------------------------------------------
Handler(t) ==
  \/ SetupAsked(t) \/ SetupProved(t) \/ SetupCreates(t)
  \/ JoinAsked(t) \/ JoinProved(t) \/ JoinStatus(t)
  \/ ApproveCreates(t) \/ ApproveMarks(t) \/ RevokeCommits(t)

AdminCalls(s) ==
  \/ NewPairingCode(s)
  \/ \E k \in DOMAIN request : Reject(s, k) \/ \E admin \in BOOLEAN : Approve(s, k, admin)
  \/ \E d \in Ids : Revoke(s, d)

Expiry ==
  \/ \E o \in codes : ExpireCode(o)
  \/ \E k \in DOMAIN request : ExpireRequest(k)

Savings == {"saved", "no server", "no key"}

Next ==
  \/ \E t \in task : Handler(t) \/ Lose(t) \/ \E how \in Savings : Receive(t, how)
  \/ \E s \in Shells :
       \/ \E setup \in BOOLEAN, c \in 0 .. lastCode : Pair(s, setup, c)
       \/ Poll(s) \/ Reopen(s) \/ Forget(s) \/ ShellRestart(s) \/ AdminCalls(s)
  \/ Expiry
  \/ ServerRestart

\* A shell's calls are handled and answered and its wizard polls; requests
\* expire.
Proceeds(s) == \/ Poll(s)
               \/ \E t \in task : t.to = s /\ (Handler(t) \/ Receive(t, "saved"))

Spec ==
  /\ Init /\ [][Next]_vars
  /\ WF_vars(\E k \in DOMAIN request : ExpireRequest(k))
  /\ \A s \in Shells : WF_vars(Proceeds(s))

-----------------------------------------------------------------------------
(* Properties.                                                              *)

Calls == [to : Shells \union {Nobody}, op : {"setup", "join", "status", "approve", "revoke"},
          at : {"sent", "proof", "create", "mark", "commit", "answered"},
          key : 0 .. MaxKeys, code : 0 .. MaxCodes, dev : Nat,
          ans : {"none", "admin", "overtaken", "refused", "paired", "joined", "pending",
                 "approved", "rejected"},
          shown : BOOLEAN]
Codes == [code : 1 .. MaxCodes, left : 1 .. MaxCodeAttempts]

TypeOK ==
  /\ device \in Seq([key : 1 .. MaxKeys, admin : BOOLEAN, revoked : BOOLEAN])
  /\ setupCode \in Codes \union {NoCode}
  /\ codes \subseteq Codes /\ Cardinality(codes) <= MaxPairingCodes
  /\ DOMAIN request \subseteq 1 .. MaxKeys
  /\ \A k \in DOMAIN request :
       request[k] \in [status : {"pending", "approved", "rejected"}, dev : Nat]
  /\ task \subseteq Calls
  /\ shell \in [Shells -> [server : Nat, key : 0 .. MaxKeys, pending : 0 .. MaxKeys,
                          pairing : 0 .. MaxKeys, waiting : BOOLEAN]]
  /\ lastKey \in 0 .. MaxKeys /\ lastCode \in 1 .. MaxCodes /\ stops \in 0 .. MaxStops
  /\ letIn \subseteq (1 .. MaxCodes) \X (1 .. MaxKeys)
  /\ alone \in [Shells -> BOOLEAN]

(* A shell that has a server holds the key the server has for it, however   *)
(* its pairings were repeated, refused, lost or approved late: only then    *)
(* can it log in.  A wizard that is closed and opened again may begin a     *)
(* pairing while a call of the one before is out: its answer then makes the *)
(* later key the device's own, against "The server accepted the pending key" *)
(* (device.rs:213), and that shell is left out here.                        *)
Fits(d, k) == d \in Ids /\ device[d].key = k
Holds(sh) == sh.server # NoDevice => Fits(sh.server, sh.key)

KeyFits == \A s \in Shells : alone[s] => Holds(shell[s])

(* A one-time code lets in one device, also when two calls prove that they  *)
(* know it at the same time and both proofs are being checked.              *)
CodesOnce == \A p, q \in letIn : p[1] = q[1] => p = q

(* Once the server has an active admin it keeps one -- who could let the    *)
(* next device in otherwise? -- unless a revocation commits that another    *)
(* one, of another admin, has overtaken since it counted the admins: the    *)
(* check of auth_api.py:153-158 does not see that one.                      *)
LastAdminRevoked ==
  \E t \in task : At(t, "revoke", "commit") /\ t.ans = "overtaken" /\ t \notin task'
AdminStays == [][HasActiveAdmin => HasActiveAdmin' \/ LastAdminRevoked]_vars

(* The wizard does not wait forever: the request is decided, or expires and *)
(* the next poll learns that it is gone, also after a restart.              *)
WaitEnds == \A s \in Shells : shell[s].waiting ~> ~shell[s].waiting
=============================================================================
