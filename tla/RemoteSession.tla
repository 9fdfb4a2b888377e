----------------------------- MODULE RemoteSession -----------------------------
(***************************************************************************)
(* The session of a paired shell with its server: remote.rs and proxy.rs of *)
(* the shell, api/auth_api.py, auth.py, security/store.py and the start of  *)
(* api/ws.py of the server, for one shell and its device.                   *)
(*                                                                         *)
(* Requests of the user interface share one address and one token.  A       *)
(* request takes both under a mutex, logging in if need be, and is then on  *)
(* its own: the token may be dropped, here or on the server, the device     *)
(* revoked, the server restarted or left behind while it is on its way.     *)
(* A forwarded request is tried twice at most.                              *)
(***************************************************************************)
EXTENDS Naturals

CONSTANTS
  Requests,    \* requests of the user interface that run at once
  Kinds,       \* the kinds each may be of: "forward", "websocket", "lan"
  HasInternet, \* the shell knows an internet address
  MaxTokens,   \* bound on the tokens anybody still knows
  MaxEvents    \* bound on restarts and changes of network

ASSUME SessionAssumption ==
  /\ Kinds \in [Requests -> SUBSET {"forward", "websocket", "lan"}]
  /\ HasInternet \in BOOLEAN
  /\ MaxTokens \in Nat \ {0} /\ MaxEvents \in Nat

VARIABLES
  revoked,   \* the device: "no", "committed" and "yes", its sessions ended
  sessions,  \* the tokens the server knows
  nonce,     \* the server knows the challenge of the login that is under way
  reach,     \* the addresses of the server that can be reached from here
  base,      \* the address in use
  token,     \* the token in use, 0 if there is none that lasts another minute
  lost,      \* ghost: the server has been restarted since it made that token
  lock,      \* who holds the mutex of both
  req,       \* the requests
  events     \* restarts and changes of network so far

server == <<revoked, sessions, nonce>>
state  == <<base, token, lost, lock>>
world  == <<reach, events>>
vars   == <<server, state, world, req>>

Bases == {"lan"} \union IF HasInternet THEN {"internet"} ELSE {}
NoBase == "none"
NoToken == 0
Nobody == "nobody"
NoAnswer == "none"

ASSUME NobodyAssumption == Nobody \notin Requests

\* "at" is where a request is: it waits for the mutex, picks an address, logs
\* in (two calls), sends, is with the server, is answered, or is done, or
\* refused for want of a valid login.  Ghosts
\* are "ran", how often the server has carried it out; "stale": the server had
\* been restarted when it took the token; and "disturbed": the server has lost
\* something while it was under way.
Free == [kind |-> "forward", at |-> "done", base |-> NoBase, token |-> 0,
         retried |-> FALSE, ans |-> NoAnswer, ran |-> 0,
         stale |-> FALSE, disturbed |-> FALSE]

Init ==
  /\ revoked = "no" /\ sessions = {} /\ nonce = FALSE
  /\ reach = Bases /\ events = 0
  /\ base = NoBase /\ token = NoToken /\ lost = FALSE /\ lock = Nobody
  /\ req = [r \in Requests |-> Free]

At(r, a) == req[r].at = a
Becomes(r, q) == req' = [req EXCEPT ![r] = q]
Goes(r, a) == Becomes(r, [req[r] EXCEPT !.at = a])
Ended(ans) == IF ans = "refused" THEN [Free EXCEPT !.at = "refused"] ELSE Free
Done(r, ans) == Becomes(r, Ended(ans))
Underway(r) == req[r].at \notin {"done", "refused"}
Disturb(R) == [r \in Requests |-> [req[r] EXCEPT !.disturbed = @ \/ r \in R]]

Known == sessions \union {token} \union {req[r].token : r \in Requests}
Unknown == (1 .. MaxTokens) \ Known
Fresh == CHOOSE t \in Unknown : TRUE

-----------------------------------------------------------------------------
(* The session of the shell.                                                *)

\* The user interface asks; the answer of the last request is gone.
Begin(r, kind) ==
  /\ ~Underway(r)
  /\ Becomes(r, [Free EXCEPT !.kind = kind, !.at = "session"])
  /\ UNCHANGED <<server, state, world>>

\* session(): with the mutex; a token that lasts is used as it is.
HasToken == token # NoToken
Sending(q, b, t, old) == [q EXCEPT !.at = "send", !.base = b, !.token = t, !.stale = old]

Session(r) ==
  /\ At(r, "session") /\ lock = Nobody
  /\ IF base # NoBase /\ HasToken
     THEN Becomes(r, Sending(req[r], base, token, lost)) /\ UNCHANGED lock
     ELSE Goes(r, IF base = NoBase THEN "pick" ELSE "challenge") /\ lock' = r
  /\ UNCHANGED <<server, base, token, lost, world>>

\* pick_base(): the first address that answers, the LAN's before the other.
\* Either may fail to answer in time.
Pick(r) ==
  /\ At(r, "pick")
  /\ \/ \E b \in reach :
          /\ base' = b
          /\ IF HasToken
             THEN Becomes(r, Sending(req[r], b, token, lost)) /\ lock' = Nobody
             ELSE Goes(r, "challenge") /\ UNCHANGED lock
     \/ Done(r, "network") /\ lock' = Nobody /\ UNCHANGED base
  /\ UNCHANGED <<server, token, lost, world>>

\* login() fails: without an answer the address is picked again next time.
BaseAfter(ans) == IF ans = "network" THEN NoBase ELSE base
LoginFailsLocked(r, ans) ==
  Done(r, ans) /\ base' = BaseAfter(ans) /\ UNCHANGED <<token, lost, lock>>
LoginFails(r, ans) ==
  /\ Done(r, ans) /\ base' = BaseAfter(ans)
  /\ lock' = Nobody
  /\ UNCHANGED <<token, lost>>

LoginLost(r) ==
  /\ req[r].at \in {"challenge", "token", "touch"}
  /\ LoginFails(r, "network")
  /\ UNCHANGED <<server, world>>

\* invalidate(): the request tries once more, with a new token or address.
Kept == token
Dropped == NoToken
Uncounted == FALSE
Retried == TRUE
Invalidated(r, network) ==
  /\ token' = Dropped /\ lost' = FALSE
  /\ base' = IF network THEN NoBase ELSE base
  /\ Becomes(r, [req[r] EXCEPT !.at = "session", !.retried = Retried,
                                !.base = NoBase, !.token = 0, !.ans = NoAnswer])

\* Which answers forward() and connect_upstream() try again after, once: a
\* refused token, and a server that was never reached.  What is lost later may
\* have run; a websocket is only opened.
AlwaysAgain(kind, ans) == kind # "lan" /\ ans # "ok"
Again(kind, ans) ==
  \/ kind = "forward" /\ ans \in {"refused", "unreached"}
  \/ kind = "websocket" /\ ans # "ok"

\* A second try leaves address and token as they are, however it fails; so
\* does the only try of server_pairing_call() and its like.
Answered(r, ans) ==
  IF ~req[r].retried /\ Again(req[r].kind, ans)
  THEN /\ lock = Nobody
       /\ Invalidated(r, ans # "refused")
       /\ UNCHANGED lock
  ELSE /\ IF req[r].kind = "websocket" /\ ans = "ok" THEN Goes(r, "open")
          ELSE Done(r, IF ans = "unreached" THEN "network" ELSE ans)
       /\ UNCHANGED state

\* The calls of an admin and the transfer of libraries go to the pairing
\* port, which only the LAN has.
Address(r) == IF req[r].kind = "lan" THEN "lan" ELSE req[r].base

Send(r) ==
  /\ At(r, "send")
  /\ IF Address(r) \in reach
     THEN Becomes(r, [req[r] EXCEPT !.at = "sent", !.base = NoBase]) /\ UNCHANGED state
     ELSE Answered(r, "unreached")
  /\ UNCHANGED <<server, world>>

Receive(r) ==
  /\ At(r, "answered")
  /\ Answered(r, req[r].ans)
  /\ UNCHANGED <<server, world>>

\* The connection breaks before or after the server has done its part.
Lose(r) ==
  /\ req[r].at \in {"sent", "answered"}
  /\ Answered(r, "network")
  /\ UNCHANGED <<server, world>>

-----------------------------------------------------------------------------
(* The server.                                                              *)

\* active_device(): asked before the challenge, and again before the token.
AnyDevice == TRUE
ActiveDevice == revoked = "no"

Challenge(r) ==
  /\ At(r, "challenge")
  /\ IF ActiveDevice THEN Goes(r, "token") /\ nonce' = TRUE /\ UNCHANGED state
     ELSE LoginFails(r, "refused") /\ UNCHANGED nonce
  /\ UNCHANGED <<revoked, sessions, world>>

\* token(): the nonce is used up, then the device is read; the signature is
\* right, as the shell has its key.
Token(r) ==
  /\ At(r, "token")
  /\ nonce' = FALSE
  /\ IF nonce /\ ActiveDevice THEN Goes(r, "touch") /\ UNCHANGED state
     ELSE LoginFails(r, "refused")
  /\ UNCHANGED <<revoked, sessions, world>>

\* After touch() has committed: the session is made whatever has become of
\* the device since.  The shell renews it a minute before it runs out.
TokenMade(r) ==
  /\ At(r, "touch") /\ Unknown # {}
  /\ sessions' = sessions \union {Fresh}
  /\ \/ /\ token' = Fresh /\ lost' = FALSE /\ lock' = Nobody
        /\ Becomes(r, Sending(req[r], base, Fresh, FALSE))
        /\ UNCHANGED base
     \/ LoginFails(r, "network")
  /\ UNCHANGED <<revoked, nonce, world>>

\* require_auth() and the handler behind it, or the start of a websocket.
Handle(r) ==
  /\ At(r, "sent")
  /\ LET ok == req[r].token \in sessions IN
     Becomes(r, [req[r] EXCEPT !.at = "answered", !.ans = IF ok THEN "ok" ELSE "refused",
                               !.token = IF req[r].kind = "websocket" THEN @ ELSE NoToken,
                               !.ran = IF ok THEN @ + 1 ELSE @])
  /\ UNCHANGED <<server, state, world>>

\* The next live event finds the token of an open websocket gone.
Close(r) ==
  /\ At(r, "open") /\ req[r].token \notin sessions
  /\ Done(r, "closed")
  /\ UNCHANGED <<server, state, world>>

\* revoke_device(), by an admin: committed first, then the sessions end.
Revoke ==
  /\ revoked = "no" /\ revoked' = "committed"
  /\ UNCHANGED <<sessions, nonce, state, world, req>>

EndSessions ==
  /\ revoked = "committed" /\ revoked' = "yes"
  /\ sessions' = {}
  /\ UNCHANGED <<nonce, state, world, req>>

Restart ==
  /\ events < MaxEvents /\ events' = events + 1
  /\ revoked' = IF revoked = "no" THEN "no" ELSE "yes"
  /\ sessions' = {} /\ nonce' = FALSE
  /\ req' = Disturb({r \in Requests : Underway(r)})
  /\ lost' = (token # NoToken)
  /\ UNCHANGED <<base, token, lock, reach>>

-----------------------------------------------------------------------------
(* Time and the network.                                                    *)

\* A minute before the end the shell counts a token as run out.
Ages ==
  /\ token # NoToken /\ token' = NoToken /\ lost' = FALSE
  /\ UNCHANGED <<server, base, lock, world, req>>

\* A request that still carries it has been on its way for that minute.
Expire(t) ==
  /\ token # t
  /\ sessions' = sessions \ {t}
  /\ req' = Disturb({r \in Requests : req[r].token = t})
  /\ UNCHANGED <<revoked, nonce, state, world>>

NonceExpires ==
  /\ nonce /\ nonce' = FALSE
  /\ req' = Disturb({lock} \ {Nobody})
  /\ UNCHANGED <<revoked, sessions, state, world>>

NetworkChanges ==
  /\ events < MaxEvents /\ events' = events + 1
  /\ \E to \in SUBSET Bases : to # reach /\ reach' = to
  /\ UNCHANGED <<server, state, req>>

-----------------------------------------------------------------------------
Shell(r) == Session(r) \/ Pick(r) \/ Send(r) \/ Receive(r)
Server(r) == Challenge(r) \/ Token(r) \/ TokenMade(r) \/ Handle(r) \/ Close(r)

Next ==
  \/ \E r \in Requests :
       \/ \E kind \in Kinds[r] : Begin(r, kind)
       \/ Shell(r) \/ Server(r) \/ LoginLost(r) \/ Lose(r)
  \/ Revoke \/ EndSessions \/ Restart
  \/ Ages \/ NonceExpires \/ NetworkChanges
  \/ \E t \in sessions : Expire(t)

\* The mutex serves its waiters in turn, hence strong fairness; sessions run
\* out, and a revocation that has begun goes on.
Spec ==
  /\ Init /\ [][Next]_vars
  /\ \A r \in Requests : SF_vars(Shell(r)) /\ WF_vars(Server(r))
  /\ WF_vars(EndSessions) /\ WF_vars(Ages)
  /\ \A t \in 1 .. MaxTokens : WF_vars(t \in sessions /\ Expire(t))

-----------------------------------------------------------------------------
(* Properties.                                                              *)

Entries ==
  [kind : {"forward", "websocket", "lan"},
   at : {"session", "pick", "challenge", "token", "touch", "send", "sent",
         "answered", "open", "done", "refused"},
   base : Bases \union {NoBase}, token : 0 .. MaxTokens, retried : BOOLEAN,
   ans : {NoAnswer, "ok", "refused"},
   ran : Nat, stale : BOOLEAN, disturbed : BOOLEAN]

TypeOK ==
  /\ revoked \in {"no", "committed", "yes"}
  /\ sessions \subseteq 1 .. MaxTokens /\ nonce \in BOOLEAN
  /\ reach \subseteq Bases /\ base \in Bases \union {NoBase}
  /\ token \in 0 .. MaxTokens /\ lost \in BOOLEAN
  /\ lock \in Requests \union {Nobody}
  /\ \A r \in Requests : lock = r <=> req[r].at \in {"pick", "challenge", "token", "touch"}
  /\ req \in [Requests -> Entries]
  /\ events \in 0 .. MaxEvents

(* A forwarded request is carried out at most once although it may be sent  *)
(* twice, to two addresses and with two tokens: "only on connect errors --  *)
(* anything later might have run" (proxy.rs).                               *)
AtMostOnce == \A r \in Requests : req[r].kind # "websocket" => req[r].ran <= 1

(* The user interface hears that it is not logged in only if the device is  *)
(* revoked, or the server lost the token or the challenge of this very      *)
(* request on its way: not because of a token that has run out, nor of      *)
(* another request that drops the token they share, nor of a restart before *)
(* it -- except that a call to the pairing port, which is tried once and     *)
(* never drops the token, is refused after a restart since its token was     *)
(* made, against "A restart drops them all: devices simply log in again"    *)
(* (store.py:10-11).                                                        *)
Refused(r) == Underway(r) /\ At(r, "refused")'
ForCause(r) ==
  revoked # "no" \/ req[r].disturbed \/ (req[r].kind = "lan" /\ req[r].stale)

RefusedForCause == [][\A r \in Requests : Refused(r) => ForCause(r)]_vars

(* A revoked device is logged out in the end and stays so: a login that was *)
(* under way when it was revoked may still make a session, which runs out.  *)
RevokedStaysOut == <>[](revoked # "no" => sessions = {})

(* Every request ends, though they share a mutex that is held over calls to *)
(* the server.  An open websocket is one that has been answered.            *)
RequestsEnd == \A r \in Requests : At(r, "session") ~> ~Underway(r) \/ At(r, "open")
=============================================================================
