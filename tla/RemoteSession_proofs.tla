------------------------- MODULE RemoteSession_proofs -------------------------
(***************************************************************************)
(* Proofs about RemoteSession for any number of requests of any kinds, with  *)
(* or without an internet address, and for any number of tokens: the types,  *)
(* that a forwarded request runs once at most, and that one is refused only  *)
(* for a reason of its own.                                                 *)
(***************************************************************************)
EXTENDS RemoteSession, TLAPS

-----------------------------------------------------------------------------
(* One request changes. *)

LEMMA NumbersKnown == MaxTokens \in Nat /\ MaxTokens > 0 /\ MaxEvents \in Nat /\ HasInternet \in BOOLEAN
BY SessionAssumption

\* Where a request holds the mutex.
Holding == {"pick", "challenge", "token", "touch"}

LEMMA FreeType ==
  /\ Free \in Entries /\ Free.at = "done" /\ ~Free.retried /\ ~Free.disturbed
  /\ Free.ran = 0 /\ Free.token = 0
BY NumbersKnown DEF Free, Entries, NoBase, NoAnswer

LEMMA OneBecomes ==
  ASSUME req \in [Requests -> Entries], NEW r \in Requests, NEW q \in Entries, Becomes(r, q)
  PROVE  /\ req' \in [Requests -> Entries] /\ req'[r] = q
         /\ \A s \in Requests : s # r => req'[s] = req[s]
BY DEF Becomes

Places == {"session", "pick", "challenge", "token", "touch", "send", "sent",
           "answered", "open", "done", "refused"}

LEMMA BecomesAt ==
  ASSUME req \in [Requests -> Entries], NEW r \in Requests, NEW a \in Places, Goes(r, a)
  PROVE  \E q \in Entries :
           /\ Becomes(r, q) /\ q.at = a
           /\ q.kind = req[r].kind /\ q.token = req[r].token /\ q.retried = req[r].retried
           /\ q.ans = req[r].ans /\ q.ran = req[r].ran /\ q.disturbed = req[r].disturbed
           /\ q.stale = req[r].stale
<1>1. PICK q : q = [req[r] EXCEPT !.at = a]
  OBVIOUS
<1>2. req[r] \in Entries
  OBVIOUS
<1>3. q \in Entries /\ q.at = a /\ q.kind = req[r].kind /\ q.token = req[r].token
      /\ q.retried = req[r].retried /\ q.ans = req[r].ans /\ q.ran = req[r].ran
      /\ q.disturbed = req[r].disturbed /\ q.stale = req[r].stale
  BY <1>1, <1>2 DEF Entries, Places
<1>4. Becomes(r, q)
  BY <1>1, Zenon DEF Goes
<1> QED
  BY <1>3, <1>4

LEMMA BecomesDone ==
  ASSUME NEW r \in Requests, NEW ans, Done(r, ans)
  PROVE  \E q \in Entries :
           /\ Becomes(r, q) /\ q.at = (IF ans = "refused" THEN "refused" ELSE "done")
           /\ q.ran = 0 /\ ~q.retried /\ ~q.disturbed
<1>1. PICK q : q = [Free EXCEPT !.at = "refused"]
  OBVIOUS
<1>2. q \in Entries /\ q.at = "refused" /\ q.ran = 0 /\ ~q.retried /\ ~q.disturbed
  BY <1>1, FreeType DEF Entries
<1>3. CASE ans = "refused"
  <2>1. Becomes(r, q)
    BY <1>1, <1>3, Zenon DEF Done, Ended
  <2> QED
    BY <1>2, <1>3, <2>1
<1>4. CASE ans # "refused"
  <2>1. Becomes(r, Free)
    BY <1>4, Zenon DEF Done, Ended
  <2> QED
    BY <1>4, <2>1, FreeType
<1> QED
  BY <1>3, <1>4

LEMMA BecomesBegun ==
  ASSUME NEW r \in Requests, NEW kind \in {"forward", "websocket", "lan"},
         Becomes(r, [Free EXCEPT !.kind = kind, !.at = "session"])
  PROVE  \E q \in Entries :
           Becomes(r, q) /\ q.at = "session" /\ q.ran = 0 /\ ~q.retried
<1>1. PICK q : q = [Free EXCEPT !.kind = kind, !.at = "session"]
  OBVIOUS
<1>2. q \in Entries /\ q.at = "session" /\ q.ran = 0 /\ ~q.retried
  BY <1>1, FreeType DEF Entries
<1>3. Becomes(r, q)
  BY <1>1, Zenon
<1> QED
  BY <1>2, <1>3

LEMMA BecomesSending ==
  ASSUME req \in [Requests -> Entries], NEW r \in Requests,
         NEW b \in Bases \union {NoBase}, NEW t \in 0 .. MaxTokens,
         NEW old \in BOOLEAN, Becomes(r, Sending(req[r], b, t, old))
  PROVE  \E q \in Entries :
           /\ Becomes(r, q) /\ q.at = "send" /\ q.token = t
           /\ q.kind = req[r].kind /\ q.retried = req[r].retried
           /\ q.ran = req[r].ran /\ q.disturbed = req[r].disturbed /\ q.stale = old
<1>1. PICK q : q = Sending(req[r], b, t, old)
  OBVIOUS
<1>2. req[r] \in Entries
  OBVIOUS
<1>3. q \in Entries /\ q.at = "send" /\ q.token = t /\ q.kind = req[r].kind
      /\ q.retried = req[r].retried /\ q.ran = req[r].ran /\ q.disturbed = req[r].disturbed
      /\ q.stale = old
  BY <1>1, <1>2 DEF Entries, Sending
<1>4. Becomes(r, q)
  BY <1>1, Zenon
<1> QED
  BY <1>3, <1>4

LEMMA BecomesAgain ==
  ASSUME req \in [Requests -> Entries], NEW r \in Requests, NEW network, Invalidated(r, network)
  PROVE  \E q \in Entries :
           /\ Becomes(r, q) /\ q.at = "session"
           /\ q.kind = req[r].kind /\ q.ran = req[r].ran
<1>1. PICK d \in BOOLEAN : d = Retried
  BY DEF Retried
<1>2. PICK q : q = [req[r] EXCEPT !.at = "session", !.retried = d,
                                  !.base = NoBase, !.token = 0, !.ans = NoAnswer]
  OBVIOUS
<1>3. req[r] \in Entries /\ 0 \in 0 .. MaxTokens
  BY NumbersKnown
<1>4. q \in Entries /\ q.at = "session" /\ q.kind = req[r].kind /\ q.ran = req[r].ran
  BY <1>2, <1>3 DEF Entries
<1>5. Becomes(r, q)
  BY <1>1, <1>2, Zenon DEF Invalidated
<1> QED
  BY <1>4, <1>5

LEMMA BecomesSent ==
  ASSUME req \in [Requests -> Entries], NEW r \in Requests,
         Becomes(r, [req[r] EXCEPT !.at = "sent", !.base = NoBase])
  PROVE  \E q \in Entries :
           /\ Becomes(r, q) /\ q.at = "sent"
           /\ q.kind = req[r].kind /\ q.token = req[r].token /\ q.retried = req[r].retried
           /\ q.ran = req[r].ran /\ q.disturbed = req[r].disturbed /\ q.stale = req[r].stale
<1>1. PICK q : q = [req[r] EXCEPT !.at = "sent", !.base = NoBase]
  OBVIOUS
<1>2. req[r] \in Entries
  OBVIOUS
<1>3. q \in Entries /\ q.at = "sent" /\ q.kind = req[r].kind /\ q.token = req[r].token
      /\ q.retried = req[r].retried /\ q.ran = req[r].ran /\ q.disturbed = req[r].disturbed
      /\ q.stale = req[r].stale
  BY <1>1, <1>2 DEF Entries
<1>4. Becomes(r, q)
  BY <1>1, Zenon
<1> QED
  BY <1>3, <1>4

LEMMA BecomesHandled ==
  ASSUME req \in [Requests -> Entries], NEW r \in Requests, Handle(r)
  PROVE  \E q \in Entries :
           /\ Becomes(r, q) /\ q.at = "answered"
           /\ q.kind = req[r].kind /\ q.retried = req[r].retried /\ q.disturbed = req[r].disturbed
           /\ q.stale = req[r].stale
           /\ \/ req[r].token \in sessions /\ q.ans = "ok" /\ q.ran = req[r].ran + 1
              \/ req[r].token \notin sessions /\ q.ans = "refused" /\ q.ran = req[r].ran
<1> DEFINE ok == req[r].token \in sessions
<1>1. req[r] \in Entries /\ NoToken \in 0 .. MaxTokens
  BY NumbersKnown DEF NoToken
<1>2. PICK a \in {"ok", "refused"} : a = IF ok THEN "ok" ELSE "refused"
  OBVIOUS
<1>3. PICK t \in 0 .. MaxTokens : t = IF req[r].kind = "websocket" THEN req[r].token ELSE NoToken
  BY <1>1 DEF Entries
<1>4. PICK n \in Nat : n = IF ok THEN req[r].ran + 1 ELSE req[r].ran
  BY <1>1 DEF Entries
<1>5. PICK q : q = [req[r] EXCEPT !.at = "answered", !.ans = a, !.token = t, !.ran = n]
  OBVIOUS
<1>6. q \in Entries /\ q.at = "answered" /\ q.kind = req[r].kind
      /\ q.retried = req[r].retried /\ q.disturbed = req[r].disturbed
      /\ q.stale = req[r].stale /\ q.ans = a /\ q.ran = n
  BY <1>1, <1>5 DEF Entries
<1>7. Becomes(r, q)
  BY <1>2, <1>3, <1>4, <1>5, Zenon DEF Handle
<1>8. \/ ok /\ q.ans = "ok" /\ q.ran = req[r].ran + 1
      \/ ~ok /\ q.ans = "refused" /\ q.ran = req[r].ran
  BY <1>2, <1>4, <1>6
<1> QED
  BY <1>6, <1>7, <1>8

LEMMA AllDisturbed ==
  ASSUME req \in [Requests -> Entries], NEW R, req' = Disturb(R)
  PROVE  /\ req' \in [Requests -> Entries]
         /\ \A r \in Requests :
              /\ req'[r].at = req[r].at /\ req'[r].kind = req[r].kind /\ req'[r].token = req[r].token
              /\ req'[r].retried = req[r].retried /\ req'[r].ans = req[r].ans /\ req'[r].ran = req[r].ran
              /\ req'[r].stale = req[r].stale
              /\ req'[r].disturbed = (req[r].disturbed \/ r \in R)
<1>1. ASSUME NEW r \in Requests
      PROVE  /\ req'[r] \in Entries
             /\ req'[r].at = req[r].at /\ req'[r].kind = req[r].kind /\ req'[r].token = req[r].token
             /\ req'[r].retried = req[r].retried /\ req'[r].ans = req[r].ans /\ req'[r].ran = req[r].ran
             /\ req'[r].stale = req[r].stale
             /\ req'[r].disturbed = (req[r].disturbed \/ r \in R)
  <2>1. PICK d \in BOOLEAN : d = (req[r].disturbed \/ r \in R)
    OBVIOUS
  <2>2. PICK q : q = [req[r] EXCEPT !.disturbed = d]
    OBVIOUS
  <2>3. req'[r] = q
    BY <2>1, <2>2, Zenon DEF Disturb
  <2>4. req[r] \in Entries
    OBVIOUS
  <2>5. /\ q \in Entries /\ q.disturbed = d
        /\ q.at = req[r].at /\ q.kind = req[r].kind /\ q.token = req[r].token
        /\ q.retried = req[r].retried /\ q.ans = req[r].ans /\ q.ran = req[r].ran
        /\ q.stale = req[r].stale
    BY <2>2, <2>4 DEF Entries
  <2> QED
    BY <2>1, <2>3, <2>5, Zenon
<1>2. req' = [r \in Requests |-> req'[r]]
  BY DEF Disturb
<1> QED
  BY <1>1, <1>2

-----------------------------------------------------------------------------
(* The invariant. *)

\* A login that has asked has its challenge.  What a request carries that
\* nothing was taken from, and whose device is not revoked, the server knows,
\* unless it has been restarted before.  In a second try it has not: the first
\* one dropped the token, and the one in use is known, or will be made.
Sound(q) ==
  /\ q.at = "token" => nonce \/ q.disturbed
  /\ revoked = "no" /\ q.retried /\ ~q.disturbed =>
       /\ q.at \notin {"done", "refused"} => token = 0 \/ token \in sessions
       /\ q.at \in {"send", "sent"} => q.token \in sessions
       /\ q.at = "answered" => q.ans # "refused"
  /\ revoked = "no" /\ ~q.stale /\ ~q.disturbed =>
       /\ q.at \in {"send", "sent"} => q.token \in sessions
       /\ q.at = "answered" => q.ans # "refused"

\* The token in use is one the server knows, if there is one and the server
\* has not been restarted since.
TokenKnown == revoked = "no" /\ token # 0 /\ ~lost => token \in sessions

\* What is not answered has not run, except a websocket, which is tried again.
RanOnce(q) ==
  q.kind # "websocket" => q.ran = IF q.at = "answered" /\ q.ans = "ok" THEN 1 ELSE 0

SessionInv == TypeOK /\ TokenKnown /\ \A r \in Requests : Sound(req[r]) /\ RanOnce(req[r])

\* The types, but of the requests and the mutex.
Rest ==
  /\ revoked \in {"no", "committed", "yes"}
  /\ sessions \subseteq 1 .. MaxTokens /\ nonce \in BOOLEAN
  /\ reach \subseteq Bases /\ base \in Bases \union {NoBase}
  /\ token \in 0 .. MaxTokens /\ lost \in BOOLEAN /\ events \in 0 .. MaxEvents

LEMMA TypeSplit ==
  TypeOK <=>
    /\ Rest /\ lock \in Requests \union {Nobody} /\ req \in [Requests -> Entries]
    /\ \A r \in Requests : lock = r <=> req[r].at \in Holding
BY DEF TypeOK, Rest, Holding

\* What request r may do to the rest: take or leave the mutex if nobody else
\* has it, use up the challenge if it has, and change the token in use to none
\* or to one the server knows.
Allowed(r) ==
  /\ lock' = lock \/ (lock \in {Nobody, r} /\ lock' \in {Nobody, r})
  /\ nonce' = nonce \/ nonce' = TRUE \/ lock = r
  /\ revoked' = revoked /\ sessions \subseteq sessions'
  /\ (token' = token /\ lost' = lost) \/ token' = 0 \/ token' \in sessions'
  /\ lost' \in BOOLEAN

(* One request goes on, and the others keep what they have. *)
LEMMA StepSound ==
  ASSUME SessionInv, NEW r \in Requests, NEW q \in Entries, Becomes(r, q), Allowed(r), Rest',
         lock' \in Requests \union {Nobody}, lock' = r <=> q.at \in Holding, Sound(q)', RanOnce(q)
  PROVE  SessionInv'
<1>1. /\ req' \in [Requests -> Entries] /\ req'[r] = q
      /\ \A s \in Requests : s # r => req'[s] = req[s]
  BY TypeSplit, OneBecomes DEF SessionInv
<1>2. ASSUME NEW s \in Requests, s # r
      PROVE  (lock' = s <=> req'[s].at \in Holding) /\ Sound(req[s])' /\ RanOnce(req[s])'
  <2>1. req'[s] = req[s] /\ Sound(req[s]) /\ RanOnce(req[s])
        /\ (lock = s <=> req[s].at \in Holding) /\ s # Nobody
    BY <1>1, <1>2, TypeSplit, NobodyAssumption DEF SessionInv
  <2>2. lock' = s <=> lock = s
    BY <1>2, <2>1 DEF Allowed
  <2>3. req[s].at = "token" => lock # r
    BY <1>2, <2>1 DEF Holding
  <2>4. Sound(req[s])'
    <3>1. (req[s].at = "token" => nonce' \/ req[s].disturbed)
      BY <2>1, <2>3 DEF Sound, Allowed
    <3>2. token = 0 \/ token \in sessions => token' = 0 \/ token' \in sessions'
      BY DEF Allowed
    <3>3. revoked' = revoked /\ sessions \subseteq sessions'
      BY DEF Allowed
    <3> QED
      BY <2>1, <3>1, <3>2, <3>3 DEF Sound
  <2> QED
    BY <2>1, <2>2, <2>4 DEF RanOnce
<1>3. \A s \in Requests : (lock' = s <=> req'[s].at \in Holding) /\ Sound(req[s])' /\ RanOnce(req[s])'
  BY <1>1, <1>2 DEF Sound, RanOnce
<1>4. TypeOK'
  BY <1>1, <1>3, TypeSplit DEF TypeOK, Rest, Holding
<1>5. TokenKnown'
  BY DEF Allowed, SessionInv, TokenKnown
<1> QED
  BY <1>3, <1>4, <1>5 DEF SessionInv

-----------------------------------------------------------------------------
(* The steps of a request in the shell. *)

LEMMA Held ==
  ASSUME SessionInv, NEW r \in Requests
  PROVE  /\ Rest /\ lock \in Requests \union {Nobody} /\ req \in [Requests -> Entries]
         /\ req[r] \in Entries /\ Sound(req[r]) /\ RanOnce(req[r])
         /\ (lock = r <=> req[r].at \in Holding) /\ r # Nobody
         /\ TokenKnown /\ lost \in BOOLEAN /\ token \in 0 .. MaxTokens
BY TypeSplit, NobodyAssumption DEF SessionInv, Rest

LEMMA BeginInv ==
  ASSUME SessionInv, NEW r \in Requests, NEW kind \in Kinds[r], Begin(r, kind)
  PROVE  SessionInv'
<1>1. kind \in {"forward", "websocket", "lan"}
  BY SessionAssumption
<1>2. PICK q \in Entries : Becomes(r, q) /\ q.at = "session" /\ q.ran = 0 /\ ~q.retried
  BY <1>1, BecomesBegun DEF Begin
<1>3. UNCHANGED <<revoked, sessions, nonce, reach, base, token, lost, lock, events>>
  BY DEF Begin, server, state, world
<1>4. Allowed(r) /\ Rest' /\ lock' \in Requests \union {Nobody}
  BY <1>3, Held DEF Allowed, Rest
<1>5. lock' = r <=> q.at \in Holding
  BY <1>2, <1>3, Held DEF Begin, Underway, Holding
<1>6. Sound(q)' /\ RanOnce(q)
  BY <1>2 DEF Sound, RanOnce
<1> QED
  BY <1>2, <1>4, <1>5, <1>6, StepSound

LEMMA SessionStepInv ==
  ASSUME SessionInv, NEW r \in Requests, Session(r)
  PROVE  SessionInv'
<1>1. req[r].at = "session" /\ lock = Nobody
      /\ UNCHANGED <<revoked, sessions, nonce, reach, base, token, lost, events>>
  BY DEF Session, At, server, world
<1>2. Rest' /\ lock' \in {Nobody, r}
  BY <1>1, Held DEF Rest, Session
<1>3. Allowed(r) /\ lock' \in Requests \union {Nobody}
  BY <1>1, <1>2, Held DEF Allowed
<1>4. CASE base # NoBase /\ HasToken
  <2>1. base \in Bases \union {NoBase} /\ token \in 0 .. MaxTokens /\ token # 0 /\ lost \in BOOLEAN
    BY <1>4, Held DEF Rest, HasToken, NoToken
  <2>2. Becomes(r, Sending(req[r], base, token, lost)) /\ lock' = Nobody
    BY <1>1, <1>4 DEF Session
  <2>3. PICK q \in Entries :
           /\ Becomes(r, q) /\ q.at = "send" /\ q.token = token
           /\ q.kind = req[r].kind /\ q.retried = req[r].retried
           /\ q.ran = req[r].ran /\ q.disturbed = req[r].disturbed /\ q.stale = lost
    BY <2>1, <2>2, Held, BecomesSending
  <2>4. Sound(q)' /\ RanOnce(q)
    BY <1>1, <2>1, <2>3, Held DEF Sound, RanOnce, TokenKnown
  <2>5. lock' = r <=> q.at \in Holding
    BY <2>2, <2>3, Held DEF Holding
  <2> QED
    BY <1>2, <1>3, <2>3, <2>4, <2>5, StepSound
<1>5. CASE ~(base # NoBase /\ HasToken)
  <2>1. PICK a \in {"pick", "challenge"} : Goes(r, a) /\ lock' = r
    BY <1>5 DEF Session
  <2>2. PICK q \in Entries :
           /\ Becomes(r, q) /\ q.at = a
           /\ q.kind = req[r].kind /\ q.token = req[r].token /\ q.retried = req[r].retried
           /\ q.ans = req[r].ans /\ q.ran = req[r].ran /\ q.disturbed = req[r].disturbed
           /\ q.stale = req[r].stale
    BY <2>1, Held, BecomesAt DEF Places
  <2>3. Sound(q)' /\ RanOnce(q)
    BY <1>1, <2>1, <2>2, Held DEF Sound, RanOnce
  <2>4. lock' = r <=> q.at \in Holding
    BY <2>1, <2>2 DEF Holding
  <2> QED
    BY <1>2, <1>3, <2>2, <2>3, <2>4, StepSound
<1> QED
  BY <1>4, <1>5

(* A request ends, and leaves the mutex if it holds it. *)
LEMMA DoneInv ==
  ASSUME SessionInv, NEW r \in Requests, NEW ans, Done(r, ans), Allowed(r), Rest',
         lock' \in Requests \union {Nobody}, lock' # r
  PROVE  SessionInv'
<1>1. PICK q \in Entries :
         /\ Becomes(r, q) /\ q.at = (IF ans = "refused" THEN "refused" ELSE "done")
         /\ q.ran = 0 /\ ~q.retried /\ ~q.disturbed
  BY BecomesDone
<1>2. q.at \in {"refused", "done"}
  BY <1>1
<1>3. Sound(q)' /\ RanOnce(q)
  BY <1>1, <1>2 DEF Sound, RanOnce
<1>4. lock' = r <=> q.at \in Holding
  BY <1>2 DEF Holding
<1> QED
  BY <1>1, <1>3, <1>4, StepSound

LEMMA PickInv ==
  ASSUME SessionInv, NEW r \in Requests, Pick(r)
  PROVE  SessionInv'
<1>1. req[r].at = "pick" /\ lock = r
      /\ UNCHANGED <<revoked, sessions, nonce, reach, token, lost, events>>
  BY Held DEF Pick, At, server, world, Holding
<1>2. CASE \E b \in reach :
             /\ base' = b
             /\ IF HasToken
                THEN Becomes(r, Sending(req[r], b, token, lost)) /\ lock' = Nobody
                ELSE Goes(r, "challenge") /\ UNCHANGED lock
  <2>1. PICK b \in reach :
             /\ base' = b
             /\ IF HasToken
                THEN Becomes(r, Sending(req[r], b, token, lost)) /\ lock' = Nobody
                ELSE Goes(r, "challenge") /\ UNCHANGED lock
    BY <1>2
  <2>2. b \in Bases \union {NoBase} /\ token \in 0 .. MaxTokens /\ lost \in BOOLEAN
    BY Held DEF Rest
  <2>3. Rest'
    BY <1>1, <2>1, <2>2, Held DEF Rest
  <2>4. CASE HasToken
    <3>1. PICK q \in Entries :
             /\ Becomes(r, q) /\ q.at = "send" /\ q.token = token
             /\ q.kind = req[r].kind /\ q.retried = req[r].retried
             /\ q.ran = req[r].ran /\ q.disturbed = req[r].disturbed /\ q.stale = lost
      BY <2>1, <2>2, <2>4, Held, BecomesSending
    <3>2. Sound(q)' /\ RanOnce(q)
      BY <1>1, <2>4, <3>1, Held DEF Sound, RanOnce, TokenKnown, HasToken, NoToken
    <3>3. lock' = Nobody
      BY <2>1, <2>4
    <3>4. (lock' = r <=> q.at \in Holding) /\ Allowed(r)
      BY <1>1, <3>1, <3>3, Held DEF Holding, Allowed
    <3> QED
      BY <2>3, <3>1, <3>2, <3>3, <3>4, StepSound
  <2>5. CASE ~HasToken
    <3>1. Goes(r, "challenge") /\ lock' = lock
      BY <2>1, <2>5
    <3>2. PICK q \in Entries :
             /\ Becomes(r, q) /\ q.at = "challenge"
             /\ q.kind = req[r].kind /\ q.token = req[r].token /\ q.retried = req[r].retried
             /\ q.ans = req[r].ans /\ q.ran = req[r].ran /\ q.disturbed = req[r].disturbed
             /\ q.stale = req[r].stale
      BY <3>1, Held, BecomesAt DEF Places
    <3>3. Sound(q)' /\ RanOnce(q)
      BY <1>1, <3>2, Held DEF Sound, RanOnce
    <3>4. (lock' = r <=> q.at \in Holding) /\ Allowed(r)
      BY <1>1, <3>1, <3>2, Held DEF Holding, Allowed
    <3> QED
      BY <1>1, <2>3, <3>1, <3>2, <3>3, <3>4, StepSound
  <2> QED
    BY <2>4, <2>5
<1>3. CASE Done(r, "network") /\ lock' = Nobody /\ UNCHANGED base
  <2>1. Rest' /\ Allowed(r) /\ lock' # r
    BY <1>1, <1>3, Held DEF Rest, Allowed
  <2> QED
    BY <1>3, <2>1, DoneInv
<1> QED
  BY <1>2, <1>3 DEF Pick

(* A login fails, wherever it was. *)
LEMMA LoginFailsInv ==
  ASSUME SessionInv, NEW r \in Requests, NEW ans, LoginFails(r, ans), lock = r,
         revoked' = revoked, sessions \subseteq sessions', sessions' \subseteq 1 .. MaxTokens,
         nonce' \in BOOLEAN, UNCHANGED world
  PROVE  SessionInv'
<1>1. Done(r, ans) /\ lock' = Nobody /\ token' = token /\ lost' = lost /\ base' \in {NoBase, base}
  BY DEF LoginFails, BaseAfter
<1>2. Rest'
  BY <1>1, Held DEF Rest, world
<1>3. Allowed(r) /\ lock' # r
  BY <1>1, Held DEF Allowed
<1> QED
  BY <1>1, <1>2, <1>3, DoneInv

LEMMA LoginLostInv ==
  ASSUME SessionInv, NEW r \in Requests, LoginLost(r)
  PROVE  SessionInv'
<1>1. lock = r /\ LoginFails(r, "network")
  BY Held DEF LoginLost, Holding
<1>2. UNCHANGED <<revoked, sessions, nonce, world>> /\ sessions \subseteq 1 .. MaxTokens /\ nonce \in BOOLEAN
  BY Held DEF LoginLost, server, Rest
<1> QED
  BY <1>1, <1>2, LoginFailsInv

(* An answer, or the lack of one: the request is tried again, or ends. *)
LEMMA AnsweredInv ==
  ASSUME SessionInv, NEW r \in Requests, NEW ans, Answered(r, ans), UNCHANGED <<server, world>>,
         req[r].at \in {"send", "sent", "answered"},
         req[r].at = "answered" => ans \in {req[r].ans, "network"},
         req[r].at = "sent" => ans = "network"
  PROVE  SessionInv'
<1>1. UNCHANGED <<revoked, sessions, nonce, reach, events>> /\ lock # r
  BY Held DEF server, world, Holding
<1>2. CASE ~req[r].retried /\ Again(req[r].kind, ans)
  <2>1. Invalidated(r, ans # "refused") /\ lock' = lock
    BY <1>2 DEF Answered
  <2>2. PICK q \in Entries :
          Becomes(r, q) /\ q.at = "session" /\ q.kind = req[r].kind /\ q.ran = req[r].ran
    BY <2>1, Held, BecomesAgain
  <2>3. token' = 0 /\ lost' \in BOOLEAN /\ base' \in {base, NoBase}
    BY <2>1 DEF Invalidated, Dropped, NoToken
  <2>4. Sound(q)'
    BY <2>2, <2>3 DEF Sound
  <2>5. RanOnce(q)
    <3>1. q.kind # "websocket" => ans \in {"refused", "unreached"}
      BY <1>2, <2>2 DEF Again
    <3>2. q.kind # "websocket" => ~(req[r].at = "answered" /\ req[r].ans = "ok")
      BY <3>1
    <3> QED
      BY <2>2, <3>2, Held DEF RanOnce
  <2>6. Rest'
    BY <1>1, <2>3, Held, NumbersKnown DEF Rest
  <2>7. Allowed(r) /\ (lock' = r <=> q.at \in Holding) /\ lock' \in Requests \union {Nobody}
    BY <1>1, <2>1, <2>2, <2>3, Held DEF Allowed, Holding
  <2> QED
    BY <2>2, <2>4, <2>5, <2>6, <2>7, StepSound
<1>3. CASE ~(~req[r].retried /\ Again(req[r].kind, ans))
  <2>1. UNCHANGED <<base, token, lost, lock>>
    BY <1>3 DEF Answered, state
  <2>2. Rest' /\ Allowed(r) /\ lock' # r /\ lock' \in Requests \union {Nobody}
    BY <1>1, <2>1, Held DEF Rest, Allowed
  <2>3. CASE req[r].kind = "websocket" /\ ans = "ok"
    <3>1. Goes(r, "open")
      BY <1>3, <2>3 DEF Answered
    <3>2. PICK q \in Entries :
             /\ Becomes(r, q) /\ q.at = "open"
             /\ q.kind = req[r].kind /\ q.token = req[r].token /\ q.retried = req[r].retried
             /\ q.ans = req[r].ans /\ q.ran = req[r].ran /\ q.disturbed = req[r].disturbed
             /\ q.stale = req[r].stale
      BY <3>1, Held, BecomesAt DEF Places
    <3>3. Sound(q)' /\ RanOnce(q)
      BY <1>1, <2>1, <2>3, <3>2, Held DEF Sound, RanOnce
    <3>4. lock' = r <=> q.at \in Holding
      BY <2>2, <3>2 DEF Holding
    <3> QED
      BY <2>2, <3>2, <3>3, <3>4, StepSound
  <2>4. CASE ~(req[r].kind = "websocket" /\ ans = "ok")
    <3>1. PICK a : Done(r, a)
      BY <1>3, <2>4 DEF Answered
    <3> QED
      BY <2>2, <3>1, DoneInv
  <2> QED
    BY <2>3, <2>4
<1> QED
  BY <1>2, <1>3

LEMMA SendInv ==
  ASSUME SessionInv, NEW r \in Requests, Send(r)
  PROVE  SessionInv'
<1>1. req[r].at = "send" /\ UNCHANGED <<server, world>>
  BY DEF Send, At
<1>2. CASE Address(r) \in reach
  <2>1. Becomes(r, [req[r] EXCEPT !.at = "sent", !.base = NoBase])
        /\ UNCHANGED <<revoked, sessions, nonce, reach, base, token, lost, lock, events>>
    BY <1>1, <1>2 DEF Send, server, state, world
  <2>2. PICK q \in Entries :
           /\ Becomes(r, q) /\ q.at = "sent"
           /\ q.kind = req[r].kind /\ q.token = req[r].token /\ q.retried = req[r].retried
           /\ q.ran = req[r].ran /\ q.disturbed = req[r].disturbed /\ q.stale = req[r].stale
    BY <2>1, Held, BecomesSent
  <2>3. Sound(q)' /\ RanOnce(q)
    BY <1>1, <2>1, <2>2, Held DEF Sound, RanOnce
  <2>4. Rest' /\ Allowed(r) /\ (lock' = r <=> q.at \in Holding) /\ lock' \in Requests \union {Nobody}
    BY <1>1, <2>1, <2>2, Held DEF Rest, Allowed, Holding
  <2> QED
    BY <2>2, <2>3, <2>4, StepSound
<1>3. CASE Address(r) \notin reach
  BY <1>1, <1>3, AnsweredInv DEF Send
<1> QED
  BY <1>2, <1>3

LEMMA ReceiveInv ==
  ASSUME SessionInv, NEW r \in Requests, Receive(r) \/ Lose(r)
  PROVE  SessionInv'
<1>1. CASE Receive(r)
  BY <1>1, AnsweredInv DEF Receive, At
<1>2. CASE Lose(r)
  BY <1>2, AnsweredInv DEF Lose
<1> QED
  BY <1>1, <1>2

-----------------------------------------------------------------------------
(* The steps of the server for a request. *)

LEMMA ChallengeInv ==
  ASSUME SessionInv, NEW r \in Requests, Challenge(r)
  PROVE  SessionInv'
<1>1. req[r].at = "challenge" /\ lock = r /\ UNCHANGED <<revoked, sessions, world>>
  BY Held DEF Challenge, At, Holding
<1>2. CASE ActiveDevice
  <2>1. Goes(r, "token") /\ nonce' = TRUE /\ UNCHANGED <<base, token, lost, lock>>
    BY <1>2 DEF Challenge, state
  <2>2. PICK q \in Entries :
           /\ Becomes(r, q) /\ q.at = "token"
           /\ q.kind = req[r].kind /\ q.token = req[r].token /\ q.retried = req[r].retried
           /\ q.ans = req[r].ans /\ q.ran = req[r].ran /\ q.disturbed = req[r].disturbed
           /\ q.stale = req[r].stale
    BY <2>1, Held, BecomesAt DEF Places
  <2>3. Sound(q)' /\ RanOnce(q)
    BY <1>1, <2>1, <2>2, Held DEF Sound, RanOnce
  <2>4. Rest' /\ Allowed(r) /\ (lock' = r <=> q.at \in Holding) /\ lock' \in Requests \union {Nobody}
    BY <1>1, <2>1, <2>2, Held DEF Rest, Allowed, Holding, world
  <2> QED
    BY <2>2, <2>3, <2>4, StepSound
<1>3. CASE ~ActiveDevice
  <2>1. LoginFails(r, "refused") /\ nonce' = nonce /\ nonce \in BOOLEAN /\ sessions \subseteq 1 .. MaxTokens
    BY <1>3, Held DEF Challenge, Rest
  <2> QED
    BY <1>1, <2>1, LoginFailsInv
<1> QED
  BY <1>2, <1>3

LEMMA TokenInv ==
  ASSUME SessionInv, NEW r \in Requests, Token(r)
  PROVE  SessionInv'
<1>1. req[r].at = "token" /\ lock = r /\ UNCHANGED <<revoked, sessions, world>> /\ nonce' = FALSE
  BY Held DEF Token, At, Holding
<1>2. CASE nonce /\ ActiveDevice
  <2>1. Goes(r, "touch") /\ UNCHANGED <<base, token, lost, lock>>
    BY <1>2 DEF Token, state
  <2>2. PICK q \in Entries :
           /\ Becomes(r, q) /\ q.at = "touch"
           /\ q.kind = req[r].kind /\ q.token = req[r].token /\ q.retried = req[r].retried
           /\ q.ans = req[r].ans /\ q.ran = req[r].ran /\ q.disturbed = req[r].disturbed
           /\ q.stale = req[r].stale
    BY <2>1, Held, BecomesAt DEF Places
  <2>3. Sound(q)' /\ RanOnce(q)
    BY <1>1, <2>1, <2>2, Held DEF Sound, RanOnce
  <2>4. Rest' /\ Allowed(r) /\ (lock' = r <=> q.at \in Holding) /\ lock' \in Requests \union {Nobody}
    BY <1>1, <2>1, <2>2, Held DEF Rest, Allowed, Holding, world
  <2> QED
    BY <2>2, <2>3, <2>4, StepSound
<1>3. CASE ~(nonce /\ ActiveDevice)
  <2>1. LoginFails(r, "refused") /\ nonce' \in BOOLEAN /\ sessions \subseteq 1 .. MaxTokens
    BY <1>1, <1>3, Held DEF Token, Rest
  <2> QED
    BY <1>1, <2>1, LoginFailsInv
<1> QED
  BY <1>2, <1>3

LEMMA TokenMadeInv ==
  ASSUME SessionInv, NEW r \in Requests, TokenMade(r)
  PROVE  SessionInv'
<1>1. req[r].at = "touch" /\ lock = r /\ UNCHANGED <<revoked, nonce, world>> /\ sessions' = sessions \union {Fresh}
  BY Held DEF TokenMade, At, Holding
<1>2. Fresh \in 1 .. MaxTokens
  <2>1. Fresh \in Unknown
    BY DEF TokenMade, Fresh
  <2> QED
    BY <2>1 DEF Unknown
<1>3. sessions \subseteq sessions' /\ sessions' \subseteq 1 .. MaxTokens /\ nonce' \in BOOLEAN /\ Fresh \in sessions'
  BY <1>1, <1>2, Held DEF Rest
<1>4. \/ token' = Fresh /\ lost' = FALSE /\ lock' = Nobody /\ Becomes(r, Sending(req[r], base, Fresh, FALSE)) /\ UNCHANGED base
      \/ LoginFails(r, "network")
  BY DEF TokenMade
<1>5. CASE token' = Fresh /\ lost' = FALSE /\ lock' = Nobody /\ Becomes(r, Sending(req[r], base, Fresh, FALSE)) /\ UNCHANGED base
  <2>1. Fresh \in 0 .. MaxTokens /\ base \in Bases \union {NoBase}
    BY <1>2, NumbersKnown, Held DEF Rest
  <2>a. PICK old \in BOOLEAN : old = FALSE
    OBVIOUS
  <2>b. Becomes(r, Sending(req[r], base, Fresh, old))
    BY <1>5, <2>a, Zenon
  <2>2. PICK q \in Entries :
           /\ Becomes(r, q) /\ q.at = "send" /\ q.token = Fresh
           /\ q.kind = req[r].kind /\ q.retried = req[r].retried
           /\ q.ran = req[r].ran /\ q.disturbed = req[r].disturbed /\ q.stale = old
    BY <2>1, <2>b, Held, BecomesSending
  <2>3. Sound(q)' /\ RanOnce(q)
    BY <1>1, <1>3, <1>5, <2>a, <2>2, Held DEF Sound, RanOnce
  <2>4. Rest'
    BY <1>1, <1>3, <1>5, <2>1, Held DEF Rest, world
  <2>5. Allowed(r) /\ (lock' = r <=> q.at \in Holding) /\ lock' \in Requests \union {Nobody}
    BY <1>1, <1>3, <1>5, <2>2, Held DEF Allowed, Holding
  <2> QED
    BY <2>2, <2>3, <2>4, <2>5, StepSound
<1>6. CASE LoginFails(r, "network")
  BY <1>1, <1>3, <1>6, LoginFailsInv
<1> QED
  BY <1>4, <1>5, <1>6

LEMMA HandleInv ==
  ASSUME SessionInv, NEW r \in Requests, Handle(r)
  PROVE  SessionInv'
<1>1. req[r].at = "sent" /\ UNCHANGED <<revoked, sessions, nonce, reach, base, token, lost, lock, events>>
  BY DEF Handle, At, server, state, world
<1>2. PICK q \in Entries :
         /\ Becomes(r, q) /\ q.at = "answered"
         /\ q.kind = req[r].kind /\ q.retried = req[r].retried /\ q.disturbed = req[r].disturbed
         /\ q.stale = req[r].stale
         /\ \/ req[r].token \in sessions /\ q.ans = "ok" /\ q.ran = req[r].ran + 1
            \/ req[r].token \notin sessions /\ q.ans = "refused" /\ q.ran = req[r].ran
  BY Held, BecomesHandled
<1>3. Sound(q)' /\ RanOnce(q)
  BY <1>1, <1>2, Held DEF Sound, RanOnce
<1>4. Rest' /\ Allowed(r) /\ (lock' = r <=> q.at \in Holding) /\ lock' \in Requests \union {Nobody}
  BY <1>1, <1>2, Held DEF Rest, Allowed, Holding
<1> QED
  BY <1>2, <1>3, <1>4, StepSound

LEMMA CloseInv ==
  ASSUME SessionInv, NEW r \in Requests, Close(r)
  PROVE  SessionInv'
<1>1. req[r].at = "open" /\ Done(r, "closed")
      /\ UNCHANGED <<revoked, sessions, nonce, reach, base, token, lost, lock, events>>
  BY DEF Close, At, server, state, world
<1>2. Rest' /\ Allowed(r) /\ lock' # r /\ lock' \in Requests \union {Nobody}
  BY <1>1, Held DEF Rest, Allowed, Holding
<1> QED
  BY <1>1, <1>2, DoneInv

-----------------------------------------------------------------------------
(* The device, the server, time and the network. *)

(* The requests stay where they are. *)
LEMMA RequestsStay ==
  ASSUME SessionInv, UNCHANGED <<req, lock>>, Rest', nonce' = nonce,
         \/ revoked' # "no"
         \/ sessions' = sessions /\ (UNCHANGED <<token, lost>> \/ token' = 0) /\ revoked' = revoked
  PROVE  SessionInv'
<1>1. TypeOK'
  BY TypeSplit DEF SessionInv, TypeOK, Rest
<1>2. \A r \in Requests : Sound(req[r])' /\ RanOnce(req[r])'
  BY DEF SessionInv, Sound, RanOnce
<1>3. TokenKnown'
  BY DEF SessionInv, TokenKnown
<1> QED
  BY <1>1, <1>2, <1>3 DEF SessionInv

(* Something is taken from some of them. *)
LEMMA RequestsDisturbed ==
  ASSUME SessionInv, NEW R, req' = Disturb(R), Rest', TokenKnown',
         UNCHANGED <<lock, revoked, token>>,
         \A r \in Requests : r \notin R =>
           /\ req[r].at = "token" => nonce' = nonce
           /\ req[r].at \notin {"done", "refused"} /\ token \in sessions => token \in sessions'
           /\ req[r].at \in {"send", "sent"} /\ req[r].token \in sessions => req[r].token \in sessions'
  PROVE  SessionInv'
<1>1. /\ req' \in [Requests -> Entries]
      /\ \A r \in Requests :
           /\ req'[r].at = req[r].at /\ req'[r].kind = req[r].kind /\ req'[r].token = req[r].token
           /\ req'[r].retried = req[r].retried /\ req'[r].ans = req[r].ans /\ req'[r].ran = req[r].ran
           /\ req'[r].stale = req[r].stale
           /\ req'[r].disturbed = (req[r].disturbed \/ r \in R)
  BY TypeSplit, AllDisturbed DEF SessionInv
<1>2. TypeOK'
  BY <1>1, TypeSplit DEF SessionInv, TypeOK, Rest, Holding
<1>3. ASSUME NEW r \in Requests PROVE Sound(req[r])' /\ RanOnce(req[r])'
  <2>1. Sound(req[r]) /\ RanOnce(req[r])
    BY Held
  <2>2. RanOnce(req[r])'
    BY <1>1, <2>1 DEF RanOnce
  <2>3. CASE r \in R
    <3>1. req'[r].disturbed
      BY <1>1, <2>3, Zenon
    <3> QED
      BY <2>2, <3>1 DEF Sound
  <2>4. CASE r \notin R
    <3>1. req'[r].disturbed <=> req[r].disturbed
      BY <1>1, <2>4, Zenon
    <3>2. /\ req[r].at = "token" => nonce' = nonce
          /\ req[r].at \notin {"done", "refused"} /\ token \in sessions => token \in sessions'
          /\ req[r].at \in {"send", "sent"} /\ req[r].token \in sessions => req[r].token \in sessions'
      BY <2>4
    <3> QED
      BY <1>1, <2>1, <2>2, <3>1, <3>2 DEF Sound
  <2> QED
    BY <2>3, <2>4
<1> QED
  BY <1>2, <1>3 DEF SessionInv

LEMMA WorldInv ==
  ASSUME SessionInv, Revoke \/ EndSessions \/ Ages \/ NetworkChanges
  PROVE  SessionInv'
<1>1. Rest
  BY TypeSplit DEF SessionInv
<1>2. UNCHANGED <<req, lock>> /\ nonce' = nonce
  BY DEF Revoke, EndSessions, Ages, NetworkChanges, server, state
<1>3. Rest'
  <2>1. CASE Revoke
    BY <1>1, <2>1 DEF Revoke, Rest, state, world
  <2>2. CASE EndSessions
    BY <1>1, <2>2 DEF EndSessions, Rest, state, world
  <2>3. CASE Ages
    <3>1. lost' \in BOOLEAN
      BY <2>3, Zenon DEF Ages
    <3> QED
      BY <1>1, <2>3, <3>1, NumbersKnown DEF Ages, NoToken, Rest, server, world
  <2>4. CASE NetworkChanges
    BY <1>1, <2>4, NumbersKnown DEF NetworkChanges, Rest, server, state
  <2> QED
    BY <2>1, <2>2, <2>3, <2>4
<1>4. \/ revoked' # "no"
      \/ sessions' = sessions /\ (UNCHANGED <<token, lost>> \/ token' = 0) /\ revoked' = revoked
  BY DEF Revoke, EndSessions, Ages, NetworkChanges, NoToken, server, state
<1> QED
  BY <1>2, <1>3, <1>4, RequestsStay

LEMMA RestartInv ==
  ASSUME SessionInv, Restart
  PROVE  SessionInv'
<1>0. /\ UNCHANGED <<lock, base, token, reach>> /\ sessions' = {} /\ nonce' = FALSE
      /\ revoked' = (IF revoked = "no" THEN "no" ELSE "yes")
      /\ events < MaxEvents /\ events' = events + 1
      /\ req' = Disturb({r \in Requests : Underway(r)}) /\ lost' = (token # 0)
  BY DEF Restart, NoToken
<1>t. lost' \in BOOLEAN /\ TokenKnown'
  <2>1. lost' <=> token # 0
    BY <1>0
  <2> QED
    BY <1>0, <2>1 DEF TokenKnown
<1>r. Rest'
  <2>1. Rest
    BY TypeSplit DEF SessionInv
  <2>2. events' \in 0 .. MaxEvents
    BY <1>0, <2>1, NumbersKnown DEF Rest
  <2> QED
    BY <1>0, <1>t, <2>1, <2>2 DEF Rest
<1>1. CASE revoked = "no"
  <2>1. UNCHANGED <<lock, revoked, token>> /\ req' = Disturb({r \in Requests : Underway(r)})
    BY <1>0, <1>1
  <2>2. \A r \in Requests : r \notin {s \in Requests : Underway(s)} => req[r].at \in {"done", "refused"}
    BY DEF Underway
  <2> QED
    BY <1>r, <1>t, <2>1, <2>2, RequestsDisturbed
<1>2. CASE revoked # "no"
  <2>1. Rest' /\ UNCHANGED <<lock, token>> /\ revoked' # "no" /\ req' = Disturb({r \in Requests : Underway(r)})
    BY <1>0, <1>r, <1>2
  <2>2. /\ req' \in [Requests -> Entries]
        /\ \A r \in Requests :
             /\ req'[r].at = req[r].at /\ req'[r].kind = req[r].kind /\ req'[r].token = req[r].token
             /\ req'[r].retried = req[r].retried /\ req'[r].ans = req[r].ans /\ req'[r].ran = req[r].ran
             /\ req'[r].stale = req[r].stale
             /\ req'[r].disturbed = (req[r].disturbed \/ r \in {s \in Requests : Underway(s)})
    BY <2>1, TypeSplit, AllDisturbed DEF SessionInv
  <2>3. TypeOK'
    BY <2>1, <2>2, TypeSplit DEF SessionInv, TypeOK, Rest, Holding
  <2>4. ASSUME NEW r \in Requests PROVE Sound(req[r])' /\ RanOnce(req[r])'
    <3>1. req[r].at = "token" => req'[r].disturbed
      BY <2>2, Zenon DEF Underway
    <3>2. RanOnce(req[r])'
      BY <2>2, Held DEF RanOnce
    <3> QED
      BY <2>1, <2>2, <3>1, <3>2 DEF Sound
  <2> QED
    BY <1>t, <2>3, <2>4 DEF SessionInv
<1> QED
  BY <1>1, <1>2

LEMMA ExpireInv ==
  ASSUME SessionInv, NEW t \in sessions, Expire(t)
  PROVE  SessionInv'
<1>1. token # t /\ sessions' = sessions \ {t} /\ req' = Disturb({r \in Requests : req[r].token = t})
      /\ UNCHANGED <<revoked, nonce, lock, token>>
  BY DEF Expire, state
<1>2. Rest'
  BY TypeSplit DEF SessionInv, Expire, Rest, state, world
<1>3. \A r \in Requests : r \notin {s \in Requests : req[s].token = t} => req[r].token # t
  OBVIOUS
<1>4. TokenKnown'
  BY <1>1 DEF SessionInv, TokenKnown, Expire, state
<1> QED
  BY <1>1, <1>2, <1>3, <1>4, RequestsDisturbed

LEMMA NonceExpiresInv ==
  ASSUME SessionInv, NonceExpires
  PROVE  SessionInv'
<1>1. req' = Disturb({lock} \ {Nobody}) /\ UNCHANGED <<revoked, sessions, lock, token>>
  BY DEF NonceExpires, state
<1>2. Rest'
  BY TypeSplit DEF SessionInv, NonceExpires, Rest, state, world
<1>3. \A r \in Requests : req[r].at = "token" => r \in {lock} \ {Nobody}
  BY Held DEF Holding
<1>4. TokenKnown'
  BY <1>1 DEF SessionInv, TokenKnown, NonceExpires, state
<1> QED
  BY <1>1, <1>2, <1>3, <1>4, RequestsDisturbed

LEMMA InvHolds == Spec => []SessionInv
<1>1. Init => SessionInv
  <2> SUFFICES ASSUME Init PROVE SessionInv
    OBVIOUS
  <2>1. req \in [Requests -> Entries] /\ \A r \in Requests : req[r] = Free
    BY FreeType DEF Init
  <2>2. Rest /\ lock = Nobody
    <3>1. /\ revoked = "no" /\ sessions = {} /\ nonce = FALSE /\ reach = Bases /\ base = NoBase
          /\ token = 0 /\ lock = Nobody /\ events = 0
      BY DEF Init, NoToken
    <3>2. token \in 0 .. MaxTokens /\ events \in 0 .. MaxEvents
      BY <3>1, NumbersKnown
    <3>3. lost \in BOOLEAN
      BY Zenon DEF Init
    <3> QED
      BY <3>1, <3>2, <3>3 DEF Rest
  <2>3. \A r \in Requests : lock = r <=> req[r].at \in Holding
    BY <2>1, <2>2, FreeType, NobodyAssumption DEF Holding
  <2>4. \A r \in Requests : Sound(req[r]) /\ RanOnce(req[r])
    BY <2>1, FreeType DEF Sound, RanOnce
  <2>5. TokenKnown
    BY DEF Init, TokenKnown, NoToken
  <2> QED
    BY <2>1, <2>2, <2>3, <2>4, <2>5, TypeSplit DEF SessionInv
<1>2. SessionInv /\ [Next]_vars => SessionInv'
  <2> SUFFICES ASSUME SessionInv, [Next]_vars PROVE SessionInv'
    OBVIOUS
  <2>1. ASSUME NEW r \in Requests, NEW kind \in Kinds[r], Begin(r, kind) PROVE SessionInv'
    BY <2>1, BeginInv
  <2>2. ASSUME NEW r \in Requests, Shell(r) \/ Server(r) \/ LoginLost(r) \/ Lose(r) PROVE SessionInv'
    BY <2>2, SessionStepInv, PickInv, SendInv, ReceiveInv, ChallengeInv, TokenInv, TokenMadeInv,
       HandleInv, CloseInv, LoginLostInv DEF Shell, Server
  <2>3. CASE Revoke \/ EndSessions \/ Restart \/ Ages \/ NonceExpires \/ NetworkChanges
    BY <2>3, WorldInv, RestartInv, NonceExpiresInv
  <2>4. ASSUME NEW t \in sessions, Expire(t) PROVE SessionInv'
    BY <2>4, ExpireInv
  <2>5. CASE UNCHANGED vars
    BY <2>5, TypeSplit, RequestsStay DEF vars, server, state, world, SessionInv, Rest
  <2> QED
    BY <2>1, <2>2, <2>3, <2>4, <2>5 DEF Next
<1> QED
  BY <1>1, <1>2, PTL DEF Spec

-----------------------------------------------------------------------------
(* Types: for any requests, of any kinds, with one address or two.          *)
THEOREM TypeCorrect == Spec => []TypeOK
<1>1. SessionInv => TypeOK
  BY DEF SessionInv
<1> QED
  BY <1>1, InvHolds, PTL

(* A forwarded request is carried out at most once, however often its        *)
(* connection breaks and its token is refused.                              *)
THEOREM RunsOnce == Spec => []AtMostOnce
<1>1. SessionInv => AtMostOnce
  BY DEF SessionInv, RanOnce, AtMostOnce
<1> QED
  BY <1>1, InvHolds, PTL

-----------------------------------------------------------------------------
(* What a refusal is for. *)

(* Whoever ends without a refusal is not refused. *)
LEMMA EndsUnrefused ==
  ASSUME SessionInv, NEW r \in Requests, NEW ans, ans # "refused", Done(r, ans)
  PROVE  req'[r].at # "refused"
<1>1. PICK q \in Entries :
         /\ Becomes(r, q) /\ q.at = (IF ans = "refused" THEN "refused" ELSE "done")
         /\ q.ran = 0 /\ ~q.retried /\ ~q.disturbed
  BY BecomesDone
<1> QED
  BY <1>1, Held, OneBecomes

(* Nor is whoever is tried again. *)
LEMMA AnsweredUnrefused ==
  ASSUME SessionInv, NEW r \in Requests, NEW ans, Answered(r, ans),
         ans # "refused" \/ (~req[r].retried /\ Again(req[r].kind, ans))
  PROVE  req'[r].at # "refused"
<1>1. CASE ~req[r].retried /\ Again(req[r].kind, ans)
  <2>1. Invalidated(r, ans # "refused")
    BY <1>1 DEF Answered
  <2>2. PICK q \in Entries :
          Becomes(r, q) /\ q.at = "session" /\ q.kind = req[r].kind /\ q.ran = req[r].ran
    BY <2>1, Held, BecomesAgain
  <2> QED
    BY <2>2, Held, OneBecomes
<1>2. CASE ~(~req[r].retried /\ Again(req[r].kind, ans))
  <2>1. CASE req[r].kind = "websocket" /\ ans = "ok"
    <3>1. Goes(r, "open")
      BY <1>2, <2>1 DEF Answered
    <3>2. PICK q \in Entries :
             /\ Becomes(r, q) /\ q.at = "open"
             /\ q.kind = req[r].kind /\ q.token = req[r].token /\ q.retried = req[r].retried
             /\ q.ans = req[r].ans /\ q.ran = req[r].ran /\ q.disturbed = req[r].disturbed
             /\ q.stale = req[r].stale
      BY <3>1, Held, BecomesAt DEF Places
    <3> QED
      BY <3>2, Held, OneBecomes
  <2>2. CASE ~(req[r].kind = "websocket" /\ ans = "ok")
    <3>1. Done(r, IF ans = "unreached" THEN "network" ELSE ans)
      BY <1>2, <2>2 DEF Answered
    <3>2. (IF ans = "unreached" THEN "network" ELSE ans) # "refused"
      BY <1>2
    <3> QED
      BY <3>1, <3>2, EndsUnrefused
  <2> QED
    BY <2>1, <2>2
<1> QED
  BY <1>1, <1>2

LEMMA ReceivedForCause ==
  ASSUME SessionInv, NEW r \in Requests, Receive(r), req'[r].at = "refused"
  PROVE  ForCause(r)
<1>1. Answered(r, req[r].ans) /\ req[r].at = "answered"
  BY DEF Receive, At
<1>2. req[r].ans = "refused" /\ ~(~req[r].retried /\ Again(req[r].kind, "refused"))
  BY <1>1, AnsweredUnrefused
<1>3. CASE req[r].kind = "lan"
  BY <1>1, <1>2, <1>3, Held DEF Sound, ForCause
<1>4. CASE req[r].kind # "lan"
  <2>1. req[r].kind \in {"forward", "websocket"}
    BY <1>4, Held DEF Entries
  <2>2. Again(req[r].kind, "refused")
    BY <2>1 DEF Again
  <2>3. req[r].retried
    BY <1>2, <2>2
  <2> QED
    BY <1>1, <1>2, <2>3, Held DEF Sound, ForCause
<1> QED
  BY <1>3, <1>4

LEMMA SentUnrefused ==
  ASSUME SessionInv, NEW r \in Requests, Send(r) \/ Lose(r)
  PROVE  req'[r].at # "refused"
<1>1. CASE Answered(r, "unreached") \/ Answered(r, "network")
  BY <1>1, AnsweredUnrefused
<1>2. CASE Becomes(r, [req[r] EXCEPT !.at = "sent", !.base = NoBase])
  <2>1. PICK q \in Entries :
           /\ Becomes(r, q) /\ q.at = "sent"
           /\ q.kind = req[r].kind /\ q.token = req[r].token /\ q.retried = req[r].retried
           /\ q.ran = req[r].ran /\ q.disturbed = req[r].disturbed /\ q.stale = req[r].stale
    BY <1>2, Held, BecomesSent
  <2> QED
    BY <2>1, Held, OneBecomes
<1> QED
  BY <1>1, <1>2 DEF Send, Lose

(* A step along the way leads to another place. *)
LEMMA GoesUnrefused ==
  ASSUME SessionInv, NEW r \in Requests, NEW a \in Places, Goes(r, a), a # "refused"
  PROVE  req'[r].at # "refused"
<1>1. PICK q \in Entries :
         /\ Becomes(r, q) /\ q.at = a
         /\ q.kind = req[r].kind /\ q.token = req[r].token /\ q.retried = req[r].retried
         /\ q.ans = req[r].ans /\ q.ran = req[r].ran /\ q.disturbed = req[r].disturbed
         /\ q.stale = req[r].stale
  BY Held, BecomesAt
<1> QED
  BY <1>1, Held, OneBecomes

LEMMA SendingUnrefused ==
  ASSUME SessionInv, NEW r \in Requests, NEW b \in Bases \union {NoBase}, NEW t \in 0 .. MaxTokens,
         NEW old \in BOOLEAN, Becomes(r, Sending(req[r], b, t, old))
  PROVE  req'[r].at # "refused"
<1>1. PICK q \in Entries :
         /\ Becomes(r, q) /\ q.at = "send" /\ q.token = t
         /\ q.kind = req[r].kind /\ q.retried = req[r].retried
         /\ q.ran = req[r].ran /\ q.disturbed = req[r].disturbed /\ q.stale = old
  BY Held, BecomesSending
<1> QED
  BY <1>1, Held, OneBecomes

LEMMA ShellForCause ==
  ASSUME SessionInv, NEW r \in Requests, Session(r) \/ Pick(r), req'[r].at = "refused"
  PROVE  FALSE
<1>1. base \in Bases \union {NoBase} /\ token \in 0 .. MaxTokens /\ reach \subseteq Bases
      /\ lost \in BOOLEAN
  BY Held DEF Rest
<1>2. PICK b \in Bases \union {NoBase} :
        \/ Becomes(r, Sending(req[r], b, token, lost))
        \/ Goes(r, "pick") \/ Goes(r, "challenge") \/ Done(r, "network")
  BY <1>1 DEF Session, Pick
<1>3. "pick" \in Places /\ "challenge" \in Places
  BY DEF Places
<1> QED
  BY <1>1, <1>2, <1>3, SendingUnrefused, GoesUnrefused, EndsUnrefused

LEMMA ServerForCause ==
  ASSUME SessionInv, NEW r \in Requests, Server(r) \/ LoginLost(r), req'[r].at = "refused"
  PROVE  ForCause(r)
<1>1. CASE Challenge(r)
  <2>1. ~Goes(r, "token")
    BY GoesUnrefused DEF Places
  <2> QED
    BY <1>1, <2>1 DEF Challenge, ActiveDevice, ForCause
<1>2. CASE Token(r)
  <2>1. ~Goes(r, "touch")
    BY GoesUnrefused DEF Places
  <2>2. ~(nonce /\ ActiveDevice) /\ req[r].at = "token"
    BY <1>2, <2>1 DEF Token, At
  <2> QED
    BY <2>2, Held DEF Sound, ActiveDevice, ForCause
<1>3. CASE TokenMade(r)
  <2>1. Fresh \in Unknown
    BY <1>3 DEF TokenMade, Fresh
  <2>2. Fresh \in 0 .. MaxTokens /\ base \in Bases \union {NoBase}
    BY <2>1, Held, NumbersKnown DEF Unknown, Rest
  <2>3. ~Becomes(r, Sending(req[r], base, Fresh, FALSE))
    BY <2>2, SendingUnrefused
  <2>4. Done(r, "network")
    BY <1>3, <2>3 DEF TokenMade, LoginFails
  <2> QED
    BY <2>4, EndsUnrefused
<1>4. CASE Handle(r)
  <2>1. PICK q \in Entries :
         /\ Becomes(r, q) /\ q.at = "answered"
         /\ q.kind = req[r].kind /\ q.retried = req[r].retried /\ q.disturbed = req[r].disturbed
         /\ q.stale = req[r].stale
         /\ \/ req[r].token \in sessions /\ q.ans = "ok" /\ q.ran = req[r].ran + 1
            \/ req[r].token \notin sessions /\ q.ans = "refused" /\ q.ran = req[r].ran
    BY <1>4, Held, BecomesHandled
  <2> QED
    BY <2>1, Held, OneBecomes
<1>5. CASE Close(r) \/ LoginLost(r)
  <2>1. PICK ans \in {"closed", "network"} : Done(r, ans)
    BY <1>5 DEF Close, LoginLost, LoginFails
  <2> QED
    BY <2>1, EndsUnrefused
<1> QED
  BY <1>1, <1>2, <1>3, <1>4, <1>5 DEF Server

\* The steps of one request.
Of(r) == (\E kind \in Kinds[r] : Begin(r, kind)) \/ Shell(r) \/ Server(r) \/ LoginLost(r) \/ Lose(r)

LEMMA OthersStay ==
  ASSUME NEW s \in Requests, Of(s), SessionInv, NEW r \in Requests, r # s
  PROVE  req'[r] = req[r]
<1>1. \E q : Becomes(s, q)
  <2>1. CASE \E kind \in Kinds[s] : Begin(s, kind)
    BY <2>1 DEF Begin
  <2>2. CASE Shell(s) \/ Lose(s)
    BY <2>2 DEF Shell, Session, Pick, Send, Receive, Lose, Answered, Invalidated, Done, Goes
  <2>3. CASE Server(s) \/ LoginLost(s)
    BY <2>3 DEF Server, Challenge, Token, TokenMade, Handle, Close, LoginLost, LoginFails, Done, Goes
  <2> QED
    BY <2>1, <2>2, <2>3 DEF Of
<1> QED
  BY <1>1, Held DEF Becomes

(* A request of any kind is refused only for a reason of its own: the device  *)
(* is revoked, the server lost the token or the challenge of this request on *)
(* its way, or, for a call to the pairing port, the server has been restarted *)
(* since it made the token the request took.                                *)
THEOREM RefusalHasCause == Spec => RefusedForCause
<1>1. ASSUME SessionInv, [Next]_vars, NEW r \in Requests, Refused(r)
      PROVE  ForCause(r)
  <2>1. req'[r].at = "refused" /\ req[r].at \notin {"done", "refused"}
    BY <1>1 DEF Refused, At, Underway
  <2>2. ASSUME NEW s \in Requests, Of(s) PROVE ForCause(r)
    <3>1. s = r
      BY <1>1, <2>1, <2>2, OthersStay
    <3>2. ~(\E kind \in Kinds[r] : Begin(r, kind))
      BY <2>1 DEF Begin, Underway
    <3>3. Shell(r) \/ Server(r) \/ LoginLost(r) \/ Lose(r)
      BY <2>2, <3>1, <3>2 DEF Of
    <3> QED
      BY <1>1, <2>1, <3>3, ShellForCause, SentUnrefused, ReceivedForCause, ServerForCause DEF Shell
  <2>3. ASSUME NEW R, req' = Disturb(R) PROVE FALSE
    BY <1>1, <2>1, <2>3, TypeSplit, AllDisturbed DEF SessionInv
  <2>4. CASE Restart \/ NonceExpires \/ \E t \in sessions : Expire(t)
    BY <2>3, <2>4 DEF Restart, NonceExpires, Expire
  <2>5. CASE Revoke \/ EndSessions \/ Ages \/ NetworkChanges \/ UNCHANGED vars
    BY <2>1, <2>5 DEF Revoke, EndSessions, Ages, NetworkChanges, vars
  <2> QED
    BY <1>1, <2>2, <2>4, <2>5 DEF Next, Of
<1>2. SessionInv /\ [Next]_vars
        => (\A r \in Requests : Refused(r) => ForCause(r))
  BY <1>1
<1> QED
  BY <1>2, InvHolds, PTL DEF Spec, RefusedForCause
=============================================================================
