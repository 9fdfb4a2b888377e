------------------------------ MODULE DownloadList ------------------------------
(***************************************************************************)
(* What the download list promises the user about each request, whatever    *)
(* the core, its plugins and its restarts do behind it: an entry may say    *)
(* that its link is being resolved and ends as sent or as an error; an      *)
(* error, which asks the user to send the link again, never turns into a    *)
(* running download; a hidden entry stays hidden.                           *)
(***************************************************************************)
CONSTANT Reqs      \* requests

VARIABLE shown     \* what the list shows of each

States == {"nothing", "resolving", "sent", "error", "hidden"}

Init == shown = [r \in Reqs |-> "nothing"]

Shows(r, from, to) ==
  /\ shown[r] \in from /\ shown' = [shown EXCEPT ![r] = to]

Appears(r)  == Shows(r, {"nothing"}, "resolving") \/ Shows(r, {"nothing"}, "sent")
Succeeds(r) == Shows(r, {"resolving"}, "sent")

\* Entries left behind by a restart are given up together.
Fails(S) ==
  /\ \A r \in S : shown[r] = "resolving"
  /\ shown' = [r \in Reqs |-> IF r \in S THEN "error" ELSE shown[r]]

\* One entry is dismissed, or all that are done are cleared.
Hides(S) ==
  /\ \A r \in S : shown[r] # "nothing"
  /\ shown' = [r \in Reqs |-> IF r \in S THEN "hidden" ELSE shown[r]]

Next ==
  \/ \E r \in Reqs : Appears(r) \/ Succeeds(r)
  \/ \E S \in SUBSET Reqs : Fails(S) \/ Hides(S)

Spec == Init /\ [][Next]_shown
=============================================================================
