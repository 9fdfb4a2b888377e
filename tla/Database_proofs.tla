---------------------------- MODULE Database_proofs ----------------------------
(***************************************************************************)
(* Proofs about the database for all values of the constants.               *)
(*                                                                         *)
(* Of Catalog, for every number of folders, AniDB ids, actors and rows: the *)
(* type invariant, the foreign keys, and that the duplicate flags of an id  *)
(* are derived unless the id waits for its recomputation.                   *)
(*                                                                         *)
(* Of PendingCount, for every library, every number of entries, files and   *)
(* requests, every TTL and every number of changes: the type invariant, the *)
(* badge's answers and its cache, that the views agree, and that two rounds *)
(* of renaming settle an entry.                                             *)
(***************************************************************************)
EXTENDS Catalog, PendingCount, FiniteSetTheorems, WellFoundedInduction, TLAPS

(* Catalog *)

(* The records of the module have their types. *)
LEMMA RecordTypes ==
  /\ NoFlags \in Flags
  /\ NoRow \in Row
  /\ Idle \in Op
BY CatalogAssumption DEF NoFlags, NoRow, Idle, Flags, Row, Op, Folder, Aid, Ids

(* The columns an UPDATE leaves are well typed. *)
LEMMA MergedType ==
  ASSUME NEW t \in Flags, NEW s \in Flags, NEW n \in Flags
  PROVE  Merged(t, s, n) \in Flags
BY DEF Merged, Flags

(* The flags recompute_duplicate_flags computes are well typed. *)
LEMMA TargetType ==
  ASSUME NEW p \in 0..MaxRows, NEW r \in Ids
  PROVE  Target(p, r) \in Flags
BY CatalogAssumption DEF Target, Flags, Ids

(* What follows a step of an operation is an operation. *)
LEMMA ThenType ==
  ASSUME NEW o \in Op, NEW now \in Aid, NEW later \in Aid
  PROVE  Then(o, now, later) \in Op
BY RecordTypes DEF Then, Op

(* An actor's next operation leaves the operations well typed. *)
LEMMA BecomesType ==
  ASSUME op \in [Actors -> Op], NEW x \in Actors, NEW o \in Op, Becomes(x, o)
  PROVE  op' \in [Actors -> Op]
BY DEF Becomes

(* Ids are rows' ids and counts. *)
LEMMA IdsAreCounts == Ids \cup {0} = 0..MaxRows
BY CatalogAssumption DEF Ids

(* A failing operation keeps every type. *)
LEMMA FailType ==
  ASSUME TypeOK, NEW x \in Actors, Fail(x), UNCHANGED ops
  PROVE  TypeOK'
<1>1. op' \in [Actors -> Op]
  BY RecordTypes, BecomesType DEF Fail, TypeOK
<1>2. torn' \subseteq Aids
  BY DEF Fail, TypeOK
<1> QED
  BY <1>1, <1>2 DEF Fail, TypeOK

(* Every variable keeps its type. *)
LEMMA TypeStep ==
  ASSUME TypeOK, [Next]_vars
  PROVE  TypeOK'
<1> USE DEF TypeOK
<1>1. ASSUME NEW x \in Actors, Answer(x), UNCHANGED ops PROVE TypeOK'
  <2>1. ASSUME Becomes(x, Idle) PROVE op' \in [Actors -> Op]
    BY <2>1, RecordTypes, BecomesType
  <2>2. ASSUME NEW a \in Aids, NEW other \in Ids \cup {0},
               Becomes(x, [op[x] EXCEPT !.pc = "apply", !.aid = a, !.other = other])
        PROVE  op' \in [Actors -> Op]
    <3>1. op[x] \in Op /\ a \in Aid /\ other \in 0..MaxRows
      BY IdsAreCounts DEF Aid
    <3>2. [op[x] EXCEPT !.pc = "apply", !.aid = a, !.other = other] \in Op
      BY <3>1 DEF Op
    <3> QED
      BY <2>2, <3>2, BecomesType
  <2> QED
    BY <1>1, <2>1, <2>2 DEF Answer
<1>2. ASSUME NEW x \in Actors, Apply(x), UNCHANGED ops PROVE TypeOK'
  <2> DEFINE o == op[x]
             r == o.row
             target == [flag |-> o.other # 0, dup |-> o.other]
             aid == IF o.aid # o.prev THEN o.aid ELSE rows[r].aid
             flags == Merged(target, o.mine, rows[r].flags)
             done == Then([o EXCEPT !.mine = flags], o.aid, Later(o))
  <2>1. CASE Fail(x)
    BY <1>2, <2>1, FailType
  <2>2. CASE /\ r \in Live
             /\ rows' = [rows EXCEPT ![r].aid = aid, ![r].flags = flags]
             /\ Becomes(x, done)
             /\ due' = due \cup ({o.aid, rows[r].aid} \ {NoAid})
             /\ torn' = torn \cup ({rows[r].aid} \ {o.aid, o.prev, NoAid})
             /\ UNCHANGED <<folders, watched>>
    <3>1. o \in Op /\ r \in Ids /\ rows[r] \in Row
      BY <2>2 DEF Live
    <3>2. target \in Flags /\ aid \in Aid /\ Later(o) \in Aid /\ o.aid \in Aid
      BY <3>1 DEF Op, Row, Flags, Later, Aid
    <3>3. flags \in Flags
      BY <3>1, <3>2, MergedType DEF Op, Row
    <3>4. [o EXCEPT !.mine = flags] \in Op
      BY <3>1, <3>3 DEF Op
    <3>5. op' \in [Actors -> Op]
      BY <2>2, <3>2, <3>4, ThenType, BecomesType
    <3>6. rows' \in [Ids -> Row]
      BY <2>2, <3>1, <3>2, <3>3 DEF Row
    <3>7. due' \subseteq Aids /\ torn' \subseteq Aids
      BY <2>2, <3>1 DEF Op, Row, Aid
    <3> QED
      BY <1>2, <2>2, <3>5, <3>6, <3>7
  <2> QED
    BY <1>2, <2>1, <2>2 DEF Apply
<1>3. ASSUME NEW x \in Actors, ReadGroup(x), UNCHANGED ops PROVE TypeOK'
  <2> DEFINE o == op[x]
             g == Group(o.now)
             seen == [r \in Ids |-> IF r \notin g THEN NoFlags
                                    ELSE IF r = o.row THEN o.mine ELSE rows[r].flags]
  <2>1. o \in Op
    OBVIOUS
  <2>2. g \subseteq Ids
    BY DEF Group, Live
  <2>3. seen \in [Ids -> Flags]
    BY <2>1, RecordTypes DEF Op, Row
  <2>4. [o EXCEPT !.pc = "write", !.group = g, !.seen = seen] \in Op
    BY <2>1, <2>2, <2>3 DEF Op
  <2>5. op' \in [Actors -> Op]
    BY <1>3, <2>4, BecomesType DEF ReadGroup
  <2> QED
    BY <1>3, <2>5 DEF ReadGroup
<1>4. ASSUME NEW x \in Actors, WriteGroup(x), UNCHANGED ops PROVE TypeOK'
  <2> DEFINE o == op[x]
             target(p) == [r \in Ids |-> Target(p, r)]
             changed(p) == {r \in Rewritten(o.group, p) : target(p)[r] # o.seen[r]}
             mine(p) == IF o.row \in o.group THEN target(p)[o.row] ELSE o.mine
             hit(p) == ({rows[r].aid : r \in changed(p)} \cup {o.now}) \ {NoAid}
  <2>1. CASE Fail(x)
    BY <1>4, <2>1, FailType
  <2>2. ASSUME NEW p \in Ids \cup {0},
               rows' = [r \in Ids |->
                          IF r \in changed(p)
                            THEN [rows[r] EXCEPT !.flags = Merged(target(p)[r], o.seen[r], rows[r].flags)]
                            ELSE rows[r]],
               Becomes(x, Then([o EXCEPT !.mine = mine(p)], NoAid, o.later)),
               IF Undisturbed(o)
                 THEN due' = due \ {o.now} /\ torn' = torn \ {o.now}
                 ELSE due' = due \cup hit(p) /\ torn' = torn \cup hit(p),
               UNCHANGED <<folders, watched>>
        PROVE  TypeOK'
    <3>1. o \in Op /\ o.group \subseteq Ids /\ changed(p) \subseteq Ids
      BY DEF Op, Rewritten
    <3>2. \A r \in Ids : target(p)[r] \in Flags /\ o.seen[r] \in Flags
      BY <3>1, IdsAreCounts, TargetType DEF Op
    <3>3. mine(p) \in Flags
      BY <3>1, <3>2 DEF Op
    <3>4. [o EXCEPT !.mine = mine(p)] \in Op /\ NoAid \in Aid /\ o.later \in Aid
      BY <3>1, <3>3 DEF Op, Aid
    <3>5. op' \in [Actors -> Op]
      BY <2>2, <3>4, ThenType, BecomesType
    <3>6. \A r \in Ids : Merged(target(p)[r], o.seen[r], rows[r].flags) \in Flags
      BY <3>2, MergedType DEF Row
    <3>7. rows' \in [Ids -> Row]
      BY <2>2, <3>6 DEF Row
    <3>8. hit(p) \subseteq Aids
      <4>1. \A r \in changed(p) : rows[r].aid \in Aid
        BY <3>1 DEF Row
      <4>2. o.now \in Aid
        BY <3>1 DEF Op
      <4> HIDE DEF changed
      <4> QED
        BY <4>1, <4>2 DEF Aid
    <3> QED
      BY <1>4, <2>2, <3>5, <3>7, <3>8
  <2> QED
    BY <1>4, <2>1, <2>2 DEF WriteGroup
<1>5. ASSUME NEW x \in Actors, Remove(x), UNCHANGED ops PROVE TypeOK'
  <2> DEFINE o == op[x]
  <2>1. o \in Op /\ [o EXCEPT !.row = 0] \in Op /\ o.prev \in Aid /\ NoAid \in Aid
    BY CatalogAssumption DEF Op, Aid
  <2>2. op' \in [Actors -> Op]
    BY <1>5, <2>1, ThenType, BecomesType DEF Remove
  <2>3. rows' \in [Ids -> Row]
    BY <1>5, RecordTypes DEF Remove, Row
  <2>4. due' \subseteq Aids /\ torn' \subseteq Aids
    BY <1>5, <2>1 DEF Remove, Row, Aid, Live
  <2> QED
    BY <1>5, <2>2, <2>3, <2>4 DEF Remove
<1>6. ASSUME NEW x \in Actors, DropFolder(x), UNCHANGED ops PROVE TypeOK'
  <2>1. op' \in [Actors -> Op]
    BY <1>6, RecordTypes, BecomesType DEF DropFolder
  <2>2. rows' \in [Ids -> Row] /\ folders' \subseteq Folders
    BY <1>6, RecordTypes DEF DropFolder
  <2> QED
    BY <1>6, <2>1, <2>2 DEF DropFolder
<1>7. ASSUME NEW x \in Actors, NEW r \in Ids, LoadForIdentify(x, r) PROVE TypeOK'
  <2>1. [Idle EXCEPT !.pc = "fetch", !.row = r, !.prev = rows[r].aid, !.mine = rows[r].flags] \in Op
    BY RecordTypes, IdsAreCounts DEF Op, Row
  <2>2. op' \in [Actors -> Op]
    BY <1>7, <2>1, BecomesType DEF LoadForIdentify, Begin
  <2> QED
    BY <1>7, <2>2, CatalogAssumption DEF LoadForIdentify, Begin
<1>8. ASSUME NEW x \in Actors, NEW r \in Ids, LoadForDelete(x, r) PROVE TypeOK'
  <2>1. [Idle EXCEPT !.pc = "remove", !.row = r, !.prev = rows[r].aid] \in Op
    BY RecordTypes, IdsAreCounts DEF Op, Row
  <2>2. op' \in [Actors -> Op]
    BY <1>8, <2>1, BecomesType DEF LoadForDelete, Begin
  <2> QED
    BY <1>8, <2>2, CatalogAssumption DEF LoadForDelete, Begin
<1>9. ASSUME NEW x \in Actors, NEW f \in Folders, LoadFolder(x, f) PROVE TypeOK'
  <2>1. [Idle EXCEPT !.pc = "drop", !.folder = f, !.group = InFolder(f)] \in Op
    BY RecordTypes DEF Op, Folder, InFolder, Live
  <2>2. op' \in [Actors -> Op]
    BY <1>9, <2>1, BecomesType DEF LoadFolder, Begin
  <2> QED
    BY <1>9, <2>2, CatalogAssumption DEF LoadFolder, Begin
<1>10. ASSUME NEW f \in Folders, CreatePending(f) PROVE TypeOK'
  <2>1. [NoRow EXCEPT !.live = TRUE, !.folder = f] \in Row
    BY RecordTypes DEF Row, Folder
  <2> QED
    BY <1>10, <2>1 DEF CreatePending
<1>11. ASSUME NEW f \in Folders, AddFolder(f) PROVE TypeOK'
  BY <1>11 DEF AddFolder
<1>12. CASE Restart
  BY <1>12, RecordTypes DEF Restart
<1>13. CASE UNCHANGED vars
  BY <1>13 DEF vars
<1> QED
  BY <1>1, <1>2, <1>3, <1>4, <1>5, <1>6, <1>7, <1>8, <1>9, <1>10, <1>11, <1>12, <1>13
     DEF Next, Step, Request

(* Every variable of the catalogue has its type in every reachable state. *)
THEOREM TypeCorrect == Spec => []TypeOK
<1>1. Init => TypeOK
  BY RecordTypes, CatalogAssumption DEF Init, TypeOK
<1>2. TypeOK /\ [Next]_vars => TypeOK'
  BY TypeStep
<1> QED
  BY <1>1, <1>2, PTL DEF Spec
-----------------------------------------------------------------------------
(* The inductive invariant: the three properties, the types, and that an
   operation that goes by a row, or writes an id, has one. *)
OpsKnown ==
  \A x \in Actors :
    /\ op[x].pc \in {"fetch", "apply", "remove"} => op[x].row \in Ids
    /\ op[x].pc = "apply" => op[x].aid \in Aids

IInv == TypeOK /\ OpsKnown /\ ForeignKeys /\ DerivedUnlessDue /\ DueIsInHand

(* What follows an operation's step is not a row-holding position, and keeps
   the recomputations it was given in hand. *)
LEMMA ThenInHand ==
  ASSUME NEW o, NEW now, NEW later
  PROVE  /\ Then(o, now, later).pc \in {"idle", "read"}
         /\ InHand(Then(o, now, later)) = {now, later} \ {NoAid}
BY DEF Then, InHand, Idle

(* An actor's step changes its own operation only. *)
LEMMA OthersKeepTheirs ==
  ASSUME op \in [Actors -> Op], NEW x \in Actors, NEW o, Becomes(x, o)
  PROVE  op'[x] = o /\ \A y \in Actors \ {x} : op'[y] = op[y]
BY DEF Becomes

(* The positions of operations stay known. *)
LEMMA OpsKnownStep ==
  ASSUME TypeOK, OpsKnown, [Next]_vars
  PROVE  OpsKnown'
<1> USE DEF OpsKnown
<1>0. op \in [Actors -> Op]
  BY DEF TypeOK
<1>1. ASSUME NEW x \in Actors, NEW o, Becomes(x, o),
             o.pc \in {"fetch", "apply", "remove"} => o.row \in Ids,
             o.pc = "apply" => o.aid \in Aids
      PROVE  OpsKnown'
  BY <1>0, <1>1, OthersKeepTheirs
<1>2. Idle.pc = "idle"
  BY DEF Idle
<1>3. ASSUME NEW x \in Actors, Answer(x) PROVE OpsKnown'
  <2>1. op[x] \in Op /\ op[x].pc = "fetch" /\ op[x].row \in Ids
    BY <1>0, <1>3 DEF Answer
  <2>2. ASSUME NEW a \in Aids, NEW other \in Ids \cup {0},
               Becomes(x, [op[x] EXCEPT !.pc = "apply", !.aid = a, !.other = other])
        PROVE  OpsKnown'
    <3> DEFINE o == [op[x] EXCEPT !.pc = "apply", !.aid = a, !.other = other]
    <3>1. o.row = op[x].row /\ o.aid = a
      BY <2>1 DEF Op
    <3> QED
      BY <1>1, <2>1, <2>2, <3>1
  <2>3. CASE Becomes(x, Idle)
    BY <1>1, <1>2, <2>3
  <2> QED
    BY <1>3, <2>2, <2>3 DEF Answer
<1>4. ASSUME NEW x \in Actors, Fail(x) \/ DropFolder(x) PROVE OpsKnown'
  BY <1>1, <1>2, <1>4 DEF Fail, DropFolder
<1>5. ASSUME NEW x \in Actors, Apply(x) PROVE OpsKnown'
  BY <1>1, <1>4, <1>5, ThenInHand DEF Apply
<1>6. ASSUME NEW x \in Actors, ReadGroup(x) PROVE OpsKnown'
  <2> DEFINE g == Group(op[x].now)
             seen == [r \in Ids |-> IF r \notin g THEN NoFlags
                                    ELSE IF r = op[x].row THEN op[x].mine ELSE rows[r].flags]
             o == [op[x] EXCEPT !.pc = "write", !.group = g, !.seen = seen]
  <2>1. o.pc = "write" /\ Becomes(x, o)
    BY <1>0, <1>6 DEF ReadGroup, Op
  <2> QED
    BY <1>1, <2>1
<1>7. ASSUME NEW x \in Actors, WriteGroup(x) PROVE OpsKnown'
  BY <1>1, <1>4, <1>7, ThenInHand DEF WriteGroup
<1>8. ASSUME NEW x \in Actors, Remove(x) PROVE OpsKnown'
  BY <1>1, <1>8, ThenInHand DEF Remove
<1>9. ASSUME NEW x \in Actors, NEW r \in Ids, LoadForIdentify(x, r) \/ LoadForDelete(x, r)
      PROVE  OpsKnown'
  BY <1>1, <1>9 DEF LoadForIdentify, LoadForDelete, Begin, Idle
<1>10. ASSUME NEW x \in Actors, NEW f \in Folders, LoadFolder(x, f) PROVE OpsKnown'
  BY <1>1, <1>10 DEF LoadFolder, Begin, Idle
<1>11. CASE \E f \in Folders : CreatePending(f) \/ AddFolder(f)
  BY <1>11 DEF CreatePending, AddFolder
<1>12. CASE Restart
  BY <1>2, <1>12 DEF Restart
<1>13. CASE UNCHANGED vars
  BY <1>13 DEF vars
<1> QED
  BY <1>3, <1>4, <1>5, <1>6, <1>7, <1>8, <1>9, <1>10, <1>11, <1>12, <1>13 DEF Next, Step, Request
-----------------------------------------------------------------------------
(* An UPDATE the foreign key accepts leaves a reference to a row that exists. *)
LEMMA MergedReference ==
  ASSUME NEW t, NEW s, NEW n, Writable(t, s), n.dup \in Live \cup {0}
  PROVE  Merged(t, s, n).dup \in Live \cup {0}
BY DEF Writable, Merged

(* Rows that keep their folder, and whose references are to rows that exist,
   satisfy the foreign keys if no row went. *)
LEMMA SameRowsKeepKeys ==
  ASSUME ForeignKeys, folders' = folders,
         Live' = Live,
         \A r \in Live : rows'[r].folder = rows[r].folder,
         \A r \in Live : rows'[r].flags.dup \in Live \cup {0}
  PROVE  ForeignKeys'
BY DEF ForeignKeys

(* A failing operation writes no row. *)
LEMMA FailKeepsRows ==
  ASSUME NEW x \in Actors, Fail(x)
  PROVE  UNCHANGED <<folders, rows>>
BY DEF Fail

(* The foreign keys hold after every step. *)
LEMMA ForeignKeysStep ==
  ASSUME TypeOK, ForeignKeys, [Next]_vars
  PROVE  ForeignKeys'
<1> USE DEF TypeOK
<1>1. ASSUME UNCHANGED <<folders, rows>> PROVE ForeignKeys'
  BY <1>1 DEF ForeignKeys, Live
<1>2. ASSUME NEW x \in Actors, Apply(x) PROVE ForeignKeys'
  <2> DEFINE o == op[x]
             r == o.row
             target == [flag |-> o.other # 0, dup |-> o.other]
             aid == IF o.aid # o.prev THEN o.aid ELSE rows[r].aid
             flags == Merged(target, o.mine, rows[r].flags)
  <2>1. CASE Fail(x)
    BY <1>1, <2>1, FailKeepsRows
  <2>2. CASE /\ r \in Live /\ Writable(target, o.mine)
             /\ rows' = [rows EXCEPT ![r].aid = aid, ![r].flags = flags]
             /\ folders' = folders
    <3>1. r \in Ids /\ rows[r] \in Row
      BY <2>2 DEF Live
    <3>2. flags.dup \in Live \cup {0}
      BY <2>2, MergedReference DEF ForeignKeys
    <3>3. rows' = [rows EXCEPT ![r] = [rows[r] EXCEPT !.aid = aid, !.flags = flags]]
      BY <2>2, <3>1
    <3>4. \A q \in Ids : /\ rows'[q].live = rows[q].live /\ rows'[q].folder = rows[q].folder
                         /\ rows'[q].flags = IF q = r THEN flags ELSE rows[q].flags
      BY <3>1, <3>3 DEF Row
    <3>5. Live' = Live
      BY <3>4 DEF Live
    <3>6. \A q \in Live : rows'[q].flags.dup \in Live \cup {0} /\ rows'[q].folder = rows[q].folder
      BY <3>2, <3>4 DEF ForeignKeys, Live
    <3> QED
      BY <2>2, <3>5, <3>6, SameRowsKeepKeys
  <2> QED
    BY <1>2, <2>1, <2>2 DEF Apply
<1>3. ASSUME NEW x \in Actors, WriteGroup(x) PROVE ForeignKeys'
  <2> DEFINE o == op[x]
             target(p) == [r \in Ids |-> Target(p, r)]
             changed(p) == {r \in Rewritten(o.group, p) : target(p)[r] # o.seen[r]}
             flags(p, r) == Merged(target(p)[r], o.seen[r], rows[r].flags)
  <2>1. CASE Fail(x)
    BY <1>1, <2>1 DEF Fail
  <2>2. ASSUME NEW p \in Ids \cup {0},
               changed(p) \subseteq Live,
               \A r \in changed(p) : Writable(target(p)[r], o.seen[r]),
               rows' = [r \in Ids |-> IF r \in changed(p)
                                        THEN [rows[r] EXCEPT !.flags = flags(p, r)] ELSE rows[r]],
               folders' = folders
        PROVE  ForeignKeys'
    <3>1. \A r \in changed(p) : flags(p, r).dup \in Live \cup {0}
      BY <2>2, MergedReference DEF ForeignKeys
    <3>2. \A r \in Ids : /\ rows'[r].live = rows[r].live /\ rows'[r].folder = rows[r].folder
                         /\ rows'[r].flags = IF r \in changed(p) THEN flags(p, r) ELSE rows[r].flags
      BY <2>2 DEF Row
    <3> HIDE DEF changed, flags
    <3> QED
      BY <2>2, <3>1, <3>2, SameRowsKeepKeys DEF ForeignKeys, Live
  <2> QED
    BY <1>3, <2>1, <2>2 DEF WriteGroup
<1>4. ASSUME NEW x \in Actors, Remove(x) PROVE ForeignKeys'
  <2> DEFINE r == op[x].row
  <2>1. \A q \in Ids : rows'[q] = IF q = r THEN NoRow
                                  ELSE IF q \in Live /\ rows[q].flags.dup = r
                                         THEN [rows[q] EXCEPT !.flags = NoFlags] ELSE rows[q]
    BY <1>4 DEF Remove
  <2>4. \A q \in Ids \ {r} :
          /\ rows'[q].live = rows[q].live /\ rows'[q].folder = rows[q].folder
          /\ rows'[q].flags = IF q \in Live /\ rows[q].flags.dup = r THEN NoFlags ELSE rows[q].flags
    BY <2>1 DEF Row
  <2>6. NoRow.live = FALSE
    BY DEF NoRow
  <2>5. r \in Ids => rows'[r].live = FALSE
    BY <2>1, <2>6
  <2>2. Live' = Live \ {r}
    BY <2>4, <2>5 DEF Live
  <2>3. ASSUME NEW q \in Live \ {r}
        PROVE  /\ rows'[q].folder = rows[q].folder
               /\ rows'[q].flags.dup \in (Live \ {r}) \cup {0}
    <3>1. q \in Ids \ {r}
      BY DEF Live
    <3>2. rows[q].flags.dup \in Live \cup {0}
      BY DEF ForeignKeys
    <3>3. NoFlags.dup = 0
      BY DEF NoFlags
    <3> QED
      BY <2>4, <3>1, <3>2, <3>3
  <2>7. folders' = folders
    BY <1>4, Zenon DEF Remove
  <2>8. \A q \in Live : rows[q].folder \in folders
    BY DEF ForeignKeys
  <2> HIDE DEF r
  <2> QED
    BY <2>2, <2>3, <2>7, <2>8 DEF ForeignKeys
<1>5. ASSUME NEW x \in Actors, DropFolder(x) PROVE ForeignKeys'
  <2> DEFINE o == op[x]
  <2>1. CASE UNCHANGED <<folders, rows>>
    BY <1>1, <2>1
  <2>2. CASE /\ Droppable(o)
             /\ rows' = [q \in Ids |-> IF q \in o.group THEN NoRow ELSE rows[q]]
             /\ folders' = folders \ {o.folder}
    <3>1. Live' = Live \ o.group
      BY <2>2 DEF Live, NoRow
    <3>2. \A q \in Live' : rows'[q] = rows[q]
      BY <2>2, <3>1 DEF Live
    <3> QED
      BY <2>2, <3>1, <3>2 DEF ForeignKeys, Droppable
  <2> QED
    BY <1>5, <2>1, <2>2 DEF DropFolder
<1>6. ASSUME NEW f \in Folders, CreatePending(f) PROVE ForeignKeys'
  <2>1. PICK r \in Ids : /\ IsNextId(r)
                        /\ rows' = [rows EXCEPT ![r] = [NoRow EXCEPT !.live = TRUE, !.folder = f]]
    BY <1>6 DEF CreatePending
  <2>2. rows'[r].live /\ rows'[r].folder = f /\ rows'[r].flags.dup = 0
    BY <2>1 DEF NoRow, NoFlags
  <2>3. \A q \in Ids \ {r} : rows'[q] = rows[q]
    BY <2>1
  <2>4. Live' = Live \cup {r}
    BY <2>2, <2>3 DEF Live
  <2>5. f \in folders /\ folders' = folders
    BY <1>6 DEF CreatePending
  <2> QED
    BY <2>2, <2>3, <2>4, <2>5 DEF ForeignKeys, Live
<1>7. ASSUME NEW f \in Folders, AddFolder(f) PROVE ForeignKeys'
  BY <1>7 DEF AddFolder, ForeignKeys, Live
<1>8. ASSUME NEW x \in Actors, Answer(x) \/ ReadGroup(x) PROVE ForeignKeys'
  BY <1>1, <1>8 DEF Answer, ReadGroup
<1>9. CASE \E x \in Actors : Request(x)
  BY <1>1, <1>9 DEF Request, LoadForIdentify, LoadForDelete, LoadFolder
<1>10. CASE Restart \/ UNCHANGED vars
  BY <1>1, <1>10 DEF Restart, vars
<1> QED
  BY <1>2, <1>3, <1>4, <1>5, <1>6, <1>7, <1>8, <1>9, <1>10 DEF Next, Step

-----------------------------------------------------------------------------
(* An UPDATE of a row nobody touched since it was loaded writes the target. *)
LEMMA MergedUndisturbed ==
  ASSUME NEW t \in Flags, NEW s \in Flags
  PROVE  Merged(t, s, s) = t
BY DEF Merged, Flags

(* A group whose members and flags stay keeps its derived flags. *)
LEMMA SameGroupStaysDerived ==
  ASSUME NEW a, Derived(a), Group(a)' = Group(a),
         \A r \in Group(a) : rows'[r].flags = rows[r].flags
  PROVE  Derived(a)'
BY DEF Derived, First, Target

(* A step that changes no row and clears no due id keeps the property. *)
LEMMA SameRowsStayDerived ==
  ASSUME DerivedUnlessDue, rows' = rows, due \subseteq due'
  PROVE  DerivedUnlessDue'
<1> SUFFICES ASSUME NEW a \in Aids, a \notin due' PROVE Derived(a)'
  BY DEF DerivedUnlessDue
<1>1. Derived(a) /\ Group(a)' = Group(a)
  BY DEF DerivedUnlessDue, Group, Live
<1> QED
  BY <1>1, SameGroupStaysDerived DEF Group

(* An identification touches only the groups it makes due. *)
LEMMA ApplyKeepsDerived ==
  ASSUME TypeOK, DerivedUnlessDue, NEW x \in Actors, Apply(x)
  PROVE  DerivedUnlessDue'
<1> DEFINE o == op[x]
           r == o.row
           target == [flag |-> o.other # 0, dup |-> o.other]
           aid == IF o.aid # o.prev THEN o.aid ELSE rows[r].aid
           flags == Merged(target, o.mine, rows[r].flags)
<1>1. CASE Fail(x)
  BY <1>1, SameRowsStayDerived DEF Fail
<1>2. CASE /\ r \in Live
           /\ rows' = [rows EXCEPT ![r].aid = aid, ![r].flags = flags]
           /\ due' = due \cup ({o.aid, rows[r].aid} \ {NoAid})
  <2>1. r \in Ids /\ rows[r] \in Row
    BY <1>2 DEF Live, TypeOK
  <2>2. rows'[r].aid = aid /\ \A q \in Ids \ {r} : rows'[q] = rows[q]
    BY <1>2, <2>1 DEF TypeOK, Row
  <2>3. ASSUME NEW a \in Aids, a \notin due' PROVE Derived(a)'
    <3>1. a # aid /\ a # rows[r].aid /\ a \notin due
      BY <1>2, <2>3, CatalogAssumption
    <3>2. r \notin Group(a) /\ r \notin Group(a)'
      BY <2>2, <3>1 DEF Group
    <3>3. Group(a)' = Group(a)
      BY <2>2, <3>2 DEF Group, Live
    <3>4. \A q \in Group(a) : rows'[q].flags = rows[q].flags
      BY <2>2, <3>2 DEF Group, Live
    <3> QED
      BY <3>1, <3>3, <3>4, SameGroupStaysDerived DEF DerivedUnlessDue
  <2> QED
    BY <2>3 DEF DerivedUnlessDue
<1> QED
  BY <1>1, <1>2 DEF Apply

(* A recomputation derives its group if nothing touched it since it was read,
   and makes every group it writes to due if something did. *)
LEMMA WriteKeepsDerived ==
  ASSUME TypeOK, DerivedUnlessDue, NEW x \in Actors, WriteGroup(x)
  PROVE  DerivedUnlessDue'
<1> DEFINE o == op[x]
           target(p) == [r \in Ids |-> Target(p, r)]
           changed(p) == {r \in Rewritten(o.group, p) : target(p)[r] # o.seen[r]}
           flags(p, r) == Merged(target(p)[r], o.seen[r], rows[r].flags)
           hit(p) == ({rows[r].aid : r \in changed(p)} \cup {o.now}) \ {NoAid}
<1>1. CASE Fail(x)
  BY <1>1, SameRowsStayDerived DEF Fail
<1>2. ASSUME NEW p \in Ids \cup {0},
             IF o.group = {} THEN p = 0 ELSE First(o.group, p),
             rows' = [r \in Ids |-> IF r \in changed(p)
                                      THEN [rows[r] EXCEPT !.flags = flags(p, r)] ELSE rows[r]],
             IF Undisturbed(o) THEN due' = due \ {o.now} ELSE due' = due \cup hit(p)
      PROVE  DerivedUnlessDue'
  <2>1. o \in Op /\ o.group \subseteq Ids /\ changed(p) \subseteq o.group
    BY DEF TypeOK, Op, Rewritten
  <2>2. \A r \in Ids : /\ rows'[r].live = rows[r].live /\ rows'[r].aid = rows[r].aid
                       /\ rows'[r].flags = IF r \in changed(p) THEN flags(p, r) ELSE rows[r].flags
    BY <1>2 DEF TypeOK, Row
  <2>3. \A a : Group(a)' = Group(a)
    BY <2>2 DEF Group, Live
  <2>4. ASSUME NEW a \in Aids, a \notin due, \A r \in changed(p) : r \notin Group(a)
        PROVE  Derived(a)'
    <3>1. \A r \in Group(a) : rows'[r].flags = rows[r].flags
      BY <2>2, <2>4 DEF Group, Live
    <3> QED
      BY <2>3, <2>4, <3>1, SameGroupStaysDerived DEF DerivedUnlessDue
  <2>5. CASE ~Undisturbed(o)
    <3>1. ASSUME NEW a \in Aids, a \notin due' PROVE Derived(a)'
      <4>1. a \notin due /\ a \notin hit(p)
        BY <1>2, <2>5, <3>1
      <4>2. \A r \in changed(p) : rows[r].aid # a
        BY <4>1, CatalogAssumption
      <4> QED
        BY <2>4, <4>1, <4>2 DEF Group
    <3> QED
      BY <3>1 DEF DerivedUnlessDue
  <2>6. CASE Undisturbed(o)
    <3>1. o.group = Group(o.now) /\ \A r \in o.group : o.seen[r] = rows[r].flags
      BY <2>6 DEF Undisturbed
    <3>2. ASSUME NEW a \in Aids, a \notin due', a # o.now PROVE Derived(a)'
      <4>1. a \notin due
        BY <1>2, <2>6, <3>2
      <4>2. \A r \in changed(p) : r \notin Group(a)
        BY <2>1, <3>1, <3>2 DEF Group
      <4> QED
        BY <2>4, <4>1, <4>2
    <3>3. \A r \in o.group : rows'[r].flags = Target(p, r)
      <4>1. TAKE r \in o.group
      <4>2. r \in Ids /\ target(p)[r] = Target(p, r) /\ o.seen[r] = rows[r].flags
        BY <2>1, <3>1
      <4>3. Target(p, r) \in Flags /\ o.seen[r] \in Flags
        BY <2>1, <4>2, IdsAreCounts, TargetType DEF Op
      <4>4. CASE r \in changed(p)
        BY <2>2, <4>2, <4>3, <4>4, MergedUndisturbed
      <4>5. CASE r \notin changed(p)
        BY <2>2, <4>1, <4>2, <4>5 DEF Rewritten
      <4> QED
        BY <4>4, <4>5
    <3>4. ASSUME NEW a \in Aids, a = o.now PROVE Derived(a)'
      <4>1. Group(a)' = o.group
        BY <2>3, <3>1, <3>4
      <4>2. ASSUME NEW r \in Group(a)'
            PROVE  \E q \in Group(a)' : First(Group(a)', q) /\ rows'[r].flags = Target(q, r)
        <5>1. r \in o.group /\ o.group # {}
          BY <4>1, <4>2
        <5>2. First(o.group, p) /\ p \in o.group
          BY <1>2, <5>1 DEF First
        <5> QED
          BY <3>3, <4>1, <5>1, <5>2
      <4> QED
        BY <4>2 DEF Derived, First, Target
    <3> QED
      BY <3>2, <3>4 DEF DerivedUnlessDue
  <2> QED
    BY <2>5, <2>6
<1> QED
  BY <1>1, <1>2 DEF WriteGroup

(* A delete touches only the groups it makes due: a row that points at the
   deleted one is in its group. *)
LEMMA RemoveKeepsDerived ==
  ASSUME TypeOK, OpsKnown, DerivedUnlessDue, NEW x \in Actors, Remove(x)
  PROVE  DerivedUnlessDue'
<1> DEFINE o == op[x]
           r == o.row
<1>1. r \in Ids /\ r # 0
  BY CatalogAssumption DEF Remove, OpsKnown, Ids
<1>2. rows'[r].live = FALSE
  <2>1. NoRow.live = FALSE
    BY DEF NoRow
  <2> QED
    BY <1>1, <2>1 DEF Remove
<1>3. \A q \in Ids \ {r} :
        /\ rows'[q].live = rows[q].live /\ rows'[q].aid = rows[q].aid
        /\ rows'[q].flags = IF q \in Live /\ rows[q].flags.dup = r THEN NoFlags ELSE rows[q].flags
  BY DEF Remove, TypeOK, Row
<1>4. ASSUME NEW a \in Aids, a \notin due' PROVE Derived(a)'
  <2>1. a \notin due /\ (r \in Live => rows[r].aid # a)
    BY <1>4, CatalogAssumption DEF Remove
  <2>2. Derived(a) /\ r \notin Group(a)
    BY <2>1 DEF DerivedUnlessDue, Group
  <2>3. Group(a)' = Group(a)
    BY <1>1, <1>2, <1>3, <2>2 DEF Group, Live
  <2>4. ASSUME NEW q \in Group(a) PROVE rows'[q].flags = rows[q].flags
    <3>1. q \in Ids \ {r}
      BY <2>2, <2>4 DEF Group, Live
    <3>2. PICK p \in Group(a) : rows[q].flags = Target(p, q)
      BY <2>2, <2>4 DEF Derived
    <3>3. rows[q].flags.dup \in {0, p}
      BY <3>2 DEF Target
    <3> QED
      BY <1>1, <1>3, <2>2, <3>1, <3>2, <3>3
  <2> QED
    BY <2>2, <2>3, <2>4, SameGroupStaysDerived
<1> QED
  BY <1>4 DEF DerivedUnlessDue

(* A folder delete the foreign keys accept takes a whole group or leaves its
   primary. *)
LEMMA DropKeepsDerived ==
  ASSUME TypeOK, DerivedUnlessDue, NEW x \in Actors, DropFolder(x)
  PROVE  DerivedUnlessDue'
<1> DEFINE o == op[x]
<1>1. CASE UNCHANGED rows
  BY <1>1, SameRowsStayDerived DEF DropFolder
<1>2. CASE /\ Droppable(o)
           /\ rows' = [q \in Ids |-> IF q \in o.group THEN NoRow ELSE rows[q]]
  <2>1. \A q \in Ids : q \notin o.group => rows'[q] = rows[q]
    BY <1>2
  <2>2. \A q \in Ids : q \in o.group => rows'[q].live = FALSE
    <3>1. NoRow.live = FALSE
      BY DEF NoRow
    <3> QED
      BY <1>2, <3>1
  <2>3. \A a : Group(a)' = Group(a) \ o.group
    BY <2>1, <2>2 DEF Group, Live
  <2>4. ASSUME NEW a \in Aids, a \notin due', NEW q \in Group(a)'
        PROVE  \E p \in Group(a)' : First(Group(a)', p) /\ rows'[q].flags = Target(p, q)
    <3>1. Derived(a) /\ q \in Group(a) /\ q \notin o.group
      BY <2>3, <2>4 DEF DropFolder, DerivedUnlessDue
    <3>2. PICK p \in Group(a) : First(Group(a), p) /\ rows[q].flags = Target(p, q)
      BY <3>1 DEF Derived
    <3>3. q \in Live /\ q \in Ids /\ p \in Ids
      BY <3>1, <3>2 DEF Group, Live
    <3>4. rows[q].flags.dup \notin o.group
      BY <1>2, <3>1, <3>3 DEF Droppable
    <3>5. p \notin o.group
      BY <3>1, <3>2, <3>4 DEF Target
    <3>6. p \in Group(a)' /\ First(Group(a)', p)
      BY <2>3, <3>2, <3>5 DEF First
    <3> QED
      BY <2>1, <3>1, <3>2, <3>3, <3>6
  <2>5. \A a \in Aids : a \notin due' => Derived(a)'
    BY <2>4 DEF Derived, First, Target
  <2> QED
    BY <2>5 DEF DerivedUnlessDue
<1> QED
  BY <1>1, <1>2 DEF DropFolder

(* A new row is in no group. *)
LEMMA CreateKeepsDerived ==
  ASSUME TypeOK, DerivedUnlessDue, NEW f \in Folders, CreatePending(f)
  PROVE  DerivedUnlessDue'
<1>1. PICK r \in Ids : /\ IsNextId(r)
                      /\ rows' = [rows EXCEPT ![r] = [NoRow EXCEPT !.live = TRUE, !.folder = f]]
  BY DEF CreatePending
<1>2. r \notin Live
  BY <1>1, CatalogAssumption DEF IsNextId, Ids
<1>3. rows'[r].aid = NoAid /\ \A q \in Ids \ {r} : rows'[q] = rows[q]
  BY <1>1 DEF TypeOK, NoRow
<1>4. ASSUME NEW a \in Aids, a \notin due' PROVE Derived(a)'
  <2>1. Derived(a)
    BY <1>4 DEF CreatePending, DerivedUnlessDue
  <2>2. r \notin Group(a) /\ r \notin Group(a)'
    BY <1>2, <1>3, CatalogAssumption DEF Group
  <2>3. Group(a)' = Group(a) /\ \A q \in Group(a) : rows'[q].flags = rows[q].flags
    BY <1>3, <2>2 DEF Group, Live
  <2> QED
    BY <2>1, <2>3, SameGroupStaysDerived
<1> QED
  BY <1>4 DEF DerivedUnlessDue

(* Outside the due ids the flags stay derived. *)
LEMMA DerivedStep ==
  ASSUME TypeOK, OpsKnown, DerivedUnlessDue, [Next]_vars
  PROVE  DerivedUnlessDue'
<1>1. ASSUME NEW x \in Actors, Step(x) PROVE DerivedUnlessDue'
  <2>1. CASE Answer(x) \/ ReadGroup(x)
    BY <2>1, SameRowsStayDerived DEF Answer, ReadGroup
  <2> QED
    BY <1>1, <2>1, ApplyKeepsDerived, WriteKeepsDerived, RemoveKeepsDerived, DropKeepsDerived
       DEF Step
<1>2. ASSUME NEW x \in Actors, Request(x) PROVE DerivedUnlessDue'
  BY <1>2, SameRowsStayDerived DEF Request, LoadForIdentify, LoadForDelete, LoadFolder
<1>3. ASSUME NEW f \in Folders, AddFolder(f) PROVE DerivedUnlessDue'
  BY <1>3, SameRowsStayDerived DEF AddFolder
<1>4. CASE Restart \/ UNCHANGED vars
  BY <1>4, SameRowsStayDerived DEF Restart, vars
<1> QED
  BY <1>1, <1>2, <1>3, <1>4, CreateKeepsDerived DEF Next
-----------------------------------------------------------------------------
(* An actor's step keeps the due ids in hand if it drops none it does not mark
   as torn. *)
LEMMA HandOver ==
  ASSUME op \in [Actors -> Op], DueIsInHand, NEW x \in Actors, NEW o, Becomes(x, o),
         due' \subseteq torn' \cup InHand(o) \cup (due \ InHand(op[x])),
         due' \cap torn \subseteq torn'
  PROVE  DueIsInHand'
<1> SUFFICES ASSUME NEW a \in due', a \notin torn' PROVE \E y \in Actors : a \in InHand(op'[y])
  BY DEF DueIsInHand, InHand
<1>1. op'[x] = o /\ \A y \in Actors \ {x} : op'[y] = op[y]
  BY OthersKeepTheirs
<1>2. CASE a \in InHand(o)
  BY <1>1, <1>2
<1>3. CASE a \in due \ InHand(op[x])
  <2>1. PICK y \in Actors : a \in InHand(op[y])
    BY <1>3 DEF DueIsInHand
  <2> QED
    BY <1>1, <1>3, <2>1
<1> QED
  BY <1>2, <1>3

(* Every due id stays in hand, or becomes torn. *)
LEMMA DueStep ==
  ASSUME TypeOK, OpsKnown, DueIsInHand, [Next]_vars
  PROVE  DueIsInHand'
<1>0. op \in [Actors -> Op] /\ Idle.pc = "idle"
  BY DEF TypeOK, Idle
<1>1. ASSUME NEW o, o.pc \in {"idle", "fetch", "apply", "drop"} PROVE InHand(o) = {}
  BY <1>1 DEF InHand
<1>2. ASSUME NEW x \in Actors, Fail(x) PROVE DueIsInHand'
  BY <1>0, <1>2, HandOver DEF Fail
<1>3. ASSUME NEW x \in Actors, NEW o, Becomes(x, o), InHand(op[x]) = {}, due' = due, torn' = torn
      PROVE  DueIsInHand'
  BY <1>0, <1>3, HandOver
<1>4. ASSUME NEW x \in Actors, Answer(x) PROVE DueIsInHand'
  <2>1. op[x].pc = "fetch"
    BY <1>4 DEF Answer
  <2>2. InHand(op[x]) = {}
    BY <1>1, <2>1
  <2> QED
    BY <1>3, <1>4, <2>2 DEF Answer
<1>5. ASSUME NEW x \in Actors, DropFolder(x) PROVE DueIsInHand'
  <2>1. InHand(op[x]) = {}
    BY <1>1, <1>5 DEF DropFolder
  <2>2. Becomes(x, Idle)
    BY <1>5, Zenon DEF DropFolder
  <2>3. due' = due /\ torn' = torn
    BY <1>5, Zenon DEF DropFolder
  <2> QED
    BY <1>3, <2>1, <2>2, <2>3
<1>6. ASSUME NEW x \in Actors, Request(x) PROVE DueIsInHand'
  <2>1. ASSUME NEW o, Begin(x, o), due' = due, torn' = torn PROVE DueIsInHand'
    BY <1>1, <1>3, <2>1 DEF Begin
  <2> QED
    BY <1>6, <2>1 DEF Request, LoadForIdentify, LoadForDelete, LoadFolder
<1>7. ASSUME NEW x \in Actors, Apply(x) PROVE DueIsInHand'
  <2> DEFINE o == op[x]
             r == o.row
             flags == Merged([flag |-> o.other # 0, dup |-> o.other], o.mine, rows[r].flags)
             done == Then([o EXCEPT !.mine = flags], o.aid, Later(o))
  <2>1. CASE Fail(x)
    BY <1>2, <2>1
  <2>2. CASE /\ Becomes(x, done)
             /\ due'  = due \cup ({o.aid, rows[r].aid} \ {NoAid})
             /\ torn' = torn \cup ({rows[r].aid} \ {o.aid, o.prev, NoAid})
    <3>1. InHand(o) = {}
      BY <1>1, <1>7 DEF Apply
    <3>2. InHand(done) = {o.aid, Later(o)} \ {NoAid}
      BY ThenInHand
    <3>3. {o.aid, o.prev} \ {NoAid} \subseteq InHand(done)
      BY <3>2 DEF Later
    <3> HIDE DEF done
    <3> QED
      BY <1>0, <2>2, <3>1, <3>3, HandOver
  <2> QED
    BY <1>7, <2>1, <2>2 DEF Apply
<1>8. ASSUME NEW x \in Actors, ReadGroup(x) PROVE DueIsInHand'
  <2> DEFINE o == op[x]
             g == Group(o.now)
             seen == [r \in Ids |-> IF r \notin g THEN NoFlags
                                    ELSE IF r = o.row THEN o.mine ELSE rows[r].flags]
             next == [o EXCEPT !.pc = "write", !.group = g, !.seen = seen]
  <2>1. o \in Op /\ o.pc = "read" /\ Becomes(x, next)
    BY <1>0, <1>8 DEF ReadGroup
  <2>2. next.pc = "write" /\ next.now = o.now /\ next.later = o.later
    BY <2>1 DEF Op
  <2>3. InHand(next) = InHand(o)
    BY <2>1, <2>2 DEF InHand
  <2> HIDE DEF next
  <2> QED
    BY <1>0, <1>8, <2>1, <2>3, HandOver DEF ReadGroup
<1>9. ASSUME NEW x \in Actors, WriteGroup(x) PROVE DueIsInHand'
  <2> DEFINE o == op[x]
  <2>1. CASE Fail(x)
    BY <1>2, <2>1
  <2>2. ASSUME NEW mine, NEW hit,
               Becomes(x, Then([o EXCEPT !.mine = mine], NoAid, o.later)),
               o.now \in hit \cup {NoAid},
               \/ due' = due \ {o.now} /\ torn' = torn \ {o.now}
               \/ due' = due \cup hit /\ torn' = torn \cup hit
        PROVE  DueIsInHand'
    <3>1. o.pc = "write"
      BY <1>9 DEF WriteGroup
    <3>2. InHand(o) = {o.now, o.later} \ {NoAid}
      BY <3>1 DEF InHand
    <3>3. InHand(Then([o EXCEPT !.mine = mine], NoAid, o.later)) = {o.later} \ {NoAid}
      BY ThenInHand
    <3> QED
      BY <1>0, <2>2, <3>2, <3>3, HandOver
  <2>3. \E mine, hit :
          /\ Becomes(x, Then([o EXCEPT !.mine = mine], NoAid, o.later))
          /\ o.now \in hit \cup {NoAid}
          /\ \/ due' = due \ {o.now} /\ torn' = torn \ {o.now}
             \/ due' = due \cup hit /\ torn' = torn \cup hit
        \/ Fail(x)
    <3> DEFINE target(p) == [r \in Ids |-> Target(p, r)]
               changed(p) == {r \in Rewritten(o.group, p) : target(p)[r] # o.seen[r]}
               mine(p) == IF o.row \in o.group THEN target(p)[o.row] ELSE o.mine
               hit(p) == ({rows[r].aid : r \in changed(p)} \cup {o.now}) \ {NoAid}
    <3>1. CASE Fail(x)
      BY <3>1
    <3>2. ASSUME NEW p \in Ids \cup {0},
                 Becomes(x, Then([o EXCEPT !.mine = mine(p)], NoAid, o.later)),
                 IF Undisturbed(o)
                   THEN due' = due \ {o.now} /\ torn' = torn \ {o.now}
                   ELSE due' = due \cup hit(p) /\ torn' = torn \cup hit(p)
          PROVE  \E m, h : /\ Becomes(x, Then([o EXCEPT !.mine = m], NoAid, o.later))
                           /\ o.now \in h \cup {NoAid}
                           /\ \/ due' = due \ {o.now} /\ torn' = torn \ {o.now}
                              \/ due' = due \cup h /\ torn' = torn \cup h
      <4>1. o.now \in hit(p) \cup {NoAid}
        OBVIOUS
      <4> HIDE DEF mine, hit
      <4> QED
        BY <3>2, <4>1
    <3> QED
      BY <1>9, <3>1, <3>2 DEF WriteGroup
  <2> QED
    BY <2>1, <2>2, <2>3
<1>10. ASSUME NEW x \in Actors, Remove(x) PROVE DueIsInHand'
  <2> DEFINE o == op[x]
             hit == ({o.prev} \cup (IF o.row \in Live THEN {rows[o.row].aid} ELSE {})) \ {NoAid}
             done == Then([o EXCEPT !.row = 0], o.prev, NoAid)
  <2>1. /\ o.pc = "remove" /\ Becomes(x, done)
        /\ due' = due \cup hit /\ torn' = torn \cup (hit \ {o.prev})
    BY <1>10 DEF Remove
  <2>2. InHand(o) = {o.prev} \ {NoAid}
    BY <2>1 DEF InHand
  <2>3. InHand(done) = {o.prev} \ {NoAid}
    BY ThenInHand
  <2>4. hit \subseteq (hit \ {o.prev}) \cup ({o.prev} \ {NoAid})
    OBVIOUS
  <2> HIDE DEF hit, done
  <2> QED
    BY <1>0, <2>1, <2>2, <2>3, <2>4, HandOver
<1>11. CASE \E f \in Folders : CreatePending(f) \/ AddFolder(f)
  BY <1>11 DEF CreatePending, AddFolder, DueIsInHand, InHand
<1>12. CASE Restart
  <2>1. due \subseteq torn'
    BY <1>12 DEF Restart, DueIsInHand
  <2> QED
    BY <1>12, <2>1 DEF Restart, DueIsInHand
<1>13. CASE UNCHANGED vars
  BY <1>13 DEF vars, DueIsInHand, InHand
<1> QED
  BY <1>2, <1>4, <1>5, <1>6, <1>7, <1>8, <1>9, <1>10, <1>11, <1>12, <1>13 DEF Next, Step
-----------------------------------------------------------------------------
(* The inductive invariant holds in every reachable state. *)
THEOREM Inductive == Spec => []IInv
<1>1. Init => IInv
  <2> SUFFICES ASSUME Init PROVE IInv
    OBVIOUS
  <2>1. TypeOK
    BY RecordTypes, CatalogAssumption DEF Init, TypeOK
  <2>2. Idle.pc = "idle" /\ NoRow.live = FALSE
    BY DEF Idle, NoRow
  <2>3. Live = {}
    BY <2>2 DEF Init, Live
  <2> QED
    BY <2>1, <2>2, <2>3
       DEF Init, IInv, OpsKnown, ForeignKeys, DerivedUnlessDue, Derived, Group, DueIsInHand
<1>2. IInv /\ [Next]_vars => IInv'
  BY TypeStep, OpsKnownStep, ForeignKeysStep, DerivedStep, DueStep DEF IInv
<1> QED
  BY <1>1, <1>2, PTL DEF Spec

(* No interleaving of identifications, deletes and folder deletes leaves a row
   without its folder, or a duplicate of a row that does not exist. *)
THEOREM ForeignKeysHold == Spec => []ForeignKeys
<1>1. IInv => ForeignKeys
  BY DEF IInv
<1> QED
  BY <1>1, Inductive, PTL

(* The duplicate flags of every id that is not waiting for a recomputation are
   what a recomputation would give. *)
THEOREM FlagsAreDerived == Spec => []DerivedUnlessDue
<1>1. IInv => DerivedUnlessDue
  BY DEF IInv
<1> QED
  BY <1>1, Inductive, PTL

(* Every changed id is going to be recomputed, or was torn by a failure, a
   restart or another operation. *)
THEOREM DueStaysInHand == Spec => []DueIsInHand
<1>1. IInv => DueIsInHand
  BY DEF IInv
<1> QED
  BY <1>1, Inductive, PTL

-----------------------------------------------------------------------------
(* PendingCount: functions and finite sets *)

(* A finite set of numbers that is not empty has a largest. *)
LEMMA LargestExists ==
  ASSUME NEW S, IsFiniteSet(S), S \subseteq Nat, S # {}
  PROVE  \E m \in S : \A x \in S : x <= m
<1>1. PICK B : B = {T \in SUBSET S : T # {} /\ ~\E m \in T : \A x \in T : x <= m}
  OBVIOUS
<1>2. CASE B # {}
  <2>1. IsWellFoundedOn(StrictSubsetOrdering(S), SUBSET S)
    BY FS_StrictSubsetOrderingWellFounded, FS_FiniteSubsetsOfFinite
  <2>2. PICK T \in B : \A U \in B : <<U, T>> \notin StrictSubsetOrdering(S)
    BY <1>1, <1>2, <2>1, WFMin
  <2>3. PICK x \in T : TRUE
    BY <1>1
  <2>4. PICK U : U = T \ {x}
    OBVIOUS
  <2>5. U \notin B
    BY <1>1, <2>2, <2>3, <2>4 DEF StrictSubsetOrdering
  <2>6. CASE U = {}
    BY <1>1, <2>3, <2>4, <2>6
  <2>7. CASE U # {}
    <3>1. PICK m \in U : \A y \in U : y <= m
      BY <1>1, <2>4, <2>5, <2>7
    <3>2. CASE x <= m
      BY <1>1, <2>3, <2>4, <3>1, <3>2
    <3>3. CASE ~(x <= m)
      <4>1. \A y \in T : y <= x
        BY <1>1, <2>3, <2>4, <3>1, <3>3
      <4> QED
        BY <1>1, <2>3, <4>1
    <3> QED
      BY <3>2, <3>3
  <2> QED
    BY <2>6, <2>7
<1>3. CASE B = {}
  BY <1>1, <1>3
<1> QED
  BY <1>2, <1>3

(* A set of numbers that is not empty has a least. *)
LEMMA LeastExists ==
  ASSUME NEW S, S \subseteq Nat, S # {}
  PROVE  \E m \in S : \A n \in S : ~(n < m)
<1>1. \E m \in S : \A n \in S : <<n, m>> \notin OpToRel(<, Nat)
  BY WFMin, NatLessThanWellFounded
<1> QED
  BY <1>1 DEF OpToRel

(* Each step asks for what the smaller numbers were given. *)
Causal(S, V, step) ==
  /\ step \in [S -> [[S -> V] -> V]]
  /\ \A f \in S : \A u, w \in [S -> V] :
       (\A g \in S : g < f => u[g] = w[g]) => step[f][u] = step[f][w]

(* What is defined of each number from what it is of the smaller ones. *)
LEMMA Recursion ==
  ASSUME NEW S \in SUBSET Nat, IsFiniteSet(S), NEW V, NEW v \in V,
         NEW step, Causal(S, V, step)
  PROVE  \E h : h \in [S -> V] /\ \A f \in S : h[f] = step[f][h]
<1>0. /\ step \in [S -> [[S -> V] -> V]]
      /\ \A f \in S : \A u, w \in [S -> V] :
           (\A g \in S : g < f => u[g] = w[g]) => step[f][u] = step[f][w]
  BY DEF Causal
<1>1. PICK Bad : Bad = {m \in Nat : ~\E h \in [S -> V] : \A f \in S : f < m => h[f] = step[f][h]}
  OBVIOUS
<1>2. Bad = {}
  <2> SUFFICES ASSUME Bad # {} PROVE FALSE
    OBVIOUS
  <2>1. PICK m \in Bad : \A n \in Bad : ~(n < m)
    BY <1>1, LeastExists
  <2>2. \A n \in Bad : ~(n < m)
    BY <2>1
  <2>3. m # 0
    <3>1. PICK h \in [S -> V] : h = [f \in S |-> v]
      OBVIOUS
    <3>2. \A f \in S : ~(f < 0)
      OBVIOUS
    <3>3. 0 \notin Bad
      BY <1>1, <3>2
    <3> QED
      BY <2>1, <3>3
  <2>4. m - 1 \in Nat /\ m - 1 \notin Bad
    <3>1. m \in Nat
      BY <1>1
    <3>2. m - 1 \in Nat /\ m - 1 < m
      BY <2>3, <3>1
    <3> QED
      BY <2>2, <3>2
  <2>5. PICK h \in [S -> V] : \A f \in S : f < m - 1 => h[f] = step[f][h]
    BY <1>1, <2>4
  <2>6. CASE m - 1 \notin S
    <3>1. \A f \in S : f < m => f < m - 1
      BY <1>1, <2>4, <2>6
    <3> QED
      BY <1>1, <2>5, <3>1
  <2>7. CASE m - 1 \in S
    <3>1. PICK o \in [S -> V] : o = [h EXCEPT ![m - 1] = step[m - 1][h]]
      BY <1>0, <2>7
    <3>2. \A f \in S : f # m - 1 => o[f] = h[f]
      BY <3>1
    <3>3. o[m - 1] = step[m - 1][h]
      BY <2>7, <3>1
    <3>4. \A f \in S : f < m => step[f][o] = step[f][h]
      <4> SUFFICES ASSUME NEW f \in S, f < m PROVE step[f][o] = step[f][h]
        OBVIOUS
      <4>1. \A g \in S : g < f => o[g] = h[g]
        BY <1>1, <2>4, <3>2
      <4> QED
        BY <1>0, <4>1
    <3>5. \A f \in S : f < m => f < m - 1 \/ f = m - 1
      BY <1>1, <2>4
    <3>6. \A f \in S : f < m => o[f] = step[f][o]
      BY <2>4, <2>5, <3>2, <3>3, <3>4, <3>5
    <3> QED
      BY <1>1, <3>6
  <2> QED
    BY <2>6, <2>7
<1>3. CASE S = {}
  <2>1. [f \in S |-> v] \in [S -> V]
    OBVIOUS
  <2> QED
    BY <1>3, <2>1
<1>4. CASE S # {}
  <2>1. PICK m \in S : \A x \in S : x <= m
    BY <1>4, LargestExists
  <2>2. m + 1 \in Nat /\ m + 1 \notin Bad
    BY <1>2
  <2>3. \A x \in S : x < m + 1
    BY <2>1
  <2> QED
    BY <1>1, <2>2, <2>3
<1> QED
  BY <1>3, <1>4

(* A function gives as many values as it has arguments, or fewer. *)
LEMMA ImageFinite ==
  ASSUME NEW S, IsFiniteSet(S), NEW f
  PROVE  IsFiniteSet({f[x] : x \in S})
<1>1. PICK g : g = [x \in S |-> f[x]]
  OBVIOUS
<1>2. g \in Surjection(S, {f[x] : x \in S})
  BY <1>1 DEF Surjection
<1> QED
  BY <1>2, FS_Surjection

(* One that tells its arguments apart gives as many. *)
LEMMA OneToOne ==
  ASSUME NEW S, IsFiniteSet(S), NEW f, \A x, y \in S : f[x] = f[y] => x = y
  PROVE  /\ IsFiniteSet({f[x] : x \in S})
         /\ Cardinality({f[x] : x \in S}) = Cardinality(S)
<1>1. PICK g : g = [x \in S |-> f[x]]
  OBVIOUS
<1>2. g \in Surjection(S, {f[x] : x \in S})
  BY <1>1 DEF Surjection
<1>3. g \in Injection(S, {f[x] : x \in S})
  BY <1>1 DEF Injection, IsInjective
<1>4. ExistsBijection(S, {f[x] : x \in S})
  BY <1>2, <1>3 DEF ExistsBijection, Bijection
<1> QED
  BY <1>4, FS_Bijection

(* The sets that are counted are finite. *)
LEMMA CountedFinite ==
  ASSUME NEW L
  PROVE  /\ IsFiniteSet(Listed(L)) /\ IsFiniteSet(UsedAids(L))
         /\ IsFiniteSet(NeedingReview(L)) /\ IsFiniteSet(RenameRows(L))
         /\ IsFiniteSet(RenameQueue(L)) /\ IsFiniteSet(Unassigned(L))
<1>1. /\ Listed(L) \in SUBSET Animes /\ NeedingReview(L) \in SUBSET Animes
      /\ RenameRows(L) \in SUBSET Animes /\ Unassigned(L) \in SUBSET Files
  BY DEF Listed, NeedingReview, RenameRows, Identified, Unassigned
<1>2. /\ IsFiniteSet(Listed(L)) /\ IsFiniteSet(NeedingReview(L))
      /\ IsFiniteSet(RenameRows(L)) /\ IsFiniteSet(Unassigned(L))
  BY <1>1, FS_Subset, CountAssumption
<1>3. RenameQueue(L) \in SUBSET RenameRows(L)
  BY DEF RenameQueue
<1>4. IsFiniteSet(RenameQueue(L))
  BY <1>2, <1>3, FS_Subset
<1>5. PICK aids : aids = [a \in Listed(L) |-> L.animes[a].aid]
  OBVIOUS
<1>6. IsFiniteSet({aids[a] : a \in Listed(L)})
  BY <1>2, ImageFinite
<1>7. UsedAids(L) \in SUBSET {aids[a] : a \in Listed(L)}
  BY <1>5 DEF UsedAids
<1>8. IsFiniteSet(UsedAids(L))
  BY <1>6, <1>7, FS_Subset
<1> QED
  BY <1>2, <1>4, <1>8

(* Every count is a number. *)
LEMMA CountsAreNumbers ==
  ASSUME NEW L
  PROVE  /\ Cardinality(NeedingReview(L)) \in Nat /\ CountDuplicateGroups(L) \in Nat
         /\ CountSortQueue(L) \in Nat /\ Cardinality(RenameQueue(L)) \in Nat
         /\ Cardinality(Unassigned(L)) \in Nat
<1>1. IsFiniteSet({aid \in UsedAids(L) : Cardinality(Sharing(L, aid)) > 1})
  BY CountedFinite, FS_Subset
<1>2. {a \in SortRows(L) : \E f \in Files : L.files[f].anime = a} \in SUBSET Animes
  BY DEF SortRows, Identified
<1>3. IsFiniteSet({a \in SortRows(L) : \E f \in Files : L.files[f].anime = a})
  BY <1>2, FS_Subset, CountAssumption
<1>4. /\ CountDuplicateGroups(L) \in Nat /\ CountSortQueue(L) \in Nat
  BY <1>1, <1>3, FS_CardinalityType DEF CountDuplicateGroups, CountSortQueue
<1> QED
  BY <1>4, CountedFinite, FS_CardinalityType

(* What the spellings of a number stand for. *)
LEMMA Spellings ==
  /\ DOMAIN DigitValue = {"0", "1", "01", "2"}
  /\ Texts = {"0", "1", "01", "2", "S1", "extra"}
  /\ DigitValue["0"] = 0 /\ DigitValue["1"] = 1 /\ DigitValue["01"] = 1 /\ DigitValue["2"] = 2
  /\ None \notin Texts
BY DEF Texts, DigitValue, None

(* Read as a number: itself; anything else: no number of an episode. *)
LEMMA Digits ==
  ASSUME NEW t \in Texts \cup {None}
  PROVE  /\ Plain(t) => /\ DigitValue[t] \in {0, 1, 2}
                        /\ Cast(t) = DigitValue[t] /\ Normalize(t) = DigitValue[t]
         /\ ~Plain(t) => Normalize(t) = -1
         /\ Plain(t) <=> t \in {"0", "1", "01", "2"}
BY Spellings DEF Plain, Cast, Normalize

(* A number is written as one of the texts, and read back as itself. *)
LEMMA Written ==
  ASSUME NEW n
  PROVE  /\ Text(n) \in {"0", "1", "2"} /\ Text(n) \in Texts
         /\ n \in {0, 1, 2} => DigitValue[Text(n)] = n
BY Spellings DEF Text

-----------------------------------------------------------------------------
(* Among the numbers a name can get, one is free: there are more of them     *)
(* than files.                                                              *)

(* A name with other numbers after it is a name. *)
LEMMA SuffixedName ==
  ASSUME NEW name \in Name, NEW tail \in Seq(Nat)
  PROVE  /\ Suffixed(name, tail) \in Name /\ Suffixed(name, tail).tail = tail
         /\ Suffixed(name, tail).title = name.title
         /\ \A other \in Seq(Nat) : Suffixed(Suffixed(name, tail), other) = Suffixed(name, other)
         /\ tail = name.tail => Suffixed(name, tail) = name
BY DEF Suffixed, Name

(* Every number makes another name. *)
LEMMA SlotsDiffer ==
  ASSUME NEW name \in Name, NEW n \in Nat, NEW slots,
         slots = [k \in 1 .. n |-> IF k = 1 THEN name ELSE Suffixed(name, Append(name.tail, k))]
  PROVE  /\ slots \in [1 .. n -> Name]
         /\ \A j, k \in 1 .. n : slots[j] = slots[k] => j = k
<1>1. \A k \in 1 .. n : Append(name.tail, k) \in Seq(Nat)
  BY DEF Name
<1>2. slots \in [1 .. n -> Name]
  BY <1>1, SuffixedName
<1>3. ASSUME NEW k \in 1 .. n, k # 1
      PROVE  /\ slots[k].tail = Append(name.tail, k) /\ slots[k].tail # name.tail
             /\ slots[k].tail[Len(name.tail) + 1] = k
  <2>1. slots[k].tail = Append(name.tail, k)
    BY <1>1, <1>3, SuffixedName
  <2>2. name.tail \in Seq(Nat)
    BY DEF Name
  <2>3. Len(Append(name.tail, k)) # Len(name.tail) /\ Append(name.tail, k)[Len(name.tail) + 1] = k
    BY <2>2
  <2> QED
    BY <2>1, <2>3
<1>4. ASSUME NEW j \in 1 .. n, NEW k \in 1 .. n, slots[j] = slots[k]
      PROVE  j = k
  <2>1. CASE j = 1 /\ k # 1
    BY <1>3, <1>4, <2>1
  <2>2. CASE j # 1 /\ k = 1
    BY <1>3, <1>4, <2>2
  <2>3. CASE j # 1 /\ k # 1
    BY <1>3, <1>4, <2>3
  <2> QED
    BY <2>1, <2>2, <2>3
<1> QED
  BY <1>2, <1>4

(* FreeName gives a name that is not taken: the wanted one if it is free, else
   the wanted one with one more number after it. *)
LEMMA FreeSlot ==
  ASSUME NEW name \in Name, NEW used, NEW taken \in SUBSET {used[f] : f \in Files}
  PROVE  /\ FreeName(name, taken) \notin taken
         /\ FreeName(name, taken) \in Name
         /\ name \notin taken => FreeName(name, taken) = name
         /\ \/ FreeName(name, taken) = name
            \/ \E k \in Nat : FreeName(name, taken) = Suffixed(name, Append(name.tail, k))
<1>1. PICK n \in Nat : n = Cardinality(Files) + 1
  BY CountAssumption, FS_CardinalityType
<1>2. PICK slots :
        slots = [k \in 1 .. n |-> IF k = 1 THEN name ELSE Suffixed(name, Append(name.tail, k))]
  OBVIOUS
<1>3. /\ slots \in [1 .. n -> Name]
      /\ \A j, k \in 1 .. n : slots[j] = slots[k] => j = k
  BY <1>2, SlotsDiffer
<1>4. \E k \in 1 .. n : slots[k] \notin taken
  <2> SUFFICES ASSUME \A k \in 1 .. n : slots[k] \in taken PROVE FALSE
    OBVIOUS
  <2>1. PICK pick : pick = [k \in 1 .. n |-> CHOOSE f \in Files : used[f] = slots[k]]
    OBVIOUS
  <2>2. \A k \in 1 .. n : pick[k] \in Files /\ used[pick[k]] = slots[k]
    BY <2>1
  <2>3. pick \in [1 .. n -> Files]
    BY <2>1, <2>2
  <2>4. IsFiniteSet(1 .. n) /\ Cardinality(1 .. n) = n
    <3>1. 1 \in Int /\ n \in Int /\ ~(1 > n) /\ n - 1 + 1 = n
      BY <1>1, CountAssumption, FS_CardinalityType
    <3> QED
      BY <3>1, FS_Interval, Zenon
  <2>5. Cardinality(Files) < Cardinality(1 .. n)
    BY <1>1, <2>4, CountAssumption, FS_CardinalityType
  <2>6. \E j, k \in 1 .. n : j # k /\ pick[j] = pick[k]
    BY <2>3, <2>4, <2>5, CountAssumption, FS_PigeonHole
  <2> QED
    BY <1>3, <2>2, <2>6
<1>5. PICK m \in 1 .. n : slots[m] \notin taken /\ \A j \in 1 .. m - 1 : slots[j] \in taken
  <2>1. PICK free : free = {k \in 1 .. n : slots[k] \notin taken}
    OBVIOUS
  <2>2. PICK m \in free : \A k \in free : ~(k < m)
    BY <1>4, <2>1, LeastExists
  <2>3. \A j \in 1 .. m - 1 : j \in 1 .. n /\ j < m
    BY <2>1, <2>2
  <2> QED
    BY <2>1, <2>2, <2>3
<1>6. PICK c : c = CHOOSE k \in DOMAIN slots :
                     slots[k] \notin taken /\ \A j \in 1 .. k - 1 : slots[j] \in taken
  OBVIOUS
<1>7. DOMAIN slots = 1 .. n
  BY <1>2
<1>8. /\ c \in 1 .. n /\ slots[c] \notin taken
      /\ \A j \in 1 .. c - 1 : slots[j] \in taken
  BY <1>5, <1>6, <1>7
<1>9. FreeName(name, taken) = slots[c]
  BY <1>1, <1>2, <1>6 DEF FreeName
<1>10. slots[1] = name
  BY <1>1, <1>2
<1>11. name \notin taken => c = 1
  <2>1. c # 1 => 1 \in 1 .. c - 1
    BY <1>8
  <2> QED
    BY <1>8, <1>10, <2>1
<1>12. c # 1 => c \in Nat /\ slots[c] = Suffixed(name, Append(name.tail, c))
  BY <1>2, <1>8
<1> QED
  BY <1>3, <1>8, <1>9, <1>10, <1>11, <1>12

LEMMA LooseIsName == Loose \in Name
BY DEF Loose, Name

(* Names can be given one after the other. *)
LEMMA NamesRecursion ==
  ASSUME NEW S \in SUBSET Nat, IsFiniteSet(S), NEW step, Causal(S, Name, step)
  PROVE  \E h : h \in [S -> Name] /\ \A f \in S : h[f] = step[f][h]
BY LooseIsName, Recursion

-----------------------------------------------------------------------------
(* The plan gives the files without a proper name what is free, in order.    *)

(* The name a file ought to have is one of a title and without numbers. *)
LEMMA Targets ==
  ASSUME NEW L \in Library, NEW f \in Files
  PROVE  /\ TargetName(L, f) \in Name /\ TargetName(L, f).tail = <<>>
         /\ TargetName(L, f).title # None
<1>1. L.files[f].num \in Texts \cup {None} /\ L.order \in Orders
  BY DEF Library, EpisodeFile
<1>2. Normalize(L.files[f].num) \in {-1, 0, 1, 2}
  BY <1>1, Digits
<1>3. <<>> \in Seq(Nat) /\ None \notin Orders
  BY DEF Orders, None
<1> QED
  BY <1>1, <1>2, <1>3 DEF TargetName, Name

(* The files of the plan are files of the entry, and finitely many. *)
LEMMA UnsettledFiles ==
  ASSUME NEW L, NEW a
  PROVE  /\ Unsettled(L, a) \subseteq Files /\ Settled(L, a) \subseteq Files
         /\ Unsettled(L, a) \subseteq Nat /\ IsFiniteSet(Unsettled(L, a))
         /\ FileRenames(L, a) \subseteq Unsettled(L, a) /\ Of(L, a) \subseteq Files
         /\ \A f \in Settled(L, a) : f \notin Unsettled(L, a)
<1>1. /\ Unsettled(L, a) \subseteq Files /\ Settled(L, a) \subseteq Files
      /\ FileRenames(L, a) \subseteq Unsettled(L, a) /\ Of(L, a) \subseteq Files
      /\ \A f \in Settled(L, a) : f \notin Unsettled(L, a)
  BY DEF Unsettled, Settled, Matched, Of, FileRenames
<1> QED
  BY <1>1, CountAssumption, FS_Subset

Avoided(L, a, name, f) == {L.files[g].name : g \in Settled(L, a)}
                          \cup {name[g] : g \in {h \in Unsettled(L, a) : h < f}}

(* The names to avoid are no more than there are files, *)
LEMMA AvoidedFits ==
  ASSUME NEW L, NEW a, NEW name, NEW f
  PROVE  \E used : Avoided(L, a, name, f) \in SUBSET {used[g] : g \in Files}
<1>1. PICK used : used = [g \in Files |-> IF g \in Settled(L, a) THEN L.files[g].name ELSE name[g]]
  OBVIOUS
<1>2. Avoided(L, a, name, f) \in SUBSET {used[g] : g \in Files}
  BY <1>1, UnsettledFiles DEF Avoided
<1> QED
  BY <1>2

(* so the plan is what its recursive definition says it is. *)
LEMMA PlanIs ==
  ASSUME NEW L \in Library, NEW a
  PROVE  \A f \in Unsettled(L, a) :
           Planned(L, a)[f] = FreeName(TargetName(L, f), Avoided(L, a, Planned(L, a), f))
<1>1. PICK S : S = Unsettled(L, a)
  OBVIOUS
<1>2. S \subseteq Files /\ S \subseteq Nat /\ IsFiniteSet(S)
  BY <1>1, UnsettledFiles
<1>3. PICK step : step = [f \in S |-> [u \in [S -> Name] |->
                           FreeName(TargetName(L, f), Avoided(L, a, u, f))]]
  OBVIOUS
<1>4. ASSUME NEW f \in S, NEW u \in [S -> Name]
      PROVE  FreeName(TargetName(L, f), Avoided(L, a, u, f)) \in Name
  <2>1. PICK used : Avoided(L, a, u, f) \in SUBSET {used[g] : g \in Files}
    BY AvoidedFits
  <2>2. TargetName(L, f) \in Name
    BY <1>2, Targets
  <2> QED
    BY <2>1, <2>2, FreeSlot
<1>5. step \in [S -> [[S -> Name] -> Name]]
  BY <1>3, <1>4
<1>6. ASSUME NEW f \in S, NEW u \in [S -> Name], NEW w \in [S -> Name],
             \A g \in S : g < f => u[g] = w[g]
      PROVE  step[f][u] = step[f][w]
  <2>1. Avoided(L, a, u, f) = Avoided(L, a, w, f)
    BY <1>1, <1>6 DEF Avoided
  <2> QED
    BY <1>3, <2>1
<1>7. PICK h : h \in [S -> Name] /\ \A f \in S : h[f] = step[f][h]
  <2>1. Causal(S, Name, step)
    BY <1>5, <1>6 DEF Causal
  <2>2. S \in SUBSET Nat
    BY <1>2
  <2>3. IsFiniteSet(S)
    BY <1>2
  <2>4. \E h : h \in [S -> Name] /\ \A f \in S : h[f] = step[f][h]
    BY <2>1, <2>2, <2>3, NamesRecursion
  <2> QED
    BY <2>4
<1>8. h = [f \in S |-> FreeName(TargetName(L, f), Avoided(L, a, h, f))]
  <2>1. \A f \in S : h[f] = FreeName(TargetName(L, f), Avoided(L, a, h, f))
    BY <1>3, <1>7
  <2>2. h = [f \in S |-> h[f]]
    BY <1>7
  <2> QED
    BY <2>1, <2>2
<1>9. Planned(L, a) = CHOOSE name :
         name = [f \in S |-> FreeName(TargetName(L, f), Avoided(L, a, name, f))]
  <2>1. Planned(L, a) = CHOOSE name : name = [f \in Unsettled(L, a) |->
          FreeName(TargetName(L, f), {L.files[g].name : g \in Settled(L, a)}
                                     \cup {name[g] : g \in {k \in Unsettled(L, a) : k < f}})]
    BY Zenon DEF Planned
  <2> QED
    BY <1>1, <2>1 DEF Avoided
<1>10. Planned(L, a) = [f \in S |-> FreeName(TargetName(L, f), Avoided(L, a, Planned(L, a), f))]
  BY <1>8, <1>9
<1> QED
  BY <1>1, <1>10

(* A name with one number after it, or none, is a proper one. *)
LEMMA Variants ==
  ASSUME NEW t \in Name, t.tail = <<>>
  PROVE  IsNameVariant(t, t) /\ \A k \in Nat : IsNameVariant(Suffixed(t, Append(t.tail, k)), t)
<1>1. Len(t.tail) = 0 /\ \A k \in Nat : Len(Append(t.tail, k)) = 1
  OBVIOUS
<1>2. \A tail : Suffixed(Suffixed(t, tail), <<>>) = t /\ Suffixed(t, tail).tail = tail
  BY DEF Suffixed, Name
<1>3. Suffixed(t, <<>>) = t
  BY DEF Suffixed, Name
<1>4. IsNameVariant(t, t)
  BY <1>1, <1>3 DEF IsNameVariant
<1>5. ASSUME NEW k \in Nat PROVE IsNameVariant(Suffixed(t, Append(t.tail, k)), t)
  <2>1. PICK tail : tail = Append(t.tail, k) /\ Len(tail) = 1
    BY <1>1
  <2>2. PICK n : n = Suffixed(t, tail)
    OBVIOUS
  <2>3. n.tail = tail /\ Suffixed(n, <<>>) = t
    BY <1>2, <2>2
  <2>4. Len(n.tail) <= 1
    BY <2>1, <2>3
  <2> QED
    BY <2>1, <2>2, <2>3, <2>4 DEF IsNameVariant
<1> QED
  BY <1>4, <1>5

(* The plan gives every file it names a proper name that no other file keeps or
   is given. *)
LEMMA PlanFacts ==
  ASSUME NEW L \in Library, NEW a
  PROVE  /\ \A f \in Unsettled(L, a) :
              /\ Planned(L, a)[f] \in Name
              /\ IsNameVariant(Planned(L, a)[f], TargetName(L, f))
              /\ \A g \in Settled(L, a) : Planned(L, a)[f] # L.files[g].name
         /\ \A f, g \in Unsettled(L, a) : f # g => Planned(L, a)[f] # Planned(L, a)[g]
<1>1. PICK p : p = Planned(L, a)
  OBVIOUS
<1>2. \A f \in Unsettled(L, a) : p[f] = FreeName(TargetName(L, f), Avoided(L, a, p, f))
  BY <1>1, PlanIs
<1>3. ASSUME NEW f \in Unsettled(L, a)
      PROVE  /\ p[f] \in Name /\ p[f] \notin Avoided(L, a, p, f)
             /\ IsNameVariant(p[f], TargetName(L, f))
  <2>1. PICK used : Avoided(L, a, p, f) \in SUBSET {used[g] : g \in Files}
    BY AvoidedFits
  <2>2. PICK t \in Name : t = TargetName(L, f) /\ t.tail = <<>>
    BY UnsettledFiles, Targets
  <2>3. p[f] = FreeName(t, Avoided(L, a, p, f))
    BY <1>2, <2>2
  <2>4. /\ p[f] \in Name /\ p[f] \notin Avoided(L, a, p, f)
        /\ p[f] = t \/ \E k \in Nat : p[f] = Suffixed(t, Append(t.tail, k))
    BY <2>1, <2>3, FreeSlot
  <2> QED
    BY <2>2, <2>4, Variants
<1>4. \A f \in Unsettled(L, a) : \A g \in Settled(L, a) : p[f] # L.files[g].name
  BY <1>3 DEF Avoided
<1>5. ASSUME NEW f \in Unsettled(L, a), NEW g \in Unsettled(L, a), f # g
      PROVE  p[f] # p[g]
  <2>1. f < g \/ g < f
    BY <1>5, UnsettledFiles
  <2>2. f < g => p[f] \in Avoided(L, a, p, g)
    BY DEF Avoided
  <2>3. g < f => p[g] \in Avoided(L, a, p, f)
    BY DEF Avoided
  <2> QED
    BY <1>3, <2>1, <2>2, <2>3
<1> QED
  BY <1>1, <1>3, <1>4, <1>5

-----------------------------------------------------------------------------
(* The files S are moved one by one to names no other file has then.         *)

Others(L, a, old, S, now, f) ==
  {IF g \in S /\ g < f THEN now[g] ELSE old[g] : g \in Of(L, a) \ {f}}

(* The names the other files have are no more than there are files, *)
LEMMA OthersFit ==
  ASSUME NEW L, NEW a, NEW old, NEW S, NEW now, NEW f
  PROVE  \E used : Others(L, a, old, S, now, f) \ {Loose} \in SUBSET {used[g] : g \in Files}
<1>1. PICK used : used = [g \in Files |-> IF g \in S /\ g < f THEN now[g] ELSE old[g]]
  OBVIOUS
<1>2. Others(L, a, old, S, now, f) \ {Loose} \in SUBSET {used[g] : g \in Files}
  BY <1>1, UnsettledFiles DEF Others
<1> QED
  BY <1>2

(* so the names after the moves are what their recursive definition says, *)
LEMMA MovedIs ==
  ASSUME NEW L, NEW a, NEW old, NEW S \in SUBSET Files, NEW new, \A f \in S : new[f] \in Name
  PROVE  /\ \A f \in Files \ S : Moved(L, a, old, S, new)[f] = old[f]
         /\ \A f \in S : Moved(L, a, old, S, new)[f] =
                         Deduped(new[f], Others(L, a, old, S, Moved(L, a, old, S, new), f))
         /\ \E M : Moved(L, a, old, S, new) = [f \in Files |-> M[f]]
<1>1. S \in SUBSET Nat /\ IsFiniteSet(S)
  BY CountAssumption, FS_Subset
<1>2. PICK step : step = [f \in S |-> [u \in [S -> Name] |->
                           Deduped(new[f], Others(L, a, old, S, u, f))]]
  OBVIOUS
<1>3. ASSUME NEW f \in S, NEW u \in [S -> Name]
      PROVE  Deduped(new[f], Others(L, a, old, S, u, f)) \in Name
  <2>1. PICK used : Others(L, a, old, S, u, f) \ {Loose} \in SUBSET {used[g] : g \in Files}
    BY OthersFit
  <2>2. FreeName(new[f], Others(L, a, old, S, u, f) \ {Loose}) \in Name
    BY <2>1, FreeSlot
  <2> QED
    BY <2>2 DEF Deduped
<1>4. step \in [S -> [[S -> Name] -> Name]]
  BY <1>2, <1>3
<1>5. ASSUME NEW f \in S, NEW u \in [S -> Name], NEW w \in [S -> Name],
             \A g \in S : g < f => u[g] = w[g]
      PROVE  step[f][u] = step[f][w]
  <2>1. Others(L, a, old, S, u, f) = Others(L, a, old, S, w, f)
    BY <1>5 DEF Others
  <2> QED
    BY <1>2, <2>1
<1>6. PICK h : h \in [S -> Name] /\ \A f \in S : h[f] = step[f][h]
  <2>1. Causal(S, Name, step)
    BY <1>4, <1>5 DEF Causal
  <2>2. \E h : h \in [S -> Name] /\ \A f \in S : h[f] = step[f][h]
    BY <1>1, <2>1, NamesRecursion
  <2> QED
    BY <2>2
<1>7. h = [f \in S |-> Deduped(new[f], Others(L, a, old, S, h, f))]
  <2>1. \A f \in S : h[f] = Deduped(new[f], Others(L, a, old, S, h, f))
    BY <1>2, <1>6
  <2>2. h = [f \in S |-> h[f]]
    BY <1>6
  <2> QED
    BY <2>1, <2>2
<1>8. PICK now : now = MovedTo(L, a, old, S, new)
  OBVIOUS
<1>9. now = [f \in S |-> Deduped(new[f], Others(L, a, old, S, now, f))]
  <2>1. now = CHOOSE name : name = [f \in S |->
          Deduped(new[f], {IF g \in S /\ g < f THEN name[g] ELSE old[g] : g \in Of(L, a) \ {f}})]
    BY <1>8, Zenon DEF MovedTo
  <2>2. now = CHOOSE name : name = [f \in S |-> Deduped(new[f], Others(L, a, old, S, name, f))]
    BY <2>1 DEF Others
  <2> QED
    BY <1>7, <2>2
<1>10. Moved(L, a, old, S, new) = [f \in Files |-> IF f \in S THEN now[f] ELSE old[f]]
  BY <1>8 DEF Moved
<1>11. \A f \in S : Others(L, a, old, S, Moved(L, a, old, S, new), f) = Others(L, a, old, S, now, f)
  <2>1. \A f \in S : Moved(L, a, old, S, new)[f] = now[f]
    BY <1>10
  <2> QED
    BY <2>1 DEF Others
<1>12. \A f \in S : Moved(L, a, old, S, new)[f] = now[f]
  BY <1>10
<1>13. \A f \in S : now[f] = Deduped(new[f], Others(L, a, old, S, now, f))
  BY <1>9
<1>14. \A f \in Files \ S : Moved(L, a, old, S, new)[f] = old[f]
  BY <1>10
<1> QED
  BY <1>10, <1>11, <1>12, <1>13, <1>14

(* each free at its move: the planned one if no other file has it then, else that
   one with a number after it. *)
LEMMA MovedFacts ==
  ASSUME NEW L, NEW a, NEW old \in [Files -> Name], NEW S \in SUBSET Files, NEW new,
         \A f \in S : new[f] \in Name
  PROVE  /\ Moved(L, a, old, S, new) \in [Files -> Name]
         /\ \A f \in Files \ S : Moved(L, a, old, S, new)[f] = old[f]
         /\ \A f \in S : Moved(L, a, old, S, new)[f] \notin
                           Others(L, a, old, S, Moved(L, a, old, S, new), f) \ {Loose}
         /\ \A f \in S :
              \/ Moved(L, a, old, S, new)[f] = new[f]
              \/ \E k \in Nat : Moved(L, a, old, S, new)[f] = Suffixed(new[f], Append(new[f].tail, k))
         /\ \A f \in S : new[f] \notin Others(L, a, old, S, Moved(L, a, old, S, new), f)
                        => Moved(L, a, old, S, new)[f] = new[f]
<1>1. PICK now : now = Moved(L, a, old, S, new)
  OBVIOUS
<1>2. /\ \A f \in Files \ S : now[f] = old[f]
      /\ \A f \in S : now[f] = Deduped(new[f], Others(L, a, old, S, now, f))
      /\ \E M : now = [f \in Files |-> M[f]]
  BY <1>1, MovedIs
<1>3. ASSUME NEW f \in S
      PROVE  /\ now[f] \in Name /\ now[f] \notin Others(L, a, old, S, now, f) \ {Loose}
             /\ \/ now[f] = new[f]
                \/ \E k \in Nat : now[f] = Suffixed(new[f], Append(new[f].tail, k))
             /\ new[f] \notin Others(L, a, old, S, now, f) \ {Loose} => now[f] = new[f]
  <2>1. PICK used : Others(L, a, old, S, now, f) \ {Loose} \in SUBSET {used[g] : g \in Files}
    BY OthersFit
  <2>2. PICK taken \in SUBSET {used[g] : g \in Files} : taken = Others(L, a, old, S, now, f) \ {Loose}
    BY <2>1
  <2>3. now[f] = FreeName(new[f], taken)
    BY <1>2, <2>2 DEF Deduped
  <2> QED
    BY <2>2, <2>3, FreeSlot
<1>4. \A f \in Files : now[f] \in Name
  BY <1>2, <1>3
<1>5. now \in [Files -> Name]
  BY <1>2, <1>4
<1> QED
  BY <1>1, <1>2, <1>3, <1>5

-----------------------------------------------------------------------------
(* The database keeps its types when rows of one table are written. *)
LEMMA FilesWritten ==
  ASSUME NEW L \in Library, NEW F \in [Files -> EpisodeFile]
  PROVE  [L EXCEPT !.files = F] \in Library
BY DEF Library

LEMMA EntriesWritten ==
  ASSUME NEW L \in Library, NEW A \in [Animes -> Entry]
  PROVE  [L EXCEPT !.animes = A] \in Library
BY DEF Library

LEMMA FileWritten ==
  ASSUME NEW L \in Library, NEW f \in Files, NEW F, F \in EpisodeFile
  PROVE  [L EXCEPT !.files[f] = F] \in Library
<1>1. PICK G : G = [L.files EXCEPT ![f] = F]
  OBVIOUS
<1>2. G \in [Files -> EpisodeFile]
  BY <1>1 DEF Library
<1> QED
  BY <1>1, <1>2, FilesWritten

LEMMA EntryWritten ==
  ASSUME NEW L \in Library, NEW a \in Animes, NEW A \in Entry
  PROVE  [L EXCEPT !.animes[a] = A] \in Library
<1>1. [L.animes EXCEPT ![a] = A] \in [Animes -> Entry]
  BY DEF Library
<1> QED
  BY <1>1, EntriesWritten

(* Giving a lone file its number keeps the types. *)
LEMMA AloneFits ==
  ASSUME NEW L \in Library, NEW a
  PROVE  Alone(L, a) \in Library
<1>1. CASE Alone(L, a) = L
  BY <1>1
<1>2. CASE Alone(L, a) # L
  <2>1. PICK g \in Files : Of(L, a) = {g}
    BY <1>2 DEF Alone
  <2>2. (CHOOSE f \in Files : Of(L, a) = {f}) \in Files
    BY <2>1
  <2>3. PICK h \in Files : h = CHOOSE f \in Files : Of(L, a) = {f}
    BY <2>2
  <2>4. PICK t \in Texts : t = Text(CHOOSE n \in Numbers(Numbered(L, a)) : TRUE)
    BY Written
  <2>5. Alone(L, a) = [L EXCEPT !.files[h].num = t]
    BY <1>2, <2>3, <2>4 DEF Alone
  <2>6. [L.files[h] EXCEPT !.num = t] \in EpisodeFile
    BY DEF Library, EpisodeFile
  <2> QED
    BY <2>5, <2>6, FileWritten
<1> QED
  BY <1>1, <1>2

(* Reading numbers again from the names keeps the types. *)
LEMMA RereadFits ==
  ASSUME NEW L \in Library, NEW S
  PROVE  Reread(L, S) \in Library
<1>1. PICK F : F = [f \in Files |->
     IF f \in S /\ ~L.files[f].manual
     THEN [L.files[f] EXCEPT !.num = ParsedFrom(f, L.files[f].name)] ELSE L.files[f]]
  OBVIOUS
<1>2. \A f \in Files : ParsedFrom(f, L.files[f].name) \in Texts \cup {None}
  BY Written, CountAssumption DEF ParsedFrom
<1>3. \A f \in Files : [L.files[f] EXCEPT !.num = ParsedFrom(f, L.files[f].name)] \in EpisodeFile
  BY <1>2 DEF Library, EpisodeFile
<1>4. F \in [Files -> EpisodeFile]
  BY <1>1, <1>3 DEF Library
<1> QED
  BY <1>1, <1>4, FilesWritten DEF Reread

(* So does giving the files other names. *)
LEMMA WithNamesFits ==
  ASSUME NEW L \in Library, NEW names \in [Files -> Name]
  PROVE  /\ WithNames(L, names) \in Library
         /\ \A f \in Files :
              LET F == WithNames(L, names).files[f]
              IN  /\ F.name = names[f] /\ F.anime = L.files[f].anime
                  /\ F.num = L.files[f].num /\ F.manual = L.files[f].manual
<1>1. PICK F : F = [f \in Files |-> [L.files[f] EXCEPT !.name = names[f]]]
  OBVIOUS
<1>2. \A f \in Files : L.files[f] \in EpisodeFile
  BY DEF Library
<1>3. \A f \in Files : [L.files[f] EXCEPT !.name = names[f]] \in EpisodeFile
  BY <1>2 DEF EpisodeFile
<1>4. F \in [Files -> EpisodeFile]
  BY <1>1, <1>3
<1>5. \A f \in Files : /\ F[f].name = names[f] /\ F[f].anime = L.files[f].anime
                       /\ F[f].num = L.files[f].num /\ F[f].manual = L.files[f].manual
  BY <1>1, <1>2 DEF EpisodeFile
<1>6. WithNames(L, names) = [L EXCEPT !.files = F]
  BY <1>1 DEF WithNames
<1>7. WithNames(L, names).files = F
  BY <1>6 DEF Library
<1> QED
  BY <1>4, <1>5, <1>6, <1>7, FilesWritten

(* The names of the files after a renaming are names. *)
LEMMA NamesToBe ==
  ASSUME NEW L \in Library, NEW a, NEW old, old = [f \in Files |-> L.files[f].name],
         NEW S \in SUBSET FileRenames(L, a)
  PROVE  /\ old \in [Files -> Name]
         /\ S \in SUBSET Files
         /\ \A f \in S : Planned(L, a)[f] \in Name
         /\ Moved(L, a, old, S, Planned(L, a)) \in [Files -> Name]
<1>1. old \in [Files -> Name]
  BY DEF Library, EpisodeFile
<1>2. S \in SUBSET Files
  BY UnsettledFiles
<1>3. \A f \in S : Planned(L, a)[f] \in Name
  BY UnsettledFiles, PlanFacts
<1> QED
  BY <1>1, <1>2, <1>3, MovedFacts

(* So do the renaming of an entry, *)
LEMMA RenamedFits ==
  ASSUME NEW L \in Library, NEW a \in Animes, NEW S \in SUBSET FileRenames(L, a)
  PROVE  Renamed(L, a, S) \in Library
<1>1. PICK names : names = Moved(L, a, [f \in Files |-> L.files[f].name], S, Planned(L, a))
  OBVIOUS
<1>2. PICK M : M = WithNames(L, names)
  OBVIOUS
<1>3. M \in Library
  BY <1>1, <1>2, NamesToBe, WithNamesFits
<1>4. [M.animes[a] EXCEPT !.dir = L.order] \in Entry
  BY <1>3 DEF Library, Entry
<1>5. [M EXCEPT !.animes[a].dir = L.order] \in Library
  BY <1>3, <1>4, EntryWritten
<1> QED
  BY <1>1, <1>2, <1>5 DEF Renamed

(* the name of an entry whose anime turns out to be another one, *)
LEMMA MistitledFits ==
  ASSUME NEW L \in Library, NEW a \in Animes
  PROVE  Mistitled(L, a) \in Library
<1>1. [L.animes[a] EXCEPT !.dir = None] \in Entry
  BY DEF Library, Entry
<1>2. PICK F : F = [f \in Files |-> IF f \in Of(L, a) THEN [L.files[f] EXCEPT !.name.title = None]
                                   ELSE L.files[f]]
  OBVIOUS
<1>3. ASSUME NEW f \in Files PROVE [L.files[f] EXCEPT !.name.title = None] \in EpisodeFile
  <2>1. L.files[f] \in EpisodeFile
    BY DEF Library
  <2>2. [L.files[f].name EXCEPT !.title = None] \in Name
    BY <2>1 DEF EpisodeFile, Name
  <2> QED
    BY <2>1, <2>2 DEF EpisodeFile
<1>4. F \in [Files -> EpisodeFile]
  BY <1>2, <1>3 DEF Library
<1>5. PICK M : M = [L EXCEPT !.animes[a].dir = None]
  OBVIOUS
<1>6. M \in Library
  BY <1>1, <1>5, EntryWritten
<1>7. [M EXCEPT !.files = F] \in Library
  BY <1>4, <1>6, FilesWritten
<1>8. Mistitled(L, a) = [M EXCEPT !.files = F]
  BY <1>2, <1>5 DEF Mistitled
<1> QED
  BY <1>7, <1>8

(* the recovery of title variants, *)
LEMMA BackfilledFits ==
  ASSUME NEW L \in Library, NEW S
  PROVE  Backfilled(L, S) \in Library
<1>1. ASSUME NEW a \in Animes PROVE [L.animes[a] EXCEPT !.known = TRUE] \in Entry
  <2>1. L.animes[a] \in Entry
    BY DEF Library
  <2>2. PICK yes \in BOOLEAN : yes = TRUE
    OBVIOUS
  <2>3. [L.animes[a] EXCEPT !.known = yes] \in Entry
    BY <2>1 DEF Entry
  <2> QED
    BY <2>2, <2>3
<1>2. [a \in Animes |-> IF a \in S /\ L.animes[a].aid # 0 THEN [L.animes[a] EXCEPT !.known = TRUE]
                       ELSE L.animes[a]] \in [Animes -> Entry]
  BY <1>1 DEF Library
<1> QED
  BY <1>2, EntriesWritten DEF Backfilled

(* and that of an episode list. *)
LEMMA RelistedFits ==
  ASSUME NEW L \in Library, NEW S, NEW list \in SUBSET Texts
  PROVE  Relisted(L, S, list) \in Library
<1>1. \A a \in Animes : [L.animes[a] EXCEPT !.list = list] \in Entry
  BY DEF Library, Entry
<1>2. [a \in Animes |-> IF a \in S /\ L.animes[a].aid # 0 /\ L.animes[a].list = {}
                       THEN [L.animes[a] EXCEPT !.list = list] ELSE L.animes[a]] \in [Animes -> Entry]
  BY <1>1 DEF Library
<1> QED
  BY <1>2, EntriesWritten DEF Relisted

-----------------------------------------------------------------------------
(* Every change is a commit of another well-typed library; only a lone file *)
(* that has its number already changes nothing.                             *)

Committed == lone' \subseteq Animes /\ \E L \in Library : \E kind : Commit(L, kind)

(* An identified entry, and one that was moved, are entries. *)
LEMMA EntryValues ==
  ASSUME NEW A \in Entry
  PROVE  /\ \A aid \in FoundAids, list \in SUBSET Texts, known \in BOOLEAN :
              [A EXCEPT !.status = "identified", !.aid = aid, !.list = list, !.known = known]
                \in Entry
         /\ \A no \in BOOLEAN, dir \in Orders : [A EXCEPT !.download = no, !.dir = dir] \in Entry
<1>1. ASSUME NEW aid \in FoundAids, NEW list \in SUBSET Texts, NEW known \in BOOLEAN
      PROVE  [A EXCEPT !.status = "identified", !.aid = aid, !.list = list, !.known = known]
               \in Entry
  <2>1. PICK B : B = [A EXCEPT !.status = "identified", !.aid = aid, !.list = list,
                               !.known = known]
    OBVIOUS
  <2>2. B = [status |-> "identified", aid |-> aid, download |-> A.download, known |-> known,
             dir |-> A.dir, list |-> list]
    BY <2>1 DEF Entry
  <2>3. B \in Entry
    BY <2>2 DEF Entry
  <2> QED
    BY <2>1, <2>3
<1>2. ASSUME NEW no \in BOOLEAN, NEW dir \in Orders
      PROVE  [A EXCEPT !.download = no, !.dir = dir] \in Entry
  <2>1. PICK B : B = [A EXCEPT !.download = no, !.dir = dir]
    OBVIOUS
  <2>2. B = [status |-> A.status, aid |-> A.aid, download |-> no, known |-> A.known,
             dir |-> dir, list |-> A.list]
    BY <2>1 DEF Entry
  <2>3. B \in Entry
    BY <2>2 DEF Entry
  <2> QED
    BY <2>1, <2>3
<1> QED
  BY <1>1, <1>2

(* What happens to one entry, *)
LEMMA EntryChanges ==
  ASSUME lib \in Library, lone \subseteq Animes, NEW a \in Animes,
         \/ \E aid \in FoundAids, list \in Lists, known \in BOOLEAN : Identify(a, aid, list, known)
         \/ Review(a) \/ Rename(a) \/ Relocate(a)
  PROVE  Committed
<1>1. ASSUME NEW aid \in FoundAids, NEW list \in Lists, NEW known \in BOOLEAN,
             Identify(a, aid, list, known)
      PROVE  Committed
  <2>0. PICK B \in Library : B = IF lib.animes[a].aid \in {0, aid} THEN lib ELSE Mistitled(lib, a)
    BY MistitledFits
  <2>1. PICK A : A = [B.animes[a] EXCEPT !.status = "identified", !.aid = aid,
                                         !.list = list, !.known = known]
    OBVIOUS
  <2>2. A \in Entry
    <3>1. B.animes[a] \in Entry /\ list \in SUBSET Texts
      BY CountAssumption DEF Library
    <3> QED
      BY <2>1, <3>1, EntryValues
  <2>3. [B EXCEPT !.animes[a] = A] \in Library
    BY <2>2, EntryWritten
  <2> QED
    BY <1>1, <2>0, <2>1, <2>3 DEF Identify, Committed
<1>2. ASSUME Review(a) PROVE Committed
  <2>1. [lib.animes[a] EXCEPT !.status = "review"] \in Entry
    BY DEF Library, Entry
  <2>2. [lib EXCEPT !.animes[a].status = "review"] \in Library
    BY <2>1, EntryWritten
  <2> QED
    BY <1>2, <2>2 DEF Review, Committed
<1>3. ASSUME Rename(a) PROVE Committed
  <2>1. \A S \in Reached(lib, a) : S \in SUBSET FileRenames(lib, a)
    BY DEF Reached
  <2> QED
    BY <1>3, <2>1, RenamedFits DEF Rename, Committed
<1>4. ASSUME Relocate(a) PROVE Committed
  <2>1. PICK names \in [Files -> Name] :
          Commit([WithNames(lib, names) EXCEPT
                    !.animes[a] = [@ EXCEPT !.download = FALSE, !.dir = lib.order]], "anime")
    <3>1. PICK out : out = [f \in Files |-> IF f \in Of(lib, a) THEN Loose ELSE lib.files[f].name]
      OBVIOUS
    <3>2. out \in [Files -> Name]
      BY <3>1, LooseIsName DEF Library, EpisodeFile
    <3>3. PICK targets : targets = [f \in Of(lib, a) |-> TargetName(lib, f)]
      OBVIOUS
    <3>4. \A f \in Of(lib, a) : targets[f] \in Name
      BY <3>3, Targets, UnsettledFiles
    <3>5. Of(lib, a) \in SUBSET Files
      BY UnsettledFiles
    <3>6. Moved(lib, a, out, Of(lib, a), targets) \in [Files -> Name]
      BY <3>2, <3>4, <3>5, MovedFacts
    <3> QED
      BY <1>4, <3>1, <3>3, <3>6 DEF Relocate
  <2>2. PICK M : M = WithNames(lib, names)
    OBVIOUS
  <2>3. M \in Library
    BY <2>2, WithNamesFits
  <2>4. PICK no \in BOOLEAN : no = FALSE
    OBVIOUS
  <2>5. [M.animes[a] EXCEPT !.download = no, !.dir = lib.order] \in Entry
    <3>1. M.animes[a] \in Entry /\ lib.order \in Orders
      BY <2>3 DEF Library
    <3> QED
      BY <3>1, EntryValues
  <2>6. [M EXCEPT !.animes[a] = [@ EXCEPT !.download = no, !.dir = lib.order]] \in Library
    BY <2>3, <2>5, EntryWritten
  <2> QED
    BY <1>4, <2>1, <2>2, <2>4, <2>6 DEF Relocate, Committed
<1> QED
  BY <1>1, <1>2, <1>3, <1>4

(* what a scan or a deletion makes of its files, *)
LEMMA FileChanges ==
  ASSUME lib \in Library, lone \subseteq Animes, NEW a \in Animes,
         \/ \E S \in SUBSET Files : Scan(a, S)
         \/ Removed(a) \/ Delete(a)
  PROVE  Committed
<1>1. ASSUME NEW S \in SUBSET Files, Scan(a, S) PROVE Committed
  <2>1. PICK F : F = [f \in Files |->
                  CASE f \in S \ Of(lib, a) -> [NoFile EXCEPT !.anime = a]
                    [] f \in Of(lib, a) \ S -> NoFile
                    [] OTHER -> lib.files[f]]
    OBVIOUS
  <2>2. NoFile \in EpisodeFile
    BY LooseIsName DEF EpisodeFile, NoFile
  <2>3. [NoFile EXCEPT !.anime = a] \in EpisodeFile
    BY <2>2 DEF EpisodeFile
  <2>4. \A f \in Files : F[f] \in {[NoFile EXCEPT !.anime = a], NoFile, lib.files[f]}
    BY <2>1
  <2>5. F \in [Files -> EpisodeFile]
    BY <2>1, <2>2, <2>3, <2>4 DEF Library
  <2>6. PICK found : found = [lib EXCEPT !.files = F]
    OBVIOUS
  <2>7. found \in Library
    BY <2>1, <2>5, <2>6, FilesWritten
  <2>8. Alone(Reread(found, S), a) \in Library
    BY <2>7, RereadFits, AloneFits
  <2>9. Commit(Alone(Reread(found, S), a), "anime") /\ lone' = lone
    BY <1>1, <2>1, <2>6 DEF Scan
  <2> QED
    BY <2>8, <2>9 DEF Committed
<1>2. Without(lib, a) \in Library
  <2>1. PICK F : F = [f \in Files |-> IF lib.files[f].anime = a THEN NoFile ELSE lib.files[f]]
    OBVIOUS
  <2>2. NoFile \in EpisodeFile
    BY LooseIsName DEF EpisodeFile, NoFile
  <2>3. F \in [Files -> EpisodeFile]
    BY <2>1, <2>2 DEF Library
  <2>4. PICK M : M = [lib EXCEPT !.animes[a] = NoAnime]
    OBVIOUS
  <2>5. NoAnime \in Entry
    BY DEF NoAnime, Entry
  <2>6. M \in Library
    BY <2>4, <2>5, EntryWritten
  <2>7. [M EXCEPT !.files = F] \in Library
    BY <2>1, <2>3, <2>6, FilesWritten
  <2> QED
    BY <2>1, <2>4, <2>7 DEF Without
<1>3. ASSUME Removed(a) PROVE Committed
  BY <1>2, <1>3 DEF Removed, Committed
<1>4. ASSUME Delete(a) PROVE Committed
  BY <1>2, <1>4 DEF Delete, Committed
<1> QED
  BY <1>1, <1>3, <1>4

(* and everything else commits a library. *)
LEMMA OtherChanges ==
  ASSUME lib \in Library, lone \subseteq Animes,
         \/ \E f \in Files, t \in Texts \cup {None} : Assign(f, t)
         \/ \E aid \in FoundAids : Wish(aid) \/ Unwish(aid)
         \/ \E S \in SUBSET Animes : SetOrder(S) \/ \E list \in Lists : Repair(S, list)
         \/ \E S \in SUBSET Animes, kind \in {"anime", None} : Backfill(S, kind)
  PROVE  Committed
<1>1. ASSUME NEW f \in Files, NEW t \in Texts \cup {None}, Assign(f, t) PROVE Committed
  <2>1. PICK manual \in BOOLEAN : manual = (t # None)
    OBVIOUS
  <2>2. [lib.files[f] EXCEPT !.num = t, !.manual = manual] \in EpisodeFile
    BY DEF Library, EpisodeFile
  <2>3. PICK F : F = [lib.files[f] EXCEPT !.num = t, !.manual = manual]
    OBVIOUS
  <2>4. [lib EXCEPT !.files[f] = F] \in Library
    BY <2>2, <2>3, FileWritten
  <2>5. Assigned(lib, f, t) = [lib EXCEPT !.files[f] = F]
    BY <2>1, <2>3 DEF Assigned, Library
  <2> QED
    BY <1>1, <2>4, <2>5 DEF Assign, Committed
<1>2. ASSUME NEW aid \in FoundAids, Wish(aid) \/ Unwish(aid) PROVE Committed
  <2>1. /\ [lib EXCEPT !.wishes = @ \cup {aid}] \in Library
        /\ [lib EXCEPT !.wishes = @ \ {aid}] \in Library
    BY DEF Library
  <2> QED
    BY <1>2, <2>1 DEF Wish, Unwish, Committed
<1>3. ASSUME NEW S \in SUBSET Animes, SetOrder(S) PROVE Committed
  <2>1. PICK other : other = CHOOSE o \in Orders : o # lib.order
    OBVIOUS
  <2>2. other \in Orders
    BY <2>1 DEF Orders
  <2>3. PICK M : M = [lib EXCEPT !.order = other]
    OBVIOUS
  <2>4. M \in Library
    BY <2>2, <2>3 DEF Library
  <2>5. Backfilled(M, S) \in Library
    BY <2>4, BackfilledFits
  <2> QED
    BY <1>3, <2>1, <2>3, <2>5 DEF SetOrder, Committed
<1>4. ASSUME NEW S \in SUBSET Animes, NEW list \in Lists, Repair(S, list) PROVE Committed
  <2>1. PICK M : M = Relisted(Backfilled(lib, S), S, list)
    OBVIOUS
  <2>2. M \in Library
    BY <2>1, BackfilledFits, RelistedFits, CountAssumption
  <2>3. Reread(M, {f \in Files : lib.files[f].anime # 0}) \in Library
    BY <2>2, RereadFits
  <2> QED
    BY <1>4, <2>1, <2>3 DEF Repair, Committed
<1>5. ASSUME NEW S \in SUBSET Animes, NEW kind \in {"anime", None}, Backfill(S, kind)
      PROVE  Committed
  BY <1>5, BackfilledFits DEF Backfill, Committed
<1> QED
  BY <1>1, <1>2, <1>3, <1>4, <1>5

(* A change commits another library, or was one of nothing. *)
LEMMA ChangeCommits ==
  ASSUME lib \in Library, lone \subseteq Animes, Change
  PROVE  \/ Committed
         \/ /\ UNCHANGED <<lib, untold, cached, readers, quiet, clean, changes>>
            /\ lone' \subseteq Animes
<1>1. ASSUME NEW a \in Animes, AssignLone(a)
      PROVE  \/ Committed
             \/ /\ UNCHANGED <<lib, untold, cached, readers, quiet, clean, changes>>
                /\ lone' \subseteq Animes
  BY <1>1, AloneFits DEF AssignLone, Committed
<1> QED
  BY <1>1, EntryChanges, FileChanges, OtherChanges DEF Change

-----------------------------------------------------------------------------
(* The badge.  A computation that counts the library as it is has in its sum *)
(* exactly the counts it has made so far; and it does so if the library has  *)
(* not changed since it began, or since the cache was dropped.               *)

SoFar(at, L) ==
  LET review == Cardinality(NeedingReview(L))
      duplicates == review + CountDuplicateGroups(L)
      sort == duplicates + CountSortQueue(L)
      rename == sort + Cardinality(RenameQueue(L))
  IN  CASE at = "review" -> 0 [] at = "duplicates" -> review [] at = "sort" -> duplicates
        [] at \in {"rows", "rename"} -> sort [] at = "unassigned" -> rename
        [] OTHER -> rename + Cardinality(Unassigned(L))

Current(r) == readers[r].settled \/ readers[r].age < quiet \/ clean
CountsFit == \A r \in InFlight : Current(r) =>
  /\ readers[r].sum = SoFar(readers[r].at, lib)
  /\ readers[r].at = "rename" => readers[r].rows = RowsToName(lib)

\* What is cached and younger than the last change, or computed since the cache
\* was dropped, is the total of the library as it is.
CacheFits == cached.total # -1 /\ (cached.age < quiet \/ clean) => cached.total = Total(lib)
SettledFits == \A r \in Readers : readers[r].settled => quiet = TTL

CountInv == CountTypeOK /\ CountsFit /\ CacheFits /\ AnswersRight /\ SettledFits

(* The steps of a computation. *)
LEMMA StagesAre ==
  /\ Stages = {"idle", "done", "review", "duplicates", "sort", "rows", "rename",
               "unassigned", "store"}
  /\ Next1("review") = "duplicates" /\ Next1("duplicates") = "sort" /\ Next1("sort") = "rows"
  /\ Next1("rows") = "rename" /\ Next1("rename") = "unassigned" /\ Next1("unassigned") = "store"
<1>1. Len(Steps) = 7 /\ DOMAIN Steps = 1 .. 7
  BY DEF Steps
<1>2. /\ Steps[1] = "review" /\ Steps[2] = "duplicates" /\ Steps[3] = "sort"
      /\ Steps[4] = "rows" /\ Steps[5] = "rename" /\ Steps[6] = "unassigned"
      /\ Steps[7] = "store"
  BY DEF Steps
<1>3. 1 .. 7 = {1, 2, 3, 4, 5, 6, 7}
  OBVIOUS
<1>4. Stages = {"idle", "done", "review", "duplicates", "sort", "rows", "rename",
               "unassigned", "store"}
  BY <1>1, <1>2, <1>3 DEF Stages
<1>5. \A i \in 1 .. 6 : Next1(Steps[i]) = Steps[i + 1]
  <2> SUFFICES ASSUME NEW i \in 1 .. 6 PROVE Next1(Steps[i]) = Steps[i + 1]
    OBVIOUS
  <2>1. \A j \in 1 .. 7 : Steps[j] = Steps[i] => j = i
    BY <1>2
  <2>2. (CHOOSE j \in DOMAIN Steps : Steps[j] = Steps[i]) = i
    BY <1>1, <2>1
  <2> QED
    BY <2>2 DEF Next1
<1> QED
  BY <1>2, <1>4, <1>5

(* A row that was taken with the name the entry has is in the queue or not. *)
LEMMA NamedRows ==
  ASSUME NEW L
  PROVE  Cardinality({row \in RowsToName(L) :
                        row[1] \in RenameRows(L) /\ NeedsRename(L, row[1], row[2])})
           = Cardinality(RenameQueue(L))
<1>1. PICK f : f = [a \in RenameRows(L) |-> <<a, L.animes[a].dir>>]
  OBVIOUS
<1>2. RenameQueue(L) \subseteq RenameRows(L)
  BY DEF RenameQueue
<1>3. \A a, b \in RenameQueue(L) : f[a] = f[b] => a = b
  BY <1>1, <1>2
<1>4. Cardinality({f[a] : a \in RenameQueue(L)}) = Cardinality(RenameQueue(L))
  BY <1>3, CountedFinite, OneToOne
<1>5. {f[a] : a \in RenameQueue(L)} =
        {row \in RowsToName(L) : row[1] \in RenameRows(L) /\ NeedsRename(L, row[1], row[2])}
  BY <1>1 DEF RowsToName, RenameQueue
<1> QED
  BY <1>4, <1>5

(* A count adds what the sum still needs. *)
LEMMA PartsAdd ==
  ASSUME NEW r \in InFlight, readers[r].at \in Stages, readers[r].at # "store",
         readers[r].at = "rename" => readers[r].rows = RowsToName(lib)
  PROVE  SoFar(Next1(readers[r].at), lib) = SoFar(readers[r].at, lib) + Part(r)
<1>1. readers[r].at \in {"review", "duplicates", "sort", "rows", "rename", "unassigned"}
  BY StagesAre DEF InFlight
<1>2. CASE readers[r].at = "rename"
  BY <1>2, StagesAre, NamedRows, CountsAreNumbers DEF SoFar, Part
<1>3. CASE readers[r].at # "rename"
  BY <1>1, <1>3, StagesAre, CountsAreNumbers DEF SoFar, Part
<1> QED
  BY <1>2, <1>3

(* After a commit no computation is current and the cache is not younger. *)
LEMMA CommitKeeps ==
  ASSUME CountInv, Committed
  PROVE  CountInv'
<1>1. PICK L \in Library : \E kind : Commit(L, kind)
  BY DEF Committed
<1>2. lib' \in Library
  BY <1>1 DEF Commit
<1>3. untold' \in [Kinds -> Nat]
  BY <1>1 DEF Commit, CountInv, CountTypeOK
<1>4. /\ quiet' = 0 /\ clean' = FALSE /\ cached' = cached /\ changes' = changes + 1
      /\ changes < MaxChanges
  BY <1>1 DEF Commit
<1>5. PICK no \in BOOLEAN : no = FALSE
  OBVIOUS
<1>6. readers' = [r \in Readers |-> [readers[r] EXCEPT !.settled = no]]
  BY <1>1, <1>5 DEF Commit
<1>7. readers' \in [Readers -> [at : Stages, sum : Nat,
                              rows : SUBSET (Animes \X (Orders \cup {None})),
                              age : 0 .. TTL, settled : BOOLEAN]]
  <2>1. \A r \in Readers : readers[r] \in [at : Stages, sum : Nat,
                              rows : SUBSET (Animes \X (Orders \cup {None})),
                              age : 0 .. TTL, settled : BOOLEAN]
    BY DEF CountInv, CountTypeOK
  <2>2. \A r \in Readers : [readers[r] EXCEPT !.settled = no] \in
                              [at : Stages, sum : Nat,
                              rows : SUBSET (Animes \X (Orders \cup {None})),
                              age : 0 .. TTL, settled : BOOLEAN]
    BY <2>1
  <2> QED
    BY <1>6, <2>2
<1>8. \A r \in Readers : ~readers'[r].settled /\ readers'[r].age \in 0 .. TTL
  <2>1. \A r \in Readers : readers'[r].settled = no
    BY <1>6 DEF CountInv, CountTypeOK
  <2>2. \A r \in Readers : readers'[r].age \in 0 .. TTL
    BY <1>7
  <2> QED
    BY <1>5, <2>1, <2>2
<1>9. CountTypeOK'
  <2>1. changes' \in 0 .. MaxChanges /\ quiet' \in 0 .. TTL /\ lone' \subseteq Animes
    BY <1>4, CountAssumption DEF CountInv, CountTypeOK, Committed
  <2>2. clean' \in BOOLEAN /\ cached' \in [total : Nat \cup {-1}, age : 0 .. TTL]
    BY <1>4 DEF CountInv, CountTypeOK
  <2> QED
    BY <1>2, <1>3, <1>7, <2>1, <2>2 DEF CountTypeOK
<1>10. CountsFit'
  BY <1>4, <1>8, CountAssumption DEF CountsFit, InFlight, Current
<1>11. CacheFits'
  BY <1>4, <1>9, CountAssumption DEF CacheFits, CountTypeOK
<1>12. AnswersRight' /\ SettledFits'
  BY <1>8 DEF AnswersRight, SettledFits
<1> QED
  BY <1>9, <1>10, <1>11, <1>12 DEF CountInv

(* Steps that only touch the announcements and the ghosts of a library that *)
(* stays.                                                                    *)
LEMMA PublishKeeps ==
  ASSUME CountInv, NEW kind \in Kinds, Publish(kind)
  PROVE  CountInv'
<1>1. CountTypeOK'
  <2>1. untold' \in [Kinds -> Nat]
    BY DEF Publish, CountInv, CountTypeOK
  <2>2. cached' \in [total : Nat \cup {-1}, age : 0 .. TTL]
    BY CountAssumption DEF Publish, NoTotal, CountInv, CountTypeOK
  <2>3. clean' \in BOOLEAN
    BY DEF Publish
  <2> QED
    BY <2>1, <2>2, <2>3 DEF Publish, CountInv, CountTypeOK
<1>2. cached'.total = -1
  BY DEF Publish, Drops, NoTotal
<1>3. CacheFits'
  BY <1>2 DEF CacheFits
<1>4. CountsFit'
  BY DEF Publish, CountInv, CountsFit, Current, InFlight
<1>5. AnswersRight' /\ SettledFits'
  BY DEF Publish, CountInv, AnswersRight, SettledFits
<1> QED
  BY <1>1, <1>3, <1>4, <1>5 DEF CountInv

(* Time makes the cache and the computations older, and the last change too. *)
LEMMA TickKeeps ==
  ASSUME CountInv, Tick
  PROVE  CountInv'
<1>1. \A n \in 0 .. TTL : Older(n) \in 0 .. TTL
  BY CountAssumption DEF Older
<1>2. \A m, n \in 0 .. TTL : Older(m) < Older(n) => m < n
  BY CountAssumption DEF Older
<1>3. /\ quiet \in 0 .. TTL /\ cached \in [total : Nat \cup {-1}, age : 0 .. TTL]
  BY DEF CountInv, CountTypeOK
<1>4. /\ cached' \in [total : Nat \cup {-1}, age : 0 .. TTL] /\ cached'.total = cached.total
      /\ cached.total # -1 => cached'.age = Older(cached.age)
  BY <1>1, <1>3, CountAssumption DEF Tick
<1>5. PICK now : now = [r \in Readers |-> IF r \in InFlight THEN [readers[r] EXCEPT !.age = Older(@)]
                                   ELSE readers[r]]
  OBVIOUS
<1>6. readers' = now
  BY <1>5 DEF Tick
<1>7. \A r \in Readers : /\ readers'[r].at = readers[r].at /\ readers'[r].sum = readers[r].sum
                         /\ readers'[r].rows = readers[r].rows
                         /\ readers'[r].settled = readers[r].settled
                         /\ r \in InFlight => readers'[r].age = Older(readers[r].age)
                         /\ r \notin InFlight => readers'[r] = readers[r]
  BY <1>5, <1>6 DEF CountInv, CountTypeOK
<1>8. readers' \in [Readers -> [at : Stages, sum : Nat,
                              rows : SUBSET (Animes \X (Orders \cup {None})),
                              age : 0 .. TTL, settled : BOOLEAN]]
  BY <1>1, <1>5, <1>6 DEF CountInv, CountTypeOK
<1>9. InFlight' = InFlight
  BY <1>7 DEF InFlight
<1>10. CountTypeOK'
  BY <1>1, <1>3, <1>4, <1>8 DEF Tick, CountInv, CountTypeOK
<1>11. CountsFit'
  <2> SUFFICES ASSUME NEW r \in InFlight', Current(r)'
               PROVE  /\ readers'[r].sum = SoFar(readers'[r].at, lib')
                      /\ readers'[r].at = "rename" => readers'[r].rows = RowsToName(lib')
    BY DEF CountsFit
  <2>1. r \in InFlight /\ r \in Readers
    BY <1>9 DEF InFlight
  <2>2. Current(r)
    BY <1>2, <1>3, <1>7, <2>1 DEF Current, Tick, CountInv, CountTypeOK
  <2>3. /\ readers[r].sum = SoFar(readers[r].at, lib)
        /\ readers[r].at = "rename" => readers[r].rows = RowsToName(lib)
    BY <2>1, <2>2 DEF CountInv, CountsFit
  <2> QED
    BY <1>7, <2>1, <2>3 DEF Tick
<1>12. CacheFits'
  BY <1>2, <1>3, <1>4 DEF Tick, CountInv, CacheFits
<1>13. AnswersRight' /\ SettledFits'
  BY <1>3, <1>7, CountAssumption DEF Tick, Older, CountInv, AnswersRight, SettledFits
<1> QED
  BY <1>10, <1>11, <1>12, <1>13 DEF CountInv

(* A step of one request changes no other.  What it leaves in the record of  *)
(* the request keeps the invariant if it fits there.                         *)
LEMMA ReaderKeeps ==
  ASSUME CountInv, UNCHANGED <<lib, lone, untold, quiet, clean, changes>>,
         NEW r \in Readers, NEW now \in [at : Stages, sum : Nat,
                              rows : SUBSET (Animes \X (Orders \cup {None})),
                              age : 0 .. TTL, settled : BOOLEAN],
         readers' = [readers EXCEPT ![r] = now],
         cached' \in [total : Nat \cup {-1}, age : 0 .. TTL], CacheFits',
         now.settled => quiet = TTL,
         now.at \notin {"idle", "done"} /\ (now.settled \/ now.age < quiet \/ clean) =>
           /\ now.sum = SoFar(now.at, lib)
           /\ now.at = "rename" => now.rows = RowsToName(lib),
         now.at = "done" /\ now.settled => now.sum = Total(lib)
  PROVE  CountInv'
<1>1. readers' \in [Readers -> [at : Stages, sum : Nat,
                              rows : SUBSET (Animes \X (Orders \cup {None})),
                              age : 0 .. TTL, settled : BOOLEAN]]
  BY DEF CountInv, CountTypeOK
<1>2. readers'[r] = now /\ \A s \in Readers \ {r} : readers'[s] = readers[s]
  BY DEF CountInv, CountTypeOK
<1>3. CountTypeOK'
  BY <1>1 DEF CountInv, CountTypeOK
<1>4. CountsFit'
  BY <1>2 DEF CountInv, CountsFit, InFlight, Current
<1>5. AnswersRight' /\ SettledFits'
  BY <1>2 DEF CountInv, AnswersRight, SettledFits
<1> QED
  BY <1>3, <1>4, <1>5 DEF CountInv

(* A request is answered from a valid cache, or begins to count. *)
LEMMA AskKeeps ==
  ASSUME CountInv, NEW r \in Readers, Ask(r)
  PROVE  CountInv'
<1>1. PICK settled \in BOOLEAN : settled = (quiet = TTL)
  OBVIOUS
<1>2. PICK now : now = [NoRequest EXCEPT !.at = IF Valid THEN "done" ELSE "review",
                    !.sum = IF Valid THEN cached.total ELSE 0, !.settled = settled]
  OBVIOUS
<1>3. now = [at |-> IF Valid THEN "done" ELSE "review", sum |-> IF Valid THEN cached.total ELSE 0,
             rows |-> {}, age |-> 0, settled |-> settled]
  BY <1>2 DEF NoRequest
<1>4. /\ cached \in [total : Nat \cup {-1}, age : 0 .. TTL]
      /\ Valid => cached.total \in Nat /\ cached.age < TTL
  BY DEF CountInv, CountTypeOK, Valid
<1>5. now \in [at : Stages, sum : Nat, rows : SUBSET (Animes \X (Orders \cup {None})),
              age : 0 .. TTL, settled : BOOLEAN]
  BY <1>3, <1>4, StagesAre, CountAssumption
<1>6. readers' = [readers EXCEPT ![r] = now]
  BY <1>1, <1>2 DEF Ask
<1>7. now.at \notin {"idle", "done"} => now.at = "review" /\ now.sum = SoFar("review", lib)
  BY <1>3 DEF SoFar
<1>8. now.at = "done" /\ now.settled => now.sum = Total(lib)
  BY <1>1, <1>3, <1>4 DEF CountInv, CountTypeOK, CacheFits, Valid
<1>9. cached' = cached /\ CacheFits'
  BY DEF Ask, CountInv, CacheFits
<1>10. now.settled => quiet = TTL
  BY <1>1, <1>3
<1>11. now.at \notin {"idle", "done"} /\ (now.settled \/ now.age < quiet \/ clean) =>
           /\ now.sum = SoFar(now.at, lib)
           /\ now.at = "rename" => now.rows = RowsToName(lib)
  BY <1>7
<1>12. UNCHANGED <<lib, lone, untold, quiet, clean, changes>> /\ cached' = cached
  BY DEF Ask
<1>13. cached' \in [total : Nat \cup {-1}, age : 0 .. TTL]
  BY <1>4, <1>12
<1> QED
  BY <1>5, <1>6, <1>8, <1>9, <1>10, <1>11, <1>12, <1>13, ReaderKeeps

(* One count more is in the sum. *)
LEMMA CountKeeps ==
  ASSUME CountInv, NEW r \in Readers, Count(r)
  PROVE  CountInv'
<1>1. PICK o : o = readers[r]
  OBVIOUS
<1>2. o \in [at : Stages, sum : Nat, rows : SUBSET (Animes \X (Orders \cup {None})),
            age : 0 .. TTL, settled : BOOLEAN]
  BY <1>1 DEF CountInv, CountTypeOK
<1>3. PICK found : found = IF o.at = "rows" THEN RowsToName(lib) ELSE {}
  OBVIOUS
<1>4. PICK now : now = [o EXCEPT !.at = Next1(@), !.sum = @ + Part(r), !.rows = found]
  OBVIOUS
<1>5. now = [at |-> Next1(o.at), sum |-> o.sum + Part(r), rows |-> found, age |-> o.age,
             settled |-> o.settled]
  BY <1>2, <1>4
<1>6. readers' = [readers EXCEPT ![r] = now]
  BY <1>1, <1>3, <1>4 DEF Count
<1>7. o.at \in {"review", "duplicates", "sort", "rows", "rename", "unassigned"}
  BY <1>1, <1>2, StagesAre DEF Count, InFlight
<1>8. Part(r) \in Nat
  <2>1. o.rows \in SUBSET (Animes \X (Orders \cup {None}))
    BY <1>2
  <2>2. IsFiniteSet(Animes \X (Orders \cup {None}))
    <3>1. IsFiniteSet({}) /\ IsFiniteSet({} \cup {"main"})
          /\ IsFiniteSet(({} \cup {"main"}) \cup {"en"})
          /\ IsFiniteSet((({} \cup {"main"}) \cup {"en"}) \cup {None})
      BY FS_EmptySet, FS_AddElement
    <3>2. (({} \cup {"main"}) \cup {"en"}) \cup {None} = Orders \cup {None}
      BY DEF Orders
    <3> QED
      BY <3>1, <3>2, FS_Product, CountAssumption
  <2>3. {row \in o.rows : row[1] \in RenameRows(lib) /\ NeedsRename(lib, row[1], row[2])}
          \in SUBSET (Animes \X (Orders \cup {None}))
    BY <2>1
  <2>4. Cardinality({row \in o.rows : row[1] \in RenameRows(lib) /\ NeedsRename(lib, row[1], row[2])})
          \in Nat
    BY <2>2, <2>3, FS_Subset, FS_CardinalityType
  <2> QED
    BY <1>1, <2>4, CountsAreNumbers DEF Part
<1>9. RowsToName(lib) \in SUBSET (Animes \X (Orders \cup {None}))
  BY DEF RowsToName, RenameRows, Identified, CountInv, CountTypeOK, Library, Entry
<1>10. now \in [at : Stages, sum : Nat, rows : SUBSET (Animes \X (Orders \cup {None})),
               age : 0 .. TTL, settled : BOOLEAN]
  BY <1>2, <1>3, <1>5, <1>7, <1>8, <1>9, StagesAre
<1>11. now.at \notin {"idle", "done"} /\ (now.settled \/ now.age < quiet \/ clean) =>
           /\ now.sum = SoFar(now.at, lib)
           /\ now.at = "rename" => now.rows = RowsToName(lib)
  <2> SUFFICES ASSUME now.settled \/ now.age < quiet \/ clean
               PROVE  /\ now.sum = SoFar(now.at, lib)
                      /\ now.at = "rename" => now.rows = RowsToName(lib)
    OBVIOUS
  <2>1. r \in InFlight /\ Current(r)
    BY <1>1, <1>5 DEF Count, Current
  <2>2. /\ o.sum = SoFar(o.at, lib)
        /\ o.at = "rename" => o.rows = RowsToName(lib)
    BY <1>1, <2>1 DEF CountInv, CountsFit
  <2>3. SoFar(Next1(o.at), lib) = SoFar(o.at, lib) + Part(r)
    BY <1>1, <1>2, <1>7, <2>1, <2>2, PartsAdd
  <2>4. Next1(o.at) = "rename" => o.at = "rows"
    BY <1>7, StagesAre
  <2> QED
    BY <1>3, <1>5, <2>2, <2>3, <2>4
<1>12. now.at # "done"
  BY <1>5, <1>7, StagesAre
<1>13. now.settled => quiet = TTL
  BY <1>1, <1>5 DEF CountInv, SettledFits
<1>14. /\ UNCHANGED <<lib, lone, untold, quiet, clean, changes>> /\ cached' = cached
      /\ cached \in [total : Nat \cup {-1}, age : 0 .. TTL] /\ CacheFits
  BY DEF Count, CountInv, CountTypeOK
<1>15. CacheFits' /\ cached' \in [total : Nat \cup {-1}, age : 0 .. TTL]
  BY <1>14 DEF CacheFits
<1>16. now.at = "done" /\ now.settled => now.sum = Total(lib)
  BY <1>12
<1> QED
  BY <1>6, <1>10, <1>11, <1>13, <1>14, <1>15, <1>16, ReaderKeeps

LEMMA DoneRequest ==
  ASSUME NEW sum \in Nat, NEW settled \in BOOLEAN
  PROVE  [NoRequest EXCEPT !.at = "done", !.sum = sum, !.settled = settled]
           = [at |-> "done", sum |-> sum, rows |-> {}, age |-> 0, settled |-> settled]
<1>1. PICK now : now = [NoRequest EXCEPT !.at = "done", !.sum = sum, !.settled = settled]
  OBVIOUS
<1>2. now = [at |-> "done", sum |-> sum, rows |-> {}, age |-> 0, settled |-> settled]
  BY <1>1 DEF NoRequest
<1> QED
  BY <1>1, <1>2

(* A finished sum is the total it is stored as. *)
LEMMA StoreKeeps ==
  ASSUME CountInv, NEW r \in Readers, Store(r)
  PROVE  CountInv'
<1>1. PICK o : o = readers[r]
  OBVIOUS
<1>2. /\ o \in [at : Stages, sum : Nat, rows : SUBSET (Animes \X (Orders \cup {None})),
               age : 0 .. TTL, settled : BOOLEAN]
      /\ o.at = "store" /\ r \in InFlight
  BY <1>1 DEF CountInv, CountTypeOK, Store, InFlight
<1>3. PICK now : now = [at |-> "done", sum |-> o.sum, rows |-> {}, age |-> 0, settled |-> o.settled]
  OBVIOUS
<1>4. readers' = [readers EXCEPT ![r] = now]
  <2>1. [NoRequest EXCEPT !.at = "done", !.sum = o.sum, !.settled = o.settled] = now
    BY <1>2, <1>3, DoneRequest
  <2> QED
    BY <1>1, <2>1 DEF Store
<1>5. now \in [at : Stages, sum : Nat, rows : SUBSET (Animes \X (Orders \cup {None})),
              age : 0 .. TTL, settled : BOOLEAN]
  BY <1>2, <1>3, StagesAre, CountAssumption
<1>6. SoFar("store", lib) = Total(lib)
  BY DEF SoFar, Total
<1>7. o.settled \/ o.age < quiet \/ clean => o.sum = Total(lib)
  BY <1>1, <1>2, <1>6 DEF CountInv, CountsFit, Current
<1>8. cached' = [total |-> o.sum, age |-> o.age]
  BY <1>1 DEF Store, Stamp
<1>9. cached' \in [total : Nat \cup {-1}, age : 0 .. TTL]
  BY <1>2, <1>8
<1>10. CacheFits'
  BY <1>7, <1>8 DEF Store, CacheFits
<1>11. now.settled => quiet = TTL
  BY <1>1, <1>3 DEF CountInv, SettledFits
<1>12. now.at = "done" /\ now.settled => now.sum = Total(lib)
  BY <1>3, <1>7
<1>13. now.at \in {"idle", "done"}
  BY <1>3
<1>14. now.at \notin {"idle", "done"} /\ (now.settled \/ now.age < quiet \/ clean) =>
           /\ now.sum = SoFar(now.at, lib)
           /\ now.at = "rename" => now.rows = RowsToName(lib)
  BY <1>13
<1>15. UNCHANGED <<lib, lone, untold, quiet, clean, changes>>
  BY DEF Store
<1> QED
  BY <1>4, <1>5, <1>9, <1>10, <1>11, <1>12, <1>14, <1>15, ReaderKeeps

(* Every step keeps the invariant. *)
LEMMA CountStep ==
  ASSUME CountInv, [CountNext]_countVars
  PROVE  CountInv'
<1>1. CASE Change
  <2>1. CASE Committed
    BY <2>1, CommitKeeps
  <2>2. CASE /\ UNCHANGED <<lib, untold, cached, readers, quiet, clean, changes>>
             /\ lone' \subseteq Animes
    BY <2>2 DEF CountInv, CountTypeOK, CountsFit, CacheFits, AnswersRight, SettledFits, InFlight,
                Current
  <2> QED
    BY <1>1, <2>1, <2>2, ChangeCommits DEF CountInv, CountTypeOK
<1>2. CASE UNCHANGED countVars
  BY <1>2 DEF countVars, CountInv, CountTypeOK, CountsFit, CacheFits, AnswersRight, SettledFits,
              InFlight, Current
<1> QED
  BY <1>1, <1>2, PublishKeeps, TickKeeps, AskKeeps, CountKeeps, StoreKeeps DEF CountNext

(* It holds in the beginning. *)
LEMMA CountStart == CountInit => CountInv
<1> SUFFICES ASSUME CountInit PROVE CountInv
  OBVIOUS
<1>1. CountTypeOK
  <2>1. NoTotal \in [total : Nat \cup {-1}, age : 0 .. TTL]
    BY CountAssumption DEF NoTotal
  <2>2. NoRequest \in [at : Stages, sum : Nat, rows : SUBSET (Animes \X (Orders \cup {None})),
                       age : 0 .. TTL, settled : BOOLEAN]
    BY StagesAre, CountAssumption DEF NoRequest
  <2> QED
    BY <2>1, <2>2, CountAssumption DEF CountInit, CountTypeOK
<1>2. CountsFit /\ AnswersRight /\ SettledFits
  BY DEF CountInit, CountsFit, AnswersRight, SettledFits, InFlight, NoRequest
<1>3. CacheFits
  BY DEF CountInit, CacheFits, NoTotal
<1> QED
  BY <1>1, <1>2, <1>3 DEF CountInv

(* The inductive invariant holds in every reachable state. *)
THEOREM CountIsInductive == CountSpec => []CountInv
BY CountStart, CountStep, PTL DEF CountSpec

(* The database rows, the cached total and the requests stay well typed: no scan,
   identification, renaming, relocation or repair writes a row it should not. *)
THEOREM CountTypeCorrect == CountSpec => []CountTypeOK
<1>1. CountInv => CountTypeOK
  BY DEF CountInv
<1> QED
  BY <1>1, CountIsInductive, PTL

(* An answer of pending_actions_total for a library that had not changed for the
   TTL when it was asked for is the total of that library. *)
THEOREM AnswersAreRight == CountSpec => []AnswersRight
<1>1. CountInv => AnswersRight
  BY DEF CountInv
<1> QED
  BY <1>1, CountIsInductive, PTL

(* What _compute_total stores after the cache was dropped while nothing was being
   computed is the total of the library, until that changes. *)
THEOREM DroppedCacheStaysRight == CountSpec => []DropHolds
<1>1. CountInv => DropHolds
  BY DEF CountInv, CacheFits, DropHolds
<1> QED
  BY <1>1, CountIsInductive, PTL

-----------------------------------------------------------------------------
(* The views of one library.                                                *)

(* A finite set has more than one element if it has two. *)
LEMMA MoreThanOne ==
  ASSUME NEW S, IsFiniteSet(S)
  PROVE  Cardinality(S) > 1 <=> \E x, y \in S : x # y
<1>1. Cardinality(S) \in Nat
  BY FS_CardinalityType
<1>2. Cardinality(S) = 0 <=> S = {}
  BY FS_EmptySet
<1>3. Cardinality(S) = 1 <=> \E x : S = {x}
  BY FS_Singleton
<1>4. (\E x, y \in S : x # y) <=> ~(S = {} \/ \E x : S = {x})
  OBVIOUS
<1> QED
  BY <1>1, <1>2, <1>3, <1>4

(* The ids that several entries have are as many as the groups of entries. *)
LEMMA GroupsAgree ==
  ASSUME NEW L
  PROVE  CountDuplicateGroups(L) = Cardinality(DuplicateGroups(L))
<1>1. PICK D : D = {aid \in UsedAids(L) : Cardinality(Sharing(L, aid)) > 1}
  OBVIOUS
<1>2. PICK f : f = [aid \in UsedAids(L) |-> Sharing(L, aid)]
  OBVIOUS
<1>3. IsFiniteSet(D)
  BY <1>1, CountedFinite, FS_Subset
<1>4. \A aid \in UsedAids(L) : \E a \in f[aid] : L.animes[a].aid = aid
  BY <1>2 DEF UsedAids, Sharing
<1>5. \A aid \in UsedAids(L) : \A a \in f[aid] : L.animes[a].aid = aid
  BY <1>2 DEF Sharing
<1>6. \A x, y \in D : f[x] = f[y] => x = y
  BY <1>1, <1>4, <1>5
<1>7. Cardinality({f[aid] : aid \in D}) = Cardinality(D)
  BY <1>3, <1>6, OneToOne
<1>8. \A aid : Cardinality(Sharing(L, aid)) > 1 <=> \E x, y \in Sharing(L, aid) : x # y
  <2> TAKE aid
  <2>1. Sharing(L, aid) \in SUBSET Listed(L)
    BY DEF Sharing
  <2>2. IsFiniteSet(Sharing(L, aid))
    BY <2>1, CountedFinite, FS_Subset
  <2> QED
    BY <2>2, MoreThanOne
<1>9. {f[aid] : aid \in D} = DuplicateGroups(L)
  <2>1. ASSUME NEW aid \in D PROVE f[aid] \in DuplicateGroups(L)
    <3>1. PICK b \in Listed(L), c \in Listed(L) : b # c /\ L.animes[b].aid = aid /\ L.animes[c].aid = aid
      BY <1>1, <1>8 DEF Sharing
    <3>2. aid # 0 /\ f[aid] = Sharing(L, L.animes[b].aid)
      BY <1>1, <1>2, <3>1 DEF UsedAids
    <3> QED
      BY <3>1, <3>2 DEF DuplicateGroups
  <2>2. ASSUME NEW b \in Listed(L), L.animes[b].aid # 0, NEW c \in Listed(L) \ {b},
               L.animes[c].aid = L.animes[b].aid
        PROVE  Sharing(L, L.animes[b].aid) \in {f[aid] : aid \in D}
    <3>1. L.animes[b].aid \in UsedAids(L)
      BY <2>2 DEF UsedAids
    <3>2. b \in Sharing(L, L.animes[b].aid) /\ c \in Sharing(L, L.animes[b].aid)
      BY <2>2 DEF Sharing
    <3>3. L.animes[b].aid \in D
      BY <1>1, <1>8, <3>1, <3>2
    <3> QED
      BY <1>2, <3>1, <3>3
  <2> QED
    BY <2>1, <2>2 DEF DuplicateGroups
<1> QED
  BY <1>1, <1>7, <1>9 DEF CountDuplicateGroups

(* The counts behind the badge are those of the lists, and an entry's own    *)
(* page proposes what the lists do.                                          *)
LEMMA QueuesDoAgree ==
  ASSUME NEW L
  PROVE  QueuesAgree(L)
<1>1. {a \in SortRows(L) : \E f \in Files : L.files[f].anime = a} = SortQueue(L)
  BY DEF SortQueue, Of
<1>2. CountSortQueue(L) = Cardinality(SortQueue(L))
  BY <1>1 DEF CountSortQueue
<1>3. ASSUME NEW a \in Listed(L)
      PROVE  /\ PendingActions(L, a).sort <=> a \in SortQueue(L)
             /\ PendingActions(L, a).rename <=> a \in RenameQueue(L)
  <2>1. SortProposal(L, a) <=> a \in SortQueue(L)
    BY DEF SortProposal, SortQueue, SortRows
  <2>2. RenameProposal(L, a) <=> a \in RenameQueue(L)
    BY DEF RenameProposal, RenameQueue, RenameRows
  <2> QED
    BY <2>1, <2>2 DEF PendingActions
<1> QED
  BY <1>2, <1>3, GroupsAgree DEF QueuesAgree

(* The numbers of a list: those that are there, and those that are not. *)
LEMMA NumbersSplit ==
  ASSUME NEW L, NEW a
  PROVE  /\ \A t \in Numbered(L, a) : Cast(t) = DigitValue[t] /\ Cast(t) \in {0, 1, 2}
         /\ IsFiniteSet(Numbers(MissingRows(L, a)))
         /\ ForAnimes(L, a).missing = Cardinality(Numbers(MissingRows(L, a)))
         /\ ForAnimes(L, a).missing = ForAnimes(L, a).expected - ForAnimes(L, a).present
         /\ MissingRows(L, a) # {} <=> ForAnimes(L, a).missing > 0
<1>1. \A t \in Numbered(L, a) : Cast(t) = DigitValue[t] /\ Cast(t) \in {0, 1, 2}
  BY Spellings DEF Numbered, Plain, Cast
<1>2. PICK T : T = {t \in Numbered(L, a) : LocalFileExists(L, a, t)}
  OBVIOUS
<1>3. PICK N, P, M : N = Numbers(Numbered(L, a)) /\ P = Numbers(T) /\ M = Numbers(MissingRows(L, a))
  OBVIOUS
<1>4. N \in SUBSET (0 .. 2) /\ P \in SUBSET (0 .. 2) /\ M \in SUBSET (0 .. 2)
  BY <1>1, <1>2, <1>3 DEF Numbers, MissingRows
<1>5. IsFiniteSet(N) /\ IsFiniteSet(P) /\ IsFiniteSet(M)
  <2>1. IsFiniteSet(0 .. 2)
    BY 0 \in Int, 2 \in Int, FS_Interval, Zenon
  <2> QED
    BY <1>4, <2>1, FS_Subset
<1>6. N = P \cup M /\ P \cap M = {}
  <2>1. \A s, t : Cast(s) = Cast(t) => (LocalFileExists(L, a, s) <=> LocalFileExists(L, a, t))
    BY DEF LocalFileExists
  <2> QED
    BY <1>2, <1>3, <2>1 DEF Numbers, MissingRows
<1>7. /\ Cardinality(N) \in Nat /\ Cardinality(P) \in Nat /\ Cardinality(M) \in Nat
      /\ Cardinality(N) = Cardinality(P) + Cardinality(M)
  <2>1. Cardinality(N) \in Nat /\ Cardinality(P) \in Nat /\ Cardinality(M) \in Nat
    BY <1>5, FS_CardinalityType
  <2>2. Cardinality(P \cup M) = Cardinality(P) + Cardinality(M) - Cardinality(P \cap M)
    BY <1>5, FS_Union
  <2>3. Cardinality(P \cap M) = 0
    BY <1>6, FS_EmptySet
  <2> QED
    BY <1>6, <2>1, <2>2, <2>3
<1>8. ForAnimes(L, a) = [expected |-> Cardinality(N), present |-> Cardinality(P),
                         missing |-> Cardinality(N) - Cardinality(P)]
  BY <1>2, <1>3 DEF ForAnimes
<1>9. ForAnimes(L, a).missing = Cardinality(M)
  BY <1>7, <1>8
<1>10. MissingRows(L, a) # {} <=> M # {}
  BY <1>3 DEF Numbers
<1>11. M # {} <=> Cardinality(M) > 0
  BY <1>5, <1>7, FS_EmptySet
<1> QED
  BY <1>1, <1>3, <1>5, <1>8, <1>9, <1>10, <1>11

(* The rows of one entry are one per number, on its page and among all. *)
LEMMA RowsPerNumber ==
  ASSUME NEW L, NEW a
  PROVE  /\ Cardinality(MissingForAnime(L, a)) = ForAnimes(L, a).missing
         /\ a \in Identified(L) =>
              Cardinality({m \in AllMissing(L) : m[1] = a}) = ForAnimes(L, a).missing
<1>1. PICK M : M = Numbers(MissingRows(L, a))
  OBVIOUS
<1>2. IsFiniteSet(M) /\ Cardinality(M) = ForAnimes(L, a).missing
  BY <1>1, NumbersSplit
<1>3. \A t \in MissingRows(L, a) : Cast(t) = DigitValue[t]
  BY NumbersSplit DEF MissingRows
<1>4. Cardinality(MissingForAnime(L, a)) = Cardinality(M)
  <2>1. PICK f : f = [n \in M |-> CHOOSE t \in MissingRows(L, a) : DigitValue[t] = n]
    OBVIOUS
  <2>2. \A n \in M : DigitValue[f[n]] = n
    BY <1>1, <1>3, <2>1 DEF Numbers
  <2>3. \A x, y \in M : f[x] = f[y] => x = y
    BY <2>2
  <2>4. Cardinality({f[n] : n \in M}) = Cardinality(M)
    BY <1>2, <2>3, OneToOne
  <2>5. {f[n] : n \in M} = MissingForAnime(L, a)
    BY <1>1, <2>1 DEF MissingForAnime
  <2> QED
    BY <2>4, <2>5
<1>5. ASSUME a \in Identified(L)
      PROVE  Cardinality({m \in AllMissing(L) : m[1] = a}) = Cardinality(M)
  <2>1. PICK f : f = [n \in M |-> <<a, n>>]
    OBVIOUS
  <2>2. \A x, y \in M : f[x] = f[y] => x = y
    BY <2>1
  <2>3. Cardinality({f[n] : n \in M}) = Cardinality(M)
    BY <1>2, <2>2, OneToOne
  <2>4. \A n \in M : <<a, n>> \in AllMissing(L)
    BY <1>1, <1>3, <1>5 DEF AllMissing, Numbers
  <2>5. \A m \in AllMissing(L) : m[1] = a => \E n \in M : m = <<a, n>>
    BY <1>1, <1>3 DEF AllMissing, Numbers
  <2>6. {f[n] : n \in M} = {m \in AllMissing(L) : m[1] = a}
    BY <2>1, <2>4, <2>5
  <2> QED
    BY <2>3, <2>6
<1> QED
  BY <1>2, <1>4, <1>5

(* The pages say the same of what an entry misses. *)
LEMMA MissingDoesAgree ==
  ASSUME NEW L
  PROVE  MissingAgree(L)
<1> SUFFICES ASSUME NEW a \in Listed(L) PROVE MissingIsOne(L, a)
  BY DEF MissingAgree
<1> DEFINE page == MissingEpisodes(L, a)
           missing == Cardinality(page.missing)
<1>1. /\ page.expected = ForAnimes(L, a).expected /\ page.present = ForAnimes(L, a).present
      /\ page.missing = MissingForAnime(L, a)
  BY DEF MissingEpisodes
<1>2. missing = ForAnimes(L, a).missing /\ missing = MissingCount(L, a)
  <2>1. missing = Cardinality(MissingForAnime(L, a))
    BY <1>1
  <2>2. Cardinality(MissingForAnime(L, a)) = ForAnimes(L, a).missing
    BY RowsPerNumber
  <2>3. ForAnimes(L, a).missing = MissingCount(L, a)
    BY NumbersSplit DEF MissingCount
  <2> QED
    BY <2>1, <2>2, <2>3
<1> HIDE DEF page, missing
<1>3. missing \in Nat
  BY <1>2, NumbersSplit, FS_CardinalityType
<1>4. missing = page.expected - page.present
  BY <1>1, <1>2, NumbersSplit
<1>5. ASSUME NEW card \in ListAnimes(L, FALSE), card.id = a, NEW c \in card.completeness
      PROVE  c.missing = missing
  <2>1. PICK b \in Search(L, FALSE) : card = [id |-> b, completeness |-> Badge(L, b)]
    BY DEF ListAnimes
  <2>2. card.completeness = Badge(L, a)
    BY <1>5, <2>1
  <2> QED
    BY <1>2, <1>5, <2>2 DEF Badge
<1>6. (\E card \in ListAnimes(L, TRUE) : card.id = a) <=> MissingRows(L, a) # {}
  <2>1. ASSUME NEW card \in ListAnimes(L, TRUE), card.id = a PROVE MissingRows(L, a) # {}
    <3>1. PICK b \in Search(L, TRUE) : card = [id |-> b, completeness |-> Badge(L, b)]
      BY DEF ListAnimes
    <3>2. a \in Search(L, TRUE)
      BY <2>1, <3>1
    <3> QED
      BY <3>2 DEF Search
  <2>2. ASSUME MissingRows(L, a) # {} PROVE \E card \in ListAnimes(L, TRUE) : card.id = a
    <3>1. a \in Search(L, TRUE)
      BY <2>2 DEF Search
    <3>2. [id |-> a, completeness |-> Badge(L, a)] \in ListAnimes(L, TRUE)
      BY <3>1 DEF ListAnimes
    <3> QED
      BY <3>2
  <2> QED
    BY <2>1, <2>2
<1>7. MissingRows(L, a) # {} <=> missing > 0
  BY <1>2, NumbersSplit
<1>8. ASSUME a \in Identified(L)
      PROVE  {row \in ListMissingEpisodes(L) : row.id = a} =
               IF missing = 0 THEN {}
               ELSE {[id |-> a, present |-> page.present, missing |-> missing]}
  <2>1. \A row \in ListMissingEpisodes(L) : row.id = a =>
          row = [id |-> a, present |-> page.present, missing |-> missing]
    BY <1>1, <1>2 DEF ListMissingEpisodes
  <2>2. a \in Incomplete(L) <=> missing # 0
    BY <1>3, <1>7, <1>8 DEF Incomplete
  <2>3. a \in Incomplete(L) =>
          [id |-> a, present |-> page.present, missing |-> missing] \in ListMissingEpisodes(L)
    BY <1>1, <1>2 DEF ListMissingEpisodes
  <2>4. \A row \in ListMissingEpisodes(L) : row.id = a => a \in Incomplete(L)
    BY DEF ListMissingEpisodes
  <2> QED
    BY <2>1, <2>2, <2>3, <2>4
<1>9. a \in Identified(L) => missing = Cardinality({m \in AllMissing(L) : m[1] = a})
  BY <1>2, RowsPerNumber
<1> QED
  BY <1>4, <1>5, <1>6, <1>7, <1>8, <1>9 DEF MissingIsOne, page, missing

(* The comparison in SQL finds the files the one in Python finds. *)
LEMMA MatchedInSql ==
  ASSUME NEW L \in Library, NEW a \in Animes, NEW f \in Of(L, a)
  PROVE  /\ f \in Matched(L, a) <=>
              \E t \in Numbered(L, a) : Plain(L.files[f].num) /\ Cast(L.files[f].num) = Cast(t)
         /\ Plain(L.files[f].num) => Normalize(L.files[f].num) = Cast(L.files[f].num)
<1>1. L.files[f].num \in Texts \cup {None}
  BY DEF Of, Library, EpisodeFile
<1>2. L.animes[a].list \in SUBSET Texts
  BY DEF Library, Entry
<1>3. \A t \in L.animes[a].list :
        /\ Plain(t) => DigitValue[t] # -1 /\ Cast(t) = DigitValue[t] /\ Normalize(t) = DigitValue[t]
        /\ ~Plain(t) => Normalize(t) = -1
  BY <1>2, Digits
<1>4. /\ Plain(L.files[f].num) => /\ Normalize(L.files[f].num) # -1
                                  /\ Normalize(L.files[f].num) = Cast(L.files[f].num)
      /\ ~Plain(L.files[f].num) => Normalize(L.files[f].num) = -1
  BY <1>1, Digits
<1> QED
  BY <1>3, <1>4 DEF Matched, Numbered

(* So the files that wait to be assigned and the numbers that are present are
   those Python matches. *)
LEMMA MatchersDoAgree ==
  ASSUME NEW L \in Library
  PROVE  MatchersAgree(L)
<1> SUFFICES ASSUME NEW a \in Identified(L), Numbered(L, a) # {}
             PROVE  /\ \A f \in Of(L, a) :
                         f \in Unassigned(L) <=> (f \notin Matched(L, a) /\ ~L.files[f].manual)
                    /\ ForAnimes(L, a).present
                         = Cardinality({Normalize(L.files[f].num) : f \in Matched(L, a)})
  BY DEF MatchersAgree
<1>1. a \in Animes
  BY DEF Identified
<1>2. ASSUME NEW f \in Of(L, a)
      PROVE  f \in Unassigned(L) <=> (f \notin Matched(L, a) /\ ~L.files[f].manual)
  <2>1. f \in Files /\ L.files[f].anime = a
    BY DEF Of
  <2>2. f \in Matched(L, a) <=>
          \E t \in Numbered(L, a) : Plain(L.files[f].num) /\ Cast(L.files[f].num) = Cast(t)
    BY <1>1, MatchedInSql
  <2> QED
    BY <2>1, <2>2 DEF Unassigned
<1>3. PICK T : T = {t \in Numbered(L, a) : LocalFileExists(L, a, t)}
  OBVIOUS
<1>4. \A f \in Of(L, a) :
        f \in Matched(L, a) <=>
          \E t \in Numbered(L, a) : Plain(L.files[f].num) /\ Cast(L.files[f].num) = Cast(t)
  BY <1>1, MatchedInSql
<1>5. \A f \in Matched(L, a) : f \in Of(L, a) /\ Normalize(L.files[f].num) = Cast(L.files[f].num)
  BY <1>1, <1>4, MatchedInSql DEF Matched
<1>6. {Normalize(L.files[f].num) : f \in Matched(L, a)} = Numbers(T)
  <2>1. ASSUME NEW f \in Matched(L, a) PROVE Normalize(L.files[f].num) \in Numbers(T)
    <3>1. PICK t \in Numbered(L, a) : Plain(L.files[f].num) /\ Cast(L.files[f].num) = Cast(t)
      BY <1>4, <1>5
    <3>2. t \in T
      BY <1>3, <1>5, <3>1 DEF LocalFileExists
    <3> QED
      BY <1>5, <3>1, <3>2 DEF Numbers
  <2>2. ASSUME NEW t \in T
        PROVE  Cast(t) \in {Normalize(L.files[f].num) : f \in Matched(L, a)}
    <3>1. PICK f \in Of(L, a) : Plain(L.files[f].num) /\ Cast(L.files[f].num) = Cast(t)
      BY <1>3 DEF LocalFileExists
    <3>2. f \in Matched(L, a)
      BY <1>3, <1>4, <3>1
    <3> QED
      BY <1>5, <3>1, <3>2
  <2> QED
    BY <2>1, <2>2 DEF Numbers
<1>7. ForAnimes(L, a).present = Cardinality(Numbers(T))
  BY <1>3 DEF ForAnimes
<1> QED
  BY <1>2, <1>6, <1>7

(* No series is wanted by its missing episodes and as a wish. *)
LEMMA WantedIsOnce ==
  ASSUME NEW L
  PROVE  WantedOnce(L)
<1> SUFFICES ASSUME NEW m \in Wanted(L).missing, L.animes[m[1]].aid \in Wanted(L).wishlist
             PROVE  FALSE
  BY DEF WantedOnce
<1>1. m \in AllMissing(L)
  BY DEF Wanted
<1>2. m[1] \in Identified(L)
  BY <1>1 DEF AllMissing
<1>3. m[1] \in LibraryAnime(L, L.animes[m[1]].aid)
  BY <1>2 DEF LibraryAnime, Identified, Listed
<1>4. PICK w \in Wishlist(L) : w.aid = L.animes[m[1]].aid /\ ~w.inLibrary
  BY DEF Wanted
<1>5. PICK aid \in L.wishes : w = [aid |-> aid, inLibrary |-> LibraryAnime(L, aid) # {}]
  BY DEF Wishlist
<1>6. aid = L.animes[m[1]].aid /\ LibraryAnime(L, aid) = {}
  BY <1>4, <1>5
<1> QED
  BY <1>3, <1>6

(* Every episode that is offered for a file settles it. *)
LEMMA ChoicesDoFit ==
  ASSUME NEW L \in Library
  PROVE  ChoicesFit(L)
<1> SUFFICES ASSUME NEW group \in UnassignedFiles(L), NEW f \in group.files,
                    NEW t \in group.episodes, NEW then, then = Assigned(L, f, t)
             PROVE  /\ t \in ValidNumbers(L, group.id)
                    /\ f \notin Unassigned(then)
                    /\ Plain(t) => /\ f \in Matched(then, group.id)
                                   /\ <<group.id, DigitValue[t]>> \notin AllMissing(then)
  BY DEF ChoicesFit
<1>1. PICK a \in {L.files[g].anime : g \in Unassigned(L)} :
        group = [id |-> a, files |-> Unassigned(L) \cap Of(L, a), episodes |-> EpisodeChoices(L, a)]
  BY DEF UnassignedFiles
<1>2. a \in Identified(L) /\ a \in Animes /\ group.id = a
  BY <1>1 DEF Unassigned, Identified
<1>3. f \in Of(L, a) /\ f \in Files /\ L.files[f].anime = a
  BY <1>1 DEF Of
<1>4. PICK s \in L.animes[a].list : t = IF Plain(s) THEN Text(DigitValue[s]) ELSE s
  BY <1>1 DEF EpisodeChoices
<1>5. L.animes[a].list \in SUBSET Texts
  BY <1>2 DEF Library, Entry
<1>6. /\ Plain(s) => t \in {"0", "1", "2"} /\ DigitValue[t] = DigitValue[s] /\ Plain(t)
      /\ ~Plain(s) => t = s /\ ~Plain(t)
  <2>1. CASE Plain(s)
    <3>1. DigitValue[s] \in {0, 1, 2}
      BY <1>5, <2>1, Digits
    <3>2. t \in {"0", "1", "2"} /\ DigitValue[t] = DigitValue[s]
      BY <1>4, <2>1, <3>1, Written
    <3>3. Plain(t)
      BY <3>2, Spellings DEF Plain
    <3> QED
      BY <2>1, <3>2, <3>3
  <2>2. CASE ~Plain(s)
    BY <1>4, <2>2
  <2> QED
    BY <2>1, <2>2
<1>7. t \in Texts /\ t # None
  BY <1>5, <1>6, Spellings
<1>8. t \in ValidNumbers(L, a)
  BY <1>4, <1>6 DEF ValidNumbers
<1>9. /\ then.animes = L.animes
      /\ then.files[f].anime = a /\ then.files[f].num = t /\ then.files[f].manual
  <2>1. PICK manual : manual = (t # None)
    OBVIOUS
  <2>2. manual
    BY <1>7, <2>1
  <2>3. PICK F : F = [L.files[f] EXCEPT !.num = t, !.manual = manual]
    OBVIOUS
  <2>4. F.anime = a /\ F.num = t /\ F.manual = manual
    BY <1>3, <2>3 DEF Library, EpisodeFile
  <2>5. then = [L EXCEPT !.files[f] = F]
    BY <1>3, <2>1, <2>3 DEF Assigned, Library
  <2>6. then.animes = L.animes /\ then.files[f] = F
    BY <1>3, <2>5 DEF Library
  <2> QED
    BY <2>2, <2>4, <2>6
<1>10. f \notin Unassigned(then)
  BY <1>9 DEF Unassigned
<1>11. f \in Of(then, a)
  BY <1>3, <1>9 DEF Of
<1>12. ASSUME Plain(t) PROVE f \in Matched(then, a)
  <2>1. Plain(s) /\ DigitValue[t] = DigitValue[s]
    BY <1>6, <1>12
  <2>2. Normalize(t) = DigitValue[t] /\ Normalize(s) = DigitValue[s] /\ DigitValue[t] \in {0, 1, 2}
    BY <1>5, <1>7, <1>12, <2>1, Digits
  <2> QED
    BY <1>9, <1>11, <2>1, <2>2 DEF Matched
<1>13. ASSUME Plain(t), <<a, DigitValue[t]>> \in AllMissing(then) PROVE FALSE
  <2>1. PICK u \in MissingRows(then, a) : DigitValue[u] = DigitValue[t]
    BY <1>13 DEF AllMissing
  <2>2. Cast(u) = DigitValue[u]
    BY <2>1, NumbersSplit DEF MissingRows
  <2>3. Cast(t) = DigitValue[t]
    BY <1>7, <1>13, Digits
  <2>4. LocalFileExists(then, a, u)
    BY <1>9, <1>11, <1>13, <2>1, <2>2, <2>3 DEF LocalFileExists
  <2> QED
    BY <2>1, <2>4 DEF MissingRows
<1> QED
  BY <1>2, <1>8, <1>10, <1>12, <1>13

(* In every library the program can come to, the queues, badges, cards and pages
   computed by different queries agree. *)
THEOREM ViewsDoAgree == CountSpec => []ViewsAgree
<1>1. CountInv => ViewsAgree
  BY QueuesDoAgree, MissingDoesAgree, MatchersDoAgree, WantedIsOnce, ChoicesDoFit
     DEF CountInv, CountTypeOK, ViewsAgree
<1> QED
  BY <1>1, CountIsInductive, PTL

-----------------------------------------------------------------------------
(* Renaming an entry changes names and its directory, and nothing the        *)
(* matching or the names to be depend on.                                    *)

Whole(L, a) == Renamed(L, a, FileRenames(L, a))

LEMMA WholeFits ==
  ASSUME NEW L \in Library, NEW a \in Animes
  PROVE  Whole(L, a) \in Library
BY RenamedFits DEF Whole

LEMMA RenamedIs ==
  ASSUME NEW L \in Library, NEW a \in Animes, NEW old, old = [f \in Files |-> L.files[f].name],
         NEW names, names = Moved(L, a, old, FileRenames(L, a), Planned(L, a))
  PROVE  /\ \A f \in Files : LET F == Whole(L, a).files[f]
                             IN  /\ F.name = names[f] /\ F.anime = L.files[f].anime
                                 /\ F.num = L.files[f].num
         /\ Whole(L, a).order = L.order
         /\ Whole(L, a).animes[a].list = L.animes[a].list
         /\ Whole(L, a).animes[a].dir = L.order
<1>1. names \in [Files -> Name]
  BY NamesToBe
<1>2. PICK M \in Library : M = WithNames(L, names)
  BY <1>1, WithNamesFits
<1>3. M.animes = L.animes /\ M.order = L.order
  BY <1>2 DEF WithNames, Library
<1>4. PICK R : R = Whole(L, a)
  OBVIOUS
<1>5. R = [M EXCEPT !.animes[a].dir = L.order]
  BY <1>2, <1>4 DEF Whole, Renamed
<1>6. /\ R.files = M.files /\ R.order = L.order
      /\ R.animes[a] = [L.animes[a] EXCEPT !.dir = L.order]
  BY <1>3, <1>5 DEF Library
<1>7. R.animes[a].list = L.animes[a].list /\ R.animes[a].dir = L.order
  BY <1>6 DEF Library, Entry
<1>8. \A f \in Files : /\ M.files[f].name = names[f] /\ M.files[f].anime = L.files[f].anime
                       /\ M.files[f].num = L.files[f].num
  BY <1>1, <1>2, WithNamesFits
<1> QED
  BY <1>4, <1>6, <1>7, <1>8

LEMMA RenamedKeeps ==
  ASSUME NEW L \in Library, NEW a \in Animes
  PROVE  /\ Of(Whole(L, a), a) = Of(L, a)
         /\ Matched(Whole(L, a), a) = Matched(L, a)
         /\ \A f \in Files : TargetName(Whole(L, a), f) = TargetName(L, f)
         /\ Whole(L, a).order = L.order
         /\ Whole(L, a).animes[a].dir = L.order
<1>1. PICK R : R = Whole(L, a)
  OBVIOUS
<1>2. /\ \A f \in Files : R.files[f].anime = L.files[f].anime /\ R.files[f].num = L.files[f].num
      /\ R.order = L.order /\ R.animes[a].list = L.animes[a].list /\ R.animes[a].dir = L.order
  BY <1>1, RenamedIs
<1>3. Of(R, a) = Of(L, a)
  BY <1>2 DEF Of
<1>4. Matched(R, a) = Matched(L, a)
  BY <1>2, <1>3, UnsettledFiles DEF Matched
<1>5. \A f \in Files : TargetName(R, f) = TargetName(L, f)
  BY <1>2 DEF TargetName
<1> QED
  BY <1>1, <1>2, <1>3, <1>4, <1>5

-----------------------------------------------------------------------------
(* Two rounds of renaming.  After the first the files of the entry have      *)
(* names of their own, each its title and episode with at most two numbers   *)
(* after it; after the second, with at most one.                             *)

Distinct(L, a) == \A f, g \in Of(L, a) : f # g => L.files[f].name # L.files[g].name
OwnNames(L, a) == \A f \in Of(L, a) :
  Suffixed(L.files[f].name, <<>>) = TargetName(L, f) /\ Len(L.files[f].name.tail) <= 2
ProperNames(L, a) == \A f \in Of(L, a) : IsNameVariant(L.files[f].name, TargetName(L, f))

(* An entry whose files have proper names of their own is not in the queue. *)
LEMMA NothingToRename ==
  ASSUME NEW L \in Library, NEW a \in Animes, Matched(L, a) = Of(L, a),
         Distinct(L, a), ProperNames(L, a), L.animes[a].dir = L.order
  PROVE  a \notin RenameQueue(L)
<1>1. Settled(L, a) = Matched(L, a)
  <2> SUFFICES ASSUME NEW f \in Matched(L, a) PROVE f \in Settled(L, a)
    BY DEF Settled
  <2>1. IsNameVariant(L.files[f].name, TargetName(L, f))
    BY DEF ProperNames
  <2>2. \A g \in Matched(L, a) : g < f => L.files[g].name # L.files[f].name
    <3> SUFFICES ASSUME NEW g \in Matched(L, a), g < f PROVE L.files[g].name # L.files[f].name
      OBVIOUS
    <3>1. f \in Nat /\ g \in Nat
      BY CountAssumption DEF Of
    <3>2. f # g
      BY <3>1
    <3> QED
      BY <3>2 DEF Distinct
  <2> QED
    BY <2>1, <2>2 DEF Settled
<1>2. FileRenames(L, a) = {}
  BY <1>1 DEF FileRenames, Unsettled
<1> QED
  BY <1>2 DEF RenameQueue, NeedsRename

\* The names after a round, in terms of the plan.
LEMMA RoundNames ==
  ASSUME NEW L \in Library, NEW a \in Animes, NEW R, R = Whole(L, a), NEW p, p = Planned(L, a),
         NEW new, new = FileRenames(L, a)
  PROVE  /\ \A f \in Of(L, a) \ new : R.files[f].name = L.files[f].name
         /\ \A f \in new :
              /\ R.files[f].name # Loose =>
                   \A g \in Of(L, a) \ {f} :
                     R.files[f].name # IF g \in new /\ g < f THEN R.files[g].name ELSE L.files[g].name
              /\ \/ R.files[f].name = p[f]
                 \/ \E k \in Nat : R.files[f].name = Suffixed(p[f], Append(p[f].tail, k))
              /\ (\A g \in Of(L, a) \ {f} :
                    p[f] # IF g \in new /\ g < f THEN R.files[g].name ELSE L.files[g].name)
                 => R.files[f].name = p[f]
<1>1. PICK old \in [Files -> Name] : old = [f \in Files |-> L.files[f].name]
  BY NamesToBe
<1>2. PICK now : now = Moved(L, a, old, new, p)
  OBVIOUS
<1>3. /\ new \in SUBSET Files /\ \A f \in new : p[f] \in Name
  BY UnsettledFiles, PlanFacts
<1>4. /\ \A f \in Files \ new : now[f] = old[f]
      /\ \A f \in new : now[f] \notin Others(L, a, old, new, now, f) \ {Loose}
      /\ \A f \in new : \/ now[f] = p[f]
                        \/ \E k \in Nat : now[f] = Suffixed(p[f], Append(p[f].tail, k))
      /\ \A f \in new : p[f] \notin Others(L, a, old, new, now, f) => now[f] = p[f]
  BY <1>2, <1>3, MovedFacts
<1>5. \A f \in Files : R.files[f].name = now[f]
  BY <1>1, <1>2, RenamedIs
<1>6. Of(L, a) \subseteq Files
  BY UnsettledFiles
<1>7. \A f \in Files : old[f] = L.files[f].name
  BY <1>1
<1>8. ASSUME NEW f \in new
      PROVE  Others(L, a, old, new, now, f) =
               {IF g \in new /\ g < f THEN R.files[g].name ELSE L.files[g].name : g \in Of(L, a) \ {f}}
  BY <1>3, <1>5, <1>6, <1>7 DEF Others
<1>9. ASSUME NEW f \in new, R.files[f].name # Loose, NEW g \in Of(L, a) \ {f}
      PROVE  R.files[f].name # IF g \in new /\ g < f THEN R.files[g].name ELSE L.files[g].name
  BY <1>3, <1>4, <1>5, <1>8, <1>9
<1>10. ASSUME NEW f \in new,
              \A g \in Of(L, a) \ {f} :
                p[f] # IF g \in new /\ g < f THEN R.files[g].name ELSE L.files[g].name
       PROVE  R.files[f].name = p[f]
  <2>1. p[f] \notin Others(L, a, old, new, now, f)
    BY <1>8, <1>10
  <2> QED
    BY <1>3, <1>4, <1>5, <2>1
<1>11. \A f \in new : \/ R.files[f].name = p[f]
                      \/ \E k \in Nat : R.files[f].name = Suffixed(p[f], Append(p[f].tail, k))
  BY <1>3, <1>4, <1>5
<1>12. \A f \in Of(L, a) \ new : R.files[f].name = L.files[f].name
  BY <1>4, <1>5, <1>6, <1>7
<1> QED
  BY <1>9, <1>10, <1>11, <1>12

\* A name a file of the entry was given: the wanted one with a number, and maybe another.
LEMMA Numbering ==
  ASSUME NEW t \in Name, NEW p \in Name, IsNameVariant(p, t), NEW n,
         n = p \/ \E k \in Nat : n = Suffixed(p, Append(p.tail, k))
  PROVE  n \in Name /\ Suffixed(n, <<>>) = t /\ Len(n.tail) <= 2
<1>1. p.tail \in Seq(Nat) /\ Len(p.tail) <= 1 /\ Suffixed(p, <<>>) = t
  BY DEF Name, IsNameVariant
<1>2. CASE n = p
  BY <1>1, <1>2
<1>3. CASE \E k \in Nat : n = Suffixed(p, Append(p.tail, k))
  <2>1. PICK k \in Nat : n = Suffixed(p, Append(p.tail, k))
    BY <1>3
  <2>2. PICK tail \in Seq(Nat) : tail = Append(p.tail, k) /\ Len(tail) <= 2
    <3>1. PICK q \in Seq(Nat) : q = p.tail /\ Len(q) <= 1
      BY <1>1
    <3>2. Append(q, k) \in Seq(Nat) /\ Len(Append(q, k)) <= 2
      BY <3>1
    <3> QED
      BY <3>1, <3>2
  <2>3. n \in Name /\ n.tail = tail /\ Suffixed(n, <<>>) = Suffixed(p, <<>>)
    BY <2>1, <2>2 DEF Suffixed, Name
  <2> QED
    BY <1>1, <2>2, <2>3
<1> QED
  BY <1>2, <1>3

LEMMA NotLoose ==
  ASSUME NEW n \in Name, NEW t, t.title # None, Suffixed(n, <<>>) = t
  PROVE  n # Loose
BY DEF Suffixed, Name, Loose

(* The first round gives every file a name of its own, *)
LEMMA FirstRound ==
  ASSUME NEW L \in Library, NEW a \in Animes, Matched(L, a) = Of(L, a)
  PROVE  Distinct(Whole(L, a), a) /\ OwnNames(Whole(L, a), a)
<1>1. PICK R \in Library : R = Whole(L, a)
  BY WholeFits
<1>2. PICK p : p = Planned(L, a)
  OBVIOUS
<1>3. PICK new : new = FileRenames(L, a)
  OBVIOUS
<1>4. PICK t : t = [f \in Files |-> TargetName(L, f)]
  OBVIOUS
<1>5. \A f \in Files : t[f] \in Name /\ t[f].title # None
  BY <1>4, Targets
<1>6. /\ Settled(L, a) \subseteq Of(L, a) /\ Unsettled(L, a) = Of(L, a) \ Settled(L, a)
      /\ Of(L, a) \subseteq Files /\ Of(L, a) \subseteq Nat
      /\ new = {f \in Unsettled(L, a) : p[f] # L.files[f].name}
  BY <1>2, <1>3, UnsettledFiles, CountAssumption DEF Settled, Unsettled, FileRenames
<1>7. /\ \A f \in Settled(L, a) : IsNameVariant(L.files[f].name, t[f])
      /\ \A f, g \in Settled(L, a) : g < f => L.files[g].name # L.files[f].name
  BY <1>4, <1>6 DEF Settled
<1>8. /\ \A f \in Unsettled(L, a) : /\ p[f] \in Name /\ IsNameVariant(p[f], t[f])
                                   /\ \A g \in Settled(L, a) : p[f] # L.files[g].name
      /\ \A f, g \in Unsettled(L, a) : f # g => p[f] # p[g]
  BY <1>2, <1>4, <1>6, PlanFacts
<1>9. /\ \A f \in Of(L, a) \ new : R.files[f].name = L.files[f].name
      /\ \A f \in new :
           /\ R.files[f].name # Loose =>
                \A g \in Of(L, a) \ {f} :
                  R.files[f].name # IF g \in new /\ g < f THEN R.files[g].name ELSE L.files[g].name
           /\ \/ R.files[f].name = p[f]
              \/ \E k \in Nat : R.files[f].name = Suffixed(p[f], Append(p[f].tail, k))
  BY <1>1, <1>2, <1>3, RoundNames
<1>10. ASSUME NEW f \in new
       PROVE  /\ R.files[f].name # Loose
              /\ Suffixed(R.files[f].name, <<>>) = t[f] /\ Len(R.files[f].name.tail) <= 2
  <2>1. f \in Unsettled(L, a) /\ f \in Files
    BY <1>6
  <2>2. PICK n : n = R.files[f].name
    OBVIOUS
  <2>3. n \in Name /\ Suffixed(n, <<>>) = t[f] /\ Len(n.tail) <= 2
    BY <1>5, <1>8, <1>9, <2>1, <2>2, Numbering
  <2>4. n # Loose
    BY <1>5, <2>1, <2>3, NotLoose
  <2> QED
    BY <2>2, <2>3, <2>4
<1>11. ASSUME NEW f \in Of(L, a) \ new
       PROVE  IsNameVariant(R.files[f].name, t[f])
  BY <1>6, <1>7, <1>8, <1>9
<1>12. \A f \in Of(L, a) : Suffixed(R.files[f].name, <<>>) = t[f] /\ Len(R.files[f].name.tail) <= 2
  <2> SUFFICES ASSUME NEW f \in Of(L, a)
               PROVE  Suffixed(R.files[f].name, <<>>) = t[f] /\ Len(R.files[f].name.tail) <= 2
    OBVIOUS
  <2>1. CASE f \in new
    BY <1>10, <2>1
  <2>2. CASE f \notin new
    <3>1. R.files[f].name.tail \in Seq(Nat)
      BY <1>6 DEF Library, EpisodeFile, Name
    <3> QED
      BY <1>11, <2>2, <3>1 DEF IsNameVariant
  <2> QED
    BY <2>1, <2>2
<1>13. ASSUME NEW f \in Of(L, a), NEW g \in Of(L, a), g < f
       PROVE  R.files[f].name # R.files[g].name
  <2>1. f # g /\ ~(f < g)
    BY <1>6, <1>13
  <2>2. CASE f \in new
    <3>1. R.files[f].name # IF g \in new /\ g < f THEN R.files[g].name ELSE L.files[g].name
      BY <1>9, <1>10, <2>1, <2>2
    <3> QED
      BY <1>9, <1>13, <3>1
  <2>3. CASE f \notin new /\ g \in new
    <3>1. R.files[g].name # L.files[f].name
      BY <1>9, <1>10, <2>1, <2>3
    <3> QED
      BY <1>9, <2>3, <3>1
  <2>4. CASE f \notin new /\ g \notin new
    <3>1. L.files[f].name # L.files[g].name
      BY <1>6, <1>7, <1>8, <1>13, <2>1, <2>4
    <3> QED
      BY <1>9, <2>4, <3>1
  <2> QED
    BY <2>2, <2>3, <2>4
<1>14. Distinct(R, a)
  <2>1. \A f, g \in Of(L, a) : f # g => (g < f \/ f < g)
    BY <1>6
  <2>2. Of(R, a) = Of(L, a)
    BY <1>1, RenamedKeeps
  <2> QED
    BY <1>13, <2>1, <2>2 DEF Distinct
<1>15. OwnNames(R, a)
  <2>1. Of(R, a) = Of(L, a) /\ \A f \in Files : TargetName(R, f) = t[f]
    BY <1>1, <1>4, RenamedKeeps
  <2> QED
    BY <1>6, <1>12, <2>1 DEF OwnNames
<1> QED
  BY <1>1, <1>14, <1>15

(* and the second a proper one. *)
LEMMA SecondRound ==
  ASSUME NEW L \in Library, NEW a \in Animes, Matched(L, a) = Of(L, a),
         Distinct(L, a), OwnNames(L, a)
  PROVE  Distinct(Whole(L, a), a) /\ ProperNames(Whole(L, a), a)
<1>1. PICK R \in Library : R = Whole(L, a)
  BY WholeFits
<1>2. PICK p : p = Planned(L, a)
  OBVIOUS
<1>3. PICK new : new = FileRenames(L, a)
  OBVIOUS
<1>4. PICK t : t = [f \in Files |-> TargetName(L, f)]
  OBVIOUS
<1>5. /\ Of(L, a) \subseteq Files /\ Of(L, a) \subseteq Nat
      /\ Unsettled(L, a) = Of(L, a) \ Settled(L, a) /\ Settled(L, a) \subseteq Of(L, a)
      /\ new = {f \in Unsettled(L, a) : p[f] # L.files[f].name}
  BY <1>2, <1>3, UnsettledFiles, CountAssumption DEF Settled, Unsettled, FileRenames
<1>6. \A f \in Of(L, a) : f \in Settled(L, a) <=> IsNameVariant(L.files[f].name, t[f])
  <2>1. \A f, g \in Of(L, a) : g < f => L.files[g].name # L.files[f].name
    <3> SUFFICES ASSUME NEW f \in Of(L, a), NEW g \in Of(L, a), g < f
                 PROVE  L.files[g].name # L.files[f].name
      OBVIOUS
    <3>1. f # g
      BY <1>5
    <3> QED
      BY <3>1 DEF Distinct
  <2> QED
    BY <1>4, <1>5, <2>1 DEF Settled
<1>7. /\ \A f \in Unsettled(L, a) : /\ IsNameVariant(p[f], t[f])
                                   /\ \A g \in Settled(L, a) : p[f] # L.files[g].name
      /\ \A f, g \in Unsettled(L, a) : f # g => p[f] # p[g]
  BY <1>2, <1>4, <1>5, PlanFacts
<1>8. ASSUME NEW f \in Unsettled(L, a)
      PROVE  ~(Len(L.files[f].name.tail) <= 1) /\ Len(p[f].tail) <= 1
  <2>1. Suffixed(L.files[f].name, <<>>) = t[f]
    BY <1>4, <1>5 DEF OwnNames
  <2>2. ~IsNameVariant(L.files[f].name, t[f])
    BY <1>5, <1>6
  <2> QED
    BY <1>7, <2>1, <2>2 DEF IsNameVariant
<1>9. new = Unsettled(L, a)
  <2>1. \A f \in Unsettled(L, a) : p[f] # L.files[f].name
    BY <1>8
  <2> QED
    BY <1>5, <2>1
<1>10. \A f \in new : R.files[f].name = p[f]
  <2> SUFFICES ASSUME NEW bad, bad = {f \in new : R.files[f].name # p[f]}, bad # {}
               PROVE  FALSE
    OBVIOUS
  <2>1. bad \subseteq Nat
    BY <1>5
  <2>2. PICK m \in bad : \A f \in bad : ~(f < m)
    BY <2>1, LeastExists
  <2>3. m \in new /\ m \in Unsettled(L, a)
    BY <1>9, <2>2
  <2>4. ASSUME NEW g \in Of(L, a) \ {m}
        PROVE  p[m] # IF g \in new /\ g < m THEN R.files[g].name ELSE L.files[g].name
    <3>1. CASE g \in new /\ g < m
      <4>1. R.files[g].name = p[g]
        BY <2>2, <3>1
      <4>2. p[m] # p[g]
        BY <1>7, <1>9, <2>3, <3>1
      <4> QED
        BY <3>1, <4>1, <4>2
    <3>2. CASE g \in new /\ ~(g < m)
      <4>1. p[m] # L.files[g].name
        BY <1>8, <1>9, <2>3, <3>2
      <4> QED
        BY <3>2, <4>1
    <3>3. CASE g \notin new
      <4>1. p[m] # L.files[g].name
        BY <1>5, <1>7, <1>9, <2>3, <3>3
      <4> QED
        BY <3>3, <4>1
    <3> QED
      BY <3>1, <3>2, <3>3
  <2>5. R.files[m].name = p[m]
    BY <1>1, <1>2, <1>3, <2>3, <2>4, RoundNames
  <2> QED
    BY <2>2, <2>5
<1>11. \A f \in Of(L, a) \ new : R.files[f].name = L.files[f].name
  BY <1>1, <1>2, <1>3, RoundNames
<1>12. Of(R, a) = Of(L, a) /\ \A f \in Files : TargetName(R, f) = t[f]
  BY <1>1, <1>4, RenamedKeeps
<1>13. ProperNames(R, a)
  <2> SUFFICES ASSUME NEW f \in Of(L, a) PROVE IsNameVariant(R.files[f].name, t[f])
    BY <1>5, <1>12 DEF ProperNames
  <2>1. CASE f \in new
    BY <1>7, <1>9, <1>10, <2>1
  <2>2. CASE f \notin new
    BY <1>5, <1>6, <1>9, <1>11, <2>2
  <2> QED
    BY <2>1, <2>2
<1>14. ASSUME NEW f \in Of(L, a), NEW g \in Of(L, a), f # g
       PROVE  R.files[f].name # R.files[g].name
  <2>1. CASE f \in new /\ g \in new
    BY <1>7, <1>9, <1>10, <1>14, <2>1
  <2>2. CASE f \in new /\ g \notin new
    BY <1>5, <1>7, <1>9, <1>10, <1>11, <2>2
  <2>3. CASE f \notin new /\ g \in new
    BY <1>5, <1>7, <1>9, <1>10, <1>11, <2>3
  <2>4. CASE f \notin new /\ g \notin new
    BY <1>11, <1>14, <2>4 DEF Distinct
  <2> QED
    BY <2>1, <2>2, <2>3, <2>4
<1>15. Distinct(R, a)
  BY <1>12, <1>14 DEF Distinct
<1> QED
  BY <1>1, <1>13, <1>15

(* So the entry is out of the queue. *)
LEMMA RoundsSettle ==
  ASSUME NEW L \in Library, NEW a \in Animes, Matched(L, a) = Of(L, a), ~Refused(L, a)
  PROVE  Settles(L, a)
<1>1. PICK R \in Library : R = Whole(L, a)
  BY WholeFits
<1>2. Distinct(R, a) /\ OwnNames(R, a) /\ Matched(R, a) = Of(R, a)
  BY <1>1, FirstRound, RenamedKeeps
<1>3. PICK T \in Library : T = Whole(R, a)
  BY WholeFits
<1>4. Distinct(T, a) /\ ProperNames(T, a)
  BY <1>2, <1>3, SecondRound
<1>5. Matched(T, a) = Of(T, a) /\ T.animes[a].dir = T.order
  BY <1>2, <1>3, RenamedKeeps
<1>6. a \notin RenameQueue(T)
  BY <1>4, <1>5, NothingToRename
<1>7. Round(L, a) = R
  BY <1>1 DEF Round, Whole
<1>8. ~Refused(R, a)
  BY <1>1, RenamedKeeps DEF Refused
<1>9. Round(R, a) = T
  BY <1>3, <1>8 DEF Round, Whole
<1> QED
  BY <1>6, <1>7, <1>9 DEF Settles

(* However the files of an entry came to their names, two calls of rename_anime
   in which no move fails take it out of the rename queue, if every file is
   matched to an episode and no other entry has taken its directory's name. *)
THEOREM EpisodesDoSettle == CountSpec => []EpisodesSettle
<1>1. CountInv => EpisodesSettle
  <2> SUFFICES ASSUME CountInv, NEW a \in RenameQueue(lib), Matched(lib, a) = Of(lib, a),
                      ~Refused(lib, a)
               PROVE  Settles(lib, a)
    BY DEF EpisodesSettle
  <2>1. lib \in Library
    BY DEF CountInv, CountTypeOK
  <2>2. a \in Animes
    BY DEF RenameQueue, RenameRows, Identified
  <2> QED
    BY <2>1, <2>2, RoundsSettle
<1> QED
  BY <1>1, CountIsInductive, PTL
=============================================================================
