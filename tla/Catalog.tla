------------------------------- MODULE Catalog -------------------------------
(***************************************************************************)
(* The catalogue tables of the core (core/app/db/repositories.py): folders, *)
(* anime rows, and the duplicate flags that tie rows of one AniDB id        *)
(* together.  Identification, catalogue deletes and folder deletes are      *)
(* transactions of several steps, run by the job worker and by API handlers *)
(* that interleave at every await.                                          *)
(*                                                                         *)
(* SQLite sees committed writes at once; a transaction starts with its      *)
(* first write, so what a step read before may have changed.  The ORM       *)
(* writes back only the columns whose value differs from the one it loaded. *)
(***************************************************************************)
EXTENDS Naturals, FiniteSets

CONSTANTS
  Folders,   \* the folders a user may register
  NoFolder,  \* not a folder
  Aids,      \* AniDB ids
  NoAid,     \* not identified
  Actors,    \* the job worker and the API handlers at work
  MaxRows,   \* bound on the anime row ids
  MaxOps     \* bound on the operations of all actors

ASSUME CatalogAssumption ==
  NoAid \notin Aids /\ NoFolder \notin Folders /\ MaxRows \in Nat /\ MaxOps \in Nat

VARIABLES
  folders,   \* registered folders
  watched,   \* folders with a file system observer
  rows,      \* anime rows by id
  op,        \* the operation each actor is in
  ops,       \* operations begun
  due,       \* ghost: AniDB ids whose rows changed since their last recompute
  torn       \* ghost: due ids nobody in flight is going to recompute

vars == <<folders, watched, rows, op, ops, due, torn>>

Ids == 1..MaxRows

(***************************************************************************)
(* Records.                                                                *)
(***************************************************************************)
NoFlags == [flag |-> FALSE, dup |-> 0]       \* is_duplicate, duplicate_of_anime_id
NoRow   == [live |-> FALSE, folder |-> NoFolder, aid |-> NoAid, flags |-> NoFlags]
Idle    == [pc |-> "idle", row |-> 0, prev |-> NoAid, aid |-> NoAid, other |-> 0,
            mine |-> NoFlags, now |-> NoAid, later |-> NoAid,
            group |-> {}, seen |-> [r \in Ids |-> NoFlags], folder |-> NoFolder]

Flags  == [flag : BOOLEAN, dup : 0..MaxRows]
Folder == Folders \cup {NoFolder}
Aid    == Aids \cup {NoAid}

Row == [live : BOOLEAN, folder : Folder, aid : Aid, flags : Flags]
Op  == [pc : {"idle", "fetch", "apply", "read", "write", "remove", "drop"},
        row : 0..MaxRows, prev : Aid, aid : Aid, other : 0..MaxRows, mine : Flags,
        now : Aid, later : Aid, group : SUBSET Ids, seen : [Ids -> Flags], folder : Folder]

TypeOK ==
  /\ folders \subseteq Folders /\ watched \subseteq Folders
  /\ rows \in [Ids -> Row]
  /\ op \in [Actors -> Op] /\ ops \in 0..MaxOps
  /\ due \subseteq Aids /\ torn \subseteq Aids

-----------------------------------------------------------------------------
(* Rows.                                                                   *)

Live     == {r \in Ids : rows[r].live}
Group(a) == {r \in Live : rows[r].aid = a}
InFolder(f) == {r \in Live : rows[r].folder = f}

\* SQLite gives a new row the highest id plus one: a freed last id comes back.
IsNextId(r) == \A q \in Ids : (q >= r => q \notin Live) /\ (q + 1 = r => q \in Live)

\* A group in id order: its first row is the one the others point at.
First(g, p)  == p \in g /\ \A q \in g : p <= q
Target(p, r) == [flag |-> r # p, dup |-> IF r = p THEN 0 ELSE p]

\* A wrong Merged that loses the reference.
MergedFlag(target, seen, now) == [flag |-> target.flag]

\* The ORM's UPDATE: a column is written only if it differs from what was loaded.
Merged(target, seen, now) ==
  [flag |-> IF target.flag # seen.flag THEN target.flag ELSE now.flag,
   dup  |-> IF target.dup  # seen.dup  THEN target.dup  ELSE now.dup]

\* A wrong Writable: no foreign key.
WritableAlways(target, seen) == TRUE

\* The foreign key duplicate_of_anime_id: a value that is written must exist.
Writable(target, seen) == target.dup \in {0, seen.dup} \cup Live

-----------------------------------------------------------------------------
(* Operations of an actor.                                                 *)

Becomes(x, o) == op' = [op EXCEPT ![x] = o]

Begin(x, o) ==
  /\ op[x].pc = "idle" /\ ops < MaxOps
  /\ Becomes(x, o) /\ ops' = ops + 1

InHand(o)    == (CASE o.pc = "remove" -> {o.prev}
                   [] o.pc \in {"read", "write"} -> {o.now, o.later}
                   [] OTHER -> {}) \ {NoAid}

\* The operation fails: its recomputations do not happen.
Fail(x) ==
  /\ Becomes(x, Idle)
  /\ torn' = torn \cup (InHand(op[x]) \cap due)
  /\ UNCHANGED <<folders, watched, rows, due>>

\* The next recompute_duplicate_flags of the operation, or its end.
Then(o, now, later) ==
  LET next == [Idle EXCEPT !.pc = "read", !.row = o.row, !.mine = o.mine] IN
  IF now # NoAid THEN [next EXCEPT !.now = now, !.later = later]
  ELSE IF later # NoAid THEN [next EXCEPT !.now = later]
  ELSE Idle

\* create_pending by the scanner: the folder it scans is still registered.
CreatePending(f) ==
  /\ f \in folders
  /\ \E r \in Ids :
       /\ IsNextId(r)
       /\ rows' = [rows EXCEPT ![r] = [NoRow EXCEPT !.live = TRUE, !.folder = f]]
  /\ UNCHANGED <<folders, watched, op, ops, due, torn>>

\* identify_anime, manual_identify: the row is loaded, then AniDB is asked.
LoadForIdentify(x, r) ==
  /\ r \in Live
  /\ Begin(x, [Idle EXCEPT !.pc = "fetch", !.row = r, !.prev = rows[r].aid,
                           !.mine = rows[r].flags])
  /\ UNCHANGED <<folders, watched, rows, due, torn>>

\* The answer, or none; then any other row with this id is looked for.
Answer(x) ==
  LET o == op[x] IN
  /\ o.pc = "fetch"
  /\ \/ Becomes(x, Idle)
     \/ \E a \in Aids, other \in Ids \cup {0} :
          /\ IF Group(a) \ {o.row} = {} THEN other = 0 ELSE other \in Group(a) \ {o.row}
          /\ Becomes(x, [o EXCEPT !.pc = "apply", !.aid = a, !.other = other])
  /\ UNCHANGED <<folders, watched, rows, due, torn>>

\* A wrong Later that forgets the group the row has left.
NeverLater(o) == NoAid

\* The group to recompute after that of the new id: the one the row was in
\* when the operation loaded it, if that is another.
Later(o) == IF o.prev = o.aid THEN NoAid ELSE o.prev

\* apply_identification: id and flags of the row.  A vanished row or a
\* vanished other row ends the operation.
Apply(x) ==
  LET o      == op[x]
      r      == o.row
      target == [flag |-> o.other # 0, dup |-> o.other]
      aid    == IF o.aid # o.prev THEN o.aid ELSE rows[r].aid
      flags  == Merged(target, o.mine, rows[r].flags)
  IN
  /\ o.pc = "apply"
  /\ \/ /\ r \notin Live \/ ~Writable(target, o.mine)
        /\ Fail(x)
     \/ /\ r \in Live /\ Writable(target, o.mine)
        /\ rows' = [rows EXCEPT ![r].aid = aid, ![r].flags = flags]
        /\ Becomes(x, Then([o EXCEPT !.mine = flags], o.aid, Later(o)))
        /\ due'  = due \cup ({o.aid, rows[r].aid} \ {NoAid})
        /\ torn' = torn \cup ({rows[r].aid} \ {o.aid, o.prev, NoAid})
        /\ UNCHANGED <<folders, watched>>

\* recompute_duplicate_flags: the rows of the id, in id order.  The row of the
\* operation itself is still in the session and not read again.
ReadGroup(x) ==
  LET o == op[x]
      g == Group(o.now)
      seen == [r \in Ids |-> IF r \notin g THEN NoFlags
                             ELSE IF r = o.row THEN o.mine ELSE rows[r].flags]
  IN
  /\ o.pc = "read"
  /\ Becomes(x, [o EXCEPT !.pc = "write", !.group = g, !.seen = seen])
  /\ UNCHANGED <<folders, watched, rows, due, torn>>

\* Has nothing touched the group since it was read?
Undisturbed(o) ==
  o.group = Group(o.now) /\ \A r \in o.group : o.seen[r] = rows[r].flags

\* A wrong Rewritten that leaves the primary as it was.
Rest(g, p) == g \ {p}

\* The rows of a group that get new flags: all, a group of one included.
Rewritten(g, p) == g

\* The first row becomes the primary, the others point at it.
WriteGroup(x) ==
  LET o == op[x] IN
  /\ o.pc = "write"
  /\ \E p \in Ids \cup {0} :
       LET target  == [r \in Ids |-> Target(p, r)]
           changed == {r \in Rewritten(o.group, p) : target[r] # o.seen[r]}
       IN
       /\ IF o.group = {} THEN p = 0 ELSE First(o.group, p)
       /\ \/ /\ ~(changed \subseteq Live) \/ \E r \in changed : ~Writable(target[r], o.seen[r])
             /\ Fail(x)
          \/ /\ changed \subseteq Live /\ \A r \in changed : Writable(target[r], o.seen[r])
             /\ rows' = [r \in Ids |->
                           IF r \in changed
                             THEN [rows[r] EXCEPT !.flags = Merged(target[r], o.seen[r], rows[r].flags)]
                             ELSE rows[r]]
             /\ LET mine == IF o.row \in o.group THEN target[o.row] ELSE o.mine
                IN Becomes(x, Then([o EXCEPT !.mine = mine], NoAid, o.later))
             /\ IF Undisturbed(o)
                  THEN due' = due \ {o.now} /\ torn' = torn \ {o.now}
                  ELSE LET hit == ({rows[r].aid : r \in changed} \cup {o.now}) \ {NoAid}
                       IN due' = due \cup hit /\ torn' = torn \cup hit
             /\ UNCHANGED <<folders, watched>>

\* DELETE /animes/{id}, a directory gone, a merge: the row is loaded, ...
LoadForDelete(x, r) ==
  /\ r \in Live
  /\ Begin(x, [Idle EXCEPT !.pc = "remove", !.row = r, !.prev = rows[r].aid])
  /\ UNCHANGED <<folders, watched, rows, due, torn>>

\* ... then, in one transaction, the rows pointing at it are cleared and it is
\* deleted; what is left of its group is recomputed after that.
Remove(x) ==
  LET o == op[x]
      r == o.row
  IN
  /\ o.pc = "remove"
  /\ rows' = [q \in Ids |-> IF q = r THEN NoRow
                            ELSE IF q \in Live /\ rows[q].flags.dup = r
                                   THEN [rows[q] EXCEPT !.flags = NoFlags]
                            ELSE rows[q]]
  /\ Becomes(x, Then([o EXCEPT !.row = 0], o.prev, NoAid))
  /\ LET hit == ({o.prev} \cup (IF r \in Live THEN {rows[r].aid} ELSE {})) \ {NoAid}
     IN due' = due \cup hit /\ torn' = torn \cup (hit \ {o.prev})
  /\ UNCHANGED <<folders, watched>>

\* DELETE /folders/{id}: the observer goes, the anime ids are read, ...
LoadFolder(x, f) ==
  /\ f \in folders
  /\ Begin(x, [Idle EXCEPT !.pc = "drop", !.folder = f, !.group = InFolder(f)])
  /\ watched' = watched \ {f}
  /\ UNCHANGED <<folders, rows, due, torn>>

\* The foreign keys let the anime of the operation and then its folder go.
Droppable(o) ==
  /\ \A q \in Live \ o.group : rows[q].flags.dup \notin o.group
  /\ \A q \in Live \ o.group : rows[q].folder # o.folder

\* ... then all of it is deleted in one transaction, or nothing is.
DropFolder(x) ==
  LET o == op[x] IN
  /\ o.pc = "drop"
  /\ \/ /\ ~Droppable(o)
        /\ UNCHANGED <<folders, rows>>
     \/ /\ Droppable(o)
        /\ rows' = [q \in Ids |-> IF q \in o.group THEN NoRow ELSE rows[q]]
        /\ folders' = folders \ {o.folder}
  /\ Becomes(x, Idle)
  /\ UNCHANGED <<watched, due, torn>>

\* POST /folders
AddFolder(f) ==
  /\ f \notin folders
  /\ folders' = folders \cup {f} /\ watched' = watched \cup {f}
  /\ UNCHANGED <<rows, op, ops, due, torn>>

\* The process ends and starts again: what was in flight is gone.
Restart ==
  /\ op' = [x \in Actors |-> Idle]
  /\ torn' = torn \cup (due \cap UNION {InHand(op[x]) : x \in Actors})
  /\ watched' = folders
  /\ UNCHANGED <<folders, rows, ops, due>>

Step(x) ==
  /\ Answer(x) \/ Apply(x) \/ ReadGroup(x) \/ WriteGroup(x) \/ Remove(x) \/ DropFolder(x)
  /\ UNCHANGED ops

Request(x) ==
  \/ \E r \in Ids : LoadForIdentify(x, r) \/ LoadForDelete(x, r)
  \/ \E f \in Folders : LoadFolder(x, f)

Init ==
  /\ folders = {} /\ watched = {}
  /\ rows = [r \in Ids |-> NoRow]
  /\ op = [x \in Actors |-> Idle] /\ ops = 0
  /\ due = {} /\ torn = {}

Next ==
  \/ \E x \in Actors : Step(x) \/ Request(x)
  \/ \E f \in Folders : CreatePending(f) \/ AddFolder(f)
  \/ Restart

Spec == Init /\ [][Next]_vars
-----------------------------------------------------------------------------
(* Properties.                                                             *)

\* What recompute_duplicate_flags promises for one AniDB id: the first row is
\* the primary, every other row is a duplicate of it.
Derived(a) ==
  \A r \in Group(a) : \E p \in Group(a) : First(Group(a), p) /\ rows[r].flags = Target(p, r)

(* A row's folder is registered and the row it is a duplicate of exists,
   whatever deletes, recomputations and folder deletes interleave: stale
   operations fail instead of leaving a dangling reference. *)
ForeignKeys ==
  \A r \in Live : rows[r].folder \in folders /\ rows[r].flags.dup \in Live \cup {0}

(* Outside the ids that changed and wait for their recomputation, the flags
   are what a recomputation from scratch would give: deletes of rows and of
   folders, and recomputations of other ids, never disturb them. *)
DerivedUnlessDue == \A a \in Aids \ due : Derived(a)

(* Every changed id is in the hands of an operation that will recompute it,
   or an operation on it was cut short or interfered with: an identification
   and a delete always cover the group that is joined and the one left. *)
DueIsInHand == due \subseteq torn \cup UNION {InHand(op[x]) : x \in Actors}
=============================================================================
