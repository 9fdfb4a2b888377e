---------------------------- MODULE SortMove_proofs ----------------------------
(***************************************************************************)
(* Proofs about SortMove.  The inductive invariant IInv types every         *)
(* variable and adds what the names of files rest on: the disk, the episode *)
(* rows and the files of an operation are finite, so that one of the        *)
(* numbered names is free, a plan to move holds matched files only, and the *)
(* names a rename has given are set aside, so that no two files get the     *)
(* same one.  No move replaces another file, therefore, and with that no    *)
(* step loses a video.                                                      *)
(*                                                                         *)
(* Where nobody comes between, NInv adds where the files are: one operation *)
(* is at work; all rows but its own have their files in their directories,  *)
(* and by its position it is known which of its own files have been moved,  *)
(* to which places, and which rows have followed.  So the anime is in one   *)
(* place again when it ends, and no file that stays is forgotten.           *)
(***************************************************************************)
EXTENDS SortMove, FiniteSetTheorems, WellFoundedInduction, TLAPS

Copies == [path : Paths, video : Videos, whole : BOOLEAN]

\* A row is free, or has a directory.
Row == {NoRow} \cup [dir : Dirs, known : BOOLEAN]

Record ==
  [pc : Steps, row : 0..MaxRows, to : 0..MaxRows, src : Dirs \cup {NoDir},
   dest : Dirs \cup {NoDir}, all : BOOLEAN, todo : SUBSET Ep, moved : SUBSET (Ep \X Paths),
   now : SUBSET (Ep \X Paths), kept : SUBSET Paths, made : BOOLEAN]

\* What is planned, moved and kept is finite, and who moves knows where to.
Planned(o) ==
  /\ IsFiniteSet(o.todo) /\ IsFiniteSet(o.moved) /\ IsFiniteSet(o.kept)
  /\ o.pc \notin {"idle", "target"} => o.dest \in Dirs
  /\ o.pc \in {"target", "merge", "begin", "moving", "unlist", "list"} => o.todo = Matched(o.todo)
  /\ o.pc \in {"dir", "paths"} => o.src \in Dirs /\ o.moved = {}

\* The names that a rename has given are set aside, each for one file.
SetAside(o) ==
  /\ o.pc = "paths" => \A e \in o.todo : DirOf(e.path) = o.src
  /\ o.pc = "files" => o.todo = Misnamed(o.todo) /\ \A m \in o.moved : m[2] \in o.kept
  /\ o.pc \in {"files", "names"} => \A m, n \in o.moved : m[2] = n[2] => m = n

Operation == {o \in Record : Planned(o) /\ SetAside(o)}

DiskFits ==
  /\ disk \subseteq Copies /\ IsFiniteSet(disk)
  /\ \A c, e \in disk : c.path = e.path => c = e
  /\ dirs \subseteq Dirs /\ \A c \in disk : DirOf(c.path) \in dirs

RowsFit == rows \in [Ids -> Row]

EpsFit ==
  /\ eps \subseteq Ep /\ IsFiniteSet(eps)
  /\ \A e, f \in eps : e.path = f.path => e = f

RestFits ==
  /\ number \in [Videos -> Episodes \cup {NoEpisode}]
  /\ busy \in Actors \cup {NoActor} /\ trouble \in 0..Trouble /\ mishap \in Mishaps

IInv == DiskFits /\ RowsFit /\ EpsFit /\ op \in [Actors -> Operation] /\ RestFits
-----------------------------------------------------------------------------
(* Sets and paths.                                                          *)

(* The image of a finite set is finite, and no larger. *)
LEMMA FiniteImage ==
  ASSUME NEW S, IsFiniteSet(S), NEW T, NEW f \in [S -> T], \A t \in T : \E s \in S : f[s] = t
  PROVE  IsFiniteSet(T) /\ Cardinality(T) <= Cardinality(S)
<1>1. f \in Surjection(S, T)
  BY DEF Surjection
<1> QED
  BY <1>1, FS_Surjection

(* The paths on a finite disk, and what their number is at most. *)
LEMMA PathsOfDisk ==
  ASSUME IsFiniteSet(disk), NEW T, T = {c.path : c \in disk}
  PROVE  IsFiniteSet(T) /\ Cardinality(T) <= Cardinality(disk)
<1> DEFINE f == [c \in disk |-> c.path]
<1>1. f \in [disk -> T] /\ \A t \in T : \E c \in disk : f[c] = t
  OBVIOUS
<1> HIDE DEF f
<1> QED
  BY <1>1, FiniteImage

LEMMA Variants ==
  ASSUME NEW p \in Paths, NEW i \in Nat
  PROVE  /\ Variant(p, i) \in Paths
         /\ DirOf(Variant(p, i)) = DirOf(p) /\ NameOf(Variant(p, i)) = NameOf(p)
         /\ Variant(p, i)[2][2] = p[2][2] + i
<1>1. /\ p[1] \in Dirs /\ p[2] \in (Videos \cup Episodes) \X (Nat \ {0})
      /\ p[2][1] \in Videos \cup Episodes /\ p[2][2] \in Nat /\ p[2][2] # 0
  BY DEF Paths
<1>2. p[2][2] + i \in Nat \ {0}
  BY <1>1
<1>3. PICK n \in Nat \ {0} : n = p[2][2] + i
  BY <1>2
<1>4. Variant(p, i) = <<p[1], <<p[2][1], n>>>>
  BY <1>3 DEF Variant
<1>5. <<p[2][1], n>> \in (Videos \cup Episodes) \X (Nat \ {0})
  BY <1>1
<1>6. Variant(p, i) \in Paths
  BY <1>1, <1>4, <1>5 DEF Paths
<1> QED
  BY <1>3, <1>4, <1>6 DEF DirOf, NameOf

(* Of more names than there are files, and names set aside, one is free. *)
LEMMA SomeVariantIsFree ==
  ASSUME IsFiniteSet(disk), NEW taken, IsFiniteSet(taken), NEW p \in Paths
  PROVE  \E i \in 0..(Cardinality(disk) + Cardinality(taken)) :
           At(Variant(p, i)) = {} /\ Variant(p, i) \notin taken
<1> DEFINE N == Cardinality(disk) + Cardinality(taken)
           T == {c.path : c \in disk}
<1>1. /\ IsFiniteSet(T) /\ Cardinality(T) <= Cardinality(disk)
      /\ Cardinality(disk) \in Nat /\ Cardinality(taken) \in Nat /\ Cardinality(T) \in Nat
  BY PathsOfDisk, FS_CardinalityType
<1>2. IsFiniteSet(T \cup taken) /\ Cardinality(T \cup taken) <= N /\ Cardinality(T \cup taken) \in Nat
  <2>1. Cardinality(T \cap taken) \in Nat
    BY <1>1, FS_Intersection, FS_CardinalityType
  <2>2. /\ IsFiniteSet(T \cup taken)
        /\ Cardinality(T \cup taken) = Cardinality(T) + Cardinality(taken) - Cardinality(T \cap taken)
    BY <1>1, FS_Union
  <2> HIDE DEF T
  <2> QED
    BY <1>1, <2>1, <2>2, FS_CardinalityType
<1>3. IsFiniteSet(0..N) /\ Cardinality(0..N) = N + 1 /\ N \in Nat
  <2>1. N \in Nat
    BY <1>1
  <2> HIDE DEF N
  <2> QED
    BY <2>1, FS_Interval
<1>4. SUFFICES ASSUME \A i \in 0..N : Variant(p, i) \in T \cup taken
               PROVE  FALSE
  <2>1. ASSUME NEW q, At(q) # {} PROVE q \in T
    BY <2>1 DEF At
  <2> QED
    BY <2>1
<1>5. Cardinality(T \cup taken) < Cardinality(0..N)
  <2> HIDE DEF N, T
  <2> QED
    BY <1>2, <1>3
<1> DEFINE f == [i \in 0..N |-> Variant(p, i)]
<1>6. f \in [0..N -> T \cup taken]
  BY <1>4
<1>7. PICK i, j \in 0..N : i # j /\ f[i] = f[j]
  <2> HIDE DEF f, N, T
  <2> QED
    BY <1>2, <1>3, <1>5, <1>6, FS_PigeonHole
<1>8. Variant(p, i) = Variant(p, j) /\ i # j
  BY <1>7
<1>9. i \in Nat /\ j \in Nat /\ p[2][2] \in Nat
  BY <1>3 DEF Paths
<1>10. Variant(p, i)[2][2] = p[2][2] + i /\ Variant(p, j)[2][2] = p[2][2] + j
  BY <1>9, Variants
<1> QED
  BY <1>8, <1>9, <1>10

LEMMA Least ==
  ASSUME NEW S \in SUBSET Nat, S # {}
  PROVE  \E i \in S : \A j \in S : i <= j
<1>1. OpToRel(<, Nat) = {p \in Nat \X Nat : p[1] < p[2]}
  BY DEF OpToRel
<1>2. PICK i \in S : \A j \in S : <<j, i>> \notin {p \in Nat \X Nat : p[1] < p[2]}
  BY <1>1, WFMin, NatLessThanWellFounded
<1>3. \A j \in S : ~(j < i)
  BY <1>2
<1> QED
  BY <1>3

(* What _dedupe_path returns: a name of the same directory and stem that no
   other file has and that is not set aside; the name itself if it is free. *)
LEMMA FreePathIsFree ==
  ASSUME IsFiniteSet(disk), NEW taken, IsFiniteSet(taken), NEW p \in Paths, NEW from
  PROVE  LET q == FreePath(p, from, taken) IN
         /\ q \in Paths /\ DirOf(q) = DirOf(p) /\ NameOf(q) = NameOf(p)
         /\ q = from \/ (At(q) = {} /\ q \notin taken)
         /\ p = from \/ (At(p) = {} /\ p \notin taken) => q = p
<1> DEFINE N    == Cardinality(disk) + Cardinality(taken)
           free == {i \in 0..N : \/ Variant(p, i) = from
                                 \/ At(Variant(p, i)) = {} /\ Variant(p, i) \notin taken}
<1>1. N \in Nat
  BY FS_CardinalityType
<1>2. free # {} /\ free \in SUBSET Nat
  BY <1>1, SomeVariantIsFree
<1>3. PICK i : i = CHOOSE j \in free : \A k \in free : j <= k
  OBVIOUS
<1>4. i \in free /\ \A k \in free : i <= k
  <2> HIDE DEF free
  <2> QED
    BY <1>2, <1>3, Least
<1>5. FreePath(p, from, taken) = Variant(p, i)
  BY <1>3 DEF FreePath
<1>6. i \in 0..N /\ (Variant(p, i) = from \/ (At(Variant(p, i)) = {} /\ Variant(p, i) \notin taken))
  BY <1>4
<1>7. i \in Nat
  BY <1>1, <1>6
<1>8. Variant(p, 0) = p
  <2>1. p = <<p[1], p[2]>> /\ p[2] \in (Videos \cup Episodes) \X (Nat \ {0})
    BY DEF Paths
  <2>2. p[2] = <<p[2][1], p[2][2]>> /\ p[2][2] + 0 = p[2][2]
    BY <2>1
  <2> QED
    BY <2>1, <2>2 DEF Variant
<1>9. p = from \/ (At(p) = {} /\ p \notin taken) => i = 0
  <2> SUFFICES ASSUME p = from \/ (At(p) = {} /\ p \notin taken) PROVE i = 0
    OBVIOUS
  <2>1. 0 \in free
    BY <1>1, <1>8
  <2> HIDE DEF free
  <2>2. i <= 0
    BY <1>4, <2>1
  <2> QED
    BY <1>7, <2>2
<1> QED
  BY <1>5, <1>6, <1>7, <1>8, <1>9, Variants
-----------------------------------------------------------------------------
(* What moves do to the disk.                                               *)

\* The videos that are whole stay so.
NothingLost == \A v \in Videos : Whole(v) => Whole(v)'

LEMMA PathParts ==
  ASSUME NEW p \in Paths
  PROVE  DirOf(p) \in Dirs /\ NameOf(p) \in Videos \cup Episodes
BY DEF Paths, DirOf, NameOf

LEMMA CopyOf ==
  ASSUME NEW c \in Copies, NEW p \in Paths, NEW whole \in BOOLEAN
  PROVE  /\ Copied(c, p, whole) \in Copies
         /\ Copied(c, p, whole).path = p /\ Copied(c, p, whole).video = c.video
         /\ Copied(c, p, whole).whole = whole
BY DEF Copied, Copies

(* A file comes to a place where none is. *)
LEMMA FileAdded ==
  ASSUME DiskFits, NEW k \in Copies, At(k.path) = {}, disk' = disk \cup {k},
         dirs \subseteq dirs', dirs' \subseteq Dirs, DirOf(k.path) \in dirs'
  PROVE  DiskFits' /\ NothingLost
<1>1. IsFiniteSet(disk')
  BY FS_AddElement DEF DiskFits
<1>2. \A c \in disk : c.path # k.path
  BY DEF At
<1>3. DiskFits'
  BY <1>1, <1>2 DEF DiskFits
<1> QED
  BY <1>3 DEF NothingLost, Whole

LEMMA NoFileChanges ==
  ASSUME DiskFits, disk' = disk, dirs \subseteq dirs', dirs' \subseteq Dirs
  PROVE  DiskFits' /\ NothingLost
BY DEF DiskFits, NothingLost, Whole

(* A file goes to a place where none is, or stays where it is. *)
LEMMA DoneFits ==
  ASSUME DiskFits, NEW from, NEW to \in Paths, to = from \/ At(to) = {}, MoveDone(from, to)
  PROVE  DiskFits' /\ NothingLost
<1>1. PICK c \in disk : c.path = from /\ disk' = Relocated(c, to)
  BY DEF MoveDone, At
<1>2. c \in Copies /\ c.whole \in BOOLEAN
  BY DEF DiskFits, Copies
<1>3. PICK k : k = Copied(c, to, c.whole)
  OBVIOUS
<1>4. k \in Copies /\ k.path = to /\ k.video = c.video /\ k.whole = c.whole
  BY <1>2, <1>3, CopyOf
<1>5. At(to) \subseteq {c}
  BY <1>1 DEF DiskFits, At
<1>6. disk' = (disk \ {c}) \cup {k}
  BY <1>1, <1>3, <1>5 DEF Relocated
<1>7. \A e \in disk \ {c} : e.path # to
  BY <1>5 DEF At
<1>8. IsFiniteSet(disk')
  BY <1>6, FS_AddElement, FS_RemoveElement DEF DiskFits
<1>9. dirs' = dirs \cup {DirOf(to)} /\ DirOf(to) \in Dirs
  BY PathParts DEF MoveDone
<1>10. DiskFits'
  BY <1>4, <1>6, <1>7, <1>8, <1>9 DEF DiskFits
<1>11. NothingLost
  BY <1>1, <1>4, <1>6 DEF NothingLost, Whole
<1> QED
  BY <1>10, <1>11

(* A move that fails, or is cut short, leaves what was there. *)
LEMMA CutFits ==
  ASSUME DiskFits, NEW c \in disk, NEW to \in Paths, to = c.path \/ At(to) = {},
         disk' \in CutMove(c, to), dirs \subseteq dirs', dirs' \subseteq Dirs,
         \A e \in disk' : DirOf(e.path) \in dirs'
  PROVE  DiskFits' /\ NothingLost
<1>1. c \in Copies /\ c.whole \in BOOLEAN
  BY DEF DiskFits, Copies
<1>2. CASE disk' = disk
  BY <1>2, NoFileChanges
<1>3. CASE disk' # disk
  <2>1. ByCopy(c, to) /\ \E whole \in BOOLEAN : disk' = disk \cup {Copied(c, to, whole)}
    BY <1>1, <1>3 DEF CutMove, FailedMove
  <2>2. At(to) = {}
    BY <2>1 DEF ByCopy
  <2>3. PICK whole \in BOOLEAN : disk' = disk \cup {Copied(c, to, whole)}
    BY <2>1
  <2>4. PICK k : k = Copied(c, to, whole)
    OBVIOUS
  <2>5. k \in Copies /\ k.path = to /\ k \in disk'
    BY <1>1, <2>3, <2>4, CopyOf
  <2> QED
    BY <2>2, <2>3, <2>4, <2>5, FileAdded
<1> QED
  BY <1>2, <1>3

LEMMA FailFits ==
  ASSUME DiskFits, NEW from, NEW to \in Paths, to = from \/ At(to) = {}, MoveFails(from, to)
  PROVE  DiskFits' /\ NothingLost
<1>1. dirs' = dirs \cup {DirOf(to)} /\ DirOf(to) \in Dirs
  BY PathParts DEF MoveFails
<1>2. CASE disk' = disk
  BY <1>1, <1>2, NoFileChanges DEF DiskFits
<1>3. CASE disk' # disk
  <2>1. PICK c \in disk : c.path = from /\ disk' \in FailedMove(c, to)
    BY <1>3 DEF MoveFails, At
  <2>2. c \in Copies /\ disk' \in CutMove(c, to) /\ disk' \in {disk, disk \cup {Copied(c, to, FALSE)}}
    BY <2>1 DEF CutMove, FailedMove, DiskFits
  <2>3. Copied(c, to, FALSE).path = to
    BY <2>2, CopyOf
  <2>4. \A e \in disk' : DirOf(e.path) \in dirs'
    BY <1>1, <2>2, <2>3 DEF DiskFits
  <2> QED
    BY <1>1, <2>1, <2>2, <2>4, CutFits DEF DiskFits
<1> QED
  BY <1>2, <1>3

\* A file is moved, or it is not.
Moved(from, to) == MoveDone(from, to) \/ MoveFails(from, to)

LEMMA MovedFits ==
  ASSUME IInv, NEW from, NEW to \in Paths, to = from \/ At(to) = {}, Moved(from, to)
  PROVE  DiskFits' /\ NothingLost /\ trouble' \in 0..Trouble
<1>1. trouble' \in 0..Trouble
  BY SortAssumption DEF IInv, RestFits, Moved, MoveDone, MoveFails, Spend
<1> QED
  BY <1>1, DoneFits, FailFits DEF IInv, Moved

(* A directory without videos is removed, or is not. *)
LEMMA CleanedUpFits ==
  ASSUME DiskFits, NEW d, CleanedUp(d), disk' = disk
  PROVE  DiskFits' /\ NothingLost
BY DEF DiskFits, NothingLost, Whole, CleanedUp, FilesIn
-----------------------------------------------------------------------------
(* Where files go.                                                          *)

LEMMA OperationOf ==
  ASSUME IInv, NEW x \in Actors
  PROVE  op[x] \in Operation /\ op[x] \in Record /\ Planned(op[x]) /\ SetAside(op[x])
BY DEF IInv, Operation

LEMMA NamedPath ==
  ASSUME NEW d \in Dirs, NEW name \in Videos \cup Episodes
  PROVE  /\ Named(d, name) \in Paths
         /\ DirOf(Named(d, name)) = d /\ NameOf(Named(d, name)) = name
<1>1. <<name, 1>> \in (Videos \cup Episodes) \X (Nat \ {0})
  OBVIOUS
<1> QED
  BY <1>1 DEF Named, Paths, DirOf, NameOf

LEMMA EpisodeRow ==
  ASSUME NEW e \in Ep
  PROVE  /\ e.path \in Paths /\ e.row \in Ids /\ e.num \in Episodes \cup {NoEpisode}
         /\ e.num # NoEpisode => e.num \in Episodes
BY DEF Ep

LEMMA TargetFits ==
  ASSUME IInv, NEW x \in Actors, op[x].pc \in {"merge", "moving"}, NEW e \in op[x].todo
  PROVE  /\ e \in Ep /\ Target(x, e) \in Paths
         /\ Target(x, e) = e.path \/ At(Target(x, e)) = {}
<1>1. op[x].dest \in Dirs /\ e \in Matched(op[x].todo) /\ e \in Ep
  BY OperationOf DEF Planned, Record
<1>2. e.num \in Episodes
  BY <1>1, EpisodeRow DEF Matched
<1>3. Named(op[x].dest, e.num) \in Paths
  BY <1>1, <1>2, NamedPath
<1>4. IsFiniteSet(disk) /\ IsFiniteSet({})
  BY FS_EmptySet DEF IInv, DiskFits
<1> QED
  BY <1>1, <1>3, <1>4, FreePathIsFree DEF Target

LEMMA WayBackFits ==
  ASSUME IInv, NEW x \in Actors, NEW m \in op[x].moved
  PROVE  LET p == FreePath(m[1].path, m[2], {}) IN p \in Paths /\ (p = m[2] \/ At(p) = {})
<1>1. m[1].path \in Paths
  BY OperationOf DEF Record, Ep
<1>2. IsFiniteSet(disk) /\ IsFiniteSet({})
  BY FS_EmptySet DEF IInv, DiskFits
<1> QED
  BY <1>1, <1>2, FreePathIsFree

LEMMA LeftoverFits ==
  ASSUME IInv, NEW x \in Actors, op[x].pc = "leftover", NEW c \in Leftover(x)
  PROVE  /\ c \in disk /\ c.path \in Paths /\ NewPlace(x, c) \in Paths
         /\ NewPlace(x, c) = c.path \/ At(NewPlace(x, c)) = {}
<1>1. op[x].dest \in Dirs
  BY OperationOf DEF Planned
<1>2. c \in disk /\ c.path \in Paths
  BY DEF Leftover, FilesIn, IInv, DiskFits, Copies
<1>3. <<op[x].dest, c.path[2]>> \in Paths
  BY <1>1, <1>2 DEF Paths
<1>4. IsFiniteSet(disk) /\ IsFiniteSet({})
  BY FS_EmptySet DEF IInv, DiskFits
<1> QED
  BY <1>2, <1>3, <1>4, FreePathIsFree DEF NewPlace

(* A file renamed after its episode gets a name that none of the operation's
   other files has. *)
LEMMA NewNameFits ==
  ASSUME IInv, NEW x \in Actors, op[x].pc = "files", NEW e \in op[x].todo
  PROVE  LET p == FreePath(Named(DirOf(e.path), e.num), e.path, op[x].kept) IN
         p \in Paths /\ At(p) = {} /\ p \notin op[x].kept
<1> DEFINE p == FreePath(Named(DirOf(e.path), e.num), e.path, op[x].kept)
<1>1. e \in Ep /\ e \in Misnamed(op[x].todo) /\ IsFiniteSet(op[x].kept)
  BY OperationOf DEF Planned, SetAside, Record
<1>2. e.num \in Episodes /\ NameOf(e.path) # e.num /\ e.path \in Paths
  BY <1>1, EpisodeRow DEF Misnamed, Matched
<1>3. Named(DirOf(e.path), e.num) \in Paths /\ NameOf(Named(DirOf(e.path), e.num)) = e.num
  BY <1>2, PathParts, NamedPath
<1>4. IsFiniteSet(disk)
  BY DEF IInv, DiskFits
<1>5. /\ p \in Paths /\ NameOf(p) = e.num
      /\ p = e.path \/ (At(p) = {} /\ p \notin op[x].kept)
  BY <1>1, <1>3, <1>4, FreePathIsFree
<1> HIDE DEF p
<1>6. p # e.path
  BY <1>2, <1>5
<1> QED
  BY <1>5, <1>6 DEF p
-----------------------------------------------------------------------------
(* The steps of an operation.                                               *)

LEMMA IdleFits == Idle \in Operation
<1>1. Idle \in Record
  BY SortAssumption DEF Idle, Record, Steps
<1> QED
  BY <1>1, FS_EmptySet DEF Operation, Planned, SetAside, Idle

LEMMA OpGoesOn ==
  ASSUME IInv, NEW x \in Actors, NEW o \in Operation, Becomes(x, o)
  PROVE  op' \in [Actors -> Operation]
BY DEF IInv, Becomes

LEMMA OpEnds ==
  ASSUME IInv, NEW x \in Actors, Over(x)
  PROVE  op' \in [Actors -> Operation]
BY IdleFits, OpGoesOn DEF Over

(* At another place in the same operation. *)
LEMMA OpMovesOn ==
  ASSUME IInv, NEW x \in Actors, NEW pc \in Steps, Goto(x, pc),
         pc \notin {"idle", "target"} => op[x].dest \in Dirs,
         pc \in {"target", "merge", "begin", "moving", "unlist", "list"}
           => op[x].todo = Matched(op[x].todo),
         pc \notin {"dir", "paths", "files"},
         pc = "names" => op[x].pc = "files"
  PROVE  op' \in [Actors -> Operation]
<1>1. PICK o : o = [op[x] EXCEPT !.pc = pc]
  OBVIOUS
<1>2. /\ o \in Record /\ o.pc = pc /\ o.todo = op[x].todo /\ o.moved = op[x].moved
      /\ o.kept = op[x].kept /\ o.dest = op[x].dest /\ o.src = op[x].src
  BY <1>1, OperationOf DEF Record
<1>3. Planned(o)
  BY <1>2, OperationOf DEF Planned
<1>4. SetAside(o)
  BY <1>2, OperationOf DEF SetAside
<1>5. o \in Operation /\ Becomes(x, o)
  BY <1>1, <1>2, <1>3, <1>4 DEF Operation, Goto
<1> QED
  BY <1>5, OpGoesOn

LEMMA Befallen ==
  ASSUME IInv, NEW what \in Mishaps, Befalls(what)
  PROVE  mishap' \in Mishaps
BY DEF IInv, RestFits, Befalls

LEMMA BetweenFits ==
  ASSUME IInv, Between
  PROVE  trouble' \in 0..Trouble
BY SortAssumption DEF IInv, RestFits, Between, Spend

LEMMA MeetingFits ==
  ASSUME IInv, Meeting
  PROVE  trouble' \in 0..Trouble /\ mishap' \in Mishaps
<1>1. "met" \in Mishaps
  BY DEF Mishaps
<1> QED
  BY <1>1, BetweenFits, Befallen DEF Meeting, IInv, RestFits

LEMMA FilesStay ==
  ASSUME IInv, UNCHANGED <<disk, dirs>>
  PROVE  DiskFits' /\ NothingLost
BY NoFileChanges DEF IInv, DiskFits

LEMMA RowsStay ==
  ASSUME IInv, UNCHANGED db
  PROVE  RowsFit' /\ EpsFit'
BY DEF IInv, RowsFit, EpsFit, db

LEMMA RestStays ==
  ASSUME IInv, UNCHANGED number, busy' \in Actors \cup {NoActor}, trouble' \in 0..Trouble,
         mishap' \in Mishaps
  PROVE  RestFits'
BY DEF IInv, RestFits

(* A row that lives has a directory, and its episodes can be counted. *)
LEMMA RowOf ==
  ASSUME IInv, NEW r \in Live
  PROVE  /\ r \in Ids /\ rows[r].dir \in Dirs /\ rows[r].known \in BOOLEAN
         /\ r \in 0..MaxRows /\ EpsOf(r) \subseteq Ep /\ IsFiniteSet(EpsOf(r))
         /\ Matched(EpsOf(r)) \subseteq Ep /\ IsFiniteSet(Matched(EpsOf(r)))
<1>1. r \in Ids /\ rows[r] \in [dir : Dirs, known : BOOLEAN] /\ r \in 0..MaxRows
  BY SortAssumption DEF IInv, RowsFit, Live, Row, Ids
<1>2. EpsOf(r) \subseteq eps /\ Matched(EpsOf(r)) \subseteq eps /\ eps \subseteq Ep
  BY DEF EpsOf, Matched, IInv, EpsFit
<1>3. IsFiniteSet(EpsOf(r)) /\ IsFiniteSet(Matched(EpsOf(r)))
  BY <1>2, FS_Subset DEF IInv, EpsFit
<1> QED
  BY <1>1, <1>2, <1>3

(* An operation begins. *)
LEMMA BeginsFits ==
  ASSUME IInv, NEW x \in Actors, NEW o \in Operation, Begins(x, o)
  PROVE  IInv' /\ NothingLost
<1>1. Becomes(x, o) /\ Meeting /\ UNCHANGED <<number, disk, dirs, db, busy>>
  BY DEF Begins
<1>2. op' \in [Actors -> Operation]
  BY <1>1, OpGoesOn
<1>3. DiskFits' /\ NothingLost /\ RowsFit' /\ EpsFit'
  BY <1>1, FilesStay, RowsStay
<1>4. RestFits'
  BY <1>1, MeetingFits, RestStays DEF IInv, RestFits
<1> QED
  BY <1>2, <1>3, <1>4 DEF IInv

LEMMA SortBeginsFits ==
  ASSUME IInv, NEW x \in Actors, SortBegins(x)
  PROVE  IInv' /\ NothingLost
<1>1. PICK r \in Live :
        Begins(x, [Idle EXCEPT !.pc = "target", !.row = r, !.src = rows[r].dir,
                     !.todo = Matched(EpsOf(r)), !.all = (EpsOf(r) = Matched(EpsOf(r)))])
  BY DEF SortBegins
<1>2. PICK all \in BOOLEAN : all = (EpsOf(r) = Matched(EpsOf(r)))
  OBVIOUS
<1>3. PICK es : es = Matched(EpsOf(r))
  OBVIOUS
<1>4. /\ es \subseteq Ep /\ IsFiniteSet(es) /\ Matched(es) = es
      /\ rows[r].dir \in Dirs /\ r \in 0..MaxRows
  BY <1>3, RowOf DEF Matched
<1>5. PICK o : o = [Idle EXCEPT !.pc = "target", !.row = r, !.src = rows[r].dir,
                      !.todo = es, !.all = all]
  OBVIOUS
<1>6. Begins(x, o)
  BY <1>1, <1>2, <1>3, <1>5
<1>7. Idle \in Record /\ IsFiniteSet(Idle.moved) /\ IsFiniteSet(Idle.kept)
  BY IdleFits DEF Operation, Planned
<1>8. /\ o \in Record /\ o.pc = "target" /\ o.todo = es /\ o.moved = Idle.moved
      /\ o.kept = Idle.kept
  BY <1>4, <1>5, <1>7 DEF Record, Steps
<1>9. o \in Operation
  BY <1>4, <1>7, <1>8 DEF Operation, Planned, SetAside
<1> QED
  BY <1>6, <1>9, BeginsFits

LEMMA RenameBeginsFits ==
  ASSUME IInv, NEW x \in Actors, RenameBegins(x)
  PROVE  IInv' /\ NothingLost
<1>1. PICK r \in Live :
        Begins(x, [Idle EXCEPT !.pc = "dir", !.row = r, !.src = rows[r].dir,
                     !.dest = Titled(rows[r].dir), !.todo = EpsOf(r)])
  BY DEF RenameBegins
<1>2. PICK es : es = EpsOf(r)
  OBVIOUS
<1>3. PICK d : d = Titled(rows[r].dir)
  OBVIOUS
<1>4. /\ es \subseteq Ep /\ IsFiniteSet(es) /\ d \in Dirs
      /\ rows[r].dir \in Dirs /\ r \in 0..MaxRows
  BY <1>2, <1>3, RowOf DEF Titled, Dirs
<1>5. PICK o : o = [Idle EXCEPT !.pc = "dir", !.row = r, !.src = rows[r].dir,
                      !.dest = d, !.todo = es]
  OBVIOUS
<1>6. Begins(x, o)
  BY <1>1, <1>2, <1>3, <1>5
<1>7. Idle \in Record /\ IsFiniteSet(Idle.kept) /\ Idle.moved = {}
  BY IdleFits DEF Operation, Planned, Idle
<1>8. /\ o \in Record /\ o.pc = "dir" /\ o.todo = es /\ o.moved = Idle.moved
      /\ o.kept = Idle.kept /\ o.src = rows[r].dir /\ o.dest = d
  BY <1>4, <1>5, <1>7 DEF Record, Steps
<1>9. o \in Operation
  BY <1>4, <1>7, <1>8, FS_EmptySet DEF Operation, Planned, SetAside
<1> QED
  BY <1>6, <1>9, BeginsFits

(* A step that leaves disk, catalogue and all but the operation alone. *)
LEMMA OnlyOpChanges ==
  ASSUME IInv, op' \in [Actors -> Operation], UNCHANGED <<number, onDisk, db, busy, mishap>>
  PROVE  IInv' /\ NothingLost
<1>1. DiskFits' /\ NothingLost /\ RowsFit' /\ EpsFit'
  BY FilesStay, RowsStay DEF onDisk
<1>2. RestFits'
  BY RestStays DEF IInv, RestFits, onDisk
<1> QED
  BY <1>1, <1>2 DEF IInv

LEMMA FindTargetFits ==
  ASSUME IInv, NEW x \in Actors, FindTarget(x)
  PROVE  IInv' /\ NothingLost
<1>1. op[x].pc = "target" /\ UNCHANGED <<number, onDisk, db, busy, mishap>>
  BY DEF FindTarget, Reached
<1>2. op[x] \in Record /\ Planned(op[x])
  BY OperationOf
<1>3. CASE Over(x)
  BY <1>1, <1>3, OpEnds, OnlyOpChanges
<1>4. ASSUME NEW pc \in {"merge", "begin"}, NEW to \in 0..MaxRows, NEW dest \in Dirs,
             NEW o, o = [op[x] EXCEPT !.pc = pc, !.to = to, !.dest = dest]
      PROVE  o \in Operation
  <2>1. /\ o \in Record /\ o.pc = pc /\ o.todo = op[x].todo /\ o.moved = op[x].moved
        /\ o.kept = op[x].kept /\ o.dest = dest
    BY <1>2, <1>4 DEF Record, Steps
  <2>2. Planned(o) /\ SetAside(o)
    BY <1>1, <1>2, <2>1 DEF Planned, SetAside
  <2> QED
    BY <2>1, <2>2 DEF Operation
<1>5. ASSUME NEW q \in Targets,
             Becomes(x, [op[x] EXCEPT !.pc = "merge", !.to = q, !.dest = rows[q].dir])
      PROVE  IInv' /\ NothingLost
  <2>1. q \in 0..MaxRows /\ rows[q].dir \in Dirs
    BY <1>5, RowOf DEF Targets
  <2>2. PICK o : o = [op[x] EXCEPT !.pc = "merge", !.to = q, !.dest = rows[q].dir]
    OBVIOUS
  <2>3. o \in Operation
    BY <1>4, <2>1, <2>2
  <2> QED
    BY <1>1, <1>5, <2>2, <2>3, OpGoesOn, OnlyOpChanges
<1>6. CASE Becomes(x, [op[x] EXCEPT !.pc = "begin", !.dest = <<"content", "title">>])
  <2>1. <<"content", "title">> \in Dirs /\ op[x].to \in 0..MaxRows
    BY <1>2 DEF Dirs, Record
  <2>2. PICK o : o = [op[x] EXCEPT !.pc = "begin", !.dest = <<"content", "title">>]
    OBVIOUS
  <2>3. /\ o \in Record /\ o.pc = "begin" /\ o.todo = op[x].todo /\ o.moved = op[x].moved
        /\ o.kept = op[x].kept /\ o.dest = <<"content", "title">>
    BY <1>2, <2>1, <2>2 DEF Record, Steps
  <2>4. Planned(o) /\ SetAside(o)
    BY <1>1, <1>2, <2>1, <2>3 DEF Planned, SetAside
  <2>5. o \in Operation /\ Becomes(x, o)
    BY <1>6, <2>2, <2>3, <2>4 DEF Operation
  <2> QED
    BY <1>1, <2>5, OpGoesOn, OnlyOpChanges
<1> QED
  BY <1>3, <1>5, <1>6 DEF FindTarget

(* Episode rows that go, or come with a path that had none, leave one row for
   each path. *)
LEMMA FewerRows ==
  ASSUME IInv, eps' \subseteq eps
  PROVE  EpsFit'
BY FS_Subset DEF IInv, EpsFit

LEMMA UnlistFits ==
  ASSUME IInv, NEW x \in Actors, Unlist(x)
  PROVE  IInv' /\ NothingLost
<1>1. op[x].pc = "unlist" /\ UNCHANGED <<number, onDisk, rows, busy, mishap>>
  BY DEF Unlist, Reached
<1>2. PICK m \in op[x].moved :
        /\ eps' = eps \ EpsAt(m[1].path)
        /\ Becomes(x, [op[x] EXCEPT !.pc = "list", !.moved = @ \ {m}, !.now = {m}])
  BY DEF Unlist
<1>3. op[x] \in Record /\ Planned(op[x])
  BY OperationOf
<1>4. PICK rest : rest = op[x].moved \ {m}
  OBVIOUS
<1>5. PICK o : o = [op[x] EXCEPT !.pc = "list", !.moved = rest, !.now = {m}]
  OBVIOUS
<1>6. /\ rest \in SUBSET (Ep \X Paths) /\ {m} \in SUBSET (Ep \X Paths)
      /\ IsFiniteSet(rest)
  BY <1>3, <1>4, FS_RemoveElement DEF Planned, Record
<1>7. /\ o \in Record /\ o.pc = "list" /\ o.todo = op[x].todo /\ o.moved = rest
      /\ o.kept = op[x].kept /\ o.dest = op[x].dest
  BY <1>3, <1>5, <1>6 DEF Record, Steps
<1>8. Planned(o) /\ SetAside(o)
  BY <1>1, <1>3, <1>6, <1>7 DEF Planned, SetAside
<1>9. op' \in [Actors -> Operation]
  <2>1. o \in Operation
    BY <1>7, <1>8 DEF Operation
  <2>2. Becomes(x, o)
    BY <1>2, <1>4, <1>5
  <2> QED
    BY <2>1, <2>2, OpGoesOn
<1>10. EpsFit' /\ RowsFit'
  BY <1>1, <1>2, FewerRows DEF IInv, RowsFit
<1>11. DiskFits' /\ NothingLost
  BY <1>1, FilesStay DEF onDisk
<1>12. RestFits'
  BY <1>1, RestStays DEF IInv, RestFits, onDisk
<1> QED
  BY <1>9, <1>10, <1>11, <1>12 DEF IInv

(* The row recorded for a path is the only one. *)
LEMMA UpsertedFits ==
  ASSUME IInv, NEW p \in Paths, NEW r, NEW n \in Episodes \cup {NoEpisode},
         EpsAt(p) = {} => r \in Ids, eps' = Upserted(p, r, n)
  PROVE  EpsFit'
<1>1. eps \subseteq Ep /\ IsFiniteSet(eps) /\ \A e, f \in eps : e.path = f.path => e = f
  BY DEF IInv, EpsFit
<1>2. CASE EpsAt(p) = {}
  <2>1. PICK f : f = [path |-> p, row |-> r, num |-> n]
    OBVIOUS
  <2>2. f \in Ep /\ f.path = p /\ eps' = eps \cup {f}
    BY <1>2, <2>1 DEF Ep, Upserted
  <2>3. \A e \in eps : e.path # p
    BY <1>2 DEF EpsAt
  <2>4. IsFiniteSet(eps')
    BY <1>1, <2>2, FS_AddElement
  <2> QED
    BY <1>1, <2>2, <2>3, <2>4 DEF EpsFit
<1>3. CASE EpsAt(p) # {}
  <2>1. PICK e \in eps : e.path = p
    BY <1>3 DEF EpsAt
  <2>2. EpsAt(p) = {e}
    BY <1>1, <2>1 DEF EpsAt
  <2>3. PICK f : f = [e EXCEPT !.num = n]
    OBVIOUS
  <2>4. f \in Ep /\ f.path = p
    <3>1. e \in Ep /\ e.path = p
      BY <1>1, <2>1
    <3> QED
      BY <2>3, <3>1 DEF Ep
  <2>5. eps' = (eps \ {e}) \cup {f}
    BY <1>3, <2>2, <2>3 DEF Upserted
  <2>6. IsFiniteSet(eps')
    <3>1. IsFiniteSet(eps \ {e})
      BY <1>1, FS_RemoveElement
    <3> QED
      BY <2>5, <3>1, FS_AddElement
  <2>7. \A g \in eps \ {e} : g.path # p
    BY <1>1, <2>1
  <2> QED
    BY <1>1, <2>4, <2>5, <2>6, <2>7 DEF EpsFit
<1> QED
  BY <1>2, <1>3

LEMMA ListFits ==
  ASSUME IInv, NEW x \in Actors, List(x)
  PROVE  IInv' /\ NothingLost
<1>1. op[x].pc = "list" /\ UNCHANGED <<number, onDisk, rows, busy, mishap>>
  BY DEF List, Reached
<1>2. op[x] \in Record /\ Planned(op[x])
  BY OperationOf
<1>3. DiskFits' /\ NothingLost /\ RowsFit'
  BY <1>1, FilesStay DEF onDisk, IInv, RowsFit
<1>4. RestFits'
  BY <1>1, RestStays DEF IInv, RestFits, onDisk
<1>5. CASE Over(x) /\ UNCHANGED eps
  <2>1. EpsFit'
    BY <1>5 DEF IInv, EpsFit
  <2> QED
    BY <1>3, <1>4, <1>5, <2>1, OpEnds DEF IInv
<1>6. ASSUME NEW m \in op[x].now, EpsAt(m[2]) = {} => Owner(x) \in Live,
             eps' = Upserted(m[2], Owner(x), m[1].num),
             Becomes(x, [op[x] EXCEPT !.pc = AfterList(x), !.now = {}])
      PROVE  IInv' /\ NothingLost
  <2>1. m[1] \in Ep /\ m[2] \in Paths /\ m[1].num \in Episodes \cup {NoEpisode}
    BY <1>2 DEF Record, Ep
  <2>2. EpsAt(m[2]) = {} => Owner(x) \in Ids
    BY <1>6, RowOf
  <2>3. EpsFit'
    BY <1>6, <2>1, <2>2, UpsertedFits
  <2>4. PICK pc \in {"unlist", "leftover", "merge", "finish"} : pc = AfterList(x)
    BY DEF AfterList
  <2>5. PICK o : o = [op[x] EXCEPT !.pc = pc, !.now = {}]
    OBVIOUS
  <2>6. /\ o \in Record /\ o.pc = pc /\ o.todo = op[x].todo /\ o.moved = op[x].moved
        /\ o.kept = op[x].kept /\ o.dest = op[x].dest
    <3>1. {} \in SUBSET (Ep \X Paths) /\ pc \in Steps
      BY DEF Steps
    <3> QED
      BY <1>2, <2>5, <3>1 DEF Record
  <2>7. Planned(o) /\ SetAside(o)
    BY <1>1, <1>2, <2>6 DEF Planned, SetAside
  <2>8. op' \in [Actors -> Operation]
    <3>1. o \in Operation
      BY <2>6, <2>7 DEF Operation
    <3>2. Becomes(x, o)
      BY <1>6, <2>4, <2>5
    <3> QED
      BY <3>1, <3>2, OpGoesOn
  <2> QED
    BY <1>3, <1>4, <2>3, <2>8 DEF IInv
<1> QED
  BY <1>5, <1>6 DEF List

(* A file of the plan has been moved. *)
LEMMA PlanGoesOn ==
  ASSUME IInv, NEW x \in Actors, op[x].pc \in {"merge", "moving"}, NEW pc \in {"unlist", "moving"},
         NEW todo, todo \subseteq op[x].todo, NEW moved \in SUBSET (Ep \X Paths),
         IsFiniteSet(moved),
         Becomes(x, [op[x] EXCEPT !.pc = pc, !.todo = todo, !.moved = moved])
  PROVE  op' \in [Actors -> Operation]
<1>1. op[x] \in Record /\ Planned(op[x])
  BY OperationOf
<1>2. IsFiniteSet(todo) /\ todo = Matched(todo) /\ todo \in SUBSET Ep /\ pc \in Steps
  BY <1>1, FS_Subset DEF Planned, Matched, Record, Steps
<1>3. PICK o : o = [op[x] EXCEPT !.pc = pc, !.todo = todo, !.moved = moved]
  OBVIOUS
<1>4. /\ o \in Record /\ o.pc = pc /\ o.todo = todo /\ o.moved = moved
      /\ o.kept = op[x].kept /\ o.dest = op[x].dest
  BY <1>1, <1>2, <1>3 DEF Record
<1>5. Planned(o) /\ SetAside(o)
  BY <1>1, <1>2, <1>4 DEF Planned, SetAside
<1>6. o \in Operation
  BY <1>4, <1>5 DEF Operation
<1> QED
  BY <1>3, <1>6, OpGoesOn

LEMMA MergeMoveFits ==
  ASSUME IInv, NEW x \in Actors, MergeMove(x)
  PROVE  IInv' /\ NothingLost
<1>1. op[x].pc = "merge" /\ UNCHANGED <<number, db, busy, mishap>>
  BY DEF MergeMove, Reached
<1>2. PICK e \in op[x].todo :
        \/ /\ MoveDone(e.path, Target(x, e))
           /\ Becomes(x, [op[x] EXCEPT !.pc = "unlist", !.todo = @ \ {e},
                                       !.moved = {<<e, Target(x, e)>>}])
        \/ /\ MoveFails(e.path, Target(x, e))
           /\ Over(x)
  BY DEF MergeMove
<1>3. /\ e \in Ep /\ Target(x, e) \in Paths
      /\ Target(x, e) = e.path \/ At(Target(x, e)) = {}
  BY <1>1, TargetFits
<1>4. DiskFits' /\ NothingLost /\ trouble' \in 0..Trouble
  BY <1>2, <1>3, MovedFits DEF Moved
<1>5. RowsFit' /\ EpsFit' /\ RestFits'
  BY <1>1, <1>4, RowsStay, RestStays DEF IInv, RestFits
<1>6. op' \in [Actors -> Operation]
  <2>1. CASE Over(x)
    BY <2>1, OpEnds
  <2>2. CASE ~Over(x)
    <3>0. PICK m \in Ep \X Paths : m = <<e, Target(x, e)>>
      BY <1>3
    <3>1. PICK moved : moved = {m}
      OBVIOUS
    <3>2. moved \in SUBSET (Ep \X Paths) /\ IsFiniteSet(moved)
      BY <3>1, FS_Singleton
    <3>3. PICK todo : todo = op[x].todo \ {e}
      OBVIOUS
    <3>4. /\ todo \subseteq op[x].todo
          /\ Becomes(x, [op[x] EXCEPT !.pc = "unlist", !.todo = todo, !.moved = moved])
      BY <1>2, <2>2, <3>0, <3>1, <3>3
    <3> QED
      BY <1>1, <3>2, <3>4, PlanGoesOn
  <2> QED
    BY <2>1, <2>2
<1> QED
  BY <1>4, <1>5, <1>6 DEF IInv

LEMMA MergeFinishFits ==
  ASSUME IInv, NEW x \in Actors, MergeFinish(x)
  PROVE  IInv' /\ NothingLost
<1>1. op[x].pc = "finish" /\ UNCHANGED <<number, disk, trouble, db, busy, mishap>>
  BY DEF MergeFinish, Reached
<1>2. \/ Over(x) /\ UNCHANGED dirs
      \/ Goto(x, "drop") /\ CleanedUp(op[x].src)
  BY DEF MergeFinish
<1>3. DiskFits' /\ NothingLost
  BY <1>1, <1>2, FilesStay, CleanedUpFits DEF IInv
<1>4. RowsFit' /\ EpsFit' /\ RestFits'
  BY <1>1, RowsStay, RestStays DEF IInv, RestFits
<1>5. op' \in [Actors -> Operation]
  <2>1. op[x].dest \in Dirs
    BY <1>1, OperationOf DEF Planned
  <2> QED
    BY <1>2, <2>1, OpEnds, OpMovesOn DEF Steps
<1> QED
  BY <1>3, <1>4, <1>5 DEF IInv

LEMMA RowDeletedFits ==
  ASSUME IInv, NEW r, RowDeleted(r)
  PROVE  RowsFit' /\ EpsFit'
<1>1. RowsFit'
  BY DEF RowDeleted, IInv, RowsFit, Row
<1>2. eps' \subseteq eps
  BY DEF RowDeleted
<1> QED
  BY <1>1, <1>2, FewerRows

LEMMA MergeDropFits ==
  ASSUME IInv, NEW x \in Actors, MergeDrop(x)
  PROVE  IInv' /\ NothingLost
<1>1. RowDeleted(op[x].row) /\ Over(x) /\ UNCHANGED <<number, onDisk, busy, mishap>>
  BY DEF MergeDrop
<1>2. DiskFits' /\ NothingLost
  BY <1>1, FilesStay DEF onDisk
<1>3. RestFits'
  BY <1>1, RestStays DEF IInv, RestFits, onDisk
<1>4. RowsFit' /\ EpsFit' /\ op' \in [Actors -> Operation]
  BY <1>1, RowDeletedFits, OpEnds
<1> QED
  BY <1>2, <1>3, <1>4 DEF IInv

LEMMA RelocateBeginFits ==
  ASSUME IInv, NEW x \in Actors, RelocateBegin(x)
  PROVE  IInv' /\ NothingLost
<1>1. /\ op[x].pc = "begin" /\ UNCHANGED <<number, disk, trouble, db>>
      /\ dirs' = dirs \cup {op[x].dest} /\ busy' = x
      /\ UNCHANGED mishap \/ Befalls("taken")
  BY DEF RelocateBegin, Reached
<1>2. op[x] \in Record /\ Planned(op[x])
  BY OperationOf
<1>3. op[x].dest \in Dirs
  BY <1>1, <1>2 DEF Planned
<1>4. DiskFits' /\ NothingLost
  BY <1>1, <1>3, NoFileChanges DEF IInv, DiskFits
<1>5. "taken" \in Mishaps
  BY DEF Mishaps
<1>6. RowsFit' /\ EpsFit' /\ RestFits'
  BY <1>1, <1>5, RowsStay, RestStays, Befallen DEF IInv, RestFits
<1>7. op' \in [Actors -> Operation]
  <2>1. PICK made \in BOOLEAN : made = (op[x].dest \notin dirs)
    OBVIOUS
  <2>2. PICK o : o = [op[x] EXCEPT !.pc = "moving", !.made = made]
    OBVIOUS
  <2>3. /\ o \in Record /\ o.pc = "moving" /\ o.todo = op[x].todo /\ o.moved = op[x].moved
        /\ o.kept = op[x].kept /\ o.dest = op[x].dest
    BY <1>2, <2>2 DEF Record, Steps
  <2>4. o \in Operation
    BY <1>1, <1>2, <2>3 DEF Operation, Planned, SetAside
  <2>5. Becomes(x, o)
    BY <2>1, <2>2 DEF RelocateBegin
  <2> QED
    BY <2>4, <2>5, OpGoesOn
<1> QED
  BY <1>4, <1>6, <1>7 DEF IInv

LEMMA RelocateMoveFits ==
  ASSUME IInv, NEW x \in Actors, RelocateMove(x)
  PROVE  IInv' /\ NothingLost
<1>1. op[x].pc = "moving" /\ UNCHANGED <<number, db, mishap>>
  BY DEF RelocateMove, Reached
<1>2. PICK e \in op[x].todo :
        \/ /\ MoveDone(e.path, Target(x, e))
           /\ Becomes(x, [op[x] EXCEPT !.pc = IF op[x].todo = {e} THEN "unlist" ELSE @,
                                       !.todo = @ \ {e},
                                       !.moved = @ \cup {<<e, Target(x, e)>>}])
           /\ busy' \in {NoActor, x}
        \/ /\ MoveFails(e.path, Target(x, e))
           /\ Goto(x, "back") /\ UNCHANGED busy
  BY DEF RelocateMove
<1>3. /\ e \in Ep /\ Target(x, e) \in Paths
      /\ Target(x, e) = e.path \/ At(Target(x, e)) = {}
  BY <1>1, TargetFits
<1>4. DiskFits' /\ NothingLost /\ trouble' \in 0..Trouble
  BY <1>2, <1>3, MovedFits DEF Moved
<1>5. busy' \in Actors \cup {NoActor}
  BY <1>2 DEF IInv, RestFits
<1>6. RowsFit' /\ EpsFit' /\ RestFits'
  BY <1>1, <1>4, <1>5, RowsStay, RestStays DEF IInv, RestFits
<1>7. op[x] \in Record /\ Planned(op[x])
  BY OperationOf
<1>8. op' \in [Actors -> Operation]
  <2>1. CASE Goto(x, "back")
    BY <1>1, <1>7, <2>1, OpMovesOn DEF Planned, Steps
  <2>2. CASE ~Goto(x, "back")
    <3>1. PICK moved : moved = op[x].moved \cup {<<e, Target(x, e)>>}
      OBVIOUS
    <3>2. moved \in SUBSET (Ep \X Paths) /\ IsFiniteSet(moved)
      <4>1. op[x].moved \in SUBSET (Ep \X Paths) /\ <<e, Target(x, e)>> \in Ep \X Paths
        BY <1>3, <1>7 DEF Record
      <4> QED
        BY <1>7, <3>1, <4>1, FS_AddElement DEF Planned
    <3>3. PICK todo : todo = op[x].todo \ {e}
      OBVIOUS
    <3>4. PICK pc \in {"unlist", "moving"} : pc = IF op[x].todo = {e} THEN "unlist" ELSE op[x].pc
      BY <1>1
    <3>5. /\ todo \subseteq op[x].todo
          /\ Becomes(x, [op[x] EXCEPT !.pc = pc, !.todo = todo, !.moved = moved])
      BY <1>2, <2>2, <3>1, <3>3, <3>4
    <3> QED
      BY <1>1, <3>2, <3>5, PlanGoesOn
  <2> QED
    BY <2>1, <2>2
<1> QED
  BY <1>4, <1>6, <1>8 DEF IInv

LEMMA RelocateBackFits ==
  ASSUME IInv, NEW x \in Actors, RelocateBack(x)
  PROVE  IInv' /\ NothingLost
<1>1. op[x].pc = "back" /\ UNCHANGED <<number, db>>
  BY DEF RelocateBack, Reached
<1>2. op[x] \in Record /\ Planned(op[x]) /\ op[x].dest \in Dirs
  BY <1>1, OperationOf DEF Planned
<1>3. RowsFit' /\ EpsFit'
  BY <1>1, RowsStay
<1>4. ASSUME NEW m \in op[x].moved, NEW p, p = FreePath(m[1].path, m[2], {}),
             Becomes(x, [op[x] EXCEPT !.moved = @ \ {m}]), Moved(m[2], p),
             UNCHANGED mishap \/ Befalls("stuck"), UNCHANGED busy
      PROVE  IInv' /\ NothingLost
  <2>1. DiskFits' /\ NothingLost /\ trouble' \in 0..Trouble
    BY <1>4, WayBackFits, MovedFits
  <2>2. "stuck" \in Mishaps
    BY DEF Mishaps
  <2>3. RestFits'
    BY <1>1, <1>4, <2>1, <2>2, RestStays, Befallen DEF IInv, RestFits
  <2>4. PICK rest : rest = op[x].moved \ {m}
    OBVIOUS
  <2>5. rest \in SUBSET (Ep \X Paths) /\ IsFiniteSet(rest)
    BY <1>2, <2>4, FS_RemoveElement DEF Planned, Record
  <2>6. PICK o : o = [op[x] EXCEPT !.moved = rest]
    OBVIOUS
  <2>7. /\ o \in Record /\ o.pc = "back" /\ o.todo = op[x].todo /\ o.moved = rest
        /\ o.kept = op[x].kept /\ o.dest = op[x].dest
    BY <1>1, <1>2, <2>5, <2>6 DEF Record
  <2>8. o \in Operation
    BY <1>2, <2>5, <2>7 DEF Operation, Planned, SetAside
  <2>9. Becomes(x, o)
    BY <1>4, <2>4, <2>6
  <2> QED
    BY <1>3, <2>1, <2>3, <2>8, <2>9, OpGoesOn DEF IInv
<1>5. CASE /\ CleanedUp(op[x].dest) \/ UNCHANGED dirs
           /\ Over(x) /\ busy' = NoActor /\ UNCHANGED <<disk, trouble, mishap>>
  <2>1. DiskFits' /\ NothingLost
    BY <1>5, FilesStay, CleanedUpFits DEF IInv
  <2>2. RestFits'
    BY <1>1, <1>5, RestStays DEF IInv, RestFits
  <2> QED
    BY <1>3, <1>5, <2>1, <2>2, OpEnds DEF IInv
<1> QED
  BY <1>4, <1>5 DEF RelocateBack, GoesBack, Moved

LEMMA RelocateLeftoverFits ==
  ASSUME IInv, NEW x \in Actors, RelocateLeftover(x)
  PROVE  IInv' /\ NothingLost
<1>1. op[x].pc = "leftover" /\ UNCHANGED <<number, db, mishap>>
  BY DEF RelocateLeftover, Reached
<1>2. op[x] \in Record /\ Planned(op[x]) /\ op[x].dest \in Dirs
  BY <1>1, OperationOf DEF Planned
<1>3. RowsFit' /\ EpsFit'
  BY <1>1, RowsStay
<1>4. ASSUME NEW c \in Leftover(x), Moved(c.path, NewPlace(x, c)), busy' = x,
             \/ UNCHANGED op
             \/ Becomes(x, [op[x] EXCEPT !.kept = @ \cup {c.path}])
      PROVE  IInv' /\ NothingLost
  <2>1. c.path \in Paths /\ DiskFits' /\ NothingLost /\ trouble' \in 0..Trouble
    BY <1>1, <1>4, LeftoverFits, MovedFits
  <2>2. RestFits'
    BY <1>1, <1>4, <2>1, RestStays DEF IInv, RestFits
  <2>3. PICK kept : kept = op[x].kept \cup {c.path}
    OBVIOUS
  <2>4. kept \in SUBSET Paths /\ IsFiniteSet(kept)
    <3>1. op[x].kept \in SUBSET Paths /\ IsFiniteSet(op[x].kept)
      BY <1>2 DEF Planned, Record
    <3> QED
      BY <2>1, <2>3, <3>1, FS_AddElement
  <2>5. PICK o : o = [op[x] EXCEPT !.kept = kept]
    OBVIOUS
  <2>6. /\ o \in Record /\ o.pc = "leftover" /\ o.todo = op[x].todo /\ o.moved = op[x].moved
        /\ o.kept = kept /\ o.dest = op[x].dest
    BY <1>1, <1>2, <2>4, <2>5 DEF Record
  <2>7. o \in Operation
    BY <1>2, <2>4, <2>6 DEF Operation, Planned, SetAside
  <2>8. UNCHANGED op \/ Becomes(x, o)
    BY <1>4, <2>3, <2>5
  <2>9. op' \in [Actors -> Operation]
    BY <2>7, <2>8, OpGoesOn DEF IInv
  <2> QED
    BY <1>3, <2>1, <2>2, <2>9 DEF IInv
<1>5. CASE Goto(x, "commit") /\ busy' = NoActor /\ UNCHANGED onDisk
  <2>1. DiskFits' /\ NothingLost
    BY <1>5, FilesStay DEF onDisk
  <2>2. RestFits'
    BY <1>1, <1>5, RestStays DEF IInv, RestFits, onDisk
  <2>3. op' \in [Actors -> Operation]
    BY <1>2, <1>5, OpMovesOn DEF Steps
  <2> QED
    BY <1>3, <2>1, <2>2, <2>3 DEF IInv
<1> QED
  BY <1>4, <1>5 DEF RelocateLeftover, Moved

LEMMA RelocateCommitFits ==
  ASSUME IInv, NEW x \in Actors, RelocateCommit(x)
  PROVE  IInv' /\ NothingLost
<1>1. /\ op[x].pc = "commit" /\ UNCHANGED <<number, disk, trouble, eps, busy, mishap>> /\ Over(x)
      /\ \/ UNCHANGED <<rows, dirs>>
         \/ /\ rows' = [rows EXCEPT ![op[x].row].dir = op[x].dest] /\ op[x].row \in Live
            /\ CleanedUp(op[x].src)
  BY DEF RelocateCommit, Reached
<1>2. op[x].dest \in Dirs
  BY <1>1, OperationOf DEF Planned
<1>3. DiskFits' /\ NothingLost
  BY <1>1, FilesStay, CleanedUpFits DEF IInv
<1>4. RowsFit'
  <2>1. CASE UNCHANGED rows
    BY <2>1 DEF IInv, RowsFit
  <2>2. CASE rows' = [rows EXCEPT ![op[x].row].dir = op[x].dest] /\ op[x].row \in Live
    <3>1. rows[op[x].row] \in [dir : Dirs, known : BOOLEAN]
      BY <2>2 DEF IInv, RowsFit, Row, Live
    <3>2. PICK q : q = [rows[op[x].row] EXCEPT !.dir = op[x].dest]
      OBVIOUS
    <3>3. q \in Row
      BY <1>2, <3>1, <3>2 DEF Row
    <3>4. rows' = [rows EXCEPT ![op[x].row] = q]
      BY <2>2, <3>2
    <3> QED
      BY <3>3, <3>4 DEF IInv, RowsFit
  <2> QED
    BY <1>1, <2>1, <2>2
<1>5. EpsFit' /\ RestFits' /\ op' \in [Actors -> Operation]
  BY <1>1, RestStays, OpEnds DEF IInv, EpsFit, RestFits
<1> QED
  BY <1>3, <1>4, <1>5 DEF IInv
-----------------------------------------------------------------------------
(* Renaming in place.                                                       *)

(* The files to rename are known: the names of the others are set aside. *)
LEMMA ToFilesFits ==
  ASSUME IInv, NEW x \in Actors, op[x].pc \in {"dir", "paths"}, NEW es \in SUBSET Ep,
         IsFiniteSet(es), ToFiles(x, es)
  PROVE  op' \in [Actors -> Operation]
<1>1. op[x] \in Record /\ Planned(op[x]) /\ op[x].moved = {} /\ op[x].dest \in Dirs
  BY OperationOf DEF Planned
<1>2. CASE Misnamed(es) = {}
  BY <1>2, OpEnds DEF ToFiles
<1>3. CASE Misnamed(es) # {}
  <2>1. PICK todo : todo = Misnamed(es)
    OBVIOUS
  <2>2. todo \subseteq es /\ IsFiniteSet(todo) /\ todo = Misnamed(todo)
    BY <2>1, FS_Subset DEF Misnamed, Matched
  <2>3. PICK kept : kept = {e.path : e \in es \ todo}
    OBVIOUS
  <2>4. IsFiniteSet(kept) /\ kept \in SUBSET Paths
    <3>1. IsFiniteSet(es \ todo)
      BY FS_Subset
    <3> DEFINE f == [e \in es \ todo |-> e.path]
    <3>2. f \in [es \ todo -> kept] /\ \A p \in kept : \E e \in es \ todo : f[e] = p
      BY <2>3
    <3> HIDE DEF f
    <3>3. IsFiniteSet(kept)
      BY <3>1, <3>2, FiniteImage
    <3> QED
      BY <2>3, <3>3 DEF Ep
  <2>5. PICK o : o = [op[x] EXCEPT !.pc = "files", !.todo = todo, !.kept = kept]
    OBVIOUS
  <2>6. todo \in SUBSET Ep /\ "files" \in Steps
    BY <2>2 DEF Steps
  <2>7. /\ o \in Record /\ o.pc = "files" /\ o.todo = todo /\ o.moved = {} /\ o.kept = kept
        /\ o.dest = op[x].dest
    BY <1>1, <2>4, <2>5, <2>6 DEF Record
  <2>8. Planned(o) /\ SetAside(o)
    BY <1>1, <2>2, <2>4, <2>7, FS_EmptySet DEF Planned, SetAside
  <2>9. Becomes(x, o)
    BY <1>3, <2>1, <2>3, <2>5 DEF ToFiles
  <2> QED
    BY <2>7, <2>8, <2>9, OpGoesOn DEF Operation
<1> QED
  BY <1>2, <1>3

(* The directory is renamed with all that is in it. *)
LEMMA DirRenamed ==
  ASSUME IInv, NEW src \in Dirs, NEW to \in Dirs, to \notin dirs, dirs' = (dirs \ {src}) \cup {to},
         disk' = (disk \ FilesIn(src)) \cup Rebased(FilesIn(src), to)
  PROVE  DiskFits' /\ NothingLost
<1> DEFINE In == FilesIn(src)
           f  == [c \in In |-> [c EXCEPT !.path = <<to, c.path[2]>>]]
<1>1. In \subseteq disk /\ disk \subseteq Copies /\ IsFiniteSet(In) /\ IsFiniteSet(disk \ In)
  BY FS_Subset DEF FilesIn, IInv, DiskFits
<1>2. Rebased(In, to) = {f[c] : c \in In}
  BY DEF Rebased
<1>3. \A c \in In : /\ f[c] \in Copies /\ f[c].video = c.video /\ f[c].whole = c.whole
                    /\ f[c].path = <<to, c.path[2]>> /\ DirOf(f[c].path) = to
  <2> SUFFICES ASSUME NEW c \in In
               PROVE  /\ f[c] \in Copies /\ f[c].video = c.video /\ f[c].whole = c.whole
                      /\ f[c].path = <<to, c.path[2]>> /\ DirOf(f[c].path) = to
    OBVIOUS
  <2>1. c \in Copies /\ c.path \in Paths
    BY <1>1 DEF Copies
  <2>2. PICK p : p = <<to, c.path[2]>>
    OBVIOUS
  <2>3. p \in Paths /\ DirOf(p) = to
    BY <2>1, <2>2 DEF Paths, DirOf
  <2>4. f[c] = [c EXCEPT !.path = p]
    BY <2>2
  <2> HIDE DEF f
  <2>5. f[c] \in Copies /\ f[c].video = c.video /\ f[c].whole = c.whole /\ f[c].path = p
    BY <2>1, <2>3, <2>4 DEF Copies
  <2> QED
    BY <2>2, <2>3, <2>5
<1>4. IsFiniteSet(Rebased(In, to))
  <2>1. f \in [In -> Rebased(In, to)] /\ \A k \in Rebased(In, to) : \E c \in In : f[c] = k
    BY <1>2
  <2> HIDE DEF f, In
  <2> QED
    BY <1>1, <2>1, FiniteImage
<1>5. disk' = (disk \ In) \cup {f[c] : c \in In}
  BY <1>2
<1>6. IsFiniteSet(disk')
  BY <1>1, <1>4, FS_Union
<1>7. /\ \A c \in disk \ In : c \in Copies /\ DirOf(c.path) \in dirs \ {src}
      /\ \A c \in In : c \in Copies /\ c.path = <<src, c.path[2]>>
  <2>1. \A c \in disk \ In : c \in Copies /\ DirOf(c.path) \in dirs \ {src}
    BY <1>1 DEF FilesIn, IInv, DiskFits
  <2>2. \A c \in In : c \in Copies /\ c.path \in Paths /\ c.path[1] = src
    BY <1>1 DEF FilesIn, DirOf, Copies
  <2> QED
    BY <2>1, <2>2 DEF Paths
<1> HIDE DEF f, In
<1>8. \A c, e \in disk' : c.path = e.path => c = e
  <2> SUFFICES ASSUME NEW c \in disk', NEW e \in disk', c.path = e.path PROVE c = e
    OBVIOUS
  <2>1. CASE c \in disk \ In /\ e \in disk \ In
    BY <2>1 DEF IInv, DiskFits
  <2>2. ASSUME NEW k \in disk \ In, NEW g \in In, k.path = f[g].path PROVE FALSE
    BY <1>3, <1>7, <2>2
  <2>3. ASSUME NEW g \in In, NEW h \in In, f[g].path = f[h].path PROVE g = h
    <3>1. g.path = h.path
      BY <1>3, <1>7, <2>3
    <3> QED
      BY <1>1, <3>1 DEF IInv, DiskFits
  <2> QED
    BY <1>5, <2>1, <2>2, <2>3
<1>9. DiskFits'
  <2>1. disk' \subseteq Copies
    BY <1>3, <1>5, <1>7
  <2>2. dirs' \subseteq Dirs
    BY DEF IInv, DiskFits
  <2>3. \A c \in disk' : DirOf(c.path) \in dirs'
    BY <1>3, <1>5, <1>7
  <2> QED
    BY <1>6, <1>8, <2>1, <2>2, <2>3 DEF DiskFits
<1>10. NothingLost
  <2> SUFFICES ASSUME NEW v \in Videos, NEW c \in disk, c.video = v, c.whole
               PROVE  \E e \in disk' : e.video = v /\ e.whole
    BY DEF NothingLost, Whole
  <2> QED
    BY <1>3, <1>5
<1> QED
  BY <1>9, <1>10

LEMMA RenameDirFits ==
  ASSUME IInv, NEW x \in Actors, RenameDir(x)
  PROVE  IInv' /\ NothingLost
<1>1. op[x].pc = "dir" /\ UNCHANGED <<number, db, busy, mishap>>
  BY DEF RenameDir, Reached
<1>2. /\ op[x] \in Record /\ op[x].todo \in SUBSET Ep /\ IsFiniteSet(op[x].todo)
      /\ op[x].src \in Dirs /\ op[x].dest \in Dirs /\ op[x].moved = {} /\ IsFiniteSet(op[x].kept)
  BY <1>1, OperationOf DEF Planned, Record
<1>3. \/ ToFiles(x, op[x].todo) /\ UNCHANGED onDisk
      \/ Over(x) /\ UNCHANGED onDisk
      \/ Over(x) /\ Spend /\ UNCHANGED <<disk, dirs>>
      \/ /\ op[x].dest \notin dirs /\ dirs' = (dirs \ {op[x].src}) \cup {op[x].dest}
         /\ disk' = (disk \ FilesIn(op[x].src)) \cup Rebased(FilesIn(op[x].src), op[x].dest)
         /\ \/ Over(x)
            \/ Goto(x, "paths") /\ \A e \in op[x].todo : DirOf(e.path) = op[x].src
         /\ UNCHANGED trouble
  BY DEF RenameDir
<1>4. DiskFits' /\ NothingLost /\ trouble' \in 0..Trouble
  <2>1. CASE UNCHANGED <<disk, dirs>>
    <3>1. trouble' \in 0..Trouble
      BY <1>2, <1>3, SortAssumption DEF IInv, RestFits, onDisk, Spend
    <3> QED
      BY <2>1, <3>1, FilesStay
  <2>2. CASE ~UNCHANGED <<disk, dirs>>
    <3>1. DiskFits' /\ NothingLost
      BY <1>2, <1>3, <2>2, DirRenamed DEF onDisk
    <3> QED
      BY <1>3, <2>2, <3>1 DEF IInv, RestFits, onDisk
  <2> QED
    BY <2>1, <2>2
<1>5. RowsFit' /\ EpsFit' /\ RestFits'
  BY <1>1, <1>4, RowsStay, RestStays DEF IInv, RestFits
<1>6. op' \in [Actors -> Operation]
  <2>1. CASE ToFiles(x, op[x].todo)
    BY <1>1, <1>2, <2>1, ToFilesFits
  <2>2. CASE Over(x)
    BY <2>2, OpEnds
  <2>3. CASE Goto(x, "paths") /\ \A e \in op[x].todo : DirOf(e.path) = op[x].src
    <3>1. PICK o : o = [op[x] EXCEPT !.pc = "paths"]
      OBVIOUS
    <3>2. /\ o \in Record /\ o.pc = "paths" /\ o.todo = op[x].todo /\ o.moved = op[x].moved
          /\ o.kept = op[x].kept /\ o.dest = op[x].dest /\ o.src = op[x].src
      BY <1>2, <3>1 DEF Record, Steps
    <3>3. o \in Operation
      BY <1>2, <2>3, <3>2, FS_EmptySet DEF Operation, Planned, SetAside
    <3> QED
      BY <2>3, <3>1, <3>3, OpGoesOn DEF Goto
  <2> QED
    BY <1>3, <2>1, <2>2, <2>3
<1> QED
  BY <1>4, <1>5, <1>6 DEF IInv

(* Rows that change their paths, each to one that no other row has. *)
LEMMA RowsRenamed ==
  ASSUME IInv, NEW old \in SUBSET eps, NEW K, IsFiniteSet(K), NEW f \in [K -> Ep],
         \A k, l \in K : f[k].path = f[l].path => k = l,
         \A k \in K : EpsAt(f[k].path) \subseteq old,
         eps' = (eps \ old) \cup {f[k] : k \in K}
  PROVE  EpsFit'
<1> DEFINE new == {f[k] : k \in K}
<1>1. eps \subseteq Ep /\ IsFiniteSet(eps) /\ \A e, g \in eps : e.path = g.path => e = g
  BY DEF IInv, EpsFit
<1>2. IsFiniteSet(new)
  <2>1. f \in [K -> new] /\ \A e \in new : \E k \in K : f[k] = e
    OBVIOUS
  <2> HIDE DEF new
  <2> QED
    BY <2>1, FiniteImage
<1>3. IsFiniteSet(eps')
  <2>1. IsFiniteSet(eps \ old)
    BY <1>1, FS_Subset
  <2> QED
    BY <1>2, <2>1, FS_Union
<1>4. \A e \in eps \ old, k \in K : e.path # f[k].path
  BY DEF EpsAt
<1>5. \A e, g \in eps' : e.path = g.path => e = g
  <2> SUFFICES ASSUME NEW e \in eps', NEW g \in eps', e.path = g.path PROVE e = g
    OBVIOUS
  <2>1. CASE e \in eps \ old /\ g \in eps \ old
    BY <1>1, <2>1
  <2>2. CASE e \in new /\ g \in new
    BY <2>2
  <2>3. CASE (e \in eps \ old /\ g \in new) \/ (e \in new /\ g \in eps \ old)
    BY <1>4, <2>3
  <2> QED
    BY <2>1, <2>2, <2>3
<1>6. eps' \subseteq Ep
  BY <1>1
<1> QED
  BY <1>3, <1>5, <1>6 DEF EpsFit

LEMMA RenamePathsFits ==
  ASSUME IInv, NEW x \in Actors, RenamePaths(x)
  PROVE  IInv' /\ NothingLost
<1>1. op[x].pc = "paths" /\ UNCHANGED <<number, onDisk, busy, mishap>>
  BY DEF RenamePaths, Reached
<1>2. PICK old : old = op[x].todo
  OBVIOUS
<1>3. PICK d : d = op[x].dest
  OBVIOUS
<1>4. /\ old \in SUBSET Ep /\ IsFiniteSet(old) /\ d \in Dirs
      /\ \A e \in old : DirOf(e.path) = op[x].src
  BY <1>1, <1>2, <1>3, OperationOf DEF Planned, SetAside, Record
<1>5. DiskFits' /\ NothingLost /\ RestFits'
  BY <1>1, FilesStay, RestStays DEF onDisk, IInv, RestFits
<1>6. CASE Over(x) /\ UNCHANGED db
  BY <1>5, <1>6, RowsStay, OpEnds DEF IInv
<1>7. CASE ~(Over(x) /\ UNCHANGED db)
  <2>1. /\ op[x].row \in Live /\ old \subseteq eps
        /\ \A e \in Rebased(old, d) : EpsAt(e.path) = {}
        /\ rows' = [rows EXCEPT ![op[x].row].dir = d]
        /\ eps' = (eps \ old) \cup Rebased(old, d) /\ ToFiles(x, Rebased(old, d))
    BY <1>2, <1>3, <1>7 DEF RenamePaths
  <2>2. RowsFit'
    <3>1. rows[op[x].row] \in [dir : Dirs, known : BOOLEAN]
      BY <2>1 DEF IInv, RowsFit, Row, Live
    <3>2. PICK q : q = [rows[op[x].row] EXCEPT !.dir = d]
      OBVIOUS
    <3>3. q \in Row
      BY <1>4, <3>1, <3>2 DEF Row
    <3>4. rows' = [rows EXCEPT ![op[x].row] = q]
      BY <2>1, <3>2
    <3> QED
      BY <3>3, <3>4 DEF IInv, RowsFit
  <2> DEFINE f == [e \in old |-> [e EXCEPT !.path = <<d, e.path[2]>>]]
  <2>3. Rebased(old, d) = {f[e] : e \in old}
    BY DEF Rebased
  <2>4. \A e \in old : f[e] \in Ep /\ f[e].path = <<d, e.path[2]>>
    <3> SUFFICES ASSUME NEW e \in old PROVE f[e] \in Ep /\ f[e].path = <<d, e.path[2]>>
      OBVIOUS
    <3>1. e \in Ep /\ e.path \in Paths
      BY <1>4, EpisodeRow
    <3>2. PICK p : p = <<d, e.path[2]>>
      OBVIOUS
    <3>3. p \in Paths
      BY <1>4, <3>1, <3>2 DEF Paths
    <3>4. f[e] = [e EXCEPT !.path = p]
      BY <3>2
    <3> HIDE DEF f
    <3> QED
      BY <3>1, <3>2, <3>3, <3>4 DEF Ep
  <2>5. \A e \in old : e.path = <<op[x].src, e.path[2]>>
    <3>1. \A e \in old : e.path \in Paths /\ e.path[1] = op[x].src
      BY <1>4, EpisodeRow DEF DirOf
    <3> QED
      BY <3>1 DEF Paths
  <2>6. f \in [old -> Ep]
    BY <2>4
  <2> HIDE DEF f
  <2>7. \A e, g \in old : f[e].path = f[g].path => e = g
    <3> SUFFICES ASSUME NEW e \in old, NEW g \in old, f[e].path = f[g].path PROVE e = g
      OBVIOUS
    <3>1. e.path = g.path
      BY <2>4, <2>5
    <3> QED
      BY <2>1, <3>1 DEF IInv, EpsFit
  <2>8. EpsFit'
    <3>1. \A e \in old : EpsAt(f[e].path) \subseteq old
      BY <2>1, <2>3
    <3>2. eps' = (eps \ old) \cup {f[e] : e \in old} /\ old \in SUBSET eps
      BY <2>1, <2>3
    <3> QED
      BY <1>4, <2>6, <2>7, <3>1, <3>2, RowsRenamed
  <2>9. IsFiniteSet(Rebased(old, d)) /\ Rebased(old, d) \in SUBSET Ep
    <3>1. f \in [old -> Rebased(old, d)] /\ \A k \in Rebased(old, d) : \E e \in old : f[e] = k
      BY <2>3, <2>6
    <3> QED
      BY <1>4, <2>3, <2>4, <3>1, FiniteImage
  <2>10. op' \in [Actors -> Operation]
    BY <1>1, <2>1, <2>9, ToFilesFits
  <2> QED
    BY <1>5, <2>2, <2>8, <2>10 DEF IInv
<1> QED
  BY <1>6, <1>7

LEMMA RenameFileFits ==
  ASSUME IInv, NEW x \in Actors, RenameFile(x)
  PROVE  IInv' /\ NothingLost
<1>1. op[x].pc = "files" /\ UNCHANGED <<number, db, mishap>> /\ busy' = x
  BY DEF RenameFile, Reached
<1>2. PICK e \in op[x].todo :
        LET p == FreePath(Named(DirOf(e.path), e.num), e.path, op[x].kept) IN
        \/ /\ MoveDone(e.path, p)
           /\ Becomes(x, [op[x] EXCEPT !.pc = IF op[x].todo = {e} THEN "names" ELSE @,
                                       !.todo = @ \ {e}, !.kept = @ \cup {p},
                                       !.moved = @ \cup {<<e, p>>}])
        \/ MoveFails(e.path, p) /\ Goto(x, "names")
  BY DEF RenameFile
<1>3. PICK p : p = FreePath(Named(DirOf(e.path), e.num), e.path, op[x].kept)
  OBVIOUS
<1>4. p \in Paths /\ At(p) = {} /\ p \notin op[x].kept
  BY <1>1, <1>3, NewNameFits
<1>5. op[x] \in Record /\ Planned(op[x]) /\ SetAside(op[x]) /\ e \in Ep
  BY OperationOf DEF Record
<1>6. DiskFits' /\ NothingLost /\ trouble' \in 0..Trouble
  BY <1>2, <1>3, <1>4, MovedFits DEF Moved
<1>7. RowsFit' /\ EpsFit' /\ RestFits'
  BY <1>1, <1>6, RowsStay, RestStays DEF IInv, RestFits
<1>8. op' \in [Actors -> Operation]
  <2>1. CASE Goto(x, "names")
    BY <1>1, <1>5, <2>1, OpMovesOn DEF Planned, Steps
  <2>2. CASE ~Goto(x, "names")
    <3>1. PICK t \in Ep \X Paths : t = <<e, p>>
      BY <1>4, <1>5
    <3>2. PICK moved : moved = op[x].moved \cup {t}
      OBVIOUS
    <3>3. PICK kept : kept = op[x].kept \cup {p}
      OBVIOUS
    <3>4. PICK todo : todo = op[x].todo \ {e}
      OBVIOUS
    <3>5. PICK pc \in {"files", "names"} : pc = IF op[x].todo = {e} THEN "names" ELSE op[x].pc
      BY <1>1
    <3>6. /\ op[x].moved \in SUBSET (Ep \X Paths) /\ op[x].kept \in SUBSET Paths
          /\ op[x].todo \in SUBSET Ep
          /\ IsFiniteSet(op[x].moved) /\ IsFiniteSet(op[x].kept) /\ IsFiniteSet(op[x].todo)
      BY <1>5 DEF Record, Planned
    <3>7. moved \in SUBSET (Ep \X Paths) /\ kept \in SUBSET Paths /\ todo \in SUBSET Ep
      BY <1>4, <3>1, <3>2, <3>3, <3>4, <3>6
    <3>8. IsFiniteSet(moved) /\ IsFiniteSet(kept) /\ IsFiniteSet(todo)
      BY <3>2, <3>3, <3>4, <3>6, FS_AddElement, FS_RemoveElement
    <3>9. PICK o : o = [op[x] EXCEPT !.pc = pc, !.todo = todo, !.kept = kept, !.moved = moved]
      OBVIOUS
    <3>10. /\ o \in Record /\ o.pc = pc /\ o.todo = todo /\ o.moved = moved /\ o.kept = kept
           /\ o.dest = op[x].dest
      BY <1>5, <3>5, <3>7, <3>9 DEF Record, Steps
    <3>11. Planned(o)
      BY <1>1, <1>5, <3>5, <3>8, <3>10 DEF Planned
    <3>12. SetAside(o)
      <4>1. todo = Misnamed(todo)
        BY <1>1, <1>5, <3>4 DEF SetAside, Misnamed, Matched
      <4>2. \A m \in op[x].moved : m[2] \in op[x].kept /\ m[2] # p
        BY <1>1, <1>4, <1>5 DEF SetAside
      <4>3. \A m \in moved : m[2] \in kept
        BY <3>1, <3>2, <3>3, <4>2
      <4>4. \A m, n \in moved : m[2] = n[2] => m = n
        BY <1>1, <1>5, <3>1, <3>2, <4>2 DEF SetAside
      <4> QED
        BY <3>5, <3>10, <4>1, <4>3, <4>4 DEF SetAside
    <3>13. Becomes(x, o)
      BY <1>2, <1>3, <2>2, <3>1, <3>2, <3>3, <3>4, <3>5, <3>9
    <3> QED
      BY <3>10, <3>11, <3>12, <3>13, OpGoesOn DEF Operation
  <2> QED
    BY <2>1, <2>2
<1> QED
  BY <1>6, <1>7, <1>8 DEF IInv

LEMMA RenameNamesFits ==
  ASSUME IInv, NEW x \in Actors, RenameNames(x)
  PROVE  IInv' /\ NothingLost
<1>1. op[x].pc = "names" /\ UNCHANGED <<number, onDisk, rows, mishap>> /\ Over(x) /\ busy' = NoActor
  BY DEF RenameNames, Reached
<1>2. PICK K : K = op[x].moved
  OBVIOUS
<1>3. PICK old : old = {m[1] : m \in K}
  OBVIOUS
<1>4. K \in SUBSET (Ep \X Paths) /\ IsFiniteSet(K) /\ \A m, n \in K : m[2] = n[2] => m = n
  BY <1>1, <1>2, OperationOf DEF Record, Planned, SetAside
<1>5. EpsFit'
  <2>1. CASE eps' = eps
    BY <2>1 DEF IInv, EpsFit
  <2>2. CASE eps' # eps
    <3> DEFINE f == [m \in K |-> [m[1] EXCEPT !.path = m[2]]]
    <3>1. /\ old \in SUBSET eps
          /\ \A m \in K : EpsAt([m[1] EXCEPT !.path = m[2]].path) \subseteq old
          /\ eps' = (eps \ old) \cup {[m[1] EXCEPT !.path = m[2]] : m \in K}
      BY <1>2, <1>3, <2>2 DEF RenameNames
    <3>2. \A m \in K : f[m] \in Ep /\ f[m].path = m[2]
      <4> SUFFICES ASSUME NEW m \in K PROVE f[m] \in Ep /\ f[m].path = m[2]
        OBVIOUS
      <4>1. m[1] \in Ep /\ m[2] \in Paths /\ f[m] = [m[1] EXCEPT !.path = m[2]]
        BY <1>4
      <4> HIDE DEF f
      <4> QED
        BY <4>1 DEF Ep
    <3>3. f \in [K -> Ep]
      BY <3>2
    <3>4. /\ \A m \in K : EpsAt(f[m].path) \subseteq old
          /\ eps' = (eps \ old) \cup {f[m] : m \in K}
      BY <3>1
    <3> HIDE DEF f
    <3>5. \A m, n \in K : f[m].path = f[n].path => m = n
      BY <1>4, <3>2
    <3> QED
      BY <1>4, <3>1, <3>3, <3>4, <3>5, RowsRenamed
  <2> QED
    BY <2>1, <2>2
<1>6. DiskFits' /\ NothingLost /\ RestFits' /\ RowsFit'
  BY <1>1, FilesStay, RestStays DEF onDisk, IInv, RestFits, RowsFit
<1> QED
  BY <1>1, <1>5, <1>6, OpEnds DEF IInv

-----------------------------------------------------------------------------
(* The scanner, identification, downloads and crashes.                      *)

(* A row for each file of a directory, and none for what is not there. *)
LEMMA RecordedFits ==
  ASSUME IInv, NEW d, NEW files, files = {c.path : c \in FilesIn(d)}, NEW r \in Ids,
         eps' = Recorded(r, files)
  PROVE  EpsFit'
<1>1. eps \subseteq Ep /\ IsFiniteSet(eps) /\ \A e, g \in eps : e.path = g.path => e = g
  BY DEF IInv, EpsFit
<1>2. \A p \in files : p \in Paths /\ NumberAt(p) \in Episodes \cup {NoEpisode}
  <2> SUFFICES ASSUME NEW c \in disk
               PROVE  c.path \in Paths /\ NumberAt(c.path) \in Episodes \cup {NoEpisode}
    BY DEF FilesIn
  <2>1. PICK k : k = CHOOSE e \in At(c.path) : TRUE
    OBVIOUS
  <2>2. k \in disk
    BY <2>1 DEF At
  <2>3. k.video \in Videos /\ c.path \in Paths
    BY <2>2 DEF IInv, DiskFits, Copies
  <2>4. NumberAt(c.path) = number[k.video]
    BY <2>1 DEF NumberAt
  <2> QED
    BY <2>3, <2>4 DEF IInv, RestFits
<1> DEFINE K == {e \in eps : e.row = r => e.path \in files}
           N == {p \in files : EpsAt(p) = {}}
           f == [e \in K |-> IF e.path \in files THEN [e EXCEPT !.num = NumberAt(e.path)] ELSE e]
           g == [p \in N |-> [path |-> p, row |-> r, num |-> NumberAt(p)]]
           A == {f[e] : e \in K}
           B == {g[p] : p \in N}
<1>3. eps' = A \cup B
  BY DEF Recorded
<1>4. \A e \in K : f[e] \in Ep /\ f[e].path = e.path
  <2> SUFFICES ASSUME NEW e \in K PROVE f[e] \in Ep /\ f[e].path = e.path
    OBVIOUS
  <2>1. e \in Ep
    BY <1>1
  <2>2. CASE e.path \notin files
    BY <2>1, <2>2
  <2>3. CASE e.path \in files
    <3>1. PICK n \in Episodes \cup {NoEpisode} : n = NumberAt(e.path)
      BY <1>2, <2>3
    <3>2. f[e] = [e EXCEPT !.num = n]
      BY <2>3, <3>1
    <3> HIDE DEF f, K
    <3> QED
      BY <2>1, <3>1, <3>2 DEF Ep
  <2> QED
    BY <2>2, <2>3
<1>5. \A p \in N : g[p] \in Ep /\ g[p].path = p
  BY <1>2 DEF Ep
<1>6. IsFiniteSet(A)
  <2>1. IsFiniteSet(K)
    BY <1>1, FS_Subset
  <2>2. f \in [K -> A] /\ \A e \in A : \E k \in K : f[k] = e
    OBVIOUS
  <2> HIDE DEF f, A, K
  <2> QED
    BY <2>1, <2>2, FiniteImage
<1>7. IsFiniteSet(B)
  <2>1. IsFiniteSet(files)
    <3>1. IsFiniteSet({c.path : c \in disk}) /\ files \subseteq {c.path : c \in disk}
      BY PathsOfDisk DEF FilesIn, IInv, DiskFits
    <3> QED
      BY <3>1, FS_Subset
  <2>2. IsFiniteSet(N)
    BY <2>1, FS_Subset
  <2>3. g \in [N -> B] /\ \A e \in B : \E p \in N : g[p] = e
    OBVIOUS
  <2> HIDE DEF g, B, N
  <2> QED
    BY <2>2, <2>3, FiniteImage
<1>8. IsFiniteSet(eps')
  <2> HIDE DEF A, B
  <2> QED
    BY <1>3, <1>6, <1>7, FS_Union
<1>9. \A e \in K, p \in N : e.path # p
  BY DEF EpsAt
<1>10. \A e, h \in K : e.path = h.path => e = h
  BY <1>1
<1> HIDE DEF f, g, K, N
<1>11. eps' \subseteq Ep
  BY <1>3, <1>4, <1>5
<1>12. \A e, h \in eps' : e.path = h.path => e = h
  <2> SUFFICES ASSUME NEW e \in eps', NEW h \in eps', e.path = h.path PROVE e = h
    OBVIOUS
  <2>1. CASE e \in A /\ h \in A
    BY <1>4, <1>10, <2>1
  <2>2. CASE e \in B /\ h \in B
    BY <1>5, <2>2
  <2>3. CASE (e \in A /\ h \in B) \/ (e \in B /\ h \in A)
    BY <1>4, <1>5, <1>9, <2>3
  <2> QED
    BY <1>3, <2>1, <2>2, <2>3
<1> QED
  BY <1>8, <1>11, <1>12 DEF EpsFit

LEMMA CheckFits ==
  ASSUME IInv, NEW d \in Dirs, Check(d)
  PROVE  IInv' /\ NothingLost
<1>1. Meeting /\ UNCHANGED <<number, disk, dirs, op, busy>>
  BY DEF Check
<1>2. PICK files : files = {c.path : c \in FilesIn(d)}
  OBVIOUS
<1>3. \/ UNCHANGED db
      \/ \E r \in RowsAt(d) : RowDeleted(r)
      \/ \E r \in Ids : /\ rows' = [rows EXCEPT ![r] = [dir |-> d, known |-> FALSE]]
                        /\ eps' = Recorded(r, files)
      \/ UNCHANGED rows /\ \E r \in RowsAt(d) : eps' = Recorded(r, files)
  BY <1>2 DEF Check
<1>4. [dir |-> d, known |-> FALSE] \in Row
  BY DEF Row
<1>5. RowsFit' /\ EpsFit'
  <2>1. CASE UNCHANGED db
    BY <2>1, RowsStay
  <2>2. CASE \E r \in RowsAt(d) : RowDeleted(r)
    BY <2>2, RowDeletedFits
  <2>3. ASSUME NEW r \in Ids, rows' = [rows EXCEPT ![r] = [dir |-> d, known |-> FALSE]],
               eps' = Recorded(r, files)
        PROVE  RowsFit' /\ EpsFit'
    BY <1>2, <1>4, <2>3, RecordedFits DEF IInv, RowsFit
  <2>4. ASSUME UNCHANGED rows, NEW r \in RowsAt(d), eps' = Recorded(r, files)
        PROVE  RowsFit' /\ EpsFit'
    BY <1>2, <2>4, RecordedFits DEF IInv, RowsFit, RowsAt, Live
  <2> QED
    BY <1>3, <2>1, <2>2, <2>3, <2>4
<1>6. DiskFits' /\ NothingLost /\ RestFits' /\ op' \in [Actors -> Operation]
  BY <1>1, FilesStay, MeetingFits, RestStays DEF IInv, RestFits
<1> QED
  BY <1>5, <1>6 DEF IInv

LEMMA IdentifyFits ==
  ASSUME IInv, NEW r \in Ids, Identify(r)
  PROVE  IInv' /\ NothingLost
<1>1. /\ r \in Live /\ rows' = [rows EXCEPT ![r].known = TRUE] /\ Between
      /\ UNCHANGED <<number, disk, dirs, eps, op, busy, mishap>>
  BY DEF Identify
<1>2. RowsFit'
  <2>1. rows[r] \in [dir : Dirs, known : BOOLEAN]
    BY <1>1 DEF IInv, RowsFit, Row, Live
  <2>2. PICK q : q = [rows[r] EXCEPT !.known = TRUE]
    OBVIOUS
  <2>3. q \in Row
    BY <2>1, <2>2 DEF Row
  <2> QED
    BY <1>1, <2>2, <2>3 DEF IInv, RowsFit
<1>3. DiskFits' /\ NothingLost /\ RestFits'
  BY <1>1, FilesStay, BetweenFits, RestStays DEF IInv, RestFits
<1> QED
  BY <1>1, <1>2, <1>3 DEF IInv, EpsFit

LEMMA ArriveFits ==
  ASSUME IInv, NEW v \in Videos, Arrive(v)
  PROVE  IInv' /\ NothingLost
<1>1. /\ At(Named(Download, v)) = {} /\ dirs' = dirs \cup {Download}
      /\ disk' = disk \cup {[path |-> Named(Download, v), video |-> v, whole |-> TRUE]}
      /\ Between /\ UNCHANGED <<number, db, op, busy, mishap>>
  BY DEF Arrive
<1>2. Download \in Dirs
  BY DEF Download, Dirs
<1>3. PICK p : p = Named(Download, v)
  OBVIOUS
<1>4. p \in Paths /\ DirOf(p) = Download
  BY <1>2, <1>3, NamedPath
<1>5. PICK k : k = [path |-> p, video |-> v, whole |-> TRUE]
  OBVIOUS
<1>6. k \in Copies /\ k.path = p
  BY <1>4, <1>5 DEF Copies
<1>7. DiskFits' /\ NothingLost
  BY <1>1, <1>2, <1>3, <1>4, <1>5, <1>6, FileAdded DEF IInv, DiskFits
<1>8. RowsFit' /\ EpsFit' /\ RestFits'
  BY <1>1, RowsStay, BetweenFits, RestStays DEF IInv, RestFits
<1> QED
  BY <1>1, <1>7, <1>8 DEF IInv

(* The move that a crash may cut short goes to a place of its own, too. *)
LEMMA MovesFit ==
  ASSUME IInv, NEW x \in Actors, NEW m \in Moves(x)
  PROVE  m[2] \in Paths /\ (m[2] = m[1] \/ At(m[2]) = {})
<1>1. CASE op[x].pc \in {"merge", "moving"}
  <2>1. PICK e \in op[x].todo : m = <<e.path, Target(x, e)>>
    BY <1>1 DEF Moves
  <2> QED
    BY <1>1, <2>1, TargetFits
<1>2. CASE op[x].pc = "back"
  <2>1. PICK n \in op[x].moved : m = <<n[2], FreePath(n[1].path, n[2], {})>>
    BY <1>2 DEF Moves
  <2> QED
    BY <2>1, WayBackFits
<1>3. CASE op[x].pc = "leftover"
  <2>1. PICK c \in Leftover(x) : m = <<c.path, NewPlace(x, c)>>
    BY <1>3 DEF Moves
  <2> QED
    BY <1>3, <2>1, LeftoverFits
<1> QED
  BY <1>1, <1>2, <1>3 DEF Moves

LEMMA CrashFits ==
  ASSUME IInv, Crash
  PROVE  IInv' /\ NothingLost
<1>1. /\ dirs' = dirs \cup {DirOf(c.path) : c \in disk'} /\ op' = [x \in Actors |-> Idle]
      /\ busy' = NoActor /\ Spend /\ Befalls("crash") /\ UNCHANGED <<number, db>>
  BY DEF Crash
<1>2. DiskFits' /\ NothingLost
  <2>1. CASE disk' = disk
    BY <1>1, <2>1, NoFileChanges DEF IInv, DiskFits
  <2>2. CASE disk' # disk
    <3>0. PICK x \in Actors : \E m \in Moves(x) : \E c \in At(m[1]) : disk' \in CutMove(c, m[2])
      BY <2>2 DEF Crash
    <3>1. PICK m \in Moves(x), c \in disk : c.path = m[1] /\ disk' \in CutMove(c, m[2])
      BY <3>0 DEF At
    <3>2. m[2] \in Paths /\ (m[2] = c.path \/ At(m[2]) = {})
      BY <3>1, MovesFit
    <3>3. c \in Copies /\ c.whole \in BOOLEAN
      BY DEF IInv, DiskFits, Copies
    <3>4. \/ disk' = disk
          \/ \E whole \in BOOLEAN : disk' = disk \cup {Copied(c, m[2], whole)}
      BY <3>1, <3>3 DEF CutMove, FailedMove
    <3>5. \A e \in disk' : DirOf(e.path) \in Dirs
      <4>1. \A whole \in BOOLEAN : Copied(c, m[2], whole).path = m[2]
        BY <3>2, <3>3, CopyOf
      <4>2. \A e \in disk : DirOf(e.path) \in Dirs
        BY DEF IInv, DiskFits
      <4>3. DirOf(m[2]) \in Dirs
        BY <3>2, PathParts
      <4> QED
        BY <3>4, <4>1, <4>2, <4>3
    <3>6. dirs \subseteq dirs' /\ dirs' \subseteq Dirs /\ \A e \in disk' : DirOf(e.path) \in dirs'
      BY <1>1, <3>5 DEF IInv, DiskFits
    <3> QED
      BY <3>1, <3>2, <3>6, CutFits DEF IInv
  <2> QED
    BY <2>1, <2>2
<1>3. "crash" \in Mishaps
  BY DEF Mishaps
<1>4. trouble' \in 0..Trouble
  BY <1>1, SortAssumption DEF Spend, IInv, RestFits
<1>5. RowsFit' /\ EpsFit' /\ RestFits'
  BY <1>1, <1>3, <1>4, RowsStay, RestStays, Befallen DEF IInv, RestFits
<1> QED
  BY <1>1, <1>2, <1>5, IdleFits DEF IInv
-----------------------------------------------------------------------------
(* The invariant holds at first, and every step keeps it.                   *)

LEMMA InitFits ==
  ASSUME Init
  PROVE  IInv
<1>1. PICK here \in SUBSET Videos :
       \E home \in [here -> 1..3], known \in {k \in [1..3 -> BOOLEAN] : k[1]} :
         LET path(v) == Named(Homes[home[v]], v)
             used    == {home[v] : v \in here}
         IN
         /\ disk = {[path |-> path(v), video |-> v, whole |-> TRUE] : v \in here}
         /\ dirs = {Homes[i] : i \in used}
         /\ rows = [r \in Ids |-> IF r \in used THEN [dir |-> Homes[r], known |-> known[r]]
                                                ELSE NoRow]
         /\ eps  = {[path |-> path(v), row |-> home[v], num |-> number[v]] : v \in here}
  BY DEF Init
<1>2. PICK home \in [here -> 1..3], known \in [1..3 -> BOOLEAN] :
        /\ disk = {[path |-> Named(Homes[home[v]], v), video |-> v, whole |-> TRUE] : v \in here}
        /\ dirs = {Homes[i] : i \in {home[v] : v \in here}}
        /\ rows = [r \in Ids |-> IF r \in {home[v] : v \in here}
                                   THEN [dir |-> Homes[r], known |-> known[r]] ELSE NoRow]
        /\ eps = {[path |-> Named(Homes[home[v]], v), row |-> home[v], num |-> number[v]] :
                    v \in here}
  BY <1>1
<1>3. RestFits /\ op = [x \in Actors |-> Idle]
  BY SortAssumption DEF Init, RestFits, Mishaps
<1>4. \A i \in 1..3 : Homes[i] \in Dirs
  BY DEF Homes, Download, Dirs
<1>5. 1..3 \subseteq Ids
  BY SortAssumption DEF Ids
<1> DEFINE path(v) == Named(Homes[home[v]], v)
<1>6. \A v \in here : /\ path(v) \in Paths /\ DirOf(path(v)) = Homes[home[v]]
                      /\ NameOf(path(v)) = v /\ Homes[home[v]] \in dirs
  <2>1. \A v \in here : Homes[home[v]] \in Dirs /\ Homes[home[v]] \in dirs
    BY <1>2, <1>4
  <2> QED
    BY <2>1, NamedPath
<1> HIDE DEF path
<1> DEFINE c == [v \in here |-> [path |-> path(v), video |-> v, whole |-> TRUE]]
           e == [v \in here |-> [path |-> path(v), row |-> home[v], num |-> number[v]]]
<1>7. disk = {c[v] : v \in here} /\ eps = {e[v] : v \in here}
  BY <1>2 DEF path
<1>8. \A v \in here : c[v] \in Copies /\ c[v].path = path(v)
  BY <1>6 DEF Copies
<1>9. \A v \in here : e[v] \in Ep /\ e[v].path = path(v)
  <2> SUFFICES ASSUME NEW v \in here PROVE e[v] \in Ep /\ e[v].path = path(v)
    OBVIOUS
  <2>1. PICK p \in Paths : p = path(v)
    BY <1>6
  <2>2. PICK r \in Ids : r = home[v]
    BY <1>5
  <2>3. PICK n \in Episodes \cup {NoEpisode} : n = number[v]
    BY <1>3 DEF RestFits
  <2>4. e[v] = [path |-> p, row |-> r, num |-> n]
    BY <2>1, <2>2, <2>3
  <2> HIDE DEF e
  <2> QED
    BY <2>1, <2>4 DEF Ep
<1>10. IsFiniteSet(here)
  BY SortAssumption, FS_Subset
<1>11. IsFiniteSet(disk) /\ IsFiniteSet(eps)
  <2>1. c \in [here -> disk] /\ \A k \in disk : \E v \in here : c[v] = k
    BY <1>7
  <2>2. e \in [here -> eps] /\ \A k \in eps : \E v \in here : e[v] = k
    BY <1>7
  <2> HIDE DEF c, e
  <2> QED
    BY <1>10, <2>1, <2>2, FiniteImage
<1> HIDE DEF c, e
<1>12. \A v, w \in here : path(v) = path(w) => v = w
  BY <1>6
<1>13. DiskFits
  <2>1. dirs \subseteq Dirs
    BY <1>2, <1>4
  <2> QED
    BY <1>6, <1>7, <1>8, <1>11, <1>12, <2>1 DEF DiskFits
<1>14. EpsFit
  BY <1>7, <1>9, <1>11, <1>12 DEF EpsFit
<1>15. RowsFit
  <2> SUFFICES ASSUME NEW r \in Ids PROVE rows[r] \in Row
    BY <1>2 DEF RowsFit
  <2>1. CASE r \in {home[v] : v \in here}
    BY <1>2, <1>4, <2>1 DEF Row
  <2>2. CASE r \notin {home[v] : v \in here}
    BY <1>2, <2>2 DEF Row
  <2> QED
    BY <2>1, <2>2
<1> QED
  BY <1>3, <1>13, <1>14, <1>15, IdleFits DEF IInv

LEMMA InductiveStep ==
  ASSUME IInv, [Next]_vars
  PROVE  IInv' /\ NothingLost
<1>1. ASSUME NEW x \in Actors, Sort(x) PROVE IInv' /\ NothingLost
  BY <1>1, SortBeginsFits, FindTargetFits, UnlistFits, ListFits, MergeMoveFits, MergeFinishFits,
     MergeDropFits, RelocateBeginFits, RelocateMoveFits, RelocateBackFits, RelocateLeftoverFits,
     RelocateCommitFits DEF Sort
<1>2. ASSUME NEW x \in Actors, Rename(x) PROVE IInv' /\ NothingLost
  BY <1>2, RenameBeginsFits, RenameDirFits, RenamePathsFits, RenameFileFits, RenameNamesFits
     DEF Rename
<1>3. CASE UNCHANGED vars
  <2>1. UNCHANGED <<number, onDisk, db, busy, mishap>> /\ op' \in [Actors -> Operation]
    BY <1>3 DEF vars, IInv
  <2> QED
    BY <2>1, OnlyOpChanges
<1> QED
  BY <1>1, <1>2, <1>3, CheckFits, IdentifyFits, ArriveFits, CrashFits DEF Next

(* The inductive invariant of sorting and renaming. *)
THEOREM Inductive == Spec => []IInv
<1>1. Init => IInv
  BY InitFits
<1>2. IInv /\ [Next]_vars => IInv'
  BY InductiveStep
<1> QED
  BY <1>1, <1>2, PTL DEF Spec

LEMMA InvTyped ==
  ASSUME IInv
  PROVE  TypeOK
<1>1. /\ number \in [Videos -> Episodes \cup {NoEpisode}]
      /\ disk \subseteq [path : Paths, video : Videos, whole : BOOLEAN]
      /\ (\A c, e \in disk : c.path = e.path => c = e)
      /\ (\A c \in disk : DirOf(c.path) \in dirs)
      /\ dirs \subseteq Dirs /\ eps \subseteq Ep
      /\ (\A e, f \in eps : e.path = f.path => e = f)
      /\ busy \in Actors \cup {NoActor}
      /\ trouble \in 0..Trouble /\ mishap \in Mishaps
  BY DEF IInv, DiskFits, EpsFit, RestFits, Copies
<1>2. rows \in [Ids -> [dir : Dirs \cup {NoDir}, known : BOOLEAN]]
  <2>1. Row \subseteq [dir : Dirs \cup {NoDir}, known : BOOLEAN]
    <3>1. NoRow \in [dir : Dirs \cup {NoDir}, known : BOOLEAN]
      BY DEF NoRow
    <3> QED
      BY <3>1 DEF Row
  <2> QED
    BY <2>1 DEF IInv, RowsFit
<1>3. \A x \in Actors :
        /\ op[x].pc \in Steps /\ {op[x].row, op[x].to} \subseteq 0..MaxRows
        /\ {op[x].src, op[x].dest} \subseteq Dirs \cup {NoDir}
        /\ op[x].todo \subseteq Ep /\ op[x].moved \subseteq Ep \X Paths
  BY DEF IInv, Operation, Record
<1> QED
  BY <1>1, <1>2, <1>3 DEF TypeOK

(* Every reachable state has the declared types: in particular no path has two
   files, every file is in a directory that is there, and no path has two
   episode rows (the unique index on file_path is never violated). *)
THEOREM TypeCorrect == Spec => []TypeOK
<1>1. IInv => TypeOK
  BY InvTyped
<1> QED
  BY <1>1, Inductive, PTL

(* No step of sorting, renaming, scanning or a crash loses a video, for any
   number of videos, episodes and actors, across drives or not. *)
THEOREM VideosAreKept == Spec => NoVideoLost
<1>1. IInv /\ [Next]_vars => [\A v \in Videos : Whole(v) => Whole(v)']_vars
  BY InductiveStep DEF NothingLost
<1> QED
  BY <1>1, Inductive, PTL DEF Spec, NoVideoLost
-----------------------------------------------------------------------------
(* Of operations nobody meets: where the files of each row are while one is *)
(* under way.                                                               *)

\* What is recorded lies in d.
Lies(es, d) == \A e \in es : DirOf(e.path) = d /\ At(e.path) # {}

\* The directory of a row is there, and all that is recorded for it.
Sound(r) == rows[r].dir \in dirs /\ Lies(EpsOf(r), rows[r].dir)

AllSound       == \A r \in Live : Sound(r)
RestSound(row) == \A r \in Live : r # row => Sound(r)

\* A download's own name is that of the video it is.
NamesFit  == \A c \in disk : NameOf(c.path) \in Videos => c.video = NameOf(c.path)
RowsApart == \A r, s \in Live : rows[r].dir = rows[s].dir => r = s
EpsOwned  == \A e \in eps : e.row \in Live
World     == NamesFit /\ RowsApart /\ EpsOwned

\* The file that was at p is at q.
Came(p, q) == \E c \in At(q) : NameOf(p) \in Videos => c.video = NameOf(p)

\* ... where no row has been.
Fresh(o, m) == DirOf(m[2]) = o.dest /\ EpsAt(m[2]) = {} /\ Came(m[1].path, m[2])

\* The rows whose files have not been moved.
Behind(o) == {e \in EpsOf(o.row) : \A m \in o.moved : m[1] # e}

\* The files that have been, and are not recorded where they are.
Taken(o, m) ==
  m[1] \in EpsOf(o.row) /\ DirOf(m[1].path) = o.src /\ At(m[1].path) = {} /\ Fresh(o, m)
Split(o) ==
  /\ \A m \in o.moved : Taken(o, m)
  /\ \A m, n \in o.moved : m[1] = n[1] \/ m[2] = n[2] => m = n

\* The row that is worked on is where the operation found it.
AtHome(o) == rows[o.row].dir = o.src /\ o.src \in dirs

\* The anime to merge into, or a directory that no row has.
Ahead(o) ==
  /\ o.dest # o.src
  /\ IF o.to = 0 THEN RowsAt(o.dest) = {}
                 ELSE o.to \in Live /\ o.to # o.row /\ rows[o.to].dir = o.dest

\* The directory has its new name, the rows have not.
Halfway(o) ==
  /\ o.todo = EpsOf(o.row) /\ o.dest # o.src /\ RowsAt(o.dest) = {}
  /\ o.dest \in dirs /\ rows[o.row].dir = o.src
  /\ \A e \in o.todo : At(e.path) = {} /\ Came(e.path, <<o.dest, e.path[2]>>)

\* Some files have their new names, the rows have not.
Renamed(o, m) ==
  /\ m[1] \in EpsOf(o.row) /\ DirOf(m[2]) = rows[o.row].dir /\ Came(m[1].path, m[2])
  /\ At(m[1].path) = {} \/ \E n \in o.moved : n[2] = m[1].path
  /\ \A e \in EpsAt(m[2]) : e \in EpsOf(o.row) \ Behind(o)
Renaming(o) ==
  /\ rows[o.row].dir \in dirs /\ \A e \in EpsOf(o.row) : DirOf(e.path) = rows[o.row].dir
  /\ \A e \in Behind(o) : At(e.path) # {}
  /\ \A m \in o.moved : Renamed(o, m)

\* By the position of an operation.
SortFits(o) ==
  /\ o.pc \in {"target", "begin"} =>
       Sound(o.row) /\ AtHome(o) /\ o.moved = {} /\ o.to = 0 /\ InFolder(o.src, "download")
  /\ o.pc = "target" => o.todo = Matched(EpsOf(o.row)) /\ (o.all => o.todo = EpsOf(o.row))
  /\ o.pc = "begin" => o.todo = EpsOf(o.row) /\ o.dest = <<"content", "title">>
MergeFits(o) ==
  /\ o.pc \in {"merge", "finish"} =>
       AtHome(o) /\ Ahead(o) /\ o.to # 0 /\ o.moved = {} /\ Lies(EpsOf(o.row), o.src)
  /\ o.pc = "merge" => o.todo \subseteq EpsOf(o.row)
  /\ o.pc = "drop" => EpsOf(o.row) = {}
MoveFits(o) ==
  /\ o.pc \in {"moving", "back"} => AtHome(o) /\ Ahead(o) /\ o.to = 0 /\ Split(o) /\ Lies(Behind(o), o.src)
  /\ o.pc = "moving" => o.todo = Behind(o)
  /\ o.pc \in {"leftover", "commit"} =>
       /\ rows[o.row].dir = o.src /\ Ahead(o) /\ o.to = 0
       /\ o.dest \in dirs /\ Lies(EpsOf(o.row), o.dest)
ListFit(o) ==
  /\ o.pc \in {"unlist", "list"} =>
       /\ Ahead(o) /\ Split(o) /\ rows[o.row].dir = o.src
       /\ IF o.to = 0 THEN o.dest \in dirs /\ Lies(Behind(o), o.dest)
                      ELSE o.src \in dirs /\ Lies(Behind(o), o.src) /\ o.todo \subseteq Behind(o)
  /\ o.pc = "list" => \A m \in o.now : Fresh(o, m) /\ \A n \in o.moved : n[2] # m[2]
RenameFits(o) ==
  /\ o.pc = "dir" =>
       Sound(o.row) /\ AtHome(o) /\ o.to = 0 /\ o.todo = EpsOf(o.row) /\ o.dest = Titled(o.src)
  /\ o.pc = "paths" => o.to = 0 /\ Halfway(o)
  /\ o.pc \in {"files", "names"} => Renaming(o)
  /\ o.pc = "files" => o.todo \subseteq Behind(o)

\* What holds of the operation at work.
Fits(o) ==
  o.row \in Live /\ SortFits(o) /\ MergeFits(o) /\ MoveFits(o) /\ ListFit(o) /\ RenameFits(o)

Alone(x) == \A y \in Actors : y # x => op[y] = Idle

NInv ==
  mishap = "none" =>
    /\ World
    /\ Quiet => AllSound
    /\ \A x \in Actors : op[x] # Idle =>
         op[x].pc # "idle" /\ Alone(x) /\ Fits(op[x]) /\ RestSound(op[x].row)

\* No row is lost of a file that is where it was recorded.
Keeps == \A e \in eps : EpsAt(e.path)' = {} => At(e.path)' = {}

(* What a file that goes to a free place leaves, and brings. *)
LEMMA DoneMove ==
  ASSUME DiskFits, NEW from, NEW to \in Paths, to # from, At(to) = {}, MoveDone(from, to)
  PROVE  /\ At(from)' = {} /\ At(to)' # {} /\ dirs' = dirs \cup {DirOf(to)}
         /\ \A p : p # from /\ p # to => At(p)' = At(p)
         /\ NamesFit => Came(from, to)'
         /\ /\ NamesFit
            /\ NameOf(to) \in Episodes \/ NameOf(to) = NameOf(from) \/ Came(to, from)
            => NamesFit'
<1>1. PICK c \in disk : c.path = from /\ disk' = Relocated(c, to)
  BY DEF MoveDone, At
<1>2. c \in Copies /\ c.whole \in BOOLEAN
  BY DEF DiskFits, Copies
<1>3. PICK k : k = Copied(c, to, c.whole)
  OBVIOUS
<1>4. k \in Copies /\ k.path = to /\ k.video = c.video
  BY <1>2, <1>3, CopyOf
<1>5. disk' = (disk \ {c}) \cup {k}
  BY <1>1, <1>3 DEF Relocated
<1>6. At(from)' = {}
  BY <1>1, <1>4, <1>5 DEF At, DiskFits
<1>7. k \in At(to)'
  BY <1>4, <1>5 DEF At
<1>8. \A p : p # from /\ p # to => At(p)' = At(p)
  BY <1>1, <1>4, <1>5 DEF At
<1>9. NamesFit => (NameOf(from) \in Videos => k.video = NameOf(from))
  BY <1>1, <1>4 DEF NamesFit
<1>10. NamesFit => Came(from, to)'
  BY <1>7, <1>9 DEF Came
<1>11. ASSUME NamesFit, NameOf(to) \in Episodes \/ NameOf(to) = NameOf(from) \/ Came(to, from)
       PROVE  NamesFit'
  <2>1. At(from) = {c}
    BY <1>1 DEF At, DiskFits
  <2>2. NameOf(to) \in Videos => k.video = NameOf(to)
    BY <1>4, <1>9, <1>11, <2>1, SortAssumption DEF Came
  <2> QED
    BY <1>4, <1>5, <1>11, <2>2 DEF NamesFit
<1> QED
  BY <1>6, <1>7, <1>8, <1>10, <1>11 DEF MoveDone

(* What a move leaves that fails. *)
LEMMA FailedMoveLeaves ==
  ASSUME DiskFits, NEW from, NEW to \in Paths, At(to) = {}, MoveFails(from, to)
  PROVE  /\ dirs' = dirs \cup {DirOf(to)} /\ \A p : p # to => At(p)' = At(p)
         /\ NamesFit /\ (NameOf(to) \in Episodes \/ NameOf(to) = NameOf(from)) => NamesFit'
         /\ disk' = disk \/ DirOf(from)[1] # DirOf(to)[1]
<1>1. CASE disk' = disk
  BY <1>1 DEF MoveFails, At, NamesFit
<1>2. CASE disk' # disk
  <2>1. PICK c \in disk : c.path = from /\ disk' \in FailedMove(c, to)
    BY <1>2 DEF MoveFails, At
  <2>2. PICK k : k = Copied(c, to, FALSE)
    OBVIOUS
  <2>3. c \in Copies /\ ByCopy(c, to) /\ disk' = disk \cup {k}
    BY <1>2, <2>1, <2>2 DEF FailedMove, DiskFits
  <2>4. k.path = to /\ k.video = c.video
    BY <2>2, <2>3, CopyOf
  <2>5. \A p : p # to => At(p)' = At(p)
    BY <2>3, <2>4 DEF At
  <2>6. NamesFit /\ (NameOf(to) \in Episodes \/ NameOf(to) = NameOf(from)) => NamesFit'
    BY <2>1, <2>3, <2>4, SortAssumption DEF NamesFit
  <2> QED
    BY <2>1, <2>3, <2>5, <2>6 DEF MoveFails, ByCopy
<1> QED
  BY <1>1, <1>2

(* What is known while an operation of x is under way. *)
LEMMA AtWork ==
  ASSUME IInv, NInv, mishap = "none", NEW x \in Actors, op[x].pc # "idle"
  PROVE  /\ op[x] # Idle /\ World /\ Alone(x) /\ Fits(op[x]) /\ RestSound(op[x].row)
         /\ op[x].row \in Live /\ op[x] \in Record
         /\ \A e \in eps : e \in Ep /\ (e.row # op[x].row =>
               e.row \in Live /\ DirOf(e.path) = rows[e.row].dir /\ At(e.path) # {})
<1>1. op[x] # Idle
  BY DEF Idle
<1>2. World /\ Alone(x) /\ Fits(op[x]) /\ RestSound(op[x].row)
  BY <1>1 DEF NInv
<1>3. ASSUME NEW e \in eps, e.row # op[x].row
      PROVE  e.row \in Live /\ DirOf(e.path) = rows[e.row].dir /\ At(e.path) # {}
  <2>1. e.row \in Live
    BY <1>2 DEF World, EpsOwned
  <2>2. Sound(e.row)
    BY <1>2, <1>3, <2>1 DEF RestSound
  <2>3. e \in EpsOf(e.row)
    BY DEF EpsOf
  <2> QED
    BY <2>1, <2>2, <2>3 DEF Sound, Lies
<1> QED
  BY <1>1, <1>2, <1>3, OperationOf DEF Fits, IInv, EpsFit

(* An operation goes on, *)
LEMMA WorkGoesOn ==
  ASSUME IInv, NInv, mishap = "none", NEW x \in Actors, op[x].pc # "idle",
         NEW n, n.pc # "idle", Becomes(x, n), World', Fits(n)', RestSound(n.row)'
  PROVE  NInv'
<1>1. Alone(x) /\ op' = [op EXCEPT ![x] = n]
  BY AtWork DEF Becomes
<1>2. op'[x] = n /\ \A y \in Actors : y # x => op'[y] = Idle
  BY <1>1 DEF Alone, IInv
<1>3. n # Idle
  BY DEF Idle
<1>4. ~Quiet'
  BY <1>2, <1>3 DEF Quiet
<1>5. Alone(x)'
  BY <1>2 DEF Alone
<1> QED
  BY <1>2, <1>4, <1>5 DEF NInv

(* ends, *)
LEMMA WorkEnds ==
  ASSUME IInv, NInv, mishap = "none", NEW x \in Actors, op[x].pc # "idle",
         Over(x), World', AllSound'
  PROVE  NInv'
<1>1. Alone(x) /\ op' = [op EXCEPT ![x] = Idle]
  BY AtWork DEF Becomes, Over
<1>2. \A y \in Actors : op'[y] = Idle
  BY <1>1 DEF Alone, IInv
<1> QED
  BY <1>2 DEF NInv

(* and what it does not touch stays. *)
LEMMA RowsStaySound ==
  ASSUME UNCHANGED <<rows, eps>>, NEW row, RestSound(row), dirs \subseteq dirs',
         \A e \in eps : e.row # row /\ At(e.path) # {} => At(e.path)' # {}
  PROVE  RestSound(row)'
<1> SUFFICES ASSUME NEW r \in Live', r # row PROVE Sound(r)'
  BY DEF RestSound
<1>1. r \in Live /\ EpsOf(r)' = EpsOf(r) /\ rows'[r] = rows[r]
  BY DEF Live, EpsOf
<1>2. Sound(r)
  BY <1>1 DEF RestSound
<1> QED
  BY <1>1, <1>2 DEF Sound, Lies, EpsOf

LEMMA AllAreSound ==
  ASSUME NEW row, RestSound(row), row \in Live => Sound(row)
  PROVE  AllSound
BY DEF AllSound, RestSound

LEMMA WorldStays ==
  ASSUME World, UNCHANGED <<rows, eps>>, NamesFit => NamesFit'
  PROVE  World'
BY DEF World, RowsApart, EpsOwned, Live

LEMMA NothingForgotten ==
  ASSUME UNCHANGED eps
  PROVE  Keeps
BY DEF Keeps, EpsAt

(* Disk and catalogue unchanged: nothing to show but the new position. *)
LEMMA SamePlaces ==
  ASSUME UNCHANGED <<disk, rows, eps>>, dirs \subseteq dirs'
  PROVE  /\ World => World'
         /\ Keeps
         /\ AllSound => AllSound'
         /\ \A row : RestSound(row) => RestSound(row)'
         /\ \A r : Sound(r) => Sound(r)'
<1>1. \A p : At(p)' = At(p)
  BY DEF At
<1>2. World => World'
  BY DEF World, NamesFit, RowsApart, EpsOwned, Live
<1>3. \A r : Sound(r) => Sound(r)'
  BY <1>1 DEF Sound, Lies, EpsOf
<1>4. Live' = Live
  BY DEF Live
<1> QED
  BY <1>2, <1>3, <1>4, NothingForgotten DEF AllSound, RestSound
-----------------------------------------------------------------------------
(* Each operation from position to position.                                *)

(* A position that fits does so while files only appear, where none is that *)
(* has been moved away, and rows and their directories stay.                *)
LEMMA PositionHolds ==
  ASSUME UNCHANGED eps, Live' = Live, \A r \in Live : rows'[r].dir = rows[r].dir,
         dirs \subseteq dirs', \A p : At(p) \subseteq At(p)',
         \A p, q : Came(p, q) /\ At(p) = {} => At(p)' = {}, NEW n, Fits(n)
  PROVE  Fits(n)'
<1>1. /\ \A p : EpsAt(p)' = EpsAt(p)
      /\ \A r : EpsOf(r)' = EpsOf(r) /\ RowsAt(r)' = RowsAt(r)
  BY DEF EpsAt, EpsOf, RowsAt
<1>2. /\ \A es, d : Lies(es, d) => Lies(es, d)'
      /\ \A p, q : Came(p, q) => Came(p, q)'
  BY DEF Lies, Came
<1>3. Behind(n)' = Behind(n) /\ n.row \in Live /\ rows'[n.row].dir = rows[n.row].dir
  BY <1>1 DEF Behind, Fits
<1>4. Sound(n.row) => Sound(n.row)'
  BY <1>1, <1>2, <1>3 DEF Sound
<1>5. (Ahead(n) => Ahead(n)') /\ (AtHome(n) => AtHome(n)')
  BY <1>1, <1>3 DEF Ahead, AtHome
<1>6. \A m : Fresh(n, m) => Fresh(n, m)'
  BY <1>1, <1>2 DEF Fresh
<1>7. Split(n) => Split(n)'
  BY <1>1, <1>6 DEF Split, Taken, Fresh
<1>8. Halfway(n) => Halfway(n)'
  BY <1>1, <1>2, <1>3 DEF Halfway
<1>9. Renaming(n) => Renaming(n)'
  <2>1. \A m : Renamed(n, m) => Renamed(n, m)'
    BY <1>1, <1>2, <1>3 DEF Renamed
  <2> QED
    BY <1>1, <1>2, <1>3, <2>1 DEF Renaming
<1> QED
  BY <1>1, <1>2, <1>3, <1>4, <1>5, <1>6, <1>7, <1>8, <1>9
  DEF Fits, SortFits, MergeFits, MoveFits, ListFit, RenameFits

LEMMA PositionStays ==
  ASSUME UNCHANGED <<disk, dirs, rows, eps>>, NEW n, Fits(n)
  PROVE  Fits(n)'
<1>1. Live' = Live /\ \A p : At(p)' = At(p)
  BY DEF Live, At
<1> QED
  BY <1>1, PositionHolds

LEMMA NothingBefell ==
  ASSUME mishap' = "none", NEW what \in Mishaps \ {"none"}
  PROVE  Befalls(what) => FALSE
BY DEF Befalls

LEMMA BeginsWell ==
  ASSUME IInv, NInv, mishap = "none", mishap' = "none", NEW x \in Actors,
         NEW n, n.pc # "idle", Begins(x, n), AllSound => Fits(n)
  PROVE  NInv' /\ Keeps
<1>1. UNCHANGED <<disk, dirs, rows, eps>> /\ op' = [op EXCEPT ![x] = n]
  BY DEF Begins, Becomes, db
<1>2. Quiet
  <2>1. "met" \in Mishaps \ {"none"}
    BY DEF Mishaps
  <2> QED
    BY <2>1, NothingBefell DEF Begins, Meeting
<1>3. World /\ AllSound
  BY <1>2 DEF NInv
<1>4. World' /\ Keeps /\ RestSound(n.row)'
  BY <1>1, <1>3, SamePlaces DEF AllSound, RestSound
<1>5. Fits(n)'
  BY <1>1, <1>3, PositionStays
<1>6. op'[x] = n /\ \A y \in Actors : y # x => op'[y] = Idle
  BY <1>1, <1>2 DEF Quiet, IInv
<1>7. ~Quiet' /\ Alone(x)'
  <2>1. n # Idle
    BY DEF Idle
  <2> QED
    BY <1>6, <2>1 DEF Quiet, Alone
<1>8. NInv'
  BY <1>4, <1>5, <1>6, <1>7 DEF NInv
<1> QED
  BY <1>4, <1>8

LEMMA SortBeginsWell ==
  ASSUME IInv, NInv, mishap = "none", mishap' = "none", NEW x \in Actors, SortBegins(x)
  PROVE  NInv' /\ Keeps
<1>1. PICK r \in Live :
        /\ InFolder(rows[r].dir, "download")
        /\ Begins(x, [Idle EXCEPT !.pc = "target", !.row = r, !.src = rows[r].dir,
                     !.todo = Matched(EpsOf(r)), !.all = (EpsOf(r) = Matched(EpsOf(r)))])
  BY DEF SortBegins
<1>2. PICK n : n = [Idle EXCEPT !.pc = "target", !.row = r, !.src = rows[r].dir,
                     !.todo = Matched(EpsOf(r)), !.all = (EpsOf(r) = Matched(EpsOf(r)))]
  OBVIOUS
<1>3. /\ n.pc = "target" /\ n.row = r /\ n.src = rows[r].dir /\ n.to = 0 /\ n.moved = {}
      /\ n.todo = Matched(EpsOf(r)) /\ n.all = (EpsOf(r) = Matched(EpsOf(r)))
  BY <1>2 DEF Idle
<1>4. AllSound => Fits(n)
  BY <1>1, <1>3 DEF AllSound, Sound, AtHome, Fits, SortFits, MergeFits, MoveFits, ListFit, RenameFits
<1> QED
  BY <1>1, <1>2, <1>3, <1>4, BeginsWell

LEMMA RenameBeginsWell ==
  ASSUME IInv, NInv, mishap = "none", mishap' = "none", NEW x \in Actors, RenameBegins(x)
  PROVE  NInv' /\ Keeps
<1>1. PICK r \in Live :
        Begins(x, [Idle EXCEPT !.pc = "dir", !.row = r, !.src = rows[r].dir,
                     !.dest = Titled(rows[r].dir), !.todo = EpsOf(r)])
  BY DEF RenameBegins
<1>2. PICK n : n = [Idle EXCEPT !.pc = "dir", !.row = r, !.src = rows[r].dir,
                     !.dest = Titled(rows[r].dir), !.todo = EpsOf(r)]
  OBVIOUS
<1>3. /\ n.pc = "dir" /\ n.row = r /\ n.src = rows[r].dir /\ n.to = 0
      /\ n.todo = EpsOf(r) /\ n.dest = Titled(rows[r].dir)
  BY <1>2 DEF Idle
<1>4. AllSound => Fits(n)
  BY <1>1, <1>3 DEF AllSound, Sound, AtHome, Fits, SortFits, MergeFits, MoveFits, ListFit, RenameFits
<1> QED
  BY <1>1, <1>2, <1>3, <1>4, BeginsWell

LEMMA FindsTargetWell ==
  ASSUME IInv, NInv, mishap = "none", NEW x \in Actors, FindTarget(x)
  PROVE  NInv' /\ Keeps
<1>0. PICK o : o = op[x]
  OBVIOUS
<1>1. o.pc = "target" /\ UNCHANGED <<disk, dirs, rows, eps>>
  BY <1>0 DEF FindTarget, Reached, onDisk, db
<1>2. /\ World /\ Fits(o) /\ RestSound(o.row) /\ o.row \in Live /\ o \in Record
  BY <1>0, <1>1, AtWork
<1>3. /\ Sound(o.row) /\ AtHome(o) /\ o.moved = {} /\ o.to = 0 /\ InFolder(o.src, "download")
      /\ o.todo = Matched(EpsOf(o.row)) /\ (o.all => o.todo = EpsOf(o.row))
  BY <1>1, <1>2 DEF Fits, SortFits
<1>4. World' /\ Keeps /\ RestSound(o.row)' /\ AllSound'
  BY <1>1, <1>2, <1>3, SamePlaces, AllAreSound
<1>5. CASE Over(x)
  BY <1>0, <1>1, <1>4, <1>5, WorkEnds
<1>6. ASSUME NEW q \in Targets, Becomes(x, [o EXCEPT !.pc = "merge", !.to = q, !.dest = rows[q].dir])
      PROVE  NInv' /\ Keeps
  <2>1. PICK n : n = [o EXCEPT !.pc = "merge", !.to = q, !.dest = rows[q].dir]
    OBVIOUS
  <2>2. /\ n.pc = "merge" /\ n.to = q /\ n.dest = rows[q].dir /\ n.src = o.src
        /\ n.row = o.row /\ n.todo = o.todo /\ n.moved = o.moved
    BY <1>2, <2>1 DEF Record
  <2>3. q \in Live /\ q # 0 /\ q # o.row /\ rows[q].dir # o.src
    BY <1>3, RowOf DEF Targets, InFolder, AtHome, Ids
  <2>4. Lies(EpsOf(o.row), o.src) /\ o.todo \subseteq EpsOf(o.row) /\ o.row \in Live
    BY <1>2, <1>3 DEF Sound, AtHome, Matched
  <2>5. Fits(n)
    BY <1>3, <2>2, <2>3, <2>4
    DEF AtHome, Ahead, Fits, SortFits, MergeFits, MoveFits, ListFit, RenameFits
  <2> QED
    BY <1>0, <1>1, <1>4, <1>6, <2>1, <2>2, <2>5, PositionStays, WorkGoesOn
<1>7. ASSUME o.all, Becomes(x, [o EXCEPT !.pc = "begin", !.dest = <<"content", "title">>])
      PROVE  NInv' /\ Keeps
  <2>1. PICK n : n = [o EXCEPT !.pc = "begin", !.dest = <<"content", "title">>]
    OBVIOUS
  <2>2. /\ n.pc = "begin" /\ n.to = o.to /\ n.dest = <<"content", "title">> /\ n.src = o.src
        /\ n.row = o.row /\ n.todo = o.todo /\ n.moved = o.moved
    BY <1>2, <2>1 DEF Record
  <2>3. Fits(n)
    BY <1>2, <1>3, <1>7, <2>2
    DEF AtHome, Fits, SortFits, MergeFits, MoveFits, ListFit, RenameFits
  <2> QED
    BY <1>0, <1>1, <1>4, <1>7, <2>1, <2>2, <2>3, PositionStays, WorkGoesOn
<1> QED
  BY <1>0, <1>5, <1>6, <1>7 DEF FindTarget

(* Where rows and directories stay, so do the anime ahead and the others. *)
LEMMA AheadStays ==
  ASSUME UNCHANGED rows, NEW n, NEW o, Ahead(o), n.dest = o.dest, n.src = o.src, n.to = o.to,
         n.row = o.row
  PROVE  Ahead(n)'
BY DEF Ahead, RowsAt, Live

LEMMA UnlistsWell ==
  ASSUME IInv, NInv, mishap = "none", NEW x \in Actors, Unlist(x)
  PROVE  NInv' /\ Keeps
<1>0. PICK o : o = op[x]
  OBVIOUS
<1>1. o.pc = "unlist" /\ UNCHANGED <<disk, dirs, rows>>
  BY <1>0 DEF Unlist, Reached, onDisk
<1>2. PICK m \in o.moved :
        /\ eps' = eps \ EpsAt(m[1].path)
        /\ Becomes(x, [o EXCEPT !.pc = "list", !.moved = @ \ {m}, !.now = {m}])
  BY <1>0 DEF Unlist
<1>3. /\ World /\ Fits(o) /\ RestSound(o.row) /\ o.row \in Live /\ o \in Record
  BY <1>0, <1>1, AtWork
<1>4. /\ Ahead(o) /\ Split(o) /\ rows[o.row].dir = o.src
      /\ IF o.to = 0 THEN o.dest \in dirs /\ Lies(Behind(o), o.dest)
                     ELSE o.src \in dirs /\ Lies(Behind(o), o.src) /\ o.todo \subseteq Behind(o)
  BY <1>1, <1>3 DEF Fits, ListFit
<1>5. PICK n : n = [o EXCEPT !.pc = "list", !.moved = @ \ {m}, !.now = {m}]
  OBVIOUS
<1>6. /\ n.pc = "list" /\ n.to = o.to /\ n.dest = o.dest /\ n.src = o.src
      /\ n.row = o.row /\ n.todo = o.todo /\ n.moved = o.moved \ {m} /\ n.now = {m}
  BY <1>3, <1>5 DEF Record
<1>7. m[1] \in EpsOf(o.row) /\ DirOf(m[1].path) = o.src /\ At(m[1].path) = {} /\ Fresh(o, m)
  BY <1>2, <1>4 DEF Split, Taken
<1>8. eps' = eps \ {m[1]}
  <2>1. EpsAt(m[1].path) = {m[1]}
    BY <1>7 DEF EpsAt, EpsOf, IInv, EpsFit
  <2> QED
    BY <1>2, <2>1
<1>9. /\ \A p : At(p)' = At(p) /\ EpsAt(p)' \subseteq EpsAt(p)
      /\ \A r : r # o.row => EpsOf(r)' = EpsOf(r)
      /\ EpsOf(o.row)' = EpsOf(o.row) \ {m[1]} /\ Live' = Live
  BY <1>1, <1>7, <1>8 DEF At, EpsAt, EpsOf, Live
<1>10. World'
  BY <1>1, <1>3, <1>8, <1>9 DEF World, NamesFit, RowsApart, EpsOwned
<1>11. RestSound(n.row)'
  BY <1>1, <1>3, <1>6, <1>9 DEF RestSound, Sound, Lies
<1>12. Behind(n)' = Behind(o)
  BY <1>2, <1>6, <1>9 DEF Behind
<1>13. \A d : Lies(Behind(o), d) => Lies(Behind(n), d)'
  BY <1>9, <1>12 DEF Lies
<1>14. \A k : Fresh(o, k) => Fresh(n, k)'
  BY <1>6, <1>9 DEF Fresh, Came
<1>15. Split(n)'
  BY <1>2, <1>4, <1>6, <1>9, <1>14 DEF Split, Taken
<1>16. Fresh(n, m)' /\ \A k \in n.moved : k[2] # m[2]
  BY <1>2, <1>4, <1>6, <1>7, <1>14 DEF Split
<1>17. Ahead(n)'
  BY <1>1, <1>4, <1>6, AheadStays
<1>18. Fits(n)'
  BY <1>1, <1>3, <1>4, <1>6, <1>9, <1>12, <1>13, <1>15, <1>16, <1>17
  DEF Fits, SortFits, MergeFits, MoveFits, ListFit, RenameFits
<1>19. Keeps
  BY <1>7, <1>8, <1>9 DEF Keeps, EpsAt
<1> QED
  BY <1>0, <1>1, <1>2, <1>5, <1>6, <1>10, <1>11, <1>18, <1>19, WorkGoesOn

LEMMA ListsWell ==
  ASSUME IInv, NInv, mishap = "none", NEW x \in Actors, List(x)
  PROVE  NInv' /\ Keeps
<1>0. PICK o : o = op[x]
  OBVIOUS
<1>1. o.pc = "list" /\ UNCHANGED <<disk, dirs, rows>>
  BY <1>0 DEF List, Reached, onDisk
<1>2. /\ World /\ Fits(o) /\ RestSound(o.row) /\ o.row \in Live /\ o \in Record
  BY <1>0, <1>1, AtWork
<1>3. /\ Ahead(o) /\ Split(o) /\ rows[o.row].dir = o.src
      /\ IF o.to = 0 THEN o.dest \in dirs /\ Lies(Behind(o), o.dest)
                     ELSE o.src \in dirs /\ Lies(Behind(o), o.src) /\ o.todo \subseteq Behind(o)
      /\ \A m \in o.now : Fresh(o, m) /\ \A n \in o.moved : n[2] # m[2]
  BY <1>1, <1>2 DEF Fits, ListFit
<1>4. PICK owner : owner = Owner(x)
  OBVIOUS
<1>5. owner = (IF o.to = 0 THEN o.row ELSE o.to) /\ owner \in Live
  BY <1>0, <1>2, <1>3, <1>4 DEF Owner, Ahead
<1>6. PICK m \in o.now : /\ eps' = Upserted(m[2], owner, m[1].num)
                         /\ Becomes(x, [o EXCEPT !.pc = AfterList(x), !.now = {}])
  <2>1. \A m \in o.now : At(m[2]) # {}
    BY <1>3 DEF Fresh, Came
  <2> QED
    BY <1>0, <1>4, <1>5, <2>1 DEF List
<1>7. Fresh(o, m) /\ EpsAt(m[2]) = {} /\ DirOf(m[2]) = o.dest /\ At(m[2]) # {}
  BY <1>3 DEF Fresh, Came
<1>8. PICK k : k = [path |-> m[2], row |-> owner, num |-> m[1].num]
  OBVIOUS
<1>9. k.path = m[2] /\ k.row = owner /\ eps' = eps \cup {k} /\ k \notin eps
  BY <1>6, <1>7, <1>8 DEF Upserted, EpsAt
<1>10. PICK n : n = [o EXCEPT !.pc = AfterList(x), !.now = {}]
  OBVIOUS
<1>11. /\ n.to = o.to /\ n.dest = o.dest /\ n.src = o.src
       /\ n.row = o.row /\ n.todo = o.todo /\ n.moved = o.moved
       /\ n.pc = IF o.moved # {} THEN "unlist" ELSE IF o.to = 0 THEN "leftover"
                 ELSE IF o.todo # {} THEN "merge" ELSE "finish"
  BY <1>0, <1>2, <1>10 DEF Record, AfterList
<1>12. /\ \A p : At(p)' = At(p) /\ (p # m[2] => EpsAt(p)' = EpsAt(p))
       /\ \A r : EpsOf(r)' = EpsOf(r) \cup IF r = owner THEN {k} ELSE {}
       /\ Live' = Live
  BY <1>1, <1>9 DEF At, EpsAt, EpsOf, Live
<1>13. World'
  BY <1>1, <1>2, <1>5, <1>9, <1>12 DEF World, NamesFit, RowsApart, EpsOwned
<1>14. RestSound(n.row)'
  <2> SUFFICES ASSUME NEW r \in Live, r # o.row PROVE Sound(r)'
    BY <1>11, <1>12 DEF RestSound
  <2>1. Sound(r)
    BY <1>2 DEF RestSound
  <2>2. CASE r # owner
    BY <1>1, <1>12, <2>1, <2>2 DEF Sound, Lies
  <2>3. CASE r = owner
    <3>1. rows[r].dir = o.dest
      BY <1>3, <1>5, <2>3 DEF Ahead
    <3>2. \A e \in EpsOf(r)' : DirOf(e.path) = o.dest /\ At(e.path)' # {}
      BY <1>7, <1>9, <1>12, <2>1, <3>1 DEF Sound, Lies
    <3> QED
      BY <1>1, <2>1, <3>1, <3>2 DEF Sound, Lies
  <2> QED
    BY <2>2, <2>3
<1>15. Behind(n)' = Behind(o) \cup IF o.to = 0 THEN {k} ELSE {}
  <2>1. \A l \in o.moved : l[1] \in eps
    BY <1>3 DEF Split, Taken, EpsOf
  <2>2. owner = o.row <=> o.to = 0
    BY <1>3, <1>5 DEF Ahead
  <2> QED
    BY <1>9, <1>11, <1>12, <2>1, <2>2 DEF Behind
<1>16. IF o.to = 0 THEN Lies(Behind(n), o.dest)' ELSE Lies(Behind(n), o.src)'
  BY <1>3, <1>7, <1>9, <1>12, <1>15 DEF Lies
<1>17. Split(n)'
  <2>1. \A l \in o.moved : Taken(n, l)'
    BY <1>3, <1>11, <1>12 DEF Split, Taken, Fresh, Came
  <2> QED
    BY <1>3, <1>11, <2>1 DEF Split
<1>18. Ahead(n)'
  BY <1>1, <1>3, <1>11, AheadStays
<1>19. o.moved = {} => Behind(n)' = EpsOf(o.row)'
  BY <1>11 DEF Behind
<1>20. Fits(n)'
  <2>1. SortFits(n)' /\ RenameFits(n)'
    BY <1>11 DEF SortFits, RenameFits
  <2>2. MergeFits(n)'
    BY <1>1, <1>3, <1>11, <1>15, <1>16, <1>18, <1>19 DEF MergeFits, AtHome
  <2>3. MoveFits(n)'
    BY <1>1, <1>3, <1>11, <1>15, <1>16, <1>18, <1>19 DEF MoveFits
  <2>4. ListFit(n)'
    BY <1>1, <1>3, <1>11, <1>15, <1>16, <1>17, <1>18 DEF ListFit
  <2> QED
    BY <1>2, <1>11, <1>12, <2>1, <2>2, <2>3, <2>4 DEF Fits
<1>21. Keeps
  BY <1>9 DEF Keeps, EpsAt
<1>22. n.pc # "idle"
  BY <1>11
<1> QED
  BY <1>0, <1>1, <1>6, <1>10, <1>22, <1>13, <1>14, <1>20, <1>21, WorkGoesOn

(* Where a matched file is to go: ahead, under the name of its episode. *)
LEMMA TargetIs ==
  ASSUME IInv, NEW x \in Actors, op[x].pc \in {"merge", "moving"}, NEW e \in op[x].todo
  PROVE  /\ e \in Ep /\ Target(x, e) \in Paths
         /\ Target(x, e) = e.path \/ At(Target(x, e)) = {}
         /\ DirOf(Target(x, e)) = op[x].dest /\ NameOf(Target(x, e)) \in Episodes
<1>1. op[x].dest \in Dirs /\ e \in Matched(op[x].todo) /\ e \in Ep
  BY OperationOf DEF Planned, Record
<1>2. e.num \in Episodes
  BY <1>1, EpisodeRow DEF Matched
<1>3. /\ Named(op[x].dest, e.num) \in Paths
      /\ DirOf(Named(op[x].dest, e.num)) = op[x].dest /\ NameOf(Named(op[x].dest, e.num)) = e.num
  BY <1>1, <1>2, NamedPath
<1>4. IsFiniteSet(disk) /\ IsFiniteSet({})
  BY FS_EmptySet DEF IInv, DiskFits
<1> QED
  BY <1>1, <1>2, <1>3, <1>4, FreePathIsFree DEF Target

(* A file goes ahead: it is on its way, and nothing else changes. *)
LEMMA GoesAhead ==
  ASSUME IInv, NInv, mishap = "none", NEW x \in Actors, NEW o, o = op[x], o.pc # "idle",
         UNCHANGED <<rows, eps>>, Ahead(o), Split(o), AtHome(o), Lies(Behind(o), o.src),
         NEW e \in Behind(o), NEW p \in Paths, DirOf(p) = o.dest, NameOf(p) \in Episodes,
         At(p) = {}, MoveDone(e.path, p)
  PROVE  /\ World' /\ RestSound(o.row)' /\ Keeps /\ AtHome(o)' /\ Live' = Live
         /\ \A n : n.row = o.row /\ n.src = o.src /\ n.dest = o.dest
                     /\ n.moved = o.moved \cup {<<e, p>>} =>
                   Split(n)' /\ Behind(n)' = Behind(o) \ {e} /\ Lies(Behind(n), o.src)'
<1>1. /\ World /\ Fits(o) /\ RestSound(o.row) /\ o.row \in Live
      /\ \A f \in eps : f.row # o.row => DirOf(f.path) = rows[f.row].dir /\ At(f.path) # {}
  BY AtWork
<1>2. e \in EpsOf(o.row) /\ e \in eps /\ DirOf(e.path) = o.src /\ At(e.path) # {}
  BY DEF Behind, EpsOf, Lies
<1>3. p # e.path /\ o.dest # o.src
  BY <1>2 DEF Ahead
<1>4. /\ At(e.path)' = {} /\ At(p)' # {} /\ dirs' = dirs \cup {DirOf(p)}
      /\ \A q : q # e.path /\ q # p => At(q)' = At(q)
      /\ Came(e.path, p)' /\ NamesFit'
  BY <1>1, <1>3, DoneMove DEF IInv, World
<1>5. EpsAt(p) = {}
  <2> SUFFICES ASSUME NEW f \in eps, f.path = p PROVE FALSE
    BY DEF EpsAt
  <2>1. f \in EpsOf(o.row) /\ f \notin Behind(o)
    BY <1>1 DEF EpsOf, Lies
  <2>2. PICK m \in o.moved : m[1] = f
    BY <2>1 DEF Behind
  <2> QED
    BY <1>3, <2>2 DEF Split, Taken
<1>6. \A f \in eps : f # e => f.path # e.path
  BY <1>2 DEF IInv, EpsFit
<1>7. World' /\ Keeps /\ Live' = Live
  BY <1>1, <1>4, WorldStays, NothingForgotten DEF Live
<1>8. RestSound(o.row)'
  <2>1. \A f \in eps : f.row # o.row /\ At(f.path) # {} => At(f.path)' # {}
    BY <1>2, <1>4, <1>6 DEF EpsOf
  <2> QED
    BY <1>1, <1>4, <2>1, RowsStaySound
<1>9. AtHome(o)'
  BY <1>4 DEF AtHome
<1>10. \A f \in EpsOf(o.row) : f \in eps /\ (f # e /\ f.path # p => At(f.path)' = At(f.path))
  BY <1>4, <1>6 DEF EpsOf
<1>11. /\ \A m \in o.moved : m[1] # e /\ m[2] # p /\ m[2] # e.path /\ m[1].path # p
       /\ \A m \in o.moved : m[1] \in eps
  <2> SUFFICES ASSUME NEW m \in o.moved
               PROVE  m[1] # e /\ m[2] # p /\ m[2] # e.path /\ m[1].path # p /\ m[1] \in eps
    OBVIOUS
  <2>1. Taken(o, m)
    BY DEF Split
  <2>2. At(m[2]) # {} /\ DirOf(m[2]) = o.dest /\ DirOf(m[1].path) = o.src /\ m[1] \in eps
    BY <2>1 DEF Taken, Fresh, Came, EpsOf
  <2> QED
    BY <1>2, <1>3, <2>2 DEF Behind
<1>12. ASSUME NEW n, n.row = o.row, n.src = o.src, n.dest = o.dest,
              n.moved = o.moved \cup {<<e, p>>}
       PROVE  Split(n)' /\ Behind(n)' = Behind(o) \ {e} /\ Lies(Behind(n), o.src)'
  <2>1. Behind(n)' = Behind(o) \ {e}
    <3>0. PICK k : k = <<e, p>>
      OBVIOUS
    <3>1. n.moved = o.moved \cup {k} /\ k[1] = e
      BY <1>12, <3>0
    <3>2. EpsOf(n.row)' = EpsOf(o.row)
      BY <1>12 DEF EpsOf
    <3> QED
      BY <3>1, <3>2 DEF Behind
  <2>2. \A m \in o.moved : Taken(n, m)'
    <3> SUFFICES ASSUME NEW m \in o.moved PROVE Taken(n, m)'
      OBVIOUS
    <3>1. Taken(o, m)
      BY DEF Split
    <3>2. At(m[1].path)' = At(m[1].path) /\ At(m[2])' = At(m[2])
      BY <1>4, <1>6, <1>11
    <3> QED
      BY <1>12, <3>1, <3>2 DEF Taken, Fresh, Came, EpsOf, EpsAt
  <2>3. PICK k : k = <<e, p>>
    OBVIOUS
  <2>4. k[1] = e /\ k[2] = p
    BY <2>3
  <2>5. Taken(n, k)'
    BY <1>2, <1>4, <1>5, <1>12, <2>4 DEF Taken, Fresh, EpsOf, EpsAt
  <2>6. n.moved = o.moved \cup {k}
    BY <1>12, <2>3
  <2>7. Split(n)'
    BY <1>11, <2>2, <2>4, <2>5, <2>6 DEF Split
  <2>8. Lies(Behind(n), o.src)'
    <3>1. \A f \in Behind(o) \ {e} : DirOf(f.path) = o.src /\ At(f.path)' # {}
      BY <1>3, <1>10 DEF Lies, Behind
    <3> QED
      BY <2>1, <3>1 DEF Lies
  <2> QED
    BY <2>1, <2>7, <2>8
<1> QED
  BY <1>7, <1>8, <1>9, <1>12

(* One that cannot leaves all as it was, but for what may be left ahead. *)
LEMMA CannotGoAhead ==
  ASSUME IInv, NInv, mishap = "none", NEW x \in Actors, NEW o, o = op[x], o.pc # "idle",
         UNCHANGED <<rows, eps>>, Ahead(o), Split(o), AtHome(o), Lies(Behind(o), o.src),
         NEW e \in Behind(o), NEW p \in Paths, DirOf(p) = o.dest, NameOf(p) \in Episodes,
         At(p) = {}, MoveFails(e.path, p)
  PROVE  /\ World' /\ RestSound(o.row)' /\ Keeps /\ AtHome(o)' /\ Live' = Live
         /\ \A n : n.row = o.row /\ n.src = o.src /\ n.dest = o.dest /\ n.moved = o.moved =>
                   Split(n)' /\ Behind(n)' = Behind(o) /\ Lies(Behind(n), o.src)'
<1>1. World /\ Fits(o) /\ RestSound(o.row)
  BY AtWork
<1>2. /\ dirs' = dirs \cup {DirOf(p)} /\ NamesFit'
      /\ \A q : q # p => At(q)' = At(q)
  BY <1>1, FailedMoveLeaves DEF IInv, World
<1>3. \A q : At(q) # {} => At(q)' = At(q)
  BY <1>2
<1>4. World' /\ Keeps /\ Live' = Live
  BY <1>1, <1>2, WorldStays, NothingForgotten DEF Live
<1>5. RestSound(o.row)'
  BY <1>1, <1>2, <1>3, RowsStaySound
<1>6. AtHome(o)'
  BY <1>2 DEF AtHome
<1>7. ASSUME NEW n, n.row = o.row, n.src = o.src, n.dest = o.dest, n.moved = o.moved
      PROVE  Split(n)' /\ Behind(n)' = Behind(o) /\ Lies(Behind(n), o.src)'
  <2>1. Behind(n)' = Behind(o)
    BY <1>7 DEF Behind, EpsOf
  <2>2. \A m \in o.moved : Taken(n, m)'
    <3> SUFFICES ASSUME NEW m \in o.moved PROVE Taken(n, m)'
      OBVIOUS
    <3>1. Taken(o, m)
      BY DEF Split
    <3>2. At(m[2])' = At(m[2])
      BY <1>3, <3>1 DEF Taken, Fresh, Came
    <3>3. At(m[1].path)' = {}
      BY <1>2, <3>1 DEF Taken, Ahead
    <3> QED
      BY <1>7, <3>1, <3>2, <3>3 DEF Taken, Fresh, Came, EpsOf, EpsAt
  <2>3. Split(n)'
    BY <1>7, <2>2 DEF Split
  <2>4. Lies(Behind(n), o.src)'
    BY <1>3, <2>1 DEF Lies
  <2> QED
    BY <2>1, <2>3, <2>4
<1> QED
  BY <1>4, <1>5, <1>6, <1>7

(* Without a file on its way, the row is sound where it is. *)
LEMMA AllBack ==
  ASSUME NEW o, Live' = Live, RestSound(o.row)', AtHome(o)', Lies(Behind(o), o.src)', o.moved = {}
  PROVE  AllSound'
<1>1. Behind(o)' = EpsOf(o.row)'
  BY DEF Behind
<1>2. Sound(o.row)'
  BY <1>1 DEF AtHome, Lies, Sound
<1> QED
  BY <1>2 DEF AllSound, RestSound

LEMMA MergesWell ==
  ASSUME IInv, NInv, mishap = "none", NEW x \in Actors, MergeMove(x)
  PROVE  NInv' /\ Keeps
<1>0. PICK o : o = op[x]
  OBVIOUS
<1>1. o.pc = "merge" /\ UNCHANGED <<rows, eps>>
  BY <1>0 DEF MergeMove, Reached, db
<1>2. PICK e \in o.todo :
        \/ /\ MoveDone(e.path, Target(x, e))
           /\ Becomes(x, [o EXCEPT !.pc = "unlist", !.todo = @ \ {e},
                                   !.moved = {<<e, Target(x, e)>>}])
        \/ MoveFails(e.path, Target(x, e)) /\ Over(x)
  BY <1>0 DEF MergeMove
<1>3. PICK p : p = Target(x, e)
  OBVIOUS
<1>4. \/ /\ MoveDone(e.path, p)
         /\ Becomes(x, [o EXCEPT !.pc = "unlist", !.todo = @ \ {e}, !.moved = {<<e, p>>}])
      \/ MoveFails(e.path, p) /\ Over(x)
  BY <1>2, <1>3
<1>5. /\ World /\ Fits(o) /\ RestSound(o.row) /\ o.row \in Live /\ o \in Record
  BY <1>0, <1>1, AtWork
<1>6. /\ AtHome(o) /\ Ahead(o) /\ o.to # 0 /\ o.moved = {} /\ Lies(EpsOf(o.row), o.src)
      /\ o.todo \subseteq EpsOf(o.row)
  BY <1>1, <1>5 DEF Fits, MergeFits
<1>7. Behind(o) = EpsOf(o.row) /\ Split(o)
  BY <1>6 DEF Behind, Split
<1>8. /\ e \in Behind(o) /\ p \in Paths /\ DirOf(p) = o.dest /\ NameOf(p) \in Episodes
      /\ p = e.path \/ At(p) = {}
  BY <1>0, <1>1, <1>3, <1>6, <1>7, TargetIs
<1>9. At(p) = {}
  BY <1>6, <1>7, <1>8 DEF Lies, Ahead
<1>10. ASSUME MoveDone(e.path, p),
             Becomes(x, [o EXCEPT !.pc = "unlist", !.todo = @ \ {e}, !.moved = {<<e, p>>}])
      PROVE  NInv' /\ Keeps
  <2>1. PICK n : n = [o EXCEPT !.pc = "unlist", !.todo = @ \ {e}, !.moved = {<<e, p>>}]
    OBVIOUS
  <2>2. /\ n.pc = "unlist" /\ n.to = o.to /\ n.dest = o.dest /\ n.src = o.src /\ n.row = o.row
        /\ n.todo = o.todo \ {e} /\ n.moved = o.moved \cup {<<e, p>>}
    BY <1>5, <1>6, <2>1 DEF Record
  <2>3. World' /\ RestSound(o.row)' /\ Keeps /\ AtHome(o)' /\ Live' = Live
    BY <1>0, <1>1, <1>6, <1>7, <1>8, <1>9, <1>10, GoesAhead
  <2>4. Split(n)' /\ Behind(n)' = Behind(o) \ {e} /\ Lies(Behind(n), o.src)'
    BY <1>0, <1>1, <1>6, <1>7, <1>8, <1>9, <1>10, <2>2, GoesAhead
  <2>5. Ahead(n)'
    BY <1>1, <1>6, <2>2, AheadStays
  <2>6. Fits(n)'
    BY <1>5, <1>6, <1>7, <2>2, <2>3, <2>4, <2>5
    DEF AtHome, Fits, SortFits, MergeFits, MoveFits, ListFit, RenameFits
  <2> QED
    BY <1>0, <1>1, <1>10, <2>1, <2>2, <2>3, <2>6, WorkGoesOn
<1>11. ASSUME MoveFails(e.path, p), Over(x) PROVE NInv' /\ Keeps
  <2>1. /\ World' /\ RestSound(o.row)' /\ Keeps /\ AtHome(o)' /\ Live' = Live
        /\ Lies(Behind(o), o.src)'
    BY <1>0, <1>1, <1>6, <1>7, <1>8, <1>9, <1>11, CannotGoAhead
  <2>2. AllSound'
    BY <1>6, <2>1, AllBack
  <2> QED
    BY <1>0, <1>1, <1>11, <2>1, <2>2, WorkEnds
<1> QED
  BY <1>4, <1>10, <1>11

(* A directory is cleaned up that no other row has. *)
LEMMA CleansUpWell ==
  ASSUME World, UNCHANGED <<disk, rows, eps>>, NEW row, RestSound(row), NEW d, CleanedUp(d),
         RowsAt(d) \subseteq {row}
  PROVE  World' /\ Keeps /\ Live' = Live /\ RestSound(row)' /\ \A r : r # d /\ r \in dirs => r \in dirs'
<1>1. dirs \ {d} \subseteq dirs'
  BY DEF CleanedUp
<1>2. World' /\ Keeps /\ Live' = Live
  BY WorldStays, NothingForgotten DEF NamesFit, Live
<1>3. RestSound(row)'
  <2> SUFFICES ASSUME NEW r \in Live, r # row PROVE Sound(r)'
    BY <1>2 DEF RestSound
  <2>1. Sound(r) /\ rows[r].dir # d
    BY DEF RestSound, RowsAt
  <2> QED
    BY <1>1, <2>1 DEF Sound, Lies, EpsOf, At
<1> QED
  BY <1>1, <1>2, <1>3

LEMMA FinishesWell ==
  ASSUME IInv, NInv, mishap = "none", NEW x \in Actors, MergeFinish(x)
  PROVE  NInv' /\ Keeps
<1>0. PICK o : o = op[x]
  OBVIOUS
<1>1. o.pc = "finish" /\ UNCHANGED <<disk, rows, eps>>
  BY <1>0 DEF MergeFinish, Reached, db
<1>2. /\ World /\ Fits(o) /\ RestSound(o.row) /\ o.row \in Live /\ o \in Record
  BY <1>0, <1>1, AtWork
<1>3. AtHome(o) /\ Ahead(o) /\ o.to # 0 /\ o.moved = {} /\ Lies(EpsOf(o.row), o.src)
  BY <1>1, <1>2 DEF Fits, MergeFits
<1>4. ASSUME Over(x), UNCHANGED dirs PROVE NInv' /\ Keeps
  <2>1. Sound(o.row)
    BY <1>3 DEF AtHome, Sound
  <2>2. World' /\ Keeps /\ AllSound'
    BY <1>1, <1>2, <1>4, <2>1, AllAreSound, SamePlaces
  <2> QED
    BY <1>0, <1>1, <1>4, <2>2, WorkEnds
<1>5. ASSUME Emptied(x), Goto(x, "drop"), CleanedUp(o.src) PROVE NInv' /\ Keeps
  <2>1. PICK n : n = [o EXCEPT !.pc = "drop"]
    OBVIOUS
  <2>2. n.pc = "drop" /\ n.row = o.row
    BY <1>2, <2>1 DEF Record
  <2>3. EpsOf(o.row) = {}
    BY <1>0, <1>3, <1>5 DEF Emptied, FilesIn, Lies, At
  <2>4. RowsAt(o.src) \subseteq {o.row}
    BY <1>2, <1>3 DEF World, RowsApart, RowsAt, AtHome
  <2>5. World' /\ Keeps /\ Live' = Live /\ RestSound(o.row)'
    BY <1>1, <1>2, <1>5, <2>4, CleansUpWell
  <2>6. EpsOf(o.row)' = {}
    BY <1>1, <2>3 DEF EpsOf
  <2>7. Fits(n)'
    BY <1>2, <2>2, <2>5, <2>6 DEF Fits, SortFits, MergeFits, MoveFits, ListFit, RenameFits
  <2> QED
    BY <1>0, <1>1, <1>5, <2>1, <2>2, <2>5, <2>7, WorkGoesOn DEF Goto
<1> QED
  BY <1>0, <1>4, <1>5 DEF MergeFinish

LEMMA DropsWell ==
  ASSUME IInv, NInv, mishap = "none", NEW x \in Actors, MergeDrop(x)
  PROVE  NInv' /\ Keeps
<1>0. PICK o : o = op[x]
  OBVIOUS
<1>1. /\ o.pc = "drop" /\ UNCHANGED <<disk, dirs>> /\ RowDeleted(o.row) /\ Over(x)
  BY <1>0 DEF MergeDrop, Reached, onDisk
<1>2. /\ World /\ Fits(o) /\ RestSound(o.row) /\ o.row \in Live /\ EpsOf(o.row) = {}
  BY <1>0, <1>1, AtWork DEF Fits, MergeFits
<1>3. eps' = eps /\ rows' = [rows EXCEPT ![o.row] = NoRow]
  BY <1>1, <1>2 DEF RowDeleted
<1>4. /\ Live' = Live \ {o.row} /\ \A r \in Live' : rows'[r] = rows[r]
      /\ \A r : EpsOf(r)' = EpsOf(r) /\ \A p : At(p)' = At(p)
  BY <1>3, <1>1 DEF Live, EpsOf, At, IInv, RowsFit
<1>5. World'
  BY <1>1, <1>2, <1>3, <1>4 DEF World, NamesFit, RowsApart, EpsOwned, EpsOf
<1>6. AllSound'
  BY <1>1, <1>2, <1>4 DEF AllSound, RestSound, Sound, Lies
<1> QED
  BY <1>0, <1>1, <1>3, <1>5, <1>6, WorkEnds, NothingForgotten

LEMMA RelocationBegins ==
  ASSUME IInv, NInv, mishap = "none", mishap' = "none", NEW x \in Actors, RelocateBegin(x)
  PROVE  NInv' /\ Keeps
<1>0. PICK o : o = op[x]
  OBVIOUS
<1>1. o.pc = "begin" /\ UNCHANGED <<disk, rows, eps>> /\ dirs' = dirs \cup {o.dest}
  BY <1>0 DEF RelocateBegin, Reached, db
<1>2. PICK made : Becomes(x, [o EXCEPT !.pc = "moving", !.made = made])
  BY <1>0 DEF RelocateBegin
<1>3. PICK n : n = [o EXCEPT !.pc = "moving", !.made = made]
  OBVIOUS
<1>4. /\ World /\ Fits(o) /\ RestSound(o.row) /\ o.row \in Live /\ o \in Record
  BY <1>0, <1>1, AtWork
<1>5. /\ n.pc = "moving" /\ n.to = o.to /\ n.dest = o.dest /\ n.src = o.src
      /\ n.row = o.row /\ n.todo = o.todo /\ n.moved = o.moved
  BY <1>3, <1>4 DEF Record
<1>6. /\ Sound(o.row) /\ AtHome(o) /\ o.moved = {} /\ o.to = 0 /\ InFolder(o.src, "download")
      /\ o.todo = EpsOf(o.row) /\ o.dest = <<"content", "title">>
  BY <1>1, <1>4 DEF Fits, SortFits
<1>7. RowsAt(o.dest) = {}
  <2>1. "taken" \in Mishaps \ {"none"}
    BY DEF Mishaps
  <2> QED
    BY <1>0, <2>1, NothingBefell DEF RelocateBegin
<1>8. Ahead(o)
  BY <1>6, <1>7 DEF Ahead, InFolder
<1>9. World' /\ Keeps /\ RestSound(n.row)' /\ Sound(o.row)'
  BY <1>1, <1>4, <1>5, <1>6, SamePlaces
<1>10. Ahead(n)' /\ AtHome(n)' /\ o.row \in Live'
  BY <1>1, <1>4, <1>5, <1>6, <1>8, AheadStays DEF AtHome, Live
<1>11. Behind(n)' = EpsOf(o.row) /\ Split(n)' /\ Lies(Behind(n), o.src)'
  <2>1. Behind(n)' = EpsOf(o.row)
    BY <1>1, <1>5, <1>6 DEF Behind, EpsOf
  <2>2. Split(n)'
    BY <1>5, <1>6 DEF Split
  <2>3. Lies(Behind(n), o.src)'
    BY <1>1, <1>6, <2>1 DEF Lies, Sound, AtHome, At
  <2> QED
    BY <2>1, <2>2, <2>3
<1>12. Fits(n)'
  BY <1>5, <1>6, <1>10, <1>11 DEF Fits, SortFits, MergeFits, MoveFits, ListFit, RenameFits
<1> QED
  BY <1>0, <1>1, <1>2, <1>3, <1>5, <1>9, <1>12, WorkGoesOn

LEMMA RelocationMoves ==
  ASSUME IInv, NInv, mishap = "none", NEW x \in Actors, RelocateMove(x)
  PROVE  NInv' /\ Keeps
<1>0. PICK o : o = op[x]
  OBVIOUS
<1>1. o.pc = "moving" /\ UNCHANGED <<rows, eps>>
  BY <1>0 DEF RelocateMove, Reached, db
<1>2. PICK e \in o.todo :
        \/ /\ MoveDone(e.path, Target(x, e))
           /\ Becomes(x, [o EXCEPT !.pc = IF o.todo = {e} THEN "unlist" ELSE @, !.todo = @ \ {e},
                                   !.moved = @ \cup {<<e, Target(x, e)>>}])
        \/ MoveFails(e.path, Target(x, e)) /\ Goto(x, "back")
  BY <1>0 DEF RelocateMove
<1>3. PICK p : p = Target(x, e)
  OBVIOUS
<1>4. /\ World /\ Fits(o) /\ RestSound(o.row) /\ o.row \in Live /\ o \in Record
  BY <1>0, <1>1, AtWork
<1>5. /\ AtHome(o) /\ Ahead(o) /\ o.to = 0 /\ Split(o) /\ Lies(Behind(o), o.src)
      /\ o.todo = Behind(o)
  BY <1>1, <1>4 DEF Fits, MoveFits
<1>6. /\ e \in Behind(o) /\ p \in Paths /\ DirOf(p) = o.dest /\ NameOf(p) \in Episodes
      /\ p = e.path \/ At(p) = {}
  BY <1>0, <1>1, <1>2, <1>3, <1>5, TargetIs
<1>7. At(p) = {}
  BY <1>5, <1>6 DEF Lies, Ahead
<1>8. ASSUME MoveDone(e.path, p),
             Becomes(x, [o EXCEPT !.pc = IF o.todo = {e} THEN "unlist" ELSE @, !.todo = @ \ {e},
                                  !.moved = @ \cup {<<e, p>>}])
      PROVE  NInv' /\ Keeps
  <2>1. PICK n : n = [o EXCEPT !.pc = IF o.todo = {e} THEN "unlist" ELSE @, !.todo = @ \ {e},
                               !.moved = @ \cup {<<e, p>>}]
    OBVIOUS
  <2>2. /\ n.to = o.to /\ n.dest = o.dest /\ n.src = o.src /\ n.row = o.row
        /\ n.todo = o.todo \ {e} /\ n.moved = o.moved \cup {<<e, p>>}
        /\ n.pc = IF o.todo = {e} THEN "unlist" ELSE "moving"
    BY <1>1, <1>4, <2>1 DEF Record
  <2>3. World' /\ RestSound(o.row)' /\ Keeps /\ AtHome(o)' /\ Live' = Live
    BY <1>0, <1>1, <1>5, <1>6, <1>7, <1>8, GoesAhead
  <2>4. Split(n)' /\ Behind(n)' = Behind(o) \ {e} /\ Lies(Behind(n), o.src)'
    BY <1>0, <1>1, <1>5, <1>6, <1>7, <1>8, <2>2, GoesAhead
  <2>5. Ahead(n)'
    BY <1>1, <1>5, <2>2, AheadStays
  <2>6. o.dest \in dirs'
    BY <1>6, <1>8 DEF MoveDone
  <2>7. CASE o.todo = {e}
    <3>1. Behind(n)' = {}
      BY <1>5, <2>4, <2>7
    <3>2. Lies(Behind(n), n.dest)'
      BY <3>1 DEF Lies
    <3>3. n.pc = "unlist" /\ n.to = 0 /\ n.row \in Live' /\ (rows[n.row].dir = n.src)'
      BY <1>4, <1>5, <2>2, <2>3, <2>7 DEF AtHome
    <3>4. ListFit(n)'
      BY <2>2, <2>4, <2>5, <2>6, <3>2, <3>3 DEF ListFit
    <3>5. Fits(n)'
      BY <3>3, <3>4 DEF Fits, SortFits, MergeFits, MoveFits, RenameFits
    <3> QED
      BY <1>0, <1>1, <1>8, <2>1, <2>2, <2>3, <3>3, <3>5, WorkGoesOn
  <2>8. CASE o.todo # {e}
    <3>1. Fits(n)'
      BY <1>4, <1>5, <2>2, <2>3, <2>4, <2>5, <2>8
      DEF AtHome, Fits, SortFits, MergeFits, MoveFits, ListFit, RenameFits
    <3> QED
      BY <1>0, <1>1, <1>8, <2>1, <2>2, <2>3, <2>8, <3>1, WorkGoesOn
  <2> QED
    BY <2>7, <2>8
<1>9. ASSUME MoveFails(e.path, p), Goto(x, "back") PROVE NInv' /\ Keeps
  <2>1. PICK n : n = [o EXCEPT !.pc = "back"]
    OBVIOUS
  <2>2. /\ n.to = o.to /\ n.dest = o.dest /\ n.src = o.src /\ n.row = o.row
        /\ n.moved = o.moved /\ n.pc = "back"
    BY <1>4, <2>1 DEF Record
  <2>3. World' /\ RestSound(o.row)' /\ Keeps /\ AtHome(o)' /\ Live' = Live
    BY <1>0, <1>1, <1>5, <1>6, <1>7, <1>9, CannotGoAhead
  <2>4. Split(n)' /\ Lies(Behind(n), o.src)'
    BY <1>0, <1>1, <1>5, <1>6, <1>7, <1>9, <2>2, CannotGoAhead
  <2>5. Ahead(n)'
    BY <1>1, <1>5, <2>2, AheadStays
  <2>6. Fits(n)'
    BY <1>4, <1>5, <2>2, <2>3, <2>4, <2>5
    DEF AtHome, Fits, SortFits, MergeFits, MoveFits, ListFit, RenameFits
  <2> QED
    BY <1>0, <1>1, <1>9, <2>1, <2>2, <2>3, <2>6, WorkGoesOn DEF Goto
<1> QED
  BY <1>2, <1>3, <1>8, <1>9

LEMMA GoingBackGoesWell ==
  ASSUME IInv, NInv, mishap = "none", mishap' = "none", NEW x \in Actors, RelocateBack(x)
  PROVE  NInv' /\ Keeps
<1>0. PICK o : o = op[x]
  OBVIOUS
<1>1. o.pc = "back" /\ UNCHANGED <<rows, eps>>
  BY <1>0 DEF RelocateBack, Reached, db
<1>2. /\ World /\ Fits(o) /\ RestSound(o.row) /\ o.row \in Live /\ o \in Record
      /\ \A f \in eps : f.row # o.row => DirOf(f.path) = rows[f.row].dir /\ At(f.path) # {}
  BY <1>0, <1>1, AtWork
<1>3. AtHome(o) /\ Ahead(o) /\ o.to = 0 /\ Split(o) /\ Lies(Behind(o), o.src)
  BY <1>1, <1>2 DEF Fits, MoveFits
<1>4. ASSUME NEW m \in o.moved, Becomes(x, [o EXCEPT !.moved = @ \ {m}]),
             MoveDone(m[2], FreePath(m[1].path, m[2], {}))
      PROVE  NInv' /\ Keeps
  <2>1. PICK p : p = m[1].path
    OBVIOUS
  <2>2. /\ m[1] \in EpsOf(o.row) /\ m[1] \in eps /\ DirOf(p) = o.src /\ At(p) = {}
        /\ DirOf(m[2]) = o.dest /\ EpsAt(m[2]) = {} /\ Came(p, m[2]) /\ p # m[2]
    BY <1>3, <2>1 DEF Split, Taken, Fresh, EpsOf, Ahead
  <2>3. p \in Paths /\ FreePath(p, m[2], {}) = p
    <3>1. p \in Paths
      BY <2>1, <2>2 DEF IInv, EpsFit, Ep
    <3>2. IsFiniteSet(disk) /\ IsFiniteSet({})
      BY FS_EmptySet DEF IInv, DiskFits
    <3> QED
      BY <2>2, <3>1, <3>2, FreePathIsFree
  <2>4. MoveDone(m[2], p)
    BY <1>4, <2>1, <2>3
  <2>5. /\ At(m[2])' = {} /\ At(p)' # {} /\ dirs' = dirs \cup {o.src} /\ NamesFit'
        /\ \A q : q # p /\ q # m[2] => At(q)' = At(q)
    BY <1>2, <2>2, <2>3, <2>4, DoneMove DEF IInv, World
  <2>6. World' /\ Keeps /\ Live' = Live
    BY <1>1, <1>2, <2>5, WorldStays, NothingForgotten DEF Live
  <2>7. RestSound(o.row)'
    <3>1. \A f \in eps : f.path # m[2]
      BY <2>2 DEF EpsAt
    <3>2. \A f \in eps : f.row # o.row /\ At(f.path) # {} => At(f.path)' # {}
      BY <2>2, <2>5, <3>1
    <3> QED
      BY <1>1, <1>2, <2>5, <3>2, RowsStaySound
  <2>8. PICK n : n = [o EXCEPT !.moved = @ \ {m}]
    OBVIOUS
  <2>9. /\ n.to = o.to /\ n.dest = o.dest /\ n.src = o.src /\ n.row = o.row
        /\ n.moved = o.moved \ {m} /\ n.pc = "back"
    BY <1>1, <1>2, <2>8 DEF Record
  <2>10. \A k \in o.moved \ {m} : k[1] # m[1] /\ k[2] # m[2] /\ k[1].path # p /\ Taken(o, k)
    <3>1. \A k \in o.moved \ {m} : k[1] # m[1] /\ k[2] # m[2] /\ Taken(o, k) /\ k[1] \in eps
      BY <1>3 DEF Split, Taken, EpsOf
    <3> QED
      BY <2>1, <2>2, <3>1 DEF IInv, EpsFit
  <2>11. Split(n)'
    <3>1. \A k \in n.moved : Taken(n, k)'
      <4> SUFFICES ASSUME NEW k \in n.moved PROVE Taken(n, k)'
        OBVIOUS
      <4>1. k[1].path # p /\ k[2] # m[2] /\ Taken(o, k)
        BY <2>9, <2>10
      <4>2. k[1].path # m[2] /\ k[2] # p
        BY <1>3, <2>2, <4>1 DEF Taken, Fresh, Ahead
      <4>3. At(k[1].path)' = At(k[1].path) /\ At(k[2])' = At(k[2])
        BY <2>5, <4>1, <4>2
      <4> QED
        BY <1>1, <2>9, <4>1, <4>3 DEF Taken, Fresh, Came, EpsOf, EpsAt
    <3> QED
      BY <1>3, <2>9, <3>1 DEF Split
  <2>12. Lies(Behind(n), o.src)'
    <3> SUFFICES ASSUME NEW f \in Behind(n)' PROVE DirOf(f.path) = o.src /\ At(f.path)' # {}
      BY DEF Lies
    <3>1. f \in eps /\ f \in EpsOf(o.row) /\ \A k \in o.moved \ {m} : k[1] # f
      BY <1>1, <2>9 DEF Behind, EpsOf
    <3>2. CASE f = m[1]
      BY <2>1, <2>2, <2>5, <3>2
    <3>3. CASE f # m[1]
      <4>1. f \in Behind(o) /\ f.path # m[2]
        BY <2>2, <3>1, <3>3 DEF Behind, EpsAt
      <4>2. f.path # p
        BY <2>1, <2>2, <3>1, <3>3 DEF IInv, EpsFit
      <4> QED
        BY <1>3, <2>5, <4>1, <4>2 DEF Lies
    <3> QED
      BY <3>2, <3>3
  <2>13. Ahead(n)' /\ AtHome(n)'
    BY <1>1, <1>3, <2>5, <2>9, AheadStays DEF AtHome
  <2>14. Fits(n)'
    BY <1>2, <1>3, <2>6, <2>9, <2>11, <2>12, <2>13
    DEF Fits, SortFits, MergeFits, MoveFits, ListFit, RenameFits
  <2> QED
    BY <1>0, <1>1, <1>4, <2>6, <2>7, <2>8, <2>9, <2>14, WorkGoesOn
<1>5. ASSUME o.moved = {}, CleanedUp(o.dest) \/ UNCHANGED dirs, Over(x), UNCHANGED disk
      PROVE  NInv' /\ Keeps
  <2>1. RowsAt(o.dest) \subseteq {o.row} /\ o.dest # o.src
    BY <1>3 DEF Ahead
  <2>2. CASE CleanedUp(o.dest)
    <3>1. World' /\ Keeps /\ Live' = Live /\ RestSound(o.row)' /\ o.src \in dirs'
      BY <1>1, <1>2, <1>3, <1>5, <2>1, <2>2, CleansUpWell DEF AtHome
    <3>2. Lies(Behind(o), o.src)' /\ AtHome(o)'
      BY <1>1, <1>3, <1>5, <3>1 DEF Lies, Behind, EpsOf, At, AtHome
    <3> QED
      BY <1>0, <1>1, <1>5, <3>1, <3>2, AllBack, WorkEnds
  <2>3. CASE UNCHANGED dirs
    <3>1. World' /\ Keeps /\ Live' = Live /\ RestSound(o.row)'
      BY <1>1, <1>2, <1>5, <2>3, SamePlaces DEF Live
    <3>2. Lies(Behind(o), o.src)' /\ AtHome(o)'
      BY <1>1, <1>3, <1>5, <2>3 DEF Lies, Behind, EpsOf, At, AtHome
    <3> QED
      BY <1>0, <1>1, <1>5, <3>1, <3>2, AllBack, WorkEnds
  <2> QED
    BY <1>5, <2>2, <2>3
<1>6. ~Befalls("stuck")
  <2>1. "stuck" \in Mishaps \ {"none"}
    BY DEF Mishaps
  <2> QED
    BY <2>1, NothingBefell
<1> QED
  BY <1>0, <1>4, <1>5, <1>6 DEF RelocateBack, GoesBack

LEMMA LeftoversGoWell ==
  ASSUME IInv, NInv, mishap = "none", NEW x \in Actors, RelocateLeftover(x)
  PROVE  NInv' /\ Keeps
<1>0. PICK o : o = op[x]
  OBVIOUS
<1>1. o.pc = "leftover" /\ UNCHANGED <<rows, eps>>
  BY <1>0 DEF RelocateLeftover, Reached, db
<1>2. /\ World /\ Fits(o) /\ RestSound(o.row) /\ o.row \in Live /\ o \in Record
      /\ \A f \in eps : f.row # o.row =>
           f.row \in Live /\ DirOf(f.path) = rows[f.row].dir /\ At(f.path) # {}
  BY <1>0, <1>1, AtWork
<1>3. /\ rows[o.row].dir = o.src /\ Ahead(o) /\ o.to = 0
      /\ o.dest \in dirs /\ Lies(EpsOf(o.row), o.dest)
  BY <1>1, <1>2 DEF Fits, MoveFits
<1>4. ASSUME NEW n, n.pc \in {"leftover", "commit"}, n.row = o.row, n.src = o.src, n.dest = o.dest,
             n.to = o.to, Becomes(x, n), NamesFit', dirs \subseteq dirs',
             \A f \in eps : At(f.path)' # {}
      PROVE  NInv' /\ Keeps
  <2>1. World' /\ Keeps /\ o.row \in Live'
    BY <1>1, <1>2, <1>4, WorldStays, NothingForgotten DEF Live
  <2>2. RestSound(n.row)'
    BY <1>1, <1>2, <1>4, RowsStaySound
  <2>3. Ahead(n)'
    BY <1>1, <1>3, <1>4, AheadStays
  <2>4. Lies(EpsOf(n.row), n.dest)'
    BY <1>1, <1>3, <1>4 DEF Lies, EpsOf
  <2>5. MoveFits(n)'
    BY <1>1, <1>3, <1>4, <2>3, <2>4 DEF MoveFits
  <2>6. Fits(n)'
    BY <1>4, <2>1, <2>5 DEF Fits, SortFits, MergeFits, ListFit, RenameFits
  <2>7. n.pc # "idle"
    BY <1>4
  <2> QED
    BY <1>0, <1>1, <1>4, <2>1, <2>2, <2>6, <2>7, WorkGoesOn
<1>5. \A f \in eps : At(f.path) # {} /\ DirOf(f.path) # o.src
  <2> SUFFICES ASSUME NEW f \in eps PROVE At(f.path) # {} /\ DirOf(f.path) # o.src
    OBVIOUS
  <2>1. CASE f.row = o.row
    BY <1>3, <2>1 DEF Lies, EpsOf, Ahead
  <2>2. CASE f.row # o.row
    BY <1>2, <1>3, <2>2 DEF World, RowsApart
  <2> QED
    BY <2>1, <2>2
<1>6. ASSUME NEW c \in Leftover(x), NEW n, n.pc = "leftover", n.row = o.row, n.src = o.src,
             n.dest = o.dest, n.to = o.to, Becomes(x, n), Moved(c.path, NewPlace(x, c))
      PROVE  NInv' /\ Keeps
  <2>1. PICK p : p = NewPlace(x, c)
    OBVIOUS
  <2>2. /\ c \in disk /\ c.path \in Paths /\ p \in Paths /\ DirOf(c.path) = o.src
        /\ p = c.path \/ At(p) = {}
    BY <1>0, <1>1, <2>1, LeftoverFits DEF Leftover, FilesIn
  <2>3. DirOf(p) = o.dest /\ NameOf(p) = NameOf(c.path)
    <3>1. o.dest \in Dirs
      BY <1>0, <1>1, OperationOf DEF Planned
    <3>2. <<o.dest, c.path[2]>> \in Paths
      <4>1. c.path[2] \in (Videos \cup Episodes) \X (Nat \ {0})
        BY <2>2 DEF Paths
      <4> QED
        BY <3>1, <4>1 DEF Paths
    <3>3. DirOf(<<o.dest, c.path[2]>>) = o.dest /\ NameOf(<<o.dest, c.path[2]>>) = NameOf(c.path)
      BY DEF DirOf, NameOf
    <3>4. IsFiniteSet(disk) /\ IsFiniteSet({})
      BY FS_EmptySet DEF IInv, DiskFits
    <3> QED
      BY <1>0, <2>1, <3>2, <3>3, <3>4, FreePathIsFree DEF NewPlace
  <2>4. p # c.path /\ At(p) = {}
    BY <1>3, <2>2, <2>3 DEF Ahead
  <2>5. NamesFit' /\ dirs \subseteq dirs' /\ \A q : q # p /\ q # c.path => At(q)' = At(q)
    <3>1. CASE MoveDone(c.path, p)
      BY <1>2, <2>2, <2>3, <2>4, <3>1, DoneMove DEF IInv, World
    <3>2. CASE MoveFails(c.path, p)
      BY <1>2, <2>2, <2>3, <2>4, <3>2, FailedMoveLeaves DEF IInv, World
    <3> QED
      BY <1>6, <2>1, <3>1, <3>2 DEF Moved
  <2>6. \A f \in eps : At(f.path)' # {}
    BY <1>5, <2>2, <2>4, <2>5
  <2> QED
    BY <1>4, <1>6, <2>5, <2>6
<1>7. ASSUME NEW c \in Leftover(x), MoveDone(c.path, NewPlace(x, c)), UNCHANGED op
      PROVE  NInv' /\ Keeps
  <2>1. Becomes(x, o)
    BY <1>0, <1>7 DEF Becomes, IInv
  <2> QED
    BY <1>1, <1>6, <1>7, <2>1 DEF Moved
<1>8. ASSUME NEW c \in Leftover(x), MoveFails(c.path, NewPlace(x, c)),
             Becomes(x, [o EXCEPT !.kept = @ \cup {c.path}])
      PROVE  NInv' /\ Keeps
  <2>1. PICK n : n = [o EXCEPT !.kept = @ \cup {c.path}]
    OBVIOUS
  <2>2. /\ n.pc = "leftover" /\ n.row = o.row /\ n.src = o.src /\ n.dest = o.dest /\ n.to = o.to
    BY <1>1, <1>2, <2>1 DEF Record
  <2> QED
    BY <1>6, <1>8, <2>1, <2>2 DEF Moved
<1>9. ASSUME Goto(x, "commit"), UNCHANGED onDisk PROVE NInv' /\ Keeps
  <2>1. PICK n : n = [o EXCEPT !.pc = "commit"]
    OBVIOUS
  <2>2. /\ n.pc = "commit" /\ n.row = o.row /\ n.src = o.src /\ n.dest = o.dest /\ n.to = o.to
    BY <1>2, <2>1 DEF Record
  <2>3. NamesFit' /\ dirs \subseteq dirs' /\ \A f \in eps : At(f.path)' # {}
    BY <1>2, <1>5, <1>9 DEF World, NamesFit, At, onDisk
  <2>4. Becomes(x, n) /\ n.pc \in {"leftover", "commit"}
    BY <1>0, <1>9, <2>1, <2>2 DEF Goto
  <2> QED
    BY <1>4, <2>2, <2>3, <2>4
<1> QED
  BY <1>0, <1>7, <1>8, <1>9 DEF RelocateLeftover

(* The row of an anime that has moved follows it. *)
LEMMA RowFollows ==
  ASSUME IInv, NEW r \in Live, NEW d \in Dirs, RowsAt(d) = {}, rows' = [rows EXCEPT ![r].dir = d]
  PROVE  /\ Live' = Live /\ rows'[r].dir = d
         /\ \A s : s # r => rows'[s] = rows[s]
         /\ RowsApart => RowsApart'
<1>1. rows[r] \in [dir : Dirs, known : BOOLEAN] /\ rows \in [Ids -> Row] /\ r \in Ids
  BY DEF IInv, RowsFit, Row, Live
<1>2. PICK q : q = [rows[r] EXCEPT !.dir = d]
  OBVIOUS
<1>3. q.dir = d /\ rows' = [rows EXCEPT ![r] = q]
  BY <1>1, <1>2
<1>4. rows'[r].dir = d /\ \A s : s # r => rows'[s] = rows[s]
  BY <1>1, <1>3
<1>5. NoDir \notin Dirs
  BY DEF NoDir, Dirs
<1>6. rows'[r] # NoRow
  BY <1>4, <1>5 DEF NoRow
<1>7. Live' = Live
  BY <1>4, <1>6 DEF Live
<1>8. RowsApart => RowsApart'
  BY <1>4, <1>7 DEF RowsApart, RowsAt
<1> QED
  BY <1>4, <1>7, <1>8

LEMMA RelocationCommits ==
  ASSUME IInv, NInv, mishap = "none", NEW x \in Actors, RelocateCommit(x)
  PROVE  NInv' /\ Keeps
<1>0. PICK o : o = op[x]
  OBVIOUS
<1>1. o.pc = "commit" /\ UNCHANGED <<disk, eps>> /\ Over(x)
  BY <1>0 DEF RelocateCommit, Reached
<1>2. /\ World /\ Fits(o) /\ RestSound(o.row) /\ o.row \in Live /\ o.dest \in Dirs
  BY <1>0, <1>1, AtWork, OperationOf DEF Planned
<1>3. /\ rows[o.row].dir = o.src /\ Ahead(o) /\ o.to = 0
      /\ o.dest \in dirs /\ Lies(EpsOf(o.row), o.dest)
  BY <1>1, <1>2 DEF Fits, MoveFits
<1>4. RowsAt(o.dest) = {} /\ o.dest # o.src
  BY <1>3 DEF Ahead
<1>5. rows' = [rows EXCEPT ![o.row].dir = o.dest] /\ CleanedUp(o.src)
  BY <1>0, <1>2, <1>4 DEF RelocateCommit
<1>6. /\ Live' = Live /\ rows'[o.row].dir = o.dest /\ RowsApart'
      /\ \A s : s # o.row => rows'[s] = rows[s]
  BY <1>2, <1>4, <1>5, RowFollows DEF World
<1>7. dirs \ {o.src} \subseteq dirs'
  BY <1>5 DEF CleanedUp
<1>8. /\ World' /\ Keeps
  BY <1>1, <1>2, <1>6, NothingForgotten DEF World, NamesFit, EpsOwned
<1>9. AllSound'
  <2> SUFFICES ASSUME NEW r \in Live PROVE Sound(r)'
    BY <1>6 DEF AllSound
  <2>1. CASE r = o.row
    BY <1>1, <1>3, <1>4, <1>6, <1>7, <2>1 DEF Sound, Lies, EpsOf, At
  <2>2. CASE r # o.row
    <3>1. Sound(r) /\ rows[r].dir # o.src
      BY <1>2, <1>3, <2>2 DEF RestSound, World, RowsApart
    <3> QED
      BY <1>1, <1>6, <1>7, <2>2, <3>1 DEF Sound, Lies, EpsOf, At
  <2> QED
    BY <2>1, <2>2
<1> QED
  BY <1>0, <1>1, <1>8, <1>9, WorkEnds

(* The files to rename are known, or there is none. *)
LEMMA ToFilesGoesWell ==
  ASSUME IInv, NInv, mishap = "none", NEW x \in Actors, NEW o \in Record, o = op[x],
         o.pc # "idle", o.moved = {}, NEW es, ToFiles(x, es),
         World', RestSound(o.row)', o.row \in Live', Sound(o.row)', EpsOf(o.row)' = es
  PROVE  NInv'
<1>1. CASE Over(x)
  <2>1. AllSound'
    BY DEF AllSound, RestSound
  <2> QED
    BY <1>1, <2>1, WorkEnds
<1>2. CASE ~Over(x)
  <2>1. PICK n : n = [o EXCEPT !.pc = "files", !.todo = Misnamed(es),
                               !.kept = {e.path : e \in es \ Misnamed(es)}]
    OBVIOUS
  <2>2. Becomes(x, n)
    BY <1>2, <2>1 DEF ToFiles
  <2>3. n.pc = "files" /\ n.row = o.row /\ n.moved = {} /\ n.todo = Misnamed(es)
    BY <2>1 DEF Record
  <2>4. Behind(n)' = es
    BY <2>3 DEF Behind
  <2>5. Renaming(n)'
    BY <2>3, <2>4 DEF Renaming, Sound, Lies
  <2>6. n.todo \subseteq es
    BY <2>3 DEF Misnamed, Matched
  <2>7. Fits(n)'
    BY <2>3, <2>4, <2>5, <2>6 DEF Fits, SortFits, MergeFits, MoveFits, ListFit, RenameFits
  <2> QED
    BY <2>2, <2>3, <2>7, WorkGoesOn
<1> QED
  BY <1>1, <1>2

(* A directory gets a new name: what is in it, and what is elsewhere. *)
LEMMA DirMoves ==
  ASSUME IInv, NEW src \in Dirs, NEW to \in Dirs, src # to, to \notin dirs,
         disk' = (disk \ FilesIn(src)) \cup Rebased(FilesIn(src), to)
  PROVE  /\ \A p : DirOf(p) = src => At(p)' = {}
         /\ \A p : DirOf(p) \notin {src, to} => At(p)' = At(p)
         /\ NamesFit => NamesFit'
         /\ NamesFit => \A p : DirOf(p) = src /\ At(p) # {} => Came(p, <<to, p[2]>>)'
<1>1. \A c \in disk : c \in Copies
  BY DEF IInv, DiskFits
<1>2. ASSUME NEW c \in FilesIn(src)
      PROVE  \E k \in disk' : k.path = <<to, c.path[2]>> /\ k.video = c.video
  <2>1. PICK k : k = [c EXCEPT !.path = <<to, c.path[2]>>]
    OBVIOUS
  <2>2. k \in disk'
    BY <1>2, <2>1 DEF Rebased
  <2>3. k.path = <<to, c.path[2]>> /\ k.video = c.video
    BY <1>1, <1>2, <2>1 DEF FilesIn, Copies
  <2> QED
    BY <2>2, <2>3
<1>3. ASSUME NEW k \in disk' PROVE \/ k \in disk /\ DirOf(k.path) # src
                                   \/ DirOf(k.path) = to /\ \E c \in disk :
                                        k.path = <<to, c.path[2]>> /\ k.video = c.video
  <2>1. CASE k \in disk \ FilesIn(src)
    BY <2>1 DEF FilesIn
  <2>2. CASE k \in Rebased(FilesIn(src), to)
    <3>1. PICK c \in disk : k = [c EXCEPT !.path = <<to, c.path[2]>>]
      BY <2>2 DEF Rebased, FilesIn
    <3>2. k.path = <<to, c.path[2]>> /\ k.video = c.video
      BY <1>1, <3>1 DEF Copies
    <3> QED
      BY <3>2 DEF DirOf
  <2> QED
    BY <2>1, <2>2
<1>4. \A p : DirOf(p) = src => At(p)' = {}
  BY <1>3 DEF At
<1>5. ASSUME NEW p, DirOf(p) \notin {src, to} PROVE At(p)' = At(p)
  <2>1. At(p)' \subseteq At(p)
    BY <1>3, <1>5 DEF At
  <2>2. At(p) \subseteq At(p)'
    BY <1>5 DEF At, FilesIn
  <2> QED
    BY <2>1, <2>2
<1>6. NamesFit => NamesFit'
  <2> SUFFICES ASSUME NamesFit, NEW k \in disk', NameOf(k.path) \in Videos
               PROVE  k.video = NameOf(k.path)
    BY DEF NamesFit
  <2>1. CASE k \in disk
    BY <2>1 DEF NamesFit
  <2>2. CASE k \notin disk
    <3>1. PICK c \in disk : k.path = <<to, c.path[2]>> /\ k.video = c.video
      BY <1>3, <2>2
    <3>2. NameOf(k.path) = NameOf(c.path)
      BY <3>1 DEF NameOf
    <3> QED
      BY <3>1, <3>2 DEF NamesFit
  <2> QED
    BY <2>1, <2>2
<1>7. ASSUME NamesFit, NEW p, DirOf(p) = src, At(p) # {} PROVE Came(p, <<to, p[2]>>)'
  <2>1. PICK c \in disk : c.path = p
    BY <1>7 DEF At
  <2>2. PICK k \in disk' : k.path = <<to, p[2]>> /\ k.video = c.video
    BY <1>2, <1>7, <2>1 DEF FilesIn
  <2> QED
    BY <1>7, <2>1, <2>2 DEF Came, At, NamesFit
<1> QED
  BY <1>4, <1>5, <1>6, <1>7

LEMMA DirIsRenamedWell ==
  ASSUME IInv, NInv, mishap = "none", NEW x \in Actors, RenameDir(x)
  PROVE  NInv' /\ Keeps
<1>0. PICK o : o = op[x]
  OBVIOUS
<1>1. o.pc = "dir" /\ UNCHANGED <<rows, eps>>
  BY <1>0 DEF RenameDir, Reached, db
<1>2. /\ World /\ Fits(o) /\ RestSound(o.row) /\ o.row \in Live /\ o \in Record
  BY <1>0, <1>1, AtWork
<1>3. /\ Sound(o.row) /\ AtHome(o) /\ o.to = 0 /\ o.todo = EpsOf(o.row)
      /\ o.src \in Dirs /\ o.dest \in Dirs /\ o.moved = {}
  BY <1>0, <1>1, <1>2, OperationOf DEF Fits, RenameFits, Planned
<1>4. Live' = Live /\ EpsOf(o.row)' = EpsOf(o.row) /\ Keeps
  BY <1>1, NothingForgotten DEF Live, EpsOf
<1>5. ASSUME UNCHANGED <<disk, dirs>>, Over(x) \/ ToFiles(x, o.todo) PROVE NInv' /\ Keeps
  <2>1. World' /\ AllSound' /\ RestSound(o.row)' /\ Sound(o.row)'
    BY <1>1, <1>2, <1>3, <1>5, SamePlaces, AllAreSound
  <2>2. CASE Over(x)
    BY <1>0, <1>1, <1>4, <2>1, <2>2, WorkEnds
  <2>3. CASE ToFiles(x, o.todo)
    <3>1. o.pc # "idle" /\ o.row \in Live' /\ EpsOf(o.row)' = o.todo
      BY <1>1, <1>2, <1>3, <1>4
    <3> QED
      BY <1>0, <1>2, <1>3, <1>4, <2>1, <2>3, <3>1, ToFilesGoesWell
  <2> QED
    BY <1>5, <2>2, <2>3
<1>6. ASSUME o.src # o.dest, o.dest \notin dirs, dirs' = (dirs \ {o.src}) \cup {o.dest},
             disk' = (disk \ FilesIn(o.src)) \cup Rebased(FilesIn(o.src), o.dest),
             IF \E e \in o.todo : DirOf(e.path) # o.src THEN Over(x) ELSE Goto(x, "paths")
      PROVE  NInv' /\ Keeps
  <2>1. \A e \in o.todo : DirOf(e.path) = o.src /\ At(e.path) # {}
    BY <1>3 DEF Sound, AtHome, Lies
  <2>2. /\ \A p : DirOf(p) = o.src => At(p)' = {}
        /\ \A p : DirOf(p) \notin {o.src, o.dest} => At(p)' = At(p)
        /\ NamesFit'
        /\ \A p : DirOf(p) = o.src /\ At(p) # {} => Came(p, <<o.dest, p[2]>>)'
    BY <1>2, <1>3, <1>6, DirMoves DEF World
  <2>3. World'
    BY <1>1, <1>2, <2>2, WorldStays
  <2>4. \A s \in Live : rows[s].dir # o.dest /\ (s # o.row => rows[s].dir # o.src)
    BY <1>2, <1>3, <1>6 DEF RestSound, Sound, AtHome, World, RowsApart
  <2>5. RestSound(o.row)'
    <3> SUFFICES ASSUME NEW s \in Live, s # o.row PROVE Sound(s)'
      BY <1>4 DEF RestSound
    <3>1. Sound(s) /\ rows[s].dir \notin {o.src, o.dest}
      BY <1>2, <2>4 DEF RestSound
    <3> QED
      BY <1>1, <1>6, <2>2, <3>1 DEF Sound, Lies, EpsOf
  <2>6. PICK n : n = [o EXCEPT !.pc = "paths"]
    OBVIOUS
  <2>7. /\ n.pc = "paths" /\ n.row = o.row /\ n.src = o.src /\ n.dest = o.dest /\ n.to = o.to
        /\ n.todo = o.todo
    BY <1>2, <2>6 DEF Record
  <2>8. RowsAt(o.dest)' = {}
    BY <1>1, <1>4, <2>4 DEF RowsAt
  <2>9. Halfway(n)'
    BY <1>1, <1>3, <1>4, <1>6, <2>1, <2>2, <2>7, <2>8 DEF Halfway, AtHome
  <2>10. Fits(n)'
    BY <1>2, <1>3, <1>4, <2>7, <2>9 DEF Fits, SortFits, MergeFits, MoveFits, ListFit, RenameFits
  <2>11. Becomes(x, n)
    BY <1>0, <1>6, <2>1, <2>6 DEF Goto
  <2> QED
    BY <1>0, <1>1, <1>4, <2>3, <2>5, <2>7, <2>10, <2>11, WorkGoesOn
<1> QED
  BY <1>0, <1>5, <1>6 DEF RenameDir, onDisk

LEMMA PathsFollowWell ==
  ASSUME IInv, NInv, mishap = "none", NEW x \in Actors, RenamePaths(x)
  PROVE  NInv' /\ Keeps
<1>0. PICK o : o = op[x]
  OBVIOUS
<1>1. o.pc = "paths" /\ UNCHANGED <<disk, dirs>>
  BY <1>0 DEF RenamePaths, Reached, onDisk
<1>2. /\ World /\ Fits(o) /\ RestSound(o.row) /\ o.row \in Live /\ o \in Record
      /\ \A f \in eps : f \in Ep /\ (f.row # o.row =>
           f.row \in Live /\ DirOf(f.path) = rows[f.row].dir /\ At(f.path) # {})
  BY <1>0, <1>1, AtWork
<1>3. /\ o.todo = EpsOf(o.row) /\ o.dest # o.src /\ RowsAt(o.dest) = {}
      /\ o.dest \in dirs /\ rows[o.row].dir = o.src
      /\ \A e \in o.todo : At(e.path) = {} /\ Came(e.path, <<o.dest, e.path[2]>>)
  BY <1>1, <1>2 DEF Fits, RenameFits, Halfway
<1>4. o.moved = {} /\ o.dest \in Dirs /\ \A e \in o.todo : DirOf(e.path) = o.src
  BY <1>0, <1>1, OperationOf DEF Planned, SetAside
<1>5. PICK new : new = Rebased(o.todo, o.dest)
  OBVIOUS
<1>6. /\ \A k \in new : k.row = o.row /\ \E e \in o.todo : k.path = <<o.dest, e.path[2]>>
      /\ \A k \in new : DirOf(k.path) = o.dest /\ At(k.path) # {}
  <2>1. \A e \in o.todo : e \in Ep /\ e.row = o.row
    BY <1>2, <1>3 DEF EpsOf
  <2>2. ASSUME NEW k \in new
        PROVE  k.row = o.row /\ \E e \in o.todo : k.path = <<o.dest, e.path[2]>>
    <3>1. PICK e \in o.todo : k = [e EXCEPT !.path = <<o.dest, e.path[2]>>]
      BY <1>5, <2>2 DEF Rebased
    <3> QED
      BY <2>1, <3>1 DEF Ep
  <2>3. \A k \in new : DirOf(k.path) = o.dest
    BY <2>2 DEF DirOf
  <2>4. \A k \in new : At(k.path) # {}
    BY <1>3, <2>2 DEF Came
  <2> QED
    BY <2>2, <2>3, <2>4
<1>7. \A f \in eps : DirOf(f.path) # o.dest
  <2> SUFFICES ASSUME NEW f \in eps, DirOf(f.path) = o.dest PROVE FALSE
    OBVIOUS
  <2>1. f.row = o.row
    BY <1>2, <1>3 DEF RowsAt
  <2> QED
    BY <1>3, <1>4, <2>1 DEF EpsOf
<1>8. /\ rows' = [rows EXCEPT ![o.row].dir = o.dest]
      /\ eps' = (eps \ o.todo) \cup new /\ ToFiles(x, new)
  <2>1. o.todo \subseteq eps /\ \A e \in new : EpsAt(e.path) = {}
    BY <1>3, <1>6, <1>7 DEF EpsOf, EpsAt
  <2> QED
    BY <1>0, <1>2, <1>3, <1>5, <2>1 DEF RenamePaths
<1>9. /\ Live' = Live /\ rows'[o.row].dir = o.dest /\ RowsApart'
      /\ \A s : s # o.row => rows'[s] = rows[s]
  BY <1>2, <1>3, <1>4, <1>8, RowFollows DEF World
<1>10. EpsOf(o.row)' = new /\ \A s : s # o.row => EpsOf(s)' = EpsOf(s)
  BY <1>3, <1>6, <1>8 DEF EpsOf
<1>11. World'
  BY <1>1, <1>2, <1>6, <1>8, <1>9 DEF World, NamesFit, EpsOwned
<1>12. RestSound(o.row)'
  BY <1>1, <1>2, <1>9, <1>10 DEF RestSound, Sound, Lies, At
<1>13. Sound(o.row)'
  BY <1>1, <1>3, <1>6, <1>9, <1>10 DEF Sound, Lies, At
<1>14. Keeps
  BY <1>1, <1>3, <1>8 DEF Keeps, EpsAt, At
<1>15. NInv'
  BY <1>0, <1>1, <1>2, <1>4, <1>8, <1>9, <1>10, <1>11, <1>12, <1>13, ToFilesGoesWell
<1> QED
  BY <1>14, <1>15

(* What a file is renamed to: a free name of its episode, beside it. *)
LEMMA NewNameIs ==
  ASSUME IInv, NEW x \in Actors, op[x].pc = "files", NEW e \in op[x].todo
  PROVE  LET p == FreePath(Named(DirOf(e.path), e.num), e.path, op[x].kept) IN
         p \in Paths /\ At(p) = {} /\ DirOf(p) = DirOf(e.path) /\ NameOf(p) \in Episodes
<1>1. e \in Ep /\ e \in Misnamed(op[x].todo) /\ IsFiniteSet(op[x].kept)
  BY OperationOf DEF Planned, SetAside, Record
<1>2. e.num \in Episodes /\ e.path \in Paths
  BY <1>1, EpisodeRow DEF Misnamed, Matched
<1>3. /\ Named(DirOf(e.path), e.num) \in Paths /\ NameOf(Named(DirOf(e.path), e.num)) = e.num
      /\ DirOf(Named(DirOf(e.path), e.num)) = DirOf(e.path)
  BY <1>2, PathParts, NamedPath
<1>4. IsFiniteSet(disk)
  BY DEF IInv, DiskFits
<1> QED
  BY <1>1, <1>2, <1>3, <1>4, NewNameFits, FreePathIsFree

LEMMA FileIsRenamedWell ==
  ASSUME IInv, NInv, mishap = "none", NEW x \in Actors, RenameFile(x)
  PROVE  NInv' /\ Keeps
<1>0. PICK o : o = op[x]
  OBVIOUS
<1>1. o.pc = "files" /\ UNCHANGED <<rows, eps>>
  BY <1>0 DEF RenameFile, Reached, db
<1>2. PICK e \in o.todo :
        LET p == FreePath(Named(DirOf(e.path), e.num), e.path, o.kept) IN
        \/ /\ MoveDone(e.path, p)
           /\ Becomes(x, [o EXCEPT !.pc = IF o.todo = {e} THEN "names" ELSE @,
                                   !.todo = @ \ {e}, !.kept = @ \cup {p},
                                   !.moved = @ \cup {<<e, p>>}])
        \/ MoveFails(e.path, p) /\ Goto(x, "names")
  BY <1>0 DEF RenameFile
<1>3. PICK p : p = FreePath(Named(DirOf(e.path), e.num), e.path, o.kept)
  OBVIOUS
<1>4. /\ World /\ Fits(o) /\ RestSound(o.row) /\ o.row \in Live /\ o \in Record
      /\ \A f \in eps : f.row # o.row => At(f.path) # {}
  BY <1>0, <1>1, AtWork
<1>5. Renaming(o) /\ o.todo \subseteq Behind(o)
  BY <1>1, <1>4 DEF Fits, RenameFits
<1>6. /\ rows[o.row].dir \in dirs /\ \A f \in EpsOf(o.row) : DirOf(f.path) = rows[o.row].dir
      /\ \A f \in Behind(o) : At(f.path) # {}
      /\ \A m \in o.moved : Renamed(o, m)
  BY <1>5 DEF Renaming
<1>7. p \in Paths /\ At(p) = {} /\ DirOf(p) = DirOf(e.path) /\ NameOf(p) \in Episodes
  BY <1>0, <1>1, <1>3, NewNameIs
<1>8. /\ e \in Behind(o) /\ e \in EpsOf(o.row) /\ e \in eps /\ At(e.path) # {} /\ p # e.path
  BY <1>2, <1>5, <1>6, <1>7 DEF Behind, EpsOf
<1>9. \A f \in eps : f # e => f.path # e.path
  BY <1>8 DEF IInv, EpsFit
<1>10. ASSUME MoveDone(e.path, p), NEW k, k = <<e, p>>,
              Becomes(x, [o EXCEPT !.pc = IF o.todo = {e} THEN "names" ELSE @,
                                   !.todo = @ \ {e}, !.kept = @ \cup {p},
                                   !.moved = @ \cup {k}])
       PROVE  NInv' /\ Keeps
  <2>1. PICK n : n = [o EXCEPT !.pc = IF o.todo = {e} THEN "names" ELSE @,
                               !.todo = @ \ {e}, !.kept = @ \cup {p}, !.moved = @ \cup {k}]
    OBVIOUS
  <2>2. /\ n.row = o.row /\ n.todo = o.todo \ {e} /\ n.moved = o.moved \cup {k}
        /\ n.pc \in {"files", "names"} /\ k[1] = e /\ k[2] = p
    BY <1>1, <1>4, <1>10, <2>1 DEF Record
  <2>3. /\ At(e.path)' = {} /\ At(p)' # {} /\ dirs' = dirs \cup {DirOf(p)}
        /\ \A q : q # e.path /\ q # p => At(q)' = At(q)
        /\ Came(e.path, p)' /\ NamesFit'
    BY <1>4, <1>7, <1>8, <1>10, DoneMove DEF IInv, World
  <2>4. World' /\ Keeps /\ Live' = Live /\ EpsOf(o.row)' = EpsOf(o.row)
    BY <1>1, <1>4, <2>3, WorldStays, NothingForgotten DEF Live, EpsOf
  <2>5. RestSound(n.row)'
    <3>1. \A f \in eps : f.row # o.row /\ At(f.path) # {} => At(f.path)' # {}
      BY <1>7, <1>8, <1>9, <2>3 DEF EpsOf
    <3> QED
      BY <1>1, <1>4, <2>2, <2>3, <3>1, RowsStaySound
  <2>6. Behind(n)' = Behind(o) \ {e}
    BY <2>2, <2>4 DEF Behind
  <2>7. \A f \in Behind(n)' : At(f.path)' # {}
    <3> SUFFICES ASSUME NEW f \in Behind(o) \ {e} PROVE At(f.path)' # {}
      BY <2>6
    <3>1. f \in eps /\ At(f.path) # {}
      BY <1>6 DEF Behind, EpsOf
    <3> QED
      BY <1>7, <1>9, <2>3, <3>1
  <2>8. ASSUME NEW m \in o.moved PROVE Renamed(n, m)'
    <3>1. /\ m[1] \in EpsOf(o.row) /\ DirOf(m[2]) = rows[o.row].dir /\ Came(m[1].path, m[2])
          /\ At(m[1].path) = {} \/ \E l \in o.moved : l[2] = m[1].path
          /\ \A f \in EpsAt(m[2]) : f \in EpsOf(o.row) \ Behind(o)
      BY <1>6 DEF Renamed
    <3>2. m[2] # p /\ m[2] # e.path
      BY <1>7, <1>8, <3>1 DEF Came, EpsAt
    <3>3. Came(m[1].path, m[2])'
      BY <2>3, <3>1, <3>2 DEF Came
    <3>4. At(m[1].path)' = {} \/ \E l \in n.moved : l[2] = m[1].path
      BY <2>2, <2>3, <3>1
    <3>5. \A f \in EpsAt(m[2])' : f \in EpsOf(o.row) \ Behind(n)'
      BY <1>1, <2>6, <3>1 DEF EpsAt
    <3> QED
      BY <1>1, <2>2, <2>4, <3>1, <3>3, <3>4, <3>5 DEF Renamed
  <2>9. Renamed(n, k)'
    <3>1. \A f \in EpsAt(p)' : f \in EpsOf(o.row) \ Behind(n)'
      BY <1>1, <1>4, <1>6, <1>7, <2>6 DEF EpsAt, EpsOf
    <3>2. DirOf(p) = rows[o.row].dir
      BY <1>6, <1>7, <1>8
    <3> QED
      BY <1>1, <1>8, <2>2, <2>3, <2>4, <3>1, <3>2 DEF Renamed
  <2>10. Renaming(n)'
    BY <1>1, <1>6, <2>2, <2>3, <2>4, <2>7, <2>8, <2>9 DEF Renaming
  <2>11. n.todo \subseteq Behind(n)'
    BY <1>5, <2>2, <2>6
  <2>12. Fits(n)'
    BY <1>4, <2>2, <2>4, <2>10, <2>11
    DEF Fits, SortFits, MergeFits, MoveFits, ListFit, RenameFits
  <2>13. n.pc # "idle"
    BY <2>2
  <2> QED
    BY <1>0, <1>1, <1>10, <2>1, <2>4, <2>5, <2>12, <2>13, WorkGoesOn
<1>11. ASSUME MoveFails(e.path, p), Goto(x, "names") PROVE NInv' /\ Keeps
  <2>1. PICK n : n = [o EXCEPT !.pc = "names"]
    OBVIOUS
  <2>2. n.row = o.row /\ n.moved = o.moved /\ n.pc = "names"
    BY <1>4, <2>1 DEF Record
  <2>3. UNCHANGED disk /\ dirs \subseteq dirs'
    BY <1>7, <1>11, FailedMoveLeaves DEF IInv
  <2>4. World' /\ Keeps /\ RestSound(n.row)' /\ Live' = Live /\ EpsOf(o.row)' = EpsOf(o.row)
    BY <1>1, <1>4, <2>2, <2>3, SamePlaces DEF Live, EpsOf
  <2>5. Behind(n)' = Behind(o)
    BY <2>2, <2>4 DEF Behind
  <2>6. \A m \in o.moved : Renamed(n, m)'
    BY <1>1, <1>6, <2>2, <2>3, <2>4, <2>5 DEF Renamed, Came, At, EpsAt
  <2>7. Renaming(n)'
    BY <1>1, <1>6, <2>2, <2>3, <2>4, <2>5, <2>6 DEF Renaming, At
  <2>8. Fits(n)'
    BY <1>4, <2>2, <2>4, <2>7 DEF Fits, SortFits, MergeFits, MoveFits, ListFit, RenameFits
  <2> QED
    BY <1>0, <1>1, <1>11, <2>1, <2>2, <2>4, <2>8, WorkGoesOn DEF Goto
<1> QED
  BY <1>2, <1>3, <1>10, <1>11

LEMMA NamesFollowWell ==
  ASSUME IInv, NInv, mishap = "none", NEW x \in Actors, RenameNames(x)
  PROVE  NInv' /\ Keeps
<1>0. PICK o : o = op[x]
  OBVIOUS
<1>1. o.pc = "names" /\ UNCHANGED <<disk, dirs, rows>> /\ Over(x)
  BY <1>0 DEF RenameNames, Reached, onDisk
<1>2. /\ World /\ Fits(o) /\ RestSound(o.row) /\ o.row \in Live /\ o \in Record
      /\ \A f \in eps : f \in Ep
  BY <1>0, <1>1, AtWork
<1>3. /\ rows[o.row].dir \in dirs /\ \A f \in EpsOf(o.row) : DirOf(f.path) = rows[o.row].dir
      /\ \A f \in Behind(o) : At(f.path) # {}
      /\ \A m \in o.moved :
           /\ m[1] \in EpsOf(o.row) /\ DirOf(m[2]) = rows[o.row].dir /\ Came(m[1].path, m[2])
           /\ At(m[1].path) = {} \/ \E n \in o.moved : n[2] = m[1].path
           /\ \A f \in EpsAt(m[2]) : f \in EpsOf(o.row) \ Behind(o)
  BY <1>1, <1>2 DEF Fits, RenameFits, Renaming, Renamed
<1>4. PICK old : old = {m[1] : m \in o.moved}
  OBVIOUS
<1>5. PICK new : new = {[m[1] EXCEPT !.path = m[2]] : m \in o.moved}
  OBVIOUS
<1>6. \A m \in o.moved : [m[1] EXCEPT !.path = m[2]].path = m[2]
                         /\ [m[1] EXCEPT !.path = m[2]].row = o.row
  <2> SUFFICES ASSUME NEW m \in o.moved
               PROVE  [m[1] EXCEPT !.path = m[2]].path = m[2]
                      /\ [m[1] EXCEPT !.path = m[2]].row = o.row
    OBVIOUS
  <2>1. m[1] \in Ep /\ m[1].row = o.row
    BY <1>2, <1>3 DEF EpsOf
  <2> QED
    BY <2>1 DEF Ep
<1>7. /\ \A f \in new : f.row = o.row /\ \E m \in o.moved : f.path = m[2]
      /\ \A m \in o.moved : \E f \in new : f.path = m[2]
  BY <1>5, <1>6
<1>8. EpsOf(o.row) \ Behind(o) \subseteq old /\ old \subseteq EpsOf(o.row) /\ old \cap Behind(o) = {}
  BY <1>3, <1>4 DEF Behind
<1>9. eps' = (eps \ old) \cup new
  <2>1. old \subseteq eps
    BY <1>8 DEF EpsOf
  <2>2. \A f \in new : EpsAt(f.path) \subseteq old
    BY <1>3, <1>7, <1>8
  <2> QED
    BY <1>0, <1>4, <1>5, <2>1, <2>2 DEF RenameNames
<1>10. EpsOf(o.row)' = Behind(o) \cup new /\ \A s : s # o.row => EpsOf(s)' = EpsOf(s)
  <2>1. Behind(o) \subseteq EpsOf(o.row)
    BY DEF Behind
  <2>2. EpsOf(o.row) \ old = Behind(o)
    BY <1>8, <2>1
  <2>3. EpsOf(o.row)' = (EpsOf(o.row) \ old) \cup new
    BY <1>7, <1>9 DEF EpsOf
  <2>4. \A s : s # o.row => EpsOf(s)' = EpsOf(s)
    BY <1>7, <1>8, <1>9 DEF EpsOf
  <2> QED
    BY <2>2, <2>3, <2>4
<1>11. Live' = Live /\ \A p : At(p)' = At(p)
  BY <1>1 DEF Live, At
<1>12. World'
  BY <1>1, <1>2, <1>7, <1>9, <1>11 DEF World, NamesFit, RowsApart, EpsOwned
<1>13. Sound(o.row)'
  <2>1. \A f \in Behind(o) : DirOf(f.path) = rows[o.row].dir /\ At(f.path) # {}
    BY <1>3 DEF Behind
  <2>2. \A f \in new : DirOf(f.path) = rows[o.row].dir /\ At(f.path) # {}
    BY <1>3, <1>7 DEF Came
  <2> QED
    BY <1>1, <1>3, <1>10, <1>11, <2>1, <2>2 DEF Sound, Lies
<1>14. AllSound'
  <2> SUFFICES ASSUME NEW s \in Live PROVE Sound(s)'
    BY <1>11 DEF AllSound
  <2>1. CASE s # o.row
    BY <1>1, <1>2, <1>10, <1>11, <2>1 DEF RestSound, Sound, Lies
  <2> QED
    BY <1>13, <2>1
<1>15. Keeps
  <2> SUFFICES ASSUME NEW f \in eps, EpsAt(f.path)' = {} PROVE At(f.path) = {}
    BY <1>11 DEF Keeps
  <2>1. f \in old /\ \A g \in new : g.path # f.path
    BY <1>9 DEF EpsAt
  <2>2. PICK m \in o.moved : m[1] = f
    BY <1>4, <2>1
  <2>3. \A k \in o.moved : k[2] # f.path
    BY <1>7, <2>1
  <2> QED
    BY <1>3, <2>2, <2>3
<1> QED
  BY <1>0, <1>1, <1>12, <1>14, <1>15, WorkEnds
-----------------------------------------------------------------------------
(* What happens outside operations.                                         *)

(* A file that appears, a row that is identified: nobody has to notice. *)
LEMMA OutsideGoesWell ==
  ASSUME NInv, UNCHANGED <<eps, op, mishap>>, Live' = Live,
         \A r \in Live : rows'[r].dir = rows[r].dir,
         dirs \subseteq dirs', \A p : At(p) \subseteq At(p)',
         \A p, q : Came(p, q) /\ At(p) = {} => At(p)' = {}, NamesFit => NamesFit'
  PROVE  NInv' /\ Keeps
<1>1. World => World'
  BY DEF World, RowsApart, EpsOwned
<1>2. \A r \in Live : Sound(r) => Sound(r)'
  BY DEF Sound, Lies, EpsOf
<1>3. (AllSound => AllSound') /\ \A row : RestSound(row) => RestSound(row)'
  BY <1>2 DEF AllSound, RestSound
<1>4. ASSUME NEW x \in Actors, Fits(op[x]) PROVE Fits(op[x])'
  <2>1. PICK n : n = op[x]
    OBVIOUS
  <2>2. Fits(n)'
    BY <1>4, <2>1, PositionHolds
  <2> QED
    BY <2>1, <2>2
<1>5. \A x \in Actors : Alone(x) => Alone(x)'
  BY DEF Alone
<1>6. \A x \in Actors : RestSound(op[x].row) => RestSound(op[x].row)'
  <2> SUFFICES ASSUME NEW x \in Actors, RestSound(op[x].row) PROVE RestSound(op[x].row)'
    OBVIOUS
  <2>1. PICK row : row = op[x].row
    OBVIOUS
  <2>2. RestSound(row)'
    BY <1>3, <2>1
  <2> QED
    BY <2>1, <2>2
<1>7. NInv'
  BY <1>1, <1>3, <1>4, <1>5, <1>6 DEF NInv, Quiet
<1> QED
  BY <1>7, NothingForgotten

LEMMA IdentifyGoesWell ==
  ASSUME IInv, NInv, NEW r \in Ids, Identify(r)
  PROVE  NInv' /\ Keeps
<1>1. /\ r \in Live /\ rows' = [rows EXCEPT ![r].known = TRUE]
      /\ UNCHANGED <<disk, dirs, eps, op, mishap>>
  BY DEF Identify
<1>2. rows[r] \in [dir : Dirs, known : BOOLEAN] /\ \A s \in Ids : s # r => rows'[s] = rows[s]
  BY <1>1 DEF IInv, RowsFit, Row, Live
<1>3. rows'[r].dir = rows[r].dir /\ rows'[r] # NoRow
  <2>1. PICK k : k = [rows[r] EXCEPT !.known = TRUE]
    OBVIOUS
  <2>2. rows'[r] = k /\ k.dir = rows[r].dir /\ k.known
    BY <1>1, <1>2, <2>1 DEF IInv, RowsFit
  <2> QED
    BY <2>2 DEF NoRow
<1>4. Live' = Live /\ \A s \in Live : rows'[s].dir = rows[s].dir
  BY <1>1, <1>2, <1>3 DEF Live
<1>5. (\A p : At(p)' = At(p)) /\ (NamesFit => NamesFit')
  BY <1>1 DEF At, NamesFit
<1> QED
  BY <1>1, <1>4, <1>5, OutsideGoesWell

LEMMA ArriveGoesWell ==
  ASSUME IInv, NInv, NEW v \in Videos, Arrive(v)
  PROVE  NInv' /\ Keeps
<1>1. /\ \A c \in disk : c.video # v
      /\ disk' = disk \cup {[path |-> Named(Download, v), video |-> v, whole |-> TRUE]}
      /\ dirs' = dirs \cup {Download} /\ UNCHANGED <<rows, eps, op, mishap>>
  BY DEF Arrive, db
<1>2. PICK k : k = [path |-> Named(Download, v), video |-> v, whole |-> TRUE]
  OBVIOUS
<1>3. NameOf(k.path) = v /\ k.video = v /\ disk' = disk \cup {k}
  <2>1. Download \in Dirs
    BY DEF Download, Dirs
  <2> QED
    BY <1>1, <1>2, <2>1, NamedPath
<1>4. \A p : At(p) \subseteq At(p)' /\ (p # k.path => At(p)' = At(p))
  BY <1>3 DEF At
<1>5. \A q : ~Came(k.path, q)
  BY <1>1, <1>3 DEF Came, At
<1>6. NamesFit => NamesFit'
  BY <1>3 DEF NamesFit
<1>7. Live' = Live
  BY <1>1 DEF Live
<1> QED
  BY <1>1, <1>4, <1>5, <1>6, <1>7, OutsideGoesWell

(* The scanner records the files of a directory, and forgets none. *)
LEMMA RecordedWell ==
  ASSUME IInv, World, AllSound, NEW d \in dirs, NEW files, files = {c.path : c \in FilesIn(d)},
         NEW r \in Ids, r \in RowsAt(d) \/ (r \notin Live /\ RowsAt(d) = {}),
         UNCHANGED <<disk, dirs>>, eps' = Recorded(r, files), Live' = Live \cup {r},
         rows'[r].dir = d, \A s \in Live : rows'[s].dir = rows[s].dir
  PROVE  World' /\ AllSound' /\ Keeps
<1>1. \A e \in eps : e \in Ep /\ e.row \in Live /\ DirOf(e.path) = rows[e.row].dir /\ At(e.path) # {}
  BY DEF World, EpsOwned, AllSound, Sound, Lies, EpsOf, IInv, EpsFit
<1>2. \A e \in eps : e.row = r => e.path \in files
  BY <1>1 DEF FilesIn, At, RowsAt
<1>3. \A p \in files : DirOf(p) = d /\ At(p) # {}
  BY DEF FilesIn, At
<1>4. \A p : At(p)' = At(p)
  BY DEF At
<1> DEFINE f(e) == IF e.path \in files THEN [e EXCEPT !.num = NumberAt(e.path)] ELSE e
           g(p) == [path |-> p, row |-> r, num |-> NumberAt(p)]
<1>5. \A e \in eps : f(e).path = e.path /\ f(e).row = e.row
  <2> SUFFICES ASSUME NEW e \in eps PROVE f(e).path = e.path /\ f(e).row = e.row
    OBVIOUS
  <2>1. e \in Ep
    BY <1>1
  <2>2. PICK k : k = NumberAt(e.path)
    OBVIOUS
  <2> QED
    BY <2>1, <2>2 DEF Ep
<1>6. eps' = {f(e) : e \in eps} \cup {g(p) : p \in {q \in files : EpsAt(q) = {}}}
  <2>1. {e \in eps : e.row = r => e.path \in files} = eps
    BY <1>2
  <2> QED
    BY <2>1 DEF Recorded
<1>7. \A p : g(p).path = p /\ g(p).row = r
  OBVIOUS
<1> HIDE DEF f, g
<1>8. ASSUME NEW e \in eps'
      PROVE  e.row \in Live' /\ DirOf(e.path) = rows'[e.row].dir /\ At(e.path)' # {}
  <2>1. CASE \E h \in eps : e = f(h)
    BY <1>1, <1>4, <1>5, <2>1
  <2>2. CASE \E p \in files : e = g(p)
    BY <1>3, <1>4, <1>7, <2>2
  <2> QED
    BY <1>6, <2>1, <2>2
<1>9. RowsApart'
  BY DEF World, RowsApart, RowsAt
<1>10. NamesFit'
  BY DEF World, NamesFit
<1>11. World'
  BY <1>8, <1>9, <1>10 DEF World, EpsOwned
<1>12. ASSUME NEW s \in Live' PROVE Sound(s)'
  <2>1. rows'[s].dir \in dirs'
    BY DEF AllSound, Sound
  <2> QED
    BY <1>8, <2>1 DEF Sound, Lies, EpsOf
<1>13. Keeps
  BY <1>5, <1>6 DEF Keeps, EpsAt
<1> QED
  BY <1>11, <1>12, <1>13 DEF AllSound

LEMMA CheckGoesWell ==
  ASSUME IInv, NInv, mishap = "none", mishap' = "none", NEW d \in Dirs, Check(d)
  PROVE  NInv' /\ Keeps
<1>1. UNCHANGED <<disk, dirs, op>> /\ db' # db
  BY DEF Check
<1>2. Quiet
  <2>1. "met" \in Mishaps \ {"none"}
    BY DEF Mishaps
  <2> QED
    BY <2>1, NothingBefell DEF Check, Meeting
<1>3. World /\ AllSound
  BY <1>2 DEF NInv
<1>4. PICK files : files = {c.path : c \in FilesIn(d)}
  OBVIOUS
<1>5. d \in dirs
  <2>1. \A r \in RowsAt(d) : Sound(r) /\ rows[r].dir = d
    BY <1>3 DEF AllSound, RowsAt
  <2> QED
    BY <1>1, <2>1 DEF Check, Sound
<1>6. ASSUME NEW r \in Ids \ Used, RowsAt(d) = {}, eps' = Recorded(r, files),
             rows' = [rows EXCEPT ![r] = [dir |-> d, known |-> FALSE]]
      PROVE  World' /\ AllSound' /\ Keeps
  <2>1. r \in Ids /\ r \notin Live
    BY DEF Used
  <2>2. rows'[r] = [dir |-> d, known |-> FALSE] /\ \A s \in Ids : s # r => rows'[s] = rows[s]
    BY <1>6 DEF IInv, RowsFit
  <2>3. rows'[r].dir = d /\ rows'[r] # NoRow
    <3>1. d # NoDir
      BY DEF Dirs, NoDir
    <3> QED
      BY <2>2, <3>1 DEF NoRow
  <2>4. Live' = Live \cup {r} /\ \A s \in Live : rows'[s].dir = rows[s].dir
    BY <2>1, <2>2, <2>3 DEF Live
  <2> QED
    BY <1>1, <1>3, <1>4, <1>5, <1>6, <2>1, <2>3, <2>4, RecordedWell
<1>7. ASSUME NEW r \in RowsAt(d), eps' = Recorded(r, files), UNCHANGED rows
      PROVE  World' /\ AllSound' /\ Keeps
  <2>1. r \in Ids /\ Live' = Live \cup {r} /\ rows'[r].dir = d
    BY <1>7 DEF RowsAt, Live
  <2> QED
    BY <1>1, <1>3, <1>4, <1>5, <1>7, <2>1, RecordedWell
<1>8. World' /\ AllSound' /\ Keeps
  BY <1>1, <1>4, <1>5, <1>6, <1>7 DEF Check, db
<1> QED
  BY <1>1, <1>2, <1>8 DEF NInv, Quiet
-----------------------------------------------------------------------------
(* What is known of operations nobody meets is known at first and stays so. *)

LEMMA InitIsWell ==
  ASSUME Init
  PROVE  NInv
<1>1. IInv /\ \A x \in Actors : op[x] = Idle
  BY InitFits DEF Init
<1>0. PICK here \in SUBSET Videos :
       \E home \in [here -> 1..3], known \in {k \in [1..3 -> BOOLEAN] : k[1]} :
         LET path(v) == Named(Homes[home[v]], v)
             used    == {home[v] : v \in here}
         IN
         /\ disk = {[path |-> path(v), video |-> v, whole |-> TRUE] : v \in here}
         /\ dirs = {Homes[i] : i \in used}
         /\ rows = [r \in Ids |-> IF r \in used THEN [dir |-> Homes[r], known |-> known[r]]
                                                ELSE NoRow]
         /\ eps  = {[path |-> path(v), row |-> home[v], num |-> number[v]] : v \in here}
  BY DEF Init
<1>2. PICK home \in [here -> 1..3], known \in [1..3 -> BOOLEAN] :
        /\ disk = {[path |-> Named(Homes[home[v]], v), video |-> v, whole |-> TRUE] : v \in here}
        /\ dirs = {Homes[i] : i \in {home[v] : v \in here}}
        /\ rows = [r \in Ids |-> IF r \in {home[v] : v \in here}
                                   THEN [dir |-> Homes[r], known |-> known[r]] ELSE NoRow]
        /\ eps = {[path |-> Named(Homes[home[v]], v), row |-> home[v], num |-> number[v]] :
                    v \in here}
  BY <1>0
<1>3. 1..3 \subseteq Ids
  BY SortAssumption DEF Ids
<1>4. /\ \A i \in 1..3 : Homes[i] \in Dirs /\ Homes[i] # NoDir
      /\ \A i, j \in 1..3 : Homes[i] = Homes[j] => i = j
  BY DEF Homes, Download, Dirs, NoDir
<1>5. \A v \in here : /\ DirOf(Named(Homes[home[v]], v)) = Homes[home[v]]
                      /\ NameOf(Named(Homes[home[v]], v)) = v
  BY <1>4, NamedPath
<1>6. \A v \in here : home[v] \in 1..3
  OBVIOUS
<1>7. \A r \in Live : r \in {home[v] : v \in here} /\ rows[r].dir = Homes[r]
  BY <1>2 DEF Live
<1>8. \A r \in {home[v] : v \in here} : r \in Live
  <2> SUFFICES ASSUME NEW r \in {home[v] : v \in here} PROVE r \in Live
    OBVIOUS
  <2>1. r \in Ids /\ r \in 1..3
    BY <1>3, <1>6
  <2>2. rows[r].dir = Homes[r]
    BY <1>2, <2>1
  <2> QED
    BY <1>4, <2>1, <2>2 DEF Live, NoRow
<1>9. NamesFit
  BY <1>2, <1>5 DEF NamesFit
<1>10. RowsApart
  BY <1>4, <1>6, <1>7 DEF RowsApart
<1>11. EpsOwned
  BY <1>2, <1>8 DEF EpsOwned
<1>12. ASSUME NEW r \in Live PROVE Sound(r)
  <2>1. rows[r].dir \in dirs
    <3>1. r \in {home[v] : v \in here} /\ rows[r].dir = Homes[r]
      BY <1>7
    <3>2. dirs = {Homes[i] : i \in {home[v] : v \in here}}
      BY <1>2
    <3> QED
      BY <3>1, <3>2
  <2>2. ASSUME NEW e \in EpsOf(r) PROVE DirOf(e.path) = rows[r].dir /\ At(e.path) # {}
    <3>1. PICK v \in here : e = [path |-> Named(Homes[home[v]], v), row |-> home[v], num |-> number[v]]
      BY <1>2 DEF EpsOf
    <3>2. e.path = Named(Homes[home[v]], v) /\ home[v] = r
      BY <3>1 DEF EpsOf
    <3>3. PICK k : k = [path |-> Named(Homes[home[v]], v), video |-> v, whole |-> TRUE]
      OBVIOUS
    <3>4. k \in disk /\ k.path = e.path
      BY <1>2, <3>2, <3>3
    <3> QED
      BY <1>5, <1>7, <3>2, <3>4 DEF At
  <2> QED
    BY <2>1, <2>2 DEF Sound, Lies
<1> QED
  BY <1>1, <1>9, <1>10, <1>11, <1>12 DEF NInv, World, AllSound, Quiet

(* A mishap is not undone. *)
LEMMA NoMishapYet ==
  ASSUME [Next]_vars, mishap' = "none"
  PROVE  mishap = "none"
<1>1. ASSUME NEW what, Befalls(what) PROVE mishap = "none"
  BY <1>1, Zenon DEF Befalls
<1>2. ASSUME NEW x \in Actors, Sort(x) PROVE mishap = "none"
  <2>1. SortBegins(x) => mishap = "none"
    BY <1>1, Zenon DEF SortBegins, Begins, Meeting
  <2>2. FindTarget(x) \/ Unlist(x) \/ List(x) => mishap = "none"
    BY DEF FindTarget, Unlist, List
  <2>3. MergeMove(x) \/ MergeFinish(x) \/ MergeDrop(x) => mishap = "none"
    BY DEF MergeMove, MergeFinish, MergeDrop
  <2>4. RelocateBegin(x) => mishap = "none"
    BY <1>1 DEF RelocateBegin
  <2>5. RelocateBack(x) => mishap = "none"
    BY <1>1 DEF RelocateBack
  <2>6. RelocateMove(x) \/ RelocateLeftover(x) \/ RelocateCommit(x) => mishap = "none"
    BY Zenon DEF RelocateMove, RelocateLeftover, RelocateCommit
  <2> QED
    BY <1>2, <2>1, <2>2, <2>3, <2>4, <2>5, <2>6 DEF Sort
<1>3. ASSUME NEW x \in Actors, Rename(x) PROVE mishap = "none"
  <2>1. RenameBegins(x) => mishap = "none"
    BY <1>1, Zenon DEF RenameBegins, Begins, Meeting
  <2>2. RenameDir(x) \/ RenamePaths(x) \/ RenameFile(x) \/ RenameNames(x) => mishap = "none"
    BY Zenon DEF RenameDir, RenamePaths, RenameFile, RenameNames
  <2> QED
    BY <1>3, <2>1, <2>2 DEF Rename
<1>4. ASSUME NEW d \in Dirs, Check(d) PROVE mishap = "none"
  BY <1>1, <1>4 DEF Check, Meeting
<1>5. ASSUME NEW r \in Ids, Identify(r) PROVE mishap = "none"
  BY <1>5 DEF Identify
<1>6. ASSUME NEW v \in Videos, Arrive(v) PROVE mishap = "none"
  BY <1>6 DEF Arrive
<1>7. CASE Crash
  BY <1>1, <1>7 DEF Crash
<1>8. CASE UNCHANGED vars
  BY <1>8 DEF vars
<1> QED
  BY <1>2, <1>3, <1>4, <1>5, <1>6, <1>7, <1>8 DEF Next

LEMMA EachStepGoesWell ==
  ASSUME IInv, NInv, [Next]_vars
  PROVE  NInv' /\ (mishap' = "none" => Keeps)
<1>1. CASE mishap' # "none"
  BY <1>1 DEF NInv
<1>2. CASE mishap' = "none"
  <2>1. mishap = "none"
    BY <1>2, NoMishapYet
  <2>2. ASSUME NEW x \in Actors, Sort(x) PROVE NInv' /\ Keeps
    BY <1>2, <2>1, <2>2, SortBeginsWell, FindsTargetWell, UnlistsWell, ListsWell, MergesWell,
       FinishesWell, DropsWell, RelocationBegins, RelocationMoves, GoingBackGoesWell,
       LeftoversGoWell, RelocationCommits DEF Sort
  <2>3. ASSUME NEW x \in Actors, Rename(x) PROVE NInv' /\ Keeps
    BY <1>2, <2>1, <2>3, RenameBeginsWell, DirIsRenamedWell, PathsFollowWell, FileIsRenamedWell,
       NamesFollowWell DEF Rename
  <2>4. ~Crash
    <3>1. "crash" \in Mishaps \ {"none"}
      BY DEF Mishaps
    <3> QED
      BY <1>2, <3>1, NothingBefell DEF Crash
  <2>5. CASE UNCHANGED vars
    <3>1. UNCHANGED <<disk, dirs, rows, eps, op, mishap>>
      BY <2>5 DEF vars, onDisk, db
    <3>2. Live' = Live /\ (\A p : At(p)' = At(p)) /\ (NamesFit => NamesFit')
      BY <3>1 DEF Live, At, NamesFit
    <3> QED
      BY <3>1, <3>2, OutsideGoesWell
  <2> QED
    BY <1>2, <2>1, <2>2, <2>3, <2>4, <2>5, CheckGoesWell, IdentifyGoesWell, ArriveGoesWell DEF Next
<1> QED
  BY <1>1, <1>2

(* While nothing has befallen an operation, the places of the files are known. *)
THEOREM PlacesAreKnown == Spec => []NInv
<1>1. Init => NInv
  BY InitIsWell
<1>2. IInv /\ NInv /\ [Next]_vars => NInv'
  BY EachStepGoesWell
<1> QED
  BY <1>1, <1>2, Inductive, PTL DEF Spec

LEMMA SoundIsTogether ==
  ASSUME NInv
  PROVE  NeverSplit
<1> SUFFICES ASSUME mishap = "none", NEW r \in Live, ~InUse(r),
                    NEW e \in EpsOf(r)
             PROVE  DirOf(e.path) = rows[r].dir /\ At(e.path) # {}
  BY DEF NeverSplit, Together
<1>1. Sound(r)
  <2>1. CASE Quiet
    BY <2>1 DEF NInv, AllSound
  <2>2. CASE ~Quiet
    <3>1. PICK x \in Actors : op[x] # Idle
      BY <2>2 DEF Quiet
    <3>2. RestSound(op[x].row) /\ r # op[x].row
      BY <3>1 DEF NInv, InUse
    <3> QED
      BY <3>2 DEF RestSound
  <2> QED
    BY <2>1, <2>2
<1> QED
  BY <1>1 DEF Sound, Lies

(* An anime no operation works on is in one place, on disk and in the catalogue:
   for any number of videos, rows and actors, wherever moves fail, and however
   scans and downloads come between operations. *)
THEOREM AnimesStayTogether == Spec => []NeverSplit
<1>1. NInv => NeverSplit
  BY SoundIsTogether
<1> QED
  BY <1>1, PlacesAreKnown, PTL

(* No step of an operation or of the scanner makes the catalogue forget a file
   that is still where it was recorded. *)
THEOREM FilesAreRemembered == Spec => NoFileForgotten
<1>1. IInv /\ NInv /\ [Next]_vars =>
        [mishap' = "none" => \A e \in eps : EpsAt(e.path)' = {} => At(e.path)' = {}]_vars
  BY EachStepGoesWell DEF Keeps
<1> QED
  BY <1>1, Inductive, PlacesAreKnown, PTL DEF Spec, NoFileForgotten
=============================================================================
