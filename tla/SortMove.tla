------------------------------- MODULE SortMove -------------------------------
(***************************************************************************)
(* Sorting and renaming (core/app/services/sorter.py): the files of an      *)
(* anime in the download folder are merged into the anime of the same       *)
(* AniDB id in the content folder or moved there as a whole, or directory   *)
(* and files are named after the anime in place; the rows follow.           *)
(*                                                                         *)
(* There is one download and one content folder, and every row is of the    *)
(* same AniDB id, identified or not yet.  Moving files blocks the event     *)
(* loop: between two files of one loop nothing else runs, but the process   *)
(* may end; every database access is an await.  The scanner is here by what *)
(* it does to one directory (LibraryScan has how it does it).               *)
(***************************************************************************)
EXTENDS Naturals, FiniteSets

CONSTANTS
  Videos,        \* video files
  Episodes,      \* expected episodes
  NoEpisode,     \* no expected episode
  Actors,        \* the job worker and the API handlers that sort or rename
  NoActor,
  MaxRows,       \* bound on the row ids
  CrossDrive,    \* are the two folders on different drives?
  Trouble        \* bound on failing moves, crashes and outside steps in an operation

\* A download's own name is never one that the program gives to an episode.
ASSUME SortAssumption ==
  /\ IsFiniteSet(Videos)
  /\ Videos \cap Episodes = {} /\ NoEpisode \notin Episodes /\ NoActor \notin Actors
  /\ CrossDrive \in BOOLEAN /\ MaxRows \in Nat \ 0..2 /\ Trouble \in Nat

VARIABLES
  number,     \* the episode each video matches; it never changes
  disk,       \* the video files: path, video, and is it all of it?
  dirs,       \* the directories there are
  rows,       \* anime rows by id
  eps,        \* episode rows: path, anime row, number
  op,         \* the operation of each actor
  busy,       \* the actor whose loop blocks the event loop
  trouble,    \* trouble left
  mishap      \* ghost: what first befell an operation: "met" by another or by
              \* the scanner, cut short by a "crash", "stuck" on the way back,
              \* or its new directory was "taken" by another row

db     == <<rows, eps>>
onDisk == <<disk, dirs, trouble>>
vars   == <<number, onDisk, db, op, busy, mishap>>

-----------------------------------------------------------------------------
(* Paths.  A directory is in the download or the content folder and has the *)
(* name of the download or of the anime; a file has a name of its own or    *)
(* that of an episode, and a number for when the name is taken.             *)

Download == <<"download", "raw">>
Dirs     == {"download", "content"} \X {"raw", "title"}
Paths    == Dirs \X ((Videos \cup Episodes) \X (Nat \ {0}))
NoDir    == <<"none", "none">>

InFolder(d, f) == d[1] = f
Titled(d)      == <<d[1], "title">>
DirOf(p)       == p[1]
NameOf(p)      == p[2][1]
Named(d, name) == <<d, <<name, 1>>>>

Ids   == 1..MaxRows
NoRow == [dir |-> NoDir, known |-> FALSE]
Ep    == [path : Paths, row : Ids, num : Episodes \cup {NoEpisode}]
Idle  == [pc |-> "idle", row |-> 0, to |-> 0, src |-> NoDir, dest |-> NoDir, all |-> FALSE,
          todo |-> {}, moved |-> {}, now |-> {}, kept |-> {}, made |-> FALSE]

Steps == {"idle", "target", "merge", "finish", "drop",
          "begin", "moving", "back", "leftover", "commit",
          "unlist", "list", "dir", "paths", "files", "names"}

Mishaps == {"none", "met", "crash", "stuck", "taken"}

TypeOK ==
  /\ number \in [Videos -> Episodes \cup {NoEpisode}]
  /\ disk \subseteq [path : Paths, video : Videos, whole : BOOLEAN]
  /\ \A c, e \in disk : c.path = e.path => c = e
  /\ \A c \in disk : DirOf(c.path) \in dirs
  /\ dirs \subseteq Dirs
  /\ rows \in [Ids -> [dir : Dirs \cup {NoDir}, known : BOOLEAN]]
  /\ eps \subseteq Ep
  /\ \A e, f \in eps : e.path = f.path => e = f
  /\ \A x \in Actors :
       /\ op[x].pc \in Steps /\ {op[x].row, op[x].to} \subseteq 0..MaxRows
       /\ {op[x].src, op[x].dest} \subseteq Dirs \cup {NoDir}
       /\ op[x].todo \subseteq Ep /\ op[x].moved \subseteq Ep \X Paths
  /\ busy \in Actors \cup {NoActor}
  /\ trouble \in 0..Trouble /\ mishap \in Mishaps

Live        == {r \in Ids : rows[r] # NoRow}
RowsAt(d)   == {r \in Live : rows[r].dir = d}
EpsOf(r)    == {e \in eps : e.row = r}
EpsAt(p)    == {e \in eps : e.path = p}
At(p)       == {c \in disk : c.path = p}
FilesIn(d)  == {c \in disk : DirOf(c.path) = d}
Matched(es) == {e \in es : e.num # NoEpisode}

\* Ids a new row does not get: those in use, or still held by an operation.
Used  == Live \cup {op[x].row : x \in Actors} \cup {op[x].to : x \in Actors}
Quiet == \A x \in Actors : op[x] = Idle

Spend == trouble > 0 /\ trouble' = trouble - 1

Befalls(what) == mishap' = IF mishap = "none" THEN what ELSE mishap

\* A step outside an operation: in the middle of one it costs trouble.
Between == IF Quiet THEN UNCHANGED trouble ELSE Spend
Meeting == Between /\ IF Quiet THEN UNCHANGED mishap ELSE Befalls("met")

-----------------------------------------------------------------------------
(* Moving one file: move_file and _dedupe_path.                             *)

\* The i-th name after the one of p.
Variant(p, i) == <<p[1], <<p[2][1], p[2][2] + i>>>>

\* A wrong FreePath that takes the name as it is.
SamePath(p, from, taken) == p

\* p, or p with the least number, such that no file but the one at from is
\* there and the name is not set aside for another.
FreePath(p, from, taken) ==
  LET free == {i \in 0..(Cardinality(disk) + Cardinality(taken)) :
                 \/ Variant(p, i) = from
                 \/ At(Variant(p, i)) = {} /\ Variant(p, i) \notin taken}
  IN Variant(p, CHOOSE i \in free : \A j \in free : i <= j)

Copied(c, p, whole) == [path |-> p, video |-> c.video, whole |-> whole]

\* A rename replaces what is at its target.
Relocated(c, p) == (disk \ ({c} \cup At(p))) \cup {Copied(c, p, c.whole)}

\* Across drives the file is copied, and only then the original deleted.
ByCopy(c, p) == CrossDrive /\ DirOf(c.path)[1] # DirOf(p)[1]

\* What a move leaves that fails: a copy that raises leaves what it has
\* written; one of the wrong size is dropped, and so is a good one whose
\* original cannot be deleted.  A crash may also leave the good one.
FailedMove(c, p) ==
  {disk} \cup IF ByCopy(c, p) THEN {disk \cup {Copied(c, p, FALSE)}} ELSE {}
CutMove(c, p) ==
  FailedMove(c, p) \cup IF ByCopy(c, p) THEN {disk \cup {Copied(c, p, c.whole)}} ELSE {}

\* move_episode_file: the companions of a file are taken as part of it.  It
\* succeeds, or raises: the file is not there, or something is the matter.
\* The directory is made first.
MoveDone(from, to) ==
  /\ \E c \in At(from) : disk' = Relocated(c, to)
  /\ dirs' = dirs \cup {DirOf(to)}
  /\ UNCHANGED trouble

MoveFails(from, to) ==
  /\ \/ At(from) = {} /\ UNCHANGED <<disk, trouble>>
     \/ Spend /\ \E c \in At(from) : disk' \in FailedMove(c, to)
  /\ dirs' = dirs \cup {DirOf(to)}

\* remove_dir_if_empty: a directory stays if a file of any kind is in it.
CleanedUp(d) == dirs' \in {dirs} \cup IF FilesIn(d) = {} THEN {dirs \ {d}} ELSE {}

-----------------------------------------------------------------------------
(* Steps of an operation.  One step is the code between two awaits; a loop  *)
(* over files without an await is a step per file that keeps the event loop. *)

Reached(x, pc) == op[x].pc = pc /\ busy \in {NoActor, x}
Becomes(x, o)  == op' = [op EXCEPT ![x] = o]
Goto(x, pc)    == Becomes(x, [op[x] EXCEPT !.pc = pc])
Over(x)        == Becomes(x, Idle)

Begins(x, o) ==
  /\ Reached(x, "idle")
  /\ Becomes(x, o)
  /\ Meeting
  /\ UNCHANGED <<number, disk, dirs, db, busy>>

\* sort_anime reads the row and its episodes: of an identified anime in the
\* download folder, at least one of whose files is matched.
SortBegins(x) ==
  \E r \in Live :
    /\ rows[r].known /\ InFolder(rows[r].dir, "download")
    /\ Matched(EpsOf(r)) # {}
    /\ Begins(x, [Idle EXCEPT !.pc = "target", !.row = r, !.src = rows[r].dir,
                    !.todo = Matched(EpsOf(r)), !.all = (EpsOf(r) = Matched(EpsOf(r)))])

\* The rows of this anime in the content folder.
Targets == {q \in Live : rows[q].known /\ InFolder(rows[q].dir, "content")}

\* _find_target_anime: the files are merged into the one row there is; with
\* several it raises.  Without one the whole anime moves, if all is matched.
FindTarget(x) ==
  /\ Reached(x, "target")
  /\ \/ /\ Cardinality(Targets) > 1 \/ (Targets = {} /\ ~op[x].all)
        /\ Over(x)
     \/ \E q \in Targets :
          /\ Targets = {q}
          /\ Becomes(x, [op[x] EXCEPT !.pc = "merge", !.to = q, !.dest = rows[q].dir])
     \/ /\ Targets = {} /\ op[x].all
        /\ Becomes(x, [op[x] EXCEPT !.pc = "begin", !.dest = <<"content", "title">>])
  /\ UNCHANGED <<number, onDisk, db, busy, mishap>>

\* Where the file of an episode row goes.
Target(x, e) == FreePath(Named(op[x].dest, e.num), e.path, {})

\* delete_by_path of a file that was moved.
Unlist(x) ==
  /\ Reached(x, "unlist")
  /\ \E m \in op[x].moved :
       /\ eps' = eps \ EpsAt(m[1].path)
       /\ Becomes(x, [op[x] EXCEPT !.pc = "list", !.moved = @ \ {m}, !.now = {m}])
  /\ UNCHANGED <<number, onDisk, rows, busy, mishap>>

\* A wrong Upserted that does not look for the path.
Inserted(p, r, n) == eps \cup {[path |-> p, row |-> r, num |-> n]}

\* upsert by path: a row that is there keeps its anime.
Upserted(p, r, n) ==
  IF EpsAt(p) = {} THEN eps \cup {[path |-> p, row |-> r, num |-> n]}
                   ELSE (eps \ EpsAt(p)) \cup {[e EXCEPT !.num = n] : e \in EpsAt(p)}

\* The anime the moved files are recorded for.
Owner(x) == IF op[x].to # 0 THEN op[x].to ELSE op[x].row

AfterList(x) ==
  IF op[x].moved # {} THEN "unlist"
  ELSE IF op[x].to = 0 THEN "leftover"
  ELSE IF op[x].todo # {} THEN "merge" ELSE "finish"

\* stat, then upsert: raises without the file, or without the anime row.
List(x) ==
  /\ Reached(x, "list")
  /\ \E m \in op[x].now :
       LET raises == At(m[2]) = {} \/ (EpsAt(m[2]) = {} /\ Owner(x) \notin Live) IN
       \/ /\ raises
          /\ Over(x) /\ UNCHANGED eps
       \/ /\ ~raises
          /\ eps' = Upserted(m[2], Owner(x), m[1].num)
          /\ Becomes(x, [op[x] EXCEPT !.pc = AfterList(x), !.now = {}])
  /\ UNCHANGED <<number, onDisk, rows, busy, mishap>>

-----------------------------------------------------------------------------
(* Merging: each file is moved and recorded before the next.                *)

\* A failed move ends the operation.
MergeMove(x) ==
  /\ Reached(x, "merge")
  /\ \E e \in op[x].todo :
       \/ /\ MoveDone(e.path, Target(x, e))
          /\ Becomes(x, [op[x] EXCEPT !.pc = "unlist", !.todo = @ \ {e},
                                      !.moved = {<<e, Target(x, e)>>}])
       \/ /\ MoveFails(e.path, Target(x, e))
          /\ Over(x)
  /\ UNCHANGED <<number, db, busy, mishap>>

\* A wrong Emptied that takes the matched files for all there are.
AllMoved(x) == op[x].todo = {}

\* has_video_files of the source directory.
Emptied(x) == FilesIn(op[x].src) = {}

\* With no video left in it the source is cleaned up, if nothing else is.
MergeFinish(x) ==
  /\ Reached(x, "finish")
  /\ \/ /\ ~Emptied(x)
        /\ Over(x) /\ UNCHANGED dirs
     \/ /\ Emptied(x)
        /\ Goto(x, "drop") /\ CleanedUp(op[x].src)
  /\ UNCHANGED <<number, disk, trouble, db, busy, mishap>>

RowDeleted(r) ==
  /\ rows' = [rows EXCEPT ![r] = NoRow]
  /\ eps'  = eps \ EpsOf(r)

\* Then its row goes.
MergeDrop(x) ==
  /\ Reached(x, "drop")
  /\ RowDeleted(op[x].row)
  /\ Over(x)
  /\ UNCHANGED <<number, onDisk, busy, mishap>>

-----------------------------------------------------------------------------
(* Moving the whole anime: all files first, then the rows.                  *)

RelocateBegin(x) ==
  /\ Reached(x, "begin")
  /\ dirs' = dirs \cup {op[x].dest}
  /\ Becomes(x, [op[x] EXCEPT !.pc = "moving", !.made = (op[x].dest \notin dirs)])
  /\ busy' = x
  /\ IF RowsAt(op[x].dest) = {} THEN UNCHANGED mishap ELSE Befalls("taken")
  /\ UNCHANGED <<number, disk, trouble, db>>

RelocateMove(x) ==
  /\ Reached(x, "moving")
  /\ \E e \in op[x].todo :
       LET last == op[x].todo = {e} IN
       \/ /\ MoveDone(e.path, Target(x, e))
          /\ Becomes(x, [op[x] EXCEPT !.pc = IF last THEN "unlist" ELSE @, !.todo = @ \ {e},
                                      !.moved = @ \cup {<<e, Target(x, e)>>}])
          /\ busy' = IF last THEN NoActor ELSE x
       \/ /\ MoveFails(e.path, Target(x, e))
          /\ Goto(x, "back") /\ UNCHANGED busy
  /\ UNCHANGED <<number, db, mishap>>

\* A wrong GoesBack that leaves what was moved where it is.
NothingGoesBack(x) == {}

\* The files that have to go back.
GoesBack(x) == op[x].moved

\* One that cannot stays.
RelocateBack(x) ==
  /\ Reached(x, "back")
  /\ \/ \E m \in GoesBack(x) :
          LET p == FreePath(m[1].path, m[2], {}) IN
          /\ Becomes(x, [op[x] EXCEPT !.moved = @ \ {m}])
          /\ \/ MoveDone(m[2], p) /\ UNCHANGED mishap
             \/ MoveFails(m[2], p) /\ Befalls("stuck")
          /\ UNCHANGED busy
     \/ /\ GoesBack(x) = {}
        /\ IF op[x].made THEN CleanedUp(op[x].dest) ELSE UNCHANGED dirs
        /\ Over(x) /\ busy' = NoActor
        /\ UNCHANGED <<disk, trouble, mishap>>
  /\ UNCHANGED <<number, db>>

\* What else is in the source, and where it goes.
Leftover(x)    == {c \in FilesIn(op[x].src) : c.path \notin op[x].kept}
NewPlace(x, c) == FreePath(<<op[x].dest, c.path[2]>>, c.path, {})

\* _move_remaining_files: the rest goes along, if it can.
RelocateLeftover(x) ==
  /\ Reached(x, "leftover")
  /\ \/ \E c \in Leftover(x) :
          /\ busy' = x
          /\ \/ MoveDone(c.path, NewPlace(x, c)) /\ UNCHANGED op
             \/ /\ MoveFails(c.path, NewPlace(x, c))
                /\ Becomes(x, [op[x] EXCEPT !.kept = @ \cup {c.path}])
     \/ /\ Leftover(x) = {}
        /\ Goto(x, "commit") /\ busy' = NoActor
        /\ UNCHANGED onDisk
  /\ UNCHANGED <<number, db, mishap>>

\* The row follows, unless it is gone or directory_path is taken; then the
\* source is cleaned up.
RelocateCommit(x) ==
  LET r  == op[x].row
      ok == r \in Live /\ RowsAt(op[x].dest) \subseteq {r}
  IN
  /\ Reached(x, "commit")
  /\ \/ ~ok /\ UNCHANGED <<rows, dirs>>
     \/ /\ ok
        /\ rows' = [rows EXCEPT ![r].dir = op[x].dest]
        /\ CleanedUp(op[x].src)
  /\ Over(x)
  /\ UNCHANGED <<number, disk, trouble, eps, busy, mishap>>

Sort(x) ==
  \/ SortBegins(x) \/ FindTarget(x) \/ Unlist(x) \/ List(x)
  \/ MergeMove(x) \/ MergeFinish(x) \/ MergeDrop(x)
  \/ RelocateBegin(x) \/ RelocateMove(x) \/ RelocateBack(x)
  \/ RelocateLeftover(x) \/ RelocateCommit(x)

-----------------------------------------------------------------------------
(* Renaming in place.                                                       *)

\* rename_anime reads the row and its episodes.
RenameBegins(x) ==
  \E r \in Live :
    /\ rows[r].known
    /\ Begins(x, [Idle EXCEPT !.pc = "dir", !.row = r, !.src = rows[r].dir,
                    !.dest = Titled(rows[r].dir), !.todo = EpsOf(r)])

\* _compute_rename_plan: a file with a name of its episode, whatever the
\* number, keeps it; the others are renamed around it.
Misnamed(es) == {e \in Matched(es) : NameOf(e.path) # e.num}

ToFiles(x, es) ==
  IF Misnamed(es) = {} THEN Over(x)
  ELSE Becomes(x, [op[x] EXCEPT !.pc = "files", !.todo = Misnamed(es),
                                !.kept = {e.path : e \in es \ Misnamed(es)}])

Rebased(cs, d) == {[c EXCEPT !.path = <<d, c.path[2]>>] : c \in cs}

\* The directory is renamed, unless the name is taken or it cannot be.  Then
\* an episode recorded elsewhere makes the new paths fail (relative_to).
RenameDir(x) ==
  LET src == op[x].src
      to  == op[x].dest
  IN
  /\ Reached(x, "dir")
  /\ \/ /\ src = to
        /\ ToFiles(x, op[x].todo)
        /\ UNCHANGED onDisk
     \/ /\ src # to
        /\ to \in dirs \/ src \notin dirs
        /\ Over(x)
        /\ UNCHANGED onDisk
     \/ /\ src # to /\ Spend
        /\ Over(x)
        /\ UNCHANGED <<disk, dirs>>
     \/ /\ src # to /\ to \notin dirs /\ src \in dirs
        /\ dirs' = (dirs \ {src}) \cup {to}
        /\ disk' = (disk \ FilesIn(src)) \cup Rebased(FilesIn(src), to)
        /\ IF \E e \in op[x].todo : DirOf(e.path) # src THEN Over(x) ELSE Goto(x, "paths")
        /\ UNCHANGED trouble
  /\ UNCHANGED <<number, db, busy, mishap>>

\* One transaction: refused if a row of it is gone or a path is taken.
RenamePaths(x) ==
  LET r   == op[x].row
      old == op[x].todo
      new == Rebased(old, op[x].dest)
      ok  == /\ r \in Live /\ old \subseteq eps /\ RowsAt(op[x].dest) = {}
             /\ \A e \in new : EpsAt(e.path) = {}
  IN
  /\ Reached(x, "paths")
  /\ \/ /\ ~ok
        /\ Over(x) /\ UNCHANGED db
     \/ /\ ok
        /\ rows' = [rows EXCEPT ![r].dir = op[x].dest]
        /\ eps'  = (eps \ old) \cup new
        /\ ToFiles(x, new)
  /\ UNCHANGED <<number, onDisk, busy, mishap>>

\* The files one after the other, until one cannot be renamed.
RenameFile(x) ==
  /\ Reached(x, "files")
  /\ busy' = x
  /\ \E e \in op[x].todo :
       LET p == FreePath(Named(DirOf(e.path), e.num), e.path, op[x].kept) IN
       \/ /\ MoveDone(e.path, p)
          /\ Becomes(x, [op[x] EXCEPT !.pc = IF op[x].todo = {e} THEN "names" ELSE @,
                                      !.todo = @ \ {e}, !.kept = @ \cup {p},
                                      !.moved = @ \cup {<<e, p>>}])
       \/ MoveFails(e.path, p) /\ Goto(x, "names")
  /\ UNCHANGED <<number, db, mishap>>

\* Their paths are committed together.
RenameNames(x) ==
  LET old == {m[1] : m \in op[x].moved}
      new == {[m[1] EXCEPT !.path = m[2]] : m \in op[x].moved}
      ok  == old \subseteq eps /\ \A e \in new : EpsAt(e.path) \subseteq old
  IN
  /\ Reached(x, "names")
  /\ eps' = IF ok THEN (eps \ old) \cup new ELSE eps
  /\ Over(x) /\ busy' = NoActor
  /\ UNCHANGED <<number, onDisk, rows, mishap>>

Rename(x) ==
  RenameBegins(x) \/ RenameDir(x) \/ RenamePaths(x) \/ RenameFile(x) \/ RenameNames(x)

-----------------------------------------------------------------------------
(* The scanner, identification, downloads and crashes.                      *)

NumberAt(p) == number[(CHOOSE c \in At(p) : TRUE).video]

\* The episode rows of r made to match its files, by path.
Recorded(r, files) ==
  {IF e.path \in files THEN [e EXCEPT !.num = NumberAt(e.path)] ELSE e :
     e \in {f \in eps : f.row = r => f.path \in files}}
  \cup {[path |-> p, row |-> r, num |-> NumberAt(p)] : p \in {q \in files : EpsAt(q) = {}}}

\* A directory that is gone takes its row along; one without a row gets one
\* if there are videos in it.
Check(d) ==
  LET files == {c.path : c \in FilesIn(d)} IN
  /\ busy = NoActor
  /\ \/ /\ d \notin dirs
        /\ \/ RowsAt(d) = {} /\ UNCHANGED db
           \/ \E r \in RowsAt(d) : RowDeleted(r)
     \/ /\ d \in dirs /\ RowsAt(d) = {} /\ files = {}
        /\ UNCHANGED db
     \/ /\ d \in dirs /\ RowsAt(d) = {} /\ files # {}
        /\ \E r \in Ids \ Used :
             /\ \A q \in Ids \ Used : r <= q
             /\ rows' = [rows EXCEPT ![r] = [dir |-> d, known |-> FALSE]]
             /\ eps'  = Recorded(r, files)
     \/ /\ d \in dirs
        /\ \E r \in RowsAt(d) : eps' = Recorded(r, files)
        /\ UNCHANGED rows
  /\ db' # db /\ Meeting
  /\ UNCHANGED <<number, disk, dirs, op, busy>>

\* identify_anime, before it sorts and renames.
Identify(r) ==
  /\ busy = NoActor /\ r \in Live /\ ~rows[r].known
  /\ rows' = [rows EXCEPT ![r].known = TRUE]
  /\ Between
  /\ UNCHANGED <<number, disk, dirs, eps, op, busy, mishap>>

\* A download is finished; it does not replace another file.
Arrive(v) ==
  /\ busy = NoActor
  /\ At(Named(Download, v)) = {} /\ \A c \in disk : c.video # v
  /\ disk' = disk \cup {[path |-> Named(Download, v), video |-> v, whole |-> TRUE]}
  /\ dirs' = dirs \cup {Download}
  /\ Between
  /\ UNCHANGED <<number, db, op, busy, mishap>>

\* The moves between the two folders an actor may be in the middle of.
Moves(x) ==
  CASE op[x].pc \in {"merge", "moving"} -> {<<e.path, Target(x, e)>> : e \in op[x].todo}
    [] op[x].pc = "back" -> {<<m[2], FreePath(m[1].path, m[2], {})>> : m \in op[x].moved}
    [] op[x].pc = "leftover" ->
         {<<c.path, NewPlace(x, c)>> : c \in Leftover(x)}
    [] OTHER -> {}

\* The process ends in an operation, perhaps in the middle of a move.  (At
\* other times nothing here is lost with it.)
Crash ==
  /\ ~Quiet /\ Spend
  /\ \/ UNCHANGED disk
     \/ \E x \in Actors : \E m \in Moves(x) : \E c \in At(m[1]) : disk' \in CutMove(c, m[2])
  /\ dirs' = dirs \cup {DirOf(c.path) : c \in disk'}
  /\ op' = [x \in Actors |-> Idle] /\ busy' = NoActor
  /\ Befalls("crash")
  /\ UNCHANGED <<number, db>>

Next ==
  \/ \E x \in Actors : Sort(x) \/ Rename(x)
  \/ \E d \in Dirs : Check(d)
  \/ \E r \in Ids : Identify(r)
  \/ \E v \in Videos : Arrive(v)
  \/ Crash

\* Some videos are in directories that were scanned, and perhaps identified.
Homes == <<Download, <<"content", "raw">>, <<"content", "title">>>>

Init ==
  /\ number \in [Videos -> Episodes \cup {NoEpisode}]
  /\ \E here \in SUBSET Videos :
     \E home \in [here -> 1..3], known \in {k \in [1..3 -> BOOLEAN] : k[1]} :
       LET path(v) == Named(Homes[home[v]], v)
           used    == {home[v] : v \in here}
       IN
       /\ disk = {[path |-> path(v), video |-> v, whole |-> TRUE] : v \in here}
       /\ dirs = {Homes[i] : i \in used}
       /\ rows = [r \in Ids |-> IF r \in used THEN [dir |-> Homes[r], known |-> known[r]]
                                              ELSE NoRow]
       /\ eps  = {[path |-> path(v), row |-> home[v], num |-> number[v]] : v \in here}
  /\ op = [x \in Actors |-> Idle] /\ busy = NoActor
  /\ trouble = Trouble /\ mishap = "none"

Spec == Init /\ [][Next]_vars

-----------------------------------------------------------------------------
(* Properties.                                                              *)

Whole(v) == \E c \in disk : c.video = v /\ c.whole

(* No step loses a video, whatever fails, whoever comes between, and wherever
   a move is cut short: "a failed copy never loses the file", "an existing,
   different file at the destination is never overwritten" (move_file). *)
NoVideoLost == [][\A v \in Videos : Whole(v) => Whole(v)']_vars

InUse(r) == \E x \in Actors : op[x].row = r \/ op[x].to = r

\* A row no operation works on has all its files, in its directory.
Together ==
  \A r \in Live : ~InUse(r) =>
    \A e \in EpsOf(r) : DirOf(e.path) = rows[r].dir /\ At(e.path) # {}

(* Merging, moving with its way back, and renaming leave an anime in one place,
   on disk and in the catalogue, also when moves fail and when directories are
   scanned and files arrive in between operations. *)
NeverSplit == mishap = "none" => Together

(* The rows follow the files: no step of an operation or of the scanner makes
   the catalogue forget a file that is still where it was recorded. *)
NoFileForgotten ==
  [][mishap' = "none" =>
       \A e \in eps : EpsAt(e.path)' = {} => At(e.path)' = {}]_vars
=============================================================================
