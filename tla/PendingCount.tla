----------------------------- MODULE PendingCount -----------------------------
(***************************************************************************)
(* What waits for a decision of the user, and its number on the badge:      *)
(* the queues of services/sorter.py, db/completeness.py and                 *)
(* db/repositories.py over one library, and the cached total of             *)
(* services/pending_actions.py, which is computed over several awaits while *)
(* the library changes under it.                                            *)
(*                                                                         *)
(* A change of the library is committed first and announced on the bus (or  *)
(* by a call of invalidate()) later, or never.                              *)
(***************************************************************************)
EXTENDS Integers, FiniteSets, Sequences

CONSTANTS
  Animes,     \* ids of catalogue entries
  Files,      \* ids of episode files
  Readers,    \* requests for the badge
  Parsed,     \* the number the parser reads from the name a file came with
  FoundAids,  \* ids the provider may give an entry
  Lists,      \* episode lists it may have
  AirDate,    \* whether an episode has a date, and has been aired by then
  Starts,     \* libraries to start from
  TTL,        \* _CACHE_TTL_S, in ticks
  MaxChanges  \* bound on changes of the library

VARIABLES
  lib,      \* the database: animes, files, wishes, the order of titles for folders
  lone,     \* identified, and assign_lone_file is still to come
  untold,   \* announcements still to come, by kind
  cached,   \* _cached: the total and the age of its stamp
  readers,  \* the requests
  quiet,    \* ghost: ticks since the last change, up to TTL
  clean,    \* ghost: nothing has changed since an announcement at which nothing
            \* was being computed
  changes   \* changes so far

countVars == <<lib, lone, untold, cached, readers, quiet, clean, changes>>

None == "none"
Orders == {"main", "en"}
DigitValue == [t \in {"0", "1", "01", "2"} |->
                 CASE t = "0" -> 0 [] t \in {"1", "01"} -> 1 [] OTHER -> 2]
Texts == DOMAIN DigitValue \cup {"S1", "extra"}
Text(n) == CASE n = 0 -> "0" [] n = 1 -> "1" [] OTHER -> "2"

\* Entries of a list that are one episode under two spellings have one date.
ASSUME DateAssumption ==
  /\ AirDate \in [Texts -> {"out", "to come", None}]
  /\ \A s, t \in DOMAIN DigitValue : DigitValue[s] = DigitValue[t] => AirDate[s] = AirDate[t]

\* A name: the title and the episode it is made of, and the numbers in
\* brackets after it.  Loose: any other name.
Loose == [title |-> None, num |-> -1, tail |-> <<>>]
NoAnime == [status |-> "gone", aid |-> 0, download |-> FALSE, known |-> FALSE,
            dir |-> None, list |-> {}]
NoFile == [anime |-> 0, num |-> None, manual |-> FALSE, name |-> Loose]

Entry == [status : {"gone", "pending", "review", "identified"}, aid : FoundAids \cup {0},
          download : BOOLEAN, known : BOOLEAN, dir : Orders \cup {None}, list : SUBSET Texts]
Name == [title : Orders \cup {None}, num : {-1, 0, 1, 2}, tail : Seq(Nat)]
EpisodeFile == [anime : Animes \cup {0}, num : Texts \cup {None}, manual : BOOLEAN, name : Name]
Library == [animes : [Animes -> Entry], files : [Files -> EpisodeFile], order : Orders,
            wishes : SUBSET FoundAids]

ASSUME CountAssumption ==
  /\ IsFiniteSet(Animes) /\ 0 \notin Animes /\ IsFiniteSet(Files) /\ Files \subseteq Nat
  /\ Lists \subseteq SUBSET Texts /\ Parsed \in [Files -> Texts \cup {None}]
  /\ TTL \in Nat /\ MaxChanges \in Nat
  /\ Starts \subseteq Library

Listed(L) == {a \in Animes : L.animes[a].status # "gone"}
Of(L, a) == {f \in Files : L.files[f].anime = a}
Identified(L) == {a \in Animes : L.animes[a].status = "identified"}

-----------------------------------------------------------------------------
(* completeness.py, in SQL *)

Plain(t) == t \in DOMAIN DigitValue
Cast(t) == IF t \in DOMAIN DigitValue THEN DigitValue[t] ELSE IF t = None THEN -1 ELSE 0

Numbered(L, a) == {t \in L.animes[a].list : Plain(t)}
\* Mutant: the number of the file is cast whether it is digits or not.
LocalFileCast(L, a, t) == \E f \in Of(L, a) : Cast(L.files[f].num) = Cast(t)
LocalFileExists(L, a, t) == \E f \in Of(L, a) : Plain(L.files[f].num) /\ Cast(L.files[f].num) = Cast(t)
Numbers(T) == {Cast(t) : t \in T}

ForAnimes(L, a) ==
  LET expected == Cardinality(Numbers(Numbered(L, a)))
      present == Cardinality(Numbers({t \in Numbered(L, a) : LocalFileExists(L, a, t)}))
  IN  [expected |-> expected, present |-> present, missing |-> expected - present]

MissingRows(L, a) == {t \in Numbered(L, a) : ~LocalFileExists(L, a, t)}
MissingCount(L, a) == Cardinality(Numbers(MissingRows(L, a)))
Incomplete(L) == {a \in Identified(L) : MissingRows(L, a) # {}}

\* The rows of missing_for_anime: of those with one number, one.
MissingForAnime(L, a) ==
  {CHOOSE t \in MissingRows(L, a) : DigitValue[t] = n : n \in Numbers(MissingRows(L, a))}
AllMissing(L) == UNION {{<<a, DigitValue[t]>> : t \in MissingRows(L, a)} : a \in Identified(L)}

\* For picking the right one by hand.
EpisodeChoices(L, a) == {IF Plain(t) THEN Text(DigitValue[t]) ELSE t : t \in L.animes[a].list}

Unassigned(L) ==
  {f \in Files : LET F == L.files[f] IN
     /\ F.anime \in Identified(L) /\ ~F.manual
     /\ Numbered(L, F.anime) # {}
     /\ ~\E t \in Numbered(L, F.anime) : Plain(F.num) /\ Cast(F.num) = Cast(t)}

\* assign_lone_file
Alone(L, a) ==
  IF \E f \in Files, n \in Numbers(Numbered(L, a)) :
       /\ Of(L, a) = {f} /\ L.files[f].num = None /\ ~L.files[f].manual
       /\ Numbers(Numbered(L, a)) = {n}
  THEN [L EXCEPT !.files[CHOOSE f \in Files : Of(L, a) = {f}].num =
                    Text(CHOOSE n \in Numbers(Numbered(L, a)) : TRUE)]
  ELSE L

-----------------------------------------------------------------------------
(* sorter.py, in Python *)

Normalize(t) == IF t \in DOMAIN DigitValue THEN DigitValue[t] ELSE -1
Matched(L, a) == {f \in Of(L, a) : /\ Normalize(L.files[f].num) # -1
                                   /\ \E t \in L.animes[a].list : Normalize(t) = Normalize(L.files[f].num)}

SortRows(L) == {a \in Identified(L) : L.animes[a].download /\ L.animes[a].aid # 0}
SortQueue(L) == {a \in SortRows(L) : Of(L, a) # {}}
CountSortQueue(L) == Cardinality({a \in SortRows(L) : \E f \in Files : L.files[f].anime = a})
SortProposal(L, a) == a \in Identified(L) /\ L.animes[a].aid # 0 /\ L.animes[a].download /\ Of(L, a) # {}

TargetName(L, f) == [title |-> L.order, num |-> Normalize(L.files[f].num), tail |-> <<>>]
Suffixed(name, tail) == [name EXCEPT !.tail = tail]
IsNameVariant(name, target) == Suffixed(name, <<>>) = target /\ Len(name.tail) <= 1

\* The name, or the first of those with " (2)", " (3)" and so on after it.
FreeName(name, taken) ==
  LET slots == [k \in 1 .. Cardinality(Files) + 1 |->
                  IF k = 1 THEN name ELSE Suffixed(name, Append(name.tail, k))]
  IN  slots[CHOOSE k \in DOMAIN slots :
              slots[k] \notin taken /\ \A j \in 1 .. k - 1 : slots[j] \in taken]

\* _compute_rename_plan, in the order of the files: the first that has a proper
\* name keeps it, the others get what is free; the plan lists the files whose
\* name changes.
Settled(L, a) == {f \in Matched(L, a) :
  /\ IsNameVariant(L.files[f].name, TargetName(L, f))
  /\ \A g \in Matched(L, a) : g < f /\ L.files[g].name = L.files[f].name =>
       ~IsNameVariant(L.files[g].name, TargetName(L, g))}
Unsettled(L, a) == Matched(L, a) \ Settled(L, a)
Planned(L, a) ==
  LET name[f \in Unsettled(L, a)] ==
        FreeName(TargetName(L, f), {L.files[g].name : g \in Settled(L, a)}
                                   \cup {name[g] : g \in {h \in Unsettled(L, a) : h < f}})
  IN  name
FileRenames(L, a) == {f \in Unsettled(L, a) : Planned(L, a)[f] # L.files[f].name}

HasKnownVariants(L, a) == L.animes[a].known
RenameRows(L) == {a \in Identified(L) : L.animes[a].aid # 0 /\ HasKnownVariants(L, a)}
NeedsRename(L, a, dir) == Of(L, a) # {} /\ (dir # L.order \/ FileRenames(L, a) # {})
RenameQueue(L) == {a \in RenameRows(L) : NeedsRename(L, a, L.animes[a].dir)}
RenameProposal(L, a) ==
  a \in Identified(L) /\ L.animes[a].aid # 0 /\ HasKnownVariants(L, a)
  /\ NeedsRename(L, a, L.animes[a].dir)

\* _dedupe_path among the names the other files of the directory have.
\* Mutant: it numbers a name that is free as well.
DedupedAlways(name, others) == FreeName(name, others \cup {name})

Deduped(name, others) == FreeName(name, others \ {Loose})
\* The names after the files S were moved to their new ones, one by one.
MovedTo(L, a, old, S, new) ==
  LET now[f \in S] ==
        Deduped(new[f], {IF g \in S /\ g < f THEN now[g] ELSE old[g] : g \in Of(L, a) \ {f}})
  IN  now
Moved(L, a, old, S, new) ==
  LET now == MovedTo(L, a, old, S, new)
  IN  [f \in Files |-> IF f \in S THEN now[f] ELSE old[f]]
WithNames(L, names) ==
  [L EXCEPT !.files = [f \in Files |-> [L.files[f] EXCEPT !.name = names[f]]]]
\* The library after the directory and the files S were renamed.
Renamed(L, a, S) ==
  [WithNames(L, Moved(L, a, [f \in Files |-> L.files[f].name], S, Planned(L, a)))
     EXCEPT !.animes[a].dir = L.order]

\* The directory of another entry has the name: RenameConflict.  Downloads are
\* in one directory, the library in another.
Refused(L, a) ==
  /\ L.animes[a].dir # L.order
  /\ \E b \in Listed(L) \ {a} : /\ L.animes[b].aid = L.animes[a].aid /\ L.animes[b].dir = L.order
                              /\ L.animes[b].download = L.animes[a].download

\* A move that fails ends the rename: those before it remain.
Reached(L, a) == {FileRenames(L, a)} \cup {{f \in FileRenames(L, a) : f < g} : g \in FileRenames(L, a)}

-----------------------------------------------------------------------------
(* repositories.py *)

NeedingReview(L) == {a \in Animes : L.animes[a].status = "review"}
Sharing(L, aid) == {a \in Listed(L) : L.animes[a].aid = aid}
UsedAids(L) == {L.animes[a].aid : a \in Listed(L)} \ {0}
CountDuplicateGroups(L) == Cardinality({aid \in UsedAids(L) : Cardinality(Sharing(L, aid)) > 1})
DuplicateGroups(L) == {Sharing(L, L.animes[a].aid) : a \in
  {b \in Listed(L) : L.animes[b].aid # 0 /\ \E c \in Listed(L) \ {b} : L.animes[c].aid = L.animes[b].aid}}

\* search, without the filters that are one column's value
Search(L, missingOnly) == {a \in Listed(L) : missingOnly => MissingRows(L, a) # {}}

-----------------------------------------------------------------------------
(* The pages: api/animes.py, downloads/service.py and services/wishlist.py *)

\* No badge rather than a misleading "0 of 0".
Badge(L, a) == IF ForAnimes(L, a).expected = 0 THEN {} ELSE {ForAnimes(L, a)}
ListAnimes(L, missingOnly) == {[id |-> a, completeness |-> Badge(L, a)] : a \in Search(L, missingOnly)}
MissingEpisodes(L, a) ==
  [present |-> ForAnimes(L, a).present, expected |-> ForAnimes(L, a).expected,
   missing |-> MissingForAnime(L, a)]
ListMissingEpisodes(L) ==
  {[id |-> a, present |-> ForAnimes(L, a).present, missing |-> MissingCount(L, a)] : a \in Incomplete(L)}
UnassignedFiles(L) ==
  {[id |-> a, files |-> Unassigned(L) \cap Of(L, a), episodes |-> EpisodeChoices(L, a)] :
     a \in {L.files[f].anime : f \in Unassigned(L)}}
PendingActions(L, a) == [rename |-> RenameProposal(L, a), sort |-> SortProposal(L, a)]

LibraryAnime(L, aid) == {a \in Listed(L) : L.animes[a].aid = aid}
Wishlist(L) == {[aid |-> aid, inLibrary |-> LibraryAnime(L, aid) # {}] : aid \in L.wishes}

\* Out, or without a date and before one that is out, or in a list without dates.
HasAired(L, a, t) ==
  LET list == L.animes[a].list
  IN  \/ \A s \in list : AirDate[s] = None
      \/ AirDate[t] = "out"
      \/ AirDate[t] = None /\ \E s \in list : AirDate[s] = "out" /\ Cast(t) <= Cast(s)
Wanted(L) ==
  [missing |-> {m \in AllMissing(L) : \E t \in MissingRows(L, m[1]) :
                                        DigitValue[t] = m[2] /\ HasAired(L, m[1], t)},
   wishlist |-> {w.aid : w \in {v \in Wishlist(L) : ~v.inLibrary}}]

-----------------------------------------------------------------------------
(* Changes of the library *)

Kinds == {"anime", "direct"}
NoRequest == [at |-> "idle", sum |-> 0, rows |-> {}, age |-> 0, settled |-> FALSE]
NoTotal == [total |-> -1, age |-> 0]

CountInit ==
  /\ lib \in Starts /\ lone = {} /\ untold = [k \in Kinds |-> 0] /\ cached = NoTotal
  /\ readers = [r \in Readers |-> NoRequest] /\ quiet = TTL /\ clean = TRUE /\ changes = 0

\* The commit of a change; its announcement comes later, kind None has none.
Commit(L, kind) ==
  /\ changes < MaxChanges /\ L # lib
  /\ lib' = L /\ changes' = changes + 1
  /\ untold' = [k \in Kinds |-> IF k = kind THEN untold[k] + 1 ELSE untold[k]]
  /\ quiet' = 0 /\ clean' = FALSE
  /\ readers' = [r \in Readers |-> [readers[r] EXCEPT !.settled = FALSE]]
  /\ UNCHANGED cached

\* What is on disk has the title of the anime it was taken for before.
Mistitled(L, a) ==
  [L EXCEPT !.animes[a].dir = None,
            !.files = [f \in Files |-> IF f \in Of(L, a) THEN [L.files[f] EXCEPT !.name.title = None]
                                      ELSE L.files[f]]]
Identify(a, aid, list, known) ==
  /\ a \in Listed(lib)
  /\ Commit([IF lib.animes[a].aid \in {0, aid} THEN lib ELSE Mistitled(lib, a) EXCEPT !.animes[a] = [@ EXCEPT !.status = "identified", !.aid = aid,
                                                !.list = list, !.known = known]], "anime")
  /\ lone' = lone \cup {a}

Review(a) ==
  /\ a \in Listed(lib) \ Identified(lib)
  /\ Commit([lib EXCEPT !.animes[a].status = "review"], "anime")
  /\ UNCHANGED lone

\* The end of an identification, after its event.
AssignLone(a) ==
  /\ a \in lone /\ lone' = lone \ {a}
  /\ IF Alone(lib, a) = lib THEN UNCHANGED <<lib, untold, cached, readers, quiet, clean, changes>>
     ELSE Commit(Alone(lib, a), None)

ParsedFrom(f, name) == IF name = Loose THEN Parsed[f] ELSE Text(name.num)
Reread(L, S) ==
  [L EXCEPT !.files = [f \in Files |->
     IF f \in S /\ ~L.files[f].manual
     THEN [L.files[f] EXCEPT !.num = ParsedFrom(f, L.files[f].name)] ELSE L.files[f]]]

\* A scan finds the files S in the directory of a.
Scan(a, S) ==
  LET found == [lib EXCEPT !.files = [f \in Files |->
                  CASE f \in S \ Of(lib, a) -> [NoFile EXCEPT !.anime = a]
                    [] f \in Of(lib, a) \ S -> NoFile
                    [] OTHER -> lib.files[f]]]
  IN  /\ a \in Listed(lib) /\ \A f \in S : lib.files[f].anime \in {0, a}
      /\ Commit(Alone(Reread(found, S), a), "anime")
      /\ UNCHANGED lone

Without(L, a) ==
  [L EXCEPT !.animes[a] = NoAnime,
            !.files = [f \in Files |-> IF L.files[f].anime = a THEN NoFile ELSE L.files[f]]]
\* A directory is gone: the scanner says so.
Removed(a) == a \in Listed(lib) /\ Commit(Without(lib, a), "anime") /\ lone' = lone \ {a}
\* DELETE of an entry says nothing.
Delete(a) == a \in Listed(lib) /\ Commit(Without(lib, a), None) /\ lone' = lone \ {a}

\* PATCH of a number: digits, "extra", or an episode of the list.
ValidNumbers(L, a) == {"0", "1", "2", "extra"} \cup {t \in L.animes[a].list : ~Plain(t)}
Assigned(L, f, t) == [L EXCEPT !.files[f].num = t, !.files[f].manual = (t # None)]
Assign(f, t) ==
  /\ lib.files[f].anime # 0
  /\ t \in (ValidNumbers(lib, lib.files[f].anime) \cup {None})
  /\ Commit(Assigned(lib, f, t), None)
  /\ UNCHANGED lone

\* A wish is taken unless it is there already or the library has the anime.
Wish(aid) ==
  /\ aid \notin lib.wishes /\ LibraryAnime(lib, aid) = {}
  /\ Commit([lib EXCEPT !.wishes = @ \cup {aid}], None)
  /\ UNCHANGED lone
Unwish(aid) == Commit([lib EXCEPT !.wishes = @ \ {aid}], None) /\ UNCHANGED lone

\* rename_anime.  It may also be refused, and change nothing, because of what
\* the library does not know.
Rename(a) ==
  /\ a \in Listed(lib) /\ lib.animes[a].aid # 0 /\ HasKnownVariants(lib, a)
  /\ ~Refused(lib, a)
  /\ \E S \in Reached(lib, a) : Commit(Renamed(lib, a, S), "anime")
  /\ UNCHANGED lone

\* Relocation into a new directory of a content folder, which does not have
\* the anime yet: every file has to match.
Relocate(a) ==
  LET out == [f \in Files |-> IF f \in Of(lib, a) THEN Loose ELSE lib.files[f].name]
      targets == [f \in Of(lib, a) |-> TargetName(lib, f)]
  IN  /\ SortProposal(lib, a) /\ Matched(lib, a) = Of(lib, a)
      /\ \A b \in Listed(lib) : lib.animes[b].aid = lib.animes[a].aid => lib.animes[b].download
      /\ Commit([WithNames(lib, Moved(lib, a, out, Of(lib, a), targets)) EXCEPT
                   !.animes[a] = [@ EXCEPT !.download = FALSE, !.dir = lib.order]], "anime")
      /\ UNCHANGED lone

Backfilled(L, S) == [L EXCEPT !.animes = [a \in Animes |->
                       IF a \in S /\ L.animes[a].aid # 0 THEN [L.animes[a] EXCEPT !.known = TRUE]
                       ELSE L.animes[a]]]
\* Another order of titles: resync_titles() also recovers the variants of S.
SetOrder(S) ==
  /\ Commit(Backfilled([lib EXCEPT !.order = CHOOSE o \in Orders : o # lib.order], S), "direct")
  /\ UNCHANGED lone
\* The backfill at the start announces itself only if a displayed title changed.
Backfill(S, kind) == Commit(Backfilled(lib, S), kind) /\ UNCHANGED lone
\* What was kept of the provider's answers gives an entry its missing list,
\* and every number is read again from its name.
Relisted(L, S, list) == [L EXCEPT !.animes = [a \in Animes |->
                          IF a \in S /\ L.animes[a].aid # 0 /\ L.animes[a].list = {}
                          THEN [L.animes[a] EXCEPT !.list = list] ELSE L.animes[a]]]
Repair(S, list) ==
  /\ Commit(Reread(Relisted(Backfilled(lib, S), S, list),
                  {f \in Files : lib.files[f].anime # 0}), "direct")
  /\ UNCHANGED lone

Change ==
  \/ \E a \in Animes :
       \/ \E aid \in FoundAids, list \in Lists, known \in BOOLEAN : Identify(a, aid, list, known)
       \/ Review(a) \/ AssignLone(a) \/ Removed(a) \/ Delete(a) \/ Rename(a) \/ Relocate(a)
       \/ \E S \in SUBSET Files : Scan(a, S)
  \/ \E f \in Files, t \in Texts \cup {None} : Assign(f, t)
  \/ \E aid \in FoundAids : Wish(aid) \/ Unwish(aid)
  \/ \E S \in SUBSET Animes : SetOrder(S) \/ \E list \in Lists : Repair(S, list)
  \/ \E S \in SUBSET Animes, kind \in {"anime", None} : Backfill(S, kind)

-----------------------------------------------------------------------------
(* The badge *)

\* An event whose name starts with "anime." or "folder.", or a call.
\* Mutant: only the calls count.
DropsOnCall(kind) == kind = "direct"

Drops(kind) == kind \in Kinds
InFlight == {r \in Readers : readers[r].at \notin {"idle", "done"}}

Publish(kind) ==
  /\ untold[kind] > 0 /\ untold' = [untold EXCEPT ![kind] = @ - 1]
  /\ cached' = IF Drops(kind) THEN NoTotal ELSE cached
  /\ clean' = (InFlight = {})
  /\ UNCHANGED <<lib, lone, readers, quiet, changes>>

Valid == cached.total # -1 /\ cached.age < TTL

\* pending_actions_total: a valid total is the answer at once.
Ask(r) ==
  /\ r \notin InFlight
  /\ readers' = [readers EXCEPT ![r] =
       [NoRequest EXCEPT !.at = IF Valid THEN "done" ELSE "review",
                    !.sum = IF Valid THEN cached.total ELSE 0, !.settled = (quiet = TTL)]]
  /\ UNCHANGED <<lib, lone, untold, cached, quiet, clean, changes>>

\* _compute_total: the counts one after the other; the rename queue takes its
\* rows before it takes the files.
RowsToName(L) == {<<a, L.animes[a].dir>> : a \in RenameRows(L)}
Steps == <<"review", "duplicates", "sort", "rows", "rename", "unassigned", "store">>
Next1(at) == Steps[(CHOOSE i \in DOMAIN Steps : Steps[i] = at) + 1]
Part(r) ==
  CASE readers[r].at = "review" -> Cardinality(NeedingReview(lib))
    [] readers[r].at = "duplicates" -> CountDuplicateGroups(lib)
    [] readers[r].at = "sort" -> CountSortQueue(lib)
    [] readers[r].at = "rename" ->
         Cardinality({row \in readers[r].rows : row[1] \in RenameRows(lib) /\ NeedsRename(lib, row[1], row[2])})
    [] readers[r].at = "unassigned" -> Cardinality(Unassigned(lib))
    [] OTHER -> 0
Count(r) ==
  /\ r \in InFlight /\ readers[r].at # "store"
  /\ readers' = [readers EXCEPT ![r].at = Next1(@), ![r].sum = @ + Part(r),
                   ![r].rows = IF readers[r].at = "rows" THEN RowsToName(lib) ELSE {}]
  /\ UNCHANGED <<lib, lone, untold, cached, quiet, clean, changes>>

\* `now` was taken before the first count.
\* Mutant: the stamp is taken when the total is there.
StampAtEnd(r) == 0

Stamp(r) == readers[r].age
Store(r) ==
  /\ readers[r].at = "store"
  /\ cached' = [total |-> readers[r].sum, age |-> Stamp(r)]
  /\ readers' = [readers EXCEPT ![r] = [NoRequest EXCEPT !.at = "done", !.sum = readers[r].sum,
                                                    !.settled = readers[r].settled]]
  /\ UNCHANGED <<lib, lone, untold, quiet, clean, changes>>

Older(n) == IF n < TTL THEN n + 1 ELSE TTL
Tick ==
  /\ cached' = [cached EXCEPT !.age = IF cached.total = -1 THEN 0 ELSE Older(@)]
  /\ readers' = [r \in Readers |-> IF r \in InFlight THEN [readers[r] EXCEPT !.age = Older(@)]
                                   ELSE readers[r]]
  /\ quiet' = Older(quiet)
  /\ UNCHANGED <<lib, lone, untold, clean, changes>>

CountNext ==
  \/ Change \/ Tick
  \/ \E k \in Kinds : Publish(k)
  \/ \E r \in Readers : Ask(r) \/ Count(r) \/ Store(r)

CountSpec == CountInit /\ [][CountNext]_countVars

-----------------------------------------------------------------------------
(* Properties *)

Stages == {"idle", "done"} \cup {Steps[i] : i \in 1 .. Len(Steps)}
CountTypeOK ==
  /\ lib \in Library /\ lone \subseteq Animes /\ untold \in [Kinds -> Nat]
  /\ cached \in [total : Nat \cup {-1}, age : 0 .. TTL]
  /\ readers \in [Readers -> [at : Stages, sum : Nat,
                              rows : SUBSET (Animes \X (Orders \cup {None})),
                              age : 0 .. TTL, settled : BOOLEAN]]
  /\ quiet \in 0 .. TTL /\ clean \in BOOLEAN /\ changes \in 0 .. MaxChanges

Total(L) ==
  Cardinality(NeedingReview(L)) + CountDuplicateGroups(L) + CountSortQueue(L)
  + Cardinality(RenameQueue(L)) + Cardinality(Unassigned(L))

Unasked == \A r \in Readers : readers[r] = NoRequest

\* The counts behind the badge are the lengths of the lists the pages show,
\* and the page of one entry proposes what those lists propose
\* (count_sort_queue() is the "equivalent of len(await list_sort_queue(...))").
QueuesAgree(L) ==
  /\ CountSortQueue(L) = Cardinality(SortQueue(L))
  /\ CountDuplicateGroups(L) = Cardinality(DuplicateGroups(L))
  /\ \A a \in Listed(L) : /\ PendingActions(L, a).sort <=> a \in SortQueue(L)
                          /\ PendingActions(L, a).rename <=> a \in RenameQueue(L)

\* The cards in the library, all or those with something missing, the page of
\* the entry, the overview and the download page agree on what is missing.
MissingIsOne(L, a) ==
  LET page == MissingEpisodes(L, a)
      missing == Cardinality(page.missing)
  IN  /\ missing = page.expected - page.present
      /\ \A card \in ListAnimes(L, FALSE) : card.id = a => \A c \in card.completeness : c.missing = missing
      /\ (\E card \in ListAnimes(L, TRUE) : card.id = a) <=> missing > 0
      /\ a \in Identified(L) =>
           /\ {row \in ListMissingEpisodes(L) : row.id = a} =
                IF missing = 0 THEN {} ELSE {[id |-> a, present |-> page.present, missing |-> missing]}
           /\ missing = Cardinality({m \in AllMissing(L) : m[1] = a})
MissingAgree(L) == \A a \in Listed(L) : MissingIsOne(L, a)

\* The download page never offers a series both by its missing episodes and as
\* a wish, though the wishes are looked up in the library by another query.
WantedOnce(L) == \A m \in Wanted(L).missing : L.animes[m[1]].aid \notin Wanted(L).wishlist

\* Every episode the page offers for a file without one is accepted for it,
\* settles it, and is not missing any more if it is a regular one.
ChoicesFit(L) == \A group \in UnassignedFiles(L) : \A f \in group.files, t \in group.episodes :
  LET then == Assigned(L, f, t)
  IN  /\ t \in ValidNumbers(L, group.id)
      /\ f \notin Unassigned(then)
      /\ Plain(t) => f \in Matched(then, group.id) /\ <<group.id, DigitValue[t]>> \notin AllMissing(then)

\* The comparison in SQL does what match_local_episodes() does in Python: a
\* file is matched, or was settled by hand, or waits to be assigned.
MatchersAgree(L) == \A a \in Identified(L) : Numbered(L, a) # {} =>
  /\ \A f \in Of(L, a) :
       f \in Unassigned(L) <=> (f \notin Matched(L, a) /\ ~L.files[f].manual)
  /\ ForAnimes(L, a).present
       = Cardinality({Normalize(L.files[f].num) : f \in Matched(L, a)})

\* However the library came to its state, the views the code computes by
\* different queries give the same answer.  (A property of the library alone:
\* each library is looked at where nobody has asked for the badge.)
ViewsAgree == Unasked =>
  /\ QueuesAgree(lib) /\ MissingAgree(lib) /\ MatchersAgree(lib)
  /\ WantedOnce(lib) /\ ChoicesFit(lib)

\* An answer for a library that has not changed for the TTL when it was asked
\* for is right, announced or not, whatever was cached and by whom.
AnswersRight == \A r \in Readers :
  readers[r].at = "done" /\ readers[r].settled => readers[r].sum = Total(lib)

\* Once an announcement has dropped the cache while nothing was being
\* computed, what gets cached stays right until the next change.
DropHolds == clean /\ cached.total # -1 => cached.total = Total(lib)

\* Two rounds of renaming in which no move fails.
Round(L, a) == IF Refused(L, a) THEN L ELSE Renamed(L, a, FileRenames(L, a))
Settles(L, a) == a \notin RenameQueue(Round(Round(L, a), a))

\* Two rounds of renaming give every file of an entry its final name, and take
\* the entry out of the queue, if every file is an episode, no other entry has
\* taken the name of its directory and no move fails, whatever rounds cut
\* short by a failed move, corrections and scans have made of it before.  Where
\* another entry has that name it stays in the queue, and the rename is
\* refused (sorter.py:707-708).
EpisodesSettle ==
  Unasked => \A a \in RenameQueue(lib) :
               Matched(lib, a) = Of(lib, a) /\ ~Refused(lib, a) => Settles(lib, a)

\* The same for every entry that may be renamed (sorter.py: the second copy of
\* an episode "has to count as correctly named, or it would sit in the rename
\* queue forever").
QueueEmpties == \A a \in RenameQueue(lib) : ~Refused(lib, a) => Settles(lib, a)
=============================================================================
