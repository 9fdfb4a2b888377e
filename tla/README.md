# AnimeWatcherPlus: formal models

TLA+ models of the AnimeWatcherPlus core (`src/core/app`) and of the shell's
side of what the two do together (`src/shell/src-tauri/src`), checked with TLC
on small instances, and theorems about them proved with TLAPS for every instance.
Paths below are relative to the repository; `A/` stands for `src/core/app/`.

Contents: 1 the system and its parts, 2 the plan, 3 the modules and the code
they model, 4 the runs, 5 fairness, 6 what the proofs show, 7 where code and
documents disagree, 8 what is not modelled.

## 1. The system and its parts

The core is a Python process (FastAPI, SQLAlchemy on SQLite, one asyncio event
loop) that watches folders of anime, identifies them with AniDB, keeps a
catalogue, sorts and renames directories, and hands links to download clients.
A shell (Tauri, Rust; desktop and Android) starts the core or connects to one
on a server, and a React UI talks to it over HTTP and a WebSocket.

Nearly everything runs on one event loop, so code between two `await`s is
atomic; everything else interleaves. The actors are the API handlers, one
serial job worker, one debounce task per changed directory, two periodic
watchers, background hand-overs of links, and plugin threads.

| Component | State | Operations | Talks to | Hard behaviour | Correct means |
|---|---|---|---|---|---|
| Library scanner `A/services/scanner.py` | observers, debounce tasks, (in the database) anime and episode rows | full scan, event, debounced check, removal, identify job, start, stop | job queue, catalogue, disk | scan and check meet in one directory; listings go stale; a share drops; jobs keep old paths; crash | rows match the disk when all is quiet; manual numbers survive; pending anime are queued |
| Job queue `A/services/jobs.py` | FIFO in memory, the running job | enqueue, run one at a time, survive a failing job | everyone | lost on restart | one job at a time, a failure does not stop it |
| Catalogue `A/db/repositories.py` | folders, anime rows, duplicate flags, foreign keys | create, identify, recompute flags, delete, drop a folder | scanner, API, identification | read, await, write on stale objects | references hold; flags are derived |
| Identification `A/services/identification.py` | the row it loaded | automatic, manual, refresh | AniDB, catalogue, sidecars | the row changes or goes during the fetch | both groups are recomputed |
| AniDB provider `A/providers/anidb.py`, `base.py` | ban (memory and table), breaker, limiter, cache | fetch, retry, record and persist a ban, restore | job worker, API handlers | ban during a wait; cap under concurrency; restart | cap and ban hold; fetches end |
| Block watcher `A/services/anidb_watch.py` | was it blocked at the last check? | check every 30 s, resume | provider, scanner, wishlist | block begins and ends unseen | refused work is queued again |
| Wishlist `A/services/wishlist.py` | entries, detail jobs | add, fetch details, resume | AniDB, queue | refused details after a restart | details come in the end |
| Downloads `A/downloads/` | requests, hand-over tasks, plugin threads, watcher, late scans | send, resolve, hand over, poll, clear, dismiss, check, rescan | clients, resolvers, job queue | time-outs of threads nobody stops; stale rows; restart in a hand-over | the list keeps its word; files are scanned |
| Sorting and renaming `A/services/sorter.py` | directories, rows, paths | rename, sort, merge, move back | scanner, catalogue, disk | disk first, commit later; half-done moves | no video and no row is lost |
| Snapshot and pending import `A/services/snapshot.py`, `pull_library` in `src/shell/src-tauri/src/server.rs` | the database, `pending-import.zip` and its mappings, backups | fetch a library, take it over at the next start, export, import by an admin | shell, start of the core | power loss or a crash between any two files; an import that fails | the old library stays as a backup; the mappings are those of the library; a bad library costs one start |
| Core of the desktop app `src/shell/src-tauri/src/{lib,core_process}.rs`, `A/services/parent_watch.py` | the launcher, its Python process, what they watch | start, adopt, stop, restart, switch to a server | operating system | the app kills the launcher only; crash of the app | no core is left over |
| Pending-actions counter `A/services/pending_actions.py`, the queues of `sorter.py`, `completeness.py`, `repositories.py` | cached total with its age | compute over several awaits, invalidate | event bus | the library changes during the computation; changes nobody announces | the badge is right after the time to live; list, count and page agree |
| Pairing `A/api/pairing.py`, `A/api/auth_api.py`, `A/security/`, shell `device.rs`, `server.rs` | devices, one-time codes, join requests; the shell's key and server | set up, join, approve, reject, revoke, forget | shell and core over the network | late and lost answers; two handlers at their awaits; restart of either end | a code lets in one device; the shell's key is the server's; an admin stays |
| Sessions `A/auth.py`, `A/security/store.py`, shell `remote.rs`, `proxy.rs` | token, address, mutex; the server's sessions | log in, forward, try again, revoke, expire | user interface, shell, core | a token dropped under a request; a request sent twice; a mutex held over calls | a request runs once; logged out only for a cause; a revoked device stays out |
| Titles, repair, completeness, parsing, artwork, NFO | data | pure functions and sequential passes | catalogue | none of interleaving | tested as functions |
| Settings, tags, live events, updates, start-up plumbing, UI, build | key-value rows, views | pass-through | all | none | not modelled |

`PROJECT.json` lists every component with its status, and under `hazards` each
behaviour that is hard to test, at its line, with the properties that catch it.

## 2. The plan

Order: first what can lose a user's data or work (scanner, catalogue), then
what can get the user banned or stuck (AniDB gate), then what must eventually
happen (downloads), then the rest.

1. `LibraryScan` (done, proved): scanner, job worker and the API calls on the
   same rows.
2. `Catalog` (done, proved): the tables under interleaved transactions.
3. `AniDBGate` (done, proved): provider, limiter, breaker, ban, watcher.
4. `DownloadList` (done): what the list promises; `Downloads` (done, proved):
   the service, shown to implement it.
5. `SortMove` (done, proved): `A/services/sorter.py` and `media_files.py`:
   rename, sort, merge, move back.
6. `Pairing` and `RemoteSession` (done, proved): the two sides composed over a
   lossy connection.
7. `LocalCore` (done, proved): the app, its core, and taking over a fetched
   library.
   Left: export, and the import by an admin at a running server.
8. `PendingCount` (done, proved): the cached total, and the queues and counts behind it
   as functions that have to agree.
9. `LibraryScan` composed with `AniDBGate` through the watcher's resume.
10. Pure algorithms: completeness, episode matching, sort and rename queues are
    in `PendingCount`; title choice and the parser's decisions are left.

The number of runs is kept small, each with its own question. What was once
seen to fail and is no longer a run of its own is in section 7.

## 3. Modules and code

**`LibraryScan`**. One watched root with directories `Dirs`, each holding at
most one episode file (`disk`: absent, empty, growing file or finished video).
`rows` and `eps` are the anime and episode rows, `queue` and `worker` the job
queue, `task[p]` the position of each processor of directories: `task[Scan]`
is the full scan of the running job, `task[d]` the debounce task of `d`. A step
is the code between two awaits; `Process(p)` is `_process_anime_dir` with one
disjunct per await (`Lookup`, `Create`, `Probe`, `Walk`, `ReadEpisodes`,
`Record`, ...), used by both kinds of processor as in the code. A restart
loses queue, worker and tasks, and keeps disk and rows. Ghosts: `unseen` are
changes no scan or event has led to a look at, `blurred` are directories that
changed while the scan was inside, `corrected` are files numbered by hand and
not touched since.

**`Catalog`**. `rows[id]` with folder, AniDB id and duplicate flags; `op[x]` is
the operation of each actor (identification, refresh, delete, folder delete)
with what it has read. The session writes back only columns whose value
changed since the load (`mine`, `seen`), and refused writes (`Writable`) make
an operation fail, as SQLite's foreign keys do. `due` are ids whose rows have
changed since the last recomputation, `torn` those of which nobody in flight
is in charge any more.

**`AniDBGate`**. `calls[x]` is the fetch an actor is in: waiting for the
limiter's lock (`gate`), sleeping under it (`locked`), telling the UI
(`announce`), on the network (`sent`), before a retry (`backoff`), saving a ban
(`save`). Timers count down with `Tick`. `ban` and `saved` are the ban in
memory and in the settings table. `watcher` is the block watcher.

**`DownloadList`** is the abstract specification of the download list: what
the user may see of a request and how that may change. **`Downloads`** is the
code: `row` the table, `job` the coroutine of `send` or `complete_handover`
with the time left of its limits, `threads` the plugin threads that are adding
a link (they go on when the core gives up), `watcher`, `late` and `queue` the
watcher of finished downloads, its second scans and the scans in the job queue.
Writes touch only the columns the operation has set, so a hand-over that loaded
its row minutes ago does not undo a dismissal; the mutant `ConcludedAsLoaded`
shows what a whole-row write would do. Ghosts: `dirty`, requests with files no
scan has come to; `noted`, requests this process has found finished.
`Shown(r)` is the refinement mapping, taken from `poll_statuses` and `_recent`:
"sent" stands for whatever the client says of a link it has taken.

**`SortMove`**. Sorting and renaming, with the files they move. `disk` is the
video files with their paths and whether they are whole, `dirs` the
directories, `rows` and `eps` the anime and episode rows, `op[x]` where actor
`x` is in its operation. A step is the code between two awaits; a loop that
moves files without an await is one step per file that keeps the event loop
(`busy`), so that a crash, but nothing else, may come between two files.
`MoveDone` and `MoveFails` are `move_file`: a rename, or across drives a copy
and a delete, where a failed or cut one may leave both files or a truncated
copy; companions (NFO, subtitles) are part of their video. `FreePath` is
`_dedupe_path`: the least number that no other file and no name given before in
the same rename (`kept`) has. The scanner is
here by what it does to one directory in one step (`Check`), the rest of it is
in `LibraryScan`. The ghost `mishap` is the first thing that befell an
operation: another actor or the scanner came between its steps ("met"), a
"crash", a file "stuck" on the way back, a directory "taken" by another row.

**`Pairing`**. Any number of shells and one server. `device` is the table of
devices, which alone survives a restart of the server; `setupCode`, `codes` and
`request` are in its memory (`security/store.py`). A call of a shell is a
record in `task` that goes from "sent" through the awaits of its handler
("proof", "create", "mark", "commit") to "answered"; `Lose` takes it, or its
caller, away at any point. `shell[s]` is what a shell keeps: its server and key
(`connection.json`, key store), the pending key of a pairing, the request it
waits for, and `asking`, which of its commands are out. Devices, codes and keys
are numbers in the order they were made; a proof is the number of the code it
was made with, if that code was open when it came in. Ghost: `letIn`, which
keys each code has let in.

**`RemoteSession`**. One shell of a paired device and its server. `req[r]` is a
request of the user interface: it waits for the mutex of `remote.rs` (`lock`),
picks an address, logs in by two calls with a restart, an expiry or a
revocation possible between them, sends, and is answered, lost or, once, tried
again. `token` and `base` are shared by all requests; `sessions` are the tokens
the server knows. Kinds: a request that is forwarded, a websocket, and the
calls the shell makes by itself, which go to the pairing port on the LAN.
Ghosts: `ran`, how often the server has carried out a request, and
`disturbed`, that the server lost its token or challenge under way.

**`LocalCore`**. The desktop app and its core. `core[a]` is the core started by
the app's `a`-th run: its launcher, where its Python process is in the start
(migrate, the steps of `apply_pending_import`, wiring, up), which processes it
watches, and what it has read. `pull`, `zip` and `maps` are the transfer of a
library and its two files by the number of the transfer they are of; `saved`
says that a backup has the library as it is. An import ends as done, with a
`SnapshotError`, which `main.py` catches, or with another exception, which ends
the start.

**`PendingCount`**. `lib` is a small library: entries with their episode lists,
files with their numbers and names, wishes. The upper half of the module are
the queries of `completeness.py`, `sorter.py` and `repositories.py` as functions
of a library, with SQL's cast and Python's normalisation apart, and the pages
made of them (the library's cards, an entry's page, the overview of missing and
of unassigned files with the choices offered, the download page with its wanted
list, which looks at air dates); the middle are the
changes of a library with the announcement each makes, or none; the lower half
is the cache: `readers[r]` is a computation of the total between its awaits,
`cached` the total and the age of its stamp. Episode texts are those that tell
the conversions apart ("1" and "01", "S1", "extra"); a name is its title, its
number and the suffixes after it. What one renaming does file by file, in the
order of the rows, are recursive functions over the files: `Planned`, the name
proposed to each with the names taken so far, and `MovedTo`, the name it gets
on the disk. Ghosts: `quiet`, `clean`.

`MC*.tla` give the instances and their symmetry. Each `X_proofs` extends `X`
with its inductive invariants and theorems (section 6). `Catalog` and
`PendingCount`, the two modules about the database, share `Database_proofs`;
`DownloadList` has none, `Downloads_proofs` shows that it is implemented.

## 4. The runs

All bounds are constants of the modules. `CHECK_DEADLOCK FALSE` is said for
`LibraryScan`, `Pairing` and `LocalCore` only: with the bounds used up and
nothing left to do they rest.

| Run | Checks | Bounds | Shows |
|---|---|---|---|
| `scan` | `TypeOK`, `InSyncWhenQuiet`, `CorrectionsKept`, `PendingIsScheduled` | 2 directories, 3 row ids, 3 queued jobs, 2 steps of user, network or crash | with renames and listings of two directories: the catalogue matches the disk once all is quiet; manual numbers stay; a pending anime is always going to be queued |
| `scan_live` | `VideosGetRows` | 1 directory, 3 row ids, 4 queued jobs, 4 steps | a finished video in a watched folder gets its row, over longer histories |
| `catalog` | `TypeOK`, `ForeignKeys`, `DerivedUnlessDue`, `DueIsInHand` | 2 folders, 2 AniDB ids, 2 actors, 3 rows, 4 operations | two transactions at any await, and restarts |
| `anidb` | `TypeOK`, `DailyCapHeld`, `BanRefusalsNoticed`, `NoNewFetchInBan`, `FetchesEnd` | job worker and 1 handler, cap 2, day 4, ban 3, check every 2 ticks, 2 tries | cap, ban, breaker, retries, restarts |
| `downloads` | `FinishedIsFollowedUp`, `ListKeepsItsWord` | 2 requests, 2 folders, limits of 1 to 3 ticks, 1 restart or list operation | the list implements `DownloadList`; every download found finished has a scan to come that sees its files |
| `downloads_live` | `FilesGetScanned` | 1 request, the limits of the code in minutes (5 steps of 1, 2 to resolve, 2 to add, 6 to give up), 4 restarts or operations | files get scanned, over longer histories |
| `sort` | `TypeOK`, `NeverSplit`, `NoVideoLost`, `NoFileForgotten` | 2 videos of one episode or none, 3 directories, 3 row ids, 2 actors, different drives, 2 moves that fail, crashes or steps from outside within an operation | no video is lost in any case; without such a meeting an anime's row, episode rows and files stay in one place, also when moves fail and files go back; no listed file is forgotten |
| `pairing` | `TypeOK`, `KeyFits`, `CodesOnce`, `AdminStays`, `WaitEnds` | 2 shells, 3 pairings begun, 2 codes of 2 attempts, 1 join request, 1 restart or forgetting | the two sides agree on the key, whatever is lost, repeated or late; a code is good once; an admin stays; the wizard does not wait for ever |
| `session` | `TypeOK`, `AtMostOnce`, `RefusedForCause`, `RevokedStaysOut`, `RequestsEnd` | a forwarded request beside a websocket or a LAN call, 2 tokens, 1 restart or change of network | retries do not run a request twice; nobody is logged out without a cause; a revoked device is out in the end; requests that share a mutex all end |
| `local` | `TypeOK`, `OneStartPerPull`, `OldLibraryKept`, `MappingsFit`, `OrphansEnd` | Linux, 5 starts of the app, 2 transfers, 2 crashes of the app or losses of power | a fetched library is taken over whole, once, with its mappings and after a backup; cores end when their app is gone |
| `count` | `AnswersRight`, `DropHolds`, `ViewsAgree`, `EpisodesSettle` | 2 entries, 3 files, 1 reader, time to live of 2 ticks, 2 changes from two libraries | the badge is right when nothing has changed for the time to live; queues, counts and pages agree in every library two changes away; renaming settles |
| `rename_forever` (violation) | `QueueEmpties` | as `count`, from one of the libraries | two copies of an extra keep an entry in the rename queue whatever is renamed |

Why these bounds suffice to be of interest: two directories are what a rename
and its scan, or a stale listing, need; three rows are a primary, its duplicate
and a third that takes over; two actors are two transactions that overlap; a cap
of two is reached on day one and on the next; a ban of three ticks spans a check
of the watcher and a restart; two requests with two folders are the least for
which the scan of one must not forget the other; two videos of one episode
compete for a name, and are the least of which one can have moved when the
other cannot; two shells are the admin and the one that joins, or two that use
one code at once; three pairings are a first device, one that begins again, and
its second key; two transfers are one that is cut short and the next one, whose
mappings must not be mixed; five starts of the app let each transfer fail, be
repeated and still leave a start without one; two changes of a library are one
while the total is being computed and one before or after. Each property has a mutant, a
change of the model a bug in the code could make, that TLC refutes in the same
run; so the bounds are large enough for each property to fail.

Assumptions made visible as constants:

- `Overlap` (LibraryScan). In the passing runs a rename by the API meets no
  check of the same directory between its move and its commit (the debounce
  waits two seconds, the commit is shorter), the share drops between scans
  only, and an id is not given again while a job still holds it. The values
  "rename", "outage" and "reuse" lift these; with "outage" `CorrectionsKept`
  fails (section 7), with "rename" likewise. A number corrected in the
  milliseconds between the purge's last look at a directory that has just come
  back and the delete (scanner.py:303-307) is not counted as corrected
  (`Purging`): the purge would take it away. `CorrectionsKept` follows a rename
  to the new directory once it is recorded; if the commit fails (a row is gone,
  or the new path is taken, sorter.py:712-724) the number stays with a directory
  that is gone, and goes with its row.
- `SlowListeners` (AniDBGate). FALSE says that telling the UI about a request
  takes less than a tick. With TRUE `DailyCapHeld` fails: the listener waits
  for a database session and for WebSocket sends between the limiter and the
  request (main.py:146-152, ws.py:31-38, anidb.py:213-215), and requests
  counted yesterday go out today.
- `DailyCapHeld` allows one request more than the cap: a call that sleeps over
  midnight in the limiter is counted for the day before (base.py:56-70).
- `SortMove`: one download and one content folder, and all rows of the same
  AniDB id, which is where their operations meet; ids are not given again;
  `Trouble` bounds failing moves, crashes and outside steps in an operation, not
  those between operations. `NeverSplit` and `NoFileForgotten` are about operations
  nobody meets: the code does not lock an anime against a second operation or the
  scanner, and a crash leaves rows to the scan at the next start. The names of
  downloads are never those that the program gives to episodes (`SortAssumption`).
- `Overlap` (Pairing). In the passing run and in the theorems no pairing is
  begun while the poll of an earlier one is out ("polls"), a request is not
  decided again while an approval of one is being committed ("decisions"), and
  two revocations do not run at once ("revokes"). What each value breaks is in
  section 7.
- `Platform` and `Faults` (LocalCore). The run is for Linux, where a core that
  has lost its launcher or app ends before the next core is at the files, and
  where a write either happens or does not. Windows, "orphans" (cores overlap)
  and "disk" (half-written files, a full disk) are in section 7.
- `HasInternet` (RemoteSession) is FALSE in the run: one address that comes and
  goes. With two addresses the same properties hold for one token (`MaxTokens`
  1), and for two tokens without LAN calls; both at once are too large for a
  run.
- `Readers` (PendingCount): one computation at a time in the run. Two share the
  cache and nothing else; the last to end wins, as with a change between. The
  theorems are for any number of readers, entries, files and changes.
- Downloads: database queries and status calls take less than a tick (a
  minute); the two-week window of the list is not reached.

## 5. Fairness

- LibraryScan: the job worker, the running scan, each debounce task and the
  commit of a rename go on: coroutines on an event loop that is never blocked
  for good (`WF`). Disk changes, outages, API calls, crashes and starts have no
  fairness.
- AniDBGate: time passes, the watcher checks, a started step ends because
  requests have a timeout of 30 s (`WF`); the lock of the limiter is an
  `asyncio.Lock`, which wakes its waiters first come first served, hence `SF`
  for `Acquire`.
- Downloads: `Tick` is strongly fair, since the API, which may always run
  another list operation or send, does not stop the clock; the watcher, late
  scans, each request's hand-over (its limits end it) and the scan of each
  queued folder are weakly fair. The clients are not: a download may never end.
- Pairing: a shell's calls are handled, answered and received, and its wizard
  polls (`Proceeds`, `WF`); requests expire (`WF`). People are not fair: no
  admin has to decide. `WaitEnds` therefore rests on the expiry.
- RemoteSession: the mutex is tokio's, first come first served, hence `SF` for
  the steps of a request in the shell; the server's steps, the expiry of
  tokens and the end of a revoked device's sessions are weakly fair.
- LocalCore: each core goes on by itself (`WF`); the user, crashes and power
  losses have no fairness.

## 6. What is proved

`Database_proofs`, of `Catalog` (for all folders, ids, actors and bounds):

- `TypeCorrect`: `Spec => []TypeOK`.
- `Inductive`: `IInv` = types, `OpsKnown` (an operation that goes by a row has
  one), `ForeignKeys`, `DerivedUnlessDue`, `DueIsInHand`. The properties need
  each other: a recomputation may settle an id only if it is in hand, and flags
  stay derived under deletes only if references are intact.
- `ForeignKeysHold`, `FlagsAreDerived`, `DueStaysInHand` follow from it.

`AniDBGate_proofs` (for all intervals, caps and limits that satisfy
`GateAssumption`: they are positive, a check of the watcher comes sooner than
the end of a ban, and a day is longer than the gap between requests):

- `Inductive`: `IInv` = types, one holder of the lock with room under the cap
  (`OneLocked`), a ban being saved is on (`SavesHaveBan`), what a caller was
  told is in the table and what is in the table is in memory (`BanKept`), an
  unseen ban outlasts the next check (`CheckInTime`), and a refused library
  anime has a ban that is on or was seen (`BanPending`).
- `TypeCorrect`, `BanIsNoticed` (`BanRefusalsNoticed`) and
  `BanKeepsFetchesBack` (`NoNewFetchInBan`, an action property) follow. The
  relation of ban, table and caller needs `BanKept`, because a restart replaces
  memory by the table; the watcher needs `CheckInTime`, because it samples.
- `CapIsHeld` (`DailyCapHeld`) if listeners are prompt (`~SlowListeners`), by
  `CapInv`: a request counted but not yet sent is alone, and the requests sent
  today are at most one more than those counted, not one more when another is
  about to go out; on a day that still has yesterday's count, at most one.

`Pairing_proofs` (for any number of shells, codes, attempts, keys, restarts;
`PairingAssumption` says the bounds are numbers and the caller that has gone is
no shell):

- `TypeCorrect`, by `Typed`: `TypeOK`, the codes are finitely many, and every
  call but a revocation is about a key (a device is made of one).
- `OneDevicePerCode` (`CodesOnce`), by `CodesInv`: a code that has let somebody
  in is neither open nor the setup code, and numbers of codes only grow.
- `LastAdminStays` (`AdminStays`) if "revokes" is not in `Overlap`, by
  `AdminInv`: a revocation under way is the only one, and there is an active
  admin besides its device. It needs the device of the admin who revokes for
  the case that the revoked device is none.
- `ShellHoldsItsKey` (`KeyFits`) if "polls" is not in `Overlap`, by `KeyInv`:
  an answered pairing, an approved request and an approval to be marked lead to
  a device of their key; a shell has one call out per command, about its
  pending key if it still has one; and what it waits for is its pending key.
  Then whichever answer finishes the pairing finishes it with the right key.

`LocalCore_proofs` (for any number of starts, transfers and crashes, both
platforms; `LocalCoreAssumption` says the bounds are numbers):

- `TypeCorrect`, by `Typed`: `TypeOK`, the app in charge is the last one
  started, and a transfer under way is not counted as complete. It holds
  whatever the faults.
- `ReplacedAfterBackup` (`OldLibraryKept`) and `TakenWithItsMappings`
  (`MappingsFit`) if "orphans" is not in `Faults`, by `OneCore` and `Fits`.
  `OneCore`: of two cores that run the later one still waits, and during a
  transfer none runs. `Fits`: the mappings that lie there, and those a core has
  read, are at least those of the library that waits; a core between backup and
  import has saved the library; one past the put-aside has nothing left to
  apply. `Fits` needs `OneCore`: a second core could change the library between
  backup and import, or put aside what the first has just checked. "disk" does
  not matter to them: half-written mappings stop the start before the import.
- `NoSecondFailure` (`OneStartPerPull`) if `Faults` is empty, by `Pays`: a
  library that waits, or was just put aside, has not cost its start yet.

`RemoteSession_proofs` (for any requests of any kinds, with one address or two,
any number of tokens; `SessionAssumption`, and `NobodyAssumption`: nobody is no
request):

- `TypeCorrect`, `RunsOnce` (`AtMostOnce`) and `RefusalHasCause`
  (`RefusedForCause`), by one invariant, `SessionInv`: `TypeOK`, with the mutex
  held by the request that picks an address or logs in; and of each request
  `RanOnce`: it has not run before it is answered; and `Sound`: a login that has
  asked still has its challenge, and a second try has a token the server knows,
  or there is none in use, unless something was taken from this request or the
  device is revoked. `Sound` is what makes the second try enough: the first
  refusal drops the token in use, after which only a login sets one. The
  theorems cover the instances with two addresses and two tokens, which are too
  large for a run.

`LibraryScan_proofs` (for any directories, row ids, lengths of the queue and
outside steps; `LibraryAssumption`), in four stages, each with a lemma per action:

- `TypeCorrect`, by `TInv`: `TypeOK`, and which positions of processors, jobs
  and renames have a row and a directory. It holds whatever `Overlap` is.
- `PendingTakenUp` (`PendingIsScheduled`) if "reuse" is not in `Overlap`, so
  with renames and outages that meet unfinished work. `PInv`: of every row that
  waits, either somebody in flight will take it up (a job of it, a processor
  that will queue it or has yet to look at its directory), or nothing in flight
  is about its directory and no scan has come to it (`WaitingFit`). The rest is
  what hands a row on: one row per directory, who may ask for an identification,
  what a pending row cannot have yet. With "reuse" an id that comes back makes
  a job or a check speak of another row.
- `CorrectionsSurvive` (`CorrectionsKept`) if `Overlap` is empty. `CInv`: an
  episode row lies in the directory of its anime row; what a processor, or the
  purge, has read of the disk and of the rows is still so, or the directory is
  going to be looked at again (`ChecksFit`, `PurgeFits`); nobody works on a root
  that is away (`WatchedFit`); and the file of a correction is there, or just
  renamed together with its row (`CorrectedFit`). Each value of `Overlap` breaks
  a conjunct, as section 4 says.
- `QuietIsInSync` (`InSyncWhenQuiet`) if `Overlap` is empty. `SInv`: every
  directory somebody has looked at since it changed is `Settled`, that is,
  recorded as it is (`Recorded`), or a processor in it will leave it so
  (`Brings`), or the purge has all its rows (`Purges`). What hands this on: a
  processor has seen the files there are, or the directory is looked at again
  (`SeenFit`); one that goes while it is scanned has no row, has a check on its
  way, or was passed by (`AbsentFit`); the listing has every directory that is
  left to do (`TodoFit`); one that is back while its row is deleted is looked at
  again (`DeleteFit`); and so are both directories of a rename (`RenameSeen`).

`Downloads_proofs` (for any requests and folders, every limit and interval that
satisfies `DownloadAssumption`: resolving and adding end before a request is
given up, unpacking before the second scan):

- `Inductive`: `IInv` = `TypeOK`, and of each request: a job in the background
  has a row that waits for it (`JobFits`), what is left of its limits ends
  before it is given up (`InTime`), and a download found finished has its scans
  to come (`Followed`).
- `FinishedAreScanned` (`FinishedIsFollowedUp`).
- `ListImplements` (`ListKeepsItsWord`): each step of the service is a step of
  `DownloadList` under the mapping `Shown`, or changes nothing the list shows.
  `InTime` is what makes it so: a request that was given up has no job that
  could still hand it over.

`SortMove_proofs` (for any videos, episodes, actors, numbers of rows and of
mishaps, across drives or not; `SortAssumption`), a lemma per action in each of
two parts:

- `Inductive`: `IInv` types the variables; disk, episode rows and what an
  operation holds are finite, so that one of the numbered names is free; paths
  on disk are unique, and so are the names one rename has given (`SetAside`).
- `TypeCorrect`, and `VideosAreKept` (`NoVideoLost`, an action property): no
  move goes to the path of another file, so a whole copy of each video stays,
  whoever meets whom and wherever it is cut short.
- `PlacesAreKnown`, by `NInv`: as long as nothing has befallen an operation, at
  most one is at work (`Alone`); of every row but its own all files are where
  they are recorded, in the directory of the row (`Sound`); rows have
  directories of their own, episode rows have a row, and a download's name tells
  its video (`World`). Of its own row `Fits` says by position what has been
  moved: `AtHome` before anything is; `Split` while moved files and rows
  disagree, each moved file at a place where no row has been, the rest
  `Behind`; `Ahead`, the directory aimed at has no row, or is that of the anime
  to merge into; `Halfway`, the directory has its new name and the rows have
  not; `Renaming`, the same for files. `NeverSplit` alone says nothing of the
  row at work, so that the end of an operation could not be shown. `NInv` was
  checked by TLC on the constants of `sort` before it was proved.
- `AnimesStayTogether` (`NeverSplit`) and `FilesAreRemembered`
  (`NoFileForgotten`, an action property): both follow from `NInv`, as does that
  a merge deletes its source only when none of its episode rows is left
  (`MergeFits`).

`Database_proofs`, of `PendingCount` (for all entries, files, episode lists,
parsed numbers, readers, times to live and numbers of changes;
`CountAssumption`: entries and files are finitely many, files are numbered by
their rows and 0 is no entry, the starting libraries have the types of the
tables; `DateAssumption`: two spellings of one episode in a list have one air
date):

- `CountTypeCorrect` (`CountTypeOK`): no scan, identification, renaming,
  relocation or repair leaves a row it should not.
- `CountIsInductive`: `CountInv` = types; `CountsFit`, a computation that
  started after the last change (settled, or younger than it, or since the
  cache was dropped) has so far added up exactly the counts of the library as
  it is, and has its rows; `CacheFits`, the same of the total that is cached;
  `SettledFits`; `AnswersRight`. `AnswersRight` and `DropHolds` look at one
  moment, the answer and the cache; a sum collected over six awaits is right at
  the end only because each part of it was right when it was added and nothing
  has changed since, which is what `CountsFit` says of every await. TLC checked
  `CountInv`, types included, on the constants of `count` first.
- `AnswersAreRight` (`AnswersRight`) and `DroppedCacheStaysRight` (`DropHolds`)
  follow.
- `ViewsDoAgree` (`ViewsAgree`) needs no more of a library than its types: one
  lemma per pair of views, by bijections between the rows that two queries
  count, and by sums over entries for what is present and missing.
- `EpisodesDoSettle` (`EpisodesSettle`), for every library too. `Recursion`: a
  recursive function over a finite set of numbered rows exists and satisfies
  its equation if each value depends on smaller rows only (by the least row at
  which it would not). `FreeSlot`: a suffix that is not taken is found among
  one more than there are files. `FirstRound`: whatever names the files came
  with, one renaming gives each a name of its own entry and episode, all
  different. `SecondRound`: from there the next gives each its proper name, and
  `NothingToRename`: then the queue does not list the entry. One round is not
  enough, since the first may find a proper name still taken by a file it moves
  later.

Every invariant and every action property of the passing runs is stated by one
of these theorems. Only model-checked: liveness (`VideosGetRows`, `FetchesEnd`,
`FilesGetScanned`, `WaitEnds`, `RevokedStaysOut`, `RequestsEnd`, `OrphansEnd`),
which rests on fairness and ENABLED, outside what the prover supports.

## 7. Where code and documents disagree

With a run (`rename_forever`; `findings` in PROJECT.json): sorter.py:611-614
wants the second copy of an episode to count as correctly named, "or it would
sit in the rename queue forever". `_is_name_variant` takes care of copies that
are episodes of the list. For an extra, `_compute_rename_plan` proposes what
`_dedupe_path` then gives another suffix (633, 158-169, 646-651), so that two
copies change places with every renaming.

Disagreements of code and comment met while modelling, each the outcome of
lifting one constant of a module, without a run of its own:

- animes.py:347 "A manual number survives later scans": not if the share drops
  while a scan is inside the directory (scanner.py:372; `LibraryScan` with
  `Overlap = {"outage"}`).
- device.rs:213 "the server accepted the pending key": with `Overlap =
  {"polls"}` (the wizard is closed during a poll and a new pairing begun) the
  answer about the earlier key commits the later one, and the shell cannot log
  in: `KeyFits` fails.
- auth_api.py:153-158 and test_server_auth.py:210, the last admin can't be
  revoked: with `Overlap = {"revokes"}` two admins revoke each other, each
  checked against both: `AdminStays` fails.
- parent_watch.py:2-4 "the core ends too": on Windows a core whose launcher and
  app were gone before it opened them watches nothing (38-40): `OrphansEnd`
  fails with `Platform = "win32"`.
- snapshot.py "Applied or not, don't retry on every start": the backup comes
  before the `try` (257-261, 265), so that a full disk fails every start:
  `OneStartPerPull` with `Faults = {"disk"}`. With "orphans", two cores in the
  same import break `MappingsFit`, `OldLibraryKept` and `OneStartPerPull`.
- store.py:10-11, the shell logs in again after a refused token: its calls to
  the pairing port do not drop the token (server.rs:446-459), and fail until a
  forwarded request does.
- repositories.py:71-72: the bulk delete of a folder claims to avoid foreign
  key violations; the self-reference of duplicates in another folder is left
  and makes the delete fail.
- anidb.py:66 "a ban is detected and respected": the ban is not looked at again
  after the wait in the limiter (174, 213).
- anidb_watch.py:20: the work that failed is put back in the queue; wishlist
  entries are not, if the core restarts after the ban.
- sorter.py:352-355 moves all files first "so the anime is never split across
  two directories": the commit of the row comes last (384) and is refused if
  the new directory has a row already, one that is not identified yet.

Seen besides: the repair's second reading of all numbers undoes what
`assign_lone_file` gave a file with no number of its own (repair.py:208);
changes of a single number, deletes and the lone file's number are announced by
nobody, so that the badge waits for the time to live; an invalidation during a
computation is overwritten by its stale total (`DropHolds` claims only what
holds when nothing is being computed); repair reads `have_episodes` before an
await and may add a list twice, which no constraint prevents (models.py:104); a
lost answer to `setup` leaves an admin device nobody holds; a rejection is
overwritten by an approval under way; the cap of join requests is checked
before an await. A daily-cap block that begins and ends
between two checks of the watcher, or a breaker closed by a late success, also
leaves refused jobs unnoticed (only bans are claimed); an answer with an HTTP
error is taken as "nothing found" and not tried again; a crash between noticing
a ban and writing it loses it; a hand-over that timed out may still reach the
client, after the list called it failed (isolation.py:8-9 names a worker thread
as the only cost); clearing the list hides a finished download the watcher has
not seen yet, so that its folder waits for the periodic rescan (service.py:801,
watch.py:1 says "right away"); a copy across drives that raises leaves what it
has written (sorter.py:192, the comment at 199 wants a move to be
all-or-nothing), and the next scan lists it; with `download_rescan_interval_s` 0 a late scan lost in a
restart is not made up for beyond the scan at start.

## 8. What is not modelled, and why

Not yet, see the plan: the export of a snapshot and the import by an admin at
a running server, which stops the scanner and not the job worker. Left out for
good: signatures and certificates (they are right or wrong), TLS, the key store
and the updater (I/O), matching scores, title choice, XML, NFO and poster
contents, regular expressions on file names, plugin adapters to external
programs, migrations, packaging, the UI but for the pairing wizard. In
`LibraryScan`: the consolidation of loose files and the offline flag, on which
no property depends; more than one episode per directory. In `SortMove`:
subdirectories, companions of their own, manual numbers, `tvshow.nfo` and
poster of the source. In `Downloads`: the configuration of integrations other
than their removal, the search, and a client that loses a download by itself.
In `Pairing`: renaming a device. In `LocalCore`: the port, and the Android
shell, which has no core. `Downloads.TypeOK` and
`PendingCount.CountTypeOK` are proved and are not properties of a run.
