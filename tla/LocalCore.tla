------------------------------- MODULE LocalCore -------------------------------
(***************************************************************************)
(* The desktop app and its own core: lib.rs and core_process.rs of the      *)
(* shell, which start and stop it, the start of the core in main.py, which  *)
(* takes over a library fetched from a server (snapshot.py; pull_library()  *)
(* of server.rs), and parent_watch.py, which ends it.                       *)
(*                                                                         *)
(* The released core is two processes, PyInstaller's launcher and the       *)
(* Python process it starts.  The app kills the launcher; the Python        *)
(* process has to notice.  Until then it and the core of the next app are   *)
(* at the same files.                                                       *)
(***************************************************************************)
EXTENDS Naturals, FiniteSets

CONSTANTS
  Platform,   \* "linux" or "win32"
  MaxApps,    \* bound on starts of the app
  MaxCores,   \* bound on cores that run at once
  MaxPulls,   \* bound on libraries fetched
  MaxCrashes  \* bound on crashes of the app and losses of power

ASSUME LocalCoreAssumption ==
  /\ Platform \in {"linux", "win32"}
  /\ MaxApps \in Nat \ {0} /\ MaxCores \in Nat \ {0} /\ MaxPulls \in Nat /\ MaxCrashes \in Nat

VARIABLES
  app,      \* the app that runs, 0 if none does
  started,  \* apps started so far
  ready,    \* the app has done its setup and holds its core, if it has one
  holds,    \* CORE: the app can still stop it
  mode,     \* connection.json: which data the next start uses
  core,     \* the core of each app
  pull,     \* how far the transfer from the server is: "no", "part", "mapped"
  pulls,    \* transfers so far: the number of the last one
  zip,      \* pending-import.zip: the transfer it is of, 0 if there is none
  maps,     \* pending-import.json: likewise, or Torn
  saved,    \* some backup has the library as it is
  crashes,  \* crashes so far
  fetched,  \* ghost: transfers that were completed
  failed,   \* ghost: starts of a core that failed once the import was tried
  early,    \* ghost: starts of a core that failed before it was
  met       \* ghost: a core or a transfer began while an older core still ran

shell == <<app, started, ready, holds, mode>>
files == <<pull, pulls, zip, maps, fetched>>
vars  == <<shell, core, files, saved, crashes, failed, early, met>>

Apps == 1 .. MaxApps
Torn == MaxPulls + 1

\* A core: where its Python process is in its start, whether its launcher
\* runs, the processes it watches, the mappings it has read, and whether what
\* went wrong in the import is caught in main.py.
NoCore == [at |-> "none", launcher |-> FALSE, watch |-> {}, map |-> 0, fatal |-> FALSE]

Init ==
  /\ app = 0 /\ started = 0 /\ ready = FALSE /\ holds = FALSE /\ mode \in {"local", "server"}
  /\ core = [a \in Apps |-> NoCore]
  /\ pull = "no" /\ pulls = 0 /\ zip = 0 /\ maps = 0
  /\ saved = FALSE /\ crashes = 0 /\ fetched = 0 /\ failed = 0 /\ early = 0 /\ met = FALSE

At(c, p) == core[c].at = p
Runs(c) == core[c].at \notin {"none", "gone"}
\* An older core needs time to notice that its launcher or its app is gone.
\* Nothing waits for it.
Meets(a) == met' = (met \/ \E d \in 1 .. (a - 1) : Runs(d))
Gone == [NoCore EXCEPT !.at = "gone"]
Goes(c, p) == core' = [core EXCEPT ![c].at = p]

-----------------------------------------------------------------------------
(* The app.                                                                 *)

\* setup: with local data, the core is started and waited for.
StartApp ==
  /\ app = 0 /\ started < MaxApps /\ Cardinality({c \in Apps : Runs(c)}) < MaxCores
  /\ started' = started + 1 /\ app' = started'
  /\ IF mode = "local"
     THEN /\ core' = [core EXCEPT ![app'] =
                        [NoCore EXCEPT !.at = "migrate", !.launcher = TRUE]]
          /\ ready' = FALSE
     ELSE UNCHANGED core /\ ready' = TRUE
  /\ UNCHANGED <<holds, mode, files, saved, crashes, failed, early, met>>

\* The core answers, or it has not for twenty seconds.
Adopt ==
  /\ app # 0 /\ ~ready
  /\ ready' = TRUE /\ holds' = TRUE
  /\ UNCHANGED <<app, started, mode, core, files, saved, crashes, failed, early, met>>

\* stop(): kills what the app holds, the launcher.  Its Python process goes on.
Stopped == IF holds THEN [core EXCEPT ![app].launcher = FALSE] ELSE core

\* stop_core(), before an update is installed.
StopCore ==
  /\ ready /\ holds /\ holds' = FALSE
  /\ core' = Stopped
  /\ UNCHANGED <<app, started, ready, mode, files, saved, crashes, failed, early, met>>

\* A write of the mappings that is cut short leaves half of them.
Half == IF pull = "part" THEN {Torn} ELSE {}

\* No app, and no transfer.
Left ==
  /\ app' = 0 /\ ready' = FALSE /\ holds' = FALSE /\ pull' = "no"
  /\ maps' \in {maps} \union Half
  /\ UNCHANGED <<started, mode, pulls, zip, saved, fetched, failed, early, met>>

\* Exit, and restart_app(), after which the app starts again.
Quit ==
  /\ ready
  /\ core' = Stopped
  /\ Left /\ UNCHANGED crashes

\* switch_mode(): for the next start.
SwitchMode(to) ==
  /\ ready /\ pull = "no" /\ mode # to /\ mode' = to
  /\ UNCHANGED <<app, started, ready, holds, core, files, saved, crashes, failed, early, met>>

\* The app ends without stopping its core.
Crash ==
  /\ app # 0 /\ crashes < MaxCrashes /\ crashes' = crashes + 1
  /\ Left /\ UNCHANGED core

PowerLoss ==
  /\ crashes < MaxCrashes /\ crashes' = crashes + 1
  /\ core' = [a \in Apps |-> IF Runs(a) THEN Gone ELSE core[a]]
  /\ Left

-----------------------------------------------------------------------------
(* pull_library(), by an app that uses the server's data.                   *)

OnServer == ready /\ At(app, "none")

\* The download goes to a file of its own, which a failure removes.
Download ==
  /\ OnServer /\ Meets(app) /\ pull = "no" /\ pulls < MaxPulls
  /\ pulls' = pulls + 1 /\ pull' = "part"
  /\ UNCHANGED <<shell, core, zip, maps, fetched, saved, crashes, failed, early>>

WriteMappings ==
  /\ pull = "part" /\ pull' = "mapped"
  /\ maps' = pulls
  /\ UNCHANGED <<shell, core, pulls, zip, fetched, saved, crashes, failed, early, met>>

\* The library appears under its name only when its mappings are there.
Renamable == pull # "no"
Complete == pull = "mapped"
Rename ==
  /\ Complete /\ pull' = "no"
  /\ zip' = pulls /\ fetched' = fetched + 1
  /\ UNCHANGED <<shell, core, pulls, maps, saved, crashes, failed, early, met>>

\* Any step of it may fail; a file that is half written stays.
PullFails ==
  /\ pull # "no" /\ pull' = "no"
  /\ maps' \in {maps} \union Half
  /\ UNCHANGED <<shell, core, pulls, zip, fetched, saved, crashes, failed, early, met>>

-----------------------------------------------------------------------------
(* The start of a core: lifespan() and apply_pending_import().               *)

Migrate(c) ==
  /\ At(c, "migrate")
  /\ Meets(c)
  /\ Goes(c, "pending")
  /\ UNCHANGED <<shell, files, saved, crashes, failed, early>>

\* What main.py does not catch ends the core: once the import is tried, and
\* before that, with the library still waiting for the next start.
Dies(c) == core' = [core EXCEPT ![c] = Gone] /\ failed' = failed + 1 /\ UNCHANGED early
DiesEarly(c) == core' = [core EXCEPT ![c] = Gone] /\ early' = early + 1

NonePending(c) ==
  /\ At(c, "pending") /\ zip = 0
  /\ Goes(c, "wiring")
  /\ UNCHANGED <<shell, files, saved, crashes, failed, early, met>>

\* The mappings are read and the backup is made before the try.
ReadMappings(c) ==
  /\ At(c, "pending") /\ zip # 0
  /\ IF maps = Torn THEN DiesEarly(c)
     ELSE /\ core' = [core EXCEPT ![c] = [core[c] EXCEPT !.at = "backup", !.map = maps]]
          /\ UNCHANGED early
  /\ UNCHANGED <<shell, files, saved, crashes, failed, met>>

\* The backup is of this moment, and a file of its own; there may be no room
\* for it.
FirstOnly == saved \/ fetched <= 1
Copied == TRUE
Backup(c) ==
  /\ At(c, "backup")
  /\ \/ Goes(c, "import") /\ saved' = Copied /\ UNCHANGED early
     \/ DiesEarly(c) /\ UNCHANGED saved
  /\ UNCHANGED <<shell, files, crashes, failed, met>>

\* The outcome of a try: "files" if the database has been replaced, a
\* SnapshotError, which is caught, or another one.
Outcome(c, next, fatal) ==
  core' = [core EXCEPT ![c] = [core[c] EXCEPT !.at = next, !.fatal = fatal]]

\* One transaction.
Import(c) ==
  /\ At(c, "import")
  /\ \/ zip # 0 /\ Outcome(c, "files", FALSE) /\ saved' = FALSE
     \/ \E fatal \in BOOLEAN : Outcome(c, "keep", fatal) /\ UNCHANGED saved
  /\ UNCHANGED <<shell, files, crashes, failed, early, met>>

\* Plug-ins and cached answers, after the commit.
Unpack(c) ==
  /\ At(c, "files")
  /\ \E fatal \in BOOLEAN : Outcome(c, "keep", fatal)
  /\ UNCHANGED <<shell, files, saved, crashes, failed, early, met>>

\* finally: applied or not, the library is put aside; it is gone if another
\* core has done so.
CaughtOnly(c) == zip # 0 /\ ~core[c].fatal
StillThere(c) == zip # 0
Keep(c) ==
  /\ At(c, "keep")
  /\ IF StillThere(c) THEN zip' = 0 /\ Goes(c, "unlink") /\ UNCHANGED <<failed, early>>
     ELSE Dies(c) /\ UNCHANGED zip
  /\ UNCHANGED <<shell, pull, pulls, maps, fetched, saved, crashes, met>>

\* main.py catches a SnapshotError only.
AllCaught(c) == FALSE
Uncaught(c) == core[c].fatal
Unlink(c) ==
  /\ At(c, "unlink") /\ maps' = 0
  /\ IF Uncaught(c) THEN Dies(c) ELSE Goes(c, "wiring") /\ UNCHANGED <<failed, early>>
  /\ UNCHANGED <<shell, pull, pulls, zip, fetched, saved, crashes, met>>

-----------------------------------------------------------------------------
(* The core runs, and ends: watch_parent().                                  *)

\* The launcher is watched if it still runs.  So is the app on Windows; on
\* Linux an app that is gone counts as one that has just ended.
LauncherOnly(c) == IF core[c].launcher THEN {"launcher"} ELSE {}
Watched(c) ==
  (IF app = c \/ Platform = "linux" THEN {"app"} ELSE {})
    \union IF core[c].launcher THEN {"launcher"} ELSE {}

Watch(c) ==
  /\ At(c, "wiring")
  /\ core' = [core EXCEPT ![c] = [core[c] EXCEPT !.at = "up", !.watch = Watched(c)]]
  /\ UNCHANGED <<shell, files, saved, crashes, failed, early, met>>

Missing(c) ==
  \/ "app" \in core[c].watch /\ app # c
  \/ "launcher" \in core[c].watch /\ ~core[c].launcher

\* _shut_down(): at once on Windows, else in good order.
Notice(c) ==
  /\ At(c, "up") /\ Missing(c)
  /\ IF Platform = "win32" THEN core' = [core EXCEPT ![c] = Gone] ELSE Goes(c, "stopping")
  /\ UNCHANGED <<shell, files, saved, crashes, failed, early, met>>

ShutDown(c) ==
  /\ At(c, "stopping")
  /\ core' = [core EXCEPT ![c] = Gone]
  /\ UNCHANGED <<shell, files, saved, crashes, failed, early, met>>

\* Scans, jobs and requests change the library.
Work(c) ==
  /\ core[c].at \in {"up", "stopping"} /\ saved /\ saved' = FALSE
  /\ UNCHANGED <<shell, core, files, crashes, failed, early, met>>

-----------------------------------------------------------------------------
Core(c) ==
  \/ Migrate(c) \/ NonePending(c) \/ ReadMappings(c) \/ Backup(c) \/ Import(c)
  \/ Unpack(c) \/ Keep(c) \/ Unlink(c) \/ Watch(c) \/ Notice(c) \/ ShutDown(c)

Next ==
  \/ StartApp \/ Adopt \/ StopCore \/ Quit \/ Crash \/ PowerLoss
  \/ \E to \in {"local", "server"} : SwitchMode(to)
  \/ Download \/ WriteMappings \/ Rename \/ PullFails
  \/ \E c \in Apps : Core(c) \/ Work(c)

\* A core goes on by itself; nothing is assumed of the user.
Spec == Init /\ [][Next]_vars /\ \A c \in Apps : WF_vars(Core(c))

-----------------------------------------------------------------------------
(* Properties.                                                              *)

Cores == [at : {"none", "migrate", "pending", "backup", "import", "files", "keep", "unlink",
                "wiring", "up", "stopping", "gone"},
          launcher : BOOLEAN, watch : SUBSET {"app", "launcher"},
          map : 0 .. MaxPulls, fatal : BOOLEAN]

TypeOK ==
  /\ app \in 0 .. started /\ started \in 0 .. MaxApps
  /\ ready \in BOOLEAN /\ holds \in BOOLEAN /\ mode \in {"local", "server"}
  /\ core \in [Apps -> Cores]
  /\ pull \in {"no", "part", "mapped"} /\ pulls \in 0 .. MaxPulls
  /\ zip \in 0 .. pulls /\ maps \in 0 .. pulls \union {Torn}
  /\ saved \in BOOLEAN /\ crashes \in 0 .. MaxCrashes
  /\ fetched \in 0 .. pulls /\ failed \in Nat /\ early \in Nat /\ met \in BOOLEAN
  /\ (holds => app # 0) /\ (pull # "no" => OnServer)
  /\ \A c \in Apps : core[c].fatal => core[c].at \in {"keep", "unlink"}

Commits(c) == At(c, "import") /\ At(c, "files")'

(* "The previous local database is kept as a backup" (snapshot.py): a        *)
(* library is replaced only if a backup has it as it is at that moment, also *)
(* when an import is cut short and comes again -- as long as no core and no  *)
(* transfer has begun while an older core still ran.                        *)
OldLibraryKept == [][\A c \in Apps : Commits(c) => met \/ saved]_vars

(* A library from the server is never taken over without mappings, nor with  *)
(* those of an earlier transfer: they are at least those it came with,       *)
(* wherever the transfers before it were cut short, with half a file left or *)
(* none; under the same condition.                                          *)
MappingsFit == [][\A c \in Apps : Commits(c) => met \/ core[c].map >= zip]_vars

(* "Applied or not, don't retry on every start" (snapshot.py): once its      *)
(* import has been tried, a library costs no second start of the core,       *)
(* however the app and the core end in between; under the same condition;    *)
(* what fails before the try is in OneStartAtAll.                           *)
OneStartPerPull == met \/ failed <= fetched

(* The same of every failure of a start.  It does not hold: the mappings are *)
(* read and the backup is made before the try, and what fails there leaves   *)
(* the library where the next start finds it (snapshot.py:257-261).         *)
OneStartAtAll == met \/ failed + early <= fetched

(* "If the app goes away without stopping it (crash, killed from the task    *)
(* manager, a restart), the core ends too" (parent_watch.py).               *)
OrphansEnd == \A c \in Apps : (Runs(c) /\ app # c) ~> ~Runs(c)
=============================================================================
