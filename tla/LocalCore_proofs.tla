---------------------------- MODULE LocalCore_proofs ----------------------------
(***************************************************************************)
(* Proofs about LocalCore for any number of starts, transfers and crashes,   *)
(* on both platforms, whatever overlaps and whatever is torn: the types, and *)
(* that a library that was fetched is taken over after a backup, with its    *)
(* mappings and at the cost of one start, unless cores have overlapped.     *)
(***************************************************************************)
EXTENDS LocalCore, TLAPS

\* Where a core is not at the files, or waits for those before it.
Aside == {"none", "migrate", "gone"}

-----------------------------------------------------------------------------
(* Types. *)

LEMMA NumbersKnown ==
  MaxApps \in Nat /\ MaxApps > 0 /\ MaxPulls \in Nat /\ MaxCrashes \in Nat
BY LocalCoreAssumption

\* The app in charge is the last one started; a transfer under way is not
\* complete.
AppInv ==
  (ready => app # 0) /\ (app # 0 => app = started) /\ (pull # "no" => fetched < pulls)

Typed == TypeOK /\ AppInv

\* One core is somewhere else, and the others are where they were.
Moves(c, p) ==
  core'[c].at = p /\ \A d \in Apps : d # c => core'[d] = core[d]

(* One core goes on; the app and the transfer stay. *)
LEMMA CoreType ==
  ASSUME Typed, NEW c \in Apps, NEW r \in Cores, core' = [core EXCEPT ![c] = r],
         core[c].at # "none", r.fatal => r.at \in {"keep", "unlink"},
         UNCHANGED <<shell, pull, pulls, fetched, crashes>>,
         zip' \in 0 .. pulls, maps' \in 0 .. pulls \union {Torn}, saved' \in BOOLEAN,
         failed' \in Nat, early' \in Nat, met' \in BOOLEAN
  PROVE  Typed' /\ Moves(c, r.at) /\ core'[c] = r
<1>1. core' \in [Apps -> Cores] /\ \A d \in Apps : d # c => core'[d] = core[d]
  BY DEF Typed, TypeOK
<1>2. core'[c] = r
  BY DEF Typed, TypeOK
<1>3. \A d \in Apps : core'[d].fatal => core'[d].at \in {"keep", "unlink"}
  BY <1>1, <1>2 DEF Typed, TypeOK
<1>4. (pull # "no" => OnServer)'
  <2> SUFFICES ASSUME pull # "no" PROVE OnServer'
    BY DEF OnServer, At
  <2>1. ready /\ core[app].at = "none" /\ app # 0
    BY DEF Typed, TypeOK, OnServer, At, AppInv
  <2>2. app \in Apps
    BY <2>1, NumbersKnown DEF Typed, TypeOK, Apps
  <2> QED
    BY <1>1, <2>1, <2>2 DEF OnServer, At, shell
<1>5. app' = app /\ started' = started /\ ready' = ready /\ holds' = holds /\ mode' = mode
  BY DEF shell
<1>6. AppInv'
  BY <1>5 DEF Typed, AppInv
<1>7. Typed'
  BY <1>1, <1>3, <1>4, <1>5, <1>6 DEF Typed, TypeOK, Torn
<1> QED
  BY <1>1, <1>2, <1>7 DEF Moves

Places == {"none", "migrate", "pending", "backup", "import", "files", "keep", "unlink",
           "wiring", "up", "stopping", "gone"}

(* A core with another place. *)
LEMMA CoreAt ==
  ASSUME NEW r \in Cores, NEW p \in Places, NEW s, s = [r EXCEPT !.at = p]
  PROVE  s \in Cores /\ s.at = p /\ s.map = r.map /\ s.fatal = r.fatal
BY DEF Cores, Places

LEMMA NoCoreType == NoCore \in Cores /\ NoCore.fatal = FALSE
BY NumbersKnown DEF NoCore, Cores

LEMMA GoneType == Gone \in Cores /\ Gone.at = "gone" /\ Gone.fatal = FALSE
<1>1. "gone" \in Places
  BY DEF Places
<1>2. Gone = [NoCore EXCEPT !.at = "gone"]
  BY DEF Gone
<1> QED
  BY NoCoreType, <1>1, <1>2, CoreAt

\* What a core's steps leave to the app, or change within the types.
Rest ==
  /\ UNCHANGED <<shell, pull, pulls, fetched, crashes>>
  /\ zip' \in 0 .. pulls /\ maps' \in 0 .. pulls \union {Torn}
  /\ saved' \in BOOLEAN /\ failed' \in Nat /\ early' \in Nat /\ met' \in BOOLEAN

LEMMA CoreGoes ==
  ASSUME Typed, NEW c \in Apps, NEW p \in Places, Goes(c, p), Rest,
         core[c].at # "none", core[c].fatal => p \in {"keep", "unlink"}
  PROVE  Typed' /\ Moves(c, p) /\ core'[c].map = core[c].map
<1>1. core[c] \in Cores
  BY DEF Typed, TypeOK
<1> DEFINE s == [core[c] EXCEPT !.at = p]
<1>2. s \in Cores /\ s.at = p /\ s.map = core[c].map /\ s.fatal = core[c].fatal
  BY <1>1, CoreAt
<1>3. core' = [core EXCEPT ![c] = s]
  BY DEF Goes
<1> HIDE DEF s
<1>4. Typed' /\ Moves(c, s.at) /\ core'[c] = s
  BY <1>2, <1>3, CoreType DEF Rest
<1> QED
  BY <1>2, <1>4

LEMMA CoreEnds ==
  ASSUME Typed, NEW c \in Apps, core' = [core EXCEPT ![c] = Gone], Rest, core[c].at # "none"
  PROVE  Typed' /\ Moves(c, "gone")
<1>1. Typed' /\ Moves(c, Gone.at) /\ core'[c] = Gone
  BY GoneType, CoreType DEF Rest
<1> QED
  BY <1>1, GoneType

LEMMA CoreTries ==
  ASSUME Typed, NEW c \in Apps, NEW p \in Places, NEW f \in BOOLEAN, Outcome(c, p, f), Rest,
         core[c].at # "none", f => p \in {"keep", "unlink"}
  PROVE  Typed' /\ Moves(c, p)
<1>1. core[c] \in Cores
  BY DEF Typed, TypeOK
<1>s. PICK s : s = [core[c] EXCEPT !.at = p, !.fatal = f]
  OBVIOUS
<1>2. s \in Cores /\ s.at = p /\ s.fatal = f
  BY <1>1, <1>s DEF Cores, Places
<1>3. core' = [core EXCEPT ![c] = s]
  BY <1>s, Zenon DEF Outcome
<1>4. Typed' /\ Moves(c, s.at) /\ core'[c] = s
  BY <1>2, <1>3, CoreType DEF Rest
<1> QED
  BY <1>2, <1>4

-----------------------------------------------------------------------------
(* Every step of a core, by what it does to the core's place. *)

LEMMA StayedRest ==
  ASSUME Typed, UNCHANGED <<shell, files, crashes>>, saved' \in BOOLEAN,
         failed' \in Nat, early' \in Nat, met' \in BOOLEAN
  PROVE  Rest
BY DEF Typed, TypeOK, Rest, files

LEMMA NotYetFatal ==
  ASSUME Typed, NEW c \in Apps, core[c].fatal
  PROVE  core[c].at \in {"keep", "unlink"}
BY DEF Typed, TypeOK

LEMMA MigrateMoves ==
  ASSUME Typed, NEW c \in Apps, Migrate(c)
  PROVE  Typed' /\ Moves(c, "pending")
<1>1. Rest
  BY StayedRest DEF Migrate, Meets, Typed, TypeOK
<1>2. "pending" \in Places /\ core[c].at = "migrate" /\ ~core[c].fatal
  BY NotYetFatal DEF Migrate, At, Places
<1> QED
  BY <1>1, <1>2, CoreGoes DEF Migrate

LEMMA NonePendingMoves ==
  ASSUME Typed, NEW c \in Apps, NonePending(c)
  PROVE  Typed' /\ Moves(c, "wiring")
<1>1. Rest
  BY StayedRest DEF NonePending, Typed, TypeOK
<1>2. "wiring" \in Places /\ core[c].at = "pending" /\ ~core[c].fatal
  BY NotYetFatal DEF NonePending, At, Places
<1> QED
  BY <1>1, <1>2, CoreGoes DEF NonePending

LEMMA ReadMappingsMoves ==
  ASSUME Typed, NEW c \in Apps, ReadMappings(c)
  PROVE  /\ Typed'
         /\ Moves(c, "gone") \/ (Moves(c, "backup") /\ core'[c].map = maps)
<1>1. Rest
  BY StayedRest DEF ReadMappings, Typed, TypeOK, DiesEarly
<1>2. core[c].at = "pending" /\ ~core[c].fatal /\ core[c] \in Cores
  BY NotYetFatal DEF ReadMappings, At, Typed, TypeOK
<1>3. CASE maps = Torn
  BY <1>1, <1>2, <1>3, CoreEnds DEF ReadMappings, DiesEarly
<1>4. CASE maps # Torn
  <2>s. PICK s : s = [core[c] EXCEPT !.at = "backup", !.map = maps]
    OBVIOUS
  <2>1. maps \in 0 .. MaxPulls /\ "backup" \in Places
    BY <1>4, NumbersKnown DEF Typed, TypeOK, Places
  <2>2. s \in Cores /\ s.at = "backup" /\ s.map = maps /\ s.fatal = core[c].fatal
    BY <1>2, <2>1, <2>s DEF Cores, Places
  <2>3. core' = [core EXCEPT ![c] = s] /\ early' = early
    BY <1>4, <2>s, Zenon DEF ReadMappings
  <2>4. Typed' /\ Moves(c, s.at) /\ core'[c] = s
    BY <1>1, <1>2, <2>2, <2>3, CoreType DEF Rest
  <2> QED
    BY <1>4, <2>2, <2>3, <2>4
<1> QED
  BY <1>3, <1>4

LEMMA BackupMoves ==
  ASSUME Typed, NEW c \in Apps, Backup(c)
  PROVE  /\ Typed'
         /\ \/ Moves(c, "gone")
            \/ saved' /\ Moves(c, "import") /\ core'[c].map = core[c].map
<1>1. core[c].at = "backup" /\ ~core[c].fatal /\ "import" \in Places
  BY NotYetFatal DEF Backup, At, Places
<1>2. UNCHANGED <<shell, files, crashes, failed, met>> /\ failed \in Nat /\ early \in Nat
      /\ met \in BOOLEAN
  BY DEF Backup, Typed, TypeOK
<1>3. CASE Goes(c, "import") /\ saved' = Copied /\ UNCHANGED early
  <2>1. saved' = TRUE
    BY <1>3, Zenon DEF Copied
  <2>2. Rest
    BY <1>2, <1>3, <2>1, StayedRest
  <2> QED
    BY <1>1, <1>3, <2>1, <2>2, CoreGoes
<1>4. CASE DiesEarly(c) /\ UNCHANGED saved
  <2>1. saved' \in BOOLEAN
    BY <1>4, Zenon DEF Typed, TypeOK
  <2>2. Rest
    BY <1>2, <1>4, <2>1, StayedRest DEF DiesEarly
  <2> QED
    BY <1>1, <1>4, <2>2, CoreEnds DEF DiesEarly
<1> QED
  BY <1>3, <1>4 DEF Backup

LEMMA ImportMoves ==
  ASSUME Typed, NEW c \in Apps, Import(c)
  PROVE  /\ Typed'
         /\ \/ zip # 0 /\ Moves(c, "files")
            \/ saved' = saved /\ Moves(c, "keep")
<1>1. core[c].at = "import"
  BY DEF Import, At
<1>2. "files" \in Places /\ "keep" \in Places
  BY DEF Places
<1>3. Rest
  BY StayedRest DEF Import, Typed, TypeOK
<1>4. CASE zip # 0 /\ Outcome(c, "files", FALSE)
  BY <1>1, <1>2, <1>3, <1>4, CoreTries
<1>5. ASSUME NEW f \in BOOLEAN, Outcome(c, "keep", f), UNCHANGED saved
      PROVE  Typed' /\ Moves(c, "keep")
  BY <1>1, <1>2, <1>3, <1>5, CoreTries
<1> QED
  BY <1>4, <1>5 DEF Import

LEMMA UnpackMoves ==
  ASSUME Typed, NEW c \in Apps, Unpack(c)
  PROVE  Typed' /\ Moves(c, "keep")
<1>1. core[c].at = "files" /\ "keep" \in Places
  BY DEF Unpack, At, Places
<1>2. Rest
  BY StayedRest DEF Unpack, Typed, TypeOK
<1>3. PICK f \in BOOLEAN : Outcome(c, "keep", f)
  BY DEF Unpack
<1> QED
  BY <1>1, <1>2, <1>3, CoreTries

LEMMA KeepMoves ==
  ASSUME Typed, NEW c \in Apps, Keep(c)
  PROVE  /\ Typed'
         /\ \/ zip # 0 /\ zip' = 0 /\ failed' = failed /\ Moves(c, "unlink")
            \/ zip = 0 /\ zip' = 0 /\ Moves(c, "gone")
<1>1. core[c].at = "keep" /\ "unlink" \in Places
  BY DEF Keep, At, Places
<1>2. pulls \in Nat
  BY NumbersKnown DEF Typed, TypeOK
<1>3. Rest
  BY <1>2 DEF Keep, Typed, TypeOK, Rest, Dies
<1>4. CASE zip # 0
  BY <1>1, <1>3, <1>4, CoreGoes DEF Keep, StillThere
<1>5. CASE zip = 0
  BY <1>1, <1>3, <1>5, CoreEnds DEF Keep, StillThere, Dies
<1> QED
  BY <1>4, <1>5

LEMMA UnlinkMoves ==
  ASSUME Typed, NEW c \in Apps, Unlink(c)
  PROVE  /\ Typed'
         /\ \/ failed' = failed + 1 /\ Moves(c, "gone")
            \/ failed' = failed /\ Moves(c, "wiring")
<1>1. core[c].at = "unlink" /\ "wiring" \in Places
  BY DEF Unlink, At, Places
<1>2. pulls \in Nat
  BY NumbersKnown DEF Typed, TypeOK
<1>3. Rest
  BY <1>2 DEF Unlink, Typed, TypeOK, Rest, Dies
<1>4. CASE core[c].fatal
  BY <1>1, <1>3, <1>4, CoreEnds DEF Unlink, Uncaught, Dies
<1>5. CASE ~core[c].fatal
  BY <1>1, <1>3, <1>5, CoreGoes DEF Unlink, Uncaught
<1> QED
  BY <1>4, <1>5

LEMMA WatchMoves ==
  ASSUME Typed, NEW c \in Apps, Watch(c)
  PROVE  Typed' /\ Moves(c, "up")
<1>1. core[c].at = "wiring" /\ ~core[c].fatal /\ core[c] \in Cores
  BY NotYetFatal DEF Watch, At, Typed, TypeOK
<1>2. Rest
  BY StayedRest DEF Watch, Typed, TypeOK
<1>s. PICK s : s = [core[c] EXCEPT !.at = "up", !.watch = Watched(c)]
  OBVIOUS
<1>3. Watched(c) \in SUBSET {"app", "launcher"}
  BY DEF Watched
<1>4. s \in Cores /\ s.at = "up" /\ s.fatal = core[c].fatal
  BY <1>1, <1>s, <1>3 DEF Cores
<1>5. core' = [core EXCEPT ![c] = s]
  BY <1>s, Zenon DEF Watch
<1>6. Typed' /\ Moves(c, s.at) /\ core'[c] = s
  BY <1>1, <1>2, <1>4, <1>5, CoreType DEF Rest
<1> QED
  BY <1>4, <1>6

LEMMA NoticeMoves ==
  ASSUME Typed, NEW c \in Apps, Notice(c)
  PROVE  Typed' /\ (Moves(c, "gone") \/ Moves(c, "stopping"))
<1>1. core[c].at = "up" /\ ~core[c].fatal /\ "stopping" \in Places
  BY NotYetFatal DEF Notice, At, Places
<1>2. Rest
  BY StayedRest DEF Notice, Typed, TypeOK
<1>3. CASE Platform = "win32"
  BY <1>1, <1>2, <1>3, CoreEnds DEF Notice
<1>4. CASE Platform # "win32"
  BY <1>1, <1>2, <1>4, CoreGoes DEF Notice
<1> QED
  BY <1>3, <1>4

LEMMA ShutDownMoves ==
  ASSUME Typed, NEW c \in Apps, ShutDown(c)
  PROVE  Typed' /\ Moves(c, "gone")
<1>1. core[c].at = "stopping"
  BY DEF ShutDown, At
<1>2. Rest
  BY StayedRest DEF ShutDown, Typed, TypeOK
<1> QED
  BY <1>1, <1>2, CoreEnds DEF ShutDown

LEMMA WorkMoves ==
  ASSUME Typed, NEW c \in Apps, Work(c)
  PROVE  Typed' /\ core' = core /\ core[c].at \in {"up", "stopping"} /\
         UNCHANGED <<shell, files, failed, early, met>>
<1>1. UNCHANGED <<shell, core, files, crashes, failed, early, met>> /\ saved' = FALSE
  BY DEF Work
<1>2. UNCHANGED <<app, started, ready, holds, mode, core, pull, pulls, zip, maps, fetched, crashes,
                  failed, early, met>>
  BY <1>1 DEF shell, files
<1>3. (pull # "no" => OnServer)' /\ AppInv'
  BY <1>2 DEF Typed, TypeOK, OnServer, At, AppInv
<1> QED
  BY <1>1, <1>2, <1>3 DEF Typed, TypeOK, Torn, Work

-----------------------------------------------------------------------------
(* The steps of the app and of a transfer. *)

\* No core goes anywhere.
Stay == \A d \in Apps : core'[d].at = core[d].at /\ core'[d].map = core[d].map

LEMMA StoppedStay ==
  ASSUME Typed, core' = Stopped
  PROVE  /\ Stay /\ core' \in [Apps -> Cores]
         /\ \A d \in Apps : core'[d].fatal => core'[d].at \in {"keep", "unlink"}
<1>1. core \in [Apps -> Cores] /\ \A d \in Apps : core[d].fatal => core[d].at \in {"keep", "unlink"}
  BY DEF Typed, TypeOK
<1>2. CASE holds
  <2>1. app \in Apps
    BY <1>2, NumbersKnown DEF Typed, TypeOK, Apps
  <2>s. PICK s : s = [core[app] EXCEPT !.launcher = FALSE]
    OBVIOUS
  <2>2. core' = [core EXCEPT ![app] = s]
    BY <1>2, <2>s, Zenon DEF Stopped
  <2>3. s \in Cores /\ s.at = core[app].at /\ s.map = core[app].map /\ s.fatal = core[app].fatal
    BY <1>1, <2>1, <2>s DEF Cores
  <2> QED
    BY <1>1, <2>1, <2>2, <2>3 DEF Stay
<1>3. CASE ~holds
  BY <1>1, <1>3 DEF Stopped, Stay
<1> QED
  BY <1>2, <1>3

LEMMA StartAppType ==
  ASSUME Typed, StartApp
  PROVE  /\ Typed' /\ pull = "no" /\ app' = started + 1 /\ app' \in Apps
         /\ core'[app'].at \in Aside \union {core[app'].at}
         /\ \A d \in Apps : d # app' => core'[d] = core[d]
<1>1. app = 0 /\ started \in 0 .. MaxApps /\ started < MaxApps /\ started' = started + 1
      /\ app' = started' /\ core \in [Apps -> Cores] /\ holds = FALSE /\ pull = "no"
  BY DEF StartApp, Typed, TypeOK, OnServer, AppInv
<1>2. app' \in Apps /\ app' = started + 1 /\ app' \in 0 .. started' /\ started' \in 0 .. MaxApps /\ app' # 0
  BY <1>1, NumbersKnown DEF Apps
<1>3. core' \in [Apps -> Cores] /\ (\A d \in Apps : d # app' => core'[d] = core[d])
      /\ core'[app'].at \in Aside \union {core[app'].at}
      /\ (core'[app'].fatal => core[app'].fatal /\ core'[app'].at = core[app'].at)
  <2>1. CASE mode = "local"
    <3>s. PICK s : s = [NoCore EXCEPT !.at = "migrate", !.launcher = TRUE]
      OBVIOUS
    <3>1. s \in Cores /\ s.at = "migrate" /\ s.fatal = FALSE
      BY <3>s, NoCoreType DEF Cores
    <3>2. core' = [core EXCEPT ![app'] = s]
      BY <2>1, <3>s, Zenon DEF StartApp
    <3> QED
      BY <1>1, <1>2, <3>1, <3>2 DEF Aside
  <2>2. CASE mode # "local"
    <3>1. core' = core
      BY <2>2 DEF StartApp
    <3> QED
      BY <1>1, <1>2, <3>1
  <2> QED
    BY <2>1, <2>2
<1>4. ready' \in BOOLEAN /\ UNCHANGED <<holds, mode, files, saved, crashes, failed, early, met>>
  BY DEF StartApp
<1>5. \A d \in Apps : core'[d].fatal => core'[d].at \in {"keep", "unlink"}
  BY <1>2, <1>3 DEF Typed, TypeOK
<1>6. AppInv'
  BY <1>1, <1>2, <1>4 DEF AppInv, files
<1>7. Typed'
  BY <1>1, <1>2, <1>3, <1>4, <1>5, <1>6 DEF Typed, TypeOK, Torn, files
<1> QED
  BY <1>1, <1>2, <1>3, <1>7

LEMMA AdoptType ==
  ASSUME Typed, Adopt
  PROVE  Typed'
<1>1. app # 0 /\ ready = FALSE /\ pull = "no" /\ ready' = TRUE /\ holds' = TRUE
      /\ UNCHANGED <<app, started, mode, core, pull, pulls, zip, maps, fetched, saved, crashes,
                     failed, early, met>>
  BY DEF Adopt, Typed, TypeOK, OnServer, files
<1>2. AppInv'
  BY <1>1 DEF Typed, AppInv
<1> QED
  BY <1>1, <1>2 DEF Typed, TypeOK, Torn

LEMMA StopCoreType ==
  ASSUME Typed, StopCore
  PROVE  Typed' /\ Stay
<1>1. holds' = FALSE /\ core' = Stopped
      /\ UNCHANGED <<app, started, ready, mode, pull, pulls, zip, maps, fetched, saved, crashes,
                     failed, early, met>>
  BY DEF StopCore, files
<1>2. /\ Stay /\ core' \in [Apps -> Cores]
      /\ \A d \in Apps : core'[d].fatal => core'[d].at \in {"keep", "unlink"}
  BY <1>1, StoppedStay
<1>3. AppInv'
  BY <1>1 DEF Typed, AppInv
<1>4. (pull # "no" => OnServer)'
  <2> SUFFICES ASSUME pull # "no" PROVE OnServer'
    BY <1>1 DEF OnServer, At
  <2>1. ready /\ core[app].at = "none" /\ app # 0 /\ app \in Apps
    BY NumbersKnown DEF Typed, TypeOK, OnServer, At, AppInv, Apps
  <2> QED
    BY <1>1, <1>2, <2>1 DEF OnServer, At, Stay
<1> QED
  BY <1>1, <1>2, <1>3, <1>4 DEF Typed, TypeOK, Torn

\* The app ends.
Ends ==
  app' = 0 /\ ready' = FALSE /\ holds' = FALSE /\ pull' = "no"
    /\ maps' \in {maps, Torn}
    /\ UNCHANGED <<started, mode, pulls, zip, saved, fetched, failed, early, met>>

LEMMA LeftEnds == ASSUME Left PROVE Ends
BY DEF Left, Ends, Half

LEMMA EndsType ==
  ASSUME Typed, Ends, core' \in [Apps -> Cores], crashes' \in 0 .. MaxCrashes,
         \A d \in Apps : core'[d].fatal => core'[d].at \in {"keep", "unlink"}
  PROVE  Typed'
<1>1. started \in Nat /\ app' = 0 /\ started' = started
  BY NumbersKnown DEF Typed, TypeOK, Ends
<1>2. app' \in 0 .. started'
  BY <1>1
<1>3. UNCHANGED <<started, mode, pulls, zip, saved, fetched, failed, early, met>> /\ maps' \in {maps, Torn}
      /\ ready' = FALSE /\ holds' = FALSE /\ pull' = "no"
  BY DEF Ends
<1>4. AppInv'
  BY <1>1, <1>3 DEF AppInv
<1> QED
  BY <1>2, <1>3, <1>4 DEF Typed, TypeOK, Torn

LEMMA QuitType ==
  ASSUME Typed, Quit
  PROVE  Typed' /\ Stay /\ Ends
<1>1. Ends /\ core' = Stopped /\ crashes' = crashes /\ crashes \in 0 .. MaxCrashes
  BY LeftEnds DEF Quit, Typed, TypeOK
<1> QED
  BY <1>1, StoppedStay, EndsType

LEMMA CrashType ==
  ASSUME Typed, Crash
  PROVE  Typed' /\ Stay /\ Ends
<1>1. Ends /\ core' = core /\ crashes' \in 0 .. MaxCrashes
  BY NumbersKnown, LeftEnds DEF Crash, Typed, TypeOK
<1>2. /\ Stay /\ core' \in [Apps -> Cores]
      /\ \A d \in Apps : core'[d].fatal => core'[d].at \in {"keep", "unlink"}
  BY <1>1 DEF Typed, TypeOK, Stay
<1> QED
  BY <1>1, <1>2, EndsType

LEMMA PowerLossType ==
  ASSUME Typed, PowerLoss
  PROVE  /\ Typed' /\ Ends
         /\ \A d \in Apps : core'[d].at = IF Runs(d) THEN "gone" ELSE core[d].at
<1>1. Ends /\ crashes' \in 0 .. MaxCrashes
      /\ core' = [a \in Apps |-> IF Runs(a) THEN Gone ELSE core[a]]
  BY NumbersKnown, LeftEnds DEF PowerLoss, Typed, TypeOK
<1>2. \A d \in Apps : core'[d] = IF Runs(d) THEN Gone ELSE core[d]
  BY <1>1
<1>3. core' \in [Apps -> Cores] /\ \A d \in Apps : core'[d].fatal => core'[d].at \in {"keep", "unlink"}
  BY <1>1, <1>2, GoneType DEF Typed, TypeOK
<1> QED
  BY <1>1, <1>2, <1>3, GoneType, EndsType

LEMMA SwitchModeType ==
  ASSUME Typed, NEW to \in {"local", "server"}, SwitchMode(to)
  PROVE  Typed'
<1>1. mode' = to /\ UNCHANGED <<app, started, ready, holds, core, pull, pulls, zip, maps, fetched,
                                saved, crashes, failed, early, met>>
  BY DEF SwitchMode, files
<1>2. AppInv' /\ (pull # "no" => OnServer)'
  BY <1>1 DEF Typed, AppInv, TypeOK, OnServer, At
<1> QED
  BY <1>1, <1>2 DEF Typed, TypeOK, Torn

\* A transfer leaves the app and the cores alone.
Transfer ==
  /\ UNCHANGED <<shell, core, saved, crashes, failed, early>> /\ met' \in BOOLEAN
  /\ pull' \in {"no", "part", "mapped"} /\ pulls' \in 0 .. MaxPulls
  /\ zip' \in 0 .. pulls' /\ maps' \in 0 .. pulls' \union {Torn} /\ fetched' \in 0 .. pulls'

LEMMA TransferType ==
  ASSUME Typed, Transfer, OnServer, pull' # "no" => fetched' < pulls'
  PROVE  Typed'
<1>1. UNCHANGED <<app, started, ready, holds, mode, core, saved, crashes, failed, early>>
  BY DEF Transfer, shell
<1>2. AppInv' /\ OnServer'
  BY <1>1 DEF Typed, AppInv, OnServer, At
<1> QED
  BY <1>1, <1>2 DEF Typed, TypeOK, Torn, Transfer

LEMMA DownloadType ==
  ASSUME Typed, Download
  PROVE  Typed' /\ Transfer
<1>1. pulls \in Nat /\ MaxPulls \in Nat /\ pulls < MaxPulls
  BY NumbersKnown DEF Typed, TypeOK, Download
<1>2. Transfer /\ OnServer /\ fetched' < pulls'
  BY <1>1 DEF Download, Meets, Transfer, Typed, TypeOK
<1> QED
  BY <1>2, TransferType

LEMMA WriteMappingsType ==
  ASSUME Typed, WriteMappings
  PROVE  Typed' /\ Transfer
<1>1. pulls \in 0 .. MaxPulls /\ MaxPulls \in Nat /\ OnServer
  BY NumbersKnown DEF Typed, TypeOK, WriteMappings
<1>2. Transfer /\ fetched' < pulls'
  BY <1>1 DEF WriteMappings, Transfer, Typed, TypeOK, AppInv
<1> QED
  BY <1>1, <1>2, TransferType

LEMMA PullFailsType ==
  ASSUME Typed, PullFails
  PROVE  Typed' /\ Transfer /\ maps' \in {maps, Torn}
<1>1. pulls \in 0 .. MaxPulls /\ MaxPulls \in Nat /\ OnServer
  BY NumbersKnown DEF Typed, TypeOK, PullFails
<1>2. maps' \in {maps, Torn}
  BY DEF PullFails, Half
<1>3. UNCHANGED <<shell, core, pulls, zip, fetched, saved, crashes,
                  failed, early, met>> /\ pull' = "no"
  BY DEF PullFails
<1>4. Transfer
  <2>1. maps' \in 0 .. pulls \union {Torn}
    BY <1>2 DEF Typed, TypeOK
  <2> QED
    BY <1>1, <1>3, <2>1 DEF Transfer, Typed, TypeOK
<1> QED
  BY <1>1, <1>2, <1>3, <1>4, TransferType

LEMMA RenameType ==
  ASSUME Typed, Rename
  PROVE  Typed' /\ Transfer
<1>1. pulls \in Nat /\ MaxPulls \in Nat /\ OnServer /\ fetched < pulls /\ fetched \in Nat
  BY NumbersKnown DEF Typed, TypeOK, AppInv, Rename, Complete
<1>2. Transfer /\ pull' = "no"
  BY <1>1 DEF Rename, Transfer, Typed, TypeOK
<1> QED
  BY <1>1, <1>2, TransferType

-----------------------------------------------------------------------------
(* The type invariant: whatever the faults, and for any number of starts,   *)
(* transfers and crashes, the state is of its type; a transfer is under way  *)
(* only in an app without a core.                                           *)
LEMMA TypedHolds == Spec => []Typed
<1>1. Init => Typed
  <2> SUFFICES ASSUME Init PROVE Typed
    OBVIOUS
  <2>1. core \in [Apps -> Cores] /\ \A d \in Apps : ~core[d].fatal
    BY NoCoreType DEF Init
  <2>2. /\ app = 0 /\ started = 0 /\ ready = FALSE /\ holds = FALSE /\ mode \in {"local", "server"} /\ pull = "no"
        /\ pulls = 0 /\ zip = 0 /\ maps = 0 /\ saved = FALSE /\ crashes = 0 /\ fetched = 0 /\ failed = 0
        /\ early = 0 /\ met = FALSE
    BY DEF Init
  <2>3. AppInv
    BY <2>2 DEF AppInv
  <2>4. /\ app \in 0 .. started /\ started \in 0 .. MaxApps /\ pulls \in 0 .. MaxPulls
        /\ zip \in 0 .. pulls /\ maps \in 0 .. pulls \union {Torn}
        /\ crashes \in 0 .. MaxCrashes /\ fetched \in 0 .. pulls /\ failed \in Nat /\ early \in Nat
    BY <2>2, NumbersKnown
  <2>5. ready \in BOOLEAN /\ met \in BOOLEAN /\ holds \in BOOLEAN /\ saved \in BOOLEAN /\ (holds => app # 0)
    BY <2>2
  <2> QED
    BY <2>1, <2>2, <2>3, <2>4, <2>5, Zenon DEF Typed, TypeOK
<1>2. Typed /\ [Next]_vars => Typed'
  <2> SUFFICES ASSUME Typed, [Next]_vars PROVE Typed'
    OBVIOUS
  <2>1. CASE StartApp \/ Adopt \/ StopCore \/ Quit \/ Crash \/ PowerLoss
    BY <2>1, StartAppType, AdoptType, StopCoreType, QuitType, CrashType, PowerLossType
  <2>2. CASE \E to \in {"local", "server"} : SwitchMode(to)
    BY <2>2, SwitchModeType
  <2>3. CASE Download \/ WriteMappings \/ Rename \/ PullFails
    BY <2>3, DownloadType, WriteMappingsType, RenameType, PullFailsType
  <2>4. ASSUME NEW c \in Apps, Core(c) PROVE Typed'
    BY <2>4, MigrateMoves, NonePendingMoves, ReadMappingsMoves, BackupMoves, ImportMoves,
       UnpackMoves, KeepMoves, UnlinkMoves, WatchMoves, NoticeMoves, ShutDownMoves DEF Core
  <2>5. ASSUME NEW c \in Apps, Work(c) PROVE Typed'
    BY <2>5, WorkMoves
  <2>6. CASE UNCHANGED vars
    BY <2>6 DEF vars, shell, files, Typed, TypeOK, AppInv, OnServer, At
  <2> QED
    BY <2>1, <2>2, <2>3, <2>4, <2>5, <2>6 DEF Next
<1> QED
  BY <1>1, <1>2, PTL DEF Spec

THEOREM TypeCorrect == Spec => []TypeOK
<1>1. Typed => TypeOK
  BY DEF Typed
<1> QED
  BY <1>1, TypedHolds, PTL

-----------------------------------------------------------------------------
(* One core at the files, where a core that is left has time to end.        *)

\* A core past the wait for those before it is the only one there, and a
\* transfer has the files to itself.
OneCore ==
  /\ \A c \in Apps : c > started => core[c].at = "none"
  /\ \A c, d \in Apps : c < d /\ Runs(c) => core[d].at \in Aside
  /\ pull # "no" => \A c \in Apps : ~Runs(c)

LEMMA Alone ==
  ASSUME Typed, OneCore, NEW c \in Apps, core[c].at \notin Aside
  PROVE  pull = "no" /\ \A d \in Apps : d # c => core[d].at \in Aside
<1>1. Runs(c) /\ pull = "no"
  BY DEF Runs, Aside, OneCore
<1>2. ASSUME NEW d \in Apps, d # c PROVE core[d].at \in Aside
  <2>1. c < d \/ d < c
    BY <1>2, NumbersKnown DEF Apps
  <2>2. CASE c < d
    BY <1>1, <2>2 DEF OneCore
  <2>3. CASE d < c
    BY <2>3 DEF OneCore, Runs, Aside
  <2> QED
    BY <2>1, <2>2, <2>3
<1> QED
  BY <1>1, <1>2

LEMMA MigrateOneCore ==
  ASSUME Typed, OneCore, NEW c \in Apps, Migrate(c), ~met'
  PROVE  OneCore'
<1>1. core[c].at = "migrate" /\ UNCHANGED <<started, pull>> /\ Runs(c)
  BY DEF Migrate, At, shell, files, Runs
<1>2. core'[c].at = "pending" /\ \A d \in Apps : d # c => core'[d] = core[d]
  BY MigrateMoves DEF Moves
<1>3. \A d \in Apps : d < c => ~Runs(d)
  <2>1. ~\E d \in 1 .. (c - 1) : Runs(d)
    BY DEF Migrate, Meets
  <2>2. \A d \in Apps : d < c => d \in 1 .. (c - 1)
    BY NumbersKnown DEF Apps
  <2> QED
    BY <2>1, <2>2
<1>4. pull = "no" /\ c <= started
  BY <1>1, NumbersKnown DEF OneCore, Typed, TypeOK, Apps
<1>5. ASSUME NEW d \in Apps, NEW e \in Apps, d < e, Runs(d)' PROVE core'[e].at \in Aside
  <2>1. CASE e = c
    <3>1. d # c
      BY <1>5, <2>1, NumbersKnown DEF Apps
    <3> QED
      BY <1>2, <1>3, <1>5, <2>1, <3>1 DEF Runs
  <2>2. CASE e # c
    <3>1. Runs(d)
      BY <1>1, <1>2, <1>5 DEF Runs
    <3> QED
      BY <1>2, <1>5, <2>2, <3>1 DEF OneCore
  <2> QED
    BY <2>1, <2>2
<1>6. \A d \in Apps : d > started' => core'[d].at = "none"
  <2>1. started \in Nat /\ c \in Nat
    BY NumbersKnown DEF Typed, TypeOK, Apps
  <2> QED
    BY <1>1, <1>2, <1>4, <2>1 DEF OneCore
<1> QED
  BY <1>1, <1>4, <1>5, <1>6 DEF OneCore

(* A core that is past the wait goes on. *)
LEMMA GoesOneCore ==
  ASSUME Typed, OneCore, NEW c \in Apps, NEW p, Moves(c, p),
         core[c].at \notin Aside, UNCHANGED <<started, pull>>
  PROVE  OneCore'
<1>1. core'[c].at = p /\ \A d \in Apps : d # c => core'[d] = core[d]
  BY DEF Moves
<1>2. Runs(c) /\ core[c].at # "none" /\ pull = "no"
  BY DEF Runs, Aside, OneCore
<1>3. ASSUME NEW d \in Apps, NEW e \in Apps, d < e, Runs(d)' PROVE core'[e].at \in Aside
  <2>1. d # e
    BY <1>3, NumbersKnown DEF Apps
  <2>2. CASE e = c
    BY <1>1, <1>3, <2>1, <2>2 DEF Runs, OneCore
  <2>3. CASE e # c
    <3>1. Runs(d)
      BY <1>1, <1>2, <1>3 DEF Runs
    <3> QED
      BY <1>1, <1>3, <2>3, <3>1 DEF OneCore
  <2> QED
    BY <2>2, <2>3
<1>4. \A d \in Apps : d > started' => core'[d].at = "none"
  BY <1>1, <1>2 DEF OneCore
<1> QED
  BY <1>2, <1>3, <1>4 DEF OneCore

(* No core goes anywhere, or every one that runs ends. *)
LEMMA StayOneCore ==
  ASSUME OneCore, started' = started, pull' \in {pull, "no"},
         \A d \in Apps : core'[d].at \in {core[d].at, IF Runs(d) THEN "gone" ELSE core[d].at}
  PROVE  OneCore'
<1>1. \A d \in Apps : core'[d].at = core[d].at \/ (Runs(d) /\ core'[d].at = "gone")
  OBVIOUS
<1>2. \A d \in Apps : Runs(d)' => Runs(d) /\ core'[d].at = core[d].at
  BY <1>1 DEF Runs
<1>3. \A d \in Apps : core[d].at \in Aside => core'[d].at \in Aside
  BY <1>1 DEF Aside
<1>4. \A d \in Apps : core[d].at = "none" => core'[d].at = "none"
  BY <1>1 DEF Runs
<1> QED
  BY <1>2, <1>3, <1>4 DEF OneCore

LEMMA StartAppOneCore ==
  ASSUME Typed, OneCore, StartApp
  PROVE  OneCore'
<1>1. /\ pull = "no" /\ app' = started + 1 /\ app' \in Apps /\ started \in Nat
      /\ core'[app'].at \in Aside \union {core[app'].at}
      /\ \A d \in Apps : d # app' => core'[d] = core[d]
  BY StartAppType, NumbersKnown DEF Typed, TypeOK
<1>2. started' = app' /\ pull' = pull
  BY DEF StartApp, files
<1>3. core[app'].at = "none"
  BY <1>1 DEF OneCore
<1>4. core'[app'].at \in Aside
  BY <1>1, <1>3 DEF Aside
<1>5. \A d \in Apps : d > started' => d # app' /\ d > started
  BY <1>1, <1>2, NumbersKnown DEF Apps
<1>6. ASSUME NEW d \in Apps, NEW e \in Apps, d < e, Runs(d)' PROVE core'[e].at \in Aside
  <2>1. CASE e = app'
    BY <1>4, <2>1
  <2>2. CASE d = app'
    <3>1. e > started /\ e # app'
      BY <1>1, <1>6, <2>2, NumbersKnown DEF Apps
    <3> QED
      BY <1>1, <3>1 DEF OneCore, Aside
  <2>3. CASE e # app' /\ d # app'
    <3>1. Runs(d)
      BY <1>1, <1>6, <2>3 DEF Runs
    <3> QED
      BY <1>1, <1>6, <2>3, <3>1 DEF OneCore
  <2> QED
    BY <2>1, <2>2, <2>3
<1>7. \A d \in Apps : d > started' => core'[d].at = "none"
  BY <1>1, <1>5 DEF OneCore
<1> QED
  BY <1>1, <1>2, <1>6, <1>7 DEF OneCore

LEMMA DownloadOneCore ==
  ASSUME Typed, OneCore, Download, ~met'
  PROVE  OneCore'
<1>1. UNCHANGED <<started, core>> /\ core[app].at = "none" /\ app = started /\ app \in Nat
  BY NumbersKnown DEF Download, OnServer, At, Typed, TypeOK, AppInv, shell
<1>2. \A c \in 1 .. (app - 1) : ~Runs(c)
  BY DEF Download, Meets
<1>3. ASSUME NEW c \in Apps PROVE ~Runs(c)
  <2>1. CASE c < app
    BY <1>1, <1>2, <2>1, NumbersKnown DEF Apps
  <2>2. CASE c = app
    BY <1>1, <2>2 DEF Runs
  <2>3. CASE c > app
    BY <1>1, <2>3 DEF OneCore, Runs
  <2> QED
    BY <1>1, <2>1, <2>2, <2>3, NumbersKnown DEF Apps
<1> QED
  BY <1>1, <1>3 DEF OneCore, Runs

\* What the files of a transfer are proved from.
Apart == Typed /\ (~met => OneCore)

(* What has met once has met. *)
LEMMA MetStays == ASSUME [Next]_vars, ~met' PROVE ~met
<1>1. CASE StartApp \/ Adopt \/ StopCore \/ Quit \/ Crash \/ PowerLoss
             \/ \E to \in {"local", "server"} : SwitchMode(to)
  BY <1>1 DEF StartApp, Adopt, StopCore, Quit, Crash, PowerLoss, SwitchMode, Left
<1>2. CASE Download \/ WriteMappings \/ Rename \/ PullFails
  BY <1>2 DEF Download, Meets, WriteMappings, Rename, PullFails
<1>3. ASSUME NEW c \in Apps, Core(c) \/ Work(c) PROVE met' = met \/ Meets(c)
  BY <1>3 DEF Core, Migrate, NonePending, ReadMappings, Backup, Import, Unpack, Keep, Unlink,
     Watch, Notice, ShutDown, Work
<1>4. CASE UNCHANGED vars
  BY <1>4 DEF vars
<1> QED
  BY <1>1, <1>2, <1>3, <1>4 DEF Next, Meets

LEMMA ApartHolds == Spec => []Apart
<1>1. Init => OneCore
  <2> SUFFICES ASSUME Init PROVE OneCore
    OBVIOUS
  <2>1. \A c \in Apps : core[c].at = "none"
    BY DEF Init, NoCore
  <2>2. pull = "no"
    BY DEF Init
  <2> QED
    BY <2>1, <2>2 DEF OneCore, Runs
<1>2. Typed /\ (~met => OneCore) /\ [Next]_vars => (~met => OneCore)'
  <2> SUFFICES ASSUME Typed, ~met => OneCore, [Next]_vars, ~met' PROVE OneCore'
    OBVIOUS
  <2>0. OneCore
    BY MetStays
  <2>1. CASE StartApp
    BY <2>0, <2>1, StartAppOneCore
  <2>2. CASE Adopt \/ Crash \/ \E to \in {"local", "server"} : SwitchMode(to)
    <3>1. started' = started /\ pull' \in {pull, "no"} /\ core' = core
      BY <2>2, CrashType DEF Adopt, Crash, Left, SwitchMode, files
    <3> QED
      BY <2>0, <3>1, StayOneCore
  <2>3. CASE StopCore \/ Quit
    <3>1. started' = started /\ pull' \in {pull, "no"}
      BY <2>3 DEF StopCore, Quit, Left, files
    <3>2. Stay
      BY <2>3, StopCoreType, QuitType
    <3> QED
      BY <2>0, <3>1, <3>2, StayOneCore DEF Stay
  <2>4. CASE PowerLoss
    <3>1. started' = started /\ pull' = "no"
      BY <2>4 DEF PowerLoss, Left
    <3> QED
      BY <2>0, <2>4, <3>1, PowerLossType, StayOneCore
  <2>5. CASE Download
    BY <2>0, <2>5, DownloadOneCore
  <2>6. CASE WriteMappings \/ Rename \/ PullFails
    <3>1. UNCHANGED <<started, core>> /\ pull # "no"
      BY <2>6 DEF WriteMappings, Rename, Complete, PullFails, shell
    <3> QED
      BY <2>0, <3>1 DEF OneCore, Runs
  <2>7. ASSUME NEW c \in Apps, Core(c) PROVE OneCore'
    <3>1. CASE Migrate(c)
      BY <2>0, <3>1, MigrateOneCore
    <3>2. CASE ~Migrate(c)
      <4>1. core[c].at \notin Aside /\ UNCHANGED <<started, pull>>
        BY <2>7, <3>2 DEF Core, NonePending, ReadMappings, Backup, Import, Unpack, Keep, Unlink,
           Watch, Notice, ShutDown, At, Aside, shell, files
      <4>2. \E p : Moves(c, p)
        BY <2>7, <3>2, NonePendingMoves, ReadMappingsMoves, BackupMoves, ImportMoves, UnpackMoves,
           KeepMoves, UnlinkMoves, WatchMoves, NoticeMoves, ShutDownMoves DEF Core
      <4> QED
        BY <2>0, <4>1, <4>2, GoesOneCore
    <3> QED
      BY <3>1, <3>2
  <2>8. ASSUME NEW c \in Apps, Work(c) PROVE OneCore'
    <3>1. core' = core /\ UNCHANGED <<started, pull>>
      BY <2>8, WorkMoves DEF shell, files
    <3> QED
      BY <2>0, <3>1, StayOneCore
  <2>9. CASE UNCHANGED vars
    BY <2>0, <2>9, StayOneCore DEF vars, shell, files
  <2> QED
    BY <2>1, <2>2, <2>3, <2>4, <2>5, <2>6, <2>7, <2>8, <2>9 DEF Next
<1> QED
  BY <1>1, <1>2, TypedHolds, PTL DEF Spec, Apart

-----------------------------------------------------------------------------
(* A library that waits, its mappings, and the core that takes it over.      *)

\* The mappings that lie there are at least those of the library that waits,
\* and so are those a core has read; a backup is made before the import.
FitsAt(p, n) ==
  /\ p \in {"backup", "import"} => zip # 0 /\ n >= zip
  /\ p = "import" => saved
  /\ p \in {"files", "keep"} => zip # 0
  /\ p = "unlink" => zip = 0

Fits ==
  /\ zip # 0 => maps >= zip
  /\ pull = "mapped" => maps = pulls
  /\ \A c \in Apps : FitsAt(core[c].at, core[c].map)

LEMMA FilesKnown ==
  ASSUME Typed
  PROVE  /\ pulls \in Nat /\ zip \in Nat /\ maps \in Nat /\ Torn \in Nat
         /\ maps <= Torn /\ pulls < Torn /\ zip <= pulls
BY NumbersKnown DEF Typed, TypeOK, Torn

(* The core at the files goes on; the others are not there. *)
LEMMA GoesFit ==
  ASSUME Typed, OneCore, Fits, NEW c \in Apps, NEW p, Moves(c, p), core[c].at \notin Aside,
         pull' = pull, zip' # 0 => maps' >= zip', FitsAt(p, core[c].map)'
  PROVE  Fits'
<1>1. pull = "no" /\ \A d \in Apps : d # c => core'[d].at \in Aside
  BY Alone DEF Moves
<1>2. core'[c].at = p
  BY DEF Moves
<1>3. \A d \in Apps : d # c => FitsAt(core[d].at, core[d].map)'
  BY <1>1 DEF Aside, FitsAt
<1>4. FitsAt(core[c].at, core[c].map)'
  BY <1>2
<1> QED
  BY <1>1, <1>3, <1>4 DEF Fits

LEMMA NothingMoves ==
  ASSUME Fits, UNCHANGED <<pull, pulls, zip, maps, saved>>, Stay
  PROVE  Fits'
BY DEF Fits, FitsAt, Stay

LEMMA MigrateFit ==
  ASSUME Typed, Fits, NEW c \in Apps, Migrate(c)
  PROVE  Fits'
<1>1. UNCHANGED <<pull, pulls, zip, maps, saved>>
  BY DEF Migrate, files
<1>2. core'[c].at = "pending" /\ \A d \in Apps : d # c => core'[d] = core[d]
  BY MigrateMoves DEF Moves
<1> QED
  BY <1>1, <1>2 DEF Fits, FitsAt

LEMMA CoreFit ==
  ASSUME Typed, OneCore, Fits, NEW c \in Apps, Core(c)
  PROVE  Fits'
<1>1. CASE Migrate(c)
  BY <1>1, MigrateFit
<1>2. CASE NonePending(c) \/ Watch(c) \/ Notice(c) \/ ShutDown(c)
  <2>1. core[c].at \notin Aside /\ UNCHANGED <<pull, zip, maps, saved>>
    BY <1>2 DEF NonePending, Watch, Notice, ShutDown, At, Aside, files
  <2>2. PICK p \in {"wiring", "up", "gone", "stopping"} : Moves(c, p)
    BY <1>2, NonePendingMoves, WatchMoves, NoticeMoves, ShutDownMoves
  <2>3. FitsAt(p, core[c].map)' /\ (zip' # 0 => maps' >= zip')
    BY <2>1 DEF FitsAt, Fits
  <2> QED
    BY <2>1, <2>2, <2>3, GoesFit
<1>3. CASE ReadMappings(c)
  <2>1. core[c].at \notin Aside /\ UNCHANGED <<pull, zip, maps, saved>> /\ zip # 0
    BY <1>3 DEF ReadMappings, At, Aside, files
  <2>2. CASE Moves(c, "gone")
    <3>1. FitsAt("gone", core[c].map)' /\ (zip' # 0 => maps' >= zip')
      BY <2>1 DEF FitsAt, Fits
    <3> QED
      BY <2>1, <2>2, <3>1, GoesFit
  <2>3. CASE Moves(c, "backup") /\ core'[c].map = maps
    <3>1. FitsAt("backup", core[c].map)' /\ (zip' # 0 => maps' >= zip')
      BY <2>1, <2>3 DEF FitsAt, Fits
    <3> QED
      BY <2>1, <2>3, <3>1, GoesFit
  <2> QED
    BY <1>3, <2>2, <2>3, ReadMappingsMoves
<1>4. CASE Backup(c)
  <2>1. core[c].at = "backup" /\ UNCHANGED <<pull, zip, maps>>
    BY <1>4 DEF Backup, At, files
  <2>2. core[c].at \notin Aside /\ zip # 0 /\ core[c].map >= zip
    BY <2>1 DEF Aside, Fits, FitsAt
  <2>3. CASE Moves(c, "gone")
    <3>1. FitsAt("gone", core[c].map)' /\ (zip' # 0 => maps' >= zip')
      BY <2>1 DEF FitsAt, Fits
    <3> QED
      BY <2>1, <2>2, <2>3, <3>1, GoesFit
  <2>4. CASE saved' /\ Moves(c, "import") /\ core'[c].map = core[c].map
    <3>1. FitsAt("import", core[c].map)' /\ (zip' # 0 => maps' >= zip')
      BY <2>1, <2>2, <2>4 DEF FitsAt, Fits
    <3> QED
      BY <2>1, <2>2, <2>4, <3>1, GoesFit
  <2> QED
    BY <1>4, <2>3, <2>4, BackupMoves
<1>5. CASE Import(c) \/ Unpack(c)
  <2>1. core[c].at \in {"import", "files"} /\ UNCHANGED <<pull, zip, maps>>
    BY <1>5 DEF Import, Unpack, At, files
  <2>2. core[c].at \notin Aside /\ zip # 0
    BY <2>1 DEF Aside, Fits, FitsAt
  <2>3. PICK p \in {"files", "keep"} : Moves(c, p)
    BY <1>5, ImportMoves, UnpackMoves
  <2>4. FitsAt(p, core[c].map)' /\ (zip' # 0 => maps' >= zip')
    BY <2>1, <2>2 DEF FitsAt, Fits
  <2> QED
    BY <2>1, <2>2, <2>3, <2>4, GoesFit
<1>6. CASE Keep(c)
  <2>1. core[c].at \notin Aside /\ UNCHANGED pull /\ zip' = 0
    BY <1>6, KeepMoves DEF Keep, At, Aside
  <2>2. PICK p \in {"unlink", "gone"} : Moves(c, p)
    BY <1>6, KeepMoves
  <2>3. FitsAt(p, core[c].map)'
    BY <2>1 DEF FitsAt
  <2> QED
    BY <2>1, <2>2, <2>3, GoesFit
<1>7. CASE Unlink(c)
  <2>1. core[c].at = "unlink" /\ UNCHANGED <<pull, zip>>
    BY <1>7 DEF Unlink, At
  <2>2. core[c].at \notin Aside /\ zip' = 0
    BY <2>1 DEF Aside, Fits, FitsAt
  <2>3. PICK p \in {"wiring", "gone"} : Moves(c, p)
    BY <1>7, UnlinkMoves
  <2>4. FitsAt(p, core[c].map)'
    BY <2>2 DEF FitsAt
  <2> QED
    BY <2>1, <2>2, <2>3, <2>4, GoesFit
<1> QED
  BY <1>1, <1>2, <1>3, <1>4, <1>5, <1>6, <1>7 DEF Core

LEMMA WorkFit ==
  ASSUME Typed, OneCore, Fits, NEW c \in Apps, Work(c)
  PROVE  Fits'
<1>1. core' = core /\ core[c].at \in {"up", "stopping"} /\ UNCHANGED <<pull, pulls, zip, maps>>
  BY WorkMoves DEF files
<1>2. \A d \in Apps : core[d].at # "import"
  BY <1>1, Alone DEF Aside
<1> QED
  BY <1>1, <1>2 DEF Fits, FitsAt

LEMMA AppFit ==
  ASSUME Typed, OneCore, Fits,
         StartApp \/ Adopt \/ StopCore \/ Quit \/ Crash \/ PowerLoss
           \/ \E to \in {"local", "server"} : SwitchMode(to)
  PROVE  Fits'
<1>1. /\ UNCHANGED <<zip, saved>> /\ maps' \in {maps, Torn}
      /\ pull' = "no" \/ UNCHANGED <<pull, pulls, maps>>
  BY DEF StartApp, Adopt, StopCore, Quit, Crash, PowerLoss, SwitchMode, Left, Half, files
<1>2. (zip' # 0 => maps' >= zip') /\ (pull' = "mapped" => maps' = pulls')
  BY <1>1, FilesKnown DEF Fits
<1>3. \A d \in Apps : \/ core'[d].at \in Aside
                      \/ core'[d].at = core[d].at /\ core'[d].map = core[d].map
  <2>1. CASE StartApp
    <3>1. core[app'].at = "none" /\ app' \in Apps
      BY <2>1, StartAppType, NumbersKnown DEF OneCore, Typed, TypeOK
    <3> QED
      BY <2>1, <3>1, StartAppType DEF Aside
  <2>2. CASE Adopt \/ \E to \in {"local", "server"} : SwitchMode(to)
    BY <2>2 DEF Adopt, SwitchMode
  <2>3. CASE StopCore \/ Quit \/ Crash
    BY <2>3, StopCoreType, QuitType, CrashType DEF Stay
  <2>4. CASE PowerLoss
    BY <2>4, PowerLossType DEF Aside, Runs
  <2> QED
    BY <2>1, <2>2, <2>3, <2>4
<1>4. \A d \in Apps : FitsAt(core[d].at, core[d].map)'
  BY <1>1, <1>3 DEF Aside, Fits, FitsAt
<1> QED
  BY <1>2, <1>4 DEF Fits

LEMMA TransferFit ==
  ASSUME Typed, OneCore, Fits, Download \/ WriteMappings \/ Rename \/ PullFails
  PROVE  Fits'
<1>1. core' = core /\ saved' = saved
  BY DEF Download, WriteMappings, Rename, PullFails
<1>2. CASE Download
  <2>1. UNCHANGED <<zip, maps>> /\ pull' = "part"
    BY <1>2 DEF Download
  <2> QED
    BY <1>1, <2>1 DEF Fits, FitsAt
<1>3. CASE WriteMappings
  <2>1. zip' = zip /\ pulls' = pulls /\ maps' = pulls
    BY <1>3 DEF WriteMappings
  <2> QED
    BY <1>1, <2>1, FilesKnown DEF Fits, FitsAt
<1>4. CASE Rename
  <2>1. pull = "mapped" /\ pull' = "no" /\ zip' = pulls /\ maps' = pulls
    BY <1>4 DEF Rename, Complete, Fits
  <2>2. \A d \in Apps : core'[d].at \in Aside
    BY <1>1, <2>1 DEF OneCore, Runs, Aside
  <2> QED
    BY <2>1, <2>2, FilesKnown DEF Aside, Fits, FitsAt
<1>5. CASE PullFails
  <2>1. zip' = zip /\ pull' = "no" /\ (maps' = maps \/ maps' = Torn)
    BY <1>5, PullFailsType DEF PullFails
  <2>2. zip' # 0 => maps' >= zip'
    BY <2>1, FilesKnown DEF Fits
  <2> QED
    BY <1>1, <2>1, <2>2 DEF Fits, FitsAt
<1> QED
  BY <1>2, <1>3, <1>4, <1>5

LEMMA FitsHold == Spec => [](Apart /\ (~met => Fits))
<1>1. Init => Fits
  BY DEF Init, Fits, FitsAt, NoCore
<1>2. Apart /\ (~met => Fits) /\ [Next]_vars => (~met => Fits)'
  <2> SUFFICES ASSUME Typed, ~met => OneCore, ~met => Fits, [Next]_vars, ~met' PROVE Fits'
    BY DEF Apart
  <2>0. OneCore /\ Fits
    BY MetStays
  <2>1. ASSUME NEW c \in Apps, Core(c) \/ Work(c) PROVE Fits'
    BY <2>0, <2>1, CoreFit, WorkFit
  <2>2. CASE UNCHANGED vars
    BY <2>0, <2>2, NothingMoves DEF vars, files, Stay
  <2> QED
    BY <2>0, <2>1, <2>2, AppFit, TransferFit DEF Next
<1> QED
  BY <1>1, <1>2, ApartHolds, PTL DEF Spec

(* A library that is taken over comes with its mappings or later ones, also  *)
(* when transfers are cut short and writes leave half a file, on both        *)
(* platforms, as long as nothing began while an older core still ran.       *)
THEOREM TakenWithItsMappings == Spec => MappingsFit
<1>1. Apart /\ (~met => Fits) => \A c \in Apps : Commits(c) => met \/ core[c].map >= zip
  BY DEF Fits, FitsAt, Commits, At
<1> QED
  BY <1>1, FitsHold, PTL DEF MappingsFit

(* A library is replaced only after a backup of it as it is, under the same  *)
(* condition.                                                               *)
THEOREM ReplacedAfterBackup == Spec => OldLibraryKept
<1>1. Apart /\ (~met => Fits) => \A c \in Apps : Commits(c) => met \/ saved
  BY DEF Fits, FitsAt, Commits, At
<1> QED
  BY <1>1, FitsHold, PTL DEF OldLibraryKept

-----------------------------------------------------------------------------
(* What a library costs once its import is tried.                           *)

\* A start that fails has put a library aside; one that waits, or has just
\* been put aside, may still cost one.
Pays ==
  /\ failed <= fetched
  /\ zip # 0 => failed < fetched
  /\ \A c \in Apps : core[c].at = "unlink" => failed < fetched

LEMMA CountsKnown == ASSUME Typed PROVE failed \in Nat /\ fetched \in Nat
BY NumbersKnown DEF Typed, TypeOK

LEMMA CorePays ==
  ASSUME Typed, OneCore, Fits, Pays, NEW c \in Apps, Core(c) \/ Work(c)
  PROVE  Pays'
<1>1. CASE Keep(c)
  <2>1. core[c].at = "keep" /\ zip # 0 /\ UNCHANGED fetched
    BY <1>1 DEF Keep, At, Fits, FitsAt
  <2>2. zip' = 0 /\ failed' = failed /\ Moves(c, "unlink")
    BY <1>1, <2>1, KeepMoves
  <2> QED
    BY <2>1, <2>2 DEF Pays, Moves
<1>2. CASE Unlink(c)
  <2>1. core[c].at = "unlink" /\ zip = 0 /\ zip' = 0 /\ fetched' = fetched /\ failed < fetched
    BY <1>2 DEF Unlink, At, Fits, FitsAt, Pays
  <2>2. \A d \in Apps : d # c => core'[d].at # "unlink"
    BY <1>2, <2>1, Alone, UnlinkMoves DEF Aside, Moves
  <2>3. core'[c].at # "unlink" /\ failed' \in {failed, failed + 1}
    BY <1>2, UnlinkMoves DEF Moves
  <2> QED
    BY <2>1, <2>2, <2>3, CountsKnown DEF Pays
<1>3. CASE ~Keep(c) /\ ~Unlink(c)
  <2>1. UNCHANGED <<zip, fetched, failed>>
    BY <1>3 DEF Core, Migrate, NonePending, ReadMappings, Backup, Import, Unpack, Watch, Notice,
       ShutDown, Work, files
  <2>2. \A d \in Apps : core'[d].at = "unlink" => core[d].at = "unlink"
    <3>1. CASE Work(c)
      BY <3>1, WorkMoves
    <3>2. CASE ~Work(c)
      <4>1. PICK p \in Places \ {"unlink"} : Moves(c, p)
        BY <1>3, <3>2, MigrateMoves, NonePendingMoves, ReadMappingsMoves, BackupMoves, ImportMoves,
           UnpackMoves, WatchMoves, NoticeMoves, ShutDownMoves DEF Core, Places
      <4> QED
        BY <4>1 DEF Moves
    <3> QED
      BY <3>1, <3>2
  <2> QED
    BY <2>1, <2>2 DEF Pays
<1> QED
  BY <1>1, <1>2, <1>3

LEMMA TransferPays ==
  ASSUME Typed, Pays, Download \/ WriteMappings \/ Rename \/ PullFails
  PROVE  Pays'
<1>1. core' = core /\ failed' = failed
  BY DEF Download, WriteMappings, Rename, PullFails
<1>2. CASE Download \/ PullFails \/ WriteMappings
  <2>1. UNCHANGED <<zip, fetched>>
    BY <1>2 DEF Download, PullFails, WriteMappings
  <2> QED
    BY <1>1, <2>1 DEF Pays
<1>3. CASE Rename
  <2>1. fetched' = fetched + 1
    BY <1>3 DEF Rename
  <2> QED
    BY <1>1, <2>1, CountsKnown DEF Pays
<1> QED
  BY <1>2, <1>3

(* "Applied or not, don't retry on every start": once their imports have been *)
(* tried, as many starts of a core fail as there were libraries fetched, or  *)
(* fewer, whatever is torn or has no room on the disk, as long as nothing    *)
(* began while an older core still ran.                                     *)
THEOREM NoSecondFailure == Spec => []OneStartPerPull
<1>1. Init => Pays
  BY NumbersKnown DEF Init, Pays, NoCore
<1>2. Apart /\ (~met => Fits) /\ (~met => Pays) /\ [Next]_vars => (~met => Pays)'
  <2> SUFFICES ASSUME Typed, ~met => OneCore, ~met => Fits, ~met => Pays, [Next]_vars, ~met'
               PROVE  Pays'
    BY DEF Apart
  <2>0. OneCore /\ Fits /\ Pays
    BY MetStays
  <2>1. ASSUME NEW c \in Apps, Core(c) \/ Work(c) PROVE Pays'
    BY <2>0, <2>1, CorePays
  <2>2. CASE Download \/ WriteMappings \/ Rename \/ PullFails
    BY <2>0, <2>2, TransferPays
  <2>3. CASE StartApp \/ Adopt \/ StopCore \/ Quit \/ Crash \/ PowerLoss
             \/ \E to \in {"local", "server"} : SwitchMode(to)
    <3>1. UNCHANGED <<zip, fetched, failed>>
      BY <2>3 DEF StartApp, Adopt, StopCore, Quit, Crash, PowerLoss, SwitchMode, Left, files
    <3>2. \A d \in Apps : core'[d].at = "unlink" => core[d].at = "unlink"
      <4>1. CASE StartApp
        <5>1. core[app'].at = "none" /\ app' \in Apps
          BY <2>0, <4>1, StartAppType, NumbersKnown DEF OneCore, Typed, TypeOK
        <5> QED
          BY <4>1, <5>1, StartAppType DEF Aside
      <4>2. CASE Adopt \/ \E to \in {"local", "server"} : SwitchMode(to)
        BY <4>2 DEF Adopt, SwitchMode
      <4>3. CASE StopCore \/ Quit \/ Crash
        BY <4>3, StopCoreType, QuitType, CrashType DEF Stay
      <4>4. CASE PowerLoss
        BY <4>4, PowerLossType
      <4> QED
        BY <2>3, <4>1, <4>2, <4>3, <4>4
    <3> QED
      BY <2>0, <3>1, <3>2 DEF Pays
  <2>4. CASE UNCHANGED vars
    BY <2>0, <2>4 DEF vars, files, Pays
  <2> QED
    BY <2>1, <2>2, <2>3, <2>4 DEF Next
<1>3. (~met => Pays) => OneStartPerPull
  BY DEF Pays, OneStartPerPull
<1> QED
  BY <1>1, <1>2, <1>3, FitsHold, PTL DEF Spec
=============================================================================
