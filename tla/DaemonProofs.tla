---------------------------- MODULE DaemonProofs ----------------------------
(***************************************************************************)
(* Proofs about the daemon process: DaemonStorage, for any set of          *)
(* migration files and any versions, DaemonLifecycle, for any number of    *)
(* processes, bind retries and edits of the configuration, and PluginHost, *)
(* for any files, names, routes and number of loads.                       *)
(***************************************************************************)
EXTENDS DaemonStorage, DaemonLifecycle, PluginHost, TLAPS

-----------------------------------------------------------------------------
(* The database file and its migrations                                    *)

StorageSpec == StorageInit /\ [][StorageNext]_storageVars

\* A file whose SQL took effect has its version recorded, in the same
\* transaction, so no file of that version is pending again.
StorageInv ==
    /\ executed \in [SqlFiles -> Nat]
    /\ \A f \in SqlFiles : executed[f] > 0 => VersionOf[f] \in recorded
    /\ MigrationsOnce
    /\ oldDb = "backup" /\ ~disturbed => newDb = "copy"
    /\ booting \in {"copying", "verifying"} => oldDb = "full"

\* What MigrationsInOrder says of one step.
OrderedStep ==
    \A f \in SqlFiles : executed'[f] > executed[f] =>
        \A g \in installed : VersionOf[g] < VersionOf[f] => VersionOf[g] \in recorded

\* No migration has run at the start.
LEMMA StorageInitInv == StorageInit => StorageInv
BY DEF StorageInit, StorageInv, MigrationsOnce

\* A migration runs its SQL and records its version in one transaction, and
\* only when no installed file of a lower version is left.
LEMMA MigrationStep ==
    ASSUME StorageInv, NEW f \in SqlFiles, RunMigration(f), installed \subseteq SqlFiles
    PROVE  StorageInv' /\ OrderedStep
<1>1. /\ f \in installed /\ VersionOf[f] \notin recorded
      /\ \A g \in installed : VersionOf[g] \notin recorded => VersionOf[f] <= VersionOf[g]
      /\ executed' = [executed EXCEPT ![f] = IF @ < 2 THEN @ + 1 ELSE @]
      /\ recorded' = recorded \cup {VersionOf[f]}
      /\ UNCHANGED <<booting, oldDb, newDb, disturbed>>
  BY DEF RunMigration, NextFiles, PendingFiles, Committed, dbFiles
<1>2. \A g \in SqlFiles : VersionOf[g] = VersionOf[f] => executed[g] = 0
  BY <1>1 DEF StorageInv
<1>3. /\ executed' \in [SqlFiles -> Nat] /\ executed'[f] = 1
      /\ \A g \in SqlFiles \ {f} : executed'[g] = executed[g]
  BY <1>1, <1>2 DEF StorageInv
<1>4. \A g \in SqlFiles : executed'[g] > 0 => VersionOf[g] \in recorded'
  BY <1>1, <1>3 DEF StorageInv
<1>5. MigrationsOnce'
  <2>1. \A g \in SqlFiles : executed'[g] <= 1
    BY <1>3 DEF StorageInv, MigrationsOnce
  <2>2. ASSUME NEW g \in SqlFiles, NEW h \in SqlFiles, VersionOf[g] = VersionOf[h], g # h
        PROVE  executed'[g] + executed'[h] <= 1
    <3>1. CASE g = f
      BY <1>2, <1>3, <2>2, <3>1
    <3>2. CASE h = f
      BY <1>2, <1>3, <2>2, <3>2
    <3>3. CASE g # f /\ h # f
      BY <1>3, <2>2, <3>3 DEF StorageInv, MigrationsOnce
    <3> QED
      BY <3>1, <3>2, <3>3
  <2> QED
    BY <2>1, <2>2 DEF MigrationsOnce
<1>6. OrderedStep
  <2> SUFFICES ASSUME NEW h \in SqlFiles, executed'[h] > executed[h],
                      NEW g \in installed, VersionOf[g] < VersionOf[h]
               PROVE  VersionOf[g] \in recorded
    BY DEF OrderedStep
  <2>1. h = f
    BY <1>3 DEF StorageInv
  <2>2. VersionOf[g] \in Nat /\ VersionOf[f] \in Nat
    BY StorageAssumption
  <2> QED
    BY <1>1, <2>1, <2>2
<1> QED
  BY <1>1, <1>3, <1>4, <1>5, <1>6 DEF StorageInv

\* Every step of move, open, migration and upgrade keeps the invariant, and
\* a migration comes in its order.
LEMMA StorageStep ==
    ASSUME StorageInv, installed \subseteq SqlFiles, [StorageNext]_storageVars
    PROVE  StorageInv' /\ installed' \subseteq SqlFiles /\ OrderedStep
<1>1. ASSUME NEW f \in SqlFiles, RunMigration(f)
      PROVE  StorageInv' /\ installed' \subseteq SqlFiles /\ OrderedStep
  <2>1. installed' = installed
    BY <1>1 DEF RunMigration
  <2> QED
    BY <1>1, <2>1, MigrationStep
<1>2. ASSUME executed' = executed, recorded' = recorded
      PROVE  OrderedStep /\ executed' \in [SqlFiles -> Nat] /\ MigrationsOnce'
             /\ \A f \in SqlFiles : executed'[f] > 0 => VersionOf[f] \in recorded'
  BY <1>2 DEF StorageInv, OrderedStep, MigrationsOnce
<1>3. CASE StorageBoot \/ MigrationsDone \/ StorageEnds
  BY <1>2, <1>3 DEF StorageBoot, MigrationsDone, StorageEnds, StorageInv, dbFiles, schemaVars
<1>4. CASE VerifyAndRename \/ MoveFails \/ OpenDatabase
  BY <1>2, <1>4
     DEF VerifyAndRename, MoveFails, OpenDatabase, StorageInv, Verified, dbFiles, schemaVars
<1>5. CASE \E sound \in BOOLEAN : CopyEnds(sound)
  BY <1>2, <1>5 DEF CopyEnds, StorageInv, dbFiles, schemaVars
<1>6. CASE \E f \in SqlFiles : Upgrade(f)
  BY <1>2, <1>6 DEF Upgrade, StorageInv, dbFiles, schemaVars
<1>7. CASE UNCHANGED storageVars
  BY <1>2, <1>7 DEF storageVars, StorageInv
<1> QED
  BY <1>1, <1>3, <1>4, <1>5, <1>6, <1>7 DEF StorageNext

\* However often the process ends between two steps and whatever an upgrade
\* brings, each migration takes effect at most once, of two files of one
\* version only one does, they run in the order of their versions, and a move
\* that nothing disturbed ends with the verified copy in use (core/db.ts,
\* core/migrations.ts).
THEOREM SchemaStaysSound == StorageSpec => SchemaIsSound
<1> DEFINE Inv == StorageInv /\ installed \subseteq SqlFiles
<1>1. StorageInit => Inv
  BY StorageInitInv DEF StorageInit
<1>2. Inv /\ [StorageNext]_storageVars => Inv' /\ [OrderedStep]_storageVars
  BY StorageStep
<1>3. Inv => FilesAreSound
  BY DEF StorageInv, FilesAreSound, MovedCopyIsVerified
<1>4. Inv' => FilesAreSound'
  BY DEF StorageInv, FilesAreSound, MovedCopyIsVerified
<1>5. [OrderedStep]_storageVars <=>
        [\A f \in SqlFiles : executed'[f] > executed[f] =>
            \A g \in installed : VersionOf[g] < VersionOf[f] => VersionOf[g] \in recorded]_storageVars
  BY DEF OrderedStep
<1> HIDE DEF Inv
<1> QED
  BY <1>1, <1>2, <1>3, <1>4, <1>5, PTL DEF StorageSpec, SchemaIsSound, MigrationsInOrder

-----------------------------------------------------------------------------
(* The daemon process                                                      *)

DaemonSpec == DaemonInit /\ [][DaemonNext]_daemonVars

DaemonTypeOK ==
    /\ run \in {"off", "binding", "listening"} /\ sdStage \in {"no", "plugins", "ext", "closed"}
    /\ initStage \in {"no", "embed", "later", "plugins", "done"}
    /\ degraded \in BOOLEAN /\ dbOpen \in BOOLEAN /\ polls \in BOOLEAN /\ watchOn \in BOOLEAN
    /\ schedOn \in BOOLEAN /\ straggler \in BOOLEAN /\ earlyEdit \in BOOLEAN

\* The database is closed exactly by the end of the shutdown, once, and after
\* its readers: only an init that ends later, a degraded extension or a hook
\* that threw leaves a scheduler behind.
TeardownInOrder ==
    /\ dbOpen <=> run # "off" /\ sdStage # "closed"
    /\ closes = IF sdStage = "closed" THEN 1 ELSE 0
    /\ ~dbOpen => ~polls /\ ~watchOn
    /\ run # "off" /\ sdStage = "closed" => (schedOn => degraded \/ straggler)
    /\ degraded => initStage \in {"plugins", "done"}

\* The extension starts with the configuration read at boot.
ConfigIsShared ==
    /\ cfgLive # "invalid" /\ cfgBoot # "invalid"
    /\ run = "binding" => initStage = "no" /\ (~earlyEdit => cfgLive = cfgBoot)
    /\ run = "listening" => initStage # "no" /\ (~earlyEdit => cfgExt = cfgLive)

DaemonInv == DaemonTypeOK /\ TeardownInOrder /\ ConfigIsShared

\* No process runs at the start.
LEMMA DaemonInitInv == DaemonInit => DaemonInv
BY DEF DaemonInit, DaemonInv, DaemonTypeOK, TeardownInOrder, ConfigIsShared

\* A process starts and binds its port, or retries.
LEMMA BootStep ==
    ASSUME DaemonInv, Boot0 \/ BindFails \/ PortFreed
    PROVE  DaemonInv'
<1> USE DEF DaemonInv, DaemonTypeOK, TeardownInOrder, ConfigIsShared
<1>1. CASE Boot0
  BY <1>1 DEF Boot0
<1>2. CASE BindFails
  <2>1. CASE UNCHANGED <<run, dbOpen, watchOn, polls, schedOn, pluginsOn, debounce, restartArmed>>
    BY <1>2, <2>1 DEF BindFails, initVars
  <2>2. CASE Exit
    BY <1>2, <2>2 DEF BindFails, Exit, initVars
  <2> QED
    BY <1>2, <2>1, <2>2 DEF BindFails
<1>3. CASE PortFreed
  BY <1>3 DEF PortFreed, initVars, timersOn, cfgVars
<1> QED
  BY <1>1, <1>2, <1>3

\* Init goes on, one stage after the other.
LEMMA InitStep ==
    ASSUME DaemonInv, Listening \/ EmbedSettles \/ PluginsScanned \/ PollStarts
    PROVE  DaemonInv'
<1> USE DEF DaemonInv, DaemonTypeOK, TeardownInOrder, ConfigIsShared
<1>1. CASE Listening
  BY <1>1 DEF Listening, timersOn
<1>2. CASE EmbedSettles
  BY <1>2 DEF EmbedSettles, timersOn, cfgVars
<1>3. CASE PluginsScanned
  BY <1>3 DEF PluginsScanned, cfgVars
<1>4. CASE PollStarts
  BY <1>4 DEF PollStarts, initVars, cfgVars
<1> QED
  BY <1>1, <1>2, <1>3, <1>4

\* Init ends, with the scheduler started or not.
LEMMA InitEndsStep ==
    ASSUME DaemonInv, NEW ok \in BOOLEAN, InitEnds(ok)
    PROVE  DaemonInv'
BY DEF DaemonInv, DaemonTypeOK, TeardownInOrder, ConfigIsShared, InitEnds, cfgVars, portVars

\* What shutdown does after the plugins are stopped: it goes on to the
\* extension's hook, or ends the teardown of a degraded daemon.
LEMMA StopExtensionStep ==
    ASSUME DaemonInv, run # "off", sdStage # "closed", StopExtension,
           UNCHANGED <<run, schedOn, straggler, cfgBoot, cfgLive, cfgExt, earlyEdit>>, UNCHANGED initVars
    PROVE  DaemonInv'
<1> USE DEF DaemonInv, DaemonTypeOK, TeardownInOrder, ConfigIsShared, initVars
<1>1. CASE ~degraded /\ sdStage' = "ext" /\ UNCHANGED <<watchOn, debounce, polls, dbOpen, closes>>
  BY <1>1
<1>2. CASE degraded /\ CloseAll
  <2>1. closes = 0 /\ closes' = 1 /\ dbOpen' = FALSE /\ sdStage' = "closed" /\ polls' = FALSE /\ watchOn' = FALSE
    BY <1>2 DEF CloseAll, StopReaders
  <2>2. DaemonTypeOK'
    BY <2>1
  <2>3. TeardownInOrder'
    BY <1>2, <2>1
  <2>4. ConfigIsShared'
    BY <2>1
  <2> QED
    BY <2>2, <2>3, <2>4
<1> QED
  BY <1>1, <1>2 DEF StopExtension

\* A shutdown begins at most once per process, with the plugins if they
\* were started.
LEMMA BeginShutdownStep ==
    ASSUME DaemonInv, run # "off", BeginShutdown
    PROVE  DaemonInv'
<1>1. CASE /\ sdStage' = "plugins"
           /\ UNCHANGED <<watchOn, debounce, polls, dbOpen, closes>>
  BY <1>1 DEF DaemonInv, DaemonTypeOK, TeardownInOrder, ConfigIsShared, BeginShutdown,
     MayShutDown,
     initVars
<1>2. CASE StopExtension
  BY <1>2, StopExtensionStep DEF BeginShutdown, MayShutDown
<1> QED
  BY <1>1, <1>2 DEF BeginShutdown

\* Plugins and extension stop one after the other; the database is closed
\* last.
LEMMA StopStep ==
    ASSUME DaemonInv, PluginsStopped \/ (\E ok \in BOOLEAN : ExtensionStopped(ok))
    PROVE  DaemonInv'
<1>1. CASE PluginsStopped
  BY <1>1, StopExtensionStep DEF PluginsStopped
<1>2. ASSUME NEW ok \in BOOLEAN, ExtensionStopped(ok)
      PROVE  DaemonInv'
  <2> USE <1>2 DEF ExtensionStopped, CloseAll, StopReaders, initVars
  <2>1. DaemonTypeOK'
    BY DEF DaemonInv, DaemonTypeOK
  <2>2. TeardownInOrder'
    BY DEF DaemonInv, DaemonTypeOK, TeardownInOrder
  <2>3. ConfigIsShared'
    BY DEF DaemonInv, ConfigIsShared
  <2> QED
    BY <2>1, <2>2, <2>3 DEF DaemonInv
<1> QED
  BY <1>1, <1>2

\* The process ends, and what it had started is gone with it.
LEMMA ExitStep ==
    ASSUME DaemonInv, ProcessExits \/ Killed
    PROVE  DaemonInv'
<1>1. /\ Exit
      /\ UNCHANGED <<sdStage, closes, straggler, cfgBoot, cfgLive, earlyEdit, initStage, degraded>>
  BY DEF ProcessExits, Killed, initVars
<1>2. DaemonTypeOK'
  BY <1>1 DEF DaemonInv, DaemonTypeOK, Exit
<1>3. TeardownInOrder'
  BY <1>1 DEF DaemonInv, TeardownInOrder, Exit
<1>4. ConfigIsShared'
  BY <1>1 DEF DaemonInv, ConfigIsShared, Exit
<1> QED
  BY <1>2, <1>3, <1>4 DEF DaemonInv

\* A restart over the API is a shutdown after a delay.
LEMMA RestartStep == DaemonInv /\ (RestartRequest \/ RestartFires) => DaemonInv'
<1>1. DaemonInv /\ RestartRequest => DaemonInv'
  BY DEF DaemonInv, DaemonTypeOK, TeardownInOrder, ConfigIsShared, RestartRequest,
         initVars, timersOn, cfgVars, portVars
<1>2. ASSUME DaemonInv, RestartFires
      PROVE  DaemonInv'
  <2>1. CASE BeginShutdown
    BY <1>2, <2>1, BeginShutdownStep DEF RestartFires
  <2>2. CASE ~BeginShutdown
    BY <1>2, <2>2 DEF DaemonInv, DaemonTypeOK, TeardownInOrder, ConfigIsShared, RestartFires,
       RestartActs, initVars, timersOn, cfgVars, portVars
  <2> QED
    BY <2>1, <2>2
<1> QED
  BY <1>1, <1>2

\* A reload validates the file before it replaces the live configuration.
LEMMA LoadStep ==
    ASSUME DaemonInv, LoadAndApply
    PROVE  DaemonInv'
<1> USE DEF LoadAndApply, initVars, timersOn
<1>1. DaemonTypeOK' /\ TeardownInOrder'
  <2>1. DaemonTypeOK'
    BY DEF DaemonInv, DaemonTypeOK
  <2>2. TeardownInOrder'
    BY DEF DaemonInv, TeardownInOrder
  <2> QED
    BY <2>1, <2>2
<1>2. ConfigIsShared'
  BY DEF DaemonInv, DaemonTypeOK, ConfigIsShared, Applied
<1> QED
  BY <1>1, <1>2 DEF DaemonInv

\* The watcher and the reload request lead to a load; an edit changes the
\* file only.
LEMMA ConfigStep ==
    ASSUME DaemonInv, DebounceFires \/ ReloadRequest \/ (\E c \in Configs : EditFile(c))
    PROVE  DaemonInv'
<1>1. ASSUME NEW c \in Configs, EditFile(c)
      PROVE  DaemonInv'
  BY <1>1 DEF DaemonInv, DaemonTypeOK, TeardownInOrder, ConfigIsShared, EditFile, initVars,
     timersOn
<1> QED
  BY <1>1, LoadStep DEF DebounceFires, ReloadRequest

\* The teardown runs once per process and the readers of the database stop
\* before it closes, however signals, exceptions, the restart timer and an
\* init that is still under way race; an invalid file is never live, and the
\* extension runs with the live configuration (main.ts, core/config.ts).
THEOREM DaemonStaysSafe == DaemonSpec => []DaemonIsSafe
<1>1. DaemonInv /\ [DaemonNext]_daemonVars => DaemonInv'
  <2>1. DaemonInv /\ DaemonNext => DaemonInv'
    BY BootStep, InitStep, InitEndsStep, BeginShutdownStep, StopStep, ExitStep, RestartStep,
       ConfigStep DEF DaemonNext, Signal
  <2>2. DaemonInv /\ UNCHANGED daemonVars => DaemonInv'
    BY DEF DaemonInv, DaemonTypeOK, TeardownInOrder, ConfigIsShared, daemonVars
  <2> QED
    BY <2>1, <2>2
<1>2. DaemonInv => DaemonIsSafe
  BY DEF DaemonInv, TeardownInOrder, ConfigIsShared, DaemonIsSafe, ReadersStopFirst,
     TeardownOnce,
         LiveIsValid
<1> QED
  BY <1>1, <1>2, DaemonInitInv, PTL DEF DaemonSpec

-----------------------------------------------------------------------------
(* The plugin manager                                                      *)

PluginSpec == PluginInit /\ [][PluginNext]_pluginVars

Routes == UNION {DeclaredIn[f] \cup AddedIn[f] : f \in Files}

OpStages == {"new", "down", "import", "init", "done"}
OpType ==
    [kind : {"none", "load", "unload"}, file : Files \cup {"none"}, stage : OpStages,
     target : 0 .. MaxOps, prior : Names \cup {"none"}, before : SUBSET Routes, added : SUBSET Routes]
ObjectType ==
    [name : Names \cup {"none"}, file : Files \cup {"none"}, status : {"none", "error", "loaded"},
     routes : SUBSET Routes]

PluginTypeOK ==
    /\ op \in [Ops -> OpType] /\ object \in [Ops -> ObjectType]
    /\ plugins \in [Names -> 0 .. MaxOps] /\ byFile \in [Files -> Names \cup {"none"}]
    /\ registry \subseteq Routes /\ alive \subseteq Ops /\ spilled \in BOOLEAN

\* An entry of the map is the record of an operation that ended, under its
\* plugin's name or its file's; a file is known by one of the two.
EntriesSound ==
    /\ \A n \in Names : plugins[n] # 0 =>
          /\ op[plugins[n]].stage = "done" /\ object[plugins[n]].name = n
          /\ object[plugins[n]].file \in Files
          /\ n \in {object[plugins[n]].file, NameIn[object[plugins[n]].file]}
    /\ \A f \in Files : byFile[f] \in {"none", f, NameIn[f]}

\* A running instance is found by its file and by its name, and only running
\* instances have routes on their record.
AliveListed ==
    /\ \A o \in alive :
          /\ object[o].file \in Files /\ object[o].status = "loaded"
          /\ object[o].name = NameIn[object[o].file]
          /\ plugins[NameIn[object[o].file]] = o
          /\ byFile[object[o].file] = NameIn[object[o].file]
    /\ \A o \in Ops \ alive : object[o].routes = {}

\* The operation under way: what it tears down is what the maps hold for its
\* file, and past that no instance of the file, or under a name it may take,
\* runs.
OpSound(i) ==
    /\ op[i].file \in Files /\ op[i].prior = byFile[op[i].file]
    /\ op[i].kind \in {"load", "unload"}
    /\ op[i].stage \in {"down", "import"} => op[i].added = {}
    /\ op[i].stage = "down" =>
          op[i].prior # "none" /\ op[i].target # 0 /\ op[i].target = plugins[op[i].prior]
    /\ op[i].stage \in {"import", "init"} =>
          /\ \A o \in alive : object[o].file # op[i].file
          /\ op[i].prior # "none" => plugins[op[i].prior] \notin alive
    /\ op[i].stage = "init" => plugins[NameIn[op[i].file]] \notin alive

OneAtATime ==
    /\ \A i, j \in Active : i = j
    /\ \A i \in Active : OpSound(i)

\* Each served route belongs to one running instance or to the load that is
\* in its init.
RoutesSound ==
    /\ \A o \in alive : object[o].routes \subseteq registry
    /\ \A o, p \in alive : o # p => object[o].routes \cap object[p].routes = {}
    /\ \A i \in Ops : op[i].stage = "init" =>
          /\ registry = op[i].before \cup op[i].added /\ op[i].before \cap op[i].added = {}
          /\ DeclaredIn[op[i].file] \subseteq op[i].before /\ op[i].added \subseteq AddedIn[op[i].file]
          /\ \A o \in alive : object[o].routes \cap (DeclaredIn[op[i].file] \cup op[i].added) = {}
    /\ \A r \in registry :
          \/ \E o \in alive : r \in object[o].routes
          \/ \E i \in Ops : op[i].stage = "init" /\ r \in DeclaredIn[op[i].file] \cup op[i].added

SequentialInv == PluginTypeOK /\ EntriesSound /\ AliveListed /\ OneAtATime /\ (~spilled => RoutesSound)
PluginInv == overlapped \in BOOLEAN /\ (~overlapped => SequentialInv)

\* No plugin takes the base name of another file.
NamesApart == \A f, g \in Files : f # g => NameIn[f] # g

\* Names, operations and routes are what the records hold.
LEMMA NamesTyped ==
    /\ Files \subseteq Names /\ \A f \in Files : NameIn[f] \in Names
    /\ "none" \notin Names /\ 0 \notin Ops /\ Ops \subseteq 0 .. MaxOps
    /\ \A f \in Files : DeclaredIn[f] \subseteq Routes /\ AddedIn[f] \subseteq Routes
BY PluginAssumption DEF Names, Ops, Routes

\* No plugin is loaded at the start.
LEMMA PluginInitInv == PluginInit => PluginInv
<1> SUFFICES ASSUME PluginInit
             PROVE  PluginInv
  OBVIOUS
<1> USE DEF PluginInit
<1>1. PluginTypeOK
  <2>1. NoOp \in OpType
    BY PluginAssumption DEF NoOp, OpType, OpStages
  <2>2. NoObject \in ObjectType
    BY DEF NoObject, ObjectType
  <2> QED
    <3>1. 0 \in 0 .. MaxOps /\ FALSE \in BOOLEAN
      BY PluginAssumption
    <3> HIDE DEF NoOp, NoObject
    <3> QED
      BY <2>1, <2>2, <3>1 DEF PluginTypeOK
<1>2. EntriesSound /\ AliveListed
  BY DEF EntriesSound, AliveListed, NoObject
<1>3. OneAtATime /\ RoutesSound
  BY DEF OneAtATime, RoutesSound, Active, NoOp
<1> QED
  BY <1>1, <1>2, <1>3 DEF PluginInv, SequentialInv

\* A load or unload begins while no other operation is under way.
LEMMA BeginStep ==
    ASSUME SequentialInv, NEW i \in Ops, NEW f \in Files, NEW kind \in {"load", "unload"}, Begin(i, kind, f),
           Active = {}
    PROVE  SequentialInv'
<1> USE DEF SequentialInv
<1> DEFINE target == IF byFile[f] = "none" THEN 0 ELSE plugins[byFile[f]]
           new == [kind |-> kind, file |-> f, target |-> target, prior |-> byFile[f],
                   before |-> {}, added |-> {}, stage |-> IF target # 0 THEN "down" ELSE "import"]
<1>1. /\ op' = [op EXCEPT ![i] = new] /\ op[i].stage = "new"
      /\ UNCHANGED <<object, plugins, byFile, registry, alive, spilled>>
  BY DEF Begin
<1>2. byFile[f] \in Names \cup {"none"} /\ target \in 0 .. MaxOps
  BY NamesTyped, PluginAssumption DEF PluginTypeOK, OpType, ObjectType
<1>3. op'[i] = new /\ \A j \in Ops : j # i => op'[j] = op[j]
  BY <1>1 DEF PluginTypeOK, OpType, ObjectType
<1> HIDE DEF target
<1>4. PluginTypeOK'
  <2>1. new \in OpType
    BY <1>2 DEF OpType, OpStages
  <2> HIDE DEF new
  <2> QED
    BY <1>1, <2>1 DEF PluginTypeOK
<1>5. EntriesSound'
  BY <1>1, <1>3, NamesTyped DEF EntriesSound, PluginTypeOK, OpType, ObjectType
<1>6. AliveListed'
  BY <1>1 DEF AliveListed
<1>7. Active' = {i} /\ \A j \in Ops : op'[j].stage # "init"
  BY <1>3 DEF Active
<1>8. OpSound(i)'
  <2>1. CASE target # 0
    BY <1>1, <1>3, <2>1 DEF OpSound, target
  <2>2. CASE target = 0
    <3>1. byFile[f] # "none" => plugins[byFile[f]] = 0
      BY <2>2 DEF target
    <3>2. \A o \in alive : object[o].file # f
      BY <3>1, NamesTyped DEF AliveListed, PluginTypeOK, OpType, ObjectType
    <3>3. 0 \notin alive
      BY NamesTyped DEF PluginTypeOK, OpType, ObjectType
    <3> QED
      BY <1>1, <1>3, <2>2, <3>1, <3>2, <3>3 DEF OpSound
  <2> QED
    BY <2>1, <2>2
<1>9. OneAtATime'
  BY <1>7, <1>8 DEF OneAtATime
<1>10. RoutesSound => RoutesSound'
  BY <1>1, <1>7, <1>3 DEF RoutesSound, Active
<1> QED
  BY <1>1, <1>4, <1>5, <1>6, <1>9, <1>10

\* Moving an operation to its next stage keeps the type of all of them.
LEMMA StageTyped ==
    ASSUME op \in [Ops -> OpType], NEW i \in Ops, NEW s \in OpStages
    PROVE  /\ [op EXCEPT ![i].stage = s] \in [Ops -> OpType]
           /\ [op EXCEPT ![i].stage = s] = [op EXCEPT ![i] = [op[i] EXCEPT !.stage = s]]
<1>1. [op[i] EXCEPT !.stage = s] \in OpType
  BY DEF OpType
<1>2. [op EXCEPT ![i].stage = s] = [op EXCEPT ![i] = [op[i] EXCEPT !.stage = s]]
  OBVIOUS
<1> QED
  BY <1>1, <1>2

\* No step but Begin starts an operation, and no other operation changes.
LEMMA StaysActive ==
    ASSUME SequentialInv, NEW i \in Active, \A j \in Ops : j # i => op'[j] = op[j]
    PROVE  /\ Active' \subseteq {i} /\ i \in Ops
           /\ \A j \in Ops : j # i => op[j].stage \in {"new", "done"} /\ op'[j].stage \in {"new", "done"}
BY DEF SequentialInv, OneAtATime, Active

\* The running instance of the file is removed with all its routes, and
\* only it.
LEMMA TeardownStep ==
    ASSUME SequentialInv, NamesApart, NEW i \in Ops, Teardown(i)
    PROVE  SequentialInv'
<1> USE DEF SequentialInv
<1> DEFINE t == op[i].target
           f == op[i].file
<1>1. i \in Active /\ OpSound(i) /\ op[i].stage = "down"
  BY DEF Teardown, DownMayEnd, OneAtATime, Active
<1>2. /\ f \in Files /\ op[i].prior = byFile[f] /\ byFile[f] \in Names
      /\ t \in Ops /\ t = plugins[byFile[f]] /\ t # i
  <2>1. f \in Files /\ op[i].prior = byFile[f] /\ byFile[f] \in Names
    BY <1>1 DEF OpSound, PluginTypeOK, OpType, ObjectType
  <2>2. t # 0 /\ t = plugins[byFile[f]] /\ t \in 0 .. MaxOps
    BY <1>1, <2>1 DEF OpSound, PluginTypeOK, OpType, ObjectType
  <2>3. t \in Ops
    BY <2>2, PluginAssumption DEF Ops
  <2>4. op[t].stage = "done"
    BY <2>1, <2>2 DEF EntriesSound
  <2> QED
    BY <1>1, <2>1, <2>2, <2>3, <2>4
<1>3. /\ registry' = registry \ object[t].routes /\ alive' = alive \ {t}
      /\ object' = [object EXCEPT ![t].routes = {}] /\ UNCHANGED <<overlapped, spilled>>
  BY DEF Teardown, TornDown, ShutDown
<1>4. /\ object[t].name = byFile[f] /\ object[t].file \in Files
      /\ byFile[f] \in {object[t].file, NameIn[object[t].file]}
  BY <1>2, NamesTyped DEF EntriesSound
<1>5. /\ \A o \in Ops : /\ object'[o].name = object[o].name /\ object'[o].file = object[o].file
                        /\ object'[o].status = object[o].status
      /\ object'[t].routes = {}
      /\ \A o \in Ops : o # t => object'[o].routes = object[o].routes
      /\ object' \in [Ops -> ObjectType]
  BY <1>2, <1>3 DEF PluginTypeOK, OpType, ObjectType
<1>6. PICK s \in {"import", "done"} :
        /\ op' = [op EXCEPT ![i].stage = s]
        /\ \/ s = "import" /\ UNCHANGED <<plugins, byFile>>
           \/ /\ s = "done" /\ plugins' = [plugins EXCEPT ![byFile[f]] = 0]
              /\ byFile' = [byFile EXCEPT ![object[t].file] = "none"]
  BY <1>4 DEF Teardown, Stage
<1>7. /\ \A j \in Ops : j # i => op'[j] = op[j]
      /\ op'[i] = [op[i] EXCEPT !.stage = s]
  BY <1>6 DEF PluginTypeOK, OpType, ObjectType
<1>8. Active' \subseteq {i} /\ \A j \in Ops : op'[j].stage # "init"
  BY <1>1, <1>6, <1>7, StaysActive DEF PluginTypeOK, OpType, ObjectType
<1>9. \A n \in Names : plugins'[n] = plugins[n] \/ plugins'[n] = 0
  BY <1>6 DEF PluginTypeOK, OpType, ObjectType
<1>10. PluginTypeOK'
  <2>1. op' \in [Ops -> OpType]
    BY <1>6, StageTyped DEF PluginTypeOK, OpStages
  <2>2. plugins' \in [Names -> 0 .. MaxOps] /\ byFile' \in [Files -> Names \cup {"none"}]
    <3>1. 0 \in 0 .. MaxOps
      BY PluginAssumption
    <3>2. CASE UNCHANGED <<plugins, byFile>>
      BY <3>2 DEF PluginTypeOK, OpType, ObjectType
    <3>3. CASE /\ plugins' = [plugins EXCEPT ![byFile[f]] = 0]
               /\ byFile' = [byFile EXCEPT ![object[t].file] = "none"]
      BY <3>1, <3>3 DEF PluginTypeOK, OpType, ObjectType
    <3> QED
      BY <1>6, <3>2, <3>3
  <2>3. registry' \subseteq Routes /\ alive' \subseteq Ops /\ spilled' \in BOOLEAN
    BY <1>3 DEF PluginTypeOK, OpType, ObjectType
  <2> QED
    BY <1>5, <2>1, <2>2, <2>3 DEF PluginTypeOK, OpType, ObjectType
\* an instance of the file of what is torn down is what is torn down
<1>11. \A o \in alive \ {t} : object[o].file # object[t].file /\ object[o].name # object[t].name /\ object[o].file # f
  <2> SUFFICES ASSUME NEW o \in alive, o # t
               PROVE  object[o].file # object[t].file /\ object[o].name # object[t].name /\ object[o].file # f
    OBVIOUS
  <2>1. /\ object[o].file \in Files /\ object[o].name = NameIn[object[o].file]
        /\ plugins[NameIn[object[o].file]] = o /\ byFile[object[o].file] = NameIn[object[o].file]
    BY DEF AliveListed
  <2>2. object[o].name # object[t].name /\ object[o].file # f
    BY <1>2, <1>4, <2>1
  <2>3. ASSUME object[o].file = object[t].file
        PROVE  FALSE
    <3>1. byFile[f] = object[t].file
      BY <1>2, <1>4, <2>1, <2>3
    <3>2. byFile[f] \in {f, NameIn[f]}
      BY <1>2, NamesTyped DEF EntriesSound
    <3>3. f = object[t].file
      BY <1>2, <1>4, <3>1, <3>2 DEF NamesApart
    <3> QED
      BY <2>2, <2>3, <3>3
  <2> QED
    BY <2>2, <2>3
<1>12. EntriesSound'
  <2>1. \A n \in Names : plugins'[n] # 0 => op'[plugins'[n]].stage = "done" /\ plugins'[n] = plugins[n] /\ plugins[n] \in Ops
    <3> SUFFICES ASSUME NEW n \in Names, plugins'[n] # 0
                 PROVE  op'[plugins'[n]].stage = "done" /\ plugins'[n] = plugins[n] /\ plugins[n] \in Ops
      OBVIOUS
    <3>1. plugins'[n] = plugins[n] /\ plugins[n] \in Ops /\ op[plugins[n]].stage = "done"
      BY <1>9, PluginAssumption DEF EntriesSound, PluginTypeOK, OpType, ObjectType, Ops
    <3>2. plugins[n] # i
      BY <1>1, <3>1
    <3> QED
      BY <1>7, <3>1, <3>2
  <2>2. \A g \in Files : byFile'[g] = byFile[g] \/ byFile'[g] = "none"
    BY <1>6 DEF PluginTypeOK, OpType, ObjectType
  <2> QED
    BY <1>5, <2>1, <2>2 DEF EntriesSound
<1>13. AliveListed'
  <2>1. \A o \in alive' : /\ object[o].file \in Files /\ object[o].status = "loaded"
                          /\ object[o].name = NameIn[object[o].file]
                          /\ plugins'[NameIn[object[o].file]] = o
                          /\ byFile'[object[o].file] = NameIn[object[o].file]
    BY <1>3, <1>4, <1>6, <1>11, NamesTyped DEF AliveListed, PluginTypeOK, OpType, ObjectType
  <2>2. \A o \in Ops \ alive' : object'[o].routes = {}
    BY <1>3, <1>5 DEF AliveListed
  <2> QED
    BY <1>3, <1>5, <2>1, <2>2 DEF AliveListed, PluginTypeOK, OpType, ObjectType
<1>14. OneAtATime'
  <2>1. ASSUME i \in Active'
        PROVE  OpSound(i)'
    <3>1. s = "import" /\ UNCHANGED <<plugins, byFile>>
      BY <1>6, <1>7, <2>1 DEF Active, PluginTypeOK, OpType, ObjectType
    <3>2. /\ op'[i].file = f /\ op'[i].prior = byFile[f] /\ op'[i].stage = "import"
          /\ op'[i].kind \in {"load", "unload"} /\ op'[i].added = {}
      BY <1>1, <1>2, <1>7, <3>1 DEF OpSound, PluginTypeOK, OpType, ObjectType
    <3>3. \A o \in alive' : object'[o].file # f
      BY <1>3, <1>5, <1>11 DEF PluginTypeOK, OpType, ObjectType
    <3>4. plugins[byFile[f]] \notin alive'
      BY <1>2, <1>3
    <3> QED
      BY <1>2, <3>1, <3>2, <3>3, <3>4 DEF OpSound
  <2> QED
    BY <1>8, <2>1 DEF OneAtATime
<1>15. RoutesSound => RoutesSound'
  <2> SUFFICES ASSUME RoutesSound
               PROVE  RoutesSound'
    OBVIOUS
  <2>1. \A j \in Ops : op[j].stage # "init"
    BY <1>1, <1>7, StaysActive
  <2>2. \A o \in alive' : o \in alive /\ o # t /\ object'[o].routes = object[o].routes
    BY <1>3, <1>5 DEF PluginTypeOK, OpType, ObjectType
  <2>3. t \notin alive => object[t].routes = {}
    BY <1>2 DEF AliveListed
  <2>4. \A o \in alive' : object'[o].routes \subseteq registry'
    BY <1>3, <2>2, <2>3 DEF RoutesSound
  <2>5. \A r \in registry' : \E o \in alive' : r \in object'[o].routes
    BY <1>3, <2>1, <2>2 DEF RoutesSound
  <2>6. \A o, p \in alive' : o # p => object'[o].routes \cap object'[p].routes = {}
    BY <2>2 DEF RoutesSound
  <2> QED
    BY <1>8, <2>4, <2>5, <2>6 DEF RoutesSound
<1> QED
  BY <1>3, <1>10, <1>12, <1>13, <1>14, <1>15

\* The operation under way past the teardown is nobody's record yet.
LEMMA LoadingOp ==
    ASSUME SequentialInv, NEW i \in Ops, op[i].stage \in {"import", "init"}
    PROVE  /\ i \in Active /\ OpSound(i) /\ op[i].file \in Files /\ op[i].prior = byFile[op[i].file]
           /\ i \notin alive /\ \A n \in Names : plugins[n] # i
           /\ byFile[op[i].file] \in {"none", op[i].file, NameIn[op[i].file]}
<1>1. i \in Active /\ OpSound(i)
  BY DEF SequentialInv, OneAtATime, Active
<1>2. \A n \in Names : plugins[n] # i
  BY NamesTyped DEF SequentialInv, EntriesSound
<1>3. i \notin alive
  BY <1>2, NamesTyped DEF SequentialInv, AliveListed
<1> QED
  BY <1>1, <1>2, <1>3 DEF OpSound, SequentialInv, EntriesSound

\* A load that fails: its record replaces no running instance's.
LEMMA ErrorStep ==
    ASSUME SequentialInv, NEW i \in Ops, op[i].stage \in {"import", "init"},
           NEW name \in {op[i].file, NameIn[op[i].file]}, plugins[name] \notin alive,
           ErrorRecord(i, name), UNCHANGED alive, spilled' \in BOOLEAN, registry' \subseteq registry,
           ~spilled' => /\ \A o \in alive : object[o].routes \subseteq registry'
                        /\ \A o, p \in alive : o # p => object[o].routes \cap object[p].routes = {}
                        /\ \A r \in registry' : \E o \in alive : r \in object[o].routes
    PROVE  SequentialInv'
<1> USE DEF SequentialInv
<1> DEFINE f == op[i].file
           rec == [name |-> name, file |-> f, status |-> "error", routes |-> {}]
<1>1. /\ i \in Active /\ OpSound(i) /\ f \in Files /\ i \notin alive
      /\ \A n \in Names : plugins[n] # i
  BY LoadingOp
<1>2. name \in Names /\ name # "none"
  BY <1>1, NamesTyped
<1>3. /\ object' = [object EXCEPT ![i] = rec] /\ byFile' = [byFile EXCEPT ![f] = name]
      /\ plugins' = [plugins EXCEPT ![name] = i] /\ op' = [op EXCEPT ![i].stage = "done"]
  BY DEF ErrorRecord, Record, Stage
<1>4. rec \in ObjectType
  BY <1>1, <1>2 DEF ObjectType
<1>5. /\ object' \in [Ops -> ObjectType] /\ object'[i] = rec /\ \A o \in Ops : o # i => object'[o] = object[o]
  BY <1>3, <1>4 DEF PluginTypeOK
<1> HIDE DEF rec
<1>6. /\ op' \in [Ops -> OpType] /\ op'[i].stage = "done"
      /\ \A o \in Ops : o # i => op'[o] = op[o]
  <2>1. op' \in [Ops -> OpType] /\ op' = [op EXCEPT ![i] = [op[i] EXCEPT !.stage = "done"]]
    BY <1>3, StageTyped DEF PluginTypeOK, OpStages
  <2>2. [op[i] EXCEPT !.stage = "done"].stage = "done"
    BY DEF PluginTypeOK, OpType
  <2> QED
    BY <2>1, <2>2 DEF PluginTypeOK
<1>7. /\ plugins' \in [Names -> 0 .. MaxOps] /\ plugins'[name] = i
      /\ \A n \in Names : n # name => plugins'[n] = plugins[n]
  BY <1>2, <1>3, NamesTyped DEF PluginTypeOK
<1>8. /\ byFile' \in [Files -> Names \cup {"none"}] /\ byFile'[f] = name
      /\ \A g \in Files : g # f => byFile'[g] = byFile[g]
  BY <1>1, <1>2, <1>3 DEF PluginTypeOK
<1>9. PluginTypeOK'
  BY <1>5, <1>6, <1>7, <1>8 DEF PluginTypeOK
<1>10. Active' = {} /\ \A j \in Ops : op'[j].stage # "init"
  <2>1. Active' \subseteq {i}
    BY <1>1, <1>6, StaysActive
  <2>2. \A j \in Ops : op'[j].stage # "init"
    BY <1>1, <1>6, StaysActive
  <2> QED
    BY <1>6, <2>1, <2>2 DEF Active
<1>11. EntriesSound'
  <2>1. ASSUME NEW n \in Names, plugins'[n] # 0
        PROVE  /\ op'[plugins'[n]].stage = "done" /\ object'[plugins'[n]].name = n
               /\ object'[plugins'[n]].file \in Files
               /\ n \in {object'[plugins'[n]].file, NameIn[object'[plugins'[n]].file]}
    <3>1. CASE n = name
      BY <1>1, <1>5, <1>6, <1>7, <3>1 DEF rec
    <3>2. CASE n # name
      <4>1. plugins'[n] = plugins[n] /\ plugins[n] \in Ops /\ plugins[n] # i
        BY <1>1, <1>7, <2>1, <3>2, PluginAssumption DEF PluginTypeOK, Ops
      <4> QED
        BY <1>5, <1>6, <2>1, <4>1 DEF EntriesSound
    <3> QED
      BY <3>1, <3>2
  <2> QED
    BY <1>8, <2>1 DEF EntriesSound
<1>12. AliveListed'
  <2>1. ASSUME NEW o \in alive
        PROVE  /\ object'[o] = object[o] /\ object[o].file # f /\ NameIn[object[o].file] # name
    BY <1>1, <1>5 DEF AliveListed, OpSound, PluginTypeOK
  <2>2. object'[i].routes = {}
    BY <1>5 DEF rec
  <2> QED
    BY <1>5, <1>7, <1>8, <2>1, <2>2, NamesTyped DEF AliveListed
<1>13. ~spilled' => RoutesSound'
  <2>1. \A o \in alive : object'[o] = object[o]
    BY <1>1, <1>5 DEF PluginTypeOK
  <2> QED
    BY <1>10, <2>1 DEF RoutesSound
<1>14. OneAtATime'
  BY <1>10 DEF OneAtATime
<1> QED
  BY <1>9, <1>11, <1>12, <1>13, <1>14

\* Without an init under way every served route is a running instance's.
LEMMA ImportStage ==
    ASSUME SequentialInv, NEW i \in Ops, op[i].stage = "import"
    PROVE  /\ \A j \in Ops : op[j].stage # "init"
           /\ ~spilled => /\ \A o \in alive : object[o].routes \subseteq registry
                          /\ \A o, p \in alive : o # p => object[o].routes \cap object[p].routes = {}
                          /\ \A r \in registry : \E o \in alive : r \in object[o].routes
<1>1. \A j \in Ops : op[j].stage # "init"
  BY DEF SequentialInv, OneAtATime, Active
<1> QED
  BY <1>1 DEF SequentialInv, RoutesSound

\* A file's own name is not a running instance's while it is being loaded.
LEMMA FileNameFree ==
    ASSUME SequentialInv, NamesApart, NEW i \in Ops, op[i].stage = "import"
    PROVE  plugins[op[i].file] \notin alive
<1> DEFINE o == plugins[op[i].file]
<1> SUFFICES ASSUME o \in alive
             PROVE  FALSE
  OBVIOUS
<1>1. OpSound(i) /\ op[i].file \in Files
  BY LoadingOp
<1>2. object[o].name = op[i].file /\ object[o].name = NameIn[object[o].file] /\ object[o].file \in Files
  <2>1. o # 0
    BY NamesTyped DEF SequentialInv, PluginTypeOK
  <2> QED
    BY <1>1, <2>1, NamesTyped DEF SequentialInv, AliveListed, EntriesSound
<1>3. object[o].file # op[i].file
  BY <1>1 DEF OpSound
<1> QED
  BY <1>1, <1>2, <1>3 DEF NamesApart

\* A file that cannot be imported leaves an error record in the place of
\* its predecessor.
LEMMA ImportFailsStep ==
    ASSUME SequentialInv, NamesApart, NEW i \in Ops, ImportFails(i)
    PROVE  SequentialInv'
<1>1. op[i].stage = "import" /\ UNCHANGED <<registry, alive, spilled>> /\ ErrorRecord(i, PriorName(i))
  BY DEF ImportFails
<1>2. /\ OpSound(i) /\ op[i].file \in Files /\ op[i].prior = byFile[op[i].file]
      /\ byFile[op[i].file] \in {"none", op[i].file, NameIn[op[i].file]}
  BY <1>1, LoadingOp
<1>3. PriorName(i) \in {op[i].file, NameIn[op[i].file]}
  BY <1>2 DEF PriorName
<1>4. plugins[PriorName(i)] \notin alive
  <2>1. CASE op[i].prior # "none"
    BY <1>1, <1>2, <2>1 DEF PriorName, OpSound
  <2>2. CASE op[i].prior = "none"
    BY <1>1, <2>2, FileNameFree DEF PriorName
  <2> QED
    BY <2>1, <2>2
<1>5. /\ spilled' \in BOOLEAN
      /\ ~spilled' => /\ \A o \in alive : object[o].routes \subseteq registry'
                      /\ \A o, p \in alive : o # p => object[o].routes \cap object[p].routes = {}
                      /\ \A r \in registry' : \E o \in alive : r \in object[o].routes
  BY <1>1, ImportStage DEF SequentialInv, PluginTypeOK
<1> QED
  BY <1>1, <1>3, <1>4, <1>5, ErrorStep

\* The declared routes of an imported file are registered when none of them
\* is taken.
LEMMA ImportedStep ==
    ASSUME SequentialInv, NamesApart, NEW i \in Ops, Imported(i)
    PROVE  SequentialInv'
<1> DEFINE f == op[i].file
           holder == plugins[NameIn[f]]
           taken == holder # 0 /\ object[holder].file # f /\ object[holder].status = "loaded"
<1>1. op[i].stage = "import" /\ UNCHANGED <<alive, spilled>>
  BY DEF Imported
<1>2. i \in Active /\ OpSound(i) /\ f \in Files
  BY <1>1, LoadingOp
<1>3. /\ spilled' \in BOOLEAN
      /\ ~spilled => /\ \A o \in alive : object[o].routes \subseteq registry
                     /\ \A o, p \in alive : o # p => object[o].routes \cap object[p].routes = {}
                     /\ \A r \in registry : \E o \in alive : r \in object[o].routes
  BY <1>1, ImportStage DEF SequentialInv, PluginTypeOK
<1>4. ~taken => holder \notin alive
  <2> SUFFICES ASSUME holder \in alive
               PROVE  taken
    OBVIOUS
  <2>1. holder # 0
    BY NamesTyped DEF SequentialInv, PluginTypeOK
  <2>2. object[holder].status = "loaded" /\ object[holder].file # f
    BY <1>1, <1>2 DEF SequentialInv, AliveListed, OpSound
  <2> QED
    BY <2>1, <2>2
<1>5. CASE taken /\ ErrorRecord(i, f) /\ UNCHANGED registry
  BY <1>1, <1>2, <1>3, <1>5, FileNameFree, ErrorStep
<1>6. CASE ~taken /\ ErrorRecord(i, NameIn[f]) /\ UNCHANGED registry
  BY <1>1, <1>2, <1>3, <1>4, <1>6, ErrorStep
<1>7. CASE /\ ~taken /\ DeclaredIn[f] \cap registry = {} /\ registry' = registry \cup DeclaredIn[f]
           /\ op' = [op EXCEPT ![i].stage = "init", ![i].before = registry']
           /\ UNCHANGED <<object, plugins, byFile>>
  <2> DEFINE new == [op[i] EXCEPT !.stage = "init", !.before = registry']
  <2>1. registry' \subseteq Routes
    BY <1>2, <1>7, NamesTyped DEF SequentialInv, PluginTypeOK
  <2>2. /\ new \in OpType /\ new.file = f /\ new.stage = "init" /\ new.before = registry' /\ new.prior = op[i].prior
        /\ new.added = op[i].added /\ new.kind = op[i].kind
    BY <1>2, <2>1 DEF SequentialInv, PluginTypeOK, OpType, OpStages
  <2>3. op' = [op EXCEPT ![i] = new]
    BY <1>7
  <2> HIDE DEF new
  <2>4. op' \in [Ops -> OpType] /\ op'[i] = new /\ \A j \in Ops : j # i => op'[j] = op[j]
    BY <2>2, <2>3 DEF SequentialInv, PluginTypeOK
  <2>5. PluginTypeOK'
    BY <1>1, <1>3, <1>7, <2>1, <2>4 DEF SequentialInv, PluginTypeOK
  <2>6. Active' \subseteq {i} /\ \A j \in Ops : j # i => op'[j].stage # "init"
    BY <1>2, <2>4, StaysActive
  <2>7. EntriesSound'
    <3>1. \A n \in Names : plugins[n] # 0 => plugins[n] \in Ops /\ plugins[n] # i
      BY <1>1, LoadingOp, PluginAssumption DEF SequentialInv, PluginTypeOK, Ops
    <3> QED
      BY <1>7, <2>4, <3>1 DEF SequentialInv, EntriesSound
  <2>8. AliveListed'
    BY <1>1, <1>7 DEF SequentialInv, AliveListed
  <2>9. OpSound(i)'
    BY <1>1, <1>2, <1>4, <1>7, <2>2, <2>4 DEF OpSound
  <2>10. OneAtATime'
    BY <2>6, <2>9 DEF OneAtATime
  <2>11. op[i].added = {}
    BY <1>1, <1>2 DEF OpSound
  <2>12. ~spilled' => RoutesSound'
    BY <1>1, <1>3, <1>7, <2>2, <2>4, <2>6, <2>11 DEF RoutesSound
  <2> QED
    BY <2>5, <2>7, <2>8, <2>10, <2>12 DEF SequentialInv
<1> QED
  BY <1>5, <1>6, <1>7 DEF Imported

\* The init hook registers a route that nobody has.
LEMMA InitAddsStep ==
    ASSUME SequentialInv, NEW i \in Ops, NEW r, InitAdds(i, r)
    PROVE  SequentialInv'
<1> DEFINE f == op[i].file
           new == [op[i] EXCEPT !.added = op[i].added \cup {r}]
<1>1. /\ op[i].stage = "init" /\ r \in AddedIn[f] /\ r \notin registry /\ registry' = registry \cup {r}
      /\ op' = [op EXCEPT ![i] = new] /\ UNCHANGED <<object, plugins, byFile, alive, spilled>>
  BY DEF InitAdds
<1>2. i \in Active /\ OpSound(i) /\ f \in Files
  BY <1>1, LoadingOp
<1>3. r \in Routes
  BY <1>1, <1>2, NamesTyped
<1>4. /\ new \in OpType /\ new.file = f /\ new.stage = "init" /\ new.before = op[i].before /\ new.prior = op[i].prior
      /\ new.added = op[i].added \cup {r} /\ new.kind = op[i].kind
  BY <1>1, <1>3 DEF SequentialInv, PluginTypeOK, OpType
<1> HIDE DEF new
<1>5. op' \in [Ops -> OpType] /\ op'[i] = new /\ \A j \in Ops : j # i => op'[j] = op[j]
  BY <1>1, <1>4 DEF SequentialInv, PluginTypeOK
<1>6. PluginTypeOK'
  BY <1>1, <1>3, <1>5 DEF SequentialInv, PluginTypeOK
<1>7. Active' \subseteq {i} /\ \A j \in Ops : j # i => op'[j].stage # "init" /\ op[j].stage # "init"
  BY <1>2, <1>5, StaysActive
<1>8. EntriesSound'
  <2>1. \A n \in Names : plugins[n] # 0 => plugins[n] \in Ops /\ plugins[n] # i
    BY <1>1, LoadingOp, PluginAssumption DEF SequentialInv, PluginTypeOK, Ops
  <2> QED
    BY <1>1, <1>5, <2>1 DEF SequentialInv, EntriesSound
<1>9. AliveListed'
  BY <1>1 DEF SequentialInv, AliveListed
<1>10. OpSound(i)'
  BY <1>1, <1>2, <1>4, <1>5 DEF OpSound
<1>11. OneAtATime'
  BY <1>7, <1>10 DEF OneAtATime
<1>12. RoutesSound => RoutesSound'
  <2> SUFFICES ASSUME RoutesSound
               PROVE  RoutesSound'
    OBVIOUS
  <2>1. /\ registry = op[i].before \cup op[i].added /\ op[i].before \cap op[i].added = {}
        /\ DeclaredIn[f] \subseteq op[i].before /\ op[i].added \subseteq AddedIn[f]
        /\ \A o \in alive : object[o].routes \cap (DeclaredIn[f] \cup op[i].added) = {}
    BY <1>1 DEF RoutesSound
  <2>2. \A o \in alive : object[o].routes \subseteq registry
    BY DEF RoutesSound
  <2>3. /\ registry' = op'[i].before \cup op'[i].added /\ op'[i].before \cap op'[i].added = {}
        /\ DeclaredIn[op'[i].file] \subseteq op'[i].before /\ op'[i].added \subseteq AddedIn[op'[i].file]
    BY <1>1, <1>4, <1>5, <2>1
  <2>4. \A o \in alive : object[o].routes \cap (DeclaredIn[op'[i].file] \cup op'[i].added) = {}
    BY <1>1, <1>4, <1>5, <2>1, <2>2
  <2>5. \A x \in registry' : \/ \E o \in alive : x \in object[o].routes
                             \/ x \in DeclaredIn[op'[i].file] \cup op'[i].added
    BY <1>1, <1>4, <1>5, <1>7 DEF RoutesSound
  <2> QED
    BY <1>1, <1>4, <1>5, <1>7, <2>2, <2>3, <2>4, <2>5 DEF RoutesSound
<1> QED
  BY <1>1, <1>6, <1>8, <1>9, <1>11, <1>12 DEF SequentialInv

\* A failing init takes the declared routes back; what it registered itself
\* stays, which `spilled` records.
LEMMA InitThrowsStep ==
    ASSUME SequentialInv, NEW i \in Ops, InitThrows(i)
    PROVE  SequentialInv'
<1> DEFINE f == op[i].file
<1>1. /\ op[i].stage = "init" /\ registry' = registry \ DeclaredIn[f] /\ ErrorRecord(i, NameIn[f])
      /\ spilled' = (spilled \/ op[i].added # {}) /\ UNCHANGED alive
  BY DEF InitThrows
<1>2. i \in Active /\ OpSound(i) /\ f \in Files
  BY <1>1, LoadingOp
<1>3. plugins[NameIn[f]] \notin alive
  BY <1>1, <1>2 DEF OpSound
<1>4. spilled' \in BOOLEAN /\ registry' \subseteq registry
  BY <1>1 DEF SequentialInv, PluginTypeOK
<1>5. ASSUME ~spilled'
      PROVE  /\ \A o \in alive : object[o].routes \subseteq registry'
             /\ \A o, p \in alive : o # p => object[o].routes \cap object[p].routes = {}
             /\ \A r \in registry' : \E o \in alive : r \in object[o].routes
  <2>1. RoutesSound /\ op[i].added = {}
    BY <1>1, <1>5 DEF SequentialInv
  <2>2. \A j \in Ops : j # i => op[j].stage # "init"
    BY <1>1, <1>2 DEF SequentialInv, OneAtATime, Active
  <2>3. \A o \in alive : object[o].routes \cap DeclaredIn[f] = {} /\ object[o].routes \subseteq registry
    BY <1>1, <2>1 DEF RoutesSound
  <2>4. \A r \in registry' : \E o \in alive : r \in object[o].routes
    BY <1>1, <2>1, <2>2 DEF RoutesSound
  <2>5. \A o \in alive : object[o].routes \subseteq registry'
    BY <1>1, <2>3
  <2> QED
    BY <2>1, <2>4, <2>5 DEF RoutesSound
<1> QED
  BY <1>1, <1>2, <1>3, <1>4, <1>5, ErrorStep

\* A plugin whose init returned owns its declared routes and those its init
\* added.
LEMMA LoadedStep ==
    ASSUME SequentialInv, NEW i \in Ops, Loaded(i)
    PROVE  SequentialInv'
<1> DEFINE f == op[i].file
           name == NameIn[f]
           rec == [name |-> name, file |-> f, status |-> "loaded", routes |-> RecordedRoutes(i)]
<1>1. /\ op[i].stage = "init" /\ op[i].added = AddedIn[f]
      /\ object' = [object EXCEPT ![i] = rec] /\ byFile' = [byFile EXCEPT ![f] = name]
      /\ plugins' = [n \in Names |-> IF n = name THEN i ELSE IF n = op[i].prior THEN 0 ELSE plugins[n]]
      /\ alive' = alive \cup {i} /\ op' = [op EXCEPT ![i].stage = "done"] /\ UNCHANGED <<registry, spilled>>
  BY DEF Loaded, Record, Stage
<1>2. /\ i \in Active /\ OpSound(i) /\ f \in Files /\ i \notin alive
      /\ \A n \in Names : plugins[n] # i
  BY <1>1, LoadingOp
<1>3. name \in Names
  BY <1>2, NamesTyped
<1>4. rec \in ObjectType
  <2>1. RecordedRoutes(i) \subseteq Routes
    BY <1>2, NamesTyped DEF RecordedRoutes, SequentialInv, PluginTypeOK
  <2> QED
    BY <1>2, <1>3, <2>1 DEF ObjectType
<1>5. /\ object' \in [Ops -> ObjectType] /\ object'[i] = rec /\ \A o \in Ops : o # i => object'[o] = object[o]
  BY <1>1, <1>4 DEF SequentialInv, PluginTypeOK
<1>6. rec.name = name /\ rec.file = f /\ rec.status = "loaded" /\ rec.routes = RecordedRoutes(i)
  OBVIOUS
<1> HIDE DEF rec
<1>7. /\ op' \in [Ops -> OpType] /\ op'[i].stage = "done"
      /\ \A o \in Ops : o # i => op'[o] = op[o]
  <2>1. op' \in [Ops -> OpType] /\ op' = [op EXCEPT ![i] = [op[i] EXCEPT !.stage = "done"]]
    BY <1>1, StageTyped DEF SequentialInv, PluginTypeOK, OpStages
  <2>2. [op[i] EXCEPT !.stage = "done"].stage = "done"
    BY DEF SequentialInv, PluginTypeOK, OpType
  <2> QED
    BY <2>1, <2>2 DEF SequentialInv, PluginTypeOK
<1>8. /\ plugins' \in [Names -> 0 .. MaxOps] /\ plugins'[name] = i
      /\ \A n \in Names : n # name => plugins'[n] = 0 \/ plugins'[n] = plugins[n]
      /\ \A n \in Names : n # name /\ plugins[n] \in alive => plugins'[n] = plugins[n]
  <2>1. op[i].prior \in Names => plugins[op[i].prior] \notin alive
    BY <1>1, <1>2, NamesTyped DEF OpSound
  <2>2. 0 \in 0 .. MaxOps /\ i \in 0 .. MaxOps
    BY PluginAssumption, NamesTyped
  <2>3. plugins' \in [Names -> 0 .. MaxOps]
    BY <1>1, <2>2 DEF SequentialInv, PluginTypeOK
  <2> QED
    BY <1>1, <1>3, <2>1, <2>3
<1>9. /\ byFile' \in [Files -> Names \cup {"none"}] /\ byFile'[f] = name
      /\ \A g \in Files : g # f => byFile'[g] = byFile[g]
  BY <1>1, <1>2, <1>3 DEF SequentialInv, PluginTypeOK
<1>10. PluginTypeOK'
  BY <1>1, <1>5, <1>7, <1>8, <1>9 DEF SequentialInv, PluginTypeOK
<1>11. Active' = {} /\ (\A j \in Ops : op'[j].stage # "init") /\ \A j \in Ops : j # i => op[j].stage # "init"
  <2>1. Active' \subseteq {i} /\ \A j \in Ops : j # i => op[j].stage # "init" /\ op'[j].stage # "init"
    BY <1>2, <1>7, StaysActive
  <2> QED
    BY <1>7, <2>1 DEF Active
<1>12. EntriesSound'
  <2>1. ASSUME NEW n \in Names, plugins'[n] # 0
        PROVE  /\ op'[plugins'[n]].stage = "done" /\ object'[plugins'[n]].name = n
               /\ object'[plugins'[n]].file \in Files
               /\ n \in {object'[plugins'[n]].file, NameIn[object'[plugins'[n]].file]}
    <3>1. CASE n = name
      BY <1>2, <1>5, <1>6, <1>7, <1>8, <3>1
    <3>2. CASE n # name
      <4>1. plugins'[n] = plugins[n] /\ plugins[n] \in Ops /\ plugins[n] # i
        BY <1>2, <1>8, <2>1, <3>2, PluginAssumption DEF SequentialInv, PluginTypeOK, Ops
      <4> QED
        BY <1>5, <1>7, <2>1, <4>1 DEF SequentialInv, EntriesSound
    <3> QED
      BY <3>1, <3>2
  <2> QED
    BY <1>9, <2>1 DEF SequentialInv, EntriesSound
<1>13. ASSUME NEW o \in alive
       PROVE  /\ o \in Ops /\ o # i /\ object'[o] = object[o] /\ object[o].file \in Files
              /\ object[o].file # f /\ NameIn[object[o].file] # name
              /\ plugins[NameIn[object[o].file]] = o /\ NameIn[object[o].file] \in Names
  <2>1. plugins[name] \notin alive /\ object[o].file # f
    BY <1>1, <1>2 DEF OpSound
  <2> QED
    BY <1>2, <1>5, <2>1, NamesTyped DEF SequentialInv, AliveListed, PluginTypeOK
<1>14. AliveListed'
  <2>1. ASSUME NEW o \in alive'
        PROVE  /\ object'[o].file \in Files /\ object'[o].status = "loaded"
               /\ object'[o].name = NameIn[object'[o].file]
               /\ plugins'[NameIn[object'[o].file]] = o
               /\ byFile'[object'[o].file] = NameIn[object'[o].file]
    <3>1. CASE o = i
      BY <1>2, <1>5, <1>6, <1>8, <1>9, <3>1
    <3>2. CASE o \in alive
      BY <1>8, <1>9, <1>13, <3>2 DEF SequentialInv, AliveListed
    <3> QED
      BY <1>1, <3>1, <3>2
  <2>2. \A o \in Ops \ alive' : object'[o].routes = {}
    BY <1>1, <1>5 DEF SequentialInv, AliveListed
  <2> QED
    BY <2>1, <2>2 DEF AliveListed
<1>15. RoutesSound => RoutesSound'
  <2> SUFFICES ASSUME RoutesSound
               PROVE  RoutesSound'
    OBVIOUS
  <2>1. /\ registry = op[i].before \cup op[i].added /\ op[i].before \cap op[i].added = {}
        /\ DeclaredIn[f] \subseteq op[i].before
        /\ \A o \in alive : object[o].routes \cap (DeclaredIn[f] \cup op[i].added) = {}
    BY <1>1 DEF RoutesSound
  <2>2. object'[i].routes = DeclaredIn[f] \cup op[i].added
    BY <1>5, <1>6, <2>1 DEF RecordedRoutes
  <2>3. \A o \in alive : object'[o].routes = object[o].routes /\ object[o].routes \subseteq registry
    BY <1>13 DEF RoutesSound
  <2>4. \A o \in alive' : object'[o].routes \subseteq registry'
    BY <1>1, <2>1, <2>2, <2>3
  <2>5. \A o, p \in alive' : o # p => object'[o].routes \cap object'[p].routes = {}
    BY <1>1, <2>1, <2>2, <2>3 DEF RoutesSound
  <2>6. \A r \in registry' : \E o \in alive' : r \in object'[o].routes
    BY <1>1, <1>11, <2>2, <2>3 DEF RoutesSound
  <2> QED
    BY <1>11, <2>4, <2>5, <2>6 DEF RoutesSound
<1>16. OneAtATime'
  BY <1>11 DEF OneAtATime
<1> QED
  BY <1>1, <1>10, <1>12, <1>14, <1>15, <1>16 DEF SequentialInv

\* Every step of an operation keeps the invariant as long as operations did
\* not overlap.
LEMMA PluginStep ==
    ASSUME NamesApart, PluginInv, [PluginNext]_pluginVars
    PROVE  PluginInv'
<1>1. CASE UNCHANGED pluginVars
  BY <1>1 DEF PluginInv, SequentialInv, PluginTypeOK, EntriesSound, AliveListed, OneAtATime,
     OpSound,
     RoutesSound, Active, pluginVars
<1>2. ASSUME NEW i \in Ops, NEW f \in Files, NEW kind \in {"load", "unload"}, Begin(i, kind, f)
      PROVE  PluginInv'
  <2>1. overlapped' = (overlapped \/ Active # {})
    BY <1>2 DEF Begin
  <2>2. CASE ~overlapped'
    BY <1>2, <2>1, <2>2, BeginStep DEF PluginInv
  <2> QED
    BY <2>1, <2>2 DEF PluginInv
<1>3. ASSUME NEW i \in Ops, OpProgress(i) \/ (\E r : InitAdds(i, r))
      PROVE  PluginInv'
  <2>1. UNCHANGED overlapped
    BY <1>3 DEF OpProgress, Teardown, Imported, ImportFails, InitThrows, Loaded, InitAdds
  <2>2. CASE ~overlapped
    <3>1. SequentialInv'
      BY <1>3, <2>2, TeardownStep, ImportedStep, ImportFailsStep, InitThrowsStep, LoadedStep,
         InitAddsStep
         DEF PluginInv, OpProgress
    <3> QED
      BY <2>1, <3>1 DEF PluginInv
  <2> QED
    BY <2>1, <2>2 DEF PluginInv
<1> QED
  BY <1>1, <1>2, <1>3 DEF PluginNext

\* The invariant says what the properties ask for.
LEMMA PluginsSafe == PluginInv => RoutesAreOwned /\ OneInstancePerFile
<1> SUFFICES ASSUME PluginInv, ~overlapped
             PROVE  RoutesAreOwned /\ OneInstancePerFile
  BY DEF RoutesAreOwned, OneInstancePerFile, PluginInv
<1> USE DEF PluginInv, SequentialInv
<1>1. OneInstancePerFile
  BY DEF OneInstancePerFile, AliveListed
<1>2. ASSUME ~spilled
      PROVE  Listed \subseteq registry
  <2> SUFFICES ASSUME NEW n \in Names, plugins[n] # 0
               PROVE  object[plugins[n]].routes \subseteq registry
    BY DEF Listed
  <2>1. plugins[n] \in Ops
    BY PluginAssumption DEF PluginTypeOK, Ops
  <2> QED
    BY <1>2, <2>1 DEF AliveListed, RoutesSound
<1>3. ASSUME ~spilled
      PROVE  registry \subseteq Listed \cup Loading
  <2> SUFFICES ASSUME NEW r \in registry
               PROVE  r \in Listed \cup Loading
    OBVIOUS
  <2>1. ASSUME NEW o \in alive, r \in object[o].routes
        PROVE  r \in Listed
    <3>1. \E n \in Names : plugins[n] # 0 /\ plugins[n] = o
      BY NamesTyped DEF AliveListed, PluginTypeOK
    <3> QED
      BY <2>1, <3>1 DEF Listed
  <2>2. ASSUME NEW i \in Ops, op[i].stage = "init", r \in DeclaredIn[op[i].file] \cup op[i].added
        PROVE  r \in Loading
    <3>1. op[i].added \subseteq AddedIn[op[i].file]
      BY <1>3, <2>2 DEF RoutesSound
    <3> QED
      BY <2>2, <3>1 DEF Loading
  <2> QED
    BY <1>3, <2>1, <2>2 DEF RoutesSound
<1> QED
  BY <1>1, <1>2, <1>3 DEF RoutesAreOwned

\* As long as no two operations overlap, no file has two running instances,
\* and unless an init failed after it registered routes itself the routes
\* that are served are those of the loaded plugins and of the load in its
\* init.  It holds for any files, names and routes when no plugin has taken
\* the base name of another file: loadFile records an early error under
\* basename(file) without looking whose entry that is
\* (core/plugin-extensions.ts).
THEOREM PluginsStayWhole ==
    ASSUME NamesApart
    PROVE  PluginSpec => [](RoutesAreOwned /\ OneInstancePerFile)
<1>1. PluginInv /\ [PluginNext]_pluginVars => PluginInv'
  BY PluginStep
<1> QED
  BY <1>1, PluginInitInv, PluginsSafe, PTL DEF PluginSpec

=============================================================================
