--------------------------- MODULE DaemonLifecycle ---------------------------
(***************************************************************************)
(* The life of the daemon process: binding the port, the extension's init  *)
(* (which awaits the embedding worker), the plugins, the config watcher,   *)
(* the restart endpoint, and the shutdown, which awaits two hooks while    *)
(* init may still be under way.                                            *)
(***************************************************************************)
EXTENDS Naturals

CONSTANTS
    MaxBindRetries,    \* MAX_BIND_RETRIES
    MaxRuns,           \* processes
    MaxEdits           \* edits of the config file

ASSUME DaemonAssumption == MaxBindRetries \in Nat /\ MaxRuns \in Nat \ {0} /\ MaxEdits \in Nat

Configs == {"old", "new", "invalid"}

VARIABLES
    run,           \* "off", "binding", "listening"
    binds,         \* bindAttempt
    portBusy,      \* another process holds the port
    initStage,     \* of the listen callback: "no", "embed", "later", "plugins", "done"
    degraded,      \* _extensionDegraded
    sdStage,       \* of shutdown: "no", "plugins", "ext", "closed"
    dbOpen, polls, watchOn, schedOn, pluginsOn,
    embedStopped,  \* stopEmbedWorker was called
    closes,        \* closeDatabase calls of this process
    straggler,     \* init ended during the shutdown, or the shutdown hook threw
    restartArmed,  \* _pendingRestartTimer
    cfgFile, cfgBoot, cfgLive, cfgExt,   \* the file; the object read at boot; the singleton; what the extension uses
    debounce,      \* the watcher's timer runs
    earlyEdit,     \* a reload happened before the extension's init
    runs, edits

daemonVars == <<run, binds, portBusy, initStage, degraded, sdStage, dbOpen, polls, watchOn, schedOn, pluginsOn,
                embedStopped, closes, straggler, restartArmed, cfgFile, cfgBoot, cfgLive, cfgExt, debounce, earlyEdit,
                runs, edits>>
cfgVars == <<cfgFile, cfgBoot, cfgLive, cfgExt, debounce, earlyEdit, edits>>
timersOn == <<dbOpen, polls, watchOn, schedOn, pluginsOn, embedStopped, closes, straggler>>
initVars == <<initStage, degraded>>
portVars == <<binds, portBusy>>

DaemonInit ==
    /\ run = "off" /\ binds = 0 /\ portBusy \in BOOLEAN /\ initStage = "no" /\ degraded = FALSE /\ sdStage = "no"
    /\ dbOpen = FALSE /\ polls = FALSE /\ watchOn = FALSE /\ schedOn = FALSE /\ pluginsOn = FALSE
    /\ embedStopped = FALSE /\ closes = 0 /\ straggler = FALSE /\ restartArmed = FALSE
    /\ cfgFile = "old" /\ cfgBoot = "old" /\ cfgLive = "old" /\ cfgExt = "old"
    /\ debounce = FALSE /\ earlyEdit = FALSE /\ runs = 0 /\ edits = 0

-----------------------------------------------------------------------------
(* The top level of main.ts up to the first listen. *)
Boot0 ==
    /\ run = "off" /\ runs < MaxRuns /\ runs' = runs + 1
    /\ cfgFile # "invalid"
    /\ run' = "binding" /\ binds' = 0 /\ initStage' = "no" /\ degraded' = FALSE /\ sdStage' = "no"
    /\ dbOpen' = TRUE /\ watchOn' = TRUE /\ polls' = FALSE /\ schedOn' = FALSE /\ pluginsOn' = FALSE
    /\ embedStopped' = FALSE /\ closes' = 0 /\ straggler' = FALSE /\ restartArmed' = FALSE
    /\ cfgBoot' = cfgFile /\ cfgLive' = cfgFile /\ cfgExt' = cfgFile /\ debounce' = FALSE /\ earlyEdit' = FALSE
    /\ UNCHANGED <<portBusy, cfgFile, edits>>

(* The process is gone: timers, sockets and memory with it. *)
Exit ==
    /\ run' = "off" /\ dbOpen' = FALSE /\ watchOn' = FALSE /\ polls' = FALSE /\ schedOn' = FALSE /\ pluginsOn' = FALSE
    /\ debounce' = FALSE /\ restartArmed' = FALSE

(* EADDRINUSE: retried a few times, then exit(1). *)
BindFails ==
    /\ run = "binding" /\ portBusy
    /\ \/ /\ binds < MaxBindRetries /\ binds' = binds + 1
          /\ UNCHANGED <<run, dbOpen, watchOn, polls, schedOn, pluginsOn, debounce, restartArmed>>
       \/ binds = MaxBindRetries /\ Exit /\ UNCHANGED binds
    /\ UNCHANGED <<portBusy, sdStage, embedStopped, closes, straggler, cfgFile, cfgBoot, cfgLive, cfgExt, earlyEdit, runs, edits>>
    /\ UNCHANGED initVars

PortFreed ==
    /\ portBusy /\ portBusy' = FALSE
    /\ UNCHANGED <<run, binds, sdStage, restartArmed, runs>>
    /\ UNCHANGED initVars /\ UNCHANGED timersOn /\ UNCHANGED cfgVars

(* The server listens, and onInit starts with the config read at boot. *)
Listening ==
    /\ run = "binding" /\ ~portBusy /\ sdStage # "closed"
    /\ run' = "listening" /\ initStage' = "embed"
    /\ cfgExt' = cfgBoot
    /\ UNCHANGED <<binds, portBusy, degraded, sdStage, restartArmed, cfgFile, cfgBoot, cfgLive, debounce, earlyEdit, runs, edits>>
    /\ UNCHANGED timersOn

(* startEmbedWorker settles, unless stopEmbedWorker took its listeners. *)
EmbedSettles ==
    /\ run = "listening" /\ initStage = "embed" /\ ~embedStopped
    /\ initStage' = "later"
    /\ UNCHANGED <<run, degraded, sdStage, restartArmed, runs>>
    /\ UNCHANGED portVars /\ UNCHANGED timersOn /\ UNCHANGED cfgVars

(* The rest of onInit; when it throws, the scheduler may already run.      *)
(* Nothing here asks whether the daemon shuts down.                        *)
InitEnds(ok) ==
    /\ run = "listening" /\ initStage = "later"
    /\ initStage' = "plugins" /\ degraded' = ~ok
    /\ schedOn' \in IF ok THEN {TRUE} ELSE BOOLEAN
    /\ straggler' = (straggler \/ sdStage # "no")
    /\ UNCHANGED <<run, sdStage, dbOpen, polls, watchOn, pluginsOn, embedStopped, closes, restartArmed, runs>>
    /\ UNCHANGED portVars /\ UNCHANGED cfgVars

PluginsScanned ==
    /\ run = "listening" /\ initStage = "plugins"
    /\ initStage' = "done" /\ pluginsOn' = TRUE
    /\ UNCHANGED <<run, degraded, sdStage, dbOpen, polls, watchOn, schedOn, embedStopped, closes, straggler, restartArmed, runs>>
    /\ UNCHANGED portVars /\ UNCHANGED cfgVars

(* A worker is spawned, which needs the database, and polled. *)
PollStarts ==
    /\ run = "listening" /\ dbOpen /\ ~polls /\ polls' = TRUE
    /\ UNCHANGED <<run, sdStage, dbOpen, watchOn, schedOn, pluginsOn, embedStopped, closes, straggler, restartArmed, runs>>
    /\ UNCHANGED portVars /\ UNCHANGED initVars /\ UNCHANGED cfgVars

-----------------------------------------------------------------------------
\* Mutant: the poll timers are left to the exit.
StopReadersPollsLeft == watchOn' = FALSE /\ debounce' = FALSE /\ UNCHANGED polls

(* configWatcher.stop and stopAllPolling come before closeDatabase. *)
StopReaders == watchOn' = FALSE /\ debounce' = FALSE /\ polls' = FALSE

CloseAll ==
    /\ sdStage' = "closed"
    /\ StopReaders
    /\ dbOpen' = FALSE /\ closes' = IF closes < 2 THEN closes + 1 ELSE closes

(* shutdown goes on after the plugins are stopped. *)
StopExtension ==
    \/ ~degraded /\ sdStage' = "ext" /\ UNCHANGED <<watchOn, debounce, polls, dbOpen, closes>>
    \/ degraded /\ CloseAll

(* The _shuttingDown guard. *)
MayShutDown == sdStage = "no"

(* shutdown, up to its first await: the plugin manager exists once init    *)
(* came to the plugins.                                                    *)
BeginShutdown ==
    /\ MayShutDown
    /\ \/ /\ initStage \in {"plugins", "done"}
          /\ sdStage' = "plugins" /\ UNCHANGED <<watchOn, debounce, polls, dbOpen, closes>>
       \/ initStage \notin {"plugins", "done"} /\ StopExtension
    /\ UNCHANGED <<run, schedOn, pluginsOn, embedStopped, straggler, cfgFile, cfgBoot, cfgLive, cfgExt, earlyEdit, runs, edits>>
    /\ UNCHANGED initVars /\ UNCHANGED portVars

(* SIGTERM, SIGINT or an uncaught exception *)
Signal ==
    /\ run # "off"
    /\ BeginShutdown
    /\ UNCHANGED restartArmed

(* pluginManager.stop settles, or throws and is logged. *)
PluginsStopped ==
    /\ run # "off" /\ sdStage = "plugins"
    /\ pluginsOn' = FALSE
    /\ StopExtension
    /\ UNCHANGED <<run, schedOn, embedStopped, straggler, restartArmed, cfgFile, cfgBoot, cfgLive, cfgExt, earlyEdit, runs, edits>>
    /\ UNCHANGED initVars /\ UNCHANGED portVars

(* ext.onShutdown settles; one that throws half way stops nothing more.    *)
ExtensionStopped(ok) ==
    /\ run # "off" /\ sdStage = "ext"
    /\ schedOn' = IF ok THEN FALSE ELSE schedOn
    /\ embedStopped' = IF ok THEN TRUE ELSE embedStopped
    /\ straggler' = (straggler \/ ~ok)
    /\ CloseAll
    /\ UNCHANGED <<run, pluginsOn, restartArmed, cfgFile, cfgBoot, cfgLive, cfgExt, earlyEdit, runs, edits>>
    /\ UNCHANGED initVars /\ UNCHANGED portVars

(* The server has closed, or five seconds have passed. *)
ProcessExits ==
    /\ run # "off" /\ sdStage = "closed"
    /\ Exit
    /\ UNCHANGED <<sdStage, embedStopped, closes, straggler, cfgFile, cfgBoot, cfgLive, cfgExt, earlyEdit, runs, edits>>
    /\ UNCHANGED initVars /\ UNCHANGED portVars

(* kill -9 *)
Killed ==
    /\ run # "off" /\ Exit
    /\ UNCHANGED <<sdStage, embedStopped, closes, straggler, cfgFile, cfgBoot, cfgLive, cfgExt, earlyEdit, runs, edits>>
    /\ UNCHANGED initVars /\ UNCHANGED portVars

-----------------------------------------------------------------------------
(* POST /api/daemon/restart: one timer, however many requests. *)
RestartRequest ==
    /\ run = "listening" /\ sdStage # "closed" /\ ~restartArmed
    /\ restartArmed' = TRUE
    /\ UNCHANGED <<run, sdStage, runs>>
    /\ UNCHANGED initVars /\ UNCHANGED portVars /\ UNCHANGED timersOn /\ UNCHANGED cfgVars

(* shutdown('deferred-restart'), which does nothing while one is running.  *)
RestartActs ==
    \/ BeginShutdown
    \/ /\ ~MayShutDown
       /\ UNCHANGED <<run, sdStage, runs>> /\ UNCHANGED initVars /\ UNCHANGED portVars /\ UNCHANGED timersOn /\ UNCHANGED cfgVars

RestartFires ==
    /\ run # "off" /\ restartArmed /\ restartArmed' = FALSE
    /\ RestartActs

-----------------------------------------------------------------------------

(* The timer is started again by every event. *)
Debounced == debounce' = watchOn

(* The file is written; an editor may leave it invalid for a while. *)
EditFile(c) ==
    /\ edits < MaxEdits /\ edits' = edits + 1
    /\ c # cfgFile /\ cfgFile' = c
    /\ Debounced
    /\ UNCHANGED <<run, sdStage, restartArmed, cfgBoot, cfgLive, cfgExt, earlyEdit, runs>>
    /\ UNCHANGED initVars /\ UNCHANGED portVars /\ UNCHANGED timersOn

Applied == IF cfgFile = "invalid" THEN cfgLive ELSE cfgFile

(* loadAndApply: the extension's callback runs in the same turn. *)
LoadAndApply ==
    /\ cfgLive' = Applied
    /\ cfgExt' = IF cfgFile = "invalid" THEN cfgExt ELSE cfgFile
    /\ earlyEdit' = (earlyEdit \/ initStage = "no")
    /\ UNCHANGED <<run, sdStage, restartArmed, cfgFile, cfgBoot, runs, edits>>
    /\ UNCHANGED initVars /\ UNCHANGED portVars /\ UNCHANGED timersOn

DebounceFires == debounce /\ debounce' = FALSE /\ LoadAndApply

(* POST /api/config/reload *)
ReloadRequest == run = "listening" /\ sdStage # "closed" /\ LoadAndApply /\ UNCHANGED debounce

DaemonNext ==
    \/ Boot0 \/ BindFails \/ PortFreed \/ Listening \/ EmbedSettles \/ PluginsScanned \/ PollStarts
    \/ Signal \/ PluginsStopped \/ ProcessExits \/ Killed
    \/ RestartRequest \/ RestartFires \/ DebounceFires \/ ReloadRequest
    \/ \E ok \in BOOLEAN : InitEnds(ok) \/ ExtensionStopped(ok)
    \/ \E c \in Configs : EditFile(c)

(* Hooks settle and timers fire; nothing in the code bounds a hook. *)
StopProgress == PluginsStopped \/ (\E ok \in BOOLEAN : ExtensionStopped(ok)) \/ ProcessExits

-----------------------------------------------------------------------------
(* Nothing that reads the database on a timer outlives it: polls of        *)
(* workers, the config watcher and the scheduler, except the scheduler of  *)
(* an extension that is degraded, whose init ended during the shutdown or  *)
(* whose shutdown hook threw.                                              *)
ReadersStopFirst == run # "off" /\ ~dbOpen => ~polls /\ ~watchOn /\ (schedOn => degraded \/ straggler)

(* The teardown runs once per process, however signals, exceptions and the *)
(* restart timer race.                                                     *)
TeardownOnce == closes <= 1

(* A shutdown that began ends with the process, also when init is under    *)
(* way, in degraded mode and after a failed hook.                          *)
ShutdownEnds == (run # "off" /\ sdStage # "no") ~> (run = "off")

(* A restart that was answered with 202 takes place. *)
RestartHappens == restartArmed ~> (run = "off")

(* An invalid file is never live. *)
LiveIsValid == cfgLive # "invalid" /\ (run = "listening" /\ ~earlyEdit => cfgExt = cfgLive)

(* What was last written to the file is used, once it is valid, while the  *)
(* watcher runs.                                                           *)
ConfigCatchesUp ==
    \A c \in {"old", "new"} : (cfgFile = c /\ watchOn) ~> (cfgLive = c \/ cfgFile # c \/ ~watchOn)

(* The order of the teardown and the validity of the configuration. *)
DaemonIsSafe == ReadersStopFirst /\ TeardownOnce /\ LiveIsValid

(* The daemon stops when it is told to, tears down once and in order, and  *)
(* runs with the last valid configuration.                                 *)
DaemonObeys ==
    /\ DaemonIsSafe /\ [][DaemonIsSafe']_daemonVars
    /\ ShutdownEnds /\ RestartHappens /\ ConfigCatchesUp
=============================================================================
