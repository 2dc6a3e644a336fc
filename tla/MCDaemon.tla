------------------------------ MODULE MCDaemon ------------------------------
(* The embedding worker, the database file and its migrations, the daemon  *)
(* process and its configuration, and the plugin host: they share no       *)
(* state.  A behaviour of this module is a behaviour of the one that part  *)
(* names.                                                                  *)
EXTENDS EmbedWorker, DaemonStorage, DaemonLifecycle, PluginHost, TLC

CONSTANTS m1, m2a, m2b, m3

(* Two migration files claim one version. *)
Versions == m1 :> 1 @@ m2a :> 2 @@ m2b :> 2 @@ m3 :> 3

(* Two files whose plugins have one name and one route, and routes that    *)
(* two plugins add themselves.                                             *)
PluginNames == "f" :> "p" @@ "g" :> "p" @@ "h" :> "q"
PluginRoutes == "f" :> {"x"} @@ "g" :> {"x"} @@ "h" :> {"z"}
PluginOwnRoutes == "f" :> {"y"} @@ "g" :> {} @@ "h" :> {"y"}

VARIABLE part
vars == <<embedVars, storageVars, daemonVars, pluginVars, part>>

Init ==
    /\ part \in {"embed", "storage", "daemon", "plugins"}
    /\ EmbedInit /\ StorageInit /\ DaemonInit /\ PluginInit
    /\ part = "storage" \/ (oldDb = "none" /\ installed = {})
    /\ part = "daemon" \/ ~portBusy

OnlyEmbed == part = "embed" /\ UNCHANGED <<storageVars, daemonVars, pluginVars, part>>
OnlyStorage == part = "storage" /\ UNCHANGED <<embedVars, daemonVars, pluginVars, part>>
OnlyDaemon == part = "daemon" /\ UNCHANGED <<embedVars, storageVars, pluginVars, part>>
OnlyPlugins == part = "plugins" /\ UNCHANGED <<embedVars, storageVars, daemonVars, part>>

Next ==
    \/ OnlyEmbed /\ EmbedNext
    \/ OnlyStorage /\ StorageNext
    \/ OnlyDaemon /\ DaemonNext
    \/ OnlyPlugins /\ PluginNext

Fairness ==
    /\ WF_vars(OnlyEmbed /\ SomeTimeout) /\ WF_vars(OnlyEmbed /\ SomeRestart) /\ WF_vars(OnlyEmbed /\ SendErrors)
    /\ WF_vars(OnlyDaemon /\ StopProgress) /\ WF_vars(OnlyDaemon /\ RestartFires)
    /\ WF_vars(OnlyDaemon /\ DebounceFires)
    /\ \A i \in Ops : WF_vars(OnlyPlugins /\ OpProgress(i))

Spec == Init /\ [][Next]_vars /\ Fairness
=============================================================================
