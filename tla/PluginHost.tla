----------------------------- MODULE PluginHost -----------------------------
(***************************************************************************)
(* The plugin manager: files are loaded, reloaded and unloaded by a scan,  *)
(* a file watcher and the extensions API.  A load awaits the old           *)
(* instance's shutdown, the import and the new instance's init, and loads  *)
(* of two files, or two loads of one, may overlap.  Routes stand for       *)
(* everything a plugin registers: the ones it declares, registered by the  *)
(* manager, and the ones its init registers itself.                        *)
(***************************************************************************)
EXTENDS Naturals

CONSTANTS
    Files,
    NameIn,        \* the name each file's plugin gives itself
    DeclaredIn,    \* routes it declares
    AddedIn,       \* routes its onInit registers by itself
    MaxOps         \* operations of the manager

Ops == 1 .. MaxOps
Names == {NameIn[f] : f \in Files} \cup Files    \* an early error goes by the file's name, and so does a name clash here

ASSUME PluginAssumption == MaxOps \in Nat \ {0} /\ "none" \notin Names

VARIABLES
    op,         \* op[i]: kind, file, stage, the object it tears down, the name it had,
                \* the routes registered before its init and those the init added
    object,     \* object[i]: the LoadedPlugin that operation i made: name, file, status, routes
    plugins,    \* _plugins: name -> object, 0 for none
    byFile,     \* _byFile: file -> name, or "none"
    registry,   \* the routes that are served
    alive,      \* objects whose instance was initialised and not shut down
    overlapped, \* two operations were under way at once
    spilled     \* an init failed after it had registered routes of its own

pluginVars == <<op, object, plugins, byFile, registry, alive, overlapped, spilled>>

NoOp == [kind |-> "none", file |-> "none", stage |-> "new", target |-> 0, prior |-> "none", before |-> {}, added |-> {}]
NoObject == [name |-> "none", file |-> "none", status |-> "none", routes |-> {}]

PluginInit ==
    /\ op = [i \in Ops |-> NoOp] /\ object = [i \in Ops |-> NoObject]
    /\ plugins = [n \in Names |-> 0] /\ byFile = [f \in Files |-> "none"]
    /\ registry = {} /\ alive = {} /\ overlapped = FALSE /\ spilled = FALSE

Active == {i \in Ops : op[i].stage \notin {"new", "done"}}
Stage(i, s) == op' = [op EXCEPT ![i].stage = s]

-----------------------------------------------------------------------------
(* Operation i starts: the instance of the file, if there is one, is told  *)
(* to shut down first.  An unload of something unknown does nothing.       *)
Begin(i, kind, f) ==
    LET target == IF byFile[f] = "none" THEN 0 ELSE plugins[byFile[f]] IN
    /\ op[i].stage = "new" /\ \A j \in Ops : j < i => op[j].stage # "new"
    /\ kind = "unload" => target # 0
    /\ op' = [op EXCEPT ![i] = [kind |-> kind, file |-> f, target |-> target, prior |-> byFile[f],
                                before |-> {}, added |-> {}, stage |-> IF target # 0 THEN "down" ELSE "import"]]
    /\ overlapped' = (overlapped \/ Active # {})
    /\ UNCHANGED <<object, plugins, byFile, registry, alive, spilled>>

(* What _teardown unregisters, whether or not the hook threw. *)
TornDown(t) == object[t].routes

\* Mutant: the hook is not called.
ShutDownNot(t) == {}

ShutDown(t) == {t}

DownMayEnd(i) == op[i].stage = "down"

(* onShutdown settled: _teardown goes on, and an unload is done with it.   *)
Teardown(i) ==
    LET t == op[i].target IN
    /\ DownMayEnd(i)
    /\ registry' = registry \ TornDown(t)
    /\ alive' = alive \ ShutDown(t)
    /\ object' = [object EXCEPT ![t].routes = {}]
    /\ \/ op[i].kind = "load" /\ Stage(i, "import") /\ UNCHANGED <<plugins, byFile>>
       \/ /\ op[i].kind = "unload" /\ Stage(i, "done")
          /\ plugins' = [plugins EXCEPT ![object[t].name] = 0]
          /\ byFile' = [byFile EXCEPT ![object[t].file] = "none"]
    /\ UNCHANGED <<overlapped, spilled>>

Record(i, name, status, routes) ==
    /\ object' = [object EXCEPT ![i] = [name |-> name, file |-> op[i].file, status |-> status, routes |-> routes]]
    /\ byFile' = [byFile EXCEPT ![op[i].file] = name]

(* _errorRecord replaces whatever the map holds under the name. *)
ErrorRecord(i, name) ==
    /\ Record(i, name, "error", {})
    /\ plugins' = [plugins EXCEPT ![name] = i]
    /\ Stage(i, "done")

PriorName(i) == IF op[i].prior = "none" THEN op[i].file ELSE op[i].prior

(* The file is gone, does not import or is no plugin. *)
ImportFails(i) ==
    /\ op[i].stage = "import"
    /\ ErrorRecord(i, PriorName(i))
    /\ UNCHANGED <<registry, alive, overlapped, spilled>>

(* The module is there: the name must not belong to another loaded file    *)
(* and every declared route must be free, else those of this load that     *)
(* were registered already are taken back.                                 *)
Imported(i) ==
    LET f == op[i].file
        holder == plugins[NameIn[f]]
        taken == holder # 0 /\ object[holder].file # f /\ object[holder].status = "loaded"
    IN
    /\ op[i].stage = "import"
    /\ \/ taken /\ ErrorRecord(i, f) /\ UNCHANGED registry
       \/ ~taken /\ DeclaredIn[f] \cap registry # {} /\ ErrorRecord(i, NameIn[f]) /\ UNCHANGED registry
       \/ /\ ~taken /\ DeclaredIn[f] \cap registry = {}
          /\ registry' = registry \cup DeclaredIn[f]
          /\ op' = [op EXCEPT ![i].stage = "init", ![i].before = registry']
          /\ UNCHANGED <<object, plugins, byFile>>
    /\ UNCHANGED <<alive, overlapped, spilled>>

(* onInit registers a route of its own; a duplicate throws. *)
InitAdds(i, r) ==
    /\ op[i].stage = "init" /\ r \in AddedIn[op[i].file] \ registry
    /\ registry' = registry \cup {r}
    /\ op' = [op EXCEPT ![i].added = @ \cup {r}]
    /\ UNCHANGED <<object, plugins, byFile, alive, overlapped, spilled>>

(* onInit throws: only what the manager registered is rolled back. *)
InitThrows(i) ==
    /\ op[i].stage = "init"
    /\ registry' = registry \ DeclaredIn[op[i].file]
    /\ spilled' = (spilled \/ op[i].added # {})
    /\ ErrorRecord(i, NameIn[op[i].file])
    /\ UNCHANGED <<alive, overlapped>>

(* Routes that appeared since the snapshot count as this plugin's. *)
RecordedRoutes(i) == DeclaredIn[op[i].file] \cup (registry \ op[i].before)

(* onInit settled, every route of its own registered. *)
Loaded(i) ==
    LET name == NameIn[op[i].file] IN
    /\ op[i].stage = "init" /\ op[i].added = AddedIn[op[i].file]
    /\ Record(i, name, "loaded", RecordedRoutes(i))
    /\ plugins' = [n \in Names |-> IF n = name THEN i ELSE IF n = op[i].prior THEN 0 ELSE plugins[n]]
    /\ alive' = alive \cup {i} /\ Stage(i, "done")
    /\ UNCHANGED <<registry, overlapped, spilled>>

(* Hooks and imports settle. *)
OpProgress(i) == Teardown(i) \/ Imported(i) \/ ImportFails(i) \/ InitThrows(i) \/ Loaded(i)

PluginNext ==
    \E i \in Ops :
        \/ OpProgress(i)
        \/ \E f \in Files, kind \in {"load", "unload"} : Begin(i, kind, f)
        \/ \E r \in registry \cup UNION {AddedIn[f] : f \in Files} : InitAdds(i, r)

-----------------------------------------------------------------------------
Listed == UNION {object[plugins[n]].routes : n \in {m \in Names : plugins[m] # 0}}
Loading == UNION {DeclaredIn[op[i].file] \cup AddedIn[op[i].file] : i \in {j \in Ops : op[j].stage = "init"}}

(* As long as no two operations overlap and no init fails after it         *)
(* registered routes itself, the routes that are served are exactly those  *)
(* of the loaded plugins: nothing leaks and nothing is taken from another  *)
(* plugin, through reloads, errors, name clashes and renames.              *)
RoutesAreOwned ==
    ~overlapped /\ ~spilled => Listed \subseteq registry /\ registry \subseteq Listed \cup Loading

(* Without overlap an instance is shut down before its file gets another,  *)
(* so no two instances of one file run.                                    *)
OneInstancePerFile ==
    ~overlapped => \A i, j \in alive : object[i].file = object[j].file => i = j

(* Every operation ends with a record, in any overlap: there are MaxOps of *)
(* them and none is started twice, so each has ended when none is active.  *)
LoadEnds == (Active # {}) ~> (Active = {})

(* Plugins come and go whole: their routes and instances are those of the  *)
(* loaded files, and every operation ends.                                 *)
PluginsComeAndGo ==
    /\ RoutesAreOwned /\ OneInstancePerFile
    /\ [][RoutesAreOwned' /\ OneInstancePerFile']_pluginVars
    /\ LoadEnds
=============================================================================
