--------------------------- MODULE PluginManager ---------------------------
(***************************************************************************)
(* The plugins registered at start-up and the data that plugins with       *)
(* `write`/`remove` methods keep on behalf of account services             *)
(* (Plugins/PluginManager.cpp and the two plugin containers).              *)
(***************************************************************************)
EXTENDS AccountDefinitions

CONSTANTS
    CustomServices,     \* services whose plugin has its own write/read/remove
    TokenServices,      \* services whose plugin returns a token to be saved
    AutoInit,           \* services whose plugin sets auto_init
    MaxCount            \* max_count of each service's plugin; negative: no limit

ASSUME PluginAssumption ==
    /\ CustomServices \subseteq Service
    /\ TokenServices \subseteq Service
    /\ AutoInit \subseteq Service
    /\ MaxCount \in [Service -> Int]

VARIABLES
    plugins,    \* _plugins: the services some initiated plugin serves
    pdata       \* plugin ids under which a plugin holds data

pluginVars == <<plugins, pdata>>

PluginTypeOK == plugins \subseteq Service /\ pdata \subseteq PluginId

PluginInit == plugins = {} /\ pdata = {}

(* PluginManager::Init: a plugin whose module or library cannot be loaded  *)
(* is skipped.                                                             *)
initPlugins ==
    /\ plugins' \in IF "unload" \in Faults THEN SUBSET Service ELSE {Service}
    /\ UNCHANGED pdata

(* Ids no plugin stores data under and the account files `used` do not     *)
(* mention: any of them stands for one handed out for the first time.      *)
freshPids(used) == PluginId \ (pdata \cup used)

(* write(verifyResult, authResult): the plugin stores the service's data   *)
(* under a new id.                                                         *)
MutantWriteNothing(pid) == UNCHANGED pluginVars
pluginWrite(pid) == pdata' = pdata \cup {pid} /\ UNCHANGED plugins

(* remove(pluginId): answers whether there was anything to remove. *)
pluginRemove(pid) == pdata' = pdata \ {pid} /\ UNCHANGED plugins
=============================================================================
