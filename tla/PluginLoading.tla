---------------------------- MODULE PluginLoading ----------------------------
(***************************************************************************)
(* How PluginManager's constructor finds the plugins: it reads the         *)
(* information files of one path after the other, in the order in which    *)
(* the file system lists them, keeps the last one read of each name, and   *)
(* initiates what it kept in the order of the names.  What comes out is    *)
(* the set `plugins` of the module PluginManager, and which plugin serves  *)
(* each title.                                                             *)
(***************************************************************************)
EXTENDS Naturals

CONSTANTS
    PluginPath, \* the plugin paths, numbered: those given, then PLUGIN_PATH's
    Name,       \* plugin names, numbered in the order std::map keeps them
    Title,
    Info,       \* the information files there may be
    package2module,     \* the python module a plugin of each name is in
    Unreadable, \* an information file without YAML, or a key, or a known type
    Missing,    \* no container, no module
    MaxFiles    \* a bound: information files per path

(***************************************************************************)
(* "ok"     the plugin initiates and has a title                           *)
(* "broken" its module cannot be imported, or its library not be opened    *)
(* "fatal"  it initiates, but has no title to give: a library without      *)
(*          allocator or deleter, a python title that is not a string      *)
(***************************************************************************)
ASSUME LoadingAssumption ==
    /\ PluginPath \subseteq Nat /\ Name \subseteq Nat \ {0} /\ MaxFiles \in Nat \ {0}
    /\ DOMAIN package2module = Name
    /\ Info \subseteq [name : Name, title : Title, type : {"python", "cpp"},
                       state : {"ok", "broken", "fatal"}]
    /\ Missing \notin Info /\ Unreadable \notin Info

VARIABLES
    infoFiles,  \* the information files in each path
    path,       \* the path being read
    unread,     \* its files that dirfiles has yet to list
    kept,       \* the constructor's map from names to containers
    stage,      \* "read", "init", "done", or "dead" when the process ended
    uninited,   \* the names initPlugins has yet to visit
    imported,   \* the plugin whose module python has under each module name
    loaded      \* _plugins: the name of the container of each title, or 0

loadingVars == <<infoFiles, path, unread, kept, stage, uninited, imported, loaded>>

Module == {package2module[n] : n \in Name}

LoadingTypeOK ==
    /\ infoFiles \in [PluginPath -> SUBSET (Info \cup {Unreadable})]
    /\ path \in PluginPath /\ unread \subseteq Info \cup {Unreadable}
    /\ kept \in [Name -> Info \cup {Missing}]
    /\ stage \in {"read", "init", "done", "dead"}
    /\ uninited \subseteq Name
    /\ imported \in [Module -> Info \cup {Missing}]
    /\ loaded \in [Title -> Name \cup {0}]

PathContents ==
    {{}} \cup {{f[i] : i \in 1 .. MaxFiles} : f \in [1 .. MaxFiles -> Info \cup {Unreadable}]}

LoadingInit ==
    /\ infoFiles \in [PluginPath -> PathContents]
    /\ path \in PluginPath /\ (\A p \in PluginPath : path <= p) /\ unread = infoFiles[path]
    /\ kept = [n \in Name |-> Missing] /\ stage = "read" /\ uninited = {}
    /\ imported = [m \in Module |-> Missing] /\ loaded = [t \in Title |-> 0]
-----------------------------------------------------------------------------
(* readPathPlugins and CreateContainer: a file that yields no container is *)
(* passed over.                                                            *)
MutantKeepFirst(f) == IF kept[f.name] = Missing THEN [kept EXCEPT ![f.name] = f] ELSE kept
keep(f) == [kept EXCEPT ![f.name] = f]

ReadFile ==
    /\ stage = "read"
    /\ \E f \in unread :
          /\ unread' = unread \ {f}
          /\ kept' = IF f = Unreadable THEN kept ELSE keep(f)
    /\ UNCHANGED <<infoFiles, path, stage, uninited, imported, loaded>>

NextPath ==
    /\ stage = "read" /\ unread = {}
    /\ \E p \in PluginPath :
          /\ p > path /\ \A q \in PluginPath : q > path => p <= q
          /\ path' = p /\ unread' = infoFiles[p]
    /\ UNCHANGED <<infoFiles, kept, stage, uninited, imported, loaded>>

AllRead ==
    /\ stage = "read" /\ unread = {} /\ \A p \in PluginPath : p <= path
    /\ stage' = "init" /\ uninited' = {n \in Name : kept[n] # Missing}
    /\ UNCHANGED <<infoFiles, path, unread, kept, imported, loaded>>
-----------------------------------------------------------------------------
(* initPlugins, one name after the other. *)
IsNext(n) == n \in uninited /\ \A m \in uninited : n <= m

(* What a plugin runs: import_module gives a module that was imported      *)
(* before under the same name, whatever path it came from.                 *)
effective(f) ==
    IF f.type = "python" /\ imported[package2module[f.name]] # Missing
    THEN imported[package2module[f.name]] ELSE f

InitFails ==
    /\ stage = "init"
    /\ \E n \in Name :
          /\ IsNext(n) /\ effective(kept[n]).state = "broken"
          /\ uninited' = uninited \ {n}
    /\ UNCHANGED <<infoFiles, path, unread, kept, stage, imported, loaded>>

(* PluginContainerPython::init imports, DLLoader::DLOpenLib opens. *)
import(f) ==
    IF f.type = "python" THEN [imported EXCEPT ![package2module[f.name]] = effective(f)] ELSE imported

InitWorks ==
    /\ stage = "init"
    /\ \E n \in Name :
          /\ IsNext(n) /\ effective(kept[n]).state = "ok"
          /\ uninited' = uninited \ {n}
          /\ imported' = import(kept[n])
          /\ loaded' = [loaded EXCEPT ![effective(kept[n]).title] = n]
    /\ UNCHANGED <<infoFiles, path, unread, kept, stage>>

(* getTitle dereferences the null instance, or lets the exception of the   *)
(* cast out; nothing above catches it.                                     *)
TitleFails ==
    /\ stage = "init"
    /\ \E n \in Name : IsNext(n) /\ effective(kept[n]).state = "fatal"
    /\ stage' = "dead"
    /\ UNCHANGED <<infoFiles, path, unread, kept, uninited, imported, loaded>>

AllInited ==
    /\ stage = "init" /\ uninited = {}
    /\ stage' = "done"
    /\ UNCHANGED <<infoFiles, path, unread, kept, uninited, imported, loaded>>

LoadingNext == ReadFile \/ NextPath \/ AllRead \/ InitFails \/ InitWorks \/ TitleFails \/ AllInited

LoadingSpec == LoadingInit /\ [][LoadingNext]_loadingVars
-----------------------------------------------------------------------------
(* What the paths say should be loaded, without the loops. *)

IsMax(x, S) == x \in S /\ \A y \in S : y <= x

(* The information file that counts for a name: that of the last path with *)
(* one.                                                                    *)
having(n) == {p \in PluginPath : \E g \in infoFiles[p] \ {Unreadable} : g.name = n}
infos(n) ==
    {f \in Info : f.name = n /\ \E p \in PluginPath : IsMax(p, having(n)) /\ f \in infoFiles[p]}

(* The first name, in order, whose plugin brings the module of this one.   *)
source(f) ==
    IF f.type = "cpp" THEN f
    ELSE LET same == {g \in UNION {infos(n) : n \in Name} :
                        /\ g.type = "python" /\ g.state = "ok" /\ g.name <= f.name
                        /\ package2module[g.name] = package2module[f.name]}
         IN IF same = {} THEN f ELSE CHOOSE g \in same : \A h \in same : g.name <= h.name

serving(t) == {n \in Name : \E f \in infos(n) : source(f).state = "ok" /\ source(f).title = t}

UniqueNames ==
    \A p \in PluginPath : \A f, g \in infoFiles[p] \ {Unreadable} : f.name = g.name => f = g

(* When no path has two information files of one name, the order in which  *)
(* the file system lists them plays no part: a title is served by the last *)
(* name whose counting plugin runs and has it, and only a plugin that      *)
(* counts can end the process (PluginManager's constructor, initPlugins).  *)
LoadedAsFound ==
    UniqueNames =>
        /\ stage = "done" => \A t \in Title : IF serving(t) = {} THEN loaded[t] = 0
                                                                 ELSE IsMax(loaded[t], serving(t))
        /\ stage = "dead" => \E n \in Name : \E f \in infos(n) : source(f).state = "fatal"
=============================================================================
