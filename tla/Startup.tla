------------------------------- MODULE Startup -------------------------------
(***************************************************************************)
(* main() up to the loop it ends in (main.cpp), as far as directories and  *)
(* the environment decide how it goes: the directory of the RPC sockets,   *)
(* the account directories that AccountManager::Init hands to the parsers, *)
(* and the server thread that binds its socket.  Plugins are the module    *)
(* PluginLoading's, the creation of accounts AccountManager's.             *)
(***************************************************************************)
EXTENDS AccountUtils

CONSTANTS
    RpcPath,        \* rpcBasePath
    UserPaths,      \* values of --user-account-dir, one or more
    ReadonlyPaths,  \* values of --readonly-account-dir
    DataDirs,       \* values of XDG_DATA_HOME
    DataNames,      \* the names of .local/share
    ServiceNames,   \* and of px-accounts-service/accounts
    FirstDirs       \* the directories there may be at first

ASSUME StartupAssumption ==
    /\ RpcPath \in Path /\ DataDirs \subseteq Path
    /\ UserPaths \subseteq Seq(Path) /\ ReadonlyPaths \in Seq(Path)
    /\ DataNames \in Seq(PathName) /\ ServiceNames \in Seq(PathName)
    /\ \A D \in FirstDirs : Root \in D /\ D \subseteq Path /\ closed(D)

VARIABLES
    ndebug,         \* a build without assertions, as build systems' release types are
    userPaths,      \* userAccountPaths
    xdg,            \* the environment's XDG_DATA_HOME: <<>> unset, <<{}>> empty, <<{p}>>
    parsers,        \* the parsers AccountManager::Init has yet to construct
    phase

startupVars == <<dirs, goal, cur, mk, ndebug, userPaths, xdg, parsers, phase>>
settings == <<ndebug, userPaths, xdg>>

Phase == {"rpc", "options", "accounts", "listen", "serve", "dead"}

StartupTypeOK ==
    /\ PathTypeOK
    /\ ndebug \in BOOLEAN
    /\ userPaths \in Seq(Path)
    /\ xdg \in {<<>>, <<{}>>} \cup {<<{d}>> : d \in DataDirs}
    /\ parsers \in Seq([path : Path, isReadOnly : BOOLEAN])
    /\ phase \in Phase

StartupInit ==
    /\ dirs \in FirstDirs /\ goal = Root /\ cur = Root /\ mk = "idle"
    /\ ndebug \in BOOLEAN
    /\ userPaths \in UserPaths \cup {<<>>}
    /\ xdg \in {<<>>, <<{}>>} \cup {<<{d}>> : d \in DataDirs}
    /\ parsers = <<>> /\ phase = "rpc"
-----------------------------------------------------------------------------
(* assert(mkpath(rpcBasePath)): the call goes with the assertion.          *)
RpcDirectory ==
    /\ phase = "rpc" /\ mk = "idle"
    /\ IF ndebug
       THEN phase' = "options" /\ UNCHANGED pathVars
       ELSE mkpath(RpcPath) /\ UNCHANGED phase
    /\ UNCHANGED <<settings, parsers>>

RpcDirectoryMade ==
    /\ phase = "rpc" /\ mk \in {"true", "false", "overflow"}
    /\ phase' = IF mk = "true" THEN "options" ELSE "dead"
    /\ mkpathReturns /\ UNCHANGED <<settings, parsers>>

(* The directory used when no option names one; a string made of the null  *)
(* pointer that getenv returns for an unset variable throws.               *)
defaultPath ==
    LET dataDir == IF xdg[1] = {} THEN abspath([from |-> "~", names |-> DataNames])
                                  ELSE CHOOSE d \in xdg[1] : TRUE
    IN [from |-> dataDir.from, names |-> dataDir.names \o ServiceNames]

parser(p, readonly) == [path |-> p, isReadOnly |-> readonly]

(* AccountManager::Init computes the absolute path of each directory and   *)
(* passes on the one it was given.                                         *)
MutantLastOnly(ps) == <<parser(ps[Len(ps)], FALSE)>>
userParsers(ps) == [i \in DOMAIN ps |-> parser(ps[i], FALSE)]

Options ==
    /\ phase = "options"
    /\ IF userPaths = <<>> /\ xdg = <<>>
       THEN phase' = "dead" /\ UNCHANGED <<parsers, userPaths>>
       ELSE /\ userPaths' = IF userPaths = <<>> THEN <<defaultPath>> ELSE userPaths
            /\ parsers' = userParsers(userPaths') \o [i \in DOMAIN ReadonlyPaths |-> parser(ReadonlyPaths[i], TRUE)]
            /\ phase' = "accounts"
    /\ UNCHANGED <<pathVars, ndebug, xdg>>

(* AccountParser's constructor: a directory to write to is made if it does *)
(* not exist, and nobody looks at how that went.                           *)
ConstructParser ==
    /\ phase = "accounts" /\ mk = "idle" /\ parsers # <<>>
    /\ parsers' = Tail(parsers)
    /\ IF ~exists(Head(parsers).path) /\ ~Head(parsers).isReadOnly
       THEN mkpath(Head(parsers).path)
       ELSE UNCHANGED pathVars
    /\ UNCHANGED <<settings, phase>>

ParserConstructed ==
    /\ phase = "accounts" /\ mk \in {"true", "false", "overflow"}
    /\ phase' = IF mk = "overflow" THEN "dead" ELSE phase
    /\ mkpathReturns /\ UNCHANGED <<settings, parsers>>

AccountsReady ==
    /\ phase = "accounts" /\ mk = "idle" /\ parsers = <<>>
    /\ phase' = "listen"
    /\ UNCHANGED <<pathVars, settings, parsers>>

(* The server thread binds a socket in the RPC directory; the exception    *)
(* when it cannot leaves the thread.                                       *)
Listen ==
    /\ phase = "listen"
    /\ phase' = IF exists(RpcPath) THEN "serve" ELSE "dead"
    /\ UNCHANGED <<pathVars, settings, parsers>>

Mkpath == (Descend \/ Make \/ MakeFails) /\ UNCHANGED <<settings, parsers, phase>>

Main ==
    \/ RpcDirectory \/ RpcDirectoryMade \/ Options \/ ConstructParser \/ ParserConstructed
    \/ AccountsReady \/ Listen

StartupNext == Main \/ Mkpath \/ (OthersMake /\ UNCHANGED <<settings, parsers, phase>>)

StartupSpec ==
    /\ StartupInit /\ [][StartupNext]_startupVars
    /\ WF_startupVars(Main) /\ WF_startupVars(Mkpath)
-----------------------------------------------------------------------------
(* A path that wordexp leaves as it is, and on which only the service      *)
(* makes directories.                                                      *)
plain(p) == p.from = "/" /\ wordexp(p.names) = p.names /\ prefixes(p) \cap Shared = {}

(* When the service takes requests, each directory it was told to write to *)
(* by a plain absolute path, or that it chose itself, is there, unless     *)
(* making it failed (AccountManager::Init, AccountParser's constructor).   *)
PlainDirsMade ==
    phase \in {"listen", "serve"} /\ ~MkdirFails =>
        \A i \in DOMAIN userPaths : plain(userPaths[i]) => exists(userPaths[i])
-----------------------------------------------------------------------------
(* main.cpp, --user-account-dir: "path for account files to read/write".   *)
(* When the service takes requests, each path given for account files      *)
(* names a directory it can write them to.                                 *)
UserDirsUsable ==
    phase = "serve" /\ ~MkdirFails => \A i \in DOMAIN userPaths : exists(userPaths[i])
=============================================================================
