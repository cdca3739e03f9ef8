------------------------------- MODULE MCParts -------------------------------
(***************************************************************************)
(* Instances of the components around the account manager, which do not    *)
(* share state with one another: start-up and its directories, logging,    *)
(* the event socket, the requests to the secret service, the loading of    *)
(* plugins and of providers.  A behaviour is one of one of these parts,    *)
(* chosen at first, while the others stay as they are.                     *)
(***************************************************************************)
EXTENDS Startup, Logger, EventSocket, RPCClient, PluginLoading, ProviderHandler

VARIABLE part

partsVars ==
    <<part, startupVars, loggerVars, socketVars, requestVars, loadingVars, providerVars>>
-----------------------------------------------------------------------------
(* Paths: one to be created, two in one directory, one in the home         *)
(* directory, one with a blank, relative ones of one and of two names.     *)
abs(s) == [from |-> "/", names |-> s]
relative(s) == [from |-> "", names |-> s]

MCPathName == {"tmp", "me", "rpc", "home", "a", "b", "c", "my dir", "my", ".", "share", "accounts"}
MCFirstWord == [n \in MCPathName |-> IF n = "my dir" THEN "my" ELSE n]
MCHomeNames == <<"home", "me">>
MCRpcPath == abs(<<"tmp", "me", "rpc">>)
MCUserPaths == {
    <<abs(<<"a", "b">>)>>,
    <<abs(<<"a", "b">>), abs(<<"a", "c">>)>>,
    <<[from |-> "~", names |-> <<"a">>]>>,
    <<abs(<<"home", "my dir", "a">>)>>,
    <<relative(<<"a">>)>>,
    <<relative(<<".", "a">>)>>}
MCReadonlyPaths == <<abs(<<"a", "c">>)>>
MCDataDirs == {abs(<<"a">>)}
MCDataNames == <<"share">>
MCServiceNames == <<"accounts">>
fresh == {Root, abs(<<"tmp">>), abs(<<"home">>), abs(<<"home", "me">>), relative(<<".">>)}
MCFirstDirs == {fresh, fresh \cup {abs(<<"a">>)}, fresh \cup prefixes(MCRpcPath)}
MCShared == prefixes(MCRpcPath)

(* Both plugin names lie in one python module, as two versions of one      *)
(* package do.                                                             *)
MCPackage2module == [n \in {1, 2} |-> 1]
file(n, t, y, s) == [name |-> n, title |-> t, type |-> y, state |-> s]
MCInfo ==
    {file(n, t, "python", "ok") : n \in {1, 2}, t \in {"t1", "t2"}}
        \cup {file(n, "t1", "cpp", "ok") : n \in {1, 2}}
        \cup {file(n, "t1", "python", "broken") : n \in {1, 2}}
        \cup {file(2, "t1", "cpp", "fatal")}
-----------------------------------------------------------------------------
(* A part that does not run stays in one of its initial states. *)
PartsInit ==
    /\ part \in {"startup", "logger", "socket", "request", "plugins", "providers"}
    /\ StartupInit
    /\ part # "startup" => dirs = fresh /\ ndebug = FALSE /\ userPaths = <<>> /\ xdg = <<>>
    /\ LoggerInit
    /\ SocketInit /\ (part # "socket" => reads = FALSE /\ up = FALSE)
    /\ ClientInit /\ (part # "request" => service = "down" /\ \A s \in Service : req.s <= s)
    /\ part = "plugins" \/ infoFiles = [p \in PluginPath |-> {}]
    /\ LoadingInit
    /\ part = "providers" \/ available = [d \in Directory |-> {}]
    /\ ProviderInit

PartsNext ==
    \/ /\ part = "startup" /\ StartupNext
       /\ UNCHANGED <<part, loggerVars, socketVars, requestVars, loadingVars, providerVars>>
    \/ /\ part = "logger" /\ LoggerNext
       /\ UNCHANGED <<part, startupVars, socketVars, requestVars, loadingVars, providerVars>>
    \/ /\ part = "socket" /\ SocketNext
       /\ UNCHANGED <<part, startupVars, loggerVars, requestVars, loadingVars, providerVars>>
    \/ /\ part = "request" /\ ClientNext
       /\ UNCHANGED <<part, startupVars, loggerVars, socketVars, loadingVars, providerVars>>
    \/ /\ part = "plugins" /\ LoadingNext
       /\ UNCHANGED <<part, startupVars, loggerVars, socketVars, requestVars, providerVars>>
    \/ /\ part = "providers" /\ ProviderNext
       /\ UNCHANGED <<part, startupVars, loggerVars, socketVars, requestVars, loadingVars>>

(* The fairness of each part's own specification, for the part that runs. *)
PartsSpec ==
    /\ PartsInit /\ [][PartsNext]_partsVars
    /\ WF_startupVars(part = "startup" /\ Main) /\ WF_startupVars(part = "startup" /\ Mkpath)
    /\ WF_socketVars(part = "socket" /\ Emitting) /\ WF_socketVars(part = "socket" /\ ComeUp)
    /\ \A c \in Conn :
          /\ WF_socketVars(part = "socket" /\ Redial(c))
          /\ WF_socketVars(part = "socket" /\ Receive(c))
    /\ WF_requestVars(part = "request" /\ Return)
    /\ WF_requestVars(part = "request" /\ RequestThread)
    /\ WF_requestVars(part = "request" /\ SecretService)
=============================================================================
