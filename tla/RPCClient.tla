------------------------------ MODULE RPCClient ------------------------------
(***************************************************************************)
(* A request to the secret service, step by step: SecretManager.cpp hands  *)
(* a function to RPCClient::performRequest, which runs it on a thread of   *)
(* its own and joins that thread.  The function sends the request, waits   *)
(* for its answer without a timeout, and stores the outcome in variables   *)
(* of the caller.                                                          *)
(***************************************************************************)
EXTENDS AccountDefinitions

VARIABLES
    service,    \* px-secret-service: "up", "down", or "silent" for good
    store,      \* the items it holds
    caller,     \* performRequest: "idle", or in "join"
    thread,     \* the request thread; "broken": its connection was closed
    req,        \* the request: what is called, for which account and service
    message,    \* what became of the request
    succeeded,  \* performRequest's _isSucceed
    isSucceed,  \* the variable of that name in each SecretManager function
    found,      \* secretItems
    ok, items,  \* what the last call returned
    before      \* the store when the call began

clientVars == <<caller, thread, req, message, succeeded, isSucceed, found>>
requestVars == <<service, store, clientVars, ok, items, before>>

(* The functions that change nothing and, like search, do not return       *)
(* whether they succeeded.                                                 *)
Query == {"getSupportedAttributes", "getSupportedSchemas", "getSchemaKeys"}
RequestKind == {"setSecret", "removeService", "removeAccount", "search"} \cup Query
Item == Key \X Service

RequestTypeOK ==
    /\ service \in {"up", "down", "silent"}
    /\ store \subseteq Item /\ before \subseteq Item /\ found \subseteq Item /\ items \subseteq Item
    /\ caller \in {"idle", "join"}
    /\ thread \in {"none", "connect", "await", "broken", "done"}
    /\ req \in [kind : RequestKind, id : Key, s : Service]
    /\ message \in {"none", "sent", "applied", "refused"}
    /\ succeeded \in BOOLEAN /\ isSucceed \in BOOLEAN /\ ok \in BOOLEAN

ClientInit ==
    /\ service \in {"up", "down"} /\ store = {} /\ before = {}
    /\ caller = "idle" /\ thread = "none" /\ message = "none"
    /\ req \in [kind : {"search"}, id : {NullId}, s : Service]
    /\ succeeded = FALSE /\ isSucceed = FALSE /\ found = {} /\ ok = FALSE /\ items = {}

ofAccount(id) == {x \in store : x[1] = id}

(* The store after a request has been applied to it. *)
applied ==
    CASE req.kind = "setSecret"     -> store \cup {<<req.id, req.s>>}
      [] req.kind = "removeService" -> store \ {<<req.id, req.s>>}
      [] req.kind = "removeAccount" -> store \ ofAccount(req.id)
      [] OTHER                      -> store
-----------------------------------------------------------------------------
(* The calling thread. *)

Call ==
    /\ caller = "idle" /\ caller' = "join"
    /\ req' \in [kind : RequestKind, id : Key, s : Service]
    /\ thread' = "connect" /\ message' = "none"
    /\ succeeded' = FALSE /\ isSucceed' = FALSE /\ found' = {}
    /\ before' = store
    /\ UNCHANGED <<service, store, ok, items>>

MutantDetach == UNCHANGED thread
join == thread = "done" /\ thread' = "none"

MutantConnectedOnly == succeeded
returned == succeeded /\ isSucceed

Return ==
    /\ caller = "join" /\ join
    /\ caller' = "idle"
    /\ ok' = returned /\ items' = found
    /\ UNCHANGED <<service, store, req, message, succeeded, isSucceed, found, before>>
-----------------------------------------------------------------------------
(* The request thread. *)

Connect ==
    /\ thread = "connect" /\ service # "down"
    /\ thread' = "await" /\ message' = "sent"
    /\ UNCHANGED <<service, store, caller, req, succeeded, isSucceed, found, ok, items, before>>

(* The kj::Exception of a failed connect() is caught on the thread. *)
MutantRetry == "connect"
notConnected == "done"

ConnectFails ==
    /\ thread = "connect" /\ service = "down"
    /\ thread' = notConnected
    /\ UNCHANGED <<service, store, caller, req, message, succeeded, isSucceed, found, ok, items, before>>

(* The functions given to then(): the first, or for a query or a search    *)
(* that the service turns down the second.                                 *)
OnResult ==
    /\ thread = "await" /\ message \in {"applied", "refused"}
    /\ thread' = "done" /\ succeeded' = TRUE
    /\ isSucceed' = (message = "applied" \/ req.kind = "search")
    /\ found' = IF req.kind = "search" /\ message = "applied" THEN ofAccount(req.id) ELSE {}
    /\ UNCHANGED <<service, store, caller, req, message, ok, items, before>>

(* The second: the connection was closed before the answer came.  That of  *)
(* search sets isSucceed all the same.                                     *)
OnException ==
    /\ thread = "broken"
    /\ thread' = "done" /\ succeeded' = TRUE
    /\ isSucceed' = (req.kind = "search")
    /\ UNCHANGED <<service, store, caller, req, message, found, ok, items, before>>
-----------------------------------------------------------------------------
(* The secret service. *)

received == service = "up" /\ thread = "await" /\ message = "sent"

Apply ==
    /\ received
    /\ store' = applied /\ message' = "applied"
    /\ UNCHANGED <<service, caller, thread, req, succeeded, isSucceed, found, ok, items, before>>

Turndown ==
    /\ received
    /\ message' = "refused"
    /\ UNCHANGED <<service, store, caller, thread, req, succeeded, isSucceed, found, ok, items, before>>

(* It may go down with a request applied and not answered; its connections *)
(* close, what it holds stays.                                             *)
ServiceGoesDown ==
    /\ service # "down" /\ service' = "down"
    /\ thread' = IF thread = "await" THEN "broken" ELSE thread
    /\ UNCHANGED <<store, caller, req, message, succeeded, isSucceed, found, ok, items, before>>

ServiceComesUp == service = "down" /\ service' = "up" /\ UNCHANGED <<store, clientVars, ok, items, before>>

Hang == service = "up" /\ service' = "silent" /\ UNCHANGED <<store, clientVars, ok, items, before>>

RequestThread == Connect \/ ConnectFails \/ OnResult \/ OnException
SecretService == Apply \/ Turndown

ClientNext == Call \/ Return \/ RequestThread \/ SecretService \/ ServiceGoesDown \/ ServiceComesUp \/ Hang

(* Both threads run, and the service gets to the requests it has received  *)
(* unless it goes down or hangs.                                           *)
ClientSpec ==
    /\ ClientInit /\ [][ClientNext]_requestVars
    /\ WF_requestVars(Return) /\ WF_requestVars(RequestThread) /\ WF_requestVars(SecretService)
-----------------------------------------------------------------------------
(* For the caller the store changes when its call returns. *)
storeOfCaller == IF caller = "idle" THEN store ELSE before

Atomic == INSTANCE SecretManager WITH secrets <- storeOfCaller

Requested(id, s) ==
    CASE req.kind = "setSecret"     -> Atomic!setSecret(id, s, ok')
      [] req.kind = "removeService" -> Atomic!removeService(id, s, ok')
      [] req.kind = "removeAccount" -> Atomic!removeAccount(id, ok')
      [] OTHER                      -> UNCHANGED storeOfCaller

(* To its caller, a call is the one step that the module SecretManager,    *)
(* and with it the model of the account manager, makes of it: true means   *)
(* applied, false may mean either, and a search that fails finds nothing   *)
(* (performRequest and the functions of SecretManager that use it).        *)
ImplementsRequest ==
    [][IF caller' = "idle"
       THEN Requested(req.id, req.s) /\ items' \in {{}, ofAccount(req.id)}
       ELSE UNCHANGED storeOfCaller]_<<caller, storeOfCaller>>

(* No request thread runs outside of a call: what it writes to are the     *)
(* variables of that call (the join in performRequest).                    *)
ThreadWithinCall == caller = "idle" => thread = "none"

(* A call returns, unless the service hangs: it is refused the connection, *)
(* gets its answer, or sees the connection closed.                         *)
CallReturns == caller = "join" ~> caller = "idle" \/ service = "silent"
=============================================================================
