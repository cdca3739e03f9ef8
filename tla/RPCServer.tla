----------------------------- MODULE RPCServer ------------------------------
(***************************************************************************)
(* The RPC server's own life cycle (RPCServer.h): one thread, the owner,   *)
(* starts, stops, restarts and destroys the server; the thread it starts   *)
(* listens, polls and answers.  They share the flag isRunning, a plain     *)
(* bool: the loop calls code the compiler does not see, so each of its     *)
(* accesses is taken to happen, one at a time, in program order.           *)
(***************************************************************************)
CONSTANT Client

VARIABLES
    patient,        \* the owner calls nothing while a start is under way
    unix,           \* isunix(address), as main.cpp has it
    owner,          \* what the owner does next
    after,          \* where stop() returns to
    thread,         \* tServer and where its thread is; "none": not joinable
    isRunning,
    socketFile,     \* the unix socket's file exists
    conn            \* what each client waits for

setting == <<patient, unix>>
ownerVars == <<setting, owner, after>>
serverVars == <<patient, unix, owner, after, thread, isRunning, socketFile, conn>>

OwnerStep == {"idle", "stop", "clear", "join", "start", "spawn", "destroy", "gone", "terminated"}
ThreadStep == {"none", "setup", "announce", "check", "poll", "done"}

ServerTypeOK ==
    /\ patient \in BOOLEAN /\ unix \in BOOLEAN
    /\ owner \in OwnerStep
    /\ after \in {"idle", "start", "destroy"}
    /\ thread \in ThreadStep
    /\ isRunning \in BOOLEAN /\ socketFile \in BOOLEAN
    /\ conn \in [Client -> {"idle", "sent", "answered", "cut"}]

listening == thread \in {"announce", "check", "poll"}

(* The constructor removes a socket file that an earlier process left. *)
ServerInit ==
    /\ patient \in BOOLEAN /\ unix \in BOOLEAN
    /\ owner = "idle" /\ after = "idle" /\ thread = "none"
    /\ isRunning = FALSE /\ socketFile = FALSE
    /\ conn = [c \in Client |-> "idle"]

(* The server's connections, and the requests on them, when it goes away. *)
MutantLeaveOpen == UNCHANGED conn
cutAll == conn' = [c \in Client |-> IF conn[c] = "sent" THEN "cut" ELSE conn[c]]

(* std::terminate ends the process. *)
Abort ==
    /\ owner' = "terminated" /\ thread' = "none" /\ isRunning' = FALSE
    /\ cutAll /\ UNCHANGED <<setting, after, socketFile>>
-----------------------------------------------------------------------------
(* The owner. *)

mayCall == owner = "idle" /\ (patient => thread = "none" \/ isRunning)

CallStart == mayCall /\ owner' = "start" /\ UNCHANGED <<setting, after, thread, isRunning, socketFile, conn>>

CallStop ==
    /\ mayCall
    /\ owner' = "stop" /\ after' \in {"idle", "start", "destroy"}
    /\ UNCHANGED <<setting, thread, isRunning, socketFile, conn>>

StopTest ==
    /\ owner = "stop"
    /\ owner' = IF isRunning THEN "clear" ELSE after
    /\ UNCHANGED <<setting, after, thread, isRunning, socketFile, conn>>

MutantClearNothing == UNCHANGED isRunning
clearRunning == isRunning' = FALSE

StopClear ==
    /\ owner = "clear" /\ owner' = "join"
    /\ clearRunning
    /\ UNCHANGED <<setting, after, thread, socketFile, conn>>

MutantNoJoin == UNCHANGED thread
joinThread == thread = "done" /\ thread' = "none"

StopJoin ==
    /\ owner = "join" /\ owner' = after
    /\ joinThread
    /\ UNCHANGED <<setting, after, isRunning, socketFile, conn>>

MutantStartAlways == TRUE
startTest == ~isRunning

StartTest ==
    /\ owner = "start"
    /\ owner' = IF startTest THEN "spawn" ELSE "idle"
    /\ UNCHANGED <<setting, after, thread, isRunning, socketFile, conn>>

(* Assigning to a joinable std::thread, or destroying one, terminates. *)
Spawn ==
    /\ owner = "spawn"
    /\ IF thread = "none"
       THEN owner' = "idle" /\ thread' = "setup" /\ UNCHANGED <<setting, after, isRunning, socketFile, conn>>
       ELSE Abort

Destroy ==
    /\ owner = "destroy"
    /\ IF thread = "none"
       THEN owner' = "gone" /\ UNCHANGED <<setting, after, thread, isRunning, socketFile, conn>>
       ELSE Abort
-----------------------------------------------------------------------------
(* The server thread.  A unix socket cannot be bound while its file        *)
(* exists, nothing removes the file when the listener closes, and nothing  *)
(* in the thread catches the exception.                                    *)
Listen ==
    /\ thread = "setup"
    /\ IF socketFile
       THEN Abort
       ELSE /\ thread' = "announce" /\ socketFile' = unix
            /\ UNCHANGED <<ownerVars, isRunning, conn>>

Announce ==
    /\ thread = "announce"
    /\ thread' = "check" /\ isRunning' = TRUE
    /\ UNCHANGED <<ownerVars, socketFile, conn>>

Check ==
    /\ thread = "check"
    /\ IF isRunning
       THEN thread' = "poll" /\ UNCHANGED conn
       ELSE thread' = "done" /\ cutAll
    /\ UNCHANGED <<ownerVars, isRunning, socketFile>>

(* waitScope.poll(): every request that has arrived is handled. *)
MutantAnswerNothing == UNCHANGED conn
answerAll == conn' = [c \in Client |-> IF conn[c] = "sent" THEN "answered" ELSE conn[c]]

Poll ==
    /\ thread = "poll" /\ thread' = "check"
    /\ answerAll
    /\ UNCHANGED <<ownerVars, isRunning, socketFile>>
-----------------------------------------------------------------------------
(* The clients: a connection is accepted by the socket as soon as the      *)
(* server listens.                                                         *)
Send(c) ==
    /\ listening /\ conn[c] # "sent"
    /\ conn' = [conn EXCEPT ![c] = "sent"]
    /\ UNCHANGED <<ownerVars, thread, isRunning, socketFile>>

OwnerRuns == StopTest \/ StopClear \/ StopJoin \/ StartTest \/ Spawn \/ Destroy
ThreadRuns == Listen \/ Announce \/ Check \/ Poll

ServerNext == CallStart \/ CallStop \/ OwnerRuns \/ ThreadRuns \/ \E c \in Client : Send(c)

(* Both threads are scheduled; nobody has to call the server or to ask it  *)
(* anything.                                                               *)
ServerSpec == ServerInit /\ [][ServerNext]_serverVars /\ WF_serverVars(OwnerRuns) /\ WF_serverVars(ThreadRuns)
-----------------------------------------------------------------------------
(* When the stop() of a patient owner returns, the server thread is gone   *)
(* (RPCServer::stop clears isRunning and joins).                           *)
StopStops ==
    [][(patient /\ owner \in {"stop", "join"} /\ owner' \in {"idle", "start", "destroy"}) => thread' = "none"]_serverVars

(* A patient owner whose server does not listen on a unix socket may call  *)
(* start, stop, restart and the destructor in any order: no call meets a   *)
(* std::thread that is still joinable, and a new thread can listen.        *)
NeverTerminated == patient /\ ~unix => owner # "terminated"

(* Who waits for the server thread, waits for one that will act: a client  *)
(* whose request was sent has a thread that listens, and the owner in      *)
(* join() one that reads the flag again and finds it cleared, also when    *)
(* the owner is hasty (stop, and the loop that sets isRunning once).       *)
NobodyWaitsInVain ==
    /\ \A c \in Client : conn[c] = "sent" => listening
    /\ owner = "join" => ~isRunning /\ thread \in {"check", "poll", "done"}

(* A stop() that saw the server run returns: the thread cannot miss the    *)
(* cleared flag, nor set it again.                                         *)
StopReturns == owner \in {"clear", "join"} ~> owner \notin {"clear", "join"}

(* A request is answered or its connection is cut; no stop or restart      *)
(* leaves a client waiting.                                                *)
EveryRequestEnds == \A c \in Client : conn[c] = "sent" ~> conn[c] # "sent"
-----------------------------------------------------------------------------
(* RPCServer.h: "restart the server".  A patient owner can restart it on   *)
(* any address, the unix socket of main.cpp among them.                    *)
RestartSurvives == patient => owner # "terminated"
=============================================================================
