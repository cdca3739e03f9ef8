-------------------------- MODULE RPCServer_proofs --------------------------
(***************************************************************************)
(* For any number of clients: stop() leaves no server thread behind, and   *)
(* no call ends the process, when the owner waits for a start to finish    *)
(* (and, for the second, when the address is not a unix socket).  For any  *)
(* owner: no client and no join() waits for a thread that will not act.    *)
(***************************************************************************)
EXTENDS RPCServer, TLAPS

(* What the owner knows of the server thread where it stands.              *)
(*   - isRunning is set only while a thread is past its announcement       *)
(*   - while a stop is under way the owner of a patient program has no     *)
(*     thread that is still starting, and a thread that ended was stopped  *)
(*   - the owner starts a thread, or destroys the server, without one      *)
(*   - a running thread whose flag is cleared is being joined              *)
OwnerKnows ==
    /\ isRunning => thread \in {"check", "poll"}
    /\ owner = "clear" => isRunning
    /\ owner \in {"spawn", "destroy", "gone"} => thread = "none"
    /\ owner = "start" => thread = "none" \/ isRunning
    /\ owner = "stop" => thread = "none" \/ isRunning
    /\ thread = "done" => owner = "join"
    /\ owner = "join" => ~isRunning /\ thread \in {"check", "poll", "done"}
    /\ thread \in {"check", "poll"} => isRunning \/ owner = "join"

ServerInv == ServerTypeOK /\ (patient => OwnerKnows)

(* Every step of the server preserves the invariant. *)
LEMMA ServerInvStep == ASSUME ServerInv, [ServerNext]_serverVars PROVE ServerInv'
<1> USE DEF ServerInv, ServerTypeOK, OwnerKnows, OwnerStep, ThreadStep, setting
<1>1. CASE CallStart
  BY <1>1 DEF CallStart, mayCall
<1>2. CASE CallStop
  BY <1>2 DEF CallStop, mayCall
<1>3. CASE StopTest
  BY <1>3 DEF StopTest
<1>4. CASE StopClear
  BY <1>4 DEF StopClear, clearRunning
<1>5. CASE StopJoin
  BY <1>5 DEF StopJoin, joinThread
<1>6. CASE StartTest
  BY <1>6 DEF StartTest, startTest
<1>7. CASE Spawn
  BY <1>7 DEF Spawn, Abort, cutAll
<1>8. CASE Destroy
  BY <1>8 DEF Destroy, Abort, cutAll
<1>9. CASE Listen
  BY <1>9 DEF Listen, Abort, cutAll, ownerVars
<1>10. CASE Announce
  BY <1>10 DEF Announce, ownerVars
<1>11. CASE Check
  BY <1>11 DEF Check, cutAll, ownerVars
<1>12. CASE Poll
  BY <1>12 DEF Poll, answerAll, ownerVars
<1>13. CASE \E c \in Client : Send(c)
  BY <1>13 DEF Send, listening, ownerVars
<1>14. CASE UNCHANGED serverVars
  BY <1>14 DEF serverVars
<1>15. QED
  BY <1>1, <1>2, <1>3, <1>4, <1>5, <1>6, <1>7, <1>8, <1>9, <1>10, <1>11, <1>12, <1>13, <1>14
     DEF ServerNext, OwnerRuns, ThreadRuns

(* The invariant holds throughout every behaviour. *)
LEMMA ServerInvariant == ServerSpec => []ServerInv
<1>1. ServerInit => ServerInv
  BY DEF ServerInit, ServerInv, ServerTypeOK, OwnerKnows, OwnerStep, ThreadStep
<1>2. ServerInv /\ [ServerNext]_serverVars => ServerInv'
  BY ServerInvStep
<1>3. QED
  BY <1>1, <1>2, PTL DEF ServerSpec

(* Every variable of the server stays within its type (RPCServer.h). *)
THEOREM ServerTypeCorrect == ServerSpec => []ServerTypeOK
<1>1. ServerInv => ServerTypeOK
  BY DEF ServerInv
<1>2. QED
  BY <1>1, ServerInvariant, PTL

(* When a patient owner's stop() returns, the server thread is gone: the   *)
(* test of isRunning in RPCServer::stop cannot miss a thread.              *)
THEOREM StopLeavesNoThread == ServerSpec => StopStops
<1>1. ServerInv /\ [ServerNext]_serverVars
        => [(patient /\ owner \in {"stop", "join"} /\ owner' \in {"idle", "start", "destroy"})
               => thread' = "none"]_serverVars
  <2> SUFFICES ASSUME ServerInv, ServerNext, patient, owner \in {"stop", "join"},
                      owner' \in {"idle", "start", "destroy"}
               PROVE  thread' = "none"
    BY DEF serverVars
  <2>1. CASE StopTest
    BY <2>1 DEF StopTest, ServerInv, OwnerKnows, ServerTypeOK
  <2>2. CASE StopJoin
    BY <2>2 DEF StopJoin, joinThread
  <2>3. ~(CallStart \/ CallStop \/ StopClear \/ StartTest \/ Spawn \/ Destroy)
    BY DEF CallStart, CallStop, mayCall, StopClear, StartTest, Spawn, Destroy
  <2>4. ~(Listen \/ Announce \/ Check \/ Poll \/ \E c \in Client : Send(c))
    BY DEF Listen, Abort, Announce, Check, Poll, Send, ownerVars
  <2>5. QED
    BY <2>1, <2>2, <2>3, <2>4 DEF ServerNext, OwnerRuns, ThreadRuns
<1>2. QED
  BY <1>1, ServerInvariant, PTL DEF ServerSpec, StopStops

(* A patient owner of a server that does not listen on a unix socket may   *)
(* start, stop, restart and destroy it in any order: no std::thread is     *)
(* ever overwritten or destroyed while joinable (RPCServer::start and the  *)
(* destructor), and the new thread can always listen.                      *)
THEOREM NoCallTerminates == ServerSpec => []NeverTerminated
<1> DEFINE Safe == NeverTerminated /\ (~unix => ~socketFile)
<1>1. ServerInit => Safe
  BY DEF ServerInit, NeverTerminated
<1>2. ServerInv /\ Safe /\ [ServerNext]_serverVars => Safe'
  <2> SUFFICES ASSUME ServerInv, Safe, [ServerNext]_serverVars PROVE Safe'
    OBVIOUS
  <2> USE DEF ServerInv, OwnerKnows, ServerTypeOK, NeverTerminated, setting
  <2>1. CASE CallStart \/ CallStop \/ StopTest \/ StopClear \/ StopJoin \/ StartTest
    BY <2>1 DEF CallStart, CallStop, mayCall, StopTest, StopClear, StopJoin, joinThread, StartTest
  <2>2. CASE Spawn \/ Destroy
    BY <2>2 DEF Spawn, Destroy, Abort
  <2>3. CASE Listen
    BY <2>3 DEF Listen, Abort, ownerVars
  <2>4. CASE Announce \/ Check \/ Poll \/ \E c \in Client : Send(c)
    BY <2>4 DEF Announce, Check, Poll, Send, ownerVars
  <2>5. CASE UNCHANGED serverVars
    BY <2>5 DEF serverVars
  <2>6. QED
    BY <2>1, <2>2, <2>3, <2>4, <2>5 DEF ServerNext, OwnerRuns, ThreadRuns
<1>3. QED
  BY <1>1, <1>2, ServerInvariant, PTL DEF ServerSpec

(* What the flag tells of the thread, for hasty owners too: it is set only *)
(* while a thread is past its announcement, stays set until the owner      *)
(* clears it, and is not set again before that thread is joined.           *)
FlagKnows ==
    /\ isRunning => thread \in {"check", "poll"}
    /\ owner = "clear" => isRunning

(* A request is sent to a thread that listens and answered or cut before   *)
(* it stops listening, and a join() waits for a thread whose next look at  *)
(* isRunning is its last, whatever the owner calls and when (RPCServer's   *)
(* stop and the loop of its thread).                                       *)
THEOREM WaitsAreServed == ServerSpec => []NobodyWaitsInVain
<1> DEFINE WaitInv == ServerTypeOK /\ FlagKnows /\ NobodyWaitsInVain
<1>1. ServerInit => WaitInv
  BY DEF ServerInit, ServerTypeOK, OwnerStep, ThreadStep, FlagKnows, NobodyWaitsInVain
<1>2. WaitInv /\ ServerTypeOK' /\ [ServerNext]_serverVars => WaitInv'
  <2> SUFFICES ASSUME WaitInv, ServerTypeOK', [ServerNext]_serverVars PROVE WaitInv'
    OBVIOUS
  <2> USE DEF ServerTypeOK, OwnerStep, ThreadStep, FlagKnows, NobodyWaitsInVain, listening, setting
  <2>1. CASE CallStart
    BY <2>1 DEF CallStart, mayCall
  <2>2. CASE CallStop
    BY <2>2 DEF CallStop, mayCall
  <2>3. CASE StopTest
    BY <2>3 DEF StopTest
  <2>4. CASE StopClear
    BY <2>4 DEF StopClear, clearRunning
  <2>5. CASE StopJoin
    BY <2>5 DEF StopJoin, joinThread
  <2>6. CASE StartTest
    BY <2>6 DEF StartTest, startTest
  <2>7. CASE Spawn
    BY <2>7 DEF Spawn, Abort, cutAll
  <2>8. CASE Destroy
    BY <2>8 DEF Destroy, Abort, cutAll
  <2>9. CASE Listen
    BY <2>9 DEF Listen, Abort, cutAll, ownerVars
  <2>10. CASE Announce
    BY <2>10 DEF Announce, ownerVars
  <2>11. CASE Check
    BY <2>11 DEF Check, cutAll, ownerVars
  <2>12. CASE Poll
    BY <2>12 DEF Poll, answerAll, ownerVars
  <2>13. CASE \E c \in Client : Send(c)
    BY <2>13 DEF Send, ownerVars
  <2>14. CASE UNCHANGED serverVars
    BY <2>14 DEF serverVars
  <2> QED
    BY <2>1, <2>2, <2>3, <2>4, <2>5, <2>6, <2>7, <2>8, <2>9, <2>10, <2>11, <2>12, <2>13, <2>14
       DEF ServerNext, OwnerRuns, ThreadRuns
<1> QED
  BY <1>1, <1>2, ServerTypeCorrect, PTL DEF ServerSpec
=============================================================================
