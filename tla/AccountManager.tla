--------------------------- MODULE AccountManager ---------------------------
(***************************************************************************)
(* The account life cycle of px-accounts-service: AccountManager with the  *)
(* AccountObject, AccountService and RPCHandler code it runs, composed     *)
(* with the account directories, the plugins, the secret service and the   *)
(* event subscribers.                                                      *)
(*                                                                         *)
(* One thread runs the handlers, each to its end, so no two handlers       *)
(* interleave; but an operation touches four stores one after the other,   *)
(* any of them can fail, and the SIGINT handler ends the process between   *)
(* any two steps.  Hence one action per externally visible step, with pc   *)
(* naming the step that comes next.                                        *)
(***************************************************************************)
EXTENDS AccountParser, SecretManager, EventManager

VARIABLES
    pc,         \* the next step of the process
    call,       \* the request being handled
    refs,       \* the services of the account object at hand
    todo,       \* services the current loop has not reached
    verified,   \* the local `verified` of AccountObject::verify
    result,     \* outcome of the last finished request
    boot,       \* plugins createAutoInitializingAccounts has yet to visit
    statDict    \* m_statDict; a missing entry reads as NONE

ctlVars == <<pc, call, refs, todo, verified, result>>
vars == <<files, plugins, pdata, secrets, inited, known, knownStatus,
          pc, call, refs, todo, verified, result, boot, statDict>>

Step == {"down", "scan", "boot", "idle", "verify", "save", "write", "drop", "flush",
         "status", "cleanup", "emit", "premove", "unlink", "erase"}
Op == {"none", "autoinit", "add", "edit", "remove"}

NoCall == [op |-> "none", id |-> NullId, oldId |-> NullId, old |-> {}, dir |-> 0]

TypeOK ==
    /\ FilesTypeOK /\ PluginTypeOK /\ SecretTypeOK /\ EventTypeOK
    /\ pc \in Step
    /\ call \in [op : Op, id : Key, oldId : Key, old : SUBSET Service, dir : Parser \cup {0}]
    /\ refs \in ServiceRefs
    /\ todo \subseteq Service
    /\ verified \in BOOLEAN
    /\ result \in {"none", "ok", "error"}
    /\ boot \subseteq Service
    /\ statDict \in [Key -> Status]

Init ==
    /\ FilesInit /\ PluginInit /\ EventInit({id \in Provisioned : ~unusedId(id)})
    /\ secrets = {x \in Provisioned \X TokenServices :
                     \E p \in Parser : files[p][x[1]].refs[x[2]] # Absent}
    /\ pc = "down" /\ call = NoCall /\ refs = NoServices /\ todo = {}
    /\ verified = TRUE /\ result = "none" /\ boot = {}
    /\ statDict = [k \in Key |-> NONE]
-----------------------------------------------------------------------------
(* The end of a handler, and control transfers within one. *)

Goto(step) == pc' = step /\ UNCHANGED <<call, refs, verified, result>>

MutantNoProgress(s) == IsFirst(s, todo) /\ UNCHANGED todo
NextService(s) == IsFirst(s, todo) /\ todo' = todo \ {s}

Finish(outcome) ==
    /\ result' = outcome
    /\ pc' = IF call.op = "autoinit" THEN "boot" ELSE "idle"
    /\ call' = NoCall /\ refs' = NoServices /\ todo' = {} /\ verified' = TRUE

(* An exception leaves the handler: the RPC layer turns it into an error,  *)
(* but in createAutoInitializingAccounts nobody catches it.                *)
Terminate ==
    /\ pc' = "down" /\ result' = "none"
    /\ call' = NoCall /\ refs' = NoServices /\ todo' = {} /\ verified' = TRUE

Throw == IF call.op = "autoinit" THEN Terminate ELSE Finish("error")

(* A request that ends before it changed anything. *)
Refuse ==
    /\ result' = "error"
    /\ UNCHANGED <<pc, call, refs, todo, verified, files, pluginVars, secrets,
                   eventVars, boot, statDict>>
-----------------------------------------------------------------------------
(* Start-up (main.cpp) and the end of the process. *)

Start ==
    /\ pc = "down" /\ pc' = "scan"
    /\ initPlugins /\ eventInit
    /\ UNCHANGED <<files, secrets, call, refs, todo, verified, result, boot, statDict>>

(* createAutoInitializingAccounts lists the accounts once, before it       *)
(* creates any.                                                            *)
MutantAllAutoInit == plugins \cap AutoInit
uninitialized == {s \in plugins \cap AutoInit : instances(s) = 0}

Scan ==
    /\ pc = "scan" /\ pc' = "boot"
    /\ boot' = uninitialized
    /\ UNCHANGED <<files, pluginVars, secrets, eventVars, call, refs, todo, verified,
                   result, statDict>>

Serve ==
    /\ pc = "boot" /\ boot = {} /\ pc' = "idle"
    /\ UNCHANGED <<files, pluginVars, secrets, eventVars, call, refs, todo, verified,
                   result, boot, statDict>>

(* The process ends: asked to while idle, or anywhere under "crash".  The  *)
(* status dictionary is gone; the subscribers are not told.                *)
Exit ==
    /\ pc # "down"
    /\ pc = "idle" \/ "crash" \in Faults
    /\ pc = "flush" => "torn" \in Faults
    /\ Terminate
    /\ boot' = {} /\ statDict' = [k \in Key |-> NONE]
    /\ UNCHANGED <<files, pluginVars, secrets, eventVars>>
-----------------------------------------------------------------------------
(* Creating and editing an account. *)

MutantLimitOffByOne(S) ==
    \A s \in S : MaxCount[s] >= 0 => instances(s) <= MaxCount[s]
verifyAccountCreationLimits(S) ==
    \A s \in S : MaxCount[s] >= 0 => instances(s) < MaxCount[s]

createRefused(S, wellFormed) ==
    \/ findParser(NullId, TRUE) = {}
    \/ ~verifyAccountCreationLimits(S)
    \/ ~wellFormed

(* An id without any trace stands for one never generated before. *)
freshIds == {id \in AccountId \ known :
                /\ unusedId(id)
                /\ statDict[id] = NONE /\ knownStatus[id] = NONE
                /\ \A s \in Service : <<id, s>> \notin secrets}

BeginWrite(op, id, oldId, old, p, S) ==
    /\ call' = [op |-> op, id |-> id, oldId |-> oldId, old |-> old, dir |-> p]
    /\ refs' = [s \in Service |-> IF s \in S THEN NoPid ELSE Absent]
    /\ todo' = S /\ verified' = TRUE /\ result' = "none" /\ pc' = "verify"
    /\ UNCHANGED <<files, pluginVars, secrets, eventVars, statDict>>

createAccount(op, S, wellFormed) ==
    /\ ~createRefused(S, wellFormed)
    /\ \E id \in freshIds, p \in findParser(NullId, TRUE) : BeginWrite(op, id, id, {}, p, S)

(* RPCHandler::add.  A title or a provider that AccountObject::verify      *)
(* turns down makes the request ill-formed.                                *)
Add ==
    /\ pc = "idle"
    /\ \E S \in SUBSET Service, wellFormed \in BOOLEAN :
          \/ (~(S \subseteq plugins) \/ createRefused(S, wellFormed)) /\ Refuse
          \/ S \subseteq plugins /\ createAccount("add", S, wellFormed) /\ UNCHANGED boot

(* Once the ids of the model are used up (a bound), the creation counts as *)
(* one whose verification failed before anything was stored.               *)
AutoInitialize ==
    /\ pc = "boot"
    /\ \E s \in Service :
          /\ IsFirst(s, boot) /\ boot' = boot \ {s}
          /\ \/ createAccount("autoinit", {s}, TRUE)
             \/ /\ createRefused({s}, TRUE) \/ freshIds = {}
                /\ UNCHANGED <<files, pluginVars, secrets, eventVars, ctlVars, statDict>>

(* Where the edited account goes.  The old account is looked up under the  *)
(* id found inside its file, which an empty file does not have.            *)
MutantFirstWritable(r, id) == findParser(NullId, TRUE)
editTarget(r, id) == findParser(readId(r, id), TRUE)

modifyRefused(id, S, wellFormed) ==
    \/ ~(S \subseteq plugins)
    \/ ~\E r \in readAccount(id) : editTarget(r, id) # {}
    \/ ~wellFormed

(* RPCHandler::edit and the first half of modifyAccount. *)
Edit ==
    /\ pc = "idle"
    /\ \E id \in Key, S \in SUBSET Service, wellFormed \in BOOLEAN :
          \/ modifyRefused(id, S, wellFormed) /\ Refuse
          \/ /\ ~modifyRefused(id, S, wellFormed)
             /\ \E r \in readAccount(id) : \E p \in editTarget(r, id) :
                   BeginWrite("edit", id, readId(r, id), services(files[r][id].refs), p, S)
             /\ UNCHANGED boot

(* AccountService::verify of the next service: the plugin verifies the     *)
(* parameters and authenticates.                                           *)
VerifyService ==
    /\ pc = "verify"
    /\ \E s \in Service :
          /\ IsFirst(s, todo)
          /\ \/ /\ pc' = (IF s \in TokenServices THEN "save" ELSE "write")
                /\ UNCHANGED <<todo, verified>>
             \/ todo' = todo \ {s} /\ verified' = FALSE /\ UNCHANGED pc
    /\ UNCHANGED <<call, refs, result, files, pluginVars, secrets, eventVars, boot, statDict>>

(* An exception of verify or authenticate that the plugin container does   *)
(* not catch.                                                              *)
VerifyThrows ==
    /\ pc = "verify" /\ todo # {} /\ "plugin" \in Faults
    /\ Throw
    /\ UNCHANGED <<files, pluginVars, secrets, eventVars, boot, statDict>>

(* _saveProtectedParams. *)
MutantSaveUnchecked(s, ok) == pc' = "write" /\ UNCHANGED <<todo, verified>>
afterSave(s, ok) ==
    IF ok THEN pc' = "write" /\ UNCHANGED <<todo, verified>>
          ELSE pc' = "verify" /\ todo' = todo \ {s} /\ verified' = FALSE

SaveSecret ==
    /\ pc = "save"
    /\ \E s \in Service, ok \in BOOLEAN :
          IsFirst(s, todo) /\ setSecret(call.id, s, ok) /\ afterSave(s, ok)
    /\ UNCHANGED <<call, refs, result, files, pluginVars, eventVars, boot, statDict>>

(* The plugin's `write`; one that is missing, or throws (perhaps after the *)
(* plugin has stored them), leaves the parameters in the account file.     *)
WritePlugin ==
    /\ pc = "write"
    /\ \E s \in Service :
          /\ NextService(s)
          /\ \/ /\ s \in CustomServices
                /\ \E pid \in freshPids(pidsOnDisk) :
                      /\ pluginWrite(pid)
                      /\ \/ refs' = [refs EXCEPT ![s] = pid]
                         \/ "plugin" \in Faults /\ UNCHANGED refs
             \/ UNCHANGED <<pluginVars, refs>>
    /\ pc' = "verify"
    /\ UNCHANGED <<call, verified, result, files, secrets, eventVars, boot, statDict>>

(* The end of AccountObject::verify when a service failed: the secrets of  *)
(* all services are removed, whoever saved them.                           *)
MutantKeepSecrets == {}
unverified == services(refs)

BeginDrop ==
    /\ pc = "verify" /\ todo = {} /\ ~verified
    /\ Goto("drop") /\ todo' = unverified
    /\ UNCHANGED <<files, pluginVars, secrets, eventVars, boot, statDict>>

DropSecret ==
    /\ pc = "drop"
    /\ \E s \in Service, ok \in BOOLEAN : NextService(s) /\ removeService(call.id, s, ok)
    /\ Goto("drop")
    /\ UNCHANGED <<files, pluginVars, eventVars, boot, statDict>>

VerificationFailed ==
    /\ pc = "drop" /\ todo = {}
    /\ Finish("error")
    /\ UNCHANGED <<files, pluginVars, secrets, eventVars, boot, statDict>>

(* AccountParser::write, first half; when the open fails the stream drops  *)
(* the text and nobody notices.                                            *)
OpenFile ==
    /\ pc = "verify" /\ todo = {} /\ verified
    /\ IF writeRefused(call.dir, call.id)
       THEN Finish("error") /\ UNCHANGED files
       ELSE /\ \/ truncateFile(call.dir, call.id) /\ Goto("flush")
               \/ "disk" \in Faults /\ UNCHANGED files /\ Goto("status")
            /\ UNCHANGED todo
    /\ UNCHANGED <<pluginVars, secrets, eventVars, boot, statDict>>

FlushFile ==
    /\ pc = "flush"
    /\ flushFile(call.dir, call.id, refs)
    /\ Goto("status")
    /\ UNCHANGED <<todo, pluginVars, secrets, eventVars, boot, statDict>>

(* setStatus: needs a readable account, files the status under the id read *)
(* from it, and emits an event when the status changed.                    *)
statusChanges(id, stat) == \E p \in readAccount(id) : statDict[readId(p, id)] # stat

setStatus(id, stat) ==
    \/ readAccount(id) = {} /\ UNCHANGED <<statDict, eventVars>>
    \/ \E p \in readAccount(id) :
          /\ statDict' = [statDict EXCEPT ![readId(p, id)] = stat]
          /\ IF statusChanges(id, stat) /\ inited
             THEN EMIT_STATUS_CHANGE(readId(p, id), stat)
             ELSE UNCHANGED eventVars

(* AccountObject::cleanup: the services the edited account no longer has.  *)
obsolete == call.old \ services(refs)

ResetStatus ==
    /\ pc = "status"
    /\ setStatus(call.oldId, NONE)
    /\ IF statusChanges(call.oldId, NONE) /\ ~inited
       THEN Throw
       ELSE IF call.op = "edit"
            THEN Goto("cleanup") /\ todo' = obsolete
            ELSE Goto("emit") /\ UNCHANGED todo
    /\ UNCHANGED <<files, pluginVars, secrets, boot>>

CleanupOld ==
    /\ pc = "cleanup"
    /\ \E s \in Service, ok \in BOOLEAN : NextService(s) /\ removeService(call.oldId, s, ok)
    /\ Goto("cleanup")
    /\ UNCHANGED <<files, pluginVars, eventVars, boot, statDict>>

CleanupDone ==
    /\ pc = "cleanup" /\ todo = {}
    /\ Goto("emit")
    /\ UNCHANGED <<todo, files, pluginVars, secrets, eventVars, boot, statDict>>

(* EMIT_CREATE_ACCOUNT or EMIT_MODIFY_ACCOUNT; Instance() throws when      *)
(* there is no EventManager.                                               *)
EmitWritten ==
    /\ pc = "emit"
    /\ IF inited
       THEN /\ IF call.op = "edit" THEN EMIT_MODIFY_ACCOUNT(call.oldId)
                                   ELSE EMIT_CREATE_ACCOUNT(call.id)
            /\ Finish("ok")
       ELSE Throw /\ UNCHANGED eventVars
    /\ UNCHANGED <<files, pluginVars, secrets, boot, statDict>>
-----------------------------------------------------------------------------
(* Deleting an account. *)

removeRefusedAtOnce(id) == ~\E p \in findParser(id, TRUE) : parserRead(p, id)

Remove ==
    /\ pc = "idle"
    /\ \E id \in Key :
          \/ removeRefusedAtOnce(id) /\ Refuse
          \/ /\ \E p \in findParser(id, TRUE) :
                   /\ parserRead(p, id)
                   /\ call' = [op |-> "remove", id |-> id, oldId |-> readId(p, id),
                               old |-> services(files[p][id].refs), dir |-> p]
                   /\ refs' = files[p][id].refs
                   /\ todo' = {s \in Service : files[p][id].refs[s] \in PluginId}
             /\ pc' = "premove" /\ result' = "none"
             /\ UNCHANGED <<verified, files, pluginVars, secrets, eventVars, boot, statDict>>

(* performServiceCustomRemoval of the next service with a plugin id: a     *)
(* plugin that holds nothing under the id answers false, which ends the    *)
(* operation; one that throws is taken to have succeeded.                  *)
RemovePluginData ==
    /\ pc = "premove"
    /\ \E s \in Service :
          /\ IsFirst(s, todo)
          /\ \/ /\ refs[s] \in pdata
                /\ pluginRemove(refs[s])
                /\ todo' = todo \ {s} /\ Goto("premove")
             \/ /\ "plugin" \in Faults
                /\ todo' = todo \ {s} /\ Goto("premove")
                /\ UNCHANGED pluginVars
             \/ /\ refs[s] \notin pdata \/ "plugin" \in Faults
                /\ Finish("error")
                /\ UNCHANGED pluginVars
    /\ UNCHANGED <<files, secrets, eventVars, boot, statDict>>

(* A failed removal of the secrets is a warning only. *)
RemoveSecrets ==
    /\ pc = "premove" /\ todo = {}
    /\ \E ok \in BOOLEAN : removeAccount(call.oldId, ok)
    /\ Goto("unlink")
    /\ UNCHANGED <<todo, files, pluginVars, eventVars, boot, statDict>>

UnlinkFile ==
    /\ pc = "unlink"
    /\ \/ /\ ~removeRefused(call.dir, call.id)
          /\ unlinkFile(call.dir, call.id)
          /\ Goto("erase") /\ UNCHANGED todo
       \/ /\ removeRefused(call.dir, call.id) \/ "disk" \in Faults
          /\ Finish("error") /\ UNCHANGED files
    /\ UNCHANGED <<pluginVars, secrets, eventVars, boot, statDict>>

MutantKeepStatus == UNCHANGED statDict
eraseStatus == statDict' = [statDict EXCEPT ![call.oldId] = NONE]

EraseStatus ==
    /\ pc = "erase"
    /\ eraseStatus
    /\ IF inited THEN EMIT_DELETE_ACCOUNT(call.oldId) /\ Finish("ok")
                 ELSE Throw /\ UNCHANGED eventVars
    /\ UNCHANGED <<files, pluginVars, secrets, boot>>
-----------------------------------------------------------------------------
(* RPCHandler::setStatus is a single step. *)
SetStatus ==
    /\ pc = "idle"
    /\ \E id \in Key, stat \in Status :
          /\ setStatus(id, stat)
          /\ result' = IF readAccount(id) = {} \/ (statusChanges(id, stat) /\ ~inited)
                       THEN "error" ELSE "ok"
    /\ UNCHANGED <<pc, call, refs, todo, verified, files, pluginVars, secrets, boot>>

(* The requests that change nothing, by what they return: the ids of the   *)
(* accounts, the services of one (none, if the request fails), its status. *)
list(serviceFilter) == {readId(l[1], l[2]) : l \in listAccounts(serviceFilter)}

get(id) == {servicesIn(<<p, id>>) : p \in readAccount(id)}

getStatus(id) == statDict[id]

Local == \/ VerifyService \/ VerifyThrows \/ WritePlugin \/ BeginDrop \/ VerificationFailed
         \/ OpenFile \/ FlushFile \/ ResetStatus \/ CleanupDone \/ EmitWritten
         \/ RemovePluginData \/ UnlinkFile \/ EraseStatus
         \/ Scan \/ AutoInitialize \/ Serve

SecretCall == SaveSecret \/ DropSecret \/ CleanupOld \/ RemoveSecrets

Request == Add \/ Edit \/ Remove \/ SetStatus

Next == Start \/ Exit \/ Request \/ Local \/ SecretCall

Spec == Init /\ [][Next]_vars

(* The server thread keeps running a handler once it has begun, and the    *)
(* secret service answers every request: the code waits for the answer     *)
(* without a timeout, so progress needs the second as much as the first.   *)
FairSpec == Spec /\ WF_vars(Local) /\ WF_vars(SecretCall)
=============================================================================
