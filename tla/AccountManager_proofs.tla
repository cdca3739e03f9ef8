----------------------- MODULE AccountManager_proofs -----------------------
(***************************************************************************)
(* What holds of AccountManager for every choice of accounts, services,    *)
(* plugins, directories and faults.                                        *)
(***************************************************************************)
EXTENDS AccountProperties, TLAPS

USE DEF Key

LEMMA NoServicesType == NoServices \in ServiceRefs
BY DataAssumption DEF NoServices, ServiceRefs

LEMMA FileType ==
    /\ NoFile \in File /\ EmptyFile \in File /\ GarbageFile \in File
    /\ \A r \in ServiceRefs : AccountFile(r) \in File
    /\ \A f \in File : f.refs \in ServiceRefs /\ f.kind \in {"none", "empty", "garbage", "account"}
<1>1. /\ NoFile \in File /\ EmptyFile \in File /\ GarbageFile \in File
      /\ \A r \in ServiceRefs : AccountFile(r) \in File
  BY DEF File
<1>2. ASSUME NEW f \in File
      PROVE  f.refs \in ServiceRefs /\ f.kind \in {"none", "empty", "garbage", "account"}
  <2>1. CASE f \in {NoFile, EmptyFile, GarbageFile}
    BY <2>1, NoServicesType DEF NoFile, EmptyFile, GarbageFile
  <2>2. CASE \E r \in ServiceRefs : f = AccountFile(r)
    BY <2>2 DEF AccountFile
  <2> QED
    BY <2>1, <2>2 DEF File
<1> QED
  BY <1>1, <1>2

(* What a failed write leaves refers to nothing the account did not.       *)
LEMMA CutOffFile ==
    ASSUME NEW r \in ServiceRefs, NEW f \in cutOff(r), f # GarbageFile
    PROVE  \E q \in ServiceRefs :
              /\ f = AccountFile(q)
              /\ \A s \in Service : /\ q[s] # Absent => r[s] # Absent
                                    /\ q[s] \in PluginId => q[s] = r[s]
<1>1. PICK last \in Service, bare \in BOOLEAN :
        f = AccountFile([s \in Service |-> IF s < last THEN r[s]
                                          ELSE IF s = last /\ bare /\ r[s] # Absent THEN NoPid
                                          ELSE Absent])
  BY DEF cutOff
<1> DEFINE q == [s \in Service |-> IF s < last THEN r[s]
                                  ELSE IF s = last /\ bare /\ r[s] # Absent THEN NoPid
                                  ELSE Absent]
<1>2. q \in ServiceRefs
  BY DEF ServiceRefs
<1>3. \A s \in Service : /\ q[s] # Absent => r[s] # Absent
                         /\ q[s] \in PluginId => q[s] = r[s]
  BY DataAssumption
<1> QED
  BY <1>1, <1>2, <1>3

LEMMA NoCallType == NoCall \in [op : Op, id : Key, oldId : Key, old : SUBSET Service, dir : Parser \cup {0}]
BY DEF NoCall, Op

(* The ends of a handler leave well-typed control variables. *)
LEMMA EndTypes ==
    ASSUME TypeOK, NEW outcome \in {"ok", "error"}, Finish(outcome) \/ Terminate
    PROVE  /\ pc' \in Step
           /\ call' \in [op : Op, id : Key, oldId : Key, old : SUBSET Service, dir : Parser' \cup {0}]
           /\ refs' \in ServiceRefs /\ todo' \subseteq Service
           /\ verified' \in BOOLEAN /\ result' \in {"none", "ok", "error"}
BY NoServicesType, NoCallType DEF TypeOK, Finish, Terminate, Step, Parser

(* Events and requests to the secret service keep their stores well typed. *)
LEMMA EventTypes ==
    ASSUME EventTypeOK, NEW id \in Key, NEW stat \in Status,
           \/ EMIT_CREATE_ACCOUNT(id) \/ EMIT_MODIFY_ACCOUNT(id)
           \/ EMIT_DELETE_ACCOUNT(id) \/ EMIT_STATUS_CHANGE(id, stat)
    PROVE  EventTypeOK'
BY DataAssumption DEF EventTypeOK, EMIT_CREATE_ACCOUNT, EMIT_MODIFY_ACCOUNT, EMIT_DELETE_ACCOUNT,
    EMIT_STATUS_CHANGE, emit

LEMMA SecretTypes ==
    ASSUME SecretTypeOK, NEW id \in Key, NEW s \in Service, NEW ok \in BOOLEAN,
           setSecret(id, s, ok) \/ removeService(id, s, ok) \/ removeAccount(id, ok)
    PROVE  SecretTypeOK'
BY DEF SecretTypeOK, setSecret, removeService, removeAccount, request

LEMMA ReadIdType == \A p \in Parser, id \in Key : readId(p, id) \in Key
BY DEF readId

LEMMA SetStatusTypes ==
    ASSUME TypeOK, NEW id \in Key, NEW stat \in Status, setStatus(id, stat)
    PROVE  EventTypeOK' /\ statDict' \in [Key -> Status]
<1>1. CASE readAccount(id) = {} /\ UNCHANGED <<statDict, eventVars>>
  BY <1>1 DEF TypeOK, EventTypeOK, eventVars
<1>2. CASE readAccount(id) # {}
  <2>1. PICK p \in readAccount(id) :
           /\ statDict' = [statDict EXCEPT ![readId(p, id)] = stat]
           /\ IF statusChanges(id, stat) /\ inited
              THEN EMIT_STATUS_CHANGE(readId(p, id), stat)
              ELSE UNCHANGED eventVars
    BY <1>2 DEF setStatus
  <2>2. readId(p, id) \in Key
    BY ReadIdType DEF readAccount, findParser
  <2>3. EventTypeOK'
    <3>1. CASE EMIT_STATUS_CHANGE(readId(p, id), stat)
      BY <3>1, <2>2, EventTypes DEF TypeOK
    <3>2. CASE UNCHANGED eventVars
      BY <3>2 DEF TypeOK, EventTypeOK, eventVars
    <3> QED
      BY <3>1, <3>2, <2>1
  <2> QED
    BY <2>1, <2>2, <2>3 DEF TypeOK
<1> QED
  BY <1>1, <1>2 DEF setStatus

LEMMA InitType == Init => TypeOK
<1> SUFFICES ASSUME Init PROVE TypeOK
  OBVIOUS
<1>1. FilesTypeOK
  <2>1. PICK home \in [Provisioned -> Parser], file \in [Provisioned -> ProvisionedFile] :
           files = [p \in Parser |-> [k \in Key |->
                      IF k \in Provisioned /\ home[k] = p THEN file[k] ELSE NoFile]]
    BY DEF Init, FilesInit
  <2>2. ProvisionedFile \subseteq File
    <3>1. [Service -> {NoPid, Absent}] \subseteq ServiceRefs
      BY DEF ServiceRefs
    <3> QED
      BY <3>1, FileType DEF ProvisionedFile
  <2>3. \A k \in Provisioned : file[k] \in File
    BY <2>2
  <2> QED
    BY <2>1, <2>3, FileType DEF FilesTypeOK
<1>2. PluginTypeOK /\ SecretTypeOK /\ EventTypeOK
  BY DataAssumption, PluginAssumption, DirAssumption
  DEF Init, PluginInit, EventInit, PluginTypeOK, SecretTypeOK, EventTypeOK
<1>3. statDict \in [Key -> Status]
  BY DataAssumption DEF Init
<1> QED
  BY <1>1, <1>2, <1>3, NoServicesType, NoCallType DEF Init, TypeOK, Step
LEMMA BeginWriteTypes ==
    ASSUME TypeOK, NEW op \in Op, NEW id \in Key, NEW oldId \in Key, NEW old \in SUBSET Service,
           NEW p \in Parser, NEW S \in SUBSET Service, BeginWrite(op, id, oldId, old, p, S),
           boot' \subseteq Service
    PROVE  TypeOK'
<1>1. refs' \in ServiceRefs
  BY DEF BeginWrite, ServiceRefs
<1> QED
  BY <1>1 DEF BeginWrite, TypeOK, FilesTypeOK, PluginTypeOK, SecretTypeOK, EventTypeOK, Step, Parser,
      pluginVars, eventVars

LEMMA CreateTypes ==
    ASSUME TypeOK, NEW op \in Op, NEW S \in SUBSET Service, NEW wf \in BOOLEAN,
           createAccount(op, S, wf), boot' \subseteq Service
    PROVE  TypeOK'
<1>1. PICK id \in freshIds, p \in findParser(NullId, TRUE) : BeginWrite(op, id, id, {}, p, S)
  BY DEF createAccount
<1>2. id \in Key /\ p \in Parser
  BY DEF freshIds, findParser
<1> QED
  BY <1>1, <1>2, BeginWriteTypes

LEMMA RefuseTypes == TypeOK /\ Refuse => TypeOK'
BY DEF Refuse, TypeOK, FilesTypeOK, PluginTypeOK, SecretTypeOK, EventTypeOK, pluginVars, eventVars, Parser

LEMMA TypeStep == TypeOK /\ [Next]_vars => TypeOK'
<1> SUFFICES ASSUME TypeOK, [Next]_vars PROVE TypeOK'
  OBVIOUS
<1> USE DEF TypeOK, FilesTypeOK, PluginTypeOK, SecretTypeOK, pluginVars, Parser
<1>1. CASE Start
  BY <1>1, PluginAssumption DEF Start, initPlugins, eventInit, EventTypeOK, Step
<1>2. CASE Exit
  BY <1>2, EndTypes, DataAssumption DEF Exit, EventTypeOK, eventVars
<1>3. CASE Add
  <2>1. PICK S \in SUBSET Service, wellFormed \in BOOLEAN :
           \/ Refuse
           \/ createAccount("add", S, wellFormed) /\ UNCHANGED boot
    BY <1>3 DEF Add
  <2> QED
    BY <2>1, RefuseTypes, CreateTypes DEF Op
<1>4. CASE Edit
  <2>1. PICK id \in Key, S \in SUBSET Service :
           \/ Refuse
           \/ /\ \E r \in readAccount(id) : \E p \in editTarget(r, id) :
                    BeginWrite("edit", id, readId(r, id), services(files[r][id].refs), p, S)
              /\ UNCHANGED boot
    BY <1>4 DEF Edit
  <2>2. CASE Refuse
    BY <2>2, RefuseTypes
  <2>3. CASE UNCHANGED boot /\ \E r \in readAccount(id) : \E p \in editTarget(r, id) :
                BeginWrite("edit", id, readId(r, id), services(files[r][id].refs), p, S)
    <3>0. PICK r \in readAccount(id) : \E p \in editTarget(r, id) :
             BeginWrite("edit", id, readId(r, id), services(files[r][id].refs), p, S)
      BY <2>3
    <3>1. PICK p \in editTarget(r, id) :
             BeginWrite("edit", id, readId(r, id), services(files[r][id].refs), p, S)
      BY <3>0
    <3>2. r \in Parser /\ p \in Parser
      BY DEF readAccount, editTarget, findParser
    <3>3. readId(r, id) \in Key
      BY <3>2, ReadIdType
    <3>4. services(files[r][id].refs) \in SUBSET Service
      BY DEF services
    <3> QED
      BY <3>1, <3>2, <3>3, <3>4, <2>3, BeginWriteTypes DEF Op
  <2> QED
    BY <2>1, <2>2, <2>3
<1>5. CASE Remove
  <2>1. PICK id \in Key :
           \/ Refuse
           \/ /\ \E p \in findParser(id, TRUE) :
                    /\ call' = [op |-> "remove", id |-> id, oldId |-> readId(p, id),
                                old |-> services(files[p][id].refs), dir |-> p]
                    /\ refs' = files[p][id].refs
                    /\ todo' = {s \in Service : files[p][id].refs[s] \in PluginId}
              /\ pc' = "premove" /\ result' = "none"
              /\ UNCHANGED <<verified, files, pluginVars, secrets, eventVars, boot, statDict>>
    BY <1>5 DEF Remove
  <2>2. CASE Refuse
    BY <2>2, RefuseTypes
  <2>3. CASE ~Refuse
    <3>1. PICK p \in findParser(id, TRUE) :
             /\ call' = [op |-> "remove", id |-> id, oldId |-> readId(p, id),
                         old |-> services(files[p][id].refs), dir |-> p]
             /\ refs' = files[p][id].refs
             /\ todo' = {s \in Service : files[p][id].refs[s] \in PluginId}
      BY <2>1, <2>3
    <3>2. p \in Parser /\ readId(p, id) \in Key
      BY ReadIdType DEF findParser
    <3>3. services(files[p][id].refs) \subseteq Service
      BY DEF services
    <3>4. call' \in [op : Op, id : Key, oldId : Key, old : SUBSET Service, dir : Parser \cup {0}]
      BY <3>1, <3>2, <3>3 DEF Op
    <3>5. refs' \in ServiceRefs
      BY <3>1, <3>2, FileType
    <3> QED
      BY <2>1, <2>3, <3>1, <3>4, <3>5 DEF EventTypeOK, eventVars, Step
  <2> QED
    BY <2>2, <2>3
<1>6. CASE SetStatus
  <2>1. PICK id \in Key, stat \in Status : setStatus(id, stat) /\ result' \in {"ok", "error"}
    BY <1>6 DEF SetStatus
  <2> QED
    BY <1>6, <2>1, SetStatusTypes DEF SetStatus
<1>7. CASE VerifyService
  BY <1>7 DEF VerifyService, EventTypeOK, eventVars, Step
<1>8. CASE VerifyThrows
  BY <1>8, EndTypes DEF VerifyThrows, Throw, EventTypeOK, eventVars
<1>9. CASE WritePlugin
  <2>1. PICK s \in Service :
           /\ NextService(s)
           /\ \/ \E pid \in freshPids(pidsOnDisk) :
                    pluginWrite(pid) /\ (refs' = [refs EXCEPT ![s] = pid] \/ UNCHANGED refs)
              \/ UNCHANGED <<pluginVars, refs>>
    BY <1>9 DEF WritePlugin
  <2>2. PluginTypeOK' /\ refs' \in ServiceRefs
    BY <2>1 DEF pluginWrite, freshPids, ServiceRefs
  <2> QED
    BY <1>9, <2>1, <2>2 DEF WritePlugin, NextService, EventTypeOK, eventVars, Step
<1>10. CASE BeginDrop
  BY <1>10 DEF BeginDrop, Goto, unverified, services, EventTypeOK, eventVars, Step
<1>11. CASE VerificationFailed
  BY <1>11, EndTypes DEF VerificationFailed, EventTypeOK, eventVars
<1>12. CASE OpenFile
  <2>1. files' \in [Parser -> [Key -> File]]
    BY <1>12, FileType DEF OpenFile, truncateFile
  <2>2. CASE Finish("error")
    BY <1>12, <2>1, <2>2, EndTypes DEF OpenFile, EventTypeOK, eventVars
  <2>3. CASE ~Finish("error")
    BY <1>12, <2>1, <2>3 DEF OpenFile, Goto, EventTypeOK, eventVars, Step
  <2> QED
    BY <2>2, <2>3
<1>13. CASE FlushFile
  <2>1. PICK f : f \in File /\ (files' = files \/ files' = [files EXCEPT ![call.dir][call.id] = f])
    <3>1. cutOff(refs) \subseteq File
      BY FileType, CutOffFile
    <3> QED
      BY <1>13, <3>1, FileType DEF FlushFile, flushFile
  <2> QED
    BY <1>13, <2>1 DEF FlushFile, Goto, EventTypeOK, eventVars, Step, FilesTypeOK
<1>14. CASE ResetStatus
  <2>1. EventTypeOK' /\ statDict' \in [Key -> Status]
    BY <1>14, SetStatusTypes, DataAssumption DEF ResetStatus
  <2>2. CASE Throw
    BY <1>14, <2>1, <2>2, EndTypes DEF ResetStatus, Throw
  <2>3. CASE ~Throw
    BY <1>14, <2>1, <2>3 DEF ResetStatus, Goto, obsolete, services, Step
  <2> QED
    BY <2>2, <2>3
<1>15. CASE CleanupDone
  BY <1>15 DEF CleanupDone, Goto, EventTypeOK, eventVars, Step
<1>16. CASE EmitWritten
  <2>1. EventTypeOK'
    <3>1. CASE inited
      BY <1>16, <3>1, EventTypes, DataAssumption DEF EmitWritten
    <3>2. CASE ~inited
      BY <1>16, <3>2 DEF EmitWritten, EventTypeOK, eventVars
    <3> QED
      BY <3>1, <3>2
  <2> QED
    BY <1>16, <2>1, EndTypes DEF EmitWritten, Throw
<1>17. CASE RemovePluginData
  <2>1. PICK s \in Service :
           /\ \/ Finish("error") \/ (Goto("premove") /\ todo' = todo \ {s})
           /\ pluginRemove(refs[s]) \/ UNCHANGED pluginVars
    BY <1>17 DEF RemovePluginData
  <2>2. PluginTypeOK'
    BY <2>1 DEF pluginRemove
  <2>3. CASE Finish("error")
    BY <1>17, <2>2, <2>3, EndTypes DEF RemovePluginData, EventTypeOK, eventVars
  <2>4. CASE Goto("premove") /\ todo' = todo \ {s}
    BY <1>17, <2>2, <2>4 DEF RemovePluginData, Goto, EventTypeOK, eventVars, Step
  <2> QED
    BY <2>1, <2>3, <2>4
<1>18. CASE UnlinkFile
  <2>1. files' \in [Parser -> [Key -> File]]
    BY <1>18, FileType DEF UnlinkFile, unlinkFile
  <2>2. CASE Finish("error")
    BY <1>18, <2>1, <2>2, EndTypes DEF UnlinkFile, EventTypeOK, eventVars
  <2>3. CASE ~Finish("error")
    BY <1>18, <2>1, <2>3 DEF UnlinkFile, Goto, EventTypeOK, eventVars, Step
  <2> QED
    BY <2>2, <2>3
<1>19. CASE EraseStatus
  <2>1. EventTypeOK'
    <3>1. CASE inited
      BY <1>19, <3>1, EventTypes, DataAssumption DEF EraseStatus
    <3>2. CASE ~inited
      BY <1>19, <3>2 DEF EraseStatus, EventTypeOK, eventVars
    <3> QED
      BY <3>1, <3>2
  <2>2. statDict' \in [Key -> Status]
    BY <1>19, DataAssumption DEF EraseStatus, eraseStatus
  <2> QED
    BY <1>19, <2>1, <2>2, EndTypes DEF EraseStatus, Throw
<1>20. CASE Scan
  BY <1>20 DEF Scan, uninitialized, EventTypeOK, eventVars, Step
<1>21. CASE AutoInitialize
  <2>1. PICK s \in Service :
           /\ boot' = boot \ {s}
           /\ \/ createAccount("autoinit", {s}, TRUE)
              \/ UNCHANGED <<files, pluginVars, secrets, eventVars, ctlVars, statDict>>
    BY <1>21 DEF AutoInitialize
  <2>2. CASE createAccount("autoinit", {s}, TRUE)
    BY <2>1, <2>2, CreateTypes DEF Op
  <2>3. CASE UNCHANGED <<files, pluginVars, secrets, eventVars, ctlVars, statDict>>
    BY <2>1, <2>3 DEF EventTypeOK, eventVars, ctlVars
  <2> QED
    BY <2>1, <2>2, <2>3
<1>22. CASE Serve
  BY <1>22 DEF Serve, EventTypeOK, eventVars, Step
<1>23. CASE SaveSecret
  <2>1. SecretTypeOK'
    BY <1>23, SecretTypes DEF SaveSecret
  <2> QED
    BY <1>23, <2>1 DEF SaveSecret, afterSave, EventTypeOK, eventVars, Step
<1>24. CASE DropSecret
  <2>1. SecretTypeOK'
    BY <1>24, SecretTypes DEF DropSecret
  <2> QED
    BY <1>24, <2>1 DEF DropSecret, Goto, NextService, EventTypeOK, eventVars, Step
<1>25. CASE CleanupOld
  <2>1. SecretTypeOK'
    BY <1>25, SecretTypes DEF CleanupOld
  <2> QED
    BY <1>25, <2>1 DEF CleanupOld, Goto, NextService, EventTypeOK, eventVars, Step
<1>26. CASE RemoveSecrets
  <2>1. SecretTypeOK'
    BY <1>26 DEF RemoveSecrets, removeAccount, request
  <2> QED
    BY <1>26, <2>1 DEF RemoveSecrets, Goto, EventTypeOK, eventVars, Step
<1>27. CASE UNCHANGED vars
  BY <1>27 DEF vars, EventTypeOK
<1> QED
  BY <1>1, <1>2, <1>3, <1>4, <1>5, <1>6, <1>7, <1>8, <1>9, <1>10, <1>11, <1>12, <1>13, <1>14, <1>15, <1>16, <1>17, <1>18, <1>19, <1>20, <1>21, <1>22, <1>23, <1>24, <1>25, <1>26, <1>27
  DEF Next, Request, Local, SecretCall

(* Type correctness: every store and every control variable keeps its type *)
(* whatever happens.                                                       *)
THEOREM TypeCorrect == Spec => []TypeOK
BY InitType, TypeStep, PTL DEF Spec
-----------------------------------------------------------------------------
(***************************************************************************)
(* An account file is only written when everything it relies on is stored. *)
(* The invariant follows verify service by service: as long as `verified`  *)
(* holds, the token of each service already passed is with the secret      *)
(* service, and each plugin id obtained so far still has its data.         *)
(***************************************************************************)
TokenStored(s) == s \in TokenServices => <<call.id, s>> \in secrets

Verifying == pc \in {"verify", "save", "write"}

BackedInv ==
    /\ Verifying /\ verified => \A s \in services(refs) \ todo : TokenStored(s)
    /\ pc = "write" => \A s \in Service : IsFirst(s, todo) => TokenStored(s)
    /\ Verifying \/ pc = "flush" => \A s \in Service : refs[s] \in PluginId => refs[s] \in pdata
    /\ pc = "flush" => \A s \in services(refs) : TokenStored(s)

LEMMA BackedBegin ==
    ASSUME TypeOK, NEW op, NEW id, NEW oldId, NEW old, NEW p, NEW S \in SUBSET Service,
           BeginWrite(op, id, oldId, old, p, S)
    PROVE  BackedInv'
BY DataAssumption DEF BeginWrite, BackedInv, Verifying, services, TokenStored

LEMMA BackedRefuse == BackedInv /\ Refuse => BackedInv'
BY DEF Refuse, BackedInv, Verifying, services, TokenStored, pluginVars

(* Outside verification and before the file is flushed it says nothing.    *)
LEMMA BackedElsewhere ==
    pc' \notin {"verify", "save", "write", "flush"} => BackedInv'
BY DEF BackedInv, Verifying

LEMMA BackedStep == TypeOK /\ BackedInv /\ [Next]_vars => BackedInv'
<1> SUFFICES ASSUME TypeOK, BackedInv, [Next]_vars PROVE BackedInv'
  OBVIOUS
<1>1. CASE Start
  BY <1>1, BackedElsewhere DEF Start, Goto, Finish, Throw, Terminate
<1>2. CASE Exit
  BY <1>2, BackedElsewhere DEF Exit, Goto, Finish, Throw, Terminate
<1>3. CASE Add
  <2>1. PICK S \in SUBSET Service, wellFormed \in BOOLEAN :
           Refuse \/ createAccount("add", S, wellFormed)
    BY <1>3 DEF Add
  <2> QED
    BY <2>1, BackedRefuse, BackedBegin DEF createAccount
<1>4. CASE Edit
  <2>1. PICK id \in Key, S \in SUBSET Service :
           \/ Refuse
           \/ \E r \in readAccount(id) : \E p \in editTarget(r, id) :
                 BeginWrite("edit", id, readId(r, id), services(files[r][id].refs), p, S)
    BY <1>4 DEF Edit
  <2> QED
    BY <2>1, BackedRefuse, BackedBegin
<1>5. CASE Remove
  <2>1. PICK id \in Key : Refuse \/ pc' = "premove"
    BY <1>5 DEF Remove
  <2> QED
    BY <2>1, BackedRefuse, BackedElsewhere
<1>6. CASE SetStatus
  BY <1>6 DEF SetStatus, BackedInv, Verifying, services, TokenStored, pluginVars
<1>7. CASE VerifyService
  <2>1. PICK s \in Service :
           /\ IsFirst(s, todo)
           /\ \/ /\ pc' = (IF s \in TokenServices THEN "save" ELSE "write")
                 /\ UNCHANGED <<todo, verified>>
              \/ todo' = todo \ {s} /\ verified' = FALSE /\ UNCHANGED pc
    BY <1>7 DEF VerifyService
  <2>2. \A t \in Service : IsFirst(t, todo) => t = s
    BY <2>1, DataAssumption DEF IsFirst, TypeOK
  <2> QED
    BY <1>7, <2>1, <2>2 DEF VerifyService, BackedInv, Verifying, services, TokenStored, pluginVars
<1>8. CASE VerifyThrows
  BY <1>8, BackedElsewhere DEF VerifyThrows, Goto, Finish, Throw, Terminate
<1>9. CASE WritePlugin
  <2>1. PICK s \in Service :
           /\ NextService(s)
           /\ \/ \E pid \in freshPids(pidsOnDisk) :
                    pluginWrite(pid) /\ (refs' = [refs EXCEPT ![s] = pid] \/ UNCHANGED refs)
              \/ UNCHANGED <<pluginVars, refs>>
    BY <1>9 DEF WritePlugin
  <2>2. pc = "write" /\ pc' = "verify" /\ UNCHANGED <<call, verified, secrets>>
    BY <1>9 DEF WritePlugin
  <2>3. TokenStored(s) /\ todo' = todo \ {s}
    BY <2>1, <2>2 DEF BackedInv, NextService
  <2>4. \A t \in Service : refs'[t] \in PluginId => refs'[t] \in pdata'
    <3>1. CASE UNCHANGED <<pluginVars, refs>>
      BY <2>2, <3>1 DEF BackedInv, Verifying, pluginVars
    <3>2. CASE \E pid \in freshPids(pidsOnDisk) :
                  pluginWrite(pid) /\ (refs' = [refs EXCEPT ![s] = pid] \/ UNCHANGED refs)
      BY <2>2, <3>2 DEF BackedInv, Verifying, pluginWrite, TypeOK, ServiceRefs
    <3> QED
      BY <2>1, <3>1, <3>2
  <2>5. services(refs') \subseteq services(refs) \cup {s}
    BY <2>1, DataAssumption DEF services, TypeOK, ServiceRefs
  <2> QED
    BY <2>2, <2>3, <2>4, <2>5 DEF BackedInv, Verifying, TokenStored
<1>10. CASE BeginDrop
  BY <1>10, BackedElsewhere DEF BeginDrop, Goto, Finish, Throw, Terminate
<1>11. CASE VerificationFailed
  BY <1>11, BackedElsewhere DEF VerificationFailed, Goto, Finish, Throw, Terminate
<1>12. CASE OpenFile
  <2>1. CASE pc' = "flush"
    BY <1>12, <2>1 DEF OpenFile, Goto, Finish, Terminate, BackedInv, Verifying, services, TokenStored, pluginVars
  <2>2. CASE pc' # "flush"
    BY <1>12, <2>2, BackedElsewhere DEF OpenFile, Goto, Finish
  <2> QED
    BY <2>1, <2>2
<1>13. CASE FlushFile
  BY <1>13, BackedElsewhere DEF FlushFile, Goto, Finish, Throw, Terminate
<1>14. CASE ResetStatus
  BY <1>14, BackedElsewhere DEF ResetStatus, Goto, Finish, Throw, Terminate
<1>15. CASE CleanupDone
  BY <1>15, BackedElsewhere DEF CleanupDone, Goto, Finish, Throw, Terminate
<1>16. CASE EmitWritten
  BY <1>16, BackedElsewhere DEF EmitWritten, Goto, Finish, Throw, Terminate
<1>17. CASE RemovePluginData
  BY <1>17, BackedElsewhere DEF RemovePluginData, Goto, Finish, Throw, Terminate
<1>18. CASE UnlinkFile
  BY <1>18, BackedElsewhere DEF UnlinkFile, Goto, Finish, Throw, Terminate
<1>19. CASE EraseStatus
  BY <1>19, BackedElsewhere DEF EraseStatus, Goto, Finish, Throw, Terminate
<1>20. CASE Scan
  BY <1>20, BackedElsewhere DEF Scan, Goto, Finish, Throw, Terminate
<1>21. CASE AutoInitialize
  <2>1. PICK s \in Service :
           \/ createAccount("autoinit", {s}, TRUE)
           \/ UNCHANGED <<pc, ctlVars>>
    BY <1>21 DEF AutoInitialize, ctlVars
  <2>2. CASE createAccount("autoinit", {s}, TRUE)
    BY <2>2, BackedBegin DEF createAccount
  <2>3. CASE UNCHANGED <<pc, ctlVars>>
    BY <1>21, <2>3, BackedElsewhere DEF AutoInitialize
  <2> QED
    BY <2>1, <2>2, <2>3
<1>22. CASE Serve
  BY <1>22, BackedElsewhere DEF Serve, Goto, Finish, Throw, Terminate
<1>23. CASE SaveSecret
  <2>1. PICK s \in Service, ok \in BOOLEAN :
           IsFirst(s, todo) /\ setSecret(call.id, s, ok) /\ afterSave(s, ok)
    BY <1>23 DEF SaveSecret
  <2>2. \A t \in Service : IsFirst(t, todo) => t = s
    BY <2>1, DataAssumption DEF IsFirst, TypeOK
  <2>3. pc = "save" /\ UNCHANGED <<call, refs, pdata>>
    BY <1>23 DEF SaveSecret, pluginVars
  <2>4. secrets \subseteq secrets'
    BY <2>1 DEF setSecret, request
  <2>5. CASE ok
    <3>1. <<call.id, s>> \in secrets'
      BY <2>1, <2>5 DEF setSecret, request
    <3> QED
      BY <2>1, <2>2, <2>3, <2>4, <2>5, <3>1 DEF afterSave, BackedInv, Verifying, TokenStored
  <2>6. CASE ~ok
    BY <2>1, <2>3, <2>6 DEF afterSave, BackedInv, Verifying
  <2> QED
    BY <2>5, <2>6
<1>24. CASE DropSecret
  BY <1>24, BackedElsewhere DEF DropSecret, Goto, Finish, Throw, Terminate
<1>25. CASE CleanupOld
  BY <1>25, BackedElsewhere DEF CleanupOld, Goto, Finish, Throw, Terminate
<1>26. CASE RemoveSecrets
  BY <1>26, BackedElsewhere DEF RemoveSecrets, Goto, Finish, Throw, Terminate
<1>27. CASE UNCHANGED vars
  BY <1>27 DEF vars, BackedInv, Verifying, services, TokenStored, pluginVars
<1> QED
  BY <1>1, <1>2, <1>3, <1>4, <1>5, <1>6, <1>7, <1>8, <1>9, <1>10, <1>11, <1>12, <1>13, <1>14, <1>15, <1>16, <1>17, <1>18, <1>19, <1>20, <1>21, <1>22, <1>23, <1>24, <1>25, <1>26, <1>27
  DEF Next, Request, Local, SecretCall

LEMMA BackedInit == Init => BackedInv
BY DEF Init, BackedInv, Verifying

(* The step property: the only step that puts an account into a file is    *)
(* the flush, and the invariant holds where it starts.                     *)
LEMMA BackedCommit ==
    ASSUME TypeOK, BackedInv, [Next]_vars, NEW p \in Parser, NEW id \in AccountId,
           files'[p][id] # files[p][id], files'[p][id].kind = "account"
    PROVE  StoredBefore(id, files'[p][id].refs)
<1>1. CASE FlushFile
  <2>1. pc = "flush" /\ flushFile(call.dir, call.id, refs)
    BY <1>1 DEF FlushFile
  <2>2. PICK q \in ServiceRefs :
          /\ files' = [files EXCEPT ![call.dir][call.id] = AccountFile(q)]
          /\ \A s \in Service : /\ q[s] # Absent => refs[s] # Absent
                                /\ q[s] \in PluginId => q[s] = refs[s]
    <3>1. refs \in ServiceRefs
      BY DEF TypeOK
    <3>2. files' # [files EXCEPT ![call.dir][call.id] = GarbageFile]
      BY DEF TypeOK, FilesTypeOK, GarbageFile
    <3>3. CASE files' = [files EXCEPT ![call.dir][call.id] = AccountFile(refs)]
      BY <3>1, <3>3
    <3>4. CASE \E f \in cutOff(refs) : files' = [files EXCEPT ![call.dir][call.id] = f]
      <4>1. PICK f \in cutOff(refs) : files' = [files EXCEPT ![call.dir][call.id] = f]
        BY <3>4
      <4>2. f # GarbageFile
        BY <3>2, <4>1
      <4> QED
        BY <3>1, <4>1, <4>2, CutOffFile
    <3>5. files' # files
      OBVIOUS
    <3> QED
      BY <2>1, <3>3, <3>4, <3>5 DEF flushFile
  <2>3. p = call.dir /\ id = call.id /\ files'[p][id] = AccountFile(q)
    BY <2>2 DEF TypeOK, FilesTypeOK
  <2> QED
    BY <2>1, <2>2, <2>3 DEF StoredBefore, BackedInv, TokenStored, AccountFile, services
<1>2. CASE OpenFile
  <2>1. files' = [files EXCEPT ![call.dir][call.id] = EmptyFile]
    BY <1>2 DEF OpenFile, truncateFile
  <2> QED
    BY <2>1 DEF TypeOK, FilesTypeOK, EmptyFile
<1>3. CASE UnlinkFile
  <2>1. files' = [files EXCEPT ![call.dir][call.id] = NoFile]
    BY <1>3 DEF UnlinkFile, unlinkFile
  <2> QED
    BY <2>1 DEF TypeOK, FilesTypeOK, NoFile
<1>4. CASE UNCHANGED files
  BY <1>4
<1> QED
  BY <1>1, <1>2, <1>3, <1>4
  DEF Next, Request, Local, SecretCall, Start, Exit, Add, Edit, Remove, SetStatus, Refuse, BeginWrite,
      createAccount, VerifyService, VerifyThrows, WritePlugin, BeginDrop, VerificationFailed,
      ResetStatus, CleanupDone, EmitWritten, RemovePluginData, EraseStatus, Scan, AutoInitialize,
      Serve, SaveSecret, DropSecret, CleanupOld, RemoveSecrets, vars

(* No account file is ever written, under any faults, before everything it *)
(* refers to is stored.                                                    *)
THEOREM CommitsAreBacked == Spec => CommitIsBacked
<1>1. Init => TypeOK /\ BackedInv
  BY InitType, BackedInit
<1>2. TypeOK /\ BackedInv /\ [Next]_vars => TypeOK' /\ BackedInv'
  BY TypeStep, BackedStep
<1>3. TypeOK /\ BackedInv /\ [Next]_vars =>
        [\A p \in Parser, id \in AccountId :
          (files'[p][id] # files[p][id] /\ files'[p][id].kind = "account") => StoredBefore(id, files'[p][id].refs)]_vars
  BY BackedCommit
<1> QED
  BY <1>1, <1>2, <1>3, PTL DEF Spec, CommitIsBacked
=============================================================================
