------------------------ MODULE AccountHomes_proofs -------------------------
(***************************************************************************)
(* Where AccountManager keeps an account, for every choice of accounts,    *)
(* services, plugins and directories: what lies in a read-only directory   *)
(* stays as it is under any faults, and as long as no file is truncated or *)
(* cut off, an account has one file, a status belongs to an account, what  *)
(* is listed can be got, the account manager implements the registry, and  *)
(* an answer of ok means that the request was carried out.  With fewer     *)
(* faults still, subscribers and secrets are in step with the accounts,    *)
(* and a removal completes.                                                *)
(***************************************************************************)
EXTENDS AccountManager_proofs, AccountRefinement

USE DEF Key

(* The steps of a request before it writes its file, and all those at      *)
(* which it is about a file.                                               *)
Verifying4 == {"verify", "save", "write", "drop"}
AtFile == Verifying4 \cup {"flush", "status", "premove", "unlink", "erase"}

(* The kinds of steps, by what they do to the files, the statuses and the  *)
(* request at hand.                                                        *)
Quiet ==
    /\ UNCHANGED <<files, statDict, call>>
    /\ \/ pc' = pc
       \/ pc \in Verifying4 /\ pc' \in Verifying4
       \/ pc = "premove" /\ pc' = "unlink"
       \/ <<pc, pc'>> \in {<<"down", "scan">>, <<"scan", "boot">>, <<"boot", "idle">>, <<"cleanup", "emit">>}

Ends ==
    /\ UNCHANGED <<files, statDict>> /\ call' = NoCall
    /\ pc \notin {"flush", "status", "erase"} /\ pc' \in {"boot", "idle", "down"}

BeginsCreation ==
    /\ pc \in {"idle", "boot"}
    /\ \E op \in {"add", "autoinit"}, id \in freshIds, p \in findParser(NullId, TRUE), S \in SUBSET Service :
          BeginWrite(op, id, id, {}, p, S)

BeginsEdit ==
    /\ pc = "idle"
    /\ \E id \in Key, S \in SUBSET Service : \E r \in readAccount(id) : \E p \in editTarget(r, id) :
          BeginWrite("edit", id, readId(r, id), services(files[r][id].refs), p, S)

BeginsRemoval ==
    /\ pc = "idle" /\ pc' = "premove"
    /\ \E id \in Key : \E p \in findParser(id, TRUE) :
          /\ parserRead(p, id)
          /\ call' = [op |-> "remove", id |-> id, oldId |-> readId(p, id),
                      old |-> services(files[p][id].refs), dir |-> p]
    /\ UNCHANGED <<files, statDict>>

Truncates ==
    /\ pc = "verify" /\ pc' = "flush" /\ ~writeRefused(call.dir, call.id)
    /\ truncateFile(call.dir, call.id)
    /\ UNCHANGED <<call, statDict>>

OpenFails == "disk" \in Faults /\ pc = "verify" /\ pc' = "status" /\ UNCHANGED <<files, call, statDict>>

Flushes ==
    /\ pc = "flush" /\ pc' = "status"
    /\ flushFile(call.dir, call.id, refs)
    /\ UNCHANGED <<call, statDict>>

Unlinks ==
    /\ pc = "unlink" /\ pc' = "erase" /\ ~removeRefused(call.dir, call.id)
    /\ unlinkFile(call.dir, call.id)
    /\ UNCHANGED <<call, statDict>>

Resets ==
    /\ pc = "status" /\ setStatus(call.oldId, NONE)
    /\ \/ pc' \in {"cleanup", "emit"} /\ UNCHANGED call
       \/ pc' \in {"boot", "idle", "down"} /\ call' = NoCall
    /\ UNCHANGED files

Erases ==
    /\ pc = "erase" /\ pc' \in {"boot", "idle", "down"} /\ call' = NoCall
    /\ eraseStatus
    /\ UNCHANGED files

Reports ==
    /\ pc = "idle" /\ pc' = "idle"
    /\ \E id \in Key, stat \in Status : setStatus(id, stat)
    /\ UNCHANGED <<files, call>>

Stops ==
    /\ pc = "flush" => "torn" \in Faults
    /\ pc' = "down" /\ call' = NoCall /\ statDict' = [k \in Key |-> NONE]
    /\ UNCHANGED files

StepKind ==
    \/ Quiet \/ Ends \/ BeginsCreation \/ BeginsEdit \/ BeginsRemoval \/ Truncates \/ OpenFails
    \/ Flushes \/ Unlinks \/ Resets \/ Erases \/ Reports \/ Stops

LEMMA StepKinds ==
    ASSUME TypeOK, [Next]_vars PROVE StepKind
<1> USE DEF Goto, Finish, Throw, Terminate, Verifying4, AtFile
<1>1. CASE Start
  BY <1>1 DEF Start, Quiet, StepKind
<1>2. CASE Exit
  BY <1>2 DEF Exit, Stops, StepKind
<1>3. CASE Add
  <2>1. PICK S \in SUBSET Service, wellFormed \in BOOLEAN :
           Refuse \/ createAccount("add", S, wellFormed)
    BY <1>3 DEF Add
  <2>2. CASE Refuse
    BY <2>2 DEF Refuse, Quiet, StepKind
  <2>3. CASE createAccount("add", S, wellFormed)
    BY <1>3, <2>3 DEF Add, createAccount, BeginsCreation, StepKind
  <2> QED
    BY <2>1, <2>2, <2>3
<1>4. CASE Edit
  <2>1. CASE Refuse
    BY <2>1 DEF Refuse, Quiet, StepKind
  <2>2. CASE ~Refuse
    BY <1>4, <2>2 DEF Edit, BeginsEdit, StepKind
  <2> QED
    BY <2>1, <2>2
<1>5. CASE Remove
  <2>1. CASE Refuse
    BY <2>1 DEF Refuse, Quiet, StepKind
  <2>2. CASE ~Refuse
    BY <1>5, <2>2 DEF Remove, BeginsRemoval, StepKind
  <2> QED
    BY <2>1, <2>2
<1>6. CASE SetStatus
  BY <1>6 DEF SetStatus, Reports, StepKind
<1>7. CASE VerifyService
  BY <1>7 DEF VerifyService, Quiet, StepKind
<1>8. CASE VerifyThrows
  BY <1>8 DEF VerifyThrows, Ends, StepKind
<1>9. CASE WritePlugin
  BY <1>9 DEF WritePlugin, Quiet, StepKind
<1>10. CASE BeginDrop
  BY <1>10 DEF BeginDrop, Quiet, StepKind
<1>11. CASE VerificationFailed
  BY <1>11 DEF VerificationFailed, Ends, StepKind
<1>12. CASE OpenFile
  BY <1>12 DEF OpenFile, Ends, Truncates, OpenFails, StepKind
<1>13. CASE FlushFile
  BY <1>13 DEF FlushFile, Flushes, StepKind
<1>14. CASE ResetStatus
  BY <1>14 DEF ResetStatus, Resets, StepKind
<1>15. CASE CleanupDone
  BY <1>15 DEF CleanupDone, Quiet, StepKind
<1>16. CASE EmitWritten
  BY <1>16 DEF EmitWritten, Ends, StepKind
<1>17. CASE RemovePluginData
  BY <1>17 DEF RemovePluginData, Quiet, Ends, StepKind
<1>18. CASE UnlinkFile
  BY <1>18 DEF UnlinkFile, Unlinks, Ends, StepKind
<1>19. CASE EraseStatus
  BY <1>19 DEF EraseStatus, Erases, StepKind
<1>20. CASE Scan
  BY <1>20 DEF Scan, Quiet, StepKind
<1>21. CASE AutoInitialize
  <2>1. PICK s \in Service :
           \/ createAccount("autoinit", {s}, TRUE)
           \/ UNCHANGED <<files, ctlVars, statDict>>
    BY <1>21 DEF AutoInitialize
  <2>2. CASE createAccount("autoinit", {s}, TRUE)
    <3>1. {s} \in SUBSET Service
      OBVIOUS
    <3> QED
      BY <1>21, <2>2, <3>1 DEF AutoInitialize, createAccount, BeginsCreation, StepKind
  <2>3. CASE UNCHANGED <<files, ctlVars, statDict>>
    BY <2>3 DEF ctlVars, Quiet, StepKind
  <2> QED
    BY <2>1, <2>2, <2>3
<1>22. CASE Serve
  BY <1>22 DEF Serve, Quiet, StepKind
<1>23. CASE SaveSecret
  BY <1>23 DEF SaveSecret, afterSave, Quiet, StepKind
<1>24. CASE DropSecret
  BY <1>24 DEF DropSecret, Quiet, StepKind
<1>25. CASE CleanupOld
  BY <1>25 DEF CleanupOld, Quiet, StepKind
<1>26. CASE RemoveSecrets
  BY <1>26 DEF RemoveSecrets, Quiet, StepKind
<1>27. CASE UNCHANGED vars
  BY <1>27 DEF vars, Quiet, StepKind
<1> QED
  BY <1>1, <1>2, <1>3, <1>4, <1>5, <1>6, <1>7, <1>8, <1>9, <1>10, <1>11, <1>12, <1>13, <1>14, <1>15,
     <1>16, <1>17, <1>18, <1>19, <1>20, <1>21, <1>22, <1>23, <1>24, <1>25, <1>26, <1>27
  DEF Next, Request, Local, SecretCall
-----------------------------------------------------------------------------
(* Accounts in read-only directories, under any faults. *)

(* No file has the null id; what is read-only was put there as an account, *)
(* and no writable directory has it; no request is about it.               *)
RoInv ==
    /\ \A p \in Parser : files[p][NullId] = NoFile
    /\ \A p \in Parser, id \in AccountId :
          isReadonly(p) /\ hasAccount(p, id) =>
             /\ files[p][id].kind = "account"
             /\ \A q \in Parser : ~isReadonly(q) => ~hasAccount(q, id)
    /\ call.id \notin ReadonlyIds /\ call.oldId \in {call.id, NullId}
    /\ pc = "flush" => ~isReadonly(call.dir) /\ call.id # NullId

LEMMA RoInit == Init => RoInv
<1> SUFFICES ASSUME Init PROVE RoInv
  OBVIOUS
<1>1. PICK home \in [Provisioned -> Parser], file \in [Provisioned -> ProvisionedFile] :
        files = [p \in Parser |-> [k \in Key |->
                   IF k \in Provisioned /\ home[k] = p THEN file[k] ELSE NoFile]]
  BY DEF Init, FilesInit
<1>2. NullId \notin Provisioned
  BY DataAssumption, DirAssumption
<1>3. \A p \in Parser : files[p][NullId] = NoFile
  BY <1>1, <1>2
<1>4. \A p \in Parser, id \in AccountId :
         hasAccount(p, id) => id \in Provisioned /\ home[id] = p /\ files[p][id].kind = "account"
  <2> SUFFICES ASSUME NEW p \in Parser, NEW id \in AccountId, hasAccount(p, id)
               PROVE  id \in Provisioned /\ home[id] = p /\ files[p][id].kind = "account"
    OBVIOUS
  <2>1. files[p][id] = IF id \in Provisioned /\ home[id] = p THEN file[id] ELSE NoFile
    BY <1>1
  <2>2. files[p][id] # NoFile
    BY DEF hasAccount, NoFile
  <2>3. file[id] \in ProvisionedFile \ {NoFile}
    BY <2>1, <2>2
  <2>4. file[id].kind = "account"
    BY <2>3 DEF ProvisionedFile, AccountFile
  <2> QED
    BY <2>1, <2>2, <2>4
<1>5. \A p, q \in Parser, id \in AccountId :
         isReadonly(p) /\ hasAccount(p, id) /\ ~isReadonly(q) => ~hasAccount(q, id)
  BY <1>4
<1>6. pc = "down" /\ call.id = NullId /\ call.oldId = NullId /\ call.id \notin ReadonlyIds
  BY DataAssumption DEF Init, NoCall, ReadonlyIds
<1> QED
  BY <1>3, <1>4, <1>5, <1>6 DEF RoInv

(* findParser(id, TRUE) returns a writable directory, and one that has the *)
(* account unless it was asked for the null id.                            *)
LEMMA FindWritable ==
    ASSUME NEW id, NEW p \in findParser(id, TRUE)
    PROVE  p \in Parser /\ ~isReadonly(p) /\ (id = NullId \/ hasAccount(p, id))
BY DEF findParser, candidates, IsFirst

LEMMA FindAny ==
    ASSUME NEW id, NEW p \in findParser(id, FALSE)
    PROVE  p \in Parser /\ (id = NullId \/ hasAccount(p, id))
BY DEF findParser, candidates, IsFirst

LEMMA ReadHas ==
    ASSUME RoInv, NEW id \in Key, NEW p \in Parser, parserRead(p, id)
    PROVE  id \in AccountId /\ hasAccount(p, id)
BY DEF RoInv, parserRead, hasAccount, NoFile

(* The step writes f to the file of the request at hand, and no other. *)
Writes(f) ==
    \A p \in Parser, k \in Key :
        files'[p][k] = IF p = call.dir /\ k = call.id THEN f ELSE files[p][k]

LEMMA OneFile ==
    ASSUME TypeOK, NEW f, files' = [files EXCEPT ![call.dir][call.id] = f]
    PROVE  Writes(f)
<1>1. files \in [Parser -> [Key -> File]]
  BY DEF TypeOK, FilesTypeOK
<1> SUFFICES ASSUME NEW p \in Parser, NEW k \in Key
             PROVE  files'[p][k] = IF p = call.dir /\ k = call.id THEN f ELSE files[p][k]
  BY DEF Writes
<1>2. CASE p = call.dir
  BY <1>1, <1>2
<1>3. CASE p # call.dir
  BY <1>1, <1>3
<1> QED
  BY <1>2, <1>3

LEMMA FileStep ==
    ASSUME TypeOK, RoInv, StepKind
    PROVE  \/ UNCHANGED files
           \/ /\ \E f \in File : Writes(f) /\ (call.id = NullId => f = NoFile)
              /\ ~isReadonly(call.dir)
<1>1. CASE Truncates
  <2>1. Writes(EmptyFile)
    BY <1>1, OneFile DEF Truncates, truncateFile
  <2> QED
    BY <1>1, <2>1, FileType DEF Truncates, writeRefused
<1>2. CASE Flushes
  <2>1. AccountFile(refs) \in File
    BY FileType DEF TypeOK
  <2>2. CASE files' = [files EXCEPT ![call.dir][call.id] = AccountFile(refs)]
    <3>1. Writes(AccountFile(refs))
      BY <2>2, OneFile
    <3> QED
      BY <1>2, <2>1, <3>1 DEF Flushes, RoInv
  <2>3. ASSUME NEW f \in cutOff(refs), files' = [files EXCEPT ![call.dir][call.id] = f]
        PROVE  f \in File /\ Writes(f)
    <3>1. f \in File
      BY CutOffFile, FileType DEF TypeOK
    <3> QED
      BY <2>3, <3>1, OneFile
  <2>4. (\E f \in cutOff(refs) : files' = [files EXCEPT ![call.dir][call.id] = f])
           => \E f \in File : Writes(f)
    BY <2>3
  <2> QED
    BY <1>2, <2>2, <2>4 DEF Flushes, flushFile, RoInv
<1>3. CASE Unlinks
  <2>1. Writes(NoFile)
    BY <1>3, OneFile DEF Unlinks, unlinkFile
  <2> QED
    BY <1>3, <2>1, FileType DEF Unlinks, removeRefused
<1>4. CASE UNCHANGED files
  BY <1>4
<1> QED
  BY <1>1, <1>2, <1>3, <1>4
  DEF StepKind, Quiet, Ends, BeginsCreation, BeginsEdit, BeginsRemoval, BeginWrite, OpenFails, Resets,
      Erases, Reports, Stops

LEMMA CallStep ==
    ASSUME TypeOK, RoInv, StepKind
    PROVE  \/ UNCHANGED call
           \/ /\ UNCHANGED files
              /\ call'.id \notin ReadonlyIds /\ call'.oldId \in {call'.id, NullId}
<1>1. CASE BeginsCreation
  <2>1. PICK op \in {"add", "autoinit"}, id \in freshIds, p \in findParser(NullId, TRUE), S \in SUBSET Service :
           BeginWrite(op, id, id, {}, p, S)
    BY <1>1 DEF BeginsCreation
  <2>2. id \notin ReadonlyIds
    BY DEF freshIds, unusedId, ReadonlyIds, hasAccount, NoFile
  <2> QED
    BY <2>1, <2>2 DEF BeginWrite
<1>2. CASE BeginsEdit
  <2>1. PICK id \in Key, S \in SUBSET Service :
           \E r \in readAccount(id) : \E p \in editTarget(r, id) :
              BeginWrite("edit", id, readId(r, id), services(files[r][id].refs), p, S)
    BY <1>2 DEF BeginsEdit
  <2>2. PICK r \in readAccount(id) : \E p \in editTarget(r, id) :
           BeginWrite("edit", id, readId(r, id), services(files[r][id].refs), p, S)
    BY <2>1
  <2>3. PICK p \in editTarget(r, id) :
           BeginWrite("edit", id, readId(r, id), services(files[r][id].refs), p, S)
    BY <2>2
  <2>4. r \in Parser /\ parserRead(r, id)
    BY FindAny DEF readAccount
  <2>5. id \in AccountId /\ hasAccount(r, id)
    BY <2>4, ReadHas
  <2>6. id \notin ReadonlyIds
    <3>1. CASE files[r][id].kind = "empty"
      BY <3>1, <2>4, <2>5 DEF RoInv, ReadonlyIds
    <3>2. CASE files[r][id].kind # "empty"
      <4>1. p \in Parser /\ ~isReadonly(p) /\ hasAccount(p, id)
        BY <3>2, <2>5, FindWritable, DataAssumption DEF editTarget, readId
      <4> QED
        BY <4>1 DEF RoInv, ReadonlyIds
    <3> QED
      BY <3>1, <3>2
  <2> QED
    BY <2>3, <2>6 DEF BeginWrite, readId
<1>3. CASE BeginsRemoval
  <2>1. PICK id \in Key : \E p \in findParser(id, TRUE) :
          /\ parserRead(p, id)
          /\ call' = [op |-> "remove", id |-> id, oldId |-> readId(p, id),
                      old |-> services(files[p][id].refs), dir |-> p]
    BY <1>3 DEF BeginsRemoval
  <2>2. PICK p \in findParser(id, TRUE) :
          /\ parserRead(p, id)
          /\ call' = [op |-> "remove", id |-> id, oldId |-> readId(p, id),
                      old |-> services(files[p][id].refs), dir |-> p]
    BY <2>1
  <2>3. p \in Parser /\ ~isReadonly(p)
    BY FindWritable
  <2>4. id \in AccountId /\ hasAccount(p, id)
    BY <2>2, <2>3, ReadHas
  <2>5. id \notin ReadonlyIds
    BY <2>3, <2>4 DEF RoInv, ReadonlyIds
  <2> QED
    BY <1>3, <2>2, <2>5 DEF BeginsRemoval, readId
<1>4. CASE UNCHANGED files /\ call' = NoCall
  BY <1>4, DataAssumption DEF NoCall, ReadonlyIds
<1>5. CASE UNCHANGED call
  BY <1>5
<1> QED
  BY <1>1, <1>2, <1>3, <1>4, <1>5
  DEF StepKind, Quiet, Ends, Truncates, OpenFails, Flushes, Unlinks, Resets, Erases, Reports, Stops

(* The files in read-only directories, and those of the accounts there.    *)
LEMMA RoFiles ==
    ASSUME TypeOK, RoInv, StepKind
    PROVE  /\ \A p \in Parser, k \in Key : isReadonly(p) \/ k \in ReadonlyIds => files'[p][k] = files[p][k]
           /\ \A p \in Parser : files'[p][NullId] = NoFile
           /\ ReadonlyIds' = ReadonlyIds
<1>1. \A p \in Parser, k \in Key : isReadonly(p) \/ k \in ReadonlyIds => files'[p][k] = files[p][k]
  BY FileStep DEF RoInv, Writes
<1>2. \A p \in Parser : files'[p][NullId] = NoFile
  BY FileStep DEF RoInv, Writes
<1>3. ReadonlyIds' = ReadonlyIds
  BY <1>1 DEF ReadonlyIds, hasAccount, Parser, isReadonly
<1> QED
  BY <1>1, <1>2, <1>3

LEMMA RoStep == TypeOK /\ RoInv /\ [Next]_vars => RoInv'
<1> SUFFICES ASSUME TypeOK, RoInv, [Next]_vars PROVE RoInv'
  OBVIOUS
<1>0. StepKind
  BY StepKinds
<1>1. ASSUME NEW p \in Parser, NEW id \in AccountId, isReadonly(p), hasAccount(p, id)'
      PROVE  /\ files'[p][id].kind = "account"
             /\ \A q \in Parser : ~isReadonly(q) => ~hasAccount(q, id)'
  <2>1. files'[p][id] = files[p][id] /\ hasAccount(p, id)
    BY <1>0, <1>1, RoFiles DEF hasAccount
  <2>2. id \in ReadonlyIds
    BY <1>1, <2>1 DEF ReadonlyIds
  <2>3. \A q \in Parser : files'[q][id] = files[q][id]
    BY <1>0, <2>2, RoFiles
  <2> QED
    BY <1>1, <2>1, <2>3 DEF RoInv, hasAccount
<1>2. call'.id \notin ReadonlyIds' /\ call'.oldId \in {call'.id, NullId}
  BY <1>0, CallStep, RoFiles DEF RoInv
<1>3. pc' = "flush" => ~isReadonly(call'.dir) /\ call'.id # NullId
  BY <1>0 DEF StepKind, Quiet, Ends, BeginsCreation, BeginsEdit, BeginsRemoval, BeginWrite, Truncates,
      OpenFails, Flushes, Unlinks, Resets, Erases, Reports, Stops, RoInv, Verifying4, writeRefused
<1> QED
  BY <1>0, <1>1, <1>2, <1>3, RoFiles DEF RoInv, Parser, isReadonly

(* A step changes the secrets of the account of its request at most. *)
LEMMA SecretStep ==
    ASSUME TypeOK, [Next]_vars, NEW id, id \notin {call.id, call.oldId}
    PROVE  SecretsOf({id})' = SecretsOf({id})
<1>1. CASE SaveSecret
  BY <1>1 DEF SaveSecret, setSecret, request, SecretsOf
<1>2. CASE DropSecret
  BY <1>2 DEF DropSecret, removeService, request, SecretsOf
<1>3. CASE CleanupOld
  BY <1>3 DEF CleanupOld, removeService, request, SecretsOf
<1>4. CASE RemoveSecrets
  BY <1>4 DEF RemoveSecrets, removeAccount, request, SecretsOf
<1>5. CASE UNCHANGED secrets
  BY <1>5 DEF SecretsOf
<1> QED
  BY <1>1, <1>2, <1>3, <1>4, <1>5
  DEF Next, Request, Local, SecretCall, Start, Exit, Add, Edit, Remove, SetStatus, Refuse, BeginWrite,
      createAccount, VerifyService, VerifyThrows, WritePlugin, BeginDrop, VerificationFailed, OpenFile,
      FlushFile, UnlinkFile, ResetStatus, CleanupDone, EmitWritten, RemovePluginData, EraseStatus, Scan,
      AutoInitialize, Serve, vars

(* Under any faults, no step changes a file or a secret of an account that *)
(* lies in a read-only directory.                                          *)
THEOREM ReadonlyStays == Spec => ReadonlyUntouched
<1>1. Init => TypeOK /\ RoInv
  BY InitType, RoInit
<1>2. TypeOK /\ RoInv /\ [Next]_vars => TypeOK' /\ RoInv'
  BY TypeStep, RoStep
<1>3. ASSUME TypeOK, RoInv, [Next]_vars, NEW id \in ReadonlyIds
      PROVE  /\ \A p \in Parser : files'[p][id] = files[p][id]
             /\ SecretsOf({id})' = SecretsOf({id})
  <2>1. id \in AccountId /\ id \notin {call.id, call.oldId}
    BY <1>3, DataAssumption DEF RoInv, ReadonlyIds
  <2> QED
    BY <1>3, <2>1, StepKinds, RoFiles, SecretStep
<1>4. TypeOK /\ RoInv /\ [Next]_vars =>
        [\A id \in ReadonlyIds :
          /\ \A p \in Parser : files'[p][id] = files[p][id]
          /\ SecretsOf({id})' = SecretsOf({id})]_vars
  BY <1>3
<1> QED
  BY <1>1, <1>2, <1>4, PTL DEF Spec, ReadonlyUntouched
-----------------------------------------------------------------------------
(* Where an account lies, as long as no file is left truncated or cut off. *)

Untorn == Faults \cap {"torn", "disk"} = {}

WholeFiles ==
    \A p \in Parser, id \in AccountId :
        files[p][id].kind \in {"none", "account"} \/ (pc = "flush" /\ p = call.dir /\ id = call.id)

(* The request at hand: an edit finds the account where it will write it,  *)
(* a creation finds no trace of it.                                        *)
HomeCall ==
    /\ call.oldId = call.id
    /\ pc \in AtFile => call.id \in AccountId /\ call.dir \in Parser
    /\ pc \in Verifying4 /\ call.op = "edit" =>
          hasAccount(call.dir, call.id) /\ services(files[call.dir][call.id].refs) = call.old
    /\ pc \in Verifying4 /\ call.op # "edit" => unusedId(call.id)
    /\ pc \in Verifying4 \cup {"flush"} /\ call.op # "edit" => statDict[call.id] = NONE
    /\ pc \in {"flush", "status"} => hasAccount(call.dir, call.id)

HomeInv == WholeFiles /\ UniqueHome /\ StatusOfExisting /\ HomeCall

LEMMA HomeInit == Init => HomeInv
<1> SUFFICES ASSUME Init PROVE HomeInv
  OBVIOUS
<1>1. PICK home \in [Provisioned -> Parser], file \in [Provisioned -> ProvisionedFile] :
        files = [p \in Parser |-> [k \in Key |->
                   IF k \in Provisioned /\ home[k] = p THEN file[k] ELSE NoFile]]
  BY DEF Init, FilesInit
<1>2. ASSUME NEW p \in Parser, NEW id \in AccountId
      PROVE  /\ files[p][id].kind \in {"none", "account"}
             /\ hasAccount(p, id) => id \in Provisioned /\ home[id] = p
  <2>1. files[p][id] = IF id \in Provisioned /\ home[id] = p THEN file[id] ELSE NoFile
    BY <1>1
  <2>2. NoFile.kind = "none"
    BY DEF NoFile
  <2>3. \A f \in ProvisionedFile : f.kind \in {"none", "account"}
    BY DEF ProvisionedFile, NoFile, AccountFile
  <2>4. CASE id \in Provisioned /\ home[id] = p
    BY <2>1, <2>3, <2>4
  <2>5. CASE ~(id \in Provisioned /\ home[id] = p)
    BY <2>1, <2>2, <2>5 DEF hasAccount
  <2> QED
    BY <2>4, <2>5
<1>3. WholeFiles /\ UniqueHome
  BY <1>2 DEF WholeFiles, UniqueHome
<1>4. StatusOfExisting
  BY DEF Init, StatusOfExisting
<1>5. HomeCall
  BY DEF Init, HomeCall, NoCall, AtFile, Verifying4
<1> QED
  BY <1>3, <1>4, <1>5 DEF HomeInv

(* An account that is read is the one under its id in its only directory.  *)
LEMMA ReadHome ==
    ASSUME TypeOK, RoInv, HomeInv, pc = "idle", NEW id \in Key, NEW p \in Parser, parserRead(p, id)
    PROVE  id \in AccountId /\ hasAccount(p, id) /\ files[p][id].kind = "account" /\ readId(p, id) = id
<1>1. id \in AccountId /\ hasAccount(p, id)
  BY ReadHas
<1> QED
  BY <1>1 DEF HomeInv, WholeFiles, hasAccount, readId

(* How the files change in a step: not at all, or at the request's file.   *)
LEMMA HomeFiles ==
    ASSUME Untorn, TypeOK, RoInv, HomeInv, StepKind
    PROVE  \/ UNCHANGED files /\ (pc' = "flush" => pc = "flush" /\ UNCHANGED call) /\ (pc = "flush" => pc' = "flush")
           \/ Truncates /\ Writes(EmptyFile)
           \/ Flushes /\ Writes(AccountFile(refs))
           \/ Unlinks /\ Writes(NoFile)
<1>1. CASE Truncates
  BY <1>1, OneFile DEF Truncates, truncateFile
<1>2. CASE Flushes
  <2>1. files' = [files EXCEPT ![call.dir][call.id] = AccountFile(refs)]
    BY <1>2 DEF Flushes, flushFile, Untorn
  <2> QED
    BY <1>2, <2>1, OneFile
<1>3. CASE Unlinks
  BY <1>3, OneFile DEF Unlinks, unlinkFile
<1>4. CASE Stops
  BY <1>4 DEF Stops, Untorn
<1> QED
  BY <1>1, <1>2, <1>3, <1>4
  DEF StepKind, Quiet, Ends, BeginsCreation, BeginsEdit, BeginsRemoval, BeginWrite, OpenFails, Resets,
      Erases, Reports, Verifying4, AtFile

LEMMA UniqueStep ==
    ASSUME Untorn, TypeOK, RoInv, HomeInv, StepKind
    PROVE  WholeFiles' /\ UniqueHome'
<1> USE DEF HomeInv, WholeFiles, UniqueHome, hasAccount, Parser
<1>1. CASE UNCHANGED files /\ (pc' = "flush" => pc = "flush" /\ UNCHANGED call) /\ (pc = "flush" => pc' = "flush")
  BY <1>1
<1>2. CASE Truncates /\ Writes(EmptyFile)
  <2>1. pc = "verify" /\ pc' = "flush" /\ UNCHANGED call /\ call.id \in AccountId
    BY <1>2 DEF Truncates, HomeCall, AtFile, Verifying4
  <2>2. \A q \in Parser : q # call.dir => files[q][call.id].kind = "none"
    BY <2>1 DEF HomeCall, Verifying4, unusedId, NoFile, AtFile
  <2> QED
    BY <1>2, <2>1, <2>2 DEF Writes
<1>3. CASE Flushes /\ Writes(AccountFile(refs))
  <2>1. pc = "flush" /\ call.id \in AccountId /\ hasAccount(call.dir, call.id) /\ call.dir \in Parser
    BY <1>3 DEF Flushes, HomeCall, AtFile, Verifying4
  <2>2. \A q \in Parser : q # call.dir => files[q][call.id].kind = "none"
    BY <2>1
  <2> QED
    BY <1>3, <2>1, <2>2 DEF Writes, AccountFile
<1>4. CASE Unlinks /\ Writes(NoFile)
  BY <1>4 DEF Writes, NoFile, Unlinks
<1> QED
  BY <1>1, <1>2, <1>3, <1>4, HomeFiles

LEMMA CallHome ==
    ASSUME Untorn, TypeOK, RoInv, HomeInv, StepKind
    PROVE  HomeCall'
<1> USE DEF HomeCall
<1>1. CASE call' = NoCall /\ pc' \notin AtFile
  BY <1>1 DEF NoCall, AtFile, Verifying4
<1>2. CASE BeginsCreation
  <2>1. PICK op \in {"add", "autoinit"}, id \in freshIds, p \in findParser(NullId, TRUE), S \in SUBSET Service :
           BeginWrite(op, id, id, {}, p, S)
    BY <1>2 DEF BeginsCreation
  <2>2. /\ call'.id = id /\ call'.oldId = id /\ call'.op = op /\ call'.dir = p /\ pc' = "verify"
        /\ UNCHANGED <<files, statDict>>
    BY <2>1 DEF BeginWrite
  <2>3. id \in AccountId /\ unusedId(id) /\ statDict[id] = NONE /\ p \in Parser
    BY FindWritable DEF freshIds
  <2> QED
    BY <2>2, <2>3 DEF unusedId
<1>3. CASE BeginsEdit
  <2>1. PICK id \in Key, S \in SUBSET Service :
           \E r \in readAccount(id) : \E p \in editTarget(r, id) :
              BeginWrite("edit", id, readId(r, id), services(files[r][id].refs), p, S)
    BY <1>3 DEF BeginsEdit
  <2>2. PICK r \in readAccount(id) : \E p \in editTarget(r, id) :
           BeginWrite("edit", id, readId(r, id), services(files[r][id].refs), p, S)
    BY <2>1
  <2>3. PICK p \in editTarget(r, id) :
           BeginWrite("edit", id, readId(r, id), services(files[r][id].refs), p, S)
    BY <2>2
  <2>4. r \in Parser /\ parserRead(r, id)
    BY FindAny DEF readAccount
  <2>5. id \in AccountId /\ hasAccount(r, id) /\ readId(r, id) = id
    BY <1>3, <2>4, ReadHome DEF BeginsEdit
  <2>6. p \in Parser /\ hasAccount(p, id)
    BY <2>5, FindWritable, DataAssumption DEF editTarget
  <2>7. p = r
    BY <2>4, <2>5, <2>6 DEF HomeInv, UniqueHome
  <2>8. /\ call'.id = id /\ call'.oldId = id /\ call'.op = "edit" /\ call'.dir = p /\ pc' = "verify"
        /\ call'.old = services(files[p][id].refs) /\ UNCHANGED <<files, statDict>>
    BY <2>3, <2>5, <2>7 DEF BeginWrite
  <2> QED
    BY <2>5, <2>6, <2>8 DEF hasAccount
<1>4. CASE BeginsRemoval
  <2>1. PICK id \in Key : \E p \in findParser(id, TRUE) :
          /\ parserRead(p, id)
          /\ call' = [op |-> "remove", id |-> id, oldId |-> readId(p, id),
                      old |-> services(files[p][id].refs), dir |-> p]
    BY <1>4 DEF BeginsRemoval
  <2>2. PICK p \in findParser(id, TRUE) :
          /\ parserRead(p, id)
          /\ call' = [op |-> "remove", id |-> id, oldId |-> readId(p, id),
                      old |-> services(files[p][id].refs), dir |-> p]
    BY <2>1
  <2>3. p \in Parser
    BY FindWritable
  <2>4. id \in AccountId /\ readId(p, id) = id
    BY <1>4, <2>2, <2>3, ReadHome DEF BeginsRemoval
  <2>5. pc' = "premove"
    BY <1>4 DEF BeginsRemoval
  <2> QED
    BY <2>2, <2>3, <2>4, <2>5 DEF Verifying4
<1>5. CASE Truncates /\ Writes(EmptyFile)
  <2>1. /\ pc = "verify" /\ pc' = "flush" /\ UNCHANGED <<call, statDict>>
        /\ call.id \in AccountId /\ call.dir \in Parser
    BY <1>5 DEF Truncates, HomeInv, AtFile, Verifying4
  <2>2. files'[call.dir][call.id] = EmptyFile
    BY <1>5, <2>1 DEF Writes
  <2> QED
    BY <2>1, <2>2 DEF HomeInv, AtFile, Verifying4, hasAccount, EmptyFile
<1>6. CASE Flushes /\ Writes(AccountFile(refs))
  <2>1. /\ pc = "flush" /\ pc' = "status" /\ UNCHANGED <<call, statDict>>
        /\ call.id \in AccountId /\ call.dir \in Parser
    BY <1>6 DEF Flushes, HomeInv, AtFile, Verifying4
  <2>2. files'[call.dir][call.id] = AccountFile(refs)
    BY <1>6, <2>1 DEF Writes
  <2> QED
    BY <2>1, <2>2 DEF HomeInv, AtFile, Verifying4, hasAccount, AccountFile
<1>7. CASE Unlinks
  BY <1>7 DEF Unlinks, HomeInv, AtFile, Verifying4
<1>8. CASE Quiet
  BY <1>8 DEF Quiet, HomeInv, AtFile, Verifying4, hasAccount, unusedId
<1>9. CASE Reports \/ (Resets /\ UNCHANGED call)
  BY <1>9 DEF Reports, Resets, HomeInv, AtFile, Verifying4, NoCall
<1> QED
  BY <1>1, <1>2, <1>3, <1>4, <1>5, <1>6, <1>7, <1>8, <1>9, OneFile
  DEF StepKind, Ends, OpenFails, Truncates, truncateFile, Flushes, flushFile, Untorn, Resets, Erases, Stops,
      AtFile, Verifying4

(* setStatus files the status under the id it was given, of an account     *)
(* that exists.                                                            *)
LEMMA StatusSet ==
    ASSUME TypeOK, RoInv, HomeInv, pc \in {"idle", "status"}, NEW id \in Key, NEW stat, setStatus(id, stat)
    PROVE  \/ UNCHANGED statDict
           \/ id \in Existing /\ statDict' = [statDict EXCEPT ![id] = stat]
<1> SUFFICES ASSUME ~UNCHANGED statDict
             PROVE  id \in Existing /\ statDict' = [statDict EXCEPT ![id] = stat]
  OBVIOUS
<1>1. PICK p \in readAccount(id) : statDict' = [statDict EXCEPT ![readId(p, id)] = stat]
  BY DEF setStatus
<1>2. p \in Parser /\ parserRead(p, id)
  BY FindAny DEF readAccount
<1>3. id \in AccountId /\ hasAccount(p, id)
  BY <1>2, ReadHas
<1>4. readId(p, id) = id
  BY <1>2, <1>3 DEF HomeInv, WholeFiles, readId
<1> QED
  BY <1>1, <1>2, <1>3, <1>4 DEF Existing

LEMMA StatusStep ==
    ASSUME Untorn, TypeOK, RoInv, HomeInv, StepKind
    PROVE  StatusOfExisting'
<1>0. statDict \in [Key -> Status] /\ StatusOfExisting
  BY DEF TypeOK, HomeInv
<1> USE DEF StatusOfExisting, Existing, hasAccount, Parser
<1>1. CASE Stops
  BY <1>1 DEF Stops
<1>2. CASE Erases
  BY <1>0, <1>2 DEF Erases, eraseStatus, HomeInv, HomeCall
<1>3. CASE Unlinks /\ Writes(NoFile)
  BY <1>0, <1>3 DEF Unlinks, Writes
<1>4. CASE Truncates /\ Writes(EmptyFile)
  BY <1>0, <1>4 DEF Truncates, Writes, EmptyFile
<1>5. CASE Flushes /\ Writes(AccountFile(refs))
  BY <1>0, <1>5 DEF Flushes, Writes, AccountFile
<1>6. CASE Resets
  <2>1. call.oldId \in Key /\ call.oldId = call.id /\ call.id \in AccountId /\ pc = "status"
    BY <1>6 DEF Resets, HomeInv, HomeCall, AtFile
  <2>2. UNCHANGED statDict \/ statDict' = [statDict EXCEPT ![call.id] = NONE]
    BY <1>6, <2>1, StatusSet DEF Resets
  <2> QED
    BY <1>0, <1>6, <2>1, <2>2 DEF Resets
<1>7. CASE Reports
  <2>1. PICK id \in Key, stat \in Status : setStatus(id, stat)
    BY <1>7 DEF Reports
  <2>2. \/ UNCHANGED statDict
        \/ id \in Existing /\ statDict' = [statDict EXCEPT ![id] = stat]
    BY <1>7, <2>1, StatusSet DEF Reports
  <2> QED
    BY <1>0, <1>7, <2>2 DEF Reports
<1>8. CASE UNCHANGED <<files, statDict>> /\ (pc = "erase" => pc' = "erase" /\ UNCHANGED call)
  BY <1>0, <1>8
<1> QED
  BY <1>1, <1>2, <1>3, <1>4, <1>5, <1>6, <1>7, <1>8, HomeFiles
  DEF StepKind, Quiet, Ends, BeginsCreation, BeginsEdit, BeginsRemoval, BeginWrite, Truncates, Flushes,
      Unlinks, OpenFails, Untorn, Verifying4, AtFile

LEMMA HomeStep ==
    ASSUME Untorn PROVE TypeOK /\ RoInv /\ HomeInv /\ [Next]_vars => TypeOK' /\ RoInv' /\ HomeInv'
<1> SUFFICES ASSUME TypeOK, RoInv, HomeInv, [Next]_vars PROVE TypeOK' /\ RoInv' /\ HomeInv'
  OBVIOUS
<1>1. StepKind
  BY StepKinds
<1>2. WholeFiles' /\ UniqueHome' /\ HomeCall' /\ StatusOfExisting'
  BY <1>1, UniqueStep, CallHome, StatusStep
<1> QED
  BY <1>2, TypeStep, RoStep DEF HomeInv

LEMMA HomeInductive ==
    ASSUME Untorn PROVE Spec => [](TypeOK /\ RoInv /\ HomeInv)
<1>1. Init => TypeOK /\ RoInv /\ HomeInv
  BY InitType, RoInit, HomeInit
<1> QED
  BY <1>1, HomeStep, PTL DEF Spec

(* Unless a file is left truncated or cut off, no account is ever stored   *)
(* in two directories: an edit writes where it found the account.          *)
THEOREM OneHome == ASSUME Untorn PROVE Spec => []UniqueHome
<1>1. HomeInv => UniqueHome
  BY DEF HomeInv
<1> QED
  BY <1>1, HomeInductive, PTL

(* Unless a file is left truncated or cut off, only accounts that exist    *)
(* have a status, except the one that is being erased.                     *)
THEOREM StatusHasAccount == ASSUME Untorn PROVE Spec => []StatusOfExisting
<1>1. HomeInv => StatusOfExisting
  BY DEF HomeInv
<1> QED
  BY <1>1, HomeInductive, PTL

(* Unless a file is left truncated or cut off, every account that is       *)
(* listed between requests, under any filter, can be got.                  *)
THEOREM ListedCanBeGot == ASSUME Untorn PROVE Spec => []ListedIsGettable
<1>1. ASSUME TypeOK, RoInv, HomeInv PROVE ListedIsGettable
  <2> SUFFICES ASSUME pc = "idle", NEW S \in SUBSET Service, NEW id \in list(S)
               PROVE  \E found \in get(id) : S = {} \/ found \cap S # {}
    BY DEF ListedIsGettable
  <2>1. PICK l \in listAccounts(S) : id = readId(l[1], l[2])
    BY DEF list
  <2>2. PICK p \in Parser, k \in Key : l = <<p, k>>
    BY DEF listAccounts
  <2>3. parserRead(p, k) /\ (S = {} \/ servicesIn(<<p, k>>) \cap S # {})
    BY <2>2 DEF listAccounts
  <2>4. k \in AccountId /\ hasAccount(p, k) /\ id = k
    BY <1>1, <2>1, <2>2, <2>3, ReadHome
  <2>5. candidates(k, FALSE) = {p}
    <3>1. k # NullId
      BY <2>4, DataAssumption
    <3>2. \A q \in Parser : hasAccount(q, k) => q = p
      BY <1>1, <2>4 DEF HomeInv, UniqueHome
    <3> QED
      BY <2>4, <3>1, <3>2 DEF candidates
  <2>6. p \in findParser(k, FALSE)
    <3>1. p <= p
      BY DirAssumption DEF Parser
    <3> QED
      BY <2>5, <3>1 DEF findParser, IsFirst
  <2>7. servicesIn(<<p, id>>) \in get(id)
    BY <2>3, <2>4, <2>6 DEF get, readAccount
  <2> QED
    BY <2>3, <2>4, <2>7
<1> QED
  BY <1>1, HomeInductive, PTL
-----------------------------------------------------------------------------
(* The account manager implements the registry, step by step. *)

(* What the registry shows of an account that is not being written. *)
Shown ==
    \A id \in AccountId : ~Writing(id) =>
        /\ \A p \in Parser : hasAccount(p, id) => registered[id] = {services(files[p][id].refs)}
        /\ (\A p \in Parser : ~hasAccount(p, id)) => registered[id] = {}

LEMMA ShownAs == UniqueHome => Shown
<1> SUFFICES ASSUME UniqueHome, NEW id \in AccountId, ~Writing(id)
             PROVE  /\ \A p \in Parser : hasAccount(p, id) => registered[id] = {services(files[p][id].refs)}
                    /\ (\A p \in Parser : ~hasAccount(p, id)) => registered[id] = {}
  BY DEF Shown
<1>1. registered[id] = {services(files[p][id].refs) : p \in {q \in Parser : hasAccount(q, id)}}
  BY DEF registered
<1>2. ASSUME NEW p \in Parser, hasAccount(p, id) PROVE {q \in Parser : hasAccount(q, id)} = {p}
  BY <1>2 DEF UniqueHome
<1> QED
  BY <1>1, <1>2

LEMMA RegistryInitially == ASSUME Init, TypeOK, HomeInv PROVE Registry!RegistryInit
<1>1. \A id \in AccountId : ~Writing(id) /\ ~StatusPending(id)
  BY DEF Init, Writing, StatusPending
<1>2. shownStatus = [id \in AccountId |-> NONE] /\ NONE \in Status
  BY <1>1, DataAssumption DEF shownStatus, Init, getStatus
<1>3. \A id \in AccountId : registered[id] \in {{}} \cup {{S} : S \in SUBSET Service}
  BY <1>1, ShownAs DEF HomeInv, services, Shown
<1>4. registered \in [AccountId -> {{}} \cup {{S} : S \in SUBSET Service}]
  BY <1>3 DEF registered
<1>5. \A id \in readonlyIds : id \in AccountId /\ registered[id] # {}
  BY <1>1, ShownAs DEF HomeInv, readonlyIds, Shown
<1> QED
  BY <1>2, <1>4, <1>5 DEF Registry!RegistryInit, Registry!RegistryTypeOK, Registry!Exists

LEMMA AccountsKept ==
    ASSUME UNCHANGED files, (pc # "flush" /\ pc' # "flush") \/ UNCHANGED <<pc, call>>
    PROVE  registered' = registered
BY DEF registered, Writing, hasAccount, Parser

LEMMA StatusKept ==
    ASSUME UNCHANGED statDict,
           (pc \notin {"status", "erase"} /\ pc' \notin {"status", "erase"}) \/ UNCHANGED <<pc, call>>
    PROVE  shownStatus' = shownStatus
BY DEF shownStatus, StatusPending, getStatus

LEMMA ReadonlyKept == ASSUME TypeOK, RoInv, StepKind PROVE UNCHANGED readonlyIds
BY RoFiles DEF readonlyIds, ReadonlyIds

(* Truncating the file shows nothing yet. *)
LEMMA TruncationHidden ==
    ASSUME TypeOK, RoInv, HomeInv, Truncates, Writes(EmptyFile)
    PROVE  registered' = registered
<1>1. /\ pc = "verify" /\ pc' = "flush" /\ UNCHANGED call /\ call.id \in AccountId /\ call.dir \in Parser
      /\ \A id \in AccountId : ~Writing(id)
  BY DEF Truncates, HomeInv, HomeCall, AtFile, Verifying4, Writing
<1>2. registered'[call.id] = IF call.op = "edit" THEN {call.old} ELSE {}
  BY <1>1 DEF registered, Writing
<1>3. registered[call.id] = IF call.op = "edit" THEN {call.old} ELSE {}
  <2>1. CASE call.op = "edit"
    BY <1>1, <2>1, ShownAs DEF Shown, HomeInv, HomeCall, Verifying4
  <2>2. CASE call.op # "edit"
    <3>1. \A p \in Parser : ~hasAccount(p, call.id)
      BY <1>1, <2>2 DEF HomeInv, HomeCall, Verifying4, unusedId, hasAccount, NoFile
    <3> QED
      BY <1>1, <2>2, <3>1, ShownAs DEF Shown, HomeInv
  <2> QED
    BY <2>1, <2>2
<1>4. \A id \in AccountId : id # call.id => registered'[id] = registered[id]
  BY <1>1 DEF registered, Writing, Writes, hasAccount, Parser
<1> QED
  BY <1>2, <1>3, <1>4 DEF registered

(* Flushing it creates or modifies the account. *)
LEMMA FlushImplements ==
    ASSUME TypeOK, RoInv, HomeInv, UniqueHome', Flushes, Writes(AccountFile(refs)), UNCHANGED readonlyIds
    PROVE  Registry!RegistryNext
<1>1. /\ pc = "flush" /\ pc' = "status" /\ UNCHANGED <<call, statDict>>
      /\ call.id \in AccountId /\ call.dir \in Parser
  BY DEF Flushes, HomeInv, HomeCall, AtFile
<1>2. registered[call.id] = IF call.op = "edit" THEN {call.old} ELSE {}
  BY <1>1 DEF registered, Writing
<1>3. registered'[call.id] = {services(refs)}
  <2>1. Shown'
    BY ShownAs, PTL
  <2>2. files'[call.dir][call.id] = AccountFile(refs)
    BY <1>1 DEF Writes
  <2>3. hasAccount(call.dir, call.id)' /\ files'[call.dir][call.id].refs = refs /\ ~Writing(call.id)'
    BY <1>1, <2>2 DEF hasAccount, AccountFile, Writing
  <2> QED
    BY <1>1, <2>1, <2>3 DEF Shown, Parser, services
<1>4. \A id \in AccountId : id # call.id => registered'[id] = registered[id]
  BY <1>1 DEF registered, Writing, Writes, hasAccount, Parser
<1>5. registered' = [registered EXCEPT ![call.id] = {services(refs)}]
  BY <1>3, <1>4 DEF registered
<1>6. shownStatus' = [shownStatus EXCEPT ![call.id] = NONE]
  BY <1>1 DEF shownStatus, StatusPending, getStatus
<1>7. call.id \notin readonlyIds
  BY DEF RoInv, readonlyIds, ReadonlyIds
<1>8. services(refs) \in SUBSET Service
  BY DEF services
<1>9. CASE call.op = "edit"
  <2>1. Registry!Modify(call.id, services(refs))
    BY <1>2, <1>5, <1>6, <1>7, <1>9 DEF Registry!Modify, Registry!Exists
  <2> QED
    BY <1>1, <1>8, <2>1 DEF Registry!RegistryNext
<1>10. CASE call.op # "edit"
  <2>1. shownStatus' = shownStatus
    BY <1>1, <1>10 DEF HomeInv, HomeCall, shownStatus, StatusPending, getStatus
  <2>2. Registry!Create(call.id, services(refs))
    BY <1>2, <1>5, <1>10, <2>1 DEF Registry!Create, Registry!Exists
  <2> QED
    BY <1>1, <1>8, <2>2 DEF Registry!RegistryNext
<1> QED
  BY <1>9, <1>10

(* Unlinking it deletes the account. *)
LEMMA UnlinkImplements ==
    ASSUME TypeOK, RoInv, HomeInv, UniqueHome', Unlinks, Writes(NoFile), UNCHANGED readonlyIds
    PROVE  Registry!RegistryNext
<1>1. /\ pc = "unlink" /\ pc' = "erase" /\ UNCHANGED <<call, statDict>>
      /\ call.id \in AccountId /\ call.dir \in Parser /\ hasAccount(call.dir, call.id)
      /\ \A id \in AccountId : ~Writing(id) /\ ~Writing(id)'
  BY DEF Unlinks, removeRefused, HomeInv, HomeCall, AtFile, Writing
<1>2. registered[call.id] # {}
  BY <1>1, ShownAs DEF Shown, HomeInv
<1>3. registered'[call.id] = {}
  <2>1. Shown'
    BY ShownAs, PTL
  <2>2. \A q \in Parser : ~hasAccount(q, call.id)'
    BY <1>1 DEF HomeInv, UniqueHome, Writes, hasAccount, NoFile
  <2> QED
    BY <1>1, <2>1, <2>2 DEF Shown, Parser
<1>4. \A id \in AccountId : id # call.id => registered'[id] = registered[id]
  BY <1>1 DEF registered, Writing, Writes, hasAccount, Parser
<1>5. registered' = [registered EXCEPT ![call.id] = {}]
  BY <1>3, <1>4 DEF registered
<1>6. shownStatus' = [shownStatus EXCEPT ![call.id] = NONE]
  BY <1>1 DEF shownStatus, StatusPending, getStatus
<1>7. call.id \notin readonlyIds
  BY DEF RoInv, readonlyIds, ReadonlyIds
<1>8. Registry!Delete(call.id)
  BY <1>2, <1>5, <1>6, <1>7 DEF Registry!Delete, Registry!Exists
<1> QED
  BY <1>1, <1>8 DEF Registry!RegistryNext

(* A status that is set or reset is one that is reported. *)
LEMMA ReportImplements ==
    ASSUME HomeInv, NEW id \in AccountId, NEW p \in Parser, hasAccount(p, id), ~Writing(id),
           NEW stat \in Status, shownStatus' = [shownStatus EXCEPT ![id] = stat],
           UNCHANGED <<registered, readonlyIds>>
    PROVE  Registry!RegistryNext
<1>1. registered[id] # {}
  BY ShownAs DEF Shown, HomeInv
<1>2. Registry!Report(id, stat)
  BY <1>1 DEF Registry!Report, Registry!Exists
<1> QED
  BY <1>2 DEF Registry!RegistryNext

LEMMA RegistryStep ==
    ASSUME Untorn, TypeOK, RoInv, HomeInv, UniqueHome', StepKind
    PROVE  [Registry!RegistryNext]_(Registry!registryVars)
<1>0. UNCHANGED readonlyIds /\ statDict \in [Key -> Status]
  BY ReadonlyKept DEF TypeOK
<1> USE DEF Registry!registryVars
<1>1. CASE Truncates /\ Writes(EmptyFile)
  BY <1>0, <1>1, TruncationHidden, StatusKept DEF Truncates
<1>2. CASE Flushes /\ Writes(AccountFile(refs))
  BY <1>0, <1>2, FlushImplements
<1>3. CASE Unlinks /\ Writes(NoFile)
  BY <1>0, <1>3, UnlinkImplements
<1>4. CASE Resets
  <2>1. /\ pc = "status" /\ pc' \notin {"status", "erase", "flush"} /\ UNCHANGED files
        /\ call.id \in AccountId /\ call.dir \in Parser /\ hasAccount(call.dir, call.id)
        /\ call.oldId = call.id /\ ~Writing(call.id)
    BY <1>4 DEF Resets, HomeInv, HomeCall, AtFile, Writing
  <2>2. UNCHANGED statDict \/ statDict' = [statDict EXCEPT ![call.id] = NONE]
    BY <1>4, <2>1, StatusSet DEF Resets
  <2>3. shownStatus' = [shownStatus EXCEPT ![call.id] = statDict'[call.id]] /\ statDict'[call.id] \in Status
    BY <1>0, <2>1, <2>2, DataAssumption DEF shownStatus, StatusPending, getStatus
  <2>4. registered' = registered
    BY <2>1, AccountsKept
  <2> QED
    BY <1>0, <2>1, <2>3, <2>4, ReportImplements
<1>5. CASE Reports
  <2>1. PICK id \in Key, stat \in Status : setStatus(id, stat)
    BY <1>5 DEF Reports
  <2>2. pc = "idle" /\ pc' = "idle" /\ UNCHANGED <<files, call>>
    BY <1>5 DEF Reports
  <2>3. registered' = registered
    BY <2>2, AccountsKept
  <2>4. CASE UNCHANGED statDict
    BY <1>0, <2>2, <2>3, <2>4, StatusKept
  <2>5. CASE id \in Existing /\ statDict' = [statDict EXCEPT ![id] = stat]
    <3>1. PICK p \in Parser : hasAccount(p, id)
      BY <2>5 DEF Existing
    <3>2. id \in AccountId /\ ~Writing(id)
      BY <2>2, <2>5 DEF Existing, Writing
    <3>3. shownStatus' = [shownStatus EXCEPT ![id] = stat]
      BY <1>0, <2>2, <2>5 DEF shownStatus, StatusPending, getStatus
    <3> QED
      BY <1>0, <2>3, <3>1, <3>2, <3>3, ReportImplements
  <2> QED
    BY <2>1, <2>2, <2>4, <2>5, StatusSet
<1>6. CASE Erases
  <2>1. /\ pc = "erase" /\ pc' \notin {"status", "erase", "flush"} /\ UNCHANGED files
        /\ statDict' = [statDict EXCEPT ![call.id] = NONE]
    BY <1>6 DEF Erases, eraseStatus, HomeInv, HomeCall
  <2>2. shownStatus' = shownStatus
    BY <1>0, <2>1 DEF shownStatus, StatusPending, getStatus
  <2> QED
    BY <1>0, <2>1, <2>2, AccountsKept
<1>7. CASE Stops
  <2>1. pc # "flush" /\ pc' = "down" /\ UNCHANGED files /\ statDict' = [k \in Key |-> NONE]
    BY <1>7 DEF Stops, Untorn
  <2>2. shownStatus' = [id \in AccountId |-> NONE]
    BY <2>1 DEF shownStatus, StatusPending, getStatus
  <2>3. Registry!Restart
    BY <1>0, <2>1, <2>2, AccountsKept DEF Registry!Restart
  <2> QED
    BY <2>3 DEF Registry!RegistryNext
<1>8. CASE /\ UNCHANGED <<files, statDict>>
           /\ \/ pc \notin {"flush", "status", "erase"} /\ pc' \notin {"flush", "status", "erase"}
              \/ UNCHANGED <<pc, call>>
  BY <1>0, <1>8, AccountsKept, StatusKept
<1>9. CASE Truncates \/ Flushes
  BY <1>1, <1>2, <1>9, HomeFiles DEF Truncates, Flushes, Unlinks
<1>10. CASE Unlinks
  <2>1. Writes(NoFile)
    BY <1>10, OneFile DEF Unlinks, unlinkFile
  <2> QED
    BY <1>3, <1>10, <2>1
<1>11. CASE Quiet \/ Ends
  BY <1>8, <1>11 DEF Quiet, Ends, Verifying4, AtFile
<1>12. CASE BeginsCreation \/ BeginsEdit \/ BeginsRemoval
  <2>1. UNCHANGED <<files, statDict>> /\ pc \in {"idle", "boot"} /\ pc' \in {"verify", "premove"}
    BY <1>12 DEF BeginsCreation, BeginsEdit, BeginsRemoval, BeginWrite
  <2> QED
    BY <1>8, <2>1
<1> QED
  BY <1>4, <1>5, <1>6, <1>7, <1>9, <1>10, <1>11, <1>12 DEF StepKind, OpenFails, Untorn

(* Unless a file is left truncated or cut off, the account manager         *)
(* implements the registry: each request takes effect in one step, or not  *)
(* at all, whatever plugins, secrets, events and crashes do.               *)
THEOREM ImplementsRegistry == ASSUME Untorn PROVE Spec => RegistrySpec
<1>1. Init => Registry!RegistryInit
  BY InitType, HomeInit, RegistryInitially
<1>2. TypeOK /\ RoInv /\ HomeInv /\ HomeInv' /\ [Next]_vars => [Registry!RegistryNext]_(Registry!registryVars)
  BY StepKinds, RegistryStep DEF HomeInv
<1> QED
  BY <1>1, <1>2, HomeInductive, PTL DEF Spec, RegistrySpec, Registry!RegistrySpec
-----------------------------------------------------------------------------
(* What subscribers know, when nothing is lost on the way to them, there   *)
(* is a socket, and no request is cut off.                                 *)

Heard == Untorn /\ Faults \cap {"crash", "noevents", "lost"} = {}

(* The accounts a subscriber should have heard of at each step of a        *)
(* request: the one being created comes with its event, the one being      *)
(* removed goes with its event.                                            *)
Announced ==
    CASE pc = "erase"                                           -> Existing \cup {call.id}
      [] pc \in {"flush", "status", "emit"} /\ call.op # "edit" -> Existing \ {call.id}
      [] OTHER                                                  -> Existing

SyncCall ==
    /\ pc = "cleanup" => call.op = "edit"
    /\ pc \in {"cleanup", "emit"} => call.id \in Existing
    /\ pc = "erase" => call.id \notin Existing

StatusHeard == \A id \in AccountId : statDict[id] # NONE => knownStatus[id] = statDict[id]

SyncInv ==
    /\ pc # "down" => inited
    /\ known = Announced
    /\ SyncCall /\ StatusHeard

LEMMA SyncInit == Init => SyncInv
<1> SUFFICES ASSUME Init PROVE SyncInv
  OBVIOUS
<1>1. PICK home \in [Provisioned -> Parser], file \in [Provisioned -> ProvisionedFile] :
        files = [p \in Parser |-> [k \in Key |->
                   IF k \in Provisioned /\ home[k] = p THEN file[k] ELSE NoFile]]
  BY DEF Init, FilesInit
<1>2. ASSUME NEW f \in ProvisionedFile PROVE f = NoFile <=> f.kind = "none"
  BY DEF ProvisionedFile, NoFile, AccountFile
<1>3. ASSUME NEW p \in Parser, NEW id \in AccountId
      PROVE  /\ files[p][id] = NoFile <=> ~hasAccount(p, id)
             /\ hasAccount(p, id) => id \in Provisioned
  <2>1. files[p][id] = IF id \in Provisioned /\ home[id] = p THEN file[id] ELSE NoFile
    BY <1>1
  <2>2. NoFile.kind = "none"
    BY DEF NoFile
  <2> QED
    BY <1>2, <2>1, <2>2 DEF hasAccount
<1>4. Provisioned \subseteq AccountId
  BY DirAssumption
<1>5. known = Existing
  <2>1. known = {id \in Provisioned : ~unusedId(id)}
    BY DEF Init, EventInit
  <2> QED
    BY <1>3, <1>4, <2>1 DEF Existing, unusedId
<1> QED
  BY <1>5 DEF Init, EventInit, SyncInv, Announced, SyncCall, StatusHeard

(* The steps that emit an event, and the others.                           *)
LEMMA EventKinds ==
    ASSUME Heard, TypeOK, [Next]_vars
    PROVE  \/ Start \/ EmitWritten \/ EraseStatus \/ ResetStatus \/ SetStatus
           \/ UNCHANGED vars
           \/ /\ pc \notin {"emit", "erase", "status", "down"} /\ UNCHANGED eventVars
              /\ UNCHANGED statDict \/ statDict' = [k \in Key |-> NONE]
<1>1. CASE Exit
  BY <1>1 DEF Exit, Heard
<1>2. CASE Add \/ AutoInitialize \/ Edit \/ Remove
  BY <1>2 DEF Add, AutoInitialize, Edit, Remove, createAccount, BeginWrite, Refuse
<1>3. CASE VerifyService \/ VerifyThrows \/ WritePlugin \/ BeginDrop \/ VerificationFailed \/ OpenFile \/ FlushFile
  BY <1>3 DEF VerifyService, VerifyThrows, WritePlugin, BeginDrop, VerificationFailed, OpenFile, FlushFile
<1>4. CASE CleanupDone \/ RemovePluginData \/ UnlinkFile \/ Scan \/ Serve \/ SecretCall
  BY <1>4 DEF CleanupDone, RemovePluginData, UnlinkFile, Scan, Serve, SecretCall, SaveSecret, DropSecret,
              CleanupOld, RemoveSecrets
<1> QED
  BY <1>1, <1>2, <1>3, <1>4 DEF Next, Request, Local

(* setStatus tells the subscribers of a change, and only of a change.      *)
LEMMA StatusTold ==
    ASSUME Heard, TypeOK, RoInv, HomeInv, StatusHeard, inited, pc \in {"idle", "status"},
           NEW id \in Key, NEW stat \in Status, setStatus(id, stat)
    PROVE  StatusHeard' /\ UNCHANGED <<inited, known>>
<1>0. statDict \in [Key -> Status] /\ knownStatus \in [Key -> Status]
  BY DEF TypeOK, EventTypeOK
<1>1. CASE UNCHANGED <<statDict, eventVars>>
  BY <1>1 DEF StatusHeard, eventVars
<1>2. CASE ~UNCHANGED <<statDict, eventVars>>
  <2>1. PICK p \in readAccount(id) :
          /\ statDict' = [statDict EXCEPT ![readId(p, id)] = stat]
          /\ IF statusChanges(id, stat) /\ inited
             THEN EMIT_STATUS_CHANGE(readId(p, id), stat)
             ELSE UNCHANGED eventVars
    BY <1>2 DEF setStatus
  <2>2. readId(p, id) \in Key
    BY ReadIdType, FindAny DEF readAccount
  <2>3. CASE statusChanges(id, stat)
    <3>1. EMIT_STATUS_CHANGE(readId(p, id), stat)
      BY <2>1, <2>3
    <3>2. UNCHANGED <<inited, known>> /\ knownStatus' = [knownStatus EXCEPT ![readId(p, id)] = stat]
      BY <3>1 DEF EMIT_STATUS_CHANGE, emit, Heard
    <3> QED
      BY <1>0, <2>1, <2>2, <3>2 DEF StatusHeard
  <2>4. CASE ~statusChanges(id, stat)
    <3>1. statDict[readId(p, id)] = stat /\ UNCHANGED eventVars
      BY <2>1, <2>4 DEF statusChanges
    <3> QED
      BY <1>0, <2>1, <2>2, <3>1 DEF StatusHeard, eventVars
  <2> QED
    BY <2>3, <2>4
<1> QED
  BY <1>1, <1>2

(* The accounts that exist after the request's file is written.            *)
LEMMA ExistingAfter ==
    ASSUME UniqueHome, call.id \in AccountId, call.dir \in Parser, NEW f, Writes(f)
    PROVE  /\ f.kind # "none" => Existing' = Existing \cup {call.id}
           /\ f.kind = "none" /\ hasAccount(call.dir, call.id) => Existing' = Existing \ {call.id}
<1>1. \A id \in AccountId : id # call.id => (id \in Existing' <=> id \in Existing)
  BY DEF Existing, hasAccount, Writes, Parser
<1>2. f.kind # "none" => call.id \in Existing'
  BY DEF Existing, hasAccount, Writes, Parser
<1>3. f.kind = "none" /\ hasAccount(call.dir, call.id) => call.id \notin Existing'
  BY DEF Existing, hasAccount, Writes, Parser, UniqueHome
<1>4. Existing \subseteq AccountId /\ Existing' \subseteq AccountId
  BY DEF Existing
<1> QED
  BY <1>1, <1>2, <1>3, <1>4

LEMMA SyncStep ==
    ASSUME Heard PROVE TypeOK /\ RoInv /\ HomeInv /\ SyncInv /\ [Next]_vars => SyncInv'
<1> SUFFICES ASSUME TypeOK, RoInv, HomeInv, SyncInv, [Next]_vars PROVE SyncInv'
  OBVIOUS
<1>0. /\ Untorn /\ StepKind
      /\ statDict \in [Key -> Status] /\ knownStatus \in [Key -> Status] /\ call.id \in Key /\ NONE \in Status
      /\ call.oldId = call.id
  BY StepKinds, DataAssumption DEF Heard, TypeOK, EventTypeOK, HomeInv, HomeCall
<1>E. UNCHANGED files => Existing' = Existing
  BY DEF Existing, hasAccount, Parser
<1>1. CASE UNCHANGED vars
  BY <1>1, <1>E DEF vars, SyncInv, Announced, SyncCall, StatusHeard
<1>2. CASE Start
  BY <1>2, <1>E DEF Start, eventInit, Heard, SyncInv, Announced, SyncCall, StatusHeard
<1>3. CASE EmitWritten
  <2>1. /\ pc = "emit" /\ inited /\ call.id \in Existing /\ UNCHANGED <<files, statDict, inited, knownStatus>>
        /\ known' = IF call.op = "edit" THEN known ELSE known \cup {call.id}
        /\ pc' \in {"boot", "idle"}
    BY <1>3 DEF EmitWritten, SyncInv, SyncCall, Finish, EMIT_CREATE_ACCOUNT, EMIT_MODIFY_ACCOUNT, emit, Heard
  <2>2. known' = Existing
    BY <2>1 DEF SyncInv, Announced
  <2> QED
    BY <1>E, <2>1, <2>2 DEF SyncInv, Announced, SyncCall, StatusHeard
<1>4. CASE EraseStatus
  <2>1. /\ pc = "erase" /\ inited /\ call.id \notin Existing /\ UNCHANGED <<files, inited>>
        /\ statDict' = [statDict EXCEPT ![call.id] = NONE]
        /\ knownStatus' = [knownStatus EXCEPT ![call.id] = NONE]
        /\ known' = known \ {call.id}
        /\ pc' \in {"boot", "idle"}
    BY <1>0, <1>4 DEF EraseStatus, eraseStatus, SyncInv, SyncCall, Finish, EMIT_DELETE_ACCOUNT, emit, Heard
  <2>2. known' = Existing
    BY <2>1 DEF SyncInv, Announced
  <2>3. StatusHeard'
    BY <1>0, <2>1 DEF SyncInv, StatusHeard
  <2> QED
    BY <1>E, <2>1, <2>2, <2>3 DEF SyncInv, Announced, SyncCall
<1>5. CASE ResetStatus
  <2>1. /\ pc = "status" /\ inited /\ setStatus(call.id, NONE) /\ UNCHANGED <<files, call>>
        /\ pc' = IF call.op = "edit" THEN "cleanup" ELSE "emit"
    BY <1>0, <1>5 DEF ResetStatus, Goto, SyncInv
  <2>2. StatusHeard' /\ UNCHANGED <<inited, known>>
    BY <1>0, <2>1, StatusTold DEF SyncInv
  <2>3. call.id \in Existing
    BY <2>1 DEF HomeInv, HomeCall, AtFile, Existing
  <2> QED
    BY <1>E, <2>1, <2>2, <2>3 DEF SyncInv, Announced, SyncCall
<1>6. CASE SetStatus
  <2>1. pc = "idle" /\ pc' = "idle" /\ inited /\ UNCHANGED <<files, call>>
    BY <1>6 DEF SetStatus, SyncInv
  <2>2. PICK id \in Key, stat \in Status : setStatus(id, stat)
    BY <1>6 DEF SetStatus
  <2>3. StatusHeard' /\ UNCHANGED <<inited, known>>
    BY <2>1, <2>2, StatusTold DEF SyncInv
  <2> QED
    BY <1>E, <2>1, <2>3 DEF SyncInv, Announced, SyncCall
<1>7. CASE /\ pc \notin {"emit", "erase", "status", "down"} /\ UNCHANGED eventVars
           /\ UNCHANGED statDict \/ statDict' = [k \in Key |-> NONE]
  <2>1. StatusHeard' /\ inited' /\ known' = known
    BY <1>7 DEF SyncInv, StatusHeard, eventVars
  <2>2. CASE Truncates /\ Writes(EmptyFile)
    <3>1. pc = "verify" /\ pc' = "flush" /\ UNCHANGED call /\ call.id \in AccountId /\ call.dir \in Parser
      BY <2>2 DEF Truncates, HomeInv, HomeCall, AtFile, Verifying4
    <3>2. Existing' = Existing \cup {call.id}
      BY <2>2, <3>1, ExistingAfter DEF HomeInv, EmptyFile
    <3>3. IF call.op = "edit" THEN call.id \in Existing ELSE call.id \notin Existing
      BY <3>1 DEF HomeInv, HomeCall, Verifying4, Existing, unusedId, hasAccount, NoFile
    <3> QED
      BY <2>1, <3>1, <3>2, <3>3 DEF SyncInv, Announced, SyncCall
  <2>3. CASE Flushes /\ Writes(AccountFile(refs))
    <3>1. /\ pc = "flush" /\ pc' = "status" /\ UNCHANGED call /\ call.id \in AccountId /\ call.dir \in Parser
          /\ call.id \in Existing
      BY <2>3 DEF Flushes, HomeInv, HomeCall, AtFile, Existing
    <3>2. Existing' = Existing
      BY <2>3, <3>1, ExistingAfter DEF HomeInv, AccountFile
    <3> QED
      BY <2>1, <3>1, <3>2 DEF SyncInv, Announced, SyncCall
  <2>4. CASE Unlinks /\ Writes(NoFile)
    <3>1. /\ pc = "unlink" /\ pc' = "erase" /\ UNCHANGED call /\ call.id \in AccountId /\ call.dir \in Parser
          /\ hasAccount(call.dir, call.id) /\ call.id \in Existing
      BY <2>4 DEF Unlinks, removeRefused, HomeInv, HomeCall, AtFile, Existing
    <3>2. Existing' = Existing \ {call.id}
      BY <2>4, <3>1, ExistingAfter DEF HomeInv, NoFile
    <3> QED
      BY <2>1, <3>1, <3>2 DEF SyncInv, Announced, SyncCall
  <2>5. CASE UNCHANGED files /\ pc' \notin {"flush", "status", "cleanup", "emit", "erase"}
             /\ pc # "flush"
    BY <1>E, <1>7, <2>1, <2>5 DEF SyncInv, Announced, SyncCall
  <2>6. CASE UNCHANGED <<files, call>> /\ (pc' = pc \/ (pc = "cleanup" /\ pc' = "emit"))
    BY <1>E, <1>7, <2>1, <2>6 DEF SyncInv, Announced, SyncCall
  <2>7. \/ UNCHANGED files /\ pc' \notin {"flush", "status", "cleanup", "emit", "erase"} /\ pc # "flush"
        \/ UNCHANGED <<files, call>> /\ (pc' = pc \/ (pc = "cleanup" /\ pc' = "emit"))
        \/ Truncates \/ Flushes \/ Unlinks
    BY <1>0, <1>7 DEF StepKind, Quiet, Ends, BeginsCreation, BeginsEdit, BeginsRemoval, BeginWrite, OpenFails,
       Resets, Erases, Reports, Stops, Untorn, Verifying4
  <2>8. CASE Truncates \/ Flushes
    BY <1>0, <2>2, <2>3, <2>8, HomeFiles DEF Truncates, Flushes, Unlinks
  <2>9. CASE Unlinks
    BY <2>4, <2>9, OneFile DEF Unlinks, unlinkFile
  <2> QED
    BY <2>5, <2>6, <2>7, <2>8, <2>9
<1> QED
  BY <1>1, <1>2, <1>3, <1>4, <1>5, <1>6, <1>7, EventKinds

(* When there is an event socket, no event is lost on its way and no       *)
(* request is cut off, a subscriber that follows the events knows every    *)
(* account and the status of each, whatever plugins and secrets do.        *)
THEOREM SubscribersInSync == ASSUME Heard PROVE Spec => []SubscriberInSync
<1>1. Untorn
  BY DEF Heard
<1>2. Spec => [](TypeOK /\ RoInv /\ HomeInv)
  BY <1>1, HomeInductive
<1>3. SyncInv => SubscriberInSync
  BY DEF SyncInv, Announced, StatusHeard, SubscriberInSync, Existing
<1> QED
  BY <1>2, <1>3, SyncInit, SyncStep, PTL DEF Spec
-----------------------------------------------------------------------------
(* Whose the secrets are, when nothing fails but the verification of an    *)
(* account, and no request is cut off.                                     *)

Unfailing == Untorn /\ Faults \cap {"crash", "plugin", "secret", "noevents"} = {}

(* The secrets of the services of accounts in their files. *)
Owned == {x \in Key \X Service : \E p \in Parser : hasAccount(p, x[1]) /\ x[2] \in services(files[p][x[1]].refs)}

(* The services whose secrets the request at hand has yet to give an owner *)
(* or to remove.                                                           *)
Pending ==
    CASE pc \in {"verify", "save", "write"} -> services(refs)
      [] pc \in {"drop", "cleanup"}         -> todo
      [] pc = "flush"                       -> services(refs) \cup call.old
      [] pc = "status"                      -> obsolete
      [] OTHER                              -> {}

SecretsOwned ==
    /\ secrets \subseteq Owned \cup ({call.id} \X Pending)
    /\ pc \in {"unlink", "erase"} => \A x \in secrets : x[1] # call.id

(* A creation has no older services, a verified account can be written and *)
(* has been truncated before it is.                                        *)
OwnedCall ==
    /\ pc # "down" => inited
    /\ pc \in {"verify", "save", "write"} => todo \subseteq services(refs)
    /\ pc \in Verifying4 => ~isReadonly(call.dir)
    /\ pc = "flush" => files[call.dir][call.id] = EmptyFile
    /\ pc \in Verifying4 \cup {"flush", "status"} /\ call.op # "edit" => call.old = {}

LEMMA OwnedInit == Init => OwnedCall /\ SecretsOwned
<1> SUFFICES ASSUME Init PROVE OwnedCall /\ SecretsOwned
  OBVIOUS
<1>1. OwnedCall
  BY DEF Init, EventInit, OwnedCall, Verifying4
<1>2. PICK home \in [Provisioned -> Parser], file \in [Provisioned -> ProvisionedFile] :
        files = [p \in Parser |-> [k \in Key |->
                   IF k \in Provisioned /\ home[k] = p THEN file[k] ELSE NoFile]]
  BY DEF Init, FilesInit
<1>3. ASSUME NEW x \in secrets PROVE x \in Owned
  <2>1. x[1] \in Provisioned /\ x[2] \in TokenServices /\ x = <<x[1], x[2]>>
    BY DEF Init
  <2>2. x[1] \in Key /\ x[2] \in Service
    BY <2>1, DirAssumption, PluginAssumption
  <2>3. PICK p \in Parser : files[p][x[1]].refs[x[2]] # Absent
    BY DEF Init
  <2>4. files[p][x[1]] # NoFile
    BY <2>2, <2>3 DEF NoFile, NoServices
  <2>5. files[p][x[1]] \in ProvisionedFile \ {NoFile}
    BY <1>2, <2>2, <2>4
  <2>6. hasAccount(p, x[1])
    <3>1. PICK r : files[p][x[1]] = AccountFile(r)
      BY <2>5 DEF ProvisionedFile
    <3> QED
      BY <3>1 DEF AccountFile, hasAccount
  <2> QED
    BY <2>1, <2>2, <2>3, <2>6 DEF Owned, services
<1> QED
  BY <1>1, <1>3 DEF Init, SecretsOwned

(* The plugin's answer changes no service of the account. *)
LEMMA ServicesKept ==
    ASSUME TypeOK, OwnedCall, WritePlugin
    PROVE  services(refs') = services(refs) /\ todo' \subseteq services(refs)
<1>1. pc = "write" /\ todo \subseteq services(refs) /\ refs \in ServiceRefs
  BY DEF WritePlugin, OwnedCall, TypeOK
<1>2. PICK s \in Service :
         /\ s \in todo /\ todo' \subseteq todo
         /\ UNCHANGED refs \/ \E pid \in PluginId : refs' = [refs EXCEPT ![s] = pid]
  BY DEF WritePlugin, NextService, IsFirst, freshPids
<1> QED
  BY <1>1, <1>2, DataAssumption DEF services, ServiceRefs

LEMMA OwnedCallStep ==
    ASSUME "noevents" \notin Faults, TypeOK, RoInv, HomeInv, OwnedCall, [Next]_vars
    PROVE  OwnedCall'
<1> USE DEF OwnedCall, Goto, Finish, Verifying4
<1>0. inited' = inited \/ Start
  BY DEF Next, Request, Local, SecretCall, Start, Exit, Add, Edit, Remove, SetStatus, setStatus, Refuse,
      BeginWrite, createAccount, VerifyService, VerifyThrows, WritePlugin, BeginDrop, VerificationFailed,
      OpenFile, FlushFile, UnlinkFile, ResetStatus, CleanupDone, EmitWritten, RemovePluginData, EraseStatus,
      Scan, AutoInitialize, Serve, SaveSecret, DropSecret, CleanupOld, RemoveSecrets, vars, eventVars, emit,
      EMIT_CREATE_ACCOUNT, EMIT_MODIFY_ACCOUNT, EMIT_DELETE_ACCOUNT, EMIT_STATUS_CHANGE
<1>1. CASE Start
  BY <1>1 DEF Start, eventInit
<1>2. pc' # "down" => inited'
  <2>1. ~Start => pc # "down" \/ UNCHANGED pc
    BY DEF Next, Request, Local, SecretCall, Exit, Add, Edit, Remove, SetStatus, VerifyService, VerifyThrows,
       WritePlugin, BeginDrop, VerificationFailed, OpenFile, FlushFile, UnlinkFile, ResetStatus, CleanupDone,
       EmitWritten, RemovePluginData, EraseStatus, Scan, AutoInitialize, Serve, SaveSecret, DropSecret,
       CleanupOld, RemoveSecrets, vars
  <2> QED
    BY <1>0, <1>1, <2>1
<1>3. StepKind
  BY StepKinds
<1>4. /\ pc' \in Verifying4 => ~isReadonly(call'.dir)
      /\ pc' \in Verifying4 \cup {"flush", "status"} /\ call'.op # "edit" => call'.old = {}
  <2>1. CASE BeginsCreation
    <3>1. PICK op \in {"add", "autoinit"}, id \in freshIds, p \in findParser(NullId, TRUE), S \in SUBSET Service :
             BeginWrite(op, id, id, {}, p, S)
      BY <2>1 DEF BeginsCreation
    <3> QED
      BY <3>1, FindWritable DEF BeginWrite
  <2>2. CASE BeginsEdit
    <3>1. PICK id \in Key, S \in SUBSET Service :
             \E r \in readAccount(id) : \E p \in editTarget(r, id) :
                BeginWrite("edit", id, readId(r, id), services(files[r][id].refs), p, S)
      BY <2>2 DEF BeginsEdit
    <3>2. PICK r \in readAccount(id) : \E p \in editTarget(r, id) :
             BeginWrite("edit", id, readId(r, id), services(files[r][id].refs), p, S)
      BY <3>1
    <3>3. PICK p \in editTarget(r, id) :
             BeginWrite("edit", id, readId(r, id), services(files[r][id].refs), p, S)
      BY <3>2
    <3>4. ~isReadonly(p)
      BY FindWritable DEF editTarget
    <3> QED
      BY <3>3, <3>4 DEF BeginWrite
  <2> QED
    BY <1>3, <2>1, <2>2 DEF StepKind, Quiet, Ends, BeginsRemoval, Truncates, OpenFails, Flushes, Unlinks,
       Resets, Erases, Reports, Stops
<1>5. pc' = "flush" => files'[call'.dir][call'.id] = EmptyFile
  <2>1. CASE Truncates
    <3>1. call.dir \in Parser /\ UNCHANGED call /\ call.id \in Key
      BY <2>1 DEF Truncates, HomeInv, HomeCall, AtFile
    <3>2. Writes(EmptyFile)
      BY <2>1, OneFile DEF Truncates, truncateFile
    <3> QED
      BY <3>1, <3>2 DEF Writes
  <2> QED
    BY <1>3, <2>1 DEF StepKind, Quiet, Ends, BeginsCreation, BeginsEdit, BeginWrite, BeginsRemoval, OpenFails,
       Flushes, Unlinks, Resets, Erases, Reports, Stops
<1>6. pc' \in {"verify", "save", "write"} => todo' \subseteq services(refs')
  <2>1. CASE VerifyService
    BY <2>1 DEF VerifyService
  <2>2. CASE SaveSecret
    BY <2>2 DEF SaveSecret, afterSave
  <2>3. CASE WritePlugin
    BY <2>3, ServicesKept
  <2>4. ASSUME NEW op, NEW id, NEW oldId, NEW old, NEW p, NEW S \in SUBSET Service,
               BeginWrite(op, id, oldId, old, p, S)
        PROVE  todo' \subseteq services(refs')
    BY <2>4, DataAssumption DEF BeginWrite, services
  <2>5. CASE UNCHANGED <<pc, refs, todo>>
    BY <2>5
  <2>6. CASE Add \/ AutoInitialize \/ Edit
    BY <2>4, <2>5, <2>6 DEF Add, AutoInitialize, Edit, createAccount, Refuse, ctlVars
  <2>7. CASE pc' \notin {"verify", "save", "write"}
    BY <2>7
  <2> QED
    BY <2>1, <2>2, <2>3, <2>5, <2>6, <2>7
    DEF Next, Request, Local, SecretCall, Start, Exit, Remove, SetStatus, Refuse, VerifyThrows, BeginDrop,
      VerificationFailed, OpenFile, FlushFile, UnlinkFile, ResetStatus, CleanupDone, EmitWritten,
      RemovePluginData, EraseStatus, Scan, Serve, DropSecret, CleanupOld, RemoveSecrets, vars, Throw, Terminate
<1> QED
  BY <1>2, <1>4, <1>5, <1>6 DEF Parser, isReadonly

(* A secret loses its owner only in the steps that write or unlink a file. *)
LEMMA OwnedKept ==
    ASSUME SecretsOwned, UNCHANGED <<files, secrets>>,
           Pending = {} \/ (UNCHANGED call /\ Pending \subseteq Pending'),
           pc' \in {"unlink", "erase"} => UNCHANGED <<pc, call>>
    PROVE  SecretsOwned'
<1>1. Owned' = Owned
  BY DEF Owned, hasAccount, services, Parser
<1> QED
  BY <1>1 DEF SecretsOwned

(* What a file owns after the request's file is written. *)
LEMMA OwnedAfter ==
    ASSUME UniqueHome, call.id \in AccountId, call.dir \in Parser, NEW f, Writes(f)
    PROVE  /\ \A x \in Owned : x[1] # call.id => x \in Owned'
           /\ f.kind # "none" => \A s \in services(f.refs) : <<call.id, s>> \in Owned'
           /\ hasAccount(call.dir, call.id) =>
                 \A x \in Owned : x[1] = call.id => x[2] \in services(files[call.dir][call.id].refs)
<1>1. ASSUME NEW x \in Owned, x[1] # call.id PROVE x \in Owned'
  <2>1. PICK p \in Parser : hasAccount(p, x[1]) /\ x[2] \in services(files[p][x[1]].refs)
    BY DEF Owned
  <2>2. x \in Key \X Service /\ files'[p][x[1]] = files[p][x[1]]
    BY <1>1 DEF Owned, Writes
  <2> QED
    BY <2>1, <2>2 DEF Owned, hasAccount, services, Parser
<1>2. ASSUME f.kind # "none", NEW s \in services(f.refs) PROVE <<call.id, s>> \in Owned'
  <2>1. files'[call.dir][call.id] = f /\ s \in Service
    BY DEF Writes, services
  <2> QED
    BY <1>2, <2>1 DEF Owned, hasAccount, services, Parser
<1>3. ASSUME hasAccount(call.dir, call.id), NEW x \in Owned, x[1] = call.id
      PROVE  x[2] \in services(files[call.dir][call.id].refs)
  BY <1>3 DEF Owned, UniqueHome
<1> QED
  BY <1>1, <1>2, <1>3

LEMMA OwnedStep ==
    ASSUME Unfailing, TypeOK, RoInv, HomeInv, OwnedCall, SecretsOwned, [Next]_vars
    PROVE  SecretsOwned'
<1> USE DEF Goto
<1>0. /\ Untorn /\ secrets \subseteq Key \X Service /\ call.id \in Key /\ call.oldId = call.id
      /\ todo \subseteq Service /\ call.old \subseteq Service
      /\ "secret" \notin Faults
  BY DEF Unfailing, TypeOK, SecretTypeOK, HomeInv, HomeCall
<1>E. UNCHANGED files => Owned' = Owned
  BY DEF Owned, hasAccount, services, Parser
<1>1. CASE SaveSecret
  <2>1. PICK s \in Service, ok \in BOOLEAN : IsFirst(s, todo) /\ setSecret(call.id, s, ok) /\ afterSave(s, ok)
    BY <1>1 DEF SaveSecret
  <2>2. /\ pc = "save" /\ pc' \in {"verify", "write"} /\ UNCHANGED <<files, call, refs>>
        /\ s \in services(refs) /\ secrets' = secrets \cup {<<call.id, s>>}
    BY <1>0, <1>1, <2>1 DEF SaveSecret, afterSave, IsFirst, OwnedCall, setSecret, request
  <2>3. Pending = services(refs) /\ Pending' = services(refs)
    BY <2>2 DEF Pending
  <2> QED
    BY <1>E, <2>2, <2>3 DEF SecretsOwned
<1>2. CASE DropSecret \/ CleanupOld
  <2>1. PICK s \in Service, ok \in BOOLEAN : NextService(s) /\ removeService(call.id, s, ok)
    BY <1>0, <1>2 DEF DropSecret, CleanupOld
  <2>2. /\ pc \in {"drop", "cleanup"} /\ pc' = pc /\ UNCHANGED <<files, call>>
        /\ todo' = todo \ {s} /\ secrets' = secrets \ {<<call.id, s>>}
    BY <1>0, <1>2, <2>1 DEF DropSecret, CleanupOld, NextService, removeService, request
  <2>3. Pending = todo /\ Pending' = todo \ {s}
    BY <2>2 DEF Pending
  <2> QED
    BY <1>E, <2>2, <2>3 DEF SecretsOwned
<1>3. CASE RemoveSecrets
  <2>1. /\ pc = "premove" /\ pc' = "unlink" /\ UNCHANGED <<files, call>>
        /\ secrets' = {x \in secrets : x[1] # call.id}
    BY <1>0, <1>3 DEF RemoveSecrets, removeAccount, request
  <2>2. Pending = {}
    BY <2>1 DEF Pending
  <2> QED
    BY <1>E, <2>1, <2>2 DEF SecretsOwned
<1>4. CASE OpenFile
  <2>1. /\ pc = "verify" /\ pc' = "flush" /\ UNCHANGED <<call, refs, secrets>>
        /\ call.id \in AccountId /\ call.dir \in Parser
        /\ files' = [files EXCEPT ![call.dir][call.id] = EmptyFile]
    <3>1. pc = "verify" /\ call.id \in AccountId /\ call.dir \in Parser /\ ~writeRefused(call.dir, call.id)
      BY <1>4, DataAssumption DEF OpenFile, HomeInv, HomeCall, AtFile, Verifying4, OwnedCall, writeRefused
    <3> QED
      BY <1>0, <1>4, <3>1 DEF OpenFile, truncateFile, Untorn
  <2>2. Writes(EmptyFile)
    BY <2>1, OneFile
  <2>3. Pending = services(refs) /\ Pending' = services(refs) \cup call.old
    BY <2>1 DEF Pending
  <2>4. ASSUME NEW x \in Owned, x[1] = call.id PROVE x[2] \in call.old
    <3>1. CASE call.op = "edit"
      <4>1. hasAccount(call.dir, call.id) /\ services(files[call.dir][call.id].refs) = call.old
        BY <2>1, <3>1 DEF HomeInv, HomeCall, Verifying4
      <4> QED
        BY <2>1, <2>2, <2>4, <4>1, OwnedAfter DEF HomeInv
    <3>2. CASE call.op # "edit"
      <4>1. \A p \in Parser : ~hasAccount(p, call.id)
        BY <2>1, <3>2 DEF HomeInv, HomeCall, Verifying4, unusedId, hasAccount, NoFile
      <4> QED
        BY <2>4, <4>1 DEF Owned
    <3> QED
      BY <3>1, <3>2
  <2>5. \A x \in Owned : x[1] # call.id => x \in Owned'
    BY <2>1, <2>2, OwnedAfter DEF HomeInv
  <2>6. ASSUME NEW x \in secrets PROVE x \in Owned' \cup ({call.id} \X Pending')
    <3>1. x = <<x[1], x[2]>> /\ (x \in Owned \/ (x[1] = call.id /\ x[2] \in services(refs)))
      BY <1>0, <2>3 DEF SecretsOwned
    <3> QED
      BY <2>3, <2>4, <2>5, <3>1
  <2> QED
    BY <2>1, <2>6 DEF SecretsOwned
<1>5. CASE FlushFile
  <2>1. /\ pc = "flush" /\ pc' = "status" /\ UNCHANGED <<call, refs, secrets>>
        /\ call.id \in AccountId /\ call.dir \in Parser
        /\ files' = [files EXCEPT ![call.dir][call.id] = AccountFile(refs)]
    BY <1>0, <1>5 DEF FlushFile, flushFile, HomeInv, HomeCall, AtFile, Untorn
  <2>2. Writes(AccountFile(refs))
    BY <2>1, OneFile
  <2>3. Pending = services(refs) \cup call.old /\ Pending' = call.old \ services(refs)
    BY <2>1 DEF Pending, obsolete
  <2>4. ASSUME NEW x \in Owned PROVE x[1] # call.id
    <3>1. files[call.dir][call.id].refs = NoServices /\ hasAccount(call.dir, call.id)
      BY <2>1 DEF OwnedCall, EmptyFile, hasAccount
    <3>2. services(NoServices) = {}
      BY DEF services, NoServices
    <3> QED
      BY <2>1, <2>2, <3>1, <3>2, OwnedAfter DEF HomeInv
  <2>5. /\ \A x \in Owned : x \in Owned'
        /\ \A s \in services(refs) : <<call.id, s>> \in Owned'
    BY <2>1, <2>2, <2>4, OwnedAfter DEF HomeInv, AccountFile
  <2>6. ASSUME NEW x \in secrets PROVE x \in Owned' \cup ({call.id} \X Pending')
    <3>1. x = <<x[1], x[2]>> /\ (x \in Owned \/ (x[1] = call.id /\ x[2] \in services(refs) \cup call.old))
      BY <1>0, <2>3 DEF SecretsOwned
    <3> QED
      BY <2>3, <2>5, <3>1
  <2> QED
    BY <2>1, <2>6 DEF SecretsOwned
<1>6. CASE UnlinkFile /\ pc' = "erase"
  <2>1. /\ pc = "unlink" /\ UNCHANGED <<call, secrets>>
        /\ call.id \in AccountId /\ call.dir \in Parser
        /\ files' = [files EXCEPT ![call.dir][call.id] = NoFile]
    BY <1>6 DEF UnlinkFile, unlinkFile, Finish, HomeInv, HomeCall, AtFile
  <2>2. Writes(NoFile)
    BY <2>1, OneFile
  <2>3. \A x \in secrets : x \in Owned /\ x[1] # call.id
    BY <2>1 DEF SecretsOwned, Pending
  <2>4. \A x \in secrets : x \in Owned'
    BY <2>1, <2>2, <2>3, OwnedAfter DEF HomeInv
  <2> QED
    BY <2>1, <2>3, <2>4 DEF SecretsOwned
<1>7. CASE VerifyService \/ WritePlugin \/ BeginDrop
  <2>1. /\ pc \in {"verify", "write"} /\ UNCHANGED <<files, secrets, call>>
        /\ pc' \in {"verify", "save", "write", "drop"}
        /\ pc' # "drop" \/ todo' = services(refs)
    BY <1>7 DEF VerifyService, WritePlugin, BeginDrop, unverified
  <2>2. pc' # "drop" => services(refs') = services(refs)
    BY <1>7, ServicesKept DEF VerifyService, BeginDrop
  <2>3. Pending' = Pending
    BY <2>1, <2>2 DEF Pending
  <2> QED
    BY <2>1, <2>3, OwnedKept
<1>8. CASE ResetStatus
  <2>1. /\ pc = "status" /\ UNCHANGED <<files, secrets, call>>
        /\ IF call.op = "edit" THEN pc' = "cleanup" /\ todo' = obsolete ELSE pc' = "emit"
    BY <1>8 DEF ResetStatus, OwnedCall
  <2>2. call.op # "edit" => obsolete = {}
    BY <2>1 DEF OwnedCall, obsolete
  <2>3. Pending = obsolete /\ (call.op = "edit" => Pending' = obsolete)
    BY <2>1 DEF Pending
  <2> QED
    BY <2>1, <2>2, <2>3, OwnedKept
<1>9. CASE /\ UNCHANGED <<files, secrets>>
           /\ pc' \notin {"unlink", "erase"} \/ UNCHANGED <<pc, call>>
           /\ \/ pc \in {"idle", "boot", "down", "scan", "emit", "premove", "unlink", "erase"}
              \/ pc \in {"drop", "cleanup"} /\ todo = {}
  <2>1. Pending = {}
    BY <1>9 DEF Pending
  <2> QED
    BY <1>9, <2>1, OwnedKept
<1>10. CASE UNCHANGED vars
  <2>1. Pending' = Pending
    BY <1>10 DEF vars, Pending, obsolete
  <2> QED
    BY <1>10, <2>1, OwnedKept DEF vars
<1>11. CASE VerificationFailed \/ CleanupDone \/ EmitWritten \/ EraseStatus \/ RemovePluginData
  BY <1>9, <1>11 DEF VerificationFailed, CleanupDone, EmitWritten, EraseStatus, RemovePluginData, Finish,
      Throw, Terminate
<1>12. CASE UnlinkFile /\ pc' # "erase"
  BY <1>9, <1>12 DEF UnlinkFile, Finish
<1>13. CASE Start \/ Exit \/ Scan \/ Serve \/ SetStatus \/ Remove
  BY <1>9, <1>13 DEF Start, Exit, Unfailing, Terminate, Scan, Serve, SetStatus, Remove, Refuse
<1>14. CASE Add \/ AutoInitialize \/ Edit
  BY <1>9, <1>14 DEF Add, AutoInitialize, Edit, createAccount, BeginWrite, Refuse, ctlVars
<1>15. ~VerifyThrows
  BY DEF VerifyThrows, Unfailing
<1> QED
  BY <1>1, <1>2, <1>3, <1>4, <1>5, <1>6, <1>7, <1>8, <1>10, <1>11, <1>12, <1>13, <1>14, <1>15
  DEF Next, Request, Local, SecretCall

(* When nothing but a verification fails, and no request is cut off, every *)
(* secret left between requests belongs to a service of an account: failed *)
(* creations, edits that drop a service and removals clean up after        *)
(* themselves, whatever accounts were there before.                        *)
THEOREM SecretsHaveOwners == ASSUME Unfailing PROVE Spec => []NoOrphanSecrets
<1>1. Untorn
  BY DEF Unfailing
<1>2. Spec => [](TypeOK /\ RoInv /\ HomeInv)
  BY <1>1, HomeInductive
<1>3. TypeOK /\ RoInv /\ HomeInv /\ OwnedCall /\ SecretsOwned /\ [Next]_vars => OwnedCall' /\ SecretsOwned'
  BY OwnedCallStep, OwnedStep DEF Unfailing
<1>4. ASSUME RoInv, HomeInv, SecretsOwned PROVE NoOrphanSecrets
  <2> SUFFICES ASSUME pc \in {"idle", "boot", "down"}, NEW x \in secrets
               PROVE  \E p \in Parser : OnDisk(p, x[1]) /\ x[2] \in services(files[p][x[1]].refs)
    BY DEF NoOrphanSecrets
  <2>1. x \in Owned
    BY <1>4 DEF SecretsOwned, Pending
  <2>2. PICK p \in Parser : hasAccount(p, x[1]) /\ x[2] \in services(files[p][x[1]].refs)
    BY <2>1 DEF Owned
  <2>3. x[1] \in AccountId
    BY <1>4, <2>1, <2>2 DEF Owned, RoInv, hasAccount, NoFile
  <2>4. files[p][x[1]].kind = "account"
    BY <1>4, <2>2, <2>3 DEF HomeInv, WholeFiles, hasAccount
  <2> QED
    BY <2>2, <2>4 DEF OnDisk
<1> QED
  BY <1>2, <1>3, <1>4, OwnedInit, PTL DEF Spec
-----------------------------------------------------------------------------
(* What an answer says. *)

(* A request has not answered yet; once written, the file holds the        *)
(* account that was verified, once unlinked no directory has it.           *)
Answered ==
    /\ call.op # "none" => pc \notin {"down", "scan", "boot", "idle"} /\ result # "ok"
    /\ call.op = "remove" => pc \in {"premove", "unlink", "erase"}
    /\ pc \in {"status", "cleanup", "emit"} =>
          call.id \in AccountId /\ call.dir \in Parser /\ files[call.dir][call.id] = AccountFile(refs)
    /\ pc \in {"premove", "unlink"} => call.op = "remove"
    /\ pc = "erase" => call.op = "remove" /\ unusedId(call.id)

LEMMA AnsweredStep ==
    ASSUME Untorn, TypeOK, RoInv, HomeInv, Answered, [Next]_vars
    PROVE  Answered'
<1> USE DEF Goto, Finish, Terminate, Throw
<1>E. /\ UNCHANGED files => (unusedId(call.id) => \A p \in Parser : files'[p][call.id] = NoFile)
      /\ Parser' = Parser
  BY DEF unusedId, Parser
<1>1. CASE call' = NoCall /\ pc' \in {"down", "boot", "idle"}
  BY <1>1 DEF Answered, NoCall
<1>2. CASE \E op \in {"add", "autoinit", "edit"} : \E id, oldId, old, p, S : BeginWrite(op, id, oldId, old, p, S)
  BY <1>2 DEF BeginWrite, Answered
<1>3. CASE UNCHANGED <<pc, call, refs, files>> /\ (result' # "ok" \/ call.op = "none" \/ UNCHANGED result)
  BY <1>3 DEF Answered, unusedId, Parser
<1>4. CASE Start \/ Scan \/ Serve
  BY <1>4 DEF Start, Scan, Serve, Answered
<1>5. CASE Exit \/ VerifyThrows \/ VerificationFailed \/ EmitWritten \/ EraseStatus
  BY <1>1, <1>5 DEF Exit, VerifyThrows, VerificationFailed, EmitWritten, EraseStatus
<1>6. CASE SetStatus
  BY <1>3, <1>6 DEF SetStatus, Answered
<1>7. CASE Add \/ AutoInitialize \/ Edit
  BY <1>2, <1>3, <1>7 DEF Add, AutoInitialize, Edit, createAccount, Refuse, ctlVars
<1>8. CASE Remove
  <2>1. CASE Refuse
    BY <1>3, <2>1 DEF Refuse
  <2>2. CASE ~Refuse
    <3>1. PICK id \in Key :
            /\ \E p \in findParser(id, TRUE) :
                  call' = [op |-> "remove", id |-> id, oldId |-> readId(p, id),
                           old |-> services(files[p][id].refs), dir |-> p]
            /\ pc' = "premove" /\ result' = "none"
      BY <1>8, <2>2 DEF Remove
    <3>2. call'.op = "remove"
      BY <3>1
    <3> QED
      BY <3>1, <3>2 DEF Answered
  <2> QED
    BY <2>1, <2>2
<1>9. CASE VerifyService \/ SaveSecret \/ WritePlugin \/ BeginDrop \/ DropSecret
  <2>1. /\ pc \in Verifying4 /\ pc' \in Verifying4 /\ UNCHANGED <<call, result>>
    BY <1>9 DEF VerifyService, SaveSecret, afterSave, WritePlugin, BeginDrop, DropSecret, Verifying4
  <2> QED
    BY <2>1 DEF Answered, Verifying4
<1>10. CASE OpenFile
  <2>1. CASE call' = NoCall /\ pc' \in {"boot", "idle"}
    BY <1>1, <2>1
  <2>2. CASE pc' = "flush" /\ UNCHANGED <<call, result>>
    BY <1>10, <2>2 DEF OpenFile, Answered
  <2> QED
    BY <1>10, <2>1, <2>2 DEF OpenFile, Untorn
<1>11. CASE FlushFile
  <2>1. /\ pc = "flush" /\ pc' = "status" /\ UNCHANGED <<call, refs, result>>
        /\ call.id \in AccountId /\ call.dir \in Parser
        /\ files' = [files EXCEPT ![call.dir][call.id] = AccountFile(refs)]
    BY <1>11 DEF FlushFile, flushFile, HomeInv, HomeCall, AtFile, Untorn
  <2>2. Writes(AccountFile(refs))
    BY <2>1, OneFile
  <2>3. files'[call.dir][call.id] = AccountFile(refs)
    BY <2>1, <2>2 DEF Writes
  <2> QED
    BY <1>E, <2>1, <2>3 DEF Answered
<1>12. CASE ResetStatus
  <2>1. CASE call' = NoCall /\ pc' \in {"down", "boot", "idle"}
    BY <1>1, <2>1
  <2>2. CASE pc' \in {"cleanup", "emit"} /\ UNCHANGED <<call, refs, result>>
    BY <1>E, <1>12, <2>2 DEF ResetStatus, Answered
  <2> QED
    BY <1>12, <2>1, <2>2 DEF ResetStatus
<1>13. CASE CleanupOld \/ CleanupDone
  <2>1. pc = "cleanup" /\ pc' \in {"cleanup", "emit"} /\ UNCHANGED <<call, refs, result, files>>
    BY <1>13 DEF CleanupOld, CleanupDone
  <2> QED
    BY <1>E, <2>1 DEF Answered
<1>14. CASE RemovePluginData
  BY <1>1, <1>3, <1>14 DEF RemovePluginData
<1>15. CASE RemoveSecrets
  BY <1>15 DEF RemoveSecrets, Answered
<1>16. CASE UnlinkFile
  <2>1. CASE call' = NoCall /\ pc' \in {"boot", "idle"}
    BY <1>1, <2>1
  <2>2. CASE pc' = "erase" /\ UNCHANGED <<call, result>> /\ unlinkFile(call.dir, call.id)
             /\ ~removeRefused(call.dir, call.id)
    <3>1. pc = "unlink" /\ call.id \in AccountId /\ call.dir \in Parser /\ hasAccount(call.dir, call.id)
      BY <1>16, <2>2 DEF UnlinkFile, removeRefused, HomeInv, HomeCall, AtFile
    <3>2. Writes(NoFile)
      BY <2>2, OneFile DEF unlinkFile
    <3>3. \A f \in File : f.kind = "none" => f = NoFile
      BY DEF File, NoFile, EmptyFile, GarbageFile, AccountFile
    <3>4. \A p \in Parser : files[p][call.id] \in File
      BY DEF TypeOK, FilesTypeOK
    <3>5. \A p \in Parser : p # call.dir => files[p][call.id] = NoFile
      BY <3>1, <3>3, <3>4 DEF HomeInv, UniqueHome, hasAccount
    <3>6. \A p \in Parser : files'[p][call.id] = NoFile
      BY <3>1, <3>2, <3>5 DEF Writes
    <3> QED
      BY <1>E, <2>2, <3>1, <3>6 DEF Answered, unusedId
  <2> QED
    BY <1>16, <2>1, <2>2 DEF UnlinkFile
<1>17. CASE UNCHANGED vars
  BY <1>3, <1>17 DEF vars
<1> QED
  BY <1>4, <1>5, <1>6, <1>7, <1>8, <1>9, <1>10, <1>11, <1>12, <1>13, <1>14, <1>15, <1>16, <1>17
  DEF Next, Request, Local, SecretCall

(* The steps that answer ok. *)
LEMMA OkSteps ==
    ASSUME TypeOK, Answered, [Next]_vars, call.op # "none", result' = "ok"
    PROVE  UNCHANGED files /\ (pc = "emit" \/ pc = "erase")
<1>1. result # "ok" /\ pc \notin {"down", "scan", "boot", "idle"}
  BY DEF Answered
<1> QED
  BY <1>1 DEF Next, Request, Local, SecretCall, Start, Exit, Add, Edit, Remove, SetStatus, VerifyService,
      VerifyThrows, WritePlugin, BeginDrop, VerificationFailed, OpenFile, FlushFile, UnlinkFile, ResetStatus,
      CleanupDone, EmitWritten, RemovePluginData, EraseStatus, Scan, AutoInitialize, Serve, SaveSecret,
      DropSecret, CleanupOld, RemoveSecrets, vars, Goto, Finish, Terminate, Throw

(* Unless a write fails or is cut off, a request that answers ok has been  *)
(* carried out: the file holds what was verified, or no directory has the  *)
(* account, whatever plugins, secrets, events and crashes do.              *)
THEOREM OkIsDone == ASSUME Untorn PROVE Spec => OkMeansDone
<1>1. Init => Answered
  BY DEF Init, NoCall, Answered
<1>2. TypeOK /\ RoInv /\ HomeInv /\ Answered /\ [Next]_vars => Answered'
  BY AnsweredStep
<1>3. ASSUME TypeOK, Answered, [Next]_vars, call.op # "none", result' = "ok"
      PROVE  IF call.op = "remove" THEN \A p \in Parser : files'[p][call.id] = NoFile
                                   ELSE files'[call.dir][call.id] = AccountFile(refs)
  <2>1. UNCHANGED files /\ (pc = "emit" \/ pc = "erase")
    BY <1>3, OkSteps
  <2> QED
    BY <1>3, <2>1 DEF Answered, unusedId
<1>4. TypeOK /\ Answered /\ [Next]_vars =>
        [call.op # "none" /\ result' = "ok" =>
          IF call.op = "remove" THEN \A p \in Parser : files'[p][call.id] = NoFile
                                ELSE files'[call.dir][call.id] = AccountFile(refs)]_vars
  BY <1>3
<1> QED
  BY <1>1, <1>2, <1>4, HomeInductive, PTL DEF Spec, OkMeansDone
-----------------------------------------------------------------------------
(* What plugins hold for the accounts, when no plugin fails and no request *)
(* is cut off.                                                             *)

Completing == Untorn /\ Faults \cap {"crash", "plugin", "noevents"} = {}

Pid(p, k, s) == files[p][k].refs[s]

(* No two services of accounts refer to the same plugin data. *)
PidsApart ==
    \A p, q \in Parser, k, j \in Key, s, t \in Service :
        Pid(p, k, s) \in PluginId /\ Pid(p, k, s) = Pid(q, j, t) => p = q /\ k = j /\ s = t

(* Plugins hold what accounts refer to, but for the one being removed. *)
PidsHeld ==
    \A p \in Parser, k \in Key, s \in Service :
        Pid(p, k, s) \in PluginId =>
            \/ Pid(p, k, s) \in pdata
            \/ pc \in {"premove", "unlink"} /\ p = call.dir /\ k = call.id

(* The plugin data of the account being verified is its own. *)
NewPids ==
    pc \in Verifying4 \cup {"flush"} =>
        \A s \in Service : refs[s] \in PluginId =>
            /\ refs[s] \in pdata
            /\ \A t \in Service : refs[t] = refs[s] => t = s
            /\ \A p \in Parser, k \in Key, t \in Service : Pid(p, k, t) # refs[s]

(* The removal at hand can go on to its end. *)
Removing ==
    /\ pc \in {"premove", "unlink"} =>
          /\ call.dir \in Parser /\ hasAccount(call.dir, call.id) /\ ~isReadonly(call.dir)
          /\ refs = files[call.dir][call.id].refs
    /\ pc = "premove" => \A s \in todo : refs[s] \in pdata \cap PluginId

HeldInv == PidsApart /\ PidsHeld /\ NewPids /\ Removing

LEMMA HeldInit == Init => HeldInv
<1> SUFFICES ASSUME Init PROVE HeldInv
  OBVIOUS
<1>1. PICK home \in [Provisioned -> Parser], file \in [Provisioned -> ProvisionedFile] :
        files = [p \in Parser |-> [k \in Key |->
                   IF k \in Provisioned /\ home[k] = p THEN file[k] ELSE NoFile]]
  BY DEF Init, FilesInit
<1>2. \A f \in ProvisionedFile, s \in Service : f.refs[s] \notin PluginId
  BY DataAssumption DEF ProvisionedFile, NoFile, NoServices, AccountFile
<1>3. NoFile \in ProvisionedFile
  BY DEF ProvisionedFile
<1>4. \A p \in Parser, k \in Key : files[p][k] \in ProvisionedFile
  BY <1>1, <1>3
<1>5. \A p \in Parser, k \in Key, s \in Service : Pid(p, k, s) \notin PluginId
  BY <1>2, <1>4 DEF Pid
<1> QED
  BY <1>5 DEF Init, HeldInv, PidsApart, PidsHeld, NewPids, Removing, Verifying4

(* The plugin ids on disk after the request's file is written. *)
LEMMA PidsAfter ==
    ASSUME NEW f, Writes(f)
    PROVE  \A p \in Parser, k \in Key, s \in Service :
              Pid(p, k, s)' = IF p = call.dir /\ k = call.id THEN f.refs[s] ELSE Pid(p, k, s)
BY DEF Writes, Pid

LEMMA NoPids == \A s \in Service : NoFile.refs[s] \notin PluginId /\ EmptyFile.refs[s] \notin PluginId
BY DataAssumption DEF NoFile, EmptyFile, NoServices

LEMMA HeldStep ==
    ASSUME Completing, TypeOK, RoInv, HomeInv, OwnedCall, Answered, HeldInv, [Next]_vars
    PROVE  HeldInv'
<1> USE DEF Goto, Finish, Throw, Terminate, pluginVars
<1>0. Untorn /\ "plugin" \notin Faults /\ refs \in ServiceRefs /\ Parser' = Parser
  BY DEF Completing, TypeOK, Parser
<1>E. UNCHANGED files => \A p \in Parser, k \in Key, s \in Service : Pid(p, k, s)' = Pid(p, k, s)
  BY DEF Pid
<1>F. UNCHANGED files => PidsApart'
  BY <1>0, <1>E DEF HeldInv, PidsApart
<1>1. CASE /\ UNCHANGED <<files, pdata>> /\ pc \notin {"premove", "unlink"}
           /\ pc' \notin Verifying4 \cup {"flush", "premove", "unlink"}
  BY <1>0, <1>1, <1>E, <1>F DEF HeldInv, PidsHeld, NewPids, Removing
<1>2. CASE /\ UNCHANGED <<files, pdata, call, refs>>
           /\ pc \in Verifying4 /\ pc' \in Verifying4
  <2>1. NewPids'
    BY <1>0, <1>2, <1>E DEF HeldInv, NewPids
  <2>2. PidsHeld'
    BY <1>0, <1>2, <1>E DEF HeldInv, PidsHeld, Verifying4
  <2> QED
    BY <1>2, <1>F, <2>1, <2>2 DEF HeldInv, Removing, Verifying4
<1>3. CASE UNCHANGED <<files, pdata, call, refs, pc, todo>>
  <2>1. NewPids'
    BY <1>0, <1>3, <1>E DEF HeldInv, NewPids
  <2>2. PidsHeld'
    BY <1>0, <1>3, <1>E DEF HeldInv, PidsHeld
  <2>3. Removing'
    BY <1>0, <1>3 DEF HeldInv, Removing, hasAccount, isReadonly
  <2> QED
    BY <1>3, <1>F, <2>1, <2>2, <2>3 DEF HeldInv
<1>4. CASE /\ pc \in {"idle", "boot"}
           /\ \E op, id, oldId, old, p, S : BeginWrite(op, id, oldId, old, p, S)
  <2>1. /\ UNCHANGED <<files, pdata>> /\ pc' = "verify"
        /\ \A s \in Service : refs'[s] \notin PluginId
    BY <1>4, DataAssumption DEF BeginWrite
  <2> QED
    BY <1>0, <1>4, <1>E, <1>F, <2>1 DEF HeldInv, PidsHeld, NewPids, Removing
<1>5. CASE Remove /\ ~Refuse
  <2>0. PICK id \in Key : \E p \in findParser(id, TRUE) :
          /\ parserRead(p, id)
          /\ call' = [op |-> "remove", id |-> id, oldId |-> readId(p, id),
                      old |-> services(files[p][id].refs), dir |-> p]
          /\ refs' = files[p][id].refs
          /\ todo' = {s \in Service : files[p][id].refs[s] \in PluginId}
    BY <1>5 DEF Remove
  <2>1. PICK p \in findParser(id, TRUE) :
          /\ parserRead(p, id)
          /\ call' = [op |-> "remove", id |-> id, oldId |-> readId(p, id),
                      old |-> services(files[p][id].refs), dir |-> p]
          /\ refs' = files[p][id].refs
          /\ todo' = {s \in Service : files[p][id].refs[s] \in PluginId}
    BY <2>0
  <2>2. pc = "idle" /\ pc' = "premove" /\ UNCHANGED <<files, pdata>>
    BY <1>5 DEF Remove
  <2>3. p \in Parser /\ ~isReadonly(p) /\ hasAccount(p, id)
    BY <2>1, FindWritable, ReadHas
  <2>4. call'.dir = p /\ call'.id = id
    BY <2>1
  <2>5. \A s \in todo' : refs'[s] \in pdata \cap PluginId
    BY <2>1, <2>3, <2>2 DEF HeldInv, PidsHeld, Pid
  <2>6. Removing'
    BY <1>0, <2>1, <2>3, <2>4, <2>5, <2>2 DEF Removing, hasAccount, isReadonly
  <2> QED
    BY <1>0, <1>E, <1>F, <2>2, <2>6 DEF HeldInv, PidsHeld, NewPids, Verifying4
<1>6. CASE WritePlugin
  <2>1. CASE UNCHANGED <<refs, pdata>>
    BY <1>2, <1>6, <2>1 DEF WritePlugin, Verifying4
  <2>2. CASE \E s \in Service, pid \in freshPids(pidsOnDisk) :
                pluginWrite(pid) /\ (refs' = [refs EXCEPT ![s] = pid] \/ UNCHANGED refs)
    <3>1. PICK s \in Service, pid \in freshPids(pidsOnDisk) :
             pluginWrite(pid) /\ (refs' = [refs EXCEPT ![s] = pid] \/ UNCHANGED refs)
      BY <2>2
    <3>2. pdata' = pdata \cup {pid} /\ pid \in PluginId /\ pid \notin pdata
      BY <3>1 DEF pluginWrite, freshPids
    <3>3. \A p \in Parser, k \in Key, t \in Service : Pid(p, k, t) # pid
      BY <3>1 DEF freshPids, pidsOnDisk, Pid
    <3>4. pc = "write" /\ pc' = "verify" /\ UNCHANGED <<files, call>>
      BY <1>6 DEF WritePlugin
    <3>5. NewPids'
      <4>1. CASE UNCHANGED refs
        BY <1>E, <3>2, <3>4, <4>1 DEF HeldInv, NewPids, Verifying4
      <4>2. CASE refs' = [refs EXCEPT ![s] = pid]
        BY <1>0, <1>E, <3>2, <3>3, <3>4, <4>2 DEF HeldInv, NewPids, Verifying4, ServiceRefs
      <4> QED
        BY <3>1, <4>1, <4>2
    <3> QED
      BY <1>0, <1>E, <1>F, <3>2, <3>4, <3>5 DEF HeldInv, PidsHeld, Removing
  <2> QED
    BY <1>6, <2>1, <2>2 DEF WritePlugin
<1>7. CASE RemovePluginData
  <2>1. PICK s \in todo : /\ pdata' = pdata \ {refs[s]} /\ todo' = todo \ {s} /\ s \in Service
                          /\ UNCHANGED <<pc, call, refs, files>> /\ pc = "premove"
    BY <1>0, <1>7 DEF RemovePluginData, IsFirst, pluginRemove, HeldInv, Removing
  <2>2. /\ call.dir \in Parser /\ call.id \in Key /\ todo \subseteq Service
        /\ \A t \in Service : refs[t] = Pid(call.dir, call.id, t)
    BY <2>1 DEF HeldInv, Removing, TypeOK, Pid
  <2>3. \A t \in todo : t # s => refs[t] # refs[s]
    BY <2>1, <2>2 DEF HeldInv, Removing, PidsApart
  <2>4. Removing'
    BY <1>0, <2>1, <2>3 DEF HeldInv, Removing, hasAccount, isReadonly
  <2>5. PidsHeld'
    BY <1>0, <1>E, <2>1, <2>2 DEF HeldInv, PidsHeld, PidsApart, Removing
  <2> QED
    BY <1>F, <2>1, <2>4, <2>5 DEF HeldInv, NewPids, Verifying4
<1>8. CASE RemoveSecrets
  BY <1>0, <1>8, <1>E, <1>F
  DEF RemoveSecrets, HeldInv, PidsHeld, NewPids, Removing, Verifying4, hasAccount, isReadonly
<1>9. CASE OpenFile
  <2>1. /\ pc = "verify" /\ pc' = "flush" /\ UNCHANGED <<call, refs, pdata>>
        /\ files' = [files EXCEPT ![call.dir][call.id] = EmptyFile]
    <3>1. pc = "verify" /\ ~writeRefused(call.dir, call.id)
      BY <1>9, DataAssumption DEF OpenFile, HomeInv, HomeCall, AtFile, Verifying4, OwnedCall, writeRefused
    <3> QED
      BY <1>0, <1>9, <3>1 DEF OpenFile, truncateFile, Untorn
  <2>2. Writes(EmptyFile)
    BY <2>1, OneFile
  <2>3. \A p \in Parser, k \in Key, s \in Service :
              Pid(p, k, s)' \in PluginId => Pid(p, k, s)' = Pid(p, k, s)
    BY <2>2, PidsAfter, NoPids
  <2>4. PidsApart'
    BY <1>0, <2>1, <2>3 DEF HeldInv, PidsApart
  <2>5. PidsHeld'
    BY <1>0, <2>1, <2>3 DEF HeldInv, PidsHeld
  <2>6. NewPids' /\ Removing'
    BY <1>0, <2>1, <2>3 DEF HeldInv, NewPids, Removing, Verifying4
  <2> QED
    BY <2>4, <2>5, <2>6 DEF HeldInv
<1>10. CASE FlushFile
  <2>1. /\ pc = "flush" /\ pc' = "status" /\ UNCHANGED <<call, refs, pdata>>
        /\ files' = [files EXCEPT ![call.dir][call.id] = AccountFile(refs)]
    BY <1>0, <1>10 DEF FlushFile, flushFile, Untorn
  <2>2. Writes(AccountFile(refs))
    BY <2>1, OneFile
  <2>3. \A p \in Parser, k \in Key, s \in Service :
              Pid(p, k, s)' = IF p = call.dir /\ k = call.id THEN refs[s] ELSE Pid(p, k, s)
    BY <2>2, PidsAfter DEF AccountFile
  <2>4. PidsApart'
    BY <1>0, <2>1, <2>3 DEF HeldInv, PidsApart, NewPids
  <2>5. PidsHeld'
    BY <1>0, <2>1, <2>3 DEF HeldInv, PidsHeld, NewPids
  <2>6. NewPids' /\ Removing'
    BY <1>0, <2>1, <2>3 DEF HeldInv, NewPids, Removing, Verifying4
  <2> QED
    BY <2>4, <2>5, <2>6 DEF HeldInv
<1>11. CASE UnlinkFile
  <2>1. /\ pc = "unlink" /\ pc' = "erase" /\ UNCHANGED <<call, pdata>>
        /\ files' = [files EXCEPT ![call.dir][call.id] = NoFile]
    BY <1>0, <1>11 DEF UnlinkFile, unlinkFile, removeRefused, HeldInv, Removing, Untorn
  <2>2. Writes(NoFile)
    BY <2>1, OneFile
  <2>3. \A p \in Parser, k \in Key, s \in Service :
              Pid(p, k, s)' \in PluginId => Pid(p, k, s)' = Pid(p, k, s) /\ ~(p = call.dir /\ k = call.id)
    BY <2>2, PidsAfter, NoPids
  <2>4. PidsApart'
    BY <1>0, <2>1, <2>3 DEF HeldInv, PidsApart
  <2>5. PidsHeld'
    BY <1>0, <2>1, <2>3 DEF HeldInv, PidsHeld
  <2>6. NewPids' /\ Removing'
    BY <1>0, <2>1, <2>3 DEF HeldInv, NewPids, Removing, Verifying4
  <2> QED
    BY <2>4, <2>5, <2>6 DEF HeldInv
<1>12. CASE Start \/ Exit \/ SetStatus \/ Scan \/ Serve
  BY <1>1, <1>12 DEF Start, initPlugins, Exit, Completing, SetStatus, Scan, Serve, Verifying4
<1>13. CASE VerificationFailed \/ ResetStatus \/ CleanupOld \/ CleanupDone \/ EmitWritten \/ EraseStatus
  BY <1>1, <1>13 DEF VerificationFailed, ResetStatus, CleanupOld, CleanupDone, EmitWritten, EraseStatus, Verifying4
<1>14. CASE VerifyService \/ SaveSecret \/ BeginDrop \/ DropSecret
  BY <1>2, <1>14 DEF VerifyService, SaveSecret, afterSave, BeginDrop, DropSecret, Verifying4
<1>15. CASE Add \/ AutoInitialize \/ Edit \/ (Remove /\ Refuse)
  BY <1>3, <1>4, <1>15 DEF Add, AutoInitialize, Edit, createAccount, Refuse, ctlVars
<1>16. CASE UNCHANGED vars
  BY <1>3, <1>16 DEF vars
<1>17. ~VerifyThrows
  BY <1>0 DEF VerifyThrows
<1> QED
  BY <1>5, <1>6, <1>7, <1>8, <1>9, <1>10, <1>11, <1>12, <1>13, <1>14, <1>15, <1>16, <1>17
  DEF Next, Request, Local, SecretCall

(* When no plugin fails, no write fails and no request is cut off, a       *)
(* removal that found its account succeeds: each plugin still holds what   *)
(* the file refers to, and two accounts never share it.                    *)
THEOREM RemovalsComplete == ASSUME Completing PROVE Spec => RemovalCompletes
<1>1. Untorn /\ "noevents" \notin Faults
  BY DEF Completing
<1>2. Init => OwnedCall /\ Answered /\ HeldInv
  BY OwnedInit, HeldInit DEF Init, NoCall, Answered
<1>3. TypeOK /\ RoInv /\ HomeInv /\ OwnedCall /\ Answered /\ HeldInv /\ [Next]_vars
        => OwnedCall' /\ Answered' /\ HeldInv'
  BY <1>1, OwnedCallStep, AnsweredStep, HeldStep
<1>4. ASSUME OwnedCall, Answered, HeldInv, [Next]_vars, call.op = "remove", pc' = "idle"
      PROVE  result' = "ok"
  <2>1. pc \in {"premove", "unlink", "erase"} /\ inited
    BY <1>4 DEF Answered, OwnedCall
  <2>2. ~removeRefused(call.dir, call.id) \/ pc # "unlink"
    BY <1>4 DEF HeldInv, Removing, removeRefused
  <2>3. pc = "premove" => \A s \in todo : refs[s] \in pdata
    BY <1>4 DEF HeldInv, Removing
  <2> QED
    BY <1>4, <2>1, <2>2, <2>3 DEF Completing, Untorn, Next, Request, Local, SecretCall, Start, Exit, Add, Edit,
      Remove, SetStatus, VerifyService, VerifyThrows, WritePlugin, BeginDrop, VerificationFailed, OpenFile,
      FlushFile, UnlinkFile, ResetStatus, CleanupDone, EmitWritten, RemovePluginData, EraseStatus, Scan,
      AutoInitialize, Serve, SaveSecret, DropSecret, CleanupOld, RemoveSecrets, vars, Goto, Finish, IsFirst
<1>5. OwnedCall /\ Answered /\ HeldInv /\ [Next]_vars =>
        [call.op = "remove" /\ pc' = "idle" => result' = "ok"]_vars
  BY <1>4
<1>6. Spec => [](TypeOK /\ RoInv /\ HomeInv)
  BY <1>1, HomeInductive
<1> QED
  BY <1>2, <1>3, <1>5, <1>6, PTL DEF Spec, RemovalCompletes
=============================================================================
