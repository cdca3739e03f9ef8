----------------------- MODULE AccountRequests_proofs -----------------------
(***************************************************************************)
(* What a request to AccountManager keeps to from its first step to its    *)
(* last, for every choice of accounts, services, plugins and directories   *)
(* and under all faults: files that are torn, cut off or not written,      *)
(* crashes at any step, and plugins that do not load at the next start.    *)
(* The limits it was checked against still hold when it writes its file,   *)
(* and each of its steps brings it closer to its end.                      *)
(***************************************************************************)
EXTENDS AccountHomes_proofs, FiniteSetTheorems

(* The accounts that are listed with service s; instances counts them.     *)
Having(s) == {l \in listAccounts({}) : s \in servicesIn(l)}

(* A directory holds finitely many files, of which each step adds one at   *)
(* most.                                                                   *)
Stored == {l \in Parser \X Key : hasAccount(l[1], l[2])}

(* From the check of the limits to the flush of the file, a request that   *)
(* creates an account is about the services it was checked for, and the    *)
(* services it has yet to verify are among them.                           *)
BeforeFile == Verifying4 \cup {"flush"}

BetweenCalls == pc \in {"down", "scan", "boot", "idle"} => call.op = "none"

TodoOfAccount == pc \in {"verify", "save", "write"} => todo \subseteq services(refs)

RoomLeft ==
    pc \in BeforeFile /\ call.op \in {"add", "autoinit"} =>
        \A s \in services(refs) : MaxCount[s] >= 0 => instances(s) < MaxCount[s]

(* While accounts are created at start-up, a plugin that is still to be    *)
(* visited has no account, nor has the plugin of the account at hand,      *)
(* until its file is written.                                              *)
NoneYet ==
    /\ pc = "boot" \/ call.op = "autoinit" => \A s \in boot : Having(s) = {}
    /\ pc \in BeforeFile /\ call.op = "autoinit" =>
          \A s \in services(refs) : Having(s) = {} /\ s \notin boot

LimitInv == IsFiniteSet(Stored) /\ BetweenCalls /\ TodoOfAccount /\ RoomLeft /\ NoneYet
-----------------------------------------------------------------------------
(* Finitely many files, and what a step does to the accounts a service has.*)

LEMMA FiniteInit == Init => IsFiniteSet(Stored)
<1> SUFFICES ASSUME Init PROVE IsFiniteSet(Stored)
  OBVIOUS
<1>1. PICK home \in [Provisioned -> Parser], file \in [Provisioned -> ProvisionedFile] :
        files = [p \in Parser |-> [k \in Key |->
                   IF k \in Provisioned /\ home[k] = p THEN file[k] ELSE NoFile]]
  BY DEF Init, FilesInit
<1>2. Stored \subseteq Parser \X Provisioned
  BY <1>1 DEF Stored, hasAccount, NoFile
<1>3. IsFiniteSet(Parser)
  BY DirAssumption, FS_Interval DEF Parser
<1>4. IsFiniteSet(Parser \X Provisioned)
  BY <1>3, DirAssumption, FS_Product
<1> QED
  BY <1>2, <1>4, FS_Subset

LEMMA HavingStored == ASSUME NEW s PROVE Having(s) \subseteq Stored
BY DEF Having, Stored, listAccounts, parserRead, hasAccount

LEMMA HavingFinite ==
    ASSUME IsFiniteSet(Stored), NEW s
    PROVE  IsFiniteSet(Having(s)) /\ instances(s) = Cardinality(Having(s)) /\ instances(s) \in Nat
<1>1. IsFiniteSet(Having(s))
  BY HavingStored, FS_Subset
<1>2. instances(s) = Cardinality(Having(s))
  BY DEF instances, Having
<1> QED
  BY <1>1, <1>2, FS_CardinalityType

LEMMA FiniteStep ==
    ASSUME TypeOK, RoInv, StepKind, IsFiniteSet(Stored)
    PROVE  IsFiniteSet(Stored')
<1>1. Stored' \subseteq Stored \cup {<<call.dir, call.id>>}
  <2> SUFFICES ASSUME NEW p \in Parser, NEW k \in Key, hasAccount(p, k)', ~hasAccount(p, k)
               PROVE  p = call.dir /\ k = call.id
    BY DEF Stored, Parser
  <2>1. files'[p][k] # files[p][k]
    BY DEF hasAccount
  <2> QED
    BY <2>1, FileStep DEF Writes
<1>2. IsFiniteSet(Stored \cup {<<call.dir, call.id>>})
  BY FS_AddElement
<1> QED
  BY <1>1, <1>2, FS_Subset

(* A service gains an account only when the file of one that has it is     *)
(* flushed.                                                                *)
LEMMA HavingStep ==
    ASSUME TypeOK, RoInv, StepKind, UNCHANGED plugins, NEW s \in Service
    PROVE  /\ Having(s)' \subseteq Having(s) \cup {<<call.dir, call.id>>}
           /\ pc # "flush" \/ s \notin services(refs) => Having(s)' \subseteq Having(s)
<1>1. ASSUME NEW p \in Parser, NEW k \in Key, <<p, k>> \in Having(s)', <<p, k>> \notin Having(s)
      PROVE  p = call.dir /\ k = call.id /\ pc = "flush" /\ s \in services(refs)
  <2>1. files'[p][k] # files[p][k]
    BY <1>1 DEF Having, listAccounts, parserRead, servicesIn, Parser
  <2>2. s \in services(files'[p][k].refs)
    BY <1>1 DEF Having, listAccounts, servicesIn, services
  <2>3. p = call.dir /\ k = call.id
    BY <2>1, FileStep DEF Writes
  <2>4. s \notin services(EmptyFile.refs) /\ s \notin services(GarbageFile.refs) /\ s \notin services(NoFile.refs)
    BY DEF EmptyFile, GarbageFile, NoFile, NoServices, services
  <2>5. CASE Truncates
    <3>1. Writes(EmptyFile)
      BY <2>5, OneFile DEF Truncates, truncateFile
    <3> QED
      BY <2>2, <2>3, <2>4, <3>1 DEF Writes
  <2>6. CASE Unlinks
    <3>1. Writes(NoFile)
      BY <2>6, OneFile DEF Unlinks, unlinkFile
    <3> QED
      BY <2>2, <2>3, <2>4, <3>1 DEF Writes
  <2>7. CASE Flushes
    <3>1. pc = "flush" /\ flushFile(call.dir, call.id, refs) /\ refs \in ServiceRefs
      BY <2>7 DEF Flushes, TypeOK
    <3>2. CASE files' = [files EXCEPT ![call.dir][call.id] = AccountFile(refs)]
      <4>1. Writes(AccountFile(refs))
        BY <3>2, OneFile
      <4> QED
        BY <2>2, <2>3, <3>1, <4>1 DEF AccountFile, Writes
    <3>3. ASSUME NEW f \in cutOff(refs), files' = [files EXCEPT ![call.dir][call.id] = f]
          PROVE  s \in services(refs)
      <4>0. Writes(f)
        BY <3>3, OneFile
      <4>1. files'[p][k] = f
        BY <2>3, <4>0 DEF Writes
      <4>2. f # GarbageFile
        BY <2>2, <2>4, <4>1
      <4>3. PICK q \in ServiceRefs : f = AccountFile(q) /\ (q[s] # Absent => refs[s] # Absent)
        BY <3>1, <4>2, CutOffFile
      <4> QED
        BY <2>2, <4>1, <4>3 DEF AccountFile, services
    <3> QED
      BY <2>1, <2>3, <3>1, <3>2, <3>3 DEF flushFile
  <2> QED
    BY <2>1, <2>5, <2>6, <2>7
    DEF StepKind, Quiet, Ends, BeginsCreation, BeginsEdit, BeginsRemoval, BeginWrite, OpenFails, Resets,
        Erases, Reports, Stops
<1>2. Having(s)' \subseteq Parser \X Key
  BY DEF Having, listAccounts, Parser
<1> QED
  BY <1>1, <1>2

LEMMA HavingFewer ==
    ASSUME IsFiniteSet(Stored), NEW s, Having(s)' \subseteq Having(s)
    PROVE  instances(s)' <= instances(s)
<1>1. instances(s)' = Cardinality(Having(s)')
  BY DEF instances, Having
<1> QED
  BY <1>1, HavingFinite, FS_Subset
-----------------------------------------------------------------------------
(* The kinds of steps, by what they do to the request, its services, and   *)
(* the plugins that are still to be visited.                               *)
Creates ==
    /\ pc' = "verify" /\ UNCHANGED <<files, plugins>>
    /\ \E S \in SUBSET Service :
          /\ services(refs') = S /\ todo' = S /\ verifyAccountCreationLimits(S)
          /\ \/ call'.op = "add" /\ pc = "idle" /\ boot' = boot
             \/ /\ call'.op = "autoinit" /\ pc = "boot"
                /\ \E s \in boot : S = {s} /\ boot' = boot \ {s}

Edits ==
    /\ pc' = "verify" /\ pc = "idle" /\ call'.op = "edit"
    /\ todo' \subseteq services(refs') /\ UNCHANGED plugins

Continues ==
    /\ UNCHANGED <<call, boot, plugins>> /\ services(refs') = services(refs)
    /\ pc' \notin {"down", "scan", "boot", "idle"}
    /\ pc' \in BeforeFile => pc \in Verifying4
    /\ pc' \in {"verify", "save", "write"} => pc \in {"verify", "save", "write"} /\ todo' \subseteq todo

Removes ==
    /\ pc = "idle" /\ pc' = "premove" /\ call'.op = "remove" /\ UNCHANGED plugins

Returns ==
    /\ call'.op = "none" /\ pc' \in {"down", "boot", "idle"}
    /\ pc' = "boot" => call.op = "autoinit" /\ UNCHANGED <<boot, plugins>>

Waits ==
    /\ call' = call /\ pc \in {"down", "scan", "boot", "idle"} /\ pc' \in {"scan", "boot", "idle"}
    /\ pc' = "boot" =>
          /\ UNCHANGED <<files, plugins>>
          /\ (pc = "boot" /\ boot' \subseteq boot) \/ (pc = "scan" /\ boot' = uninitialized)

LimitKind == Creates \/ Edits \/ Continues \/ Removes \/ Returns \/ Waits

(* What is written back changes no service of the account. *)
LEMMA RefsKept ==
    ASSUME TypeOK, TodoOfAccount, WritePlugin
    PROVE  services(refs') = services(refs) /\ todo' \subseteq todo
<1>1. pc = "write" /\ todo \subseteq services(refs) /\ refs \in ServiceRefs
  BY DEF WritePlugin, TodoOfAccount, TypeOK
<1>2. PICK s \in Service :
         /\ s \in todo /\ todo' \subseteq todo
         /\ UNCHANGED refs \/ \E pid \in PluginId : refs' = [refs EXCEPT ![s] = pid]
  BY DEF WritePlugin, NextService, IsFirst, freshPids
<1> QED
  BY <1>1, <1>2, DataAssumption DEF services, ServiceRefs

LEMMA CreateKind ==
    ASSUME NEW op, NEW S \in SUBSET Service, createAccount(op, S, TRUE) \/ createAccount(op, S, FALSE)
    PROVE  /\ pc' = "verify" /\ UNCHANGED <<files, plugins>> /\ call'.op = op
           /\ services(refs') = S /\ todo' = S /\ verifyAccountCreationLimits(S)
<1>1. PICK id \in freshIds, p \in findParser(NullId, TRUE) : BeginWrite(op, id, id, {}, p, S)
  BY DEF createAccount
<1>2. services(refs') = S
  BY <1>1, DataAssumption DEF BeginWrite, services
<1> QED
  BY <1>1, <1>2 DEF createAccount, createRefused, BeginWrite, pluginVars

LEMMA LimitKinds ==
    ASSUME TypeOK, BetweenCalls, TodoOfAccount, [Next]_vars
    PROVE  LimitKind \/ (UNCHANGED <<pc, call, refs, todo, boot, files, plugins>>)
<1> USE DEF Goto, Finish, Throw, Terminate, BeforeFile, Verifying4, LimitKind, pluginVars, NoCall
<1>1. CASE Start
  BY <1>1 DEF Start, Waits
<1>2. CASE Exit
  BY <1>2 DEF Exit, Returns
<1>3. CASE Add
  <2>1. PICK S \in SUBSET Service, wellFormed \in BOOLEAN :
           \/ Refuse
           \/ createAccount("add", S, wellFormed) /\ UNCHANGED boot
    BY <1>3 DEF Add
  <2>2. CASE Refuse
    BY <2>2 DEF Refuse
  <2>3. CASE createAccount("add", S, wellFormed) /\ UNCHANGED boot
    <3>1. createAccount("add", S, TRUE) \/ createAccount("add", S, FALSE)
      BY <2>3
    <3> QED
      BY <1>3, <2>3, <3>1, CreateKind DEF Add, Creates
  <2> QED
    BY <2>1, <2>2, <2>3
<1>4. CASE Edit
  <2>1. CASE Refuse
    BY <2>1 DEF Refuse
  <2>2. CASE ~Refuse
    <3>1. PICK id \in Key, S \in SUBSET Service :
             \E r \in readAccount(id) : \E p \in editTarget(r, id) :
                BeginWrite("edit", id, readId(r, id), services(files[r][id].refs), p, S)
      BY <1>4, <2>2 DEF Edit
    <3>2. PICK r \in readAccount(id) : \E p \in editTarget(r, id) :
             BeginWrite("edit", id, readId(r, id), services(files[r][id].refs), p, S)
      BY <3>1
    <3>3. PICK p \in editTarget(r, id) :
             BeginWrite("edit", id, readId(r, id), services(files[r][id].refs), p, S)
      BY <3>2
    <3>4. services(refs') = S
      BY <3>3, DataAssumption DEF BeginWrite, services
    <3> QED
      BY <1>4, <3>3, <3>4 DEF Edit, BeginWrite, Edits
  <2> QED
    BY <2>1, <2>2
<1>5. CASE Remove
  <2>1. CASE Refuse
    BY <2>1 DEF Refuse
  <2>2. CASE ~Refuse
    <3>1. PICK id \in Key :
             /\ \E p \in findParser(id, TRUE) :
                    call' = [op |-> "remove", id |-> id, oldId |-> readId(p, id),
                             old |-> services(files[p][id].refs), dir |-> p]
             /\ pc = "idle" /\ pc' = "premove" /\ UNCHANGED plugins
      BY <1>5, <2>2 DEF Remove
    <3> QED
      BY <3>1 DEF Removes
  <2> QED
    BY <2>1, <2>2
<1>6. CASE SetStatus
  BY <1>6 DEF SetStatus
<1>7. CASE VerifyService
  BY <1>7 DEF VerifyService, Continues
<1>8. CASE VerifyThrows
  BY <1>8 DEF VerifyThrows, Returns
<1>9. CASE WritePlugin
  <2>1. UNCHANGED plugins
    BY <1>9 DEF WritePlugin, pluginWrite
  <2> QED
    BY <1>9, <2>1, RefsKept DEF WritePlugin, Continues
<1>10. CASE BeginDrop
  BY <1>10 DEF BeginDrop, Continues
<1>11. CASE VerificationFailed
  BY <1>11 DEF VerificationFailed, Returns
<1>12. CASE OpenFile
  <2>1. pc = "verify" /\ UNCHANGED <<boot, plugins>>
    BY <1>12 DEF OpenFile
  <2>2. CASE writeRefused(call.dir, call.id)
    BY <1>12, <2>1, <2>2 DEF OpenFile, Returns
  <2>3. CASE ~writeRefused(call.dir, call.id)
    <3>1. pc' \in {"flush", "status"} /\ UNCHANGED <<call, refs>>
      BY <1>12, <2>3 DEF OpenFile
    <3> QED
      BY <2>1, <3>1 DEF Continues, services
  <2> QED
    BY <2>2, <2>3
<1>13. CASE FlushFile
  BY <1>13 DEF FlushFile, Continues
<1>14. CASE ResetStatus
  BY <1>14 DEF ResetStatus, Returns, Continues
<1>15. CASE CleanupDone
  BY <1>15 DEF CleanupDone, Continues
<1>16. CASE EmitWritten
  BY <1>16 DEF EmitWritten, Returns
<1>17. CASE RemovePluginData
  <2>1. UNCHANGED plugins
    BY <1>17 DEF RemovePluginData, pluginRemove
  <2> QED
    BY <1>17, <2>1 DEF RemovePluginData, Returns, Continues
<1>18. CASE UnlinkFile
  BY <1>18 DEF UnlinkFile, Returns, Continues
<1>19. CASE EraseStatus
  BY <1>19 DEF EraseStatus, Returns
<1>20. CASE Scan
  BY <1>20 DEF Scan, Waits
<1>21. CASE AutoInitialize
  <2>1. PICK s \in Service :
           /\ IsFirst(s, boot) /\ boot' = boot \ {s}
           /\ \/ createAccount("autoinit", {s}, TRUE)
              \/ UNCHANGED <<files, pluginVars, ctlVars>>
    BY <1>21 DEF AutoInitialize
  <2>2. CASE createAccount("autoinit", {s}, TRUE)
    <3>1. {s} \in SUBSET Service /\ s \in boot /\ pc = "boot"
      BY <1>21, <2>1 DEF AutoInitialize, IsFirst
    <3>2. /\ pc' = "verify" /\ UNCHANGED <<files, plugins>> /\ call'.op = "autoinit"
          /\ services(refs') = {s} /\ todo' = {s} /\ verifyAccountCreationLimits({s})
      BY <2>2, <3>1, CreateKind
    <3>3. Creates
      BY <2>1, <3>1, <3>2 DEF Creates
    <3> QED
      BY <3>3
  <2>3. CASE UNCHANGED <<files, pluginVars, ctlVars>>
    BY <1>21, <2>1, <2>3 DEF AutoInitialize, ctlVars, Waits
  <2> QED
    BY <2>1, <2>2, <2>3
<1>22. CASE Serve
  BY <1>22 DEF Serve, Waits
<1>23. CASE SaveSecret
  BY <1>23 DEF SaveSecret, afterSave, Continues
<1>24. CASE DropSecret
  BY <1>24 DEF DropSecret, Continues
<1>25. CASE CleanupOld
  BY <1>25 DEF CleanupOld, Continues
<1>26. CASE RemoveSecrets
  BY <1>26 DEF RemoveSecrets, Continues
<1>27. CASE UNCHANGED vars
  BY <1>27 DEF vars
<1> QED
  BY <1>1, <1>2, <1>3, <1>4, <1>5, <1>6, <1>7, <1>8, <1>9, <1>10, <1>11, <1>12, <1>13, <1>14, <1>15, <1>16,
     <1>17, <1>18, <1>19, <1>20, <1>21, <1>22, <1>23, <1>24, <1>25, <1>26, <1>27
  DEF Next, Request, Local, SecretCall

(* Every step preserves the invariant, whatever fails. *)
LEMMA LimitInitially == Init => LimitInv
<1>1. Init => BetweenCalls /\ TodoOfAccount /\ RoomLeft /\ NoneYet
  BY DEF Init, NoCall, BetweenCalls, TodoOfAccount, RoomLeft, NoneYet, BeforeFile, Verifying4
<1> QED
  BY <1>1, FiniteInit DEF LimitInv

LEMMA LimitStep == TypeOK /\ RoInv /\ LimitInv /\ [Next]_vars => LimitInv'
<1> SUFFICES ASSUME TypeOK, RoInv, LimitInv, [Next]_vars PROVE LimitInv'
  OBVIOUS
<1> USE DEF LimitInv, BeforeFile, Verifying4
<1>1. StepKind
  BY StepKinds
<1>2. IsFiniteSet(Stored)'
  BY <1>1, FiniteStep
<1>3. LimitKind \/ UNCHANGED <<pc, call, refs, todo, boot, files, plugins>>
  BY LimitKinds
<1>4. BetweenCalls'
  BY <1>3 DEF LimitKind, Creates, Edits, Continues, Removes, Returns, Waits, BetweenCalls
<1>5. TodoOfAccount'
  BY <1>3 DEF LimitKind, Creates, Edits, Continues, Removes, Returns, Waits, TodoOfAccount, services
<1>6. ASSUME UNCHANGED plugins, pc # "flush", NEW s \in Service
      PROVE  Having(s)' \subseteq Having(s) /\ instances(s)' <= instances(s)
             /\ instances(s) \in Nat /\ instances(s)' \in Nat
  <2>1. Having(s)' \subseteq Having(s)
    BY <1>1, <1>6, HavingStep
  <2>2. instances(s) \in Nat
    BY HavingFinite
  <2>3. instances(s)' \in Nat
    <3>1. IsFiniteSet(Having(s)') /\ instances(s)' = Cardinality(Having(s)')
      BY <2>1, HavingFinite, FS_Subset DEF instances, Having
    <3> QED
      BY <3>1, FS_CardinalityType
  <2> QED
    BY <2>1, <2>2, <2>3, HavingFewer
<1>7. ASSUME UNCHANGED <<files, plugins>>, NEW s
       PROVE  Having(s)' = Having(s) /\ instances(s)' = instances(s)
  <2>1. Having(s)' = Having(s)
    BY <1>7 DEF Having, listAccounts, parserRead, servicesIn, Parser
  <2> QED
    BY <2>1 DEF Having, instances
<1>8. RoomLeft'
  <2> SUFFICES ASSUME pc' \in BeforeFile, call'.op \in {"add", "autoinit"},
                      NEW s \in services(refs'), MaxCount[s] >= 0
               PROVE  instances(s)' < MaxCount[s]
    BY DEF RoomLeft
  <2>1. s \in Service /\ MaxCount[s] \in Int
    BY PluginAssumption DEF services
  <2>2. CASE Creates
    <3>1. instances(s) < MaxCount[s] /\ UNCHANGED plugins /\ pc # "flush"
      BY <2>2 DEF Creates, verifyAccountCreationLimits
    <3> QED
      BY <1>6, <2>1, <3>1
  <2>3. CASE Continues /\ pc # "flush"
    <3>1. instances(s) < MaxCount[s] /\ UNCHANGED plugins
      BY <2>3 DEF Continues, RoomLeft
    <3> QED
      BY <1>6, <2>1, <2>3, <3>1
  <2>4. CASE UNCHANGED <<pc, call, refs, todo, boot, files, plugins>>
    BY <1>7, <2>1, <2>4 DEF RoomLeft, services
  <2> QED
    BY <1>3, <2>2, <2>3, <2>4
    DEF LimitKind, Edits, Continues, Removes, Returns, Waits
<1>9. NoneYet'
  <2>1. CASE Creates
    <3>1. \A s \in Service : Having(s)' \subseteq Having(s)
      BY <1>6, <2>1 DEF Creates
    <3>2. services(refs') \subseteq Service /\ boot' \subseteq Service
      BY <2>1 DEF Creates, TypeOK
    <3>3. call'.op = "autoinit" => /\ pc = "boot"
                                   /\ \E s \in boot : services(refs') = {s} /\ boot' = boot \ {s}
      BY <2>1 DEF Creates
    <3>4. pc' = "verify"
      BY <2>1 DEF Creates
    <3> QED
      BY <3>1, <3>2, <3>3, <3>4 DEF NoneYet
  <2>2. CASE Continues
    <3>1. \A s \in boot : Having(s)' = {} \/ call.op # "autoinit"
      <4> SUFFICES ASSUME NEW s \in boot, call.op = "autoinit" PROVE Having(s)' = {}
        OBVIOUS
      <4>1. s \in Service /\ Having(s) = {} /\ (pc = "flush" => s \notin services(refs))
        BY DEF NoneYet, TypeOK
      <4>2. UNCHANGED plugins
        BY <2>2 DEF Continues
      <4> QED
        BY <1>1, <4>1, <4>2, HavingStep
    <3>2. ASSUME pc' \in BeforeFile, call.op = "autoinit", NEW s \in services(refs)
          PROVE  Having(s)' = {} /\ s \notin boot
      <4>1. s \in Service /\ pc \in Verifying4 /\ UNCHANGED plugins
        BY <2>2, <3>2 DEF Continues, services
      <4> QED
        BY <1>6, <3>2, <4>1 DEF NoneYet
    <3>3. UNCHANGED <<call, boot>> /\ services(refs') = services(refs) /\ pc' # "boot"
      BY <2>2 DEF Continues
    <3> QED
      BY <3>1, <3>2, <3>3 DEF NoneYet
  <2>3. CASE Returns
    <3>1. CASE pc' = "boot"
      <4>1. call.op = "autoinit" /\ UNCHANGED <<boot, plugins>> /\ pc # "flush"
        BY <1>1, <2>3, <3>1 DEF Returns, StepKind, Quiet, Ends, BeginsCreation, BeginsEdit, BeginsRemoval,
           BeginWrite, Truncates, OpenFails, Flushes, Unlinks, Resets, Erases, Reports, Stops
      <4> QED
        BY <1>6, <2>3, <4>1 DEF NoneYet, Returns, TypeOK
    <3>2. CASE pc' # "boot"
      BY <2>3, <3>2 DEF NoneYet, Returns
    <3> QED
      BY <3>1, <3>2
  <2>4. CASE Waits
    <3>1. call'.op = "none" /\ pc' \notin BeforeFile
      BY <2>4 DEF Waits, BetweenCalls
    <3>2. ASSUME pc' = "boot", NEW s \in boot' PROVE Having(s)' = {}
      <4>1. s \in Service /\ UNCHANGED plugins /\ pc # "flush"
        BY <2>4, <3>2 DEF Waits, TypeOK, PluginTypeOK, uninitialized
      <4>2. Having(s) = {}
        <5>1. CASE pc = "boot"
          BY <2>4, <3>2, <5>1 DEF Waits, NoneYet
        <5>2. CASE pc # "boot"
          <6>1. instances(s) = 0
            BY <2>4, <3>2, <5>2 DEF Waits, uninitialized
          <6> QED
            BY <6>1, HavingFinite, FS_EmptySet
        <5> QED
          BY <5>1, <5>2
      <4> QED
        BY <1>6, <4>1, <4>2
    <3> QED
      BY <3>1, <3>2 DEF NoneYet
  <2>5. CASE Edits \/ Removes
    BY <2>5 DEF Edits, Removes, NoneYet
  <2>6. CASE UNCHANGED <<pc, call, refs, todo, boot, files, plugins>>
    BY <1>7, <2>6 DEF NoneYet, services, TypeOK
  <2> QED
    BY <1>3, <2>1, <2>2, <2>3, <2>4, <2>5, <2>6 DEF LimitKind
<1> QED
  BY <1>2, <1>4, <1>5, <1>8, <1>9

LEMMA LimitInductive ==
    /\ Init => TypeOK /\ RoInv /\ LimitInv
    /\ TypeOK /\ RoInv /\ LimitInv /\ [Next]_vars => (TypeOK /\ RoInv /\ LimitInv)'
BY InitType, RoInit, LimitInitially, TypeStep, RoStep, LimitStep

(* The flush is the only step that adds an account to a service, and adds  *)
(* one.                                                                    *)
LEMMA FlushAddsOne ==
    ASSUME TypeOK, RoInv, LimitInv, [Next]_vars, pc = "flush", pc' = "status", NEW s \in Service
    PROVE  /\ Having(s)' \subseteq Having(s) \cup {<<call.dir, call.id>>}
           /\ instances(s)' \in Nat /\ instances(s)' <= instances(s) + 1
           /\ Having(s) = {} => instances(s)' <= 1
<1>1. UNCHANGED plugins
  BY LimitKinds DEF LimitInv, LimitKind, Creates, Edits, Continues, Removes, Returns, Waits
<1>2. Having(s)' \subseteq Having(s) \cup {<<call.dir, call.id>>}
  BY <1>1, StepKinds, HavingStep
<1>3. IsFiniteSet(Having(s)) /\ instances(s) = Cardinality(Having(s)) /\ instances(s) \in Nat
  BY HavingFinite DEF LimitInv
<1>4. instances(s)' = Cardinality(Having(s)')
  BY DEF instances, Having
<1> DEFINE T == Having(s) \cup {<<call.dir, call.id>>}
<1>5. IsFiniteSet(T) /\ Cardinality(T) <= Cardinality(Having(s)) + 1 /\ Cardinality(T) \in Nat
  <2>1. /\ IsFiniteSet(T)
        /\ Cardinality(T) = IF <<call.dir, call.id>> \in Having(s) THEN Cardinality(Having(s))
                                                                 ELSE Cardinality(Having(s)) + 1
    BY <1>3, FS_AddElement
  <2> QED
    BY <1>3, <2>1
<1>6. /\ IsFiniteSet(Having(s)') /\ Cardinality(Having(s)') <= Cardinality(T)
      /\ Cardinality(Having(s)') \in Nat
  BY <1>2, <1>5, FS_Subset, FS_CardinalityType
<1>7. Having(s) = {} => Cardinality(Having(s)) = 0
  BY FS_EmptySet
<1> QED
  BY <1>2, <1>3, <1>4, <1>5, <1>6, <1>7

(* For any limits, directories and faults: the file of an account that is  *)
(* created is written while there is still room for it, however long ago   *)
(* the limits were looked up (verifyAccountCreationLimits).                *)
THEOREM CreationsWithinLimit == Spec => CreationWithinLimit
<1>1. ASSUME TypeOK, RoInv, LimitInv, [Next]_vars, Commits("add") \/ Commits("autoinit"),
             NEW s \in services(refs), MaxCount[s] >= 0
      PROVE  instances(s)' <= MaxCount[s]
  <2>1. pc = "flush" /\ pc' = "status" /\ call.op \in {"add", "autoinit"}
    BY <1>1 DEF Commits
  <2>2. s \in Service /\ MaxCount[s] \in Int
    BY PluginAssumption DEF services
  <2>3. instances(s) < MaxCount[s] /\ instances(s) \in Nat
    BY <1>1, <2>1, HavingFinite DEF LimitInv, RoomLeft, BeforeFile
  <2>4. instances(s)' \in Nat /\ instances(s)' <= instances(s) + 1
    BY <1>1, <2>1, <2>2, FlushAddsOne
  <2> QED
    BY <2>2, <2>3, <2>4
<1>2. TypeOK /\ RoInv /\ LimitInv /\ [Next]_vars =>
        [Commits("add") \/ Commits("autoinit") =>
            \A s \in services(refs) : MaxCount[s] >= 0 => instances(s)' <= MaxCount[s]]_vars
  BY <1>1
<1> QED
  BY <1>2, LimitInductive, PTL DEF Spec, CreationWithinLimit

(* For any plugins that want an account at start-up, and under any faults: *)
(* an account made at start-up is the only one of its plugin, whatever an  *)
(* earlier start-up left behind when it was cut off (the list that         *)
(* createAutoInitializingAccounts takes before it creates any).            *)
THEOREM AutoInitsOnce == Spec => AutoInitOnce
<1>1. ASSUME TypeOK, RoInv, LimitInv, [Next]_vars, Commits("autoinit"), NEW s \in services(refs)
      PROVE  instances(s)' <= 1
  <2>1. pc = "flush" /\ pc' = "status" /\ s \in Service
    BY <1>1 DEF Commits, services
  <2>2. Having(s) = {}
    BY <1>1, <2>1 DEF Commits, LimitInv, NoneYet, BeforeFile
  <2> QED
    BY <1>1, <2>1, <2>2, FlushAddsOne
<1>2. TypeOK /\ RoInv /\ LimitInv /\ [Next]_vars =>
        [Commits("autoinit") => \A s \in services(refs) : instances(s)' <= 1]_vars
  BY <1>1
<1> QED
  BY <1>2, LimitInductive, PTL DEF Spec, AutoInitOnce
-----------------------------------------------------------------------------
(* The steps of a handler, by how they bring it closer to its end. *)

Concludes ==
    /\ pc' \in {"idle", "down", "boot"} /\ call'.op = "none" /\ boot' = boot
    /\ pc' = "boot" => call.op = "autoinit"
    /\ call.op = "autoinit" => pc' # "idle"

Advances == stage' < stage /\ UNCHANGED <<call, boot>> /\ pc' \notin {"scan", "boot"}

Repeats ==
    /\ stage' = stage /\ UNCHANGED <<call, boot>> /\ pc' \notin {"scan", "boot"}
    /\ \/ \E s \in todo : todo' = todo \ {s}
       \/ todo' = todo /\ ofService' < ofService

(* Each step of a request goes on to a later stage, or leaves it a service *)
(* or a part of one fewer, or ends it.                                     *)
LEMMA HandlerSteps ==
    ASSUME pc \notin {"idle", "down", "scan", "boot"}, Local \/ SecretCall
    PROVE  Concludes \/ Advances \/ Repeats
<1> USE DEF Goto, Finish, Throw, Terminate, NoCall, NextService, IsFirst
<1>1. CASE VerifyService
  BY <1>1 DEF VerifyService, Repeats, stage, ofService
<1>2. CASE VerifyThrows
  BY <1>2 DEF VerifyThrows, Concludes
<1>3. CASE SaveSecret
  BY <1>3 DEF SaveSecret, afterSave, Repeats, stage, ofService
<1>4. CASE WritePlugin
  BY <1>4 DEF WritePlugin, Repeats, stage
<1>5. CASE BeginDrop
  BY <1>5 DEF BeginDrop, Advances, stage
<1>6. CASE DropSecret
  BY <1>6 DEF DropSecret, Repeats, stage
<1>7. CASE VerificationFailed
  BY <1>7 DEF VerificationFailed, Concludes
<1>8. CASE OpenFile
  <2>1. pc = "verify" /\ boot' = boot /\ (Finish("error") \/ Goto("flush") \/ Goto("status"))
    BY <1>8 DEF OpenFile
  <2> QED
    BY <2>1 DEF Advances, Concludes, stage
<1>9. CASE FlushFile
  BY <1>9 DEF FlushFile, Advances, stage
<1>10. CASE ResetStatus
  BY <1>10 DEF ResetStatus, Advances, Concludes, stage
<1>11. CASE CleanupOld
  BY <1>11 DEF CleanupOld, Repeats, stage
<1>12. CASE CleanupDone
  BY <1>12 DEF CleanupDone, Advances, stage
<1>13. CASE EmitWritten
  BY <1>13 DEF EmitWritten, Concludes
<1>14. CASE RemovePluginData
  BY <1>14 DEF RemovePluginData, Repeats, Concludes, stage
<1>15. CASE RemoveSecrets
  BY <1>15 DEF RemoveSecrets, Advances, stage
<1>16. CASE UnlinkFile
  BY <1>16 DEF UnlinkFile, Advances, Concludes, stage
<1>17. CASE EraseStatus
  BY <1>17 DEF EraseStatus, Concludes
<1>18. ~Scan /\ ~AutoInitialize /\ ~Serve
  BY DEF Scan, AutoInitialize, Serve
<1> QED
  BY <1>1, <1>2, <1>3, <1>4, <1>5, <1>6, <1>7, <1>8, <1>9, <1>10, <1>11, <1>12, <1>13,
     <1>14, <1>15, <1>16, <1>17, <1>18 DEF Local, SecretCall

LEMMA ProgressStep ==
    ASSUME TypeOK, BetweenCalls, Next, pc \notin {"idle", "down"}
    PROVE  Closer
<1>1. CASE pc \notin {"scan", "boot"} /\ (Local \/ SecretCall)
  <2>1. CASE Concludes
    <3>1. stage' = 0 /\ stage \in 1..6
      BY <1>1, <2>1 DEF Concludes, stage, TypeOK, Step
    <3>2. \/ phase' < phase
          \/ phase' = phase /\ boot' = boot
      BY <1>1, <2>1 DEF Concludes, phase
    <3> QED
      BY <3>1, <3>2 DEF Closer
  <2>2. CASE Advances
    BY <1>1, <2>2 DEF Advances, Closer, phase
  <2>3. CASE Repeats
    BY <1>1, <2>3 DEF Repeats, Closer, Fewer, phase
  <2> QED
    BY <1>1, <2>1, <2>2, <2>3, HandlerSteps
<1>2. CASE Exit
  <2>1. pc' = "down" /\ call'.op = "none" /\ boot' = {}
    BY <1>2 DEF Exit, Terminate, NoCall
  <2>2. phase' = 0 /\ stage' = 0 /\ phase \in 0..2
    BY <2>1 DEF phase, stage
  <2>3. phase = 0 => stage \in 1..6
    BY DEF phase, stage, TypeOK, Step
  <2> QED
    BY <2>1, <2>2, <2>3 DEF Closer, Fewer
<1>3. CASE Scan
  BY <1>3 DEF Scan, BetweenCalls, Closer, phase
<1>4. CASE AutoInitialize
  <2>1. PICK s \in boot : boot' = boot \ {s}
    BY <1>4 DEF AutoInitialize, IsFirst
  <2>2. phase = 1 /\ phase' = 1
    <3>1. pc = "boot" /\ (pc' = "boot" \/ \E S : createAccount("autoinit", S, TRUE))
      BY <1>4 DEF AutoInitialize, ctlVars
    <3>2. ASSUME NEW S, createAccount("autoinit", S, TRUE)
          PROVE  call'.op = "autoinit" /\ pc' = "verify"
      BY <3>2 DEF createAccount, BeginWrite
    <3> QED
      BY <3>1, <3>2 DEF phase
  <2> QED
    BY <2>1, <2>2 DEF Closer, Fewer
<1>5. CASE Serve
  BY <1>5 DEF Serve, BetweenCalls, Closer, phase
<1>6. CASE pc \in {"scan", "boot"} /\ (Local \/ SecretCall)
  BY <1>3, <1>4, <1>5, <1>6
     DEF Local, SecretCall, VerifyService, VerifyThrows, WritePlugin, BeginDrop,
         VerificationFailed, OpenFile, FlushFile, ResetStatus, CleanupDone, EmitWritten,
         RemovePluginData, UnlinkFile, EraseStatus, SaveSecret, DropSecret, CleanupOld,
         RemoveSecrets
<1>7. ~Start /\ ~Request
  BY DEF Start, Request, Add, Edit, Remove, SetStatus
<1> QED
  BY <1>1, <1>2, <1>6, <1>7 DEF Next

(* Under all faults and for any services, every step of a handler, and of  *)
(* the start-up, lowers a measure that cannot fall for ever as there are   *)
(* finitely many services: none of the loops of AccountObject, nor that of *)
(* createAutoInitializingAccounts, visits a service twice.                 *)
THEOREM HandlersProgress == Spec => HandlerProgress
<1>1. TypeOK /\ RoInv /\ LimitInv /\ [Next]_vars => [pc \notin {"idle", "down"} => Closer]_vars
  BY ProgressStep DEF LimitInv
<1> QED
  BY <1>1, LimitInductive, PTL DEF Spec, HandlerProgress
=============================================================================
