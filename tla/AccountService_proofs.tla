------------------------ MODULE AccountService_proofs -----------------------
(***************************************************************************)
(* For any parameters, values, roles, presets and faults: no protected     *)
(* value reaches an account file; and for a service whose tokens all go    *)
(* into one secret, edits keep the passwords they are not given, as far as *)
(* loading can find them.                                                  *)
(***************************************************************************)
EXTENDS AccountService, TLAPS

(* The keys of a password secret are one key, and what it holds is typed.  *)
LEMMA PasswordType ==
  ASSUME ServiceTypeOK, NEW item \in savedSecrets, NEW k \in Protected
  PROVE  passwordIn(item, k) \in Value \cup {Blank, Missing}
<1>1. PICK j \in Protected : saved(j) /\ item = Item(j)
  BY DEF savedSecrets
<1>2. j \in item /\ item \subseteq Protected
  BY <1>1 DEF Item
<1>3. (CHOOSE i \in item : TRUE) \in Protected
  BY <1>2
<1>4. QED
  BY <1>3 DEF passwordIn, ServiceTypeOK, Secret

LEMMA VerifiedType ==
  ASSUME ServiceTypeOK, ServiceAssumption, NEW ps \in Content
  PROVE  /\ pluginVerify(ps) \in Content
         /\ \A last \in savedSecrets : loadFrom(pluginVerify(ps), last) \in Content
<1>1. pluginVerify(ps) \in Content
  BY DEF pluginVerify, Content, ServiceAssumption
<1>2. ASSUME NEW last \in savedSecrets
      PROVE  loadFrom(pluginVerify(ps), last) \in Content
  BY <1>1, PasswordType DEF loadFrom, empty, Content
<1>3. QED
  BY <1>1, <1>2

(* What verify does to the service, whichever secrets it finds.            *)
LEMMA VerifyCases ==
  ASSUME ServiceTypeOK, ServiceAssumption, svc \in Content, VerifyParams
  PROVE  \E ps \in Content :
            /\ \/ ps = pluginVerify(svc)
               \/ \E last \in savedSecrets : ps = loadFrom(pluginVerify(svc), last)
            /\ vResult' = ps /\ svc' = ps
            /\ protectedDict' = {k \in Protected : ps[k] # Missing}
BY VerifiedType DEF VerifyParams, applyVerification

(* The parameters are a map when they are verified; the types of all variables. *)
ServiceTypeInv == ServiceTypeOK /\ (pc = "verify" => svc \in Content)

LEMMA StoredType ==
  ASSUME ServiceTypeOK, NEW item, storeItem(item)
  PROVE  stored' \in Secret
BY DEF ServiceTypeOK, storeItem, Secret, Content, Param

LEMMA PresetType ==
  ASSUME ServiceAssumption, NEW ps \in Content
  PROVE  appendProviderParams(ps) \in Content
BY DEF ServiceAssumption, appendProviderParams, Content

LEMMA ServiceInitType == ASSUME ServiceAssumption, ServiceInit PROVE ServiceTypeInv
BY DEF ServiceInit, ServiceTypeInv, ServiceTypeOK, NoParams, NoSecrets, Content, Secret

LEMMA ServiceTypeStep ==
  ASSUME ServiceAssumption, ServiceTypeInv, [ServiceNext]_svcVars
  PROVE  ServiceTypeInv'
<1> USE DEF ServiceTypeInv
<1>1. CASE \E ps \in Content, provider \in BOOLEAN : Request(ps, provider)
  <2>1. PICK ps \in Content, provider \in BOOLEAN : Request(ps, provider)
    BY <1>1
  <2>2. svc' \in Content /\ stored' \in Secret
    BY <2>1, PresetType DEF Request, ServiceTypeOK, NoSecrets, Secret
  <2>3. QED
    BY <2>1, <2>2 DEF Request, ServiceTypeOK
<1>2. CASE VerifyRefused
  BY <1>2 DEF VerifyRefused, ServiceTypeOK
<1>3. CASE VerifyParams
  BY <1>3, VerifyCases DEF VerifyParams, ServiceTypeOK
<1>4. CASE AuthenticationFailed
  BY <1>4 DEF AuthenticationFailed, ServiceTypeOK
<1>5. CASE Authenticate
  <2>1. \A k \in Protected : Item(k) \in SUBSET Protected
    BY DEF Item
  <2>2. QED
    BY <1>5, <2>1 DEF Authenticate, ServiceTypeOK
<1>6. CASE SaveSecret
  <2>1. stored' \in Secret
    BY <1>6, StoredType DEF SaveSecret
  <2>2. QED
    BY <1>6, <2>1 DEF SaveSecret, ServiceTypeOK
<1>7. CASE SaveFails
  <2>1. stored' \in Secret
    BY <1>7, StoredType DEF SaveFails, ServiceTypeOK
  <2>2. QED
    BY <1>7, <2>1 DEF SaveFails, ServiceTypeOK
<1>8. CASE WritePlugin
  BY <1>8 DEF WritePlugin, ServiceTypeOK
<1>9. CASE SiblingFails
  BY <1>9 DEF SiblingFails, ServiceTypeOK
<1>10. CASE WriteFile
  <2>1. file' \in Content \cup {NoFile, PLUGIN_ID}
    BY <1>10 DEF WriteFile, ServiceTypeOK, Content
  <2>2. QED
    BY <1>10, <2>1 DEF WriteFile, ServiceTypeOK
<1>11. CASE DropSecrets
  BY <1>11 DEF DropSecrets, ServiceTypeOK, NoSecrets, Secret
<1>12. CASE Crash
  BY <1>12 DEF Crash, ServiceTypeOK, NoParams, Content
<1>13. CASE PluginThrows
  BY <1>13 DEF PluginThrows, ServiceTypeOK
<1>14. CASE UNCHANGED svcVars
  BY <1>14 DEF svcVars, ServiceTypeOK
<1>15. QED
  BY <1>1, <1>2, <1>3, <1>4, <1>5, <1>6, <1>7, <1>8, <1>9, <1>10, <1>11, <1>12, <1>13, <1>14
     DEF ServiceNext

(* Every variable of the service has its type at all times. *)
THEOREM ServiceTypeCorrect == ServiceSpec => []ServiceTypeOK
<1>1. ServiceInit => ServiceTypeInv
  BY ServiceInitType, ServiceAssumption
<1>2. ServiceTypeInv /\ [ServiceNext]_svcVars => ServiceTypeInv'
  BY ServiceTypeStep, ServiceAssumption
<1>3. ServiceTypeInv => ServiceTypeOK
  BY DEF ServiceTypeInv
<1>4. QED
  BY <1>1, <1>2, <1>3, PTL DEF ServiceSpec
-----------------------------------------------------------------------------
(* From verification to the file, each protected parameter in memory is    *)
(* known to be protected, unless the map was replaced by the plugin's id.  *)
FlagsKept ==
    pc \in {"authenticate", "save", "file"} =>
        svc = PLUGIN_ID \/ \A k \in Protected : svc[k] # Missing => isProtected(k)

FlagsInv == ServiceTypeInv /\ FlagsKept /\ NoProtectedInFile

LEMMA FlagsStep ==
  ASSUME ServiceAssumption, FlagsInv, [ServiceNext]_svcVars
  PROVE  FlagsKept' /\ NoProtectedInFile'
<1> USE DEF FlagsInv, FlagsKept, NoProtectedInFile, isProtected
<1>1. CASE \E ps \in Content, provider \in BOOLEAN : Request(ps, provider)
  BY <1>1 DEF Request
<1>2. CASE VerifyRefused
  BY <1>2 DEF VerifyRefused
<1>3. CASE VerifyParams
  BY <1>3, VerifyCases DEF VerifyParams, ServiceTypeInv
<1>4. CASE AuthenticationFailed
  BY <1>4 DEF AuthenticationFailed
<1>5. CASE Authenticate
  BY <1>5 DEF Authenticate
<1>6. CASE SaveSecret
  BY <1>6 DEF SaveSecret
<1>7. CASE SaveFails
  BY <1>7 DEF SaveFails
<1>8. CASE WritePlugin
  BY <1>8 DEF WritePlugin
<1>9. CASE SiblingFails
  BY <1>9 DEF SiblingFails
<1>10. CASE WriteFile
  BY <1>10 DEF WriteFile, Param, ServiceTypeInv, ServiceTypeOK
<1>11. CASE DropSecrets
  BY <1>11 DEF DropSecrets
<1>12. CASE Crash
  BY <1>12 DEF Crash
<1>13. CASE PluginThrows
  BY <1>13 DEF PluginThrows
<1>14. CASE UNCHANGED svcVars
  BY <1>14 DEF svcVars
<1>15. QED
  BY <1>1, <1>2, <1>3, <1>4, <1>5, <1>6, <1>7, <1>8, <1>9, <1>10, <1>11, <1>12, <1>13, <1>14
     DEF ServiceNext

(* No value of a protected parameter is ever in the account file. *)
THEOREM FileHidesProtected == ServiceSpec => []NoProtectedInFile
<1>1. ServiceInit => FlagsInv
  BY ServiceInitType, ServiceAssumption DEF ServiceInit, FlagsInv, FlagsKept, NoProtectedInFile
<1>2. FlagsInv /\ [ServiceNext]_svcVars => FlagsInv'
  BY ServiceTypeStep, FlagsStep, ServiceAssumption DEF FlagsInv
<1>3. FlagsInv => NoProtectedInFile
  BY DEF FlagsInv
<1>4. QED
  BY <1>1, <1>2, <1>3, PTL DEF ServiceSpec
-----------------------------------------------------------------------------
(* All secrets of the service are one: a single password, or both halves   *)
(* of one dual_password, or one oauth2 secret.                             *)
OneItem == \A j, k \in Protected : saved(j) /\ saved(k) => Item(j) = Item(k)

(* The secret a request should leave behind, and where it may be a blank.  *)
wanted(k) == IF given(k) THEN request.params[k] ELSE request.before[k]
Excused(k) == ~given(k) /\ (request.before[k] = Missing \/ ~readable(k) \/ ~heard)

(* What is saved for a key once the request is through with it.            *)
Right(v, k) == v = wanted(k) \/ (v = Blank /\ Excused(k))

(* How far the passwords are at each point of a request.                   *)
KeepsInv ==
    /\ pc # "idle" => reply = "none"
    /\ pc = "verify" => svc = request.params
    /\ pc = "verify" => stored = request.before
    /\ pc \in {"authenticate", "save"} => \A k \in Protected : saved(k) => Right(vResult[k], k)
    /\ pc = "save" =>
          \A k \in Protected : saved(k) => Item(k) \in pending \/ Right(stored[k], k)
    /\ pc = "save" => pending \subseteq {Item(k) : k \in {j \in Protected : saved(j)}}
    /\ pc = "file" => \A k \in Protected : saved(k) => Right(stored[k], k)

(* What is loaded for a blank parameter of the one secret is what that     *)
(* secret holds for it, or blank, if it holds nothing or cannot be read.   *)
LEMMA LoadedIsStored ==
  ASSUME ServiceAssumption, OneItem, NEW last \in savedSecrets, NEW k \in Protected, saved(k)
  PROVE  \/ passwordIn(last, k) = stored[k]
         \/ passwordIn(last, k) = Blank /\ (stored[k] = Missing \/ ~readable(k))
<1>1. last = Item(k) /\ k \in last
  BY DEF savedSecrets, OneItem, Item
<1>2. CASE isPassword(last)
  <2>1. last = {k}
    BY <1>1, <1>2 DEF isPassword, Item, dual
  <2>2. (CHOOSE j \in last : TRUE) = k
    BY <2>1
  <2>3. QED
    BY <1>2, <2>2 DEF passwordIn
<1>3. CASE ~isPassword(last)
  <2>1. Role[k] # "password"
    BY <1>1, <1>3 DEF isPassword, Item, dual
  <2>2. QED
    BY <1>3, <2>1 DEF passwordIn, isServicePassword, readable
<1>4. QED
  BY <1>2, <1>3

(* Where the search lists nothing, nothing that loading could read is      *)
(* stored.                                                                 *)
LEMMA NothingStored ==
  ASSUME savedSecrets = {}, NEW k \in Protected, saved(k), readable(k)
  PROVE  stored[k] = Missing
<1>1. k \in Item(k)
  BY DEF Item
<1>2. isPassword(Item(k)) \/ isDualPassword(Item(k))
  BY DEF readable, isPassword, isDualPassword, Item, dual
<1>3. QED
  BY <1>1, <1>2 DEF savedSecrets

(* Storing an item settles its keys and leaves the others alone. *)
LEMMA ItemStored ==
  ASSUME NEW i \in Protected, storeItem(Item(i)), NEW k \in Protected
  PROVE  stored'[k] = IF Item(k) = Item(i) THEN vResult[k] ELSE stored[k]
<1>1. k \in Item(i) <=> Item(k) = Item(i)
  <2>1. k \in Item(k)
    BY DEF Item
  <2>2. ASSUME k \in Item(i) PROVE Item(k) = Item(i)
    BY <2>2 DEF Item, dual
  <2>3. QED
    BY <2>1, <2>2
<1>2. QED
  BY <1>1 DEF storeItem

LEMMA KeepsVerify ==
  ASSUME ServiceAssumption, OneItem, ServiceTypeInv, KeepsInv, VerifyParams
  PROVE  KeepsInv'
<1>1. pc = "verify" /\ pc' = "authenticate" /\ svc \in Content
  BY DEF VerifyParams, ServiceTypeInv
<1>2. UNCHANGED <<pending, stored, file, request, reply>>
  BY DEF VerifyParams
<1>3. stored = request.before /\ svc = request.params
  BY <1>1 DEF KeepsInv
<1>4. ASSUME NEW k \in Protected, saved(k)
      PROVE  Right(vResult[k], k)'
  <2>1. pluginVerify(svc)[k] = IF svc[k] = Missing THEN Blank ELSE svc[k]
    BY DEF pluginVerify, Param
  <2>2. svc[k] \in Value \cup {Blank, Missing}
    BY <1>1 DEF Content, Param
  <2>3. CASE given(k)
    <3>1. pluginVerify(svc)[k] = request.params[k] /\ ~empty(pluginVerify(svc), k)
      BY <1>3, <2>1, <2>3 DEF given, empty, ServiceAssumption
    <3>2. vResult'[k] = request.params[k]
      BY <3>1 DEF VerifyParams, applyVerification, loadFrom, Param
    <3>3. QED
      BY <1>2, <2>3, <3>2 DEF Right, wanted, given
  <2>4. CASE ~given(k)
    <3>1. pluginVerify(svc)[k] = Blank
      BY <1>3, <2>1, <2>2, <2>4 DEF given
    <3>2. CASE savedSecrets = {} /\ vResult' = pluginVerify(svc)
      BY <1>2, <1>3, <1>4, <2>4, <3>1, <3>2, NothingStored
         DEF Right, Excused, wanted, given, readable
    <3>3. CASE \E last \in savedSecrets : vResult' = loadFrom(pluginVerify(svc), last)
      <4>1. PICK last \in savedSecrets : vResult' = loadFrom(pluginVerify(svc), last)
        BY <3>3
      <4>2. vResult'[k] = passwordIn(last, k)
        BY <3>1, <4>1 DEF loadFrom, empty, Param
      <4>3. QED
        BY <1>2, <1>3, <1>4, <2>4, <4>2, LoadedIsStored
           DEF Right, Excused, wanted, given, readable
    <3>4. CASE vResult' = pluginVerify(svc) /\ ~heard'
      BY <1>2, <2>4, <3>1, <3>4 DEF Right, Excused, wanted, given
    <3>5. QED
      BY <3>2, <3>3, <3>4 DEF VerifyParams, applyVerification
  <2>5. QED
    BY <2>3, <2>4
<1>5. QED
  BY <1>1, <1>2, <1>4 DEF KeepsInv

LEMMA KeepsStep ==
  ASSUME ServiceAssumption, OneItem, ServiceTypeInv, KeepsInv, [ServiceNext]_svcVars
  PROVE  KeepsInv'
<1> USE DEF Right, Excused, wanted, given
<1>1. CASE \E ps \in Content, provider \in BOOLEAN : Request(ps, provider)
  BY <1>1 DEF Request, KeepsInv
<1>2. CASE VerifyRefused
  BY <1>2 DEF VerifyRefused, KeepsInv
<1>3. CASE VerifyParams
  BY <1>3, KeepsVerify
<1>4. CASE AuthenticationFailed
  BY <1>4 DEF AuthenticationFailed, KeepsInv
<1>5. CASE Authenticate
  BY <1>5 DEF Authenticate, KeepsInv
<1>6. CASE SaveSecret
  <2>1. PICK item \in pending : storeItem(item) /\ pending' = pending \ {item}
    BY <1>6 DEF SaveSecret
  <2>2. PICK i \in Protected : item = Item(i)
    BY <1>6, <2>1 DEF SaveSecret, KeepsInv
  <2>3. \A k \in Protected : stored'[k] = IF Item(k) = item THEN vResult[k] ELSE stored[k]
    BY <2>1, <2>2, ItemStored
  <2>4. pc' = "save" /\ UNCHANGED <<vResult, request, reply, heard>>
    BY <1>6 DEF SaveSecret
  <2>5. ASSUME NEW k \in Protected, saved(k)
        PROVE  Item(k) \in pending' \/ Right(stored[k], k)'
    BY <1>6, <2>1, <2>3, <2>4, <2>5 DEF SaveSecret, KeepsInv
  <2>6. QED
    BY <1>6, <2>1, <2>4, <2>5 DEF SaveSecret, KeepsInv
<1>7. CASE SaveFails
  BY <1>7 DEF SaveFails, KeepsInv
<1>8. CASE WritePlugin
  BY <1>8 DEF WritePlugin, KeepsInv
<1>9. CASE SiblingFails
  BY <1>9 DEF SiblingFails, KeepsInv
<1>10. CASE WriteFile
  BY <1>10 DEF WriteFile, KeepsInv
<1>11. CASE DropSecrets
  BY <1>11 DEF DropSecrets, KeepsInv
<1>12. CASE Crash
  BY <1>12 DEF Crash, KeepsInv
<1>13. CASE PluginThrows
  BY <1>13 DEF PluginThrows, KeepsInv
<1>14. CASE UNCHANGED svcVars
  BY <1>14 DEF svcVars, KeepsInv
<1>15. QED
  BY <1>1, <1>2, <1>3, <1>4, <1>5, <1>6, <1>7, <1>8, <1>9, <1>10, <1>11, <1>12, <1>13, <1>14
     DEF ServiceNext

(* The passwords a request that answers ok leaves behind, from the step    *)
(* that answers to the next request.                                       *)
KeptInv == ServiceTypeInv /\ KeepsInv /\ KeepsPasswords

LEMMA KeptStep ==
  ASSUME KeptInv, [ServiceNext]_svcVars
  PROVE  KeepsPasswords'
<1> USE DEF KeptInv, KeepsPasswords, given
<1>1. CASE WriteFile
  BY <1>1 DEF WriteFile, KeepsInv, Right, Excused, wanted
<1>2. CASE reply' = "ok" /\ ~WriteFile
  <2>1. reply = "ok" /\ UNCHANGED <<stored, request, heard>>
    BY <1>2 DEF KeepsInv, ServiceNext, svcVars, Request, VerifyRefused, VerifyParams,
                AuthenticationFailed, Authenticate, SaveSecret, SaveFails, WritePlugin,
                SiblingFails, DropSecrets, PluginThrows, Crash
  <2>2. QED
    BY <2>1
<1>3. QED
  BY <1>1, <1>2

(* When all tokens of a service go into one secret, a request that answers *)
(* ok leaves every password as given or as it was, or blank where none was *)
(* given and none could be loaded: none was stored, loading has no way to  *)
(* it, or the search failed.                                               *)
THEOREM PasswordsKept == OneItem => (ServiceSpec => []KeepsPasswords)
<1>1. OneItem /\ ServiceInit => KeptInv
  BY ServiceInitType, ServiceAssumption
     DEF ServiceInit, KeptInv, KeepsInv, KeepsPasswords
<1>2. OneItem /\ KeptInv /\ [ServiceNext]_svcVars => KeptInv'
  BY ServiceTypeStep, KeepsStep, KeptStep, ServiceAssumption DEF KeptInv
<1>3. KeptInv => KeepsPasswords
  BY DEF KeptInv
<1>4. SUFFICES ASSUME OneItem PROVE ServiceSpec => []KeepsPasswords
  OBVIOUS
<1>5. ServiceInit => KeptInv
  BY <1>1, <1>4
<1>6. KeptInv /\ [ServiceNext]_svcVars => KeptInv'
  BY <1>2, <1>4
<1>7. QED
  BY <1>3, <1>5, <1>6, PTL DEF ServiceSpec
=============================================================================
