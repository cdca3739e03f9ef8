--------------------------- MODULE AccountService ---------------------------
(***************************************************************************)
(* The parameters of one service of an account, from the request that adds *)
(* or edits the account to the account file, the secret service and the    *)
(* plugin.  AccountManager treats them as a token and a reference; here    *)
(* are their values, and the rules for those that a client leaves out.     *)
(*                                                                         *)
(* A service is a map from keys to strings: a key that is not in the map   *)
(* is Missing, the empty string is Blank, all others are a Value.  Role    *)
(* says how the plugin's tokens keep a protected key: as a secret of its   *)
(* own ("password"), as a half of a dual_password secret ("user",          *)
(* "service"), in an oauth2 secret, or not at all (a token without schema).*)
(***************************************************************************)
EXTENDS Naturals

CONSTANTS Plain, Protected, Value, Blank, Missing,
          Role,       \* [Protected -> Roles]
          Preset,     \* what the provider's file gives for this service
          NoFile,     \* the account has no file yet
          PLUGIN_ID,  \* the map holds nothing but the id of the plugin's own data
          ServiceFaults

Param == Plain \cup Protected
Content == [Param -> Value \cup {Blank, Missing}]
Secret == [Protected -> Value \cup {Blank, Missing}]
Roles == {"password", "user", "service", "oauth2", "unsaved"}

ASSUME ServiceAssumption ==
    /\ Plain \cap Protected = {}
    /\ Blank # Missing /\ Blank \notin Value /\ Missing \notin Value
    /\ NoFile \notin Content /\ PLUGIN_ID \notin Content /\ PLUGIN_ID # NoFile
    /\ Role \in [Protected -> Roles]
    /\ Preset \in [Param -> Value \cup {Missing}]
    /\ \A j, k \in Protected : Role[j] = Role[k] /\ Role[j] \in {"user", "service"} => j = k
    /\ ServiceFaults \subseteq {"crash", "search", "lost", "plugin"}

VARIABLES pc,             \* the next step of the request
          svc,            \* the service in memory
          protectedDict,  \* the keys that isProtected answers true for
          vResult,        \* the parameters that verify made of it
          pending,        \* secretDict: the secrets still to be sent
          stored,         \* what the secret service holds under the account's id
          file,           \* the service in the account file
          request, reply, \* history: what was asked, on which secrets; the answer
          heard           \* history: the search for the secrets was answered

svcVars == <<pc, svc, protectedDict, vResult, pending, stored, file, request, reply, heard>>

NoSecrets == [k \in Protected |-> Missing]
NoParams == [k \in Param |-> Missing]

ServiceTypeOK ==
    /\ pc \in {"idle", "verify", "authenticate", "save", "file", "drop"}
    /\ svc \in Content \cup {PLUGIN_ID}
    /\ protectedDict \subseteq Protected
    /\ vResult \in Content
    /\ pending \subseteq SUBSET Protected
    /\ stored \in Secret
    /\ file \in Content \cup {NoFile, PLUGIN_ID}
    /\ request \in [params : Content, before : Secret]
    /\ reply \in {"none", "ok", "error"} /\ heard \in BOOLEAN

ServiceInit ==
    /\ pc = "idle" /\ reply = "none" /\ heard = TRUE
    /\ svc = NoParams /\ vResult = NoParams
    /\ protectedDict = {} /\ pending = {}
    /\ stored = NoSecrets /\ file = NoFile
    /\ request = [params |-> NoParams, before |-> NoSecrets]
-----------------------------------------------------------------------------
(* A preset is used where the client did not send the key, be it blank.    *)
appendProviderParams(ps) == [k \in Param |-> IF ps[k] = Missing THEN Preset[k] ELSE ps[k]]

(* A client adds or edits the account.  A new account has a new id, under  *)
(* which nothing is stored.                                                *)
Request(ps, provider) ==
    /\ pc = "idle"
    /\ svc' = IF provider THEN appendProviderParams(ps) ELSE ps
    /\ stored' = IF file = NoFile THEN NoSecrets ELSE stored
    /\ request' = [params |-> svc', before |-> stored']
    /\ protectedDict' = {}
    /\ pc' = "verify" /\ reply' = "none" /\ heard' = TRUE
    /\ UNCHANGED <<vResult, pending, file>>

(* The plugin turns the parameters down.                                   *)
VerifyRefused ==
    /\ pc = "verify"
    /\ pc' = "drop"
    /\ UNCHANGED <<svc, protectedDict, vResult, pending, stored, file, request, reply, heard>>

(* The plugin returns what it was given and, blank, the protected          *)
(* parameters it was not given.                                            *)
pluginVerify(ps) == [k \in Param |-> IF k \in Protected /\ ps[k] = Missing THEN Blank ELSE ps[k]]

saved(k) == Role[k] # "unsaved"
dual(k) == Role[k] \in {"user", "service"}

(* The keys whose tokens go into the same secret as that of k: secretDict  *)
(* has an entry per password label, one for dual_password, one for oauth2. *)
Item(k) ==
    {j \in Protected : \/ j = k
                       \/ dual(j) /\ dual(k)
                       \/ Role[j] = "oauth2" /\ Role[k] = "oauth2"}

isPassword(item) == \A k \in item : Role[k] = "password"
isDualPassword(item) == \A k \in item : dual(k)

(* The secrets of the service that loading looks into, oauth2 left aside.  *)
savedSecrets ==
    {item \in {Item(k) : k \in {j \in Protected : saved(j)}} :
        /\ isPassword(item) \/ isDualPassword(item)
        /\ \E k \in item : stored[k] # Missing}

(* getMatchingPassword looks for the user password's key under an          *)
(* attribute no secret has ("user_pasword_key") and compares the map's end,*)
(* which in libstdc++ is a string of another length.                       *)
isUserPassword(k) == FALSE
isServicePassword(k) == Role[k] = "service"

MutantWrongHalf(item, k) == stored[CHOOSE j \in item : Role[j] # "user"]

passwordIn(item, k) ==
    IF isPassword(item) THEN stored[CHOOSE j \in item : TRUE]
    ELSE IF (isUserPassword(k) \/ isServicePassword(k)) /\ stored[k] # Missing THEN stored[k]
    ELSE Blank

(* Every secret of the service overwrites every blank protected parameter: *)
(* the last one the search lists decides.                                  *)
empty(ps, k) == k \in Protected /\ ps[k] = Blank
loadFrom(ps, last) == [k \in Param |-> IF empty(ps, k) THEN passwordIn(last, k) ELSE ps[k]]

MutantFlagsOfRequest(ps) ==
    /\ vResult' = ps
    /\ svc' = ps
    /\ protectedDict' = {k \in Protected : svc[k] # Missing}

applyVerification(ps) ==
    /\ vResult' = ps
    /\ svc' = ps
    /\ protectedDict' = {k \in Protected : ps[k] # Missing}

VerifyParams ==
    /\ pc = "verify"
    /\ \/ savedSecrets = {} /\ applyVerification(pluginVerify(svc)) /\ heard' = TRUE
       \/ \E last \in savedSecrets :
             applyVerification(loadFrom(pluginVerify(svc), last)) /\ heard' = TRUE
       \/ "search" \in ServiceFaults /\ applyVerification(pluginVerify(svc)) /\ heard' = FALSE
    /\ pc' = "authenticate"
    /\ UNCHANGED <<pending, stored, file, request, reply>>

AuthenticationFailed ==
    /\ pc = "authenticate"
    /\ pc' = "drop"
    /\ UNCHANGED <<svc, protectedDict, vResult, pending, stored, file, request, reply, heard>>

(* The plugin accepts what it is given, blank or not, and returns a token  *)
(* with the value of each protected parameter.                             *)
Authenticate ==
    /\ pc = "authenticate"
    /\ pending' = {Item(k) : k \in {j \in Protected : saved(j)}}
    /\ pc' = "save"
    /\ UNCHANGED <<svc, protectedDict, vResult, stored, file, request, reply, heard>>

(* An exception that the plugin's container does not catch ends the        *)
(* request, and leaves all that is stored.                                 *)
PluginThrows ==
    /\ "plugin" \in ServiceFaults
    /\ pc \in {"verify", "authenticate"}
    /\ pc' = "idle" /\ reply' = "error"
    /\ UNCHANGED <<svc, protectedDict, vResult, pending, stored, file, request, heard>>

storeItem(item) == stored' = [k \in Protected |-> IF k \in item THEN vResult[k] ELSE stored[k]]

SaveSecret ==
    /\ pc = "save"
    /\ \E item \in pending :
          /\ storeItem(item)
          /\ pending' = pending \ {item}
    /\ UNCHANGED <<pc, svc, protectedDict, vResult, file, request, reply, heard>>

(* The secret service refuses, or its answer is lost.                      *)
SaveFails ==
    /\ pc = "save" /\ pending # {}
    /\ \/ stored' = stored
       \/ "lost" \in ServiceFaults /\ \E item \in pending : storeItem(item)
    /\ pending' = {}
    /\ pc' = "drop"
    /\ UNCHANGED <<svc, protectedDict, vResult, file, request, reply, heard>>

(* A plugin that keeps the parameters itself leaves the service with their *)
(* id; write is missing, or throws, in the others, which changes nothing.  *)
WritePlugin ==
    /\ pc = "save" /\ pending = {}
    /\ \/ svc' = PLUGIN_ID /\ protectedDict' = {}
       \/ UNCHANGED <<svc, protectedDict>>
    /\ pc' = "file"
    /\ UNCHANGED <<vResult, pending, stored, file, request, reply, heard>>

(* Another service of the account fails to verify.                         *)
SiblingFails ==
    /\ pc = "file"
    /\ pc' = "drop"
    /\ UNCHANGED <<svc, protectedDict, vResult, pending, stored, file, request, reply, heard>>

isProtected(k) == k \in protectedDict

WriteFile ==
    /\ pc = "file"
    /\ file' = IF svc = PLUGIN_ID THEN PLUGIN_ID
               ELSE [k \in Param |-> IF isProtected(k) THEN Missing ELSE svc[k]]
    /\ pc' = "idle" /\ reply' = "ok"
    /\ UNCHANGED <<svc, protectedDict, vResult, pending, stored, request, heard>>

(* The secrets of an account that does not verify are removed, new and old.*)
DropSecrets ==
    /\ pc = "drop"
    /\ stored' \in {stored, NoSecrets}
    /\ pc' = "idle" /\ reply' = "error"
    /\ UNCHANGED <<svc, protectedDict, vResult, pending, file, request, heard>>

(* The process ends; the next request finds the files and the secrets.     *)
Crash ==
    /\ "crash" \in ServiceFaults
    /\ pc # "idle"
    /\ pc' = "idle" /\ reply' = "none"
    /\ svc' = NoParams /\ vResult' = NoParams
    /\ protectedDict' = {} /\ pending' = {}
    /\ UNCHANGED <<stored, file, request, heard>>

ServiceNext ==
    \/ \E ps \in Content, provider \in BOOLEAN : Request(ps, provider)
    \/ VerifyRefused \/ VerifyParams
    \/ AuthenticationFailed \/ Authenticate \/ PluginThrows
    \/ SaveSecret \/ SaveFails
    \/ WritePlugin \/ SiblingFails \/ WriteFile
    \/ DropSecrets \/ Crash

ServiceSpec == ServiceInit /\ [][ServiceNext]_svcVars
-----------------------------------------------------------------------------
(* No value of a protected parameter is ever in an account file, whether a *)
(* client sent it, a provider preset it or the secret service returned it  *)
(* (AccountParser::write asks isProtected).                                *)
NoProtectedInFile ==
    file \notin {NoFile, PLUGIN_ID} => \A k \in Protected : file[k] = Missing

given(k) == request.params[k] \in Value

(* Loading finds the secrets of these keys: not the user's half of a       *)
(* dual_password, nor anything in an oauth2 secret.                        *)
readable(k) == Role[k] \in {"password", "service"}

(* After a request that answers ok, each secret is the one the client gave *)
(* or, where none was given, the one stored before the request: an edit    *)
(* never stores one password in the place of another, nor an old one in    *)
(* the place of a new one.  A password that was not given is lost, a blank *)
(* stored over it, only where loading cannot find it or the search of this *)
(* very request failed (_verifyParams, _saveProtectedParams).              *)
KeepsPasswords ==
    reply = "ok" =>
        \A k \in Protected : saved(k) =>
            \/ stored[k] = IF given(k) THEN request.params[k] ELSE request.before[k]
            \/ /\ ~given(k) /\ stored[k] = Blank
               /\ request.before[k] = Missing \/ ~readable(k) \/ ~heard

(* AccountService::verify says it will "attach required protected params", *)
(* and _verifyParams "load protected parameters needed for a service to be *)
(* authenticated": with a secret service that answers, a protected         *)
(* parameter that was not given is authenticated with what is stored.      *)
RestoresStored ==
    pc = "authenticate" =>
        \A k \in Protected :
            ~given(k) /\ request.before[k] \in Value => vResult[k] = request.before[k]
=============================================================================
