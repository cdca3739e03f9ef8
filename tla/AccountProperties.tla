------------------------- MODULE AccountProperties --------------------------
(***************************************************************************)
(* What AccountManager promises about the stores it keeps in step, and the *)
(* promises of the repository's documents and tests it does not keep.      *)
(***************************************************************************)
EXTENDS AccountManager

OnDisk(p, id) == files[p][id].kind = "account"
Existing == {id \in AccountId : \E p \in Parser : hasAccount(p, id)}
ReadonlyIds == {id \in AccountId : \E p \in Parser : isReadonly(p) /\ hasAccount(p, id)}
SecretsOf(ids) == {x \in secrets : x[1] \in ids}

(* The step that writes the account of the current request to its file.    *)
Commits(op) ==
    call.op = op /\ pc = "flush" /\ pc' = "status" /\ files'[call.dir][call.id].kind = "account"
-----------------------------------------------------------------------------
(* Whatever fails or crashes, an account file is only ever written when    *)
(* everything it relies on is stored: the token of each of its services,   *)
(* and the data behind each plugin id (AccountService::verify runs to its  *)
(* end for every service before AccountParser::write).                     *)
StoredBefore(id, r) ==
    /\ \A s \in services(r) \cap TokenServices : <<id, s>> \in secrets
    /\ \A s \in Service : r[s] \in PluginId => r[s] \in pdata

CommitIsBacked ==
    [][\A p \in Parser, id \in AccountId :
          (files'[p][id] # files[p][id] /\ files'[p][id].kind = "account") => StoredBefore(id, files'[p][id].refs)]_vars

(* No request, however it fails, changes the file or the secrets of an     *)
(* account that lies in a read-only directory (findParser's onlyWritables, *)
(* the guards of AccountParser::write and remove).                         *)
ReadonlyUntouched ==
    [][\A id \in ReadonlyIds :
          /\ \A p \in Parser : files'[p][id] = files[p][id]
          /\ SecretsOf({id})' = SecretsOf({id})]_vars

(* Creating an account never takes a service past max_count, counted when  *)
(* the file is written and not when the limit was looked up                *)
(* (verifyAccountCreationLimits).                                          *)
CreationWithinLimit ==
    [][Commits("add") \/ Commits("autoinit") =>
          \A s \in services(refs) : MaxCount[s] >= 0 => instances(s)' <= MaxCount[s]]_vars

(* Start-up never leaves a plugin with two accounts that are listed,       *)
(* across crashes in the middle of an earlier start-up and files that were *)
(* cut off (createAutoInitializingAccounts).                               *)
AutoInitOnce ==
    [][Commits("autoinit") => \A s \in services(refs) : instances(s)' <= 1]_vars

(* Only an account that exists, or is this moment being erased, has a      *)
(* status other than none (setStatus reads the account first, deletion     *)
(* erases the entry).                                                      *)
StatusOfExisting ==
    \A id \in AccountId :
        statDict[id] # NONE => id \in Existing \/ (pc = "erase" /\ call.id = id)

(* An account has one file: editing and deleting leave no second copy in   *)
(* another directory.                                                      *)
UniqueHome ==
    \A id \in AccountId, p, q \in Parser : hasAccount(p, id) /\ hasAccount(q, id) => p = q

(* Between requests, each account that list returns, for any filter on the *)
(* services, can be got by the id list gave it, and has a service that was *)
(* asked for: the two look through the directories in the same order       *)
(* (listAccounts, findParser, readAccount).  It is checked without torn    *)
(* files: a file that is empty is listed under the null id.                *)
ListedIsGettable ==
    pc = "idle" =>
        \A S \in SUBSET Service : \A id \in list(S) :
            \E found \in get(id) : S = {} \/ found \cap S # {}

(* Between requests, the secret service holds nothing for a service that   *)
(* no account has: failed creations, edits that drop a service and         *)
(* deletions clean up (AccountObject::verify, cleanup,                     *)
(* performAccountRemoval).                                                 *)
NoOrphanSecrets ==
    pc \in {"idle", "boot", "down"} =>
        \A x \in secrets : \E p \in Parser : OnDisk(p, x[1]) /\ x[2] \in services(files[p][x[1]].refs)

(* A removal that found its account always completes: every plugin still   *)
(* has the data the account file points to (performServiceCustomRemoval    *)
(* gives up at the first plugin that answers false).                       *)
RemovalCompletes == [][call.op = "remove" /\ pc' = "idle" => result' = "ok"]_vars

(* A request that answers ok has done what was asked: the account is in    *)
(* its file as it was verified, or in no directory at all.  The runs that  *)
(* admit no failing disk check it; with one, PXUTILS::FILE::write breaks   *)
(* its own "@return data write status" (AccountUtils.cpp).                 *)
OkMeansDone ==
    [][call.op # "none" /\ result' = "ok" =>
          IF call.op = "remove" THEN \A p \in Parser : files'[p][call.id] = NoFile
                                ELSE files'[call.dir][call.id] = AccountFile(refs)]_vars

(* Between requests a subscriber that listed the accounts once and then    *)
(* followed the events knows every account, and knows the status of each   *)
(* account that has one (EMIT_CREATE_ACCOUNT, EMIT_DELETE_ACCOUNT and      *)
(* EMIT_STATUS_CHANGE, each emitted after the change it announces).        *)
SubscriberInSync ==
    pc = "idle" =>
        /\ known = Existing
        /\ \A id \in Existing : statDict[id] # NONE => knownStatus[id] = statDict[id]

(* Whatever fails, every step of a handler and of start-up brings it       *)
(* closer to its end: no path leads back to a service, a plugin or a store *)
(* it was done with.  Start-up scans and then visits its plugins, and for  *)
(* each of them, as for a request, the stages follow one another, each a   *)
(* loop over the services or a single step.  With finitely many services   *)
(* there are finitely many such steps, which is what HandlerEnds needs     *)
(* besides fairness (the loops of createAutoInitializingAccounts,          *)
(* AccountObject::verify, cleanup and performAccountRemoval).              *)
phase == IF pc = "scan" THEN 2 ELSE IF pc = "boot" \/ call.op = "autoinit" THEN 1 ELSE 0

stage ==
    CASE pc \in {"verify", "save", "write"} -> 6
      [] pc \in {"drop", "premove"}         -> 5
      [] pc \in {"flush", "unlink"}         -> 4
      [] pc \in {"status", "erase"}         -> 3
      [] pc = "cleanup"                     -> 2
      [] pc = "emit"                        -> 1
      [] OTHER                              -> 0

ofService == IF pc = "verify" THEN 2 ELSE IF pc = "save" THEN 1 ELSE 0

Fewer(S, T) == S \subseteq T /\ S # T

Closer ==
    \/ phase' < phase
    \/ phase' = phase /\ Fewer(boot', boot)
    \/ /\ phase' = phase /\ boot' = boot
       /\ \/ stage' < stage
          \/ stage' = stage /\ Fewer(todo', todo)
          \/ stage' = stage /\ todo' = todo /\ ofService' < ofService

HandlerProgress == [][pc \notin {"idle", "down"} => Closer]_vars

(* A handler that has begun ends, as long as the secret service answers.   *)
HandlerEnds == pc \notin {"idle", "down"} ~> pc \in {"idle", "down"}
-----------------------------------------------------------------------------
(* CHANGELOG.md, 0.4.2: "cleanup account secrets in case of account        *)
(* creation failure".  The clean-up is not limited to creation: an edit    *)
(* that fails to verify must not take the secrets of the account that      *)
(* stays on disk.                                                          *)
FailedEditKeepsSecrets ==
    [][(call.op = "edit" /\ pc = "drop" /\ OnDisk(call.dir, call.id))
          => \A s \in services(files[call.dir][call.id].refs) :
                <<call.id, s>> \in secrets => <<call.id, s>> \in secrets']_vars

(* PluginInterface.h, max_count: "maximum amount of accounts allowed to    *)
(* create form a type".                                                    *)
InstancesWithinLimit == \A s \in Service : MaxCount[s] >= 0 => instances(s) <= MaxCount[s]

(* AccountUtils.cpp, FILE::write: "@return data write status".  A creation *)
(* that answers ok left the account in its file.                           *)
WriteIsReported ==
    [][call.op = "add" /\ result' = "ok" => hasAccount(call.dir, call.id)]_vars
=============================================================================
