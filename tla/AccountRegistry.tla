-------------------------- MODULE AccountRegistry --------------------------
(***************************************************************************)
(* What clients of px-accounts-service may rely on: a registry of accounts *)
(* in which each request takes effect at once or not at all, and in which  *)
(* a status belongs to an account and is forgotten with it, when the       *)
(* account is edited, and when the service restarts.                       *)
(***************************************************************************)
CONSTANTS AccountId, Service, Status, NONE

VARIABLES
    accounts,   \* the services of each account that exists, as a set of sets
    readonly,   \* the accounts that requests cannot change
    status

registryVars == <<accounts, readonly, status>>

(* No account is the empty set, an account with services S is {S}. *)
Exists(id) == accounts[id] # {}

RegistryTypeOK ==
    /\ accounts \in [AccountId -> {{}} \cup {{S} : S \in SUBSET Service}]
    /\ readonly \subseteq {id \in AccountId : Exists(id)}
    /\ status \in [AccountId -> Status]

RegistryInit == RegistryTypeOK /\ status = [id \in AccountId |-> NONE]

Create(id, S) ==
    /\ ~Exists(id)
    /\ accounts' = [accounts EXCEPT ![id] = {S}]
    /\ UNCHANGED <<readonly, status>>

Modify(id, S) ==
    /\ Exists(id) /\ id \notin readonly
    /\ accounts' = [accounts EXCEPT ![id] = {S}]
    /\ status' = [status EXCEPT ![id] = NONE]
    /\ UNCHANGED readonly

Delete(id) ==
    /\ Exists(id) /\ id \notin readonly
    /\ accounts' = [accounts EXCEPT ![id] = {}]
    /\ status' = [status EXCEPT ![id] = NONE]
    /\ UNCHANGED readonly

Report(id, stat) ==
    /\ Exists(id)
    /\ status' = [status EXCEPT ![id] = stat]
    /\ UNCHANGED <<accounts, readonly>>

Restart ==
    /\ status' = [id \in AccountId |-> NONE]
    /\ UNCHANGED <<accounts, readonly>>

RegistryNext ==
    \/ \E id \in AccountId, S \in SUBSET Service : Create(id, S) \/ Modify(id, S)
    \/ \E id \in AccountId : Delete(id)
    \/ \E id \in AccountId, stat \in Status : Report(id, stat)
    \/ Restart

RegistrySpec == RegistryInit /\ [][RegistryNext]_registryVars
=============================================================================
