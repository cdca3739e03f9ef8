------------------------- MODULE AccountRefinement --------------------------
(***************************************************************************)
(* AccountManager implements AccountRegistry as long as no file is left    *)
(* truncated or cut off, whatever else fails.  An operation takes effect   *)
(* when the file is flushed or unlinked; until then the registry shows the *)
(* account as it was, and from then on the status as it will be.           *)
(***************************************************************************)
EXTENDS AccountManager

Writing(id) == pc = "flush" /\ call.id = id

(* The status entry is reset or erased one step after the file changed. *)
StatusPending(id) == pc \in {"status", "erase"} /\ call.id = id

registered ==
    [id \in AccountId |->
        IF Writing(id) THEN (IF call.op = "edit" THEN {call.old} ELSE {})
        ELSE {services(files[p][id].refs) : p \in {q \in Parser : hasAccount(q, id)}}]

readonlyIds == {id \in AccountId : \E p \in Parser : isReadonly(p) /\ hasAccount(p, id)}

shownStatus == [id \in AccountId |-> IF StatusPending(id) THEN NONE ELSE getStatus(id)]

Registry == INSTANCE AccountRegistry
    WITH accounts <- registered, readonly <- readonlyIds, status <- shownStatus

(* Every behaviour of the account manager is one of the registry: requests *)
(* that fail change no account and no status, and crashes lose statuses    *)
(* only (createAccount, modifyAccount, deleteAccount, setStatus).          *)
RegistrySpec == Registry!RegistrySpec
=============================================================================
