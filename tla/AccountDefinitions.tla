------------------------- MODULE AccountDefinitions -------------------------
(***************************************************************************)
(* The data every component of px-accounts-service shares: account ids,    *)
(* services, the references an account file holds, account statuses, and   *)
(* the faults of the environment a run of the model admits.                *)
(***************************************************************************)
EXTENDS Integers, FiniteSets

CONSTANTS
    AccountId,      \* the uuids uuid_generate can return
    NullId,         \* the null uuid of a default constructed AccountObject
    Service,        \* service names, numbered in the order std::map keeps them
    PluginId,       \* the ids plugins with a `write` method hand out
    NoPid,          \* a service stored as plain parameters, without plugin-id
    Absent,         \* a service the account does not have
    Status,         \* the account statuses clients may set
    NONE,           \* AC_NONE, the status of an account nobody reported on
    Faults          \* which faults of the environment are admitted

(***************************************************************************)
(* "crash"    exit(0) from the SIGINT handler between two steps            *)
(* "torn"     the same between the truncation and the flush of a file      *)
(* "disk"     open, write or unlink of an account file fails               *)
(* "secret"   the secret service refuses, is unreachable, or applies a     *)
(*            request whose answer is lost                                 *)
(* "plugin"   a plugin throws out of its container or refuses a removal    *)
(* "unload"   some plugins do not load at the next start                   *)
(* "noevents" the event socket cannot be opened at start                   *)
(* "lost"     an emitted event does not reach the event service            *)
(***************************************************************************)
FaultKind == {"crash", "torn", "disk", "secret", "plugin", "unload", "noevents", "lost"}

ASSUME DataAssumption ==
    /\ Service \subseteq Nat
    /\ NullId \notin AccountId
    /\ NoPid \notin PluginId /\ Absent \notin PluginId /\ NoPid # Absent
    /\ NONE \in Status
    /\ Faults \subseteq FaultKind

Key == AccountId \cup {NullId}

(* What an account holds of each service: nothing, parameters only, or the *)
(* id under which the service's plugin stored them.                        *)
ServiceRefs == [Service -> PluginId \cup {NoPid, Absent}]

NoServices == [s \in Service |-> Absent]

services(refs) == {s \in Service : refs[s] # Absent}

(* The element of S that a loop over an ordered container meets first. *)
IsFirst(x, S) == x \in S /\ \A y \in S : x <= y
=============================================================================
