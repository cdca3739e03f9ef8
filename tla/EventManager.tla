---------------------------- MODULE EventManager ----------------------------
(***************************************************************************)
(* Events as a subscriber of the event service sees them.  EventManager    *)
(* pushes one message per event and learns nothing of its fate, so the     *)
(* model keeps only what a subscriber knows from the events that arrived:  *)
(* the accounts it believes to exist and the last status reported of each. *)
(***************************************************************************)
EXTENDS AccountDefinitions

VARIABLES
    inited,         \* m_instancePtr # nullptr
    known,          \* accounts created and not deleted, by the events received
    knownStatus     \* last status received for each account

eventVars == <<inited, known, knownStatus>>

EventTypeOK ==
    /\ inited \in BOOLEAN
    /\ known \subseteq Key
    /\ knownStatus \in [Key -> Status]

(* A subscriber lists the accounts when it starts, and then follows events. *)
EventInit(existing) ==
    /\ inited = FALSE
    /\ known = existing
    /\ knownStatus = [k \in Key |-> NONE]

(* EventManager::Init: when the socket cannot be opened there is no        *)
(* instance, and main goes on without looking.                             *)
eventInit ==
    /\ inited' \in IF "noevents" \in Faults THEN BOOLEAN ELSE {TRUE}
    /\ UNCHANGED <<known, knownStatus>>

(* The subscriber's knowledge after an event; it may have been lost. *)
emit(newKnown, newStatus) ==
    /\ UNCHANGED inited
    /\ \/ known' = newKnown /\ knownStatus' = newStatus
       \/ "lost" \in Faults /\ UNCHANGED <<known, knownStatus>>

MutantCreateWithoutId(id) == emit(known \cup {NullId}, knownStatus)
EMIT_CREATE_ACCOUNT(id) == emit(known \cup {id}, knownStatus)
EMIT_MODIFY_ACCOUNT(id) == emit(known, knownStatus)
EMIT_DELETE_ACCOUNT(id) == emit(known \ {id}, [knownStatus EXCEPT ![id] = NONE])
EMIT_STATUS_CHANGE(id, to) == emit(known, [knownStatus EXCEPT ![id] = to])
=============================================================================
