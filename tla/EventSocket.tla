----------------------------- MODULE EventSocket -----------------------------
(***************************************************************************)
(* How EventManager gets an event to px-events-service (EventManager.cpp): *)
(* each emit dials once more, on one push socket, and then sends.  A       *)
(* dialled connection stays for the life of the process, is dialled again  *)
(* by nng when it breaks, and carries what the socket puts on it in order; *)
(* the socket puts each message on any connection that has room for it.    *)
(***************************************************************************)
EXTENDS Naturals, FiniteSets

CONSTANTS
    MaxEmits,       \* a bound: how many events the process emits
    MaxConns,       \* how many connections the process has descriptors for
    Room,           \* how many messages a connection takes before one is read
    MaxFalls        \* a bound: how often the event service goes down

ASSUME SocketAssumption ==
    MaxEmits \in Nat /\ MaxConns \in Nat /\ Room \in Nat \ {0} /\ MaxFalls \in Nat

VARIABLES
    reads,      \* the event service reads what it is sent
    up,         \* the event service runs
    falls,      \* how often it went down
    step,       \* where emit is
    emits,      \* the number of the last event emitted
    conns,      \* the connections dialled so far
    lost,       \* those that broke and have not been dialled again
    wire,       \* the events on each connection
    sent,       \* the events for which emit answered true
    got         \* how often the event service has received each event

socketVars == <<reads, up, falls, step, emits, conns, lost, wire, sent, got>>

Event == 1 .. MaxEmits
Conn == 1 .. MaxConns
open == (1 .. conns) \ lost

SocketTypeOK ==
    /\ reads \in BOOLEAN /\ up \in BOOLEAN
    /\ falls \in 0 .. MaxFalls
    /\ step \in {"idle", "dial", "send"}
    /\ emits \in 0 .. MaxEmits /\ conns \in 0 .. MaxConns
    /\ lost \subseteq 1 .. conns
    /\ wire \in [Conn -> SUBSET Event]
    /\ sent \subseteq Event
    /\ got \in [Event -> Nat]

(* EventManager::Init opens the socket and connects to nothing. *)
SocketInit ==
    /\ reads \in BOOLEAN /\ up \in BOOLEAN /\ falls = 0
    /\ step = "idle" /\ emits = 0 /\ conns = 0 /\ lost = {}
    /\ wire = [c \in Conn |-> {}] /\ sent = {} /\ got = [e \in Event |-> 0]
-----------------------------------------------------------------------------
(* The serving thread. *)

Emit ==
    /\ step = "idle" /\ emits < MaxEmits
    /\ step' = "dial" /\ emits' = emits + 1
    /\ UNCHANGED <<reads, up, falls, conns, lost, wire, sent, got>>

(* connect(): nng_dial waits until the connection stands or has failed. *)
MutantDialOnce == IF conns = 0 THEN up /\ MaxConns > 0 /\ conns' = 1 ELSE UNCHANGED conns
connect == up /\ conns < MaxConns /\ conns' = conns + 1

Connected ==
    /\ step = "dial" /\ connect
    /\ step' = "send"
    /\ UNCHANGED <<reads, up, falls, emits, lost, wire, sent, got>>

(* Nobody listens, the handshake is not answered in time, or there is no   *)
(* descriptor left: the event is dropped.                                  *)
NotConnected ==
    /\ step = "dial"
    /\ step' = "idle"
    /\ UNCHANGED <<reads, up, falls, emits, conns, lost, wire, sent, got>>

(* nng_send without NNG_FLAG_NONBLOCK: waits for a connection with room,   *)
(* and a push socket puts the message on one of them.                      *)
hasRoom(c) == c \in open /\ Cardinality(wire[c]) < Room

MutantPublish(e) == wire' = [c \in Conn |-> IF hasRoom(c) THEN wire[c] \cup {e} ELSE wire[c]]
MutantHangUp(e) == \E c \in Conn : hasRoom(c) /\ wire' = [wire EXCEPT ![c] = {}]
push(e) == \E c \in Conn : hasRoom(c) /\ wire' = [wire EXCEPT ![c] = wire[c] \cup {e}]

Send ==
    /\ step = "send" /\ step' = "idle"
    /\ push(emits)
    /\ sent' = sent \cup {emits}
    /\ UNCHANGED <<reads, up, falls, emits, conns, lost, got>>
-----------------------------------------------------------------------------
(* nng's own threads, and the event service. *)

Redial(c) ==
    /\ up /\ c \in lost
    /\ lost' = lost \ {c}
    /\ UNCHANGED <<reads, up, falls, step, emits, conns, wire, sent, got>>

(* A connection is read in order, and events are numbered in the order in  *)
(* which they are sent.                                                    *)
Receive(c) ==
    /\ up /\ reads
    /\ \E e \in wire[c] :
          /\ \A d \in wire[c] : e <= d
          /\ wire' = [wire EXCEPT ![c] = wire[c] \ {e}]
          /\ got' = [got EXCEPT ![e] = got[e] + 1]
    /\ UNCHANGED <<reads, up, falls, step, emits, conns, lost, sent>>

(* What was on the connections is gone. *)
GoDown ==
    /\ up /\ falls < MaxFalls
    /\ up' = FALSE /\ falls' = falls + 1
    /\ lost' = 1 .. conns /\ wire' = [c \in Conn |-> {}]
    /\ UNCHANGED <<reads, step, emits, conns, sent, got>>

ComeUp ==
    /\ ~up /\ up' = TRUE
    /\ UNCHANGED <<reads, falls, step, emits, conns, lost, wire, sent, got>>

Emitting == Connected \/ NotConnected \/ Send
Network == ComeUp \/ \E c \in Conn : Redial(c) \/ Receive(c)

SocketNext == Emit \/ Emitting \/ Network \/ GoDown

(* The serving thread and nng's threads run, a service that went down is   *)
(* started again, and one that reads reads on.  No call has to be made.    *)
SocketSpec ==
    /\ SocketInit /\ [][SocketNext]_socketVars
    /\ WF_socketVars(Emitting) /\ WF_socketVars(ComeUp)
    /\ \A c \in Conn : WF_socketVars(Redial(c)) /\ WF_socketVars(Receive(c))
-----------------------------------------------------------------------------
(* No event is received twice, and none that emit did not report as sent,  *)
(* on however many connections it was dialled and however often the event  *)
(* service comes and goes (the push socket of EventManager's constructor). *)
AtMostOnce == \A e \in Event : got[e] <= 1 /\ (got[e] = 1 => e \in sent)

(* A send has a connection to go to, full as the others may be: nng_send   *)
(* has no timeout, and waits at most until that connection is dialled      *)
(* again (connect, which each emit calls before nng_send).                 *)
SendHasRoom == step = "send" => \E c \in 1 .. conns : Cardinality(wire[c]) < Room

(* As long as the event service has not gone down, every event that emit   *)
(* reported as sent has been received or is on a connection that stands.   *)
NoneLost ==
    falls = 0 => \A e \in sent : got[e] > 0 \/ \E c \in Conn : c \in open /\ e \in wire[c]

(* An emit ends, even for an event service that never reads: the dial just *)
(* before has brought a connection with room of its own (connect before    *)
(* nng_send, which has no timeout).                                        *)
EmitEnds == step # "idle" ~> step = "idle"

(* An event that emit reported as sent is received by a service that reads *)
(* unless it goes down.                                                    *)
SentArrives == \A e \in Event : e \in sent /\ reads ~> got[e] > 0 \/ falls > 0
=============================================================================
