--------------------------- MODULE Channels_proofs ---------------------------
(***************************************************************************)
(* The channels from the service to the outside: its log, its events, and  *)
(* its requests to the secret service.                                     *)
(*   - after any changes of level and target, the logger and syslog filter *)
(*     messages alike                                                      *)
(*   - for any number of events, connections, failures of the event        *)
(*     service and any room on a connection, no event is received twice or *)
(*     lost by a service that stays up, and no send waits for a reader     *)
(*   - for any accounts and services, a request to the secret service is,  *)
(*     to its caller, the one step that the account manager's model takes  *)
(***************************************************************************)
EXTENDS Logger, EventSocket, RPCClient, FiniteSetTheorems, TLAPS
-----------------------------------------------------------------------------
(* The log. *)

Levels == ERR = 0 /\ WRN = 1 /\ INF = 2 /\ MRK = 3

LEMMA LevelNumbers == Levels
BY DEF Levels, ERR, WRN, INF, MRK

(*   - the logger's target is that of its engine                           *)
(*   - the level is one that messages are filtered by                      *)
(*   - an engine for syslog has it open, with the mask of the level        *)
FilterInv ==
    /\ target = engine
    /\ level \in {ERR, WRN, INF}
    /\ engine = "SYSLOG" => opened /\ mask = TranslateLogLevel(level)

LoggerInv == LoggerTypeOK /\ FilterInv

(* What init does for any level that is filtered by. *)
LEMMA InitStep ==
    ASSUME LoggerInv, NEW tgt \in LogTarget, NEW lvl \in {ERR, WRN, INF}, init(tgt, lvl)
    PROVE  LoggerInv'
<1>1. target' = tgt /\ level' = lvl
  BY DEF init
<1>2. engine' = tgt /\ opened' \in BOOLEAN /\ (tgt = "SYSLOG" => opened')
  BY DEF init, MakeLogEngine, setEngineLevel, LoggerInv, LoggerTypeOK
<1>3. mask' = IF tgt = "SYSLOG" THEN TranslateLogLevel(lvl) ELSE mask
  BY DEF init, MakeLogEngine, setEngineLevel, setMask
<1>4. TranslateLogLevel(lvl) \in 1 .. 7 /\ lvl \in LogLevel
  BY LevelNumbers DEF Levels, TranslateLogLevel, LogLevel
<1>5. LoggerTypeOK'
  BY <1>1, <1>2, <1>3, <1>4 DEF LoggerInv, LoggerTypeOK
<1>6. FilterInv'
  BY <1>1, <1>2, <1>3 DEF FilterInv, TranslateLogLevel
<1>7. QED
  BY <1>5, <1>6 DEF LoggerInv

LEMMA LoggerStep == ASSUME LoggerInv, [LoggerNext]_loggerVars PROVE LoggerInv'
<1>1. CASE setLevel
  <2>1. PICK lvl \in LogLevel \ {MRK} : init(target, lvl)
    BY <1>1 DEF setLevel
  <2>2. lvl \in {ERR, WRN, INF} /\ target \in LogTarget
    BY LevelNumbers DEF Levels, LogLevel, LoggerInv, LoggerTypeOK
  <2>3. QED
    BY <2>1, <2>2, InitStep
<1>2. CASE setTarget
  BY <1>2, InitStep DEF setTarget, LoggerInv, FilterInv
<1>3. CASE GLOG_INIT
  BY <1>3, InitStep DEF GLOG_INIT
<1>4. CASE UNCHANGED loggerVars
  BY <1>4 DEF loggerVars, LoggerInv, LoggerTypeOK, FilterInv, TranslateLogLevel
<1>5. QED
  BY <1>1, <1>2, <1>3, <1>4 DEF LoggerNext

LEMMA LoggerInvariant == LoggerSpec => []LoggerInv
<1>1. LoggerInit => LoggerInv
  BY LevelNumbers
     DEF Levels, LoggerInit, LoggerInv, LoggerTypeOK, FilterInv, LogLevel, LogTarget,
         TranslateLogLevel
<1>2. LoggerInv /\ [LoggerNext]_loggerVars => LoggerInv'
  BY LoggerStep
<1>3. QED
  BY <1>1, <1>2, PTL DEF LoggerSpec

(* Every variable of the logger stays within its type. *)
THEOREM LoggerTypeCorrect == LoggerSpec => []LoggerTypeOK
<1>1. LoggerInv => LoggerTypeOK
  BY DEF LoggerInv
<1>2. QED
  BY <1>1, LoggerInvariant, PTL

(* A message that Logger::log lets through is one that its target takes.   *)
THEOREM FiltersAlike == LoggerSpec => []FiltersAgree
<1>1. LoggerInv => FiltersAgree
  BY LevelNumbers
     DEF Levels, LoggerInv, LoggerTypeOK, FilterInv, FiltersAgree, passes, reaches, TranslateLogLevel,
         LogLevel, LogTarget
<1>2. QED
  BY <1>1, LoggerInvariant, PTL
-----------------------------------------------------------------------------
(* Events. *)

(* Where an event can be.                                                  *)
(*   - the event being emitted is new: no earlier emit sent it             *)
(*   - only events that were sent are on a connection or were received     *)
(*   - an event on a connection is on no other, and was not received       *)
Nowhere == step # "idle" => emits \in Event /\ emits \notin sent
Emitted == \A e \in sent : e <= emits
OnWire == \A c \in Conn : \A e \in wire[c] : e \in sent /\ got[e] = 0
OneWire == \A c, d \in Conn : \A e \in wire[c] : e \in wire[d] => c = d
Received == \A e \in Event : got[e] <= 1 /\ (e \notin sent => got[e] = 0)

OnceInv == SocketTypeOK /\ Nowhere /\ Emitted /\ OnWire /\ OneWire /\ Received

LEMMA OnceInit == SocketInit => OnceInv
BY SocketAssumption
   DEF SocketInit, OnceInv, SocketTypeOK, Nowhere, Emitted, OnWire, OneWire, Received, Event, Conn

(* The push socket puts a new event on one connection. *)
LEMMA SendStep == ASSUME OnceInv, Send PROVE OnceInv'
<1> USE DEF OnceInv, Event, Conn
<1>1. PICK c \in Conn : wire' = [wire EXCEPT ![c] = wire[c] \cup {emits}]
  BY DEF Send, push
<1>2. emits \in Event /\ emits \notin sent /\ got[emits] = 0
  BY DEF Send, Nowhere, Received
<1>3. SocketTypeOK'
  BY <1>1, <1>2 DEF Send, SocketTypeOK
<1>4. Nowhere' /\ Emitted' /\ Received'
  BY <1>2 DEF Send, Nowhere, Emitted, Received, SocketTypeOK
<1>5. OnWire'
  BY <1>1, <1>2 DEF Send, OnWire, SocketTypeOK
<1>6. OneWire'
  BY <1>1, <1>2 DEF Send, OnWire, OneWire, SocketTypeOK
<1>7. QED
  BY <1>3, <1>4, <1>5, <1>6

(* An event that is received leaves the only connection it was on. *)
LEMMA ReceiveStep == ASSUME OnceInv, NEW c \in Conn, Receive(c) PROVE OnceInv'
<1> USE DEF OnceInv, Event, Conn
<1>1. PICK e \in wire[c] :
         /\ wire' = [wire EXCEPT ![c] = wire[c] \ {e}]
         /\ got' = [got EXCEPT ![e] = got[e] + 1]
  BY DEF Receive
<1>2. e \in Event /\ e \in sent /\ got[e] = 0
  BY DEF OnWire, SocketTypeOK
<1>3. SocketTypeOK'
  BY <1>1, <1>2 DEF Receive, SocketTypeOK
<1>4. Nowhere' /\ Emitted' /\ Received'
  BY <1>1, <1>2 DEF Receive, Nowhere, Emitted, Received, SocketTypeOK
<1>5. OnWire'
  BY <1>1, <1>2 DEF Receive, OnWire, OneWire, SocketTypeOK
<1>6. OneWire'
  BY <1>1, <1>2 DEF Receive, OneWire, SocketTypeOK
<1>7. QED
  BY <1>3, <1>4, <1>5, <1>6

(* Every step of the socket preserves the invariant. *)
LEMMA OnceStep == ASSUME OnceInv, [SocketNext]_socketVars PROVE OnceInv'
<1> USE DEF OnceInv, SocketTypeOK, Nowhere, Emitted, OnWire, OneWire, Received, Event, Conn
<1>1. CASE Emit
  BY <1>1, SocketAssumption DEF Emit
<1>2. CASE Connected
  BY <1>2, SocketAssumption DEF Connected, connect
<1>3. CASE NotConnected
  BY <1>3 DEF NotConnected
<1>4. CASE Send
  BY <1>4, SendStep
<1>5. CASE ComeUp
  BY <1>5 DEF ComeUp
<1>6. ASSUME NEW c \in Conn, Redial(c) PROVE OnceInv'
  BY <1>6 DEF Redial
<1>7. ASSUME NEW c \in Conn, Receive(c) PROVE OnceInv'
  BY <1>7, ReceiveStep
<1>8. CASE GoDown
  <2>1. /\ up' \in BOOLEAN
        /\ falls' \in 0 .. MaxFalls
        /\ lost' \subseteq 1 .. conns'
    <3>1. up' \in BOOLEAN
      BY <1>8 DEF GoDown
    <3>2. falls' \in 0 .. MaxFalls
      BY <1>8, SocketAssumption DEF GoDown
    <3>3. lost' \subseteq 1 .. conns'
      BY <1>8 DEF GoDown
    <3>4. QED
      BY <3>1, <3>2, <3>3
  <2>2. wire' \in [Conn -> SUBSET Event] /\ \A c \in Conn : wire'[c] = {}
    BY <1>8 DEF GoDown
  <2>3. UNCHANGED <<reads, step, emits, conns, sent, got>>
    BY <1>8 DEF GoDown
  <2>4. QED
    BY <2>1, <2>2, <2>3
<1>9. CASE UNCHANGED socketVars
  BY <1>9 DEF socketVars
<1>10. QED
  BY <1>1, <1>2, <1>3, <1>4, <1>5, <1>6, <1>7, <1>8, <1>9 DEF SocketNext, Emitting, Network

LEMMA OnceInvariant == SocketSpec => []OnceInv
<1>1. OnceInv /\ [SocketNext]_socketVars => OnceInv'
  BY OnceStep
<1>2. QED
  BY OnceInit, <1>1, PTL DEF SocketSpec

(* Every variable of the socket stays within its type. *)
THEOREM SocketTypeCorrect == SocketSpec => []SocketTypeOK
<1>1. OnceInv => SocketTypeOK
  BY DEF OnceInv
<1>2. QED
  BY <1>1, OnceInvariant, PTL

(* The event service receives no event twice and none that emit reported   *)
(* as dropped, although every emit dials one more connection on the same   *)
(* socket (EventManager::connect, the push socket of its constructor).     *)
THEOREM NoDuplicates == SocketSpec => []AtMostOnce
<1>1. OnceInv => AtMostOnce
  BY DEF OnceInv, Received, AtMostOnce, SocketTypeOK
<1>2. QED
  BY <1>1, OnceInvariant, PTL

(* While emit sends, the connection dialled last is still empty, and those *)
(* yet to be dialled have been empty all along.                            *)
LastEmpty ==
    /\ step = "send" => conns \in Conn /\ wire[conns] = {}
    /\ \A c \in Conn : c > conns => wire[c] = {}

(* No connection breaks before the event service goes down for the first   *)
(* time.                                                                   *)
Standing == falls = 0 => lost = {}

RoomInv == OnceInv /\ LastEmpty /\ Standing /\ NoneLost

LEMMA RoomStep == ASSUME RoomInv, [SocketNext]_socketVars PROVE LastEmpty' /\ Standing' /\ NoneLost'
<1> USE DEF RoomInv, OnceInv, SocketTypeOK, LastEmpty, Standing, NoneLost, open, Event, Conn
<1>1. CASE Emit
  BY <1>1 DEF Emit
<1>2. CASE Connected
  BY <1>2, SocketAssumption DEF Connected, connect
<1>3. CASE NotConnected
  BY <1>3 DEF NotConnected
<1>4. CASE Send
  <2>1. PICK c \in Conn : c \in open /\ wire' = [wire EXCEPT ![c] = wire[c] \cup {emits}]
    BY <1>4 DEF Send, push, hasRoom
  <2>2. /\ step' = "idle" /\ sent' = sent \cup {emits}
        /\ UNCHANGED <<falls, conns, lost, got>>
    BY <1>4 DEF Send
  <2>3. LastEmpty' /\ Standing'
    BY <2>1, <2>2
  <2>4. NoneLost'
    BY <2>1, <2>2
  <2> QED
    BY <2>3, <2>4
<1>5. CASE ComeUp
  BY <1>5 DEF ComeUp
<1>6. ASSUME NEW c \in Conn, Redial(c) PROVE LastEmpty' /\ Standing' /\ NoneLost'
  BY <1>6 DEF Redial
<1>7. ASSUME NEW c \in Conn, Receive(c) PROVE LastEmpty' /\ Standing' /\ NoneLost'
  <2>1. PICK e \in wire[c] :
           /\ wire' = [wire EXCEPT ![c] = wire[c] \ {e}]
           /\ got' = [got EXCEPT ![e] = got[e] + 1]
    BY <1>7 DEF Receive
  <2>2. UNCHANGED <<step, falls, conns, lost, sent>> /\ e \in Event
    BY <1>7 DEF Receive
  <2>3. LastEmpty' /\ Standing'
    BY <2>1, <2>2
  <2>4. NoneLost'
    BY <2>1, <2>2
  <2> QED
    BY <2>3, <2>4
<1>8. CASE GoDown
  <2>1. falls' > 0 /\ wire' = [c \in Conn |-> {}] /\ UNCHANGED <<step, conns>>
    BY <1>8, SocketAssumption DEF GoDown
  <2> QED
    BY <2>1
<1>9. CASE UNCHANGED socketVars
  BY <1>9 DEF socketVars
<1> QED
  BY <1>1, <1>2, <1>3, <1>4, <1>5, <1>6, <1>7, <1>8, <1>9 DEF SocketNext, Emitting, Network

LEMMA RoomInvariant == SocketSpec => []RoomInv
<1>1. SocketInit => RoomInv
  BY OnceInit, SocketAssumption DEF SocketInit, RoomInv, LastEmpty, Standing, NoneLost, Conn
<1>2. RoomInv /\ [SocketNext]_socketVars => RoomInv'
  BY OnceStep, RoomStep DEF RoomInv
<1> QED
  BY <1>1, <1>2, PTL DEF SocketSpec

(* For any number of connections and any room on them: when emit comes to  *)
(* nng_send, the dial before it has left a connection with room, so that   *)
(* an event service that does not read cannot stop the serving thread.     *)
THEOREM SendsHaveRoom == SocketSpec => []SendHasRoom
<1>1. RoomInv => SendHasRoom
  <2> SUFFICES ASSUME RoomInv, step = "send" PROVE \E c \in 1 .. conns : Cardinality(wire[c]) < Room
    BY DEF SendHasRoom
  <2>1. conns \in 1 .. conns /\ wire[conns] = {}
    BY SocketAssumption DEF RoomInv, LastEmpty, Conn
  <2>2. Cardinality({}) = 0
    BY FS_EmptySet
  <2> QED
    BY <2>1, <2>2, SocketAssumption
<1> QED
  BY <1>1, RoomInvariant, PTL

(* For any number of events and connections: until the event service first *)
(* goes down, an event that emit reported as sent is received or on its    *)
(* way on a connection that stands.                                        *)
THEOREM NothingLost == SocketSpec => []NoneLost
<1>1. RoomInv => NoneLost
  BY DEF RoomInv
<1> QED
  BY <1>1, RoomInvariant, PTL
-----------------------------------------------------------------------------
(* Requests to the secret service. *)

(* What the store can be while a call is under way.                        *)
(*   - a request thread exists only within a call                          *)
(*   - the store is as it was when the call began until the service has    *)
(*     applied the request, and then as the request says                   *)
(*   - the caller's variables tell of an applied request only when it was  *)
(*     applied, and of what is stored only what the account has            *)
appliedTo(S) ==
    CASE req.kind = "setSecret"     -> S \cup {<<req.id, req.s>>}
      [] req.kind = "removeService" -> S \ {<<req.id, req.s>>}
      [] req.kind = "removeAccount" -> S \ {x \in S : x[1] = req.id}
      [] OTHER                      -> S

Changes == req.kind \in {"setSecret", "removeService", "removeAccount"}

DuringCall ==
    /\ message = "applied" => store = appliedTo(before)
    /\ message # "applied" => store = before
    /\ thread = "connect" => message = "none"
    /\ isSucceed /\ Changes => message = "applied"
    /\ thread # "done" => found = {}
    /\ found \in {{}, ofAccount(req.id)}

RequestInv ==
    /\ RequestTypeOK
    /\ caller = "idle" => thread = "none"
    /\ caller = "join" => DuringCall

LEMMA RequestInit == ClientInit => RequestInv
BY DataAssumption DEF ClientInit, RequestInv, RequestTypeOK, Item, Key, RequestKind, Query

(* Each step of either thread and of the service preserves the invariant.  *)
LEMMA RequestStep == ASSUME RequestInv, [ClientNext]_requestVars PROVE RequestInv'
<1> USE DEF RequestInv, RequestTypeOK, DuringCall, Changes, appliedTo, ofAccount, clientVars
<1>1. CASE Call
  BY <1>1 DEF Call
<1>2. CASE Return
  BY <1>2 DEF Return, join, returned
<1>3. CASE Connect
  BY <1>3 DEF Connect
<1>4. CASE ConnectFails
  BY <1>4 DEF ConnectFails, notConnected
<1>5. CASE OnResult
  BY <1>5 DEF OnResult
<1>6. CASE OnException
  BY <1>6 DEF OnException
<1>7. CASE Apply
  <2>1. store' = appliedTo(before) /\ found' = {} /\ req' = req /\ before' = before
    BY <1>7 DEF Apply, received, applied
  <2>2. store' \subseteq Item
    BY <2>1 DEF Item
  <2>3. QED
    BY <1>7, <2>1, <2>2 DEF Apply, received
<1>8. CASE Turndown
  BY <1>8 DEF Turndown, received
<1>9. CASE ServiceGoesDown
  BY <1>9 DEF ServiceGoesDown
<1>10. CASE ServiceComesUp \/ Hang
  BY <1>10 DEF ServiceComesUp, Hang
<1>11. CASE UNCHANGED requestVars
  BY <1>11 DEF requestVars
<1>12. QED
  BY <1>1, <1>2, <1>3, <1>4, <1>5, <1>6, <1>7, <1>8, <1>9, <1>10, <1>11
     DEF ClientNext, RequestThread, SecretService

LEMMA RequestInvariant == ClientSpec => []RequestInv
<1>1. RequestInv /\ [ClientNext]_requestVars => RequestInv'
  BY RequestStep
<1>2. QED
  BY RequestInit, <1>1, PTL DEF ClientSpec

(* Every variable of a request stays within its type. *)
THEOREM RequestTypeCorrect == ClientSpec => []RequestTypeOK
<1>1. RequestInv => RequestTypeOK
  BY DEF RequestInv
<1>2. QED
  BY <1>1, RequestInvariant, PTL

(* A request thread writes to variables of the call that started it only   *)
(* while that call lasts (the join in RPCClient::performRequest).          *)
THEOREM ThreadEndsWithCall == ClientSpec => []ThreadWithinCall
<1>1. RequestInv => ThreadWithinCall
  BY DEF RequestInv, ThreadWithinCall
<1>2. QED
  BY <1>1, RequestInvariant, PTL

(* Returning is the step the module SecretManager describes. *)
LEMMA ReturnImplements ==
    ASSUME RequestInv, Return, "secret" \in Faults
    PROVE  Requested(req.id, req.s) /\ items' \in {{}, ofAccount(req.id)}
<1> USE DEF RequestInv, RequestTypeOK, DuringCall, Changes
<1>1. storeOfCaller = before /\ storeOfCaller' = store /\ ok' = (succeeded /\ isSucceed)
  BY DEF Return, storeOfCaller, returned
<1>2. items' \in {{}, ofAccount(req.id)}
  BY DEF Return
<1> SUFFICES Requested(req.id, req.s)
  BY <1>2
<1>3. ok' /\ Changes => store = appliedTo(before)
  BY <1>1 DEF Return
<1>4. store \in {before, appliedTo(before)} /\ ok' \in BOOLEAN
  BY <1>1 DEF Return
<1>5. CASE req.kind = "setSecret"
  BY <1>1, <1>3, <1>4, <1>5 DEF Requested, Atomic!setSecret, Atomic!request, appliedTo
<1>6. CASE req.kind = "removeService"
  BY <1>1, <1>3, <1>4, <1>6 DEF Requested, Atomic!removeService, Atomic!request, appliedTo
<1>7. CASE req.kind = "removeAccount"
  <2>1. appliedTo(before) = {x \in before : x[1] # req.id}
    BY <1>7 DEF appliedTo
  <2>2. QED
    BY <1>1, <1>3, <1>4, <1>7, <2>1 DEF Requested, Atomic!removeAccount, Atomic!request
<1>8. CASE ~Changes
  BY <1>1, <1>4, <1>8 DEF Requested, appliedTo
<1>9. QED
  BY <1>5, <1>6, <1>7, <1>8

(* Where the environment may fail the secret service, the steps of a call  *)
(* on its two threads and in the service add up to the one step that the   *)
(* account manager's model takes (SecretManager.cpp over RPCClient.h).     *)
THEOREM CallIsOneStep ==
    ASSUME "secret" \in Faults
    PROVE  ClientSpec => ImplementsRequest
<1>1. ASSUME RequestInv, [ClientNext]_requestVars
      PROVE  [IF caller' = "idle"
              THEN Requested(req.id, req.s) /\ items' \in {{}, ofAccount(req.id)}
              ELSE UNCHANGED storeOfCaller]_<<caller, storeOfCaller>>
  <2>1. CASE Return
    BY <1>1, <2>1, ReturnImplements DEF Return
  <2>2. CASE Call
    BY <1>1, <2>2 DEF Call, storeOfCaller
  <2>3. CASE RequestThread \/ SecretService
    BY <1>1, <2>3 DEF RequestThread, Connect, ConnectFails, OnResult, OnException, SecretService,
                      Apply, Turndown, received, storeOfCaller, RequestInv
  <2>4. CASE ServiceGoesDown \/ ServiceComesUp \/ Hang \/ UNCHANGED requestVars
    BY <2>4 DEF ServiceGoesDown, ServiceComesUp, Hang, requestVars, clientVars, storeOfCaller
  <2>5. QED
    BY <1>1, <2>1, <2>2, <2>3, <2>4 DEF ClientNext
<1>2. QED
  BY <1>1, RequestInvariant, PTL DEF ClientSpec, ImplementsRequest
=============================================================================
