----------------------------- MODULE SourceClient -----------------------------
(***************************************************************************)
(* The relay client of one tab (relay-source-client.ts): it looks for a    *)
(* relay, says hello on the socket it found, and, when the connection is   *)
(* lost, retries the same endpoint, rescans three times and then goes      *)
(* dormant, with a heartbeat that probes the hinted and the cached         *)
(* endpoint only.                                                          *)
(*                                                                         *)
(* A search is one asynchronous chain, from the probe of its first         *)
(* candidate to what its .then() does; several may be under way, since     *)
(* only start() and wake() look at the phase first.  A disturbance is an   *)
(* event the client does not control or the user causes: the relay comes   *)
(* up, ends or moves, drops a connection or is slow, the page fails to     *)
(* list its tools, the reconnect button is pressed.  Their number is       *)
(* bounded by MaxDisturbances.  Socket ids are reused once nothing refers  *)
(* to them; the sockets of probes that fail are closed at once and left    *)
(* out, and so are the updates of the tool list and the calls.             *)
(***************************************************************************)
EXTENDS Integers, FiniteSets

CONSTANTS
    Endpoint,        \* where a relay may listen
    Hint,            \* hostHint and portHint
    Nowhere,         \* no endpoint
    Sock,
    NoSock,
    MaxCycle,        \* the length of REDISCOVERY_DELAYS_MS
    MaxChains,       \* bound on the searches of one kind under way at a time
    MaxDisturbances

ASSUME EndpointAssumption == Hint \in Endpoint /\ Nowhere \notin Endpoint
ASSUME SockAssumption == NoSock \notin Sock
ASSUME BoundAssumption == MaxCycle \in Nat /\ MaxChains \in Nat \ {0} /\ MaxDisturbances \in Nat

\* The kinds of searches.  scan: start() and reconnectRelay(); rescan: after a
\* delay; wake: wake(); beat: the dormant heartbeat; retry: the lost endpoint.
Chain == ({"scan", "rescan", "wake", "beat"} \X {Nowhere}) \cup ({"retry"} \X Endpoint)
Scan == <<"scan", Nowhere>>
Rescan == <<"rescan", Nowhere>>
WakeScan == <<"wake", Nowhere>>
Beat == <<"beat", Nowhere>>

NoTimer == <<"none", Nowhere>>

VARIABLES
    started, stopped,
    phase,      \* idle, discovering or dormant
    chains,     \* chain |-> how many searches of this kind are under way
    retry,      \* the search that retryTimer will begin, or NoTimer
    cycle,      \* discoveryCycleCount, up to MaxCycle: any more act alike
    beats,      \* heartbeat intervals that run
    beatHandle, \* dormantHeartbeatTimer is set
    active,     \* activeSocket
    endpoint,   \* activeEndpoint
    accepted,   \* helloAccepted
    cached,     \* the endpoint cache
    sock,       \* socket |-> free, open, closing (close() was called) or broken
    listing,    \* sockets whose handshake awaits facade.listTools()
    wire,       \* socket |-> quiet, hello, accept, reject or done
    ack,        \* sockets whose helloAckTimer runs
    ackHandle,  \* the socket of the timer that helloAckTimer refers to
    relay,      \* where the relay listens now
    strict,     \* it does not allow the origin of the client
    churn,      \* disturbances so far
    overlapped  \* history: reconnectRelay() was called while a search was under way

searchVars == <<phase, chains, retry, cycle, beats, beatHandle>>
connVars   == <<active, endpoint, accepted, cached>>
sockVars   == <<sock, listing, wire, ack, ackHandle>>
envVars    == <<relay, strict, churn, overlapped>>
vars == <<started, stopped, searchVars, connVars, sockVars, envVars>>

Init ==
    /\ started = FALSE /\ stopped = FALSE
    /\ phase = "idle"
    /\ chains = [k \in Chain |-> 0]
    /\ retry = NoTimer
    /\ cycle = 0 /\ beats = 0 /\ beatHandle = FALSE
    /\ active = NoSock /\ endpoint = Nowhere /\ accepted = FALSE /\ cached = Nowhere
    /\ sock = [s \in Sock |-> "free"]
    /\ listing = {} /\ ack = {} /\ ackHandle = NoSock
    /\ wire = [s \in Sock |-> "quiet"]
    /\ relay \in Endpoint \cup {Nowhere}
    /\ strict \in BOOLEAN
    /\ churn = 0 /\ overlapped = FALSE

------------------------------------------------------------------------------
(* What the handlers share.                                                *)

Disturbance == churn < MaxDisturbances /\ churn' = churn + 1

Searching == \E k \in Chain : chains[k] > 0

\* A search begins (in the state `now` of the chains) or ends.
Begin(k, now) == chains' = [now EXCEPT ![k] = @ + 1]
End(k) == chains' = [chains EXCEPT ![k] = @ - 1]

\* The endpoints a search probes.
Candidates(k) ==
    CASE k[1] = "retry" -> {k[2]}
      [] k[1] = "beat"  -> {Hint, cached} \ {Nowhere}
      [] OTHER          -> Endpoint

\* cleanupDormant: the interval the handle refers to is cleared.
CleanupDormant ==
    /\ beats' = IF beatHandle THEN beats - 1 ELSE beats
    /\ beatHandle' = FALSE

\* enterDormant, when the phase is `now`.
EnterDormant(now) ==
    /\ phase' = "dormant"
    /\ IF now = "dormant" THEN UNCHANGED <<beats, beatHandle>>
       ELSE beats' = beats + 1 /\ beatHandle' = TRUE

\* scheduleRediscovery, when the phase is `now` and the count is `cycles`.
ScheduleRediscovery(now, cycles) ==
    \/ /\ retry # NoTimer
       /\ phase' = now
       /\ UNCHANGED <<retry, beats, beatHandle>>
    \/ /\ retry = NoTimer /\ cycles < MaxCycle
       /\ retry' = Rescan
       /\ phase' = now
       /\ UNCHANGED <<beats, beatHandle>>
    \/ /\ retry = NoTimer /\ cycles >= MaxCycle
       /\ EnterDormant(now)
       /\ UNCHANGED retry

\* clearHelloAckTimer.
ClearAck == ack' = ack \ {ackHandle} /\ ackHandle' = NoSock

Close(s) == sock' = IF s # NoSock /\ sock[s] = "open" THEN [sock EXCEPT ![s] = "closing"] ELSE sock

------------------------------------------------------------------------------
(* Searches.                                                               *)

Start ==
    /\ ~started
    /\ started' = TRUE
    /\ phase' = "discovering"
    /\ Begin(Scan, chains)
    /\ UNCHANGED <<stopped, retry, cycle, beats, beatHandle, connVars, sockVars, envVars>>

\* wake(): the page is visible again.
Wake ==
    /\ phase = "dormant" /\ ~stopped
    /\ CleanupDormant
    /\ cycle' = 0
    /\ phase' = "discovering"
    /\ Begin(WakeScan, chains)
    /\ UNCHANGED <<started, stopped, retry, connVars, sockVars, envVars>>

\* The heartbeat interval fires; it does nothing unless the client is dormant.
BeatFires ==
    /\ beats > 0 /\ phase = "dormant" /\ ~stopped
    /\ CleanupDormant
    /\ phase' = "discovering"
    /\ Begin(Beat, chains)
    /\ UNCHANGED <<started, stopped, retry, cycle, connVars, sockVars, envVars>>

RetryFires ==
    /\ retry # NoTimer
    /\ retry' = NoTimer
    /\ phase' = IF retry = Rescan THEN "discovering" ELSE phase
    /\ Begin(retry, chains)
    /\ UNCHANGED <<started, stopped, cycle, beats, beatHandle, connVars, sockVars, envVars>>

FreeSocks == {s \in Sock : sock[s] = "free" /\ s \notin listing \cup ack}

\* A probe finds the relay: activateSocket.
Found(k) ==
    /\ chains[k] > 0
    /\ relay \in Candidates(k)
    /\ FreeSocks # {}
    /\ LET s == CHOOSE f \in FreeSocks : TRUE IN
          /\ active' = s
          /\ endpoint' = relay
          /\ sock' = [sock EXCEPT ![s] = "open"]
          /\ listing' = listing \cup {s}
    /\ cycle' = 0
    /\ phase' = "idle"
    /\ End(k)
    /\ UNCHANGED <<started, stopped, retry, beats, beatHandle, accepted, cached, wire, ack,
                   ackHandle, envVars>>

\* Mutant: a heartbeat that finds nothing ends there.
Bug_NothingFound(k) ==
    LET now == IF k[1] \in {"scan", "rescan", "wake"} /\ phase = "discovering"
               THEN "idle" ELSE phase
        cycles == IF k = Rescan /\ cycle < MaxCycle THEN cycle + 1 ELSE cycle
    IN  /\ cycle' = cycles
        /\ IF k = Beat THEN phase' = "dormant" /\ UNCHANGED <<retry, beats, beatHandle>>
           ELSE IF k = WakeScan THEN EnterDormant(now) /\ UNCHANGED retry
           ELSE ScheduleRediscovery(now, cycles)

\* What follows a search that found nothing, by the kind of the search.
NothingFound(k) ==
    LET now == IF k[1] \in {"scan", "rescan", "wake"} /\ phase = "discovering"
               THEN "idle" ELSE phase
        cycles == IF k = Rescan /\ cycle < MaxCycle THEN cycle + 1 ELSE cycle
    IN  /\ cycle' = cycles
        /\ IF k \in {WakeScan, Beat} THEN EnterDormant(now) /\ UNCHANGED retry
           ELSE ScheduleRediscovery(now, cycles)

\* No candidate answers, or the relay came up behind the search or took longer
\* than PROBE_TIMEOUT_MS.
NotFound(k) ==
    /\ chains[k] > 0
    /\ IF relay \in Candidates(k) THEN Disturbance ELSE UNCHANGED churn
    /\ NothingFound(k)
    /\ End(k)
    /\ UNCHANGED <<started, stopped, connVars, sockVars, relay, strict, overlapped>>

\* reconnectRelay(): searches that are under way go on.
ReconnectRelay ==
    /\ started /\ ~stopped
    /\ \A k \in Chain : chains[k] < MaxChains
    /\ Disturbance
    /\ ClearAck
    /\ retry' = NoTimer
    /\ IF phase = "dormant" THEN CleanupDormant ELSE UNCHANGED <<beats, beatHandle>>
    /\ accepted' = FALSE
    /\ Close(active)
    /\ active' = NoSock
    /\ endpoint' = Nowhere
    /\ phase' = "discovering"
    /\ Begin(Scan, chains)
    /\ overlapped' = (overlapped \/ Searching)
    /\ UNCHANGED <<started, stopped, cycle, cached, listing, wire, relay, strict>>

\* stop(): what a search finds later it closes at once, so searches end here.
Stop ==
    /\ started /\ ~stopped
    /\ Disturbance
    /\ stopped' = TRUE
    /\ retry' = NoTimer
    /\ ClearAck
    /\ CleanupDormant
    /\ Close(active)
    /\ active' = NoSock
    /\ endpoint' = Nowhere
    /\ chains' = [k \in Chain |-> 0]
    /\ UNCHANGED <<started, phase, cycle, accepted, cached, listing, wire, relay, strict, overlapped>>

------------------------------------------------------------------------------
(* The handshake.                                                          *)

\* facade.listTools() resolves: hello, if the socket is still the active one.
ToolsListed(s) ==
    /\ s \in listing
    /\ listing' = listing \ {s}
    /\ IF active = s /\ ~stopped
       THEN /\ wire' = IF sock[s] = "open" THEN [wire EXCEPT ![s] = "hello"] ELSE wire
            /\ ack' = ack \cup {s}
            /\ ackHandle' = s
       ELSE UNCHANGED <<wire, ack, ackHandle>>
    /\ UNCHANGED <<started, stopped, searchVars, connVars, sock, envVars>>

ToolsFail(s) ==
    /\ s \in listing
    /\ Disturbance
    /\ listing' = listing \ {s}
    /\ Close(s)
    /\ UNCHANGED <<started, stopped, searchVars, connVars, wire, ack, ackHandle, relay, strict, overlapped>>

RelayAnswers(s) ==
    /\ wire[s] = "hello" /\ sock[s] = "open"
    /\ wire' = [wire EXCEPT ![s] = IF strict THEN "reject" ELSE "accept"]
    /\ UNCHANGED <<started, stopped, searchVars, connVars, sock, listing, ack, ackHandle, envVars>>

\* hello/accepted, whichever socket it came on.
HandleAccepted(s) ==
    /\ wire[s] = "accept" /\ sock[s] = "open"
    /\ wire' = [wire EXCEPT ![s] = "done"]
    /\ ClearAck
    /\ accepted' = TRUE
    /\ cached' = endpoint
    /\ UNCHANGED <<started, stopped, searchVars, active, endpoint, sock, listing, envVars>>

HandleRejected(s) ==
    /\ wire[s] = "reject" /\ sock[s] = "open"
    /\ ClearAck
    /\ accepted' = FALSE
    /\ cached' = Nowhere
    /\ Close(s)
    /\ UNCHANGED <<started, stopped, searchVars, active, endpoint, listing, wire, envVars>>

\* The acknowledgement timer of a socket; a relay that is there answers within
\* HELLO_ACK_TIMEOUT_MS unless disturbed.
AckTimeout(s) ==
    LET unanswered == active = s /\ sock[s] = "open" /\ ~accepted IN
    /\ s \in ack
    /\ ack' = ack \ {s}
    /\ ackHandle' = NoSock
    /\ IF unanswered THEN Disturbance /\ Close(s) ELSE UNCHANGED <<churn, sock>>
    /\ UNCHANGED <<started, stopped, searchVars, connVars, listing, wire, relay, strict, overlapped>>

------------------------------------------------------------------------------
(* Loss of the connection.                                                 *)

\* Mutants: the flag of the lost connection stays; the retry reads the endpoint
\* after it was cleared, and finds none.
Bug_FlagStays(s) ==
    /\ sock[s] \in {"closing", "broken"}
    /\ sock' = [sock EXCEPT ![s] = "free"]
    /\ wire' = [wire EXCEPT ![s] = "quiet"]
    /\ IF active = s /\ ~stopped
       THEN /\ active' = NoSock
            /\ endpoint' = Nowhere
            /\ retry' = IF retry = NoTimer THEN <<"retry", endpoint>> ELSE retry
       ELSE UNCHANGED <<active, endpoint, retry>>
    /\ UNCHANGED <<started, stopped, phase, chains, cycle, beats, beatHandle, accepted, cached,
                   listing, ack, ackHandle, envVars>>
Bug_ClearedFirst(s) ==
    /\ sock[s] \in {"closing", "broken"}
    /\ sock' = [sock EXCEPT ![s] = "free"]
    /\ wire' = [wire EXCEPT ![s] = "quiet"]
    /\ IF active = s /\ ~stopped
       THEN active' = NoSock /\ endpoint' = Nowhere /\ accepted' = FALSE
       ELSE UNCHANGED <<active, endpoint, accepted>>
    /\ UNCHANGED <<started, stopped, searchVars, cached, listing, ack, ackHandle, envVars>>
\* The 'close' event; only the active socket's makes the client search again.
SocketClosed(s) ==
    /\ sock[s] \in {"closing", "broken"}
    /\ sock' = [sock EXCEPT ![s] = "free"]
    /\ wire' = [wire EXCEPT ![s] = "quiet"]
    /\ IF active = s /\ ~stopped
       THEN /\ active' = NoSock
            /\ endpoint' = Nowhere
            /\ accepted' = FALSE
            /\ retry' = IF retry = NoTimer THEN <<"retry", endpoint>> ELSE retry
       ELSE UNCHANGED <<active, endpoint, accepted, retry>>
    /\ UNCHANGED <<started, stopped, phase, chains, cycle, beats, beatHandle, cached,
                   listing, ack, ackHandle, envVars>>

\* The relay closes a connection: its heartbeat does so to one that never says
\* hello, and anything else is a disturbance.
RelayDrops(s) ==
    /\ sock[s] = "open"
    /\ IF wire[s] = "quiet" /\ s \notin listing THEN UNCHANGED churn ELSE Disturbance
    /\ sock' = [sock EXCEPT ![s] = "broken"]
    /\ UNCHANGED <<started, stopped, searchVars, connVars, listing, wire, ack, ackHandle,
                   relay, strict, overlapped>>

\* The relay starts, ends, or comes back elsewhere; its connections break.
RelayMoves(e) ==
    /\ e # relay
    /\ Disturbance
    /\ relay' = e
    /\ strict' \in BOOLEAN
    /\ sock' = [s \in Sock |-> IF sock[s] = "open" THEN "broken" ELSE sock[s]]
    /\ UNCHANGED <<started, stopped, searchVars, connVars, listing, wire, ack, ackHandle, overlapped>>

------------------------------------------------------------------------------
Next ==
    \/ Start \/ Wake \/ BeatFires \/ RetryFires \/ ReconnectRelay \/ Stop
    \/ \E k \in Chain : Found(k) \/ NotFound(k)
    \/ \E s \in Sock :
          \/ ToolsListed(s) \/ ToolsFail(s) \/ RelayAnswers(s)
          \/ HandleAccepted(s) \/ HandleRejected(s) \/ AckTimeout(s)
          \/ SocketClosed(s) \/ RelayDrops(s)
    \/ \E e \in Endpoint \cup {Nowhere} : RelayMoves(e)

\* Timers fire, probes and promises settle, messages and 'close' events arrive.
Fairness ==
    /\ WF_vars(Start) /\ WF_vars(BeatFires) /\ WF_vars(RetryFires)
    /\ \A k \in Chain : WF_vars(Found(k) \/ NotFound(k))
    /\ \A s \in Sock :
          /\ WF_vars(ToolsListed(s))
          /\ WF_vars(RelayAnswers(s))
          /\ WF_vars(HandleAccepted(s) \/ HandleRejected(s))
          /\ WF_vars(AckTimeout(s))
          /\ WF_vars(SocketClosed(s))

SafetySpec == Init /\ [][Next]_vars
Spec == SafetySpec /\ Fairness

------------------------------------------------------------------------------
(* Properties.                                                             *)

TypeOK ==
    /\ started \in BOOLEAN /\ stopped \in BOOLEAN
    /\ phase \in {"idle", "discovering", "dormant"}
    /\ chains \in [Chain -> Nat]
    /\ retry \in {NoTimer, Rescan} \cup ({"retry"} \X Endpoint)
    /\ cycle \in 0 .. MaxCycle
    /\ beats \in Nat /\ beatHandle \in BOOLEAN
    /\ active \in Sock \cup {NoSock}
    /\ endpoint \in Endpoint \cup {Nowhere}
    /\ accepted \in BOOLEAN
    /\ cached \in Endpoint \cup {Nowhere}
    /\ sock \in [Sock -> {"free", "open", "closing", "broken"}]
    /\ listing \in SUBSET Sock
    /\ wire \in [Sock -> {"quiet", "hello", "accept", "reject", "done"}]
    /\ ack \in SUBSET Sock /\ ackHandle \in Sock \cup {NoSock}
    /\ relay \in Endpoint \cup {Nowhere}
    /\ strict \in BOOLEAN
    /\ churn \in 0 .. MaxDisturbances
    /\ overlapped \in BOOLEAN

\* A client that runs and has no connection is looking for one or will: a
\* search, a timer, or the heartbeat of the dormant phase is there, on every
\* path that ends one of them.  An active socket has its 'close' event to come.
NeverStranded ==
    started /\ ~stopped =>
        /\ active = NoSock =>
              Searching \/ retry # NoTimer \/ (phase = "dormant" /\ beats > 0)
        /\ active # NoSock => sock[active] # "free" /\ endpoint # Nowhere

\* The phase that start() and wake() rely on: discovering means that a search
\* is under way, dormant that a heartbeat is.
PhaseIsTrue ==
    ~stopped => /\ phase = "discovering" => Searching
                /\ phase = "dormant" => beats > 0

\* Unless the reconnect button was pressed in the middle of a search, the
\* active socket is the only one the client keeps open.
OneConnection == ~overlapped => \A s \in Sock : sock[s] = "open" => s = active

\* With the same exception, the client takes itself for accepted only while
\* its active socket is the one the relay accepted: no handshake answer of an
\* earlier socket, and no flag of a lost one, counts for the next.
AcceptedIsCurrent ==
    ~overlapped /\ accepted /\ ~stopped => active # NoSock /\ wire[active] = "done"

\* With the same exception, there is never more than one heartbeat, and none
\* without a handle by which stop() and wake() can clear it.
HeartbeatIsOwned == ~overlapped => beats = IF beatHandle THEN 1 ELSE 0

\* The client knows its connection, and the state of the search for it.
ConnectionIsTrue == OneConnection /\ AcceptedIsCurrent
SearchGoesOn == TypeOK /\ NeverStranded /\ PhaseIsTrue /\ HeartbeatIsOwned

\* When a relay that allows the client stays at the hinted endpoint, a running
\* client ends up on a connection that it and the relay take for accepted,
\* however it lost the one before.
Reconnects ==
    <>[](relay = Hint /\ ~strict) =>
        <>[](stopped \/ (accepted /\ active # NoSock /\ wire[active] = "done"))

==============================================================================
