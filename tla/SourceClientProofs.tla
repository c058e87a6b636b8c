-------------------------- MODULE SourceClientProofs --------------------------
(***************************************************************************)
(* Theorems about the relay client of a tab, for every set of endpoints,   *)
(* any number of sockets and of disturbances: the search for a relay never *)
(* ends without a successor, and what the client takes for its connection  *)
(* is the one that the relay accepted.                                     *)
(***************************************************************************)
EXTENDS SourceClient, TLAPS

\* Discovering is more than a phase: a search that will leave it is under way.
\* The heartbeat that the handle refers to runs.
PhaseHasSearch ==
    /\ ~stopped /\ phase = "discovering" => \E k \in Chain : k[1] # "retry" /\ chains[k] > 0
    /\ ~stopped /\ phase = "dormant" => beats > 0
    /\ beatHandle => beats > 0

\* A free socket has no handshake, and one that waits for the page's tools has
\* not begun its own.
HandshakeInOrder ==
    /\ \A s \in Sock : sock[s] = "free" => wire[s] = "quiet"
    /\ \A s \in listing : wire[s] = "quiet"

\* Before start() there is nothing, and after stop() nothing that would search.
NothingAround == ~Searching /\ retry = NoTimer /\ active = NoSock
QuietOutside ==
    /\ ~started => ~stopped /\ NothingAround /\ phase = "idle" /\ beats = 0 /\ ~beatHandle
    /\ stopped => NothingAround

\* The client is in one place of its life: searching, waiting to search,
\* dormant or on a connection.
OnePlace ==
    ~overlapped =>
        /\ \A k \in Chain : chains[k] <= 1
        /\ \A k, l \in Chain : chains[k] > 0 /\ chains[l] > 0 => k = l
        /\ Searching => retry = NoTimer /\ active = NoSock
        /\ retry # NoTimer => active = NoSock
        /\ ~stopped /\ phase = "dormant" => NothingAround
        /\ ~stopped /\ beatHandle => phase = "dormant"

\* What holds of the search, in spite of the reconnect button.
SearchInv == TypeOK /\ PhaseHasSearch /\ QuietOutside /\ NeverStranded

\* What holds of the connection, unless the button was pressed in a search.
ConnectionInv == HandshakeInOrder /\ OnePlace /\ HeartbeatIsOwned /\ OneConnection /\ AcceptedIsCurrent

ClientInv == SearchInv /\ ConnectionInv

------------------------------------------------------------------------------
LEMMA ChainFacts ==
    /\ Scan \in Chain /\ Rescan \in Chain /\ WakeScan \in Chain /\ Beat \in Chain
    /\ \A e \in Endpoint : <<"retry", e>> \in Chain /\ <<"retry", e>> # NoTimer
    /\ Rescan # NoTimer
    /\ Scan[1] # "retry" /\ Rescan[1] # "retry" /\ WakeScan[1] # "retry" /\ Beat[1] # "retry"
BY DEF Chain, Scan, Rescan, WakeScan, Beat, NoTimer

LEMMA CandidatesAreEndpoints ==
    ASSUME TypeOK, NEW k \in Chain
    PROVE  Candidates(k) \subseteq Endpoint
<1>1. CASE k[1] = "retry"
  BY <1>1 DEF Candidates, Chain
<1>2. CASE k[1] = "beat"
  BY <1>2, EndpointAssumption DEF Candidates, TypeOK
<1>3. CASE k[1] # "retry" /\ k[1] # "beat"
  BY <1>3 DEF Candidates
<1> QED BY <1>1, <1>2, <1>3

LEMMA InitSound == Init => ClientInv
<1> SUFFICES ASSUME Init PROVE ClientInv
  OBVIOUS
<1>1. TypeOK
  <2>1. cycle \in 0 .. MaxCycle /\ churn \in 0 .. MaxDisturbances
    BY BoundAssumption DEF Init
  <2>2. chains \in [Chain -> Nat] /\ beats \in Nat
    BY DEF Init
  <2>3. /\ sock \in [Sock -> {"free", "open", "closing", "broken"}]
        /\ wire \in [Sock -> {"quiet", "hello", "accept", "reject", "done"}]
    BY DEF Init
  <2> QED BY <2>1, <2>2, <2>3 DEF Init, TypeOK
<1>2. PhaseHasSearch /\ QuietOutside /\ NeverStranded
  BY DEF Init, PhaseHasSearch, QuietOutside, NeverStranded, NothingAround, Searching
<1>3. HandshakeInOrder /\ HeartbeatIsOwned /\ OneConnection /\ AcceptedIsCurrent
  BY DEF Init, HandshakeInOrder, HeartbeatIsOwned, OneConnection, AcceptedIsCurrent
<1>4. OnePlace
  BY DEF Init, OnePlace, NothingAround, Searching
<1> QED BY <1>1, <1>2, <1>3, <1>4 DEF ClientInv, SearchInv, ConnectionInv

------------------------------------------------------------------------------
\* Closing a socket touches none that is not open, and types it.
LEMMA CloseSound ==
    ASSUME TypeOK, NEW s \in Sock \cup {NoSock}, Close(s)
    PROVE  /\ sock' \in [Sock -> {"free", "open", "closing", "broken"}]
           /\ \A r \in Sock : /\ r # s => sock'[r] = sock[r]
                              /\ sock'[r] = "free" <=> sock[r] = "free"
                              /\ sock'[r] = "open" => r # s /\ sock[r] = "open"
BY SockAssumption DEF TypeOK, Close

LEMMA CleanupSound ==
    ASSUME TypeOK, PhaseHasSearch, CleanupDormant
    PROVE  /\ beats' \in Nat /\ beatHandle' = FALSE
           /\ HeartbeatIsOwned /\ ~overlapped => beats' = 0
BY DEF TypeOK, PhaseHasSearch, CleanupDormant, HeartbeatIsOwned

LEMMA BeginSound ==
    ASSUME TypeOK, NEW k \in Chain, Begin(k, chains)
    PROVE  /\ chains' \in [Chain -> Nat] /\ chains'[k] = chains[k] + 1 /\ chains'[k] > 0
           /\ \A l \in Chain \ {k} : chains'[l] = chains[l]
           /\ Searching'
BY DEF TypeOK, Begin, Searching

LEMMA EndSound ==
    ASSUME TypeOK, NEW k \in Chain, chains[k] > 0, End(k)
    PROVE  /\ chains' \in [Chain -> Nat] /\ chains'[k] = chains[k] - 1
           /\ \A l \in Chain \ {k} : chains'[l] = chains[l]
           /\ Searching' => Searching
BY DEF TypeOK, End, Searching

\* A search that found nothing leaves a successor, and the phase discovering.
LEMMA NothingFoundSound ==
    ASSUME TypeOK, PhaseHasSearch, ~stopped, NEW k \in Chain, NothingFound(k)
    PROVE  /\ phase' \in {"idle", "discovering", "dormant"} /\ cycle' \in 0 .. MaxCycle
           /\ retry' \in {retry, Rescan} /\ beats' \in Nat /\ beatHandle' \in BOOLEAN
           /\ phase' = "discovering" => phase = "discovering" /\ k[1] = "retry"
           /\ phase' = "dormant" => beats' > 0
           /\ beatHandle' => beats' > 0
           /\ retry' # NoTimer \/ phase' = "dormant"
           /\ retry = NoTimer /\ phase # "dormant" =>
                 \/ phase' # "dormant" /\ UNCHANGED <<beats, beatHandle>>
                 \/ phase' = "dormant" /\ retry' = NoTimer /\ beats' = beats + 1 /\ beatHandle'
<1> DEFINE now == IF k[1] \in {"scan", "rescan", "wake"} /\ phase = "discovering"
                  THEN "idle" ELSE phase
           cycles == IF k = Rescan /\ cycle < MaxCycle THEN cycle + 1 ELSE cycle
<1>1. /\ now \in {"idle", "discovering", "dormant"}
      /\ now = "dormant" <=> phase = "dormant"
      /\ now = "discovering" => phase = "discovering" /\ k[1] \in {"retry", "beat"}
      /\ cycles \in 0 .. MaxCycle
  BY BoundAssumption DEF TypeOK, Chain
<1>2. k[1] = "beat" => k = Beat
  BY DEF Chain, Beat
<1>3. cycle' = cycles
  BY DEF NothingFound
<1>4. CASE k \in {WakeScan, Beat}
  <2>1. EnterDormant(now) /\ retry' = retry
    BY <1>4 DEF NothingFound
  <2> HIDE DEF now, cycles
  <2>2. CASE phase = "dormant"
    <3>1. phase' = "dormant" /\ beats' = beats /\ beatHandle' = beatHandle
      BY <1>1, <2>1, <2>2 DEF EnterDormant
    <3> QED BY <1>1, <1>3, <2>1, <2>2, <3>1 DEF TypeOK, PhaseHasSearch
  <2>3. CASE phase # "dormant"
    <3>1. phase' = "dormant" /\ beats' = beats + 1 /\ beatHandle' = TRUE
      BY <1>1, <2>1, <2>3 DEF EnterDormant
    <3> QED BY <1>1, <1>3, <2>1, <3>1 DEF TypeOK
  <2> QED BY <2>2, <2>3
<1>5. CASE k \notin {WakeScan, Beat}
  <2>1. ScheduleRediscovery(now, cycles)
    BY <1>5 DEF NothingFound
  <2> HIDE DEF now, cycles
  <2>2. now = "discovering" => k[1] = "retry"
    BY <1>1, <1>2, <1>5
  <2>3. Rescan # NoTimer
    BY ChainFacts
  <2>4. CASE retry # NoTimer \/ cycles < MaxCycle
    BY <1>1, <1>3, <2>1, <2>2, <2>3, <2>4, BoundAssumption
       DEF ScheduleRediscovery, TypeOK, PhaseHasSearch
  <2>5. CASE retry = NoTimer /\ cycles >= MaxCycle
    <3>1. EnterDormant(now) /\ retry' = retry
      BY <1>1, <2>1, <2>5, BoundAssumption DEF ScheduleRediscovery
    <3>2. CASE phase = "dormant"
      <4>1. phase' = "dormant" /\ beats' = beats /\ beatHandle' = beatHandle
        BY <1>1, <3>1, <3>2 DEF EnterDormant
      <4> QED BY <1>1, <1>3, <3>1, <3>2, <4>1 DEF TypeOK, PhaseHasSearch
    <3>3. CASE phase # "dormant"
      <4>1. phase' = "dormant" /\ beats' = beats + 1 /\ beatHandle' = TRUE
        BY <1>1, <3>1, <3>3 DEF EnterDormant
      <4> QED BY <1>1, <1>3, <2>5, <3>1, <4>1 DEF TypeOK
    <3> QED BY <3>2, <3>3
  <2> QED BY <1>1, <2>4, <2>5, BoundAssumption
<1> QED BY <1>4, <1>5

\* A search is under way only in a client that was started and not stopped.
LEMMA SearchersRun ==
    ASSUME QuietOutside, NEW k \in Chain, chains[k] > 0
    PROVE  started /\ ~stopped
BY DEF QuietOutside, NothingAround, Searching

\* Every step keeps the types.
LEMMA TypeStep ==
    ASSUME ClientInv, [Next]_vars
    PROVE  TypeOK'
<1> USE DEF ClientInv, SearchInv
<1>1. ASSUME Start \/ Wake \/ BeatFires \/ RetryFires PROVE TypeOK'
  <2>1. CASE Start
    BY <2>1, BeginSound, ChainFacts DEF Start, TypeOK, connVars, sockVars, envVars
  <2>2. CASE Wake
    <3>1. chains' \in [Chain -> Nat]
      BY <2>2, BeginSound, ChainFacts DEF Wake
    <3>2. beats' \in Nat /\ beatHandle' = FALSE
      BY <2>2, CleanupSound DEF Wake
    <3>3. cycle' \in 0 .. MaxCycle
      BY <2>2, BoundAssumption DEF Wake
    <3> QED BY <2>2, <3>1, <3>2, <3>3 DEF Wake, TypeOK, connVars, sockVars, envVars
  <2>3. CASE BeatFires
    BY <2>3, BeginSound, CleanupSound, ChainFacts DEF BeatFires, TypeOK, connVars, sockVars, envVars
  <2>4. CASE RetryFires
    <3>1. retry \in Chain
      BY <2>4, ChainFacts DEF RetryFires, TypeOK
    <3> QED BY <2>4, <3>1, BeginSound DEF RetryFires, TypeOK, connVars, sockVars, envVars
  <2> QED BY <1>1, <2>1, <2>2, <2>3, <2>4
<1>2. ASSUME NEW k \in Chain, Found(k) PROVE TypeOK'
  <2>1. PICK s \in Sock : /\ active' = s /\ sock' = [sock EXCEPT ![s] = "open"]
                          /\ listing' = listing \cup {s}
    BY <1>2 DEF Found, FreeSocks
  <2>2. chains' \in [Chain -> Nat]
    BY <1>2, EndSound DEF Found
  <2> QED BY <1>2, <2>1, <2>2, BoundAssumption DEF Found, TypeOK, envVars
<1>3. ASSUME NEW k \in Chain, NotFound(k) PROVE TypeOK'
  <2>1. chains' \in [Chain -> Nat] /\ ~stopped
    BY <1>3, EndSound, SearchersRun DEF NotFound
  <2>2. churn' \in 0 .. MaxDisturbances
    BY <1>3, BoundAssumption DEF NotFound, Disturbance, TypeOK
  <2>3. NothingFound(k)
    BY <1>3 DEF NotFound
  <2>4. /\ phase' \in {"idle", "discovering", "dormant"} /\ cycle' \in 0 .. MaxCycle
        /\ retry' \in {retry, Rescan} /\ beats' \in Nat /\ beatHandle' \in BOOLEAN
    BY <2>1, <2>3, NothingFoundSound
  <2> QED BY <1>3, <2>1, <2>2, <2>4 DEF NotFound, TypeOK, connVars, sockVars
<1>4. ASSUME ReconnectRelay \/ Stop PROVE TypeOK'
  <2>1. churn' \in 0 .. MaxDisturbances
    BY <1>4, BoundAssumption DEF ReconnectRelay, Stop, Disturbance, TypeOK
  <2>2. sock' \in [Sock -> {"free", "open", "closing", "broken"}]
    BY <1>4, CloseSound DEF ReconnectRelay, Stop, TypeOK
  <2>3. chains' \in [Chain -> Nat]
    BY <1>4, BeginSound, ChainFacts DEF ReconnectRelay, Stop
  <2>4. beats' \in Nat /\ beatHandle' \in BOOLEAN
    BY <1>4, CleanupSound DEF ReconnectRelay, Stop, TypeOK
  <2>5. ack' \in SUBSET Sock /\ ackHandle' = NoSock
    BY <1>4 DEF ReconnectRelay, Stop, ClearAck, TypeOK
  <2>6. CASE ReconnectRelay
    BY <2>1, <2>2, <2>3, <2>4, <2>5, <2>6 DEF ReconnectRelay, TypeOK, Searching
  <2>7. CASE Stop
    BY <2>1, <2>2, <2>3, <2>4, <2>5, <2>7 DEF Stop, TypeOK
  <2> QED BY <1>4, <2>6, <2>7
<1>5. ASSUME NEW s \in Sock, ToolsListed(s) \/ RelayAnswers(s) PROVE TypeOK'
  BY <1>5 DEF ToolsListed, RelayAnswers, TypeOK, searchVars, connVars, envVars
<1>6. ASSUME NEW s \in Sock, ToolsFail(s) PROVE TypeOK'
  <2>1. churn' \in 0 .. MaxDisturbances
    BY <1>6, BoundAssumption DEF ToolsFail, Disturbance, TypeOK
  <2>2. sock' \in [Sock -> {"free", "open", "closing", "broken"}]
    BY <1>6, CloseSound DEF ToolsFail
  <2> QED BY <1>6, <2>1, <2>2 DEF ToolsFail, TypeOK, searchVars, connVars
<1>7. ASSUME NEW s \in Sock, HandleAccepted(s) PROVE TypeOK'
  BY <1>7 DEF HandleAccepted, ClearAck, TypeOK, searchVars, envVars
<1>8. ASSUME NEW s \in Sock, HandleRejected(s) PROVE TypeOK'
  <2>1. sock' \in [Sock -> {"free", "open", "closing", "broken"}]
    BY <1>8, CloseSound DEF HandleRejected
  <2> QED BY <1>8, <2>1 DEF HandleRejected, ClearAck, TypeOK, searchVars, envVars
<1>9. ASSUME NEW s \in Sock, AckTimeout(s) PROVE TypeOK'
  <2>1. /\ churn' \in 0 .. MaxDisturbances
        /\ sock' \in [Sock -> {"free", "open", "closing", "broken"}]
    BY <1>9, CloseSound, BoundAssumption DEF AckTimeout, Disturbance, TypeOK
  <2> QED BY <1>9, <2>1 DEF AckTimeout, TypeOK, searchVars, connVars
<1>10. ASSUME NEW s \in Sock, SocketClosed(s) PROVE TypeOK'
  <2>1. retry' \in {NoTimer, Rescan} \cup ({"retry"} \X Endpoint)
    <3>1. CASE active = s /\ ~stopped
      <4>1. started
        BY <3>1, SockAssumption DEF QuietOutside, NothingAround
      <4>2. endpoint \in Endpoint
        BY <3>1, <4>1, SockAssumption DEF NeverStranded, TypeOK
      <4>3. retry' \in {retry, <<"retry", endpoint>>}
        BY <1>10, <3>1 DEF SocketClosed
      <4> QED BY <4>2, <4>3 DEF TypeOK
    <3>2. CASE ~(active = s /\ ~stopped)
      BY <1>10, <3>2 DEF SocketClosed, TypeOK
    <3> QED BY <3>1, <3>2
  <2> QED BY <1>10, <2>1 DEF SocketClosed, TypeOK, envVars
<1>11. ASSUME NEW s \in Sock, RelayDrops(s) PROVE TypeOK'
  BY <1>11, BoundAssumption DEF RelayDrops, Disturbance, TypeOK, searchVars, connVars
<1>12. ASSUME NEW e \in Endpoint \cup {Nowhere}, RelayMoves(e) PROVE TypeOK'
  BY <1>12, BoundAssumption DEF RelayMoves, Disturbance, TypeOK, searchVars, connVars
<1>13. ASSUME UNCHANGED vars PROVE TypeOK'
  BY <1>13 DEF vars, TypeOK, searchVars, connVars, sockVars, envVars
<1> QED BY <1>1, <1>2, <1>3, <1>4, <1>5, <1>6, <1>7, <1>8, <1>9, <1>10, <1>11, <1>12, <1>13
        DEF Next

\* A step that leaves the search alone, and neither takes the active socket
\* away nor frees it, keeps that the search goes on.
LEMMA SearchFrame ==
    ASSUME SearchInv, UNCHANGED <<started, stopped, searchVars, active, endpoint>>,
           active # NoSock => sock[active] = "free" \/ sock'[active] # "free"
    PROVE  PhaseHasSearch' /\ QuietOutside' /\ NeverStranded'
BY DEF SearchInv, PhaseHasSearch, QuietOutside, NeverStranded, NothingAround, Searching, searchVars

\* Every step keeps that the search goes on.
LEMMA SearchStep ==
    ASSUME ClientInv, [Next]_vars
    PROVE  PhaseHasSearch' /\ QuietOutside' /\ NeverStranded'
<1> DEFINE Goal == PhaseHasSearch /\ QuietOutside /\ NeverStranded
<1> USE DEF ClientInv, SearchInv
<1>1. ASSUME Start PROVE Goal'
  <2>1. chains'[Scan] > 0 /\ Searching'
    BY <1>1, BeginSound, ChainFacts DEF Start
  <2> QED BY <1>1, <2>1, ChainFacts
      DEF Start, PhaseHasSearch, QuietOutside, NeverStranded, NothingAround, connVars, sockVars
<1>2. ASSUME NEW k \in {WakeScan, Beat}, Wake \/ BeatFires, Begin(k, chains) PROVE Goal'
  <2>1. k \in Chain /\ k[1] # "retry" /\ chains'[k] > 0 /\ Searching'
    BY <1>2, BeginSound, ChainFacts
  <2>2. beatHandle' = FALSE /\ phase' = "discovering" /\ ~stopped
    BY <1>2, CleanupSound DEF Wake, BeatFires
  <2>3. UNCHANGED <<started, stopped, retry, active, endpoint, sock>>
    BY <1>2 DEF Wake, BeatFires, connVars, sockVars
  <2>4. started
    BY <1>2 DEF Wake, BeatFires, QuietOutside
  <2> QED BY <2>1, <2>2, <2>3, <2>4 DEF PhaseHasSearch, QuietOutside, NeverStranded
<1>3. ASSUME RetryFires PROVE Goal'
  <2>1. started /\ ~stopped
    BY <1>3 DEF RetryFires, QuietOutside, NothingAround
  <2>2. retry \in Chain
    BY <1>3, ChainFacts DEF RetryFires, TypeOK
  <2>3. chains'[retry] > 0 /\ Searching' /\ \A l \in Chain : chains[l] > 0 => chains'[l] > 0
    BY <1>3, <2>2, BeginSound DEF RetryFires, TypeOK
  <2>4. phase' = IF retry = Rescan THEN "discovering" ELSE phase
    BY <1>3 DEF RetryFires
  <2>5. UNCHANGED <<started, stopped, beats, beatHandle, active, endpoint, sock>>
    BY <1>3 DEF RetryFires, connVars, sockVars
  <2>6. PhaseHasSearch'
    BY <2>1, <2>2, <2>3, <2>4, <2>5, ChainFacts DEF PhaseHasSearch
  <2> QED BY <2>1, <2>3, <2>5, <2>6 DEF QuietOutside, NeverStranded
<1>4. ASSUME NEW k \in Chain, Found(k) PROVE Goal'
  <2>1. started /\ ~stopped
    BY <1>4, SearchersRun DEF Found
  <2>2. PICK s \in Sock : active' = s /\ sock' = [sock EXCEPT ![s] = "open"]
    BY <1>4 DEF Found, FreeSocks
  <2>3. endpoint' # Nowhere
    BY <1>4, CandidatesAreEndpoints, EndpointAssumption DEF Found
  <2>4. sock'[active'] # "free" /\ active' # NoSock
    BY <2>2, SockAssumption DEF TypeOK
  <2> QED BY <1>4, <2>1, <2>3, <2>4 DEF Found, PhaseHasSearch, QuietOutside, NeverStranded
<1>5. ASSUME NEW k \in Chain, NotFound(k) PROVE Goal'
  <2>1. started /\ ~stopped
    BY <1>5, SearchersRun DEF NotFound
  <2>2. \A l \in Chain \ {k} : chains'[l] = chains[l]
    BY <1>5, EndSound DEF NotFound
  <2>3. NothingFound(k) /\ UNCHANGED <<started, stopped, active, endpoint, sock>>
    BY <1>5 DEF NotFound, connVars, sockVars
  <2>4. /\ phase' = "discovering" => phase = "discovering" /\ k[1] = "retry"
        /\ phase' = "dormant" => beats' > 0
        /\ beatHandle' => beats' > 0
        /\ retry' # NoTimer \/ phase' = "dormant"
    BY <2>1, <2>3, NothingFoundSound
  <2>5. PhaseHasSearch'
    BY <2>1, <2>2, <2>3, <2>4 DEF PhaseHasSearch
  <2> QED BY <2>1, <2>3, <2>4, <2>5 DEF PhaseHasSearch, QuietOutside, NeverStranded
<1>6. ASSUME ReconnectRelay PROVE Goal'
  <2>1. chains'[Scan] > 0 /\ Searching'
    BY <1>6, BeginSound, ChainFacts DEF ReconnectRelay
  <2>2. beatHandle' => beats' > 0
    BY <1>6, CleanupSound DEF ReconnectRelay, PhaseHasSearch
  <2> QED BY <1>6, <2>1, <2>2, ChainFacts DEF ReconnectRelay, PhaseHasSearch, QuietOutside, NeverStranded
<1>7. ASSUME Stop PROVE Goal'
  <2>1. ~Searching' /\ retry' = NoTimer /\ active' = NoSock /\ started' /\ stopped'
    BY <1>7 DEF Stop, Searching
  <2>2. beatHandle' = FALSE
    BY <1>7, CleanupSound DEF Stop
  <2> QED BY <2>1, <2>2 DEF PhaseHasSearch, QuietOutside, NeverStranded, NothingAround
<1>8. ASSUME NEW s \in Sock, \/ ToolsListed(s) \/ ToolsFail(s) \/ RelayAnswers(s) \/ HandleAccepted(s)
                             \/ HandleRejected(s) \/ AckTimeout(s) \/ RelayDrops(s)
      PROVE  Goal'
  <2>1. UNCHANGED <<started, stopped, searchVars, active, endpoint>>
    BY <1>8 DEF ToolsListed, ToolsFail, RelayAnswers, HandleAccepted, HandleRejected, AckTimeout,
                RelayDrops, connVars
  <2>2. \A r \in Sock : sock'[r] = "free" <=> sock[r] = "free"
    <3>1. CASE ToolsFail(s) \/ HandleRejected(s) \/ AckTimeout(s)
      BY <3>1, CloseSound DEF ToolsFail, HandleRejected, AckTimeout
    <3>2. CASE ToolsListed(s) \/ RelayAnswers(s) \/ HandleAccepted(s) \/ RelayDrops(s)
      BY <3>2 DEF ToolsListed, RelayAnswers, HandleAccepted, RelayDrops, TypeOK
    <3> QED BY <1>8, <3>1, <3>2
  <2> QED BY <2>1, <2>2, SearchFrame DEF TypeOK
<1>9. ASSUME NEW s \in Sock, SocketClosed(s) PROVE Goal'
  <2>1. CASE active = s /\ ~stopped
    <3>1. started
      BY <2>1, SockAssumption DEF QuietOutside, NothingAround
    <3>2. active' = NoSock /\ retry' = IF retry = NoTimer THEN <<"retry", endpoint>> ELSE retry
      BY <1>9, <2>1 DEF SocketClosed
    <3>3. retry' # NoTimer
      BY <3>2 DEF NoTimer
    <3>4. UNCHANGED <<started, stopped, phase, chains, beats, beatHandle>>
      BY <1>9 DEF SocketClosed
    <3> QED BY <2>1, <3>1, <3>2, <3>3, <3>4 DEF PhaseHasSearch, QuietOutside, NeverStranded
  <2>2. CASE ~(active = s /\ ~stopped)
    <3>1. UNCHANGED <<started, stopped, searchVars, active, endpoint>>
      BY <1>9, <2>2 DEF SocketClosed, searchVars
    <3>2. active # NoSock => sock'[active] = sock[active]
      BY <1>9, <2>2 DEF SocketClosed, TypeOK, QuietOutside, NothingAround
    <3> QED BY <3>1, <3>2, SearchFrame
  <2> QED BY <2>1, <2>2
<1>10. ASSUME NEW e \in Endpoint \cup {Nowhere}, RelayMoves(e) PROVE Goal'
  <2>1. UNCHANGED <<started, stopped, searchVars, active, endpoint>>
    BY <1>10 DEF RelayMoves, connVars
  <2>2. \A r \in Sock : sock'[r] = "free" <=> sock[r] = "free"
    BY <1>10 DEF RelayMoves, TypeOK
  <2> QED BY <2>1, <2>2, SearchFrame DEF TypeOK
<1>11. ASSUME UNCHANGED vars PROVE Goal'
  BY <1>11, SearchFrame DEF vars, connVars, sockVars
<1>12. ASSUME Wake \/ BeatFires PROVE Goal'
  BY <1>12, <1>2 DEF Wake, BeatFires
<1> QED BY <1>1, <1>3, <1>4, <1>5, <1>6, <1>7, <1>8, <1>9, <1>10, <1>11, <1>12 DEF Next

\* A step that leaves the search alone keeps the client in its place.
LEMMA PlaceFrame ==
    ASSUME OnePlace, HeartbeatIsOwned, UNCHANGED <<stopped, searchVars, overlapped>>,
           active' \in {active, NoSock}
    PROVE  OnePlace' /\ HeartbeatIsOwned'
BY DEF OnePlace, HeartbeatIsOwned, NothingAround, Searching, searchVars

\* Every step keeps the client in one place, and its heartbeat owned.
LEMMA PlaceStep ==
    ASSUME ClientInv, [Next]_vars
    PROVE  OnePlace' /\ HeartbeatIsOwned'
<1> DEFINE Goal == OnePlace /\ HeartbeatIsOwned
<1> USE DEF ClientInv, SearchInv, ConnectionInv
<1>1. ASSUME Start PROVE Goal'
  <2>1. NothingAround /\ phase = "idle" /\ beats = 0 /\ ~beatHandle /\ ~stopped
    BY <1>1 DEF Start, QuietOutside
  <2>2. chains'[Scan] = chains[Scan] + 1 /\ \A l \in Chain \ {Scan} : chains'[l] = chains[l]
    BY <1>1, BeginSound, ChainFacts DEF Start
  <2>3. \A l \in Chain : chains[l] = 0
    BY <2>1 DEF NothingAround, Searching, TypeOK
  <2> QED BY <1>1, <2>1, <2>2, <2>3, ChainFacts
      DEF Start, OnePlace, HeartbeatIsOwned, NothingAround, Searching, connVars, envVars
<1>2. ASSUME NEW k \in {WakeScan, Beat}, Wake \/ BeatFires, Begin(k, chains), ~overlapped PROVE Goal'
  <2>1. NothingAround /\ ~stopped
    BY <1>2 DEF Wake, BeatFires, OnePlace
  <2>2. k \in Chain /\ chains'[k] = chains[k] + 1 /\ \A l \in Chain \ {k} : chains'[l] = chains[l]
    BY <1>2, BeginSound, ChainFacts
  <2>3. \A l \in Chain : chains[l] = 0
    BY <2>1 DEF NothingAround, Searching, TypeOK
  <2>4. beatHandle' = FALSE /\ beats' = 0
    BY <1>2, CleanupSound DEF Wake, BeatFires
  <2>5. phase' = "discovering" /\ UNCHANGED <<stopped, retry, active, overlapped>>
    BY <1>2 DEF Wake, BeatFires, connVars, envVars
  <2> QED BY <2>1, <2>2, <2>3, <2>4, <2>5 DEF OnePlace, HeartbeatIsOwned, NothingAround
<1>3. ASSUME RetryFires, ~overlapped PROVE Goal'
  <2>1. ~Searching /\ active = NoSock /\ ~stopped /\ phase # "dormant"
    BY <1>3 DEF RetryFires, OnePlace, QuietOutside, NothingAround
  <2>2. retry \in Chain
    BY <1>3, ChainFacts DEF RetryFires, TypeOK
  <2>3. chains'[retry] = chains[retry] + 1 /\ \A l \in Chain \ {retry} : chains'[l] = chains[l]
    BY <1>3, <2>2, BeginSound DEF RetryFires, TypeOK
  <2>4. \A l \in Chain : chains[l] = 0
    BY <2>1 DEF Searching, TypeOK
  <2>5. phase' # "dormant" /\ retry' = NoTimer
    BY <1>3, <2>1 DEF RetryFires
  <2>6. UNCHANGED <<stopped, beats, beatHandle, active, overlapped>>
    BY <1>3 DEF RetryFires, connVars, envVars
  <2> QED BY <2>1, <2>2, <2>3, <2>4, <2>5, <2>6 DEF OnePlace, HeartbeatIsOwned
<1>4. ASSUME NEW k \in Chain, Found(k), ~overlapped PROVE Goal'
  <2>1. retry = NoTimer /\ chains[k] = 1 /\ ~stopped /\ phase # "dormant"
    BY <1>4, SearchersRun DEF Found, OnePlace, NothingAround, Searching, TypeOK
  <2>2. \A l \in Chain : chains'[l] = 0
    BY <1>4, <2>1, EndSound DEF Found, OnePlace, TypeOK
  <2>3. phase' = "idle" /\ UNCHANGED <<stopped, retry, beats, beatHandle, overlapped>>
    BY <1>4 DEF Found, envVars
  <2> QED BY <2>1, <2>2, <2>3 DEF OnePlace, HeartbeatIsOwned, Searching
<1>5. ASSUME NEW k \in Chain, NotFound(k), ~overlapped PROVE Goal'
  <2>1. retry = NoTimer /\ active = NoSock /\ chains[k] = 1 /\ ~stopped /\ phase # "dormant"
    BY <1>5, SearchersRun DEF NotFound, OnePlace, NothingAround, Searching, TypeOK
  <2>2. \A l \in Chain : chains'[l] = 0
    BY <1>5, <2>1, EndSound DEF NotFound, OnePlace, TypeOK
  <2>3. UNCHANGED <<stopped, active, overlapped>> /\ NothingFound(k)
    BY <1>5 DEF NotFound, connVars
  <2>4. \/ phase' # "dormant" /\ UNCHANGED <<beats, beatHandle>>
        \/ phase' = "dormant" /\ retry' = NoTimer /\ beats' = beats + 1 /\ beatHandle'
    BY <2>1, <2>3, NothingFoundSound
  <2>5. beats = 0 /\ ~beatHandle
    BY <1>5, <2>1 DEF OnePlace, HeartbeatIsOwned
  <2> QED BY <2>1, <2>2, <2>3, <2>4, <2>5 DEF OnePlace, HeartbeatIsOwned, NothingAround, Searching
<1>6. ASSUME ReconnectRelay, ~overlapped' PROVE Goal'
  <2>1. ~overlapped /\ ~Searching /\ ~stopped
    BY <1>6 DEF ReconnectRelay
  <2>2. chains'[Scan] = chains[Scan] + 1 /\ \A l \in Chain \ {Scan} : chains'[l] = chains[l]
    BY <1>6, BeginSound, ChainFacts DEF ReconnectRelay
  <2>3. \A l \in Chain : chains[l] = 0
    BY <2>1 DEF Searching, TypeOK
  <2>4. beatHandle' = FALSE /\ beats' = 0
    BY <1>6, <2>1, CleanupSound DEF ReconnectRelay, OnePlace, HeartbeatIsOwned, TypeOK
  <2> QED BY <1>6, <2>1, <2>2, <2>3, <2>4 DEF ReconnectRelay, OnePlace, HeartbeatIsOwned
<1>7. ASSUME Stop, ~overlapped PROVE Goal'
  <2>1. beatHandle' = FALSE /\ beats' = 0
    BY <1>7, CleanupSound DEF Stop
  <2>2. \A l \in Chain : chains'[l] = 0
    BY <1>7 DEF Stop
  <2> QED BY <1>7, <2>1, <2>2 DEF Stop, OnePlace, HeartbeatIsOwned, Searching
<1>8. ASSUME NEW s \in Sock, \/ ToolsListed(s) \/ ToolsFail(s) \/ RelayAnswers(s) \/ HandleAccepted(s)
                             \/ HandleRejected(s) \/ AckTimeout(s) \/ RelayDrops(s)
      PROVE  Goal'
  <2>1. UNCHANGED <<stopped, searchVars, active, overlapped>>
    BY <1>8 DEF ToolsListed, ToolsFail, RelayAnswers, HandleAccepted, HandleRejected, AckTimeout,
                RelayDrops, connVars, envVars
  <2> QED BY <2>1, PlaceFrame
<1>9. ASSUME NEW s \in Sock, SocketClosed(s) PROVE Goal'
  <2>1. CASE active = s /\ ~stopped /\ ~overlapped
    <3>1. ~Searching /\ phase # "dormant"
      BY <2>1, SockAssumption DEF OnePlace, NothingAround
    <3>2. active' = NoSock /\ UNCHANGED <<stopped, phase, chains, beats, beatHandle, overlapped>>
      BY <1>9, <2>1 DEF SocketClosed, envVars
    <3> QED BY <2>1, <3>1, <3>2 DEF OnePlace, HeartbeatIsOwned, Searching
  <2>2. CASE ~(active = s /\ ~stopped)
    <3>1. UNCHANGED <<stopped, searchVars, active, overlapped>>
      BY <1>9, <2>2 DEF SocketClosed, searchVars, envVars
    <3> QED BY <3>1, PlaceFrame
  <2>3. CASE overlapped
    BY <1>9, <2>3 DEF SocketClosed, envVars, OnePlace, HeartbeatIsOwned
  <2> QED BY <2>1, <2>2, <2>3
<1>10. ASSUME NEW e \in Endpoint \cup {Nowhere}, RelayMoves(e) PROVE Goal'
  BY <1>10, PlaceFrame DEF RelayMoves, connVars
<1>11. ASSUME UNCHANGED vars PROVE Goal'
  BY <1>11, PlaceFrame DEF vars, connVars, envVars
<1>12. ASSUME overlapped' PROVE Goal'
  BY <1>12 DEF OnePlace, HeartbeatIsOwned
<1>13. Next /\ overlapped => overlapped'
  BY DEF Next, Start, Wake, BeatFires, RetryFires, ReconnectRelay, Stop, Found, NotFound, ToolsListed,
         ToolsFail, RelayAnswers, HandleAccepted, HandleRejected, AckTimeout, SocketClosed, RelayDrops,
         RelayMoves, envVars
<1>14. ASSUME Wake \/ BeatFires, ~overlapped PROVE Goal'
  BY <1>14, <1>2 DEF Wake, BeatFires
<1> QED BY <1>1, <1>3, <1>4, <1>5, <1>6, <1>7, <1>8, <1>9, <1>10, <1>11, <1>12, <1>13, <1>14 DEF Next

\* A step that opens no socket, changes no handshake and neither accepts nor
\* gives up the active socket keeps what is known of the connection.
LEMMA ConnectionFrame ==
    ASSUME ConnectionInv, UNCHANGED <<active, wire>>, overlapped => overlapped',
           stopped => stopped', listing' \subseteq listing,
           accepted' => accepted,
           \A s \in Sock : sock'[s] = "free" => sock[s] = "free",
           \A s \in Sock : sock'[s] = "open" => sock[s] = "open"
    PROVE  HandshakeInOrder' /\ OneConnection' /\ AcceptedIsCurrent'
BY DEF ConnectionInv, HandshakeInOrder, OneConnection, AcceptedIsCurrent

\* Every step keeps that the client knows its connection.
LEMMA ConnectionStep ==
    ASSUME ClientInv, [Next]_vars
    PROVE  HandshakeInOrder' /\ OneConnection' /\ AcceptedIsCurrent'
<1> DEFINE Goal == HandshakeInOrder /\ OneConnection /\ AcceptedIsCurrent
<1> USE DEF ClientInv, SearchInv, ConnectionInv
<1>1. ASSUME Start \/ Wake \/ BeatFires \/ RetryFires PROVE Goal'
  BY <1>1, ConnectionFrame DEF Start, Wake, BeatFires, RetryFires, connVars, sockVars, envVars
<1>2. ASSUME NEW k \in Chain, Found(k) PROVE Goal'
  <2>1. PICK s \in Sock : /\ active' = s /\ sock' = [sock EXCEPT ![s] = "open"]
                          /\ listing' = listing \cup {s} /\ sock[s] = "free"
    BY <1>2 DEF Found, FreeSocks
  <2>2. UNCHANGED <<stopped, wire, accepted, overlapped>>
    BY <1>2 DEF Found, envVars
  <2>3. HandshakeInOrder'
    BY <2>1, <2>2 DEF HandshakeInOrder, TypeOK
  <2>4. ~overlapped => active = NoSock
    BY <1>2 DEF Found, OnePlace, Searching
  <2>5. ~stopped
    BY <1>2, SearchersRun DEF Found
  <2> QED BY <2>1, <2>2, <2>3, <2>4, <2>5, SockAssumption DEF OneConnection, AcceptedIsCurrent, TypeOK
<1>3. ASSUME NEW k \in Chain, NotFound(k) PROVE Goal'
  BY <1>3, ConnectionFrame DEF NotFound, connVars, sockVars
<1>4. ASSUME ReconnectRelay \/ Stop PROVE Goal'
  <2>1. Close(active) /\ active' = NoSock /\ UNCHANGED <<listing, wire>>
    BY <1>4 DEF ReconnectRelay, Stop
  <2>2. \A r \in Sock : /\ sock'[r] = "free" <=> sock[r] = "free"
                        /\ sock'[r] = "open" => r # active /\ sock[r] = "open"
    BY <2>1, CloseSound DEF TypeOK
  <2>3. overlapped => overlapped'
    BY <1>4, Zenon DEF ReconnectRelay, Stop
  <2>4. stopped' \/ ~accepted'
    BY <1>4, Zenon DEF ReconnectRelay, Stop
  <2> QED BY <2>1, <2>2, <2>3, <2>4 DEF HandshakeInOrder, OneConnection, AcceptedIsCurrent
<1>5. ASSUME NEW s \in Sock, ToolsListed(s) PROVE Goal'
  <2>1. /\ s \in listing /\ listing' = listing \ {s} /\ wire[s] = "quiet"
        /\ UNCHANGED <<stopped, active, accepted, sock, overlapped>>
    BY <1>5 DEF ToolsListed, connVars, envVars, HandshakeInOrder
  <2>2. wire' = wire \/ (sock[s] = "open" /\ wire' = [wire EXCEPT ![s] = "hello"])
    BY <1>5 DEF ToolsListed
  <2> QED BY <2>1, <2>2 DEF HandshakeInOrder, OneConnection, AcceptedIsCurrent, TypeOK
<1>6. ASSUME NEW s \in Sock, ToolsFail(s) \/ AckTimeout(s) \/ HandleRejected(s) PROVE Goal'
  <2>1. \A r \in Sock : /\ sock'[r] = "free" => sock[r] = "free"
                        /\ sock'[r] = "open" => sock[r] = "open"
    BY <1>6, CloseSound DEF ToolsFail, AckTimeout, HandleRejected
  <2> QED BY <1>6, <2>1, ConnectionFrame DEF ToolsFail, AckTimeout, HandleRejected, connVars, envVars
<1>7. ASSUME NEW s \in Sock, RelayAnswers(s) PROVE Goal'
  <2>1. /\ wire[s] = "hello" /\ sock[s] = "open"
        /\ \A r \in Sock \ {s} : wire'[r] = wire[r]
        /\ UNCHANGED <<stopped, active, accepted, sock, listing, overlapped>>
    BY <1>7 DEF RelayAnswers, connVars, envVars, TypeOK
  <2> QED BY <2>1 DEF HandshakeInOrder, OneConnection, AcceptedIsCurrent, TypeOK
<1>8. ASSUME NEW s \in Sock, HandleAccepted(s) PROVE Goal'
  <2>1. /\ sock[s] = "open" /\ wire[s] = "accept" /\ wire' = [wire EXCEPT ![s] = "done"]
        /\ UNCHANGED <<stopped, active, sock, listing, overlapped>>
    BY <1>8 DEF HandleAccepted, envVars
  <2>2. ~overlapped => active = s
    BY <2>1 DEF OneConnection
  <2> QED BY <2>1, <2>2, SockAssumption DEF HandshakeInOrder, OneConnection, AcceptedIsCurrent, TypeOK
<1>9. ASSUME NEW s \in Sock, SocketClosed(s) PROVE Goal'
  <2>1. /\ sock[s] \in {"closing", "broken"} /\ sock' = [sock EXCEPT ![s] = "free"]
        /\ wire' = [wire EXCEPT ![s] = "quiet"] /\ UNCHANGED <<stopped, listing, overlapped>>
    BY <1>9 DEF SocketClosed, envVars
  <2>2. HandshakeInOrder'
    BY <2>1 DEF HandshakeInOrder, TypeOK
  <2>3. CASE active = s /\ ~stopped
    <3>1. active' = NoSock /\ accepted' = FALSE
      BY <1>9, <2>3 DEF SocketClosed
    <3> QED BY <2>1, <2>2, <2>3, <3>1 DEF OneConnection, AcceptedIsCurrent, TypeOK
  <2>4. CASE ~(active = s /\ ~stopped)
    <3>1. UNCHANGED <<active, accepted>>
      BY <1>9, <2>4 DEF SocketClosed
    <3> QED BY <2>1, <2>2, <2>4, <3>1 DEF OneConnection, AcceptedIsCurrent, TypeOK
  <2> QED BY <2>3, <2>4
<1>10. ASSUME NEW s \in Sock, RelayDrops(s) PROVE Goal'
  <2>1. \A r \in Sock : /\ sock'[r] = "free" => sock[r] = "free"
                        /\ sock'[r] = "open" => sock[r] = "open"
    BY <1>10 DEF RelayDrops, TypeOK
  <2> QED BY <1>10, <2>1, ConnectionFrame DEF RelayDrops, connVars
<1>11. ASSUME NEW e \in Endpoint \cup {Nowhere}, RelayMoves(e) PROVE Goal'
  <2>1. \A r \in Sock : /\ sock'[r] = "free" => sock[r] = "free"
                        /\ sock'[r] = "open" => sock[r] = "open"
    BY <1>11 DEF RelayMoves, TypeOK
  <2> QED BY <1>11, <2>1, ConnectionFrame DEF RelayMoves, connVars
<1>12. ASSUME UNCHANGED vars PROVE Goal'
  BY <1>12, ConnectionFrame DEF vars, connVars, sockVars, envVars
<1> QED BY <1>1, <1>2, <1>3, <1>4, <1>5, <1>6, <1>7, <1>8, <1>9, <1>10, <1>11, <1>12 DEF Next

------------------------------------------------------------------------------
LEMMA ClientInvariant == Spec => []ClientInv
<1>1. Init => ClientInv
  BY InitSound
<1>2. ClientInv /\ [Next]_vars => ClientInv'
  BY TypeStep, SearchStep, PlaceStep, ConnectionStep DEF ClientInv, SearchInv, ConnectionInv
<1> QED BY <1>1, <1>2, PTL DEF Spec, SafetySpec

\* Every way in which a search, a timer, the heartbeat or a connection ends
\* leaves another of them, the phase tells which, and there is one heartbeat at
\* most (scheduleRediscovery, enterDormant, wake, the 'close' handler), even when
\* the reconnect button starts a second search.
THEOREM SearchNeverEnds == Spec => []SearchGoesOn
<1>1. ClientInv => SearchGoesOn
  BY DEF ClientInv, SearchInv, ConnectionInv, SearchGoesOn, PhaseIsTrue, PhaseHasSearch, Searching
<1> QED BY <1>1, ClientInvariant, PTL

\* Unless the reconnect button was pressed during a search, the client has one
\* open socket and takes itself for accepted only on the one that was
\* (activateSocket, handleMessage, the 'close' handler, reconnectRelay).
THEOREM ConnectionKnown == Spec => []ConnectionIsTrue
<1>1. ClientInv => ConnectionIsTrue
  BY DEF ClientInv, ConnectionInv, ConnectionIsTrue
<1> QED BY <1>1, ClientInvariant, PTL
==============================================================================
