----------------------------- MODULE RelayCluster -----------------------------
(***************************************************************************)
(* Several relay processes on one machine (bridgeServer.ts, the start-up   *)
(* and client-mode half, with portStrategy.ts).  Each process binds a      *)
(* port and serves, or, where the port is taken, attaches to the relay     *)
(* that holds it and proxies its calls; a client that loses its server     *)
(* re-runs the same strategy and may become a server itself.               *)
(*                                                                         *)
(* startUsingPortStrategy awaits after every step, so `pc` keeps where a   *)
(* process is in it and everything else may happen in between.  A          *)
(* disturbance is an event no process controls: a crash, a stop(), a       *)
(* foreign service that takes or leaves a port, a relay handshake slower   *)
(* than its 750 ms.  Their number is bounded by MaxDisturbances, and the   *)
(* 100 reconnect attempts stand for more than there are disturbances.      *)
(* Writing the cache file is quicker than the shortest reconnect delay.    *)
(***************************************************************************)
EXTENDS Integers, Sequences, FiniteSets

CONSTANTS
    Proc,             \* relay processes
    DefaultPort,      \* preferredPort, where the range begins
    RangeEnd,         \* portRangeEnd
    Fixed,            \* process |-> the port it was given explicitly, or NoPort
    NoPort,
    NoProc,
    MaxAttempts,      \* clientMaxReconnectAttempts
    MaxDisturbances

PortRange == DefaultPort .. RangeEnd
Port == (PortRange \cup {Fixed[p] : p \in Proc}) \ {NoPort}

ASSUME NoPortAssumption == NoPort \notin PortRange
ASSUME NoProcAssumption == NoProc \notin Proc
ASSUME RangeAssumption == DefaultPort \in Nat /\ RangeEnd \in Nat /\ DefaultPort <= RangeEnd
ASSUME BoundsAssumption == MaxAttempts \in Nat /\ MaxAttempts > 1 /\ MaxDisturbances \in Nat

VARIABLES
    pc,        \* where the process is: off, idle, read, bind, attach, save or gone
    why,       \* start or reconnect: who awaits the strategy
    cands,     \* the candidate ports still to try
    mode,      \* _mode
    prior,     \* startAsClient's previousMode
    wss,       \* the port the process listens on
    upstream,  \* the process its clientSocket leads to
    lost,      \* processes whose clientSocket broke, the 'close' event being due
    timer,     \* processes with a clientReconnectTimer
    attempts,  \* clientReconnectAttempts
    stopping,  \* the processes whose `stopping` flag is set
    stopped,   \* the processes on which stop() was called
    calling,   \* the processes with a call in clientPendingInvocations
    foreign,   \* ports held by something that is not a relay
    cache,     \* the port in relay-port.json
    churn      \* disturbances so far

taskVars == <<pc, why, cands>>
linkVars == <<upstream, lost, calling>>
vars == <<taskVars, mode, prior, wss, linkVars, timer, attempts, stopping, stopped,
          foreign, cache, churn>>

Init ==
    /\ pc = [p \in Proc |-> "off"]
    /\ why = [p \in Proc |-> "start"]
    /\ cands = [p \in Proc |-> <<>>]
    /\ mode = [p \in Proc |-> "server"]
    /\ prior = [p \in Proc |-> "server"]
    /\ wss = [p \in Proc |-> NoPort]
    /\ upstream = [p \in Proc |-> NoProc]
    /\ lost = {} /\ timer = {} /\ stopping = {} /\ stopped = {} /\ calling = {}
    /\ attempts = [p \in Proc |-> 0]
    /\ foreign = {}
    /\ cache = NoPort
    /\ churn = 0

------------------------------------------------------------------------------
Goto(p, label) == pc' = [pc EXCEPT ![p] = label]

\* scheduleReconnect: no timer twice, none while stopping, none after the last attempt.
ScheduleReconnect(p) ==
    IF p \in timer \cup stopping THEN UNCHANGED <<timer, attempts>>
    ELSE /\ attempts' = [attempts EXCEPT ![p] = @ + 1]
         /\ timer' = IF attempts[p] + 1 < MaxAttempts THEN timer \cup {p} ELSE timer

\* The sockets of the clients of p break; each of them notices later.
Abandon(p) == lost' = (lost \ {p}) \cup {q \in Proc \ {p} : upstream[q] = p}

Disturbance == churn < MaxDisturbances /\ churn' = churn + 1

\* buildPortCandidates: the explicit port alone, or the range in its order, or
\* the cached port if it is in the range and then the rest of the range.
Candidates(p, cached) ==
    IF Fixed[p] # NoPort THEN <<Fixed[p]>>
    ELSE IF cached \notin PortRange
    THEN [i \in 1 .. RangeEnd - DefaultPort + 1 |-> DefaultPort + i - 1]
    ELSE [i \in 1 .. RangeEnd - DefaultPort + 1 |->
             IF i = 1 THEN cached
             ELSE IF DefaultPort + i - 2 < cached THEN DefaultPort + i - 2
             ELSE DefaultPort + i - 1]

------------------------------------------------------------------------------
(* The port strategy.                                                      *)

Start(p) ==
    /\ pc[p] = "off"
    /\ Goto(p, "read")
    /\ UNCHANGED <<why, cands, mode, prior, wss, linkVars, timer, attempts, stopping,
                   stopped, foreign, cache, churn>>

\* readPersistedPort finds nothing in a file that is old, for another host, or
\* just being written.
ReadCache(p) ==
    /\ pc[p] = "read"
    /\ Goto(p, "bind")
    /\ \E cached \in {cache, NoPort} : cands' = [cands EXCEPT ![p] = Candidates(p, cached)]
    /\ UNCHANGED <<why, mode, prior, wss, linkVars, timer, attempts, stopping, stopped,
                   foreign, cache, churn>>

InUse(port) == port \in foreign \/ \E q \in Proc : wss[q] = port

\* startAsServer.
Bind(p) ==
    /\ pc[p] = "bind"
    /\ ~InUse(Head(cands[p]))
    /\ wss' = [wss EXCEPT ![p] = Head(cands[p])]
    /\ mode' = [mode EXCEPT ![p] = "server"]
    /\ Goto(p, "save")
    /\ UNCHANGED <<why, cands, prior, linkVars, timer, attempts, stopping, stopped,
                   foreign, cache, churn>>

\* EADDRINUSE: startAsClient begins.
AddressInUse(p) ==
    /\ pc[p] = "bind"
    /\ InUse(Head(cands[p]))
    /\ prior' = [prior EXCEPT ![p] = mode[p]]
    /\ mode' = [mode EXCEPT ![p] = "client"]
    /\ stopping' = stopping \ {p}
    /\ Goto(p, "attach")
    /\ UNCHANGED <<why, cands, wss, linkVars, timer, attempts, stopped, foreign, cache, churn>>

\* The holder of the port says server-hello in time.
Attach(p) ==
    /\ pc[p] = "attach"
    /\ \E q \in Proc :
          /\ wss[q] = Head(cands[p])
          /\ upstream' = [upstream EXCEPT ![p] = q]
    /\ attempts' = [attempts EXCEPT ![p] = 0]
    /\ Goto(p, "save")
    /\ UNCHANGED <<why, cands, mode, prior, wss, lost, calling, timer, stopping, stopped,
                   foreign, cache, churn>>

\* Mutant: a reconnect that fails is not scheduled again.
Bug_NoHello(p) ==
    /\ mode' = [mode EXCEPT ![p] = prior[p]]
    /\ cands' = [cands EXCEPT ![p] = Tail(@)]
    /\ Goto(p, IF Fixed[p] = NoPort /\ Tail(cands[p]) # <<>> THEN "bind"
               ELSE IF why[p] = "start" THEN "gone" ELSE "idle")
    /\ UNCHANGED <<timer, attempts>>

\* startAsClient gives up on this port.  After an explicit port or the last one
\* the strategy throws: a process that is starting exits, a client tries later.
NoHello(p) ==
    /\ mode' = [mode EXCEPT ![p] = prior[p]]
    /\ cands' = [cands EXCEPT ![p] = Tail(@)]
    /\ IF Fixed[p] = NoPort /\ Tail(cands[p]) # <<>>
       THEN Goto(p, "bind") /\ UNCHANGED <<timer, attempts>>
       ELSE IF why[p] = "start" THEN Goto(p, "gone") /\ UNCHANGED <<timer, attempts>>
       ELSE Goto(p, "idle") /\ ScheduleReconnect(p)

\* A foreign service answers nothing a relay would; a freed port refuses.
AttachFails(p) ==
    /\ pc[p] = "attach"
    /\ \A q \in Proc : wss[q] # Head(cands[p])
    /\ NoHello(p)
    /\ UNCHANGED <<why, prior, wss, linkVars, stopping, stopped, foreign, cache, churn>>

\* The relay is healthy but slower than RELAY_SERVER_MESSAGE_TIMEOUT_MS.
AttachTimesOut(p) ==
    /\ pc[p] = "attach"
    /\ \E q \in Proc : wss[q] = Head(cands[p])
    /\ Disturbance
    /\ NoHello(p)
    /\ UNCHANGED <<why, prior, wss, linkVars, stopping, stopped, foreign, cache>>

\* persistSelectedPort, and the end of the strategy.
SavePort(p) ==
    /\ pc[p] = "save"
    /\ cache' = Head(cands[p])
    /\ attempts' = IF why[p] = "reconnect" THEN [attempts EXCEPT ![p] = 0] ELSE attempts
    /\ Goto(p, "idle")
    /\ UNCHANGED <<why, cands, mode, prior, wss, linkVars, timer, stopping, stopped,
                   foreign, churn>>

------------------------------------------------------------------------------
(* Client mode.                                                            *)

\* Mutants: the socket is kept; the calls are not rejected.
Bug_CloseKeepsSocket(p) ==
    /\ p \in lost
    /\ lost' = lost \ {p}
    /\ calling' = calling \ {p}
    /\ ScheduleReconnect(p)
    /\ UNCHANGED <<taskVars, mode, prior, wss, upstream, stopping, stopped, foreign, cache, churn>>
Bug_CloseKeepsCalls(p) ==
    /\ p \in lost
    /\ upstream' = [upstream EXCEPT ![p] = NoProc]
    /\ lost' = lost \ {p}
    /\ ScheduleReconnect(p)
    /\ UNCHANGED <<taskVars, mode, prior, wss, calling, stopping, stopped, foreign, cache, churn>>

\* The 'close' event of a broken clientSocket.
UpstreamClosed(p) ==
    /\ p \in lost
    /\ upstream' = [upstream EXCEPT ![p] = NoProc]
    /\ lost' = lost \ {p}
    /\ calling' = calling \ {p}
    /\ ScheduleReconnect(p)
    /\ UNCHANGED <<taskVars, mode, prior, wss, stopping, stopped, foreign, cache, churn>>

\* The reconnect timer; reconnectWithModePromotion unless stopping.
TimerFires(p) ==
    /\ p \in timer
    /\ pc[p] = "idle"
    /\ timer' = timer \ {p}
    /\ IF p \in stopping THEN UNCHANGED <<pc, why>>
       ELSE Goto(p, "read") /\ why' = [why EXCEPT ![p] = "reconnect"]
    /\ UNCHANGED <<cands, mode, prior, wss, linkVars, attempts, stopping, stopped,
                   foreign, cache, churn>>

\* invokeToolViaRelay, and its relay/result or timeout.
CallUpstream(p) ==
    /\ mode[p] = "client" /\ upstream[p] # NoProc /\ p \notin lost \cup calling
    /\ calling' = calling \cup {p}
    /\ UNCHANGED <<taskVars, mode, prior, wss, upstream, lost, timer, attempts, stopping,
                   stopped, foreign, cache, churn>>

CallSettles(p) ==
    /\ p \in calling
    /\ calling' = calling \ {p}
    /\ UNCHANGED <<taskVars, mode, prior, wss, upstream, lost, timer, attempts, stopping,
                   stopped, foreign, cache, churn>>

------------------------------------------------------------------------------
(* Disturbances.                                                           *)

\* stop(), by a caller that awaited start(): it drops what the process holds
\* now, and a reconnect that is under way goes on.
Stop(p) ==
    /\ pc[p] = "idle" \/ (why[p] = "reconnect" /\ pc[p] # "gone")
    /\ p \notin stopped
    /\ Disturbance
    /\ stopping' = stopping \cup {p}
    /\ stopped' = stopped \cup {p}
    /\ timer' = timer \ {p}
    /\ \/ /\ mode[p] = "client"
          /\ upstream' = [upstream EXCEPT ![p] = NoProc]
          /\ lost' = lost \ {p}
          /\ calling' = calling \ {p}
          /\ UNCHANGED wss
       \/ /\ mode[p] = "server"
          /\ wss' = [wss EXCEPT ![p] = NoPort]
          /\ Abandon(p)
          /\ UNCHANGED <<upstream, calling>>
    /\ UNCHANGED <<taskVars, mode, prior, attempts, foreign, cache>>

\* The process ends: it crashes, is killed, or exits once stop() returned.
Exit(p) ==
    /\ pc[p] \notin {"off", "gone"}
    /\ Disturbance
    /\ Goto(p, "gone")
    /\ wss' = [wss EXCEPT ![p] = NoPort]
    /\ upstream' = [upstream EXCEPT ![p] = NoProc]
    /\ Abandon(p)
    /\ timer' = timer \ {p}
    /\ calling' = calling \ {p}
    /\ UNCHANGED <<why, cands, mode, prior, attempts, stopping, stopped, foreign, cache>>

ForeignTakes(port) ==
    /\ ~InUse(port)
    /\ Disturbance
    /\ foreign' = foreign \cup {port}
    /\ UNCHANGED <<taskVars, mode, prior, wss, linkVars, timer, attempts, stopping, stopped, cache>>

ForeignLeaves(port) ==
    /\ port \in foreign
    /\ Disturbance
    /\ foreign' = foreign \ {port}
    /\ UNCHANGED <<taskVars, mode, prior, wss, linkVars, timer, attempts, stopping, stopped, cache>>

------------------------------------------------------------------------------
Strategy(p) == ReadCache(p) \/ Bind(p) \/ AddressInUse(p) \/ Attach(p) \/ AttachFails(p) \/ SavePort(p)

Next ==
    \/ \E p \in Proc :
          \/ Start(p) \/ Strategy(p) \/ AttachTimesOut(p)
          \/ UpstreamClosed(p) \/ TimerFires(p) \/ CallUpstream(p) \/ CallSettles(p)
          \/ Stop(p) \/ Exit(p)
    \/ \E port \in Port : ForeignTakes(port) \/ ForeignLeaves(port)

\* Awaited operations end, sockets report their close, timers fire.
Fairness ==
    \A p \in Proc : WF_vars(Strategy(p)) /\ WF_vars(UpstreamClosed(p)) /\ WF_vars(TimerFires(p))
                    /\ WF_vars(CallSettles(p))

SafetySpec == Init /\ [][Next]_vars
Spec == SafetySpec /\ Fairness

------------------------------------------------------------------------------
(* Properties.                                                             *)

TypeOK ==
    /\ pc \in [Proc -> {"off", "idle", "read", "bind", "attach", "save", "gone"}]
    /\ why \in [Proc -> {"start", "reconnect"}]
    /\ cands \in [Proc -> Seq(Port)]
    /\ \A p \in Proc : pc[p] \in {"bind", "attach", "save"} => cands[p] # <<>>
    /\ mode \in [Proc -> {"server", "client"}]
    /\ prior \in [Proc -> {"server", "client"}]
    /\ wss \in [Proc -> Port \cup {NoPort}]
    /\ upstream \in [Proc -> Proc \cup {NoProc}]
    /\ lost \in SUBSET Proc /\ timer \in SUBSET Proc /\ stopping \in SUBSET Proc
    /\ stopped \in SUBSET Proc /\ calling \in SUBSET Proc
    /\ attempts \in [Proc -> 0 .. MaxAttempts]
    /\ foreign \in SUBSET Port
    /\ cache \in Port \cup {NoPort}
    /\ churn \in 0 .. MaxDisturbances

Attached(p) == upstream[p] # NoProc /\ p \notin lost
Serves(p) == wss[p] # NoPort

\* A clientSocket that is up leads to another process that is a server now:
\* promotion makes no chains of proxies and no cycles.
NoProxyChains ==
    \A p \in Proc : Attached(p) => upstream[p] # p /\ Serves(upstream[p])
                                   /\ mode[upstream[p]] = "server"

\* mode tells where calls are sent: a process that listens is in server mode
\* and has no clientSocket, also while a strategy fails or is under way, and
\* one with a clientSocket is in client mode.
ModeMatchesRole ==
    \A p \in Proc :
        /\ Serves(p) => mode[p] = "server" /\ upstream[p] = NoProc
        /\ upstream[p] # NoProc /\ pc[p] # "gone" => mode[p] = "client"

\* A running process that was not stopped and awaits nothing serves, or has an
\* upstream, or a timer that will look for one, or has used up its attempts.
NeverStranded ==
    \A p \in Proc :
        pc[p] = "idle" /\ p \notin stopped =>
            \/ Serves(p) \/ upstream[p] # NoProc \/ p \in timer
            \/ attempts[p] >= MaxAttempts

\* A proxied call waits only while the clientSocket it went over is there.
CallsFollowTheLink == \A p \in calling : upstream[p] # NoProc

\* An explicitly selected port is never traded for another one.
FixedPortsAreKept ==
    \A p \in Proc : Fixed[p] # NoPort =>
        /\ wss[p] \in {NoPort, Fixed[p]}
        /\ Attached(p) => wss[upstream[p]] = Fixed[p]

\* Whoever lost its server serves or is attached again, unless it was stopped
\* or foreign services hold every port it may use: the attempts are not used up
\* by losing races against other clients.
Recovers ==
    \A p \in Proc :
        p \in lost ~> \/ Serves(p) \/ Attached(p)
                      \/ p \in stopped \/ pc[p] = "gone"
                      \/ (IF Fixed[p] = NoPort THEN PortRange ELSE {Fixed[p]}) \subseteq foreign

\* Nobody waits in vain: no process for a relay, no call for an answer.
NobodyWaitsInVain == NeverStranded /\ CallsFollowTheLink

\* Links and modes agree, and lead where calls can be served.
LinksLeadToServers == TypeOK /\ NoProxyChains /\ ModeMatchesRole /\ FixedPortsAreKept

\* stop() is documented to stop all relay resources: a stopped process holds
\* none once nothing it awaits is left, whatever a reconnect that was under way
\* did in the meantime.
StopIsFinal ==
    \A p \in Proc : p \in stopped /\ pc[p] = "idle" => ~Serves(p) /\ upstream[p] = NoProc

==============================================================================
