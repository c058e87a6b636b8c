-------------------------- MODULE RelayClusterProofs --------------------------
(***************************************************************************)
(* Theorems about relays that share a machine, for every number of them,   *)
(* every range of ports and any number of disturbances: where links lead,  *)
(* and that nobody waits for something that cannot come.                   *)
(***************************************************************************)
EXTENDS RelayCluster, SequenceTheorems, TLAPS

\* A process that is in the port strategy has nothing yet: no port, no
\* clientSocket and no timer.
StrategyHoldsNothing ==
    \A p \in Proc :
        Serves(p) \/ upstream[p] # NoProc \/ p \in timer => pc[p] \in {"idle", "save"}

\* Who is to reconnect has neither a port nor a clientSocket.
TimersWaitAlone == \A p \in timer : ~Serves(p) /\ upstream[p] = NoProc

AttachingIsClient == \A p \in Proc : pc[p] = "attach" => mode[p] = "client"

\* A strategy that found its port has led to something, unless it was stopped.
SavedHasRole ==
    \A p \in Proc : pc[p] = "save" /\ p \notin stopped =>
        Serves(p) \/ upstream[p] # NoProc \/ p \in timer

LostHadLink == \A p \in lost : upstream[p] # NoProc

\* A reconnect that is due or under way has attempts left, and success resets them.
AttemptsAreLeft ==
    \A p \in Proc :
        /\ upstream[p] # NoProc => attempts[p] = 0
        /\ p \in timer \/ (why[p] = "reconnect" /\ pc[p] \in {"off", "read", "bind", "attach"})
              => attempts[p] < MaxAttempts

FixedIsOnlyCandidate ==
    \A p \in Proc : Fixed[p] # NoPort /\ pc[p] \in {"bind", "attach", "save"} =>
        cands[p] = <<Fixed[p]>>

ProcessInv ==
    /\ StrategyHoldsNothing /\ TimersWaitAlone /\ AttachingIsClient /\ SavedHasRole
    /\ LostHadLink /\ AttemptsAreLeft /\ FixedIsOnlyCandidate
    /\ stopping \subseteq stopped

LinkInv == NoProxyChains /\ ModeMatchesRole /\ FixedPortsAreKept

ClusterInv == TypeOK /\ ProcessInv /\ LinkInv /\ NobodyWaitsInVain

------------------------------------------------------------------------------
\* There is always a candidate, and candidates are ports.
LEMMA CandidatesTyped ==
    ASSUME NEW p \in Proc, NEW cached
    PROVE  Candidates(p, cached) \in Seq(Port) /\ Candidates(p, cached) # <<>>
<1> DEFINE n == RangeEnd - DefaultPort + 1
<1>1. n \in Nat /\ n >= 1
  BY RangeAssumption
<1>2. \A port \in PortRange : port \in Port
  BY NoPortAssumption DEF Port
<1>3. CASE Fixed[p] # NoPort
  BY <1>3 DEF Candidates, Port
<1>4. CASE Fixed[p] = NoPort /\ cached \notin PortRange
  <2> DEFINE s == [i \in 1 .. n |-> DefaultPort + i - 1]
  <2>1. \A i \in 1 .. n : s[i] \in PortRange
    BY RangeAssumption DEF PortRange
  <2>2. s \in Seq(Port) /\ s # <<>>
    BY <1>1, <1>2, <2>1
  <2> QED BY <1>4, <2>2 DEF Candidates
<1>5. CASE Fixed[p] = NoPort /\ cached \in PortRange
  <2> DEFINE s == [i \in 1 .. n |-> IF i = 1 THEN cached
                      ELSE IF DefaultPort + i - 2 < cached THEN DefaultPort + i - 2
                      ELSE DefaultPort + i - 1]
  <2>1. \A i \in 1 .. n : s[i] \in PortRange
    BY <1>5, RangeAssumption DEF PortRange
  <2>2. s \in Seq(Port) /\ s # <<>>
    BY <1>1, <1>2, <2>1
  <2> QED BY <1>5, <2>2 DEF Candidates
<1> QED BY <1>3, <1>4, <1>5

LEMMA FixedCandidates ==
    ASSUME NEW p \in Proc, NEW cached, Fixed[p] # NoPort
    PROVE  Candidates(p, cached) = <<Fixed[p]>>
BY DEF Candidates

\* What a process binds or attaches to is a port.
LEMMA HeadIsPort ==
    ASSUME TypeOK, NEW p \in Proc, pc[p] \in {"bind", "attach", "save"}
    PROVE  /\ Head(cands[p]) \in Port /\ Head(cands[p]) # NoPort
           /\ Tail(cands[p]) \in Seq(Port)
<1>1. cands[p] \in Seq(Port) /\ cands[p] # <<>>
  BY DEF TypeOK
<1>2. Head(cands[p]) \in Port /\ Tail(cands[p]) \in Seq(Port)
  BY <1>1, HeadTailProperties
<1> QED BY <1>2 DEF Port

LEMMA InitSound == Init => ClusterInv
<1> SUFFICES ASSUME Init PROVE ClusterInv
  OBVIOUS
<1>1. TypeOK
  BY BoundsAssumption DEF Init, TypeOK
<1>2. ProcessInv
  BY DEF Init, ProcessInv, StrategyHoldsNothing, TimersWaitAlone, AttachingIsClient,
         SavedHasRole, LostHadLink, AttemptsAreLeft, FixedIsOnlyCandidate, Serves
<1>3. LinkInv
  BY DEF Init, LinkInv, NoProxyChains, ModeMatchesRole, FixedPortsAreKept, Serves, Attached
<1>4. NobodyWaitsInVain
  BY DEF Init, NobodyWaitsInVain, NeverStranded, CallsFollowTheLink
<1> QED BY <1>1, <1>2, <1>3, <1>4 DEF ClusterInv

------------------------------------------------------------------------------
\* scheduleReconnect keeps the count and the timers typed.
LEMMA ScheduleTyped ==
    ASSUME TypeOK, NEW p \in Proc, ScheduleReconnect(p),
           p \in timer \/ attempts[p] < MaxAttempts
    PROVE  timer' \in SUBSET Proc /\ attempts' \in [Proc -> 0 .. MaxAttempts]
<1>1. CASE p \in timer \cup stopping
  BY <1>1 DEF TypeOK, ScheduleReconnect
<1>2. CASE p \notin timer \cup stopping
  <2>1. attempts[p] + 1 \in 0 .. MaxAttempts
    BY <1>2, BoundsAssumption DEF TypeOK
  <2>2. attempts' = [attempts EXCEPT ![p] = attempts[p] + 1]
    BY <1>2 DEF ScheduleReconnect
  <2>3. timer' \subseteq timer \cup {p}
    BY <1>2 DEF ScheduleReconnect
  <2>4. attempts' \in [Proc -> 0 .. MaxAttempts]
    BY <2>1, <2>2 DEF TypeOK
  <2> QED BY <2>3, <2>4 DEF TypeOK
<1> QED BY <1>1, <1>2

\* Every step keeps the types.
LEMMA TypeStep ==
    ASSUME ClusterInv, [Next]_vars
    PROVE  TypeOK'
<1> USE DEF ClusterInv, TypeOK
<1>1. ASSUME NEW p \in Proc, Start(p) PROVE TypeOK'
  BY <1>1 DEF Start, Goto, linkVars
<1>2. ASSUME NEW p \in Proc, ReadCache(p) PROVE TypeOK'
  BY <1>2, CandidatesTyped DEF ReadCache, Goto, linkVars
<1>3. ASSUME NEW p \in Proc, Bind(p) PROVE TypeOK'
  BY <1>3, HeadIsPort DEF Bind, Goto, linkVars
<1>4. ASSUME NEW p \in Proc, AddressInUse(p) PROVE TypeOK'
  BY <1>4 DEF AddressInUse, Goto, linkVars
<1>5. ASSUME NEW p \in Proc, Attach(p) PROVE TypeOK'
  BY <1>5, BoundsAssumption DEF Attach, Goto
<1>6. ASSUME NEW p \in Proc, pc[p] = "attach", NoHello(p), churn' \in 0 .. MaxDisturbances,
             UNCHANGED <<why, prior, wss, linkVars, stopping, stopped, foreign, cache>>
      PROVE  TypeOK'
  <2>1. Tail(cands[p]) \in Seq(Port)
    BY <1>6, HeadIsPort
  <2>2. timer' \in SUBSET Proc /\ attempts' \in [Proc -> 0 .. MaxAttempts]
    BY <1>6, ScheduleTyped DEF NoHello, ProcessInv, AttemptsAreLeft
  <2>3. /\ pc' \in [Proc -> {"off", "idle", "read", "bind", "attach", "save", "gone"}]
        /\ \A q \in Proc : pc'[q] \in {"bind", "attach", "save"} => cands'[q] # <<>>
    BY <1>6 DEF NoHello, Goto
  <2> QED BY <1>6, <2>1, <2>2, <2>3 DEF NoHello, linkVars
<1>7. ASSUME NEW p \in Proc, AttachFails(p) PROVE TypeOK'
  BY <1>7, <1>6 DEF AttachFails
<1>8. ASSUME NEW p \in Proc, AttachTimesOut(p) PROVE TypeOK'
  BY <1>8, <1>6, BoundsAssumption DEF AttachTimesOut, Disturbance
<1>9. ASSUME NEW p \in Proc, SavePort(p) PROVE TypeOK'
  BY <1>9, HeadIsPort, BoundsAssumption DEF SavePort, Goto, linkVars
<1>10. ASSUME NEW p \in Proc, UpstreamClosed(p) PROVE TypeOK'
  <2>1. attempts[p] < MaxAttempts
    BY <1>10, BoundsAssumption DEF UpstreamClosed, ProcessInv, AttemptsAreLeft, LostHadLink
  <2>2. timer' \in SUBSET Proc /\ attempts' \in [Proc -> 0 .. MaxAttempts]
    BY <1>10, <2>1, ScheduleTyped DEF UpstreamClosed
  <2> QED BY <1>10, <2>2 DEF UpstreamClosed, taskVars
<1>11. ASSUME NEW p \in Proc, TimerFires(p) PROVE TypeOK'
  BY <1>11 DEF TimerFires, Goto, linkVars
<1>12. ASSUME NEW p \in Proc, CallUpstream(p) \/ CallSettles(p) PROVE TypeOK'
  BY <1>12 DEF CallUpstream, CallSettles, taskVars
<1>13. ASSUME NEW p \in Proc, Stop(p) PROVE TypeOK'
  <2>1. /\ stopping' \in SUBSET Proc /\ stopped' \in SUBSET Proc /\ timer' \in SUBSET Proc
        /\ churn' \in 0 .. MaxDisturbances
    BY <1>13, BoundsAssumption DEF Stop, Disturbance
  <2>2. /\ upstream' \in [Proc -> Proc \cup {NoProc}] /\ wss' \in [Proc -> Port \cup {NoPort}]
        /\ lost' \in SUBSET Proc /\ calling' \in SUBSET Proc
    BY <1>13 DEF Stop, Abandon
  <2> QED BY <1>13, <2>1, <2>2 DEF Stop, taskVars
<1>14. ASSUME NEW p \in Proc, Exit(p) PROVE TypeOK'
  BY <1>14, BoundsAssumption DEF Exit, Disturbance, Abandon, Goto
<1>15. ASSUME NEW port \in Port, ForeignTakes(port) \/ ForeignLeaves(port) PROVE TypeOK'
  BY <1>15, BoundsAssumption DEF ForeignTakes, ForeignLeaves, Disturbance, taskVars, linkVars
<1>16. ASSUME UNCHANGED vars PROVE TypeOK'
  BY <1>16 DEF vars, taskVars, linkVars
<1> QED BY <1>1, <1>2, <1>3, <1>4, <1>5, <1>7, <1>8, <1>9, <1>10, <1>11, <1>12, <1>13,
           <1>14, <1>15, <1>16 DEF Next, Strategy

\* Every step keeps what holds of each process on its own.
LEMMA ProcessStep ==
    ASSUME ClusterInv, [Next]_vars
    PROVE  ProcessInv'
<1> USE DEF ClusterInv, TypeOK, ProcessInv, StrategyHoldsNothing, TimersWaitAlone,
        AttachingIsClient, SavedHasRole, LostHadLink, AttemptsAreLeft, FixedIsOnlyCandidate,
        Serves
<1>1. ASSUME NEW p \in Proc, Start(p) PROVE ProcessInv'
  BY <1>1 DEF Start, Goto, linkVars
<1>2. ASSUME NEW p \in Proc, ReadCache(p) PROVE ProcessInv'
  BY <1>2, FixedCandidates DEF ReadCache, Goto, linkVars
<1>3. ASSUME NEW p \in Proc, Bind(p) PROVE ProcessInv'
  BY <1>3, HeadIsPort DEF Bind, Goto, linkVars
<1>4. ASSUME NEW p \in Proc, AddressInUse(p) PROVE ProcessInv'
  BY <1>4 DEF AddressInUse, Goto, linkVars
<1>5. ASSUME NEW p \in Proc, Attach(p) PROVE ProcessInv'
  <2>1. ~Serves(p) /\ p \notin timer
    BY <1>5 DEF Attach
  <2>2. upstream'[p] # NoProc /\ pc'[p] = "save" /\ attempts'[p] = 0
    BY <1>5, NoProcAssumption DEF Attach, Goto
  <2>3. \A q \in Proc \ {p} : /\ upstream'[q] = upstream[q] /\ pc'[q] = pc[q]
                                /\ attempts'[q] = attempts[q]
    BY <1>5 DEF Attach, Goto
  <2>4. UNCHANGED <<why, cands, mode, wss, lost, timer, stopping, stopped>>
    BY <1>5 DEF Attach
  <2>5. Fixed[p] # NoPort => cands[p] = <<Fixed[p]>>
    BY <1>5 DEF Attach
  <2> QED BY <2>1, <2>2, <2>3, <2>4, <2>5
<1>6. ASSUME NEW p \in Proc, pc[p] = "attach", NoHello(p),
             UNCHANGED <<why, prior, wss, linkVars, stopping, stopped>>
      PROVE  ProcessInv'
  <2>1. ~Serves(p) /\ upstream[p] = NoProc /\ p \notin timer
    BY <1>6
  <2>2. /\ UNCHANGED <<why, wss, upstream, lost, stopping, stopped>>
        /\ mode' = [mode EXCEPT ![p] = prior[p]]
        /\ cands' = [cands EXCEPT ![p] = Tail(@)]
    BY <1>6 DEF NoHello, linkVars
  <2>3. CASE Fixed[p] = NoPort /\ Tail(cands[p]) # <<>>
    <3>1. pc' = [pc EXCEPT ![p] = "bind"] /\ UNCHANGED <<timer, attempts>>
      BY <1>6, <2>3 DEF NoHello, Goto
    <3> QED BY <1>6, <2>1, <2>2, <2>3, <3>1
  <2>4. CASE ~(Fixed[p] = NoPort /\ Tail(cands[p]) # <<>>) /\ why[p] = "start"
    BY <1>6, <2>1, <2>2, <2>4 DEF NoHello, Goto
  <2>5. CASE ~(Fixed[p] = NoPort /\ Tail(cands[p]) # <<>>) /\ why[p] # "start"
    <3>1. pc' = [pc EXCEPT ![p] = "idle"] /\ ScheduleReconnect(p)
      BY <1>6, <2>5 DEF NoHello, Goto
    <3>2. /\ timer' \subseteq timer \cup {p} /\ timer \subseteq timer'
          /\ p \in timer' => attempts'[p] < MaxAttempts
          /\ \A q \in Proc \ {p} : attempts'[q] = attempts[q]
      BY <2>1, <3>1, BoundsAssumption DEF ScheduleReconnect
    <3> QED BY <2>1, <2>2, <3>1, <3>2
  <2> QED BY <2>3, <2>4, <2>5
<1>7. ASSUME NEW p \in Proc, AttachFails(p) PROVE ProcessInv'
  BY <1>7, <1>6 DEF AttachFails
<1>8. ASSUME NEW p \in Proc, AttachTimesOut(p) PROVE ProcessInv'
  BY <1>8, <1>6 DEF AttachTimesOut
<1>9. ASSUME NEW p \in Proc, SavePort(p) PROVE ProcessInv'
  BY <1>9, BoundsAssumption DEF SavePort, Goto, linkVars
<1>10. ASSUME NEW p \in Proc, UpstreamClosed(p) PROVE ProcessInv'
  BY <1>10, BoundsAssumption DEF UpstreamClosed, ScheduleReconnect, taskVars, LinkInv, ModeMatchesRole
<1>11. ASSUME NEW p \in Proc, TimerFires(p) PROVE ProcessInv'
  BY <1>11 DEF TimerFires, Goto, linkVars
<1>12. ASSUME NEW p \in Proc, CallUpstream(p) \/ CallSettles(p) PROVE ProcessInv'
  BY <1>12 DEF CallUpstream, CallSettles, taskVars
<1>13. ASSUME NEW p \in Proc, Stop(p) PROVE ProcessInv'
  BY <1>13, NoProcAssumption DEF Stop, Abandon, taskVars
<1>14. ASSUME NEW p \in Proc, Exit(p) PROVE ProcessInv'
  BY <1>14, NoProcAssumption DEF Exit, Abandon, Goto
<1>15. ASSUME NEW port \in Port, ForeignTakes(port) \/ ForeignLeaves(port) PROVE ProcessInv'
  BY <1>15 DEF ForeignTakes, ForeignLeaves, taskVars, linkVars
<1>16. ASSUME UNCHANGED vars PROVE ProcessInv'
  BY <1>16 DEF vars, taskVars, linkVars
<1> QED BY <1>1, <1>2, <1>3, <1>4, <1>5, <1>7, <1>8, <1>9, <1>10, <1>11, <1>12, <1>13,
           <1>14, <1>15, <1>16 DEF Next, Strategy

\* Every step keeps what relates a process to its upstream.
LEMMA LinkStep ==
    ASSUME ClusterInv, [Next]_vars
    PROVE  LinkInv'
<1> USE DEF ClusterInv, TypeOK, LinkInv, NoProxyChains, ModeMatchesRole, FixedPortsAreKept,
        Serves, Attached
<1>1. ASSUME NEW p \in Proc, Start(p) \/ ReadCache(p) \/ SavePort(p) PROVE LinkInv'
  BY <1>1 DEF Start, ReadCache, SavePort, Goto, linkVars
<1>2. ASSUME NEW p \in Proc, Bind(p) PROVE LinkInv'
  <2>1. ~Serves(p) /\ upstream[p] = NoProc
    BY <1>2 DEF Bind, ProcessInv, StrategyHoldsNothing
  <2>2. Head(cands[p]) \in Port /\ (Fixed[p] # NoPort => Head(cands[p]) = Fixed[p])
    BY <1>2, HeadIsPort DEF Bind, ProcessInv, FixedIsOnlyCandidate
  <2> QED BY <1>2, <2>1, <2>2 DEF Bind, Goto, linkVars
<1>3. ASSUME NEW p \in Proc, AddressInUse(p) PROVE LinkInv'
  <2>1. ~Serves(p) /\ upstream[p] = NoProc
    BY <1>3 DEF AddressInUse, ProcessInv, StrategyHoldsNothing
  <2>2. UNCHANGED <<wss, upstream, lost>> /\ \A q \in Proc \ {p} : mode'[q] = mode[q] /\ pc'[q] = pc[q]
    BY <1>3 DEF AddressInUse, Goto, linkVars
  <2>3. \A q \in Proc : Attached(q) => upstream[q] \in Proc \ {p}
    BY <2>1
  <2>4. NoProxyChains' /\ FixedPortsAreKept'
    BY <2>2, <2>3
  <2>5. ModeMatchesRole'
    BY <2>1, <2>2
  <2> QED BY <2>4, <2>5
<1>4. ASSUME NEW p \in Proc, Attach(p) PROVE LinkInv'
  <2>1. ~Serves(p) /\ mode[p] = "client"
    BY <1>4 DEF Attach, ProcessInv, StrategyHoldsNothing, AttachingIsClient
  <2>2. PICK q \in Proc : wss[q] = Head(cands[p]) /\ upstream' = [upstream EXCEPT ![p] = q]
    BY <1>4 DEF Attach
  <2>3. Serves(q) /\ (Fixed[p] # NoPort => wss[q] = Fixed[p])
    BY <1>4, <2>2, HeadIsPort DEF Attach, ProcessInv, FixedIsOnlyCandidate
  <2> QED BY <1>4, <2>1, <2>2, <2>3 DEF Attach, Goto
<1>5. ASSUME NEW p \in Proc, AttachFails(p) \/ AttachTimesOut(p) PROVE LinkInv'
  <2>1. ~Serves(p) /\ upstream[p] = NoProc
    BY <1>5 DEF AttachFails, AttachTimesOut, ProcessInv, StrategyHoldsNothing
  <2>2. UNCHANGED <<wss, upstream, lost>> /\ \A q \in Proc \ {p} : mode'[q] = mode[q] /\ pc'[q] = pc[q]
    BY <1>5 DEF AttachFails, AttachTimesOut, NoHello, Goto, linkVars
  <2>3. \A q \in Proc : Attached(q) => upstream[q] \in Proc \ {p}
    BY <2>1
  <2>4. NoProxyChains' /\ FixedPortsAreKept'
    BY <2>2, <2>3
  <2>5. ModeMatchesRole'
    BY <2>1, <2>2
  <2> QED BY <2>4, <2>5
<1>6. ASSUME NEW p \in Proc, UpstreamClosed(p) PROVE LinkInv'
  BY <1>6 DEF UpstreamClosed, taskVars
<1>7. ASSUME NEW p \in Proc, TimerFires(p) PROVE LinkInv'
  BY <1>7 DEF TimerFires, Goto, linkVars
<1>8. ASSUME NEW p \in Proc, CallUpstream(p) \/ CallSettles(p) PROVE LinkInv'
  BY <1>8 DEF CallUpstream, CallSettles, taskVars
<1>9. ASSUME NEW p \in Proc, Stop(p) PROVE LinkInv'
  <2>1. UNCHANGED <<pc, mode>>
    BY <1>9 DEF Stop, taskVars
  <2>2. CASE mode[p] = "client"
    <3>1. upstream' = [upstream EXCEPT ![p] = NoProc] /\ lost' = lost \ {p} /\ wss' = wss
      BY <1>9, <2>2 DEF Stop
    <3> QED BY <2>1, <3>1
  <2>3. CASE mode[p] = "server"
    <3>1. /\ upstream' = upstream /\ wss' = [wss EXCEPT ![p] = NoPort]
          /\ lost' = (lost \ {p}) \cup {q \in Proc \ {p} : upstream[q] = p}
      BY <1>9, <2>3 DEF Stop, Abandon
    <3>2. upstream[p] = NoProc
      BY <1>9, <2>3 DEF Stop
    <3> QED BY <2>1, <3>1, <3>2
  <2> QED BY <2>2, <2>3
<1>10. ASSUME NEW p \in Proc, Exit(p) PROVE LinkInv'
  BY <1>10 DEF Exit, Abandon, Goto
<1>11. ASSUME NEW port \in Port, ForeignTakes(port) \/ ForeignLeaves(port) PROVE LinkInv'
  BY <1>11 DEF ForeignTakes, ForeignLeaves, taskVars, linkVars
<1>12. ASSUME UNCHANGED vars PROVE LinkInv'
  BY <1>12 DEF vars, taskVars, linkVars
<1> QED BY <1>1, <1>2, <1>3, <1>4, <1>5, <1>6, <1>7, <1>8, <1>9, <1>10, <1>11, <1>12
        DEF Next, Strategy

\* Every step keeps that nobody waits for what cannot come.
LEMMA WaitStep ==
    ASSUME ClusterInv, [Next]_vars
    PROVE  NobodyWaitsInVain'
<1> USE DEF ClusterInv, TypeOK, NobodyWaitsInVain, NeverStranded, CallsFollowTheLink, Serves
<1>1. ASSUME NEW p \in Proc, Start(p) \/ ReadCache(p) \/ AddressInUse(p) PROVE NobodyWaitsInVain'
  BY <1>1 DEF Start, ReadCache, AddressInUse, Goto, linkVars
<1>2. ASSUME NEW p \in Proc, Bind(p) PROVE NobodyWaitsInVain'
  BY <1>2, HeadIsPort DEF Bind, Goto, linkVars
<1>3. ASSUME NEW p \in Proc, Attach(p) PROVE NobodyWaitsInVain'
  BY <1>3, NoProcAssumption DEF Attach, Goto
<1>4. ASSUME NEW p \in Proc, AttachFails(p) \/ AttachTimesOut(p) PROVE NobodyWaitsInVain'
  BY <1>4, BoundsAssumption DEF AttachFails, AttachTimesOut, NoHello, Goto, ScheduleReconnect, linkVars, ProcessInv
<1>5. ASSUME NEW p \in Proc, SavePort(p) PROVE NobodyWaitsInVain'
  BY <1>5, BoundsAssumption DEF SavePort, Goto, linkVars, ProcessInv, SavedHasRole
<1>6. ASSUME NEW p \in Proc, UpstreamClosed(p) PROVE NobodyWaitsInVain'
  BY <1>6, BoundsAssumption DEF UpstreamClosed, ScheduleReconnect, taskVars, ProcessInv
<1>7. ASSUME NEW p \in Proc, TimerFires(p) PROVE NobodyWaitsInVain'
  BY <1>7 DEF TimerFires, Goto, linkVars, ProcessInv
<1>8. ASSUME NEW p \in Proc, CallUpstream(p) \/ CallSettles(p) PROVE NobodyWaitsInVain'
  BY <1>8 DEF CallUpstream, CallSettles, taskVars
<1>9. ASSUME NEW p \in Proc, Stop(p) PROVE NobodyWaitsInVain'
  BY <1>9 DEF Stop, Abandon, taskVars
<1>10. ASSUME NEW p \in Proc, Exit(p) PROVE NobodyWaitsInVain'
  BY <1>10 DEF Exit, Abandon, Goto
<1>11. ASSUME NEW port \in Port, ForeignTakes(port) \/ ForeignLeaves(port) PROVE NobodyWaitsInVain'
  BY <1>11 DEF ForeignTakes, ForeignLeaves, taskVars, linkVars
<1>12. ASSUME UNCHANGED vars PROVE NobodyWaitsInVain'
  BY <1>12 DEF vars, taskVars, linkVars
<1> QED BY <1>1, <1>2, <1>3, <1>4, <1>5, <1>6, <1>7, <1>8, <1>9, <1>10, <1>11, <1>12
        DEF Next, Strategy

------------------------------------------------------------------------------
LEMMA ClusterInvariant == Spec => []ClusterInv
<1>1. Init => ClusterInv
  BY InitSound
<1>2. ClusterInv /\ [Next]_vars => ClusterInv'
  BY TypeStep, ProcessStep, LinkStep, WaitStep DEF ClusterInv
<1> QED BY <1>1, <1>2, PTL DEF Spec, SafetySpec

\* A clientSocket that is up leads to another process that serves, on the port
\* that was given explicitly if one was, and modes agree with it, whatever
\* crashes, stop() calls and races for ports came before (startUsingPortStrategy,
\* startAsServer, startAsClient, stop).
THEOREM LinksSound == Spec => []LinksLeadToServers
<1>1. ClusterInv => LinksLeadToServers
  BY DEF ClusterInv, LinkInv, LinksLeadToServers
<1> QED BY <1>1, ClusterInvariant, PTL

\* A process that awaits nothing serves, is attached, will try again or has used
\* up its attempts, and a proxied call has a socket to be answered over
\* (scheduleReconnect, setupClientHandlers, stop).
THEOREM WaitsAreForSomething == Spec => []NobodyWaitsInVain
<1>1. ClusterInv => NobodyWaitsInVain
  BY DEF ClusterInv
<1> QED BY <1>1, ClusterInvariant, PTL
==============================================================================
