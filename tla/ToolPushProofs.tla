---------------------------- MODULE ToolPushProofs ----------------------------
(***************************************************************************)
(* Theorems about how the relay learns the tools of a tab, for any number  *)
(* of sockets, resyncs, changes of the page and faults.                    *)
(***************************************************************************)
EXTENDS ToolPush, SequenceTheorems, TLAPS

\* One socket is open, the active one; its flags follow the handshake, and what
\* is free has nothing left of its last use.
ConnsFit ==
    /\ \A s \in Sock : sock[s] = "open" => s = active
    /\ \A s \in Sock : sock[s] = "free" => wire[s] = "quiet" /\ listed[s] = Unregistered /\ s # active
    /\ accepted => active # NoSock /\ wire[active] = "quiet"
    /\ active # NoSock /\ ~accepted => listed[active] \notin Version /\ resyncs = 0
    /\ resyncs > 0 => accepted
    /\ accepted /\ retryFor \notin {NoSock, active} => resyncs = MaxResyncs

\* The request of the hello is the last one before it is handled, and once it
\* is, only requests of its connection wait.
RequestsFit ==
    /\ \A i \in DOMAIN asked :
          /\ asked[i].for # "hello" /\ asked[i].sock = active => accepted
          /\ asked[i].for = "hello" /\ asked[i].sock = active =>
                i = Len(asked) /\ ~accepted /\ wire[active] = "quiet"
          /\ active # NoSock /\ (accepted \/ wire[active] # "quiet") => asked[i].sock = active
          /\ port = "dead" => asked[i].got = Failed

\* Requests are answered in their order, with lists that only get newer.
AnswersInOrder ==
    /\ \A i, j \in DOMAIN asked : i < j /\ asked[j].got # Waiting => asked[i].got # Waiting
    /\ \A i, j \in DOMAIN asked :
          i < j /\ asked[i].got \in Version /\ asked[j].got \in Version => asked[i].got <= asked[j].got
    /\ \A i \in DOMAIN asked : asked[i].got <= page
    /\ initial <= page
    /\ \A s \in Sock : listed[s] <= page
    /\ \A i \in DOMAIN asked :
          active # NoSock /\ listed[active] \in Version /\ asked[i].got \in Version =>
              listed[active] <= asked[i].got

\* Something behind request k will show the relay the page of now.
Mender(j) ==
    asked[j].for # "hello" /\ asked[j].sock = active /\ asked[j].got \in {Waiting, Failed, page}
Mending(k) == resigned \/ news \/ resyncs > 0 \/ \E j \in DOMAIN asked : j > k /\ Mender(j)

\* Also behind an answer that is out of date, which would otherwise take the
\* retry along that was to repair it.
StaleAnswersAreMended ==
    accepted /\ port = "live" =>
        /\ listed[active] # page /\ sock[active] = "open" => retryFor = active \/ Mending(0)
        /\ \A k \in DOMAIN asked : asked[k].got \in Version /\ asked[k].got # page => Mending(k)

\* Nobody will list tools of a dead port; the relay knows the source of a live one.
DeadIsQuiet ==
    active # NoSock /\ sock[active] = "open" =>
        /\ port = "dead" /\ ~unaware => listed[active] \notin Version /\ wire[active] = "quiet"
        /\ wire[active] = "accept" => listed[active] # Unregistered
        /\ accepted /\ port # "dead" => listed[active] # Unregistered

PushInv == TypeOK /\ ConnsFit /\ RequestsFit /\ AnswersInOrder /\ StaleAnswersAreMended /\ DeadIsQuiet

------------------------------------------------------------------------------
(* What the steps do to the requests that wait.                            *)

LEMMA AskedFacts ==
    ASSUME TypeOK
    PROVE  /\ asked \in Seq(Request) /\ Len(asked) \in Nat /\ DOMAIN asked = 1 .. Len(asked)
           /\ \A i \in DOMAIN asked : asked[i] \in Request
BY LenProperties, ElementOfSeq DEF TypeOK

\* A new request goes to the end.
LEMMA AskFacts ==
    ASSUME TypeOK, NEW why \in {"hello", "push", "retry"}, NEW s \in Sock, Ask(why, s)
    PROVE  /\ asked' \in Seq(Request) /\ Len(asked') = Len(asked) + 1
           /\ DOMAIN asked' = 1 .. Len(asked) + 1
           /\ \A i \in DOMAIN asked : asked'[i] = asked[i]
           /\ asked'[Len(asked) + 1].for = why /\ asked'[Len(asked) + 1].sock = s
           /\ asked'[Len(asked) + 1].got = IF port = "dead" THEN Failed ELSE Waiting
<1> DEFINE new == [for |-> why, sock |-> s, got |-> IF port = "dead" THEN Failed ELSE Waiting]
<1>1. new \in Request
  BY DEF Request
<1>2. asked' = Append(asked, new)
  BY DEF Ask
<1> HIDE DEF new
<1>3. /\ asked' \in Seq(Request) /\ Len(asked') = Len(asked) + 1
      /\ \A i \in 1 .. Len(asked) : asked'[i] = asked[i]
      /\ asked'[Len(asked) + 1] = new
  BY <1>1, <1>2, AppendProperties, AskedFacts
<1>4. DOMAIN asked' = 1 .. Len(asked) + 1
  BY <1>3, LenProperties
<1> QED BY <1>3, <1>4, AskedFacts DEF new

\* The first request is handled.
LEMMA PopFacts ==
    ASSUME TypeOK, asked # <<>>, asked' = Tail(asked)
    PROVE  /\ asked' \in Seq(Request) /\ Len(asked') = Len(asked) - 1 /\ Len(asked) >= 1
           /\ DOMAIN asked' = 1 .. Len(asked) - 1
           /\ \A i \in DOMAIN asked' : i + 1 \in DOMAIN asked /\ asked'[i] = asked[i + 1]
           /\ 1 \in DOMAIN asked /\ Head(asked) = asked[1] /\ asked[1] \in Request
<1>1. /\ asked' \in Seq(Request) /\ Len(asked') = Len(asked) - 1
      /\ \A i \in 1 .. Len(asked') : asked'[i] = asked[i + 1]
  BY HeadTailProperties, AskedFacts
<1>2. Len(asked) \in Nat /\ Len(asked) # 0
  BY EmptySeq, AskedFacts
<1>3. DOMAIN asked' = 1 .. Len(asked) - 1
  BY <1>1, LenProperties
<1>4. Head(asked) = asked[1]
  BY AskedFacts
<1> QED BY <1>1, <1>2, <1>3, <1>4, AskedFacts

\* The first request without an answer gets one.
LEMMA AnswerFacts ==
    ASSUME TypeOK, NEW g \in Version \cup {Failed}, Answered(g)
    PROVE  /\ asked' \in Seq(Request) /\ Len(asked') = Len(asked) /\ DOMAIN asked' = DOMAIN asked
           /\ \A i \in DOMAIN asked : asked'[i].for = asked[i].for /\ asked'[i].sock = asked[i].sock
           /\ \E i \in DOMAIN asked :
                 /\ asked[i].got = Waiting /\ asked'[i].got = g
                 /\ \A j \in DOMAIN asked : j < i => asked[j].got # Waiting
                 /\ \A j \in DOMAIN asked : j # i => asked'[j].got = asked[j].got
<1>1. PICK i \in DOMAIN asked : /\ asked[i].got = Waiting
                                /\ \A j \in DOMAIN asked : asked[j].got = Waiting => i <= j
                                /\ asked' = [asked EXCEPT ![i].got = g]
  BY DEF Answered, Unanswered
<1> DEFINE new == [asked[i] EXCEPT !.got = g]
<1>2. new \in Request /\ new.for = asked[i].for /\ new.sock = asked[i].sock /\ new.got = g
  BY AskedFacts DEF Request
<1>3. asked' = [asked EXCEPT ![i] = new]
  BY <1>1
<1> HIDE DEF new
<1>4. /\ asked' \in Seq(Request) /\ Len(asked') = Len(asked)
      /\ \A j \in 1 .. Len(asked) : asked'[j] = IF j = i THEN new ELSE asked[j]
  BY <1>1, <1>2, <1>3, ExceptSeq, AskedFacts
<1>5. DOMAIN asked' = DOMAIN asked
  BY <1>4, LenProperties, AskedFacts
<1>6. \A j \in DOMAIN asked : j < i => asked[j].got # Waiting
  BY <1>1, AskedFacts
<1> QED BY <1>1, <1>2, <1>4, <1>5, <1>6, AskedFacts

\* All of them fail.
LEMMA FailFacts ==
    ASSUME TypeOK, asked' = [i \in DOMAIN asked |-> [asked[i] EXCEPT !.got = Failed]]
    PROVE  /\ asked' \in Seq(Request) /\ Len(asked') = Len(asked) /\ DOMAIN asked' = DOMAIN asked
           /\ \A i \in DOMAIN asked : /\ asked'[i].for = asked[i].for /\ asked'[i].sock = asked[i].sock
                                      /\ asked'[i].got = Failed
<1>1. \A i \in DOMAIN asked :
         /\ [asked[i] EXCEPT !.got = Failed] \in Request
         /\ [asked[i] EXCEPT !.got = Failed].for = asked[i].for
         /\ [asked[i] EXCEPT !.got = Failed].sock = asked[i].sock
         /\ [asked[i] EXCEPT !.got = Failed].got = Failed
  BY AskedFacts DEF Request
<1>2. asked' \in [1 .. Len(asked) -> Request]
  BY <1>1, AskedFacts
<1>3. asked' \in Seq(Request)
  BY <1>2, AskedFacts, SeqDef
<1>4. Len(asked') = Len(asked)
  BY <1>2, <1>3, AskedFacts, LenProperties
<1> QED BY <1>1, <1>3, <1>4, AskedFacts

\* A push asks the page only on a connection that was accepted.
LEMMA PushFacts ==
    ASSUME NEW why, PushToolsChanged(why)
    PROVE  \/ active # NoSock /\ accepted /\ Ask(why, active)
           \/ ~(active # NoSock /\ accepted) /\ asked' = asked
BY DEF PushToolsChanged

\* News and timers ask for a push, or do nothing to the requests.
LEMMA PushesAsk ==
    ASSUME TypeOK, NewsArrive \/ ResyncFires \/ RetryFires, asked' # asked
    PROVE  /\ active # NoSock /\ accepted
           /\ Len(asked') = Len(asked) + 1 /\ DOMAIN asked' = 1 .. Len(asked) + 1
           /\ \A i \in DOMAIN asked : asked'[i] = asked[i]
           /\ asked'[Len(asked) + 1].for # "hello" /\ asked'[Len(asked) + 1].sock = active
           /\ asked'[Len(asked) + 1].got = IF port = "dead" THEN Failed ELSE Waiting
<1>1. PICK why \in {"push", "retry"} : active # NoSock /\ accepted /\ Ask(why, active)
  BY PushFacts DEF NewsArrive, ResyncFires, RetryFires
<1>2. active \in Sock
  BY <1>1 DEF TypeOK
<1> QED BY <1>1, <1>2, AskFacts

------------------------------------------------------------------------------
(* The invariant.                                                          *)

LEMMA InitSound == Init => PushInv
<1> SUFFICES ASSUME Init PROVE PushInv
  OBVIOUS
<1>1. asked = <<>> /\ asked \in Seq(Request) /\ DOMAIN asked = {}
  BY EmptySeq DEF Init
<1>2. TypeOK
  <2>1. /\ page \in Version /\ initial \in Version \cup {NoTools}
        /\ resyncs \in 0 .. MaxResyncs /\ faults \in 0 .. MaxFaults
    BY BoundsAssumption DEF Init, Version
  <2>2. /\ sock \in [Sock -> {"free", "open", "closed"}]
        /\ wire \in [Sock -> {"quiet", "hello", "accept"}]
        /\ listed \in [Sock -> Version \cup {NoTools, Unregistered}]
    BY DEF Init
  <2> QED BY <1>1, <2>1, <2>2 DEF Init, TypeOK
<1>3. ConnsFit /\ RequestsFit /\ DeadIsQuiet
  BY <1>1, SockAssumption DEF Init, ConnsFit, RequestsFit, DeadIsQuiet
<1>4. AnswersInOrder /\ StaleAnswersAreMended
  BY <1>1 DEF Init, AnswersInOrder, StaleAnswersAreMended, NoTools, Unregistered
<1> QED BY <1>2, <1>3, <1>4 DEF PushInv

LEMMA FaultFacts == ASSUME TypeOK, Fault PROVE faults' \in 0 .. MaxFaults
BY BoundsAssumption DEF TypeOK, Fault

LEMMA TypeStep ==
    ASSUME TypeOK, RequestsFit, [Next]_vars
    PROVE  TypeOK'
<1> USE DEF pageVars, pushVars, connVars, sockVars
<1>1. ASSUME PageChanges PROVE TypeOK'
  BY <1>1, BoundsAssumption DEF PageChanges, TypeOK, Version
<1>2. ASSUME PageAnswers PROVE TypeOK'
  <2>1. asked' \in Seq(Request)
    BY <1>2, AnswerFacts DEF PageAnswers, TypeOK
  <2> QED BY <1>2, <2>1 DEF PageAnswers, TypeOK
<1>3. ASSUME ListFails PROVE TypeOK'
  <2>1. asked' \in Seq(Request)
    BY <1>3, AnswerFacts DEF ListFails
  <2> QED BY <1>3, <2>1, FaultFacts DEF ListFails, TypeOK
<1>4. ASSUME NewsArrive \/ ResyncFires \/ RetryFires PROVE TypeOK'
  <2>1. asked' \in Seq(Request)
    BY <1>4, PushFacts, AskFacts DEF NewsArrive, ResyncFires, RetryFires, TypeOK
  <2>2. resyncs' \in 0 .. MaxResyncs
    BY <1>4, BoundsAssumption DEF NewsArrive, ResyncFires, RetryFires, TypeOK
  <2> QED BY <1>4, <2>1, <2>2 DEF NewsArrive, ResyncFires, RetryFires, TypeOK
<1>5. ASSUME NewsAreLost PROVE TypeOK'
  BY <1>5, FaultFacts DEF NewsAreLost, TypeOK
<1>6. ASSUME Pushed \/ PushFailed PROVE TypeOK'
  <2>1. asked' \in Seq(Request) /\ Head(asked).sock \in Sock
    BY <1>6, PopFacts DEF Pushed, PushFailed, Request
  <2> QED BY <1>6, <2>1 DEF Pushed, PushFailed, Lists, TypeOK
<1>7. ASSUME Activate PROVE TypeOK'
  <2>1. PICK s \in Sock : active' = s /\ sock' = [sock EXCEPT ![s] = "open"] /\ Ask("hello", s)
    BY <1>7 DEF Activate
  <2>2. asked' \in Seq(Request)
    BY <2>1, AskFacts
  <2> QED BY <1>7, <2>1, <2>2 DEF Activate, TypeOK
<1>8. ASSUME Hello PROVE TypeOK'
  <2>1. asked' \in Seq(Request) /\ Head(asked).sock \in Sock
    BY <1>8, PopFacts DEF Hello, Request
  <2>2. initial' \in Version \cup {NoTools}
    BY <1>8, PopFacts DEF Hello, Request, TypeOK
  <2> QED BY <1>8, <2>1, <2>2 DEF Hello, Closed, TypeOK
<1>9. ASSUME NEW s \in Sock, RelayAccepts(s) \/ HelloAccepted(s) \/ SocketClosed(s) PROVE TypeOK'
  <2>1. resyncs' \in 0 .. MaxResyncs
    BY <1>9, BoundsAssumption DEF RelayAccepts, HelloAccepted, SocketClosed, TypeOK
  <2>2. CASE RelayAccepts(s)
    BY <2>1, <2>2 DEF RelayAccepts, TypeOK
  <2>3. CASE HelloAccepted(s)
    BY <2>1, <2>3 DEF HelloAccepted, Lists, TypeOK
  <2>4. CASE SocketClosed(s)
    <3>1. /\ active' \in Sock \cup {NoSock} /\ accepted' \in BOOLEAN
          /\ retryFor' \in Sock \cup {NoSock} /\ unaware' \in BOOLEAN
      BY <2>4 DEF SocketClosed, TypeOK
    <3> QED BY <2>1, <2>4, <3>1 DEF SocketClosed, TypeOK
  <2> QED BY <1>9, <2>2, <2>3, <2>4
<1>10. ASSUME (\E s \in Sock : SocketBreaks(s)) \/ ReconnectRelay PROVE TypeOK'
  <2>1. faults' \in 0 .. MaxFaults /\ resyncs' \in 0 .. MaxResyncs
    BY <1>10, FaultFacts, BoundsAssumption DEF SocketBreaks, ReconnectRelay, TypeOK
  <2>2. sock' \in [Sock -> {"free", "open", "closed"}]
    BY <1>10 DEF SocketBreaks, ReconnectRelay, Closed, TypeOK
  <2> QED BY <1>10, <2>1, <2>2 DEF SocketBreaks, ReconnectRelay, TypeOK
<1>11. ASSUME PortBreaks PROVE TypeOK'
  BY <1>11, FaultFacts DEF PortBreaks, TypeOK
<1>12. ASSUME PortDisconnects PROVE TypeOK'
  <2>1. asked' \in Seq(Request)
    BY <1>12, FailFacts DEF PortDisconnects
  <2> QED BY <1>12, <2>1 DEF PortDisconnects, Lists, TypeOK
<1>13. ASSUME Rebuild PROVE TypeOK'
  <2>1. asked' \in Seq(Request) /\ faults' \in 0 .. MaxFaults
    BY <1>13, EmptySeq, FaultFacts DEF Rebuild, TypeOK
  <2>2. resyncs' \in 0 .. MaxResyncs
    BY <1>13, BoundsAssumption DEF Rebuild
  <2>3. sock' \in [Sock -> {"free", "open", "closed"}]
    BY <1>13 DEF Rebuild, Closed, TypeOK
  <2> QED BY <1>13, <2>1, <2>2, <2>3 DEF Rebuild, TypeOK
<1>14. ASSUME UNCHANGED vars PROVE TypeOK'
  BY <1>14 DEF vars, TypeOK
<1> QED BY <1>1, <1>2, <1>3, <1>4, <1>5, <1>6, <1>7, <1>8, <1>9, <1>10, <1>11, <1>12, <1>13, <1>14 DEF Next

LEMMA ConnsStep ==
    ASSUME PushInv, [Next]_vars
    PROVE  ConnsFit'
<1> USE DEF PushInv, pageVars, pushVars, connVars, sockVars
<1>1. ASSUME \/ PageChanges \/ PageAnswers \/ ListFails \/ NewsArrive \/ NewsAreLost \/ RetryFires
             \/ PortBreaks \/ UNCHANGED vars
      PROVE  ConnsFit'
  BY <1>1 DEF PageChanges, PageAnswers, ListFails, NewsArrive, NewsAreLost, RetryFires, PortBreaks, vars, ConnsFit
<1>2. ASSUME ResyncFires PROVE ConnsFit'
  BY <1>2 DEF ResyncFires, ConnsFit, TypeOK
<1>3. ASSUME Pushed PROVE ConnsFit'
  <2>1. Head(asked).sock = active => accepted
    BY <1>3, PopFacts DEF Pushed, RequestsFit
  <2> QED BY <1>3, <2>1, BoundsAssumption DEF Pushed, Lists, ConnsFit, TypeOK
<1>4. ASSUME PushFailed PROVE ConnsFit'
  <2>1. accepted => Head(asked).sock = active
    BY <1>4, PopFacts DEF PushFailed, RequestsFit, ConnsFit
  <2> QED BY <1>4, <2>1 DEF PushFailed, ConnsFit
<1>5. ASSUME Activate PROVE ConnsFit'
  BY <1>5, SockAssumption DEF Activate, ConnsFit, TypeOK, Version, Unregistered
<1>6. ASSUME Hello PROVE ConnsFit'
  <2>1. Head(asked).sock = active => ~accepted
    BY <1>6, PopFacts DEF Hello, RequestsFit
  <2> QED BY <1>6, <2>1 DEF Hello, Closed, ConnsFit, TypeOK
<1>7. ASSUME NEW s \in Sock, RelayAccepts(s) \/ HelloAccepted(s) PROVE ConnsFit'
  BY <1>7, SockAssumption DEF RelayAccepts, HelloAccepted, Lists, ConnsFit, TypeOK, Version, NoTools
<1>8. ASSUME NEW s \in Sock, SocketBreaks(s) \/ SocketClosed(s) PROVE ConnsFit'
  BY <1>8, SockAssumption DEF SocketBreaks, SocketClosed, Closed, ConnsFit, TypeOK
<1>9. ASSUME ReconnectRelay \/ Rebuild PROVE ConnsFit'
  BY <1>9, SockAssumption DEF ReconnectRelay, Rebuild, Closed, ConnsFit, TypeOK
<1>10. ASSUME PortDisconnects PROVE ConnsFit'
  BY <1>10 DEF PortDisconnects, Lists, ConnsFit, TypeOK
<1> QED BY <1>1, <1>2, <1>3, <1>4, <1>5, <1>6, <1>7, <1>8, <1>9, <1>10 DEF Next

LEMMA DeadStep ==
    ASSUME PushInv, [Next]_vars
    PROVE  DeadIsQuiet'
<1> USE DEF PushInv, pageVars, pushVars, connVars, sockVars
<1>1. ASSUME \/ PageChanges \/ PageAnswers \/ ListFails \/ NewsArrive \/ NewsAreLost \/ RetryFires
             \/ ResyncFires \/ PushFailed \/ PortBreaks \/ UNCHANGED vars
      PROVE  DeadIsQuiet'
  BY <1>1 DEF PageChanges, PageAnswers, ListFails, NewsArrive, NewsAreLost, RetryFires, ResyncFires,
              PushFailed, PortBreaks, vars, DeadIsQuiet
<1>2. ASSUME Pushed PROVE DeadIsQuiet'
  <2>1. port # "dead" /\ Head(asked).got \in Version
    BY <1>2, PopFacts DEF Pushed, RequestsFit, Version, Failed
  <2> QED BY <1>2, <2>1 DEF Pushed, Lists, DeadIsQuiet, TypeOK, Version, Unregistered
<1>3. ASSUME Activate PROVE DeadIsQuiet'
  BY <1>3, SockAssumption DEF Activate, ConnsFit, DeadIsQuiet, TypeOK, Version, Unregistered
<1>4. ASSUME Hello PROVE DeadIsQuiet'
  <2>1. /\ port = "dead" => Head(asked).got = Failed
        /\ Head(asked).sock = active => ~accepted
    BY <1>4, PopFacts DEF Hello, RequestsFit
  <2> QED BY <1>4, <2>1 DEF Hello, Closed, DeadIsQuiet, TypeOK
<1>5. ASSUME NEW s \in Sock, RelayAccepts(s) PROVE DeadIsQuiet'
  BY <1>5 DEF RelayAccepts, ConnsFit, DeadIsQuiet, TypeOK, Version, NoTools, Unregistered
<1>6. ASSUME NEW s \in Sock, HelloAccepted(s) PROVE DeadIsQuiet'
  BY <1>6 DEF HelloAccepted, Lists, ConnsFit, DeadIsQuiet, TypeOK, Version, NoTools, Unregistered
<1>7. ASSUME NEW s \in Sock, SocketBreaks(s) \/ SocketClosed(s) PROVE DeadIsQuiet'
  BY <1>7 DEF SocketBreaks, SocketClosed, Closed, ConnsFit, DeadIsQuiet, TypeOK
<1>8. ASSUME ReconnectRelay \/ Rebuild PROVE DeadIsQuiet'
  BY <1>8 DEF ReconnectRelay, Rebuild, DeadIsQuiet
<1>9. ASSUME PortDisconnects PROVE DeadIsQuiet'
  <2> SUFFICES ASSUME active # NoSock, sock[active] = "open"
               PROVE  /\ ~unaware' => listed'[active] \notin Version /\ wire[active] = "quiet"
                      /\ wire[active] = "accept" => listed'[active] # Unregistered
    BY <1>9 DEF PortDisconnects, DeadIsQuiet
  <2>1. CASE accepted
    <3>1. listed'[active] = Unregistered
      BY <1>9, <2>1 DEF PortDisconnects, Lists, TypeOK
    <3> QED BY <2>1, <3>1 DEF ConnsFit, Version, Unregistered
  <2>2. CASE ~accepted
    <3>1. listed' = listed /\ unaware' = (wire[active] # "quiet")
      BY <1>9, <2>2 DEF PortDisconnects
    <3> QED BY <2>2, <3>1 DEF ConnsFit, DeadIsQuiet
  <2> QED BY <2>1, <2>2
<1> QED BY <1>1, <1>2, <1>3, <1>4, <1>5, <1>6, <1>7, <1>8, <1>9 DEF Next

LEMMA RequestsStep ==
    ASSUME PushInv, [Next]_vars
    PROVE  RequestsFit'
<1> USE DEF PushInv, pageVars, pushVars, connVars, sockVars
<1>1. ASSUME PageChanges \/ NewsAreLost \/ PortBreaks \/ UNCHANGED vars PROVE RequestsFit'
  BY <1>1 DEF PageChanges, NewsAreLost, PortBreaks, vars, RequestsFit
<1>2. ASSUME PageAnswers \/ ListFails PROVE RequestsFit'
  <2>1. /\ DOMAIN asked' = DOMAIN asked /\ Len(asked') = Len(asked)
        /\ \A i \in DOMAIN asked : asked'[i].for = asked[i].for /\ asked'[i].sock = asked[i].sock
        /\ port = "dead" => \A i \in DOMAIN asked : asked'[i].got = Failed
    BY <1>2, AnswerFacts DEF PageAnswers, ListFails, TypeOK, RequestsFit, Failed, Waiting
  <2> QED BY <1>2, <2>1 DEF PageAnswers, ListFails, RequestsFit
<1>3. ASSUME NewsArrive \/ ResyncFires \/ RetryFires PROVE RequestsFit'
  <2>2. UNCHANGED <<active, accepted, wire, port>>
    BY <1>3 DEF NewsArrive, ResyncFires, RetryFires
  <2>3. CASE asked' = asked
    BY <2>2, <2>3 DEF RequestsFit
  <2>4. CASE asked' # asked
    <3>1. active # NoSock /\ accepted
      BY <1>3, <2>4, PushesAsk
    <3>2. /\ DOMAIN asked' = 1 .. Len(asked) + 1 /\ Len(asked') = Len(asked) + 1
          /\ \A i \in DOMAIN asked : asked'[i] = asked[i]
          /\ asked'[Len(asked) + 1].for # "hello" /\ asked'[Len(asked) + 1].sock = active
          /\ port = "dead" => asked'[Len(asked) + 1].got = Failed
      BY <1>3, <2>4, PushesAsk
    <3>3. \A i \in DOMAIN asked' : i \in DOMAIN asked \/ i = Len(asked) + 1
      BY <3>2, AskedFacts
    <3>4. \A i \in DOMAIN asked : ~(asked[i].for = "hello" /\ asked[i].sock = active)
      BY <3>1 DEF RequestsFit
    <3> QED BY <2>2, <3>1, <3>2, <3>3, <3>4 DEF RequestsFit
  <2> QED BY <2>3, <2>4
<1>4. ASSUME Pushed \/ PushFailed PROVE RequestsFit'
  <2>1. asked # <<>> /\ asked' = Tail(asked) /\ UNCHANGED <<active, accepted, wire, port>>
    BY <1>4 DEF Pushed, PushFailed
  <2>2. \A i \in DOMAIN asked' : i + 1 \in DOMAIN asked /\ asked'[i] = asked[i + 1]
                               /\ (i + 1 = Len(asked) => i = Len(asked'))
    BY <2>1, PopFacts, AskedFacts
  <2> QED BY <2>1, <2>2 DEF RequestsFit
<1>5. ASSUME Activate PROVE RequestsFit'
  <2>1. PICK s \in Sock : /\ sock[s] = "free" /\ active' = s /\ Ask("hello", s)
                          /\ \A i \in DOMAIN asked : asked[i].sock # s
    BY <1>5 DEF Activate
  <2>2. /\ DOMAIN asked' = 1 .. Len(asked) + 1 /\ Len(asked') = Len(asked) + 1
        /\ \A i \in DOMAIN asked : asked'[i] = asked[i]
        /\ asked'[Len(asked) + 1].for = "hello"
        /\ port = "dead" => asked'[Len(asked) + 1].got = Failed
    BY <2>1, AskFacts
  <2>3. \A i \in DOMAIN asked' : i \in DOMAIN asked \/ i = Len(asked) + 1
    BY <2>2, AskedFacts
  <2>4. ~accepted' /\ wire'[active'] = "quiet" /\ port' = port
    BY <1>5, <2>1 DEF Activate, ConnsFit
  <2> QED BY <2>1, <2>2, <2>3, <2>4 DEF RequestsFit
<1>6. ASSUME Hello PROVE RequestsFit'
  <2>1. asked # <<>> /\ asked' = Tail(asked) /\ UNCHANGED <<active, accepted, port>>
    BY <1>6 DEF Hello
  <2>2. \A i \in DOMAIN asked' : i + 1 \in DOMAIN asked /\ asked'[i] = asked[i + 1]
                               /\ (i + 1 = Len(asked) => i = Len(asked'))
    BY <2>1, PopFacts, AskedFacts
  <2>3. CASE asked[1].sock = active
    <3>1. DOMAIN asked' = {}
      BY <1>6, <2>1, <2>3, PopFacts, AskedFacts DEF Hello, RequestsFit
    <3> QED BY <3>1 DEF RequestsFit
  <2>4. CASE asked[1].sock # active
    <3>1. wire' = wire
      BY <1>6, <2>4, PopFacts DEF Hello
    <3> QED BY <2>1, <2>2, <3>1 DEF RequestsFit
  <2> QED BY <2>3, <2>4
<1>7. ASSUME NEW s \in Sock, RelayAccepts(s) \/ HelloAccepted(s) PROVE RequestsFit'
  <2>1. s = active /\ active # NoSock /\ wire[active] # "quiet"
    BY <1>7, SockAssumption DEF RelayAccepts, HelloAccepted, ConnsFit
  <2>2. \A i \in DOMAIN asked : asked[i].sock = active /\ asked[i].for # "hello" /\ accepted
    BY <2>1 DEF RequestsFit
  <2>3. DOMAIN asked = {}
    BY <2>1, <2>2 DEF ConnsFit
  <2> QED BY <1>7, <2>3 DEF RelayAccepts, HelloAccepted, RequestsFit
<1>8. ASSUME NEW s \in Sock, SocketBreaks(s) \/ SocketClosed(s) PROVE RequestsFit'
  <2>1. \A i \in DOMAIN asked : asked[i].sock \in Sock
    BY AskedFacts DEF Request
  <2> QED BY <1>8, <2>1, SockAssumption DEF SocketBreaks, SocketClosed, RequestsFit, TypeOK
<1>9. ASSUME ReconnectRelay PROVE RequestsFit'
  <2>1. \A i \in DOMAIN asked : asked[i].sock \in Sock
    BY AskedFacts DEF Request
  <2> QED BY <1>9, <2>1, SockAssumption DEF ReconnectRelay, RequestsFit
<1>10. ASSUME Rebuild PROVE RequestsFit'
  <2>1. DOMAIN asked' = {}
    BY <1>10 DEF Rebuild
  <2> QED BY <2>1 DEF RequestsFit
<1>11. ASSUME PortDisconnects PROVE RequestsFit'
  BY <1>11, FailFacts DEF PortDisconnects, RequestsFit
<1> QED BY <1>1, <1>2, <1>3, <1>4, <1>5, <1>6, <1>7, <1>8, <1>9, <1>10, <1>11 DEF Next

LEMMA OrderStep ==
    ASSUME PushInv, [Next]_vars
    PROVE  AnswersInOrder'
<1> USE DEF PushInv, pageVars, pushVars, connVars, sockVars
<1> USE DEF Version, Waiting, Failed, NoTools, Unregistered
<1>1. ASSUME PageChanges \/ NewsAreLost \/ PortBreaks \/ UNCHANGED vars PROVE AnswersInOrder'
  <2>1. page' >= page /\ page \in Int /\ UNCHANGED <<asked, initial, listed, active>>
    BY <1>1, BoundsAssumption DEF PageChanges, NewsAreLost, PortBreaks, vars, TypeOK
  <2>2. initial \in Int /\ \A s \in Sock : listed[s] \in Int
    BY BoundsAssumption DEF TypeOK
  <2>3. \A i \in DOMAIN asked : asked[i].got \in Int
    BY AskedFacts, BoundsAssumption DEF Request
  <2>4. page' \in Int
    BY <1>1, <2>1 DEF PageChanges, NewsAreLost, PortBreaks, vars
  <2>5. initial <= page' /\ \A s \in Sock : listed[s] <= page'
    BY <2>1, <2>2, <2>4 DEF AnswersInOrder
  <2>6. \A i \in DOMAIN asked : asked[i].got <= page'
    BY <2>1, <2>3, <2>4 DEF AnswersInOrder
  <2> QED BY <2>1, <2>5, <2>6 DEF AnswersInOrder
<1>2. ASSUME PageAnswers \/ ListFails PROVE AnswersInOrder'
  <2>1. UNCHANGED <<page, initial, listed, active>> /\ page \in Int /\ page >= 0
    BY <1>2, BoundsAssumption DEF PageAnswers, ListFails, TypeOK
  <2>2. PICK g \in {page, Failed} : Answered(g)
    BY <1>2 DEF PageAnswers, ListFails
  <2>3. g \in Version \cup {Failed}
    BY <2>2 DEF TypeOK
  <2>4. DOMAIN asked' = DOMAIN asked
    BY <2>2, <2>3, AnswerFacts
  <2>5. PICK n \in DOMAIN asked : /\ asked[n].got = Waiting /\ asked'[n].got = g
                                  /\ \A j \in DOMAIN asked : j < n => asked[j].got # Waiting
                                  /\ \A j \in DOMAIN asked : j # n => asked'[j].got = asked[j].got
    BY <2>2, <2>3, AnswerFacts
  <2>6. \A j \in DOMAIN asked : j > n => asked[j].got = Waiting
    BY <2>5 DEF AnswersInOrder
  <2>7. /\ g # Waiting /\ g <= page /\ (g \in Version => g = page)
        /\ listed[active] \in Version /\ active # NoSock => listed[active] <= page
    BY <2>1, <2>2 DEF AnswersInOrder, TypeOK
  <2>8. ASSUME NEW i \in DOMAIN asked, NEW j \in DOMAIN asked, i < j
        PROVE  /\ asked'[j].got # Waiting => asked'[i].got # Waiting
               /\ asked'[i].got \in Version /\ asked'[j].got \in Version => asked'[i].got <= asked'[j].got
    <3>1. CASE i = n
      <4>0. j # n /\ j > n
        BY <2>8, <3>1, AskedFacts
      <4>2. asked'[j].got = asked[j].got
        BY <2>5, <4>0
      <4>1. asked'[j].got = Waiting
        BY <2>6, <4>0, <4>2
      <4> QED BY <4>1
    <3>2. CASE j = n
      <4>1. asked'[i].got = asked[i].got /\ asked[i].got # Waiting /\ asked[i].got <= page
        BY <2>5, <2>8, <3>2, AskedFacts DEF AnswersInOrder
      <4> QED BY <2>5, <2>7, <3>2, <4>1
    <3>3. CASE i # n /\ j # n
      BY <2>5, <2>8, <3>3 DEF AnswersInOrder
    <3> QED BY <3>1, <3>2, <3>3
  <2>9. /\ \A i, j \in DOMAIN asked : i < j /\ asked'[j].got # Waiting => asked'[i].got # Waiting
        /\ \A i, j \in DOMAIN asked :
              i < j /\ asked'[i].got \in Version /\ asked'[j].got \in Version => asked'[i].got <= asked'[j].got
    BY <2>8
  <2>10. \A i \in DOMAIN asked : asked'[i].got <= page
    <3>1. \A i \in DOMAIN asked : asked[i].got <= page
      BY DEF AnswersInOrder
    <3> QED BY <2>5, <2>7, <3>1
  <2>11. \A i \in DOMAIN asked :
            active # NoSock /\ listed[active] \in Version /\ asked'[i].got \in Version =>
                listed[active] <= asked'[i].got
    <3>1. \A i \in DOMAIN asked :
             active # NoSock /\ listed[active] \in Version /\ asked[i].got \in Version =>
                 listed[active] <= asked[i].got
      BY DEF AnswersInOrder
    <3> QED BY <2>5, <2>7, <3>1
  <2> QED BY <2>1, <2>4, <2>9, <2>10, <2>11 DEF AnswersInOrder
<1>3. ASSUME NewsArrive \/ ResyncFires \/ RetryFires \/ Activate PROVE AnswersInOrder'
  <2>1. /\ UNCHANGED <<page, initial, listed>> /\ page \in Int /\ page >= 0
        /\ active' # active => listed'[active'] \notin Version
    BY <1>3, BoundsAssumption DEF NewsArrive, ResyncFires, RetryFires, Activate, ConnsFit, TypeOK
  <2>2. CASE asked' = asked
    BY <2>1, <2>2 DEF AnswersInOrder
  <2>3. CASE asked' # asked
    <3>1. /\ DOMAIN asked' = 1 .. Len(asked) + 1
          /\ \A i \in DOMAIN asked : asked'[i] = asked[i]
          /\ asked'[Len(asked) + 1].got = IF port = "dead" THEN Failed ELSE Waiting
      BY <1>3, <2>3, PushesAsk, AskFacts DEF Activate
    <3>2. \A i \in DOMAIN asked' : (i \in DOMAIN asked /\ asked'[i] = asked[i]) \/ i = Len(asked) + 1
      BY <3>1, AskedFacts
    <3>3. port = "dead" => \A i \in DOMAIN asked : asked[i].got # Waiting
      BY DEF RequestsFit
    <3>4. /\ asked'[Len(asked) + 1].got \notin Version /\ asked'[Len(asked) + 1].got <= page
          /\ asked'[Len(asked) + 1].got # Waiting => \A i \in DOMAIN asked : asked[i].got # Waiting
      BY <2>1, <3>1, <3>3
    <3>5. \A i, j \in DOMAIN asked' : i < j => i \in DOMAIN asked /\ asked'[i] = asked[i]
      BY <3>1, AskedFacts
    <3>6. /\ \A i, j \in DOMAIN asked' : i < j /\ asked'[j].got # Waiting => asked'[i].got # Waiting
          /\ \A i, j \in DOMAIN asked' :
                i < j /\ asked'[i].got \in Version /\ asked'[j].got \in Version => asked'[i].got <= asked'[j].got
      <4> HIDE DEF Version, Waiting
      <4> QED BY <3>2, <3>4, <3>5 DEF AnswersInOrder
    <3>7. /\ \A i \in DOMAIN asked' : asked'[i].got <= page'
          /\ \A i \in DOMAIN asked' :
                active' # NoSock /\ listed'[active'] \in Version /\ asked'[i].got \in Version =>
                    listed'[active'] <= asked'[i].got
      <4> HIDE DEF Version, Waiting
      <4> QED BY <2>1, <3>2, <3>4 DEF AnswersInOrder
    <3> QED BY <2>1, <3>6, <3>7 DEF AnswersInOrder
  <2> QED BY <2>2, <2>3
<1>4. ASSUME Pushed \/ PushFailed \/ Hello PROVE AnswersInOrder'
  <2>1. asked # <<>> /\ asked' = Tail(asked) /\ UNCHANGED <<page, active>>
    BY <1>4 DEF Pushed, PushFailed, Hello
  <2>2. \A i \in DOMAIN asked' : i + 1 \in DOMAIN asked /\ asked'[i] = asked[i + 1] /\ 1 < i + 1 /\ i \in Int
    BY <2>1, PopFacts, AskedFacts
  <2>3. 1 \in DOMAIN asked /\ Head(asked) = asked[1] /\ asked[1].sock \in Sock
    BY <2>1, PopFacts DEF Request
  <2>4. initial' <= page
    BY <1>4, <2>3 DEF Pushed, PushFailed, Hello, AnswersInOrder
  <2>5. /\ \A s \in Sock : listed'[s] <= page
        /\ \A i \in DOMAIN asked :
              i > 1 /\ active # NoSock /\ listed'[active] \in Version /\ asked[i].got \in Version =>
                  listed'[active] <= asked[i].got
    <3>1. CASE listed' = listed
      BY <3>1 DEF AnswersInOrder
    <3>2. CASE Pushed /\ sock[asked[1].sock] = "open"
      <4>1. listed' = [listed EXCEPT ![asked[1].sock] = asked[1].got] /\ asked[1].got \in Version
        BY <2>3, <3>2 DEF Pushed, Lists
      <4>2. asked[1].sock = active
        BY <2>3, <3>2 DEF ConnsFit
      <4>3. asked[1].got <= page /\ \A i \in DOMAIN asked :
               i > 1 /\ asked[i].got \in Version => asked[1].got <= asked[i].got
        BY <2>3, <4>1 DEF AnswersInOrder
      <4> QED BY <2>3, <4>1, <4>2, <4>3 DEF AnswersInOrder, TypeOK
    <3> QED BY <1>4, <2>3, <3>1, <3>2 DEF Pushed, PushFailed, Hello, Lists
  <2>6. /\ \A i, j \in DOMAIN asked' : i < j => i + 1 < j + 1
        /\ \A i \in DOMAIN asked' : i + 1 > 1
    BY <2>2
  <2>7. \A i, j \in DOMAIN asked' : i < j /\ asked'[j].got # Waiting => asked'[i].got # Waiting
    BY <2>2, <2>6 DEF AnswersInOrder
  <2>8. \A i, j \in DOMAIN asked' :
           i < j /\ asked'[i].got \in Version /\ asked'[j].got \in Version => asked'[i].got <= asked'[j].got
    BY <2>2, <2>6 DEF AnswersInOrder
  <2>9. /\ \A i \in DOMAIN asked' : asked'[i].got <= page
        /\ \A i \in DOMAIN asked' :
              active # NoSock /\ listed'[active] \in Version /\ asked'[i].got \in Version =>
                  listed'[active] <= asked'[i].got
    BY <2>2, <2>5, <2>6 DEF AnswersInOrder
  <2> QED BY <2>1, <2>4, <2>5, <2>7, <2>8, <2>9 DEF AnswersInOrder
<1>5. ASSUME NEW s \in Sock, RelayAccepts(s) PROVE AnswersInOrder'
  <2>1. UNCHANGED <<page, asked, initial, active>> /\ listed' = [listed EXCEPT ![s] = NoTools]
    BY <1>5 DEF RelayAccepts
  <2>2. page >= 0 /\ page \in Int
    BY BoundsAssumption DEF TypeOK
  <2>3. \A t \in Sock : listed'[t] <= page /\ (listed'[t] \in Version => listed'[t] = listed[t])
    BY <2>1, <2>2 DEF AnswersInOrder, TypeOK
  <2> QED BY <2>1, <2>3 DEF AnswersInOrder, TypeOK
<1>6. ASSUME NEW s \in Sock, HelloAccepted(s) PROVE AnswersInOrder'
  <2>1. s = active /\ active # NoSock /\ wire[active] # "quiet"
    BY <1>6, SockAssumption DEF HelloAccepted, ConnsFit
  <2>2. \A i \in DOMAIN asked : asked[i].sock = active /\ asked[i].for # "hello" /\ accepted
    BY <2>1 DEF RequestsFit
  <2>3. DOMAIN asked = {}
    BY <2>1, <2>2 DEF ConnsFit
  <2>4. page >= 0 /\ page \in Int
    BY BoundsAssumption DEF TypeOK
  <2>5. /\ UNCHANGED <<page, asked, active>> /\ initial' = NoTools
        /\ listed' = [listed EXCEPT ![s] = initial]
    BY <1>6 DEF HelloAccepted, Lists
  <2> QED BY <2>3, <2>4, <2>5 DEF AnswersInOrder, TypeOK
<1>7. ASSUME NEW s \in Sock, SocketBreaks(s) \/ SocketClosed(s) PROVE AnswersInOrder'
  <2>1. /\ UNCHANGED <<page, asked, initial>> /\ active' \in {active, NoSock}
        /\ listed' = listed \/ listed' = [listed EXCEPT ![s] = Unregistered]
    BY <1>7 DEF SocketBreaks, SocketClosed
  <2>2. page >= 0 /\ page \in Int
    BY BoundsAssumption DEF TypeOK
  <2>3. \A t \in Sock : listed'[t] <= page /\ (listed'[t] \in Version => listed'[t] = listed[t])
    BY <2>1, <2>2 DEF AnswersInOrder, TypeOK
  <2> QED BY <2>1, <2>3 DEF AnswersInOrder, TypeOK
<1>8. ASSUME ReconnectRelay PROVE AnswersInOrder'
  BY <1>8 DEF ReconnectRelay, AnswersInOrder
<1>9. ASSUME Rebuild PROVE AnswersInOrder'
  <2>1. DOMAIN asked' = {} /\ UNCHANGED <<page, listed>> /\ initial' = NoTools /\ page >= 0 /\ page \in Int
    BY <1>9, BoundsAssumption DEF Rebuild, TypeOK
  <2> QED BY <2>1 DEF AnswersInOrder
<1>10. ASSUME PortDisconnects PROVE AnswersInOrder'
  <2>1. /\ DOMAIN asked' = DOMAIN asked /\ UNCHANGED <<page, initial, active>>
        /\ \A i \in DOMAIN asked : asked'[i].got = Failed
    BY <1>10, FailFacts DEF PortDisconnects
  <2>2. listed' = listed \/ (active \in Sock /\ listed' = [listed EXCEPT ![active] = Unregistered])
    <3>1. active # NoSock => active \in Sock
      BY DEF TypeOK
    <3> QED BY <1>10, <3>1 DEF PortDisconnects, Lists
  <2>3. page >= 0 /\ page \in Int
    BY BoundsAssumption DEF TypeOK
  <2>4. \A t \in Sock : listed'[t] <= page
    BY <2>2, <2>3 DEF AnswersInOrder, TypeOK
  <2> QED BY <2>1, <2>3, <2>4 DEF AnswersInOrder
<1> QED BY <1>1, <1>2, <1>3, <1>4, <1>5, <1>6, <1>7, <1>8, <1>9, <1>10 DEF Next

\* A push that was asked for will show the page of now.
LEMMA AskingMends ==
    ASSUME PushInv, accepted, port = "live", port' = port, UNCHANGED <<page, active>>,
           NEW why \in {"push", "retry"}, PushToolsChanged(why)
    PROVE  /\ Mending(0)'
           /\ \A k \in DOMAIN asked' : asked'[k].got \in Version => Mending(k)'
<1>0. PICK n \in Nat : n = Len(asked) + 1
  BY AskedFacts DEF PushInv
<1>1. active \in Sock /\ Ask(why, active)
  BY PushFacts DEF PushInv, ConnsFit, TypeOK
<1>2. /\ DOMAIN asked' = 1 .. n /\ Len(asked) \in Nat
      /\ asked'[n].for # "hello" /\ asked'[n].sock = active /\ asked'[n].got = Waiting
  BY <1>0, <1>1, AskFacts, AskedFacts DEF PushInv
<1>3. n \in DOMAIN asked' /\ n > 0 /\ Mender(n)'
  BY <1>0, <1>2 DEF Mender
<1>4. ASSUME NEW k \in DOMAIN asked', asked'[k].got \in Version PROVE Mending(k)'
  <2>1. k # n
    BY <1>2, <1>4 DEF Version, Waiting
  <2>2. n > k
    BY <1>0, <1>2, <2>1
  <2> QED BY <1>3, <2>2 DEF Mending
<1> QED BY <1>3, <1>4 DEF Mending

LEMMA MendedStep ==
    ASSUME PushInv, [Next]_vars
    PROVE  StaleAnswersAreMended'
<1> USE DEF PushInv, pageVars, pushVars, connVars, sockVars
<1>1. ASSUME PageChanges PROVE StaleAnswersAreMended'
  BY <1>1 DEF PageChanges, StaleAnswersAreMended, Mending
<1>2. ASSUME PageAnswers \/ ListFails PROVE StaleAnswersAreMended'
  <2>1. PICK g \in {page, Failed} : Answered(g)
    BY <1>2 DEF PageAnswers, ListFails
  <2>2. g \in Version \cup {Failed}
    BY <2>1 DEF TypeOK
  <2>3. UNCHANGED <<page, news, port, pushVars, connVars, sockVars, resigned>>
    BY <1>2 DEF PageAnswers, ListFails
  <2>4. /\ DOMAIN asked' = DOMAIN asked
        /\ \A i \in DOMAIN asked : asked'[i].for = asked[i].for /\ asked'[i].sock = asked[i].sock
        /\ \A i \in DOMAIN asked :
              asked'[i].got = asked[i].got \/ (asked[i].got = Waiting /\ asked'[i].got = g)
    BY <2>1, <2>2, AnswerFacts
  <2>5. \A j \in DOMAIN asked : Mender(j) => Mender(j)'
    BY <2>1, <2>3, <2>4 DEF Mender
  <2>6. \A k : Mending(k) => Mending(k)'
    BY <2>3, <2>4, <2>5 DEF Mending
  <2>7. \A k \in DOMAIN asked : asked'[k].got \in Version /\ asked'[k].got # page => asked'[k].got = asked[k].got
    BY <2>1, <2>4 DEF Version, Failed
  <2> QED BY <2>3, <2>4, <2>6, <2>7 DEF StaleAnswersAreMended
<1>3. ASSUME NewsArrive \/ ResyncFires PROVE StaleAnswersAreMended'
  <2>1. PushToolsChanged("push") /\ UNCHANGED <<page, port, active, accepted>>
    BY <1>3 DEF NewsArrive, ResyncFires
  <2> QED BY <2>1, AskingMends DEF StaleAnswersAreMended
<1>4. ASSUME RetryFires PROVE StaleAnswersAreMended'
  <2>1. UNCHANGED <<page, news, port, active, accepted, resyncs, sock, listed, resigned>> /\ retryFor # NoSock
    BY <1>4 DEF RetryFires
  <2>2. CASE active = retryFor
    <3>1. PushToolsChanged("retry")
      BY <1>4, <2>2 DEF RetryFires
    <3> QED BY <2>1, <3>1, AskingMends DEF StaleAnswersAreMended
  <2>3. CASE active # retryFor
    <3>1. asked' = asked
      BY <1>4, <2>3 DEF RetryFires
    <3> QED BY <2>1, <2>3, <3>1 DEF StaleAnswersAreMended, Mending, Mender
  <2> QED BY <2>2, <2>3
<1>5. ASSUME NewsAreLost PROVE StaleAnswersAreMended'
  <2>1. accepted => resigned' \/ resyncs' > 0
    <3>1. resyncs = 0 \/ resyncs > 0
      BY DEF TypeOK
    <3> QED BY <1>5, <3>1 DEF NewsAreLost
  <2>2. accepted' = accepted
    BY <1>5 DEF NewsAreLost
  <2> QED BY <2>1, <2>2 DEF StaleAnswersAreMended, Mending
<1>6. ASSUME Pushed \/ PushFailed, accepted PROVE StaleAnswersAreMended'
  <2>1. /\ asked # <<>> /\ asked' = Tail(asked)
        /\ UNCHANGED <<page, news, port, resyncs, active, accepted, sock>>
    BY <1>6 DEF Pushed, PushFailed
  <2>2. /\ \A i \in DOMAIN asked' : i + 1 \in DOMAIN asked /\ asked'[i] = asked[i + 1] /\ i + 1 > 1 /\ i \in Int
        /\ \A j \in DOMAIN asked : j > 1 => j - 1 \in DOMAIN asked' /\ asked'[j - 1] = asked[j] /\ j \in Int
        /\ 1 \in DOMAIN asked /\ Head(asked) = asked[1]
    BY <2>1, PopFacts, AskedFacts
  <2>3. asked[1].sock = active /\ active \in Sock /\ asked[1].for # "hello"
    BY <1>6, <2>2 DEF RequestsFit, ConnsFit, TypeOK
  <2>4. \A j \in DOMAIN asked : j > 1 /\ Mender(j) => Mender(j - 1)'
    BY <2>1, <2>2 DEF Mender
  <2>5. ASSUME NEW k \in DOMAIN asked, Mending(k), resigned => resigned' PROVE Mending(k - 1)'
    <3>1. CASE resigned \/ news \/ resyncs > 0
      BY <2>1, <2>5, <3>1 DEF Mending
    <3>2. CASE \E j \in DOMAIN asked : j > k /\ Mender(j)
      <4>1. PICK j \in DOMAIN asked : j > k /\ Mender(j)
        BY <3>2
      <4>2. j > 1 /\ j - 1 > k - 1
        BY <4>1, AskedFacts
      <4> QED BY <2>2, <2>4, <4>1, <4>2 DEF Mending
    <3> QED BY <2>5, <3>1, <3>2 DEF Mending
  <2>6. ASSUME NEW k \in DOMAIN asked, asked[k].got \in Version, asked[k].got # page, port = "live"
        PROVE  Mending(k - 1)'
    <3>1. Mending(k)
      BY <1>6, <2>6 DEF StaleAnswersAreMended
    <3>2. resigned => resigned'
      <4>1. CASE PushFailed
        BY <4>1 DEF PushFailed
      <4>2. CASE Pushed
        <5>1. asked[1].got \in Version /\ asked[1].got <= asked[k].got /\ asked[k].got <= page
          <6>1. k = 1 \/ 1 < k
            BY AskedFacts
          <6>2. asked[1].got \in Version
            BY <2>2, <4>2 DEF Pushed
          <6>3. asked[1].got <= asked[1].got
            BY <6>2 DEF Version
          <6> QED BY <2>2, <2>6, <6>1, <6>2, <6>3 DEF AnswersInOrder
        <5>2. asked[1].got # page
          BY <2>6, <5>1 DEF Version
        <5> QED BY <2>2, <4>2, <5>2 DEF Pushed
      <4> QED BY <1>6, <4>1, <4>2
    <3> QED BY <2>5, <3>1, <3>2
  <2>7. \A k \in DOMAIN asked' : port' = "live" /\ asked'[k].got \in Version /\ asked'[k].got # page => Mending(k)'
    <3> SUFFICES ASSUME NEW k \in DOMAIN asked', port = "live", asked'[k].got \in Version, asked'[k].got # page
                 PROVE  Mending(k)'
      BY <2>1
    <3>1. k + 1 \in DOMAIN asked /\ asked'[k] = asked[k + 1] /\ (k + 1) - 1 = k
      BY <2>2
    <3>2. Mending((k + 1) - 1)'
      BY <2>6, <3>1
    <3> QED BY <3>1, <3>2
  <2>8. ASSUME port = "live", listed'[active] # page, sock[active] = "open"
        PROVE  retryFor' = active \/ Mending(0)'
    <3>1. CASE Pushed
      <4>1. listed' = [listed EXCEPT ![active] = asked[1].got] /\ asked[1].got \in Version
        BY <2>2, <2>3, <2>8, <3>1 DEF Pushed, Lists
      <4>2. asked[1].got # page
        BY <2>3, <2>8, <4>1 DEF TypeOK
      <4>3. Mending(1 - 1)'
        BY <2>2, <2>6, <2>8, <4>1, <4>2
      <4> QED BY <4>3
    <3>2. CASE PushFailed
      <4>1. /\ asked[1].got = Failed /\ listed' = listed
            /\ retryFor' = IF asked[1].for = "push" /\ retryFor = NoSock THEN active ELSE retryFor
            /\ resigned' = (resigned \/ asked[1].for = "retry")
            /\ asked[1].for \in {"push", "retry"}
        BY <2>2, <2>3, <3>2 DEF PushFailed
      <4>2. retryFor = active \/ Mending(0)
        BY <1>6, <2>8, <4>1 DEF StaleAnswersAreMended
      <4>3. CASE retryFor = active
        BY <2>3, <4>1, <4>3, SockAssumption
      <4>4. CASE resigned \/ news \/ resyncs > 0
        BY <2>1, <4>1, <4>4 DEF Mending
      <4>5. CASE \E j \in DOMAIN asked : j > 1 /\ Mender(j)
        <5>1. PICK j \in DOMAIN asked : j > 1 /\ Mender(j)
          BY <4>5
        <5>2. j - 1 > 0
          BY <5>1, AskedFacts
        <5> QED BY <2>2, <2>4, <5>1, <5>2 DEF Mending
      <4>6. CASE Mender(1)
        <5>1. CASE asked[1].for = "retry"
          BY <4>1, <5>1 DEF Mending
        <5>2. CASE asked[1].for = "push" /\ retryFor = NoSock
          BY <4>1, <5>2
        <5>3. CASE retryFor \notin {NoSock, active}
          BY <1>6, <2>1, <5>3, BoundsAssumption DEF ConnsFit, Mending
        <5> QED BY <4>1, <4>3, <5>1, <5>2, <5>3
      <4>7. \A j \in DOMAIN asked : j = 1 \/ j > 1
        BY AskedFacts
      <4> QED BY <4>2, <4>3, <4>4, <4>5, <4>6, <4>7 DEF Mending
    <3> QED BY <1>6, <3>1, <3>2
  <2> QED BY <2>1, <2>7, <2>8 DEF StaleAnswersAreMended
<1>7. ASSUME Pushed \/ PushFailed, ~accepted PROVE StaleAnswersAreMended'
  BY <1>7 DEF Pushed, PushFailed, StaleAnswersAreMended
<1>8. ASSUME Activate \/ ReconnectRelay \/ Rebuild PROVE StaleAnswersAreMended'
  BY <1>8 DEF Activate, ReconnectRelay, Rebuild, ConnsFit, StaleAnswersAreMended
<1>9. ASSUME Hello PROVE StaleAnswersAreMended'
  <2>1. 1 \in DOMAIN asked /\ asked[1].for = "hello"
    BY <1>9, PopFacts DEF Hello
  <2>2. ~accepted /\ accepted' = accepted
    BY <1>9, <2>1 DEF Hello, RequestsFit, ConnsFit
  <2> QED BY <2>2 DEF StaleAnswersAreMended
<1>10. ASSUME NEW s \in Sock, RelayAccepts(s) PROVE StaleAnswersAreMended'
  BY <1>10 DEF RelayAccepts, ConnsFit, StaleAnswersAreMended
<1>11. ASSUME NEW s \in Sock, HelloAccepted(s) PROVE StaleAnswersAreMended'
  BY <1>11, BoundsAssumption DEF HelloAccepted, StaleAnswersAreMended, Mending
<1>12. ASSUME NEW s \in Sock, SocketBreaks(s) PROVE StaleAnswersAreMended'
  <2>1. s = active /\ sock'[active] # "open" /\ UNCHANGED <<page, news, port, asked, resyncs, active, accepted, resigned>>
    BY <1>12, SockAssumption DEF SocketBreaks, Closed, ConnsFit, TypeOK
  <2> QED BY <2>1 DEF StaleAnswersAreMended, Mending, Mender
<1>13. ASSUME NEW s \in Sock, SocketClosed(s) PROVE StaleAnswersAreMended'
  <2>1. CASE active = s
    BY <1>13, <2>1 DEF SocketClosed, StaleAnswersAreMended
  <2>2. CASE active # s
    <3>1. /\ UNCHANGED <<page, news, port, asked, resyncs, retryFor, active, accepted, resigned>>
          /\ sock' = [sock EXCEPT ![s] = "free"] /\ listed' = [listed EXCEPT ![s] = Unregistered]
      BY <1>13, <2>2 DEF SocketClosed
    <3>2. accepted => active \in Sock
      BY DEF ConnsFit, TypeOK
    <3>3. accepted => sock'[active] = sock[active] /\ listed'[active] = listed[active]
      BY <2>2, <3>1, <3>2 DEF TypeOK
    <3> QED BY <3>1, <3>3 DEF StaleAnswersAreMended, Mending, Mender
  <2> QED BY <2>1, <2>2
<1>14. ASSUME PortBreaks \/ PortDisconnects PROVE StaleAnswersAreMended'
  BY <1>14 DEF PortBreaks, PortDisconnects, StaleAnswersAreMended
<1>15. ASSUME UNCHANGED vars PROVE StaleAnswersAreMended'
  BY <1>15 DEF vars, StaleAnswersAreMended, Mending, Mender
<1> QED BY <1>1, <1>2, <1>3, <1>4, <1>5, <1>6, <1>7, <1>8, <1>9, <1>10, <1>11, <1>12, <1>13, <1>14, <1>15 DEF Next

------------------------------------------------------------------------------
(* Theorems.                                                               *)

\* The invariant, from which the rest follows.
THEOREM PushInvariant == SafetySpec => []PushInv
<1>1. PushInv /\ [Next]_vars => PushInv'
  BY TypeStep, ConnsStep, RequestsStep, OrderStep, MendedStep, DeadStep DEF PushInv
<1> QED BY <1>1, InitSound, PTL DEF SafetySpec

\* PushesAreSound for any bounds: the state is well typed, resyncs belong to an
\* accepted connection, a page the relay has an old list of is about to be told of
\* unless the pushes gave up, no tools are sent for a source that was removed, and
\* those of a port that is known to be dead are not listed, but for one that died
\* while the hello was under way.
THEOREM PushesSound == Spec => []PushesAreSound
<1>1. ASSUME PushInv PROVE StaleIsMended
  <2> SUFFICES ASSUME accepted, sock[active] = "open", port = "live", listed[active] # page,
                      ~resigned, ~news, ~(resyncs > 0), retryFor # active
               PROVE  \E i \in DOMAIN asked : Mender(i)
    BY DEF StaleIsMended, Mender
  <2> QED BY <1>1 DEF PushInv, StaleAnswersAreMended, Mending
<1>2. ASSUME PushInv PROVE ToolsAreWelcome
  <2>1. ASSUME NEW i \in DOMAIN asked, asked[i].for # "hello", asked[i].got \in Version,
               sock[asked[i].sock] = "open"
        PROVE  listed[asked[i].sock] # Unregistered
    <3>1. asked[i].sock \in Sock
      BY <1>2, AskedFacts DEF PushInv, Request
    <3>2. asked[i].sock = active
      BY <1>2, <2>1, <3>1 DEF PushInv, ConnsFit
    <3>3. accepted /\ active # NoSock /\ port # "dead"
      BY <1>2, <2>1, <3>1, <3>2, SockAssumption DEF PushInv, RequestsFit, Version, Failed
    <3> QED BY <1>2, <2>1, <3>2, <3>3 DEF PushInv, DeadIsQuiet
  <2>2. ASSUME NEW s \in Sock, sock[s] = "open", wire[s] = "accept" PROVE listed[s] # Unregistered
    BY <1>2, <2>2, SockAssumption DEF PushInv, ConnsFit, DeadIsQuiet
  <2> QED BY <2>1, <2>2 DEF ToolsAreWelcome
<1>3. ASSUME PushInv PROVE ResyncsAreOwned
  BY <1>3 DEF PushInv, ConnsFit, ResyncsAreOwned
<1>4. PushInv => DeadPortsAreReported
  BY DEF PushInv, DeadIsQuiet, DeadPortsAreReported
<1>5. PushInv => PushesAreSound
  BY <1>1, <1>2, <1>3, <1>4 DEF PushInv, PushesAreSound
<1> QED BY <1>5, PushInvariant, PTL DEF Spec

\* What the relay lists for a connection never goes back.
THEOREM ForwardOnly == Spec => ListsMoveForward
<1> DEFINE Forward == \A s \in Sock : listed[s] \in Version /\ listed'[s] \in Version => listed'[s] >= listed[s]
<1>1. ASSUME PushInv, [Next]_vars PROVE Forward
  <2> USE <1>1 DEF PushInv, pageVars, pushVars, connVars, sockVars
  <2>1. CASE listed' = listed
    BY <2>1 DEF Version
  <2>2. ASSUME NEW s \in Sock, NEW v, listed' = [listed EXCEPT ![s] = v], v \notin Version \/ listed[s] \notin Version
        PROVE  Forward
    BY <2>2 DEF Version, TypeOK
  <2>3. CASE Pushed /\ listed' # listed
    <3>1. 1 \in DOMAIN asked /\ Head(asked) = asked[1] /\ asked[1].sock \in Sock
      BY <2>3, PopFacts DEF Pushed, Request
    <3>2. asked[1].sock = active /\ active \in Sock /\ asked[1].got \in Version
          /\ listed' = [listed EXCEPT ![active] = asked[1].got]
      BY <2>3, <3>1 DEF Pushed, Lists, ConnsFit
    <3>3. listed[active] \in Version => listed[active] <= asked[1].got
      BY <3>1, <3>2, SockAssumption DEF AnswersInOrder
    <3> QED BY <3>2, <3>3 DEF Version, TypeOK
  <2>4. ASSUME NEW s \in Sock, RelayAccepts(s) \/ SocketClosed(s) PROVE Forward
    BY <2>2, <2>4 DEF RelayAccepts, SocketClosed, Version, NoTools, Unregistered
  <2>5. ASSUME NEW s \in Sock, HelloAccepted(s) PROVE Forward
    <3>1. s = active /\ active # NoSock /\ ~accepted
      BY <2>5, SockAssumption DEF HelloAccepted, ConnsFit
    <3> QED BY <2>2, <2>5, <3>1 DEF HelloAccepted, Lists, ConnsFit
  <2>6. CASE PortDisconnects /\ listed' # listed
    <3>1. active \in Sock /\ listed' = [listed EXCEPT ![active] = Unregistered]
      BY <2>6 DEF PortDisconnects, Lists, TypeOK
    <3> QED BY <2>2, <3>1 DEF Version, Unregistered
  <2> QED BY <2>1, <2>3, <2>4, <2>5, <2>6
      DEF Next, vars, PageChanges, PageAnswers, ListFails, NewsArrive, NewsAreLost, ResyncFires, RetryFires,
          PushFailed, Activate, Hello, ReconnectRelay, SocketBreaks, PortBreaks, Rebuild
<1>2. PushInv /\ [Next]_vars => [Forward]_vars
  BY <1>1
<1> QED BY <1>2, PushInvariant, PTL DEF Spec, SafetySpec, ListsMoveForward

==============================================================================
