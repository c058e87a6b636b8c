------------------------------- MODULE ToolPush -------------------------------
(***************************************************************************)
(* How the relay learns the tools of one tab: the port to its page and the *)
(* requests that wait on it (createPortToolsFacade), the tools the client  *)
(* brings along when it says hello, and the pushes after that: on news of  *)
(* the page, by the timers that resync after a hello, and once again when  *)
(* a push failed (relay-source-client.ts).                                 *)
(*                                                                         *)
(* A list of tools is the version of it the page offers.  Finding a relay  *)
(* is one step here, SourceClient has its detail; so is the healing of a   *)
(* dead port, of which TabSources has the detail.  Messages of a port, and *)
(* the answers to its requests, arrive in the order of their sending.      *)
(* What a client sends on an open socket the relay has at once; what the   *)
(* relay sends takes time.  A fault is a list that fails or takes longer   *)
(* than a request may, news that get lost, a socket or a port that breaks, *)
(* or a user who refreshes either; MaxFaults bounds them.  Calls of tools, *)
(* which share the port, are left out.                                     *)
(***************************************************************************)
EXTENDS Integers, Sequences, FiniteSets

CONSTANTS
    Sock,
    NoSock,
    MaxResyncs,  \* the length of INITIAL_RESYNC_DELAYS_MS
    MaxChanges,  \* bound on the changes of the page's tools
    MaxFaults

ASSUME SockAssumption == NoSock \notin Sock
ASSUME BoundsAssumption == MaxResyncs \in Nat \ {0} /\ MaxChanges \in Nat /\ MaxFaults \in Nat

Version == 0 .. MaxChanges

\* What a request waiting on the port may have instead of a list.
Waiting == -1
Failed  == -2

\* What the relay may have of a socket's source instead of tools.
NoTools      == -1
Unregistered == -2

Request == [for : {"hello", "push", "retry"}, sock : Sock, got : Version \cup {Waiting, Failed}]

VARIABLES
    \* The page and its port.
    page,      \* the tools it offers
    news,      \* a change that toolsChanged is to tell of, or is telling of
    port,      \* live, cut (the page's end is gone) or dead (onDisconnect was delivered)
    asked,     \* the requests that wait, in their order, with the answers on the way
    \* The client.
    active,    \* activeSocket
    accepted,  \* helloAccepted
    initial,   \* pendingInitialTools
    resyncs,   \* how many of the resyncTimers are left
    retryFor,  \* the socket pushRetryTimer was set for, or NoSock
    \* Sockets, and the relay.
    sock,      \* socket |-> free, open or closed (its 'close' event is to come)
    wire,      \* socket |-> quiet, hello or accept, what is on the way on it
    listed,    \* socket |-> what the relay lists for it
    \* Bounds and history.
    faults,
    resigned,  \* a retry failed, or news were lost when no timer was left, and no push
               \* has shown the page's tools since
    unaware    \* the port died between the list of the hello and hello/accepted

pageVars == <<page, news, port, asked>>
pushVars == <<initial, resyncs, retryFor>>
connVars == <<active, accepted>>
sockVars == <<sock, wire, listed>>
vars == <<pageVars, pushVars, connVars, sockVars, faults, resigned, unaware>>

Init ==
    /\ page = 0 /\ news = FALSE /\ port = "live" /\ asked = <<>>
    /\ active = NoSock /\ accepted = FALSE
    /\ initial = NoTools /\ resyncs = 0 /\ retryFor = NoSock
    /\ sock = [s \in Sock |-> "free"]
    /\ wire = [s \in Sock |-> "quiet"]
    /\ listed = [s \in Sock |-> Unregistered]
    /\ faults = 0 /\ resigned = FALSE /\ unaware = FALSE

Fault == faults < MaxFaults /\ faults' = faults + 1

------------------------------------------------------------------------------
(* The page, and requests to it.                                           *)

\* facade.listTools(): postMessage throws when the port is known to be dead.
Ask(why, s) ==
    asked' = Append(asked, [for |-> why, sock |-> s,
                            got |-> IF port = "dead" THEN Failed ELSE Waiting])

Unanswered == {i \in DOMAIN asked : asked[i].got = Waiting}

\* The request that has waited longest gets its answer, or fails.
Answered(got) ==
    \E i \in Unanswered :
        /\ \A j \in Unanswered : i <= j
        /\ asked' = [asked EXCEPT ![i].got = got]

PageChanges ==
    /\ page < MaxChanges
    /\ page' = page + 1
    /\ news' = (port = "live")
    /\ UNCHANGED <<port, asked, pushVars, connVars, sockVars, faults, resigned, unaware>>

PageAnswers ==
    /\ port = "live"
    /\ Answered(page)
    /\ UNCHANGED <<page, news, port, pushVars, connVars, sockVars, faults, resigned, unaware>>

\* The page answers with an error, or not within INVOKE_TIMEOUT_MS.
ListFails ==
    /\ Fault
    /\ Answered(Failed)
    /\ UNCHANGED <<page, news, port, pushVars, connVars, sockVars, resigned, unaware>>

------------------------------------------------------------------------------
(* Pushes.                                                                 *)

\* Mutant: news are pushed before the hello was accepted, too.
Bug_PushToolsChanged(why) ==
    IF active # NoSock THEN Ask(why, active) ELSE UNCHANGED asked

\* pushToolsChanged, up to its await.
PushToolsChanged(why) ==
    IF active # NoSock /\ accepted THEN Ask(why, active) ELSE UNCHANGED asked

NewsArrive ==
    /\ news /\ port = "live"
    /\ news' = FALSE
    /\ PushToolsChanged("push")
    /\ UNCHANGED <<page, port, pushVars, connVars, sockVars, faults, resigned, unaware>>

\* The client of the content script fails to refresh, and tells nobody.
NewsAreLost ==
    /\ news
    /\ Fault
    /\ news' = FALSE
    /\ resigned' = (resigned \/ (accepted /\ resyncs = 0))
    /\ UNCHANGED <<page, port, asked, pushVars, connVars, sockVars, unaware>>

\* A timer of scheduleInitialResync.  The first of them takes longer than a
\* retry does that an earlier connection left behind.
ResyncFires ==
    /\ resyncs > 0
    /\ retryFor \in {NoSock, active}
    /\ resyncs' = resyncs - 1
    /\ PushToolsChanged("push")
    /\ UNCHANGED <<page, news, port, initial, retryFor, connVars, sockVars, faults, resigned, unaware>>

RetryFires ==
    /\ retryFor # NoSock
    /\ retryFor' = NoSock
    /\ IF active = retryFor THEN PushToolsChanged("retry") ELSE UNCHANGED asked
    /\ UNCHANGED <<page, news, port, initial, resyncs, connVars, sockVars, faults, resigned, unaware>>

\* What the relay lists for a socket when it was sent these tools, or the end of
\* the source, on it. (ToolsAreWelcome says that it knows the source then.)
Lists(s, tools) ==
    IF sock[s] = "open" THEN [listed EXCEPT ![s] = tools] ELSE listed

Pushed ==
    /\ asked # <<>> /\ Head(asked).for \in {"push", "retry"} /\ Head(asked).got \in Version
    /\ asked' = Tail(asked)
    /\ listed' = Lists(Head(asked).sock, Head(asked).got)
    /\ retryFor' = NoSock
    /\ resigned' = (resigned /\ ~(Head(asked).sock = active /\ Head(asked).got = page))
    /\ UNCHANGED <<page, news, port, initial, resyncs, connVars, sock, wire, faults, unaware>>

\* Mutant: the guard against storms of retries is the wrong way round.
Bug_PushFailed ==
    /\ asked # <<>> /\ Head(asked).for \in {"push", "retry"} /\ Head(asked).got = Failed
    /\ asked' = Tail(asked)
    /\ retryFor' = IF Head(asked).for = "retry" /\ retryFor = NoSock THEN Head(asked).sock ELSE retryFor
    /\ resigned' = (resigned \/ (Head(asked).for = "retry" /\ Head(asked).sock = active))
    /\ UNCHANGED <<page, news, port, initial, resyncs, connVars, sockVars, faults, unaware>>

\* schedulePushRetry, unless this was the retry or another one is pending.
PushFailed ==
    /\ asked # <<>> /\ Head(asked).for \in {"push", "retry"} /\ Head(asked).got = Failed
    /\ asked' = Tail(asked)
    /\ retryFor' = IF Head(asked).for = "push" /\ retryFor = NoSock THEN Head(asked).sock ELSE retryFor
    /\ resigned' = (resigned \/ (Head(asked).for = "retry" /\ Head(asked).sock = active))
    /\ UNCHANGED <<page, news, port, initial, resyncs, connVars, sockVars, faults, unaware>>

------------------------------------------------------------------------------
(* Connections.                                                            *)

\* activateSocket: the tools are listed before the hello.
Activate ==
    /\ active = NoSock
    /\ \E s \in Sock :
          /\ sock[s] = "free" /\ \A i \in DOMAIN asked : asked[i].sock # s
          /\ retryFor # s
          /\ active' = s
          /\ sock' = [sock EXCEPT ![s] = "open"]
          /\ Ask("hello", s)
    /\ UNCHANGED <<page, news, port, accepted, pushVars, wire, listed, faults, resigned, unaware>>

\* close(); the 'close' event comes later, and the relay hears of it as well.
Closed(s) ==
    IF s # NoSock /\ sock[s] = "open" THEN [sock EXCEPT ![s] = "closed"] ELSE sock

Hello ==
    /\ asked # <<>> /\ Head(asked).for = "hello" /\ Head(asked).got # Waiting
    /\ asked' = Tail(asked)
    /\ LET s == Head(asked).sock
           ok == Head(asked).got # Failed
       IN  /\ wire' = IF ok /\ s = active /\ sock[s] = "open" THEN [wire EXCEPT ![s] = "hello"] ELSE wire
           /\ initial' = IF ok /\ s = active THEN Head(asked).got ELSE initial
           /\ sock' = IF ok THEN sock ELSE Closed(s)
    /\ UNCHANGED <<page, news, port, resyncs, retryFor, connVars, listed, faults, resigned, unaware>>

\* The relay registers the source.
RelayAccepts(s) ==
    /\ sock[s] = "open" /\ wire[s] = "hello"
    /\ wire' = [wire EXCEPT ![s] = "accept"]
    /\ listed' = [listed EXCEPT ![s] = NoTools]
    /\ UNCHANGED <<pageVars, pushVars, connVars, sock, faults, resigned, unaware>>

\* Mutant: nothing is scheduled.
Bug_HelloAccepted(s) ==
    /\ sock[s] = "open" /\ wire[s] = "accept"
    /\ wire' = [wire EXCEPT ![s] = "quiet"]
    /\ accepted' = TRUE
    /\ listed' = Lists(s, initial)
    /\ initial' = NoTools
    /\ resigned' = FALSE
    /\ UNCHANGED <<pageVars, resyncs, retryFor, active, sock, faults, unaware>>

\* hello/accepted: the tools of the hello are sent, and pushes scheduled.
HelloAccepted(s) ==
    /\ sock[s] = "open" /\ wire[s] = "accept"
    /\ wire' = [wire EXCEPT ![s] = "quiet"]
    /\ accepted' = TRUE
    /\ listed' = Lists(s, initial)
    /\ initial' = NoTools
    /\ resyncs' = MaxResyncs
    /\ resigned' = FALSE
    /\ UNCHANGED <<pageVars, retryFor, active, sock, faults, unaware>>

\* The connection breaks, the relay rejects the hello or does not answer it.
SocketBreaks(s) ==
    /\ sock[s] = "open"
    /\ Fault
    /\ sock' = Closed(s)
    /\ UNCHANGED <<pageVars, pushVars, connVars, wire, listed, resigned, unaware>>

\* The 'close' event, on both ends.
SocketClosed(s) ==
    /\ sock[s] = "closed"
    /\ sock' = [sock EXCEPT ![s] = "free"]
    /\ wire' = [wire EXCEPT ![s] = "quiet"]
    /\ listed' = [listed EXCEPT ![s] = Unregistered]
    /\ IF active = s
       THEN /\ active' = NoSock /\ accepted' = FALSE
            /\ resyncs' = 0 /\ retryFor' = NoSock
            /\ unaware' = FALSE
       ELSE UNCHANGED <<connVars, resyncs, retryFor, unaware>>
    /\ UNCHANGED <<pageVars, initial, faults, resigned>>

\* reconnectRelay(), by the refresh button.
ReconnectRelay ==
    /\ active # NoSock
    /\ Fault
    /\ resyncs' = 0 /\ retryFor' = NoSock
    /\ accepted' = FALSE /\ active' = NoSock
    /\ sock' = Closed(active)
    /\ unaware' = FALSE
    /\ UNCHANGED <<pageVars, initial, wire, listed, resigned>>

------------------------------------------------------------------------------
(* The port.                                                               *)

PortBreaks ==
    /\ port = "live"
    /\ Fault
    /\ port' = "cut"
    /\ UNCHANGED <<page, news, asked, pushVars, connVars, sockVars, resigned, unaware>>

\* onDisconnect, behind the answers that were on the way: handlePortDead tells
\* the relay, with source/disconnected, if the hello was accepted, and what waits
\* on the port fails.
PortDisconnects ==
    /\ port = "cut" /\ Unanswered = DOMAIN asked
    /\ port' = "dead" /\ news' = FALSE
    /\ asked' = [i \in DOMAIN asked |-> [asked[i] EXCEPT !.got = Failed]]
    /\ listed' = IF active # NoSock /\ accepted THEN Lists(active, Unregistered) ELSE listed
    /\ unaware' = (active # NoSock /\ wire[active] # "quiet")
    /\ UNCHANGED <<page, pushVars, connVars, sock, wire, faults, resigned>>

\* disposeClient and ensureClient: the old client is stopped, what waits on its
\* port is rejected and changes nothing more, and a new client starts on a new port.
Rebuild ==
    /\ IF port = "dead" THEN UNCHANGED faults ELSE Fault
    /\ port' = "live" /\ news' = FALSE /\ asked' = <<>>
    /\ active' = NoSock /\ accepted' = FALSE
    /\ initial' = NoTools /\ resyncs' = 0 /\ retryFor' = NoSock
    /\ sock' = Closed(active)
    /\ resigned' = FALSE /\ unaware' = FALSE
    /\ UNCHANGED <<page, wire, listed>>

------------------------------------------------------------------------------
Next ==
    \/ PageChanges \/ PageAnswers \/ ListFails
    \/ NewsArrive \/ NewsAreLost \/ ResyncFires \/ RetryFires \/ Pushed \/ PushFailed
    \/ Activate \/ Hello \/ ReconnectRelay
    \/ \E s \in Sock : RelayAccepts(s) \/ HelloAccepted(s) \/ SocketBreaks(s) \/ SocketClosed(s)
    \/ PortBreaks \/ PortDisconnects \/ Rebuild

\* Events arrive, timers fire, and live pages and the relay answer. A dead port
\* is healed; a live one is rebuilt only by a user.
Fairness ==
    /\ WF_vars(PageAnswers) /\ WF_vars(NewsArrive) /\ WF_vars(ResyncFires) /\ WF_vars(RetryFires)
    /\ WF_vars(Pushed) /\ WF_vars(PushFailed) /\ WF_vars(Activate) /\ WF_vars(Hello)
    /\ \A s \in Sock : WF_vars(RelayAccepts(s)) /\ WF_vars(HelloAccepted(s)) /\ WF_vars(SocketClosed(s))
    /\ WF_vars(PortDisconnects) /\ WF_vars(port = "dead" /\ Rebuild)

SafetySpec == Init /\ [][Next]_vars
Spec == SafetySpec /\ Fairness

------------------------------------------------------------------------------
(* Properties.                                                             *)

TypeOK ==
    /\ page \in Version /\ news \in BOOLEAN /\ port \in {"live", "cut", "dead"}
    /\ asked \in Seq(Request)
    /\ active \in Sock \cup {NoSock} /\ accepted \in BOOLEAN
    /\ initial \in Version \cup {NoTools}
    /\ resyncs \in 0 .. MaxResyncs
    /\ retryFor \in Sock \cup {NoSock}
    /\ sock \in [Sock -> {"free", "open", "closed"}]
    /\ wire \in [Sock -> {"quiet", "hello", "accept"}]
    /\ listed \in [Sock -> Version \cup {NoTools, Unregistered}]
    /\ faults \in 0 .. MaxFaults /\ resigned \in BOOLEAN /\ unaware \in BOOLEAN

\* Timers that push do not outlive the connection they are for: a resync is due
\* only after a hello that was accepted.
ResyncsAreOwned == resyncs > 0 => accepted /\ active # NoSock

\* What the relay lists of a page that answers is what the page offers, or
\* something will still tell it: news, a timer, or a request that does not come
\* back with an older list.  But a push that failed twice in a row, and news
\* lost after the last timer, are given up.
StaleIsMended ==
    accepted /\ sock[active] = "open" /\ port = "live" /\ listed[active] # page =>
        \/ resigned \/ news \/ resyncs > 0 \/ retryFor = active
        \/ \E i \in DOMAIN asked :
              /\ asked[i].for # "hello" /\ asked[i].sock = active
              /\ asked[i].got \in {Waiting, Failed, page}

\* Tools are sent for a source that the relay knows; it would close the socket
\* otherwise. The report of a dead port comes after every list the page gave.
ToolsAreWelcome ==
    /\ \A i \in DOMAIN asked :
          asked[i].for # "hello" /\ asked[i].got \in Version /\ sock[asked[i].sock] = "open" =>
              listed[asked[i].sock] # Unregistered
    /\ \A s \in Sock : sock[s] = "open" /\ wire[s] = "accept" => listed[s] # Unregistered

\* handlePortDead takes the source off the relay, so that tools which cannot
\* answer are not listed; but not if the port died while the hello was under way.
DeadPortsAreReported ==
    port = "dead" /\ ~unaware /\ active # NoSock /\ sock[active] = "open" =>
        listed[active] \notin Version

PushesAreSound ==
    TypeOK /\ ResyncsAreOwned /\ StaleIsMended /\ ToolsAreWelcome /\ DeadPortsAreReported

\* On one connection the relay never goes back to an older list, whichever
\* lists of the hello, of news, resyncs and retries overlap.
ListsMoveForward ==
    [][\A s \in Sock : listed[s] \in Version /\ listed'[s] \in Version => listed'[s] >= listed[s]]_vars

\* Once the faults end, the relay gets to know the tools that are there, unless
\* the pushes were given up.
RelayLearns == <>[](accepted /\ (resigned \/ listed[active] = page))

==============================================================================
