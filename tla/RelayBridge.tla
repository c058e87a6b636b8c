----------------------------- MODULE RelayBridge -----------------------------
(***************************************************************************)
(* The relay process in server mode (bridgeServer.ts): the WebSocket       *)
(* connections of browser sources and of other relays, their handshakes,   *)
(* the registry they feed, the tool calls routed to them, heartbeats, and  *)
(* the shutdown.                                                           *)
(*                                                                         *)
(* One action is one event handler: Node runs each to its end, and the     *)
(* promise continuations it triggers (the relay/result of a relay's call)  *)
(* before the next event.  Every connection id and call id is used once.   *)
(* A socket that is in socketByConnectionId is tracked; the bridge calls   *)
(* close() on it some time before its 'close' event, and messages received *)
(* in between are still handled.  send() throws on no tracked socket, and  *)
(* messages that a handler ignores have no action.                         *)
(***************************************************************************)
EXTENDS RelayRegistry

CONSTANTS
    Browser,     \* the connections that negotiate the browser protocol
    Disallowed,  \* those of them whose origin the relay does not allow
    Call,        \* call ids
    Mcp,         \* the caller of the calls made through invokeTool
    NoConn,      \* "no connection"
    NoView       \* "this relay client was sent no tools yet"

Relay == Conn \ Browser

ASSUME ConnAssumption == Browser \subseteq Conn /\ Disallowed \subseteq Browser
ASSUME NoConnAssumption == NoConn \notin Conn /\ Mcp \notin Conn

VARIABLES
    listening,  \* the WebSocketServer is up, and stateChanged is pushed to relay clients
    link,       \* connection |-> socketByConnectionId and the socket's readyState
    joined,     \* browserClientConnectionIds and relayClientConnectionIds
    heartbeat,  \* connections whose heartbeat interval runs
    quiet,      \* connection |-> heartbeats since its last pong
    view,       \* relay client |-> the tools and sources it was last sent
    pending,    \* the keys of pendingInvocations
    timer,      \* calls whose timeout is armed
    owner,      \* call |-> connectionId of its pending invocation
    promise,    \* call |-> the promise invokeToolLocally returned
    answerer,   \* call |-> the connection whose result settled it
    caller,     \* call |-> Mcp, or the relay client that sent relay/invoke
    reply       \* call |-> the relay/result sent back to that relay client

socketVars == <<listening, link, joined, heartbeat, quiet>>
callVars   == <<pending, timer, owner, promise, answerer, caller, reply>>
vars       == <<registryVars, socketVars, view, callVars>>

Tracked == {c \in Conn : link[c] \in {"open", "closing"}}

\* buildRelayToolsPayload: public names with their sources, and all sources.
Listing(pub, src) ==
    [tools   |-> {<<p.name, p.conn>> : p \in pub},
     sources |-> {c \in Conn : src[c] # NoTab}]

Init ==
    /\ RegistryInit
    /\ listening = FALSE
    /\ link = [c \in Conn |-> "unused"]
    /\ joined = {}
    /\ heartbeat = {}
    /\ quiet = [c \in Conn |-> 0]
    /\ view = [r \in Relay |-> NoView]
    /\ pending = {}
    /\ timer = {}
    /\ owner = [i \in Call |-> NoConn]
    /\ promise = [i \in Call |-> "unmade"]
    /\ answerer = [i \in Call |-> NoConn]
    /\ caller = [i \in Call |-> Mcp]
    /\ reply = [i \in Call |-> "none"]

------------------------------------------------------------------------------
(* What the handlers share.                                                *)

\* emit('stateChanged') in a state where relay clients `members` are open.
PushTools(members) ==
    view' = [r \in Relay |->
                IF r \in members THEN Listing(published', source') ELSE view[r]]

OpenRelays == {r \in joined \cap Relay : link[r] = "open"}

\* The promises of `calls` are settled; those made for a relay client send
\* their relay/result, which is dropped when that client's socket is not open.
Settle(calls, outcome) ==
    /\ promise' = [i \in Call |-> IF i \in calls THEN outcome ELSE promise[i]]
    /\ reply' = [i \in Call |->
                    IF i \in calls /\ caller'[i] \in Relay
                    THEN IF link'[caller'[i]] = "open" THEN "sent" ELSE "dropped"
                    ELSE reply[i]]

\* clearTimeout and removal from pendingInvocations.
Forget(calls) ==
    /\ pending' = pending \ calls
    /\ timer' = timer \ calls

\* Mutant: no call is found for a lost connection.
Bug_WaitingOn(c) == {}

WaitingOn(c) == {i \in pending : owner[i] = c}

Hangup(c) == link' = [link EXCEPT ![c] = "closing"]

------------------------------------------------------------------------------
(* Server start and connections.                                           *)

Listen ==
    /\ ~listening
    /\ listening' = TRUE
    /\ UNCHANGED <<registryVars, link, joined, heartbeat, quiet, view, callVars>>

\* A client connects, is sent the server hello, and its heartbeat starts.
Connect(c) ==
    /\ listening
    /\ link[c] = "unused"
    /\ link' = [link EXCEPT ![c] = "open"]
    /\ heartbeat' = heartbeat \cup {c}
    /\ UNCHANGED <<registryVars, listening, joined, quiet, view, callVars>>

\* A browser source says hello, for the first time or again.
Hello(c, t) ==
    /\ c \in Tracked \cap Browser
    /\ \/ /\ c \notin Disallowed
          /\ UpsertSource(c, t)
          /\ joined' = joined \cup {c}
          /\ PushTools(OpenRelays)
          /\ UNCHANGED link
       \/ /\ c \in Disallowed
          /\ Hangup(c)
          /\ UNCHANGED <<registryVars, joined, view>>
    /\ UNCHANGED <<listening, heartbeat, quiet, callVars>>

\* tools/list or tools/changed.  Without a hello since the last
\* source/disconnected the list is invalid and the connection is closed.
ToolList(c, tools) ==
    /\ c \in Tracked \cap joined \cap Browser
    /\ \/ /\ RegisterTools(c, tools)
          /\ PushTools(OpenRelays)
          /\ UNCHANGED link
       \/ /\ c \notin Registered
          /\ Hangup(c)
          /\ UNCHANGED <<registryVars, view>>
    /\ UNCHANGED <<listening, joined, heartbeat, quiet, callVars>>

\* A relay/... message of a browser connection: the protocol was not negotiated.
NotNegotiated(c) ==
    /\ c \in Tracked \cap Browser
    /\ Hangup(c)
    /\ UNCHANGED <<registryVars, listening, joined, heartbeat, quiet, view, callVars>>

\* Mutant: stateChanged is not emitted.
Bug_SourceDisconnected(c) ==
    /\ c \in Tracked \cap joined \cap Browser
    /\ RemoveConnections({c})
    /\ UNCHANGED <<socketVars, view, callVars>>

\* source/disconnected: the page's tool port died, the connection stays.
SourceDisconnected(c) ==
    /\ c \in Tracked \cap joined \cap Browser
    /\ RemoveConnections({c})
    /\ PushTools(OpenRelays)
    /\ UNCHANGED <<socketVars, callVars>>

\* Mutant: any pong counts.
Bug_Pong(c) ==
    /\ c \in Tracked \cap Browser
    /\ quiet' = [quiet EXCEPT ![c] = 0]
    /\ UNCHANGED <<registryVars, listening, link, joined, heartbeat, view, callVars>>

\* A pong counts only after hello.
Pong(c) ==
    /\ c \in Tracked \cap joined \cap Browser
    /\ quiet' = [quiet EXCEPT ![c] = 0]
    /\ UNCHANGED <<registryVars, listening, link, joined, heartbeat, view, callVars>>

\* The interval of 15 s against the threshold of 25 s: the first heartbeat
\* after a pong never closes, the second may, the third always does.
Heartbeat(c) ==
    /\ c \in heartbeat
    /\ \/ /\ link[c] # "open"
          /\ heartbeat' = heartbeat \ {c}
          /\ UNCHANGED <<link, quiet>>
       \/ /\ link[c] = "open" /\ c \notin joined \cap Relay /\ quiet[c] < 2
          /\ quiet' = [quiet EXCEPT ![c] = @ + 1]
          /\ UNCHANGED <<link, heartbeat>>
       \/ /\ link[c] = "open" /\ c \notin joined \cap Relay /\ quiet[c] > 0
          /\ Hangup(c)
          /\ heartbeat' = heartbeat \ {c}
          /\ UNCHANGED quiet
    /\ UNCHANGED <<registryVars, listening, joined, view, callVars>>

\* onSocketClose: the peer closed, failed, or answered our close().
SocketClose(c) ==
    /\ c \in Tracked
    /\ link' = [link EXCEPT ![c] = "gone"]
    /\ heartbeat' = heartbeat \ {c}
    /\ joined' = joined \ {c}
    /\ RemoveConnections({c})
    /\ PushTools(OpenRelays \ {c})
    /\ UNCHANGED caller
    /\ Forget(WaitingOn(c))
    /\ Settle(WaitingOn(c), "failed")
    /\ UNCHANGED <<listening, quiet, owner, answerer>>

\* stop(): sockets are closed and forgotten, every pending call is rejected.
Stop ==
    /\ listening
    /\ listening' = FALSE
    /\ RemoveConnections(Tracked)
    /\ link' = [c \in Conn |-> IF c \in Tracked THEN "gone" ELSE link[c]]
    /\ heartbeat' = {}
    /\ joined' = {}
    /\ UNCHANGED caller
    /\ Forget(pending)
    /\ Settle(pending, "failed")
    /\ UNCHANGED <<quiet, view, owner, answerer>>

------------------------------------------------------------------------------
(* Relay clients.                                                          *)

RelayHello(r) ==
    /\ r \in Tracked \cap Relay
    /\ joined' = joined \cup {r}
    /\ UNCHANGED <<registryVars, listening, link, heartbeat, quiet, view, callVars>>

\* relay/list-tools is answered while the socket is open.
RelayListTools(r) ==
    /\ r \in OpenRelays
    /\ view' = [view EXCEPT ![r] = Listing(published, source)]
    /\ UNCHANGED <<registryVars, socketVars, callVars>>

------------------------------------------------------------------------------
(* Tool calls.                                                             *)

\* Who may call: the MCP server of this process, or a relay that said hello.
Callers == {Mcp} \cup (Tracked \cap joined \cap Relay)

\* invokeToolLocally, when a provider is found and its socket is open.
Invoke(i, from, name, target) ==
    /\ promise[i] = "unmade"
    /\ \E p \in Resolve(name, target) :
          /\ link[p.conn] = "open"
          /\ owner' = [owner EXCEPT ![i] = p.conn]
    /\ caller' = [caller EXCEPT ![i] = from]
    /\ promise' = [promise EXCEPT ![i] = "waiting"]
    /\ pending' = pending \cup {i}
    /\ timer' = timer \cup {i}
    /\ UNCHANGED <<registryVars, socketVars, view, answerer, reply>>

\* Mutant: a synchronous throw escapes and the relay is not answered.
Bug_InvokeFails(i, from, name, target) ==
    /\ promise[i] = "unmade"
    /\ Resolve(name, target) = {}
    /\ caller' = [caller EXCEPT ![i] = from]
    /\ promise' = [promise EXCEPT ![i] = "failed"]
    /\ UNCHANGED <<registryVars, socketVars, view, pending, timer, owner, answerer, reply>>

\* invokeToolLocally, when it throws: nothing provides the tool, or the
\* provider chosen is closing (another provider is not tried).
InvokeFails(i, from, name, target) ==
    LET found == Resolve(name, target) IN
    /\ promise[i] = "unmade"
    /\ found = {} \/ \E p \in found : link[p.conn] # "open"
    /\ caller' = [caller EXCEPT ![i] = from]
    /\ UNCHANGED <<registryVars, socketVars, view, pending, timer, owner, answerer>>
    /\ Settle({i}, "failed")

\* Mutant: whoever knows the call id may answer.
Bug_Result(c, i) ==
    /\ c \in Tracked \cap joined \cap Browser
    /\ i \in pending
    /\ answerer' = [answerer EXCEPT ![i] = c]
    /\ UNCHANGED <<registryVars, socketVars, view, owner, caller>>
    /\ Forget({i})
    /\ Settle({i}, "answered")

\* A result counts if its call is pending on the connection that sends it.
Result(c, i) ==
    /\ c \in Tracked \cap joined \cap Browser
    /\ i \in pending
    /\ owner[i] = c
    /\ answerer' = [answerer EXCEPT ![i] = c]
    /\ UNCHANGED <<registryVars, socketVars, view, owner, caller>>
    /\ Forget({i})
    /\ Settle({i}, "answered")

\* Mutant: the timeout removes the call and does not reject it.
Bug_InvokeTimeout(i) ==
    /\ i \in timer
    /\ UNCHANGED <<registryVars, socketVars, view, owner, promise, answerer, caller, reply>>
    /\ Forget({i})

InvokeTimeout(i) ==
    /\ i \in timer
    /\ UNCHANGED <<registryVars, socketVars, view, owner, answerer, caller>>
    /\ Forget({i})
    /\ Settle({i}, "failed")

------------------------------------------------------------------------------
PublicName == {p.name : p \in published} \cup {<<>>}  \* <<>>: a name nobody has
\* relay/invoke names a tool and no target.
Target(from) == IF from = Mcp THEN Conn \cup Tab \cup {Anyone} ELSE {Anyone}

Next ==
    \/ Listen \/ Stop
    \/ \E c \in Conn : Connect(c) \/ Heartbeat(c) \/ SocketClose(c)
    \/ \E c \in Browser : Pong(c) \/ SourceDisconnected(c) \/ NotNegotiated(c)
    \/ \E c \in Browser, t \in Tab : Hello(c, t)
    \/ \E c \in Browser, tools \in SUBSET Tool : ToolList(c, tools)
    \/ \E r \in Relay : RelayHello(r) \/ RelayListTools(r)
    \/ \E i \in Call, from \in Callers, name \in PublicName :
       \E target \in Target(from) :
          Invoke(i, from, name, target) \/ InvokeFails(i, from, name, target)
    \/ \E c \in Browser, i \in Call : Result(c, i)
    \/ \E i \in Call : InvokeTimeout(i)

\* Node runs due timers, and a socket that close() was called on is closed by
\* its peer or by the close timeout of ws.
Fairness ==
    /\ \A i \in Call : WF_vars(InvokeTimeout(i))
    /\ \A c \in Conn : WF_vars(Heartbeat(c))
    /\ \A c \in Conn : WF_vars(link[c] = "closing" /\ SocketClose(c))

SafetySpec == Init /\ [][Next]_vars
Spec == SafetySpec /\ Fairness

------------------------------------------------------------------------------
(* Properties.                                                             *)

TypeOK ==
    /\ RegistryTypeOK
    /\ listening \in BOOLEAN
    /\ link \in [Conn -> {"unused", "open", "closing", "gone"}]
    /\ joined \in SUBSET Conn
    /\ heartbeat \in SUBSET Conn
    /\ quiet \in [Conn -> 0 .. 2]
    /\ view = [r \in Relay |-> view[r]]
    /\ \A r \in Relay : view[r] = NoView \/ view[r].sources \subseteq Conn
    /\ pending \in SUBSET Call
    /\ timer \in SUBSET Call
    /\ owner \in [Call -> Conn \cup {NoConn}]
    /\ promise \in [Call -> {"unmade", "waiting", "answered", "failed"}]
    /\ answerer \in [Call -> Conn \cup {NoConn}]
    /\ caller \in [Call -> Relay \cup {Mcp}]
    /\ reply \in [Call -> {"none", "sent", "dropped"}]

\* A call is in pendingInvocations, its timeout armed, exactly while its
\* promise is unsettled: no path settles a call and leaves its entry or its
\* timer behind, and none drops an entry without settling the call.
PendingAccounted == pending = timer /\ pending = {i \in Call : promise[i] = "waiting"}

\* No unsettled call waits on a connection the bridge no longer tracks, be it
\* closed, dropped by a heartbeat or closed by stop().
NoCallOnLostSocket == \A i \in pending : owner[i] \in Tracked \cap Browser

\* A call waits with its entry and its timeout, and on a socket that is there.
NoCallIsForgotten == PendingAccounted /\ NoCallOnLostSocket

\* What the registry lists, and so what a call can be routed to, belongs to
\* tracked browser connections of an allowed origin that said hello.
RegistryBelongsToJoined ==
    Registered \subseteq (Tracked \cap joined \cap Browser) \ Disallowed

\* Nothing outlives its connection: handshake flags and heartbeat intervals
\* exist only for tracked sockets, and none while the server is down.
NoLeftovers ==
    /\ joined \cup heartbeat \subseteq Tracked
    /\ ~listening => Tracked = {}

\* No state of the bridge outlives the socket it belongs to, and the registry has
\* nothing of a socket that was not admitted.
NothingOutlivesItsSocket == NoLeftovers /\ RegistryBelongsToJoined

\* What an open relay client was last sent is the current listing: every
\* handler that changes the registry also pushes it.
RelayViewsCurrent ==
    \A r \in OpenRelays : view[r] # NoView => view[r] = Listing(published, source)

\* A call that a relay client made and that is settled, at once or later, was
\* answered to it with one relay/result, unless its socket was lost first.
RelayCallsAnswered ==
    \A i \in Call :
        caller[i] \in Relay =>
            /\ promise[i] \in {"answered", "failed"} <=> reply[i] # "none"
            /\ reply[i] = "dropped" => link[caller[i]] # "open"

\* The bridge implements the ledger: calls are settled once, by the connection
\* they were handed to, by the loss of it or by their timeout, and each is
\* settled in the end.
Ledger == INSTANCE CallLedger WITH live <- Tracked
KeepsLedger == Ledger!LedgerSpec

\* The safety part of it: no late, foreign or second answer settles a call.
KeepsLedgerSafety == Ledger!LedgerSafety

\* A connection that never says hello does not stay: its pongs do not count,
\* so the heartbeat closes it.
ProbesAreClosed ==
    \A c \in Browser :
        link[c] = "open" /\ c \notin joined ~> c \in joined \/ link[c] = "gone"
==============================================================================
