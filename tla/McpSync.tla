------------------------------- MODULE McpSync -------------------------------
(***************************************************************************)
(* The MCP server of a relay process (mcpRelayServer.ts): the dynamic      *)
(* tools it has registered with the MCP SDK, which follow the listing of   *)
(* the bridge through a debounced synchronisation.                         *)
(*                                                                         *)
(* The registry is the one the process sees: its own in server mode, that  *)
(* of the relay it is attached to in client mode, of which it holds a      *)
(* copy.  Pushes of that relay which are under way are merged into the     *)
(* last of them.  Becoming a client of another relay or the server is one  *)
(* step here; RelayCluster has the steps.  The static tools keep no state  *)
(* and are left out, but their names are taken.                            *)
(***************************************************************************)
EXTENDS RelayRegistry

CONSTANTS
    Offers,        \* the lists of tools that pages send
    Static,        \* the names of the static tools
    Uncompilable   \* the tools with a schema the SDK refuses

ASSUME OffersAssumption == Offers \subseteq SUBSET Tool
ASSUME UncompilableAssumption == Uncompilable \subseteq Tool

VARIABLES
    phase,    \* off, up, closing (stop() awaits mcpServer.close()) or stopped
    mode,     \* bridge.mode
    linked,   \* in client mode: up, or broken ('close' is due), or down
    pushed,   \* a relay/tools or relay/tools-changed is on its way
    copy,     \* clientTools with their sources
    timer,    \* syncDebounceTimer is set
    dynamic   \* dynamicTools: name and signature of each

mcpVars == <<phase, mode, linked, pushed, copy, timer, dynamic>>
vars == <<registryVars, mcpVars>>

Init ==
    /\ RegistryInit
    /\ phase = "off" /\ mode = "server" /\ linked = "down"
    /\ pushed = FALSE /\ copy = {}
    /\ timer = FALSE /\ dynamic = {}

------------------------------------------------------------------------------
\* listAggregatedTools.  A tool stands for its description and schemas; relayed
\* ones have lost their original name.
Aggregate(m, pub) ==
    {[name |-> p.name, tool |-> p.tool, tab |-> p.tab, relayed |-> m = "client"] : p \in pub}

Aggregated == IF mode = "client" THEN copy ELSE Aggregate("server", published)

\* What registerTool accepts of a listing.
Registrable(listing) == {d \in listing : d.name \notin Static /\ d.tool \notin Uncompilable}

\* syncDynamicTools: names that are not listed are removed, changed ones are
\* registered again, and what cannot be registered is skipped.
SyncDynamicTools == dynamic' = (dynamic \cap Aggregated) \cup Registrable(Aggregated)

\* emit('stateChanged'): the bridge listener arms the debounce, if it is not set.
StateChanged == timer' = TRUE

------------------------------------------------------------------------------
(* Events of the bridge.                                                   *)

\* start(): the bridge binds a port, or attaches to the relay that holds it, and
\* the listing, which is empty, is synchronised.
Start ==
    /\ phase = "off"
    /\ phase' = "up"
    /\ \/ mode' = "server" /\ UNCHANGED <<linked, pushed>>
       \/ mode' = "client" /\ linked' = "up" /\ pushed' = TRUE
    /\ UNCHANGED <<registryVars, copy, timer, dynamic>>

Running == phase \in {"up", "closing"}

\* A hello, a tool list, an end of a source: the own MCP server hears of it at
\* once, an attached process is sent a push.
RegistryEvent ==
    /\ Running
    /\ \/ \E c \in Conn, t \in Tab : UpsertSource(c, t)
       \/ \E c \in Conn, tools \in Offers : RegisterTools(c, tools)
       \/ \E c \in Conn : RemoveConnections({c})
    /\ \/ mode = "server" /\ StateChanged /\ UNCHANGED pushed
       \/ mode = "client" /\ pushed' = (linked = "up") /\ UNCHANGED timer
    /\ UNCHANGED <<phase, mode, linked, copy, dynamic>>

\* processRelayServerMessage.
ReceiveTools ==
    /\ pushed /\ linked = "up"
    /\ pushed' = FALSE
    /\ copy' = Aggregate("client", published)
    /\ StateChanged
    /\ UNCHANGED <<registryVars, phase, mode, linked, dynamic>>

\* The relay this process is attached to ends, and with it its registry.
RelayEnds ==
    /\ linked = "up"
    /\ linked' = "broken" /\ pushed' = FALSE
    /\ RemoveConnections(Conn)
    /\ UNCHANGED <<phase, mode, copy, timer, dynamic>>

\* Mutant: the copies stay until the next relay sends its own.
Bug_ClientSocketClosed ==
    /\ linked = "broken"
    /\ linked' = "down"
    /\ StateChanged
    /\ UNCHANGED <<registryVars, phase, mode, pushed, copy, dynamic>>

\* The 'close' of the client socket.
ClientSocketClosed ==
    /\ linked = "broken"
    /\ linked' = "down" /\ copy' = {}
    /\ StateChanged
    /\ UNCHANGED <<registryVars, phase, mode, pushed, dynamic>>

\* reconnectWithModePromotion: this process becomes the server, with a
\* registry of its own, or attaches again.
Reconnect ==
    /\ Running /\ mode = "client" /\ linked = "down"
    /\ \/ mode' = "server" /\ RemoveConnections(Conn) /\ StateChanged /\ UNCHANGED <<linked, pushed>>
       \/ linked' = "up" /\ pushed' = TRUE /\ UNCHANGED <<registryVars, mode, timer>>
    /\ UNCHANGED <<phase, copy, dynamic>>

------------------------------------------------------------------------------
(* The MCP side.                                                           *)

TimerFires ==
    /\ timer
    /\ timer' = FALSE
    /\ SyncDynamicTools
    /\ UNCHANGED <<registryVars, phase, mode, linked, pushed, copy>>

\* stop(): the timer is cleared, and mcpServer.close() awaited.
StopMcp ==
    /\ phase = "up"
    /\ phase' = "closing" /\ timer' = FALSE
    /\ UNCHANGED <<registryVars, mode, linked, pushed, copy, dynamic>>

\* bridge.stop(): the registry or the copies are dropped without a word, but
\* the 'close' of a client socket still emits stateChanged.
StopBridge ==
    /\ phase = "closing"
    /\ phase' = "stopped" /\ pushed' = FALSE /\ copy' = {}
    /\ IF mode = "server" THEN RemoveConnections(Conn) ELSE UNCHANGED registryVars
    /\ linked' = IF linked = "up" THEN "broken" ELSE linked
    /\ UNCHANGED <<mode, timer, dynamic>>

------------------------------------------------------------------------------
Change == RegistryEvent \/ RelayEnds \/ Reconnect \/ StopMcp \/ StopBridge

Next == Start \/ Change \/ ReceiveTools \/ ClientSocketClosed \/ TimerFires

Fairness == WF_vars(ReceiveTools) /\ WF_vars(ClientSocketClosed) /\ WF_vars(TimerFires)

Spec == Init /\ [][Next]_vars /\ Fairness

------------------------------------------------------------------------------
(* Properties.                                                             *)

\* The tools the process should offer: those of its registry, or of the relay
\* it is attached to, and none while there is no relay.
Offerable ==
    IF mode = "server" THEN Aggregate("server", published)
    ELSE IF linked = "up" THEN Aggregate("client", published) ELSE {}

\* Unless pages, relays and modes keep changing for ever, the MCP client ends up
\* with exactly the tools there are, across the relay it is attached to.
ToolsCatchUp ==
    []<>(phase = "up" => dynamic = Registrable(Offerable)) \/ []<><<Change>>_vars
==============================================================================
