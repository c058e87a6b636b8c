# A verification of the WebMCP relay, its browser sources and the side panel

The repository connects web pages that offer tools (WebMCP) with MCP clients on
the same machine. A Chrome extension opens a port to the content script of each
tab the user selected, a relay client in the extension's service worker reports
the tab's tools to a local relay process over a WebSocket, and the relay offers
them to an MCP client over stdio. Several relay processes may run, one per MCP
client; one of them serves the browser and the others proxy through it. The
extension's side panel has an agent of its own that uses the same tools, and may
delegate to remote agents; a library for pages offers forms as tools.

The hard part of this code is not any single function: it is what happens when
tabs, pages, service workers, sockets, timers and relay processes come and go in
an order nobody wrote down. That is what these specifications are about.

Contents: [the system](#the-system), [the modules](#the-modules),
[the runs](#the-runs), [disagreements](#where-the-code-and-its-texts-disagree),
[the proofs](#the-proofs), [what is left out](#what-is-left-out),
[the plan](#the-plan).

Paths below are relative to `src/`; `relay/` stands for
`packages/webmcp-extension-relay/src/` and `core/` for
`packages/webmcp-chrome-extension/core/`.

## The system

| Component | Code | State | Operations | Talks to |
|---|---|---|---|---|
| Registry | `relay/registry.ts`, `relay/naming.ts` | sources and tools per connection, public names (a cache) | hello, tool list, removal, listing, resolution of a name | called by the bridge |
| Bridge, server mode | `relay/bridgeServer.ts` | sockets, handshakes, heartbeats, pending calls | handlers of browser and relay messages, close, call, timeout, `stop` | sources and relay clients over WebSockets; MCP server by calls and `stateChanged` |
| Cluster | `relay/bridgeServer.ts`, `relay/portStrategy.ts`, `relay/cli.ts` | mode, listening port, client socket, reconnect timer, cache file | port strategy, attach, promotion, proxied calls, `stop` | other relays, the cache file, the ports of the machine |
| MCP server | `relay/mcpRelayServer.ts` | registered dynamic tools, debounce timer | synchronisation, static tools, `stop` | the bridge, the MCP client over stdio |
| Source client | `core/relay-source-client.ts` | phase, active socket, retry, heartbeat and acknowledgement timers, endpoint cache | discovery, handshake, retry, rediscovery, dormancy, reconnect button, pushes, calls | the relay over a WebSocket; the page through a facade |
| Tab source manager | `core/tab-source-manager.ts` | entries, inventory, selection, heal timers, statuses, invocation log | tab events, selection, healing, refresh | `chrome.tabs`, `chrome.storage`, source clients, side panel |
| Port facade and page bridge | `core/tab-source-manager.ts:266-400`, `core/page-tools-bridge.ts` | pending requests | list, call, timeout, disconnect | content script, page |
| Panel client | `.../side-panel/runtime/panel-client.ts`, `App.tsx` | connections per tab with their requests and timers, routes | target tabs, list, call, back-off, ping | content scripts of the selected tabs |
| Status client and store | `core/relay-status-protocol.ts`, `.../side-panel/relay/` | the panel's copies of selection and invocation log, `terminated` | set and reset of the selection, merge of events, reconnect | service worker over a port |
| Chat turn | `packages/webmcp-agent-chat-core/src/chat-controller.ts`, `agent-loop.ts`, `App.tsx` | busy flag, history, abort controller | turn, abort, switch of the agent | LLM, panel client, A2A |
| A2A and Dify | `a2a-tool-source.ts`, `a2a-client.ts`, `dify-client.ts` | agents, calls in flight | configure, delegate, poll, stream | remote agents |
| Data sources | `packages/webmcp-html-app/src/form-fill-lib/data-source-resolver.ts` | cache slots with flights | get, mark stale, invalidate, clean up | loaders |
| Forms | `.../form-fill-lib/form-renderer.ts`, `form-tools.ts`, `validation.ts` | elements and their options | build, fill, submit | data sources, the page's user, the agent |

What makes each correct:

- **Registry.** The cached names equal a fresh computation; a name never stands
  for two tools; a call restricted to a tab reaches that tab; nothing registered
  is missing.
- **Bridge.** A call is settled exactly once, by the source it was handed to, by
  its loss or by the timeout, and a relay client that made it is told; nothing
  outlives its socket; relay clients see the current listing; a silent connection
  is closed.
- **Cluster.** Proxies point to servers, never to proxies; whoever loses its
  server serves or attaches again; an explicit port is kept; `stop()` is final.
- **Pushes.** The relay's list of a page follows the page, never goes back, and does
  not name tools of a dead port.
- **Source client.** One connection per tab; the flags speak of the connection
  that is active; the client is never left without something that will look for
  a relay; it ends up connected when a relay is there.
- **Tab source manager.** Only selected tabs connect; dead ports are healed; what
  is told of a tab is its current page; the selection survives a restart; a
  selected tab ends up connected.
- **MCP server.** The MCP client ends up with exactly the tools there are.
- **Panel client.** Names lead to selected tabs; a removed connection does nothing
  more; every listing ends; what is shown is what the pages offer.
- **Status client.** The panel's log and selection are the worker's; no call stays
  running in it, since a running call locks the panel.
- **Chat.** What is sent to the model is well formed; agents do not see each
  other's conversations; a turn that is stopped ends and leaves no trace.
- **A2A.** An agent has one task at a time; the tools are those of the saved list.
- **Data sources and forms.** A slot never goes back to older data; every read is
  answered; late options do not take a choice away.

## The modules

| Module | Models | Extends / uses |
|---|---|---|
| `RelayRegistry` | the registry and the naming of tools | |
| `CallLedger` | what the relay promises about calls (abstract, no code of its own) | |
| `RelayBridge` | one relay process in server mode | `RelayRegistry`; implements `CallLedger` |
| `RelayCluster` | several relay processes over the ports of a machine | |
| `SourceClient` | the relay client of one tab, and the relay as it sees it | |
| `ToolPush` | the page's port and the client's pushes: how the relay learns the tools of a tab | |
| `TabSources` | the service worker's tabs, ports and selection, and the browser | |
| `McpSync` | the MCP server of a relay process, in both modes | `RelayRegistry` |
| `FormFill` | the cache of a data source, and a form that reads it | |
| `PanelClient` | the side panel's ports to the pages, and the pages | |
| `StatusPanel` | the status port between service worker and side panel | |
| `A2aSource` | the tool source of remote agents, with saved lists and delegations | |
| `AgentChat` | the chat, its turns, and what `App.tsx` wires around them | `A2aSource` |
| `RelayBridgeProofs`, `RelayClusterProofs`, `SourceClientProofs`, `ToolPushProofs`, `TabSourcesProofs`, `PanelClientProofs`, `StatusPanelProofs`, `AgentChatProofs` | theorems | the modules they are about and what these extend |
| `MC...` | constants for TLC | the modules they instantiate |

Every action is one event handler of the code or the stretch of an asynchronous
function between two awaits: Node and the service worker run such a stretch to
its end. `PROJECT.json` gives the lines for every definition.

**`RelayRegistry`.** `source`, `providers` and `published` are
`sourceByConnectionId`, `toolsByConnectionId` and `providersByPublicToolName`.
A provider carries its own copy of the tab, as in the code, which is why a source
that moves to another tab is worth an action. Names are sequences of the parts
between underscores, so that a collision of a disambiguated name (`a_12`) with an
original one is the same collision as in the code. The limit on the length of names is
one on parts (`MaxParts`): `Cut` is the code's `slice`, and `Suffixed` appends a part
to a name cut so far that the part fits, as tab ids and numbers are appended. Hence
different tools may ask for one name because theirs are long, and a numbered name may
be the name it was made of. A choice by recency is any choice. `Allocation` is the loop
of `rebuildPublicNames` over the sorted keys: a function of how many it has named.

**`RelayBridge`.** `link` holds both `socketByConnectionId` and the socket's
state; between our `close()` ("closing") and the 'close' event messages are still
handled, and after it (or after `stop()`) they are not. `Hangup` is that `close()`: for
a refused hello, tools before hello, silence, or a browser connection that uses the
relay's messages (`NotNegotiated`). `joined` is the union of
`browserClientConnectionIds` and `relayClientConnectionIds`: a connection's
subprotocol decides which one it can be in. `quiet` counts heartbeats instead of
time: with an interval of 15 s and a threshold of 25 s, the first heartbeat after a
pong never closes, the second may and the third does. `Settle` includes the promise
continuation that sends `relay/result`. `promise`, `answerer` and `reply` record
what callers see. Whether an origin is allowed is a property of the connection:
browsers send their origin with the upgrade request.

**`CallLedger`.** Calls are refused, handed over, answered by their owner, expired,
or fail with the connection that goes away. `RelayBridge` implements it with
`live <- Tracked`.

**`RelayCluster`.** `pc` is where a process is in `startUsingPortStrategy`, which
awaits after every step; `why` tells the start from a reconnect. `lost` are the
clients whose socket broke and whose 'close' event is still to come. `attempts`
are bounded by `MaxAttempts` like `clientMaxReconnectAttempts`; five stand for the
hundred because three disturbances cannot cause five failures in a row unless
something other than disturbances does, which is what `Recovers` excludes.
Binding an explicit port, the cached port and the range are modelled as
`buildPortCandidates` orders them.

**`SourceClient`.** A search (`chains`) is one call of `discoverRelay`,
`connectToEndpoint` or `heartbeatProbe` with the `.then()` behind it. Several may
be under way, because only `start()` and `wake()` look at the phase first.
`beats` counts heartbeat intervals that run and `beatHandle` is the handle: an
interval without one would be leaked. `ack` are the acknowledgement timers and
`ackHandle` the one the field refers to. `wire` is how far the handshake of a
socket got between client and relay.

**`ToolPush`.** `asked` are the requests that wait in `createPortToolsFacade`, in
their order, with the answers on the way; each knows the socket and the purpose it
was made for, as the promise continuations do. `resyncs` counts the timers that are
left, and `retryFor` is what the closure of `pushRetryTimer` holds. The search for a
relay is one step (`SourceClient` has its detail), and so is the healing of a dead
port (`TabSources`). The first resync comes 2 s after the hello was accepted, a retry
1.5 s after the failure, so that no resync fires while the retry of an earlier
connection is pending. `resigned` remembers that the code has given up: a retry
failed, or news were lost in the content script when no resync was left. `unaware`
remembers that the port died while the hello was under way.

**`TabSources`.** The first group of variables is the browser: what tabs show,
whether a content script listens, which events are still to be delivered. The
second is the worker's memory, which `Restart` clears. `job` holds the
asynchronous `setSelection`, `resetSelection` and `initSelection` calls and where
they wait; `owner` is the call whose `Set` is the selection of now, because
`onRemoved` deletes from that object while a loop may walk it.

**`McpSync`.** `dynamic` is `dynamicTools` with the signature of each tool; `copy`
is the client's `clientTools`. The registry is the process's own in server mode and
that of the relay it is attached to in client mode, so that one module composes
both with `RelayRegistry`. Becoming a client or the server is one step; its parts
are in `RelayCluster`. Pushes that are under way are merged into the last of them:
each carries the whole listing.

**`FormFill`.** A `slot` is a `CacheSlot` for the one source and its parameters; its
load is `began` (the version the data had then) and `late` is a loader that lost the
race with the timeout and has not returned. A slot that is forgotten while it loads
is kept until nothing refers to it. What a caller does with a settled promise it
does before any other event, so readers that are `answered` or `failed` go first;
the renderer asked first and goes on first. `fresh` is `freshRequired`, either way.

**`PanelClient`.** `conn` holds a `TabConnection` with the far end of its port: the
requests the page has (`asked`), the number of changes it told of that have not
arrived (`news`), and whether the port was closed behind them (`closing`). The
messages of a port keep their order, so a number says it all. Requests are named: a
list request by the listing it is of, the ping, and a call. A list of tools is a
version of it. A page answers its lists in order, and a call when it has run; an
answer that overtakes no news may show any version the panel has not heard of yet.
A page listens for ports before its handshake with the page world, and answers with
an error if that failed. The default port factory settles before any other event,
so that the port is there when the connection is made. `Settle` is what an event
does in the end: it rejects, finishes listings, rebuilds routes and, where the code
does, lists the tools again.

**`StatusPanel`.** `up` and `down` are the messages on their way; `linked` says that
`onConnect` has run for the port. `waiting`, `asking`, `aligning` and `writing`
count the requests at each await of `setSelection`, `resetSelection` and
`reconcileSelection`, whose awaits on single tabs are in `TabSources` and one step
here. A stop of the worker clears its memory and loses any end of what it had
posted; a closing tab starts a stopped worker, as `tabs.onRemoved` does. A value
that is pushed twice in a row when the port is accepted is pushed once. `After` is
what the panel does with a message to its copy of the log, and `Merged` what is left
of a copy when a run of messages has come. Each message is a step that resets
`terminated` where the count of running calls comes to zero: the code's watcher is
synchronous (`flush: 'sync'`), so that no two changes are seen as one.

**`A2aSource`.** A tool is an agent with its protocol, since its name carries both.
`syncs` are the runs of `a2aHost.sync`, each at the storage or at an agent card;
`entries` are the tools with the number of the list that made them. A call goes
from `message/send` or a Dify request over polls to its end; every way in which it
ends is one action, `Finish`, with the `finally` that frees the agent.

**`AgentChat`.** `turn` is where `runTurn` and `runAgentLoop` wait, with the
transcript so far. A message keeps its role, its session and its tool calls. A
session stands for the agent, since switching agents opens one. A call of a remote
agent is started in one step and goes on with `A2aSource`; any other tool is one
step. A turn without a key or a path for the model ends before it changes anything
and is left out.

## The runs

| Run | Size | Question |
|---|---|---|
| `registry_mcp` | 93,351 states | Do the cached names stay fresh, complete, unique and tied to tabs, and does the MCP client end up with the tools there are, whatever happens to pages, relays and modes? |
| `bridge_safety` | 786,108 | Are calls settled once and by the right party, with none left pending, in every interleaving with closes, timeouts, heartbeats and `stop()`? |
| `bridge_liveness` | 96,642 | Is every call settled and every silent connection closed in the end, is a disallowed source never listed, and does nothing outlive its socket? |
| `cluster` | 87,935 | Do relays that crash, stop and race for ports keep a sound topology and recover? |
| `source_client` | 536,784 | Is the client never stranded, its state true, and does it find a relay that stays? |
| `push` | 697,655 | Does the relay's list follow the page through overlapping, failing and lost pushes, broken sockets and dead ports? |
| `tabs` | 524,511 | Do selection, healing and navigation end with the right tabs connected? |
| `form` | 299,140 | Do cache, options and readers stay in order when loads overlap, fail, time out and are forgotten? |
| `panel` | 160,629 | Do routes, listings and tools follow the selection and the pages? |
| `agent` | 741,136 | Are conversations well formed and apart, agents used one task at a time, and stopped turns ended? |
| `status` | 387,228 | Are log and selection of the panel the worker's, and does every running call end? |
| `cluster_stop` | | A violation, see below. |

**Bounds and why they are enough.** *Registry and MCP server*: two connections over
two tabs, so that they share a tab or differ, and three tools whose names are
exactly those that disambiguation (`a_1234`) and numbering (`a_1234_2`) produce; the
tab ids share the four characters that names show. The lists that pages send
(`Offers`) are the empty one, one tool, the two whose names are taken by others, and
all three. A copy of a tool on a third connection would share the name of its tab.
One name is that of a static tool, and the SDK refuses one tool. Names have room for
three parts, so that the longest tool's names are cut both when a tab and when a
number is appended, and cut names collide. There are ten numerals (`MCNumeral`), one
more than tools of tabs that may want a name. *Bridge*: two browser sources, one
relay client and one call; a call races at most its owner, a second source that
answers in its place, its caller and its timeout. Each connection id is used once,
as `randomUUID` makes them, and the system may stop listening and listen again.
*Cluster*: three processes, one with the first port of the range as its explicit
port, so that a server, a client that gets the port and one that loses the race
exist; three disturbances (crash, stop, foreign service, slow handshake). *Source
client*: two endpoints, one hinted, so that the relay can be where the dormant
heartbeat does not look; three sockets, two searches of one kind, three
disturbances. *Pushes*: two sockets, so that one is closing while the next is found;
the three resyncs of the code; two changes of the page, so that an older, a newer
and the newest list exist; three faults, which is a push and its retry that fail and
one thing more. *Tabs*: two tabs over two http(s) pages and another page, one
selection besides the initial one, two disturbances; the initial states leave out
mirror images. Disturbances are the only things these bounds count: all else that
the code and its environment do is unbounded. *Form*: two slots, so that one is
forgotten while it loads; three versions that add one option and drop another; one
load that fails or times out. *Panel*: two tabs, the page of one of which comes,
goes, changes (`Restless`; `MaxChanges` is one more list after its first, by a
change or a new page) and may need more than the 30 s of a request (`SlowPages`);
one answer too late; one connection object per tab, so that a tab is selected again
once nothing holds its old connection; four listings, of which `spare` ones are kept
from users, so that the bound never holds up what the ports report (a second change
would need a fifth). *Agent*: two agents, one of which changes its protocol, two
saved lists, four moves of the user shared by turns, saves and switches
(`MaxMoves`), one kept turn, two rounds of at most two tool calls, one poll; the
code's 8 rounds and 60 polls are the same loops. *Status*: two tabs, two calls over
a log of one entry, so that the entry of a running call is trimmed; requests and
calls are begun only while fewer than two things are in flight; one stop of the
worker, closed tab or change of the active tab.

**Deadlock** is checked in `bridge_safety`, `bridge_liveness`, `form`, `panel`,
`agent` and `status`. The process of `registry_mcp` really stops, with `stop()`. The
other systems rest when all is connected and wait for the outside, whose events are
bounded, so these configurations switch the check off.

**Fairness** is asked of what the platform guarantees: due timers fire, awaited
operations settle, events that are due are delivered, a socket on which `close()`
was called gets its 'close' event (`ws` and browsers have a close timeout). It is
never asked of users, pages, MCP clients or of a peer's answers, except for
`RelayAnswers` in `SourceClient`: there the relay is a process that is there and
handles messages; that it does not answer in time is a disturbance. In `ToolPush`
live pages and the relay answer, and a dead port is healed; that they do not is a
fault, of which there are finitely many. In `PanelClient` live pages answer their
list requests, as the content script does whatever the page does, unless they are
too late. In `AgentChat` the model need not answer, because its request has no
timeout; only after a stop does the signal end the request. Remote agents and tools
answer or time out. In `StatusPanel` a running call ends by the timeout of
`handleInvoke`. The fairness of a load in `FormFill` is strong: a continuation that
is due goes first and disables the loader for a moment, again and again, and the
loader returns all the same.

**Conjunctions.** `LinksLeadToServers`, `NobodyWaitsInVain`, `SearchGoesOn`,
`ConnectionIsTrue`, `EntriesAreTended`, `ListingIsTrue`, `NoCallIsForgotten`,
`NothingOutlivesItsSocket`, `OnlyTargetsRetry`, `PushesAreSound` and
`PanelIsTruthful` put invariants of one subject together, some with the type
invariant of the module; each part is named and stated on its own.

**Mutants.** Every property has a mutant, a definition `Bug_...` beside the one it
replaces, that makes a plausible mistake in the code; TLC finds the property
violated with it.

## Where the code and its texts disagree

The first is a run of its own, `cluster_stop`. The others were met while modelling,
and follow from the definitions named with them; where they would break a property,
the property says so.

1. **`stop()` is not final.** `bridgeServer.ts:382` says it "Stops all relay
   resources and rejects any pending invocations." A reconnect that is under way
   goes on: `startAsServer` does not look at `stopping`, and `startAsClient` resets
   it. The command line exits after `stop()`, which hides it.
2. **Two relays may serve** (`RelayCluster`, `ReadCache` and `Bind`). After the
   server ends, its clients may bind different ports of the range, since each takes
   the first free candidate it sees and the cache file is read before either has
   written it. The relay's README promises that clients "share the same browser
   connections without manual configuration" (line 248); here they stay apart.
3. **Two connections for one tab** (`SourceClient`, `ReconnectRelay`).
   `reconnectRelay()` does not end the searches that are under way, so two sockets
   may say hello; `README.md:63` and `:96` promise "one connection per selected
   tab". `ConnectionIsTrue` carries the exception `overlapped`, a history variable
   that says this very thing happened.
4. **The inventory keeps tabs that left http(s)** (`TabSources`, `Listed`). The
   comment at `tab-source-manager.ts:474` calls it the list of all connectable
   http(s) tabs; nothing removes a tab that navigates to another kind of page, and
   selecting it then connects with the old URL.
5. **A page that answers after 30 s stays offline** (`PanelClient`,
   `RequestTimesOut`). Its first list request is deleted when it times out
   (`panel-client.ts:441`), the late answer finds no waiter (`:382`) and the port is
   open, so that neither `onDisconnect` nor a ping tries again. The handshake of a
   content script may take 54 s, and `panel-client.ts:395` says that a content
   script that is ready later than the panel recovers by itself. `ToolsAreShown`
   asks that no answer comes too late.
6. **A forced read may be old** (`FormFill`, `Get`). It joins a load that began
   before it (`data-source-resolver.ts:165`), although "forceFresh" skips the cache
   (`:6`); and a `markStale` during a load is undone when the load ends.
7. **A field reported as filled may be blank** (`FormFill`, `WriteInput`). When the
   options arrived in another version than `form_fill_fields` checked against, the
   select refuses the value (`form-renderer.ts:225`) and the tool reports it filled.
8. **A stopped turn may end at the limit** (`AgentChat`, `NextRound`). If the stop
   comes during the last call of the last round, the turn ends with the text of the
   limit and keeps its transcript, not with that of the stop
   (`chat-controller.ts:76`). `StoppedTurnsLeaveNoTrace` excepts it.
9. **An overtaken synchronisation brings agents back** (`A2aSource`, `SetAgents`).
   `setAgents` clears the tools and awaits card after card; an older run that goes
   on adds agents the newer one removed, although `App.tsx:128` has the tools follow
   the saved list. `ToolsFollowTheList` asks that the newest run was alone (`clean`).
   A storage that rejects the read rejects the run, which nobody handles, although
   `a2a-host.ts:95` says it does not throw.
10. **A truncated answer counts as whole** (`A2aSource`, `DifyGoesIdle`). The idle
    timer cancels the reader, a pending read then ends as if the stream did, and the
    text so far is returned as a success (`dify-client.ts:281`); the comments at `:36`
    and `:276` say it fails.
11. **Terminating does not unlock** (`StatusPanel`, `Terminate`). The comments of
    `relay-status-store.ts` say the lock is released at once; `App.tsx:204` locks by
    the number of running calls alone.
12. **A second click may undo the first** (`StatusPanel`, `ToggleTab`). The picker
    computes from the selection that was pushed last (`DataSourcePicker.tsx:28`), and
    a reset that awaits the active tab overrides what was set after it
    (`tab-source-manager.ts:589`). While a worker starts, the panel is pushed an empty
    selection first, and its page connections are disposed for it.
13. **Tools of a dead page may be listed** (`ToolPush`, `HelloAccepted`). The comment at
    `tab-source-manager.ts:744` says the relay is told of a dead port first, so that
    no tools are listed whose calls must fail. While the hello is under way
    `notifySourceDisconnected` does nothing (`relay-source-client.ts:508`), and the
    tools listed before are sent when the hello is accepted (`:879`). They stay until
    the healing rebuilds the client. `DeadPortsAreReported`, a part of
   `PushesAreSound`, excepts it (`unaware`).

`EntriesShowThePage` has an exception too, `overtaken`: a tab that finishes loading
while content scripts are being injected gets its entry rebuilt with the URL that
was read before. The next navigation repairs it, and no text says otherwise.

## The proofs

TLAPS proves these for all values of the constants that meet the named assumptions
(`NoTabAssumption`, `AnyoneAssumption`, `ConnAssumption`, `NoConnAssumption`: the
marker values are not members of the sets they are used beside; the others are named
with the component).

**Registry** (first part of `RelayBridgeProofs`). The inductive invariant
`RegistryInv` is type correctness, `CopiesFollow` (every provider's copy of the tab is
its source's tab) and `NamesFresh`. `CopiesFollow` is the strengthening: it speaks of
`providers`, while `RoutesMatchSources` speaks of the listing. From it follow
`RegistryTypeCorrect`, `ListingNeverStale`, `RoutesFollowSources` and
`NothingUnlisted`, and `ListingSound` puts the last three together for the run. The
lemmas `RebuildSound` and `RebuildComplete` say that the listing consists of the
providers whatever names the allocation gives.

`NamesIdentify` is about the names: two listed providers are called the same exactly
when they are the same tool of the same tab, whatever names disambiguation and
numbering produce. It asks `NamingAssumption`, which is what `String()` gives:
different numerals for different numbers, one more than there are names. The order
in which `rebuildPublicNames` goes over the keys is shown to be the order of a
number (`KeyRanks`, `KeysAreOrdered`); `FirstFreeIsFree` says that among these
numbers one gives a free name, although a name is cut before it is numbered;
`AllocationDefined` and `NamesDiffer` go over the keys in their order; and
`KeysIdentify` says that a key is what tells a tool of a tab from another. A tool
that only one tab offers has a key without the tab, which is why two providers of it
have one name.

**Bridge** (`RelayBridgeProofs`). `BridgeInv` has four parts: the registry's
invariant, `SocketInv`, `CallInv` and `ViewInv`. `CallInv` needs
`CallsFollowLinks` (a call that was not made has no reply; a relay that called has
connected) because `RelayCallsAnswered` would otherwise be broken by a call that
starts with a reply. `ViewInv` needs `ViewsFollowHello` (only a relay that said
hello was sent a listing), because pushes go to relays that said hello and not to
those that merely have a view. The frame lemmas (`CallFrame`, `ViewFrame`,
`RegistryStep`) say which actions leave a part alone; `SocketStep`, `CallStep` and
`ViewStep` go through the actions that disturb one, with one step per action.
`BridgeInvariant` combines them. `BridgeImplementsLedger` shows that every step of
the bridge is a step of the ledger or a stutter: closing a connection and `stop()`
are `Leave`, and a result is an `Answer` because of the code's check of the owner.

`NoneForgotten` and `NothingOutlives` put parts of it together for the runs, and
`BridgeKeepsRegistry` says that the listing of the registry stays true, and its names
stay apart, in the bridge.

**Cluster** (`RelayClusterProofs`; `RangeAssumption`, `NoPortAssumption`,
`NoProcAssumption`, and `BoundsAssumption`, by which a client has more than one
attempt, as with one it could use it up before the strategy that attached it ends).
`ClusterInv` adds to the two properties what holds of a process on its own,
`ProcessInv`. Its core is `StrategyHoldsNothing`: who is in the port strategy has no
port, no clientSocket and no timer. This makes links safe: a process that becomes a
client was nobody's server. `SavedHasRole` and `AttemptsAreLeft` carry
`NeverStranded` over the await between attaching and the end of the strategy, in
which the new server may be lost again. `CandidatesTyped` says that there is always
a port to try.

**Source client** (`SourceClientProofs`; `EndpointAssumption`, `SockAssumption`,
`BoundAssumption`). `SearchInv` holds in spite of the reconnect button. It needs
`PhaseHasSearch`: while the phase is discovering, a search is under way that will
leave it, which a retry of the lost endpoint would not. `ConnectionInv` is about a
button that was not pressed during a search. Its core is `OnePlace`: the client is
searching, about to search, dormant or on a connection, and in one of these only;
hence a search finds no active socket to replace, and the dormant phase starts
without a heartbeat. `HandshakeInOrder` keeps a socket that is used again from the
answers to its last use.

**Pushes** (`ToolPushProofs`; `SockAssumption` and `BoundsAssumption`: there is at
least one resync). All three safety properties follow from `PushInv`. The
heart of it is `StaleAnswersAreMended`: `PushesAreSound` looks at what the relay has,
but a push that brings an old list cancels the retry that was to repair it, so that
whatever mends must stand *behind* every old answer in the queue (`Mending(k)`). That
takes `RequestsFit` (after the hello only requests of its connection wait, hence a
retry timer of an earlier connection means that no resync has fired yet) and
`AnswersInOrder` (answers come in the order of the requests and only get newer),
which also gives `ListsMoveForward`. `DeadIsQuiet` follows a port's death through the
handshake. `AskFacts`, `PopFacts`, `AnswerFacts` and `FailFacts` say once what the four
ways to change the queue do to its members, and the steps cite only them.

**Tabs** (`TabSourcesProofs`; `PageAssumption`: the marker of no page is none of the
pages, among which are those of http(s), and `BoundAssumption`). `TabsInv` adds four
parts to the properties. `EventsFit`: an event that is to be delivered speaks of the
tab as it is, so a removal that is due means a closed tab. `SelectionsFit`: what is
selected, stored or awaited has existed once, and what a reconciliation takes for
stale is gone for good, hence dropping it from the selection takes no connection
away. `GoneLeaveNothing`: after its removal was delivered nothing of a tab is left,
and no await brings it back. `PagesFollow`: what the inventory and the injections
under way will write into an entry is the page of now, which `EntriesShowThePage`
alone does not say. `ReconcileSound` states what the loop of `reconcileSelection`
does to the tabs whichever of them are unknown, and `ReconcileStep` that it keeps
the invariant; the steps that run it, `Select` and the answers of `tabs.get`, cite
it. From the invariant follow `EntriesTended`, `EntriesCurrent` and
`SelectionStored`.

**Panel client** (`PanelClientProofs`; `PanelAssumption`). `PanelInv` says of every
connection, in the map of the client or not, that it is `Sound`: one that was removed
is `Quiet`, one in the map is `Tried` again when it is offline without a port, and
none has heard of more changes than its page has made, which the number of the tools
it lists needs. The routes `Lead` to connections in the map, and listings `Heed` what
they were made of. Every event ends in `Settle`, so what `Settle` does to the
invariant is said once (`SettleSound`, `SettleKeepsInv`), and the lemmas on single
records (`OpenedTyped`, `SendTyped`, `HangupTyped`, `DisposedTyped`, ...) leave a step
only to say which record it changes. From it follow `RoutesAreCurrent` and
`OnlyTargetsTry`.

**Status panel** (`StatusPanelProofs`; `StatusAssumption`). Each of the three
invariants is inductive with the types beside it. `PanelTruthful` needs only that the
running calls of a log are counted (`RunningCounted`). `SelectionShown` needs what the
last message of a queue means for one that grows, that is appended to and that loses
its head (`UpcomingAppend`, `UpcomingConcat`, `UpcomingHead`). `LogsNeverDrift` needs
the same of the merging of the log, which looks at every message: `Merged` is a
recursive function, and `MergedInTwo` (a run of messages is merged one part after the
other) is shown by going over the stages of the merging, of which `StagesExist` and
`StagesAgree` say that there are such and that they are all alike. From it come
`MergedAppend`, which is what the worker does, and `MergedHead`, which is what the
panel does. A port to the page that closes ends several calls in one step; `PagePortEnds`
says what its messages are.

**Tool source** (first part of `AgentChatProofs`; assumptions `ListsAssumption`: a
saved list names no agent twice, which `validateA2aConfigValue` checks, and
`BoundsAssumption`). `SourceInv` is type correctness with `CardsAreAwaited`: a
synchronisation that waits for a card has an agent left, so that it can go on with
the head of its list. `SerialGuard` needs that `inFlight` holds exactly the agents of
open calls, which is not inductive without the uniqueness it implies; both are
`OneTaskPerAgent`. `ToolsFollow` needs `Following`: as long as the newest
synchronisation has been alone, it is at some position of the list in force, and
the tools made so far `Cover` the part of the list before it, namely all agents
there that need no card and none that the list lacks. `Register` goes over a whole
stretch of the list at once; `HeadIsInterval` says that the agents of that stretch
are the first `n` ones, without induction: a set of positions closed downwards is an
interval, since it has as many members as its largest one.

**Chat** (`AgentChatProofs`, also `CallerAssumption` and `ChatAssumption`). `Inv` is
`SourceInv`, `ChatInv` (the transcript and the history were said in the session of
the turn; between turns nothing is left of one) and `ChatWaits` (an open call of
the chat is the one its turn waits for), without which the end of a call could
answer a turn that asked for none. `ChatUsesSource` shows that the chat with the
debug page is a behaviour of the tool source, so that `SerialGuard` and
`ToolsFollow` carry over (`ChatKeepsGuard`, `ChatToolsFollow`). `NoTraceOfStopped`
goes through the ways in which the loop settles. `TranscriptsPaired` needs
`HalfPaired`, a transcript whose last answer of the model has only some of its calls
answered, while the loop runs over them; `TrimIsPaired` shows that a history cut
before a message of the user stays paired, and that the cut is there.
`ConversationsPaired` adds the form of Anthropic's protocol, in which the answers to one
message of the model are the results of one message: `WireIsPaired` goes over the log,
message by message (`PlainWired`, `AnswerWired`), and `NextPlace` says what a paired
log lets come next at each place.

**Induction.** The induction theorems of the library take an operator, which the
installed provers cannot instantiate. Where a proof goes over the natural numbers it
uses a set instead: `Induct` says that a set with 0 and the successor of each of its
members is the whole of `Nat`, and follows from the well-foundedness of `<`
(`NatLessThanWellFounded`). The proofs about `Allocation`, `Merged` and `Wire` show with
it that a recursive function is defined and that every one of its values is as they
say. The modules whose proofs need it (`RelayBridgeProofs`, `StatusPanelProofs`,
`AgentChatProofs`) each have these two lemmas.

Proved: `RegistryTypeOK`, `ListingIsTrue`, `NamesIdentifyTools` of the registry;
`TypeOK`, `NoCallIsForgotten`, `NothingOutlivesItsSocket`, `RelayViewsCurrent`,
`RelayCallsAnswered`, `KeepsLedgerSafety` of the bridge; `LinksLeadToServers`,
`NobodyWaitsInVain` of the cluster; `SearchGoesOn`, `ConnectionIsTrue` of the source
client; `PushesAreSound`, `ListsMoveForward` of the pushes; `EntriesAreTended`,
`EntriesShowThePage`, `SelectionIsStored` of the tabs; `OnlyTargetsRetry`,
`RoutesLeadToTargets` of the panel client; `PanelIsTruthful`, `SelectionIsShown`,
`LogsAgree` of the status panel; `SourceTypeOK`, `OneTaskPerAgent`,
`ToolsFollowTheList` of the tool source; `TypeOK`, `SessionsStayApart`,
`StoppedTurnsLeaveNoTrace`, `ConversationsArePaired` of the chat. These are all the
invariants of the passing runs, and the action properties but two. The type invariants
that are in no run are covered by the theorems.

Only model-checked: `NeverGoesBack` and `OptionsKeepTheChoice` of `FormFill`, about
which there are no proofs yet; and all liveness (`KeepsLedger`, of which the safety
part is proved, `ProbesAreClosed`, `ToolsCatchUp`, `Recovers`, `Reconnects`,
`RelayLearns`, `SelectedEndUpConnected`, `EveryReadSettles`, `ListingsEnd`,
`ToolsAreShown`, `StoppedTurnsEnd`, `RunningEnds`), since fairness and ENABLED are out
of the prover's reach.

## What is left out

- Within modelled components: payload limits, wording, logging, titles, URLs and
  schemas of tools; in `SourceClient` the local-network-access check; in `ToolPush` the
  calls that share the port; in `TabSources` the back-off counter of the healing
  and in `PanelClient` that of the connections (they change when, never whether);
  the per-tab statuses, which are replaced as a whole; the target that `invokeTool`
  drops in client mode (`bridgeServer.ts:496`), so that a call meant for one tab may
  go to another one with the tool, as the code sends it.
- `relay/tools` in the same chunk as the server hello may be emitted between the
  handlers of `connectToRelayServer` and those of `setupClientHandlers`
  (`bridgeServer.ts:1046`) and is lost until the next push; `McpSync` has the relay
  push once after it is attached.
- `relay/schemas.ts`, `protocol.ts`, `cli-utils.ts`: stateless parsing. A message
  that fails its schema is ignored and has no action.
- `core/builtin-tools.ts`, `skill-loader.ts`, `agent-profile.ts`, and of
  `llm-client.ts` the forms of requests and answers: conversions without state that
  outlives a call.
- Rendering, styles, translations, settings, logger and the demo application: they
  show state that other components keep.
- The text of answers, and the events of a Dify stream that make it.
- `start()` after `stop()` on one bridge object: production code exits after
  `stop()`.
- That `tabs.connect` throws (`tab-source-manager.ts:855`), which needs a tab that is
  just closing.
- Of the debug page: that its call does not set the lock of the chat
  (`DebugPage.tsx:27`) is in `AgentChat`; what it shows is not.

## The plan

The order was by what a user would notice first: calls that get lost, relays that do
not find each other, tabs that do not come back, then the side panel and the forms.

1. `RelayRegistry`, `CallLedger`, `RelayBridge` with proofs. Done.
2. `RelayCluster`, `SourceClient`, `TabSources`, `ToolPush` with proofs. Done.
3. `McpSync`, `FormFill`, `PanelClient`, `StatusPanel`. Done, the last two with proofs.
4. `A2aSource`, `AgentChat` with proofs. Done.
5. To do: proofs of the two action properties of `FormFill`.
6. To do: `ToolPush` composed with the bridge; the per-tab statuses.
