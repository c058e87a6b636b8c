---------------------------- MODULE PanelClient ----------------------------
(***************************************************************************)
(* The side panel's client of the page tools (panel-client.ts), the bridge *)
(* at the other end of its ports (page-tools-bridge.ts, content-script.ts) *)
(* and what App.tsx does on its events.                                    *)
(*                                                                         *)
(* Every selected tab has a connection: a port, the requests that wait on  *)
(* it, a timer for the next attempt, and the tools it last listed.  A page *)
(* may leave and come back, offer other tools, answer late or with errors. *)
(* A list of tools is a version of it, 0 when there is none.  The messages *)
(* of a port arrive in the order they were sent: its news, a number of     *)
(* changes, before the close behind them; an answer that overtakes no news *)
(* may show any of the versions the panel has not heard of.  An answer to  *)
(* a request that is no longer pending is dropped, and an end that closes  *)
(* its own port hears nothing of it.  The default portFactory settles      *)
(* before any other event, so that a port is there when its connection is  *)
(* made.                                                                   *)
(***************************************************************************)
EXTENDS Integers, FiniteSets, Sequences, SequencesExt

CONSTANTS
    Tab,
    Object,      \* bound: a tab's connection objects that something still holds
    Listing,     \* the calls of listTools under way
    Restless,    \* bound: the tabs whose pages come, go and change; the others have theirs
    SlowPages,   \* tabs whose page may need more than the 30 s of a request, and not of a ping only
    MaxChanges,  \* bound on the changes of a page's tools
    MaxSlow      \* bound on the requests a live page answers too late

ASSUME PanelAssumption ==
    /\ SlowPages \subseteq Tab /\ Restless \subseteq Tab
    /\ Listing \cap {"ping", "call"} = {}
    /\ MaxChanges \in Nat /\ MaxSlow \in Nat

Conn     == Tab \X Object
TabOf(c) == c[1]
Request  == Listing \cup {"ping", "call"}  \* a list request is named by its listing
Version  == 0 .. MaxChanges + 1

VARIABLES
    page,         \* tab |-> "none": no content script; "up"; "failed": its handshake failed
    offered,      \* tab |-> the tools of its page
    conn,         \* connection |-> its TabConnection, with the far end of its port
    connections,  \* the map's values
    routes,       \* tab |-> the connection and the tools its exposed names lead to
    listing,      \* call of listTools |-> the connections it asked, those that failed
    shown,        \* tab |-> the tools the panel counts
    slow          \* requests that were answered too late

pageVars  == <<page, offered, slow>>
panelVars == <<conn, connections, routes, listing, shown>>
vars == <<pageVars, panelVars>>

NoRoute  == [conn |-> {}, tools |-> 0]
NotAsked == [of |-> {}, failed |-> {}]
Unused   == [port |-> FALSE, online |-> FALSE, removed |-> TRUE, timer |-> FALSE,
             pending |-> {}, tools |-> 0, asked |-> <<>>, far |-> "none",
             heard |-> 0, news |-> 0, closing |-> FALSE]

Init ==
    /\ page \in [Tab -> {"none", "up"}] /\ \A t \in Tab \ Restless : page[t] = "up"
    /\ offered = [t \in Tab |-> 1]
    /\ conn = [c \in Conn |-> Unused]
    /\ connections = {}
    /\ routes = [t \in Tab |-> NoRoute]
    /\ listing = [l \in Listing |-> NotAsked]
    /\ shown = [t \in Tab |-> 0]
    /\ slow = 0

------------------------------------------------------------------------------
(* Connections.                                                            *)

Without(r, q) == [r EXCEPT !.pending = @ \ {q}, !.asked = Remove(@, q)]

\* A live page needs its time, or no answer can come (a close that is on its way
\* comes first); a call may need any time.
Late(c, q) == q \in Range(conn[c].asked) \ {"call"} /\ TabOf(c) \in SlowPages /\ slow < MaxSlow
Lost(c, q) == ~conn[c].closing /\ (q = "call" \/ q \notin Range(conn[c].asked))
Bug_Overdue(c, q) == conn[c].port /\ (Lost(c, q) \/ Late(c, q))
Overdue(c, q)     == Lost(c, q) \/ Late(c, q)

\* ensurePort(): without a receiver the port closes by itself a moment later.
Opened(r, t) ==
    LET kind == page[t]
    IN  IF r.port THEN r
        ELSE [r EXCEPT !.port = TRUE, !.far = kind, !.heard = offered[t],
                       !.news = 0, !.closing = kind = "none"]

Dropped(r) == [r EXCEPT !.port = FALSE, !.asked = <<>>, !.far = "none", !.heard = 0,
                         !.news = 0, !.closing = FALSE]

\* request()
Send(r, t, q) ==
    LET p == Opened(r, t)
    IN  [p EXCEPT !.pending = @ \cup {q}, !.asked = IF p.closing THEN @ ELSE Append(@, q)]

Scheduled(r) == IF r.removed \/ r.online THEN r ELSE [r EXCEPT !.timer = TRUE]

\* onDisconnect: the connection is torn down, and only then tried again.
TornDown(r)   == [Dropped(r) EXCEPT !.pending = {}, !.online = FALSE]
Hangup(r)     == Scheduled(TornDown(r))

\* disposeConnection()
Bug_Disposed(r) == [Dropped(r) EXCEPT !.removed = TRUE, !.pending = {}]
Disposed(r)     == [Dropped(r) EXCEPT !.removed = TRUE, !.timer = FALSE, !.pending = {}]

\* createConnection()
Created(t) == Opened([Unused EXCEPT !.removed = FALSE], t)

Online(cs, on) == on # {} /\ \A c \in on : cs[c].online  \* computeConnected()

\* rebuildRoutes()
Routes(cs, on) ==
    [t \in Tab |-> LET c == {d \in on : TabOf(d) = t /\ cs[d].tools # 0}
                   IN  IF c = {} THEN NoRoute ELSE [conn |-> c, tools |-> cs[CHOOSE d \in c : TRUE].tools]]

------------------------------------------------------------------------------
(* Listings.  An event changes the connections to cs and rejects the list  *)
(* requests that `gone` names; it may make the App refresh its tools, if   *)
(* more than `spare` of the bounded listings are free: the bound holds up  *)
(* users, and neither the news nor the answers of a port.                  *)

Rejected(ls, cs, gone) == [l \in Listing |-> [ls[l] EXCEPT !.failed = @ \cup {c \in ls[l].of : <<l, c>> \in gone}]]
Waiters(r, c) == (r.pending \cap Listing) \X {c}

\* listTools(): what it merged when every request of the listing is settled;
\* nothing if they all failed, and of a removed connection what it last listed.
Merged(cs, l) ==
    [t \in Tab |-> LET c == {d \in l.of : TabOf(d) = t}
                   IN  IF c = {} \/ l.failed = l.of THEN 0 ELSE cs[CHOOSE d \in c : TRUE].tools]

\* Nothing holds the object of a removed connection any more.
Forgotten(r, c, ls) == r.removed /\ ~r.timer /\ r.pending = {} /\ \A l \in Listing : c \notin ls[l].of

Settle(cs, on, gone, refresh, spare, reroute) ==
    LET old   == Rejected(listing, cs, gone)
        done  == {l \in Listing : /\ old[l].of # {}
                                  /\ \A c \in old[l].of : l \notin cs[c].pending}
        rest  == [l \in Listing |-> IF l \in done THEN NotAsked ELSE old[l]]
        idle  == {l \in Listing : listing[l] = NotAsked}
        next  == CHOOSE l \in idle : TRUE
        asks  == refresh /\ on # {}
    IN  /\ asks => Cardinality(idle) > spare
        /\ connections' = on
        /\ listing' = IF asks THEN [rest EXCEPT ![next] = [of |-> on, failed |-> {}]] ELSE rest
        /\ conn' = [c \in Conn |-> IF asks /\ c \in on THEN Send(cs[c], TabOf(c), next)
                                   ELSE IF Forgotten(cs[c], c, rest) THEN Unused ELSE cs[c]]
        /\ routes' = IF done # {} \/ reroute THEN Routes(cs, on) ELSE routes
        /\ IF done # {} THEN \E l \in done : shown' = Merged(cs, old[l])
           ELSE shown' = IF refresh /\ on = {} THEN [t \in Tab |-> 0] ELSE shown

\* onSelectionChanged: setTargetTabs() disposes and creates connections and
\* rebuilds the routes, and the App lists the tools again.
Retarget(tabs, reroute) ==
    LET kept  == {c \in connections : TabOf(c) \in tabs}
        out   == connections \ kept
        fresh == {t \in tabs : \A c \in kept : TabOf(c) # t}
        Unheld(t) == {c \in {t} \X Object : conn[c] = Unused}
    IN  /\ tabs # {TabOf(c) : c \in connections}
        /\ \A t \in fresh : Unheld(t) # {}
        /\ LET new == {CHOOSE c \in Unheld(t) : TRUE : t \in fresh}
               cs  == [c \in Conn |-> IF c \in out THEN Disposed(conn[c])
                                      ELSE IF c \in new THEN Created(TabOf(c)) ELSE conn[c]]
           IN  Settle(cs, kept \cup new, UNION {Waiters(conn[c], c) : c \in out}, TRUE, 2, reroute)
        /\ UNCHANGED pageVars

Bug_SelectTabs(tabs) == Retarget(tabs, FALSE)
SelectTabs(tabs)     == Retarget(tabs, TRUE)

\* disconnect(): the panel unmounts, and its client with it; the next panel
\* starts with a new one.
Unmount ==
    /\ connections # {}
    /\ listing' = [l \in Listing |-> NotAsked]
    /\ conn' = [c \in Conn |-> LET d == IF c \in connections THEN Disposed(conn[c]) ELSE conn[c]
                               IN  IF Forgotten(d, c, listing') THEN Unused ELSE d]
    /\ connections' = {}
    /\ routes' = [t \in Tab |-> NoRoute]
    /\ shown' = [t \in Tab |-> 0]
    /\ UNCHANGED pageVars

\* A turn of the agent, or the debug page, lists the tools.
GetTools ==
    /\ connections # {} /\ \A l \in Listing : listing[l] = NotAsked
    /\ Settle(conn, connections, {}, TRUE, 3, FALSE)
    /\ UNCHANGED pageVars

\* callTool(): by its route, one call at a time.
CallTool(t) ==
    /\ \A c \in Conn : "call" \notin conn[c].pending
    /\ \E c \in routes[t].conn : conn' = [conn EXCEPT ![c] = Send(@, t, "call")]
    /\ UNCHANGED <<pageVars, connections, routes, listing, shown>>

\* onMessage: the page answers its lists in their order, and a call when it has
\* run; a page whose handshake failed answers with its error.  The first answer makes
\* the connection online, and that may make all of them so.
Lists(r) == SelectSeq(r.asked, LAMBDA q : q # "call")

Answer(c, q) ==
    LET r     == conn[c]
        heard == [Without(r, q) EXCEPT !.online = TRUE]
        Hear(n, gone) ==
            LET cs == [conn EXCEPT ![c] = n]
            IN  Settle(cs, connections, gone, Online(cs, connections) /\ ~Online(conn, connections), 0, FALSE)
    IN  /\ q \in Range(r.asked) /\ (q = "call" \/ IsPrefix(<<q>>, Lists(r)))
        /\ IF q \in Listing /\ r.far = "up"
           THEN \E v \in r.heard .. r.heard + r.news : Hear([heard EXCEPT !.tools = v], {})
           ELSE Hear(heard, {q} \X {c})
        /\ UNCHANGED pageVars

\* onMessage: what the connection listed is out of date, and the App refreshes.
HearNews(c, refresh) ==
    /\ conn[c].news > 0
    /\ LET heard == [conn[c] EXCEPT !.tools = 0, !.heard = @ + 1, !.news = @ - 1]
       IN  Settle([conn EXCEPT ![c] = heard], connections, {}, refresh, 0, FALSE)
    /\ UNCHANGED pageVars

Bug_HearChange(c) == HearNews(c, FALSE)
HearChange(c)     == HearNews(c, TRUE)

\* onDisconnect
HearClose(c) ==
    /\ conn[c].closing /\ conn[c].news = 0
    /\ Settle([conn EXCEPT ![c] = Hangup(@)], connections, Waiters(conn[c], c), FALSE, 0, FALSE)
    /\ UNCHANGED pageVars

\* The reconnect timer: verifyConnection() sends a ping.
TimerFires(c) ==
    LET idle == [conn[c] EXCEPT !.timer = FALSE]
    IN  /\ conn[c].timer
        /\ conn' = [conn EXCEPT ![c] = IF idle.removed \/ idle.online THEN idle ELSE Send(idle, TabOf(c), "ping")]
        /\ UNCHANGED <<pageVars, connections, routes, listing, shown>>

\* 5 s without an answer: the port is given up, and the rest of its requests
\* wait for their own time.  If something else was answered meanwhile the
\* connection stays online.
PingTimesOut(c) ==
    /\ "ping" \in conn[c].pending /\ slow < MaxSlow
    /\ slow' = slow + 1
    /\ LET rest == [conn[c] EXCEPT !.pending = @ \ {"ping"}]
       IN  conn' = [conn EXCEPT ![c] = Scheduled(Dropped(rest))]
    /\ UNCHANGED <<page, offered, connections, routes, listing, shown>>

\* 30 s without an answer: the request fails, and nothing else changes.
RequestTimesOut(c, q) ==
    /\ q \in conn[c].pending \ {"ping"} /\ Overdue(c, q)
    /\ slow' = IF Late(c, q) THEN slow + 1 ELSE slow
    /\ Settle([conn EXCEPT ![c] = Without(@, q)], connections, {q} \X {c}, FALSE, 0, FALSE)
    /\ UNCHANGED <<page, offered>>

------------------------------------------------------------------------------
(* The pages.                                                              *)

MoreChanges(t) == offered[t] <= MaxChanges

\* The page has a port of this connection, and may still send on it.
Reaches(t, c) == conn[c].port /\ TabOf(c) = t /\ ~conn[c].closing

\* The page unloads: its ports close behind what it has sent.
Leave(t) ==
    /\ page[t] # "none"
    /\ page' = [page EXCEPT ![t] = "none"]
    /\ conn' = [c \in Conn |-> IF Reaches(t, c) THEN [conn[c] EXCEPT !.closing = TRUE] ELSE conn[c]]
    /\ UNCHANGED <<offered, slow, connections, routes, listing, shown>>

\* The content script starts: it listens for ports before its handshake.
Arrive(t) ==
    /\ page[t] = "none" /\ MoreChanges(t)
    /\ \E p \in {"up", "failed"} : page' = [page EXCEPT ![t] = p]
    /\ offered' = [offered EXCEPT ![t] = @ + 1]
    /\ UNCHANGED <<slow, panelVars>>

\* listChanged: notifyToolsChanged() tells every port.
ChangeTools(t) ==
    /\ page[t] = "up" /\ MoreChanges(t)
    /\ offered' = [offered EXCEPT ![t] = @ + 1]
    /\ conn' = [c \in Conn |-> IF Reaches(t, c) THEN [conn[c] EXCEPT !.news = @ + 1] ELSE conn[c]]
    /\ UNCHANGED <<page, slow, connections, routes, listing, shown>>

------------------------------------------------------------------------------
Panel ==
    \/ \E tabs \in SUBSET Tab : SelectTabs(tabs)
    \/ Unmount
    \/ GetTools
    \/ \E t \in Tab : CallTool(t)
    \/ \E c \in Conn : HearChange(c) \/ HearClose(c) \/ TimerFires(c) \/ PingTimesOut(c)
    \/ \E c \in Conn, q \in Request : Answer(c, q) \/ RequestTimesOut(c, q)

Pages == \E t \in Restless : Leave(t) \/ Arrive(t) \/ ChangeTools(t)

Next == Panel \/ Pages

\* Messages arrive, pages answer, and timers fire; nobody needs to select, to
\* call or to navigate, and no ping needs to come too late.
Fairness == \A c \in Conn :
    /\ WF_vars(HearChange(c) \/ HearClose(c))
    /\ WF_vars(TimerFires(c))
    /\ WF_vars(\E q \in Request \ {"call"} : Answer(c, q))
    /\ WF_vars(\E q \in Listing : RequestTimesOut(c, q))

Spec == Init /\ [][Next]_vars /\ Fairness

------------------------------------------------------------------------------
(* Properties.                                                             *)

TypeOK ==
    /\ page \in [Tab -> {"none", "up", "failed"}] /\ offered \in [Tab -> Version]
    /\ connections \subseteq Conn /\ shown \in [Tab -> Version] /\ slow \in 0 .. MaxSlow
    /\ \A c \in Conn : conn[c].tools \in Version /\ conn[c].pending \subseteq Request
    /\ \A t \in Tab : routes[t].conn \subseteq Conn /\ routes[t].tools \in Version
    /\ \A l \in Listing : listing[l].failed \subseteq listing[l].of /\ listing[l].of \subseteq Conn

\* Nothing of a removed connection lives on: no port, no request, no timer that
\* would open the tab again (disposeConnection, verifyConnection).
RemovedIsQuiet == \A c \in Conn : conn[c].removed => ~conn[c].port /\ ~conn[c].timer /\ conn[c].pending = {}

\* An exposed name leads to a tab that is selected now, whatever listings were
\* under way when the selection changed (setTargetTabs, rebuildRoutes).
RoutesLeadToTargets == \A t \in Tab : \A c \in routes[t].conn : c \in connections /\ TabOf(c) = t

\* A selected tab without a port is offline for a while only: its next attempt
\* is scheduled (scheduleReconnect after onDisconnect and verifyConnection).
OfflineIsRetried == \A c \in connections : ~conn[c].port /\ ~conn[c].online => conn[c].timer

\* Attempts are made for target tabs only, and until they succeed.
OnlyTargetsRetry == TypeOK /\ RemovedIsQuiet /\ OfflineIsRetried

\* Every listing ends, also when its port was given up under it, and with it
\* the turn of the agent that waits for it (request, Promise.allSettled).
ListingsEnd == \A l \in Listing : []<>(listing[l] = NotAsked)

Selected(t) == \E c \in connections : TabOf(c) = t

\* While the same tabs stay selected, their pages stay and no ping comes too
\* late, the panel ends up with the tools the pages offer (onToolsChange,
\* onStatusChange and refreshTools of the App).
ToolsAreShown ==
    /\ <>[][UNCHANGED connections]_vars
    /\ <>[](slow = 0 /\ \A c \in connections : page[TabOf(c)] = "up")
    => <>[](\A c \in connections : shown[TabOf(c)] = offered[TabOf(c)])

==============================================================================
