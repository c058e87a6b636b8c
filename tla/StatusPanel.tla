---------------------------- MODULE StatusPanel ----------------------------
(***************************************************************************)
(* The status port between the service worker and the side panel: the      *)
(* worker pushes the selection of tabs and the log of relay calls, the     *)
(* panel asks for selections.  Either end may be gone: the worker is       *)
(* stopped at any moment and starts again from what it stored, the panel   *)
(* is closed and opened by the user, and the port is made again by a timer.*)
(* Left out: the per-tab statuses (SourceClient and TabSources model what  *)
(* they report), the two reconnect requests, and the arguments, results    *)
(* and times of the log's entries.  A value pushed twice in a row when the *)
(* port is accepted is pushed once here.                                   *)
(***************************************************************************)
EXTENDS Integers, Sequences, FiniteSets, SequencesExt

CONSTANTS
  Tabs,        \* browser tabs
  NoTab,       \* no active tab
  Cap,         \* INVOKE_LOG_CAP
  MaxCalls,    \* bound: relay calls
  MaxInFlight, \* bound: requests, calls and messages in flight when another starts
  MaxEvents    \* bound: stops of the worker, closed tabs, changes of the active tab

ASSUME StatusAssumption ==
  /\ NoTab \notin Tabs
  /\ Cap \in Nat \ {0}
  /\ {MaxCalls, MaxInFlight, MaxEvents} \subseteq Nat

Calls == 1 .. MaxCalls

VARIABLES
  open, active,     \* the browser: open tabs, the active one
  worker,           \* "down", then "init", "aligning", "storing", "ready"
  selected, stored, \* selectedTabIds, and its copy in chrome.storage
  waiting,          \* requests that await selectionInitPromise
  asking,           \* resets that await tabs.query
  aligning,         \* reconciles that await tabs.get
  writing,          \* reconciles that await the write of the selection
  log, running,     \* invokeLogs; the calls handleInvoke has not finished
  panel, port, timer, \* the panel is open; its port; reconnectTimer
  shown, seen,      \* the panel's selection and its copy of the log
  terminated,       \* the user stopped waiting for the relay's calls
  linked, up, down, \* onConnect has run for the port; messages on their way
  counts            \* of calls, and of events of the browser, so far

browserVars == <<open, active>>
jobVars == <<waiting, asking, aligning, writing>>
selectionVars == <<worker, selected, stored, waiting, asking, aligning, writing>>
logVars == <<log, running>>
panelVars == <<panel, port, timer, shown, seen, terminated>>
linkVars == <<linked, up, down>>
vars == <<browserVars, selectionVars, logVars, panelVars, linkVars, counts>>

Count(what, limit) ==
  /\ counts[what] < limit
  /\ counts' = [counts EXCEPT ![what] = @ + 1]

Entries == [call : Calls, done : BOOLEAN]
Requests == [type : {"set"}, tabs : SUBSET Tabs] \cup [type : {"reset"}]
Messages ==
  [type : {"selection"}, tabs : SUBSET Tabs]
    \cup [type : {"logs"}, log : Seq(Entries)]
    \cup [type : {"started", "finished"}, call : Calls]
    \cup [type : {"closed"}]

TypeOK ==
  /\ open \subseteq Tabs /\ active \in open \cup {NoTab}
  /\ worker \in {"down", "init", "aligning", "storing", "ready"}
  /\ selected \subseteq Tabs /\ stored \subseteq Tabs
  /\ waiting \in Seq(Requests)
  /\ {asking, aligning, writing} \subseteq Nat
  /\ log \in Seq(Entries) /\ running \subseteq Calls
  /\ panel \in BOOLEAN /\ port \in BOOLEAN /\ timer \in BOOLEAN
  /\ shown \subseteq Tabs /\ seen \in Seq(Entries) /\ terminated \in BOOLEAN
  /\ linked \in BOOLEAN /\ up \in Seq(Requests) /\ down \in Seq(Messages)
  /\ counts \in [{"call", "event"} -> Nat]

Init ==
  /\ open = Tabs /\ active \in Tabs
  /\ worker = "down" /\ selected = {} /\ stored \in {{}, {active}}
  /\ waiting = <<>> /\ asking = 0 /\ aligning = 0 /\ writing = 0
  /\ log = <<>> /\ running = {}
  /\ panel = FALSE /\ port = FALSE /\ timer = FALSE /\ terminated = FALSE
  /\ shown = {} /\ seen = <<>>
  /\ linked = FALSE /\ up = <<>> /\ down = <<>>
  /\ counts = [c \in {"call", "event"} |-> 0]

\* Whoever starts something does so only while little is in flight.
Room ==
  Len(up) + Len(down) + Len(waiting) + asking + aligning + writing + Cardinality(running)
    < MaxInFlight

-----------------------------------------------------------------------------
(* The log, kept alike on both sides by applyInvokeLogEvent.               *)

ApplyEvent(buffer, phase, call) ==
  LET longer == Append(buffer, [call |-> call, done |-> FALSE])
      hits == {i \in DOMAIN buffer : buffer[i].call = call /\ ~buffer[i].done}
  IN  IF phase = "started"
      THEN SubSeq(longer, IF Len(longer) > Cap THEN Len(longer) - Cap + 1 ELSE 1, Len(longer))
      ELSE IF hits = {} THEN buffer
      ELSE [buffer EXCEPT ![CHOOSE i \in hits : \A j \in hits : j <= i].done = TRUE]

RunningIn(buffer) == {i \in DOMAIN buffer : ~buffer[i].done}

\* A copy of the log once a message is merged into it, and once all are.
After(buffer, message) ==
  CASE message.type = "logs" -> message.log
    [] message.type \in {"started", "finished"} -> ApplyEvent(buffer, message.type, message.call)
    [] OTHER -> buffer

Merged(buffer, messages) ==
  LET after[k \in 0 .. Len(messages)] ==
        IF k = 0 THEN buffer ELSE After(after[k - 1], messages[k])
  IN  after[Len(messages)]

-----------------------------------------------------------------------------
(* The service worker.                                                     *)

Push(message) == down' = IF linked THEN Append(down, message) ELSE down

EmitSelection(tabs) == Push([type |-> "selection", tabs |-> tabs])

\* A connect of the panel starts a stopped worker (its listeners are back
\* before onConnect is delivered, its selection is not).
WorkerStarts ==
  /\ worker = "down" /\ port
  /\ worker' = "init"
  /\ UNCHANGED <<browserVars, selected, stored, jobVars, logVars, panelVars, linkVars, counts>>

InitReadsSelection ==
  /\ worker = "init"
  /\ selected' = IF stored # {} THEN stored ELSE {active} \ {NoTab}
  /\ worker' = "aligning"
  /\ UNCHANGED <<browserVars, stored, jobVars, logVars, panelVars, linkVars, counts>>

\* The first reconcile drops tabs that are gone and writes the selection.
InitAligns ==
  /\ worker = "aligning"
  /\ selected' = selected \cap open
  /\ stored' = selected'
  /\ worker' = "storing"
  /\ UNCHANGED <<browserVars, jobVars, logVars, panelVars, linkVars, counts>>

\* selectionInitPromise resolves: what awaited it goes on in its order.
InitEnds ==
  LET sets == {i \in DOMAIN waiting : waiting[i].type = "set"}
  IN  /\ worker = "storing"
      /\ worker' = "ready"
      /\ EmitSelection(selected)
      /\ selected' = IF sets = {} THEN selected ELSE waiting[Max(sets)].tabs
      /\ aligning' = aligning + Cardinality(sets)
      /\ asking' = asking + Cardinality(DOMAIN waiting \ sets)
      /\ waiting' = <<>>
      /\ UNCHANGED <<browserVars, stored, writing, logVars, panelVars, linked, up, counts>>

Bug_AcceptPort ==
  /\ worker # "down" /\ port /\ ~linked /\ down = <<>>
  /\ linked' = TRUE
  /\ down' = <<[type |-> "selection", tabs |-> selected]>>
  /\ UNCHANGED <<browserVars, selectionVars, logVars, panelVars, up, counts>>

\* startRelayStatusPort: everything is sent once, then subscribed to.
AcceptPort ==
  /\ worker # "down" /\ port /\ ~linked /\ down = <<>>
  /\ linked' = TRUE
  /\ down' = <<[type |-> "selection", tabs |-> selected], [type |-> "logs", log |-> log]>>
  /\ UNCHANGED <<browserVars, selectionVars, logVars, panelVars, up, counts>>

ReceiveSet ==
  /\ linked /\ up # <<>> /\ Head(up).type = "set"
  /\ up' = Tail(up)
  /\ IF worker = "ready"
     THEN /\ selected' = Head(up).tabs
          /\ aligning' = aligning + 1
          /\ UNCHANGED waiting
     ELSE /\ waiting' = Append(waiting, Head(up))
          /\ UNCHANGED <<selected, aligning>>
  /\ UNCHANGED <<browserVars, worker, stored, asking, writing, logVars, panelVars, linked, down, counts>>

ReceiveReset ==
  /\ linked /\ up # <<>> /\ Head(up).type = "reset"
  /\ up' = Tail(up)
  /\ IF worker = "ready"
     THEN asking' = asking + 1 /\ UNCHANGED waiting
     ELSE waiting' = Append(waiting, Head(up)) /\ UNCHANGED asking
  /\ UNCHANGED <<browserVars, worker, selected, stored, aligning, writing, logVars, panelVars,
                 linked, down, counts>>

ResetAnswered ==
  /\ asking > 0
  /\ asking' = asking - 1
  /\ selected' = {active} \ {NoTab}
  /\ aligning' = aligning + 1
  /\ UNCHANGED <<browserVars, worker, stored, waiting, writing, logVars, panelVars, linkVars, counts>>

\* reconcileSelection up to the write, and from the write to its end.
ReconcileAligns ==
  /\ aligning > 0
  /\ aligning' = aligning - 1
  /\ selected' = selected \cap open
  /\ stored' = selected'
  /\ writing' = writing + 1
  /\ UNCHANGED <<browserVars, worker, waiting, asking, logVars, panelVars, linkVars, counts>>

ReconcileEnds ==
  /\ writing > 0
  /\ writing' = writing - 1
  /\ EmitSelection(selected)
  /\ UNCHANGED <<browserVars, worker, selected, stored, waiting, asking, aligning, logVars,
                 panelVars, linked, up, counts>>

\* recordInvokeLog: its listener passes the event on to the port.
Record(phase, call) ==
  /\ log' = ApplyEvent(log, phase, call)
  /\ Push([type |-> phase, call |-> call])

CallStarts ==
  LET call == counts["call"] + 1
  IN  /\ worker \in {"aligning", "storing", "ready"} /\ selected # {} /\ Room
      /\ Count("call", MaxCalls)
      /\ running' = running \cup {call}
      /\ Record("started", call)
      /\ UNCHANGED <<browserVars, selectionVars, panelVars, linked, up>>

\* A request to the page that is pending is answered or times out; what comes
\* for it later finds nothing and is dropped.
Settled(call) == call \in running /\ running' = running \ {call}

\* handleInvoke goes on, or its own timeout has won the race.
CallEnds(call) ==
  /\ Settled(call)
  /\ Record("finished", call)
  /\ UNCHANGED <<browserVars, selectionVars, panelVars, linked, up, counts>>

\* The port to the page closes: every pending request is rejected, in order.
PagePortCloses ==
  \E ended \in [1 .. Cardinality(running) -> running] :
    LET ends == [i \in 1 .. Cardinality(running) |-> [type |-> "finished", call |-> ended[i]]]
    IN  /\ \A i, j \in DOMAIN ended : i < j => ended[i] < ended[j]
        /\ running # {} /\ running' = {}
        /\ log' = Merged(log, ends)
        /\ down' = IF linked THEN down \o ends ELSE down
        /\ UNCHANGED <<browserVars, selectionVars, panelVars, linked, up, counts>>

\* Chrome stops the worker: its memory is gone, some of what it had posted
\* may be too, and the panel is told that the port is closed.
WorkerStops ==
  /\ worker # "down" /\ Count("event", MaxEvents)
  /\ worker' = "down" /\ selected' = {}
  /\ waiting' = <<>> /\ asking' = 0 /\ aligning' = 0 /\ writing' = 0
  /\ log' = <<>> /\ running' = {}
  /\ linked' = FALSE /\ up' = <<>>
  /\ IF port /\ (down = <<>> \/ Last(down).type # "closed")
     THEN \E k \in 0 .. Len(down) : down' = Append(SubSeq(down, 1, k), [type |-> "closed"])
     ELSE UNCHANGED down
  /\ UNCHANGED <<browserVars, stored, panelVars>>

-----------------------------------------------------------------------------
(* The browser's tabs.                                                     *)

Bug_TabCloses(t) ==
  /\ t \in open /\ Count("event", MaxEvents)
  /\ open' = open \ {t}
  /\ active' \in IF active # t THEN {active} ELSE IF open' = {} THEN {NoTab} ELSE open'
  /\ worker' = IF worker = "down" THEN "init" ELSE worker
  /\ selected' = selected \ {t}
  /\ stored' = IF t \in selected THEN selected' ELSE stored
  /\ UNCHANGED <<jobVars, logVars, panelVars, linkVars>>

\* tabs.onRemoved starts a stopped worker.
TabCloses(t) ==
  /\ t \in open /\ Count("event", MaxEvents)
  /\ open' = open \ {t}
  /\ active' \in IF active # t THEN {active} ELSE IF open' = {} THEN {NoTab} ELSE open'
  /\ worker' = IF worker = "down" THEN "init" ELSE worker
  /\ selected' = selected \ {t}
  /\ IF t \in selected
     THEN stored' = selected' /\ EmitSelection(selected')
     ELSE UNCHANGED <<stored, down>>
  /\ UNCHANGED <<jobVars, logVars, panelVars, linked, up>>

ActiveMoves(t) ==
  /\ t \in open \ {active} /\ Count("event", MaxEvents)
  /\ active' = t
  /\ UNCHANGED <<open, selectionVars, logVars, panelVars, linkVars>>

-----------------------------------------------------------------------------
(* The side panel.                                                         *)

\* On mount the panel connects, binds the store and asks for a reset.
PanelOpens ==
  /\ ~panel /\ Room
  /\ panel' = TRUE /\ port' = TRUE /\ timer' = FALSE
  /\ shown' = {} /\ seen' = <<>> /\ terminated' = FALSE
  /\ linked' = FALSE /\ up' = <<[type |-> "reset"]>> /\ down' = <<>>
  /\ UNCHANGED <<browserVars, selectionVars, logVars, counts>>

PanelCloses ==
  /\ panel
  /\ panel' = FALSE /\ port' = FALSE /\ timer' = FALSE
  /\ shown' = {} /\ seen' = <<>> /\ terminated' = FALSE
  /\ linked' = FALSE /\ up' = <<>> /\ down' = <<>>
  /\ UNCHANGED <<browserVars, selectionVars, logVars, counts>>

\* sendRequest: dropped without a port; lost on a port whose end is gone.
SendRequest(request) ==
  /\ port /\ Room
  /\ up' = IF down # <<>> /\ Last(down).type = "closed" THEN up ELSE Append(up, request)
  /\ UNCHANGED <<browserVars, selectionVars, logVars, panelVars, linked, down, counts>>

\* A checkbox: the selection the panel shows, with one tab added or taken.
ToggleTab(t) ==
  SendRequest([type |-> "set", tabs |-> IF t \in shown THEN shown \ {t} ELSE shown \cup {t}])

ResetClicked == SendRequest([type |-> "reset"])

Bug_SeenBecomes(buffer) ==
  /\ seen' = buffer
  /\ terminated' = IF buffer # <<>> /\ RunningIn(buffer) = {} THEN FALSE ELSE terminated

\* The store's watcher runs when the number of running entries has changed.
SeenBecomes(buffer) ==
  /\ seen' = buffer
  /\ terminated' =
       IF Cardinality(RunningIn(buffer)) # Cardinality(RunningIn(seen)) /\ RunningIn(buffer) = {}
       THEN FALSE
       ELSE terminated

ReceiveSelection(message) ==
  /\ message.type = "selection"
  /\ shown' = message.tabs
  /\ UNCHANGED <<port, timer, seen, terminated>>

ReceiveLogs(message) ==
  /\ message.type = "logs"
  /\ SeenBecomes(message.log)
  /\ UNCHANGED <<port, timer, shown>>

ReceiveEvent(message) ==
  /\ message.type \in {"started", "finished"}
  /\ SeenBecomes(ApplyEvent(seen, message.type, message.call))
  /\ UNCHANGED <<port, timer, shown>>

Bug_PortClosed(message) ==
  /\ message.type = "closed"
  /\ port' = FALSE
  /\ UNCHANGED <<timer, shown, seen, terminated>>

PortClosed(message) ==
  /\ message.type = "closed"
  /\ port' = FALSE /\ timer' = TRUE
  /\ UNCHANGED <<shown, seen, terminated>>

Deliver ==
  /\ down # <<>>
  /\ down' = Tail(down)
  /\ LET message == Head(down)
     IN  \/ ReceiveSelection(message)
         \/ ReceiveLogs(message)
         \/ ReceiveEvent(message)
         \/ PortClosed(message)
  /\ UNCHANGED <<browserVars, selectionVars, logVars, panel, linked, up, counts>>

ReconnectFires ==
  /\ timer
  /\ timer' = FALSE /\ port' = TRUE
  /\ linked' = FALSE /\ up' = <<>> /\ down' = <<>>
  /\ UNCHANGED <<browserVars, selectionVars, logVars, panel, shown, seen, terminated, counts>>

Terminate ==
  /\ panel /\ RunningIn(seen) # {} /\ ~terminated
  /\ terminated' = TRUE
  /\ UNCHANGED <<browserVars, selectionVars, logVars, panel, port, timer, shown, seen, linkVars, counts>>

-----------------------------------------------------------------------------
WorkerWorks ==
  \/ WorkerStarts \/ InitReadsSelection \/ InitAligns \/ InitEnds \/ AcceptPort
  \/ ReceiveSet \/ ReceiveReset \/ ResetAnswered \/ ReconcileAligns \/ ReconcileEnds

PanelWorks == Deliver \/ ReconnectFires

UserActs ==
  \/ PanelOpens \/ PanelCloses \/ ResetClicked \/ Terminate
  \/ \E t \in Tabs : TabCloses(t) \/ ActiveMoves(t) \/ ToggleTab(t)

Next ==
  \/ WorkerWorks \/ PanelWorks \/ UserActs
  \/ CallStarts \/ PagePortCloses \/ WorkerStops
  \/ \E call \in Calls : CallEnds(call)

\* Calls end by their timeout; timers fire, messages arrive, promises settle.
Spec ==
  /\ Init /\ [][Next]_vars
  /\ WF_vars(WorkerStarts) /\ WF_vars(AcceptPort)
  /\ WF_vars(Deliver) /\ WF_vars(ReconnectFires)
  /\ \A call \in Calls : WF_vars(CallEnds(call))

-----------------------------------------------------------------------------
(* With what is on its way delivered, the panel's log is the worker's: one *)
(* merge on both sides and a full copy on every connect leave no drift,    *)
(* whatever was trimmed or lost with a worker in between                   *)
(* (relay-status-protocol.ts:115, relay-status-client.ts:119).             *)
LogsAgree == linked => Merged(seen, down) = log

(* When no request is being worked on, the selection the panel shows, or   *)
(* is about to be shown, is the worker's: also after tabs that were closed *)
(* meanwhile are dropped from it (tab-source-manager.ts:545, :953).        *)
SelectionIsShown ==
  LET pushed == {i \in DOMAIN down : down[i].type = "selection"}
  IN  (linked /\ worker = "ready" /\ asking + aligning + writing = 0)
         => selected = IF pushed = {} THEN shown ELSE down[Max(pushed)].tabs

(* The store's synchronous invariant: "terminated" never outlives the      *)
(* calls it was about, or the panel would keep saying that the user has    *)
(* stopped waiting (relay-status-store.ts:63).                             *)
TerminatedMeansRunning == terminated => RunningIn(seen) # {}

(* What the panel says of the calls is true of what it shows.              *)
PanelIsTruthful == TypeOK /\ TerminatedMeansRunning

(* A call the panel shows as running does not stay so: it locks the panel  *)
(* (App.tsx:204), so its end must arrive even when the worker is stopped   *)
(* while the call runs and its entry is known to the panel alone.          *)
RunningEnds ==
  \A call \in Calls :
    (\E i \in RunningIn(seen) : seen[i].call = call)
      ~> ~\E i \in RunningIn(seen) : seen[i].call = call

=============================================================================
