------------------------------ MODULE TabSources ------------------------------
(***************************************************************************)
(* The service worker's bookkeeping of tabs (tab-source-manager.ts): which *)
(* tabs exist, which of them the user selected as data sources, and, for   *)
(* each selected one, the entry that holds the port to its page and its    *)
(* relay client.  A port that dies is healed: after a delay, and after the *)
(* content scripts were injected again if nobody listened, the entry is    *)
(* rebuilt.                                                                *)
(*                                                                         *)
(* The browser is part of the model: tabs open, navigate and close, and    *)
(* their events and the ends of their ports reach the service worker       *)
(* later.  The worker may be killed at any time; only the stored selection *)
(* survives.  What the user, the pages and the browser do on their own is  *)
(* a disturbance, and MaxDisturbances bounds their number.  The back-off   *)
(* of the healing, titles, statuses and the invocation log are left out.   *)
(***************************************************************************)
EXTENDS Integers, FiniteSets

CONSTANTS
    Tab,      \* tab ids; an id is never used for a second tab
    Page,     \* what a tab may show
    Http,     \* the pages of http(s) URLs
    NoPage,
    Task,     \* asynchronous setSelection and resetSelection calls under way
    Boot,     \* initSelection
    MaxDisturbances

ASSUME PageAssumption == Http \subseteq Page /\ NoPage \notin Page
ASSUME BootAssumption == Boot \notin Task
ASSUME BoundAssumption == MaxDisturbances \in Nat

Job == Task \cup {Boot}
NoEntry == [page |-> NoPage, port |-> "none"]
Idle == [at |-> "free", ids |-> {}, todo |-> {}, stale |-> {}]

VARIABLES
    \* The browser.
    life,       \* tab |-> new, open or closed
    shows,      \* tab |-> its page, if it is open
    scripted,   \* tabs whose page has a listening content script
    loaded,     \* tabs whose onUpdated(complete) is to be delivered
    removed,    \* tabs whose onRemoved is to be delivered
    stored,     \* the selection in chrome.storage
    \* The service worker.
    entry,      \* entries: tab |-> the page it was made for, and its port
    inventory,  \* tab |-> the page recorded for it, or NoPage
    selected,   \* selectedTabIds
    ready,      \* selectionReady
    rescan,     \* the initial tabs.query is under way
    timers,     \* tabs with a healTimer
    inject,     \* those of them that will inject content scripts
    healing,    \* tab |-> the pages of the entries whose injection is under way
    job,        \* job |-> where it is
    owner,      \* the job that made the selectedTabIds of now
    churn,      \* disturbances so far
    overtaken   \* history: tabs that finished loading during an injection

browserVars == <<life, shows, scripted, loaded, removed>>
selectVars  == <<selected, ready, job, owner, stored>>
healVars    == <<timers, inject, healing>>
vars == <<browserVars, selectVars, healVars, entry, inventory, rescan, churn, overtaken>>

Init ==
    /\ life \in [Tab -> {"new", "open", "closed"}]
    /\ shows \in [Tab -> Page \cup {NoPage}]
    /\ \A t \in Tab : life[t] = "open" <=> shows[t] # NoPage
    /\ scripted \in SUBSET {t \in Tab : shows[t] \in Http}
    /\ loaded = {} /\ removed = {}
    /\ stored \in SUBSET {t \in Tab : life[t] # "new"}
    /\ entry = [t \in Tab |-> NoEntry]
    /\ inventory = [t \in Tab |-> NoPage]
    /\ selected = {} /\ ready = FALSE
    /\ rescan = TRUE
    /\ timers = {} /\ inject = {} /\ healing = [t \in Tab |-> {}]
    /\ job = [k \in Job |-> IF k = Boot THEN [Idle EXCEPT !.at = "read"] ELSE Idle]
    /\ owner = Boot
    /\ churn = 0 /\ overtaken = {}

Disturbance == churn < MaxDisturbances /\ churn' = churn + 1

------------------------------------------------------------------------------
(* ensureClient and disposeClient.                                         *)

\* tabs.connect: nobody may be listening, which onDisconnect tells later.
Connect(t, p) == [page |-> p, port |-> IF t \in scripted' THEN "live" ELSE "unheard"]

\* Mutant: an entry that exists is left as it is.
Bug_Ensured(e, t, p, sel) ==
    IF p \notin Http \/ t \notin sel THEN NoEntry
    ELSE IF e = NoEntry THEN Connect(t, p)
    ELSE e

\* ensureClient: the entry it leaves of entry e when tab t shows p and `sel` is
\* selected.  An entry that exists takes the new page.
Ensured(e, t, p, sel) ==
    IF p \notin Http \/ t \notin sel THEN NoEntry
    ELSE IF e = NoEntry THEN Connect(t, p)
    ELSE [e EXCEPT !.page = p]

\* What ensureClient records of the page, whether or not the tab is selected.
Listed(old, p) == IF p \in Http THEN p ELSE old

\* The selection that ensureClient goes by.
Gate == IF ready THEN selected ELSE {}

\* ensureClient for tab t with page p, when it finds entry e.
Ensure(t, p, e) ==
    /\ entry' = [entry EXCEPT ![t] = Ensured(e, t, p, Gate)]
    /\ inventory' = [inventory EXCEPT ![t] = Listed(@, p)]

\* disposeClient, then ensureClient.
Rebuild(t, p) == Ensure(t, p, NoEntry)

------------------------------------------------------------------------------
(* The selection.                                                          *)

\* The loop of reconcileSelection, run by job k from entries es and inventory
\* inv: tabs without an entry are ensured by what the inventory knows of them,
\* until one it does not know, whose tabs.get is awaited; after the last one
\* what is stale leaves the selection, and the selection is stored.
Reconcile(k, es, inv, todo, stale, sel) ==
    LET unknown == {t \in todo : es[t] = NoEntry /\ inv[t] = NoPage}
        ensured(ts) == [t \in Tab |-> IF t \in ts /\ es[t] = NoEntry
                                      THEN Ensured(NoEntry, t, inv[t], sel) ELSE es[t]]
    IN  /\ inventory' = inv
        /\ \/ \E t \in unknown, ahead \in SUBSET (todo \ unknown) :
                 /\ entry' = ensured(ahead)
                 /\ job' = [job EXCEPT ![k] = [at |-> "get", ids |-> {t}, stale |-> stale,
                                               todo |-> todo \ (ahead \cup {t})]]
                 /\ selected' = sel
                 /\ UNCHANGED stored
           \/ /\ unknown = {}
              /\ entry' = ensured(todo)
              /\ job' = [job EXCEPT ![k] = Idle]
              /\ selected' = sel \ stale
              /\ stored' = selected'

\* Mutant: what is no longer selected is not released.
Bug_Select(k, ids) ==
    /\ ready' = TRUE
    /\ owner' = k
    /\ Reconcile(k, entry, inventory, ids, {}, ids)

\* selectedTabIds = new Set(ids); reconcileSelection releases what is not in it.
Select(k, ids) ==
    /\ ready' = TRUE
    /\ owner' = k
    /\ Reconcile(k, [t \in Tab |-> IF t \in ids THEN entry[t] ELSE NoEntry],
                 inventory, ids, {}, ids)

\* The job waits, and nothing else changes.
Wait(k, at, ids) ==
    /\ job' = [job EXCEPT ![k] = [Idle EXCEPT !.at = at, !.ids = ids]]
    /\ UNCHANGED <<selected, ready, owner, stored, entry, inventory>>

selectRest == <<browserVars, healVars, rescan, churn, overtaken>>

\* setSelection and resetSelection, by messages of the side panel.
SetSelection(k, ids) ==
    /\ job[k].at = "free"
    /\ Disturbance
    /\ UNCHANGED <<browserVars, healVars, rescan, overtaken>>
    /\ IF job[Boot].at = "free" THEN Select(k, ids) ELSE Wait(k, "init", ids)

ResetSelection(k) ==
    /\ job[k].at = "free"
    /\ Disturbance
    /\ UNCHANGED <<browserVars, healVars, rescan, overtaken>>
    /\ Wait(k, IF job[Boot].at = "free" THEN "active" ELSE "reset", {})

\* selectionInitPromise resolves.
Initialised(k) ==
    /\ job[k].at \in {"init", "reset"}
    /\ job[Boot].at = "free"
    /\ UNCHANGED selectRest
    /\ IF job[k].at = "init" THEN Select(k, job[k].ids) ELSE Wait(k, "active", {})

\* initSelection reads what was stored.
StoredRead ==
    /\ job[Boot].at = "read"
    /\ UNCHANGED selectRest
    /\ IF stored = {} THEN Wait(Boot, "active", {}) ELSE Select(Boot, stored)

\* getActiveTabId answers with an open tab or, in other windows, with none.
ActiveTab(k) ==
    /\ job[k].at = "active"
    /\ UNCHANGED selectRest
    /\ \E ids \in {{}} \cup {{t} : t \in {u \in Tab : life[u] = "open"}} : Select(k, ids)

\* tabs.get settles: the tab is ensured, or it is gone and therefore stale.
TabGot(k) ==
    /\ job[k].at = "get"
    /\ UNCHANGED <<selectRest, ready, owner>>
    /\ \E t \in job[k].ids :
          \/ /\ life[t] = "open"
             /\ Reconcile(k, [entry EXCEPT ![t] = Ensured(@, t, shows[t], Gate)],
                          [inventory EXCEPT ![t] = Listed(@, shows[t])],
                          job[k].todo, job[k].stale, selected)
          \/ /\ life[t] # "open"
             /\ Reconcile(k, entry, inventory, job[k].todo, job[k].stale \cup {t}, selected)

------------------------------------------------------------------------------
(* Tabs.                                                                   *)

\* The initial tabs.query answers with the open http(s) tabs.
Rescanned ==
    /\ rescan
    /\ rescan' = FALSE
    /\ UNCHANGED <<browserVars, selectVars, healVars, churn, overtaken>>
    /\ LET found == {t \in Tab : life[t] = "open" /\ shows[t] \in Http} IN
          /\ entry' = [t \in Tab |-> IF t \in found THEN Ensured(entry[t], t, shows[t], Gate)
                                     ELSE entry[t]]
          /\ inventory' = [t \in Tab |-> IF t \in found THEN shows[t] ELSE inventory[t]]

\* The ports to the page of tab t end; their onDisconnect is to come.
Cut(t) == entry' = [entry EXCEPT ![t].port = IF @ \in {"live", "unheard"} THEN "lost" ELSE @]

Open(t, p) ==
    /\ life[t] = "new"
    /\ Disturbance
    /\ life' = [life EXCEPT ![t] = "open"]
    /\ shows' = [shows EXCEPT ![t] = p]
    /\ loaded' = loaded \cup {t}
    /\ UNCHANGED <<scripted, removed, selectVars, healVars, entry, inventory, rescan, overtaken>>

Navigate(t, p) ==
    /\ life[t] = "open"
    /\ Disturbance
    /\ shows' = [shows EXCEPT ![t] = p]
    /\ scripted' = scripted \ {t}
    /\ loaded' = loaded \cup {t}
    /\ Cut(t)
    /\ UNCHANGED <<life, removed, selectVars, healVars, inventory, rescan, overtaken>>

Close(t) ==
    /\ life[t] = "open"
    /\ Disturbance
    /\ life' = [life EXCEPT ![t] = "closed"]
    /\ shows' = [shows EXCEPT ![t] = NoPage]
    /\ scripted' = scripted \ {t}
    /\ loaded' = loaded \ {t}
    /\ removed' = removed \cup {t}
    /\ Cut(t)
    /\ UNCHANGED <<selectVars, healVars, inventory, rescan, overtaken>>

\* onUpdated(complete): the content scripts of the new page are there; a timer
\* of the healing is cancelled, and an entry with a dead port is rebuilt.
OnUpdated(t) ==
    /\ t \in loaded
    /\ loaded' = loaded \ {t}
    /\ scripted' = IF shows[t] \in Http THEN scripted \cup {t} ELSE scripted
    /\ timers' = timers \ {t} /\ inject' = inject \ {t}
    /\ overtaken' = IF healing[t] # {} THEN overtaken \cup {t} ELSE overtaken
    /\ Ensure(t, shows[t], IF entry[t].port = "dead" THEN NoEntry ELSE entry[t])
    /\ UNCHANGED <<life, shows, removed, selectVars, healing, rescan, churn>>

\* Mutant: the shorter selection is not stored.
Bug_OnRemoved(t) ==
    /\ t \in removed
    /\ removed' = removed \ {t}
    /\ inventory' = [inventory EXCEPT ![t] = NoPage]
    /\ selected' = selected \ {t}
    /\ job' = [job EXCEPT ![owner].todo = @ \ {t}]
    /\ entry' = [entry EXCEPT ![t] = NoEntry]
    /\ UNCHANGED <<life, shows, scripted, loaded, stored, ready, owner, healVars, rescan,
                   churn, overtaken>>

\* onRemoved; a reconcileSelection that walks this selection will not meet t.
OnRemoved(t) ==
    /\ t \in removed
    /\ removed' = removed \ {t}
    /\ inventory' = [inventory EXCEPT ![t] = NoPage]
    /\ selected' = selected \ {t}
    /\ stored' = IF t \in selected THEN selected' ELSE stored
    /\ job' = [job EXCEPT ![owner].todo = @ \ {t}]
    /\ entry' = [entry EXCEPT ![t] = NoEntry]
    /\ UNCHANGED <<life, shows, scripted, loaded, ready, owner, healVars, rescan, churn, overtaken>>

------------------------------------------------------------------------------
(* Ports and their healing.                                                *)

\* handlePortDead and healPort.
HealPort(t, injecting) ==
    /\ timers' = timers \cup {t}
    /\ inject' = IF injecting /\ t \notin timers THEN inject \cup {t} ELSE inject

\* The page's side of the port ends, though the page stays.
PortBreaks(t) ==
    /\ entry[t].port = "live"
    /\ Disturbance
    /\ scripted' = scripted \ {t}
    /\ Cut(t)
    /\ UNCHANGED <<life, shows, loaded, removed, selectVars, healVars, inventory, rescan, overtaken>>

\* Port onDisconnect; the content scripts are missing if nobody was listening.
PortDisconnects(t) ==
    /\ entry[t].port \in {"unheard", "lost"}
    /\ entry' = [entry EXCEPT ![t].port = "dead"]
    /\ HealPort(t, entry[t].port = "unheard")
    /\ UNCHANGED <<browserVars, selectVars, healing, inventory, rescan, churn, overtaken>>

\* The relay client fails to list the tools over a port whose onDisconnect was
\* delivered, and says so.
ClientFindsPortDead(t) ==
    /\ entry[t].port = "dead"
    /\ HealPort(t, FALSE)
    /\ UNCHANGED <<browserVars, selectVars, healing, entry, inventory, rescan, churn, overtaken>>

\* Mutant: scripts are not injected.
Bug_HealTimer(t) ==
    /\ t \in timers
    /\ timers' = timers \ {t} /\ inject' = inject \ {t}
    /\ UNCHANGED <<browserVars, selectVars, healing, rescan, churn, overtaken>>
    /\ IF entry[t] = NoEntry THEN UNCHANGED <<entry, inventory>> ELSE Rebuild(t, entry[t].page)

\* The timer: the entry is rebuilt, at once or when the scripts were injected.
HealTimer(t) ==
    /\ t \in timers
    /\ timers' = timers \ {t} /\ inject' = inject \ {t}
    /\ UNCHANGED <<browserVars, selectVars, rescan, churn, overtaken>>
    /\ \/ entry[t] = NoEntry /\ UNCHANGED <<healing, entry, inventory>>
       \/ /\ entry[t] # NoEntry /\ t \in inject
          /\ healing' = [healing EXCEPT ![t] = @ \cup {entry[t].page}]
          /\ UNCHANGED <<entry, inventory>>
       \/ /\ entry[t] # NoEntry /\ t \notin inject
          /\ Rebuild(t, entry[t].page)
          /\ UNCHANGED healing

\* executeScript settles, and the entry of now is rebuilt with the page of then.
Injected(t, p) ==
    /\ p \in healing[t]
    /\ healing' = [healing EXCEPT ![t] = @ \ {p}]
    /\ \/ /\ shows[t] \in Http
          /\ scripted' = scripted \cup {t}
          /\ UNCHANGED churn
       \/ /\ shows[t] \notin Http
          /\ UNCHANGED <<scripted, churn>>
       \/ Disturbance /\ UNCHANGED scripted
    /\ UNCHANGED <<life, shows, loaded, removed, selectVars, timers, inject, rescan, overtaken>>
    /\ IF entry[t] = NoEntry THEN UNCHANGED <<entry, inventory>> ELSE Rebuild(t, p)

\* recreateConnection("webmcp"): the refresh button.
Recreate(t) ==
    /\ entry[t] # NoEntry
    /\ Disturbance
    /\ timers' = timers \ {t} /\ inject' = inject \ {t}
    /\ UNCHANGED <<browserVars, selectVars, healing, rescan, overtaken>>
    /\ Rebuild(t, entry[t].page)

\* The service worker is killed, and started again by the next event.
Restart ==
    /\ Disturbance
    /\ entry' = [t \in Tab |-> NoEntry]
    /\ inventory' = [t \in Tab |-> NoPage]
    /\ selected' = {} /\ ready' = FALSE /\ owner' = Boot
    /\ job' = [k \in Job |-> IF k = Boot THEN [Idle EXCEPT !.at = "read"] ELSE Idle]
    /\ rescan' = TRUE
    /\ timers' = {} /\ inject' = {} /\ healing' = [t \in Tab |-> {}]
    /\ overtaken' = {}
    /\ UNCHANGED <<browserVars, stored>>

------------------------------------------------------------------------------
Next ==
    \/ StoredRead \/ Rescanned \/ Restart
    \/ \E k \in Task, ids \in SUBSET {t \in Tab : life[t] # "new"} : SetSelection(k, ids)
    \/ \E k \in Task : ResetSelection(k) \/ Initialised(k)
    \/ \E k \in Job : ActiveTab(k) \/ TabGot(k)
    \/ \E t \in Tab, p \in Page : Open(t, p) \/ Navigate(t, p) \/ Injected(t, p)
    \/ \E t \in Tab :
          \/ Close(t) \/ OnUpdated(t) \/ OnRemoved(t)
          \/ PortBreaks(t) \/ PortDisconnects(t) \/ ClientFindsPortDead(t)
          \/ HealTimer(t) \/ Recreate(t)

\* Events are delivered, timers fire and promises settle.
Fairness ==
    /\ WF_vars(StoredRead) /\ WF_vars(Rescanned)
    /\ \A k \in Job : WF_vars(Initialised(k)) /\ WF_vars(ActiveTab(k)) /\ WF_vars(TabGot(k))
    /\ \A t \in Tab :
          /\ WF_vars(OnUpdated(t)) /\ WF_vars(OnRemoved(t))
          /\ WF_vars(PortDisconnects(t)) /\ WF_vars(HealTimer(t))
          /\ \A p \in Page : WF_vars(Injected(t, p))

SafetySpec == Init /\ [][Next]_vars
Spec == SafetySpec /\ Fairness

------------------------------------------------------------------------------
(* Properties.                                                             *)

TypeOK ==
    /\ life \in [Tab -> {"new", "open", "closed"}]
    /\ shows \in [Tab -> Page \cup {NoPage}]
    /\ scripted \in SUBSET Tab /\ loaded \in SUBSET Tab /\ removed \in SUBSET Tab
    /\ stored \in SUBSET Tab /\ selected \in SUBSET Tab
    /\ entry \in [Tab -> {NoEntry} \cup [page : Http, port : {"live", "unheard", "lost", "dead"}]]
    /\ inventory \in [Tab -> Http \cup {NoPage}]
    /\ ready \in BOOLEAN /\ rescan \in BOOLEAN
    /\ timers \in SUBSET Tab /\ inject \in SUBSET timers
    /\ healing \in [Tab -> SUBSET Http]
    /\ job \in [Job -> [at : {"free", "read", "init", "reset", "active", "get"},
                        ids : SUBSET Tab, todo : SUBSET Tab, stale : SUBSET Tab]]
    /\ owner \in Job
    /\ churn \in 0 .. MaxDisturbances
    /\ overtaken \in SUBSET Tab

\* Only selected tabs have a connection, whatever awaits a selection that was
\* replaced meanwhile was in when it went on.
OnlySelectedConnect == \A t \in Tab : entry[t] # NoEntry => t \in selected \/ t \in removed

\* A port known to be dead is being healed: no navigation, selection or removal
\* cancels the healing and leaves the entry.
DeadPortsAreHealed ==
    \A t \in Tab : entry[t].port = "dead" => t \in timers \/ healing[t] # {}

\* Entries are the connections of selected tabs, and never left with a dead port.
EntriesAreTended == TypeOK /\ OnlySelectedConnect /\ DeadPortsAreHealed

\* What the relay is told of a tab on an http(s) page is that page, once the
\* events of the tab were delivered, unless it finished loading while scripts
\* were being injected.
EntriesShowThePage ==
    \A t \in Tab \ (loaded \cup removed \cup overtaken) :
        entry[t] # NoEntry /\ shows[t] \in Http => entry[t].page = shows[t]

\* When nothing is under way, a restart would bring back the selection of now.
SelectionIsStored == (\A k \in Job : job[k].at = "free") => stored = selected

\* A tab that stays open, selected and on an http(s) page ends up connected to
\* a page that listens, whatever happened to its ports, its page, the selection
\* or the service worker before.
SelectedEndUpConnected ==
    \A t \in Tab :
        <>[](ready /\ t \in selected /\ life[t] = "open" /\ shows[t] \in Http)
            => []<>(entry[t].port = "live" /\ t \in scripted)

==============================================================================
