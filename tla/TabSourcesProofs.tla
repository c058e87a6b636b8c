--------------------------- MODULE TabSourcesProofs ---------------------------
(***************************************************************************)
(* Theorems about the service worker's tabs, for any number of tabs, pages *)
(* and disturbances: entries belong to selected tabs, show the tab's page  *)
(* and are healed when their port dies, and the selection is stored.       *)
(***************************************************************************)
EXTENDS TabSources, TLAPS

Entry == {NoEntry} \cup [page : Http, port : {"live", "unheard", "lost", "dead"}]

\* Events are due of tabs that can have them, and only open tabs show a page.
EventsFit ==
    /\ \A t \in Tab : shows[t] # NoPage => life[t] = "open"
    /\ \A t \in loaded : life[t] = "open"
    /\ \A t \in removed : life[t] = "closed"

\* Selections are of tabs that exist or did, and drop one as stale only when it
\* is gone for good.
Known == {t \in Tab : life[t] # "new"}
SelectionsFit ==
    /\ stored \subseteq Known /\ selected \subseteq Known
    /\ \A k \in Job : /\ job[k].ids \subseteq Known /\ job[k].todo \subseteq Known
                      /\ \A t \in job[k].stale : life[t] = "closed"

\* Once its removal was delivered, nothing of a tab is left or comes back.
GoneLeaveNothing ==
    \A t \in Tab \ removed : life[t] = "closed" =>
        inventory[t] = NoPage /\ entry[t] = NoEntry

\* What the worker knows of a tab on an http(s) page is that page, with the
\* exceptions of EntriesShowThePage; what an injection will write is part of it.
PagesFollow ==
    \A t \in Tab \ (loaded \cup removed \cup overtaken) : shows[t] \in Http =>
        /\ inventory[t] \in {NoPage, shows[t]}
        /\ healing[t] \subseteq {shows[t]}

TabsInv ==
    /\ TypeOK /\ EventsFit /\ SelectionsFit /\ GoneLeaveNothing
    /\ OnlySelectedConnect /\ DeadPortsAreHealed
    /\ PagesFollow /\ EntriesShowThePage /\ SelectionIsStored

------------------------------------------------------------------------------
LEMMA InitSound == Init => TabsInv
<1> SUFFICES ASSUME Init PROVE TabsInv
  OBVIOUS
<1>1. TypeOK
  <2>1. job \in [Job -> [at : {"free", "read", "init", "reset", "active", "get"},
                         ids : SUBSET Tab, todo : SUBSET Tab, stale : SUBSET Tab]]
    BY DEF Init, Idle
  <2>2. owner \in Job /\ churn \in 0 .. MaxDisturbances
    BY BoundAssumption DEF Init, Job
  <2>3. stored \in SUBSET Tab
    BY DEF Init
  <2> QED BY <2>1, <2>2, <2>3 DEF Init, TypeOK
<1>2. EventsFit /\ SelectionsFit /\ GoneLeaveNothing
  BY DEF Init, EventsFit, SelectionsFit, GoneLeaveNothing, Idle, Known
<1>3. OnlySelectedConnect /\ DeadPortsAreHealed /\ EntriesShowThePage
  BY DEF Init, OnlySelectedConnect, DeadPortsAreHealed, EntriesShowThePage, NoEntry
<1>4. PagesFollow
  BY DEF Init, PagesFollow
<1>5. SelectionIsStored
  <2>1. Boot \in Job /\ job[Boot].at = "read"
    BY DEF Init, Job, Idle
  <2> QED BY <2>1 DEF SelectionIsStored
<1> QED BY <1>1, <1>2, <1>3, <1>4, <1>5 DEF TabsInv

------------------------------------------------------------------------------
\* What ensureClient makes of an entry.
LEMMA EnsuredSound ==
    ASSUME NEW e \in Entry, NEW t \in Tab, NEW p, NEW sel
    PROVE  /\ Ensured(e, t, p, sel) \in Entry
           /\ Ensured(e, t, p, sel) # NoEntry =>
                 t \in sel /\ p \in Http /\ Ensured(e, t, p, sel).page = p
           /\ Ensured(e, t, p, sel).port = "dead" => e.port = "dead"
<1>1. CASE p \notin Http \/ t \notin sel
  BY <1>1 DEF Ensured, Entry, NoEntry
<1>2. CASE p \in Http /\ t \in sel /\ e = NoEntry
  BY <1>2 DEF Ensured, Entry, NoEntry, Connect
<1>3. CASE p \in Http /\ t \in sel /\ e # NoEntry
  BY <1>3 DEF Ensured, Entry, NoEntry
<1> QED BY <1>1, <1>2, <1>3

\* What reconcileSelection does to the tabs until it waits or ends.
JobFits(l, todo, stale) ==
    \/ job'[l] = job[l]
    \/ job'[l].stale \subseteq stale /\ job'[l].ids \subseteq todo /\ job'[l].todo \subseteq todo
LEMMA ReconcileSound ==
    ASSUME TypeOK, NEW k \in Job, NEW es \in [Tab -> Entry], NEW inv \in [Tab -> Http \cup {NoPage}],
           NEW todo \in SUBSET Tab, NEW stale \in SUBSET Tab, NEW sel \in SUBSET Tab,
           Reconcile(k, es, inv, todo, stale, sel)
    PROVE  /\ inventory' = inv
           /\ entry' \in [Tab -> Entry]
           /\ \A t \in Tab : \/ entry'[t] = es[t]
                             \/ /\ t \in sel /\ inv[t] \in Http /\ entry'[t].page = inv[t]
                                /\ entry'[t].port # "dead"
           /\ job' \in [Job -> [at : {"free", "read", "init", "reset", "active", "get"},
                                ids : SUBSET Tab, todo : SUBSET Tab, stale : SUBSET Tab]]
           /\ \A l \in Job : JobFits(l, todo, stale)
           /\ \/ job'[k].at # "free" /\ selected' = sel /\ stored' = stored
              \/ selected' = sel \ stale /\ stored' = selected'
<1> DEFINE unknown == {t \in todo : es[t] = NoEntry /\ inv[t] = NoPage}
           ensured(ts) == [t \in Tab |-> IF t \in ts /\ es[t] = NoEntry
                                         THEN Ensured(NoEntry, t, inv[t], sel) ELSE es[t]]
<1>1. ASSUME NEW ts \in SUBSET Tab, entry' = ensured(ts)
      PROVE  /\ entry' \in [Tab -> Entry]
             /\ \A t \in Tab : \/ entry'[t] = es[t]
                               \/ /\ t \in sel /\ inv[t] \in Http /\ entry'[t].page = inv[t]
                                  /\ entry'[t].port # "dead"
  <2>1. NoEntry \in Entry /\ NoEntry.port # "dead"
    BY DEF Entry, NoEntry
  <2> SUFFICES ASSUME NEW t \in Tab
               PROVE  /\ ensured(ts)[t] \in Entry
                      /\ \/ ensured(ts)[t] = es[t]
                         \/ /\ t \in sel /\ inv[t] \in Http /\ ensured(ts)[t].page = inv[t]
                            /\ ensured(ts)[t].port # "dead"
    BY <1>1
  <2>2. CASE t \in ts /\ es[t] = NoEntry
    <3>1. ensured(ts)[t] = Ensured(NoEntry, t, inv[t], sel)
      BY <2>2
    <3> HIDE DEF ensured
    <3> QED BY <2>1, <2>2, <3>1, EnsuredSound
  <2>3. CASE ~(t \in ts /\ es[t] = NoEntry)
    BY <2>3
  <2> QED BY <2>2, <2>3
<1>2. inventory' = inv
  BY DEF Reconcile
<1>3. CASE \E t \in unknown, ahead \in SUBSET (todo \ unknown) :
                 /\ entry' = ensured(ahead)
                 /\ job' = [job EXCEPT ![k] = [at |-> "get", ids |-> {t}, stale |-> stale,
                                               todo |-> todo \ (ahead \cup {t})]]
                 /\ selected' = sel
                 /\ UNCHANGED stored
  <2>1. PICK t \in unknown, ahead \in SUBSET (todo \ unknown) :
                 /\ entry' = ensured(ahead)
                 /\ job' = [job EXCEPT ![k] = [at |-> "get", ids |-> {t}, stale |-> stale,
                                               todo |-> todo \ (ahead \cup {t})]]
                 /\ selected' = sel
                 /\ UNCHANGED stored
    BY <1>3
  <2>2. t \in Tab /\ ahead \in SUBSET Tab
    BY <2>1
  <2>3. /\ job' \in [Job -> [at : {"free", "read", "init", "reset", "active", "get"},
                             ids : SUBSET Tab, todo : SUBSET Tab, stale : SUBSET Tab]]
        /\ \A l \in Job : JobFits(l, todo, stale)
        /\ job'[k].at # "free"
    BY <2>1, <2>2 DEF TypeOK, JobFits
  <2> QED BY <1>1, <1>2, <2>1, <2>2, <2>3
<1>4. CASE /\ entry' = ensured(todo)
           /\ job' = [job EXCEPT ![k] = Idle]
           /\ selected' = sel \ stale
           /\ stored' = selected'
  <2>1. /\ job' \in [Job -> [at : {"free", "read", "init", "reset", "active", "get"},
                             ids : SUBSET Tab, todo : SUBSET Tab, stale : SUBSET Tab]]
        /\ \A l \in Job : JobFits(l, todo, stale)
    BY <1>4 DEF TypeOK, Idle, JobFits
  <2> QED BY <1>1, <1>2, <1>4, <2>1
<1> QED BY <1>3, <1>4 DEF Reconcile

\* The end of a port changes nothing but the state of the port.
LEMMA CutSound ==
    ASSUME TypeOK, NEW t \in Tab, Cut(t)
    PROVE  /\ entry' \in [Tab -> Entry]
           /\ \A u \in Tab : /\ entry'[u] = NoEntry <=> entry[u] = NoEntry
                             /\ entry'[u].page = entry[u].page
                             /\ entry'[u].port = "dead" <=> entry[u].port = "dead"
BY DEF TypeOK, Cut, Entry, NoEntry

\* ensureClient goes by the selection, and changes one tab.
LEMMA EnsureSound ==
    ASSUME TypeOK, NEW t \in Tab, NEW p, NEW e \in Entry, Ensure(t, p, e)
    PROVE  /\ entry' \in [Tab -> Entry] /\ inventory' \in [Tab -> Http \cup {NoPage}]
           /\ \A u \in Tab \ {t} : entry'[u] = entry[u] /\ inventory'[u] = inventory[u]
           /\ entry'[t] # NoEntry => t \in selected /\ p \in Http /\ entry'[t].page = p
           /\ entry'[t].port = "dead" => e.port = "dead"
           /\ inventory'[t] = IF p \in Http THEN p ELSE inventory[t]
<1>1. /\ Ensured(e, t, p, Gate) \in Entry
      /\ Ensured(e, t, p, Gate) # NoEntry =>
            t \in Gate /\ p \in Http /\ Ensured(e, t, p, Gate).page = p
      /\ Ensured(e, t, p, Gate).port = "dead" => e.port = "dead"
  BY EnsuredSound
<1>2. Gate \subseteq selected
  BY DEF Gate
<1>3. entry' = [entry EXCEPT ![t] = Ensured(e, t, p, Gate)]
  BY DEF Ensure
<1>4. entry \in [Tab -> Entry] /\ inventory \in [Tab -> Http \cup {NoPage}]
  BY DEF TypeOK, Entry
<1>5. inventory' = [inventory EXCEPT ![t] = IF p \in Http THEN p ELSE inventory[t]]
  BY DEF Ensure, Listed
<1>6. entry' \in [Tab -> Entry] /\ entry'[t] = Ensured(e, t, p, Gate)
      /\ \A u \in Tab \ {t} : entry'[u] = entry[u]
  BY <1>1, <1>3, <1>4
<1>7. /\ inventory' \in [Tab -> Http \cup {NoPage}]
      /\ \A u \in Tab \ {t} : inventory'[u] = inventory[u]
      /\ inventory'[t] = IF p \in Http THEN p ELSE inventory[t]
  BY <1>4, <1>5
<1> QED BY <1>1, <1>2, <1>6, <1>7

\* NoEntry is the only entry without a port.
LEMMA NoEntryFacts ==
    /\ NoEntry \in Entry /\ NoEntry.port # "dead"
    /\ \A e \in Entry : e.port \in {"live", "unheard", "lost", "dead"} => e # NoEntry
BY DEF Entry, NoEntry

------------------------------------------------------------------------------
\* Entries and an inventory that satisfy the invariant for a selection.
TabsFit(es, inv, sel) ==
    /\ \A t \in Tab : es[t] # NoEntry => t \in sel \/ t \in removed
    /\ \A t \in Tab : es[t].port = "dead" => t \in timers \/ healing[t] # {}
    /\ \A t \in Tab \ removed : life[t] = "closed" => inv[t] = NoPage /\ es[t] = NoEntry
    /\ \A t \in Tab \ (loaded \cup removed \cup overtaken) : shows[t] \in Http =>
           inv[t] \in {NoPage, shows[t]} /\ (es[t] # NoEntry => es[t].page = shows[t])

\* A step of a selection keeps the invariant, if what reconcileSelection finds
\* fits: entries of selected tabs, healed when dead, with the page of now.
LEMMA ReconcileStep ==
    ASSUME TabsInv, NEW k \in Job, NEW es \in [Tab -> Entry],
           NEW inv \in [Tab -> Http \cup {NoPage}], NEW todo \in SUBSET Tab,
           NEW stale \in SUBSET Tab, NEW sel \in SUBSET Tab,
           Reconcile(k, es, inv, todo, stale, sel),
           UNCHANGED <<browserVars, healVars, rescan, overtaken>>,
           ready' \in BOOLEAN, owner' \in Job, churn' \in 0 .. MaxDisturbances,
           todo \subseteq Known, sel \subseteq Known, \A t \in stale : life[t] = "closed",
           TabsFit(es, inv, sel)
    PROVE  TabsInv'
<1> USE DEF TabsInv, TabsFit
<1>1. /\ inventory' = inv
      /\ entry' \in [Tab -> Entry]
      /\ \A t \in Tab : \/ entry'[t] = es[t]
                        \/ /\ t \in sel /\ inv[t] \in Http /\ entry'[t].page = inv[t]
                           /\ entry'[t].port # "dead"
      /\ job' \in [Job -> [at : {"free", "read", "init", "reset", "active", "get"},
                           ids : SUBSET Tab, todo : SUBSET Tab, stale : SUBSET Tab]]
      /\ \A l \in Job : JobFits(l, todo, stale)
      /\ \/ job'[k].at # "free" /\ selected' = sel /\ stored' = stored
         \/ selected' = sel \ stale /\ stored' = selected'
  BY ReconcileSound
<1>2. UNCHANGED <<life, shows, scripted, loaded, removed, timers, inject, healing, rescan, overtaken>>
  BY DEF browserVars, healVars
<1>3. TypeOK'
  BY <1>1, <1>2 DEF TypeOK, Entry
<1>4. EventsFit' /\ SelectionsFit'
  BY <1>1, <1>2 DEF EventsFit, SelectionsFit, JobFits, Known
<1>5. GoneLeaveNothing'
  BY <1>1, <1>2, PageAssumption DEF GoneLeaveNothing
<1>6. OnlySelectedConnect'
  BY <1>1, <1>2, PageAssumption DEF OnlySelectedConnect
<1>7. DeadPortsAreHealed'
  BY <1>1, <1>2 DEF DeadPortsAreHealed
<1>8. PagesFollow'
  BY <1>1, <1>2 DEF PagesFollow
<1>9. EntriesShowThePage'
  BY <1>1, <1>2, PageAssumption DEF EntriesShowThePage
<1>10. SelectionIsStored'
  BY <1>1 DEF SelectionIsStored
<1> QED BY <1>3, <1>4, <1>5, <1>6, <1>7, <1>8, <1>9, <1>10

\* A new selection keeps the invariant.
LEMMA SelectStep ==
    ASSUME TabsInv, NEW k \in Job, NEW ids \in SUBSET Known, Select(k, ids),
           UNCHANGED <<browserVars, healVars, rescan, overtaken>>, churn' \in 0 .. MaxDisturbances
    PROVE  TabsInv'
<1> DEFINE es == [t \in Tab |-> IF t \in ids THEN entry[t] ELSE NoEntry]
<1>1. /\ entry \in [Tab -> Entry] /\ inventory \in [Tab -> Http \cup {NoPage}]
      /\ ids \in SUBSET Tab
  BY DEF TabsInv, TypeOK, Entry, Known
<1>2. es \in [Tab -> Entry]
  BY <1>1, NoEntryFacts
<1>3. Reconcile(k, es, inventory, ids, {}, ids) /\ ready' = TRUE /\ owner' = k
  BY DEF Select
<1>4. \A t \in Tab : es[t] = NoEntry \/ (es[t] = entry[t] /\ t \in ids)
  OBVIOUS
<1> HIDE DEF es
<1>5. TabsFit(es, inventory, ids)
  BY <1>4, NoEntryFacts
     DEF TabsFit, TabsInv, DeadPortsAreHealed, GoneLeaveNothing, PagesFollow, EntriesShowThePage
<1>6. {} \in SUBSET Tab /\ ids \subseteq Known /\ (\A t \in {} : life[t] = "closed")
      /\ ready' \in BOOLEAN /\ owner' \in Job
  BY <1>3
<1> QED BY <1>1, <1>2, <1>3, <1>5, <1>6, ReconcileStep

\* A selection that begins to wait keeps the invariant.
LEMMA WaitStep ==
    ASSUME TabsInv, NEW k \in Job, NEW at \in {"init", "reset", "active"}, NEW ids \in SUBSET Known,
           Wait(k, at, ids),
           UNCHANGED <<browserVars, healVars, rescan, overtaken>>, churn' \in 0 .. MaxDisturbances
    PROVE  TabsInv'
<1> USE DEF TabsInv
<1>1. /\ job' \in [Job -> [at : {"free", "read", "init", "reset", "active", "get"},
                           ids : SUBSET Tab, todo : SUBSET Tab, stale : SUBSET Tab]]
      /\ \A l \in Job : JobFits(l, ids, {})
      /\ job'[k].at # "free"
  BY DEF Wait, Idle, TypeOK, JobFits, Known
<1>2. UNCHANGED <<life, shows, scripted, loaded, removed, timers, inject, healing, rescan, overtaken,
                  selected, ready, owner, stored, entry, inventory>>
  BY DEF Wait, browserVars, healVars
<1>3. TypeOK'
  BY <1>1, <1>2 DEF TypeOK
<1>4. EventsFit' /\ SelectionsFit' /\ GoneLeaveNothing'
  BY <1>1, <1>2 DEF EventsFit, SelectionsFit, GoneLeaveNothing, JobFits, Known
<1>5. OnlySelectedConnect' /\ DeadPortsAreHealed' /\ PagesFollow' /\ EntriesShowThePage'
  BY <1>2 DEF OnlySelectedConnect, DeadPortsAreHealed, PagesFollow, EntriesShowThePage
<1>6. SelectionIsStored'
  BY <1>1 DEF SelectionIsStored
<1> QED BY <1>3, <1>4, <1>5, <1>6

\* Every step of a selection keeps the invariant.
LEMMA SelectionSteps ==
    ASSUME TabsInv,
           \/ StoredRead
           \/ \E k \in Task, ids \in SUBSET {t \in Tab : life[t] # "new"} : SetSelection(k, ids)
           \/ \E k \in Task : ResetSelection(k) \/ Initialised(k)
           \/ \E k \in Job : ActiveTab(k) \/ TabGot(k)
    PROVE  TabsInv'
<1> USE DEF TabsInv
<1>1. Boot \in Job /\ Task \subseteq Job /\ churn \in 0 .. MaxDisturbances
  BY DEF Job, TypeOK
<1>2. selectRest' = selectRest =>
          UNCHANGED <<browserVars, healVars, rescan, overtaken>> /\ churn' \in 0 .. MaxDisturbances
  BY <1>1 DEF selectRest
<1>3. Disturbance => churn' \in 0 .. MaxDisturbances
  BY BoundAssumption DEF Disturbance, TypeOK
<1>4. CASE StoredRead
  <2>1. stored \in SUBSET Known /\ {} \in SUBSET Known
    BY DEF SelectionsFit
  <2> QED BY <1>1, <1>2, <1>4, <2>1, WaitStep, SelectStep DEF StoredRead
<1>5. ASSUME NEW k \in Task, NEW ids \in SUBSET {t \in Tab : life[t] # "new"}, SetSelection(k, ids)
      PROVE  TabsInv'
  <2>1. ids \in SUBSET Known
    BY DEF Known
  <2> QED BY <1>1, <1>3, <1>5, <2>1, WaitStep, SelectStep DEF SetSelection
<1>6. ASSUME NEW k \in Task, ResetSelection(k) PROVE TabsInv'
  <2>1. \E at \in {"init", "reset", "active"} : Wait(k, at, {})
    BY <1>6 DEF ResetSelection
  <2> QED BY <1>1, <1>3, <1>6, <2>1, WaitStep DEF ResetSelection
<1>7. ASSUME NEW k \in Task, Initialised(k) PROVE TabsInv'
  <2>1. job[k].ids \in SUBSET Known
    BY <1>1 DEF SelectionsFit
  <2> QED BY <1>1, <1>2, <1>7, <2>1, WaitStep, SelectStep DEF Initialised
<1>8. ASSUME NEW k \in Job, ActiveTab(k) PROVE TabsInv'
  <2>1. PICK ids \in {{}} \cup {{t} : t \in {u \in Tab : life[u] = "open"}} : Select(k, ids)
    BY <1>8 DEF ActiveTab
  <2>2. ids \in SUBSET Known
    BY <2>1 DEF Known
  <2> QED BY <1>2, <1>8, <2>1, <2>2, SelectStep DEF ActiveTab
<1>9. ASSUME NEW k \in Job, TabGot(k) PROVE TabsInv'
  <2>1. PICK t \in job[k].ids :
          \/ /\ life[t] = "open"
             /\ Reconcile(k, [entry EXCEPT ![t] = Ensured(@, t, shows[t], Gate)],
                          [inventory EXCEPT ![t] = Listed(@, shows[t])],
                          job[k].todo, job[k].stale, selected)
          \/ /\ life[t] # "open"
             /\ Reconcile(k, entry, inventory, job[k].todo, job[k].stale \cup {t}, selected)
    BY <1>9 DEF TabGot
  <2>2. /\ job[k].todo \in SUBSET Known /\ job[k].stale \in SUBSET Tab /\ t \in Known
        /\ job[k].todo \in SUBSET Tab
        /\ \A u \in job[k].stale : life[u] = "closed"
        /\ selected \in SUBSET Known /\ selected \in SUBSET Tab
    BY DEF SelectionsFit, TypeOK
  <2>3. entry \in [Tab -> Entry] /\ inventory \in [Tab -> Http \cup {NoPage}] /\ t \in Tab
    BY <2>2 DEF TypeOK, Entry, Known
  <2>4. /\ UNCHANGED <<browserVars, healVars, rescan, overtaken>>
        /\ churn' \in 0 .. MaxDisturbances /\ ready' \in BOOLEAN /\ owner' \in Job
    BY <1>1, <1>9 DEF TabGot, selectRest, TypeOK
  <2>5. TabsFit(entry, inventory, selected)
    BY DEF TabsFit, OnlySelectedConnect, DeadPortsAreHealed, GoneLeaveNothing, PagesFollow, EntriesShowThePage
  <2>6. CASE /\ life[t] = "open"
             /\ Reconcile(k, [entry EXCEPT ![t] = Ensured(@, t, shows[t], Gate)],
                          [inventory EXCEPT ![t] = Listed(@, shows[t])],
                          job[k].todo, job[k].stale, selected)
    <3> DEFINE e   == Ensured(entry[t], t, shows[t], Gate)
               es  == [entry EXCEPT ![t] = e]
               inv == [inventory EXCEPT ![t] = Listed(@, shows[t])]
    <3>1. /\ e \in Entry
          /\ e # NoEntry => t \in selected /\ shows[t] \in Http /\ e.page = shows[t]
          /\ e.port = "dead" => entry[t].port = "dead"
      BY <2>3, EnsuredSound DEF Gate
    <3> HIDE DEF e
    <3>2. es \in [Tab -> Entry] /\ es[t] = e /\ \A u \in Tab \ {t} : es[u] = entry[u]
      BY <2>3, <3>1
    <3>3. /\ inv \in [Tab -> Http \cup {NoPage}] /\ \A u \in Tab \ {t} : inv[u] = inventory[u]
          /\ inv[t] = IF shows[t] \in Http THEN shows[t] ELSE inventory[t]
      BY <2>3 DEF Listed
    <3>4. Reconcile(k, es, inv, job[k].todo, job[k].stale, selected)
      BY <2>6 DEF e
    <3> HIDE DEF es, inv
    <3>5. TabsFit(es, inv, selected)
      BY <2>5, <2>6, <3>1, <3>2, <3>3 DEF TabsFit
    <3> HIDE DEF TabsInv
    <3> QED BY <2>2, <2>4, <3>2, <3>3, <3>4, <3>5, ReconcileStep
  <2>7. CASE life[t] # "open" /\ Reconcile(k, entry, inventory, job[k].todo, job[k].stale \cup {t}, selected)
    <3>1. life[t] = "closed"
      BY <2>2, <2>3, <2>7 DEF Known, TypeOK
    <3>2. job[k].stale \cup {t} \in SUBSET Tab /\ \A u \in job[k].stale \cup {t} : life[u] = "closed"
      BY <2>2, <2>3, <3>1
    <3> HIDE DEF TabsInv
    <3> QED BY <2>2, <2>3, <2>4, <2>5, <2>7, <3>2, ReconcileStep
  <2> QED BY <2>1, <2>6, <2>7
<1> QED BY <1>4, <1>5, <1>6, <1>7, <1>8, <1>9

------------------------------------------------------------------------------
\* What the browser does keeps the invariant.
LEMMA BrowserSteps ==
    ASSUME TabsInv, NEW t \in Tab, NEW p,
           \/ p \in Page /\ (Open(t, p) \/ Navigate(t, p))
           \/ Close(t) \/ PortBreaks(t)
    PROVE  TabsInv'
<1> USE DEF TabsInv
<1>1. churn' \in 0 .. MaxDisturbances
  BY BoundAssumption DEF Open, Navigate, Close, PortBreaks, Disturbance, TypeOK
<1>2. /\ UNCHANGED <<stored, inventory, selected, ready, rescan, timers, inject, healing, job, owner, overtaken>>
      /\ \A u \in Tab \ {t} : life'[u] = life[u] /\ shows'[u] = shows[u]
      /\ life[t] # "new" => life'[t] # "new"
      /\ life'[t] = "closed" <=> life[t] = "closed" \/ Close(t)
  BY DEF Open, Navigate, Close, PortBreaks, selectVars, healVars, TypeOK
<1>3. /\ entry' \in [Tab -> Entry]
      /\ \A u \in Tab : /\ entry'[u] = NoEntry <=> entry[u] = NoEntry
                        /\ entry'[u].page = entry[u].page
                        /\ entry'[u].port = "dead" <=> entry[u].port = "dead"
  BY CutSound DEF Open, Navigate, Close, PortBreaks, TypeOK, Entry
<1>4. /\ shows' \in [Tab -> Page \cup {NoPage}] /\ life' \in [Tab -> {"new", "open", "closed"}]
      /\ scripted' \in SUBSET Tab /\ loaded' \in SUBSET Tab /\ removed' \in SUBSET Tab
  BY DEF Open, Navigate, Close, PortBreaks, TypeOK
<1>5. /\ \A u \in Tab \ {t} : /\ u \in loaded' <=> u \in loaded
                              /\ u \in removed' <=> u \in removed
      /\ \/ shows'[t] = shows[t] /\ loaded' = loaded
         \/ t \in loaded' /\ life'[t] = "open"
         \/ t \notin loaded' /\ t \in removed' /\ shows'[t] = NoPage
      /\ Close(t) => t \in removed'
      /\ removed \subseteq removed'
  BY DEF Open, Navigate, Close, PortBreaks, TypeOK
<1>6. t \in removed' => life'[t] = "closed"
  BY DEF Open, Navigate, Close, PortBreaks, TypeOK, EventsFit
<1>7. shows'[t] # NoPage => life'[t] = "open"
  BY DEF Open, Navigate, Close, PortBreaks, TypeOK, EventsFit
<1>8. t \in loaded' => life'[t] = "open"
  BY DEF Open, Navigate, Close, PortBreaks, TypeOK, EventsFit
<1>9. TypeOK'
  BY <1>1, <1>2, <1>3, <1>4 DEF TypeOK, Entry
<1>10. EventsFit'
  BY <1>2, <1>4, <1>5, <1>6, <1>7, <1>8 DEF EventsFit, TypeOK
<1>11. SelectionsFit'
  <2>1. \A u \in Tab : /\ life[u] # "new" => life'[u] # "new"
                       /\ life[u] = "closed" => life'[u] = "closed"
    BY <1>2
  <2> QED BY <1>2, <2>1 DEF SelectionsFit, Known, TypeOK
<1>12. GoneLeaveNothing'
  BY <1>2, <1>3, <1>5 DEF GoneLeaveNothing
<1>13. OnlySelectedConnect' /\ DeadPortsAreHealed'
  BY <1>2, <1>3, <1>5 DEF OnlySelectedConnect, DeadPortsAreHealed
<1>14. PagesFollow' /\ EntriesShowThePage'
  BY <1>2, <1>3, <1>5 DEF PagesFollow, EntriesShowThePage
<1>15. SelectionIsStored'
  BY <1>2 DEF SelectionIsStored
<1> QED BY <1>9, <1>10, <1>11, <1>12, <1>13, <1>14, <1>15

\* A step that rebuilds the entry of a tab with the page of now, or of an entry
\* that the tab has, keeps the invariant.
LEMMA EnsureStep ==
    ASSUME TabsInv, NEW t \in Tab, NEW p, NEW e \in Entry, Ensure(t, p, e),
           e.port # "dead",
           UNCHANGED <<life, shows, removed, selectVars, rescan>>,
           churn' \in 0 .. MaxDisturbances, scripted' \in SUBSET Tab,
           timers' \in SUBSET Tab, inject' \in SUBSET timers', healing' \in [Tab -> SUBSET Http],
           loaded' \in SUBSET loaded, overtaken' \in SUBSET Tab, overtaken \subseteq overtaken',
           life[t] = "closed" => t \in removed,
           \A u \in Tab \ {t} : /\ u \in timers' <=> u \in timers
                                /\ healing'[u] = healing[u]
                                /\ u \in loaded' <=> u \in loaded,
           t \notin loaded' \cup removed \cup overtaken' /\ shows[t] \in Http =>
               /\ p = shows[t]
               /\ inventory[t] \in {NoPage, shows[t]} \/ p \in Http
               /\ healing'[t] \subseteq {shows[t]}
    PROVE  TabsInv'
<1> USE DEF TabsInv
<1>1. /\ entry' \in [Tab -> Entry] /\ inventory' \in [Tab -> Http \cup {NoPage}]
      /\ \A u \in Tab \ {t} : entry'[u] = entry[u] /\ inventory'[u] = inventory[u]
      /\ entry'[t] # NoEntry => t \in selected /\ p \in Http /\ entry'[t].page = p
      /\ entry'[t].port # "dead"
      /\ inventory'[t] = IF p \in Http THEN p ELSE inventory[t]
  BY EnsureSound
<1>2. UNCHANGED <<selected, ready, job, owner, stored>>
  BY DEF selectVars
<1>3. TypeOK'
  BY <1>1, <1>2 DEF TypeOK, Entry
<1>4. EventsFit' /\ SelectionsFit'
  BY <1>2 DEF EventsFit, SelectionsFit, Known
<1>5. GoneLeaveNothing' /\ OnlySelectedConnect' /\ DeadPortsAreHealed'
  BY <1>1, <1>2 DEF GoneLeaveNothing, OnlySelectedConnect, DeadPortsAreHealed
<1>6. PagesFollow' /\ EntriesShowThePage'
  BY <1>1 DEF PagesFollow, EntriesShowThePage
<1>7. SelectionIsStored'
  BY <1>2 DEF SelectionIsStored
<1> QED BY <1>3, <1>4, <1>5, <1>6, <1>7

\* The steps that rebuild an entry keep the invariant.
LEMMA RebuildSteps ==
    ASSUME TabsInv, NEW t \in Tab,
           OnUpdated(t) \/ HealTimer(t) \/ Recreate(t) \/ \E p \in Page : Injected(t, p)
    PROVE  TabsInv'
<1>1. /\ NoEntry \in Entry /\ NoEntry.port # "dead" /\ entry \in [Tab -> Entry]
      /\ life[t] = "closed" /\ t \notin removed => entry[t] = NoEntry
  BY NoEntryFacts DEF TabsInv, TypeOK, Entry, GoneLeaveNothing
<1>2. \A u \in Tab : entry[u] # NoEntry => entry[u].page \in Http
  BY DEF TabsInv, TypeOK
<1>3. /\ timers \in SUBSET Tab /\ inject \in SUBSET timers /\ healing \in [Tab -> SUBSET Http]
      /\ scripted \in SUBSET Tab /\ loaded \in SUBSET Tab /\ overtaken \in SUBSET Tab
      /\ churn \in 0 .. MaxDisturbances
  BY DEF TabsInv, TypeOK
<1>4. t \notin loaded \cup removed \cup overtaken /\ shows[t] \in Http =>
          /\ inventory[t] \in {NoPage, shows[t]} /\ healing[t] \subseteq {shows[t]}
          /\ entry[t] # NoEntry => entry[t].page = shows[t]
  BY DEF TabsInv, PagesFollow, EntriesShowThePage
<1>5. CASE OnUpdated(t)
  <2> DEFINE e == IF entry[t].port = "dead" THEN NoEntry ELSE entry[t]
  <2>1. e \in Entry /\ e.port # "dead"
    BY <1>1
  <2>2. Ensure(t, shows[t], e)
    BY <1>5 DEF OnUpdated
  <2> HIDE DEF e
  <2>3. /\ UNCHANGED <<life, shows, removed, selectVars, healing, rescan, churn>>
        /\ loaded' = loaded \ {t} /\ timers' = timers \ {t} /\ inject' = inject \ {t}
        /\ scripted' \in SUBSET Tab
        /\ overtaken' = IF healing[t] # {} THEN overtaken \cup {t} ELSE overtaken
    BY <1>3, <1>5 DEF OnUpdated
  <2>4. life[t] = "open"
    BY <1>5 DEF OnUpdated, TabsInv, EventsFit
  <2> QED BY <1>3, <2>1, <2>2, <2>3, <2>4, EnsureStep
<1>6. ASSUME NEW p \in Http, NEW q \in SUBSET Http, Rebuild(t, p), entry[t] # NoEntry,
             UNCHANGED <<life, shows, removed, selectVars, rescan, loaded, overtaken>>,
             churn' \in 0 .. MaxDisturbances, scripted' \in SUBSET Tab,
             timers' \in SUBSET Tab, inject' \in SUBSET timers',
             healing' = [healing EXCEPT ![t] = q], q \subseteq healing[t],
             \A u \in Tab \ {t} : u \in timers' <=> u \in timers,
             p = entry[t].page \/ p \in healing[t]
      PROVE  TabsInv'
  <2>1. Ensure(t, p, NoEntry)
    BY <1>6 DEF Rebuild
  <2>2. life[t] = "closed" => t \in removed
    BY <1>1, <1>6
  <2>3. /\ healing' \in [Tab -> SUBSET Http] /\ healing'[t] = q
        /\ \A u \in Tab \ {t} : healing'[u] = healing[u]
    BY <1>3, <1>6
  <2>4. t \notin loaded' \cup removed \cup overtaken' /\ shows[t] \in Http =>
            p = shows[t] /\ p \in Http /\ healing'[t] \subseteq {shows[t]}
    BY <1>4, <1>6, <2>3
  <2>5. loaded' \in SUBSET loaded /\ overtaken' \in SUBSET Tab /\ overtaken \subseteq overtaken'
        /\ \A u \in Tab \ {t} : u \in loaded' <=> u \in loaded
        /\ UNCHANGED <<life, shows, removed, selectVars, rescan>>
    BY <1>3, <1>6
  <2> QED BY <1>1, <1>6, <2>1, <2>2, <2>3, <2>4, <2>5, EnsureStep
<1>7. CASE Recreate(t)
  <2>1. entry[t].page \in Http /\ healing[t] \in SUBSET Http
    BY <1>2, <1>3, <1>7 DEF Recreate
  <2>2. churn' \in 0 .. MaxDisturbances
    BY <1>7, BoundAssumption DEF Recreate, Disturbance, TabsInv, TypeOK
  <2>3. healing' = [healing EXCEPT ![t] = healing[t]]
    BY <1>3, <1>7 DEF Recreate
  <2> QED BY <1>3, <1>6, <1>7, <2>1, <2>2, <2>3 DEF Recreate, browserVars
<1>8. ASSUME NEW p \in Page, Injected(t, p) PROVE TabsInv'
  <2>1. p \in healing[t] /\ p \in Http /\ healing[t] \ {p} \in SUBSET Http
    BY <1>3, <1>8 DEF Injected
  <2>2. churn' \in 0 .. MaxDisturbances /\ scripted' \in SUBSET Tab
    BY <1>3, <1>8, BoundAssumption DEF Injected, Disturbance, TabsInv, TypeOK
  <2>3. /\ healing' = [healing EXCEPT ![t] = healing[t] \ {p}]
        /\ UNCHANGED <<life, shows, removed, selectVars, rescan, loaded, overtaken, timers, inject>>
    BY <1>8 DEF Injected
  <2>4. CASE entry[t] # NoEntry
    <3>1. Rebuild(t, p)
      BY <1>8, <2>4 DEF Injected
    <3> QED BY <1>3, <1>6, <2>1, <2>2, <2>3, <2>4, <3>1
  <2>5. CASE entry[t] = NoEntry
    <3>1. UNCHANGED <<entry, inventory>>
      BY <1>8, <2>5 DEF Injected
    <3>2. /\ healing' \in [Tab -> SUBSET Http] /\ \A u \in Tab : healing'[u] \subseteq healing[u]
          /\ \A u \in Tab \ {t} : healing'[u] = healing[u]
      BY <1>3, <2>3
    <3>3. TypeOK' /\ EventsFit' /\ SelectionsFit'
      BY <2>2, <2>3, <3>1, <3>2 DEF TabsInv, TypeOK, EventsFit, SelectionsFit, Known, selectVars
    <3>4. GoneLeaveNothing' /\ OnlySelectedConnect' /\ DeadPortsAreHealed'
      BY <1>1, <2>3, <2>5, <3>1, <3>2
         DEF TabsInv, GoneLeaveNothing, OnlySelectedConnect, DeadPortsAreHealed, selectVars
    <3>5. PagesFollow' /\ EntriesShowThePage' /\ SelectionIsStored'
      BY <2>3, <3>1, <3>2 DEF TabsInv, PagesFollow, EntriesShowThePage, SelectionIsStored, selectVars
    <3> QED BY <3>3, <3>4, <3>5 DEF TabsInv
  <2> QED BY <2>4, <2>5
<1>9. CASE HealTimer(t)
  <2>1. /\ timers' = timers \ {t} /\ inject' = inject \ {t}
        /\ UNCHANGED <<life, shows, scripted, loaded, removed, selectVars, rescan, churn, overtaken>>
    BY <1>9 DEF HealTimer, browserVars
  <2>2. CASE entry[t] # NoEntry /\ Rebuild(t, entry[t].page) /\ UNCHANGED healing
    <3>1. entry[t].page \in Http /\ healing[t] \in SUBSET Http
      BY <1>2, <1>3, <2>2
    <3>2. healing' = [healing EXCEPT ![t] = healing[t]]
      BY <1>3, <2>2
    <3> QED BY <1>3, <1>6, <2>1, <2>2, <3>1, <3>2
  <2>3. ASSUME UNCHANGED <<entry, inventory>>,
               \/ entry[t] = NoEntry /\ UNCHANGED healing
               \/ entry[t] # NoEntry /\ healing' = [healing EXCEPT ![t] = @ \cup {entry[t].page}]
        PROVE  TabsInv'
    <3>1. /\ healing' \in [Tab -> SUBSET Http]
          /\ \A u \in Tab \ {t} : healing'[u] = healing[u]
          /\ healing[t] \subseteq healing'[t]
          /\ entry[t].port = "dead" => healing'[t] # {}
          /\ t \notin loaded \cup removed \cup overtaken /\ shows[t] \in Http
                => healing'[t] \subseteq {shows[t]}
      BY <1>1, <1>2, <1>3, <1>4, <2>3
    <3>2. TypeOK' /\ EventsFit' /\ SelectionsFit'
      BY <2>1, <2>3, <3>1 DEF TabsInv, TypeOK, EventsFit, SelectionsFit, Known, selectVars
    <3>3. GoneLeaveNothing' /\ OnlySelectedConnect' /\ DeadPortsAreHealed'
      BY <2>1, <2>3, <3>1
         DEF TabsInv, GoneLeaveNothing, OnlySelectedConnect, DeadPortsAreHealed, selectVars
    <3>4. PagesFollow' /\ EntriesShowThePage' /\ SelectionIsStored'
      BY <2>1, <2>3, <3>1 DEF TabsInv, PagesFollow, EntriesShowThePage, SelectionIsStored, selectVars
    <3> QED BY <3>2, <3>3, <3>4 DEF TabsInv
  <2> QED BY <1>9, <2>2, <2>3 DEF HealTimer
<1> QED BY <1>5, <1>7, <1>8, <1>9

\* The other events of the worker keep the invariant.
LEMMA WorkerSteps ==
    ASSUME TabsInv,
           \/ Rescanned \/ Restart
           \/ \E t \in Tab : OnRemoved(t) \/ PortDisconnects(t) \/ ClientFindsPortDead(t)
    PROVE  TabsInv'
<1>1. entry \in [Tab -> Entry] /\ inventory \in [Tab -> Http \cup {NoPage}]
  BY DEF TabsInv, TypeOK, Entry
<1>2. CASE Rescanned
  <2> DEFINE found == {t \in Tab : life[t] = "open" /\ shows[t] \in Http}
  <2>1. /\ entry' = [t \in Tab |-> IF t \in found THEN Ensured(entry[t], t, shows[t], Gate) ELSE entry[t]]
        /\ inventory' = [t \in Tab |-> IF t \in found THEN shows[t] ELSE inventory[t]]
        /\ UNCHANGED <<browserVars, selectVars, healVars, churn, overtaken>>
        /\ rescan' = FALSE
    BY <1>2 DEF Rescanned
  <2>2. \A t \in Tab : /\ Ensured(entry[t], t, shows[t], Gate) \in Entry
                       /\ Ensured(entry[t], t, shows[t], Gate) # NoEntry =>
                             t \in Gate /\ Ensured(entry[t], t, shows[t], Gate).page = shows[t]
                       /\ Ensured(entry[t], t, shows[t], Gate).port = "dead" => entry[t].port = "dead"
    BY <1>1, EnsuredSound
  <2>3. Gate \subseteq selected
    BY DEF Gate
  <2>4. \A t \in Tab : \/ entry'[t] = entry[t] /\ inventory'[t] = inventory[t]
                       \/ /\ t \in found /\ inventory'[t] = shows[t]
                          /\ entry'[t] # NoEntry => t \in selected /\ entry'[t].page = shows[t]
                          /\ entry'[t].port = "dead" => entry[t].port = "dead"
    BY <2>1, <2>2, <2>3
  <2>5. entry' \in [Tab -> Entry] /\ inventory' \in [Tab -> Http \cup {NoPage}]
    BY <1>1, <2>1, <2>2
  <2>6. TypeOK' /\ EventsFit' /\ SelectionsFit'
    BY <2>1, <2>5 DEF TabsInv, TypeOK, Entry, EventsFit, SelectionsFit, Known, browserVars, selectVars, healVars
  <2>7. GoneLeaveNothing' /\ OnlySelectedConnect' /\ DeadPortsAreHealed'
    BY <2>1, <2>4 DEF TabsInv, GoneLeaveNothing, OnlySelectedConnect, DeadPortsAreHealed,
       browserVars, selectVars, healVars
  <2>8. PagesFollow' /\ EntriesShowThePage' /\ SelectionIsStored'
    BY <2>1, <2>4 DEF TabsInv, PagesFollow, EntriesShowThePage, SelectionIsStored,
       browserVars, selectVars, healVars
  <2> QED BY <2>6, <2>7, <2>8 DEF TabsInv
<1>3. CASE Restart
  <2>1. Boot \in Job /\ job'[Boot].at = "read"
    BY <1>3 DEF Restart, Job, Idle
  <2>2. job' \in [Job -> [at : {"free", "read", "init", "reset", "active", "get"},
                          ids : SUBSET Tab, todo : SUBSET Tab, stale : SUBSET Tab]]
        /\ \A k \in Job : job'[k].ids = {} /\ job'[k].todo = {} /\ job'[k].stale = {}
    BY <1>3 DEF Restart, Idle
  <2>3. churn' \in 0 .. MaxDisturbances
    BY <1>3, BoundAssumption DEF Restart, Disturbance, TabsInv, TypeOK
  <2>4. \A t \in Tab : entry'[t] = NoEntry /\ inventory'[t] = NoPage /\ healing'[t] = {}
    BY <1>3 DEF Restart
  <2>5. UNCHANGED <<life, shows, scripted, loaded, removed, stored>> /\ selected' = {}
    BY <1>3 DEF Restart, browserVars
  <2>6. TypeOK'
    BY <1>3, <2>1, <2>2, <2>3, <2>5 DEF Restart, TabsInv, TypeOK
  <2>7. EventsFit' /\ SelectionsFit' /\ GoneLeaveNothing' /\ OnlySelectedConnect'
    BY <2>2, <2>4, <2>5 DEF TabsInv, EventsFit, SelectionsFit, Known, GoneLeaveNothing, OnlySelectedConnect
  <2>8. DeadPortsAreHealed' /\ PagesFollow' /\ EntriesShowThePage' /\ SelectionIsStored'
    BY <2>1, <2>4, NoEntryFacts DEF DeadPortsAreHealed, PagesFollow, EntriesShowThePage, SelectionIsStored
  <2> QED BY <2>6, <2>7, <2>8 DEF TabsInv
<1>4. ASSUME NEW t \in Tab, OnRemoved(t) PROVE TabsInv'
  <2>1. /\ t \in removed /\ removed' = removed \ {t} /\ selected' = selected \ {t}
        /\ inventory' = [inventory EXCEPT ![t] = NoPage] /\ entry' = [entry EXCEPT ![t] = NoEntry]
        /\ UNCHANGED <<life, shows, scripted, loaded, ready, owner, timers, inject, healing, rescan,
                       churn, overtaken>>
        /\ stored' = IF t \in selected THEN selected' ELSE stored
    BY <1>4 DEF OnRemoved, healVars
  <2>2. job' \in [Job -> [at : {"free", "read", "init", "reset", "active", "get"},
                          ids : SUBSET Tab, todo : SUBSET Tab, stale : SUBSET Tab]]
        /\ \A k \in Job : /\ job'[k].at = job[k].at /\ job'[k].ids = job[k].ids
                          /\ job'[k].stale = job[k].stale /\ job'[k].todo \subseteq job[k].todo
    BY <1>4 DEF OnRemoved, TabsInv, TypeOK
  <2>3. life[t] = "closed" /\ shows[t] = NoPage
    BY <2>1 DEF TabsInv, EventsFit, TypeOK
  <2>4. entry' \in [Tab -> Entry] /\ inventory' \in [Tab -> Http \cup {NoPage}]
        /\ entry'[t] = NoEntry /\ inventory'[t] = NoPage
        /\ \A u \in Tab \ {t} : entry'[u] = entry[u] /\ inventory'[u] = inventory[u]
    BY <1>1, <2>1, NoEntryFacts
  <2>5. TypeOK'
    BY <2>1, <2>2, <2>4 DEF TabsInv, TypeOK, Entry
  <2>6. EventsFit' /\ SelectionsFit'
    BY <2>1, <2>2 DEF TabsInv, EventsFit, SelectionsFit, Known
  <2>7. GoneLeaveNothing' /\ OnlySelectedConnect' /\ DeadPortsAreHealed'
    BY <2>1, <2>4, NoEntryFacts DEF TabsInv, GoneLeaveNothing, OnlySelectedConnect, DeadPortsAreHealed
  <2>8. PagesFollow' /\ EntriesShowThePage'
    BY <2>1, <2>3, <2>4, PageAssumption DEF TabsInv, PagesFollow, EntriesShowThePage
  <2>9. SelectionIsStored'
    BY <2>1, <2>2 DEF TabsInv, SelectionIsStored
  <2> QED BY <2>5, <2>6, <2>7, <2>8, <2>9 DEF TabsInv
<1>5. ASSUME NEW t \in Tab, PortDisconnects(t) \/ ClientFindsPortDead(t) PROVE TabsInv'
  <2>1. /\ UNCHANGED <<browserVars, selectVars, healing, inventory, rescan, churn, overtaken>>
        /\ timers' = timers \cup {t} /\ inject' \subseteq inject \cup {t}
    BY <1>5 DEF PortDisconnects, ClientFindsPortDead, HealPort
  <2>2. /\ entry' \in [Tab -> Entry]
        /\ \A u \in Tab : /\ entry'[u] # NoEntry => entry[u] # NoEntry
                          /\ entry'[u].page = entry[u].page
        /\ \A u \in Tab \ {t} : entry'[u] = entry[u]
    <3>1. CASE PortDisconnects(t)
      <4>1. entry[t].port \in {"unheard", "lost"} /\ entry' = [entry EXCEPT ![t].port = "dead"]
        BY <3>1 DEF PortDisconnects
      <4>2. entry[t] # NoEntry
        BY <4>1, NoEntryFacts
      <4>3. entry[t] \in [page : Http, port : {"live", "unheard", "lost", "dead"}]
        BY <1>1, <4>2 DEF Entry
      <4>4. entry' = [entry EXCEPT ![t] = [entry[t] EXCEPT !.port = "dead"]]
        BY <1>1, <4>1, <4>3
      <4>5. [entry[t] EXCEPT !.port = "dead"] \in Entry /\ [entry[t] EXCEPT !.port = "dead"].page = entry[t].page
        BY <4>3 DEF Entry
      <4>6. entry'[t] = [entry[t] EXCEPT !.port = "dead"] /\ \A u \in Tab \ {t} : entry'[u] = entry[u]
        BY <1>1, <4>4
      <4>7. entry' \in [Tab -> Entry]
        BY <1>1, <4>4, <4>5
      <4> QED BY <4>2, <4>5, <4>6, <4>7
    <3>2. CASE ClientFindsPortDead(t)
      BY <1>1, <3>2 DEF ClientFindsPortDead
    <3> QED BY <1>5, <3>1, <3>2
  <2>3. TypeOK' /\ EventsFit' /\ SelectionsFit'
    BY <2>1, <2>2 DEF TabsInv, TypeOK, Entry, EventsFit, SelectionsFit, Known, browserVars, selectVars
  <2>4. GoneLeaveNothing' /\ OnlySelectedConnect' /\ DeadPortsAreHealed'
    BY <2>1, <2>2 DEF TabsInv, GoneLeaveNothing, OnlySelectedConnect, DeadPortsAreHealed,
       browserVars, selectVars
  <2>5. PagesFollow' /\ EntriesShowThePage' /\ SelectionIsStored'
    BY <2>1, <2>2 DEF TabsInv, PagesFollow, EntriesShowThePage, SelectionIsStored, browserVars, selectVars
  <2> QED BY <2>3, <2>4, <2>5 DEF TabsInv
<1> QED BY <1>2, <1>3, <1>4, <1>5

------------------------------------------------------------------------------
LEMMA TabsInvariant == Spec => []TabsInv
<1>1. Init => TabsInv
  BY InitSound
<1>2. TabsInv /\ Next => TabsInv'
  <2> SUFFICES ASSUME TabsInv, Next PROVE TabsInv'
    OBVIOUS
  <2>1. CASE \/ StoredRead
             \/ \E k \in Task, ids \in SUBSET {t \in Tab : life[t] # "new"} : SetSelection(k, ids)
             \/ \E k \in Task : ResetSelection(k) \/ Initialised(k)
             \/ \E k \in Job : ActiveTab(k) \/ TabGot(k)
    BY <2>1, SelectionSteps
  <2>2. CASE \/ Rescanned \/ Restart
             \/ \E t \in Tab : OnRemoved(t) \/ PortDisconnects(t) \/ ClientFindsPortDead(t)
    BY <2>2, WorkerSteps
  <2>3. ASSUME NEW t \in Tab, NEW p \in Page, Open(t, p) \/ Navigate(t, p) PROVE TabsInv'
    BY <2>3, BrowserSteps
  <2>4. ASSUME NEW t \in Tab, Close(t) \/ PortBreaks(t) PROVE TabsInv'
    BY <2>4, BrowserSteps
  <2>5. ASSUME NEW t \in Tab,
               OnUpdated(t) \/ HealTimer(t) \/ Recreate(t) \/ \E p \in Page : Injected(t, p)
        PROVE  TabsInv'
    BY <2>5, RebuildSteps
  <2> QED BY <2>1, <2>2, <2>3, <2>4, <2>5 DEF Next
<1>3. TabsInv /\ UNCHANGED vars => TabsInv'
  BY DEF vars, browserVars, selectVars, healVars, TabsInv, TypeOK, EventsFit, SelectionsFit, Known,
     GoneLeaveNothing, OnlySelectedConnect, DeadPortsAreHealed, PagesFollow, EntriesShowThePage,
     SelectionIsStored
<1> QED BY <1>1, <1>2, <1>3, PTL DEF Spec, SafetySpec

\* Only selected tabs have an entry, and no entry stays with a dead port without
\* a timer or an injection that will rebuild it (ensureClient, handlePortDead,
\* healPort, reconcileSelection), whichever selections and events overlap.
THEOREM EntriesTended == Spec => []EntriesAreTended
<1>1. TabsInv => EntriesAreTended
  BY DEF TabsInv, EntriesAreTended
<1> QED BY <1>1, TabsInvariant, PTL

\* What the relay is told of a tab is the page it shows, but for a tab that
\* finished loading during an injection (onUpdated, healPort, recreateConnection).
THEOREM EntriesCurrent == Spec => []EntriesShowThePage
<1>1. TabsInv => EntriesShowThePage
  BY DEF TabsInv
<1> QED BY <1>1, TabsInvariant, PTL

\* Whenever no selection is under way, the stored one is the selection of now
\* (reconcileSelection, onRemoved).
THEOREM SelectionStored == Spec => []SelectionIsStored
<1>1. TabsInv => SelectionIsStored
  BY DEF TabsInv
<1> QED BY <1>1, TabsInvariant, PTL
==============================================================================
