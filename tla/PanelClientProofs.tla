-------------------------- MODULE PanelClientProofs --------------------------
(***************************************************************************)
(* Theorems about the panel's client, for every set of tabs, every number  *)
(* of listings and all bounds.  The invariant says what holds of the       *)
(* connections as a function and the set of them that are in the map, so   *)
(* that one lemma about Settle serves all the events that end with it.     *)
(***************************************************************************)
EXTENDS PanelClient, FiniteSetTheorems, TLAPS

Record(asked, far) ==
    [port : BOOLEAN, online : BOOLEAN, removed : BOOLEAN, timer : BOOLEAN,
     pending : SUBSET Request, tools : Version, asked : {asked}, far : {far},
     heard : Nat, news : Nat, closing : BOOLEAN]

\* A record of a connection to tab t: what the panel has heard of its tools, with
\* the news that are on their way, is not ahead of the page.
Typed(r, t) == (\E asked, far : r \in Record(asked, far)) /\ r.heard + r.news <= offered[t]

Quiet(r) == r.removed => ~r.port /\ ~r.timer /\ r.pending = {}

\* A connection in the map is not removed; without a port it is still shown as
\* online, or it is tried again.
Tried(r) == ~r.removed /\ (~r.port /\ ~r.online => r.timer)

\* What holds of the connections cs when those in `on` are the map's.
Sound(cs, on) ==
    /\ on \subseteq Conn
    /\ cs = [c \in Conn |-> cs[c]]
    /\ \A c \in Conn : Typed(cs[c], TabOf(c)) /\ Quiet(cs[c])
    /\ \A c \in on : Tried(cs[c])

\* The routes lead to connections in the map.
Leads(rs, on) ==
    /\ rs = [t \in Tab |-> rs[t]]
    /\ \A t \in Tab : rs[t].tools \in Version /\ \A c \in rs[t].conn : c \in on /\ TabOf(c) = t

Heeds(ls) ==
    /\ ls = [l \in Listing |-> ls[l]]
    /\ \A l \in Listing :
          /\ ls[l] = [of |-> ls[l].of, failed |-> ls[l].failed]
          /\ ls[l].of \subseteq Conn /\ ls[l].failed \subseteq ls[l].of

PagesTyped ==
    /\ page \in [Tab -> {"none", "up", "failed"}] /\ offered \in [Tab -> Version]
    /\ slow \in 0 .. MaxSlow

PanelInv ==
    /\ PagesTyped
    /\ Sound(conn, connections)
    /\ Leads(routes, connections)
    /\ Heeds(listing)
    /\ shown \in [Tab -> Version]

------------------------------------------------------------------------------
(* What the operations do to one connection.                               *)

LEMMA UnusedTyped ==
    ASSUME NEW t, offered[t] \in Nat
    PROVE  Typed(Unused, t) /\ Quiet(Unused)
<1>1. Unused \in Record(<<>>, "none") /\ Unused.heard + Unused.news = 0
  BY PanelAssumption DEF Unused, Record, Version
<1> QED BY <1>1 DEF Typed, Quiet, Unused

LEMMA OpenedTyped ==
    ASSUME NEW t, NEW r, offered[t] \in Nat, Typed(r, t)
    PROVE  /\ Typed(Opened(r, t), t) /\ Opened(r, t).port
           /\ Opened(r, t).removed = r.removed
<1>1. CASE r.port
  BY <1>1 DEF Opened
<1>2. CASE ~r.port
  <2> DEFINE none == page[t] = "none"
             o    == Opened(r, t)
  <2>1. PICK asked, far : r \in Record(asked, far)
    BY DEF Typed
  <2>2. PICK k, n, e : k = page[t] /\ n = offered[t] /\ e = none
    OBVIOUS
  <2>3. o = [r EXCEPT !.port = TRUE, !.far = k, !.heard = n, !.news = 0, !.closing = e]
    BY <1>2, <2>2 DEF Opened
  <2>4. n \in Nat /\ e \in BOOLEAN
    BY <2>2
  <2> HIDE DEF o
  <2>5. o \in Record(asked, k) /\ o.port /\ o.removed = r.removed /\ o.heard = n /\ o.news = 0
    BY <2>1, <2>3, <2>4 DEF Record
  <2>6. Typed(o, t) /\ o.port /\ o.removed = r.removed
    BY <2>2, <2>4, <2>5 DEF Typed
  <2> QED BY <2>6 DEF o
<1> QED BY <1>1, <1>2

LEMMA SendTyped ==
    ASSUME NEW t, NEW r, NEW q \in Request, offered[t] \in Nat, Typed(r, t), ~r.removed
    PROVE  Typed(Send(r, t, q), t) /\ Quiet(Send(r, t, q)) /\ Tried(Send(r, t, q))
<1>1. PICK p : p = Opened(r, t)
  OBVIOUS
<1>2. Typed(p, t) /\ p.port /\ ~p.removed
  BY <1>1, OpenedTyped
<1>3. PICK asked, far : p \in Record(asked, far)
  BY <1>2 DEF Typed
<1>4. PICK then : then = IF p.closing THEN p.asked ELSE Append(p.asked, q)
  OBVIOUS
<1>5. PICK s : s = Send(r, t, q)
  OBVIOUS
<1>6. s = [p EXCEPT !.pending = @ \cup {q}, !.asked = then]
  BY <1>1, <1>4, <1>5 DEF Send
<1>7. s \in Record(then, far) /\ s.port /\ ~s.removed /\ s.heard = p.heard /\ s.news = p.news
  BY <1>2, <1>3, <1>6 DEF Record
<1>8. Typed(s, t) /\ Quiet(s) /\ Tried(s)
  BY <1>2, <1>7 DEF Typed, Quiet, Tried
<1> QED BY <1>5, <1>8

LEMMA DroppedTyped ==
    ASSUME NEW t, NEW r, offered[t] \in Nat, Typed(r, t)
    PROVE  /\ Typed(Dropped(r), t)
           /\ ~Dropped(r).port /\ Dropped(r).removed = r.removed /\ Dropped(r).timer = r.timer
           /\ Dropped(r).pending = r.pending /\ Dropped(r).online = r.online
<1> DEFINE d == Dropped(r)
<1>1. PICK asked, far : r \in Record(asked, far)
  BY DEF Typed
<1>2. /\ d \in Record(<<>>, "none")
      /\ ~d.port /\ d.removed = r.removed /\ d.timer = r.timer
      /\ d.pending = r.pending /\ d.online = r.online /\ d.heard = 0 /\ d.news = 0
  BY <1>1 DEF Record, Dropped
<1> QED BY <1>2 DEF Typed

LEMMA ScheduledTyped ==
    ASSUME NEW t, NEW r, Typed(r, t)
    PROVE  /\ Typed(Scheduled(r), t) /\ Scheduled(r).removed = r.removed
           /\ Quiet(r) => Quiet(Scheduled(r))
           /\ ~r.removed => Tried(Scheduled(r))
BY DEF Typed, Record, Scheduled, Quiet, Tried

LEMMA HangupTyped ==
    ASSUME NEW t, NEW r, offered[t] \in Nat, Typed(r, t), Quiet(r)
    PROVE  /\ Typed(Hangup(r), t) /\ Quiet(Hangup(r))
           /\ ~r.removed => Tried(Hangup(r))
<1> DEFINE d == Dropped(r)
           torn == [d EXCEPT !.pending = {}, !.online = FALSE]
<1>1. Typed(d, t) /\ ~d.port /\ d.removed = r.removed /\ d.timer = r.timer
  BY DroppedTyped
<1>2. Hangup(r) = Scheduled(torn)
  BY DEF Hangup, TornDown
<1> HIDE DEF d
<1>3. Typed(torn, t) /\ Quiet(torn) /\ torn.removed = r.removed
  BY <1>1 DEF Typed, Record, Quiet
<1> HIDE DEF torn
<1> QED BY <1>2, <1>3, ScheduledTyped

LEMMA DisposedTyped ==
    ASSUME NEW t, NEW r, offered[t] \in Nat, Typed(r, t)
    PROVE  Typed(Disposed(r), t) /\ Quiet(Disposed(r))
<1> DEFINE d == Dropped(r)
<1>1. Typed(d, t) /\ ~d.port
  BY DroppedTyped
<1>2. Disposed(r) = [d EXCEPT !.removed = TRUE, !.timer = FALSE, !.pending = {}]
  BY DEF Disposed
<1> HIDE DEF d
<1> QED BY <1>1, <1>2 DEF Typed, Record, Quiet

LEMMA CreatedTyped ==
    ASSUME NEW t, offered[t] \in Nat
    PROVE  Typed(Created(t), t) /\ Quiet(Created(t)) /\ Tried(Created(t))
<1>1. PICK u : u = Unused
  OBVIOUS
<1>2. u \in Record(<<>>, "none") /\ u.heard = 0 /\ u.news = 0
  BY <1>1, PanelAssumption DEF Unused, Record, Version
<1>3. PICK r : r = [u EXCEPT !.removed = FALSE]
  OBVIOUS
<1>4. r \in Record(<<>>, "none") /\ r.heard = 0 /\ r.news = 0 /\ ~r.removed
  BY <1>2, <1>3 DEF Record
<1>5. Typed(r, t)
  BY <1>4 DEF Typed
<1> QED BY <1>1, <1>3, <1>4, <1>5, OpenedTyped DEF Created, Quiet, Tried

LEMMA WithoutTyped ==
    ASSUME NEW t, NEW r, NEW q, Typed(r, t), Quiet(r)
    PROVE  LET w == Without(r, q)
           IN  /\ Typed(w, t) /\ Quiet(w) /\ w.removed = r.removed /\ (Tried(r) => Tried(w))
               /\ w.heard = r.heard /\ w.news = r.news
<1>1. PICK asked, far : r \in Record(asked, far)
  BY DEF Typed
<1>2. PICK then : then = Remove(r.asked, q)
  OBVIOUS
<1>3. PICK w : w = Without(r, q)
  OBVIOUS
<1>4. w = [r EXCEPT !.pending = @ \ {q}, !.asked = then]
  BY <1>2, <1>3 DEF Without
<1>5. /\ w \in Record(then, far)
      /\ w.port = r.port /\ w.online = r.online /\ w.removed = r.removed /\ w.timer = r.timer
      /\ w.pending = r.pending \ {q} /\ w.heard = r.heard /\ w.news = r.news
  BY <1>1, <1>4 DEF Record
<1>6. Typed(w, t) /\ Quiet(w) /\ (Tried(r) => Tried(w))
  BY <1>5 DEF Typed, Quiet, Tried
<1> QED BY <1>3, <1>5, <1>6

------------------------------------------------------------------------------
(* What the events do to all of it.                                        *)

LEMMA OfferedTyped == ASSUME PagesTyped PROVE \A c \in Conn : TabOf(c) \in Tab /\ offered[TabOf(c)] \in Nat
BY PanelAssumption DEF PagesTyped, Conn, TabOf, Version

\* The exposed names are those of connections of the map (rebuildRoutes).
LEMMA RoutesLead ==
    ASSUME NEW cs, NEW on, Sound(cs, on)
    PROVE  Leads(Routes(cs, on), on)
<1> DEFINE rs == Routes(cs, on)
<1>1. ASSUME NEW t \in Tab PROVE rs[t].tools \in Version /\ \A c \in rs[t].conn : c \in on /\ TabOf(c) = t
  <2> DEFINE found == {d \in on : TabOf(d) = t /\ cs[d].tools # 0}
             first == CHOOSE d \in found : TRUE
  <2>1. rs[t] = IF found = {} THEN NoRoute ELSE [conn |-> found, tools |-> cs[first].tools]
    BY DEF Routes
  <2>2. CASE found = {}
    BY <2>1, <2>2, PanelAssumption DEF NoRoute, Version
  <2>3. CASE found # {}
    <3>1. first \in found
      BY <2>3
    <3> HIDE DEF first
    <3>2. cs[first].tools \in Version
      BY <3>1 DEF Sound, Typed, Record
    <3> QED BY <2>1, <2>3, <3>2
  <2> QED BY <2>2, <2>3
<1>2. rs = [t \in Tab |-> rs[t]]
  BY DEF Routes
<1> QED BY <1>1, <1>2 DEF Leads

\* What a listing merged is what connections listed (listTools).
LEMMA MergedTyped ==
    ASSUME NEW cs, NEW on, Sound(cs, on), NEW l, l.of \subseteq Conn
    PROVE  Merged(cs, l) \in [Tab -> Version]
<1>1. ASSUME NEW t \in Tab PROVE Merged(cs, l)[t] \in Version
  <2> DEFINE found == {d \in l.of : TabOf(d) = t}
             first == CHOOSE d \in found : TRUE
  <2>1. Merged(cs, l)[t] = IF found = {} \/ l.failed = l.of THEN 0 ELSE cs[first].tools
    BY DEF Merged
  <2>2. 0 \in Version
    BY PanelAssumption DEF Version
  <2>3. ASSUME found # {} PROVE cs[first].tools \in Version
    <3>1. first \in Conn
      BY <2>3
    <3> HIDE DEF first
    <3> QED BY <3>1 DEF Sound, Typed, Record
  <2> QED BY <2>1, <2>2, <2>3
<1>2. Merged(cs, l) = [t \in Tab |-> Merged(cs, l)[t]]
  BY DEF Merged
<1> QED BY <1>1, <1>2

LEMMA SettleSound ==
    ASSUME PagesTyped, Leads(routes, connections), Heeds(listing), shown \in [Tab -> Version],
           NEW cs, NEW on, Sound(cs, on), NEW gone, NEW refresh, NEW spare \in Nat, NEW reroute,
           reroute \/ connections \subseteq on,
           Settle(cs, on, gone, refresh, spare, reroute)
    PROVE  /\ connections' = on /\ Sound(conn', on)
           /\ Leads(routes', on) /\ Heeds(listing') /\ shown' \in [Tab -> Version]
<1> DEFINE old  == Rejected(listing, cs, gone)
           done == {l \in Listing : /\ old[l].of # {}
                                     /\ \A c \in old[l].of : l \notin cs[c].pending}
           rest == [l \in Listing |-> IF l \in done THEN NotAsked ELSE old[l]]
           idle == {l \in Listing : listing[l] = NotAsked}
           next == CHOOSE l \in idle : TRUE
           asks == refresh /\ on # {}
<1>1. /\ asks => Cardinality(idle) > spare
      /\ connections' = on
      /\ listing' = IF asks THEN [rest EXCEPT ![next] = [of |-> on, failed |-> {}]] ELSE rest
      /\ conn' = [c \in Conn |-> IF asks /\ c \in on THEN Send(cs[c], TabOf(c), next)
                                 ELSE IF Forgotten(cs[c], c, rest) THEN Unused ELSE cs[c]]
      /\ routes' = IF done # {} \/ reroute THEN Routes(cs, on) ELSE routes
      /\ IF done # {} THEN \E l \in done : shown' = Merged(cs, old[l])
         ELSE shown' = IF refresh /\ on = {} THEN [t \in Tab |-> 0] ELSE shown
  BY DEF Settle
<1>2. Heeds(old)
  <2>1. ASSUME NEW l \in Listing
        PROVE  /\ old[l].of = listing[l].of /\ old[l] = [of |-> old[l].of, failed |-> old[l].failed]
               /\ old[l].failed \subseteq old[l].of
    <3>1. PICK a, f : listing[l] = [of |-> a, failed |-> f] /\ f \subseteq a
      BY DEF Heeds
    <3>2. PICK r, g : r = listing[l] /\ g = {c \in r.of : <<l, c>> \in gone}
      OBVIOUS
    <3>3. old[l] = [r EXCEPT !.failed = @ \cup g]
      BY <3>2 DEF Rejected
    <3> HIDE DEF old
    <3>4. old[l] = [of |-> a, failed |-> f \cup g]
      <4>1. r = [of |-> a, failed |-> f]
        BY <3>1, <3>2
      <4> QED BY <3>3, <4>1
    <3>5. g \subseteq a
      BY <3>1, <3>2
    <3> QED BY <3>1, <3>4, <3>5
  <2>2. old = [l \in Listing |-> old[l]]
    BY DEF Rejected
  <2> HIDE DEF old
  <2> QED BY <2>1, <2>2 DEF Heeds
<1>3. asks => next \in Listing
  <2> SUFFICES ASSUME asks PROVE idle # {}
    OBVIOUS
  <2>1. Cardinality(idle) > spare
    BY <1>1
  <2> HIDE DEF idle
  <2> QED BY <2>1, FS_EmptySet
<1> HIDE DEF old, next, idle
<1>4. Heeds(rest)
  BY <1>2 DEF Heeds, NotAsked
<1> HIDE DEF rest
<1>5. Heeds(listing')
  <2>1. CASE asks
    <3>1. on \subseteq Conn
      BY DEF Sound
    <3> QED BY <1>1, <1>3, <1>4, <2>1, <3>1 DEF Heeds
  <2>2. CASE ~asks
    BY <1>1, <1>4, <2>2
  <2> QED BY <2>1, <2>2
<1>6. Sound(conn', on)
  <2>1. ASSUME NEW c \in Conn
        PROVE  Typed(conn'[c], TabOf(c)) /\ Quiet(conn'[c]) /\ (c \in on => Tried(conn'[c]))
    <3>1. offered[TabOf(c)] \in Nat
      BY OfferedTyped
    <3>2. Typed(cs[c], TabOf(c)) /\ Quiet(cs[c]) /\ (c \in on => Tried(cs[c]))
      BY DEF Sound
    <3>3. CASE asks /\ c \in on
      <4>1. conn'[c] = Send(cs[c], TabOf(c), next)
        BY <1>1, <3>3
      <4>2. next \in Request /\ ~cs[c].removed
        BY <1>3, <3>2, <3>3 DEF Request, Tried
      <4> QED BY <3>1, <3>2, <4>1, <4>2, SendTyped
    <3>4. CASE ~(asks /\ c \in on) /\ Forgotten(cs[c], c, rest)
      <4>1. conn'[c] = Unused /\ c \notin on
        BY <1>1, <3>2, <3>4 DEF Forgotten, Tried
      <4> QED BY <3>1, <4>1, UnusedTyped
    <3>5. CASE ~(asks /\ c \in on) /\ ~Forgotten(cs[c], c, rest)
      <4>1. conn'[c] = cs[c]
        BY <1>1, <3>5
      <4> QED BY <3>2, <4>1
    <3> QED BY <3>3, <3>4, <3>5
  <2>2. conn' = [c \in Conn |-> conn'[c]] /\ on \subseteq Conn
    BY <1>1 DEF Sound
  <2> QED BY <2>1, <2>2 DEF Sound
<1>7. Leads(routes', on)
  <2>1. CASE done # {} \/ reroute
    BY <1>1, <2>1, RoutesLead
  <2>2. CASE ~(done # {} \/ reroute)
    BY <1>1, <2>2 DEF Leads
  <2> QED BY <2>1, <2>2
<1>8. shown' \in [Tab -> Version]
  <2>1. CASE done # {}
    <3>1. PICK l \in done : shown' = Merged(cs, old[l])
      BY <1>1, <2>1
    <3>2. old[l].of \subseteq Conn
      BY <1>2, <3>1 DEF Heeds
    <3> QED BY <3>1, <3>2, MergedTyped
  <2>2. CASE done = {}
    <3>1. 0 \in Version
      BY PanelAssumption DEF Version
    <3> QED BY <1>1, <2>2, <3>1
  <2> QED BY <2>1, <2>2
<1> QED BY <1>1, <1>5, <1>6, <1>7, <1>8

LEMMA SettleKeepsInv ==
    ASSUME PanelInv, NEW cs, NEW on, Sound(cs, on), NEW gone, NEW refresh, NEW spare \in Nat, NEW reroute,
           reroute \/ connections \subseteq on,
           Settle(cs, on, gone, refresh, spare, reroute),
           UNCHANGED <<page, offered>>, slow' \in 0 .. MaxSlow
    PROVE  PanelInv'
<1>1. /\ connections' = on /\ Sound(conn', on)
      /\ Leads(routes', on) /\ Heeds(listing') /\ shown' \in [Tab -> Version]
  BY SettleSound DEF PanelInv
<1>2. PagesTyped'
  BY DEF PanelInv, PagesTyped
<1>3. Sound(conn, connections)'
  BY <1>1 DEF Sound, Typed, Record
<1> QED BY <1>1, <1>2, <1>3 DEF PanelInv, Leads, Heeds

\* One connection changes to r.
LEMMA OneChanges ==
    ASSUME NEW cs, NEW on, Sound(cs, on), NEW c \in Conn, NEW r,
           Typed(r, TabOf(c)), Quiet(r), c \in on => Tried(r)
    PROVE  Sound([cs EXCEPT ![c] = r], on)
BY DEF Sound

LEMMA OneChangesAlone ==
    ASSUME PanelInv, NEW c \in Conn, NEW r, Typed(r, TabOf(c)), Quiet(r), c \in connections => Tried(r),
           conn' = [conn EXCEPT ![c] = r], slow' \in 0 .. MaxSlow,
           UNCHANGED <<page, offered, connections, routes, listing, shown>>
    PROVE  PanelInv'
<1>1. Sound(conn', connections)
  BY OneChanges DEF PanelInv
<1>2. Sound(conn, connections)'
  BY <1>1 DEF Sound, Typed, Record
<1> QED BY <1>2 DEF PanelInv, PagesTyped, Leads, Heeds

LEMMA SelectKeepsInv ==
    ASSUME PanelInv, NEW tabs \in SUBSET Tab, SelectTabs(tabs)
    PROVE  PanelInv'
<1> DEFINE kept  == {c \in connections : TabOf(c) \in tabs}
           out   == connections \ kept
           fresh == {t \in tabs : \A c \in kept : TabOf(c) # t}
           Unheld(t) == {c \in {t} \X Object : conn[c] = Unused}
           new   == {CHOOSE c \in Unheld(t) : TRUE : t \in fresh}
           cs    == [c \in Conn |-> IF c \in out THEN Disposed(conn[c])
                                   ELSE IF c \in new THEN Created(TabOf(c)) ELSE conn[c]]
<1>1. /\ \A t \in fresh : Unheld(t) # {}
      /\ Settle(cs, kept \cup new, UNION {Waiters(conn[c], c) : c \in out}, TRUE, 2, TRUE)
      /\ UNCHANGED pageVars
  BY DEF SelectTabs, Retarget
<1>2. \A c \in new : c \in Conn /\ conn[c] = Unused
  <2>1. ASSUME NEW t \in fresh PROVE (CHOOSE c \in Unheld(t) : TRUE) \in Unheld(t)
    BY <1>1
  <2>2. \A t \in fresh : \A c \in Unheld(t) : c \in Conn /\ conn[c] = Unused
    BY DEF Conn
  <2> HIDE DEF Unheld, fresh
  <2> QED BY <2>1, <2>2
<1> HIDE DEF new
<1>3. Sound(cs, kept \cup new)
  <2>1. ASSUME NEW c \in Conn
        PROVE  Typed(cs[c], TabOf(c)) /\ Quiet(cs[c]) /\ (c \in kept \cup new => Tried(cs[c]))
    <3>1. offered[TabOf(c)] \in Nat
      BY OfferedTyped DEF PanelInv
    <3>2. Typed(conn[c], TabOf(c)) /\ Quiet(conn[c]) /\ (c \in connections => Tried(conn[c]))
      BY DEF PanelInv, Sound
    <3>3. c \in new => c \notin connections
      BY <1>2, <3>2 DEF Unused, Tried
    <3>4. CASE c \in out
      <4>1. cs[c] = Disposed(conn[c]) /\ c \notin kept \cup new
        BY <3>3, <3>4
      <4> HIDE DEF cs
      <4> QED BY <3>1, <3>2, <4>1, DisposedTyped
    <3>5. CASE c \in new
      <4>1. cs[c] = Created(TabOf(c))
        BY <3>3, <3>5
      <4> HIDE DEF cs
      <4> QED BY <3>1, <4>1, CreatedTyped
    <3>6. CASE c \notin out /\ c \notin new
      BY <3>2, <3>6
    <3> QED BY <3>4, <3>5, <3>6
  <2>2. kept \cup new \subseteq Conn
    BY <1>2 DEF PanelInv, Sound
  <2>3. cs = [c \in Conn |-> cs[c]]
    OBVIOUS
  <2> HIDE DEF cs, kept
  <2> QED BY <2>1, <2>2, <2>3 DEF Sound
<1>4. slow' \in 0 .. MaxSlow /\ UNCHANGED <<page, offered>>
  BY <1>1 DEF PanelInv, PagesTyped, pageVars
<1> HIDE DEF cs, kept, out
<1> QED BY <1>1, <1>3, <1>4, SettleKeepsInv

LEMMA UnmountKeepsInv ==
    ASSUME PanelInv, Unmount
    PROVE  PanelInv'
<1> DEFINE d == [c \in Conn |-> IF c \in connections THEN Disposed(conn[c]) ELSE conn[c]]
<1>1. /\ listing' = [l \in Listing |-> NotAsked]
      /\ conn' = [c \in Conn |-> IF Forgotten(d[c], c, listing') THEN Unused ELSE d[c]]
      /\ connections' = {} /\ routes' = [t \in Tab |-> NoRoute] /\ shown' = [t \in Tab |-> 0]
      /\ UNCHANGED pageVars
  BY DEF Unmount
<1>2. ASSUME NEW c \in Conn PROVE Typed(conn'[c], TabOf(c)) /\ Quiet(conn'[c])
  <2>1. offered[TabOf(c)] \in Nat
    BY OfferedTyped DEF PanelInv
  <2>2. Typed(conn[c], TabOf(c)) /\ Quiet(conn[c])
    BY DEF PanelInv, Sound
  <2>3. Typed(d[c], TabOf(c)) /\ Quiet(d[c])
    BY <2>1, <2>2, DisposedTyped
  <2> QED BY <1>1, <2>1, <2>3, UnusedTyped
<1>3. Sound(conn', {})
  BY <1>1, <1>2 DEF Sound
<1>4. Sound(conn, connections)'
  BY <1>1, <1>3 DEF Sound, Typed, Record, pageVars
<1>5. Leads(routes, connections)' /\ Heeds(listing)'
  BY <1>1, PanelAssumption DEF Leads, Heeds, NoRoute, NotAsked, Version
<1>6. PagesTyped' /\ shown' \in [Tab -> Version]
  BY <1>1, PanelAssumption DEF PanelInv, PagesTyped, pageVars, Version
<1> QED BY <1>4, <1>5, <1>6 DEF PanelInv

LEMMA GetToolsKeepsInv ==
    ASSUME PanelInv, GetTools
    PROVE  PanelInv'
<1>1. /\ Settle(conn, connections, {}, TRUE, 3, FALSE)
      /\ UNCHANGED <<page, offered>> /\ slow' \in 0 .. MaxSlow
  BY DEF GetTools, PanelInv, PagesTyped, pageVars
<1> QED BY <1>1, SettleKeepsInv DEF PanelInv

LEMMA CallKeepsInv ==
    ASSUME PanelInv, NEW t \in Tab, CallTool(t)
    PROVE  PanelInv'
<1>1. PICK c \in routes[t].conn : conn' = [conn EXCEPT ![c] = Send(conn[c], t, "call")]
  BY DEF CallTool
<1>2. c \in connections /\ c \in Conn /\ TabOf(c) = t
  BY DEF PanelInv, Leads, Sound
<1>3. Typed(conn[c], t) /\ Tried(conn[c]) /\ offered[t] \in Nat /\ "call" \in Request
  BY <1>2, OfferedTyped DEF PanelInv, Sound, Request
<1>4. PICK r : r = Send(conn[c], t, "call")
  OBVIOUS
<1>5. Typed(r, TabOf(c)) /\ Quiet(r) /\ Tried(r)
  BY <1>2, <1>3, <1>4, SendTyped DEF Tried
<1>6. /\ UNCHANGED <<page, offered, connections, routes, listing, shown>> /\ slow' \in 0 .. MaxSlow
  BY DEF CallTool, PanelInv, PagesTyped, pageVars
<1> QED BY <1>1, <1>2, <1>4, <1>5, <1>6, OneChangesAlone

LEMMA HearChangeKeepsInv ==
    ASSUME PanelInv, NEW c \in Conn, HearChange(c)
    PROVE  PanelInv'
<1>1. PICK o, r : o = conn[c] /\ r = [o EXCEPT !.tools = 0, !.heard = @ + 1, !.news = @ - 1]
  OBVIOUS
<1>2. /\ o.news > 0 /\ Settle([conn EXCEPT ![c] = r], connections, {}, TRUE, 0, FALSE)
      /\ UNCHANGED <<page, offered>> /\ slow' \in 0 .. MaxSlow
  BY <1>1 DEF HearChange, HearNews, PanelInv, PagesTyped, pageVars
<1>3. Typed(o, TabOf(c)) /\ Quiet(o) /\ (c \in connections => Tried(o)) /\ offered[TabOf(c)] \in Nat
  BY <1>1, OfferedTyped DEF PanelInv, Sound
<1>4. PICK asked, far : o \in Record(asked, far)
  BY <1>3 DEF Typed
<1>5. PICK h, n : h = o.heard + 1 /\ n = o.news - 1
  OBVIOUS
<1>6. h \in Nat /\ n \in Nat /\ h + n = o.heard + o.news /\ 0 \in Version
  BY <1>2, <1>4, <1>5, PanelAssumption DEF Record, Version
<1>7. r = [o EXCEPT !.tools = 0, !.heard = h, !.news = n]
  BY <1>1, <1>5
<1>8. /\ r \in Record(asked, far) /\ r.heard = h /\ r.news = n
      /\ r.removed = o.removed /\ r.port = o.port /\ r.online = o.online /\ r.timer = o.timer /\ r.pending = o.pending
  BY <1>4, <1>6, <1>7 DEF Record
<1>9. Typed(r, TabOf(c)) /\ Quiet(r) /\ (c \in connections => Tried(r))
  BY <1>3, <1>6, <1>8 DEF Typed, Quiet, Tried
<1>10. Sound([conn EXCEPT ![c] = r], connections)
  BY <1>9, OneChanges DEF PanelInv
<1> QED BY <1>2, <1>10, SettleKeepsInv

LEMMA HearCloseKeepsInv ==
    ASSUME PanelInv, NEW c \in Conn, HearClose(c)
    PROVE  PanelInv'
<1>1. PICK r : r = Hangup(conn[c])
  OBVIOUS
<1>2. /\ Settle([conn EXCEPT ![c] = r], connections, Waiters(conn[c], c), FALSE, 0, FALSE)
      /\ UNCHANGED <<page, offered>> /\ slow' \in 0 .. MaxSlow
  BY <1>1 DEF HearClose, PanelInv, PagesTyped, pageVars
<1>3. Typed(conn[c], TabOf(c)) /\ Quiet(conn[c]) /\ (c \in connections => Tried(conn[c])) /\ offered[TabOf(c)] \in Nat
  BY OfferedTyped DEF PanelInv, Sound
<1>4. Typed(r, TabOf(c)) /\ Quiet(r) /\ (c \in connections => Tried(r))
  BY <1>1, <1>3, HangupTyped DEF Tried
<1>5. Sound([conn EXCEPT ![c] = r], connections)
  BY <1>4, OneChanges DEF PanelInv
<1> QED BY <1>2, <1>5, SettleKeepsInv

LEMMA TimerKeepsInv ==
    ASSUME PanelInv, NEW c \in Conn, TimerFires(c)
    PROVE  PanelInv'
<1>1. PICK o, idle, r :
        /\ o = conn[c] /\ idle = [o EXCEPT !.timer = FALSE]
        /\ r = IF idle.removed \/ idle.online THEN idle ELSE Send(idle, TabOf(c), "ping")
  OBVIOUS
<1>2. /\ conn' = [conn EXCEPT ![c] = r]
      /\ UNCHANGED <<page, offered, connections, routes, listing, shown>> /\ slow' \in 0 .. MaxSlow
  BY <1>1 DEF TimerFires, PanelInv, PagesTyped, pageVars
<1>3. Typed(o, TabOf(c)) /\ Quiet(o) /\ (c \in connections => Tried(o)) /\ offered[TabOf(c)] \in Nat
  BY <1>1, OfferedTyped DEF PanelInv, Sound
<1>4. PICK asked, far : o \in Record(asked, far)
  BY <1>3 DEF Typed
<1>5. /\ idle \in Record(asked, far) /\ idle.heard = o.heard /\ idle.news = o.news /\ ~idle.timer
      /\ idle.removed = o.removed /\ idle.port = o.port /\ idle.online = o.online /\ idle.pending = o.pending
  BY <1>1, <1>4 DEF Record
<1>6. Typed(idle, TabOf(c)) /\ Quiet(idle)
  BY <1>3, <1>5 DEF Typed, Quiet
<1>7. CASE idle.removed \/ idle.online
  <2>1. c \in connections => Tried(idle)
    BY <1>3, <1>5, <1>7 DEF Tried
  <2> QED BY <1>1, <1>2, <1>6, <1>7, <2>1, OneChangesAlone
<1>8. CASE ~(idle.removed \/ idle.online)
  <2>1. "ping" \in Request
    BY DEF Request
  <2>2. Typed(r, TabOf(c)) /\ Quiet(r) /\ Tried(r)
    BY <1>1, <1>3, <1>6, <1>8, <2>1, SendTyped
  <2> QED BY <1>2, <2>2, OneChangesAlone
<1> QED BY <1>7, <1>8

LEMMA PingKeepsInv ==
    ASSUME PanelInv, NEW c \in Conn, PingTimesOut(c)
    PROVE  PanelInv'
<1>1. PICK o, w, d, r :
        /\ o = conn[c] /\ w = [o EXCEPT !.pending = @ \ {"ping"}]
        /\ d = Dropped(w) /\ r = Scheduled(d)
  OBVIOUS
<1>2. /\ "ping" \in o.pending /\ conn' = [conn EXCEPT ![c] = r]
      /\ UNCHANGED <<page, offered, connections, routes, listing, shown>> /\ slow' \in 0 .. MaxSlow
  BY <1>1, PanelAssumption DEF PingTimesOut, PanelInv, PagesTyped
<1>3. Typed(o, TabOf(c)) /\ Quiet(o) /\ offered[TabOf(c)] \in Nat
  BY <1>1, OfferedTyped DEF PanelInv, Sound
<1>4. PICK asked, far : o \in Record(asked, far)
  BY <1>3 DEF Typed
<1>5. w \in Record(asked, far) /\ w.heard = o.heard /\ w.news = o.news /\ w.removed = o.removed
  BY <1>1, <1>4 DEF Record
<1>6. Typed(w, TabOf(c)) /\ ~w.removed
  BY <1>2, <1>3, <1>5 DEF Typed, Quiet
<1>7. Typed(d, TabOf(c)) /\ ~d.removed
  BY <1>1, <1>3, <1>6, DroppedTyped
<1>8. Typed(r, TabOf(c)) /\ Quiet(r) /\ Tried(r)
  BY <1>1, <1>7, ScheduledTyped DEF Quiet
<1> QED BY <1>2, <1>8, OneChangesAlone

LEMMA AnswerKeepsInv ==
    ASSUME PanelInv, NEW c \in Conn, NEW q \in Request, Answer(c, q)
    PROVE  PanelInv'
<1>1. PICK o, w, heard : o = conn[c] /\ w = Without(o, q) /\ heard = [w EXCEPT !.online = TRUE]
  OBVIOUS
<1>2. Typed(o, TabOf(c)) /\ Quiet(o) /\ (c \in connections => Tried(o)) /\ offered[TabOf(c)] \in Version
  BY <1>1, OfferedTyped DEF PanelInv, PagesTyped, Sound
<1>3. /\ Typed(w, TabOf(c)) /\ Quiet(w) /\ (c \in connections => Tried(w))
      /\ w.heard = o.heard /\ w.news = o.news
  BY <1>1, <1>2, WithoutTyped
<1>4. PICK asked, far : w \in Record(asked, far)
  BY <1>3 DEF Typed
<1>5. /\ heard \in Record(asked, far) /\ heard.heard = w.heard /\ heard.news = w.news /\ heard.online
      /\ heard.removed = w.removed /\ heard.port = w.port /\ heard.timer = w.timer /\ heard.pending = w.pending
  BY <1>1, <1>4 DEF Record
<1>6. ASSUME NEW n, n = heard \/ \E v \in o.heard .. o.heard + o.news : n = [heard EXCEPT !.tools = v]
      PROVE  Sound([conn EXCEPT ![c] = n], connections)
  <2>1. CASE n = heard
    <3>1. Typed(n, TabOf(c)) /\ Quiet(n) /\ (c \in connections => Tried(n))
      BY <1>3, <1>5, <2>1 DEF Typed, Quiet, Tried
    <3> QED BY <3>1, OneChanges DEF PanelInv
  <2>2. ASSUME NEW v \in o.heard .. o.heard + o.news, n = [heard EXCEPT !.tools = v]
        PROVE  Sound([conn EXCEPT ![c] = n], connections)
    <3>1. v \in Version
      BY <1>2, PanelAssumption DEF Typed, Record, Version
    <3>2. /\ n \in Record(asked, far) /\ n.heard = w.heard /\ n.news = w.news /\ n.online
          /\ n.removed = w.removed /\ n.port = w.port /\ n.timer = w.timer /\ n.pending = w.pending
      BY <1>5, <2>2, <3>1 DEF Record
    <3>3. Typed(n, TabOf(c)) /\ Quiet(n) /\ (c \in connections => Tried(n))
      BY <1>3, <3>2 DEF Typed, Quiet, Tried
    <3> QED BY <3>3, OneChanges DEF PanelInv
  <2> QED BY <1>6, <2>1, <2>2
<1>7. UNCHANGED <<page, offered>> /\ slow' \in 0 .. MaxSlow
  BY DEF Answer, PanelInv, PagesTyped, pageVars
<1>8. PICK n, gone, refresh :
        /\ n = heard \/ \E v \in o.heard .. o.heard + o.news : n = [heard EXCEPT !.tools = v]
        /\ Settle([conn EXCEPT ![c] = n], connections, gone, refresh, 0, FALSE)
  BY <1>1 DEF Answer
<1> QED BY <1>6, <1>7, <1>8, SettleKeepsInv

LEMMA TimeoutKeepsInv ==
    ASSUME PanelInv, NEW c \in Conn, NEW q \in Request, RequestTimesOut(c, q)
    PROVE  PanelInv'
<1>1. PICK r : r = Without(conn[c], q)
  OBVIOUS
<1>2. /\ Settle([conn EXCEPT ![c] = r], connections, {q} \X {c}, FALSE, 0, FALSE)
      /\ UNCHANGED <<page, offered>>
  BY <1>1 DEF RequestTimesOut
<1>3. slow' \in 0 .. MaxSlow
  <2>1. slow' = IF Late(c, q) THEN slow + 1 ELSE slow
    BY DEF RequestTimesOut
  <2> QED BY <2>1, PanelAssumption DEF Late, PanelInv, PagesTyped
<1>4. Typed(conn[c], TabOf(c)) /\ Quiet(conn[c]) /\ (c \in connections => Tried(conn[c]))
  BY DEF PanelInv, Sound
<1>5. Typed(r, TabOf(c)) /\ Quiet(r) /\ (c \in connections => Tried(r))
  BY <1>1, <1>4, WithoutTyped
<1>6. Sound([conn EXCEPT ![c] = r], connections)
  BY <1>5, OneChanges DEF PanelInv
<1> QED BY <1>2, <1>3, <1>6, SettleKeepsInv

\* The page of a tab does something, and no connection falls behind what it offers.
LEMMA PageKeepsInv ==
    ASSUME PanelInv, NEW t \in Restless, Leave(t) \/ Arrive(t) \/ ChangeTools(t)
    PROVE  PanelInv'
<1>1. /\ UNCHANGED <<slow, connections, routes, listing, shown>> /\ t \in Tab
      /\ page' \in [Tab -> {"none", "up", "failed"}]
  BY PanelAssumption DEF PanelInv, PagesTyped, Leave, Arrive, ChangeTools, panelVars
<1>2. /\ offered' \in [Tab -> Version]
      /\ \A u \in Tab : offered'[u] >= offered[u]
  <2>1. CASE Leave(t)
    BY <2>1, PanelAssumption DEF PanelInv, PagesTyped, Leave, Version
  <2>2. CASE Arrive(t) \/ ChangeTools(t)
    <3>1. offered[t] <= MaxChanges /\ offered' = [offered EXCEPT ![t] = @ + 1]
      BY <2>2 DEF Arrive, ChangeTools, MoreChanges
    <3> QED BY <1>1, <3>1, PanelAssumption DEF PanelInv, PagesTyped, Version
  <2> QED BY <2>1, <2>2
<1>3. ASSUME NEW c \in Conn
      PROVE  Typed(conn[c], TabOf(c))' /\ Quiet(conn[c])' /\ (c \in connections => Tried(conn[c])')
  <2>1. PICK o, r : o = conn[c] /\ r = conn'[c]
    OBVIOUS
  <2>2. Typed(o, TabOf(c)) /\ Quiet(o) /\ (c \in connections => Tried(o)) /\ TabOf(c) \in Tab
    BY <2>1, OfferedTyped DEF PanelInv, Sound
  <2>3. PICK asked, far : o \in Record(asked, far)
    BY <2>2 DEF Typed
  <2>4. offered[TabOf(c)] \in Nat /\ offered'[TabOf(c)] \in Nat /\ offered'[TabOf(c)] >= offered[TabOf(c)]
    BY <1>2, <2>2, PanelAssumption DEF PanelInv, PagesTyped, Version
  <2>5. CASE r = o
    <3>1. o.heard + o.news <= offered'[TabOf(c)]
      BY <2>2, <2>3, <2>4 DEF Typed, Record
    <3> QED BY <2>1, <2>2, <2>3, <2>5, <3>1 DEF Typed, Record, Quiet, Tried
  <2>6. CASE r = [o EXCEPT !.closing = TRUE]
    <3>1. /\ r \in Record(asked, far) /\ r.heard = o.heard /\ r.news = o.news /\ r.online = o.online
          /\ r.removed = o.removed /\ r.port = o.port /\ r.timer = o.timer /\ r.pending = o.pending
      BY <2>3, <2>6 DEF Record
    <3>2. r.heard + r.news <= offered'[TabOf(c)]
      BY <2>2, <2>3, <2>4, <3>1 DEF Typed, Record
    <3> QED BY <2>1, <2>2, <3>1, <3>2 DEF Typed, Record, Quiet, Tried
  <2>7. CASE r = [o EXCEPT !.news = @ + 1] /\ offered'[TabOf(c)] = offered[TabOf(c)] + 1
    <3>1. PICK n : n = o.news + 1
      OBVIOUS
    <3>2. n \in Nat /\ r = [o EXCEPT !.news = n]
      BY <2>3, <2>7, <3>1 DEF Record
    <3>3. /\ r \in Record(asked, far) /\ r.heard = o.heard /\ r.news = n /\ r.online = o.online
          /\ r.removed = o.removed /\ r.port = o.port /\ r.timer = o.timer /\ r.pending = o.pending
      BY <2>3, <3>2 DEF Record
    <3>4. r.heard + r.news <= offered'[TabOf(c)]
      BY <2>2, <2>3, <2>4, <2>7, <3>1, <3>3 DEF Typed, Record
    <3> QED BY <2>1, <2>2, <3>3, <3>4 DEF Typed, Record, Quiet, Tried
  <2>8. \/ r = o
        \/ r = [o EXCEPT !.closing = TRUE]
        \/ r = [o EXCEPT !.news = @ + 1] /\ offered'[TabOf(c)] = offered[TabOf(c)] + 1
    <3>1. CASE Leave(t)
      BY <2>1, <3>1 DEF Leave
    <3>2. CASE Arrive(t)
      BY <2>1, <3>2 DEF Arrive, panelVars
    <3>3. CASE ChangeTools(t)
      <4>1. r = IF Reaches(t, c) THEN [o EXCEPT !.news = @ + 1] ELSE o
        BY <2>1, <3>3 DEF ChangeTools
      <4>2. Reaches(t, c) => offered'[TabOf(c)] = offered[TabOf(c)] + 1
        BY <2>2, <3>3 DEF ChangeTools, Reaches, PanelInv, PagesTyped
      <4> QED BY <4>1, <4>2
    <3> QED BY <3>1, <3>2, <3>3
  <2> QED BY <2>5, <2>6, <2>7, <2>8
<1>4. conn' = [c \in Conn |-> conn'[c]] /\ connections' \subseteq Conn
  BY <1>1 DEF Leave, Arrive, ChangeTools, PanelInv, Sound, panelVars
<1>5. Sound(conn, connections)'
  BY <1>1, <1>3, <1>4 DEF Sound
<1>6. PagesTyped' /\ Leads(routes, connections)' /\ Heeds(listing)' /\ shown' \in [Tab -> Version]
  BY <1>1, <1>2 DEF PanelInv, PagesTyped, Leads, Heeds
<1> QED BY <1>5, <1>6 DEF PanelInv

LEMMA InitHasInv == Init => PanelInv
<1> SUFFICES ASSUME Init PROVE PanelInv
  OBVIOUS
<1>1. PagesTyped /\ shown \in [Tab -> Version]
  BY PanelAssumption DEF Init, PagesTyped, Version
<1>2. Sound(conn, connections)
  <2>1. \A c \in Conn : conn[c] = Unused /\ Typed(Unused, TabOf(c)) /\ Quiet(Unused)
    BY <1>1, OfferedTyped, UnusedTyped DEF Init
  <2> QED BY <2>1 DEF Init, Sound
<1>3. Leads(routes, connections) /\ Heeds(listing)
  BY PanelAssumption DEF Init, Leads, Heeds, NoRoute, NotAsked, Version
<1> QED BY <1>1, <1>2, <1>3 DEF PanelInv

------------------------------------------------------------------------------
\* The invariant of the panel's client holds whatever the user selects, the pages
\* do and the ports report, in any order.
THEOREM PanelInvariant == Spec => []PanelInv
<1>1. PanelInv /\ [Next]_vars => PanelInv'
  <2> SUFFICES ASSUME PanelInv, [Next]_vars PROVE PanelInv'
    OBVIOUS
  <2>1. CASE Panel
    BY <2>1, SelectKeepsInv, UnmountKeepsInv, GetToolsKeepsInv, CallKeepsInv, HearChangeKeepsInv,
       HearCloseKeepsInv, TimerKeepsInv, PingKeepsInv, AnswerKeepsInv, TimeoutKeepsInv DEF Panel
  <2>2. CASE Pages
    BY <2>2, PageKeepsInv DEF Pages
  <2>3. CASE UNCHANGED vars
    BY <2>3 DEF PanelInv, PagesTyped, Sound, Typed, Record, Leads, Heeds, vars, pageVars, panelVars
  <2> QED BY <2>1, <2>2, <2>3 DEF Next
<1> QED BY <1>1, InitHasInv, PTL DEF Spec

\* Whatever listings are under way when the selection changes, an exposed name leads
\* to a tab that is selected now (setTargetTabs, rebuildRoutes).
THEOREM RoutesAreCurrent == Spec => []RoutesLeadToTargets
<1>1. PanelInv => RoutesLeadToTargets
  BY DEF PanelInv, Leads, RoutesLeadToTargets
<1> QED BY <1>1, PanelInvariant, PTL

\* A removed connection never opens its tab again, and a selected tab without a port
\* is tried again (disposeConnection, scheduleReconnect, verifyConnection).
THEOREM OnlyTargetsTry == Spec => []OnlyTargetsRetry
<1>1. PanelInv => OnlyTargetsRetry
  <2> SUFFICES ASSUME PanelInv PROVE OnlyTargetsRetry
    OBVIOUS
  <2>1. \A c \in Conn : conn[c].tools \in Version /\ conn[c].pending \subseteq Request
    BY DEF PanelInv, Sound, Typed, Record
  <2>2. TypeOK
    BY <2>1 DEF PanelInv, PagesTyped, Sound, Leads, Heeds, TypeOK
  <2>3. RemovedIsQuiet /\ OfflineIsRetried
    BY DEF PanelInv, Sound, Quiet, Tried, RemovedIsQuiet, OfflineIsRetried
  <2> QED BY <2>2, <2>3 DEF OnlyTargetsRetry
<1> QED BY <1>1, PanelInvariant, PTL
==============================================================================
