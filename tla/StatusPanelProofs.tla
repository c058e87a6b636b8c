-------------------------- MODULE StatusPanelProofs --------------------------
(***************************************************************************)
(* Theorems about the status port, for every set of tabs, every length of  *)
(* the log and all bounds.  The three properties of the panel are          *)
(* inductive with the types; what they rest on is how a run of messages is *)
(* merged: one after the other, however they are divided.                  *)
(***************************************************************************)
EXTENDS StatusPanel, FiniteSetTheorems, SequenceTheorems, WellFoundedInduction, TLAPS

\* A set of numbers that is not empty has a least one, and one with 0 and with the
\* successor of each of its members is the whole of Nat.
LEMMA LeastOf ==
    ASSUME NEW S \in SUBSET Nat, S # {}
    PROVE  \E n \in S : \A m \in S : n <= m
<1>1. PICK n \in S : \A m \in S : <<m, n>> \notin OpToRel(<, Nat)
  BY NatLessThanWellFounded, WFMin
<1>2. \A m \in S : m < n => <<m, n>> \in OpToRel(<, Nat)
  BY DEF OpToRel
<1>3. \A m \in S : ~ (m < n)
  BY <1>1, <1>2, Zenon
<1> QED BY <1>3

LEMMA Induct ==
    ASSUME NEW S \in SUBSET Nat, 0 \in S, \A n \in S : n + 1 \in S
    PROVE  S = Nat
<1> SUFFICES ASSUME Nat \ S # {} PROVE FALSE
  OBVIOUS
<1>1. PICK n \in Nat \ S : \A m \in Nat \ S : n <= m
  BY LeastOf
<1>2. n # 0 /\ n - 1 \in Nat /\ n - 1 \in S
  BY <1>1
<1> QED BY <1>2

\* The last of a set of places in a sequence.
LEMMA LastPlace ==
    ASSUME NEW n \in Nat, NEW S \in SUBSET (1 .. n), S # {}
    PROVE  Max(S) \in S /\ \A i \in S : i <= Max(S)
<1> DEFINE fromEnd == {n - i : i \in S}
<1>1. fromEnd \in SUBSET Nat /\ fromEnd # {}
  <2>1. \A i \in S : n - i \in Nat
    OBVIOUS
  <2> QED BY <2>1
<1>2. PICK d \in fromEnd : \A e \in fromEnd : d <= e
  <2> HIDE DEF fromEnd
  <2> QED BY <1>1, LeastOf
<1>3. PICK m \in S : d = n - m
  OBVIOUS
<1>4. ASSUME NEW i \in S PROVE m >= i
  <2>1. n - i \in fromEnd
    OBVIOUS
  <2>2. n - m <= n - i
    BY <1>2, <1>3, <2>1
  <2>3. i \in 1 .. n /\ m \in 1 .. n
    OBVIOUS
  <2> QED BY <2>2, <2>3
<1>5. \E x \in S : \A y \in S : x >= y
  BY <1>4
<1>6. Max(S) \in S /\ \A i \in S : Max(S) >= i
  BY <1>5 DEF Max
<1> QED BY <1>6

------------------------------------------------------------------------------
(* Merging messages into a copy of the log.                                *)

\* The copies h[0], h[1], ... that buffer becomes, one message after the other.
Stages(h, buffer, messages, n) ==
    h[0] = buffer /\ \A k \in 1 .. n : h[k] = After(h[k - 1], messages[k])

LEMMA StagesExist ==
    ASSUME NEW buffer, NEW messages, NEW n \in Nat
    PROVE  \E h : Stages(h, buffer, messages, n)
<1> DEFINE Solved(k) == \E h : Stages(h, buffer, messages, k)
           solved    == {k \in Nat : Solved(k)}
<1>1. 0 \in solved
  <2> DEFINE h == [k \in {0} |-> buffer]
  <2>1. Stages(h, buffer, messages, 0)
    BY DEF Stages
  <2> QED BY <2>1
<1>2. ASSUME NEW k \in solved PROVE k + 1 \in solved
  <2>1. k \in Nat
    OBVIOUS
  <2>2. PICK h : Stages(h, buffer, messages, k)
    OBVIOUS
  <2> DEFINE g == [i \in 0 .. k + 1 |-> IF i <= k THEN h[i] ELSE After(h[k], messages[i])]
  <2>3. ASSUME NEW i \in 1 .. k + 1 PROVE g[i] = After(g[i - 1], messages[i])
    <3>1. CASE i <= k
      BY <2>1, <2>2, <3>1 DEF Stages
    <3>2. CASE i = k + 1
      BY <2>1, <3>2
    <3> QED BY <2>1, <3>1, <3>2
  <2>4. g[0] = buffer
    BY <2>1, <2>2 DEF Stages
  <2> HIDE DEF g
  <2>5. Stages(g, buffer, messages, k + 1)
    BY <2>3, <2>4 DEF Stages
  <2>6. Solved(k + 1)
    BY <2>5
  <2> HIDE DEF Solved
  <2> QED BY <2>1, <2>6
<1>3. solved \in SUBSET Nat
  OBVIOUS
<1> HIDE DEF solved
<1>4. solved = Nat
  BY <1>1, <1>2, <1>3, Induct
<1> QED BY <1>4 DEF solved

\* Any two courses of the same messages are the same.
LEMMA StagesAgree ==
    ASSUME NEW buffer, NEW messages, NEW n \in Nat, NEW g, NEW h,
           Stages(g, buffer, messages, n), Stages(h, buffer, messages, n)
    PROVE  \A k \in 0 .. n : g[k] = h[k]
<1> DEFINE alike == {k \in Nat : k <= n => g[k] = h[k]}
<1>1. 0 \in alike
  BY DEF Stages
<1>2. ASSUME NEW k \in alike PROVE k + 1 \in alike
  BY DEF Stages
<1>3. alike \in SUBSET Nat
  OBVIOUS
<1> HIDE DEF alike
<1>4. alike = Nat
  BY <1>1, <1>2, <1>3, Induct
<1> QED BY <1>4 DEF alike

\* What Merged computes is where such a course ends.
LEMMA MergedEnds ==
    ASSUME NEW buffer, NEW messages, Len(messages) \in Nat, NEW h,
           Stages(h, buffer, messages, Len(messages))
    PROVE  Merged(buffer, messages) = h[Len(messages)]
<1> DEFINE n == Len(messages)
           Is(f) == f = [k \in 0 .. n |-> IF k = 0 THEN buffer ELSE After(f[k - 1], messages[k])]
           f == [k \in 0 .. n |-> h[k]]
           after == CHOOSE g : Is(g)
<1>1. Is(f)
  <2>1. ASSUME NEW k \in 0 .. n
        PROVE  h[k] = IF k = 0 THEN buffer ELSE After(f[k - 1], messages[k])
    BY DEF Stages
  <2> QED BY <2>1
<1>2. Is(after)
  <2> HIDE DEF Is, f
  <2> QED BY <1>1
<1>3. Stages(after, buffer, messages, n)
  <2> HIDE DEF after
  <2>1. after[0] = buffer
    BY <1>2
  <2>2. ASSUME NEW k \in 1 .. n PROVE after[k] = After(after[k - 1], messages[k])
    <3>1. k \in 0 .. n /\ k # 0
      OBVIOUS
    <3> QED BY <1>2, <3>1
  <2> QED BY <2>1, <2>2 DEF Stages
<1>4. after[n] = h[n]
  <2> HIDE DEF after
  <2> QED BY <1>3, StagesAgree
<1>5. Merged(buffer, messages) = after[n]
  BY DEF Merged
<1> QED BY <1>4, <1>5

\* Two runs of messages are merged one after the other.
LEMMA MergedInTwo ==
    ASSUME NEW buffer, NEW s \in Seq(Messages), NEW t \in Seq(Messages)
    PROVE  Merged(buffer, s \o t) = Merged(Merged(buffer, s), t)
<1> DEFINE m == Len(s)
           n == Len(t)
<1>1. /\ m \in Nat /\ n \in Nat /\ Len(s \o t) = m + n
      /\ \A i \in 1 .. m : (s \o t)[i] = s[i]
      /\ \A i \in m + 1 .. m + n : (s \o t)[i] = t[i - m]
  BY ConcatProperties, LenProperties
<1>2. PICK h : Stages(h, buffer, s, m)
  BY <1>1, StagesExist
<1>3. Merged(buffer, s) = h[m]
  BY <1>1, <1>2, MergedEnds
<1>4. PICK g : Stages(g, h[m], t, n)
  BY <1>1, StagesExist
<1>5. Merged(h[m], t) = g[n]
  BY <1>1, <1>4, MergedEnds
<1> DEFINE all == [i \in 0 .. m + n |-> IF i <= m THEN h[i] ELSE g[i - m]]
<1>6. Stages(all, buffer, s \o t, m + n)
  <2> HIDE DEF m, n
  <2>1. all[0] = buffer
    BY <1>1, <1>2 DEF Stages
  <2>2. ASSUME NEW i \in 1 .. m + n PROVE all[i] = After(all[i - 1], (s \o t)[i])
    <3>1. CASE i <= m
      BY <1>1, <1>2, <3>1 DEF Stages
    <3>2. CASE i = m + 1
      <4>1. all[i] = g[1] /\ all[i - 1] = h[m]
        BY <1>1, <3>2
      <4>2. g[1] = After(g[0], t[1]) /\ g[0] = h[m] /\ (s \o t)[i] = t[1]
        BY <1>1, <1>4, <3>2 DEF Stages
      <4> QED BY <4>1, <4>2
    <3>3. CASE i > m + 1
      <4> DEFINE j == i - m
      <4>1. j \in 1 .. n /\ j > 1 /\ j - 1 = (i - 1) - m /\ i - 1 \in 0 .. m + n /\ ~(i - 1 <= m)
        BY <1>1, <3>3
      <4>2. all[i] = g[j] /\ all[i - 1] = g[j - 1] /\ (s \o t)[i] = t[j]
        BY <1>1, <3>3, <4>1
      <4> QED BY <1>4, <4>1, <4>2 DEF Stages
    <3> QED BY <1>1, <3>1, <3>2, <3>3
  <2> HIDE DEF all
  <2> QED BY <2>1, <2>2 DEF Stages
<1>7. Merged(buffer, s \o t) = all[m + n]
  <2> HIDE DEF all, m, n
  <2>1. Stages(all, buffer, s \o t, Len(s \o t)) /\ Len(s \o t) \in Nat
    BY <1>1, <1>6
  <2>2. Merged(buffer, s \o t) = all[Len(s \o t)]
    BY <2>1, MergedEnds
  <2> QED BY <1>1, <2>2
<1>8. all[m + n] = g[n]
  <2>1. CASE n = 0
    BY <1>1, <1>4, <2>1 DEF Stages
  <2>2. CASE n > 0
    BY <1>1, <2>2
  <2> QED BY <1>1, <2>1, <2>2
<1> QED BY <1>3, <1>5, <1>7, <1>8

LEMMA MergedNone == \A buffer : Merged(buffer, <<>>) = buffer
<1> SUFFICES ASSUME NEW buffer PROVE Merged(buffer, <<>>) = buffer
  OBVIOUS
<1>1. PICK h : Stages(h, buffer, <<>>, Len(<<>>))
  BY StagesExist
<1> QED BY <1>1, MergedEnds DEF Stages

LEMMA MergedOne ==
    ASSUME NEW buffer, NEW message
    PROVE  Merged(buffer, <<message>>) = After(buffer, message)
<1>1. PICK h : Stages(h, buffer, <<message>>, 1)
  BY StagesExist
<1>2. h[0] = buffer /\ h[1] = After(h[0], message)
  BY <1>1 DEF Stages
<1>3. Len(<<message>>) = 1
  OBVIOUS
<1>4. Merged(buffer, <<message>>) = h[1]
  BY <1>1, <1>3, MergedEnds
<1> QED BY <1>2, <1>4

\* The last message of all is merged last, and the first is merged first.
LEMMA MergedAppend ==
    ASSUME NEW buffer, NEW s \in Seq(Messages), NEW message \in Messages
    PROVE  Merged(buffer, Append(s, message)) = After(Merged(buffer, s), message)
<1>1. Append(s, message) = s \o <<message>> /\ <<message>> \in Seq(Messages)
  OBVIOUS
<1>2. Merged(buffer, s \o <<message>>) = Merged(Merged(buffer, s), <<message>>)
  BY <1>1, MergedInTwo
<1>3. Merged(Merged(buffer, s), <<message>>) = After(Merged(buffer, s), message)
  BY MergedOne
<1> QED BY <1>1, <1>2, <1>3

LEMMA MergedHead ==
    ASSUME NEW buffer, NEW s \in Seq(Messages), s # <<>>
    PROVE  Merged(buffer, s) = Merged(After(buffer, Head(s)), Tail(s))
<1>1. /\ s = <<Head(s)>> \o Tail(s)
      /\ <<Head(s)>> \in Seq(Messages) /\ Tail(s) \in Seq(Messages)
  OBVIOUS
<1>2. Merged(buffer, <<Head(s)>> \o Tail(s)) = Merged(Merged(buffer, <<Head(s)>>), Tail(s))
  BY <1>1, MergedInTwo
<1>3. Merged(buffer, <<Head(s)>>) = After(buffer, Head(s))
  BY MergedOne
<1> QED BY <1>1, <1>2, <1>3

------------------------------------------------------------------------------
(* Types.                                                                  *)

LEMMA ApplyTyped ==
    ASSUME NEW buffer \in Seq(Entries), NEW phase, NEW call \in Calls
    PROVE  ApplyEvent(buffer, phase, call) \in Seq(Entries)
<1> DEFINE longer == Append(buffer, [call |-> call, done |-> FALSE])
           first  == IF Len(longer) > Cap THEN Len(longer) - Cap + 1 ELSE 1
           hits   == {i \in DOMAIN buffer : buffer[i].call = call /\ ~buffer[i].done}
           last   == CHOOSE i \in hits : \A j \in hits : j <= i
<1>1. CASE phase = "started"
  <2>1. longer \in Seq(Entries) /\ Len(longer) \in Nat
    BY DEF Entries
  <2>2. first \in 1 .. Len(longer) + 1
    <3> HIDE DEF longer
    <3> QED BY <2>1, StatusAssumption
  <2>3. \A i \in first .. Len(longer) : longer[i] \in Entries
    <3> HIDE DEF longer
    <3> QED BY <2>1, <2>2
  <2>4. SubSeq(longer, first, Len(longer)) \in Seq(Entries)
    <3> HIDE DEF longer, first
    <3> QED BY <2>1, <2>2, <2>3, SubSeqProperties
  <2> QED BY <1>1, <2>4 DEF ApplyEvent
<1>2. CASE phase # "started"
  <2>1. [buffer EXCEPT ![last].done = TRUE] \in Seq(Entries)
    <3> HIDE DEF last
    <3> DEFINE changed == [buffer EXCEPT ![last].done = TRUE]
    <3>1. Len(buffer) \in Nat /\ buffer \in [1 .. Len(buffer) -> Entries]
      BY LenProperties
    <3>2. \A e \in Entries : [e EXCEPT !.done = TRUE] \in Entries
      BY DEF Entries
    <3>3. changed \in [1 .. Len(buffer) -> Entries]
      BY <3>1, <3>2
    <3> QED BY <3>1, <3>3
  <2> QED BY <1>2, <2>1 DEF ApplyEvent
<1> QED BY <1>1, <1>2

LEMMA AfterTyped ==
    ASSUME NEW buffer \in Seq(Entries), NEW message \in Messages
    PROVE  After(buffer, message) \in Seq(Entries)
<1>1. CASE message.type = "logs"
  BY <1>1 DEF After, Messages
<1>2. CASE message.type \in {"started", "finished"}
  <2>1. message.call \in Calls
    BY <1>2 DEF Messages
  <2> QED BY <1>2, <2>1, ApplyTyped DEF After
<1>3. CASE message.type \notin {"logs", "started", "finished"}
  BY <1>3 DEF After
<1> QED BY <1>1, <1>2, <1>3

LEMMA MergedTyped ==
    ASSUME NEW buffer \in Seq(Entries), NEW messages \in Seq(Messages)
    PROVE  Merged(buffer, messages) \in Seq(Entries)
<1> DEFINE n == Len(messages)
<1>1. n \in Nat
  OBVIOUS
<1>2. PICK h : Stages(h, buffer, messages, n)
  BY <1>1, StagesExist
<1> DEFINE typed == {k \in Nat : k <= n => h[k] \in Seq(Entries)}
<1>3. 0 \in typed
  BY <1>2 DEF Stages
<1>4. ASSUME NEW k \in typed PROVE k + 1 \in typed
  <2>1. ASSUME k + 1 <= n PROVE h[k + 1] \in Seq(Entries)
    <3>1. k \in Nat /\ k + 1 \in 1 .. n /\ (k + 1) - 1 = k
      BY <1>1, <2>1
    <3>2. h[k + 1] = After(h[k], messages[k + 1])
      BY <1>2, <3>1 DEF Stages
    <3>3. h[k] \in Seq(Entries) /\ messages[k + 1] \in Messages
      BY <1>1, <2>1, <3>1
    <3> QED BY <3>2, <3>3, AfterTyped
  <2> QED BY <2>1
<1>5. typed \in SUBSET Nat
  OBVIOUS
<1>6. n \in typed
  <2> HIDE DEF typed
  <2>1. typed = Nat
    BY <1>3, <1>4, <1>5, Induct
  <2> QED BY <1>1, <2>1
<1>7. h[n] \in Seq(Entries)
  BY <1>6
<1> QED BY <1>1, <1>2, <1>7, MergedEnds

\* What the worker sends, and what it does to down.
LEMMA SentTyped ==
    /\ \A tabs \in SUBSET Tabs : [type |-> "selection", tabs |-> tabs] \in Messages
    /\ \A buffer \in Seq(Entries) : [type |-> "logs", log |-> buffer] \in Messages
    /\ \A phase \in {"started", "finished"} : \A call \in Calls :
          [type |-> phase, call |-> call] \in Messages
    /\ [type |-> "closed"] \in Messages
  BY DEF Messages

LEMMA PushTyped ==
    ASSUME NEW message \in Messages, TypeOK, Push(message)
    PROVE  down' \in Seq(Messages)
  BY DEF TypeOK, Push

LEMMA EmitTyped ==
    ASSUME NEW tabs \in SUBSET Tabs, TypeOK, EmitSelection(tabs)
    PROVE  down' \in Seq(Messages)
  BY SentTyped, PushTyped DEF EmitSelection

\* The messages that end the calls a port to the page was for.
LEMMA EndsTyped ==
    ASSUME NEW n \in Nat, NEW ended \in [1 .. n -> Calls]
    PROVE  [i \in 1 .. n |-> [type |-> "finished", call |-> ended[i]]] \in Seq(Messages)
<1>1. \A i \in 1 .. n : [type |-> "finished", call |-> ended[i]] \in Messages
  BY SentTyped
<1> QED BY <1>1

LEMMA RunningFinite == TypeOK => IsFiniteSet(running) /\ Cardinality(running) \in Nat
<1>1. MaxCalls \in Nat /\ 1 \in Int
  BY StatusAssumption
<1>2. IsFiniteSet(1 .. MaxCalls)
  BY <1>1, FS_Interval
<1> QED BY <1>2, FS_Subset, FS_CardinalityType DEF TypeOK, Calls

LEMMA NothingTyped == <<>> \in Seq(Requests) /\ <<>> \in Seq(Entries) /\ <<>> \in Seq(Messages)
  OBVIOUS

LEMMA InitTyped == Init => TypeOK
<1> SUFFICES ASSUME Init PROVE TypeOK
  OBVIOUS
<1>1. /\ waiting \in Seq(Requests) /\ up \in Seq(Requests)
      /\ log \in Seq(Entries) /\ seen \in Seq(Entries) /\ down \in Seq(Messages)
  BY NothingTyped DEF Init
<1>2. counts \in [{"call", "event"} -> Nat] /\ stored \subseteq Tabs /\ active \in open
  BY DEF Init
<1> QED BY <1>1, <1>2 DEF Init, TypeOK

LEMMA WorkerTyped == TypeOK /\ WorkerWorks => TypeOK'
<1> SUFFICES ASSUME TypeOK, WorkerWorks PROVE TypeOK'
  OBVIOUS
<1> USE DEF browserVars, jobVars, selectionVars, logVars, panelVars, linkVars
<1>1. CASE WorkerStarts
  BY <1>1 DEF WorkerStarts, TypeOK
<1>2. CASE InitReadsSelection
  BY <1>2 DEF InitReadsSelection, TypeOK
<1>3. CASE InitAligns
  BY <1>3 DEF InitAligns, TypeOK
<1>4. CASE InitEnds
  <2> DEFINE sets == {i \in DOMAIN waiting : waiting[i].type = "set"}
  <2>1. Len(waiting) \in Nat /\ DOMAIN waiting = 1 .. Len(waiting)
    BY LenProperties DEF TypeOK
  <2>2. IsFiniteSet(DOMAIN waiting)
    <3>1. \A n \in Nat : IsFiniteSet(1 .. n)
      BY FS_Interval
    <3> QED BY <2>1, <3>1
  <2>3. Cardinality(sets) \in Nat /\ Cardinality(DOMAIN waiting \ sets) \in Nat
    BY <2>2, FS_Subset, FS_CardinalityType
  <2>4. selected' \in SUBSET Tabs
    <3>1. CASE sets = {}
      BY <1>4, <3>1 DEF InitEnds, TypeOK
    <3>2. CASE sets # {}
      <4>1. sets \in SUBSET (1 .. Len(waiting))
        BY <2>1
      <4> HIDE DEF sets
      <4>2. Max(sets) \in sets
        BY <2>1, <3>2, <4>1, LastPlace
      <4> USE DEF sets
      <4>3. selected' = waiting[Max(sets)].tabs
        BY <1>4, <3>2 DEF InitEnds
      <4>4. waiting[Max(sets)] \in Requests /\ waiting[Max(sets)].type = "set"
        BY <2>1, <4>2 DEF TypeOK
      <4> QED BY <4>3, <4>4 DEF Requests
    <3> QED BY <3>1, <3>2
  <2>5. down' \in Seq(Messages)
    BY <1>4, EmitTyped DEF InitEnds, TypeOK
  <2>6. waiting' \in Seq(Requests) /\ aligning' \in Nat /\ asking' \in Nat
    <3>1. aligning' = aligning + Cardinality(sets)
          /\ asking' = asking + Cardinality(DOMAIN waiting \ sets) /\ waiting' = <<>>
      BY <1>4 DEF InitEnds
    <3> QED BY <2>3, <3>1, NothingTyped DEF TypeOK
  <2> QED BY <1>4, <2>4, <2>5, <2>6 DEF InitEnds, TypeOK
<1>5. CASE AcceptPort
  <2>1. /\ [type |-> "selection", tabs |-> selected] \in Messages
        /\ [type |-> "logs", log |-> log] \in Messages
    BY SentTyped DEF TypeOK
  <2>2. down' \in Seq(Messages)
    BY <1>5, <2>1 DEF AcceptPort
  <2> QED BY <1>5, <2>2 DEF AcceptPort, TypeOK
<1>6. CASE ReceiveSet
  <2>1. up \in Seq(Requests) /\ up # <<>> /\ Head(up).type = "set"
    BY <1>6 DEF ReceiveSet, TypeOK
  <2>2. Head(up) \in Requests /\ Tail(up) \in Seq(Requests)
    BY <2>1
  <2>3. Head(up).tabs \subseteq Tabs
    BY <2>1, <2>2 DEF Requests
  <2>4. waiting' \in Seq(Requests) /\ selected' \subseteq Tabs /\ aligning' \in Nat
    <3>1. Append(waiting, Head(up)) \in Seq(Requests) /\ aligning + 1 \in Nat
      BY <2>2 DEF TypeOK
    <3> QED BY <1>6, <2>3, <3>1 DEF ReceiveSet, TypeOK
  <2> QED BY <1>6, <2>2, <2>4 DEF ReceiveSet, TypeOK
<1>7. CASE ReceiveReset
  <2>1. Head(up) \in Requests /\ Tail(up) \in Seq(Requests)
    BY <1>7 DEF ReceiveReset, TypeOK
  <2>2. waiting' \in Seq(Requests) /\ asking' \in Nat
    <3>1. Append(waiting, Head(up)) \in Seq(Requests) /\ asking + 1 \in Nat
      BY <2>1 DEF TypeOK
    <3> QED BY <1>7, <3>1 DEF ReceiveReset, TypeOK
  <2> QED BY <1>7, <2>1, <2>2 DEF ReceiveReset, TypeOK
<1>8. CASE ResetAnswered
  <2>1. active \in Tabs \cup {NoTab}
    BY DEF TypeOK
  <2> QED BY <1>8, <2>1 DEF ResetAnswered, TypeOK
<1>9. CASE ReconcileAligns
  BY <1>9 DEF ReconcileAligns, TypeOK
<1>10. CASE ReconcileEnds
  <2>1. down' \in Seq(Messages)
    BY <1>10, EmitTyped DEF ReconcileEnds, TypeOK
  <2> QED BY <1>10, <2>1 DEF ReconcileEnds, TypeOK
<1> QED BY <1>1, <1>2, <1>3, <1>4, <1>5, <1>6, <1>7, <1>8, <1>9, <1>10 DEF WorkerWorks

LEMMA CallsTyped ==
    TypeOK /\ (CallStarts \/ PagePortCloses \/ WorkerStops \/ \E call \in Calls : CallEnds(call))
        => TypeOK'
<1> USE DEF browserVars, jobVars, selectionVars, logVars, panelVars, linkVars
<1>1. ASSUME TypeOK, CallStarts PROVE TypeOK'
  <2> DEFINE call == counts["call"] + 1
  <2>1. call \in Calls /\ counts' \in [{"call", "event"} -> Nat]
    <3>1. counts["call"] \in Nat /\ counts["call"] < MaxCalls /\ MaxCalls \in Nat
      BY <1>1, StatusAssumption DEF CallStarts, Count, TypeOK
    <3>2. call \in Calls
      BY <3>1 DEF Calls
    <3> QED BY <1>1, <3>1, <3>2 DEF CallStarts, Count, TypeOK
  <2>2. log' \in Seq(Entries) /\ running' \subseteq Calls
    BY <1>1, <2>1, ApplyTyped DEF CallStarts, Record, TypeOK
  <2>3. down' \in Seq(Messages)
    BY <1>1, <2>1, SentTyped, PushTyped DEF CallStarts, Record
  <2> QED BY <1>1, <2>1, <2>2, <2>3 DEF CallStarts, TypeOK
<1>2. ASSUME TypeOK, NEW call \in Calls, CallEnds(call) PROVE TypeOK'
  <2>1. log' \in Seq(Entries) /\ running' \subseteq Calls
    BY <1>2, ApplyTyped DEF CallEnds, Settled, Record, TypeOK
  <2>2. down' \in Seq(Messages)
    BY <1>2, SentTyped, PushTyped DEF CallEnds, Record
  <2> QED BY <1>2, <2>1, <2>2 DEF CallEnds, TypeOK
<1>3. ASSUME TypeOK, PagePortCloses PROVE TypeOK'
  <2>1. Cardinality(running) \in Nat /\ running \subseteq Calls
    BY <1>3, RunningFinite DEF TypeOK
  <2>2. PICK ended \in [1 .. Cardinality(running) -> running] :
          LET ends == [i \in 1 .. Cardinality(running) |->
                         [type |-> "finished", call |-> ended[i]]]
          IN  /\ running' = {}
              /\ log' = Merged(log, ends)
              /\ down' = IF linked THEN down \o ends ELSE down
              /\ UNCHANGED <<browserVars, selectionVars, panelVars, linked, up, counts>>
    BY <1>3 DEF PagePortCloses
  <2> DEFINE ends == [i \in 1 .. Cardinality(running) |->
                        [type |-> "finished", call |-> ended[i]]]
  <2>3. ended \in [1 .. Cardinality(running) -> Calls]
    BY <2>1
  <2>4. ends \in Seq(Messages)
    BY <2>1, <2>3, EndsTyped
  <2> HIDE DEF ends
  <2>5. log' \in Seq(Entries) /\ down' \in Seq(Messages)
    <3>1. log' = Merged(log, ends) /\ down' = IF linked THEN down \o ends ELSE down
      BY <2>2 DEF ends
    <3> QED BY <1>3, <2>4, <3>1, MergedTyped DEF TypeOK
  <2> QED BY <1>3, <2>2, <2>5 DEF TypeOK
<1>4. ASSUME TypeOK, WorkerStops PROVE TypeOK'
  <2>1. down' \in Seq(Messages)
    <3>1. ASSUME NEW k \in 0 .. Len(down)
          PROVE  Append(SubSeq(down, 1, k), [type |-> "closed"]) \in Seq(Messages)
      <4>1. SubSeq(down, 1, k) \in Seq(Messages)
        BY <1>4, SubSeqProperties DEF TypeOK
      <4> QED BY <4>1, SentTyped
    <3> QED BY <1>4, <3>1 DEF WorkerStops, TypeOK
  <2>2. counts' \in [{"call", "event"} -> Nat]
    BY <1>4 DEF WorkerStops, Count, TypeOK
  <2>3. waiting' \in Seq(Requests) /\ up' \in Seq(Requests) /\ log' \in Seq(Entries)
    BY <1>4, NothingTyped DEF WorkerStops
  <2>4. /\ worker' \in {"down", "init", "aligning", "storing", "ready"} /\ selected' \subseteq Tabs
        /\ asking' \in Nat /\ aligning' \in Nat /\ writing' \in Nat
        /\ running' \subseteq Calls /\ linked' \in BOOLEAN
    BY <1>4 DEF WorkerStops
  <2>5. UNCHANGED <<browserVars, stored, panelVars>>
    BY <1>4 DEF WorkerStops
  <2>6. /\ open' \subseteq Tabs /\ active' \in open' \cup {NoTab} /\ stored' \subseteq Tabs
        /\ panel' \in BOOLEAN /\ port' \in BOOLEAN /\ timer' \in BOOLEAN
        /\ shown' \subseteq Tabs /\ seen' \in Seq(Entries) /\ terminated' \in BOOLEAN
    BY <1>4, <2>5 DEF TypeOK
  <2> QED BY <2>1, <2>2, <2>3, <2>4, <2>6 DEF TypeOK
<1> QED BY <1>1, <1>2, <1>3, <1>4

LEMMA DeliverTyped == TypeOK /\ Deliver => TypeOK'
<1> SUFFICES ASSUME TypeOK, Deliver PROVE TypeOK'
  OBVIOUS
<1> USE DEF browserVars, jobVars, selectionVars, logVars, panelVars, linkVars
<1>1. Head(down) \in Messages /\ Tail(down) \in Seq(Messages)
  BY DEF Deliver, TypeOK
<1>2. /\ down' = Tail(down)
      /\ UNCHANGED <<browserVars, selectionVars, logVars, panel, linked, up, counts>>
  BY DEF Deliver
<1>3. CASE ReceiveSelection(Head(down))
  <2>1. Head(down).tabs \subseteq Tabs
    BY <1>1, <1>3 DEF ReceiveSelection, Messages
  <2> QED BY <1>1, <1>2, <1>3, <2>1 DEF ReceiveSelection, TypeOK
<1>4. CASE ReceiveLogs(Head(down))
  <2>1. Head(down).log \in Seq(Entries)
    BY <1>1, <1>4 DEF ReceiveLogs, Messages
  <2> QED BY <1>1, <1>2, <1>4, <2>1 DEF ReceiveLogs, SeenBecomes, TypeOK
<1>5. CASE ReceiveEvent(Head(down))
  <2>1. Head(down).call \in Calls
    BY <1>1, <1>5 DEF ReceiveEvent, Messages
  <2>2. ApplyEvent(seen, Head(down).type, Head(down).call) \in Seq(Entries)
    BY <2>1, ApplyTyped DEF TypeOK
  <2> QED BY <1>1, <1>2, <1>5, <2>2 DEF ReceiveEvent, SeenBecomes, TypeOK
<1>6. CASE PortClosed(Head(down))
  BY <1>1, <1>2, <1>6 DEF PortClosed, TypeOK
<1> QED BY <1>3, <1>4, <1>5, <1>6 DEF Deliver

LEMMA UserTyped == TypeOK /\ (UserActs \/ ReconnectFires) => TypeOK'
<1> USE DEF browserVars, jobVars, selectionVars, logVars, panelVars, linkVars
<1>1. ASSUME TypeOK, NEW request \in Requests, SendRequest(request) PROVE TypeOK'
  BY <1>1 DEF SendRequest, TypeOK
<1>2. ASSUME TypeOK, PanelOpens PROVE TypeOK'
  <2>1. <<[type |-> "reset"]>> \in Seq(Requests)
    BY DEF Requests
  <2> QED BY <1>2, <2>1, NothingTyped DEF PanelOpens, TypeOK
<1>3. ASSUME TypeOK, PanelCloses PROVE TypeOK'
  BY <1>3, NothingTyped DEF PanelCloses, TypeOK
<1>4. ASSUME TypeOK, ResetClicked PROVE TypeOK'
  <2>1. [type |-> "reset"] \in Requests
    BY DEF Requests
  <2> QED BY <1>1, <1>4, <2>1 DEF ResetClicked
<1>5. ASSUME TypeOK, Terminate PROVE TypeOK'
  BY <1>5 DEF Terminate, TypeOK
<1>6. ASSUME TypeOK, NEW t \in Tabs, TabCloses(t) PROVE TypeOK'
  <2>1. down' \in Seq(Messages) /\ stored' \subseteq Tabs /\ selected' \subseteq Tabs
    <3>1. selected' \in SUBSET Tabs
      BY <1>6 DEF TabCloses, TypeOK
    <3> QED BY <1>6, <3>1, EmitTyped DEF TabCloses, TypeOK
  <2>2. open' \subseteq Tabs /\ active' \in open' \cup {NoTab}
    BY <1>6 DEF TabCloses, TypeOK
  <2>3. counts' \in [{"call", "event"} -> Nat]
    BY <1>6 DEF TabCloses, Count, TypeOK
  <2> QED BY <1>6, <2>1, <2>2, <2>3 DEF TabCloses, TypeOK
<1>7. ASSUME TypeOK, NEW t \in Tabs, ActiveMoves(t) PROVE TypeOK'
  <2>1. counts' \in [{"call", "event"} -> Nat]
    BY <1>7 DEF ActiveMoves, Count, TypeOK
  <2> QED BY <1>7, <2>1 DEF ActiveMoves, TypeOK
<1>8. ASSUME TypeOK, NEW t \in Tabs, ToggleTab(t) PROVE TypeOK'
  <2> DEFINE tabs == IF t \in shown THEN shown \ {t} ELSE shown \cup {t}
  <2>1. tabs \in SUBSET Tabs
    BY <1>8 DEF TypeOK
  <2>2. [type |-> "set", tabs |-> tabs] \in Requests
    BY <2>1 DEF Requests
  <2> QED BY <1>1, <1>8, <2>2 DEF ToggleTab
<1>9. ASSUME TypeOK, ReconnectFires PROVE TypeOK'
  BY <1>9, NothingTyped DEF ReconnectFires, TypeOK
<1> QED BY <1>2, <1>3, <1>4, <1>5, <1>6, <1>7, <1>8, <1>9 DEF UserActs

LEMMA StepTyped == TypeOK /\ [Next]_vars => TypeOK'
<1>1. ASSUME TypeOK, UNCHANGED vars PROVE TypeOK'
  BY <1>1 DEF vars, browserVars, selectionVars, logVars, panelVars, linkVars, TypeOK
<1> QED BY <1>1, WorkerTyped, CallsTyped, DeliverTyped, UserTyped DEF Next, PanelWorks

------------------------------------------------------------------------------
(* What the panel says of the calls.                                       *)

\* The number of the running calls differs when one copy has some and the other none.
LEMMA RunningCounted ==
    ASSUME NEW buffer \in Seq(Entries), RunningIn(buffer) # {}
    PROVE  Cardinality(RunningIn(buffer)) # Cardinality({})
<1>1. Len(buffer) \in Nat /\ DOMAIN buffer = 1 .. Len(buffer)
  BY LenProperties
<1>2. IsFiniteSet(RunningIn(buffer))
  <2>1. \A n \in Nat : IsFiniteSet(1 .. n)
    BY FS_Interval
  <2>2. RunningIn(buffer) \subseteq 1 .. Len(buffer)
    BY <1>1 DEF RunningIn
  <2> QED BY <1>1, <2>1, <2>2, FS_Subset
<1> QED BY <1>2, FS_EmptySet

LEMMA SeenTruthful ==
    ASSUME TypeOK, TerminatedMeansRunning, NEW buffer, SeenBecomes(buffer)
    PROVE  TerminatedMeansRunning'
<1>1. CASE RunningIn(buffer) # {}
  BY <1>1 DEF SeenBecomes, TerminatedMeansRunning, RunningIn
<1>2. CASE RunningIn(buffer) = {} /\ RunningIn(seen) = {}
  BY <1>2 DEF SeenBecomes, TerminatedMeansRunning
<1>3. CASE RunningIn(buffer) = {} /\ RunningIn(seen) # {}
  <2>1. Cardinality(RunningIn(seen)) # Cardinality(RunningIn(buffer))
    BY <1>3, RunningCounted DEF TypeOK
  <2> QED BY <1>3, <2>1 DEF SeenBecomes, TerminatedMeansRunning
<1> QED BY <1>1, <1>2, <1>3

LEMMA StepTruthful == TypeOK /\ TerminatedMeansRunning /\ [Next]_vars => TerminatedMeansRunning'
<1> SUFFICES ASSUME TypeOK, TerminatedMeansRunning, [Next]_vars PROVE TerminatedMeansRunning'
  OBVIOUS
<1> USE DEF panelVars, TerminatedMeansRunning
<1>1. CASE UNCHANGED <<seen, terminated>>
  BY <1>1 DEF RunningIn
<1>2. CASE terminated' = FALSE
  BY <1>2
<1>3. CASE Deliver
  BY <1>1, <1>3, SeenTruthful
  DEF Deliver, ReceiveSelection, ReceiveLogs, ReceiveEvent, PortClosed
<1>4. CASE Terminate
  BY <1>4 DEF Terminate, RunningIn
<1>5. CASE WorkerWorks
  BY <1>1, <1>5
  DEF WorkerWorks, WorkerStarts, InitReadsSelection, InitAligns, InitEnds, AcceptPort,
      ReceiveSet, ReceiveReset, ResetAnswered, ReconcileAligns, ReconcileEnds
<1>6. CASE CallStarts \/ PagePortCloses \/ WorkerStops \/ \E call \in Calls : CallEnds(call)
  BY <1>1, <1>6 DEF CallStarts, PagePortCloses, WorkerStops, CallEnds
<1>7. CASE PanelOpens \/ PanelCloses
  BY <1>2, <1>7 DEF PanelOpens, PanelCloses
<1>8. CASE ResetClicked \/ \E t \in Tabs : TabCloses(t) \/ ActiveMoves(t) \/ ToggleTab(t)
  BY <1>1, <1>8 DEF ResetClicked, TabCloses, ActiveMoves, ToggleTab, SendRequest
<1>9. CASE ReconnectFires
  BY <1>1, <1>9 DEF ReconnectFires
<1>10. CASE UNCHANGED vars
  BY <1>1, <1>10 DEF vars
<1> QED BY <1>3, <1>4, <1>5, <1>6, <1>7, <1>8, <1>9, <1>10 DEF Next, UserActs, PanelWorks

\* What the panel says of the calls is true of what it shows: the user's mark that
\* ended the waiting is taken back with the last of them (relay-status-store.ts:63).
THEOREM PanelTruthful == Spec => []PanelIsTruthful
<1>1. Init => PanelIsTruthful
  BY InitTyped DEF Init, PanelIsTruthful, TerminatedMeansRunning
<1>2. PanelIsTruthful /\ [Next]_vars => PanelIsTruthful'
  BY StepTyped, StepTruthful DEF PanelIsTruthful
<1> QED BY <1>1, <1>2, PTL DEF Spec

------------------------------------------------------------------------------
(* The selection the panel shows.                                          *)

\* The selection shown once the messages have come, when tabs is shown before them.
Upcoming(tabs, messages) ==
    LET pushed == {i \in DOMAIN messages : messages[i].type = "selection"}
    IN  IF pushed = {} THEN tabs ELSE messages[Max(pushed)].tabs

\* The last selection of the messages is at i, or there is none.
LastPush(i, messages) ==
    /\ i \in DOMAIN messages /\ messages[i].type = "selection"
    /\ \A j \in DOMAIN messages : messages[j].type = "selection" => j <= i

NoPush(messages) == \A i \in DOMAIN messages : messages[i].type # "selection"

LEMMA PushOrNone ==
    ASSUME NEW messages \in Seq(Messages)
    PROVE  NoPush(messages) \/ \E i \in DOMAIN messages : LastPush(i, messages)
<1> DEFINE pushed == {i \in DOMAIN messages : messages[i].type = "selection"}
<1>1. Len(messages) \in Nat /\ DOMAIN messages = 1 .. Len(messages)
  BY LenProperties
<1>2. CASE pushed = {}
  BY <1>2 DEF NoPush
<1>3. CASE pushed # {}
  <2>1. pushed \in SUBSET (1 .. Len(messages))
    BY <1>1
  <2> HIDE DEF pushed
  <2>2. Max(pushed) \in pushed /\ \A i \in pushed : i <= Max(pushed)
    BY <1>1, <1>3, <2>1, LastPlace
  <2> USE DEF pushed
  <2>3. LastPush(Max(pushed), messages)
    BY <2>2 DEF LastPush
  <2> QED BY <2>3 DEF LastPush
<1> QED BY <1>2, <1>3

LEMMA UpcomingIs ==
    ASSUME NEW tabs, NEW messages \in Seq(Messages)
    PROVE  /\ NoPush(messages) => Upcoming(tabs, messages) = tabs
           /\ \A i : LastPush(i, messages) => Upcoming(tabs, messages) = messages[i].tabs
<1> DEFINE pushed == {i \in DOMAIN messages : messages[i].type = "selection"}
<1>1. Len(messages) \in Nat /\ DOMAIN messages = 1 .. Len(messages)
  BY LenProperties
<1>2. ASSUME NoPush(messages) PROVE Upcoming(tabs, messages) = tabs
  <2>1. pushed = {}
    BY <1>2 DEF NoPush
  <2> QED BY <2>1 DEF Upcoming
<1>3. ASSUME NEW i, LastPush(i, messages) PROVE Upcoming(tabs, messages) = messages[i].tabs
  <2>1. i \in pushed /\ (\A j \in pushed : j <= i) /\ pushed \in SUBSET (1 .. Len(messages))
    BY <1>1, <1>3 DEF LastPush
  <2>2. Max(pushed) = i
    <3> HIDE DEF pushed
    <3>1. Max(pushed) \in pushed /\ i <= Max(pushed)
      BY <1>1, <2>1, LastPlace
    <3>2. Max(pushed) <= i /\ Max(pushed) \in 1 .. Len(messages) /\ i \in 1 .. Len(messages)
      BY <2>1, <3>1
    <3> QED BY <1>1, <3>1, <3>2
  <2> QED BY <2>1, <2>2 DEF Upcoming
<1> QED BY <1>2, <1>3

LEMMA UpcomingAppend ==
    ASSUME NEW tabs, NEW s \in Seq(Messages), NEW message \in Messages
    PROVE  Upcoming(tabs, Append(s, message)) =
             IF message.type = "selection" THEN message.tabs ELSE Upcoming(tabs, s)
<1> DEFINE t == Append(s, message)
           n == Len(s)
<1>1. /\ n \in Nat /\ DOMAIN s = 1 .. n /\ t \in Seq(Messages)
      /\ DOMAIN t = 1 .. n + 1 /\ t[n + 1] = message /\ \A i \in 1 .. n : t[i] = s[i]
  OBVIOUS
<1> HIDE DEF t, n
<1>2. CASE message.type = "selection"
  <2>1. LastPush(n + 1, t)
    BY <1>1, <1>2 DEF LastPush
  <2> QED BY <1>1, <1>2, <2>1, UpcomingIs DEF t
<1>3. CASE message.type # "selection"
  <2>1. CASE NoPush(s)
    <3>1. NoPush(t)
      BY <1>1, <1>3, <2>1 DEF NoPush
    <3> QED BY <1>1, <1>3, <2>1, <3>1, UpcomingIs DEF t
  <2>2. ASSUME NEW i \in DOMAIN s, LastPush(i, s)
        PROVE  Upcoming(tabs, t) = Upcoming(tabs, s)
    <3>1. LastPush(i, t) /\ t[i] = s[i]
      BY <1>1, <1>3, <2>2 DEF LastPush
    <3> QED BY <1>1, <2>2, <3>1, UpcomingIs
  <2> QED BY <1>3, <2>1, <2>2, PushOrNone DEF t
<1> QED BY <1>2, <1>3

LEMMA UpcomingConcat ==
    ASSUME NEW tabs, NEW s \in Seq(Messages), NEW t \in Seq(Messages), NoPush(t)
    PROVE  Upcoming(tabs, s \o t) = Upcoming(tabs, s)
<1> DEFINE all == s \o t
<1>1. /\ Len(s) \in Nat /\ DOMAIN s = 1 .. Len(s)
      /\ Len(t) \in Nat /\ DOMAIN t = 1 .. Len(t)
      /\ all \in Seq(Messages) /\ DOMAIN all = 1 .. Len(s) + Len(t)
      /\ \A i \in 1 .. Len(s) : all[i] = s[i]
      /\ \A i \in Len(s) + 1 .. Len(s) + Len(t) : all[i] = t[i - Len(s)]
  BY ConcatProperties, LenProperties
<1> HIDE DEF all
<1>2. \A i \in Len(s) + 1 .. Len(s) + Len(t) : all[i].type # "selection"
  <2>1. \A i \in Len(s) + 1 .. Len(s) + Len(t) : i - Len(s) \in DOMAIN t
    BY <1>1
  <2> QED BY <1>1, <2>1 DEF NoPush
<1>3. CASE NoPush(s)
  <2>1. NoPush(all)
    BY <1>1, <1>2, <1>3 DEF NoPush
  <2> QED BY <1>1, <1>3, <2>1, UpcomingIs DEF all
<1>4. ASSUME NEW i \in DOMAIN s, LastPush(i, s)
      PROVE  Upcoming(tabs, all) = Upcoming(tabs, s)
  <2>0. ASSUME NEW j \in DOMAIN all, all[j].type = "selection" PROVE j <= i
    <3>1. j \in 1 .. Len(s)
      BY <1>1, <1>2, <2>0
    <3>2. all[j] = s[j] /\ j \in DOMAIN s
      BY <1>1, <3>1
    <3> QED BY <1>4, <2>0, <3>2 DEF LastPush
  <2>1. LastPush(i, all) /\ all[i] = s[i]
    BY <1>1, <1>4, <2>0 DEF LastPush
  <2>2. Upcoming(tabs, all) = all[i].tabs
    BY <1>1, <2>1, UpcomingIs
  <2>3. Upcoming(tabs, s) = s[i].tabs
    BY <1>4, UpcomingIs
  <2> QED BY <2>1, <2>2, <2>3
<1> QED BY <1>3, <1>4, PushOrNone DEF all

LEMMA UpcomingHead ==
    ASSUME NEW tabs, NEW s \in Seq(Messages), s # <<>>
    PROVE  Upcoming(tabs, s) =
             Upcoming(IF Head(s).type = "selection" THEN Head(s).tabs ELSE tabs, Tail(s))
<1> DEFINE t == Tail(s)
           first == IF Head(s).type = "selection" THEN Head(s).tabs ELSE tabs
<1>1. /\ Len(s) \in Nat /\ Len(s) > 0 /\ DOMAIN s = 1 .. Len(s) /\ Head(s) = s[1]
      /\ t \in Seq(Messages) /\ DOMAIN t = 1 .. Len(s) - 1
      /\ \A i \in 1 .. Len(s) - 1 : t[i] = s[i + 1]
  OBVIOUS
<1>0. \A i \in 1 .. Len(s) : i = 1 \/ (i - 1 \in DOMAIN t /\ t[i - 1] = s[i])
  BY <1>1
<1> HIDE DEF t
<1>2. CASE NoPush(t) /\ Head(s).type = "selection"
  <2>1. LastPush(1, s)
    BY <1>0, <1>1, <1>2 DEF LastPush, NoPush
  <2>2. Upcoming(tabs, s) = s[1].tabs /\ Upcoming(first, t) = first
    BY <1>1, <1>2, <2>1, UpcomingIs
  <2> QED BY <1>1, <1>2, <2>2 DEF t
<1>3. CASE NoPush(t) /\ Head(s).type # "selection"
  <2>1. NoPush(s)
    BY <1>0, <1>1, <1>3 DEF NoPush
  <2> QED BY <1>1, <1>3, <2>1, UpcomingIs DEF t
<1>4. ASSUME NEW i \in DOMAIN t, LastPush(i, t)
      PROVE  Upcoming(tabs, s) = Upcoming(first, t)
  <2>1. i + 1 \in DOMAIN s /\ s[i + 1] = t[i] /\ s[i + 1].type = "selection"
    BY <1>1, <1>4 DEF LastPush
  <2>2. ASSUME NEW j \in DOMAIN s, s[j].type = "selection" PROVE j <= i + 1
    <3>1. CASE j = 1
      BY <1>1, <3>1
    <3>2. CASE j # 1
      <4>1. j \in 1 .. Len(s) /\ j - 1 \in DOMAIN t /\ t[j - 1] = s[j]
        BY <1>0, <1>1, <3>2
      <4>2. j - 1 <= i
        BY <1>4, <2>2, <4>1 DEF LastPush
      <4> QED BY <1>1, <4>1, <4>2
    <3> QED BY <3>1, <3>2
  <2>3. LastPush(i + 1, s)
    BY <2>1, <2>2 DEF LastPush
  <2>4. Upcoming(tabs, s) = s[i + 1].tabs
    BY <2>3, UpcomingIs
  <2>5. Upcoming(first, t) = t[i].tabs
    BY <1>1, <1>4, UpcomingIs
  <2> QED BY <2>1, <2>4, <2>5
<1> QED BY <1>1, <1>2, <1>3, <1>4, PushOrNone DEF t

LEMMA SelectionIsUpcoming ==
    SelectionIsShown <=>
      (linked /\ worker = "ready" /\ asking + aligning + writing = 0
         => selected = Upcoming(shown, down))
  BY DEF SelectionIsShown, Upcoming

\* A step that leaves the worker's selection and its work alone, and what is shown in
\* the end, keeps the property; so does one after which the selection is the last pushed.
LEMMA SelectionKept ==
    ASSUME SelectionIsShown, UNCHANGED <<linked, worker, selected, asking, aligning, writing>>,
           linked => Upcoming(shown', down') = Upcoming(shown, down)
    PROVE  SelectionIsShown'
<1>1. linked' /\ worker' = "ready" /\ asking' + aligning' + writing' = 0
        => selected' = Upcoming(shown', down')
  BY SelectionIsUpcoming
<1> QED BY <1>1 DEF SelectionIsShown, Upcoming

LEMMA SelectionPushed ==
    ASSUME linked' => selected' = Upcoming(shown', down')
    PROVE  SelectionIsShown'
  BY DEF SelectionIsShown, Upcoming

LEMMA EmitUpcoming ==
    ASSUME TypeOK, NEW tabs \in SUBSET Tabs, EmitSelection(tabs), linked, NEW before
    PROVE  Upcoming(before, down') = tabs
<1>1. [type |-> "selection", tabs |-> tabs] \in Messages /\ down \in Seq(Messages)
  BY SentTyped DEF TypeOK
<1>2. down' = Append(down, [type |-> "selection", tabs |-> tabs])
  BY DEF EmitSelection, Push
<1> QED BY <1>1, <1>2, UpcomingAppend

LEMMA RecordUpcoming ==
    ASSUME TypeOK, NEW phase \in {"started", "finished"}, NEW call \in Calls,
           Record(phase, call), linked
    PROVE  Upcoming(shown, down') = Upcoming(shown, down)
<1>1. [type |-> phase, call |-> call] \in Messages /\ down \in Seq(Messages)
  BY SentTyped DEF TypeOK
<1>2. down' = Append(down, [type |-> phase, call |-> call])
  BY DEF Record, Push
<1> QED BY <1>1, <1>2, UpcomingAppend

LEMMA WorkerShows == TypeOK /\ SelectionIsShown /\ WorkerWorks => SelectionIsShown'
<1> SUFFICES ASSUME TypeOK, SelectionIsShown, WorkerWorks PROVE SelectionIsShown'
  OBVIOUS
<1> USE DEF browserVars, jobVars, selectionVars, logVars, panelVars, linkVars
<1>0. asking \in Nat /\ aligning \in Nat /\ writing \in Nat
  BY DEF TypeOK
<1>1. CASE WorkerStarts \/ InitReadsSelection \/ InitAligns
  BY <1>1 DEF WorkerStarts, InitReadsSelection, InitAligns, SelectionIsShown
<1>2. CASE InitEnds
  <2> DEFINE sets == {i \in DOMAIN waiting : waiting[i].type = "set"}
  <2>1. CASE sets = {}
    <3>1. selected' = selected /\ shown' = shown /\ linked' = linked /\ EmitSelection(selected)
      BY <1>2, <2>1 DEF InitEnds
    <3>2. linked => Upcoming(shown', down') = selected
      BY <3>1, EmitUpcoming DEF TypeOK
    <3> QED BY <3>1, <3>2, SelectionPushed
  <2>2. CASE sets # {}
    <3>1. Len(waiting) \in Nat /\ DOMAIN waiting = 1 .. Len(waiting)
      BY LenProperties DEF TypeOK
    <3>2. IsFiniteSet(sets)
      <4>1. \A n \in Nat : IsFiniteSet(1 .. n)
        BY FS_Interval
      <4> QED BY <3>1, <4>1, FS_Subset
    <3>3. Cardinality(sets) \in Nat /\ Cardinality(sets) # 0
      <4> HIDE DEF sets
      <4> QED BY <2>2, <3>2, FS_CardinalityType, FS_EmptySet
    <3>4. aligning' = aligning + Cardinality(sets) /\ writing' = writing
          /\ asking' = asking + Cardinality(DOMAIN waiting \ sets)
      BY <1>2 DEF InitEnds
    <3>5. asking' \in Nat
      BY <1>2, StepTyped DEF Next, TypeOK
    <3> HIDE DEF sets
    <3>6. aligning' \in Nat /\ aligning' > 0 /\ writing' \in Nat
      BY <1>0, <3>3, <3>4
    <3>7. asking' + aligning' + writing' # 0
      <4>1. \A a, b, c \in Nat : b > 0 => a + b + c # 0
        OBVIOUS
      <4> QED BY <3>5, <3>6, <4>1
    <3> QED BY <3>7 DEF SelectionIsShown
  <2> QED BY <2>1, <2>2
<1>3. CASE AcceptPort
  <2> DEFINE first == [type |-> "selection", tabs |-> selected]
             last  == [type |-> "logs", log |-> log]
  <2>1. first \in Messages /\ last \in Messages
    BY SentTyped DEF TypeOK
  <2>2. down' = <<first, last>> /\ selected' = selected /\ shown' = shown
    BY <1>3 DEF AcceptPort
  <2>3. <<first, last>> \in Seq(Messages)
    BY <2>1
  <2>4. LastPush(1, <<first, last>>) /\ <<first, last>>[1].tabs = selected
    BY DEF LastPush
  <2>5. Upcoming(shown, <<first, last>>) = selected
    <3> HIDE DEF first, last
    <3> QED BY <2>3, <2>4, UpcomingIs
  <2> QED BY <2>2, <2>5, SelectionPushed
<1>4. CASE ReceiveSet
  <2>1. CASE worker = "ready"
    <3>1. aligning' = aligning + 1 /\ asking' = asking /\ writing' = writing
      BY <1>4, <2>1 DEF ReceiveSet
    <3>2. asking' + aligning' + writing' # 0
      BY <1>0, <3>1
    <3> QED BY <3>2 DEF SelectionIsShown
  <2>2. CASE worker # "ready"
    BY <1>4, <2>2 DEF ReceiveSet, SelectionIsShown
  <2> QED BY <2>1, <2>2
<1>5. CASE ReceiveReset
  <2>1. CASE worker = "ready"
    <3>1. asking' = asking + 1 /\ aligning' = aligning /\ writing' = writing
      BY <1>5, <2>1 DEF ReceiveReset
    <3>2. asking' + aligning' + writing' # 0
      BY <1>0, <3>1
    <3> QED BY <3>2 DEF SelectionIsShown
  <2>2. CASE worker # "ready"
    BY <1>5, <2>2 DEF ReceiveReset, SelectionIsShown
  <2> QED BY <2>1, <2>2
<1>6. CASE ResetAnswered
  <2>1. asking' = asking - 1 /\ asking > 0 /\ aligning' = aligning + 1 /\ writing' = writing
    BY <1>6 DEF ResetAnswered
  <2>2. asking' + aligning' + writing' # 0
    BY <1>0, <2>1
  <2> QED BY <2>2 DEF SelectionIsShown
<1>7. CASE ReconcileAligns
  <2>1. aligning' = aligning - 1 /\ aligning > 0 /\ writing' = writing + 1 /\ asking' = asking
    BY <1>7 DEF ReconcileAligns
  <2>2. asking' + aligning' + writing' # 0
    BY <1>0, <2>1
  <2> QED BY <2>2 DEF SelectionIsShown
<1>8. CASE ReconcileEnds
  <2>1. EmitSelection(selected) /\ selected' = selected /\ shown' = shown /\ linked' = linked
    BY <1>8 DEF ReconcileEnds
  <2>2. linked => Upcoming(shown', down') = selected
    BY <2>1, EmitUpcoming DEF TypeOK
  <2> QED BY <2>1, <2>2, SelectionPushed
<1> QED BY <1>1, <1>2, <1>3, <1>4, <1>5, <1>6, <1>7, <1>8 DEF WorkerWorks

\* The ends of the calls of a page, as one run of messages.
LEMMA PagePortEnds ==
    ASSUME TypeOK, PagePortCloses
    PROVE  \E ends \in Seq(Messages) :
              /\ NoPush(ends) /\ log' = Merged(log, ends)
              /\ down' = IF linked THEN down \o ends ELSE down
<1>1. Cardinality(running) \in Nat /\ running \subseteq Calls
  BY RunningFinite DEF TypeOK
<1>2. PICK ended \in [1 .. Cardinality(running) -> running] :
        LET ends == [i \in 1 .. Cardinality(running) |->
                       [type |-> "finished", call |-> ended[i]]]
        IN  /\ log' = Merged(log, ends)
            /\ down' = IF linked THEN down \o ends ELSE down
  BY DEF PagePortCloses
<1> DEFINE ends == [i \in 1 .. Cardinality(running) |-> [type |-> "finished", call |-> ended[i]]]
<1>3. ended \in [1 .. Cardinality(running) -> Calls]
  BY <1>1
<1>4. ends \in Seq(Messages)
  BY <1>1, <1>3, EndsTyped
<1>5. NoPush(ends)
  BY DEF NoPush
<1>6. log' = Merged(log, ends) /\ down' = IF linked THEN down \o ends ELSE down
  BY <1>2
<1> HIDE DEF ends
<1> QED BY <1>4, <1>5, <1>6

LEMMA StepShows == TypeOK /\ SelectionIsShown /\ [Next]_vars => SelectionIsShown'
<1> SUFFICES ASSUME TypeOK, SelectionIsShown, [Next]_vars PROVE SelectionIsShown'
  OBVIOUS
<1> USE DEF browserVars, jobVars, selectionVars, logVars, panelVars, linkVars
<1>1. CASE linked' = FALSE
  BY <1>1 DEF SelectionIsShown
<1>2. CASE WorkerStops \/ PanelOpens \/ PanelCloses \/ ReconnectFires
  BY <1>1, <1>2 DEF WorkerStops, PanelOpens, PanelCloses, ReconnectFires
<1>3. CASE CallStarts
  <2> DEFINE call == counts["call"] + 1
  <2>1. call \in Calls
    BY <1>3, StatusAssumption DEF CallStarts, Count, TypeOK, Calls
  <2>2. Record("started", call) /\ UNCHANGED <<selectionVars, panelVars, linked>>
    BY <1>3 DEF CallStarts
  <2> HIDE DEF call
  <2>3. linked => Upcoming(shown', down') = Upcoming(shown, down)
    BY <2>1, <2>2, RecordUpcoming
  <2> QED BY <2>2, <2>3, SelectionKept
<1>4. ASSUME NEW call \in Calls, CallEnds(call) PROVE SelectionIsShown'
  <2>1. Record("finished", call) /\ UNCHANGED <<selectionVars, panelVars, linked>>
    BY <1>4 DEF CallEnds
  <2>2. linked => Upcoming(shown', down') = Upcoming(shown, down)
    BY <2>1, RecordUpcoming
  <2> QED BY <2>1, <2>2, SelectionKept
<1>5. CASE PagePortCloses
  <2>1. PICK ends \in Seq(Messages) :
          NoPush(ends) /\ down' = IF linked THEN down \o ends ELSE down
    BY <1>5, PagePortEnds
  <2>2. UNCHANGED <<selectionVars, panelVars, linked>>
    BY <1>5 DEF PagePortCloses
  <2>3. linked => Upcoming(shown', down') = Upcoming(shown, down)
    BY <2>1, <2>2, UpcomingConcat DEF TypeOK
  <2> QED BY <2>2, <2>3, SelectionKept
<1>6. CASE Deliver
  <2>1. /\ down \in Seq(Messages) /\ down # <<>> /\ down' = Tail(down)
        /\ UNCHANGED <<selectionVars, linked>>
    BY <1>6 DEF Deliver, TypeOK
  <2>2. shown' = IF Head(down).type = "selection" THEN Head(down).tabs ELSE shown
    BY <1>6 DEF Deliver, ReceiveSelection, ReceiveLogs, ReceiveEvent, PortClosed
  <2>3. Upcoming(shown', down') = Upcoming(shown, down)
    BY <2>1, <2>2, UpcomingHead
  <2> QED BY <2>1, <2>3, SelectionKept
<1>7. ASSUME NEW t \in Tabs, TabCloses(t) PROVE SelectionIsShown'
  <2>1. CASE worker # "ready"
    BY <1>7, <2>1 DEF TabCloses, SelectionIsShown
  <2>2. CASE t \in selected
    <3>1. EmitSelection(selected') /\ shown' = shown /\ linked' = linked
      BY <1>7, <2>2 DEF TabCloses
    <3>2. selected' \in SUBSET Tabs
      BY <1>7 DEF TabCloses, TypeOK
    <3>3. linked => Upcoming(shown', down') = selected'
      BY <3>1, <3>2, EmitUpcoming
    <3> QED BY <3>1, <3>3, SelectionPushed
  <2>3. CASE worker = "ready" /\ t \notin selected
    <3>1. UNCHANGED <<linked, worker, selected, asking, aligning, writing, shown, down>>
      BY <1>7, <2>3 DEF TabCloses
    <3> QED BY <3>1, SelectionKept
  <2> QED BY <2>1, <2>2, <2>3
<1>8. CASE UNCHANGED <<linked, worker, selected, asking, aligning, writing, shown, down>>
  BY <1>8, SelectionKept
<1>9. CASE Terminate \/ ResetClicked \/ \E t \in Tabs : ActiveMoves(t) \/ ToggleTab(t)
  BY <1>8, <1>9 DEF Terminate, ResetClicked, ActiveMoves, ToggleTab, SendRequest
<1>10. CASE UNCHANGED vars
  BY <1>8, <1>10 DEF vars
<1> QED BY <1>2, <1>3, <1>4, <1>5, <1>6, <1>7, <1>9, <1>10, WorkerShows
        DEF Next, UserActs, PanelWorks

\* When the worker works on no request, the selection the panel shows or is about to
\* be shown is the worker's, closed tabs and restarts included
\* (tab-source-manager.ts:545, :953).
THEOREM SelectionShown == Spec => []SelectionIsShown
<1> DEFINE Inv == TypeOK /\ SelectionIsShown
<1>1. Init => Inv
  BY InitTyped DEF Init, SelectionIsShown
<1>2. Inv /\ [Next]_vars => Inv'
  BY StepTyped, StepShows
<1>3. Inv => SelectionIsShown
  OBVIOUS
<1> QED BY <1>1, <1>2, <1>3, PTL DEF Spec

------------------------------------------------------------------------------
(* The log.                                                                *)

LEMMA EmitMerges ==
    ASSUME TypeOK, NEW tabs \in SUBSET Tabs, EmitSelection(tabs), linked
    PROVE  Merged(seen, down') = Merged(seen, down)
<1>1. [type |-> "selection", tabs |-> tabs] \in Messages /\ down \in Seq(Messages)
  BY SentTyped DEF TypeOK
<1>2. down' = Append(down, [type |-> "selection", tabs |-> tabs])
  BY DEF EmitSelection, Push
<1>3. \A buffer : After(buffer, [type |-> "selection", tabs |-> tabs]) = buffer
  BY DEF After
<1> QED BY <1>1, <1>2, <1>3, MergedAppend

LEMMA RecordMerges ==
    ASSUME TypeOK, NEW phase \in {"started", "finished"}, NEW call \in Calls,
           Record(phase, call), linked, LogsAgree
    PROVE  Merged(seen, down') = log'
<1>1. [type |-> phase, call |-> call] \in Messages /\ down \in Seq(Messages)
  BY SentTyped DEF TypeOK
<1>2. down' = Append(down, [type |-> phase, call |-> call])
  BY DEF Record, Push
<1>3. \A buffer : After(buffer, [type |-> phase, call |-> call]) = ApplyEvent(buffer, phase, call)
  BY DEF After
<1> QED BY <1>1, <1>2, <1>3, MergedAppend DEF LogsAgree, Record

LEMMA StepAgrees == TypeOK /\ LogsAgree /\ [Next]_vars => LogsAgree'
<1> SUFFICES ASSUME TypeOK, LogsAgree, [Next]_vars PROVE LogsAgree'
  OBVIOUS
<1> USE DEF browserVars, jobVars, selectionVars, logVars, panelVars, linkVars
<1>1. CASE linked' = FALSE
  BY <1>1 DEF LogsAgree
<1>2. CASE WorkerStops \/ PanelOpens \/ PanelCloses \/ ReconnectFires
  BY <1>1, <1>2 DEF WorkerStops, PanelOpens, PanelCloses, ReconnectFires
<1>3. CASE UNCHANGED <<log, seen, linked, down>>
  BY <1>3 DEF LogsAgree
<1>4. ASSUME NEW tabs \in SUBSET Tabs, EmitSelection(tabs), UNCHANGED <<log, seen, linked>>
      PROVE  LogsAgree'
  BY <1>4, EmitMerges DEF LogsAgree
<1>5. CASE WorkerWorks
  <2>1. CASE InitEnds \/ ReconcileEnds
    <3>1. EmitSelection(selected) /\ UNCHANGED <<log, seen, linked>>
      BY <2>1 DEF InitEnds, ReconcileEnds
    <3> QED BY <1>4, <3>1 DEF TypeOK
  <2>2. CASE AcceptPort
    <3> DEFINE first == [type |-> "selection", tabs |-> selected]
               last  == [type |-> "logs", log |-> log]
    <3>1. first \in Messages /\ last \in Messages
      BY SentTyped DEF TypeOK
    <3>2. down' = Append(<<first>>, last) /\ log' = log /\ seen' = seen
      BY <2>2 DEF AcceptPort
    <3>3. <<first>> \in Seq(Messages)
      BY <3>1
    <3>4. \A buffer : After(buffer, last) = log
      BY DEF After
    <3> HIDE DEF first, last
    <3>5. Merged(seen, down') = log
      BY <3>1, <3>2, <3>3, <3>4, MergedAppend
    <3> QED BY <3>2, <3>5 DEF LogsAgree
  <2>3. CASE \/ WorkerStarts \/ InitReadsSelection \/ InitAligns \/ ReceiveSet \/ ReceiveReset
             \/ ResetAnswered \/ ReconcileAligns
    BY <1>3, <2>3
    DEF WorkerStarts, InitReadsSelection, InitAligns, ReceiveSet, ReceiveReset, ResetAnswered,
        ReconcileAligns
  <2> QED BY <1>5, <2>1, <2>2, <2>3 DEF WorkerWorks
<1>6. CASE CallStarts
  <2> DEFINE call == counts["call"] + 1
  <2>1. call \in Calls
    BY <1>6, StatusAssumption DEF CallStarts, Count, TypeOK, Calls
  <2>2. Record("started", call) /\ UNCHANGED <<seen, linked>>
    BY <1>6 DEF CallStarts
  <2> HIDE DEF call
  <2> QED BY <2>1, <2>2, RecordMerges DEF LogsAgree
<1>7. ASSUME NEW call \in Calls, CallEnds(call) PROVE LogsAgree'
  <2>1. Record("finished", call) /\ UNCHANGED <<seen, linked>>
    BY <1>7 DEF CallEnds
  <2> QED BY <2>1, RecordMerges DEF LogsAgree
<1>8. CASE PagePortCloses
  <2>1. PICK ends \in Seq(Messages) :
          log' = Merged(log, ends) /\ down' = IF linked THEN down \o ends ELSE down
    BY <1>8, PagePortEnds
  <2>2. UNCHANGED <<seen, linked>>
    BY <1>8 DEF PagePortCloses
  <2>3. down \in Seq(Messages)
    BY DEF TypeOK
  <2>4. Merged(seen, down \o ends) = Merged(Merged(seen, down), ends)
    BY <2>3, MergedInTwo
  <2> QED BY <2>1, <2>2, <2>4 DEF LogsAgree
<1>9. CASE Deliver
  <2>1. /\ down \in Seq(Messages) /\ down # <<>> /\ down' = Tail(down)
        /\ Head(down) \in Messages /\ UNCHANGED <<log, linked>>
    BY <1>9 DEF Deliver, TypeOK
  <2>2. seen' = After(seen, Head(down))
    BY <1>9 DEF Deliver, ReceiveSelection, ReceiveLogs, ReceiveEvent, PortClosed, SeenBecomes, After
  <2> QED BY <2>1, <2>2, MergedHead DEF LogsAgree
<1>10. ASSUME NEW t \in Tabs, TabCloses(t) PROVE LogsAgree'
  <2>1. CASE t \in selected
    <3>1. selected' \in SUBSET Tabs /\ EmitSelection(selected') /\ UNCHANGED <<log, seen, linked>>
      BY <1>10, <2>1 DEF TabCloses, TypeOK
    <3> QED BY <1>4, <3>1
  <2>2. CASE t \notin selected
    BY <1>3, <1>10, <2>2 DEF TabCloses
  <2> QED BY <2>1, <2>2
<1>11. CASE Terminate \/ ResetClicked \/ \E t \in Tabs : ActiveMoves(t) \/ ToggleTab(t)
  BY <1>3, <1>11 DEF Terminate, ResetClicked, ActiveMoves, ToggleTab, SendRequest
<1>12. CASE UNCHANGED vars
  BY <1>3, <1>12 DEF vars
<1> QED BY <1>2, <1>5, <1>6, <1>7, <1>8, <1>9, <1>10, <1>11, <1>12 DEF Next, UserActs, PanelWorks

\* With what is on its way delivered, the panel's copy of the log is the worker's,
\* whatever was trimmed from it or lost with a worker in between
\* (relay-status-protocol.ts:115, relay-status-client.ts:119).
THEOREM LogsNeverDrift == Spec => []LogsAgree
<1> DEFINE Inv == TypeOK /\ LogsAgree
<1>1. Init => Inv
  BY InitTyped DEF Init, LogsAgree
<1>2. Inv /\ [Next]_vars => Inv'
  BY StepTyped, StepAgrees
<1>3. Inv => LogsAgree
  OBVIOUS
<1> QED BY <1>1, <1>2, <1>3, PTL DEF Spec

=============================================================================
