--------------------------- MODULE AgentChatProofs ---------------------------
(***************************************************************************)
(* Theorems about the tool source of the remote agents, for every set of   *)
(* agents, every list of them and every number of callers, and about the   *)
(* chat, for every bound on its history, its rounds and its tool calls.    *)
(***************************************************************************)
EXTENDS AgentChat, FiniteSetTheorems, SequenceTheorems, WellFoundedInduction, TLAPS

------------------------------------------------------------------------------
(* The tool source: the serial guard, and that the tools are those of the  *)
(* list in force.  The lemmas about single actions are stated for the      *)
(* actions, so that the chat can cite them too.                            *)
\* A sync that waits for a card has the agent whose card it is.
CardsAreAwaited == \A s \in syncs : s.at = "card" => s.left # <<>>

SourceInv == SourceTypeOK /\ CardsAreAwaited

------------------------------------------------------------------------------
\* How many agents at the head of a list need no card is a number.
LEMMA ReadyCounted ==
    ASSUME NEW list \in Seq(A2aTool)
    PROVE  /\ Cardinality(Ready(list)) \in Nat
           /\ Ready(list) \subseteq DOMAIN list
<1>1. DOMAIN list = 1 .. Len(list)
  OBVIOUS
<1>2. IsFiniteSet(1 .. Len(list))
  BY FS_Interval
<1>3. Ready(list) \subseteq DOMAIN list
  BY DEF Ready
<1>4. IsFiniteSet(Ready(list))
  BY <1>1, <1>2, <1>3, FS_Subset
<1> QED BY <1>3, <1>4, FS_CardinalityType

\* Register keeps the types of what it writes, and a sync that goes on waits
\* for a card.
LEMMA RegisterTyped ==
    ASSUME SourceInv, NEW s \in syncs, NEW known \in SUBSET Entry,
           NEW left \in Seq(A2aTool), Register(s, known, left)
    PROVE  /\ entries' \subseteq Entry
           /\ syncs' \subseteq [ver : 0 .. MaxSaves, at : {"storage", "card"}, left : Seq(A2aTool)]
           /\ CardsAreAwaited'
<1> DEFINE ready == Ready(left)
           n     == Cardinality(ready)
           rest  == SubSeq(left, n + 1, Len(left))
           fresh == {[tool |-> left[i], ver |-> s.ver] : i \in ready}
<1>1. /\ entries' = {e \in known : \A f \in fresh : e.tool.id # f.tool.id} \union fresh
      /\ syncs' = (syncs \ {s}) \union
             (IF rest = <<>> THEN {} ELSE {[s EXCEPT !.at = "card", !.left = rest]})
  BY DEF Register
<1>2. n \in Nat /\ ready \subseteq DOMAIN left
  BY ReadyCounted
<1>3. s \in [ver : 0 .. MaxSaves, at : {"storage", "card"}, left : Seq(A2aTool)]
  BY DEF SourceInv, SourceTypeOK
<1> HIDE DEF n, ready
<1>4. fresh \subseteq Entry
  <2> SUFFICES ASSUME NEW i \in ready PROVE [tool |-> left[i], ver |-> s.ver] \in Entry
    OBVIOUS
  <2>1. left[i] \in A2aTool
    BY <1>2
  <2> QED BY <2>1, <1>3 DEF Entry
<1>5. rest \in Seq(A2aTool)
  BY <1>2
<1> HIDE DEF fresh, rest
<1>6. [s EXCEPT !.at = "card", !.left = rest]
        \in [ver : 0 .. MaxSaves, at : {"storage", "card"}, left : Seq(A2aTool)]
  BY <1>3, <1>5
<1>7. [s EXCEPT !.at = "card", !.left = rest].left = rest
  BY <1>3
<1>8. CardsAreAwaited'
  BY <1>1, <1>7 DEF SourceInv, CardsAreAwaited
<1> QED BY <1>1, <1>4, <1>6, <1>8 DEF SourceInv, SourceTypeOK

LEMMA SyncKeepsTypes ==
    ASSUME SourceInv, SyncStep
    PROVE  SourceInv'
<1> USE DEF SourceInv, SourceTypeOK
<1>1. ASSUME NEW list \in Lists, Save(list)
      PROVE  SourceInv'
  <2>1. list \in Seq(A2aTool)
    BY ListsAssumption
  <2>2. config.ver + 1 \in 0 .. MaxSaves
    BY <1>1, BoundsAssumption DEF Save
  <2>3. config' \in [ver : 0 .. MaxSaves, list : Lists \union {<<>>}]
    BY <1>1, <2>2 DEF Save
  <2>4. syncs' \subseteq [ver : 0 .. MaxSaves, at : {"storage", "card"}, left : Seq(A2aTool)]
    BY <1>1, <2>1, <2>2 DEF Save
  <2>5. CardsAreAwaited'
    BY <1>1 DEF Save, CardsAreAwaited
  <2> QED BY <1>1, <2>3, <2>4, <2>5 DEF Save
<1>2. ASSUME NEW s \in syncs, SetAgents(s)
      PROVE  SourceInv'
  <2>1. s.left \in Seq(A2aTool)
    OBVIOUS
  <2>2. Register(s, {}, s.left)
    BY <1>2 DEF SetAgents
  <2> QED BY <1>2, <2>1, <2>2, RegisterTyped DEF SetAgents
<1>3. ASSUME NEW s \in syncs, SyncFails(s)
      PROVE  SourceInv'
  BY <1>3 DEF SyncFails, CardsAreAwaited
<1>4. ASSUME NEW s \in syncs, NEW ok \in BOOLEAN, CardAnswers(s, ok)
      PROVE  SourceInv'
  <2> DEFINE tool == Head(s.left)
             known == IF ok THEN Without(tool.id) \union {[tool |-> tool, ver |-> s.ver]}
                            ELSE entries
  <2>1. s.left \in Seq(A2aTool) /\ s.left # <<>> /\ s.ver \in 0 .. MaxSaves
    BY <1>4 DEF CardAnswers, CardsAreAwaited
  <2>2. tool \in A2aTool /\ Tail(s.left) \in Seq(A2aTool)
    BY <2>1
  <2>3. known \in SUBSET Entry
    BY <2>1, <2>2 DEF Entry, Without
  <2>4. Register(s, known, Tail(s.left))
    BY <1>4 DEF CardAnswers
  <2> HIDE DEF known
  <2> QED BY <1>4, <2>2, <2>3, <2>4, RegisterTyped DEF CardAnswers
<1> QED BY <1>1, <1>2, <1>3, <1>4 DEF SyncStep

\* A call that goes on, ends, starts or is refused keeps the types.
LEMMA CallsKeepTypes ==
    ASSUME SourceInv, NEW c \in Caller,
           \/ Settles(c)
           \/ \E tool \in A2aTool : CallTool(c, tool)
    PROVE  SourceInv'
<1> USE DEF SourceInv, SourceTypeOK
<1>1. UNCHANGED <<config, syncs, entries, clean>>
  BY DEF Settles, SendAnswers, TaskPending, PollSettles, PollPending, DifyAnswers, DifyGoesIdle,
         CallTool, Refuse, Delegate, Finish
<1>2. calls' \in [Caller -> Calls] /\ inFlight' \subseteq Agent
  <2>1. Idle \in Calls
    BY BoundsAssumption DEF Idle, Calls
  <2>2. CASE Finish(c)
    BY <2>2, <2>1 DEF Finish
  <2>3. CASE TaskPending(c) /\ ~Finish(c)
    BY <2>3, BoundsAssumption DEF TaskPending, Calls
  <2>4. CASE PollPending(c) /\ ~Finish(c)
    BY <2>4, BoundsAssumption DEF PollPending, Calls
  <2>5. ASSUME NEW tool \in A2aTool, Refuse(c, tool)
        PROVE  calls' \in [Caller -> Calls] /\ inFlight' \subseteq Agent
    BY <2>5 DEF Refuse
  <2>6. ASSUME NEW tool \in A2aTool, Delegate(c, tool)
        PROVE  calls' \in [Caller -> Calls] /\ inFlight' \subseteq Agent
    BY <2>6, BoundsAssumption DEF Delegate, Calls, A2aTool
  <2> QED BY <2>2, <2>3, <2>4, <2>5, <2>6
          DEF Settles, SendAnswers, PollSettles, DifyAnswers, DifyGoesIdle, CallTool
<1> QED BY <1>1, <1>2 DEF CardsAreAwaited

\* The types of the source hold in every behaviour of it.
THEOREM SourceTypeCorrect == SourceSpec => []SourceTypeOK
<1>1. SourceInit => SourceInv
  BY BoundsAssumption DEF SourceInit, SourceInv, SourceTypeOK, CardsAreAwaited, Calls, Idle
<1>2. SourceInv /\ [SourceNext]_a2aVars => SourceInv'
  <2> SUFFICES ASSUME SourceInv, [SourceNext]_a2aVars PROVE SourceInv'
    OBVIOUS
  <2>1. CASE UNCHANGED a2aVars
    BY <2>1 DEF a2aVars, SourceInv, SourceTypeOK, CardsAreAwaited
  <2>2. CASE SourceNext
    BY <2>2, SyncKeepsTypes, CallsKeepTypes DEF SourceNext
  <2> QED BY <2>1, <2>2
<1> QED BY <1>1, <1>2, PTL DEF SourceSpec, SourceInv

------------------------------------------------------------------------------
\* The agents at work are those of the open calls, one call each, after every
\* step that starts, refuses, continues or ends a call.
LEMMA CallsKeepGuard ==
    ASSUME SourceInv, OneTaskPerAgent, NEW c \in Caller,
           \/ Settles(c)
           \/ \E tool \in A2aTool : CallTool(c, tool)
    PROVE  OneTaskPerAgent'
<1>1. calls \in [Caller -> Calls]
  BY DEF SourceInv, SourceTypeOK
<1>2. CASE Finish(c) /\ Open(c)
  <2>1. calls'[c] = Idle /\ \A d \in Caller \ {c} : calls'[d] = calls[d]
    BY <1>1, <1>2 DEF Finish
  <2>2. inFlight' = inFlight \ {calls[c].id}
    BY <1>2 DEF Finish
  <2> QED BY <1>2, <2>1, <2>2 DEF OneTaskPerAgent, Open, Idle
<1>3. CASE calls[c].at \in {"send", "poll"} /\ UNCHANGED inFlight
           /\ \/ calls' = [calls EXCEPT ![c].at = "poll", ![c].polls = 1]
              \/ calls' = [calls EXCEPT ![c].polls = @ + 1]
  <2>1. \A d \in Caller : (Open(d)' <=> Open(d)) /\ calls'[d].id = calls[d].id
    BY <1>1, <1>3 DEF Open, Calls
  <2> QED BY <1>3, <2>1 DEF OneTaskPerAgent
<1>4. ASSUME NEW tool \in A2aTool, Refuse(c, tool)
      PROVE  OneTaskPerAgent'
  BY <1>4 DEF Refuse, OneTaskPerAgent, Open
<1>5. ASSUME NEW tool \in A2aTool, Delegate(c, tool)
      PROVE  OneTaskPerAgent'
  <2>1. /\ calls'[c].id = tool.id /\ Open(c)'
        /\ \A d \in Caller \ {c} : calls'[d] = calls[d]
    BY <1>1, <1>5 DEF Delegate, Open, Idle
  <2>2. inFlight' = inFlight \union {tool.id} /\ tool.id \notin inFlight /\ ~Open(c)
    BY <1>5 DEF Delegate, Refusable
  <2> QED BY <2>1, <2>2 DEF OneTaskPerAgent, Open
<1> QED
  BY <1>2, <1>3, <1>4, <1>5
  DEF Settles, SendAnswers, TaskPending, PollSettles, PollPending, DifyAnswers, DifyGoesIdle,
      CallTool, Open

\* The serial guard: an agent is at work exactly while a call of it is open,
\* and it has one call at most, whoever makes it (inFlight of callTool).
THEOREM SerialGuard == SourceSpec => []OneTaskPerAgent
<1>1. SourceInit => OneTaskPerAgent
  BY DEF SourceInit, OneTaskPerAgent, Open, Idle
<1>2. SourceInv /\ OneTaskPerAgent /\ [SourceNext]_a2aVars => OneTaskPerAgent'
  <2> SUFFICES ASSUME SourceInv, OneTaskPerAgent, [SourceNext]_a2aVars
               PROVE  OneTaskPerAgent'
    OBVIOUS
  <2>1. CASE UNCHANGED <<calls, inFlight>>
    BY <2>1 DEF OneTaskPerAgent, Open
  <2>2. CASE SyncStep
    BY <2>1, <2>2 DEF SyncStep, Save, SetAgents, SyncFails, CardAnswers
  <2>3. CASE \E c \in Caller : Settles(c) \/ \E tool \in A2aTool : CallTool(c, tool)
    BY <2>3, CallsKeepGuard
  <2> QED BY <2>1, <2>2, <2>3 DEF SourceNext, a2aVars
<1>3. SourceInit => SourceInv
  BY BoundsAssumption DEF SourceInit, SourceInv, SourceTypeOK, CardsAreAwaited, Calls, Idle
<1>4. SourceInv /\ [SourceNext]_a2aVars => SourceInv'
  <2> SUFFICES ASSUME SourceInv, [SourceNext]_a2aVars PROVE SourceInv'
    OBVIOUS
  <2>1. CASE UNCHANGED a2aVars
    BY <2>1 DEF a2aVars, SourceInv, SourceTypeOK, CardsAreAwaited
  <2> QED BY <2>1, SyncKeepsTypes, CallsKeepTypes DEF SourceNext
<1> QED BY <1>1, <1>2, <1>3, <1>4, PTL DEF SourceSpec

------------------------------------------------------------------------------
\* The known tools are those of the first k - 1 agents of the list in force.
Covers(known, k) ==
    /\ \A e \in known :
           e.ver = config.ver /\ \E i \in DOMAIN config.list : i < k /\ config.list[i] = e.tool
    /\ \A i \in DOMAIN config.list :
           i < k /\ config.list[i].protocol = "dify" => \E e \in known : e.tool = config.list[i]

\* A sync that ran alone so far goes through the list in force: it has not
\* begun, or it waits for the card of agent k and has done those before it.
AtCard(s) ==
    \E k \in DOMAIN config.list :
        /\ s.left = SubSeq(config.list, k, Len(config.list))
        /\ config.list[k].protocol # "dify"
        /\ Covers(entries, k)

Following ==
    clean =>
        /\ \A s, t \in syncs : s = t
        /\ \A s \in syncs :
               /\ s.ver = config.ver
               /\ s.at = "storage" => s.left = config.list
               /\ s.at = "card" => AtCard(s)
        /\ syncs = {} => Covers(entries, Len(config.list) + 1)

ConfigListed ==
    /\ config.list \in Seq(A2aTool)
    /\ \A i, j \in DOMAIN config.list : config.list[i].id = config.list[j].id => i = j

LEMMA ConfigIsAList == ASSUME SourceInv PROVE ConfigListed
<1>1. CASE config.list \in Lists
  BY <1>1, ListsAssumption DEF ConfigListed
<1>2. CASE config.list = <<>>
  BY <1>2 DEF ConfigListed
<1> QED BY <1>1, <1>2 DEF SourceInv, SourceTypeOK

\* A set of positions that has all those before one it has is an interval.
LEMMA HeadIsInterval ==
    ASSUME NEW m \in Nat, NEW R \in SUBSET (1 .. m),
           \A i \in R : \A j \in 1 .. i : j \in R
    PROVE  \E n \in 0 .. m : Cardinality(R) = n /\ R = 1 .. n
<1>1. IsFiniteSet(1 .. m) /\ Cardinality(1 .. m) = m
  BY FS_Interval
<1>2. IsFiniteSet(R) /\ Cardinality(R) \in Nat /\ Cardinality(R) <= m
  BY <1>1, FS_Subset, FS_CardinalityType
<1>3. PICK n \in Nat : n = Cardinality(R)
  BY <1>2
<1>4. n <= m
  BY <1>2, <1>3
<1>5. IsFiniteSet(1 .. n) /\ Cardinality(1 .. n) = n
  BY FS_Interval
<1>6. ASSUME NEW i \in R PROVE i <= n
  <2>1. i \in Nat /\ 1 .. i \subseteq R
    OBVIOUS
  <2>2. Cardinality(1 .. i) = i
    BY <2>1, FS_Interval
  <2>3. Cardinality(1 .. i) <= Cardinality(R)
    BY <1>2, <2>1, FS_Subset
  <2> QED BY <1>3, <2>2, <2>3
<1>7. R \subseteq 1 .. n
  BY <1>6
<1>8. R = 1 .. n
  BY <1>3, <1>5, <1>7, FS_Subset
<1> QED BY <1>3, <1>4, <1>8

\* The agents at the head of a list that need no card are the first so many.
LEMMA ReadyIsHead ==
    ASSUME NEW list \in Seq(A2aTool)
    PROVE  \E n \in 0 .. Len(list) :
               /\ Cardinality(Ready(list)) = n
               /\ Ready(list) = 1 .. n
               /\ n < Len(list) => list[n + 1].protocol # "dify"
<1>1. DOMAIN list = 1 .. Len(list) /\ Len(list) \in Nat
  OBVIOUS
<1>2. Ready(list) \in SUBSET (1 .. Len(list))
  BY <1>1 DEF Ready
<1>3. \A i \in Ready(list) : \A j \in 1 .. i : j \in Ready(list)
  BY <1>1 DEF Ready
<1>4. PICK n \in 0 .. Len(list) : Cardinality(Ready(list)) = n /\ Ready(list) = 1 .. n
  BY <1>1, <1>2, <1>3, HeadIsInterval
<1>5. ASSUME n < Len(list), list[n + 1].protocol = "dify" PROVE FALSE
  <2>1. Ready(list) = 1 .. n
    BY <1>4
  <2>2. \A j \in 1 .. n : list[j].protocol = "dify"
    BY <2>1 DEF Ready
  <2>3. \A j \in 1 .. n + 1 : list[j].protocol = "dify"
    BY <1>5, <2>2
  <2>4. n + 1 \in Ready(list)
    BY <1>1, <1>5, <2>3 DEF Ready
  <2> QED BY <2>1, <2>4
<1> QED BY <1>4, <1>5

\* Registering from agent k of the list in force leaves the sync at the next
\* card, or ends it with every agent done.
LEMMA RegisterFollows ==
    ASSUME SourceInv, NEW s \in syncs, s.ver = config.ver, syncs = {s},
           NEW k \in 1 .. Len(config.list) + 1,
           NEW left, left = SubSeq(config.list, k, Len(config.list)),
           NEW known \in SUBSET Entry, Covers(known, k),
           Register(s, known, left), UNCHANGED config
    PROVE  Following'
<1>1. PICK list : list = config.list
  OBVIOUS
<1>2. /\ list \in Seq(A2aTool) /\ Len(list) \in Nat /\ DOMAIN list = 1 .. Len(list)
      /\ \A i, j \in DOMAIN list : list[i].id = list[j].id => i = j
      /\ k \in 1 .. Len(list) + 1
  BY <1>1, ConfigIsAList DEF ConfigListed
<1>3. /\ SubSeq(list, k, Len(list)) \in Seq(A2aTool)
      /\ Len(SubSeq(list, k, Len(list))) = Len(list) - k + 1
      /\ \A i \in 1 .. Len(list) - k + 1 : SubSeq(list, k, Len(list))[i] = list[k + i - 1]
  <2>1. \A i \in k .. Len(list) : list[i] \in A2aTool
    BY <1>2
  <2>2. k \in Int /\ Len(list) \in Int /\ k <= Len(list) + 1
    BY <1>2
  <2> QED BY <2>1, <2>2, SubSeqProperties
<1>4. PICK l \in Seq(A2aTool) :
          /\ l = left /\ l = SubSeq(list, k, Len(list))
          /\ Len(l) = Len(list) - k + 1
          /\ \A i \in 1 .. Len(l) : l[i] = list[k + i - 1]
  BY <1>1, <1>3
<1>5. PICK n \in 0 .. Len(l) : /\ Cardinality(Ready(l)) = n
                               /\ Ready(l) = 1 .. n
                               /\ n < Len(l) => l[n + 1].protocol # "dify"
  BY ReadyIsHead
<1> DEFINE fresh == {[tool |-> l[i], ver |-> s.ver] : i \in 1 .. n}
           kept  == {e \in known : \A f \in fresh : e.tool.id # f.tool.id}
<1>6. PICK rest \in Seq(A2aTool) : /\ rest = SubSeq(l, n + 1, Len(l))
                                   /\ Len(rest) = Len(l) - n
                                   /\ \A i \in 1 .. Len(rest) : rest[i] = l[n + i]
  <2>1. n + 1 \in Int /\ Len(l) \in Int /\ n <= Len(l) /\ \A i \in n + 1 .. Len(l) : l[i] \in A2aTool
    OBVIOUS
  <2>2. SubSeq(l, n + 1, Len(l)) \in Seq(A2aTool)
    BY <2>1, SubSeqProperties
  <2>3. /\ Len(SubSeq(l, n + 1, Len(l))) = IF n + 1 <= Len(l) THEN Len(l) - (n + 1) + 1 ELSE 0
        /\ \A i \in 1 .. Len(l) - (n + 1) + 1 : SubSeq(l, n + 1, Len(l))[i] = l[n + 1 + i - 1]
    BY <2>1, SubSeqProperties
  <2>4. Len(SubSeq(l, n + 1, Len(l))) = Len(l) - n
    BY <2>1, <2>3
  <2>5. \A i \in 1 .. Len(l) - n : SubSeq(l, n + 1, Len(l))[i] = l[n + i]
    BY <2>1, <2>3
  <2> QED BY <2>2, <2>4, <2>5
<1>7. /\ entries' = kept \union fresh
      /\ syncs' = IF rest = <<>> THEN {} ELSE {[s EXCEPT !.at = "card", !.left = rest]}
  <2>1. /\ entries' = kept \union fresh
        /\ syncs' = (syncs \ {s}) \union
               (IF rest = <<>> THEN {} ELSE {[s EXCEPT !.at = "card", !.left = rest]})
    <3>1. Register(s, known, l)
      BY <1>4
    <3>2. Cardinality(Ready(l)) = n /\ Ready(l) = 1 .. n /\ SubSeq(l, n + 1, Len(l)) = rest
      BY <1>5, <1>6
    <3> QED BY <3>1, <3>2, Zenon DEF Register
  <2> HIDE DEF fresh, kept
  <2> QED BY <2>1
<1>8. \A e \in known : /\ e.ver = config.ver
                       /\ \E i \in DOMAIN list : i < k /\ list[i] = e.tool
  BY <1>1 DEF Covers
<1>9. \A i \in DOMAIN list : i < k /\ list[i].protocol = "dify" => \E e \in known : e.tool = list[i]
  BY <1>1 DEF Covers
<1>10. kept = known
  <2> SUFFICES ASSUME NEW e \in known, NEW i \in 1 .. n, e.tool.id = l[i].id PROVE FALSE
    OBVIOUS
  <2>1. PICK j \in DOMAIN list : j < k /\ list[j] = e.tool
    BY <1>8
  <2>2. l[i] = list[k + i - 1] /\ k + i - 1 \in DOMAIN list
    BY <1>2, <1>4
  <2>3. j = k + i - 1
    BY <1>2, <2>1, <2>2
  <2> QED BY <1>2, <2>1, <2>3
<1>11. /\ \A e \in known \union fresh :
              e.ver = config.ver /\ \E i \in DOMAIN list : i < k + n /\ list[i] = e.tool
       /\ \A i \in DOMAIN list :
              i < k + n /\ list[i].protocol = "dify" => \E e \in known \union fresh : e.tool = list[i]
  <2>1. ASSUME NEW e \in fresh
        PROVE  e.ver = config.ver /\ \E i \in DOMAIN list : i < k + n /\ list[i] = e.tool
    <3>1. PICK i \in 1 .. n : e = [tool |-> l[i], ver |-> s.ver]
      OBVIOUS
    <3>2. k + i - 1 \in DOMAIN list /\ k + i - 1 < k + n /\ list[k + i - 1] = l[i]
      BY <1>2, <1>4
    <3> QED BY <3>1, <3>2
  <2>2. ASSUME NEW i \in DOMAIN list, i < k + n, ~(i < k)
        PROVE  \E e \in fresh : e.tool = list[i]
    <3>1. i - k + 1 \in 1 .. n
      BY <1>2, <1>4, <2>2
    <3>2. l[i - k + 1] = list[i]
      BY <1>2, <1>4, <3>1
    <3>3. [tool |-> l[i - k + 1], ver |-> s.ver] \in fresh
      BY <3>1
    <3> QED BY <3>2, <3>3
  <2>3. \A e \in known : /\ e.ver = config.ver
                         /\ \E i \in DOMAIN list : i < k + n /\ list[i] = e.tool
    BY <1>2, <1>8
  <2> HIDE DEF fresh
  <2> QED BY <1>9, <2>1, <2>2, <2>3
<1>12. entries' = known \union fresh
  BY <1>7, <1>10
<1> HIDE DEF fresh, kept
<1>13. Covers(entries, k + n)'
  BY <1>1, <1>11, <1>12 DEF Covers
<1>14. rest = SubSeq(list, k + n, Len(list)) /\ Len(rest) = Len(list) - k - n + 1
  <2> DEFINE r == SubSeq(list, k + n, Len(list))
  <2>1. /\ k + n \in Int /\ Len(list) \in Int /\ k + n <= Len(list) + 1
        /\ \A i \in k + n .. Len(list) : list[i] \in A2aTool
    BY <1>2, <1>4
  <2>2. /\ r \in Seq(A2aTool)
        /\ Len(r) = IF k + n <= Len(list) THEN Len(list) - (k + n) + 1 ELSE 0
        /\ \A i \in 1 .. Len(list) - (k + n) + 1 : r[i] = list[k + n + i - 1]
    BY <2>1, SubSeqProperties
  <2> HIDE DEF r
  <2>3. Len(rest) = Len(list) - k - n + 1 /\ Len(r) = Len(rest)
    BY <1>2, <1>4, <1>6, <2>1, <2>2
  <2>4. \A i \in 1 .. Len(rest) : rest[i] = r[i]
    <3> TAKE i \in 1 .. Len(rest)
    <3>1. rest[i] = l[n + i] /\ n + i \in 1 .. Len(l)
      <4>1. Len(rest) = Len(l) - n /\ rest[i] = l[n + i]
        BY <1>6
      <4>2. Len(l) \in Nat /\ n \in 0 .. Len(l)
        OBVIOUS
      <4> QED BY <4>1, <4>2
    <3>2. l[n + i] = list[k + (n + i) - 1]
      BY <1>4, <3>1
    <3>3. r[i] = list[k + n + i - 1]
      BY <1>2, <2>1, <2>2, <2>3
    <3>4. k + (n + i) - 1 = k + n + i - 1
      BY <1>2
    <3> QED BY <3>1, <3>2, <3>3, <3>4
  <2>5. rest = r
    BY <2>2, <2>3, <2>4, SeqEqual
  <2> QED BY <2>3, <2>5 DEF r
<1>15. CASE rest = <<>>
  <2>1. k + n = Len(list) + 1
    BY <1>2, <1>4, <1>14, <1>15
  <2>2. syncs' = {} /\ Covers(entries, Len(config.list) + 1)'
    BY <1>1, <1>7, <1>13, <1>15, <2>1
  <2> QED BY <2>2 DEF Following
<1>16. CASE rest # <<>>
  <2>1. s \in [ver : 0 .. MaxSaves, at : {"storage", "card"}, left : Seq(A2aTool)]
    BY DEF SourceInv, SourceTypeOK
  <2> DEFINE t == [s EXCEPT !.at = "card", !.left = rest]
  <2>2. syncs' = {t} /\ t.ver = config.ver /\ t.at = "card" /\ t.left = rest
    BY <1>7, <1>16, <2>1
  <2> HIDE DEF t
  <2>3. n < Len(l) /\ k + n \in DOMAIN list /\ l[n + 1] = list[k + n]
    <3>1. Len(rest) > 0
      BY <1>16
    <3>2. n + 1 \in 1 .. Len(l) /\ k + n \in DOMAIN list
      BY <1>2, <1>4, <1>14, <3>1
    <3>3. l[n + 1] = list[k + (n + 1) - 1] /\ k + (n + 1) - 1 = k + n
      BY <1>2, <1>4, <3>2
    <3> QED BY <3>2, <3>3
  <2>4. list[k + n].protocol # "dify"
    BY <1>5, <2>3
  <2>5. AtCard(t)'
    BY <1>1, <1>13, <1>14, <2>2, <2>3, <2>4 DEF AtCard
  <2> QED BY <2>2, <2>5 DEF Following
<1> QED BY <1>15, <1>16

LEMMA SyncFollows ==
    ASSUME SourceInv, Following, SyncStep
    PROVE  Following'
<1>1. ASSUME NEW list \in Lists, Save(list)
      PROVE  Following'
  <2> DEFINE s == [ver |-> config.ver + 1, at |-> "storage", left |-> list]
  <2>1. clean' => syncs = {}
    BY <1>1 DEF Save
  <2>2. s.ver = config'.ver /\ s.left = config'.list /\ s.at # "card"
    BY <1>1 DEF Save
  <2>3. clean' => syncs' = {s}
    BY <1>1, <2>1 DEF Save
  <2> HIDE DEF s
  <2> QED BY <2>2, <2>3 DEF Following
<1>2. ASSUME NEW s \in syncs, SetAgents(s)
      PROVE  Following'
  <2>1. CASE ~clean
    BY <1>2, <2>1 DEF SetAgents, Following
  <2>2. CASE clean
    <3>1. /\ s.ver = config.ver /\ syncs = {s} /\ s.left = config.list
          /\ Register(s, {}, s.left) /\ UNCHANGED config
      BY <1>2, <2>2 DEF SetAgents, Following
    <3>2. /\ config.list = SubSeq(config.list, 1, Len(config.list))
          /\ 1 \in 1 .. Len(config.list) + 1
          /\ \A i \in DOMAIN config.list : ~(i < 1)
      BY ConfigIsAList DEF ConfigListed
    <3>3. Covers({}, 1)
      BY <3>2 DEF Covers
    <3> QED BY <3>1, <3>2, <3>3, RegisterFollows
  <2> QED BY <2>1, <2>2 DEF SourceInv, SourceTypeOK
<1>3. ASSUME NEW s \in syncs, SyncFails(s)
      PROVE  Following'
  BY <1>3 DEF SyncFails, Following
<1>4. ASSUME NEW s \in syncs, NEW ok \in BOOLEAN, CardAnswers(s, ok)
      PROVE  Following'
  <2>1. CASE ~clean
    BY <1>4, <2>1 DEF CardAnswers, Following
  <2>2. CASE clean
    <3> DEFINE list  == config.list
               tool  == Head(s.left)
               known == IF ok THEN Without(tool.id) \union {[tool |-> tool, ver |-> s.ver]}
                              ELSE entries
    <3>1. /\ s.ver = config.ver /\ syncs = {s} /\ AtCard(s)
          /\ Register(s, known, Tail(s.left)) /\ UNCHANGED config
      BY <1>4, <2>2 DEF CardAnswers, Following
    <3>2. PICK k \in DOMAIN list : /\ s.left = SubSeq(list, k, Len(list))
                                   /\ list[k].protocol # "dify"
                                   /\ Covers(entries, k)
      BY <3>1 DEF AtCard
    <3>3. /\ list \in Seq(A2aTool) /\ Len(list) \in Nat /\ DOMAIN list = 1 .. Len(list)
          /\ \A i, j \in DOMAIN list : list[i].id = list[j].id => i = j
      BY ConfigIsAList DEF ConfigListed
    <3>4. /\ tool = list[k] /\ tool \in A2aTool
          /\ Tail(s.left) = SubSeq(list, k + 1, Len(list))
          /\ k + 1 \in 1 .. Len(list) + 1
      <4> HIDE DEF list
      <4>1. k \in 1 .. Len(list) /\ Len(list) \in k .. Len(list)
        BY <3>3
      <4>2. /\ Head(SubSeq(list, k, Len(list))) = list[k]
            /\ Tail(SubSeq(list, k, Len(list))) = SubSeq(list, k + 1, Len(list))
        BY <3>3, <4>1, HeadTailOfSubSeq
      <4>3. list[k] \in A2aTool /\ k + 1 \in 1 .. Len(list) + 1
        BY <3>3
      <4> QED BY <3>2, <4>2, <4>3
    <3>5. \A e \in entries : e.tool.id # tool.id
      <4> SUFFICES ASSUME NEW e \in entries, e.tool.id = list[k].id PROVE FALSE
        BY <3>4
      <4>1. PICK i \in DOMAIN list : i < k /\ list[i] = e.tool
        BY <3>2 DEF Covers
      <4>2. i = k
        BY <3>3, <4>1
      <4> QED BY <3>3, <4>1, <4>2
    <3>6. known = entries \/ known = entries \union {[tool |-> tool, ver |-> s.ver]}
      BY <3>5 DEF Without
    <3>7. known \in SUBSET Entry
      BY <3>4, <3>6 DEF SourceInv, SourceTypeOK, Entry
    <3> HIDE DEF known, tool
    <3>8. Covers(known, k + 1)
      <4>1. \A i \in DOMAIN list : i < k + 1 => i < k \/ i = k
        BY <3>3
      <4>2. k < k + 1 /\ \A i \in DOMAIN list : i < k => i < k + 1
        BY <3>3
      <4>3. \A e \in known : e \in entries \/ (e.tool = list[k] /\ e.ver = config.ver)
        BY <3>1, <3>4, <3>6
      <4>4. entries \subseteq known
        BY <3>6
      <4> QED BY <3>2, <4>1, <4>2, <4>3, <4>4 DEF Covers
    <3> QED BY <3>1, <3>4, <3>7, <3>8, RegisterFollows
  <2> QED BY <2>1, <2>2 DEF SourceInv, SourceTypeOK
<1> QED BY <1>1, <1>2, <1>3, <1>4 DEF SyncStep

\* The tools are those of the list in force once its sync is over, if that ran
\* alone (a2aHost.sync, setAgents).
THEOREM ToolsFollow == SourceSpec => []ToolsFollowTheList
<1>1. SourceInit => SourceInv /\ Following
  <2>1. SourceInit => SourceInv
    BY BoundsAssumption DEF SourceInit, SourceInv, SourceTypeOK, CardsAreAwaited, Calls, Idle
  <2>2. SourceInit => Following
    BY DEF SourceInit, Following, Covers
  <2> QED BY <2>1, <2>2
<1>2. SourceInv /\ Following /\ [SourceNext]_a2aVars => SourceInv' /\ Following'
  <2> SUFFICES ASSUME SourceInv, Following, [SourceNext]_a2aVars
               PROVE  SourceInv' /\ Following'
    OBVIOUS
  <2>1. CASE UNCHANGED a2aVars
    <3>1. SourceInv'
      BY <2>1 DEF a2aVars, SourceInv, SourceTypeOK, CardsAreAwaited
    <3>2. Following'
      BY <2>1 DEF a2aVars, Following, AtCard, Covers
    <3> QED BY <3>1, <3>2
  <2>2. CASE SyncStep
    BY <2>2, SyncKeepsTypes, SyncFollows
  <2>3. ASSUME NEW c \in Caller, Settles(c) \/ \E tool \in A2aTool : CallTool(c, tool)
        PROVE  SourceInv' /\ Following'
    <3>1. UNCHANGED <<config, syncs, entries, clean>>
      BY <2>3 DEF Settles, SendAnswers, TaskPending, PollSettles, PollPending, DifyAnswers,
                  DifyGoesIdle, CallTool, Refuse, Delegate, Finish
    <3> QED BY <2>3, <3>1, CallsKeepTypes DEF Following, AtCard, Covers
  <2> QED BY <2>1, <2>2, <2>3 DEF SourceNext
<1>3. SourceInv /\ Following => ToolsFollowTheList
  <2> SUFFICES ASSUME SourceInv, Following, syncs = {}, clean
               PROVE  /\ \A e \in entries : e.ver = config.ver
                      /\ \A i \in DOMAIN config.list :
                             config.list[i].protocol = "dify" => config.list[i] \in Listed
                      /\ \A tool \in Listed : \E i \in DOMAIN config.list : config.list[i] = tool
    BY DEF ToolsFollowTheList
  <2>1. Covers(entries, Len(config.list) + 1)
    BY DEF Following
  <2>2. \A i \in DOMAIN config.list : i < Len(config.list) + 1
    BY ConfigIsAList DEF ConfigListed
  <2> QED BY <2>1, <2>2 DEF Covers, Listed
<1> QED BY <1>1, <1>2, <1>3, PTL DEF SourceSpec

------------------------------------------------------------------------------
(* The chat is shown to be a user of the tool source, so that what is      *)
(* proved of the source is true of the chat; the rest is about the turn    *)
(* and the history.                                                        *)

\* What was said in the session that is open.
Said == {m \in Messages : m.session = session}

TurnType ==
    [at : {"idle", "tools", "llm", "tool"}, session : Nat,
     seen : SUBSET A2aTool, log : Seq(Messages), asked : 0 .. MaxToolCalls,
     todo : 0 .. MaxToolCalls, round : 0 .. MaxRounds, stop : BOOLEAN]

ChatTyped ==
    /\ turn \in TurnType
    /\ turn.todo <= turn.asked
    /\ turn.at = "tool" => turn.todo > 0
    /\ session \in Nat \ {0} /\ pending \in BOOLEAN /\ relay \in BOOLEAN
    /\ sends \in Nat

\* All of the history and of the transcript was said in the session of the
\* turn, and between turns nothing is left of one.
ChatInv ==
    /\ ChatTyped
    /\ history \in Seq(Said) /\ turn.log \in Seq(Said)
    /\ Busy => turn.session = session
    /\ ~Busy => turn = NoTurn

\* An open call of the chat is the one its turn waits for.
ChatWaits == Open("chat") => turn.at = "tool"

\* What a step of the loop leaves alone.
LoopKeeps == UNCHANGED <<session, pending, relay, sends>>

------------------------------------------------------------------------------
LEMMA NoTurnTyped == NoTurn \in TurnType
<1>1. <<>> \in Seq(Messages) /\ 0 \in 0 .. MaxToolCalls /\ 0 \in 0 .. MaxRounds
  BY ChatAssumption
<1> QED BY <1>1 DEF NoTurn, TurnType

LEMMA MessageSaid ==
    ASSUME ChatInv, Busy, NEW role \in {"user", "assistant", "tool"}, NEW n \in Nat
    PROVE  Message(role, n) \in Said
BY DEF ChatInv, ChatTyped, TurnType, Message, Said, Messages

\* Trimming keeps the end of what it is given.
LEMMA TrimKeeps ==
    ASSUME NEW S, NEW log \in Seq(S)
    PROVE  Trim(log) \in Seq(S)
<1> DEFINE dropped == {i \in DOMAIN log : Cardinality({j \in Turns(log) : j > i}) >= MaxTurns}
<1>1. DOMAIN log = 1 .. Len(log) /\ IsFiniteSet(1 .. Len(log))
  BY FS_Interval
<1>2. Cardinality(dropped) \in Nat
  <2>1. IsFiniteSet(dropped)
    BY <1>1, FS_Subset
  <2> QED BY <2>1, FS_CardinalityType
<1>3. SubSeq(log, Cardinality(dropped) + 1, Len(log)) \in Seq(S)
  <2> HIDE DEF dropped
  <2> QED BY <1>2
<1> QED BY <1>3 DEF Trim

\* The turn ends, with what it said or as if it had not been.
LEMMA SettleKeeps ==
    ASSUME ChatInv, LoopKeeps, NEW log \in Seq(Said), Settle(log) \/ Abandon
    PROVE  ChatInv'
<1>1. turn' = NoTurn /\ history' \in Seq(Said)
  BY DEF Settle, Abandon, ChatInv
<1>2. Said' = Said
  BY DEF LoopKeeps, Said
<1>3. NoTurn.log \in Seq(Said) /\ NoTurn.at = "idle" /\ NoTurn.todo <= NoTurn.asked
  BY DEF NoTurn
<1> QED BY <1>1, <1>2, <1>3, NoTurnTyped DEF ChatInv, ChatTyped, LoopKeeps, Busy

LEMMA NextRoundKeeps ==
    ASSUME ChatInv, Busy, LoopKeeps, NEW log \in Seq(Said), NEW round \in Nat,
           NextRound(log, round)
    PROVE  ChatInv'
<1>1. CASE Settle(log) \/ Abandon
  BY <1>1, SettleKeeps
<1>2. CASE /\ round <= MaxRounds
           /\ turn' = [turn EXCEPT !.at = "llm", !.log = log, !.round = round]
           /\ UNCHANGED history
  <2>1. Said' = Said
    BY DEF LoopKeeps, Said
  <2>2. log \in Seq(Messages) /\ round \in 0 .. MaxRounds
    BY <1>2, ChatAssumption DEF Said
  <2> QED BY <1>2, <2>1, <2>2 DEF ChatInv, ChatTyped, TurnType, LoopKeeps, Busy
<1> QED BY <1>1, <1>2, ChatAssumption DEF NextRound

LEMMA NextCallKeeps ==
    ASSUME ChatInv, Busy, LoopKeeps, NEW log \in Seq(Said),
           NEW asked \in 0 .. MaxToolCalls, NEW todo \in 0 .. asked,
           NextCall(log, asked, todo)
    PROVE  ChatInv'
<1>1. CASE Abandon
  BY <1>1, SettleKeeps
<1>2. CASE NextRound(log, turn.round + 1)
  <2>1. turn.round + 1 \in Nat
    BY ChatAssumption DEF ChatInv, ChatTyped, TurnType
  <2> QED BY <1>2, <2>1, NextRoundKeeps
<1>3. CASE /\ todo # 0
           /\ turn' = [turn EXCEPT !.at = "tool", !.log = log, !.asked = asked, !.todo = todo]
           /\ UNCHANGED history
  <2>1. Said' = Said
    BY DEF LoopKeeps, Said
  <2>2. log \in Seq(Messages) /\ todo \in 0 .. MaxToolCalls /\ todo > 0 /\ todo <= asked
    BY <1>3, ChatAssumption DEF Said
  <2> QED BY <1>3, <2>1, <2>2 DEF ChatInv, ChatTyped, TurnType, LoopKeeps, Busy
<1> QED BY <1>1, <1>2, <1>3 DEF NextCall

LEMMA ToolAnsweredKeeps ==
    ASSUME ChatInv, turn.at = "tool", ToolAnswered
    PROVE  ChatInv'
<1> DEFINE n   == turn.asked - turn.todo + 1
           log == Append(turn.log, Message("tool", n))
<1>1. n \in Nat /\ turn.asked \in 0 .. MaxToolCalls /\ turn.todo - 1 \in 0 .. turn.asked
  BY ChatAssumption DEF ChatInv, ChatTyped, TurnType
<1>2. Busy
  BY DEF Busy
<1>3. log \in Seq(Said)
  <2>1. Message("tool", n) \in Said
    BY <1>1, <1>2, MessageSaid
  <2> HIDE DEF n
  <2> QED BY <2>1 DEF ChatInv
<1>4. LoopKeeps /\ NextCall(log, turn.asked, turn.todo - 1)
  BY DEF ToolAnswered, LoopKeeps
<1> HIDE DEF log
<1> QED BY <1>1, <1>2, <1>3, <1>4, NextCallKeeps

LEMMA ChatStepKeeps ==
    ASSUME ChatInv, SourceInv, ChatStep
    PROVE  ChatInv'
<1> USE DEF LoopKeeps
<1>1. CASE Send
  <2>1. Listed \subseteq A2aTool
    BY DEF SourceInv, SourceTypeOK, Entry, Listed
  <2>2. Said' = Said /\ <<>> \in Seq(Said)
    BY <1>1 DEF Send, Said
  <2>3. NoTurn \in TurnType /\ NoTurn.log = <<>> /\ NoTurn.todo = 0 /\ NoTurn.asked = 0
    BY NoTurnTyped DEF NoTurn
  <2>4. /\ turn' \in TurnType /\ turn'.at = "tools" /\ turn'.session = session
        /\ turn'.log = <<>> /\ turn'.todo = 0 /\ turn'.asked = 0
    BY <1>1, <2>1, <2>3 DEF Send, TurnType, ChatInv, ChatTyped
  <2>5. UNCHANGED <<history, session, pending, relay>> /\ sends' \in Nat
    BY <1>1 DEF Send, ChatInv, ChatTyped
  <2>6. ChatTyped'
    BY <2>4, <2>5 DEF ChatInv, ChatTyped
  <2> QED BY <2>2, <2>4, <2>5, <2>6 DEF ChatInv, Busy
<1>2. CASE ToolsArrive
  <2> DEFINE log == Append(Trim(history), Message("user", 0))
  <2>1. Busy /\ NextRound(log, 1)
    BY <1>2 DEF ToolsArrive, Busy
  <2>2. Trim(history) \in Seq(Said) /\ Message("user", 0) \in Said
    BY <2>1, TrimKeeps, MessageSaid DEF ChatInv
  <2>3. log \in Seq(Said)
    BY <2>2
  <2> HIDE DEF log
  <2> QED BY <1>2, <2>1, <2>3, NextRoundKeeps DEF ToolsArrive
<1>3. CASE TurnFails
  <2>1. history \in Seq(Said)
    BY DEF ChatInv
  <2> QED BY <1>3, <2>1, SettleKeeps DEF TurnFails
<1>4. CASE ToolReturns
  BY <1>4, ToolAnsweredKeeps DEF ToolReturns
<1>5. CASE Abort
  <2>1. Said' = Said
    BY <1>5 DEF Abort, Said
  <2> QED BY <1>5, <2>1 DEF Abort, ChatInv, ChatTyped, TurnType, Busy
<1>6. ASSUME NEW k \in 0 .. MaxToolCalls, ModelAnswers(k)
      PROVE  ChatInv'
  <2> DEFINE log == Append(turn.log, Message("assistant", k))
  <2>1. Busy /\ k \in Nat /\ k \in 0 .. k
    BY <1>6, ChatAssumption DEF ModelAnswers, Busy
  <2>2. Message("assistant", k) \in Said
    BY <2>1, MessageSaid
  <2>3. log \in Seq(Said)
    BY <2>2 DEF ChatInv
  <2>4. Settle(log) \/ Abandon \/ NextCall(log, k, k)
    BY <1>6 DEF ModelAnswers
  <2> HIDE DEF log
  <2> QED BY <1>6, <2>1, <2>3, <2>4, SettleKeeps, NextCallKeeps DEF ModelAnswers
<1>7. CASE RequestSwitch \/ RelayReports
  <2>1. Said' = Said
    BY <1>7 DEF RequestSwitch, RelayReports, Said
  <2> QED BY <1>7, <2>1 DEF RequestSwitch, RelayReports, ChatInv, ChatTyped, Busy
<1>8. CASE ConfirmSwitch
  <2>1. /\ turn = NoTurn /\ turn' = turn /\ history' = <<>> /\ session' \in Nat \ {0}
        /\ pending' = FALSE /\ UNCHANGED <<relay, sends>>
    BY <1>8 DEF ConfirmSwitch, Locked, ChatInv, ChatTyped
  <2>2. history' \in Seq(Said') /\ turn.log \in Seq(Said')
    BY <2>1 DEF NoTurn
  <2> QED BY <2>1, <2>2 DEF ChatInv, ChatTyped, Busy, NoTurn
<1> QED BY <1>1, <1>2, <1>3, <1>4, <1>5, <1>6, <1>7, <1>8 DEF ChatStep

\* A call of a remote agent disturbs the turn at most by its answer.
LEMMA CallsKeepChat ==
    ASSUME ChatInv, SourceInv, ChatWaits,
           ChatCalls \/ DebugCalls \/ (\E c \in Caller : CallGoesOn(c))
    PROVE  ChatInv' /\ SourceInv'
<1>1. turn.seen \subseteq A2aTool
  BY DEF ChatInv, ChatTyped, TurnType
<1>2. \E c \in Caller : Settles(c) \/ \E tool \in A2aTool : CallTool(c, tool)
  BY <1>1, CallerAssumption DEF ChatCalls, DebugCalls, CallGoesOn, CallTool
<1>3. SourceInv'
  BY <1>2, CallsKeepTypes
<1>4. CASE UNCHANGED chatVars
  <2>1. Said' = Said
    BY <1>4 DEF chatVars, Said
  <2> QED BY <1>3, <1>4, <2>1 DEF chatVars, ChatInv, ChatTyped, Busy
<1>5. CASE turn.at = "tool" /\ ToolAnswered
  BY <1>3, <1>5, ToolAnsweredKeeps
<1>6. CASE \E c \in Caller : CallGoesOn(c)
  <2> PICK c \in Caller : CallGoesOn(c)
    BY <1>6
  <2>1. Open(c)
    BY DEF CallGoesOn, Settles, SendAnswers, TaskPending, PollSettles, PollPending,
           DifyAnswers, DifyGoesIdle, Open
  <2> QED BY <1>4, <1>5, <2>1 DEF CallGoesOn, ChatWaits
<1> QED BY <1>4, <1>5, <1>6 DEF ChatCalls, DebugCalls

\* A call of another caller leaves that of the chat as it is.
LEMMA CallsApart ==
    ASSUME SourceInv, NEW c \in Caller, c # "chat",
           Settles(c) \/ \E tool \in A2aTool : CallTool(c, tool)
    PROVE  Open("chat")' <=> Open("chat")
<1>1. \/ UNCHANGED calls
      \/ \E call \in Calls : calls' = [calls EXCEPT ![c] = call]
  <2>1. calls[c] \in Calls /\ Idle \in Calls
    BY BoundsAssumption DEF SourceInv, SourceTypeOK, Calls, Idle
  <2>2. calls' \in [Caller -> Calls]
    BY CallsKeepTypes DEF SourceInv, SourceTypeOK
  <2>3. \/ UNCHANGED calls
        \/ \E call : calls' = [calls EXCEPT ![c] = call]
    BY DEF Settles, SendAnswers, TaskPending, PollSettles, PollPending, DifyAnswers,
           DifyGoesIdle, CallTool, Refuse, Delegate, Finish
  <2>4. \A call : calls' = [calls EXCEPT ![c] = call] => calls'[c] = call
    BY DEF SourceInv, SourceTypeOK
  <2> QED BY <2>2, <2>3, <2>4
<1> QED BY <1>1, CallerAssumption DEF Open, SourceInv, SourceTypeOK

LEMMA ChatWaitsKept ==
    ASSUME ChatInv, SourceInv, ChatWaits, Next
    PROVE  ChatWaits'
<1>1. CASE SyncStep /\ UNCHANGED chatVars
  BY <1>1 DEF SyncStep, Save, SetAgents, SyncFails, CardAnswers, chatVars, ChatWaits, Open
<1>2. CASE ChatStep /\ UNCHANGED a2aVars
  <2>1. \/ ~Open("chat")
        \/ turn'.at = turn.at
    BY <1>2 DEF ChatStep, Send, ToolsArrive, TurnFails, ToolReturns, Abort, ModelAnswers,
                RequestSwitch, ConfirmSwitch, RelayReports, ChatWaits, Locked, Busy,
                ChatInv, ChatTyped, TurnType
  <2> QED BY <1>2, <2>1 DEF a2aVars, ChatWaits, Open
<1>3. CASE ChatCalls
  BY <1>3 DEF ChatCalls, Delegate, Refuse, ChatWaits, Open, chatVars
<1>4. CASE DebugCalls
  <2>1. (Open("chat")' <=> Open("chat")) /\ UNCHANGED turn
    BY <1>4, CallsApart, CallerAssumption DEF DebugCalls, chatVars
  <2> QED BY <2>1 DEF ChatWaits
<1>5. ASSUME NEW c \in Caller, CallGoesOn(c)
      PROVE  ChatWaits'
  <2>1. CASE c = "chat"
    <3>1. Open("chat")
      BY <1>5, <2>1 DEF CallGoesOn, Settles, SendAnswers, TaskPending, PollSettles,
                        PollPending, DifyAnswers, DifyGoesIdle, Open
    <3> QED BY <1>5, <2>1, <3>1 DEF CallGoesOn, ChatWaits, chatVars
  <2>2. CASE c # "chat"
    <3>1. (Open("chat")' <=> Open("chat")) /\ UNCHANGED turn
      BY <1>5, <2>2, CallsApart DEF CallGoesOn, chatVars
    <3> QED BY <3>1 DEF ChatWaits
  <2> QED BY <2>1, <2>2
<1> QED BY <1>1, <1>2, <1>3, <1>4, <1>5 DEF Next

------------------------------------------------------------------------------
Inv == SourceInv /\ ChatInv /\ ChatWaits

\* The inductive invariant: the types of the source, the session and types of
\* the turn, and the call its turn waits for.
THEOREM ChatInvariant == Spec => []Inv
<1>1. Init => Inv
  <2> SUFFICES ASSUME Init PROVE Inv
    OBVIOUS
  <2>1. SourceInv
    BY BoundsAssumption
    DEF Init, SourceInit, SourceInv, SourceTypeOK, CardsAreAwaited, Calls, Idle
  <2>2. ~Open("chat")
    BY CallerAssumption DEF Init, SourceInit, Open, Idle
  <2>3. ChatTyped /\ turn.log \in Seq(Said) /\ ~Busy
    <3>1. /\ NoTurn.at = "idle" /\ NoTurn.log = <<>>
          /\ NoTurn.todo = 0 /\ NoTurn.asked = 0
      BY DEF NoTurn
    <3>2. turn = NoTurn /\ session = 1 /\ sends = 0
      BY DEF Init
    <3>3. pending \in BOOLEAN /\ relay \in BOOLEAN
      BY DEF Init
    <3>4. turn \in TurnType /\ turn.at = "idle" /\ turn.log = <<>>
          /\ turn.todo = 0 /\ turn.asked = 0
      BY <3>1, <3>2, NoTurnTyped
    <3>5. ChatTyped
      BY <3>2, <3>3, <3>4 DEF ChatTyped
    <3> QED BY <3>4, <3>5 DEF Busy
  <2> QED BY <2>1, <2>2, <2>3 DEF Init, Inv, ChatInv, ChatWaits
<1>2. Inv /\ [Next]_vars => Inv'
  <2> SUFFICES ASSUME Inv, [Next]_vars PROVE Inv'
    OBVIOUS
  <2>1. CASE UNCHANGED vars
    <3>1. SourceInv'
      BY <2>1 DEF vars, a2aVars, Inv, SourceInv, SourceTypeOK, CardsAreAwaited
    <3>2. ChatInv' /\ ChatWaits'
      BY <2>1 DEF vars, a2aVars, chatVars, Inv, ChatInv, ChatTyped, ChatWaits, Said, Busy, Open
    <3> QED BY <3>1, <3>2 DEF Inv
  <2>2. CASE Next
    <3>1. CASE SyncStep /\ UNCHANGED chatVars
      <4>1. ChatInv'
        BY <3>1 DEF chatVars, Inv, ChatInv, ChatTyped, Said, Busy
      <4> QED BY <2>2, <3>1, <4>1, SyncKeepsTypes, ChatWaitsKept DEF Inv
    <3>2. CASE ChatStep /\ UNCHANGED a2aVars
      <4>1. SourceInv'
        BY <3>2 DEF a2aVars, Inv, SourceInv, SourceTypeOK, CardsAreAwaited
      <4> QED BY <2>2, <3>2, <4>1, ChatStepKeeps, ChatWaitsKept DEF Inv
    <3>3. CASE ChatCalls \/ DebugCalls \/ (\E c \in Caller : CallGoesOn(c))
      BY <2>2, <3>3, CallsKeepChat, ChatWaitsKept DEF Inv
    <3> QED BY <2>2, <3>1, <3>2, <3>3 DEF Next
  <2> QED BY <2>1, <2>2
<1> QED BY <1>1, <1>2, PTL DEF Spec

\* The types of the chat and of its source.
THEOREM ChatTypeCorrect == Spec => []TypeOK
<1>1. Inv => TypeOK
  <2> SUFFICES ASSUME Inv PROVE TypeOK
    OBVIOUS
  <2>1. history \in Seq(Messages)
    BY DEF Inv, ChatInv, Said
  <2> QED BY <2>1 DEF Inv, SourceInv, ChatInv, ChatTyped, TurnType, TypeOK
<1> QED BY <1>1, ChatInvariant, PTL

\* A turn runs under one agent, and neither its transcript nor the history
\* holds a message of the session before (confirmSwitchAgent).
THEOREM SessionsApart == Spec => []SessionsStayApart
<1>1. Inv => SessionsStayApart
  BY DEF Inv, ChatInv, SessionsStayApart, Said
<1> QED BY <1>1, ChatInvariant, PTL

\* Every behaviour of the chat is one of the tool source: the chat and the
\* debug page use it as its callers may.
THEOREM ChatUsesSource == Spec => SourceSpec
<1>1. Init => SourceInit
  BY DEF Init
<1>2. Inv /\ [Next]_vars => [SourceNext]_a2aVars
  <2> SUFFICES ASSUME Inv, [Next]_vars PROVE [SourceNext]_a2aVars
    OBVIOUS
  <2>1. CASE UNCHANGED a2aVars
    BY <2>1
  <2>2. CASE SyncStep
    BY <2>2 DEF SourceNext
  <2>3. CASE ChatCalls \/ DebugCalls \/ (\E c \in Caller : CallGoesOn(c))
    <3>1. turn.seen \subseteq A2aTool
      BY DEF Inv, ChatInv, ChatTyped, TurnType
    <3> QED BY <2>3, <3>1, CallerAssumption
            DEF ChatCalls, DebugCalls, CallGoesOn, CallTool, SourceNext
  <2> QED BY <2>1, <2>2, <2>3 DEF Next, vars
<1> QED BY <1>1, <1>2, ChatInvariant, PTL DEF Spec, SourceSpec

\* The serial guard in the chat: the model and the debug page never have two
\* tasks at one agent.
THEOREM ChatKeepsGuard == Spec => []OneTaskPerAgent
BY ChatUsesSource, SerialGuard, PTL

------------------------------------------------------------------------------
LEMMA StoppedCallsAbandon ==
    ASSUME Inv, turn.stop, turn.at = "tool", ToolAnswered
    PROVE  history' = history \/ AtLimit
<1>1. /\ turn.todo \in Nat \ {0} /\ turn.round \in Nat /\ turn.round <= MaxRounds
      /\ MaxRounds \in Nat
  BY ChatAssumption DEF Inv, ChatInv, ChatTyped, TurnType
<1> DEFINE log == Append(turn.log, Message("tool", turn.asked - turn.todo + 1))
<1>2. NextCall(log, turn.asked, turn.todo - 1)
  BY DEF ToolAnswered
<1> HIDE DEF log
<1>3. CASE turn.todo - 1 = 0
  <2>1. NextRound(log, turn.round + 1)
    BY <1>2, <1>3 DEF NextCall
  <2>2. CASE turn.round + 1 > MaxRounds
    BY <1>1, <1>3, <2>2 DEF AtLimit
  <2>3. CASE ~(turn.round + 1 > MaxRounds)
    BY <2>1, <2>3 DEF NextRound, Abandon, Settle
  <2> QED BY <2>2, <2>3
<1>4. CASE turn.todo - 1 # 0
  BY <1>2, <1>4 DEF NextCall, Abandon, Settle
<1> QED BY <1>3, <1>4

\* A stopped turn leaves the history as it was, unless it was in the last call
\* of its last round (settleTurnError, and the limit of runAgentLoop).
THEOREM NoTraceOfStopped == Spec => StoppedTurnsLeaveNoTrace
<1>1. ASSUME Inv, [Next]_vars
      PROVE  [turn.stop /\ history' # history => AtLimit]_vars
  <2> SUFFICES ASSUME turn.stop, Next PROVE history' = history \/ AtLimit
    BY <1>1 DEF vars, chatVars
  <2>1. Busy
    BY <1>1 DEF Inv, ChatInv, NoTurn
  <2>2. CASE UNCHANGED chatVars
    BY <2>2 DEF chatVars
  <2>3. CASE ChatStep
    <3>1. CASE Send \/ ConfirmSwitch
      BY <2>1, <3>1 DEF Send, ConfirmSwitch, Locked
    <3>2. CASE ToolsArrive
      <4>1. ~(1 > MaxRounds)
        BY ChatAssumption
      <4> QED BY <3>2, <4>1 DEF ToolsArrive, NextRound, Abandon, Settle
    <3>3. CASE TurnFails \/ \E k \in 0 .. MaxToolCalls : ModelAnswers(k)
      BY <3>3 DEF TurnFails, ModelAnswers, Abandon, Settle
    <3>4. CASE ToolReturns
      BY <1>1, <3>4, StoppedCallsAbandon DEF ToolReturns
    <3>5. CASE Abort \/ RequestSwitch \/ RelayReports
      BY <3>5 DEF Abort, RequestSwitch, RelayReports
    <3> QED BY <2>3, <3>1, <3>2, <3>3, <3>4, <3>5 DEF ChatStep
  <2>4. CASE ChatCalls
    BY <1>1, <2>2, <2>4, StoppedCallsAbandon DEF ChatCalls
  <2>5. ASSUME NEW c \in Caller, CallGoesOn(c)
        PROVE  history' = history \/ AtLimit
    <3>1. Open(c)
      BY <2>5 DEF CallGoesOn, Settles, SendAnswers, TaskPending, PollSettles,
                  PollPending, DifyAnswers, DifyGoesIdle, Open
    <3> QED BY <1>1, <2>2, <2>5, <3>1, StoppedCallsAbandon DEF CallGoesOn, Inv, ChatWaits
  <2> QED BY <2>2, <2>3, <2>4, <2>5 DEF Next, DebugCalls
<1> QED BY <1>1, ChatInvariant, PTL DEF Spec, StoppedTurnsLeaveNoTrace, AtLimit

\* The tools of the chat are those of the list in force (ToolsFollow).
THEOREM ChatToolsFollow == Spec => []ToolsFollowTheList
BY ChatUsesSource, ToolsFollow, PTL

------------------------------------------------------------------------------
\* A transcript in the middle of the answers to its last message of the model:
\* asked calls, todo of which are not answered.
HalfPaired(log, asked, todo) ==
    LET a == Len(log) - (asked - todo)
    IN  /\ a > 0 /\ log[1].role = "user"
        /\ log[a].role = "assistant" /\ log[a].calls = asked
        /\ \A k \in 1 .. asked - todo : log[a + k].role = "tool" /\ log[a + k].calls = k
        /\ \A i \in DOMAIN log \ {a} : CallsAnswered(log, i) /\ AnswerAskedFor(log, i)

TalkInv ==
    /\ Paired(history)
    /\ turn.at = "llm" => Paired(turn.log) /\ turn.log # <<>>
    /\ turn.at = "tool" => HalfPaired(turn.log, turn.asked, turn.todo)

\* Positions of a transcript that is one message longer.
LEMMA Appended ==
    ASSUME NEW log \in Seq(Messages), NEW m \in Messages
    PROVE  /\ Append(log, m) \in Seq(Messages) /\ Len(Append(log, m)) = Len(log) + 1
           /\ DOMAIN log = 1 .. Len(log) /\ DOMAIN Append(log, m) = 1 .. Len(log) + 1
           /\ \A i \in 1 .. Len(log) : Append(log, m)[i] = log[i]
           /\ Append(log, m)[Len(log) + 1] = m
           /\ Len(log) \in Nat /\ m.calls \in Nat
           /\ \A i \in 1 .. Len(log) : log[i].calls \in Nat
<1>1. /\ Append(log, m) \in Seq(Messages) /\ Len(Append(log, m)) = Len(log) + 1
      /\ \A i \in 1 .. Len(log) : Append(log, m)[i] = log[i]
      /\ Append(log, m)[Len(log) + 1] = m
  BY AppendProperties
<1>2. DOMAIN log = 1 .. Len(log) /\ DOMAIN Append(log, m) = 1 .. Len(log) + 1 /\ Len(log) \in Nat
  BY <1>1
<1>3. \A e \in Messages : e.calls \in Nat
  BY DEF Messages
<1>4. m.calls \in Nat /\ \A i \in 1 .. Len(log) : log[i].calls \in Nat
  BY <1>2, <1>3
<1> QED BY <1>1, <1>2, <1>4

\* A message after it does not disturb what holds of a message.
LEMMA AppendKeeps ==
    ASSUME NEW log \in Seq(Messages), NEW m \in Messages, NEW i \in DOMAIN log
    PROVE  /\ CallsAnswered(log, i) => CallsAnswered(Append(log, m), i)
           /\ AnswerAskedFor(log, i) => AnswerAskedFor(Append(log, m), i)
<1> DEFINE longer == Append(log, m)
<1>1. /\ DOMAIN log = 1 .. Len(log) /\ DOMAIN longer = 1 .. Len(log) + 1
      /\ \A j \in 1 .. Len(log) : longer[j] = log[j]
      /\ Len(log) \in Nat /\ i \in 1 .. Len(log) /\ log[i].calls \in Nat
  BY Appended
<1> HIDE DEF longer
<1>2. ASSUME CallsAnswered(log, i) PROVE CallsAnswered(longer, i)
  BY <1>1, <1>2 DEF CallsAnswered
<1>3. ASSUME AnswerAskedFor(log, i) PROVE AnswerAskedFor(longer, i)
  <2>1. longer[i] = log[i]
    BY <1>1
  <2> SUFFICES ASSUME log[i].role = "tool"
               PROVE  /\ i > log[i].calls
                      /\ longer[i - log[i].calls].role = "assistant"
                      /\ longer[i - log[i].calls].calls >= log[i].calls
    BY <2>1 DEF AnswerAskedFor
  <2>2. i > log[i].calls
    BY <1>3 DEF AnswerAskedFor
  <2>3. i - log[i].calls \in 1 .. Len(log)
    BY <1>1, <2>2
  <2> QED BY <1>1, <1>3, <2>2, <2>3 DEF AnswerAskedFor
<1> QED BY <1>2, <1>3 DEF longer

\* What the user says, and an answer of the model that asks for nothing.
LEMMA PlainMessageKeeps ==
    ASSUME NEW log \in Seq(Messages), Paired(log), NEW m \in Messages,
           \/ m.role = "user"
           \/ log # <<>> /\ m.role = "assistant" /\ m.calls = 0
    PROVE  Paired(Append(log, m)) /\ Append(log, m) # <<>>
<1> DEFINE longer == Append(log, m)
           last   == Len(log) + 1
<1>1. /\ DOMAIN log = 1 .. Len(log) /\ DOMAIN longer = 1 .. last
      /\ \A j \in 1 .. Len(log) : longer[j] = log[j]
      /\ longer[last] = m /\ Len(log) \in Nat
  BY Appended
<1>2. \A i \in DOMAIN log : CallsAnswered(longer, i) /\ AnswerAskedFor(longer, i)
  BY AppendKeeps DEF Paired
<1>3. longer # <<>>
  BY AppendProperties
<1> HIDE DEF longer
<1>4. CallsAnswered(longer, last) /\ AnswerAskedFor(longer, last)
  <2>1. longer[last].role # "tool" /\ (longer[last].role = "assistant" => longer[last].calls = 0)
    BY <1>1
  <2> HIDE DEF last
  <2> QED BY <2>1 DEF CallsAnswered, AnswerAskedFor
<1>5. longer[1].role = "user"
  <2>1. CASE log = <<>>
    BY <1>1, <2>1
  <2>2. CASE log # <<>>
    BY <1>1, <2>2 DEF Paired
  <2> QED BY <2>1, <2>2
<1> QED BY <1>1, <1>2, <1>3, <1>4, <1>5 DEF Paired, longer

\* An answer of the model that asks for calls, none of which is answered yet.
LEMMA CallingMessageKeeps ==
    ASSUME NEW log \in Seq(Messages), Paired(log), log # <<>>,
           NEW m \in Messages, m.role = "assistant"
    PROVE  HalfPaired(Append(log, m), m.calls, m.calls)
<1> DEFINE longer == Append(log, m)
<1>1. /\ DOMAIN log = 1 .. Len(log) /\ DOMAIN longer = 1 .. Len(log) + 1
      /\ \A j \in 1 .. Len(log) : longer[j] = log[j]
      /\ longer[Len(log) + 1] = m /\ Len(log) \in Nat /\ m.calls \in Nat
      /\ Len(longer) = Len(log) + 1
  BY Appended
<1>2. \A i \in DOMAIN log : CallsAnswered(longer, i) /\ AnswerAskedFor(longer, i)
  BY AppendKeeps DEF Paired
<1> HIDE DEF longer
<1>3. longer[1].role = "user"
  BY <1>1 DEF Paired
<1>4. Len(longer) - (m.calls - m.calls) = Len(log) + 1
  BY <1>1
<1>5. HalfPaired(longer, m.calls, m.calls)
  BY <1>1, <1>2, <1>3, <1>4 DEF HalfPaired
<1> QED BY <1>5 DEF longer

\* The answer to the next of the calls.
LEMMA AnswerKeeps ==
    ASSUME NEW log \in Seq(Messages), NEW asked \in Nat, NEW todo \in 1 .. asked,
           HalfPaired(log, asked, todo),
           NEW m \in Messages, m.role = "tool", m.calls = asked - todo + 1
    PROVE  HalfPaired(Append(log, m), asked, todo - 1)
<1> DEFINE longer == Append(log, m)
<1>0. PICK a : a = Len(log) - (asked - todo)
  OBVIOUS
<1>1. /\ DOMAIN log = 1 .. Len(log) /\ DOMAIN longer = 1 .. Len(log) + 1
      /\ \A j \in 1 .. Len(log) : longer[j] = log[j]
      /\ longer[Len(log) + 1] = m /\ Len(log) \in Nat
      /\ Len(longer) = Len(log) + 1
  BY Appended
<1>2. /\ a > 0 /\ log[1].role = "user"
      /\ log[a].role = "assistant" /\ log[a].calls = asked
      /\ \A k \in 1 .. asked - todo : log[a + k].role = "tool" /\ log[a + k].calls = k
      /\ \A i \in DOMAIN log \ {a} : CallsAnswered(log, i) /\ AnswerAskedFor(log, i)
  BY <1>0, Zenon DEF HalfPaired
<1>3. a \in 1 .. Len(log) /\ Len(log) + 1 = a + (asked - todo + 1)
  BY <1>0, <1>1, <1>2
<1>4. \A i \in DOMAIN log \ {a} : CallsAnswered(longer, i) /\ AnswerAskedFor(longer, i)
  BY <1>2, AppendKeeps
<1> HIDE DEF longer
<1>5. Len(longer) - (asked - (todo - 1)) = a
  BY <1>0, <1>1
<1>6. /\ longer[1].role = "user" /\ longer[a].role = "assistant" /\ longer[a].calls = asked
  BY <1>1, <1>2, <1>3
<1>7. ASSUME NEW k \in 1 .. asked - (todo - 1)
      PROVE  longer[a + k].role = "tool" /\ longer[a + k].calls = k
  <2>1. CASE k = asked - todo + 1
    <3>1. longer[a + k] = m
      BY <1>1, <1>3, <2>1
    <3> QED BY <2>1, <3>1
  <2>2. CASE k # asked - todo + 1
    <3>1. k \in 1 .. asked - todo /\ a + k \in 1 .. Len(log)
      BY <1>3, <2>2
    <3>2. longer[a + k] = log[a + k]
      BY <1>1, <3>1
    <3> QED BY <1>2, <3>1, <3>2
  <2> QED BY <2>1, <2>2
<1>8. CallsAnswered(longer, Len(log) + 1) /\ AnswerAskedFor(longer, Len(log) + 1)
  <2>1. longer[Len(log) + 1].role = "tool" /\ longer[Len(log) + 1].calls = asked - todo + 1
    BY <1>1
  <2>2. Len(log) + 1 - (asked - todo + 1) = a /\ Len(log) + 1 > asked - todo + 1
    BY <1>1, <1>3
  <2>3. asked >= asked - todo + 1
    OBVIOUS
  <2> QED BY <1>6, <2>1, <2>2, <2>3 DEF CallsAnswered, AnswerAskedFor
<1>9. \A i \in DOMAIN longer \ {a} : CallsAnswered(longer, i) /\ AnswerAskedFor(longer, i)
  BY <1>1, <1>4, <1>8
<1>10. HalfPaired(longer, asked, todo - 1)
  <2>1. a > 0
    BY <1>2
  <2> QED BY <2>1, <1>5, <1>6, <1>7, <1>9, Zenon DEF HalfPaired
<1> QED BY <1>10 DEF longer

\* With the last answer the transcript is whole again.
LEMMA AllAnswered ==
    ASSUME NEW log \in Seq(Messages), NEW asked \in Nat, HalfPaired(log, asked, 0)
    PROVE  Paired(log) /\ log # <<>>
<1>0. PICK a : a = Len(log) - (asked - 0)
  OBVIOUS
<1>1. /\ a > 0 /\ log[1].role = "user"
      /\ log[a].role = "assistant" /\ log[a].calls = asked
      /\ \A k \in 1 .. asked - 0 : log[a + k].role = "tool" /\ log[a + k].calls = k
      /\ \A i \in DOMAIN log \ {a} : CallsAnswered(log, i) /\ AnswerAskedFor(log, i)
  BY <1>0, Zenon DEF HalfPaired
<1>2. a \in 1 .. Len(log) /\ Len(log) = a + asked /\ DOMAIN log = 1 .. Len(log)
  BY <1>0, <1>1
<1>3. CallsAnswered(log, a) /\ AnswerAskedFor(log, a)
  BY <1>1, <1>2 DEF CallsAnswered, AnswerAskedFor
<1> QED BY <1>1, <1>2, <1>3 DEF Paired

\* What is cut off begins a turn: the end of a paired transcript from a message
\* of the user on is paired.
LEMMA TailIsPaired ==
    ASSUME NEW log \in Seq(Messages), Paired(log), NEW n \in 0 .. Len(log) - 1,
           log[n + 1].role = "user"
    PROVE  Paired(SubSeq(log, n + 1, Len(log)))
<1>1. DOMAIN log = 1 .. Len(log) /\ Len(log) \in Nat /\ \A i \in 1 .. Len(log) : log[i].calls \in Nat
  <2>1. \A e \in Messages : e.calls \in Nat
    BY DEF Messages
  <2> QED BY <2>1
<1>2. PICK rest : rest = SubSeq(log, n + 1, Len(log))
  OBVIOUS
<1>3. rest \in Seq(Messages) /\ Len(rest) = Len(log) - n
  <2>1. n + 1 \in Int /\ Len(log) \in Int /\ \A i \in n + 1 .. Len(log) : log[i] \in Messages
    OBVIOUS
  <2> QED BY <1>2, <2>1, SubSeqProperties
<1>4. \A i \in 1 .. Len(rest) : rest[i] = log[n + i]
  <2>1. n + 1 \in Int /\ Len(log) \in Int /\ \A i \in n + 1 .. Len(log) : log[i] \in Messages
    OBVIOUS
  <2>2. \A i \in 1 .. Len(log) - (n + 1) + 1 : SubSeq(log, n + 1, Len(log))[i] = log[n + 1 + i - 1]
    BY <2>1, SubSeqProperties
  <2>3. \A i \in 1 .. Len(rest) : n + 1 + i - 1 = n + i
    BY <1>3
  <2> QED BY <1>2, <1>3, <2>2, <2>3
<1>5. DOMAIN rest = 1 .. Len(rest) /\ Len(rest) \in Nat
  BY <1>3
<1>6. ASSUME NEW i \in DOMAIN rest PROVE CallsAnswered(rest, i)
  <2>1. rest[i] = log[n + i] /\ n + i \in DOMAIN log /\ CallsAnswered(log, n + i)
    BY <1>1, <1>3, <1>4, <1>5 DEF Paired
  <2> SUFFICES ASSUME NEW k \in 1 .. rest[i].calls, rest[i].role = "assistant"
               PROVE  i + k \in DOMAIN rest /\ rest[i + k].role = "tool" /\ rest[i + k].calls = k
    BY DEF CallsAnswered
  <2>2. n + i + k \in DOMAIN log /\ log[n + i + k].role = "tool" /\ log[n + i + k].calls = k
    BY <2>1 DEF CallsAnswered
  <2>3. i + k \in DOMAIN rest /\ n + (i + k) = n + i + k
    BY <1>1, <1>3, <1>5, <2>1, <2>2
  <2> QED BY <1>4, <1>5, <2>2, <2>3
<1>7. ASSUME NEW i \in DOMAIN rest PROVE AnswerAskedFor(rest, i)
  <2>1. rest[i] = log[n + i] /\ n + i \in DOMAIN log /\ AnswerAskedFor(log, n + i)
    BY <1>1, <1>3, <1>4, <1>5 DEF Paired
  <2> SUFFICES ASSUME rest[i].role = "tool"
               PROVE  /\ i > rest[i].calls
                      /\ rest[i - rest[i].calls].role = "assistant"
                      /\ rest[i - rest[i].calls].calls >= rest[i].calls
    BY DEF AnswerAskedFor
  <2>2. PICK c \in Nat : c = rest[i].calls /\ c = log[n + i].calls
    BY <1>1, <2>1
  <2>3. n + i > c /\ log[n + i - c].role = "assistant" /\ log[n + i - c].calls >= c
    <3>1. PICK p : p = n + i
      OBVIOUS
    <3>2. log[p].role = "tool" /\ AnswerAskedFor(log, p) /\ log[p].calls = c
      BY <2>1, <2>2, <3>1, Zenon
    <3>3. p > c /\ log[p - c].role = "assistant" /\ log[p - c].calls >= c
      BY <3>2, Zenon DEF AnswerAskedFor
    <3> QED BY <1>5, <3>1, <3>3
  <2>4. i > c
    <3> SUFFICES ASSUME ~(i > c) PROVE FALSE
      OBVIOUS
    <3>1. n + i - c \in DOMAIN log /\ n + i - c <= n
      BY <1>1, <1>5, <2>1, <2>3
    <3>2. n + 1 - (n + i - c) \in 1 .. c
      BY <1>1, <1>5, <3>1
    <3>3. CallsAnswered(log, n + i - c)
      BY <3>1 DEF Paired
    <3>4. c <= log[n + i - c].calls /\ log[n + i - c].calls \in Nat
      BY <1>1, <2>3, <3>1
    <3>5. n + 1 - (n + i - c) \in 1 .. log[n + i - c].calls
      BY <3>2, <3>4
    <3>6. log[(n + i - c) + (n + 1 - (n + i - c))].role = "tool"
      BY <2>3, <3>3, <3>5 DEF CallsAnswered
    <3>7. (n + i - c) + (n + 1 - (n + i - c)) = n + 1
      BY <1>5
    <3> QED BY <3>6, <3>7
  <2>5. i - c \in 1 .. Len(rest) /\ n + (i - c) = n + i - c
    BY <1>5, <2>4
  <2> QED BY <1>4, <2>2, <2>3, <2>4, <2>5
<1>8. rest[1].role = "user"
  <2>1. 1 \in 1 .. Len(rest)
    BY <1>3
  <2> QED BY <1>4, <2>1
<1>9. Paired(rest)
  BY <1>6, <1>7, <1>8 DEF Paired
<1> QED BY <1>2, <1>9

LEMMA NotTheLast ==
    ASSUME NEW m \in Nat, NEW n \in 0 .. m, n # m
    PROVE  n \in 0 .. m - 1 /\ n + 1 \in 1 .. m
OBVIOUS

\* trimHistory cuts between turns.
LEMMA TrimIsPaired ==
    ASSUME NEW log \in Seq(Messages), Paired(log)
    PROVE  Paired(Trim(log))
<1> DEFINE After(i) == {j \in Turns(log) : j > i}
           dropped  == {i \in DOMAIN log : Cardinality(After(i)) >= MaxTurns}
<1>1. DOMAIN log = 1 .. Len(log) /\ Len(log) \in Nat /\ MaxTurns \in Nat
  BY ChatAssumption
<1>2. IsFiniteSet(1 .. Len(log))
  BY <1>1, FS_Interval
<1>3. ASSUME NEW i PROVE IsFiniteSet(After(i)) /\ Cardinality(After(i)) \in Nat
  <2>1. After(i) \subseteq 1 .. Len(log)
    BY <1>1 DEF Turns
  <2>2. IsFiniteSet(After(i))
    BY <1>2, <2>1, FS_Subset
  <2> QED BY <2>2, FS_CardinalityType
<1>4. CASE MaxTurns = 0 \/ Cardinality(Turns(log)) <= MaxTurns
  BY <1>4 DEF Trim
<1>5. CASE ~(MaxTurns = 0 \/ Cardinality(Turns(log)) <= MaxTurns)
  <2>1. dropped \in SUBSET (1 .. Len(log))
    BY <1>1
  <2>2. ASSUME NEW i \in dropped, NEW j \in 1 .. i PROVE j \in dropped
    <3>1. After(i) \subseteq After(j) /\ j \in DOMAIN log
      BY <1>1, <2>1, <2>2 DEF Turns
    <3>2. Cardinality(After(i)) <= Cardinality(After(j))
      BY <1>3, <3>1, FS_Subset
    <3>3. Cardinality(After(i)) \in Nat /\ Cardinality(After(j)) \in Nat
      BY <1>3
    <3>4. Cardinality(After(i)) >= MaxTurns
      OBVIOUS
    <3> HIDE DEF After
    <3>5. Cardinality(After(j)) >= MaxTurns
      BY <1>1, <3>2, <3>3, <3>4
    <3> QED BY <3>1, <3>5
  <2>3. PICK n \in 0 .. Len(log) : Cardinality(dropped) = n /\ dropped = 1 .. n
    <3> HIDE DEF dropped
    <3> QED BY <1>1, <2>1, <2>2, HeadIsInterval
  <2>4. Trim(log) = SubSeq(log, n + 1, Len(log))
    BY <1>5, <2>3, Zenon DEF Trim
  <2>5. n # Len(log)
    <3> SUFFICES ASSUME n = Len(log) PROVE FALSE
      OBVIOUS
    <3>1. CASE n = 0
      <4>1. Turns(log) = {}
        BY <1>1, <3>1 DEF Turns
      <4> QED BY <1>1, <1>5, <4>1, FS_EmptySet
    <3>2. CASE n # 0
      <4>1. n \in dropped
        BY <2>3, <3>2
      <4>2. After(n) = {}
        BY <1>1 DEF Turns
      <4>3. Cardinality(After(n)) = 0
        BY <4>2, FS_EmptySet
      <4>4. Cardinality(After(n)) >= MaxTurns
        BY <4>1
      <4> HIDE DEF After
      <4> QED BY <1>1, <1>5, <4>3, <4>4
    <3> QED BY <3>1, <3>2
  <2>6. n + 1 \in DOMAIN log /\ n + 1 \notin dropped
    <3>1. dropped = 1 .. n
      BY <2>3
    <3> HIDE DEF dropped
    <3>2. n + 1 \notin dropped
      BY <3>1
    <3>3. n + 1 \in 1 .. Len(log)
      BY <1>1, <2>5, NotTheLast
    <3> QED BY <1>1, <3>2, <3>3
  <2>7. log[n + 1].role = "user"
    <3>1. CASE n = 0
      BY <1>1, <2>6, <3>1 DEF Paired
    <3>2. CASE n # 0
      <4>1. n \in dropped
        <5>1. dropped = 1 .. n
          BY <2>3
        <5> HIDE DEF dropped
        <5> QED BY <3>2, <5>1
      <4>2. Cardinality(After(n)) >= MaxTurns
        BY <4>1
      <4>3. ~(Cardinality(After(n + 1)) >= MaxTurns)
        BY <2>6
      <4>4. After(n) # After(n + 1)
        <5> HIDE DEF After
        <5> QED BY <4>2, <4>3
      <4>5. \A j \in After(n) : j > n + 1 \/ j = n + 1
        BY <1>1 DEF Turns
      <4>6. After(n + 1) \subseteq After(n)
        BY <1>1 DEF Turns
      <4>7. n + 1 \in Turns(log)
        BY <4>4, <4>5, <4>6
      <4> QED BY <4>7 DEF Turns
    <3> QED BY <3>1, <3>2
  <2>8. n \in 0 .. Len(log) - 1
    BY <1>1, <2>5, NotTheLast
  <2> QED BY <2>4, <2>7, <2>8, TailIsPaired
<1> QED BY <1>4, <1>5

------------------------------------------------------------------------------
LEMMA SettleTalks ==
    ASSUME TalkInv, NEW log, Paired(log), Settle(log) \/ Abandon
    PROVE  TalkInv'
<1>1. turn' = NoTurn /\ (history' = log \/ history' = history)
  BY DEF Settle, Abandon
<1>2. turn'.at = "idle"
  BY <1>1 DEF NoTurn
<1> QED BY <1>1, <1>2 DEF TalkInv, Paired, CallsAnswered, AnswerAskedFor

LEMMA NextRoundTalks ==
    ASSUME Inv, TalkInv, NEW log, Paired(log), log # <<>>, NEW round, NextRound(log, round)
    PROVE  TalkInv'
<1>1. CASE Settle(log) \/ Abandon
  BY <1>1, SettleTalks
<1>2. CASE /\ turn' = [turn EXCEPT !.at = "llm", !.log = log, !.round = round]
           /\ UNCHANGED history
  <2>1. turn'.at = "llm" /\ turn'.log = log
    BY <1>2 DEF Inv, ChatInv, ChatTyped, TurnType
  <2> QED BY <1>2, <2>1 DEF TalkInv, Paired, CallsAnswered, AnswerAskedFor
<1> QED BY <1>1, <1>2, Zenon DEF NextRound

LEMMA NextCallTalks ==
    ASSUME Inv, TalkInv, NEW log \in Seq(Messages), NEW asked \in Nat, NEW todo \in Nat,
           HalfPaired(log, asked, todo), NextCall(log, asked, todo)
    PROVE  TalkInv'
<1>1. CASE Abandon
  BY <1>1, SettleTalks DEF TalkInv
<1>2. CASE todo = 0 /\ NextRound(log, turn.round + 1)
  BY <1>2, AllAnswered, NextRoundTalks
<1>3. CASE /\ turn' = [turn EXCEPT !.at = "tool", !.log = log, !.asked = asked, !.todo = todo]
           /\ UNCHANGED history
  <2>1. turn'.at = "tool" /\ turn'.log = log /\ turn'.asked = asked /\ turn'.todo = todo
    BY <1>3 DEF Inv, ChatInv, ChatTyped, TurnType
  <2> QED BY <1>3, <2>1 DEF TalkInv, Paired, CallsAnswered, AnswerAskedFor
<1> QED BY <1>1, <1>2, <1>3, Zenon DEF NextCall

LEMMA ToolAnsweredTalks ==
    ASSUME Inv, TalkInv, turn.at = "tool", ToolAnswered
    PROVE  TalkInv'
<1> DEFINE m   == Message("tool", turn.asked - turn.todo + 1)
           log == Append(turn.log, m)
<1>1. turn.asked \in Nat /\ turn.todo \in 1 .. turn.asked /\ turn.log \in Seq(Messages)
  BY ChatAssumption DEF Inv, ChatInv, ChatTyped, TurnType
<1>2. m \in Said /\ m.role = "tool" /\ m.calls = turn.asked - turn.todo + 1
  BY <1>1, MessageSaid DEF Inv, Busy, Message
<1>3. m \in Messages
  BY <1>2 DEF Said
<1>4. HalfPaired(turn.log, turn.asked, turn.todo) /\ NextCall(log, turn.asked, turn.todo - 1)
  BY DEF TalkInv, ToolAnswered
<1> HIDE DEF m
<1>5. HalfPaired(log, turn.asked, turn.todo - 1) /\ log \in Seq(Messages)
  BY <1>1, <1>2, <1>3, <1>4, AnswerKeeps, AppendProperties
<1> HIDE DEF log
<1> QED BY <1>1, <1>4, <1>5, NextCallTalks

LEMMA ChatStepTalks ==
    ASSUME Inv, TalkInv, ChatStep
    PROVE  TalkInv'
<1>0. history \in Seq(Messages) /\ turn.log \in Seq(Messages)
  BY DEF Inv, ChatInv, ChatTyped, TurnType, Said
<1>1. CASE Send
  <2>1. turn' = [NoTurn EXCEPT !.at = "tools", !.session = session, !.seen = Listed]
    BY <1>1 DEF Send
  <2>2. turn' \in TurnType /\ turn'.at = "tools"
    <3>1. Listed \subseteq A2aTool /\ session \in Nat
      BY DEF Inv, SourceInv, SourceTypeOK, Entry, Listed, ChatInv, ChatTyped
    <3> QED BY <2>1, <3>1, NoTurnTyped DEF TurnType
  <2> QED BY <1>1, <2>2 DEF Send, TalkInv
<1>2. CASE ToolsArrive
  <2> DEFINE log == Append(Trim(history), Message("user", 0))
  <2>1. Trim(history) \in Seq(Messages) /\ Paired(Trim(history))
    BY <1>0, TrimKeeps, TrimIsPaired DEF TalkInv
  <2>2. Message("user", 0) \in Messages /\ Message("user", 0).role = "user"
    BY <1>2, MessageSaid DEF ToolsArrive, Inv, Busy, Said, Message
  <2>3. Paired(log) /\ log # <<>>
    BY <2>1, <2>2, PlainMessageKeeps
  <2>4. NextRound(log, 1)
    BY <1>2 DEF ToolsArrive
  <2> HIDE DEF log
  <2> QED BY <2>3, <2>4, NextRoundTalks
<1>3. CASE TurnFails
  BY <1>3, SettleTalks DEF TurnFails, TalkInv
<1>4. CASE ToolReturns
  BY <1>4, ToolAnsweredTalks DEF ToolReturns
<1>5. CASE Abort
  <2>1. turn'.at = turn.at /\ turn'.log = turn.log /\ turn'.asked = turn.asked /\ turn'.todo = turn.todo
    BY <1>5 DEF Abort, Inv, ChatInv, ChatTyped, TurnType
  <2>2. history' = history
    BY <1>5 DEF Abort
  <2> QED BY <2>1, <2>2 DEF TalkInv, Paired, HalfPaired, CallsAnswered, AnswerAskedFor
<1>6. ASSUME NEW k \in 0 .. MaxToolCalls, ModelAnswers(k)
      PROVE  TalkInv'
  <2> DEFINE m   == Message("assistant", k)
             log == Append(turn.log, m)
  <2>1. k \in Nat /\ turn.at = "llm" /\ Paired(turn.log) /\ turn.log # <<>>
    BY <1>6, ChatAssumption DEF ModelAnswers, TalkInv
  <2>2. m \in Messages /\ m.role = "assistant" /\ m.calls = k
    BY <2>1, MessageSaid DEF Inv, Busy, Said, Message
  <2>3. \/ Abandon
        \/ k = 0 /\ Settle(log)
        \/ NextCall(log, k, k)
    BY <1>6 DEF ModelAnswers
  <2> HIDE DEF m
  <2>4. /\ k = 0 => Paired(log)
        /\ HalfPaired(log, k, k) /\ log \in Seq(Messages)
    BY <1>0, <2>1, <2>2, PlainMessageKeeps, CallingMessageKeeps, AppendProperties
  <2> HIDE DEF log
  <2>5. CASE Abandon
    BY <2>5, SettleTalks DEF TalkInv
  <2>6. CASE k = 0 /\ Settle(log)
    BY <2>4, <2>6, SettleTalks
  <2>7. CASE NextCall(log, k, k)
    BY <2>1, <2>4, <2>7, NextCallTalks
  <2> QED BY <2>3, <2>5, <2>6, <2>7
<1>7. CASE RequestSwitch \/ RelayReports
  BY <1>7 DEF RequestSwitch, RelayReports, TalkInv, Paired, HalfPaired, CallsAnswered,
              AnswerAskedFor
<1>8. CASE ConfirmSwitch
  <2>1. history' = <<>> /\ turn' = turn /\ turn.at = "idle"
    BY <1>8 DEF ConfirmSwitch, Locked, Busy
  <2> QED BY <2>1 DEF TalkInv, Paired
<1> QED BY <1>1, <1>2, <1>3, <1>4, <1>5, <1>6, <1>7, <1>8 DEF ChatStep

\* The history, and what is sent to the model, are conversations in which every
\* call of a tool is answered, however the turns ended and wherever the history
\* was trimmed (runAgentLoop, trimHistory).
THEOREM TranscriptsPaired == Spec => []TranscriptsArePaired
<1>1. Init => TalkInv
  <2> SUFFICES ASSUME Init PROVE TalkInv
    OBVIOUS
  <2>1. history = <<>> /\ turn = NoTurn
    BY DEF Init
  <2>2. turn.at = "idle"
    BY <2>1 DEF NoTurn
  <2> QED BY <2>1, <2>2 DEF TalkInv, Paired
<1>2. Inv /\ TalkInv /\ [Next]_vars => TalkInv'
  <2> SUFFICES ASSUME Inv, TalkInv, [Next]_vars PROVE TalkInv'
    OBVIOUS
  <2>1. CASE UNCHANGED chatVars
    BY <2>1 DEF chatVars, TalkInv, Paired, HalfPaired, CallsAnswered, AnswerAskedFor
  <2>2. CASE ChatStep
    BY <2>2, ChatStepTalks
  <2>3. CASE ChatCalls
    BY <2>1, <2>3, ToolAnsweredTalks DEF ChatCalls
  <2>4. ASSUME NEW c \in Caller, CallGoesOn(c)
        PROVE  TalkInv'
    <3>1. Open(c)
      BY <2>4 DEF CallGoesOn, Settles, SendAnswers, TaskPending, PollSettles,
                  PollPending, DifyAnswers, DifyGoesIdle, Open
    <3> QED BY <2>1, <2>4, <3>1, ToolAnsweredTalks DEF CallGoesOn, Inv, ChatWaits
  <2> QED BY <2>1, <2>2, <2>3, <2>4 DEF Next, vars, DebugCalls
<1>3. TalkInv => TranscriptsArePaired
  BY DEF TalkInv, TranscriptsArePaired
<1> QED BY <1>1, <1>2, <1>3, ChatInvariant, PTL DEF Spec

------------------------------------------------------------------------------
(* The form of Anthropic's protocol.                                       *)

\* A set of numbers that is not empty has a least one, and one with 0 and with the
\* successor of each of its members is the whole of Nat.
LEMMA LeastOf ==
    ASSUME NEW S \in SUBSET Nat, S # {}
    PROVE  \E n \in S : \A m \in S : n <= m
<1>1. PICK n \in S : \A m \in S : <<m, n>> \notin OpToRel(<, Nat)
  BY NatLessThanWellFounded, WFMin
<1>2. \A m \in S : m < n => <<m, n>> \in OpToRel(<, Nat)
  BY DEF OpToRel
<1>3. \A m \in S : ~ (m < n)
  BY <1>1, <1>2, Zenon
<1> QED BY <1>3

LEMMA Induct ==
    ASSUME NEW S \in SUBSET Nat, 0 \in S, \A n \in S : n + 1 \in S
    PROVE  S = Nat
<1> SUFFICES ASSUME Nat \ S # {} PROVE FALSE
  OBVIOUS
<1>1. PICK n \in Nat \ S : \A m \in Nat \ S : n <= m
  BY LeastOf
<1>2. n # 0 /\ n - 1 \in Nat /\ n - 1 \in S
  BY <1>1
<1> QED BY <1>2

WireMessage == [role : {"user", "assistant"}, uses : Nat, results : Seq(Nat)]

\* A conversation in that form in which the last message of the model uses n tools and
\* the message after it, if c > 0, has the results of the first c of them.
HalfWired(wire, n, c) ==
    /\ wire \in Seq(WireMessage) /\ n \in Nat /\ c \in 0 .. n
    /\ wire = <<>> => n = 0
    /\ c = 0 /\ wire # <<>> => wire[Len(wire)].uses = n
    /\ c > 0 => Len(wire) > 1 /\ wire[Len(wire) - 1].uses = n /\ wire[Len(wire)].uses = 0
    /\ wire # <<>> => wire[Len(wire)].results = [k \in 1 .. c |-> k]
    /\ \A i \in 1 .. Len(wire) - 1 :
          wire[i].uses > 0 /\ (i = Len(wire) - 1 => c = 0) =>
              wire[i + 1].results = [k \in 1 .. wire[i].uses |-> k]
    /\ \A i \in 1 .. Len(wire) - 1 :
          wire[i].results # <<>> => i > 1 /\ wire[i - 1].uses = Len(wire[i].results)

\* Where message k of a log stands in the answers to the last message of the model.
Place(log, k, n, c) ==
    /\ k = 0 => n = 0 /\ c = 0
    /\ k > 0 /\ log[k].role = "user" => n = 0 /\ c = 0
    /\ k > 0 /\ log[k].role = "assistant" => n = log[k].calls /\ c = 0
    /\ k > 0 /\ log[k].role = "tool" => c = log[k].calls /\ n = log[k - c].calls

\* With every call answered, such a conversation is what Anthropic asks for.
LEMMA WholeIsPaired ==
    ASSUME NEW wire, NEW n, HalfWired(wire, n, n)
    PROVE  WirePaired(wire)
<1> DEFINE l == Len(wire)
<1>1. wire \in Seq(WireMessage) /\ n \in Nat /\ l \in Nat /\ DOMAIN wire = 1 .. l
  BY DEF HalfWired
<1>2. l > 0 => wire # <<>>
  OBVIOUS
<1>3. /\ n = 0 /\ wire # <<>> => wire[l].uses = n
      /\ n > 0 => l > 1 /\ wire[l - 1].uses = n /\ wire[l].uses = 0
      /\ wire # <<>> => wire[l].results = [k \in 1 .. n |-> k]
  BY DEF HalfWired
<1>4. /\ \A i \in 1 .. l - 1 :
            wire[i].uses > 0 /\ (i = l - 1 => n = 0) =>
                wire[i + 1].results = [k \in 1 .. wire[i].uses |-> k]
      /\ \A i \in 1 .. l - 1 :
            wire[i].results # <<>> => i > 1 /\ wire[i - 1].uses = Len(wire[i].results)
  BY DEF HalfWired
<1>5. Len([k \in 1 .. n |-> k]) = n /\ <<>> = [k \in 1 .. 0 |-> k]
  BY <1>1
<1> HIDE DEF l
<1>6. ASSUME NEW i \in 1 .. l, wire[i].uses > 0
      PROVE  i < l /\ wire[i + 1].results = [k \in 1 .. wire[i].uses |-> k]
  <2>1. i # l
    BY <1>1, <1>2, <1>3, <1>6
  <2>2. i \in 1 .. l - 1 /\ i < l
    BY <1>1, <2>1
  <2>3. CASE i = l - 1 /\ n > 0
    <3>1. i + 1 = l /\ wire[l].results = [k \in 1 .. n |-> k] /\ wire[i].uses = n
      BY <1>1, <1>2, <1>3, <2>3
    <3> QED BY <2>2, <3>1
  <2>4. CASE i # l - 1 \/ n = 0
    BY <1>4, <1>6, <2>2, <2>4
  <2> QED BY <1>1, <2>3, <2>4
<1>7. ASSUME NEW i \in 1 .. l, wire[i].results # <<>>
      PROVE  i > 1 /\ wire[i - 1].uses = Len(wire[i].results)
  <2>1. CASE i = l
    <3>1. wire[l].results = [k \in 1 .. n |-> k]
      BY <1>1, <1>2, <1>3, <2>1
    <3>2. n # 0
      BY <1>5, <1>7, <2>1, <3>1
    <3> QED BY <1>1, <1>3, <1>5, <2>1, <3>1, <3>2
  <2>2. CASE i # l
    BY <1>1, <1>4, <1>7, <2>2
  <2> QED BY <2>1, <2>2
<1> QED BY <1>1, <1>6, <1>7 DEF WirePaired, l

\* A message that is no answer comes when nothing is left to answer.
LEMMA PlainWired ==
    ASSUME NEW wire, NEW n, NEW message \in Messages, message.role # "tool", HalfWired(wire, n, n)
    PROVE  HalfWired(ToWire(wire, message),
                     IF message.role = "assistant" THEN message.calls ELSE 0, 0)
<1> DEFINE m == IF message.role = "assistant" THEN message.calls ELSE 0
           new == [role |-> IF message.role = "assistant" THEN "assistant" ELSE "user",
                   uses |-> m, results |-> <<>>]
           l == Len(wire)
           longer == Append(wire, new)
<1>1. ToWire(wire, message) = longer
  BY DEF ToWire
<1>2. /\ m \in Nat /\ new \in WireMessage /\ new.uses = m /\ new.results = <<>>
      /\ wire \in Seq(WireMessage) /\ n \in Nat /\ l \in Nat
  BY DEF HalfWired, Messages, WireMessage
<1> HIDE DEF m, new
<1>3. /\ longer \in Seq(WireMessage) /\ Len(longer) = l + 1 /\ longer # <<>>
      /\ longer[l + 1] = new /\ \A i \in 1 .. l : longer[i] = wire[i]
  BY <1>2
<1> HIDE DEF longer
<1>4. <<>> = [k \in 1 .. 0 |-> k]
  OBVIOUS
<1>5. /\ \A i \in 1 .. l : wire[i].uses > 0 =>
            i < l /\ wire[i + 1].results = [k \in 1 .. wire[i].uses |-> k]
      /\ \A i \in 1 .. l : wire[i].results # <<>> =>
            i > 1 /\ wire[i - 1].uses = Len(wire[i].results)
  <2>1. WirePaired(wire) /\ DOMAIN wire = 1 .. l
    BY <1>2, WholeIsPaired
  <2> QED BY <2>1 DEF WirePaired
<1>6. ASSUME NEW i \in 1 .. l, longer[i].uses > 0
      PROVE  longer[i + 1].results = [k \in 1 .. longer[i].uses |-> k]
  <2>1. wire[i].uses > 0 /\ i < l /\ wire[i + 1].results = [k \in 1 .. wire[i].uses |-> k]
    BY <1>3, <1>5, <1>6
  <2>2. i + 1 \in 1 .. l
    BY <1>2, <2>1
  <2> QED BY <1>3, <2>1, <2>2
<1>7. ASSUME NEW i \in 1 .. l, longer[i].results # <<>>
      PROVE  i > 1 /\ longer[i - 1].uses = Len(longer[i].results)
  <2>1. i > 1 /\ wire[i - 1].uses = Len(wire[i].results)
    BY <1>3, <1>5, <1>7
  <2>2. i - 1 \in 1 .. l
    BY <1>2, <2>1
  <2> QED BY <1>3, <2>1, <2>2
<1>8. HalfWired(longer, m, 0)
  BY <1>2, <1>3, <1>4, <1>6, <1>7 DEF HalfWired
<1> QED BY <1>1, <1>8 DEF m

\* The answer to the next of the calls goes into the message of the results.
LEMMA AnswerWired ==
    ASSUME NEW wire, NEW n, NEW c, HalfWired(wire, n, c), c < n,
           NEW message \in Messages, message.role = "tool", message.calls = c + 1
    PROVE  HalfWired(ToWire(wire, message), n, c + 1)
<1> DEFINE l == Len(wire)
<1>1. wire \in Seq(WireMessage) /\ n \in Nat /\ c \in Nat /\ l \in Nat /\ wire # <<>> /\ l > 0
  BY DEF HalfWired
<1>2. wire[l].results = [k \in 1 .. c |-> k] /\ Len([k \in 1 .. c |-> k]) = c
  BY <1>1 DEF HalfWired
<1>3. CASE c = 0
  <2> DEFINE new == [role |-> "user", uses |-> 0, results |-> <<1>>]
             longer == Append(wire, new)
  <2>1. ToWire(wire, message) = longer
    <3>1. wire[l].results = <<>>
      BY <1>2, <1>3
    <3> QED BY <1>3, <3>1 DEF ToWire, Last
  <2>2. new \in WireMessage /\ new.uses = 0 /\ new.results = <<1>> /\ <<1>> = [k \in 1 .. 1 |-> k]
    BY DEF WireMessage
  <2> HIDE DEF new
  <2>3. /\ longer \in Seq(WireMessage) /\ Len(longer) = l + 1 /\ longer # <<>>
        /\ longer[l + 1] = new /\ \A i \in 1 .. l : longer[i] = wire[i]
    BY <1>1, <2>2
  <2> HIDE DEF longer
  <2>4. wire[l].uses = n /\ wire[l].results = <<>>
    BY <1>1, <1>2, <1>3 DEF HalfWired
  <2>5. ASSUME NEW i \in 1 .. l, longer[i].uses > 0, i # l
        PROVE  longer[i + 1].results = [k \in 1 .. longer[i].uses |-> k]
    <3>1. i \in 1 .. l - 1 /\ i + 1 \in 1 .. l
      BY <1>1, <2>5
    <3> QED BY <1>3, <2>3, <2>5, <3>1 DEF HalfWired
  <2>6. ASSUME NEW i \in 1 .. l, longer[i].results # <<>>
        PROVE  i > 1 /\ longer[i - 1].uses = Len(longer[i].results)
    <3>1. i \in 1 .. l - 1
      BY <1>1, <2>3, <2>4, <2>6
    <3>2. i > 1 /\ wire[i - 1].uses = Len(wire[i].results)
      BY <2>3, <2>6, <3>1 DEF HalfWired
    <3> QED BY <1>1, <2>3, <3>2
  <2>7. HalfWired(longer, n, 1)
    <3>1. 1 \in 0 .. n /\ Len(longer) - 1 = l /\ Len(longer) > 1
      BY <1>1, <1>3, <2>3
    <3>2. /\ longer[Len(longer) - 1].uses = n /\ longer[Len(longer)].uses = 0
          /\ longer[Len(longer)].results = [k \in 1 .. 1 |-> k]
      BY <1>1, <2>2, <2>3, <2>4, <3>1
    <3>3. \A i \in 1 .. Len(longer) - 1 :
             longer[i].uses > 0 /\ (i = Len(longer) - 1 => 1 = 0) =>
               longer[i + 1].results = [k \in 1 .. longer[i].uses |-> k]
      BY <2>5, <3>1
    <3>4. \A i \in 1 .. Len(longer) - 1 : longer[i].results # <<>> =>
             i > 1 /\ longer[i - 1].uses = Len(longer[i].results)
      BY <2>6, <3>1
    <3>5. longer \in Seq(WireMessage) /\ longer # <<>> /\ n \in Nat /\ 1 # 0
      BY <1>1, <2>3
    <3> QED BY <3>1, <3>2, <3>3, <3>4, <3>5, Zenon DEF HalfWired
  <2> QED BY <1>3, <2>1, <2>7
<1>4. CASE c > 0
  <2> DEFINE more    == Append(wire[l].results, c + 1)
             changed == [wire EXCEPT ![l].results = more]
  <2>1. ToWire(wire, message) = changed
    <3>1. wire[l].results # <<>>
      BY <1>1, <1>2, <1>4
    <3> QED BY <1>1, <3>1 DEF ToWire, Last
  <2>2. more = [k \in 1 .. c + 1 |-> k] /\ more \in Seq(Nat)
    BY <1>1, <1>2
  <2> HIDE DEF more
  <2>3. /\ changed \in Seq(WireMessage) /\ Len(changed) = l /\ changed # <<>>
        /\ changed[l].results = more /\ changed[l].uses = wire[l].uses
        /\ \A i \in 1 .. l - 1 : changed[i] = wire[i]
    <3>1. wire \in [1 .. l -> WireMessage] /\ wire[l] \in WireMessage
      BY <1>1
    <3>2. [wire[l] EXCEPT !.results = more] \in WireMessage
      BY <2>2, <3>1 DEF WireMessage
    <3>3. changed = [wire EXCEPT ![l] = [wire[l] EXCEPT !.results = more]]
      BY <3>1
    <3>4. /\ [wire[l] EXCEPT !.results = more].results = more
          /\ [wire[l] EXCEPT !.results = more].uses = wire[l].uses
      BY <3>1 DEF WireMessage
    <3> HIDE DEF changed
    <3>5. changed \in Seq(WireMessage) /\ Len(changed) = l
      BY <1>1, <3>2, <3>3, ExceptSeq
    <3>6. changed[l] = [wire[l] EXCEPT !.results = more] /\ \A i \in 1 .. l - 1 : changed[i] = wire[i]
      BY <1>1, <3>1, <3>3
    <3> QED BY <1>1, <3>4, <3>5, <3>6
  <2> HIDE DEF changed
  <2>4. l > 1 /\ wire[l - 1].uses = n /\ wire[l].uses = 0
    BY <1>4 DEF HalfWired
  <2>5. ASSUME NEW i \in 1 .. l - 1, i # l - 1, changed[i].uses > 0
        PROVE  changed[i + 1].results = [k \in 1 .. changed[i].uses |-> k]
    <3>1. i + 1 \in 1 .. l - 1
      BY <1>1, <2>5
    <3> QED BY <2>3, <2>5, <3>1 DEF HalfWired
  <2>6. ASSUME NEW i \in 1 .. l - 1, changed[i].results # <<>>
        PROVE  i > 1 /\ changed[i - 1].uses = Len(changed[i].results)
    <3>1. i > 1 /\ wire[i - 1].uses = Len(wire[i].results)
      BY <2>3, <2>6 DEF HalfWired
    <3> QED BY <1>1, <2>3, <3>1
  <2>7. HalfWired(changed, n, c + 1)
    BY <1>1, <1>4, <2>2, <2>3, <2>4, <2>5, <2>6 DEF HalfWired
  <2> QED BY <2>1, <2>7
<1> QED BY <1>1, <1>3, <1>4

\* What Paired says of one message, as facts about numbers and roles.
LEMMA RolesAndCalls ==
    ASSUME NEW log \in Seq(Messages), NEW i \in 1 .. Len(log)
    PROVE  log[i].calls \in Nat /\ log[i].role \in {"user", "assistant", "tool"}
<1>1. log[i] \in Messages
  OBVIOUS
<1> QED BY <1>1 DEF Messages

LEMMA AnswersOf ==
    ASSUME NEW log \in Seq(Messages), Paired(log), NEW i \in 1 .. Len(log),
           log[i].role = "assistant", NEW k \in 1 .. log[i].calls
    PROVE  i + k \in 1 .. Len(log) /\ log[i + k].role = "tool" /\ log[i + k].calls = k
<1>1. DOMAIN log = 1 .. Len(log)
  BY LenProperties
<1>2. CallsAnswered(log, i)
  BY <1>1 DEF Paired
<1> QED BY <1>1, <1>2 DEF CallsAnswered

LEMMA CallOf ==
    ASSUME NEW log \in Seq(Messages), Paired(log), NEW i \in 1 .. Len(log), log[i].role = "tool"
    PROVE  /\ log[i].calls \in 1 .. i - 1
           /\ i - log[i].calls \in 1 .. Len(log)
           /\ log[i - log[i].calls].role = "assistant"
           /\ log[i - log[i].calls].calls \in Nat
           /\ log[i - log[i].calls].calls >= log[i].calls
<1> DEFINE m == log[i].calls
<1>1. DOMAIN log = 1 .. Len(log) /\ Len(log) \in Nat /\ m \in Nat
  BY LenProperties, RolesAndCalls
<1>2. AnswerAskedFor(log, i)
  BY <1>1 DEF Paired
<1>3. i > m /\ log[i - m].role = "assistant" /\ log[i - m].calls >= m
  BY <1>2 DEF AnswerAskedFor
<1> HIDE DEF m
<1>4. m # 0
  BY <1>3
<1>5. i - m \in 1 .. Len(log) /\ m \in 1 .. i - 1
  BY <1>1, <1>3, <1>4
<1>6. log[i - m].calls \in Nat
  BY <1>5, RolesAndCalls
<1> QED BY <1>3, <1>5, <1>6 DEF m

\* What message k + 1 of a paired log is, after what message k was.
LEMMA NextPlace ==
    ASSUME NEW log \in Seq(Messages), Paired(log), NEW k \in Nat, k < Len(log),
           NEW n, NEW c, Place(log, k, n, c)
    PROVE  /\ log[k + 1].role # "tool" =>
                n = c /\ Place(log, k + 1,
                               IF log[k + 1].role = "assistant" THEN log[k + 1].calls ELSE 0, 0)
           /\ log[k + 1].role = "tool" =>
                c < n /\ log[k + 1].calls = c + 1 /\ Place(log, k + 1, n, c + 1)
<1> DEFINE next == log[k + 1]
<1>1. k + 1 \in 1 .. Len(log) /\ Len(log) \in Nat
  OBVIOUS
<1>2. /\ next.calls \in Nat /\ next.role \in {"user", "assistant", "tool"}
      /\ k > 0 => log[k].calls \in Nat /\ log[k].role \in {"user", "assistant", "tool"}
  BY <1>1, RolesAndCalls
<1>3. CASE next.role # "tool"
  <2>1. n = c
    <3>1. CASE k = 0 \/ log[k].role = "user"
      BY <3>1 DEF Place
    <3>2. CASE k > 0 /\ log[k].role = "assistant"
      <4>1. n = log[k].calls /\ c = 0
        BY <3>2 DEF Place
      <4>2. n > 0 => log[k + 1].role = "tool"
        BY <1>1, <1>2, <3>2, <4>1, AnswersOf
      <4> QED BY <1>2, <1>3, <3>2, <4>1, <4>2
    <3>3. CASE k > 0 /\ log[k].role = "tool"
      <4>1. c = log[k].calls /\ n = log[k - c].calls
        BY <3>3 DEF Place
      <4>2. /\ c \in 1 .. k - 1 /\ log[k - c].role = "assistant" /\ n \in Nat /\ c <= n
            /\ k - c \in 1 .. Len(log)
        BY <1>1, <3>3, <4>1, CallOf
      <4>3. c < n => log[(k - c) + (c + 1)].role = "tool"
        <5>1. c < n => c + 1 \in 1 .. log[k - c].calls
          BY <4>1, <4>2
        <5> QED BY <4>2, <5>1, AnswersOf
      <4>4. (k - c) + (c + 1) = k + 1
        BY <4>2
      <4> QED BY <1>3, <4>2, <4>3, <4>4
    <3> QED BY <1>2, <3>1, <3>2, <3>3
  <2>2. Place(log, k + 1, IF next.role = "assistant" THEN next.calls ELSE 0, 0)
    <3>1. k + 1 > 0
      BY <1>1
    <3> QED BY <1>2, <1>3, <3>1 DEF Place
  <2> QED BY <1>3, <2>1, <2>2
<1>4. CASE next.role = "tool"
  <2> DEFINE m == next.calls
             j == (k + 1) - m
  <2>1. /\ m \in 1 .. k /\ j \in 1 .. Len(log) /\ log[j].role = "assistant"
        /\ log[j].calls \in Nat /\ log[j].calls >= m
    BY <1>1, <1>4, CallOf
  <2> HIDE DEF m
  <2>2. CASE m = 1
    <3>1. j = k /\ k > 0
      BY <2>1, <2>2
    <3>2. n = log[k].calls /\ c = 0
      BY <2>1, <3>1 DEF Place
    <3>3. (k + 1) - (c + 1) = k /\ c + 1 = m /\ c < n
      BY <2>1, <2>2, <3>1, <3>2
    <3>4. next.calls = c + 1 /\ k + 1 > 0
      BY <3>3 DEF m
    <3>5. Place(log, k + 1, n, c + 1)
      BY <1>4, <3>2, <3>3, <3>4 DEF Place
    <3> QED BY <1>4, <3>3, <3>4, <3>5
  <2>3. CASE m > 1
    <3>1. m - 1 \in 1 .. log[j].calls /\ j + (m - 1) = k /\ k > 0
      BY <2>1, <2>3
    <3>2. log[k].role = "tool" /\ log[k].calls = m - 1
      <4>1. log[j + (m - 1)].role = "tool" /\ log[j + (m - 1)].calls = m - 1
        <5> HIDE DEF j
        <5> QED BY <2>1, <3>1, AnswersOf
      <4> QED BY <3>1, <4>1
    <3>3. c = m - 1 /\ n = log[k - c].calls
      BY <3>1, <3>2 DEF Place
    <3>4. k - c = j /\ c + 1 = m /\ (k + 1) - (c + 1) = j
      BY <2>1, <3>3
    <3>5. next.calls = c + 1 /\ k + 1 > 0 /\ c < n
      BY <2>1, <3>3, <3>4 DEF m
    <3>6. Place(log, k + 1, n, c + 1)
      BY <1>4, <3>3, <3>4, <3>5 DEF Place
    <3> QED BY <1>4, <3>5, <3>6
  <2> QED BY <2>1, <2>2, <2>3
<1> QED BY <1>3, <1>4

\* The recursion of Wire has a value, and it is the form of such a conversation.
Form(f, log, n) == f = [k \in 0 .. n |-> IF k = 0 THEN <<>> ELSE ToWire(f[k - 1], log[k])]

LEMMA FormExists ==
    ASSUME NEW log, NEW n \in Nat
    PROVE  \E f : Form(f, log, n)
<1> DEFINE Solved(k) == \E f : Form(f, log, k)
           solved    == {k \in Nat : Solved(k)}
<1>1. 0 \in solved
  <2> DEFINE f == [k \in 0 .. 0 |-> <<>>]
  <2>1. Form(f, log, 0)
    BY DEF Form
  <2> QED BY <2>1
<1>2. ASSUME NEW k \in solved PROVE k + 1 \in solved
  <2>1. k \in Nat
    OBVIOUS
  <2>2. PICK f : Form(f, log, k)
    OBVIOUS
  <2> DEFINE g == [i \in 0 .. k + 1 |-> IF i <= k THEN f[i] ELSE ToWire(f[k], log[i])]
  <2>3. ASSUME NEW i \in 0 .. k + 1
        PROVE  g[i] = IF i = 0 THEN <<>> ELSE ToWire(g[i - 1], log[i])
    <3>1. CASE i <= k
      BY <2>1, <2>2, <3>1 DEF Form
    <3>2. CASE i = k + 1
      BY <2>1, <3>2
    <3> QED BY <2>1, <3>1, <3>2
  <2>4. Form(g, log, k + 1)
    BY <2>3 DEF Form
  <2>5. Solved(k + 1)
    BY <2>4
  <2> HIDE DEF Solved
  <2> QED BY <2>1, <2>5
<1>3. solved \in SUBSET Nat
  OBVIOUS
<1> HIDE DEF solved
<1>4. solved = Nat
  BY <1>1, <1>2, <1>3, Induct
<1> QED BY <1>4 DEF solved

LEMMA WireIsPaired ==
    ASSUME NEW log \in Seq(Messages), Paired(log)
    PROVE  WirePaired(Wire(log))
<1> DEFINE l == Len(log)
           wire == CHOOSE f : Form(f, log, l)
<1>1. l \in Nat /\ DOMAIN log = 1 .. l /\ \A i \in 1 .. l : log[i] \in Messages
  OBVIOUS
<1>2. Form(wire, log, l)
  BY <1>1, FormExists
<1>3. Wire(log) = wire[l]
  BY DEF Wire, Form
<1> HIDE DEF wire
<1> DEFINE Good(k) == k <= l => \E n, c : Place(log, k, n, c) /\ HalfWired(wire[k], n, c)
           good == {k \in Nat : Good(k)}
<1>4. 0 \in good
  <2>1. wire[0] = <<>>
    BY <1>1, <1>2 DEF Form
  <2>2. Place(log, 0, 0, 0)
    BY DEF Place
  <2>3. HalfWired(<<>>, 0, 0)
    BY DEF HalfWired
  <2>4. Good(0)
    BY <2>1, <2>2, <2>3
  <2> QED BY <2>4
<1>5. ASSUME NEW k \in good PROVE k + 1 \in good
  <2>1. k \in Nat
    OBVIOUS
  <2>2. ASSUME k + 1 <= l
        PROVE  \E n, c : Place(log, k + 1, n, c) /\ HalfWired(wire[k + 1], n, c)
    <3>1. PICK n, c : Place(log, k, n, c) /\ HalfWired(wire[k], n, c)
      BY <1>1, <2>1, <2>2
    <3>2. k < l /\ k + 1 \in 1 .. l /\ log[k + 1] \in Messages
      BY <1>1, <2>1, <2>2
    <3>3. wire[k + 1] = ToWire(wire[k], log[k + 1])
      <4>1. k + 1 \in 0 .. l /\ k + 1 # 0 /\ (k + 1) - 1 = k
        BY <1>1, <2>1, <2>2
      <4> QED BY <1>2, <4>1 DEF Form
    <3>4. CASE log[k + 1].role # "tool"
      <4> DEFINE m == IF log[k + 1].role = "assistant" THEN log[k + 1].calls ELSE 0
      <4>1. n = c /\ Place(log, k + 1, m, 0)
        BY <2>1, <3>1, <3>2, <3>4, NextPlace
      <4>2. HalfWired(wire[k + 1], m, 0)
        BY <3>1, <3>2, <3>3, <3>4, <4>1, PlainWired
      <4> HIDE DEF m
      <4> QED BY <4>1, <4>2
    <3>5. CASE log[k + 1].role = "tool"
      <4>1. c < n /\ log[k + 1].calls = c + 1 /\ Place(log, k + 1, n, c + 1)
        BY <2>1, <3>1, <3>2, <3>5, NextPlace
      <4>2. HalfWired(wire[k + 1], n, c + 1)
        BY <3>1, <3>2, <3>3, <3>5, <4>1, AnswerWired
      <4> QED BY <4>1, <4>2
    <3> QED BY <3>4, <3>5
  <2>3. Good(k + 1)
    BY <2>2
  <2> HIDE DEF Good
  <2> QED BY <2>1, <2>3
<1>6. Good(l)
  <2>1. good \in SUBSET Nat
    OBVIOUS
  <2> HIDE DEF good
  <2>2. good = Nat
    BY <1>4, <1>5, <2>1, Induct
  <2> QED BY <1>1, <2>2 DEF good
<1>7. PICK n, c : Place(log, l, n, c) /\ HalfWired(wire[l], n, c)
  BY <1>1, <1>6
<1>8. n = c
  <2>1. n \in Nat /\ c \in 0 .. n
    BY <1>7 DEF HalfWired
  <2>2. CASE l = 0 \/ log[l].role = "user"
    BY <1>7, <2>2 DEF Place
  <2>3. CASE l > 0 /\ log[l].role = "assistant"
    <3>1. n = log[l].calls /\ c = 0 /\ l \in 1 .. l
      BY <1>1, <1>7, <2>3 DEF Place
    <3>2. n > 0 => l + 1 \in 1 .. l
      BY <2>1, <2>3, <3>1, AnswersOf
    <3> QED BY <1>1, <2>1, <3>1, <3>2
  <2>4. CASE l > 0 /\ log[l].role = "tool"
    <3>1. c = log[l].calls /\ n = log[l - c].calls /\ l \in 1 .. l
      BY <1>1, <1>7, <2>4 DEF Place
    <3>2. l - c \in 1 .. l /\ log[l - c].role = "assistant"
      BY <2>4, <3>1, CallOf
    <3>3. c < n => (l - c) + (c + 1) \in 1 .. l
      <4>1. c < n => c + 1 \in 1 .. n
        BY <2>1
      <4> QED BY <3>1, <3>2, <4>1, AnswersOf
    <3> QED BY <1>1, <2>1, <3>3
  <2>5. l > 0 => log[l].role \in {"user", "assistant", "tool"}
    <3>1. l > 0 => l \in 1 .. l
      BY <1>1
    <3> QED BY <3>1, RolesAndCalls
  <2> QED BY <1>1, <2>2, <2>3, <2>4, <2>5
<1> QED BY <1>3, <1>7, <1>8, WholeIsPaired

\* The history, and what is sent to the model, are conversations in which every call of
\* a tool is answered, in the form of either protocol (trimHistory, toAnthropicMessages).
THEOREM ConversationsPaired == Spec => []ConversationsArePaired
<1>1. Inv /\ TranscriptsArePaired => ConversationsArePaired
  <2> SUFFICES ASSUME Inv, TranscriptsArePaired, turn.at = "llm"
               PROVE  WirePaired(Wire(turn.log))
    BY DEF ConversationsArePaired
  <2>1. Paired(turn.log)
    BY DEF TranscriptsArePaired
  <2>2. turn.log \in Seq(Messages)
    BY DEF Inv, ChatInv, ChatTyped, TurnType, Said
  <2> QED BY <2>1, <2>2, WireIsPaired
<1> QED BY <1>1, ChatInvariant, TranscriptsPaired, PTL

==============================================================================
