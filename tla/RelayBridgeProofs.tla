-------------------------- MODULE RelayBridgeProofs --------------------------
(***************************************************************************)
(* Theorems about the registry, for every set of connections, tools and    *)
(* tabs and every naming, and about the relay process that contains it,    *)
(* for every number of connections and calls.                              *)
(***************************************************************************)
EXTENDS RelayBridge, FiniteSetTheorems, SequenceTheorems, WellFoundedInduction, TLAPS

------------------------------------------------------------------------------
(* The registry.  The inductive invariant adds to the type invariant that  *)
(* each connection's copies of its tab follow its source.                  *)

\* A connection's tools carry the tab its source is for.
CopiesFollow == \A c \in Conn : \A p \in providers[c] : p.tab = source[c]

RegistryInv == RegistryTypeOK /\ CopiesFollow /\ NamesFresh

------------------------------------------------------------------------------
\* A rebuilt listing holds entries of connections for tools they provide
\* (rebuildPublicNames invents no provider).
LEMMA RebuildSound ==
    ASSUME NEW pv, NEW p \in Rebuild(pv)
    PROVE  /\ p.conn \in Conn
           /\ \E q \in pv[p.conn] : p.tool = q.tool /\ p.tab = q.tab
<1> DEFINE names == Allocation({NameKey(pv, q) : q \in UNION {pv[c] : c \in Conn}})
           Entry(c, q) == [name |-> names[NameKey(pv, q)], conn |-> c, tool |-> q.tool, tab |-> q.tab]
<1>1. PICK c \in Conn : \E q \in pv[c] : p = Entry(c, q)
  BY DEF Rebuild
<1>2. PICK q \in pv[c] : p = Entry(c, q)
  BY <1>1
<1> HIDE DEF names
<1>3. p.conn = c /\ p.tool = q.tool /\ p.tab = q.tab
  BY <1>2
<1> QED BY <1>2, <1>3

\* A rebuilt listing holds exactly one entry for a tool that a connection
\* provides once (rebuildPublicNames loses none).
LEMMA RebuildComplete ==
    ASSUME NEW pv, NEW c \in Conn, NEW p \in pv[c],
           \A q \in pv[c] : q.tool = p.tool => q = p
    PROVE  \E e \in Rebuild(pv) : \A q \in Rebuild(pv) :
              q.conn = c /\ q.tool = p.tool <=> q = e
<1> DEFINE names == Allocation({NameKey(pv, q) : q \in UNION {pv[d] : d \in Conn}})
           Entry(d, q) == [name |-> names[NameKey(pv, q)], conn |-> d, tool |-> q.tool, tab |-> q.tab]
<1>1. Rebuild(pv) = UNION {{Entry(d, q) : q \in pv[d]} : d \in Conn}
  BY DEF Rebuild
<1> HIDE DEF names
<1>2. Entry(c, p) \in Rebuild(pv) /\ Entry(c, p).conn = c /\ Entry(c, p).tool = p.tool
  BY <1>1
<1>3. ASSUME NEW e \in Rebuild(pv), e.conn = c, e.tool = p.tool
      PROVE  e = Entry(c, p)
  <2>0. PICK d \in Conn : \E q \in pv[d] : e = Entry(d, q)
    BY <1>1, <1>3
  <2>1. PICK q \in pv[d] : e = Entry(d, q)
    BY <2>0
  <2>2. d = c /\ q.tool = p.tool
    BY <2>1, <1>3
  <2> QED BY <2>1, <2>2
<1> QED BY <1>2, <1>3

------------------------------------------------------------------------------
(* Names.  That a name is never given twice rests on what the recursion of *)
(* Allocation computes, which is shown by induction over the order of its  *)
(* keys.                                                                   *)

\* Every non-empty set of numbers has a least one, and so a set of numbers with 0
\* and with the successor of each of its members has all of them.
LEMMA LeastOf ==
    ASSUME NEW S \in SUBSET Nat, S # {}
    PROVE  \E n \in S : \A m \in S : n <= m
<1>1. PICK n \in S : \A m \in S : <<m, n>> \notin OpToRel(<, Nat)
  BY NatLessThanWellFounded, WFMin
<1>2. \A m \in S : m < n => <<m, n>> \in OpToRel(<, Nat)
  BY DEF OpToRel
<1>3. \A m \in S : ~ (m < n)
  BY <1>1, <1>2, Zenon
<1> QED BY <1>3

LEMMA Induct ==
    ASSUME NEW S \in SUBSET Nat, 0 \in S, \A n \in S : n + 1 \in S
    PROVE  S = Nat
<1> SUFFICES ASSUME Nat \ S # {} PROVE FALSE
  OBVIOUS
<1>1. PICK n \in Nat \ S : \A m \in Nat \ S : n <= m
  BY LeastOf
<1>2. n # 0 /\ n - 1 \in Nat /\ n - 1 \in S
  BY <1>1
<1> QED BY <1>2

Key == Tool \X (Tab \cup {NoTab})

\* The order of the keys, as two numbers.
ToolRank(key) == CHOOSE i \in DOMAIN ToolOrder : ToolOrder[i] = key[1]
TabRank(key)  == IF key[2] = NoTab THEN 0 ELSE CHOOSE i \in DOMAIN TabOrder : TabOrder[i] = key[2]
Rank(key)     == ToolRank(key) * (Len(TabOrder) + 1) + TabRank(key)

\* A key is a tool and, if several tabs offer it, a tab; their number is finite.
LEMMA KeysAreFinite == IsFiniteSet(Tab) /\ IsFiniteSet(Key) /\ Cardinality(Key) \in Nat
<1>1. DOMAIN ToolOrder = 1 .. Len(ToolOrder) /\ DOMAIN TabOrder = 1 .. Len(TabOrder)
      /\ Len(ToolOrder) \in Nat /\ Len(TabOrder) \in Nat
  BY NamingAssumption
<1>2. IsFiniteSet(DOMAIN ToolOrder) /\ IsFiniteSet(DOMAIN TabOrder)
  BY <1>1, FS_Interval
<1>3. Tool = {ToolOrder[i] : i \in DOMAIN ToolOrder} /\ Tab = {TabOrder[i] : i \in DOMAIN TabOrder}
  BY DEF Tool, Tab, ToSet
<1>4. IsFiniteSet(Tool) /\ IsFiniteSet(Tab)
  <2>1. ToolOrder \in Surjection(DOMAIN ToolOrder, Tool)
    BY <1>1, <1>3, NamingAssumption DEF Surjection
  <2>2. TabOrder \in Surjection(DOMAIN TabOrder, Tab)
    BY <1>1, <1>3, NamingAssumption DEF Surjection
  <2> QED BY <1>2, <2>1, <2>2, FS_Surjection
<1>5. IsFiniteSet(Tab \cup {NoTab})
  BY <1>4, FS_AddElement
<1>6. IsFiniteSet(Key)
  BY <1>4, <1>5, FS_Product DEF Key
<1> QED BY <1>4, <1>6, FS_CardinalityType

LEMMA KeyRanks ==
    ASSUME NEW k \in Key
    PROVE  /\ ToolRank(k) \in 1 .. Len(ToolOrder) /\ ToolOrder[ToolRank(k)] = k[1]
           /\ TabRank(k) \in 0 .. Len(TabOrder)
           /\ k[2] # NoTab => TabRank(k) # 0 /\ TabOrder[TabRank(k)] = k[2]
           /\ k[2] = NoTab => TabRank(k) = 0
<1>1. DOMAIN ToolOrder = 1 .. Len(ToolOrder) /\ DOMAIN TabOrder = 1 .. Len(TabOrder)
      /\ Len(ToolOrder) \in Nat /\ Len(TabOrder) \in Nat
  BY NamingAssumption
<1>2. Tool = {ToolOrder[i] : i \in DOMAIN ToolOrder} /\ Tab = {TabOrder[i] : i \in DOMAIN TabOrder}
  BY DEF Tool, Tab, ToSet
<1>3. k[1] \in Tool /\ k[2] \in Tab \cup {NoTab}
  BY DEF Key
<1>4. \E i \in DOMAIN ToolOrder : ToolOrder[i] = k[1]
  BY <1>2, <1>3
<1>5. ToolRank(k) \in DOMAIN ToolOrder /\ ToolOrder[ToolRank(k)] = k[1]
  BY <1>4 DEF ToolRank
<1>6. CASE k[2] = NoTab
  BY <1>1, <1>5, <1>6 DEF TabRank
<1>7. CASE k[2] # NoTab
  <2>1. \E i \in DOMAIN TabOrder : TabOrder[i] = k[2]
    BY <1>2, <1>3, <1>7
  <2>2. TabRank(k) \in DOMAIN TabOrder /\ TabOrder[TabRank(k)] = k[2]
    BY <2>1, <1>7 DEF TabRank
  <2> QED BY <1>1, <1>5, <1>7, <2>2
<1> QED BY <1>6, <1>7

LEMMA RankTyped == \A k \in Key : Rank(k) \in Nat
<1> SUFFICES ASSUME NEW k \in Key PROVE Rank(k) \in Nat
  OBVIOUS
<1>1. ToolRank(k) \in Nat /\ TabRank(k) \in Nat /\ Len(TabOrder) \in Nat
  BY KeyRanks, NamingAssumption
<1> QED BY <1>1 DEF Rank

LEMMA RanksAdd ==
    ASSUME NEW a \in Nat, NEW b \in Nat, NEW l \in Nat, NEW c \in 0 .. l, NEW d \in 0 .. l, a < b
    PROVE  a * (l + 1) + c < b * (l + 1) + d
<1>1. PICK e \in Nat : b = a + 1 + e
  <2>1. b - a - 1 \in Nat /\ b = a + 1 + (b - a - 1)
    OBVIOUS
  <2> QED BY <2>1
<1>2. b * (l + 1) = a * (l + 1) + (l + 1) + e * (l + 1)
  BY <1>1
<1>3. e * (l + 1) \in Nat /\ a * (l + 1) \in Nat
  OBVIOUS
<1> QED BY <1>2, <1>3

\* Of two keys one comes first (the sort of rebuildPublicNames is total).
LEMMA KeysAreOrdered ==
    ASSUME NEW j \in Key, NEW k \in Key
    PROVE  /\ KeyLess(j, k) => Rank(j) < Rank(k)
           /\ j # k => KeyLess(j, k) \/ KeyLess(k, j)
<1> DEFINE L == Len(TabOrder)
<1>1. KeyLess(j, k) <=> \/ ToolRank(j) < ToolRank(k)
                        \/ ToolRank(j) = ToolRank(k) /\ TabRank(j) < TabRank(k)
  BY DEF KeyLess, ToolRank, TabRank
<1>2. KeyLess(k, j) <=> \/ ToolRank(k) < ToolRank(j)
                        \/ ToolRank(k) = ToolRank(j) /\ TabRank(k) < TabRank(j)
  BY DEF KeyLess, ToolRank, TabRank
<1>3. L \in Nat
  BY NamingAssumption
<1>4. ToolRank(j) \in Nat /\ ToolRank(k) \in Nat /\ TabRank(j) \in 0 .. L /\ TabRank(k) \in 0 .. L
  BY KeyRanks
<1>6. KeyLess(j, k) => Rank(j) < Rank(k)
  <2>1. CASE ToolRank(j) < ToolRank(k)
    BY <2>1, <1>3, <1>4, RanksAdd DEF Rank
  <2>2. CASE ToolRank(j) = ToolRank(k) /\ TabRank(j) < TabRank(k)
    <3>1. ToolRank(k) * (L + 1) \in Nat
      BY <1>3, <1>4
    <3> QED BY <2>2, <3>1, <1>4 DEF Rank
  <2> QED BY <1>1, <2>1, <2>2
<1>7. ASSUME j # k PROVE KeyLess(j, k) \/ KeyLess(k, j)
  <2>1. j = <<j[1], j[2]>> /\ k = <<k[1], k[2]>>
    BY DEF Key
  <2>2. CASE j[1] # k[1]
    <3>1. ToolRank(j) # ToolRank(k)
      BY <2>2, KeyRanks
    <3> QED BY <3>1, <1>1, <1>2, <1>4
  <2>3. CASE j[2] # k[2]
    <3>1. TabRank(j) # TabRank(k)
      BY <2>3, KeyRanks
    <3>2. TabRank(j) < TabRank(k) \/ TabRank(k) < TabRank(j)
      BY <3>1, <1>4
    <3> QED BY <3>2, <1>1, <1>2, <1>4
  <2> QED BY <2>1, <2>2, <2>3, <1>7
<1> QED BY <1>6, <1>7

------------------------------------------------------------------------------
\* What is cut of a name, and a name with a part after it.
LEMMA CutTyped ==
    ASSUME NEW name \in Seq(STRING), NEW room \in Nat
    PROVE  Cut(name, room) \in Seq(STRING)
<1>1. Len(name) \in Nat /\ \A i \in 1 .. Len(name) : name[i] \in STRING
  OBVIOUS
<1>2. PICK l \in 0 .. Len(name) : Cut(name, room) = SubSeq(name, 1, l)
  BY <1>1 DEF Cut
<1> QED BY <1>1, <1>2

LEMMA SuffixedTyped ==
    ASSUME NEW name \in Seq(STRING), NEW part \in STRING
    PROVE  /\ Suffixed(name, part) \in Seq(STRING)
           /\ Suffixed(name, part)[Len(Cut(name, MaxParts - 1)) + 1] = part
<1>1. MaxParts - 1 \in Nat
  BY NamingAssumption
<1>2. PICK short \in Seq(STRING) : short = Cut(name, MaxParts - 1)
  BY <1>1, CutTyped
<1>3. Suffixed(name, part) = Append(short, part)
  BY <1>2 DEF Suffixed
<1>4. Append(short, part) \in Seq(STRING) /\ Append(short, part)[Len(short) + 1] = part
  BY AppendProperties
<1> QED BY <1>2, <1>3, <1>4

\* The candidate with the number n.
Numbered(name, n) == IF n = 1 THEN name ELSE Suffixed(name, Numeral[n])

\* Some number is free, and so FirstFree gives a name that is not in use
\* (the loop of rebuildPublicNames ends, with a name that no key has).
LEMMA FirstFreeIsFree ==
    ASSUME NEW name \in Seq(STRING), NEW used, IsFiniteSet(used),
           Cardinality(used) < Cardinality(Key)
    PROVE  FirstFree(name, used) \in Seq(STRING) \ used
<1> DEFINE numbers == 2 .. Cardinality(used) + 2
           free    == {n \in 1 .. Cardinality(used) + 2 : Numbered(name, n) \notin used}
           f       == [n \in numbers |-> Numbered(name, n)]
<1>1. Cardinality(used) \in Nat /\ Cardinality(Key) \in Nat
  BY FS_CardinalityType, KeysAreFinite
<1>2. IsFiniteSet(numbers) /\ Cardinality(numbers) = Cardinality(used) + 1
  <2>1. \A n \in Nat : IsFiniteSet(2 .. n + 2) /\ Cardinality(2 .. n + 2) = n + 1
    BY FS_Interval
  <2> QED BY <1>1, <2>1
<1>3. \A n \in 1 .. Cardinality(used) + 2 : n \in 1 .. Cardinality(Key) + 1
  BY <1>1
<1>4. \A n \in 1 .. Cardinality(used) + 2 : Numbered(name, n) \in Seq(STRING)
  <2> SUFFICES ASSUME NEW n \in 1 .. Cardinality(used) + 2 PROVE Numbered(name, n) \in Seq(STRING)
    OBVIOUS
  <2>1. Numeral[n] \in STRING
    BY <1>3, NamingAssumption DEF Key
  <2> QED BY <2>1, SuffixedTyped DEF Numbered
<1>5. \A m, n \in numbers : Numbered(name, m) = Numbered(name, n) => m = n
  <2> SUFFICES ASSUME NEW m \in numbers, NEW n \in numbers, Numbered(name, m) = Numbered(name, n)
               PROVE  m = n
    OBVIOUS
  <2>1. m # 1 /\ n # 1 /\ m \in 1 .. Cardinality(Key) + 1 /\ n \in 1 .. Cardinality(Key) + 1
    BY <1>1, <1>3
  <2>2. Numeral[m] \in STRING /\ Numeral[n] \in STRING /\ (Numeral[m] = Numeral[n] => m = n)
    BY <2>1, NamingAssumption DEF Key
  <2>3. Suffixed(name, Numeral[m]) = Suffixed(name, Numeral[n])
    BY <2>1 DEF Numbered
  <2> QED BY <2>2, <2>3, SuffixedTyped
<1>6. free # {}
  <2> SUFFICES ASSUME free = {} PROVE FALSE
    OBVIOUS
  <2>1. f \in [numbers -> used]
    BY <1>1
  <2>2. Cardinality(used) < Cardinality(numbers)
    BY <1>1, <1>2
  <2> HIDE DEF f, numbers
  <2>3. PICK m \in numbers, n \in numbers : m # n /\ f[m] = f[n]
    BY <1>2, <2>1, <2>2, FS_PigeonHole
  <2> QED BY <1>5, <2>3 DEF f
<1>7. \E n \in free : \A m \in free : n <= m
  <2>1. free \subseteq Nat
    OBVIOUS
  <2> HIDE DEF free
  <2> QED BY <1>6, <2>1, LeastOf
<1>8. PICK n \in free : FirstFree(name, used) = Numbered(name, n)
  BY <1>7 DEF FirstFree, Numbered
<1> QED BY <1>4, <1>8

\* What the recursion of Allocation gives a key, in terms of what it gave others.
Names(keys, f, k) == FirstFree(Candidate(k), {f[j] : j \in {i \in keys : KeyLess(i, k)}})

\* Allocation computes what its definition says (rebuildPublicNames handles the
\* keys in their order, each after all that come before it).
LEMMA AllocationDefined ==
    ASSUME NEW keys \in SUBSET Key
    PROVE  Allocation(keys) = [k \in keys |-> Names(keys, Allocation(keys), k)]
<1> DEFINE Below(n)  == {k \in keys : Rank(k) < n}
           Solved(n) == \E f : f = [k \in Below(n) |-> Names(keys, f, k)]
           done      == {n \in Nat : Solved(n)}
<1>1. \A k \in Key : Rank(k) \in Nat
  BY RankTyped
<1>2. 0 \in done
  <2>1. Below(0) = {}
    BY <1>1
  <2> DEFINE f == [k \in Below(0) |-> <<>>]
  <2>2. f = [k \in Below(0) |-> Names(keys, f, k)]
    BY <2>1
  <2> QED BY <2>2
<1>3. ASSUME NEW n \in done PROVE n + 1 \in done
  <2>1. n \in Nat
    OBVIOUS
  <2>2. PICK f : f = [k \in Below(n) |-> Names(keys, f, k)]
    OBVIOUS
  <2> DEFINE g == [k \in Below(n + 1) |-> Names(keys, f, k)]
  <2>3. \A k \in Below(n) : k \in Below(n + 1) /\ g[k] = f[k]
    <3>1. \A k \in Below(n) : k \in Below(n + 1)
      BY <1>1, <2>1
    <3>2. \A k \in Below(n) : f[k] = Names(keys, f, k)
      BY <2>2
    <3> QED BY <3>1, <3>2
  <2>4. ASSUME NEW k \in Below(n + 1) PROVE Names(keys, g, k) = Names(keys, f, k)
    <3>1. \A j \in {i \in keys : KeyLess(i, k)} : j \in Below(n)
      BY <1>1, <2>1, KeysAreOrdered
    <3>2. \A j \in {i \in keys : KeyLess(i, k)} : g[j] = f[j]
      BY <2>3, <3>1
    <3> HIDE DEF g
    <3>3. {g[j] : j \in {i \in keys : KeyLess(i, k)}} = {f[j] : j \in {i \in keys : KeyLess(i, k)}}
      BY <3>2
    <3> QED BY <3>3 DEF Names
  <2>5. g = [k \in Below(n + 1) |-> Names(keys, g, k)]
    BY <2>4
  <2>6. Solved(n + 1)
    BY <2>5
  <2> HIDE DEF Solved
  <2> QED BY <2>1, <2>6
<1>4. done = Nat
  <2>1. done \subseteq Nat
    OBVIOUS
  <2> HIDE DEF done
  <2> QED BY <1>2, <1>3, <2>1, Induct
<1>5. PICK n \in Nat : Below(n) = keys
  <2> DEFINE m == Len(ToolOrder)
             l == Len(TabOrder)
  <2>1. m \in Nat /\ l \in Nat
    BY NamingAssumption
  <2>2. ASSUME NEW k \in keys PROVE Rank(k) < (m + 1) * (l + 1) + 0
    <3>1. ToolRank(k) \in Nat /\ ToolRank(k) < m + 1 /\ TabRank(k) \in 0 .. l
      BY <2>1, KeyRanks
    <3> QED BY <2>1, <3>1, RanksAdd DEF Rank
  <2>3. (m + 1) * (l + 1) + 0 \in Nat
    BY <2>1
  <2> HIDE DEF m, l
  <2>4. Below((m + 1) * (l + 1) + 0) = keys
    BY <2>2
  <2> QED BY <2>3, <2>4
<1>6. \E f : f = [k \in keys |-> Names(keys, f, k)]
  BY <1>4, <1>5
<1>7. Allocation(keys) = CHOOSE f : f = [k \in keys |-> Names(keys, f, k)]
  BY DEF Allocation, Names
<1> QED BY <1>6, <1>7

LEMMA CandidateTyped == \A k \in Key : Candidate(k) \in Seq(STRING)
<1> SUFFICES ASSUME NEW k \in Key PROVE Candidate(k) \in Seq(STRING)
  OBVIOUS
<1>1. k[1] \in Tool /\ (k[2] # NoTab => k[2] \in Tab)
  BY DEF Key
<1>2. Safe[k[1]] \in Seq(STRING)
  BY <1>1, NamingAssumption
<1>3. CASE k[2] = NoTab
  BY <1>2, <1>3, CutTyped, NamingAssumption DEF Candidate
<1>4. CASE k[2] # NoTab
  <2>1. Short[k[2]] \in STRING
    BY <1>1, <1>4, NamingAssumption
  <2> QED BY <1>2, <1>4, <2>1, SuffixedTyped DEF Candidate
<1> QED BY <1>3, <1>4

\* No two keys get the same name.
LEMMA NamesDiffer ==
    ASSUME NEW keys \in SUBSET Key, NEW j \in keys, NEW k \in keys, j # k
    PROVE  Allocation(keys)[j] # Allocation(keys)[k]
<1> DEFINE f == Allocation(keys)
<1>1. ASSUME NEW a \in keys, NEW b \in keys, KeyLess(a, b)
      PROVE  f[a] # f[b]
  <2> DEFINE before == {i \in keys : KeyLess(i, b)}
             used   == {f[i] : i \in before}
             g      == [i \in before |-> f[i]]
  <2>1. f[b] = FirstFree(Candidate(b), used)
    BY AllocationDefined DEF Names
  <2> HIDE DEF f
  <2>2. before \subseteq Key \ {b}
    <3>1. Rank(b) \in Nat /\ ~ (Rank(b) < Rank(b))
      BY RankTyped
    <3> QED BY <3>1, KeysAreOrdered
  <2>3. IsFiniteSet(Key \ {b}) /\ Cardinality(Key \ {b}) = Cardinality(Key) - 1
    BY KeysAreFinite, FS_RemoveElement
  <2>4. IsFiniteSet(before) /\ Cardinality(before) <= Cardinality(Key) - 1 /\ Cardinality(before) \in Nat
    BY <2>2, <2>3, FS_Subset, FS_CardinalityType
  <2>5. g \in Surjection(before, used)
    BY DEF Surjection
  <2>6. IsFiniteSet(used) /\ Cardinality(used) <= Cardinality(before) /\ Cardinality(used) \in Nat
    <3> HIDE DEF g, before, used
    <3> QED BY <2>4, <2>5, FS_Surjection, FS_CardinalityType
  <2>7. Cardinality(used) < Cardinality(Key)
    BY <2>4, <2>6, KeysAreFinite
  <2>8. Candidate(b) \in Seq(STRING)
    BY CandidateTyped
  <2>9. f[b] \notin used
    <3> HIDE DEF used
    <3> QED BY <2>1, <2>6, <2>7, <2>8, FirstFreeIsFree
  <2> QED BY <1>1, <2>9
<1> QED BY <1>1, KeysAreOrdered

\* The key of a provider tells it apart from any that is not the same tool of
\* the same tab.
LEMMA KeysIdentify ==
    ASSUME NEW pv \in [Conn -> SUBSET Provider],
           NEW p \in UNION {pv[c] : c \in Conn}, NEW q \in UNION {pv[c] : c \in Conn}
    PROVE  /\ NameKey(pv, p) \in Key
           /\ NameKey(pv, p) = NameKey(pv, q) <=> p.tool = q.tool /\ p.tab = q.tab
<1>1. p \in Provider /\ q \in Provider
  OBVIOUS
<1>2. NameKey(pv, p) \in Key
  BY <1>1 DEF NameKey, Key, Provider
<1>3. ASSUME NameKey(pv, p) = NameKey(pv, q), p.tab # q.tab PROVE FALSE
  <2> DEFINE T == TabsOffering(pv, p.tool)
  <2>1. p.tool = q.tool
    BY <1>3 DEF NameKey
  <2>2. p.tab \in T /\ q.tab \in T
    BY <2>1 DEF TabsOffering
  <2>3. T \subseteq Tab
    BY DEF TabsOffering, Provider
  <2>4. IsFiniteSet(T) /\ Cardinality(T) \in Nat
    BY <2>3, KeysAreFinite, FS_Subset, FS_CardinalityType
  <2>5. ~ (Cardinality(T) > 1)
    BY <1>1, <1>3, <2>1 DEF NameKey, Provider
  <2> HIDE DEF T
  <2>6. Cardinality(T \ {p.tab}) = Cardinality(T) - 1 /\ IsFiniteSet(T \ {p.tab})
    <3>1. \A t \in T : Cardinality(T \ {t}) = Cardinality(T) - 1 /\ IsFiniteSet(T \ {t})
      BY <2>4, FS_RemoveElement
    <3> QED BY <2>2, <3>1
  <2>7. Cardinality(T \ {p.tab}) \in Nat
    BY <2>6, FS_CardinalityType
  <2>8. Cardinality(T \ {p.tab}) = 0
    BY <2>4, <2>5, <2>6, <2>7
  <2>9. T \ {p.tab} = {}
    BY <2>6, <2>8, FS_EmptySet
  <2> QED BY <2>2, <2>9, <1>3
<1>4. NameKey(pv, p) = NameKey(pv, q) => p.tool = q.tool
  BY DEF NameKey
<1>5. p.tool = q.tool /\ p.tab = q.tab => NameKey(pv, p) = NameKey(pv, q)
  BY DEF NameKey
<1> QED BY <1>2, <1>3, <1>4, <1>5

\* In a rebuilt listing a name stands for one tool of one tab.
LEMMA RebuildIdentifies ==
    ASSUME NEW pv \in [Conn -> SUBSET Provider], NEW p \in Rebuild(pv), NEW q \in Rebuild(pv)
    PROVE  p.name = q.name <=> p.tool = q.tool /\ p.tab = q.tab
<1> DEFINE given == UNION {pv[c] : c \in Conn}
           keys  == {NameKey(pv, r) : r \in given}
           Entry(c, r) == [name |-> Allocation(keys)[NameKey(pv, r)], conn |-> c, tool |-> r.tool, tab |-> r.tab]
<1>1. ASSUME NEW e \in Rebuild(pv)
      PROVE  \E r \in given : e.name = Allocation(keys)[NameKey(pv, r)] /\ e.tool = r.tool /\ e.tab = r.tab
  <2>1. PICK c \in Conn : \E r \in pv[c] : e = Entry(c, r)
    BY <1>1 DEF Rebuild
  <2>2. PICK r \in pv[c] : e = Entry(c, r)
    BY <2>1
  <2> HIDE DEF keys
  <2> QED BY <2>2
<1>2. PICK r \in given : p.name = Allocation(keys)[NameKey(pv, r)] /\ p.tool = r.tool /\ p.tab = r.tab
  BY <1>1
<1>3. PICK s \in given : q.name = Allocation(keys)[NameKey(pv, s)] /\ q.tool = s.tool /\ q.tab = s.tab
  BY <1>1
<1>4. keys \subseteq Key
  BY KeysIdentify
<1>5. NameKey(pv, r) \in keys /\ NameKey(pv, s) \in keys
  OBVIOUS
<1>6. NameKey(pv, r) = NameKey(pv, s) <=> r.tool = s.tool /\ r.tab = s.tab
  BY KeysIdentify
<1> HIDE DEF keys, given
<1>7. NameKey(pv, r) # NameKey(pv, s) => Allocation(keys)[NameKey(pv, r)] # Allocation(keys)[NameKey(pv, s)]
  BY <1>4, <1>5, NamesDiffer
<1> QED BY <1>2, <1>3, <1>6, <1>7

------------------------------------------------------------------------------
\* What each operation of registry.ts does to the invariant, so that a system
\* that contains the registry can cite it.
LEMMA ListingTyped ==
    ASSUME NEW pv \in [Conn -> SUBSET Provider]
    PROVE  \A p \in Rebuild(pv) : p.conn \in Conn /\ p.tool \in Tool /\ p.tab \in Tab
<1> SUFFICES ASSUME NEW p \in Rebuild(pv)
             PROVE  p.conn \in Conn /\ p.tool \in Tool /\ p.tab \in Tab
  OBVIOUS
<1>1. PICK q \in pv[p.conn] : p.tool = q.tool /\ p.tab = q.tab
  BY RebuildSound
<1>2. p.conn \in Conn
  BY RebuildSound
<1>3. q \in Provider
  BY <1>1, <1>2
<1> QED BY <1>1, <1>2, <1>3 DEF Provider

LEMMA UpsertKeepsInv ==
    ASSUME RegistryInv, NEW c \in Conn, NEW t \in Tab, UpsertSource(c, t)
    PROVE  RegistryInv'
<1> USE NoTabAssumption
<1>1. source' \in [Conn -> Tab \cup {NoTab}] /\ source'[c] = t
      /\ \A d \in Conn \ {c} : source'[d] = source[d]
  BY DEF RegistryInv, RegistryTypeOK, UpsertSource
<1>2. CASE source[c] \in {NoTab, t}
  <2>1. UNCHANGED <<providers, published>>
    BY <1>2 DEF UpsertSource
  <2>2. CopiesFollow'
    BY <1>1, <1>2, <2>1 DEF RegistryInv, RegistryTypeOK, CopiesFollow, Registered
  <2>3. NamesFresh'
    BY <2>1 DEF RegistryInv, NamesFresh
  <2>4. RegistryTypeOK'
    BY <1>1, <1>2, <2>1 DEF RegistryInv, RegistryTypeOK, Registered
  <2> QED BY <2>2, <2>3, <2>4 DEF RegistryInv
<1>3. CASE source[c] \notin {NoTab, t}
  <2>1. /\ providers' = [providers EXCEPT ![c] = {[p EXCEPT !.tab = t] : p \in @}]
        /\ published' = Rebuild(providers')
    BY <1>3 DEF UpsertSource
  <2>2. providers' \in [Conn -> SUBSET Provider]
    BY <2>1 DEF RegistryInv, RegistryTypeOK, Provider
  <2>3. \A p \in providers'[c] : p.tab = t
    BY <2>1 DEF RegistryInv, RegistryTypeOK, Provider
  <2>4. \A d \in Conn \ {c} : providers'[d] = providers[d]
    BY <2>1 DEF RegistryInv, RegistryTypeOK
  <2>5. CopiesFollow'
    BY <1>1, <2>3, <2>4 DEF RegistryInv, CopiesFollow
  <2>6. RegistryTypeOK'
    BY <1>1, <2>1, <2>2, <2>4, ListingTyped DEF RegistryInv, RegistryTypeOK, Registered
  <2> QED BY <2>1, <2>5, <2>6 DEF RegistryInv, NamesFresh
<1> QED BY <1>2, <1>3

LEMMA RegisterKeepsInv ==
    ASSUME RegistryInv, NEW c \in Conn, NEW tools \in SUBSET Tool, RegisterTools(c, tools)
    PROVE  RegistryInv'
<1>1. /\ c \in Registered /\ source' = source
      /\ providers' = [providers EXCEPT ![c] = [tool : tools, tab : {source[c]}]]
      /\ published' = Rebuild(providers')
  BY DEF RegisterTools
<1>2. source[c] \in Tab
  BY <1>1 DEF RegistryInv, RegistryTypeOK, Registered
<1>3. providers' \in [Conn -> SUBSET Provider]
  BY <1>1, <1>2 DEF RegistryInv, RegistryTypeOK, Provider
<1>4. /\ \A p \in providers'[c] : p.tab = source[c]
      /\ \A d \in Conn \ {c} : providers'[d] = providers[d]
  BY <1>1 DEF RegistryInv, RegistryTypeOK
<1>5. RegistryTypeOK'
  BY <1>1, <1>3, <1>4, ListingTyped DEF RegistryInv, RegistryTypeOK, Registered
<1>6. CopiesFollow'
  BY <1>1, <1>4 DEF RegistryInv, CopiesFollow
<1> QED BY <1>1, <1>5, <1>6 DEF RegistryInv, NamesFresh

LEMMA RemoveKeepsInv ==
    ASSUME RegistryInv, NEW gone \in SUBSET Conn, RemoveConnections(gone)
    PROVE  RegistryInv'
<1>1. /\ source' = [c \in Conn |-> IF c \in gone THEN NoTab ELSE source[c]]
      /\ providers' = [c \in Conn |-> IF c \in gone THEN {} ELSE providers[c]]
      /\ published' = Rebuild(providers')
  BY DEF RemoveConnections
<1>2. providers' \in [Conn -> SUBSET Provider] /\ source' \in [Conn -> Tab \cup {NoTab}]
  BY <1>1 DEF RegistryInv, RegistryTypeOK
<1>3. RegistryTypeOK'
  BY <1>1, <1>2, ListingTyped DEF RegistryInv, RegistryTypeOK, Registered
<1>4. CopiesFollow'
  BY <1>1 DEF RegistryInv, CopiesFollow
<1> QED BY <1>1, <1>3, <1>4 DEF RegistryInv, NamesFresh

LEMMA InitHasInv == RegistryInit => RegistryInv
<1> SUFFICES ASSUME RegistryInit PROVE RegistryInv
  OBVIOUS
<1>1. Rebuild(providers) = {}
  <2> SUFFICES ASSUME NEW p \in Rebuild(providers) PROVE FALSE
    OBVIOUS
  <2> QED BY RebuildSound DEF RegistryInit
<1> QED BY <1>1 DEF RegistryInit, RegistryInv, RegistryTypeOK, CopiesFollow, NamesFresh, Registered

LEMMA StutterKeepsInv == RegistryInv /\ UNCHANGED registryVars => RegistryInv'
BY DEF RegistryInv, RegistryTypeOK, CopiesFollow, NamesFresh, Registered, registryVars

------------------------------------------------------------------------------
\* The registry's invariant: no order of hellos, tool lists and disconnects
\* leaves a stale listing or a stale copy of a tab.
THEOREM RegistryInvariant == RegistrySpec => []RegistryInv
<1>1. RegistryInv /\ [RegistryNext]_registryVars => RegistryInv'
  BY UpsertKeepsInv, RegisterKeepsInv, RemoveKeepsInv, StutterKeepsInv DEF RegistryNext
<1> QED BY InitHasInv, <1>1, PTL DEF RegistrySpec

\* The type invariant of registry.ts.
THEOREM RegistryTypeCorrect == RegistrySpec => []RegistryTypeOK
<1>1. RegistryInv => RegistryTypeOK
  BY DEF RegistryInv
<1> QED BY <1>1, RegistryInvariant, PTL

\* The cached public names are never stale (rebuildPublicNames is called by
\* every operation whose effect on the providers can change a name).
THEOREM ListingNeverStale == RegistrySpec => []NamesFresh
<1>1. RegistryInv => NamesFresh
  BY DEF RegistryInv
<1> QED BY <1>1, RegistryInvariant, PTL

\* What follows from the invariant in one state.
LEMMA InvGivesRoutes == RegistryInv => RoutesMatchSources
<1> SUFFICES ASSUME RegistryInv, NEW p \in published PROVE p.tab = source[p.conn]
  BY DEF RoutesMatchSources
<1>1. p \in Rebuild(providers)
  BY DEF RegistryInv, NamesFresh
<1> QED BY <1>1, RebuildSound DEF RegistryInv, CopiesFollow

\* An invocation restricted to a tab reaches only connections of that tab
\* (resolveInvocation reads the provider's own copy of the tab).
THEOREM RoutesFollowSources == RegistrySpec => []RoutesMatchSources
BY InvGivesRoutes, RegistryInvariant, PTL

LEMMA InvGivesComplete == RegistryInv => ListingComplete
<1> SUFFICES ASSUME RegistryInv, NEW c \in Registered, NEW p \in providers[c]
             PROVE  Cardinality({q \in published : q.conn = c /\ q.tool = p.tool}) = 1
  BY DEF ListingComplete
<1>1. c \in Conn
  BY DEF Registered
<1>2. \A q \in providers[c] : q.tool = p.tool => q = p
  BY <1>1 DEF RegistryInv, RegistryTypeOK, CopiesFollow, Provider
<1>3. PICK e \in Rebuild(providers) : \A q \in Rebuild(providers) :
                q.conn = c /\ q.tool = p.tool <=> q = e
  BY <1>1, <1>2, RebuildComplete
<1>4. {q \in published : q.conn = c /\ q.tool = p.tool} = {e}
  BY <1>3 DEF RegistryInv, NamesFresh
<1> QED BY <1>4, FS_Singleton

\* Every tool of every registered connection is listed once.
THEOREM NothingUnlisted == RegistrySpec => []ListingComplete
BY InvGivesComplete, RegistryInvariant, PTL

LEMMA InvGivesNames == RegistryInv => NamesIdentifyTools
BY RebuildIdentifies DEF RegistryInv, RegistryTypeOK, NamesFresh, NamesIdentifyTools

\* A public name stands for one tool of one tab, whatever names the tools have and
\* however they collide with the numbered ones (rebuildPublicNames).
THEOREM NamesIdentify == RegistrySpec => []NamesIdentifyTools
BY InvGivesNames, RegistryInvariant, PTL

\* The three together: the cached listing is fresh, routes to the tabs the sources
\* are for, and misses nothing.
THEOREM ListingSound == RegistrySpec => []ListingIsTrue
<1>1. NamesFresh /\ RoutesMatchSources /\ ListingComplete => ListingIsTrue
  BY DEF ListingIsTrue
<1> QED BY <1>1, ListingNeverStale, RoutesFollowSources, NothingUnlisted, PTL

------------------------------------------------------------------------------
(* The relay process.  The inductive invariant has three parts, one per    *)
(* group of variables: what the sockets keep (SocketInv), what the calls   *)
(* keep (CallInv) and what the relay clients see (ViewInv).  Most actions  *)
(* concern one part; the lemmas below say what is enough to keep another.  *)

SocketTyped ==
    /\ listening \in BOOLEAN
    /\ link \in [Conn -> {"unused", "open", "closing", "gone"}]
    /\ joined \in SUBSET Conn
    /\ heartbeat \in SUBSET Conn
    /\ quiet \in [Conn -> 0 .. 2]

SocketInv == SocketTyped /\ NoLeftovers /\ RegistryBelongsToJoined

CallTyped ==
    /\ pending \in SUBSET Call
    /\ timer \in SUBSET Call
    /\ owner \in [Call -> Conn \cup {NoConn}]
    /\ promise \in [Call -> {"unmade", "waiting", "answered", "failed"}]
    /\ answerer \in [Call -> Conn \cup {NoConn}]
    /\ caller \in [Call -> Relay \cup {Mcp}]
    /\ reply \in [Call -> {"none", "sent", "dropped"}]

\* A call that was not made has no reply, and a relay that called has connected.
CallsFollowLinks ==
    \A i \in Call :
        /\ promise[i] = "unmade" => reply[i] = "none"
        /\ caller[i] \in Relay => link[caller[i]] # "unused"

CallInv ==
    /\ CallTyped
    /\ PendingAccounted
    /\ NoCallOnLostSocket
    /\ CallsFollowLinks
    /\ RelayCallsAnswered

\* Only a relay that said hello was sent a listing, and it stays joined while
\* its socket is open.
ViewsFollowHello ==
    \A r \in Relay : view[r] # NoView => link[r] # "unused" /\ (link[r] = "open" => r \in joined)

ViewTyped ==
    /\ view = [r \in Relay |-> view[r]]
    /\ \A r \in Relay : view[r] = NoView \/ view[r].sources \subseteq Conn

ViewInv == ViewTyped /\ ViewsFollowHello /\ RelayViewsCurrent

BridgeInv == RegistryInv /\ SocketInv /\ CallInv /\ ViewInv

------------------------------------------------------------------------------
\* Sockets only move forward, and a relay leaves `joined` only with its socket.
SocketsAge ==
    /\ \A c \in Conn :
          /\ link[c] # "unused" => link'[c] # "unused"
          /\ link[c] \notin {"unused", "open"} => link'[c] # "open"
    /\ \A r \in Relay : r \in joined /\ link'[r] = "open" => r \in joined'

LEMMA StepAgesSockets == SocketInv /\ [Next]_vars => SocketsAge
<1> SUFFICES ASSUME SocketInv, [Next]_vars PROVE SocketsAge
  OBVIOUS
<1> USE DEF SocketInv, SocketTyped, SocketsAge, Relay, Tracked
<1>1. CASE UNCHANGED <<link, joined>>
  BY <1>1
<1>2. CASE \E c \in Conn : Connect(c)
  BY <1>2 DEF Connect
<1>3. CASE \E c \in Conn : Heartbeat(c)
  BY <1>3 DEF Heartbeat, Hangup
<1>4. CASE \E c \in Conn : SocketClose(c)
  BY <1>4 DEF SocketClose
<1>5. CASE \E c \in Browser, t \in Tab : Hello(c, t)
  BY <1>5 DEF Hello, Hangup
<1>6. CASE \E c \in Browser, tools \in SUBSET Tool : ToolList(c, tools)
  BY <1>6 DEF ToolList, Hangup
<1>7. CASE \E r \in Relay : RelayHello(r)
  BY <1>7 DEF RelayHello
<1>8. CASE \E c \in Browser : NotNegotiated(c)
  BY <1>8 DEF NotNegotiated, Hangup
<1>9. CASE Stop
  BY <1>9 DEF Stop
<1> QED
  BY <1>1, <1>2, <1>3, <1>4, <1>5, <1>6, <1>7, <1>8, <1>9
  DEF Next, vars, socketVars, Listen, Pong, SourceDisconnected, RelayListTools,
      Invoke, InvokeFails, Result, InvokeTimeout

------------------------------------------------------------------------------
(* What is enough to keep a part of the invariant.                         *)

\* An action that touches no call keeps what holds of calls if no tracked
\* socket is lost.
LEMMA CallFrame ==
    ASSUME CallInv, UNCHANGED callVars, SocketsAge, Tracked \subseteq Tracked'
    PROVE  CallInv'
<1> USE DEF callVars
<1>1. CallTyped' /\ PendingAccounted'
  BY DEF CallInv, CallTyped, PendingAccounted
<1>2. NoCallOnLostSocket'
  BY DEF CallInv, NoCallOnLostSocket
<1>3. CallsFollowLinks'
  BY DEF CallInv, CallTyped, CallsFollowLinks, SocketsAge, Relay
<1>4. RelayCallsAnswered'
  <2> SUFFICES ASSUME NEW i \in Call, caller[i] \in Relay
               PROVE  reply[i] = "dropped" => link'[caller[i]] # "open"
    BY DEF CallInv, RelayCallsAnswered
  <2>1. caller[i] \in Conn /\ link[caller[i]] # "unused"
    BY DEF Relay, CallInv, CallsFollowLinks
  <2>2. reply[i] = "dropped" => link[caller[i]] # "open"
    BY DEF CallInv, RelayCallsAnswered
  <2> QED BY <2>1, <2>2 DEF SocketsAge
<1> QED BY <1>1, <1>2, <1>3, <1>4 DEF CallInv

\* Settling a set of pending calls, with their entries and timers removed,
\* keeps what holds of calls if no call that stays waits on a lost socket.
LEMMA CallsSettled ==
    ASSUME CallInv, SocketsAge, NEW calls \in SUBSET pending,
           NEW outcome \in {"answered", "failed"},
           Forget(calls), Settle(calls, outcome),
           UNCHANGED <<owner, caller>>, answerer' \in [Call -> Conn \cup {NoConn}],
           \A i \in pending \ calls : owner[i] \in Tracked'
    PROVE  CallInv'
<1> USE DEF CallInv, Forget, Settle
<1>1. CallTyped'
  BY DEF CallTyped
<1>2. PendingAccounted'
  BY DEF CallTyped, PendingAccounted
<1>3. NoCallOnLostSocket'
  BY DEF NoCallOnLostSocket
<1>4. CallsFollowLinks'
  BY DEF CallTyped, CallsFollowLinks, SocketsAge, Relay, PendingAccounted
<1>5. RelayCallsAnswered'
  <2> SUFFICES ASSUME NEW i \in Call, caller[i] \in Relay
               PROVE  /\ promise'[i] \in {"answered", "failed"} <=> reply'[i] # "none"
                      /\ reply'[i] = "dropped" => link'[caller[i]] # "open"
    BY DEF RelayCallsAnswered
  <2>1. CASE i \in calls
    BY <2>1 DEF CallTyped
  <2>2. CASE i \notin calls
    <3>1. caller[i] \in Conn /\ link[caller[i]] # "unused"
      BY DEF Relay, CallsFollowLinks
    <3>2. promise'[i] = promise[i] /\ reply'[i] = reply[i]
      BY <2>2
    <3> QED BY <3>1, <3>2 DEF SocketsAge, RelayCallsAnswered
  <2> QED BY <2>1, <2>2
<1> QED BY <1>1, <1>2, <1>3, <1>4, <1>5

\* A push to the relays that are joined and open after the action makes what
\* they were sent current.
LEMMA ViewsPushed ==
    ASSUME ViewInv, SocketsAge, PushTools(OpenRelays')
    PROVE  ViewInv'
<1> USE DEF ViewInv, PushTools
<1>1. \A r \in Relay : view'[r] = IF r \in OpenRelays' THEN Listing(published', source')
                                                       ELSE view[r]
  OBVIOUS
<1>2. ViewTyped'
  BY <1>1 DEF ViewTyped, Listing
<1>3. ViewsFollowHello'
  BY <1>1 DEF ViewsFollowHello, SocketsAge, OpenRelays, Relay
<1>4. RelayViewsCurrent'
  BY <1>1 DEF RelayViewsCurrent, OpenRelays
<1> QED BY <1>2, <1>3, <1>4

\* Without a push they stay current if the registry did not change or no relay
\* is left to see it.
LEMMA ViewFrame ==
    ASSUME ViewInv, SocketsAge, UNCHANGED view,
           UNCHANGED <<published, source>> \/ OpenRelays' = {}
    PROVE  ViewInv'
<1> USE DEF ViewInv
<1>1. ViewTyped'
  BY DEF ViewTyped
<1>2. ViewsFollowHello'
  BY DEF ViewsFollowHello, SocketsAge, Relay
<1>3. RelayViewsCurrent'
  BY DEF ViewsFollowHello, RelayViewsCurrent, SocketsAge, OpenRelays, Relay, Listing
<1> QED BY <1>1, <1>2, <1>3

------------------------------------------------------------------------------
(* The registry.                                                           *)

LEMMA RegistryStep ==
    ASSUME RegistryInv, [Next]_vars
    PROVE  RegistryInv'
<1>1. CASE UNCHANGED registryVars
  BY <1>1, StutterKeepsInv
<1>2. CASE \E c \in Browser, t \in Tab : Hello(c, t)
  BY <1>1, <1>2, UpsertKeepsInv, ConnAssumption DEF Hello, registryVars
<1>3. CASE \E c \in Browser, tools \in SUBSET Tool : ToolList(c, tools)
  BY <1>1, <1>3, RegisterKeepsInv, ConnAssumption DEF ToolList, registryVars
<1>4. CASE \E gone \in SUBSET Conn : RemoveConnections(gone)
  BY <1>4, RemoveKeepsInv
<1>5. Tracked \in SUBSET Conn /\ \A c \in Conn : {c} \in SUBSET Conn
  BY DEF Tracked
<1>6. ASSUME NEW c \in Conn, SocketClose(c) \/ SourceDisconnected(c)
      PROVE  RegistryInv'
  <2>1. RemoveConnections({c})
    BY <1>6 DEF SocketClose, SourceDisconnected
  <2> QED BY <1>4, <1>5, <2>1
<1>7. CASE Stop
  <2>1. RemoveConnections(Tracked)
    BY <1>7 DEF Stop
  <2> QED BY <1>4, <1>5, <2>1
<1> QED
  BY <1>1, <1>2, <1>3, <1>6, <1>7, ConnAssumption
  DEF Next, vars, Listen, Connect, Heartbeat, Pong, NotNegotiated, RelayHello, RelayListTools,
      Invoke, InvokeFails, Result, InvokeTimeout

------------------------------------------------------------------------------
(* The sockets.                                                            *)

\* What the operations of the registry do to the set of registered connections.
LEMMA RegisteredAfter ==
    ASSUME RegistryTypeOK
    PROVE  /\ \A c \in Conn, t \in Tab : UpsertSource(c, t) => Registered' = Registered \cup {c}
           /\ \A c \in Conn, tools \in SUBSET Tool : RegisterTools(c, tools) => Registered' = Registered
           /\ \A gone \in SUBSET Conn : RemoveConnections(gone) => Registered' = Registered \ gone
BY NoTabAssumption
DEF RegistryTypeOK, Registered, UpsertSource, RegisterTools, RemoveConnections

LEMMA SocketStep ==
    ASSUME RegistryTypeOK, SocketInv, [Next]_vars
    PROVE  SocketInv'
<1> USE ConnAssumption DEF SocketInv, SocketTyped, NoLeftovers, RegistryBelongsToJoined, Tracked
<1>1. CASE UNCHANGED socketVars /\ Registered' = Registered
  BY <1>1 DEF socketVars
<1>2. CASE Listen
  BY <1>2 DEF Listen, registryVars, Registered
<1>3. ASSUME NEW c \in Conn, Connect(c) PROVE SocketInv'
  BY <1>3 DEF Connect, registryVars, Registered
<1>4. ASSUME NEW c \in Conn, Heartbeat(c) PROVE SocketInv'
  BY <1>4 DEF Heartbeat, Hangup, registryVars, Registered
<1>5. ASSUME NEW c \in Conn, SocketClose(c) PROVE SocketInv'
  <2>1. Registered' = Registered \ {c}
    BY <1>5, RegisteredAfter DEF SocketClose
  <2> QED BY <1>5, <2>1 DEF SocketClose
<1>6. ASSUME NEW c \in Browser, Pong(c) PROVE SocketInv'
  BY <1>6 DEF Pong, registryVars, Registered
<1>7. ASSUME NEW c \in Browser, SourceDisconnected(c) PROVE SocketInv'
  <2>1. Registered' = Registered \ {c}
    BY <1>7, RegisteredAfter DEF SourceDisconnected
  <2> QED BY <1>7, <2>1 DEF SourceDisconnected, socketVars
<1>8. ASSUME NEW c \in Browser, NEW t \in Tab, Hello(c, t) PROVE SocketInv'
  <2>1. CASE c \in Disallowed
    BY <1>8, <2>1 DEF Hello, Hangup, registryVars, Registered
  <2>2. CASE c \notin Disallowed
    <3>1. Registered' = Registered \cup {c}
      BY <1>8, <2>2, RegisteredAfter DEF Hello
    <3> QED BY <1>8, <2>2, <3>1 DEF Hello
  <2> QED BY <2>1, <2>2
<1>9. ASSUME NEW c \in Browser, NEW tools \in SUBSET Tool, ToolList(c, tools)
      PROVE  SocketInv'
  <2>1. Registered' = Registered
    BY <1>9, RegisteredAfter DEF ToolList, registryVars, Registered
  <2> QED BY <1>9, <2>1 DEF ToolList, Hangup
<1>10. ASSUME NEW r \in Relay, RelayHello(r) PROVE SocketInv'
  BY <1>10 DEF RelayHello, Relay, registryVars, Registered
<1>11. ASSUME NEW c \in Browser, NotNegotiated(c) PROVE SocketInv'
  BY <1>11 DEF NotNegotiated, Hangup, registryVars, Registered
<1>12. CASE Stop
  <2>1. Registered' = Registered \ Tracked
    BY <1>12, RegisteredAfter DEF Stop
  <2> QED BY <1>12, <2>1 DEF Stop
<1> QED
  BY <1>1, <1>2, <1>3, <1>4, <1>5, <1>6, <1>7, <1>8, <1>9, <1>10, <1>11, <1>12
  DEF Next, vars, registryVars, Registered, RelayListTools, Invoke, InvokeFails,
      Result, InvokeTimeout

------------------------------------------------------------------------------
(* The calls.                                                              *)

\* Handing a call over adds it, with its timeout, to the pending ones.
LEMMA InvokeKeepsCalls ==
    ASSUME RegistryInv, SocketInv, CallInv,
           NEW i \in Call, NEW from \in Callers, NEW name, NEW target,
           Invoke(i, from, name, target)
    PROVE  CallInv'
<1> USE DEF CallInv
<1>1. PICK p \in published : link[p.conn] = "open" /\ owner' = [owner EXCEPT ![i] = p.conn]
  BY DEF Invoke, Resolve
<1>2. p.conn \in Registered
  <2>1. p \in Rebuild(providers)
    BY DEF RegistryInv, NamesFresh
  <2> QED BY <2>1, RebuildSound DEF RegistryInv, RegistryTypeOK
<1>3. p.conn \in Tracked \cap Browser
  BY <1>2 DEF SocketInv, RegistryBelongsToJoined
<1>4. from \in Relay \cup {Mcp} /\ (from \in Relay => link[from] # "unused")
  BY NoConnAssumption DEF Callers, Tracked, Relay
<1> USE <1>1, <1>4 DEF Invoke
<1>5. CallTyped'
  BY <1>3 DEF CallTyped, Tracked
<1>6. PendingAccounted'
  <2>1. \A j \in Call : promise'[j] = "waiting" <=> j = i \/ promise[j] = "waiting"
    BY DEF CallTyped
  <2>2. pending' = {j \in Call : promise'[j] = "waiting"}
    BY <2>1 DEF PendingAccounted
  <2> QED BY <2>2 DEF PendingAccounted
<1>7. NoCallOnLostSocket'
  BY <1>3 DEF CallTyped, NoCallOnLostSocket, socketVars, Tracked
<1>8. CallsFollowLinks'
  BY DEF CallTyped, CallsFollowLinks, socketVars
<1>9. RelayCallsAnswered'
  BY DEF CallTyped, CallsFollowLinks, RelayCallsAnswered, socketVars
<1> QED BY <1>5, <1>6, <1>7, <1>8, <1>9

\* A call that fails at once is answered at once and never pending.
LEMMA InvokeFailsKeepsCalls ==
    ASSUME CallInv, NEW i \in Call, NEW from \in Callers, NEW name, NEW target,
           InvokeFails(i, from, name, target)
    PROVE  CallInv'
<1> USE DEF CallInv, InvokeFails, Settle, socketVars
<1>1. from \in Relay \cup {Mcp} /\ (from \in Relay => link[from] # "unused")
  BY NoConnAssumption DEF Callers, Tracked, Relay
<1>2. CallTyped'
  BY <1>1 DEF CallTyped
<1>3. PendingAccounted'
  BY DEF CallTyped, PendingAccounted
<1>4. NoCallOnLostSocket'
  BY DEF NoCallOnLostSocket, Tracked
<1>5. CallsFollowLinks'
  BY <1>1 DEF CallTyped, CallsFollowLinks
<1>6. RelayCallsAnswered'
  BY <1>1 DEF CallTyped, CallsFollowLinks, RelayCallsAnswered
<1> QED BY <1>2, <1>3, <1>4, <1>5, <1>6

LEMMA CallStep ==
    ASSUME RegistryInv, SocketInv, CallInv, [Next]_vars
    PROVE  CallInv'
<1>1. SocketsAge
  BY StepAgesSockets
<1>2. CASE UNCHANGED callVars /\ Tracked \subseteq Tracked'
  BY <1>1, <1>2, CallFrame
<1>3. ASSUME NEW c \in Conn, SocketClose(c) PROVE CallInv'
  <2>1. WaitingOn(c) \in SUBSET pending /\ answerer' \in [Call -> Conn \cup {NoConn}]
    BY <1>3 DEF WaitingOn, SocketClose, CallInv, CallTyped
  <2>2. \A i \in pending \ WaitingOn(c) : owner[i] \in Tracked'
    BY <1>3 DEF WaitingOn, SocketClose, CallInv, NoCallOnLostSocket, Tracked
  <2>3. Forget(WaitingOn(c)) /\ Settle(WaitingOn(c), "failed") /\ UNCHANGED <<owner, caller>>
    BY <1>3 DEF SocketClose
  <2> QED BY <1>1, <2>1, <2>2, <2>3, CallsSettled
<1>4. CASE Stop
  <2>1. /\ Forget(pending) /\ Settle(pending, "failed") /\ UNCHANGED <<owner, caller>>
        /\ answerer' \in [Call -> Conn \cup {NoConn}]
    BY <1>4 DEF Stop, CallInv, CallTyped
  <2> QED BY <1>1, <2>1, CallsSettled
<1>5. ASSUME NEW c \in Browser, NEW i \in Call, Result(c, i) PROVE CallInv'
  <2>1. /\ {i} \in SUBSET pending /\ Forget({i}) /\ Settle({i}, "answered")
        /\ UNCHANGED <<owner, caller>>
        /\ answerer' \in [Call -> Conn \cup {NoConn}]
    BY <1>5, ConnAssumption DEF Result, CallInv, CallTyped
  <2>2. \A j \in pending \ {i} : owner[j] \in Tracked'
    BY <1>5 DEF Result, socketVars, Tracked, CallInv, NoCallOnLostSocket
  <2> QED BY <1>1, <2>1, <2>2, CallsSettled
<1>6. ASSUME NEW i \in Call, InvokeTimeout(i) PROVE CallInv'
  <2>1. /\ {i} \in SUBSET pending /\ Forget({i}) /\ Settle({i}, "failed")
        /\ UNCHANGED <<owner, caller>>
        /\ answerer' \in [Call -> Conn \cup {NoConn}]
    BY <1>6 DEF InvokeTimeout, CallInv, CallTyped, PendingAccounted
  <2>2. \A j \in pending \ {i} : owner[j] \in Tracked'
    BY <1>6 DEF InvokeTimeout, socketVars, Tracked, CallInv, NoCallOnLostSocket
  <2> QED BY <1>1, <2>1, <2>2, CallsSettled
<1>7. ASSUME NEW c \in Conn, Connect(c) \/ Heartbeat(c) PROVE CallInv'
  <2>1. UNCHANGED callVars /\ Tracked \subseteq Tracked'
    BY <1>7 DEF Connect, Heartbeat, Hangup, Tracked, SocketInv, SocketTyped
  <2> QED BY <1>2, <2>1
<1>8. ASSUME NEW c \in Browser, NEW t \in Tab, Hello(c, t) PROVE CallInv'
  <2>1. UNCHANGED callVars /\ Tracked \subseteq Tracked'
    BY <1>8 DEF Hello, Hangup, Tracked, SocketInv, SocketTyped
  <2> QED BY <1>2, <2>1
<1>9. ASSUME NEW c \in Browser, NEW tools \in SUBSET Tool, ToolList(c, tools) PROVE CallInv'
  <2>1. UNCHANGED callVars /\ Tracked \subseteq Tracked'
    BY <1>9 DEF ToolList, Hangup, Tracked, SocketInv, SocketTyped
  <2> QED BY <1>2, <2>1
<1>10. ASSUME NEW c \in Browser, NotNegotiated(c) PROVE CallInv'
  <2>1. UNCHANGED callVars /\ Tracked \subseteq Tracked'
    BY <1>10 DEF NotNegotiated, Hangup, Tracked, SocketInv, SocketTyped
  <2> QED BY <1>2, <2>1
<1>11. CASE UNCHANGED <<link, callVars>>
  BY <1>2, <1>11 DEF Tracked
<1> QED
  BY <1>3, <1>4, <1>5, <1>6, <1>7, <1>8, <1>9, <1>10, <1>11, InvokeKeepsCalls, InvokeFailsKeepsCalls
  DEF Next, vars, socketVars, Listen, Pong, SourceDisconnected, RelayHello, RelayListTools

------------------------------------------------------------------------------
(* The views.                                                              *)

LEMMA ViewStep ==
    ASSUME SocketInv, ViewInv, [Next]_vars
    PROVE  ViewInv'
<1>1. SocketsAge
  BY StepAgesSockets
<1>2. CASE UNCHANGED <<view, registryVars>>
  BY <1>1, <1>2, ViewFrame DEF registryVars
<1>3. ASSUME NEW c \in Browser, NEW t \in Tab, Hello(c, t) PROVE ViewInv'
  <2>1. CASE c \in Disallowed
    BY <1>2, <1>3, <2>1 DEF Hello
  <2>2. CASE c \notin Disallowed
    <3>1. OpenRelays' = OpenRelays
      BY <1>3, <2>2 DEF Hello, OpenRelays, Relay
    <3> QED BY <1>1, <1>3, <2>2, <3>1, ViewsPushed DEF Hello
  <2> QED BY <2>1, <2>2
<1>4. ASSUME NEW c \in Browser, NEW tools \in SUBSET Tool, ToolList(c, tools) PROVE ViewInv'
  <2>1. CASE UNCHANGED <<registryVars, view>>
    BY <1>2, <2>1
  <2>2. CASE PushTools(OpenRelays) /\ UNCHANGED link
    <3>1. OpenRelays' = OpenRelays
      BY <1>4, <2>2 DEF ToolList, OpenRelays
    <3> QED BY <1>1, <2>2, <3>1, ViewsPushed
  <2> QED BY <1>4, <2>1, <2>2 DEF ToolList
<1>5. ASSUME NEW c \in Browser, SourceDisconnected(c) PROVE ViewInv'
  <2>1. OpenRelays' = OpenRelays
    BY <1>5 DEF SourceDisconnected, OpenRelays, socketVars
  <2> QED BY <1>1, <1>5, <2>1, ViewsPushed DEF SourceDisconnected
<1>6. ASSUME NEW c \in Conn, SocketClose(c) PROVE ViewInv'
  <2>1. OpenRelays' = OpenRelays \ {c}
    BY <1>6 DEF SocketClose, OpenRelays, Relay, SocketInv, SocketTyped
  <2> QED BY <1>1, <1>6, <2>1, ViewsPushed DEF SocketClose
<1>7. CASE Stop
  <2>1. OpenRelays' = {} /\ UNCHANGED view
    BY <1>7 DEF Stop, OpenRelays
  <2> QED BY <1>1, <2>1, ViewFrame
<1>8. ASSUME NEW r \in Relay, RelayListTools(r) PROVE ViewInv'
  <2>1. /\ r \in OpenRelays /\ UNCHANGED <<published, source, link, joined>>
        /\ view' = [view EXCEPT ![r] = Listing(published, source)]
    BY <1>8 DEF RelayListTools, registryVars, socketVars
  <2>2. \A q \in Relay : view'[q] = IF q = r THEN Listing(published, source) ELSE view[q]
    BY <2>1 DEF ViewInv, ViewTyped
  <2>3. ViewTyped'
    BY <2>1, <2>2 DEF ViewInv, ViewTyped, Listing
  <2>4. ViewsFollowHello' /\ RelayViewsCurrent'
    BY <2>1, <2>2 DEF ViewInv, ViewsFollowHello, RelayViewsCurrent, OpenRelays, Relay
  <2> QED BY <2>3, <2>4 DEF ViewInv
<1> QED
  BY <1>2, <1>3, <1>4, <1>5, <1>6, <1>7, <1>8
  DEF Next, vars, Listen, Connect, Heartbeat, Pong, NotNegotiated, RelayHello, Invoke, InvokeFails,
      Result, InvokeTimeout

------------------------------------------------------------------------------
LEMMA InitHasBridgeInv == Init => BridgeInv
<1> SUFFICES ASSUME Init PROVE BridgeInv
  OBVIOUS
<1> USE DEF Init
<1>1. RegistryInv
  BY InitHasInv
<1>2. SocketInv
  <2>1. Tracked = {} /\ Registered = {}
    BY DEF Tracked, Registered, RegistryInit
  <2>2. SocketTyped
    <3>1. listening \in BOOLEAN
      OBVIOUS
    <3>2. /\ link \in [Conn -> {"unused", "open", "closing", "gone"}]
          /\ quiet \in [Conn -> 0 .. 2]
      OBVIOUS
    <3> QED BY <3>1, <3>2 DEF SocketTyped
  <2>3. NoLeftovers /\ RegistryBelongsToJoined
    BY <2>1 DEF NoLeftovers, RegistryBelongsToJoined
  <2> QED BY <2>2, <2>3 DEF SocketInv
<1>3. CallInv
  BY NoConnAssumption DEF CallInv, CallTyped, PendingAccounted, NoCallOnLostSocket, CallsFollowLinks,
         RelayCallsAnswered, Relay
<1>4. ViewInv
  BY DEF ViewInv, ViewTyped, ViewsFollowHello, RelayViewsCurrent, OpenRelays
<1> QED BY <1>1, <1>2, <1>3, <1>4 DEF BridgeInv

\* The inductive invariant of bridgeServer.ts in server mode.
THEOREM BridgeInvariant == SafetySpec => []BridgeInv
<1>1. BridgeInv /\ [Next]_vars => BridgeInv'
  <2> SUFFICES ASSUME BridgeInv, [Next]_vars PROVE BridgeInv'
    OBVIOUS
  <2>1. RegistryInv' /\ SocketInv'
    BY RegistryStep, SocketStep DEF BridgeInv, RegistryInv
  <2>2. CallInv' /\ ViewInv'
    BY CallStep, ViewStep DEF BridgeInv
  <2> QED BY <2>1, <2>2 DEF BridgeInv
<1> QED BY InitHasBridgeInv, <1>1, PTL DEF SafetySpec

\* The type invariant of the bridge.
THEOREM BridgeTypeCorrect == SafetySpec => []TypeOK
<1>1. BridgeInv => TypeOK
  BY DEF BridgeInv, RegistryInv, SocketInv, SocketTyped, CallInv, CallTyped, ViewInv,
         ViewTyped, TypeOK
<1> QED BY <1>1, BridgeInvariant, PTL

\* Every path that settles a call also removes its entry and its timer, and the
\* other way round (result, timeout, onSocketClose, stop).
THEOREM CallsAccounted == SafetySpec => []PendingAccounted
<1>1. BridgeInv => PendingAccounted
  BY DEF BridgeInv, CallInv
<1> QED BY <1>1, BridgeInvariant, PTL

\* No call waits on a connection that onSocketClose or stop has forgotten.
THEOREM NoOrphanedCalls == SafetySpec => []NoCallOnLostSocket
<1>1. BridgeInv => NoCallOnLostSocket
  BY DEF BridgeInv, CallInv
<1> QED BY <1>1, BridgeInvariant, PTL

\* A relay that called is answered once, or its socket was lost (sendRelayResult).
THEOREM RelaysAnswered == SafetySpec => []RelayCallsAnswered
<1>1. BridgeInv => RelayCallsAnswered
  BY DEF BridgeInv, CallInv
<1> QED BY <1>1, BridgeInvariant, PTL

\* Tools can be listed only by connections that said hello from an allowed
\* origin and are still there.
THEOREM OnlyJoinedAreRegistered == SafetySpec => []RegistryBelongsToJoined
<1>1. BridgeInv => RegistryBelongsToJoined
  BY DEF BridgeInv, SocketInv
<1> QED BY <1>1, BridgeInvariant, PTL

\* Heartbeats and handshake flags do not outlive their socket, nor the server.
THEOREM NothingLeftOver == SafetySpec => []NoLeftovers
<1>1. BridgeInv => NoLeftovers
  BY DEF BridgeInv, SocketInv
<1> QED BY <1>1, BridgeInvariant, PTL

\* No call is left pending, armed or unsettled alone, and none waits on a lost socket.
THEOREM NoneForgotten == SafetySpec => []NoCallIsForgotten
<1>1. PendingAccounted /\ NoCallOnLostSocket => NoCallIsForgotten
  BY DEF NoCallIsForgotten
<1> QED BY <1>1, CallsAccounted, NoOrphanedCalls, PTL

\* No handshake, heartbeat or registration outlives the socket it belongs to.
THEOREM NothingOutlives == SafetySpec => []NothingOutlivesItsSocket
<1>1. NoLeftovers /\ RegistryBelongsToJoined => NothingOutlivesItsSocket
  BY DEF NothingOutlivesItsSocket
<1> QED BY <1>1, NothingLeftOver, OnlyJoinedAreRegistered, PTL

\* Relay clients are told of every change of the registry (stateChanged).
THEOREM ViewsAreCurrent == SafetySpec => []RelayViewsCurrent
<1>1. BridgeInv => RelayViewsCurrent
  BY DEF BridgeInv, ViewInv
<1> QED BY <1>1, BridgeInvariant, PTL

\* The bridge drives the registry only in ways that keep its listing fresh,
\* complete, and true to the tabs, and its names apart.
THEOREM BridgeKeepsRegistry == SafetySpec => [](ListingIsTrue /\ NamesIdentifyTools)
<1>1. BridgeInv => ListingIsTrue /\ NamesIdentifyTools
  BY InvGivesRoutes, InvGivesComplete, InvGivesNames DEF BridgeInv, RegistryInv, ListingIsTrue
<1> QED BY <1>1, BridgeInvariant, PTL

------------------------------------------------------------------------------
(* The ledger.                                                             *)

\* Every step of the bridge is a step of the ledger or leaves it alone.
LEMMA StepIsLedgerStep ==
    ASSUME BridgeInv, [Next]_vars
    PROVE  [Ledger!Next]_(Ledger!ledgerVars)
<1> DEFINE ledger == <<Tracked, promise, owner, answerer>>
<1>0. SocketTyped /\ CallTyped /\ PendingAccounted /\ NoCallOnLostSocket
  BY DEF BridgeInv, SocketInv, CallInv
<1>1. CASE UNCHANGED ledger
  BY <1>1 DEF Ledger!ledgerVars
<1>2. ASSUME NEW c \in Conn, Connect(c) PROVE Ledger!Next
  <2>1. Tracked' = Tracked \cup {c} /\ UNCHANGED <<promise, owner, answerer>>
    BY <1>0, <1>2 DEF Connect, Tracked, SocketTyped, callVars
  <2>2. Ledger!Join(c)
    BY <2>1 DEF Ledger!Join
  <2> QED BY <2>2 DEF Ledger!Next
<1>3. ASSUME NEW c \in Conn, SocketClose(c) PROVE Ledger!Next
  <2>1. Tracked' = Tracked \ {c} /\ {c} \in SUBSET Tracked
    BY <1>0, <1>3 DEF SocketClose, Tracked, SocketTyped
  <2>2. promise' = [i \in Call |-> IF promise[i] = "waiting" /\ owner[i] \in {c}
                                   THEN "failed" ELSE promise[i]]
    BY <1>0, <1>3 DEF SocketClose, Settle, WaitingOn, PendingAccounted
  <2>3. Ledger!Leave({c})
    BY <1>3, <2>1, <2>2 DEF Ledger!Leave, SocketClose
  <2> QED BY <2>1, <2>3 DEF Ledger!Next
<1>4. CASE Stop
  <2>1. Tracked' = {}
    BY <1>0, <1>4 DEF Stop, Tracked, SocketTyped
  <2>2. promise' = [i \in Call |-> IF promise[i] = "waiting" /\ owner[i] \in Tracked
                                   THEN "failed" ELSE promise[i]]
    BY <1>0, <1>4 DEF Stop, Settle, PendingAccounted, NoCallOnLostSocket
  <2>3. Ledger!Leave(Tracked)
    BY <1>4, <2>1, <2>2 DEF Ledger!Leave, Stop
  <2> QED BY <2>3 DEF Ledger!Next
<1>5. ASSUME NEW i \in Call, NEW from, NEW name, NEW target, Invoke(i, from, name, target)
      PROVE  Ledger!Next
  <2>1. PICK p \in published : link[p.conn] = "open" /\ owner' = [owner EXCEPT ![i] = p.conn]
    BY <1>5 DEF Invoke, Resolve
  <2>2. p.conn \in Conn
    BY DEF BridgeInv, RegistryInv, RegistryTypeOK
  <2>3. p.conn \in Tracked /\ Tracked' = Tracked
    BY <1>5, <2>1, <2>2 DEF Invoke, socketVars, Tracked
  <2>4. Ledger!HandOver(i, p.conn)
    BY <1>5, <2>1, <2>3 DEF Ledger!HandOver, Invoke
  <2> QED BY <2>2, <2>4 DEF Ledger!Next
<1>6. ASSUME NEW i \in Call, NEW from, NEW name, NEW target, InvokeFails(i, from, name, target)
      PROVE  Ledger!Next
  <2>1. promise' = [promise EXCEPT ![i] = "failed"]
    BY <1>0, <1>6 DEF InvokeFails, Settle, CallTyped
  <2>2. Ledger!Refuse(i)
    BY <1>6, <2>1 DEF Ledger!Refuse, InvokeFails, socketVars, Tracked
  <2> QED BY <2>2 DEF Ledger!Next
<1>7. ASSUME NEW c \in Browser, NEW i \in Call, Result(c, i) PROVE Ledger!Next
  <2>1. promise[i] = "waiting" /\ promise' = [promise EXCEPT ![i] = "answered"]
    BY <1>0, <1>7 DEF Result, Settle, CallTyped, PendingAccounted
  <2>2. Ledger!Answer(i)
    BY <1>7, <2>1 DEF Ledger!Answer, Result, socketVars, Tracked
  <2> QED BY <2>2 DEF Ledger!Next
<1>8. ASSUME NEW i \in Call, InvokeTimeout(i) PROVE Ledger!Next
  <2>1. promise[i] = "waiting" /\ promise' = [promise EXCEPT ![i] = "failed"]
    BY <1>0, <1>8 DEF InvokeTimeout, Settle, CallTyped, PendingAccounted
  <2>2. Ledger!Expire(i)
    BY <1>8, <2>1 DEF Ledger!Expire, InvokeTimeout, socketVars, Tracked
  <2> QED BY <2>2 DEF Ledger!Next
<1>9. ASSUME NEW c \in Conn, Heartbeat(c) PROVE UNCHANGED ledger
  BY <1>0, <1>9 DEF Heartbeat, Hangup, Tracked, SocketTyped, callVars
<1>10. ASSUME NEW c \in Browser, NEW t \in Tab, Hello(c, t) PROVE UNCHANGED ledger
  BY <1>0, <1>10 DEF Hello, Hangup, Tracked, SocketTyped, callVars
<1>11. ASSUME NEW c \in Browser, NEW tools \in SUBSET Tool, ToolList(c, tools)
       PROVE  UNCHANGED ledger
  BY <1>0, <1>11 DEF ToolList, Hangup, Tracked, SocketTyped, callVars
<1>12. ASSUME NEW c \in Browser, NotNegotiated(c) PROVE UNCHANGED ledger
  BY <1>0, <1>12, ConnAssumption DEF NotNegotiated, Hangup, Tracked, SocketTyped, callVars
<1>13. CASE UNCHANGED <<link, promise, owner, answerer>>
  BY <1>1, <1>13 DEF Tracked
<1> QED
  BY <1>1, <1>2, <1>3, <1>4, <1>5, <1>6, <1>7, <1>8, <1>9, <1>10, <1>11, <1>12, <1>13
  DEF Next, vars, socketVars, callVars, Listen, Pong, SourceDisconnected, RelayHello,
      RelayListTools

\* The bridge implements the ledger's safety: a call is settled once, by the
\* connection it was handed to, by the loss of that connection or by a timeout.
THEOREM BridgeImplementsLedger == SafetySpec => KeepsLedgerSafety
<1>1. Init => Ledger!Init
  BY DEF Init, Ledger!Init, Tracked
<1>2. BridgeInv /\ [Next]_vars => [Ledger!Next]_(Ledger!ledgerVars)
  BY StepIsLedgerStep
<1> QED BY <1>1, <1>2, BridgeInvariant, PTL DEF SafetySpec, KeepsLedgerSafety, Ledger!LedgerSafety
==============================================================================
