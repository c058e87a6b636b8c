---------------------------- MODULE RelayRegistry ----------------------------
(***************************************************************************)
(* The source and tool registry of the relay (registry.ts, naming.ts): the *)
(* browser sources that said hello, the tools each one provides, and the   *)
(* public names under which MCP clients see those tools.                   *)
(*                                                                         *)
(* The public names are a cache: they are rebuilt from the providers by    *)
(* the operations that change them, and every listing and every invocation *)
(* reads the cache.  When the same tool is offered by several tabs its     *)
(* public name carries a prefix of the tab id, and a name that is already  *)
(* taken is numbered.                                                      *)
(*                                                                         *)
(* A name is the sequence of its parts between underscores: the tool       *)
(* "a_12" is <<"a", "12">>, and so is the tool "a" of the tab "12".        *)
(* Titles, URLs and schemas are left out, and so is the recency of a       *)
(* source: where the code picks the most recently seen of several          *)
(* providers, the model picks any of them.                                 *)
(***************************************************************************)
EXTENDS Integers, Sequences, FiniteSets, SequencesExt

CONSTANTS
    Conn,       \* connection ids, which are also the source ids
    ToolOrder,  \* the original tool names, in code-unit order
    TabOrder,   \* the tab ids, in code-unit order
    Safe,       \* tool |-> its sanitized name
    MaxParts,   \* MAX_MCP_TOOL_NAME_LENGTH, in parts
    Short,      \* tab |-> the first four characters of its sanitized id
    Numeral,    \* n |-> the part written for the number n
    NoTab,      \* "this connection is not registered"
    Anyone      \* "no sourceId and no requestTabId was given"

Tool == ToSet(ToolOrder)
Tab  == ToSet(TabOrder)

ASSUME NoTabAssumption == NoTab \notin Tab
ASSUME AnyoneAssumption == Anyone \notin Conn \cup Tab

\* String() writes different numbers differently; no name needs a number larger by more
\* than one than the number of names there are.
ASSUME NamingAssumption ==
    /\ ToolOrder \in Seq(STRING) /\ TabOrder \in Seq(STRING)
    /\ Safe \in [Tool -> Seq(STRING)] /\ Short \in [Tab -> STRING]
    /\ MaxParts \in Nat \ {0}
    /\ \A m, n \in 1 .. Cardinality(Tool \X (Tab \cup {NoTab})) + 1 :
          Numeral[n] \in STRING /\ (Numeral[m] = Numeral[n] => m = n)

VARIABLES
    source,     \* sourceByConnectionId: the tab a registered connection is for
    providers,  \* toolsByConnectionId: the tools of a connection, each with its own copy of the tab
    published   \* providersByPublicToolName

registryVars == <<source, providers, published>>

Provider == [tool : Tool, tab : Tab]

Registered == {c \in Conn : source[c] # NoTab}

------------------------------------------------------------------------------
(* Public names.                                                           *)

\* The tabs that offer a tool.
TabsOffering(pv, tool) == {p.tab : p \in {q \in UNION {pv[c] : c \in Conn} : q.tool = tool}}

\* A tool offered by several tabs is told apart by its tab, any other is not.
NameKey(pv, p) ==
    <<p.tool, IF Cardinality(TabsOffering(pv, p.tool)) > 1 THEN p.tab ELSE NoTab>>

\* As much of a name as has room, and all of it with a part appended.
Cut(name, room) == SubSeq(name, 1, IF Len(name) <= room THEN Len(name) ELSE room)
Suffixed(name, part) == Append(Cut(name, MaxParts - 1), part)

\* buildPublicToolName: the name a key would like to have.
Candidate(key) ==
    IF key[2] = NoTab THEN Cut(Safe[key[1]], MaxParts) ELSE Suffixed(Safe[key[1]], Short[key[2]])

\* A tab id follows a NUL in the key, so keys sort by tool and then by tab.
KeyLess(j, k) ==
    LET toolRank(key) == CHOOSE i \in DOMAIN ToolOrder : ToolOrder[i] = key[1]
        tabRank(key) == IF key[2] = NoTab
                        THEN 0 ELSE CHOOSE i \in DOMAIN TabOrder : TabOrder[i] = key[2]
    IN  \/ toolRank(j) < toolRank(k)
        \/ toolRank(j) = toolRank(k) /\ tabRank(j) < tabRank(k)

\* Mutant: the names in use are not consulted.
Bug_FirstFree(name, used) == name

\* The first of name, name_2, name_3, ... that is not in use.  A numbered name may be
\* the name itself, when that had to be cut.
FirstFree(name, used) ==
    LET numbered(n) == IF n = 1 THEN name ELSE Suffixed(name, Numeral[n])
        free == {n \in 1 .. Cardinality(used) + 2 : numbered(n) \notin used}
    IN  numbered(CHOOSE n \in free : \A m \in free : n <= m)

\* The names given to a set of keys: in key order, each takes one that those before
\* it have left.
Allocation(keys) ==
    LET names[k \in keys] == FirstFree(Candidate(k), {names[j] : j \in {i \in keys : KeyLess(i, k)}})
    IN  names

\* rebuildPublicNames: the listing computed from the providers.
Rebuild(pv) ==
    LET names == Allocation({NameKey(pv, p) : p \in UNION {pv[c] : c \in Conn}})
    IN  UNION {{[name |-> names[NameKey(pv, p)], conn |-> c, tool |-> p.tool, tab |-> p.tab]
                  : p \in pv[c]} : c \in Conn}

------------------------------------------------------------------------------
(* Operations.                                                             *)

\* A hello: the connection becomes the source of tab t, or moves to tab t.
UpsertSource(c, t) ==
    /\ source' = [source EXCEPT ![c] = t]
    /\ \/ /\ source[c] \in {NoTab, t}
          /\ UNCHANGED <<providers, published>>
       \/ /\ source[c] \notin {NoTab, t}
          /\ providers' = [providers EXCEPT ![c] = {[p EXCEPT !.tab = t] : p \in @}]
          /\ published' = Rebuild(providers')

\* A tool list replaces the tools of a registered connection.
RegisterTools(c, tools) ==
    /\ c \in Registered
    /\ providers' = [providers EXCEPT ![c] = [tool : tools, tab : {source[c]}]]
    /\ published' = Rebuild(providers')
    /\ UNCHANGED source

\* Mutants: the listing is filtered and not rebuilt; the source stays.
Bug_RemoveByFilter(gone) ==
    /\ source' = [c \in Conn |-> IF c \in gone THEN NoTab ELSE source[c]]
    /\ providers' = [c \in Conn |-> IF c \in gone THEN {} ELSE providers[c]]
    /\ published' = {p \in published : p.conn \notin gone}
Bug_RemoveKeepsSource(gone) ==
    /\ providers' = [c \in Conn |-> IF c \in gone THEN {} ELSE providers[c]]
    /\ published' = Rebuild(providers')
    /\ UNCHANGED source

\* The connections in `gone` are forgotten, with their tools.
RemoveConnections(gone) ==
    /\ source' = [c \in Conn |-> IF c \in gone THEN NoTab ELSE source[c]]
    /\ providers' = [c \in Conn |-> IF c \in gone THEN {} ELSE providers[c]]
    /\ published' = Rebuild(providers')

\* The providers an invocation of a public name may go to.  The target is a
\* sourceId (a connection, or a tab as fallback), a requestTabId, or Anyone.
Resolve(name, target) ==
    {p \in published : p.name = name /\ (target = Anyone \/ target \in {p.conn, p.tab})}

------------------------------------------------------------------------------
RegistryInit ==
    /\ source = [c \in Conn |-> NoTab]
    /\ providers = [c \in Conn |-> {}]
    /\ published = {}

RegistryNext ==
    \/ \E c \in Conn, t \in Tab : UpsertSource(c, t)
    \/ \E c \in Conn, tools \in SUBSET Tool : RegisterTools(c, tools)
    \/ \E gone \in SUBSET Conn : RemoveConnections(gone)

RegistrySpec == RegistryInit /\ [][RegistryNext]_registryVars

------------------------------------------------------------------------------
(* Properties.                                                             *)

\* The variables keep their types, and only a registered connection has tools.
RegistryTypeOK ==
    /\ source \in [Conn -> Tab \cup {NoTab}]
    /\ providers \in [Conn -> SUBSET Provider]
    /\ \A p \in published : p.conn \in Conn /\ p.tool \in Tool /\ p.tab \in Tab
    /\ \A c \in Conn \ Registered : providers[c] = {}

\* The cached listing is the one a rebuild would compute now: no hello, tool
\* list or disconnect leaves a stale public name behind.
NamesFresh == published = Rebuild(providers)

\* A provider is listed under the tab its source is for now, so an invocation
\* restricted to a tab never reaches a connection that serves another tab.
RoutesMatchSources == \A p \in published : p.tab = source[p.conn]

\* Two listed providers share a public name exactly when they are the same
\* tool of the same tab: a name never stands for two tools, and the
\* connections that one tab holds stay interchangeable.
NamesIdentifyTools ==
    \A p, q \in published : p.name = q.name <=> p.tool = q.tool /\ p.tab = q.tab

\* Every tool of every registered connection is listed, under one name.
ListingComplete ==
    \A c \in Registered : \A p \in providers[c] :
        Cardinality({q \in published : q.conn = c /\ q.tool = p.tool}) = 1

\* No sequence of hellos, tool lists and ends of sources leaves the cached listing
\* stale, with a route to another tab, or without a tool that is registered.
ListingIsTrue == NamesFresh /\ RoutesMatchSources /\ ListingComplete
==============================================================================
