------------------------------ MODULE A2aSource ------------------------------
(***************************************************************************)
(* The remote agents a side panel can delegate to: the saved list of them  *)
(* (App.tsx, a2a-config-store.ts), the synchronisations that turn a list   *)
(* into tools (a2a-host.ts, setAgents of a2a-tool-source.ts), and the      *)
(* delegations that use the tools (callTool, with a2a-client.ts for agents *)
(* of the jsonrpc protocol and dify-client.ts for those of Dify).          *)
(*                                                                         *)
(* A tool is an agent with its protocol, both of which its name carries.   *)
(* Texts, tokens, endpoints and the check of a call's arguments are        *)
(* abstracted: what remains of an answer is whether it is an error.        *)
(***************************************************************************)
EXTENDS Naturals, Sequences, FiniteSets

CONSTANTS
    Agent,       \* agent ids
    Caller,      \* who may hold a call of a tool open, one call each
    Lists,       \* the lists of enabled agents that may be saved
    MaxSaves,    \* bound: how often the list is saved
    MaxPolls     \* A2A_POLL_MAX_ATTEMPTS

Protocol == {"jsonrpc", "dify"}
A2aTool == [id : Agent, protocol : Protocol]

\* A saved list names no agent twice (validateA2aConfigValue).
ASSUME ListsAssumption ==
    \A list \in Lists :
        /\ list \in Seq(A2aTool)
        /\ \A i, j \in DOMAIN list : list[i].id = list[j].id => i = j
ASSUME BoundsAssumption == MaxSaves \in Nat /\ MaxPolls \in Nat

VARIABLES
    config,     \* a2aConfig: the list in force and its number
    syncs,      \* the runs of a2aHost.sync that have not returned
    entries,    \* entries of the tool source: tools, and the list of each
    clean,      \* the newest sync ran alone and could read the storage
    calls,      \* the open call of each caller
    inFlight    \* inFlight of the tool source

a2aVars == <<config, syncs, entries, clean, calls, inFlight>>

Idle == [at |-> "idle", id |-> "-", polls |-> 0]

Entry == [tool : A2aTool, ver : 0 .. MaxSaves]

SourceInit ==
    /\ config = [ver |-> 0, list |-> <<>>]
    /\ syncs = {} /\ entries = {} /\ clean = TRUE
    /\ calls = [c \in Caller |-> Idle] /\ inFlight = {}

------------------------------------------------------------------------------
(***************************************************************************)
(* The list and its synchronisations.                                      *)
(***************************************************************************)
Without(id) == {e \in entries : e.tool.id # id}

\* The dify agents at the head of a list; they need no card.
Ready(list) ==
    {i \in DOMAIN list : \A j \in 1 .. i : list[j].protocol = "dify"}

\* handleSaveA2aConfig once the storage has the list, or the first load; the
\* watch then starts a sync.  The page lets no one save while a turn runs, but
\* the writes of a save may outlast the lock, and nothing waits for the syncs.
Save(list) ==
    /\ config.ver < MaxSaves
    /\ config' = [ver |-> config.ver + 1, list |-> list]
    /\ syncs' = syncs \union {[ver |-> config.ver + 1, at |-> "storage", left |-> list]}
    /\ clean' = (syncs = {})
    /\ UNCHANGED <<entries, calls, inFlight>>

\* setAgents from a point of its list to the next card it has to wait for.
Register(s, known, left) ==
    LET ready == Ready(left)
        n     == Cardinality(ready)
        rest  == SubSeq(left, n + 1, Len(left))
        fresh == {[tool |-> left[i], ver |-> s.ver] : i \in ready}
    IN  /\ entries' = {e \in known : \A f \in fresh : e.tool.id # f.tool.id} \union fresh
        /\ syncs' = (syncs \ {s}) \union
               (IF rest = <<>> THEN {} ELSE {[s EXCEPT !.at = "card", !.left = rest]})

\* setAgents that forgets to clear the tools it had.
Bug_SetAgents(s) ==
    /\ s.at = "storage"
    /\ Register(s, entries, s.left)
    /\ UNCHANGED <<config, clean, calls, inFlight>>

\* sync has read tokens and user from the storage: setAgents begins.
SetAgents(s) ==
    /\ s.at = "storage"
    /\ Register(s, {}, s.left)
    /\ UNCHANGED <<config, clean, calls, inFlight>>

\* The storage rejects the read: sync rejects, and nothing handles that.
SyncFails(s) ==
    /\ s.at = "storage"
    /\ syncs' = syncs \ {s}
    /\ clean' = FALSE
    /\ UNCHANGED <<config, entries, calls, inFlight>>

\* fetchAgentCard answers, or fails or times out: then the agent has no tool.
CardAnswers(s, ok) ==
    /\ s.at = "card"
    /\ LET tool == Head(s.left)
       IN  Register(s, IF ok THEN Without(tool.id) \union {[tool |-> tool, ver |-> s.ver]}
                             ELSE entries,
                    Tail(s.left))
    /\ UNCHANGED <<config, clean, calls, inFlight>>

------------------------------------------------------------------------------
(***************************************************************************)
(* Delegations.                                                            *)
(***************************************************************************)
Open(c) == calls[c].at # "idle"
Listed == {e.tool : e \in entries}

\* callTool refuses tools without an entry or of the other protocol, and
\* agents that are at work.
Refusable(tool) == tool \notin Listed \/ tool.id \in inFlight

\* callTool with the refusals inside its try, so that they free the agent.
Bug_Refuse(c, tool) ==
    /\ ~Open(c)
    /\ inFlight' = inFlight \ {tool.id}
    /\ UNCHANGED <<config, syncs, entries, clean, calls>>

\* callTool that refuses; arguments that do not hold are refused at any time.
Refuse(c, tool) ==
    /\ ~Open(c)
    /\ UNCHANGED <<config, syncs, entries, clean, calls, inFlight>>

\* callTool, delegateSendTask: message/send, or a request to Dify, is sent.
Delegate(c, tool) ==
    /\ ~Open(c)
    /\ ~Refusable(tool)
    /\ calls' = [calls EXCEPT ![c] =
           [at |-> IF tool.protocol = "dify" THEN "dify" ELSE "send",
            id |-> tool.id, polls |-> 0]]
    /\ inFlight' = inFlight \union {tool.id}
    /\ UNCHANGED <<config, syncs, entries, clean>>

\* The call returns and its finally clause frees the agent.
Finish(c) ==
    /\ calls' = [calls EXCEPT ![c] = Idle]
    /\ inFlight' = inFlight \ {calls[c].id}
    /\ UNCHANGED <<config, syncs, entries, clean>>

\* message/send answers with a message or a task that is settled, or fails:
\* request errors, HTTP errors, RPC errors, invalid bodies and the timeout.
SendAnswers(c) == calls[c].at = "send" /\ Finish(c)

\* message/send answers with a task that is still being worked on.
TaskPending(c) ==
    /\ calls[c].at = "send"
    /\ IF MaxPolls = 0
       THEN Finish(c)
       ELSE /\ calls' = [calls EXCEPT ![c].at = "poll", ![c].polls = 1]
            /\ UNCHANGED <<config, syncs, entries, clean, inFlight>>

\* tasks/get, two seconds after the answer before it, returns a settled task
\* or fails.
PollSettles(c) == calls[c].at = "poll" /\ Finish(c)

\* pollUntilSettled that counts its attempts anew.
Bug_PollPending(c) ==
    /\ calls[c].at = "poll"
    /\ calls' = [calls EXCEPT ![c].polls = (@ + 1) % (MaxPolls + 1)]
    /\ UNCHANGED <<config, syncs, entries, clean, inFlight>>

\* tasks/get returns a task still being worked on: again, up to the limit.
PollPending(c) ==
    /\ calls[c].at = "poll"
    /\ IF calls[c].polls < MaxPolls
       THEN /\ calls' = [calls EXCEPT ![c].polls = @ + 1]
            /\ UNCHANGED <<config, syncs, entries, clean, inFlight>>
       ELSE Finish(c)

\* chat of the Dify client: the whole answer, the end of the stream, an error
\* the remote side reports, or the timeout of the request as a whole.
DifyAnswers(c) == calls[c].at = "dify" /\ Finish(c)

\* No event for idleTimeoutMs: the timer cancels the reader, which ends the
\* pending read with done, and the stream counts as ended by the remote side.
DifyGoesIdle(c) ==
    calls[c].at = "dify" /\ Finish(c)

Settles(c) ==
    \/ SendAnswers(c) \/ TaskPending(c)
    \/ PollSettles(c) \/ PollPending(c)
    \/ DifyAnswers(c) \/ DifyGoesIdle(c)

SyncStep ==
    \/ \E list \in Lists : Save(list)
    \/ \E s \in syncs : \/ SetAgents(s) \/ SyncFails(s)
                        \/ \E ok \in BOOLEAN : CardAnswers(s, ok)

CallTool(c, tool) == Refuse(c, tool) \/ Delegate(c, tool)

SourceNext ==
    \/ SyncStep
    \/ \E c \in Caller : Settles(c) \/ \E tool \in A2aTool : CallTool(c, tool)

SourceSpec == SourceInit /\ [][SourceNext]_a2aVars

------------------------------------------------------------------------------
Calls == [at : {"idle", "send", "poll", "dify"}, id : Agent \union {"-"},
          polls : 0 .. MaxPolls]

SourceTypeOK ==
    /\ config \in [ver : 0 .. MaxSaves, list : Lists \union {<<>>}]
    /\ syncs \subseteq [ver : 0 .. MaxSaves, at : {"storage", "card"}, left : Seq(A2aTool)]
    /\ entries \subseteq Entry
    /\ clean \in BOOLEAN
    /\ calls \in [Caller -> Calls]
    /\ inFlight \subseteq Agent

\* No agent is given a second task while it works on one, whoever asks, and an
\* agent whose task ended can be asked again (the serial guard of callTool).
OneTaskPerAgent ==
    /\ \A c, d \in Caller : Open(c) /\ Open(d) /\ calls[c].id = calls[d].id => c = d
    /\ inFlight = {calls[c].id : c \in {d \in Caller : Open(d)}}

\* Once the newest sync has returned, and no other ran beside it, the tools are
\* those of the list in force: all its dify agents, those of its jsonrpc agents
\* whose card came, and nothing of a list before it (App.tsx, watch(a2aConfig)).
ToolsFollowTheList ==
    syncs = {} /\ clean =>
        /\ \A e \in entries : e.ver = config.ver
        /\ \A i \in DOMAIN config.list :
               config.list[i].protocol = "dify" => config.list[i] \in Listed
        /\ \A tool \in Listed : \E i \in DOMAIN config.list : config.list[i] = tool
==============================================================================
