------------------------------ MODULE AgentChat ------------------------------
(***************************************************************************)
(* The chat of a side panel: the controller that runs one turn at a time   *)
(* (chat-controller.ts), the loop of a turn, which asks the model and runs *)
(* the tools it calls for (agent-loop.ts, llm-client.ts), and what App.tsx *)
(* wires around them: the lock, ending a turn, switching the agent, and    *)
(* the debug page, which calls the same tools (DebugPage.tsx).             *)
(*                                                                         *)
(* Calls of remote agents are those of A2aSource; a call of another tool   *)
(* is one step.  A message keeps its role, its session and, for the tool   *)
(* calls, how many there are or which one it answers.  Switching the agent *)
(* opens a session, so that the number stands for the agent too.           *)
(***************************************************************************)
EXTENDS A2aSource, SequencesExt

CONSTANTS
    MaxTurns,      \* settings.maxHistoryTurns, 0 to keep everything
    MaxRounds,     \* maxIterations of the loop
    MaxToolCalls,  \* bound: tool calls in one answer of the model
    MaxMoves       \* bound: turns, saved lists and switches of the user

ASSUME CallerAssumption == Caller = {"chat", "debug"}
ASSUME ChatAssumption ==
    /\ {MaxTurns, MaxToolCalls, MaxMoves} \subseteq Nat
    /\ MaxRounds \in Nat \ {0}

VARIABLES
    history,   \* history of the controller
    turn,      \* the running turn
    session,   \* stands for activeAgentId
    pending,   \* pendingSwitchAgentId is set
    relay,     \* runningCount of the relay store is not 0
    sends      \* how many turns there were

chatVars == <<history, turn, session, pending, relay, sends>>
vars == <<a2aVars, chatVars>>

\* at: idle, tools (getTools), llm (complete) or tool (executeTool).  The loop
\* over the tool calls of an answer has asked calls, todo of which are left.
NoTurn ==
    [at |-> "idle", session |-> 0, seen |-> {}, log |-> <<>>, asked |-> 0, todo |-> 0,
     round |-> 0, stop |-> FALSE]

Init ==
    /\ SourceInit
    /\ history = <<>> /\ turn = NoTurn
    /\ session = 1 /\ pending = FALSE /\ relay = FALSE /\ sends = 0

Busy == turn.at # "idle"
Locked == Busy \/ relay
Spare == sends + config.ver + session <= MaxMoves

Message(role, n) == [role |-> role, session |-> turn.session, calls |-> n]
Turns(log) == {i \in DOMAIN log : log[i].role = "user"}

\* Trimming by messages, a turn taken to be two of them.
Bug_Trim(log) ==
    IF MaxTurns = 0 \/ Len(log) <= 2 * MaxTurns THEN log
    ELSE SubSeq(log, Len(log) - 2 * MaxTurns + 1, Len(log))

\* trimHistory: what has MaxTurns messages of the user after it is dropped, so
\* that the rest is the last MaxTurns turns, from a message of the user on.
Trim(log) ==
    IF MaxTurns = 0 \/ Cardinality(Turns(log)) <= MaxTurns THEN log
    ELSE LET dropped == {i \in DOMAIN log :
                            Cardinality({j \in Turns(log) : j > i}) >= MaxTurns}
         IN  SubSeq(log, Cardinality(dropped) + 1, Len(log))

\* runTurn is over: its transcript is the history, busy is released.
Settle(log) ==
    /\ turn' = NoTurn
    /\ history' = log

\* settleTurnError that keeps what the turn had.
Bug_Abandon == Settle(turn.log)

\* settleTurnError, after an error or an AgentAbortError
Abandon == Settle(history)

\* The head of the loop.
NextRound(log, round) ==
    IF round > MaxRounds THEN Settle(log)
    ELSE IF turn.stop THEN Abandon
    ELSE /\ turn' = [turn EXCEPT !.at = "llm", !.log = log, !.round = round]
         /\ UNCHANGED history

\* The loop over the tool calls of an answer.
NextCall(log, asked, todo) ==
    IF todo = 0 THEN NextRound(log, turn.round + 1)
    ELSE IF turn.stop THEN Abandon
    ELSE /\ turn' = [turn EXCEPT !.at = "tool", !.log = log, !.asked = asked, !.todo = todo]
         /\ UNCHANGED history

\* executeSingleTool has returned; errors are answers for the model too.
ToolAnswered ==
    /\ NextCall(Append(turn.log, Message("tool", turn.asked - turn.todo + 1)),
                turn.asked, turn.todo - 1)
    /\ UNCHANGED <<session, pending, relay, sends>>

------------------------------------------------------------------------------
\* send and handleHandoff, runTurn.  A turn without a key or a path for the
\* model ends before it changes anything, and is left out.
Send ==
    /\ ~Locked
    /\ Spare
    /\ sends' = sends + 1
    /\ turn' = [NoTurn EXCEPT
                   !.at = "tools", !.session = session, !.seen = Listed]
    /\ UNCHANGED <<history, session, pending, relay>>

\* getTools has the tools: the history is trimmed and the loop begins.
ToolsArrive ==
    /\ turn.at = "tools"
    /\ NextRound(Append(Trim(history), Message("user", 0)), 1)
    /\ UNCHANGED <<session, pending, relay, sends>>

\* complete returns an answer with k calls of tools.
ModelAnswers(k) ==
    /\ turn.at = "llm"
    /\ LET log == Append(turn.log, Message("assistant", k))
       IN  IF turn.stop THEN Abandon
           ELSE IF k = 0 THEN Settle(log)
           ELSE NextCall(log, k, k)
    /\ UNCHANGED <<session, pending, relay, sends>>

\* getTools or complete throws; with stop set, it is the signal that ends the
\* request of complete.
TurnFails ==
    /\ turn.at \in {"tools", "llm"}
    /\ Abandon
    /\ UNCHANGED <<session, pending, relay, sends>>

\* A tool that is not a remote agent answers, or fails, or its arguments do not
\* parse.
ToolReturns ==
    /\ turn.at = "tool" /\ ~Open("chat")
    /\ ToolAnswered

\* terminate, abort
Abort ==
    /\ Busy /\ ~turn.stop
    /\ turn' = [turn EXCEPT !.stop = TRUE]
    /\ UNCHANGED <<history, session, pending, relay, sends>>

\* requestSwitchAgent and cancelSwitchAgent
RequestSwitch ==
    /\ pending \/ ~Locked
    /\ pending' = ~pending
    /\ UNCHANGED <<history, turn, session, relay, sends>>

\* confirmSwitchAgent that looks at the relay calls only.
Bug_ConfirmSwitch ==
    /\ pending /\ ~relay
    /\ Spare
    /\ session' = session + 1
    /\ history' = <<>>
    /\ pending' = FALSE
    /\ UNCHANGED <<turn, relay, sends>>

\* confirmSwitchAgent: a new session without a history
ConfirmSwitch ==
    /\ pending /\ ~Locked
    /\ Spare
    /\ session' = session + 1
    /\ history' = <<>>
    /\ pending' = FALSE
    /\ UNCHANGED <<turn, relay, sends>>

\* The service worker reports that calls of the relay run, or that none does.
RelayReports ==
    /\ relay' = ~relay
    /\ UNCHANGED <<history, turn, session, pending, sends>>

\* The loop calls a remote agent it was shown; execute of the debug page calls
\* one it has in its list, which may be old.
ChatCalls == \E tool \in turn.seen :
    /\ turn.at = "tool" /\ ~Open("chat")
    /\ \/ Delegate("chat", tool) /\ UNCHANGED chatVars
       \/ Refuse("chat", tool) /\ ToolAnswered

DebugCalls == \E tool \in A2aTool :
    /\ ~Locked
    /\ CallTool("debug", tool)
    /\ UNCHANGED chatVars

\* A call of the source goes on; when that of the chat ends, the turn has its
\* answer.
CallGoesOn(c) ==
    /\ Settles(c)
    /\ IF c = "chat" /\ ~Open("chat")' THEN ToolAnswered ELSE UNCHANGED chatVars

ChatStep ==
    \/ Send \/ ToolsArrive \/ TurnFails \/ ToolReturns \/ Abort
    \/ \E k \in 0 .. MaxToolCalls : ModelAnswers(k)
    \/ RequestSwitch \/ ConfirmSwitch \/ RelayReports

Next ==
    \/ SyncStep /\ (Spare \/ UNCHANGED config) /\ UNCHANGED chatVars
    \/ ChatStep /\ UNCHANGED a2aVars
    \/ ChatCalls \/ DebugCalls
    \/ \E c \in Caller : CallGoesOn(c)

\* The model need not answer: fetch has no timeout there.  It is the signal
\* that ends its request.  Tools and remote agents answer or time out.
Fairness ==
    /\ WF_vars((ToolsArrive \/ ToolReturns) /\ UNCHANGED a2aVars)
    /\ WF_vars(turn.stop /\ TurnFails /\ UNCHANGED a2aVars)
    /\ \A c \in Caller : WF_vars(CallGoesOn(c))

Spec == Init /\ [][Next]_vars /\ Fairness

------------------------------------------------------------------------------
Messages == [role : {"user", "assistant", "tool"}, session : Nat \ {0}, calls : Nat]

TypeOK ==
    /\ SourceTypeOK
    /\ history \in Seq(Messages)
    /\ turn \in [at : {"idle", "tools", "llm", "tool"}, session : Nat,
                 seen : SUBSET A2aTool, log : Seq(Messages), asked : 0 .. MaxToolCalls,
                 todo : 0 .. MaxToolCalls, round : 0 .. MaxRounds, stop : BOOLEAN]
    /\ turn.todo <= turn.asked
    /\ session \in Nat \ {0} /\ pending \in BOOLEAN /\ relay \in BOOLEAN
    /\ sends \in Nat

\* The calls that message i of the model asks for are answered right after it,
\* in order; and message i, if it is such an answer, has been asked for.
CallsAnswered(log, i) ==
    log[i].role = "assistant" =>
        \A k \in 1 .. log[i].calls :
            i + k \in DOMAIN log /\ log[i + k].role = "tool" /\ log[i + k].calls = k

AnswerAskedFor(log, i) ==
    log[i].role = "tool" =>
        /\ i > log[i].calls
        /\ log[i - log[i].calls].role = "assistant"
        /\ log[i - log[i].calls].calls >= log[i].calls

\* What the protocols of the models ask of a conversation, which begins with
\* the user.
Paired(log) ==
    /\ log # <<>> => log[1].role = "user"
    /\ \A i \in DOMAIN log : CallsAnswered(log, i) /\ AnswerAskedFor(log, i)

\* One step of toAnthropicMessages: results ride in messages of the user, those
\* that follow each other in the same one.
ToWire(wire, message) ==
    IF message.role = "tool" /\ wire # <<>> /\ Last(wire).results # <<>>
    THEN [wire EXCEPT ![Len(wire)].results = Append(@, message.calls)]
    ELSE Append(wire,
           [role    |-> IF message.role = "assistant" THEN "assistant" ELSE "user",
            uses    |-> IF message.role = "assistant" THEN message.calls ELSE 0,
            results |-> IF message.role = "tool" THEN <<message.calls>> ELSE <<>>])

Wire(log) ==
    LET wire[n \in 0 .. Len(log)] == IF n = 0 THEN <<>> ELSE ToWire(wire[n - 1], log[n])
    IN  wire[Len(log)]

\* What Anthropic asks: the message after the uses of tools has all the results.
WirePaired(wire) ==
    \A i \in DOMAIN wire :
        /\ wire[i].uses > 0 =>
               i < Len(wire) /\ wire[i + 1].results = [k \in 1 .. wire[i].uses |-> k]
        /\ wire[i].results # <<>> =>
               i > 1 /\ wire[i - 1].uses = Len(wire[i].results)

\* What is kept, and what is sent to the model, is such a conversation after
\* every way a turn can end: text, limit, error, abort (trimHistory's purpose),
\* and in the form of either protocol (llm-client.ts:245).
TranscriptsArePaired == Paired(history) /\ (turn.at = "llm" => Paired(turn.log))

ConversationsArePaired ==
    /\ TranscriptsArePaired
    /\ turn.at = "llm" => WirePaired(Wire(turn.log))

\* A turn runs under one agent from its configuration to its prompt, and the
\* agent is never shown what was said to the one before it (confirmSwitchAgent
\* clears the history, and no running turn brings it back).
SessionsStayApart ==
    /\ Busy => turn.session = session
    /\ \A i \in DOMAIN history : history[i].session = session
    /\ \A i \in DOMAIN turn.log : turn.log[i].session = session

\* The last tool call of the last round runs, after which the loop ends at its limit.
AtLimit == turn.at = "tool" /\ turn.round = MaxRounds /\ turn.todo = 1

\* A stopped turn leaves the history as it found it.  The one that is stopped
\* in the last call of its last round is not: it ends at the limit.
StoppedTurnsLeaveNoTrace == [][turn.stop /\ history' # history => AtLimit]_vars

\* A turn the user ends does end, although tools and remote agents cannot be
\* interrupted and the model may never answer (terminate).
StoppedTurnsEnd == (Busy /\ turn.stop) ~> ~Busy
==============================================================================
