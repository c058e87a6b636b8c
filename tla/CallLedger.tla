------------------------------ MODULE CallLedger ------------------------------
(***************************************************************************)
(* What the relay promises about tool calls, whatever happens to the       *)
(* connections: a call is handed to one live connection, only that         *)
(* connection can answer it, it is settled once, it never waits on a       *)
(* connection that is gone, and it does not wait for ever.                 *)
(***************************************************************************)
CONSTANTS
    Call,   \* tool calls
    Conn,   \* connections
    NoConn  \* "not handed to a connection"

VARIABLES
    live,     \* the connections the relay is serving
    promise,  \* call |-> what its caller sees
    owner,    \* call |-> the connection it was handed to
    answerer  \* call |-> the connection whose answer settled it

ledgerVars == <<live, promise, owner, answerer>>

Init ==
    /\ live = {}
    /\ promise = [i \in Call |-> "unmade"]
    /\ owner = [i \in Call |-> NoConn]
    /\ answerer = [i \in Call |-> NoConn]

Join(c) ==
    /\ live' = live \cup {c}
    /\ UNCHANGED <<promise, owner, answerer>>

\* No connection can take the call: its caller learns so at once.
Refuse(i) ==
    /\ promise[i] = "unmade"
    /\ promise' = [promise EXCEPT ![i] = "failed"]
    /\ UNCHANGED <<live, owner, answerer>>

HandOver(i, c) ==
    /\ promise[i] = "unmade"
    /\ c \in live
    /\ promise' = [promise EXCEPT ![i] = "waiting"]
    /\ owner' = [owner EXCEPT ![i] = c]
    /\ UNCHANGED <<live, answerer>>

Answer(i) ==
    /\ promise[i] = "waiting"
    /\ promise' = [promise EXCEPT ![i] = "answered"]
    /\ answerer' = [answerer EXCEPT ![i] = owner[i]]
    /\ UNCHANGED <<live, owner>>

Expire(i) ==
    /\ promise[i] = "waiting"
    /\ promise' = [promise EXCEPT ![i] = "failed"]
    /\ UNCHANGED <<live, owner, answerer>>

\* Connections go away, and with them exactly the calls that wait on them.
Leave(gone) ==
    /\ live' = live \ gone
    /\ promise' = [i \in Call |->
                      IF promise[i] = "waiting" /\ owner[i] \in gone
                      THEN "failed" ELSE promise[i]]
    /\ UNCHANGED <<owner, answerer>>

Next ==
    \/ \E c \in Conn : Join(c)
    \/ \E i \in Call : Refuse(i) \/ Answer(i) \/ Expire(i)
    \/ \E i \in Call, c \in Conn : HandOver(i, c)
    \/ \E gone \in SUBSET live : Leave(gone)

LedgerSafety == Init /\ [][Next]_ledgerVars

LedgerSpec ==
    /\ LedgerSafety
    /\ \A i \in Call : WF_ledgerVars(Answer(i) \/ Expire(i))
==============================================================================
