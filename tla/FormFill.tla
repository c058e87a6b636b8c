------------------------------ MODULE FormFill ------------------------------
(***************************************************************************)
(* A form of the HTML app whose select takes its options from a data       *)
(* source (form-renderer.ts, form-tools.ts, validation.ts), and the cache  *)
(* in front of that source (data-source-resolver.ts).                      *)
(*                                                                         *)
(* The cache has one slot for the source and its parameters.  A slot that  *)
(* is forgotten while something loads lives on until its load has settled, *)
(* and its readers read it.  The data are numbered by their versions, and  *)
(* a loader sees some version of the time it runs.  Three callers read:    *)
(* the renderer, once, to fill the select; form_fill_fields, to check a    *)
(* value; form_submit, by force, to check it again.  What a caller does    *)
(* with its answer it does before any other event: `answered` readers go   *)
(* first.                                                                  *)
(***************************************************************************)
EXTENDS Integers

CONSTANTS
    Slot, NoSlot,
    Offered,        \* version |-> the options the source offers
    Blank,          \* nothing is chosen
    MaxVersion,     \* bound on the changes of the data
    MaxHurt         \* bound on the loads that fail or time out

ASSUME FormAssumption == NoSlot \notin Slot /\ MaxVersion \in Nat /\ MaxHurt \in Nat

Version == 1 .. MaxVersion
Option  == UNION {Offered[v] : v \in Version}
Reader  == {"populate", "fill", "submit"}
Ages    == {"fresh", "old", "expired"}  \* within ttlSec, within maxAgeSec, beyond

VARIABLES
    version,  \* of the data behind the loader
    slot,     \* slot |-> value (a version, 0: never loaded), age, stale, and
              \*   the load under way: began (0: no flight) and late (a loader
              \*   that lost the race with the timeout and has not returned)
    current,  \* the slot that is in the cache
    reader,   \* caller |-> where its read is, and what it read for
    shown,    \* the options of the select element
    chosen,   \* its value
    fresh,    \* DataSourceConfig.freshRequired, which stays as it is
    hurt      \* loads that failed so far

cacheVars == <<version, slot, current, hurt>>
formVars  == <<shown, chosen>>
stepVars == <<cacheVars, reader, formVars>>
vars == <<stepVars, fresh>>

Empty == [value |-> 0, age |-> "expired", stale |-> TRUE, began |-> 0, late |-> 0]
Idle  == [phase |-> "idle", slot |-> NoSlot, got |-> 0, for |-> Blank]

\* populateDynamicOptions has not run: the reader is not idle but "unbuilt".
Init ==
    /\ version = 1
    /\ slot = [s \in Slot |-> Empty]
    /\ current = NoSlot
    /\ reader = [r \in Reader |-> IF r = "populate" THEN [Idle EXCEPT !.phase = "unbuilt"] ELSE Idle]
    /\ shown = {} /\ chosen = Blank
    /\ fresh \in BOOLEAN
    /\ hurt = 0

\* Of a forgotten slot only its load is left.
Kept(s, c) == IF s = current' THEN c ELSE [Empty EXCEPT !.began = c.began, !.late = c.late]

Waiting(s) == {r \in Reader : reader[r].phase = "waiting" /\ reader[r].slot = s}

\* Every continuation of a settled promise has run.
Drained == \A r \in Reader : reader[r].phase \notin {"answered", "failed"}

------------------------------------------------------------------------------
(* The cache.                                                              *)

\* A value past its TTL is served while a load runs in the background.
Background(c, forced) == c.value # 0 /\ ~forced /\ ~c.stale /\ c.age = "old"

\* load(): reader r asks.  A load under way is joined, whatever was asked for;
\* a fresh value is served; an old one too, while a load starts; anything else
\* waits for a load of its own.
Get(r, force, o) ==
    LET forced == force \/ fresh
        answer(phase, s) ==
            reader' = [reader EXCEPT ![r] =
                [phase |-> phase, slot |-> IF phase = "waiting" THEN s ELSE NoSlot,
                 got |-> IF phase = "answered" THEN slot[s].value ELSE 0, for |-> o]]
        start(s, base) == slot' = [slot EXCEPT ![s] = [base EXCEPT !.began = version]]
        c == slot[current]
    IN  \/ /\ current = NoSlot
           /\ \E s \in Slot :
                 /\ slot[s].began = 0 /\ slot[s].late = 0
                 /\ current' = s /\ start(s, Empty) /\ answer("waiting", s)
        \/ /\ current # NoSlot /\ UNCHANGED current
           /\ \/ /\ c.began # 0
                 /\ answer("waiting", current) /\ UNCHANGED slot
              \/ /\ c.began = 0
                 /\ c.value # 0 /\ ~forced /\ ~c.stale /\ c.age = "fresh"
                 /\ answer("answered", current) /\ UNCHANGED slot
              \/ /\ c.began = 0 /\ Background(c, forced)
                 /\ start(current, c) /\ answer("answered", current)
              \/ /\ c.began = 0 /\ ~Background(c, forced)
                 /\ forced \/ c.stale \/ c.age # "fresh" \/ c.value = 0
                 /\ start(current, c) /\ answer("waiting", current)

\* Mutant: whoever waits for a slot that was forgotten is not told.
Bug_Wake(s, phase, got) ==
    reader' = [r \in Reader |->
        IF r \in Waiting(s) /\ s = current THEN [reader[r] EXCEPT !.phase = phase, !.slot = NoSlot, !.got = got] ELSE reader[r]]

Wake(s, phase, got) ==
    reader' = [r \in Reader |->
        IF r \in Waiting(s) THEN [reader[r] EXCEPT !.phase = phase, !.slot = NoSlot, !.got = got] ELSE reader[r]]

\* runLoader: the loader returns the version it saw, and the flight ends.  A
\* markStale since the load began is forgotten.
LoaderReturns(s, seen) ==
    /\ Drained
    /\ slot[s].began # 0 /\ seen \in slot[s].began .. version
    /\ UNCHANGED <<version, current, hurt, formVars>>
    /\ slot' = [slot EXCEPT ![s] =
           Kept(s, [value |-> seen, age |-> "fresh", stale |-> FALSE, began |-> 0, late |-> @.late])]
    /\ Wake(s, "answered", seen)

\* The loader rejects, or the timer does first and the loader runs on.
LoadFails(s) ==
    /\ Drained
    /\ slot[s].began # 0
    /\ hurt < MaxHurt /\ hurt' = hurt + 1
    /\ \E late \in {slot[s].late, slot[s].began} : slot' = [slot EXCEPT ![s].began = 0, ![s].late = late]
    /\ Wake(s, "failed", 0)
    /\ UNCHANGED <<version, current, formVars>>

\* Mutant: the value is stored when the loader returns, not when it wins the race.
Bug_LateReturn(s) ==
    /\ Drained
    /\ slot[s].late # 0
    /\ \E seen \in slot[s].late .. version :
          slot' = [slot EXCEPT ![s].late = 0, ![s].value = seen, ![s].age = "fresh"]
    /\ UNCHANGED <<version, current, hurt, reader, formVars>>

\* A loader that lost the race returns, to nobody.
LateReturn(s) ==
    /\ Drained
    /\ slot[s].late # 0
    /\ slot' = [slot EXCEPT ![s].late = 0]
    /\ UNCHANGED <<version, current, hurt, reader, formVars>>

MarkStale ==
    /\ Drained
    /\ current # NoSlot
    /\ slot' = [slot EXCEPT ![current].stale = TRUE]
    /\ UNCHANGED <<version, current, hurt, reader, formVars>>

\* invalidateParams, or cleanup: the slot leaves the cache, its load goes on.
Forget ==
    /\ Drained
    /\ current # NoSlot
    /\ current' = NoSlot
    /\ slot' = [slot EXCEPT ![current] = Kept(current, @)]
    /\ UNCHANGED <<version, hurt, reader, formVars>>

PassTime(s) ==
    /\ Drained
    /\ slot[s].value # 0
    /\ \/ slot[s].age = "fresh" /\ slot' = [slot EXCEPT ![s].age = "old"]
       \/ slot[s].age = "old" /\ slot' = [slot EXCEPT ![s].age = "expired"]
    /\ UNCHANGED <<version, current, hurt, reader, formVars>>

DataChange ==
    /\ Drained
    /\ version < MaxVersion
    /\ version' = version + 1
    /\ UNCHANGED <<slot, current, hurt, reader, formVars>>

------------------------------------------------------------------------------
(* The form.                                                               *)

\* Assigning a select a value that none of its options has leaves it blank.
WriteInput(o) == chosen' = IF o \in shown THEN o ELSE Blank

\* The form is built, and its select asks for its options.
Build ==
    /\ Drained
    /\ reader["populate"].phase = "unbuilt"
    /\ Get("populate", FALSE, Blank)
    /\ UNCHANGED <<version, hurt, formVars>>

Done(r) == reader' = [reader EXCEPT ![r] = IF r = "populate" THEN [Idle EXCEPT !.phase = "done"] ELSE Idle]

\* populateDynamicOptions goes on: the select is emptied and filled.
Populate ==
    /\ reader["populate"].phase = "answered"
    /\ shown' = Offered[reader["populate"].got]
    /\ chosen' = Blank
    /\ Done("populate")
    /\ UNCHANGED cacheVars

\* It asked before any other reader, so its continuation runs before theirs.
PopulatedFirst == reader["populate"].phase \notin {"answered", "failed"}

\* Mutant: the select is filled again whenever form_get_schema has read its options.
Bug_Apply ==
    /\ reader["fill"].phase = "answered"
    /\ shown' = Offered[reader["fill"].got]
    /\ chosen' = Blank
    /\ Done("fill")
    /\ UNCHANGED cacheVars

\* form_fill_fields asks for the options, with a value to check against them.
Fill(o) ==
    /\ Drained
    /\ reader["fill"].phase = "idle" /\ reader["populate"].phase # "unbuilt"
    /\ Get("fill", FALSE, o)
    /\ UNCHANGED <<version, hurt, formVars>>

\* It goes on: a value that is offered, or any if none is, is written and
\* reported; any other is refused with the list of options.
Apply ==
    /\ reader["fill"].phase = "answered" /\ PopulatedFirst
    /\ LET o == reader["fill"].for
           options == Offered[reader["fill"].got]
       IN  \/ /\ o \in options \/ options = {}
              /\ WriteInput(o)
           \/ /\ o \notin options /\ options # {}
              /\ UNCHANGED chosen
    /\ Done("fill")
    /\ UNCHANGED <<cacheVars, shown>>

\* form_submit, or the button: refused while the field is blank.
Submit ==
    /\ Drained
    /\ reader["submit"].phase = "idle" /\ chosen # Blank
    /\ Get("submit", TRUE, Blank)
    /\ UNCHANGED <<version, hurt, formVars>>

\* onSubmit goes on: the order, which is left out, is placed or refused.
Decide ==
    /\ reader["submit"].phase = "answered"
    /\ Done("submit")
    /\ UNCHANGED <<cacheVars, formVars>>

\* A failed load leaves the select empty, and fails the tool call.
GiveUp(r) ==
    /\ reader[r].phase = "failed"
    /\ Done(r)
    /\ UNCHANGED <<cacheVars, formVars>>

UserChooses(o) ==
    /\ Drained
    /\ o \in shown \cup {Blank}
    /\ chosen' = o
    /\ UNCHANGED <<cacheVars, reader, shown>>

------------------------------------------------------------------------------
Step ==
    \/ \E s \in Slot : \/ \E seen \in Version : LoaderReturns(s, seen)
                       \/ LoadFails(s) \/ LateReturn(s) \/ PassTime(s)
    \/ MarkStale \/ Forget \/ DataChange
    \/ Build \/ Populate \/ Apply \/ Submit \/ Decide
    \/ \E o \in Option : Fill(o) \/ UserChooses(o)
    \/ UserChooses(Blank)
    \/ \E r \in Reader : GiveUp(r)

Next == Step /\ UNCHANGED fresh

\* A load settles, by its result or by flightTimeoutMs, and continuations run.  The
\* fairness is strong because a continuation that is due disables it for a moment.
Fairness ==
    /\ \A s \in Slot : SF_stepVars((\E seen \in Version : LoaderReturns(s, seen)) \/ LoadFails(s))
    /\ WF_stepVars(Populate \/ Apply \/ Decide \/ \E r \in Reader : GiveUp(r))

Spec == Init /\ [][Next]_vars /\ Fairness

------------------------------------------------------------------------------
(* Properties.                                                             *)

\* A slot never goes back to older data: loads of one slot never overlap, and a
\* loader that comes back after its timeout is not heard.
NeverGoesBack ==
    [][\A s \in Slot : slot'[s].value = 0 \/ slot'[s].value >= slot[s].value]_vars

\* What the user or the agent chose is not cleared by the options arriving late:
\* the select only goes blank when one of them, or a fill that is refused by
\* the element, makes it so.
OptionsKeepTheChoice ==
    [][chosen # Blank /\ chosen' = Blank => reader'["populate"] = reader["populate"] /\ shown' = shown]_vars

\* Every read of the cache is answered or refused: a loader that hangs, a slot
\* that is forgotten or marked in between leaves no tool call waiting.
EveryReadSettles ==
    \A r \in Reader : reader[r].phase = "waiting" ~> reader[r].phase \in {"idle", "done"}

==============================================================================
