--------------------------- MODULE PlatformModel ---------------------------
(***************************************************************************)
(* The components of the platform model, as the parser builds them          *)
(* (src/src/parser/platform/component.cpp and                               *)
(* src/src/model/platform/component.cpp): states, clocks and transitions    *)
(* are added to a component while its sections are parsed, in any order,    *)
(* and every name is looked up among what is there by then.                 *)
(*                                                                         *)
(* A component has one map from names to identifiers, states and clocks     *)
(* alike.  An identifier that is replaced in it lives on in what refers to  *)
(* it.                                                                     *)
(***************************************************************************)
EXTENDS Integers, Sequences, FiniteSets, SequencesExt

CONSTANTS
    ComponentNames,     \* names of components
    StateLists,         \* what can be written as states: sequences of [name, formula]
    ClockLists,         \* as clocks: sequences of names
    TransitionLists     \* as transitions: sequences of [from, to, exog, formula, resets]

VARIABLES
    components,     \* the components that are registered, by name
    open,           \* the component that is parsed, or none: {}
    written,        \* its sections so far
    built         \* "parsing", "rejected" or "parsed"
platformVars == <<components, open, written, built>>

-----------------------------------------------------------------------------
(* Identifiers, and clock formulas as the sets of the clocks in them.       *)
Clock(name) == [kind |-> "clock", name |-> name]
State(name, formula) == [kind |-> "state", name |-> name, formula |-> formula]
Transition(from, to, formula, resets) ==
    [x |-> "transition", from |-> from, to |-> to, formula |-> formula, resets |-> resets]
ExogTransition(from, to, formula, resets) ==
    [Transition(from, to, formula, resets) EXCEPT !.x = "exog_transition"]

error_state == State("error", {})

Stored(map, key, value) ==
    [k \in DOMAIN map \cup {key} |-> IF k = key THEN value ELSE map[k]]

Component ==
    [identifiers |-> Stored(<<>>, "error", error_state), transitions |-> <<>>,
     current_state |-> error_state, expected_state |-> error_state, fails |-> FALSE]

states(c) == {i \in Range(c.identifiers) : i.kind = "state"}
clocks(c) == {i \in Range(c.identifiers) : i.kind = "clock"}

(* lookup_identifier: nothing if the name is that of another kind.          *)
lookup(c, kind, name) ==
    {i \in {c.identifiers[n] : n \in DOMAIN c.identifiers \cap {name}} : i.kind = kind}

Failed(c) == [c EXCEPT !.fails = TRUE]

(* Only an identifier of the same kind is in the way of a new one.          *)
register_identifier(c, i) ==
    IF lookup(c, i.kind, i.name) # {} THEN Failed(c)
    ELSE [c EXCEPT !.identifiers = Stored(c.identifiers, i.name, i)]

(* All clocks of a formula are declared before it.                         *)
Resolves(c, names) == \A n \in names : lookup(c, "clock", n) # {}

set_current_state(c, s) == [c EXCEPT !.current_state = s, !.expected_state = s]

(* Mutant of the next: the last state that is written is the current one.   *)
add_state_Last(c, s) ==
    LET added == register_identifier(c, s)
    IN  IF ~Resolves(c, s.formula) THEN Failed(c) ELSE set_current_state(added, s)

(* The second of the states, the first that is written, is the current one. *)
add_state(c, s) ==
    LET added == register_identifier(c, s)
    IN  IF ~Resolves(c, s.formula) THEN Failed(c)
        ELSE IF Cardinality(states(added)) = 2 /\ ~added.fails THEN set_current_state(added, s)
        ELSE added

add_clock(c, name) == register_identifier(c, Clock(name))

add_transition(c, t) ==
    LET Built(from, to) ==
            IF t.exog THEN ExogTransition(from, to, t.formula, t.resets)
            ELSE Transition(from, to, t.formula, t.resets)
        ends == {<<f, g>> : f \in lookup(c, "state", t.from), g \in lookup(c, "state", t.to)}
    IN  IF ends = {} \/ ~Resolves(c, t.formula \cup t.resets) THEN Failed(c)
        ELSE LET e == CHOOSE e \in ends : TRUE
             IN  [c EXCEPT !.transitions = Append(@, Built(e[1], e[2]))]

(* What the rule for an entry of a section calls.                           *)
add(section, c, entry) ==
    CASE section = "states" -> add_state(c, State(entry.name, entry.formula))
      [] section = "clocks" -> add_clock(c, entry)
      [] section = "transitions" -> add_transition(c, entry)

(* A section: one entry after the other, up to the first that fails.        *)
AddAll(section, c, list) ==
    FoldLeft(LAMBDA acc, entry : IF acc.fails THEN acc ELSE add(section, acc, entry), c, list)

Lists == [states |-> StateLists, clocks |-> ClockLists, transitions |-> TransitionLists]

-----------------------------------------------------------------------------
PlatformInit ==
    /\ components = <<>>
    /\ open = {}
    /\ written = <<>>
    /\ built = "parsing"

OpenComponent ==
    /\ built = "parsing" /\ open = {}
    /\ open' = {Component}
    /\ written' = <<>>
    /\ UNCHANGED <<components, built>>

(* A section, each at most once.                                           *)
Parse(name) ==
    \E c \in open, list \in Lists[name] :
        LET parsed == AddAll(name, c, list)
        IN  /\ built = "parsing"
            /\ name \notin DOMAIN written
            /\ written' = Stored(written, name, list)
            /\ open' = {parsed}
            /\ built' = IF parsed.fails THEN "rejected" ELSE built
            /\ UNCHANGED components

StatesSection == Parse("states")
ClocksSection == Parse("clocks")
TransitionsSection == Parse("transitions")

(* The component is registered at its end: its name must not be taken.      *)
CloseComponent ==
    \E name \in ComponentNames : \E c \in open :
        /\ built = "parsing" /\ written # <<>>
        /\ IF name \in DOMAIN components THEN built' = "rejected" /\ UNCHANGED <<components, open>>
           ELSE /\ components' = Stored(components, name, [component |-> c, written |-> written])
                /\ open' = {}
                /\ UNCHANGED built
        /\ UNCHANGED written

Finish ==
    /\ built = "parsing" /\ open = {} /\ components # <<>>
    /\ built' = "parsed"
    /\ UNCHANGED <<components, open, written>>

PlatformNext ==
    \/ OpenComponent \/ StatesSection \/ ClocksSection \/ TransitionsSection
    \/ CloseComponent \/ Finish
PlatformSpec == PlatformInit /\ [][PlatformNext]_platformVars

-----------------------------------------------------------------------------
(* Properties.                                                             *)
Entries(w, section) == IF section \in DOMAIN w THEN w[section] ELSE <<>>
StateNames(w) == {s.name : s \in Range(Entries(w, "states"))}

(* A clock that has the name of a state takes its place, or the other way   *)
(* round.                                                                  *)
Shadows(w) == Range(Entries(w, "clocks")) \cap (StateNames(w) \cup {"error"}) # {}

(* A component starts in the first state that is written, or in the error   *)
(* state if none is; exactly one of its states is the current one, and all  *)
(* of its transitions are between its states and are the platform's own     *)
(* exactly if they were written with that arrow.  Unless a clock has the    *)
(* name of a state: then an automaton may have no initial state, and a      *)
(* transition may lead out of it.                                          *)
ComponentsAsWritten ==
    \A name \in DOMAIN components :
        LET c == components[name].component
            w == components[name].written
            list == Entries(w, "states")
            ts == Entries(w, "transitions")
        IN  ~Shadows(w) =>
            /\ c.current_state.name = IF list = <<>> THEN "error" ELSE list[1].name
            /\ c.current_state \in states(c)
            /\ {s.name : s \in states(c)} = StateNames(w) \cup {"error"}
            /\ Len(c.transitions) = Len(ts)
            /\ \A i \in DOMAIN ts :
                    /\ {c.transitions[i].from, c.transitions[i].to} \subseteq states(c)
                    /\ \A k \in c.transitions[i].resets : Clock(k) \in clocks(c)
                    /\ c.transitions[i].x = "exog_transition" <=> ts[i].exog
=============================================================================
