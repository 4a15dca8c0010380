----------------------------- MODULE Constraints -----------------------------
(***************************************************************************)
(* Platform constraints: what the parser makes of them                      *)
(* (src/src/parser/platform/constraint.cpp), to which component they        *)
(* belong, and what the taptenc semantics compile them to                   *)
(* (src/src/semantics/platform/taptenc/constraint.cpp).  A state is a       *)
(* constraint that the rules of the grammar have put together so far.       *)
(*                                                                         *)
(* taptenc is a submodule whose sources are not here: SatisfiedAt says what *)
(* the types of its constraints are named for.  Unsupported is {}.          *)
(***************************************************************************)
EXTENDS Integers, Sequences

CONSTANTS
    ComponentRefs,      \* the components of the platform
    AutomatonStates,    \* the states of their automata
    PlatformActions,    \* what constraints are about
    BoundPairs,         \* the bounds that are written: pairs of numbers of seconds
    MaxRules,           \* bound on the operators of a constraint
    Horizon             \* bound on the length of traces

ASSUME ConstraintAssumption ==
    /\ BoundPairs \subseteq Int \X Int
    /\ MaxRules \in Nat
    /\ Horizon \in Nat

VARIABLES
    action_spec,    \* the left hand side
    state_spec,     \* the right hand side
    applied         \* the number of operators applied
constraintVars == <<action_spec, state_spec, applied>>

-----------------------------------------------------------------------------
(* Model.  No bounds are the least and the greatest duration.               *)
Unbounded == <<-Horizon, Horizon>>
Bounds == BoundPairs \cup {Unbounded}

ActionHook(hook, a, args) == [x |-> "hook", hook |-> hook, action |-> a, args |-> args]
During(a, args) == [x |-> "during", action |-> a, args |-> args]
StateAssertion(component, state) == [x |-> "state", component |-> component, state |-> state]
BooleanOperation(op, lhs, rhs) == [x |-> op, parts |-> <<lhs, rhs>>]
TemporalUnaryOperation(op, bounds, subject) == [x |-> op, bounds |-> bounds, parts |-> <<subject>>]
TemporalBinaryOperation(op, bounds, lhs, rhs) == [x |-> op, bounds |-> bounds, parts |-> <<lhs, rhs>>]

-----------------------------------------------------------------------------
(* The grammar: +(unary_expr >> binary_op) >> unary_expr, here one operator *)
(* after the other, applied to the members of a set.                        *)
Assertions == {StateAssertion(c, s) : c \in ComponentRefs, s \in AutomatonStates}
Arguments == {"wildcards", "values"}
ActionHooks ==
    {ActionHook(h, a, args) : h \in {"start", "end"}, a \in PlatformActions, args \in Arguments}
Durations == {During(a, args) : a \in PlatformActions, args \in Arguments}
ActionUnary == ActionHooks \cup Durations

Booleans(S, operands) ==
    {BooleanOperation(op, lhs, rhs) : op \in {"or", "and"}, lhs \in S, rhs \in operands}

TemporalUnaries(S) ==
    {TemporalUnaryOperation(op, b, subject) :
        op \in {"next", "previous", "future", "past"}, b \in Bounds, subject \in S}

TemporalBinaries(S) ==
    {TemporalBinaryOperation(op, b, lhs, rhs) :
        op \in {"until", "since"}, b \in Bounds, lhs \in S, rhs \in Assertions}

(* A disjunction of temporal operations of the same kind.                   *)
Disjunctions(S) ==
    {d \in {BooleanOperation("or", lhs, rhs) :
                lhs \in S, rhs \in TemporalUnaries(Assertions) \cup TemporalBinaries(Assertions)} :
        d.parts[1].x = d.parts[2].x}

(* The specs with up to n operators, and those of all constraints.          *)
StateSpecsOf[n \in 0..MaxRules] ==
    IF n = 0 THEN Assertions
    ELSE LET S == StateSpecsOf[n - 1]
         IN  S \cup Booleans(S, Assertions) \cup TemporalUnaries(S) \cup TemporalBinaries(S) \cup Disjunctions(S)

ActionSpecsOf[n \in 0..MaxRules] ==
    IF n = 0 THEN ActionUnary
    ELSE LET S == ActionSpecsOf[n - 1] IN S \cup Booleans(S, ActionUnary)

StateSpecs == StateSpecsOf[MaxRules]
ActionSpecs == ActionSpecsOf[MaxRules]

(* find_component_ref: the one component that a state spec refers to.      *)
find_component_ref[spec \in StateSpecs] ==
    IF spec.x = "state" THEN {spec.component}
    ELSE {c \in find_component_ref[spec.parts[1]] :
            \A i \in DOMAIN spec.parts : find_component_ref[spec.parts[i]] = {c}}

-----------------------------------------------------------------------------
(* taptenc's UnaryInfo, BinaryInfo and ChainInfo; only BinaryInfo has       *)
(* pre_targets.                                                            *)
Info(type, bounds, targets, pre_targets) ==
    [type |-> type, bounds |-> bounds, targets |-> targets, pre_targets |-> pre_targets]

UnaryTypes == [future |-> "Future", past |-> "Past"]
BinaryTypes == [until |-> "Until", since |-> "Since"]

(* Two operations of one type and with the same bounds become one operation *)
(* on the states of both.                                                   *)
Mergeable_AnyBounds(lhs, rhs) == lhs.type = rhs.type  \* mutant: the bounds are not compared

Mergeable(lhs, rhs) == lhs.type = rhs.type /\ lhs.bounds = rhs.bounds

Merged(lhs, rhs) ==
    Info(lhs.type, lhs.bounds, lhs.targets \cup rhs.targets, lhs.pre_targets \cup rhs.pre_targets)

(* compile of a TemporalBinaryOperation: what must hold first are the       *)
(* pre_targets.                                                            *)
BinaryInfo_Swapped(op, lhs, rhs) ==  \* mutant: the left hand side is the target
    Info(BinaryTypes[op], lhs.bounds, lhs.targets, rhs.targets)

BinaryInfo(op, lhs, rhs) == Info(BinaryTypes[op], rhs.bounds, rhs.targets, lhs.targets)

(* The compile methods, on what the parts are compiled to.                  *)
NoOps(infos) == {i \in infos : i.type = "NoOp"}

compile_or(lhs, rhs) == {Merged(p[1], p[2]) : p \in {p \in lhs \X rhs : Mergeable(p[1], p[2])}}

compile_unary(op, bounds, infos) ==
    {Info(UnaryTypes[op], bounds, subject.targets, {}) : subject \in NoOps(infos)}

compile_binary(op, lhs, rhs) == {BinaryInfo(op, p[1], p[2]) : p \in NoOps(lhs) \X NoOps(rhs)}

compile[spec \in StateSpecs] ==
    CASE spec.x = "or" -> compile_or(compile[spec.parts[1]], compile[spec.parts[2]])
      [] spec.x = "state" -> {Info("NoOp", Unbounded, {spec.state}, {})}
      [] spec.x \in DOMAIN UnaryTypes -> compile_unary(spec.x, spec.bounds, compile[spec.parts[1]])
      [] spec.x \in DOMAIN BinaryTypes ->
            compile_binary(spec.x, compile[spec.parts[1]], compile[spec.parts[2]])
      [] OTHER -> {}

(* compile_chain: an assertion, or a disjunction of what compiles to NoOps. *)
compile_chain(spec) ==
    IF spec.x \in {"state", "or"}
    THEN {Info("UntilChain", Unbounded, i.targets, {}) :
            i \in NoOps(compile[spec])}
    ELSE {}

(* Only about actions whatever their arguments.                             *)
OnlyWildcards(spec) == spec.args = "wildcards"

is_chain[spec \in ActionSpecs] ==
    spec.x = "during" \/ (spec.x = "or" /\ \A i \in DOMAIN spec.parts : is_chain[spec.parts[i]])

(* compile and compile_chain of an action spec: the actions that activate    *)
(* the constraint.                                                         *)
either(lhs, rhs) == {p[1] \cup p[2] : p \in lhs \X rhs}

activations[spec \in ActionSpecs] ==
    CASE spec.x = "or" -> either(activations[spec.parts[1]], activations[spec.parts[2]])
      [] spec.x = "hook" /\ OnlyWildcards(spec) -> {{<<spec.hook, spec.action>>}}
      [] OTHER -> {}

chain_actions[spec \in ActionSpecs] ==
    CASE spec.x = "or" -> either(chain_actions[spec.parts[1]], chain_actions[spec.parts[2]])
      [] spec.x = "during" /\ OnlyWildcards(spec) -> {{spec.action}}
      [] OTHER -> {}

(* Semantics<Constraint>::compile: activated by actions, or from the start  *)
(* of an action to its end.                                                *)
Compiled(lhs, spec) ==
    IF is_chain[lhs]
    THEN {[during |-> during, at |-> {}, info |-> info] :
            during \in chain_actions[lhs], info \in compile_chain(spec)}
    ELSE {[during |-> {}, at |-> at, info |-> info] : at \in activations[lhs], info \in compile[spec]}

-----------------------------------------------------------------------------
ConstraintInit ==
    /\ action_spec \in ActionUnary
    /\ state_spec \in Assertions
    /\ applied = 0

Apply(action_specs, state_specs) ==
    /\ applied < MaxRules
    /\ applied' = applied + 1
    /\ action_spec' \in action_specs
    /\ state_spec' \in state_specs

ParseActionSpec == Apply(Booleans({action_spec}, ActionUnary), {state_spec})
ParseBoolean == Apply({action_spec}, Booleans({state_spec}, Assertions))
ParseTemporalUnary == Apply({action_spec}, TemporalUnaries({state_spec}))
ParseTemporalBinary == Apply({action_spec}, TemporalBinaries({state_spec}))
ParseDisjunction == Apply({action_spec}, Disjunctions({state_spec}))

ConstraintNext ==
    ParseActionSpec \/ ParseBoolean \/ ParseTemporalUnary \/ ParseTemporalBinary \/ ParseDisjunction
ConstraintSpec == ConstraintInit /\ [][ConstraintNext]_constraintVars

-----------------------------------------------------------------------------
(* Traces.  At a time of a trace the component is in a state; what is       *)
(* asserted at a time is about the times that are at a distance within the  *)
(* bounds from it, and for until and since about all those between.  P and  *)
(* Q are the times at which something holds.                                *)
Times == 1..Horizon
Traces == [Times -> AutomatonStates]
Within(distance, bounds) == bounds[1] <= distance /\ distance <= bounds[2]

HoldsUntil(bounds, Q, P) ==
    {t \in Times : \E u \in P : t <= u /\ Within(u - t, bounds) /\ t..u - 1 \subseteq Q}
HoldsSince(bounds, Q, P) ==
    {t \in Times : \E u \in P : u <= t /\ Within(t - u, bounds) /\ u + 1..t \subseteq Q}
Eventually(bounds, P) == HoldsUntil(bounds, Times, P)
Once(bounds, P) == HoldsSince(bounds, Times, P)

SatisfiedAt(info, trace) ==
    LET Target == {t \in Times : trace[t] \in info.targets}
        PreTarget == {t \in Times : trace[t] \in info.pre_targets}
    IN  CASE info.type \in {"NoOp", "UntilChain"} -> Target
          [] info.type = "Future" -> Eventually(info.bounds, Target)
          [] info.type = "Past" -> Once(info.bounds, Target)
          [] info.type = "Until" -> HoldsUntil(info.bounds, PreTarget, Target)
          [] info.type = "Since" -> HoldsSince(info.bounds, PreTarget, Target)

(* A compiled constraint on a trace in which an action starts and ends.     *)
Allows(c, trace, a, starts, ends) ==
    LET satisfied == SatisfiedAt(c.info, trace)
    IN  /\ <<"start", a>> \in c.at => starts \in satisfied
        /\ <<"end", a>> \in c.at => ends \in satisfied
        /\ a \in c.during => starts..ends \subseteq satisfied

-----------------------------------------------------------------------------
(* Properties: what a constraint means.  The times at which a state spec    *)
(* holds in a trace.                                                       *)
OperationHolds(spec, First, Last) ==
    CASE spec.x = "or" -> First \cup Last
      [] spec.x = "and" -> First \cap Last
      [] spec.x = "next" -> {t \in Times : t + 1 \in First /\ Within(1, spec.bounds)}
      [] spec.x = "previous" -> {t \in Times : t - 1 \in First /\ Within(1, spec.bounds)}
      [] spec.x = "future" -> Eventually(spec.bounds, First)
      [] spec.x = "past" -> Once(spec.bounds, First)
      [] spec.x = "until" -> HoldsUntil(spec.bounds, First, Last)
      [] spec.x = "since" -> HoldsSince(spec.bounds, First, Last)

Means[spec \in StateSpecs] ==
    [trace \in Traces |->
        IF spec.x = "state" THEN {t \in Times : trace[t] = spec.state}
        ELSE OperationHolds(spec, Means[spec.parts[1]][trace], Means[spec.parts[2]][trace])]

(* The hooks and actions any of which an action spec is about.              *)
Mentioned[spec \in ActionSpecs] ==
    IF spec.x = "or" THEN Mentioned[spec.parts[1]] \cup Mentioned[spec.parts[2]] ELSE {spec} \cap ActionUnary

Demands(lhs, spec, trace, a, starts, ends) ==
    LET meant == Means[spec][trace]
    IN  /\ ActionHook("start", a, "wildcards") \in Mentioned[lhs] => starts \in meant
        /\ ActionHook("end", a, "wildcards") \in Mentioned[lhs] => ends \in meant
        /\ During(a, "wildcards") \in Mentioned[lhs] => starts..ends \subseteq meant

(* The constraint as the transformation has it: about one component, and    *)
(* supported.                                                              *)
accepted ==
    {c \in Compiled(action_spec, state_spec) : find_component_ref[state_spec] # {}}

(* What a constraint is compiled to is never more than what is written: a    *)
(* trace that meets the constraint is not ruled out.                        *)
CompiledIsNecessary ==
    \A c \in accepted, trace \in Traces, a \in PlatformActions, starts \in Times :
        \A ends \in starts..Horizon :
            Demands(action_spec, state_spec, trace, a, starts, ends) => Allows(c, trace, a, starts, ends)

Blurred[spec \in StateSpecs] ==
    \/ spec.x \in DOMAIN BinaryTypes /\ spec.bounds # Unbounded
    \/ spec.x = "or" /\ \E i \in DOMAIN spec.parts :
            spec.parts[i].x \in DOMAIN BinaryTypes \/ Blurred[spec.parts[i]]

(* It is not less, either, but for until and since: their bounds are        *)
(* dropped, and a disjunction of two of them becomes one of them, on the    *)
(* disjunctions of what is on either side.                                  *)
CompiledAsWritten ==
    ~Blurred[state_spec] =>
    \A c \in accepted, trace \in Traces, a \in PlatformActions, starts \in Times :
        \A ends \in starts..Horizon :
            Demands(action_spec, state_spec, trace, a, starts, ends) <=> Allows(c, trace, a, starts, ends)
=============================================================================
