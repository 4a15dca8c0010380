--------------------------- MODULE Transformation ---------------------------
(***************************************************************************)
(* The taptenc plan transformation                                          *)
(* (src/src/semantics/platform/taptenc/transformation.cpp, component.cpp    *)
(* and clock_formula.cpp): the components that constraints refer to become  *)
(* timed automata, the transitions of a plan become taptenc's actions, and  *)
(* the trace that taptenc makes of both becomes a plan again.               *)
(*                                                                         *)
(* taptenc is a submodule whose sources are not here: transform_plan is any *)
(* trace of the plan's actions, in their order and within their bounds,     *)
(* with transitions of the automata between them.  Time is counted in       *)
(* grains, the origin is the time of a transformation.                      *)
(***************************************************************************)
EXTENDS Integers, Sequences, FiniteSets, SequencesExt, FiniteSetsExt

CONSTANTS
    Components,     \* their definitions, by name
    Formulas,       \* their clock formulas, and the parts of those
    Lowercase,      \* the names that are lower case
    Models,         \* the components that are declared, and those that constraints refer to
    Plans,          \* the plans that the interpreter makes
    Second,         \* the number of grains in a second
    Delays,         \* what an action may be late by, within its bounds
    MaxSwitches,    \* bound on the switches of a trace
    MaxTransforms   \* bound on the number of transformations

VARIABLES
    declared,       \* the components of the program
    platform_model, \* those that constraints refer to
    current,        \* the state of each component
    arg_to_sym,     \* the symbol of an argument
    sym_to_arg,     \* the argument of a symbol
    given,          \* the plan that was transformed last
    plan,           \* the plan that was made of it
    transformed,    \* "started", "returned", "Unsupported" or "Bug"
    transforms      \* the number of transformations so far
transformationVars ==
    <<declared, platform_model, current, arg_to_sym, sym_to_arg, given, plan, transformed, transforms>>

-----------------------------------------------------------------------------
(* Model: elements of plans, with their time windows.                       *)
TimedTransition(hook, action, args, window) ==
    [x |-> "transition", hook |-> hook, action |-> action, args |-> args,
     early |-> window.early, late |-> window.late]
TimedSwitch(component, from, to, window) ==
    [x |-> "switch", component |-> component, from |-> from, to |-> to,
     early |-> window.early, late |-> window.late]

IsTransition(e) == e.x = "transition"
IsSwitch(e) == e.x = "switch"

(* No window is empty.                                                     *)
IsPlan(p) ==
    /\ p \in Seq(Range(p))
    /\ \A i \in DOMAIN p :
            /\ p[i].early \in Int /\ p[i].late \in Int /\ p[i].early <= p[i].late
            /\ IsTransition(p[i]) => p[i].args \in Seq(Range(p[i].args))

(* Constraints refer to components of the program; switches are put into    *)
(* plans by the transformation alone.                                      *)
ASSUME TransformationAssumption ==
    /\ \A c \in DOMAIN Components : DOMAIN Components[c].states # {}
    /\ \A m \in Models : m[1] \subseteq DOMAIN Components /\ m[2] \subseteq m[1]
    /\ \A p \in Plans : IsPlan(p) /\ \A i \in DOMAIN p : ~IsSwitch(p[i])
    /\ Second \in Nat \ {0}
    /\ Delays \subseteq Nat
    /\ MaxSwitches \in Nat

-----------------------------------------------------------------------------
(* Names and clocks are qualified with the component.  The clock formulas   *)
(* that taptenc has: conjunctions of bounds, as sets.                       *)
qualified_name(component, name) == <<component, name>>
ComparisonOp == [ge |-> "GTE", le |-> "LTE"]

SupportedFormula[f \in Formulas] ==
    CASE f.x = "and" -> \A i \in DOMAIN f.parts : SupportedFormula[f.parts[i]]
      [] f.x \in {"or", "not"} -> FALSE
      [] OTHER -> TRUE

ClockConstraint[c \in DOMAIN Components, f \in Formulas] ==
    CASE f.x = "none" -> {}
      [] f.x = "and" -> UNION {ClockConstraint[c, f.parts[i]] : i \in DOMAIN f.parts}
      [] OTHER -> {<<qualified_name(c, f.clock), ComparisonOp[f.x], f.bound>>}

StateName(c, s) == qualified_name(c, s)
CompiledState(c, s) ==
    [name |-> StateName(c, s), invariant |-> ClockConstraint[c, Components[c].states[s]],
     initial |-> current[c] = s]

CompiledTransition(c, t) ==
    [source |-> qualified_name(c, t.from), dest |-> qualified_name(c, t.to),
     action |-> IF t.exog THEN <<"no_op">> ELSE <<c, t.from, t.to>>,
     guard |-> ClockConstraint[c, t.formula],
     update |-> {qualified_name(c, k) : k \in t.resets}]

FormulasOf(c) ==
    {Components[c].states[s] : s \in DOMAIN Components[c].states}
        \cup {t.formula : t \in Components[c].transitions}

CompiledStates(c) == {CompiledState(c, s) : s \in DOMAIN Components[c].states}

Automaton(c) ==
    [states |-> CompiledStates(c),
     transitions |-> {CompiledTransition(c, t) : t \in Components[c].transitions},
     clocks |-> {<<"glob">>} \cup {qualified_name(c, k) : k \in Components[c].clocks}]

tt_automata == {Automaton(c) : c \in platform_model}

NamesOf(c) == {c} \cup DOMAIN Components[c].states \cup Components[c].clocks

-----------------------------------------------------------------------------
(* Arguments: insert leaves a key that is there as it is.                   *)
Inserted(map, key, value) ==
    [k \in DOMAIN map \cup {key} |-> IF k \in DOMAIN map THEN map[k] ELSE value]

store_arg(maps, v) ==
    LET symbol == Cardinality(DOMAIN maps.symbols)
    IN  IF v \in DOMAIN maps.symbols THEN maps
        ELSE [symbols |-> Inserted(maps.symbols, v, symbol),
              args |-> Inserted(maps.args, symbol, v)]

(* Mutant: the arguments of the transformation before are kept.             *)
Cleared_SymbolsOnly == [symbols |-> <<>>, args |-> sym_to_arg]

Cleared == [symbols |-> <<>>, args |-> <<>>]

(* The positions in order: the k-th is the one up to which there are k.     *)
Upto(at, i) == Cardinality({j \in at : j <= i})
Nth(at, k) == CHOOSE i \in at : Upto(at, i) = k
Subsequence(p, at) == [k \in 1..Cardinality(at) |-> p[Nth(at, k)]]

transitions(p) == Subsequence(p, {i \in DOMAIN p : IsTransition(p[i])})

StoredArgs(p) ==
    FoldLeft(LAMBDA maps, e : FoldLeft(store_arg, maps, e.args), Cleared, transitions(p))

(* A window as whole seconds since the plan began.                          *)
Shifted(p, t) == Max({0, t - Head(p).early}) \div Second

(* plan_gpp_to_taptenc: of a plan's elements just the transitions.          *)
plan_gpp_to_taptenc(p, symbols) ==
    LET ts == transitions(p)
        PlanAction(e) ==
            [name |-> [hook |-> e.hook, action |-> e.action,
                       args |-> [i \in DOMAIN e.args |-> symbols[e.args[i]]]],
             earliest |-> Shifted(p, e.early), latest |-> Shifted(p, e.late)]
    IN  [i \in DOMAIN ts |-> PlanAction(ts[i])]

-----------------------------------------------------------------------------
(* taptenc.  A run has transitions of automata between the actions of a     *)
(* plan: at some positions of the trace.                                   *)
Switches == UNION {a.transitions : a \in tt_automata}

At(c, run, i) ==
    LET before == {j \in DOMAIN run : j < i /\ run[j].source[1] = c}
    IN  IF before = {} THEN (CHOOSE s \in CompiledStates(c) : s.initial).name
        ELSE run[Max(before)].dest

IsRun(run) == \A i \in DOMAIN run : run[i].source = At(run[i].source[1], run, i)

Runs(actions) ==
    LET switches == Switches
        Positions(n) == {at \in SUBSET (1..actions + n) : Cardinality(at) = n}
    IN  {run \in UNION {UNION {[at -> switches] : at \in Positions(n)} : n \in 0..MaxSwitches} : IsRun(run)}

TimedAt(earliest, delay, action) == [earliest_start |-> earliest, max_delay |-> delay, action |-> action]

(* The trace of a run: a switch can be made as soon as the action before it  *)
(* begins, and action k begins late[k] late, within its bounds.             *)
transform_plan(tt_plan, run, late, slack) ==
    LET Number(i) == i - Upto(DOMAIN run, i)
        Start(k) == IF k = 0 THEN 0 ELSE Min({tt_plan[k].earliest + late[k], tt_plan[k].latest})
        Delay(k) == Min({slack[k], tt_plan[k].latest - Start(k)})
    IN  [i \in 1..Len(tt_plan) + Cardinality(DOMAIN run) |->
            IF i \in DOMAIN run THEN TimedAt(Start(Number(i)), 0, run[i])
            ELSE TimedAt(Start(Number(i)), Delay(Number(i)), tt_plan[Number(i)].name)]

-----------------------------------------------------------------------------
(* The window that comes back: at least a second wide.                      *)
Window(e) ==
    LET early == Second * e.earliest_start
    IN  [early |-> early, late |-> early + Second * Max({1, e.max_delay})]

parse_domain_action(e, args) ==
    TimedTransition(e.action.hook, e.action.action,
                    [i \in DOMAIN e.action.args |-> args[e.action.args[i]]], Window(e))

parse_platform_action(e) ==
    TimedSwitch(e.action.source[1], e.action.source[2], e.action.dest[2], Window(e))

(* plan_taptenc_to_gpp: what goes from a state to a state is a switch.       *)
plan_taptenc_to_gpp(ttt, args) ==
    [i \in DOMAIN ttt |->
        IF "dest" \in DOMAIN ttt[i].action THEN parse_platform_action(ttt[i])
        ELSE parse_domain_action(ttt[i], args)]

-----------------------------------------------------------------------------
(* init, once the semantics of all components are attached.                 *)
TransformationInit ==
    /\ \E m \in Models : declared = m[1] /\ platform_model = m[2]
    /\ current = [c \in declared |-> CHOOSE s \in DOMAIN Components[c].states : TRUE]
    /\ arg_to_sym = <<>>
    /\ sym_to_arg = <<>>
    /\ given = <<>>
    /\ plan = <<>>
    /\ transformed = IF \A c \in declared : NamesOf(c) \subseteq Lowercase THEN "started" ELSE "Unsupported"
    /\ transforms = 0

Running == transformed \in {"started", "returned"}

(* The backend of a component reports another state. *)
StateChange ==
    /\ Running
    /\ transforms < MaxTransforms
    /\ \E c \in declared : \E s \in DOMAIN Components[c].states :
            current' = [current EXCEPT ![c] = s]
    /\ UNCHANGED <<declared, platform_model, arg_to_sym, sym_to_arg, given, plan, transformed, transforms>>

Begin(p) ==
    /\ Running
    /\ transforms < MaxTransforms
    /\ transforms' = transforms + 1
    /\ given' = p
    /\ UNCHANGED <<declared, platform_model, current>>

(* Nothing to do for an empty plan, and without constraints. *)
TransformUnchanged(p) ==
    /\ Begin(p)
    /\ plan' = p
    /\ transformed' = "returned"
    /\ IF p = <<>> THEN UNCHANGED <<arg_to_sym, sym_to_arg>>
       ELSE /\ platform_model = {}
            /\ arg_to_sym' = Cleared.symbols
            /\ sym_to_arg' = Cleared.args

TransformUnsupported(p) ==
    /\ Begin(p)
    /\ p # <<>>
    /\ \E c \in platform_model : \E f \in FormulasOf(c) : ~SupportedFormula[f]
    /\ arg_to_sym' = Cleared.symbols
    /\ sym_to_arg' = Cleared.args
    /\ transformed' = "Unsupported"
    /\ UNCHANGED plan

Transform(p) ==
    /\ Begin(p)
    /\ p # <<>>
    /\ platform_model # {}
    /\ \A c \in platform_model : \A f \in FormulasOf(c) : SupportedFormula[f]
    /\ arg_to_sym' = StoredArgs(p).symbols
    /\ sym_to_arg' = StoredArgs(p).args
    /\ \E tt_plan \in {plan_gpp_to_taptenc(p, arg_to_sym')} :
        \E run \in Runs(Len(tt_plan)), late, slack \in [DOMAIN tt_plan -> Delays] :
            LET ttt == transform_plan(tt_plan, run, late, slack)
            IN  IF ttt = <<>> THEN transformed' = "Bug" /\ UNCHANGED plan
                ELSE /\ plan' = plan_taptenc_to_gpp(ttt, sym_to_arg')
                     /\ transformed' = "returned"

(* A new plan, or the rest of the last one once more. *)
TransformationNext ==
    \/ StateChange
    \/ \E p \in Plans \cup {plan} \cup {SubSeq(plan, 2, Len(plan))} :
          TransformUnchanged(p) \/ TransformUnsupported(p) \/ Transform(p)
TransformationSpec == TransformationInit /\ [][TransformationNext]_transformationVars

-----------------------------------------------------------------------------
(* Properties: of one transformation, from `given' to `plan'.               *)
Instructions(p) ==
    LET ts == transitions(p) IN [i \in DOMAIN ts |-> <<ts[i].hook, ts[i].action, ts[i].args>>]

(* A transition may come back up to a second early, but not late. *)
InWindow(old, new, begin) ==
    /\ new.early > Max({0, old.early - begin}) - Second
    /\ new.early <= Max({0, old.late - begin})
    /\ new.early < new.late

(* The switches of each component are a run of it from the state it is in.  *)
Connected(p, states) ==
    \A c \in declared :
        LET mine == {i \in DOMAIN p : IsSwitch(p[i]) /\ p[i].component = c}
        IN  \A i \in mine :
                LET before == {j \in mine : j < i}
                IN  /\ p[i].from = IF before = {} THEN states[c] ELSE p[Max(before)].to
                    /\ \E t \in Components[c].transitions : t.from = p[i].from /\ t.to = p[i].to

(* Every transition of a plan comes back once, in order, with its hook, its *)
(* arguments and its window, between switches that the components can make; *)
(* a plan without transitions may be refused.                               *)
TransformFaithful ==
    transforms' # transforms =>
        /\ transformed' = "Bug" => Instructions(given') = <<>>
        /\ transformed' = "returned" =>
            /\ Instructions(plan') = Instructions(given')
            /\ Connected(plan', current)
            /\ platform_model # {} =>
                LET old == transitions(given')
                    new == transitions(plan')
                IN  \A i \in DOMAIN old : InWindow(old[i], new[i], Head(given').early)
TransformsFaithfully == [][TransformFaithful]_transformationVars
=============================================================================
