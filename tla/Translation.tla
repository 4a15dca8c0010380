----------------------------- MODULE Translation -----------------------------
(***************************************************************************)
(* Statements, formulas, procedures and effects of golog++, the ReadyLog    *)
(* terms that the plterm() of each of them makes (src/src/semantics/        *)
(* readylog), and what these terms do.  A state is a statement that the     *)
(* rules of the grammar have put together (src/src/parser/statements.cpp).  *)
(*                                                                         *)
(* ReadyLog is a submodule whose sources are not here: Eval, Holds, Perform *)
(* and Run say of each functor what the code that writes it relies on.      *)
(* Every fluent, function, procedure and action has one parameter.  No      *)
(* binder binds a name that is bound around it.                            *)
(***************************************************************************)
EXTENDS Statements, Integers, FiniteSets, SequencesExt, TLC

CONSTANTS
    Universe,       \* the numbers that arguments and fluents can have
    Fluents,        \* the names of the fluents
    Functions,      \* by name: the parameter and the body, an expression
    Procedures,     \* by name: the parameter and the body, a statement
    Actions,        \* by name: the parameter and the effects
    SimpleStatements, Conditions,   \* what the grammar puts together
    MaxRules,       \* bound on the compound statements inside each other
    MaxTurns        \* bound on the turns of a loop

VARIABLES
    statement,      \* the statement
    rules,          \* the number of rules applied to it
    clauses         \* what compile() has asserted for the globals
vars == <<statement, rules, clauses>>

-----------------------------------------------------------------------------
(* Terms.  A Golog variable is an atom, a Prolog variable belongs to the    *)
(* global whose parameter it is.                                           *)
T(fn, args) == [fn |-> fn, args |-> args]
Number(n) == [number |-> n]
GologVar(x) == [golog |-> x]
PrologVar(owner, x) == [prolog |-> <<owner, x>>]
List(ts) == T("[]", ts)
IsCompoundTerm(t) == "fn" \in DOMAIN t

(* Name::mangled_name                                                      *)
mangled_name(name) == "gpp~" \o name

(* Semantics<Variable>::plterm: `scope' has the terms of the variables.     *)
GologVarMutator(scope, x) == (x :> GologVar(x)) @@ scope

RECURSIVE ExpressionTerm(_, _)
ExpressionTerm(scope, e) ==
    CASE e.e = "value" -> Number(e.value)
      [] e.e = "name" -> scope[e.name]
      [] e.e = "reference" -> T(mangled_name(e.name), <<ExpressionTerm(scope, e.arg)>>)

reference_term(scope, name, arg) == T(mangled_name(name), <<ExpressionTerm(scope, arg)>>)

num_cmp_functor ==
    [eq |-> "=:=", ge |-> ">=", gt |-> ">", le |-> "=<", lt |-> "<", neq |-> "=\\="]

(* Semantics<Comparison>::plterm                                           *)
ComparisonTerm(scope, c) ==
    LET sides == <<ExpressionTerm(scope, c.lhs), ExpressionTerm(scope, c.rhs)>>
        Compare(order) == T("compare", <<T(order, <<>>)>> \o sides)
        OrEqual(order) == T(";", <<Compare(order), T("=", sides)>>)
    IN  IF c.type = "number" THEN T(num_cmp_functor[c.op], sides)
        ELSE CASE c.op = "eq" -> T("=", sides)
               [] c.op = "neq" -> T("\\=", sides)
               [] c.op = "gt" -> Compare(">")
               [] c.op = "lt" -> Compare("<")
               [] c.op = "ge" -> OrEqual(">")
               [] c.op = "le" -> OrEqual("<")

bool_op_functor == [and |-> "and", or |-> "or", implies |-> "lif"]

RECURSIVE ConditionTerm(_, _)
ConditionTerm(scope, c) ==
    LET Part(i) == ConditionTerm(scope, c.parts[i])
        inner == GologVarMutator(scope, c.var)
        some(t) == T("some", <<inner[c.var], t>>)
    IN  CASE c.c = "true" -> T("true", <<>>)
          [] c.c = "comparison" -> ComparisonTerm(scope, c)
          [] c.c = "not" -> T("neg", <<Part(1)>>)
          [] c.c \in DOMAIN bool_op_functor -> T(bool_op_functor[c.c], <<Part(1), Part(2)>>)
          [] c.c = "exists" -> some(ConditionTerm(inner, c.parts[1]))
          [] c.c = "forall" ->
                T("neg", <<some(T("neg", <<ConditionTerm(inner, c.parts[1])>>))>>)

(* Semantics<During>::plterm                                               *)
DuringTerm_FailBeforeEnd(call, block, on_fail, on_cancel) ==  \* mutant: the state is asked for before the end
    LET IfState(state, t) == T("if", <<T("=", <<T("state", <<call>>), T(state, <<>>)>>), t>>)
    IN  List(<<T("start", <<call>>), block, IfState("failed", on_fail), T("end", <<call>>),
               IfState("cancelled", on_cancel)>>)

DuringTerm(call, block, on_fail, on_cancel) ==
    LET IfState(state, t) == T("if", <<T("=", <<T("state", <<call>>), T(state, <<>>)>>), t>>)
    IN  List(<<T("start", <<call>>), block, T("end", <<call>>),
               IfState("failed", on_fail), IfState("cancelled", on_cancel)>>)

RECURSIVE StatementTerm(_, _)
StatementTerm(scope, s) ==
    LET Parts == [i \in DOMAIN s.parts |-> StatementTerm(scope, s.parts[i])]
        condition == ConditionTerm(scope, s.condition)
        call == reference_term(scope, s.name, s.arg)
        inner == GologVarMutator(scope, s.var)
    IN  CASE s.s = "test" -> T("?", <<condition>>)
          [] s.s = "assign" ->
                T("set", <<reference_term(scope, s.fluent, s.index), ExpressionTerm(scope, s.value)>>)
          [] s.s = "action" -> List(<<T("start", <<call>>), T("end", <<call>>)>>)
          [] s.s = "hook" -> T(s.hook, <<call>>)
          [] s.s = "procedure" -> call
          [] s.s = "block" -> List(Parts)
          [] s.s = "choose" -> T("nondet", <<List(Parts)>>)
          [] s.s = "if" -> T("if", <<condition>> \o Parts)
          [] s.s = "while" -> T("while", <<condition>> \o Parts)
          [] s.s = "star" -> T("star", Parts)
          [] s.s = "pick" ->
                T("pickBest", <<inner[s.var], List([i \in DOMAIN s.among |-> Number(s.among[i])]),
                                StatementTerm(inner, s.parts[1])>>)
          [] s.s = "search" -> T("search", Parts)
          [] s.s = "solve" ->
                T("solve", Parts \o <<ExpressionTerm(scope, s.horizon), ExpressionTerm(scope, s.reward)>>)
          [] s.s = "during" -> DuringTerm(call, Parts[1], Parts[2], Parts[3])

-----------------------------------------------------------------------------
(* Clauses of the globals.                                                 *)
Parameter(owner, x) == x :> PrologVar(owner, x)
ClauseHead(owner, x) == T(mangled_name(owner), <<PrologVar(owner, x)>>)

(* Semantics<Function>::definition; the result is the variable R.          *)
FunctionClause(name) ==
    LET f == Functions[name]
        R == PrologVar(name, "return")
    IN  T("function", <<ClauseHead(name, f.param), R,
                        T("=", <<R, ExpressionTerm(Parameter(name, f.param), f.body)>>)>>)

ProcedureClause(name) ==
    LET p == Procedures[name]
    IN  T("proc", <<ClauseHead(name, p.param), StatementTerm(Parameter(name, p.param), p.body)>>)

(* Semantics<EffectAxiom>::plterm.  An argument of the fluent that is       *)
(* neither a variable nor a value is evaluated in the condition.            *)
args_need_eval(ef) == ef.index.e = "reference"

ConditionOf(ef, binding, condition) ==
    IF args_need_eval(ef) THEN T("and", <<T("and", <<binding>>), condition>>) ELSE condition

EffectClause(action, ef) ==
    LET scope == Parameter(action, Actions[action].param)
        index == ExpressionTerm(scope, ef.index)
        param == PrologVar(ef.fluent, "param")
        free == IF args_need_eval(ef) THEN param ELSE index
    IN  T("durative_causes_val",
          <<ClauseHead(action, Actions[action].param), T(mangled_name(ef.fluent), <<free>>),
            ExpressionTerm(scope, ef.value),
            ConditionOf(ef, T("=", <<param, index>>), ConditionTerm(scope, ef.condition))>>)

(* What the platform's compile() asserts for all globals.                   *)
compile ==
    {FunctionClause(f) : f \in DOMAIN Functions} \cup {ProcedureClause(p) : p \in DOMAIN Procedures}
    \cup UNION {{EffectClause(a, ef) : ef \in Range(Actions[a].effects)} : a \in DOMAIN Actions}

-----------------------------------------------------------------------------
(* ReadyLog.  A situation has the values of the fluents and the states of   *)
(* the action instances; a run has the hooks that were called, the plans    *)
(* that were made and the situation it leads to.                            *)
Run(events, sit) == [events |-> events, sit |-> sit]
Then(runs, Continue(_)) ==
    UNION {{Run(r.events \o q.events, q.sit) : q \in Continue(r.sit)} : r \in runs}
Bracketed(event, runs) == {Run(<<event>> \o r.events \o <<<<"done">>>>, r.sit) : r \in runs}

(* The runs of a loop that makes at most MaxTurns turns.                    *)
Loop(sit, Continues(_), Stops(_), Turn(_)) ==
    LET Check(runs, stopped) == [going |-> runs, stopped |-> stopped \cup {r \in runs : Stops(r.sit)}]
    IN  FoldLeft(LAMBDA acc, i : Check(Then({r \in acc.going : Continues(r.sit)}, Turn), acc.stopped),
                 Check({Run(<<>>, sit)}, {}), [i \in 1..MaxTurns |-> i]).stopped

InSequence(sit, parts, Do(_, _)) ==
    FoldLeft(LAMBDA runs, part : Then(runs, LAMBDA next : Do(next, part)), {Run(<<>>, sit)}, parts)

(* Each fluent gets one of the values that are written to it.               *)
Written(fluents, writes) ==
    LET Options(f, i) == LET vs == {w[3] : w \in {w \in writes : w[1] = f /\ w[2] = i}}
                         IN  IF vs = {} THEN {fluents[f][i]} ELSE vs
    IN  {new \in [Fluents -> [Universe -> Universe]] :
            \A f \in Fluents, i \in Universe : new[f][i] \in Options(f, i)}

(* start, finish, end, cancel and fail of an instance of an action, whose   *)
(* state may have been reported to be another one meanwhile; the effects    *)
(* are what is written.  (boilerplate.pl)                                   *)
Reported(state) == IF state = "running" THEN {"running", "final", "failed", "cancelled"} ELSE {state}

poss(hook, state) ==
    CASE hook = "start" -> state # "running"
      [] hook = "finish" -> state = "final"
      [] hook = "end" -> state \in {"final", "failed", "cancelled"}
      [] hook = "cancel" -> state = "running"
      [] hook = "fail" -> state = "failed"

causes_state(hook, state) ==
    CASE hook = "start" -> "running"
      [] hook = "cancel" -> "cancelled"
      [] OTHER -> state

Perform(sit, hook, instance, writes) ==
    UNION {{Run(<<<<hook, instance, state>>>>,
                [fluents |-> new, states |-> [sit.states EXCEPT ![instance] = causes_state(hook, state)]]) :
              new \in Written(sit.fluents, IF hook \in {"finish", "end"} /\ state = "final"
                                           THEN writes ELSE {})} :
           state \in {state \in Reported(sit.states[instance]) : poss(hook, state)}}

Set(sit, fluent, index, value) == [sit EXCEPT !.fluents[fluent][index] = value]

RECURSIVE Substitute(_, _, _)
Substitute(t, var, by) ==
    IF t = var THEN by
    ELSE IF IsCompoundTerm(t) THEN T(t.fn, [i \in DOMAIN t.args |-> Substitute(t.args[i], var, by)])
    ELSE t

ClauseOf(functor, t) ==
    CHOOSE c \in clauses : c.fn = functor /\ c.args[1].fn = t.fn
IsDefined(functor, t) == \E c \in clauses : c.fn = functor /\ c.args[1].fn = t.fn

(* The value of an expression, or none if it has a variable.               *)
RECURSIVE Eval(_, _)
Eval(sit, t) ==
    IF "number" \in DOMAIN t THEN {t.number}
    ELSE IF ~IsCompoundTerm(t) THEN {}
    ELSE LET args == Eval(sit, t.args[1])
             f == CHOOSE f \in Fluents : mangled_name(f) = t.fn
             clause == ClauseOf("function", t)
         IN  IF IsDefined("function", t)
             THEN UNION {Eval(sit, Substitute(clause.args[3].args[2], clause.args[1].args[1], Number(n))) :
                            n \in args}
             ELSE {sit.fluents[f][n] : n \in args \cap Universe}

(* The instances of an action that a term stands for.                       *)
InstancesOf(sit, t) ==
    LET a == CHOOSE a \in DOMAIN Actions : mangled_name(a) = t.fn
    IN  {<<a, n>> : n \in Eval(sit, t.args[1]) \cap Universe}

RECURSIVE Holds(_, _)
Holds(sit, t) ==
    LET Part(i) == Holds(sit, t.args[i])
        Sides(i, j) == Eval(sit, t.args[i]) \X Eval(sit, t.args[j])
        Instances == {u \in Universe : Holds(sit, Substitute(t.args[2], t.args[1], Number(u)))}
    IN  CASE t.fn = "true" -> TRUE
          [] t.fn = "=" /\ IsCompoundTerm(t.args[1]) /\ t.args[1].fn = "state" ->
                \E i \in InstancesOf(sit, t.args[1].args[1]) : sit.states[i] = t.args[2].fn
          [] t.fn \in {"=:=", "="} -> \E p \in Sides(1, 2) : p[1] = p[2]
          [] t.fn \in {"=\\=", "\\="} -> \E p \in Sides(1, 2) : p[1] # p[2]
          [] t.fn = ">=" -> \E p \in Sides(1, 2) : p[1] >= p[2]
          [] t.fn = ">" -> \E p \in Sides(1, 2) : p[1] > p[2]
          [] t.fn = "=<" -> \E p \in Sides(1, 2) : p[1] <= p[2]
          [] t.fn = "<" -> \E p \in Sides(1, 2) : p[1] < p[2]
          [] t.fn = "compare" -> Holds(sit, T(t.args[1].fn, <<t.args[2], t.args[3]>>))
          [] t.fn = "and" -> \A i \in DOMAIN t.args : Part(i)
          [] t.fn \in {"or", ";"} -> \E i \in DOMAIN t.args : Part(i)
          [] t.fn = "lif" -> Part(1) => Part(2)
          [] t.fn = "neg" -> ~Part(1)
          [] t.fn = "some" -> "golog" \in DOMAIN t.args[1] /\ Instances # {}

(* What an instance of an action writes, according to the clauses.          *)
ClauseWrites(sit, instance) ==
    LET Of(clause) == Substitute(clause, clause.args[1].args[1], Number(instance[2]))
        Index(c) == c.args[2].args[1]
        Indices(c) == IF "number" \in DOMAIN Index(c) THEN {Index(c).number} ELSE Universe
        At(c, i) == Substitute(c, Index(c), Number(i))
        FluentOf(c) == CHOOSE f \in Fluents : mangled_name(f) = c.args[2].fn
        Writes(c) == UNION {{<<FluentOf(c), i, v>> : v \in Eval(sit, At(c, i).args[3])} :
                                i \in {i \in Indices(c) : Holds(sit, At(c, i).args[4])}}
        effects == {c \in clauses : c.fn = "durative_causes_val" /\ c.args[1].fn = mangled_name(instance[1])}
    IN  UNION {Writes(Of(c)) : c \in effects}

Hooks == {"start", "finish", "end", "cancel", "fail"}

RECURSIVE Trans(_, _)
Trans(sit, t) ==
    LET Part(next, i) == Trans(next, t.args[i])
        HoldsIn(next) == Holds(next, t.args[1])
        AnyCase(next) == TRUE
        Body(next) == Part(next, Len(t.args))
        clause == ClauseOf("proc", t)
    IN  CASE t.fn = "?" -> {Run(<<>>, sit) : c \in {c \in {t.args[1]} : Holds(sit, c)}}
          [] t.fn = "set" ->
                LET f == CHOOSE f \in Fluents : mangled_name(f) = t.args[1].fn
                IN  {Run(<<>>, Set(sit, f, w[1], w[2])) :
                        w \in (Eval(sit, t.args[1].args[1]) \cap Universe) \X Eval(sit, t.args[2])}
          [] t.fn \in Hooks ->
                UNION {Perform(sit, t.fn, i, ClauseWrites(sit, i)) : i \in InstancesOf(sit, t.args[1])}
          [] t.fn = "[]" -> InSequence(sit, t.args, Trans)
          [] t.fn = "nondet" -> UNION {Trans(sit, alternative) : alternative \in Range(t.args[1].args)}
          [] t.fn = "if" ->
                IF HoldsIn(sit) THEN Part(sit, 2)
                ELSE IF Len(t.args) = 3 THEN Part(sit, 3) ELSE {Run(<<>>, sit)}
          [] t.fn = "while" -> Loop(sit, HoldsIn, LAMBDA next : ~HoldsIn(next), Body)
          [] t.fn = "star" -> Loop(sit, AnyCase, AnyCase, Body)
          [] t.fn = "pickBest" ->
                UNION {Trans(sit, Substitute(t.args[3], t.args[1], v)) : v \in Range(t.args[2].args)}
          [] t.fn = "search" -> Bracketed(<<"search">>, Part(sit, 1))
          [] t.fn = "solve" ->
                UNION {Bracketed(<<"solve", h, r>>, Part(sit, 1)) :
                        h \in Eval(sit, t.args[2]), r \in Eval(sit, t.args[3])}
          [] OTHER ->
                UNION {Trans(sit, Substitute(clause.args[2], clause.args[1].args[1], Number(n))) :
                        n \in Eval(sit, t.args[1])}

-----------------------------------------------------------------------------
(* The grammar.                                                            *)
Simple == Range(SimpleStatements)
Calls == {s \in Simple : s.s = "action"}

Init ==
    /\ statement \in Simple
    /\ rules = 0
    /\ clauses = compile

Parse(s) ==
    /\ rules < MaxRules
    /\ statement' = s
    /\ rules' = rules + 1
    /\ UNCHANGED clauses

RECURSIVE BoundIn(_)
BoundIn(s) ==
    (IF s.s = "pick" THEN {s.var} ELSE {})
    \cup (IF "parts" \in DOMAIN s THEN UNION {BoundIn(part) : part \in Range(s.parts)} ELSE {})

ParseBlock == \E other \in Simple : \E s \in {Block(<<statement, other>>), Block(<<other, statement>>)} : Parse(s)
ParseChoose == \E other \in Simple : Parse(Choose(<<statement, other>>))
ParseConditional ==
    \E c \in Conditions : \E s \in {Conditional(c, statement, Skip)}
                              \cup {Conditional(c, other, statement) : other \in Calls} : Parse(s)
ParseWhile == \E c \in Conditions : Parse(While(c, statement))
ParseStar == Parse(Star(statement))
ParsePick ==
    \E among \in SUBSET Universe \ {{}} :
        /\ "x" \notin BoundIn(statement)
        /\ Parse(Pick("x", SetToSeq(among), statement))
ParseSearch == Parse(Search(statement))
ParseSolve == \E r \in DOMAIN Functions, n \in Universe : Parse(Solve(statement, Val(n), Ref(r, Val(n))))
ParseDuring ==
    \E call, other \in Calls :
        \E branches \in {<<Skip, Skip>>, <<other, Skip>>, <<Skip, other>>} :
            Parse(During(call.name, call.arg, statement, branches[1], branches[2]))

Next ==
    \/ ParseBlock \/ ParseChoose \/ ParseConditional \/ ParseWhile \/ ParseStar
    \/ ParsePick \/ ParseSearch \/ ParseSolve \/ ParseDuring
Spec == Init /\ [][Next]_vars

-----------------------------------------------------------------------------
(* Properties: what a statement means.  A call has the value that its       *)
(* argument has when it starts.                                            *)

RECURSIVE ValueOf(_, _, _)
ValueOf(sit, env, e) ==
    CASE e.e = "value" -> e.value
      [] e.e = "name" -> env[e.name]
      [] e.e = "reference" ->
            LET arg == ValueOf(sit, env, e.arg)
            IN  IF e.name \in DOMAIN Functions
                THEN ValueOf(sit, Functions[e.name].param :> arg, Functions[e.name].body)
                ELSE sit.fluents[e.name][arg]

Compares(op, l, r) ==
    CASE op = "eq" -> l = r
      [] op = "neq" -> l # r
      [] op = "gt" -> l > r
      [] op = "ge" -> l >= r
      [] op = "lt" -> l < r
      [] op = "le" -> l <= r

RECURSIVE Means(_, _, _)
Means(sit, env, c) ==
    LET Part(i) == Means(sit, env, c.parts[i])
        For(v) == Means(sit, (c.var :> v) @@ env, c.parts[1])
    IN  CASE c.c = "true" -> TRUE
          [] c.c = "comparison" -> Compares(c.op, ValueOf(sit, env, c.lhs), ValueOf(sit, env, c.rhs))
          [] c.c = "not" -> ~Part(1)
          [] c.c = "and" -> Part(1) /\ Part(2)
          [] c.c = "or" -> Part(1) \/ Part(2)
          [] c.c = "implies" -> Part(1) => Part(2)
          [] c.c = "exists" -> \E v \in Universe : For(v)
          [] c.c = "forall" -> \A v \in Universe : For(v)

EffectWrites(sit, instance) ==
    LET a == Actions[instance[1]]
        env == a.param :> instance[2]
    IN  {<<ef.fluent, ValueOf(sit, env, ef.index), ValueOf(sit, env, ef.value)>> :
            ef \in {ef \in Range(a.effects) : Means(sit, env, ef.condition)}}

RECURSIVE Does(_, _, _)
Does(sit, env, s) ==
    LET Part(next, i) == Does(next, env, s.parts[i])
        HoldsIn(next) == Means(next, env, s.condition)
        AnyCase(next) == TRUE
        Body(next) == Part(next, 1)
        instance == <<s.name, ValueOf(sit, env, s.arg)>>
        Hook(next, hook) == Perform(next, hook, instance, EffectWrites(next, instance))
        Handled(next) ==
            CASE next.states[instance] = "failed" -> Part(next, 2)
              [] next.states[instance] = "cancelled" -> Part(next, 3)
              [] OTHER -> {Run(<<>>, next)}
    IN  CASE s.s = "test" -> {Run(<<>>, sit) : c \in {c \in {s.condition} : Means(sit, env, c)}}
          [] s.s = "assign" ->
                {Run(<<>>, Set(sit, s.fluent, ValueOf(sit, env, s.index), ValueOf(sit, env, s.value)))}
          [] s.s = "action" -> Then(Hook(sit, "start"), LAMBDA next : Hook(next, "end"))
          [] s.s = "hook" -> Hook(sit, s.hook)
          [] s.s = "procedure" -> Does(sit, Procedures[s.name].param :> instance[2], Procedures[s.name].body)
          [] s.s = "block" -> InSequence(sit, s.parts, LAMBDA next, part : Does(next, env, part))
          [] s.s = "choose" -> UNION {Part(sit, i) : i \in DOMAIN s.parts}
          [] s.s = "if" -> IF HoldsIn(sit) THEN Part(sit, 1) ELSE Part(sit, 2)
          [] s.s = "while" -> Loop(sit, HoldsIn, LAMBDA next : ~HoldsIn(next), Body)
          [] s.s = "star" -> Loop(sit, AnyCase, AnyCase, Body)
          [] s.s = "pick" ->
                UNION {Does(sit, (s.var :> v) @@ env, s.parts[1]) : v \in Range(s.among)}
          [] s.s = "search" -> Bracketed(<<"search">>, Part(sit, 1))
          [] s.s = "solve" ->
                Bracketed(<<"solve", ValueOf(sit, env, s.horizon), ValueOf(sit, env, s.reward)>>, Part(sit, 1))
          [] s.s = "during" ->
                Then(Then(Then(Hook(sit, "start"), Body), LAMBDA next : Hook(next, "end")), Handled)

RECURSIVE Inside(_)
Inside(s) ==
    {s} \cup (IF "parts" \in DOMAIN s THEN UNION {Inside(part) : part \in Range(s.parts)} ELSE {})
          \cup (IF s.s = "procedure" THEN Inside(Procedures[s.name].body) ELSE {})

RECURSIVE NamesIn(_)
NamesIn(e) ==
    CASE e.e = "value" -> {}
      [] e.e = "name" -> {e.name}
      [] e.e = "reference" -> NamesIn(e.arg)

RECURSIVE NamesInCondition(_)
NamesInCondition(c) ==
    CASE c.c = "true" -> {}
      [] c.c = "comparison" -> NamesIn(c.lhs) \cup NamesIn(c.rhs)
      [] OTHER -> UNION {NamesInCondition(part) : part \in Range(c.parts)}
                    \ (IF "var" \in DOMAIN c THEN {c.var} ELSE {})

RECURSIVE Free(_)
Free(s) ==
    (UNION {NamesIn(s[x]) : x \in DOMAIN s \cap {"index", "value", "arg", "horizon", "reward"}}
     \cup UNION {NamesInCondition(s[x]) : x \in DOMAIN s \cap {"condition"}}
     \cup UNION {Free(part) : part \in UNION {Range(s[x]) : x \in DOMAIN s \cap {"parts"}}})
    \ {s[x] : x \in DOMAIN s \cap {"var"}}

RECURSIVE Reads(_)
Reads(e) ==
    IF e.e # "reference" THEN {}
    ELSE Reads(e.arg) \cup
         IF e.name \in Fluents THEN {e.name} ELSE Reads(Functions[e.name].body)

Changes(s) ==
    {i.fluent : i \in {i \in Inside(s) : i.s = "assign"}}
    \cup UNION {{ef.fluent : ef \in Range(Actions[i.name].effects)} :
                    i \in {i \in Inside(s) : i.s \in {"action", "hook", "during"}}}

(* The block of a during leaves the arguments of its call alone, and what   *)
(* it does when the action failed does not call the action again.           *)
Steady(d) ==
    /\ Reads(d.arg) \cap Changes(d.parts[1]) = {}
    /\ \A i \in Inside(d.parts[2]) : i.s \in {"action", "hook", "during"} => i.name # d.name

Situations ==
    [fluents : [Fluents -> [Universe -> Universe]], states : [(DOMAIN Actions) \X Universe -> {"idle"}]]

(* The term of a statement does what the statement means, in whatever       *)
(* situation it starts and whatever becomes of the actions it calls: the    *)
(* same hooks of the same instances in the same order, the same plans, the  *)
(* same values in the end, and stuck in the same places.  (Not so where the *)
(* block of a during changes an argument of the call, as the argument is    *)
(* evaluated again at the end, nor where on_fail calls the action again, as *)
(* the state for on_cancel is looked at after that.)                        *)
RunsAsWritten ==
    Free(statement) = {} /\ (\A i \in Inside(statement) : i.s = "during" => Steady(i)) =>
        LET term == StatementTerm(<<>>, statement)
        IN  \A sit \in Situations : Trans(sit, term) = Does(sit, <<>>, statement)
=============================================================================
