------------------------------ MODULE MCLanguage ------------------------------
(***************************************************************************)
(* What becomes of the text of a program, in eight parts that share no      *)
(* state: how it is loaded, how chains of operators are put together, how   *)
(* its elements and its platform components are, what its statements and    *)
(* its constraints are translated to, what becomes of a plan with them, and *)
(* what statements do to values.  A behaviour is one of a single part; the  *)
(* variables of the others stay idle.                                       *)
(***************************************************************************)
EXTENDS MCValues, Precedence, PlatformModel, Constraints, Transformation, Startup

CONSTANTS
    MaxBody, MaxTurns       \* bounds of the parts

VARIABLES
    part,
    domain, global, loaded,             \* Loading
    statement, rules, clauses           \* Translation

loadingVars == <<domain, global, loaded>>
translationVars == <<statement, rules, clauses>>
languageVars ==
    <<part, loadingVars, chainVars, translationVars, constraintVars, elementVars,
      transformationVars, platformVars, vars>>

(* What the variables of Values are in the behaviours of the other parts.   *)
NoValues ==
    /\ fluent = [f \in Fluent |-> CHOOSE t \in Initials(f) : TRUE]
    /\ outcome = "thrown"
NoLoading == domain = "idle" /\ global = "idle" /\ loaded = "idle"
NoPrecedence == family = "boolean" /\ operators = <<"or">>
NoTranslation == statement = "idle" /\ rules = "idle" /\ clauses = "idle"
NoConstraints ==
    /\ action_spec = During("grasp", "values")
    /\ state_spec = StateAssertion("arm", "off")
    /\ applied = MaxRules
NoElements ==
    /\ globals = <<>> /\ main \in {M!Test(M!Value)}
    /\ nesting = 0 /\ phase = "running" /\ attached = {} /\ compiled = {}
NoTransformation ==
    /\ declared = "idle" /\ platform_model = "idle" /\ current = "idle"
    /\ arg_to_sym = "idle" /\ sym_to_arg = "idle" /\ given = "idle" /\ plan = "idle"
    /\ transformed = "idle" /\ transforms = "idle"
NoPlatform == components = <<>> /\ open = {} /\ written = <<>> /\ built = "parsed"

-----------------------------------------------------------------------------
(* Loading: a domain that is declared, filled and declared again, an action *)
(* and a function that are declared before they are used and defined after  *)
(* it, names that are symbols, parameters and bound variables.              *)
T == INSTANCE Types WITH Fields <- <<>>

Num(n) == T!Value(T!NumberType, n)
Sym(s) == T!Value(T!SymbolType, s)
Param(name, type) == [name |-> name, type |-> type]
Written(v) == [x |-> "value", value |-> v]
Named(n) == [x |-> "name", name |-> n]
Refer(n, parts) == [x |-> "reference", name |-> n, parts |-> parts]
Equal(l, r) == [x |-> "equal", parts |-> <<l, r>>]
AssignTo(l, r) == [x |-> "assign", parts |-> <<l, r>>]
Bind(v, b) == [x |-> "bind", var |-> v, parts |-> <<b>>]
Block(parts) == [x |-> "block", parts |-> parts]
TestFor(c) == [x |-> "test", parts |-> <<c>>]
Precondition(c) == [x |-> "precondition", parts |-> <<c>>]
EffectIf(c, effect) == [x |-> "effect", parts |-> <<c, effect>>]
Senses(a) == [x |-> "senses", parts |-> <<a>>]
Plus(l, r) == [x |-> "arithmetic", parts |-> <<l, r>>]
Either(c, t, e) == [x |-> "conditional", parts |-> <<c, t, e>>]
AsString(e) == [x |-> "to_string", parts |-> <<e>>]
Concat(l, r) == [x |-> "concatenation", parts |-> <<l, r>>]
SizeOf(l) == [x |-> "length", parts |-> <<l>>]
Not(c) == [x |-> "negation", parts |-> <<c>>]
Both(c, d) == [x |-> "and", parts |-> <<c, d>>]
ListOfNumbers(parts) == [x |-> "list", type |-> T!ListType(T!NumberType), parts |-> parts]
Label(number_, symbol) ==
    [x |-> "compound", type |-> T!CompoundType("label"), fields |-> <<"x", "c">>, parts |-> <<number_, symbol>>]
MapTo(args) == [x |-> "mapping", parts |-> args]
Initial(args, value) == [args |-> args, value |-> value]
Element(kind, type, name, params, is) ==
    [kind |-> kind, type |-> type, name |-> name, params |-> params, is |-> is]

number == T!NumberType
void == T!VoidType
small == T!DomainType("small")
large == T!DomainType("large")
color == T!DomainType("color")
red == Written(Sym("red"))
DomainOf(type, name, is) == Element("domain", type, name, <<>>, is)
Elements(values) == [elements |-> values]

LoadingFields == [point |-> [x |-> number], label |-> [x |-> number, c |-> T!SymbolType]]

Domains ==
    {DomainOf(number, "small", <<>>),
     DomainOf(number, "small", <<Elements({Num(1)})>>),
     DomainOf(number, "small", <<Elements({Num(1), Num(2)})>>),
     DomainOf(number, "small", <<Elements({Num(3)})>>),
     DomainOf(number, "large",
        <<Elements({Num(1)}), "union", Elements({Num(2), Num(3)}), "intersection", Elements({Num(1), Num(4)})>>),
     DomainOf(T!SymbolType, "color", <<Elements({Sym("red"), Sym("v")})>>)}

FluentsAndFunctions ==
    {Element("fluent", number, "f", <<Param("c", color)>>,
        <<Initial(<<red>>, Num(0)), Initial(<<Named("c")>>, Num(1))>>),
     Element("function", number, "g", <<Param("x", small)>>, <<>>),
     Element("function", number, "g", <<Param("y", small)>>, <<Named("y")>>),
     Element("exog_function", number, "g", <<Param("x", small)>>, <<>>),
     Element("function", number, "a", <<Param("n", number)>>, <<Named("n")>>)}

ActionsAndProcedures ==
    {Element("action", void, "a", <<Param("n", large)>>, <<>>),
     Element("action", void, "a", <<Param("n", number), Param("m", number)>>,
        <<Precondition(Both(Equal(Plus(Named("n"), Written(Num(1))), Written(Num(1))),
                             Not(Equal(SizeOf(ListOfNumbers(<<Named("n")>>)), Written(Num(1)))))),
          Senses(AssignTo(Refer("f", <<red>>), Named("n"))),
          EffectIf(Equal(Refer("f", <<red>>), Written(Num(1))), AssignTo(Refer("f", <<red>>), Named("n")))>>),
     Element("exog_action", void, "e", <<Param("c", color)>>,
        <<MapTo(<<Named("c"), Label(Refer("f", <<Named("c")>>), Named("c"))>>), AssignTo(Refer("f", <<Named("c")>>), Written(Num(1)))>>),
     Element("procedure", void, "p", <<Param("v", color), Param("s", small)>>,
        <<Block(<<Refer("a", <<Named("s")>>),
                    TestFor(Equal(Refer("f", <<Named("v")>>),
                               Refer("g", <<Either(Equal(Named("s"), Written(Num(1))), Named("s"), Written(Num(3)))>>)))>>)>>),
     Element("procedure", void, "main", <<>>, <<Bind(Param("n", large), Refer("a", <<Named("n")>>))>>),
     Element("procedure", void, "r", <<>>, <<TestFor(Equal(Named("s"), Written(Num(1))))>>),
     Element("procedure", void, "q", <<Param("n", large)>>,
        <<Block(<<Bind(Param("n", small), Refer("a", <<Named("n")>>)),
                    TestFor(Bind(Param("c", color), Equal(Concat(AsString(Named("c")), AsString(Named("n"))),
                                                      AsString(red))))>>)>>)}

L == INSTANCE Loading
        WITH Fields <- LoadingFields, Source <- Domains \cup FluentsAndFunctions \cup ActionsAndProcedures,
             outcome <- loaded

-----------------------------------------------------------------------------
(* Translation: globals whose names are functors of ReadyLog, too.          *)
S == INSTANCE Statements

StateFluent(e) == S!Ref("state", e)
x == S!Name("x")
NumberIs(op, lhs, rhs) == S!Comparison("number", op, lhs, rhs)

Functions == [g |-> [param |-> "x", body |-> StateFluent(x)]]

Procedures ==
    [search |-> [param |-> "x",
                 body |-> S!Conditional(NumberIs("eq", StateFluent(x), S!Val(0)),
                                        S!Assignment("state", x, S!Val(1)), S!Call("a", x))]]

Actions ==
    [a |-> [param |-> "x",
            effects |-> <<S!Effect([c |-> "true"], "state", StateFluent(x), x),
                          S!Effect(S!Negation(NumberIs("eq", StateFluent(x), x)), "state", x,
                                   S!Ref("g", S!Val(0)))>>],
     b |-> [param |-> "x", effects |-> <<>>]]

SimpleStatements ==
    <<S!Call("a", S!Val(0)), S!Call("b", S!Ref("g", x)),
      S!Assignment("state", StateFluent(S!Val(1)), x),
      S!Test(NumberIs("lt", StateFluent(S!Val(0)), x)), S!ProcedureCall("search", S!Ref("g", S!Val(1))),
      S!DurativeCall("start", "b", S!Val(1)), S!DurativeCall("finish", "b", S!Val(1))>>

Conditions ==
    {S!Quantification("forall", "y", NumberIs("le", StateFluent(S!Name("y")), S!Name("y"))),
     S!BooleanOperation("implies", NumberIs("eq", StateFluent(S!Val(0)), S!Val(1)),
                                   S!Comparison("symbol", "ge", StateFluent(S!Val(1)), S!Val(1)))}

R == INSTANCE Translation WITH Universe <- {0, 1}, Fluents <- {"state"}

-----------------------------------------------------------------------------
(* Constraints: on two components, whose states have the same names.        *)
MCComponentRefs == {"camera", "arm"}
MCAutomatonStates == {"on", "off"}
MCPlatformActions == {"grasp"}
MCBoundPairs == {<<0, 1>>, <<1, 2>>}

-----------------------------------------------------------------------------
(* Elements: programs with all kinds of globals, and one with a function    *)
(* that is declared only.                                                  *)
f(args) == M!Reference("f", args)
n == M!VariableRef("n")

MCPrograms ==
    {[f |-> M!FluentGlobal({"n"}, <<M!InitialValue(<<M!Value>>,
                                M!ListExpression(<<M!Value, M!CompoundExpression(<<M!Value>>)>>))>>),
      g |-> M!Function({"n"},
                M!Quantification("n",
                    M!BooleanOperation(
                        M!Comparison(M!StringConcatenation(M!ToString(M!Quantification("n", n)), n), M!Value),
                        M!Quantification("n", n)))),
      a |-> M!Action({"n"}, M!Comparison(M!ArithmeticOperation(n, M!Value), f(<<n>>)),
                <<M!EffectAxiom(M!Value, M!FieldAccess(f(<<f(<<n>>)>>)), n)>>,
                <<M!Assignment(f(<<n>>), M!Value)>>, <<n>>)],
     [f |-> M!FluentGlobal({"n"}, <<M!InitialValue(<<n>>, M!Value)>>),
      h |-> M!ExogFunction({"n"}),
      e |-> M!ExogAction({"n"}, M!Value,
                <<M!EffectAxiom(M!Value, M!ListAccess(f(<<M!ListLength(f(<<n>>))>>), n), n)>>, <<n>>),
      p |-> M!Procedure({"n"},
                M!Block(<<M!DurativeCall(M!Reference("a", <<n>>)), M!ListPush(f(<<n>>), n),
                          M!ListPop(f(<<n>>))>>)),
      small |-> M!Domain(<<M!Value>>)],
     [g |-> M!Function({"n"}, M!Undefined), h |-> M!ExogFunction({})]}

RECURSIVE PartsOf(_)
PartsOf(e) == {e} \cup UNION {PartsOf(e.parts[i]) : i \in DOMAIN e.parts}
MCModelElements == UNION {UNION {PartsOf(p[name]) : name \in DOMAIN p} : p \in MCPrograms}

-----------------------------------------------------------------------------
(* Transformation: a camera that boots by itself, an arm with a formula     *)
(* that taptenc does not have, and a component whose name is not lower case; *)
(* plans with tests, equal arguments and windows that began already.        *)
NoFormula == [x |-> "none"]
Bound(op, b) == [x |-> op, clock |-> "c", bound |-> b]
SwitchOf(from, to, formula, resets, exog) ==
    [from |-> from, to |-> to, formula |-> formula, resets |-> resets, exog |-> exog]

Camera ==
    [states |-> [off |-> NoFormula, boot |-> Bound("le", 5), on |-> NoFormula], clocks |-> {"c"},
     transitions |->
        {SwitchOf("off", "boot", NoFormula, {"c"}, FALSE),
         SwitchOf("boot", "on", [x |-> "and", parts |-> <<Bound("ge", 3), Bound("le", 5)>>], {}, TRUE),
         SwitchOf("on", "off", NoFormula, {}, FALSE)}]
Arm ==
    [states |-> [idle |-> NoFormula], clocks |-> {},
     transitions |-> {SwitchOf("idle", "idle", [x |-> "not", parts |-> <<NoFormula>>], {}, FALSE)}]
Base == [states |-> [on |-> NoFormula], clocks |-> {}, transitions |-> {}]

TestIn(early, late) == [x |-> "test", early |-> early, late |-> late]
Do(hook, action, args, early, late) ==
    [x |-> "transition", hook |-> hook, action |-> action, args |-> args, early |-> early, late |-> late]

MCComponents == [camera |-> Camera, arm |-> Arm, Base |-> Base]
MCFormulas ==
    LET formulas == UNION {FormulasOf(c) : c \in DOMAIN MCComponents}
    IN  formulas \cup UNION {Range(g.parts) : g \in {g \in formulas : "parts" \in DOMAIN g}}
MCLowercase == {"camera", "off", "boot", "on", "arm", "idle", "c"}
MCModels ==
    {<<{"camera"}, {}>>, <<{"camera", "arm"}, {"camera"}>>,
     <<{"camera", "arm"}, {"arm"}>>, <<{"camera", "Base"}, {}>>}
MCPlans ==
    {<<>>, <<TestIn(0, 5)>>,
     <<TestIn(-3, 1), Do("start", "a", <<"v", "w">>, -1, 4), Do("end", "a", <<"v", "w">>, 5, 7)>>,
     <<Do("start", "a", <<"w", "w">>, 0, 1), Do("cancel", "b", <<>>, 0, 3)>>}
MCDelays == {0, 4}

-----------------------------------------------------------------------------
(* PlatformModel: states with formulas on clocks that come before or after  *)
(* them, clocks that have the name of a state, and transitions to states    *)
(* that are declared, implicit or missing.                                 *)
StateOf(name, formula) == [name |-> name, formula |-> formula]
Move(from, to, exog, formula, resets) ==
    [from |-> from, to |-> to, exog |-> exog, formula |-> formula, resets |-> resets]

MCComponentNames == {"camera"}
MCStateLists ==
    {<<StateOf("off", {})>>, <<StateOf("on", {"c"}), StateOf("off", {})>>,
     <<StateOf("off", {}), StateOf("on", {}), StateOf("off", {})>>,
     <<StateOf("off", {}), StateOf("boot", {}), StateOf("on", {})>>}
MCClockLists == {<<"c">>, <<"c", "on">>, <<"error">>}
MCTransitionLists ==
    {<<Move("off", "error", TRUE, {}, {})>>,
     <<Move("off", "on", FALSE, {"c"}, {"c"}), Move("on", "off", TRUE, {}, {})>>}

-----------------------------------------------------------------------------
LanguageInit ==
    /\ part \in {"loading", "precedence", "translation", "constraints", "elements",
                "transformation", "platform", "values"}
    /\ IF part = "loading" THEN L!Init ELSE NoLoading
    /\ IF part = "precedence" THEN ChainInit ELSE NoPrecedence
    /\ IF part = "translation" THEN R!Init ELSE NoTranslation
    /\ IF part = "constraints" THEN ConstraintInit ELSE NoConstraints
    /\ IF part = "elements" THEN StartupInit ELSE NoElements
    /\ IF part = "transformation" THEN TransformationInit ELSE NoTransformation
    /\ IF part = "platform" THEN PlatformInit ELSE NoPlatform
    /\ IF part = "values" THEN Init ELSE NoValues

LoadingNext ==
    /\ L!Next
    /\ UNCHANGED <<part, chainVars, translationVars, constraintVars, elementVars,
                   transformationVars, platformVars, vars>>
PrecedenceNext ==
    /\ ChainNext
    /\ UNCHANGED <<part, loadingVars, translationVars, constraintVars, elementVars,
                   transformationVars, platformVars, vars>>
TranslationNext ==
    /\ R!Next
    /\ UNCHANGED <<part, loadingVars, chainVars, constraintVars, elementVars,
                   transformationVars, platformVars, vars>>
ConstraintsNext ==
    /\ ConstraintNext
    /\ UNCHANGED <<part, loadingVars, chainVars, translationVars, elementVars,
                   transformationVars, platformVars, vars>>
ElementsNext ==
    /\ StartupNext
    /\ UNCHANGED <<part, loadingVars, chainVars, translationVars, constraintVars,
                   transformationVars, platformVars, vars>>
PlansNext ==
    /\ TransformationNext
    /\ UNCHANGED <<part, loadingVars, chainVars, translationVars, constraintVars, elementVars,
                   platformVars, vars>>
ComponentsNext ==
    /\ PlatformNext
    /\ UNCHANGED <<part, loadingVars, chainVars, translationVars, constraintVars, elementVars,
                   transformationVars, vars>>
ValuesNext ==
    /\ Next
    /\ UNCHANGED <<part, loadingVars, chainVars, translationVars, constraintVars, elementVars,
                   transformationVars, platformVars>>

LanguageNext ==
    \/ part = "loading" /\ LoadingNext
    \/ part = "precedence" /\ PrecedenceNext
    \/ part = "translation" /\ TranslationNext
    \/ part = "constraints" /\ ConstraintsNext
    \/ part = "elements" /\ ElementsNext
    \/ part = "transformation" /\ PlansNext
    \/ part = "platform" /\ ComponentsNext
    \/ part = "values" /\ ValuesNext
LanguageSpec == LanguageInit /\ [][LanguageNext]_languageVars

-----------------------------------------------------------------------------
(* The properties of Values, Precedence, PlatformModel, Constraints,         *)
(* Transformation and Startup are those of the modules; the others:         *)

(* Domains have elements of their element type, and every reference is to a *)
(* global that exists, with as many arguments as it has parameters.          *)
LoadingTypeOK == part = "loading" => L!TypeOK

(* A reference that the parser accepted stays consistent with its target    *)
(* whatever is declared and defined after it.                               *)
CallsStayConsistent == [][part = "loading" => L!CallStaysConsistent]_languageVars

(* A body has no variables but parameters and those that are bound in it.   *)
VariablesBound == part = "loading" => L!VariablesBound

(* An expression of one type stands for another one only if all of its      *)
(* values are values of that type.                                         *)
SubtypesSound == part = "loading" => L!SubtypesSound

(* The ReadyLog term of a statement does what the statement means.          *)
RunsAsWritten == part = "translation" => R!RunsAsWritten
=============================================================================
