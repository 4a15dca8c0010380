------------------------------ MODULE Elements ------------------------------
(***************************************************************************)
(* The tree that the constructors of the language model put together        *)
(* (src/src/model/procedural.cpp, formula.cpp, action.cpp, fluent.cpp, ...) *)
(* and the names that its binders get in ReadyLog.                          *)
(*                                                                         *)
(* An element has parts, in the order of its constructor's arguments; the   *)
(* orphans among them are those that the constructor makes no parent of.    *)
(* scope: it owns the scope that vars are declared in; child: it can have a *)
(* parent.  Types and operators are left out.                               *)
(***************************************************************************)
EXTENDS Integers, Sequences

(* Constructors.                                                           *)
Element(x, parts) ==
    [x |-> x, parts |-> parts, orphans |-> {}, scope |-> FALSE, child |-> TRUE, vars |-> {}, name |-> ""]
Owner(x, variables, parts) == [Element(x, parts) EXCEPT !.scope = TRUE, !.vars = variables]
AllOrphans(e) == [e EXCEPT !.orphans = DOMAIN e.parts]

Value == Element("value", <<>>)
VariableRef(v) == [Element("variable", <<>>) EXCEPT !.name = v]
Reference(name, args) == [Element("reference", args) EXCEPT !.name = name]

Negation(e) == Element("not", <<e>>)
Comparison(lhs, rhs) == Element("comparison", <<lhs, rhs>>)
BooleanOperation(lhs, rhs) == Element("boolean", <<lhs, rhs>>)
Quantification(v, e) == Owner("quantification", {v}, <<e>>)
ArithmeticOperation(lhs, rhs) == Element("arithmetic", <<lhs, rhs>>)
StringConcatenation(lhs, rhs) == Element("concatenation", <<lhs, rhs>>)
ToString(e) == AllOrphans(Element("to_string", <<e>>))
ListExpression(entries) == AllOrphans(Element("list", entries))
CompoundExpression(entries) == AllOrphans(Element("compound", entries))
FieldAccess(subject) == Element("field", <<subject>>)
ListAccess(subject, index) == Element("access", <<subject, index>>)
ListLength(subject) == Element("length", <<subject>>)

Assignment(lhs, rhs) == Element("assign", <<lhs, rhs>>)
ListPop(list) == Element("pop", <<list>>)
ListPush(list, what) == Element("push", <<list, what>>)
DurativeCall(action) == Element("hook", <<action>>)
Test(e) == Element("test", <<e>>)
Block(elements) == Owner("block", {}, elements)
Choose(alternatives) == Owner("choose", {}, alternatives)
Concurrent(procs) == Owner("concurrent", {}, procs)
Conditional(condition, block_true, block_false) == Element("if", <<condition, block_true, block_false>>)
Pick(v, domain, statement) == Owner("pick", {v}, domain \o <<statement>>)
Search(statement) == Element("search", <<statement>>)

(* Mutant: its statement gets no parent.                                    *)
While_WithoutParent(expression, statement) ==
    [Element("while", <<expression, statement>>) EXCEPT !.orphans = {2}]

While(expression, statement) == Element("while", <<expression, statement>>)
Star(statement) == Element("star", <<statement>>)

Solve(horizon, reward, statement) ==
    [Element("solve", <<horizon, reward, statement>>) EXCEPT !.orphans = {3}]

(* A handler that is missing would be an empty block in the scope around    *)
(* the parallel block, and is made even if none is missing.  The parallel    *)
(* block has no parent yet, so that only a scope of its own has one around. *)
During(action_call, parallel_block, on_fail, on_cancel) ==
    Element("during", <<action_call, parallel_block, on_fail, on_cancel>>)
ScopeAround(e) == e.scope
EmptyBlock == Block(<<>>)

(* Globals: parameters are the variables of their scope.                    *)
Function(params, definition) == Owner("function", params, <<definition>>)
Procedure(params, definition) == Owner("procedure", params, <<definition>>)
ExogFunction(params) == Owner("exog_function", params, <<>>)

EffectAxiom(condition, lhs, value) ==
    [Element("effect", <<condition, Assignment(lhs, value)>>) EXCEPT !.child = FALSE]
AbstractAction(x, params, precondition, effects, mapping) ==
    [Owner(x, params, <<precondition>> \o effects \o mapping)
        EXCEPT !.orphans = {i \in 2..1 + Len(effects) + Len(mapping) : TRUE}]
Action(params, precondition, effects, senses, mapping) ==
    LET a == AbstractAction("action", params, precondition, effects, mapping)
    IN  [a EXCEPT !.parts = @ \o senses]
ExogAction(params, precondition, effects, mapping) ==
    AbstractAction("exog_action", params, precondition, effects, mapping)

InitialValue(args, value) == [Element("initial", Append(args, value)) EXCEPT !.child = FALSE]
FluentGlobal(params, initially) == AllOrphans(Owner("fluent", params, initially))
Domain(elements) == AllOrphans(Element("domain", elements))

(* Declared, but not defined.                                              *)
Undefined == Element("undefined", <<>>)

-----------------------------------------------------------------------------
(* Names of golog variables.  The level of a variable is one more than the  *)
(* number of child elements from its binder up to one without a parent; a   *)
(* binder at a depth has depth - 1 of them around it.                      *)
Binders == {"pick", "quantification"}
golog_vars(e, depth) == IF e.x \in Binders THEN {<<v, depth + 1>> : v \in e.vars} ELSE {}

(* An element that was found at a depth, with the variables of the binders  *)
(* around it; one around an orphan of one of the kinds in `apart' does not  *)
(* count.                                                                  *)
Found(e, depth, outer) == [element |-> e, depth |-> depth, outer |-> outer]

FoundPart(f, i, apart) ==
    LET e == f.element
    IN  Found(e.parts[i],
              IF i \in e.orphans \/ ~e.child THEN 1 ELSE f.depth + 1,
              IF i \in e.orphans /\ e.x \in apart THEN {} ELSE f.outer \cup golog_vars(e, f.depth))

FoundParts(f, apart) == {FoundPart(f, i, apart) : i \in DOMAIN f.element.parts}
=============================================================================
