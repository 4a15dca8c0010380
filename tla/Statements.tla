------------------------------ MODULE Statements ------------------------------
(***************************************************************************)
(* Expressions, formulas, effects and statements of golog++, as the parser  *)
(* constructs them from src/src/model/procedural.cpp, formula.cpp and       *)
(* effect_axiom.h.  The parts of a statement are its statements, and those   *)
(* of a formula its formulas.                                              *)
(***************************************************************************)
EXTENDS Sequences

Val(n) == [e |-> "value", value |-> n]
Name(x) == [e |-> "name", name |-> x]
Ref(name, arg) == [e |-> "reference", name |-> name, arg |-> arg]

Comparison(type, op, lhs, rhs) == [c |-> "comparison", type |-> type, op |-> op, lhs |-> lhs, rhs |-> rhs]
Negation(c) == [c |-> "not", parts |-> <<c>>]
BooleanOperation(op, lhs, rhs) == [c |-> op, parts |-> <<lhs, rhs>>]
Quantification(op, var, c) == [c |-> op, var |-> var, parts |-> <<c>>]

Effect(condition, fluent, index, value) ==
    [condition |-> condition, fluent |-> fluent, index |-> index, value |-> value]

Test(c) == [s |-> "test", condition |-> c]
Assignment(fluent, index, value) == [s |-> "assign", fluent |-> fluent, index |-> index, value |-> value]
Call(action, arg) == [s |-> "action", name |-> action, arg |-> arg]
DurativeCall(hook, action, arg) == [s |-> "hook", hook |-> hook, name |-> action, arg |-> arg]
ProcedureCall(name, arg) == [s |-> "procedure", name |-> name, arg |-> arg]
Block(parts) == [s |-> "block", parts |-> parts]
Choose(parts) == [s |-> "choose", parts |-> parts]
Conditional(c, yes, no) == [s |-> "if", condition |-> c, parts |-> <<yes, no>>]
While(c, body) == [s |-> "while", condition |-> c, parts |-> <<body>>]
Star(body) == [s |-> "star", parts |-> <<body>>]
Pick(var, among, body) == [s |-> "pick", var |-> var, among |-> among, parts |-> <<body>>]
Search(body) == [s |-> "search", parts |-> <<body>>]
Solve(body, horizon, reward) == [s |-> "solve", horizon |-> horizon, reward |-> reward, parts |-> <<body>>]

(* The block, what to do when the action failed, and when it was cancelled. *)
During(action, arg, block, onFail, onCancel) ==
    [s |-> "during", name |-> action, arg |-> arg, parts |-> <<block, onFail, onCancel>>]

Skip == Block(<<>>)     \* a missing branch
=============================================================================
