------------------------------ MODULE Precedence ------------------------------
(***************************************************************************)
(* Chains of unary expressions and operators, and the tree that             *)
(* parse_op_precedence (src/src/parser/utilities.cpp) makes of them.  The   *)
(* same template serves the boolean and the numeric expressions, the clock  *)
(* formulas and the specifications of states and actions in constraints.    *)
(*                                                                         *)
(* A state is what the rule  +(unary_expr >> operator) >> unary_expr  has   *)
(* consumed: operators[i] stands between the operands i and i+1.  What is   *)
(* in braces is one operand.                                                *)
(***************************************************************************)
EXTENDS Integers, Sequences, SequencesExt

CONSTANT MaxOperators      \* bound on the operators of a chain

VARIABLES
    family,         \* which kind of expression is parsed
    operators       \* the operators of the chain
chainVars == <<family, operators>>

(* The functions called precedence, one for each kind of operator.         *)
ArithmeticOperator ==
    [plus |-> 1, minus |-> 1, times |-> 2, divided |-> 2, modulo |-> 2, power |-> 3]
BooleanOperator == [implies |-> 0, xor |-> 0, iff |-> 0, or |-> 1, and |-> 2]
BooleanClockOperator == [or |-> 1, and |-> 2]
ConstraintOperator == [until |-> 1, since |-> 1, or |-> 2, and |-> 3]

precedence == [arithmetic |-> ArithmeticOperator, boolean |-> BooleanOperator,
               clock |-> BooleanClockOperator, constraint |-> ConstraintOperator]

-----------------------------------------------------------------------------
(* The parts of an operation are operands and operations, by their place in  *)
(* the chain.  A tree is its root and the parts of its operations.           *)
Operand(i) == [operand |-> i]
Operation(i) == [operation |-> i]
IsOperation(e) == "operation" \in DOMAIN e

NewOperation(lhs, i, rhs, others) ==
    [root |-> i,
     parts |-> [j \in {i} \cup DOMAIN others |->
                    IF j = i THEN [lhs |-> lhs, rhs |-> rhs] ELSE others[j]]]

BindsTighter(op1, op2) == precedence[family][op1] > precedence[family][op2]

(* parse_op_precedence_: the operators from `first' to `last', with an      *)
(* operand in front of each, and the operand behind the last of them.  The  *)
(* rest becomes the right hand side where its root binds tighter than the   *)
(* first operator; otherwise the chain is split at its last operator.       *)
OwnsRest_OrEqual(op, rhs) == ~BindsTighter(op, operators[rhs.root])  \* mutant: >= for >

OwnsRest(op, rhs) == BindsTighter(operators[rhs.root], op)

LeftOperand_Last(last) == Operand(last + 1)  \* mutant: the last operand serves twice

LeftOperand(last) == Operand(last)

Chains ==
    {c \in (DOMAIN operators) \X (DOMAIN operators) \X {Operand(i) : i \in 1..Len(operators) + 1} :
        c[1] <= c[2]}

Parsed[c \in Chains] ==
    LET first == c[1]
        last == c[2]
        behind == c[3]
        rhs == Parsed[<<first + 1, last, behind>>]
        lhs == Parsed[<<first, last - 1, LeftOperand(last)>>]
    IN  IF first = last
        THEN NewOperation(Operand(first), first, behind, <<>>)
        ELSE IF OwnsRest(operators[first], rhs)
             THEN NewOperation(Operand(first), first, Operation(rhs.root), rhs.parts)
             ELSE NewOperation(Operation(lhs.root), last, behind, lhs.parts)

parse_op_precedence == Parsed[<<1, Len(operators), Operand(Len(operators) + 1)>>]

-----------------------------------------------------------------------------
ChainInit ==
    /\ family \in DOMAIN precedence
    /\ operators \in {<<op>> : op \in DOMAIN precedence[family]}

ParseOperator ==
    /\ Len(operators) < MaxOperators
    /\ \E op \in DOMAIN precedence[family] : operators' = Append(operators, op)
    /\ UNCHANGED family

ChainNext == ParseOperator
ChainSpec == ChainInit /\ [][ChainNext]_chainVars

-----------------------------------------------------------------------------
(* Properties.                                                             *)

(* The text has operand i in place 2 * i - 1, operator i in place 2 * i.      *)
InOrder(t) ==
    LET Read(e, text) == IF IsOperation(e) THEN text[e.operation] ELSE <<2 * e.operand - 1>>
        text[i \in DOMAIN t.parts] ==
            Read(t.parts[i].lhs, text) \o <<2 * i>> \o Read(t.parts[i].rhs, text)
    IN  text[t.root]

(* The tree has the operands and operators of the text, each once and in    *)
(* the order in which they are written.                                     *)
ChainKept == InOrder(parse_op_precedence) = [k \in 1..2 * Len(operators) + 1 |-> k]

(* No operation has an operand that binds less tightly than itself, and      *)
(* operators of the same precedence associate to the left.                  *)
Respects(t) ==
    \A i \in DOMAIN t.parts :
        LET lhs == t.parts[i].lhs
            rhs == t.parts[i].rhs
        IN  /\ IsOperation(lhs) => ~BindsTighter(operators[i], operators[lhs.operation])
            /\ IsOperation(rhs) => BindsTighter(operators[rhs.operation], operators[i])

(* An operator that binds no tighter than an earlier one, and less tightly   *)
(* than a later one: the + of a*b + c*d, the second + of a + b + c*d.        *)
HasValley ==
    \E i, j, k \in DOMAIN operators :
        /\ i < j /\ j < k
        /\ ~BindsTighter(operators[j], operators[i]) /\ BindsTighter(operators[k], operators[j])

(* Exactly the chains without such an operator become a tree that respects  *)
(* the precedence of the operators, whatever the kind of expression.         *)
RespectedWithoutValley == Respects(parse_op_precedence) <=> ~HasValley
=============================================================================
