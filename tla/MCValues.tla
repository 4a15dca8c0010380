------------------------------- MODULE MCValues -------------------------------
(* The fluents, types and expressions of src/examples/lists.gpp.            *)
EXTENDS Values

Numbers == ListType(NumberType)
Pair == CompoundType("pair")
Cp == CompoundType("cp")

MCFluent == {"l1", "l2", "p1"}
MCFluentType == [l1 |-> ListType(Pair), l2 |-> Numbers, p1 |-> Cp]
MCFields == [pair |-> [lhs |-> Numbers, rhs |-> Numbers],
             cp |-> [a |-> NumberType, b |-> NumberType]]

PairValue(l, r) == Compound([lhs |-> List(l), rhs |-> List(r)])
MCInitially ==
    [l1 |-> LiteralOf(ListType(Pair), List(<<PairValue(<<Number(1), Number(2)>>, <<Number(2)>>)>>)),
     l2 |-> LiteralOf(Numbers, List(<<>>)),
     p1 |-> LiteralOf(Cp, Null)]

MCLiteral ==
    {LiteralOf(NumberType, Number(1)), LiteralOf(Numbers, List(<<>>)),
     LiteralOf(Cp, Compound([a |-> Number(1)])), LiteralOf(Cp, Null), LiteralOf(ListType(Pair), Null)}

MCMade ==
    {ListOf(Numbers, <<AccessOf("p1", <<Field("a")>>, NumberType),
                       AccessOf("p1", <<Field("b")>>, NumberType)>>),
     CompoundOf(Cp, [a |-> AccessOf("l2", <<Index(0)>>, NumberType),
                     b |-> LiteralOf(NumberType, Number(2))]),
     CompoundOf(Pair, [lhs |-> AccessOf("l2", <<>>, Numbers),
                       rhs |-> AccessOf("l1", <<Index(0), Field("lhs")>>, Numbers)])}

MCListTypes == {NumberType, Pair, Numbers}

MCRndNumbers == {2}
MCExogFunctionTypes == {Numbers, Cp}
=============================================================================
