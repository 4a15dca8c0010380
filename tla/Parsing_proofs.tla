---------------------------- MODULE Parsing_proofs ---------------------------
(***************************************************************************)
(* What the parser builds.  Of a chain of operators of any length: its     *)
(* operands and operators stay in order, and its tree respects their       *)
(* precedence exactly if the chain has no valley.  Of a component: what is  *)
(* written, whatever its sections contain and in whatever order they come, *)
(* unless a clock has the name of a state.  Of any program: it starts if    *)
(* all of its globals are defined and its parallel blocks have scopes, and  *)
(* nested binders have different names.                                    *)
(***************************************************************************)
EXTENDS Precedence, PlatformModel, Startup, FoldLemmas, SequenceTheorems, FiniteSetTheorems

-----------------------------------------------------------------------------
(* Chains of operators.                                                    *)
ChainOK ==
    /\ family \in DOMAIN precedence
    /\ operators \in Seq(DOMAIN precedence[family]) /\ operators # <<>>

LEMMA PrecedenceIsNatural ==
    ASSUME ChainOK, NEW i \in DOMAIN operators
    PROVE  precedence[family][operators[i]] \in Nat
<1>1. operators[i] \in DOMAIN precedence[family]
    BY DEF ChainOK
<1>. QED
    BY <1>1 DEF ChainOK, precedence, ArithmeticOperator, BooleanOperator, BooleanClockOperator,
                ConstraintOperator

(* One turn of the recursion. *)
Turn(rest, c) ==
    LET first == c[1]
        last == c[2]
        behind == c[3]
        rhs == rest[<<first + 1, last, behind>>]
        lhs == rest[<<first, last - 1, LeftOperand(last)>>]
    IN  IF first = last
        THEN NewOperation(Operand(first), first, behind, <<>>)
        ELSE IF OwnsRest(operators[first], rhs)
             THEN NewOperation(Operand(first), first, Operation(rhs.root), rhs.parts)
             ELSE NewOperation(Operation(lhs.root), last, behind, lhs.parts)

Operands == {Operand(i) : i \in 1..Len(operators) + 1}

(* The recursion ends: there is a function that satisfies its equation, for the
   chains are shorter in each turn. *)
LEMMA ParsedTurn ==
    ASSUME ChainOK
    PROVE  \A c \in Chains : Parsed[c] = Turn(Parsed, c)
<1> DEFINE n == Len(operators)
           Upto(d) == {c \in Chains : c[2] - c[1] <= d}
           Exists(d) == \E g : g = [c \in Upto(d) |-> Turn(g, c)]
           G == {d \in Nat : Exists(d)}
<1>1. n \in Nat /\ DOMAIN operators = 1..n
    BY DEF ChainOK
<1>2. \A c \in Chains :
        /\ c[1] \in 1..n /\ c[2] \in 1..n /\ c[1] <= c[2] /\ c[3] \in Operands
        /\ c = <<c[1], c[2], c[3]>>
    BY <1>1 DEF Chains, Operands
<1>3. ASSUME NEW f \in 1..n, NEW l \in 1..n, f <= l, NEW b \in Operands
      PROVE  <<f, l, b>> \in Chains
    BY <1>1, <1>3 DEF Chains, Operands
<1>4. \A l \in 1..n : LeftOperand(l) \in Operands
    BY <1>1 DEF LeftOperand, Operands
<1>5. ASSUME NEW d \in Nat, NEW g, NEW h, NEW c \in Upto(d + 1),
             \A e \in Upto(d) : g[e] = h[e]
      PROVE  Turn(g, c) = Turn(h, c)
    <2>1. /\ c \in Chains /\ c[1] \in 1..n /\ c[2] \in 1..n /\ c[1] <= c[2] /\ c[3] \in Operands
          /\ c[2] - c[1] <= d + 1
        BY <1>2
    <2>2. CASE c[1] = c[2]
        BY <2>2 DEF Turn
    <2>3. CASE c[1] # c[2]
        <3>1. c[1] + 1 \in 1..n /\ c[2] - 1 \in 1..n /\ c[1] + 1 <= c[2] /\ c[1] <= c[2] - 1
              /\ c[2] - (c[1] + 1) <= d /\ (c[2] - 1) - c[1] <= d
            BY <1>1, <2>1, <2>3
        <3>2. <<c[1] + 1, c[2], c[3]>> \in Chains
            BY <1>3, <2>1, <3>1
        <3>3. <<c[1], c[2] - 1, LeftOperand(c[2])>> \in Chains
            BY <1>3, <1>4, <2>1, <3>1
        <3>4. /\ g[<<c[1] + 1, c[2], c[3]>>] = h[<<c[1] + 1, c[2], c[3]>>]
              /\ g[<<c[1], c[2] - 1, LeftOperand(c[2])>>] = h[<<c[1], c[2] - 1, LeftOperand(c[2])>>]
            BY <1>5, <3>1, <3>2, <3>3
        <3>. QED BY <3>4 DEF Turn
    <2>. QED BY <2>2, <2>3
<1>6. 0 \in G
    <2> DEFINE g == [c \in Upto(0) |-> Turn(<<>>, c)]
    <2>1. ASSUME NEW c \in Upto(0) PROVE Turn(<<>>, c) = Turn(g, c)
        <3>1. c[1] = c[2]
            BY <1>2
        <3>. QED BY <3>1 DEF Turn
    <2>2. g = [c \in Upto(0) |-> Turn(g, c)]
        BY <2>1
    <2>. QED BY <2>2
<1>7. ASSUME NEW d \in Nat, d \in G PROVE d + 1 \in G
    <2>1. PICK g : g = [c \in Upto(d) |-> Turn(g, c)]
        BY <1>7
    <2> DEFINE h == [c \in Upto(d + 1) |-> Turn(g, c)]
    <2>2. ASSUME NEW e \in Upto(d) PROVE g[e] = h[e]
        <3>1. e \in Upto(d + 1)
            BY <1>2
        <3>2. g[e] = Turn(g, e)
            BY <2>1
        <3>. QED BY <3>1, <3>2
    <2>3. \A c \in Upto(d + 1) : Turn(g, c) = Turn(h, c)
        <3> HIDE DEF h
        <3>. QED BY <1>5, <2>2
    <2>4. h = [c \in Upto(d + 1) |-> Turn(h, c)]
        BY <2>3
    <2>5. Exists(d + 1)
        <3> HIDE DEF h, Upto
        <3>. QED BY <2>4, Zenon
    <2> HIDE DEF Exists
    <2>. QED BY <2>5
<1>8. n \in G
    <2> HIDE DEF G
    <2>. QED BY <1>1, <1>6, <1>7, SetInduction
<1>9. Upto(n) = Chains
    BY <1>1, <1>2
<1>10. \E g : g = [c \in Chains |-> Turn(g, c)]
    BY <1>8, <1>9
<1>11. Parsed = [c \in Chains |-> Turn(Parsed, c)]
    BY <1>10 DEF Parsed, Turn
<1>. QED BY <1>11

-----------------------------------------------------------------------------
Prec(i) == precedence[family][operators[i]]

(* The operators from f to l contain what HasValley is about.                *)
Valley(f, l) ==
    \E i, j, k \in f..l : i < j /\ j < k /\ Prec(j) <= Prec(i) /\ Prec(k) > Prec(j)

(* The tree t of the operators from f to l ...                               *)
Spans(t, f, l) == t.root \in f..l /\ DOMAIN t.parts = f..l

(* ... respects the precedence exactly if there is no valley, and then none of
   its operators binds less tightly than the one at its root. *)
Exact(t, f, l) ==
    /\ Respects(t) <=> ~Valley(f, l)
    /\ Respects(t) => \A j \in f..l : Prec(t.root) <= Prec(j)

LEMMA Kinds ==
    \A i : /\ ~IsOperation(Operand(i)) /\ Operand(i).operand = i
          /\ IsOperation(Operation(i)) /\ Operation(i).operation = i
BY DEF IsOperation, Operand, Operation

(* Operator f takes the tree of the operators behind it for its right side. *)
LEMMA RespectsOwner ==
    ASSUME NEW rhs, NEW f, f \notin DOMAIN rhs.parts
    PROVE  Respects(NewOperation(Operand(f), f, Operation(rhs.root), rhs.parts))
                <=> Respects(rhs) /\ Prec(rhs.root) > Prec(f)
<1> DEFINE t == NewOperation(Operand(f), f, Operation(rhs.root), rhs.parts)
<1>1. /\ DOMAIN t.parts = {f} \cup DOMAIN rhs.parts
      /\ t.parts[f].lhs = Operand(f) /\ t.parts[f].rhs = Operation(rhs.root)
      /\ \A j \in DOMAIN rhs.parts : t.parts[j] = rhs.parts[j]
    BY DEF NewOperation
<1> HIDE DEF t
<1>2. Respects(t) <=> Respects(rhs) /\ Prec(rhs.root) > Prec(f)
    BY <1>1, Kinds DEF Respects, BindsTighter, Prec
<1>. QED BY <1>2 DEF t

(* Operator l takes the tree of the operators in front of it for its left side. *)
LEMMA RespectsSplit ==
    ASSUME NEW lhs, NEW l, l \notin DOMAIN lhs.parts, NEW b \in Operands
    PROVE  Respects(NewOperation(Operation(lhs.root), l, b, lhs.parts))
                <=> Respects(lhs) /\ ~(Prec(l) > Prec(lhs.root))
<1> DEFINE t == NewOperation(Operation(lhs.root), l, b, lhs.parts)
<1>1. /\ DOMAIN t.parts = {l} \cup DOMAIN lhs.parts
      /\ t.parts[l].lhs = Operation(lhs.root) /\ t.parts[l].rhs = b
      /\ \A j \in DOMAIN lhs.parts : t.parts[j] = lhs.parts[j]
    BY DEF NewOperation
<1>2. ~IsOperation(b)
    BY Kinds DEF Operands
<1> HIDE DEF t
<1>3. Respects(t) <=> Respects(lhs) /\ ~(Prec(l) > Prec(lhs.root))
    BY <1>1, <1>2, Kinds DEF Respects, BindsTighter, Prec
<1>. QED BY <1>3 DEF t

(* The right side binds tighter: a valley has to be in it, for all of it binds
   tighter than operator f. *)
LEMMA OwnerExact ==
    ASSUME ChainOK, NEW f \in DOMAIN operators, NEW l \in DOMAIN operators, f < l,
           NEW rhs, Spans(rhs, f + 1, l), Exact(rhs, f + 1, l), Prec(rhs.root) > Prec(f)
    PROVE  LET t == NewOperation(Operand(f), f, Operation(rhs.root), rhs.parts)
           IN  Spans(t, f, l) /\ Exact(t, f, l)
<1> DEFINE t == NewOperation(Operand(f), f, Operation(rhs.root), rhs.parts)
<1>1. /\ f \in Nat /\ l \in Nat /\ f..l \subseteq DOMAIN operators
      /\ f..l = {f} \cup ((f + 1)..l) /\ f \notin (f + 1)..l
    BY DEF ChainOK
<1>2. \A i \in f..l : Prec(i) \in Nat
    BY <1>1, PrecedenceIsNatural DEF Prec
<1>3. t.root = f /\ DOMAIN t.parts = f..l
    BY <1>1 DEF Spans, NewOperation
<1>4. Respects(t) <=> Respects(rhs)
    <2>1. f \notin DOMAIN rhs.parts
        BY <1>1 DEF Spans
    <2>2. Respects(t) <=> Respects(rhs) /\ Prec(rhs.root) > Prec(f)
        BY <2>1, RespectsOwner, Zenon
    <2>. QED BY <2>2
<1> HIDE DEF t
<1>5. Respects(rhs) => \A j \in (f + 1)..l : Prec(f) < Prec(j)
    BY <1>1, <1>2 DEF Exact, Spans
<1>6. Respects(rhs) => ~Valley(f, l)
    BY <1>1, <1>2, <1>5 DEF Exact, Valley
<1>7. Valley(f + 1, l) => Valley(f, l)
    BY <1>1 DEF Valley
<1>8. Exact(t, f, l)
    BY <1>1, <1>2, <1>3, <1>4, <1>5, <1>6, <1>7 DEF Exact
<1>. QED BY <1>1, <1>3, <1>8 DEF Spans, t

(* The chain is split at operator l, because the rest does not bind tighter than
   operator f: that respects the precedence if operator l binds no tighter than any
   in front of it. *)
LEMMA SplitExact ==
    ASSUME ChainOK, NEW f \in DOMAIN operators, NEW l \in DOMAIN operators, f < l,
           NEW rhs, Spans(rhs, f + 1, l), Exact(rhs, f + 1, l), ~(Prec(rhs.root) > Prec(f)),
           NEW lhs, Spans(lhs, f, l - 1), Exact(lhs, f, l - 1), NEW b \in Operands
    PROVE  LET t == NewOperation(Operation(lhs.root), l, b, lhs.parts)
           IN  Spans(t, f, l) /\ Exact(t, f, l)
<1> DEFINE t == NewOperation(Operation(lhs.root), l, b, lhs.parts)
<1>1. /\ f \in Nat /\ l \in Nat /\ f..l \subseteq DOMAIN operators
      /\ f..l = {l} \cup (f..(l - 1)) /\ l \notin f..(l - 1)
      /\ f..l = {f} \cup ((f + 1)..l)
    BY DEF ChainOK
<1>2. \A i \in f..l : Prec(i) \in Nat
    BY <1>1, PrecedenceIsNatural DEF Prec
<1>3. t.root = l /\ DOMAIN t.parts = f..l
    BY <1>1 DEF Spans, NewOperation
<1>4. Respects(t) <=> Respects(lhs) /\ Prec(l) <= Prec(lhs.root)
    <2>1. lhs.root \in f..l
        BY <1>1 DEF Spans
    <2>2. Prec(l) \in Nat /\ Prec(lhs.root) \in Nat
        BY <1>1, <1>2, <2>1
    <2>3. Respects(t) <=> Respects(lhs) /\ ~(Prec(l) > Prec(lhs.root))
        BY <1>1, RespectsSplit DEF Spans
    <2>. QED BY <2>2, <2>3
<1> HIDE DEF t
<1>5. Respects(t) => \A j \in f..l : Prec(l) <= Prec(j)
    BY <1>1, <1>2, <1>4 DEF Exact, Spans
<1>6. Respects(t) => ~Valley(f, l)
    <2> SUFFICES ASSUME Respects(t), Valley(f, l)
                 PROVE  FALSE
        OBVIOUS
    <2>1. PICK i \in f..l, j \in f..l, k \in f..l :
            i < j /\ j < k /\ Prec(j) <= Prec(i) /\ Prec(k) > Prec(j)
        BY DEF Valley
    <2>2. k # l
        BY <1>1, <1>2, <1>5, <2>1
    <2>3. i \in f..(l - 1) /\ j \in f..(l - 1) /\ k \in f..(l - 1)
        BY <1>1, <2>1, <2>2
    <2>4. Valley(f, l - 1)
        BY <2>1, <2>3 DEF Valley
    <2>. QED BY <1>4, <2>4 DEF Exact
<1>7. ~Valley(f, l) => Respects(t)
    <2> SUFFICES ASSUME ~Valley(f, l) PROVE Respects(t)
        OBVIOUS
    <2>1. ~Valley(f, l - 1) /\ ~Valley(f + 1, l)
        BY <1>1 DEF Valley
    <2>2. Respects(lhs) /\ Respects(rhs)
        BY <2>1 DEF Exact
    <2> DEFINE m == rhs.root
    <2>3. m \in (f + 1)..l /\ lhs.root \in f..(l - 1)
        BY DEF Spans
    <2>4. m \in f..l /\ f < m /\ lhs.root \in f..l /\ m \in Int /\ f \in f..l /\ l \in f..l
        BY <1>1, <2>3
    <2> HIDE DEF m
    <2>5. /\ Prec(m) \in Nat /\ Prec(f) \in Nat /\ Prec(l) \in Nat /\ Prec(lhs.root) \in Nat
        BY <1>2, <2>4
    <2>6. Prec(m) <= Prec(f)
        BY <2>5 DEF m
    <2>7. \A j \in (f + 1)..l : Prec(m) <= Prec(j)
        BY <2>2 DEF Exact, m
    <2>8. Prec(m) <= Prec(lhs.root)
        <3>1. lhs.root = f \/ lhs.root \in (f + 1)..l
            BY <1>1, <2>4
        <3>. QED BY <2>6, <2>7, <3>1
    <2>9. Prec(l) <= Prec(m)
        <3>1. CASE m = l
            BY <2>5, <3>1
        <3>2. CASE m # l
            <4>1. m < l
                BY <1>1, <2>3, <3>2 DEF m
            <4>2. ~(Prec(l) > Prec(m))
                BY <2>4, <2>6, <4>1 DEF Valley
            <4>. QED BY <2>5, <4>2
        <3>. QED BY <3>1, <3>2
    <2>. QED BY <1>4, <2>2, <2>5, <2>8, <2>9
<1>8. Exact(t, f, l)
    BY <1>3, <1>5, <1>6, <1>7 DEF Exact
<1>. QED BY <1>1, <1>3, <1>8 DEF Spans, t

-----------------------------------------------------------------------------
(* The places of the text from operand f to the one behind operator l.       *)
Text(f, l) == [k \in 1..2 * (l - f) + 3 |-> 2 * f - 2 + k]

LEMMA IsText ==
    ASSUME NEW s \in Seq(Int), NEW f \in Nat, NEW l \in Nat, f <= l, Len(s) = 2 * (l - f) + 3,
           \A k \in 1..Len(s) : s[k] = 2 * f - 2 + k
    PROVE  s = Text(f, l)
<1>1. Text(f, l) \in Seq(Int) /\ Len(Text(f, l)) = 2 * (l - f) + 3
    BY DEF Text
<1>2. \A k \in 1..Len(s) : s[k] = Text(f, l)[k]
    BY DEF Text
<1>. QED BY <1>1, <1>2, SeqEqual

(* Two integers before or behind a sequence of them.                         *)
Before(x, y, s) == <<x>> \o <<y>> \o s
Behind(s, x, y) == s \o <<x>> \o <<y>>

IsBefore(r, x, y, s) ==
    /\ r \in Seq(Int) /\ Len(r) = Len(s) + 2
    /\ r[1] = x /\ r[2] = y /\ \A k \in 1..Len(s) : r[k + 2] = s[k]

IsBehind(r, s, x, y) ==
    /\ r \in Seq(Int) /\ Len(r) = Len(s) + 2
    /\ r[Len(s) + 1] = x /\ r[Len(s) + 2] = y /\ \A k \in 1..Len(s) : r[k] = s[k]

LEMMA BeforeIs ==
    ASSUME NEW x \in Int, NEW y \in Int, NEW s \in Seq(Int)
    PROVE  IsBefore(Before(x, y, s), x, y, s)
BY DEF Before, IsBefore

LEMMA BehindIs ==
    ASSUME NEW x \in Int, NEW y \in Int, NEW s \in Seq(Int)
    PROVE  IsBehind(Behind(s, x, y), s, x, y)
BY DEF Behind, IsBehind

(* The integers and the sequence are what is to be put together.             *)
InFront(x, y, s, f, l) ==
    /\ x = 2 * f - 1 /\ y = 2 * f
    /\ Len(s) = 2 * (l - f) + 1 /\ \A k \in 1..Len(s) : s[k] = 2 * f + k

AtTheEnd(s, x, y, f, l) ==
    /\ x = 2 * l /\ y = 2 * (l + 1) - 1
    /\ Len(s) = 2 * (l - f) + 1 /\ \A k \in 1..Len(s) : s[k] = 2 * f - 2 + k

LEMMA BeforeText ==
    ASSUME NEW f \in Nat, NEW l \in Nat, f <= l, NEW x \in Int, NEW y \in Int, NEW s \in Seq(Int)
    PROVE  InFront(x, y, s, f, l) => Before(x, y, s) = Text(f, l)
<1>1. IsBefore(Before(x, y, s), x, y, s)
    BY BeforeIs, Zenon
<1> SUFFICES ASSUME x = 2 * f - 1, y = 2 * f, Len(s) = 2 * (l - f) + 1,
                    \A k \in 1..Len(s) : s[k] = 2 * f + k
             PROVE  Before(x, y, s) = Text(f, l)
    BY DEF InFront
<1> DEFINE t == Before(x, y, s)
           n == Len(s)
<1>2. n \in Nat /\ n + 2 = 2 * (l - f) + 3 /\ n = 2 * (l - f) + 1
    OBVIOUS
<1>3. t \in Seq(Int) /\ Len(t) = n + 2 /\ t[1] = x /\ t[2] = y /\ \A k \in 1..n : t[k + 2] = s[k]
    BY <1>1 DEF IsBefore
<1> HIDE DEF t
<1>4. ASSUME NEW k \in 1..n + 2 PROVE t[k] = 2 * f - 2 + k
    <2>1. CASE k = 1
        BY <1>3, <2>1
    <2>2. CASE k = 2
        BY <1>3, <2>2
    <2>3. CASE k # 1 /\ k # 2
        <3>1. k - 2 \in 1..n /\ k = (k - 2) + 2
            BY <1>2, <2>3
        <3>2. t[(k - 2) + 2] = s[k - 2]
            BY <1>3, <3>1
        <3>3. s[k - 2] = 2 * f + (k - 2)
            BY <3>1
        <3>. QED BY <1>2, <3>1, <3>2, <3>3
    <2>. QED BY <2>1, <2>2, <2>3
<1> HIDE DEF n
<1>5. Len(t) = 2 * (l - f) + 3 /\ \A k \in 1..Len(t) : t[k] = 2 * f - 2 + k
    BY <1>2, <1>3, <1>4
<1>6. t = Text(f, l)
    BY <1>3, <1>5, IsText, Zenon
<1>. QED BY <1>6 DEF t

LEMMA BehindText ==
    ASSUME NEW f \in Nat, NEW l \in Nat, f <= l, NEW x \in Int, NEW y \in Int, NEW s \in Seq(Int)
    PROVE  AtTheEnd(s, x, y, f, l) => Behind(s, x, y) = Text(f, l)
<1>1. IsBehind(Behind(s, x, y), s, x, y)
    BY BehindIs, Zenon
<1> SUFFICES ASSUME x = 2 * l, y = 2 * (l + 1) - 1, Len(s) = 2 * (l - f) + 1,
                    \A k \in 1..Len(s) : s[k] = 2 * f - 2 + k
             PROVE  Behind(s, x, y) = Text(f, l)
    BY DEF AtTheEnd
<1> DEFINE t == Behind(s, x, y)
           n == Len(s)
<1>2. /\ n \in Nat /\ n + 2 = 2 * (l - f) + 3
      /\ x = 2 * f - 2 + (n + 1) /\ y = 2 * f - 2 + (n + 2)
    OBVIOUS
<1>3. /\ t \in Seq(Int) /\ Len(t) = n + 2 /\ t[n + 1] = x /\ t[n + 2] = y
      /\ \A k \in 1..n : t[k] = s[k] /\ s[k] = 2 * f - 2 + k
    BY <1>1 DEF IsBehind
<1> HIDE DEF t, n
<1>4. ASSUME NEW k \in 1..n + 2 PROVE t[k] = 2 * f - 2 + k
    <2>1. k \in 1..n \/ k = n + 1 \/ k = n + 2
        BY <1>2
    <2>. QED BY <1>2, <1>3, <2>1
<1>5. Len(t) = 2 * (l - f) + 3 /\ \A k \in 1..Len(t) : t[k] = 2 * f - 2 + k
    BY <1>2, <1>3, <1>4
<1>6. t = Text(f, l)
    BY <1>3, <1>5, IsText, Zenon
<1>. QED BY <1>6 DEF t

LEMMA TextOwner ==
    ASSUME NEW f \in Nat, NEW l \in Nat, f < l
    PROVE  <<2 * f - 1>> \o <<2 * f>> \o Text(f + 1, l) = Text(f, l)
<1>1. /\ 2 * f - 1 \in Int /\ 2 * f \in Int /\ f <= l
      /\ 2 * (l - (f + 1)) + 3 = 2 * (l - f) + 1 /\ 2 * (l - f) + 1 \in Nat
      /\ \A k \in Int : 2 * (f + 1) - 2 + k = 2 * f + k /\ 2 * f + k \in Int
    OBVIOUS
<1>2. /\ Text(f + 1, l) \in Seq(Int) /\ Len(Text(f + 1, l)) = 2 * (l - f) + 1
      /\ \A k \in 1..Len(Text(f + 1, l)) : Text(f + 1, l)[k] = 2 * f + k
    BY <1>1 DEF Text
<1>3. /\ 2 * f - 1 \in Int /\ 2 * f \in Int /\ f <= l /\ Text(f + 1, l) \in Seq(Int)
    BY <1>1, <1>2
<1>4. InFront(2 * f - 1, 2 * f, Text(f + 1, l), f, l)
    BY <1>2 DEF InFront
<1>5. Before(2 * f - 1, 2 * f, Text(f + 1, l)) = Text(f, l)
    BY <1>3, <1>4, BeforeText, Zenon
<1>. QED BY <1>5 DEF Before

LEMMA TextSplit ==
    ASSUME NEW f \in Nat, NEW l \in Nat, f < l
    PROVE  Text(f, l - 1) \o <<2 * l>> \o <<2 * (l + 1) - 1>> = Text(f, l)
<1>1. /\ 2 * l \in Int /\ 2 * (l + 1) - 1 \in Int /\ f <= l
      /\ 2 * ((l - 1) - f) + 3 = 2 * (l - f) + 1 /\ 2 * (l - f) + 1 \in Nat
      /\ \A k \in Int : 2 * f - 2 + k \in Int
    OBVIOUS
<1>2. /\ Text(f, l - 1) \in Seq(Int) /\ Len(Text(f, l - 1)) = 2 * (l - f) + 1
      /\ \A k \in 1..Len(Text(f, l - 1)) : Text(f, l - 1)[k] = 2 * f - 2 + k
    BY <1>1 DEF Text
<1>3. /\ 2 * l \in Int /\ 2 * (l + 1) - 1 \in Int /\ f <= l /\ Text(f, l - 1) \in Seq(Int)
    BY <1>1, <1>2
<1>4. AtTheEnd(Text(f, l - 1), 2 * l, 2 * (l + 1) - 1, f, l)
    BY <1>2 DEF AtTheEnd
<1>5. Behind(Text(f, l - 1), 2 * l, 2 * (l + 1) - 1) = Text(f, l)
    BY <1>3, <1>4, BehindText, Zenon
<1>. QED BY <1>5 DEF Behind

LEMMA TextOne ==
    ASSUME NEW f \in Nat
    PROVE  <<2 * f - 1>> \o <<2 * f>> \o <<2 * (f + 1) - 1>> = Text(f, f)
<1> DEFINE x == 2 * f - 1
           y == 2 * f
           z == 2 * (f + 1) - 1
           t == <<x>> \o <<y>> \o <<z>>
<1>1. x \in Int /\ y \in Int /\ z \in Int /\ z = 2 * f - 2 + 3 /\ f <= f
      /\ 2 * (f - f) + 3 = 3
    OBVIOUS
<1>2. t \in Seq(Int) /\ Len(t) = 3 /\ t[1] = x /\ t[2] = y /\ t[3] = z
    <2> HIDE DEF x, y, z
    <2>. QED BY <1>1
<1> HIDE DEF z, t
<1>3. Len(t) = 2 * (f - f) + 3 /\ \A k \in 1..Len(t) : t[k] = 2 * f - 2 + k
    BY <1>1, <1>2
<1>4. t = Text(f, f)
    BY <1>1, <1>2, <1>3, IsText, Zenon
<1>. QED BY <1>4 DEF t, z

-----------------------------------------------------------------------------
(* What InOrder reads of a part and of all operations of a tree, once g has read
   the operations inside.                                                   *)
Side(e, g) == IF IsOperation(e) THEN g[e.operation] ELSE <<2 * e.operand - 1>>

Wording(t, i, g) == Side(t.parts[i].lhs, g) \o <<2 * i>> \o Side(t.parts[i].rhs, g)

Words(t, g) == \A i \in DOMAIN t.parts : g[i] = Wording(t, i, g)

Inside(e, t) == IsOperation(e) => e.operation \in DOMAIN t.parts

(* Tree t can be read and is the text of the operators from f to l. *)
Readable(t, f, l) ==
    /\ \A i \in DOMAIN t.parts : Inside(t.parts[i].lhs, t) /\ Inside(t.parts[i].rhs, t)
    /\ \E g : Words(t, g)
    /\ \A g : Words(t, g) => g[t.root] = Text(f, l)

(* To read a tree is to read every operation in it in any order that reads the
   inner ones. *)
LEMMA ReadableInOrder ==
    ASSUME NEW t, NEW f, NEW l, Readable(t, f, l)
    PROVE  InOrder(t) = Text(f, l)
<1> DEFINE D == DOMAIN t.parts
           F(g) == [i \in D |-> Wording(t, i, g)]
<1>1. PICK h : Words(t, h)
    BY DEF Readable
<1> DEFINE k == [i \in D |-> h[i]]
<1>2. \A i \in D : Wording(t, i, k) = Wording(t, i, h)
    BY DEF Readable, Inside, Wording, Side
<1>3. k = F(k)
    BY <1>1, <1>2 DEF Words
<1>4. \E g : g = F(g)
    <2> HIDE DEF k, F
    <2>. QED BY <1>3, Zenon
<1>5. \A g : g = F(g) => Words(t, g)
    BY DEF Words
<1>6. (CHOOSE g : g = F(g))[t.root] = Text(f, l)
    <2> HIDE DEF F
    <2>1. F(CHOOSE g : g = F(g)) = (CHOOSE g : g = F(g))
        BY <1>4
    <2>. QED BY <2>1, <1>5 DEF Readable
<1>7. InOrder(t) = (CHOOSE g : g = F(g))[t.root]
    BY DEF InOrder, Wording, Side
<1>. QED BY <1>6, <1>7

LEMMA OneReads ==
    ASSUME NEW f \in Nat
    PROVE  Readable(NewOperation(Operand(f), f, Operand(f + 1), <<>>), f, f)
<1> DEFINE t == NewOperation(Operand(f), f, Operand(f + 1), <<>>)
<1>1. /\ t.root = f /\ DOMAIN t.parts = {f}
      /\ t.parts[f].lhs = Operand(f) /\ t.parts[f].rhs = Operand(f + 1)
    BY DEF NewOperation
<1> HIDE DEF t
<1>2. \A g : Wording(t, f, g) = Text(f, f)
    <2>1. \A g : Wording(t, f, g) = <<2 * f - 1>> \o <<2 * f>> \o <<2 * (f + 1) - 1>>
        BY <1>1, Kinds DEF Wording, Side
    <2>. QED BY <2>1, TextOne, Zenon
<1>3. \A i \in DOMAIN t.parts : Inside(t.parts[i].lhs, t) /\ Inside(t.parts[i].rhs, t)
    BY <1>1, Kinds DEF Inside
<1>4. \E g : Words(t, g)
    <2>1. Words(t, [i \in {f} |-> Text(f, f)])
        BY <1>1, <1>2 DEF Words
    <2>. QED BY <2>1, Zenon
<1>5. \A g : Words(t, g) => g[t.root] = Text(f, f)
    BY <1>1, <1>2 DEF Words
<1>. QED BY <1>3, <1>4, <1>5 DEF Readable, t

LEMMA OwnerReads ==
    ASSUME NEW f \in Nat, NEW l \in Nat, f < l,
           NEW rhs, Spans(rhs, f + 1, l), Readable(rhs, f + 1, l)
    PROVE  Readable(NewOperation(Operand(f), f, Operation(rhs.root), rhs.parts), f, l)
<1> DEFINE t == NewOperation(Operand(f), f, Operation(rhs.root), rhs.parts)
<1>1. f \notin DOMAIN rhs.parts /\ rhs.root \in DOMAIN rhs.parts
    BY DEF Spans
<1>2. /\ t.root = f /\ DOMAIN t.parts = {f} \cup DOMAIN rhs.parts
      /\ t.parts[f].lhs = Operand(f) /\ t.parts[f].rhs = Operation(rhs.root)
      /\ \A j \in DOMAIN rhs.parts : t.parts[j] = rhs.parts[j]
    BY <1>1 DEF NewOperation
<1> HIDE DEF t
<1>3. ASSUME NEW g, Words(rhs, g) PROVE Wording(t, f, g) = Text(f, l)
    <2>1. Wording(t, f, g) = <<2 * f - 1>> \o <<2 * f>> \o g[rhs.root]
        <3>1. Side(t.parts[f].lhs, g) = <<2 * f - 1>> /\ Side(t.parts[f].rhs, g) = g[rhs.root]
            BY <1>2, Kinds DEF Side
        <3>. QED BY <3>1 DEF Wording
    <2>2. g[rhs.root] = Text(f + 1, l)
        BY <1>3 DEF Readable
    <2>. QED BY <2>1, <2>2, TextOwner
<1>4. \A g : Words(t, g) => Words(rhs, g)
    BY <1>1, <1>2 DEF Words, Wording
<1>5. \A i \in DOMAIN t.parts : Inside(t.parts[i].lhs, t) /\ Inside(t.parts[i].rhs, t)
    BY <1>1, <1>2, Kinds DEF Inside, Readable
<1>6. \E g : Words(t, g)
    <2>1. PICK h : Words(rhs, h)
        BY DEF Readable
    <2> DEFINE g == [i \in DOMAIN t.parts |-> IF i = f THEN Text(f, l) ELSE h[i]]
    <2>2. \A i \in DOMAIN rhs.parts : g[i] = h[i]
        BY <1>1, <1>2
    <2>3. \A i \in DOMAIN rhs.parts : Wording(t, i, g) = Wording(rhs, i, h)
        BY <1>1, <1>2, <2>2 DEF Wording, Side, Readable, Inside
    <2>4. g[f] = Text(f, l)
        BY <1>2
    <2> HIDE DEF g
    <2>5. Words(rhs, g)
        <3>1. \A i \in DOMAIN rhs.parts : Wording(rhs, i, g) = Wording(t, i, g)
            BY <1>2 DEF Wording
        <3>. QED BY <2>1, <2>2, <2>3, <3>1 DEF Words
    <2>6. Words(t, g)
        BY <1>2, <1>3, <2>1, <2>2, <2>3, <2>4, <2>5 DEF Words
    <2>. QED BY <2>6, Zenon
<1>7. \A g : Words(t, g) => g[t.root] = Text(f, l)
    BY <1>2, <1>3, <1>4 DEF Words
<1>8. Readable(t, f, l)
    BY <1>5, <1>6, <1>7 DEF Readable
<1>. QED BY <1>8 DEF t

LEMMA SplitReads ==
    ASSUME NEW f \in Nat, NEW l \in Nat, f < l,
           NEW lhs, Spans(lhs, f, l - 1), Readable(lhs, f, l - 1)
    PROVE  Readable(NewOperation(Operation(lhs.root), l, Operand(l + 1), lhs.parts), f, l)
<1> DEFINE t == NewOperation(Operation(lhs.root), l, Operand(l + 1), lhs.parts)
<1>1. l \notin DOMAIN lhs.parts /\ lhs.root \in DOMAIN lhs.parts
    BY DEF Spans
<1>2. /\ t.root = l /\ DOMAIN t.parts = {l} \cup DOMAIN lhs.parts
      /\ t.parts[l].lhs = Operation(lhs.root) /\ t.parts[l].rhs = Operand(l + 1)
      /\ \A j \in DOMAIN lhs.parts : t.parts[j] = lhs.parts[j]
    BY <1>1 DEF NewOperation
<1> HIDE DEF t
<1>3. ASSUME NEW g, Words(lhs, g) PROVE Wording(t, l, g) = Text(f, l)
    <2>1. Wording(t, l, g) = g[lhs.root] \o <<2 * l>> \o <<2 * (l + 1) - 1>>
        <3>1. Side(t.parts[l].lhs, g) = g[lhs.root] /\ Side(t.parts[l].rhs, g) = <<2 * (l + 1) - 1>>
            BY <1>2, Kinds DEF Side
        <3>. QED BY <3>1 DEF Wording
    <2>2. g[lhs.root] = Text(f, l - 1)
        BY <1>3 DEF Readable
    <2>. QED BY <2>1, <2>2, TextSplit
<1>4. \A g : Words(t, g) => Words(lhs, g)
    BY <1>1, <1>2 DEF Words, Wording
<1>5. \A i \in DOMAIN t.parts : Inside(t.parts[i].lhs, t) /\ Inside(t.parts[i].rhs, t)
    BY <1>1, <1>2, Kinds DEF Inside, Readable
<1>6. \E g : Words(t, g)
    <2>1. PICK h : Words(lhs, h)
        BY DEF Readable
    <2> DEFINE g == [i \in DOMAIN t.parts |-> IF i = l THEN Text(f, l) ELSE h[i]]
    <2>2. \A i \in DOMAIN lhs.parts : g[i] = h[i]
        BY <1>1, <1>2
    <2>3. \A i \in DOMAIN lhs.parts : Wording(t, i, g) = Wording(lhs, i, h)
        BY <1>1, <1>2, <2>2 DEF Wording, Side, Readable, Inside
    <2>4. g[l] = Text(f, l)
        BY <1>2
    <2> HIDE DEF g
    <2>5. Words(lhs, g)
        <3>1. \A i \in DOMAIN lhs.parts : Wording(lhs, i, g) = Wording(t, i, g)
            BY <1>2 DEF Wording
        <3>. QED BY <2>1, <2>2, <2>3, <3>1 DEF Words
    <2>6. Words(t, g)
        BY <1>2, <1>3, <2>1, <2>2, <2>3, <2>4, <2>5 DEF Words
    <2>. QED BY <2>6, Zenon
<1>7. \A g : Words(t, g) => g[t.root] = Text(f, l)
    BY <1>2, <1>3, <1>4 DEF Words
<1>8. Readable(t, f, l)
    BY <1>5, <1>6, <1>7 DEF Readable
<1>. QED BY <1>8 DEF t

-----------------------------------------------------------------------------
(* A chain with the operand behind its last operator.                        *)
Followed(f, l) == <<f, l, Operand(l + 1)>>

Sound(t, f, l) == Spans(t, f, l) /\ Exact(t, f, l) /\ Readable(t, f, l)

(* One turn makes a sound tree from sound trees of the shorter chains. *)
LEMMA TurnSound ==
    ASSUME ChainOK, NEW f \in DOMAIN operators, NEW l \in DOMAIN operators, f <= l,
           f < l => /\ Sound(Parsed[Followed(f + 1, l)], f + 1, l)
                    /\ Sound(Parsed[Followed(f, l - 1)], f, l - 1)
    PROVE  Sound(Parsed[Followed(f, l)], f, l)
<1> DEFINE t == Parsed[Followed(f, l)]
           rhs == Parsed[Followed(f + 1, l)]
           lhs == Parsed[Followed(f, l - 1)]
<1>1. f \in Nat /\ l \in Nat /\ DOMAIN operators = 1..Len(operators) /\ Len(operators) \in Nat
    BY DEF ChainOK
<1>2. Operand(l + 1) \in Operands
    BY <1>1 DEF Operands
<1>3. Followed(f, l) \in Chains
    BY <1>1, <1>2 DEF Followed, Chains, Operands
<1>4. t = Turn(Parsed, Followed(f, l))
    BY <1>3, ParsedTurn
<1>5. CASE f = l
    <2>1. t = NewOperation(Operand(f), f, Operand(f + 1), <<>>)
        BY <1>4, <1>5 DEF Turn, Followed
    <2> HIDE DEF t
    <2>2. t.root = f /\ DOMAIN t.parts = {f}
          /\ t.parts[f].lhs = Operand(f) /\ t.parts[f].rhs = Operand(f + 1)
        BY <2>1 DEF NewOperation
    <2>3. f..l = {f}
        BY <1>1, <1>5
    <2>4. ~Valley(f, l)
        BY <2>3 DEF Valley
    <2>5. Respects(t)
        BY <2>2, Kinds DEF Respects
    <2>6. Prec(f) <= Prec(f)
        BY PrecedenceIsNatural DEF Prec
    <2>7. Readable(t, f, l)
        BY <1>1, <1>5, <2>1, OneReads
    <2>8. Spans(t, f, l) /\ Exact(t, f, l)
        BY <2>2, <2>3, <2>4, <2>5, <2>6 DEF Spans, Exact
    <2>. QED BY <2>7, <2>8 DEF Sound, t
<1>6. CASE f # l
    <2>1. f < l /\ (l - 1) + 1 = l
        BY <1>1, <1>6
    <2>2. Sound(rhs, f + 1, l) /\ Sound(lhs, f, l - 1)
        BY <2>1
    <2>3. Followed(f, l - 1) = <<f, l - 1, LeftOperand(l)>>
        BY <2>1 DEF Followed, LeftOperand
    <2>4. /\ OwnsRest(operators[f], rhs) =>
                t = NewOperation(Operand(f), f, Operation(rhs.root), rhs.parts)
          /\ ~OwnsRest(operators[f], rhs) =>
                t = NewOperation(Operation(lhs.root), l, Operand(l + 1), lhs.parts)
        BY <1>4, <1>6, <2>3 DEF Turn, Followed
    <2> HIDE DEF t, rhs, lhs
    <2>5. OwnsRest(operators[f], rhs) <=> Prec(rhs.root) > Prec(f)
        BY DEF OwnsRest, BindsTighter, Prec
    <2>6. CASE OwnsRest(operators[f], rhs)
        <3>1. Spans(t, f, l) /\ Exact(t, f, l)
            BY <2>1, <2>2, <2>4, <2>5, <2>6, OwnerExact DEF Sound
        <3>2. Readable(t, f, l)
            BY <1>1, <2>1, <2>2, <2>4, <2>6, OwnerReads DEF Sound
        <3>. QED BY <3>1, <3>2 DEF Sound, t
    <2>7. CASE ~OwnsRest(operators[f], rhs)
        <3>1. Spans(t, f, l) /\ Exact(t, f, l)
            BY <1>2, <2>1, <2>2, <2>4, <2>5, <2>7, SplitExact DEF Sound
        <3>2. Readable(t, f, l)
            BY <1>1, <2>1, <2>2, <2>4, <2>7, SplitReads DEF Sound
        <3>. QED BY <3>1, <3>2 DEF Sound, t
    <2>. QED BY <2>6, <2>7
<1>. QED BY <1>5, <1>6

(* Every chain of operators with their operands becomes a sound tree: by
   induction on its length. *)
LEMMA ParsedSound ==
    ASSUME ChainOK
    PROVE  Sound(parse_op_precedence, 1, Len(operators))
<1> DEFINE n == Len(operators)
           Shorter(d) == \A f, l \in 1..n : f <= l /\ l - f <= d => Sound(Parsed[Followed(f, l)], f, l)
           G == {d \in Nat : Shorter(d)}
<1>1. n \in Nat /\ n >= 1 /\ DOMAIN operators = 1..n
    BY DEF ChainOK
<1>2. 0 \in G
    <2> SUFFICES ASSUME NEW f \in 1..n, NEW l \in 1..n, f <= l, l - f <= 0
                 PROVE  Sound(Parsed[Followed(f, l)], f, l)
        OBVIOUS
    <2>1. ~(f < l)
        BY <1>1
    <2>. QED BY <1>1, <2>1, TurnSound
<1>3. ASSUME NEW d \in Nat, d \in G PROVE d + 1 \in G
    <2> SUFFICES ASSUME NEW f \in 1..n, NEW l \in 1..n, f <= l, l - f <= d + 1
                 PROVE  Sound(Parsed[Followed(f, l)], f, l)
        OBVIOUS
    <2>1. Shorter(d)
        BY <1>3
    <2>2. f < l => /\ f + 1 \in 1..n /\ f + 1 <= l /\ l - (f + 1) <= d
                   /\ l - 1 \in 1..n /\ f <= l - 1 /\ (l - 1) - f <= d
        BY <1>1
    <2>3. f < l => /\ Sound(Parsed[Followed(f + 1, l)], f + 1, l)
                   /\ Sound(Parsed[Followed(f, l - 1)], f, l - 1)
        BY <2>1, <2>2
    <2>. QED BY <1>1, <2>3, TurnSound
<1>4. n \in G
    <2> HIDE DEF G
    <2>. QED BY <1>1, <1>2, <1>3, SetInduction
<1>5. Sound(Parsed[Followed(1, n)], 1, n)
    BY <1>1, <1>4
<1>. QED BY <1>5 DEF parse_op_precedence, Followed

-----------------------------------------------------------------------------
LEMMA ChainOKCorrect == ChainSpec => []ChainOK
<1>1. ChainInit => ChainOK
    <2> SUFFICES ASSUME ChainInit PROVE ChainOK
        OBVIOUS
    <2>1. PICK op \in DOMAIN precedence[family] : operators = <<op>>
        BY DEF ChainInit
    <2> DEFINE D == DOMAIN precedence[family]
    <2>2. op \in D
        OBVIOUS
    <2> HIDE DEF D
    <2>3. <<op>> \in Seq(D) /\ <<op>> # <<>>
        BY <2>2
    <2>. QED BY <2>1, <2>3 DEF ChainOK, ChainInit, D
<1>2. ChainOK /\ [ChainNext]_chainVars => ChainOK'
    <2> SUFFICES ASSUME ChainOK, [ChainNext]_chainVars PROVE ChainOK'
        OBVIOUS
    <2>1. CASE ParseOperator
        <3>1. PICK op \in DOMAIN precedence[family] : operators' = Append(operators, op)
            BY <2>1 DEF ParseOperator
        <3>. QED BY <2>1, <3>1 DEF ParseOperator, ChainOK, precedence
    <2>2. CASE UNCHANGED chainVars
        BY <2>2 DEF chainVars, ChainOK, precedence
    <2>. QED BY <2>1, <2>2 DEF ChainNext
<1>. QED BY <1>1, <1>2, PTL DEF ChainSpec

(* parse_op_precedence keeps the operands and operators of a chain of any length,
   each once and in their order, whatever the kind of expression: it may be split
   anywhere, and what the split hands to both sides is used once. *)
THEOREM ChainKeptCorrect == ChainSpec => []ChainKept
<1>1. ChainOK => ChainKept
    <2> SUFFICES ASSUME ChainOK PROVE ChainKept
        OBVIOUS
    <2> DEFINE n == Len(operators)
    <2>1. n \in Nat /\ 2 * (n - 1) + 3 = 2 * n + 1 /\ \A k \in Nat : 2 * 1 - 2 + k = k
        BY DEF ChainOK
    <2>2. InOrder(parse_op_precedence) = Text(1, n)
        BY ParsedSound, ReadableInOrder DEF Sound
    <2>3. Text(1, n) = [k \in 1..2 * n + 1 |-> k]
        BY <2>1 DEF Text
    <2>. QED BY <2>2, <2>3 DEF ChainKept
<1>. QED BY <1>1, ChainOKCorrect, PTL

(* The tree of a chain of any length respects the precedence of its operators, and
   their association to the left, exactly if the chain has no valley. *)
THEOREM RespectedCorrect == ChainSpec => []RespectedWithoutValley
<1>1. ChainOK => RespectedWithoutValley
    <2> SUFFICES ASSUME ChainOK PROVE RespectedWithoutValley
        OBVIOUS
    <2>1. DOMAIN operators = 1..Len(operators)
        BY DEF ChainOK
    <2>2. Respects(parse_op_precedence) <=> ~Valley(1, Len(operators))
        BY ParsedSound DEF Sound, Exact
    <2>3. \A i \in DOMAIN operators : Prec(i) \in Nat
        BY PrecedenceIsNatural DEF Prec
    <2>4. Valley(1, Len(operators)) <=> HasValley
        <3>1. \A i, j \in DOMAIN operators :
                BindsTighter(operators[j], operators[i]) <=> ~(Prec(j) <= Prec(i))
            BY <2>3 DEF BindsTighter, Prec
        <3>2. \A i, j \in DOMAIN operators : Prec(j) > Prec(i) <=> ~(Prec(j) <= Prec(i))
            BY <2>3
        <3>. QED BY <2>1, <3>1, <3>2 DEF Valley, HasValley
    <2>. QED BY <2>2, <2>4 DEF RespectedWithoutValley
<1>. QED BY <1>1, ChainOKCorrect, PTL

-----------------------------------------------------------------------------
(* Components.                                                             *)
CONSTANT Name       \* the names that can be written

(* What the grammar makes of the entries of sections.                        *)
StateEntry == [name : Name, formula : SUBSET Name]
TransitionEntry ==
    [from : Name, to : Name, exog : BOOLEAN, formula : SUBSET Name, resets : SUBSET Name]

Sections == {"states", "clocks", "transitions"}
EntriesOf(section) ==
    CASE section = "states" -> StateEntry
      [] section = "clocks" -> Name
      [] section = "transitions" -> TransitionEntry

Grammatical ==
    /\ "error" \in Name
    /\ \A section \in Sections : Lists[section] \subseteq Seq(EntriesOf(section))

(* Components that are built.                                                *)
Ident ==
    [kind : {"clock"}, name : Name] \cup [kind : {"state"}, name : Name, formula : SUBSET Name]
Identifiers == UNION {[names -> Ident] : names \in SUBSET Name}
BuiltTransition ==
    [x : {"transition", "exog_transition"}, from : Ident, to : Ident,
     formula : SUBSET Name, resets : SUBSET Name]
Built ==
    [identifiers : Identifiers, transitions : Seq(BuiltTransition),
     current_state : Ident, expected_state : Ident, fails : BOOLEAN]

LEMMA IdentifiersAre ==
    ASSUME NEW f
    PROVE  /\ f \in Identifiers => DOMAIN f \subseteq Name /\ \A n \in DOMAIN f : f[n] \in Ident
           /\ /\ f = [n \in DOMAIN f |-> f[n]] /\ DOMAIN f \subseteq Name
              /\ \A n \in DOMAIN f : f[n] \in Ident
              => f \in Identifiers
<1>1. ASSUME f \in Identifiers PROVE DOMAIN f \subseteq Name /\ \A n \in DOMAIN f : f[n] \in Ident
    <2>1. PICK names \in SUBSET Name : f \in [names -> Ident]
        BY <1>1 DEF Identifiers
    <2>. QED BY <2>1
<1>2. ASSUME f = [n \in DOMAIN f |-> f[n]], DOMAIN f \subseteq Name, \A n \in DOMAIN f : f[n] \in Ident
      PROVE  f \in Identifiers
    <2>1. f \in [DOMAIN f -> Ident]
        BY <1>2
    <2>. QED BY <1>2, <2>1 DEF Identifiers
<1>. QED BY <1>1, <1>2

LEMMA AssignedTyped ==
    ASSUME NEW map \in Identifiers, NEW key \in Name, NEW value \in Ident
    PROVE  Stored(map, key, value) \in Identifiers
<1> DEFINE m == Stored(map, key, value)
<1>1. DOMAIN m = DOMAIN map \cup {key} /\ m[key] = value
      /\ (\A k \in DOMAIN map : k # key => m[k] = map[k]) /\ m = [k \in DOMAIN m |-> m[k]]
    BY DEF Stored
<1> HIDE DEF m
<1>2. DOMAIN map \subseteq Name /\ \A k \in DOMAIN map : map[k] \in Ident
    BY IdentifiersAre
<1>3. DOMAIN m \subseteq Name /\ \A k \in DOMAIN m : m[k] \in Ident
    BY <1>1, <1>2
<1>4. m \in Identifiers
    BY <1>1, <1>3, IdentifiersAre
<1>. QED BY <1>4 DEF m

LEMMA IdentTyped ==
    /\ \A n \in Name : Clock(n) \in Ident /\ Clock(n).kind = "clock" /\ Clock(n).name = n
    /\ \A n \in Name, f \in SUBSET Name :
            State(n, f) \in Ident /\ State(n, f).kind = "state" /\ State(n, f).name = n
                /\ State(n, f).formula = f
    /\ Grammatical => error_state \in Ident
    /\ error_state.kind = "state" /\ error_state.name = "error"
    /\ \A i \in Ident : i.name \in Name /\ i.kind \in {"clock", "state"}
    /\ \A i \in Ident : i.kind = "clock" => i = Clock(i.name)
<1>1. \A n \in Name : Clock(n) \in Ident /\ Clock(n).kind = "clock" /\ Clock(n).name = n
    BY DEF Ident, Clock
<1>2. \A n \in Name, f \in SUBSET Name :
            State(n, f) \in Ident /\ State(n, f).kind = "state" /\ State(n, f).name = n
                /\ State(n, f).formula = f
    BY DEF Ident, State
<1>3. {} \in SUBSET Name
    OBVIOUS
<1>4. /\ Grammatical => error_state \in Ident
      /\ error_state.kind = "state" /\ error_state.name = "error"
    BY <1>3 DEF error_state, State, Ident, Grammatical
<1>5. \A i \in Ident : i.name \in Name /\ i.kind \in {"clock", "state"}
    BY DEF Ident
<1>6. \A i \in Ident : i.kind = "clock" => i = Clock(i.name)
    BY DEF Ident, Clock
<1>. QED BY <1>1, <1>2, <1>4, <1>5, <1>6

LEMMA FailedTyped == \A c \in Built : Failed(c) \in Built /\ Failed(c).fails
BY DEF Failed, Built

LEMMA RegisterTyped ==
    ASSUME NEW c \in Built, NEW i \in Ident
    PROVE  register_identifier(c, i) \in Built
<1>1. i.name \in Name /\ c.identifiers \in Identifiers
    BY IdentTyped DEF Built
<1>2. Stored(c.identifiers, i.name, i) \in Identifiers
    BY <1>1, AssignedTyped
<1>. QED BY <1>2, FailedTyped DEF register_identifier, Built

LEMMA AddTyped ==
    ASSUME NEW section \in Sections, NEW c \in Built, NEW e \in EntriesOf(section)
    PROVE  add(section, c, e) \in Built
<1>1. CASE section = "states"
    <2>1. e.name \in Name /\ e.formula \in SUBSET Name
        BY <1>1 DEF EntriesOf, StateEntry
    <2> DEFINE s == State(e.name, e.formula)
    <2>2. s \in Ident
        BY <2>1, IdentTyped
    <2> HIDE DEF s
    <2>3. register_identifier(c, s) \in Built
        BY <2>2, RegisterTyped
    <2>4. \A d \in Built : set_current_state(d, s) \in Built
        BY <2>2 DEF set_current_state, Built
    <2>5. add_state(c, s) \in Built
        BY <2>3, <2>4, FailedTyped DEF add_state
    <2>. QED BY <1>1, <2>5 DEF add, s
<1>2. CASE section = "clocks"
    <2>1. Clock(e) \in Ident
        BY <1>2, IdentTyped DEF EntriesOf
    <2>. QED BY <1>2, <2>1, RegisterTyped DEF add, add_clock
<1>3. CASE section = "transitions"
    <2>1. e.formula \in SUBSET Name /\ e.resets \in SUBSET Name
        BY <1>3 DEF EntriesOf, TransitionEntry
    <2>2. \A f, g \in Ident :
            /\ Transition(f, g, e.formula, e.resets) \in BuiltTransition
            /\ ExogTransition(f, g, e.formula, e.resets) \in BuiltTransition
        BY <2>1 DEF Transition, ExogTransition, BuiltTransition
    <2>3. \A name : lookup(c, "state", name) \subseteq Ident
        BY IdentifiersAre DEF lookup, Built
    <2>4. \A t \in BuiltTransition : [c EXCEPT !.transitions = Append(@, t)] \in Built
        BY DEF Built
    <2>5. add_transition(c, e) \in Built
        BY <2>2, <2>3, <2>4, FailedTyped DEF add_transition
    <2>. QED BY <1>3, <2>5 DEF add
<1>. QED BY <1>1, <1>2, <1>3 DEF Sections

-----------------------------------------------------------------------------
(* Component c is what is to be made of the entries of its sections so far.  *)
NamesUnique(c) == \A n \in DOMAIN c.identifiers : c.identifiers[n].name = n

StateOf(e) == State(e.name, e.formula)

TransitionAsWritten(c, b, t) ==
    /\ {b.from, b.to} \subseteq states(c)
    /\ \A n \in b.resets : Clock(n) \in clocks(c)
    /\ b.x = "exog_transition" <=> t.exog

AsWritten(c, entries) ==
    /\ NamesUnique(c)
    /\ states(c) = {error_state} \cup {StateOf(e) : e \in Range(entries.states)}
    /\ clocks(c) = {Clock(n) : n \in Range(entries.clocks)}
    /\ IsFiniteSet(states(c)) /\ Cardinality(states(c)) = Len(entries.states) + 1
    /\ c.current_state = IF entries.states = <<>> THEN error_state ELSE StateOf(entries.states[1])
    /\ Len(c.transitions) = Len(entries.transitions)
    /\ \A i \in 1..Len(entries.transitions) :
            TransitionAsWritten(c, c.transitions[i], entries.transitions[i])

ShadowsIn(entries) ==
    Range(entries.clocks) \cap ({e.name : e \in Range(entries.states)} \cup {"error"}) # {}

Faithful(c, entries) == ~c.fails /\ ~ShadowsIn(entries) => AsWritten(c, entries)

AllEntries == [states : Seq(StateEntry), clocks : Seq(Name), transitions : Seq(TransitionEntry)]

LEMMA RangeAppend ==
    ASSUME NEW S, NEW s \in Seq(S), NEW e \in S
    PROVE  Range(Append(s, e)) = Range(s) \cup {e}
<1>1. /\ DOMAIN Append(s, e) = 1..Len(s) + 1 /\ DOMAIN s = 1..Len(s) /\ Len(s) \in Nat
      /\ Append(s, e)[Len(s) + 1] = e /\ \A i \in 1..Len(s) : Append(s, e)[i] = s[i]
    OBVIOUS
<1>2. 1..Len(s) + 1 = (1..Len(s)) \cup {Len(s) + 1}
    BY <1>1
<1>. QED BY <1>1, <1>2 DEF Range

(* A name that is new: the identifier is added to the others. *)
LEMMA Registered ==
    ASSUME NEW c \in Built, NamesUnique(c), NEW i \in Ident, i.name \notin DOMAIN c.identifiers,
           NEW r, r = register_identifier(c, i)
    PROVE  /\ r = [c EXCEPT !.identifiers = r.identifiers]
           /\ NamesUnique(r)
           /\ Range(r.identifiers) = Range(c.identifiers) \cup {i}
           /\ i \notin Range(c.identifiers)
<1> DEFINE m == c.identifiers
           a == Stored(m, i.name, i)
<1>1. lookup(c, i.kind, i.name) = {}
    BY DEF lookup
<1>2. r = [c EXCEPT !.identifiers = a]
    BY <1>1 DEF register_identifier
<1>3. r.identifiers = a
    BY <1>2 DEF Built
<1>4. DOMAIN a = DOMAIN m \cup {i.name} /\ a[i.name] = i /\ \A k \in DOMAIN m : a[k] = m[k]
    BY DEF Stored
<1> HIDE DEF a
<1>5. NamesUnique(r)
    BY <1>3, <1>4 DEF NamesUnique
<1>6. Range(a) = Range(m) \cup {i}
    BY <1>4 DEF Range
<1>7. i \notin Range(m)
    BY DEF NamesUnique, Range
<1>. QED BY <1>2, <1>3, <1>5, <1>6, <1>7

LEMMA StateFaithful ==
    ASSUME Grammatical, NEW c \in Built, ~c.fails, NEW entries \in AllEntries, Faithful(c, entries),
           NEW e \in StateEntry
    PROVE  Faithful(add_state(c, StateOf(e)), [entries EXCEPT !.states = Append(@, e)])
<1> DEFINE ss == entries.states
           new == [entries EXCEPT !.states = Append(@, e)]
           s == StateOf(e)
           added == register_identifier(c, s)
           r == add_state(c, s)
<1>1. /\ ss \in Seq(StateEntry) /\ Len(ss) \in Nat
      /\ new.states = Append(ss, e) /\ new.clocks = entries.clocks
      /\ new.transitions = entries.transitions
      /\ Range(new.states) = Range(ss) \cup {e}
    BY RangeAppend DEF AllEntries
<1>2. s \in Ident /\ s.kind = "state" /\ s.name = e.name
    BY IdentTyped DEF StateOf, StateEntry
<1> HIDE DEF new, s
<1> SUFFICES ASSUME ~r.fails, ~ShadowsIn(new) PROVE AsWritten(r, new)
    BY DEF Faithful, new, s
<1>3. AsWritten(c, entries)
    <2>1. ~ShadowsIn(entries)
        BY <1>1 DEF ShadowsIn
    <2>. QED BY <2>1 DEF Faithful
<1>4. e.name \notin DOMAIN c.identifiers
    <2> SUFFICES ASSUME e.name \in DOMAIN c.identifiers PROVE FALSE
        OBVIOUS
    <2> DEFINE i == c.identifiers[e.name]
    <2>1. i \in Range(c.identifiers) /\ i.name = e.name /\ i \in Ident
        BY <1>3, IdentifiersAre DEF AsWritten, NamesUnique, Range, Built
    <2>2. CASE i.kind = "clock"
        <3>1. i \in clocks(c)
            BY <2>1, <2>2 DEF clocks
        <3>2. PICK n \in Range(entries.clocks) : i = Clock(n)
            BY <1>3, <3>1 DEF AsWritten
        <3>3. n = e.name
            BY <2>1, <3>2 DEF Clock
        <3>. QED BY <1>1, <3>2, <3>3 DEF ShadowsIn
    <2>3. CASE i.kind = "state"
        <3>1. i \in lookup(c, s.kind, s.name)
            BY <1>2, <2>3 DEF lookup
        <3>2. added = Failed(c)
            BY <3>1 DEF register_identifier
        <3>3. added.fails
            BY <3>2, FailedTyped
        <3>. QED BY <3>3, FailedTyped DEF add_state
    <2>. QED BY <2>1, <2>2, <2>3, IdentTyped
<1>5. /\ added = [c EXCEPT !.identifiers = added.identifiers]
      /\ NamesUnique(added)
      /\ Range(added.identifiers) = Range(c.identifiers) \cup {s}
      /\ s \notin Range(c.identifiers)
    <2>1. NamesUnique(c)
        BY <1>3 DEF AsWritten
    <2> HIDE DEF added
    <2>2. added = register_identifier(c, s)
        BY DEF added
    <2>. QED BY <1>2, <1>4, <2>1, <2>2, Registered
<1>6. r = IF Cardinality(states(added)) = 2 THEN set_current_state(added, s) ELSE added
    <2>1. ~added.fails
        BY <1>5 DEF Built
    <2>2. Resolves(c, s.formula)
        BY FailedTyped DEF add_state
    <2>. QED BY <2>1, <2>2 DEF add_state
<1> HIDE DEF added, r
<1>7. states(added) = states(c) \cup {s} /\ s \notin states(c) /\ clocks(added) = clocks(c)
    BY <1>2, <1>5 DEF states, clocks
<1>8. IsFiniteSet(states(added)) /\ Cardinality(states(added)) = Len(ss) + 2
    <2>1. IsFiniteSet(states(c)) /\ Cardinality(states(c)) = Len(ss) + 1
        BY <1>3 DEF AsWritten
    <2> HIDE DEF ss
    <2>2. /\ IsFiniteSet(states(c) \cup {s})
          /\ Cardinality(states(c) \cup {s}) = Cardinality(states(c)) + 1
        BY <1>7, <2>1, FS_AddElement
    <2>. QED BY <1>1, <1>7, <2>1, <2>2
<1>9. /\ r.identifiers = added.identifiers /\ r.transitions = c.transitions
      /\ r.current_state = IF Len(ss) = 0 THEN s ELSE c.current_state
    <2>1. Cardinality(states(added)) = 2 <=> Len(ss) = 0
        BY <1>1, <1>8
    <2>2. /\ added.transitions = c.transitions /\ added.current_state = c.current_state
          /\ DOMAIN added = DOMAIN c
        BY <1>5 DEF Built
    <2>3. LET d == set_current_state(added, s)
          IN  d.identifiers = added.identifiers /\ d.transitions = added.transitions /\ d.current_state = s
        BY <1>5 DEF set_current_state, Built
    <2>. QED BY <1>6, <2>1, <2>2, <2>3
<1>10. states(r) = states(c) \cup {s} /\ clocks(r) = clocks(c) /\ NamesUnique(r)
    BY <1>5, <1>7, <1>9 DEF states, clocks, NamesUnique
<1>11. states(r) = {error_state} \cup {StateOf(x) : x \in Range(new.states)}
    BY <1>1, <1>3, <1>10 DEF AsWritten, s
<1>12. IsFiniteSet(states(r)) /\ Cardinality(states(r)) = Len(new.states) + 1
    BY <1>1, <1>7, <1>8, <1>10
<1>13. r.current_state = StateOf(new.states[1]) /\ new.states # <<>>
    <2>1. Len(new.states) = Len(ss) + 1 /\ new.states[Len(ss) + 1] = e
          /\ \A i \in 1..Len(ss) : new.states[i] = ss[i]
        BY <1>1
    <2>2. CASE Len(ss) = 0
        <3>1. new.states[1] = e
            BY <2>1, <2>2
        <3>. QED BY <1>9, <2>1, <2>2, <3>1 DEF s
    <2>3. CASE Len(ss) # 0
        <3>1. c.current_state = StateOf(ss[1])
            BY <1>1, <1>3, <2>3 DEF AsWritten
        <3>2. 1 \in 1..Len(ss)
            BY <1>1, <2>3
        <3>. QED BY <1>1, <1>9, <2>1, <2>3, <3>1, <3>2
    <2>. QED BY <2>2, <2>3
<1>14. \A i \in 1..Len(new.transitions) : TransitionAsWritten(r, r.transitions[i], new.transitions[i])
    BY <1>1, <1>3, <1>9, <1>10 DEF AsWritten, TransitionAsWritten
<1>. QED BY <1>1, <1>3, <1>9, <1>10, <1>11, <1>12, <1>13, <1>14 DEF AsWritten

LEMMA ClockFaithful ==
    ASSUME Grammatical, NEW c \in Built, ~c.fails, NEW entries \in AllEntries, Faithful(c, entries),
           NEW e \in Name
    PROVE  Faithful(add_clock(c, e), [entries EXCEPT !.clocks = Append(@, e)])
<1> DEFINE new == [entries EXCEPT !.clocks = Append(@, e)]
           k == Clock(e)
           r == register_identifier(c, k)
<1>1. /\ new.clocks = Append(entries.clocks, e) /\ new.states = entries.states
      /\ new.transitions = entries.transitions
      /\ Range(new.clocks) = Range(entries.clocks) \cup {e}
    BY RangeAppend DEF AllEntries
<1>2. k \in Ident /\ k.kind = "clock" /\ k.name = e
    BY IdentTyped
<1> HIDE DEF new
<1> SUFFICES ASSUME ~r.fails, ~ShadowsIn(new) PROVE AsWritten(r, new)
    BY DEF Faithful, new, add_clock
<1> HIDE DEF k
<1>3. AsWritten(c, entries)
    <2>1. ~ShadowsIn(entries)
        BY <1>1 DEF ShadowsIn
    <2>. QED BY <2>1 DEF Faithful
<1>4. e \notin DOMAIN c.identifiers
    <2> SUFFICES ASSUME e \in DOMAIN c.identifiers PROVE FALSE
        OBVIOUS
    <2> DEFINE i == c.identifiers[e]
    <2>1. i \in Range(c.identifiers) /\ i.name = e /\ i \in Ident
        BY <1>3, IdentifiersAre DEF AsWritten, NamesUnique, Range, Built
    <2>2. CASE i.kind = "state"
        <3>1. i \in states(c)
            BY <2>1, <2>2 DEF states
        <3>2. e \in {x.name : x \in Range(entries.states)} \cup {"error"}
            BY <1>3, <2>1, <3>1, IdentTyped DEF AsWritten, StateOf, State
        <3>. QED BY <1>1, <3>2 DEF ShadowsIn
    <2>3. CASE i.kind = "clock"
        <3>1. i \in lookup(c, k.kind, k.name)
            BY <1>2, <2>3 DEF lookup
        <3>. QED BY <3>1, FailedTyped DEF register_identifier
    <2>. QED BY <2>1, <2>2, <2>3, IdentTyped
<1>5. /\ r = [c EXCEPT !.identifiers = r.identifiers]
      /\ NamesUnique(r)
      /\ Range(r.identifiers) = Range(c.identifiers) \cup {k}
      /\ k \notin Range(c.identifiers)
    <2>1. NamesUnique(c)
        BY <1>3 DEF AsWritten
    <2> HIDE DEF r
    <2>2. r = register_identifier(c, k)
        BY DEF r
    <2>. QED BY <1>2, <1>4, <2>1, <2>2, Registered
<1> HIDE DEF r
<1>6. clocks(r) = clocks(c) \cup {k} /\ states(r) = states(c)
    BY <1>2, <1>5 DEF states, clocks
<1>7. r.transitions = c.transitions /\ r.current_state = c.current_state
    BY <1>5 DEF Built
<1>8. clocks(r) = {Clock(x) : x \in Range(new.clocks)}
    BY <1>1, <1>3, <1>6 DEF AsWritten, k
<1>9. \A i \in 1..Len(new.transitions) : TransitionAsWritten(r, r.transitions[i], new.transitions[i])
    BY <1>1, <1>3, <1>6, <1>7 DEF AsWritten, TransitionAsWritten
<1>. QED BY <1>1, <1>3, <1>5, <1>6, <1>7, <1>8, <1>9 DEF AsWritten

LEMMA TransitionFaithful ==
    ASSUME Grammatical, NEW c \in Built, ~c.fails, NEW entries \in AllEntries, Faithful(c, entries),
           NEW e \in TransitionEntry
    PROVE  Faithful(add_transition(c, e), [entries EXCEPT !.transitions = Append(@, e)])
<1> DEFINE ts == entries.transitions
           new == [entries EXCEPT !.transitions = Append(@, e)]
           r == add_transition(c, e)
           Made(f, g) == IF e.exog THEN ExogTransition(f, g, e.formula, e.resets)
                         ELSE Transition(f, g, e.formula, e.resets)
           ends == {<<f, g>> : f \in lookup(c, "state", e.from), g \in lookup(c, "state", e.to)}
           p == CHOOSE p \in ends : TRUE
           b == Made(p[1], p[2])
<1>1. /\ new.states = entries.states /\ new.clocks = entries.clocks
      /\ new.transitions = Append(ts, e) /\ ts \in Seq(TransitionEntry) /\ Len(ts) \in Nat
    BY DEF AllEntries
<1> HIDE DEF new
<1> SUFFICES ASSUME ~r.fails, ~ShadowsIn(new) PROVE AsWritten(r, new)
    BY DEF Faithful, new
<1>2. AsWritten(c, entries)
    BY <1>1 DEF Faithful, ShadowsIn
<1>3. /\ ends # {} /\ Resolves(c, e.formula \cup e.resets)
      /\ r = [c EXCEPT !.transitions = Append(@, b)]
    BY FailedTyped DEF add_transition
<1>4. p[1] \in states(c) /\ p[2] \in states(c)
    <2>1. \A n : lookup(c, "state", n) \subseteq states(c)
        BY DEF lookup, states, Range
    <2>2. p \in ends
        BY <1>3
    <2>3. PICK f \in lookup(c, "state", e.from), g \in lookup(c, "state", e.to) : p = <<f, g>>
        BY <2>2
    <2> HIDE DEF p
    <2>. QED BY <2>1, <2>3
<1>5. \A n \in e.resets : Clock(n) \in clocks(c)
    <2> SUFFICES ASSUME NEW n \in e.resets PROVE Clock(n) \in clocks(c)
        OBVIOUS
    <2>1. lookup(c, "clock", n) # {}
        BY <1>3 DEF Resolves
    <2>2. n \in DOMAIN c.identifiers /\ c.identifiers[n].kind = "clock"
        BY <2>1 DEF lookup
    <2>3. c.identifiers[n] \in Ident /\ c.identifiers[n].name = n
        BY <1>2, <2>2, IdentifiersAre DEF AsWritten, NamesUnique, Built
    <2>4. c.identifiers[n] = Clock(n)
        BY <2>2, <2>3, IdentTyped
    <2>. QED BY <2>2, <2>4 DEF clocks, Range, Clock
<1>6. /\ b.from = p[1] /\ b.to = p[2] /\ b.resets = e.resets
      /\ b.x = "exog_transition" <=> e.exog
    BY DEF Transition, ExogTransition
<1> HIDE DEF b, p, ends, r
<1>7. r.identifiers = c.identifiers /\ r.current_state = c.current_state
      /\ r.transitions = Append(c.transitions, b) /\ c.transitions \in Seq(BuiltTransition)
    BY <1>3 DEF Built
<1>8. states(r) = states(c) /\ clocks(r) = clocks(c) /\ NamesUnique(r)
    BY <1>2, <1>7 DEF AsWritten, states, clocks, NamesUnique
<1>9. TransitionAsWritten(r, b, e)
    BY <1>4, <1>5, <1>6, <1>8 DEF TransitionAsWritten
<1>10. Len(c.transitions) = Len(ts)
    BY <1>2 DEF AsWritten
<1>11. /\ Len(r.transitions) = Len(ts) + 1 /\ r.transitions[Len(ts) + 1] = b
       /\ \A i \in 1..Len(ts) : r.transitions[i] = c.transitions[i]
    BY <1>1, <1>7, <1>10
<1>12. /\ Len(new.transitions) = Len(ts) + 1 /\ new.transitions[Len(ts) + 1] = e
       /\ \A i \in 1..Len(ts) : new.transitions[i] = ts[i]
    BY <1>1
<1>13. ASSUME NEW i \in 1..Len(ts) + 1
       PROVE  TransitionAsWritten(r, r.transitions[i], new.transitions[i])
    <2>1. CASE i = Len(ts) + 1
        BY <1>9, <1>11, <1>12, <2>1
    <2>2. CASE i \in 1..Len(ts)
        <3>1. TransitionAsWritten(c, c.transitions[i], ts[i])
            BY <1>2, <2>2 DEF AsWritten
        <3>. QED BY <1>8, <1>11, <1>12, <2>2, <3>1 DEF TransitionAsWritten
    <2>. QED BY <1>1, <2>1, <2>2
<1>. QED BY <1>1, <1>2, <1>7, <1>8, <1>11, <1>12, <1>13 DEF AsWritten

LEMMA EntryTyped ==
    ASSUME NEW section \in Sections, NEW entries \in AllEntries, NEW e \in EntriesOf(section)
    PROVE  [entries EXCEPT ![section] = Append(@, e)] \in AllEntries
<1>1. entries[section] \in Seq(EntriesOf(section))
    BY DEF AllEntries, Sections, EntriesOf
<1>2. Append(entries[section], e) \in Seq(EntriesOf(section))
    BY <1>1
<1>3. \A q \in Seq(EntriesOf(section)) : [entries EXCEPT ![section] = q] \in AllEntries
    BY DEF AllEntries, Sections, EntriesOf
<1>. QED BY <1>2, <1>3

LEMMA EntryFaithful ==
    ASSUME Grammatical, NEW section \in Sections, NEW c \in Built, ~c.fails,
           NEW entries \in AllEntries, Faithful(c, entries), NEW e \in EntriesOf(section)
    PROVE  Faithful(add(section, c, e), [entries EXCEPT ![section] = Append(@, e)])
<1>1. CASE section = "states"
    <2>1. e \in StateEntry
        BY <1>1 DEF EntriesOf
    <2>2. add(section, c, e) = add_state(c, StateOf(e))
        BY <1>1 DEF add, StateOf
    <2>3. [entries EXCEPT ![section] = Append(@, e)] = [entries EXCEPT !.states = Append(@, e)]
        BY <1>1
    <2>. QED BY <2>1, <2>2, <2>3, StateFaithful
<1>2. CASE section = "clocks"
    <2>1. e \in Name
        BY <1>2 DEF EntriesOf
    <2>2. add(section, c, e) = add_clock(c, e)
        BY <1>2 DEF add
    <2>3. [entries EXCEPT ![section] = Append(@, e)] = [entries EXCEPT !.clocks = Append(@, e)]
        BY <1>2
    <2>. QED BY <2>1, <2>2, <2>3, ClockFaithful
<1>3. CASE section = "transitions"
    <2>1. e \in TransitionEntry
        BY <1>3 DEF EntriesOf
    <2>2. add(section, c, e) = add_transition(c, e)
        BY <1>3 DEF add
    <2>3. [entries EXCEPT ![section] = Append(@, e)] = [entries EXCEPT !.transitions = Append(@, e)]
        BY <1>3
    <2>. QED BY <2>1, <2>2, <2>3, TransitionFaithful
<1>. QED BY <1>1, <1>2, <1>3 DEF Sections

-----------------------------------------------------------------------------
(* A whole section, by induction over the prefixes of its list. *)
LEMMA SectionFaithful ==
    ASSUME Grammatical, NEW section \in Sections, NEW c \in Built, ~c.fails,
           NEW entries \in AllEntries, entries[section] = <<>>, Faithful(c, entries),
           NEW list \in Seq(EntriesOf(section))
    PROVE  /\ AddAll(section, c, list) \in Built
           /\ Faithful(AddAll(section, c, list), [entries EXCEPT ![section] = list])
<1> DEFINE n == Len(list)
           T == EntriesOf(section)
           Step(b, e) == IF b.fails THEN b ELSE add(section, b, e)
           F == [x \in Built \X T |-> Step(x[1], x[2])]
           Fold(g) == [s \in SUBSET (DOMAIN list) |->
                         IF s = {} THEN c ELSE Step(g[s \ {Max(s)}], list[Max(s)])]
           iter == CHOOSE g : g = Fold(g)
<1>1. n \in Nat /\ DOMAIN list = 1..n /\ \A k \in 1..n : list[k] \in T
      /\ list \in Seq(T)
    OBVIOUS
<1>2. AddAll(section, c, list) = iter[DOMAIN list]
    BY DEF AddAll, FoldLeft, MapThenFoldSet
<1>3. \A b \in Built, e \in T : Step(b, e) \in Built
    BY AddTyped
<1> HIDE DEF Step, T
<1>4. F \in [Built \X T -> Built]
    BY <1>3
<1>5. \E g : g = Fold(g)
    <2>1. PICK g \in [SUBSET (1..n) -> Built] : IsFold(g, F, c, list, 1..n)
        <3>1. c \in Built
            OBVIOUS
        <3> HIDE DEF F, Fold, iter
        <3>2. list \in Seq(T)
            BY <1>1
        <3>3. \E g \in [SUBSET (1..Len(list)) -> Built] : IsFold(g, F, c, list, 1..Len(list))
            BY <1>4, <3>1, <3>2, FoldExists, Zenon
        <3>. QED BY <3>3
    <2>2. ASSUME NEW s \in SUBSET (1..n), s # {}
          PROVE  g[s] = Step(g[s \ {Max(s)}], list[Max(s)])
        <3>1. Max(s) \in s /\ s \ {Max(s)} \in SUBSET (1..n)
            BY <1>1, <2>2, Largest
        <3>2. g[s \ {Max(s)}] \in Built /\ list[Max(s)] \in T
            BY <1>1, <3>1
        <3>3. g[s] = F[<<g[s \ {Max(s)}], list[Max(s)]>>]
            <4> HIDE DEF F
            <4>. QED BY <2>1, <2>2 DEF IsFold
        <3>. QED BY <3>2, <3>3
    <2>3. g[{}] = c
        <3> HIDE DEF F
        <3>. QED BY <2>1 DEF IsFold
    <2>. QED BY <1>1, <2>2, <2>3
<1>6. iter = Fold(iter)
    <2> HIDE DEF Fold
    <2>. QED BY <1>5
<1> HIDE DEF iter
<1> DEFINE Prefix(k) == [i \in 1..k |-> list[i]]
           Upto(k) == [entries EXCEPT ![section] = Prefix(k)]
           Good(k) == /\ iter[1..k] \in Built
                      /\ Upto(k) \in AllEntries
                      /\ Faithful(iter[1..k], Upto(k))
           G == {k \in Nat : k =< n => Good(k)}
<1>7. 0 \in G
    <2>1. 1..0 = {} /\ iter[{}] = c
        BY <1>6
    <2>2. Prefix(0) = <<>>
        OBVIOUS
    <2>3. Upto(0) = entries
        <3> HIDE DEF Prefix
        <3>. QED BY <2>2 DEF AllEntries
    <2> HIDE DEF Upto, Prefix
    <2>. QED BY <2>1, <2>3
<1>8. ASSUME NEW k \in Nat, k \in G PROVE k + 1 \in G
    <2> SUFFICES ASSUME k + 1 =< n PROVE Good(k + 1)
        OBVIOUS
    <2> HIDE DEF Good
    <2>1. Good(k)
        BY <1>1, <1>8
    <2>2. list[k + 1] \in T /\ 1..k + 1 \in SUBSET (1..n) /\ k + 1 \in 1..k + 1
        BY <1>1
    <2>3. Max(1..k + 1) = k + 1
        BY <2>2, TopLargest, k + 1 \in Nat
    <2>4. (1..k + 1) \ {k + 1} = 1..k
        OBVIOUS
    <2>5. iter[1..k + 1] = Step(iter[1..k], list[k + 1])
        BY <1>1, <1>6, <2>2, <2>3, <2>4
    <2>6. Prefix(k + 1) = Append(Prefix(k), list[k + 1])
        <3>1. Prefix(k) \in Seq(T) /\ Len(Prefix(k)) = k
            BY <1>1, k =< n
        <3>2. \A i \in 1..k + 1 : Append(Prefix(k), list[k + 1])[i] = list[i]
            BY <3>1
        <3>. QED BY <2>2, <3>1, <3>2
    <2>7. Upto(k + 1) = [Upto(k) EXCEPT ![section] = Append(@, list[k + 1])]
        <3> HIDE DEF Prefix
        <3>. QED BY <2>6 DEF AllEntries, Sections
    <2>10. iter[1..k + 1] \in Built /\ Upto(k + 1) \in AllEntries
        <3>1. iter[1..k] \in Built /\ Upto(k) \in AllEntries
            BY <2>1 DEF Good
        <3>2. list[k + 1] \in EntriesOf(section) /\ iter[1..k + 1] \in Built
            BY <1>3, <2>2, <2>5, <3>1 DEF T
        <3>3. [Upto(k) EXCEPT ![section] = Append(@, list[k + 1])] \in AllEntries
            <4> HIDE DEF Upto
            <4>. QED BY <3>1, <3>2, EntryTyped
        <3>. QED BY <2>7, <3>2, <3>3
    <2>8. CASE iter[1..k].fails
        <3>1. Faithful(iter[1..k + 1], Upto(k + 1))
            BY <2>5, <2>8 DEF Faithful, Step
        <3>. QED BY <1>3, <2>2, <2>5, <2>10, <3>1 DEF Good
    <2>9. CASE ~iter[1..k].fails
        <3> DEFINE b == iter[1..k]
                   es == Upto(k)
                   e == list[k + 1]
        <3>1. b \in Built /\ es \in AllEntries /\ Faithful(b, es) /\ e \in EntriesOf(section)
            BY <2>1, <2>2 DEF Good, T
        <3>2. iter[1..k + 1] = add(section, b, e)
            BY <2>5, <2>9 DEF Step
        <3> HIDE DEF b, es, e
        <3>3. Faithful(add(section, b, e), [es EXCEPT ![section] = Append(@, e)])
            BY <2>9, <3>1, EntryFaithful DEF b
        <3>. QED BY <1>3, <2>1, <2>2, <2>5, <2>7, <2>10, <3>2, <3>3 DEF Good, es, e
    <2>. QED BY <2>8, <2>9
<1> HIDE DEF Good
<1>9. n \in G
    <2> HIDE DEF G
    <2>. QED BY <1>1, <1>7, <1>8, SetInduction
<1>10. Good(n)
    BY <1>1, <1>9
<1>11. Prefix(n) = list
    BY <1>1
<1> HIDE DEF Prefix
<1>. QED BY <1>1, <1>2, <1>10, <1>11 DEF Good

-----------------------------------------------------------------------------
(* The entries of all sections, none where a section is missing. *)
EntriesIn(w) ==
    [states |-> Entries(w, "states"), clocks |-> Entries(w, "clocks"),
     transitions |-> Entries(w, "transitions")]

WrittenTyped(w) == DOMAIN w \subseteq Sections /\ \A s \in DOMAIN w : w[s] \in Seq(EntriesOf(s))

MadeOf(c, w) == WrittenTyped(w) /\ c \in Built /\ Faithful(c, EntriesIn(w))

PInv ==
    /\ WrittenTyped(written)
    /\ \A c \in open : MadeOf(c, written) /\ (built = "parsing" => ~c.fails)
    /\ \A name \in DOMAIN components :
            /\ MadeOf(components[name].component, components[name].written)
            /\ ~components[name].component.fails

LEMMA EntriesTyped ==
    ASSUME NEW w, WrittenTyped(w)
    PROVE  /\ EntriesIn(w) \in AllEntries
           /\ \A section \in Sections : section \notin DOMAIN w => EntriesIn(w)[section] = <<>>
<1>1. \A s \in Sections : Entries(w, s) \in Seq(EntriesOf(s))
    BY DEF Entries, WrittenTyped
<1>2. /\ Entries(w, "states") \in Seq(StateEntry) /\ Entries(w, "clocks") \in Seq(Name)
      /\ Entries(w, "transitions") \in Seq(TransitionEntry)
    BY <1>1 DEF Sections, EntriesOf
<1>3. EntriesIn(w) \in AllEntries
    BY <1>2 DEF EntriesIn, AllEntries
<1>4. \A section \in Sections : section \notin DOMAIN w => EntriesIn(w)[section] = <<>>
    BY DEF EntriesIn, Entries, Sections
<1>. QED BY <1>3, <1>4

LEMMA EntriesAssigned ==
    ASSUME NEW w, WrittenTyped(w), NEW section \in Sections, NEW list \in Seq(EntriesOf(section))
    PROVE  /\ WrittenTyped(Stored(w, section, list))
           /\ EntriesIn(Stored(w, section, list)) = [EntriesIn(w) EXCEPT ![section] = list]
<1> DEFINE a == Stored(w, section, list)
<1>1. DOMAIN a = DOMAIN w \cup {section} /\ a[section] = list
      /\ \A k \in DOMAIN w : k # section => a[k] = w[k]
    BY DEF Stored
<1> HIDE DEF a
<1>2. WrittenTyped(a)
    BY <1>1 DEF WrittenTyped
<1>3. \A k \in Sections : Entries(a, k) = IF k = section THEN list ELSE Entries(w, k)
    BY <1>1 DEF Entries
<1>4. EntriesIn(a) = [EntriesIn(w) EXCEPT ![section] = list]
    BY <1>3 DEF EntriesIn, Sections
<1>. QED BY <1>2, <1>4 DEF a

(* A component has the error state to begin with. *)
LEMMA ComponentFaithful ==
    ASSUME Grammatical
    PROVE  MadeOf(Component, <<>>) /\ ~Component.fails
<1> DEFINE m == Stored(<<>>, "error", error_state)
           es == EntriesIn(<<>>)
<1>1. DOMAIN m = {"error"} /\ m["error"] = error_state /\ m = [k \in DOMAIN m |-> m[k]]
    BY DEF Stored
<1> HIDE DEF m
<1>2. error_state \in Ident /\ error_state.kind = "state" /\ error_state.name = "error"
    BY IdentTyped
<1>3. m \in Identifiers
    BY <1>1, <1>2, IdentifiersAre DEF Grammatical
<1>4. /\ Component.identifiers = m /\ Component.transitions = <<>>
      /\ Component.current_state = error_state /\ ~Component.fails
    BY DEF Component, m
<1>5. Component \in Built
    BY <1>2, <1>3 DEF Component, Built, m
<1>6. states(Component) = {error_state} /\ clocks(Component) = {}
    BY <1>1, <1>2, <1>4 DEF states, clocks, Range
<1>7. NamesUnique(Component)
    BY <1>1, <1>2, <1>4 DEF NamesUnique
<1>8. es.states = <<>> /\ es.clocks = <<>> /\ es.transitions = <<>>
    BY DEF EntriesIn, Entries
<1> HIDE DEF es
<1>9. IsFiniteSet(states(Component)) /\ Cardinality(states(Component)) = 1
    BY <1>6, FS_Singleton
<1>10. AsWritten(Component, es)
    BY <1>4, <1>6, <1>7, <1>8, <1>9 DEF AsWritten, Range
<1>11. WrittenTyped(<<>>)
    BY DEF WrittenTyped
<1>. QED BY <1>4, <1>5, <1>10, <1>11 DEF MadeOf, Faithful, es

LEMMA PInvInit == ASSUME Grammatical, PlatformInit PROVE PInv
BY DEF PlatformInit, PInv, WrittenTyped

LEMMA ParseKeeps ==
    ASSUME Grammatical, PInv, NEW section \in Sections, Parse(section)
    PROVE  PInv'
<1>1. PICK c \in open, list \in Lists[section] :
          LET parsed == AddAll(section, c, list)
          IN  /\ built = "parsing"
              /\ section \notin DOMAIN written
              /\ written' = Stored(written, section, list)
              /\ open' = {parsed}
              /\ built' = IF parsed.fails THEN "rejected" ELSE built
              /\ UNCHANGED components
    BY DEF Parse
<1>2. list \in Seq(EntriesOf(section))
    BY DEF Grammatical
<1>3. WrittenTyped(written) /\ MadeOf(c, written) /\ ~c.fails
    BY <1>1 DEF PInv
<1>4. /\ WrittenTyped(written')
      /\ EntriesIn(written') = [EntriesIn(written) EXCEPT ![section] = list]
    BY <1>1, <1>2, <1>3, EntriesAssigned
<1>5. EntriesIn(written) \in AllEntries /\ EntriesIn(written)[section] = <<>>
    BY <1>1, <1>3, EntriesTyped
<1>6. /\ AddAll(section, c, list) \in Built
      /\ Faithful(AddAll(section, c, list), [EntriesIn(written) EXCEPT ![section] = list])
    BY <1>2, <1>3, <1>5, SectionFaithful DEF MadeOf
<1>7. MadeOf(AddAll(section, c, list), written')
    BY <1>4, <1>6 DEF MadeOf
<1>8. \A d \in open' : MadeOf(d, written') /\ (built' = "parsing" => ~d.fails)
    BY <1>1, <1>7
<1>9. components' = components
    BY <1>1
<1>. QED BY <1>4, <1>8, <1>9 DEF PInv

LEMMA CloseKeeps ==
    ASSUME PInv, CloseComponent
    PROVE  PInv'
<1>1. PICK name \in ComponentNames, c \in open :
          /\ built = "parsing"
          /\ IF name \in DOMAIN components THEN built' = "rejected" /\ UNCHANGED <<components, open>>
             ELSE /\ components' = Stored(components, name, [component |-> c, written |-> written])
                  /\ open' = {}
                  /\ UNCHANGED built
          /\ UNCHANGED written
    BY DEF CloseComponent
<1>2. CASE name \in DOMAIN components
    BY <1>1, <1>2 DEF PInv
<1>3. CASE name \notin DOMAIN components
    <2> DEFINE r == [component |-> c, written |-> written]
    <2>1. MadeOf(r.component, r.written) /\ ~r.component.fails
        BY <1>1 DEF PInv
    <2> HIDE DEF r
    <2>2. /\ DOMAIN components' = DOMAIN components \cup {name} /\ components'[name] = r
          /\ \A k \in DOMAIN components : components'[k] = components[k]
        BY <1>1, <1>3 DEF Stored, r
    <2>. QED BY <1>1, <1>3, <2>1, <2>2 DEF PInv
<1>. QED BY <1>2, <1>3

LEMMA PInvStep == ASSUME Grammatical, PInv, [PlatformNext]_platformVars PROVE PInv'
<1>1. CASE OpenComponent
    BY <1>1, ComponentFaithful DEF OpenComponent, PInv, MadeOf
<1>2. CASE StatesSection \/ ClocksSection \/ TransitionsSection
    BY <1>2, ParseKeeps DEF StatesSection, ClocksSection, TransitionsSection, Sections
<1>3. CASE CloseComponent
    BY <1>3, CloseKeeps
<1>4. CASE Finish
    BY <1>4 DEF Finish, PInv
<1>5. CASE UNCHANGED platformVars
    BY <1>5 DEF platformVars, PInv
<1>. QED BY <1>1, <1>2, <1>3, <1>4, <1>5 DEF PlatformNext

LEMMA PInvAsWritten == ASSUME PInv PROVE ComponentsAsWritten
<1> SUFFICES ASSUME NEW name \in DOMAIN components, ~Shadows(components[name].written)
             PROVE
        LET c == components[name].component
            w == components[name].written
            list == Entries(w, "states")
            ts == Entries(w, "transitions")
        IN  /\ c.current_state.name = IF list = <<>> THEN "error" ELSE list[1].name
            /\ c.current_state \in states(c)
            /\ {s.name : s \in states(c)} = StateNames(w) \cup {"error"}
            /\ Len(c.transitions) = Len(ts)
            /\ \A i \in DOMAIN ts :
                    /\ {c.transitions[i].from, c.transitions[i].to} \subseteq states(c)
                    /\ \A k \in c.transitions[i].resets : Clock(k) \in clocks(c)
                    /\ c.transitions[i].x = "exog_transition" <=> ts[i].exog
    BY DEF ComponentsAsWritten
<1> DEFINE c == components[name].component
           w == components[name].written
           es == EntriesIn(w)
<1>1. MadeOf(c, w) /\ ~c.fails
    BY DEF PInv
<1>2. /\ es \in AllEntries /\ es.states = Entries(w, "states") /\ es.clocks = Entries(w, "clocks")
      /\ es.transitions = Entries(w, "transitions")
    BY <1>1, EntriesTyped DEF MadeOf, EntriesIn
<1>3. Faithful(c, es) /\ ~Shadows(w)
    BY <1>1 DEF MadeOf
<1> HIDE DEF c, w, es
<1>4. AsWritten(c, es)
    BY <1>1, <1>2, <1>3 DEF Faithful, Shadows, ShadowsIn, StateNames
<1>5. \A e : StateOf(e).name = e.name
    BY DEF StateOf, State
<1>6. error_state.name = "error"
    BY DEF error_state, State
<1>7. es.states # <<>> => es.states[1] \in Range(es.states)
    <2>1. es.states \in Seq(StateEntry)
        BY <1>2 DEF AllEntries
    <2>. QED BY <2>1, EmptySeq DEF Range
<1>8. c.current_state.name = IF es.states = <<>> THEN "error" ELSE es.states[1].name
    BY <1>4, <1>5, <1>6 DEF AsWritten
<1>9. c.current_state \in states(c)
    BY <1>4, <1>7 DEF AsWritten
<1>10. {s.name : s \in states(c)} = {e.name : e \in Range(es.states)} \cup {"error"}
    BY <1>4, <1>5, <1>6 DEF AsWritten
<1>11. Len(c.transitions) = Len(es.transitions) /\ DOMAIN es.transitions = 1..Len(es.transitions)
    BY <1>2, <1>4 DEF AsWritten, AllEntries
<1>12. \A i \in DOMAIN es.transitions : TransitionAsWritten(c, c.transitions[i], es.transitions[i])
    BY <1>4, <1>11 DEF AsWritten
<1>. QED BY <1>2, <1>8, <1>9, <1>10, <1>11, <1>12 DEF c, w, StateNames, TransitionAsWritten

(* Every registered component is what its sections say, in whatever order
   they are written: it starts in the first of its states, all transitions are
   between its own states, and those of the platform are its own. *)
THEOREM ComponentsAsWrittenCorrect == ASSUME Grammatical PROVE PlatformSpec => []ComponentsAsWritten
<1>1. PlatformInit => PInv
    BY PInvInit
<1>2. PInv /\ [PlatformNext]_platformVars => PInv'
    BY PInvStep
<1>3. PInv => ComponentsAsWritten
    BY PInvAsWritten
<1>. QED BY <1>1, <1>2, <1>3, PTL DEF PlatformSpec

-----------------------------------------------------------------------------
(* Programs.  Elements that are no globals, and the parts of which are in S. *)
RegularStatement(e) == Regular(e) /\ e.x \notin Toplevel
PartsIn(e, S) == \A i \in DOMAIN e.parts : e.parts[i] \in S
Fit(e, S) == RegularStatement(e) /\ PartsIn(e, S)
Statements(S) == \A s \in S : s.x \notin Toplevel

Ordinary ==
    {"value", "variable", "reference", "not", "comparison", "boolean", "quantification",
     "arithmetic", "concatenation", "field", "access", "length", "assign", "pop", "push",
     "hook", "test", "block", "choose", "concurrent", "if", "pick", "search", "while",
     "star", "during"}

Made(e, x, parts) == e.x = x /\ e.parts = parts /\ e.orphans = {} /\ e.child = TRUE
AllIn(parts, S) == \A i \in DOMAIN parts : parts[i] \in S

LEMMA KindsOfElements ==
    Ordinary \cap Toplevel = {} /\ Apart \cap Toplevel = {} /\ "solve" \in Apart
BY DEF Toplevel, Apart, Ordinary

LEMMA ElementMade == \A x, parts : Made(M!Element(x, parts), x, parts)
BY DEF M!Element, Made

LEMMA OwnerMade == \A x, variables, parts : Made(M!Owner(x, variables, parts), x, parts)
BY DEF M!Element, M!Owner, Made

LEMMA MadeGood ==
    ASSUME NEW S, Statements(S), NEW e, NEW x \in Ordinary, NEW parts, Made(e, x, parts), AllIn(parts, S)
    PROVE  Fit(e, S)
BY KindsOfElements DEF Fit, RegularStatement, Regular, PartsIn, Made, AllIn, Statements

LEMMA NoneIn == \A S : AllIn(<<>>, S)
BY DEF AllIn

LEMMA OneIn == ASSUME NEW S, NEW a \in S PROVE AllIn(<<a>>, S)
BY DEF AllIn

LEMMA TwoIn == ASSUME NEW S, NEW a \in S, NEW b \in S PROVE AllIn(<<a, b>>, S)
BY DEF AllIn

LEMMA ThreeIn == ASSUME NEW S, NEW a \in S, NEW b \in S, NEW c \in S PROVE AllIn(<<a, b, c>>, S)
BY DEF AllIn

(* The formulas and statements that the parser puts around others.          *)
LEMMA ConstructorsGood ==
    ASSUME NEW S, Statements(S)
    PROVE  /\ Fit(M!Value, S) /\ Fit(M!EmptyBlock, S)
           /\ \A v : Fit(M!VariableRef(v), S)
           /\ \A name : Fit(M!Reference(name, <<>>), S)
           /\ \A a \in S :
                /\ \A name : Fit(M!Reference(name, <<a>>), S)
                /\ Fit(M!Negation(a), S) /\ Fit(M!Test(a), S) /\ Fit(M!Search(a), S) /\ Fit(M!Star(a), S)
                /\ \A v : Fit(M!Quantification(v, a), S) /\ Fit(M!Pick(v, <<>>, a), S)
           /\ \A a, b \in S :
                /\ Fit(M!Comparison(a, b), S) /\ Fit(M!While(a, b), S)
                /\ Fit(M!Block(<<a, b>>), S) /\ Fit(M!Choose(<<a, b>>), S) /\ Fit(M!Concurrent(<<a, b>>), S)
                /\ \A v : Fit(M!Pick(v, <<a>>, b), S)
           /\ \A a, b, c \in S : Fit(M!Conditional(a, b, c), S) /\ Fit(M!Solve(a, b, c), S)
           /\ \A a, b, c, d \in S : Fit(M!During(a, b, c, d), S)
<1>1. ASSUME NEW x \in Ordinary, NEW parts, AllIn(parts, S)
      PROVE  Fit(M!Element(x, parts), S) /\ \A vs : Fit(M!Owner(x, vs, parts), S)
    BY <1>1, MadeGood, ElementMade, OwnerMade
<1>2. Fit(M!Value, S) /\ Fit(M!EmptyBlock, S) /\ \A name : Fit(M!Reference(name, <<>>), S)
    <2>1. Fit(M!Element("value", <<>>), S) /\ Fit(M!Owner("block", {}, <<>>), S)
        BY <1>1, NoneIn DEF Ordinary
    <2>2. ASSUME NEW name PROVE Fit(M!Reference(name, <<>>), S)
        <3>1. Made(M!Reference(name, <<>>), "reference", <<>>)
            BY DEF Made, M!Reference, M!Element
        <3>. QED BY <3>1, MadeGood, NoneIn DEF Ordinary
    <2>. QED BY <2>1, <2>2 DEF M!Value, M!EmptyBlock, M!Block
<1>3. ASSUME NEW v PROVE Fit(M!VariableRef(v), S)
    <2>1. Made(M!VariableRef(v), "variable", <<>>)
        BY DEF Made, M!VariableRef, M!Element
    <2>. QED BY <2>1, MadeGood, NoneIn DEF Ordinary
<1>4. ASSUME NEW a \in S
      PROVE  /\ \A name : Fit(M!Reference(name, <<a>>), S)
             /\ Fit(M!Negation(a), S) /\ Fit(M!Test(a), S) /\ Fit(M!Search(a), S) /\ Fit(M!Star(a), S)
             /\ \A v : Fit(M!Quantification(v, a), S) /\ Fit(M!Pick(v, <<>>, a), S)
    <2>1. AllIn(<<a>>, S)
        BY OneIn
    <2>2. ASSUME NEW name PROVE Fit(M!Reference(name, <<a>>), S)
        <3>1. Made(M!Reference(name, <<a>>), "reference", <<a>>)
            BY DEF Made, M!Reference, M!Element
        <3>. QED BY <2>1, <3>1, MadeGood DEF Ordinary
    <2>3. \A x \in {"not", "test", "search", "star"} : Fit(M!Element(x, <<a>>), S)
        BY <1>1, <2>1 DEF Ordinary
    <2>4. \A x \in {"quantification", "pick"} : \A vs : Fit(M!Owner(x, vs, <<a>>), S)
        BY <1>1, <2>1 DEF Ordinary
    <2>5. <<>> \o <<a>> = <<a>>
        OBVIOUS
    <2>. QED BY <2>2, <2>3, <2>4, <2>5
             DEF M!Negation, M!Test, M!Search, M!Star, M!Quantification, M!Pick
<1>5. ASSUME NEW a \in S, NEW b \in S
      PROVE  /\ Fit(M!Comparison(a, b), S) /\ Fit(M!While(a, b), S)
             /\ Fit(M!Block(<<a, b>>), S) /\ Fit(M!Choose(<<a, b>>), S) /\ Fit(M!Concurrent(<<a, b>>), S)
             /\ \A v : Fit(M!Pick(v, <<a>>, b), S)
    <2>1. AllIn(<<a, b>>, S)
        BY TwoIn
    <2>2. \A x \in {"comparison", "while"} : Fit(M!Element(x, <<a, b>>), S)
        BY <1>1, <2>1 DEF Ordinary
    <2>3. \A x \in {"block", "choose", "concurrent"} : \A vs : Fit(M!Owner(x, vs, <<a, b>>), S)
        BY <1>1, <2>1 DEF Ordinary
    <2>4. AllIn(<<a>> \o <<b>>, S)
        <3>1. <<a>> \in Seq(S) /\ <<b>> \in Seq(S)
            OBVIOUS
        <3>2. <<a>> \o <<b>> \in Seq(S)
            BY <3>1
        <3>. QED BY <3>2 DEF AllIn
    <2>5. \A vs : Fit(M!Owner("pick", vs, <<a>> \o <<b>>), S)
        BY <1>1, <2>4 DEF Ordinary
    <2>. QED BY <2>2, <2>3, <2>5
             DEF M!Comparison, M!While, M!Block, M!Choose, M!Concurrent, M!Pick
<1>6. ASSUME NEW a \in S, NEW b \in S, NEW c \in S
      PROVE  Fit(M!Conditional(a, b, c), S) /\ Fit(M!Solve(a, b, c), S)
    <2>1. AllIn(<<a, b, c>>, S)
        BY ThreeIn
    <2>2. Fit(M!Element("if", <<a, b, c>>), S)
        BY <1>1, <2>1 DEF Ordinary
    <2>3. M!Solve(a, b, c).x = "solve" /\ M!Solve(a, b, c).parts = <<a, b, c>> /\ M!Solve(a, b, c).child = TRUE
        BY DEF M!Solve, M!Element
    <2>4. Fit(M!Solve(a, b, c), S)
        BY <2>1, <2>3, KindsOfElements DEF Fit, RegularStatement, Regular, PartsIn, AllIn, Statements
    <2>. QED BY <2>2, <2>4 DEF M!Conditional
<1>7. ASSUME NEW a \in S, NEW b \in S, NEW c \in S, NEW d \in S PROVE Fit(M!During(a, b, c, d), S)
    <2>1. AllIn(<<a, b, c, d>>, S)
        BY DEF AllIn
    <2>. QED BY <1>1, <2>1 DEF Ordinary, M!During
<1>. QED BY <1>2, <1>3, <1>4, <1>5, <1>6, <1>7

-----------------------------------------------------------------------------
(* A set of such elements that has the parts of its members, too.           *)
Closed(S) == Statements(S) /\ \A e \in S : Fit(e, S)

LEMMA ClosedGrows ==
    ASSUME NEW S, Closed(S), NEW T, \A e \in T : Fit(e, S)
    PROVE  Closed(S \cup T)
BY DEF Closed, Fit, RegularStatement, PartsIn, Statements

(* What Enclosed puts around a statement.                                   *)
XRef == M!VariableRef("x")
Leaf ==
    {M!Value, XRef, M!EmptyBlock, M!Reference("reward", <<>>), M!Reference("a", <<XRef>>),
     M!Comparison(XRef, M!Value), M!Comparison(M!Value, XRef), M!Test(M!Value), M!Star(M!Test(M!Value))}

HasLeaves(S) == Closed(S) /\ Leaf \subseteq S

LEMMA LeavesClosed ==
    \E S : HasLeaves(S) /\ Innermost \subseteq S
<1> DEFINE S1 == {M!Value, XRef, M!EmptyBlock, M!Reference("reward", <<>>)}
           S2 == {M!Reference("a", <<XRef>>), M!Comparison(XRef, M!Value), M!Comparison(M!Value, XRef),
                  M!Test(M!Value)}
           not == M!Negation(M!Comparison(XRef, M!Value))
           S3 == {M!Star(M!Test(M!Value)), not, M!Test(M!Comparison(XRef, M!Value))}
           S4 == {M!Quantification("x", not)}
           S5 == {M!Test(M!Quantification("x", not))}
           U2 == S1 \cup S2
           U3 == U2 \cup S3
           U4 == U3 \cup S4
           U5 == U4 \cup S5
<1>1. Closed({})
    BY DEF Closed, Statements
<1>2. Closed(S1)
    <2>1. \A e \in S1 : Fit(e, {})
        BY <1>1, ConstructorsGood DEF XRef, Closed
    <2>2. {} \cup S1 = S1
        OBVIOUS
    <2> HIDE DEF S1
    <2>. QED BY <1>1, <2>1, <2>2, ClosedGrows
<1>3. Closed(U2)
    <2>1. \A e \in S2 : Fit(e, S1)
        <3>1. M!Value \in S1 /\ XRef \in S1
            OBVIOUS
        <3>2. Statements(S1)
            BY <1>2 DEF Closed
        <3> HIDE DEF S1
        <3>. QED BY <3>1, <3>2, ConstructorsGood
    <2> HIDE DEF S1, S2
    <2>. QED BY <1>2, <2>1, ClosedGrows
<1>4. Closed(U3)
    <2>1. \A e \in S3 : Fit(e, U2)
        <3>1. M!Test(M!Value) \in U2 /\ M!Comparison(XRef, M!Value) \in U2
            OBVIOUS
        <3>2. Statements(U2)
            BY <1>3 DEF Closed
        <3> HIDE DEF U2
        <3>. QED BY <3>1, <3>2, ConstructorsGood
    <2> HIDE DEF U2, S3
    <2>. QED BY <1>3, <2>1, ClosedGrows
<1>5. Closed(U4)
    <2>1. \A e \in S4 : Fit(e, U3)
        <3>1. not \in U3
            OBVIOUS
        <3>2. Statements(U3)
            BY <1>4 DEF Closed
        <3> HIDE DEF U3, not
        <3>. QED BY <3>1, <3>2, ConstructorsGood
    <2> HIDE DEF U3, S4
    <2>. QED BY <1>4, <2>1, ClosedGrows
<1>6. Closed(U5)
    <2>1. \A e \in S5 : Fit(e, U4)
        <3>1. M!Quantification("x", not) \in U4
            OBVIOUS
        <3>2. Statements(U4)
            BY <1>5 DEF Closed
        <3> HIDE DEF U4, not
        <3>. QED BY <3>1, <3>2, ConstructorsGood
    <2> HIDE DEF U4, S5
    <2>. QED BY <1>5, <2>1, ClosedGrows
<1>7. Leaf \subseteq U5 /\ Innermost \subseteq U5
    BY DEF Leaf, Innermost, XRef
<1> HIDE DEF U5
<1>. QED BY <1>6, <1>7 DEF HasLeaves

(* main is one of the members of such a set.                                *)
MainClosed == \E S : HasLeaves(S) /\ main \in S

LEMMA EnclosedClosed ==
    ASSUME NEW S, HasLeaves(S), NEW s \in S,
           NEW t \in Enclosed(s) \cup {M!During(M!Reference("a", <<XRef>>), s, M!EmptyBlock, M!EmptyBlock)}
    PROVE  \E T : HasLeaves(T) /\ t \in T
<1>1. Statements(S) /\ Leaf \subseteq S
    BY DEF HasLeaves, Closed
<1>2. /\ M!Value \in S /\ M!EmptyBlock \in S /\ M!Reference("reward", <<>>) \in S
      /\ M!Reference("a", <<XRef>>) \in S /\ M!Comparison(XRef, M!Value) \in S
      /\ M!Comparison(M!Value, XRef) \in S /\ M!Test(M!Value) \in S /\ M!Star(M!Test(M!Value)) \in S
    BY <1>1 DEF Leaf
<1>3. ASSUME t \in Enclosed(s) PROVE Fit(t, S)
    <2>1. /\ Fit(M!Search(s), S) /\ Fit(M!Star(s), S) /\ Fit(M!Pick("x", <<>>, s), S)
          /\ Fit(M!Block(<<s, M!Test(M!Value)>>), S) /\ Fit(M!Choose(<<s, s>>), S)
          /\ Fit(M!Concurrent(<<s, M!Star(M!Test(M!Value))>>), S)
          /\ Fit(M!While(M!Comparison(M!Value, XRef), s), S) /\ Fit(M!Pick("x", <<M!Value>>, s), S)
        BY <1>1, <1>2, ConstructorsGood
    <2>2. /\ Fit(M!Conditional(M!Comparison(XRef, M!Value), s, M!EmptyBlock), S)
          /\ Fit(M!Solve(M!Value, M!Reference("reward", <<>>), s), S)
        BY <1>1, <1>2, ConstructorsGood
    <2>. QED BY <1>3, <2>1, <2>2 DEF Enclosed, XRef
<1>4. t = M!During(M!Reference("a", <<XRef>>), s, M!EmptyBlock, M!EmptyBlock) => Fit(t, S)
    BY <1>1, <1>2, ConstructorsGood
<1>5. Closed(S \cup {t})
    BY <1>3, <1>4, ClosedGrows DEF HasLeaves
<1>. QED BY <1>1, <1>5 DEF HasLeaves

-----------------------------------------------------------------------------
(* Semantics are attached to globals only while no global is compiled, and  *)
(* none is compiled before all have them.                                   *)
StartupInv ==
    /\ globals \in Programs
    /\ MainClosed
    /\ phase \in {"parsing", "attaching", "compiling", "running", "crashed"}
    /\ phase = "parsing" => attached = {}
    /\ phase = "attaching" => attached \subseteq DOMAIN Program
    /\ phase = "compiling" => attached = DOMAIN Program \cup {"types"}
    /\ StartsIfDefined

LEMMA MainIsStatement ==
    ASSUME MainClosed
    PROVE  /\ main.x \notin Toplevel
           /\ Attachable(M!Procedure({}, main)) /\ Evaluated(M!Procedure({}, main)) = {}
<1>1. main.x \notin Toplevel
    BY DEF MainClosed, HasLeaves, Closed, Statements
<1>2. M!Procedure({}, main).parts = <<main>>
    BY OwnerMade DEF M!Procedure, Made
<1>3. main # M!Undefined
    BY <1>1, ElementMade DEF M!Undefined, Made, Toplevel
<1>4. main.x # "effect"
    BY <1>1 DEF Toplevel
<1>5. Attachable(M!Procedure({}, main))
    BY <1>2, <1>3 DEF Attachable
<1>6. Effects(M!Procedure({}, main)) = {}
    BY <1>2, <1>4 DEF Effects
<1>. QED BY <1>1, <1>5, <1>6 DEF Evaluated

LEMMA ProgramIs ==
    ASSUME globals \in Programs
    PROVE  /\ DOMAIN Program = DOMAIN globals \cup {"main"}
           /\ Program["main"] = M!Procedure({}, main)
           /\ \A g \in DOMAIN globals : Program[g] = globals[g]
BY StartupAssumption DEF Program

LEMMA StartupInitInv == StartupInit => StartupInv
<1> SUFFICES ASSUME StartupInit PROVE StartupInv
    OBVIOUS
<1>1. MainClosed
    BY LeavesClosed DEF MainClosed, StartupInit
<1>. QED BY <1>1 DEF StartupInit, StartupInv, StartsIfDefined

LEMMA StartupStepInv == StartupInv /\ [StartupNext]_elementVars => StartupInv'
<1> SUFFICES ASSUME StartupInv, [StartupNext]_elementVars PROVE StartupInv'
    OBVIOUS
<1>1. CASE ParseStatement
    <2>1. MainClosed'
        <3>1. PICK S : HasLeaves(S) /\ main \in S
            BY DEF StartupInv, MainClosed
        <3>2. main' \in Enclosed(main)
            BY <1>1 DEF ParseStatement
        <3>. QED BY <3>1, <3>2, EnclosedClosed DEF MainClosed
    <2>. QED BY <1>1, <2>1 DEF StartupInv, ParseStatement, StartsIfDefined
<1>2. CASE ParseDuring
    <2>1. main' = M!During(M!Reference("a", <<XRef>>), main, M!EmptyBlock, M!EmptyBlock)
        BY <1>2 DEF ParseDuring, XRef
    <2>2. MainClosed'
        <3>1. PICK S : HasLeaves(S) /\ main \in S
            BY DEF StartupInv, MainClosed
        <3>. QED BY <2>1, <3>1, EnclosedClosed DEF MainClosed
    <2>3. main'.x = "during" /\ main'.parts[2] = main
        BY <2>1 DEF M!During, M!Element
    <2>4. StartsIfDefined'
        BY <1>2, <2>3 DEF ParseDuring, StartsIfDefined, M!ScopeAround
    <2>. QED BY <1>2, <2>2, <2>4 DEF StartupInv, ParseDuring
<1>3. CASE Start
    BY <1>3 DEF Start, StartupInv, StartsIfDefined, MainClosed, Program
<1>4. ASSUME NEW g \in DOMAIN Program, Attach(g) PROVE StartupInv'
    <2>1. ~Attachable(Program[g]) => \E h \in DOMAIN globals : ~Attachable(globals[h])
        BY ProgramIs, MainIsStatement DEF StartupInv
    <2>. QED BY <1>4, <2>1 DEF Attach, StartupInv, StartsIfDefined, MainClosed, Program
<1>5. ASSUME NEW g \in DOMAIN Program, Compile(g) PROVE StartupInv'
    <2>1. attached = DOMAIN Program \cup {"types"}
        BY <1>5 DEF Compile, MayCompile, StartupInv
    <2>2. Evaluated(Program[g]) \subseteq DOMAIN Program
        BY ProgramIs, MainIsStatement, StartupAssumption DEF StartupInv
    <2>3. Needed(g) \subseteq attached
        BY <2>1, <2>2 DEF Needed
    <2>. QED BY <1>5, <2>3 DEF Compile, MayCompile, StartupInv, StartsIfDefined, MainClosed, Program
<1>6. CASE AttachTypes
    BY <1>6 DEF AttachTypes, StartupInv, StartsIfDefined, MainClosed, Program
<1>7. CASE Run
    BY <1>7 DEF Run, StartupInv, StartsIfDefined, MainClosed, Program
<1>8. CASE UNCHANGED elementVars
    BY <1>8 DEF elementVars, StartupInv, StartsIfDefined, MainClosed, Program
<1>. QED BY <1>1, <1>2, <1>3, <1>4, <1>5, <1>6, <1>7, <1>8 DEF StartupNext

THEOREM StartupInvariant == StartupSpec => []StartupInv
BY StartupInitInv, StartupStepInv, PTL DEF StartupSpec

(* StartsIfDefined: whatever its globals are and however many statements    *)
(* main is nested in, a program only fails to start for a global that was   *)
(* never defined, or for a parallel block without a scope.                  *)
THEOREM StartsIfDefinedCorrect == StartupSpec => []StartsIfDefined
<1>1. StartupInv => StartsIfDefined
    BY DEF StartupInv
<1>. QED BY <1>1, StartupInvariant, PTL

-----------------------------------------------------------------------------
(* The elements of a program: a step further from the top at a time.         *)
Tops == {M!Found(Program[g], 0, {}) : g \in DOMAIN Program}
PartsFound(S) == UNION {M!FoundParts(f, Apart) : f \in S}

LEMMA FoundLevels ==
    /\ FoundAt[0] = Tops
    /\ \A n \in 1..Height : FoundAt[n] = PartsFound(FoundAt[n - 1])
<1> DEFINE Body(g, n) == IF n = 0 THEN Tops ELSE PartsFound(g[n - 1])
           Exists(m) == \E g : g = [n \in 0..m |-> Body(g, n)]
           Some == {m \in Nat : Exists(m)}
<1>1. 0 \in Some
    <2> DEFINE g == [n \in 0..0 |-> Tops]
    <2>1. g = [n \in 0..0 |-> Body(g, n)]
        OBVIOUS
    <2>. QED BY <2>1
<1>2. ASSUME NEW m \in Nat, m \in Some PROVE m + 1 \in Some
    <2>1. PICK g : g = [n \in 0..m |-> Body(g, n)]
        BY <1>2
    <2> DEFINE h == [n \in 0..m + 1 |-> Body(g, n)]
    <2> HIDE DEF Body
    <2>2. \A n \in 0..m : h[n] = g[n]
        BY <2>1
    <2>3. \A n \in 0..m + 1 : Body(h, n) = Body(g, n)
        <3> HIDE DEF h
        <3>1. \A n \in 0..m + 1 : n # 0 => n - 1 \in 0..m
            OBVIOUS
        <3>. QED BY <2>2, <3>1 DEF Body
    <2>4. h = [n \in 0..m + 1 |-> Body(h, n)]
        BY <2>3
    <2>5. Exists(m + 1)
        <3> HIDE DEF h
        <3>. QED BY <2>4, Zenon
    <2> HIDE DEF Exists
    <2>. QED BY <2>5
<1>3. Height \in Some
    <2> HIDE DEF Some
    <2>. QED BY <1>1, <1>2, SetInduction, StartupAssumption
<1>4. FoundAt = [n \in 0..Height |-> Body(FoundAt, n)]
    BY <1>3, Zenon DEF FoundAt, Tops, PartsFound
<1>5. \A n \in 0..Height : FoundAt[n] = Body(FoundAt, n)
    <2> HIDE DEF Body
    <2>. QED BY <1>4
<1>. QED BY <1>5, StartupAssumption

(* Binders around an element are less deep than the element, and there are  *)
(* none around what is at the top of a global.                             *)
Levelled(f) ==
    /\ f.depth \in Nat
    /\ \A w \in f.outer : w[2] \in Nat /\ w[2] <= f.depth
    /\ f.element.x \in Toplevel => f.outer = {}

RegularPartsIn(S) == \A e \in S : Regular(e) /\ PartsIn(e, S)

LEMMA PartLevelled ==
    ASSUME NEW S, RegularPartsIn(S), NEW f, f.element \in S, Levelled(f), NEW i \in DOMAIN f.element.parts
    PROVE  LET p == M!FoundPart(f, i, Apart) IN p.element \in S /\ Levelled(p)
<1> DEFINE e == f.element
           own == M!golog_vars(e, f.depth)
           p == M!FoundPart(f, i, Apart)
<1>1. p.element = e.parts[i] /\ p.element \in S
    BY DEF M!FoundPart, M!Found, RegularPartsIn, PartsIn
<1>2. p.depth = IF i \in e.orphans \/ ~e.child THEN 1 ELSE f.depth + 1
    BY DEF M!FoundPart, M!Found
<1>3. p.outer = IF i \in e.orphans /\ e.x \in Apart THEN {} ELSE f.outer \cup own
    BY DEF M!FoundPart, M!Found
<1>4. \A w \in own : w[2] = f.depth + 1
    BY DEF M!golog_vars
<1>5. e.x \in Toplevel => own = {} /\ f.outer = {}
    BY DEF M!golog_vars, M!Binders, Toplevel, Levelled
<1>6. Regular(e)
    BY DEF RegularPartsIn
<1> HIDE DEF e, own, p
<1>7. p.depth \in Nat
    BY <1>2 DEF Levelled
<1>8. \A w \in p.outer : w[2] \in Nat /\ w[2] <= p.depth
    <2>1. CASE e.x \in Toplevel
        BY <1>3, <1>5, <2>1
    <2>2. CASE e.x \notin Toplevel /\ i \in e.orphans
        <3>1. e.x \in Apart
            BY <1>6, <2>2 DEF Regular
        <3>. QED BY <1>3, <2>2, <3>1
    <2>3. CASE e.x \notin Toplevel /\ i \notin e.orphans
        <3>1. p.depth = f.depth + 1
            BY <1>2, <1>6, <2>3 DEF Regular
        <3>2. p.outer = f.outer \cup own
            BY <1>3, <2>3
        <3>. QED BY <1>4, <3>1, <3>2 DEF Levelled
    <2>. QED BY <2>1, <2>2, <2>3
<1>9. p.element.x \in Toplevel => p.outer = {}
    BY <1>1, <1>3, <1>5, <1>6 DEF Regular, e
<1>. QED BY <1>1, <1>7, <1>8, <1>9 DEF Levelled, p

LEMMA FoundLevelled ==
    ASSUME StartupInv, NEW n \in 0..Height
    PROVE  \A f \in FoundAt[n] : Levelled(f)
<1>1. PICK T : HasLeaves(T) /\ main \in T
    BY DEF StartupInv, MainClosed
<1> DEFINE S == ModelElements \cup T \cup {M!Procedure({}, main)}
           OK(f) == f.element \in S /\ Levelled(f)
           All(m) == \A f \in FoundAt[m] : OK(f)
           Some == {m \in Nat : m <= Height => All(m)}
<1>2. RegularPartsIn(S)
    <2>1. \A e \in ModelElements : Regular(e) /\ PartsIn(e, ModelElements)
        BY StartupAssumption DEF PartsIn
    <2>2. \A e \in T : Regular(e) /\ PartsIn(e, T)
        BY <1>1 DEF HasLeaves, Closed, Fit, RegularStatement
    <2>3. Made(M!Procedure({}, main), "procedure", <<main>>)
        BY OwnerMade DEF M!Procedure
    <2>4. Regular(M!Procedure({}, main)) /\ PartsIn(M!Procedure({}, main), T)
        BY <1>1, <2>3 DEF Made, Regular, PartsIn, Toplevel
    <2>. QED BY <2>1, <2>2, <2>4 DEF RegularPartsIn, PartsIn
<1>3. 0 \in Some
    <2>1. ASSUME NEW g \in DOMAIN Program PROVE OK(M!Found(Program[g], 0, {}))
        <3>1. Program[g] \in S
            BY ProgramIs, StartupAssumption DEF StartupInv
        <3>2. M!Found(Program[g], 0, {}).element = Program[g] /\ M!Found(Program[g], 0, {}).depth = 0
              /\ M!Found(Program[g], 0, {}).outer = {}
            BY DEF M!Found
        <3> HIDE DEF S
        <3>. QED BY <3>1, <3>2 DEF Levelled
    <2>2. All(0)
        <3> HIDE DEF OK
        <3>. QED BY <2>1, FoundLevels DEF Tops
    <2>. QED BY <2>2
<1>4. ASSUME NEW m \in Nat, m \in Some PROVE m + 1 \in Some
    <2> SUFFICES ASSUME m + 1 <= Height PROVE All(m + 1)
        OBVIOUS
    <2>1. m + 1 \in 1..Height /\ (m + 1) - 1 = m /\ m <= Height
        BY StartupAssumption
    <2>2. FoundAt[m + 1] = PartsFound(FoundAt[m])
        BY <2>1, FoundLevels
    <2>3. All(m)
        BY <1>4, <2>1
    <2> SUFFICES ASSUME NEW q \in FoundAt[m + 1] PROVE OK(q)
        OBVIOUS
    <2>4. PICK f \in FoundAt[m] : \E i \in DOMAIN f.element.parts : q = M!FoundPart(f, i, Apart)
        BY <2>2 DEF PartsFound, M!FoundParts
    <2>5. OK(f)
        BY <2>3
    <2> HIDE DEF S
    <2>. QED BY <1>2, <2>4, <2>5, PartLevelled
<1>5. n \in Some
    <2>1. n \in Nat
        BY StartupAssumption
    <2> HIDE DEF Some
    <2>. QED BY <1>3, <1>4, <2>1, SetInduction
<1>. QED BY <1>5, StartupAssumption

(* GologVarsDistinct: whatever the program, nested binders have different    *)
(* names, since a binder's level counts the elements around it, and where    *)
(* the chain of parents ends and does not begin anew there is no binder.     *)
THEOREM GologVarsDistinctCorrect == StartupSpec => []GologVarsDistinct
<1>1. ASSUME StartupInv PROVE GologVarsDistinct
    <2> SUFFICES ASSUME NEW n \in 0..Height, NEW f \in FoundAt[n]
                 PROVE  M!golog_vars(f.element, f.depth) \cap f.outer = {}
        BY DEF GologVarsDistinct
    <2>1. Levelled(f)
        BY <1>1, FoundLevelled
    <2>2. \A w \in M!golog_vars(f.element, f.depth) : w[2] = f.depth + 1
        BY DEF M!golog_vars
    <2>. QED BY <2>1, <2>2 DEF Levelled
<1>. QED BY <1>1, StartupInvariant, PTL

-----------------------------------------------------------------------------
(* StartupAssumption asks of the globals that each element is regular: the   *)
(* other constructors make nothing else of formulas and statements, either.  *)
LEMMA StatementsRegular ==
    ASSUME NEW S, Statements(S)
    PROVE  /\ \A parts : AllIn(parts, S) =>
                /\ \A name : Fit(M!Reference(name, parts), S)
                /\ Fit(M!ListExpression(parts), S) /\ Fit(M!CompoundExpression(parts), S)
                /\ Fit(M!Block(parts), S) /\ Fit(M!Choose(parts), S) /\ Fit(M!Concurrent(parts), S)
           /\ \A a \in S :
                /\ Fit(M!ToString(a), S) /\ Fit(M!FieldAccess(a), S) /\ Fit(M!ListLength(a), S)
                /\ Fit(M!ListPop(a), S) /\ Fit(M!DurativeCall(a), S)
           /\ \A a, b \in S :
                /\ Fit(M!BooleanOperation(a, b), S) /\ Fit(M!ArithmeticOperation(a, b), S)
                /\ Fit(M!StringConcatenation(a, b), S) /\ Fit(M!ListAccess(a, b), S)
                /\ Fit(M!Assignment(a, b), S) /\ Fit(M!ListPush(a, b), S)
<1>1. ASSUME NEW e, NEW parts, AllIn(parts, S), e.parts = parts, e.child = TRUE,
             e.x \in {"to_string", "list", "compound"}
      PROVE  Fit(e, S)
    BY <1>1, KindsOfElements DEF Fit, RegularStatement, Regular, PartsIn, AllIn, Statements, Apart
<1>2. ASSUME NEW parts, AllIn(parts, S)
      PROVE  /\ \A name : Fit(M!Reference(name, parts), S)
             /\ Fit(M!ListExpression(parts), S) /\ Fit(M!CompoundExpression(parts), S)
             /\ Fit(M!Block(parts), S) /\ Fit(M!Choose(parts), S) /\ Fit(M!Concurrent(parts), S)
    <2>1. ASSUME NEW name PROVE Fit(M!Reference(name, parts), S)
        <3>1. Made(M!Reference(name, parts), "reference", parts)
            BY DEF Made, M!Reference, M!Element
        <3>. QED BY <1>2, <3>1, MadeGood DEF Ordinary
    <2>2. Fit(M!ListExpression(parts), S)
        <3>1. LET e == M!ListExpression(parts) IN e.x = "list" /\ e.parts = parts /\ e.child = TRUE
            BY DEF M!ListExpression, M!AllOrphans, M!Element
        <3>. QED BY <1>1, <1>2, <3>1
    <2>3. Fit(M!CompoundExpression(parts), S)
        <3>1. LET e == M!CompoundExpression(parts) IN e.x = "compound" /\ e.parts = parts /\ e.child = TRUE
            BY DEF M!CompoundExpression, M!AllOrphans, M!Element
        <3>. QED BY <1>1, <1>2, <3>1
    <2>4. \A kind \in {"block", "choose", "concurrent"} : Fit(M!Owner(kind, {}, parts), S)
        BY <1>2, MadeGood, OwnerMade DEF Ordinary
    <2>. QED BY <2>1, <2>2, <2>3, <2>4 DEF M!Block, M!Choose, M!Concurrent
<1>3. ASSUME NEW a \in S
      PROVE  /\ Fit(M!ToString(a), S) /\ Fit(M!FieldAccess(a), S) /\ Fit(M!ListLength(a), S)
             /\ Fit(M!ListPop(a), S) /\ Fit(M!DurativeCall(a), S)
    <2>1. AllIn(<<a>>, S)
        BY OneIn
    <2>2. Fit(M!ToString(a), S)
        <3>1. LET e == M!ToString(a) IN e.x = "to_string" /\ e.parts = <<a>> /\ e.child = TRUE
            BY DEF M!ToString, M!AllOrphans, M!Element
        <3>. QED BY <1>1, <2>1, <3>1
    <2>3. \A kind \in {"field", "length", "pop", "hook"} : Fit(M!Element(kind, <<a>>), S)
        BY <2>1, MadeGood, ElementMade DEF Ordinary
    <2>. QED BY <2>2, <2>3 DEF M!FieldAccess, M!ListLength, M!ListPop, M!DurativeCall
<1>4. ASSUME NEW a \in S, NEW b \in S
      PROVE  /\ Fit(M!BooleanOperation(a, b), S) /\ Fit(M!ArithmeticOperation(a, b), S)
             /\ Fit(M!StringConcatenation(a, b), S) /\ Fit(M!ListAccess(a, b), S)
             /\ Fit(M!Assignment(a, b), S) /\ Fit(M!ListPush(a, b), S)
    <2>1. AllIn(<<a, b>>, S)
        BY TwoIn
    <2>2. \A kind \in {"boolean", "arithmetic", "concatenation", "access", "assign", "push"} :
                Fit(M!Element(kind, <<a, b>>), S)
        BY <2>1, MadeGood, ElementMade DEF Ordinary
    <2>. QED BY <2>2 DEF M!BooleanOperation, M!ArithmeticOperation, M!StringConcatenation, M!ListAccess,
                        M!Assignment, M!ListPush
<1>. QED BY <1>2, <1>3, <1>4
=============================================================================
