----------------------------- MODULE FoldLemmas -----------------------------
(***************************************************************************)
(* Induction over the naturals and over FoldLeft, with sets and functions  *)
(* in the place of predicates and operators, so that the lemmas can be     *)
(* cited by name.                                                          *)
(***************************************************************************)
EXTENDS SequencesExt, FiniteSetsExt, Integers, TLAPS, WellFoundedInduction

LEMMA LessThan ==
    \A x \in Nat, y \in Nat : (<<x, y>> \in OpToRel(<, Nat)) <=> x < y
BY DEF OpToRel

(* A set with 0 that is closed under successor holds all naturals: no natural
   is the least one outside. *)
LEMMA SetInduction ==
    ASSUME NEW G, 0 \in G, \A n \in Nat : n \in G => n + 1 \in G
    PROVE  Nat \subseteq G
<1> DEFINE Bad == Nat \ G
<1> SUFFICES ASSUME Bad # {} PROVE FALSE
    OBVIOUS
<1>1. PICK n \in Bad : \A m \in Bad : ~(<<m, n>> \in OpToRel(<, Nat))
    <2>1. Bad \subseteq Nat
        OBVIOUS
    <2> HIDE DEF Bad
    <2>. QED BY <2>1, NatLessThanWellFounded, WFMin, Zenon
<1>2. n \in Nat /\ n # 0 /\ n - 1 \in Nat /\ n - 1 < n
    OBVIOUS
<1>3. n - 1 \in G
    BY <1>1, <1>2, LessThan
<1>4. (n - 1) + 1 = n
    BY <1>2
<1>. QED BY <1>2, <1>3, <1>4

(* The largest of some numbers up to n: n minus the least distance from n. *)
LEMMA Largest ==
    ASSUME NEW n \in Nat, NEW S \in SUBSET (1..n), S # {}
    PROVE  Max(S) \in S /\ \A x \in S : Max(S) >= x
<1> DEFINE D == {d \in Nat : n - d \in S}
<1>1. D # {} /\ D \subseteq Nat
    <2>1. PICK x \in S : TRUE
        OBVIOUS
    <2>2. n - x \in Nat /\ n - (n - x) = x
        OBVIOUS
    <2>. QED BY <2>1, <2>2
<1>2. PICK d \in D : \A y \in D : ~(<<y, d>> \in OpToRel(<, Nat))
    <2> HIDE DEF D
    <2>. QED BY <1>1, NatLessThanWellFounded, WFMin, Zenon
<1>3. d \in Nat /\ n - d \in S
    OBVIOUS
<1>4. \A x \in S : n - d >= x
    <2>1. SUFFICES ASSUME NEW x \in S PROVE n - d >= x
        OBVIOUS
    <2>2. x \in Nat /\ n - x \in Nat /\ n - (n - x) = x
        OBVIOUS
    <2>3. n - x \in D
        BY <2>2
    <2>4. ~(n - x < d)
        BY <1>2, <1>3, <2>2, <2>3, LessThan
    <2>. QED BY <1>3, <2>2, <2>4
<1>. QED BY <1>3, <1>4 DEF Max

LEMMA TopLargest ==
    ASSUME NEW n \in Nat, NEW S \in SUBSET (1..n), n \in S
    PROVE  Max(S) = n
<1>1. Max(S) \in S /\ Max(S) >= n
    BY Largest
<1>2. Max(S) \in 1..n
    BY <1>1
<1>. QED BY <1>1, <1>2

LEMMA Larger ==
    ASSUME NEW a \in Int, NEW b \in Int
    PROVE  LET m == Max({a, b}) IN m \in {a, b} /\ m >= a /\ m >= b
BY DEF Max

-----------------------------------------------------------------------------
(* What FoldLeft(F, base, seq) computes for the sets of indices of seq. *)
IsFold(g, F, base, seq, I) ==
    \A s \in SUBSET I :
        g[s] = IF s = {} THEN base ELSE F[<<g[s \ {Max(s)}], seq[Max(s)]>>]

(* The recursive function behind a fold of F from S \X T to S exists. *)
LEMMA FoldExists ==
    ASSUME NEW S, NEW T, NEW F \in [S \X T -> S], NEW base \in S, NEW seq \in Seq(T)
    PROVE  \E g \in [SUBSET (1..Len(seq)) -> S] : IsFold(g, F, base, seq, 1..Len(seq))
<1> DEFINE n == Len(seq)
           Exists(k) == \E g \in [SUBSET (1..k) -> S] : IsFold(g, F, base, seq, 1..k)
           G == {k \in Nat : k =< n => Exists(k)}
<1>1. n \in Nat /\ \A k \in 1..n : seq[k] \in T
    OBVIOUS
<1>2. 0 \in G
    <2> DEFINE g == [s \in SUBSET (1..0) |-> base]
    <2>1. 1..0 = {}
        OBVIOUS
    <2>2. g \in [SUBSET (1..0) -> S] /\ IsFold(g, F, base, seq, 1..0)
        BY <2>1 DEF IsFold
    <2>. QED BY <2>2
<1>3. ASSUME NEW k \in Nat, k \in G PROVE k + 1 \in G
    <2> HIDE DEF Exists
    <2> SUFFICES ASSUME k + 1 =< n PROVE Exists(k + 1)
        OBVIOUS
    <2>1. k =< n
        BY <1>1
    <2>2. PICK g \in [SUBSET (1..k) -> S] : IsFold(g, F, base, seq, 1..k)
        BY <1>3, <2>1 DEF Exists
    <2> DEFINE h == [s \in SUBSET (1..k + 1) |->
                        IF k + 1 \in s THEN F[<<g[s \ {k + 1}], seq[k + 1]>>] ELSE g[s]]
    <2>3. \A s \in SUBSET (1..k + 1) :
              /\ s \ {k + 1} \in SUBSET (1..k)
              /\ k + 1 \notin s => s \in SUBSET (1..k)
        OBVIOUS
    <2>4. seq[k + 1] \in T
        BY <1>1
    <2>5. h \in [SUBSET (1..k + 1) -> S]
        BY <2>3, <2>4
    <2>6. ASSUME NEW s \in SUBSET (1..k + 1)
          PROVE  h[s] = IF s = {} THEN base ELSE F[<<h[s \ {Max(s)}], seq[Max(s)]>>]
        <3>1. CASE k + 1 \in s
            <4>1. Max(s) = k + 1
                BY <3>1, TopLargest, k + 1 \in Nat
            <4>2. s \ {k + 1} \in SUBSET (1..k + 1) /\ k + 1 \notin s \ {k + 1}
                OBVIOUS
            <4>3. h[s \ {k + 1}] = g[s \ {k + 1}]
                BY <4>2
            <4>4. h[s] = F[<<g[s \ {k + 1}], seq[k + 1]>>]
                BY <3>1
            <4> HIDE DEF h, G
            <4>. QED BY <3>1, <4>1, <4>3, <4>4
        <3>2. CASE k + 1 \notin s
            <4>1. s \in SUBSET (1..k) /\ h[s] = g[s]
                BY <2>3, <3>2
            <4>2. CASE s = {}
                BY <2>2, <4>1, <4>2 DEF IsFold
            <4>3. CASE s # {}
                <5>1. Max(s) \in s
                    BY <4>1, <4>3, Largest
                <5>2. s \ {Max(s)} \in SUBSET (1..k) /\ s \ {Max(s)} \in SUBSET (1..k + 1)
                      /\ k + 1 \notin s \ {Max(s)}
                    BY <3>2, <4>1
                <5>3. h[s \ {Max(s)}] = g[s \ {Max(s)}]
                    BY <5>2
                <5>4. g[s] = F[<<g[s \ {Max(s)}], seq[Max(s)]>>]
                    BY <2>2, <4>1, <4>3 DEF IsFold
                <5>. QED BY <4>1, <4>3, <5>3, <5>4
            <4>. QED BY <4>2, <4>3
        <3>. QED BY <3>1, <3>2
    <2> HIDE DEF h
    <2>7. IsFold(h, F, base, seq, 1..k + 1)
        BY <2>6 DEF IsFold
    <2>. QED BY <2>5, <2>7 DEF Exists
<1> HIDE DEF Exists
<1>4. n \in G
    <2> HIDE DEF G
    <2>. QED BY <1>1, <1>2, <1>3, SetInduction
<1>5. Exists(n)
    BY <1>1, <1>4
<1>. QED BY <1>5 DEF Exists

(* ... and a function that satisfies its equations stays in S. *)
LEMMA FoldTyped ==
    ASSUME NEW S, NEW n \in Nat, NEW base \in S, NEW g,
           g[{}] = base,
           \A s \in SUBSET (1..n) : s # {} /\ g[s \ {Max(s)}] \in S => g[s] \in S
    PROVE  g[1..n] \in S
<1> DEFINE G == {k \in Nat : k =< n => g[1..k] \in S}
<1>1. 0 \in G
    <2>1. 1..0 = {}
        OBVIOUS
    <2>. QED BY <2>1
<1>2. ASSUME NEW k \in Nat, k \in G PROVE k + 1 \in G
    <2> SUFFICES ASSUME k + 1 =< n PROVE g[1..k + 1] \in S
        OBVIOUS
    <2>1. 1..k + 1 \in SUBSET (1..n) /\ k + 1 \in 1..k + 1
        OBVIOUS
    <2>2. Max(1..k + 1) \in 1..k + 1 /\ Max(1..k + 1) >= k + 1
        BY <2>1, Largest
    <2>3. Max(1..k + 1) = k + 1
        BY <2>2
    <2>4. (1..k + 1) \ {k + 1} = 1..k
        OBVIOUS
    <2>5. g[1..k] \in S
        BY <1>2
    <2>. QED BY <2>1, <2>3, <2>4, <2>5
<1> HIDE DEF G
<1>3. n \in G
    BY <1>1, <1>2, SetInduction
<1>. QED BY <1>3 DEF G

(* ... and holds what its base and its elements have, if no step loses any of
   it: D[x] is what x holds, C[i] what the i-th element has. *)
Growing(g, S, base, n, D, C) ==
    /\ base \in S /\ g[{}] = base
    /\ \A s \in SUBSET (1..n) : s # {} /\ g[s \ {Max(s)}] \in S =>
           g[s] \in S /\ D[g[s \ {Max(s)}]] \cup C[Max(s)] \subseteq D[g[s]]

HoldsAll(x, S, base, n, D, C) ==
    /\ x \in S
    /\ D[base] \subseteq D[x]
    /\ \A i \in 1..n : C[i] \subseteq D[x]

LEMMA FoldGrows ==
    ASSUME NEW S, NEW n \in Nat, NEW base, NEW g, NEW D, NEW C, Growing(g, S, base, n, D, C)
    PROVE  HoldsAll(g[1..n], S, base, n, D, C)
<1> DEFINE Good(k) == HoldsAll(g[1..k], S, base, k, D, C)
           G == {k \in Nat : k =< n => Good(k)}
<1>1. 0 \in G
    <2>1. 1..0 = {}
        OBVIOUS
    <2>. QED BY <2>1 DEF Growing, HoldsAll
<1>2. ASSUME NEW k \in Nat, k \in G PROVE k + 1 \in G
    <2> SUFFICES ASSUME k + 1 =< n PROVE Good(k + 1)
        OBVIOUS
    <2>1. 1..k + 1 \in SUBSET (1..n) /\ k + 1 \in 1..k + 1
        OBVIOUS
    <2>2. Max(1..k + 1) = k + 1
        BY <2>1, TopLargest, k + 1 \in Nat
    <2>3. (1..k + 1) \ {k + 1} = 1..k
        OBVIOUS
    <2>4. Good(k)
        BY <1>2
    <2>5. g[1..k + 1] \in S /\ D[g[1..k]] \cup C[k + 1] \subseteq D[g[1..k + 1]]
        BY <2>1, <2>2, <2>3, <2>4 DEF Growing, HoldsAll
    <2>6. \A i \in 1..k + 1 : i \in 1..k \/ i = k + 1
        OBVIOUS
    <2> HIDE DEF G
    <2>. QED BY <2>4, <2>5, <2>6 DEF HoldsAll
<1> HIDE DEF G
<1>3. n \in G
    BY <1>1, <1>2, SetInduction
<1>. QED BY <1>3 DEF G

-----------------------------------------------------------------------------
(* Recursion over trees.  L[n] are the trees of a height of up to n; G[<<x, f>>]
   is what a recursive definition makes of the tree x with f for what it makes
   of the trees below, which is all it looks at. *)
Heights(L, N) == \A n \in 0..N : \A k \in 0..n : L[k] \subseteq L[n]

LooksBelow(G, L, N, V) ==
    /\ \A x \in L[N], f \in [L[N] -> V] : G[<<x, f>>] \in V
    /\ \A f, h \in [L[N] -> V] :
          /\ \A x \in L[0] : G[<<x, f>>] = G[<<x, h>>]
          /\ \A n \in 1..N : (\A y \in L[n - 1] : f[y] = h[y]) => \A x \in L[n] : G[<<x, f>>] = G[<<x, h>>]

(* Then there is a function that satisfies the definition. *)
LEMMA TreeRecursion ==
    ASSUME NEW N \in Nat, NEW L, NEW V, NEW v \in V, NEW G, Heights(L, N), LooksBelow(G, L, N, V)
    PROVE  \E f \in [L[N] -> V] : \A x \in L[N] : f[x] = G[<<x, f>>]
<1> DEFINE Fixed(f, n) == \A x \in L[n] : f[x] = G[<<x, f>>]
           Exists(n) == \E f \in [L[N] -> V] : Fixed(f, n)
           Good == {n \in Nat : n <= N => Exists(n)}
           Next(f) == [x \in L[N] |-> G[<<x, f>>]]
<1>1. \A f \in [L[N] -> V] : Next(f) \in [L[N] -> V]
    BY DEF LooksBelow
<1>2. \A n \in 0..N : L[n] \subseteq L[N]
    BY N \in 0..N DEF Heights
<1>3. 0 \in Good
    <2> DEFINE f == [x \in L[N] |-> v]
    <2>1. f \in [L[N] -> V] /\ Next(f) \in [L[N] -> V]
        BY <1>1
    <2>2. ASSUME NEW x \in L[0] PROVE Next(f)[x] = G[<<x, Next(f)>>]
        <3>1. Next(f)[x] = G[<<x, f>>]
            BY <1>2
        <3> HIDE DEF f, Next
        <3>. QED BY <2>1, <3>1 DEF LooksBelow
    <2> HIDE DEF f, Next
    <2>. QED BY <2>1, <2>2
<1>4. ASSUME NEW n \in Nat, n \in Good PROVE n + 1 \in Good
    <2> SUFFICES ASSUME n + 1 <= N PROVE Exists(n + 1)
        OBVIOUS
    <2>1. n \in 0..N /\ n + 1 \in 1..N /\ n + 1 \in 0..N /\ (n + 1) - 1 = n /\ n <= N
        OBVIOUS
    <2>2. PICK f \in [L[N] -> V] : Fixed(f, n)
        BY <1>4, <2>1
    <2>3. Next(f) \in [L[N] -> V]
        BY <1>1
    <2>4. \A y \in L[n] : Next(f)[y] = f[y]
        BY <1>2, <2>1, <2>2
    <2>5. ASSUME NEW x \in L[n + 1] PROVE Next(f)[x] = G[<<x, Next(f)>>]
        <3>1. Next(f)[x] = G[<<x, f>>]
            BY <1>2, <2>1
        <3> HIDE DEF Next
        <3>. QED BY <2>1, <2>3, <2>4, <3>1 DEF LooksBelow
    <2> HIDE DEF Next
    <2>. QED BY <2>3, <2>5
<1>5. N \in Good
    <2> HIDE DEF Good
    <2>. QED BY <1>3, <1>4, SetInduction
<1>. QED BY <1>5
=============================================================================
