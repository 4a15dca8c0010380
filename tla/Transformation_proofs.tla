------------------------ MODULE Transformation_proofs ------------------------
(***************************************************************************)
(* A plan comes back from taptenc with its transitions, in their order,    *)
(* with their arguments and in their windows, whatever the trace.          *)
(***************************************************************************)
EXTENDS Transformation, FoldLemmas, SequenceTheorems, FiniteSetTheorems

-----------------------------------------------------------------------------
(* Numbers. *)

LEMMA Divided ==
    ASSUME NEW d \in Nat \ {0}, NEW a \in Nat
    PROVE  a \div d \in Nat /\ d * (a \div d) <= a /\ a < d * (a \div d) + d
<1>1. a \div d \in Int
    OBVIOUS
<1>2. a = d * (a \div d) + (a % d) /\ a % d \in 0..(d - 1)
    OBVIOUS
<1> DEFINE q == a \div d
<1>3. d * q <= a /\ a < d * q + d
    BY <1>1, <1>2
<1> HIDE DEF q
<1>4. q >= 0
    <2>1. q \in Int /\ a >= 0 /\ d >= 1
        BY <1>1 DEF q
    <2>2. q < 0 => q + 1 <= 0
        BY <2>1
    <2>3. q + 1 <= 0 => d * (q + 1) <= 0
        BY <2>1
    <2>4. d * (q + 1) = d * q + d
        BY <2>1
    <2>. QED BY <1>3, <2>1, <2>2, <2>3, <2>4
<1>. QED BY <1>1, <1>3, <1>4 DEF q

LEMMA DividedMonotone ==
    ASSUME NEW d \in Nat \ {0}, NEW a \in Nat, NEW b \in Nat, a <= b
    PROVE  a \div d <= b \div d
<1> DEFINE p == a \div d
           q == b \div d
<1>1. p \in Nat /\ d * p <= a
    BY Divided
<1>2. q \in Nat /\ b < d * q + d
    BY Divided
<1> HIDE DEF p, q
<1>3. SUFFICES ASSUME q + 1 <= p PROVE FALSE
    BY <1>1, <1>2 DEF p, q
<1>4. d * (q + 1) <= d * p
    BY <1>1, <1>2, <1>3
<1>5. d * (q + 1) = d * q + d
    BY <1>2
<1>. QED BY <1>1, <1>2, <1>4, <1>5

LEMMA Smaller ==
    ASSUME NEW a \in Int, NEW b \in Int
    PROVE  LET m == Min({a, b}) IN m \in {a, b} /\ m <= a /\ m <= b
BY DEF Min

-----------------------------------------------------------------------------
(* Positions. *)

LEMMA UptoSteps ==
    ASSUME NEW n \in Nat, NEW at \in SUBSET (1..n)
    PROVE  /\ IsFiniteSet(at) /\ Cardinality(at) \in Nat
           /\ \A i \in 0..n : Upto(at, i) \in 0..Cardinality(at)
           /\ Upto(at, 0) = 0 /\ Upto(at, n) = Cardinality(at)
           /\ \A i \in 1..n : Upto(at, i) = Upto(at, i - 1) + (IF i \in at THEN 1 ELSE 0)
<1>1. IsFiniteSet(at) /\ Cardinality(at) \in Nat
    <2>1. IsFiniteSet(1..n)
        BY FS_Interval
    <2>. QED BY <2>1, FS_Subset, FS_CardinalityType
<1> DEFINE Below(i) == {j \in at : j <= i}
<1>0. \A j \in at : j \in Int /\ 1 <= j /\ j <= n
    OBVIOUS
<1>2. \A i \in 0..n : IsFiniteSet(Below(i)) /\ Cardinality(Below(i)) \in 0..Cardinality(at)
    <2> SUFFICES ASSUME NEW i \in 0..n
                 PROVE  IsFiniteSet(Below(i)) /\ Cardinality(Below(i)) \in 0..Cardinality(at)
        OBVIOUS
    <2>1. Below(i) \in SUBSET at
        OBVIOUS
    <2>2. IsFiniteSet(Below(i)) /\ Cardinality(Below(i)) <= Cardinality(at)
        BY <1>1, <2>1, FS_Subset
    <2>3. Cardinality(Below(i)) \in Nat
        BY <2>2, FS_CardinalityType
    <2> HIDE DEF Below
    <2>. QED BY <1>1, <2>2, <2>3
<1>3. Cardinality(Below(0)) = 0
    <2>0. \A j \in at : ~(j <= 0)
        BY <1>0
    <2>1. Below(0) = {}
        BY <2>0, Zenon
    <2>. QED BY <2>1, FS_EmptySet
<1>4. Below(n) = at
    BY <1>0
<1>5. ASSUME NEW i \in 1..n
      PROVE  Cardinality(Below(i)) = Cardinality(Below(i - 1)) + (IF i \in at THEN 1 ELSE 0)
    <2>1. i - 1 \in 0..n /\ i \notin Below(i - 1)
        OBVIOUS
    <2>0. \A j \in at : j <= i <=> (j <= i - 1 \/ j = i)
        BY <1>0
    <2>4. i <= i
        OBVIOUS
    <2>2. CASE i \in at
        <3>1. Below(i) = Below(i - 1) \cup {i}
            BY <2>0, <2>4, <2>2, Zenon
        <3> HIDE DEF Below
        <3>. QED BY <1>2, <2>1, <2>2, <3>1, FS_AddElement
    <2>3. CASE i \notin at
        <3>1. Below(i) = Below(i - 1)
            BY <2>0, <2>3, Zenon
        <3> HIDE DEF Below
        <3>2. Cardinality(Below(i - 1)) \in Nat
            BY <1>2, <2>1
        <3>. QED BY <2>3, <3>1, <3>2
    <2>. QED BY <2>2, <2>3
<1>6. \A i : Upto(at, i) = Cardinality(Below(i))
    BY DEF Upto
<1> HIDE DEF Below
<1>. QED BY <1>1, <1>2, <1>3, <1>4, <1>5, <1>6

(* The k-th position is there, and it is the only one. *)
LEMMA NthIs ==
    ASSUME NEW n \in Nat, NEW at \in SUBSET (1..n)
    PROVE  /\ Cardinality(at) \in Nat
           /\ \A k \in 1..Cardinality(at) : Nth(at, k) \in at /\ Upto(at, Nth(at, k)) = k
           /\ \A i \in at : Upto(at, i) \in 1..Cardinality(at) /\ Nth(at, Upto(at, i)) = i
<1> DEFINE c == Cardinality(at)
           U(i) == Upto(at, i)
<1>1. /\ c \in Nat /\ U(0) = 0 /\ U(n) = c
      /\ \A i \in 0..n : U(i) \in 0..c
      /\ \A i \in 1..n : U(i) = U(i - 1) + (IF i \in at THEN 1 ELSE 0)
    BY UptoSteps, Zenon
<1> HIDE DEF c, U
<1> DEFINE Below(m) == m <= n => /\ \A k \in 1..U(m) : \E i \in at : i <= m /\ U(i) = k
                                 /\ \A i \in at : i <= m => U(i) <= U(m)
                                 /\ \A i, j \in at : i < j /\ j <= m => U(i) < U(j)
           G == {m \in Nat : Below(m)}
<1>2. 0 \in G
    BY <1>1
<1>3. ASSUME NEW m \in Nat, m \in G PROVE m + 1 \in G
    <2> SUFFICES ASSUME m + 1 <= n PROVE Below(m + 1)
        OBVIOUS
    <2>1. m \in 0..n /\ m + 1 \in 1..n /\ (m + 1) - 1 = m /\ m <= n
        OBVIOUS
    <2>2. /\ \A k \in 1..U(m) : \E i \in at : i <= m /\ U(i) = k
          /\ \A i \in at : i <= m => U(i) <= U(m)
          /\ \A i, j \in at : i < j /\ j <= m => U(i) < U(j)
        BY <1>3, <2>1
    <2>3. /\ U(m) \in Nat /\ U(m + 1) \in Nat
          /\ U(m + 1) = U(m) + (IF m + 1 \in at THEN 1 ELSE 0)
        BY <1>1, <2>1
    <2>4. \A i \in at : i \in 1..n /\ U(i) \in Nat /\ (i <= m + 1 => i <= m \/ i = m + 1)
        BY <1>1
    <2> HIDE DEF G
    <2>5. ASSUME NEW k \in 1..U(m + 1) PROVE \E i \in at : i <= m + 1 /\ U(i) = k
        <3>1. CASE k <= U(m)
            <4>1. k \in 1..U(m)
                BY <2>3, <3>1
            <4>2. PICK i \in at : i <= m /\ U(i) = k
                BY <2>2, <4>1
            <4>3. i <= m + 1
                BY <2>4, <4>2
            <4>. QED BY <4>2, <4>3
        <3>2. CASE ~(k <= U(m))
            <4>1. m + 1 \in at /\ k = U(m + 1)
                BY <2>3, <3>2
            <4>. QED BY <4>1
        <3>. QED BY <3>1, <3>2
    <2>6. \A i \in at : i <= m + 1 => U(i) <= U(m + 1)
        BY <2>2, <2>3, <2>4
    <2>7. ASSUME NEW i \in at, NEW j \in at, i < j, j <= m + 1 PROVE U(i) < U(j)
        <3>1. CASE j <= m
            BY <2>2, <2>7, <3>1
        <3>2. CASE j = m + 1
            <4>1. i <= m /\ U(i) <= U(m) /\ U(j) = U(m) + 1
                BY <2>2, <2>3, <2>4, <2>7, <3>2
            <4>. QED BY <2>3, <2>4, <4>1
        <3>. QED BY <2>4, <2>7, <3>1, <3>2
    <2>. QED BY <2>5, <2>6, <2>7
<1>4. n \in G
    <2> HIDE DEF G
    <2>. QED BY <1>2, <1>3, SetInduction
<1>5. /\ \A k \in 1..c : \E i \in at : U(i) = k
      /\ \A i \in at : U(i) <= c
      /\ \A i, j \in at : i < j => U(i) < U(j)
    BY <1>1, <1>4
<1>6. ASSUME NEW k \in 1..c PROVE Nth(at, k) \in at /\ U(Nth(at, k)) = k
    <2>1. \E i \in at : Upto(at, i) = k
        BY <1>5 DEF U
    <2>. QED BY <2>1 DEF Nth, U
<1>7. ASSUME NEW i \in at PROVE U(i) \in 1..c /\ Nth(at, U(i)) = i
    <2>1. U(i) \in 1..c
        <3>1. i \in 1..n /\ i - 1 \in 0..n
            OBVIOUS
        <3>. QED BY <1>1, <1>5, <3>1
    <2> DEFINE j == Nth(at, U(i))
    <2>2. j \in at /\ U(j) = U(i)
        BY <1>6, <2>1
    <2> HIDE DEF j
    <2>3. i \in 1..n /\ j \in 1..n /\ U(i) \in Int /\ U(j) \in Int
        BY <2>1, <2>2
    <2>4. j = i
        BY <1>5, <2>2, <2>3
    <2>. QED BY <2>1, <2>4 DEF j
<1>. QED BY <1>1, <1>6, <1>7 DEF c, U

(* Of n + m positions those that are not among m are n, numbered in order. *)
LEMMA OtherPositions ==
    ASSUME NEW n \in Nat, NEW m \in Nat, NEW D \in SUBSET (1..n + m), Cardinality(D) = m
    PROVE  LET A == (1..n + m) \ D
           IN  Cardinality(A) = n /\ \A i \in 0..n + m : Upto(A, i) = i - Upto(D, i)
<1> DEFINE A == (1..n + m) \ D
           G == {i \in Nat : i <= n + m => Upto(A, i) = i - Upto(D, i)}
<1>1. n + m \in Nat /\ A \in SUBSET (1..n + m)
    OBVIOUS
<1>2. /\ Upto(A, 0) = 0 /\ Upto(A, n + m) = Cardinality(A) /\ Cardinality(A) \in Nat
      /\ \A i \in 0..n + m : Upto(A, i) \in 0..Cardinality(A)
      /\ \A i \in 1..n + m : Upto(A, i) = Upto(A, i - 1) + (IF i \in A THEN 1 ELSE 0)
    <2> HIDE DEF A
    <2>. QED BY <1>1, UptoSteps, Zenon
<1>3. /\ Upto(D, 0) = 0 /\ Upto(D, n + m) = m
      /\ \A i \in 0..n + m : Upto(D, i) \in 0..m
      /\ \A i \in 1..n + m : Upto(D, i) = Upto(D, i - 1) + (IF i \in D THEN 1 ELSE 0)
    BY <1>1, UptoSteps, Zenon
<1>4. \A i \in 1..n + m : i \in A <=> i \notin D
    OBVIOUS
<1> HIDE DEF A
<1>5. 0 \in G
    BY <1>2, <1>3
<1>6. ASSUME NEW i \in Nat, i \in G PROVE i + 1 \in G
    <2> SUFFICES ASSUME i + 1 <= n + m PROVE Upto(A, i + 1) = (i + 1) - Upto(D, i + 1)
        OBVIOUS
    <2>1. i \in 0..n + m /\ i + 1 \in 1..n + m /\ i + 1 \in 0..n + m /\ (i + 1) - 1 = i
        OBVIOUS
    <2>2. Upto(A, i) = i - Upto(D, i)
        BY <1>6, <2>1
    <2>3. /\ Upto(A, i + 1) = Upto(A, i) + (IF i + 1 \in A THEN 1 ELSE 0)
          /\ Upto(D, i + 1) = Upto(D, i) + (IF i + 1 \in D THEN 1 ELSE 0)
        BY <1>2, <1>3, <2>1
    <2>4. Upto(A, i) \in Int /\ Upto(D, i) \in Int
        BY <1>2, <1>3, <2>1
    <2> HIDE DEF G
    <2>. QED BY <1>4, <2>1, <2>2, <2>3, <2>4
<1>7. Nat \subseteq G
    <2> HIDE DEF G
    <2>. QED BY <1>5, <1>6, SetInduction
<1>8. \A i \in 0..n + m : Upto(A, i) = i - Upto(D, i)
    BY <1>7
<1>9. Cardinality(A) = n
    BY <1>1, <1>2, <1>3, <1>8
<1>. QED BY <1>8, <1>9 DEF A

LEMMA ElementsOwn ==
    ASSUME NEW n \in Nat, NEW a, a = [i \in 1..n |-> a[i]]
    PROVE  a \in Seq(Range(a))
<1>1. DOMAIN a = 1..n
    OBVIOUS
<1>2. \A i \in 1..n : a[i] \in Range(a)
    BY <1>1 DEF Range
<1>3. a \in [1..n -> Range(a)]
    BY <1>2
<1>. QED BY <1>3

-----------------------------------------------------------------------------
(* Arguments.  The two maps are inverse to each other, with the symbols in  *)
(* the order in which they were made.                                      *)
InverseMaps(m) ==
    /\ IsFiniteSet(DOMAIN m.symbols)
    /\ DOMAIN m.args = 0..Cardinality(DOMAIN m.symbols) - 1
    /\ \A v \in DOMAIN m.symbols : m.symbols[v] \in DOMAIN m.args /\ m.args[m.symbols[v]] = v

PartialMaps(K, V) == UNION {[D -> V] : D \in SUBSET K}
ArgMaps(V) == {m \in [symbols : PartialMaps(V, Nat), args : PartialMaps(Nat, V)] : InverseMaps(m)}

LEMMA ClearedMaps == ASSUME NEW V PROVE Cleared \in ArgMaps(V)
<1>1. <<>> \in [{} -> Nat] /\ <<>> \in [{} -> V]
    OBVIOUS
<1>2. {} \in SUBSET V /\ {} \in SUBSET Nat
    OBVIOUS
<1>3. <<>> \in PartialMaps(V, Nat) /\ <<>> \in PartialMaps(Nat, V)
    BY <1>1, <1>2, Zenon DEF PartialMaps
<1>4. DOMAIN <<>> = {} /\ IsFiniteSet({}) /\ Cardinality({}) = 0 /\ 0..0 - 1 = {}
    BY FS_EmptySet
<1>5. InverseMaps(Cleared)
    BY <1>4 DEF InverseMaps, Cleared
<1>. QED BY <1>3, <1>5 DEF ArgMaps, Cleared

Extends(new, map, k, v) ==
    /\ DOMAIN new = DOMAIN map \cup {k}
    /\ new[k] = v
    /\ \A j \in DOMAIN map : new[j] = map[j]

LEMMA InsertedIs ==
    ASSUME NEW K, NEW V, NEW map \in PartialMaps(K, V), NEW k \in K, NEW v \in V,
           k \notin DOMAIN map
    PROVE  /\ Inserted(map, k, v) \in PartialMaps(K, V)
           /\ Extends(Inserted(map, k, v), map, k, v)
<1>1. PICK D \in SUBSET K : map \in [D -> V]
    BY DEF PartialMaps
<1>2. Inserted(map, k, v) \in [D \cup {k} -> V] /\ D \cup {k} \in SUBSET K
    BY <1>1 DEF Inserted
<1>. QED BY <1>1, <1>2 DEF Inserted, PartialMaps, Extends

LEMMA StoreKeeps ==
    ASSUME NEW V, NEW m \in ArgMaps(V), NEW v \in V
    PROVE  /\ store_arg(m, v) \in ArgMaps(V)
           /\ DOMAIN m.symbols \cup {v} \subseteq DOMAIN store_arg(m, v).symbols
<1> DEFINE c == Cardinality(DOMAIN m.symbols)
           S == Inserted(m.symbols, v, c)
           A == Inserted(m.args, c, v)
<1>1. /\ m.symbols \in PartialMaps(V, Nat)
      /\ m.args \in PartialMaps(Nat, V)
      /\ InverseMaps(m)
    BY DEF ArgMaps
<1>2. c \in Nat /\ DOMAIN m.args = 0..c - 1
    BY <1>1, FS_CardinalityType DEF InverseMaps
<1>3. CASE v \in DOMAIN m.symbols
    BY <1>3 DEF store_arg
<1>4. CASE v \notin DOMAIN m.symbols
    <2>1. /\ S \in PartialMaps(V, Nat)
          /\ Extends(S, m.symbols, v, c)
        <3>1. m.symbols \in PartialMaps(V, Nat) /\ v \in V /\ c \in Nat /\ v \notin DOMAIN m.symbols
            BY <1>1, <1>2, <1>4
        <3> HIDE DEF c
        <3>. QED BY <3>1, InsertedIs, Zenon
    <2>2. c \notin DOMAIN m.args
        BY <1>2
    <2>3. /\ A \in PartialMaps(Nat, V)
          /\ Extends(A, m.args, c, v)
        <3>1. m.args \in PartialMaps(Nat, V) /\ c \in Nat /\ v \in V /\ c \notin DOMAIN m.args
            BY <1>1, <1>2, <2>2
        <3> HIDE DEF c
        <3>. QED BY <3>1, InsertedIs, Zenon
    <2>4. IsFiniteSet(DOMAIN S) /\ Cardinality(DOMAIN S) = c + 1
        <3>1. IsFiniteSet(DOMAIN m.symbols)
            BY <1>1 DEF InverseMaps
        <3> HIDE DEF S
        <3>. QED BY <1>4, <2>1, <3>1, FS_AddElement DEF Extends
    <2>5. store_arg(m, v) = [symbols |-> S, args |-> A]
        BY <1>4 DEF store_arg
    <2> HIDE DEF S, A, c
    <2>6. DOMAIN A = 0..(c + 1) - 1
        BY <1>2, <2>3 DEF Extends
    <2>7. \A w \in DOMAIN S : S[w] \in DOMAIN A /\ A[S[w]] = w
        <3>1. \A w \in DOMAIN m.symbols : m.symbols[w] \in DOMAIN m.args /\ m.args[m.symbols[w]] = w
            BY <1>1 DEF InverseMaps
        <3>. QED BY <2>1, <2>3, <3>1 DEF Extends
    <2>8. InverseMaps([symbols |-> S, args |-> A])
        BY <2>4, <2>6, <2>7 DEF InverseMaps
    <2>. QED BY <2>1, <2>3, <2>5, <2>8 DEF ArgMaps, Extends
<1>. QED BY <1>3, <1>4

(* All arguments of an action, and then those of all transitions. *)
LEMMA AllStored ==
    ASSUME NEW V, NEW m \in ArgMaps(V), NEW a \in Seq(V)
    PROVE  /\ FoldLeft(store_arg, m, a) \in ArgMaps(V)
           /\ DOMAIN m.symbols \subseteq DOMAIN FoldLeft(store_arg, m, a).symbols
           /\ \A i \in 1..Len(a) : a[i] \in DOMAIN FoldLeft(store_arg, m, a).symbols
<1> DEFINE n == Len(a)
           S == ArgMaps(V)
           F == [x \in S \X V |-> store_arg(x[1], x[2])]
           Fold(g) == [s \in SUBSET (DOMAIN a) |->
                         IF s = {} THEN m ELSE store_arg(g[s \ {Max(s)}], a[Max(s)])]
           iter == CHOOSE g : g = Fold(g)
           D == [x \in S |-> DOMAIN x.symbols]
           C == [i \in 1..n |-> {a[i]}]
<1>1. n \in Nat /\ DOMAIN a = 1..n /\ \A k \in 1..n : a[k] \in V
    OBVIOUS
<1>2. FoldLeft(store_arg, m, a) = iter[DOMAIN a]
    BY DEF FoldLeft, MapThenFoldSet
<1>3. \A x \in S, v \in V : store_arg(x, v) \in S /\ DOMAIN x.symbols \cup {v} \subseteq DOMAIN store_arg(x, v).symbols
    BY StoreKeeps
<1> m \in S
    OBVIOUS
<1> HIDE DEF S
<1>4. F \in [S \X V -> S]
    BY <1>3
<1>5. \E g : g = Fold(g)
    <2>1. PICK g \in [SUBSET (1..n) -> S] : IsFold(g, F, m, a, 1..n)
        <3> HIDE DEF F
        <3>. QED BY <1>4, FoldExists, Zenon
    <2>2. ASSUME NEW s \in SUBSET (1..n), s # {}
          PROVE  g[s] = store_arg(g[s \ {Max(s)}], a[Max(s)])
        <3>1. Max(s) \in s /\ s \ {Max(s)} \in SUBSET (1..n)
            BY <1>1, <2>2, Largest
        <3>2. g[s \ {Max(s)}] \in S /\ a[Max(s)] \in V
            BY <1>1, <3>1
        <3>3. g[s] = F[<<g[s \ {Max(s)}], a[Max(s)]>>]
            <4> HIDE DEF F
            <4>. QED BY <2>1, <2>2 DEF IsFold
        <3>. QED BY <3>2, <3>3
    <2>3. g[{}] = m
        <3> HIDE DEF F
        <3>. QED BY <2>1 DEF IsFold
    <2>. QED BY <1>1, <2>2, <2>3
<1>6. iter = Fold(iter)
    <2> HIDE DEF Fold
    <2>. QED BY <1>5
<1> HIDE DEF iter, F
<1>7. iter[{}] = m
    BY <1>6
<1>8. \A s \in SUBSET (1..n) : s # {} /\ iter[s \ {Max(s)}] \in S =>
          iter[s] \in S /\ D[iter[s \ {Max(s)}]] \cup C[Max(s)] \subseteq D[iter[s]]
    <2> SUFFICES ASSUME NEW s \in SUBSET (1..n), s # {}, iter[s \ {Max(s)}] \in S
                 PROVE  iter[s] \in S /\ D[iter[s \ {Max(s)}]] \cup C[Max(s)] \subseteq D[iter[s]]
        OBVIOUS
    <2>1. Max(s) \in s
        BY <1>1, Largest
    <2>2. iter[s] = store_arg(iter[s \ {Max(s)}], a[Max(s)])
        BY <1>1, <1>6
    <2>3. a[Max(s)] \in V /\ Max(s) \in 1..n
        BY <1>1, <2>1
    <2>. QED BY <1>3, <2>2, <2>3
<1> HIDE DEF Fold, D, C
<1>9. Growing(iter, S, m, n, D, C)
    BY <1>7, <1>8, m \in S DEF Growing
<1>10. HoldsAll(iter[1..n], S, m, n, D, C)
    BY <1>1, <1>9, FoldGrows, Zenon
<1>. QED BY <1>1, <1>2, <1>10 DEF C, D, S, HoldsAll

LEMMA AllArgsStored ==
    ASSUME NEW V, NEW T, \A e \in T : e.args \in Seq(V), NEW ts \in Seq(T)
    PROVE  LET m == FoldLeft(LAMBDA maps, e : FoldLeft(store_arg, maps, e.args), Cleared, ts)
           IN  /\ m \in ArgMaps(V)
               /\ \A k \in 1..Len(ts) : \A i \in 1..Len(ts[k].args) : ts[k].args[i] \in DOMAIN m.symbols
<1> DEFINE n == Len(ts)
           S == ArgMaps(V)
           Step(m, e) == FoldLeft(store_arg, m, e.args)
           F == [x \in S \X T |-> Step(x[1], x[2])]
           Fold(g) == [s \in SUBSET (DOMAIN ts) |->
                         IF s = {} THEN Cleared ELSE Step(g[s \ {Max(s)}], ts[Max(s)])]
           iter == CHOOSE g : g = Fold(g)
           D == [x \in S |-> DOMAIN x.symbols]
           C == [k \in 1..n |-> {ts[k].args[i] : i \in 1..Len(ts[k].args)}]
<1>1. n \in Nat /\ DOMAIN ts = 1..n /\ \A k \in 1..n : ts[k] \in T
    OBVIOUS
<1>2. FoldLeft(LAMBDA maps, e : FoldLeft(store_arg, maps, e.args), Cleared, ts) = iter[DOMAIN ts]
    BY DEF FoldLeft, MapThenFoldSet
<1>3. \A x \in S, e \in T :
          /\ Step(x, e) \in S
          /\ DOMAIN x.symbols \subseteq DOMAIN Step(x, e).symbols
          /\ \A i \in 1..Len(e.args) : e.args[i] \in DOMAIN Step(x, e).symbols
    BY AllStored
<1>0. Cleared \in S
    BY ClearedMaps
<1> HIDE DEF S, Step
<1>4. F \in [S \X T -> S]
    BY <1>3
<1>5. \E g : g = Fold(g)
    <2>1. PICK g \in [SUBSET (1..n) -> S] : IsFold(g, F, Cleared, ts, 1..n)
        <3> HIDE DEF F
        <3>. QED BY <1>0, <1>4, FoldExists, Zenon
    <2>2. ASSUME NEW s \in SUBSET (1..n), s # {}
          PROVE  g[s] = Step(g[s \ {Max(s)}], ts[Max(s)])
        <3>1. Max(s) \in s /\ s \ {Max(s)} \in SUBSET (1..n)
            BY <1>1, <2>2, Largest
        <3>2. g[s \ {Max(s)}] \in S /\ ts[Max(s)] \in T
            BY <1>1, <3>1
        <3>3. g[s] = F[<<g[s \ {Max(s)}], ts[Max(s)]>>]
            <4> HIDE DEF F
            <4>. QED BY <2>1, <2>2 DEF IsFold
        <3>. QED BY <3>2, <3>3
    <2>3. g[{}] = Cleared
        <3> HIDE DEF F
        <3>. QED BY <2>1 DEF IsFold
    <2>. QED BY <1>1, <2>2, <2>3
<1>6. iter = Fold(iter)
    <2> HIDE DEF Fold
    <2>. QED BY <1>5
<1> HIDE DEF iter, F
<1>7. iter[{}] = Cleared
    BY <1>6
<1>8. \A s \in SUBSET (1..n) : s # {} /\ iter[s \ {Max(s)}] \in S =>
          iter[s] \in S /\ D[iter[s \ {Max(s)}]] \cup C[Max(s)] \subseteq D[iter[s]]
    <2> SUFFICES ASSUME NEW s \in SUBSET (1..n), s # {}, iter[s \ {Max(s)}] \in S
                 PROVE  iter[s] \in S /\ D[iter[s \ {Max(s)}]] \cup C[Max(s)] \subseteq D[iter[s]]
        OBVIOUS
    <2>1. Max(s) \in s
        BY <1>1, Largest
    <2>2. iter[s] = Step(iter[s \ {Max(s)}], ts[Max(s)])
        BY <1>1, <1>6
    <2>3. ts[Max(s)] \in T /\ Max(s) \in 1..n
        BY <1>1, <2>1
    <2>. QED BY <1>3, <2>2, <2>3
<1> HIDE DEF Fold, D, C
<1>9. Growing(iter, S, Cleared, n, D, C)
    BY <1>0, <1>7, <1>8 DEF Growing
<1>10. HoldsAll(iter[1..n], S, Cleared, n, D, C)
    BY <1>1, <1>9, FoldGrows, Zenon
<1>11. iter[1..n] \in ArgMaps(V)
    BY <1>10 DEF HoldsAll, S
<1>12. ASSUME NEW k \in 1..n, NEW i \in 1..Len(ts[k].args) PROVE ts[k].args[i] \in DOMAIN iter[1..n].symbols
    <2>1. C[k] \subseteq D[iter[1..n]]
        BY <1>10 DEF HoldsAll
    <2>2. D[iter[1..n]] = DOMAIN iter[1..n].symbols
        BY <1>10 DEF D, HoldsAll
    <2>3. ts[k].args[i] \in C[k]
        BY DEF C
    <2>. QED BY <2>1, <2>2, <2>3
<1> HIDE DEF n
<1>. QED BY <1>1, <1>2, <1>11, <1>12 DEF n

(* So the symbols of arguments lead back to these. *)
Recovered(ts, m) ==
    \A k \in 1..Len(ts) : \A i \in 1..Len(ts[k].args) : m.args[m.symbols[ts[k].args[i]]] = ts[k].args[i]

LEMMA ArgsComeBack ==
    ASSUME NEW V, NEW T, \A e \in T : e.args \in Seq(V), NEW p, transitions(p) \in Seq(T)
    PROVE  Recovered(transitions(p), StoredArgs(p))
<1> DEFINE ts == transitions(p)
           m == FoldLeft(LAMBDA maps, e : FoldLeft(store_arg, maps, e.args), Cleared, ts)
<1>1. StoredArgs(p) = m
    BY DEF StoredArgs
<1> ts \in Seq(T)
    OBVIOUS
<1> HIDE DEF ts
<1>2. /\ m \in ArgMaps(V)
      /\ \A k \in 1..Len(ts) : \A i \in 1..Len(ts[k].args) : ts[k].args[i] \in DOMAIN m.symbols
    BY AllArgsStored
<1> HIDE DEF m
<1>3. \A v \in DOMAIN m.symbols : m.args[m.symbols[v]] = v
    BY <1>2 DEF ArgMaps, InverseMaps
<1>. QED BY <1>1, <1>2, <1>3 DEF ts, Recovered

-----------------------------------------------------------------------------
(* The transitions of a plan, in order. *)
LEMMA TransitionsOf ==
    ASSUME NEW n \in Nat, NEW p, DOMAIN p = 1..n
    PROVE  LET at == {i \in DOMAIN p : IsTransition(p[i])}
           IN  /\ at \in SUBSET (1..n) /\ Cardinality(at) \in Nat
               /\ transitions(p) = [k \in 1..Cardinality(at) |-> p[Nth(at, k)]]
               /\ \A k \in 1..Cardinality(at) : Nth(at, k) \in at
<1> DEFINE at == {i \in DOMAIN p : IsTransition(p[i])}
<1>1. at \in SUBSET (1..n)
    OBVIOUS
<1>2. transitions(p) = [k \in 1..Cardinality(at) |-> p[Nth(at, k)]]
    BY DEF transitions, Subsequence
<1> HIDE DEF at
<1>3. Cardinality(at) \in Nat /\ \A k \in 1..Cardinality(at) : Nth(at, k) \in at
    BY <1>1, NthIs, Zenon
<1>. QED BY <1>1, <1>2, <1>3 DEF at

TransitionsIn(p) == {p[i] : i \in {j \in DOMAIN p : IsTransition(p[j])}}
ArgsIn(p) == UNION {Range(e.args) : e \in TransitionsIn(p)}

LEMMA TransitionsTyped ==
    ASSUME NEW p, IsPlan(p)
    PROVE  /\ transitions(p) \in Seq(TransitionsIn(p))
           /\ \A e \in TransitionsIn(p) :
                  e.args \in Seq(ArgsIn(p)) /\ e.early \in Int /\ e.late \in Int /\ e.early <= e.late
<1> DEFINE n == Len(p)
           at == {i \in DOMAIN p : IsTransition(p[i])}
           T == TransitionsIn(p)
<1>1. n \in Nat /\ DOMAIN p = 1..n
    BY DEF IsPlan
<1>2. /\ Cardinality(at) \in Nat
      /\ transitions(p) = [k \in 1..Cardinality(at) |-> p[Nth(at, k)]]
      /\ \A k \in 1..Cardinality(at) : Nth(at, k) \in at
    <2> HIDE DEF n
    <2>. QED BY <1>1, TransitionsOf, Zenon
<1>3. \A i \in at : p[i] \in T
    BY DEF TransitionsIn
<1>4. transitions(p) \in Seq(T)
    <2> HIDE DEF at, T
    <2>. QED BY <1>2, <1>3
<1>5. ASSUME NEW e \in T
      PROVE  e.args \in Seq(ArgsIn(p)) /\ e.early \in Int /\ e.late \in Int /\ e.early <= e.late
    <2>1. PICK i \in DOMAIN p : IsTransition(p[i]) /\ e = p[i]
        BY DEF TransitionsIn
    <2>2. e.args \in Seq(Range(e.args)) /\ e.early \in Int /\ e.late \in Int /\ e.early <= e.late
        BY <2>1 DEF IsPlan
    <2>3. Range(e.args) \subseteq ArgsIn(p)
        BY DEF ArgsIn
    <2> HIDE DEF T
    <2>4. e.args \in Seq(ArgsIn(p))
        <3> DEFINE a == e.args
                   R == Range(a)
        <3>1. a \in Seq(R) /\ R \subseteq ArgsIn(p)
            BY <2>2, <2>3
        <3> HIDE DEF a, R
        <3>2. a \in Seq(ArgsIn(p))
            BY <3>1
        <3>. QED BY <3>2 DEF a
    <2>. QED BY <2>2, <2>4
<1>. QED BY <1>4, <1>5

-----------------------------------------------------------------------------
(* What comes back of a trace, element by element. *)
LEMMA WindowIs ==
    ASSUME TransformationAssumption, NEW e, e.earliest_start \in Nat, e.max_delay \in Int
    PROVE  /\ Window(e).early = Second * e.earliest_start
           /\ Window(e).early \in Nat /\ Window(e).late \in Nat
           /\ Window(e).early < Window(e).late
<1> DEFINE d == e.max_delay
           M == Max({1, d})
<1>1. M \in Int /\ M >= 1
    <2>1. d \in Int
        OBVIOUS
    <2> HIDE DEF d
    <2>2. M \in {1, d} /\ M >= 1
        BY <2>1 DEF Max
    <2>. QED BY <2>1, <2>2
<1> HIDE DEF M
<1>2. Second \in Nat /\ Second >= 1
    BY DEF TransformationAssumption
<1>3. Second * M \in Int /\ Second * M >= 1
    BY <1>1, <1>2
<1>4. Second * e.earliest_start \in Nat
    BY <1>2
<1>5. Window(e) = [early |-> Second * e.earliest_start,
                   late |-> Second * e.earliest_start + Second * M]
    BY DEF Window, M
<1>. QED BY <1>3, <1>4, <1>5

Bounded(a) ==
    /\ a.earliest \in Nat /\ a.latest \in Nat /\ a.earliest <= a.latest
    /\ "dest" \notin DOMAIN a.name

SwitchOf(e, t) ==
    /\ IsSwitch(e) /\ ~IsTransition(e)
    /\ e.component = t.source[1] /\ e.from = t.source[2] /\ e.to = t.dest[2]

TransitionOf(e, a, args) ==
    /\ IsTransition(e) /\ ~IsSwitch(e)
    /\ e.hook = a.name.hook /\ e.action = a.name.action
    /\ e.args = [j \in DOMAIN a.name.args |-> args[a.name.args[j]]]
    /\ \E s \in Nat : a.earliest <= s /\ s <= a.latest /\ e.early = Second * s

Windowed(e) == e.early \in Int /\ e.late \in Int /\ e.early < e.late

(* Of n actions and m switches. *)
Traceable(n, m, tt, run, late, slack) ==
    /\ n \in Nat /\ m \in Nat /\ Len(tt) = n
    /\ \A k \in 1..n : Bounded(tt[k]) /\ late[k] \in Nat /\ slack[k] \in Nat
    /\ DOMAIN run \in SUBSET (1..n + m) /\ Cardinality(DOMAIN run) = m
    /\ \A i \in DOMAIN run : "dest" \in DOMAIN run[i]

Traced(ttt, q, n, m, tt, run, args) ==
    LET A == (1..n + m) \ DOMAIN run
    IN  /\ DOMAIN ttt = 1..n + m
        /\ q = [i \in 1..n + m |-> q[i]]
        /\ \A i \in 1..n + m : Windowed(q[i])
        /\ \A i \in DOMAIN run : SwitchOf(q[i], run[i])
        /\ \A i \in A : Upto(A, i) \in 1..n /\ TransitionOf(q[i], tt[Upto(A, i)], args)

LEMMA TraceIs ==
    ASSUME TransformationAssumption,
           NEW n, NEW m, NEW tt, NEW run, NEW late, NEW slack, NEW args,
           Traceable(n, m, tt, run, late, slack)
    PROVE  LET ttt == transform_plan(tt, run, late, slack)
           IN  Traced(ttt, plan_taptenc_to_gpp(ttt, args), n, m, tt, run, args)
<1> DEFINE D == DOMAIN run
           A == (1..n + m) \ D
           Number(i) == i - Upto(D, i)
           Start(k) == IF k = 0 THEN 0 ELSE Min({tt[k].earliest + late[k], tt[k].latest})
           Delay(k) == Min({slack[k], tt[k].latest - Start(k)})
           ttt == transform_plan(tt, run, late, slack)
           q == plan_taptenc_to_gpp(ttt, args)
           Entry(i) == IF i \in D THEN TimedAt(Start(Number(i)), 0, run[i])
                       ELSE TimedAt(Start(Number(i)), Delay(Number(i)), tt[Number(i)].name)
           Back(e) == IF "dest" \in DOMAIN e.action THEN parse_platform_action(e)
                      ELSE parse_domain_action(e, args)
<1>0. /\ n \in Nat /\ m \in Nat /\ Len(tt) = n
      /\ \A k \in 1..n : Bounded(tt[k]) /\ late[k] \in Nat /\ slack[k] \in Nat
      /\ D \in SUBSET (1..n + m) /\ Cardinality(D) = m
      /\ \A i \in D : "dest" \in DOMAIN run[i]
    BY DEF Traceable
<1>1. ttt = [i \in 1..n + m |-> Entry(i)]
    BY <1>0 DEF transform_plan
<1>2. q = [i \in DOMAIN ttt |-> Back(ttt[i])]
    BY DEF plan_taptenc_to_gpp
<1>3. n + m \in Nat /\ D \in SUBSET (1..n + m) /\ A \in SUBSET (1..n + m)
    BY <1>0
<1>4. /\ \A i \in 0..n + m : Upto(D, i) \in Nat
      /\ Cardinality(A) = n
      /\ \A i \in 0..n + m : Upto(A, i) = i - Upto(D, i) /\ Upto(A, i) \in 0..n
      /\ \A i \in A : Upto(A, i) \in 1..n
    <2> HIDE DEF A, D
    <2>0. Cardinality(D) = m
        BY <1>0 DEF D
    <2>1. /\ Cardinality(D) \in Nat
          /\ \A i \in 0..n + m : Upto(D, i) \in 0..Cardinality(D)
        BY <1>0, <1>3, UptoSteps, Zenon
    <2>2. /\ \A i \in 0..n + m : Upto(A, i) \in 0..Cardinality(A)
        BY <1>0, <1>3, UptoSteps, Zenon
    <2>3. \A i \in A : Upto(A, i) \in 1..Cardinality(A)
        BY <1>0, <1>3, NthIs, Zenon
    <2>4. Cardinality(A) = n /\ \A i \in 0..n + m : Upto(A, i) = i - Upto(D, i)
        BY <1>0, <1>3, <2>0, OtherPositions DEF A
    <2>. QED BY <2>1, <2>2, <2>3, <2>4
<1> HIDE DEF A, q, ttt
<1>5. \A i \in 1..n + m : Number(i) = Upto(A, i) /\ Number(i) \in 0..n
    BY <1>0, <1>4
<1> HIDE DEF Number
<1>6. ASSUME NEW k \in 1..n
      PROVE  Start(k) \in Nat /\ tt[k].earliest <= Start(k) /\ Start(k) <= tt[k].latest /\ Delay(k) \in Int
    <2>1. /\ tt[k].earliest \in Nat /\ tt[k].latest \in Nat /\ tt[k].earliest <= tt[k].latest
          /\ late[k] \in Nat /\ slack[k] \in Nat
        BY <1>0 DEF Bounded
    <2> DEFINE a == tt[k].earliest + late[k]
               b == tt[k].latest
    <2>2. a \in Int /\ b \in Int
        BY <2>1
    <2> HIDE DEF a, b
    <2>3. Min({a, b}) \in {a, b} /\ Min({a, b}) <= a /\ Min({a, b}) <= b
        BY <2>2, Smaller
    <2>4. Start(k) = Min({a, b})
        BY DEF a, b
    <2> HIDE DEF Start
    <2>5. Start(k) \in Nat /\ tt[k].earliest <= Start(k) /\ Start(k) <= tt[k].latest
        BY <2>1, <2>3, <2>4 DEF a, b
    <2> DEFINE d == tt[k].latest - Start(k)
    <2>6. d \in Int /\ slack[k] \in Int
        BY <2>1, <2>5
    <2>7. Delay(k) = Min({slack[k], d})
        BY DEF d
    <2> HIDE DEF d, Delay
    <2>8. Delay(k) \in Int
        BY <2>6, <2>7, Smaller
    <2>. QED BY <2>5, <2>8
<1>7. Start(0) = 0
    OBVIOUS
<1> HIDE DEF Start, Delay
<1>8. ASSUME NEW i \in D PROVE Windowed(q[i]) /\ SwitchOf(q[i], run[i])
    <2>1. i \in 1..n + m /\ Start(Number(i)) \in Nat
        BY <1>0, <1>3, <1>5, <1>6, <1>7
    <2> DEFINE e == TimedAt(Start(Number(i)), 0, run[i])
    <2>2. /\ e.earliest_start \in Nat /\ e.max_delay \in Int /\ e.action = run[i]
          /\ "dest" \in DOMAIN run[i]
        BY <1>0, <2>1 DEF TimedAt
    <2>3. q[i] = Back(e)
        BY <1>1, <1>2, <2>1
    <2> HIDE DEF e
    <2>4. q[i] = parse_platform_action(e)
        BY <2>2, <2>3
    <2>5. Window(e).early \in Int /\ Window(e).late \in Int /\ Window(e).early < Window(e).late
        BY <2>2, WindowIs
    <2>. QED BY <2>2, <2>4, <2>5
             DEF parse_platform_action, TimedSwitch, Windowed, SwitchOf, IsSwitch, IsTransition
<1>9. ASSUME NEW i \in A
      PROVE  /\ Windowed(q[i])
             /\ Upto(A, i) \in 1..n /\ TransitionOf(q[i], tt[Upto(A, i)], args)
    <2> DEFINE k == Number(i)
               e == TimedAt(Start(k), Delay(k), tt[k].name)
    <2>1. i \in 1..n + m /\ i \notin D
        BY DEF A
    <2>2. k = Upto(A, i) /\ k \in 1..n
        BY <1>4, <1>5, <2>1
    <2>3. q[i] = Back(e)
        BY <1>1, <1>2, <2>1
    <2> HIDE DEF k
    <2>4. /\ Start(k) \in Nat /\ Delay(k) \in Int
          /\ tt[k].earliest <= Start(k) /\ Start(k) <= tt[k].latest
        BY <1>6, <2>2
    <2>5. "dest" \notin DOMAIN tt[k].name
        BY <1>0, <2>2 DEF Bounded
    <2>6. e.earliest_start = Start(k) /\ e.max_delay = Delay(k) /\ e.action = tt[k].name
        BY DEF TimedAt
    <2> HIDE DEF e
    <2>7. q[i] = parse_domain_action(e, args)
        BY <2>3, <2>5, <2>6
    <2>8. /\ Window(e).early = Second * Start(k)
          /\ Window(e).early \in Int /\ Window(e).late \in Int /\ Window(e).early < Window(e).late
        BY <2>4, <2>6, WindowIs
    <2>9. /\ IsTransition(q[i]) /\ ~IsSwitch(q[i])
          /\ q[i].hook = tt[k].name.hook /\ q[i].action = tt[k].name.action
          /\ q[i].args = [j \in DOMAIN tt[k].name.args |-> args[tt[k].name.args[j]]]
          /\ q[i].early = Window(e).early /\ q[i].late = Window(e).late
        BY <2>6, <2>7 DEF parse_domain_action, TimedTransition, IsSwitch, IsTransition
    <2>. QED BY <2>2, <2>4, <2>8, <2>9 DEF Windowed, TransitionOf
<1>10. DOMAIN ttt = 1..n + m /\ q = [i \in 1..n + m |-> q[i]]
    BY <1>1, <1>2
<1>11. \A i \in 1..n + m : i \in D \/ i \in A
    BY DEF A
<1>. QED BY <1>8, <1>9, <1>10, <1>11 DEF A, q, ttt, Traced

(* The runs of the automata: switches at some positions of the trace. *)
SwitchAt(t) ==
    /\ t.source[1] \in platform_model
    /\ \E u \in Components[t.source[1]].transitions :
           t.source = <<t.source[1], u.from>> /\ t.dest = <<t.source[1], u.to>>
    /\ "dest" \in DOMAIN t

LEMMA RunsAre ==
    ASSUME TransformationAssumption, NEW n \in Nat, NEW run \in Runs(n)
    PROVE  /\ IsRun(run)
           /\ \E m \in Nat : DOMAIN run \in SUBSET (1..n + m) /\ Cardinality(DOMAIN run) = m
           /\ \A i \in DOMAIN run : SwitchAt(run[i])
<1> DEFINE Positions(k) == {at \in SUBSET (1..n + k) : Cardinality(at) = k}
<1>1. IsRun(run) /\ \E k \in 0..MaxSwitches : run \in UNION {[at -> Switches] : at \in Positions(k)}
    BY DEF Runs
<1>2. PICK k \in 0..MaxSwitches : run \in UNION {[at -> Switches] : at \in Positions(k)}
    BY <1>1
<1>3. PICK at \in Positions(k) : run \in [at -> Switches]
    BY <1>2
<1>4. k \in Nat /\ DOMAIN run = at /\ at \in SUBSET (1..n + k) /\ Cardinality(at) = k
    BY <1>3 DEF TransformationAssumption
<1>5. ASSUME NEW t \in Switches PROVE SwitchAt(t)
    <2>1. PICK c \in platform_model : t \in Automaton(c).transitions
        BY DEF Switches, tt_automata
    <2>2. PICK u \in Components[c].transitions : t = CompiledTransition(c, u)
        BY <2>1 DEF Automaton
    <2>3. t.source = <<c, u.from>> /\ t.dest = <<c, u.to>> /\ "dest" \in DOMAIN t
        BY <2>2 DEF CompiledTransition, qualified_name
    <2>. QED BY <2>2, <2>3 DEF SwitchAt
<1>. QED BY <1>1, <1>3, <1>4, <1>5

(* The states of components that a run goes on from. *)
LEMMA Begins ==
    ASSUME NEW c \in platform_model, current[c] \in DOMAIN Components[c].states
    PROVE  (CHOOSE s \in CompiledStates(c) : s.initial).name = <<c, current[c]>>
<1> DEFINE I == CompiledState(c, current[c])
           C == CHOOSE s \in CompiledStates(c) : s.initial
<1>1. I \in CompiledStates(c) /\ I.initial
    BY DEF CompiledStates, CompiledState
<1>2. C \in CompiledStates(c) /\ C.initial
    <2> HIDE DEF I
    <2>. QED BY <1>1, Zenon
<1> HIDE DEF C
<1>3. PICK s \in DOMAIN Components[c].states : C = CompiledState(c, s)
    BY <1>2 DEF CompiledStates
<1>4. C.name = <<c, s>> /\ C.initial = (current[c] = s)
    BY <1>3 DEF CompiledState, StateName, qualified_name
<1>5. s = current[c]
    BY <1>2, <1>4
<1>. QED BY <1>4, <1>5 DEF C

LEMMA RunConnected ==
    ASSUME TransformationAssumption, platform_model \subseteq declared,
           \A c \in declared : current[c] \in DOMAIN Components[c].states,
           NEW N \in Nat, NEW run, DOMAIN run \in SUBSET (1..N), IsRun(run),
           \A i \in DOMAIN run : SwitchAt(run[i]),
           NEW q, DOMAIN q = 1..N,
           \A i \in DOMAIN run : SwitchOf(q[i], run[i]),
           \A i \in (1..N) \ DOMAIN run : ~IsSwitch(q[i])
    PROVE  Connected(q, current)
<1> SUFFICES ASSUME NEW c \in declared,
                    NEW i \in {j \in DOMAIN q : IsSwitch(q[j]) /\ q[j].component = c}
             PROVE  LET mine == {j \in DOMAIN q : IsSwitch(q[j]) /\ q[j].component = c}
                        before == {j \in mine : j < i}
                    IN  /\ q[i].from = IF before = {} THEN current[c] ELSE q[Max(before)].to
                        /\ \E t \in Components[c].transitions : t.from = q[i].from /\ t.to = q[i].to
    BY DEF Connected
<1> DEFINE mine == {j \in DOMAIN q : IsSwitch(q[j]) /\ q[j].component = c}
           before == {j \in mine : j < i}
           earlier == {j \in DOMAIN run : j < i /\ run[j].source[1] = c}
<1>1. \A j \in 1..N : j \in mine <=> j \in DOMAIN run /\ run[j].source[1] = c
    BY DEF SwitchOf
<1>2. mine \in SUBSET (1..N)
    OBVIOUS
<1>3. before = earlier
    <2> HIDE DEF mine
    <2>. QED BY <1>1, <1>2
<1>4. i \in DOMAIN run /\ run[i].source[1] = c
    BY <1>1
<1>5. /\ q[i].from = run[i].source[2] /\ q[i].to = run[i].dest[2]
      /\ \A j \in DOMAIN run : q[j].to = run[j].dest[2]
    BY <1>4 DEF SwitchOf
<1>6. /\ c \in platform_model
      /\ \E u \in Components[c].transitions : run[i].source = <<c, u.from>> /\ run[i].dest = <<c, u.to>>
    BY <1>4 DEF SwitchAt
<1>7. \E t \in Components[c].transitions : t.from = q[i].from /\ t.to = q[i].to
    BY <1>5, <1>6
<1>8. run[i].source = IF earlier = {} THEN (CHOOSE s \in CompiledStates(c) : s.initial).name
                      ELSE run[Max(earlier)].dest
    BY <1>4 DEF IsRun, At
<1>9. CASE before = {}
    <2>1. run[i].source = <<c, current[c]>>
        BY <1>3, <1>6, <1>8, <1>9, Begins
    <2>. QED BY <1>5, <1>7, <1>9, <2>1
<1>10. CASE before # {}
    <2>1. earlier \in SUBSET (1..N)
        OBVIOUS
    <2> HIDE DEF earlier, before
    <2>2. Max(earlier) \in earlier
        BY <1>3, <1>10, <2>1, Largest
    <2>3. Max(earlier) \in DOMAIN run
        BY <2>2 DEF earlier
    <2>4. q[i].from = q[Max(earlier)].to
        BY <1>3, <1>5, <1>8, <1>10, <2>3
    <2>. QED BY <1>3, <1>7, <1>10, <2>4 DEF before
<1>. QED BY <1>9, <1>10

-----------------------------------------------------------------------------
(* Windows, as whole seconds since the plan began. *)
LEMMA ShiftedIs ==
    ASSUME TransformationAssumption, NEW p, Head(p).early \in Int, NEW t \in Int
    PROVE  LET since == Max({0, t - Head(p).early})
           IN  /\ since \in Nat /\ Shifted(p, t) \in Nat
               /\ Second * Shifted(p, t) <= since /\ since < Second * Shifted(p, t) + Second
<1> DEFINE d == t - Head(p).early
           since == Max({0, d})
<1>1. since \in Nat
    <2>1. d \in Int
        OBVIOUS
    <2> HIDE DEF d
    <2>. QED BY <2>1 DEF Max
<1>2. Second \in Nat \ {0}
    BY DEF TransformationAssumption
<1>3. Shifted(p, t) = since \div Second
    BY DEF Shifted
<1> HIDE DEF since
<1>4. since \div Second \in Nat /\ Second * (since \div Second) <= since
          /\ since < Second * (since \div Second) + Second
    BY <1>1, <1>2, Divided
<1>. QED BY <1>1, <1>3, <1>4 DEF since

LEMMA ShiftedMonotone ==
    ASSUME TransformationAssumption, NEW p, Head(p).early \in Int,
           NEW t \in Int, NEW u \in Int, t <= u
    PROVE  Shifted(p, t) <= Shifted(p, u)
<1> DEFINE d == t - Head(p).early
           e == u - Head(p).early
<1>1. d \in Int /\ e \in Int /\ d <= e
    OBVIOUS
<1>2. Shifted(p, t) = Max({0, d}) \div Second /\ Shifted(p, u) = Max({0, e}) \div Second
    BY DEF Shifted
<1> HIDE DEF d, e
<1>3. Max({0, d}) \in Nat /\ Max({0, e}) \in Nat /\ Max({0, d}) <= Max({0, e})
    BY <1>1 DEF Max
<1>4. Second \in Nat \ {0}
    BY DEF TransformationAssumption
<1>. QED BY <1>2, <1>3, <1>4, DividedMonotone

LEMMA Times ==
    ASSUME NEW d \in Nat, NEW a \in Nat, NEW b \in Nat, a <= b
    PROVE  d * a \in Nat /\ d * a <= d * b
<1>1. PICK c \in Nat : b = a + c
    <2>1. b - a \in Nat /\ b = a + (b - a)
        OBVIOUS
    <2>. QED BY <2>1
<1>2. d * b = d * a + d * c
    BY <1>1
<1>3. d * c \in Nat /\ d * a \in Nat
    OBVIOUS
<1>. QED BY <1>2, <1>3

(* What begins at a whole second within the bounds begins in the window.    *)
LEMMA WithinBounds ==
    ASSUME TransformationAssumption, NEW p, Head(p).early \in Int,
           NEW old, old.early \in Int, old.late \in Int,
           NEW new, Windowed(new), NEW s \in Nat, new.early = Second * s,
           Shifted(p, old.early) <= s, s <= Shifted(p, old.late)
    PROVE  InWindow(old, new, Head(p).early)
<1> DEFINE a == Max({0, old.early - Head(p).early})
           b == Max({0, old.late - Head(p).early})
           k == Shifted(p, old.early)
           l == Shifted(p, old.late)
<1>1. a \in Nat /\ k \in Nat /\ a < Second * k + Second
    BY ShiftedIs
<1>2. b \in Nat /\ l \in Nat /\ Second * l <= b
    BY ShiftedIs
<1>3. Second \in Nat
    BY DEF TransformationAssumption
<1> HIDE DEF a, b, k, l
<1>4. k <= s /\ s <= l
    BY DEF k, l
<1>5. Second * k \in Nat /\ Second * s \in Nat /\ Second * k <= Second * s /\ Second * s <= Second * l
    BY <1>1, <1>2, <1>3, <1>4, Times
<1>6. Second * l \in Nat
    BY <1>2, <1>3
<1>7. new.early > a - Second /\ new.early <= b
    BY <1>1, <1>2, <1>3, <1>5, <1>6
<1>. QED BY <1>7 DEF InWindow, Windowed, a, b

-----------------------------------------------------------------------------
(* A plan that comes back, from any run of the automata.                    *)
LEMMA ComesBack ==
    ASSUME TransformationAssumption, platform_model \subseteq declared,
           \A c \in declared : current[c] \in DOMAIN Components[c].states,
           NEW p, IsPlan(p), p # <<>>,
           NEW tt, tt = plan_gpp_to_taptenc(p, StoredArgs(p).symbols),
           NEW run \in Runs(Len(tt)),
           NEW late \in [DOMAIN tt -> Delays], NEW slack \in [DOMAIN tt -> Delays]
    PROVE  LET ttt == transform_plan(tt, run, late, slack)
               q == plan_taptenc_to_gpp(ttt, StoredArgs(p).args)
               old == transitions(p)
               new == transitions(q)
           IN  /\ IsPlan(q)
               /\ ttt = <<>> => Instructions(p) = <<>>
               /\ Instructions(q) = Instructions(p)
               /\ Connected(q, current)
               /\ \A i \in DOMAIN old : InWindow(old[i], new[i], Head(p).early)
<1> DEFINE old == transitions(p)
           n == Len(old)
           args == StoredArgs(p).args
           symbols == StoredArgs(p).symbols
           begin == Head(p).early
           Action(e) ==
               [name |-> [hook |-> e.hook, action |-> e.action,
                          args |-> [i \in DOMAIN e.args |-> symbols[e.args[i]]]],
                earliest |-> Shifted(p, e.early), latest |-> Shifted(p, e.late)]
<1>1. /\ old \in Seq(TransitionsIn(p))
      /\ \A e \in TransitionsIn(p) :
             e.args \in Seq(ArgsIn(p)) /\ e.early \in Int /\ e.late \in Int /\ e.early <= e.late
    BY TransitionsTyped
<1>2. begin \in Int
    <2>1. 1 \in DOMAIN p
        BY DEF IsPlan
    <2>. QED BY <2>1 DEF IsPlan
<1>3. \A k \in 1..n : \A i \in 1..Len(old[k].args) : args[symbols[old[k].args[i]]] = old[k].args[i]
    <2>1. old \in Seq(TransitionsIn(p)) /\ \A e \in TransitionsIn(p) : e.args \in Seq(ArgsIn(p))
        BY <1>1
    <2>2. Recovered(old, StoredArgs(p))
        BY <2>1, ArgsComeBack, Zenon
    <2>. QED BY <2>2 DEF Recovered
<1>4. tt = [k \in DOMAIN old |-> Action(old[k])]
    BY DEF plan_gpp_to_taptenc
<1> HIDE DEF old, args, symbols
<1>5. /\ n \in Nat /\ DOMAIN old = 1..n /\ DOMAIN tt = 1..n /\ Len(tt) = n
      /\ old = [k \in 1..n |-> old[k]]
      /\ \A k \in 1..n : old[k] \in TransitionsIn(p)
    <2>1. n \in Nat /\ DOMAIN old = 1..n /\ old = [k \in 1..n |-> old[k]]
          /\ \A k \in 1..n : old[k] \in TransitionsIn(p)
        BY <1>1
    <2> HIDE DEF Action, n
    <2>. QED BY <1>4, <2>1
<1> HIDE DEF n
<1>6. ASSUME NEW k \in 1..n
      PROVE  /\ tt[k].name.hook = old[k].hook /\ tt[k].name.action = old[k].action
             /\ tt[k].name.args = [i \in DOMAIN old[k].args |-> symbols[old[k].args[i]]]
             /\ tt[k].earliest = Shifted(p, old[k].early) /\ tt[k].latest = Shifted(p, old[k].late)
             /\ Bounded(tt[k]) /\ late[k] \in Nat /\ slack[k] \in Nat
    <2>1. tt[k] = Action(old[k])
        BY <1>4, <1>5
    <2>2. old[k].early \in Int /\ old[k].late \in Int /\ old[k].early <= old[k].late
        BY <1>1, <1>5
    <2>3. /\ Shifted(p, old[k].early) \in Nat /\ Shifted(p, old[k].late) \in Nat
          /\ Shifted(p, old[k].early) <= Shifted(p, old[k].late)
        BY <1>2, <2>2, ShiftedIs, ShiftedMonotone
    <2>4. "dest" \notin DOMAIN tt[k].name
        BY <2>1
    <2>5. late[k] \in Nat /\ slack[k] \in Nat
        BY <1>5 DEF TransformationAssumption
    <2>. QED BY <2>1, <2>3, <2>4, <2>5 DEF Bounded
<1> DEFINE D == DOMAIN run
           ttt == transform_plan(tt, run, late, slack)
           q == plan_taptenc_to_gpp(ttt, args)
           new == transitions(q)
<1>7. IsRun(run) /\ \A i \in D : SwitchAt(run[i])
    BY <1>5, RunsAre
<1>8. PICK m \in Nat : D \in SUBSET (1..n + m) /\ Cardinality(D) = m
    BY <1>5, RunsAre
<1> DEFINE A == (1..n + m) \ D
<1>9. /\ DOMAIN ttt = 1..n + m
      /\ q = [i \in 1..n + m |-> q[i]]
      /\ \A i \in 1..n + m : Windowed(q[i])
      /\ \A i \in D : SwitchOf(q[i], run[i])
      /\ \A i \in A : Upto(A, i) \in 1..n /\ TransitionOf(q[i], tt[Upto(A, i)], args)
    <2>1. \A i \in D : "dest" \in DOMAIN run[i]
        BY <1>7 DEF SwitchAt
    <2>2. \A k \in 1..n : Bounded(tt[k]) /\ late[k] \in Nat /\ slack[k] \in Nat
        BY <1>6
    <2>3. Traceable(n, m, tt, run, late, slack)
        BY <1>5, <1>8, <2>1, <2>2 DEF Traceable
    <2>4. Traced(ttt, q, n, m, tt, run, args)
        BY <2>3, TraceIs, Zenon
    <2>. QED BY <2>4 DEF Traced
<1> HIDE DEF q, ttt
(* The transitions of the plan that comes back are those at the other places. *)
<1>10. /\ Cardinality(A) = n
       /\ \A k \in 1..n : Nth(A, k) \in A /\ Upto(A, Nth(A, k)) = k
       /\ new = [k \in 1..n |-> q[Nth(A, k)]]
    <2> DEFINE N == n + m
    <2>1. N \in Nat /\ DOMAIN q = 1..N
        BY <1>5, <1>9
    <2>2. {i \in DOMAIN q : IsTransition(q[i])} = A
        <3>1. \A i \in 1..N : IsTransition(q[i]) <=> i \notin D
            BY <1>9 DEF SwitchOf, TransitionOf
        <3>. QED BY <2>1, <3>1
    <2>3. Cardinality(A) = n
        <3>1. n \in Nat /\ m \in Nat /\ D \in SUBSET (1..n + m) /\ Cardinality(D) = m
            BY <1>5, <1>8
        <3> HIDE DEF D
        <3>. QED BY <3>1, OtherPositions
    <2>4. A \in SUBSET (1..N)
        OBVIOUS
    <2> HIDE DEF A, N
    <2>5. \A k \in 1..Cardinality(A) : Nth(A, k) \in A /\ Upto(A, Nth(A, k)) = k
        BY <2>1, <2>4, NthIs, Zenon
    <2>6. new = [k \in 1..Cardinality(A) |-> q[Nth(A, k)]]
        BY <2>1, <2>2, TransitionsOf
    <2>. QED BY <2>3, <2>5, <2>6
<1>11. ASSUME NEW k \in 1..n
       PROVE  /\ new[k].hook = old[k].hook /\ new[k].action = old[k].action /\ new[k].args = old[k].args
              /\ InWindow(old[k], new[k], begin)
    <2> DEFINE i == Nth(A, k)
    <2>1. i \in A /\ Upto(A, i) = k /\ new[k] = q[i]
        BY <1>10
    <2>2. TransitionOf(new[k], tt[k], args) /\ Windowed(new[k])
        BY <1>9, <2>1
    <2> HIDE DEF i, new, A
    <2>3. new[k].hook = old[k].hook /\ new[k].action = old[k].action
        BY <1>6, <2>2 DEF TransitionOf
    <2>4. new[k].args = old[k].args
        <3> DEFINE a == old[k].args
        <3>1. a \in Seq(ArgsIn(p))
            BY <1>1, <1>5
        <3>2. DOMAIN a = 1..Len(a) /\ a = [j \in 1..Len(a) |-> a[j]]
            <4> HIDE DEF a
            <4>. QED BY <3>1
        <3>3. \A j \in 1..Len(a) : args[symbols[a[j]]] = a[j]
            BY <1>3
        <3>4. tt[k].name.args = [j \in DOMAIN a |-> symbols[a[j]]]
            BY <1>6
        <3>5. new[k].args = [j \in DOMAIN tt[k].name.args |-> args[tt[k].name.args[j]]]
            BY <2>2 DEF TransitionOf
        <3> HIDE DEF a
        <3>6. new[k].args = [j \in 1..Len(a) |-> args[symbols[a[j]]]]
            BY <3>2, <3>4, <3>5
        <3>7. new[k].args = a
            BY <3>2, <3>3, <3>6
        <3>. QED BY <3>7 DEF a
    <2>5. InWindow(old[k], new[k], begin)
        <3>1. PICK s \in Nat : tt[k].earliest <= s /\ s <= tt[k].latest /\ new[k].early = Second * s
            BY <2>2 DEF TransitionOf
        <3>2. Shifted(p, old[k].early) <= s /\ s <= Shifted(p, old[k].late)
            BY <1>6, <3>1
        <3>3. old[k].early \in Int /\ old[k].late \in Int
            BY <1>1, <1>5
        <3>. QED BY <1>2, <2>2, <3>1, <3>2, <3>3, WithinBounds
    <2>. QED BY <2>3, <2>4, <2>5
<1>12. ttt = <<>> => Instructions(p) = <<>>
    <2>1. ttt = <<>> => n = 0
        BY <1>5, <1>8, <1>9
    <2>2. n = 0 => Instructions(p) = <<>>
        BY <1>5 DEF Instructions, old
    <2>. QED BY <2>1, <2>2
<1>13. Instructions(q) = Instructions(p)
    <2> DEFINE What(e) == <<e.hook, e.action, e.args>>
    <2>1. Instructions(p) = [k \in 1..n |-> What(old[k])]
        BY <1>5 DEF Instructions, old
    <2>2. Instructions(q) = [k \in DOMAIN new |-> What(new[k])]
        BY DEF Instructions
    <2>3. DOMAIN new = 1..n
        BY <1>10
    <2>4. \A k \in 1..n : What(new[k]) = What(old[k])
        BY <1>11
    <2> HIDE DEF What, new
    <2>. QED BY <2>1, <2>2, <2>3, <2>4
<1>14. IsPlan(q)
    <2> DEFINE N == n + m
    <2>1. N \in Nat /\ q = [i \in 1..N |-> q[i]] /\ DOMAIN q = 1..N
        BY <1>5, <1>9
    <2>2. q \in Seq(Range(q))
        BY <2>1, ElementsOwn
    <2>3. ASSUME NEW i \in 1..N
          PROVE  /\ q[i].early \in Int /\ q[i].late \in Int /\ q[i].early <= q[i].late
                 /\ IsTransition(q[i]) => q[i].args \in Seq(Range(q[i].args))
        <3>1. q[i].early \in Int /\ q[i].late \in Int /\ q[i].early <= q[i].late
            BY <1>9 DEF Windowed
        <3>2. CASE i \in D
            BY <1>9, <3>1, <3>2 DEF SwitchOf
        <3>3. CASE i \notin D
            <4> DEFINE k == Upto(A, i)
            <4>1. i \in A
                BY <3>3
            <4>2. k \in 1..n /\ TransitionOf(q[i], tt[k], args)
                BY <1>9, <4>1
            <4> HIDE DEF k
            <4>3. q[i].args = [j \in DOMAIN old[k].args |-> args[tt[k].name.args[j]]]
                BY <1>6, <4>2 DEF TransitionOf
            <4>4. \E l \in Nat : DOMAIN old[k].args = 1..l
                <5>1. old[k].args \in Seq(ArgsIn(p))
                    BY <1>1, <1>5, <4>2
                <5>. QED BY <5>1
            <4> DEFINE a == q[i].args
            <4>5. PICK l \in Nat : a = [j \in 1..l |-> args[tt[k].name.args[j]]]
                BY <4>3, <4>4
            <4> HIDE DEF a
            <4>6. DOMAIN a = 1..l /\ a = [j \in 1..l |-> a[j]]
                BY <4>5
            <4>7. a \in Seq(Range(a))
                BY <4>6, ElementsOwn
            <4>. QED BY <3>1, <4>7 DEF a
        <3>. QED BY <3>2, <3>3
    <2>. QED BY <2>1, <2>2, <2>3 DEF IsPlan
<1>15. Connected(q, current)
    <2> DEFINE N == n + m
    <2>1. N \in Nat /\ DOMAIN q = 1..N /\ D \in SUBSET (1..N)
        BY <1>5, <1>8, <1>9
    <2>2. \A i \in (1..N) \ D : ~IsSwitch(q[i])
        BY <1>9 DEF TransitionOf
    <2> HIDE DEF N
    <2>. QED BY <1>7, <1>9, <2>1, <2>2, RunConnected
<1>16. \A i \in DOMAIN old : InWindow(old[i], new[i], begin)
    BY <1>5, <1>11
<1>. QED BY <1>12, <1>13, <1>14, <1>15, <1>16 DEF old, new, q, ttt, args

-----------------------------------------------------------------------------
(* What the transformation can rely on: components are in states that they  *)
(* have, and a plan has switches only if constraints refer to components.   *)
Transformable(p) ==
    /\ IsPlan(p)
    /\ platform_model = {} => \A i \in DOMAIN p : ~IsSwitch(p[i])

TransformationInv ==
    /\ declared \subseteq DOMAIN Components
    /\ platform_model \subseteq declared
    /\ DOMAIN current = declared
    /\ \A c \in declared : current[c] \in DOMAIN Components[c].states
    /\ Transformable(plan)

LEMMA EmptyPlan == IsPlan(<<>>) /\ transitions(<<>>) = <<>>
<1>1. DOMAIN <<>> = {} /\ <<>> \in Seq(Range(<<>>))
    OBVIOUS
<1>2. IsPlan(<<>>)
    BY <1>1 DEF IsPlan
<1>3. {i \in DOMAIN <<>> : IsTransition(<<>>[i])} = {}
    BY <1>1
<1>4. transitions(<<>>) = [k \in 1..0 |-> <<>>[Nth({}, k)]]
    BY <1>3, FS_EmptySet DEF transitions, Subsequence
<1>. QED BY <1>2, <1>4

(* The plan of the interpreter, or the rest of the last one. *)
LEMMA AllTransformable ==
    ASSUME TransformationAssumption, Transformable(plan),
           NEW p \in Plans \cup {plan} \cup {SubSeq(plan, 2, Len(plan))}
    PROVE  Transformable(p)
<1>1. CASE p \in Plans
    BY <1>1 DEF TransformationAssumption, Transformable
<1>2. CASE p = plan
    BY <1>2
<1>3. CASE p = SubSeq(plan, 2, Len(plan))
    <2> DEFINE R == Range(plan)
               n == Len(plan)
               k == IF n = 0 THEN 0 ELSE n - 1
    <2>1. plan \in Seq(R) /\ n \in Nat /\ DOMAIN plan = 1..n
        BY DEF Transformable, IsPlan
    <2> HIDE DEF R, n
    <2>2. p = [i \in 1..k |-> plan[i + 1]]
        BY <1>3, <2>1 DEF n
    <2>3. k \in Nat /\ \A i \in 1..k : i + 1 \in 1..n
        BY <2>1
    <2> HIDE DEF k
    <2>4. DOMAIN p = 1..k /\ \A i \in 1..k : p[i] = plan[i + 1] /\ i + 1 \in DOMAIN plan
        BY <2>1, <2>2, <2>3
    <2>5. p = [i \in 1..k |-> p[i]]
        BY <2>2
    <2>6. p \in Seq(Range(p))
        BY <2>3, <2>5, ElementsOwn
    <2>. QED BY <2>4, <2>6 DEF Transformable, IsPlan
<1>. QED BY <1>1, <1>2, <1>3

LEMMA InitTransformation ==
    ASSUME TransformationAssumption, TransformationInit
    PROVE  TransformationInv
<1>1. declared \subseteq DOMAIN Components /\ platform_model \subseteq declared
    BY DEF TransformationInit, TransformationAssumption
<1>2. DOMAIN current = declared /\ \A c \in declared : current[c] \in DOMAIN Components[c].states
    BY <1>1 DEF TransformationInit, TransformationAssumption
<1>3. Transformable(plan)
    <2>1. plan = <<>>
        BY DEF TransformationInit
    <2>. QED BY <2>1, EmptyPlan DEF Transformable
<1>. QED BY <1>1, <1>2, <1>3 DEF TransformationInv

(* One transformation. *)
LEMMA StepFaithful ==
    ASSUME TransformationAssumption, TransformationInv, [TransformationNext]_transformationVars
    PROVE  TransformationInv' /\ [TransformFaithful]_transformationVars
<1>1. CASE UNCHANGED transformationVars
    BY <1>1 DEF transformationVars, TransformationInv, Transformable
<1>2. CASE StateChange
    <2>1. PICK c \in declared : \E s \in DOMAIN Components[c].states : current' = [current EXCEPT ![c] = s]
        BY <1>2 DEF StateChange
    <2>2. /\ UNCHANGED <<declared, platform_model, plan, transforms>>
        BY <1>2 DEF StateChange
    <2>3. DOMAIN current' = declared /\ \A d \in declared : current'[d] \in DOMAIN Components[d].states
        BY <2>1 DEF TransformationInv
    <2>4. TransformationInv'
        BY <2>2, <2>3 DEF TransformationInv, Transformable
    <2>5. TransformFaithful
        BY <2>2 DEF TransformFaithful
    <2>. QED BY <2>4, <2>5
<1>3. ASSUME NEW p \in Plans \cup {plan} \cup {SubSeq(plan, 2, Len(plan))},
             TransformUnchanged(p) \/ TransformUnsupported(p) \/ Transform(p)
      PROVE  TransformationInv' /\ TransformFaithful
    <2>1. Transformable(p)
        BY AllTransformable DEF TransformationInv
    <2>2. given' = p /\ UNCHANGED <<declared, platform_model, current>>
        BY <1>3 DEF TransformUnchanged, TransformUnsupported, Transform, Begin
    <2>3. Transformable(plan)' => TransformationInv'
        BY <2>2 DEF TransformationInv
    <2>4. CASE TransformUnchanged(p)
        <3>1. plan' = p /\ transformed' = "returned" /\ (p = <<>> \/ platform_model = {})
            BY <2>4 DEF TransformUnchanged
        <3>2. TransformationInv'
            BY <2>1, <2>2, <2>3, <3>1 DEF Transformable
        <3>3. \A i \in DOMAIN p : ~IsSwitch(p[i])
            BY <2>1, <3>1 DEF Transformable
        <3>4. Connected(p, current)
            BY <3>3 DEF Connected
        <3>5. platform_model # {} => transitions(p) = <<>>
            BY <3>1, EmptyPlan
        <3>6. transformed' # "Bug"
            BY <3>1
        <3>. QED BY <2>2, <3>1, <3>2, <3>4, <3>5, <3>6 DEF TransformFaithful
    <2>5. CASE TransformUnsupported(p)
        <3>1. UNCHANGED plan /\ transformed' = "Unsupported"
            BY <2>5 DEF TransformUnsupported
        <3>2. TransformationInv'
            BY <2>2, <2>3, <3>1 DEF TransformationInv, Transformable
        <3>. QED BY <3>1, <3>2 DEF TransformFaithful
    <2>6. CASE Transform(p)
        <3> DEFINE tt == plan_gpp_to_taptenc(p, StoredArgs(p).symbols)
                   Back(ttt) == plan_taptenc_to_gpp(ttt, StoredArgs(p).args)
        <3>1. p # <<>> /\ platform_model # {}
            BY <2>6 DEF Transform
        <3>2. PICK run \in Runs(Len(tt)), late \in [DOMAIN tt -> Delays], slack \in [DOMAIN tt -> Delays] :
                  LET ttt == transform_plan(tt, run, late, slack)
                  IN  IF ttt = <<>> THEN transformed' = "Bug" /\ UNCHANGED plan
                      ELSE plan' = Back(ttt) /\ transformed' = "returned"
            BY <2>6 DEF Transform
        <3> DEFINE ttt == transform_plan(tt, run, late, slack)
                   q == Back(ttt)
                   old == transitions(p)
                   new == transitions(q)
        <3>3. /\ IsPlan(q)
              /\ ttt = <<>> => Instructions(p) = <<>>
              /\ Instructions(q) = Instructions(p)
              /\ Connected(q, current)
              /\ \A i \in DOMAIN old : InWindow(old[i], new[i], Head(p).early)
            <4>1. IsPlan(p)
                BY <2>1 DEF Transformable
            <4>2. platform_model \subseteq declared /\ \A c \in declared : current[c] \in DOMAIN Components[c].states
                BY DEF TransformationInv
            <4> HIDE DEF tt
            <4>. QED BY <3>1, <4>1, <4>2, ComesBack DEF tt
        <3> HIDE DEF tt, ttt, Back
        <3>4. CASE ttt = <<>>
            <4>1. transformed' = "Bug" /\ UNCHANGED plan
                BY <3>2, <3>4 DEF ttt
            <4>2. TransformationInv'
                BY <2>2, <2>3, <4>1 DEF TransformationInv, Transformable
            <4>. QED BY <2>2, <3>3, <3>4, <4>1, <4>2 DEF TransformFaithful
        <3>5. CASE ttt # <<>>
            <4>1. transformed' = "returned" /\ plan' = q
                BY <3>2, <3>5 DEF ttt
            <4> HIDE DEF q
            <4>2. TransformationInv'
                BY <2>2, <2>3, <3>1, <3>3, <4>1 DEF Transformable
            <4>. QED BY <2>2, <3>3, <4>1, <4>2 DEF TransformFaithful
        <3>. QED BY <3>4, <3>5
    <2>. QED BY <1>3, <2>4, <2>5, <2>6
<1>. QED BY <1>1, <1>2, <1>3 DEF TransformationNext

(* Whatever the plan, the components and their states, and whatever run of   *)
(* the automata and delays taptenc chooses, the transitions come back in     *)
(* their order, with their hooks and arguments and in their windows, among   *)
(* switches that each component can make from the state it is in; only a     *)
(* plan without transitions can be refused as having no schedule.            *)
THEOREM TransformsFaithfullyCorrect == TransformationSpec => TransformsFaithfully
<1>1. TransformationInit => TransformationInv
    BY TransformationAssumption, InitTransformation
<1>2. TransformationInv /\ [TransformationNext]_transformationVars =>
          TransformationInv' /\ [TransformFaithful]_transformationVars
    BY TransformationAssumption, StepFaithful
<1>. QED BY <1>1, <1>2, PTL DEF TransformationSpec, TransformsFaithfully
=============================================================================
