-------------------------- MODULE Constraints_proofs --------------------------
(***************************************************************************)
(* What constraints of any size are compiled to rules out no trace that the *)
(* constraint allows, and all that it does not, but for until and since.    *)
(***************************************************************************)
EXTENDS Constraints, FoldLemmas

-----------------------------------------------------------------------------
(* The specs of up to n operators: the recursive functions exist.           *)
MoreStateSpecs(S) ==
    S \cup Booleans(S, Assertions) \cup TemporalUnaries(S) \cup TemporalBinaries(S) \cup Disjunctions(S)
MoreActionSpecs(S) == S \cup Booleans(S, ActionUnary)

LEMMA StateLevels ==
    /\ StateSpecsOf[0] = Assertions
    /\ \A n \in 1..MaxRules : StateSpecsOf[n] = MoreStateSpecs(StateSpecsOf[n - 1])
<1> DEFINE Body(g, n) == IF n = 0 THEN Assertions ELSE MoreStateSpecs(g[n - 1])
           Exists(m) == \E g : g = [n \in 0..m |-> Body(g, n)]
           Good == {m \in Nat : Exists(m)}
<1>1. 0 \in Good
    <2> DEFINE g == [n \in 0..0 |-> Assertions]
    <2>1. g = [n \in 0..0 |-> Body(g, n)]
        OBVIOUS
    <2>. QED BY <2>1
<1>2. ASSUME NEW m \in Nat, m \in Good PROVE m + 1 \in Good
    <2>1. PICK g : g = [n \in 0..m |-> Body(g, n)]
        BY <1>2
    <2> DEFINE h == [n \in 0..m + 1 |-> Body(g, n)]
    <2> HIDE DEF Body
    <2>2. \A n \in 0..m : h[n] = g[n]
        BY <2>1
    <2>3. \A n \in 0..m + 1 : Body(h, n) = Body(g, n)
        <3> HIDE DEF h
        <3>1. \A n \in 0..m + 1 : n # 0 => n - 1 \in 0..m
            OBVIOUS
        <3>. QED BY <2>2, <3>1 DEF Body
    <2>4. h = [n \in 0..m + 1 |-> Body(h, n)]
        BY <2>3
    <2>5. Exists(m + 1)
        <3> HIDE DEF h
        <3>. QED BY <2>4, Zenon
    <2> HIDE DEF Exists
    <2>. QED BY <2>5
<1>3. MaxRules \in Good
    <2> HIDE DEF Good
    <2>. QED BY <1>1, <1>2, SetInduction, ConstraintAssumption
<1>4. StateSpecsOf = [n \in 0..MaxRules |-> Body(StateSpecsOf, n)]
    BY <1>3, Zenon DEF StateSpecsOf, MoreStateSpecs
<1>5. \A n \in 0..MaxRules : StateSpecsOf[n] = Body(StateSpecsOf, n)
    <2> HIDE DEF Body
    <2>. QED BY <1>4
<1>. QED BY <1>5, ConstraintAssumption

LEMMA ActionLevels ==
    /\ ActionSpecsOf[0] = ActionUnary
    /\ \A n \in 1..MaxRules : ActionSpecsOf[n] = MoreActionSpecs(ActionSpecsOf[n - 1])
<1> DEFINE Body(g, n) == IF n = 0 THEN ActionUnary ELSE MoreActionSpecs(g[n - 1])
           Exists(m) == \E g : g = [n \in 0..m |-> Body(g, n)]
           Good == {m \in Nat : Exists(m)}
<1>1. 0 \in Good
    <2> DEFINE g == [n \in 0..0 |-> ActionUnary]
    <2>1. g = [n \in 0..0 |-> Body(g, n)]
        OBVIOUS
    <2>. QED BY <2>1
<1>2. ASSUME NEW m \in Nat, m \in Good PROVE m + 1 \in Good
    <2>1. PICK g : g = [n \in 0..m |-> Body(g, n)]
        BY <1>2
    <2> DEFINE h == [n \in 0..m + 1 |-> Body(g, n)]
    <2> HIDE DEF Body
    <2>2. \A n \in 0..m : h[n] = g[n]
        BY <2>1
    <2>3. \A n \in 0..m + 1 : Body(h, n) = Body(g, n)
        <3> HIDE DEF h
        <3>1. \A n \in 0..m + 1 : n # 0 => n - 1 \in 0..m
            OBVIOUS
        <3>. QED BY <2>2, <3>1 DEF Body
    <2>4. h = [n \in 0..m + 1 |-> Body(h, n)]
        BY <2>3
    <2>5. Exists(m + 1)
        <3> HIDE DEF h
        <3>. QED BY <2>4, Zenon
    <2> HIDE DEF Exists
    <2>. QED BY <2>5
<1>3. MaxRules \in Good
    <2> HIDE DEF Good
    <2>. QED BY <1>1, <1>2, SetInduction, ConstraintAssumption
<1>4. ActionSpecsOf = [n \in 0..MaxRules |-> Body(ActionSpecsOf, n)]
    BY <1>3, Zenon DEF ActionSpecsOf, MoreActionSpecs
<1>5. \A n \in 0..MaxRules : ActionSpecsOf[n] = Body(ActionSpecsOf, n)
    <2> HIDE DEF Body
    <2>. QED BY <1>4
<1>. QED BY <1>5, ConstraintAssumption

(* A family of sets that grows from each to the next one.                   *)
LEMMA GrowingHeights ==
    ASSUME NEW N \in Nat, NEW L, \A n \in 1..N : L[n - 1] \subseteq L[n]
    PROVE  Heights(L, N)
<1> DEFINE Good == {n \in Nat : n <= N => \A k \in 0..n : L[k] \subseteq L[n]}
<1>1. 0 \in Good
    OBVIOUS
<1>2. ASSUME NEW n \in Nat, n \in Good PROVE n + 1 \in Good
    <2> SUFFICES ASSUME n + 1 <= N, NEW k \in 0..n + 1 PROVE L[k] \subseteq L[n + 1]
        OBVIOUS
    <2>1. n + 1 \in 1..N /\ (n + 1) - 1 = n
        OBVIOUS
    <2>2. L[n] \subseteq L[n + 1]
        BY <2>1
    <2>3. k \in 0..n \/ k = n + 1
        OBVIOUS
    <2>. QED BY <1>2, <2>2, <2>3
<1>3. ASSUME NEW n \in 0..N, NEW k \in 0..n PROVE L[k] \subseteq L[n]
    <2>1. n \in Good
        <3> HIDE DEF Good
        <3>. QED BY <1>1, <1>2, SetInduction
    <2>. QED BY <2>1
<1>. QED BY <1>3 DEF Heights

LEMMA StateHeights == Heights(StateSpecsOf, MaxRules)
BY StateLevels, GrowingHeights, ConstraintAssumption DEF MoreStateSpecs

LEMMA ActionHeights == Heights(ActionSpecsOf, MaxRules)
BY ActionLevels, GrowingHeights, ConstraintAssumption DEF MoreActionSpecs

-----------------------------------------------------------------------------
(* What specs look like: their parts have fewer operators.                  *)
AllBounds == Int \X Int
TwoParts(spec, S) == DOMAIN spec.parts = {1, 2} /\ spec.parts[1] \in S /\ spec.parts[2] \in S
IsBoolean(spec, S) == spec.x \in {"or", "and"} /\ TwoParts(spec, S)
IsUnary(spec, S) ==
    /\ spec.x \in {"next", "previous", "future", "past"} /\ spec.bounds \in AllBounds
    /\ DOMAIN spec.parts = {1} /\ spec.parts[1] \in S
IsBinary(spec, S) == spec.x \in {"until", "since"} /\ spec.bounds \in AllBounds /\ TwoParts(spec, S)
Shaped(spec, S) == IsBoolean(spec, S) \/ IsUnary(spec, S) \/ IsBinary(spec, S)

LEMMA BoundsTyped == Bounds \subseteq AllBounds /\ Unbounded \in AllBounds
BY ConstraintAssumption DEF Bounds, AllBounds, Unbounded

LEMMA ShapeOfBooleans ==
    ASSUME NEW S, NEW operands, NEW spec \in Booleans(S, operands), NEW R, S \subseteq R, operands \subseteq R
    PROVE  IsBoolean(spec, R)
<1>1. PICK op \in {"or", "and"}, lhs \in S, rhs \in operands : spec = BooleanOperation(op, lhs, rhs)
    BY DEF Booleans
<1>2. DOMAIN <<lhs, rhs>> = {1, 2}
    OBVIOUS
<1>. QED BY <1>1, <1>2 DEF BooleanOperation, IsBoolean, TwoParts

LEMMA ShapeOfUnaries ==
    ASSUME NEW S, NEW spec \in TemporalUnaries(S)
    PROVE  IsUnary(spec, S)
<1>1. PICK op \in {"next", "previous", "future", "past"}, b \in Bounds, subject \in S :
            spec = TemporalUnaryOperation(op, b, subject)
    BY DEF TemporalUnaries
<1>2. DOMAIN <<subject>> = {1}
    OBVIOUS
<1>. QED BY <1>1, <1>2, BoundsTyped DEF TemporalUnaryOperation, IsUnary

LEMMA ShapeOfBinaries ==
    ASSUME NEW S, NEW spec \in TemporalBinaries(S), Assertions \subseteq S
    PROVE  IsBinary(spec, S)
<1>1. PICK op \in {"until", "since"}, b \in Bounds, lhs \in S, rhs \in Assertions :
            spec = TemporalBinaryOperation(op, b, lhs, rhs)
    BY DEF TemporalBinaries
<1>2. DOMAIN <<lhs, rhs>> = {1, 2}
    OBVIOUS
<1>. QED BY <1>1, <1>2, BoundsTyped DEF TemporalBinaryOperation, IsBinary, TwoParts

LEMMA AssertionKind == \A spec \in Assertions : spec.x = "state" /\ spec.state \in AutomatonStates
BY DEF Assertions, StateAssertion

LEMMA StateShape ==
    ASSUME NEW n \in 1..MaxRules, NEW spec \in StateSpecsOf[n]
    PROVE  spec \in Assertions \/ Shaped(spec, StateSpecsOf[n - 1])
<1> DEFINE L == StateSpecsOf
           Good == {m \in Nat : m <= MaxRules =>
                        \A s \in L[m] : s \in Assertions \/ (m # 0 /\ Shaped(s, L[m - 1]))}
<1> MaxRules \in Nat
    BY ConstraintAssumption
<1> HIDE DEF L
<1>1. /\ L[0] = Assertions /\ Heights(L, MaxRules)
      /\ \A m \in 1..MaxRules : L[m] = MoreStateSpecs(L[m - 1])
    BY StateLevels, StateHeights DEF L
<1>2. 0 \in Good
    BY <1>1
<1>3. ASSUME NEW m \in Nat, m \in Good PROVE m + 1 \in Good
    <2> SUFFICES ASSUME m + 1 <= MaxRules, NEW s \in L[m + 1]
                 PROVE  s \in Assertions \/ Shaped(s, L[m])
        BY (m + 1) - 1 = m
    <2>1. m \in 0..MaxRules /\ m + 1 \in 1..MaxRules /\ (m + 1) - 1 = m
        OBVIOUS
    <2>2. L[m + 1] = MoreStateSpecs(L[m])
        BY <1>1, <2>1
    <2>3. Assertions \subseteq L[m]
        BY <1>1, <2>1 DEF Heights
    <2>4. CASE s \in L[m]
        <3>1. s \in Assertions \/ (m # 0 /\ Shaped(s, L[m - 1]))
            BY <1>3, <2>4
        <3>2. CASE m # 0 /\ Shaped(s, L[m - 1])
            <4>1. L[m - 1] \subseteq L[m]
                BY <1>1, <2>1, <3>2, m - 1 \in 0..m DEF Heights
            <4>. QED BY <3>2, <4>1 DEF Shaped, IsBoolean, IsUnary, IsBinary, TwoParts
        <3>. QED BY <3>1, <3>2
    <2>5. CASE s \in Booleans(L[m], Assertions)
        BY <2>3, <2>5, ShapeOfBooleans DEF Shaped
    <2>6. CASE s \in TemporalUnaries(L[m])
        BY <2>6, ShapeOfUnaries DEF Shaped
    <2>7. CASE s \in TemporalBinaries(L[m])
        BY <2>3, <2>7, ShapeOfBinaries DEF Shaped
    <2>8. CASE s \in Disjunctions(L[m])
        <3>1. PICK lhs \in L[m], rhs \in TemporalUnaries(Assertions) \cup TemporalBinaries(Assertions) :
                s = BooleanOperation("or", lhs, rhs) /\ s.parts[1].x = s.parts[2].x
            BY <2>8 DEF Disjunctions
        <3>2. lhs.x = rhs.x /\ s \in Booleans(L[m], {rhs})
            BY <3>1 DEF BooleanOperation, Booleans
        <3>3. rhs.x # "state"
            BY ShapeOfUnaries, ShapeOfBinaries DEF IsUnary, IsBinary
        <3>4. m # 0
            BY <1>1, <3>2, <3>3, AssertionKind
        <3>5. Assertions \subseteq L[m - 1] /\ L[m] = MoreStateSpecs(L[m - 1])
            BY <1>1, <2>1, <3>4, m - 1 \in 0..MaxRules, 0 \in 0..m - 1 DEF Heights
        <3>6. rhs \in L[m]
            BY <3>5 DEF MoreStateSpecs, TemporalUnaries, TemporalBinaries
        <3>7. IsBoolean(s, L[m])
            BY <3>2, <3>6, ShapeOfBooleans
        <3>. QED BY <3>7 DEF Shaped
    <2>. QED BY <2>2, <2>4, <2>5, <2>6, <2>7, <2>8 DEF MoreStateSpecs
<1>4. n \in Good
    <2> HIDE DEF Good
    <2>. QED BY <1>2, <1>3, SetInduction
<1>. QED BY <1>4 DEF L

LEMMA UnaryKind ==
    \A spec \in ActionUnary :
        \/ spec.x = "hook" /\ \E h \in {"start", "end"}, a \in PlatformActions, args \in Arguments :
                                spec = ActionHook(h, a, args)
        \/ spec.x = "during" /\ \E a \in PlatformActions, args \in Arguments : spec = During(a, args)
<1> SUFFICES ASSUME NEW spec \in ActionUnary
             PROVE  \/ /\ spec.x = "hook"
                       /\ \E h \in {"start", "end"}, a \in PlatformActions, args \in Arguments :
                                spec = ActionHook(h, a, args)
                    \/ spec.x = "during" /\ \E a \in PlatformActions, args \in Arguments : spec = During(a, args)
    OBVIOUS
<1>1. CASE spec \in ActionHooks
    <2>1. PICK h \in {"start", "end"}, a \in PlatformActions, args \in Arguments : spec = ActionHook(h, a, args)
        BY <1>1 DEF ActionHooks
    <2>2. spec.x = "hook"
        BY <2>1 DEF ActionHook
    <2>. QED BY <2>1, <2>2
<1>2. CASE spec \in Durations
    <2>1. PICK a \in PlatformActions, args \in Arguments : spec = During(a, args)
        BY <1>2 DEF Durations
    <2>2. spec.x = "during"
        BY <2>1 DEF During
    <2>. QED BY <2>1, <2>2
<1>. QED BY <1>1, <1>2 DEF ActionUnary

LEMMA ActionShape ==
    ASSUME NEW n \in 1..MaxRules, NEW spec \in ActionSpecsOf[n]
    PROVE  spec \in ActionUnary \/ IsBoolean(spec, ActionSpecsOf[n - 1])
<1> DEFINE L == ActionSpecsOf
           Good == {m \in Nat : m <= MaxRules =>
                        \A s \in L[m] : s \in ActionUnary \/ (m # 0 /\ IsBoolean(s, L[m - 1]))}
<1> MaxRules \in Nat
    BY ConstraintAssumption
<1> HIDE DEF L
<1>1. /\ L[0] = ActionUnary /\ Heights(L, MaxRules)
      /\ \A m \in 1..MaxRules : L[m] = MoreActionSpecs(L[m - 1])
    BY ActionLevels, ActionHeights DEF L
<1>2. 0 \in Good
    BY <1>1
<1>3. ASSUME NEW m \in Nat, m \in Good PROVE m + 1 \in Good
    <2> SUFFICES ASSUME m + 1 <= MaxRules, NEW s \in L[m + 1]
                 PROVE  s \in ActionUnary \/ IsBoolean(s, L[m])
        BY (m + 1) - 1 = m
    <2>1. m \in 0..MaxRules /\ m + 1 \in 1..MaxRules /\ (m + 1) - 1 = m
        OBVIOUS
    <2>2. L[m + 1] = MoreActionSpecs(L[m])
        BY <1>1, <2>1
    <2>3. ActionUnary \subseteq L[m]
        BY <1>1, <2>1 DEF Heights
    <2>4. CASE s \in L[m]
        <3>1. s \in ActionUnary \/ (m # 0 /\ IsBoolean(s, L[m - 1]))
            BY <1>3, <2>4
        <3>2. CASE m # 0 /\ IsBoolean(s, L[m - 1])
            <4>1. L[m - 1] \subseteq L[m]
                BY <1>1, <2>1, <3>2, m - 1 \in 0..m DEF Heights
            <4>. QED BY <3>2, <4>1 DEF IsBoolean, TwoParts
        <3>. QED BY <3>1, <3>2
    <2>5. CASE s \in Booleans(L[m], ActionUnary)
        BY <2>3, <2>5, ShapeOfBooleans
    <2>. QED BY <2>2, <2>4, <2>5 DEF MoreActionSpecs
<1>4. n \in Good
    <2> HIDE DEF Good
    <2>. QED BY <1>2, <1>3, SetInduction
<1>. QED BY <1>4 DEF L

-----------------------------------------------------------------------------
(* The recursive functions on specs satisfy their definitions, each of which
   looks at the parts of a spec only.                                       *)
Infos ==
    [type : {"NoOp", "Future", "Past", "Until", "Since"}, bounds : AllBounds,
     targets : SUBSET AutomatonStates, pre_targets : SUBSET AutomatonStates]

CompileOf(f, spec) ==
    CASE spec.x = "or" -> compile_or(f[spec.parts[1]], f[spec.parts[2]])
      [] spec.x = "state" -> {Info("NoOp", Unbounded, {spec.state}, {})}
      [] spec.x \in DOMAIN UnaryTypes -> compile_unary(spec.x, spec.bounds, f[spec.parts[1]])
      [] spec.x \in DOMAIN BinaryTypes -> compile_binary(spec.x, f[spec.parts[1]], f[spec.parts[2]])
      [] OTHER -> {}

LEMMA TypeNames ==
    /\ DOMAIN UnaryTypes = {"future", "past"} /\ DOMAIN BinaryTypes = {"until", "since"}
    /\ UnaryTypes["future"] = "Future" /\ UnaryTypes["past"] = "Past"
    /\ BinaryTypes["until"] = "Until" /\ BinaryTypes["since"] = "Since"
BY DEF UnaryTypes, BinaryTypes

LEMMA MergedTyped ==
    ASSUME NEW lhs \in Infos, NEW rhs \in Infos
    PROVE  Merged(lhs, rhs) \in Infos
BY DEF Merged, Info, Infos

(* A spec of all constraints, and the specs below it.                       *)
LEMMA StateSpecCases ==
    ASSUME NEW spec \in StateSpecs
    PROVE  spec \in Assertions \/ Shaped(spec, StateSpecs)
<1>1. CASE MaxRules = 0
    BY <1>1, StateLevels DEF StateSpecs
<1>2. CASE MaxRules # 0
    <2>1. MaxRules \in 1..MaxRules /\ MaxRules - 1 \in 0..MaxRules /\ MaxRules \in 0..MaxRules
        BY <1>2, ConstraintAssumption
    <2>2. StateSpecsOf[MaxRules - 1] \subseteq StateSpecs
        BY <2>1, StateHeights DEF StateSpecs, Heights
    <2>3. spec \in Assertions \/ Shaped(spec, StateSpecsOf[MaxRules - 1])
        BY <2>1, StateShape DEF StateSpecs
    <2>. QED BY <2>2, <2>3 DEF Shaped, IsBoolean, IsUnary, IsBinary, TwoParts
<1>. QED BY <1>1, <1>2

LEMMA CompileTyped ==
    ASSUME NEW f \in [StateSpecs -> SUBSET Infos], NEW spec \in StateSpecs
    PROVE  CompileOf(f, spec) \subseteq Infos
<1>1. CASE spec \in Assertions
    <2>1. spec.x = "state" /\ spec.state \in AutomatonStates
        BY <1>1, AssertionKind
    <2>2. Info("NoOp", Unbounded, {spec.state}, {}) \in Infos
        BY <2>1, BoundsTyped DEF Info, Infos
    <2>. QED BY <2>1, <2>2, TypeNames DEF CompileOf
<1>2. CASE IsBoolean(spec, StateSpecs)
    <2>1. f[spec.parts[1]] \subseteq Infos /\ f[spec.parts[2]] \subseteq Infos
        BY <1>2 DEF IsBoolean, TwoParts
    <2>2. compile_or(f[spec.parts[1]], f[spec.parts[2]]) \subseteq Infos
        BY <2>1, MergedTyped DEF compile_or
    <2>. QED BY <1>2, <2>2, TypeNames DEF CompileOf, IsBoolean
<1>3. CASE IsUnary(spec, StateSpecs)
    <2>1. f[spec.parts[1]] \subseteq Infos
        BY <1>3 DEF IsUnary
    <2>2. ASSUME spec.x \in DOMAIN UnaryTypes
          PROVE  compile_unary(spec.x, spec.bounds, f[spec.parts[1]]) \subseteq Infos
        BY <1>3, <2>1, <2>2, TypeNames DEF compile_unary, NoOps, Info, Infos, IsUnary
    <2>. QED BY <1>3, <2>2, TypeNames DEF CompileOf, IsUnary
<1>4. CASE IsBinary(spec, StateSpecs)
    <2>1. f[spec.parts[1]] \subseteq Infos /\ f[spec.parts[2]] \subseteq Infos
        BY <1>4 DEF IsBinary, TwoParts
    <2>2. compile_binary(spec.x, f[spec.parts[1]], f[spec.parts[2]]) \subseteq Infos
        BY <1>4, <2>1, TypeNames DEF compile_binary, NoOps, BinaryInfo, Info, Infos, IsBinary
    <2>. QED BY <1>4, <2>2, TypeNames DEF CompileOf, IsBinary
<1>. QED BY <1>1, <1>2, <1>3, <1>4, StateSpecCases DEF Shaped

(* What f and h agree on the parts of is the same for both.                 *)
AgreeBelow(f, h, S) == \A y \in S : f[y] = h[y]

LEMMA CompileLocal ==
    ASSUME NEW f, NEW h, NEW spec, NEW S, AgreeBelow(f, h, S), spec \in Assertions \/ Shaped(spec, S)
    PROVE  CompileOf(f, spec) = CompileOf(h, spec)
<1>1. CASE spec \in Assertions
    <2>1. spec.x = "state"
        BY <1>1, AssertionKind
    <2>. QED BY <2>1, TypeNames DEF CompileOf
<1>2. CASE IsBoolean(spec, S)
    BY <1>2, TypeNames DEF CompileOf, IsBoolean, TwoParts, AgreeBelow
<1>3. CASE IsUnary(spec, S)
    BY <1>3, TypeNames DEF CompileOf, IsUnary, AgreeBelow
<1>4. CASE IsBinary(spec, S)
    BY <1>4, TypeNames DEF CompileOf, IsBinary, TwoParts, AgreeBelow
<1>. QED BY <1>1, <1>2, <1>3, <1>4 DEF Shaped

(* Both kinds of specs are either in a base or made of parts with fewer
   operators ...                                                            *)
Levels(L, base) ==
    /\ L[0] = base
    /\ Heights(L, MaxRules)
    /\ \A n \in 1..MaxRules : \A spec \in L[n] : spec \in base \/ Shaped(spec, L[n - 1])

LEMMA StateSpecLevels == Levels(StateSpecsOf, Assertions)
BY StateLevels, StateHeights, StateShape DEF Levels

LEMMA ActionSpecLevels == Levels(ActionSpecsOf, ActionUnary)
<1>1. \A n \in 1..MaxRules : \A spec \in ActionSpecsOf[n] : spec \in ActionUnary \/ Shaped(spec, ActionSpecsOf[n - 1])
    BY ActionShape DEF Shaped
<1>. QED BY <1>1, ActionLevels, ActionHeights DEF Levels

(* ... so that what is handed on from parts to the whole holds for all, ... *)
Inherited(P, All, base) ==
    \A spec \in All, S \in SUBSET All : S \subseteq P /\ (spec \in base \/ Shaped(spec, S)) => spec \in P

LEMMA SpecInduction ==
    ASSUME NEW L, NEW base, Levels(L, base), NEW P, Inherited(P, L[MaxRules], base)
    PROVE  L[MaxRules] \subseteq P
<1> DEFINE N == MaxRules
           Good == {n \in Nat : n <= N => L[n] \subseteq P}
<1>1. N \in Nat
    BY ConstraintAssumption
<1>2. \A n \in 0..N : L[n] \subseteq L[N]
    BY <1>1, N \in 0..N DEF Heights, Levels
<1> HIDE DEF N
<1>3. 0 \in Good
    <2>1. L[0] \subseteq L[N] /\ L[0] = base
        BY <1>1, <1>2, 0 \in 0..N DEF Levels
    <2>2. {} \in SUBSET L[N] /\ {} \subseteq P
        OBVIOUS
    <2>. QED BY <2>1, <2>2 DEF Inherited, N
<1>4. ASSUME NEW n \in Nat, n \in Good PROVE n + 1 \in Good
    <2> SUFFICES ASSUME n + 1 <= N, NEW spec \in L[n + 1] PROVE spec \in P
        OBVIOUS
    <2>1. n \in 0..N /\ n + 1 \in 1..N /\ n + 1 \in 0..N /\ (n + 1) - 1 = n /\ n <= N
        BY <1>1
    <2>2. spec \in base \/ Shaped(spec, L[n])
        BY <2>1 DEF Levels, N
    <2>3. spec \in L[N] /\ L[n] \in SUBSET L[N] /\ L[n] \subseteq P
        BY <1>2, <1>4, <2>1
    <2>. QED BY <2>2, <2>3 DEF Inherited, N
<1>5. N \in Good
    <2> HIDE DEF Good
    <2>. QED BY <1>1, <1>3, <1>4, SetInduction
<1>. QED BY <1>1, <1>5 DEF N

(* ... and a recursive definition that looks at the parts of a spec only has
   a function.                                                              *)
OnSpecs(G, V, All, base) ==
    /\ \A spec \in All, f \in [All -> V] : G[<<spec, f>>] \in V
    /\ \A f \in [All -> V], h \in [All -> V], spec \in All, S \in SUBSET All :
            AgreeBelow(f, h, S) /\ (spec \in base \/ Shaped(spec, S)) => G[<<spec, f>>] = G[<<spec, h>>]

Satisfies(f, G, S, V) == f \in [S -> V] /\ \A x \in S : f[x] = G[<<x, f>>]

LEMMA SpecRecursion ==
    ASSUME NEW L, NEW base, Levels(L, base), NEW V, NEW v \in V, NEW G, OnSpecs(G, V, L[MaxRules], base)
    PROVE  \E f : Satisfies(f, G, L[MaxRules], V)
<1> DEFINE N == MaxRules
           All == L[N]
<1>1. N \in Nat /\ Heights(L, N)
    BY ConstraintAssumption DEF Levels
<1>2. \A n \in 0..N : L[n] \subseteq All
    BY <1>1, N \in 0..N DEF Heights
<1>3. ASSUME NEW f \in [All -> V], NEW h \in [All -> V], NEW spec \in L[0]
      PROVE  G[<<spec, f>>] = G[<<spec, h>>]
    <2>1. spec \in base /\ spec \in All
        BY <1>1, <1>2, 0 \in 0..N DEF Levels
    <2>. QED BY <2>1, {} \in SUBSET All DEF OnSpecs, AgreeBelow
<1>4. ASSUME NEW f \in [All -> V], NEW h \in [All -> V], NEW n \in 1..N,
             \A y \in L[n - 1] : f[y] = h[y], NEW spec \in L[n]
      PROVE  G[<<spec, f>>] = G[<<spec, h>>]
    <2>1. spec \in base \/ Shaped(spec, L[n - 1])
        BY DEF Levels
    <2>2. n \in 0..N /\ n - 1 \in 0..N
        BY <1>1
    <2>3. spec \in All /\ L[n - 1] \in SUBSET All
        BY <1>2, <2>2
    <2>. QED BY <1>4, <2>1, <2>3 DEF OnSpecs, AgreeBelow
<1>5. LooksBelow(G, L, N, V)
    <2>1. \A x \in L[N], f \in [L[N] -> V] : G[<<x, f>>] \in V
        BY DEF OnSpecs
    <2> HIDE DEF N
    <2>. QED BY <1>3, <1>4, <2>1 DEF LooksBelow
<1>6. \E f \in [L[N] -> V] : \A x \in L[N] : f[x] = G[<<x, f>>]
    <2> HIDE DEF N
    <2>. QED BY <1>1, <1>5, TreeRecursion
<1>. QED BY <1>6 DEF Satisfies

LEMMA CompileStep ==
    /\ compile \in [StateSpecs -> SUBSET Infos]
    /\ \A spec \in StateSpecs : compile[spec] = CompileOf(compile, spec)
<1> DEFINE V == SUBSET Infos
           G == [p \in StateSpecs \X [StateSpecs -> V] |-> CompileOf(p[2], p[1])]
<1>1. \A spec \in StateSpecs, f \in [StateSpecs -> V] : G[<<spec, f>>] = CompileOf(f, spec)
    OBVIOUS
<1> HIDE DEF G
<1>2. OnSpecs(G, V, StateSpecs, Assertions)
    BY <1>1, CompileTyped, CompileLocal DEF OnSpecs
<1>3. PICK f : Satisfies(f, G, StateSpecs, V)
    BY <1>2, {} \in V, SpecRecursion, StateSpecLevels DEF StateSpecs
<1>4. f \in [StateSpecs -> V] /\ \A spec \in StateSpecs : f[spec] = CompileOf(f, spec)
    BY <1>1, <1>3 DEF Satisfies
<1>5. \E g : g = [spec \in StateSpecs |-> CompileOf(g, spec)]
    <2> f = [spec \in StateSpecs |-> CompileOf(f, spec)]
        BY <1>4
    <2>. QED OBVIOUS
<1>6. compile = CHOOSE g : g = [spec \in StateSpecs |-> CompileOf(g, spec)]
    BY DEF compile, CompileOf
<1>7. compile = [spec \in StateSpecs |-> CompileOf(compile, spec)]
    BY <1>5, <1>6, Zenon
<1>8. \A spec \in StateSpecs : compile[spec] = CompileOf(compile, spec)
    BY <1>7, Zenon
<1> DEFINE Same == {spec \in StateSpecs : compile[spec] = f[spec]}
<1>9. Inherited(Same, StateSpecs, Assertions)
    BY <1>4, <1>8, CompileLocal DEF Inherited, AgreeBelow
<1>10. StateSpecs \subseteq Same
    BY <1>9, SpecInduction, StateSpecLevels DEF StateSpecs
<1>11. compile = f
    <2> HIDE DEF V
    <2>. QED BY <1>4, <1>7, <1>10
<1>. QED BY <1>4, <1>8, <1>11

LEMMA TimesTyped ==
    /\ \A bounds, Q, P : HoldsUntil(bounds, Q, P) \subseteq Times /\ HoldsSince(bounds, Q, P) \subseteq Times
    /\ \A bounds, P : Eventually(bounds, P) \subseteq Times /\ Once(bounds, P) \subseteq Times
BY DEF HoldsUntil, HoldsSince, Eventually, Once

MeansOf(f, spec) ==
    [trace \in Traces |->
        IF spec.x = "state" THEN {t \in Times : trace[t] = spec.state}
        ELSE OperationHolds(spec, f[spec.parts[1]][trace], f[spec.parts[2]][trace])]

LEMMA OperationTyped ==
    ASSUME NEW spec, NEW S, Shaped(spec, S), NEW Left \in SUBSET Times,
           NEW Right, spec.x = "or" => Right \subseteq Times
    PROVE  OperationHolds(spec, Left, Right) \subseteq Times
BY TimesTyped DEF OperationHolds, Shaped, IsBoolean, IsUnary, IsBinary

LEMMA MeansTyped ==
    ASSUME NEW f \in [StateSpecs -> [Traces -> SUBSET Times]], NEW spec \in StateSpecs
    PROVE  MeansOf(f, spec) \in [Traces -> SUBSET Times]
<1>1. CASE spec \in Assertions
    BY <1>1, AssertionKind DEF MeansOf
<1>2. CASE Shaped(spec, StateSpecs)
    <2> SUFFICES ASSUME NEW trace \in Traces
                 PROVE  OperationHolds(spec, f[spec.parts[1]][trace], f[spec.parts[2]][trace]) \in SUBSET Times
        BY DEF MeansOf
    <2>1. spec.parts[1] \in StateSpecs /\ (spec.x = "or" => spec.parts[2] \in StateSpecs)
        BY <1>2 DEF Shaped, IsBoolean, IsUnary, IsBinary, TwoParts
    <2>2. f[spec.parts[1]][trace] \in SUBSET Times /\ (spec.x = "or" => f[spec.parts[2]][trace] \subseteq Times)
        BY <2>1
    <2>. QED BY <1>2, <2>2, OperationTyped
<1>. QED BY <1>1, <1>2, StateSpecCases

LEMMA OperationLocal ==
    ASSUME NEW f, NEW h, NEW spec, NEW S, AgreeBelow(f, h, S), Shaped(spec, S), NEW trace
    PROVE  OperationHolds(spec, f[spec.parts[1]][trace], f[spec.parts[2]][trace])
                = OperationHolds(spec, h[spec.parts[1]][trace], h[spec.parts[2]][trace])
<1>1. CASE IsBoolean(spec, S)
    BY <1>1 DEF IsBoolean, TwoParts, AgreeBelow
<1>2. CASE IsUnary(spec, S)
    BY <1>2 DEF IsUnary, OperationHolds, AgreeBelow
<1>3. CASE IsBinary(spec, S)
    BY <1>3 DEF IsBinary, TwoParts, AgreeBelow
<1>. QED BY <1>1, <1>2, <1>3 DEF Shaped

LEMMA MeansLocal ==
    ASSUME NEW f, NEW h, NEW spec, NEW S, AgreeBelow(f, h, S), spec \in Assertions \/ Shaped(spec, S)
    PROVE  MeansOf(f, spec) = MeansOf(h, spec)
BY AssertionKind, OperationLocal DEF MeansOf

LEMMA MeansStep ==
    /\ Means \in [StateSpecs -> [Traces -> SUBSET Times]]
    /\ \A spec \in StateSpecs : Means[spec] = MeansOf(Means, spec)
<1> DEFINE V == [Traces -> SUBSET Times]
           G == [p \in StateSpecs \X [StateSpecs -> V] |-> MeansOf(p[2], p[1])]
<1>1. \A spec \in StateSpecs, f \in [StateSpecs -> V] : G[<<spec, f>>] = MeansOf(f, spec)
    OBVIOUS
<1> HIDE DEF G
<1>2. OnSpecs(G, V, StateSpecs, Assertions)
    BY <1>1, MeansTyped, MeansLocal DEF OnSpecs
<1>3. PICK f : Satisfies(f, G, StateSpecs, V)
    BY <1>2, [trace \in Traces |-> {}] \in V, SpecRecursion, StateSpecLevels DEF StateSpecs
<1>4. f \in [StateSpecs -> V] /\ \A spec \in StateSpecs : f[spec] = MeansOf(f, spec)
    BY <1>1, <1>3 DEF Satisfies
<1>5. \E g : g = [spec \in StateSpecs |-> MeansOf(g, spec)]
    <2> f = [spec \in StateSpecs |-> MeansOf(f, spec)]
        BY <1>4
    <2>. QED OBVIOUS
<1>6. Means = CHOOSE g : g = [spec \in StateSpecs |-> MeansOf(g, spec)]
    BY DEF Means, MeansOf
<1>7. Means = [spec \in StateSpecs |-> MeansOf(Means, spec)]
    BY <1>5, <1>6, Zenon
<1>8. \A spec \in StateSpecs : Means[spec] = MeansOf(Means, spec)
    BY <1>7, Zenon
<1> DEFINE Same == {spec \in StateSpecs : Means[spec] = f[spec]}
<1>9. Inherited(Same, StateSpecs, Assertions)
    <2> HIDE DEF V
    <2>1. \A spec \in StateSpecs, S \in SUBSET StateSpecs :
            S \subseteq Same /\ (spec \in Assertions \/ Shaped(spec, S)) => MeansOf(Means, spec) = MeansOf(f, spec)
        BY MeansLocal DEF AgreeBelow
    <2>. QED BY <1>4, <1>8, <2>1 DEF Inherited
<1>10. StateSpecs \subseteq Same
    BY <1>9, SpecInduction, StateSpecLevels DEF StateSpecs
<1>11. Means = f
    <2> HIDE DEF V
    <2>. QED BY <1>4, <1>7, <1>10
<1>. QED BY <1>4, <1>8, <1>11

BlurredOf(f, spec) ==
    \/ spec.x \in DOMAIN BinaryTypes /\ spec.bounds # Unbounded
    \/ spec.x = "or" /\ \E i \in DOMAIN spec.parts :
            spec.parts[i].x \in DOMAIN BinaryTypes \/ f[spec.parts[i]]

LEMMA BlurredTyped ==
    ASSUME NEW f, NEW spec PROVE BlurredOf(f, spec) \in BOOLEAN
BY DEF BlurredOf

LEMMA BlurredLocal ==
    ASSUME NEW f, NEW h, NEW spec, NEW S, AgreeBelow(f, h, S), spec \in Assertions \/ Shaped(spec, S)
    PROVE  BlurredOf(f, spec) = BlurredOf(h, spec)
<1>1. ASSUME spec.x = "or" PROVE IsBoolean(spec, S)
    BY <1>1, AssertionKind DEF Shaped, IsBoolean, IsUnary, IsBinary
<1>2. CASE spec.x = "or"
    BY <1>1, <1>2 DEF BlurredOf, IsBoolean, TwoParts, AgreeBelow
<1>3. CASE spec.x # "or"
    BY <1>3 DEF BlurredOf
<1>. QED BY <1>2, <1>3

LEMMA BlurredStep == \A spec \in StateSpecs : Blurred[spec] = BlurredOf(Blurred, spec)
<1> DEFINE V == BOOLEAN
           G == [p \in StateSpecs \X [StateSpecs -> V] |-> BlurredOf(p[2], p[1])]
<1>1. \A spec \in StateSpecs, f \in [StateSpecs -> V] : G[<<spec, f>>] = BlurredOf(f, spec)
    OBVIOUS
<1> HIDE DEF G
<1>2. OnSpecs(G, V, StateSpecs, Assertions)
    BY <1>1, BlurredTyped, BlurredLocal DEF OnSpecs
<1>3. PICK f : Satisfies(f, G, StateSpecs, V)
    BY <1>2, TRUE \in V, SpecRecursion, StateSpecLevels DEF StateSpecs
<1>4. f \in [StateSpecs -> V] /\ \A spec \in StateSpecs : f[spec] = BlurredOf(f, spec)
    BY <1>1, <1>3 DEF Satisfies
<1>5. \E g : g = [spec \in StateSpecs |-> BlurredOf(g, spec)]
    <2> f = [spec \in StateSpecs |-> BlurredOf(f, spec)]
        BY <1>4
    <2>. QED OBVIOUS
<1>6. Blurred = CHOOSE g : g = [spec \in StateSpecs |-> BlurredOf(g, spec)]
    BY DEF Blurred, BlurredOf
<1>7. Blurred = [spec \in StateSpecs |-> BlurredOf(Blurred, spec)]
    BY <1>5, <1>6, Zenon
<1>. QED BY <1>7, Zenon

LEMMA OrOfActions ==
    ASSUME NEW spec, NEW S, spec \in ActionUnary \/ Shaped(spec, S), spec.x = "or"
    PROVE  TwoParts(spec, S)
BY UnaryKind DEF Shaped, IsBoolean, IsUnary, IsBinary

Hooks == {"start", "end"} \X PlatformActions
ActivationSets == SUBSET SUBSET Hooks

ActivationsOf(f, spec) ==
    CASE spec.x = "or" -> either(f[spec.parts[1]], f[spec.parts[2]])
      [] spec.x = "hook" /\ OnlyWildcards(spec) -> {{<<spec.hook, spec.action>>}}
      [] OTHER -> {}

ChainActionsOf(f, spec) ==
    CASE spec.x = "or" -> either(f[spec.parts[1]], f[spec.parts[2]])
      [] spec.x = "during" /\ OnlyWildcards(spec) -> {{spec.action}}
      [] OTHER -> {}

MentionedOf(f, spec) ==
    IF spec.x = "or" THEN f[spec.parts[1]] \cup f[spec.parts[2]] ELSE {spec} \cap ActionUnary

LEMMA ActionSpecCases ==
    ASSUME NEW spec \in ActionSpecs
    PROVE  spec \in ActionUnary \/ IsBoolean(spec, ActionSpecs)
<1>1. CASE MaxRules = 0
    BY <1>1, ActionLevels DEF ActionSpecs
<1>2. CASE MaxRules # 0
    <2>1. MaxRules \in 1..MaxRules /\ MaxRules - 1 \in 0..MaxRules /\ MaxRules \in 0..MaxRules
        BY <1>2, ConstraintAssumption
    <2>2. ActionSpecsOf[MaxRules - 1] \subseteq ActionSpecs
        BY <2>1, ActionHeights DEF ActionSpecs, Heights
    <2>3. spec \in ActionUnary \/ IsBoolean(spec, ActionSpecsOf[MaxRules - 1])
        BY <2>1, ActionShape DEF ActionSpecs
    <2>. QED BY <2>2, <2>3 DEF IsBoolean, TwoParts
<1>. QED BY <1>1, <1>2

LEMMA EitherTyped ==
    ASSUME NEW S, NEW lhs \in SUBSET SUBSET S, NEW rhs \in SUBSET SUBSET S
    PROVE  either(lhs, rhs) \in SUBSET SUBSET S
BY DEF either

LEMMA ActivationsTyped ==
    ASSUME NEW f \in [ActionSpecs -> ActivationSets], NEW spec \in ActionSpecs
    PROVE  ActivationsOf(f, spec) \in ActivationSets
<1>1. CASE spec.x = "or"
    <2>1. TwoParts(spec, ActionSpecs)
        BY <1>1, ActionSpecCases, OrOfActions DEF Shaped
    <2>2. f[spec.parts[1]] \in ActivationSets /\ f[spec.parts[2]] \in ActivationSets
        BY <2>1 DEF TwoParts
    <2>3. either(f[spec.parts[1]], f[spec.parts[2]]) \in ActivationSets
        BY <2>2, EitherTyped DEF ActivationSets
    <2>. QED BY <1>1, <2>3 DEF ActivationsOf
<1>2. CASE spec.x = "hook"
    <2>1. PICK h \in {"start", "end"}, a \in PlatformActions, args \in Arguments : spec = ActionHook(h, a, args)
        BY <1>2, ActionSpecCases, UnaryKind DEF IsBoolean
    <2>2. spec.hook = h /\ spec.action = a
        BY <2>1 DEF ActionHook
    <2>3. {{<<spec.hook, spec.action>>}} \in ActivationSets
        BY <2>2 DEF ActivationSets, Hooks
    <2>4. {} \in ActivationSets
        BY DEF ActivationSets
    <2>. QED BY <1>2, <2>3, <2>4 DEF ActivationsOf
<1>. QED BY <1>1, <1>2 DEF ActivationsOf, ActivationSets

LEMMA ActivationsLocal ==
    ASSUME NEW f, NEW h, NEW spec, NEW S, AgreeBelow(f, h, S), spec \in ActionUnary \/ Shaped(spec, S)
    PROVE  ActivationsOf(f, spec) = ActivationsOf(h, spec)
BY OrOfActions DEF ActivationsOf, TwoParts, AgreeBelow

LEMMA ChainActionsTyped ==
    ASSUME NEW f \in [ActionSpecs -> SUBSET SUBSET PlatformActions], NEW spec \in ActionSpecs
    PROVE  ChainActionsOf(f, spec) \in SUBSET SUBSET PlatformActions
<1>1. CASE spec.x = "or"
    <2>1. TwoParts(spec, ActionSpecs)
        BY <1>1, ActionSpecCases, OrOfActions DEF Shaped
    <2>2. f[spec.parts[1]] \in SUBSET SUBSET PlatformActions /\ f[spec.parts[2]] \in SUBSET SUBSET PlatformActions
        BY <2>1 DEF TwoParts
    <2>. QED BY <1>1, <2>2, EitherTyped DEF ChainActionsOf
<1>2. CASE spec.x = "during"
    <2>1. PICK a \in PlatformActions, args \in Arguments : spec = During(a, args)
        BY <1>2, ActionSpecCases, UnaryKind DEF IsBoolean
    <2>2. spec.action = a
        BY <2>1 DEF During
    <2>. QED BY <1>2, <2>2 DEF ChainActionsOf
<1>. QED BY <1>1, <1>2 DEF ChainActionsOf

LEMMA ChainActionsLocal ==
    ASSUME NEW f, NEW h, NEW spec, NEW S, AgreeBelow(f, h, S), spec \in ActionUnary \/ Shaped(spec, S)
    PROVE  ChainActionsOf(f, spec) = ChainActionsOf(h, spec)
BY OrOfActions DEF ChainActionsOf, TwoParts, AgreeBelow

LEMMA MentionedTyped ==
    ASSUME NEW f \in [ActionSpecs -> SUBSET ActionUnary], NEW spec \in ActionSpecs
    PROVE  MentionedOf(f, spec) \in SUBSET ActionUnary
<1>1. CASE spec.x = "or"
    <2>1. TwoParts(spec, ActionSpecs)
        BY <1>1, ActionSpecCases, OrOfActions DEF Shaped
    <2>. QED BY <1>1, <2>1 DEF MentionedOf, TwoParts
<1>. QED BY <1>1 DEF MentionedOf

LEMMA MentionedLocal ==
    ASSUME NEW f, NEW h, NEW spec, NEW S, AgreeBelow(f, h, S), spec \in ActionUnary \/ Shaped(spec, S)
    PROVE  MentionedOf(f, spec) = MentionedOf(h, spec)
<1>1. CASE spec.x = "or"
    BY <1>1, OrOfActions DEF MentionedOf, TwoParts, AgreeBelow
<1>2. CASE spec.x # "or"
    BY <1>2 DEF MentionedOf
<1>. QED BY <1>1, <1>2

LEMMA ActivationsStep == \A spec \in ActionSpecs : activations[spec] = ActivationsOf(activations, spec)
<1> DEFINE V == ActivationSets
           G == [p \in ActionSpecs \X [ActionSpecs -> V] |-> ActivationsOf(p[2], p[1])]
<1>1. \A spec \in ActionSpecs, f \in [ActionSpecs -> V] : G[<<spec, f>>] = ActivationsOf(f, spec)
    OBVIOUS
<1> HIDE DEF G
<1>2. OnSpecs(G, V, ActionSpecs, ActionUnary)
    BY <1>1, ActivationsTyped, ActivationsLocal DEF OnSpecs
<1>3. PICK f : Satisfies(f, G, ActionSpecs, V)
    BY <1>2, {} \in V, SpecRecursion, ActionSpecLevels DEF ActionSpecs, ActivationSets
<1>4. f \in [ActionSpecs -> V] /\ \A spec \in ActionSpecs : f[spec] = ActivationsOf(f, spec)
    BY <1>1, <1>3 DEF Satisfies
<1>5. \E g : g = [spec \in ActionSpecs |-> ActivationsOf(g, spec)]
    <2> f = [spec \in ActionSpecs |-> ActivationsOf(f, spec)]
        BY <1>4
    <2>. QED OBVIOUS
<1>6. activations = CHOOSE g : g = [spec \in ActionSpecs |-> ActivationsOf(g, spec)]
    BY DEF activations, ActivationsOf
<1>7. activations = [spec \in ActionSpecs |-> ActivationsOf(activations, spec)]
    BY <1>5, <1>6, Zenon
<1>. QED BY <1>7, Zenon

LEMMA ChainActionsStep == \A spec \in ActionSpecs : chain_actions[spec] = ChainActionsOf(chain_actions, spec)
<1> DEFINE V == SUBSET SUBSET PlatformActions
           G == [p \in ActionSpecs \X [ActionSpecs -> V] |-> ChainActionsOf(p[2], p[1])]
<1>1. \A spec \in ActionSpecs, f \in [ActionSpecs -> V] : G[<<spec, f>>] = ChainActionsOf(f, spec)
    OBVIOUS
<1> HIDE DEF G
<1>2. OnSpecs(G, V, ActionSpecs, ActionUnary)
    BY <1>1, ChainActionsTyped, ChainActionsLocal DEF OnSpecs
<1>3. PICK f : Satisfies(f, G, ActionSpecs, V)
    BY <1>2, {} \in V, SpecRecursion, ActionSpecLevels DEF ActionSpecs
<1>4. f \in [ActionSpecs -> V] /\ \A spec \in ActionSpecs : f[spec] = ChainActionsOf(f, spec)
    BY <1>1, <1>3 DEF Satisfies
<1>5. \E g : g = [spec \in ActionSpecs |-> ChainActionsOf(g, spec)]
    <2> f = [spec \in ActionSpecs |-> ChainActionsOf(f, spec)]
        BY <1>4
    <2>. QED OBVIOUS
<1>6. chain_actions = CHOOSE g : g = [spec \in ActionSpecs |-> ChainActionsOf(g, spec)]
    BY DEF chain_actions, ChainActionsOf
<1>7. chain_actions = [spec \in ActionSpecs |-> ChainActionsOf(chain_actions, spec)]
    BY <1>5, <1>6, Zenon
<1>. QED BY <1>7, Zenon

LEMMA MentionedStep == \A spec \in ActionSpecs : Mentioned[spec] = MentionedOf(Mentioned, spec)
<1> DEFINE V == SUBSET ActionUnary
           G == [p \in ActionSpecs \X [ActionSpecs -> V] |-> MentionedOf(p[2], p[1])]
<1>1. \A spec \in ActionSpecs, f \in [ActionSpecs -> V] : G[<<spec, f>>] = MentionedOf(f, spec)
    OBVIOUS
<1> HIDE DEF G
<1>2. OnSpecs(G, V, ActionSpecs, ActionUnary)
    BY <1>1, MentionedTyped, MentionedLocal DEF OnSpecs
<1>3. PICK f : Satisfies(f, G, ActionSpecs, V)
    BY <1>2, {} \in V, SpecRecursion, ActionSpecLevels DEF ActionSpecs
<1>4. f \in [ActionSpecs -> V] /\ \A spec \in ActionSpecs : f[spec] = MentionedOf(f, spec)
    BY <1>1, <1>3 DEF Satisfies
<1>5. \E g : g = [spec \in ActionSpecs |-> MentionedOf(g, spec)]
    <2> f = [spec \in ActionSpecs |-> MentionedOf(f, spec)]
        BY <1>4
    <2>. QED OBVIOUS
<1>6. Mentioned = CHOOSE g : g = [spec \in ActionSpecs |-> MentionedOf(g, spec)]
    BY DEF Mentioned, MentionedOf
<1>7. Mentioned = [spec \in ActionSpecs |-> MentionedOf(Mentioned, spec)]
    BY <1>5, <1>6, Zenon
<1>. QED BY <1>7, Zenon
-----------------------------------------------------------------------------
(* Times.  More times and looser bounds give more.                          *)
At(states, trace) == {t \in Times : trace[t] \in states}

LEMMA UntilMonotone ==
    ASSUME NEW Q, NEW P, NEW b, NEW MoreQ, NEW MoreP, NEW c,
           Q \subseteq MoreQ, P \subseteq MoreP, P \subseteq Times, c = b \/ c = Unbounded
    PROVE  HoldsUntil(b, Q, P) \subseteq HoldsUntil(c, MoreQ, MoreP)
<1> SUFFICES ASSUME NEW t \in HoldsUntil(b, Q, P)
             PROVE  t \in HoldsUntil(c, MoreQ, MoreP)
    OBVIOUS
<1>1. t \in Times
    BY TimesTyped
<1>2. PICK u \in P : t <= u /\ Within(u - t, b) /\ t..u - 1 \subseteq Q
    BY DEF HoldsUntil
<1>3. Within(u - t, Unbounded)
    BY <1>1, <1>2, ConstraintAssumption DEF Within, Unbounded, Times
<1>. QED BY <1>1, <1>2, <1>3 DEF HoldsUntil

LEMMA SinceMonotone ==
    ASSUME NEW Q, NEW P, NEW b, NEW MoreQ, NEW MoreP, NEW c,
           Q \subseteq MoreQ, P \subseteq MoreP, P \subseteq Times, c = b \/ c = Unbounded
    PROVE  HoldsSince(b, Q, P) \subseteq HoldsSince(c, MoreQ, MoreP)
<1> SUFFICES ASSUME NEW t \in HoldsSince(b, Q, P)
             PROVE  t \in HoldsSince(c, MoreQ, MoreP)
    OBVIOUS
<1>1. t \in Times
    BY TimesTyped
<1>2. PICK u \in P : u <= t /\ Within(t - u, b) /\ u + 1..t \subseteq Q
    BY DEF HoldsSince
<1>3. Within(t - u, Unbounded)
    BY <1>1, <1>2, ConstraintAssumption DEF Within, Unbounded, Times
<1>. QED BY <1>1, <1>2, <1>3 DEF HoldsSince

(* A disjunction of two of them is one of them, or more than that.          *)
LEMMA DisjunctionOfTimes ==
    ASSUME NEW Q, NEW P, NEW R, NEW S, NEW b, P \subseteq Times, S \subseteq Times
    PROVE  /\ Eventually(b, P) \cup Eventually(b, S) = Eventually(b, P \cup S)
           /\ Once(b, P) \cup Once(b, S) = Once(b, P \cup S)
           /\ HoldsUntil(b, Q, P) \cup HoldsUntil(b, R, S) \subseteq HoldsUntil(b, Q \cup R, P \cup S)
           /\ HoldsSince(b, Q, P) \cup HoldsSince(b, R, S) \subseteq HoldsSince(b, Q \cup R, P \cup S)
<1>1. Eventually(b, P) \cup Eventually(b, S) = Eventually(b, P \cup S)
    BY DEF Eventually, HoldsUntil
<1>2. Once(b, P) \cup Once(b, S) = Once(b, P \cup S)
    BY DEF Once, HoldsSince
<1>3. /\ HoldsUntil(b, Q, P) \subseteq HoldsUntil(b, Q \cup R, P \cup S)
      /\ HoldsUntil(b, R, S) \subseteq HoldsUntil(b, Q \cup R, P \cup S)
    <2>1. Q \subseteq Q \cup R /\ R \subseteq Q \cup R /\ P \subseteq P \cup S /\ S \subseteq P \cup S
        OBVIOUS
    <2>. QED BY <2>1, UntilMonotone
<1>4. /\ HoldsSince(b, Q, P) \subseteq HoldsSince(b, Q \cup R, P \cup S)
      /\ HoldsSince(b, R, S) \subseteq HoldsSince(b, Q \cup R, P \cup S)
    <2>1. Q \subseteq Q \cup R /\ R \subseteq Q \cup R /\ P \subseteq P \cup S /\ S \subseteq P \cup S
        OBVIOUS
    <2>. QED BY <2>1, SinceMonotone
<1>. QED BY <1>1, <1>2, <1>3, <1>4

LEMMA SatisfiedCases ==
    ASSUME NEW info, NEW trace
    PROVE  /\ info.type \in {"NoOp", "UntilChain"} => SatisfiedAt(info, trace) = At(info.targets, trace)
           /\ info.type = "Future" => SatisfiedAt(info, trace) = Eventually(info.bounds, At(info.targets, trace))
           /\ info.type = "Past" => SatisfiedAt(info, trace) = Once(info.bounds, At(info.targets, trace))
           /\ info.type = "Until" => SatisfiedAt(info, trace)
                    = HoldsUntil(info.bounds, At(info.pre_targets, trace), At(info.targets, trace))
           /\ info.type = "Since" => SatisfiedAt(info, trace)
                    = HoldsSince(info.bounds, At(info.pre_targets, trace), At(info.targets, trace))
BY DEF SatisfiedAt, At

LEMMA UnionAt ==
    ASSUME NEW S, NEW T, NEW trace
    PROVE  At(S \cup T, trace) = At(S, trace) \cup At(T, trace)
BY DEF At
-----------------------------------------------------------------------------
(* What a state spec is compiled to.  Only what comes from assertions alone
   is a NoOp: it can be an operand.                                         *)
Exact(spec, info) == \A trace \in Traces : SatisfiedAt(info, trace) = Means[spec][trace]
Necessary(spec, info) == \A trace \in Traces : Means[spec][trace] \subseteq SatisfiedAt(info, trace)

Faithful(spec, info) ==
    /\ Necessary(spec, info)
    /\ ~Blurred[spec] => Exact(spec, info)
    /\ info.type = "NoOp" => info.bounds = Unbounded /\ Exact(spec, info)
    /\ info.type \in {"Until", "Since"} => spec.x \in DOMAIN BinaryTypes \/ Blurred[spec]

FaithfulSpecs == {spec \in StateSpecs : \A info \in compile[spec] : Faithful(spec, info)}

LEMMA ExactIsNecessary ==
    ASSUME NEW spec, NEW info, Exact(spec, info), info.type = "NoOp" => info.bounds = Unbounded,
           info.type \in {"Until", "Since"} => spec.x \in DOMAIN BinaryTypes \/ Blurred[spec]
    PROVE  Faithful(spec, info)
BY DEF Exact, Necessary, Faithful

LEMMA AssertionFaithful ==
    ASSUME NEW spec \in Assertions, spec \in StateSpecs
    PROVE  spec \in FaithfulSpecs
<1> SUFFICES ASSUME NEW info \in compile[spec] PROVE Faithful(spec, info)
    BY DEF FaithfulSpecs
<1>1. spec.x = "state"
    BY AssertionKind
<1>2. info = Info("NoOp", Unbounded, {spec.state}, {})
    <2>1. compile[spec] = CompileOf(compile, spec)
        BY CompileStep
    <2>2. CompileOf(compile, spec) = {Info("NoOp", Unbounded, {spec.state}, {})}
        BY <1>1, TypeNames DEF CompileOf
    <2>. QED BY <2>1, <2>2
<1>3. info.type = "NoOp" /\ info.bounds = Unbounded /\ info.targets = {spec.state}
    BY <1>2 DEF Info
<1>4. \A trace \in Traces : Means[spec][trace] = {t \in Times : trace[t] = spec.state}
    <2>1. Means[spec] = MeansOf(Means, spec)
        BY MeansStep
    <2>. QED BY <1>1, <2>1 DEF MeansOf
<1>5. \A trace : At({spec.state}, trace) = {t \in Times : trace[t] = spec.state}
    BY DEF At
<1>6. Exact(spec, info)
    <2>1. \A trace : SatisfiedAt(info, trace) = At({spec.state}, trace)
        BY <1>3, SatisfiedCases
    <2>. QED BY <1>4, <1>5, <2>1 DEF Exact
<1>. QED BY <1>3, <1>6, ExactIsNecessary

LEMMA MeansOperation ==
    ASSUME NEW spec \in StateSpecs, NEW S, Shaped(spec, S), NEW trace \in Traces
    PROVE  Means[spec][trace] = OperationHolds(spec, Means[spec.parts[1]][trace], Means[spec.parts[2]][trace])
<1>1. Means[spec] = MeansOf(Means, spec)
    BY MeansStep
<1>2. spec.x # "state"
    BY DEF Shaped, IsBoolean, IsUnary, IsBinary
<1>. QED BY <1>1, <1>2 DEF MeansOf

LEMMA MeansTimes ==
    ASSUME NEW spec \in StateSpecs, NEW trace \in Traces
    PROVE  Means[spec][trace] \subseteq Times
BY MeansStep

LEMMA UnaryFaithful ==
    ASSUME NEW spec \in StateSpecs, NEW S \in SUBSET StateSpecs, S \subseteq FaithfulSpecs, IsUnary(spec, S)
    PROVE  spec \in FaithfulSpecs
<1> SUFFICES ASSUME NEW info \in compile[spec] PROVE Faithful(spec, info)
    BY DEF FaithfulSpecs
<1>1. compile[spec] = CompileOf(compile, spec)
    BY CompileStep
<1>2. /\ spec.x \in {"future", "past"}
      /\ info \in compile_unary(spec.x, spec.bounds, compile[spec.parts[1]])
    BY <1>1, TypeNames DEF IsUnary, CompileOf
<1>3. PICK subject \in compile[spec.parts[1]] :
        subject.type = "NoOp" /\ info = Info(UnaryTypes[spec.x], spec.bounds, subject.targets, {})
    BY <1>2 DEF compile_unary, NoOps
<1>4. Exact(spec.parts[1], subject)
    BY <1>3 DEF IsUnary, FaithfulSpecs, Faithful
<1>5. /\ info.targets = subject.targets /\ info.bounds = spec.bounds
      /\ info.type = UnaryTypes[spec.x]
    BY <1>3 DEF Info
<1>6. Exact(spec, info)
    <2> SUFFICES ASSUME NEW trace \in Traces
                 PROVE  SatisfiedAt(info, trace) = Means[spec][trace]
        BY DEF Exact
    <2> DEFINE Left == Means[spec.parts[1]][trace]
    <2>1. At(info.targets, trace) = Left
        BY <1>3, <1>4, <1>5, SatisfiedCases DEF Exact
    <2>2. Means[spec][trace] = OperationHolds(spec, Left, Means[spec.parts[2]][trace])
        BY MeansOperation DEF Shaped
    <2> HIDE DEF Left
    <2>3. CASE spec.x = "future"
        BY <1>5, <2>1, <2>2, <2>3, TypeNames, SatisfiedCases DEF OperationHolds
    <2>4. CASE spec.x = "past"
        BY <1>5, <2>1, <2>2, <2>4, TypeNames, SatisfiedCases DEF OperationHolds
    <2>. QED BY <1>2, <2>3, <2>4
<1>7. info.type \in {"Future", "Past"}
    BY <1>2, <1>5, TypeNames
<1>. QED BY <1>6, <1>7, ExactIsNecessary

LEMMA BinaryFaithful ==
    ASSUME NEW spec \in StateSpecs, NEW S \in SUBSET StateSpecs, S \subseteq FaithfulSpecs, IsBinary(spec, S)
    PROVE  spec \in FaithfulSpecs
<1> SUFFICES ASSUME NEW info \in compile[spec] PROVE Faithful(spec, info)
    BY DEF FaithfulSpecs
<1>1. compile[spec] = CompileOf(compile, spec)
    BY CompileStep
<1>2. info \in compile_binary(spec.x, compile[spec.parts[1]], compile[spec.parts[2]])
    BY <1>1, TypeNames DEF IsBinary, CompileOf
<1>3. PICK lhs \in compile[spec.parts[1]], rhs \in compile[spec.parts[2]] :
        lhs.type = "NoOp" /\ rhs.type = "NoOp" /\ info = BinaryInfo(spec.x, lhs, rhs)
    BY <1>2 DEF compile_binary, NoOps
<1>4. Exact(spec.parts[1], lhs) /\ Exact(spec.parts[2], rhs) /\ rhs.bounds = Unbounded
    BY <1>3 DEF IsBinary, TwoParts, FaithfulSpecs, Faithful
<1>5. /\ info.targets = rhs.targets /\ info.pre_targets = lhs.targets /\ info.bounds = Unbounded
      /\ info.type = BinaryTypes[spec.x]
    BY <1>3, <1>4 DEF BinaryInfo, Info
<1>6. ASSUME NEW trace \in Traces
      PROVE  /\ Means[spec][trace] \subseteq SatisfiedAt(info, trace)
             /\ spec.bounds = Unbounded => SatisfiedAt(info, trace) = Means[spec][trace]
    <2> DEFINE Left == Means[spec.parts[1]][trace]
               Right == Means[spec.parts[2]][trace]
    <2>1. At(info.pre_targets, trace) = Left /\ At(info.targets, trace) = Right
        BY <1>3, <1>4, <1>5, SatisfiedCases DEF Exact
    <2>2. Means[spec][trace] = OperationHolds(spec, Left, Right)
        BY MeansOperation DEF Shaped
    <2>3. Right \subseteq Times
        BY <2>1 DEF At
    <2> HIDE DEF Left, Right
    <2>4. CASE spec.x = "until"
        <3>1. SatisfiedAt(info, trace) = HoldsUntil(Unbounded, Left, Right)
            BY <1>5, <2>1, <2>4, TypeNames, SatisfiedCases
        <3>2. Means[spec][trace] = HoldsUntil(spec.bounds, Left, Right)
            BY <2>2, <2>4 DEF OperationHolds
        <3>. QED BY <2>3, <3>1, <3>2, UntilMonotone
    <2>5. CASE spec.x = "since"
        <3>1. SatisfiedAt(info, trace) = HoldsSince(Unbounded, Left, Right)
            BY <1>5, <2>1, <2>5, TypeNames, SatisfiedCases
        <3>2. Means[spec][trace] = HoldsSince(spec.bounds, Left, Right)
            BY <2>2, <2>5 DEF OperationHolds
        <3>. QED BY <2>3, <3>1, <3>2, SinceMonotone
    <2>. QED BY <2>4, <2>5 DEF IsBinary
<1>7. ~Blurred[spec] => spec.bounds = Unbounded
    <2>1. Blurred[spec] = BlurredOf(Blurred, spec)
        BY BlurredStep
    <2>. QED BY <2>1, TypeNames DEF BlurredOf, IsBinary
<1>8. info.type # "NoOp" /\ spec.x \in DOMAIN BinaryTypes
    BY <1>5, TypeNames DEF IsBinary
<1>. QED BY <1>6, <1>7, <1>8 DEF Faithful, Necessary, Exact

LEMMA BooleanFaithful ==
    ASSUME NEW spec \in StateSpecs, NEW S \in SUBSET StateSpecs, S \subseteq FaithfulSpecs, IsBoolean(spec, S)
    PROVE  spec \in FaithfulSpecs
<1> SUFFICES ASSUME NEW info \in compile[spec] PROVE Faithful(spec, info)
    BY DEF FaithfulSpecs
<1>1. compile[spec] = CompileOf(compile, spec)
    BY CompileStep
<1>2. spec.x = "or" /\ info \in compile_or(compile[spec.parts[1]], compile[spec.parts[2]])
    BY <1>1, TypeNames DEF IsBoolean, CompileOf
<1>3. PICK lhs \in compile[spec.parts[1]], rhs \in compile[spec.parts[2]] :
        lhs.type = rhs.type /\ lhs.bounds = rhs.bounds /\ info = Merged(lhs, rhs)
    BY <1>2 DEF compile_or, Mergeable
<1>4. /\ spec.parts[1] \in StateSpecs /\ spec.parts[2] \in StateSpecs
      /\ Faithful(spec.parts[1], lhs) /\ Faithful(spec.parts[2], rhs)
    BY <1>3 DEF IsBoolean, TwoParts, FaithfulSpecs
<1>5. /\ info.targets = lhs.targets \cup rhs.targets /\ info.pre_targets = lhs.pre_targets \cup rhs.pre_targets
      /\ info.type = lhs.type /\ info.bounds = lhs.bounds
    BY <1>3 DEF Merged, Info
<1>6. lhs \in Infos /\ rhs \in Infos
    BY <1>3, <1>4, CompileStep
<1>7. lhs.type \in {"NoOp", "Future", "Past", "Until", "Since"}
    BY <1>6 DEF Infos
<1>8. /\ (Blurred[spec.parts[1]] \/ Blurred[spec.parts[2]]) => Blurred[spec]
      /\ (spec.parts[1].x \in DOMAIN BinaryTypes \/ spec.parts[2].x \in DOMAIN BinaryTypes) => Blurred[spec]
    <2>1. Blurred[spec] = BlurredOf(Blurred, spec)
        BY BlurredStep
    <2>. QED BY <1>2, <2>1 DEF BlurredOf, IsBoolean, TwoParts
<1>9. info.type \in {"Until", "Since"} => Blurred[spec]
    BY <1>4, <1>5, <1>8 DEF Faithful
<1>10. ASSUME NEW trace \in Traces
       PROVE  /\ Means[spec][trace] = Means[spec.parts[1]][trace] \cup Means[spec.parts[2]][trace]
              /\ SatisfiedAt(lhs, trace) \cup SatisfiedAt(rhs, trace) \subseteq SatisfiedAt(info, trace)
              /\ info.type \notin {"Until", "Since"} =>
                    SatisfiedAt(lhs, trace) \cup SatisfiedAt(rhs, trace) = SatisfiedAt(info, trace)
    <2> DEFINE P == At(lhs.targets, trace)
               R == At(rhs.targets, trace)
               Q == At(lhs.pre_targets, trace)
               T == At(rhs.pre_targets, trace)
               b == lhs.bounds
    <2>1. Means[spec][trace] = Means[spec.parts[1]][trace] \cup Means[spec.parts[2]][trace]
        BY <1>2, MeansOperation DEF Shaped, OperationHolds
    <2>2. P \subseteq Times /\ R \subseteq Times
        BY DEF At
    <2>3. At(info.targets, trace) = P \cup R /\ At(info.pre_targets, trace) = Q \cup T
        BY <1>5, UnionAt
    <2> HIDE DEF P, R, Q, T, b
    <2>4. CASE lhs.type = "NoOp"
        BY <1>3, <1>5, <2>1, <2>3, <2>4, SatisfiedCases DEF P, R
    <2>5. CASE lhs.type = "Future"
        <3>1. /\ SatisfiedAt(lhs, trace) = Eventually(b, P) /\ SatisfiedAt(rhs, trace) = Eventually(b, R)
              /\ SatisfiedAt(info, trace) = Eventually(b, P \cup R)
            BY <1>3, <1>5, <2>3, <2>5, SatisfiedCases DEF P, R, b
        <3>2. Eventually(b, P) \cup Eventually(b, R) = Eventually(b, P \cup R)
            BY <2>2, DisjunctionOfTimes
        <3>. QED BY <2>1, <3>1, <3>2
    <2>6. CASE lhs.type = "Past"
        <3>1. /\ SatisfiedAt(lhs, trace) = Once(b, P) /\ SatisfiedAt(rhs, trace) = Once(b, R)
              /\ SatisfiedAt(info, trace) = Once(b, P \cup R)
            BY <1>3, <1>5, <2>3, <2>6, SatisfiedCases DEF P, R, b
        <3>2. Once(b, P) \cup Once(b, R) = Once(b, P \cup R)
            BY <2>2, DisjunctionOfTimes
        <3>. QED BY <2>1, <3>1, <3>2
    <2>7. CASE lhs.type = "Until"
        <3>1. /\ SatisfiedAt(lhs, trace) = HoldsUntil(b, Q, P) /\ SatisfiedAt(rhs, trace) = HoldsUntil(b, T, R)
              /\ SatisfiedAt(info, trace) = HoldsUntil(b, Q \cup T, P \cup R)
            BY <1>3, <1>5, <2>3, <2>7, SatisfiedCases DEF P, R, Q, T, b
        <3>2. HoldsUntil(b, Q, P) \cup HoldsUntil(b, T, R) \subseteq HoldsUntil(b, Q \cup T, P \cup R)
            BY <2>2, DisjunctionOfTimes
        <3>. QED BY <1>5, <2>1, <2>7, <3>1, <3>2
    <2>8. CASE lhs.type = "Since"
        <3>1. /\ SatisfiedAt(lhs, trace) = HoldsSince(b, Q, P) /\ SatisfiedAt(rhs, trace) = HoldsSince(b, T, R)
              /\ SatisfiedAt(info, trace) = HoldsSince(b, Q \cup T, P \cup R)
            BY <1>3, <1>5, <2>3, <2>8, SatisfiedCases DEF P, R, Q, T, b
        <3>2. HoldsSince(b, Q, P) \cup HoldsSince(b, T, R) \subseteq HoldsSince(b, Q \cup T, P \cup R)
            BY <2>2, DisjunctionOfTimes
        <3>. QED BY <1>5, <2>1, <2>8, <3>1, <3>2
    <2>. QED BY <1>7, <2>4, <2>5, <2>6, <2>7, <2>8
<1>11. Necessary(spec, info)
    BY <1>4, <1>10 DEF Necessary, Faithful
<1>12. ASSUME ~Blurred[spec] PROVE Exact(spec, info)
    <2>1. Exact(spec.parts[1], lhs) /\ Exact(spec.parts[2], rhs)
        BY <1>4, <1>8, <1>12 DEF Faithful
    <2>. QED BY <1>9, <1>10, <1>12, <2>1 DEF Exact
<1>13. ASSUME info.type = "NoOp" PROVE info.bounds = Unbounded /\ Exact(spec, info)
    <2>1. Exact(spec.parts[1], lhs) /\ Exact(spec.parts[2], rhs) /\ lhs.bounds = Unbounded
        BY <1>3, <1>4, <1>5, <1>13 DEF Faithful
    <2>. QED BY <1>5, <1>10, <1>13, <2>1 DEF Exact
<1>. QED BY <1>9, <1>11, <1>12, <1>13 DEF Faithful

(* All specs of all sizes.                                                  *)
LEMMA AllFaithful ==
    ASSUME NEW spec \in StateSpecs, NEW info \in compile[spec]
    PROVE  Faithful(spec, info)
<1>1. Inherited(FaithfulSpecs, StateSpecs, Assertions)
    BY AssertionFaithful, UnaryFaithful, BinaryFaithful, BooleanFaithful DEF Inherited, Shaped
<1>2. StateSpecs \subseteq FaithfulSpecs
    BY <1>1, SpecInduction, StateSpecLevels DEF StateSpecs
<1>. QED BY <1>2 DEF FaithfulSpecs
LEMMA ChainFaithful ==
    ASSUME NEW spec \in StateSpecs, NEW info \in compile_chain(spec)
    PROVE  Exact(spec, info)
<1>1. PICK i \in compile[spec] : i.type = "NoOp" /\ info = Info("UntilChain", Unbounded, i.targets, {})
    BY DEF compile_chain, NoOps
<1>2. Exact(spec, i)
    BY <1>1, AllFaithful DEF Faithful
<1>3. info.type = "UntilChain" /\ info.targets = i.targets
    BY <1>1 DEF Info
<1>4. \A trace : SatisfiedAt(info, trace) = SatisfiedAt(i, trace)
    BY <1>1, <1>3, SatisfiedCases
<1>. QED BY <1>2, <1>4 DEF Exact

-----------------------------------------------------------------------------
(* What an action spec is compiled to: each of its hooks and actions, and
   nothing else.                                                            *)
HooksOf(at, spec) ==
    \A a \in PlatformActions :
        /\ \A h \in {"start", "end"} : <<h, a>> \in at <=> ActionHook(h, a, "wildcards") \in Mentioned[spec]
        /\ During(a, "wildcards") \notin Mentioned[spec]

DurationsOf(during, spec) ==
    \A a \in PlatformActions :
        /\ a \in during <=> During(a, "wildcards") \in Mentioned[spec]
        /\ \A h \in {"start", "end"} : ActionHook(h, a, "wildcards") \notin Mentioned[spec]

HookSpecs == {spec \in ActionSpecs : \A at \in activations[spec] : HooksOf(at, spec)}
DurationSpecs == {spec \in ActionSpecs : \A during \in chain_actions[spec] : DurationsOf(during, spec)}

LEMMA ActionNames ==
    /\ \A h, a, g, b : ActionHook(h, a, "wildcards") = ActionHook(g, b, "wildcards") <=> h = g /\ a = b
    /\ \A a, b : During(a, "wildcards") = During(b, "wildcards") <=> a = b
    /\ \A h, a, b : ActionHook(h, a, "wildcards") # During(b, "wildcards")
<1>1. ASSUME NEW h, NEW a
      PROVE  LET hook == ActionHook(h, a, "wildcards") IN hook.x = "hook" /\ hook.hook = h /\ hook.action = a
    BY DEF ActionHook
<1>2. ASSUME NEW a
      PROVE  LET during == During(a, "wildcards") IN during.x = "during" /\ during.action = a
    BY DEF During
<1>3. ASSUME NEW h, NEW a, NEW g, NEW b, ActionHook(h, a, "wildcards") = ActionHook(g, b, "wildcards")
      PROVE  h = g /\ a = b
    BY <1>1, <1>3
<1>4. ASSUME NEW a, NEW b, During(a, "wildcards") = During(b, "wildcards")
      PROVE  a = b
    BY <1>2, <1>4
<1>5. ASSUME NEW h, NEW a, NEW b, ActionHook(h, a, "wildcards") = During(b, "wildcards")
      PROVE  FALSE
    BY <1>1, <1>2, <1>5
<1>. QED BY <1>3, <1>4, <1>5, Zenon

LEMMA MentionedUnary ==
    ASSUME NEW spec \in ActionUnary, spec \in ActionSpecs
    PROVE  Mentioned[spec] = {spec}
<1>1. Mentioned[spec] = MentionedOf(Mentioned, spec)
    BY MentionedStep
<1>2. spec.x # "or"
    BY UnaryKind
<1>. QED BY <1>1, <1>2 DEF MentionedOf

LEMMA MentionedOr ==
    ASSUME NEW spec \in ActionSpecs, spec.x = "or"
    PROVE  Mentioned[spec] = Mentioned[spec.parts[1]] \cup Mentioned[spec.parts[2]]
<1>1. Mentioned[spec] = MentionedOf(Mentioned, spec)
    BY MentionedStep
<1>. QED BY <1>1 DEF MentionedOf

LEMMA ActivationsMean ==
    ASSUME NEW spec \in ActionSpecs, NEW at \in activations[spec]
    PROVE  HooksOf(at, spec)
<1>1. ASSUME NEW lhs \in ActionUnary, lhs \in ActionSpecs PROVE lhs \in HookSpecs
    <2> SUFFICES ASSUME NEW on \in activations[lhs] PROVE HooksOf(on, lhs)
        BY <1>1 DEF HookSpecs
    <2>1. activations[lhs] = ActivationsOf(activations, lhs)
        BY <1>1, ActivationsStep
    <2>2. lhs.x = "hook" /\ lhs.args = "wildcards" /\ on = {<<lhs.hook, lhs.action>>}
        BY <2>1, UnaryKind DEF ActivationsOf, OnlyWildcards
    <2>3. PICK h \in {"start", "end"}, a \in PlatformActions, args \in Arguments : lhs = ActionHook(h, a, args)
        BY <2>2, UnaryKind
    <2>4. lhs = ActionHook(h, a, "wildcards") /\ on = {<<h, a>>}
        BY <2>2, <2>3 DEF ActionHook
    <2>5. Mentioned[lhs] = {lhs}
        BY <1>1, MentionedUnary
    <2>. QED BY <2>4, <2>5, ActionNames DEF HooksOf
<1>2. ASSUME NEW lhs \in ActionSpecs, NEW S \in SUBSET ActionSpecs, S \subseteq HookSpecs, Shaped(lhs, S)
      PROVE  lhs \in HookSpecs
    <2> SUFFICES ASSUME NEW on \in activations[lhs] PROVE HooksOf(on, lhs)
        BY DEF HookSpecs
    <2>1. activations[lhs] = ActivationsOf(activations, lhs)
        BY ActivationsStep
    <2>2. lhs.x = "or" /\ on \in either(activations[lhs.parts[1]], activations[lhs.parts[2]])
        BY <1>2, <2>1 DEF ActivationsOf, Shaped, IsBoolean, IsUnary, IsBinary
    <2>3. PICK l \in activations[lhs.parts[1]], r \in activations[lhs.parts[2]] : on = l \cup r
        BY <2>2 DEF either
    <2>4. HooksOf(l, lhs.parts[1]) /\ HooksOf(r, lhs.parts[2])
        BY <1>2, <2>2, <2>3, OrOfActions DEF TwoParts, HookSpecs
    <2>5. Mentioned[lhs] = Mentioned[lhs.parts[1]] \cup Mentioned[lhs.parts[2]]
        BY <2>2, MentionedOr
    <2>. QED BY <2>3, <2>4, <2>5 DEF HooksOf
<1>3. Inherited(HookSpecs, ActionSpecs, ActionUnary)
    BY <1>1, <1>2 DEF Inherited
<1>4. ActionSpecs \subseteq HookSpecs
    BY <1>3, SpecInduction, ActionSpecLevels DEF ActionSpecs
<1>. QED BY <1>4 DEF HookSpecs

LEMMA ChainActionsMean ==
    ASSUME NEW spec \in ActionSpecs, NEW during \in chain_actions[spec]
    PROVE  DurationsOf(during, spec)
<1>1. ASSUME NEW lhs \in ActionUnary, lhs \in ActionSpecs PROVE lhs \in DurationSpecs
    <2> SUFFICES ASSUME NEW on \in chain_actions[lhs] PROVE DurationsOf(on, lhs)
        BY <1>1 DEF DurationSpecs
    <2>1. chain_actions[lhs] = ChainActionsOf(chain_actions, lhs)
        BY <1>1, ChainActionsStep
    <2>2. lhs.x = "during" /\ lhs.args = "wildcards" /\ on = {lhs.action}
        BY <2>1, UnaryKind DEF ChainActionsOf, OnlyWildcards
    <2>3. PICK a \in PlatformActions, args \in Arguments : lhs = During(a, args)
        BY <2>2, UnaryKind
    <2>4. lhs = During(a, "wildcards") /\ on = {a}
        BY <2>2, <2>3 DEF During
    <2>5. Mentioned[lhs] = {lhs}
        BY <1>1, MentionedUnary
    <2>. QED BY <2>4, <2>5, ActionNames DEF DurationsOf
<1>2. ASSUME NEW lhs \in ActionSpecs, NEW S \in SUBSET ActionSpecs, S \subseteq DurationSpecs, Shaped(lhs, S)
      PROVE  lhs \in DurationSpecs
    <2> SUFFICES ASSUME NEW on \in chain_actions[lhs] PROVE DurationsOf(on, lhs)
        BY DEF DurationSpecs
    <2>1. chain_actions[lhs] = ChainActionsOf(chain_actions, lhs)
        BY ChainActionsStep
    <2>2. lhs.x = "or" /\ on \in either(chain_actions[lhs.parts[1]], chain_actions[lhs.parts[2]])
        BY <1>2, <2>1 DEF ChainActionsOf, Shaped, IsBoolean, IsUnary, IsBinary
    <2>3. PICK l \in chain_actions[lhs.parts[1]], r \in chain_actions[lhs.parts[2]] : on = l \cup r
        BY <2>2 DEF either
    <2>4. DurationsOf(l, lhs.parts[1]) /\ DurationsOf(r, lhs.parts[2])
        BY <1>2, <2>2, <2>3, OrOfActions DEF TwoParts, DurationSpecs
    <2>5. Mentioned[lhs] = Mentioned[lhs.parts[1]] \cup Mentioned[lhs.parts[2]]
        BY <2>2, MentionedOr
    <2>. QED BY <2>3, <2>4, <2>5 DEF DurationsOf
<1>3. Inherited(DurationSpecs, ActionSpecs, ActionUnary)
    BY <1>1, <1>2 DEF Inherited
<1>4. ActionSpecs \subseteq DurationSpecs
    BY <1>3, SpecInduction, ActionSpecLevels DEF ActionSpecs
<1>. QED BY <1>4 DEF DurationSpecs
-----------------------------------------------------------------------------
(* Constraints as they are compiled.                                        *)
CompiledFrom(c, lhs, spec) ==
    /\ Necessary(spec, c.info) /\ (~Blurred[spec] => Exact(spec, c.info))
    /\ \/ HooksOf(c.at, lhs) /\ c.during = {}
       \/ DurationsOf(c.during, lhs) /\ c.at = {}

LEMMA CompiledParts ==
    ASSUME NEW lhs \in ActionSpecs, NEW spec \in StateSpecs, NEW c \in Compiled(lhs, spec)
    PROVE  CompiledFrom(c, lhs, spec)
<1>1. CASE is_chain[lhs]
    <2>1. PICK during \in chain_actions[lhs], info \in compile_chain(spec) :
            c = [during |-> during, at |-> {}, info |-> info]
        BY <1>1 DEF Compiled
    <2>2. c.during = during /\ c.at = {} /\ c.info = info
        BY <2>1
    <2>3. DurationsOf(during, lhs) /\ Exact(spec, info)
        BY ChainActionsMean, ChainFaithful
    <2>. QED BY <2>2, <2>3 DEF CompiledFrom, Exact, Necessary
<1>2. CASE ~is_chain[lhs]
    <2>1. PICK at \in activations[lhs], info \in compile[spec] :
            c = [during |-> {}, at |-> at, info |-> info]
        BY <1>2 DEF Compiled
    <2>2. c.during = {} /\ c.at = at /\ c.info = info
        BY <2>1
    <2>3. HooksOf(at, lhs) /\ Faithful(spec, info)
        BY ActivationsMean, AllFaithful
    <2>. QED BY <2>2, <2>3 DEF CompiledFrom, Faithful
<1>. QED BY <1>1, <1>2

LEMMA CompiledAllows ==
    ASSUME NEW lhs \in ActionSpecs, NEW spec \in StateSpecs, NEW c, CompiledFrom(c, lhs, spec),
           NEW trace \in Traces, NEW a \in PlatformActions, NEW starts, NEW ends
    PROVE  /\ Demands(lhs, spec, trace, a, starts, ends) => Allows(c, trace, a, starts, ends)
           /\ ~Blurred[spec] =>
                (Demands(lhs, spec, trace, a, starts, ends) <=> Allows(c, trace, a, starts, ends))
<1> DEFINE meant == Means[spec][trace]
           satisfied == SatisfiedAt(c.info, trace)
<1>1. meant \subseteq satisfied /\ (~Blurred[spec] => meant = satisfied)
    BY DEF CompiledFrom, Necessary, Exact
<1>2. Demands(lhs, spec, trace, a, starts, ends) <=>
        /\ ActionHook("start", a, "wildcards") \in Mentioned[lhs] => starts \in meant
        /\ ActionHook("end", a, "wildcards") \in Mentioned[lhs] => ends \in meant
        /\ During(a, "wildcards") \in Mentioned[lhs] => starts..ends \subseteq meant
    BY DEF Demands
<1>3. Allows(c, trace, a, starts, ends) <=>
        /\ <<"start", a>> \in c.at => starts \in satisfied
        /\ <<"end", a>> \in c.at => ends \in satisfied
        /\ a \in c.during => starts..ends \subseteq satisfied
    BY DEF Allows
<1> HIDE DEF meant, satisfied
<1>4. CASE HooksOf(c.at, lhs) /\ c.during = {}
    <2>1. /\ <<"start", a>> \in c.at <=> ActionHook("start", a, "wildcards") \in Mentioned[lhs]
          /\ <<"end", a>> \in c.at <=> ActionHook("end", a, "wildcards") \in Mentioned[lhs]
          /\ During(a, "wildcards") \notin Mentioned[lhs] /\ a \notin c.during
        BY <1>4 DEF HooksOf
    <2>. QED BY <1>1, <1>2, <1>3, <2>1
<1>5. CASE DurationsOf(c.during, lhs) /\ c.at = {}
    <2>1. /\ a \in c.during <=> During(a, "wildcards") \in Mentioned[lhs]
          /\ ActionHook("start", a, "wildcards") \notin Mentioned[lhs]
          /\ ActionHook("end", a, "wildcards") \notin Mentioned[lhs]
          /\ <<"start", a>> \notin c.at /\ <<"end", a>> \notin c.at
        BY <1>5 DEF DurationsOf
    <2>. QED BY <1>1, <1>2, <1>3, <2>1
<1>. QED BY <1>4, <1>5 DEF CompiledFrom

-----------------------------------------------------------------------------
(* The specs that the parser has put together have as many operators as it
   has applied, and so are specs of constraints.                            *)
ConstraintInv ==
    /\ applied \in 0..MaxRules
    /\ action_spec \in ActionSpecsOf[applied]
    /\ state_spec \in StateSpecsOf[applied]

LEMMA GrammarMonotone ==
    ASSUME NEW S, NEW s \in S, NEW operands
    PROVE  /\ Booleans({s}, operands) \subseteq Booleans(S, operands)
           /\ TemporalUnaries({s}) \subseteq TemporalUnaries(S)
           /\ TemporalBinaries({s}) \subseteq TemporalBinaries(S)
           /\ Disjunctions({s}) \subseteq Disjunctions(S)
<1>1. Booleans({s}, operands) \subseteq Booleans(S, operands)
    BY DEF Booleans
<1>2. TemporalUnaries({s}) \subseteq TemporalUnaries(S)
    BY DEF TemporalUnaries
<1>3. TemporalBinaries({s}) \subseteq TemporalBinaries(S)
    BY DEF TemporalBinaries
<1>4. Disjunctions({s}) \subseteq Disjunctions(S)
    BY DEF Disjunctions
<1>. QED BY <1>1, <1>2, <1>3, <1>4

LEMMA ConstraintInvInit == ConstraintInit => ConstraintInv
BY StateLevels, ActionLevels, ConstraintAssumption DEF ConstraintInit, ConstraintInv

LEMMA ConstraintInvNext == ConstraintInv /\ [ConstraintNext]_constraintVars => ConstraintInv'
<1> SUFFICES ASSUME ConstraintInv, [ConstraintNext]_constraintVars
             PROVE  ConstraintInv'
    OBVIOUS
<1> DEFINE n == applied
           A == ActionSpecsOf[n]
           S == StateSpecsOf[n]
<1>1. CASE UNCHANGED constraintVars
    BY <1>1 DEF ConstraintInv, constraintVars
<1>2. ASSUME NEW action_specs, NEW state_specs, Apply(action_specs, state_specs),
             action_specs \subseteq MoreActionSpecs(A), state_specs \subseteq MoreStateSpecs(S)
      PROVE  ConstraintInv'
    <2>1. n \in 0..MaxRules /\ n < MaxRules /\ applied' = n + 1
        BY <1>2 DEF Apply, ConstraintInv
    <2>2. n + 1 \in 1..MaxRules /\ n + 1 \in 0..MaxRules /\ (n + 1) - 1 = n
        BY <2>1, ConstraintAssumption
    <2>3. ActionSpecsOf[n + 1] = MoreActionSpecs(A) /\ StateSpecsOf[n + 1] = MoreStateSpecs(S)
        BY <2>2, ActionLevels, StateLevels
    <2>4. action_spec' \in action_specs /\ state_spec' \in state_specs
        BY <1>2 DEF Apply
    <2> HIDE DEF n, A, S
    <2>5. action_spec' \in ActionSpecsOf[n + 1] /\ state_spec' \in StateSpecsOf[n + 1]
        BY <1>2, <2>3, <2>4
    <2>. QED BY <2>1, <2>2, <2>5 DEF ConstraintInv
<1>3. action_spec \in A /\ state_spec \in S
    BY DEF ConstraintInv
<1>4. {action_spec} \subseteq MoreActionSpecs(A) /\ {state_spec} \subseteq MoreStateSpecs(S)
    BY <1>3 DEF MoreActionSpecs, MoreStateSpecs
<1> HIDE DEF n, A, S
<1>5. CASE ParseActionSpec
    BY <1>2, <1>3, <1>4, <1>5, GrammarMonotone DEF ParseActionSpec, MoreActionSpecs
<1>6. CASE ParseBoolean
    BY <1>2, <1>3, <1>4, <1>6, GrammarMonotone DEF ParseBoolean, MoreStateSpecs
<1>7. CASE ParseTemporalUnary
    BY <1>2, <1>3, <1>4, <1>7, GrammarMonotone DEF ParseTemporalUnary, MoreStateSpecs
<1>8. CASE ParseTemporalBinary
    BY <1>2, <1>3, <1>4, <1>8, GrammarMonotone DEF ParseTemporalBinary, MoreStateSpecs
<1>9. CASE ParseDisjunction
    BY <1>2, <1>3, <1>4, <1>9, GrammarMonotone DEF ParseDisjunction, MoreStateSpecs
<1>. QED BY <1>1, <1>5, <1>6, <1>7, <1>8, <1>9 DEF ConstraintNext

LEMMA ConstraintInvCorrect == ConstraintSpec => []ConstraintInv
BY ConstraintInvInit, ConstraintInvNext, PTL DEF ConstraintSpec

LEMMA SpecsOfConstraints ==
    ASSUME ConstraintInv
    PROVE  action_spec \in ActionSpecs /\ state_spec \in StateSpecs
<1>1. MaxRules \in 0..MaxRules
    BY ConstraintAssumption
<1>2. ActionSpecsOf[applied] \subseteq ActionSpecs /\ StateSpecsOf[applied] \subseteq StateSpecs
    BY <1>1, ActionHeights, StateHeights DEF Heights, ActionSpecs, StateSpecs, ConstraintInv
<1>. QED BY <1>2 DEF ConstraintInv

(* For all platforms, constraints and traces: no trace that meets a
   constraint is ruled out by what Semantics<Constraint>::compile makes of
   it.                                                                      *)
THEOREM CompiledIsNecessaryCorrect == ConstraintSpec => []CompiledIsNecessary
<1>1. ConstraintInv => CompiledIsNecessary
    <2> SUFFICES ASSUME ConstraintInv,
                        NEW c \in accepted, NEW trace \in Traces, NEW a \in PlatformActions,
                        NEW starts \in Times, NEW ends \in starts..Horizon
                 PROVE  Demands(action_spec, state_spec, trace, a, starts, ends)
                            => Allows(c, trace, a, starts, ends)
        BY DEF CompiledIsNecessary
    <2>1. CompiledFrom(c, action_spec, state_spec)
        BY SpecsOfConstraints, CompiledParts DEF accepted
    <2>. QED BY <2>1, SpecsOfConstraints, CompiledAllows
<1>. QED BY <1>1, ConstraintInvCorrect, PTL

(* ... and a trace that does not meet it is, unless the constraint has an
   until or a since whose bounds are dropped or that is part of a
   disjunction.                                                             *)
THEOREM CompiledAsWrittenCorrect == ConstraintSpec => []CompiledAsWritten
<1>1. ConstraintInv => CompiledAsWritten
    <2> SUFFICES ASSUME ConstraintInv, ~Blurred[state_spec],
                        NEW c \in accepted, NEW trace \in Traces, NEW a \in PlatformActions,
                        NEW starts \in Times, NEW ends \in starts..Horizon
                 PROVE  Demands(action_spec, state_spec, trace, a, starts, ends)
                            <=> Allows(c, trace, a, starts, ends)
        BY DEF CompiledAsWritten
    <2>1. CompiledFrom(c, action_spec, state_spec)
        BY SpecsOfConstraints, CompiledParts DEF accepted
    <2>. QED BY <2>1, SpecsOfConstraints, CompiledAllows
<1>. QED BY <1>1, ConstraintInvCorrect, PTL
=============================================================================
