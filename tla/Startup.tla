------------------------------- MODULE Startup -------------------------------
(***************************************************************************)
(* A program from its statements to the moment it runs: main is put         *)
(* together by the parser (src/src/parser, src/src/model/procedural.cpp),   *)
(* semantics are attached to all elements of all globals, then all globals  *)
(* are compiled (Scope::implement_globals, src/src/model/scope.cpp).        *)
(***************************************************************************)
EXTENDS Integers, Sequences

CONSTANTS
    Programs,       \* the other globals of each program, by name
    ModelElements,  \* those globals and the elements they are made of
    MaxNesting,     \* bound on the statements around a test in main
    MaxStarted,     \* bound on those of a main that is started
    Height          \* bound on the elements around another one, for the properties

VARIABLES
    globals,        \* the program's globals but main
    main,           \* the statement that is main's definition
    nesting,        \* the number of statements around its innermost one
    phase,          \* "parsing", "attaching", "compiling", "running" or "crashed"
    attached,       \* the globals whose elements have semantics, and "types"
    compiled        \* the globals that are compiled
elementVars == <<globals, main, nesting, phase, attached, compiled>>

M == INSTANCE Elements

-----------------------------------------------------------------------------
(* Globals.  What an effect changes is a fluent, or a member of one.         *)
Subject[lhs \in ModelElements] == IF lhs.x \in {"field", "access"} THEN Subject[lhs.parts[1]] ELSE lhs
Lhs(effect) == Subject[effect.parts[2].parts[1]]

args_need_eval(ref) == \E i \in DOMAIN ref.parts : ref.parts[i].x \notin {"variable", "value"}

Effects(e) == {e.parts[i] : i \in {i \in DOMAIN e.parts : e.parts[i].x = "effect"}}
Evaluated(e) == {Lhs(f).name : f \in {f \in Effects(e) : args_need_eval(Lhs(f))}}

(* Elements whose parts the chain of parents does not go through: those at  *)
(* the top of a global, which are no parts of others, and some below.       *)
Toplevel == {"function", "procedure", "exog_function", "action", "exog_action", "fluent", "domain",
             "effect", "initial", "undefined"}
Apart == {"solve", "list", "compound", "to_string"}

(* What the constructors make of parts that are regular.                    *)
Regular(e) ==
    /\ e.x \in Toplevel \/ (e.child /\ (e.orphans = {} \/ e.x \in Apart))
    /\ \A i \in DOMAIN e.parts : e.parts[i].x \in Toplevel => e.x \in Toplevel

(* "main" and "types" stand for the procedure and the domains that every    *)
(* program has.  An effect is on a fluent of the program.                   *)
ASSUME StartupAssumption ==
    /\ \A e \in ModelElements : Regular(e) /\ \A i \in DOMAIN e.parts : e.parts[i] \in ModelElements
    /\ \A p \in Programs :
            /\ DOMAIN p \cap {"main", "types"} = {}
            /\ \A g \in DOMAIN p : p[g] \in ModelElements /\ Evaluated(p[g]) \subseteq DOMAIN p
    /\ MaxNesting \in Nat
    /\ Height \in Nat

-----------------------------------------------------------------------------
(* Parsing, from the innermost statement.                                  *)
Innermost ==
    {M!Test(M!Comparison(M!VariableRef("x"), M!Value)),
     M!Test(M!Quantification("x", M!Negation(M!Comparison(M!VariableRef("x"), M!Value))))}

Enclosed(s) ==
    {M!Block(<<s, M!Test(M!Value)>>), M!Choose(<<s, s>>), M!Concurrent(<<s, M!Star(M!Test(M!Value))>>),
     M!Conditional(M!Comparison(M!VariableRef("x"), M!Value), s, M!EmptyBlock),
     M!Pick("x", <<>>, s), M!Pick("x", <<M!Value>>, s), M!Search(s), M!Star(s),
     M!Solve(M!Value, M!Reference("reward", <<>>), s),
     M!While(M!Comparison(M!Value, M!VariableRef("x")), s)}

StartupInit ==
    /\ globals \in Programs
    /\ main \in Innermost
    /\ nesting = 0
    /\ phase = "parsing"
    /\ attached = {}
    /\ compiled = {}

ParseStatement ==
    /\ phase = "parsing"
    /\ nesting < MaxNesting
    /\ nesting' = nesting + 1
    /\ main' \in Enclosed(main)
    /\ UNCHANGED <<globals, phase, attached, compiled>>

ParseDuring ==
    /\ phase = "parsing"
    /\ nesting < MaxNesting
    /\ nesting' = nesting + 1
    /\ main' = M!During(M!Reference("a", <<M!VariableRef("x")>>), main, M!EmptyBlock, M!EmptyBlock)
    /\ phase' = IF M!ScopeAround(main) THEN phase ELSE "crashed"
    /\ UNCHANGED <<globals, attached, compiled>>

(* implement_globals: the globals in the order of a hash map, main's        *)
(* procedure among them, then the domains.                                 *)
Program ==
    [g \in DOMAIN globals \cup {"main"} |-> IF g = "main" THEN M!Procedure({}, main) ELSE globals[g]]

(* What is declared only has no definition to attach semantics to.          *)
Attachable(e) == \A i \in DOMAIN e.parts : e.parts[i] # M!Undefined

Start ==
    /\ phase = "parsing"
    /\ nesting <= MaxStarted
    /\ phase' = "attaching"
    /\ UNCHANGED <<globals, main, nesting, attached, compiled>>

Attach(g) ==
    /\ phase = "attaching"
    /\ g \notin attached
    /\ IF Attachable(Program[g]) THEN attached' = attached \cup {g} /\ UNCHANGED phase
       ELSE phase' = "crashed" /\ UNCHANGED attached
    /\ UNCHANGED <<globals, main, nesting, compiled>>

AttachTypes ==
    /\ phase = "attaching"
    /\ attached = DOMAIN Program
    /\ attached' = attached \cup {"types"}
    /\ phase' = "compiling"
    /\ UNCHANGED <<globals, main, nesting, compiled>>

(* The terms of a global are made of its own elements, of the domains of    *)
(* its parameters, and of the parameters of the fluents that its effects    *)
(* change at arguments that have to be evaluated.                          *)
Needed(g) ==
    {g} \cup (IF Program[g].x \in {"action", "fluent"} THEN {"types"} ELSE {}) \cup Evaluated(Program[g])

(* Mutant: one loop instead of two. *)
MayCompile_WhenAttached(g) ==
    phase \in {"attaching", "compiling"} /\ g \in attached \ {"types"} /\ g \notin compiled

MayCompile(g) == phase = "compiling" /\ g \notin compiled

Compile(g) ==
    /\ MayCompile(g)
    /\ IF Needed(g) \subseteq attached THEN compiled' = compiled \cup {g} /\ UNCHANGED phase
       ELSE phase' = "crashed" /\ UNCHANGED compiled
    /\ UNCHANGED <<globals, main, nesting, attached>>

Run ==
    /\ phase = "compiling"
    /\ compiled = DOMAIN Program
    /\ phase' = "running"
    /\ UNCHANGED <<globals, main, nesting, attached, compiled>>

StartupNext ==
    \/ ParseStatement \/ ParseDuring
    \/ Start
    \/ \E g \in DOMAIN Program : Attach(g) \/ Compile(g)
    \/ AttachTypes
    \/ Run
StartupSpec == StartupInit /\ [][StartupNext]_elementVars

-----------------------------------------------------------------------------
(* Properties.                                                             *)
(* A program only fails to start for a global that is declared and never    *)
(* defined, or for a parallel block without a scope of its own.            *)
StartsIfDefined ==
    phase = "crashed" =>
        \/ \E g \in DOMAIN globals : ~Attachable(globals[g])
        \/ main.x = "during" /\ ~main.parts[2].scope

(* The elements of the program with n others around them.                   *)
FoundAt[n \in 0..Height] ==
    IF n = 0 THEN {M!Found(Program[g], 0, {}) : g \in DOMAIN Program}
    ELSE UNION {M!FoundParts(f, Apart) : f \in FoundAt[n - 1]}

(* The variables of nested binders have names of their own, unless the      *)
(* parents end between them: in a solve's statement, or in what a list, a   *)
(* compound or a to_string is made of.                                     *)
GologVarsDistinct ==
    \A n \in 0..Height : \A f \in FoundAt[n] : M!golog_vars(f.element, f.depth) \cap f.outer = {}
=============================================================================
