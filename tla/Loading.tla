------------------------------- MODULE Loading -------------------------------
(***************************************************************************)
(* The parser fills the global scope (src/src/model/scope.cpp): domains and *)
(* globals are declared and defined one after the other, in any order, and  *)
(* every body is resolved against what is known at that moment.  In the end *)
(* implement_globals attaches semantics to everything and compiles it.      *)
(*                                                                         *)
(* An exception of the parser ends the program: "rejected".  What has no    *)
(* result, or is not parsed, is {}.  A null pointer that is dereferenced is *)
(* "undefined" behaviour.                                                   *)
(***************************************************************************)
EXTENDS Types, SequencesExt

CONSTANTS
    Source,     \* the top level elements a program can be made of, each with
                \* different names for its parameters
    MaxBody     \* bound on the initial values of a fluent and the effects of an action

VARIABLES
    domain,     \* the domains, by name
    global,     \* fluents, functions, actions and procedures, by name
    outcome     \* "parsing", "rejected", "implemented" or "undefined" behaviour
vars == <<domain, global, outcome>>

KnownType(t) == IsDomain(t) => t[2] \in DOMAIN domain
Base(t) == IF IsDomain(t) THEN domain[t[2]].elem ELSE t

-----------------------------------------------------------------------------
(* Scopes.  A chain of scopes is a sequence, the innermost first; each maps *)
(* the names of its variables to their types.  The global scope, at the end *)
(* of every chain, has no variables.                                        *)
Names(params) == {params[i].name : i \in DOMAIN params}

lookup_identifier(scopes, name) ==
    LET having == {i \in DOMAIN scopes : name \in DOMAIN scopes[i]}
    IN  IF having = {} THEN {} ELSE {scopes[CHOOSE i \in having : \A j \in having : i <= j][name]}

(* get_var with DENY: the type of the variable.                            *)
VarUsage(scopes, type, name) ==
    {t \in lookup_identifier(scopes, name) : AtMost(domain, t, type)}

(* get_var with FORCE: a variable of an outer scope is not hidden; only a   *)
(* name that is not found is registered.                                    *)
VarDecl(scopes, p) ==
    IF lookup_identifier(scopes, p.name) = {}
    THEN <<(p.name :> p.type) @@ Head(scopes)>> \o Tail(scopes) ELSE scopes

(* But it is returned only where its type fits; otherwise there is no       *)
(* variable, and the constructors of binders dereference it.                *)
NullVariable(scopes, p) == \E t \in lookup_identifier(scopes, p.name) : ~AtMost(domain, t, p.type)

InnerScope(scopes) == <<<<>>>> \o scopes

(* Scope::get_scope *)
get_scope_Shared(name) == FoldLeft(LAMBDA acc, g : acc @@ g.scope, <<>>, SetToSeq(Range(global)))  \* mutant: one scope

get_scope(name) == IF name \in DOMAIN global THEN global[name].scope ELSE <<>>

-----------------------------------------------------------------------------
(* Bodies: what the parser makes of an expression or a statement, with its  *)
(* type.                                                                   *)
Variable(name, type) == [x |-> "variable", name |-> name, type |-> type]
Constant(value) == [x |-> "value", value |-> value, type |-> value.type]
Reference(name, args) == [x |-> "reference", name |-> name, type |-> global[name].type, parts |-> args]
Node(x, type, parts) == [x |-> x, type |-> type, parts |-> parts]
Binder(var, body) == [x |-> "bind", type |-> body.type, var |-> var, parts |-> <<body>>]

(* The parser does not come back from it.                                  *)
Crash == [x |-> "crash", type |-> UndefinedType, parts |-> <<>>]
IsCrash(e) == e.x = "crash"
Crashed(parts) == \E e \in Range(parts) : IsCrash(e)

(* What becomes of parts that were parsed: a valid node is kept.            *)
Built(parts, valid, node) ==
    IF Crashed(parts) THEN {Crash} ELSE IF valid THEN {node} ELSE {}

(* Scope::get_symbol: a symbol is an element of any of the domains.         *)
KnownValue(v) == v.type = SymbolType => \E d \in DOMAIN domain : v \in domain[d].elements

(* A value is read by the element type where a domain is expected.          *)
ValueParser(type, v) == {w \in {v} : w.type = Base(type) /\ KnownValue(w)}

NoElements(t) == IsDomain(t) /\ domain[t[2]].elements = {}

(* Type::operator >= on an expression.                                     *)
Fits(type, e) == IF e.x = "value" THEN Takes(domain, type, e.value) ELSE AtLeast(domain, type, e.type)

(* ReferenceBase::consistent; nested references included.                  *)
RECURSIVE consistent(_)
consistent(r) ==
    LET params == global[r.name].params
    IN  /\ Len(r.parts) = Len(params)
        /\ \A i \in DOMAIN params :
                /\ \/ Fits(params[i].type, r.parts[i])
                   \/ r.parts[i].type = SymbolType /\ params[i].type = StringType
                /\ r.parts[i].x = "reference" => consistent(r.parts[i])

(* The constructors of Comparison and Assignment.                          *)
Comparable(l, r) ==
    \/ Fits(l.type, r) \/ AtMost(domain, l.type, r.type)
    \/ Fits(r.type, l) \/ AtMost(domain, r.type, l.type)

(* What is tried where no type is expected.                                *)
comparable_expr == {NumberType, StringType, SymbolType}
convertible_expr == {NumberType, BoolType, SymbolType}
value_expression == {NumberType, BoolType, StringType, SymbolType, UndefinedType}

(* Where a statement is expected, actions and procedures are called.  An    *)
(* exogenous function has no place where a truth value is expected.         *)
Kinds(type) ==
    CASE type = VoidType -> {"action", "procedure"}
      [] Base(type) = BoolType -> {"fluent", "function"}
      [] OTHER -> {"fluent", "function", "exog_function"}

(* The parts are parsed one after the other, each in the same scopes.       *)
AllOf(ss) ==
    FoldLeft(LAMBDA acc, S : {c \in acc : Crashed(c)} \cup
                             {Append(c, t) : c \in {c \in acc : ~Crashed(c)}, t \in S},
             {<<>>}, ss)

(* Operations: their type and those of their parts.                        *)
Operation(type, parts) == [type |-> type, parts |-> parts]
NumericOperations ==
    [arithmetic |-> Operation(NumberType, <<NumberType, NumberType>>),
     length |-> Operation(NumberType, <<UndefinedType>>)]
StringOperations == [concatenation |-> Operation(StringType, <<StringType, StringType>>)]
BooleanOperations ==
    [and |-> Operation(BoolType, <<BoolType, BoolType>>), negation |-> Operation(BoolType, <<BoolType>>)]
VoidOperations ==
    [test |-> Operation(VoidType, <<BoolType>>), precondition |-> Operation(VoidType, <<BoolType>>),
     effect |-> Operation(VoidType, <<BoolType, VoidType>>),    \* with a condition
     senses |-> Operation(VoidType, <<VoidType>>)]
Operations == NumericOperations @@ StringOperations @@ BooleanOperations @@ VoidOperations

(* A conditional of expressions: it gets no type.                          *)
conditional_expression(type) ==
    IF type = UndefinedType THEN {}
    ELSE {Operation(UndefinedType, <<BoolType, Base(type), Base(type)>>)}

(* Lists and compounds with a part that is not constant, where a type is    *)
(* expected: their parts are typed by their own type.                      *)
list_expression(type, e) ==
    {Operation(e.type, [i \in DOMAIN e.parts |-> e.type[2]]) :
        t \in {t \in {type} : t = UndefinedType \/ IsList(t)}}

compound_expression(type, e) ==
    {Operation(e.type, [i \in DOMAIN e.parts |-> Fields[e.type[2]][e.fields[i]]]) :
        t \in {t \in {type} : AtMost(domain, e.type, t) /\ Range(e.fields) \subseteq DOMAIN Fields[e.type[2]]}}

(* The constructor of a ListExpression, and that of a CompoundExpression,   *)
(* for which no field may be missing.                                      *)
ListExpression(e, parts) == \A i \in DOMAIN parts : Fits(e.type[2], parts[i])

CompoundExpression(e, parts) ==
    /\ \A i \in DOMAIN parts : Fits(Fields[e.type[2]][e.fields[i]], parts[i])
    /\ Range(e.fields) = DOMAIN Fields[e.type[2]]

(* The rules for expressions and statements: what e is taken for in scopes, *)
(* where an expression of a type, or a statement, is expected.              *)
RECURSIVE Parsed(_, _, _)

Operate(scopes, operations, e) ==
    UNION {UNION {Built(parts, TRUE, Node(e.x, o.type, parts)) :
                parts \in AllOf([i \in DOMAIN e.parts |-> Parsed(scopes, o.parts[i], e.parts[i])])} :
            o \in operations}

(* A conditional is tried as a number first, and only as that.              *)
Untyped(scopes, types, e) ==
    UNION {Parsed(scopes, t, e) : t \in IF e.x = "conditional" THEN {NumberType} ELSE types}

(* The type of the right hand side is that of the left; there must be one.   *)
TypedSides(scopes, lhs, rhs) ==
    {<<l>> : l \in {l \in lhs : IsCrash(l)}} \cup
    UNION {{<<l, r>> : r \in Parsed(scopes, l.type, rhs)} : l \in {l \in lhs : l.type # UndefinedType}}

(* A name is a symbol where one of a domain has that name, or a variable.    *)
SymbolOrVariable(scopes, type, e) ==
    LET symbol == Value(SymbolType, e.name)
    IN  IF Base(type) = SymbolType /\ KnownValue(symbol) THEN {Constant(symbol)}
        ELSE {Variable(e.name, t) : t \in VarUsage(scopes, Base(type), e.name)}

ReferenceTo(scopes, type, e) ==
    IF e.name \notin DOMAIN global \/ Len(e.parts) # Len(global[e.name].params) THEN {}
    ELSE LET params == global[e.name].params
             args == AllOf([i \in DOMAIN params |-> Parsed(scopes, params[i].type, e.parts[i])])
             Callable ==
                /\ global[e.name].kind \in Kinds(type)
                /\ AtMost(domain, global[e.name].type, Base(type))
         IN  UNION {LET r == Reference(e.name, as)
                    IN  Built(as, Callable /\ consistent(r), r) : as \in args}

(* The right hand side of a comparison, and that of an assignment, is typed  *)
(* by the left hand side.                                                  *)
ComparisonOf(scopes, e) ==
    UNION {Built(lr, Comparable(lr[1], lr[2]), Node("equal", BoolType, lr)) :
        lr \in TypedSides(scopes, Untyped(scopes, comparable_expr, e.parts[1]), e.parts[2])}

AssignmentTo(scopes, e) ==
    LET Assigns(l, r) ==
            l.x = "reference" /\ global[l.name].kind = "fluent" /\ Fits(l.type, r)
    IN  UNION {Built(lr, Assigns(lr[1], lr[2]), Node("assign", VoidType, lr)) :
            lr \in TypedSides(scopes, Parsed(scopes, UndefinedType, e.parts[1]), e.parts[2])}

Conversion(scopes, type, e) ==
    UNION {Built(<<part>>, TRUE, Node("to_string", StringType, <<part>>)) :
        part \in IF AtMost(domain, StringType, type)
                 THEN Untyped(scopes, convertible_expr, e.parts[1]) ELSE {}}

(* A quantification, or a pick.  Its variable is dereferenced when the body  *)
(* has been parsed.                                                        *)
Bound(scopes, type, e) ==
    UNION {IF NullVariable(scopes, e.var) THEN {Crash} ELSE Built(<<body>>, TRUE, Binder(e.var, body)) :
        body \in IF KnownType(e.var.type)
                 THEN Parsed(VarDecl(InnerScope(scopes), e.var), type, e.parts[1]) ELSE {}}

Block(scopes, e) ==
    UNION {Built(parts, TRUE, Node("block", VoidType, parts)) :
        parts \in AllOf([i \in DOMAIN e.parts |-> Parsed(scopes, VoidType, e.parts[i])])}

(* To the arguments of the platform's action.                              *)
Mapping(scopes, e) ==
    UNION {Built(parts, TRUE, Node("mapping", VoidType, parts)) :
        parts \in AllOf([i \in DOMAIN e.parts |-> Untyped(scopes, value_expression, e.parts[i])])}

Parsed(scopes, type, e) ==
    CASE e.x = "value" -> {Constant(v) : v \in ValueParser(type, e.value)}
      [] e.x = "name" -> SymbolOrVariable(scopes, type, e)
      [] e.x = "reference" -> ReferenceTo(scopes, type, e)
      [] e.x = "equal" -> ComparisonOf(scopes, e)
      [] e.x = "assign" -> AssignmentTo(scopes, e)
      [] e.x = "to_string" -> Conversion(scopes, type, e)
      [] e.x = "bind" -> Bound(scopes, type, e)
      [] e.x = "block" -> Block(scopes, e)
      [] e.x = "mapping" -> Mapping(scopes, e)
      [] e.x = "conditional" -> Operate(scopes, conditional_expression(type), e)
      [] e.x = "list" ->
            {node \in Operate(scopes, list_expression(type, e), e) :
                IsCrash(node) \/ ListExpression(e, node.parts)}
      [] e.x = "compound" ->
            {node \in Operate(scopes, compound_expression(type, e), e) :
                IsCrash(node) \/ CompoundExpression(e, node.parts)}
      [] OTHER -> Operate(scopes, {o \in {Operations[e.x]} : AtMost(domain, o.type, Base(type))}, e)

(* Fluent::define: one of the initial values.  Its arguments are values, or *)
(* the parameter in their place.                                           *)
InitialValue(g, scope, ival) ==
    LET Arg(i) == IF ival.args[i].x = "name"
                  THEN {Variable(p.name, p.type) : p \in {p \in {g.params[i]} : p.name = ival.args[i].name}}
                  ELSE {Constant(v) : v \in {v \in {ival.args[i].value} : KnownValue(v)}}
        Typed == \E v \in ValueParser(g.type, ival.value) : Takes(domain, g.type, v)
    IN  IF Len(ival.args) # Len(g.params) \/ ~Typed THEN {}
        ELSE {Node("initial", g.type, Append(args, Constant(ival.value))) :
                args \in {args \in AllOf([i \in DOMAIN g.params |-> Arg(i)]) :
                            \A i \in DOMAIN args : Fits(g.params[i].type, args[i])}}

-----------------------------------------------------------------------------
(* Top level elements.                                                     *)

Init ==
    /\ domain = <<>>
    /\ global = <<>>
    /\ outcome = "parsing"

Reject ==
    /\ outcome' = "rejected"
    /\ UNCHANGED <<domain, global>>

Break ==
    /\ outcome' = "undefined"
    /\ UNCHANGED <<domain, global>>

(* Scope::register_domain: there must be no type of that name; globals have *)
(* names of their own.                                                     *)
RegisterDomain(name, d) ==
    IF name \in DOMAIN domain THEN Reject
    ELSE domain' = (name :> d) @@ domain /\ UNCHANGED <<global, outcome>>

DeclareDomain ==
    \E e \in Source :
        /\ outcome = "parsing" /\ e.kind = "domain" /\ e.is = <<>>
        /\ IF lookup_domain(domain, e.name, e.type) = {} THEN RegisterDomain(e.name, NewDomain(e.type, {}))
           ELSE IF AtMost(domain, DomainType(e.name), e.type) THEN UNCHANGED vars ELSE Reject

(* Domain::define is for a domain without elements.                        *)
CanDefine_Always(d) == TRUE  \* mutant: a domain can be defined again

CanDefine(d) == d.elements = {}

DefineDomain ==
    \E e \in Source :
        /\ outcome = "parsing" /\ e.kind = "domain" /\ e.is # <<>>
        /\ LET input == DomainExpression(domain, e.type, e.is)
               old == lookup_domain(domain, e.name, e.type)
           IN  IF input = {} THEN Reject
               ELSE IF old = {} THEN \E d \in input : RegisterDomain(e.name, d)
               ELSE \E d \in input, o \in old :
                        IF CanDefine(o) /\ WithElements(domain, o, d.elements) # {}
                        THEN /\ domain' = [domain EXCEPT ![e.name].elements = @ \cup d.elements]
                             /\ UNCHANGED <<global, outcome>>
                        ELSE Reject

(* The parameters are declared in the scope of the global, which is the one *)
(* it has already; its first parameters stay, so nobody dereferences one    *)
(* for which get_var finds a variable whose type does not fit.              *)
ScopeFor(e) == FoldLeft(LAMBDA scopes, p : VarDecl(scopes, p), <<get_scope(e.name)>>, e.params)

(* Scope::declare_global: what is already there must be of that kind, and   *)
(* its type must not be wider; its parameters are not looked at.            *)
Conflicts(e) ==
    /\ e.name \in DOMAIN global
    /\ global[e.name].kind # e.kind \/ ~AtMost(domain, global[e.name].type, e.type)

TypesKnown(e) == KnownType(e.type) /\ \A p \in Range(e.params) : KnownType(p.type)

ParamsOf_New(e) == e.params  \* mutant: a later declaration replaces the parameters

ParamsOf(e) == IF e.name \in DOMAIN global THEN global[e.name].params ELSE e.params

Declared(e) ==
    [kind |-> e.kind, type |-> IF e.name \in DOMAIN global THEN global[e.name].type ELSE e.type,
     params |-> ParamsOf(e), scope |-> ScopeFor(e)[1],
     body |-> IF e.name \in DOMAIN global THEN global[e.name].body ELSE <<>>]

Declare(e) ==
    IF Conflicts(e) \/ ~TypesKnown(e) THEN Reject
    ELSE global' = (e.name :> Declared(e)) @@ global /\ UNCHANGED <<domain, outcome>>

DeclareGlobal ==
    \E e \in Source :
        /\ outcome = "parsing" /\ e.kind \notin {"domain", "exog_function"} /\ e.is = <<>>
        /\ Declare(e)

(* Of an exogenous function there is no more than the declaration.          *)
DefineExogFunction ==
    \E e \in Source :
        /\ outcome = "parsing" /\ e.kind = "exog_function"
        /\ Declare(e)

(* A function or procedure gets a new definition; initial values and effects *)
(* are added to those the fluent or action has; a precondition, what is      *)
(* sensed and the mapping take the place of what was there.                 *)
Effects == {"assign", "effect"}
Kept(e) ==
    CASE e.kind = "fluent" -> Declared(e).body
      [] e.kind \in {"action", "exog_action"} ->
            LET given == {e.is[i].x : i \in DOMAIN e.is} \ Effects
            IN  SelectSeq(Declared(e).body, LAMBDA node : node.x \notin given)
      [] OTHER -> <<>>

Bodies(e) ==
    LET g == Declared(e)
        New == [i \in DOMAIN e.is |-> IF e.kind = "fluent" THEN InitialValue(g, g.scope, e.is[i])
                                      ELSE Parsed(ScopeFor(e), e.type, e.is[i])]
    IN  {Kept(e) \o new : new \in AllOf(New)}

(* ExogAction::set_mapping looks for a variable for each of the parameters, *)
(* in the order of an unordered map: anything else but a variable throws a  *)
(* bad_cast unless all parameters were found before it.                     *)
Covers(e, mapping) == Names(ParamsOf(e)) \subseteq {v.name : v \in {v \in Range(mapping.parts) : v.x = "variable"}}

Mappings(e, body) == {node \in Range(body) : e.kind = "exog_action" /\ node.x = "mapping"}

MayThrow(e, body) ==
    \E mapping \in Mappings(e, body) :
        ParamsOf(e) # <<>> /\ \E part \in Range(mapping.parts) : part.x # "variable"

(* The bodies are parsed before the global is looked up.                    *)
Define(e) ==
    /\ outcome = "parsing" /\ e.is # <<>>
    /\ Len(Kept(e)) < MaxBody
    /\ IF ~TypesKnown(e) \/ Bodies(e) = {} THEN Reject
       ELSE \E body \in Bodies(e) :
                IF Crashed(body) THEN Break
                ELSE IF Conflicts(e) \/ \E mapping \in Mappings(e, body) : ~Covers(e, mapping) THEN Reject
                ELSE \/ /\ global' = (e.name :> [Declared(e) EXCEPT !.body = body]) @@ global
                        /\ UNCHANGED <<domain, outcome>>
                     \/ MayThrow(e, body) /\ Reject

DefineFluent == \E e \in Source : e.kind = "fluent" /\ Define(e)
DefineAction == \E e \in Source : e.kind = "action" /\ Define(e)
DefineExogAction == \E e \in Source : e.kind = "exog_action" /\ Define(e)
DefineFunction == \E e \in Source : e.kind = "function" /\ Define(e)
DefineProcedure == \E e \in Source : e.kind = "procedure" /\ Define(e)

(* Scope::implement_globals: the definition of a function or procedure is   *)
(* dereferenced, be there one or not.                                      *)
ImplementGlobals ==
    /\ outcome = "parsing" /\ global # <<>>
    /\ outcome' = IF \E g \in Range(global) : g.kind \in {"function", "procedure"} /\ g.body = <<>>
                  THEN "undefined" ELSE "implemented"
    /\ UNCHANGED <<domain, global>>

Next ==
    \/ DeclareDomain \/ DefineDomain
    \/ DeclareGlobal \/ DefineExogFunction
    \/ DefineFluent \/ DefineAction \/ DefineExogAction \/ DefineFunction \/ DefineProcedure
    \/ ImplementGlobals
Spec == Init /\ [][Next]_vars

-----------------------------------------------------------------------------
(* Properties.                                                             *)

RECURSIVE NodesOf(_)
NodesOf(node) ==
    IF node.x \in {"value", "variable"} THEN {node}
    ELSE {node} \cup UNION {NodesOf(part) : part \in Range(node.parts)}

Accepted == UNION {NodesOf(node) : node \in UNION {Range(g.body) : g \in Range(global)}}
Calls == {node \in Accepted : node.x = "reference"}

(* Domains have elements of their element type, and every reference is to a *)
(* global of a kind it may be to, with as many arguments as parameters.     *)
TypeOK ==
    /\ \A d \in Range(domain) : \A v \in d.elements : v.type = d.elem
    /\ \A r \in Calls : r.name \in DOMAIN global /\ Len(r.parts) = Len(global[r.name].params)
    /\ outcome \in {"parsing", "rejected", "implemented", "undefined"}

(* A reference that was accepted stays consistent with the global it is to, *)
(* whatever is declared and defined later on, unless one of its arguments   *)
(* has a domain that was declared and has no elements yet: such a domain is *)
(* taken for narrower than any other.                                      *)
CallStaysConsistent ==
    \A r \in Calls : consistent(r) => consistent(r)' \/ \E a \in NodesOf(r) : NoElements(a.type)
CallsStayConsistent == [][CallStaysConsistent]_vars

RECURSIVE Free(_)
Free(node) ==
    CASE node.x = "variable" -> {node.name}
      [] node.x = "value" -> {}
      [] node.x = "bind" -> Free(node.parts[1]) \ {node.var.name}
      [] OTHER -> UNION {Free(part) : part \in Range(node.parts)}

(* The variables of a body are the parameters of its global and those that  *)
(* a binder around them declares, if every declaration of the global gives  *)
(* its parameters the same names.  (Otherwise the body may name parameters  *)
(* that its clause does not have.)  An exogenous action hands over each of  *)
(* its parameters.                                                         *)
VariablesBound ==
    \A name \in DOMAIN global :
        LET g == global[name]
        IN  (\A e \in Source : e.name = name => Names(e.params) = Names(g.params))
            => \A node \in Range(g.body) :
                    /\ Free(node) \subseteq Names(g.params)
                    /\ g.kind = "exog_action" /\ node.x = "mapping" => Free(node) = Names(g.params)

(* The values that an expression of a type can have.                        *)
RECURSIVE Inhabits(_, _)
Inhabits(v, t) ==
    CASE IsDomain(t) -> v \in domain[t[2]].elements
      [] IsCompound(t) ->
            /\ IsCompound(v.type)
            /\ \A f \in DOMAIN Fields[t[2]] : f \in DOMAIN v.v /\ Inhabits(v.v[f], Fields[t[2]][f])
      [] OTHER -> v.type = t

Types == {NumberType, SymbolType} \cup {DomainType(d) : d \in DOMAIN domain}
Compounds == {CompoundType(name) : name \in DOMAIN Fields}
SimpleValues == UNION {d.elements : d \in Range(domain)}
CompoundValues ==
    UNION {{Value(t, v) : v \in [DOMAIN Fields[t[2]] -> SimpleValues]} : t \in Compounds}

RECURSIVE ValuesOf(_)
ValuesOf(e) ==
    CASE e.x = "value" -> {e.value}
      [] e.x = "conditional" -> ValuesOf(e.parts[2]) \cup ValuesOf(e.parts[3])
      [] OTHER -> {v \in SimpleValues \cup CompoundValues : Inhabits(v, e.type)}

(* Wherever the parser lets an expression of one type stand for another     *)
(* one, all of its values are values of that type.  (Not so for two types   *)
(* of compounds where a field has a domain: there the comparison of the     *)
(* fields is the wrong way round.)  So the arguments of a consistent call   *)
(* are values of the parameters' types; but a conditional has no type, and  *)
(* its values need not be elements of a domain.                             *)
SubtypesSound ==
    /\ \A t, u \in Types \cup Compounds :
            AtLeast(domain, t, u) =>
                \A v \in SimpleValues \cup CompoundValues : Inhabits(v, u) => Inhabits(v, t)
    /\ \A r \in Calls : consistent(r) =>
            \A i \in DOMAIN r.parts : \A v \in ValuesOf(r.parts[i]) :
                LET type == global[r.name].params[i].type
                IN  Inhabits(v, type) \/ (r.parts[i].x = "conditional" /\ v.type = Base(type))
=============================================================================
