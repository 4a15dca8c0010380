-------------------------------- MODULE Types --------------------------------
(***************************************************************************)
(* The types of golog++ (src/src/model/types.cpp, domain.cpp): which type   *)
(* takes what another one has, which values and expressions a type takes,   *)
(* and the operations on domains.                                           *)
(*                                                                         *)
(* Domains are declared and filled while a program is parsed, so that every *)
(* operator is about `domain', a function from the names of the domains so  *)
(* far to their element type and elements.                                  *)
(***************************************************************************)
EXTENDS Integers, Sequences, FiniteSets

CONSTANT Fields     \* the fields of each compound type, with their types

UndefinedType == <<"~undefined~">>
BoolType == <<"bool">>
NumberType == <<"number">>
StringType == <<"string">>
SymbolType == <<"symbol">>
VoidType == <<"void">>
CompoundType(name) == <<"compound", name>>
ListType(elem) == <<"list", elem>>
DomainType(name) == <<"domain", name>>

IsDomain(t) == t[1] = "domain"
IsList(t) == t[1] = "list"
IsCompound(t) == t[1] = "compound"

(* A value has its type and what distinguishes it from others of the type; *)
(* for a list these are its elements, for a compound its fields.            *)
Value(type, v) == [type |-> type, v |-> v]

NewDomain(elem, elements) == [elem |-> elem, elements |-> elements]

(* Domain::remove takes its elements from a copy.                          *)
domain_difference(lhs, rhs) == [lhs EXCEPT !.elements = @ \ rhs.elements]

-----------------------------------------------------------------------------
(* Type::operator >= and <=, one for each class that overrides them.       *)

NarrowedElements_Swapped(domain, t, u) ==  \* mutant: the difference the other way round
    domain_difference(domain[t[2]], domain[u[2]]).elements = {}

NarrowedElements(domain, t, u) == domain_difference(domain[u[2]], domain[t[2]]).elements = {}

RECURSIVE AtLeast(_, _, _)
AtLeast(domain, t, u) ==
    LET ByName == IF IsDomain(u) THEN AtLeast(domain, t, domain[u[2]].elem)
                  ELSE u \in {t, UndefinedType}
        FieldAgrees(f) ==
            f \in DOMAIN Fields[u[2]] /\ AtLeast(domain, Fields[u[2]][f], Fields[t[2]][f])
    IN  CASE t = UndefinedType -> TRUE
          [] IsCompound(t) ->
                \/ u = UndefinedType
                \/ IsCompound(u) /\ \A f \in DOMAIN Fields[t[2]] : FieldAgrees(f)
          [] IsList(t) -> u = UndefinedType \/ (IsList(u) /\ AtLeast(domain, t[2], u[2]))
          [] IsDomain(t) -> ByName \/ (IsDomain(u) /\ NarrowedElements(domain, t, u))
          [] OTHER -> ByName

AtMost(domain, t, u) ==
    \/ t = UndefinedType
    \/ AtLeast(domain, u, t)
    \/ /\ IsDomain(t)
       /\ \/ AtLeast(domain, u, domain[t[2]].elem)
          \/ IsDomain(u) /\ NarrowedElements(domain, u, t)

(* Value::operator <= and Type::operator >= on a value.  (A list type and a *)
(* value that is no list call each other without end, see Values; where a   *)
(* list is expected the parser reads no other value.)                       *)
RECURSIVE Takes(_, _, _)
Takes(domain, t, value) ==
    \/ AtLeast(domain, t, value.type)
    \/ IsDomain(t) /\ value \in domain[t[2]].elements
    \/ IsList(t) /\ IsList(value.type) /\ \A i \in DOMAIN value.v : Takes(domain, t[2], value.v[i])

-----------------------------------------------------------------------------
(* Domain expressions.  {} stands for an exception.                        *)

(* Domain::add_elements                                                    *)
WithElements(domain, d, elements) ==
    IF \A v \in elements : Takes(domain, d.elem, v)
    THEN {[d EXCEPT !.elements = @ \cup elements]} ELSE {}

domain_union(domain, lhs, rhs) == WithElements(domain, lhs, rhs.elements)

domain_intersection(lhs, rhs) ==
    domain_difference(domain_difference(lhs, domain_difference(lhs, rhs)), domain_difference(rhs, lhs))

domain_operation(domain, lhs, op, rhs) ==
    CASE op = "union" -> domain_union(domain, lhs, rhs)
      [] op = "difference" -> {domain_difference(lhs, rhs)}
      [] op = "intersection" -> {domain_intersection(lhs, rhs)}

(* Scope::lookup_domain: a domain of that name and at least that type.      *)
lookup_domain(domain, name, type) ==
    IF name \in DOMAIN domain /\ AtMost(domain, type, domain[name].elem) THEN {domain[name]} ELSE {}

(* unary_domain_expr: a name, or the elements, which must be values of the  *)
(* element type; binary_domain_expr: what is on the right of an operator is *)
(* a domain expression of its own, whatever the operators.                  *)
UnaryDomain(domain, type, e) ==
    IF "name" \in DOMAIN e THEN lookup_domain(domain, e.name, type)
    ELSE WithElements(domain, NewDomain(type, {}), e.elements)

RECURSIVE DomainExpression(_, _, _)
DomainExpression(domain, type, es) ==
    LET first == UnaryDomain(domain, type, Head(es))
    IN  IF Len(es) = 1 THEN first
        ELSE UNION {domain_operation(domain, d[1], es[2], d[2]) :
                        d \in first \X DomainExpression(domain, type, SubSeq(es, 3, Len(es)))}
=============================================================================
