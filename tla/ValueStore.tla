------------------------------ MODULE ValueStore ------------------------------
(***************************************************************************)
(* What the statements of a golog++ program that handle values mean: types, *)
(* expressions and statements as they are constructed from model/, and the  *)
(* values they compute on plain data, with lists as sequences and compounds *)
(* as functions.  Module Values is the same on ReadyLog terms.              *)
(*                                                                         *)
(* An operator that can fail returns the set of its results: {} when it    *)
(* fails, otherwise one result.                                            *)
(***************************************************************************)
EXTENDS Integers, Sequences, SequencesExt

CONSTANTS
    Fluent,         \* the fluents
    FluentType,     \* the type of each
    Fields,         \* for each compound type the type of each of its fields
    Literal,        \* the literals of the program, as expressions
    Made,           \* the list and compound expressions of the program
    MaxIndex        \* bound on the indices the program uses

(* Types.                                                                  *)
NumberType == <<"number">>
ListType(t) == <<"list", t>>
CompoundType(name) == <<"compound", name>>
IsListType(t) == t[1] = "list"
IsCompoundType(t) == t[1] = "compound"

ASSUME ValueStoreAssumption ==
    /\ DOMAIN FluentType = Fluent
    /\ \A name \in DOMAIN Fields : DOMAIN Fields[name] # {}
    /\ MaxIndex \in Nat

(* Values.  A compound literal may leave fields out, so the fields of a    *)
(* compound are a function on some of the fields of its type.              *)
Null == [k |-> "null"]
Number(n) == [k |-> "number", n |-> n]
List(items) == [k |-> "list", items |-> items]
Compound(fields) == [k |-> "compound", fields |-> fields]

(* Members: list[i] and compound.field.                                    *)
Index(i) == [index |-> i]
Field(f) == [field |-> f]
IsIndex(m) == "index" \in DOMAIN m

MembersOf(t) ==
    CASE IsListType(t) -> {[member |-> Index(i), type |-> t[2]] : i \in 0..MaxIndex}
      [] IsCompoundType(t) ->
            {[member |-> Field(f), type |-> Fields[t[2]][f]] : f \in DOMAIN Fields[t[2]]}
      [] OTHER -> {}

(* The paths of accesses into a value of type t, with the type they reach. *)
RECURSIVE PathsOf(_)
PathsOf(t) ==
    {[path |-> <<>>, type |-> t]} \cup
        UNION {{[path |-> <<m.member>> \o p.path, type |-> p.type] : p \in PathsOf(m.type)} :
                    m \in MembersOf(t)}

(* Expressions.                                                            *)
LiteralOf(t, v) == [x |-> "literal", type |-> t, value |-> v]
AccessOf(f, p, t) == [x |-> "access", type |-> t, fluent |-> f, path |-> p]
LengthOf(a) == [x |-> "length", type |-> NumberType, of |-> a]
ListOf(t, es) == [x |-> "list", type |-> t, entries |-> es]
CompoundOf(t, es) == [x |-> "compound", type |-> t, entries |-> es]

Access == UNION {{AccessOf(f, p.path, p.type) : p \in PathsOf(FluentType[f])} : f \in Fluent}
Expr == Literal \cup Access \cup Made
Length == {LengthOf(a) : a \in {a \in Access : IsListType(a.type)}}

-----------------------------------------------------------------------------
(* Statements: assignments to a fluent or to a member of one, operations   *)
(* on a fluent that is a list, and calls of actions with one argument.     *)
Assignment == {[lhs |-> a, rhs |-> e] : a \in Access, e \in Expr}
WellTypedAssignment == {s \in Assignment : s.lhs.type = s.rhs.type}
ListFluent == {f \in Fluent : IsListType(FluentType[f])}
(* The parser wants an element of the type of the list itself; a program    *)
(* built with the classes of model/ can push an element of the list's       *)
(* element type too, since the check of ListPush's constructor never fails. *)
Push == UNION {{[list |-> f, what |-> e] :
                    e \in {e \in Expr : e.type \in {FluentType[f], FluentType[f][2]}}} :
                        f \in ListFluent}
Argument == Expr \cup Length

-----------------------------------------------------------------------------
(* Meaning.                                                                *)

MemberValues(v, m) ==
    IF IsIndex(m)
    THEN IF v.k = "list" /\ m.index < Len(v.items) THEN {v.items[m.index + 1]} ELSE {}
    ELSE IF v.k = "compound" /\ m.field \in DOMAIN v.fields THEN {v.fields[m.field]} ELSE {}

ValueAt(v, path) ==
    FoldLeft(LAMBDA vs, m : UNION {MemberValues(w, m) : w \in vs}, {v}, path)

RECURSIVE Updated(_, _, _)
Updated(v, path, new) ==
    IF path = <<>> THEN {new} ELSE
    LET m == Head(path)
        With(w) == IF IsIndex(m) THEN [v EXCEPT !.items[m.index + 1] = w]
                                 ELSE [v EXCEPT !.fields[m.field] = w]
    IN  UNION {{With(w) : w \in Updated(old, Tail(path), new)} : old \in MemberValues(v, m)}

RECURSIVE Meaning(_, _)
Meaning(store, e) ==
    CASE e.x = "literal" -> {e.value}
      [] e.x = "access" -> ValueAt(store[e.fluent], e.path)
      [] e.x = "length" -> {Number(Len(v.items)) :
                              v \in {v \in Meaning(store, e.of) : v.k = "list"}}
      [] OTHER ->
            LET of == [i \in DOMAIN e.entries |-> Meaning(store, e.entries[i])]
                vs == [i \in DOMAIN of |-> CHOOSE v \in of[i] : TRUE]
            IN  IF \E i \in DOMAIN of : of[i] = {} THEN {}
                ELSE IF e.x = "list" THEN {List(vs)} ELSE {Compound(vs)}

AssignedValues(store, s) ==
    UNION {Updated(store[s.lhs.fluent], s.lhs.path, v) : v \in Meaning(store, s.rhs)}

PoppedValues(v) ==
    IF v.k = "list" /\ v.items # <<>> THEN {List(Front(v.items))} ELSE {}

(* Only numbers can be pushed.                                             *)
PushedValues(store, s, atFront) ==
    LET v == store[s.list]
    IN  {List(IF atFront THEN <<w>> \o v.items ELSE Append(v.items, w)) :
            w \in {w \in Meaning(store, s.what) : w.k = "number" /\ v.k = "list"}}
=============================================================================
