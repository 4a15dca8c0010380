-------------------------------- MODULE Values --------------------------------
(***************************************************************************)
(* Values of golog++ as ReadyLog terms: how literals, list and compound     *)
(* expressions, accesses and assignments are written as terms               *)
(* (src/src/semantics/readylog), what the predicates of boilerplate.pl do   *)
(* with them, and what an argument of an action is when the execution       *)
(* thread reads it back (pl_term_to_value).                                 *)
(*                                                                         *)
(* A predicate is the set of its results under once/1; {} says that it      *)
(* throws.  The fields of a gpp_compound are a sequence, in the iteration   *)
(* order of an unordered container of C++ when the term is written; the     *)
(* order is a choice.                                                       *)
(***************************************************************************)
EXTENDS ValueStore

CONSTANTS
    Initially,      \* the initial value of each fluent, as an expression
    ListTypes,      \* the element types for which a list type is registered
    RndNumbers,     \* the numbers that the dummy backend makes up
    ExogFunctionTypes,  \* the types of the program's exogenous functions
    MaxLength       \* bound on the length of lists that are pushed to or made up

VARIABLES
    fluent,         \* the term each fluent has
    outcome         \* "running"; "thrown" by an exception; "undefined" behaviour
vars == <<fluent, outcome>>

(* Terms.  Numbers are the same as in ValueStore, null is the atom fail.   *)
Fail == [k |-> "fail"]
GppList(label, items) == [k |-> "gpp_list", label |-> label, items |-> items]
GppCompound(label, args) == [k |-> "gpp_compound", label |-> label, args |-> args]
Arg(f, t) == [name |-> f, arg |-> t]

(* The sequences with one member of each of the sets ss[1], ss[2], ...      *)
OneOfEach(ss) == FoldLeft(LAMBDA acc, S : {Append(c, t) : c \in acc, t \in S}, {<<>>}, ss)

(* The argument lists that have a term of ts[f] for each field f, in any order. *)
ArgLists(ts) ==
    UNION {OneOfEach([i \in DOMAIN o |-> {Arg(o[i], t) : t \in ts[o[i]]}]) :
                o \in SetToSeqs(DOMAIN ts)}

(* Semantics<Value>::plterm *)
RECURSIVE ValueTerms(_, _)
ValueTerms(type, v) ==
    CASE v.k = "number" -> {v}
      [] v.k = "null" -> {Fail}
      [] v.k = "list" ->
            {GppList(type[2], ts) :
                ts \in OneOfEach([i \in DOMAIN v.items |-> ValueTerms(type[2], v.items[i])])}
      [] v.k = "compound" ->
            {GppCompound(type[2], as) :
                as \in ArgLists([f \in DOMAIN v.fields |->
                                    ValueTerms(Fields[type[2]][f], v.fields[f])])}

(* gpp_list_access and gpp_field_value.                                    *)
ListAccess_Nth1(lhs, i) ==  \* mutant: nth1 for nth0
    IF lhs.k = "gpp_list" /\ i \in DOMAIN lhs.items THEN {lhs.items[i]} ELSE {}

ListAccess(lhs, i) ==
    IF lhs.k = "gpp_list" /\ i < Len(lhs.items) THEN {lhs.items[i + 1]} ELSE {}

FieldPositions(lhs, f) ==
    IF lhs.k = "gpp_compound" THEN {i \in DOMAIN lhs.args : lhs.args[i].name = f} ELSE {}

FieldValue(lhs, f) ==
    LET here == FieldPositions(lhs, f)
    IN  {lhs.args[i].arg : i \in {i \in here : \A j \in here : i <= j}}

MemberTerms(lhs, m) == IF IsIndex(m) THEN ListAccess(lhs, m.index) ELSE FieldValue(lhs, m.field)

TermAt(t, path) == FoldLeft(LAMBDA ts, m : UNION {MemberTerms(u, m) : u \in ts}, {t}, path)

(* pl_mixed_assign: an element of a list is replaced where it is, a field   *)
(* of a compound is deleted and put in front of the others.                 *)
Deleted_Kept(args, i) == args  \* mutant: the new field is put in front only

Deleted(args, i) == RemoveAt(args, i)

RECURSIVE MixedAssign(_, _, _)
MixedAssign(members, value, lhs) ==
    LET m == Head(members)
        News(current) == IF Tail(members) = <<>> THEN {value}
                         ELSE MixedAssign(Tail(members), value, current)
        ElementReplaced(new) == GppList(lhs.label, ReplaceAt(lhs.items, m.index + 1, new))
        FieldReplaced(new, i) ==
            GppCompound(lhs.label, <<Arg(m.field, new)>> \o Deleted(lhs.args, i))
    IN  IF IsIndex(m)
        THEN UNION {{ElementReplaced(new) : new \in News(old)} : old \in ListAccess(lhs, m.index)}
        ELSE LET here == FieldPositions(lhs, m.field)
             IN  UNION {{FieldReplaced(new, i) : new \in News(lhs.args[i].arg)} :
                            i \in {i \in here : \A j \in here : i <= j}}

(* The evaluation of an expression: subf of the term that plterm writes.   *)
RECURSIVE Eval(_)
Eval(e) ==
    CASE e.x = "literal" -> ValueTerms(e.type, e.value)
      [] e.x = "access" -> TermAt(fluent[e.fluent], e.path)
      [] e.x = "length" -> {Number(Len(t.items)) : t \in {t \in Eval(e.of) : t.k = "gpp_list"}}
      [] e.x = "list" ->
            {GppList(e.type[2], ts) :
                ts \in OneOfEach([i \in DOMAIN e.entries |-> Eval(e.entries[i])])}
      [] e.x = "compound" ->
            {GppCompound(e.type[2], as) :
                as \in ArgLists([f \in DOMAIN e.entries |-> Eval(e.entries[f])])}

(* Assignment<Reference<Fluent>>, Assignment<FieldAccess> and               *)
(* Assignment<ListAccess>: set(F, V) and set(F, gpp_mixed_assign(P, V, F)).  *)
Assigned(s) ==
    UNION {IF s.lhs.path = <<>> THEN {v} ELSE MixedAssign(s.lhs.path, v, fluent[s.lhs.fluent]) :
                v \in Eval(s.rhs)}

(* gpp_list_pop_back                                                       *)
PoppedBack(lhs) ==
    IF lhs.k = "gpp_list" /\ lhs.items # <<>> THEN {GppList(lhs.label, Front(lhs.items))} ELSE {}

(* gpp_list_push_front and gpp_list_push_back demand number(Elem).          *)
Pushed(s, atFront) ==
    LET lhs == fluent[s.list]
    IN  {GppList(lhs.label, IF atFront THEN <<t>> \o lhs.items ELSE Append(lhs.items, t)) :
            t \in {t \in Eval(s.what) : lhs.k = "gpp_list" /\ t.k = "number"}}

-----------------------------------------------------------------------------
(* Reading back.                                                           *)

Bool(b) == [k |-> "bool", b |-> b]
Thrown == [k |-> "thrown"]
Undefined == [k |-> "undefined"]
IsValue(v) == v.k \notin {"thrown", "undefined"}

(* Type::operator >= on a value: lists are compared element by element.    *)
RECURSIVE Accepts(_, _)
Accepts(type, v) ==
    CASE IsListType(type) -> v.k = "list" /\ \A i \in DOMAIN v.items : Accepts(type[2], v.items[i])
      [] IsCompoundType(type) -> v.k = "compound"
      [] OTHER -> v.k = type[1]

(* But a list type asks a value that is no list, and that asks the type: the *)
(* two call each other until the stack overflows.                          *)
RECURSIVE Endless(_, _)
Endless(type, v) ==
    /\ IsListType(type)
    /\ \/ v.k # "list"
       \/ \E i \in DOMAIN v.items :
            Endless(type[2], v.items[i]) /\ \A j \in 1..(i - 1) : Accepts(type[2], v.items[j])

Refused(type, v) == IF Endless(type, v) THEN Undefined ELSE Thrown

(* pl_term_to_value.  It is called for the elements in their order, and    *)
(* what the first that fails does is what it does.  The type of a list is  *)
(* looked up as the list type of the list type: where that one is not      *)
(* registered a null pointer is dereferenced.  is_list fails on nil.        *)
RECURSIVE ToValue(_)
ToValue(t) ==
    LET ts == CASE t.k = "gpp_list" -> t.items
                [] t.k = "gpp_compound" -> [i \in DOMAIN t.args |-> t.args[i].arg]
                [] OTHER -> <<>>
        vs == [i \in DOMAIN ts |-> ToValue(ts[i])]
        failed == {i \in DOMAIN vs : ~IsValue(vs[i])}
        FirstFailure == vs[CHOOSE i \in failed : \A j \in failed : i <= j]
        FieldType(i) == Fields[t.label][t.args[i].name]
        refused == {i \in DOMAIN vs : ~Accepts(FieldType(i), vs[i])}
        FirstRefused == CHOOSE i \in refused : \A j \in refused : i <= j
        FieldIndex(f) == CHOOSE i \in DOMAIN t.args : t.args[i].name = f
        names == {t.args[i].name : i \in DOMAIN t.args}
    IN  CASE t.k = "number" -> t
          [] t.k = "fail" -> Bool(FALSE)
          [] ts = <<>> -> Thrown
          [] t.k = "gpp_list" /\ t.label \notin ListTypes -> Thrown
          [] ts # <<>> /\ failed # {} -> FirstFailure
          [] t.k = "gpp_list" /\ failed = {} ->
                IF ListType(t.label) \in ListTypes THEN List(vs) ELSE Undefined
          [] t.k = "gpp_compound" /\ failed = {} ->
                IF refused = {} THEN Compound([f \in names |-> vs[FieldIndex(f)]])
                ELSE Refused(FieldType(FirstRefused), vs[FirstRefused])

(* transition_from_plterm: the argument is read back, and the Transition   *)
(* ensures that it is consistent with the parameter.                       *)
Received_Unchecked(type, t) == ToValue(t)  \* mutant: without ensure_consistent

Received(type, t) ==
    LET v == ToValue(t)
    IN  IF IsValue(v) /\ ~Accepts(type, v) THEN Refused(type, v) ELSE v

-----------------------------------------------------------------------------
Initials(f) == ValueTerms(Initially[f].type, Initially[f].value)

Init ==
    /\ fluent \in {g \in [Fluent -> UNION {Initials(f) : f \in Fluent}] :
                        \A f \in Fluent : g[f] \in Initials(f)}
    /\ outcome = "running"

(* set(F, V): an exception of the evaluation of V ends the program.        *)
Set(f, terms) ==
    /\ outcome = "running"
    /\ \/ \E t \in terms : fluent' = [fluent EXCEPT ![f] = t] /\ UNCHANGED outcome
       \/ terms = {} /\ outcome' = "thrown" /\ UNCHANGED fluent

Assign == \E s \in WellTypedAssignment : Set(s.lhs.fluent, Assigned(s))

PopBack == \E f \in ListFluent : Set(f, PoppedBack(fluent[f]))

(* gpp_list_pop_front unifies its result with a list that contains the     *)
(* result: a cyclic term, and what ReadyLog does with it is not defined.   *)
PopFront ==
    \E f \in ListFluent :
        /\ outcome = "running"
        /\ outcome' = IF fluent[f].k = "gpp_list" THEN "undefined" ELSE "thrown"
        /\ UNCHANGED fluent

PushFront ==
    \E s \in Push :
        /\ fluent[s.list].k = "gpp_list" => Len(fluent[s.list].items) < MaxLength
        /\ Set(s.list, Pushed(s, TRUE))

PushBack ==
    \E s \in Push :
        /\ fluent[s.list].k = "gpp_list" => Len(fluent[s.list].items) < MaxLength
        /\ Set(s.list, Pushed(s, FALSE))

(* A call whose argument is received goes on to the platform, which does   *)
(* not change the store.  Failures is what the others end with.             *)
Failures(received) ==
    {v.k : v \in {v \in received : ~IsValue(v)}} \cup (IF received = {} THEN {"thrown"} ELSE {})

SomeValue(received) == {v \in received : IsValue(v)} # {}

ReceivedOf(e) == {Received(e.type, t) : t \in Eval(e)}

Call ==
    /\ outcome = "running"
    /\ \/ SomeValue(UNION {ReceivedOf(e) : e \in Argument}) /\ UNCHANGED outcome
       \/ outcome' \in UNION {Failures(ReceivedOf(e)) : e \in Argument}
    /\ UNCHANGED fluent

(* What eval_exog_function hands to the platform's backend is what          *)
(* pl_term_to_value makes of the argument, whatever the parameter's type.    *)
Handed(e) == {ToValue(t) : t \in Eval(e)}

(* DummyBackend::rnd_value is a value of the type of the function, down to  *)
(* the fields and elements.                                                *)
RECURSIVE rnd_value(_)
rnd_value(type) ==
    CASE type = NumberType -> {Number(n) : n \in RndNumbers}
      [] IsListType(type) ->
            {List(items) : items \in UNION {[1..n -> rnd_value(type[2])] : n \in 0..MaxLength}}
      [] IsCompoundType(type) ->
            LET fields == Fields[type[2]]
                made == [f \in DOMAIN fields |-> rnd_value(fields[f])]
            IN  {Compound(v) : v \in {v \in [DOMAIN fields -> UNION Range(made)] :
                                        \A f \in DOMAIN fields : v[f] \in made[f]}}

(* An assignment of an exogenous function of one argument to a fluent: what *)
(* the backend returns depends on the type alone.                          *)
MadeUp == [f \in {f \in Fluent : FluentType[f] \in ExogFunctionTypes} |->
                UNION {ValueTerms(FluentType[f], v) : v \in rnd_value(FluentType[f])}]

AssignExogFunction ==
    /\ outcome = "running"
    /\ \/ /\ SomeValue(UNION {Handed(e) : e \in Argument})
          /\ \E f \in DOMAIN MadeUp : Set(f, MadeUp[f])
       \/ outcome' \in UNION {Failures(Handed(e)) : e \in Argument} /\ UNCHANGED fluent

Next == Assign \/ PopBack \/ PopFront \/ PushFront \/ PushBack \/ Call \/ AssignExogFunction
Spec == Init /\ [][Next]_vars

-----------------------------------------------------------------------------
(* Properties.                                                             *)

RECURSIVE Conforms(_, _)
Conforms(type, t) ==
    CASE t.k = "fail" -> TRUE
      [] t.k = "number" -> type = NumberType
      [] t.k = "gpp_list" ->
            IsListType(type) /\ t.label = type[2] /\ \A i \in DOMAIN t.items : Conforms(type[2], t.items[i])
      [] t.k = "gpp_compound" ->
            /\ type = CompoundType(t.label)
            /\ \A i \in DOMAIN t.args :
                    /\ t.args[i].name \in DOMAIN Fields[t.label]
                    /\ Conforms(Fields[t.label][t.args[i].name], t.args[i].arg)
                    /\ \A j \in DOMAIN t.args : t.args[i].name = t.args[j].name => i = j

(* Every fluent has a term of its type, or null: no sequence of statements  *)
(* of a program whose literals have the types they are written with stores  *)
(* anything else, at any depth, pushes of whole lists included.  And no     *)
(* compound comes to have a field twice: an older value would stay hidden   *)
(* behind the newer one in gpp_field_value, and both would be read back by  *)
(* pl_term_to_value.                                                       *)
TypeOK ==
    /\ \A f \in Fluent : Conforms(FluentType[f], fluent[f])
    /\ outcome \in {"running", "thrown", "undefined"}

(* What a term means, whatever the order of its fields.                    *)
RECURSIVE Content(_)
Content(t) ==
    CASE t.k = "number" -> t
      [] t.k = "fail" -> Null
      [] t.k = "gpp_list" -> List([i \in DOMAIN t.items |-> Content(t.items[i])])
      [] t.k = "gpp_compound" ->
            Compound([f \in {t.args[i].name : i \in DOMAIN t.args} |->
                        Content(CHOOSE u \in FieldValue(t, f) : TRUE)])

Contents(ts) == {Content(t) : t \in ts}
store == [f \in Fluent |-> Content(fluent[f])]

(* Whatever was executed before, every statement of the program does to the *)
(* terms what it means on plain data, and it throws where it has no meaning *)
(* (an index out of bounds, a field that a literal left out, an access into *)
(* null, a pop from an empty list, a push of anything but a number) and     *)
(* nowhere else.  Except for pop_front, which never returns a list.          *)
StatementsAgree ==
    outcome = "running" =>
    /\ \A s \in WellTypedAssignment : Contents(Assigned(s)) = AssignedValues(store, s)
    /\ \A f \in ListFluent : Contents(PoppedBack(fluent[f])) = PoppedValues(store[f])
    /\ \A s \in Push, atFront \in BOOLEAN :
            Contents(Pushed(s, atFront)) = PushedValues(store, s, atFront)

(* What can be handed to the platform: no null, no empty list, no empty    *)
(* compound, and no list unless the lists of such lists are registered.     *)
RECURSIVE Sendable(_, _)
Sendable(type, v) ==
    CASE v.k = "number" -> TRUE
      [] v.k = "null" -> FALSE
      [] v.k = "list" ->
            /\ v.items # <<>> /\ {type[2], type} \subseteq ListTypes
            /\ \A i \in DOMAIN v.items : Sendable(type[2], v.items[i])
      [] v.k = "compound" ->
            DOMAIN v.fields # {} /\ \A f \in DOMAIN v.fields : Sendable(Fields[type[2]][f], v.fields[f])

(* An argument of an action that reaches the platform is the value the     *)
(* argument means, whatever the terms look like, and every argument that   *)
(* can be sent reaches it, that of an exogenous function too.  (What an     *)
(* exogenous function is handed for null is a truth value.)                 *)
ArgumentsArrive ==
    outcome = "running" =>
    \A e \in Argument : \A t \in Eval(e) :
        LET v == Received(e.type, t)
        IN  IF Sendable(e.type, Content(t)) THEN {v} = Meaning(store, e) /\ Handed(e) = {v} ELSE ~IsValue(v)
=============================================================================
