# A verification development for golog++

golog++ interprets Golog programs on a robot: a program starts, cancels and
collects durative actions that run on a platform, and reacts to what the
platform reports. This directory holds TLA+ models of the parts that run
concurrently and of what becomes of a program's text before it runs, the TLC
configurations that check them on small instances, and
theorems that TLAPS proves for every value of their constants. Paths are
relative to the repository root.

## The system

| Part | State | Operations |
|---|---|---|
| Run loop, `src/src/execution/controller.cpp` | plan, program, `terminated` | ask for a plan, drain events, execute the first element, block, re-transform |
| Exogenous event queue, same file | `exog_queue_`, `exog_mutex_`, `queue_empty_mutex_`, `wait_mutex_` | push, push_front, pop, block, timer wakeup, terminate |
| Platform backend, `platform_backend.cpp` | `activities_`, component backends, scheduled wakeups, one recursive mutex | start, cancel, erase an activity; schedule a timer; notice component changes |
| Activities and transitions, `activity.cpp`, `transition.cpp` | an activity's state | `update` from the platform's side, `trans` from the program's |
| Dummy backend, `dummy_backend.cpp` | a thread per activity, a generator of exogenous actions | execute, preempt, terminate |
| Components, `src/src/model/platform/` | current and expected state, a recursive mutex; a dummy backend's request | switch by the program, report by the backend, missed transition |
| Readylog semantics, `src/src/semantics/readylog/` | the program term, the history | trans, final, append, progress; the interpreter itself is a submodule and external |
| Durative semantics, `boilerplate.pl` | the fluent `state(A)` | poss and effects of start, finish, fail, cancel, end |
| Plans, `plan.cpp`, `clock.cpp` | timed instructions | slack, sanitation, next timeout |
| Plan transformation, `transformation.cpp`, `semantics/platform/taptenc/` | the constraints of each component, symbols of arguments | compile constraints, components and plans, read back what the external taptenc library schedules; or the identity |
| Language model, `src/src/model/` | globals, domains and scopes of variables; trees of elements with parents | look-up, declaration, definition, type checks, attaching semantics, compiling |
| Platform model, `src/src/model/platform/` | states, clocks and transitions of components, constraints | construction while it is parsed |
| Translation, `src/src/semantics/readylog/` | the clauses of the globals | the ReadyLog term of each element |
| Parser, `src/src/parser/` | the global scope, through the model | rules that look up, try alternatives, define and reject |

The execution thread is the only one that interprets the program. It calls the
backend (activities, components) and pops the queue; every other thread
(activity threads, the generator, timers, component backends) reaches it through
the queue, and reaches shared objects under the backend mutex or a component's
mutex. `terminate()` is called from a further thread.

Hard behaviours: an element is executed in two critical sections, one that
checks and one that acts, with activity threads in between; the interpreter
reasons with a history that lags behind the platform by the events in the queue;
notifications may come before the wait they end; locks are taken in different
orders by different threads; two locks of the queue are never held where the
code reads as if they were; requests to component backends time out while they
are being served. `PROJECT.json` lists them as hazards, each at its line.

What makes the parts correct:

* an activity is started once, ends once, and its outcome reaches the history
  once; effects are applied for successes only;
* every event that was pushed is popped once, in the order of its producer, and
  a push wakes the execution thread;
* `terminate` returns, not before the execution thread has left the queue;
* a component is switched along declared transitions only, a cancelled request
  is not served, what a backend reports is what the model holds;
* the elements of a plan are executed in their order, none before its window
  begins, and none is forgotten;
* a program that was accepted stays well-typed whatever follows in its text, and
  starts; the terms it becomes do what its statements mean;
* constraints are compiled to nothing stronger than they say, and a plan that is
  transformed keeps its actions, their arguments and their windows.

## Modules

`ActivityProtocol` is the abstract specification of one durative action
instance: Begin, Complete, Observe, Collect.

`ActivityLifecycle` models run loop, transitions, backend, activity threads and
the fluent `state(A)`. `activities` is `PlatformBackend::activities_` (IDLE where
there is no entry), `thread` and `cancel` are the `ActivityThread`, `queue` the
events, `hist` the fluent, `pc`, `plan` and `error` the execution thread. Code
under the backend mutex is one step: `Admit`, `Refuse` are the check of `trans`
and `Act` is the call it makes. Which plan the interpreter returns is a choice
among those its preconditions allow; wall-clock time and preconditions of the
program are choices. `Protocol` maps it to `ActivityProtocol`: the report of an
activity is the event of it in the queue.

`ExogQueue` models the queue alone, one step per access to shared memory or a
lock. The two push functions create unnamed `lock_guard`s, which are destroyed in
the same statement, so a push passes `exog_mutex_` and runs without it; the deque
is therefore modelled as libstdc++ lays it out, cells between two cursors.
`popped` is a ghost: what was popped. `EventChannel` is what the queue promises, a FIFO
channel with Send and Receive. `Channel` maps the queue to it: an event is sent when the
cursor of its push has moved, and those under way lie in the cells from the number of popped
ones on. Clock events, which the execution thread puts in front and drains itself, are not
seen.

`Component` models components, their backends, the plan elements that switch
them and the part of the run loop that waits, misses transitions and notices
changes. A lock is a variable where it is held over several steps. A wait is a look at its
predicate, the wait, and a notification or a spurious wakeup; a notification before the
wait has begun is lost. The wait with a timeout ends anyway and is one step. The instance
`MCComponent` has the states and transitions of `depth_cam` from
`src/src/tests/blocksworld_platform.gpp`. A real backend (any class registered
with the platform backend) is external: it may report any state at any time.

`Plan` has the time windows of a plan as operators: `Sanitized` is
`sanitize_time_window`, `append` and `make_start_slack` are folds over it. Time is
counted in grains, the tenth of a second that `next_timeout` adds.

`ExecutionLoop` composes `Plan` with the clock, the queue and the wakeups. The loop
does not look at the clock but at `context_time`, the fluent that clock events set.
A wakeup (`scheduled`, one entry per time point as in `scheduled_wakeups_`) reads the
clock (`dispatching`, `clocks`) and pushes what it has read later, as the loop itself
does after a timeout (`reading`), so clock events may be drained in any order.
Taptenc's result is a choice of windows; its exception when there is no schedule
ends `run` (`failed`), as the code has it. Whether the program declares a platform
model is a choice at the start.

The rest is about programs as data. Each of the following modules that has a state
builds programs, or parts of them, step by step; `MCLanguage` composes these eight.
They share nothing: a behaviour is one of a single part, chosen at the start
(`part`), as the code in question runs one after the other and on different data.
`MCLanguage` extends those whose properties it checks as they stand (`Values`,
`Precedence`, `PlatformModel`, `Constraints`, `Transformation`, `Startup`) and instantiates the
others. `Precedence`, `PlatformModel`, `Constraints`, `Transformation` and `Startup` do without
recursive operators and are proved about; the others use them, and only TLC reads those.

`Types` has the comparison of types (`Type::operator >=` of each kind of type) and the
algebra of domains (`domain.cpp`), as operators on a map of domains.

`Loading` is the parser at work on the global scope. `domain` and `global` are the maps
of `scope.cpp`; each action declares or defines a top level element, in any
order. `Parsed` yields what the rules make of a body in a chain of scopes: look-ups,
the alternatives that are tried in turn, the checks of the constructors and
`consistent`. An exception of the parser is the outcome `rejected`. A binder whose
variable has the name of one outside it gets that one, or, where its type does not fit
(`NullVariable`), a null pointer that its constructor dereferences: the parse ends in
`Crash`, the program in the outcome `undefined`.

`Precedence` builds chains of operators and has `parse_op_precedence`. `Parsed` is a
recursive function on the part of a chain that a call gets: its first and last
operator and the operand behind (`Chains`). A tree is a root and, for each operator in
it, its two operands (`parts`), which is what the pointers of the code amount to.

`Elements` has the constructors of the language model as far as parents, scopes and
variables go, and the level that a binder's variable gets in its name (`golog_vars`).
`Startup` puts statements around each other to make `main`, and has `implement_globals`:
attach to all globals in any order, then to the domains, then compile. `phase` becomes
`crashed` where the code dereferences nothing. `FoundAt` walks down a program by one element
at a time, up to a bound (`Height`) that no program of the instance reaches.

`Statements` has formulas, effects and statements as records; `Translation` puts
statements together by the rules of the grammar, makes the term of each
(`StatementTerm` is `plterm`) and the clauses of the globals (`compile`), and runs the
term (`Trans`, `Holds`, `Eval`: external, what the functors of ReadyLog stand for).

`ValueStore` says what assignments, pushes, pops and accesses mean on plain data
(sequences and functions); `Values` is the same on ReadyLog terms. `fluent` is the
term each fluent has. Terms are written by `Semantics<...>::plterm` (`ValueTerms`,
`Eval`), changed by the predicates of `boilerplate.pl` (`MixedAssign`, `PoppedBack`,
`Pushed`, `TermAt`), and read back by `pl_term_to_value` (`ToValue`) when a call is
handed to the platform or an exogenous function is evaluated (`rnd_value` is what
`DummyBackend` answers). An operator yields the set of its results, empty where the
predicate throws; an exception ends the program (`outcome`), and so does a comparison of
a type with a value that calls itself without end (`Endless`). The fields of a
compound are an ordered list in a term, in an order that C++'s unordered containers
decide, so it is a choice. The instance is `examples/lists.gpp`.

`PlatformModel` builds components from their sections, in any order (`Parse`), entry by
entry (`AddAll`). `open` is the component that is
parsed, with its one map of names (`identifiers`) and its transitions.

`Constraints` puts constraints together by their grammar, which is a family of sets
(`StateSpecsOf`, by the number of operators), and compiles them to taptenc's UnaryInfo,
BinaryInfo and ChainInfo. `compile`, `activations` and `chain_actions` are recursive functions
on those sets, and an exception is an empty result. `SatisfiedAt` (external) says at which times
of a trace of states what they are compiled to holds, `Means` at which times what is written does.

`Transformation` is `TaptencTransformation`: `platform_model`, `arg_to_sym` and
`sym_to_arg` are its members. A component becomes an automaton, a plan becomes actions
with symbols for their arguments, and any trace of both (`transform_plan`, external) is
read back as a plan: the actions in their order, each as early as its window has it or
later within it (`Delays`), and switches of the automata anywhere between them. Runs of
switches are functions from positions, as taptenc may return any number of them. Plans are
transformed one after the other, the rest of the last one again, with the states of the
components changing in between.

Operators named `X_Y` next to an operator `X` are mutants: what `X` would be
with a plausible bug. No specification uses them; each shows that a property can
fail.

## Runs

Passing:

| Run | Bounds | Shows |
|---|---|---|
| `ActivityLifecycle` | 2 actions, plans of up to 2 elements, both uncancelled outcomes | the two critical sections never disagree (`NoFault`), the history follows the platform (`NoStaleOutcome`, `HistoryAgrees`), `EffectsOnlyOnSuccess`, refinement of the protocol |
| `ActivityLifecycleLive` | 2 actions, plans of 1 element | `OutcomeObserved`, `CancelStops` |
| `ExogQueueSingle` | 1 producer, 3 pushes | `ImplementsChannel`, `TerminateWaits`, `PushWakes` |
| `ExogQueueTerminate` | 1 producer with 2 pushes, 1 timer, waits with and without a timeout | `TerminateReturnsIfNotified` |
| `ComponentDummy` | `depth_cam` with a dummy backend | `SwitchIsDeclared`, `ReportIsRequested` |
| `ExecutionLoop` | plans of one action with a test, or a test, time 0 to 2, one re-transformation by a component, windows moved by up to 1 | `WindowsInOrder`, `WakeupPending`, `ContextBehind`, `NeverEarly`, `DueExecuted` |
| `ComponentReal` | one component with 3 states, real backend | `NoticeKeepsDrained`, `TerminateReturnsIfNotified` |
| `Language` | per part, see the next table | what the next table says |

The parts of `Language`:

| Part | Bounds | Shows |
|---|---|---|
| `Loading` | 18 top level elements, 6 of them of domains, 2 initial values or effects (`MaxBody`) | `LoadingTypeOK`, `VariablesBound`, `SubtypesSound`, `CallsStayConsistent` |
| `Precedence` | 4 families of operators, chains of 5 (`MaxOperators`) | `ChainKept`, `RespectedWithoutValley` |
| `Translation` | 7 simple statements, 2 conditions, 2 compound statements around each other (`MaxRules`), 2 turns of a loop (`MaxTurns`), numbers 0 and 1 | `RunsAsWritten`, from every situation |
| `Constraints` | 2 components with the same 2 states, 2 pairs of bounds, 2 operators (`MaxRules`), traces of 4 times (`Horizon`) | `CompiledIsNecessary`, `CompiledAsWritten` |
| `Startup` | 3 sets of globals, 3 statements around a test (`MaxNesting`), at most one of them in a program that starts (`MaxStarted`), 12 elements below each other (`Height`) | `StartsIfDefined`, `GologVarsDistinct` |
| `Transformation` | 3 components, 4 choices of those that are declared and constrained, 4 plans, 2 switches (`MaxSwitches`), 2 transformations (`MaxTransforms`), 2 grains in a second (`Second`), actions on time or 4 grains late (`Delays`) | `TransformsFaithfully` |
| `PlatformModel` | 1 name, 4 lists of states, 3 of clocks, 2 of transitions | `ComponentsAsWritten` |
| `Values` | the three fluents of `lists.gpp`, lists of up to 2 (`MaxLength`), indices 0 and 1 (`MaxIndex`), one random number | `TypeOK`, `StatementsAgree`, `ArgumentsArrive` |

Two actions are enough for the lifecycle because actions interact only through
the order of the queue and of the plan; two plan elements let an element of an
action follow another of the same action. One producer with three pushes
wraps around every phase of the consumer. Components do not interact except
through the queue, which is a flag here, and through the order in which they are
noticed. Time 2 lets two clock events be read at different times and be pushed in
either order, and lets a window begin, end and be moved by `make_start_slack`;
instances with two overlapping actions, with time 3 and without the temporal
property, have millions of states and were explored without an error.
In `Values`, lists of two numbers and index 1 are enough for an element before, at
and after the one that is assigned, and for an index out of bounds; accesses go
through list, field and list. Lists of lists of numbers are registered, lists of
lists of pairs are not, so that both ways of reading a list back occur.

The elements of `Loading` are written so that each rule has a program in which it
matters: a domain that is declared, filled and declared again, one that is wider, and one
of symbols, one of which has the name of a parameter; a function that is declared with one
parameter name and defined with another; a name that is a function and an action;
calls with a parameter, a conditional, a bound variable; a binder with the name of a
parameter of another domain, which fits or does not, as the domains are defined; an exogenous action
whose mapping has a variable and an expression. It takes three operators for a chain to
break precedence; five show that the condition for it is exact. The globals of
`Translation` have names that are functors of ReadyLog, too. Two operators of a
constraint are a disjunction of temporal operations; in four times a bound can be
missed on either side. In two transformations the symbols of one can meet those of the
other. The programs are small because they are translated element by element: most
defects need one construct inside another, and the bounds let each one be inside
each other.

Violations, each a disagreement of the code with what it says of itself:

| Run | Property | What happens |
|---|---|---|
| `ActivityEndCancelled` | `EndAcceptsEveryOutcome` | END of a cancelled activity is refused for ever, although `erase_activity` says it may be executed |
| `ExogQueueLost` | `NothingLost` | two unlocked pushes lose an event |
| `ComponentTerminateHangs` | `TerminateReturnsIfNotified` | `terminate` takes `exog_mutex_`, then `request_mutex_`; a reporting backend takes them in the opposite order, and no notification has to be lost for that |
| `ComponentMissed` | `MissedStaysInError` | a late report undoes the error state of a missed transition |

The models reach further states a maintainer should know of: a START of an
activity that ended and was not collected throws out of `run`; END executed before
the event is drained collects a success without its effects; a CANCEL that comes
too late is refused for ever; an unlocked `push_front` can make a pop return a
moved-from element; `terminate` notifies without `queue_empty_mutex_`, so it can notify
between the predicate and the wait of a wait without a timeout, which then lasts, while
`terminate` waits for `wait_mutex_` and keeps `exog_mutex_` from everybody
(`NotificationLost`; `TerminateReturnsIfNotified` names this outcome and says that it is
the only one in which `terminate` hangs, for the queue and for real backends; with a
dummy backend the locks of `ComponentTerminateHangs` are another);
`switch_state` and a reporting dummy backend take the component's mutex and
`request_mutex_` in opposite orders; with a real backend,
or a dummy one that switches to two different states, `any_component_state_changed_exog`
can overwrite a report that comes between its read and its write with the state before it,
which then stays until the next report (`NoticeKeepsDrained` is about all earlier ones).
The loop takes an element late as long as `context_time` says it is early: a
window is a lower bound for the execution, and the upper bound only starts a
re-transformation. `plan.h` says of the constructor of a timed instruction that its
window is unconstrained; it is [now, now + 32767], and `append` replaces it by the
window before, [now, now] for the first element.

Deadlock is not checked: a program may end, end by an exception, or wait for an
event that never comes.

The value module shows more of the kind. A list that is read back gets the type of a
list of such lists, and a null pointer is dereferenced where the program has no such
type, as in `examples/lists.gpp:69`; an empty list or a null cannot be an argument of
an action. `pop_front` yields a cyclic term. The parser wants the element of a push to
have the type of the list (`statements.cpp:178`), which `examples/lists.gpp:66` does
not have, and the predicates want a number, so no push of a parsed program succeeds.
A list literal is not checked against its element type, and a compound literal may
miss fields, which ends the program when they are accessed. Two compounds
with the same fields in another order are different terms, so a `Comparison` of
compounds (which the classes of `model/` allow and the parser does not) tells apart
what `Value::operator ==` does not. An exogenous function is handed false for null. A list type
and a value that is no list (such as that false) ask each other whether they fit without
end.

The properties of `Language` name their exceptions, and each of these is a behaviour of
the code:

* A conditional expression has no type, so it passes every check against a domain, and
  where no type is expected it is tried as a number only.
* The types of two compounds are compared by their fields the wrong way round where a
  field has a domain.
* A domain that was declared and has no elements yet is taken for narrower than any
  other, so references that were accepted may be inconsistent once it is defined.
* A global may be declared and defined with different names for its parameters; its
  body then names variables its clause does not have.
* A name that is a symbol of any domain is that symbol even where a parameter has it.
* The mapping of an exogenous action throws a `bad_cast` or not, depending on the order
  of a hash map.
* A chain with an operator that binds no tighter than one before it and less tightly than
  one behind it (`a*b + c*d`) is put together against the precedence of its operators.
* A binder inside a parameter or binder of the same name and another type crashes the
  parser unless the outer type fits the inner one.
* A function or procedure that is declared and never defined is dereferenced at the
  start; so is the parent of the parallel statement of a `during` that has no scope of
  its own, when it is parsed.
* The statement of a `solve` and the parts of lists, compounds and `to_string` get no
  parent, so binders inside and outside of them name the same golog variable.
* The argument of a `during` is evaluated again at its end, and its `on_cancel` looks at
  a state that its `on_fail` may have changed.
* The bounds of `until` and `since` are dropped, and a disjunction of two of them is
  weaker than written. A constraint on an action with given arguments is unsupported.
* A clock that has the name of a state takes its place, or a state that of a clock; the
  component may then have no initial state.
* The transformation drops tests from a plan, and windows lose what is below a second; a
  plan of nothing but tests can end the program with an exception.

## Fairness

Threads are scheduled, so every thread's step is weakly fair. Nobody has to
push, to report, to call `terminate` or to wake up without a reason. A push in
`ExogQueue` is strongly fair because a mutex is free again and again while
another thread uses it. In `ExecutionLoop` the execution thread and the wakeup
threads are weakly fair, the latter together, and time passes; events, component
changes and `terminate` need not come.

## Proofs

`ActivityLifecycle_proofs` proves `TypeOK`, `NoFault`, `NoStaleOutcome`,
`HistoryAgrees`, `EffectsOnlyOnSuccess` and the refinement of `ActivityProtocol`
for every set of actions, outcomes and bound on plans. The invariant that is
inductive, `IInv`, adds what the source never states: an element is executed only
after the queue was drained since the last one (`DrainedBeforeElement`), what a
check admitted still holds when it is acted on, up to an activity ending
(`AdmissionHolds`), a thread that has not updated yet owes exactly one event
(`ThreadOwes`), and an activity has at most one event in the queue, with the state
the platform holds (`QueueConsistent`). The refinement rests on lemmas about the
queue: appending and removing an event changes the report of its activity only.

`ExogQueue_proofs` has two kinds of results. `TerminateWaits` and `WakeupOnItsWay` hold
for any number of producers and timers, however the unlocked pushes corrupt the
queue, because they rest on one lock each: the former on `wait_mutex_` (`WInv`), the
latter on `queue_empty_mutex_` (`SInv`). `WakeupOnItsWay` is the safety half of
`PushWakes`: while the execution thread waits and the queue is not empty, some thread
is between its push and its notification. A push passes `queue_empty_mutex_` after the
cursor has moved, and the execution thread owns it from its look at the queue until it
waits, so whoever pushes in between has yet to notify. `TypeOK`, `ProducerOrder`
(events are popped once and in their order, which no run needs besides the refinement)
and `NothingLost` hold for one producer and no timer only, which is their hypothesis;
the run `ExogQueueLost` has the counterexample for two. Their invariant, `QInv`, says
where each cursor of the deque is at each step: the producer's cursor counts its complete
pushes (`ProducerCursor`), the events lie in their cells from the number of popped ones up
to that cursor (`EventsInOrder`), and the front cursor is at the next event or one before
it, at a clock event of the execution thread itself (`FrontCursor`). The refinement of
`EventChannel` (`ChannelImplemented`) rests on the same invariant and has its hypothesis: in every
state of `QInv` what the channel sees is given by the numbers of complete pushes and of popped
events alone (`SeenByInv`), and each step of the code leaves both or moves one of them by one
(`SeenSteps`).

`Component_proofs` proves `TypeOK`, `SwitchIsDeclared` and `ReportIsRequested`
for any components, states and transitions, from what the two mutexes protect
(`SwitchLocked`, `ReportLocked`). `NoticeKeepsDrained` is
proved for backends of both kinds and any reports. Its part of the invariant,
`CarriedOrReported`, is about the time between the unlocked read and the write: the
component still has the state that was read, or its backend has reported since, and then
is on its way to push the event or has pushed it. No event is drained in that time, as
the thread that drains is the one that is about to write.

`FoldLemmas` has what takes the place of induction. The library's induction theorems
have an operator as a parameter and cannot be instantiated, but the existence of a least
element in a set of naturals needs none: a set with 0 that is closed under successor holds
every natural (`SetInduction`). From it follow the largest of finitely many numbers
(`Largest`), that the function `FoldLeft` is defined by exists (`FoldExists`), has
its type (`FoldTyped`) and loses nothing that a step has added (`FoldGrows`), and that a
recursive definition that looks only at the trees below the one it is about has a function
(`TreeRecursion`).

`ExecutionLoop_proofs` first proves that appending one instruction (`AppendInOrder`), many
(`AppendAllInOrder`) and slackening (`SlackInOrder`) keep or put the windows of a plan of any
length in order, for any durations. `TimeType`, the
types of what carries the time to the loop, is inductive and gives `ContextBehind` and
`WakeupPending`. `PlanInv` is the invariant of the plan: it is typed and its windows are
in order (`PlanType`), and it is not empty where the loop goes on with an element
(`ElementLeft`). The last part is not inductive for plans of any kind: taptenc's result
has no tests in it, so a plan of nothing but tests is empty after a re-transformation. What
makes it inductive is that with a platform model no test ever gets into a plan
(`Allowed`), as every plan has been through the transformation. `TypeOK`, `WindowsInOrder`
and `NeverEarly` follow.

`Parsing_proofs` proves `ChainKept` and `RespectedWithoutValley` for chains of any
length. The recursive function exists as the chains get shorter (`ParsedTurn`). The tree of
a part of a chain has exactly the operators of that part, its root is where the last
call put it, and whichever of the two turns of the code a chain takes, its text is that of the
parts in their order; an operator over one that binds less tightly needs a valley in
between.

It also proves `ComponentsAsWritten` for any names and sections. That the
sections are what the grammar can produce (`Grammatical`) is a hypothesis, since the
constants of the module are untyped. `AsWritten` relates a component to the entries so
far: its states and clocks are those, and the error state; there is one more state than
entries, which is how `add_state` recognises the first one; each transition is between
its own states. It holds after each entry of each kind (`StateFaithful`,
`ClockFaithful`, `TransitionFaithful`), for a list of them by induction over its prefixes
(`SectionFaithful`), and for sections in any order, because it holds for entries of the
three kinds in any number.

The last part is about programs: `StartsIfDefined` and `GologVarsDistinct` hold for any globals
and for a `main` of any depth. `StartupAssumption` has what the rest of the parser sees
to: an effect is on a fluent of the program, and the elements of the globals are regular, that
is, those whose constructors leave out the parent are at the top of a global, or are a
`solve`, a list, a compound or a `to_string`. For the statements around `main` this is not
assumed but proved from the constructors (`ConstructorsGood`, `EnclosedClosed`), and what the
other constructors make is regular, too (`StatementsRegular`). Instead of an induction over the tree of
`main`, its elements are in a set that has the parts of its members (`MainClosed`), which grows by
one with each statement. `StartupInv` says besides which globals have semantics in which
phase; then nothing that a term is made of is missing when a global is compiled. For the names,
`FoundLevelled` says of every element, by induction on the steps to it, that the binders around
it have lower levels than its depth, and that there is none around what has no parent and is
at the top of a global.

`Constraints_proofs` proves `CompiledIsNecessary` and `CompiledAsWritten` for any platform,
any bounds, constraints with any number of operators and traces of any length. Specs are trees:
each is an assertion, a hook or an action, or an operation on specs with fewer operators
(`StateShape`, `ActionShape`), so what is handed on from parts to the whole holds for all
(`SpecInduction`), and each of the recursive functions exists (`SpecRecursion`). What is
handed on is `Faithful`: the times of what is compiled contain those of what is written; they
are the same where nothing is `Blurred`, and always for a NoOp, which is what may become an
operand; and only an until or a since, or what has one in it, becomes a BinaryInfo. The
weaker statement about necessity alone is not inductive, since an operand on the left hand side
of an until has to be exact. The rest is that times and bounds are monotone (`UntilMonotone`,
`SinceMonotone`) and that a disjunction of two futures with the same bounds is one of them
(`DisjunctionOfTimes`), which fails for until. `ConstraintAssumption` (numbers are numbers) is the
only assumption; the invariant `ConstraintInv` says that a spec has as many operators as
rules were applied.

`Transformation_proofs` proves `TransformsFaithfully` for any components, constraints, plans,
durations and switches. `TransformationAssumption` says what the parser and the constructors
guarantee: components have states, plans have windows, and constraints are about declared
components. A plan with
its tests removed is described by positions: the n-th kept element (`NthIs`,
`OtherPositions`), so that the actions of a trace are counted rather than filtered. Arguments
become symbols and symbols arguments by two maps that grow through two folds, over the actions
and over the arguments of each; they stay inverse of each other (`InverseMaps`) and have every
argument of the plan in them, which is why arguments come back (`ArgsComeBack`). A window is divided by a second and multiplied again
(`Divided`), so what is on time for taptenc is on time up to a second (`WithinBounds`). What is
read back is the trace element by element (`TraceIs`), and its switches follow the automata
(`RunConnected`), which start where the components are. `TransformationInv` joins the types of
the members with these.

Some definitions of the models have the form they have for the sake of the proofs:
`Transitions` is a fold and `PoppedBy` a set of positions, where `SelectSeq` would do, which
the prover cannot expand; so are `Nth` and `Upto` of `Transformation`, whose runs of switches
are functions. `Stored` and `Inserted` are function constructors in the place of `@@`. The
recursive functions of `Constraints`, `Transformation` and `Startup` have sets of formulas, specs and
elements for their domains, and their first case is one that recurs: where only a later one does, the
prover takes a recursive function for one that is not.

Only model-checked: everything temporal (`OutcomeObserved`, `CancelStops`,
`PushWakes`, `TerminateReturnsIfNotified`, `DueExecuted`), since liveness under fairness is out of the
prover's reach, and what `Language` says of `Loading`, `Translation` and
`Values`. These are about what recursive operators make of nested data, which takes structural induction, and the prover does not see the modules that
declare such operators.

## Plan

1. The paths of `ValueStore` as recursive functions, which exist as paths get shorter (as the
   chains of `Precedence` do), so that assignment and access can be proved about.
2. `CallsStayConsistent`: which of its helpers can be recursive functions or folds.
3. `Translation` extended by concurrent statements and exogenous actions, `Loading` by
   definitions of compound types and member access.
4. A violation run for the argument of `examples/lists.gpp:69`.

## Not modelled

The Readylog interpreter and the taptenc library are submodules whose sources
are not in the repository: they appear as choices, or as what the code that writes
their input relies on. The logger, UML and build files hold no state that a property is
about. Values sensed by an action and the progression of the history are data of the
interpreter. `DummyBackend::terminate_` iterates over a container other threads change,
which is undefined whatever it finds.

Left out of the modules on programs: in `Loading` two parameters of one name, the
duration and silence of actions, member access, list access and definitions of types; in
`Translation` IFF, XOR, concurrent statements, arithmetic, conditional expressions,
exogenous actions, senses and the markers of plans; in `Values` strings, symbols, the
format of numbers and pushes and pops of lists that are not fluents; in `Elements` and `Startup` types
and operators, which are those of `Loading`; in `Transformation` that the clock is read again for each window. The transitions
that a component makes by itself become taptenc's `no_op` and come back as switches, as
whatever goes from a state to a state does. The lexical level of the parser has no
state.
