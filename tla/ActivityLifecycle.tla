------------------------- MODULE ActivityLifecycle -------------------------
(***************************************************************************)
(* The life of durative action instances while a program runs.             *)
(*                                                                         *)
(* Three parties share it.  The execution thread (controller.cpp, run)     *)
(* asks the interpreter for a plan, drains exogenous events into the       *)
(* history and executes plan elements, each in two critical sections of    *)
(* the backend mutex: one that reads the activity's state and one that     *)
(* acts on it (transition.cpp, trans).  One thread per activity            *)
(* (dummy_backend.cpp, ActivityThread) decides its outcome, and later, in  *)
(* a critical section of the same mutex, stores it and queues the activity *)
(* as an event (activity.cpp, update).  The history holds the fluent       *)
(* state(A) the interpreter reasons with (boilerplate.pl).                 *)
(*                                                                         *)
(* Code that runs under the backend mutex is one step.  Wall-clock time,   *)
(* preconditions and the program are choices; the interpreter itself (the  *)
(* readylog submodule) is external.                                        *)
(***************************************************************************)
EXTENDS Naturals, Sequences

CONSTANTS
    Action,     \* ground durative actions: the hash of PlatformBackend's map
    Outcome,    \* what a platform reports uncancelled: DummyBackend only FINAL
    MaxPlan     \* the longest plan a solve operator returns

ASSUME OutcomeAssumption == Outcome \subseteq {"FINAL", "FAILED"} /\ Outcome # {}
ASSUME MaxPlanAssumption == MaxPlan \in Nat

VARIABLES
    activities, \* PlatformBackend::activities_; IDLE stands for "no entry"
    thread,     \* the ActivityThread of the last incarnation, see Thread
    cancel,     \* ActivityThread::cancel_
    queue,      \* AExecutionController::exog_queue_, the activities in it
    hist,       \* hist[a]: the fluent state(a), evaluated in the history
    pc,         \* where the execution thread is
    plan,       \* the remaining elements of the current plan
    error       \* the exception that ended run(), and its action

vars == <<activities, thread, cancel, queue, hist, pc, plan, error>>

Terminal == {"FINAL", "CANCELLED", "FAILED"}
State == {"IDLE", "RUNNING"} \cup Terminal
Hook == {"START", "CANCEL", "FINISH", "FAIL", "END"}
Element == [action : Action, hook : Hook]

(* An activity is updated once only, so the state its event has when it is
   drained is the state it had when it was queued. *)
Event == [action : Action, state : Terminal]

(* asleep: in wait_for.  A state: wait_for has returned, and update() with
   that outcome is next.  leaving: about to erase its activity_threads_ entry. *)
Thread == {"none", "asleep", "leaving"} \cup Terminal

Fault == {"LostTransition", "InconsistentTransition", "ActivityLost", "NoSuchActivity"}
NoError == [kind |-> "none"]

target_state ==
    [START |-> "RUNNING", CANCEL |-> "CANCELLED", FINISH |-> "FINAL",
     FAIL |-> "FAILED", END |-> "IDLE"]

-----------------------------------------------------------------------------
(* The fluent state(A): which transitions the interpreter finds possible     *)
(* online, and what each does to the fluent.                                 *)

Possible ==
    [START  |-> State \ {"RUNNING"},
     CANCEL |-> {"RUNNING"},
     FINISH |-> {"FINAL"},
     FAIL   |-> {"FAILED"},
     END    |-> Terminal]

causes_val(a, h) ==
    IF h = "END" THEN hist ELSE [hist EXCEPT ![a] = target_state[h]]

(* Mutant: end's condition on state(A) is dropped. *)
AppliesEffects_AnyEnd(a, h) == h \in {"FINISH", "END"}

(* finish applies the action's effects; end does so only if state(A) = final *)
AppliesEffects(a, h) == h = "FINISH" \/ (h = "END" /\ hist[a] = "FINAL")

(* A policy is made offline: there only a start has a condition, that the
   action is not running after the elements before it. *)
RunningBefore(p, i) ==
    LET own == {j \in 1..(i - 1) : p[j].action = p[i].action}
    IN  IF own = {} THEN hist[p[i].action] = "RUNNING"
        ELSE \E j \in own : /\ p[j].hook = "START"
                            /\ \A k \in own : k <= j

OfflinePossible(p) ==
    \A i \in 1..Len(p) :
        /\ p[i].hook # "FAIL"
        /\ p[i].hook = "START" => ~RunningBefore(p, i)

Policy == UNION {[1..n -> Element] : n \in 1..MaxPlan}

-----------------------------------------------------------------------------
Init ==
    /\ activities = [a \in Action |-> "IDLE"]
    /\ thread = [a \in Action |-> "none"]
    /\ cancel = [a \in Action |-> FALSE]
    /\ queue = <<>>
    /\ hist = [a \in Action |-> "IDLE"]
    /\ pc = "interpret"
    /\ plan = <<>>
    /\ error = NoError

-----------------------------------------------------------------------------
(* The interpreter's trans: four outcomes.                                   *)

(* A primitive action was executed: the history already holds it, and it is
   the one element of the plan. *)
InterpretAction(a, h) ==
    /\ pc = "interpret"
    /\ hist[a] \in Possible[h]
    /\ hist' = causes_val(a, h)
    /\ plan' = <<[action |-> a, hook |-> h]>>
    /\ pc' = "drain"
    /\ UNCHANGED <<activities, thread, cancel, queue, error>>

(* A solve operator was executed: its policy becomes the plan. *)
InterpretPolicy(p) ==
    /\ pc = "interpret"
    /\ OfflinePossible(p)
    /\ plan' = p
    /\ pc' = "drain"
    /\ UNCHANGED <<activities, thread, cancel, queue, hist, error>>

(* No transition: the program waits for an exogenous event, without timeout. *)
InterpretNothing ==
    /\ pc = "interpret"
    /\ pc' = "idle"
    /\ UNCHANGED <<activities, thread, cancel, queue, hist, plan, error>>

ProgramFinal ==
    /\ pc = "interpret"
    /\ pc' = "done"
    /\ UNCHANGED <<activities, thread, cancel, queue, hist, plan, error>>

-----------------------------------------------------------------------------
(* Exogenous events.                                                         *)

(* Mutant: only a wait with a timeout ends. *)
Unblock_TimedOnly ==
    /\ pc = "wait"
    /\ pc' = "drain"
    /\ UNCHANGED <<activities, thread, cancel, queue, hist, plan, error>>

(* exog_queue_block returns: an event is there, or the plan's next timeout
   has passed.  Either way the queue is drained next. *)
Unblock ==
    /\ \/ pc = "idle" /\ queue # <<>>
       \/ pc = "wait"
    /\ pc' = "drain"
    /\ UNCHANGED <<activities, thread, cancel, queue, hist, plan, error>>

Drain ==
    /\ pc = "drain"
    /\ queue # <<>>
    /\ hist' = [hist EXCEPT ![Head(queue).action] = Head(queue).state]
    /\ queue' = Tail(queue)
    /\ UNCHANGED <<activities, thread, cancel, pc, plan, error>>

(* Mutant: an event is drained per turn of the loop instead of all. *)
Drained_Partial ==
    /\ pc = "drain"
    /\ pc' = IF plan = <<>> THEN "interpret" ELSE "execute"
    /\ UNCHANGED <<activities, thread, cancel, queue, hist, plan, error>>

Drained ==
    /\ pc = "drain"
    /\ queue = <<>>
    /\ pc' = IF plan = <<>> THEN "interpret" ELSE "execute"
    /\ UNCHANGED <<activities, thread, cancel, queue, hist, plan, error>>

-----------------------------------------------------------------------------
(* Executing the first plan element: check, then act.                        *)

(* Mutant: FINISH is admitted for every ended activity. *)
Admitted_AnyEnded ==
    [START  |-> State \ {"RUNNING"},
     CANCEL |-> {"RUNNING"},
     FINISH |-> Terminal,
     FAIL   |-> {"FAILED"},
     END    |-> {"FAILED", "FINAL"}]

Admitted ==
    [START  |-> State \ {"RUNNING"},
     CANCEL |-> {"RUNNING"},
     FINISH |-> {"FINAL"},
     FAIL   |-> {"FAILED"},
     END    |-> {"FAILED", "FINAL"}]

element == Head(plan)

Admit ==
    /\ pc = "execute"
    /\ activities[element.action] \in Admitted[element.hook]
    /\ pc' = "act"
    /\ UNCHANGED <<activities, thread, cancel, queue, hist, plan, error>>

Refuse ==
    /\ pc = "execute"
    /\ activities[element.action] \notin Admitted[element.hook]
    /\ pc' = "wait"
    /\ UNCHANGED <<activities, thread, cancel, queue, hist, plan, error>>

(* The element's time window is not open yet, or a START's precondition does
   not hold: both are choices here. *)
Postpone ==
    /\ pc = "execute"
    /\ pc' = "wait"
    /\ UNCHANGED <<activities, thread, cancel, queue, hist, plan, error>>

(* Mutant: the loop does not look whether an element is left. *)
Executed_NoEmptyCheck(a, h) ==
    /\ hist' = causes_val(a, h)
    /\ plan' = Tail(plan)
    /\ pc' = "execute"
    /\ UNCHANGED error

(* Back in trans the history gets the transition; back in run the element is
   erased, and the loop goes on while the plan has elements. *)
Executed(a, h) ==
    /\ hist' = causes_val(a, h)
    /\ plan' = Tail(plan)
    /\ pc' = IF Tail(plan) = <<>> THEN "interpret" ELSE "drain"
    /\ UNCHANGED error

(* run() catches Terminate only: any other exception ends it. *)
Throw(kind, a) ==
    /\ error' = [kind |-> kind, action |-> a]
    /\ pc' = "stopped"
    /\ UNCHANGED <<hist, plan>>

(* Mutant: the map entry of an ended activity is overwritten. *)
start_activity_Overwrite(a) ==
    /\ activities' = [activities EXCEPT ![a] = target_state["START"]]
    /\ thread' = [thread EXCEPT ![a] = "asleep"]
    /\ cancel' = [cancel EXCEPT ![a] = FALSE]
    /\ Executed(a, "START")

start_activity(a) ==
    \/ /\ activities[a] # "IDLE"
       /\ Throw("UserError", a)
       /\ UNCHANGED <<activities, thread, cancel>>
    \/ /\ activities[a] = "IDLE"
       /\ activities' = [activities EXCEPT ![a] = target_state["START"]]
       /\ thread' = [thread EXCEPT ![a] = "asleep"]
       /\ cancel' = [cancel EXCEPT ![a] = FALSE]
       /\ Executed(a, "START")

(* cancel_activity: an activity that has ended meanwhile is only logged. *)
preempt_activity(a) ==
    \/ /\ thread[a] = "none"
       /\ Throw("NoSuchActivity", a)
       /\ UNCHANGED cancel
    \/ /\ thread[a] # "none"
       /\ cancel' = [cancel EXCEPT ![a] = TRUE]
       /\ Executed(a, "CANCEL")

cancel_activity(a) ==
    /\ UNCHANGED <<activities, thread>>
    /\ \/ activities[a] = "IDLE" /\ Throw("ActivityLost", a) /\ UNCHANGED cancel
       \/ activities[a] \in Terminal /\ Executed(a, "CANCEL") /\ UNCHANGED cancel
       \/ activities[a] = "RUNNING" /\ preempt_activity(a)

Erasable(a, h) ==
    \/ h = "END" /\ activities[a] \in Terminal
    \/ activities[a] = target_state[h]

erase_activity(a, h) ==
    /\ UNCHANGED <<thread, cancel>>
    /\ \/ /\ activities[a] = "IDLE"
          /\ Throw("LostTransition", a)
          /\ UNCHANGED activities
       \/ /\ activities[a] # "IDLE"
          /\ ~Erasable(a, h)
          /\ Throw("InconsistentTransition", a)
          /\ UNCHANGED activities
       \/ /\ activities[a] # "IDLE"
          /\ Erasable(a, h)
          /\ activities' = [activities EXCEPT ![a] = "IDLE"]
          /\ Executed(a, h)

Act ==
    /\ pc = "act"
    /\ \/ element.hook = "START"  /\ start_activity(element.action)
       \/ element.hook = "CANCEL" /\ cancel_activity(element.action)
       \/ /\ element.hook \in {"FINISH", "FAIL", "END"}
          /\ erase_activity(element.action, element.hook)
    /\ UNCHANGED queue

-----------------------------------------------------------------------------
(* The thread of an activity.                                                *)

(* Mutant: a wait that was told to cancel never returns. *)
WakeUp_LostNotify(a) ==
    /\ thread[a] = "asleep"
    /\ ~cancel[a]
    /\ \E o \in Outcome : thread' = [thread EXCEPT ![a] = o]
    /\ UNCHANGED <<activities, cancel, queue, hist, pc, plan, error>>

(* wait_for returns: the predicate decides, whether it was notified, timed
   out, or both. *)
WakeUp(a) ==
    /\ thread[a] = "asleep"
    /\ \E o \in (IF cancel[a] THEN {"CANCELLED"} ELSE Outcome) :
            thread' = [thread EXCEPT ![a] = o]
    /\ UNCHANGED <<activities, cancel, queue, hist, pc, plan, error>>

(* Mutant: a failure is stored and not reported. *)
Update_SilentFailure(a) ==
    /\ thread[a] \in Terminal
    /\ activities' = [activities EXCEPT ![a] = thread[a]]
    /\ queue' = IF thread[a] = "FAILED" THEN queue
                ELSE Append(queue, [action |-> a, state |-> thread[a]])
    /\ thread' = [thread EXCEPT ![a] = "leaving"]
    /\ UNCHANGED <<cancel, hist, pc, plan, error>>

Update(a) ==
    /\ thread[a] \in Terminal
    /\ activities' = [activities EXCEPT ![a] = thread[a]]
    /\ queue' = Append(queue, [action |-> a, state |-> thread[a]])
    /\ thread' = [thread EXCEPT ![a] = "leaving"]
    /\ UNCHANGED <<cancel, hist, pc, plan, error>>

Leave(a) ==
    /\ thread[a] = "leaving"
    /\ thread' = [thread EXCEPT ![a] = "none"]
    /\ UNCHANGED <<activities, cancel, queue, hist, pc, plan, error>>

-----------------------------------------------------------------------------
Interpret ==
    \/ \E a \in Action, h \in Hook : InterpretAction(a, h)
    \/ \E p \in Policy : InterpretPolicy(p)
    \/ InterpretNothing
    \/ ProgramFinal

ExecutionThread ==
    Interpret \/ Unblock \/ Drain \/ Drained \/ Admit \/ Refuse \/ Postpone \/ Act

ActivityThread(a) == WakeUp(a) \/ Update(a) \/ Leave(a)

Next == ExecutionThread \/ \E a \in Action : ActivityThread(a)

Spec == Init /\ [][Next]_vars

(* Threads are scheduled, and wait_for has a timeout. *)
FairSpec ==
    /\ Spec
    /\ WF_vars(ExecutionThread)
    /\ \A a \in Action : WF_vars(ActivityThread(a))

-----------------------------------------------------------------------------
Halted == pc \in {"done", "stopped"}

TypeOK ==
    /\ activities \in [Action -> State]
    /\ thread \in [Action -> Thread]
    /\ cancel \in [Action -> BOOLEAN]
    /\ queue \in Seq(Event)
    /\ hist \in [Action -> State]
    /\ pc \in {"interpret", "idle", "drain", "execute", "act", "wait", "done", "stopped"}
    /\ plan \in Seq(Element)
    /\ pc \in {"execute", "act"} => plan # <<>>

(* The check and the act are two critical sections, and the activity's thread
   may run in between: still the act never finds the activity gone or in a
   state the check excluded (the exceptions of erase_activity, cancel_activity
   and DummyBackend::preempt_activity). *)
NoFault == error.kind \notin Fault

Queued(a) == \E i \in 1..Len(queue) : queue[i].action = a

(* A plan element that START-ed or CANCEL-led in the history only, because the
   interpreter's own transition has not been executed yet. *)
Announced(a, h) == plan # <<>> /\ element = [action |-> a, hook |-> h]

(* The history does not outrun the platform: from start_activity until the event
   of the outcome is drained, state(A) claims no outcome but a requested cancel,
   and no event of an earlier incarnation is left to be drained meanwhile. *)
NoStaleOutcome ==
    \A a \in Action :
        /\ activities[a] = "RUNNING" => ~Queued(a)
        /\ \/ activities[a] = "RUNNING"
           \/ activities[a] \in Terminal /\ Queued(a)
           => hist[a] \in {"RUNNING", "CANCELLED"}

(* Once the event of an ended activity has been drained, the fluent state(A)
   the interpreter tests is the state the platform holds, unless a START of it
   that has not been executed yet is already in the history. *)
HistoryAgrees ==
    \A a \in Action :
        activities[a] \in Terminal /\ ~Queued(a) /\ ~Announced(a, "START") =>
            hist[a] = activities[a]

(* An executed plan element applies its action's effects only when the activity
   was FINAL: never for one that failed, was cancelled or still runs, even where
   END is executed before the event of the outcome has been drained. *)
EffectsOnlyOnSuccess ==
    [][Act /\ pc' # "stopped" /\ AppliesEffects(element.action, element.hook)
            => activities[element.action] = "FINAL"]_vars

(* The activity protocol: what a queue q reports about a is the state in its
   event, of which there is at most one. *)
Reported(q, a) ==
    IF \E i \in 1..Len(q) : q[i].action = a
    THEN q[CHOOSE i \in 1..Len(q) : q[i].action = a].state
    ELSE "IDLE"

Protocol ==
    INSTANCE ActivityProtocol WITH
        Outcome <- Terminal, IDLE <- "IDLE", RUNNING <- "RUNNING",
        phase <- activities, report <- [a \in Action |-> Reported(queue, a)]

ImplementsProtocol == Protocol!ProtocolSpec

(* Every outcome that is queued reaches the history while the program runs,
   whatever the execution thread waits for, unless the plan collects the
   activity first. *)
OutcomeObserved ==
    \A a \in Action :
        (activities[a] \in Terminal /\ Queued(a)) ~>
            (hist[a] = activities[a] \/ activities[a] = "IDLE" \/ Halted)

(* A cancelled activity stops, whatever the race with its own end. *)
CancelStops ==
    \A a \in Action : cancel[a] /\ activities[a] = "RUNNING" ~> activities[a] # "RUNNING"

-----------------------------------------------------------------------------
(* What the code says of itself and does not do.                             *)

(* platform_backend.cpp:87-88: END "may be executed if the durative state is
   either FINAL, FAILED or CANCELLED": a plan's END is not refused then. *)
EndAcceptsEveryOutcome ==
    [][Refuse /\ element.hook = "END" => activities[element.action] \notin Terminal]_vars

=============================================================================
