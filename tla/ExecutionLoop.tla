---------------------------- MODULE ExecutionLoop ----------------------------
(***************************************************************************)
(* The time of the run loop: ExecutionController::run takes the elements   *)
(* of a plan in their time windows (execution/controller.cpp).             *)
(*                                                                         *)
(* The loop does not look at the clock.  It looks at context_time, a       *)
(* fluent that only clock events change; one is pushed by every wakeup the *)
(* loop has scheduled (platform_backend.cpp) and by the loop itself after  *)
(* a wait has timed out.  Each of them reads the clock first and pushes to *)
(* the front of the queue later, so context_time may go back.              *)
(*                                                                         *)
(* A push and a pop are one step here, see ExogQueue; activities end and   *)
(* component backends report as in ActivityLifecycle and Component, of     *)
(* which only what the loop reacts to is kept.  A plan ends the activities *)
(* it starts.  What taptenc makes of a plan is a choice; the switches of   *)
(* components that it inserts are in Component.                            *)
(***************************************************************************)
EXTENDS Plan

CONSTANTS
    Policies,   \* sequences of instructions the interpreter may decide on
    Slack,      \* of make_start_slack in a re-transformation
    MinWindow,  \* the shortest window of a transformed plan
    Never,      \* no timeout
    MaxTime, MaxPlans, MaxChanges, MaxShift     \* bounds

ASSUME LoopAssumption ==
    /\ Slack \in Nat /\ MinWindow \in Nat
    /\ MaxTime \in Nat /\ MaxPlans \in Nat /\ MaxChanges \in Nat /\ MaxShift \in Nat
    /\ Policies \subseteq Seq(Instruction)
    /\ Never \notin Int

VARIABLES
    now,            \* the clock
    context_time,
    queue,          \* exog_queue_
    known,          \* the conditions that hold in the history
    act,            \* the platform's state of each action's activity
    changed,        \* whether some backend's state_changed_exog() holds
    platform,       \* whether the program declares components and constraints
    plan, pc,
    return,         \* where the loop goes on when the queue is drained
    timeout,        \* of exog_queue_block
    reading,        \* what the loop's own exog_timer_wakeup has read
    scheduled,      \* scheduled_wakeups_: the threads that sleep
    dispatching,    \* how many threads are to read the clock
    clocks,         \* clocks[t]: how many threads have read t, and are to push it
    terminated,
    plans, changes  \* counters of the bounds

loop == <<plan, pc, return, timeout, reading, plans>>
wakeups == <<scheduled, dispatching, clocks>>
world == <<act, changed, changes>>
vars == <<now, context_time, queue, known, platform, loop, wakeups, world, terminated>>

Time == 0..MaxTime

Event ==
    [kind : {"clock"}, of : Time] \cup [kind : {"condition"}, of : Condition]
        \cup [kind : {"activity"}, of : Action] \cup {[kind |-> "component"]}

Label ==
    {"top", "loop", "drain", "checked", "element", "block", "push", "tried", "stopped", "failed"}

Init ==
    /\ now = 0 /\ context_time = 0
    /\ queue = <<>> /\ known = {}
    /\ act = [a \in Action |-> "idle"]
    /\ changed = FALSE /\ changes = 0
    /\ platform \in BOOLEAN
    /\ plan = <<>> /\ pc = "top" /\ return = "loop" /\ timeout = Never /\ reading = 0
    /\ plans = 0
    /\ scheduled = {} /\ dispatching = 0 /\ clocks = [t \in Time |-> 0]
    /\ terminated = FALSE

-----------------------------------------------------------------------------
(* Plans and their transformation.                                           *)

(* plan_gpp_to_taptenc drops all but the transitions. *)
Transitions(p) ==
    FoldLeft(LAMBDA is, e : IF e.do.hook = "TEST" THEN is ELSE Append(is, e.do), <<>>, p)

(* Taptenc gives each transition a new window, in their order; the shortest one
   is MinWindow long. *)
Rewritten(p, t) ==
    LET q == Transitions(p)
    IN  {[i \in DOMAIN q |-> Timed(q[i], Window(t + s[i], t + s[i] + d))] :
            s \in {f \in [DOMAIN q -> 0..MaxShift] :
                       \A i \in DOMAIN q, j \in DOMAIN q : i < j => f[i] =< f[j]},
            d \in MinWindow..MinWindow + MaxShift}

(* Without components and constraints transform returns the plan as it is.  If
   taptenc finds no schedule, its exception ends run. *)
transform(p, next) ==
    \/ /\ plan' \in IF platform /\ p # <<>> THEN Rewritten(p, now) ELSE {p}
       /\ pc' = next
    \/ platform /\ p # <<>> /\ pc' = "failed" /\ UNCHANGED plan

(* trans of the program decides on a policy. *)
Interpret ==
    /\ pc = "top" /\ plans < MaxPlans
    /\ \E p \in {PlanOf(policy, now) : policy \in Policies} : transform(p, "loop")
    /\ plans' = plans + 1
    /\ UNCHANGED <<now, context_time, queue, known, platform, return, timeout, reading,
                   wakeups, world, terminated>>

(* No transition is possible: wait for exogenous events. *)
InterpretNothing ==
    /\ pc = "top"
    /\ pc' = "block" /\ return' = "loop" /\ timeout' = Never
    /\ UNCHANGED <<now, context_time, queue, known, platform, plan, reading, plans,
                   wakeups, world, terminated>>

ProgramFinal ==
    /\ pc = "top" /\ pc' = "stopped"
    /\ UNCHANGED <<now, context_time, queue, known, platform, plan, return, timeout, reading,
                   plans, wakeups, world, terminated>>

-----------------------------------------------------------------------------
(* The loop over the elements of a plan.                                     *)

(* The head of the loop, or its end. *)
Loop ==
    /\ pc = "loop"
    /\ pc' = IF terminated THEN "stopped"
             ELSE IF plan = <<>> THEN "top"
             ELSE IF queue = <<>> THEN "element" ELSE "drain"
    /\ return' = IF pc' = "drain" THEN "checked" ELSE "loop"
    /\ plan' = IF terminated THEN <<>> ELSE plan
    /\ UNCHANGED <<now, context_time, queue, known, platform, timeout, reading, plans,
                   wakeups, world, terminated>>

(* drain_exog_queue appends an event to the history. *)
Drain ==
    /\ pc = "drain" /\ queue # <<>>
    /\ queue' = Tail(queue)
    /\ context_time' = IF Head(queue).kind = "clock" THEN Head(queue).of ELSE context_time
    /\ known' = IF Head(queue).kind = "condition" THEN known \cup {Head(queue).of} ELSE known
    /\ UNCHANGED <<now, platform, loop, wakeups, world, terminated>>

Drained ==
    /\ pc = "drain" /\ queue = <<>>
    /\ pc' = return /\ return' = "loop"
    /\ UNCHANGED <<now, context_time, queue, known, platform, plan, timeout, reading, plans,
                   wakeups, world, terminated>>

(* A component changed: the rest of the plan is transformed. *)
Checked ==
    /\ pc = "checked"
    /\ changed' = FALSE
    /\ IF changed THEN transform(plan, "element") ELSE pc' = "element" /\ UNCHANGED plan
    /\ UNCHANGED <<now, context_time, queue, known, platform, return, timeout, reading, plans,
                   wakeups, act, changes, terminated>>

(* Mutant: time is compared with a tolerance. *)
TooEarly_Tolerant == Head(plan).early > context_time + 1

TooEarly == Head(plan).early > context_time

(* What trans of an instruction waits for. *)
Executable(i) ==
    CASE i.hook = "START" -> act[i.of] = "idle"
      [] i.hook = "END" -> act[i.of] = "ended"
      [] i.hook = "TEST" -> i.of \in known

(* Mutant: one wakeup at a time. *)
schedule_timer_event_One(when) ==
    scheduled' = IF scheduled = {} THEN {when} ELSE scheduled

(* Mutant: no wakeup for a time that is past. *)
schedule_timer_event_Future(when) ==
    scheduled' = IF when > now THEN scheduled \cup {when} ELSE scheduled

(* Starts a thread that sleeps until `when', unless there is one. *)
schedule_timer_event(when) == scheduled' = scheduled \cup {when}

(* The first element is too early or not possible: wait for events. *)
Postpone ==
    /\ pc = "element"
    /\ \/ TooEarly /\ schedule_timer_event(Head(plan).early)
       \/ ~TooEarly /\ ~Executable(Head(plan).do) /\ UNCHANGED scheduled
    /\ timeout' = next_timeout(plan)
    /\ pc' = "block" /\ return' = "tried"
    /\ UNCHANGED <<now, context_time, queue, known, platform, plan, reading, plans,
                   dispatching, clocks, world, terminated>>

(* The first element is executed: an activity is started or collected. *)
Execute ==
    /\ pc = "element" /\ ~TooEarly
    /\ LET i == Head(plan).do
       IN  /\ Executable(i)
           /\ act' = CASE i.hook = "START" -> [act EXCEPT ![i.of] = "running"]
                       [] i.hook = "END" -> [act EXCEPT ![i.of] = "idle"]
                       [] i.hook = "TEST" -> act
    /\ plan' = Tail(plan)
    /\ pc' = "loop"
    /\ UNCHANGED <<now, context_time, queue, known, platform, return, timeout, reading, plans,
                   wakeups, changed, changes, terminated>>

(* exog_queue_block returns or throws Terminate ... *)
Unblock ==
    /\ pc = "block" /\ (queue # <<>> \/ terminated)
    /\ pc' = IF terminated THEN "stopped" ELSE "drain"
    /\ plan' = IF terminated THEN <<>> ELSE plan
    /\ timeout' = Never
    /\ UNCHANGED <<now, context_time, queue, known, platform, return, reading, plans,
                   wakeups, world, terminated>>

(* ... or throws ExogTimeout, and exog_timer_wakeup reads the clock ... *)
Timeout ==
    /\ pc = "block" /\ queue = <<>> /\ ~terminated
    /\ timeout # Never /\ now >= timeout
    /\ reading' = now
    /\ pc' = "push" /\ timeout' = Never
    /\ UNCHANGED <<now, context_time, queue, known, platform, plan, return, plans,
                   wakeups, world, terminated>>

(* Mutant: the time is rounded up. *)
ClockEvent_RoundedUp(t) == [kind |-> "clock", of |-> t + 1]

ClockEvent(t) == [kind |-> "clock", of |-> t]

(* ... and pushes the time. *)
PushReading ==
    /\ pc = "push"
    /\ queue' = <<ClockEvent(reading)>> \o queue
    /\ pc' = "drain" /\ reading' = 0
    /\ UNCHANGED <<now, context_time, known, platform, plan, return, timeout, plans,
                   wakeups, world, terminated>>

(* The window of the first element has passed, or a component changed, which is
   only asked for otherwise: the plan may begin now and is transformed. *)
Tried ==
    /\ pc = "tried"
    /\ LET late == context_time > Head(plan).late
       IN  /\ changed' = (changed /\ late)
           /\ IF late \/ changed
              THEN \E p \in {make_start_slack(plan, Slack, now)} : transform(p, "loop")
              ELSE pc' = "loop" /\ UNCHANGED plan
    /\ UNCHANGED <<now, context_time, queue, known, platform, return, timeout, reading, plans,
                   wakeups, act, changes, terminated>>

ExecStep ==
    \/ Interpret \/ InterpretNothing \/ ProgramFinal
    \/ Loop \/ Drain \/ Drained \/ Checked \/ Postpone \/ Execute
    \/ Unblock \/ Timeout \/ PushReading \/ Tried

-----------------------------------------------------------------------------
(* The threads of schedule_timer_event.  What they and the world do after run
   has returned is left out.                                                 *)

Running == pc \notin {"stopped", "failed"}

(* The time has come: the entry goes before the wakeup is dispatched. *)
WakeUp(when) ==
    /\ when \in scheduled
    /\ now >= when \/ terminated
    /\ scheduled' = scheduled \ {when}
    /\ dispatching' = IF terminated THEN dispatching ELSE dispatching + 1
    /\ UNCHANGED <<now, context_time, queue, known, platform, loop, clocks, world, terminated>>

(* exog_timer_wakeup reads the clock ... *)
ReadClock ==
    /\ dispatching > 0
    /\ dispatching' = dispatching - 1
    /\ clocks' = [clocks EXCEPT ![now] = @ + 1]
    /\ UNCHANGED <<now, context_time, queue, known, platform, loop, scheduled, world,
                   terminated>>

(* ... and pushes the time in front of all events. *)
PushClock(t) ==
    /\ clocks[t] > 0
    /\ clocks' = [clocks EXCEPT ![t] = @ - 1]
    /\ queue' = <<ClockEvent(t)>> \o queue
    /\ UNCHANGED <<now, context_time, known, platform, loop, scheduled, dispatching, world,
                   terminated>>

WakeupStep ==
    /\ Running
    /\ \/ \E when \in scheduled : WakeUp(when)
       \/ ReadClock
       \/ \E t \in Time : PushClock(t)

-----------------------------------------------------------------------------
(* The world outside.                                                        *)

Tick ==
    /\ Running /\ now < MaxTime
    /\ now' = now + 1
    /\ UNCHANGED <<context_time, queue, known, platform, loop, wakeups, world, terminated>>

(* An activity ends: the platform's state changes and an update is queued. *)
ActivityEnds(a) ==
    /\ act[a] = "running"
    /\ act' = [act EXCEPT ![a] = "ended"]
    /\ queue' = Append(queue, [kind |-> "activity", of |-> a])
    /\ UNCHANGED <<now, context_time, known, platform, loop, wakeups, changed, changes,
                   terminated>>

(* An exogenous action that makes a condition hold. *)
ConditionHolds(c) ==
    /\ c \notin known /\ [kind |-> "condition", of |-> c] \notin Range(queue)
    /\ queue' = Append(queue, [kind |-> "condition", of |-> c])
    /\ UNCHANGED <<now, context_time, known, platform, loop, wakeups, world, terminated>>

(* A component's backend reports a state and queues a notice. *)
ComponentChanges ==
    /\ platform /\ changes < MaxChanges
    /\ changes' = changes + 1
    /\ changed' = TRUE
    /\ queue' = Append(queue, [kind |-> "component"])
    /\ UNCHANGED <<now, context_time, known, platform, loop, wakeups, act, terminated>>

Terminate ==
    /\ ~terminated /\ terminated' = TRUE
    /\ UNCHANGED <<now, context_time, queue, known, platform, loop, wakeups, world>>

WorldStep ==
    /\ Running
    /\ \/ \E a \in Action : ActivityEnds(a)
       \/ \E c \in Condition : ConditionHolds(c)
       \/ ComponentChanges \/ Terminate

Next == ExecStep \/ WakeupStep \/ Tick \/ WorldStep

Spec == Init /\ [][Next]_vars

(* The loop runs, some thread runs as long as one can, time passes; what
   happens outside need not. *)
FairSpec == Spec /\ WF_vars(ExecStep) /\ WF_vars(WakeupStep) /\ WF_vars(Tick)

-----------------------------------------------------------------------------
(* Properties.                                                               *)

(* Types: the variables have the values the code gives them. *)
TypeOK ==
    /\ now \in Time /\ context_time \in Time /\ reading \in Time
    /\ queue \in Seq(Event)
    /\ known \subseteq Condition
    /\ act \in [Action -> {"idle", "running", "ended"}]
    /\ {changed, platform, terminated} \subseteq BOOLEAN
    /\ \A i \in DOMAIN plan : plan[i] \in [do : Instruction, early : Nat, late : Nat]
    /\ pc \in Label /\ return \in {"loop", "checked", "tried"}
    /\ timeout \in Nat \cup {Never}
    /\ scheduled \subseteq Nat
    /\ dispatching \in Nat /\ clocks \in [Time -> Nat]
    /\ plans \in 0..MaxPlans /\ changes \in 0..MaxChanges

(* However appended, slackened or transformed, the windows of a plan allow its
   elements to be executed in their order: append and sanitize_time_window put
   an END after the element before it, whatever the durations. *)
WindowsInOrder == WellTimed(plan)

(* The loop never sleeps through the beginning of a window: while it waits for
   a first element that is too early, a wakeup for that very time is scheduled
   or one is on its way, though duplicate wakeups are eliminated, the clock
   events may be drained in any order and a re-transformation moves windows. *)
WakeupPending ==
    pc = "block" /\ return = "tried" /\ TooEarly =>
        \/ Head(plan).early \in scheduled
        \/ dispatching > 0 \/ (\E t \in Time : clocks[t] > 0)
        \/ queue # <<>> \/ terminated

(* What the loop knows of the time, and what is on its way to it, is never ahead
   of the clock, in whatever order it is read, queued and drained. *)
ContextBehind ==
    /\ context_time =< now /\ reading =< now
    /\ \A t \in Time : clocks[t] > 0 => t =< now
    /\ \A k \in DOMAIN queue : queue[k].kind = "clock" => queue[k].of =< now

(* No element is executed before its window begins, although the loop knows the
   time only from events that were read, queued and drained by several threads. *)
NeverEarly ==
    [][Execute => Head(plan).early =< now]_vars

(* An element that is possible and whose window has begun is executed at some
   time, or gets another window, or the loop ends: also when the clock events
   that reach the loop are old. *)
Due == plan # <<>> /\ Head(plan).early =< now /\ Executable(Head(plan).do)
DueExecuted == Due ~> (~Due \/ pc \in {"stopped", "failed"})
=============================================================================
