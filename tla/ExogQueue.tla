----------------------------- MODULE ExogQueue -----------------------------
(***************************************************************************)
(* The queue of exogenous events of AExecutionController, one step per     *)
(* access to shared memory or to a lock (execution/controller.cpp).        *)
(*                                                                         *)
(* Exec drains the queue and blocks on it; a Producer (an activity, the    *)
(* generator of exogenous actions, a component's backend) pushes events at *)
(* the back; a Timer pushes one clock event at the front and leaves, as    *)
(* Exec itself does after a timeout; Terminator calls terminate().         *)
(*                                                                         *)
(* exog_queue_push and exog_queue_push_front name no lock_guard: the       *)
(* temporary they create is destroyed in the same statement, so a push     *)
(* only waits until exog_mutex_ is free and then runs without it.  The     *)
(* std::deque is therefore modelled as libstdc++ lays it out, cells        *)
(* between two cursors, and a push or a pop as its reads and writes.       *)
(***************************************************************************)
EXTENDS Integers, Sequences, FiniteSets

CONSTANTS
    Producer, Timer,    \* threads that push at the back, at the front
    Exec, Terminator,   \* the execution thread and the caller of terminate()
    MaxPush,            \* bound: events a producer pushes
    Nobody              \* no owner of a mutex

ASSUME ThreadAssumption ==
    /\ Producer \cap Timer = {}
    /\ Exec # Terminator
    /\ {Exec, Terminator, Nobody} \cap (Producer \cup Timer) = {}
    /\ Nobody \notin {Exec, Terminator}
ASSUME MaxPushAssumption == MaxPush \in Nat

VARIABLES
    cell, start, finish,    \* the deque: cell[start], ..., cell[finish - 1]
    exog_mutex, queue_empty_mutex, wait_mutex,  \* their owners
    waiting,        \* whether Exec waits on queue_empty_condition_
    timed,          \* whether the current wait has a timeout
    terminated,
    pc,             \* where each thread is
    reg,            \* the cursor a thread has read in a push or a pop
    pushed,         \* pushed[p]: pushes p has begun
    popped          \* ghost: what was popped, clock events left out

deque == <<cell, start, finish>>
locks == <<exog_mutex, queue_empty_mutex, wait_mutex>>
vars == <<deque, locks, waiting, timed, terminated, pc, reg, pushed, popped>>

Thread == Producer \cup Timer \cup {Exec, Terminator}

Clock == [by |-> "clock"]
Null == [by |-> "null"]     \* raw or moved-from memory
Event == [by : Producer, n : 1..MaxPush]
Item == Event \cup {Clock, Null}

Slot ==
    LET width == MaxPush * 3 + 4 IN (0 - width)..width

Empty == start = finish

Label ==
    {"start", "push", "place", "advance", "signal", "notify", "settle", "gone"}   \* a push
        \cup {"empty", "front", "pop", "work", "end"}                             \* run
        \cup {"block", "guard", "condition", "sleep", "asleep", "unguard", "unblock"}
        \cup {"flag", "returned"}                                                \* terminate

Goto(t, l) == pc' = [pc EXCEPT ![t] = l]

Init ==
    /\ cell = [s \in Slot |-> Null] /\ start = 0 /\ finish = 0
    /\ exog_mutex = Nobody /\ queue_empty_mutex = Nobody /\ wait_mutex = Nobody
    /\ waiting = FALSE
    /\ timed = TRUE
    /\ terminated = FALSE
    /\ pc = [t \in Thread |-> IF t = Exec THEN "empty" ELSE "start"]
    /\ reg = [t \in Thread |-> 0]
    /\ pushed = [p \in Producer |-> 0]
    /\ popped = <<>>

-----------------------------------------------------------------------------
(* exog_queue_push and exog_queue_push_front.                                *)

(* A producer has a new event, a timer is due. *)
BeginPush(t) ==
    /\ pc[t] = "start"
    /\ \/ t \in Timer /\ UNCHANGED pushed
       \/ /\ t \in Producer
          /\ pushed[t] < MaxPush
          /\ pushed' = [pushed EXCEPT ![t] = @ + 1]
    /\ Goto(t, "push")
    /\ UNCHANGED <<deque, locks, waiting, timed, terminated, reg, popped>>

(* The unnamed lock_guard of exog_mutex_: locked and unlocked at once. *)
PassExogMutex(t) ==
    /\ pc[t] = "push"
    /\ exog_mutex = Nobody
    /\ Goto(t, "place")
    /\ UNCHANGED <<deque, locks, waiting, timed, terminated, reg, pushed, popped>>

(* The element is constructed next to the cursor ... *)
Place(t) ==
    /\ pc[t] = "place"
    /\ IF t \in Producer
       THEN /\ reg' = [reg EXCEPT ![t] = finish]
            /\ cell' = [cell EXCEPT ![finish] = [by |-> t, n |-> pushed[t]]]
       ELSE /\ reg' = [reg EXCEPT ![t] = start]
            /\ cell' = [cell EXCEPT ![start - 1] = Clock]
    /\ Goto(t, "advance")
    /\ UNCHANGED <<start, finish, locks, waiting, timed, terminated, pushed, popped>>

(* ... and the cursor moved, from a register or from memory. *)
Advance(t) ==
    /\ pc[t] = "advance"
    /\ IF t \in Producer
       THEN finish' \in {reg[t] + 1, finish + 1} /\ UNCHANGED start
       ELSE start' \in {reg[t] - 1, start - 1} /\ UNCHANGED finish
    /\ Goto(t, "signal")
    /\ UNCHANGED <<cell, locks, waiting, timed, terminated, reg, pushed, popped>>

(* Mutant: without the lock_guard of queue_empty_mutex_. *)
PassQueueEmptyMutex_NoLock(t) ==
    /\ pc[t] = "signal"
    /\ Goto(t, "notify")
    /\ UNCHANGED <<deque, locks, waiting, timed, terminated, reg, pushed, popped>>

(* The unnamed lock_guard of queue_empty_mutex_. *)
PassQueueEmptyMutex(t) ==
    /\ pc[t] = "signal"
    /\ queue_empty_mutex = Nobody
    /\ Goto(t, "notify")
    /\ UNCHANGED <<deque, locks, waiting, timed, terminated, reg, pushed, popped>>

(* notify_one: there is one waiter at most.  exog_timer_wakeup goes on to wait
   until the wait it ends is over. *)
Notify(t) ==
    /\ pc[t] = "notify"
    /\ waiting' = FALSE
    /\ Goto(t, IF t \in Producer THEN "start" ELSE "settle")
    /\ UNCHANGED <<deque, locks, timed, terminated, reg, pushed, popped>>

Settle(t) ==
    /\ pc[t] = "settle"
    /\ wait_mutex = Nobody
    /\ Goto(t, IF t = Exec THEN "empty" ELSE "gone")
    /\ UNCHANGED <<deque, locks, waiting, timed, terminated, reg, pushed, popped>>

Push(t) ==
    \/ PassExogMutex(t) \/ Place(t) \/ Advance(t)
    \/ PassQueueEmptyMutex(t) \/ Notify(t) \/ Settle(t)

-----------------------------------------------------------------------------
(* drain_exog_queue: exog_empty and exog_queue_pop.                          *)

(* Mutant: the queue is not looked at before it is popped. *)
ExogEmpty_Unchecked ==
    /\ pc[Exec] = "empty"
    /\ exog_mutex = Nobody
    /\ \/ Goto(Exec, "front")
       \/ Empty /\ Goto(Exec, "work")
    /\ UNCHANGED <<deque, locks, waiting, timed, terminated, reg, pushed, popped>>

ExogEmpty ==
    /\ pc[Exec] = "empty"
    /\ exog_mutex = Nobody
    /\ Goto(Exec, IF Empty THEN "work" ELSE "front")
    /\ UNCHANGED <<deque, locks, waiting, timed, terminated, reg, pushed, popped>>

(* front() is moved out under exog_mutex_ ... *)
Front ==
    /\ pc[Exec] = "front"
    /\ exog_mutex = Nobody
    /\ exog_mutex' = Exec
    /\ reg' = [reg EXCEPT ![Exec] = start]
    /\ popped' = IF cell[start] = Clock THEN popped ELSE Append(popped, cell[start])
    /\ cell' = [cell EXCEPT ![start] = Null]
    /\ Goto(Exec, "pop")
    /\ UNCHANGED <<start, finish, queue_empty_mutex, wait_mutex, waiting, timed,
                   terminated, pushed>>

(* ... and pop_front moves the cursor. *)
PopFront ==
    /\ pc[Exec] = "pop"
    /\ start' \in {reg[Exec] + 1, start + 1}
    /\ exog_mutex' = Nobody
    /\ Goto(Exec, "empty")
    /\ UNCHANGED <<cell, finish, queue_empty_mutex, wait_mutex, waiting, timed,
                   terminated, reg, pushed, popped>>

(* run() between two visits to the queue: it stops when terminated; otherwise
   it blocks, with a timeout while there is a plan, or comes back to drain. *)
Work ==
    /\ pc[Exec] = "work"
    /\ IF terminated
       THEN Goto(Exec, "end") /\ UNCHANGED timed
       ELSE \/ Goto(Exec, "empty") /\ UNCHANGED timed
            \/ /\ Goto(Exec, "block")
               /\ timed' \in BOOLEAN
    /\ UNCHANGED <<deque, locks, waiting, terminated, reg, pushed, popped>>

-----------------------------------------------------------------------------
(* exog_queue_block.                                                         *)

Block ==
    \/ /\ pc[Exec] = "block"
       /\ queue_empty_mutex = Nobody
       /\ queue_empty_mutex' = Exec
       /\ Goto(Exec, "guard")
       /\ UNCHANGED <<deque, exog_mutex, wait_mutex, waiting, timed, terminated, reg,
                      pushed, popped>>
    \/ /\ pc[Exec] = "guard"
       /\ wait_mutex = Nobody
       /\ wait_mutex' = Exec
       /\ Goto(Exec, "condition")
       /\ UNCHANGED <<deque, exog_mutex, queue_empty_mutex, waiting, timed, terminated,
                      reg, pushed, popped>>

(* The predicate of the wait. *)
Condition ==
    /\ pc[Exec] = "condition"
    /\ Goto(Exec, IF ~Empty \/ terminated THEN "unguard" ELSE "sleep")
    /\ UNCHANGED <<deque, locks, waiting, timed, terminated, reg, pushed, popped>>

(* condition_variable::wait unlocks and waits in one step. *)
Sleep ==
    /\ pc[Exec] = "sleep"
    /\ waiting' = TRUE
    /\ queue_empty_mutex' = Nobody
    /\ Goto(Exec, "asleep")
    /\ UNCHANGED <<deque, exog_mutex, wait_mutex, timed, terminated, reg, pushed, popped>>

(* Notified or woken spuriously: the predicate is evaluated again.  Timed out:
   whatever it says, the wait is over. *)
Wake ==
    /\ pc[Exec] = "asleep"
    /\ ~waiting
    /\ queue_empty_mutex = Nobody
    /\ queue_empty_mutex' = Exec
    /\ Goto(Exec, "condition")
    /\ UNCHANGED <<deque, exog_mutex, wait_mutex, waiting, timed, terminated, reg, pushed,
                   popped>>

SpuriousWakeup ==
    /\ pc[Exec] = "asleep"
    /\ waiting
    /\ waiting' = FALSE
    /\ UNCHANGED <<deque, locks, timed, terminated, pc, reg, pushed, popped>>

Timeout ==
    /\ pc[Exec] = "asleep"
    /\ timed
    /\ queue_empty_mutex = Nobody
    /\ queue_empty_mutex' = Exec
    /\ waiting' = FALSE
    /\ Goto(Exec, "unguard")
    /\ UNCHANGED <<deque, exog_mutex, wait_mutex, timed, terminated, reg, pushed, popped>>

(* Mutant: wait_mutex_ stays locked when Terminate is thrown. *)
Unguard_ThrowLeaks ==
    /\ pc[Exec] = "unguard"
    /\ wait_mutex' = IF terminated THEN wait_mutex ELSE Nobody
    /\ Goto(Exec, "unblock")
    /\ UNCHANGED <<deque, exog_mutex, queue_empty_mutex, waiting, timed, terminated, reg,
                   pushed, popped>>

(* wait_mutex_ is unlocked first; then the outcome is decided: Terminate, an
   ExogTimeout that run() answers with a clock event of its own, or an event. *)
Unguard ==
    /\ pc[Exec] = "unguard"
    /\ wait_mutex' = Nobody
    /\ Goto(Exec, "unblock")
    /\ UNCHANGED <<deque, exog_mutex, queue_empty_mutex, waiting, timed, terminated, reg,
                   pushed, popped>>

Unblock ==
    /\ pc[Exec] = "unblock"
    /\ queue_empty_mutex' = Nobody
    /\ Goto(Exec, IF terminated THEN "end" ELSE IF Empty THEN "push" ELSE "empty")
    /\ UNCHANGED <<deque, exog_mutex, wait_mutex, waiting, timed, terminated, reg, pushed,
                   popped>>

-----------------------------------------------------------------------------
(* terminate.                                                                *)

Terminate ==
    \/ /\ pc[Terminator] = "start"
       /\ exog_mutex = Nobody
       /\ exog_mutex' = Terminator
       /\ Goto(Terminator, "flag")
       /\ UNCHANGED <<deque, queue_empty_mutex, wait_mutex, waiting, timed, terminated,
                      reg, pushed, popped>>
    \/ /\ pc[Terminator] = "flag"
       /\ terminated' = TRUE
       /\ Goto(Terminator, "notify")
       /\ UNCHANGED <<deque, locks, waiting, timed, reg, pushed, popped>>
    \/ /\ pc[Terminator] = "notify"
       /\ waiting' = FALSE
       /\ Goto(Terminator, "settle")
       /\ UNCHANGED <<deque, locks, timed, terminated, reg, pushed, popped>>

(* Mutant: terminate does not wait for wait_mutex_. *)
TerminateReturn_NoWait ==
    /\ pc[Terminator] = "settle"
    /\ exog_mutex' = Nobody
    /\ Goto(Terminator, "returned")
    /\ UNCHANGED <<deque, queue_empty_mutex, wait_mutex, waiting, timed, terminated, reg,
                   pushed, popped>>

(* Not before the execution thread has left the wait. *)
TerminateReturn ==
    /\ pc[Terminator] = "settle"
    /\ wait_mutex = Nobody
    /\ exog_mutex' = Nobody
    /\ Goto(Terminator, "returned")
    /\ UNCHANGED <<deque, queue_empty_mutex, wait_mutex, waiting, timed, terminated, reg,
                   pushed, popped>>

-----------------------------------------------------------------------------
ExecStep ==
    \/ ExogEmpty \/ Front \/ PopFront \/ Work
    \/ Block \/ Condition \/ Sleep \/ Wake \/ Timeout \/ Unguard \/ Unblock
    \/ Push(Exec)

TerminateStep == Terminate \/ TerminateReturn

Next ==
    \/ ExecStep
    \/ SpuriousWakeup
    \/ TerminateStep
    \/ \E t \in Producer \cup Timer : BeginPush(t) \/ Push(t)

Spec == Init /\ [][Next]_vars

(* Every thread is scheduled; nobody has to push, to terminate or to wake up
   without a reason.  A mutex is not fair, but its owners give it back. *)
FairSpec ==
    /\ Spec
    /\ WF_vars(ExecStep)
    /\ WF_vars(TerminateStep /\ pc[Terminator] # "start")
    /\ \A t \in Producer \cup Timer : SF_vars(Push(t))

-----------------------------------------------------------------------------
TypeOK ==
    /\ cell \in [Slot -> Item]
    /\ start \in Slot /\ finish \in Slot
    /\ exog_mutex \in {Nobody, Exec, Terminator}
    /\ queue_empty_mutex \in {Nobody, Exec}
    /\ wait_mutex \in {Nobody, Exec}
    /\ waiting \in BOOLEAN /\ timed \in BOOLEAN /\ terminated \in BOOLEAN
    /\ pc \in [Thread -> Label]
    /\ reg \in [Thread -> Slot]
    /\ pushed \in [Producer -> 0..MaxPush]
    /\ popped \in Seq(Event \cup {Null})

PoppedBy(p) == {i \in DOMAIN popped : popped[i].by = p}

(* With a single producer the unlocked pushes do no harm: Exec pops its events
   in the order they were pushed, each of them once, and never raw memory. *)
ProducerOrder ==
    /\ \A i \in DOMAIN popped : popped[i] # Null
    /\ \A p \in Producer :
        /\ Cardinality(PoppedBy(p)) <= pushed[p]
        /\ \A i \in PoppedBy(p) :
            popped[i].n = Cardinality({j \in PoppedBy(p) : j <= i})

(* A push is complete when the cursor has moved, whoever is still to be notified;
   events are in their cells from the number of those that were popped.  *)
Sent(p) == IF pc[p] \in {"push", "place", "advance"} THEN pushed[p] - 1 ELSE pushed[p]
UnderWay == [i \in 1..finish - Len(popped) |-> cell[Len(popped) + i - 1]]

Channel ==
    INSTANCE EventChannel WITH
        sent <- [p \in Producer |-> Sent(p)], under_way <- UnderWay, received <- popped

(* With a single producer the cells, the cursors and the steps of pushes and pops
   that no lock keeps apart are a channel: each step sends one event, receives
   the oldest one, or is not seen, although clock events come in front. *)
ImplementsChannel == Channel!ChannelSpec

(* Once terminate has returned the execution thread is not, and will not be,
   blocked on the queue (controller.cpp:135). *)
TerminateWaits ==
    pc[Terminator] = "returned" => pc[Exec] \notin {"sleep", "asleep"}

(* No wakeup is lost between a push and the predicate of the wait: an event
   that was pushed is popped unless the execution thread ends. *)
PushWakes ==
    \A p \in Producer : \A n \in 1..MaxPush :
        (pushed[p] = n /\ pc[p] = "signal") ~>
            (Cardinality(PoppedBy(p)) >= n \/ pc[Exec] = "end")

(* terminate notifies between the predicate and an untimed wait of the execution
   thread, which then waits for good, and terminate for wait_mutex_. *)
NotificationLost ==
    /\ pc[Terminator] = "notify" /\ pc[Exec] = "sleep" /\ ~timed
    /\ <>[](pc[Terminator] = "settle" /\ pc[Exec] = "asleep" /\ waiting)

(* terminate returns, and the execution thread ends, whatever it and those who
   push are doing, unless the notification is lost (controller.cpp:128-136). *)
TerminateReturnsIfNotified ==
    pc[Terminator] = "flag" ~>
        \/ pc[Terminator] = "returned" /\ pc[Exec] = "end"
        \/ NotificationLost

-----------------------------------------------------------------------------
(* What the code says of itself and does not do.                             *)

(* boilerplate.pl:211-212: finish(A) waits until state(A) is final, which only
   the activity's event makes it: an event whose push is complete is either in
   the queue or was popped. *)
NothingLost ==
    \A p \in Producer : \A n \in 1..pushed[p] :
        (n < pushed[p] \/ pc[p] \in {"start", "signal", "notify"}) =>
            \/ \E i \in DOMAIN popped : popped[i] = [by |-> p, n |-> n]
            \/ \E s \in start..(finish - 1) : cell[s] = [by |-> p, n |-> n]

=============================================================================
