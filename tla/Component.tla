----------------------------- MODULE Component -----------------------------
(***************************************************************************)
(* Platform components: the state the model holds of each                  *)
(* (model/platform/component.cpp), the backends that change it             *)
(* exogenously (component_backend.cpp), the plan elements that switch it   *)
(* (switch_state_action.cpp), the loop that executes them and notices      *)
(* exogenous changes (execution/controller.cpp), and terminate().          *)
(*                                                                         *)
(* A step is what runs under one lock or reads shared state without one.   *)
(* A lock is a variable where it is held over several steps: a component's *)
(* mutex while the execution thread switches its state, a dummy backend's  *)
(* request_mutex_ while its thread reports a change, exog_mutex_ while     *)
(* terminate() runs.  wait_mutex_ and queue_empty_mutex_ are read off the  *)
(* place of the execution thread.  The deque behind exog_mutex_ is module  *)
(* ExogQueue; here the queue is empty or not.  Time is a choice.           *)
(***************************************************************************)
EXTENDS Naturals

CONSTANTS
    Dummy,      \* components with a DummyComponentBackend
    Real,       \* components with a registered backend, which may report any state
    State,      \* their declared states and "error"
    initial,    \* the first declared state
    Internal,   \* Transition: pairs of states the program switches
    Exog,       \* ExogTransition: pairs of states the backend switches
    Exec, Terminator, Nobody

Component == Dummy \cup Real

ASSUME ComponentAssumption ==
    /\ Dummy \cap Real = {}
    /\ {Exec, Terminator, Nobody} \cap Component = {}
    /\ Exec # Terminator /\ Exec # Nobody /\ Terminator # Nobody
ASSUME StateAssumption ==
    /\ {"error", initial} \subseteq State
    /\ "none" \notin State
    /\ Internal \subseteq State \X State
    /\ Exog \subseteq State \X State

VARIABLES
    current, expected,  \* Component::current_state_, expected_state_
    requested,          \* DummyComponentBackend::requested_state_, or "none"
    component_mutex,    \* Exec while it is in Component::switch_state
    request_mutex,      \* a dummy backend's thread while it reports
    exog_mutex,         \* Terminator while it is in terminate()
    event,              \* whether exog_queue_ is not empty
    terminated,         \* AExecutionController::terminated
    stopped, finished,  \* the component backends terminate() has flagged, has left
    element,            \* the first element of the plan
    reg,                \* the component and the state any_component_state_changed_exog read
    target,             \* target[c]: the state backend c is about to report
    pc

model == <<current, expected>>
mutexes == <<component_mutex, request_mutex, exog_mutex>>
flags == <<event, terminated, stopped, finished>>
vars == <<model, requested, mutexes, flags, element, reg, target, pc>>

(* A plan element that switches no component. *)
OtherElement == [component |-> Nobody, from |-> "none", to |-> "none"]
Element ==
    [component : Component, from : State, to : State] \cup {OtherElement}

Thread == Component \cup {Exec, Terminator}

ExecLabel ==
    {"top", "drain", "notice", "reset", "execute", "switch", "cancel", "commit", "request",
     "block", "timed", "timeout", "missed", "missed_cancel", "redrain", "renotice", "rereset",
     "idle", "unblock", "drain_idle", "end", "stopped"}
BackendLabel == {"loop", "delay", "check", "report", "push", "notify", "done", "gone"}
WaitLabel == {"predicate", "unnotified", "asleep"}     \* an untimed wait
TerminatorLabel == {"start", "backends", "notify", "settle", "returned"}

NoRegister == [component |-> Nobody, state |-> initial]

Goto(t, l) == pc' = [pc EXCEPT ![t] = l]

(* Where a notification takes t: it is lost unless t waits. *)
Notified(t) == IF pc[t] = "asleep" THEN "predicate" ELSE pc[t]

Init ==
    /\ current = [c \in Component |-> initial]
    /\ expected = [c \in Component |-> initial]
    /\ requested = [c \in Component |-> "none"]
    /\ component_mutex = [c \in Component |-> Nobody]
    /\ request_mutex = [c \in Component |-> Nobody]
    /\ exog_mutex = Nobody
    /\ event = FALSE /\ terminated = FALSE /\ stopped = {} /\ finished = {}
    /\ element \in Element
    /\ reg = NoRegister
    /\ target = [c \in Component |-> "none"]
    /\ pc = [t \in Thread |->
                IF t = Exec THEN "top" ELSE IF t = Terminator THEN "start" ELSE "loop"]

-----------------------------------------------------------------------------
(* Component and its backend, as both threads use them.                      *)

set_current_state(c, s) ==
    /\ component_mutex[c] = Nobody
    /\ current' = [current EXCEPT ![c] = s]
    /\ expected' = [expected EXCEPT ![c] = s]

set_current_state_exog(c, s) ==
    /\ component_mutex[c] = Nobody
    /\ current' = [current EXCEPT ![c] = s]
    /\ UNCHANGED expected

(* request_delay_.notify_all: a backend in its delay loses it as if woken
   spuriously, see Delay. *)
request_cancel(c) ==
    /\ request_mutex[c] = Nobody
    /\ requested' = [requested EXCEPT ![c] = "none"]

-----------------------------------------------------------------------------
(* run(): the head of the loop.                                              *)

Top ==
    /\ pc[Exec] = "top"
    /\ Goto(Exec, IF terminated THEN "end" ELSE "drain")
    /\ UNCHANGED <<model, requested, mutexes, flags, element, reg, target>>

(* exog_empty and drain_exog_queue: switch events change nothing any more. *)
DrainExogQueue ==
    /\ pc[Exec] = "drain"
    /\ exog_mutex = Nobody
    /\ event' = FALSE
    /\ Goto(Exec, IF event THEN "notice" ELSE "execute")
    /\ UNCHANGED <<model, requested, mutexes, terminated, stopped, finished, element, reg, target>>

Changed == {c \in Component : expected[c] # current[c]}

(* Mutant: the state that was expected is restored. *)
Notice_Expected(at, write, then) ==
    /\ pc[Exec] = at
    /\ \/ Changed = {} /\ Goto(Exec, then) /\ UNCHANGED reg
       \/ \E c \in Changed :
            /\ reg' = [component |-> c, state |-> expected[c]]
            /\ Goto(Exec, write)
    /\ UNCHANGED <<model, requested, mutexes, flags, element, target>>

(* any_component_state_changed_exog looks at expected_state_ and current_state_
   without a lock and stops at the first component that changed; the order of
   the map is unspecified.  It then sets the state it has read. *)
Notice(at, write, then) ==
    /\ pc[Exec] = at
    /\ \/ Changed = {} /\ Goto(Exec, then) /\ UNCHANGED reg
       \/ \E c \in Changed :
            /\ reg' = [component |-> c, state |-> current[c]]
            /\ Goto(Exec, write)
    /\ UNCHANGED <<model, requested, mutexes, flags, element, target>>

(* The plan is transformed again: another first element. *)
Reset(at, then) ==
    /\ pc[Exec] = at
    /\ set_current_state(reg.component, reg.state)
    /\ element' \in Element
    /\ reg' = NoRegister
    /\ Goto(Exec, then)
    /\ UNCHANGED <<requested, mutexes, flags, target>>

-----------------------------------------------------------------------------
(* run(): the first element.                                                 *)

InternalElement ==
    element # OtherElement /\ <<element.from, element.to>> \in Internal
ExogElement ==
    element # OtherElement /\ ~InternalElement /\ <<element.from, element.to>> \in Exog

(* Its time window is not open, or it is not executable. *)
Postpone ==
    /\ pc[Exec] = "execute"
    /\ Goto(Exec, "block")
    /\ UNCHANGED <<model, requested, mutexes, flags, element, reg, target>>

(* The next element, of this plan or of a new one; in between the program may
   have no transition but wait for an event. *)
NextElement ==
    /\ element' \in Element
    /\ \/ Goto(Exec, "top")
       \/ Goto(Exec, "idle")

(* An exogenous transition has happened, or another element is executed. *)
Executed ==
    /\ pc[Exec] = "execute"
    /\ \/ element = OtherElement
       \/ ExogElement /\ current[element.component] = element.to
    /\ NextElement
    /\ UNCHANGED <<model, requested, mutexes, flags, reg, target>>

BeginRequest ==
    /\ pc[Exec] = "execute"
    /\ ExogElement
    /\ current[element.component] # element.to
    /\ Goto(Exec, IF element.component \in Dummy THEN "request" ELSE "block")
    /\ UNCHANGED <<model, requested, mutexes, flags, element, reg, target>>

request_state_change ==
    LET c == element.component
    IN  /\ pc[Exec] = "request"
        /\ request_mutex[c] = Nobody
        /\ requested' = [requested EXCEPT ![c] = element.to]
        /\ pc' = [pc EXCEPT ![Exec] = "block", ![c] = Notified(c)]
        /\ UNCHANGED <<model, mutexes, flags, element, reg, target>>

BeginSwitch ==
    /\ pc[Exec] = "execute"
    /\ InternalElement
    /\ Goto(Exec, "switch")
    /\ UNCHANGED <<model, requested, mutexes, flags, element, reg, target>>

(* Mutant: the transition is looked up before the component is locked. *)
switch_state_NoLock ==
    LET c == element.component
    IN  /\ pc[Exec] = "switch"
        /\ Goto(Exec, IF <<current[c], element.to>> \in Internal THEN "cancel" ELSE "stopped")
        /\ UNCHANGED <<model, requested, mutexes, flags, element, reg, target>>

(* switch_state locks the component.  A ComponentError ends run(). *)
switch_state ==
    LET c == element.component
    IN  /\ pc[Exec] = "switch"
        /\ component_mutex[c] = Nobody
        /\ \/ /\ <<current[c], element.to>> \in Internal
              /\ component_mutex' = [component_mutex EXCEPT ![c] = Exec]
              /\ Goto(Exec, "cancel")
           \/ /\ <<current[c], element.to>> \notin Internal
              /\ Goto(Exec, "stopped")
              /\ UNCHANGED component_mutex
        /\ UNCHANGED <<model, requested, request_mutex, exog_mutex, flags, element, reg,
                       target>>

(* The backend's switch_state. *)
CancelBeforeSwitch ==
    LET c == element.component
    IN  /\ pc[Exec] = "cancel"
        /\ IF c \in Dummy THEN request_cancel(c) ELSE UNCHANGED requested
        /\ Goto(Exec, "commit")
        /\ UNCHANGED <<model, mutexes, flags, element, reg, target>>

(* The mutex is recursive: Exec holds it. *)
CommitSwitch ==
    LET c == element.component
    IN  /\ pc[Exec] = "commit"
        /\ current' = [current EXCEPT ![c] = element.to]
        /\ expected' = [expected EXCEPT ![c] = element.to]
        /\ component_mutex' = [component_mutex EXCEPT ![c] = Nobody]
        /\ NextElement
        /\ UNCHANGED <<requested, request_mutex, exog_mutex, flags, reg, target>>

-----------------------------------------------------------------------------
(* run(): waiting.                                                           *)

(* exog_queue_block takes wait_mutex_. *)
Block(at, wait) ==
    /\ pc[Exec] = at
    /\ Goto(Exec, wait)
    /\ UNCHANGED <<model, requested, mutexes, flags, element, reg, target>>

(* The wait with the plan's next timeout is over, for whatever reason. *)
TimedWait ==
    /\ pc[Exec] = "timed"
    /\ \/ terminated /\ Goto(Exec, "end")
       \/ ~terminated /\ event /\ Goto(Exec, "redrain")
       \/ ~terminated /\ ~event /\ Goto(Exec, "timeout")
    /\ UNCHANGED <<model, requested, mutexes, flags, element, reg, target>>

(* exog_timer_wakeup; a switch the program waited for is given up. *)
TimerWakeup ==
    /\ pc[Exec] = "timeout"
    /\ exog_mutex = Nobody
    /\ event' = TRUE
    /\ Goto(Exec, IF element = OtherElement THEN "redrain" ELSE "missed")
    /\ UNCHANGED <<model, requested, mutexes, terminated, stopped, finished, element, reg, target>>

(* handle_missed_transition, in two steps with a dummy backend. *)
MissedTransition ==
    LET c == element.component
    IN  /\ pc[Exec] = "missed"
        /\ set_current_state(c, "error")
        /\ Goto(Exec, IF c \in Dummy THEN "missed_cancel" ELSE "redrain")
        /\ UNCHANGED <<requested, mutexes, flags, element, reg, target>>

CancelMissed ==
    /\ pc[Exec] = "missed_cancel"
    /\ request_cancel(element.component)
    /\ Goto(Exec, "redrain")
    /\ UNCHANGED <<model, mutexes, flags, element, reg, target>>

Redrain ==
    /\ pc[Exec] = "redrain"
    /\ exog_mutex = Nobody
    /\ event' = FALSE
    /\ Goto(Exec, "renotice")
    /\ UNCHANGED <<model, requested, mutexes, terminated, stopped, finished, element, reg, target>>

(* The first element's latest time has passed: components are not looked at. *)
TooLate ==
    /\ pc[Exec] = "renotice"
    /\ element' \in Element
    /\ Goto(Exec, "top")
    /\ UNCHANGED <<model, requested, mutexes, flags, reg, target>>

(* Mutant: a program without a plan is not told to terminate. *)
Condition_NotTerminated ==
    /\ pc[Exec] = "predicate"
    /\ Goto(Exec, IF event THEN "unblock" ELSE "unnotified")
    /\ UNCHANGED <<model, requested, mutexes, flags, element, reg, target>>

(* There is no plan and no timeout.  The predicate of the wait is evaluated under
   queue_empty_mutex_, which pushes take to notify and terminate does not. *)
Condition ==
    /\ pc[Exec] = "predicate"
    /\ Goto(Exec, IF terminated \/ event THEN "unblock" ELSE "unnotified")
    /\ UNCHANGED <<model, requested, mutexes, flags, element, reg, target>>

Unblock ==
    /\ pc[Exec] = "unblock"
    /\ Goto(Exec, IF terminated THEN "end" ELSE "drain_idle")
    /\ UNCHANGED <<model, requested, mutexes, flags, element, reg, target>>

(* Nobody looks at the components. *)
DrainIdle ==
    /\ pc[Exec] = "drain_idle"
    /\ exog_mutex = Nobody
    /\ event' = FALSE
    /\ NextElement
    /\ UNCHANGED <<model, requested, mutexes, terminated, stopped, finished, reg, target>>

(* A thread that found no reason to go on waits until it is notified ... *)
Sleep(t) ==
    /\ pc[t] = "unnotified"
    /\ Goto(t, "asleep")
    /\ UNCHANGED <<model, requested, mutexes, flags, element, reg, target>>

(* ... or wakes up without being notified. *)
SpuriousWakeup(t) ==
    /\ pc[t] = "asleep"
    /\ Goto(t, "predicate")
    /\ UNCHANGED <<model, requested, mutexes, flags, element, reg, target>>

ExecStep ==
    \/ Top \/ DrainExogQueue \/ Notice("notice", "reset", "execute") \/ Reset("reset", "execute")
    \/ Postpone \/ Executed \/ BeginRequest \/ request_state_change
    \/ BeginSwitch \/ switch_state \/ CancelBeforeSwitch \/ CommitSwitch
    \/ Block("block", "timed") \/ TimedWait \/ TimerWakeup \/ MissedTransition
    \/ CancelMissed \/ Redrain \/ TooLate
    \/ Notice("renotice", "rereset", "top") \/ Reset("rereset", "top")
    \/ Block("idle", "predicate") \/ Condition \/ Sleep(Exec) \/ Unblock \/ DrainIdle

-----------------------------------------------------------------------------
(* The thread of a dummy backend, exog_state_changer.                        *)

Loop(c) ==
    /\ pc[c] = "loop"
    /\ Goto(c, IF c \in stopped THEN "gone" ELSE "predicate")
    /\ UNCHANGED <<model, requested, mutexes, flags, element, reg, target>>

(* The predicate of the wait, under request_mutex_; nobody who notifies holds
   the mutex of the wait, so a notification may come before the wait. *)
Predicate(c) ==
    /\ pc[c] = "predicate"
    /\ request_mutex[c] = Nobody
    /\ Goto(c, IF requested[c] # "none" THEN "delay"
               ELSE IF c \in stopped THEN "loop" ELSE "unnotified")
    /\ UNCHANGED <<model, requested, mutexes, flags, element, reg, target>>

(* The delay times out, or is cut short by a notification or for no reason. *)
Delay(c) ==
    /\ pc[c] = "delay"
    /\ pc' \in {[pc EXCEPT ![c] = l] : l \in {"check", "loop"}}
    /\ UNCHANGED <<model, requested, mutexes, flags, element, reg, target>>

(* Mutant: what was requested before the delay is reported unseen. *)
CheckRequest_Unlocked(c) ==
    /\ pc[c] = "check"
    /\ requested[c] # "none"
    /\ target' = [target EXCEPT ![c] = requested[c]]
    /\ Goto(c, "report")
    /\ UNCHANGED <<model, requested, mutexes, flags, element, reg>>

(* Mutant: the request is not looked at again after the delay. *)
CheckRequest_Once(c) ==
    /\ pc[c] = "check"
    /\ request_mutex[c] = Nobody
    /\ request_mutex' = [request_mutex EXCEPT ![c] = c]
    /\ target' = [target EXCEPT ![c] = requested[c]]
    /\ Goto(c, "report")
    /\ UNCHANGED <<model, requested, component_mutex, exog_mutex, flags, element, reg>>

(* The request is looked at again, and request_mutex_ kept until the report is
   complete. *)
CheckRequest(c) ==
    /\ pc[c] = "check"
    /\ request_mutex[c] = Nobody
    /\ \/ requested[c] = "none" /\ Goto(c, "loop") /\ UNCHANGED <<request_mutex, target>>
       \/ /\ requested[c] # "none"
          /\ request_mutex' = [request_mutex EXCEPT ![c] = c]
          /\ target' = [target EXCEPT ![c] = requested[c]]
          /\ Goto(c, "report")
    /\ UNCHANGED <<model, requested, component_mutex, exog_mutex, flags, element, reg>>

ResetRequest(c) ==
    /\ pc[c] = "done"
    /\ requested' = [requested EXCEPT ![c] = "none"]
    /\ request_mutex' = [request_mutex EXCEPT ![c] = Nobody]
    /\ Goto(c, "loop")
    /\ UNCHANGED <<model, component_mutex, exog_mutex, flags, element, reg, target>>

(* A real backend reports what it has observed. *)
Observe(c) ==
    /\ pc[c] = "loop"
    /\ \E s \in State : target' = [target EXCEPT ![c] = s]
    /\ Goto(c, "report")
    /\ UNCHANGED <<model, requested, mutexes, flags, element, reg>>

(* exog_state_change: a breach of the model is only logged. *)
exog_state_change(c) ==
    /\ pc[c] = "report"
    /\ set_current_state_exog(c, target[c])
    /\ target' = [target EXCEPT ![c] = "none"]
    /\ Goto(c, "push")
    /\ UNCHANGED <<requested, mutexes, flags, element, reg>>

(* exog_queue_push.  The unnamed lock_guard of exog_mutex_ is passed ... *)
PassExogMutex(c) ==
    /\ pc[c] = "push"
    /\ exog_mutex = Nobody
    /\ Goto(c, "notify")
    /\ UNCHANGED <<model, requested, mutexes, flags, element, reg, target>>

(* ... and the event pushed and notified, when the wait's mutex is free. *)
QueueEmptyMutexFree == pc[Exec] \notin {"predicate", "unnotified"}

PushEvent(c) ==
    /\ pc[c] = "notify"
    /\ QueueEmptyMutexFree
    /\ event' = TRUE
    /\ pc' = [pc EXCEPT ![Exec] = Notified(Exec),
                        ![c] = IF c \in Dummy THEN "done" ELSE "loop"]
    /\ UNCHANGED <<model, requested, mutexes, terminated, stopped, finished, element, reg, target>>

(* An activity, a timer or the generator of exogenous actions, which has passed
   exog_mutex_ before, pushes an event. *)
OtherEvent ==
    /\ QueueEmptyMutexFree
    /\ ~event
    /\ event' = TRUE
    /\ Goto(Exec, Notified(Exec))
    /\ UNCHANGED <<model, requested, mutexes, terminated, stopped, finished, element, reg,
                   target>>

Report(c) == exog_state_change(c) \/ PassExogMutex(c) \/ PushEvent(c)

DummyStep(c) ==
    \/ Loop(c) \/ Predicate(c) \/ Sleep(c) \/ Delay(c) \/ CheckRequest(c) \/ Report(c)
    \/ ResetRequest(c)

-----------------------------------------------------------------------------
(* terminate().                                                              *)

BeginTerminate ==
    /\ pc[Terminator] = "start"
    /\ exog_mutex = Nobody
    /\ exog_mutex' = Terminator
    /\ Goto(Terminator, "backends")
    /\ UNCHANGED <<model, requested, component_mutex, request_mutex, flags, element, reg,
                   target>>

(* ComponentBackend::terminate flags a backend ... *)
FlagBackend(c) ==
    /\ pc[Terminator] = "backends"
    /\ c \notin stopped
    /\ stopped = finished
    /\ stopped' = stopped \cup {c}
    /\ UNCHANGED <<model, requested, mutexes, event, terminated, finished, element, reg,
                   target, pc>>

(* ... and calls terminate_: a dummy cancels the request and wakes its thread. *)
FinishBackend(c) ==
    /\ pc[Terminator] = "backends"
    /\ c \in stopped \ finished
    /\ finished' = finished \cup {c}
    /\ IF c \in Dummy
       THEN /\ request_cancel(c)
            /\ Goto(c, Notified(c))
       ELSE UNCHANGED <<requested, pc>>
    /\ UNCHANGED <<model, mutexes, event, terminated, stopped, element, reg, target>>

SetTerminated ==
    /\ pc[Terminator] = "backends"
    /\ finished = Component
    /\ terminated' = TRUE
    /\ Goto(Terminator, "notify")
    /\ UNCHANGED <<model, requested, mutexes, event, stopped, finished, element, reg, target>>

(* Without queue_empty_mutex_: the execution thread may be on its way to wait. *)
NotifyExec ==
    /\ pc[Terminator] = "notify"
    /\ pc' = [pc EXCEPT ![Terminator] = "settle", ![Exec] = Notified(Exec)]
    /\ UNCHANGED <<model, requested, mutexes, flags, element, reg, target>>

(* wait_mutex_ is free once the execution thread has left the queue's wait. *)
TerminateReturn ==
    /\ pc[Terminator] = "settle"
    /\ pc[Exec] \notin WaitLabel \cup {"timed"}
    /\ exog_mutex' = Nobody
    /\ Goto(Terminator, "returned")
    /\ UNCHANGED <<model, requested, component_mutex, request_mutex, flags, element, reg,
                   target>>

TerminateStep ==
    \/ \E c \in Component : FlagBackend(c) \/ FinishBackend(c)
    \/ SetTerminated \/ NotifyExec \/ TerminateReturn

-----------------------------------------------------------------------------
Next ==
    \/ ExecStep
    \/ SpuriousWakeup(Exec)
    \/ \E c \in Dummy : DummyStep(c) \/ SpuriousWakeup(c)
    \/ \E c \in Real : Observe(c) \/ Report(c)
    \/ OtherEvent
    \/ BeginTerminate
    \/ TerminateStep

Spec == Init /\ [][Next]_vars

(* Threads are scheduled; terminate is called once, at any time or never. *)
FairSpec ==
    /\ Spec
    /\ WF_vars(ExecStep)
    /\ WF_vars(TerminateStep)
    /\ \A c \in Dummy : WF_vars(DummyStep(c))
    /\ \A c \in Real : WF_vars(Report(c))

-----------------------------------------------------------------------------
TypeOK ==
    /\ current \in [Component -> State] /\ expected \in [Component -> State]
    /\ requested \in [Component -> State \cup {"none"}]
    /\ component_mutex \in [Component -> {Nobody, Exec}]
    /\ request_mutex \in [Component -> Component \cup {Nobody}]
    /\ exog_mutex \in {Nobody, Terminator}
    /\ event \in BOOLEAN /\ terminated \in BOOLEAN
    /\ finished \subseteq stopped /\ stopped \subseteq Component
    /\ element \in Element
    /\ reg \in [component : Component \cup {Nobody}, state : State]
    /\ target \in [Component -> State \cup {"none"}]
    /\ pc \in [Thread -> ExecLabel \cup BackendLabel \cup WaitLabel \cup TerminatorLabel]

(* A program switches a component only by a transition the component declares
   from the state it is in at that moment: no report of its backend comes in
   between the look-up of the transition and the switch. *)
SwitchIsDeclared ==
    [][CommitSwitch => <<current[element.component], element.to>> \in Internal]_vars

(* A dummy backend switches to a state only while that very state is requested
   of it: a request that was cancelled or replaced during the delay is not
   reported any more. *)
ReportIsRequested ==
    [][\A c \in Dummy : exog_state_change(c) => target[c] = requested[c]]_vars

(* Noticing a change undoes no report whose event the loop has drained, although
   the state is read without the component's mutex and written back under it
   later (platform_backend.cpp:193-194).  A report that comes in between may be
   taken back, and then its event, still to be drained, finds nothing changed: the
   model of the component is wrong until the backend reports again. *)
NoticeKeepsDrained ==
    [][Reset("reset", "execute") \/ Reset("rereset", "top")
        => current' = current \/ event \/ pc[reg.component] \in {"push", "notify"}]_vars

(* terminate notifies between the predicate and the wait of the execution thread,
   which then waits for good, and terminate for wait_mutex_. *)
NotificationLost ==
    /\ pc[Terminator] = "notify" /\ pc[Exec] = "unnotified"
    /\ <>[](pc[Terminator] = "settle" /\ pc[Exec] = "asleep")

(* terminate returns, and the execution thread ends, unless the notification is
   lost (controller.cpp:128-136): no report, switch, timeout or wait that is under
   way keeps either of them. *)
TerminateReturnsIfNotified ==
    pc[Terminator] = "backends" ~>
        \/ pc[Terminator] = "returned" /\ pc[Exec] \in {"end", "stopped"}
        \/ NotificationLost

-----------------------------------------------------------------------------
(* What the code says of itself and does not do.                             *)

(* component_backend.cpp:152: "Check again because we may have caused a timeout
   that took us to the error state instead": a dummy backend's switch does not
   take the component out of the error state of a missed transition. *)
MissedStaysInError ==
    [][\A c \in Dummy :
        exog_state_change(c) /\ pc[Exec] = "missed_cancel" /\ element.component = c
            => current[c] # "error"]_vars
=============================================================================
