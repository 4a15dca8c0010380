-------------------------- MODULE Component_proofs --------------------------
(***************************************************************************)
(* What the locks of a component and of its dummy backend protect, for any *)
(* components, states and transitions, and what they do not.  The          *)
(* execution thread keeps the component's mutex from the look-up of a      *)
(* transition to the switch; a dummy backend's thread keeps request_mutex_ *)
(* from the look at the request to its reset; nobody keeps a lock between  *)
(* the read of a changed state and its write.                              *)
(***************************************************************************)
EXTENDS Component, TLAPS

Label == ExecLabel \cup BackendLabel \cup WaitLabel \cup TerminatorLabel

(* In switch_state the component is locked and the transition declared. *)
SwitchLocked ==
    pc[Exec] \in {"cancel", "commit"} =>
        /\ element.component \in Component
        /\ component_mutex[element.component] = Exec
        /\ <<current[element.component], element.to>> \in Internal

SwitchElement == pc[Exec] = "switch" => InternalElement

(* From CheckRequest to ResetRequest the request is locked. *)
ReportLocked ==
    /\ \A c \in Component : pc[c] = "report" => target[c] \in State
    /\ \A c \in Dummy :
        /\ pc[c] \in {"report", "push", "notify", "done"} => request_mutex[c] = c
        /\ pc[c] = "report" => target[c] = requested[c]

(* A component changes while its state is carried from the read to the write only
   by a report whose event is not yet drained: nothing is drained in between. *)
CarriedOrReported ==
    pc[Exec] \in {"reset", "rereset"} =>
        /\ reg.component \in Component
        /\ \/ current[reg.component] = reg.state
           \/ event
           \/ pc[reg.component] \in {"push", "notify"}

IInv == TypeOK /\ SwitchLocked /\ SwitchElement /\ ReportLocked /\ CarriedOrReported

LEMMA Threads ==
    /\ Exec \in Thread /\ Terminator \in Thread /\ Component \subseteq Thread
    /\ Exec \notin Component /\ Terminator \notin Component /\ Nobody \notin Component
    /\ Exec # Terminator /\ Exec # Nobody
    /\ Dummy \subseteq Component /\ Real \subseteq Component /\ Dummy \cap Real = {}
BY ComponentAssumption DEF Thread, Component

LEMMA InitIInv == Init => IInv
<1> SUFFICES ASSUME Init PROVE IInv
  OBVIOUS
<1> USE Threads, StateAssumption DEF Init
<1>1. TypeOK
  BY DEF TypeOK, NoRegister, ExecLabel, BackendLabel, WaitLabel, TerminatorLabel
<1>2. SwitchLocked /\ SwitchElement
  BY DEF SwitchLocked, SwitchElement
<1>3. ReportLocked /\ CarriedOrReported
  BY DEF ReportLocked, CarriedOrReported
<1> QED
  BY <1>1, <1>2, <1>3 DEF IInv

-----------------------------------------------------------------------------
(* The steps of the execution thread leave the places of the backends alone,
   but for waking one. *)
LEMMA ExecIInv == IInv /\ ExecStep => IInv'
<1> SUFFICES ASSUME IInv, ExecStep PROVE IInv'
  OBVIOUS
<1> USE Threads, StateAssumption
    DEF IInv, TypeOK, SwitchLocked, SwitchElement, ReportLocked, CarriedOrReported, Goto,
        Notified, model, mutexes, flags, ExecLabel, BackendLabel, WaitLabel, TerminatorLabel
<1>1. CASE Top
  BY <1>1 DEF Top, InternalElement
<1>2. CASE DrainExogQueue
  BY <1>2 DEF DrainExogQueue, InternalElement
<1>3. CASE \/ Notice("notice", "reset", "execute")
           \/ Notice("renotice", "rereset", "top")
  <2>1. Changed \subseteq Component
    BY DEF Changed
  <2> QED
    BY <1>3, <2>1 DEF Notice, InternalElement
<1>4. CASE Reset("reset", "execute") \/ Reset("rereset", "top")
  BY <1>4 DEF Reset, set_current_state, NoRegister
<1>5. CASE Postpone \/ BeginRequest
  BY <1>5 DEF Postpone, BeginRequest
<1>6. CASE Executed
  BY <1>6 DEF Executed, NextElement
<1>7. CASE request_state_change
  <2>1. element.to \in State \cup {"none"}
    BY DEF Element, OtherElement
  <2>2. TypeOK'
    BY <1>7, <2>1 DEF request_state_change
  <2>3. SwitchLocked' /\ SwitchElement'
    BY <1>7, <2>2 DEF request_state_change
  <2>4. ReportLocked'
    BY <1>7 DEF request_state_change
  <2>5. CarriedOrReported'
    BY <1>7 DEF request_state_change
  <2> QED
    BY <2>2, <2>3, <2>4, <2>5
<1>8. CASE BeginSwitch
  BY <1>8 DEF BeginSwitch, InternalElement
<1>9. CASE switch_state
  BY <1>9 DEF switch_state, InternalElement, Element, OtherElement
<1>10. CASE CancelBeforeSwitch
  BY <1>10 DEF CancelBeforeSwitch, request_cancel
<1>11. CASE CommitSwitch
  BY <1>11 DEF CommitSwitch, NextElement
<1>12. CASE Block("block", "timed") \/ Block("idle", "predicate") \/ TimedWait
  BY <1>12 DEF Block, TimedWait
<1>17. CASE TimerWakeup
  BY <1>17 DEF TimerWakeup
<1>18. CASE Redrain
  BY <1>18 DEF Redrain
<1>13. CASE MissedTransition
  BY <1>13 DEF MissedTransition, set_current_state
<1>14. CASE CancelMissed
  BY <1>14 DEF CancelMissed, request_cancel
<1>15. CASE TooLate
  BY <1>15 DEF TooLate
<1>16. CASE Condition \/ Sleep(Exec) \/ Unblock
  BY <1>16 DEF Condition, Sleep, Unblock
<1>19. CASE DrainIdle
  <2>1. /\ pc[Exec] = "drain_idle" /\ event' = FALSE /\ element' \in Element
        /\ Goto(Exec, "top") \/ Goto(Exec, "idle")
        /\ UNCHANGED <<model, requested, mutexes, terminated, stopped, finished, reg, target>>
    BY <1>19 DEF DrainIdle, NextElement
  <2>2. pc' \in {[pc EXCEPT ![Exec] = l] : l \in {"top", "idle"}}
    BY <2>1
  <2>3. TypeOK'
    BY <2>1, <2>2
  <2>4. SwitchLocked' /\ SwitchElement' /\ CarriedOrReported'
    BY <2>2
  <2>5. ReportLocked'
    BY <2>1, <2>2
  <2> QED
    BY <2>3, <2>4, <2>5
<1> QED
  BY <1>1, <1>2, <1>3, <1>4, <1>5, <1>6, <1>7, <1>8, <1>9, <1>10, <1>11, <1>12, <1>13,
     <1>14, <1>15, <1>16, <1>17, <1>18, <1>19 DEF ExecStep

(* A backend changes a state only while its component is not locked. *)
LEMMA BackendIInv ==
    ASSUME NEW c \in Component, IInv,
           \/ c \in Dummy /\ (DummyStep(c) \/ SpuriousWakeup(c))
           \/ c \in Real /\ (Observe(c) \/ Report(c))
    PROVE  IInv'
<1> USE Threads, StateAssumption
    DEF IInv, TypeOK, SwitchLocked, SwitchElement, ReportLocked, CarriedOrReported, Goto,
        Notified, model, mutexes, flags, ExecLabel, BackendLabel, WaitLabel, TerminatorLabel
<1>1. CASE Loop(c) \/ Predicate(c) \/ Sleep(c) \/ SpuriousWakeup(c)
  BY <1>1 DEF Loop, Predicate, Sleep, SpuriousWakeup, InternalElement
<1>2. CASE Delay(c)
  BY <1>2 DEF Delay, InternalElement
<1>3. CASE c \in Dummy /\ CheckRequest(c)
  BY <1>3 DEF CheckRequest, InternalElement
<1>4. CASE c \in Dummy /\ ResetRequest(c)
  BY <1>4 DEF ResetRequest, InternalElement
<1>5. CASE c \in Real /\ Observe(c)
  BY <1>5 DEF Observe, InternalElement
<1>6. CASE exog_state_change(c)
  BY <1>6 DEF exog_state_change, set_current_state_exog, InternalElement
<1>7. CASE PassExogMutex(c)
  BY <1>7 DEF PassExogMutex, InternalElement
<1>8. CASE PushEvent(c)
  BY <1>8 DEF PushEvent, InternalElement
<1> QED
  BY <1>1, <1>2, <1>3, <1>4, <1>5, <1>6, <1>7, <1>8 DEF DummyStep, Report

LEMMA OtherIInv ==
    IInv /\ (SpuriousWakeup(Exec) \/ OtherEvent \/ BeginTerminate \/ TerminateStep) => IInv'
<1> SUFFICES ASSUME IInv, SpuriousWakeup(Exec) \/ OtherEvent \/ BeginTerminate \/ TerminateStep
             PROVE  IInv'
  OBVIOUS
<1> USE Threads, StateAssumption
    DEF IInv, TypeOK, SwitchLocked, SwitchElement, ReportLocked, CarriedOrReported, Goto,
        Notified, model, mutexes, flags, ExecLabel, BackendLabel, WaitLabel, TerminatorLabel
<1>1. CASE OtherEvent
  BY <1>1 DEF OtherEvent, InternalElement
<1>2. CASE BeginTerminate
  BY <1>2 DEF BeginTerminate, InternalElement
<1>3. ASSUME NEW c \in Component, FlagBackend(c) PROVE IInv'
  BY <1>3 DEF FlagBackend, InternalElement
<1>4. ASSUME NEW c \in Component, FinishBackend(c) PROVE IInv'
  BY <1>4 DEF FinishBackend, request_cancel, InternalElement
<1>5. CASE SetTerminated
  BY <1>5 DEF SetTerminated, InternalElement
<1>6. CASE NotifyExec \/ TerminateReturn
  BY <1>6 DEF NotifyExec, TerminateReturn, InternalElement
<1>7. CASE SpuriousWakeup(Exec)
  BY <1>7 DEF SpuriousWakeup, InternalElement
<1> QED
  BY <1>1, <1>2, <1>3, <1>4, <1>5, <1>6, <1>7 DEF TerminateStep

LEMMA NextIInv == IInv /\ [Next]_vars => IInv'
<1> SUFFICES ASSUME IInv, [Next]_vars PROVE IInv'
  OBVIOUS
<1>1. CASE UNCHANGED vars
  BY <1>1
  DEF IInv, TypeOK, SwitchLocked, SwitchElement, ReportLocked, CarriedOrReported,
      InternalElement, vars, model, mutexes, flags
<1>2. CASE Next
  BY <1>2, ExecIInv, BackendIInv, OtherIInv, Threads DEF Next
<1> QED
  BY <1>1, <1>2

LEMMA Inductive == Spec => []IInv
<1> QED
  BY InitIInv, NextIInv, PTL DEF Spec

-----------------------------------------------------------------------------
(* Every state has its type: in particular the state a dummy backend reports is
   a state, whatever was cancelled meanwhile. *)
THEOREM TypeCorrect == Spec => []TypeOK
<1>1. IInv => TypeOK
  BY DEF IInv
<1> QED
  BY <1>1, Inductive, PTL

(* Component::switch_state: the transition it looked up leads from the state the
   component is in when it is switched. *)
THEOREM SwitchDeclared == Spec => SwitchIsDeclared
<1>1. IInv /\ [Next]_vars =>
        [CommitSwitch => <<current[element.component], element.to>> \in Internal]_vars
  BY DEF IInv, SwitchLocked, CommitSwitch
<1> QED
  BY <1>1, Inductive, PTL DEF Spec, SwitchIsDeclared

(* DummyComponentBackend::exog_state_changer: what is reported is what is still
   requested. *)
THEOREM ReportRequested == Spec => ReportIsRequested
<1>1. IInv /\ [Next]_vars =>
        [\A c \in Dummy : exog_state_change(c) => target[c] = requested[c]]_vars
  BY DEF IInv, ReportLocked, exog_state_change
<1> QED
  BY <1>1, Inductive, PTL DEF Spec, ReportIsRequested

(* platform_backend.cpp:193-194, for any components and whatever their backends
   report: a change that the loop's write takes back has its event still to be
   drained.  That the write takes nothing back at all is not so. *)
THEOREM NoticeKeeps == Spec => NoticeKeepsDrained
<1>1. ASSUME IInv, Reset("reset", "execute") \/ Reset("rereset", "top")
      PROVE  current' = current \/ event \/ pc[reg.component] \in {"push", "notify"}
  <2>1. CASE current[reg.component] = reg.state
    BY <1>1, <2>1 DEF Reset, set_current_state, IInv, TypeOK
  <2>2. CASE current[reg.component] # reg.state
    BY <1>1, <2>2 DEF Reset, IInv, CarriedOrReported
  <2> QED
    BY <2>1, <2>2
<1>2. IInv /\ [Next]_vars =>
        [Reset("reset", "execute") \/ Reset("rereset", "top")
            => current' = current \/ event \/ pc[reg.component] \in {"push", "notify"}]_vars
  BY <1>1
<1> QED
  BY <1>2, Inductive, PTL DEF Spec, NoticeKeepsDrained
=============================================================================
