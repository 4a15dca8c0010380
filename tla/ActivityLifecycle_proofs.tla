---------------------- MODULE ActivityLifecycle_proofs ----------------------
(***************************************************************************)
(* Proofs about ActivityLifecycle for every set of actions, every non-empty*)
(* set of outcomes and every length of policies: the safety invariants and *)
(* that it implements ActivityProtocol.  They all follow from the inductive*)
(* invariant IInv.                                                         *)
(***************************************************************************)
EXTENDS ActivityLifecycle, SequenceTheorems, TLAPS

(* Between plans there is no plan. *)
PlanEnds == pc \in {"interpret", "idle", "done"} => plan = <<>>

(* An activity runs exactly as long as its thread owes it an outcome. *)
ThreadOwes ==
    \A a \in Action : activities[a] = "RUNNING" <=> thread[a] \in {"asleep"} \cup Terminal

(* An event is about an activity that still has the outcome it reports or has
   been collected, and is the only one about it. *)
QueueConsistent ==
    /\ \A i \in 1..Len(queue) : activities[queue[i].action] \in {"IDLE", queue[i].state}
    /\ \A i, j \in 1..Len(queue) : queue[i].action = queue[j].action => i = j

(* While a plan element is executed every queued event is about an activity
   that has not been collected: the rest were drained at the loop's head. *)
DrainedBeforeElement ==
    pc \in {"execute", "act"} =>
        \A i \in 1..Len(queue) : activities[queue[i].action] # "IDLE"

(* What the check of an element established still holds at its act, but for a
   CANCEL whose activity has ended since; its event is then still queued. *)
AdmissionHolds ==
    pc = "act" =>
        \/ activities[element.action] \in Admitted[element.hook]
        \/ /\ element.hook = "CANCEL"
           /\ activities[element.action] \in Terminal
           /\ Queued(element.action)

IInv ==
    /\ TypeOK
    /\ PlanEnds
    /\ ThreadOwes
    /\ QueueConsistent
    /\ DrainedBeforeElement
    /\ AdmissionHolds
    /\ NoStaleOutcome
    /\ HistoryAgrees
    /\ NoFault

-----------------------------------------------------------------------------
(* A policy is a sequence of plan elements. *)
LEMMA PolicyIsPlan == \A p \in Policy : p \in Seq(Element)
<1> SUFFICES ASSUME NEW n \in 1..MaxPlan, NEW p \in [1..n -> Element]
             PROVE  p \in Seq(Element)
  BY DEF Policy
<1> n \in Nat
  BY MaxPlanAssumption
<1> QED
  BY SeqDef

(* The state each hook leads to is a state. *)
LEMMA TargetState == \A h \in Hook : target_state[h] \in State
BY DEF Hook, target_state, State, Terminal

(* What the queue holds. *)
LEMMA QueueEvents ==
    ASSUME NEW q \in Seq(Event)
    PROVE  /\ Len(q) \in Nat
           /\ \A i \in 1..Len(q) : /\ q[i] \in Event
                                   /\ q[i].action \in Action
                                   /\ q[i].state \in Terminal
<1>1. Len(q) \in Nat /\ \A i \in 1..Len(q) : q[i] \in Event
  OBVIOUS
<1> QED
  BY <1>1 DEF Event

(* What appending to the queue does to the sequence. *)
LEMMA AppendQueue ==
    ASSUME NEW q \in Seq(Event), NEW e \in Event
    PROVE  /\ Append(q, e) \in Seq(Event)
           /\ Len(Append(q, e)) = Len(q) + 1
           /\ \A i \in 1..Len(q) : Append(q, e)[i] = q[i]
           /\ Append(q, e)[Len(q) + 1] = e
OBVIOUS

(* What removing its head does. *)
LEMMA TailQueue ==
    ASSUME NEW S, NEW q \in Seq(S), q # <<>>
    PROVE  /\ Tail(q) \in Seq(S)
           /\ Len(q) \in Nat \ {0}
           /\ Len(Tail(q)) = Len(q) - 1
           /\ \A i \in 1..Len(Tail(q)) : i + 1 \in 1..Len(q) /\ Tail(q)[i] = q[i + 1]
           /\ Head(q) = q[1]
           /\ Head(q) \in S
OBVIOUS

LEMMA InitTypeOK == Init => TypeOK
BY DEF Init, TypeOK, State, Thread

LEMMA NextTypeOK == TypeOK /\ [Next]_vars => TypeOK'
<1> SUFFICES ASSUME TypeOK, [Next]_vars
             PROVE  TypeOK'
  OBVIOUS
<1> USE DEF TypeOK
<1>1. ASSUME NEW a \in Action, NEW h \in Hook, InterpretAction(a, h)
      PROVE  TypeOK'
  <2>1. hist' \in [Action -> State]
    BY <1>1, TargetState DEF InterpretAction, causes_val
  <2>2. plan' \in Seq(Element)
    BY <1>1 DEF InterpretAction, Element
  <2> QED
    BY <1>1, <2>1, <2>2 DEF InterpretAction
<1>2. ASSUME NEW p \in Policy, InterpretPolicy(p)
      PROVE  TypeOK'
  BY <1>2, PolicyIsPlan DEF InterpretPolicy
<1>3. CASE InterpretNothing \/ ProgramFinal \/ Unblock \/ Drained
  BY <1>3 DEF InterpretNothing, ProgramFinal, Unblock, Drained
<1>4. CASE Drain
  <2>1. Head(queue) \in Event /\ Tail(queue) \in Seq(Event)
    BY <1>4, TailQueue DEF Drain
  <2> QED
    BY <1>4, <2>1 DEF Drain, Event, State
<1>5. CASE Admit \/ Refuse \/ Postpone
  BY <1>5 DEF Admit, Refuse, Postpone
<1>6. CASE Act
  <2> DEFINE a == element.action
             h == element.hook
  <2>1. a \in Action /\ h \in Hook /\ Tail(plan) \in Seq(Element)
    <3>1. plan # <<>>
      BY <1>6 DEF Act
    <3>2. Head(plan) \in Element /\ Tail(plan) \in Seq(Element)
      BY <3>1, TailQueue
    <3> QED
      BY <3>2 DEF element, Element
  <2> HIDE DEF a, h
  <2>2. ASSUME NEW g \in Hook, Executed(a, g)
        PROVE  /\ hist' \in [Action -> State]
               /\ plan' \in Seq(Element)
               /\ pc' \in {"interpret", "drain"}
    BY <2>1, <2>2, TargetState DEF Executed, causes_val
  <2>3. ASSUME NEW k, Throw(k, a)
        PROVE  /\ hist' \in [Action -> State]
               /\ plan' \in Seq(Element)
               /\ pc' = "stopped"
    BY <2>3 DEF Throw
  <2>4. CASE start_activity(a)
    <3>1. "RUNNING" \in State /\ "asleep" \in Thread /\ "START" \in Hook
      BY DEF State, Thread, Hook
    <3> QED
      BY <1>6, <2>1, <2>2, <2>3, <2>4, <3>1 DEF Act, start_activity, target_state
  <2>5. CASE cancel_activity(a)
    <3>1. "CANCEL" \in Hook
      BY DEF Hook
    <3> QED
      BY <1>6, <2>1, <2>2, <2>3, <2>5, <3>1 DEF Act, cancel_activity, preempt_activity
  <2>6. CASE erase_activity(a, h)
    <3>1. "IDLE" \in State
      BY DEF State
    <3> QED
      BY <1>6, <2>1, <2>2, <2>3, <2>6, <3>1 DEF Act, erase_activity
  <2> QED
    BY <1>6, <2>4, <2>5, <2>6 DEF Act, a, h
<1>7. ASSUME NEW a \in Action, ActivityThread(a)
      PROVE  TypeOK'
  <2>1. CASE WakeUp(a) \/ Leave(a)
    BY <2>1, OutcomeAssumption DEF WakeUp, Leave, Thread, Terminal
  <2>2. CASE Update(a)
    <3>1. thread[a] \in State /\ [action |-> a, state |-> thread[a]] \in Event
      BY <2>2 DEF Update, State, Event
    <3> QED
      BY <2>2, <3>1, AppendQueue DEF Update, Thread
  <2> QED
    BY <1>7, <2>1, <2>2 DEF ActivityThread
<1>8. CASE UNCHANGED vars
  BY <1>8 DEF vars
<1> QED
  BY <1>1, <1>2, <1>3, <1>4, <1>5, <1>6, <1>7, <1>8
  DEF Next, ExecutionThread, Interpret

(* Every variable of the execution loop has its type in every state; a plan
   element is only ever examined while the plan has one. *)
THEOREM TypeCorrect == Spec => []TypeOK
<1> QED
  BY InitTypeOK, NextTypeOK, PTL DEF Spec

-----------------------------------------------------------------------------
LEMMA InitIInv == Init => IInv
<1> SUFFICES ASSUME Init
             PROVE  IInv
  OBVIOUS
<1>1. TypeOK
  BY InitTypeOK
<1>2. Len(queue) = 0 /\ \A a \in Action : ~Queued(a)
  BY DEF Init, Queued
<1> QED
  BY <1>1, <1>2 DEF Init, IInv, PlanEnds, ThreadOwes, QueueConsistent, DrainedBeforeElement,
     AdmissionHolds, NoStaleOutcome, HistoryAgrees, NoFault, NoError, Fault, Terminal

(* The interpreter's steps. *)
LEMMA InterpretIInv == IInv /\ TypeOK' /\ Interpret => IInv'
<1> SUFFICES ASSUME IInv, TypeOK', Interpret
             PROVE  IInv'
  OBVIOUS
<1> USE DEF IInv, PlanEnds, ThreadOwes, QueueConsistent, DrainedBeforeElement,
            AdmissionHolds, NoFault
<1>1. plan = <<>>
  BY DEF Interpret, InterpretAction, InterpretPolicy, InterpretNothing, ProgramFinal
<1>2. \A a \in Action : Queued(a)' = Queued(a) /\ ~Announced(a, "START")
  BY <1>1 DEF Interpret, InterpretAction, InterpretPolicy, InterpretNothing, ProgramFinal,
              Queued, Announced
<1>3. ASSUME NEW a \in Action, NEW h \in Hook, InterpretAction(a, h)
      PROVE  IInv'
  <2>1. NoStaleOutcome'
    <3>1. \A b \in Action : hist[b] \in {"RUNNING", "CANCELLED"} =>
                               hist'[b] \in {"RUNNING", "CANCELLED"}
      BY <1>3 DEF InterpretAction, causes_val, Possible, target_state, TypeOK, Hook
    <3> QED
      BY <1>2, <1>3, <3>1 DEF InterpretAction, NoStaleOutcome
  <2>2. HistoryAgrees'
    <3> SUFFICES ASSUME NEW b \in Action, activities[b] \in Terminal, ~Queued(b),
                        ~Announced(b, "START")'
                 PROVE  hist'[b] = activities[b]
      BY <1>2, <1>3 DEF InterpretAction, HistoryAgrees
    <3>1. hist[b] = activities[b]
      BY <1>2 DEF HistoryAgrees
    <3>2. CASE a = b
      <4>1. h # "START"
        BY <1>3, <3>2 DEF InterpretAction, Announced, element
      <4> QED
        BY <1>3, <3>1, <3>2, <4>1
        DEF InterpretAction, causes_val, Possible, target_state, TypeOK, Hook, Terminal
    <3>3. CASE a # b
      BY <1>3, <3>1, <3>3 DEF InterpretAction, causes_val, TypeOK
    <3> QED
      BY <3>2, <3>3
  <2> QED
    BY <1>3, <2>1, <2>2 DEF InterpretAction
<1>4. ASSUME NEW p \in Policy, InterpretPolicy(p)
      PROVE  IInv'
  BY <1>2, <1>4 DEF InterpretPolicy, NoStaleOutcome, HistoryAgrees
<1>5. CASE InterpretNothing \/ ProgramFinal
  BY <1>1, <1>2, <1>5
  DEF InterpretNothing, ProgramFinal, NoStaleOutcome, HistoryAgrees, Announced, element
<1> QED
  BY <1>3, <1>4, <1>5 DEF Interpret

(* Draining the queue. *)
LEMMA DrainIInv == IInv /\ TypeOK' /\ Drain => IInv'
<1> SUFFICES ASSUME IInv, TypeOK', Drain
             PROVE  IInv'
  OBVIOUS
<1>0. PICK e : e = Head(queue)
  OBVIOUS
<1>1. /\ e = queue[1] /\ e \in Event
      /\ Len(queue) \in Nat \ {0}
      /\ queue' = Tail(queue) /\ Len(queue') = Len(queue) - 1
      /\ \A i \in 1..Len(queue') : i + 1 \in 1..Len(queue) /\ queue'[i] = queue[i + 1]
  BY <1>0, TailQueue DEF IInv, TypeOK, Drain
<1>2. e.action \in Action /\ e.state \in Terminal
  BY <1>1 DEF Event
<1>3. UNCHANGED <<activities, thread, pc, plan, error>>
  BY DEF Drain
<1>4. hist' = [hist EXCEPT ![e.action] = e.state]
  BY <1>0 DEF Drain
<1>5. QueueConsistent'
  BY <1>1, <1>3 DEF IInv, QueueConsistent
<1>6. \A a \in Action : Queued(a)' => Queued(a)
  BY <1>1 DEF Queued
<1>7. \A a \in Action \ {e.action} : Queued(a) => Queued(a)'
  <2> SUFFICES ASSUME NEW a \in Action \ {e.action}, NEW i \in 1..Len(queue),
                      queue[i].action = a
               PROVE  Queued(a)'
    BY DEF Queued
  <2>1. i # 1
    BY <1>1
  <2>2. i - 1 \in 1..Len(queue') /\ queue'[i - 1] = queue[i]
    BY <1>1, <2>1
  <2> QED
    BY <2>2 DEF Queued
<1>8. ~Queued(e.action)'
  <2> SUFFICES ASSUME NEW i \in 1..Len(queue'), queue'[i].action = e.action
               PROVE  FALSE
    BY DEF Queued
  <2>1. i + 1 \in 1..Len(queue) /\ queue[i + 1].action = queue[1].action
    BY <1>1
  <2>2. i + 1 = 1
    BY <1>1, <2>1 DEF IInv, QueueConsistent
  <2> QED
    BY <2>2
<1>9. activities[e.action] \in {"IDLE", e.state}
  BY <1>1 DEF IInv, QueueConsistent
<1>10. NoStaleOutcome'
  <2> SUFFICES ASSUME NEW a \in Action
               PROVE  /\ activities[a] = "RUNNING" => ~Queued(a)'
                      /\ activities[a] = "RUNNING" \/ (activities[a] \in Terminal /\ Queued(a)')
                            => hist'[a] \in {"RUNNING", "CANCELLED"}
    BY <1>3 DEF NoStaleOutcome
  <2>1. CASE a = e.action
    BY <1>2, <1>8, <1>9, <2>1 DEF Terminal
  <2>2. CASE a # e.action
    BY <1>4, <1>6, <2>2 DEF IInv, TypeOK, NoStaleOutcome
  <2> QED
    BY <2>1, <2>2
<1>11. HistoryAgrees'
  <2> SUFFICES ASSUME NEW a \in Action, activities[a] \in Terminal, ~Queued(a)',
                      ~Announced(a, "START")
               PROVE  hist'[a] = activities[a]
    BY <1>3 DEF HistoryAgrees, Announced, element
  <2>1. CASE a = e.action
    BY <1>2, <1>4, <1>9, <2>1 DEF IInv, TypeOK, Terminal
  <2>2. CASE a # e.action
    BY <1>4, <1>7, <2>2 DEF IInv, TypeOK, HistoryAgrees
  <2> QED
    BY <2>1, <2>2
<1>12. pc = "drain"
  BY DEF Drain
<1> QED
  BY <1>3, <1>5, <1>10, <1>11, <1>12
  DEF IInv, PlanEnds, ThreadOwes, DrainedBeforeElement, AdmissionHolds, NoFault

(* The steps of the execution thread that only move it. *)
LEMMA MoveIInv ==
    IInv /\ TypeOK' /\ (Unblock \/ Drained \/ Admit \/ Refuse \/ Postpone) => IInv'
<1> SUFFICES ASSUME IInv, TypeOK', Unblock \/ Drained \/ Admit \/ Refuse \/ Postpone
             PROVE  IInv'
  OBVIOUS
<1>1. UNCHANGED <<activities, thread, queue, hist, plan, error>>
  BY DEF Unblock, Drained, Admit, Refuse, Postpone
<1>2. QueueConsistent' /\ ThreadOwes' /\ NoFault'
  BY <1>1 DEF IInv, QueueConsistent, ThreadOwes, NoFault
<1>3. NoStaleOutcome' /\ HistoryAgrees'
  BY <1>1 DEF IInv, NoStaleOutcome, HistoryAgrees, Queued, Announced, element
<1>4. PlanEnds'
  BY <1>1 DEF IInv, PlanEnds, Unblock, Drained, Admit, Refuse, Postpone
<1>5. DrainedBeforeElement'
  <2>1. CASE Drained
    <3>1. Len(queue) = 0
      BY <2>1 DEF Drained
    <3> QED
      BY <1>1, <3>1 DEF DrainedBeforeElement
  <2>2. CASE Unblock \/ Admit \/ Refuse \/ Postpone
    BY <1>1, <2>2 DEF IInv, DrainedBeforeElement, Unblock, Admit, Refuse, Postpone
  <2> QED
    BY <2>1, <2>2
<1>6. AdmissionHolds'
  BY <1>1 DEF AdmissionHolds, Unblock, Drained, Admit, Refuse, Postpone, element
<1> QED
  BY <1>2, <1>3, <1>4, <1>5, <1>6 DEF IInv

(* Acting on a plan element. *)
LEMMA ActIInv == IInv /\ TypeOK' /\ Act => IInv'
<1> SUFFICES ASSUME IInv, TypeOK', Act
             PROVE  IInv'
  OBVIOUS
<1>0. PICK a, h : a = element.action /\ h = element.hook
  OBVIOUS
<1>1. /\ pc = "act" /\ plan # <<>>
      /\ a \in Action /\ h \in Hook
      /\ element = [action |-> a, hook |-> h]
      /\ queue' = queue
      /\ \A b \in Action : Queued(b)' = Queued(b)
  <2>1. pc = "act" /\ plan # <<>> /\ queue' = queue
    BY DEF Act, IInv, TypeOK
  <2>2. Head(plan) \in Element
    BY <2>1, TailQueue DEF IInv, TypeOK
  <2> QED
    BY <1>0, <2>1, <2>2 DEF element, Element, Queued
<1>2. \/ activities[a] \in Admitted[h]
      \/ h = "CANCEL" /\ activities[a] \in Terminal /\ Queued(a)
  BY <1>0, <1>1 DEF IInv, AdmissionHolds
<1>3. Queued(a) => activities[a] # "IDLE"
  BY <1>1 DEF IInv, DrainedBeforeElement, Queued
<1>4. h # "START" => \A b \in Action : ~Announced(b, "START")
  BY <1>0 DEF Announced
<1>5. \A b \in Action \ {a} : ~Announced(b, "START")
  BY <1>0 DEF Announced
<1>6. ASSUME NEW k, Throw(k, a), k \notin Fault, UNCHANGED <<activities, thread>>
      PROVE  IInv'
  <2>1. \A b \in Action : Announced(b, "START")' = Announced(b, "START")
    BY <1>6 DEF Throw, Announced, element
  <2> QED
    BY <1>1, <1>6, <2>1
    DEF Throw, IInv, PlanEnds, ThreadOwes, QueueConsistent, DrainedBeforeElement,
        AdmissionHolds, NoStaleOutcome, HistoryAgrees, NoFault
<1>7. ASSUME Executed(a, h), ThreadOwes', QueueConsistent', NoStaleOutcome', HistoryAgrees'
      PROVE  IInv'
  BY <1>7 DEF Executed, IInv, PlanEnds, DrainedBeforeElement, AdmissionHolds, NoFault
<1>8. Executed(a, h) => /\ \A b \in Action \ {a} : hist'[b] = hist[b]
                        /\ h # "END" => hist'[a] = target_state[h]
                        /\ h = "END" => hist'[a] = hist[a]
  BY <1>1 DEF Executed, causes_val, IInv, TypeOK
<1>9. CASE h = "START" /\ start_activity(a)
  <2>1. CASE activities[a] # "IDLE"
    BY <1>6, <1>9, <2>1 DEF start_activity, Fault
  <2>2. CASE activities[a] = "IDLE"
    <3>1. /\ activities' = [activities EXCEPT ![a] = "RUNNING"]
          /\ thread' = [thread EXCEPT ![a] = "asleep"]
          /\ Executed(a, h)
      BY <1>9, <2>2 DEF start_activity, target_state
    <3>2. ~Queued(a)
      BY <1>3, <2>2
    <3>3. ThreadOwes'
      BY <3>1 DEF IInv, TypeOK, ThreadOwes
    <3>4. QueueConsistent'
      <4>1. \A i \in 1..Len(queue) : queue[i].action \in Action /\ queue[i].action # a
        BY <3>2, QueueEvents DEF Queued, IInv, TypeOK
      <4> QED
        BY <1>1, <3>1, <4>1 DEF IInv, TypeOK, QueueConsistent
    <3>5. NoStaleOutcome'
      <4>1. hist'[a] = "RUNNING"
        BY <1>8, <1>9, <3>1 DEF target_state
      <4> QED
        BY <1>1, <1>8, <3>1, <3>2, <4>1 DEF IInv, TypeOK, NoStaleOutcome
    <3>6. HistoryAgrees'
      BY <1>1, <1>5, <1>8, <3>1 DEF IInv, TypeOK, HistoryAgrees, Terminal
    <3> QED
      BY <1>7, <3>1, <3>3, <3>4, <3>5, <3>6
  <2> QED
    BY <2>1, <2>2
<1>10. CASE h = "CANCEL" /\ cancel_activity(a)
  <2>1. \/ activities[a] = "RUNNING"
        \/ activities[a] \in Terminal /\ Queued(a)
    BY <1>2, <1>10 DEF Admitted
  <2>2. UNCHANGED <<activities, thread>>
    BY <1>10 DEF cancel_activity
  <2>3. Executed(a, h)
    <3>1. thread[a] # "none"  \/ activities[a] # "RUNNING"
      BY <1>1 DEF IInv, ThreadOwes, Terminal
    <3> QED
      BY <1>10, <2>1, <3>1 DEF cancel_activity, preempt_activity, Terminal
  <2>4. hist'[a] = "CANCELLED"
    BY <1>8, <1>10, <2>3 DEF target_state
  <2>5. ThreadOwes' /\ QueueConsistent'
    BY <1>1, <2>2 DEF IInv, ThreadOwes, QueueConsistent
  <2>6. NoStaleOutcome'
    BY <1>1, <1>8, <2>2, <2>3, <2>4 DEF IInv, NoStaleOutcome
  <2>7. HistoryAgrees'
    BY <1>1, <1>5, <1>8, <2>1, <2>2, <2>3 DEF IInv, HistoryAgrees, Terminal
  <2> QED
    BY <1>7, <2>3, <2>5, <2>6, <2>7
<1>11. CASE h \in {"FINISH", "FAIL", "END"} /\ erase_activity(a, h)
  <2>1. activities[a] \in Terminal /\ Erasable(a, h)
    BY <1>2, <1>11 DEF Admitted, Erasable, target_state, Terminal
  <2>2. /\ activities' = [activities EXCEPT ![a] = "IDLE"]
        /\ UNCHANGED thread
        /\ Executed(a, h)
    BY <1>11, <2>1 DEF erase_activity, Terminal
  <2>3. ThreadOwes'
    BY <2>1, <2>2 DEF IInv, TypeOK, ThreadOwes, Terminal
  <2>4. QueueConsistent'
    BY <1>1, <2>2 DEF IInv, TypeOK, QueueConsistent, Event
  <2>5. NoStaleOutcome'
    BY <1>1, <1>8, <2>2 DEF IInv, TypeOK, NoStaleOutcome, Terminal
  <2>6. HistoryAgrees'
    BY <1>1, <1>5, <1>8, <2>2 DEF IInv, TypeOK, HistoryAgrees, Terminal
  <2> QED
    BY <1>7, <2>2, <2>3, <2>4, <2>5, <2>6
<1> QED
  BY <1>0, <1>9, <1>10, <1>11 DEF Act

(* The activities' threads. *)
LEMMA ThreadIInv ==
    ASSUME NEW a \in Action, IInv, TypeOK', ActivityThread(a)
    PROVE  IInv'
<1>1. UNCHANGED <<hist, pc, plan, error>>
  BY DEF ActivityThread, WakeUp, Update, Leave
<1>2. PlanEnds' /\ NoFault' /\ element' = element
  BY <1>1 DEF IInv, PlanEnds, NoFault, element
<1>3. CASE WakeUp(a) \/ Leave(a)
  <2>1. UNCHANGED <<activities, queue>>
    BY <1>3 DEF WakeUp, Leave
  <2>2. ThreadOwes'
    BY <1>3, <2>1, OutcomeAssumption DEF WakeUp, Leave, IInv, TypeOK, ThreadOwes, Terminal
  <2> QED
    BY <1>1, <1>2, <2>1, <2>2
    DEF IInv, QueueConsistent, DrainedBeforeElement, AdmissionHolds, NoStaleOutcome,
        HistoryAgrees, Queued, Announced
<1>4. CASE Update(a)
  <2>1. PICK s \in Terminal : s = thread[a]
    BY <1>4 DEF Update
  <2>2. /\ activities' = [activities EXCEPT ![a] = s]
        /\ thread' = [thread EXCEPT ![a] = "leaving"]
        /\ queue' = Append(queue, [action |-> a, state |-> s])
    BY <1>4, <2>1 DEF Update
  <2>3. activities[a] = "RUNNING" /\ ~Queued(a)
    BY <2>1 DEF IInv, ThreadOwes, NoStaleOutcome
  <2>4. /\ Len(queue') = Len(queue) + 1 /\ Len(queue) \in Nat
        /\ \A i \in 1..Len(queue) : queue'[i] = queue[i] /\ queue[i] \in Event
        /\ queue'[Len(queue) + 1] = [action |-> a, state |-> s]
    <3>1. [action |-> a, state |-> s] \in Event
      BY DEF Event
    <3> QED
      BY <2>2, <3>1, AppendQueue, QueueEvents DEF IInv, TypeOK
  <2>5. \A i \in 1..Len(queue) : queue[i].action \in Action \ {a}
    BY <2>3, <2>4 DEF Queued, Event
  <2>6. Queued(a)' /\ \A b \in Action \ {a} : Queued(b)' = Queued(b)
    BY <2>4 DEF Queued
  <2>7. ThreadOwes'
    BY <2>1, <2>2 DEF IInv, TypeOK, ThreadOwes, Terminal
  <2>8. QueueConsistent'
    <3>1. \A i \in 1..Len(queue') : activities'[queue'[i].action] \in {"IDLE", queue'[i].state}
      BY <2>2, <2>4, <2>5 DEF IInv, TypeOK, QueueConsistent
    <3>2. \A i, j \in 1..Len(queue') : queue'[i].action = queue'[j].action => i = j
      BY <2>4, <2>5 DEF IInv, QueueConsistent
    <3> QED
      BY <3>1, <3>2 DEF QueueConsistent
  <2>9. DrainedBeforeElement'
    BY <1>1, <2>1, <2>2, <2>4, <2>5 DEF IInv, TypeOK, DrainedBeforeElement, Terminal
  <2>10. AdmissionHolds'
    <3> SUFFICES ASSUME pc = "act"
                 PROVE  AdmissionHolds'
      BY <1>1 DEF AdmissionHolds
    <3>1. element \in Element
      BY TailQueue DEF IInv, TypeOK, element
    <3>2. CASE element.action = a
      <4>1. element.hook = "CANCEL"
        BY <2>3, <3>1, <3>2 DEF IInv, AdmissionHolds, Admitted, Element, Hook
      <4> QED
        BY <1>2, <2>1, <2>2, <2>6, <3>2, <4>1 DEF IInv, TypeOK, AdmissionHolds
    <3>3. CASE element.action # a
      BY <1>1, <1>2, <2>2, <2>6, <3>1, <3>3 DEF IInv, TypeOK, AdmissionHolds, Element
    <3> QED
      BY <3>2, <3>3
  <2>11. NoStaleOutcome'
    BY <1>1, <2>1, <2>2, <2>3, <2>6 DEF IInv, TypeOK, NoStaleOutcome, Terminal
  <2>12. HistoryAgrees'
    BY <1>1, <1>2, <2>2, <2>6 DEF IInv, TypeOK, HistoryAgrees, Announced
  <2> QED
    BY <1>2, <2>7, <2>8, <2>9, <2>10, <2>11, <2>12 DEF IInv
<1> QED
  BY <1>3, <1>4 DEF ActivityThread

LEMMA NextIInv == IInv /\ [Next]_vars => IInv'
<1> SUFFICES ASSUME IInv, [Next]_vars
             PROVE  IInv'
  OBVIOUS
<1>1. TypeOK'
  BY NextTypeOK DEF IInv
<1>2. CASE ExecutionThread
  BY <1>1, <1>2, InterpretIInv, DrainIInv, MoveIInv, ActIInv DEF ExecutionThread
<1>3. ASSUME NEW a \in Action, ActivityThread(a)
      PROVE  IInv'
  BY <1>1, <1>3, ThreadIInv
<1>4. CASE UNCHANGED vars
  BY <1>1, <1>4
  DEF vars, IInv, PlanEnds, ThreadOwes, QueueConsistent, DrainedBeforeElement,
      AdmissionHolds, NoStaleOutcome, HistoryAgrees, NoFault, Queued, Announced, element
<1> QED
  BY <1>2, <1>3, <1>4 DEF Next

LEMMA Inductive == Spec => []IInv
<1> QED
  BY InitIInv, NextIInv, PTL DEF Spec

-----------------------------------------------------------------------------
(* The act of a plan element never meets an activity that is gone or in a state
   its check excluded, although the activity's thread runs in between: none of
   LostTransition, InconsistentTransition, Bug or EngineError is thrown. *)
THEOREM NoFaultCorrect == Spec => []NoFault
<1>1. IInv => NoFault
  BY DEF IInv
<1> QED
  BY <1>1, Inductive, PTL

(* No event of an earlier incarnation is drained while an activity runs. *)
THEOREM NoStaleOutcomeCorrect == Spec => []NoStaleOutcome
<1>1. IInv => NoStaleOutcome
  BY DEF IInv
<1> QED
  BY <1>1, Inductive, PTL

(* The interpreter's state(A) is the platform's once its event is drained. *)
THEOREM HistoryAgreesCorrect == Spec => []HistoryAgrees
<1>1. IInv => HistoryAgrees
  BY DEF IInv
<1> QED
  BY <1>1, Inductive, PTL

(* A plan element applies an action's effects only if its activity was FINAL. *)
THEOREM EffectsCorrect == Spec => EffectsOnlyOnSuccess
<1> DEFINE Effects ==
      Act /\ pc' # "stopped" /\ AppliesEffects(element.action, element.hook)
          => activities[element.action] = "FINAL"
<1>1. IInv => Effects
  <2> SUFFICES ASSUME IInv, Act, AppliesEffects(element.action, element.hook)
               PROVE  activities[element.action] = "FINAL"
    OBVIOUS
  <2>1. element \in Element
    BY TailQueue DEF Act, IInv, TypeOK, element
  <2> DEFINE a == element.action
  <2>2. a \in Action /\ activities[a] \in Admitted[element.hook]
    BY <2>1 DEF Act, IInv, AdmissionHolds, AppliesEffects, Element
  <2>3. CASE element.hook = "FINISH"
    BY <2>2, <2>3 DEF Admitted
  <2>4. CASE element.hook = "END" /\ hist[a] = "FINAL"
    <3>1. activities[a] \in {"FAILED", "FINAL"}
      BY <2>2, <2>4 DEF Admitted
    <3>2. ~Announced(a, "START")
      BY <2>4 DEF Announced
    <3> QED
      BY <2>2, <2>4, <3>1, <3>2 DEF IInv, NoStaleOutcome, HistoryAgrees, Terminal
  <2> QED
    BY <2>3, <2>4 DEF AppliesEffects
<1>2. IInv /\ [Next]_vars => [Effects]_vars
  BY <1>1
<1> HIDE DEF Effects
<1>3. Spec => [][Effects]_vars
  BY <1>2, Inductive, PTL DEF Spec
<1> QED
  BY <1>3 DEF EffectsOnlyOnSuccess, Effects

-----------------------------------------------------------------------------
(* Refinement. *)

Unique(q) == \A i, j \in 1..Len(q) : q[i].action = q[j].action => i = j

LEMMA ReportOfEvent ==
    ASSUME NEW q \in Seq(Event), Unique(q), NEW i \in 1..Len(q)
    PROVE  Reported(q, q[i].action) = q[i].state
<1> DEFINE a == q[i].action
           k == CHOOSE n \in 1..Len(q) : q[n].action = a
<1>1. k \in 1..Len(q) /\ q[k].action = a
  OBVIOUS
<1>2. k = i
  BY <1>1 DEF Unique
<1> QED
  BY <1>2 DEF Reported

LEMMA ReportOfNone ==
    ASSUME NEW q, NEW a, ~ \E i \in 1..Len(q) : q[i].action = a
    PROVE  Reported(q, a) = "IDLE"
BY DEF Reported

(* Two queues with the same events about an action report the same of it. *)
LEMMA SameReport ==
    ASSUME NEW p \in Seq(Event), NEW q \in Seq(Event), Unique(p), Unique(q), NEW a,
           \A i \in 1..Len(p) : p[i].action = a => \E j \in 1..Len(q) : q[j] = p[i],
           \A j \in 1..Len(q) : q[j].action = a => \E i \in 1..Len(p) : p[i] = q[j]
    PROVE  Reported(p, a) = Reported(q, a)
<1>1. CASE \E i \in 1..Len(p) : p[i].action = a
  <2>1. PICK i \in 1..Len(p) : p[i].action = a
    BY <1>1
  <2>2. PICK j \in 1..Len(q) : q[j] = p[i]
    BY <2>1
  <2>3. Reported(p, p[i].action) = p[i].state /\ Reported(q, q[j].action) = q[j].state
    BY ReportOfEvent
  <2> QED
    BY <2>1, <2>2, <2>3
<1>2. CASE ~ \E i \in 1..Len(p) : p[i].action = a
  <2>1. ~ \E j \in 1..Len(q) : q[j].action = a
    BY <1>2
  <2> QED
    BY <1>2, <2>1, ReportOfNone
<1> QED
  BY <1>1, <1>2

LEMMA QueueUnique == IInv => queue \in Seq(Event) /\ Unique(queue)
BY DEF IInv, TypeOK, QueueConsistent, Unique

(* The queue and the map change as one step of the protocol, or not at all. *)
LEMMA NextProtocol ==
    ASSUME IInv, IInv', [Next]_vars
    PROVE  [Protocol!ProtocolNext]_(Protocol!protocolVars)
<1> DEFINE rep == [a \in Action |-> Reported(queue, a)]
<1> USE DEF Protocol!protocolVars
<1>0. /\ queue \in Seq(Event) /\ Unique(queue)
      /\ queue' \in Seq(Event) /\ Unique(queue')
  BY QueueUnique DEF IInv, TypeOK, QueueConsistent, Unique
<1>1. CASE UNCHANGED <<activities, queue>>
  BY <1>1
<1>2. CASE Drain
  <2>1. PICK e : e = Head(queue)
    OBVIOUS
  <2>2. /\ e = queue[1] /\ e \in Event /\ Len(queue) \in Nat \ {0}
        /\ queue' = Tail(queue) /\ Len(queue') = Len(queue) - 1
        /\ \A i \in 1..Len(queue') : i + 1 \in 1..Len(queue) /\ queue'[i] = queue[i + 1]
        /\ activities' = activities
    BY <1>0, <1>2, <2>1, TailQueue DEF Drain
  <2>3. e.action \in Action /\ e.state \in Terminal
    BY <2>2 DEF Event
  <2>4. Reported(queue, e.action) = e.state
    BY <1>0, <2>2, ReportOfEvent
  <2>5. ~ \E i \in 1..Len(queue') : queue'[i].action = e.action
    <3> SUFFICES ASSUME NEW i \in 1..Len(queue'), queue'[i].action = e.action
                 PROVE  FALSE
      OBVIOUS
    <3>1. i + 1 = 1
      BY <1>0, <2>2 DEF Unique
    <3> QED
      BY <3>1
  <2>6. \A b \in Action \ {e.action} : Reported(queue', b) = Reported(queue, b)
    <3> TAKE b \in Action \ {e.action}
    <3>1. \A i \in 1..Len(queue') : \E j \in 1..Len(queue) : queue[j] = queue'[i]
      BY <2>2
    <3>2. ASSUME NEW j \in 1..Len(queue), queue[j].action = b
          PROVE  \E i \in 1..Len(queue') : queue'[i] = queue[j]
      <4>1. j # 1
        BY <2>2, <3>2
      <4>2. j - 1 \in 1..Len(queue') /\ queue'[j - 1] = queue[j]
        BY <2>2, <4>1
      <4> QED
        BY <4>2
    <3> QED
      BY <1>0, <3>1, <3>2, SameReport
  <2>7. rep' = [rep EXCEPT ![e.action] = "IDLE"]
    BY <2>3, <2>5, <2>6, ReportOfNone
  <2>8. Protocol!Observe(e.action)
    BY <2>2, <2>3, <2>4, <2>7 DEF Protocol!Observe, Terminal
  <2> QED
    BY <2>3, <2>8 DEF Protocol!ProtocolNext
<1>3. ASSUME NEW a \in Action, Update(a)
      PROVE  Protocol!ProtocolNext
  <2>1. PICK s \in Terminal : s = thread[a]
    BY <1>3 DEF Update
  <2>2. [action |-> a, state |-> s] \in Event
    BY DEF Event
  <2>3. /\ activities' = [activities EXCEPT ![a] = s]
        /\ queue' = Append(queue, [action |-> a, state |-> s])
    BY <1>3, <2>1 DEF Update
  <2>4. activities[a] = "RUNNING" /\ ~Queued(a)
    BY <2>1 DEF IInv, ThreadOwes, NoStaleOutcome
  <2>5. /\ Len(queue') = Len(queue) + 1 /\ Len(queue) \in Nat
        /\ \A i \in 1..Len(queue) : queue'[i] = queue[i]
        /\ queue'[Len(queue) + 1] = [action |-> a, state |-> s]
    BY <1>0, <2>2, <2>3, AppendQueue, QueueEvents
  <2>6. Reported(queue, a) = "IDLE"
    BY <2>4, ReportOfNone DEF Queued
  <2>7. Reported(queue', a) = s
    <3>1. Len(queue') \in 1..Len(queue') /\ queue'[Len(queue')].action = a
          /\ queue'[Len(queue')].state = s
      BY <2>5
    <3> QED
      BY <1>0, <3>1, ReportOfEvent
  <2>8. \A b \in Action \ {a} : Reported(queue', b) = Reported(queue, b)
    <3> TAKE b \in Action \ {a}
    <3>1. \A i \in 1..Len(queue) : \E j \in 1..Len(queue') : queue'[j] = queue[i]
      BY <2>5
    <3>2. \A j \in 1..Len(queue') :
              queue'[j].action = b => \E i \in 1..Len(queue) : queue[i] = queue'[j]
      BY <2>5
    <3> QED
      BY <1>0, <3>1, <3>2, SameReport
  <2>9. rep' = [rep EXCEPT ![a] = s] /\ rep[a] = "IDLE"
    BY <2>6, <2>7, <2>8
  <2>10. Protocol!Complete(a, s)
    BY <2>3, <2>4, <2>9 DEF Protocol!Complete
  <2> QED
    BY <2>10 DEF Protocol!ProtocolNext
<1>4. CASE Act
  <2>1. PICK a, h : a = element.action /\ h = element.hook
    OBVIOUS
  <2>2. /\ a \in Action /\ pc = "act" /\ queue' = queue
        /\ rep' = rep
    <3>1. Head(plan) \in Element
      BY <1>4, TailQueue DEF Act, IInv, TypeOK
    <3> QED
      BY <1>4, <2>1, <3>1 DEF Act, element, Element
  <2>3. CASE activities' = activities
    BY <1>1, <2>2, <2>3
  <2>4. CASE activities[a] = "IDLE" /\ activities' = [activities EXCEPT ![a] = "RUNNING"]
    <3>1. ~ \E i \in 1..Len(queue) : queue[i].action = a
      BY <2>2, <2>4 DEF IInv, DrainedBeforeElement
    <3>2. Reported(queue, a) = "IDLE"
      BY <3>1, ReportOfNone
    <3>3. Protocol!Begin(a)
      BY <2>2, <2>4, <3>2 DEF Protocol!Begin
    <3> QED
      BY <2>2, <3>3 DEF Protocol!ProtocolNext
  <2>5. CASE activities[a] \in Terminal /\ activities' = [activities EXCEPT ![a] = "IDLE"]
    <3>1. Protocol!Collect(a)
      BY <2>2, <2>5 DEF Protocol!Collect
    <3> QED
      BY <2>2, <3>1 DEF Protocol!ProtocolNext
  <2>6. CASE h = "START" /\ start_activity(a)
    BY <2>3, <2>4, <2>6 DEF start_activity, target_state
  <2>7. CASE h = "CANCEL" /\ cancel_activity(a)
    BY <2>3, <2>7 DEF cancel_activity
  <2>8. CASE h \in {"FINISH", "FAIL", "END"} /\ erase_activity(a, h)
    BY <2>3, <2>5, <2>8 DEF erase_activity, Erasable, target_state, Terminal
  <2> QED
    BY <1>4, <2>1, <2>6, <2>7, <2>8 DEF Act
<1>5. CASE Interpret \/ Unblock \/ Drained \/ Admit \/ Refuse \/ Postpone
  BY <1>1, <1>5 DEF Interpret, InterpretAction, InterpretPolicy, InterpretNothing,
                    ProgramFinal, Unblock, Drained, Admit, Refuse, Postpone
<1>6. ASSUME NEW a \in Action, WakeUp(a) \/ Leave(a)
      PROVE  UNCHANGED <<activities, queue>>
  BY <1>6 DEF WakeUp, Leave
<1>7. CASE UNCHANGED vars
  BY <1>1, <1>7 DEF vars
<1> QED
  BY <1>1, <1>2, <1>3, <1>4, <1>5, <1>6, <1>7 DEF Next, ExecutionThread, ActivityThread

(* The threads, the queue and the two-step execution of plan elements implement
   the activity protocol: one outcome and one report for every start. *)
THEOREM Refinement == Spec => ImplementsProtocol
<1>1. Init => Protocol!ProtocolInit
  BY ReportOfNone DEF Init, Protocol!ProtocolInit
<1>2. IInv /\ IInv' /\ [Next]_vars => [Protocol!ProtocolNext]_(Protocol!protocolVars)
  BY NextProtocol
<1> QED
  BY <1>1, <1>2, Inductive, PTL DEF Spec, ImplementsProtocol, Protocol!ProtocolSpec
=============================================================================
