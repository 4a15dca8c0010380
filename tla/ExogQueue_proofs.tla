-------------------------- MODULE ExogQueue_proofs --------------------------
(***************************************************************************)
(* Three results about the queue of exogenous events.                      *)
(*                                                                         *)
(* terminate() does not return while the execution thread is blocked on    *)
(* the queue, whatever producers and timers there are and however their    *)
(* unlocked pushes corrupt it: the argument needs wait_mutex_ only.        *)
(*                                                                         *)
(* Nor does that thread wait, with an event in the queue, unless a thread  *)
(* is about to notify it: the argument needs queue_empty_mutex_ only.      *)
(*                                                                         *)
(* If a single thread pushes at the back and none but the execution thread *)
(* itself at the front, the queue is what it is meant to be, without any   *)
(* lock: typed, in order, and nothing is lost.                             *)
(***************************************************************************)
EXTENDS ExogQueue, FiniteSetTheorems, SequenceTheorems, TLAPS

(* Exec owns wait_mutex_ from before the wait's predicate until after it. *)
WaitMutexOwned ==
    /\ pc \in [Thread -> Label]
    /\ wait_mutex \in {Nobody, Exec}
    /\ wait_mutex = Exec <=> pc[Exec] \in {"condition", "sleep", "asleep", "unguard"}

(* terminate raises the flag before it notifies. *)
FlagRaised == pc[Terminator] \in {"notify", "settle", "returned"} => terminated

WInv == WaitMutexOwned /\ FlagRaised /\ TerminateWaits

LEMMA InitWInv == Init => WInv
BY ThreadAssumption
DEF Init, WInv, WaitMutexOwned, FlagRaised, TerminateWaits, Thread, Label

(* A push changes no lock and only the place of its thread. *)
LEMMA PushWInv ==
    ASSUME NEW t \in Producer \cup Timer \cup {Exec}, WInv, BeginPush(t) \/ Push(t)
    PROVE  WInv'
<1>1. t \in Thread /\ t # Terminator /\ Exec \in Thread /\ Terminator \in Thread
  BY ThreadAssumption DEF Thread
<1>2. /\ UNCHANGED <<wait_mutex, terminated>>
      /\ \E l \in Label \ {"condition", "sleep", "asleep", "unguard"} : Goto(t, l)
      /\ pc[t] \notin {"condition", "sleep", "asleep", "unguard"}
  <2>1. CASE BeginPush(t)
    BY <2>1 DEF BeginPush, Label, locks
  <2>2. CASE PassExogMutex(t)
    BY <2>2 DEF PassExogMutex, Label, locks
  <2>3. CASE Place(t)
    BY <2>3 DEF Place, Label, locks
  <2>4. CASE Advance(t)
    BY <2>4 DEF Advance, Label, locks
  <2>5. CASE PassQueueEmptyMutex(t)
    BY <2>5 DEF PassQueueEmptyMutex, Label, locks
  <2>6. CASE Notify(t)
    BY <2>6 DEF Notify, Label, locks
  <2>7. CASE Settle(t)
    BY <2>7 DEF Settle, Label, locks
  <2> QED
    BY <2>1, <2>2, <2>3, <2>4, <2>5, <2>6, <2>7 DEF Push
<1>3. PICK l \in Label \ {"condition", "sleep", "asleep", "unguard"} : pc' = [pc EXCEPT ![t] = l]
  BY <1>2 DEF Goto
<1> QED
  BY <1>1, <1>2, <1>3 DEF WInv, WaitMutexOwned, FlagRaised, TerminateWaits

(* The execution thread's steps outside and inside the wait. *)
LEMMA ExecWInv ==
    ASSUME WInv, ExecStep \/ SpuriousWakeup
    PROVE  WInv'
<1> USE ThreadAssumption DEF WInv, WaitMutexOwned, FlagRaised, TerminateWaits, Goto, locks
<1>1. Exec \in Thread /\ Terminator \in Thread
  BY DEF Thread
<1>2. CASE ExogEmpty \/ Front \/ PopFront \/ Work
  BY <1>1, <1>2 DEF ExogEmpty, Front, PopFront, Work, Label
<1>3. CASE Block
  BY <1>1, <1>3 DEF Block, Label
<1>4. CASE Condition
  BY <1>1, <1>4 DEF Condition, Label
<1>5. CASE Sleep
  BY <1>1, <1>5 DEF Sleep, Label
<1>6. CASE Wake \/ SpuriousWakeup \/ Timeout
  BY <1>1, <1>6 DEF Wake, SpuriousWakeup, Timeout, Label
<1>7. CASE Unguard \/ Unblock
  BY <1>1, <1>7 DEF Unguard, Unblock, Label
<1>8. CASE Push(Exec)
  BY <1>8, PushWInv
<1> QED
  BY <1>2, <1>3, <1>4, <1>5, <1>6, <1>7, <1>8 DEF ExecStep

(* terminate's steps. *)
LEMMA TerminateWInv ==
    ASSUME WInv, TerminateStep
    PROVE  WInv'
<1> USE ThreadAssumption DEF WInv, WaitMutexOwned, FlagRaised, TerminateWaits, Goto, locks
<1>1. Exec \in Thread /\ Terminator \in Thread
  BY DEF Thread
<1>2. CASE Terminate
  BY <1>1, <1>2 DEF Terminate, Label
<1>3. CASE TerminateReturn
  BY <1>1, <1>3 DEF TerminateReturn, Label
<1> QED
  BY <1>2, <1>3 DEF TerminateStep

(* Once terminate has returned, the execution thread is not blocked on the queue
   and never will be. *)
THEOREM TerminateWaitsCorrect == Spec => []TerminateWaits
<1>1. WInv /\ [Next]_vars => WInv'
  <2> SUFFICES ASSUME WInv, [Next]_vars
               PROVE  WInv'
    OBVIOUS
  <2>1. CASE UNCHANGED vars
    BY <2>1 DEF vars, locks, WInv, WaitMutexOwned, FlagRaised, TerminateWaits
  <2> QED
    BY <2>1, PushWInv, ExecWInv, TerminateWInv DEF Next
<1>2. WInv => TerminateWaits
  BY DEF WInv
<1> QED
  BY <1>1, <1>2, InitWInv, PTL DEF Spec

-----------------------------------------------------------------------------
(* While the execution thread waits on the condition variable and the queue is not
   empty, whoever made it so has yet to notify: the safety part of PushWakes. *)
Notifying == \E t \in Producer \cup Timer : pc[t] \in {"signal", "notify"}
WakeupOnItsWay == pc[Exec] = "asleep" /\ waiting /\ ~Empty => Notifying

(* From the predicate to the wait, Exec owns queue_empty_mutex_, which nobody passes
   between the queue's change and notify_one. *)
QueueEmptyMutexOwned ==
    /\ pc \in [Thread -> Label]
    /\ queue_empty_mutex \in {Nobody, Exec}
    /\ queue_empty_mutex = Exec
            <=> pc[Exec] \in {"guard", "condition", "sleep", "unguard", "unblock"}

SignalBehindMutex ==
    pc[Exec] = "sleep" /\ ~Empty => \E t \in Producer \cup Timer : pc[t] = "signal"

SInv == QueueEmptyMutexOwned /\ SignalBehindMutex /\ WakeupOnItsWay

(* A push by another thread. *)
LEMMA PushSInv ==
    ASSUME NEW t \in Producer \cup Timer, SInv, BeginPush(t) \/ Push(t)
    PROVE  SInv'
<1> USE DEF Goto, locks, deque, SInv, QueueEmptyMutexOwned
<1>1. t \in Thread /\ t # Exec /\ Exec \in Thread /\ Exec # Nobody
  BY ThreadAssumption DEF Thread
<1>2. CASE BeginPush(t) \/ PassExogMutex(t) \/ Place(t) \/ Settle(t)
  <2>1. /\ UNCHANGED <<queue_empty_mutex, waiting, start, finish>>
        /\ \E l \in Label : pc' = [pc EXCEPT ![t] = l]
        /\ pc[t] \notin {"signal", "notify"}
    BY <1>2 DEF BeginPush, PassExogMutex, Place, Settle, Label
  <2> QED
    BY <1>1, <2>1 DEF SignalBehindMutex, WakeupOnItsWay, Notifying, Empty
<1>3. CASE Advance(t)
  <2>1. UNCHANGED <<queue_empty_mutex, waiting>> /\ pc' = [pc EXCEPT ![t] = "signal"]
    BY <1>3 DEF Advance
  <2>2. pc'[t] = "signal" /\ pc' \in [Thread -> Label]
    BY <1>1, <2>1 DEF Label
  <2> QED
    BY <1>1, <2>1, <2>2 DEF SignalBehindMutex, WakeupOnItsWay, Notifying
<1>4. CASE PassQueueEmptyMutex(t)
  <2>1. /\ UNCHANGED <<queue_empty_mutex, waiting, start, finish>> /\ pc' = [pc EXCEPT ![t] = "notify"]
        /\ queue_empty_mutex = Nobody
    BY <1>4 DEF PassQueueEmptyMutex
  <2>2. pc'[t] = "notify" /\ pc' \in [Thread -> Label] /\ pc'[Exec] = pc[Exec] /\ pc[Exec] # "sleep"
    BY <1>1, <2>1 DEF Label
  <2> QED
    BY <1>1, <2>1, <2>2 DEF SignalBehindMutex, WakeupOnItsWay, Notifying
<1>5. CASE Notify(t)
  <2>1. /\ UNCHANGED <<queue_empty_mutex, start, finish>> /\ waiting' = FALSE
        /\ pc[t] = "notify" /\ \E l \in Label : pc' = [pc EXCEPT ![t] = l]
    BY <1>5 DEF Notify, Label
  <2> QED
    BY <1>1, <2>1 DEF SignalBehindMutex, WakeupOnItsWay, Empty
<1> QED
  BY <1>2, <1>3, <1>4, <1>5 DEF Push

(* The execution thread: it does not go to sleep unless the queue is empty. *)
LEMMA ExecSInv ==
    ASSUME SInv, ExecStep \/ SpuriousWakeup
    PROVE  SInv'
<1> USE ThreadAssumption DEF Goto, locks, deque, SInv, QueueEmptyMutexOwned
<1>1. Exec \in Thread /\ Exec \notin Producer \cup Timer
  BY DEF Thread
<1>2. CASE Condition
  <2>1. /\ pc[Exec] = "condition" /\ UNCHANGED <<queue_empty_mutex, start, finish>>
        /\ \/ pc' = [pc EXCEPT ![Exec] = "unguard"]
           \/ pc' = [pc EXCEPT ![Exec] = "sleep"] /\ Empty
    BY <1>2 DEF Condition
  <2> QED
    BY <1>1, <2>1 DEF Label, SignalBehindMutex, WakeupOnItsWay, Empty
<1>3. CASE Sleep
  <2>1. pc[Exec] = "sleep" /\ pc' = [pc EXCEPT ![Exec] = "asleep"] /\ queue_empty_mutex' = Nobody
        /\ UNCHANGED <<start, finish>>
    BY <1>3 DEF Sleep
  <2>2. /\ pc'[Exec] = "asleep" /\ pc' \in [Thread -> Label]
        /\ \A t \in Producer \cup Timer : pc'[t] = pc[t]
    BY <1>1, <2>1 DEF Label, Thread
  <2> QED
    BY <2>1, <2>2 DEF SignalBehindMutex, WakeupOnItsWay, Notifying, Empty
<1>4. CASE SpuriousWakeup
  BY <1>1, <1>4 DEF SpuriousWakeup, SignalBehindMutex, WakeupOnItsWay, Empty
<1>5. CASE ExogEmpty \/ Front \/ PopFront \/ Work \/ Block \/ Wake \/ Timeout \/ Unguard \/ Unblock
  BY <1>1, <1>5
  DEF ExogEmpty, Front, PopFront, Work, Block, Wake, Timeout, Unguard, Unblock, Label,
      SignalBehindMutex, WakeupOnItsWay
<1>6. CASE Push(Exec)
  BY <1>1, <1>6
  DEF Push, PassExogMutex, Place, Advance, PassQueueEmptyMutex, Notify, Settle, Label,
      SignalBehindMutex, WakeupOnItsWay
<1> QED
  BY <1>2, <1>3, <1>4, <1>5, <1>6 DEF ExecStep

LEMMA TerminateSInv ==
    ASSUME SInv, TerminateStep
    PROVE  SInv'
<1>1. /\ Exec \in Thread /\ Terminator \in Thread /\ Exec # Terminator
      /\ Terminator \notin Producer \cup Timer
  BY ThreadAssumption DEF Thread
<1>2. /\ UNCHANGED <<queue_empty_mutex, start, finish>> /\ (waiting' = waiting \/ waiting' = FALSE)
      /\ \E l \in Label : pc' = [pc EXCEPT ![Terminator] = l]
  BY DEF TerminateStep, Terminate, TerminateReturn, Goto, locks, deque, Label
<1>3. /\ pc' \in [Thread -> Label] /\ pc'[Exec] = pc[Exec]
      /\ \A t \in Producer \cup Timer : pc'[t] = pc[t]
  BY <1>1, <1>2 DEF SInv, QueueEmptyMutexOwned, Thread
<1> QED
  BY <1>2, <1>3
  DEF SInv, QueueEmptyMutexOwned, SignalBehindMutex, WakeupOnItsWay, Notifying, Empty

(* No event is left behind by a sleeping execution thread, whatever producers and
   timers there are: if the queue is not empty, someone is about to notify. *)
THEOREM WakeupOnItsWayCorrect == Spec => []WakeupOnItsWay
<1>1. Init => SInv
  BY ThreadAssumption
  DEF Init, SInv, QueueEmptyMutexOwned, SignalBehindMutex, WakeupOnItsWay, Thread, Label
<1>2. SInv /\ [Next]_vars => SInv'
  <2> SUFFICES ASSUME SInv, [Next]_vars
               PROVE  SInv'
    OBVIOUS
  <2>1. CASE UNCHANGED vars
    BY <2>1
    DEF vars, locks, deque, SInv, QueueEmptyMutexOwned, SignalBehindMutex, WakeupOnItsWay,
        Notifying, Empty
  <2> QED
    BY <2>1, PushSInv, ExecSInv, TerminateSInv DEF Next
<1>3. SInv => WakeupOnItsWay
  BY DEF SInv
<1> QED
  BY <1>1, <1>2, <1>3, PTL DEF Spec

-----------------------------------------------------------------------------
(* A single producer p: its event n is placed in the cell n - 1, for a clock
   event that goes to the front is popped before the next event is. *)
Pushed(p, n) == [by |-> p, n |-> n]

Count == Len(popped)

(* finish counts the pushes that are complete. *)
ProducerCursor(p) ==
    /\ pc[p] \in {"start", "push", "place", "advance", "signal", "notify"}
    /\ finish = IF pc[p] \in {"push", "place", "advance"} THEN pushed[p] - 1 ELSE pushed[p]
    /\ pc[p] = "advance" => reg[p] = finish /\ cell[finish] = Pushed(p, finish + 1)

(* The events are popped up to Count, and in their cells from there. *)
EventsInOrder(p) ==
    /\ Count <= finish
    /\ \A i \in 1..Count : popped[i] = Pushed(p, i)
    /\ \A j \in Count..(finish - 1) : cell[j] = Pushed(p, j + 1)

(* start is at the next event, or before it while it is popped or while there
   is a clock event. *)
FrontCursor ==
    /\ pc[Exec] \in {"empty", "front"} =>
          start = Count \/ (start = Count - 1 /\ cell[start] = Clock)
    /\ pc[Exec] = "front" => start < finish
    /\ pc[Exec] = "pop" => start = Count - 1 /\ reg[Exec] = start
    /\ pc[Exec] = "advance" => start = Count /\ reg[Exec] = start /\ cell[Count - 1] = Clock
    /\ pc[Exec] \in {"signal", "notify", "settle"} => start = Count - 1 /\ cell[start] = Clock
    /\ pc[Exec] \notin {"empty", "front", "pop", "signal", "notify", "settle"} => start = Count

QInv(p) == TypeOK /\ ProducerCursor(p) /\ EventsInOrder(p) /\ FrontCursor

LEMMA InRange == \A a, b, j \in Int : j \in a..b <=> a <= j /\ j <= b
OBVIOUS

LEMMA QInvInit ==
    ASSUME NEW p, Producer = {p}, Timer = {}, Init
    PROVE  QInv(p)
<1>1. Exec \in Thread /\ p \in Thread /\ p # Exec /\ Terminator \in Thread
  BY ThreadAssumption DEF Thread
<1>2. 0 \in Slot /\ 0 \in 0..MaxPush
  BY MaxPushAssumption DEF Slot
<1>3. TypeOK
  BY <1>2 DEF Init, TypeOK, Item, Label
<1>4. Count = 0
  BY DEF Init, Count
<1>5. ProducerCursor(p)
  BY <1>1 DEF Init, ProducerCursor
<1>6. EventsInOrder(p)
  BY <1>4 DEF Init, EventsInOrder
<1>7. FrontCursor
  BY <1>1, <1>4 DEF Init, FrontCursor
<1> QED
  BY <1>3, <1>5, <1>6, <1>7 DEF QInv

LEMMA Bounds ==
    ASSUME NEW p, Producer = {p}, QInv(p)
    PROVE  /\ Count \in Nat /\ finish \in 0..MaxPush /\ pushed[p] \in 0..MaxPush
           /\ start \in {Count - 1, Count} /\ Count <= finish
           /\ \A s \in -2..(MaxPush + 1) : s \in Slot
           /\ MaxPush \in Nat
<1>1. MaxPush \in Nat /\ pushed[p] \in 0..MaxPush
  BY MaxPushAssumption DEF QInv, TypeOK
<1>2. Count \in Nat
  BY DEF QInv, TypeOK, Count
<1>3. finish \in Int /\ finish <= pushed[p] /\ Count <= finish
  BY <1>1 DEF QInv, ProducerCursor, EventsInOrder
<1>4. start \in {Count - 1, Count}
  BY DEF QInv, FrontCursor
<1>5. \A s \in -2..(MaxPush + 1) : s \in Slot
  BY <1>1 DEF Slot
<1> QED
  BY <1>1, <1>2, <1>3, <1>4, <1>5

LEMMA ClockIsNotPushed == \A p, n : Pushed(p, n) # Clock /\ Pushed(p, n) # Null
<1>1. \A p, n : "n" \in DOMAIN Pushed(p, n)
  BY DEF Pushed
<1>2. "n" \notin DOMAIN Clock /\ "n" \notin DOMAIN Null
  BY DEF Clock, Null
<1> QED
  BY <1>1, <1>2

(* The steps of the execution thread that leave the queue alone. *)
LEMMA QInvWait ==
    ASSUME NEW p, Producer = {p}, QInv(p),
           \/ ExogEmpty \/ Work \/ Block \/ Condition \/ Sleep \/ Wake \/ SpuriousWakeup
           \/ Timeout \/ Unguard \/ Unblock
    PROVE  QInv(p)'
<1>1. Exec \in Thread /\ p \in Thread /\ p # Exec /\ pc \in [Thread -> Label]
  BY ThreadAssumption DEF Thread, QInv, TypeOK
<1>2. UNCHANGED <<deque, reg, pushed, popped>>
  BY DEF ExogEmpty, Work, Block, Condition, Sleep, Wake, SpuriousWakeup, Timeout, Unguard,
         Unblock
<1>3. pc' = pc \/ \E l \in Label : pc' = [pc EXCEPT ![Exec] = l]
  BY DEF ExogEmpty, Work, Block, Condition, Sleep, Wake, SpuriousWakeup, Timeout, Unguard,
         Unblock, Goto, Label
<1>4. pc' \in [Thread -> Label] /\ pc'[p] = pc[p]
  BY <1>1, <1>3
<1>5. /\ exog_mutex' = exog_mutex
      /\ queue_empty_mutex' \in {Nobody, Exec} /\ wait_mutex' \in {Nobody, Exec}
      /\ terminated' = terminated
  BY DEF ExogEmpty, Work, Block, Condition, Sleep, Wake, SpuriousWakeup, Timeout, Unguard,
         Unblock, locks, QInv, TypeOK
<1>6. waiting' \in BOOLEAN /\ timed' \in BOOLEAN
  <2>1. waiting' \in {waiting, TRUE, FALSE} /\ timed' \in {timed, TRUE, FALSE}
    BY DEF ExogEmpty, Work, Block, Condition, Sleep, Wake, SpuriousWakeup, Timeout, Unguard,
           Unblock
  <2> QED
    BY <2>1 DEF QInv, TypeOK
<1>7. TypeOK'
  BY <1>2, <1>4, <1>5, <1>6 DEF QInv, TypeOK, deque
<1>8. ProducerCursor(p)' /\ EventsInOrder(p)'
  BY <1>2, <1>4 DEF QInv, ProducerCursor, EventsInOrder, Count, deque
<1>9. FrontCursor'
  <2>1. FrontCursor /\ start' = start /\ finish' = finish /\ cell' = cell /\ Count' = Count
        /\ reg' = reg
    BY <1>2 DEF QInv, deque, Count
  <2>2. CASE ExogEmpty
    <3>1. pc[Exec] = "empty" /\ pc'[Exec] = IF Empty THEN "work" ELSE "front"
      BY <1>1, <2>2 DEF ExogEmpty, Goto
    <3> QED
      BY <2>1, <3>1, Bounds DEF FrontCursor, Empty
  <2>3. CASE ~ExogEmpty
    <3> DEFINE Aside == {"work", "end", "block", "guard", "condition", "sleep", "asleep",
                         "unguard", "unblock"}
    <3>1. pc[Exec] \in Aside /\ pc'[Exec] \in Aside \cup {"empty", "push"}
      BY <1>1, <2>3 DEF Work, Block, Condition, Sleep, Wake, SpuriousWakeup, Timeout, Unguard,
                        Unblock, Goto
    <3> QED
      BY <2>1, <3>1 DEF FrontCursor
  <2> QED
    BY <2>2, <2>3
<1> QED
  BY <1>7, <1>8, <1>9 DEF QInv

(* terminate leaves it alone, too. *)
LEMMA QInvTerminate ==
    ASSUME NEW p, Producer = {p}, QInv(p), TerminateStep
    PROVE  QInv(p)'
<1>1. /\ p \in Thread /\ p # Terminator /\ Exec # Terminator /\ pc \in [Thread -> Label]
      /\ Exec \in Thread /\ Terminator \in Thread
  BY ThreadAssumption DEF Thread, QInv, TypeOK
<1>2. /\ UNCHANGED <<deque, queue_empty_mutex, wait_mutex, timed, reg, pushed, popped>>
      /\ exog_mutex' \in {exog_mutex, Nobody, Terminator}
  BY DEF TerminateStep, Terminate, TerminateReturn, locks
<1>3. \E l \in Label : pc' = [pc EXCEPT ![Terminator] = l]
  BY DEF TerminateStep, Terminate, TerminateReturn, Goto, Label
<1>4. pc' \in [Thread -> Label] /\ pc'[p] = pc[p] /\ pc'[Exec] = pc[Exec]
  BY <1>1, <1>3
<1>5. waiting' \in BOOLEAN /\ terminated' \in BOOLEAN
  <2>1. waiting' \in {waiting, FALSE} /\ terminated' \in {terminated, TRUE}
    BY DEF TerminateStep, Terminate, TerminateReturn
  <2> QED
    BY <2>1 DEF QInv, TypeOK
<1>6. TypeOK'
  BY <1>2, <1>4, <1>5 DEF QInv, TypeOK, deque
<1>7. ProducerCursor(p)' /\ EventsInOrder(p)' /\ FrontCursor'
  BY <1>2, <1>4 DEF QInv, ProducerCursor, EventsInOrder, FrontCursor, Count, deque
<1> QED
  BY <1>6, <1>7 DEF QInv

(* The producer's push. *)
LEMMA QInvProducer ==
    ASSUME NEW p, Producer = {p}, QInv(p), BeginPush(p) \/ Push(p)
    PROVE  QInv(p)'
<1>1. /\ p \in Thread /\ p \in Producer /\ p \notin Timer /\ p # Exec /\ Exec \in Thread
      /\ pc \in [Thread -> Label] /\ reg \in [Thread -> Slot] /\ cell \in [Slot -> Item]
      /\ pushed \in [Producer -> 0..MaxPush]
  BY ThreadAssumption DEF Thread, QInv, TypeOK
<1>2. UNCHANGED <<locks, timed, terminated, popped>> /\ waiting' \in BOOLEAN
  <2>1. UNCHANGED <<locks, timed, terminated, popped>> /\ waiting' \in {waiting, FALSE}
    BY DEF BeginPush, Push, PassExogMutex, Place, Advance, PassQueueEmptyMutex, Notify, Settle
  <2> QED
    BY <2>1 DEF QInv, TypeOK
<1>3. \E l \in Label : pc' = [pc EXCEPT ![p] = l]
  BY DEF BeginPush, Push, PassExogMutex, Place, Advance, PassQueueEmptyMutex, Notify, Settle,
         Goto, Label
<1>4. pc' \in [Thread -> Label] /\ pc'[Exec] = pc[Exec]
  BY <1>1, <1>3
<1>5. Count' = Count
  BY <1>2 DEF Count
<1> DEFINE Fits == /\ cell' \in [Slot -> Item] /\ start' = start /\ finish' \in Slot
                   /\ reg' \in [Thread -> Slot] /\ pushed' \in [Producer -> 0..MaxPush]
           Behind == /\ \A s \in Slot : s < finish => cell'[s] = cell[s]
                     /\ reg'[Exec] = reg[Exec] /\ finish' >= finish
                     /\ \A j \in finish..(finish' - 1) : cell'[j] = Pushed(p, j + 1)
<1>6. Fits /\ Behind /\ ProducerCursor(p)'
  <2>1. /\ finish \in 0..MaxPush /\ finish \in Slot /\ finish + 1 \in Slot
        /\ pushed[p] \in 0..MaxPush /\ MaxPush \in Nat
    BY Bounds
  <2>2. ProducerCursor(p)
    BY DEF QInv
  <2>3. ASSUME UNCHANGED <<cell, start, finish, reg>>
        PROVE  Behind /\ (pushed' \in [Producer -> 0..MaxPush] => Fits)
    BY <1>1, <2>1, <2>3 DEF QInv, TypeOK
  <2>4. CASE BeginPush(p)
    <3>1. pushed' = [pushed EXCEPT ![p] = @ + 1] /\ pushed[p] < MaxPush /\ pc[p] = "start"
          /\ pc'[p] = "push" /\ UNCHANGED <<cell, start, finish, reg>>
      BY <1>1, <2>4 DEF BeginPush, Goto, deque
    <3>2. pushed'[p] = pushed[p] + 1 /\ pushed' \in [Producer -> 0..MaxPush]
      BY <1>1, <2>1, <3>1
    <3> QED
      BY <2>1, <2>2, <2>3, <3>1, <3>2 DEF ProducerCursor
  <2>5. CASE PassExogMutex(p) \/ PassQueueEmptyMutex(p) \/ Notify(p)
    <3>1. /\ UNCHANGED <<cell, start, finish, reg, pushed>>
          /\ \/ pc[p] = "push" /\ pc'[p] = "place"
             \/ pc[p] = "signal" /\ pc'[p] = "notify"
             \/ pc[p] = "notify" /\ pc'[p] = "start"
      BY <1>1, <2>5 DEF PassExogMutex, PassQueueEmptyMutex, Notify, Goto, deque
    <3> QED
      BY <1>1, <2>2, <2>3, <3>1 DEF ProducerCursor
  <2>6. CASE Place(p)
    <3>1. /\ reg' = [reg EXCEPT ![p] = finish]
          /\ cell' = [cell EXCEPT ![finish] = Pushed(p, pushed[p])]
          /\ pc[p] = "place" /\ pc'[p] = "advance" /\ UNCHANGED <<start, finish, pushed>>
      BY <1>1, <2>6 DEF Place, Goto, Pushed
    <3>2. finish = pushed[p] - 1 /\ pushed[p] \in 1..MaxPush /\ pushed[p] = finish + 1
      BY <2>1, <2>2, <3>1 DEF ProducerCursor
    <3>3. Pushed(p, pushed[p]) \in Item
      BY <1>1, <3>2 DEF Pushed, Item, Event
    <3>4. reg'[p] = finish /\ cell'[finish] = Pushed(p, finish + 1) /\ reg'[Exec] = reg[Exec]
      BY <1>1, <2>1, <3>1, <3>2
    <3>5. Fits
      BY <1>1, <2>1, <3>1, <3>3 DEF QInv, TypeOK
    <3>6. Behind
      BY <1>1, <2>1, <3>1, <3>4
    <3>7. ProducerCursor(p)'
      BY <3>1, <3>2, <3>4 DEF ProducerCursor
    <3> QED
      BY <3>5, <3>6, <3>7
  <2>7. CASE Advance(p)
    <3>1. /\ finish' \in {reg[p] + 1, finish + 1} /\ pc[p] = "advance" /\ pc'[p] = "signal"
          /\ UNCHANGED <<cell, start, reg, pushed>>
      BY <1>1, <2>7 DEF Advance, Goto
    <3>2. /\ finish' = finish + 1 /\ finish' = pushed'[p]
          /\ cell'[finish] = Pushed(p, finish + 1)
      BY <2>1, <2>2, <3>1 DEF ProducerCursor
    <3>3. Fits
      BY <1>1, <2>1, <3>1, <3>2 DEF QInv, TypeOK
    <3>4. Behind
      BY <2>1, <3>1, <3>2
    <3>5. ProducerCursor(p)'
      BY <3>1, <3>2 DEF ProducerCursor
    <3> QED
      BY <3>3, <3>4, <3>5
  <2>8. CASE Settle(p)
    BY <2>2, <2>8 DEF Settle, ProducerCursor
  <2> QED
    BY <2>4, <2>5, <2>6, <2>7, <2>8 DEF Push
<1>7. TypeOK'
  BY <1>2, <1>4, <1>6 DEF QInv, TypeOK, locks
<1>8. EventsInOrder(p)' /\ FrontCursor'
  <2>1. /\ Count \in Nat /\ finish \in Nat /\ Count <= finish /\ start \in {Count - 1, Count}
        /\ start \in Slot /\ finish \in Slot /\ finish' \in Int
        /\ \A j \in -1..finish : j \in Slot
    <3>1. Count \in Nat /\ finish \in 0..MaxPush /\ Count <= finish /\ MaxPush \in Nat
          /\ start \in {Count - 1, Count} /\ \A s \in -2..(MaxPush + 1) : s \in Slot
      BY Bounds
    <3>2. start \in Slot /\ finish \in Slot
      BY DEF QInv, TypeOK
    <3>3. finish' \in Int
      <4>1. finish' \in Slot
        BY <1>6
      <4> QED
        BY <4>1, <3>1 DEF Slot
    <3>4. \A j \in -1..finish : j \in -2..(MaxPush + 1)
      BY <3>1
    <3> QED
      BY <3>1, <3>2, <3>3, <3>4
  <2>2. \A j \in -1..(finish - 1) : cell'[j] = cell[j]
    BY <1>6, <2>1
  <2> HIDE DEF Fits
  <2>3. EventsInOrder(p)'
    <3>1. ASSUME NEW j \in Int, Count <= j, j <= finish' - 1 PROVE cell'[j] = Pushed(p, j + 1)
      <4>1. CASE j < finish
        <5>1. j \in Count..(finish - 1) /\ j \in -1..(finish - 1)
          BY <2>1, <3>1, <4>1
        <5> QED
          BY <2>2, <5>1 DEF QInv, EventsInOrder
      <4>2. CASE j >= finish
        <5>1. j \in finish..(finish' - 1)
          <6>1. finish \in Int /\ finish' - 1 \in Int
            BY <2>1
          <6>2. finish <= j /\ j <= finish' - 1
            BY <2>1, <3>1, <4>2
          <6> QED
            BY <6>1, <6>2, InRange
        <5> QED
          BY <1>6, <5>1
      <4> QED
        BY <2>1, <3>1, <4>1, <4>2
    <3> QED
      <4>1. Count' <= finish'
        BY <1>5, <1>6, <2>1
      <4>2. \A i \in 1..Count' : popped'[i] = Pushed(p, i)
        BY <1>2, <1>5 DEF QInv, EventsInOrder
      <4>3. \A j \in Count'..(finish' - 1) : cell'[j] = Pushed(p, j + 1)
        <5>1. \A j \in Count..(finish' - 1) : j \in Int /\ Count <= j /\ j <= finish' - 1
          <6>1. Count \in Int /\ finish' - 1 \in Int
            BY <2>1
          <6> QED
            BY <6>1, InRange
        <5> QED
          BY <1>5, <3>1, <5>1
      <4> QED
        BY <4>1, <4>2, <4>3 DEF EventsInOrder
  <2>4. start' = start /\ reg'[Exec] = reg[Exec] /\ finish' >= finish
    BY <1>6 DEF Fits
  <2>5. Count - 1 \in -1..(finish - 1) /\ (start = Count - 1 => cell'[start] = cell[start])
    BY <2>1, <2>2
  <2>6. cell'[Count - 1] = cell[Count - 1]
    BY <2>2, <2>5
  <2>7. FrontCursor
    BY DEF QInv
  <2>8. FrontCursor'
    BY <1>4, <1>5, <2>1, <2>4, <2>5, <2>6, <2>7 DEF FrontCursor
  <2> QED
    BY <2>3, <2>8
<1> QED
  BY <1>6, <1>7, <1>8 DEF QInv

(* The execution thread pops an event, or a clock event. *)
LEMMA QInvPop ==
    ASSUME NEW p, Producer = {p}, QInv(p), Front \/ PopFront
    PROVE  QInv(p)'
<1>1. /\ p \in Thread /\ p # Exec /\ Exec \in Thread
      /\ pc \in [Thread -> Label] /\ reg \in [Thread -> Slot] /\ cell \in [Slot -> Item]
      /\ popped \in Seq(Event \cup {Null})
  BY ThreadAssumption DEF Thread, QInv, TypeOK
<1>2. /\ Count \in Nat /\ finish \in 0..MaxPush /\ Count <= finish /\ MaxPush \in Nat
      /\ start \in {Count - 1, Count} /\ start \in Slot
      /\ \A j \in -1..(MaxPush + 1) : j \in Slot
  BY Bounds
<1>3. ProducerCursor(p) /\ EventsInOrder(p) /\ FrontCursor /\ TypeOK
  BY DEF QInv
<1>4. CASE Front
  <2>1. /\ pc[Exec] = "front" /\ exog_mutex' = Exec
        /\ reg' = [reg EXCEPT ![Exec] = start]
        /\ popped' = IF cell[start] = Clock THEN popped ELSE Append(popped, cell[start])
        /\ cell' = [cell EXCEPT ![start] = Null]
        /\ pc' = [pc EXCEPT ![Exec] = "pop"]
        /\ UNCHANGED <<start, finish, queue_empty_mutex, wait_mutex, waiting, timed,
                       terminated, pushed>>
    BY <1>4 DEF Front, Goto
  <2>2. pc' \in [Thread -> Label] /\ pc'[p] = pc[p] /\ pc'[Exec] = "pop" /\ reg'[p] = reg[p]
        /\ reg'[Exec] = start /\ reg' \in [Thread -> Slot]
    BY <1>1, <1>2, <2>1 DEF Label
  <2>3. start < finish /\ (start = Count \/ (start = Count - 1 /\ cell[start] = Clock))
    BY <1>3, <2>1 DEF FrontCursor
  <2>4. /\ Count' \in Nat /\ start = Count' - 1 /\ Count <= Count' /\ Count' <= finish
        /\ \A i \in 1..Count' : popped'[i] = Pushed(p, i)
        /\ popped' \in Seq(Event \cup {Null})
    <3>1. CASE start = Count
      <4>1. cell[start] = Pushed(p, Count + 1)
        BY <1>2, <1>3, <2>3, <3>1 DEF EventsInOrder
      <4>2. popped' = Append(popped, Pushed(p, Count + 1))
        BY <2>1, <4>1, ClockIsNotPushed
      <4>3. Pushed(p, Count + 1) \in Event
        BY <1>2, <2>3, <3>1 DEF Pushed, Event
      <4>4. Count' = Count + 1 /\ popped' \in Seq(Event \cup {Null})
        BY <1>1, <4>2, <4>3 DEF Count
      <4>5. \A i \in 1..Count + 1 : popped'[i] = IF i = Count + 1 THEN Pushed(p, Count + 1)
                                                ELSE popped[i]
        BY <1>1, <4>2, <4>3 DEF Count
      <4>6. \A i \in 1..Count : popped[i] = Pushed(p, i)
        BY <1>3 DEF EventsInOrder
      <4> QED
        BY <1>2, <2>3, <3>1, <4>4, <4>5, <4>6
    <3>2. CASE start # Count
      <4>1. popped' = popped /\ Count' = Count
        BY <2>1, <2>3, <3>2 DEF Count
      <4> QED
        BY <1>1, <1>2, <1>3, <2>3, <3>2, <4>1 DEF EventsInOrder
    <3> QED
      BY <3>1, <3>2
  <2>5. cell' \in [Slot -> Item] /\ \A j \in Slot : j # start => cell'[j] = cell[j]
    BY <1>1, <1>2, <2>1 DEF Item
  <2>6. TypeOK'
    BY <1>3, <2>1, <2>2, <2>4, <2>5 DEF TypeOK
  <2>7. ProducerCursor(p)'
    <3>1. finish \in Slot /\ finish # start
      BY <1>2, <2>3
    <3> QED
      BY <1>3, <2>1, <2>2, <2>5, <3>1 DEF ProducerCursor
  <2>8. EventsInOrder(p)'
    <3>1. \A j \in Count'..(finish - 1) : j \in Slot /\ j # start /\ j \in Count..(finish - 1)
      <4>1. ASSUME NEW j \in Int, Count' <= j, j <= finish - 1
            PROVE  j \in -1..(MaxPush + 1) /\ j # start /\ j \in Count..(finish - 1)
        <5>1. /\ Count \in Nat /\ Count' \in Nat /\ Count <= Count' /\ start = Count' - 1
              /\ MaxPush \in Nat /\ finish \in 0..MaxPush
          BY <1>2, <2>4
        <5>2. -1 <= j /\ j <= MaxPush + 1 /\ j # start /\ Count <= j
          <6>1. PICK d \in Nat : d = Count'
            BY <5>1
          <6>2. d <= j /\ start = d - 1 /\ Count <= d
            BY <4>1, <5>1, <6>1
          <6>3. /\ Count \in Nat /\ MaxPush \in Nat /\ finish \in 0..MaxPush
                /\ j <= finish - 1
            BY <4>1, <5>1
          <6> QED
            BY <6>2, <6>3
        <5>3. finish - 1 \in Int /\ MaxPush + 1 \in Int /\ Count \in Int /\ -1 \in Int
          BY <5>1
        <5> QED
          BY <4>1, <5>2, <5>3, InRange
      <4>2. \A j \in Count'..(finish - 1) : j \in Int /\ Count' <= j /\ j <= finish - 1
        BY <1>2, <2>4
      <4> QED
        BY <1>2, <4>1, <4>2
    <3>2. \A j \in Count'..(finish - 1) : cell'[j] = Pushed(p, j + 1)
      BY <1>3, <2>5, <3>1 DEF EventsInOrder
    <3> QED
      BY <2>1, <2>4, <3>2 DEF EventsInOrder
  <2>9. FrontCursor'
    BY <2>1, <2>2, <2>4 DEF FrontCursor
  <2> QED
    BY <2>6, <2>7, <2>8, <2>9 DEF QInv
<1>5. CASE PopFront
  <2>1. /\ pc[Exec] = "pop" /\ start' \in {reg[Exec] + 1, start + 1} /\ exog_mutex' = Nobody
        /\ pc' = [pc EXCEPT ![Exec] = "empty"]
        /\ UNCHANGED <<cell, finish, queue_empty_mutex, wait_mutex, waiting, timed,
                       terminated, reg, pushed, popped>>
    BY <1>5 DEF PopFront, Goto
  <2>2. pc' \in [Thread -> Label] /\ pc'[p] = pc[p] /\ pc'[Exec] = "empty"
    BY <1>1, <2>1 DEF Label
  <2>3. start' = Count /\ Count' = Count /\ start' \in Slot
    BY <1>2, <1>3, <2>1 DEF FrontCursor, Count
  <2>4. TypeOK'
    BY <1>3, <2>1, <2>2, <2>3 DEF TypeOK
  <2>5. ProducerCursor(p)' /\ EventsInOrder(p)' /\ FrontCursor'
    BY <1>3, <2>1, <2>2, <2>3 DEF ProducerCursor, EventsInOrder, FrontCursor
  <2> QED
    BY <2>4, <2>5 DEF QInv
<1> QED
  BY <1>4, <1>5

(* The execution thread pushes a clock event to the front, when its wait has
   timed out. *)
LEMMA QInvClock ==
    ASSUME NEW p, Producer = {p}, QInv(p), Push(Exec)
    PROVE  QInv(p)'
<1>1. /\ p \in Thread /\ p # Exec /\ Exec \in Thread /\ Exec \notin Producer
      /\ pc \in [Thread -> Label] /\ reg \in [Thread -> Slot] /\ cell \in [Slot -> Item]
  BY ThreadAssumption DEF Thread, QInv, TypeOK
<1>2. /\ Count \in Nat /\ finish \in 0..MaxPush /\ Count <= finish /\ MaxPush \in Nat
      /\ start \in {Count - 1, Count} /\ start \in Slot /\ Count - 1 \in Slot
  <2>1. Count - 1 \in -2..(MaxPush + 1)
    BY Bounds
  <2> QED
    BY <2>1, Bounds DEF QInv, TypeOK
<1>3. ProducerCursor(p) /\ EventsInOrder(p) /\ FrontCursor /\ TypeOK
  BY DEF QInv
<1>4. UNCHANGED <<finish, locks, timed, terminated, pushed, popped>> /\ waiting' \in BOOLEAN
  <2>1. /\ UNCHANGED <<finish, locks, timed, terminated, pushed, popped>>
        /\ waiting' \in {waiting, FALSE}
    BY <1>1 DEF Push, PassExogMutex, Place, Advance, PassQueueEmptyMutex, Notify, Settle, deque
  <2> QED
    BY <2>1 DEF QInv, TypeOK
<1>5. \E l \in Label : pc' = [pc EXCEPT ![Exec] = l]
  BY DEF Push, PassExogMutex, Place, Advance, PassQueueEmptyMutex, Notify, Settle, Goto, Label
<1>6. pc' \in [Thread -> Label] /\ pc'[p] = pc[p]
  BY <1>1, <1>5
<1>7. Count' = Count
  BY <1>4 DEF Count
<1> DEFINE Fits == cell' \in [Slot -> Item] /\ start' \in Slot /\ reg' \in [Thread -> Slot]
           Ahead == reg'[p] = reg[p] /\ \A j \in Slot : j >= Count => cell'[j] = cell[j]
<1>8. Fits /\ Ahead /\ FrontCursor'
  <2>1. ASSUME UNCHANGED <<cell, start, reg>>
        PROVE  Fits /\ Ahead
    BY <1>1, <1>2, <2>1
  <2>2. CASE PassExogMutex(Exec) \/ PassQueueEmptyMutex(Exec) \/ Notify(Exec) \/ Settle(Exec)
    <3>1. /\ UNCHANGED <<cell, start, reg>>
          /\ \/ pc[Exec] = "push" /\ pc'[Exec] = "place"
             \/ pc[Exec] = "signal" /\ pc'[Exec] = "notify"
             \/ pc[Exec] = "notify" /\ pc'[Exec] = "settle"
             \/ pc[Exec] = "settle" /\ pc'[Exec] = "empty"
      BY <1>1, <2>2 DEF PassExogMutex, PassQueueEmptyMutex, Notify, Settle, Goto, deque
    <3> QED
      BY <1>3, <1>4, <1>7, <2>1, <3>1 DEF FrontCursor
  <2>3. CASE Place(Exec)
    <3>1. /\ reg' = [reg EXCEPT ![Exec] = start]
          /\ cell' = [cell EXCEPT ![start - 1] = Clock]
          /\ pc[Exec] = "place" /\ pc'[Exec] = "advance" /\ UNCHANGED start
      BY <1>1, <2>3 DEF Place, Goto
    <3>2. start = Count
      BY <1>3, <3>1 DEF FrontCursor
    <3>3. cell' \in [Slot -> Item] /\ cell'[Count - 1] = Clock
      BY <1>1, <1>2, <3>1, <3>2 DEF Item
    <3>4. \A j \in Slot : j >= Count => cell'[j] = cell[j]
      BY <1>1, <1>2, <3>1, <3>2
    <3>5. reg' \in [Thread -> Slot] /\ reg'[Exec] = start /\ reg'[p] = reg[p]
      BY <1>1, <1>2, <3>1
    <3>6. FrontCursor'
      BY <1>7, <3>1, <3>2, <3>3, <3>5 DEF FrontCursor
    <3> QED
      BY <1>2, <3>1, <3>3, <3>4, <3>5, <3>6
  <2>4. CASE Advance(Exec)
    <3>1. /\ start' \in {reg[Exec] - 1, start - 1} /\ pc[Exec] = "advance"
          /\ pc'[Exec] = "signal" /\ UNCHANGED <<cell, reg>>
      BY <1>1, <2>4 DEF Advance, Goto
    <3>2. start' = Count - 1 /\ cell'[Count - 1] = Clock
      BY <1>3, <3>1 DEF FrontCursor
    <3> QED
      BY <1>1, <1>2, <1>7, <3>1, <3>2 DEF FrontCursor
  <2> QED
    BY <2>2, <2>3, <2>4 DEF Push
<1>9. TypeOK'
  BY <1>3, <1>4, <1>6, <1>8 DEF TypeOK, locks
<1>10. ProducerCursor(p)'
  <2>1. finish \in Slot /\ finish >= Count
    BY <1>2 DEF QInv, TypeOK
  <2>2. cell'[finish] = cell[finish] /\ reg'[p] = reg[p]
    BY <1>8, <2>1
  <2> QED
    BY <1>3, <1>4, <1>6, <2>2 DEF ProducerCursor
<1>11. EventsInOrder(p)'
  <2>1. \A j \in Count..(finish - 1) : j \in Slot /\ j >= Count
    <3>1. \A j \in Count..(finish - 1) : j \in -2..(MaxPush + 1) /\ j >= Count
      BY <1>2
    <3> QED
      BY <3>1, Bounds
  <2>2. \A j \in Count..(finish - 1) : cell'[j] = cell[j]
    BY <1>8, <2>1
  <2> QED
    BY <1>3, <1>4, <1>7, <2>2 DEF EventsInOrder
<1> QED
  BY <1>8, <1>9, <1>10, <1>11 DEF QInv

THEOREM QInvCorrect ==
    ASSUME NEW p, Producer = {p}, Timer = {}
    PROVE  Spec => []QInv(p)
<1>1. Init => QInv(p)
  BY QInvInit
<1>2. QInv(p) /\ [Next]_vars => QInv(p)'
  <2> SUFFICES ASSUME QInv(p), [Next]_vars
               PROVE  QInv(p)'
    OBVIOUS
  <2>1. CASE UNCHANGED vars
    BY <2>1 DEF vars, deque, locks, QInv, TypeOK, ProducerCursor, EventsInOrder, FrontCursor,
                Count
  <2>2. CASE ExecStep \/ SpuriousWakeup
    BY <2>2, QInvWait, QInvPop, QInvClock DEF ExecStep
  <2>3. CASE TerminateStep
    BY <2>3, QInvTerminate
  <2>4. ASSUME NEW t \in Producer \cup Timer, BeginPush(t) \/ Push(t)
        PROVE  QInv(p)'
    <3>1. t = p
      OBVIOUS
    <3> QED
      BY <2>4, <3>1, QInvProducer
  <2> QED
    BY <2>1, <2>2, <2>3, <2>4 DEF Next
<1> QED
  BY <1>1, <1>2, PTL DEF Spec

(* With a single producer the cursors of the deque and all else keep their types,
   although no push holds a lock. *)
THEOREM TypeCorrect ==
    ASSUME NEW p, Producer = {p}, Timer = {}
    PROVE  Spec => []TypeOK
<1>1. QInv(p) => TypeOK
  BY DEF QInv
<1> QED
  BY <1>1, QInvCorrect, PTL

(* ... its events are popped in the order they were pushed, each of them once,
   and never raw memory, whenever clock events are pushed in front of them ... *)
THEOREM ProducerOrderCorrect ==
    ASSUME NEW p, Producer = {p}, Timer = {}
    PROVE  Spec => []ProducerOrder
<1>1. QInv(p) => ProducerOrder
  <2> SUFFICES ASSUME QInv(p)
               PROVE  ProducerOrder
    OBVIOUS
  <2>1. Count \in Nat /\ Count <= finish /\ finish \in 0..MaxPush /\ pushed[p] \in 0..MaxPush
    BY Bounds
  <2>2. finish <= pushed[p]
    BY <2>1 DEF QInv, ProducerCursor
  <2>3. DOMAIN popped = 1..Count
    BY DEF QInv, TypeOK, Count
  <2>4. \A i \in 1..Count : popped[i] = Pushed(p, i)
    BY DEF QInv, EventsInOrder
  <2>5. \A i \in 1..Count : popped[i] # Null /\ popped[i].by = p /\ popped[i].n = i
    <3>1. \A i : Pushed(p, i) # Null /\ Pushed(p, i).by = p /\ Pushed(p, i).n = i
      <4>1. \A i : Pushed(p, i).by = p /\ Pushed(p, i).n = i
        BY DEF Pushed
      <4> QED
        BY <4>1, ClockIsNotPushed
    <3> QED
      BY <2>4, <3>1
  <2>6. PoppedBy(p) = 1..Count
    BY <2>3, <2>5 DEF PoppedBy
  <2>7. Cardinality(PoppedBy(p)) = Count
    BY <2>1, <2>6, FS_Interval
  <2>8. ASSUME NEW i \in PoppedBy(p)
        PROVE  popped[i].n = Cardinality({j \in PoppedBy(p) : j <= i})
    <3>1. i \in 1..Count /\ {j \in PoppedBy(p) : j <= i} = 1..i
      BY <2>1, <2>6
    <3>2. Cardinality(1..i) = i
      BY <2>1, <3>1, FS_Interval
    <3> QED
      BY <2>5, <3>1, <3>2
  <2> QED
    BY <2>1, <2>2, <2>3, <2>5, <2>7, <2>8 DEF ProducerOrder
<1> QED
  BY <1>1, QInvCorrect, PTL

(* ... and an event whose push is complete is in the queue until it is popped,
   which two producers can break. *)
THEOREM NothingLostAlone ==
    ASSUME NEW p, Producer = {p}, Timer = {}
    PROVE  Spec => []NothingLost
<1>1. QInv(p) => NothingLost
  <2> SUFFICES ASSUME QInv(p), NEW n \in 1..pushed[p],
                      n < pushed[p] \/ pc[p] \in {"start", "signal", "notify"}
               PROVE  \/ \E i \in DOMAIN popped : popped[i] = Pushed(p, n)
                      \/ \E s \in start..(finish - 1) : cell[s] = Pushed(p, n)
    BY DEF NothingLost, Pushed
  <2>1. /\ Count \in Nat /\ Count <= finish /\ finish \in 0..MaxPush
        /\ pushed[p] \in 0..MaxPush /\ start \in {Count - 1, Count} /\ MaxPush \in Nat
    BY Bounds
  <2>2. n <= finish
    BY <2>1 DEF QInv, ProducerCursor
  <2>3. CASE n <= Count
    <3>1. n \in DOMAIN popped
      BY <2>1, <2>3 DEF QInv, TypeOK, Count
    <3>2. popped[n] = Pushed(p, n)
      BY <2>1, <2>3 DEF QInv, EventsInOrder
    <3> QED
      BY <3>1, <3>2
  <2>4. CASE n > Count
    <3>1. n - 1 \in Count..(finish - 1) /\ n - 1 \in start..(finish - 1) /\ (n - 1) + 1 = n
      BY <2>1, <2>2, <2>4
    <3>2. cell[n - 1] = Pushed(p, n)
      BY <3>1 DEF QInv, EventsInOrder
    <3> QED
      BY <3>1, <3>2
  <2> QED
    BY <2>1, <2>3, <2>4
<1> QED
  BY <1>1, QInvCorrect, PTL

-----------------------------------------------------------------------------
(* What the channel sees of the queue: with one producer it is a matter of how
   many events were pushed and popped. *)
Events(p, from, to) == [i \in 1..to - from |-> Pushed(p, from + i)]

Seen(p) ==
    /\ [q \in Producer |-> Sent(q)] = [q \in {p} |-> finish]
    /\ UnderWay = Events(p, Count, finish)
    /\ popped \in Seq(Event \cup {Null}) /\ finish \in 0..MaxPush /\ Count <= finish
    /\ \A i \in 1..Count : popped[i] = Pushed(p, i)
    /\ pc[p] = "advance" => reg[p] = finish

LEMMA SeenByInv ==
    ASSUME NEW p, Producer = {p}, QInv(p)
    PROVE  Seen(p)
<1>1. Count \in Nat /\ finish \in 0..MaxPush /\ Count <= finish /\ MaxPush \in Nat
  BY Bounds
<1>2. Sent(p) = finish
  BY DEF QInv, ProducerCursor, Sent
<1>3. UnderWay = Events(p, Count, finish)
  <2>1. ASSUME NEW i \in 1..finish - Count
        PROVE  cell[Count + i - 1] = Pushed(p, Count + i)
    <3>1. Count + i - 1 \in Count..(finish - 1) /\ (Count + i - 1) + 1 = Count + i
      BY <1>1
    <3> QED
      BY <3>1 DEF QInv, EventsInOrder
  <2> QED
    BY <2>1 DEF UnderWay, Events, Count
<1> QED
  BY <1>1, <1>2, <1>3 DEF Seen, QInv, TypeOK, EventsInOrder, ProducerCursor

(* Only the move of the cursor and the look at the front are seen. *)
LEMMA SeenSteps ==
    ASSUME NEW p, Producer = {p}, Timer = {}, Seen(p), [Next]_vars
    PROVE  \/ UNCHANGED <<finish, popped>>
           \/ finish' = finish + 1 /\ popped' = popped
           \/ finish' = finish /\ \E e : popped' = Append(popped, e)
<1>1. Exec \notin Producer
  BY ThreadAssumption
<1>2. CASE UNCHANGED vars \/ SpuriousWakeup \/ TerminateStep
  BY <1>2 DEF vars, deque, SpuriousWakeup, TerminateStep, Terminate, TerminateReturn
<1>3. CASE ExogEmpty \/ PopFront \/ Work \/ Block \/ Condition \/ Sleep \/ Wake \/ Timeout
           \/ Unguard \/ Unblock
  BY <1>3 DEF ExogEmpty, PopFront, Work, Block, Condition, Sleep, Wake, Timeout, Unguard, Unblock,
              deque
<1>4. CASE Front
  BY <1>4 DEF Front
<1>5. CASE Push(Exec)
  BY <1>1, <1>5 DEF Push, PassExogMutex, Place, Advance, PassQueueEmptyMutex, Notify, Settle, deque
<1>6. ASSUME NEW t \in Producer \cup Timer, BeginPush(t) \/ Push(t)
      PROVE  UNCHANGED <<finish, popped>> \/ (finish' = finish + 1 /\ popped' = popped)
  <2>1. t = p
    OBVIOUS
  <2>2. CASE Advance(t)
    BY <2>1, <2>2 DEF Advance, Seen
  <2>3. CASE BeginPush(t) \/ PassExogMutex(t) \/ Place(t) \/ PassQueueEmptyMutex(t) \/ Notify(t)
             \/ Settle(t)
    BY <2>3 DEF BeginPush, PassExogMutex, Place, PassQueueEmptyMutex, Notify, Settle, deque
  <2> QED
    BY <1>6, <2>2, <2>3 DEF Push
<1> QED
  BY <1>2, <1>3, <1>4, <1>5, <1>6 DEF Next, ExecStep

LEMMA ChannelInitially ==
    ASSUME NEW p, Producer = {p}, Init
    PROVE  Channel!ChannelInit
<1>1. p \in Thread /\ p # Exec
  BY ThreadAssumption DEF Thread
<1>2. Sent(p) = 0
  BY <1>1 DEF Init, Sent
<1>3. UnderWay = <<>> /\ popped = <<>>
  BY DEF Init, UnderWay
<1> QED
  BY <1>2, <1>3 DEF Channel!ChannelInit

LEMMA ChannelStep ==
    ASSUME NEW p, Producer = {p}, Timer = {}, Seen(p), Seen(p)', [Next]_vars
    PROVE  [Channel!ChannelNext]_(Channel!channelVars)
<1> DEFINE s(f) == [q \in {p} |-> f]
           w(c, f) == Events(p, c, f)
<1>1. /\ [q \in Producer |-> Sent(q)] = s(finish) /\ UnderWay = w(Count, finish)
      /\ Count = Len(popped) /\ Count \in Nat /\ finish \in Nat /\ finish <= MaxPush /\ MaxPush \in Nat
      /\ popped \in Seq(Event \cup {Null}) /\ Count <= finish
  BY MaxPushAssumption DEF Seen, Count
<1>2. /\ [q \in Producer |-> Sent(q)]' = s(finish') /\ UnderWay' = w(Count', finish')
      /\ Count' = Len(popped') /\ Count' \in Nat /\ finish' \in Nat /\ finish' <= MaxPush
      /\ Count' <= finish' /\ \A i \in 1..Count' : popped'[i] = Pushed(p, i)
  BY MaxPushAssumption DEF Seen, Count
<1> HIDE DEF s, w
<1>3. CASE UNCHANGED <<finish, popped>>
  BY <1>1, <1>2, <1>3 DEF Channel!channelVars
<1>4. CASE finish' = finish + 1 /\ popped' = popped
  <2>1. s(finish)[p] = finish /\ s(finish') = [s(finish) EXCEPT ![p] = @ + 1]
    BY <1>4 DEF s
  <2>2. w(Count, finish + 1) = Append(w(Count, finish), Pushed(p, finish + 1))
    BY <1>1 DEF w, Events
  <2>3. Channel!Send(p)
    BY <1>1, <1>2, <1>4, <2>1, <2>2 DEF Channel!Send, Pushed
  <2> QED
    BY <2>3 DEF Channel!ChannelNext
<1>5. CASE finish' = finish /\ \E e : popped' = Append(popped, e)
  <2>1. PICK e : popped' = Append(popped, e)
    BY <1>5
  <2>2. Count' = Count + 1 /\ popped'[Count + 1] = e
    BY <1>1, <1>2, <2>1
  <2>3. e = Pushed(p, Count + 1)
    BY <1>1, <1>2, <2>2
  <2>4. w(Count, finish) # <<>> /\ Head(w(Count, finish)) = e
        /\ Tail(w(Count, finish)) = w(Count + 1, finish)
    <3> DEFINE q == w(Count, finish)
    <3>1. Count + 1 <= finish
      BY <1>2, <1>5, <2>2
    <3>2. /\ q \in Seq({Pushed(p, i) : i \in Nat}) /\ Len(q) = finish - Count
          /\ \A i \in 1..finish - Count : q[i] = Pushed(p, Count + i)
      <4>1. finish - Count \in Nat /\ \A i \in 1..finish - Count : Count + i \in Nat
        BY <1>1, <3>1
      <4>2. q = [i \in 1..finish - Count |-> Pushed(p, Count + i)]
        BY DEF w, Events
      <4>3. \A i \in 1..finish - Count : Pushed(p, Count + i) \in {Pushed(p, k) : k \in Nat}
        BY <4>1
      <4> HIDE DEF q
      <4> QED
        BY <4>1, <4>2, <4>3
    <3>3. 1 \in 1..finish - Count
      BY <1>1, <3>1
    <3> HIDE DEF q
    <3>4. q # <<>> /\ Head(q) = q[1]
      BY <3>2, <3>3
    <3>5. Head(q) = e
      BY <2>3, <3>2, <3>3, <3>4
    <3>6. /\ Tail(q) = [i \in 1..Len(q) - 1 |-> q[i + 1]]
          /\ \A i \in 1..Len(q) - 1 : q[i + 1] = Pushed(p, (Count + 1) + i)
      <4>1. Tail(q) = [i \in 1..Len(q) - 1 |-> q[i + 1]]
        <5> DEFINE S == {Pushed(p, i) : i \in Nat}
        <5>1. q \in Seq(S) /\ q # <<>>
          BY <3>2, <3>4
        <5> HIDE DEF S
        <5>2. /\ Tail(q) \in Seq(S) /\ Len(Tail(q)) = Len(q) - 1
              /\ \A i \in 1..Len(Tail(q)) : Tail(q)[i] = q[i + 1]
          BY <5>1, HeadTailProperties
        <5> DEFINE t == Tail(q)
        <5> HIDE DEF t
        <5>3. t \in Seq(S) /\ Len(t) = Len(q) - 1 /\ \A i \in 1..Len(t) : t[i] = q[i + 1]
          BY <5>2 DEF t
        <5>4. t = [i \in 1..Len(t) |-> t[i]]
          BY <5>3
        <5>5. t = [i \in 1..Len(q) - 1 |-> q[i + 1]]
          BY <5>3, <5>4
        <5> QED
          BY <5>5 DEF t
      <4>2. ASSUME NEW i \in 1..Len(q) - 1
            PROVE  q[i + 1] = Pushed(p, (Count + 1) + i)
        <5>1. i + 1 \in 1..finish - Count /\ Count + (i + 1) = (Count + 1) + i
          BY <1>1, <3>1, <3>2
        <5> QED
          BY <3>2, <5>1
      <4> QED
        BY <4>1, <4>2
    <3>7. Tail(q) = w(Count + 1, finish)
      BY <1>1, <3>2, <3>6 DEF w, Events
    <3> QED
      BY <3>4, <3>5, <3>7 DEF q
  <2>5. Channel!Receive
    BY <1>1, <1>2, <1>5, <2>1, <2>2, <2>4 DEF Channel!Receive
  <2> QED
    BY <2>5 DEF Channel!ChannelNext
<1> QED
  BY <1>3, <1>4, <1>5, SeenSteps

(* The queue of one producer is a channel: what a push has completed is received
   in its turn, once, at whatever steps the threads are. *)
THEOREM ChannelImplemented ==
    ASSUME NEW p, Producer = {p}, Timer = {}
    PROVE  Spec => ImplementsChannel
<1>1. Init => Channel!ChannelInit
  BY ChannelInitially
<1>2. QInv(p) => Seen(p)
  BY SeenByInv
<1>3. Seen(p) /\ Seen(p)' /\ [Next]_vars => [Channel!ChannelNext]_(Channel!channelVars)
  BY ChannelStep
<1> QED
  BY <1>1, <1>2, <1>3, QInvCorrect, PTL DEF Spec, ImplementsChannel, Channel!ChannelSpec
=============================================================================
