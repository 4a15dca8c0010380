------------------------ MODULE ExecutionLoop_proofs ------------------------
(***************************************************************************)
(* Theorems about the plans that the run loop makes and changes, for plans *)
(* of any length and any durations, and about the loop itself, for all     *)
(* values of the constants.                                                *)
(***************************************************************************)
EXTENDS ExecutionLoop, FoldLemmas, SequenceTheorems

-----------------------------------------------------------------------------
(* However a plan is appended to or slackened, its windows allow its elements *)
(* to be executed in their order.                                          *)

(* Elements whose instructions are of a set I. *)
Elements(I) == [do : I, early : Nat, late : Nat]
Element == Elements(Instruction)

(* sanitize_time_window puts the window of an instruction behind one that is not
   empty, whatever the durations: it is not empty either, and does not begin or
   end before that one. *)
LEMMA SanitizedBehind ==
    ASSUME NEW before \in Seq(Element), WellTimed(before), before # <<>>,
           NEW i \in Instruction, NEW t \in Nat
    PROVE  LET prev == before[Len(before)]
               w == Sanitized(before, i, t)
           IN  /\ w.early \in Nat /\ w.late \in Nat /\ w.early =< w.late
               /\ prev.early =< w.early /\ prev.late =< w.late
<1> DEFINE prev == before[Len(before)]
<1>1. Len(before) \in DOMAIN before /\ prev \in Element
    <2>1. Len(before) \in Nat /\ DOMAIN before = 1..Len(before)
        OBVIOUS
    <2>2. Len(before) # 0
        BY EmptySeq
    <2>. QED BY <2>1, <2>2
<1>2. prev.early \in Nat /\ prev.late \in Nat /\ prev.early =< prev.late
    BY <1>1 DEF Element, Elements, WellTimed
<1>3. CASE i.hook # "END"
    BY <1>2, <1>3 DEF Sanitized, Window
<1>4. CASE i.hook = "END"
    <2>1. MinDuration[i.of] \in Nat /\ MaxDuration[i.of] \in Nat
          /\ MinDuration[i.of] =< MaxDuration[i.of]
        BY <1>4, DurationAssumption DEF Instruction
    <2>2. CASE Starts(before, i) = {}
        BY <1>2, <1>4, <2>1, <2>2 DEF Sanitized, Window
    <2>3. CASE Starts(before, i) # {}
        <3> DEFINE start == before[Max(Starts(before, i))]
                   lo == Max({start.early + MinDuration[i.of], prev.early})
                   hi == Max({start.late + MaxDuration[i.of], prev.late})
        <3>1. Starts(before, i) \subseteq 1..Len(before) /\ Len(before) \in Nat
            BY DEF Starts
        <3>2. Max(Starts(before, i)) \in DOMAIN before
            <4> HIDE DEF start, lo, hi
            <4>1. Max(Starts(before, i)) \in Starts(before, i)
                BY <2>3, <3>1, Largest
            <4>. QED BY <4>1 DEF Starts
        <3>3. start.early \in Nat /\ start.late \in Nat /\ start.early =< start.late
            <4>1. start \in Element
                BY <3>2
            <4>. QED BY <3>2, <4>1 DEF WellTimed, Element, Elements
        <3>4. lo \in {start.early + MinDuration[i.of], prev.early} /\ lo >= prev.early
            <4> HIDE DEF start, prev
            <4>1. start.early + MinDuration[i.of] \in Int /\ prev.early \in Int
                BY <1>2, <2>1, <3>3
            <4>. QED BY <4>1, Larger
        <3>5. /\ hi \in {start.late + MaxDuration[i.of], prev.late}
              /\ hi >= prev.late /\ hi >= start.late + MaxDuration[i.of]
            <4> HIDE DEF start, prev
            <4>1. start.late + MaxDuration[i.of] \in Int /\ prev.late \in Int
                BY <1>2, <2>1, <3>3
            <4>. QED BY <4>1, Larger
        <3>6. Sanitized(before, i, t) = Window(lo, hi)
            BY <1>4, <2>3 DEF Sanitized
        <3> HIDE DEF start, prev, lo, hi
        <3>7. lo \in Nat /\ hi \in Nat /\ lo =< hi /\ prev.early =< lo /\ prev.late =< hi
            BY <1>2, <2>1, <3>3, <3>4, <3>5
        <3>. QED BY <3>6, <3>7 DEF Window, prev
    <2>. QED BY <2>2, <2>3
<1>. QED BY <1>3, <1>4

(* Appending keeps a plan executable in the order of its elements. *)
THEOREM AppendInOrder ==
    ASSUME NEW before \in Seq(Element), WellTimed(before),
           NEW i \in Instruction, NEW t \in Nat
    PROVE  append(before, i, t) \in Seq(Element) /\ WellTimed(append(before, i, t))
<1> DEFINE w == Sanitized(before, i, t)
           e == Timed(i, w)
<1>1. CASE before = <<>>
    <2>1. w.early \in Nat /\ w.late \in Nat /\ w.early =< w.late
        <3>1. Starts(before, i) = {}
            BY <1>1 DEF Starts
        <3>2. i.hook = "END" => MaxDuration[i.of] \in Nat
            BY DurationAssumption DEF Instruction
        <3>. QED BY <1>1, <3>1, <3>2 DEF Sanitized, Window
    <2> HIDE DEF w
    <2>2. e \in Element /\ e.early =< e.late
        BY <2>1 DEF Timed, Element, Elements
    <2> HIDE DEF e
    <2>3. append(before, i, t) = <<e>>
        BY <1>1 DEF append, e, w
    <2>. QED BY <2>2, <2>3 DEF WellTimed
<1>2. CASE before # <<>>
    <2>1. /\ w.early \in Nat /\ w.late \in Nat /\ w.early =< w.late
          /\ before[Len(before)].early =< w.early /\ before[Len(before)].late =< w.late
        BY <1>2, SanitizedBehind
    <2> HIDE DEF w
    <2>2. e \in Element /\ e.early = w.early /\ e.late = w.late
        BY <2>1 DEF Timed, Element, Elements
    <2> HIDE DEF e
    <2>3. append(before, i, t) = Append(before, e)
        BY DEF append, e, w
    <2>. QED BY <2>1, <2>2, <2>3 DEF WellTimed
<1>. QED BY <1>1, <1>2

(* The same for some instructions only, and for one after the other. *)
LEMMA AppendOf ==
    ASSUME NEW I \in SUBSET Instruction,
           NEW before \in Seq(Elements(I)), WellTimed(before), NEW i \in I, NEW t \in Nat
    PROVE  LET p == append(before, i, t)
           IN  p \in Seq(Elements(I)) /\ WellTimed(p) /\ p # <<>>
<1> DEFINE w == Sanitized(before, i, t)
           p == append(before, i, t)
<1>1. before \in Seq(Element)
    <2>1. Elements(I) \subseteq Element
        BY DEF Elements, Element
    <2>. QED BY <2>1, SeqMonotonic
<1>2. p \in Seq(Element) /\ WellTimed(p)
    BY <1>1, AppendInOrder
<1>3. p = Append(before, Timed(i, w))
    BY DEF append
<1> HIDE DEF w, p
<1>4. p[Len(before) + 1] = Timed(i, w) /\ Len(before) + 1 \in 1..Len(p)
    BY <1>1, <1>3
<1>5. Timed(i, w) \in Element
    BY <1>2, <1>4
<1>6. Timed(i, w) \in Elements(I)
    BY <1>5 DEF Element, Elements, Timed
<1>7. p \in Seq(Elements(I)) /\ p # <<>>
    BY <1>3, <1>6
<1>. QED BY <1>2, <1>7 DEF p

THEOREM AppendAllInOrder ==
    ASSUME NEW I \in SUBSET Instruction,
           NEW before \in Seq(Elements(I)), WellTimed(before),
           NEW instructions \in Seq(I), NEW t \in Nat
    PROVE  LET p == AppendAll(before, instructions, t)
           IN  /\ p \in Seq(Elements(I)) /\ WellTimed(p)
               /\ before # <<>> => p # <<>>
<1> DEFINE n == Len(instructions)
           S == {b \in Seq(Elements(I)) : WellTimed(b) /\ (before # <<>> => b # <<>>)}
           Step(b, i) == CHOOSE p \in {append(q, i, t) : q \in {b}} : TRUE
           F == [x \in S \X I |-> append(x[1], x[2], t)]
           Fold(g) == [s \in SUBSET (DOMAIN instructions) |->
                         IF s = {} THEN before
                         ELSE Step(g[s \ {Max(s)}], instructions[Max(s)])]
           iter == CHOOSE g : g = Fold(g)
<1>1. n \in Nat /\ DOMAIN instructions = 1..n /\ \A k \in 1..n : instructions[k] \in I
    OBVIOUS
<1>2. AppendAll(before, instructions, t) = iter[DOMAIN instructions]
    BY DEF AppendAll, FoldLeft, MapThenFoldSet
<1>3. \A b, i : Step(b, i) = append(b, i, t)
    OBVIOUS
<1>4. before \in S
    OBVIOUS
<1>5. \A b \in S, i \in I : append(b, i, t) \in S
    BY AppendOf
<1> HIDE DEF S, Step
<1>6. F \in [S \X I -> S]
    BY <1>5
<1>7. \E g : g = Fold(g)
    <2>1. PICK g \in [SUBSET (1..n) -> S] : IsFold(g, F, before, instructions, 1..n)
        <3> HIDE DEF F
        <3>. QED BY <1>4, <1>6, FoldExists
    <2>2. ASSUME NEW s \in SUBSET (1..n), s # {}
          PROVE  g[s] = append(g[s \ {Max(s)}], instructions[Max(s)], t)
        <3>1. Max(s) \in s /\ s \ {Max(s)} \in SUBSET (1..n)
            BY <1>1, <2>2, Largest
        <3>2. g[s \ {Max(s)}] \in S /\ instructions[Max(s)] \in I
            BY <1>1, <3>1
        <3>3. g[s] = F[<<g[s \ {Max(s)}], instructions[Max(s)]>>]
            <4> HIDE DEF F
            <4>. QED BY <2>1, <2>2 DEF IsFold
        <3>. QED BY <3>2, <3>3
    <2>3. g[{}] = before
        <3> HIDE DEF F
        <3>. QED BY <2>1 DEF IsFold
    <2>. QED BY <1>1, <1>3, <2>2, <2>3
<1>8. iter = Fold(iter)
    <2> HIDE DEF Fold
    <2>. QED BY <1>7
<1> HIDE DEF iter
<1>9. iter[{}] = before
    BY <1>8
<1>10. ASSUME NEW s \in SUBSET (1..n), s # {}, iter[s \ {Max(s)}] \in S
       PROVE  iter[s] \in S
    <2>1. Max(s) \in 1..n
        BY <1>1, <1>10, Largest
    <2>2. iter[s] = append(iter[s \ {Max(s)}], instructions[Max(s)], t)
        BY <1>1, <1>3, <1>8, <1>10
    <2>. QED BY <1>1, <1>5, <1>10, <2>1, <2>2
<1>11. iter[1..n] \in S
    <2> HIDE DEF Fold, n
    <2>. QED BY <1>1, <1>4, <1>9, <1>10, FoldTyped
<1>. QED BY <1>1, <1>2, <1>11 DEF S

(* make_start_slack, too, whenever the plan now begins. *)
THEOREM SlackInOrder ==
    ASSUME NEW I \in SUBSET Instruction, NEW before \in Seq(Elements(I)), before # <<>>,
           NEW slack \in Nat, NEW t \in Nat
    PROVE  LET p == make_start_slack(before, slack, t)
           IN  p \in Seq(Elements(I)) /\ WellTimed(p) /\ p # <<>>
<1> DEFINE first == Timed(Head(before).do, Window(t, t + slack))
           others == [i \in 1..Len(before) - 1 |-> before[i + 1].do]
<1>1. Len(before) \in Nat \ {0} /\ \A k \in 1..Len(before) : before[k] \in Elements(I)
    BY EmptySeq
<1>2. \A k \in 1..Len(before) : before[k].do \in I
    BY <1>1 DEF Elements
<1>3. Head(before) = before[1]
    BY <1>1
<1>4. first \in Elements(I) /\ first.early =< first.late
    BY <1>1, <1>2, <1>3 DEF Elements, Timed, Window
<1>5. others \in Seq(I)
    BY <1>1, <1>2
<1> HIDE DEF first, others
<1>6. <<first>> \in Seq(Elements(I)) /\ <<first>> # <<>> /\ WellTimed(<<first>>)
    BY <1>4 DEF WellTimed
<1>7. make_start_slack(before, slack, t) = AppendAll(<<first>>, others, t)
    BY DEF make_start_slack, first, others
<1>. QED BY <1>5, <1>6, <1>7, AppendAllInOrder

-----------------------------------------------------------------------------
(* The types of what carries the time to the loop. *)
TimeType ==
    /\ now \in Time /\ context_time \in Time /\ reading \in Time
    /\ queue \in Seq(Event)
    /\ dispatching \in Nat
    /\ clocks \in [Time -> Nat]
    /\ return \in {"loop", "checked", "tried"}

LEMMA TimeTypeInit == Init => TimeType
BY LoopAssumption, EmptySeq DEF Init, TimeType, Time

LEMMA TimeTypeStep == TimeType /\ [Next]_vars => TimeType'
<1> SUFFICES ASSUME TimeType, [Next]_vars PROVE TimeType'
    OBVIOUS
<1> USE DEF TimeType
<1> USE LoopAssumption
<1>1. CASE UNCHANGED vars
    BY <1>1 DEF vars, loop, wakeups, world
<1>2. CASE Interpret \/ InterpretNothing \/ ProgramFinal \/ Loop \/ Drained \/ Checked
             \/ Postpone \/ Unblock \/ Tried
    BY <1>2 DEF Interpret, InterpretNothing, ProgramFinal, Loop, Drained, Checked,
                Postpone, Unblock, Tried, wakeups, world
<1>3. CASE Drain
    <2>1. queue' \in Seq(Event) /\ Head(queue) \in Event
        BY <1>3 DEF Drain
    <2>2. Head(queue).kind = "clock" => Head(queue).of \in Time
        BY <2>1 DEF Event
    <2>. QED BY <1>3, <2>1, <2>2 DEF Drain, loop, wakeups, world
<1>4. CASE Execute
    BY <1>4 DEF Execute, wakeups
<1>5. CASE Timeout
    BY <1>5 DEF Timeout, wakeups, world
<1>6. CASE PushReading
    <2>1. ClockEvent(reading) \in Event
        BY DEF ClockEvent, Event
    <2>2. <<ClockEvent(reading)>> \o queue \in Seq(Event)
        BY <2>1, ConcatProperties
    <2>3. 0 \in Time
        BY DEF Time
    <2>. QED BY <1>6, <2>2, <2>3 DEF PushReading, wakeups, world
<1>7. ASSUME NEW when \in scheduled, WakeUp(when) PROVE TimeType'
    BY <1>7 DEF WakeUp, loop, world
<1>8. CASE ReadClock
    BY <1>8 DEF ReadClock, loop, world
<1>9. ASSUME NEW t \in Time, PushClock(t) PROVE TimeType'
    <2>1. ClockEvent(t) \in Event
        BY DEF ClockEvent, Event
    <2>2. <<ClockEvent(t)>> \o queue \in Seq(Event)
        BY <2>1, ConcatProperties
    <2>. QED BY <1>9, <2>2 DEF PushClock, loop, world
<1>10. CASE Tick
    BY <1>10 DEF Tick, Time, loop, wakeups, world
<1>11. ASSUME NEW a \in Action, ActivityEnds(a) PROVE TimeType'
    BY <1>11 DEF ActivityEnds, Event, loop, wakeups
<1>12. ASSUME NEW c \in Condition, ConditionHolds(c) PROVE TimeType'
    BY <1>12 DEF ConditionHolds, Event, loop, wakeups, world
<1>13. CASE ComponentChanges
    <2>1. [kind |-> "component"] \in Event
        BY DEF Event
    <2>. QED BY <1>13, <2>1 DEF ComponentChanges, loop, wakeups
<1>14. CASE Terminate
    BY <1>14 DEF Terminate, loop, wakeups, world
<1>. QED BY <1>1, <1>2, <1>3, <1>4, <1>5, <1>6, <1>7, <1>8, <1>9, <1>10, <1>11, <1>12, <1>13,
            <1>14
         DEF Next, ExecStep, WakeupStep, WorldStep

THEOREM TimeTypeCorrect == Spec => []TimeType
BY TimeTypeInit, TimeTypeStep, PTL DEF Spec

(* Nothing the loop knows or will know of the time is ahead of the clock. *)
THEOREM ContextBehindCorrect == Spec => []ContextBehind
<1>1. Init => ContextBehind
    BY LoopAssumption DEF Init, ContextBehind, Time
<1>2. TimeType /\ ContextBehind /\ [Next]_vars => ContextBehind'
    <2> SUFFICES ASSUME TimeType, ContextBehind, [Next]_vars PROVE ContextBehind'
        OBVIOUS
    <2> USE LoopAssumption DEF ContextBehind, TimeType
    <2>1. CASE UNCHANGED vars
        BY <2>1 DEF vars, loop, wakeups, world
    <2>2. CASE Interpret \/ InterpretNothing \/ ProgramFinal \/ Loop \/ Drained \/ Checked
                 \/ Postpone \/ Execute \/ Unblock \/ Timeout \/ Tried
        <3>1. UNCHANGED <<now, context_time, queue, clocks>>
            BY <2>2 DEF Interpret, InterpretNothing, ProgramFinal, Loop, Drained, Checked,
                        Postpone, Execute, Unblock, Timeout, Tried, wakeups, world
        <3>2. reading' = reading \/ reading' = now
            BY <2>2 DEF Interpret, InterpretNothing, ProgramFinal, Loop, Drained, Checked,
                        Postpone, Execute, Unblock, Timeout, Tried, wakeups, world
        <3>3. reading' =< now
            BY <3>2 DEF Time
        <3>. QED BY <3>1, <3>3
    <2>3. CASE Drain
        <3>1. queue # <<>> /\ queue' = Tail(queue) /\ 1 \in DOMAIN queue
            BY <2>3, EmptySeq DEF Drain
        <3>2. \A k \in DOMAIN queue' : k + 1 \in DOMAIN queue /\ queue'[k] = queue[k + 1]
            BY <3>1
        <3>3. context_time' =< now
            BY <2>3, <3>1 DEF Drain
        <3>. QED BY <2>3, <3>2, <3>3 DEF Drain, loop, wakeups, world
    <2>4. ASSUME NEW t \in Time, t =< now, queue' = <<ClockEvent(t)>> \o queue, now' = now
          PROVE  \A k \in DOMAIN queue' : queue'[k].kind = "clock" => queue'[k].of =< now'
        <3>1. ClockEvent(t) \in Event /\ ClockEvent(t).of = t
            BY DEF ClockEvent, Event
        <3>2. <<ClockEvent(t)>> \in Seq(Event)
            BY <3>1
        <3>3. \A k \in DOMAIN queue' :
                queue'[k] = IF k =< 1 THEN ClockEvent(t) ELSE queue[k - 1]
            BY <2>4, <3>2, ConcatProperties
        <3>4. \A k \in DOMAIN queue' : k = 1 \/ k - 1 \in DOMAIN queue
            BY <2>4, <3>2, ConcatProperties
        <3>. QED BY <2>4, <3>1, <3>3, <3>4
    <2>5. CASE PushReading
        <3>1. /\ queue' = <<ClockEvent(reading)>> \o queue /\ reading' = 0
              /\ UNCHANGED <<now, context_time, clocks>>
            BY <2>5 DEF PushReading, wakeups
        <3>2. \A k \in DOMAIN queue' : queue'[k].kind = "clock" => queue'[k].of =< now'
            BY <2>4, <3>1
        <3>3. 0 =< now
            BY DEF Time
        <3>. QED BY <3>1, <3>2, <3>3
    <2>6. ASSUME NEW when \in scheduled, WakeUp(when) PROVE ContextBehind'
        BY <2>6 DEF WakeUp, loop, world
    <2>7. CASE ReadClock
        BY <2>7 DEF ReadClock, loop, world, Time
    <2>8. ASSUME NEW t \in Time, PushClock(t) PROVE ContextBehind'
        <3>1. t =< now /\ now' = now
            BY <2>8 DEF PushClock
        <3>2. \A u \in Time : clocks'[u] > 0 => u =< now
            BY <2>8, <3>1 DEF PushClock
        <3>. QED BY <2>4, <2>8, <3>1, <3>2 DEF PushClock, loop, world
    <2>9. CASE Tick
        <3>1. now' = now + 1 /\ UNCHANGED <<context_time, queue, reading, clocks>>
            BY <2>9 DEF Tick, loop, wakeups
        <3>2. \A x \in Time : x =< now => x =< now'
            BY <3>1 DEF Time
        <3>3. \A k \in DOMAIN queue : queue[k].kind = "clock" => queue[k].of \in Time
            <4>1. \A k \in DOMAIN queue : queue[k] \in Event
                OBVIOUS
            <4>. QED BY <4>1 DEF Event
        <3>. QED BY <3>1, <3>2, <3>3
    <2>10. ASSUME NEW e \in Event, e.kind # "clock", queue' = Append(queue, e), now' = now
           PROVE  \A k \in DOMAIN queue' : queue'[k].kind = "clock" => queue'[k].of =< now'
        BY <2>10
    <2>11. ASSUME NEW a \in Action, ActivityEnds(a) PROVE ContextBehind'
        BY <2>10, <2>11 DEF ActivityEnds, Event, loop, wakeups
    <2>12. ASSUME NEW c \in Condition, ConditionHolds(c) PROVE ContextBehind'
        BY <2>10, <2>12 DEF ConditionHolds, Event, loop, wakeups, world
    <2>13. CASE ComponentChanges
        BY <2>10, <2>13 DEF ComponentChanges, Event, loop, wakeups
    <2>14. CASE Terminate
        BY <2>14 DEF Terminate, loop, wakeups, world
    <2>. QED BY <2>1, <2>2, <2>3, <2>5, <2>6, <2>7, <2>8, <2>9, <2>11, <2>12, <2>13, <2>14
             DEF Next, ExecStep, WakeupStep, WorldStep
<1>. QED BY <1>1, <1>2, TimeTypeCorrect, PTL DEF Spec

(* While the loop waits for a first element that is too early, a wakeup for that
   time is scheduled or on its way. *)
THEOREM WakeupPendingCorrect == Spec => []WakeupPending
<1>1. Init => WakeupPending
    BY DEF Init, WakeupPending
<1>2. TimeType /\ WakeupPending /\ [Next]_vars => WakeupPending'
    <2> SUFFICES ASSUME TimeType, WakeupPending, [Next]_vars PROVE WakeupPending'
        OBVIOUS
    <2> USE DEF WakeupPending, TooEarly, TimeType
    <2>1. CASE UNCHANGED vars
        BY <2>1 DEF vars, loop, wakeups, world
    <2>2. CASE Interpret \/ ProgramFinal \/ Loop \/ Drained \/ Checked
                 \/ Execute \/ Unblock \/ Timeout \/ PushReading \/ Tried
        <3>1. ASSUME NEW p, transform(p, "loop") \/ transform(p, "element")
              PROVE  pc' # "block"
            BY <3>1 DEF transform
        <3>2. CASE Interpret
            BY <3>1, <3>2 DEF Interpret
        <3>3. CASE Checked
            BY <3>1, <3>3 DEF Checked
        <3>4. CASE Tried
            BY <3>1, <3>4 DEF Tried
        <3>5. CASE ProgramFinal \/ Loop \/ Drained \/ Execute \/ Unblock
                     \/ Timeout \/ PushReading
            BY <3>5 DEF ProgramFinal, Loop, Drained, Execute, Unblock, Timeout,
                        PushReading
        <3>. QED BY <2>2, <3>2, <3>3, <3>4, <3>5
    <2>3. CASE InterpretNothing
        BY <2>3 DEF InterpretNothing
    <2>4. CASE Drain
        BY <2>4 DEF Drain, loop
    <2>5. CASE Postpone
        BY <2>5 DEF Postpone, schedule_timer_event
    <2>6. ASSUME NEW when \in scheduled, WakeUp(when) PROVE WakeupPending'
        BY <2>6 DEF WakeUp, loop, world
    <2>7. CASE ReadClock
        BY <2>7 DEF ReadClock, loop, world
    <2>8. ASSUME NEW t \in Time, PushClock(t) PROVE WakeupPending'
        <3>1. ClockEvent(t) \in Event
            BY DEF ClockEvent, Event
        <3>2. queue' # <<>>
            BY <2>8, <3>1 DEF PushClock
        <3>. QED BY <3>2
    <2>9. CASE Tick
        BY <2>9 DEF Tick, loop, wakeups, world
    <2>10. ASSUME NEW e \in Event, queue' = Append(queue, e) PROVE WakeupPending'
        <3>1. queue' # <<>>
            BY <2>10
        <3>. QED BY <3>1
    <2>11. ASSUME NEW a \in Action, ActivityEnds(a) PROVE WakeupPending'
        BY <2>10, <2>11 DEF ActivityEnds, Event
    <2>12. ASSUME NEW c \in Condition, ConditionHolds(c) PROVE WakeupPending'
        BY <2>10, <2>12 DEF ConditionHolds, Event
    <2>13. CASE ComponentChanges
        BY <2>10, <2>13 DEF ComponentChanges, Event
    <2>14. CASE Terminate
        BY <2>14 DEF Terminate
    <2>. QED BY <2>1, <2>2, <2>3, <2>4, <2>5, <2>6, <2>7, <2>8, <2>9, <2>11, <2>12, <2>13,
                <2>14
             DEF Next, ExecStep, WakeupStep, WorldStep
<1>. QED BY <1>1, <1>2, TimeTypeCorrect, PTL DEF Spec

-----------------------------------------------------------------------------
(* What taptenc keeps and makes of a plan. *)
Transitional == {i \in Instruction : i.hook # "TEST"}

LEMMA TransitionsTyped ==
    ASSUME NEW p \in Seq(Element)
    PROVE  /\ Transitions(p) \in Seq(Transitional)
           /\ p # <<>> /\ p \in Seq(Elements(Transitional)) => Transitions(p) # <<>>
<1> DEFINE n == Len(p)
           S == Seq(Transitional)
           Step(is, e) == IF e.do.hook = "TEST" THEN is ELSE Append(is, e.do)
           F == [x \in S \X Element |-> Step(x[1], x[2])]
           Fold(g) == [s \in SUBSET (DOMAIN p) |->
                         IF s = {} THEN <<>> ELSE Step(g[s \ {Max(s)}], p[Max(s)])]
           iter == CHOOSE g : g = Fold(g)
<1>1. n \in Nat /\ DOMAIN p = 1..n /\ \A k \in 1..n : p[k] \in Element
    OBVIOUS
<1>2. Transitions(p) = iter[DOMAIN p]
    BY DEF Transitions, FoldLeft, MapThenFoldSet
<1>3. <<>> \in S
    BY EmptySeq
<1>4. \A is \in S, e \in Element : Step(is, e) \in S
    <2>1. \A e \in Element : e.do.hook # "TEST" => e.do \in Transitional
        BY DEF Element, Elements, Transitional
    <2>. QED BY <2>1
<1> HIDE DEF S, Step
<1>5. F \in [S \X Element -> S]
    BY <1>4
<1>6. \E g : g = Fold(g)
    <2>1. PICK g \in [SUBSET (1..n) -> S] : IsFold(g, F, <<>>, p, 1..n)
        <3> HIDE DEF F
        <3>. QED BY <1>3, <1>5, FoldExists
    <2>2. ASSUME NEW s \in SUBSET (1..n), s # {}
          PROVE  g[s] = Step(g[s \ {Max(s)}], p[Max(s)])
        <3>1. Max(s) \in s /\ s \ {Max(s)} \in SUBSET (1..n)
            BY <1>1, <2>2, Largest
        <3>2. g[s \ {Max(s)}] \in S /\ p[Max(s)] \in Element
            BY <1>1, <3>1
        <3>3. g[s] = F[<<g[s \ {Max(s)}], p[Max(s)]>>]
            <4> HIDE DEF F
            <4>. QED BY <2>1, <2>2 DEF IsFold
        <3>. QED BY <3>2, <3>3
    <2>3. g[{}] = <<>>
        <3> HIDE DEF F
        <3>. QED BY <2>1 DEF IsFold
    <2>. QED BY <1>1, <2>2, <2>3
<1>7. iter = Fold(iter)
    <2> HIDE DEF Fold
    <2>. QED BY <1>6
<1> HIDE DEF iter
<1>8. iter[{}] = <<>>
    BY <1>7
<1>9. ASSUME NEW s \in SUBSET (1..n), s # {}
      PROVE  Max(s) \in 1..n /\ iter[s] = Step(iter[s \ {Max(s)}], p[Max(s)])
    <2>1. Max(s) \in 1..n
        BY <1>1, <1>9, Largest
    <2>. QED BY <1>1, <1>7, <1>9, <2>1
<1>10. \A k \in 0..n : iter[1..k] \in S
    <2> SUFFICES ASSUME NEW k \in 0..n PROVE iter[1..k] \in S
        OBVIOUS
    <2>1. ASSUME NEW s \in SUBSET (1..k), s # {}, iter[s \ {Max(s)}] \in S
          PROVE  iter[s] \in S
        <3>1. s \in SUBSET (1..n)
            BY <1>1
        <3>. QED BY <1>1, <1>4, <1>9, <2>1, <3>1
    <2>2. k \in Nat
        BY <1>1
    <2> HIDE DEF Fold, n, F
    <2>. QED BY <1>3, <1>8, <2>1, <2>2, FoldTyped
<1>11. ASSUME p # <<>>, p \in Seq(Elements(Transitional)) PROVE iter[1..n] # <<>>
    <2>1. n \in 1..n /\ (1..n) \ {n} = 1..n - 1 /\ n - 1 \in 0..n
        BY <1>1, <1>11, EmptySeq
    <2>2. p[n] \in Elements(Transitional)
        BY <1>11, <2>1
    <2>3. p[n].do.hook # "TEST"
        BY <2>2 DEF Elements, Transitional
    <2>4. Max(1..n) = n
        BY <1>1, <2>1, TopLargest
    <2>5. iter[1..n] = Step(iter[1..n - 1], p[n])
        BY <1>9, <2>1, <2>4
    <2>6. iter[1..n - 1] \in Seq(Transitional)
        BY <1>10, <2>1 DEF S
    <2>. QED BY <2>3, <2>5, <2>6 DEF Step
<1>. QED BY <1>1, <1>2, <1>10, <1>11 DEF S

LEMMA RewrittenInOrder ==
    ASSUME NEW p \in Seq(Element), NEW t \in Nat, NEW r \in Rewritten(p, t)
    PROVE  /\ r \in Seq(Elements(Transitional)) /\ WellTimed(r)
           /\ p # <<>> /\ p \in Seq(Elements(Transitional)) => r # <<>>
<1> DEFINE q == Transitions(p)
<1>1. q \in Seq(Transitional) /\ DOMAIN q = 1..Len(q) /\ Len(q) \in Nat
    BY TransitionsTyped
<1>2. p # <<>> /\ p \in Seq(Elements(Transitional)) => q # <<>>
    BY TransitionsTyped
<1> HIDE DEF q
<1>3. PICK s \in [DOMAIN q -> 0..MaxShift], d \in MinWindow..MinWindow + MaxShift :
        /\ \A i \in DOMAIN q, j \in DOMAIN q : i < j => s[i] =< s[j]
        /\ r = [i \in DOMAIN q |-> Timed(q[i], Window(t + s[i], t + s[i] + d))]
    BY DEF Rewritten, q
<1>4. d \in Nat /\ \A i \in DOMAIN q : s[i] \in Nat
    BY LoopAssumption
<1>5. \A i \in DOMAIN q :
        /\ r[i] \in Elements(Transitional)
        /\ r[i].early = t + s[i] /\ r[i].late = t + s[i] + d
    BY <1>1, <1>3, <1>4 DEF Timed, Window, Elements
<1>6. r \in Seq(Elements(Transitional)) /\ Len(r) = Len(q) /\ DOMAIN r = DOMAIN q
    BY <1>1, <1>3, <1>5
<1>7. WellTimed(r)
    <2>1. \A i \in DOMAIN r : r[i].early =< r[i].late
        BY <1>4, <1>5, <1>6
    <2>2. ASSUME NEW i \in 2..Len(r)
          PROVE  r[i - 1].early =< r[i].early /\ r[i - 1].late =< r[i].late
        <3>1. i \in DOMAIN q /\ i - 1 \in DOMAIN q /\ i - 1 < i
            BY <1>1, <1>6
        <3>2. s[i - 1] =< s[i]
            BY <1>3, <3>1
        <3>3. t + s[i - 1] =< t + s[i] /\ t + s[i - 1] + d =< t + s[i] + d
            BY <1>4, <3>1, <3>2
        <3>. QED BY <1>5, <3>1, <3>3
    <2>. QED BY <2>1, <2>2 DEF WellTimed
<1>8. q # <<>> => r # <<>>
    BY <1>1, <1>6
<1>. QED BY <1>2, <1>6, <1>7, <1>8

-----------------------------------------------------------------------------
(* The plan, and the types of what is not in TimeType.  With a platform model
   there are only transitions in a plan, for there is none that taptenc has not
   rewritten: were there others, the next rewriting could leave no element where
   the loop goes on with one. *)
Allowed == IF platform THEN Transitional ELSE Instruction

PlanType == plan \in Seq(Elements(Allowed)) /\ WellTimed(plan)

ElementLeft ==
    \/ pc \in {"checked", "element", "tried"}
    \/ pc \in {"drain", "block", "push"} /\ return # "loop"
    => plan # <<>>

RestType ==
    /\ known \subseteq Condition
    /\ act \in [Action -> {"idle", "running", "ended"}]
    /\ changed \in BOOLEAN /\ platform \in BOOLEAN /\ terminated \in BOOLEAN
    /\ pc \in Label
    /\ timeout \in Nat \cup {Never}
    /\ scheduled \subseteq Nat
    /\ plans \in 0..MaxPlans /\ changes \in 0..MaxChanges

PlanInv == RestType /\ PlanType /\ ElementLeft

LEMMA PlanInvInit == Init => PlanInv
<1> SUFFICES ASSUME Init PROVE PlanInv
    OBVIOUS
<1>1. RestType
    <2>1. changed \in BOOLEAN /\ platform \in BOOLEAN /\ terminated \in BOOLEAN
        BY DEF Init
    <2>2. 0 \in 0..MaxPlans /\ 0 \in 0..MaxChanges
        BY LoopAssumption
    <2>3. known \subseteq Condition /\ pc \in Label /\ timeout \in Nat \cup {Never}
          /\ scheduled \subseteq Nat /\ plans = 0 /\ changes = 0
        BY DEF Init, Label
    <2>4. act \in [Action -> {"idle", "running", "ended"}]
        BY DEF Init
    <2>. QED BY <2>1, <2>2, <2>3, <2>4 DEF RestType
<1>2. PlanType
    BY EmptySeq DEF Init, PlanType, WellTimed
<1>. QED BY <1>1, <1>2 DEF PlanInv, ElementLeft, Init

LEMMA AllowedSets ==
    ASSUME NEW p \in Seq(Elements(Allowed))
    PROVE  /\ Transitional \in SUBSET Instruction /\ Allowed \in SUBSET Instruction
           /\ p \in Seq(Element)
<1>1. Transitional \subseteq Instruction /\ Allowed \subseteq Instruction
    BY DEF Transitional, Allowed
<1>2. Elements(Allowed) \subseteq Element
    BY <1>1 DEF Elements, Element
<1>. QED BY <1>1, <1>2, SeqMonotonic

(* transform: the plan is p, a rewritten p, or what it was. *)
LEMMA TransformKeeps ==
    ASSUME TimeType, PlanType, NEW p \in Seq(Element), WellTimed(p), NEW next,
           transform(p, next), platform' = platform
    PROVE  /\ PlanType' /\ pc' \in {next, "failed"}
           /\ pc' = next /\ next # "failed" /\ p # <<>> /\ p \in Seq(Elements(Allowed))
                 => plan' # <<>>
<1>1. now \in Nat
    BY LoopAssumption DEF TimeType, Time
<1>2. Allowed' = Allowed
    BY DEF Allowed
<1>3. CASE platform /\ p # <<>> /\ pc' = next /\ plan' \in Rewritten(p, now)
    <2>1. /\ plan' \in Seq(Elements(Transitional)) /\ WellTimed(plan')
          /\ p # <<>> /\ p \in Seq(Elements(Transitional)) => plan' # <<>>
        BY <1>1, <1>3, RewrittenInOrder
    <2>2. Allowed = Transitional
        BY <1>3 DEF Allowed
    <2>. QED BY <1>2, <1>3, <2>1, <2>2 DEF PlanType
<1>4. CASE ~(platform /\ p # <<>>) /\ pc' = next /\ plan' = p
    <2>1. p \in Seq(Elements(Allowed))
        <3>1. CASE ~platform
            BY <3>1 DEF Allowed, Element
        <3>2. CASE p = <<>>
            BY <3>2, EmptySeq
        <3>. QED BY <1>4, <3>1, <3>2
    <2>. QED BY <1>2, <1>4, <2>1 DEF PlanType
<1>5. CASE platform /\ p # <<>> /\ pc' = "failed" /\ UNCHANGED plan
    BY <1>2, <1>5 DEF PlanType
<1>. QED BY <1>3, <1>4, <1>5 DEF transform

(* The elements that are left are in order, too. *)
LEMMA TailTyped ==
    ASSUME NEW I, NEW p \in Seq(Elements(I)), WellTimed(p), p # <<>>
    PROVE  /\ Tail(p) \in Seq(Elements(I)) /\ WellTimed(Tail(p))
           /\ Head(p) \in Elements(I)
<1> DEFINE q == Tail(p)
<1>1. q \in Seq(Elements(I)) /\ Len(q) = Len(p) - 1 /\ Head(p) \in Elements(I)
      /\ \A i \in 1..Len(q) : q[i] = p[i + 1]
    BY HeadTailProperties
<1>2. Len(p) \in Nat
    OBVIOUS
<1> HIDE DEF q
<1>3. ASSUME NEW i \in DOMAIN q PROVE q[i].early =< q[i].late
    <2>1. i \in 1..Len(q) /\ i + 1 \in DOMAIN p
        BY <1>1, <1>2
    <2>2. p[i + 1].early =< p[i + 1].late
        BY <2>1 DEF WellTimed
    <2>. QED BY <1>1, <2>1, <2>2
<1>4. ASSUME NEW i \in 2..Len(q)
      PROVE  q[i - 1].early =< q[i].early /\ q[i - 1].late =< q[i].late
    <2>1. i + 1 \in 2..Len(p) /\ (i + 1) - 1 = i /\ i \in 1..Len(q) /\ i - 1 \in 1..Len(q)
          /\ (i - 1) + 1 = i
        BY <1>1, <1>2
    <2>2. p[i].early =< p[i + 1].early /\ p[i].late =< p[i + 1].late
        BY <2>1 DEF WellTimed
    <2>3. q[i] = p[i + 1] /\ q[i - 1] = p[i]
        BY <1>1, <2>1
    <2>. QED BY <2>2, <2>3
<1>. QED BY <1>1, <1>3, <1>4 DEF WellTimed, q

(* The steps of the loop that take another plan. *)
LEMMA PlanInvTransform ==
    ASSUME TimeType, PlanInv, Interpret \/ Checked \/ Tried
    PROVE  PlanInv'
<1> USE DEF PlanInv
<1>1. platform' = platform /\ now \in Nat
    BY LoopAssumption DEF Interpret, Checked, Tried, TimeType, Time
<1>2. plan \in Seq(Elements(Allowed)) /\ WellTimed(plan) /\ plan \in Seq(Element)
    BY AllowedSets DEF PlanType
<1>3. CASE Interpret
    <2>1. PICK policy \in Policies : transform(PlanOf(policy, now), "loop")
        BY <1>3 DEF Interpret
    <2>2. policy \in Seq(Instruction)
        BY LoopAssumption
    <2>3. PlanOf(policy, now) \in Seq(Element) /\ WellTimed(PlanOf(policy, now))
        <3>1. <<>> \in Seq(Elements(Instruction)) /\ WellTimed(<<>>)
            BY EmptySeq DEF WellTimed
        <3>2. Instruction \in SUBSET Instruction
            OBVIOUS
        <3>. QED BY <1>1, <2>2, <3>1, <3>2, AppendAllInOrder DEF PlanOf, Element
    <2>4. PlanType' /\ pc' \in {"loop", "failed"}
        BY <1>1, <2>1, <2>3, TransformKeeps
    <2>5. plans' \in 0..MaxPlans
        BY <1>3, LoopAssumption DEF Interpret, RestType
    <2>6. RestType'
        BY <1>1, <1>3, <2>4, <2>5 DEF Interpret, RestType, Label, wakeups, world
    <2>. QED BY <2>4, <2>6 DEF ElementLeft
<1>4. CASE Checked
    <2>1. plan # <<>>
        BY <1>4 DEF Checked, ElementLeft
    <2>2. CASE changed
        <3>1. /\ PlanType' /\ pc' \in {"element", "failed"}
              /\ pc' = "element" => plan' # <<>>
            BY <1>1, <1>2, <1>4, <2>1, <2>2, TransformKeeps DEF Checked
        <3>2. RestType'
            BY <1>1, <1>4, <3>1 DEF Checked, RestType, Label, wakeups
        <3>. QED BY <3>1, <3>2 DEF ElementLeft
    <2>3. CASE ~changed
        <3>1. pc' = "element" /\ UNCHANGED plan
            BY <1>4, <2>3 DEF Checked
        <3>2. RestType'
            <4>1. changed' \in BOOLEAN
                BY <1>4 DEF Checked
            <4>. QED BY <1>1, <1>4, <3>1, <4>1 DEF Checked, RestType, Label, wakeups
        <3>3. PlanType'
            BY <1>1, <3>1 DEF PlanType, Allowed
        <3>. QED BY <2>1, <3>1, <3>2, <3>3 DEF ElementLeft
    <2>. QED BY <2>2, <2>3
<1>5. CASE Tried
    <2>1. plan # <<>>
        BY <1>5 DEF Tried, ElementLeft
    <2>2. CASE transform(make_start_slack(plan, Slack, now), "loop")
        <3>1. make_start_slack(plan, Slack, now) \in Seq(Element)
              /\ WellTimed(make_start_slack(plan, Slack, now))
            <4>1. Allowed \in SUBSET Instruction /\ Slack \in Nat
                BY <1>2, AllowedSets, LoopAssumption
            <4>2. make_start_slack(plan, Slack, now) \in Seq(Elements(Allowed))
                  /\ WellTimed(make_start_slack(plan, Slack, now))
                BY <1>1, <1>2, <2>1, <4>1, SlackInOrder
            <4>. QED BY <4>2, AllowedSets
        <3>2. PlanType' /\ pc' \in {"loop", "failed"}
            BY <1>1, <1>2, <2>2, <3>1, TransformKeeps
        <3>3. changed' \in BOOLEAN
            BY <1>5 DEF Tried
        <3>4. RestType'
            BY <1>1, <1>5, <3>2, <3>3 DEF Tried, RestType, Label, wakeups
        <3>. QED BY <3>2, <3>4 DEF ElementLeft
    <2>3. CASE pc' = "loop" /\ UNCHANGED plan
        <3>1. changed' \in BOOLEAN
            BY <1>5 DEF Tried
        <3>2. RestType' /\ PlanType'
            BY <1>1, <1>5, <2>3, <3>1 DEF Tried, RestType, Label, wakeups, PlanType, Allowed
        <3>. QED BY <2>3, <3>2 DEF ElementLeft
    <2>. QED BY <1>5, <2>2, <2>3 DEF Tried
<1>. QED BY <1>3, <1>4, <1>5

(* The other steps of the loop. *)
LEMMA PlanInvExec ==
    ASSUME TimeType, PlanInv,
           \/ InterpretNothing \/ ProgramFinal \/ Loop \/ Drain \/ Drained \/ Postpone
           \/ Execute \/ Unblock \/ Timeout \/ PushReading
    PROVE  PlanInv'
<1> USE DEF PlanInv
<1>1. Allowed' = Allowed
    BY DEF InterpretNothing, ProgramFinal, Loop, Drain, Drained, Postpone, Execute, Unblock,
           Timeout, PushReading, Allowed
<1>2. plan \in Seq(Elements(Allowed)) /\ WellTimed(plan) /\ plan \in Seq(Element)
    BY AllowedSets DEF PlanType
<1>3. <<>> \in Seq(Elements(Allowed)) /\ WellTimed(<<>>)
    BY EmptySeq DEF WellTimed
<1>4. plan # <<>> =>
        /\ Head(plan).do \in Instruction /\ Head(plan).early \in Nat /\ Head(plan).late \in Nat
        /\ Tail(plan) \in Seq(Elements(Allowed)) /\ WellTimed(Tail(plan))
    <2>1. plan # <<>> => Head(plan) \in Element
        BY <1>2 DEF Element
    <2>. QED BY <1>2, <2>1, TailTyped DEF Element, Elements
<1>5. CASE InterpretNothing \/ ProgramFinal \/ Loop \/ Unblock \/ Timeout \/ PushReading
    <2>1. PlanType'
        BY <1>1, <1>2, <1>3, <1>5
        DEF InterpretNothing, ProgramFinal, Loop, Unblock, Timeout, PushReading, PlanType
    <2>2. RestType'
        BY <1>5, LoopAssumption
        DEF InterpretNothing, ProgramFinal, Loop, Unblock, Timeout, PushReading, RestType,
            TimeType, Time, Label, wakeups, world
    <2>3. ElementLeft'
        BY <1>5
        DEF InterpretNothing, ProgramFinal, Loop, Unblock, Timeout, PushReading, ElementLeft
    <2>. QED BY <2>1, <2>2, <2>3
<1>6. CASE Drain
    <2>1. queue \in Seq(Event) /\ queue # <<>>
        BY <1>6 DEF Drain, TimeType
    <2>2. Head(queue) \in Event
        BY <2>1
    <2>3. Head(queue).kind = "condition" => Head(queue).of \in Condition
        BY <2>2 DEF Event
    <2>4. RestType'
        BY <1>6, <2>3 DEF Drain, RestType, loop, wakeups, world
    <2>. QED BY <1>1, <1>6, <2>4 DEF Drain, PlanType, ElementLeft, loop
<1>7. CASE Drained
    <2>1. RestType'
        BY <1>7 DEF Drained, RestType, TimeType, Label, wakeups, world
    <2>. QED BY <1>1, <1>7, <2>1 DEF Drained, PlanType, ElementLeft
<1>8. CASE Postpone
    <2>1. plan # <<>>
        BY <1>8 DEF Postpone, ElementLeft
    <2>2. scheduled' \subseteq Nat /\ timeout' \in Nat
        <3>1. timeout' = Head(plan).late + 1
            BY <1>8 DEF Postpone, next_timeout
        <3>2. scheduled' \subseteq scheduled \cup {Head(plan).early}
            BY <1>8 DEF Postpone, schedule_timer_event
        <3>. QED BY <1>4, <2>1, <3>1, <3>2 DEF RestType
    <2>3. RestType'
        BY <1>8, <2>2 DEF Postpone, RestType, Label, world
    <2>. QED BY <1>1, <1>8, <2>1, <2>3 DEF Postpone, PlanType, ElementLeft
<1>9. CASE Execute
    <2>1. plan # <<>>
        BY <1>9 DEF Execute, ElementLeft
    <2> DEFINE i == Head(plan).do
    <2>2. act' \in [Action -> {"idle", "running", "ended"}]
        <3>1. i \in Instruction
            BY <1>4, <2>1
        <3> HIDE DEF i
        <3>2. i.hook \in {"START", "END", "TEST"}
            BY <3>1 DEF Instruction
        <3>3. act' = CASE i.hook = "START" -> [act EXCEPT ![i.of] = "running"]
                       [] i.hook = "END" -> [act EXCEPT ![i.of] = "idle"]
                       [] i.hook = "TEST" -> act
            BY <1>9 DEF Execute, i
        <3>. QED BY <3>2, <3>3 DEF RestType
    <2>3. RestType'
        BY <1>9, <2>2 DEF Execute, RestType, Label, wakeups
    <2>. QED BY <1>1, <1>4, <1>9, <2>1, <2>3 DEF Execute, PlanType, ElementLeft
<1>. QED BY <1>5, <1>6, <1>7, <1>8, <1>9

LEMMA PlanInvStep == TimeType /\ PlanInv /\ [Next]_vars => PlanInv'
<1> SUFFICES ASSUME TimeType, PlanInv, [Next]_vars PROVE PlanInv'
    OBVIOUS
<1>1. ASSUME UNCHANGED <<platform, loop>>, RestType' PROVE PlanInv'
    BY <1>1 DEF PlanInv, PlanType, ElementLeft, Allowed, loop
<1>2. RestType
    BY DEF PlanInv
<1>3. CASE UNCHANGED vars
    BY <1>1, <1>2, <1>3 DEF vars, RestType, loop, wakeups, world
<1>4. CASE ExecStep
    BY <1>4, PlanInvTransform, PlanInvExec DEF ExecStep
<1>5. ASSUME NEW when \in scheduled, WakeUp(when) PROVE PlanInv'
    BY <1>1, <1>2, <1>5 DEF WakeUp, RestType, loop, world
<1>6. CASE ReadClock
    BY <1>1, <1>2, <1>6 DEF ReadClock, RestType, loop, world
<1>7. ASSUME NEW t \in Time, PushClock(t) PROVE PlanInv'
    BY <1>1, <1>2, <1>7 DEF PushClock, RestType, loop, world
<1>8. CASE Tick
    BY <1>1, <1>2, <1>8 DEF Tick, RestType, loop, wakeups, world
<1>9. ASSUME NEW a \in Action, ActivityEnds(a) PROVE PlanInv'
    BY <1>1, <1>2, <1>9 DEF ActivityEnds, RestType, loop, wakeups
<1>10. ASSUME NEW c \in Condition, ConditionHolds(c) PROVE PlanInv'
    BY <1>1, <1>2, <1>10 DEF ConditionHolds, RestType, loop, wakeups, world
<1>11. CASE ComponentChanges
    <2>1. changes' \in 0..MaxChanges
        BY <1>2, <1>11, LoopAssumption DEF ComponentChanges, RestType
    <2>. QED BY <1>1, <1>2, <1>11, <2>1 DEF ComponentChanges, RestType, loop, wakeups
<1>12. CASE Terminate
    BY <1>1, <1>2, <1>12 DEF Terminate, RestType, loop, wakeups, world
<1>. QED BY <1>3, <1>4, <1>5, <1>6, <1>7, <1>8, <1>9, <1>10, <1>11, <1>12
         DEF Next, WakeupStep, WorldStep

THEOREM PlanInvCorrect == Spec => []PlanInv
BY PlanInvInit, PlanInvStep, TimeTypeCorrect, PTL DEF Spec

(* The variables of the loop have their types, whatever plans there are. *)
THEOREM TypeCorrect == Spec => []TypeOK
<1>1. TimeType /\ PlanInv => TypeOK
    <2> SUFFICES ASSUME TimeType, PlanInv PROVE TypeOK
        OBVIOUS
    <2>1. plan \in Seq(Element)
        BY AllowedSets DEF PlanInv, PlanType
    <2>2. \A i \in DOMAIN plan : plan[i] \in Element
        BY <2>1
    <2>. QED BY <2>2 DEF Element, Elements, TimeType, PlanInv, RestType, TypeOK
<1>. QED BY <1>1, TimeTypeCorrect, PlanInvCorrect, PTL

(* Plans of any length stay executable in their order, however often and whenever
   they are slackened and rewritten while their elements are executed. *)
THEOREM WindowsInOrderCorrect == Spec => []WindowsInOrder
<1>1. PlanInv => WindowsInOrder
    BY DEF PlanInv, PlanType, WindowsInOrder
<1>. QED BY <1>1, PlanInvCorrect, PTL

(* No element is executed before its window begins. *)
THEOREM NeverEarlyCorrect == Spec => NeverEarly
<1>1. TimeType /\ PlanInv /\ ContextBehind => [Execute => Head(plan).early =< now]_vars
    <2> SUFFICES ASSUME TimeType, PlanInv, ContextBehind, Execute
                 PROVE  Head(plan).early =< now
        OBVIOUS
    <2>1. plan # <<>> /\ plan \in Seq(Element)
        BY AllowedSets DEF PlanInv, PlanType, ElementLeft, Execute
    <2>2. Head(plan) \in Element
        BY <2>1
    <2>3. Head(plan).early \in Nat
        BY <2>2 DEF Element, Elements
    <2>4. ~(Head(plan).early > context_time) /\ context_time =< now
        BY DEF Execute, TooEarly, ContextBehind
    <2>5. context_time \in Nat /\ now \in Nat
        BY LoopAssumption DEF TimeType, Time
    <2>. QED BY <2>3, <2>4, <2>5
<1>. QED BY <1>1, TimeTypeCorrect, PlanInvCorrect, ContextBehindCorrect, PTL DEF NeverEarly
=============================================================================
