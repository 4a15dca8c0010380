-------------------------------- MODULE Plan --------------------------------
(***************************************************************************)
(* The time windows of a plan's elements (execution/plan.cpp).             *)
(*                                                                         *)
(* An element is an instruction with the window [early, late] in which its *)
(* execution is to begin: a transition of an action (hook START or END,    *)
(* END for FINISH and FAIL, too) or a Test.  Time is counted in grains,    *)
(* the tenth of a second that next_timeout adds.                           *)
(***************************************************************************)
EXTENDS Integers, Sequences, FiniteSetsExt, SequencesExt

CONSTANTS
    Action,             \* actions with their arguments
    Condition,          \* what a Test waits for
    MinDuration,        \* MinDuration[a]..MaxDuration[a]: duration of a
    MaxDuration

ASSUME DurationAssumption ==
    /\ MinDuration \in [Action -> Nat]
    /\ MaxDuration \in [Action -> Nat]
    /\ \A a \in Action : MinDuration[a] =< MaxDuration[a]

Instruction ==
    [hook : {"START", "END"}, of : Action] \cup [hook : {"TEST"}, of : Condition]

Window(lo, hi) == [early |-> lo, late |-> hi]

(* An element pairs an instruction with its window. *)
Timed(i, w) == [do |-> i, early |-> w.early, late |-> w.late]

(* Where sanitize_time_window finds the START an END belongs to: the last one
   before it.  None means that it was executed, and erased, before. *)
Starts(before, i) ==
    {j \in DOMAIN before : before[j].do = [hook |-> "START", of |-> i.of]}

(* The window that sanitize_time_window gives to an instruction i behind the
   elements `before', at time t. *)
Sanitized(before, i, t) ==
    LET prev == IF before = <<>> THEN Window(t, t) ELSE before[Len(before)]
        start == before[Max(Starts(before, i))]
    IN  IF i.hook # "END"
        THEN Window(prev.early, prev.late)
        ELSE IF Starts(before, i) = {}
        THEN Window(prev.early, prev.late + MaxDuration[i.of])
        ELSE Window(Max({start.early + MinDuration[i.of], prev.early}),
                    Max({start.late + MaxDuration[i.of], prev.late}))

(* append, for an instruction whose window was not set. *)
append(before, i, t) == Append(before, Timed(i, Sanitized(before, i, t)))

(* append one instruction after the other.  (The set of one plan makes TLC
   evaluate `before' once.) *)
AppendAll(before, instructions, t) ==
    FoldLeft(LAMBDA b, i : CHOOSE p \in {append(q, i, t) : q \in {b}} : TRUE,
             before, instructions)

(* The plan of a policy, a sequence of instructions. *)
PlanOf(policy, t) == AppendAll(<<>>, policy, t)

(* Mutant: only the first element is given slack. *)
make_start_slack_FirstOnly(plan, slack, t) ==
    <<Timed(Head(plan).do, Window(t, t + slack))>> \o Tail(plan)

(* Mutant: slack to both sides. *)
make_start_slack_Around(plan, slack, t) ==
    AppendAll(<<Timed(Head(plan).do, Window(t - slack, t + slack))>>,
              [i \in 1..Len(plan) - 1 |-> plan[i + 1].do], t)

(* make_start_slack: the first element may begin at once, and all the others
   are sanitized again. *)
make_start_slack(plan, slack, t) ==
    AppendAll(<<Timed(Head(plan).do, Window(t, t + slack))>>,
              [i \in 1..Len(plan) - 1 |-> plan[i + 1].do], t)

next_timeout(plan) == Head(plan).late + 1

(* What execution in order needs: no window is empty, and none begins or ends
   before that of an earlier element. *)
WellTimed(plan) ==
    /\ \A i \in DOMAIN plan : plan[i].early =< plan[i].late
    /\ \A i \in 2..Len(plan) :
        /\ plan[i - 1].early =< plan[i].early
        /\ plan[i - 1].late =< plan[i].late
=============================================================================
