-------------------------- MODULE ActivityProtocol --------------------------
(***************************************************************************)
(* What golog++ promises about one durative action instance, without the   *)
(* threads, the locks and the queue that implement it: an instance is      *)
(* started only while the platform knows nothing of it, it ends exactly    *)
(* once with exactly one outcome, that outcome is reported to the          *)
(* interpreter exactly once, and a new incarnation never starts while the  *)
(* report about the previous one is still under way.                       *)
(***************************************************************************)
CONSTANTS
    Action,         \* ground durative action instances (action + arguments)
    Outcome,        \* the states in which an activity may end
    IDLE, RUNNING   \* the two states that are not outcomes

VARIABLES
    phase,          \* phase[a]: what the platform holds of a
    report          \* report[a]: an outcome on its way to the interpreter, or IDLE

protocolVars == <<phase, report>>

ProtocolInit ==
    /\ phase = [a \in Action |-> IDLE]
    /\ report = [a \in Action |-> IDLE]

Begin(a) ==
    /\ phase[a] = IDLE
    /\ report[a] = IDLE
    /\ phase' = [phase EXCEPT ![a] = RUNNING]
    /\ UNCHANGED report

Complete(a, o) ==
    /\ phase[a] = RUNNING
    /\ report[a] = IDLE
    /\ phase' = [phase EXCEPT ![a] = o]
    /\ report' = [report EXCEPT ![a] = o]

Observe(a) ==
    /\ report[a] # IDLE
    /\ report' = [report EXCEPT ![a] = IDLE]
    /\ UNCHANGED phase

Collect(a) ==
    /\ phase[a] \in Outcome
    /\ phase' = [phase EXCEPT ![a] = IDLE]
    /\ UNCHANGED report

ProtocolNext ==
    \E a \in Action :
        \/ Begin(a)
        \/ \E o \in Outcome : Complete(a, o)
        \/ Observe(a)
        \/ Collect(a)

ProtocolSpec == ProtocolInit /\ [][ProtocolNext]_protocolVars
=============================================================================
