--------------------------- MODULE MCExecutionLoop ---------------------------
(* ExecutionLoop on a small instance, see ExecutionLoop.cfg. *)
EXTENDS ExecutionLoop

CONSTANTS look, door

(* One action with a test before its end, and a test alone. *)
Alone == {<<[hook |-> "START", of |-> look], [hook |-> "TEST", of |-> door],
            [hook |-> "END", of |-> look]>>,
          <<[hook |-> "TEST", of |-> door]>>}

Shortest == [a \in Action |-> 1]
Longest == [a \in Action |-> 2]
=============================================================================
