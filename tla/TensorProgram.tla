---------------------------- MODULE TensorProgram ----------------------------
(***************************************************************************)
(* What a caller of the operators expects: tensors with values, operations *)
(* that take effect one after the other in the order of the calls, and     *)
(* reads that return the current value.  Nothing of queues, device memory  *)
(* or workspaces can be seen.                                              *)
(***************************************************************************)
CONSTANTS
    Tensor,
    Content,        \* the values of a tensor
    Junk,           \* the value of a tensor nobody has written
    Op,             \* the operations
    Result(_, _)    \* what an operation makes of its input

VARIABLES
    exists,  \* the tensors that exist
    value,   \* value[t]: the value of tensor t, Junk if it does not exist
    seen,    \* what the last read returned
    lost     \* an operation has failed, whoever knows: nothing is promised any more

tvars == <<exists, value, seen, lost>>

Init ==
    /\ exists = {}
    /\ value = [t \in Tensor |-> Junk]
    /\ seen = Junk
    /\ lost = FALSE

\* A tensor is made, with any contents, and given up.
New(t) ==
    /\ t \notin exists /\ exists' = exists \cup {t}
    /\ \E c \in Content : value' = [value EXCEPT ![t] = c]
    /\ UNCHANGED <<seen, lost>>

Drop(t) ==
    /\ t \in exists /\ exists' = exists \ {t}
    /\ value' = [value EXCEPT ![t] = Junk]
    /\ UNCHANGED <<seen, lost>>

Exec(op, in, out) ==
    /\ ~lost
    /\ in \in exists /\ out \in exists
    /\ value' = [value EXCEPT ![out] = Result(op, value[in])]
    /\ UNCHANGED <<exists, seen, lost>>

Read(t) ==
    /\ t \in exists
    /\ seen' \in IF lost THEN Content ELSE {value[t]}
    /\ UNCHANGED <<exists, value, lost>>

Lose ==
    /\ lost' = TRUE
    /\ value' = [t \in Tensor |-> Junk]
    /\ UNCHANGED <<exists, seen>>

Next ==
    \/ \E t \in Tensor : New(t) \/ Drop(t) \/ Read(t)
    \/ \E op \in Op, in, out \in Tensor : Exec(op, in, out)
    \/ Lose

Spec == Init /\ [][Next]_tvars
==============================================================================
