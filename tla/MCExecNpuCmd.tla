----------------------------- MODULE MCExecNpuCmd -----------------------------
(* Small values for the constants of ExecNpuCmd.  An aclnn function, one    *)
(* argument of which may become a handle, flips its input, and a kernel     *)
(* launch copies it, so that a command that is lost, repeated, overtaken,   *)
(* or reads what it should not, shows in a result.                          *)
EXTENDS ExecNpuCmd

FlipOrCopy(op, c) == IF op = "aclnnAvgPool3d" THEN 1 - c ELSE c

Signatures == [op \in {"aclnnAvgPool3d"} |-> {"self"}]
==============================================================================
