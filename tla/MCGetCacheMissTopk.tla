-------------------------- MODULE MCGetCacheMissTopk --------------------------
(* Small values for the constants of GetCacheMissTopk. *)
EXTENDS GetCacheMissTopk

TwoReqs     == {0, 1}
Tokens2     == 0 .. 1
Tokens3     == 0 .. 2
AnyPadding  == 0 .. TopK
BeforeHistory == Unserved
==============================================================================
