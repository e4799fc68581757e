---------------------------- MODULE MCOpApiLookup ----------------------------
(* Small values for the constants of OpApiLookup: an api that both          *)
(* libraries have, one that is only in the standard library, and one of     *)
(* which the custom library has a half.                                     *)
EXTENDS OpApiLookup

Libraries ==
    [lib \in Lib |->
        IF lib = "cust" THEN {"both"} \X Fn \cup {<<"half", "run">>}
        ELSE {"both", "standard", "half"} \X Fn]
==============================================================================
