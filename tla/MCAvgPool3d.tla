------------------------------ MODULE MCAvgPool3d ------------------------------
(***************************************************************************)
(* Small arguments of avg_pool3d: lists of no, one, two, three and four    *)
(* elements, with extents, kernels and strides that may be zero, strides   *)
(* and paddings that may be negative.                                      *)
(***************************************************************************)
EXTENDS AvgPool3d

\* The input extents e, e, e.
Cube(e) == [d \in Dim |-> e]

\* Lists of one element.
Singles(S) == {<<n>> : n \in S}

SomeInputs   == {Cube(e) : e \in {0, 1, 3, 6}} \cup {<<3, 5, 6>>}
SomeKernels  == Singles(-1 .. 4) \cup {<<>>, <<2, 3>>, <<2, 3, 1>>, <<3, 2, 4, 0>>}
SomeStrides  == Singles(-2 .. 4) \cup {<<>>, <<2, 1>>, <<1, 2, 4>>, <<3, 0, 1>>}
SomePaddings == Singles(-1 .. 2) \cup {<<>>, <<1, 0>>, <<0, 1, 1>>, <<1, 1, 2>>}

\* Calls with windows, of which some are larger than the input.
Cubes        == {Cube(e) : e \in {1, 2}}
WideKernels  == Singles({2, 4})
PlainStrides == Singles({2, 4})
NoPadding    == Singles({0})
==============================================================================
