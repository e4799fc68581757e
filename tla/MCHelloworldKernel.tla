-------------------------- MODULE MCHelloworldKernel --------------------------
(* Shapes for HelloworldKernel with Word = 32: none, fewer elements than     *)
(* tiles, multiples of the tiles and not, and more than a word can count.    *)
EXTENDS HelloworldKernel

SmallShapes == {<<>>, <<0>>, <<7>>, <<8>>, <<3, 5>>, <<2, 2, 4>>, <<17>>, <<24>>, <<31>>,
                <<32>>, <<6, 7>>}
==============================================================================
