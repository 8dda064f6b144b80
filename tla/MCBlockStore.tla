--------------------------- MODULE MCBlockStore ---------------------------
(* Two zones of two blocks.  Lengths are those of a build for 64 bits:     *)
(* tree nodes and wireway structures.                                      *)
EXTENDS BlockStore

First      == {1}
TwoSizes   == <<97, 424>>
TwoRecords == <<96, 424>>
=============================================================================
