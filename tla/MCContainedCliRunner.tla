------------------------- MODULE MCContainedCliRunner -------------------------
(* One run with bounds of a few bytes, which the child may exceed.         *)
EXTENDS ContainedCliRunner

SmallLimit == [stdout |-> 2, stderr |-> 1]
=============================================================================
