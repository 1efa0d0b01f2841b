------------------------------ MODULE MCGpOutputs ------------------------------
(* A small instance of GpOutputs: paths are interchangeable.                     *)
EXTENDS GpOutputs, TLC

CONSTANTS p1, p2, p3

MCPaths == {p1, p2, p3}
MCSymmetry == Permutations(MCPaths)
=============================================================================
