-------------------------- MODULE MCPortAllocator --------------------------
(***************************************************************************)
(* PortAllocator on ports 0..MaxPort with every range of at most MaxCount  *)
(* ports.                                                                  *)
(***************************************************************************)
EXTENDS PortAllocator

CONSTANT MaxCount

MCRanges == (0..MaxPort) \X (0..MaxCount)
=============================================================================
