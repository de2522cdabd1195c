--------------------------- MODULE MCBinaryStart ---------------------------
(* Instances of BinaryStart for TLC. *)
EXTENDS BinaryStart
=============================================================================
