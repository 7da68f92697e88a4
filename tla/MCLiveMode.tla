----------------------------- MODULE MCLiveMode -----------------------------
(***************************************************************************)
(* The live mode with a target of one block.                               *)
(***************************************************************************)
EXTENDS LiveMode, Bitwise

MCByteAnd(a, b) == a & b
MCSignature == <<30, 149, 15>>
MCRequests == {WriteRequest(1, [low |-> 2, high |-> 3]), <<32>>}
MCInitialFlashes == {[a \in Word |-> [low |-> 16 + 2 * a, high |-> 17 + 2 * a]]}
=============================================================================
