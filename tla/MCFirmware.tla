----------------------------- MODULE MCFirmware -----------------------------
(***************************************************************************)
(* The firmware with an arbitrary host, on a flash of two blocks.          *)
(***************************************************************************)
EXTENDS Firmware, Bitwise

MCByteAnd(a, b) == a & b
MCSignature == <<30, 149, 15>>  \* ATmega328P

\* Every byte of the initial flash is different.
MCInitialFlashes == {[a \in Word |-> [low |-> 16 + 2 * a, high |-> 17 + 2 * a]]}

MCRequests ==
    {<<>>, IdRequest, EraseRequest, <<0>>, <<224>>}
    \cup {ReadRequest(a) : a \in BlockAddress}
    \cup {WriteRequest(5, [low |-> 165, high |-> 15]),
          WriteRequest(5, [low |-> 60, high |-> 129])}
=============================================================================
