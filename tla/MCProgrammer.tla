---------------------------- MODULE MCProgrammer ----------------------------
(***************************************************************************)
(* The PC program and the firmware with a target of two or three blocks.   *)
(***************************************************************************)
EXTENDS Programmer, Bitwise

MCByteAnd(a, b) == a & b
MCSignature == <<30, 149, 15>>
UnknownSignature == <<30, 151, 2>>

\* The database of prog.c, its sizes cut down to the flash of the instance.
MCDatabase == <<[signature |-> <<30, 149, 15>>, taille_flash |-> 2 * FlashWords],
                [signature |-> <<30, 148, 137>>, taille_flash |-> FlashWords]>>

\* Every byte of the initial flash is different.
MCInitialFlashes == {[a \in Word |-> [low |-> 16 + 2 * a, high |-> 17 + 2 * a]]}

\* Three words in two blocks, one of them sent twice.
MCImage == <<[addr |-> 0, word |-> [low |-> 12, high |-> 148]],
             [addr |-> 5, word |-> [low |-> 60, high |-> 129]],
             [addr |-> 5, word |-> [low |-> 60, high |-> 129]]>>
=============================================================================
