------------------------------- MODULE Target -------------------------------
(***************************************************************************)
(* The chip on the other side of the ISP header, as far as the programmer  *)
(* uses it: it obeys four-byte serial instructions while it is selected    *)
(* and programming is enabled, keeps the word loaded for the next page     *)
(* write in a latch, and holds a flash of FlashWords words.  The chip is   *)
(* not part of the repository; every operator here is what the firmware's  *)
(* SPI sequences (firmware/InOut/main.c) take for granted.                 *)
(***************************************************************************)
EXTENDS Integers, Sequences

CONSTANTS
    FlashWords,    \* number of 16-bit words of flash
    Signature,     \* the three signature bytes
    ByteAnd(_, _)  \* bitwise conjunction of two bytes

Byte == 0..255
ErasedByte == 255
Word == 0..(FlashWords - 1)
WordValue == [low : Byte, high : Byte]
ErasedWord == [low |-> ErasedByte, high |-> ErasedByte]

\* Addresses are 16-bit and the host reads blocks of four words.
ASSUME FlashAssumption ==
    FlashWords \in Nat /\ FlashWords > 0 /\ FlashWords <= 65536
ASSUME BlocksAssumption == FlashWords % 4 = 0

ASSUME SignatureAssumption == Signature \in [1..3 -> Byte]

ASSUME ByteAndAssumption ==
    \A a, b \in Byte : /\ ByteAnd(a, b) \in Byte
                       /\ ByteAnd(ErasedByte, b) = b

\* Clearing the same bits twice clears nothing more.
ASSUME ByteAndTwiceAssumption ==
    \A a, b \in Byte : ByteAnd(ByteAnd(a, b), b) = ByteAnd(a, b)

-----------------------------------------------------------------------------
\* A serial instruction: an opcode, the address sent as two bytes, a data byte.
Instruction(op, addr, data) ==
    [op |-> op, hi |-> addr \div 256, lo |-> addr % 256, data |-> data]

\* The address the chip puts together from the two bytes it receives.
InstructionAddress(ins) == 256 * ins.hi + ins.lo

Enable    == Instruction("enable", 0, 0)      \* AC 53 00 00
ChipErase == Instruction("chip_erase", 0, 0)  \* AC 80 00 00

-----------------------------------------------------------------------------
Chip == [enabled : BOOLEAN, latch : WordValue, flash : [Word -> WordValue]]

\* Programming a word can clear bits of it and never sets one.
Programmed(old, new) == [low  |-> ByteAnd(old.low, new.low),
                         high |-> ByteAnd(old.high, new.high)]

\* Raising the select line ends programming mode and drops the latch.
Released(chip) == [chip EXCEPT !.enabled = FALSE, !.latch = ErasedWord]

\* The state of the selected chip after one instruction.
Executed(chip, ins) ==
    CASE ins.op = "enable" -> [chip EXCEPT !.enabled = TRUE]
      [] ins.op = "load_low" /\ chip.enabled ->
             [chip EXCEPT !.latch.low = ins.data]
      [] ins.op = "load_high" /\ chip.enabled ->
             [chip EXCEPT !.latch.high = ins.data]
      [] ins.op = "write_page" /\ chip.enabled ->
             [chip EXCEPT !.flash[InstructionAddress(ins)] =
                              Programmed(@, chip.latch),
                          !.latch = ErasedWord]
      [] ins.op = "chip_erase" /\ chip.enabled ->
             [chip EXCEPT !.flash = [a \in Word |-> ErasedWord]]
      [] OTHER -> chip

\* The byte the chip shifts out during the instruction's last byte.  A chip
\* that is not enabled leaves the line to itself: 255 stands for that.
Answer(chip, ins) ==
    CASE ins.op = "read_low" /\ chip.enabled ->
             chip.flash[InstructionAddress(ins)].low
      [] ins.op = "read_high" /\ chip.enabled ->
             chip.flash[InstructionAddress(ins)].high
      [] ins.op = "read_signature" /\ chip.enabled ->
             Signature[InstructionAddress(ins) + 1]
      [] OTHER -> ErasedByte
=============================================================================
