--------------------------- MODULE Firmware_proofs ---------------------------
(***************************************************************************)
(* Theorems about the firmware with any host, for every size of the flash, *)
(* every signature and every set of requests.                              *)
(***************************************************************************)
EXTENDS Firmware, SequenceTheorems, TLAPS

\* Before the first configuration no packet has come and the loop has not run.
UnconfiguredInv ==
    USB_Device_ConfigurationNumber = 0 =>
        /\ USB_DeviceState = "Unattached"
        /\ outBank = <<>> /\ inBank = <<>> /\ pc = "loop"

\* The target is selected during the sessions, and idle between them.
IdleInv ==
    ~InSession => /\ step = 0
                  /\ ~chip.enabled /\ chip.latch = ErasedWord

\* In a write or an erase session the packet is still in the bank; each step
\* tells what the target has been told so far.
OutSessionInv ==
    pc = "spi_out" =>
        /\ outBank # <<>> /\ Len(packet) > 0
        /\ packet[1] = commande_PC /\ commande_PC \in {3, 4}
        /\ ss = 0
        /\ step \in 1..5 /\ (commande_PC = 4 => step <= 3)
        /\ chip.enabled <=> step >= 2
        /\ commande_PC = 3 =>
              /\ flash_address = AddressIn(packet)
              /\ Len(packet) = 5
              /\ chip.latch = [low  |-> IF step \in {3, 4} THEN packet[4] ELSE 255,
                               high |-> IF step = 4 THEN packet[5] ELSE 255]
        /\ commande_PC = 4 => chip.latch = ErasedWord

\* In a read or an identification session the IN bank is free; the bytes read
\* so far are the first ones of the answer.
InSessionInv ==
    pc = "spi_in" =>
        /\ inBank = <<>>
        /\ commande_PC \in {1, 2}
        /\ ss = 0
        /\ step \in 1..10 /\ (commande_PC = 1 => step <= 5)
        /\ chip.enabled <=> step >= 2
        /\ chip.latch = ErasedWord
        /\ Len(fifo) = IF step = 1 THEN 0 ELSE step - 2
        /\ \A k \in 1..Len(fifo) :
              fifo[k] = IF commande_PC = 1 THEN Signature[k]
                        ELSE Block(chip.flash, flash_address)[k]

\* A read that is due is for a block of the flash.
ReadDueInv == commande_PC = 2 => flash_address \in BlockAddress

FirmwareInv ==
    /\ FirmwareTypeOK
    /\ UnconfiguredInv /\ IdleInv /\ OutSessionInv /\ InSessionInv /\ ReadDueInv
-----------------------------------------------------------------------------
\* What ProcessOUT finds in the bank: a packet with a command byte that the
\* host programs send, and as many bytes as the command reads.
LEMMA PacketFacts ==
    ASSUME FirmwareTypeOK, outBank \notin {<<>>, <<<<>>>>}
    PROVE  /\ outBank = <<packet>> /\ Len(packet) > 0
           /\ packet[1] \in LedValues \cup {1, 2, 3, 4}
           /\ packet[1] = 2 => Len(packet) = 3 /\ AddressIn(packet) \in BlockAddress
           /\ packet[1] = 3 => Len(packet) = 5 /\ AddressIn(packet) \in Word
<1>1. outBank = <<packet>> /\ IsRequest(packet) /\ packet # <<>>
  BY DEF FirmwareTypeOK
<1>2. packet \in Seq(Byte) /\ Len(packet) # 0
  BY <1>1 DEF IsRequest
<1>3. LedValues \cap {1, 2, 3, 4} = {}
  BY DEF LedValues
<1> QED
  BY <1>1, <1>2, <1>3 DEF IsRequest

\* Programming a word keeps the flash a flash.
LEMMA ProgrammedType ==
    ASSUME NEW old \in WordValue, NEW new \in WordValue
    PROVE  Programmed(old, new) \in WordValue
BY ByteAndAssumption DEF Programmed, WordValue

\* A word with all its bits set is a word.
LEMMA ErasedWordType == ErasedWord \in WordValue
BY DEF ErasedWord, ErasedByte, WordValue, Byte

\* Raising the select line disables the target and keeps its flash.
LEMMA ReleasedFacts ==
    ASSUME NEW c \in Chip
    PROVE  /\ Released(c) \in Chip
           /\ ~Released(c).enabled /\ Released(c).latch = ErasedWord
           /\ Released(c).flash = c.flash
BY ErasedWordType DEF Released, Chip

\* What each instruction does to a target that is enabled, and what it answers.
LEMMA EnableFacts ==
    ASSUME NEW c \in Chip
    PROVE  /\ Executed(c, Enable) \in Chip
           /\ Executed(c, Enable).enabled
           /\ Executed(c, Enable).latch = c.latch
           /\ Executed(c, Enable).flash = c.flash
BY DEF Executed, Enable, Instruction, Chip

\* An enabled target keeps the byte loaded in the low half of its latch.
LEMMA LoadLowFacts ==
    ASSUME NEW c \in Chip, c.enabled, NEW a \in Word, NEW b \in Byte
    PROVE  /\ Executed(c, Instruction("load_low", a, b)) \in Chip
           /\ Executed(c, Instruction("load_low", a, b)).enabled
           /\ Executed(c, Instruction("load_low", a, b)).flash = c.flash
           /\ Executed(c, Instruction("load_low", a, b)).latch = [low |-> b, high |-> c.latch.high]
<1>1. c.latch \in WordValue /\ [low |-> b, high |-> c.latch.high] \in WordValue
  BY DEF Chip, WordValue
<1>2. [c EXCEPT !.latch.low = b] = [c EXCEPT !.latch = [low |-> b, high |-> c.latch.high]]
  BY <1>1 DEF Chip, WordValue
<1>3. Executed(c, Instruction("load_low", a, b)) = [c EXCEPT !.latch.low = b]
  BY DEF Executed, Instruction
<1> QED
  BY <1>1, <1>2, <1>3 DEF Chip

\* The same for the high half.
LEMMA LoadHighFacts ==
    ASSUME NEW c \in Chip, c.enabled, NEW a \in Word, NEW b \in Byte
    PROVE  /\ Executed(c, Instruction("load_high", a, b)) \in Chip
           /\ Executed(c, Instruction("load_high", a, b)).enabled
           /\ Executed(c, Instruction("load_high", a, b)).flash = c.flash
           /\ Executed(c, Instruction("load_high", a, b)).latch = [low |-> c.latch.low, high |-> b]
<1>1. c.latch \in WordValue /\ [low |-> c.latch.low, high |-> b] \in WordValue
  BY DEF Chip, WordValue
<1>2. [c EXCEPT !.latch.high = b] = [c EXCEPT !.latch = [low |-> c.latch.low, high |-> b]]
  BY <1>1 DEF Chip, WordValue
<1>3. Executed(c, Instruction("load_high", a, b)) = [c EXCEPT !.latch.high = b]
  BY DEF Executed, Instruction
<1> QED
  BY <1>1, <1>2, <1>3 DEF Chip

\* A 16-bit address survives its way through two bytes of an instruction.
LEMMA AddressRoundTrip ==
    ASSUME NEW a \in Nat, a < 65536, NEW op, NEW b
    PROVE  InstructionAddress(Instruction(op, a, b)) = a
BY DEF InstructionAddress, Instruction

\* A page write programs the latch into one word and empties it.
LEMMA WritePageFacts ==
    ASSUME NEW c \in Chip, c.enabled, NEW a \in Word
    PROVE  LET done == Executed(c, Instruction("write_page", a, 0))
           IN /\ done \in Chip /\ done.enabled /\ done.latch = ErasedWord
              /\ done.flash = [c.flash EXCEPT ![a] = Programmed(@, c.latch)]
<1>1. InstructionAddress(Instruction("write_page", a, 0)) = a
  BY AddressRoundTrip, FlashAssumption DEF Word
<1>2. /\ c.flash \in [Word -> WordValue] /\ c.latch \in WordValue
      /\ Programmed(c.flash[a], c.latch) \in WordValue
  BY ProgrammedType DEF Chip
<1>3. Executed(c, Instruction("write_page", a, 0))
        = [c EXCEPT !.flash = [c.flash EXCEPT ![a] = Programmed(c.flash[a], c.latch)],
                    !.latch = ErasedWord]
  BY <1>1, <1>2 DEF Executed, Instruction, Chip
<1>4. [c.flash EXCEPT ![a] = Programmed(c.flash[a], c.latch)] \in [Word -> WordValue]
  BY <1>2
<1> QED
  BY <1>3, <1>4, ErasedWordType DEF Chip

\* An erase leaves every word with all its bits set.
LEMMA ChipEraseFacts ==
    ASSUME NEW c \in Chip, c.enabled
    PROVE  LET done == Executed(c, ChipErase)
           IN /\ done \in Chip /\ done.enabled /\ done.latch = c.latch
              /\ done.flash = [a \in Word |-> ErasedWord]
<1>1. [a \in Word |-> ErasedWord] \in [Word -> WordValue]
  BY ErasedWordType
<1> QED
  BY <1>1 DEF Executed, ChipErase, Instruction, Chip

\* The target holds the initial flash, and the loop is at rest.
LEMMA InitInv == FirmwareInit => FirmwareInv
<1> SUFFICES ASSUME FirmwareInit PROVE FirmwareInv
  OBVIOUS
<1>1. chip \in Chip /\ ~chip.enabled /\ chip.latch = ErasedWord
  BY InitialFlashesAssumption
     DEF FirmwareInit, Chip, ErasedWord, ErasedByte, WordValue, Byte
<1>2. commande_PC \in LedValues /\ flash_address \in Word
  BY FlashAssumption DEF FirmwareInit, LedValues, Word
<1>3. FirmwareTypeOK
  BY <1>1, <1>2 DEF FirmwareInit, FirmwareTypeOK
<1> QED
  BY <1>1, <1>3 DEF FirmwareInit, FirmwareInv, UnconfiguredInv, IdleInv, InSession,
     OutSessionInv, InSessionInv, ReadDueInv

\* The check of USB_DeviceState changes nothing the invariant speaks of.
LEMMA MainLoopInv == FirmwareInv /\ MainLoop => FirmwareInv'
<1> SUFFICES ASSUME FirmwareInv, MainLoop PROVE FirmwareInv'
  OBVIOUS
<1> USE DEF FirmwareInv, MainLoop, usbVars
<1>1. FirmwareTypeOK'
  BY DEF FirmwareTypeOK, packet
<1> QED
  BY <1>1 DEF UnconfiguredInv, IdleInv, InSession, OutSessionInv, InSessionInv,
     ReadDueInv

\* An empty packet leaves everything but its bank as it was.
LEMMA ProcessOUTNothingInv == FirmwareInv /\ ProcessOUTNothing => FirmwareInv'
<1> SUFFICES ASSUME FirmwareInv, ProcessOUTNothing PROVE FirmwareInv'
  OBVIOUS
<1> USE DEF FirmwareInv, ProcessOUTNothing, usbVars
<1>1. FirmwareTypeOK'
  BY DEF FirmwareTypeOK, packet
<1> QED
  BY <1>1 DEF UnconfiguredInv, IdleInv, InSession, OutSessionInv, InSessionInv,
     ReadDueInv

\* A read noted is for a block; an LED command leaves bits 0 to 4 clear.
LEMMA ProcessOUTCommandInv == FirmwareInv /\ ProcessOUTCommand => FirmwareInv'
<1> SUFFICES ASSUME FirmwareInv, ProcessOUTCommand PROVE FirmwareInv'
  OBVIOUS
<1> USE DEF FirmwareInv, ProcessOUTCommand, usbVars
<1>1. /\ packet[1] \in LedValues \cup {1, 2}
      /\ packet[1] = 2 => AddressIn(packet) \in BlockAddress
  BY PacketFacts
<1>2. packet[1] \notin {1, 2} => packet[1] % 2 = 0 /\ packet[1] \div 32 \in 0..7
  BY <1>1 DEF LedValues
<1>3. FirmwareTypeOK'
  BY <1>1, <1>2 DEF FirmwareTypeOK, BlockAddress
<1> QED
  BY <1>1, <1>3 DEF UnconfiguredInv, IdleInv, InSession, OutSessionInv,
     InSessionInv, ReadDueInv

\* A write or an erase begins with the target selected and not enabled.
LEMMA ProcessOUTSessionInv == FirmwareInv /\ ProcessOUTSession => FirmwareInv'
<1> SUFFICES ASSUME FirmwareInv, ProcessOUTSession PROVE FirmwareInv'
  OBVIOUS
<1> USE DEF FirmwareInv, ProcessOUTSession, spi_ON, usbVars
<1>1. /\ Len(packet) > 0
      /\ packet[1] = 3 => Len(packet) = 5 /\ AddressIn(packet) \in Word
  BY PacketFacts
<1>2. FirmwareTypeOK'
  BY <1>1 DEF FirmwareTypeOK, packet
<1> QED
  BY <1>1, <1>2 DEF UnconfiguredInv, IdleInv, InSession, OutSessionInv,
     InSessionInv, ReadDueInv, packet, ErasedWord, ErasedByte

\* spi_OFF releases the target before the loop goes on.
LEMMA ProcessOUTEndInv == FirmwareInv /\ ProcessOUTEnd => FirmwareInv'
<1> SUFFICES ASSUME FirmwareInv, ProcessOUTEnd PROVE FirmwareInv'
  OBVIOUS
<1> USE DEF FirmwareInv, ProcessOUTEnd, spi_OFF, usbVars
<1>1. chip' \in Chip /\ ~chip'.enabled /\ chip'.latch = ErasedWord
  BY ReleasedFacts DEF FirmwareTypeOK
<1>2. FirmwareTypeOK'
  BY <1>1 DEF FirmwareTypeOK
<1> QED
  BY <1>1, <1>2 DEF UnconfiguredInv, IdleInv, InSession, OutSessionInv,
     InSessionInv, ReadDueInv

\* With the IN bank full the loop only goes on.
LEMMA ProcessINBusyInv == FirmwareInv /\ ProcessINBusy => FirmwareInv'
<1> SUFFICES ASSUME FirmwareInv, ProcessINBusy PROVE FirmwareInv'
  OBVIOUS
<1> USE DEF FirmwareInv, ProcessINBusy, usbVars
<1>1. FirmwareTypeOK'
  BY DEF FirmwareTypeOK, packet
<1> QED
  BY <1>1 DEF UnconfiguredInv, IdleInv, InSession, OutSessionInv, InSessionInv,
     ReadDueInv

\* A button packet has one byte.
LEMMA ProcessINButtonsInv == FirmwareInv /\ ProcessINButtons => FirmwareInv'
<1> SUFFICES ASSUME FirmwareInv, ProcessINButtons PROVE FirmwareInv'
  OBVIOUS
<1> USE DEF FirmwareInv, ProcessINButtons, usbVars
<1>1. PICK b \in Buttons : inBank' = << <<b>> >>
  OBVIOUS
<1>2. <<b>> \in Seq(Byte) /\ Len(<<b>>) = 1
  BY ButtonsAssumption DEF Byte
<1>3. FirmwareTypeOK'
  BY <1>1, <1>2 DEF FirmwareTypeOK, packet
<1> QED
  BY <1>3 DEF UnconfiguredInv, IdleInv, InSession, OutSessionInv, InSessionInv,
     ReadDueInv

\* The session is over: the bank gets the whole answer, of three or eight bytes.
LEMMA ProcessINEndInv == FirmwareInv /\ ProcessINEnd => FirmwareInv'
<1> SUFFICES ASSUME FirmwareInv, ProcessINEnd PROVE FirmwareInv'
  OBVIOUS
<1> USE DEF FirmwareInv, ProcessINEnd, spi_OFF, usbVars
<1>1. chip' \in Chip /\ ~chip'.enabled /\ chip'.latch = ErasedWord
  BY ReleasedFacts DEF FirmwareTypeOK
<1>2. Len(fifo) \in {3, 8}
  <2>1. CASE commande_PC = 1
    <3>1. Len(Session) = 4
      BY <2>1 DEF Session, IdSession
    <3> QED
      BY <2>1, <3>1 DEF SessionOver, InSessionInv
  <2>2. CASE commande_PC = 2
    <3>1. Len(Session) = 9
      BY <2>2 DEF Session, ReadSession
    <3> QED
      BY <2>2, <3>1 DEF SessionOver, InSessionInv
  <2> QED
    BY <2>1, <2>2 DEF InSessionInv
<1>3. commande_PC' \in LedValues /\ <<>> \in Seq(Byte)
  BY DEF LedValues
<1>4. FirmwareTypeOK'
  BY <1>1, <1>2, <1>3 DEF FirmwareTypeOK, packet
<1> QED
  BY <1>1, <1>4 DEF UnconfiguredInv, IdleInv, InSession, OutSessionInv,
     InSessionInv, ReadDueInv

\* A read or an identification begins with nothing read yet.
LEMMA ProcessINSessionInv == FirmwareInv /\ ProcessINSession => FirmwareInv'
<1> SUFFICES ASSUME FirmwareInv, ProcessINSession PROVE FirmwareInv'
  OBVIOUS
<1> USE DEF FirmwareInv, ProcessINSession, spi_ON, usbVars
<1>1. FirmwareTypeOK'
  BY DEF FirmwareTypeOK, packet
<1> QED
  BY <1>1 DEF UnconfiguredInv, IdleInv, InSession, OutSessionInv, InSessionInv,
     ReadDueInv

\* One instruction of a write or an erase session: the enable, then the two
\* loads and the page write, or the erase.
LEMMA SpiOutInv == FirmwareInv /\ SpiOut => FirmwareInv'
<1> SUFFICES ASSUME FirmwareInv, SpiOut PROVE FirmwareInv'
  OBVIOUS
<1> DEFINE c == Executed(chip, Session[step])
<1>1. /\ pc = "spi_out" /\ chip \in Chip /\ chip' = c
      /\ step' = step + 1 /\ step \in 1..5 /\ commande_PC \in {3, 4}
      /\ outBank # <<>> /\ outBank = <<packet>> /\ IsRequest(packet) /\ Len(packet) > 0
      /\ ss = 0 /\ flash_address \in Word
      /\ packet[1] = commande_PC
      /\ chip.enabled <=> step >= 2
      /\ UNCHANGED <<usbVars, outBank, inBank, pc, commande_PC, flash_address,
                     fifo, ss, leds>>
  BY DEF FirmwareInv, FirmwareTypeOK, OutSessionInv, SpiOut
<1>2. CASE commande_PC = 3
  <2>1. /\ Session = WriteSession(flash_address, packet[4], packet[5])
        /\ step \in 1..4
    BY <1>1, <1>2 DEF SpiOut, Session, WriteSession
  <2>2. /\ flash_address = AddressIn(packet) /\ Len(packet) = 5
        /\ chip.latch = [low  |-> IF step \in {3, 4} THEN packet[4] ELSE 255,
                         high |-> IF step = 4 THEN packet[5] ELSE 255]
    BY <1>1, <1>2 DEF FirmwareInv, OutSessionInv
  <2>0. packet[4] \in Byte /\ packet[5] \in Byte
    <3>1. packet \in Seq(Byte) /\ 4 \in 1..Len(packet) /\ 5 \in 1..Len(packet)
      BY <1>1, <2>2 DEF IsRequest
    <3> QED
      BY <3>1, ElementOfSeq
  <2>3. /\ c \in Chip /\ c.enabled
        /\ c.latch = [low  |-> IF step' \in {3, 4} THEN packet[4] ELSE 255,
                      high |-> IF step' = 4 THEN packet[5] ELSE 255]
    <3>1. CASE step = 1
      <4>1. c = Executed(chip, Enable)
        BY <2>1, <3>1 DEF WriteSession
      <4> QED
        BY <4>1, <3>1, <1>1, <2>2, EnableFacts
    <3>2. CASE step = 2
      <4>1. c = Executed(chip, Instruction("load_low", flash_address, packet[4]))
        BY <2>1, <3>2 DEF WriteSession
      <4>2. /\ c \in Chip /\ c.enabled
            /\ c.latch = [low |-> packet[4], high |-> chip.latch.high]
        <5>1. chip.enabled
          BY <3>2, <1>1
        <5> QED
          BY <4>1, <5>1, <1>1, <2>0, LoadLowFacts
      <4> QED
        BY <4>2, <3>2, <1>1, <2>2
    <3>3. CASE step = 3
      <4>1. c = Executed(chip, Instruction("load_high", flash_address, packet[5]))
        BY <2>1, <3>3 DEF WriteSession
      <4>2. /\ c \in Chip /\ c.enabled
            /\ c.latch = [low |-> chip.latch.low, high |-> packet[5]]
        <5>1. chip.enabled
          BY <3>3, <1>1
        <5> QED
          BY <4>1, <5>1, <1>1, <2>0, LoadHighFacts
      <4> QED
        BY <4>2, <3>3, <1>1, <2>2
    <3>4. CASE step = 4
      <4>1. c = Executed(chip, Instruction("write_page", flash_address, 0))
        BY <2>1, <3>4 DEF WriteSession
      <4>2. c \in Chip /\ c.enabled /\ c.latch = ErasedWord
        <5>1. chip.enabled
          BY <3>4, <1>1
        <5> QED
          BY <4>1, <5>1, <1>1, WritePageFacts
      <4> QED
        BY <4>2, <3>4, <1>1 DEF ErasedWord, ErasedByte
    <3> QED
      BY <2>1, <3>1, <3>2, <3>3, <3>4
  <2>4. FirmwareTypeOK'
    BY <1>1, <2>1, <2>3 DEF FirmwareInv, FirmwareTypeOK, packet, usbVars
  <2>5. OutSessionInv'
    BY <1>1, <1>2, <2>1, <2>2, <2>3 DEF OutSessionInv, packet
  <2> QED
    BY <1>1, <2>4, <2>5 DEF FirmwareInv, UnconfiguredInv, IdleInv, InSession,
       InSessionInv, ReadDueInv, usbVars
<1>3. CASE commande_PC = 4
  <2>1. Session = EraseSession /\ step \in 1..2
    BY <1>1, <1>3 DEF SpiOut, Session, EraseSession
  <2>2. chip.latch = ErasedWord
    BY <1>1, <1>3 DEF FirmwareInv, OutSessionInv
  <2>3. c \in Chip /\ c.enabled /\ c.latch = ErasedWord
    <3>1. CASE step = 1
      <4>1. c = Executed(chip, Enable)
        BY <2>1, <3>1 DEF EraseSession
      <4> QED
        BY <4>1, <1>1, <2>2, EnableFacts
    <3>2. CASE step = 2
      <4>1. c = Executed(chip, ChipErase)
        BY <2>1, <3>2 DEF EraseSession
      <4> QED
        BY <4>1, <3>2, <1>1, <2>2, ChipEraseFacts
    <3> QED
      BY <2>1, <3>1, <3>2
  <2>4. FirmwareTypeOK'
    BY <1>1, <2>1, <2>3 DEF FirmwareInv, FirmwareTypeOK, packet, usbVars
  <2>5. OutSessionInv'
    BY <1>1, <1>3, <2>1, <2>3 DEF OutSessionInv, packet
  <2> QED
    BY <1>1, <2>4, <2>5 DEF FirmwareInv, UnconfiguredInv, IdleInv, InSession,
       InSessionInv, ReadDueInv, usbVars
<1> QED
  BY <1>1, <1>2, <1>3

\* The four words of a block lie in the flash.
LEMMA BlockInFlash ==
    ASSUME NEW a \in BlockAddress
    PROVE  a \in Nat /\ a + 3 < FlashWords /\ FlashWords \in Nat /\ FlashWords <= 65536
<1>1. a \in Nat /\ a < FlashWords /\ a % 4 = 0
  BY FlashAssumption DEF BlockAddress, Word
<1> QED
  BY <1>1, FlashAssumption, BlocksAssumption

\* A read instruction leaves the target as it is, and answers with the byte
\* asked for.
LEMMA ReadFacts ==
    ASSUME NEW c \in Chip, c.enabled, NEW a \in Word
    PROVE  /\ Executed(c, Instruction("read_low", a, 0)) = c
           /\ Executed(c, Instruction("read_high", a, 0)) = c
           /\ Answer(c, Instruction("read_low", a, 0)) = c.flash[a].low
           /\ Answer(c, Instruction("read_high", a, 0)) = c.flash[a].high
<1>1. /\ InstructionAddress(Instruction("read_low", a, 0)) = a
      /\ InstructionAddress(Instruction("read_high", a, 0)) = a
  BY AddressRoundTrip, FlashAssumption DEF Word
<1>2. /\ Instruction("read_low", a, 0).op = "read_low"
      /\ Instruction("read_high", a, 0).op = "read_high"
  BY DEF Instruction
<1> QED
  BY <1>1, <1>2 DEF Executed, Answer

\* The answer of an enabled target to a signature instruction.
LEMMA ReadSignatureFacts ==
    ASSUME NEW c \in Chip, c.enabled, NEW a \in 0..2
    PROVE  /\ Executed(c, Instruction("read_signature", a, 0)) = c
           /\ Answer(c, Instruction("read_signature", a, 0)) = Signature[a + 1]
<1>1. InstructionAddress(Instruction("read_signature", a, 0)) = a
  BY AddressRoundTrip
<1>2. Instruction("read_signature", a, 0).op = "read_signature"
  BY DEF Instruction
<1> QED
  BY <1>1, <1>2 DEF Executed, Answer

\* A block is eight bytes.
LEMMA BlockType ==
    ASSUME NEW f \in [Word -> WordValue], NEW a \in BlockAddress, NEW k \in 1..8
    PROVE  Block(f, a)[k] \in Byte
<1> DEFINE i == (k - 1) \div 2
<1>1. i \in 0..3
  OBVIOUS
<1>2. a + i \in Word
  BY <1>1, BlockInFlash DEF Word
<1>3. f[a + (k - 1) \div 2] \in WordValue
  BY <1>2
<1> QED
  BY <1>3 DEF Block, WordValue

\* The byte the answer due has at a position.
DueByte(k) == IF commande_PC = 1 THEN Signature[k]
              ELSE Block(chip.flash, flash_address)[k]

\* One instruction of an identification or a read session: the enable, then
\* one more byte of the answer each time.  The flash stays as it is.
LEMMA SpiInFacts ==
    ASSUME FirmwareInv, SpiIn
    PROVE  /\ commande_PC = 1 => step \in 1..4
           /\ commande_PC = 2 => step \in 1..9
           /\ chip' \in Chip /\ chip'.enabled /\ chip'.latch = ErasedWord
           /\ chip'.flash = chip.flash
           /\ step # 1 => /\ Answer(chip, Session[step]) \in Byte
                          /\ Answer(chip, Session[step]) = DueByte(step - 1)
<1> DEFINE c == Executed(chip, Session[step])
           answer == Answer(chip, Session[step])
<1>1. /\ pc = "spi_in" /\ chip \in Chip /\ chip' = c
      /\ step' = step + 1 /\ step \in 1..10 /\ commande_PC \in {1, 2}
      /\ inBank = <<>> /\ ss = 0
      /\ chip.enabled <=> step >= 2
      /\ chip.latch = ErasedWord
      /\ fifo \in Seq(Byte)
      /\ Len(fifo) = IF step = 1 THEN 0 ELSE step - 2
      /\ \A k \in 1..Len(fifo) : fifo[k] = DueByte(k)
      /\ fifo' = IF step = 1 THEN fifo ELSE Append(fifo, answer)
      /\ UNCHANGED <<usbVars, outBank, inBank, pc, commande_PC, flash_address, ss,
                     leds>>
  BY DEF FirmwareInv, FirmwareTypeOK, InSessionInv, SpiIn, DueByte
<1>2. /\ commande_PC = 1 => step \in 1..4
      /\ commande_PC = 2 => step \in 1..9
  <2>1. CASE commande_PC = 1
    <3>1. Session = IdSession /\ Len(IdSession) = 4
      BY <2>1 DEF Session, IdSession
    <3> QED
      BY <2>1, <3>1, <1>1 DEF SpiIn
  <2>2. CASE commande_PC = 2
    <3>1. Session = ReadSession(flash_address) /\ Len(ReadSession(flash_address)) = 9
      BY <2>2 DEF Session, ReadSession
    <3> QED
      BY <2>2, <3>1, <1>1 DEF SpiIn
  <2> QED
    BY <2>1, <2>2, <1>1
<1>3. /\ c \in Chip /\ c.enabled /\ c.latch = ErasedWord /\ c.flash = chip.flash
      /\ step # 1 => answer \in Byte /\ answer = DueByte(step - 1)
  <2>1. CASE step = 1
    <3>1. Session[1] = Enable
      BY <1>1 DEF Session, IdSession, ReadSession
    <3> QED
      BY <2>1, <3>1, <1>1, EnableFacts
  <2>2. CASE step # 1 /\ commande_PC = 1
    <3>1. /\ step - 2 \in 0..2 /\ step \in 1..4 /\ step # 1
          /\ step - 2 + 1 = step - 1 /\ step - 1 \in 1..3
      BY <2>2, <1>1, <1>2
    <3>2. Session[step] = Instruction("read_signature", step - 2, 0)
      BY <2>2, <3>1 DEF Session, IdSession
    <3>3. chip.enabled
      BY <3>1, <1>1
    <3>4. c = chip /\ answer = Signature[step - 1]
      BY <3>1, <3>2, <3>3, <1>1, ReadSignatureFacts
    <3> QED
      BY <2>2, <3>1, <3>3, <3>4, <1>1, SignatureAssumption DEF DueByte
  <2>3. CASE step # 1 /\ commande_PC = 2
    <3> DEFINE i == (step - 2) \div 2
               a == flash_address + i
    <3>1. step \in 2..9 /\ i \in 0..3 /\ step - 1 \in 1..8 /\ i = (step - 1 - 1) \div 2
      BY <2>3, <1>1, <1>2
    <3>2. flash_address \in BlockAddress
      BY <2>3 DEF FirmwareInv, ReadDueInv
    <3>3. a \in Word /\ a % 65536 = a
      <4>1. /\ flash_address \in Nat /\ flash_address + 3 < FlashWords
            /\ FlashWords \in Nat /\ FlashWords <= 65536
        BY <3>2, BlockInFlash
      <4>2. a \in Word
        BY <3>1, <4>1 DEF Word
      <4> HIDE DEF i
      <4> QED
        BY <3>1, <4>1, <4>2
    <3>4. Session[step] = Instruction(IF step % 2 = 0 THEN "read_low" ELSE "read_high",
                                      a, 0)
      BY <2>3, <3>1, <3>3 DEF Session, ReadSession
    <3>5. chip.enabled /\ chip.flash \in [Word -> WordValue]
      BY <3>1, <1>1 DEF Chip
    <3>6. /\ c = chip
          /\ answer = IF step % 2 = 0 THEN chip.flash[a].low ELSE chip.flash[a].high
      BY <3>3, <3>4, <3>5, <1>1, ReadFacts
    <3>7. step % 2 = 0 <=> (step - 1) % 2 = 1
      BY <3>1
    <3>8. answer = Block(chip.flash, flash_address)[step - 1]
      BY <3>1, <3>6, <3>7 DEF Block
    <3>9. answer \in Byte
      BY <3>1, <3>2, <3>5, <3>8, BlockType
    <3> QED
      BY <2>3, <3>5, <3>6, <3>8, <3>9, <1>1 DEF DueByte
  <2> QED
    BY <2>1, <2>2, <2>3, <1>1
<1> QED
  BY <1>1, <1>2, <1>3

\* Each instruction of a read adds the next byte of the answer.
LEMMA SpiInInv == FirmwareInv /\ SpiIn => FirmwareInv'
<1> SUFFICES ASSUME FirmwareInv, SpiIn PROVE FirmwareInv'
  OBVIOUS
<1> DEFINE c == Executed(chip, Session[step])
           answer == Answer(chip, Session[step])
<1>1. /\ pc = "spi_in" /\ chip \in Chip /\ chip' = c
      /\ step' = step + 1 /\ step \in 1..10 /\ commande_PC \in {1, 2}
      /\ inBank = <<>> /\ ss = 0
      /\ chip.enabled <=> step >= 2
      /\ chip.latch = ErasedWord
      /\ fifo \in Seq(Byte)
      /\ Len(fifo) = IF step = 1 THEN 0 ELSE step - 2
      /\ \A k \in 1..Len(fifo) : fifo[k] = DueByte(k)
      /\ fifo' = IF step = 1 THEN fifo ELSE Append(fifo, answer)
      /\ UNCHANGED <<usbVars, outBank, inBank, pc, commande_PC, flash_address, ss,
                     leds>>
  BY DEF FirmwareInv, FirmwareTypeOK, InSessionInv, SpiIn, DueByte
<1>2. /\ commande_PC = 1 => step \in 1..4
      /\ commande_PC = 2 => step \in 1..9
  BY SpiInFacts
<1>3. /\ c \in Chip /\ c.enabled /\ c.latch = ErasedWord /\ c.flash = chip.flash
      /\ step # 1 => answer \in Byte /\ answer = DueByte(step - 1)
  BY <1>1, SpiInFacts
<1>4. /\ fifo' \in Seq(Byte)
      /\ Len(fifo') = step - 1
      /\ \A k \in 1..Len(fifo') : fifo'[k] = DueByte(k)
  <2>1. CASE step = 1
    BY <2>1, <1>1
  <2>2. CASE step # 1
    <3>1. /\ fifo' = Append(fifo, answer) /\ answer \in Byte /\ Len(fifo) = step - 2
          /\ answer = DueByte(step - 1)
      BY <2>2, <1>1, <1>3
    <3> HIDE DEF answer
    <3>2. /\ fifo' \in Seq(Byte) /\ Len(fifo') = Len(fifo) + 1
          /\ fifo'[Len(fifo) + 1] = answer
          /\ \A k \in 1..Len(fifo) : fifo'[k] = fifo[k]
      BY <3>1, <1>1, AppendProperties
    <3> QED
      BY <3>1, <3>2, <2>2, <1>1
  <2> QED
    BY <2>1, <2>2
<1>5. FirmwareTypeOK'
  BY <1>1, <1>2, <1>3, <1>4 DEF FirmwareInv, FirmwareTypeOK, packet, usbVars
<1>6. InSessionInv'
  BY <1>1, <1>2, <1>3, <1>4 DEF InSessionInv, DueByte
<1> QED
  BY <1>1, <1>5, <1>6 DEF FirmwareInv, UnconfiguredInv, IdleInv, InSession,
     OutSessionInv, ReadDueInv, usbVars

\* A packet of a host never arrives during a write or an erase.
LEMMA TransferOUTInv ==
    ASSUME FirmwareInv, NEW p, IsRequest(p), TransferOUT(p)
    PROVE  FirmwareInv'
<1> USE DEF FirmwareInv, TransferOUT, usbVars, mainVars
<1>1. FirmwareTypeOK'
  BY DEF FirmwareTypeOK, packet
<1>2. pc # "spi_out" /\ USB_Device_ConfigurationNumber # 0
  BY DEF OutSessionInv, UnconfiguredInv
<1> QED
  BY <1>1, <1>2 DEF UnconfiguredInv, IdleInv, InSession, OutSessionInv,
     InSessionInv, ReadDueInv

\* A packet is never fetched during a read: its bank is free.
LEMMA TransferINInv ==
    ASSUME FirmwareInv, TransferIN
    PROVE  FirmwareInv'
<1> USE DEF FirmwareInv, TransferIN, usbVars, mainVars
<1>1. FirmwareTypeOK'
  BY DEF FirmwareTypeOK, packet
<1>2. pc # "spi_in"
  BY DEF InSessionInv
<1> QED
  BY <1>1, <1>2 DEF UnconfiguredInv, IdleInv, InSession, OutSessionInv,
     InSessionInv, ReadDueInv, packet

\* Configuration comes before any packet; suspends keep the banks.
LEMMA BusInv == FirmwareInv /\ Bus => FirmwareInv'
<1> SUFFICES ASSUME FirmwareInv, Bus PROVE FirmwareInv'
  OBVIOUS
<1> USE DEF FirmwareInv, mainVars
<1>1. FirmwareTypeOK'
  BY DEF FirmwareTypeOK, packet, Bus, ConfigurationChanged,
     EVENT_USB_Device_ConfigurationChanged, Suspend, WakeUp
<1>2. CASE ConfigurationChanged
  <2>1. pc = "loop" /\ pc' = "loop"
    BY <1>2 DEF ConfigurationChanged, EVENT_USB_Device_ConfigurationChanged,
       UnconfiguredInv
  <2> QED
    BY <1>1, <1>2, <2>1 DEF ConfigurationChanged,
       EVENT_USB_Device_ConfigurationChanged, UnconfiguredInv, IdleInv,
       InSession, OutSessionInv, InSessionInv, ReadDueInv
<1>3. CASE Suspend \/ WakeUp
  BY <1>1, <1>3 DEF Suspend, WakeUp, UnconfiguredInv, IdleInv, InSession,
     OutSessionInv, InSessionInv, ReadDueInv, packet
<1> QED
  BY <1>2, <1>3 DEF Bus

\* A step of the main loop, whatever the host and the bus do between two.
LEMMA MainInv == FirmwareInv /\ Main => FirmwareInv'
BY MainLoopInv, ProcessOUTNothingInv, ProcessOUTCommandInv, ProcessOUTSessionInv,
   SpiOutInv, ProcessOUTEndInv, ProcessINBusyInv, ProcessINButtonsInv,
   ProcessINSessionInv, SpiInInv, ProcessINEndInv DEF Main

\* A step that changes nothing of the firmware.
LEMMA StutterInv == FirmwareInv /\ UNCHANGED firmwareVars => FirmwareInv'
<1> SUFFICES ASSUME FirmwareInv, UNCHANGED firmwareVars PROVE FirmwareInv'
  OBVIOUS
<1> USE DEF FirmwareInv, firmwareVars, usbVars, mainVars
<1>1. FirmwareTypeOK'
  BY DEF FirmwareTypeOK, packet
<1> QED
  BY <1>1 DEF UnconfiguredInv, IdleInv, InSession, OutSessionInv, InSessionInv,
     ReadDueInv, packet

\* Any step of the firmware, its host and its bus.
LEMMA NextInv == FirmwareInv /\ [FirmwareNext]_firmwareVars => FirmwareInv'
<1> SUFFICES ASSUME FirmwareInv, [FirmwareNext]_firmwareVars PROVE FirmwareInv'
  OBVIOUS
<1>1. CASE Main
  BY <1>1, MainInv
<1>2. CASE Bus
  BY <1>2, BusInv
<1>3. CASE TransferIN
  BY <1>3, TransferINInv
<1>4. CASE \E p \in Requests : TransferOUT(p)
  BY <1>4, TransferOUTInv, RequestsAssumption
<1>5. CASE UNCHANGED firmwareVars
  BY <1>5, StutterInv
<1> QED
  BY <1>1, <1>2, <1>3, <1>4, <1>5 DEF FirmwareNext, AnyHost

\* At every moment, with any host: what each place in the main loop and in its
\* SPI sessions says of the banks, the target and the bytes read so far.
THEOREM FirmwareInvariant == FirmwareSpec => []FirmwareInv
BY InitInv, NextInv, PTL DEF FirmwareSpec

\* Every variable of the firmware keeps its type, with any host: commands,
\* addresses and answers stay in range for every flash of up to 65536 words.
THEOREM FirmwareTypeCorrect == FirmwareSpec => []FirmwareTypeOK
<1>1. FirmwareInv => FirmwareTypeOK
  BY DEF FirmwareInv
<1> QED
  BY <1>1, FirmwareInvariant, PTL

\* The target is enabled, and its latch loaded, only inside the SPI sessions of
\* main.c, whatever the host sends and however the bus behaves.
THEOREM TargetSafe == FirmwareSpec => []ProgrammingOnlyInSession
<1>1. FirmwareInv => ProgrammingOnlyInSession
  <2> SUFFICES ASSUME FirmwareInv PROVE ProgrammingOnlyInSession
    OBVIOUS
  <2>1. CASE pc = "spi_out"
    BY <2>1 DEF FirmwareInv, OutSessionInv, ProgrammingOnlyInSession, InSession
  <2>2. CASE pc = "spi_in"
    BY <2>2 DEF FirmwareInv, InSessionInv, ProgrammingOnlyInSession, InSession
  <2>3. CASE ~InSession
    BY <2>3 DEF FirmwareInv, IdleInv, ProgrammingOnlyInSession
  <2> QED
    BY <2>1, <2>2, <2>3 DEF InSession
<1> QED
  BY <1>1, FirmwareInvariant, PTL
-----------------------------------------------------------------------------
\* A write or an erase has reached the flash before its packet leaves the OUT bank:
\* the host's only sign that a command was carried out is true.

\* What the target holds when the session of a write or an erase is over, and
\* the packet still in the bank.
EffectInv ==
    (pc = "spi_out" /\ SessionOver) =>
        /\ commande_PC = 3 =>
              chip.flash[flash_address] =
                  Programmed(chip.flash[flash_address],
                             [low |-> packet[4], high |-> packet[5]])
        /\ commande_PC = 4 => chip.flash = [a \in Word |-> ErasedWord]

\* Programming a word a second time changes nothing.
LEMMA ProgrammedTwice ==
    ASSUME NEW old \in WordValue, NEW new \in WordValue
    PROVE  Programmed(Programmed(old, new), new) = Programmed(old, new)
BY ByteAndTwiceAssumption DEF Programmed, WordValue

\* The last instruction of a session does its work.
LEMMA SpiOutEffect ==
    ASSUME FirmwareInv, SpiOut
    PROVE  EffectInv'
<1>1. /\ pc = "spi_out" /\ chip \in Chip /\ flash_address \in Word
      /\ outBank = <<packet>> /\ step \in 1..5 /\ commande_PC \in {3, 4}
      /\ chip.enabled <=> step >= 2
      /\ step <= Len(Session) /\ step' = step + 1
      /\ chip' = Executed(chip, Session[step])
      /\ UNCHANGED <<outBank, commande_PC, flash_address>>
  BY DEF FirmwareInv, FirmwareTypeOK, OutSessionInv, SpiOut
<1>2. Session' = Session /\ packet' = packet
  BY <1>1 DEF Session, packet
<1>3. CASE commande_PC = 3
  <2>1. /\ Session = WriteSession(flash_address, packet[4], packet[5])
        /\ Len(Session) = 4
    BY <1>1, <1>3 DEF Session, WriteSession
  <2>2. /\ Len(packet) = 5
        /\ chip.latch = [low  |-> IF step \in {3, 4} THEN packet[4] ELSE 255,
                         high |-> IF step = 4 THEN packet[5] ELSE 255]
    BY <1>1, <1>3 DEF FirmwareInv, OutSessionInv
  <2> DEFINE word == [low |-> packet[4], high |-> packet[5]]
  <2>3. word \in WordValue
    <3>1. packet \in Seq(Byte) /\ 4 \in 1..Len(packet) /\ 5 \in 1..Len(packet)
      BY <1>1, <2>2 DEF FirmwareInv, FirmwareTypeOK, IsRequest
    <3>2. packet[4] \in Byte /\ packet[5] \in Byte
      BY <3>1, ElementOfSeq
    <3> QED
      BY <3>2 DEF WordValue
  <2>4. CASE step = 4
    <3>1. chip' = Executed(chip, Instruction("write_page", flash_address, 0))
      BY <1>1, <2>1, <2>4 DEF WriteSession
    <3>2. chip.enabled /\ chip.latch = word
      BY <1>1, <2>2, <2>4
    <3>3. chip'.flash = [chip.flash EXCEPT ![flash_address] = Programmed(@, word)]
      BY <1>1, <3>1, <3>2, WritePageFacts
    <3>4. /\ chip.flash \in [Word -> WordValue]
          /\ chip.flash[flash_address] \in WordValue
      BY <1>1 DEF Chip
    <3>5. chip'.flash[flash_address] = Programmed(chip.flash[flash_address], word)
      BY <1>1, <3>3, <3>4
    <3>6. chip'.flash[flash_address] = Programmed(chip'.flash[flash_address], word)
      BY <2>3, <3>4, <3>5, ProgrammedTwice
    <3> QED
      BY <1>1, <1>2, <1>3, <3>6 DEF EffectInv
  <2>5. CASE step # 4
    BY <1>1, <1>2, <2>1, <2>5 DEF EffectInv, SessionOver
  <2> QED
    BY <2>4, <2>5
<1>4. CASE commande_PC = 4
  <2>1. Session = EraseSession /\ Len(Session) = 2
    BY <1>1, <1>4 DEF Session, EraseSession
  <2>2. CASE step = 2
    <3>1. chip' = Executed(chip, ChipErase) /\ chip.enabled
      BY <1>1, <2>1, <2>2 DEF EraseSession
    <3>2. chip'.flash = [a \in Word |-> ErasedWord]
      BY <1>1, <3>1, ChipEraseFacts
    <3> QED
      BY <1>1, <1>4, <3>2 DEF EffectInv, Word, ErasedWord
  <2>3. CASE step # 2
    BY <1>1, <1>2, <2>1, <2>3 DEF EffectInv, SessionOver
  <2> QED
    BY <2>2, <2>3
<1> QED
  BY <1>1, <1>3, <1>4

\* A session that begins is not over.
LEMMA ProcessOUTSessionEffect ==
    ASSUME FirmwareInv, ProcessOUTSession
    PROVE  EffectInv'
<1>1. step' = 1 /\ commande_PC' \in {3, 4}
  BY DEF ProcessOUTSession
<1>2. Len(Session') \in {2, 4}
  BY <1>1 DEF Session, WriteSession, EraseSession
<1>3. 1 # Len(Session') + 1
  BY <1>2
<1>4. ~SessionOver'
  BY <1>1, <1>3 DEF SessionOver
<1> QED
  BY <1>4 DEF EffectInv

\* No other step is inside a session and changes what the session is about.
LEMMA OtherStepsEffect ==
    ASSUME FirmwareInv, EffectInv, [FirmwareNext]_firmwareVars,
           ~SpiOut, ~ProcessOUTSession
    PROVE  EffectInv'
<1>1. CASE pc' # "spi_out"
  BY <1>1 DEF EffectInv
<1>2. CASE UNCHANGED <<pc, step, commande_PC, flash_address, chip, outBank>>
  BY <1>2 DEF EffectInv, SessionOver, Session, packet
<1>3. CASE Main
  BY <1>1, <1>3 DEF Main, MainLoop, ProcessOUTNothing, ProcessOUTCommand,
     ProcessOUTEnd, ProcessINBusy, ProcessINButtons, ProcessINSession, SpiIn,
     ProcessINEnd
<1>4. CASE ConfigurationChanged
  BY <1>1, <1>4 DEF ConfigurationChanged, mainVars, FirmwareInv, UnconfiguredInv
<1>5. CASE Suspend \/ WakeUp \/ TransferIN \/ UNCHANGED firmwareVars
  BY <1>2, <1>5 DEF Suspend, WakeUp, TransferIN, firmwareVars, mainVars
<1>6. CASE \E p \in Requests : TransferOUT(p)
  <2>1. outBank = <<>> /\ pc' = pc
    BY <1>6 DEF TransferOUT, mainVars
  <2> QED
    BY <1>1, <2>1 DEF FirmwareInv, OutSessionInv
<1> QED
  BY <1>3, <1>4, <1>5, <1>6 DEF FirmwareNext, Bus, AnyHost

\* The step that frees the bank of a session is the one at its end.
LEMMA BankFreedAtEnd ==
    ASSUME FirmwareInv, [FirmwareNext]_firmwareVars, pc = "spi_out", outBank' = <<>>
    PROVE  SessionOver
<1>1. outBank # <<>>
  BY DEF FirmwareInv, OutSessionInv
<1>2. ~ConfigurationChanged
  BY DEF ConfigurationChanged, FirmwareInv, UnconfiguredInv
<1>3. CASE Main
  BY <1>1, <1>3 DEF Main, MainLoop, ProcessOUTNothing, ProcessOUTCommand,
     ProcessOUTSession, SpiOut, ProcessOUTEnd, ProcessINBusy, ProcessINButtons,
     ProcessINSession, SpiIn, ProcessINEnd
<1>4. ~(Suspend \/ WakeUp \/ TransferIN \/ UNCHANGED firmwareVars)
  BY <1>1 DEF Suspend, WakeUp, TransferIN, firmwareVars
<1>5. ~(\E p \in Requests : TransferOUT(p))
  BY <1>1 DEF TransferOUT
<1> QED
  BY <1>2, <1>3, <1>4, <1>5 DEF FirmwareNext, Bus, AnyHost

\* A session that is over, its packet still in the bank, has done its work on the
\* flash.
THEOREM EffectInvariant == FirmwareSpec => []EffectInv
<1>1. FirmwareInit => EffectInv
  BY DEF FirmwareInit, EffectInv
<1>2. FirmwareInv /\ EffectInv /\ [FirmwareNext]_firmwareVars => EffectInv'
  BY SpiOutEffect, ProcessOUTSessionEffect, OtherStepsEffect
<1> QED
  BY <1>1, <1>2, FirmwareInvariant, PTL DEF FirmwareSpec

\* Whatever the host sends and the bus does, the bank of a write or an erase is
\* freed only once the word is programmed, or every word erased.
THEOREM EffectBeforeBankFreed == FirmwareSpec => BankFreedAfterEffect
<1>1. FirmwareInv /\ EffectInv /\ [FirmwareNext]_firmwareVars =>
        [(pc = "spi_out" /\ outBank' = <<>>) =>
           \/ commande_PC = 3 /\ chip.flash[flash_address] =
                 Programmed(chip.flash[flash_address],
                            [low |-> packet[4], high |-> packet[5]])
           \/ commande_PC = 4 /\ chip.flash = [a \in Word |-> ErasedWord]
        ]_firmwareVars
  BY BankFreedAtEnd DEF EffectInv, FirmwareInv, OutSessionInv
<1> QED
  BY <1>1, EffectInvariant, FirmwareInvariant, PTL
     DEF FirmwareSpec, BankFreedAfterEffect
=============================================================================
