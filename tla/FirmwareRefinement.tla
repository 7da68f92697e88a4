------------------------- MODULE FirmwareRefinement -------------------------
(***************************************************************************)
(* The firmware implements the abstract device IspDevice: each step of the *)
(* main loop, of the bus and of the host is one step of the device, or     *)
(* none.                                                                   *)
(***************************************************************************)
EXTENDS Firmware_proofs

\* The mapping of Firmware, by name.
request == IF pc = "spi_out" /\ SessionOver THEN <<>> ELSE outBank
pending == CASE commande_PC = 1 -> IdRequest
             [] commande_PC = 2 -> ReadRequest(flash_address)
             [] OTHER -> <<>>
deviceVars == <<USB_DeviceState = "Configured", request, pending, inBank, chip.flash>>

\* A 16-bit address survives its two bytes.
LEMMA SplitJoin ==
    ASSUME NEW a \in Nat, a < 65536
    PROVE  AddressIn(ReadRequest(a)) = a
BY DEF AddressIn, ReadRequest

\* What a byte is, without the range that defines it.
LEMMA ByteBound ==
    ASSUME NEW b \in Byte
    PROVE  b \in Nat /\ b < 256
BY DEF Byte

\* And two bytes survive the address they make.
LEMMA JoinSplit ==
    ASSUME NEW p \in Seq(Byte), Len(p) = 3, p[1] = 2
    PROVE  ReadRequest(AddressIn(p)) = p
<1>1. p[2] \in Byte /\ p[3] \in Byte
  BY ElementOfSeq
<1> DEFINE h == p[2]
           l == p[3]
<1>2. (256 * h + l) \div 256 = h /\ (256 * h + l) % 256 = l /\ h % 256 = h
  <2>1. h \in Nat /\ h < 256 /\ l \in Nat /\ l < 256
    BY <1>1, ByteBound
  <2> HIDE DEF h, l
  <2> QED
    BY <2>1
<1>3. ReadRequest(AddressIn(p)) = <<2, h, l>>
  BY <1>2 DEF ReadRequest, AddressIn
<1>4. p = <<p[1], p[2], p[3]>>
  BY <1>1
<1> QED
  BY <1>3, <1>4

\* The abstract device has no main loop.
LEMMA MainLoopStutters ==
    ASSUME FirmwareInv, MainLoop
    PROVE  UNCHANGED deviceVars
BY DEF MainLoop, deviceVars, request, pending, usbVars

\* An empty packet is ignored.
LEMMA ProcessOUTNothingImplements ==
    ASSUME FirmwareInv, ProcessOUTNothing
    PROVE  Device!Ignore \/ UNCHANGED deviceVars
BY DEF ProcessOUTNothing, deviceVars, request, pending, usbVars, Device!Ignore

\* A full IN bank is nothing the abstract device sees.
LEMMA ProcessINBusyStutters ==
    ASSUME FirmwareInv, ProcessINBusy
    PROVE  UNCHANGED deviceVars
BY DEF ProcessINBusy, deviceVars, request, pending, usbVars

\* The abstract device has no sessions.
LEMMA ProcessINSessionStutters ==
    ASSUME FirmwareInv, ProcessINSession
    PROVE  UNCHANGED deviceVars
BY DEF ProcessINSession, spi_ON, deviceVars, request, pending, usbVars

\* With no answer due the reply is a state of the buttons.
LEMMA ProcessINButtonsImplements ==
    ASSUME FirmwareInv, ProcessINButtons
    PROVE  Device!Reply
BY DEF ProcessINButtons, usbVars, Device!Reply

\* A transfer from the IN bank fetches the reply.
LEMMA TransferINImplements ==
    ASSUME FirmwareInv, TransferIN
    PROVE  Device!Fetch
BY DEF TransferIN, usbVars, mainVars, SessionOver, Session, packet, Device!Fetch

\* A transfer into the OUT bank sends a request.
LEMMA TransferOUTImplements ==
    ASSUME FirmwareInv, NEW p, TransferOUT(p)
    PROVE  Device!Send(p)
BY DEF TransferOUT, usbVars, mainVars, FirmwareInv, OutSessionInv, Device!Send

\* The bus only makes the device ready or not.
LEMMA BusImplements ==
    ASSUME FirmwareInv, Bus
    PROVE  Device!Connection
<1>1. CASE ConfigurationChanged
  BY <1>1 DEF ConfigurationChanged, EVENT_USB_Device_ConfigurationChanged,
     mainVars, FirmwareInv, UnconfiguredInv,
     Device!Connection
<1>2. CASE Suspend \/ WakeUp
  BY <1>2 DEF Suspend, WakeUp, mainVars, SessionOver, Session, packet,
     Device!Connection
<1> QED
  BY <1>1, <1>2 DEF Bus

\* A packet is noted, or its LEDs shown, in the step that takes it.
LEMMA ProcessOUTCommandImplements ==
    ASSUME FirmwareInv, ProcessOUTCommand
    PROVE  Device!Note \/ Device!ShowLeds
<1>1. /\ outBank = <<packet>> /\ Len(packet) > 0 /\ packet \in Seq(Byte)
      /\ packet[1] \in LedValues \cup {1, 2}
      /\ packet[1] = 2 => Len(packet) = 3
  BY PacketFacts DEF FirmwareInv, FirmwareTypeOK, ProcessOUTCommand, IsRequest
<1>2. /\ request = outBank /\ request' = <<>> /\ outBank # <<>> /\ outBank # <<<<>>>>
      /\ UNCHANGED <<USB_DeviceState, inBank, chip>>
      /\ commande_PC' = packet[1]
  BY DEF ProcessOUTCommand, request, usbVars
<1>3. CASE packet[1] = 1
  <2>1. packet = IdRequest
    <3>1. Len(packet) = 1
      BY <1>3 DEF FirmwareInv, FirmwareTypeOK, IsRequest, ProcessOUTCommand
    <3> QED
      BY <1>1, <1>3, <3>1 DEF IdRequest
  <2>2. pending' = packet
    BY <1>2, <1>3, <2>1 DEF pending
  <2> QED
    BY <1>1, <1>2, <1>3, <2>2 DEF Device!Note, Device!Asks, request, pending
<1>4. CASE packet[1] = 2
  <2>1. flash_address' = AddressIn(packet)
    BY <1>4 DEF ProcessOUTCommand
  <2>2. pending' = ReadRequest(flash_address')
    BY <1>2, <1>4 DEF pending, ReadRequest
  <2>3. pending' = packet
    BY <1>1, <1>4, <2>1, <2>2, JoinSplit
  <2> QED
    BY <1>1, <1>2, <1>4, <2>3 DEF Device!Note, Device!Asks, request, pending
<1>5. CASE packet[1] \in LedValues
  <2>1. pending' = <<>>
    BY <1>2, <1>5 DEF pending, LedValues
  <2> QED
    BY <1>1, <1>2, <1>5, <2>1
       DEF Device!ShowLeds, Device!Asks, Device!LedValues, LedValues, request, pending
<1> QED
  BY <1>1, <1>3, <1>4, <1>5

\* A write or an erase begins by cancelling the answer that was due.
LEMMA ProcessOUTSessionImplements ==
    ASSUME FirmwareInv, ProcessOUTSession
    PROVE  Device!Cancel
<1>1. /\ outBank = <<packet>> /\ outBank # <<>> /\ outBank # <<<<>>>>
      /\ packet[1] \in {3, 4}
      /\ commande_PC' = packet[1] /\ step' = 1 /\ outBank' = outBank
      /\ request = outBank
      /\ UNCHANGED <<USB_DeviceState, inBank, chip>>
  BY PacketFacts DEF FirmwareInv, ProcessOUTSession, spi_ON, request, usbVars
<1>2. ~SessionOver'
  BY <1>1 DEF SessionOver, Session, WriteSession, EraseSession
<1>3. pending' = <<>> /\ request' = outBank
  BY <1>1, <1>2 DEF pending, request
<1> QED
  BY <1>1, <1>3 DEF Device!Cancel, Device!Asks, request, pending

\* The page write, or the erase instruction, is the instant of the command.
LEMMA SpiOutImplements ==
    ASSUME FirmwareInv, SpiOut
    PROVE  Device!Write \/ Device!Erase \/ UNCHANGED deviceVars
<1>1. /\ pc = "spi_out" /\ pc' = "spi_out" /\ chip \in Chip
      /\ step' = step + 1 /\ step \in 1..5 /\ commande_PC \in {3, 4}
      /\ outBank # <<>> /\ outBank = <<packet>> /\ packet[1] = commande_PC
      /\ Len(packet) > 0 /\ flash_address \in Word
      /\ step <= Len(Session) /\ chip' = Executed(chip, Session[step])
      /\ chip.enabled <=> step >= 2
      /\ UNCHANGED <<USB_DeviceState, outBank, inBank, commande_PC, flash_address>>
  BY DEF FirmwareInv, FirmwareTypeOK, OutSessionInv, SpiOut, usbVars
<1>0. chip \in Chip /\ flash_address \in Word
  BY <1>1
<1>2. pending = <<>> /\ pending' = <<>> /\ outBank # <<<<>>>>
  BY <1>1 DEF pending
<1>3. Session' = Session /\ request = outBank
  BY <1>1 DEF Session, packet, request, SessionOver
<1>4. CASE commande_PC = 3
  <2>1. /\ Session = WriteSession(flash_address, packet[4], packet[5])
        /\ Len(Session) = 4 /\ step \in 1..4
    BY <1>1, <1>4 DEF Session, WriteSession
  <2>2. /\ flash_address = AddressIn(packet) /\ Len(packet) = 5
        /\ chip.latch = [low  |-> IF step \in {3, 4} THEN packet[4] ELSE 255,
                         high |-> IF step = 4 THEN packet[5] ELSE 255]
    BY <1>1, <1>4 DEF FirmwareInv, OutSessionInv
  <2>3. packet[4] \in Byte /\ packet[5] \in Byte
    <3>1. packet \in Seq(Byte) /\ 4 \in 1..Len(packet) /\ 5 \in 1..Len(packet)
      BY <1>1, <2>2 DEF FirmwareInv, FirmwareTypeOK, IsRequest
    <3> QED
      BY <3>1, ElementOfSeq
  <2>4. CASE step < 4
    <3>1. chip'.flash = chip.flash
      <4>1. CASE step = 1
        <5>1. chip' = Executed(chip, Enable)
          BY <1>1, <2>1, <4>1 DEF WriteSession
        <5> QED
          BY <5>1, <1>1, EnableFacts
      <4>2. CASE step = 2
        <5>1. chip' = Executed(chip, Instruction("load_low", flash_address, packet[4]))
          BY <1>1, <2>1, <4>2 DEF WriteSession
        <5>2. chip.enabled
          BY <4>2, <1>1
        <5> QED
          BY <5>1, <5>2, <1>0, <2>3, LoadLowFacts
      <4>3. CASE step = 3
        <5>1. chip' = Executed(chip, Instruction("load_high", flash_address, packet[5]))
          BY <1>1, <2>1, <4>3 DEF WriteSession
        <5>2. chip.enabled
          BY <4>3, <1>1
        <5> QED
          BY <5>1, <5>2, <1>0, <2>3, LoadHighFacts
      <4> QED
        BY <2>1, <2>4, <4>1, <4>2, <4>3
    <3>2. request' = outBank
      BY <1>1, <1>3, <2>1, <2>4 DEF request, SessionOver
    <3> QED
      BY <1>1, <1>2, <1>3, <3>1, <3>2 DEF deviceVars
  <2>5. CASE step = 4
    <3>1. chip'.flash = [chip.flash EXCEPT ![flash_address] =
                            Programmed(@, [low |-> packet[4], high |-> packet[5]])]
      <4>1. chip' = Executed(chip, Instruction("write_page", flash_address, 0))
        BY <1>1, <2>1, <2>5 DEF WriteSession
      <4>2. chip.enabled /\ chip.latch = [low |-> packet[4], high |-> packet[5]]
        BY <2>5, <2>2, <1>1
      <4> QED
        BY <4>1, <4>2, <1>0, WritePageFacts
    <3>2. request' = <<>>
      BY <1>1, <1>3, <2>1, <2>5 DEF request, SessionOver
    <3> QED
      BY <1>1, <1>2, <1>3, <1>4, <2>2, <3>1, <3>2
         DEF Device!Write, Device!Asks, Device!AddressIn, AddressIn,
             Device!Programmed, Programmed, request, pending
  <2> QED
    BY <2>1, <2>4, <2>5
<1>5. CASE commande_PC = 4
  <2>1. Session = EraseSession /\ Len(Session) = 2 /\ step \in 1..2
    BY <1>1, <1>5 DEF Session, EraseSession
  <2>2. CASE step = 1
    <3>1. chip' = Executed(chip, Enable)
      BY <1>1, <2>1, <2>2 DEF EraseSession
    <3>2. chip'.flash = chip.flash
      BY <3>1, <1>1, EnableFacts
    <3>3. request' = outBank
      BY <1>1, <1>3, <2>1, <2>2 DEF request, SessionOver
    <3> QED
      BY <1>1, <1>2, <1>3, <3>2, <3>3 DEF deviceVars
  <2>3. CASE step = 2
    <3>1. chip' = Executed(chip, ChipErase)
      BY <1>1, <2>1, <2>3 DEF EraseSession
    <3>2. chip'.flash = [a \in Word |-> ErasedWord]
      <4>1. chip.enabled
        BY <2>3, <1>1
      <4> QED
        BY <3>1, <4>1, <1>0, ChipEraseFacts
    <3>3. request' = <<>>
      BY <1>1, <1>3, <2>1, <2>3 DEF request, SessionOver
    <3> QED
      BY <1>1, <1>2, <1>3, <1>5, <3>2, <3>3
         DEF Device!Erase, Device!Asks, Device!Word, Word, Device!ErasedWord,
             ErasedWord, Device!ErasedByte, ErasedByte, request, pending
  <2> QED
    BY <2>1, <2>2, <2>3
<1> QED
  BY <1>1, <1>4, <1>5

\* The request was carried out by the last instruction already.
LEMMA ProcessOUTEndStutters ==
    ASSUME FirmwareInv, ProcessOUTEnd
    PROVE  UNCHANGED deviceVars
<1>1. chip'.flash = chip.flash
  BY ReleasedFacts DEF ProcessOUTEnd, spi_OFF, FirmwareInv, FirmwareTypeOK
<1> QED
  BY <1>1 DEF ProcessOUTEnd, spi_OFF, deviceVars, request, pending, usbVars

\* The bytes of an answer come one by one; none of them changes the flash.
LEMMA SpiInStutters ==
    ASSUME FirmwareInv, SpiIn
    PROVE  UNCHANGED deviceVars
<1>1. /\ chip \in Chip /\ chip' = Executed(chip, Session[step])
      /\ pc = "spi_in" /\ commande_PC \in {1, 2} /\ step \in 1..10
      /\ chip.enabled <=> step >= 2
      /\ UNCHANGED <<USB_DeviceState, outBank, inBank, pc, commande_PC, flash_address>>
  BY DEF FirmwareInv, FirmwareTypeOK, InSessionInv, SpiIn, usbVars
<1>2. chip'.flash = chip.flash
  BY SpiInFacts
<1> QED
  BY <1>1, <1>2 DEF deviceVars, request, pending

\* The answer that goes to the bank is the one the device gives.
LEMMA ProcessINEndImplements ==
    ASSUME FirmwareInv, ProcessINEnd
    PROVE  Device!Reply
<1>1. /\ inBank = <<>> /\ inBank' = <<fifo>> /\ fifo \in Seq(Byte)
      /\ commande_PC \in {1, 2} /\ commande_PC' = 0 /\ flash_address \in Word
      /\ chip'.flash = chip.flash /\ UNCHANGED <<USB_DeviceState, outBank>>
      /\ pc = "spi_in" /\ pc' = "loop"
      /\ step = Len(Session) + 1
      /\ Len(fifo) = IF step = 1 THEN 0 ELSE step - 2
  BY ReleasedFacts
     DEF FirmwareInv, FirmwareTypeOK, InSessionInv, ProcessINEnd, spi_OFF, SessionOver, usbVars
<1>2. \A k \in 1..Len(fifo) :
          fifo[k] = IF commande_PC = 1 THEN Signature[k]
                    ELSE Block(chip.flash, flash_address)[k]
  BY DEF FirmwareInv, InSessionInv, ProcessINEnd, spi_OFF
<1>3. DOMAIN fifo = 1..Len(fifo) /\ fifo = [k \in 1..Len(fifo) |-> fifo[k]]
  BY <1>1
<1>4. /\ request = outBank /\ request' = outBank' /\ pending' = <<>>
  BY <1>1 DEF request, pending
<1>5. CASE commande_PC = 1
  <2>1. Len(fifo) = 3
    BY <1>1, <1>5 DEF Session, IdSession
  <2>2. fifo = Signature
    BY <2>1, <1>2, <1>3, <1>5, SignatureAssumption
  <2>3. pending = IdRequest /\ pending # <<>>
    BY <1>5 DEF pending, IdRequest
  <2> QED
    BY <1>1, <1>4, <2>2, <2>3
       DEF Device!Reply, Device!AnswerTo, IdRequest, request, pending
<1>6. CASE commande_PC = 2
  <2>1. Len(fifo) = 8
    BY <1>1, <1>6 DEF Session, ReadSession
  <2>2. fifo = Block(chip.flash, flash_address)
    <3>1. \A k \in 1..8 : fifo[k] = Block(chip.flash, flash_address)[k]
      BY <2>1, <1>2, <1>6
    <3>2. /\ Block(chip.flash, flash_address)
               = [k \in 1..8 |-> Block(chip.flash, flash_address)[k]]
          /\ fifo = [k \in 1..8 |-> fifo[k]]
      BY <2>1, <1>3 DEF Block
    <3> QED
      BY <3>1, <3>2
  <2>3. pending = ReadRequest(flash_address) /\ pending # <<>> /\ pending[1] = 2
    BY <1>6 DEF pending, ReadRequest
  <2>4. AddressIn(ReadRequest(flash_address)) = flash_address
    BY <1>1, SplitJoin, FlashAssumption DEF Word
  <2>5. Device!AnswerTo(pending) = Block(chip.flash, flash_address)
    BY <2>3, <2>4
       DEF Device!AnswerTo, Device!Block, Block, Device!AddressIn, AddressIn
  <2> QED
    BY <1>1, <1>4, <2>2, <2>3, <2>5 DEF Device!Reply, request, pending
<1> QED
  BY <1>1, <1>5, <1>6

-----------------------------------------------------------------------------
\* The state of the device, as Device!vars names it.
LEMMA InitImplements == FirmwareInit => Device!Init
BY DEF FirmwareInit, Device!Init

\* Every step of the firmware is a step of the abstract device or none.
LEMMA NextImplements ==
    FirmwareInv /\ [FirmwareNext]_firmwareVars => [Device!Next]_(Device!vars)
<1> SUFFICES ASSUME FirmwareInv, [FirmwareNext]_firmwareVars
             PROVE  Device!Next \/ UNCHANGED deviceVars
  BY DEF Device!vars, deviceVars, request, pending
<1>1. CASE Main
  BY <1>1, MainLoopStutters, ProcessOUTNothingImplements, ProcessOUTCommandImplements,
     ProcessOUTSessionImplements, SpiOutImplements, ProcessOUTEndStutters,
     ProcessINBusyStutters, ProcessINButtonsImplements, ProcessINSessionStutters,
     SpiInStutters, ProcessINEndImplements
     DEF Main, Device!Next
<1>2. CASE Bus
  BY <1>2, BusImplements DEF Device!Next
<1>3. CASE TransferIN
  BY <1>3, TransferINImplements DEF Device!Next
<1>4. CASE \E p \in Requests : TransferOUT(p)
  BY <1>4, TransferOUTImplements DEF Device!Next
<1>5. CASE UNCHANGED firmwareVars
  BY <1>5 DEF firmwareVars, usbVars, mainVars, deviceVars, request, pending,
     SessionOver, Session, packet
<1> QED
  BY <1>1, <1>2, <1>3, <1>4, <1>5 DEF FirmwareNext, AnyHost

\* The firmware keeps the promises of IspDevice to any host, for every flash,
\* signature and set of requests: a command takes effect at one instant, the
\* flash changes by nothing else, and an answer carries what was last asked for.
THEOREM FirmwareImplementsDevice == FirmwareSpec => DeviceSpec
BY InitImplements, NextImplements, FirmwareInvariant, PTL
   DEF FirmwareSpec, DeviceSpec, Device!Spec
=============================================================================
