------------------------------ MODULE Firmware ------------------------------
(***************************************************************************)
(* The programmer's firmware, firmware/InOut/main.c: a main loop that takes *)
(* one command packet from the OUT endpoint (ProcessOUT), drives the target *)
(* over SPI, and fills the IN endpoint whenever it is free (ProcessIN).     *)
(* Each endpoint has one bank of one packet.  The USB host and the bus are  *)
(* the environment.  An SPI session is one step per instruction, so that    *)
(* the host's transfers and the bus events fall between any two of them.    *)
(***************************************************************************)
EXTENDS Protocol

CONSTANT InitialFlashes  \* what the target may hold when the firmware starts

ASSUME InitialFlashesAssumption == InitialFlashes \subseteq [Word -> WordValue]

VARIABLES
    USB_DeviceState,                 \* "Unattached", "Configured"
    USB_Device_ConfigurationNumber,  \* 0 until the host has configured us
    outBank, inBank,                 \* <<>> or <<packet>>
    pc,                              \* where the main loop is
    commande_PC, flash_address,      \* the globals of main.c
    step,                            \* next instruction of the SPI session
    fifo,                            \* bytes the SPI session has read so far
    ss, leds,                        \* PORTB bit 0, PORTB bits 5 to 7
    chip                             \* the target

usbVars == <<USB_DeviceState, USB_Device_ConfigurationNumber>>
mainVars == <<pc, commande_PC, flash_address, step, fifo, ss, leds, chip>>
firmwareVars == <<usbVars, outBank, inBank, mainVars>>

\* The packet the host's latest OUT transfer left in the bank.
packet == outBank[1]
-----------------------------------------------------------------------------
\* The select line of the target.
spi_ON == ss' = 0

\* Mutant: the line is left low after a session.
spi_OFF_Forgotten == UNCHANGED <<ss, chip>>

spi_OFF == ss' = 1 /\ chip' = Released(chip)

\* The SPI sessions of main.c, each between its spi_ON and its spi_OFF.

\* Mutant: the two bytes of the word exchanged.
WriteSessionSwapped(addr, low, high) ==
    <<Enable, Instruction("load_low", addr, high),
      Instruction("load_high", addr, low), Instruction("write_page", addr, 0)>>

\* Mutant: the page written before its high byte is loaded.
WriteSessionPageFirst(addr, low, high) ==
    <<Enable, Instruction("load_low", addr, low),
      Instruction("write_page", addr, 0), Instruction("load_high", addr, high)>>

WriteSession(addr, low, high) ==
    <<Enable, Instruction("load_low", addr, low),
      Instruction("load_high", addr, high), Instruction("write_page", addr, 0)>>

\* Mutant: an erase without programming enabled.
EraseSessionNotEnabled == <<ChipErase>>

EraseSession == <<Enable, ChipErase>>

\* Mutant: one word is left out of a block.
ReadSessionOneLess(addr) ==
    [k \in 1..7 |->
        IF k = 1 THEN Enable
        ELSE Instruction(IF k % 2 = 0 THEN "read_low" ELSE "read_high",
                         (addr + (k - 2) \div 2) % 65536, 0)]

\* Mutant: the address of the block is not advanced.
ReadSessionSameWord(addr) ==
    [k \in 1..9 |->
        IF k = 1 THEN Enable
        ELSE Instruction(IF k % 2 = 0 THEN "read_low" ELSE "read_high", addr, 0)]

ReadSession(addr) ==
    [k \in 1..9 |->
        IF k = 1 THEN Enable
        ELSE Instruction(IF k % 2 = 0 THEN "read_low" ELSE "read_high",
                         (addr + (k - 2) \div 2) % 65536, 0)]
IdSession ==
    [k \in 1..4 |-> IF k = 1 THEN Enable
                    ELSE Instruction("read_signature", k - 2, 0)]

\* The session the main loop is in: its command decides.
Session == CASE commande_PC = 3 ->
                    WriteSession(flash_address, packet[4], packet[5])
             [] commande_PC = 4 -> EraseSession
             [] commande_PC = 2 -> ReadSession(flash_address)
             [] commande_PC = 1 -> IdSession
             [] OTHER -> <<>>

\* Mutant: the session may be ended before its last instruction.
SessionCutShort == step = Len(Session)

SessionOver == step = Len(Session) + 1
-----------------------------------------------------------------------------
FirmwareInit ==
    /\ USB_DeviceState = "Unattached"
    /\ USB_Device_ConfigurationNumber = 0
    /\ outBank = <<>> /\ inBank = <<>>
    /\ pc = "loop"
    /\ commande_PC = 0 /\ flash_address = 0
    /\ step = 0 /\ fifo = <<>>
    /\ ss = 1 /\ leds = 0
    /\ \E f \in InitialFlashes :
          chip = [enabled |-> FALSE, latch |-> ErasedWord, flash |-> f]

\* One pass of the loop: nothing is done until the host has configured us.
MainLoop ==
    /\ pc = "loop"
    /\ USB_DeviceState = "Configured"
    /\ pc' = "out"
    /\ UNCHANGED <<usbVars, outBank, inBank, commande_PC, flash_address, step,
                   fifo, ss, leds, chip>>

\* Mutant: the bank of an empty packet is not freed.
ProcessOUTEmptyKept ==
    /\ pc = "out"
    /\ outBank \in {<<>>, <<<<>>>>}
    /\ pc' = "in"
    /\ UNCHANGED <<usbVars, outBank, inBank, commande_PC, flash_address, step,
                   fifo, ss, leds, chip>>

\* ProcessOUT without a packet, or with an empty one.
ProcessOUTNothing ==
    /\ pc = "out"
    /\ outBank \in {<<>>, <<<<>>>>}
    /\ outBank' = <<>>
    /\ pc' = "in"
    /\ UNCHANGED <<usbVars, inBank, commande_PC, flash_address, step, fifo, ss,
                   leds, chip>>

\* ProcessOUT with a command that is carried out at once: an identification
\* or a read is only noted, any other byte is copied to PORTB.
ProcessOUTCommand ==
    /\ pc = "out"
    /\ outBank \notin {<<>>, <<<<>>>>}
    /\ packet[1] \notin {3, 4}
    /\ commande_PC' = packet[1]
    /\ flash_address' = IF packet[1] = 2 THEN AddressIn(packet) ELSE flash_address
    /\ ss' = IF packet[1] \in {1, 2} THEN ss ELSE packet[1] % 2
    /\ leds' = IF packet[1] \in {1, 2} THEN leds ELSE packet[1] \div 32
    /\ outBank' = <<>>
    /\ pc' = "in"
    /\ UNCHANGED <<usbVars, inBank, step, fifo, chip>>

\* ProcessOUT with a write or an erase: the target is selected.
ProcessOUTSession ==
    /\ pc = "out"
    /\ outBank \notin {<<>>, <<<<>>>>}
    /\ packet[1] \in {3, 4}
    /\ commande_PC' = packet[1]
    /\ flash_address' = IF packet[1] = 3 THEN AddressIn(packet) ELSE flash_address
    /\ spi_ON
    /\ step' = 1 /\ fifo' = <<>>
    /\ pc' = "spi_out"
    /\ UNCHANGED <<usbVars, outBank, inBank, leds, chip>>

\* spi_transfer, four bytes at a time, in a write or an erase.
SpiOut ==
    /\ pc = "spi_out"
    /\ step <= Len(Session)
    /\ chip' = Executed(chip, Session[step])
    /\ step' = step + 1
    /\ UNCHANGED <<usbVars, outBank, inBank, pc, commande_PC, flash_address,
                   fifo, ss, leds>>

\* spi_OFF and Endpoint_ClearOUT: only now can the host send again.
ProcessOUTEnd ==
    /\ pc = "spi_out"
    /\ SessionOver
    /\ spi_OFF
    /\ step' = 0
    /\ outBank' = <<>>
    /\ pc' = "in"
    /\ UNCHANGED <<usbVars, inBank, commande_PC, flash_address, fifo, leds>>

\* Mutant: the command is forgotten even when no answer could be sent.
ProcessINBusyForgets ==
    /\ pc = "in"
    /\ inBank # <<>>
    /\ commande_PC' = 0
    /\ pc' = "loop"
    /\ UNCHANGED <<usbVars, outBank, inBank, flash_address, step, fifo, ss, leds,
                   chip>>

\* ProcessIN while the previous packet still waits for the host.
ProcessINBusy ==
    /\ pc = "in"
    /\ inBank # <<>>
    /\ pc' = "loop"
    /\ UNCHANGED <<usbVars, outBank, inBank, commande_PC, flash_address, step,
                   fifo, ss, leds, chip>>

\* ProcessIN with no answer due: the state of the buttons is sent.
ProcessINButtons ==
    /\ pc = "in"
    /\ inBank = <<>>
    /\ commande_PC \notin {1, 2}
    /\ \E b \in Buttons : inBank' = << <<b>> >>
    /\ pc' = "loop"
    /\ UNCHANGED <<usbVars, outBank, commande_PC, flash_address, step, fifo, ss,
                   leds, chip>>

\* ProcessIN with a read or an identification due: the target is selected.
ProcessINSession ==
    /\ pc = "in"
    /\ inBank = <<>>
    /\ commande_PC \in {1, 2}
    /\ spi_ON
    /\ step' = 1 /\ fifo' = <<>>
    /\ pc' = "spi_in"
    /\ UNCHANGED <<usbVars, outBank, inBank, commande_PC, flash_address, leds,
                   chip>>

\* spi_transfer, four bytes at a time, keeping what a read instruction returns.
SpiIn ==
    /\ pc = "spi_in"
    /\ step <= Len(Session)
    /\ chip' = Executed(chip, Session[step])
    /\ fifo' = IF step = 1 THEN fifo ELSE Append(fifo, Answer(chip, Session[step]))
    /\ step' = step + 1
    /\ UNCHANGED <<usbVars, outBank, inBank, pc, commande_PC, flash_address, ss,
                   leds>>

\* Mutant: the command stays noted after its answer.
ProcessINEndKeepsCommand ==
    /\ pc = "spi_in"
    /\ SessionOver
    /\ spi_OFF
    /\ step' = 0
    /\ inBank' = <<fifo>>
    /\ fifo' = <<>>
    /\ pc' = "loop"
    /\ UNCHANGED <<usbVars, outBank, commande_PC, flash_address, leds>>

\* spi_OFF, the answer goes to the IN bank, and nothing is due any more.
ProcessINEnd ==
    /\ pc = "spi_in"
    /\ SessionOver
    /\ spi_OFF
    /\ step' = 0
    /\ inBank' = <<fifo>>
    /\ fifo' = <<>>
    /\ commande_PC' = 0
    /\ pc' = "loop"
    /\ UNCHANGED <<usbVars, outBank, flash_address, leds>>

Main == \/ MainLoop
        \/ ProcessOUTNothing \/ ProcessOUTCommand \/ ProcessOUTSession
        \/ SpiOut \/ ProcessOUTEnd
        \/ ProcessINBusy \/ ProcessINButtons \/ ProcessINSession
        \/ SpiIn \/ ProcessINEnd
-----------------------------------------------------------------------------
\* The handler of main.c sets the two endpoints up, with empty banks.
EVENT_USB_Device_ConfigurationChanged == outBank' = <<>> /\ inBank' = <<>>

\* SET_CONFIGURATION: the state changes, then the handler is called.  One
\* enumeration is modelled: a bus reset or a second configuration, which empties
\* the banks in the middle of a session, is left to UsbDevice.
ConfigurationChanged ==
    /\ USB_Device_ConfigurationNumber = 0
    /\ USB_Device_ConfigurationNumber' = 1
    /\ USB_DeviceState' = "Configured"
    /\ EVENT_USB_Device_ConfigurationChanged
    /\ UNCHANGED mainVars

\* The bus goes idle.  On this chip a suspend is reported as a disconnection;
\* the banks keep their packets.
Suspend ==
    /\ USB_DeviceState = "Configured"
    /\ USB_DeviceState' = "Unattached"
    /\ UNCHANGED <<USB_Device_ConfigurationNumber, outBank, inBank, mainVars>>

WakeUp ==
    /\ USB_DeviceState = "Unattached"
    /\ USB_Device_ConfigurationNumber # 0
    /\ USB_DeviceState' = "Configured"
    /\ UNCHANGED <<USB_Device_ConfigurationNumber, outBank, inBank, mainVars>>

Bus == ConfigurationChanged \/ Suspend \/ WakeUp

\* The host's transfers: a packet goes into a free OUT bank, the packet in the
\* IN bank is fetched.
TransferOUT(p) ==
    /\ USB_DeviceState = "Configured"
    /\ outBank = <<>>
    /\ outBank' = <<p>>
    /\ UNCHANGED <<usbVars, inBank, mainVars>>

TransferIN ==
    /\ USB_DeviceState = "Configured"
    /\ inBank # <<>>
    /\ inBank' = <<>>
    /\ UNCHANGED <<usbVars, outBank, mainVars>>
-----------------------------------------------------------------------------
\* The firmware with a host that sends and fetches what it likes.
AnyHost == TransferIN \/ \E p \in Requests : TransferOUT(p)

FirmwareNext == Main \/ Bus \/ AnyHost
FirmwareSpec == FirmwareInit /\ [][FirmwareNext]_firmwareVars

\* The main loop keeps running; nothing makes the host or the bus do anything.
FirmwareFairSpec == FirmwareSpec /\ WF_firmwareVars(Main)
-----------------------------------------------------------------------------
InSession == pc \in {"spi_out", "spi_in"}

\* Each variable of the firmware and of its endpoints keeps its type.
FirmwareTypeOK ==
    /\ USB_DeviceState \in {"Unattached", "Configured"}
    /\ USB_Device_ConfigurationNumber \in {0, 1}
    /\ outBank = <<>> \/ (outBank = <<packet>> /\ IsRequest(packet))
    /\ inBank = <<>> \/ (/\ inBank = <<inBank[1]>>
                         /\ inBank[1] \in Seq(Byte)
                         /\ Len(inBank[1]) \in {1, 3, 8})
    /\ pc \in {"loop", "out", "spi_out", "in", "spi_in"}
    /\ commande_PC \in LedValues \cup {1, 2, 3, 4}
    /\ flash_address \in Word
    /\ step \in 0..10
    /\ fifo \in Seq(Byte)
    /\ ss \in {0, 1} /\ leds \in 0..7
    /\ chip \in Chip

\* Whatever the host sends and whenever it sends it, the target is in
\* programming mode only while its line is held low by an SPI session of
\* main.c: no order of commands leaves it enabled, or its latch loaded,
\* between two sessions.
ProgrammingOnlyInSession ==
    /\ chip.enabled => InSession /\ ss = 0
    /\ chip.latch # ErasedWord => pc = "spi_out" /\ commande_PC = 3

\* A write or an erase that has left the OUT bank has reached the flash: the
\* firmware frees the bank after the SPI session, which is the host's only
\* sign that a command was carried out.
BankFreedAfterEffect ==
    [][ (pc = "spi_out" /\ outBank' = <<>>) =>
           \/ commande_PC = 3 /\ chip.flash[flash_address] =
                 Programmed(chip.flash[flash_address],
                            [low |-> packet[4], high |-> packet[5]])
           \/ commande_PC = 4 /\ chip.flash = [a \in Word |-> ErasedWord]
      ]_firmwareVars

\* The firmware answers as the abstract device does: a command takes effect at
\* the SPI instruction that does the work, an answer is the flash as it is
\* when the answer is sent.
Device == INSTANCE IspDevice WITH
    ready   <- USB_DeviceState = "Configured",
    request <- IF pc = "spi_out" /\ SessionOver THEN <<>> ELSE outBank,
    pending <- CASE commande_PC = 1 -> IdRequest
                 [] commande_PC = 2 -> ReadRequest(flash_address)
                 [] OTHER -> <<>>,
    reply   <- inBank,
    flash   <- chip.flash

DeviceSpec == Device!Spec

\* While the bus stays up, a command packet does not stay in the OUT bank:
\* ProcessOUT takes it, carries it out and frees the bank.
CommandTaken ==
    <>[](USB_DeviceState = "Configured") =>
        (outBank # <<>> ~> outBank = <<>>)

\* While the bus stays up and the host keeps fetching, the firmware does not
\* keep owing an answer to a read or an identification it has noted.
RequestAnswered ==
    (<>[](USB_DeviceState = "Configured") /\ []<>(inBank = <<>>)) =>
        (commande_PC \in {1, 2} ~> commande_PC \notin {1, 2})
=============================================================================
