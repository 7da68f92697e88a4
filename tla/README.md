# Verification of the AVR programmer

TLA+ models of the AVR programmer of this repository: the firmware of the
programmer board, the USB device core it runs on, the PC program and the test
programs that drive it, the live mode, the Intel HEX loop and the virtual serial
port firmware, with the TLC configurations that check them and the proofs about
all of them. Paths below are relative to `src/`.

## 1. The system

A PC program talks through libusb to a board (ATmega16U2). The board's firmware
drives a target AVR over SPI, four bytes per instruction. Between the two
programs there are two USB interrupt endpoints of eight bytes with **one bank
each**: an OUT bank for commands, an IN bank for answers.

| Component | Files | State it keeps | Operations |
|---|---|---|---|
| Programmer firmware | `firmware/InOut/main.c` | `commande_PC`, `flash_address`, port B (LEDs and the target's select line) | the main loop, `ProcessOUT`, `ProcessIN`, the SPI sessions, `EVENT_USB_Device_ConfigurationChanged` |
| LUFA device core | `firmware/LUFA/Drivers/USB/Core/{USBTask,DeviceStandardReq}.c`, `AVR8/*.c` | `USB_DeviceState`, `USB_Device_ConfigurationNumber`, `USB_ControlRequest`, the registers `UENUM` (selected endpoint), `UDADDR`, `UDINT` and the interrupt enables, the control endpoint's flags | the two interrupt routines `USB_GEN_vect` (suspend, wake-up, reset) and `USB_COM_vect` (a SETUP packet), standard requests, `USB_USBTask` |
| Target AVR | not in the repository | programming mode, page latch, flash, signature | serial instructions |
| PC program | `software/prog.c`, `dev_handle.c`, `isp_ids.c`, `flash_read.c`, `flash_write.c` | the libusb handle, signature buffer, target, loop variables | open, claim, identify, look up, read, erase, write, close |
| HEX loop | `software/flash_write.c:34-76` | `line`, `length`, `addr_in`, `type_in` | one line of the file |
| Live mode | `software/fonctions_test/main_pc.c` | `data_out`, `last_data_in`, `running` | keys, LED packets, button packets |
| Test programs | `software/fonctions_test/{flash_read,flash_rw,isp_ids}.c` | as the PC program | identify; read eight blocks; erase, write five words and read back |
| VirtualSerial | `firmware/VirtualSerial`, `LUFA/.../CDCClassDevice.c` | `USB_DeviceState`, the line encoding, the IN and OUT banks, the selected endpoint | `CheckButtons`, `CDC_Device_SendByte`, `_Flush`, `_ReceiveByte`, `_USBTask`, bus events and requests |
| Board tests, examples | `ISP_tests`, `code_to_flash` | LEDs | loops without a host |
| Descriptors, rest of LUFA, hardware, Makefiles | | | tables, third-party drivers, build rules |

**Commands** (first byte of an OUT packet): 1 identify, 2 read four words, 3
write a word, 4 erase the chip, anything else is written to port B. **Answers**
carry neither the command nor the address they answer; one byte is a state of
the buttons, three a signature, eight a block of four words. The firmware puts
a button packet into the IN bank whenever the bank is free and no answer is
due, so nearly every answer is preceded by a stale button packet.

**What is hard here.** The two sides run concurrently with nothing but two
one-packet banks between them. `commande_PC` is one global for "what to answer
next", so commands overwrite each other. A libusb transfer that reports an
error may or may not have moved its packet. The device is never told that the
program at the other end died, and keeps its command and its packets for the
next one. The bus may suspend between the check of `USB_DeviceState` and the use
of the endpoints. Clearing flash bits is irreversible without an erase, and no
write is ever verified or acknowledged, except that the OUT bank is freed late.

Below that, the two interrupt routines share the endpoint selection register
with the main loop they interrupt. The control request interrupt runs with
interrupts enabled, waits for the host inside the interrupt, and is interrupted
by bus resets whose routine enables it again; the main loop polls for the same
packets. The host may give a transfer up at any point of this, acknowledge it
early, or take its last packet while the device still has one to send.

**What makes each component correct.** The firmware: a command takes effect
completely before the host can send another one; an answer is the answer to the
last command; the target is left in programming mode by no sequence of commands;
commands are taken and answers sent. The PC program: what it displays is the
flash, what it writes is the file, what it reports is true, and it ends. The HEX
loop: every byte goes to its place, nothing else is sent. The live mode: the
LEDs follow the keys, only buttons are displayed. The test programs: what
`flash_rw` reads back is what it wrote, what `isp_ids` shows is the signature.
The device core: code only touches the endpoint it selected, requests do not
nest without bound, an answer answers the request made last, a descriptor comes
whole, and no wait is for ever. VirtualSerial: accepted bytes arrive once and in
order, transfers are closed, the host's own bytes are taken.

The hazards, each at its line and with the property that covers it, are in
`PROJECT.json`.

## 2. The modules

```
Target --- Protocol --+-- IspDevice  (abstract)
                      |      ^
                      |      | implements (checked, and proved)
                      +-- Firmware --+-- Programmer --+-- MCProgrammer --- MCTestPrograms
                             |       |                +-- TestPrograms ------+
                             |       +-- LiveMode ----- MCLiveMode
                             |       +-- MCFirmware
                             +-- Firmware_proofs -+- FirmwareRefinement
                                                  |    +- Programmer_proofs
                                                  |         +- TestPrograms_proofs
                                                  +- LiveMode_proofs
HexRecord --- HexFile --- MCHexFile           HexFile --- HexFile_proofs
UsbDevice --- MCUsbDevice                     UsbDevice --- UsbDevice_proofs
VirtualSerial --- VirtualSerial_proofs
```

* **Target** - the chip behind the ISP header, external: instructions, the page
  latch, programming mode, `Programmed` (bits are only cleared). Parameters:
  `FlashWords`, `Signature`, `ByteAnd` (bitwise conjunction of two bytes; an
  operator so that proofs need only what they use of it).
* **Protocol** - the packets, byte for byte. Addresses travel as two bytes.
* **Firmware** - `main.c` with its two banks. `pc` is the place in the loop:
  `loop` (the check of `USB_DeviceState`), `out` (ProcessOUT), `spi_out` (inside
  a write or an erase), `in` (ProcessIN), `spi_in` (inside a read or an
  identification). A session is a sequence of instructions (`WriteSession`,
  `ReadSession`, ...) and `step` the next of them: **one action per four-byte
  instruction**, so that transfers and bus events fall between any two. Code
  between two visible effects is one action; nothing else shares its data.
  The host (`TransferOUT`, `TransferIN`) and the bus (`ConfigurationChanged`,
  `Suspend`, `WakeUp`) are separate actions. `Suspend` sets `Unattached`: on
  this chip family LUFA reports a suspend as a disconnection. One enumeration
  is modelled: resets and reconfigurations are `UsbDevice`'s (section 6).
* **IspDevice** - what the firmware promises, with no main loop and no sessions:
  a request, a pending answer, a reply, the flash. Each command takes effect in
  one step. A write or an erase first cancels the answer still owed, and any
  command replaces it: that is what `commande_PC` being one variable means.
* **Programmer** - the PC program composed with `Firmware`. Each libusb call is
  an action whose outcomes are: done; failed though the packet went through;
  failed without it; for a receive also a packet longer than the buffer. `hpc`
  is the place in the program. The loops discarding button packets are `IspIn`
  and `ReadIn` leading back to themselves. `Kill` interrupts the program at any
  point (a receive under way may still take its packet), `Start` runs it again
  on the same device. The null pointer of an unknown target (prog.c:68) and the
  freed handle of the second close end in `crashed`. `shown` is what the user
  has seen under each address; `past`, the blocks the flash has held, is a
  history variable.
* **TestPrograms** - the three test programs that end by themselves, started
  before, after and between runs of the PC program on the same device. They are
  copies of parts of it, so that their steps are its actions where the code is
  the same (`TestErase == EraseOut`); what is new is the order (`FirstPlace`),
  `TestWrite` and `TestWritten`, the fixed number of blocks, and the single
  closing. `WordsWritten` and `WordsRead` stand for 5 and 32. (The comments of
  `flash_rw.c:42,45` speak of four words; the loop writes five.)
* **LiveMode** - `main_pc.c` composed with `Firmware`, started on a device that
  another program may have left with a packet not looked at yet, with an answer
  due, or with an answer or a button packet in the bank (`Init`). `LedsLeft` and
  `AddressesLeft` are the LEDs and the `flash_address` it may have left.
* **HexRecord**, **HexFile** - pure operators for one record, and the loop over
  lines with the variables that survive a line, compared with a reference
  reading of the format (`Specified`, `ByteAt`), which puts every byte above the
  base its last extended address record has set (types 2 and 4). The loop
  ignores those records, so the comparison is for files whose data lies below 64
  KB (`WellFormed`; section 6). A record has at most 121 data bytes: with
  header, checksum and line break its line then fits the buffer of 256
  characters, and `fgets` reads it whole.
* **UsbDevice** - the LUFA core under the main loop. `stack` holds the main loop
  and above it the control interrupts under way; only its top runs, one action
  per access to a shared register or per wait, and a pending interrupt comes
  first. `pc` of the main loop: `task`, `poll` (`USB_DeviceTask` has selected
  the control endpoint), `out` and `in` (ProcessOUT and ProcessIN have selected
  theirs). `pc` of a request, for either caller: `read` (header), `received`
  (the first look at the SETUP flag), `switch` (the request is dispatched),
  `status` (a status stage entered), `stream` and `acknowledge` (the control
  write stream of a descriptor), `wait_sent`, `configured`, `configure_out`,
  `inspect`, `reallocate`, `configure_in` (the two endpoints are configured, the
  loop of `Endpoint_ConfigureEndpoint_Prv` over the endpoints above the first
  included), `feature` and `stalled` (the endpoint of a halt or status request
  is selected), then `check` and `stall`: whatever has been done, a SETUP packet
  found at the end of a request is thrown away and the control endpoint stalled
  (`DeviceStandardReq.c:118-122`). In `end` and `return` the epilogue enables
  the interrupt and restores the endpoint. The hardware is external, as the data
  sheet has it: a bus reset clears `UDADDR` and disables the data endpoints;
  `SUSPI` and `WAKEUPI` clear each other; a SETUP packet clears a stall of the
  control endpoint, and `ClearSETUP` frees its IN bank. The host makes one
  request at a time, waits between two (phase `recovery` to `idle`), only
  addresses and describes a device at address 0, and may give a transfer up at
  any point. Its addresses are 1 to 127 (`AddressAssumption`: an address is
  seven bits, and 0 means none). A transfer given up leaves its SETUP packet in
  the bank for the handler to find; the host goes on, and resumes an idle bus,
  only when the device waits for it, which is what its recovery times stand for.
  A look at the flag by the main loop may come in the instant before the
  interrupt takes the packet: at the poll this is counted as a disturbance, at
  the two later looks it is remembered in `overtaken`. Code between two accesses
  to what an interrupt shares is one action: the eight reads of a header, the
  disabling and enabling of one endpoint (`Allocate`).
* **VirtualSerial** - the main loop of VirtualSerial.c over the class driver.
  The bytes of the reports are numbered, so that order and loss are visible;
  `pc` says where in `CDC_Device_SendByte` or `_Flush` the loop is (`hand`: the
  bank is full and handed over, `wait`: `Endpoint_WaitUntilReady`, `write`).
  Bus events and requests fall between any two steps. The enumeration is cut
  down to a reset and a configuration, that being `UsbDevice`'s subject. After
  a reset has deselected the endpoint, the driver would write to the control
  endpoint; that is not modelled, hence `emptied`: the bytes on their way at a
  reset or a configuration are lost and the properties say so.
* **..._proofs**, **FirmwareRefinement** - the proofs (section 5).
* **MC...** - instances for TLC. Operators described as mutants stand beside
  the definition they alter; the specifications do not use them, they show which
  mistake in the code each property would catch.

## 3. The runs

| Run | Instance | Shows |
|---|---|---|
| `firmware` | 8 words; every kind of request, two addresses; two button states; any host | typing, target safety, effect before the bank is freed, refinement of `IspDevice`, commands taken, answers sent |
| `reliable` | 12 words (three blocks), known database, 3 runs of any mode or test program, no failures | a read displays exactly the flash and all of it; a write follows the image in order; success is true; `flash_rw` reads back what it wrote; `isp_ids` shows the signature; every run ends |
| `faults` | 12 words, 2 runs of any mode, 2 failed transfers or suspends, 1 kill | a displayed block is always one whole block the flash has held; `flash_read` leaves its receive loop; only erases and words of the image change the flash |
| `hexfile` | every file of up to 4 lines from 23 records (lengths 0 to 4, four addresses, end, type 4 with base zero and not) and blank lines | in a well-formed file, every byte to its place; only odd tails added |
| `live` | 4 words, three LEDs; a command, an answer or a button packet left over | LEDs, buttons, end of the program |
| `usb` | eight requests (an enumeration; descriptors that end on a full packet and that the host cuts), the first bus reset and one more disturbance anywhere | endpoint selection, nesting, answers, descriptors and addresses, the end of every wait |
| `serial` | packets of 2 bytes, 2 reports of 3 bytes, resets, suspends, configurations, closed ports and timeouts anywhere, any number of them | bytes once and in order, transfers closed, the host's bytes taken |
| `misplaced`, `success`, `close`, `isp`, `live_select` | as above, with one failure or kill | the disagreements of section 4 |

**Why the bounds are enough.** Each bank holds one packet, and an answer is four
words at an aligned address: two blocks are the least that can be confused,
three let a late answer be off by one in the middle. Two runs of the program are
needed for a packet to outlive its program, a third for it to meet yet another
mode. One fault suffices for each finding, two let a second one fall on the
recovery from the first. In `hexfile` record lengths on both sides of a word,
neighbouring, overlapping and last addresses are all present. Every byte of the
initial flash differs, so that any displacement shows. `MaxDisturbances` = 2 in
`usb` is the first reset and one reset, suspend or abandoned transfer at *every*
point of every request, which is what each property is about; three exceed what
TLC does in five minutes, and the proofs of all its safety properties are for
any number. `MaxDepth` = 2 bounds the stack a SETUP packet finds: it falls into
the main loop, into a handler that is about to return, or into one that a reset
has left waiting for the host. Deeper nesting, which a host faster than the
epilogue of an interrupt could build without end, is covered by the proofs. A
report of three bytes over packets of two fills one packet and ends in a second
one; with a byte refused by a timeout it ends on the border of the first.
`MaxRuns`, `MaxFaults`, `MaxKills`, `MaxLines`, `MaxDisturbances`, `MaxDepth`
and `MaxReports` are the only bounds, with `LedsLeft` and `AddressesLeft` for
what the live mode finds; none limits the firmware, whose state is finite. Two
runs switch deadlock checking off. `hexfile`: the loop ends with its file.
`usb`: a host may stop, and one that resets the bus or gives a transfer up while
`Endpoint_ClearStatusStage` waits inside the interrupt leaves it waiting, with
the control interrupt disabled, until the next reset, suspend or status packet;
when the bound on disturbances is used up, nothing more happens.

**Fairness.** `WF(Main)`: the firmware's loop has no blocking call but SPI
transfers, which the hardware completes. `WF(Program)` (`WF(AnyProgram)` with the test programs): a process is scheduled
and libusb completes or times out; a transfer waiting for a bank is disabled
until the bank can serve it. A timeout without any packet moved is a counted
fault, so the reliable run proves what happens when timeouts never fire early.
`WF(BusEvent)` (Programmer only): the host configures the device and resumes the
bus. Nothing makes the host send, fetch, start, kill, suspend or press a key.
`CommandTaken` and `RequestAnswered` state what they need as premises: the bus
stays up, and for the second the host keeps emptying the IN bank, without which
the firmware rightly waits. `UsbDevice`: `WF(Device)`, the processor runs, and
`WF(Transfer)`, a host that has begun a transfer goes on with it as far as the
device lets it; `HandlersEnd` excepts, as a premise, transfers given up and
resets inside a request, and `SetupTaken` only the first. `VirtualSerial`:
`WF(MainLoop)`, which includes the timeouts counted in frames, and `WF(HostIN)`,
a host that has opened the port reads it.

## 4. Where code and text disagree

Five runs are counterexamples to what the repository says (quotes and lines in
`PROJECT.json`):

* `misplaced` - the read is recommended to make sure that the code was properly
  written, but a block left over from an earlier request (a request reported
  failed though delivered, or a killed run) is displayed under the next address,
  and every later block is one request late.
* `success` - the success message follows failed erases and words, and says
  nothing of the flash.
* `close` - the "one clean closing" is the second one after a read.
* `isp` - when the identification request is lost, the loop that was to end in
  an error or a signature receives button packets for ever.
* `live_select` - an LED packet also writes the target's select line.

What still holds under the same failures is checked too: `DisplayedIsSomeBlock`
(whole blocks, wrong label at worst), `BlockReadEnds`, `FlashChange`; the first
and the last are proved.

## 5. What is proved

**The firmware** (`Firmware_proofs`, `FirmwareRefinement`), for
every flash size up to 65536 words (a multiple of four), signature, set of
requests and initial flash:

* `FirmwareInvariant`: `FirmwareSpec => []FirmwareInv`.
* `FirmwareTypeCorrect`: `FirmwareSpec => []FirmwareTypeOK`.
* `TargetSafe`: `FirmwareSpec => []ProgrammingOnlyInSession`.
* `FirmwareImplementsDevice`: `FirmwareSpec => DeviceSpec`.
* `EffectBeforeBankFreed`: `FirmwareSpec => BankFreedAfterEffect`.

Assumptions: `FlashAssumption`, `BlocksAssumption` (four-word blocks do not cross
the end of the flash), `SignatureAssumption`, `ByteAndAssumption` (the result is
a byte, and an erased byte is neutral), `ByteAndTwiceAssumption` (clearing the
same bits twice; only for `EffectBeforeBankFreed`), `RequestsAssumption` (hosts send packets
of the shapes of the programs in the repository), `ButtonsAssumption`,
`InitialFlashesAssumption`.

*The inductive invariant.* Neither typing nor target safety is inductive: that
the latch is empty and the target disabled between two sessions is a fact about
the *end* of a session, and that an answer has one, three or eight bytes one
about the number of its instructions. `FirmwareInv` adds to both:
`UnconfiguredInv` (before configuration the loop is idle and the banks are
empty), `IdleInv` (outside a session the target is released), `OutSessionInv`
(in a write or an erase the packet is still in the OUT bank, and after `step`
instructions the latch holds the bytes loaded so far), `InSessionInv` (in a read
or an identification `fifo` holds exactly the bytes the instructions done so far
returned, hence the flash at `flash_address`), and `ReadDueInv` (a read due has
an aligned address). One lemma per action shows that it is preserved.

*The refinement.* The mapping keeps the packet of a write or an erase "to be
carried out" until the session is over, and reads the pending answer off
`commande_PC` and `flash_address`. One lemma per action: most steps stutter;
the `ProcessOUT` steps map to `Ignore`, `Note`, `ShowLeds` or `Cancel`; the
`write_page` and `chip_erase` instructions map to `Write` and `Erase`, by
`OutSessionInv`; `ProcessINEnd` maps to `Reply`, by `InSessionInv`.

*Effect before the bank is freed.* `EffectInv` says what the flash holds when a
session of `ProcessOUT` is over and its packet still in the bank. Only the last
instruction of a session can make its premise true, and there the latch is known
from `OutSessionInv`; the step that frees the bank is the one at the end.

**The PC program** (`Programmer_proofs`), composed with the firmware, for every
database, image, number of runs and *any* number of failed transfers, suspends
and killed processes:

* `ProgrammerInvariant`: `Spec => []ProgrammerInv`.
* `ProgrammerTypeCorrect`: `Spec => []ProgrammerTypeOK`.
* `SomeBlockDisplayed`: `Spec => []DisplayedIsSomeBlock`.
* `FlashChangesByImage`: `Spec => FlashChange`.

Assumptions beyond the firmware's: `DatabaseAssumption`, `SizesAssumption` (no
entry is larger than the flash of the target, and the target's entry has its
size), `ImageAssumption`, `BudgetAssumption`. No assumption bounds the faults.
`ProgrammerInv` joins `FirmwareInv` with three facts: `CommandsInv`, the packet
in the OUT bank is one the program sends, even if the process that sent it is
gone; `PastInv`, a block in the IN bank is one the flash has held (by
`InSessionInv`, the firmware answers with eight bytes of one aligned address,
and no write falls between two of them since a session is never interrupted by
a command); `PlaceInv`, what the places of the program imply for its loop
variables (a target is known where blocks are asked for, the address stays a
multiple of four even when it wraps around). Every step is, for the firmware,
one of its own, a bus event, a fetch, or a packet of `SentPackets`
(`ProgramHostStep`), so that the firmware's lemmas apply as they stand. A write
changes the flash only by the packet in the bank (`MainFlash`), which
`CommandsInv` says is a word of the image (`SentWrite`).

**The PC program while nothing fails** (`Programmer_proofs`, second part). These
properties are false under failures (section 4 has the counterexamples), so the
theorems have the premise `Reliable`, that no transfer has failed, no suspend
was counted and no process was killed *so far*; the budgets of failures are
arbitrary, and so are the database, the image and the number of runs on the
same device.

* `ReliableInvariant`: `Spec => [](Reliable => ReliableInv)`.
* `DisplayTrue`: `Spec => [](Reliable => DisplayedIsFlash)`.
* `DumpComplete`: `Spec => [](Reliable => CompleteDump)`.
* `WriteFollowsImage`: `Spec => [](Reliable => FlashFollowsImage)`.
* `SuccessIsTrue`: `Spec => [](Reliable => SuccessMeansWritten)`. A success
  printed means the whole image in the flash, or all of it but its last word while
  the packet with that word is still in the OUT bank: the program does not wait
  for it, and says so too early by that one packet.

No further assumption is needed. The argument rests on the refinement: what the
device still has to do is read off the abstract state of `IspDevice` (`request`,
`pending` and the IN bank), and every step of the main loop is one of six
moves of it or none (`MainMoves`), so that the session the firmware is in no longer
matters. `ExchangeInv` says that the program and the device are of one mind:
while the program waits in `isp_in` or `read_in` exactly one answer is due (its
request on the way or noted, or the answer in the bank), and it answers that request and that address
(`Due`); at every other place none is (`NoneDue`). Since answers carry no
address, this is what makes a displayed block the one asked for. `DisplayInv`
adds that once a block is displayed no write or erase is outstanding; `DumpInv`
that every block before the loop's address is displayed; `ImageInv` that the
flash is the erased one with the words sent so far, but for the last packet
while it is in the OUT bank. That the flash after *i* words (`Written`) is a
recursive function, whose existence is proved from a least-element argument.

**The test programs** (`TestPrograms_proofs`), run before, after and between runs
of the PC program, in any order, with any number of words and blocks
(`TestsAssumption`):

* `TestInvariant`: `TestSpec => []TestInv`, `TestTypeCorrect`:
  `TestSpec => []TestTypeOK`, under failures too.
* `ReliableTestInvariant`: `TestSpec => [](Reliable => ReliableTestInv)`.
* `SignatureTrue`, `ReadBackTrue`:
  `TestSpec => [](Reliable => SignatureShown)`, `... ReadBackMatches`.
* `ProgramsTrue`: the four properties of the PC program hold of the composition.

The steps shared with the PC program are covered by its lemmas. `ReadBackInv` is
the part of `flash_rw`: the flash follows the erase and the words in the order
they are sent, the read starts only after the last of them, and by `ExchangeInv`
its first request is not answered before that word is in the flash.

**The live mode** (`LiveMode_proofs`), for every target, command, answer or
packet another program left behind, any LEDs and address (`LeftAssumption`):
`LiveInvariant`, `LedsFollow`: `Spec => []LedsFollowKeys`, `ButtonsOnly`:
`Spec => []OnlyButtonsShown`. Once the program believes an LED packet sent, the
LEDs agree with `data_out`, or its packet is in the bank (`AgreeInv`); a one-byte
packet is a state of the buttons, since answers have three or eight bytes
(`ButtonsInv`, from `InSessionInv`).

**The device core** (`UsbDevice_proofs`), for every set of requests, number of
disturbances and depth of the stack (`BoundAssumption`, `RequestsAssumption`):
`UsbInvariant`, `UsbTypeCorrect`: `Spec => []UsbTypeOK`, `EndpointsSelected`:
`Spec => []EndpointSelected`, `RequestsNestBounded`: `Spec => []NestingBounded`.
`EndpointSelected` says of every place that uses an endpoint which one it finds
selected: the one its code selected, and nothing else as long as no bus reset has
fallen into a request, ProcessOUT or ProcessIN (`cuts = 0`); after such a reset
that one or the control endpoint (`AfterCut`), which is what a halt request, a
status request or the configuration of an endpoint then works on. It
is an invariant of the whole stack, not of its top: `SelectInv` says that what
each interrupted routine had selected is saved in the frame above it. The routine
of a bus reset saves nothing, hence `BusInv`: a reset that meets code with a data
endpoint selected has been counted in `cuts`. The bound
on nesting needs `NestInv`: there are at most `cuts` handlers whenever the
control interrupt is enabled, or a reset is pending that will enable it.

*Control transfers*, with `AddressAssumption`, under the premise `Undisturbed` of
the properties themselves: no bus reset has fallen into a control request,
`ProcessOUT` or `ProcessIN` (`cuts = 0`), and the main loop has not looked at the
SETUP flag in the instant before the interrupt took the packet (`overtaken`);
section 6 says what breaks otherwise. Transfers given up, suspends and resets
between requests are covered, in any number:

* `TransferInvariant`: `Spec => [](Undisturbed => TransferInv)`.
* `AnswersFresh`: `Spec => []NoStaleAnswer`.
* `DescriptorWhole`: `Spec => []DescriptorDelivered`.
* `StandingInvariant`: `Spec => []StandingInv`.
* `StateTrue`: `Spec => []StateMatchesRegisters`.
* `AddressStays`: `Spec => AddressKept`.

None of these properties is inductive, and neither is any one conjunct of
`TransferInv`. `StackOrder`: only the top of the stack handles a request; below it are
handlers about to return and the main loop, perhaps in its own poll for a SETUP packet.
`WakeInv`: a device that calls itself disconnected is on an idle bus with the
wake-up enabled, or has the interrupt pending that corrects it. `TurnInv`: the
control interrupt is enabled unless a request is under way. `SetupInv`: a SETUP packet in the bank is
that of the host's request, and one the host has given up is not served on a bus
that is awake. `HandlerInv`: which places in a handler know that
`USB_ControlRequest` is still the host's. `DirectionInv`, `AnswerInv`: the packet
in the bank is an answer to it. `DescriptorInv`: the bytes the host has, those
in the bank and those the stream still holds add up to the descriptor, and a
short packet in the bank is the last. `StandingInv` adds `AddressInv` (the
address being set belongs to the `SET_ADDRESS` the host has just seen the end
of; an addressed device is not addressed again) and `StateInv` (state,
configuration and address agree except inside `SET_CONFIGURATION` and while a
reset is pending). The proof goes by kinds of steps: those that leave
the control endpoint alone, those of the handlers, of the bus and of the host.

**VirtualSerial** (`VirtualSerial_proofs`), for every size of packets, length and
number of reports (`SizeAssumption`): `SerialInvariant`, `SerialTypeCorrect`:
`Spec => []SerialTypeOK`, `BytesDelivered`: `Spec => []AcceptedDelivered`. The
strengthening `SendInv`: between the choice of the endpoint and the write it
stays selected, a bank waited for is empty and one written has room, unless the
device was reset in between.

**The HEX loop** (`HexFile_proofs`), for every set of records that fit a line
(`RecordsAssumption`) and files of any number of lines, blank ones included:

* `HexInvariant`: `Spec => []HexInv`, `HexTypeCorrect`: `Spec => []HexTypeOK`.
* `BytesSent`: `Spec => []EveryByteSent`.
* `TailsOnly`: `Spec => []OnlyTailsAdded`.

`HexInv` describes what is sent as a set, so that no induction over the lines is
needed: the words sent are the words of the data records read, no more and no
less. A blank line repeats the record before it, which is why `HeaderInv` has to
say that the surviving variables are those of *one* record of the file. The two
properties follow for well-formed files (`WellFormed`: data at even addresses, no
byte given twice, nothing above 64 KB, which `LowRecords` turns into bases that
are zero) by arithmetic on one record and the disjointness of two (`OneRecord`);
`ByteOrder` is the lemma that the first byte of a pair ends up in the low half.

Every safety property of a passing run is thereby stated by a theorem, for every
value of the constants.

*Only model-checked*: liveness, since `ENABLED` and fairness are out of the
prover's reach: `CommandTaken` and `RequestAnswered` of the firmware, `RunEnds`
and `BlockReadEnds` of the PC program, `QuitEnds` of the live mode, `HandlersEnd`
and `SetupTaken` of the device core, `TransferEnded` and `HostBytesTaken` of
VirtualSerial. The five counterexamples of section 4 are TLC's too.

## 6. Not modelled, and why

* **Delays.** The 5 ms of `main.c:91,117,249,260` and the timeouts of libusb are
  not timed: a timeout is a failure that may come at any moment, an SPI
  instruction is done when it is sent. Whether 5 ms suffice for an erase is a
  question to the target's datasheet.
* **An absent or wrong target**, and addresses outside the flash: the chip would
  answer noise. A database entry with the target's signature has its true size
  and none is larger than the target (`SizesAssumption`); the sizes of the test
  programs lie within it.
* **HEX files for more than 64 KB.** An extended address record in front of data
  makes the loop print "Erreur de type" and send that data to its low sixteen bits
  (flash_write.c:74-75). The model does the same, but nothing is claimed of such
  files: no target of the database has more than 32 KB.
* **Resets and reconfigurations while a command runs.** `Firmware` has one
  enumeration. A bus reset or a second `SET_CONFIGURATION` empties the banks in
  the middle of a session, and can leave ProcessOUT or ProcessIN at work on the
  control endpoint (`UsbDevice`, `EndpointSelected`): what `main.c` then reads
  would need the endpoint registers in `Firmware`. No program of the repository
  resets or configures the device.
* **Of the device core**: remote wake-up, the internal serial number, strings and
  the contents of descriptors (a descriptor is its length), the clock and the PLL
  (endpoint accesses while a suspend freezes the clock are taken to work), the
  start of the controller. `SET_CONFIGURATION` 0, which leaves an addressed
  device Configured (DeviceStandardReq.c:203), is an execution of the same
  actions but not among the requests of the run, whose states it would double.
  The model also shows, outside what the properties claim, that a reset during
  the status stage of a control read leaves its handler spinning below the next
  ones, and one during that of `SET_ADDRESS` leaves the address enabled. A
  look of the main loop at a SETUP packet in the instant before the interrupt
  takes it carries the request out twice, or refuses one that has been carried
  out (`overtaken`).
* **Test programs under failures**: modelled, since their transfers are the
  operators of the PC program with all outcomes, but run without failures only;
  `faults` exercises those outcomes in the PC program itself.
* **Of VirtualSerial**: the class requests but `SetLineEncoding`, whose state
  nothing reads, the LEDs, the text of the reports, writes to the control
  endpoint after a reset.
* **The rest of the repository's 66000 lines** is the vendored LUFA library for
  other architectures (UC3, XMEGA), its host mode, other class drivers and board
  drivers, none of which is compiled into the firmware: modelling it would say
  nothing about this program. This is why the share of mapped lines is small.
* **Board tests and examples** (`ISP_tests`, `code_to_flash`): one loop each,
  without a host, an interrupt or memory.
* **Packets no program of the repository sends** (a read without its address, a
  command byte with bits 0 to 4 set).
* HEX lines over 255 characters, malformed digits, and a blank *first* line,
  whose header is uninitialised.
* Two programs at once: libusb's claim of the interface excludes them.
* Messages and formatting, except the success message and the displayed words.

## 7. Plan

Done: Target, Protocol, Firmware and its abstract specification; the PC program
and the test programs; the HEX loop and the live mode; the device core;
VirtualSerial; the proofs of section 5, which cover the safety of all of them.
Next, in this order:

1. An abstract specification of a read and of a write session that the program
   without failures implements; the invariant of section 5 has what its
   refinement needs.
2. What holds of `UsbDevice` after a reset inside a request or a poll that raced
   the interrupt (`~Undisturbed`), where so far only selection, nesting and typing
   are stated.
3. `UsbDevice` with `SET_CONFIGURATION` 0 and strings, if its state space can be
   cut; its composition with `Firmware`, so that endpoint accesses of the command
   loop are those of the core, and resets fall into its sessions.
4. Lemmas on `HexRecord` that join it with `Protocol`: the byte order of a word
   from file through packet and latch, so that the image of `Programmer` is the
   one of a file.
