----------------------------- MODULE Programmer -----------------------------
(***************************************************************************)
(* The PC program (software/prog.c with isp_ids.c, flash_read.c,           *)
(* flash_write.c and dev_handle.c) at the other end of the firmware's two   *)
(* endpoints.  A libusb transfer waits for the endpoint, and either moves   *)
(* one packet or fails; a failure is reported whether or not the packet     *)
(* went through.  The program can be killed, and is run again on a device   *)
(* that was never told of it.                                              *)
(***************************************************************************)
EXTENDS Firmware, FiniteSets

CONSTANTS
    base_de_donnees,  \* the known targets: a sequence of [signature, taille_flash]
    Image,            \* the words flash_write sends: a sequence of [addr, word]
    Modes,            \* what the user may ask for; "none" is also a write of a
                      \* file that cannot be opened
    MaxRuns,          \* how often the program is started
    MaxFaults,        \* transfers that fail and suspends of the bus, in all
    MaxKills          \* runs the user interrupts

CibleAVR == [signature : [1..3 -> Byte], taille_flash : Nat]

ASSUME DatabaseAssumption == base_de_donnees \in Seq(CibleAVR)

\* The target is the largest of the database, if it is in it: what it would
\* answer outside its flash is not modelled.
ASSUME SizesAssumption ==
    \A i \in DOMAIN base_de_donnees :
        LET entry == base_de_donnees[i]
        IN /\ entry.taille_flash \div 2 <= FlashWords
           /\ entry.signature = Signature => entry.taille_flash = 2 * FlashWords

ASSUME ImageAssumption == Image \in Seq([addr : Word, word : WordValue])

ASSUME BudgetAssumption ==
    /\ Modes \subseteq {"none", "read", "write"} /\ Modes # {}
    /\ MaxRuns \in Nat /\ MaxFaults \in Nat /\ MaxKills \in Nat

VARIABLES
    hpc,      \* where the program is
    mode,     \* what it was asked for
    handle,   \* "none", "open", "claimed", "closed"
    sig,      \* the signature buffer of main
    cible,    \* index of the target in the database, 0 for NULL
    addr,     \* flash_read's word address
    item,     \* flash_write's next word
    shown,    \* what flash_read displayed under each address: <<>> or words
    success,  \* the success message of a write was printed
    runs, faults, kills,
    past      \* every block the flash has held

hostVars == <<hpc, mode, handle, sig, cible, addr, item, shown, success>>
budgetVars == <<runs, faults, kills, past>>
vars == <<firmwareVars, hostVars, budgetVars>>

Ended == {"done", "failed", "crashed", "killed"}
-----------------------------------------------------------------------------
\* recherche_cible: the first entry with this signature, 0 when there is none.
recherche_cible(s) ==
    LET Matches == {i \in DOMAIN base_de_donnees : base_de_donnees[i].signature = s}
    IN IF Matches = {} THEN 0
       ELSE CHOOSE i \in Matches : \A j \in Matches : i <= j

\* Mutant: the bytes of a word exchanged.
WordsInSwapped(p) == [k \in 1..4 |-> 256 * p[2 * k - 1] + p[2 * k]]

\* A word as flash_read prints it, from its two bytes in the buffer.
WordsIn(p) == [k \in 1..4 |-> 256 * p[2 * k] + p[2 * k - 1]]

\* A three-byte buffer after a packet was received into it.
Received(p, buffer) == [k \in 1..3 |-> IF k <= Len(p) THEN p[k] ELSE buffer[k]]

\* Mutant: the address advances by the bytes of a block, not by its words.
NextAddrInBytes == (addr + 8) % 65536

\* The uint16_t loop variable of flash_read.
NextAddr == (addr + 4) % 65536
-----------------------------------------------------------------------------
\* libusb_interrupt_transfer on the OUT endpoint.
SendOk(p) == TransferOUT(p) /\ UNCHANGED faults
SendFails(p) == /\ faults < MaxFaults /\ faults' = faults + 1
                /\ TransferOUT(p) \/ UNCHANGED firmwareVars

\* libusb_interrupt_transfer on the IN endpoint: the packet is received, is
\* longer than the buffer and lost, or the transfer fails before or after it.
Arriving == inBank[1]
ReceiveOk(size) == TransferIN /\ Len(Arriving) <= size /\ UNCHANGED faults
ReceiveOverflows(size) == TransferIN /\ Len(Arriving) > size /\ UNCHANGED faults
ReceiveFails == /\ faults < MaxFaults /\ faults' = faults + 1
                /\ TransferIN \/ UNCHANGED firmwareVars

Goto(label) == hpc' = label
-----------------------------------------------------------------------------
\* init_usb and reclamer_interface.
InitUsb ==
    /\ hpc = "init_usb"
    /\ \/ /\ USB_Device_ConfigurationNumber # 0
          /\ Goto("claim") /\ handle' = "open"
       \/ Goto("failed") /\ handle' = "none"
    /\ UNCHANGED <<firmwareVars, mode, sig, cible, addr, item, shown, success,
                   budgetVars>>

Claim ==
    /\ hpc = "claim"
    /\ \/ Goto("isp_out") /\ handle' = "claimed"
       \/ Goto("failed") /\ handle' = "closed"
    /\ UNCHANGED <<firmwareVars, mode, sig, cible, addr, item, shown, success,
                   budgetVars>>

\* isp_ids: the request; its failure is printed and the program goes on.
IspOut ==
    /\ hpc = "isp_out"
    /\ SendOk(IdRequest) \/ SendFails(IdRequest)
    /\ Goto("isp_in")
    /\ UNCHANGED <<mode, handle, sig, cible, addr, item, shown, success, runs,
                   kills, past>>

\* Mutant: the first packet is taken for the signature.
IspInOnce ==
    /\ hpc = "isp_in"
    /\ \/ ReceiveOk(3) /\ sig' = Received(Arriving, sig)
       \/ ReceiveOverflows(3) /\ sig' = sig
       \/ ReceiveFails /\ sig' = sig
    /\ Goto("lookup")
    /\ UNCHANGED <<mode, handle, cible, addr, item, shown, success, runs, kills, past>>

\* isp_ids: packets are received until one is not of one byte.
IspIn ==
    /\ hpc = "isp_in"
    /\ \/ /\ ReceiveOk(3)
          /\ sig' = Received(Arriving, sig)
          /\ Goto(IF IsButtons(Arriving) THEN "isp_in" ELSE "lookup")
       \/ /\ ReceiveOverflows(3)
          /\ sig' \in {sig, Received(Arriving, sig)}
          /\ Goto("lookup")
       \/ /\ ReceiveFails
          /\ \/ sig' = sig
             \/ inBank' # inBank /\ sig' = Received(Arriving, sig)
          /\ Goto("lookup")
    /\ UNCHANGED <<mode, handle, cible, addr, item, shown, success, runs, kills, past>>

\* main: the target is looked up and the action chosen.  A read of an unknown
\* target takes the flash size from a null pointer.
Lookup ==
    /\ hpc = "lookup"
    /\ cible' = recherche_cible(sig)
    /\ Goto(CASE mode = "none" -> "close"
              [] mode = "write" -> "erase"
              [] mode = "read" /\ cible' # 0 -> "read_out"
              [] OTHER -> "crashed")
    /\ handle' = IF hpc' = "crashed" THEN "none" ELSE handle
    /\ addr' = 0
    /\ UNCHANGED <<firmwareVars, mode, sig, item, shown, success, budgetVars>>

\* Mutant: the answer is waited for even when the request failed.
ReadOutWaitsAnyway ==
    /\ hpc = "read_out"
    /\ addr < base_de_donnees[cible].taille_flash \div 2
    /\ SendOk(ReadRequest(addr)) \/ SendFails(ReadRequest(addr))
    /\ Goto("read_in")
    /\ UNCHANGED <<mode, handle, sig, cible, addr, item, shown, success, runs,
                   kills, past>>

\* The request for one block, skipped when it fails.
RequestBlock ==
    /\ \/ SendOk(ReadRequest(addr)) /\ Goto("read_in") /\ addr' = addr
       \/ SendFails(ReadRequest(addr)) /\ Goto("read_out") /\ addr' = NextAddr
    /\ UNCHANGED <<mode, handle, sig, cible, item, shown, success, runs, kills, past>>

\* flash_read: the next block, while the loop lasts.
ReadOut ==
    /\ hpc = "read_out"
    /\ addr < base_de_donnees[cible].taille_flash \div 2
    /\ RequestBlock

\* flash_read: the answer.  Packets of one byte are skipped, a block is
\* displayed under the address asked for, anything else is an error line.
ReadIn ==
    /\ hpc = "read_in"
    /\ \/ /\ ReceiveOk(8) /\ IsButtons(Arriving)
          /\ UNCHANGED <<hpc, addr, shown>>
       \/ /\ ReceiveOk(8) /\ IsBlock(Arriving)
          /\ shown' = [shown EXCEPT ![addr] = WordsIn(Arriving)]
          /\ Goto("read_out") /\ addr' = NextAddr
       \/ /\ \/ ReceiveOk(8) /\ IsSignature(Arriving)
             \/ ReceiveFails
          /\ Goto("read_out") /\ addr' = NextAddr /\ UNCHANGED shown
    /\ UNCHANGED <<mode, handle, sig, cible, item, success, runs, kills, past>>

\* flash_read releases and closes the handle it was given.
ReadEnd ==
    /\ hpc = "read_out"
    /\ addr >= base_de_donnees[cible].taille_flash \div 2
    /\ Goto("close") /\ handle' = "closed"
    /\ UNCHANGED <<firmwareVars, mode, sig, cible, addr, item, shown, success,
                   budgetVars>>

\* flash_write: the erase; its failure is printed and the program goes on.
EraseOut ==
    /\ hpc = "erase"
    /\ SendOk(EraseRequest) \/ SendFails(EraseRequest)
    /\ Goto("write") /\ item' = 1
    /\ UNCHANGED <<mode, handle, sig, cible, addr, shown, success, runs, kills, past>>

\* One word is sent; a failure is printed, the next word follows.
SendWord(a, w) ==
    /\ SendOk(WriteRequest(a, w)) \/ SendFails(WriteRequest(a, w))
    /\ item' = item + 1
    /\ UNCHANGED <<hpc, mode, handle, sig, cible, addr, shown, success, runs, kills, past>>

\* flash_write: the next word of the file.
WriteOut ==
    /\ hpc = "write"
    /\ item <= Len(Image)
    /\ SendWord(Image[item].addr, Image[item].word)

\* main, after flash_write: the success message.
WriteEnd ==
    /\ hpc = "write"
    /\ item > Len(Image)
    /\ success' = TRUE
    /\ Goto("close")
    /\ UNCHANGED <<firmwareVars, mode, handle, sig, cible, addr, item, shown,
                   budgetVars>>

\* main releases and closes the handle.  When it is closed already, libusb is
\* given freed memory: the process may or may not survive.
Close ==
    /\ hpc = "close"
    /\ \/ Goto("done")
       \/ handle = "closed" /\ Goto("crashed")
    /\ handle' = "closed"
    /\ UNCHANGED <<firmwareVars, mode, sig, cible, addr, item, shown, success,
                   budgetVars>>

Program == \/ InitUsb \/ Claim \/ IspOut \/ IspIn \/ Lookup
           \/ ReadOut \/ ReadIn \/ ReadEnd
           \/ EraseOut \/ WriteOut \/ WriteEnd \/ Close
-----------------------------------------------------------------------------
\* The four words of the flash from a on, as flash_read prints words.
FlashWordsAt(a) ==
    [k \in 1..4 |-> 256 * chip.flash[a + k - 1].high + chip.flash[a + k - 1].low]

Blocks == {FlashWordsAt(a) : a \in BlockAddress}

\* The process is interrupted; an IN transfer under way may take its packet.
Kill ==
    /\ hpc \notin Ended
    /\ kills < MaxKills /\ kills' = kills + 1
    /\ UNCHANGED firmwareVars \/ (hpc \in {"isp_in", "read_in"} /\ TransferIN)
    /\ Goto("killed") /\ handle' = "none"
    /\ UNCHANGED <<mode, sig, cible, addr, item, shown, success, runs, faults, past>>

\* The user runs the program again.
Start ==
    /\ hpc \in Ended
    /\ runs < MaxRuns /\ runs' = runs + 1
    /\ Goto("init_usb")
    /\ mode' \in Modes
    /\ handle' = "none"
    /\ sig' = <<0, 0, 0>> /\ cible' = 0
    /\ addr' = 0 /\ item' = 0
    /\ shown' = [a \in BlockAddress |-> <<>>]
    /\ success' = FALSE
    /\ UNCHANGED <<firmwareVars, faults, kills, past>>

BusEvent == /\ ConfigurationChanged \/ WakeUp
            /\ UNCHANGED <<hostVars, budgetVars>>

BusSuspend == /\ Suspend
              /\ faults < MaxFaults /\ faults' = faults + 1
              /\ UNCHANGED <<hostVars, runs, kills, past>>

MainStep == /\ Main
            /\ past' = past \cup Blocks'
            /\ UNCHANGED <<hostVars, runs, faults, kills>>

Init ==
    /\ FirmwareInit
    /\ hpc = "done" /\ mode = "none"
    /\ handle = "none"
    /\ sig = <<0, 0, 0>> /\ cible = 0
    /\ addr = 0 /\ item = 0
    /\ shown = [a \in BlockAddress |-> <<>>]
    /\ success = FALSE
    /\ runs = 0 /\ faults = 0 /\ kills = 0
    /\ past = Blocks

Next == MainStep \/ Program \/ Kill \/ Start \/ BusEvent \/ BusSuspend

Spec == Init /\ [][Next]_vars

\* The main loop runs, the program's transfers are served, a suspended bus
\* wakes up; nobody has to start, kill or suspend anything.
FairSpec == Spec /\ WF_vars(MainStep) /\ WF_vars(Program) /\ WF_vars(BusEvent)
-----------------------------------------------------------------------------
Uint16 == {n \in Nat : n < 65536}

\* Every variable of the PC program keeps its type.
ProgrammerTypeOK ==
    /\ FirmwareTypeOK
    /\ hpc \in {"init_usb", "claim", "isp_out", "isp_in", "lookup", "read_out",
                "read_in", "erase", "write", "close"} \cup Ended
    /\ mode \in Modes \cup {"none"}
    /\ handle \in {"none", "open", "claimed", "closed"}
    /\ sig \in [1..3 -> Byte]
    /\ cible \in 0..Len(base_de_donnees)
    /\ addr \in Uint16
    /\ item \in 0..(Len(Image) + 1)
    /\ \A a \in DOMAIN shown : \/ shown[a] = <<>>
                               \/ shown[a] \in [1..4 -> Uint16]
    /\ success \in BOOLEAN
    /\ runs \in 0..MaxRuns /\ faults \in 0..MaxFaults /\ kills \in 0..MaxKills

-----------------------------------------------------------------------------
\* What the reader of a dump relies on: the words displayed under an address
\* are the words the flash holds at that address.  An answer does not say which
\* request it answers, so this rests on the whole exchange: one request at a
\* time, one answer to each, and stale packets recognised by their length.
DisplayedIsFlash ==
    \A a \in BlockAddress : shown[a] # <<>> => shown[a] = FlashWordsAt(a)

\* A read that ends has displayed every block of the target, none skipped as
\* an error, none left out by the 16-bit loop counter.
CompleteDump ==
    (mode = "read" /\ hpc = "close") => \A a \in BlockAddress : shown[a] # <<>>

\* The flash after the erase and the first n words of the image.
Written[n \in 0..Len(Image)] ==
    IF n = 0 THEN [a \in Word |-> ErasedWord]
    ELSE [Written[n - 1] EXCEPT ![Image[n].addr] = Programmed(@, Image[n].word)]

\* A command lies in the OUT bank and has not taken effect on the target yet.
Outstanding == outBank # <<>> /\ ~(pc = "spi_out" /\ SessionOver)

\* While a write goes on, the flash is the erased flash with the words sent so
\* far in the order of the file, except that the last packet sent (the erase
\* included) may still be outstanding: no word is programmed before the erase
\* is over, none is skipped or programmed out of order.
FlashFollowsImage ==
    (mode = "write" /\ hpc \in {"write", "close"}) =>
        LET n == (item - 1) - (IF Outstanding THEN 1 ELSE 0)
        IN n >= 0 => chip.flash = Written[n]

\* The last packet of a write: the last word, or the erase if the file has none.
LastPacket == IF Image = <<>> THEN EraseRequest
              ELSE WriteRequest(Image[Len(Image)].addr, Image[Len(Image)].word)

\* When the success message is printed (prog.c, after flash_write) and ever after,
\* the flash holds the image, or all but its last word while the packet with that
\* word is still in the OUT bank: the message does not wait for it.
SuccessMeansWritten ==
    success => IF Outstanding
               THEN /\ outBank = <<LastPacket>>
                    /\ Image # <<>> => chip.flash = Written[Len(Image) - 1]
               ELSE chip.flash = Written[Len(Image)]

\* The program closes the device once, at its end, on a handle it still holds.
ClosedOnce == hpc = "close" => handle = "claimed"

\* The only way the flash changes is the erase of the whole chip or bits of one
\* word cleared, and only for a word of the image: no lost, late or repeated
\* packet, nor a process killed on the way, writes anything else anywhere else.
FlashChange ==
    [][chip.flash' # chip.flash =>
          \/ chip.flash' = [a \in Word |-> ErasedWord]
          \/ \E i \in DOMAIN Image :
                chip.flash' = [chip.flash EXCEPT ![Image[i].addr] =
                                   Programmed(@, Image[i].word)]]_vars

\* Whatever failed before, a displayed block is a block the flash has held: its
\* eight bytes come from one read of one aligned address, never from two answers
\* nor from a flash half written.  Failures can only put a whole block under a
\* wrong address, or show what a late write has changed since.
DisplayedIsSomeBlock ==
    \A a \in BlockAddress : shown[a] # <<>> => shown[a] \in past

\* Every run of the program ends.
RunEnds == hpc = "init_usb" ~> hpc \in Ended

\* isp_ids leaves its receive loop, with an error or with the signature.
IspIdsEnds == hpc = "isp_in" ~> hpc # "isp_in"

\* flash_read leaves its receive loop.
BlockReadEnds == hpc = "read_in" ~> hpc # "read_in"
=============================================================================
