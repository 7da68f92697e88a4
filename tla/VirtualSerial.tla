--------------------------- MODULE VirtualSerial ---------------------------
(***************************************************************************)
(* The firmware that reports the buttons on a virtual serial port:         *)
(* VirtualSerial.c over the CDC class driver of LUFA.  The main loop puts   *)
(* the bytes of a report one by one into the single bank of the IN          *)
(* endpoint, hands a full bank to the host, throws away what the host       *)
(* sends, and flushes the bank once a turn.  The bus events and the control *)
(* requests of the host interrupt it between any two steps.                 *)
(*                                                                         *)
(* The bytes of all reports are numbered in the order the program makes     *)
(* them.                                                                    *)
(***************************************************************************)
EXTENDS Integers, Sequences

CONSTANTS
    EPSize,        \* CDC_TXRX_EPSIZE, the bytes of a packet
    ReportLength,  \* the bytes of a report
    MaxReports     \* the reports CheckButtons makes

ASSUME SizeAssumption ==
    EPSize \in Nat \ {0} /\ ReportLength \in Nat /\ MaxReports \in Nat

VARIABLES
    USB_DeviceState,  \* "Unattached", "Default" or "Configured"
    number,           \* USB_Device_ConfigurationNumber # 0
    baud,             \* State.LineEncoding.BaudRateBPS # 0
    selected,         \* the selected endpoint: "in", "out" or "control"
    pc,
    text,             \* bytes of the report still to be sent
    produced,         \* bytes the reports had so far
    reports,
    bank,             \* the IN bank: its bytes, and whether it is the program's
    out,              \* bytes left in the OUT bank, or NoPacket
    accepted,         \* the bytes SendByte took, in order
    delivered,        \* the bytes the host took, in order
    emptied,          \* a bus reset or a configuration met a packet on its way
    last,             \* the length of the last packet since one of them
    gaveup            \* a wait for the bank ended without it

deviceVars == <<USB_DeviceState, number, baud>>
loopVars == <<pc, text, produced, reports>>
bankVars == <<bank, out>>
historyVars == <<accepted, delivered, last, emptied, gaveup>>
vars == <<deviceVars, selected, loopVars, bankVars, historyVars>>

NoPacket == -1
Empty(mine) == [bytes |-> <<>>, mine |-> mine]

\* What every function of the class driver asks first.
Open == USB_DeviceState = "Configured" /\ baud

\* Endpoint_IsINReady and Endpoint_IsReadWriteAllowed of the IN endpoint.
INReady == selected = "in" /\ bank.mine
Room == bank.mine /\ Len(bank.bytes) < EPSize

\* Endpoint_ClearIN: the bank goes to the host, if it was the program's.  What
\* it does to the control endpoint is not modelled.
ClearIN == bank' = IF selected = "in" THEN [bank EXCEPT !.mine = FALSE] ELSE bank
-----------------------------------------------------------------------------
\* A button that is held makes a report at every turn.
CheckButtons ==
    /\ pc = "buttons"
    /\ \/ /\ reports < MaxReports
          /\ reports' = reports + 1 /\ text' = ReportLength /\ pc' = "send"
       \/ pc' = "receive" /\ UNCHANGED <<reports, text>>
    /\ UNCHANGED <<deviceVars, selected, produced, bankVars, historyVars>>

\* fputs goes on with the next byte whatever became of this one.
NextByte == text' = text - 1 /\ produced' = produced + 1 /\ pc' = "send"

\* CDC_Device_SendByte: the bank has room, or it is handed over first.
SendByte ==
    /\ pc = "send" /\ text > 0 /\ Open
    /\ selected' = "in"
    /\ pc' = IF Room THEN "write" ELSE "hand"
    /\ UNCHANGED <<deviceVars, text, produced, reports, bankVars, historyVars>>

SendRefused ==
    /\ pc = "send" /\ text > 0 /\ ~Open
    /\ NextByte
    /\ UNCHANGED <<deviceVars, selected, reports, bankVars, historyVars>>

SendDone ==
    /\ pc = "send" /\ text = 0
    /\ pc' = "receive"
    /\ UNCHANGED <<deviceVars, selected, text, produced, reports, bankVars, historyVars>>

HandOver ==
    /\ pc = "hand"
    /\ ClearIN
    /\ pc' = "wait"
    /\ UNCHANGED <<deviceVars, selected, text, produced, reports, out, historyVars>>

\* Mutant: the bank is not waited for.
BankReady_AtOnce ==
    /\ pc = "wait"
    /\ pc' = "write"
    /\ UNCHANGED <<deviceVars, selected, text, produced, reports, bankVars, historyVars>>

\* Endpoint_WaitUntilReady finds the bank empty.  After a bus reset it looks at
\* the control endpoint, which may be ready.
BankReady ==
    /\ pc = "wait" /\ (INReady \/ selected = "control")
    /\ pc' = "write"
    /\ UNCHANGED <<deviceVars, selected, text, produced, reports, bankVars, historyVars>>

\* It ends without the bank when the device is disconnected, or after a hundred
\* frames of a bus that is awake.
Disconnected(label) ==
    /\ pc = label /\ ~INReady /\ USB_DeviceState = "Unattached"
    /\ gaveup' = TRUE
Timeout(label) ==
    /\ pc = label /\ ~INReady /\ USB_DeviceState # "Unattached"
    /\ gaveup' = TRUE

SendFailed ==
    /\ Disconnected("wait") \/ Timeout("wait")
    /\ NextByte
    /\ UNCHANGED <<deviceVars, selected, reports, bankVars, accepted, delivered,
                   last, emptied>>

\* A byte written to a bank that is full, or the host's, is lost; one written
\* after a bus reset goes to the control endpoint.
WriteByte ==
    /\ pc = "write"
    /\ accepted' = Append(accepted, produced + 1)
    /\ bank' = IF selected = "in" /\ Room
               THEN [bank EXCEPT !.bytes = Append(@, produced + 1)] ELSE bank
    /\ NextByte
    /\ UNCHANGED <<deviceVars, selected, reports, out, delivered, last, emptied, gaveup>>

\* Mutants: an empty packet is kept; the packet is not looked at for bytes.
ReceiveByte_KeepsEmpty ==
    /\ pc = "receive"
    /\ IF Open
       THEN /\ selected' = "out"
            /\ out' = IF out > 1 THEN out - 1 ELSE IF out = 1 THEN NoPacket ELSE out
       ELSE UNCHANGED <<selected, out>>
    /\ pc' = "task"
    /\ UNCHANGED <<deviceVars, text, produced, reports, bank, historyVars>>

ReceiveByte_Unchecked ==
    /\ pc = "receive"
    /\ IF Open
       THEN selected' = "out" /\ out' = out - 1
       ELSE UNCHANGED <<selected, out>>
    /\ pc' = "task"
    /\ UNCHANGED <<deviceVars, text, produced, reports, bank, historyVars>>

\* CDC_Device_ReceiveByte: a byte is thrown away, and the bank that is empty
\* then is given back.
ReceiveByte ==
    /\ pc = "receive"
    /\ IF Open
       THEN selected' = "out" /\ out' = IF out > 1 THEN out - 1 ELSE NoPacket
       ELSE UNCHANGED <<selected, out>>
    /\ pc' = "task"
    /\ UNCHANGED <<deviceVars, text, produced, reports, bank, historyVars>>

\* CDC_Device_USBTask, and CDC_Device_Flush when there is something to flush.
USBTask ==
    /\ pc = "task"
    /\ IF Open
       THEN /\ selected' = "in"
            /\ pc' = IF ~bank.mine \/ bank.bytes = <<>> THEN "buttons"
                     ELSE IF Room THEN "flush" ELSE "flush_full"
       ELSE pc' = "buttons" /\ UNCHANGED selected
    /\ UNCHANGED <<deviceVars, text, produced, reports, bankVars, historyVars>>

Flush ==
    /\ pc \in {"flush", "flush_full"}
    /\ ClearIN
    /\ pc' = IF pc = "flush" THEN "buttons" ELSE "flush_wait"
    /\ UNCHANGED <<deviceVars, selected, text, produced, reports, out, historyVars>>

\* Mutant: no packet follows a full one.
FlushEnd_NoPacket ==
    /\ pc = "flush_wait" /\ (INReady \/ selected = "control")
    /\ pc' = "buttons"
    /\ UNCHANGED <<deviceVars, selected, text, produced, reports, bankVars, historyVars>>

\* After a full packet an empty one tells the host that there is no more.
FlushEnd ==
    /\ pc = "flush_wait" /\ (INReady \/ selected = "control")
    /\ ClearIN
    /\ pc' = "buttons"
    /\ UNCHANGED <<deviceVars, selected, text, produced, reports, out, historyVars>>

FlushFailed ==
    /\ Disconnected("flush_wait") \/ Timeout("flush_wait")
    /\ pc' = "buttons"
    /\ UNCHANGED <<deviceVars, selected, text, produced, reports, bankVars, accepted,
                   delivered, last, emptied>>

MainLoop ==
    \/ CheckButtons \/ SendByte \/ SendRefused \/ SendDone \/ HandOver \/ BankReady
    \/ SendFailed \/ WriteByte \/ ReceiveByte \/ USBTask \/ Flush \/ FlushEnd
    \/ FlushFailed
-----------------------------------------------------------------------------
OnItsWay == bank.bytes # <<>> \/ (number /\ ~bank.mine)

\* The interrupts.  A bus reset disables the data endpoints and leaves the
\* control endpoint selected.
Reset ==
    /\ USB_DeviceState' = "Default" /\ number' = FALSE
    /\ selected' = "control"
    /\ bank' = Empty(FALSE) /\ out' = NoPacket
    /\ emptied' = (emptied \/ OnItsWay \/ pc \in {"hand", "wait", "write"})
    /\ last' = 0
    /\ UNCHANGED <<baud, loopVars, accepted, delivered, gaveup>>

Suspend ==
    /\ USB_DeviceState # "Unattached"
    /\ USB_DeviceState' = "Unattached"
    /\ UNCHANGED <<number, baud, selected, loopVars, bankVars, historyVars>>

WakeUp ==
    /\ USB_DeviceState = "Unattached"
    /\ USB_DeviceState' = IF number THEN "Configured" ELSE "Default"
    /\ UNCHANGED <<number, baud, selected, loopVars, bankVars, historyVars>>

\* CDC_Device_ConfigureEndpoints clears the line encoding too.
Configure ==
    /\ USB_DeviceState # "Unattached"
    /\ USB_DeviceState' = "Configured" /\ number' = TRUE /\ baud' = FALSE
    /\ bank' = Empty(TRUE) /\ out' = NoPacket
    /\ emptied' = (emptied \/ OnItsWay)
    /\ last' = 0
    /\ UNCHANGED <<selected, loopVars, accepted, delivered, gaveup>>

\* CDC_REQ_SetLineEncoding.
SetLineEncoding ==
    /\ USB_DeviceState = "Configured"
    /\ baud' \in BOOLEAN
    /\ UNCHANGED <<USB_DeviceState, number, selected, loopVars, bankVars, historyVars>>

\* The host fetches a packet, and sends one.
Awake == USB_DeviceState # "Unattached" /\ number

HostIN ==
    /\ Awake /\ ~bank.mine
    /\ delivered' = delivered \o bank.bytes
    /\ last' = Len(bank.bytes)
    /\ bank' = Empty(TRUE)
    /\ UNCHANGED <<deviceVars, selected, loopVars, out, accepted, emptied, gaveup>>

HostOUT ==
    /\ Awake /\ out = NoPacket
    /\ out' \in 0..EPSize
    /\ UNCHANGED <<deviceVars, selected, loopVars, bank, historyVars>>

Interrupt == Reset \/ Suspend \/ WakeUp \/ Configure \/ SetLineEncoding
Host == HostIN \/ HostOUT

Init ==
    /\ USB_DeviceState = "Unattached" /\ number = FALSE /\ baud = FALSE
    /\ selected = "control"
    /\ pc = "buttons" /\ text = 0 /\ produced = 0 /\ reports = 0
    /\ bank = Empty(FALSE) /\ out = NoPacket
    /\ accepted = <<>> /\ delivered = <<>> /\ last = 0
    /\ emptied = FALSE /\ gaveup = FALSE

Next == MainLoop \/ Interrupt \/ Host
Spec == Init /\ [][Next]_vars

\* The processor runs and the frames of the bus go on, so that no wait lasts for
\* ever; a host that has opened the port reads it.
FairSpec == Spec /\ WF_vars(MainLoop) /\ WF_vars(HostIN)
-----------------------------------------------------------------------------
SerialTypeOK ==
    /\ USB_DeviceState \in {"Unattached", "Default", "Configured"}
    /\ number \in BOOLEAN /\ baud \in BOOLEAN
    /\ selected \in {"in", "out", "control"}
    /\ text \in Nat /\ produced \in Nat /\ reports \in Nat
    /\ bank \in [bytes : Seq(Nat), mine : BOOLEAN]
    /\ out \in Int /\ out >= NoPacket /\ out <= EPSize
    /\ accepted \in Seq(Nat) /\ delivered \in Seq(Nat) /\ last \in Nat
    /\ emptied \in BOOLEAN /\ gaveup \in BOOLEAN

\* Every byte CDC_Device_SendByte accepts reaches the host, once and in order,
\* or is still in the bank: the bank is never written while it is the host's nor
\* beyond its size, whatever the host and the timeouts do.  Only a bus reset or
\* a new configuration throws bytes away.
AcceptedDelivered == ~emptied => accepted = delivered \o bank.bytes

\* The host sees the end of what was sent: after a full packet there is another
\* one, unless the device has given up waiting for the bank.
TransferEnded ==
    last = EPSize ~> last # EPSize \/ gaveup \/ ~Open

\* What the host sends is thrown away, so that it can send more ("Must throw
\* away unused bytes from the host, or it will lock up", VirtualSerial.c:56).
HostBytesTaken == out # NoPacket ~> out = NoPacket \/ ~Open
=============================================================================
