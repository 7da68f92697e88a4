------------------------ MODULE VirtualSerial_proofs ------------------------
(***************************************************************************)
(* Theorems about the virtual serial port, for every size of a packet,      *)
(* every length and number of reports: no byte that was accepted is lost,    *)
(* doubled or reordered, whatever the host and the bus do.                   *)
(***************************************************************************)
EXTENDS VirtualSerial, SequenceTheorems, TLAPS

\* Between the choice of the IN endpoint and the write, the endpoint stays
\* selected unless a bus reset falls in between; a bank that was waited for is
\* empty, and one that is written has room.
SendInv ==
    /\ pc \in {"hand", "wait", "write"} => text > 0
    /\ (~emptied /\ pc \in {"hand", "wait", "write"}) => selected = "in"
    /\ (~emptied /\ pc = "wait" /\ bank.mine) => bank.bytes = <<>>
    /\ (~emptied /\ pc = "write") => Room

SerialInv == SerialTypeOK /\ SendInv /\ AcceptedDelivered
-----------------------------------------------------------------------------
LEMMA EmptyFacts ==
    ASSUME NEW m \in BOOLEAN
    PROVE  /\ Empty(m) \in [bytes : Seq(Nat), mine : BOOLEAN]
           /\ Empty(m).bytes = <<>> /\ Empty(m).mine = m
BY DEF Empty

LEMMA BankFacts ==
    ASSUME SerialTypeOK
    PROVE  bank.bytes \in Seq(Nat) /\ bank.mine \in BOOLEAN
BY DEF SerialTypeOK

\* The parts of the program that write no byte to the bank.
LEMMA LoopTypes ==
    ASSUME SerialTypeOK, SendInv,
           \/ CheckButtons \/ SendByte \/ SendRefused \/ SendDone \/ HandOver
           \/ BankReady \/ SendFailed \/ ReceiveByte \/ USBTask \/ Flush \/ FlushEnd
           \/ FlushFailed
    PROVE  SerialTypeOK'
<1>1. CASE CheckButtons
  BY <1>1, SizeAssumption DEF CheckButtons, SerialTypeOK, deviceVars, bankVars, historyVars
<1>2. CASE SendByte \/ SendDone \/ BankReady
  BY <1>2 DEF SendByte, SendDone, BankReady, SerialTypeOK, deviceVars, bankVars,
     historyVars
<1>3. CASE SendRefused
  BY <1>3 DEF SendRefused, NextByte, SerialTypeOK, deviceVars, bankVars, historyVars
<1>4. CASE SendFailed
  <2>1. pc = "wait" /\ gaveup' = TRUE
    BY <1>4 DEF SendFailed, Disconnected, Timeout
  <2>2. text > 0
    BY <2>1 DEF SendInv
  <2> QED
    BY <1>4, <2>1, <2>2 DEF SendFailed, NextByte, SerialTypeOK, deviceVars, bankVars
<1>5. CASE FlushFailed
  BY <1>5 DEF FlushFailed, Disconnected, Timeout, SerialTypeOK, deviceVars, bankVars
<1>6. CASE HandOver \/ Flush \/ FlushEnd
  <2>1. bank' = [bank EXCEPT !.mine = FALSE] \/ bank' = bank
    BY <1>6 DEF HandOver, Flush, FlushEnd, ClearIN
  <2>2. bank' \in [bytes : Seq(Nat), mine : BOOLEAN]
    BY <2>1 DEF SerialTypeOK
  <2> QED
    BY <1>6, <2>2 DEF HandOver, Flush, FlushEnd, SerialTypeOK, deviceVars, historyVars
<1>7. CASE ReceiveByte
  <2>1. out' \in Int /\ out' >= NoPacket /\ out' <= EPSize
    BY <1>7, SizeAssumption DEF ReceiveByte, SerialTypeOK, NoPacket
  <2>2. selected' \in {"in", "out", "control"}
    BY <1>7 DEF ReceiveByte, SerialTypeOK
  <2> QED
    BY <1>7, <2>1, <2>2 DEF ReceiveByte, SerialTypeOK, deviceVars, historyVars
<1>8. CASE USBTask
  BY <1>8 DEF USBTask, SerialTypeOK, deviceVars, bankVars, historyVars
<1> QED
  BY <1>1, <1>2, <1>3, <1>4, <1>5, <1>6, <1>7, <1>8

LEMMA WriteTypes ==
    ASSUME SerialTypeOK, SendInv, WriteByte
    PROVE  SerialTypeOK'
<1>1. pc = "write" /\ text > 0 /\ produced + 1 \in Nat
  BY DEF WriteByte, SendInv, SerialTypeOK
<1>2. Append(bank.bytes, produced + 1) \in Seq(Nat)
      /\ Append(accepted, produced + 1) \in Seq(Nat)
  BY <1>1, BankFacts, AppendProperties DEF SerialTypeOK
<1>3. bank' = [bank EXCEPT !.bytes = Append(bank.bytes, produced + 1)] \/ bank' = bank
  BY DEF WriteByte
<1>4. bank' \in [bytes : Seq(Nat), mine : BOOLEAN]
  BY <1>2, <1>3 DEF SerialTypeOK
<1>5. accepted' \in Seq(Nat)
  BY <1>2 DEF WriteByte
<1>6. text' \in Nat /\ produced' \in Nat
  BY <1>1 DEF WriteByte, NextByte, SerialTypeOK
<1> QED
  BY <1>4, <1>5, <1>6 DEF WriteByte, SerialTypeOK, deviceVars

LEMMA BusTypes ==
    ASSUME SerialTypeOK, Interrupt \/ Host
    PROVE  SerialTypeOK'
<1>1. CASE Reset
  <2>1. /\ USB_DeviceState' = "Default" /\ selected' = "control"
        /\ bank' = Empty(FALSE) /\ out' = NoPacket /\ last' = 0
        /\ UNCHANGED <<baud, text, produced, reports, accepted, delivered, gaveup>>
    BY <1>1 DEF Reset, loopVars
  <2>2. emptied' \in BOOLEAN /\ number' \in BOOLEAN
    BY <1>1, Zenon DEF Reset
  <2>3. out' \in Int /\ out' >= NoPacket /\ out' <= EPSize
    BY <2>1, SizeAssumption DEF NoPacket
  <2>4. Empty(FALSE) \in [bytes : Seq(Nat), mine : BOOLEAN]
    BY EmptyFacts
  <2> QED
    BY <2>1, <2>2, <2>3, <2>4 DEF SerialTypeOK
<1>2. CASE Configure
  <2>1. /\ USB_DeviceState' = "Configured"
        /\ bank' = Empty(TRUE) /\ out' = NoPacket /\ last' = 0
        /\ UNCHANGED <<selected, text, produced, reports, accepted, delivered, gaveup>>
    BY <1>2 DEF Configure, loopVars
  <2>2. emptied' \in BOOLEAN /\ number' \in BOOLEAN /\ baud' \in BOOLEAN
    BY <1>2, Zenon DEF Configure
  <2>3. out' \in Int /\ out' >= NoPacket /\ out' <= EPSize
    BY <2>1, SizeAssumption DEF NoPacket
  <2>4. Empty(TRUE) \in [bytes : Seq(Nat), mine : BOOLEAN]
    BY EmptyFacts
  <2> QED
    BY <2>1, <2>2, <2>3, <2>4 DEF SerialTypeOK
<1>3. CASE Suspend \/ WakeUp \/ SetLineEncoding
  BY <1>3 DEF Suspend, WakeUp, SetLineEncoding, SerialTypeOK, loopVars, bankVars,
     historyVars
<1>4. CASE HostIN
  <2>1. delivered \o bank.bytes \in Seq(Nat) /\ Len(bank.bytes) \in Nat
    BY BankFacts, ConcatProperties DEF SerialTypeOK
  <2> QED
    BY <1>4, <2>1, EmptyFacts DEF HostIN, SerialTypeOK, deviceVars, loopVars
<1>5. CASE HostOUT
  <2>1. out' \in Int /\ out' >= NoPacket /\ out' <= EPSize
    BY <1>5, SizeAssumption DEF HostOUT, NoPacket
  <2> QED
    BY <1>5, <2>1 DEF HostOUT, SerialTypeOK, deviceVars, loopVars, historyVars
<1> QED
  BY <1>1, <1>2, <1>3, <1>4, <1>5 DEF Interrupt, Host
-----------------------------------------------------------------------------
\* While the program has no business with the bank, and while it only looks
\* at it, nothing changes that the invariant speaks of.
LEMMA QuietSteps ==
    ASSUME SerialTypeOK, SendInv, AcceptedDelivered,
           \/ CheckButtons \/ SendRefused \/ SendDone \/ SendFailed \/ ReceiveByte
           \/ USBTask \/ FlushFailed
    PROVE  SendInv' /\ AcceptedDelivered'
<1>1. pc' \notin {"hand", "wait", "write"}
  BY DEF CheckButtons, SendRefused, SendDone, SendFailed, ReceiveByte, USBTask,
     FlushFailed, NextByte
<1>2. UNCHANGED <<bank, accepted, delivered, emptied>>
  BY DEF CheckButtons, SendRefused, SendDone, SendFailed, ReceiveByte, USBTask,
     FlushFailed, bankVars, historyVars
<1> QED
  BY <1>1, <1>2 DEF SendInv, AcceptedDelivered

\* The choice of the endpoint, and the bank found empty.
LEMMA BankChosen ==
    ASSUME SerialTypeOK, SendInv, AcceptedDelivered, SendByte \/ BankReady
    PROVE  SendInv' /\ AcceptedDelivered'
<1>1. UNCHANGED <<bank, accepted, delivered, emptied, text>>
  BY DEF SendByte, BankReady, bankVars, historyVars
<1>2. AcceptedDelivered'
  BY <1>1 DEF AcceptedDelivered
<1>3. CASE SendByte
  <2>1. text > 0 /\ selected' = "in" /\ pc' = IF Room THEN "write" ELSE "hand"
    BY <1>3 DEF SendByte
  <2>2. Room' <=> Room
    BY <1>1 DEF Room
  <2> QED
    BY <1>1, <1>2, <2>1, <2>2 DEF SendInv
<1>4. CASE BankReady
  <2>1. pc = "wait" /\ pc' = "write" /\ selected' = selected /\ text > 0
    BY <1>4 DEF BankReady, SendInv
  <2>2. ~emptied => Room
    <3>1. SUFFICES ASSUME ~emptied PROVE Room
      OBVIOUS
    <3>2. selected = "in"
      BY <2>1, <3>1 DEF SendInv
    <3>3. bank.mine
      BY <1>4, <3>2 DEF BankReady, INReady
    <3>4. bank.bytes = <<>>
      BY <2>1, <3>1, <3>3 DEF SendInv
    <3> QED
      BY <3>3, <3>4, SizeAssumption DEF Room
  <2>3. Room' <=> Room
    BY <1>1 DEF Room
  <2> QED
    BY <1>1, <1>2, <2>1, <2>2, <2>3 DEF SendInv
<1> QED
  BY <1>3, <1>4

\* A bank handed over keeps its bytes until the host takes them.
LEMMA BankHandedOver ==
    ASSUME SerialTypeOK, SendInv, AcceptedDelivered, HandOver \/ Flush \/ FlushEnd
    PROVE  SendInv' /\ AcceptedDelivered'
<1>1. UNCHANGED <<accepted, delivered, emptied, text, selected>> /\ ClearIN
  BY DEF HandOver, Flush, FlushEnd, historyVars
<1>2. bank'.bytes = bank.bytes /\ (selected = "in" => bank'.mine = FALSE)
  BY <1>1 DEF ClearIN, SerialTypeOK
<1>3. AcceptedDelivered'
  BY <1>1, <1>2 DEF AcceptedDelivered
<1>4. CASE HandOver
  <2>1. pc = "hand" /\ pc' = "wait"
    BY <1>4 DEF HandOver
  <2> QED
    BY <1>1, <1>2, <1>3, <2>1 DEF SendInv
<1>5. CASE Flush \/ FlushEnd
  <2>1. pc' \in {"buttons", "flush_wait"}
    BY <1>5 DEF Flush, FlushEnd
  <2> QED
    BY <1>3, <2>1 DEF SendInv
<1> QED
  BY <1>4, <1>5

LEMMA Associative ==
    \A r, t, u \in Seq(Nat) : (r \o t) \o u = r \o (t \o u)
BY ConcatAssociative

\* A byte is written behind the bytes that wait for the host.
LEMMA ByteWritten ==
    ASSUME SerialTypeOK, SendInv, AcceptedDelivered, WriteByte
    PROVE  SendInv' /\ AcceptedDelivered'
<1>1. pc = "write" /\ pc' = "send" /\ emptied' = emptied /\ delivered' = delivered
      /\ accepted' = Append(accepted, produced + 1) /\ produced + 1 \in Nat
  BY DEF WriteByte, NextByte, SerialTypeOK
<1>2. SendInv'
  BY <1>1 DEF SendInv
<1>3. ASSUME ~emptied PROVE accepted' = delivered \o bank'.bytes
  <2>1. selected = "in" /\ Room /\ accepted = delivered \o bank.bytes
    BY <1>1, <1>3 DEF SendInv, AcceptedDelivered
  <2>2. bank'.bytes = Append(bank.bytes, produced + 1)
    BY <2>1 DEF WriteByte, SerialTypeOK
  <2>3. /\ delivered \in Seq(Nat) /\ bank.bytes \in Seq(Nat)
        /\ accepted \in Seq(Nat) /\ <<produced + 1>> \in Seq(Nat)
    BY <1>1, BankFacts DEF SerialTypeOK
  <2>4. /\ Append(bank.bytes, produced + 1) = bank.bytes \o <<produced + 1>>
        /\ Append(accepted, produced + 1) = accepted \o <<produced + 1>>
    BY <1>1, <2>3, AppendIsConcat
  <2>5. (delivered \o bank.bytes) \o <<produced + 1>>
          = delivered \o (bank.bytes \o <<produced + 1>>)
    BY <2>3, Associative, Zenon
  <2> QED
    BY <1>1, <2>1, <2>2, <2>4, <2>5
<1> QED
  BY <1>1, <1>2, <1>3 DEF AcceptedDelivered

\* The bus, the control requests and the host.
LEMMA BusKeeps ==
    ASSUME SerialTypeOK, SendInv, AcceptedDelivered,
           Suspend \/ WakeUp \/ SetLineEncoding \/ HostOUT
    PROVE  SendInv' /\ AcceptedDelivered'
<1>1. UNCHANGED <<pc, text, selected, bank, accepted, delivered, emptied>>
  BY DEF Suspend, WakeUp, SetLineEncoding, HostOUT, loopVars, bankVars, historyVars
<1> QED
  BY <1>1 DEF SendInv, AcceptedDelivered, Room

\* A bus reset empties the bank: what was in it, or on its way to it, is lost.
LEMMA ResetKeeps ==
    ASSUME SerialTypeOK, SendInv, AcceptedDelivered, Reset
    PROVE  SendInv' /\ AcceptedDelivered'
<1>1. /\ UNCHANGED <<pc, text, accepted, delivered>>
      /\ bank' = Empty(FALSE)
  BY DEF Reset, loopVars
<1>2. bank'.bytes = <<>>
  BY <1>1, EmptyFacts
<1>3. ~emptied' => ~emptied /\ bank.bytes = <<>> /\ pc \notin {"hand", "wait", "write"}
  BY DEF Reset, OnItsWay
<1> QED
  BY <1>1, <1>2, <1>3 DEF SendInv, AcceptedDelivered

LEMMA ConfigureKeeps ==
    ASSUME SerialTypeOK, SendInv, AcceptedDelivered, Configure
    PROVE  SendInv' /\ AcceptedDelivered'
<1>1. /\ UNCHANGED <<pc, text, selected, accepted, delivered>>
      /\ bank' = Empty(TRUE)
  BY DEF Configure, loopVars
<1>2. bank'.bytes = <<>> /\ bank'.mine
  BY <1>1, EmptyFacts
<1>3. ~emptied' => ~emptied /\ bank.bytes = <<>>
  BY DEF Configure, OnItsWay
<1>4. Room'
  BY <1>2, SizeAssumption DEF Room
<1> QED
  BY <1>1, <1>2, <1>3, <1>4 DEF SendInv, AcceptedDelivered

\* The host takes the bytes of the bank, in the order they were written.
LEMMA FetchKeeps ==
    ASSUME SerialTypeOK, SendInv, AcceptedDelivered, HostIN
    PROVE  SendInv' /\ AcceptedDelivered'
<1>1. /\ UNCHANGED <<pc, text, selected, accepted, emptied>>
      /\ ~bank.mine /\ bank' = Empty(TRUE) /\ delivered' = delivered \o bank.bytes
  BY DEF HostIN, loopVars
<1>2. bank'.bytes = <<>> /\ bank'.mine
  BY <1>1, EmptyFacts
<1>3. Room'
  BY <1>2, SizeAssumption DEF Room
<1>4. SendInv'
  BY <1>1, <1>2, <1>3 DEF SendInv
<1>5. delivered' \in Seq(Nat)
  BY <1>1, BankFacts, ConcatProperties DEF SerialTypeOK
<1>6. delivered' \o <<>> = delivered'
  BY <1>5, ConcatEmptySeq
<1> QED
  BY <1>1, <1>2, <1>4, <1>6 DEF AcceptedDelivered
-----------------------------------------------------------------------------
LEMMA SerialInvInit == Init => SerialInv
<1>1. SUFFICES ASSUME Init PROVE SerialInv
  OBVIOUS
<1>2. bank \in [bytes : Seq(Nat), mine : BOOLEAN] /\ bank.bytes = <<>>
  BY <1>1, EmptyFacts DEF Init
<1>3. <<>> \in Seq(Nat) /\ <<>> \o <<>> = <<>>
  <2>1. <<>> \in Seq(Nat)
    OBVIOUS
  <2> QED  BY <2>1, ConcatEmptySeq
<1>4. SerialTypeOK
  <2>1. /\ USB_DeviceState = "Unattached" /\ selected = "control" /\ out = NoPacket
        /\ text = 0 /\ produced = 0 /\ reports = 0 /\ last = 0
        /\ accepted = <<>> /\ delivered = <<>>
    BY <1>1 DEF Init
  <2>2. /\ number \in BOOLEAN /\ baud \in BOOLEAN
        /\ emptied \in BOOLEAN /\ gaveup \in BOOLEAN
    BY <1>1, Zenon DEF Init
  <2>3. out \in Int /\ out >= NoPacket /\ out <= EPSize
    BY <2>1, SizeAssumption DEF NoPacket
  <2> QED
    BY <1>2, <1>3, <2>1, <2>2, <2>3 DEF SerialTypeOK
<1>5. SendInv
  BY <1>1 DEF Init, SendInv
<1>6. AcceptedDelivered
  BY <1>1, <1>2, <1>3 DEF Init, AcceptedDelivered
<1> QED
  BY <1>4, <1>5, <1>6 DEF SerialInv

LEMMA SerialInvKept == SerialInv /\ [Next]_vars => SerialInv'
<1>1. SUFFICES ASSUME SerialTypeOK, SendInv, AcceptedDelivered, [Next]_vars
               PROVE  SerialTypeOK' /\ SendInv' /\ AcceptedDelivered'
  BY DEF SerialInv
<1>2. CASE MainLoop
  BY <1>1, <1>2, LoopTypes, WriteTypes, QuietSteps, BankChosen, BankHandedOver, ByteWritten
     DEF MainLoop
<1>3. CASE Interrupt \/ Host
  BY <1>1, <1>3, BusTypes, BusKeeps, ResetKeeps, ConfigureKeeps, FetchKeeps
     DEF Interrupt, Host
<1>4. CASE UNCHANGED vars
  BY <1>1, <1>4 DEF vars, deviceVars, loopVars, bankVars, historyVars, SerialTypeOK, SendInv,
     AcceptedDelivered, Room
<1> QED
  BY <1>1, <1>2, <1>3, <1>4 DEF Next

\* The inductive invariant holds whatever the host, the bus and the timeouts of
\* Endpoint_WaitUntilReady do.
THEOREM SerialInvariant == Spec => []SerialInv
  BY SerialInvInit, SerialInvKept, PTL DEF Spec

\* The variables of VirtualSerial.c and its class driver keep their types.
THEOREM SerialTypeCorrect == Spec => []SerialTypeOK
<1>1. SerialInv => SerialTypeOK
  BY DEF SerialInv
<1> QED
  BY <1>1, SerialInvariant, PTL

\* Until a bus reset or a configuration throws a bank away, the bytes that
\* CDC_Device_SendByte has accepted are those the host has, followed by those in
\* the bank: none lost, doubled or overtaken.
THEOREM BytesDelivered == Spec => []AcceptedDelivered
<1>1. SerialInv => AcceptedDelivered
  BY DEF SerialInv
<1> QED
  BY <1>1, SerialInvariant, PTL
=============================================================================
