-------------------------- MODULE LiveMode_proofs --------------------------
(***************************************************************************)
(* Theorems about the live mode, for every target, every state of the       *)
(* buttons, and every command and answer another program may have left     *)
(* behind: the LEDs follow the keys, and only buttons are displayed.        *)
(***************************************************************************)
EXTENDS LiveMode, Firmware_proofs, SequenceTheorems

\* The states a transfer reported as sent are in the bank, or on the LEDs: a command
\* another program left in the bank has been taken before.
AgreeInv ==
    (r = "ok" /\ lpc # "send") =>
        \/ outBank = <<>> /\ 32 * leds = data_out
        \/ outBank = << <<data_out>> >>

\* A packet of one byte is a state of the buttons: an answer has three or eight.
ButtonsInv ==
    /\ inBank # <<>> => (Len(inBank[1]) = 1 => inBank[1][1] \in Buttons)
    /\ last_data_in \in Buttons \cup {255}

LiveInv ==
    /\ FirmwareInv /\ AgreeInv /\ ButtonsInv
    /\ data_out \in LedValues /\ USB_Device_ConfigurationNumber = 1
-----------------------------------------------------------------------------
LEMMA LedFacts ==
    ASSUME NEW v \in LedValues
    PROVE  v \notin {1, 2, 3, 4} /\ 32 * (v \div 32) = v /\ v \in Byte
<1>1. PICK k \in 0..7 : v = 32 * k
  BY DEF LedValues
<1> QED
  BY <1>1 DEF Byte

\* A key switches one of the three LEDs.
LEMMA ToggledType ==
    ASSUME NEW v \in LedValues, NEW bit \in {32, 64, 128}
    PROVE  Toggled(v, bit) \in LedValues
<1>1. PICK k \in 0..7 : v = 32 * k
  BY DEF LedValues
<1>2. /\ bit = 32 => (v \div bit) % 2 = k % 2
      /\ bit = 64 => (v \div bit) % 2 = (k \div 2) % 2
      /\ bit = 128 => (v \div bit) % 2 = (k \div 4) % 2
  BY <1>1
<1>3. \E j \in 0..7 : Toggled(v, bit) = 32 * j
  <2>1. k \in {0, 1, 2, 3, 4, 5, 6, 7}
    OBVIOUS
  <2> QED
    BY <1>1, <1>2, <2>1 DEF Toggled
<1> QED
  BY <1>3 DEF LedValues

\* An LED packet is a packet a host may send.
LEMMA LedRequest ==
    ASSUME NEW v \in LedValues
    PROVE  IsRequest(<<v>>) /\ Len(<<v>>) = 1 /\ <<v>>[1] = v
BY LedFacts DEF IsRequest
-----------------------------------------------------------------------------
\* ProcessOUT takes the LED packet, and the LEDs are what it says; a command it
\* drives the target for is not one of the program's.
LEMMA OutKeeps ==
    ASSUME LiveInv, UNCHANGED liveVars,
           MainLoop \/ ProcessOUTNothing \/ ProcessOUTCommand \/ ProcessOUTSession
           \/ SpiOut \/ ProcessOUTEnd
    PROVE  AgreeInv' /\ ButtonsInv'
<1>1. UNCHANGED <<lpc, r, data_out, last_data_in, inBank>>
  BY DEF liveVars, MainLoop, ProcessOUTNothing, ProcessOUTCommand, ProcessOUTSession,
     SpiOut, ProcessOUTEnd
<1>2. ButtonsInv'
  BY <1>1 DEF LiveInv, ButtonsInv
<1>3. CASE MainLoop \/ ProcessOUTSession \/ SpiOut
  <2>1. UNCHANGED <<outBank, leds>>
    BY <1>3 DEF MainLoop, ProcessOUTSession, SpiOut
  <2> QED
    BY <1>1, <1>2, <2>1 DEF LiveInv, AgreeInv
<1>4. CASE ProcessOUTNothing
  <2>1. outBank # << <<data_out>> >>
    BY <1>4 DEF ProcessOUTNothing
  <2>2. outBank' = <<>> /\ UNCHANGED leds
    BY <1>4 DEF ProcessOUTNothing
  <2> QED
    BY <1>1, <1>2, <2>1, <2>2 DEF LiveInv, AgreeInv
<1>5. CASE ProcessOUTCommand
  <2>1. outBank # <<>> /\ outBank' = <<>>
    BY <1>5 DEF ProcessOUTCommand
  <2>2. outBank = << <<data_out>> >> => 32 * leds' = data_out
    <3> HAVE outBank = << <<data_out>> >>
    <3>1. packet[1] = data_out /\ data_out \in LedValues
      BY DEF packet, LiveInv
    <3> QED
      BY <1>5, <3>1, LedFacts DEF ProcessOUTCommand
  <2> QED
    BY <1>1, <1>2, <2>1, <2>2 DEF LiveInv, AgreeInv
<1>6. CASE ProcessOUTEnd
  <2>1. outBank # <<>> /\ packet[1] \in {3, 4}
    BY <1>6 DEF ProcessOUTEnd, LiveInv, FirmwareInv, OutSessionInv
  <2>2. outBank # << <<data_out>> >>
    <3>1. outBank = << <<data_out>> >> => packet[1] = data_out
      BY DEF packet
    <3>2. data_out \notin {3, 4}
      BY LedFacts DEF LiveInv
    <3> QED
      BY <2>1, <3>1, <3>2
  <2>3. ~(r = "ok" /\ lpc # "send")
    BY <2>1, <2>2 DEF LiveInv, AgreeInv
  <2> QED
    BY <1>1, <1>2, <2>3 DEF AgreeInv
<1> QED
  BY <1>3, <1>4, <1>5, <1>6

\* An answer has three or eight bytes when its session is over.
LEMMA AnswerLength ==
    ASSUME FirmwareInv, ProcessINEnd
    PROVE  inBank' = <<fifo>> /\ Len(fifo) \in {3, 8}
<1> USE DEF FirmwareInv, ProcessINEnd
<1>1. CASE commande_PC = 1
  <2>1. Len(Session) = 4
    BY <1>1 DEF Session, IdSession
  <2> QED
    BY <1>1, <2>1 DEF SessionOver, InSessionInv
<1>2. CASE commande_PC = 2
  <2>1. Len(Session) = 9
    BY <1>2 DEF Session, ReadSession
  <2> QED
    BY <1>2, <2>1 DEF SessionOver, InSessionInv
<1> QED
  BY <1>1, <1>2 DEF InSessionInv

\* ProcessIN sends the buttons, or an answer that nobody takes for buttons.
LEMMA InKeeps ==
    ASSUME LiveInv, UNCHANGED liveVars,
           ProcessINBusy \/ ProcessINButtons \/ ProcessINSession \/ SpiIn \/ ProcessINEnd
    PROVE  AgreeInv' /\ ButtonsInv'
<1>1. UNCHANGED <<lpc, r, data_out, last_data_in, outBank, leds>>
  BY DEF liveVars, ProcessINBusy, ProcessINButtons, ProcessINSession, SpiIn, ProcessINEnd
<1>2. AgreeInv'
  BY <1>1 DEF LiveInv, AgreeInv
<1>3. CASE ProcessINBusy \/ ProcessINSession \/ SpiIn
  <2>1. inBank' = inBank
    BY <1>3 DEF ProcessINBusy, ProcessINSession, SpiIn
  <2> QED
    BY <1>1, <1>2, <2>1 DEF LiveInv, ButtonsInv
<1>4. CASE ProcessINButtons
  <2>1. PICK b \in Buttons : inBank' = << <<b>> >>
    BY <1>4 DEF ProcessINButtons
  <2> QED
    BY <1>1, <1>2, <2>1 DEF LiveInv, ButtonsInv
<1>5. CASE ProcessINEnd
  <2>1. FirmwareInv
    BY DEF LiveInv
  <2>2. inBank' = <<fifo>> /\ Len(fifo) \in {3, 8}
    BY <1>5, <2>1, AnswerLength
  <2>3. Len(inBank'[1]) # 1
    BY <2>2
  <2> QED
    BY <1>1, <1>2, <2>3 DEF LiveInv, ButtonsInv
<1> QED
  BY <1>3, <1>4, <1>5

\* The bus moves no packet of a configured device.
LEMMA BusKeepsLive ==
    ASSUME LiveInv, UNCHANGED liveVars, Bus
    PROVE  AgreeInv' /\ ButtonsInv' /\ USB_Device_ConfigurationNumber' = 1
BY DEF LiveInv, AgreeInv, ButtonsInv, packet, liveVars, Bus,
   ConfigurationChanged, Suspend, WakeUp, mainVars

\* The main loop does not touch what the host has configured.
LEMMA MainConfigured ==
    ASSUME Main
    PROVE  UNCHANGED USB_Device_ConfigurationNumber
BY DEF Main, MainLoop, ProcessOUTNothing, ProcessOUTCommand, ProcessOUTSession, SpiOut,
   ProcessOUTEnd, ProcessINBusy, ProcessINButtons, ProcessINSession, SpiIn,
   ProcessINEnd, usbVars
-----------------------------------------------------------------------------
\* The steps of the program that move no packet.
LEMMA QuietKeepsLive ==
    ASSUME LiveInv,
           \/ InitUsb \/ Claim \/ NoKey \/ QuitKey \/ Close
           \/ \E bit \in {32, 64, 128} : LedKey(bit)
    PROVE  LiveInv'
<1>1. UNCHANGED firmwareVars /\ UNCHANGED <<r, last_data_in>>
  BY DEF InitUsb, Claim, NoKey, QuitKey, Close, LedKey
<1>2. FirmwareInv'
  BY <1>1, StutterInv DEF LiveInv
<1>3. UNCHANGED <<outBank, inBank, pc, leds, USB_Device_ConfigurationNumber>>
  BY <1>1 DEF firmwareVars, mainVars, usbVars
<1>4. ButtonsInv'
  BY <1>1, <1>3 DEF LiveInv, ButtonsInv, packet
<1>5. CASE InitUsb \/ Claim \/ NoKey \/ QuitKey \/ Close
  <2>1. UNCHANGED data_out /\ lpc # "send"
    BY <1>5 DEF InitUsb, Claim, NoKey, QuitKey, Close
  <2> QED
    BY <1>1, <1>2, <1>3, <1>4, <2>1 DEF LiveInv, AgreeInv
<1>6. CASE \E bit \in {32, 64, 128} : LedKey(bit)
  <2>1. lpc' = "send" /\ data_out' \in LedValues
    BY <1>6, ToggledType DEF LedKey, LiveInv
  <2> QED
    BY <1>2, <1>3, <1>4, <2>1 DEF LiveInv, AgreeInv
<1> QED
  BY <1>5, <1>6

\* A packet with the states of the moment, sent, lost, or sent and reported lost.
LEMMA SendLedsKeeps ==
    ASSUME LiveInv, SendLeds
    PROVE  LiveInv'
<1>1. UNCHANGED <<data_out, last_data_in>> /\ data_out \in LedValues
  BY DEF SendLeds, LiveInv
<1>2. CASE TransferOUT(<<data_out>>)
  <2>1. FirmwareInv'
    BY <1>1, <1>2, LedRequest, TransferOUTInv DEF LiveInv
  <2>2. /\ outBank' = << <<data_out>> >>
        /\ UNCHANGED <<inBank, pc, leds, USB_Device_ConfigurationNumber>>
    BY <1>2 DEF TransferOUT, mainVars, usbVars
  <2> QED
    BY <1>1, <2>1, <2>2 DEF LiveInv, AgreeInv, ButtonsInv, packet
<1>3. CASE UNCHANGED firmwareVars /\ r' = "error"
  <2>1. FirmwareInv'
    BY <1>3, StutterInv DEF LiveInv
  <2>2. UNCHANGED <<outBank, inBank, pc, leds, USB_Device_ConfigurationNumber>>
    BY <1>3 DEF firmwareVars, mainVars, usbVars
  <2> QED
    BY <1>1, <1>3, <2>1, <2>2 DEF LiveInv, AgreeInv, ButtonsInv, packet
<1> QED
  BY <1>2, <1>3 DEF SendLeds

\* A packet of one byte is displayed, and it is a state of the buttons.
LEMMA LookKeeps ==
    ASSUME LiveInv, LookAtButtons
    PROVE  LiveInv'
<1>1. UNCHANGED <<data_out, r>> /\ lpc # "send" /\ lpc' # "send"
  BY DEF LookAtButtons
<1>2. CASE TransferIN
  <2>1. FirmwareInv'
    BY <1>2, TransferINInv DEF LiveInv
  <2>2. /\ inBank # <<>> /\ inBank' = <<>>
        /\ UNCHANGED <<outBank, pc, leds, USB_Device_ConfigurationNumber>>
    BY <1>2 DEF TransferIN, mainVars, usbVars
  <2>3. last_data_in' \in Buttons \cup {255}
    BY <2>2 DEF LookAtButtons, LiveInv, ButtonsInv, IsButtons, firmwareVars
  <2> QED
    BY <1>1, <2>1, <2>2, <2>3 DEF LiveInv, AgreeInv, ButtonsInv, packet
<1>3. CASE UNCHANGED <<firmwareVars, last_data_in>>
  <2>1. FirmwareInv'
    BY <1>3, StutterInv DEF LiveInv
  <2>2. UNCHANGED <<outBank, inBank, pc, leds, USB_Device_ConfigurationNumber>>
    BY <1>3 DEF firmwareVars, mainVars, usbVars
  <2> QED
    BY <1>1, <1>3, <2>1, <2>2 DEF LiveInv, AgreeInv, ButtonsInv, packet
<1> QED
  BY <1>2, <1>3 DEF LookAtButtons
-----------------------------------------------------------------------------
LEMMA LiveInvInit == Init => LiveInv
<1> SUFFICES ASSUME Init PROVE LiveInv
  OBVIOUS
<1>1. PICK f \in InitialFlashes :
          /\ chip = [enabled |-> FALSE, latch |-> ErasedWord, flash |-> f]
          /\ inBank \in Unfetched(f)
  BY DEF Init
<1>2. chip \in Chip /\ ~chip.enabled /\ chip.latch = ErasedWord
  BY <1>1, InitialFlashesAssumption DEF Chip, ErasedWord, ErasedByte, WordValue, Byte
<1>3. /\ flash_address \in Word
      /\ commande_PC = 2 => flash_address \in BlockAddress
      /\ commande_PC \in LedValues \cup {1, 2, 3, 4}
      /\ leds \in 0..7
  <2>1. leds \in 0..7 /\ flash_address \in Word
    BY LeftAssumption DEF Init
  <2>2. 32 * leds \in LedValues /\ 0 \in LedValues
    BY <2>1 DEF LedValues
  <2> QED
    BY <2>1, <2>2 DEF Init
<1>4. ASSUME NEW a \in BlockAddress
      PROVE  Block(f, a) \in Seq(Byte) /\ Len(Block(f, a)) = 8
  <2>1. f \in [Word -> WordValue]
    BY InitialFlashesAssumption
  <2>2. \A k \in 1..8 : Block(f, a)[k] \in Byte
    BY <2>1, BlockType
  <2>3. Block(f, a) \in [1..8 -> Byte]
    BY <2>2 DEF Block
  <2> HIDE DEF Block
  <2>4. \A b \in [1..8 -> Byte] : b \in Seq(Byte) /\ Len(b) = 8
    <3> SUFFICES ASSUME NEW b \in [1..8 -> Byte] PROVE b \in Seq(Byte) /\ Len(b) = 8
      OBVIOUS
    <3>1. b \in Seq(Byte)
      BY SeqDef, 8 \in Nat
    <3> QED
      BY <3>1, LenProperties
  <2> QED
    BY <2>3, <2>4, Zenon
<1>5. Signature \in Seq(Byte) /\ Len(Signature) = 3
  BY SignatureAssumption
<1>6. /\ inBank = <<>> \/ (/\ inBank = <<inBank[1]>>
                           /\ inBank[1] \in Seq(Byte) /\ Len(inBank[1]) \in {1, 3, 8})
      /\ inBank # <<>> => (Len(inBank[1]) = 1 => inBank[1][1] \in Buttons)
  <2>1. CASE inBank = <<>>
    BY <2>1
  <2>2. CASE inBank = <<Signature>>
    BY <1>5, <2>2
  <2>3. CASE \E a \in BlockAddress : inBank = <<Block(f, a)>>
    <3>1. PICK a \in BlockAddress : inBank = <<Block(f, a)>>
      BY <2>3
    <3>2. inBank[1] = Block(f, a) /\ inBank = <<inBank[1]>>
      BY <3>1
    <3>3. inBank[1] \in Seq(Byte) /\ Len(inBank[1]) = 8
      BY <1>4, <3>2, Zenon
    <3> QED
      BY <3>2, <3>3
  <2>4. CASE \E b \in Buttons : inBank = << <<b>> >>
    <3>1. PICK b \in Buttons : inBank = << <<b>> >>
      BY <2>4
    <3>2. b \in Byte
      BY ButtonsAssumption DEF Byte
    <3> QED
      BY <3>1, <3>2
  <2> QED
    BY <1>1, <2>1, <2>2, <2>3, <2>4 DEF Unfetched
<1>7. outBank = <<>> \/ (outBank = <<packet>> /\ IsRequest(packet))
  BY RequestsAssumption DEF Init, packet
<1>8. FirmwareTypeOK
  BY <1>2, <1>3, <1>6, <1>7 DEF Init, FirmwareTypeOK
<1>9. FirmwareInv
  BY <1>2, <1>3, <1>8 DEF Init, FirmwareInv, UnconfiguredInv, IdleInv, InSession,
     OutSessionInv, InSessionInv, ReadDueInv
<1>10. AgreeInv /\ ButtonsInv
  BY <1>6 DEF Init, AgreeInv, ButtonsInv
<1> QED
  BY <1>9, <1>10 DEF Init, LiveInv, LedValues

LEMMA LiveInvKept == LiveInv /\ [Next]_vars => LiveInv'
<1> SUFFICES ASSUME LiveInv, [Next]_vars PROVE LiveInv'
  OBVIOUS
<1>1. CASE Main /\ UNCHANGED liveVars
  <2>1. FirmwareInv' /\ USB_Device_ConfigurationNumber' = 1
    BY <1>1, MainInv, MainConfigured DEF LiveInv
  <2>2. AgreeInv' /\ ButtonsInv'
    BY <1>1, OutKeeps, InKeeps DEF Main
  <2> QED
    BY <1>1, <2>1, <2>2 DEF LiveInv, liveVars
<1>2. CASE Bus /\ UNCHANGED liveVars
  <2>1. FirmwareInv'
    BY <1>2, BusInv DEF LiveInv
  <2> QED
    BY <1>2, <2>1, BusKeepsLive DEF LiveInv, liveVars
<1>3. CASE Live
  BY <1>3, QuietKeepsLive, SendLedsKeeps, LookKeeps DEF Live
<1>4. CASE UNCHANGED vars
  <2>1. FirmwareInv'
    BY <1>4, StutterInv DEF vars, LiveInv
  <2> QED
    BY <1>4, <2>1 DEF vars, liveVars, firmwareVars, mainVars, usbVars, LiveInv,
       AgreeInv, ButtonsInv, packet
<1> QED
  BY <1>1, <1>2, <1>3, <1>4 DEF Next

\* The firmware and the live mode together: what the banks hold while the program
\* runs, whatever was left in them before it.
THEOREM LiveInvariant == Spec => []LiveInv
BY LiveInvInit, LiveInvKept, PTL DEF Spec

\* The LEDs show what the program last sent with success, once the packet is
\* taken, however many packets were lost before.
THEOREM LedsFollow == Spec => []LedsFollowKeys
<1>1. LiveInv => LedsFollowKeys
  <2> SUFFICES ASSUME LiveInv, r = "ok", outBank = <<>>, lpc # "send"
               PROVE  32 * leds = data_out
    BY DEF LedsFollowKeys
  <2> QED
    BY DEF LiveInv, AgreeInv
<1> QED
  BY <1>1, LiveInvariant, PTL

\* main_pc.c displays states of the buttons only: an answer that another program
\* left in the device is never taken for one.
THEOREM ButtonsOnly == Spec => []OnlyButtonsShown
<1>1. LiveInv => OnlyButtonsShown
  BY DEF LiveInv, ButtonsInv, OnlyButtonsShown
<1> QED
  BY <1>1, LiveInvariant, PTL
=============================================================================
