------------------------- MODULE Programmer_proofs -------------------------
(***************************************************************************)
(* Theorems about the PC program and the firmware together, for every       *)
(* target, database and image, every number of runs, and any number of      *)
(* failed transfers, suspends and killed processes: what can change the      *)
(* flash, and what can be displayed.  Then about those runs of it in which   *)
(* nothing fails: what is displayed is the flash, and success is true.       *)
(***************************************************************************)
EXTENDS Programmer, FirmwareRefinement, WellFoundedInduction

\* The packets prog.c sends.
SentPackets ==
    {IdRequest, EraseRequest} \cup {ReadRequest(a) : a \in BlockAddress}
        \cup {WriteRequest(Image[i].addr, Image[i].word) : i \in DOMAIN Image}

\* A packet in the OUT bank is the program's, even one it was told had failed.
CommandsInv == outBank # <<>> => packet \in SentPackets

\* The places of the program that its variables depend on.
PlaceInv ==
    /\ hpc \in {"read_out", "read_in"} => cible # 0
    /\ hpc = "write" => item # 0
    /\ addr % 4 = 0
    /\ shown \in [BlockAddress -> {<<>>} \cup [1..4 -> Uint16]]

\* A block in the IN bank is a block the flash has held.
PastInv ==
    /\ Blocks \subseteq past
    /\ inBank # <<>> => (Len(inBank[1]) = 8 => WordsIn(inBank[1]) \in past)

ProgrammerInv ==
    /\ FirmwareInv /\ ProgrammerTypeOK
    /\ PlaceInv /\ CommandsInv /\ PastInv /\ DisplayedIsSomeBlock
-----------------------------------------------------------------------------
\* Bytes of a 16-bit address, and the address they make.
LEMMA AddressBytes ==
    ASSUME NEW a \in Nat, a < 65536
    PROVE  /\ (a \div 256) % 256 \in Byte /\ a % 256 \in Byte
           /\ 256 * ((a \div 256) % 256) + (a % 256) = a
BY DEF Byte

LEMMA WordFacts ==
    ASSUME NEW a \in Word
    PROVE  a \in Nat /\ a < 65536
BY FlashAssumption DEF Word

LEMMA ReadIsRequest ==
    ASSUME NEW a \in BlockAddress
    PROVE  IsRequest(ReadRequest(a))
<1>1. a \in Word /\ a \in Nat /\ a < 65536
  BY WordFacts DEF BlockAddress
<1>2. (a \div 256) % 256 \in Byte /\ a % 256 \in Byte /\ 2 \in Byte
  BY <1>1, AddressBytes DEF Byte
<1>3. AddressIn(ReadRequest(a)) = a
  BY <1>1, SplitJoin
<1>4. ReadRequest(a) \in Seq(Byte) /\ Len(ReadRequest(a)) = 3 /\ ReadRequest(a)[1] = 2
  BY <1>2 DEF ReadRequest
<1> QED
  BY <1>3, <1>4 DEF IsRequest

LEMMA WriteIsRequest ==
    ASSUME NEW a \in Word, NEW w \in WordValue
    PROVE  LET p == WriteRequest(a, w)
           IN /\ IsRequest(p) /\ p[1] = 3 /\ AddressIn(p) = a
              /\ p[4] = w.low /\ p[5] = w.high
<1> DEFINE p == WriteRequest(a, w)
<1>1. (a \div 256) % 256 \in Byte /\ a % 256 \in Byte /\ 3 \in Byte
      /\ w.low \in Byte /\ w.high \in Byte
  BY WordFacts, AddressBytes DEF Byte, WordValue
<1>2. p \in Seq(Byte) /\ Len(p) = 5 /\ p[1] = 3 /\ p[4] = w.low /\ p[5] = w.high
  BY <1>1 DEF WriteRequest
<1>3. AddressIn(p) = a
  BY WordFacts, AddressBytes DEF WriteRequest, AddressIn
<1> QED
  BY <1>2, <1>3 DEF IsRequest

LEMMA ImageType ==
    ASSUME NEW i \in DOMAIN Image
    PROVE  Image[i].addr \in Word /\ Image[i].word \in WordValue
<1>1. i \in 1..Len(Image)
  BY ImageAssumption, LenProperties
<1>2. Image[i] \in [addr : Word, word : WordValue]
  BY <1>1, ImageAssumption, ElementOfSeq
<1> QED
  BY <1>2

\* Each of the packets is one the firmware expects.
LEMMA SentIsRequest ==
    ASSUME NEW p \in SentPackets
    PROVE  IsRequest(p)
<1>1. CASE p \in {IdRequest, EraseRequest}
  <2>1. /\ <<1>> \in Seq(Byte) /\ Len(<<1>>) = 1 /\ <<1>>[1] = 1
        /\ <<4>> \in Seq(Byte) /\ Len(<<4>>) = 1 /\ <<4>>[1] = 4
    BY DEF Byte
  <2>2. IsRequest(<<1>>) /\ IsRequest(<<4>>)
    BY <2>1 DEF IsRequest
  <2> QED
    BY <1>1, <2>2 DEF IdRequest, EraseRequest
<1>2. CASE p \in {ReadRequest(a) : a \in BlockAddress}
  BY <1>2, ReadIsRequest
<1>3. CASE p \in {WriteRequest(Image[i].addr, Image[i].word) : i \in DOMAIN Image}
  BY <1>3, ImageType, WriteIsRequest
<1> QED
  BY <1>1, <1>2, <1>3 DEF SentPackets

\* The only write packets are those of the words of the image.
LEMMA SentWrite ==
    ASSUME NEW p \in SentPackets, p[1] = 3
    PROVE  \E i \in DOMAIN Image :
              /\ AddressIn(p) = Image[i].addr
              /\ p[4] = Image[i].word.low /\ p[5] = Image[i].word.high
<1>1. p \notin {IdRequest, EraseRequest} /\ p \notin {ReadRequest(a) : a \in BlockAddress}
  BY DEF IdRequest, EraseRequest, ReadRequest
<1>2. PICK i \in DOMAIN Image : p = WriteRequest(Image[i].addr, Image[i].word)
  BY <1>1 DEF SentPackets
<1> QED
  BY <1>2, ImageType, WriteIsRequest
-----------------------------------------------------------------------------
\* What a step of the main loop does to the flash: a write, an erase or nothing.
LEMMA MainFlash ==
    ASSUME FirmwareInv, Main
    PROVE  \/ chip'.flash = chip.flash
           \/ chip'.flash = [a \in Word |-> ErasedWord]
           \/ /\ outBank # <<>> /\ packet[1] = 3
              /\ chip'.flash = [chip.flash EXCEPT ![AddressIn(packet)] =
                     Programmed(@, [low |-> packet[4], high |-> packet[5]])]
<1>1. CASE MainLoop \/ ProcessOUTNothing \/ ProcessOUTCommand \/ ProcessOUTSession
           \/ ProcessINBusy \/ ProcessINButtons \/ ProcessINSession
  BY <1>1 DEF MainLoop, ProcessOUTNothing, ProcessOUTCommand, ProcessOUTSession,
     ProcessINBusy, ProcessINButtons, ProcessINSession
<1>2. CASE ProcessOUTEnd \/ ProcessINEnd
  BY <1>2, ReleasedFacts
     DEF ProcessOUTEnd, ProcessINEnd, spi_OFF, FirmwareInv, FirmwareTypeOK
<1>3. CASE SpiIn
  BY <1>3, SpiInFacts
<1>4. CASE SpiOut
  <2>1. request = outBank
    BY <1>4 DEF SpiOut, request, SessionOver, FirmwareInv, OutSessionInv
  <2>2. CASE Device!Write
    BY <2>1, <2>2 DEF Device!Write, Device!Asks, Device!AddressIn, AddressIn,
       Device!Programmed, Programmed, packet, request, pending
  <2>3. CASE Device!Erase
    BY <2>3 DEF Device!Erase, Device!Word, Word, Device!ErasedWord, ErasedWord,
       Device!ErasedByte, ErasedByte
  <2>4. CASE UNCHANGED deviceVars
    BY <2>4 DEF deviceVars
  <2> QED
    BY <1>4, <2>2, <2>3, <2>4, SpiOutImplements
<1> QED
  BY <1>1, <1>2, <1>3, <1>4 DEF Main

LEMMA HostFacts ==
    ASSUME ProgrammerTypeOK
    PROVE  /\ cible \in 0..Len(base_de_donnees) /\ addr \in Nat /\ addr < 65536
           /\ item \in 0..(Len(Image) + 1)
           /\ sig \in [1..3 -> Byte]
BY DEF ProgrammerTypeOK, Uint16

\* The database's entries.
LEMMA EntryFacts ==
    ASSUME NEW i \in 1..Len(base_de_donnees)
    PROVE  /\ base_de_donnees[i].taille_flash \in Nat
           /\ base_de_donnees[i].taille_flash \div 2 <= FlashWords
<1>1. i \in DOMAIN base_de_donnees /\ base_de_donnees[i] \in CibleAVR
  BY DatabaseAssumption, LenProperties, ElementOfSeq
<1>2. base_de_donnees[i].taille_flash \in Nat
  BY <1>1 DEF CibleAVR
<1> QED
  BY <1>1, <1>2, SizesAssumption

\* What a step of the program is to the firmware.
HostStep ==
    \/ UNCHANGED firmwareVars
    \/ TransferIN
    \/ \E p \in SentPackets : TransferOUT(p)

LEMMA ProgramHostStep ==
    ASSUME ProgrammerInv, Program \/ Kill \/ Start
    PROVE  HostStep
<1>1. CASE InitUsb \/ Claim \/ Lookup \/ ReadEnd \/ WriteEnd \/ Close \/ Start \/ Kill
  BY <1>1 DEF InitUsb, Claim, Lookup, ReadEnd, WriteEnd, Close, Start, Kill, HostStep
<1>2. CASE IspIn \/ ReadIn
  BY <1>2 DEF IspIn, ReadIn, ReceiveOk, ReceiveOverflows, ReceiveFails, HostStep
<1>3. CASE IspOut
  BY <1>3 DEF IspOut, SendOk, SendFails, HostStep, SentPackets
<1>4. CASE EraseOut
  BY <1>4 DEF EraseOut, SendOk, SendFails, HostStep, SentPackets
<1>5. CASE ReadOut
  <2>1. addr \in BlockAddress
    <3>1. cible # 0 /\ addr % 4 = 0
      BY <1>5 DEF ReadOut, RequestBlock, ProgrammerInv, PlaceInv
    <3>0. cible \in 1..Len(base_de_donnees) /\ addr \in Nat
      <4>1. Len(base_de_donnees) \in Nat
        BY DatabaseAssumption, LenProperties
      <4> QED  BY <3>1, <4>1, HostFacts DEF ProgrammerInv
    <3>2. base_de_donnees[cible].taille_flash \div 2 <= FlashWords
          /\ base_de_donnees[cible].taille_flash \in Nat
      BY <3>0, EntryFacts
    <3>3. addr < base_de_donnees[cible].taille_flash \div 2
      BY <1>5 DEF ReadOut, RequestBlock
    <3> QED
      BY <3>0, <3>1, <3>2, <3>3, FlashAssumption DEF BlockAddress, Word
  <2>2. ReadRequest(addr) \in SentPackets
    BY <2>1 DEF SentPackets
  <2> QED
    BY <1>5, <2>2 DEF ReadOut, RequestBlock, SendOk, SendFails, HostStep
<1>6. CASE WriteOut
  <2>1. item \in DOMAIN Image
    <3>1. item <= Len(Image) /\ item # 0
      BY <1>6 DEF WriteOut, SendWord, ProgrammerInv, PlaceInv
    <3>2. Len(Image) \in Nat /\ DOMAIN Image = 1..Len(Image)
      BY ImageAssumption, LenProperties
    <3> QED
      BY <3>1, <3>2, HostFacts DEF ProgrammerInv
  <2>2. WriteRequest(Image[item].addr, Image[item].word) \in SentPackets
    BY <2>1 DEF SentPackets
  <2> QED
    BY <1>6, <2>2 DEF WriteOut, SendWord, SendOk, SendFails, HostStep
<1> QED
  BY <1>1, <1>2, <1>3, <1>4, <1>5, <1>6 DEF Program
-----------------------------------------------------------------------------
LEMMA FirmwareKept ==
    ASSUME ProgrammerInv, HostStep \/ Main \/ Bus
    PROVE  FirmwareInv'
<1>1. CASE \E p \in SentPackets : TransferOUT(p)
  BY <1>1, SentIsRequest, TransferOUTInv DEF ProgrammerInv
<1>2. CASE TransferIN
  BY <1>2, TransferINInv DEF ProgrammerInv
<1>3. CASE UNCHANGED firmwareVars
  BY <1>3, StutterInv DEF ProgrammerInv
<1>4. CASE Main \/ Bus
  BY <1>4, MainInv, BusInv DEF ProgrammerInv
<1> QED
  BY <1>1, <1>2, <1>3, <1>4 DEF HostStep

\* No step but the host's puts a packet into the OUT bank.
LEMMA BanksEmptied ==
    ASSUME Main \/ Bus
    PROVE  outBank' \in {outBank, <<>>}
BY DEF Main, MainLoop, ProcessOUTNothing, ProcessOUTCommand, ProcessOUTSession, SpiOut,
   ProcessOUTEnd, ProcessINBusy, ProcessINButtons, ProcessINSession, SpiIn,
   ProcessINEnd, Bus, ConfigurationChanged, EVENT_USB_Device_ConfigurationChanged,
   Suspend, WakeUp

LEMMA CommandsKept ==
    ASSUME ProgrammerInv, HostStep \/ Main \/ Bus
    PROVE  CommandsInv'
<1>1. CASE \E p \in SentPackets : TransferOUT(p)
  <2>1. PICK p \in SentPackets : outBank' = <<p>>
    BY <1>1 DEF TransferOUT
  <2> QED
    BY <2>1 DEF CommandsInv, packet
<1>2. CASE TransferIN \/ UNCHANGED firmwareVars
  <2>1. outBank' = outBank
    BY <1>2 DEF TransferIN, firmwareVars
  <2> QED
    BY <2>1 DEF ProgrammerInv, CommandsInv, packet
<1>3. CASE Main \/ Bus
  BY <1>3, BanksEmptied DEF ProgrammerInv, CommandsInv, packet
<1> QED
  BY <1>1, <1>2, <1>3 DEF HostStep

\* An answer of eight bytes is the block of the flash at the address asked for.
LEMMA AnswerIsBlock ==
    ASSUME FirmwareInv, ProcessINEnd, Len(fifo) = 8
    PROVE  WordsIn(fifo) \in Blocks
<1>1. commande_PC = 2
  <2>1. SUFFICES ASSUME commande_PC = 1 PROVE FALSE
    BY DEF FirmwareInv, InSessionInv, ProcessINEnd
  <2>2. Len(Session) = 4
    BY <2>1 DEF Session, IdSession
  <2> QED
    BY <2>1, <2>2 DEF SessionOver, FirmwareInv, InSessionInv, ProcessINEnd
<1>2. /\ flash_address \in BlockAddress
      /\ \A k \in 1..8 : fifo[k] = Block(chip.flash, flash_address)[k]
  BY <1>1 DEF FirmwareInv, ReadDueInv, InSessionInv, ProcessINEnd
<1>3. ASSUME NEW k \in 1..4
      PROVE  256 * fifo[2 * k] + fifo[2 * k - 1]
               = 256 * chip.flash[flash_address + k - 1].high
                   + chip.flash[flash_address + k - 1].low
  <2>1. 2 * k \in 1..8 /\ 2 * k - 1 \in 1..8
    OBVIOUS
  <2>2. flash_address \in Nat
    BY <1>2, WordFacts DEF BlockAddress
  <2>3. /\ (2 * k) % 2 = 0 /\ (2 * k - 1) \div 2 = k - 1
        /\ (2 * k - 1) % 2 = 1 /\ (2 * k - 1 - 1) \div 2 = k - 1
    OBVIOUS
  <2>4. Block(chip.flash, flash_address)[2 * k] = chip.flash[flash_address + (k - 1)].high
    BY <2>1, <2>3 DEF Block
  <2>5. Block(chip.flash, flash_address)[2 * k - 1] = chip.flash[flash_address + (k - 1)].low
    BY <2>1, <2>3 DEF Block
  <2>6. flash_address + (k - 1) = flash_address + k - 1
    BY <2>2
  <2> QED
    BY <1>2, <2>1, <2>4, <2>5, <2>6
<1>4. WordsIn(fifo) = FlashWordsAt(flash_address)
  BY <1>3 DEF WordsIn, FlashWordsAt
<1> QED
  BY <1>2, <1>4 DEF Blocks

LEMMA PastKeptByMain ==
    ASSUME ProgrammerInv, MainStep
    PROVE  PastInv' /\ past \subseteq past'
<1>1. past' = past \cup Blocks'
  BY DEF MainStep
<1>2. past \subseteq past' /\ Blocks' \subseteq past'
  BY <1>1
<1>3. inBank' # <<>> => (Len(inBank'[1]) = 8 => WordsIn(inBank'[1]) \in past')
  <2>1. CASE inBank' = inBank
    BY <1>2, <2>1 DEF ProgrammerInv, PastInv
  <2>2. CASE ProcessINButtons
    <3>1. PICK b \in Buttons : inBank' = << <<b>> >>
      BY <2>2 DEF ProcessINButtons
    <3>2. Len(inBank'[1]) # 8
      BY <3>1
    <3> QED
      BY <3>2, Zenon
  <2>3. CASE ProcessINEnd
    <3>1. inBank' = <<fifo>> /\ inBank'[1] = fifo
      BY <2>3 DEF ProcessINEnd
    <3>2. Len(fifo) = 8 => WordsIn(fifo) \in past
      BY <2>3, AnswerIsBlock DEF ProgrammerInv, PastInv
    <3>3. Len(fifo) = 8 => WordsIn(fifo) \in past'
      BY <1>2, <3>2
    <3> QED
      BY <3>1, <3>3
  <2>4. inBank' = inBank \/ ProcessINButtons \/ ProcessINEnd
    BY DEF MainStep, Main, MainLoop, ProcessOUTNothing, ProcessOUTCommand,
       ProcessOUTSession, SpiOut, ProcessOUTEnd, ProcessINBusy, ProcessINSession, SpiIn
  <2> QED
    BY <2>1, <2>2, <2>3, <2>4
<1> QED
  BY <1>2, <1>3 DEF PastInv

\* The host and the bus change neither the flash nor what was in the IN bank.
LEMMA PastKeptByHost ==
    ASSUME ProgrammerInv, HostStep \/ Bus, past' = past
    PROVE  PastInv'
<1>1. chip' = chip /\ inBank' \in {inBank, <<>>}
  BY DEF HostStep, TransferIN, TransferOUT, firmwareVars, mainVars, Bus,
     ConfigurationChanged, EVENT_USB_Device_ConfigurationChanged, Suspend, WakeUp
<1>2. Blocks' = Blocks
  BY <1>1 DEF Blocks, FlashWordsAt
<1> QED
  BY <1>1, <1>2 DEF ProgrammerInv, PastInv
-----------------------------------------------------------------------------
\* The address of a block stays a multiple of four when it wraps around.
LEMMA NextAddrFacts ==
    ASSUME addr \in Uint16, addr % 4 = 0
    PROVE  NextAddr \in Uint16 /\ NextAddr % 4 = 0
<1>1. PICK q \in Nat : addr = 4 * q
  <2>1. addr = 4 * (addr \div 4) /\ addr \div 4 \in Nat
    BY DEF Uint16
  <2> QED  BY <2>1
<1>2. q < 16384
  BY <1>1 DEF Uint16
<1>3. NextAddr = IF q < 16383 THEN 4 * (q + 1) ELSE 0
  BY <1>1, <1>2 DEF NextAddr
<1> QED
  BY <1>1, <1>2, <1>3 DEF Uint16

\* The words a block is displayed as.
LEMMA WordsType ==
    ASSUME NEW p \in Seq(Byte), Len(p) = 8
    PROVE  WordsIn(p) \in [1..4 -> Uint16]
<1>1. ASSUME NEW k \in 1..4 PROVE 256 * p[2 * k] + p[2 * k - 1] \in Uint16
  <2>1. 2 * k \in 1..Len(p) /\ 2 * k - 1 \in 1..Len(p)
    OBVIOUS
  <2>2. p[2 * k] \in Byte /\ p[2 * k - 1] \in Byte
    BY <2>1, ElementOfSeq
  <2> QED
    BY <2>2, ByteBound DEF Uint16
<1> QED
  BY <1>1 DEF WordsIn

\* The signature buffer after any packet.
LEMMA ReceivedType ==
    ASSUME NEW p \in Seq(Byte), NEW s \in [1..3 -> Byte]
    PROVE  Received(p, s) \in [1..3 -> Byte]
<1>1. ASSUME NEW k \in 1..3 PROVE (IF k <= Len(p) THEN p[k] ELSE s[k]) \in Byte
  <2>1. CASE k <= Len(p)
    <3>1. k \in 1..Len(p)
      BY <2>1, LenProperties
    <3> QED  BY <2>1, <3>1, ElementOfSeq
  <2>2. CASE ~(k <= Len(p))
    BY <2>2
  <2> QED  BY <2>1, <2>2
<1> QED
  BY <1>1 DEF Received

\* What a packet that is fetched is made of.
LEMMA ArrivingType ==
    ASSUME ProgrammerInv, TransferIN
    PROVE  Arriving \in Seq(Byte)
BY DEF ProgrammerInv, FirmwareInv, FirmwareTypeOK, TransferIN, Arriving

LEMMA Least ==
    ASSUME NEW T \in SUBSET Nat, T # {}
    PROVE  \E x \in T : \A y \in T : x <= y
<1> DEFINE R == OpToRel(<, Nat)
<1>1. \A x, y \in Nat : y < x => <<y, x>> \in R
  BY DEF OpToRel
<1>2. IsWellFoundedOn(R, Nat)
  BY NatLessThanWellFounded
<1> HIDE DEF R
<1>3. PICK x \in T : \A y \in T : ~ (<<y, x>> \in R)
  BY <1>2, WFMin
<1>4. ASSUME NEW y \in T PROVE x <= y
  <2>1. ~ (y < x)
    BY <1>1, <1>3
  <2> QED
    BY <2>1
<1> QED
  BY <1>4

\* recherche_cible finds an entry of the database, or none.
LEMMA FoundType ==
    ASSUME NEW s
    PROVE  recherche_cible(s) \in 0..Len(base_de_donnees)
<1> DEFINE Matches == {i \in DOMAIN base_de_donnees : base_de_donnees[i].signature = s}
<1>1. DOMAIN base_de_donnees = 1..Len(base_de_donnees) /\ Len(base_de_donnees) \in Nat
  BY DatabaseAssumption, LenProperties
<1>2. Matches \in SUBSET (1..Len(base_de_donnees))
  BY <1>1
<1>3. recherche_cible(s) = IF Matches = {} THEN 0
                           ELSE CHOOSE i \in Matches : \A j \in Matches : i <= j
  BY DEF recherche_cible
<1> HIDE DEF Matches
<1>4. CASE Matches = {}
  BY <1>1, <1>3, <1>4
<1>5. CASE Matches # {}
  <2>1. \E i \in Matches : \A j \in Matches : i <= j
    BY <1>1, <1>2, <1>5, Least
  <2>2. (CHOOSE i \in Matches : \A j \in Matches : i <= j) \in Matches
    BY <2>1
  <2>3. recherche_cible(s) \in Matches
    BY <1>3, <1>5, <2>2, Zenon
  <2>4. \A n \in Nat : 1..n \subseteq 0..n
    OBVIOUS
  <2> QED
    BY <1>1, <1>2, <2>3, <2>4, Zenon
<1> QED
  BY <1>4, <1>5
-----------------------------------------------------------------------------
\* The numbers of faults, kills and runs stay within their bounds.
LEMMA FaultsType ==
    ASSUME ProgrammerTypeOK,
           \/ UNCHANGED faults
           \/ faults < MaxFaults /\ faults' = faults + 1
    PROVE  faults' \in 0..MaxFaults
<1>1. faults \in 0..MaxFaults /\ MaxFaults \in Nat
  BY BudgetAssumption DEF ProgrammerTypeOK
<1> QED
  BY <1>1

LEMMA TransferFaults ==
    ASSUME ProgrammerTypeOK, NEW p, NEW n,
           SendOk(p) \/ SendFails(p) \/ ReceiveOk(n) \/ ReceiveOverflows(n) \/ ReceiveFails
    PROVE  faults' \in 0..MaxFaults
BY FaultsType DEF SendOk, SendFails, ReceiveOk, ReceiveOverflows, ReceiveFails

\* The places before the first transfer, and the end.
LEMMA OpenTypes ==
    ASSUME ProgrammerTypeOK, FirmwareTypeOK', InitUsb \/ Claim \/ Close
    PROVE  ProgrammerTypeOK'
<1>1. UNCHANGED <<mode, sig, cible, addr, item, shown, success, runs, faults, kills>>
  BY DEF InitUsb, Claim, Close, budgetVars
<1>2. /\ hpc' \in {"claim", "failed", "isp_out", "done", "crashed"}
      /\ handle' \in {"none", "open", "claimed", "closed"}
  BY DEF InitUsb, Claim, Close, Goto
<1> QED
  BY <1>1, <1>2 DEF ProgrammerTypeOK, Ended

LEMMA SendTypes ==
    ASSUME ProgrammerInv, FirmwareTypeOK', IspOut \/ EraseOut \/ WriteOut
    PROVE  ProgrammerTypeOK'
<1>1. UNCHANGED <<mode, handle, sig, cible, addr, shown, success, runs, kills>>
  BY DEF IspOut, EraseOut, WriteOut, SendWord
<1>2. faults' \in 0..MaxFaults
  BY TransferFaults DEF IspOut, EraseOut, WriteOut, SendWord, ProgrammerInv
<1>3. hpc' \in {"isp_in", "write"}
  BY DEF IspOut, EraseOut, WriteOut, SendWord, Goto
<1>4. item' \in 0..(Len(Image) + 1)
  <2>1. Len(Image) \in Nat
    BY ImageAssumption, LenProperties
  <2>2. item \in 0..(Len(Image) + 1)
    BY HostFacts DEF ProgrammerInv
  <2> QED
    BY <2>1, <2>2 DEF IspOut, EraseOut, WriteOut, SendWord
<1> QED
  BY <1>1, <1>2, <1>3, <1>4 DEF ProgrammerInv, ProgrammerTypeOK

LEMMA IspInTypes ==
    ASSUME ProgrammerInv, FirmwareTypeOK', IspIn
    PROVE  ProgrammerTypeOK'
<1>1. UNCHANGED <<mode, handle, cible, addr, item, shown, success, runs, kills>>
  BY DEF IspIn
<1>2. faults' \in 0..MaxFaults
  BY TransferFaults DEF IspIn, ProgrammerInv
<1>3. hpc' \in {"isp_in", "lookup"}
  BY DEF IspIn, Goto
<1>4. sig' \in [1..3 -> Byte]
  <2>1. sig \in [1..3 -> Byte]
    BY HostFacts DEF ProgrammerInv
  <2>2. TransferIN => Received(Arriving, sig) \in [1..3 -> Byte]
    BY <2>1, ArrivingType, ReceivedType
  <2>3. sig' = sig \/ (TransferIN /\ sig' = Received(Arriving, sig))
    <3>1. CASE ReceiveFails
      BY <3>1 DEF IspIn, ReceiveFails, ReceiveOk, ReceiveOverflows, firmwareVars
    <3>2. CASE ~ReceiveFails
      BY <3>2 DEF IspIn, ReceiveOk, ReceiveOverflows
    <3> QED  BY <3>1, <3>2
  <2> QED
    BY <2>1, <2>2, <2>3
<1> QED
  BY <1>1, <1>2, <1>3, <1>4 DEF ProgrammerInv, ProgrammerTypeOK

LEMMA LookupTypes ==
    ASSUME ProgrammerInv, FirmwareTypeOK', Lookup
    PROVE  ProgrammerTypeOK'
<1>1. UNCHANGED <<mode, sig, item, shown, success, runs, faults, kills>>
  BY DEF Lookup, budgetVars
<1>2. cible' \in 0..Len(base_de_donnees) /\ addr' = 0
  BY FoundType DEF Lookup
<1>3. hpc' \in {"close", "erase", "read_out", "crashed"}
  BY DEF Lookup, Goto
<1>4. handle' \in {"none", handle}
  BY DEF Lookup
<1>5. addr' \in Uint16
  BY <1>2 DEF Uint16
<1> QED
  BY <1>1, <1>2, <1>3, <1>4, <1>5 DEF ProgrammerInv, ProgrammerTypeOK, Ended

LEMMA ReadTypes ==
    ASSUME ProgrammerInv, FirmwareTypeOK', ReadOut \/ ReadIn
    PROVE  ProgrammerTypeOK' /\ addr' % 4 = 0
           /\ shown' \in [BlockAddress -> {<<>>} \cup [1..4 -> Uint16]]
<1>1. UNCHANGED <<mode, handle, sig, cible, item, success, runs, kills>>
  BY DEF ReadOut, RequestBlock, ReadIn
<1>2. faults' \in 0..MaxFaults
  BY TransferFaults DEF ReadOut, RequestBlock, ReadIn, ProgrammerInv
<1>3. hpc' \in {"read_in", "read_out"}
  BY DEF ReadOut, RequestBlock, ReadIn, Goto
<1>4. addr' \in Uint16 /\ addr' % 4 = 0
  <2>1. addr \in Uint16 /\ addr % 4 = 0
    BY DEF ProgrammerInv, ProgrammerTypeOK, PlaceInv
  <2>2. addr' = addr \/ addr' = NextAddr
    BY DEF ReadOut, RequestBlock, ReadIn
  <2>3. NextAddr \in Uint16 /\ NextAddr % 4 = 0
    BY <2>1, NextAddrFacts
  <2> QED
    BY <2>1, <2>2, <2>3, Zenon
<1>5. shown' \in [BlockAddress -> {<<>>} \cup [1..4 -> Uint16]]
  <2>1. shown \in [BlockAddress -> {<<>>} \cup [1..4 -> Uint16]]
    BY DEF ProgrammerInv, PlaceInv
  <2>2. shown' = shown \/ /\ TransferIN /\ Len(Arriving) = 8
                          /\ shown' = [shown EXCEPT ![addr] = WordsIn(Arriving)]
    BY DEF ReadOut, RequestBlock, ReadIn, ReceiveOk, IsBlock
  <2>3. TransferIN /\ Len(Arriving) = 8 => WordsIn(Arriving) \in [1..4 -> Uint16]
    BY ArrivingType, WordsType
  <2> QED
    BY <2>1, <2>2, <2>3
<1>6. \A a \in DOMAIN shown' : shown'[a] = <<>> \/ shown'[a] \in [1..4 -> Uint16]
  BY <1>5
<1> QED
  BY <1>1, <1>2, <1>3, <1>4, <1>5, <1>6 DEF ProgrammerInv, ProgrammerTypeOK

LEMMA EndTypes ==
    ASSUME ProgrammerTypeOK, FirmwareTypeOK', ReadEnd \/ WriteEnd
    PROVE  ProgrammerTypeOK'
<1>1. UNCHANGED <<mode, sig, cible, addr, item, shown, runs, faults, kills>>
  BY DEF ReadEnd, WriteEnd, budgetVars
<1>2. hpc' = "close" /\ handle' \in {"closed", handle}
  BY DEF ReadEnd, WriteEnd, Goto
<1>3. success' \in BOOLEAN
  BY DEF ReadEnd, WriteEnd, ProgrammerTypeOK
<1> QED
  BY <1>1, <1>2, <1>3 DEF ProgrammerTypeOK

LEMMA StartTypes ==
    ASSUME ProgrammerInv, FirmwareTypeOK', Start
    PROVE  ProgrammerTypeOK' /\ shown' = [a \in BlockAddress |-> <<>>]
<1>1. /\ UNCHANGED <<faults, kills>> /\ hpc' = "init_usb" /\ mode' \in Modes
      /\ handle' = "none" /\ sig' = <<0, 0, 0>> /\ cible' = 0
      /\ addr' = 0 /\ item' = 0 /\ shown' = [a \in BlockAddress |-> <<>>]
  BY DEF Start, Goto
<1>2. runs' \in 0..MaxRuns
  <2>1. runs \in 0..MaxRuns /\ MaxRuns \in Nat
    BY BudgetAssumption DEF ProgrammerInv, ProgrammerTypeOK
  <2> QED
    BY <2>1 DEF Start
<1>3. /\ sig' \in [1..3 -> Byte] /\ addr' \in Uint16
      /\ cible' \in 0..Len(base_de_donnees) /\ item' \in 0..(Len(Image) + 1)
  <2>1. Len(Image) \in Nat /\ Len(base_de_donnees) \in Nat
    BY ImageAssumption, DatabaseAssumption, LenProperties
  <2>2. <<0, 0, 0>> \in [1..3 -> Byte] /\ 0 \in Uint16
    BY DEF Byte, Uint16
  <2> QED
    BY <1>1, <2>1, <2>2
<1>4. success' \in BOOLEAN
  BY DEF Start
<1>5. \A a \in DOMAIN shown' : shown'[a] = <<>>
  BY <1>1
<1> QED
  BY <1>1, <1>2, <1>3, <1>4, <1>5 DEF ProgrammerInv, ProgrammerTypeOK

LEMMA KillTypes ==
    ASSUME ProgrammerTypeOK, FirmwareTypeOK', Kill
    PROVE  ProgrammerTypeOK'
<1>1. /\ UNCHANGED <<mode, sig, cible, addr, item, shown, success, runs, faults>>
      /\ hpc' = "killed" /\ handle' = "none"
  BY DEF Kill, Goto
<1>2. kills' \in 0..MaxKills
  <2>1. kills \in 0..MaxKills /\ MaxKills \in Nat
    BY BudgetAssumption DEF ProgrammerTypeOK
  <2> QED
    BY <2>1 DEF Kill
<1> QED
  BY <1>1, <1>2 DEF ProgrammerTypeOK, Ended

LEMMA DeviceTypes ==
    ASSUME ProgrammerTypeOK, FirmwareTypeOK', MainStep \/ BusEvent \/ BusSuspend
    PROVE  ProgrammerTypeOK'
<1>1. UNCHANGED <<hostVars, runs, kills>>
  BY DEF MainStep, BusEvent, BusSuspend, budgetVars
<1>2. faults' \in 0..MaxFaults
  BY FaultsType DEF MainStep, BusEvent, BusSuspend, budgetVars
<1> QED
  BY <1>1, <1>2 DEF ProgrammerTypeOK, hostVars
-----------------------------------------------------------------------------
\* A step that leaves what is displayed alone leaves it justified.
LEMMA DisplayKept ==
    ASSUME ProgrammerInv, shown' = shown, past \subseteq past'
    PROVE  DisplayedIsSomeBlock'
BY DEF ProgrammerInv, DisplayedIsSomeBlock

\* A block is displayed as it came, under the address asked for.
LEMMA DisplayRead ==
    ASSUME ProgrammerInv, ReadOut \/ ReadIn
    PROVE  DisplayedIsSomeBlock'
<1>1. past' = past
  BY DEF ReadOut, RequestBlock, ReadIn
<1>2. CASE shown' = shown
  BY <1>1, <1>2, DisplayKept
<1>3. CASE /\ TransferIN /\ Len(Arriving) = 8
           /\ shown' = [shown EXCEPT ![addr] = WordsIn(Arriving)]
  <2>1. WordsIn(Arriving) \in past
    BY <1>3 DEF ProgrammerInv, PastInv, TransferIN, Arriving
  <2>2. \A a \in BlockAddress : shown'[a] = shown[a] \/ shown'[a] = WordsIn(Arriving)
    BY <1>3 DEF ProgrammerInv, PlaceInv
  <2> QED
    BY <1>1, <2>1, <2>2 DEF ProgrammerInv, DisplayedIsSomeBlock
<1>4. \/ shown' = shown
      \/ /\ TransferIN /\ Len(Arriving) = 8
         /\ shown' = [shown EXCEPT ![addr] = WordsIn(Arriving)]
  BY DEF ReadOut, RequestBlock, ReadIn, ReceiveOk, IsBlock
<1> QED
  BY <1>2, <1>3, <1>4

\* Each kind of step keeps the types, the places and what is displayed.
LEMMA ReadKept ==
    ASSUME ProgrammerInv, FirmwareTypeOK', ReadOut \/ ReadIn
    PROVE  ProgrammerTypeOK' /\ PlaceInv' /\ DisplayedIsSomeBlock'
<1>1. hpc' \in {"read_in", "read_out"} /\ cible' = cible
  BY DEF ReadOut, RequestBlock, ReadIn, Goto
<1>2. cible # 0
  BY DEF ReadOut, RequestBlock, ReadIn, ProgrammerInv, PlaceInv
<1> QED
  BY <1>1, <1>2, ReadTypes, DisplayRead DEF PlaceInv

LEMMA StartKept ==
    ASSUME ProgrammerInv, FirmwareTypeOK', Start
    PROVE  ProgrammerTypeOK' /\ PlaceInv' /\ DisplayedIsSomeBlock'
<1>1. hpc' = "init_usb" /\ addr' = 0
  BY DEF Start, Goto
<1>2. shown' = [a \in BlockAddress |-> <<>>]
  BY StartTypes
<1>3. PlaceInv'
  BY <1>1, <1>2 DEF PlaceInv
<1>4. DisplayedIsSomeBlock'
  BY <1>2 DEF DisplayedIsSomeBlock
<1> QED
  BY <1>3, <1>4, StartTypes

LEMMA SendKept ==
    ASSUME ProgrammerInv, FirmwareTypeOK', IspOut \/ EraseOut \/ WriteOut
    PROVE  ProgrammerTypeOK' /\ PlaceInv' /\ DisplayedIsSomeBlock'
<1>1. UNCHANGED <<addr, shown, past>>
  BY DEF IspOut, EraseOut, WriteOut, SendWord
<1>2. hpc' = "isp_in" \/ (hpc' = "write" /\ item' # 0)
  <2>1. Len(Image) \in Nat
    BY ImageAssumption, LenProperties
  <2>2. item + 1 # 0
    BY <2>1, HostFacts DEF ProgrammerInv
  <2> QED
    BY <2>2 DEF IspOut, EraseOut, WriteOut, SendWord, Goto
<1>3. PlaceInv'
  BY <1>1, <1>2 DEF ProgrammerInv, PlaceInv
<1> QED
  BY <1>1, <1>3, SendTypes, DisplayKept

LEMMA OtherKept ==
    ASSUME ProgrammerInv, FirmwareTypeOK',
           InitUsb \/ Claim \/ Close \/ IspIn \/ ReadEnd \/ WriteEnd \/ Kill
    PROVE  ProgrammerTypeOK' /\ PlaceInv' /\ DisplayedIsSomeBlock'
<1>1. ProgrammerTypeOK'
  BY OpenTypes, IspInTypes, EndTypes, KillTypes DEF ProgrammerInv
<1>2. UNCHANGED <<addr, shown, past>>
  BY DEF InitUsb, Claim, Close, IspIn, ReadEnd, WriteEnd, Kill, budgetVars
<1>3. hpc' \notin {"read_out", "read_in", "write"}
  BY DEF InitUsb, Claim, Close, IspIn, ReadEnd, WriteEnd, Kill, Goto
<1>4. PlaceInv'
  BY <1>2, <1>3 DEF ProgrammerInv, PlaceInv
<1> QED
  BY <1>1, <1>2, <1>4, DisplayKept

LEMMA LookupKept ==
    ASSUME ProgrammerInv, FirmwareTypeOK', Lookup
    PROVE  ProgrammerTypeOK' /\ PlaceInv' /\ DisplayedIsSomeBlock'
<1>1. UNCHANGED <<shown, past>> /\ addr' = 0
  BY DEF Lookup, budgetVars
<1>2. hpc' # "read_in" /\ hpc' # "write" /\ (hpc' = "read_out" => cible' # 0)
  BY DEF Lookup, Goto
<1>3. PlaceInv'
  BY <1>1, <1>2 DEF ProgrammerInv, PlaceInv
<1> QED
  BY <1>1, <1>3, LookupTypes, DisplayKept

LEMMA DeviceKept ==
    ASSUME ProgrammerInv, FirmwareTypeOK', past \subseteq past',
           MainStep \/ BusEvent \/ BusSuspend
    PROVE  ProgrammerTypeOK' /\ PlaceInv' /\ DisplayedIsSomeBlock'
<1>1. UNCHANGED hostVars
  BY DEF MainStep, BusEvent, BusSuspend
<1>2. UNCHANGED <<hpc, cible, addr, item, shown>>
  BY <1>1 DEF hostVars
<1>3. PlaceInv'
  BY <1>2 DEF ProgrammerInv, PlaceInv
<1>4. ProgrammerTypeOK'
  BY DeviceTypes DEF ProgrammerInv
<1> QED
  BY <1>2, <1>3, <1>4, DisplayKept
-----------------------------------------------------------------------------
LEMMA ProgrammerInit == Init => ProgrammerInv
<1> SUFFICES ASSUME Init PROVE ProgrammerInv
  OBVIOUS
<1>1. FirmwareInv /\ outBank = <<>> /\ inBank = <<>>
  BY InitInv DEF Init, FirmwareInit
<1>2. shown = [a \in BlockAddress |-> <<>>] /\ addr = 0 /\ past = Blocks
  BY DEF Init
<1>3. ProgrammerTypeOK
  <2>1. Len(Image) \in Nat /\ Len(base_de_donnees) \in Nat
    BY ImageAssumption, DatabaseAssumption, LenProperties
  <2>2. <<0, 0, 0>> \in [1..3 -> Byte] /\ 0 \in Uint16
    BY DEF Byte, Uint16
  <2>3. FirmwareTypeOK
    BY <1>1 DEF FirmwareInv
  <2>4. \A a \in DOMAIN shown : shown[a] = <<>>
    BY <1>2
  <2>5. /\ cible \in 0..Len(base_de_donnees) /\ item \in 0..(Len(Image) + 1)
        /\ runs \in 0..MaxRuns /\ faults \in 0..MaxFaults /\ kills \in 0..MaxKills
    BY <2>1, BudgetAssumption DEF Init
  <2>6. /\ sig \in [1..3 -> Byte] /\ addr \in Uint16 /\ success \in BOOLEAN
        /\ mode \in Modes \cup {"none"} /\ handle \in {"none", "open", "claimed", "closed"}
        /\ hpc \in Ended
    BY <2>2 DEF Init, Ended
  <2> QED
    BY <2>3, <2>4, <2>5, <2>6 DEF ProgrammerTypeOK
<1>4. PlaceInv
  BY <1>2 DEF PlaceInv, Init
<1>5. CommandsInv /\ PastInv
  BY <1>1, <1>2 DEF CommandsInv, PastInv
<1>6. DisplayedIsSomeBlock
  BY <1>2 DEF DisplayedIsSomeBlock
<1> QED
  BY <1>1, <1>3, <1>4, <1>5, <1>6 DEF ProgrammerInv

\* The firmware's part of the invariant, the bank and the past, for any step.
LEMMA DeviceSide ==
    ASSUME ProgrammerInv, Next
    PROVE  FirmwareInv' /\ CommandsInv' /\ PastInv' /\ past \subseteq past'
<1>1. CASE Program \/ Kill \/ Start
  <2>1. HostStep
    BY <1>1, ProgramHostStep
  <2>2. past' = past
    BY <1>1 DEF Program, InitUsb, Claim, IspOut, IspIn, Lookup, ReadOut, RequestBlock, ReadIn,
       ReadEnd, EraseOut, WriteOut, SendWord, WriteEnd, Close, Kill, Start, budgetVars
  <2> QED
    BY <2>1, <2>2, FirmwareKept, CommandsKept, PastKeptByHost
<1>2. CASE BusEvent \/ BusSuspend
  <2>1. Bus /\ past' = past
    BY <1>2 DEF BusEvent, BusSuspend, Bus, budgetVars
  <2> QED
    BY <2>1, FirmwareKept, CommandsKept, PastKeptByHost
<1>3. CASE MainStep
  <2>1. Main
    BY <1>3 DEF MainStep
  <2> QED
    BY <1>3, <2>1, FirmwareKept, CommandsKept, PastKeptByMain
<1> QED
  BY <1>1, <1>2, <1>3 DEF Next

LEMMA ProgrammerNext == ProgrammerInv /\ [Next]_vars => ProgrammerInv'
<1> SUFFICES ASSUME ProgrammerInv, [Next]_vars PROVE ProgrammerInv'
  OBVIOUS
<1>1. CASE Next
  <2>1. FirmwareInv' /\ CommandsInv' /\ PastInv' /\ past \subseteq past'
    BY <1>1, DeviceSide
  <2>2. FirmwareTypeOK'
    BY <2>1 DEF FirmwareInv
  <2>3. ProgrammerTypeOK' /\ PlaceInv' /\ DisplayedIsSomeBlock'
    BY <1>1, <2>1, <2>2, ReadKept, StartKept, SendKept, OtherKept, LookupKept,
       DeviceKept DEF Next, Program
  <2> QED
    BY <2>1, <2>3 DEF ProgrammerInv
<1>2. CASE UNCHANGED vars
  <2>1. UNCHANGED <<firmwareVars, hpc, mode, handle, sig, cible, addr, item, shown,
                    success, runs, faults, kills, past>>
    BY <1>2 DEF vars, hostVars, budgetVars
  <2>2. FirmwareInv' /\ CommandsInv' /\ PastInv'
    BY <2>1, FirmwareKept, CommandsKept, PastKeptByHost DEF HostStep
  <2>3. FirmwareTypeOK'
    BY <2>2 DEF FirmwareInv
  <2>4. ProgrammerTypeOK' /\ PlaceInv'
    BY <2>1, <2>3 DEF ProgrammerInv, ProgrammerTypeOK, PlaceInv
  <2> QED
    BY <2>1, <2>2, <2>4, DisplayKept DEF ProgrammerInv
<1> QED
  BY <1>1, <1>2

\* The inductive invariant of the program and the firmware together.
THEOREM ProgrammerInvariant == Spec => []ProgrammerInv
BY ProgrammerInit, ProgrammerNext, PTL DEF Spec

\* Every variable of prog.c and of its two transfer loops keeps its type.
THEOREM ProgrammerTypeCorrect == Spec => []ProgrammerTypeOK
<1>1. ProgrammerInv => ProgrammerTypeOK
  BY DEF ProgrammerInv
<1> QED
  BY <1>1, ProgrammerInvariant, PTL

\* Whatever fails, is suspended or killed, and however often the program runs:
\* the eight bytes flash_read displays are one block the flash has held.
THEOREM SomeBlockDisplayed == Spec => []DisplayedIsSomeBlock
<1>1. ProgrammerInv => DisplayedIsSomeBlock
  BY DEF ProgrammerInv
<1> QED
  BY <1>1, ProgrammerInvariant, PTL

LEMMA FlashStep ==
    ASSUME ProgrammerInv, Next
    PROVE  \/ chip'.flash = chip.flash
           \/ chip'.flash = [a \in Word |-> ErasedWord]
           \/ \E i \in DOMAIN Image :
                 chip'.flash = [chip.flash EXCEPT ![Image[i].addr] =
                                    Programmed(@, Image[i].word)]
<1>1. CASE Program \/ Kill \/ Start
  <2>1. HostStep
    BY <1>1, ProgramHostStep
  <2> QED
    BY <2>1 DEF HostStep, TransferIN, TransferOUT, firmwareVars, mainVars
<1>2. CASE BusEvent \/ BusSuspend
  BY <1>2 DEF BusEvent, BusSuspend, ConfigurationChanged,
     EVENT_USB_Device_ConfigurationChanged, Suspend, WakeUp, mainVars
<1>3. CASE MainStep
  <2>1. CASE /\ outBank # <<>> /\ packet[1] = 3
             /\ chip'.flash = [chip.flash EXCEPT ![AddressIn(packet)] =
                    Programmed(@, [low |-> packet[4], high |-> packet[5]])]
    <3>1. PICK i \in DOMAIN Image :
              /\ AddressIn(packet) = Image[i].addr
              /\ packet[4] = Image[i].word.low /\ packet[5] = Image[i].word.high
      BY <2>1, SentWrite DEF ProgrammerInv, CommandsInv
    <3>2. [low |-> packet[4], high |-> packet[5]] = Image[i].word
      <4>1. Image[i].word \in [low : Byte, high : Byte]
        BY ImageType DEF WordValue
      <4> QED
        BY <3>1, <4>1
    <3> QED
      BY <2>1, <3>1, <3>2
  <2> QED
    BY <1>3, <2>1, MainFlash DEF MainStep, ProgrammerInv
<1> QED
  BY <1>1, <1>2, <1>3 DEF Next

\* The flash changes only by the erase of the chip, or by a word of the image
\* programmed at its address: flash_write and the firmware's ProcessOUT write
\* nothing else, whatever packet was lost, late, or sent by a killed process.
THEOREM FlashChangesByImage == Spec => FlashChange
<1>1. ProgrammerInv /\ [Next]_vars =>
        [chip.flash' # chip.flash =>
            \/ chip.flash' = [a \in Word |-> ErasedWord]
            \/ \E i \in DOMAIN Image :
                  chip.flash' = [chip.flash EXCEPT ![Image[i].addr] =
                                     Programmed(@, Image[i].word)]]_vars
  <2> SUFFICES ASSUME ProgrammerInv, Next
               PROVE  chip.flash' # chip.flash =>
                         \/ chip.flash' = [a \in Word |-> ErasedWord]
                         \/ \E i \in DOMAIN Image :
                               chip.flash' = [chip.flash EXCEPT ![Image[i].addr] =
                                                  Programmed(@, Image[i].word)]
    OBVIOUS
  <2> QED
    BY FlashStep
<1> QED
  BY <1>1, ProgrammerInvariant, PTL DEF Spec, FlashChange
-----------------------------------------------------------------------------
\* While no transfer fails, the bus is not suspended and no process is killed:
\* what is displayed is the flash, a dump is complete, and a write leaves the
\* image.

\* What Written says of its n-th value, given the value before.
NextWritten(f, n) == [f EXCEPT ![Image[n].addr] = Programmed(@, Image[n].word)]

\* g is Written on the first n words of the image.
FollowsTo(g, n) ==
    g = [i \in 0..n |-> IF i = 0 THEN [a \in Word |-> ErasedWord]
                        ELSE NextWritten(g[i - 1], i)]

\* A function that follows the first n words extends to the next.
LEMMA FollowsFurther ==
    ASSUME NEW n \in Nat, NEW g, FollowsTo(g, n)
    PROVE  \E h : FollowsTo(h, n + 1)
<1> DEFINE h == [i \in 0..(n + 1) |-> IF i <= n THEN g[i] ELSE NextWritten(g[n], n + 1)]
           v(f, i) == IF i = 0 THEN [a \in Word |-> ErasedWord] ELSE NextWritten(f[i - 1], i)
<1>1. ASSUME NEW i \in 0..(n + 1) PROVE h[i] = v(h, i)
  <2>1. CASE i <= n
    <3>1. i \in 0..n
      BY <2>1
    <3>2. h[i] = g[i] /\ g[i] = v(g, i)
      BY <2>1, <3>1 DEF FollowsTo
    <3>3. i # 0 => h[i - 1] = g[i - 1]
      BY <2>1
    <3>4. v(g, i) = v(h, i)
      <4> HIDE DEF h
      <4> QED  BY <3>3
    <3> QED
      BY <3>2, <3>4
  <2>2. CASE i = n + 1
    <3>1. h[i] = NextWritten(g[n], n + 1) /\ h[n] = g[n] /\ i # 0 /\ i - 1 = n
      BY <2>2
    <3> HIDE DEF h
    <3> QED
      BY <2>2, <3>1
  <2> QED
    BY <2>1, <2>2
<1>2. h = [i \in 0..(n + 1) |-> h[i]]
  OBVIOUS
<1>3. FollowsTo(h, n + 1)
  <2> HIDE DEF h
  <2>1. h = [i \in 0..(n + 1) |-> v(h, i)]
    BY <1>1, <1>2
  <2> QED
    BY <2>1 DEF FollowsTo
<1> QED
  BY <1>3

\* There is one for every length: the least that had none would follow one that has.
LEMMA FollowsExist == \A n \in Nat : \E g : FollowsTo(g, n)
<1> DEFINE None == {n \in Nat : ~ \E g : FollowsTo(g, n)}
<1>1. SUFFICES ASSUME None # {} PROVE FALSE
  OBVIOUS
<1>2. PICK m \in None : \A n \in None : m <= n
  <2>1. None \in SUBSET Nat
    OBVIOUS
  <2> HIDE DEF None
  <2> QED
    BY <1>1, <2>1, Least
<1>3. CASE m = 0
  <2>1. FollowsTo([i \in 0..0 |-> [a \in Word |-> ErasedWord]], 0)
    BY DEF FollowsTo
  <2> QED
    BY <1>3, <2>1
<1>4. CASE m # 0
  <2>1. m - 1 \in Nat /\ m - 1 < m /\ m - 1 + 1 = m
    BY <1>4
  <2>2. m - 1 \notin None
    BY <1>2, <2>1
  <2>3. PICK g : FollowsTo(g, m - 1)
    BY <2>1, <2>2
  <2>4. \E h : FollowsTo(h, m)
    BY <2>1, <2>3, FollowsFurther
  <2> QED
    BY <2>4
<1> QED
  BY <1>3, <1>4

\* The flash after the erase and the first n words, step by step.
LEMMA WrittenDef ==
    FollowsTo(Written, Len(Image))
<1>1. Len(Image) \in Nat
  BY ImageAssumption, LenProperties
<1>2. \E g : FollowsTo(g, Len(Image))
  BY <1>1, FollowsExist
<1>3. Written = CHOOSE g : FollowsTo(g, Len(Image))
  BY DEF Written, FollowsTo, NextWritten
<1> QED
  BY <1>2, <1>3
-----------------------------------------------------------------------------
\* The steps of the abstract device, which the steps of the main loop are, in
\* the terms of this module.
SameDevice == UNCHANGED <<request, pending, inBank, chip.flash>>

Notes == /\ request # <<>> /\ request[1][1] \in {1, 2}
         /\ pending' = request[1] /\ request' = <<>>
         /\ UNCHANGED <<inBank, chip.flash>>

Drops == /\ request # <<>>
         /\ request[1] # <<>> => request[1][1] \in LedValues
         /\ request' = <<>> /\ pending' \in {pending, <<>>}
         /\ UNCHANGED <<inBank, chip.flash>>

Cancels == /\ request # <<>> /\ request[1][1] \in {3, 4}
           /\ pending' = <<>>
           /\ UNCHANGED <<request, inBank, chip.flash>>

Writes == /\ request # <<>> /\ request[1][1] = 3
          /\ chip'.flash = [chip.flash EXCEPT ![AddressIn(request[1])] =
                 Programmed(@, [low |-> request[1][4], high |-> request[1][5]])]
          /\ request' = <<>>
          /\ UNCHANGED <<pending, inBank>>

Erases == /\ request # <<>> /\ request[1][1] = 4
          /\ chip'.flash = [a \in Word |-> ErasedWord]
          /\ request' = <<>>
          /\ UNCHANGED <<pending, inBank>>

\* The answer the device owes for a request.
AnswerTo(p) == IF p[1] = 1 THEN Signature ELSE Block(chip.flash, AddressIn(p))

Replies == /\ inBank = <<>>
           /\ pending = <<>> => \E b \in Buttons : inBank' = << <<b>> >>
           /\ pending # <<>> => inBank' = <<AnswerTo(pending)>>
           /\ pending' = <<>>
           /\ UNCHANGED <<request, chip.flash>>

LEMMA MainMoves ==
    ASSUME FirmwareInv, Main
    PROVE  \/ SameDevice \/ Notes \/ Drops \/ Cancels
           \/ Writes \/ Erases \/ Replies
<1>1. \/ Device!Ignore \/ Device!Note \/ Device!ShowLeds \/ Device!Cancel
      \/ Device!Write \/ Device!Erase \/ Device!Reply \/ UNCHANGED deviceVars
  BY MainLoopStutters, ProcessOUTNothingImplements, ProcessOUTCommandImplements,
     ProcessOUTSessionImplements, SpiOutImplements, ProcessOUTEndStutters,
     ProcessINBusyStutters, ProcessINButtonsImplements, ProcessINSessionStutters,
     SpiInStutters, ProcessINEndImplements
     DEF Main
<1>2. Device!Ignore => Drops
  BY DEF Device!Ignore, Drops, request, pending
<1>3. Device!Note => Notes
  BY DEF Device!Note, Device!Asks, Notes, request, pending
<1>4. Device!ShowLeds => Drops
  BY DEF Device!ShowLeds, Device!Asks, Device!LedValues, LedValues, Drops, request, pending
<1>5. Device!Cancel => Cancels
  BY DEF Device!Cancel, Device!Asks, Cancels, request, pending
<1>6. Device!Write => Writes
  BY DEF Device!Write, Device!Asks, Writes, request, pending, Device!AddressIn, AddressIn,
     Device!Programmed, Programmed
<1>7. Device!Erase => Erases
  BY DEF Device!Erase, Device!Asks, Erases, request, pending, Device!Word, Word,
     Device!ErasedWord, ErasedWord, Device!ErasedByte, ErasedByte
<1>8. Device!Reply => Replies
  BY DEF Device!Reply, Device!AnswerTo, Device!Block, Block, Device!AddressIn, AddressIn,
     AnswerTo, Replies, request, pending
<1>9. UNCHANGED deviceVars => SameDevice
  BY DEF deviceVars, SameDevice
<1> QED
  BY <1>1, <1>2, <1>3, <1>4, <1>5, <1>6, <1>7, <1>8, <1>9

\* What a transfer and the bus do, in the same terms.
LEMMA FetchMoves ==
    ASSUME FirmwareInv, TransferIN
    PROVE  inBank # <<>> /\ inBank' = <<>> /\ UNCHANGED <<request, pending, chip.flash>>
BY TransferINImplements DEF Device!Fetch, request, pending

LEMMA SendMoves ==
    ASSUME FirmwareInv, NEW p, TransferOUT(p)
    PROVE  request = <<>> /\ request' = <<p>> /\ UNCHANGED <<pending, inBank, chip.flash>>
BY TransferOUTImplements DEF Device!Send, request, pending

LEMMA BusMoves ==
    ASSUME FirmwareInv, Bus \/ UNCHANGED firmwareVars
    PROVE  SameDevice
<1>1. CASE Bus
  BY <1>1, BusImplements DEF Device!Connection, SameDevice, request, pending
<1>2. CASE UNCHANGED firmwareVars
  BY <1>2 DEF firmwareVars, usbVars, mainVars, SameDevice, request, pending,
     SessionOver, Session, packet
<1> QED
  BY <1>1, <1>2
-----------------------------------------------------------------------------
\* No transfer has failed, the bus was not suspended and no process was killed.
Reliable == faults = 0 /\ kills = 0

\* The IN bank holds nothing but a state of the buttons.
NoReply == inBank # <<>> => IsButtons(inBank[1])

\* The device owes nothing; a write or an erase may still be outstanding.
NoneDue == /\ pending = <<>> /\ NoReply
           /\ request # <<>> => request[1] # <<>> /\ request[1][1] \in {3, 4}

\* The device owes the one answer to p, and nothing else: the request is on its
\* way, is noted, or is answered.
Due(p, answer) ==
    \/ request = <<p>> /\ pending = <<>> /\ NoReply
    \/ request = <<>> /\ pending = p /\ NoReply
    \/ request = <<>> /\ pending = <<>> /\ inBank = <<answer>>

\* The requests that are answered.
IsQuery(p) == p = IdRequest \/ \E a \in BlockAddress : p = ReadRequest(a)

LEMMA QueryFacts ==
    ASSUME NEW p, IsQuery(p)
    PROVE  p # <<>> /\ p[1] \in {1, 2} /\ p[1] \notin LedValues
<1>1. 1 \notin LedValues /\ 2 \notin LedValues
  BY DEF LedValues
<1> QED
  BY <1>1 DEF IsQuery, IdRequest, ReadRequest

\* The command of a write or an erase is neither of those nor a state of the LEDs.
LEMMA CommandFacts ==
    ASSUME NEW command, command \in {3, 4}
    PROVE  command \notin {1, 2} /\ command \notin LedValues
<1>1. 3 \notin LedValues /\ 4 \notin LedValues
  BY DEF LedValues
<1> QED
  BY <1>1

\* The main loop makes no answer that was not asked for.
LEMMA NoneDueKept ==
    ASSUME FirmwareInv, Main, NoneDue
    PROVE  /\ NoneDue'
           /\ request = <<>> => request' = <<>> /\ chip'.flash = chip.flash
<1>1. request # <<>> => /\ request[1] # <<>> /\ request[1][1] \notin {1, 2}
                        /\ request[1][1] \notin LedValues
  BY CommandFacts DEF NoneDue
<1>2. ~Notes /\ ~Drops
  BY <1>1 DEF Notes, Drops
<1>3. CASE Replies
  <2>1. PICK b \in Buttons : inBank' = << <<b>> >>
    BY <1>3 DEF Replies, NoneDue
  <2>2. IsButtons(inBank'[1])
    BY <2>1 DEF IsButtons
  <2> QED
    BY <1>3, <2>2 DEF Replies, NoneDue, NoReply
<1>4. CASE SameDevice \/ Cancels \/ Writes \/ Erases
  BY <1>4 DEF SameDevice, Cancels, Writes, Erases, NoneDue, NoReply
<1> QED
  BY <1>2, <1>3, <1>4, MainMoves

\* It brings the answer that is due closer, and changes nothing meanwhile.
LEMMA DueKept ==
    ASSUME FirmwareInv, Main, NEW p, IsQuery(p), NEW answer, answer = AnswerTo(p),
           Due(p, answer)
    PROVE  Due(p, answer)' /\ chip'.flash = chip.flash
<1>1. p # <<>> /\ p[1] \in {1, 2} /\ p[1] \notin LedValues
  BY QueryFacts
<1>2. request # <<>> => request[1] = p
  BY DEF Due
<1>3. ~Drops /\ ~Cancels /\ ~Writes /\ ~Erases
  <2>1. p[1] \notin {3, 4} /\ p[1] # 3 /\ p[1] # 4
    BY <1>1
  <2>2. request # <<>> =>
          /\ request[1] # <<>> /\ request[1][1] \notin LedValues
          /\ request[1][1] \notin {3, 4} /\ request[1][1] # 3 /\ request[1][1] # 4
    BY <1>1, <1>2, <2>1, Zenon
  <2> QED
    BY <2>2, Zenon DEF Drops, Cancels, Writes, Erases
<1>4. CASE SameDevice
  BY <1>4 DEF SameDevice, Due, NoReply
<1>5. CASE Notes
  BY <1>1, <1>2, <1>5 DEF Notes, Due, NoReply
<1>6. CASE Replies
  <2>1. CASE pending = <<>>
    <3>1. PICK b \in Buttons : inBank' = << <<b>> >>
      BY <1>6, <2>1 DEF Replies
    <3>2. IsButtons(inBank'[1])
      BY <3>1 DEF IsButtons
    <3> QED
      BY <1>1, <1>6, <2>1, <3>2 DEF Replies, Due, NoReply
  <2>2. CASE pending # <<>>
    BY <1>6, <2>2 DEF Replies, Due, NoReply
  <2> QED
    BY <2>1, <2>2
<1> QED
  BY <1>3, <1>4, <1>5, <1>6, MainMoves

\* What the fetched packet says of the answer that is due.
LEMMA DueFetched ==
    ASSUME FirmwareInv, TransferIN, NEW p, NEW answer, Due(p, answer),
           Len(answer) # 1
    PROVE  /\ chip'.flash = chip.flash
           /\ IsButtons(Arriving) => Due(p, answer)'
           /\ ~IsButtons(Arriving) =>
                 /\ Arriving = answer
                 /\ request' = <<>> /\ pending' = <<>> /\ inBank' = <<>>
<1>1. inBank # <<>> /\ inBank' = <<>> /\ UNCHANGED <<request, pending, chip.flash>>
  BY FetchMoves
<1>2. CASE NoReply /\ inBank # <<answer>>
  <2>1. IsButtons(Arriving)
    BY <1>1, <1>2 DEF NoReply, Arriving
  <2> QED
    BY <1>1, <1>2, <2>1 DEF Due, NoReply
<1>3. CASE inBank = <<answer>>
  <2>1. Arriving = answer /\ ~IsButtons(Arriving)
    BY <1>3 DEF Arriving, IsButtons
  <2>2. ~NoReply
    BY <1>1, <2>1 DEF NoReply, Arriving
  <2> QED
    BY <1>1, <2>1, <2>2 DEF Due
<1> QED
  BY <1>2, <1>3 DEF Due, NoReply
-----------------------------------------------------------------------------
\* The program and the device are of one mind: an answer is due exactly while
\* the program waits for it, and what came out of isp_ids is the signature.
ExchangeInv ==
    /\ hpc = "isp_in" => Due(IdRequest, Signature)
    /\ hpc = "read_in" => /\ addr \in BlockAddress
                          /\ Due(ReadRequest(addr), Block(chip.flash, addr))
    /\ hpc \notin {"isp_in", "read_in"} => NoneDue
    /\ hpc = "lookup" => sig = Signature

\* Nothing is displayed yet.
Blank == \A a \in BlockAddress : shown[a] = <<>>

\* Once a block is displayed, no command to change the flash is outstanding.
DisplayInv ==
    /\ shown \in [BlockAddress -> {<<>>} \cup [1..4 -> Uint16]]
    /\ ~Blank => /\ hpc \in {"read_out", "read_in", "close"} \cup Ended
                 /\ hpc # "read_in" => request = <<>>
    /\ DisplayedIsFlash

Waiting == {"isp_in", "read_in"}

LEMMA AnswerFacts ==
    ASSUME NEW a \in BlockAddress
    PROVE  /\ IsQuery(ReadRequest(a))
           /\ AnswerTo(ReadRequest(a)) = Block(chip.flash, a)
           /\ Len(Block(chip.flash, a)) = 8
<1>1. a \in Nat /\ a < 65536
  BY WordFacts DEF BlockAddress
<1>2. AddressIn(ReadRequest(a)) = a /\ ReadRequest(a)[1] = 2
  BY <1>1, SplitJoin DEF ReadRequest
<1>3. Len(Block(chip.flash, a)) = 8
  <2> DEFINE e(k) == IF k % 2 = 1 THEN chip.flash[a + (k - 1) \div 2].low
                     ELSE chip.flash[a + (k - 1) \div 2].high
  <2>1. Block(chip.flash, a) = [k \in 1..8 |-> e(k)]
    BY DEF Block
  <2> HIDE DEF e
  <2> QED
    BY <2>1
<1> QED
  BY <1>2, <1>3 DEF AnswerTo, IsQuery

LEMMA IdAnswerFacts ==
    IsQuery(IdRequest) /\ AnswerTo(IdRequest) = Signature /\ Len(Signature) = 3
<1>1. IdRequest[1] = 1
  BY DEF IdRequest
<1> QED
  BY <1>1, SignatureAssumption DEF AnswerTo, IsQuery

\* What is displayed stays the flash while the flash does not change.
LEMMA DisplayedKept ==
    ASSUME DisplayedIsFlash, shown' = shown, chip'.flash = chip.flash \/ Blank
    PROVE  DisplayedIsFlash'
<1>1. CASE Blank
  BY <1>1 DEF Blank, DisplayedIsFlash
<1>2. CASE chip'.flash = chip.flash
  <2>1. \A a : FlashWordsAt(a)' = FlashWordsAt(a)
    BY <1>2 DEF FlashWordsAt
  <2> QED
    BY <2>1 DEF DisplayedIsFlash
<1> QED
  BY <1>1, <1>2

LEMMA MainExchange ==
    ASSUME FirmwareInv, ExchangeInv, DisplayInv, MainStep
    PROVE  ExchangeInv' /\ DisplayInv'
<1>1. Main /\ hpc' = hpc /\ addr' = addr /\ shown' = shown /\ sig' = sig
  BY DEF MainStep, hostVars
<1>2. CASE hpc = "isp_in"
  <2>1. Due(IdRequest, Signature)' /\ Blank
    BY <1>1, <1>2, IdAnswerFacts, DueKept DEF ExchangeInv, DisplayInv, Ended
  <2>2. ExchangeInv'
    BY <1>1, <1>2, <2>1 DEF ExchangeInv
  <2> QED
    BY <1>1, <2>1, <2>2, DisplayedKept DEF DisplayInv, Blank
<1>3. CASE hpc = "read_in"
  <2> DEFINE p == ReadRequest(addr)
             b == Block(chip.flash, addr)
  <2>1. addr \in BlockAddress /\ Due(p, b) /\ IsQuery(p) /\ b = AnswerTo(p)
    BY <1>3, AnswerFacts DEF ExchangeInv
  <2>2. p' = p /\ (chip'.flash = chip.flash => b' = b)
    BY <1>1 DEF Block
  <2> HIDE DEF p, b
  <2>3. Due(p, b)' /\ chip'.flash = chip.flash
    BY <1>1, <2>1, <2>2, DueKept DEF Due
  <2>4. ExchangeInv'
    BY <1>1, <1>3, <2>1, <2>3 DEF ExchangeInv, p, b
  <2> QED
    BY <1>1, <1>3, <2>3, <2>4, DisplayedKept DEF DisplayInv, Blank
<1>4. CASE hpc \notin Waiting
  <2>1. NoneDue' /\ (request = <<>> => request' = <<>> /\ chip'.flash = chip.flash)
    BY <1>1, <1>4, NoneDueKept DEF ExchangeInv, Waiting
  <2>2. ExchangeInv'
    BY <1>1, <1>4, <2>1 DEF ExchangeInv, Waiting
  <2>3. Blank' = Blank
    BY <1>1 DEF Blank
  <2>4. chip'.flash = chip.flash \/ Blank
    BY <1>4, <2>1 DEF DisplayInv, Waiting
  <2> QED
    BY <1>1, <1>4, <2>1, <2>2, <2>3, <2>4, DisplayedKept DEF DisplayInv
<1> QED
  BY <1>2, <1>3, <1>4 DEF Waiting

\* A step that the device does not see, of a program that waits for no answer.
LEMMA IdleExchange ==
    ASSUME FirmwareInv, ExchangeInv, SameDevice,
           hpc \notin Waiting, hpc' \notin Waiting \cup {"lookup"}
    PROVE  ExchangeInv'
BY DEF ExchangeInv, Waiting, SameDevice, NoneDue, NoReply

\* A step that leaves the device and the display alone.
LEMMA IdleDisplay ==
    ASSUME DisplayInv, SameDevice, shown' = shown,
           Blank \/ hpc' \in {"read_out", "close"} \cup Ended,
           hpc # "read_in"
    PROVE  DisplayInv'
<1>1. Blank' = Blank
  BY DEF Blank
<1> QED
  BY <1>1, DisplayedKept DEF DisplayInv, SameDevice

LEMMA BusExchange ==
    ASSUME FirmwareInv, ExchangeInv, DisplayInv, BusEvent
    PROVE  ExchangeInv' /\ DisplayInv'
<1>1. SameDevice /\ hpc' = hpc /\ addr' = addr /\ shown' = shown /\ sig' = sig
  BY BusMoves DEF BusEvent, Bus, hostVars
<1>2. ExchangeInv'
  BY <1>1 DEF SameDevice, ExchangeInv, Due, NoneDue, NoReply, Block
<1>3. Blank' = Blank
  BY <1>1 DEF Blank
<1> QED
  BY <1>1, <1>2, <1>3, DisplayedKept DEF DisplayInv, SameDevice
-----------------------------------------------------------------------------
\* Transfers, when none of them fails.
LEMMA NoFailure ==
    ASSUME Reliable, Reliable'
    PROVE  /\ \A p : ~SendFails(p)
           /\ ~ReceiveFails /\ ~Kill /\ ~BusSuspend
BY DEF Reliable, SendFails, ReceiveFails, Kill, BusSuspend

\* A request that is answered is sent by a program that is owed nothing.
LEMMA QuerySent ==
    ASSUME FirmwareInv, NEW p, NEW answer, NoneDue, TransferOUT(p)
    PROVE  Due(p, answer)' /\ chip'.flash = chip.flash /\ request = <<>>
<1>1. request = <<>> /\ request' = <<p>> /\ UNCHANGED <<pending, inBank, chip.flash>>
  BY SendMoves
<1> QED
  BY <1>1 DEF NoneDue, NoReply, Due

LEMMA IspOutExchange ==
    ASSUME FirmwareInv, ExchangeInv, DisplayInv, Reliable, Reliable', IspOut
    PROVE  ExchangeInv' /\ DisplayInv'
<1>1. TransferOUT(IdRequest) /\ hpc = "isp_out" /\ hpc' = "isp_in" /\ shown' = shown
  BY NoFailure DEF IspOut, SendOk, Goto
<1>2. Due(IdRequest, Signature)' /\ chip'.flash = chip.flash
  BY <1>1, QuerySent DEF ExchangeInv
<1>3. ExchangeInv'
  BY <1>1, <1>2 DEF ExchangeInv
<1>4. Blank /\ Blank'
  BY <1>1 DEF DisplayInv, Ended, Blank
<1> QED
  BY <1>1, <1>2, <1>3, <1>4, DisplayedKept DEF DisplayInv

\* The signature itself is what ends isp_ids.
LEMMA IspInExchange ==
    ASSUME FirmwareInv, ExchangeInv, DisplayInv, Reliable, Reliable', IspIn
    PROVE  ExchangeInv' /\ DisplayInv'
<1>1. /\ TransferIN /\ hpc = "isp_in" /\ shown' = shown
      /\ \/ /\ sig' = Received(Arriving, sig)
            /\ hpc' = IF IsButtons(Arriving) THEN "isp_in" ELSE "lookup"
         \/ Len(Arriving) > 3 /\ hpc' = "lookup"
  BY NoFailure DEF IspIn, ReceiveOk, ReceiveOverflows, Goto
<1>2. Due(IdRequest, Signature) /\ Len(Signature) = 3
  BY <1>1, IdAnswerFacts DEF ExchangeInv
<1>3. /\ chip'.flash = chip.flash
      /\ IsButtons(Arriving) => Due(IdRequest, Signature)'
      /\ ~IsButtons(Arriving) =>
            /\ Arriving = Signature
            /\ request' = <<>> /\ pending' = <<>> /\ inBank' = <<>>
  BY <1>1, <1>2, DueFetched
<1>4. Blank /\ Blank'
  BY <1>1 DEF DisplayInv, Ended, Blank
<1>5. ExchangeInv'
  <2>1. CASE IsButtons(Arriving)
    <3>1. Len(Arriving) = 1
      BY <2>1 DEF IsButtons
    <3>2. hpc' = "isp_in"
      BY <1>1, <2>1, <3>1
    <3> QED
      BY <1>3, <2>1, <3>2 DEF ExchangeInv
  <2>2. CASE ~IsButtons(Arriving)
    <3>1. Arriving = Signature /\ sig' = Received(Signature, sig) /\ hpc' = "lookup"
      <4>1. Arriving = Signature
        BY <1>3, <2>2
      <4>2. ~(Len(Arriving) > 3)
        <5>1. Len(Arriving) = 3
          BY <1>2, <4>1, Zenon
        <5> QED
          BY <5>1
      <4>3. sig' = Received(Arriving, sig) /\ hpc' = "lookup"
        BY <1>1, <2>2, <4>2, Zenon
      <4> QED
        BY <4>1, <4>3, Zenon
    <3>2. sig' = Signature
      <4>1. Received(Signature, sig) = [k \in 1..3 |-> Signature[k]]
        BY <1>2 DEF Received
      <4> QED
        BY <3>1, <4>1, SignatureAssumption
    <3>3. NoneDue'
      BY <1>3, <2>2 DEF NoneDue, NoReply
    <3> QED
      BY <3>1, <3>2, <3>3 DEF ExchangeInv
  <2> QED
    BY <2>1, <2>2
<1> QED
  BY <1>1, <1>3, <1>4, <1>5, DisplayedKept DEF DisplayInv

\* The request for a block.
LEMMA RequestBlockExchange ==
    ASSUME FirmwareInv, ExchangeInv, DisplayInv, Reliable, Reliable',
           hpc = "read_out", addr \in BlockAddress, RequestBlock
    PROVE  ExchangeInv' /\ DisplayInv' /\ hpc' = "read_in" /\ addr' = addr
<1>1. TransferOUT(ReadRequest(addr)) /\ hpc' = "read_in" /\ addr' = addr /\ shown' = shown
  BY NoFailure DEF RequestBlock, SendOk, Goto
<1> DEFINE p == ReadRequest(addr)
           b == Block(chip.flash, addr)
<1>2. Due(p, b)' /\ chip'.flash = chip.flash
  <2>1. p' = p /\ (chip'.flash = chip.flash => b' = b)
    BY <1>1 DEF Block
  <2>2. TransferOUT(p) /\ NoneDue
    BY <1>1 DEF ExchangeInv
  <2> HIDE DEF p, b
  <2> QED
    BY <2>1, <2>2, QuerySent DEF Due
<1>3. ExchangeInv'
  BY <1>1, <1>2 DEF ExchangeInv
<1>4. Blank' = Blank
  BY <1>1 DEF Blank
<1> QED
  BY <1>1, <1>2, <1>3, <1>4, DisplayedKept DEF DisplayInv

\* The words of a block are those of the flash at its address.
LEMMA BlockWords ==
    ASSUME NEW a \in BlockAddress
    PROVE  WordsIn(Block(chip.flash, a)) = FlashWordsAt(a)
<1>1. a \in Nat
  BY WordFacts DEF BlockAddress
<1>2. ASSUME NEW k \in 1..4
      PROVE  /\ Block(chip.flash, a)[2 * k] = chip.flash[a + k - 1].high
             /\ Block(chip.flash, a)[2 * k - 1] = chip.flash[a + k - 1].low
  <2>1. 2 * k \in 1..8 /\ 2 * k - 1 \in 1..8
    OBVIOUS
  <2>2. /\ (2 * k) % 2 = 0 /\ (2 * k - 1) \div 2 = k - 1
        /\ (2 * k - 1) % 2 = 1 /\ (2 * k - 1 - 1) \div 2 = k - 1
    OBVIOUS
  <2>3. a + (k - 1) = a + k - 1
    BY <1>1
  <2> QED
    BY <2>1, <2>2, <2>3 DEF Block
<1> QED
  BY <1>2 DEF WordsIn, FlashWordsAt

\* The block that is displayed is the one that was asked for.
LEMMA ReadInExchange ==
    ASSUME FirmwareInv, ExchangeInv, DisplayInv, Reliable, Reliable', ReadIn
    PROVE  /\ ExchangeInv' /\ DisplayInv'
           /\ \/ UNCHANGED <<hpc, addr, shown>>
              \/ /\ hpc' = "read_out" /\ addr' = NextAddr
                 /\ shown' = [shown EXCEPT ![addr] = FlashWordsAt(addr)]
<1> DEFINE p == ReadRequest(addr)
           b == Block(chip.flash, addr)
<1>1. TransferIN /\ hpc = "read_in" /\ addr \in BlockAddress /\ Due(p, b) /\ Len(b) = 8
  BY NoFailure, AnswerFacts DEF ReadIn, ReceiveOk, ExchangeInv
<1> HIDE DEF p, b
<1>2. /\ chip'.flash = chip.flash
      /\ IsButtons(Arriving) => Due(p, b)'
      /\ ~IsButtons(Arriving) =>
            Arriving = b /\ request' = <<>> /\ pending' = <<>> /\ inBank' = <<>>
  <2>1. Len(b) # 1
    BY <1>1
  <2>2. addr' = addr \/ ~IsButtons(Arriving)
    BY NoFailure DEF ReadIn, IsBlock, IsSignature, IsButtons
  <2>3. chip'.flash = chip.flash
    BY <1>1, FetchMoves
  <2>4. addr' = addr => p' = p /\ b' = b
    BY <2>3 DEF p, b, Block
  <2> QED
    BY <1>1, <2>1, <2>2, <2>3, <2>4, DueFetched DEF Due
<1>3. CASE IsButtons(Arriving)
  <2>1. UNCHANGED <<hpc, addr, shown>>
    BY <1>3, NoFailure DEF ReadIn, IsBlock, IsSignature, IsButtons
  <2>2. ExchangeInv'
    BY <1>1, <1>2, <1>3, <2>1 DEF ExchangeInv, p, b
  <2>3. Blank' = Blank
    BY <2>1 DEF Blank
  <2> QED
    BY <1>1, <1>2, <2>1, <2>2, <2>3, DisplayedKept DEF DisplayInv
<1>4. CASE ~IsButtons(Arriving)
  <2>1. Arriving = b /\ Len(Arriving) = 8
    BY <1>1, <1>2, <1>4
  <2>2. /\ shown' = [shown EXCEPT ![addr] = WordsIn(b)]
        /\ hpc' = "read_out" /\ addr' = NextAddr
    BY <2>1, NoFailure DEF ReadIn, IsBlock, IsSignature, IsButtons, Goto
  <2>3. WordsIn(b) = FlashWordsAt(addr)
    BY <1>1, BlockWords DEF b
  <2>4. NoneDue'
    BY <1>2, <1>4 DEF NoneDue, NoReply
  <2>5. ExchangeInv'
    BY <2>2, <2>4 DEF ExchangeInv
  <2>6. DisplayedIsFlash'
    <3>1. \A a : FlashWordsAt(a)' = FlashWordsAt(a)
      BY <1>2 DEF FlashWordsAt
    <3>2. \A a \in BlockAddress : shown'[a] = IF a = addr THEN FlashWordsAt(addr) ELSE shown[a]
      BY <1>1, <2>2, <2>3 DEF DisplayInv
    <3> QED
      BY <3>1, <3>2 DEF DisplayInv, DisplayedIsFlash
  <2>7. shown' \in [BlockAddress -> {<<>>} \cup [1..4 -> Uint16]]
    <3>1. WordsIn(b) \in [1..4 -> Uint16]
      <4>1. Arriving \in Seq(Byte)
        BY <1>1 DEF TransferIN, Arriving, FirmwareInv, FirmwareTypeOK
      <4> QED
        BY <2>1, <4>1, WordsType
    <3> QED
      BY <2>2, <3>1 DEF DisplayInv
  <2> QED
    BY <1>2, <1>4, <2>2, <2>3, <2>5, <2>6, <2>7 DEF DisplayInv
<1> QED
  BY <1>3, <1>4
-----------------------------------------------------------------------------
\* A dump goes through the target's whole flash, and has displayed every block
\* before the one it is at.
DumpInv ==
    /\ (mode = "read" /\ hpc \in {"read_out", "read_in"}) =>
          /\ cible \in DOMAIN base_de_donnees
          /\ base_de_donnees[cible].signature = Signature
          /\ addr \in Uint16 /\ addr % 4 = 0
          /\ \A a \in BlockAddress : a < addr => shown[a] # <<>>
    /\ CompleteDump

\* The entry recherche_cible finds is one with the signature asked for.
LEMMA FoundEntry ==
    ASSUME NEW s, recherche_cible(s) # 0
    PROVE  /\ recherche_cible(s) \in DOMAIN base_de_donnees
           /\ base_de_donnees[recherche_cible(s)].signature = s
<1> DEFINE Matches == {i \in DOMAIN base_de_donnees : base_de_donnees[i].signature = s}
<1>1. Matches \in SUBSET Nat
  <2>1. DOMAIN base_de_donnees = 1..Len(base_de_donnees) /\ Len(base_de_donnees) \in Nat
    BY DatabaseAssumption, LenProperties
  <2> QED
    BY <2>1
<1>2. recherche_cible(s) = IF Matches = {} THEN 0
                           ELSE CHOOSE i \in Matches : \A j \in Matches : i <= j
  BY DEF recherche_cible
<1>3. recherche_cible(s) \in Matches
  <2> HIDE DEF Matches
  <2>1. Matches # {}
    BY <1>2
  <2>2. \E i \in Matches : \A j \in Matches : i <= j
    BY <1>1, <2>1, Least
  <2>3. (CHOOSE i \in Matches : \A j \in Matches : i <= j) \in Matches
    BY <2>2
  <2> QED
    BY <1>2, <2>1, <2>3, Zenon
<1> QED
  BY <1>3

\* The size of a target with the right signature is that of the flash.
LEMMA WholeFlash ==
    ASSUME NEW i \in DOMAIN base_de_donnees, base_de_donnees[i].signature = Signature
    PROVE  base_de_donnees[i].taille_flash \div 2 = FlashWords
<1>1. base_de_donnees[i].taille_flash = 2 * FlashWords
  BY SizesAssumption
<1>2. (2 * FlashWords) \div 2 = FlashWords
  BY FlashAssumption
<1> QED
  BY <1>1, <1>2

LEMMA LookupDump ==
    ASSUME ExchangeInv, Lookup
    PROVE  DumpInv'
<1>1. /\ cible' = recherche_cible(sig) /\ addr' = 0 /\ mode' = mode /\ sig = Signature
      /\ mode = "read" => hpc' \in {"read_out", "crashed"}
      /\ (mode = "read" /\ hpc' = "read_out") => cible' # 0
  BY DEF Lookup, Goto, ExchangeInv
<1>2. \A a \in BlockAddress : ~(a < 0)
  BY WordFacts DEF BlockAddress
<1>3. 0 \in Uint16 /\ 0 % 4 = 0
  BY DEF Uint16
<1>4. CompleteDump'
  BY <1>1 DEF CompleteDump
<1>5. (mode' = "read" /\ hpc' \in {"read_out", "read_in"}) =>
          /\ cible' \in DOMAIN base_de_donnees
          /\ base_de_donnees[cible'].signature = Signature
  BY <1>1, FoundEntry
<1> QED
  BY <1>1, <1>2, <1>3, <1>4, <1>5 DEF DumpInv

\* The next block: the one just displayed is behind it.
LEMMA ReadInDump ==
    ASSUME DumpInv, DisplayInv, addr \in BlockAddress, hpc = "read_in",
           UNCHANGED <<mode, cible>>,
           hpc' = "read_out" /\ addr' = NextAddr,
           shown' = [shown EXCEPT ![addr] = FlashWordsAt(addr)]
    PROVE  DumpInv'
<1>1. SUFFICES ASSUME mode = "read" PROVE DumpInv'
  BY <1>1 DEF DumpInv, CompleteDump
<1>2. /\ cible \in DOMAIN base_de_donnees
      /\ base_de_donnees[cible].signature = Signature
      /\ addr \in Uint16 /\ addr % 4 = 0
      /\ \A a \in BlockAddress : a < addr => shown[a] # <<>>
  BY <1>1 DEF DumpInv
<1>3. NextAddr \in Uint16 /\ NextAddr % 4 = 0
  BY <1>2, NextAddrFacts
<1>4. ASSUME NEW a \in BlockAddress, a < NextAddr
      PROVE  a < addr \/ a = addr
  <2>1. a \in Nat /\ a % 4 = 0 /\ addr \in Nat /\ addr % 4 = 0
    BY <1>2, WordFacts DEF BlockAddress, Uint16
  <2>2. NextAddr <= addr + 4
    BY <2>1 DEF NextAddr
  <2>3. a < addr + 4
    BY <1>2, <1>3, <1>4, <2>1, <2>2 DEF Uint16
  <2> QED
    BY <2>1, <2>3
<1>5. FlashWordsAt(addr) # <<>>
  <2>1. DOMAIN FlashWordsAt(addr) = 1..4
    BY DEF FlashWordsAt
  <2>2. 1 \in 1..4 /\ 1 \notin DOMAIN <<>>
    OBVIOUS
  <2> QED
    BY <2>1, <2>2
<1>6. \A a \in BlockAddress : shown'[a] = IF a = addr THEN FlashWordsAt(addr) ELSE shown[a]
  BY DEF DisplayInv
<1>7. \A a \in BlockAddress : a < NextAddr => shown'[a] # <<>>
  BY <1>2, <1>4, <1>5, <1>6
<1> QED
  BY <1>2, <1>3, <1>7 DEF DumpInv, CompleteDump

LEMMA ReadEndDump ==
    ASSUME DumpInv, ReadEnd
    PROVE  DumpInv'
<1>1. /\ hpc = "read_out" /\ hpc' = "close" /\ UNCHANGED <<mode, shown>>
      /\ addr >= base_de_donnees[cible].taille_flash \div 2
  BY DEF ReadEnd, Goto
<1>2. SUFFICES ASSUME mode = "read", NEW a \in BlockAddress
               PROVE  shown[a] # <<>>
  BY <1>1, <1>2 DEF DumpInv, CompleteDump
<1>3. addr >= FlashWords /\ addr \in Nat
  BY <1>1, <1>2, WholeFlash DEF DumpInv, Uint16
<1>4. a < addr
  BY <1>3, FlashAssumption DEF BlockAddress, Word
<1> QED
  BY <1>1, <1>2, <1>4 DEF DumpInv

\* A step that is not part of a dump.
LEMMA OtherDump ==
    ASSUME DumpInv, UNCHANGED <<mode, shown>>, 
           hpc' \notin {"read_out", "read_in"} \/ UNCHANGED <<cible, addr>>,
           hpc' \in {"read_out", "read_in"} => hpc \in {"read_out", "read_in"},
           hpc' = "close" => hpc = "close" \/ mode # "read"
    PROVE  DumpInv'
BY DEF DumpInv, CompleteDump
-----------------------------------------------------------------------------
\* The flash holds the erase and the words sent so far, but for the last packet
\* while that is outstanding.
Sent ==
    \/ request = <<>> /\ chip.flash = Written[item - 1]
    \/ request = <<EraseRequest>> /\ item = 1
    \/ /\ item > 1 /\ chip.flash = Written[item - 2]
       /\ request = <<WriteRequest(Image[item - 1].addr, Image[item - 1].word)>>

ImageInv ==
    /\ (mode = "write" /\ hpc = "write") => item \in 1..(Len(Image) + 1) /\ Sent
    /\ (mode = "write" /\ hpc = "close") => success
    /\ success => /\ hpc \in {"close"} \cup Ended
                  /\ item = Len(Image) + 1 /\ Sent

\* Written, word by word.
LEMMA WrittenStep ==
    /\ Written[0] = [a \in Word |-> ErasedWord]
    /\ \A i \in 1..Len(Image) : Written[i] = NextWritten(Written[i - 1], i)
<1>1. Len(Image) \in Nat
  BY ImageAssumption, LenProperties
<1> DEFINE N == Len(Image)
<1>2. Written = [i \in 0..N |-> IF i = 0 THEN [a \in Word |-> ErasedWord]
                                ELSE NextWritten(Written[i - 1], i)]
  BY WrittenDef DEF FollowsTo
<1> HIDE DEF N
<1>3. N \in Nat
  BY <1>1 DEF N
<1>4. \A i \in 0..N : Written[i] = IF i = 0 THEN [a \in Word |-> ErasedWord]
                                  ELSE NextWritten(Written[i - 1], i)
  BY <1>2, Zenon
<1>5. 0 \in 0..N /\ \A i \in 1..N : i \in 0..N /\ i # 0
  BY <1>3
<1>6. \A i \in 1..N : Written[i] = NextWritten(Written[i - 1], i)
  BY <1>4, <1>5, Zenon
<1> QED
  BY <1>4, <1>5, <1>6 DEF N

\* The word a write request carries is programmed at its address.
LEMMA WriteProgrammed ==
    ASSUME NEW i \in 1..Len(Image), Writes,
           request = <<WriteRequest(Image[i].addr, Image[i].word)>>,
           chip.flash = Written[i - 1]
    PROVE  chip'.flash = Written[i]
<1> DEFINE p == WriteRequest(Image[i].addr, Image[i].word)
<1>1. i \in DOMAIN Image
  BY ImageAssumption, LenProperties
<1>2. /\ AddressIn(p) = Image[i].addr
      /\ p[4] = Image[i].word.low /\ p[5] = Image[i].word.high
  BY <1>1, ImageType, WriteIsRequest
<1>3. [low |-> p[4], high |-> p[5]] = Image[i].word
  <2>1. Image[i].word \in [low : Byte, high : Byte]
    BY <1>1, ImageType DEF WordValue
  <2> QED
    BY <1>2, <2>1
<1>4. request[1] = p
  OBVIOUS
<1> HIDE DEF p
<1>5. chip'.flash = [chip.flash EXCEPT ![Image[i].addr] = Programmed(@, Image[i].word)]
  BY <1>2, <1>3, <1>4 DEF Writes
<1> QED
  BY <1>5, WrittenStep DEF NextWritten

\* The main loop carries out the packet that is outstanding, and nothing else.
LEMMA MainSent ==
    ASSUME FirmwareInv, Main, NoneDue, item' = item, item \in 1..(Len(Image) + 1), Sent
    PROVE  Sent'
<1>1. CASE request = <<>>
  BY <1>1, NoneDueKept DEF Sent
<1>2. CASE request # <<>>
  <2>1. request[1] # <<>> /\ request[1][1] \in {3, 4}
    BY <1>2 DEF NoneDue
  <2>2. ~Notes /\ ~Drops
    BY <2>1, CommandFacts DEF Notes, Drops
  <2>3. CASE SameDevice \/ Cancels \/ Replies
    BY <2>3 DEF SameDevice, Cancels, Replies, Sent
  <2>4. CASE Erases
    <3>1. request = <<EraseRequest>> /\ item = 1
      BY <1>2, <2>4 DEF Sent, Erases, WriteRequest
    <3>2. chip'.flash = Written[0] /\ request' = <<>>
      BY <2>4, WrittenStep DEF Erases
    <3> QED
      BY <3>1, <3>2 DEF Sent
  <2>5. CASE Writes
    <3>1. /\ item > 1 /\ chip.flash = Written[item - 2]
          /\ request = <<WriteRequest(Image[item - 1].addr, Image[item - 1].word)>>
      BY <1>2, <2>5 DEF Sent, Writes, EraseRequest
    <3>2. Len(Image) \in Nat
      BY ImageAssumption, LenProperties
    <3>3. item - 1 \in 1..Len(Image) /\ item - 1 - 1 = item - 2
      BY <3>1, <3>2
    <3>4. chip'.flash = Written[item - 1]
      BY <2>5, <3>1, <3>3, WriteProgrammed
    <3> QED
      BY <2>5, <3>4 DEF Sent, Writes
  <2> QED
    BY <2>2, <2>3, <2>4, <2>5, MainMoves
<1> QED
  BY <1>1, <1>2

LEMMA SentKept ==
    ASSUME SameDevice, item' = item, Sent
    PROVE  Sent'
BY DEF SameDevice, Sent

\* A write or an erase is sent by a program that is owed nothing.
LEMMA CommandSent ==
    ASSUME FirmwareInv, NEW p, NoneDue, TransferOUT(p), p # <<>>, p[1] \in {3, 4}
    PROVE  NoneDue' /\ request = <<>> /\ request' = <<p>> /\ chip'.flash = chip.flash
<1>1. request = <<>> /\ request' = <<p>> /\ UNCHANGED <<pending, inBank, chip.flash>>
  BY SendMoves
<1> QED
  BY <1>1 DEF NoneDue, NoReply

LEMMA EraseOutImage ==
    ASSUME FirmwareInv, ExchangeInv, DisplayInv, ImageInv, Reliable, Reliable', EraseOut
    PROVE  ExchangeInv' /\ DisplayInv' /\ ImageInv'
<1>1. /\ TransferOUT(EraseRequest) /\ hpc = "erase" /\ hpc' = "write" /\ item' = 1
      /\ UNCHANGED <<mode, shown, success>>
  BY NoFailure DEF EraseOut, SendOk, Goto
<1>2. NoneDue' /\ request' = <<EraseRequest>> /\ chip'.flash = chip.flash
  BY <1>1, CommandSent DEF ExchangeInv, EraseRequest
<1>3. Blank /\ Blank'
  BY <1>1 DEF DisplayInv, Ended, Blank
<1>4. ExchangeInv' /\ DisplayInv'
  BY <1>1, <1>2, <1>3, DisplayedKept DEF ExchangeInv, DisplayInv
<1>5. ~success
  BY <1>1 DEF ImageInv, Ended
<1>6. Len(Image) \in Nat
  BY ImageAssumption, LenProperties
<1> QED
  BY <1>1, <1>2, <1>4, <1>5, <1>6 DEF ImageInv, Sent

LEMMA WriteOutImage ==
    ASSUME FirmwareInv, ExchangeInv, DisplayInv, ImageInv, Reliable, Reliable', WriteOut,
           mode = "write"
    PROVE  ExchangeInv' /\ DisplayInv' /\ ImageInv'
<1> DEFINE p == WriteRequest(Image[item].addr, Image[item].word)
<1>1. /\ TransferOUT(p) /\ hpc = "write" /\ hpc' = hpc /\ item' = item + 1
      /\ item <= Len(Image) /\ UNCHANGED <<mode, shown, success>>
  BY NoFailure DEF WriteOut, SendWord, SendOk
<1>2. p # <<>> /\ p[1] \in {3, 4}
  BY DEF WriteRequest
<1> HIDE DEF p
<1>3. NoneDue' /\ request = <<>> /\ request' = <<p>> /\ chip'.flash = chip.flash
  BY <1>1, <1>2, CommandSent DEF ExchangeInv
<1>4. Blank /\ Blank'
  BY <1>1 DEF DisplayInv, Ended, Blank
<1>5. ExchangeInv' /\ DisplayInv'
  BY <1>1, <1>3, <1>4, DisplayedKept DEF ExchangeInv, DisplayInv
<1>6. item \in 1..(Len(Image) + 1) /\ Sent /\ ~success /\ Len(Image) \in Nat
  BY <1>1, ImageAssumption, LenProperties DEF ImageInv, Ended
<1>7. /\ item' \in 1..(Len(Image) + 1) /\ item' > 1
      /\ item' - 1 = item /\ item' - 2 = item - 1
  BY <1>1, <1>6
<1>8. chip.flash = Written[item - 1]
  BY <1>3, <1>6 DEF Sent
<1>9. Sent'
  BY <1>3, <1>7, <1>8 DEF Sent, p
<1> QED
  BY <1>1, <1>5, <1>6, <1>7, <1>9 DEF ImageInv

LEMMA WriteEndImage ==
    ASSUME FirmwareInv, ExchangeInv, DisplayInv, ImageInv, WriteEnd, mode = "write"
    PROVE  ExchangeInv' /\ DisplayInv' /\ ImageInv'
<1>1. /\ UNCHANGED firmwareVars /\ hpc = "write" /\ hpc' = "close" /\ item > Len(Image)
      /\ UNCHANGED <<mode, item, shown>>
  BY DEF WriteEnd, Goto
<1>2. SameDevice
  BY <1>1, BusMoves
<1>3. item = Len(Image) + 1 /\ Sent
  BY <1>1, ImageAssumption, LenProperties DEF ImageInv
<1>4. ExchangeInv' /\ DisplayInv'
  BY <1>1, <1>2, IdleExchange, IdleDisplay DEF Waiting
<1> QED
  BY <1>1, <1>2, <1>3, <1>4, SentKept DEF ImageInv, WriteEnd
-----------------------------------------------------------------------------
\* Which part of prog.c runs is what the user asked for.
ModeInv ==
    /\ hpc \in {"erase", "write"} => mode = "write"
    /\ hpc \in {"read_out", "read_in"} => mode = "read"

ReliableInv == ModeInv /\ ExchangeInv /\ DisplayInv /\ DumpInv /\ ImageInv

\* A step that sends nothing and is not the program's step through a write.
LEMMA OtherImage ==
    ASSUME ImageInv, UNCHANGED <<mode, item, success>>,
           NoneDue /\ Sent /\ item \in 1..(Len(Image) + 1) => Sent',
           hpc \notin Waiting => NoneDue,
           hpc' = "write" => hpc = "write",
           (hpc' = "close" /\ hpc # "close") => mode # "write",
           hpc \in {"close"} \cup Ended => hpc' \in {"close"} \cup Ended
    PROVE  ImageInv'
<1>1. Len(Image) + 1 \in 1..(Len(Image) + 1)
  BY ImageAssumption, LenProperties
<1>2. success => Sent' /\ hpc' \in {"close"} \cup Ended /\ item' = Len(Image) + 1
  <2>1. success => hpc \notin Waiting
    BY DEF ImageInv, Waiting, Ended
  <2> QED
    BY <1>1, <2>1 DEF ImageInv
<1>3. (mode' = "write" /\ hpc' = "write") => item' \in 1..(Len(Image) + 1) /\ Sent'
  BY DEF ImageInv, Waiting
<1>4. (mode' = "write" /\ hpc' = "close") => success'
  BY DEF ImageInv
<1> QED
  BY <1>2, <1>3, <1>4 DEF ImageInv

\* The steps of the device and of the bus.
LEMMA DeviceReliable ==
    ASSUME FirmwareInv, ExchangeInv, DisplayInv, DumpInv, ImageInv, MainStep \/ BusEvent
    PROVE  ExchangeInv' /\ DisplayInv' /\ DumpInv' /\ ImageInv'
<1>1. UNCHANGED <<hpc, mode, cible, addr, item, shown, success>>
  BY DEF MainStep, BusEvent, hostVars
<1>2. ExchangeInv' /\ DisplayInv'
  BY MainExchange, BusExchange
<1>3. DumpInv'
  BY <1>1, OtherDump
<1>4. NoneDue /\ Sent /\ item \in 1..(Len(Image) + 1) => Sent'
  <2>1. CASE MainStep
    BY <1>1, <2>1, MainSent DEF MainStep
  <2>2. CASE BusEvent
    <3>1. SameDevice
      BY <2>2, BusMoves DEF BusEvent, Bus
    <3> QED
      BY <1>1, <3>1, SentKept
  <2> QED
    BY <2>1, <2>2
<1>5. hpc \notin Waiting => NoneDue
  BY DEF ExchangeInv, Waiting
<1>6. ImageInv'
  BY <1>1, <1>4, <1>5, OtherImage
<1> QED
  BY <1>2, <1>3, <1>6

\* The steps in which the program moves nothing over the bus, but for the
\* choice of the action.
LEMMA QuietReliable ==
    ASSUME FirmwareInv, ExchangeInv, DisplayInv, DumpInv, ImageInv,
           UNCHANGED <<firmwareVars, mode, item, shown, success>>,
           hpc \notin Waiting, hpc' \notin Waiting \cup {"lookup", "write"},
           Blank \/ hpc' \in {"read_out", "close"} \cup Ended,
           (hpc' = "close" /\ hpc # "close") => mode # "write",
           hpc \in {"close"} \cup Ended => hpc' \in {"close"} \cup Ended
    PROVE  ExchangeInv' /\ DisplayInv' /\ ImageInv'
<1>1. SameDevice
  BY BusMoves
<1>2. NoneDue
  BY DEF ExchangeInv, Waiting
<1>3. ExchangeInv'
  BY <1>1, IdleExchange
<1>4. DisplayInv'
  BY <1>1, IdleDisplay DEF Waiting
<1>5. NoneDue /\ Sent /\ item \in 1..(Len(Image) + 1) => Sent'
  BY <1>1, SentKept
<1>6. ImageInv'
  BY <1>2, <1>5, OtherImage
<1> QED
  BY <1>3, <1>4, <1>6

\* Before the first transfer, and at the end.
LEMMA OpenReliable ==
    ASSUME FirmwareInv, ExchangeInv, DisplayInv, DumpInv, ImageInv,
           InitUsb \/ Claim \/ Close
    PROVE  ExchangeInv' /\ DisplayInv' /\ DumpInv' /\ ImageInv'
<1>1. UNCHANGED <<firmwareVars, mode, cible, addr, item, shown, success>>
  BY DEF InitUsb, Claim, Close
<1>2. /\ hpc \in {"init_usb", "claim", "close"}
      /\ hpc' \in {"claim", "isp_out"} \cup Ended
      /\ hpc = "close" => hpc' \in Ended
  BY DEF InitUsb, Claim, Close, Goto, Ended
<1>3. hpc # "close" => Blank
  BY <1>2 DEF DisplayInv, Ended
<1>4. ExchangeInv' /\ DisplayInv' /\ ImageInv'
  <2>1. hpc \notin Waiting /\ hpc' \notin Waiting \cup {"lookup", "write", "close"}
    BY <1>2 DEF Waiting, Ended
  <2>2. hpc \in {"close"} \cup Ended => hpc' \in Ended
    BY <1>2 DEF Ended
  <2>3. Blank \/ hpc' \in Ended
    BY <1>2, <1>3
  <2> QED
    BY <1>1, <2>1, <2>2, <2>3, QuietReliable
<1>5. DumpInv'
  BY <1>1, <1>2, OtherDump DEF Ended
<1> QED
  BY <1>4, <1>5

LEMMA LookupReliable ==
    ASSUME FirmwareInv, ExchangeInv, DisplayInv, DumpInv, ImageInv, Lookup
    PROVE  ExchangeInv' /\ DisplayInv' /\ DumpInv' /\ ImageInv'
<1>1. /\ UNCHANGED <<firmwareVars, mode, item, shown, success>>
      /\ hpc = "lookup"
      /\ hpc' \in {"close", "erase", "read_out", "crashed"}
      /\ hpc' = "close" => mode = "none"
  BY DEF Lookup, Goto
<1>2. Blank
  BY <1>1 DEF DisplayInv, Ended
<1>3. ExchangeInv' /\ DisplayInv' /\ ImageInv'
  <2>1. hpc \notin Waiting /\ hpc' \notin Waiting \cup {"lookup", "write"}
    BY <1>1 DEF Waiting
  <2>2. hpc \notin {"close"} \cup Ended
    BY <1>1 DEF Ended
  <2> QED
    BY <1>1, <1>2, <2>1, <2>2, QuietReliable
<1> QED
  BY <1>3, LookupDump

LEMMA ReadEndReliable ==
    ASSUME FirmwareInv, ExchangeInv, DisplayInv, DumpInv, ImageInv, ReadEnd,
           mode = "read"
    PROVE  ExchangeInv' /\ DisplayInv' /\ DumpInv' /\ ImageInv'
<1>1. /\ UNCHANGED <<firmwareVars, mode, item, shown, success>>
      /\ hpc = "read_out" /\ hpc' = "close"
  BY DEF ReadEnd, Goto
<1>2. hpc \notin {"close"} \cup Ended /\ hpc \notin Waiting
      /\ hpc' \notin Waiting \cup {"lookup", "write"}
  BY <1>1 DEF Ended, Waiting
<1> QED
  BY <1>1, <1>2, QuietReliable, ReadEndDump

\* A program that is started displays nothing and has not written.
LEMMA StartReliable ==
    ASSUME FirmwareInv, ExchangeInv, hpc \in Ended, UNCHANGED firmwareVars,
           hpc' = "init_usb", ~success', shown' = [a \in BlockAddress |-> <<>>]
    PROVE  ExchangeInv' /\ DisplayInv' /\ DumpInv' /\ ImageInv'
<1>1. SameDevice
  BY BusMoves
<1>2. ExchangeInv'
  BY <1>1, IdleExchange DEF Waiting, Ended
<1>3. Blank' /\ DisplayedIsFlash'
  BY DEF Blank, DisplayedIsFlash
<1> QED
  BY <1>2, <1>3 DEF DisplayInv, DumpInv, CompleteDump, ImageInv

\* The steps of isp_ids and of flash_read that move a packet; they write nothing.
LEMMA TransferImage ==
    ASSUME ImageInv, UNCHANGED <<mode, item, success>>,
           hpc \notin {"write", "close"} \cup Ended, hpc' \notin {"write", "close"}
    PROVE  ImageInv'
BY DEF ImageInv

LEMMA IspReliable ==
    ASSUME FirmwareInv, ExchangeInv, DisplayInv, DumpInv, ImageInv,
           Reliable, Reliable', IspOut \/ IspIn
    PROVE  ExchangeInv' /\ DisplayInv' /\ DumpInv' /\ ImageInv'
<1>1. /\ UNCHANGED <<mode, item, success, shown>>
      /\ hpc \in {"isp_out", "isp_in"} /\ hpc' \in {"isp_in", "lookup"}
  BY DEF IspOut, IspIn, Goto
<1>2. ExchangeInv' /\ DisplayInv'
  BY IspOutExchange, IspInExchange
<1>3. ImageInv'
  BY <1>1, TransferImage DEF Ended
<1>4. DumpInv'
  BY <1>1, OtherDump
<1> QED
  BY <1>2, <1>3, <1>4

LEMMA RequestBlockReliable ==
    ASSUME FirmwareInv, ExchangeInv, DisplayInv, DumpInv, ImageInv,
           Reliable, Reliable', hpc = "read_out", addr \in BlockAddress, RequestBlock
    PROVE  ExchangeInv' /\ DisplayInv' /\ DumpInv' /\ ImageInv'
<1>1. UNCHANGED <<mode, item, success, cible>>
  BY DEF RequestBlock
<1>2. ExchangeInv' /\ DisplayInv' /\ hpc' = "read_in" /\ addr' = addr
  BY RequestBlockExchange
<1>3. shown' = shown
  BY NoFailure DEF RequestBlock, SendOk, TransferOUT
<1>4. ImageInv'
  BY <1>1, <1>2, TransferImage DEF Ended
<1>5. DumpInv'
  BY <1>1, <1>2, <1>3, OtherDump
<1> QED
  BY <1>2, <1>4, <1>5

LEMMA ReadInReliable ==
    ASSUME FirmwareInv, ExchangeInv, DisplayInv, DumpInv, ImageInv,
           Reliable, Reliable', ReadIn
    PROVE  ExchangeInv' /\ DisplayInv' /\ DumpInv' /\ ImageInv'
<1>1. UNCHANGED <<mode, item, success, cible>> /\ hpc = "read_in"
      /\ addr \in BlockAddress
  BY DEF ReadIn, ExchangeInv
<1>2. /\ ExchangeInv' /\ DisplayInv'
      /\ \/ UNCHANGED <<hpc, addr, shown>>
         \/ /\ hpc' = "read_out" /\ addr' = NextAddr
            /\ shown' = [shown EXCEPT ![addr] = FlashWordsAt(addr)]
  BY ReadInExchange
<1>3. ImageInv'
  BY <1>1, <1>2, TransferImage DEF Ended
<1>4. DumpInv'
  <2>1. CASE UNCHANGED <<hpc, addr, shown>>
    BY <1>1, <2>1, OtherDump
  <2>2. CASE /\ hpc' = "read_out" /\ addr' = NextAddr
             /\ shown' = [shown EXCEPT ![addr] = FlashWordsAt(addr)]
    BY <1>1, <2>2, ReadInDump
  <2> QED
    BY <1>2, <2>1, <2>2
<1> QED
  BY <1>2, <1>3, <1>4

LEMMA EraseOutReliable ==
    ASSUME FirmwareInv, ExchangeInv, DisplayInv, DumpInv, ImageInv,
           Reliable, Reliable', EraseOut
    PROVE  ExchangeInv' /\ DisplayInv' /\ DumpInv' /\ ImageInv'
<1>1. UNCHANGED <<mode, shown>> /\ hpc' = "write"
  BY DEF EraseOut, Goto
<1> QED
  BY <1>1, EraseOutImage, OtherDump

LEMMA WriteReliable ==
    ASSUME FirmwareInv, ExchangeInv, DisplayInv, DumpInv, ImageInv,
           Reliable, Reliable', WriteOut \/ WriteEnd, mode = "write"
    PROVE  ExchangeInv' /\ DisplayInv' /\ DumpInv' /\ ImageInv'
<1>1. UNCHANGED <<mode, shown>> /\ hpc' \in {"write", "close"}
  BY DEF WriteOut, SendWord, WriteEnd, Goto
<1> QED
  BY <1>1, WriteOutImage, WriteEndImage, OtherDump

\* The block that is asked for is one of the target's.
LEMMA AddressInFlash ==
    ASSUME DumpInv, mode = "read", ReadOut
    PROVE  addr \in BlockAddress
<1>1. cible \in DOMAIN base_de_donnees /\ base_de_donnees[cible].signature = Signature
  BY DEF DumpInv, ReadOut
<1>2. base_de_donnees[cible].taille_flash \div 2 = FlashWords
  BY <1>1, WholeFlash
<1>3. addr \in Nat /\ addr % 4 = 0 /\ addr < FlashWords
  BY <1>2 DEF DumpInv, ReadOut, Uint16
<1>4. addr \in Word
  BY <1>3, FlashAssumption DEF Word
<1> QED
  BY <1>3, <1>4 DEF BlockAddress

\* Every step of prog.c: the part that runs is the part that was asked for.
LEMMA ProgramReliable ==
    ASSUME FirmwareInv, ReliableInv, Reliable, Reliable', Program
    PROVE  ExchangeInv' /\ DisplayInv' /\ DumpInv' /\ ImageInv'
<1>1. CASE InitUsb \/ Claim \/ Close
  BY <1>1, OpenReliable DEF ReliableInv
<1>2. CASE IspOut \/ IspIn
  BY <1>2, IspReliable DEF ReliableInv
<1>3. CASE Lookup
  BY <1>3, LookupReliable DEF ReliableInv
<1>4. CASE ReadOut
  <2>1. hpc = "read_out" /\ mode = "read" /\ RequestBlock
    BY <1>4 DEF ReadOut, ReliableInv, ModeInv
  <2>2. addr \in BlockAddress
    BY <1>4, <2>1, AddressInFlash DEF ReliableInv
  <2> QED
    BY <2>1, <2>2, RequestBlockReliable DEF ReliableInv
<1>5. CASE ReadIn
  BY <1>5, ReadInReliable DEF ReliableInv
<1>6. CASE ReadEnd
  BY <1>6, ReadEndReliable DEF ReliableInv, ModeInv, ReadEnd
<1>7. CASE EraseOut
  BY <1>7, EraseOutReliable DEF ReliableInv
<1>8. CASE WriteOut \/ WriteEnd
  <2>1. mode = "write"
    BY <1>8 DEF WriteOut, WriteEnd, ReliableInv, ModeInv
  <2> QED
    BY <1>8, <2>1, WriteReliable DEF ReliableInv
<1> QED
  BY <1>1, <1>2, <1>3, <1>4, <1>5, <1>6, <1>7, <1>8 DEF Program

LEMMA ModeKept ==
    ASSUME ModeInv, Next
    PROVE  ModeInv'
<1>1. CASE MainStep \/ BusEvent \/ BusSuspend
  BY <1>1 DEF MainStep, BusEvent, BusSuspend, hostVars, ModeInv
<1>2. CASE Start \/ Kill
  BY <1>2 DEF Start, Kill, Goto, ModeInv
<1>3. CASE Program
  BY <1>3 DEF Program, InitUsb, Claim, IspOut, IspIn, Lookup, ReadOut, RequestBlock,
     ReadIn, ReadEnd, EraseOut, WriteOut, SendWord, WriteEnd, Close, Goto, ModeInv
<1> QED
  BY <1>1, <1>2, <1>3 DEF Next

\* A failure is never forgotten.
LEMMA FailuresCounted ==
    ASSUME ProgrammerTypeOK, [Next]_vars, Reliable'
    PROVE  Reliable
<1>1. faults \in Nat /\ kills \in Nat
  BY BudgetAssumption DEF ProgrammerTypeOK
<1>2. faults' \in {faults, faults + 1} /\ kills' \in {kills, kills + 1}
  <2>1. CASE MainStep \/ BusEvent \/ BusSuspend \/ Start \/ Kill \/ UNCHANGED vars
    BY <2>1 DEF MainStep, BusEvent, BusSuspend, Start, Kill, budgetVars, vars
  <2>2. CASE Program
    BY <2>2 DEF Program, InitUsb, Claim, IspOut, IspIn, Lookup, ReadOut, RequestBlock,
       ReadIn, ReadEnd, EraseOut, WriteOut, SendWord, WriteEnd, Close, SendOk, SendFails,
       ReceiveOk, ReceiveOverflows, ReceiveFails, budgetVars
  <2> QED
    BY <2>1, <2>2 DEF Next
<1> QED
  BY <1>1, <1>2 DEF Reliable

LEMMA ReliableInit == Init => ReliableInv
<1> SUFFICES ASSUME Init PROVE ReliableInv
  OBVIOUS
<1>1. /\ outBank = <<>> /\ inBank = <<>> /\ pc = "loop" /\ commande_PC = 0
      /\ hpc = "done" /\ ~success
  BY DEF Init, FirmwareInit
<1>2. request = <<>> /\ pending = <<>>
  BY <1>1 DEF request, pending
<1>3. NoneDue
  BY <1>1, <1>2 DEF NoneDue, NoReply
<1>4. shown = [a \in BlockAddress |-> <<>>]
  BY DEF Init
<1>5. Blank /\ DisplayedIsFlash
  BY <1>4 DEF Blank, DisplayedIsFlash
<1> QED
  BY <1>1, <1>3, <1>4, <1>5 DEF ReliableInv, ModeInv, ExchangeInv, DisplayInv, DumpInv,
     CompleteDump, ImageInv

LEMMA ReliableNext ==
    ASSUME ProgrammerInv, Reliable => ReliableInv, [Next]_vars
    PROVE  (Reliable => ReliableInv)'
<1> SUFFICES ASSUME Reliable' PROVE ReliableInv'
  OBVIOUS
<1>1. Reliable /\ ReliableInv
  BY FailuresCounted DEF ProgrammerInv
<1>2. FirmwareInv
  BY DEF ProgrammerInv
<1>3. CASE Next
  <2>1. ModeInv'
    BY <1>1, <1>3, ModeKept DEF ReliableInv
  <2>2. CASE Program
    BY <1>1, <1>2, <2>1, <2>2, ProgramReliable DEF ReliableInv
  <2>3. CASE MainStep \/ BusEvent
    BY <1>1, <1>2, <2>1, <2>3, DeviceReliable DEF ReliableInv
  <2>4. CASE Start
    BY <1>1, <1>2, <2>1, <2>4, StartReliable DEF ReliableInv, Start, Goto
  <2>5. ~Kill /\ ~BusSuspend
    BY <1>1, NoFailure
  <2> QED
    BY <1>3, <2>2, <2>3, <2>4, <2>5 DEF Next
<1>4. CASE UNCHANGED vars
  <2>1. UNCHANGED <<firmwareVars, hostVars>>
    BY <1>4 DEF vars
  <2>2. UNCHANGED <<firmwareVars, hpc, mode, sig, cible, addr, item, shown, success>>
    BY <2>1 DEF hostVars
  <2>3. SameDevice
    BY <1>2, <2>2, BusMoves
  <2> QED
    BY <1>1, <2>2, <2>3 DEF SameDevice, ReliableInv, ModeInv, ExchangeInv, Due, NoneDue,
       NoReply, DisplayInv, Blank, DisplayedIsFlash, FlashWordsAt, DumpInv, CompleteDump,
       ImageInv, Sent
<1> QED
  BY <1>3, <1>4

\* The inductive invariant of the runs in which nothing fails.
THEOREM ReliableInvariant == Spec => [](Reliable => ReliableInv)
<1>1. Init => (Reliable => ReliableInv)
  BY ReliableInit
<1>2. ProgrammerInv /\ (Reliable => ReliableInv) /\ [Next]_vars => (Reliable => ReliableInv)'
  BY ReliableNext
<1> QED
  BY <1>1, <1>2, ProgrammerInvariant, PTL DEF Spec

\* As long as no transfer has failed and no process was killed, what flash_read
\* displays under an address is what the flash holds there, however the main loop,
\* the buttons and the bus interleave with it.
THEOREM DisplayTrue == Spec => [](Reliable => DisplayedIsFlash)
<1>1. ReliableInv => DisplayedIsFlash
  BY DEF ReliableInv, DisplayInv
<1> QED
  BY <1>1, ReliableInvariant, PTL

\* Under the same condition a read that ends has displayed the whole flash.
THEOREM DumpComplete == Spec => [](Reliable => CompleteDump)
<1>1. ReliableInv => CompleteDump
  BY DEF ReliableInv, DumpInv
<1> QED
  BY <1>1, ReliableInvariant, PTL

\* A packet is outstanding when the device has a request to carry out.
LEMMA OutstandingIsRequest == Outstanding <=> request # <<>>
BY DEF Outstanding, request

\* What the packet still outstanding leaves to be done.
LEMMA ImageFollowed ==
    ASSUME ImageInv
    PROVE  FlashFollowsImage /\ SuccessMeansWritten
<1>1. ASSUME mode = "write", hpc \in {"write", "close"},
             (item - 1) - (IF Outstanding THEN 1 ELSE 0) >= 0
      PROVE  chip.flash = Written[(item - 1) - (IF Outstanding THEN 1 ELSE 0)]
  <2>1. Sent /\ item \in Nat
    BY <1>1, ImageAssumption, LenProperties DEF ImageInv
  <2>2. CASE request = <<>>
    BY <2>1, <2>2, OutstandingIsRequest DEF Sent
  <2>3. CASE request # <<>>
    <3>1. (item - 1) - 1 = item - 2 /\ Outstanding
      BY <2>1, <2>3, OutstandingIsRequest
    <3> QED
      BY <1>1, <2>1, <2>3, <3>1 DEF Sent
  <2> QED
    BY <2>2, <2>3
<1>2. ASSUME success
      PROVE  IF Outstanding
             THEN /\ outBank = <<LastPacket>>
                  /\ Image # <<>> => chip.flash = Written[Len(Image) - 1]
             ELSE chip.flash = Written[Len(Image)]
  <2>1. Sent /\ item = Len(Image) + 1 /\ Len(Image) \in Nat
    BY <1>2, ImageAssumption, LenProperties DEF ImageInv
  <2>2. item - 1 = Len(Image) /\ item - 2 = Len(Image) - 1
    BY <2>1
  <2>3. CASE ~Outstanding
    <3>1. request = <<>>
      BY <2>3, OutstandingIsRequest
    <3>2. chip.flash = Written[Len(Image)]
      BY <2>1, <2>2, <3>1 DEF Sent
    <3> QED
      BY <2>3, <3>2
  <2>4. CASE Outstanding
    <3>1. outBank = request /\ request # <<>>
      BY <2>4, OutstandingIsRequest DEF request, Outstanding
    <3>2. CASE request = <<EraseRequest>> /\ item = 1
      <4>1. Len(Image) = 0
        BY <2>1, <3>2
      <4>2. Image = <<>>
        BY <4>1, ImageAssumption, EmptySeq
      <4> QED
        BY <2>4, <3>1, <3>2, <4>2 DEF LastPacket
    <3>3. CASE /\ item > 1 /\ chip.flash = Written[item - 2]
               /\ request = <<WriteRequest(Image[item - 1].addr, Image[item - 1].word)>>
      <4>1. Image # <<>>
        BY <2>1, <3>3, ImageAssumption, EmptySeq
      <4> QED
        BY <2>2, <2>4, <3>1, <3>3, <4>1 DEF LastPacket
    <3> QED
      BY <2>1, <3>1, <3>2, <3>3 DEF Sent
  <2> QED
    BY <2>3, <2>4
<1> QED
  BY <1>1, <1>2 DEF FlashFollowsImage, SuccessMeansWritten

\* Under the same condition the flash is at every moment of a write the erased
\* flash with the words sent so far, but for the last packet.
THEOREM WriteFollowsImage == Spec => [](Reliable => FlashFollowsImage)
<1>1. ReliableInv => FlashFollowsImage
  BY ImageFollowed DEF ReliableInv
<1> QED
  BY <1>1, ReliableInvariant, PTL

\* Under the same condition the success message is printed when every word but
\* perhaps the last is in the flash, and the packet with that word is the one in the
\* OUT bank; from the moment it is carried out to the next run, the flash holds the
\* whole image (prog.c and flash_write.c:62-72).
THEOREM SuccessIsTrue == Spec => [](Reliable => SuccessMeansWritten)
<1>1. ReliableInv => SuccessMeansWritten
  BY ImageFollowed DEF ReliableInv
<1> QED
  BY <1>1, ReliableInvariant, PTL
=============================================================================
