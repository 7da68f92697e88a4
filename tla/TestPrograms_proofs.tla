------------------------ MODULE TestPrograms_proofs ------------------------
(***************************************************************************)
(* Theorems about the test programs among the runs of the PC program:      *)
(* where they get, and what they show while no transfer fails, the bus is  *)
(* not suspended and no process is killed.                                 *)
(***************************************************************************)
EXTENDS TestPrograms, Programmer_proofs

\* The places of a program, of prog.c or of the tests.
ProgramPlaces == {"init_usb", "claim", "isp_out", "isp_in", "lookup", "read_out",
                  "read_in", "erase", "write", "close"} \cup Ended

\* What the place of a program says of its variables.
TestPlaceInv ==
    /\ mode \in Modes \cup Tests \cup {"none"}
    /\ hpc \in ProgramPlaces
    /\ addr \in Uint16 /\ addr % 4 = 0
    /\ mode \notin Tests =>
          /\ hpc \in {"read_out", "read_in"} => cible \in DOMAIN base_de_donnees
          /\ hpc = "write" => item \in 1..(Len(Image) + 1)
    /\ mode \in Tests =>
          /\ hpc \in {"read_out", "read_in"} => mode # "isp_ids"
          /\ hpc = "write" => item # 0
    /\ faults \in Nat /\ kills \in Nat

TestInv == FirmwareInv /\ TestTypeOK /\ TestPlaceInv

\* The flash after the erase and the first n words of flash_rw.
FakeWritten(n) == [a \in Word |-> IF a < n THEN FakeData(a) ELSE ErasedWord]

\* The erase and the words flash_rw has sent so far, but for the last packet
\* while that is outstanding.
FakeSent ==
    \/ request = <<>> /\ chip.flash = FakeWritten(item - 1)
    \/ request = <<EraseRequest>> /\ item = 1
    \/ /\ item > 1 /\ chip.flash = FakeWritten(item - 2)
       /\ request = <<WriteRequest(item - 2, FakeData(item - 2))>>

\* Every block before address n is displayed.
ShownTo(n) == \A a \in BlockAddress : a < n => shown[a] # <<>>

\* flash_rw: the words it writes, then the blocks it reads.
ReadBackInv ==
    mode = "flash_rw" =>
        /\ hpc = "write" => FakeSent
        /\ hpc = "read_out" => item = WordsWritten + 1 /\ FakeSent /\ ShownTo(addr)
        /\ hpc = "read_in" => /\ item = WordsWritten + 1
                              /\ chip.flash = FakeWritten(WordsWritten)
                              /\ ShownTo(addr)
        /\ hpc = "done" => /\ chip.flash = FakeWritten(WordsWritten) /\ request = <<>>
                           /\ ShownTo(WordsRead)

ReliableTestInv ==
    /\ mode \notin Tests => ModeInv
    /\ ExchangeInv /\ DisplayInv /\ DumpInv /\ ImageInv
    /\ ReadBackInv /\ SignatureShown
-----------------------------------------------------------------------------
\* The number of words written, and the words themselves.
LEMMA TestBounds ==
    /\ WordsWritten \in Nat /\ WordsWritten <= FlashWords /\ WordsWritten < 65536
    /\ WordsRead \in Nat /\ WordsRead <= FlashWords /\ WordsRead > 0
    /\ WordsRead % 4 = 0 /\ FlashWords \in Nat
BY TestsAssumption, FlashAssumption

LEMMA TestNames ==
    /\ \A m \in Tests : m \notin Modes \cup {"none", "read", "write"}
    /\ \A m \in Tests : m \in {"isp_ids", "flash_read", "flash_rw"}
<1>1. Modes \subseteq {"none", "read", "write"}
  BY BudgetAssumption
<1>2. Tests \subseteq {"isp_ids", "flash_read", "flash_rw"}
  BY TestsAssumption
<1> QED
  BY <1>1, <1>2

LEMMA FakeDataType ==
    ASSUME NEW a \in Nat, a < 65536
    PROVE  FakeData(a) \in WordValue
<1>1. a % 256 \in Byte /\ (160 + (a \div 256)) % 256 \in Byte
  BY DEF Byte
<1> QED
  BY <1>1 DEF FakeData, WordValue

\* The words flash_rw sends are words of the flash.
LEMMA FakeItem ==
    ASSUME NEW i \in Nat, i # 0, i <= WordsWritten
    PROVE  i - 1 \in Word /\ FakeData(i - 1) \in WordValue
<1>1. i - 1 \in Nat /\ i - 1 < WordsWritten /\ i - 1 < 65536
  BY TestBounds
<1>2. i - 1 \in Word
  BY <1>1, TestBounds DEF Word
<1> QED
  BY <1>1, <1>2, FakeDataType

\* The blocks the tests read are blocks of the flash.
LEMMA TestAddress ==
    ASSUME addr \in Uint16, addr % 4 = 0, addr < WordsRead
    PROVE  addr \in BlockAddress
<1>1. addr \in Nat /\ addr < FlashWords
  BY TestBounds DEF Uint16
<1>2. addr \in Word
  BY <1>1, TestBounds DEF Word
<1> QED
  BY <1>2 DEF BlockAddress

\* What a step of any program is to the firmware.
AnyHostStep ==
    \/ UNCHANGED firmwareVars
    \/ TransferIN
    \/ \E p : IsRequest(p) /\ TransferOUT(p)

LEMMA SendHostStep ==
    ASSUME NEW p, IsRequest(p), SendOk(p) \/ SendFails(p)
    PROVE  AnyHostStep
BY DEF SendOk, SendFails, AnyHostStep

LEMMA ReceiveHostStep ==
    ASSUME IspIn \/ ReadIn
    PROVE  AnyHostStep
BY DEF IspIn, ReadIn, ReceiveOk, ReceiveOverflows, ReceiveFails, AnyHostStep

LEMMA CommandRequests == IsRequest(IdRequest) /\ IsRequest(EraseRequest)
BY SentIsRequest DEF SentPackets

\* The steps of prog.c.
LEMMA ProgramAnyHostStep ==
    ASSUME TestPlaceInv, mode \notin Tests, Program
    PROVE  AnyHostStep
<1>1. CASE InitUsb \/ Claim \/ Lookup \/ ReadEnd \/ WriteEnd \/ Close
  BY <1>1 DEF InitUsb, Claim, Lookup, ReadEnd, WriteEnd, Close, AnyHostStep
<1>2. CASE IspIn \/ ReadIn
  BY <1>2, ReceiveHostStep
<1>3. CASE IspOut
  BY <1>3, CommandRequests, SendHostStep DEF IspOut
<1>4. CASE EraseOut
  BY <1>4, CommandRequests, SendHostStep DEF EraseOut
<1>5. CASE ReadOut
  <2>1. addr \in BlockAddress
    <3>1. cible \in DOMAIN base_de_donnees /\ addr % 4 = 0 /\ addr \in Nat
      BY <1>5 DEF ReadOut, TestPlaceInv, Uint16
    <3>2. cible \in 1..Len(base_de_donnees)
      BY <3>1, DatabaseAssumption, LenProperties
    <3>3. /\ base_de_donnees[cible].taille_flash \div 2 <= FlashWords
          /\ base_de_donnees[cible].taille_flash \in Nat
      BY <3>2, EntryFacts
    <3>4. addr < base_de_donnees[cible].taille_flash \div 2
      BY <1>5 DEF ReadOut
    <3> QED
      BY <3>1, <3>3, <3>4, FlashAssumption DEF BlockAddress, Word
  <2>2. IsRequest(ReadRequest(addr))
    BY <2>1, ReadIsRequest
  <2> QED
    BY <1>5, <2>2, SendHostStep DEF ReadOut, RequestBlock
<1>6. CASE WriteOut
  <2>1. item \in DOMAIN Image
    <3>1. item <= Len(Image) /\ item \in 1..(Len(Image) + 1)
      BY <1>6 DEF WriteOut, TestPlaceInv
    <3>2. Len(Image) \in Nat /\ DOMAIN Image = 1..Len(Image)
      BY ImageAssumption, LenProperties
    <3> QED
      BY <3>1, <3>2
  <2>2. IsRequest(WriteRequest(Image[item].addr, Image[item].word))
    BY <2>1, ImageType, WriteIsRequest
  <2> QED
    BY <1>6, <2>2, SendHostStep DEF WriteOut, SendWord
<1> QED
  BY <1>1, <1>2, <1>3, <1>4, <1>5, <1>6 DEF Program

\* The steps of the tests.
LEMMA TestAnyHostStep ==
    ASSUME TestTypeOK, TestPlaceInv, TestProgram
    PROVE  AnyHostStep
<1>1. CASE TestInit \/ TestClaim \/ TestWritten \/ TestEnd
  BY <1>1 DEF TestInit, InitUsb, TestClaim, TestWritten, TestEnd, AnyHostStep
<1>2. CASE TestIspIn \/ TestReadIn
  BY <1>2, ReceiveHostStep DEF TestIspIn, TestReadIn
<1>3. CASE TestIspOut
  BY <1>3, CommandRequests, SendHostStep DEF TestIspOut, IspOut
<1>4. CASE TestErase
  BY <1>4, CommandRequests, SendHostStep DEF TestErase, EraseOut
<1>5. CASE TestReadOut
  <2>1. addr \in BlockAddress
    BY <1>5, TestAddress DEF TestReadOut, TestPlaceInv
  <2> QED
    BY <1>5, <2>1, ReadIsRequest, SendHostStep DEF TestReadOut, RequestBlock
<1>6. CASE TestWrite
  <2>1. item \in Nat /\ item # 0 /\ item <= WordsWritten
    <3>1. item \in 0..(WordsWritten + 1) /\ item # 0 /\ item <= WordsWritten
      BY <1>6 DEF TestWrite, TestProgram, TestTypeOK, TestPlaceInv
    <3> QED
      BY <3>1, TestBounds
  <2>2. IsRequest(WriteRequest(item - 1, FakeData(item - 1)))
    BY <2>1, FakeItem, WriteIsRequest
  <2> QED
    BY <1>6, <2>2, SendHostStep DEF TestWrite, SendWord
<1> QED
  BY <1>1, <1>2, <1>3, <1>4, <1>5, <1>6 DEF TestProgram

\* Whatever the program, the firmware keeps its invariant.
LEMMA TestFirmwareKept ==
    ASSUME TestInv, TestNext
    PROVE  FirmwareInv'
<1>1. CASE MainStep \/ BusEvent \/ BusSuspend
  BY <1>1, MainInv, BusInv DEF MainStep, BusEvent, BusSuspend, Bus, TestInv
<1>2. CASE AnyProgram \/ Kill \/ Start \/ StartTest
  <2>1. AnyHostStep
    <3>1. CASE AnyProgram
      BY <3>1, ProgramAnyHostStep, TestAnyHostStep DEF AnyProgram, TestInv
    <3>2. CASE Kill \/ Start \/ StartTest
      BY <3>2 DEF Kill, Start, StartTest, AnyHostStep
    <3> QED
      BY <1>2, <3>1, <3>2
  <2> QED
    BY <2>1, TransferOUTInv, TransferINInv, StutterInv DEF AnyHostStep, TestInv
<1> QED
  BY <1>1, <1>2 DEF TestNext
-----------------------------------------------------------------------------
\* The failures are counted, in a program's steps as in the bus's.
LEMMA CountsKept ==
    ASSUME TestPlaceInv, [TestNext]_vars
    PROVE  /\ faults' \in {faults, faults + 1} /\ kills' \in {kills, kills + 1}
           /\ faults' \in Nat /\ kills' \in Nat
<1>1. faults' \in {faults, faults + 1} /\ kills' \in {kills, kills + 1}
  <2>1. CASE MainStep \/ BusEvent \/ BusSuspend \/ Start \/ StartTest \/ Kill \/ UNCHANGED vars
    BY <2>1 DEF MainStep, BusEvent, BusSuspend, Start, StartTest, Kill, budgetVars, vars
  <2>2. CASE Program
    BY <2>2 DEF Program, InitUsb, Claim, IspOut, IspIn, Lookup, ReadOut, RequestBlock, ReadIn,
       ReadEnd, EraseOut, WriteOut, SendWord, WriteEnd, Close, SendOk, SendFails,
       ReceiveOk, ReceiveOverflows, ReceiveFails, budgetVars
  <2>3. CASE TestProgram
    BY <2>3 DEF TestProgram, TestInit, TestClaim, TestIspOut, TestIspIn, TestErase,
       TestWrite, TestWritten, TestReadOut, TestReadIn, TestEnd, InitUsb, IspOut, IspIn,
       RequestBlock, ReadIn, EraseOut, SendWord, SendOk, SendFails, ReceiveOk,
       ReceiveOverflows, ReceiveFails, budgetVars
  <2> QED
    BY <2>1, <2>2, <2>3 DEF TestNext, AnyProgram
<1> QED
  BY <1>1 DEF TestPlaceInv

\* The steps of prog.c, when no test is running.
LEMMA ProgramPlaced ==
    ASSUME TestPlaceInv, mode \notin Tests, Program, faults' \in Nat, kills' \in Nat
    PROVE  TestTypeOK' /\ TestPlaceInv'
<1>1. mode' = mode
  BY DEF Program, InitUsb, Claim, IspOut, IspIn, Lookup, ReadOut, RequestBlock, ReadIn,
     ReadEnd, EraseOut, WriteOut, SendWord, WriteEnd, Close
<1>2. TestTypeOK'
  BY <1>1 DEF TestTypeOK
<1>3. CASE InitUsb \/ Claim \/ IspOut \/ IspIn \/ ReadEnd \/ WriteEnd \/ Close
  <2>1. UNCHANGED addr /\ hpc' \in ProgramPlaces \ {"read_out", "read_in", "write"}
    BY <1>3 DEF InitUsb, Claim, IspOut, IspIn, ReadEnd, WriteEnd, Close, Goto,
       ProgramPlaces, Ended
  <2> QED
    BY <1>1, <1>2, <2>1 DEF TestPlaceInv
<1>4. CASE Lookup
  <2>1. /\ addr' = 0 /\ hpc' \in ProgramPlaces \ {"read_in", "write"}
        /\ hpc' = "read_out" => cible' # 0 /\ cible' = recherche_cible(sig)
    BY <1>4 DEF Lookup, Goto, ProgramPlaces, Ended
  <2>2. hpc' = "read_out" => cible' \in DOMAIN base_de_donnees
    BY <2>1, FoundEntry
  <2>3. 0 \in Uint16 /\ 0 % 4 = 0
    BY DEF Uint16
  <2> QED
    BY <1>1, <1>2, <2>1, <2>2, <2>3 DEF TestPlaceInv
<1>5. CASE ReadOut \/ ReadIn
  <2>1. /\ UNCHANGED cible /\ addr' \in {addr, NextAddr}
        /\ hpc \in {"read_out", "read_in"} /\ hpc' \in {"read_out", "read_in"}
    BY <1>5 DEF ReadOut, RequestBlock, ReadIn, Goto
  <2>2. addr' \in Uint16 /\ addr' % 4 = 0
    BY <2>1, NextAddrFacts DEF TestPlaceInv
  <2> QED
    BY <1>1, <1>2, <2>1, <2>2 DEF TestPlaceInv, ProgramPlaces
<1>6. CASE EraseOut \/ WriteOut
  <2>1. /\ UNCHANGED addr /\ hpc' = "write"
        /\ \/ item' = 1
           \/ hpc = "write" /\ item' = item + 1 /\ item <= Len(Image)
    BY <1>6 DEF EraseOut, WriteOut, SendWord, Goto
  <2>2. Len(Image) \in Nat
    BY ImageAssumption, LenProperties
  <2>3. item' \in 1..(Len(Image) + 1)
    BY <2>1, <2>2 DEF TestPlaceInv
  <2> QED
    BY <1>1, <1>2, <2>1, <2>3 DEF TestPlaceInv, ProgramPlaces
<1> QED
  BY <1>2, <1>3, <1>4, <1>5, <1>6 DEF Program

\* The steps of the tests.
LEMMA TestProgramPlaced ==
    ASSUME TestTypeOK, TestPlaceInv, TestProgram, faults' \in Nat, kills' \in Nat
    PROVE  TestTypeOK' /\ TestPlaceInv'
<1>1. mode \in Tests /\ mode' = mode
  BY DEF TestProgram, TestInit, TestClaim, TestIspOut, TestIspIn, TestErase, TestWrite,
     TestWritten, TestReadOut, TestReadIn, TestEnd, InitUsb, IspOut, IspIn, RequestBlock,
     ReadIn, EraseOut, SendWord
<1>2. /\ mode \in {"isp_ids", "flash_read", "flash_rw"}
      /\ item \in Nat /\ item <= WordsWritten + 1
      /\ \A n \in Nat : n <= WordsWritten + 1 => n \in 0..(WordsWritten + 1)
  BY <1>1, TestNames, TestBounds DEF TestTypeOK
<1>3. CASE TestInit \/ TestClaim \/ TestIspOut \/ TestIspIn
  <2>1. UNCHANGED <<addr, item>>
    BY <1>3 DEF TestInit, TestClaim, TestIspOut, TestIspIn, InitUsb, IspOut, IspIn
  <2>2. \/ hpc' \in {"claim", "failed"}
        \/ hpc' = FirstPlace
        \/ hpc' \in {"isp_in", "lookup"} /\ hpc \in {"isp_out", "isp_in"}
    BY <1>3 DEF TestInit, TestClaim, TestIspOut, TestIspIn, InitUsb, IspOut, IspIn, Goto
  <2>3. \/ mode = "isp_ids" /\ hpc' \in {"claim", "failed", "isp_out", "isp_in", "lookup"}
        \/ mode = "flash_read" /\ hpc' \in {"claim", "failed", "read_out"}
        \/ mode = "flash_rw" /\ hpc' \in {"claim", "failed", "erase"}
    BY <1>1, <1>2, <2>2 DEF FirstPlace, TestTypeOK
  <2> QED
    BY <1>1, <1>2, <2>1, <2>3 DEF TestTypeOK, TestPlaceInv, ProgramPlaces, Ended
<1>4. CASE TestErase \/ TestWrite
  <2>1. /\ UNCHANGED addr /\ hpc \in {"erase", "write"} /\ hpc' = "write"
        /\ item' = 1 \/ (item' = item + 1 /\ item <= WordsWritten)
    BY <1>4 DEF TestErase, EraseOut, TestWrite, SendWord, Goto
  <2>2. mode = "flash_rw"
    BY <1>1, <2>1 DEF TestTypeOK
  <2>3. item' \in Nat /\ item' <= WordsWritten + 1 /\ item' # 0
    BY <1>2, <2>1, TestBounds
  <2> QED
    BY <1>1, <1>2, <2>1, <2>2, <2>3 DEF TestTypeOK, TestPlaceInv, ProgramPlaces
<1>5. CASE TestWritten \/ TestReadOut \/ TestReadIn
  <2>1. /\ UNCHANGED item /\ addr' \in {0, addr, NextAddr}
        /\ hpc \in {"write", "read_out", "read_in"} /\ hpc' \in {"read_out", "read_in"}
    BY <1>5 DEF TestWritten, TestReadOut, TestReadIn, RequestBlock, ReadIn, Goto
  <2>2. mode # "isp_ids"
    BY <1>1, <2>1 DEF TestTypeOK, TestPlaceInv
  <2>3. addr' \in Uint16 /\ addr' % 4 = 0
    <3>1. 0 \in Uint16 /\ 0 % 4 = 0
      BY DEF Uint16
    <3> QED
      BY <2>1, <3>1, NextAddrFacts DEF TestPlaceInv
  <2> QED
    BY <1>1, <1>2, <2>1, <2>2, <2>3 DEF TestTypeOK, TestPlaceInv, ProgramPlaces
<1>6. CASE TestEnd
  <2>1. UNCHANGED <<addr, item>> /\ hpc' = "done"
    BY <1>6 DEF TestEnd, Goto
  <2> QED
    BY <1>1, <1>2, <2>1 DEF TestTypeOK, TestPlaceInv, ProgramPlaces, Ended
<1> QED
  BY <1>3, <1>4, <1>5, <1>6 DEF TestProgram

LEMMA TestPlacesKept ==
    ASSUME TestTypeOK, TestPlaceInv, [TestNext]_vars
    PROVE  TestTypeOK' /\ TestPlaceInv'
<1>1. faults' \in Nat /\ kills' \in Nat
  BY CountsKept
<1>2. CASE MainStep \/ BusEvent \/ BusSuspend \/ UNCHANGED vars
  <2>1. UNCHANGED <<hpc, mode, cible, addr, item>>
    BY <1>2 DEF MainStep, BusEvent, BusSuspend, vars, hostVars
  <2> QED
    BY <1>1, <2>1 DEF TestTypeOK, TestPlaceInv
<1>3. CASE AnyProgram
  BY <1>1, <1>3, ProgramPlaced, TestProgramPlaced DEF AnyProgram
<1>4. CASE Start \/ StartTest
  <2>1. hpc' = "init_usb" /\ addr' = 0 /\ item' = 0 /\ mode' \in Modes \cup Tests
    BY <1>4 DEF Start, StartTest, Goto
  <2>2. 0 \in Uint16 /\ 0 % 4 = 0 /\ 0 \in 0..(WordsWritten + 1)
    BY TestBounds DEF Uint16
  <2> QED
    BY <1>1, <2>1, <2>2 DEF TestTypeOK, TestPlaceInv, ProgramPlaces
<1>5. CASE Kill
  <2>1. hpc' = "killed" /\ UNCHANGED <<mode, addr, item>>
    BY <1>5 DEF Kill, Goto
  <2> QED
    BY <1>1, <2>1 DEF TestTypeOK, TestPlaceInv, ProgramPlaces, Ended
<1> QED
  BY <1>2, <1>3, <1>4, <1>5 DEF TestNext

LEMMA TestInitInv == Init => TestInv
<1> SUFFICES ASSUME Init PROVE TestInv
  OBVIOUS
<1>1. FirmwareInv
  BY InitInv DEF Init
<1>2. /\ hpc = "done" /\ mode = "none" /\ addr = 0 /\ item = 0
      /\ faults = 0 /\ kills = 0
  BY DEF Init
<1>3. mode \notin Tests
  BY <1>2, TestNames
<1>4. 0 \in Uint16 /\ 0 % 4 = 0
  BY DEF Uint16
<1> QED
  BY <1>1, <1>2, <1>3, <1>4 DEF TestInv, TestTypeOK, TestPlaceInv, ProgramPlaces, Ended

LEMMA TestNextInv == TestInv /\ [TestNext]_vars => TestInv'
<1> SUFFICES ASSUME TestInv, [TestNext]_vars PROVE TestInv'
  OBVIOUS
<1>1. FirmwareInv'
  BY TestFirmwareKept, StutterInv DEF TestInv, vars
<1>2. TestTypeOK' /\ TestPlaceInv'
  BY TestPlacesKept DEF TestInv
<1> QED
  BY <1>1, <1>2 DEF TestInv

\* The inductive invariant of all the programs and the firmware together.
THEOREM TestInvariant == TestSpec => []TestInv
BY TestInitInv, TestNextInv, PTL DEF TestSpec

\* Whatever fails or is killed, only flash_rw erases and writes, only isp_ids
\* identifies, and no test program closes the device twice or crashes.
THEOREM TestTypeCorrect == TestSpec => []TestTypeOK
<1>1. TestInv => TestTypeOK
  BY DEF TestInv
<1> QED
  BY <1>1, TestInvariant, PTL
-----------------------------------------------------------------------------
\* In a run where nothing has failed, nothing had failed before.
LEMMA TestFailuresCounted ==
    ASSUME TestPlaceInv, [TestNext]_vars, Reliable'
    PROVE  Reliable
BY CountsKept DEF TestPlaceInv, Reliable

\* Only the runs of prog.c keep ModeInv; StartTest leaves them.
LEMMA ProgramModeKept ==
    ASSUME mode \notin Tests => ModeInv, TestNext
    PROVE  mode' \notin Tests => ModeInv'
<1>1. CASE Program /\ mode \notin Tests
  <2>1. Next
    BY <1>1 DEF Next
  <2> QED
    BY <1>1, <2>1, ModeKept
<1>2. CASE MainStep \/ BusEvent \/ BusSuspend \/ Kill \/ Start
  <2>1. CASE mode \notin Tests
    BY <1>2, <2>1, ModeKept DEF Next
  <2>2. CASE mode \in Tests /\ ~Start
    BY <1>2, <2>2 DEF MainStep, BusEvent, BusSuspend, Kill, hostVars
  <2>3. CASE Start
    BY <2>3 DEF Start, Goto, ModeInv
  <2> QED
    BY <2>1, <2>2, <2>3
<1>3. CASE StartTest
  BY <1>3 DEF StartTest
<1>4. CASE TestProgram
  BY <1>4 DEF TestProgram, TestInit, TestClaim, TestIspOut, TestIspIn, TestErase, TestWrite,
     TestWritten, TestReadOut, TestReadIn, TestEnd, InitUsb, IspOut, IspIn, RequestBlock,
     ReadIn, EraseOut, SendWord
<1> QED
  BY <1>1, <1>2, <1>3, <1>4 DEF TestNext, AnyProgram

\* A step of a test leaves what is only said of reads and writes of prog.c true.
LEMMA TestModeSilent ==
    ASSUME mode \in Tests
    PROVE  mode # "read" /\ mode # "write" /\ mode # "none" /\ mode \notin Modes
BY TestNames

LEMMA TestDump ==
    ASSUME mode' \in Tests
    PROVE  DumpInv'
<1>1. mode' # "read"
  BY TestNames
<1> QED
  BY <1>1 DEF DumpInv, CompleteDump

\* The steps of a test that move nothing over the bus.
LEMMA TestQuietReliable ==
    ASSUME FirmwareInv, ExchangeInv, DisplayInv, DumpInv, ImageInv, mode \in Tests,
           TestClaim \/ TestWritten \/ TestEnd
    PROVE  ExchangeInv' /\ DisplayInv' /\ DumpInv' /\ ImageInv'
<1>1. UNCHANGED <<firmwareVars, mode, item, shown, success>>
  BY DEF TestClaim, TestWritten, TestEnd
<1>2. /\ hpc \in {"claim", "write", "lookup", "read_out"}
      /\ hpc' \in {"isp_out", "read_out", "erase", "failed", "done"}
      /\ hpc = "read_out" => hpc' = "done"
  BY TestNames DEF TestClaim, FirstPlace, TestWritten, TestEnd, Goto
<1>3. Blank \/ hpc = "read_out"
  BY <1>2 DEF DisplayInv, Ended
<1>4. /\ hpc \notin Waiting /\ hpc' \notin Waiting \cup {"lookup", "write"}
      /\ hpc' # "close" /\ hpc \notin {"close"} \cup Ended
      /\ Blank \/ hpc' \in {"read_out", "close"} \cup Ended
  BY <1>2, <1>3 DEF Waiting, Ended
<1>5. ExchangeInv' /\ DisplayInv' /\ ImageInv'
  BY <1>1, <1>4, QuietReliable
<1> QED
  BY <1>1, <1>5, TestDump

\* flash_rw sends a word to a device that owes it nothing.
LEMMA TestWriteReliable ==
    ASSUME FirmwareInv, ExchangeInv, DisplayInv, ImageInv, mode \in Tests,
           Reliable, Reliable', TestWrite
    PROVE  /\ ExchangeInv' /\ DisplayInv' /\ DumpInv' /\ ImageInv'
           /\ request = <<>> /\ chip'.flash = chip.flash
           /\ request' = <<WriteRequest(item - 1, FakeData(item - 1))>>
<1> DEFINE p == WriteRequest(item - 1, FakeData(item - 1))
<1>1. /\ TransferOUT(p) /\ hpc = "write" /\ hpc' = hpc
      /\ UNCHANGED <<mode, shown, success>>
  BY NoFailure DEF TestWrite, SendWord, SendOk
<1>2. p # <<>> /\ p[1] \in {3, 4}
  BY DEF WriteRequest
<1> HIDE DEF p
<1>3. NoneDue' /\ request = <<>> /\ request' = <<p>> /\ chip'.flash = chip.flash
  BY <1>1, <1>2, CommandSent DEF ExchangeInv
<1>4. Blank /\ Blank'
  BY <1>1 DEF DisplayInv, Ended, Blank
<1>5. ExchangeInv' /\ DisplayInv'
  BY <1>1, <1>3, <1>4, DisplayedKept DEF ExchangeInv, DisplayInv
<1>6. ImageInv'
  BY <1>1, TestNames DEF ImageInv, Ended
<1> QED
  BY <1>1, <1>3, <1>5, <1>6, TestDump DEF p

\* Every step of a test keeps the exchange and the display.
LEMMA TestProgramReliable ==
    ASSUME TestInv, ExchangeInv, DisplayInv, DumpInv, ImageInv,
           Reliable, Reliable', TestProgram
    PROVE  ExchangeInv' /\ DisplayInv' /\ DumpInv' /\ ImageInv'
<1>0. FirmwareInv /\ mode \in Tests
  BY DEF TestInv, TestProgram
<1>1. CASE TestInit
  BY <1>0, <1>1, OpenReliable DEF TestInit
<1>2. CASE TestIspOut \/ TestIspIn
  BY <1>0, <1>2, IspReliable DEF TestIspOut, TestIspIn
<1>3. CASE TestErase
  BY <1>0, <1>3, EraseOutReliable DEF TestErase
<1>4. CASE TestReadOut
  <2>1. addr \in BlockAddress
    BY <1>4, TestAddress DEF TestReadOut, TestInv, TestPlaceInv
  <2> QED
    BY <1>0, <1>4, <2>1, RequestBlockReliable DEF TestReadOut
<1>5. CASE TestReadIn
  BY <1>0, <1>5, ReadInReliable DEF TestReadIn
<1>6. CASE TestWrite
  BY <1>0, <1>6, TestWriteReliable
<1>7. CASE TestClaim \/ TestWritten \/ TestEnd
  BY <1>0, <1>7, TestQuietReliable
<1> QED
  BY <1>1, <1>2, <1>3, <1>4, <1>5, <1>6, <1>7 DEF TestProgram
-----------------------------------------------------------------------------
\* A step of the main loop programs the next word flash_rw has sent.
LEMMA FakeProgrammed ==
    ASSUME NEW i \in Nat, i # 0, i <= WordsWritten, Writes,
           request = <<WriteRequest(i - 1, FakeData(i - 1))>>,
           chip.flash = FakeWritten(i - 1)
    PROVE  chip'.flash = FakeWritten(i)
<1> DEFINE w == FakeData(i - 1)
           p == WriteRequest(i - 1, w)
<1>1. i - 1 \in Word /\ w \in WordValue
  BY FakeItem
<1>2. AddressIn(p) = i - 1 /\ p[4] = w.low /\ p[5] = w.high
  BY <1>1, WriteIsRequest
<1>3. w \in [low : Byte, high : Byte]
  BY <1>1 DEF WordValue
<1>4. request[1] = p /\ FakeData(i - 1) = w
  OBVIOUS
<1> HIDE DEF p, w
<1>5. chip'.flash = [chip.flash EXCEPT ![i - 1] =
                        Programmed(@, [low |-> w.low, high |-> w.high])]
  BY <1>2, <1>4 DEF Writes
<1>6. [low |-> w.low, high |-> w.high] = w
  BY <1>3
<1>7. Programmed(ErasedWord, w) = w
  <2>1. ByteAnd(ErasedByte, w.low) = w.low /\ ByteAnd(ErasedByte, w.high) = w.high
    <3>1. w.low \in Byte /\ w.high \in Byte /\ ErasedByte \in Byte
      BY <1>3 DEF ErasedByte, Byte
    <3> QED
      BY <3>1, ByteAndAssumption
  <2>2. Programmed(ErasedWord, w) = [low |-> w.low, high |-> w.high]
    BY <2>1 DEF Programmed, ErasedWord
  <2> QED
    BY <1>6, <2>2
<1>8. FakeWritten(i - 1)[i - 1] = ErasedWord
  BY <1>1 DEF FakeWritten
<1>9. chip'.flash = [chip.flash EXCEPT ![i - 1] = w]
  BY <1>5, <1>6, <1>7, <1>8
<1>10. FakeWritten(i) = [FakeWritten(i - 1) EXCEPT ![i - 1] = w]
  <2>1. ASSUME NEW a \in Word
        PROVE  (IF a < i THEN FakeData(a) ELSE ErasedWord)
                 = IF a = i - 1 THEN w ELSE IF a < i - 1 THEN FakeData(a) ELSE ErasedWord
    <3>1. a \in Nat
      BY WordFacts
    <3>2. CASE a = i - 1
      BY <1>4, <3>2
    <3>3. CASE a # i - 1
      <4>1. (a < i) = (a < i - 1)
        BY <3>1, <3>3
      <4> QED
        BY <3>3, <4>1
    <3> QED
      BY <3>2, <3>3
  <2> QED
    BY <2>1 DEF FakeWritten
<1> QED
  BY <1>9, <1>10

\* The main loop carries out the packet of flash_rw that is outstanding.
LEMMA FakeMainSent ==
    ASSUME FirmwareInv, Main, NoneDue, item' = item,
           item \in Nat, item # 0, item <= WordsWritten + 1, FakeSent
    PROVE  FakeSent'
<1>1. CASE request = <<>>
  BY <1>1, NoneDueKept DEF FakeSent
<1>2. CASE request # <<>>
  <2>1. request[1] # <<>> /\ request[1][1] \in {3, 4}
    BY <1>2 DEF NoneDue
  <2>2. ~Notes /\ ~Drops
    BY <2>1, CommandFacts DEF Notes, Drops
  <2>3. CASE SameDevice \/ Cancels \/ Replies
    BY <2>3 DEF SameDevice, Cancels, Replies, FakeSent
  <2>4. CASE Erases
    <3>1. request = <<EraseRequest>> /\ item = 1
      BY <1>2, <2>4 DEF FakeSent, Erases, WriteRequest
    <3>2. FakeWritten(0) = [a \in Word |-> ErasedWord]
      <4>1. \A a \in Word : ~(a < 0)
        BY WordFacts
      <4> QED
        BY <4>1 DEF FakeWritten
    <3> QED
      BY <2>4, <3>1, <3>2 DEF Erases, FakeSent
  <2>5. CASE Writes
    <3>1. /\ item > 1 /\ chip.flash = FakeWritten(item - 2)
          /\ request = <<WriteRequest(item - 2, FakeData(item - 2))>>
      BY <1>2, <2>5 DEF FakeSent, Writes, EraseRequest
    <3>2. /\ item - 1 \in Nat /\ item - 1 # 0 /\ item - 1 <= WordsWritten
          /\ (item - 1) - 1 = item - 2
      BY <3>1, TestBounds
    <3>3. chip'.flash = FakeWritten(item - 1)
      BY <2>5, <3>1, <3>2, FakeProgrammed
    <3> QED
      BY <2>5, <3>3 DEF FakeSent, Writes
  <2> QED
    BY <2>2, <2>3, <2>4, <2>5, MainMoves
<1> QED
  BY <1>1, <1>2

\* Where flash_rw is, its counter and its last packet.
LEMMA ItemFacts ==
    ASSUME TestInv, mode = "flash_rw"
    PROVE  /\ mode \in Tests /\ item \in Nat /\ item <= WordsWritten + 1
           /\ hpc = "write" => item # 0
           /\ hpc \notin {"isp_out", "isp_in", "lookup"}
<1>1. mode \in Tests
  BY BudgetAssumption DEF TestInv, TestPlaceInv
<1> QED
  BY <1>1, TestBounds DEF TestInv, TestPlaceInv, TestTypeOK

\* The device and the bus.
LEMMA DeviceReadBack ==
    ASSUME TestInv, ExchangeInv, ReadBackInv, MainStep \/ BusEvent
    PROVE  ReadBackInv'
<1>1. UNCHANGED <<hpc, mode, addr, item, shown>>
  BY DEF MainStep, BusEvent, hostVars
<1>2. SUFFICES ASSUME mode = "flash_rw", hpc \in {"write", "read_out", "read_in", "done"}
               PROVE  ReadBackInv'
  BY <1>1 DEF ReadBackInv
<1>3. /\ FirmwareInv /\ item \in Nat /\ item <= WordsWritten + 1 /\ WordsWritten \in Nat
      /\ hpc = "write" => item # 0
  BY <1>2, ItemFacts, TestBounds DEF TestInv
<1>4. ShownTo(addr)' = ShownTo(addr) /\ ShownTo(WordsRead)' = ShownTo(WordsRead)
  BY <1>1 DEF ShownTo
<1>5. CASE BusEvent
  <2>1. SameDevice
    BY <1>3, <1>5, BusMoves DEF BusEvent, Bus
  <2> QED
    BY <1>1, <1>4, <2>1 DEF SameDevice, ReadBackInv, FakeSent
<1>6. CASE MainStep /\ hpc \in {"write", "read_out"}
  <2>1. Main /\ NoneDue
    BY <1>6 DEF MainStep, ExchangeInv
  <2>2. item # 0 /\ FakeSent
    BY <1>2, <1>3, <1>6 DEF ReadBackInv
  <2>3. FakeSent'
    BY <1>1, <1>3, <2>1, <2>2, FakeMainSent
  <2> QED
    BY <1>1, <1>2, <1>4, <1>6, <2>3 DEF ReadBackInv
<1>7. CASE MainStep /\ hpc = "read_in"
  <2>1. /\ Main /\ addr \in BlockAddress
        /\ Due(ReadRequest(addr), Block(chip.flash, addr))
    BY <1>7 DEF MainStep, ExchangeInv
  <2>2. IsQuery(ReadRequest(addr)) /\ Block(chip.flash, addr) = AnswerTo(ReadRequest(addr))
    BY <2>1, AnswerFacts
  <2>3. chip'.flash = chip.flash
    BY <1>3, <2>1, <2>2, DueKept
  <2> QED
    BY <1>1, <1>2, <1>4, <1>7, <2>3 DEF ReadBackInv
<1>8. CASE MainStep /\ hpc = "done"
  <2>1. Main /\ NoneDue
    BY <1>8 DEF MainStep, ExchangeInv
  <2>2. request' = <<>> /\ chip'.flash = chip.flash
    BY <1>2, <1>3, <1>8, <2>1, NoneDueKept DEF ReadBackInv
  <2> QED
    BY <1>1, <1>2, <1>4, <1>8, <2>2 DEF ReadBackInv
<1> QED
  BY <1>2, <1>5, <1>6, <1>7, <1>8

\* flash_rw sends the erase and its words, and goes on to the reading.
LEMMA WriteReadBack ==
    ASSUME TestInv, ExchangeInv, DisplayInv, ImageInv, ReadBackInv, Reliable, Reliable',
           mode = "flash_rw", TestErase \/ TestWrite \/ TestWritten
    PROVE  ReadBackInv'
<1>1. /\ FirmwareInv /\ mode \in Tests /\ mode' = mode
      /\ item \in Nat /\ item <= WordsWritten + 1 /\ WordsWritten \in Nat
      /\ hpc = "write" => item # 0
  BY ItemFacts, TestBounds DEF TestInv, TestErase, EraseOut, TestWrite, SendWord, TestWritten
<1>2. CASE TestErase
  <2>1. TransferOUT(EraseRequest) /\ hpc' = "write" /\ item' = 1
    BY <1>2, NoFailure DEF TestErase, EraseOut, SendOk, Goto
  <2>2. request' = <<EraseRequest>>
    BY <1>1, <2>1, SendMoves
  <2> QED
    BY <2>1, <2>2 DEF ReadBackInv, FakeSent
<1>3. CASE TestWrite
  <2>1. hpc = "write" /\ hpc' = hpc /\ item' = item + 1 /\ item <= WordsWritten
    BY <1>3 DEF TestWrite, SendWord
  <2>2. /\ request = <<>> /\ chip'.flash = chip.flash
        /\ request' = <<WriteRequest(item - 1, FakeData(item - 1))>>
    BY <1>1, <1>3, TestWriteReliable
  <2>3. chip.flash = FakeWritten(item - 1)
    BY <1>1, <2>1, <2>2 DEF ReadBackInv, FakeSent
  <2>4. item' > 1 /\ item' - 2 = item - 1
    BY <1>1, <2>1
  <2>5. FakeSent'
    BY <2>2, <2>3, <2>4 DEF FakeSent
  <2> QED
    BY <2>1, <2>5 DEF ReadBackInv
<1>4. CASE TestWritten
  <2>1. /\ UNCHANGED <<firmwareVars, item, shown>>
        /\ hpc = "write" /\ hpc' = "read_out" /\ addr' = 0 /\ item > WordsWritten
    BY <1>4 DEF TestWritten, Goto
  <2>2. SameDevice /\ FakeSent
    BY <1>1, <2>1, BusMoves DEF ReadBackInv
  <2>3. FakeSent'
    BY <2>1, <2>2 DEF SameDevice, FakeSent
  <2>4. ShownTo(addr)'
    <3>1. \A a \in BlockAddress : ~(a < 0)
      BY WordFacts DEF BlockAddress
    <3> QED
      BY <2>1, <3>1 DEF ShownTo
  <2>5. item' = WordsWritten + 1
    BY <1>1, <2>1
  <2> QED
    BY <2>1, <2>3, <2>4, <2>5 DEF ReadBackInv
<1> QED
  BY <1>2, <1>3, <1>4

\* A block is asked for when every word has been carried out.
LEMMA AskReadBack ==
    ASSUME TestInv, ReadBackInv, Reliable, Reliable', mode = "flash_rw", TestReadOut
    PROVE  ReadBackInv'
<1>1. /\ TransferOUT(ReadRequest(addr)) /\ hpc = "read_out" /\ hpc' = "read_in"
      /\ UNCHANGED <<mode, addr, item, shown>>
  BY NoFailure DEF TestReadOut, RequestBlock, SendOk, Goto
<1>2. request = <<>> /\ chip'.flash = chip.flash
  BY <1>1, SendMoves DEF TestInv
<1>3. item = WordsWritten + 1 /\ FakeSent /\ ShownTo(addr) /\ item - 1 = WordsWritten
  BY <1>1, TestBounds DEF ReadBackInv
<1>4. chip.flash = FakeWritten(WordsWritten)
  BY <1>2, <1>3 DEF FakeSent
<1>5. ShownTo(addr)'
  BY <1>1, <1>3 DEF ShownTo
<1> QED
  BY <1>1, <1>2, <1>3, <1>4, <1>5 DEF ReadBackInv

\* The block displayed joins those before it.
LEMMA ShownFurther ==
    ASSUME ShownTo(addr), addr \in Uint16, addr % 4 = 0, addr \in BlockAddress,
           shown \in [BlockAddress -> {<<>>} \cup [1..4 -> Uint16]],
           addr' = NextAddr, shown' = [shown EXCEPT ![addr] = FlashWordsAt(addr)]
    PROVE  ShownTo(addr)' /\ ~Blank'
<1>1. NextAddr \in Uint16 /\ NextAddr % 4 = 0
  BY NextAddrFacts
<1>2. ASSUME NEW a \in BlockAddress, a < NextAddr
      PROVE  a < addr \/ a = addr
  <2>1. a \in Nat /\ a % 4 = 0 /\ addr \in Nat /\ addr % 4 = 0
    BY WordFacts DEF BlockAddress, Uint16
  <2>2. NextAddr <= addr + 4
    BY <2>1 DEF NextAddr
  <2>3. a < addr + 4
    BY <1>1, <1>2, <2>1, <2>2 DEF Uint16
  <2> QED
    BY <2>1, <2>3
<1>3. FlashWordsAt(addr) # <<>>
  <2>1. DOMAIN FlashWordsAt(addr) = 1..4
    BY DEF FlashWordsAt
  <2>2. 1 \in 1..4 /\ 1 \notin DOMAIN <<>>
    OBVIOUS
  <2> QED
    BY <2>1, <2>2
<1>4. \A a \in BlockAddress : shown'[a] = IF a = addr THEN FlashWordsAt(addr) ELSE shown[a]
  OBVIOUS
<1>5. \A a \in BlockAddress : a < addr' => shown'[a] # <<>>
  BY <1>2, <1>3, <1>4 DEF ShownTo
<1>6. ~Blank'
  <2>1. shown'[addr] # <<>>
    BY <1>3, <1>4
  <2> QED
    BY <2>1 DEF Blank
<1> QED
  BY <1>5, <1>6 DEF ShownTo

\* The answer comes, or a state of the buttons before it.
LEMMA GetReadBack ==
    ASSUME TestInv, ExchangeInv, DisplayInv, ReadBackInv, Reliable, Reliable',
           mode = "flash_rw", TestReadIn
    PROVE  ReadBackInv'
<1>1. /\ FirmwareInv /\ ReadIn /\ TransferIN /\ hpc = "read_in"
      /\ UNCHANGED <<mode, item>> /\ addr \in BlockAddress
  BY NoFailure DEF TestInv, TestReadIn, ReadIn, ReceiveOk, ExchangeInv
<1>2. /\ DisplayInv'
      /\ \/ UNCHANGED <<hpc, addr, shown>>
         \/ /\ hpc' = "read_out" /\ addr' = NextAddr
            /\ shown' = [shown EXCEPT ![addr] = FlashWordsAt(addr)]
  BY <1>1, ReadInExchange
<1>3. /\ item = WordsWritten + 1 /\ chip.flash = FakeWritten(WordsWritten)
      /\ ShownTo(addr) /\ chip'.flash = chip.flash /\ item - 1 = WordsWritten
  BY <1>1, FetchMoves, TestBounds DEF ReadBackInv
<1>4. CASE UNCHANGED <<hpc, addr, shown>>
  <2>1. ShownTo(addr)'
    BY <1>3, <1>4 DEF ShownTo
  <2> QED
    BY <1>1, <1>3, <1>4, <2>1 DEF ReadBackInv
<1>5. CASE /\ hpc' = "read_out" /\ addr' = NextAddr
           /\ shown' = [shown EXCEPT ![addr] = FlashWordsAt(addr)]
  <2>1. ShownTo(addr)' /\ ~Blank'
    BY <1>1, <1>3, <1>5, ShownFurther DEF DisplayInv, TestInv, TestPlaceInv
  <2>2. request' = <<>>
    BY <1>2, <1>5, <2>1 DEF DisplayInv
  <2>3. FakeSent'
    BY <1>1, <1>3, <2>2 DEF FakeSent
  <2> QED
    BY <1>1, <1>3, <1>5, <2>1, <2>3 DEF ReadBackInv
<1> QED
  BY <1>2, <1>4, <1>5

\* flash_rw ends with every block read, so that no word is outstanding.
LEMMA EndReadBack ==
    ASSUME TestInv, DisplayInv, ReadBackInv, mode = "flash_rw", TestEnd
    PROVE  ReadBackInv'
<1>1. /\ UNCHANGED <<firmwareVars, mode, item, shown>> /\ hpc = "read_out"
      /\ hpc' = "done" /\ addr >= WordsRead
  BY ItemFacts DEF TestEnd, Goto
<1>2. SameDevice
  BY <1>1, BusMoves DEF TestInv
<1>3. item = WordsWritten + 1 /\ FakeSent /\ ShownTo(addr) /\ item - 1 = WordsWritten
  BY <1>1, TestBounds DEF ReadBackInv
<1>4. ShownTo(WordsRead)
  <2>1. ASSUME NEW a \in BlockAddress, a < WordsRead PROVE a < addr
    BY <1>1, <2>1, WordFacts, TestBounds DEF BlockAddress, TestInv, TestPlaceInv, Uint16
  <2> QED
    BY <1>3, <2>1 DEF ShownTo
<1>5. ~Blank
  <2>1. 0 \in BlockAddress
    BY FlashAssumption DEF BlockAddress, Word
  <2>2. 0 < WordsRead
    BY TestBounds
  <2> QED
    BY <1>4, <2>1, <2>2 DEF ShownTo, Blank
<1>6. request = <<>> /\ chip.flash = FakeWritten(WordsWritten)
  BY <1>1, <1>3, <1>5 DEF DisplayInv, FakeSent
<1>7. ShownTo(WordsRead)'
  BY <1>1, <1>4 DEF ShownTo
<1> QED
  BY <1>1, <1>2, <1>6, <1>7 DEF ReadBackInv, SameDevice

LEMMA TestReadBack ==
    ASSUME TestInv, ExchangeInv, DisplayInv, ImageInv, ReadBackInv, Reliable, Reliable',
           TestNext
    PROVE  ReadBackInv'
<1>1. CASE MainStep \/ BusEvent
  BY <1>1, DeviceReadBack
<1>2. CASE Start \/ StartTest
  BY <1>2 DEF Start, StartTest, Goto, ReadBackInv
<1>3. CASE mode \notin Tests /\ Program
  <2>1. mode' = mode
    BY <1>3 DEF Program, InitUsb, Claim, IspOut, IspIn, Lookup, ReadOut, RequestBlock,
       ReadIn, ReadEnd, EraseOut, WriteOut, SendWord, WriteEnd, Close
  <2> QED
    BY <1>3, <2>1, ItemFacts DEF ReadBackInv
<1>4. CASE TestProgram
  <2>1. mode' = mode
    BY <1>4 DEF TestProgram, TestInit, TestClaim, TestIspOut, TestIspIn, TestErase,
       TestWrite, TestWritten, TestReadOut, TestReadIn, TestEnd, InitUsb, IspOut, IspIn,
       RequestBlock, ReadIn, EraseOut, SendWord
  <2>2. SUFFICES ASSUME mode = "flash_rw" PROVE ReadBackInv'
    BY <2>1 DEF ReadBackInv
  <2>3. CASE TestInit \/ TestClaim \/ TestIspOut \/ TestIspIn
    <3>1. hpc' \in {"claim", "failed", "erase"}
      BY <2>2, <2>3, ItemFacts DEF TestInit, InitUsb, TestClaim, FirstPlace, TestIspOut,
         IspOut, TestIspIn, IspIn, Goto
    <3> QED
      BY <3>1 DEF ReadBackInv
  <2> QED
    BY <1>4, <2>2, <2>3, WriteReadBack, AskReadBack, GetReadBack, EndReadBack
       DEF TestProgram
<1>5. ~Kill /\ ~BusSuspend
  BY NoFailure
<1> QED
  BY <1>1, <1>2, <1>3, <1>4, <1>5 DEF TestNext, AnyProgram

\* isp_ids ends with what it received as the signature.
LEMMA SignatureKept ==
    ASSUME TestInv, ExchangeInv, SignatureShown, TestNext
    PROVE  SignatureShown'
<1>1. CASE MainStep \/ BusEvent \/ BusSuspend
  BY <1>1 DEF MainStep, BusEvent, BusSuspend, hostVars, SignatureShown
<1>2. CASE Start \/ StartTest \/ Kill
  BY <1>2 DEF Start, StartTest, Kill, Goto, SignatureShown
<1>3. CASE mode \notin Tests /\ Program
  <2>1. mode' = mode
    BY <1>3 DEF Program, InitUsb, Claim, IspOut, IspIn, Lookup, ReadOut, RequestBlock,
       ReadIn, ReadEnd, EraseOut, WriteOut, SendWord, WriteEnd, Close
  <2>2. mode # "isp_ids"
    BY <1>3, BudgetAssumption DEF TestInv, TestPlaceInv
  <2> QED
    BY <2>1, <2>2 DEF SignatureShown
<1>4. CASE TestEnd /\ mode \in Tests
  <2>1. UNCHANGED <<mode, sig>> /\ hpc \in {"lookup", "read_out"}
    BY <1>4 DEF TestEnd
  <2>2. mode = "isp_ids" => hpc = "lookup"
    BY <1>4, <2>1 DEF TestInv, TestPlaceInv
  <2> QED
    BY <2>1, <2>2 DEF ExchangeInv, SignatureShown
<1>5. CASE /\ mode \in Tests
           /\ \/ TestInit \/ TestClaim \/ TestIspOut \/ TestIspIn
              \/ TestErase \/ TestWrite \/ TestWritten \/ TestReadOut \/ TestReadIn
  <2>1. hpc' # "done"
    BY <1>5, TestNames DEF TestInit, TestClaim, FirstPlace, TestIspOut, TestIspIn, TestErase,
       TestWrite, TestWritten, TestReadOut, TestReadIn, InitUsb, IspOut, IspIn,
       RequestBlock, ReadIn, EraseOut, SendWord, Goto
  <2> QED
    BY <2>1 DEF SignatureShown
<1> QED
  BY <1>1, <1>2, <1>3, <1>4, <1>5 DEF TestNext, AnyProgram, TestProgram
-----------------------------------------------------------------------------
LEMMA ReliableTestInit == Init => ReliableTestInv
<1> SUFFICES ASSUME Init PROVE ReliableTestInv
  OBVIOUS
<1>1. ReliableInv /\ mode = "none"
  BY ReliableInit DEF Init
<1> QED
  BY <1>1 DEF ReliableInv, ReliableTestInv, ReadBackInv, SignatureShown

\* The exchange and the display, for a step of any program or of the device.
LEMMA TestExchange ==
    ASSUME TestInv, ReliableTestInv, Reliable, Reliable', TestNext
    PROVE  ExchangeInv' /\ DisplayInv' /\ DumpInv' /\ ImageInv'
<1>1. FirmwareInv /\ ExchangeInv /\ DisplayInv /\ DumpInv /\ ImageInv
  BY DEF TestInv, ReliableTestInv
<1>2. CASE mode \notin Tests /\ Program
  BY <1>1, <1>2, ProgramReliable DEF ReliableTestInv, ReliableInv
<1>3. CASE TestProgram
  BY <1>1, <1>3, TestProgramReliable
<1>4. CASE MainStep \/ BusEvent
  BY <1>1, <1>4, DeviceReliable
<1>5. CASE Start \/ StartTest
  BY <1>1, <1>5, StartReliable DEF Start, StartTest, Goto
<1>6. ~Kill /\ ~BusSuspend
  BY NoFailure
<1> QED
  BY <1>2, <1>3, <1>4, <1>5, <1>6 DEF TestNext, AnyProgram

LEMMA ReliableTestNext ==
    ASSUME TestInv, Reliable => ReliableTestInv, [TestNext]_vars
    PROVE  (Reliable => ReliableTestInv)'
<1> SUFFICES ASSUME Reliable' PROVE ReliableTestInv'
  OBVIOUS
<1>1. Reliable /\ ReliableTestInv
  BY TestFailuresCounted DEF TestInv
<1>2. CASE TestNext
  <2>1. ExchangeInv' /\ DisplayInv' /\ DumpInv' /\ ImageInv'
    BY <1>1, <1>2, TestExchange
  <2>2. mode' \notin Tests => ModeInv'
    BY <1>1, <1>2, ProgramModeKept DEF ReliableTestInv
  <2>3. ReadBackInv' /\ SignatureShown'
    BY <1>1, <1>2, TestReadBack, SignatureKept DEF ReliableTestInv
  <2> QED
    BY <2>1, <2>2, <2>3 DEF ReliableTestInv
<1>3. CASE UNCHANGED vars
  <2>1. UNCHANGED <<firmwareVars, hostVars>>
    BY <1>3 DEF vars
  <2>2. UNCHANGED <<firmwareVars, hpc, mode, sig, cible, addr, item, shown, success>>
    BY <2>1 DEF hostVars
  <2>3. SameDevice
    BY <2>2, BusMoves DEF TestInv
  <2>4. ExchangeInv' /\ DisplayInv' /\ DumpInv' /\ ImageInv'
    BY <1>1, <2>2, <2>3 DEF SameDevice, ReliableTestInv, ExchangeInv, Due, NoneDue,
       NoReply, DisplayInv, Blank, DisplayedIsFlash, FlashWordsAt, DumpInv, CompleteDump,
       ImageInv, Sent
  <2>5. ReadBackInv' /\ SignatureShown' /\ (mode' \notin Tests => ModeInv')
    BY <1>1, <2>2, <2>3 DEF SameDevice, ReliableTestInv, ReadBackInv, FakeSent, ShownTo,
       SignatureShown, ModeInv
  <2> QED
    BY <2>4, <2>5 DEF ReliableTestInv
<1> QED
  BY <1>2, <1>3

\* The inductive invariant of the runs of all programs in which nothing fails.
THEOREM ReliableTestInvariant == TestSpec => [](Reliable => ReliableTestInv)
<1>1. Init => (Reliable => ReliableTestInv)
  BY ReliableTestInit
<1>2. TestInv /\ (Reliable => ReliableTestInv) /\ [TestNext]_vars
        => (Reliable => ReliableTestInv)'
  BY ReliableTestNext
<1> QED
  BY <1>1, <1>2, TestInvariant, PTL DEF TestSpec

\* As long as nothing has failed, isp_ids ends with the target's signature, though
\* states of the buttons may come before it.
THEOREM SignatureTrue == TestSpec => [](Reliable => SignatureShown)
<1>1. ReliableTestInv => SignatureShown
  BY DEF ReliableTestInv
<1> QED
  BY <1>1, ReliableTestInvariant, PTL

\* Under the same condition flash_rw ends with its own words displayed, and the
\* erased flash after them, for every flash and every number of words.
THEOREM ReadBackTrue == TestSpec => [](Reliable => ReadBackMatches)
<1>1. ReliableTestInv => ReadBackMatches
  <2> SUFFICES ASSUME ReliableTestInv, mode = "flash_rw", hpc = "done",
                      NEW a \in BlockAddress, a < WordsRead
               PROVE  shown[a] = [k \in 1..4 |-> 256 * TestFlash(a + k - 1).high
                                                    + TestFlash(a + k - 1).low]
    BY DEF ReadBackMatches
  <2>1. chip.flash = FakeWritten(WordsWritten) /\ shown[a] # <<>>
    BY DEF ReliableTestInv, ReadBackInv, ShownTo
  <2>2. shown[a] = FlashWordsAt(a)
    BY <2>1 DEF ReliableTestInv, DisplayInv, DisplayedIsFlash
  <2>3. ASSUME NEW k \in 1..4
        PROVE  chip.flash[a + k - 1] = TestFlash(a + k - 1)
    <3>1. a + k - 1 \in Word
      <4>1. a \in Nat /\ a % 4 = 0 /\ a < FlashWords
        BY FlashAssumption DEF BlockAddress, Word
      <4>2. a + 4 <= FlashWords
        BY <4>1, FlashAssumption, BlocksAssumption
      <4> QED
        BY <4>1, <4>2, FlashAssumption DEF Word
    <3> QED
      BY <2>1, <3>1 DEF FakeWritten, TestFlash
  <2> QED
    BY <2>2, <2>3 DEF FlashWordsAt
<1> QED
  BY <1>1, ReliableTestInvariant, PTL

\* The test programs leave the PC program's own guarantees intact: run before,
\* after and between its runs, they change neither what it displays nor what its
\* success message promises.
THEOREM ProgramsTrue ==
    TestSpec => [](Reliable => /\ DisplayedIsFlash /\ CompleteDump
                               /\ FlashFollowsImage /\ SuccessMeansWritten)
<1>1. ReliableTestInv => DisplayedIsFlash /\ CompleteDump
  BY DEF ReliableTestInv, DisplayInv, DumpInv
<1>2. ReliableTestInv => FlashFollowsImage /\ SuccessMeansWritten
  BY ImageFollowed DEF ReliableTestInv
<1> QED
  BY <1>1, <1>2, ReliableTestInvariant, PTL
=============================================================================
