---------------------------- MODULE TestPrograms ----------------------------
(***************************************************************************)
(* The test programs of software/fonctions_test that end by themselves:     *)
(* isp_ids, flash_read and flash_rw.  They are programs of their own, with  *)
(* the transfers of the PC program in another order, and run before, after  *)
(* and between its runs on the same device.  mode is the program's name,    *)
(* the other variables are those of the PC program.                        *)
(***************************************************************************)
EXTENDS Programmer

CONSTANTS
    Tests,        \* the test programs the user may start
    WordsWritten, \* how many words flash_rw writes: 5 in the code
    WordsRead     \* how many words the tests read: 32 in the code

ASSUME TestsAssumption ==
    /\ Tests \subseteq {"isp_ids", "flash_read", "flash_rw"} /\ Tests # {}
    /\ WordsWritten \in 1..FlashWords /\ WordsWritten < 65536
    /\ WordsRead \in 1..FlashWords /\ WordsRead % 4 = 0

\* The word flash_rw makes up for an address: the uint16_t 16#A000 + addr.
FakeData(a) == [low |-> a % 256, high |-> (160 + (a \div 256)) % 256]
-----------------------------------------------------------------------------
\* Mutant: the words are sent to a flash that was not erased.
TestEraseSkipped ==
    /\ hpc = "erase"
    /\ Goto("write") /\ item' = 1
    /\ UNCHANGED <<firmwareVars, mode, handle, sig, cible, addr, shown, success,
                   budgetVars>>

\* The steps the test programs repeat word for word.
TestInit == InitUsb
TestIspOut == IspOut
TestIspIn == IspIn
TestErase == EraseOut
TestReadIn == ReadIn

\* Mutant: flash_read begins where flash_rw does.
FirstPlaceErases == IF mode = "isp_ids" THEN "isp_out" ELSE "erase"

\* reclamer_interface, and the first transfer of each program.
FirstPlace == CASE mode = "isp_ids" -> "isp_out"
                [] mode = "flash_read" -> "read_out"
                [] mode = "flash_rw" -> "erase"

TestClaim ==
    /\ hpc = "claim"
    /\ \/ hpc' = FirstPlace /\ handle' = "claimed"
       \/ Goto("failed") /\ handle' = "closed"
    /\ UNCHANGED <<firmwareVars, mode, sig, cible, addr, item, shown, success,
                   budgetVars>>

\* flash_rw: the next of the first words.
TestWrite ==
    /\ hpc = "write"
    /\ item <= WordsWritten
    /\ SendWord(item - 1, FakeData(item - 1))

\* flash_rw: the words are sent, the reading starts at once.
TestWritten ==
    /\ hpc = "write"
    /\ item > WordsWritten
    /\ Goto("read_out") /\ addr' = 0
    /\ UNCHANGED <<firmwareVars, mode, handle, sig, cible, item, shown, success,
                   budgetVars>>

\* flash_read, flash_rw: the next block.
TestReadOut == hpc = "read_out" /\ addr < WordsRead /\ RequestBlock

\* isp_ids shows the signature and flash_read and flash_rw have read all blocks:
\* the device is released and closed, once.
TestEnd ==
    /\ hpc = "lookup" \/ (hpc = "read_out" /\ addr >= WordsRead)
    /\ Goto("done") /\ handle' = "closed"
    /\ UNCHANGED <<firmwareVars, mode, sig, cible, addr, item, shown, success,
                   budgetVars>>

TestProgram == /\ mode \in Tests
               /\ \/ TestInit \/ TestClaim \/ TestIspOut \/ TestIspIn
                  \/ TestErase \/ TestWrite \/ TestWritten
                  \/ TestReadOut \/ TestReadIn \/ TestEnd

\* The user starts a test program.
StartTest ==
    /\ hpc \in Ended
    /\ runs < MaxRuns /\ runs' = runs + 1
    /\ Goto("init_usb")
    /\ mode' \in Tests
    /\ handle' = "none"
    /\ sig' = <<0, 0, 0>> /\ cible' = 0
    /\ addr' = 0 /\ item' = 0
    /\ shown' = [a \in BlockAddress |-> <<>>]
    /\ success' = FALSE
    /\ UNCHANGED <<firmwareVars, faults, kills, past>>

AnyProgram == TestProgram \/ (mode \notin Tests /\ Program)

TestNext == \/ MainStep \/ AnyProgram \/ Kill \/ Start \/ StartTest
            \/ BusEvent \/ BusSuspend

TestSpec == /\ Init /\ [][TestNext]_vars
            /\ WF_vars(MainStep) /\ WF_vars(AnyProgram) /\ WF_vars(BusEvent)
-----------------------------------------------------------------------------
\* The state of a test program: only flash_rw writes, only isp_ids identifies,
\* and none reaches the places of prog.c that look up a target or close twice.
TestTypeOK ==
    mode \in Tests =>
        /\ hpc \in {"erase", "write"} => mode = "flash_rw"
        /\ hpc \in {"isp_out", "isp_in", "lookup"} => mode = "isp_ids"
        /\ hpc \notin {"close", "crashed"} /\ item \in 0..(WordsWritten + 1)

\* The words flash_rw is to leave in the flash.
TestFlash(a) == IF a < WordsWritten THEN FakeData(a) ELSE ErasedWord

\* What flash_rw is for: the blocks it displays at its end are the erased flash
\* with its own words.  The words must reach a flash that is erased already, and
\* the requests of the reading a firmware that has carried out every word, though
\* neither is ever acknowledged.
ReadBackMatches ==
    (mode = "flash_rw" /\ hpc = "done") =>
        \A a \in BlockAddress : a < WordsRead =>
            shown[a] = [k \in 1..4 |-> 256 * TestFlash(a + k - 1).high
                                         + TestFlash(a + k - 1).low]

\* isp_ids ends with the signature of the target in its buffer, never with a state
\* of the buttons, though one of them waits in the bank before the answer.
SignatureShown == (mode = "isp_ids" /\ hpc = "done") => sig = Signature
=============================================================================
