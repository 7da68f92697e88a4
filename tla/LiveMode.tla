------------------------------ MODULE LiveMode ------------------------------
(***************************************************************************)
(* The live mode, software/fonctions_test/main_pc.c: keys switch the three  *)
(* LEDs of the board and its two buttons are shown, over the firmware's     *)
(* same two endpoints.  Nothing resets the device between two programs, so  *)
(* it may still hold a command, owe an answer to it, or hold an answer.     *)
(***************************************************************************)
EXTENDS Firmware

\* What another program may have left the LEDs and the address at.
CONSTANTS LedsLeft, AddressesLeft

ASSUME LeftAssumption == LedsLeft \subseteq 0..7 /\ AddressesLeft \subseteq Word

VARIABLES
    lpc,           \* where the program is
    running,
    data_out,      \* the LED states, as the program wants them
    r,             \* result of the last OUT transfer: "none", "ok", "error"
    last_data_in   \* the button states last displayed, 255 at first

liveVars == <<lpc, running, data_out, r, last_data_in>>
vars == <<firmwareVars, liveVars>>

Toggled(v, bit) == IF (v \div bit) % 2 = 1 THEN v - bit ELSE v + bit

LiveEnded == {"done", "failed"}
-----------------------------------------------------------------------------
InitUsb ==
    /\ lpc = "init_usb"
    /\ \/ USB_Device_ConfigurationNumber # 0 /\ lpc' = "claim"
       \/ lpc' = "failed"
    /\ UNCHANGED <<firmwareVars, running, data_out, r, last_data_in>>

Claim ==
    /\ lpc = "claim"
    /\ lpc' \in {"keyboard", "failed"}
    /\ UNCHANGED <<firmwareVars, running, data_out, r, last_data_in>>

\* No key, or a key without a meaning.
NoKey ==
    /\ lpc = "keyboard" /\ running
    /\ lpc' = "buttons"
    /\ UNCHANGED <<firmwareVars, running, data_out, r, last_data_in>>

\* [E], [Z] and [A] switch one LED each.
LedKey(bit) ==
    /\ lpc = "keyboard" /\ running
    /\ data_out' = Toggled(data_out, bit)
    /\ lpc' = "send"
    /\ UNCHANGED <<firmwareVars, running, r, last_data_in>>

\* Mutant: the result of the transfer is not looked at.
SendLedsUnchecked ==
    /\ lpc = "send"
    /\ TransferOUT(<<data_out>>) \/ UNCHANGED firmwareVars
    /\ r' = "ok"
    /\ lpc' = "buttons"
    /\ UNCHANGED <<running, data_out, last_data_in>>

\* The new states are sent; a failure is printed, whether or not the packet
\* went through, and the program goes on.
SendLeds ==
    /\ lpc = "send"
    /\ \/ TransferOUT(<<data_out>>) /\ r' = "ok"
       \/ TransferOUT(<<data_out>>) /\ r' = "error"
       \/ UNCHANGED firmwareVars /\ r' = "error"
    /\ lpc' = "buttons"
    /\ UNCHANGED <<running, data_out, last_data_in>>

\* [Q]: the loop is left after one more look at the buttons.
QuitKey ==
    /\ lpc = "keyboard" /\ running
    /\ running' = FALSE
    /\ lpc' = "buttons"
    /\ UNCHANGED <<firmwareVars, data_out, r, last_data_in>>

\* Mutant: a transfer without a time limit.
LookAtButtonsForEver ==
    /\ lpc = "buttons"
    /\ TransferIN
    /\ last_data_in' = IF IsButtons(inBank[1]) THEN inBank[1][1] ELSE last_data_in
    /\ lpc' = IF running THEN "keyboard" ELSE "close"
    /\ UNCHANGED <<running, data_out, r>>

\* A transfer into a buffer of one byte, for 10 ms: a packet of one byte is
\* displayed when it differs from the last, a longer one overflows the buffer,
\* and the time may run out before or after the packet is taken.
LookAtButtons ==
    /\ lpc = "buttons"
    /\ \/ /\ TransferIN
          /\ last_data_in' = IF IsButtons(inBank[1]) THEN inBank[1][1]
                             ELSE last_data_in
       \/ TransferIN /\ UNCHANGED last_data_in
       \/ UNCHANGED <<firmwareVars, last_data_in>>
    /\ lpc' = IF running THEN "keyboard" ELSE "close"
    /\ UNCHANGED <<running, data_out, r>>

Close ==
    /\ lpc = "close"
    /\ lpc' = "done"
    /\ UNCHANGED <<firmwareVars, running, data_out, r, last_data_in>>

Live == \/ InitUsb \/ Claim \/ NoKey \/ \E bit \in {32, 64, 128} : LedKey(bit)
        \/ SendLeds \/ QuitKey \/ LookAtButtons \/ Close

\* What another program may have left in the IN bank.
Unfetched(f) == {<<>>, <<Signature>>} \cup {<<Block(f, a)>> : a \in BlockAddress}
                                     \cup {<< <<b>> >> : b \in Buttons}

\* A device as another program may have left it: its last packet not looked at yet,
\* an answer still due or in the bank, its LEDs as the last LED command set them.
Init ==
    /\ USB_DeviceState = "Configured" /\ USB_Device_ConfigurationNumber = 1
    /\ outBank \in {<<>>} \cup {<<p>> : p \in Requests}
    /\ \E f \in InitialFlashes :
          /\ chip = [enabled |-> FALSE, latch |-> ErasedWord, flash |-> f]
          /\ inBank \in Unfetched(f)
    /\ pc = "loop"
    /\ leds \in LedsLeft /\ commande_PC \in {0, 1, 2, 3, 4, 32 * leds}
    /\ flash_address \in AddressesLeft
    /\ commande_PC = 2 => flash_address \in BlockAddress
    /\ step = 0 /\ fifo = <<>>
    /\ ss = 1
    /\ lpc = "init_usb" /\ running = TRUE
    /\ data_out = 0 /\ r = "none" /\ last_data_in = 255

Next == \/ Main /\ UNCHANGED liveVars
        \/ Bus /\ UNCHANGED liveVars
        \/ Live

Spec == Init /\ [][Next]_vars

\* The firmware's loop and the program run; nobody has to press a key.
FairSpec == Spec /\ WF_vars(Main /\ UNCHANGED liveVars) /\ WF_vars(Live)
-----------------------------------------------------------------------------
\* Once an LED packet the program believes sent has left the bank, the LEDs are
\* as the program has them, however many packets were lost or reported lost
\* before: each packet carries all three states and they are taken in order.
LedsFollowKeys ==
    (r = "ok" /\ outBank = <<>> /\ lpc # "send") => 32 * leds = data_out

\* Only states of the buttons are displayed: an answer left over from another
\* program never passes for one.
OnlyButtonsShown == last_data_in \in Buttons \cup {255}

\* After [Q] the program ends, whatever the device does.
QuitEnds == ~running ~> lpc = "done"

\* Driving the LEDs leaves the target alone: its select line moves only in SPI
\* sessions.
LedCommandOnlyLeds == [][leds' # leds => ss' = ss]_vars
=============================================================================
