------------------------------ MODULE Protocol ------------------------------
(***************************************************************************)
(* The packets the host programs and the firmware exchange, byte for byte. *)
(* An OUT packet begins with a command byte; an answer carries neither the  *)
(* command nor the address it answers: only its length tells it apart.      *)
(***************************************************************************)
EXTENDS Target

CONSTANTS
    Requests,  \* the OUT packets a host may send
    Buttons    \* the values PINC & 0xC0 may take

LedValues == {32 * k : k \in 0..7}  \* any combination of bits 5 to 7
BlockAddress == {a \in Word : a % 4 = 0}

IdRequest == <<1>>
ReadRequest(addr) == <<2, (addr \div 256) % 256, addr % 256>>
WriteRequest(addr, w) == <<3, (addr \div 256) % 256, addr % 256, w.low, w.high>>
EraseRequest == <<4>>

\* The address in a read or a write request, as the firmware puts it together.
AddressIn(p) == 256 * p[2] + p[3]

IsRequest(p) ==
    /\ p \in Seq(Byte)
    /\ \/ Len(p) = 0
       \/ Len(p) = 1 /\ p[1] \in LedValues \cup {1, 4}
       \/ Len(p) = 3 /\ p[1] = 2 /\ AddressIn(p) \in BlockAddress
       \/ Len(p) = 5 /\ p[1] = 3 /\ AddressIn(p) \in Word

ASSUME RequestsAssumption == \A p \in Requests : IsRequest(p)
ASSUME ButtonsAssumption == Buttons \subseteq {0, 64, 128, 192} /\ Buttons # {}

\* Mutant: any packet is taken for a state of the buttons.
IsAnything(p) == Len(p) >= 1

\* An answer is told from another by its length alone.
IsButtons(p) == Len(p) = 1
IsSignature(p) == Len(p) = 3
IsBlock(p) == Len(p) = 8

\* The answer to a read: four words from addr on, low byte first.
Block(flash, addr) ==
    [k \in 1..8 |-> IF k % 2 = 1 THEN flash[addr + (k - 1) \div 2].low
                    ELSE flash[addr + (k - 1) \div 2].high]
=============================================================================
