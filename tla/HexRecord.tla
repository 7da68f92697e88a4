----------------------------- MODULE HexRecord -----------------------------
(***************************************************************************)
(* What flash_write.c makes of one line of an Intel HEX file.  The columns  *)
(* of a line from the ninth on are its data bytes and then its checksum,    *)
(* two hexadecimal digits each: a sequence of bytes.                        *)
(***************************************************************************)
EXTENDS Integers, Sequences

\* Of an uint16_t.
Values16 == 65536

\* "%4x" at a byte position: four digits, the first ones the most significant.
\* Before the end of the line only two digits may be left.
ScannedWord(columns, i) ==
    IF i + 1 <= Len(columns) THEN 256 * columns[i] + columns[i + 1]
    ELSE columns[i]

\* Mutant: the bytes of a word left as they are in the file.
NotSwapped(w) == w

\* The exchange of the two bytes of a word.
Swapped(w) == 256 * (w % 256) + w \div 256

\* Mutant: the high byte not shifted down.
PacketWordUnshifted(data) == [low |-> data % 256, high |-> data - (data % 256)]

\* The two data bytes of a write packet.
PacketWord(data) == [low |-> data % 256, high |-> (data \div 256) % 256]

\* Mutant: the loop goes on while i <= length.
RecordRequestsOneMore(length, addr_in, columns) ==
    [k \in 1..((length + 2) \div 2) |->
        [addr |-> (addr_in \div 2 + k - 1) % Values16,
         word |-> PacketWord(Swapped(ScannedWord(columns, 2 * k - 1)))]]

\* The words the loop of flash_write sends for one data record of the given
\* length: two bytes at a time, at consecutive 16-bit word addresses.
RecordRequests(length, addr_in, columns) ==
    [k \in 1..((length + 1) \div 2) |->
        [addr |-> (addr_in \div 2 + k - 1) % Values16,
         word |-> PacketWord(Swapped(ScannedWord(columns, 2 * k - 1)))]]
=============================================================================
