------------------------------ MODULE HexFile ------------------------------
(***************************************************************************)
(* The loop of flash_write.c over the lines of the file.  fgets and sscanf  *)
(* fill variables that outlive a line: a line sscanf does not match leaves  *)
(* the header of the line before, and a line shorter than nine characters   *)
(* leaves its columns too.                                                  *)
(***************************************************************************)
EXTENDS HexRecord

CONSTANTS
    Records,   \* the records a file may hold: [length, addr, type, columns]
    MaxLines   \* longest file

\* A record's columns are its data bytes and its checksum.  A line fits the
\* buffer of 256 characters with its line break: a longer one is cut by fgets.
ASSUME RecordsAssumption ==
    \A r \in Records : /\ r.length \in 0..121 /\ r.addr \in 0..(Values16 - 1) /\ r.type \in 0..255
                       /\ r.columns \in Seq(0..255)
                       /\ Len(r.columns) = r.length + 1

VARIABLES
    file,                       \* the lines read so far; <<>> for a blank one
    length, addr_in, type_in,   \* what sscanf last stored
    columns,                    \* line[9...] of the buffer
    sent,                       \* the words sent to the programmer
    done                        \* the loop is over

vars == <<file, length, addr_in, type_in, columns, sent, done>>

Init == /\ file = <<>> /\ sent = <<>> /\ done = FALSE
        /\ length = 0 /\ addr_in = 0 /\ type_in = 0 /\ columns = <<>>

\* The body of the loop for the header and the columns now in the variables.
Processed == CASE type_in' = 1 -> done' = TRUE /\ UNCHANGED sent
               [] type_in' = 0 ->
                    /\ sent' = sent \o RecordRequests(length', addr_in', columns')
                    /\ UNCHANGED done
               [] OTHER -> UNCHANGED <<sent, done>>

\* fgets finds a record.
ReadRecord(r) ==
    /\ ~done /\ Len(file) < MaxLines
    /\ file' = Append(file, <<r>>)
    /\ length' = r.length /\ addr_in' = r.addr /\ type_in' = r.type
    /\ columns' = r.columns
    /\ Processed

\* fgets finds a line without a record, after the first line of the file (the
\* variables of an empty header are not initialised before).
ReadBlank ==
    /\ ~done /\ file # <<>> /\ Len(file) < MaxLines
    /\ file' = Append(file, <<>>)
    /\ UNCHANGED <<length, addr_in, type_in, columns>>
    /\ Processed

EndOfFile == ~done /\ done' = TRUE
             /\ UNCHANGED <<file, length, addr_in, type_in, columns, sent>>

Next == ReadBlank \/ EndOfFile \/ \E r \in Records : ReadRecord(r)

Spec == Init /\ [][Next]_vars
-----------------------------------------------------------------------------
\* The reference: what the Intel HEX format says of the file read so far.  Its
\* data records, up to an end record, give bytes to byte addresses, above the base
\* that the last extended address record before them has set: the upper sixteen
\* bits of the address (type 4), or a segment of sixteen bytes (type 2).
Extended(r) == r.type \in {2, 4}
BaseOf(r) == LET n == 256 * r.columns[1] + r.columns[2]
             IN IF r.type = 4 THEN Values16 * n ELSE 16 * n

ExtendedBefore(i) == {j \in DOMAIN file : j < i /\ file[j] # <<>> /\ Extended(file[j][1])}
Base(i) == IF ExtendedBefore(i) = {} THEN 0
           ELSE LET j == CHOOSE j \in ExtendedBefore(i) :
                            \A k \in ExtendedBefore(i) : k <= j
                IN BaseOf(file[j][1])

DataLines == {i \in DOMAIN file : file[i] # <<>> /\ file[i][1].type = 0}
Placed == {[base |-> Base(i), record |-> file[i][1]] : i \in DataLines}
ByteAddresses(p) == (p.base + p.record.addr)..(p.base + p.record.addr + p.record.length - 1)
Specified == UNION {ByteAddresses(p) : p \in Placed}
ByteAt(b) == LET p == CHOOSE q \in Placed : b \in ByteAddresses(q)
             IN p.record.columns[b - p.base - p.record.addr + 1]

\* Files as a linker writes them for this target: data at even addresses, no byte
\* given twice, and all of it below 64 KB, so that no extended address in front of
\* data is other than zero.  The loop does not read extended addresses: it prints
\* "Erreur de type" and sends the data that follows to its low sixteen bits
\* (flash_write.c:74-75), so that nothing is claimed of other files.
WellFormed ==
    /\ \A i \in DOMAIN file : (file[i] # <<>> /\ Extended(file[i][1])) =>
                                  file[i][1].length = 2
    /\ \A p \in Placed : /\ p.base = 0 /\ p.record.addr % 2 = 0
                         /\ p.record.addr + p.record.length <= Values16
    /\ \A q, p \in Placed : q # p => ByteAddresses(q) \cap ByteAddresses(p) = {}

\* The bytes that reach the erased flash, from the words that were sent.
Programmings(a) == {i \in DOMAIN sent : sent[i].addr = a}

\* Every byte of a well-formed file is sent to the half of the word it belongs to,
\* low byte first, whatever blank lines and records without data stand around it,
\* and a word sent twice is sent with the same value: clearing bits twice is
\* harmless.
EveryByteSent ==
    WellFormed =>
        \A b \in Specified :
            /\ Programmings(b \div 2) # {}
            /\ \A i \in Programmings(b \div 2) :
                  ByteAt(b) = IF b % 2 = 0 THEN sent[i].word.low
                              ELSE sent[i].word.high

\* The only bytes sent that a well-formed file does not hold are the high bytes after
\* records of odd length, where the checksum is taken for data.
OnlyTailsAdded ==
    WellFormed =>
        \A i \in DOMAIN sent :
            /\ 2 * sent[i].addr \in Specified
            /\ \/ 2 * sent[i].addr + 1 \in Specified
               \/ \E p \in Placed :
                     LET r == p.record
                     IN /\ r.length % 2 = 1
                        /\ sent[i].addr = (p.base + r.addr + r.length) \div 2
                        /\ sent[i].word.high = r.columns[r.length + 1]

\* Types: the variables of the loop hold what the format strings allow.
HexTypeOK ==
    /\ length \in 0..255 /\ addr_in \in 0..(Values16 - 1) /\ type_in \in 0..255
    /\ columns \in Seq(0..255)
    /\ \A i \in DOMAIN sent : sent[i].addr \in 0..(Values16 - 1)
                              /\ sent[i].word \in [low : 0..255, high : 0..255]
    /\ done \in BOOLEAN
=============================================================================
