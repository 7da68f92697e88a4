--------------------------- MODULE HexFile_proofs ---------------------------
(***************************************************************************)
(* Theorems about the Intel HEX loop, for files of any length over any set  *)
(* of records, extended addresses included: the words sent are those of the *)
(* data records, at their low sixteen bits; if no base but zero stands in    *)
(* front of data, every byte goes to its place, and nothing else is sent but *)
(* the checksum after a record of odd length.                               *)
(***************************************************************************)
EXTENDS HexFile, SequenceTheorems, TLAPS

Bytes == 0..255
SentWords == [addr : 0..(Values16 - 1), word : [low : Bytes, high : Bytes]]
Lines == {<<>>} \cup {<<r>> : r \in Records}

\* What one record makes the loop send.
WordCount(r) == (r.length + 1) \div 2
RequestsOf(r) == RecordRequests(r.length, r.addr, r.columns)
WordsOf(r) == {RequestsOf(r)[k] : k \in 1..WordCount(r)}

SentSet == {sent[i] : i \in DOMAIN sent}

\* The records read so far, wherever an extended address puts them, and the bytes
\* of one below 64 KB.
RecordsRead == {file[i][1] : i \in {j \in DOMAIN file : file[j] # <<>>}}
DataRecords == {r \in RecordsRead : r.type = 0}
Span(r) == r.addr..(r.addr + r.length - 1)

\* The variables sscanf fills hold the header and the columns of a record that
\* has been read, also on a line it does not match.
HeaderInv ==
    file # <<>> =>
        \E r \in RecordsRead : /\ length = r.length /\ addr_in = r.addr
                               /\ type_in = r.type /\ columns = r.columns

\* What has been sent is what the data records read so far make the loop send,
\* no word more and none less.
HexInv ==
    /\ file \in Seq(Lines) /\ sent \in Seq(SentWords) /\ done \in BOOLEAN
    /\ length \in 0..255 /\ addr_in \in 0..(Values16 - 1) /\ type_in \in 0..255
    /\ columns \in Seq(Bytes)
    /\ HeaderInv
    /\ SentSet = UNION {WordsOf(r) : r \in DataRecords}
-----------------------------------------------------------------------------
\* The byte order: the first of two bytes of a file is the low one of its word.
LEMMA ByteOrder ==
    ASSUME NEW a \in Bytes, NEW b \in Bytes
    PROVE  PacketWord(Swapped(256 * a + b)) = [low |-> a, high |-> b]
<1>1. (256 * a + b) % 256 = b /\ (256 * a + b) \div 256 = a
  BY DEF Bytes
<1>2. Swapped(256 * a + b) = 256 * b + a
  BY <1>1 DEF Swapped
<1>3. (256 * b + a) % 256 = a /\ ((256 * b + a) \div 256) % 256 = b
  BY DEF Bytes
<1> QED
  BY <1>2, <1>3 DEF PacketWord

LEMMA Values16Type ==
    Values16 \in Nat \ {0}
BY DEF Values16

LEMMA RecordFacts ==
    ASSUME NEW r \in Records
    PROVE  /\ r.length \in 0..121 /\ r.addr \in 0..(Values16 - 1) /\ r.type \in 0..255
           /\ r.columns \in Seq(Bytes) /\ Len(r.columns) = r.length + 1
           /\ WordCount(r) \in Nat
           /\ \A k \in 1..WordCount(r) : k \in Nat /\ k >= 1 /\ 2 * k <= r.length + 1
<1>1. /\ r.length \in 0..121 /\ r.addr \in 0..(Values16 - 1) /\ r.type \in 0..255
      /\ r.columns \in Seq(Bytes) /\ Len(r.columns) = r.length + 1
  BY RecordsAssumption, Zenon DEF Bytes
<1>2. \A n \in 0..121 : /\ (n + 1) \div 2 \in Nat
                        /\ \A k \in 1..((n + 1) \div 2) : k \in Nat /\ k >= 1 /\ 2 * k <= n + 1
  OBVIOUS
<1> QED
  BY <1>1, <1>2, Zenon DEF WordCount

\* The k-th word of a record: two columns, at the k-th word address.  Its second
\* column is the checksum if the record has an odd length and the word is its last.
LEMMA WordOfRecord ==
    ASSUME NEW r \in Records, NEW k \in 1..WordCount(r)
    PROVE  /\ 2 * k - 1 \in 1..r.length /\ 2 * k \in 1..(r.length + 1)
           /\ r.columns[2 * k - 1] \in Bytes /\ r.columns[2 * k] \in Bytes
           /\ RequestsOf(r)[k] =
                 [addr |-> (r.addr \div 2 + k - 1) % Values16,
                  word |-> [low |-> r.columns[2 * k - 1], high |-> r.columns[2 * k]]]
           /\ RequestsOf(r)[k] \in SentWords
<1>1. /\ r.length \in 0..121 /\ r.addr \in 0..(Values16 - 1) /\ r.columns \in Seq(Bytes)
      /\ Len(r.columns) = r.length + 1
  BY RecordFacts
<1>2. k \in Nat /\ k >= 1 /\ 2 * k <= r.length + 1
  BY RecordFacts, Zenon
<1>3. 2 * k - 1 \in 1..r.length /\ 2 * k \in 1..(r.length + 1)
      /\ 2 * k - 1 \in 1..Len(r.columns) /\ 2 * k \in 1..Len(r.columns)
      /\ (2 * k - 1) + 1 = 2 * k /\ 2 * k <= Len(r.columns)
  <2>1. \A n \in 0..121 : 2 * k <= n + 1 =>
            /\ 2 * k - 1 \in 1..n /\ 2 * k \in 1..(n + 1) /\ 2 * k - 1 \in 1..(n + 1)
            /\ (2 * k - 1) + 1 = 2 * k
    BY <1>2
  <2> QED
    BY <1>1, <1>2, <2>1
<1>4. r.columns[2 * k - 1] \in Bytes /\ r.columns[2 * k] \in Bytes
  BY <1>1, <1>3, ElementOfSeq
<1>5. ScannedWord(r.columns, 2 * k - 1) = 256 * r.columns[2 * k - 1] + r.columns[2 * k]
  BY <1>3 DEF ScannedWord
<1>6. RequestsOf(r)[k] =
         [addr |-> (r.addr \div 2 + k - 1) % Values16,
          word |-> PacketWord(Swapped(ScannedWord(r.columns, 2 * k - 1)))]
  BY DEF RequestsOf, RecordRequests, WordCount
<1>7. PacketWord(Swapped(ScannedWord(r.columns, 2 * k - 1))) =
         [low |-> r.columns[2 * k - 1], high |-> r.columns[2 * k]]
  BY <1>4, <1>5, ByteOrder
<1>8. (r.addr \div 2 + k - 1) % Values16 \in 0..(Values16 - 1)
  <2>1. r.addr \div 2 + k - 1 \in Nat
    BY <1>1, <1>2, Values16Type
  <2> QED
    BY <2>1, Values16Type
<1>9. RequestsOf(r)[k] \in SentWords
  BY <1>4, <1>6, <1>7, <1>8 DEF SentWords
<1> QED
  BY <1>3, <1>4, <1>6, <1>7, <1>9

LEMMA RequestsType ==
    ASSUME NEW r \in Records
    PROVE  /\ RequestsOf(r) \in Seq(SentWords)
           /\ DOMAIN RequestsOf(r) = 1..WordCount(r)
           /\ {RequestsOf(r)[k] : k \in DOMAIN RequestsOf(r)} = WordsOf(r)
<1>1. WordCount(r) \in Nat
  BY RecordFacts, Zenon
<1>2. DOMAIN RequestsOf(r) = 1..WordCount(r)
  BY DEF RequestsOf, RecordRequests, WordCount
<1>3. \A k \in 1..WordCount(r) : RequestsOf(r)[k] \in SentWords
  BY WordOfRecord
<1>4. RequestsOf(r) = [k \in 1..WordCount(r) |-> RequestsOf(r)[k]]
  BY DEF RequestsOf, RecordRequests, WordCount
<1>5. RequestsOf(r) \in Seq(SentWords)
  <2> DEFINE f == RequestsOf(r)
  <2>1. f \in [1..WordCount(r) -> SentWords]
    BY <1>3, <1>4
  <2> QED
    BY <1>1, <2>1, SeqDef
<1> QED
  BY <1>2, <1>5 DEF WordsOf

\* A line with a record adds it to those read, one without adds nothing.
LEMMA LineRead ==
    ASSUME file \in Seq(Lines), NEW l \in Lines, file' = Append(file, l)
    PROVE  /\ file' \in Seq(Lines) /\ file' # <<>>
           /\ l = <<>> => RecordsRead' = RecordsRead
           /\ l # <<>> => RecordsRead' = RecordsRead \cup {l[1]}
<1>1. /\ file' \in Seq(Lines) /\ Len(file') = Len(file) + 1
      /\ \A i \in 1..Len(file) : file'[i] = file[i]
      /\ file'[Len(file) + 1] = l /\ Len(file) \in Nat
  BY AppendProperties
<1>2. file' # <<>>
  BY <1>1
<1>3. DOMAIN file = 1..Len(file) /\ DOMAIN file' = 1..(Len(file) + 1)
  BY <1>1
<1>4. 1..(Len(file) + 1) = 1..Len(file) \cup {Len(file) + 1}
  BY <1>1
<1>5. l = <<>> => RecordsRead' = RecordsRead
  BY <1>1, <1>3, <1>4 DEF RecordsRead
<1>6. l # <<>> => RecordsRead' = RecordsRead \cup {l[1]}
  BY <1>1, <1>3, <1>4 DEF RecordsRead
<1> QED
  BY <1>1, <1>2, <1>5, <1>6

LEMMA ReadTypes ==
    ASSUME file \in Seq(Lines)
    PROVE  RecordsRead \subseteq Records /\ DataRecords \subseteq RecordsRead
<1>1. ASSUME NEW i \in DOMAIN file, file[i] # <<>> PROVE file[i][1] \in Records
  <2>1. file[i] \in Lines
    BY <1>1, ElementOfSeq
  <2> QED
    BY <1>1, <2>1 DEF Lines
<1> QED
  BY <1>1 DEF RecordsRead, DataRecords

\* The words sent after those of a record.
LEMMA SentMore ==
    ASSUME sent \in Seq(SentWords), NEW r \in Records, sent' = sent \o RequestsOf(r)
    PROVE  sent' \in Seq(SentWords) /\ SentSet' = SentSet \cup WordsOf(r)
<1> DEFINE q == RequestsOf(r)
<1>1. q \in Seq(SentWords) /\ {q[k] : k \in DOMAIN q} = WordsOf(r)
  BY RequestsType
<1> HIDE DEF q
<1>2. /\ sent \o q \in Seq(SentWords) /\ Len(sent \o q) = Len(sent) + Len(q)
      /\ \A i \in 1..Len(sent) : (sent \o q)[i] = sent[i]
      /\ \A i \in 1..Len(q) : (sent \o q)[Len(sent) + i] = q[i]
  BY <1>1, ConcatProperties
<1>3. /\ DOMAIN sent = 1..Len(sent) /\ DOMAIN q = 1..Len(q)
      /\ DOMAIN (sent \o q) = 1..(Len(sent) + Len(q))
      /\ Len(sent) \in Nat /\ Len(q) \in Nat
  BY <1>1, <1>2
<1>4. {(sent \o q)[i] : i \in 1..(Len(sent) + Len(q))} =
         {sent[i] : i \in 1..Len(sent)} \cup {q[i] : i \in 1..Len(q)}
  <2>1. ASSUME NEW i \in 1..(Len(sent) + Len(q))
        PROVE  i \in 1..Len(sent) \/ (i - Len(sent) \in 1..Len(q) /\ i = Len(sent) + (i - Len(sent)))
    BY <1>3
  <2>2. /\ \A i \in 1..Len(sent) : i \in 1..(Len(sent) + Len(q))
        /\ \A i \in 1..Len(q) : Len(sent) + i \in 1..(Len(sent) + Len(q))
    BY <1>3
  <2> QED
    BY <1>2, <2>1, <2>2
<1>5. sent' = sent \o q
  BY DEF q
<1>6. SentSet' = {sent'[i] : i \in 1..(Len(sent) + Len(q))}
  BY <1>3, <1>5 DEF SentSet
<1>7. SentSet = {sent[i] : i \in 1..Len(sent)}
  BY <1>3 DEF SentSet
<1>8. WordsOf(r) = {q[i] : i \in 1..Len(q)}
  BY <1>1, <1>3
<1>9. SentSet' = SentSet \cup WordsOf(r)
  BY <1>4, <1>5, <1>6, <1>7, <1>8
<1> QED
  BY <1>2, <1>5, <1>9
-----------------------------------------------------------------------------
\* The body of the loop, for the header of a record.
LEMMA BodyKeeps ==
    ASSUME sent \in Seq(SentWords), done \in BOOLEAN, NEW r \in Records,
           length' = r.length, addr_in' = r.addr, type_in' = r.type,
           columns' = r.columns, Processed
    PROVE  /\ sent' \in Seq(SentWords) /\ done' \in BOOLEAN
           /\ r.type = 0 => SentSet' = SentSet \cup WordsOf(r)
           /\ r.type # 0 => SentSet' = SentSet
<1>1. r.type = 0 => sent' = sent \o RequestsOf(r) /\ UNCHANGED done
  BY DEF Processed, RequestsOf
<1>2. r.type # 0 => UNCHANGED sent /\ (done' = TRUE \/ UNCHANGED done)
  BY DEF Processed
<1>3. CASE r.type = 0
  BY <1>1, <1>3, SentMore
<1>4. CASE r.type # 0
  BY <1>2, <1>4 DEF SentSet
<1> QED
  BY <1>3, <1>4

LEMMA HexInvInit ==
    Init => HexInv
<1> SUFFICES ASSUME Init PROVE HexInv
  OBVIOUS
<1>1. file = <<>> /\ sent = <<>> /\ columns = <<>>
  BY DEF Init
<1>2. DataRecords = {} /\ SentSet = {}
  BY <1>1 DEF DataRecords, RecordsRead, SentSet
<1>3. 0 \in 0..(Values16 - 1)
  BY Values16Type
<1>4. HeaderInv
  BY <1>1 DEF HeaderInv
<1>5. file \in Seq(Lines) /\ sent \in Seq(SentWords) /\ columns \in Seq(Bytes)
  BY <1>1
<1>6. UNION {WordsOf(r) : r \in DataRecords} = {}
  BY <1>2
<1>7. length \in 0..255 /\ addr_in \in 0..(Values16 - 1) /\ type_in \in 0..255
      /\ done \in BOOLEAN
  <2>1. length = 0 /\ addr_in = 0 /\ type_in = 0 /\ done = FALSE
    BY DEF Init
  <2>2. 0 \in 0..255
    OBVIOUS
  <2> QED
    BY <1>3, <2>1, <2>2
<1> QED
  BY <1>2, <1>4, <1>5, <1>6, <1>7 DEF HexInv

LEMMA ReadRecordKeeps ==
    ASSUME HexInv, NEW r \in Records, ReadRecord(r)
    PROVE  HexInv'
<1>1. file' = Append(file, <<r>>) /\ Processed
      /\ length' = r.length /\ addr_in' = r.addr /\ type_in' = r.type
      /\ columns' = r.columns
  BY DEF ReadRecord
<1>2. <<r>> \in Lines /\ <<r>> # <<>> /\ <<r>>[1] = r
  BY DEF Lines
<1>3. file' \in Seq(Lines) /\ RecordsRead' = RecordsRead \cup {r}
  BY <1>1, <1>2, LineRead DEF HexInv
<1>4. /\ sent' \in Seq(SentWords) /\ done' \in BOOLEAN
      /\ r.type = 0 => SentSet' = SentSet \cup WordsOf(r)
      /\ r.type # 0 => SentSet' = SentSet
  BY <1>1, BodyKeeps DEF HexInv
<1>5. SentSet' = UNION {WordsOf(q) : q \in DataRecords'}
  <2>1. CASE r.type = 0
    <3>1. DataRecords' = DataRecords \cup {r}
      BY <1>3, <2>1 DEF DataRecords
    <3> QED
      BY <1>4, <2>1, <3>1 DEF HexInv
  <2>2. CASE r.type # 0
    <3>1. DataRecords' = DataRecords
      BY <1>3, <2>2 DEF DataRecords
    <3> QED
      BY <1>4, <2>2, <3>1 DEF HexInv
  <2> QED
    BY <2>1, <2>2
<1>6. HeaderInv'
  BY <1>1, <1>3 DEF HeaderInv
<1>7. length' \in 0..255 /\ addr_in' \in 0..(Values16 - 1) /\ type_in' \in 0..255
      /\ columns' \in Seq(Bytes)
  <2>1. r.length \in 0..255
    BY RecordFacts
  <2>2. r.addr \in 0..(Values16 - 1) /\ r.type \in 0..255 /\ r.columns \in Seq(Bytes)
    BY RecordFacts
  <2> QED
    BY <1>1, <2>1, <2>2
<1> QED
  BY <1>3, <1>4, <1>5, <1>6, <1>7 DEF HexInv

\* A line without a record: the record before is processed again.
LEMMA ReadBlankKeeps ==
    ASSUME HexInv, ReadBlank
    PROVE  HexInv'
<1>1. file # <<>> /\ file' = Append(file, <<>>) /\ Processed
      /\ UNCHANGED <<length, addr_in, type_in, columns>>
  BY DEF ReadBlank
<1>2. PICK r \in RecordsRead : /\ length = r.length /\ addr_in = r.addr
                               /\ type_in = r.type /\ columns = r.columns
  BY <1>1 DEF HexInv, HeaderInv
<1>3. r \in Records
  BY ReadTypes DEF HexInv
<1>4. file' \in Seq(Lines) /\ RecordsRead' = RecordsRead
  BY <1>1, LineRead DEF HexInv, Lines
<1>5. DataRecords' = DataRecords
  BY <1>4 DEF DataRecords
<1>6. /\ sent' \in Seq(SentWords) /\ done' \in BOOLEAN
      /\ r.type = 0 => SentSet' = SentSet \cup WordsOf(r)
      /\ r.type # 0 => SentSet' = SentSet
  BY <1>1, <1>2, <1>3, BodyKeeps DEF HexInv
<1>7. SentSet' = UNION {WordsOf(q) : q \in DataRecords'}
  <2>1. CASE r.type = 0
    <3>1. r \in DataRecords
      BY <2>1 DEF DataRecords
    <3>2. WordsOf(r) \subseteq SentSet
      BY <3>1 DEF HexInv
    <3> QED
      BY <1>5, <1>6, <2>1, <3>2 DEF HexInv
  <2>2. CASE r.type # 0
    BY <1>5, <1>6, <2>2 DEF HexInv
  <2> QED
    BY <2>1, <2>2
<1>8. HeaderInv'
  BY <1>1, <1>2, <1>4 DEF HeaderInv
<1> QED
  BY <1>1, <1>4, <1>6, <1>7, <1>8 DEF HexInv

\* The inductive invariant: the words sent are those of the data records read.
THEOREM HexInvariant == Spec => []HexInv
<1>1. HexInv /\ [Next]_vars => HexInv'
  <2> SUFFICES ASSUME HexInv, [Next]_vars PROVE HexInv'
    OBVIOUS
  <2>1. CASE UNCHANGED vars \/ EndOfFile
    <3>1. UNCHANGED <<file, length, addr_in, type_in, columns, sent>>
          /\ done' \in BOOLEAN
      BY <2>1 DEF vars, EndOfFile, HexInv
    <3>2. UNCHANGED <<RecordsRead, DataRecords, SentSet>>
      BY <3>1 DEF DataRecords, RecordsRead, SentSet
    <3>3. HeaderInv'
      BY <3>1, <3>2 DEF HexInv, HeaderInv
    <3> QED
      BY <3>1, <3>2, <3>3 DEF HexInv
  <2> QED
    BY <2>1, ReadRecordKeeps, ReadBlankKeeps DEF Next
<1> QED
  BY <1>1, HexInvInit, PTL DEF Spec

\* The variables of the loop hold what the format strings allow, and every packet
\* two bytes of data at an address of sixteen bits (flash_write.c:55-60).
THEOREM HexTypeCorrect == Spec => []HexTypeOK
<1>1. HexInv => HexTypeOK
  <2> SUFFICES ASSUME HexInv PROVE HexTypeOK
    OBVIOUS
  <2>1. \A i \in DOMAIN sent : sent[i] \in SentWords
    BY ElementOfSeq DEF HexInv
  <2>2. \A i \in DOMAIN sent : /\ sent[i].addr \in 0..(Values16 - 1)
                               /\ sent[i].word \in [low : 0..255, high : 0..255]
    BY <2>1 DEF SentWords, Bytes
  <2> QED
    BY <2>2 DEF HexInv, HexTypeOK, Bytes
<1> QED
  BY <1>1, HexInvariant, PTL
-----------------------------------------------------------------------------
\* Where the words of a record at an even address go.
LEMMA PlaceOfWord ==
    ASSUME NEW r \in Records, r.addr % 2 = 0, r.addr + r.length <= Values16,
           NEW k \in 1..WordCount(r)
    PROVE  /\ RequestsOf(r)[k].addr \in Nat
           /\ 2 * RequestsOf(r)[k].addr = r.addr + 2 * k - 2
           /\ RequestsOf(r)[k].word.low = r.columns[2 * k - 1]
           /\ RequestsOf(r)[k].word.high = r.columns[2 * k]
           /\ k \in Nat /\ k >= 1 /\ 2 * k <= r.length + 1
           /\ r.addr \in Nat /\ r.length \in Nat
<1>1. r.addr \in 0..(Values16 - 1) /\ r.length \in 0..121 /\ k \in Nat /\ k >= 1
      /\ 2 * k <= r.length + 1
  BY RecordFacts
<1>2. r.addr \in Nat /\ r.length \in Nat
  BY <1>1, Values16Type
<1>3. PICK h \in Nat : r.addr = 2 * h
  BY <1>2
<1>4. r.addr \div 2 = h
  BY <1>3
<1>5. h + k - 1 \in Nat /\ h + k - 1 < Values16
  BY <1>1, <1>2, <1>3, Values16Type
<1>6. \A x \in Nat : x < Values16 => x % Values16 = x
  BY DEF Values16
<1>7. RequestsOf(r)[k] =
         [addr |-> (r.addr \div 2 + k - 1) % Values16,
          word |-> [low |-> r.columns[2 * k - 1], high |-> r.columns[2 * k]]]
  BY WordOfRecord
<1>8. RequestsOf(r)[k].addr = h + k - 1
  BY <1>4, <1>5, <1>6, <1>7
<1>9. RequestsOf(r)[k].word.low = r.columns[2 * k - 1]
      /\ RequestsOf(r)[k].word.high = r.columns[2 * k]
  BY <1>7
<1>10. 2 * (h + k - 1) = r.addr + 2 * k - 2
  BY <1>1, <1>3
<1> QED
  BY <1>1, <1>2, <1>5, <1>8, <1>9, <1>10

\* In a well-formed file every data record is where its sixteen bits say.
LEMMA LowRecords ==
    ASSUME HexInv, WellFormed
    PROVE  /\ \A p \in Placed : /\ p.base = 0 /\ p.record \in DataRecords
                                /\ ByteAddresses(p) = Span(p.record)
           /\ \A r \in DataRecords :
                 /\ [base |-> 0, record |-> r] \in Placed
                 /\ r \in Records /\ r.addr % 2 = 0 /\ r.addr + r.length <= Values16
           /\ Specified = UNION {Span(r) : r \in DataRecords}
<1>1. DataRecords = {file[i][1] : i \in DataLines} /\ DataRecords \subseteq Records
  <2>1. DataRecords \subseteq Records
    BY ReadTypes DEF HexInv
  <2>2. ASSUME NEW r \in DataRecords PROVE \E i \in DataLines : r = file[i][1]
    BY <2>2 DEF DataRecords, RecordsRead, DataLines
  <2>3. ASSUME NEW i \in DataLines PROVE file[i][1] \in DataRecords
    BY <2>3 DEF DataRecords, RecordsRead, DataLines
  <2> QED
    BY <2>1, <2>2, <2>3
<1>2. \A i \in DataLines : Base(i) = 0
  <2> TAKE i \in DataLines
  <2> DEFINE p == [base |-> Base(i), record |-> file[i][1]]
  <2>1. p \in Placed /\ p.base = Base(i)
    BY DEF Placed
  <2> HIDE DEF p
  <2> QED
    BY <2>1 DEF WellFormed
<1>3. Placed = {[base |-> 0, record |-> r] : r \in DataRecords}
  BY <1>1, <1>2 DEF Placed
<1>4. ASSUME NEW r \in DataRecords
      PROVE  ByteAddresses([base |-> 0, record |-> r]) = Span(r)
  <2>1. r.addr \in 0..(Values16 - 1)
    BY <1>1, RecordFacts
  <2>2. 0 + r.addr = r.addr
    BY <2>1, Values16Type
  <2> QED
    BY <2>2 DEF ByteAddresses, Span
<1>5. \A r \in DataRecords : r.addr % 2 = 0 /\ r.addr + r.length <= Values16
  <2> TAKE r \in DataRecords
  <2> DEFINE p == [base |-> 0, record |-> r]
  <2>1. p \in Placed /\ p.record = r
    BY <1>3
  <2> HIDE DEF p
  <2>2. p.record.addr % 2 = 0 /\ p.record.addr + p.record.length <= Values16
    BY <2>1 DEF WellFormed
  <2> QED
    BY <2>1, <2>2
<1>6. \A p \in Placed : /\ p.base = 0 /\ p.record \in DataRecords
                       /\ ByteAddresses(p) = Span(p.record)
  <2> TAKE p \in Placed
  <2>1. PICK r \in DataRecords : p = [base |-> 0, record |-> r]
    BY <1>3
  <2>2. p.base = 0 /\ p.record = r
    BY <2>1
  <2> QED
    BY <1>4, <2>1, <2>2
<1>7. \A r \in DataRecords : [base |-> 0, record |-> r] \in Placed
  BY <1>3
<1>8. Specified = UNION {Span(r) : r \in DataRecords}
  <2>1. {ByteAddresses(p) : p \in Placed} = {Span(r) : r \in DataRecords}
    <3>1. ASSUME NEW p \in Placed
          PROVE  \E r \in DataRecords : ByteAddresses(p) = Span(r)
      BY <1>6
    <3>2. ASSUME NEW r \in DataRecords
          PROVE  \E p \in Placed : ByteAddresses(p) = Span(r)
      BY <1>4, <1>7
    <3> QED
      BY <3>1, <3>2
  <2> QED
    BY <2>1 DEF Specified
<1> QED
  BY <1>1, <1>5, <1>6, <1>7, <1>8

\* In a file that gives no byte twice, a byte belongs to one record.
LEMMA OneRecord ==
    ASSUME HexInv, WellFormed, NEW r \in DataRecords, NEW b \in Span(r)
    PROVE  /\ \A q \in DataRecords : b \in Span(q) => q = r
           /\ ByteAt(b) = r.columns[b - r.addr + 1]
<1>1. ASSUME NEW q \in DataRecords, b \in Span(q) PROVE q = r
  <2> DEFINE x == [base |-> 0, record |-> q]
             y == [base |-> 0, record |-> r]
  <2>1. x \in Placed /\ y \in Placed /\ b \in ByteAddresses(x) /\ b \in ByteAddresses(y)
    BY <1>1, LowRecords
  <2>2. x = y
    BY <2>1 DEF WellFormed
  <2> QED
    BY <2>2
<1> DEFINE p == CHOOSE q \in Placed : b \in ByteAddresses(q)
<1>2. [base |-> 0, record |-> r] \in Placed
      /\ b \in ByteAddresses([base |-> 0, record |-> r])
  BY LowRecords
<1>3. p \in Placed /\ b \in ByteAddresses(p)
  BY <1>2
<1>4. ByteAt(b) = p.record.columns[b - p.base - p.record.addr + 1]
  BY DEF ByteAt
<1> HIDE DEF p
<1>5. p.base = 0 /\ p.record = r
  BY <1>1, <1>3, LowRecords
<1>6. r.addr \in Nat /\ b \in Int
  <2>1. r \in Records
    BY LowRecords
  <2>2. r.addr \in 0..(Values16 - 1) /\ r.length \in 0..121
    BY <2>1, RecordFacts
  <2> QED
    BY <2>2, Values16Type DEF Span
<1>7. b - 0 - r.addr + 1 = b - r.addr + 1
  BY <1>6
<1> QED
  BY <1>1, <1>4, <1>5, <1>7

\* A word that has been sent is one of a data record.
LEMMA SentOfRecord ==
    ASSUME HexInv, WellFormed, NEW i \in DOMAIN sent
    PROVE  \E r \in DataRecords, k \in Nat \ {0} :
              /\ r.addr \in Nat /\ r.length \in Nat /\ r.addr % 2 = 0
              /\ sent[i].addr \in Nat
              /\ 2 * sent[i].addr = r.addr + 2 * k - 2
              /\ 2 * k <= r.length + 1
              /\ sent[i].word.low = r.columns[2 * k - 1]
              /\ sent[i].word.high = r.columns[2 * k]
              /\ 2 * sent[i].addr \in Span(r)
<1>1. sent[i] \in SentSet
  BY DEF SentSet
<1>2. PICK r \in DataRecords : sent[i] \in WordsOf(r)
  BY <1>1 DEF HexInv
<1>3. PICK k \in 1..WordCount(r) : sent[i] = RequestsOf(r)[k]
  BY <1>2 DEF WordsOf
<1>4. r \in Records /\ r.addr % 2 = 0 /\ r.addr + r.length <= Values16
  BY LowRecords
<1>5. /\ sent[i].addr \in Nat /\ 2 * sent[i].addr = r.addr + 2 * k - 2
      /\ sent[i].word.low = r.columns[2 * k - 1]
      /\ sent[i].word.high = r.columns[2 * k]
      /\ k \in Nat /\ k >= 1 /\ 2 * k <= r.length + 1
      /\ r.addr \in Nat /\ r.length \in Nat
  BY <1>3, <1>4, PlaceOfWord
<1>6. 2 * sent[i].addr \in Span(r) /\ k \in Nat \ {0}
  BY <1>5 DEF Span
<1> QED
  BY <1>4, <1>5, <1>6

\* Every byte of a well-formed file of any length reaches its half of its word, and is never
\* overwritten there, whatever blank lines repeat the record before them and
\* whatever records stand between (flash_write.c:34-76).
THEOREM BytesSent == Spec => []EveryByteSent
<1>1. HexInv => EveryByteSent
  <2> SUFFICES ASSUME HexInv, WellFormed, NEW b \in Specified
               PROVE  /\ Programmings(b \div 2) # {}
                      /\ \A i \in Programmings(b \div 2) :
                            ByteAt(b) = IF b % 2 = 0 THEN sent[i].word.low
                                        ELSE sent[i].word.high
    BY DEF EveryByteSent
  <2>1. PICK r \in DataRecords : b \in Span(r)
    BY LowRecords
  <2>2. r \in Records /\ r.addr % 2 = 0 /\ r.addr + r.length <= Values16
    BY LowRecords
  <2>3. r.addr \in Nat /\ r.length \in Nat
    <3>1. r.addr \in 0..(Values16 - 1) /\ r.length \in 0..121
      BY <2>2, RecordFacts
    <3> QED
      BY <3>1, Values16Type
  <2>4. b \in Nat /\ r.addr <= b /\ b < r.addr + r.length
    BY <2>1, <2>3 DEF Span
  <2>5. Programmings(b \div 2) # {}
    <3> DEFINE k == b \div 2 - r.addr \div 2 + 1
    <3>1. k \in 1..((r.length + 1) \div 2) /\ 2 * (b \div 2) = r.addr + 2 * k - 2
      <4>1. PICK h \in Nat : r.addr = 2 * h
        BY <2>2, <2>3
      <4>2. r.addr \div 2 = h
        BY <4>1
      <4>3. b \div 2 \in Nat /\ 2 * (b \div 2) <= b /\ b <= 2 * (b \div 2) + 1
        BY <2>4
      <4>4. k = b \div 2 - h + 1
        BY <4>2
      <4> HIDE DEF k
      <4>5. k \in Nat /\ k >= 1 /\ 2 * k <= r.length + 1
        BY <2>3, <2>4, <4>1, <4>3, <4>4
      <4>6. 2 * (b \div 2) = r.addr + 2 * k - 2
        BY <4>1, <4>3, <4>4
      <4> QED
        BY <2>3, <4>5, <4>6
    <3>2. k \in 1..WordCount(r)
      BY <3>1 DEF WordCount
    <3> HIDE DEF k
    <3>3. RequestsOf(r)[k].addr \in Nat /\ 2 * RequestsOf(r)[k].addr = r.addr + 2 * k - 2
      BY <2>2, <3>2, PlaceOfWord
    <3>4. RequestsOf(r)[k].addr = b \div 2
      BY <2>4, <3>1, <3>3
    <3>5. RequestsOf(r)[k] \in SentSet
      BY <3>2 DEF HexInv, WordsOf
    <3>6. PICK i \in DOMAIN sent : sent[i] = RequestsOf(r)[k]
      BY <3>5 DEF SentSet
    <3> QED
      BY <3>4, <3>6 DEF Programmings
  <2>6. ASSUME NEW i \in Programmings(b \div 2)
        PROVE  ByteAt(b) = IF b % 2 = 0 THEN sent[i].word.low ELSE sent[i].word.high
    <3>1. i \in DOMAIN sent /\ sent[i].addr = b \div 2
      BY <2>6 DEF Programmings
    <3>2. PICK q \in DataRecords, k \in Nat \ {0} :
              /\ 2 * sent[i].addr = q.addr + 2 * k - 2
              /\ sent[i].word.low = q.columns[2 * k - 1]
              /\ sent[i].word.high = q.columns[2 * k]
              /\ 2 * sent[i].addr \in Span(q)
      BY <3>1, SentOfRecord
    <3>3. 2 * (b \div 2) \in Span(r)
      BY <2>2, <2>3, <2>4 DEF Span
    <3>4. q = r
      BY <2>1, <3>1, <3>2, <3>3, OneRecord
    <3>5. ByteAt(b) = r.columns[b - r.addr + 1]
      BY <2>1, OneRecord
    <3>6. 2 * (b \div 2) = r.addr + 2 * k - 2
      BY <3>1, <3>2, <3>4
    <3>7. b - r.addr + 1 = IF b % 2 = 0 THEN 2 * k - 1 ELSE 2 * k
      BY <2>3, <2>4, <3>6
    <3> QED
      BY <3>2, <3>4, <3>5, <3>7
  <2> QED
    BY <2>5, <2>6
<1> QED
  BY <1>1, HexInvariant, PTL

\* Of a well-formed file nothing but its bytes is sent, save for the checksum that sscanf
\* takes for the high byte after a record of odd length (flash_write.c:53).
THEOREM TailsOnly == Spec => []OnlyTailsAdded
<1>1. HexInv => OnlyTailsAdded
  <2> SUFFICES ASSUME HexInv, WellFormed, NEW i \in DOMAIN sent
               PROVE  /\ 2 * sent[i].addr \in Specified
                      /\ \/ 2 * sent[i].addr + 1 \in Specified
                         \/ \E r \in DataRecords :
                               /\ r.length % 2 = 1
                               /\ sent[i].addr = (r.addr + r.length) \div 2
                               /\ sent[i].word.high = r.columns[r.length + 1]
    <3>1. ASSUME HexInv, WellFormed,
                 NEW r \in DataRecords, NEW i \in DOMAIN sent, r.length % 2 = 1,
                 sent[i].addr = (r.addr + r.length) \div 2,
                 sent[i].word.high = r.columns[r.length + 1]
          PROVE  \E p \in Placed :
                    LET q == p.record
                    IN /\ q.length % 2 = 1
                       /\ sent[i].addr = (p.base + q.addr + q.length) \div 2
                       /\ sent[i].word.high = q.columns[q.length + 1]
      <4> DEFINE p == [base |-> 0, record |-> r]
      <4>1. p \in Placed /\ r \in Records
        BY <3>1, LowRecords
      <4>2. r.addr \in 0..(Values16 - 1)
        BY <4>1, RecordFacts
      <4>3. 0 + r.addr = r.addr
        BY <4>2, Values16Type
      <4> QED
        BY <3>1, <4>1, <4>3
    <3> QED
      BY <3>1 DEF OnlyTailsAdded
  <2>1. PICK r \in DataRecords, k \in Nat \ {0} :
              /\ r.addr \in Nat /\ r.length \in Nat /\ r.addr % 2 = 0
              /\ sent[i].addr \in Nat
              /\ 2 * sent[i].addr = r.addr + 2 * k - 2
              /\ 2 * k <= r.length + 1
              /\ sent[i].word.high = r.columns[2 * k]
              /\ 2 * sent[i].addr \in Span(r)
    BY SentOfRecord
  <2>2. 2 * sent[i].addr \in Specified
    BY <2>1, LowRecords
  <2>3. CASE 2 * k <= r.length
    <3>1. 2 * sent[i].addr + 1 \in Span(r)
      BY <2>1, <2>3 DEF Span
    <3> QED
      BY <2>1, <2>2, <3>1, LowRecords
  <2>4. CASE 2 * k = r.length + 1
    <3>1. r.length % 2 = 1 /\ sent[i].addr = (r.addr + r.length) \div 2
      <4>1. \A a, n, w, j \in Nat : (2 * w = a + 2 * j - 2 /\ 2 * j = n + 1) =>
                                        a + n = 2 * w + 1 /\ n = 2 * j - 1
        OBVIOUS
      <4>2. \A n \in Nat : (2 * n + 1) \div 2 = n /\ \A m \in Nat \ {0} : (2 * m - 1) % 2 = 1
        OBVIOUS
      <4>3. k \in Nat
        OBVIOUS
      <4>4. r.addr + r.length = 2 * sent[i].addr + 1 /\ r.length = 2 * k - 1
        BY <2>1, <2>4, <4>1, <4>3
      <4> QED
        BY <2>1, <4>2, <4>4
    <3> QED
      BY <2>1, <2>2, <2>4, <3>1
  <2> QED
    BY <2>1, <2>3, <2>4
<1> QED
  BY <1>1, HexInvariant, PTL
=============================================================================
