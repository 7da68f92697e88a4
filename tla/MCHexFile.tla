----------------------------- MODULE MCHexFile -----------------------------
(***************************************************************************)
(* Files of a few lines over records of every length up to four bytes.      *)
(***************************************************************************)
EXTENDS HexFile

\* Distinct bytes, so that a misplaced one shows; the checksum is a byte of
\* its own.
Columns(addr, n) == [k \in 1..(n + 1) |-> IF k <= n THEN 16 + (addr % 99) + k
                                           ELSE 200 + (addr % 50)]

MCRecords ==
    {[length |-> n, addr |-> a, type |-> 0, columns |-> Columns(a, n)] :
        n \in 0..4, a \in {0, 4, 6, 65532}}
    \cup {[length |-> 0, addr |-> 0, type |-> 1, columns |-> <<255>>],
          [length |-> 2, addr |-> 0, type |-> 4, columns |-> <<1, 0, 249>>],
          [length |-> 2, addr |-> 0, type |-> 4, columns |-> <<0, 0, 250>>]}
=============================================================================
