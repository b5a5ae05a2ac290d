------------------------------- MODULE MCWal -------------------------------
(***************************************************************************)
(* Small instances of Wal: a few records of two sizes, segments that hold  *)
(* two small records or one large one.                                     *)
(***************************************************************************)
EXTENDS Wal, TLC

CONSTANTS
  Large,   \* the records of size 2; the others have size 1
  Second   \* the writer that is limited in the run with liveness

MCSize == [r \in Records |-> IF r \in Large THEN 2 ELSE 1]
Symmetry == Permutations(Writers)

\* Either the process crashes, or Second writes a record of its own beside the other
\* writer: both in one behaviour, with all kinds of faults, is what wal_faults explores.
OneOfTheTwo ==
  rec'[Second] # None =>
    /\ up' /\ restarts' = 0
    /\ rec[Second] \in {None, rec'[Second]}

LiveSpec == Init /\ [][Next /\ OneOfTheTwo]_vars /\ Fairness
=============================================================================
