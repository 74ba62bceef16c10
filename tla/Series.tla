------------------------------- MODULE Series -------------------------------
(***************************************************************************)
(* Sequences of readings, some of which are missing: what the histories of *)
(* the dashboard and the samples of the stress test are made of.           *)
(***************************************************************************)
EXTENDS Integers, Sequences, SequencesExt

CONSTANT None   \* Python's None: a reading that is missing

\* Where a series has a reading; the first of them, the last, and the greatest.
Known(readings) == {i \in DOMAIN readings : readings[i] # None}

FirstOf(readings) ==
  LET known == Known(readings) IN IF known = {} THEN None ELSE readings[Min(known)]
LastOf(readings) ==
  LET known == Known(readings) IN IF known = {} THEN None ELSE readings[Max(known)]
PeakOf(readings) ==
  LET known == ToSet(readings) \ {None} IN IF known = {} THEN None ELSE Max(known)

\* The last n of a sequence, or all of it.
Newest(n, s) == SubSeq(s, (IF Len(s) > n THEN Len(s) - n ELSE 0) + 1, Len(s))
=============================================================================
