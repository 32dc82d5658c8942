-------------------------- MODULE SequenceElements --------------------------
(***************************************************************************)
(* The elements of a sequence.                                             *)
(***************************************************************************)
EXTENDS Integers, Sequences

\* The elements of sequence s.
Elements(s) == {s[i] : i \in 1 .. Len(s)}

\* No element is in sequence s twice.
Distinct(s) == \A i, j \in 1 .. Len(s) : s[i] = s[j] => i = j
=============================================================================
