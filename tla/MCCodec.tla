------------------------------- MODULE MCCodec -------------------------------
(***************************************************************************)
(* Strings for RecordCodec on both sides of the limits of its length       *)
(* fields, and one whose bytes are themselves those of a record.           *)
(***************************************************************************)
EXTENDS RecordCodec

Counting(n) == [i \in 1..n |-> i % Base]
MCTexts ==
    {Counting(n) : n \in {0, 1, 4, 5, 10, 16}} \cup {Encode(StateRecord("COMMIT", 1))}
=============================================================================
