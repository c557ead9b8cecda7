------------------------------- MODULE Orders -------------------------------
(***************************************************************************)
(* The elements of a finite set one after the other, by an order that      *)
(* tells any two of them apart.  SetToSortSeq of SequencesExt gives the    *)
(* same sequence, through an operator of TLC that the proof system does    *)
(* not define.                                                             *)
(***************************************************************************)
EXTENDS Integers, FiniteSets

\* x stands where as many elements precede it as come before it in the order.
InOrder(S, precedes(_, _)) ==
    [i \in 1..Cardinality(S) |->
       CHOOSE x \in S : Cardinality({y \in S : precedes(y, x)}) = i - 1]
=============================================================================
