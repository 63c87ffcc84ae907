------------------------------ MODULE ByteWords ------------------------------
(***************************************************************************)
(* The AVM's bytes and the words that Itob and Btoi convert.               *)
(***************************************************************************)
EXTENDS Integers

CONSTANTS ByteValues,  \* 256 on chain
          WordBytes    \* 8

ASSUME ByteWordsAssumption ==
  ByteValues \in Nat \ {0, 1} /\ WordBytes \in Nat \ {0}

(* The number of strings of n bytes, and of words.                         *)
Power[n \in Nat] == IF n = 0 THEN 1 ELSE ByteValues * Power[n - 1]

WordValues == Power[WordBytes]
=============================================================================
