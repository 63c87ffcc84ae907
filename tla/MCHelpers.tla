------------------------------ MODULE MCHelpers ------------------------------
(***************************************************************************)
(* The three calculating modules for TLC.  They share no state, so that a  *)
(* behaviour moves only its subject and leaves the others at one state.    *)
(***************************************************************************)
EXTENDS RPTStream, FixedPoint64, PackedState

VARIABLE subject

(* A string shorter than a word, an integer, and a string.                 *)
MCMembers == <<[kind |-> "bytes", length |-> 1],
               [kind |-> "uint",  length |-> 2],
               [kind |-> "bytes", length |-> 2]>>

HelpersInit ==
  /\ subject \in {"stream", "numbers", "packed"}
  /\ Init /\ NumbersInit /\ PackedInit
  /\ subject # "stream" => totalStaked = 1 /\ staked = 0 /\ startFrac = 0

StreamStep  == subject = "stream" /\ Next /\ UNCHANGED <<numbers, packedVars>>
NumbersStep == subject = "numbers" /\ NumbersNext /\ UNCHANGED <<vars, packedVars>>
PackedStep  == subject = "packed" /\ PackedNext /\ UNCHANGED <<vars, numbers>>

HelpersNext == (StreamStep \/ NumbersStep \/ PackedStep) /\ UNCHANGED subject

HelpersSpec == HelpersInit /\ [][HelpersNext]_<<subject, vars, numbers, packedVars>>
=============================================================================
