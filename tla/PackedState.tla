----------------------------- MODULE PackedState -----------------------------
(***************************************************************************)
(* Packed application state, src/helpers/state.py: the members of a Schema *)
(* live in scratch slots while a transaction runs, and are stored together *)
(* as one byte string.  Scratch slots start at the integer 0 in every      *)
(* transaction; a panic undoes what the transaction has stored.            *)
(***************************************************************************)
EXTENDS ByteWords, Sequences, SequencesExt

CONSTANTS Members,     \* in the order of their definition; a member is
                       \* [kind |-> "uint" or "bytes", length |-> ...]
          UintValues,  \* what a program puts into members
          Bytes,       \* the bytes of byte strings
          Absent       \* no storage yet

ASSUME PackedAssumption ==
  /\ Members \in Seq([kind : {"uint", "bytes"}, length : Nat])
  /\ UintValues \subseteq 0 .. WordValues - 1
  /\ \A i \in DOMAIN Members : Members[i].kind = "uint" => Members[i].length = WordBytes

Ids == DOMAIN Members

(* A slot holds an integer or a byte string.                               *)
Uint(n) == <<"uint", n>>
Str(b) == <<"bytes", b>>

Inputs(i) ==
  IF Members[i].kind = "uint" THEN {Uint(n) : n \in UintValues}
  ELSE {Str(b) : b \in UNION {[1 .. n -> Bytes] : n \in {Members[i].length, Members[i].length + 1}}}

VARIABLES cache,    \* the scratch slots
          storage,  \* the byte string in the application's state
          loaded,   \* the transaction has loaded the schema before all else
          touched,  \* the members it has put
          stored,   \* the members' values when they were last stored
          saved     \* storage and stored before the transaction

packedVars == <<cache, storage, loaded, touched, stored, saved>>

Scratch == [i \in Ids |-> Uint(0)]

PackedInit ==
  /\ cache = Scratch /\ loaded = FALSE /\ touched = {}
  /\ storage = Absent /\ stored = Scratch
  /\ saved = [storage |-> Absent, stored |-> Scratch]

-----------------------------------------------------------------------------
Itob(n) == [k \in 1 .. WordBytes |-> (n \div Power[WordBytes - k]) % ByteValues]
Btoi(b) == SumFunction([k \in DOMAIN b |-> b[k] * Power[Len(b) - k]])

SerializableUnchecked(i) == cache[i] # Uint(0) \/ Members[i].kind = "uint"   \* mutant

(* serialize: of a byte string only at its length; a slot never put is an  *)
(* integer, which Len refuses.                                             *)
Serializable(i) ==
  Members[i].kind = "bytes" => cache[i][1] = "bytes" /\ Len(cache[i][2]) = Members[i].length

Serialize(i) == IF Members[i].kind = "uint" THEN Itob(cache[i][2]) ELSE cache[i][2]

OffsetByWords(i) == (i - 1) * WordBytes                       \* mutant

(* The lengths of the members before it, in load and in the described      *)
(* schema alike.                                                           *)
Offset(i) == SumFunctionOnSet([m \in Ids |-> Members[m].length], 1 .. i - 1)

(* deserialize; Extract beyond the end panics.                             *)
Extractable(i) == storage # Absent /\ Offset(i) + Members[i].length <= Len(storage)

Deserialize(i) ==
  LET part == SubSeq(storage, Offset(i) + 1, Offset(i) + Members[i].length)
  IN IF Members[i].kind = "uint" THEN Uint(Btoi(part)) ELSE Str(part)

-----------------------------------------------------------------------------
Put(i, value) ==
  /\ cache' = [cache EXCEPT ![i] = value]
  /\ touched' = touched \union {i}
  /\ UNCHANGED <<storage, loaded, stored, saved>>

LoadForgettingLast ==                                              \* mutant
  /\ \A i \in Ids : Extractable(i)
  /\ cache' = [i \in Ids |-> IF i = Len(Members) THEN cache[i] ELSE Deserialize(i)]
  /\ loaded' = (loaded \/ touched = {})
  /\ touched' = {}
  /\ UNCHANGED <<storage, stored, saved>>

Load ==
  /\ \A i \in Ids : Extractable(i)
  /\ cache' = [i \in Ids |-> Deserialize(i)]
  /\ loaded' = TRUE /\ touched' = {}
  /\ UNCHANGED <<storage, stored, saved>>

Store ==
  /\ \A i \in Ids : Serializable(i)
  /\ storage' = FlattenSeq([i \in Ids |-> Serialize(i)])
  /\ stored' = cache
  /\ UNCHANGED <<cache, loaded, touched, saved>>

(* The end of a transaction, and the start of the next.                    *)
Succeed ==
  /\ saved' = [storage |-> storage, stored |-> stored]
  /\ cache' = Scratch /\ loaded' = FALSE /\ touched' = {}
  /\ UNCHANGED <<storage, stored>>

(* When an operation's guard does not hold, or for any other reason.       *)
Panic ==
  /\ storage' = saved.storage /\ stored' = saved.stored
  /\ cache' = Scratch /\ loaded' = FALSE /\ touched' = {}
  /\ UNCHANGED saved

PackedNext ==
  \/ Load \/ Store \/ Succeed \/ Panic
  \/ \E i \in Ids : \E value \in Inputs(i) : Put(i, value)

PackedSpec == PackedInit /\ [][PackedNext]_packedVars

-----------------------------------------------------------------------------
(* Every member is found in the storage at the offset and length that the  *)
(* schema describes, with the value it was last stored with, whatever the  *)
(* program put into the others.                                            *)
StoredIsFound ==
  storage # Absent => \A i \in Ids : Extractable(i) /\ Deserialize(i) = stored[i]

(* A transaction that has loaded the schema and stores it again changes    *)
(* the members it has put and no others.                                   *)
StoreKeepsTheRest ==
  [][Store /\ loaded => \A i \in Ids \ touched : stored'[i] = stored[i]]_packedVars
=============================================================================
