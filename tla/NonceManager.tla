--------------------------- MODULE NonceManager ---------------------------
(***************************************************************************)
(* contracts/core/NonceManager.sol, as operators on seqOf, one account's   *)
(* part of the mapping nonceSequenceNumber.  A nonce is a 192-bit key      *)
(* followed by a 64-bit sequence number, while the mapping stores sequence *)
(* numbers as uint256, which incrementNonce can take past 64 bits.         *)
(***************************************************************************)
EXTENDS Integers

CONSTANT SeqModulus  \* 2^64

ASSUME SeqModulusAssumption == SeqModulus \in Nat \ {0}

NonceKey(nonce) == nonce \div SeqModulus

NonceSeq(nonce) == nonce % SeqModulus

(* nonceSequenceNumber[sender][key]++, in incrementNonce and in validation. *)
Incremented(seqOf, key) == [seqOf EXCEPT ![key] = @ + 1]

(* Mutant: a nonce below the sequence number is taken too. *)
NonceNotAhead(seqOf, nonce) == seqOf[NonceKey(nonce)] >= NonceSeq(nonce)

Or[x \in Nat, y \in Nat] ==
  IF x = 0 /\ y = 0 THEN 0
  ELSE 2 * Or[x \div 2, y \div 2] + (IF x % 2 = 1 \/ y % 2 = 1 THEN 1 ELSE 0)

(* The sequence number is joined to the key by |, whatever its width. *)
getNonce(seqOf, key) ==
  IF seqOf[key] < SeqModulus THEN key * SeqModulus + seqOf[key]
  ELSE Or[key, seqOf[key] \div SeqModulus] * SeqModulus + (seqOf[key] % SeqModulus)

(* What _validateAndUpdateNonce returns; it increments in either case. *)
NonceMatches(seqOf, nonce) == seqOf[NonceKey(nonce)] = NonceSeq(nonce)
===========================================================================
