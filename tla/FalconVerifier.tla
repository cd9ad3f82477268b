--------------------------- MODULE FalconVerifier ---------------------------
(***************************************************************************)
(* contracts/samples: the verification of a Falcon signature, from         *)
(* FalconSimpleAccount's _validateSignature through ZKNOX_falcon.verify,   *)
(* hashToPoint and the generator of random bytes to the arithmetic of NTT, *)
(* and the storage of the ZKNOX_NTT contract that all of it depends on.    *)
(*                                                                         *)
(* A verification runs within one transaction, so nothing else happens     *)
(* between its steps.  The words hashToPoint reads are the hash function's *)
(* choice: any value.                                                      *)
(***************************************************************************)
EXTENDS NTT, Sequences

CONSTANTS
  n,         \* coefficients of a polynomial, 512 in the code
  q,         \* the field, 12289
  sigBound,
  WordSize,  \* values of the words hashToPoint reads, 2^16
  BlockSize, \* bytes of a keccak256 hash, 32
  Words,     \* the words explored
  Genuine,   \* the right storage of ZKNOX_NTT for n and q
  Updates,   \* what ZKNOX_NTT's constructor and update are given
  Keys,      \* the public keys explored
  Sigs,      \* the signatures explored: [s2, decodes, saltLength]
  MaxWords   \* bound: words read in one verification

ASSUME FalconAssumption ==
  /\ n \in Nat \ {0} /\ q \in Nat \ {0} /\ sigBound \in Nat
  /\ WordSize \in Nat /\ q < WordSize /\ Words \subseteq 0..(WordSize - 1)
  /\ BlockSize \in Nat \ {0} /\ MaxWords \in Nat

(* Any contract may be named as the one that holds a table: what it holds  *)
(* there are words, and zero beyond its end.                               *)
IsStorage(s) ==
  /\ {"q", "nm1modq", "psirev", "psiinvrev", "is_immutable"} \subseteq DOMAIN s
  /\ s.q \in Nat /\ s.nm1modq \in Nat
  /\ \A k \in 1..(n - 1) : s.psirev[k] \in Nat /\ s.psiinvrev[k] \in Nat

ASSUME StorageAssumption == \A tables \in Updates \cup {Genuine} : IsStorage(tables)

(***************************************************************************)
(* What makes the tables right.  Polynomials are split in halves down to   *)
(* their coefficients: those modulo X^2t - r^2 into those modulo X^t - r   *)
(* and X^t + r.  The nodes are numbered from 1, modulo X^n + 1, where      *)
(* 2k and 2k + 1 come from k, and psirev[k] is the r of node k: a square   *)
(* root of the Root that k itself has.  The array of FalconConstants.sol   *)
(* is such a one, for q = 12289 and n = 512; but it is in that contract's  *)
(* storage, and ZKNOX_NTT reads its tables from a contract's code.         *)
(***************************************************************************)
Root(k) == IF k = 1 THEN -1
           ELSE IF k % 2 = 0 THEN Genuine.psirev[k \div 2] ELSE - Genuine.psirev[k \div 2]

ASSUME GenuineAssumption ==
  /\ \A m \in Divisors(n) : m = 1 \/ m % 2 = 0  \* n is a power of two
  /\ Genuine.q = q /\ (n * Genuine.nm1modq) % q = 1 % q
  /\ \A k \in 1..(n - 1) :
       /\ (Genuine.psirev[k] * Genuine.psirev[k]) % q = Root(k) % q
       /\ (Genuine.psirev[k] * Genuine.psiinvrev[k]) % q = 1 % q

(* A signature decodes to n coefficients; a key is an array of any size. *)
ASSUME InputsAssumption ==
  /\ \A h \in Keys : Size(h) = n => h \in [0..(n - 1) -> Nat]
  /\ \A s \in Sigs : s.decodes => s.s2 \in [0..(n - 1) -> Nat]

VARIABLES
  ntt,      \* ZKNOX_NTT: q, nm1modq, psirev, psiinvrev, is_immutable
  pc,       \* "idle", "hash" while hashToPoint runs, "done"
  key, sig, \* of the verification
  prng,     \* the generator: counter, block (of outBuffer), pos, valid
  word,     \* the positions in the generator's output of the bytes last read
  words,    \* history: the words read
  c,        \* hashToPoint's result so far
  result    \* what _validateSignature returns

vars == <<ntt, pc, key, sig, prng, word, words, c, result>>

storage == <<ntt>>

---------------------------------------------------------------------------
(* ZKNOX_NTT *)

(* constructor *)
Constructed(tables) == [tables EXCEPT !.is_immutable = 1]

Update(tables) ==
  /\ pc = "idle"
  /\ ntt.is_immutable > 0
  /\ ntt' = [tables EXCEPT !.is_immutable = ntt.is_immutable]
  /\ UNCHANGED <<pc, key, sig, prng, word, words, c, result>>

MakeImmutable ==
  /\ pc = "idle"
  /\ ntt' = [ntt EXCEPT !.is_immutable = 1]
  /\ UNCHANGED <<pc, key, sig, prng, word, words, c, result>>

---------------------------------------------------------------------------
(* ZKNOX_keccak_prng: the block number b of its output hashes state and b. *)

Flipped == [counter |-> 0, block |-> 0, pos |-> 0, valid |-> FALSE]

(* Mutant: the last byte of a block is left unread. *)
BufferedShort(p) == p.valid /\ p.pos < BlockSize - 1

Buffered(p) == p.valid /\ p.pos < BlockSize

NextByte(p) ==
  IF Buffered(p)
  THEN [byte |-> p.block * BlockSize + p.pos, prng |-> [p EXCEPT !.pos = @ + 1]]
  ELSE [byte |-> p.counter * BlockSize,
        prng |-> [counter |-> p.counter + 1, block |-> p.counter, pos |-> 1, valid |-> TRUE]]

(* extract(2) *)
Extract2(p) ==
  LET first == NextByte(p)
      second == NextByte(first.prng)
  IN  [bytes |-> <<first.byte, second.byte>>, prng |-> second.prng]

---------------------------------------------------------------------------
(* ZKNOX_HashToPoint: words below the largest multiple of q are reduced. *)

kq == (WordSize \div q) * q

(* Mutant: the bound of the words that are used is one too high. *)
UsableThrough(t) == t <= kq

Usable(t) == t < kq

Coefficient(t) == t % q

(* Mutant: the loop runs once too often. *)
TooFew == Len(c) <= n

Incomplete == Len(c) < n

Read(t) ==
  /\ pc = "hash" /\ Incomplete /\ Len(words) < MaxWords
  /\ LET bytes == Extract2(prng)
     IN  prng' = bytes.prng /\ word' = bytes.bytes
  /\ words' = Append(words, t)
  /\ c' = IF Usable(t) THEN Append(c, Coefficient(t)) ELSE c
  /\ UNCHANGED <<storage, pc, key, sig, result>>

---------------------------------------------------------------------------
(* ZKNOX_falcon *)

(* A coefficient's distance from zero. *)
Centred(x) == IF x > q \div 2 THEN q - x ELSE x

Squares(a) == SumFunction([j \in DOMAIN a |-> Centred(a[j]) * Centred(a[j])])

Hashed == [j \in 0..(n - 1) |-> c[j + 1]]

(* From the hash to the result; a difference below zero reverts. *)
Verified(product) ==
  LET s1 == VECSUBMOD(Hashed, product, q)
  IN  IF \E j \in DOMAIN product : product[j] > q \/ sig.s2[j] > q THEN "revert"
      ELSE IF Squares(s1) + Squares(sig.s2) > sigBound THEN "SIG_VALIDATION_FAILED"
      ELSE "SIG_VALIDATION_SUCCESS"

Verify == Verified(NTT_MUL(sig.s2, key, ntt))

(* verify_opt is given the transform of the key, made beforehand. *)
VerifyOpt == Verified(NTT_HALFMUL(sig.s2, NTTFW(key, Genuine.psirev, q), ntt))

(* _validateSignature(userOp, userOpHash) until hashToPoint reads. *)
ValidateSignature(h, s) ==
  /\ pc = "idle"
  /\ key' = h /\ sig' = s
  /\ \/ ~s.decodes /\ pc' = "done" /\ result' = "revert"
     \/ /\ s.decodes /\ (Size(h) # n \/ s.saltLength # 40)
        /\ pc' = "done" /\ result' = "SIG_VALIDATION_FAILED"
     \/ s.decodes /\ Size(h) = n /\ s.saltLength = 40 /\ pc' = "hash" /\ UNCHANGED result
  /\ prng' = Flipped /\ word' = <<>> /\ words' = <<>> /\ c' = <<>>
  /\ UNCHANGED storage

HashedToPoint ==
  /\ pc = "hash" /\ Len(c) = n
  /\ result' = Verify /\ pc' = "done"
  /\ UNCHANGED <<storage, key, sig, prng, word, words, c>>

(* The verification runs out of gas. *)
OutOfGas ==
  /\ pc = "hash"
  /\ result' = "revert" /\ pc' = "done"
  /\ UNCHANGED <<storage, key, sig, prng, word, words, c>>

Returned ==
  /\ pc = "done"
  /\ pc' = "idle" /\ key' = <<>> /\ sig' = <<>> /\ result' = "none"
  /\ prng' = Flipped /\ word' = <<>> /\ words' = <<>> /\ c' = <<>>
  /\ UNCHANGED storage

Init ==
  /\ ntt \in {Constructed(tables) : tables \in Updates}
  /\ pc = "idle" /\ key = <<>> /\ sig = <<>> /\ result = "none"
  /\ prng = Flipped /\ word = <<>> /\ words = <<>> /\ c = <<>>

Next ==
  \/ \E tables \in Updates : Update(tables)
  \/ MakeImmutable
  \/ \E h \in Keys, s \in Sigs : ValidateSignature(h, s)
  \/ \E t \in Words : Read(t)
  \/ HashedToPoint \/ OutOfGas \/ Returned

Spec == Init /\ [][Next]_vars

---------------------------------------------------------------------------
IsGenuine == [ntt EXCEPT !.is_immutable = 1] = Constructed(Genuine)

TypeOK ==
  /\ ntt.is_immutable \in {0, 1}
  /\ pc \in {"idle", "hash", "done"}
  /\ c \in Seq(0..(q - 1)) /\ Len(c) <= n
  /\ prng.pos \in 0..BlockSize
  /\ result \in {"none", "revert", "SIG_VALIDATION_FAILED", "SIG_VALIDATION_SUCCESS"}

(***************************************************************************)
(* hashToPoint uses every byte of the generator's output once, in order,   *)
(* across the ends of its blocks: two bytes for each word.                 *)
(***************************************************************************)
BytesInOrder ==
  words # <<>> => word = <<2 * Len(words) - 2, 2 * Len(words) - 1>>

(***************************************************************************)
(* The hash of a message is uniform: whatever words were read, a word that *)
(* is used could have been any of the same number of words, whichever of   *)
(* the q coefficients it stands for.                                       *)
(***************************************************************************)
HashUniform ==
  \A j \in DOMAIN words : Usable(words[j]) =>
    Cardinality({t \in 0..(WordSize - 1) :
                   Usable(t) /\ Coefficient(t) = Coefficient(words[j])}) = WordSize \div q

(***************************************************************************)
(* A signature is accepted exactly when it is short: c - s2*h, computed by *)
(* the definition of the product, and s2, both taken as close to zero as   *)
(* modulo q they can be, have a norm within sigBound.  This holds for the  *)
(* right tables, which no script deploys but update may install, and for   *)
(* verify_opt as well as for verify.                                       *)
(***************************************************************************)
Nearest(x) == IF x % q <= (q - 1) \div 2 THEN x % q ELSE q - (x % q)

Norm(a) == SumFunction([j \in DOMAIN a |-> Nearest(a[j]) * Nearest(a[j])])

Short ==
  LET p == Product(sig.s2, key, q)
      s1 == [j \in DOMAIN p |-> Hashed[j] - p[j]]
  IN  Norm(s1) + Norm(sig.s2) <= sigBound

AcceptsShort ==
  pc = "done" /\ Len(c) = n /\ IsGenuine /\ result # "revert" =>
    /\ result = (IF Short THEN "SIG_VALIDATION_SUCCESS" ELSE "SIG_VALIDATION_FAILED")
    /\ VerifyOpt = result
===========================================================================
