--------------------------- MODULE Falcon_proofs ---------------------------
(***************************************************************************)
(* The proofs about the Falcon verifier, the transform it multiplies with, *)
(* the decoders and the script that uses them, for every field, degree and *)
(* table the assumptions admit. In the order below: the generator of       *)
(* random bytes, for every size of its blocks, odd ones included, where a  *)
(* block's end may fall between the two bytes of a word; the hash; the     *)
(* simulation, which foretells what is sent whatever the transform         *)
(* computes; the arithmetic modulo q, the passes of the transform and the  *)
(* products they compute; the verification; the bits of the encodings and  *)
(* the two kinds of decoders; and the script, from the signer's key to the *)
(* account's answer.                                                       *)
(***************************************************************************)
EXTENDS FiniteSets, FiniteSetsExt, FalconScript, Wei_proofs, SequenceTheorems

Generator == [counter : Nat, block : Nat, pos : Nat, valid : BOOLEAN]

(* The next byte of the generator p is byte m of its output. *)
NextIs(p, m) ==
  /\ p \in Generator
  /\ IF p.valid THEN /\ p.counter = p.block + 1
                     /\ p.pos \in 1..BlockSize
                     /\ m = p.block * BlockSize + p.pos
     ELSE p.counter = 0 /\ m = 0

(* The words are known by how many they are: nothing here depends on them. *)
Inv ==
  /\ words \in Seq(Words)
  /\ NextIs(prng, 2 * Len(words))
  /\ BytesInOrder

(* A byte is read, and the next one is next: also where a block ends. *)
LEMMA ByteRead ==
  ASSUME NEW p, NEW m \in Nat, NextIs(p, m)
  PROVE  NextByte(p).byte = m /\ NextIs(NextByte(p).prng, m + 1)
<1>1. p \in Generator /\ BlockSize \in Nat \ {0}
  BY FalconAssumption DEF NextIs, FalconAssumption
<1>2. CASE Buffered(p)
  <2>1. p.valid /\ p.pos < BlockSize /\ p.counter = p.block + 1
        /\ p.pos \in 1..BlockSize /\ m = p.block * BlockSize + p.pos
    BY <1>2 DEF Buffered, NextIs
  <2> DEFINE r == [p EXCEPT !.pos = @ + 1]
             high == p.block * BlockSize
  <2>2. NextByte(p).byte = m /\ NextByte(p).prng = r
    BY <1>2, <2>1 DEF NextByte
  <2>3. /\ r \in Generator /\ r.valid /\ r.counter = r.block + 1
        /\ r.block = p.block /\ r.pos = p.pos + 1
    BY <1>1, <2>1 DEF Generator
  <2>4. high \in Nat /\ p.pos \in Nat /\ m = high + p.pos
    BY <1>1, <2>1 DEF Generator
  <2>5. r.pos \in 1..BlockSize /\ m + 1 = r.block * BlockSize + r.pos
    <3>1. r.pos \in 1..BlockSize
      BY <1>1, <2>1, <2>3
    <3>2. m + 1 = high + r.pos
      <4> HIDE DEF high, r
      <4>1. QED  BY <2>3, <2>4
    <3>3. QED  BY <3>1, <3>2, <2>3
  <2> HIDE DEF r
  <2>6. NextIs(r, m + 1)
    BY <2>3, <2>5 DEF NextIs
  <2>7. QED  BY <2>2, <2>6
<1>3. CASE ~Buffered(p)
  <2> DEFINE r == [counter |-> p.counter + 1, block |-> p.counter, pos |-> 1, valid |-> TRUE]
  <2>1. NextByte(p).byte = p.counter * BlockSize /\ NextByte(p).prng = r
    BY <1>3 DEF NextByte
  <2>2. m = p.counter * BlockSize
    <3>1. CASE p.valid
      <4>1. p.pos = BlockSize /\ p.counter = p.block + 1 /\ m = p.block * BlockSize + p.pos
        BY <1>1, <1>3, <3>1 DEF Buffered, NextIs
      <4>2. p.block \in Nat /\ (p.block + 1) * BlockSize = p.block * BlockSize + BlockSize
        BY <1>1 DEF Generator
      <4>3. QED  BY <4>1, <4>2
    <3>2. CASE ~p.valid
      <4>1. p.counter = 0 /\ m = 0
        BY <3>2 DEF NextIs
      <4>2. QED  BY <1>1, <4>1
    <3>3. QED  BY <3>1, <3>2
  <2>3. NextIs(r, m + 1)
    <3>1. r \in Generator
      BY <1>1 DEF Generator
    <3>2. 1 \in 1..BlockSize
      BY <1>1
    <3>3. QED  BY <3>1, <3>2, <2>2 DEF NextIs
  <2>4. QED  BY <2>1, <2>2, <2>3
<1>4. QED  BY <1>2, <1>3

(* A verification starts with a generator whose first byte is next. *)
LEMMA FlippedInv ==
  ASSUME prng = Flipped, words = <<>>
  PROVE  Inv
BY DEF Flipped, Inv, NextIs, Generator, BytesInOrder

(* A word that is read, as one too large for the hash is dropped, keeps the invariant. *)
LEMMA ReadInv ==
  ASSUME Inv, NEW t \in Words, Read(t)
  PROVE  Inv'
<1> DEFINE l == Len(words)
           first == NextByte(prng)
           second == NextByte(first.prng)
<1>1. /\ words \in Seq(Words) /\ l \in Nat /\ NextIs(prng, 2 * l)
      /\ words' = Append(words, t)
      /\ prng' = second.prng /\ word' = <<first.byte, second.byte>>
  BY DEF Inv, Read, Extract2
<1>2. first.byte = 2 * l /\ NextIs(first.prng, 2 * l + 1)
  BY <1>1, ByteRead
<1> HIDE DEF first
<1>3. second.byte = 2 * l + 1 /\ NextIs(second.prng, 2 * l + 1 + 1)
  BY <1>1, <1>2, ByteRead
<1>4. words' \in Seq(Words) /\ Len(words') = l + 1
  BY <1>1
<1> HIDE DEF l, second
<1>5. 2 * l + 1 + 1 = 2 * Len(words')
      /\ 2 * l = 2 * Len(words') - 2 /\ 2 * l + 1 = 2 * Len(words') - 1
  BY <1>1, <1>4
<1>6. NextIs(prng', 2 * Len(words'))
  BY <1>1, <1>3, <1>5
<1>7. BytesInOrder'
  BY <1>1, <1>2, <1>3, <1>5 DEF BytesInOrder
<1>8. QED  BY <1>4, <1>6, <1>7 DEF Inv, NextIs

(* Every step keeps the invariant. *)
LEMMA NextInv == Inv /\ [Next]_vars => Inv'
<1> SUFFICES ASSUME Inv, [Next]_vars PROVE Inv'
  OBVIOUS
<1>1. ASSUME UNCHANGED <<prng, word, words>> PROVE Inv'
  BY <1>1 DEF Inv, BytesInOrder
<1>2. ASSUME prng' = Flipped, words' = <<>> PROVE Inv'
  BY <1>2 DEF Flipped, Inv, NextIs, Generator, BytesInOrder
<1>3. ASSUME NEW tables \in Updates, Update(tables) PROVE Inv'
  BY <1>1, <1>3 DEF Update
<1>4. CASE MakeImmutable
  BY <1>1, <1>4 DEF MakeImmutable
<1>5. ASSUME NEW h \in Keys, NEW s \in Sigs, ValidateSignature(h, s) PROVE Inv'
  BY <1>2, <1>5 DEF ValidateSignature
<1>6. ASSUME NEW t \in Words, Read(t) PROVE Inv'
  BY <1>6, ReadInv
<1>7. CASE HashedToPoint
  BY <1>1, <1>7 DEF HashedToPoint
<1>8. CASE OutOfGas
  BY <1>1, <1>8 DEF OutOfGas
<1>9. CASE Returned
  BY <1>2, <1>9 DEF Returned
<1>10. CASE UNCHANGED vars
  BY <1>1, <1>10 DEF vars
<1>11. QED
  BY <1>3, <1>4, <1>5, <1>6, <1>7, <1>8, <1>9, <1>10 DEF Next

(***************************************************************************)
(* hashToPoint reads each byte of the generator's output once and in       *)
(* order, whatever the size of its blocks and of its polynomials.          *)
(***************************************************************************)
THEOREM NoByteLost == Spec => []BytesInOrder
<1>1. Init => Inv
  BY FlippedInv DEF Init
<1>2. Inv => BytesInOrder
  BY DEF Inv
<1>3. QED  BY <1>1, <1>2, NextInv, PTL DEF Spec

---------------------------------------------------------------------------
(***************************************************************************)
(* The hash: how many words stand for a coefficient.                       *)
(***************************************************************************)

(* Division with remainder by q, and that it is unique. *)
LEMMA Division ==
  ASSUME NEW t \in Nat
  PROVE  /\ t \div q \in Nat /\ t % q \in 0..(q - 1)
         /\ t = (t \div q) * q + (t % q)
BY FalconAssumption DEF FalconAssumption

(* Multiples of q are q apart. *)
LEMMA AtLeastOnce ==
  ASSUME NEW a \in Int, NEW b \in Int, a < b
  PROVE  a * q + q <= b * q
<1> DEFINE d == b - a - 1
<1>1. q \in Nat /\ d \in Nat /\ b = a + d + 1
  BY FalconAssumption DEF FalconAssumption
<1> HIDE DEF d
<1>2. d * q \in Nat
  BY <1>1
<1>3. (a + d + 1) * q = a * q + d * q + q
  BY <1>1
<1>4. a * q \in Int
  BY <1>1
<1>5. QED  BY <1>1, <1>2, <1>3, <1>4

(* Quotient and remainder of i * q + r. *)
LEMMA Remainder ==
  ASSUME NEW i \in Nat, NEW r \in 0..(q - 1)
  PROVE  (i * q + r) \div q = i /\ (i * q + r) % q = r
<1> DEFINE t == i * q + r
           d == t \div q
           e == t % q
<1>1. q \in Nat \ {0} /\ i * q \in Nat /\ r \in Nat /\ r < q
  BY FalconAssumption DEF FalconAssumption
<1>2. t \in Nat
  BY <1>1
<1>3. d \in Nat /\ e \in 0..(q - 1) /\ t = d * q + e
  BY <1>2, Division
<1>4. i * q + r = d * q + e
  BY <1>3
<1> HIDE DEF t, d, e
<1>5. d * q \in Nat
  BY <1>1, <1>3
<1>6. ~(d < i)
  BY <1>1, <1>3, <1>4, <1>5, AtLeastOnce
<1>7. ~(i < d)
  BY <1>1, <1>3, <1>4, <1>5, AtLeastOnce
<1>8. d = i
  BY <1>3, <1>6, <1>7
<1>9. e = r
  BY <1>1, <1>3, <1>4, <1>5, <1>8
<1>10. QED  BY <1>8, <1>9 DEF d, e, t

(* Of the words that are used, as many stand for one coefficient as for another. *)
LEMMA AsManyWords ==
  ASSUME NEW r \in 0..(q - 1)
  PROVE  Cardinality({t \in 0..(WordSize - 1) : Usable(t) /\ Coefficient(t) = r}) = WordSize \div q
<1> DEFINE m == WordSize \div q
           S == {t \in 0..(WordSize - 1) : Usable(t) /\ Coefficient(t) = r}
           f == [i \in 0..(m - 1) |-> i * q + r]
<1>1. /\ m \in Nat /\ q \in Nat \ {0} /\ kq = m * q /\ m * q \in Nat /\ WordSize \in Nat
      /\ kq <= WordSize
  <2>1. WordSize \in Nat /\ q \in Nat \ {0}
    BY FalconAssumption DEF FalconAssumption
  <2>2. m \in Nat /\ WordSize % q \in 0..(q - 1) /\ WordSize = m * q + (WordSize % q)
    BY <2>1, Division
  <2> HIDE DEF m
  <2>3. m * q \in Nat
    BY <2>1, <2>2
  <2>4. QED  BY <2>1, <2>2, <2>3 DEF kq, m
<1> HIDE DEF m
<1>2. ASSUME NEW i \in 0..(m - 1)
      PROVE  i * q + r \in S
  <2>1. i \in Nat /\ i < m /\ i * q \in Nat
    BY <1>1
  <2>2. i * q + q <= m * q
    BY <2>1, <1>1, AtLeastOnce
  <2>3. i * q + r \in 0..(WordSize - 1) /\ i * q + r < kq
    BY <2>1, <2>2, <1>1
  <2>4. (i * q + r) % q = r
    BY <2>1, Remainder
  <2>5. QED  BY <2>3, <2>4 DEF Usable, Coefficient
<1>3. ASSUME NEW i \in 0..(m - 1), NEW j \in 0..(m - 1), i * q + r = j * q + r
      PROVE  i = j
  <2>1. i \in Nat /\ j \in Nat
    BY <1>1
  <2>2. (i * q + r) \div q = i /\ (j * q + r) \div q = j
    BY <2>1, Remainder
  <2>3. QED  BY <1>3, <2>2
<1>4. ASSUME NEW t \in S
      PROVE  \E i \in 0..(m - 1) : i * q + r = t
  <2> DEFINE i == t \div q
  <2>1. t \in Nat /\ t < m * q /\ t % q = r
    BY <1>1 DEF Usable, Coefficient
  <2>2. i \in Nat /\ t = i * q + r
    BY <2>1, Division
  <2> HIDE DEF i
  <2>3. i * q \in Nat /\ r \in Nat
    BY <1>1, <2>2
  <2>4. ~(m <= i)
    <3>1. ASSUME m <= i PROVE FALSE
      <4>1. m * q <= i * q
        <5>1. CASE m = i
          BY <5>1, <2>3
        <5>2. CASE m < i
          <6>1. m * q + q <= i * q
            BY <5>2, <1>1, <2>2, AtLeastOnce
          <6>2. QED  BY <6>1, <1>1, <2>3
        <5>3. QED  BY <3>1, <5>1, <5>2, <1>1, <2>2
      <4>2. QED  BY <4>1, <2>1, <2>2, <2>3, <1>1
    <3>2. QED  BY <3>1
  <2>5. i \in 0..(m - 1)
    BY <1>1, <2>2, <2>4
  <2>6. QED  BY <2>2, <2>5
<1> HIDE DEF S
<1>5. f \in Bijection(0..(m - 1), S)
  <2>1. f \in [0..(m - 1) -> S]
    BY <1>2
  <2>2. \A i, j \in 0..(m - 1) : f[i] = f[j] => i = j
    BY <1>3
  <2>3. \A t \in S : \E i \in 0..(m - 1) : f[i] = t
    BY <1>4
  <2> HIDE DEF f
  <2>4. QED  BY <2>1, <2>2, <2>3 DEF Bijection, Injection, Surjection, IsInjective
<1>6. IsFiniteSet(0..(m - 1)) /\ Cardinality(0..(m - 1)) = m
  <2>1. Cardinality(0..(m - 1)) = IF 0 > m - 1 THEN 0 ELSE (m - 1) - 0 + 1
    BY <1>1, FS_Interval
  <2>2. QED  BY <2>1, <1>1, FS_Interval
<1> HIDE DEF f
<1>7. Cardinality(S) = m
  <2>1. ExistsBijection(0..(m - 1), S)
    BY <1>5 DEF ExistsBijection
  <2>2. QED  BY <1>6, <2>1, FS_Bijection
<1>8. QED  BY <1>7 DEF S, m

(***************************************************************************)
(* The hash is uniform: whatever the words are, and whatever the size of   *)
(* the field, no coefficient has more of the used words than another.      *)
(***************************************************************************)
THEOREM HashFair == Spec => []HashUniform
<1>1. Init => Inv
  BY FlippedInv DEF Init
<1>2. Inv => HashUniform
  <2> SUFFICES ASSUME Inv, NEW j \in DOMAIN words
               PROVE  Cardinality({t \in 0..(WordSize - 1) :
                        Usable(t) /\ Coefficient(t) = Coefficient(words[j])}) = WordSize \div q
    BY DEF HashUniform
  <2> DEFINE r == Coefficient(words[j])
  <2>1. words[j] \in Words
    BY DEF Inv
  <2>2. words[j] \in Nat
    <3>1. 0..(WordSize - 1) \subseteq Nat /\ Words \subseteq 0..(WordSize - 1)
      <4>1. WordSize \in Nat /\ Words \subseteq 0..(WordSize - 1)
        BY FalconAssumption DEF FalconAssumption
      <4>2. QED  BY <4>1
    <3>2. QED  BY <2>1, <3>1
  <2>3. r \in 0..(q - 1)
    BY <2>2, Division DEF Coefficient
  <2> HIDE DEF r
  <2>4. Cardinality({t \in 0..(WordSize - 1) : Usable(t) /\ Coefficient(t) = r}) = WordSize \div q
    BY <2>3, AsManyWords
  <2>5. QED  BY <2>4 DEF r
<1>3. QED  BY <1>1, <1>2, NextInv, PTL DEF Spec

---------------------------------------------------------------------------
(***************************************************************************)
(* The types.                                                              *)
(***************************************************************************)

(* A storage of ZKNOX_NTT is a record with the field is_immutable. *)
Stored == "is_immutable" \in DOMAIN ntt

(* A byte is read within the block: no index beyond its end. *)
LEMMA ByteTyped ==
  ASSUME NEW p, p \in Generator, p.pos \in 0..BlockSize
  PROVE  NextByte(p).prng \in Generator /\ NextByte(p).prng.pos \in 0..BlockSize
<1>1. BlockSize \in Nat \ {0}
  BY FalconAssumption DEF FalconAssumption
<1>2. CASE Buffered(p)
  <2>1. NextByte(p).prng = [p EXCEPT !.pos = @ + 1]
    BY <1>2 DEF NextByte
  <2>2. p.pos + 1 \in 0..BlockSize
    BY <1>1, <1>2 DEF Buffered
  <2>3. QED  BY <2>1, <2>2 DEF Generator
<1>3. CASE ~Buffered(p)
  <2> DEFINE r == [counter |-> p.counter + 1, block |-> p.counter, pos |-> 1, valid |-> TRUE]
  <2>1. NextByte(p).prng = r
    BY <1>3 DEF NextByte
  <2>2. r \in Generator /\ r.pos \in 0..BlockSize
    BY <1>1 DEF Generator
  <2> HIDE DEF r
  <2>3. QED  BY <2>1, <2>2
<1>4. QED  BY <1>2, <1>3

(* A word adds one coefficient at most, and only while one is missing. *)
LEMMA ReadTyped ==
  ASSUME Inv, TypeOK, Stored, NEW t \in Words, Read(t)
  PROVE  TypeOK' /\ Stored'
<1> DEFINE first == NextByte(prng)
           second == NextByte(first.prng)
<1>1. UNCHANGED <<ntt, pc, result>> /\ prng' = second.prng
  BY DEF Read, storage, Extract2
<1>2. prng \in Generator /\ prng.pos \in 0..BlockSize
  BY DEF Inv, NextIs, TypeOK
<1>3. first.prng \in Generator /\ first.prng.pos \in 0..BlockSize
  BY <1>2, ByteTyped
<1> HIDE DEF first
<1>4. second.prng.pos \in 0..BlockSize
  BY <1>3, ByteTyped
<1> HIDE DEF second
<1>5. c' \in Seq(0..(q - 1)) /\ Len(c') <= n
  <2>1. c \in Seq(0..(q - 1)) /\ Len(c) < n /\ n \in Nat
    BY FalconAssumption DEF TypeOK, Read, Incomplete, FalconAssumption
  <2>2. Coefficient(t) \in 0..(q - 1)
    <3>1. 0..(WordSize - 1) \subseteq Nat /\ Words \subseteq 0..(WordSize - 1)
      <4>1. WordSize \in Nat /\ Words \subseteq 0..(WordSize - 1)
        BY FalconAssumption DEF FalconAssumption
      <4>2. QED  BY <4>1
    <3>2. QED  BY <3>1, Division DEF Coefficient
  <2>3. c' = c \/ c' = Append(c, Coefficient(t))
    BY DEF Read
  <2>4. /\ Append(c, Coefficient(t)) \in Seq(0..(q - 1))
        /\ Len(Append(c, Coefficient(t))) = Len(c) + 1 /\ Len(c) \in Nat
    BY <2>1, <2>2, AppendProperties, LenProperties
  <2>5. CASE c' = c
    BY <2>1, <2>5
  <2>6. CASE c' = Append(c, Coefficient(t))
    <3>1. c' \in Seq(0..(q - 1)) /\ Len(c') = Len(c) + 1
      BY <2>4, <2>6
    <3>2. QED  BY <2>1, <2>4, <3>1
  <2>7. QED  BY <2>3, <2>5, <2>6
<1>6. QED  BY <1>1, <1>4, <1>5 DEF TypeOK, Stored

(***************************************************************************)
(* The result is one of the contract's, hashToPoint makes at most n        *)
(* coefficients of the field, and the generator stays within its block.    *)
(***************************************************************************)
THEOREM VerifierTyped == Spec => []TypeOK
<1> DEFINE Results == {"none", "revert", "SIG_VALIDATION_FAILED", "SIG_VALIDATION_SUCCESS"}
           Typed == TypeOK /\ Stored
<1>1. /\ Flipped.pos \in 0..BlockSize
      /\ <<>> \in Seq(0..(q - 1)) /\ Len(<<>>) <= n
  BY FalconAssumption, EmptySeq DEF FalconAssumption, Flipped
<1>2. Init => Typed
  <2> SUFFICES ASSUME Init PROVE Typed
    OBVIOUS
  <2>1. PICK tables \in Updates : ntt = [tables EXCEPT !.is_immutable = 1]
    BY DEF Init, Constructed
  <2>2. "is_immutable" \in DOMAIN tables
    BY StorageAssumption DEF StorageAssumption, IsStorage
  <2>3. ntt.is_immutable \in {0, 1} /\ Stored
    BY <2>1, <2>2 DEF Stored
  <2>4. QED  BY <1>1, <2>3 DEF Init, TypeOK
<1>3. Inv /\ Typed /\ [Next]_vars => Typed'
  <2> SUFFICES ASSUME Inv, Typed, [Next]_vars PROVE Typed'
    OBVIOUS
  <2>1. ASSUME UNCHANGED <<pc, prng, c, result>>, "is_immutable" \in DOMAIN ntt',
               ntt'.is_immutable \in {0, 1}
        PROVE  Typed'
    BY <2>1 DEF TypeOK, Stored
  <2>2. ASSUME UNCHANGED ntt, pc' \in {"idle", "hash", "done"}, result' \in Results,
               \/ prng' = prng /\ c' = c
               \/ prng' = Flipped /\ c' = <<>>
        PROVE  Typed'
    BY <1>1, <2>2 DEF TypeOK, Stored
  <2>3. ASSUME NEW tables \in Updates, Update(tables) PROVE Typed'
    <3>1. "is_immutable" \in DOMAIN tables
      BY StorageAssumption DEF StorageAssumption, IsStorage
    <3>2. ntt' = [tables EXCEPT !.is_immutable = ntt.is_immutable]
      BY <2>3 DEF Update
    <3>3. "is_immutable" \in DOMAIN ntt' /\ ntt'.is_immutable \in {0, 1}
      BY <3>1, <3>2 DEF TypeOK
    <3>4. QED  BY <2>1, <2>3, <3>3 DEF Update
  <2>4. CASE MakeImmutable
    <3>1. ntt' = [ntt EXCEPT !.is_immutable = 1]
      BY <2>4 DEF MakeImmutable
    <3>2. "is_immutable" \in DOMAIN ntt' /\ ntt'.is_immutable \in {0, 1}
      BY <3>1 DEF Stored
    <3>3. QED  BY <2>1, <2>4, <3>2 DEF MakeImmutable
  <2>5. ASSUME NEW h \in Keys, NEW s \in Sigs, ValidateSignature(h, s) PROVE Typed'
    <3>1. pc' \in {"idle", "hash", "done"} /\ result' \in Results
      BY <2>5 DEF ValidateSignature, TypeOK
    <3>2. UNCHANGED ntt /\ prng' = Flipped /\ c' = <<>>
      BY <2>5 DEF ValidateSignature, storage
    <3>3. QED  BY <2>2, <3>1, <3>2
  <2>6. ASSUME NEW t \in Words, Read(t) PROVE Typed'
    BY <2>6, ReadTyped
  <2>7. CASE HashedToPoint
    <3>1. Verify \in Results
      BY DEF Verify, Verified
    <3>2. result' \in Results /\ pc' = "done" /\ UNCHANGED <<ntt, prng, c>>
      <4>1. result' = Verify /\ pc' = "done" /\ UNCHANGED <<ntt, prng, c>>
        BY <2>7 DEF HashedToPoint, storage
      <4>2. QED  BY <3>1, <4>1
    <3>3. QED  BY <2>2, <3>2
  <2>8. CASE OutOfGas
    BY <2>2, <2>8 DEF OutOfGas, storage
  <2>9. CASE Returned
    BY <2>2, <2>9 DEF Returned, storage
  <2>10. CASE UNCHANGED vars
    BY <2>10 DEF vars, storage, TypeOK, Stored
  <2>11. QED
    BY <2>3, <2>4, <2>5, <2>6, <2>7, <2>8, <2>9, <2>10 DEF Next
<1>4. Init => Inv
  BY FlippedInv DEF Init
<1>5. Typed => TypeOK
  OBVIOUS
<1> HIDE DEF Typed
<1>6. QED  BY <1>2, <1>3, <1>4, <1>5, NextInv, PTL DEF Spec

---------------------------------------------------------------------------
(***************************************************************************)
(* The script.  A verification's result is a function of the key, the      *)
(* signature, the hash and the tables, and the hash one of the words.      *)
(***************************************************************************)
Outcome(h, s, hash, tables) ==
  LET product == NTT_MUL(s.s2, h, tables)
      s1 == VECSUBMOD([j \in 0..(n - 1) |-> hash[j + 1]], product, q)
  IN  IF \E j \in DOMAIN product : product[j] > q \/ s.s2[j] > q THEN "revert"
      ELSE IF Squares(s1) + Squares(s.s2) > sigBound THEN "SIG_VALIDATION_FAILED"
      ELSE "SIG_VALIDATION_SUCCESS"

(* The hash after one more word. *)
With(hash, t) == IF Usable(t) THEN Append(hash, Coefficient(t)) ELSE hash

(* H[i] is the hash after i of the words w; none of them was read in vain. *)
Hashes(H, w) ==
  /\ H[0] = <<>>
  /\ \A i \in 1..Len(w) : H[i] = With(H[i - 1], w[i]) /\ Len(H[i - 1]) < n

(* What _validateSignature asks for before it hashes. *)
WellFormed(h, s) == s.decodes /\ Size(h) = n /\ s.saltLength = 40

Success == "SIG_VALIDATION_SUCCESS"

Verifying == stage \in {"simulating", "sending"}

(* main's verification is of main's operation, and is not over. *)
Mains == Verifying => key = accountKey /\ sig = submission[1] /\ pc # "idle"

(* The simulation: so far it has the tables it started with. *)
Simulation ==
  stage = "simulating" =>
    /\ ntt = tested
    /\ pc = "hash" \/ result = Success =>
         WellFormed(key, sig) /\ \E H : Hashes(H, words) /\ H[Len(words)] = c
    /\ pc = "done" /\ result = Success => Len(c) = n /\ Outcome(key, sig, c, ntt) = Success

(* What is known of a simulation that succeeded. *)
Simulates(H) ==
  /\ WellFormed(accountKey, submission[1])
  /\ Hashes(H, seen) /\ Len(H[Len(seen)]) = n
  /\ Outcome(accountKey, submission[1], H[Len(seen)], tested) = Success

(* The transaction reads the same words, and so has the same hashes. *)
Repeats(H) ==
  /\ Len(words) <= Len(seen) /\ \A i \in 1..Len(words) : words[i] = seen[i]
  /\ H[Len(words)] = c
  /\ pc = "done" => Len(c) = n /\ result = Outcome(key, sig, c, ntt)

Foretelling ==
  stage \in {"simulated", "sending"} =>
    \E H : Simulates(H) /\ (stage = "sending" => Repeats(H))

SInv == words \in Seq(Words) /\ seen \in Seq(Words) /\ Mains /\ Simulation /\ Foretelling

(* Of two verifications, one that has read fewer words has no hash yet. *)
LEMMA SameHash ==
  ASSUME SInv, stage = "sending", pc = "done"
  PROVE  ntt = tested => result = Success
<1>1. PICK H : Simulates(H) /\ Repeats(H)
  BY DEF SInv, Foretelling
<1>2. Len(words) \in Nat /\ Len(seen) \in Nat
  BY DEF SInv
<1>3. Len(words) = Len(seen)
  <2>1. ASSUME Len(words) # Len(seen) PROVE FALSE
    <3>1. Len(words) + 1 \in 1..Len(seen) /\ (Len(words) + 1) - 1 = Len(words)
      BY <1>1, <1>2, <2>1 DEF Repeats
    <3>2. Len(H[Len(words)]) < n
      BY <1>1, <3>1 DEF Simulates, Hashes
    <3>3. Len(H[Len(words)]) = n /\ n \in Nat
      BY <1>1, FalconAssumption DEF Repeats, FalconAssumption
    <3>4. QED  BY <3>2, <3>3
  <2>2. QED  BY <2>1
<1>4. result = Outcome(accountKey, submission[1], H[Len(seen)], ntt)
  BY <1>1, <1>3 DEF Repeats, SInv, Mains, Verifying
<1>5. QED  BY <1>1, <1>4 DEF Simulates

(* A word read lengthens the chain of hashes. *)
LEMMA ReadHashes ==
  ASSUME words \in Seq(Words), NEW t \in Words, Read(t), NEW H, Hashes(H, words), H[Len(words)] = c
  PROVE  \E G : Hashes(G, words') /\ G[Len(words')] = c'
<1> DEFINE l == Len(words)
           G == [i \in 0..(l + 1) |-> IF i <= l THEN H[i] ELSE c']
<1>1. /\ words' = Append(words, t) /\ c' = With(c, t) /\ Len(c) < n /\ l \in Nat
      /\ Len(words') = l + 1 /\ words'[l + 1] = t /\ \A i \in 1..l : words'[i] = words[i]
  BY DEF Read, Incomplete, With
<1>2. /\ \A i \in 0..l : G[i] = H[i]
      /\ G[l + 1] = c'
  BY <1>1
<1> HIDE DEF G
<1>3. ASSUME NEW i \in 1..(l + 1)
      PROVE  G[i] = With(G[i - 1], words'[i]) /\ Len(G[i - 1]) < n
  <2>1. CASE i = l + 1
    <3>1. i - 1 = l /\ l \in 0..l
      BY <1>1, <2>1
    <3>2. QED  BY <1>1, <1>2, <2>1, <3>1 DEF l
  <2>2. CASE i # l + 1
    <3>1. i \in 1..l /\ i \in 0..l /\ i - 1 \in 0..l
      BY <1>1, <2>2
    <3>2. QED  BY <1>1, <1>2, <3>1 DEF Hashes, l
  <2>3. QED  BY <2>1, <2>2
<1>4. Hashes(G, words')
  BY <1>1, <1>2, <1>3 DEF Hashes
<1>5. QED  BY <1>1, <1>2, <1>4

(* hashToPoint, and what follows it, is at the result that Outcome names. *)
LEMMA HashedOutcome ==
  ASSUME HashedToPoint
  PROVE  /\ Len(c) = n /\ pc = "hash" /\ pc' = "done" /\ result' = Outcome(key, sig, c, ntt)
         /\ UNCHANGED <<ntt, key, sig, words, c>>
BY DEF HashedToPoint, Verify, Verified, Hashed, Outcome, storage

(* The start of a verification. *)
LEMMA Started ==
  ASSUME NEW h, NEW s, ValidateSignature(h, s)
  PROVE  /\ key' = h /\ sig' = s /\ ntt' = ntt /\ words' = <<>> /\ c' = <<>>
         /\ \/ pc' = "done" /\ result' # Success /\ ~WellFormed(h, s)
            \/ pc' = "hash" /\ WellFormed(h, s)
         /\ pc' # "idle"
BY DEF ValidateSignature, WellFormed, Success, storage

(* What is known does not depend on the rest of the state. *)
LEMMA SameInv ==
  ASSUME SInv,
         UNCHANGED <<ntt, pc, key, sig, words, c, result, stage, accountKey, submission, seen, tested>>
  PROVE  SInv'
<1>1. ASSUME NEW H PROVE (Simulates(H)' <=> Simulates(H)) /\ (Repeats(H)' <=> Repeats(H))
  BY DEF Simulates, Repeats
<1>2. Foretelling'
  BY <1>1 DEF SInv, Foretelling
<1>3. Mains' /\ Simulation' /\ words' \in Seq(Words) /\ seen' \in Seq(Words)
  BY DEF SInv, Mains, Verifying, Simulation
<1>4. QED  BY <1>2, <1>3 DEF SInv

(* Nothing is known where main neither simulates nor sends. *)
LEMMA ElsewhereInv ==
  ASSUME words' \in Seq(Words), seen' \in Seq(Words),
         stage' \notin {"simulating", "simulated", "sending"}
  PROVE  SInv'
BY DEF SInv, Mains, Verifying, Simulation, Foretelling

(* The tables change between verifications only. *)
LEMMA TablesInv ==
  ASSUME SInv, pc = "idle",
         UNCHANGED <<pc, key, sig, words, c, result, stage, accountKey, submission, seen, tested>>
  PROVE  SInv'
<1>1. stage \notin {"simulating", "sending"}
  BY DEF SInv, Mains, Verifying
<1>2. ASSUME NEW H PROVE Simulates(H)' <=> Simulates(H)
  BY DEF Simulates
<1>3. Foretelling'
  BY <1>1, <1>2 DEF SInv, Foretelling
<1>4. Mains' /\ Simulation' /\ words' \in Seq(Words) /\ seen' \in Seq(Words)
  BY <1>1 DEF SInv, Mains, Verifying, Simulation
<1>5. QED  BY <1>3, <1>4 DEF SInv

(* A word that is read, as the code goes on with the same one in both verifications. *)
LEMMA WordInv ==
  ASSUME SInv, NEW t \in Words, WordOf(t), Read(t), UNCHANGED script
  PROVE  SInv'
<1>1. /\ UNCHANGED <<ntt, pc, key, sig, result, stage, accountKey, submission, seen, tested>>
      /\ pc = "hash" /\ words \in Seq(Words) /\ words' \in Seq(Words)
      /\ words' = Append(words, t) /\ c' = With(c, t) /\ Len(c) < n
  BY DEF Read, Incomplete, storage, script, With, SInv
<1>2. Mains'
  BY <1>1 DEF SInv, Mains, Verifying
<1>3. Simulation'
  <2> SUFFICES ASSUME stage = "simulating" PROVE Simulation'
    BY <1>1 DEF Simulation
  <2>1. WellFormed(key, sig) /\ \E H : Hashes(H, words) /\ H[Len(words)] = c
    BY <1>1 DEF SInv, Simulation
  <2>2. \E G : Hashes(G, words') /\ G[Len(words')] = c'
    BY <1>1, <2>1, ReadHashes
  <2>3. ntt' = tested' /\ WellFormed(key', sig') /\ pc' # "done"
    BY <1>1, <2>1 DEF SInv, Simulation
  <2>4. QED  BY <2>2, <2>3 DEF Simulation
<1>4. Foretelling'
  <2> SUFFICES ASSUME stage \in {"simulated", "sending"} PROVE Foretelling'
    BY <1>1 DEF Foretelling
  <2>1. PICK H : Simulates(H) /\ (stage = "sending" => Repeats(H))
    BY DEF SInv, Foretelling
  <2>2. Simulates(H)'
    BY <1>1, <2>1 DEF Simulates
  <2>3. ASSUME stage = "sending" PROVE Repeats(H)'
    <3> DEFINE l == Len(words)
    <3>1. l < Len(seen) /\ t = seen[l + 1] /\ l \in Nat /\ Len(seen) \in Nat
      BY <2>3 DEF WordOf, SInv
    <3>2. Len(words') = l + 1 /\ words'[l + 1] = t /\ \A i \in 1..l : words'[i] = words[i]
      BY <1>1
    <3>3. l + 1 \in 1..Len(seen) /\ (l + 1) - 1 = l
      BY <3>1
    <3>4. H[l + 1] = With(H[l], t) /\ H[l] = c
      BY <2>1, <2>3, <3>1, <3>3 DEF Simulates, Hashes, Repeats
    <3>5. \A i \in 1..(l + 1) : words'[i] = seen[i]
      BY <2>1, <2>3, <3>1, <3>2 DEF Repeats
    <3>6. Len(words') <= Len(seen) /\ \A i \in 1..Len(words') : words'[i] = seen[i]
      BY <3>1, <3>2, <3>5
    <3>7. H[Len(words')] = c' /\ pc' # "done" /\ seen' = seen
      BY <1>1, <3>2, <3>4
    <3>8. QED  BY <3>6, <3>7 DEF Repeats
  <2>4. QED  BY <1>1, <2>2, <2>3 DEF Foretelling
<1>5. QED  BY <1>1, <1>2, <1>3, <1>4 DEF SInv

(* The hash is complete, and the verification has its outcome. *)
LEMMA HashedInv ==
  ASSUME SInv, HashedToPoint, UNCHANGED script
  PROVE  SInv'
<1>1. /\ UNCHANGED <<ntt, key, sig, words, c, stage, accountKey, submission, seen, tested>>
      /\ Len(c) = n /\ pc = "hash" /\ pc' = "done" /\ result' = Outcome(key, sig, c, ntt)
  BY HashedOutcome DEF script
<1>2. Mains'
  BY <1>1 DEF SInv, Mains, Verifying
<1>3. Simulation'
  <2> SUFFICES ASSUME stage = "simulating" PROVE Simulation'
    BY <1>1 DEF Simulation
  <2>1. ntt = tested /\ WellFormed(key, sig) /\ \E H : Hashes(H, words) /\ H[Len(words)] = c
    BY <1>1 DEF SInv, Simulation
  <2>2. result' = Outcome(key', sig', c', ntt') /\ Len(c') = n /\ ntt' = tested' /\ WellFormed(key', sig')
    BY <1>1, <2>1
  <2>3. \E H : Hashes(H, words') /\ H[Len(words')] = c'
    BY <1>1, <2>1
  <2>4. QED  BY <2>2, <2>3 DEF Simulation
<1>4. Foretelling'
  <2> SUFFICES ASSUME stage \in {"simulated", "sending"} PROVE Foretelling'
    BY <1>1 DEF Foretelling
  <2>1. PICK H : Simulates(H) /\ (stage = "sending" => Repeats(H))
    BY DEF SInv, Foretelling
  <2>2. Simulates(H)'
    BY <1>1, <2>1 DEF Simulates
  <2>3. ASSUME stage = "sending" PROVE Repeats(H)'
    BY <1>1, <2>1, <2>3 DEF Repeats
  <2>4. QED  BY <1>1, <2>2, <2>3 DEF Foretelling
<1>5. QED  BY <1>1, <1>2, <1>3, <1>4 DEF SInv

(* A simulation without enough gas tells of no outcome. *)
LEMMA OutOfGasInv ==
  ASSUME SInv, stage # "sending", OutOfGas, UNCHANGED script
  PROVE  SInv'
<1>1. /\ UNCHANGED <<ntt, key, sig, words, c, stage, accountKey, submission, seen, tested>>
      /\ pc' = "done" /\ result' # Success
  BY DEF OutOfGas, storage, script, Success
<1>2. Mains'
  BY <1>1 DEF SInv, Mains, Verifying
<1>3. Simulation'
  BY <1>1 DEF SInv, Simulation, OutOfGas
<1>4. Foretelling'
  <2>1. ASSUME NEW H PROVE Simulates(H)' <=> Simulates(H)
    BY <1>1 DEF Simulates
  <2>2. QED  BY <1>1, <2>1 DEF SInv, Foretelling
<1>5. QED  BY <1>1, <1>2, <1>3, <1>4 DEF SInv

(* Who uses the verifier beside main. *)
LEMMA VerifierInv ==
  ASSUME SInv, Verifier
  PROVE  SInv'
<1>1. UNCHANGED script
  BY DEF Verifier
<1>2. <<>> \in Seq(Words) /\ seen \in Seq(Words)
  BY EmptySeq DEF SInv
<1>3. ASSUME NEW h \in Keys, NEW s \in Sigs, stage = "start", ValidateSignature(h, s) PROVE SInv'
  <2>1. words' = <<>> /\ seen' = seen /\ stage' = "start"
    BY <1>1, <1>3, Started DEF script
  <2>2. QED  BY <1>2, <2>1, ElsewhereInv
<1>4. ASSUME NEW t \in Words, WordOf(t), Read(t) PROVE SInv'
  BY <1>1, <1>4, WordInv
<1>5. CASE HashedToPoint
  BY <1>1, <1>5, HashedInv
<1>6. CASE stage # "sending" /\ OutOfGas
  BY <1>1, <1>6, OutOfGasInv
<1>7. CASE stage = "start" /\ Returned
  <2>1. words' = <<>> /\ seen' = seen /\ stage' = "start"
    BY <1>1, <1>7 DEF Returned, script
  <2>2. QED  BY <1>2, <2>1, ElsewhereInv
<1>8. ASSUME NEW tables \in Updates, Update(tables) PROVE SInv'
  <2>1. pc = "idle" /\ UNCHANGED <<pc, key, sig, words, c, result, stage, accountKey, submission, seen, tested>>
    BY <1>1, <1>8 DEF Update, script
  <2>2. QED  BY <2>1, TablesInv
<1>9. CASE MakeImmutable
  <2>1. pc = "idle" /\ UNCHANGED <<pc, key, sig, words, c, result, stage, accountKey, submission, seen, tested>>
    BY <1>1, <1>9 DEF MakeImmutable, script
  <2>2. QED  BY <2>1, TablesInv
<1>10. QED
  BY <1>3, <1>4, <1>5, <1>6, <1>7, <1>8, <1>9 DEF Verifier

(* The simulation starts. *)
LEMMA SimulateInv ==
  ASSUME SInv, Simulate
  PROVE  SInv'
<1>1. /\ UNCHANGED <<accountKey, submission, seen>> /\ stage' = "simulating" /\ tested' = ntt
      /\ ValidateSignature(accountKey, submission[1])
  BY DEF Simulate
<1> DEFINE H == [i \in {0} |-> <<>>]
<1>2. /\ key' = accountKey /\ sig' = submission[1] /\ ntt' = ntt /\ words' = <<>> /\ c' = <<>>
      /\ \/ pc' = "done" /\ result' # Success
         \/ pc' = "hash" /\ WellFormed(accountKey, submission[1])
      /\ pc' # "idle"
  BY <1>1, Started
<1>3. words' \in Seq(Words) /\ seen' \in Seq(Words) /\ Len(words') = 0
  BY <1>1, <1>2, EmptySeq DEF SInv
<1>4. Hashes(H, words') /\ H[Len(words')] = c'
  BY <1>2, <1>3 DEF Hashes
<1>5. Mains' /\ Foretelling'
  BY <1>1, <1>2 DEF Mains, Verifying, Foretelling
<1>6. Simulation'
  <2> HIDE DEF H
  <2>1. \E G : Hashes(G, words') /\ G[Len(words')] = c'
    BY <1>4
  <2>2. ntt' = tested' /\ (pc' = "hash" => WellFormed(key', sig')) /\ (pc' # "hash" => pc' = "done" /\ result' # Success)
    BY <1>1, <1>2
  <2>3. pc' = "hash" \/ result' = Success => WellFormed(key', sig')
    BY <2>2
  <2>4. ~(pc' = "done" /\ result' = Success)
    BY <1>2
  <2>5. QED  BY <2>1, <2>2, <2>3, <2>4 DEF Simulation
<1>7. QED  BY <1>3, <1>5, <1>6 DEF SInv

(* The simulation ends, and the script remembers what it returned. *)
LEMMA SimulatedInv ==
  ASSUME SInv, Simulated
  PROVE  SInv'
<1>1. /\ stage = "simulating" /\ pc = "done" /\ words' = <<>> /\ seen' = words
      /\ UNCHANGED <<accountKey, submission, tested>>
      /\ stage' = IF result = Success THEN "simulated" ELSE "failed"
  BY DEF Simulated, Returned, Success
<1>2. words' \in Seq(Words) /\ seen' \in Seq(Words)
  BY <1>1, EmptySeq DEF SInv
<1>3. CASE result # Success
  BY <1>1, <1>2, <1>3, ElsewhereInv
<1>4. CASE result = Success
  <2>1. PICK H : Hashes(H, words) /\ H[Len(words)] = c
    BY <1>1, <1>4 DEF SInv, Simulation
  <2>2. /\ WellFormed(accountKey, submission[1]) /\ Len(c) = n
        /\ Outcome(accountKey, submission[1], c, tested) = Success
    BY <1>1, <1>4 DEF SInv, Simulation, Mains, Verifying
  <2>3. Simulates(H)'
    BY <1>1, <2>1, <2>2 DEF Simulates
  <2>4. stage' = "simulated"
    BY <1>1, <1>4
  <2>5. Mains' /\ Simulation' /\ Foretelling'
    BY <2>3, <2>4 DEF Mains, Verifying, Simulation, Foretelling
  <2>6. QED  BY <1>2, <2>5 DEF SInv
<1>5. QED  BY <1>3, <1>4

(* The operation is sent, with what was simulated. *)
LEMMA SendInv ==
  ASSUME SInv, Send
  PROVE  SInv'
<1>1. /\ UNCHANGED <<accountKey, submission, seen, tested>> /\ stage = "simulated" /\ stage' = "sending"
      /\ ValidateSignature(accountKey, submission[1])
  BY DEF Send, At
<1>2. PICK H : Simulates(H)
  BY <1>1 DEF SInv, Foretelling
<1>3. /\ key' = accountKey /\ sig' = submission[1] /\ words' = <<>> /\ c' = <<>> /\ pc' = "hash"
  <2>1. WellFormed(accountKey, submission[1])
    BY <1>2 DEF Simulates
  <2>2. QED  BY <1>1, <2>1, Started
<1>4. words' \in Seq(Words) /\ seen' \in Seq(Words) /\ Len(words') = 0 /\ Len(seen') \in Nat
  BY <1>1, <1>3, EmptySeq DEF SInv
<1>5. Simulates(H)'
  BY <1>1, <1>2 DEF Simulates
<1>6. Repeats(H)'
  <2>1. H[0] = <<>>
    BY <1>2 DEF Simulates, Hashes
  <2>2. QED  BY <1>3, <1>4, <2>1 DEF Repeats
<1>7. Mains' /\ Simulation' /\ Foretelling'
  BY <1>1, <1>3, <1>5, <1>6 DEF Mains, Verifying, Simulation, Foretelling
<1>8. QED  BY <1>4, <1>7 DEF SInv

(* The invariant holds before the script has read anything. *)
LEMMA ScriptInitInv == ScriptInit => SInv
<1> SUFFICES ASSUME ScriptInit PROVE SInv
  OBVIOUS
<1>1. words = <<>> /\ seen = <<>> /\ stage = "start"
  BY DEF ScriptInit, Init
<1>2. words \in Seq(Words) /\ seen \in Seq(Words)
  BY <1>1, EmptySeq
<1>3. QED  BY <1>1, <1>2 DEF SInv, Mains, Verifying, Simulation, Foretelling

(* Every step of the script and of the verifier keeps it. *)
LEMMA ScriptNextInv == SInv /\ [ScriptNext]_allVars => SInv'
<1> SUFFICES ASSUME SInv, [ScriptNext]_allVars PROVE SInv'
  OBVIOUS
<1> DEFINE Known == {"simulating", "simulated", "sending"}
<1>1. words \in Seq(Words) /\ seen \in Seq(Words) /\ <<>> \in Seq(Words)
  BY EmptySeq DEF SInv
<1>2. ASSUME UNCHANGED <<words, seen>>, stage' \notin Known PROVE SInv'
  BY <1>1, <1>2, ElsewhereInv
<1>3. CASE Verifier
  BY <1>3, VerifierInv
<1>4. ASSUME NEW h \in Keys, NEW w \in CodeWords, DeployStack(h, w) PROVE SInv'
  BY <1>2, <1>4 DEF DeployStack
<1>5. CASE DeployAccount
  BY <1>2, <1>5 DEF DeployAccount, vars
<1>6. CASE Initialize
  <2>1. stage' \in {"initialized", "failed"} /\ UNCHANGED <<words, seen>>
    BY <1>6 DEF Initialize, vars
  <2>2. QED  BY <1>2, <2>1
<1>7. ASSUME NEW h \in Keys, OtherInitializes(h) PROVE SInv'
  <2>1. stage' = "deployed" /\ UNCHANGED <<words, seen>>
    BY <1>7 DEF OtherInitializes, vars, At
  <2>2. QED  BY <1>2, <2>1
<1>8. ASSUME NEW s2 \in Vectors, Sign(s2) PROVE SInv'
  <2>1. stage' \in {"signed", "hangs"} /\ UNCHANGED <<words, seen>>
    BY <1>8 DEF Sign, vars
  <2>2. QED  BY <1>2, <2>1
<1>9. CASE Simulate
  BY <1>9, SimulateInv
<1>10. CASE Simulated
  BY <1>10, SimulatedInv
<1>11. CASE Send
  BY <1>11, SendInv
<1>12. CASE Mined
  <2>1. stage' = "mined" /\ words' = <<>> /\ seen' = seen
    BY <1>12 DEF Mined, Returned
  <2>2. QED  BY <1>1, <2>1, ElsewhereInv
<1>13. CASE Waited
  <2>1. stage' \in {"succeeded", "failed"} /\ UNCHANGED <<words, seen>>
    BY <1>13 DEF Waited, vars
  <2>2. QED  BY <1>2, <2>1
<1>14. CASE Throws
  BY <1>2, <1>14 DEF Throws, vars
<1>15. ASSUME NEW f \in Files, Decode(f) PROVE SInv'
  <2>1. stage' = "start" /\ UNCHANGED <<words, seen>>
    BY <1>15 DEF Decode, vars, At
  <2>2. QED  BY <1>2, <2>1
<1>16. CASE Printed
  BY <1>16, SameInv DEF Printed, vars
<1>17. CASE UNCHANGED allVars
  BY <1>17, SameInv DEF allVars, vars, script
<1>18. QED
  BY <1>3, <1>4, <1>5, <1>6, <1>7, <1>8, <1>9, <1>10, <1>11, <1>12, <1>13, <1>14, <1>15, <1>16, <1>17
     DEF ScriptNext

(***************************************************************************)
(* What main simulated with success succeeds on the chain, unless the      *)
(* storage of ZKNOX_NTT was changed in between: for every field, key,      *)
(* signature and table, and whoever uses the chain meanwhile.              *)
(***************************************************************************)
THEOREM SimulationTells == ScriptSpec => []SimulationForetells
<1>1. SInv => SimulationForetells
  BY SameHash DEF SimulationForetells, Success
<1>2. QED  BY <1>1, ScriptInitInv, ScriptNextInv, PTL DEF ScriptSpec

---------------------------------------------------------------------------
(***************************************************************************)
(* Sums of integers: what SumFunctionOnSet, defined by recursion over the  *)
(* subsets, comes to is a difference of two totals, which need none.       *)
(***************************************************************************)
Positive(f, S) == Total([x \in S |-> IF f[x] > 0 THEN f[x] ELSE 0])
Negative(f, S) == Total([x \in S |-> IF f[x] < 0 THEN - f[x] ELSE 0])
Signed(f, S) == Positive(f, S) - Negative(f, S)

(* Nothing sums to zero. *)
LEMMA SignedEmpty ==
  ASSUME NEW f
  PROVE  Signed(f, {}) = 0
<1> DEFINE p == [x \in {} |-> IF f[x] > 0 THEN f[x] ELSE 0]
           m == [x \in {} |-> IF f[x] < 0 THEN - f[x] ELSE 0]
<1>0. p \in [{} -> Nat] /\ m \in [{} -> Nat]
  OBVIOUS
<1> HIDE DEF p, m
<1>1. Total(p) = 0 /\ Total(m) = 0
  BY <1>0, TotalZero
<1>2. Positive(f, {}) = 0 /\ Negative(f, {}) = 0
  BY <1>1 DEF Positive, Negative, p, m
<1>3. QED  BY <1>2 DEF Signed

(* Its two parts are natural numbers. *)
LEMMA SignedType ==
  ASSUME NEW S, IsFiniteSet(S), NEW f, \A x \in S : f[x] \in Int
  PROVE  Positive(f, S) \in Nat /\ Negative(f, S) \in Nat /\ Signed(f, S) \in Int
<1> DEFINE p == [x \in S |-> IF f[x] > 0 THEN f[x] ELSE 0]
           m == [x \in S |-> IF f[x] < 0 THEN - f[x] ELSE 0]
<1>1. p \in [S -> Nat] /\ m \in [S -> Nat]
  OBVIOUS
<1> HIDE DEF p, m
<1>2. Total(p) \in Nat /\ Total(m) \in Nat
  BY <1>1, TotalType
<1>3. QED  BY <1>2 DEF Positive, Negative, Signed, p, m

(* One element more adds its value: to one part or to the other. *)
LEMMA SignedAdded ==
  ASSUME NEW S, IsFiniteSet(S), NEW f, NEW x, x \notin S,
         \A y \in S \cup {x} : f[y] \in Int
  PROVE  Signed(f, S \cup {x}) = f[x] + Signed(f, S)
<1> DEFINE p == [y \in S |-> IF f[y] > 0 THEN f[y] ELSE 0]
           m == [y \in S |-> IF f[y] < 0 THEN - f[y] ELSE 0]
           px == [y \in S \cup {x} |-> IF f[y] > 0 THEN f[y] ELSE 0]
           mx == [y \in S \cup {x} |-> IF f[y] < 0 THEN - f[y] ELSE 0]
<1>1. p \in [S -> Nat] /\ m \in [S -> Nat]
  OBVIOUS
<1>2. px \in [S \cup {x} -> Nat] /\ mx \in [S \cup {x} -> Nat]
  OBVIOUS
<1>3. \A y \in S : px[y] = p[y] /\ mx[y] = m[y]
  OBVIOUS
<1>4. px[x] - mx[x] = f[x] /\ px[x] \in Nat /\ mx[x] \in Nat
  OBVIOUS
<1> HIDE DEF p, m, px, mx
<1>5. Total(px) = Total(p) + px[x]
  BY <1>1, <1>2, <1>3, TotalAdded
<1>6. Total(mx) = Total(m) + mx[x]
  BY <1>1, <1>2, <1>3, TotalAdded
<1>7. Total(p) \in Nat /\ Total(m) \in Nat
  BY <1>1, TotalType
<1>8. /\ Signed(f, S \cup {x}) = Total(px) - Total(mx)
      /\ Signed(f, S) = Total(p) - Total(m)
  BY DEF Signed, Positive, Negative, p, m, px, mx
<1>9. QED  BY <1>4, <1>5, <1>6, <1>7, <1>8

(* The recursion of a sum, and its only solution. *)
Sums(g, f, S) ==
  g = [T \in SUBSET S |-> IF T = {} THEN 0
                          ELSE f[CHOOSE x \in T : TRUE] + g[T \ {CHOOSE x \in T : TRUE}]]

(* The sums of all subsets satisfy the equations of the fold. *)
LEMMA SumsExist ==
  ASSUME NEW S, IsFiniteSet(S), NEW f, \A x \in S : f[x] \in Int
  PROVE  Sums([T \in SUBSET S |-> Signed(f, T)], f, S)
<1> DEFINE g == [T \in SUBSET S |-> Signed(f, T)]
<1>1. ASSUME NEW T \in SUBSET S
      PROVE  g[T] = IF T = {} THEN 0
                    ELSE f[CHOOSE x \in T : TRUE] + g[T \ {CHOOSE x \in T : TRUE}]
  <2>1. CASE T = {}
    BY <2>1, SignedEmpty
  <2>2. CASE T # {}
    <3> DEFINE x == CHOOSE y \in T : TRUE
               R == T \ {x}
    <3>1. x \in T
      BY <2>2
    <3> HIDE DEF x
    <3>2. R \in SUBSET S /\ x \notin R /\ R \cup {x} = T
      BY <3>1
    <3>3. IsFiniteSet(R)
      BY <3>2, FS_Subset
    <3>4. \A y \in R \cup {x} : f[y] \in Int
      BY <3>2
    <3> HIDE DEF R
    <3>5. Signed(f, R \cup {x}) = f[x] + Signed(f, R)
      BY <3>2, <3>3, <3>4, SignedAdded
    <3>6. g[T] = f[x] + g[R]
      BY <3>2, <3>5
    <3>7. QED  BY <2>2, <3>6 DEF R, x
  <2>3. QED  BY <2>1, <2>2
<1>2. QED  BY <1>1 DEF Sums

(* And no others do. *)
LEMMA SumsUnique ==
  ASSUME NEW S, IsFiniteSet(S), NEW f, NEW g, NEW h, Sums(g, f, S), Sums(h, f, S)
  PROVE  g[S] = h[S]
<1> DEFINE K == {k \in Nat : \A T \in SUBSET S : Cardinality(T) = k => g[T] = h[T]}
<1>1. 0 \in K
  <2>1. \A T \in SUBSET S : Cardinality(T) = 0 => T = {}
    BY FS_Subset, FS_EmptySet
  <2>2. g[{}] = 0 /\ h[{}] = 0
    BY DEF Sums
  <2>3. QED  BY <2>1, <2>2
<1>2. ASSUME NEW k \in Nat, k \in K PROVE k + 1 \in K
  <2> SUFFICES ASSUME NEW T \in SUBSET S, Cardinality(T) = k + 1 PROVE g[T] = h[T]
    OBVIOUS
  <2>1. T # {} /\ IsFiniteSet(T)
    BY FS_Subset, FS_EmptySet
  <2> DEFINE x == CHOOSE y \in T : TRUE
             R == T \ {x}
  <2>2. g[T] = f[x] + g[R] /\ h[T] = f[x] + h[R]
    BY <2>1 DEF Sums
  <2>3. x \in T
    BY <2>1
  <2> HIDE DEF x
  <2>4. Cardinality(R) = Cardinality(T) - 1 /\ R \in SUBSET S
    BY <2>1, <2>3, FS_RemoveElement
  <2>5. Cardinality(R) = k
    BY <2>4
  <2>6. g[R] = h[R]
    BY <1>2, <2>4, <2>5
  <2>7. QED  BY <2>2, <2>6
<1> HIDE DEF K
<1>3. Nat \subseteq K
  BY <1>1, <1>2, Induction
<1>4. Cardinality(S) \in Nat
  BY FS_CardinalityType
<1>5. QED  BY <1>3, <1>4 DEF K

(* So the fold over the integers, that the library leaves open, is this sum. *)
LEMMA SumIsSigned ==
  ASSUME NEW S, IsFiniteSet(S), NEW f, \A x \in S : f[x] \in Int
  PROVE  SumFunctionOnSet(f, S) = Signed(f, S)
<1> DEFINE g == [T \in SUBSET S |-> Signed(f, T)]
           iter == CHOOSE h : Sums(h, f, S)
<1>1. Sums(g, f, S)
  BY SumsExist
<1>2. Sums(iter, f, S)
  BY <1>1
<1>3. SumFunctionOnSet(f, S) = iter[S]
  BY DEF SumFunctionOnSet, FoldFunctionOnSet, MapThenFoldSet, Sums
<1> HIDE DEF g, iter
<1>4. iter[S] = g[S]
  BY <1>1, <1>2, SumsUnique
<1>5. g[S] = Signed(f, S)
  BY DEF g
<1>6. QED  BY <1>3, <1>4, <1>5

---------------------------------------------------------------------------
(***************************************************************************)
(* Arithmetic modulo q.                                                    *)
(***************************************************************************)
Cong(x, y) == \E z \in Int : x = y + z * q

(* The sizes that the arithmetic needs. *)
LEMMA Field == q \in Nat \ {0} /\ n \in Nat \ {0}
BY FalconAssumption DEF FalconAssumption

(* Congruence is an equivalence, *)
LEMMA CongRefl ==
  ASSUME NEW x \in Int
  PROVE  Cong(x, x)
<1>1. x = x + 0 * q
  BY Field
<1>2. QED  BY <1>1 DEF Cong

(* in both directions, *)
LEMMA CongSym ==
  ASSUME NEW x \in Int, NEW y \in Int, Cong(x, y)
  PROVE  Cong(y, x)
<1>1. PICK z \in Int : x = y + z * q
  BY DEF Cong
<1>2. y = x + (- z) * q /\ - z \in Int
  BY <1>1, Field
<1>3. QED  BY <1>2 DEF Cong

(* and from one to the next. *)
LEMMA CongTrans ==
  ASSUME NEW x \in Int, NEW y \in Int, NEW w \in Int, Cong(x, y), Cong(y, w)
  PROVE  Cong(x, w)
<1>1. PICK z \in Int : x = y + z * q
  BY DEF Cong
<1>2. PICK u \in Int : y = w + u * q
  BY DEF Cong
<1>3. x = w + (z + u) * q /\ z + u \in Int
  BY <1>1, <1>2, Field
<1>4. QED  BY <1>3 DEF Cong

(* It is kept by sums and differences, *)
LEMMA CongAdd ==
  ASSUME NEW x \in Int, NEW y \in Int, NEW v \in Int, NEW w \in Int, Cong(x, y), Cong(v, w)
  PROVE  Cong(x + v, y + w) /\ Cong(x - v, y - w)
<1>1. PICK z \in Int : x = y + z * q
  BY DEF Cong
<1>2. PICK u \in Int : v = w + u * q
  BY DEF Cong
<1>3. x + v = (y + w) + (z + u) * q /\ z + u \in Int
  BY <1>1, <1>2, Field
<1>4. x - v = (y - w) + (z - u) * q /\ z - u \in Int
  BY <1>1, <1>2, Field
<1>5. QED  BY <1>3, <1>4 DEF Cong

(* by products, *)
LEMMA CongMul ==
  ASSUME NEW x \in Int, NEW y \in Int, NEW v \in Int, NEW w \in Int, Cong(x, y), Cong(v, w)
  PROVE  Cong(x * v, y * w)
<1>1. PICK z \in Int : x = y + z * q
  BY DEF Cong
<1>2. PICK u \in Int : v = w + u * q
  BY DEF Cong
<1> DEFINE e == y * u + z * w + z * u * q
<1>3. e \in Int
  BY Field
<1>4. x * v = y * w + e * q
  BY <1>1, <1>2, Field
<1>5. QED  BY <1>3, <1>4 DEF Cong

(* by a factor or a summand on both sides, *)
LEMMA CongScale ==
  ASSUME NEW c0 \in Int, NEW x \in Int, NEW y \in Int, Cong(x, y)
  PROVE  /\ c0 * x \in Int /\ c0 * y \in Int /\ Cong(c0 * x, c0 * y)
         /\ Cong(x * c0, y * c0) /\ Cong(c0 + x, c0 + y)
<1>1. PICK z \in Int : x = y + z * q
  BY DEF Cong
<1>2. c0 * z \in Int /\ c0 * x = c0 * y + (c0 * z) * q
  BY <1>1, Field
<1>3. x * c0 = y * c0 + (c0 * z) * q
  BY <1>1, Field
<1>4. c0 + x = (c0 + y) + z * q
  BY <1>1, Field
<1>5. QED  BY <1>1, <1>2, <1>3, <1>4 DEF Cong

(* and by doubling. *)
LEMMA CongTwice ==
  ASSUME NEW x \in Int, NEW y \in Int, Cong(x, y)
  PROVE  Cong(2 * x, 2 * y)
<1>1. PICK z \in Int : x = y + z * q
  BY DEF Cong
<1>2. 2 * z \in Int /\ 2 * x = 2 * y + (2 * z) * q
  BY <1>1, Field
<1>3. QED  BY <1>2 DEF Cong

(* A remainder is congruent to its number, *)
LEMMA CongMod ==
  ASSUME NEW x \in Int
  PROVE  x % q \in 0..(q - 1) /\ Cong(x % q, x)
<1>1. x % q \in 0..(q - 1) /\ x \div q \in Int /\ x = (x \div q) * q + (x % q)
  BY Field
<1>2. x % q = x + (- (x \div q)) * q /\ - (x \div q) \in Int
  BY <1>1, Field
<1>3. QED  BY <1>1, <1>2 DEF Cong

(* congruent remainders are equal, *)
LEMMA CongEqual ==
  ASSUME NEW x \in 0..(q - 1), NEW y \in 0..(q - 1), Cong(x, y)
  PROVE  x = y
<1>1. PICK z \in Int : x = y + z * q
  BY DEF Cong
<1>2. ~(z >= 1)
  <2> SUFFICES ASSUME z >= 1 PROVE FALSE
    OBVIOUS
  <2>1. (z - 1) * q >= 0 /\ z * q = (z - 1) * q + q
    BY Field
  <2>2. QED  BY <1>1, <2>1, Field
<1>3. ~(z <= -1)
  <2> SUFFICES ASSUME z <= -1 PROVE FALSE
    OBVIOUS
  <2>1. (- z - 1) * q >= 0 /\ z * q = - ((- z - 1) * q + q)
    BY Field
  <2>2. QED  BY <1>1, <2>1, Field
<1>4. z = 0
  BY <1>2, <1>3
<1>5. QED  BY <1>1, <1>4, Field

(* and congruent numbers have the same remainder. *)
LEMMA CongSame ==
  ASSUME NEW x \in Int, NEW y \in Int, Cong(x, y)
  PROVE  x % q = y % q
<1> DEFINE a == x % q
           b == y % q
<1>1. a \in 0..(q - 1) /\ Cong(a, x) /\ b \in 0..(q - 1) /\ Cong(b, y)
  BY CongMod
<1>2. a \in Int /\ b \in Int
  BY <1>1
<1> HIDE DEF a, b
<1>3. Cong(a, y)
  BY <1>1, <1>2, CongTrans
<1>4. Cong(y, b)
  BY <1>1, <1>2, CongSym
<1>5. Cong(a, b)
  BY <1>2, <1>3, <1>4, CongTrans
<1>6. QED  BY <1>1, <1>5, CongEqual DEF a, b

---------------------------------------------------------------------------
(***************************************************************************)
(* Sums of the first numbers of a function.                                *)
(***************************************************************************)
Sigma(f, k) == SumFunctionOnSet(f, 0..(k - 1))

(* The empty sum. *)
LEMMA SigmaZero ==
  ASSUME NEW f
  PROVE  Sigma(f, 0) = 0
<1>1. 0..(0 - 1) = {} /\ IsFiniteSet({})
  BY FS_EmptySet
<1>2. SumFunctionOnSet(f, {}) = Signed(f, {})
  BY <1>1, SumIsSigned
<1>3. QED  BY <1>1, <1>2, SignedEmpty DEF Sigma

(* One summand more. *)
LEMMA SigmaNext ==
  ASSUME NEW k \in Nat, NEW f, \A i \in 0..k : f[i] \in Int
  PROVE  Sigma(f, k + 1) = Sigma(f, k) + f[k]
<1> DEFINE S == 0..(k - 1)
<1>0. IsFiniteSet(S)
  BY FS_Interval
<1>1. IsFiniteSet(S) /\ IsFiniteSet(S \cup {k})
  <2> HIDE DEF S
  <2>1. QED  BY <1>0, FS_AddElement
<1>2. 0..(k + 1 - 1) = S \cup {k} /\ k \notin S
  OBVIOUS
<1>3. \A y \in S \cup {k} : f[y] \in Int
  OBVIOUS
<1>4. \A y \in S : f[y] \in Int
  OBVIOUS
<1> HIDE DEF S
<1>5. SumFunctionOnSet(f, S) = Signed(f, S) /\ Signed(f, S) \in Int
  BY <1>1, <1>4, SumIsSigned, SignedType
<1>6. SumFunctionOnSet(f, S \cup {k}) = Signed(f, S \cup {k})
  BY <1>1, <1>3, SumIsSigned
<1>7. Signed(f, S \cup {k}) = f[k] + Signed(f, S)
  BY <1>1, <1>2, <1>3, SignedAdded
<1>8. Sigma(f, k + 1) = SumFunctionOnSet(f, S \cup {k})
  <2>1. Sigma(f, k + 1) = SumFunctionOnSet(f, 0..(k + 1 - 1))
    BY DEF Sigma
  <2>2. QED  BY <1>2, <2>1, Zenon
<1>9. Sigma(f, k) = SumFunctionOnSet(f, S)
  BY Zenon DEF Sigma, S
<1>10. f[k] \in Int
  OBVIOUS
<1>11. QED  BY <1>5, <1>6, <1>7, <1>8, <1>9, <1>10

(* A sum of integers is one. *)
LEMMA SigmaInt ==
  ASSUME NEW k \in Nat, NEW f, \A i \in 0..(k - 1) : f[i] \in Int
  PROVE  Sigma(f, k) \in Int
<1> DEFINE S == 0..(k - 1)
<1>1. IsFiniteSet(S) /\ \A i \in S : f[i] \in Int
  BY FS_Interval
<1> HIDE DEF S
<1>2. SumFunctionOnSet(f, S) = Signed(f, S) /\ Signed(f, S) \in Int
  BY <1>1, SumIsSigned, SignedType
<1>3. Sigma(f, k) = SumFunctionOnSet(f, S)
  BY Zenon DEF Sigma, S
<1>4. QED  BY <1>2, <1>3

(* Sums of congruent summands are congruent. *)
LEMMA SigmaCong ==
  ASSUME NEW k \in Nat, NEW f, NEW g,
         \A i \in 0..(k - 1) : f[i] \in Int /\ g[i] \in Int /\ Cong(f[i], g[i])
  PROVE  Cong(Sigma(f, k), Sigma(g, k))
<1> DEFINE T == {l \in Nat : l <= k => Cong(Sigma(f, l), Sigma(g, l))}
<1>1. 0 \in T
  BY SigmaZero, CongRefl
<1>2. ASSUME NEW l \in Nat, l \in T PROVE l + 1 \in T
  <2> SUFFICES ASSUME l + 1 <= k PROVE Cong(Sigma(f, l + 1), Sigma(g, l + 1))
    OBVIOUS
  <2>1. \A i \in 0..l : f[i] \in Int /\ g[i] \in Int /\ Cong(f[i], g[i])
    OBVIOUS
  <2>2. Sigma(f, l + 1) = Sigma(f, l) + f[l] /\ Sigma(g, l + 1) = Sigma(g, l) + g[l]
    BY <2>1, SigmaNext
  <2>3. Sigma(f, l) \in Int /\ Sigma(g, l) \in Int
    BY <2>1, SigmaInt
  <2>4. Cong(Sigma(f, l), Sigma(g, l))
    BY <1>2
  <2>5. f[l] \in Int /\ g[l] \in Int /\ Cong(f[l], g[l])
    BY <2>1
  <2>6. Cong(Sigma(f, l) + f[l], Sigma(g, l) + g[l])
    BY <2>3, <2>4, <2>5, CongAdd
  <2>7. QED  BY <2>2, <2>6
<1> HIDE DEF T
<1>3. Nat \subseteq T
  BY <1>1, <1>2, Induction
<1>4. QED  BY <1>3 DEF T

(* Sums of the same summands are the same. *)
LEMMA SigmaSame ==
  ASSUME NEW k \in Nat, NEW f, NEW g, \A i \in 0..(k - 1) : f[i] \in Int /\ f[i] = g[i]
  PROVE  Sigma(f, k) = Sigma(g, k)
<1> DEFINE T == {l \in Nat : l <= k => Sigma(f, l) = Sigma(g, l)}
<1>1. 0 \in T
  BY SigmaZero
<1>2. ASSUME NEW l \in Nat, l \in T PROVE l + 1 \in T
  <2> SUFFICES ASSUME l + 1 <= k PROVE Sigma(f, l + 1) = Sigma(g, l + 1)
    OBVIOUS
  <2>1. \A i \in 0..l : f[i] \in Int /\ g[i] \in Int /\ f[i] = g[i]
    OBVIOUS
  <2>2. Sigma(f, l + 1) = Sigma(f, l) + f[l] /\ Sigma(g, l + 1) = Sigma(g, l) + g[l]
    BY <2>1, SigmaNext
  <2>3. QED  BY <1>2, <2>1, <2>2
<1> HIDE DEF T
<1>3. Nat \subseteq T
  BY <1>1, <1>2, Induction
<1>4. QED  BY <1>3 DEF T

(* Two sums, taken together, with weights. *)
LEMMA SigmaLinear ==
  ASSUME NEW k \in Nat, NEW f, NEW g, NEW h, NEW x \in Int, NEW y \in Int,
         \A i \in 0..(k - 1) : f[i] \in Int /\ g[i] \in Int /\ h[i] = x * f[i] + y * g[i]
  PROVE  Sigma(h, k) = x * Sigma(f, k) + y * Sigma(g, k)
<1> DEFINE T == {l \in Nat : l <= k => Sigma(h, l) = x * Sigma(f, l) + y * Sigma(g, l)}
<1>1. 0 \in T
  BY SigmaZero
<1>2. ASSUME NEW l \in Nat, l \in T PROVE l + 1 \in T
  <2> SUFFICES ASSUME l + 1 <= k PROVE Sigma(h, l + 1) = x * Sigma(f, l + 1) + y * Sigma(g, l + 1)
    OBVIOUS
  <2> DEFINE F == Sigma(f, l)
             G == Sigma(g, l)
  <2>1. \A i \in 0..l : f[i] \in Int /\ g[i] \in Int /\ h[i] \in Int /\ h[i] = x * f[i] + y * g[i]
    OBVIOUS
  <2>2. Sigma(f, l + 1) = F + f[l] /\ Sigma(g, l + 1) = G + g[l] /\ Sigma(h, l + 1) = Sigma(h, l) + h[l]
    BY <2>1, SigmaNext
  <2>3. F \in Int /\ G \in Int
    BY <2>1, SigmaInt
  <2>4. Sigma(h, l) = x * F + y * G
    BY <1>2
  <2>5. f[l] \in Int /\ g[l] \in Int /\ h[l] = x * f[l] + y * g[l]
    BY <2>1
  <2> HIDE DEF F, G
  <2>6. (x * F + y * G) + (x * f[l] + y * g[l]) = x * (F + f[l]) + y * (G + g[l])
    BY <2>3, <2>5
  <2>7. QED  BY <2>2, <2>4, <2>5, <2>6
<1> HIDE DEF T
<1>3. Nat \subseteq T
  BY <1>1, <1>2, Induction
<1>4. QED  BY <1>3 DEF T

(* A sum of k + l numbers is one of k and one of l. *)
LEMMA SigmaSplit ==
  ASSUME NEW k \in Nat, NEW l \in Nat, NEW f, NEW g, \A i \in 0..(k + l - 1) : f[i] \in Int,
         \A i \in 0..(l - 1) : g[i] = f[k + i]
  PROVE  Sigma(f, k + l) = Sigma(f, k) + Sigma(g, l)
<1> DEFINE T == {j \in Nat : j <= l => Sigma(f, k + j) = Sigma(f, k) + Sigma(g, j)}
<1>0. Sigma(f, k) \in Int
  BY SigmaInt
<1>1. 0 \in T
  BY <1>0, SigmaZero
<1>2. ASSUME NEW j \in Nat, j \in T PROVE j + 1 \in T
  <2> SUFFICES ASSUME j + 1 <= l PROVE Sigma(f, k + (j + 1)) = Sigma(f, k) + Sigma(g, j + 1)
    OBVIOUS
  <2>1. \A i \in 0..(k + j) : f[i] \in Int
    OBVIOUS
  <2>2. \A i \in 0..j : g[i] = f[k + i] /\ g[i] \in Int
    OBVIOUS
  <2>3. Sigma(f, (k + j) + 1) = Sigma(f, k + j) + f[k + j]
    BY <2>1, SigmaNext
  <2>4. Sigma(g, j + 1) = Sigma(g, j) + g[j] /\ Sigma(g, j) \in Int
    BY <2>2, SigmaNext, SigmaInt
  <2>5. (k + j) + 1 = k + (j + 1)
    OBVIOUS
  <2>6. Sigma(f, k + j) = Sigma(f, k) + Sigma(g, j)
    BY <1>2
  <2>7. QED  BY <1>0, <2>2, <2>3, <2>4, <2>5, <2>6
<1> HIDE DEF T
<1>3. Nat \subseteq T
  BY <1>1, <1>2, Induction
<1>4. QED  BY <1>3 DEF T

---------------------------------------------------------------------------
(***************************************************************************)
(* One butterfly: two polynomials a0 + a1*Y and b0 + b1*Y, where Y stands  *)
(* for X^t and r is a square root of w, the value of Y^2.                  *)
(***************************************************************************)
LEMMA Butterfly ==
  ASSUME NEW r \in Int, NEW w \in Int, Cong(r * r, w),
         NEW a0 \in Int, NEW a1 \in Int, NEW b0 \in Int, NEW b1 \in Int,
         NEW ap \in Int, NEW am \in Int, NEW bp \in Int, NEW bm \in Int,
         Cong(ap, a0 + r * a1), Cong(am, a0 - r * a1),
         Cong(bp, b0 + r * b1), Cong(bm, b0 - r * b1)
  PROVE  /\ Cong(ap * bp + am * bm, 2 * (a0 * b0 + w * (a1 * b1)))
         /\ Cong(ap * bp - am * bm, 2 * r * (a0 * b1 + a1 * b0))
         /\ Cong(r * (ap * bp) - r * (am * bm), 2 * (w * (a0 * b1) + w * (a1 * b0)))
         /\ Cong(r * (ap * bp) + r * (am * bm), 2 * r * (a0 * b0 + w * (a1 * b1)))
<1> DEFINE P == (a0 + r * a1) * (b0 + r * b1)
           M == (a0 - r * a1) * (b0 - r * b1)
           p == ap * bp
           m == am * bm
           s == r * r
           X == a1 * b1
           Y == a0 * b1 + a1 * b0
           Z == a0 * b0
<1>1. Cong(p, P) /\ Cong(m, M)
  BY CongMul
<1>2. /\ P \in Int /\ M \in Int /\ p \in Int /\ m \in Int
      /\ s \in Int /\ X \in Int /\ Y \in Int /\ Z \in Int
  OBVIOUS
<1>3. P = Z + s * X + r * Y /\ M = Z + s * X - r * Y
  OBVIOUS
<1>4. w * (a0 * b1) + w * (a1 * b0) = w * Y
  OBVIOUS
<1>5. Cong(s, w)
  OBVIOUS
<1> HIDE DEF P, M, p, m, s, X, Y, Z
<1>6. Cong(s * X, w * X) /\ Cong(s * Y, w * Y) /\ s * X \in Int /\ w * X \in Int /\ s * Y \in Int /\ w * Y \in Int
  <2>1. s * X \in Int /\ w * X \in Int /\ s * Y \in Int /\ w * Y \in Int
    BY <1>2
  <2>2. Cong(s * X, w * X)
    BY <1>2, <1>5, CongScale
  <2>3. Cong(s * Y, w * Y)
    BY <1>2, <1>5, CongScale
  <2>4. QED  BY <2>1, <2>2, <2>3
<1>7. Cong(p + m, P + M) /\ Cong(p - m, P - M)
  BY <1>1, <1>2, CongAdd
<1>8. Cong(r * p, r * P) /\ Cong(r * m, r * M) /\ r * p \in Int /\ r * P \in Int /\ r * m \in Int /\ r * M \in Int
  BY <1>1, <1>2, CongScale
<1>9. Cong(r * p - r * m, r * P - r * M) /\ Cong(r * p + r * m, r * P + r * M)
  BY <1>8, CongAdd
<1>10. Cong(p + m, 2 * (Z + w * X))
  <2>1. P + M = 2 * Z + 2 * (s * X)
    BY <1>2, <1>3
  <2>2. Cong(2 * Z + 2 * (s * X), 2 * Z + 2 * (w * X))
    <3> DEFINE U == s * X
               V == w * X
               c0 == 2 * Z
    <3>1. U \in Int /\ V \in Int /\ Cong(U, V) /\ c0 \in Int
      BY <1>2, <1>6
    <3> HIDE DEF U, V, c0
    <3>2. Cong(2 * U, 2 * V) /\ 2 * U \in Int /\ 2 * V \in Int
      BY <3>1, CongTwice
    <3>3. Cong(c0 + 2 * U, c0 + 2 * V)
      BY <3>1, <3>2, CongScale
    <3>4. QED  BY <3>3 DEF U, V, c0
  <2>3. 2 * Z + 2 * (w * X) = 2 * (Z + w * X)
    BY <1>2
  <2>4. P + M \in Int /\ p + m \in Int /\ 2 * (Z + w * X) \in Int
    BY <1>2
  <2>5. QED  BY <1>7, <2>1, <2>2, <2>3, <2>4, CongTrans
<1>11. p - m \in Int /\ P - M = 2 * r * Y
  BY <1>2, <1>3
<1>12. Cong(p - m, 2 * r * Y)
  BY <1>7, <1>11
<1>13. Cong(r * p - r * m, 2 * (w * Y))
  <2>1. r * P - r * M = 2 * (s * Y)
    BY <1>2, <1>3 DEF s
  <2>2. Cong(2 * (s * Y), 2 * (w * Y))
    <3> DEFINE U == s * Y
               V == w * Y
    <3> HIDE DEF U, V
    <3>1. U \in Int /\ V \in Int /\ Cong(U, V)
      BY <1>6 DEF U, V
    <3>2. Cong(2 * U, 2 * V)
      BY <3>1, CongTwice
    <3>3. QED  BY <3>2 DEF U, V
  <2>3. r * p - r * m \in Int /\ 2 * (s * Y) \in Int /\ 2 * (w * Y) \in Int
    BY <1>6, <1>8
  <2>4. QED  BY <1>9, <2>1, <2>2, <2>3, CongTrans
<1>14. Cong(r * p + r * m, 2 * r * (Z + w * X))
  <2> DEFINE U == Z + s * X
             V == Z + w * X
  <2>1. r * P + r * M = 2 * r * U
    BY <1>2, <1>3
  <2>2. Cong(U, V) /\ U \in Int /\ V \in Int
    <3> DEFINE SX == s * X
               WX == w * X
    <3>1. SX \in Int /\ WX \in Int /\ Cong(SX, WX)
      BY <1>6
    <3> HIDE DEF SX, WX
    <3>2. Z + SX \in Int /\ Z + WX \in Int
      BY <1>2, <3>1
    <3>3. Cong(Z, Z)
      BY <1>2, CongRefl
    <3>4. Cong(Z + SX, Z + WX)
      BY <1>2, <3>1, <3>3, CongAdd
    <3>5. QED  BY <3>2, <3>4 DEF SX, WX
  <2> HIDE DEF U, V
  <2>3. Cong(2 * r * U, 2 * r * V)
    <3> DEFINE c0 == 2 * r
    <3>1. c0 \in Int
      OBVIOUS
    <3> HIDE DEF c0
    <3>2. Cong(c0 * U, c0 * V)
      BY <2>2, <3>1, CongScale
    <3>3. QED  BY <3>2 DEF c0
  <2>4. r * p + r * m \in Int /\ 2 * r * U \in Int /\ 2 * r * V \in Int
    BY <1>8, <2>2
  <2>5. QED  BY <1>9, <2>1, <2>3, <2>4, CongTrans DEF V
<1>15. QED
  BY <1>4, <1>10, <1>12, <1>13, <1>14 DEF p, m, X, Y, Z

(***************************************************************************)
(* The product of two polynomials modulo X^t - w, whose coefficients are   *)
(* those of a and b from position s on.                                    *)
(***************************************************************************)
Part(a, b, w, t, s, l) ==
  [x \in 0..(t - 1) |-> IF x <= l THEN a[s + x] * b[s + (l - x)]
                                  ELSE w * (a[s + x] * b[s + (l - x + t)])]

Cyclic(a, b, w, t, s, l) == Sigma(Part(a, b, w, t, s, l), t)

(* The summands of a coefficient of a product are integers, *)
LEMMA PartInt ==
  ASSUME NEW t \in Nat, NEW s \in Nat, NEW w \in Int, NEW l \in 0..(t - 1), NEW a, NEW b,
         \A j \in s..(s + t - 1) : a[j] \in Int /\ b[j] \in Int
  PROVE  \A x \in 0..(t - 1) : Part(a, b, w, t, s, l)[x] \in Int
<1> SUFFICES ASSUME NEW x \in 0..(t - 1) PROVE Part(a, b, w, t, s, l)[x] \in Int
  OBVIOUS
<1>1. s + x \in s..(s + t - 1)
  OBVIOUS
<1>2. x <= l => s + (l - x) \in s..(s + t - 1)
  OBVIOUS
<1>3. ~(x <= l) => s + (l - x + t) \in s..(s + t - 1)
  OBVIOUS
<1>4. QED  BY <1>1, <1>2, <1>3 DEF Part

(* and so is the coefficient. *)
LEMMA CyclicInt ==
  ASSUME NEW t \in Nat, NEW s \in Nat, NEW w \in Int, NEW l \in 0..(t - 1), NEW a, NEW b,
         \A j \in s..(s + t - 1) : a[j] \in Int /\ b[j] \in Int
  PROVE  Cyclic(a, b, w, t, s, l) \in Int
BY PartInt, SigmaInt DEF Cyclic

(* The polynomials ap and bp are the halves of a and b, as a pass leaves them. *)
Halved(ap, a, r, t, s) ==
  \A x \in 0..(t - 1) :
    /\ a[s + x] \in Int /\ a[s + t + x] \in Int /\ ap[s + x] \in Int /\ ap[s + t + x] \in Int
    /\ Cong(ap[s + x], a[s + x] + r * a[s + t + x])
    /\ Cong(ap[s + t + x], a[s + x] - r * a[s + t + x])

(* Both halves of a coefficient of the product, added and subtracted. *)
LEMMA Halves ==
  ASSUME NEW t \in Nat \ {0}, NEW s \in Nat, NEW r \in Int, NEW w \in Int, Cong(r * r, w),
         NEW a, NEW b, NEW ap, NEW bp, Halved(ap, a, r, t, s), Halved(bp, b, r, t, s),
         NEW l \in 0..(t - 1), NEW x \in 0..(t - 1)
  PROVE  LET f == Part(ap, bp, r, t, s, l)
             g == Part(ap, bp, - r, t, s + t, l)
             low == Part(a, b, w, 2 * t, s, l)
             high == Part(a, b, w, 2 * t, s, t + l)
         IN  /\ f[x] \in Int /\ g[x] \in Int
             /\ low[x] \in Int /\ low[t + x] \in Int /\ high[x] \in Int /\ high[t + x] \in Int
             /\ Cong(f[x] + g[x], 2 * (low[x] + low[t + x]))
             /\ Cong(f[x] - g[x], 2 * r * (high[x] + high[t + x]))
<1> DEFINE f == Part(ap, bp, r, t, s, l)
           g == Part(ap, bp, - r, t, s + t, l)
           low == Part(a, b, w, 2 * t, s, l)
           high == Part(a, b, w, 2 * t, s, t + l)
           y == IF x <= l THEN l - x ELSE l - x + t
           a0 == a[s + x]
           a1 == a[s + t + x]
           b0 == b[s + y]
           b1 == b[s + t + y]
           p == ap[s + x]
           m == ap[s + t + x]
           u == bp[s + y]
           v == bp[s + t + y]
<1>1. y \in 0..(t - 1)
  OBVIOUS
<1> HIDE DEF y
<1>2. /\ a0 \in Int /\ a1 \in Int /\ p \in Int /\ m \in Int
      /\ Cong(p, a0 + r * a1) /\ Cong(m, a0 - r * a1)
  BY DEF Halved
<1>3. /\ b0 \in Int /\ b1 \in Int /\ u \in Int /\ v \in Int
      /\ Cong(u, b0 + r * b1) /\ Cong(v, b0 - r * b1)
  BY <1>1 DEF Halved
<1>4. /\ x \in 0..(2 * t - 1) /\ t + x \in 0..(2 * t - 1)
      /\ s + (t + x) = s + t + x
  OBVIOUS
<1> HIDE DEF a0, a1, b0, b1, p, m, u, v
<1>5. /\ Cong(p * u + m * v, 2 * (a0 * b0 + w * (a1 * b1)))
      /\ Cong(p * u - m * v, 2 * r * (a0 * b1 + a1 * b0))
      /\ Cong(r * (p * u) - r * (m * v), 2 * (w * (a0 * b1) + w * (a1 * b0)))
      /\ Cong(r * (p * u) + r * (m * v), 2 * r * (a0 * b0 + w * (a1 * b1)))
  BY <1>2, <1>3, Butterfly
<1>6. CASE x <= l
  <2>1. f[x] = p * u /\ g[x] = m * v
    BY <1>6 DEF Part, p, u, m, v, y
  <2>2. low[x] = a0 * b0
    BY <1>4, <1>6 DEF Part, a0, b0, y
  <2>3. low[t + x] = w * (a1 * b1)
    <3>1. ~(t + x <= l) /\ s + (l - (t + x) + 2 * t) = s + t + (l - x)
      BY <1>6
    <3>2. QED  BY <1>4, <1>6, <3>1 DEF Part, a1, b1, y
  <2>4. high[x] = a0 * b1
    <3>1. x <= t + l /\ s + (t + l - x) = s + t + (l - x)
      BY <1>6
    <3>2. QED  BY <1>4, <1>6, <3>1 DEF Part, a0, b1, y
  <2>5. high[t + x] = a1 * b0
    <3>1. t + x <= t + l /\ s + (t + l - (t + x)) = s + (l - x)
      BY <1>6
    <3>2. QED  BY <1>4, <1>6, <3>1 DEF Part, a1, b0, y
  <2> HIDE DEF f, g, low, high
  <2>6. QED  BY <1>2, <1>3, <1>5, <2>1, <2>2, <2>3, <2>4, <2>5 DEF f, g, low, high
<1>7. CASE ~(x <= l)
  <2>1. f[x] = r * (p * u) /\ g[x] = (- r) * (m * v)
    BY <1>7 DEF Part, p, u, m, v, y
  <2>2. low[x] = w * (a0 * b1)
    <3>1. s + (l - x + 2 * t) = s + t + (l - x + t)
      OBVIOUS
    <3>2. QED  BY <1>4, <1>7, <3>1 DEF Part, a0, b1, y
  <2>3. low[t + x] = w * (a1 * b0)
    <3>1. ~(t + x <= l) /\ s + (l - (t + x) + 2 * t) = s + (l - x + t)
      BY <1>7
    <3>2. QED  BY <1>4, <1>7, <3>1 DEF Part, a1, b0, y
  <2>4. high[x] = a0 * b0
    <3>1. x <= t + l /\ s + (t + l - x) = s + (l - x + t)
      BY <1>7
    <3>2. QED  BY <1>4, <1>7, <3>1 DEF Part, a0, b0, y
  <2>5. high[t + x] = w * (a1 * b1)
    <3>1. ~(t + x <= t + l) /\ s + (t + l - (t + x) + 2 * t) = s + t + (l - x + t)
      BY <1>7
    <3>2. QED  BY <1>4, <1>7, <3>1 DEF Part, a1, b1, y
  <2>6. (- r) * (m * v) = - (r * (m * v)) /\ r * (p * u) \in Int /\ r * (m * v) \in Int
    BY <1>2, <1>3
  <2>7. f[x] + g[x] = r * (p * u) - r * (m * v) /\ f[x] - g[x] = r * (p * u) + r * (m * v)
    BY <2>1, <2>6
  <2> HIDE DEF f, g, low, high
  <2>8. QED  BY <1>2, <1>3, <1>5, <2>1, <2>2, <2>3, <2>4, <2>5, <2>6, <2>7 DEF f, g, low, high
<1>8. QED  BY <1>6, <1>7

(* What the two halves compute determines the product, twice: sum and difference over the root. *)
LEMMA HalvesJoin ==
  ASSUME NEW t \in Nat \ {0}, NEW s \in Nat, NEW r \in Int, NEW w \in Int, Cong(r * r, w),
         NEW a, NEW b, NEW ap, NEW bp, Halved(ap, a, r, t, s), Halved(bp, b, r, t, s),
         NEW l \in 0..(t - 1)
  PROVE  LET F == Cyclic(ap, bp, r, t, s, l)
             G == Cyclic(ap, bp, - r, t, s + t, l)
             L == Cyclic(a, b, w, 2 * t, s, l)
             H == Cyclic(a, b, w, 2 * t, s, t + l)
         IN  /\ F \in Int /\ G \in Int /\ L \in Int /\ H \in Int
             /\ Cong(F + G, 2 * L) /\ Cong(F - G, 2 * r * H)
<1> DEFINE f == Part(ap, bp, r, t, s, l)
           g == Part(ap, bp, - r, t, s + t, l)
           low == Part(a, b, w, 2 * t, s, l)
           high == Part(a, b, w, 2 * t, s, t + l)
           low2 == [x \in 0..(t - 1) |-> low[t + x]]
           high2 == [x \in 0..(t - 1) |-> high[t + x]]
           plus == [x \in 0..(t - 1) |-> 1 * f[x] + 1 * g[x]]
           minus == [x \in 0..(t - 1) |-> 1 * f[x] + (-1) * g[x]]
           lows == [x \in 0..(t - 1) |-> 2 * low[x] + 2 * low2[x]]
           highs == [x \in 0..(t - 1) |-> (2 * r) * high[x] + (2 * r) * high2[x]]
<1>1. \A x \in 0..(t - 1) :
        /\ f[x] \in Int /\ g[x] \in Int
        /\ low[x] \in Int /\ low[t + x] \in Int /\ high[x] \in Int /\ high[t + x] \in Int
        /\ Cong(f[x] + g[x], 2 * (low[x] + low[t + x]))
        /\ Cong(f[x] - g[x], 2 * r * (high[x] + high[t + x]))
  BY Halves
<1>2. /\ Cyclic(ap, bp, r, t, s, l) = Sigma(f, t)
      /\ Cyclic(ap, bp, - r, t, s + t, l) = Sigma(g, t)
      /\ Cyclic(a, b, w, 2 * t, s, l) = Sigma(low, 2 * t)
      /\ Cyclic(a, b, w, 2 * t, s, t + l) = Sigma(high, 2 * t)
  BY DEF Cyclic
<1> HIDE DEF f, g, low, high
<1>3. t + t = 2 * t /\ \A x \in 0..(t + t - 1) : x \in 0..(t - 1) \/ (x - t \in 0..(t - 1) /\ x = t + (x - t))
  OBVIOUS
<1>4. \A x \in 0..(t + t - 1) : low[x] \in Int /\ high[x] \in Int
  BY <1>1, <1>3
<1>5. \A x \in 0..(t - 1) : low2[x] = low[t + x] /\ high2[x] = high[t + x]
  OBVIOUS
<1>6. /\ \A x \in 0..(t - 1) : plus[x] = 1 * f[x] + 1 * g[x]
      /\ \A x \in 0..(t - 1) : minus[x] = 1 * f[x] + (-1) * g[x]
      /\ \A x \in 0..(t - 1) : lows[x] = 2 * low[x] + 2 * low2[x]
      /\ \A x \in 0..(t - 1) : highs[x] = (2 * r) * high[x] + (2 * r) * high2[x]
  OBVIOUS
<1> HIDE DEF low2, high2, plus, minus, lows, highs
<1>7. Sigma(low, t + t) = Sigma(low, t) + Sigma(low2, t)
  BY <1>4, <1>5, SigmaSplit
<1>8. Sigma(high, t + t) = Sigma(high, t) + Sigma(high2, t)
  BY <1>4, <1>5, SigmaSplit
<1>9. \A x \in 0..(t - 1) : low2[x] \in Int /\ high2[x] \in Int
  BY <1>1, <1>5
<1>10. /\ Sigma(f, t) \in Int /\ Sigma(g, t) \in Int /\ Sigma(low, t) \in Int /\ Sigma(low2, t) \in Int
       /\ Sigma(high, t) \in Int /\ Sigma(high2, t) \in Int
  BY <1>1, <1>9, SigmaInt
<1>11. Sigma(plus, t) = 1 * Sigma(f, t) + 1 * Sigma(g, t)
  BY <1>1, <1>6, SigmaLinear
<1>12. Sigma(minus, t) = 1 * Sigma(f, t) + (-1) * Sigma(g, t)
  BY <1>1, <1>6, SigmaLinear
<1>13. Sigma(lows, t) = 2 * Sigma(low, t) + 2 * Sigma(low2, t)
  BY <1>1, <1>6, <1>9, SigmaLinear
<1>14. Sigma(highs, t) = (2 * r) * Sigma(high, t) + (2 * r) * Sigma(high2, t)
  BY <1>1, <1>6, <1>9, SigmaLinear
<1>15. \A x \in 0..(t - 1) : plus[x] \in Int /\ lows[x] \in Int /\ Cong(plus[x], lows[x])
  <2> SUFFICES ASSUME NEW x \in 0..(t - 1)
               PROVE  plus[x] \in Int /\ lows[x] \in Int /\ Cong(plus[x], lows[x])
    OBVIOUS
  <2>1. f[x] \in Int /\ g[x] \in Int /\ low[x] \in Int /\ low2[x] \in Int
    BY <1>1, <1>9
  <2>2. plus[x] = f[x] + g[x] /\ lows[x] = 2 * (low[x] + low[t + x])
    BY <1>5, <1>6, <2>1
  <2>3. QED  BY <1>1, <1>6, <2>1, <2>2
<1>16. \A x \in 0..(t - 1) : minus[x] \in Int /\ highs[x] \in Int /\ Cong(minus[x], highs[x])
  <2> SUFFICES ASSUME NEW x \in 0..(t - 1)
               PROVE  minus[x] \in Int /\ highs[x] \in Int /\ Cong(minus[x], highs[x])
    OBVIOUS
  <2>1. f[x] \in Int /\ g[x] \in Int /\ high[x] \in Int /\ high2[x] \in Int
    BY <1>1, <1>9
  <2>2. minus[x] = f[x] - g[x] /\ highs[x] = 2 * r * (high[x] + high[t + x])
    BY <1>5, <1>6, <2>1
  <2>3. QED  BY <1>1, <1>6, <2>1, <2>2
<1>17. Cong(Sigma(plus, t), Sigma(lows, t))
  BY <1>15, SigmaCong
<1>18. Cong(Sigma(minus, t), Sigma(highs, t))
  BY <1>16, SigmaCong
<1> DEFINE SF == Sigma(f, t)
           SG == Sigma(g, t)
           L1 == Sigma(low, t)
           L2 == Sigma(low2, t)
           H1 == Sigma(high, t)
           H2 == Sigma(high2, t)
<1>19. Cong(SF + SG, 2 * (L1 + L2))
  <2>1. Cong(1 * SF + 1 * SG, 2 * L1 + 2 * L2) /\ SF \in Int /\ SG \in Int /\ L1 \in Int /\ L2 \in Int
    BY <1>10, <1>11, <1>13, <1>17
  <2> HIDE DEF SF, SG, L1, L2
  <2>2. 1 * SF + 1 * SG = SF + SG /\ 2 * L1 + 2 * L2 = 2 * (L1 + L2)
    BY <2>1
  <2>3. QED  BY <2>1, <2>2
<1>20. Cong(SF - SG, 2 * r * (H1 + H2))
  <2>1. Cong(1 * SF + (-1) * SG, (2 * r) * H1 + (2 * r) * H2) /\ SF \in Int /\ SG \in Int /\ H1 \in Int /\ H2 \in Int
    BY <1>10, <1>12, <1>14, <1>18
  <2> HIDE DEF SF, SG, H1, H2
  <2>2. 1 * SF + (-1) * SG = SF - SG /\ (2 * r) * H1 + (2 * r) * H2 = 2 * r * (H1 + H2)
    BY <2>1
  <2>3. QED  BY <2>1, <2>2
<1>21. QED  BY <1>2, <1>3, <1>7, <1>8, <1>10, <1>19, <1>20

---------------------------------------------------------------------------
(***************************************************************************)
(* Positions: block i of d coefficients, and where in it.                  *)
(***************************************************************************)

(* Block and place are quotient and remainder of the index. *)
LEMMA QuotientUnique ==
  ASSUME NEW d \in Nat \ {0}, NEW i \in Nat, NEW x \in 0..(d - 1)
  PROVE  (i * d + x) \div d = i /\ (i * d + x) % d = x
<1> DEFINE u == i * d + x
           e == u \div d
           f == u % d
<1>1. u \in Nat
  OBVIOUS
<1>2. e \in Nat /\ f \in 0..(d - 1) /\ u = e * d + f
  BY <1>1
<1>3. i * d + x = e * d + f
  BY <1>2
<1> HIDE DEF u, e, f
<1>4. ~(e > i)
  <2> SUFFICES ASSUME e > i PROVE FALSE
    OBVIOUS
  <2>1. (e - i - 1) * d >= 0 /\ e * d = i * d + d + (e - i - 1) * d
    BY <1>2
  <2>2. QED  BY <1>2, <1>3, <2>1
<1>5. ~(i > e)
  <2> SUFFICES ASSUME i > e PROVE FALSE
    OBVIOUS
  <2>1. (i - e - 1) * d >= 0 /\ i * d = e * d + d + (i - e - 1) * d
    BY <1>2
  <2>2. QED  BY <1>2, <1>3, <2>1
<1>6. e = i
  BY <1>2, <1>4, <1>5
<1>7. f = x
  BY <1>2, <1>3, <1>6
<1>8. QED  BY <1>6, <1>7 DEF u, e, f

(* Index j falls in one of m blocks of d coefficients. *)
InBlock(j, m, d) == \E i \in 0..(m - 1), x \in 0..(d - 1) : j = i * d + x

(* Every index falls in a block, *)
LEMMA Place ==
  ASSUME NEW d \in Nat \ {0}, NEW m \in Nat \ {0}, m * d = n, NEW j \in 0..(n - 1)
  PROVE  InBlock(j, m, d)
<1> DEFINE i == j \div d
           x == j % d
<1>1. i \in Nat /\ x \in 0..(d - 1) /\ j = i * d + x
  BY Field
<1> HIDE DEF i, x
<1>2. ~(i >= m)
  <2> SUFFICES ASSUME i >= m PROVE FALSE
    OBVIOUS
  <2>1. (i - m) * d >= 0 /\ i * d = m * d + (i - m) * d
    BY <1>1
  <2>2. QED  BY <1>1, <2>1, Field
<1>3. QED  BY <1>1, <1>2 DEF InBlock

(* and no place of a block falls out of the array. *)
LEMMA Within ==
  ASSUME NEW d \in Nat \ {0}, NEW m \in Nat \ {0}, m * d = n, NEW i \in 0..(m - 1), NEW x \in 0..(d - 1)
  PROVE  i * d + x \in 0..(n - 1)
<1>1. (m - 1 - i) * d >= 0 /\ m * d = i * d + d + (m - 1 - i) * d
  OBVIOUS
<1>2. i * d >= 0 /\ i * d \in Int
  OBVIOUS
<1>3. QED  BY <1>1, <1>2, Field

---------------------------------------------------------------------------
(***************************************************************************)
(* Divisors of n, the sizes of blocks and their numbers: n is a power of   *)
(* two.                                                                    *)
(***************************************************************************)

(* A divisor has its codivisor. *)
LEMMA DivisorTimes ==
  ASSUME NEW m
  PROVE  m \in Divisors(n) <=> m \in Nat \ {0} /\ \E t \in Nat \ {0} : m * t = n
<1>1. ASSUME m \in Divisors(n) PROVE m \in Nat \ {0} /\ \E t \in Nat \ {0} : m * t = n
  <2>1. m \in 1..n /\ n % m = 0
    BY <1>1 DEF Divisors
  <2> DEFINE t == n \div m
  <2>2. t \in Nat /\ n = t * m + (n % m)
    BY <2>1, Field
  <2> HIDE DEF t
  <2>3. m * t = n
    BY <2>1, <2>2
  <2>4. t # 0
    BY <2>1, <2>2, <2>3, Field
  <2>5. m \in Nat \ {0}
    BY <2>1, Field
  <2>6. t \in Nat \ {0}
    BY <2>2, <2>4
  <2>7. QED  BY <2>3, <2>5, <2>6
<1>2. ASSUME m \in Nat \ {0}, NEW t \in Nat \ {0}, m * t = n PROVE m \in Divisors(n)
  <2>1. (t * m + 0) % m = 0
    BY <1>2, QuotientUnique
  <2>2. t * m + 0 = n
    BY <1>2
  <2>3. m <= n
    <3>1. (t - 1) * m >= 0 /\ m * t = (t - 1) * m + m
      BY <1>2
    <3>2. QED  BY <1>2, <3>1
  <2>4. QED  BY <1>2, <2>1, <2>2, <2>3, Field DEF Divisors
<1>3. QED  BY <1>1, <1>2

(* A divisor other than one is even, and its half is one. *)
LEMMA DivisorHalf ==
  ASSUME NEW m \in Divisors(n), m # 1
  PROVE  /\ m \div 2 \in Divisors(n) /\ m \div 2 < m /\ m = 2 * (m \div 2)
         /\ m \in Nat \ {0} /\ m \div 2 \in Nat \ {0}
<1>1. m % 2 = 0
  BY GenuineAssumption DEF GenuineAssumption
<1> DEFINE h == m \div 2
<1>2. PICK t \in Nat \ {0} : m * t = n
  BY DivisorTimes
<1>3. m \in Nat \ {0}
  BY DivisorTimes
<1>4. h \in Nat /\ m = 2 * h
  BY <1>1, <1>3
<1> HIDE DEF h
<1>5. h # 0 /\ h < m
  BY <1>3, <1>4
<1>6. h * (2 * t) = n /\ 2 * t \in Nat \ {0}
  BY <1>2, <1>4
<1>7. h \in Divisors(n)
  BY <1>4, <1>5, <1>6, DivisorTimes
<1>8. QED  BY <1>3, <1>4, <1>5, <1>7 DEF h

(* Passes go from one block to n, and back. *)
LEMMA Ends == 1 \in Divisors(n) /\ n \in Divisors(n)
<1>1. 1 * n = n /\ n * 1 = n /\ n \in Nat \ {0}
  BY Field
<1>2. QED  BY <1>1, DivisorTimes

(* Number and size of blocks divide n together. *)
LEMMA CoDivisor ==
  ASSUME NEW m \in Nat \ {0}, NEW t \in Nat \ {0}, m * t = n
  PROVE  m \in Divisors(n) /\ t \in Divisors(n) /\ m <= n /\ t <= n
<1>1. t * m = n
  OBVIOUS
<1>2. m \in Divisors(n) /\ t \in Divisors(n)
  BY <1>1, DivisorTimes
<1>3. QED  BY <1>2, Field DEF Divisors

(* Half the blocks, twice as long. *)
LEMMA DivisorStep ==
  ASSUME NEW m \in Nat \ {0}, NEW t \in Nat \ {0}, m * (2 * t) = n
  PROVE  /\ 2 * m \in Nat \ {0} /\ (2 * m) * t = n /\ 2 * t \in Nat \ {0}
         /\ m \in Divisors(n) /\ 2 * m \in Divisors(n) /\ t \in Divisors(n) /\ 2 * t \in Divisors(n)
         /\ (2 * m) \div 2 = m /\ (2 * t) \div 2 = t /\ 2 * m # 1 /\ 2 * t # 1
         /\ n \div (2 * m) = t /\ n \div (2 * t) = m
<1> DEFINE mm == 2 * m
           tt == 2 * t
<1>1. mm \in Nat \ {0} /\ tt \in Nat \ {0} /\ mm * t = n /\ m * tt = n /\ mm # 1 /\ tt # 1
  BY Field
<1>2. mm \div 2 = m /\ tt \div 2 = t
  OBVIOUS
<1> HIDE DEF mm, tt
<1>3. /\ m \in Divisors(n) /\ mm \in Divisors(n) /\ t \in Divisors(n) /\ tt \in Divisors(n)
  BY <1>1, CoDivisor
<1>4. (t * mm + 0) \div mm = t /\ (m * tt + 0) \div tt = m
  BY <1>1, QuotientUnique
<1>5. t * mm + 0 = n /\ m * tt + 0 = n
  BY <1>1
<1>6. QED  BY <1>1, <1>2, <1>3, <1>4, <1>5 DEF mm, tt

---------------------------------------------------------------------------
(***************************************************************************)
(* addmod and mulmod, which take numbers of any size, compute modulo q.    *)
(***************************************************************************)

(* addmod, as the code adds and as it subtracts, *)
LEMMA AddMod ==
  ASSUME NEW x \in Int, NEW y \in Int
  PROVE  /\ addmod(x, y, q) = (x + y) % q
         /\ addmod(x, y, q) \in 0..(q - 1) /\ Cong(addmod(x, y, q), x + y)
         /\ addmod(x, q - y, q) \in 0..(q - 1) /\ Cong(addmod(x, q - y, q), x - y)
<1> DEFINE u == x + y
           v == x + (q - y)
<1>1. u \in Int /\ v \in Int /\ x - y \in Int
  BY Field
<1>2. addmod(x, y, q) = u % q /\ addmod(x, q - y, q) = v % q
  BY Field DEF addmod
<1>3. Cong(v, x - y)
  <2>1. v = (x - y) + 1 * q
    BY Field
  <2>2. QED  BY <2>1 DEF Cong
<1> HIDE DEF u, v
<1>4. u % q \in 0..(q - 1) /\ Cong(u % q, u) /\ v % q \in 0..(q - 1) /\ Cong(v % q, v)
  BY <1>1, CongMod
<1>5. Cong(v % q, x - y)
  <2>1. v % q \in Int
    BY <1>4
  <2>2. QED  BY <1>1, <1>3, <1>4, <2>1, CongTrans
<1>6. QED  BY <1>2, <1>4, <1>5 DEF u

(* subtracts, *)
LEMMA SubMod ==
  ASSUME NEW x \in Int, NEW y \in Int
  PROVE  addmod(x, q - y, q) \in 0..(q - 1) /\ Cong(addmod(x, q - y, q), x - y)
BY AddMod

(* and mulmod. *)
LEMMA MulMod ==
  ASSUME NEW x \in Int, NEW y \in Int
  PROVE  mulmod(x, y, q) \in 0..(q - 1) /\ Cong(mulmod(x, y, q), x * y)
<1> DEFINE u == x * y
<1>1. u \in Int
  OBVIOUS
<1>2. mulmod(x, y, q) = u % q
  BY Field DEF mulmod
<1> HIDE DEF u
<1>3. u % q \in 0..(q - 1) /\ Cong(u % q, u)
  BY <1>1, CongMod
<1>4. QED  BY <1>2, <1>3 DEF u

(* The same remainder is congruence. *)
LEMMA CongFromMod ==
  ASSUME NEW x \in Int, NEW y \in Int, x % q = y % q
  PROVE  Cong(x, y)
<1> DEFINE a == x % q
<1>1. Cong(a, x) /\ Cong(a, y) /\ a \in Int
  BY CongMod
<1> HIDE DEF a
<1>2. Cong(x, a)
  BY <1>1, CongSym
<1>3. QED  BY <1>1, <1>2, CongTrans

---------------------------------------------------------------------------
(***************************************************************************)
(* The passes of the transform, with the right tables: R has a square root *)
(* for every node of the tree of polynomials, and I its inverse.           *)
(***************************************************************************)
R == Genuine.psirev
I == Genuine.psiinvrev

(* psirev holds square roots, a node and its two children, and psiinvrev their inverses. *)
LEMMA Tables ==
  ASSUME NEW k \in 1..(n - 1)
  PROVE  /\ R[k] \in Int /\ I[k] \in Int /\ Root(k) \in Int
         /\ Cong(R[k] * R[k], Root(k)) /\ Cong(R[k] * I[k], 1)
         /\ Root(2 * k) = R[k] /\ Root(2 * k + 1) = - R[k]
<1>1. /\ R[k] \in Nat /\ I[k] \in Nat
      /\ (R[k] * R[k]) % q = Root(k) % q /\ (R[k] * I[k]) % q = 1 % q
  BY GenuineAssumption, StorageAssumption DEF GenuineAssumption, StorageAssumption, IsStorage, R, I
<1>2. Root(k) \in Int
  <2>1. CASE k = 1
    BY <2>1 DEF Root
  <2>2. CASE k # 1
    <3>1. k \div 2 \in 1..(n - 1)
      BY <2>2, Field
    <3>2. Genuine.psirev[k \div 2] \in Nat
      BY <3>1, StorageAssumption DEF StorageAssumption, IsStorage
    <3>3. QED  BY <2>2, <3>2 DEF Root
  <2>3. QED  BY <2>1, <2>2
<1>3. Root(2 * k) = R[k] /\ Root(2 * k + 1) = - R[k]
  <2>1. (2 * k) % 2 = 0 /\ (2 * k) \div 2 = k /\ 2 * k # 1
    OBVIOUS
  <2>2. (2 * k + 1) % 2 # 0 /\ (2 * k + 1) \div 2 = k /\ 2 * k + 1 # 1
    OBVIOUS
  <2>3. QED  BY <2>1, <2>2 DEF Root, R
<1> DEFINE rr == R[k] * R[k]
           ri == R[k] * I[k]
<1>4. rr \in Int /\ ri \in Int /\ rr % q = Root(k) % q /\ ri % q = 1 % q
  BY <1>1
<1>5. R[k] \in Int /\ I[k] \in Int
  BY <1>1
<1>6. Cong(R[k] * R[k], Root(k)) /\ Cong(R[k] * I[k], 1)
  <2> HIDE DEF rr, ri
  <2>1. Cong(rr, Root(k)) /\ Cong(ri, 1)
    BY <1>2, <1>4, CongFromMod
  <2>2. QED  BY <2>1 DEF rr, ri
<1>7. QED  BY <1>2, <1>3, <1>5, <1>6


(* A polynomial, reduced or not. *)
Poly == [0..(n - 1) -> Int]

(* The size of a polynomial. *)
LEMMA SizeIs ==
  ASSUME NEW a \in Poly
  PROVE  Size(a) = n /\ DOMAIN a = 0..(n - 1)
<1>1. DOMAIN a = 0..(n - 1)
  BY DEF Poly
<1>2. Cardinality(0..(n - 1)) = n
  BY Field, FS_Interval
<1>3. QED  BY <1>1, <1>2 DEF Size

(* A pass of NTTFW halves every block. *)
LEMMA ForwardHalves ==
  ASSUME NEW a \in Poly, NEW m \in Nat \ {0}, NEW t \in Nat \ {0}, m * (2 * t) = n
  PROVE  /\ ForwardPass(a, m, R, q) \in Poly
         /\ \A i \in 0..(m - 1) : Halved(ForwardPass(a, m, R, q), a, R[m + i], t, i * (2 * t))
<1> DEFINE d == 2 * t
           p == ForwardPass(a, m, R, q)
           V(j) == mulmod(a[j + t], R[m + j \div d], q)
<1>1. d \in Nat \ {0} /\ m * d = n /\ t \in 0..(d - 1) /\ d = t + t
  OBVIOUS
<1>2. Size(a) \div (2 * m) = t /\ DOMAIN a = 0..(n - 1)
  BY SizeIs, DivisorStep
<1>3. p = [j \in 0..(n - 1) |-> IF j % d < t THEN addmod(a[j], V(j), q) ELSE addmod(a[j - t], q - V(j - t), q)]
  BY <1>2 DEF ForwardPass
<1>4. \A i \in 0..(m - 1) : m + i \in 1..(n - 1) /\ i \in Nat
  <2>1. m * d = 2 * m + 2 * (m * (t - 1)) /\ m * (t - 1) >= 0
    BY <1>1
  <2>2. QED  BY <1>1, <2>1
<1> HIDE DEF d, p, V
<1>5. ASSUME NEW i \in 0..(m - 1), NEW x \in 0..(t - 1)
      PROVE  LET j == i * d + x
                 v == mulmod(a[j + t], R[m + i], q)
             IN  /\ j \in 0..(n - 1) /\ j + t \in 0..(n - 1)
                 /\ p[j] = addmod(a[j], v, q)
                 /\ p[j + t] = addmod(a[j], q - v, q)
  <2> DEFINE j == i * d + x
             xx == x + t
             k == i * d + xx
  <2>1. x \in 0..(d - 1) /\ xx \in 0..(d - 1) /\ i \in Nat /\ x < t /\ ~(xx < t)
    BY <1>1
  <2>2. k = j + t /\ k - t = j
    BY <1>1
  <2> HIDE DEF xx
  <2>3. j \div d = i /\ j % d = x /\ k \div d = i /\ k % d = xx
    BY <1>1, <2>1, QuotientUnique
  <2>4. j \in 0..(n - 1) /\ k \in 0..(n - 1)
    BY <1>1, <2>1, Within
  <2> HIDE DEF j, k
  <2>5. V(j) = mulmod(a[j + t], R[m + i], q)
    BY <2>3 DEF V
  <2>6. p[j] = addmod(a[j], V(j), q)
    BY <1>3, <2>1, <2>3, <2>4
  <2>7. p[k] = addmod(a[j], q - V(j), q)
    BY <1>3, <2>1, <2>2, <2>3, <2>4
  <2>8. QED  BY <2>2, <2>4, <2>5, <2>6, <2>7 DEF j
<1>6. ASSUME NEW i \in 0..(m - 1), NEW x \in 0..(t - 1)
      PROVE  LET j == i * d + x
                 r == R[m + i]
             IN  /\ j \in 0..(n - 1) /\ j + t \in 0..(n - 1)
                 /\ a[j] \in Int /\ a[j + t] \in Int /\ p[j] \in Int /\ p[j + t] \in Int
                 /\ Cong(p[j], a[j] + r * a[j + t])
                 /\ Cong(p[j + t], a[j] - r * a[j + t])
  <2> DEFINE j == i * d + x
             r == R[m + i]
             e == a[j]
             u == a[j + t]
             v == mulmod(u, r, q)
             ru == r * u
  <2>1. j \in 0..(n - 1) /\ j + t \in 0..(n - 1) /\ p[j] = addmod(e, v, q) /\ p[j + t] = addmod(e, q - v, q)
    BY <1>5
  <2> HIDE DEF j
  <2>2. e \in Int /\ u \in Int
    BY <2>1 DEF Poly
  <2>3. r \in Int
    <3>1. m + i \in 1..(n - 1)
      BY <1>4
    <3>2. QED  BY <3>1, Tables
  <2> HIDE DEF e, u, r
  <2>4. v \in Int /\ Cong(v, ru) /\ ru \in Int
    <3>1. u * r = ru /\ ru \in Int
      BY <2>2, <2>3
    <3>2. v \in 0..(q - 1) /\ Cong(v, u * r)
      BY <2>2, <2>3, MulMod
    <3>3. QED  BY <3>1, <3>2
  <2> HIDE DEF v, ru
  <2>5. /\ p[j] \in Int /\ Cong(p[j], e + v)
        /\ p[j + t] \in Int /\ Cong(p[j + t], e - v)
    BY <2>1, <2>2, <2>4, AddMod, SubMod
  <2>6. Cong(e + v, e + ru) /\ Cong(e - v, e - ru)
    <3>1. Cong(e, e)
      BY <2>2, CongRefl
    <3>2. QED  BY <2>2, <2>4, <3>1, CongAdd
  <2>7. e + v \in Int /\ e + ru \in Int /\ e - v \in Int /\ e - ru \in Int
    BY <2>2, <2>4
  <2>8. Cong(p[j], e + ru) /\ Cong(p[j + t], e - ru)
    BY <2>5, <2>6, <2>7, CongTrans
  <2>9. QED  BY <2>1, <2>2, <2>5, <2>8 DEF ru, e, u, r, j
<1>7. p \in Poly
  <2>1. ASSUME NEW j \in 0..(n - 1) PROVE p[j] \in Int
    <3>0. InBlock(j, m, d)
      BY <1>1, Place
    <3>1. PICK i \in 0..(m - 1), y \in 0..(d - 1) : j = i * d + y
      BY <3>0 DEF InBlock
    <3>2. CASE y < t
      <4>1. y \in 0..(t - 1)
        BY <3>2
      <4>2. QED  BY <1>6, <3>1, <4>1
    <3>3. CASE ~(y < t)
      <4> DEFINE x == y - t
      <4>1. x \in 0..(t - 1) /\ j = i * d + x + t
        BY <1>1, <3>1, <3>3
      <4> HIDE DEF x
      <4>2. p[i * d + x + t] \in Int
        BY <1>6, <4>1
      <4>3. QED  BY <4>1, <4>2
    <3>4. QED  BY <3>2, <3>3
  <2>2. p = [j \in 0..(n - 1) |-> p[j]]
    BY <1>3
  <2>3. QED  BY <2>1, <2>2 DEF Poly
<1>8. ASSUME NEW i \in 0..(m - 1) PROVE Halved(p, a, R[m + i], t, i * d)
  <2> SUFFICES ASSUME NEW x \in 0..(t - 1)
               PROVE  LET s == i * d
                          r == R[m + i]
                      IN  /\ a[s + x] \in Int /\ a[s + t + x] \in Int /\ p[s + x] \in Int /\ p[s + t + x] \in Int
                          /\ Cong(p[s + x], a[s + x] + r * a[s + t + x])
                          /\ Cong(p[s + t + x], a[s + x] - r * a[s + t + x])
    BY DEF Halved
  <2>1. i * d + t + x = i * d + x + t
    BY <1>1
  <2>2. QED  BY <1>6, <2>1
<1>9. QED  BY <1>7, <1>8 DEF p, d

(* A pass of NTTINV adds and subtracts neighbouring blocks. *)
LEMMA InverseJoins ==
  ASSUME NEW a \in Poly, NEW m \in Nat \ {0}, NEW t \in Nat \ {0}, m * (2 * t) = n
  PROVE  /\ InversePass(a, t, I, q) \in Poly
         /\ \A i \in 0..(m - 1), x \in 0..(t - 1) :
              LET p == InversePass(a, t, I, q)
                  j == i * (2 * t) + x
              IN  /\ a[j] \in Int /\ a[j + t] \in Int /\ p[j] \in Int /\ p[j + t] \in Int
                  /\ Cong(p[j], a[j] + a[j + t])
                  /\ Cong(p[j + t], (a[j] - a[j + t]) * I[m + i])
<1> DEFINE d == 2 * t
           p == InversePass(a, t, I, q)
<1>1. d \in Nat \ {0} /\ m * d = n /\ t \in 0..(d - 1) /\ d = t + t
  OBVIOUS
<1>2. Size(a) \div (2 * t) = m /\ DOMAIN a = 0..(n - 1)
  BY SizeIs, DivisorStep
<1>3. p = [j \in 0..(n - 1) |->
             IF j % d < t THEN addmod(a[j], a[j + t], q)
                          ELSE mulmod(addmod(a[j - t], q - a[j], q), I[m + j \div d], q)]
  BY <1>2 DEF InversePass
<1>4. \A i \in 0..(m - 1) : m + i \in 1..(n - 1) /\ i \in Nat
  <2>1. m * d = 2 * m + 2 * (m * (t - 1)) /\ m * (t - 1) >= 0
    BY <1>1
  <2>2. QED  BY <1>1, <2>1
<1> HIDE DEF d, p
<1>5. ASSUME NEW i \in 0..(m - 1), NEW x \in 0..(t - 1)
      PROVE  LET j == i * d + x
             IN  /\ j \in 0..(n - 1) /\ j + t \in 0..(n - 1)
                 /\ p[j] = addmod(a[j], a[j + t], q)
                 /\ p[j + t] = mulmod(addmod(a[j], q - a[j + t], q), I[m + i], q)
  <2> DEFINE j == i * d + x
             xx == x + t
             k == i * d + xx
  <2>1. x \in 0..(d - 1) /\ xx \in 0..(d - 1) /\ i \in Nat /\ x < t /\ ~(xx < t)
    BY <1>1
  <2>2. k = j + t /\ k - t = j
    BY <1>1
  <2> HIDE DEF xx
  <2>3. j \div d = i /\ j % d = x /\ k \div d = i /\ k % d = xx
    BY <1>1, <2>1, QuotientUnique
  <2>4. j \in 0..(n - 1) /\ k \in 0..(n - 1)
    BY <1>1, <2>1, Within
  <2> HIDE DEF j, k
  <2>6. p[j] = addmod(a[j], a[j + t], q)
    BY <1>3, <2>1, <2>3, <2>4
  <2>7. p[k] = mulmod(addmod(a[j], q - a[k], q), I[m + i], q)
    BY <1>3, <2>1, <2>2, <2>3, <2>4
  <2>8. QED  BY <2>2, <2>4, <2>6, <2>7 DEF j
<1>6. ASSUME NEW i \in 0..(m - 1), NEW x \in 0..(t - 1)
      PROVE  LET j == i * d + x
             IN  /\ a[j] \in Int /\ a[j + t] \in Int /\ p[j] \in Int /\ p[j + t] \in Int
                 /\ Cong(p[j], a[j] + a[j + t])
                 /\ Cong(p[j + t], (a[j] - a[j + t]) * I[m + i])
  <2> DEFINE j == i * d + x
             r == I[m + i]
             e == a[j]
             u == a[j + t]
             v == addmod(e, q - u, q)
             w == e - u
  <2>1. /\ j \in 0..(n - 1) /\ j + t \in 0..(n - 1)
        /\ p[j] = addmod(e, u, q) /\ p[j + t] = mulmod(v, r, q)
    BY <1>5
  <2> HIDE DEF j
  <2>2. e \in Int /\ u \in Int
    BY <2>1 DEF Poly
  <2>3. r \in Int
    <3>1. m + i \in 1..(n - 1)
      BY <1>4
    <3>2. QED  BY <3>1, Tables
  <2> HIDE DEF e, u, r
  <2>4. v \in Int /\ Cong(v, w) /\ w \in Int
    <3>1. v \in 0..(q - 1) /\ Cong(v, w)
      BY <2>2, SubMod
    <3>2. QED  BY <2>2, <3>1
  <2>5. p[j] \in Int /\ Cong(p[j], e + u)
    BY <2>1, <2>2, AddMod
  <2> HIDE DEF v, w
  <2>6. p[j + t] \in Int /\ Cong(p[j + t], v * r)
    <3>1. mulmod(v, r, q) \in 0..(q - 1) /\ Cong(mulmod(v, r, q), v * r)
      BY <2>3, <2>4, MulMod
    <3>2. QED  BY <2>1, <3>1
  <2>7. Cong(v * r, w * r) /\ v * r \in Int /\ w * r \in Int
    <3>1. Cong(v * r, w * r)
      BY <2>3, <2>4, CongScale
    <3>2. QED  BY <2>3, <2>4, <3>1
  <2>8. Cong(p[j + t], w * r)
    BY <2>6, <2>7, CongTrans
  <2>9. QED  BY <2>2, <2>5, <2>6, <2>8 DEF w, e, u, r, j
<1>7. p \in Poly
  <2>1. ASSUME NEW j \in 0..(n - 1) PROVE p[j] \in Int
    <3>0. InBlock(j, m, d)
      BY <1>1, Place
    <3>1. PICK i \in 0..(m - 1), y \in 0..(d - 1) : j = i * d + y
      BY <3>0 DEF InBlock
    <3>2. CASE y < t
      <4>1. y \in 0..(t - 1)
        BY <3>2
      <4>2. QED  BY <1>6, <3>1, <4>1
    <3>3. CASE ~(y < t)
      <4> DEFINE x == y - t
      <4>1. x \in 0..(t - 1) /\ j = i * d + x + t
        BY <1>1, <3>1, <3>3
      <4> HIDE DEF x
      <4>2. p[i * d + x + t] \in Int
        BY <1>6, <4>1
      <4>3. QED  BY <4>1, <4>2
    <3>4. QED  BY <3>2, <3>3
  <2>2. p = [j \in 0..(n - 1) |-> p[j]]
    BY <1>3
  <2>3. QED  BY <2>1, <2>2 DEF Poly
<1>8. QED  BY <1>6, <1>7 DEF p, d

---------------------------------------------------------------------------
(***************************************************************************)
(* With any storage at all, the passes give natural numbers.               *)
(***************************************************************************)
IsTable(T) == \A k \in 1..(n - 1) : T[k] \in Int

(* addmod and mulmod give one, for any modulus. *)
LEMMA ModNat ==
  ASSUME NEW Q \in Nat, NEW x \in Int, NEW y \in Int
  PROVE  addmod(x, y, Q) \in Nat /\ addmod(x, Q - y, Q) \in Nat /\ mulmod(x, y, Q) \in Nat
<1> DEFINE u == x + y
           v == x + (Q - y)
           w == x * y
<1>1. u \in Int /\ v \in Int /\ w \in Int
  OBVIOUS
<1>2. /\ addmod(x, y, Q) = (IF Q = 0 THEN 0 ELSE u % Q)
      /\ addmod(x, Q - y, Q) = (IF Q = 0 THEN 0 ELSE v % Q)
      /\ mulmod(x, y, Q) = (IF Q = 0 THEN 0 ELSE w % Q)
  BY DEF addmod, mulmod
<1> HIDE DEF u, v, w
<1>3. Q # 0 => u % Q \in Nat /\ v % Q \in Nat /\ w % Q \in Nat
  BY <1>1
<1>4. QED  BY <1>2, <1>3

(* A coefficient, its block, and the two halves of the block. *)
LEMMA HalfAt ==
  ASSUME NEW j \in 0..(n - 1), NEW m \in Nat \ {0}, NEW t \in Nat \ {0}, m * (2 * t) = n
  PROVE  /\ m + j \div (2 * t) \in 1..(n - 1)
         /\ j % (2 * t) < t => j + t \in 0..(n - 1)
         /\ ~(j % (2 * t) < t) => j - t \in 0..(n - 1) /\ (j - t) % (2 * t) < t
                                  /\ m + (j - t) \div (2 * t) \in 1..(n - 1)
<1> DEFINE d == 2 * t
<1>1. d \in Nat \ {0} /\ m * d = n /\ d = t + t
  OBVIOUS
<1>2. \A i \in 0..(m - 1) : m + i \in 1..(n - 1) /\ i \in Nat
  <2>1. m * d = 2 * m + 2 * (m * (t - 1)) /\ m * (t - 1) >= 0
    BY <1>1
  <2>2. QED  BY <1>1, <2>1
<1> HIDE DEF d
<1>3. PICK i \in 0..(m - 1), y \in 0..(d - 1) : j = i * d + y
  <2>1. InBlock(j, m, d)
    BY <1>1, Place
  <2>2. QED  BY <2>1 DEF InBlock
<1>4. i \in Nat /\ m + i \in 1..(n - 1) /\ j \div d = i /\ j % d = y
  <2>1. i \in Nat /\ m + i \in 1..(n - 1) /\ d \in Nat \ {0}
    BY <1>1, <1>2
  <2>2. (i * d + y) \div d = i /\ (i * d + y) % d = y
    BY <2>1, QuotientUnique
  <2>3. QED  BY <1>3, <2>1, <2>2
<1>5. ASSUME y < t PROVE j + t \in 0..(n - 1)
  <2> DEFINE z == y + t
  <2>1. z \in 0..(d - 1)
    BY <1>1, <1>5
  <2>2. i * d + z = j + t
    BY <1>1, <1>3
  <2> HIDE DEF z
  <2>3. i * d + z \in 0..(n - 1)
    BY <1>1, <2>1, Within
  <2>4. QED  BY <2>2, <2>3
<1>6. ASSUME ~(y < t) PROVE j - t \in 0..(n - 1) /\ (j - t) % d < t /\ (j - t) \div d = i
  <2> DEFINE z == y - t
  <2>1. z \in 0..(d - 1) /\ z < t
    BY <1>1, <1>6
  <2>2. i * d + z = j - t
    BY <1>1, <1>3
  <2> HIDE DEF z
  <2>3. i * d + z \in 0..(n - 1)
    BY <1>1, <2>1, Within
  <2>4. (i * d + z) \div d = i /\ (i * d + z) % d = z
    <3>1. i \in Nat /\ d \in Nat \ {0} /\ z \in 0..(d - 1)
      BY <1>1, <1>4, <2>1
    <3>2. QED  BY <3>1, QuotientUnique
  <2>5. QED  BY <2>1, <2>2, <2>3, <2>4
<1>7. QED  BY <1>4, <1>5, <1>6 DEF d

(* So a pass of NTTFW *)
LEMMA ForwardTyped ==
  ASSUME NEW T, IsTable(T), NEW Q \in Nat, NEW a \in Poly,
         NEW m \in Nat \ {0}, NEW t \in Nat \ {0}, m * (2 * t) = n
  PROVE  ForwardPass(a, m, T, Q) \in Poly
<1> DEFINE d == 2 * t
           p == ForwardPass(a, m, T, Q)
           V(j) == mulmod(a[j + t], T[m + j \div d], Q)
<1>1. Size(a) \div (2 * m) = t /\ DOMAIN a = 0..(n - 1)
  BY SizeIs, DivisorStep
<1>2. p = [j \in 0..(n - 1) |-> IF j % d < t THEN addmod(a[j], V(j), Q) ELSE addmod(a[j - t], Q - V(j - t), Q)]
  BY <1>1 DEF ForwardPass
<1>3. ASSUME NEW j \in 0..(n - 1), j + t \in 0..(n - 1), m + j \div d \in 1..(n - 1)
      PROVE  V(j) \in Int
  <2> DEFINE x == a[j + t]
             y == T[m + j \div d]
  <2>1. x \in Int /\ y \in Int
    BY <1>3 DEF Poly, IsTable
  <2> HIDE DEF x, y
  <2>2. mulmod(x, y, Q) \in Int
    BY <2>1, ModNat
  <2>3. QED  BY <2>2 DEF x, y
<1> HIDE DEF V
<1>4. ASSUME NEW j \in 0..(n - 1) PROVE p[j] \in Int
  <2>1. CASE j % d < t
    <3>1. V(j) \in Int /\ a[j] \in Int
      BY <1>3, <2>1, HalfAt DEF Poly
    <3>2. p[j] = addmod(a[j], V(j), Q)
      BY <1>2, <2>1
    <3>3. addmod(a[j], V(j), Q) \in Nat
      BY <3>1, ModNat
    <3>4. QED  BY <3>2, <3>3
  <2>2. CASE ~(j % d < t)
    <3> DEFINE k == j - t
    <3>0. k + t = j
      OBVIOUS
    <3>1. k \in 0..(n - 1) /\ k + t = j /\ m + k \div d \in 1..(n - 1)
      <4>1. j - t \in 0..(n - 1) /\ m + (j - t) \div d \in 1..(n - 1)
        BY <2>2, HalfAt
      <4>2. QED  BY <3>0, <4>1
    <3>2. p[j] = addmod(a[k], Q - V(k), Q)
      BY <1>2, <2>2
    <3> HIDE DEF k
    <3>3. V(k) \in Int /\ a[k] \in Int
      BY <1>3, <3>1 DEF Poly
    <3>4. addmod(a[k], Q - V(k), Q) \in Nat
      BY <3>3, ModNat
    <3>5. QED  BY <3>2, <3>4
  <2>3. QED  BY <2>1, <2>2
<1>5. p = [j \in 0..(n - 1) |-> p[j]]
  BY <1>2
<1> HIDE DEF p
<1>6. QED  BY <1>4, <1>5 DEF Poly, p

(* and one of NTTINV. *)
LEMMA InverseTyped ==
  ASSUME NEW T, IsTable(T), NEW Q \in Nat, NEW a \in Poly,
         NEW m \in Nat \ {0}, NEW t \in Nat \ {0}, m * (2 * t) = n
  PROVE  InversePass(a, t, T, Q) \in Poly
<1> DEFINE d == 2 * t
           p == InversePass(a, t, T, Q)
<1>1. Size(a) \div (2 * t) = m /\ DOMAIN a = 0..(n - 1)
  BY SizeIs, DivisorStep
<1>2. p = [j \in 0..(n - 1) |->
             IF j % d < t THEN addmod(a[j], a[j + t], Q)
                          ELSE mulmod(addmod(a[j - t], Q - a[j], Q), T[m + j \div d], Q)]
  BY <1>1 DEF InversePass
<1>3. ASSUME NEW j \in 0..(n - 1) PROVE p[j] \in Int
  <2>1. CASE j % d < t
    <3>1. a[j] \in Int /\ a[j + t] \in Int
      BY <2>1, HalfAt DEF Poly
    <3>2. p[j] = addmod(a[j], a[j + t], Q)
      BY <1>2, <2>1
    <3>3. QED  BY <3>1, <3>2, ModNat
  <2>2. CASE ~(j % d < t)
    <3> DEFINE x == a[j - t]
               y == a[j]
               v == addmod(x, Q - y, Q)
               r == T[m + j \div d]
    <3>1. x \in Int /\ y \in Int /\ r \in Int
      BY <2>2, HalfAt DEF Poly, IsTable
    <3>2. p[j] = mulmod(v, r, Q)
      BY <1>2, <2>2
    <3> HIDE DEF x, y, r
    <3>3. v \in Int
      BY <3>1, ModNat
    <3> HIDE DEF v
    <3>4. QED  BY <3>1, <3>2, <3>3, ModNat
  <2>3. QED  BY <2>1, <2>2
<1>4. p = [j \in 0..(n - 1) |-> p[j]]
  BY <1>2
<1>5. p \in Poly
  <2> HIDE DEF p
  <2>1. QED  BY <1>3, <1>4 DEF Poly
<1>6. QED  BY <1>5 DEF p

---------------------------------------------------------------------------
(***************************************************************************)
(* The passes one after another: the loop's variable runs through the      *)
(* divisors of n.                                                          *)
(***************************************************************************)
(* What NTTFW has made of a when it has m blocks. *)
Forward(a, T, Q) ==
  CHOOSE f : f = [m \in Divisors(Size(a)) |-> IF m = 1 THEN a ELSE ForwardPass(f[m \div 2], m \div 2, T, Q)]

(* And NTTINV when its blocks have t coefficients. *)
Backward(a, T, Q) ==
  CHOOSE f : f = [t \in Divisors(Size(a)) |-> IF t = 1 THEN a ELSE InversePass(f[t \div 2], t \div 2, T, Q)]

(* NTTFW is its last pass, *)
LEMMA ForwardIs ==
  ASSUME NEW a, NEW T, NEW Q
  PROVE  NTTFW(a, T, Q) = Forward(a, T, Q)[Size(a)]
BY Zenon DEF NTTFW, Forward

(* and NTTINV its last one, times the inverse of n. *)
LEMMA InverseIs ==
  ASSUME NEW a, NEW T, NEW Q, NEW u
  PROVE  NTTINV(a, T, Q, u) = [j \in DOMAIN a |-> mulmod(Backward(a, T, Q)[Size(a)][j], u, Q)]
BY Zenon DEF NTTINV, Backward

(* A number of blocks other than one is twice some number of them. *)
LEMMA DivisorTwice ==
  ASSUME NEW k \in Divisors(n), k # 1
  PROVE  LET h == k \div 2
         IN  /\ h \in Divisors(n) /\ h < k /\ k = 2 * h /\ h \in Nat \ {0}
             /\ \E t \in Nat \ {0} : h * (2 * t) = n /\ t * (2 * h) = n
<1> DEFINE h == k \div 2
<1>1. h \in Divisors(n) /\ h < k /\ k = 2 * h /\ h \in Nat \ {0}
  BY DivisorHalf
<1>2. PICK t \in Nat \ {0} : k * t = n
  BY DivisorTimes
<1> HIDE DEF h
<1>3. h * (2 * t) = n /\ t * (2 * h) = n
  BY <1>1, <1>2
<1>4. QED  BY <1>1, <1>3 DEF h

(* The passes of NTTFW, from one block on. *)
LEMMA ForwardRuns ==
  ASSUME NEW T, IsTable(T), NEW Q \in Nat, NEW a \in Poly
  PROVE  /\ Forward(a, T, Q) \in [Divisors(n) -> Poly] /\ Forward(a, T, Q)[1] = a
         /\ \A k \in Divisors(n) : k # 1 => Forward(a, T, Q)[k] = ForwardPass(Forward(a, T, Q)[k \div 2], k \div 2, T, Q)
<1> DEFINE D == Divisors(n)
           Does(x, k) == IF k = 1 THEN a ELSE ForwardPass(x, k \div 2, T, Q)
           step == [s \in Poly \X D |-> Does(s[1], s[2])]
           pred == [k \in D |-> k \div 2]
<1>1. D \in SUBSET Nat
  BY DEF Divisors
<1>2. ASSUME NEW x \in Poly, NEW k \in D PROVE Does(x, k) \in Poly
  <2>1. CASE k = 1
    BY <2>1
  <2>2. CASE k # 1
    <3> DEFINE h == k \div 2
    <3>1. PICK t \in Nat \ {0} : h * (2 * t) = n /\ h \in Nat \ {0}
      BY <2>2, DivisorTwice
    <3> HIDE DEF h
    <3>2. ForwardPass(x, h, T, Q) \in Poly
      BY <3>1, ForwardTyped
    <3>3. QED  BY <2>2, <3>2 DEF h
  <2>3. QED  BY <2>1, <2>2
<1>3. \A k \in D \ {1} : pred[k] \in D /\ pred[k] < k /\ pred[k] = k \div 2
  BY DivisorTwice
<1>4. \A x \in Poly, k \in D : step[<<x, k>>] = Does(x, k)
  <2> HIDE DEF Does
  <2>1. QED  OBVIOUS
<1>5. step \in [Poly \X D -> Poly]
  <2> HIDE DEF Does
  <2>1. QED  BY <1>2
<1> HIDE DEF D, step, pred, Does
<1>6. PICK f \in [D -> Poly] : f = [k \in D |-> IF k \in {1} THEN a ELSE step[<<f[pred[k]], k>>]]
  <2> DEFINE B == {1}
  <2>1. \A k \in D \ B : pred[k] \in D /\ pred[k] < k
    BY <1>3
  <2> HIDE DEF B
  <2>2. \E f \in [D -> Poly] : Recurs(f, D, a, step, pred, B)
    BY <1>1, <1>5, <2>1, RecursionOn
  <2>3. QED  BY <2>2, Zenon DEF B, Recurs
<1>7. ASSUME NEW k \in D PROVE f[k] = IF k = 1 THEN a ELSE ForwardPass(f[k \div 2], k \div 2, T, Q)
  <2>1. f[k] = IF k = 1 THEN a ELSE step[<<f[pred[k]], k>>]
    BY <1>6
  <2>2. CASE k # 1
    <3>1. pred[k] \in D /\ pred[k] = k \div 2
      BY <1>3, <2>2
    <3>2. f[pred[k]] \in Poly
      BY <1>6, <3>1
    <3>3. step[<<f[pred[k]], k>>] = Does(f[pred[k]], k)
      BY <1>4, <3>2
    <3>4. QED  BY <2>1, <2>2, <3>1, <3>3, Zenon DEF Does
  <2>3. QED  BY <2>1, <2>2
<1>8. f = [k \in D |-> IF k = 1 THEN a ELSE ForwardPass(f[k \div 2], k \div 2, T, Q)]
  <2>1. f = [k \in D |-> f[k]]
    BY <1>6
  <2>2. QED  BY <1>7, <2>1, Zenon
<1>9. Size(a) = n
  BY SizeIs
<1>10. Forward(a, T, Q) = [k \in D |-> IF k = 1 THEN a ELSE ForwardPass(Forward(a, T, Q)[k \div 2], k \div 2, T, Q)]
  <2> DEFINE Is(g) == g = [k \in D |-> IF k = 1 THEN a ELSE ForwardPass(g[k \div 2], k \div 2, T, Q)]
  <2>1. Forward(a, T, Q) = CHOOSE g : Is(g)
    BY <1>9, Zenon DEF Forward, D
  <2>2. Is(f)
    BY <1>8
  <2> HIDE DEF Is
  <2>3. Is(CHOOSE g : Is(g))
    BY <2>2, Zenon
  <2>4. Is(Forward(a, T, Q))
    BY <2>1, <2>3, Zenon
  <2>5. QED  BY <2>4, Zenon DEF Is
<1> DEFINE F == Forward(a, T, Q)
<1> HIDE DEF F
<1>11. F = [k \in D |-> IF k = 1 THEN a ELSE ForwardPass(F[k \div 2], k \div 2, T, Q)]
  BY <1>10, Zenon DEF F
<1>12. \A k \in D : F[k] = IF k = 1 THEN a ELSE ForwardPass(F[k \div 2], k \div 2, T, Q)
  BY <1>11, Zenon
<1>13. \A k \in D : F[k] \in Poly
  <2> DEFINE W == {k \in Nat : k \in D => F[k] \in Poly}
  <2>1. ASSUME NEW k \in Nat, \A j \in 0..(k - 1) : j \in W PROVE k \in W
    <3> SUFFICES ASSUME k \in D PROVE F[k] \in Poly
      OBVIOUS
    <3>1. F[k] = Does(F[k \div 2], k)
      BY <1>12, Zenon DEF Does
    <3>2. CASE k = 1
      BY <1>12, <3>2
    <3>3. CASE k # 1
      <4>1. k \div 2 \in D /\ k \div 2 < k /\ k \div 2 \in Nat
        BY <3>3, DivisorTwice DEF D
      <4>2. k \div 2 \in W
        BY <2>1, <4>1
      <4>3. F[k \div 2] \in Poly
        BY <4>1, <4>2
      <4>4. QED  BY <1>2, <3>1, <4>3
    <3>4. QED  BY <3>2, <3>3
  <2> HIDE DEF W
  <2>2. Nat \subseteq W
    BY <2>1, StrongInduction
  <2>3. QED  BY <1>1, <2>2 DEF W
<1>14. F \in [D -> Poly]
  <2>1. F = [k \in D |-> F[k]]
    BY <1>11, <1>12, Zenon
  <2>2. QED  BY <1>13, <2>1
<1>15. 1 \in D
  BY Ends DEF D
<1>16. QED  BY <1>12, <1>14, <1>15, Zenon DEF F, D

(* The passes of NTTINV, from blocks of one coefficient on. *)
LEMMA BackwardRuns ==
  ASSUME NEW T, IsTable(T), NEW Q \in Nat, NEW a \in Poly
  PROVE  /\ Backward(a, T, Q) \in [Divisors(n) -> Poly] /\ Backward(a, T, Q)[1] = a
         /\ \A k \in Divisors(n) : k # 1 => Backward(a, T, Q)[k] = InversePass(Backward(a, T, Q)[k \div 2], k \div 2, T, Q)
<1> DEFINE D == Divisors(n)
           Does(x, k) == IF k = 1 THEN a ELSE InversePass(x, k \div 2, T, Q)
           step == [s \in Poly \X D |-> Does(s[1], s[2])]
           pred == [k \in D |-> k \div 2]
<1>1. D \in SUBSET Nat
  BY DEF Divisors
<1>2. ASSUME NEW x \in Poly, NEW k \in D PROVE Does(x, k) \in Poly
  <2>1. CASE k = 1
    BY <2>1
  <2>2. CASE k # 1
    <3> DEFINE h == k \div 2
    <3>1. PICK t \in Nat \ {0} : t * (2 * h) = n /\ h \in Nat \ {0}
      BY <2>2, DivisorTwice
    <3> HIDE DEF h
    <3>2. InversePass(x, h, T, Q) \in Poly
      BY <3>1, InverseTyped
    <3>3. QED  BY <2>2, <3>2 DEF h
  <2>3. QED  BY <2>1, <2>2
<1>3. \A k \in D \ {1} : pred[k] \in D /\ pred[k] < k /\ pred[k] = k \div 2
  BY DivisorTwice
<1>4. \A x \in Poly, k \in D : step[<<x, k>>] = Does(x, k)
  <2> HIDE DEF Does
  <2>1. QED  OBVIOUS
<1>5. step \in [Poly \X D -> Poly]
  <2> HIDE DEF Does
  <2>1. QED  BY <1>2
<1> HIDE DEF D, step, pred, Does
<1>6. PICK f \in [D -> Poly] : f = [k \in D |-> IF k \in {1} THEN a ELSE step[<<f[pred[k]], k>>]]
  <2> DEFINE B == {1}
  <2>1. \A k \in D \ B : pred[k] \in D /\ pred[k] < k
    BY <1>3
  <2> HIDE DEF B
  <2>2. \E f \in [D -> Poly] : Recurs(f, D, a, step, pred, B)
    BY <1>1, <1>5, <2>1, RecursionOn
  <2>3. QED  BY <2>2, Zenon DEF B, Recurs
<1>7. ASSUME NEW k \in D PROVE f[k] = IF k = 1 THEN a ELSE InversePass(f[k \div 2], k \div 2, T, Q)
  <2>1. f[k] = IF k = 1 THEN a ELSE step[<<f[pred[k]], k>>]
    BY <1>6
  <2>2. CASE k # 1
    <3>1. pred[k] \in D /\ pred[k] = k \div 2
      BY <1>3, <2>2
    <3>2. f[pred[k]] \in Poly
      BY <1>6, <3>1
    <3>3. step[<<f[pred[k]], k>>] = Does(f[pred[k]], k)
      BY <1>4, <3>2
    <3>4. QED  BY <2>1, <2>2, <3>1, <3>3, Zenon DEF Does
  <2>3. QED  BY <2>1, <2>2
<1>8. f = [k \in D |-> IF k = 1 THEN a ELSE InversePass(f[k \div 2], k \div 2, T, Q)]
  <2>1. f = [k \in D |-> f[k]]
    BY <1>6
  <2>2. QED  BY <1>7, <2>1, Zenon
<1>9. Size(a) = n
  BY SizeIs
<1>10. Backward(a, T, Q) = [k \in D |-> IF k = 1 THEN a ELSE InversePass(Backward(a, T, Q)[k \div 2], k \div 2, T, Q)]
  <2> DEFINE Is(g) == g = [k \in D |-> IF k = 1 THEN a ELSE InversePass(g[k \div 2], k \div 2, T, Q)]
  <2>1. Backward(a, T, Q) = CHOOSE g : Is(g)
    BY <1>9, Zenon DEF Backward, D
  <2>2. Is(f)
    BY <1>8
  <2> HIDE DEF Is
  <2>3. Is(CHOOSE g : Is(g))
    BY <2>2, Zenon
  <2>4. Is(Backward(a, T, Q))
    BY <2>1, <2>3, Zenon
  <2>5. QED  BY <2>4, Zenon DEF Is
<1> DEFINE F == Backward(a, T, Q)
<1> HIDE DEF F
<1>11. F = [k \in D |-> IF k = 1 THEN a ELSE InversePass(F[k \div 2], k \div 2, T, Q)]
  BY <1>10, Zenon DEF F
<1>12. \A k \in D : F[k] = IF k = 1 THEN a ELSE InversePass(F[k \div 2], k \div 2, T, Q)
  BY <1>11, Zenon
<1>13. \A k \in D : F[k] \in Poly
  <2> DEFINE W == {k \in Nat : k \in D => F[k] \in Poly}
  <2>1. ASSUME NEW k \in Nat, \A j \in 0..(k - 1) : j \in W PROVE k \in W
    <3> SUFFICES ASSUME k \in D PROVE F[k] \in Poly
      OBVIOUS
    <3>1. F[k] = Does(F[k \div 2], k)
      BY <1>12, Zenon DEF Does
    <3>2. CASE k = 1
      BY <1>12, <3>2
    <3>3. CASE k # 1
      <4>1. k \div 2 \in D /\ k \div 2 < k /\ k \div 2 \in Nat
        BY <3>3, DivisorTwice DEF D
      <4>2. k \div 2 \in W
        BY <2>1, <4>1
      <4>3. F[k \div 2] \in Poly
        BY <4>1, <4>2
      <4>4. QED  BY <1>2, <3>1, <4>3
    <3>4. QED  BY <3>2, <3>3
  <2> HIDE DEF W
  <2>2. Nat \subseteq W
    BY <2>1, StrongInduction
  <2>3. QED  BY <1>1, <2>2 DEF W
<1>14. F \in [D -> Poly]
  <2>1. F = [k \in D |-> F[k]]
    BY <1>11, <1>12, Zenon
  <2>2. QED  BY <1>13, <2>1
<1>15. 1 \in D
  BY Ends DEF D
<1>16. QED  BY <1>12, <1>14, <1>15, Zenon DEF F, D

---------------------------------------------------------------------------
(***************************************************************************)
(* From the bottom of the tree of polynomials to its top: after the passes *)
(* of NTTINV up to blocks of t coefficients, block i holds t times the     *)
(* product of what the passes of NTTFW had left in block i of a and of b.  *)
(***************************************************************************)
Joined(J, F, G, t, m) ==
  \A i \in 0..(m - 1), l \in 0..(t - 1) :
    Cong(J[i * t + l], t * Cyclic(F, G, Root(m + i), t, i * t, l))

(* A pass of NTTINV undoes one of NTTFW, and doubles. *)
LEMMA JoinedStep ==
  ASSUME NEW m \in Nat \ {0}, NEW t \in Nat \ {0}, m * (2 * t) = n,
         NEW J \in Poly, NEW a \in Poly, NEW b \in Poly,
         Joined(J, ForwardPass(a, m, R, q), ForwardPass(b, m, R, q), t, 2 * m)
  PROVE  Joined(InversePass(J, t, I, q), a, b, 2 * t, m)
<1> DEFINE F == ForwardPass(a, m, R, q)
           G == ForwardPass(b, m, R, q)
           p == InversePass(J, t, I, q)
           d == 2 * t
<1>1. /\ \A i \in 0..(m - 1) : Halved(F, a, R[m + i], t, i * d) /\ Halved(G, b, R[m + i], t, i * d)
  BY ForwardHalves
<1>2. \A i \in 0..(m - 1), x \in 0..(t - 1) :
        LET j == i * d + x
        IN  /\ J[j] \in Int /\ J[j + t] \in Int /\ p[j] \in Int /\ p[j + t] \in Int
            /\ Cong(p[j], J[j] + J[j + t])
            /\ Cong(p[j + t], (J[j] - J[j + t]) * I[m + i])
  BY InverseJoins
<1>3. Joined(J, F, G, t, 2 * m)
  OBVIOUS
<1>4. \A i \in 0..(m - 1) : m + i \in 1..(n - 1) /\ i \in Nat
  <2>1. m * d = 2 * m + 2 * (m * (t - 1)) /\ m * (t - 1) >= 0
    OBVIOUS
  <2>2. QED  BY <2>1
<1>5. d = t + t /\ d \in Nat \ {0}
  OBVIOUS
<1> HIDE DEF F, G, p, d
<1>6. ASSUME NEW i \in 0..(m - 1), NEW x \in 0..(t - 1)
      PROVE  /\ Cong(p[i * d + x], d * Cyclic(a, b, Root(m + i), d, i * d, x))
             /\ Cong(p[i * d + (t + x)], d * Cyclic(a, b, Root(m + i), d, i * d, t + x))
  <2> DEFINE s == i * d
             r == R[m + i]
             ri == I[m + i]
             w == Root(m + i)
             j == s + x
             u == J[j]
             v == J[j + t]
             A == Cyclic(F, G, r, t, s, x)
             B == Cyclic(F, G, - r, t, s + t, x)
             L == Cyclic(a, b, w, d, s, x)
             H == Cyclic(a, b, w, d, s, t + x)
  <2>1. /\ r \in Int /\ ri \in Int /\ w \in Int /\ Cong(r * r, w) /\ Cong(r * ri, 1)
        /\ Root(2 * (m + i)) = r /\ Root(2 * (m + i) + 1) = - r
    <3>1. m + i \in 1..(n - 1)
      BY <1>4
    <3>2. QED  BY <3>1, Tables
  <2>2. s \in Nat
    BY <1>4, <1>5
  <2>3. /\ u \in Int /\ v \in Int /\ p[j] \in Int /\ p[j + t] \in Int
        /\ Cong(p[j], u + v) /\ Cong(p[j + t], (u - v) * ri)
    BY <1>2
  <2>4. Cong(u, t * A)
    <3> DEFINE k == 2 * i
    <3>1. k \in 0..(2 * m - 1) /\ k * t = s /\ 2 * m + k = 2 * (m + i)
      BY <1>4 DEF d
    <3>2. Cong(J[k * t + x], t * Cyclic(F, G, Root(2 * m + k), t, k * t, x))
      <4> HIDE DEF k
      <4>1. QED  BY <1>3, <3>1, Zenon DEF Joined
    <3> HIDE DEF k
    <3>3. QED  BY <2>1, <3>1, <3>2, Zenon DEF u, j, A
  <2>5. Cong(v, t * B)
    <3> DEFINE k == 2 * i + 1
    <3>1. k \in 0..(2 * m - 1) /\ k * t = s + t /\ 2 * m + k = 2 * (m + i) + 1
      BY <1>4 DEF d
    <3>2. Cong(J[k * t + x], t * Cyclic(F, G, Root(2 * m + k), t, k * t, x))
      <4> HIDE DEF k
      <4>1. QED  BY <1>3, <3>1, Zenon DEF Joined
    <3> HIDE DEF k
    <3>3. s + t + x = s + x + t
      BY <2>2
    <3>4. QED  BY <2>1, <3>1, <3>2, <3>3, Zenon DEF v, j, B
  <2>6. /\ A \in Int /\ B \in Int /\ L \in Int /\ H \in Int
        /\ Cong(A + B, 2 * L) /\ Cong(A - B, 2 * r * H)
    <3>1. Halved(F, a, r, t, s) /\ Halved(G, b, r, t, s)
      BY <1>1
    <3> HIDE DEF r, w, s
    <3>2. QED  BY <2>1, <2>2, <3>1, HalvesJoin DEF d
  <2>7. s + (t + x) = j + t
    BY <2>2
  <2> HIDE DEF s, r, ri, w, j, u, v, A, B, L, H
  <2>8. Cong(p[j], d * L) /\ Cong(p[j + t], d * H)
    <3> DEFINE tA == t * A
               tB == t * B
               AB == A + B
               BA == A - B
               LL == 2 * L
               HH == 2 * r * H
               sum == tA + tB
               dif == tA - tB
    <3>1. /\ tA \in Int /\ tB \in Int /\ AB \in Int /\ BA \in Int /\ LL \in Int /\ HH \in Int
          /\ sum \in Int /\ dif \in Int
      BY <2>1, <2>6
    <3>2. Cong(u + v, sum) /\ Cong(u - v, dif)
      BY <2>3, <2>4, <2>5, <2>6, <3>1, CongAdd
    <3>3. sum = t * AB /\ dif = t * BA
      BY <2>6
    <3> HIDE DEF tA, tB, AB, BA, LL, HH, sum, dif
    <3>4. Cong(t * AB, t * LL) /\ t * AB \in Int /\ t * LL \in Int
      <4>1. Cong(AB, LL)
        BY <2>6 DEF AB, LL
      <4>2. Cong(t * AB, t * LL)
        <5>1. t \in Int
          OBVIOUS
        <5>2. QED  BY <3>1, <4>1, <5>1, CongScale
      <4>3. QED  BY <3>1, <4>2
    <3>5. Cong(t * BA, t * HH) /\ t * BA \in Int /\ t * HH \in Int
      <4>1. Cong(BA, HH)
        BY <2>6 DEF BA, HH
      <4>2. Cong(t * BA, t * HH)
        <5>1. t \in Int
          OBVIOUS
        <5>2. QED  BY <3>1, <4>1, <5>1, CongScale
      <4>3. QED  BY <3>1, <4>2
    <3>6. u + v \in Int /\ u - v \in Int
      BY <2>3
    <3>7. Cong(u + v, t * LL) /\ Cong(u - v, t * HH)
      BY <3>1, <3>2, <3>3, <3>4, <3>5, <3>6, CongTrans
    <3>8. t * LL = d * L
      BY <2>6 DEF LL, d
    <3>9. Cong(p[j], d * L)
      <4>1. d * L \in Int
        BY <1>5, <2>6
      <4>2. Cong(u + v, d * L)
        BY <3>7, <3>8
      <4>3. QED  BY <2>3, <3>6, <4>1, <4>2, CongTrans
    <3> DEFINE e == u - v
               g == t * HH
               ei == e * ri
               gi == g * ri
               dH == d * H
               k == r * ri
    <3>10. e \in Int /\ g \in Int /\ ei \in Int /\ gi \in Int /\ dH \in Int /\ k \in Int
      BY <1>5, <2>1, <2>6, <3>5, <3>6
    <3>11. Cong(ei, gi)
      <4> HIDE DEF g, e
      <4>1. Cong(e, g)
        BY <3>7 DEF e, g
      <4>2. QED  BY <2>1, <3>10, <4>1, CongScale
    <3>12. gi = dH * k
      BY <2>1, <2>6 DEF HH, d
    <3>13. Cong(dH * k, dH)
      <4> DEFINE one == 1
      <4>1. Cong(k, one) /\ one \in Int
        BY <2>1
      <4> HIDE DEF dH, k, one
      <4>2. Cong(dH * k, dH * one)
        BY <3>10, <4>1, CongScale
      <4>3. dH * one = dH
        BY <3>10 DEF one
      <4>4. QED  BY <4>2, <4>3
    <3> HIDE DEF ei, gi, dH, k
    <3>14. Cong(ei, dH)
      BY <3>10, <3>11, <3>12, <3>13, CongTrans
    <3>15. Cong(p[j + t], ei)
      BY <2>3 DEF ei
    <3>16. Cong(p[j + t], dH)
      BY <2>3, <3>10, <3>14, <3>15, CongTrans
    <3>17. QED  BY <3>9, <3>16 DEF dH
  <2>9. QED  BY <2>7, <2>8, Zenon DEF j, L, H, w, s
<1>7. ASSUME NEW i \in 0..(m - 1), NEW l \in 0..(d - 1)
      PROVE  Cong(p[i * d + l], d * Cyclic(a, b, Root(m + i), d, i * d, l))
  <2>1. CASE l < t
    <3>1. l \in 0..(t - 1)
      BY <2>1
    <3>2. QED  BY <1>6, <3>1
  <2>2. CASE ~(l < t)
    <3> DEFINE x == l - t
    <3>1. x \in 0..(t - 1) /\ l = t + x
      BY <1>5, <2>2
    <3> HIDE DEF x
    <3>2. Cong(p[i * d + (t + x)], d * Cyclic(a, b, Root(m + i), d, i * d, t + x))
      BY <1>6, <3>1
    <3>3. QED  BY <3>1, <3>2, Zenon
  <2>3. QED  BY <2>1, <2>2
<1>8. QED  BY <1>7, Zenon DEF Joined, p, d

(* After the last pass of NTTFW a block is one coefficient. *)
LEMMA JoinedFirst ==
  ASSUME NEW F \in Poly, NEW G \in Poly
  PROVE  /\ VECMULMOD(F, G, q) \in Poly
         /\ Joined(VECMULMOD(F, G, q), F, G, 1, n)
<1> DEFINE p == VECMULMOD(F, G, q)
<1>1. p = [j \in 0..(n - 1) |-> mulmod(F[j], G[j], q)]
  BY SizeIs DEF VECMULMOD
<1> HIDE DEF p
<1>2. ASSUME NEW j \in 0..(n - 1)
      PROVE  F[j] \in Int /\ G[j] \in Int /\ p[j] \in Int /\ Cong(p[j], F[j] * G[j])
  <2> DEFINE x == F[j]
             y == G[j]
  <2>1. x \in Int /\ y \in Int
    BY DEF Poly
  <2>2. p[j] = mulmod(x, y, q)
    BY <1>1
  <2> HIDE DEF x, y
  <2>3. mulmod(x, y, q) \in 0..(q - 1) /\ Cong(mulmod(x, y, q), x * y)
    BY <2>1, MulMod
  <2>4. QED  BY <2>1, <2>2, <2>3 DEF x, y
<1>3. p \in Poly
  <2>1. p = [j \in 0..(n - 1) |-> p[j]]
    BY <1>1
  <2>2. QED  BY <1>2, <2>1 DEF Poly
<1>4. ASSUME NEW i \in 0..(n - 1), NEW l \in 0..(1 - 1), NEW w
      PROVE  Cong(p[i * 1 + l], 1 * Cyclic(F, G, w, 1, i * 1, l))
  <2> DEFINE g == Part(F, G, w, 1, i, 0)
  <2>1. l = 0 /\ i * 1 + l = i /\ i * 1 = i /\ i \in Nat
    BY Field
  <2>2. g[0] = F[i] * G[i]
    <3>1. i + 0 = i /\ i + (0 - 0) = i /\ 0 <= 0
      BY <2>1
    <3>2. QED  BY <3>1 DEF Part
  <2>3. F[i] * G[i] \in Int
    BY <1>2
  <2> HIDE DEF g
  <2>4. \A k \in 0..0 : g[k] \in Int
    BY <2>2, <2>3
  <2>5. Sigma(g, 0 + 1) = Sigma(g, 0) + g[0]
    BY <2>4, SigmaNext
  <2>6. Sigma(g, 0) = 0
    BY SigmaZero
  <2>7. Sigma(g, 1) = F[i] * G[i]
    BY <2>2, <2>3, <2>5, <2>6
  <2>8. Cyclic(F, G, w, 1, i, 0) = F[i] * G[i]
    BY <2>7 DEF Cyclic, g
  <2>9. QED  BY <1>2, <2>1, <2>3, <2>8
<1>5. QED  BY <1>3, <1>4 DEF Joined, p

(* The right tables are tables. *)
LEMMA RightTables == IsTable(R) /\ IsTable(I) /\ q \in Nat
BY Tables, Field DEF IsTable

(* So their passes are, too. *)
LEMMA RightForward ==
  ASSUME NEW a \in Poly
  PROVE  /\ Forward(a, R, q) \in [Divisors(n) -> Poly] /\ Forward(a, R, q)[1] = a
         /\ \A k \in Divisors(n) :
              k # 1 => Forward(a, R, q)[k] = ForwardPass(Forward(a, R, q)[k \div 2], k \div 2, R, q)
<1> DEFINE T == R
           F == Forward(a, T, q)
<1>1. IsTable(T) /\ q \in Nat
  BY RightTables
<1> HIDE DEF T
<1>2. F \in [Divisors(n) -> Poly] /\ F[1] = a
  BY <1>1, ForwardRuns
<1>3. \A k \in Divisors(n) : k # 1 => F[k] = ForwardPass(F[k \div 2], k \div 2, T, q)
  BY <1>1, ForwardRuns
<1>4. QED  BY <1>2, <1>3 DEF T

(* And those back. *)
LEMMA RightBackward ==
  ASSUME NEW a \in Poly
  PROVE  /\ Backward(a, I, q) \in [Divisors(n) -> Poly] /\ Backward(a, I, q)[1] = a
         /\ \A k \in Divisors(n) :
              k # 1 => Backward(a, I, q)[k] = InversePass(Backward(a, I, q)[k \div 2], k \div 2, I, q)
<1> DEFINE T == I
           F == Backward(a, T, q)
<1>1. IsTable(T) /\ q \in Nat
  BY RightTables
<1> HIDE DEF T
<1>2. F \in [Divisors(n) -> Poly] /\ F[1] = a
  BY <1>1, BackwardRuns
<1>3. \A k \in Divisors(n) : k # 1 => F[k] = InversePass(F[k \div 2], k \div 2, T, q)
  BY <1>1, BackwardRuns
<1>4. QED  BY <1>2, <1>3 DEF T

(* After the last pass of NTTINV one block is left, n times the product. *)
LEMMA JoinedAll ==
  ASSUME NEW a \in Poly, NEW b \in Poly, NEW J \in [Divisors(n) -> Poly],
         J[1] = VECMULMOD(Forward(a, R, q)[n], Forward(b, R, q)[n], q),
         \A k \in Divisors(n) : k # 1 => J[k] = InversePass(J[k \div 2], k \div 2, I, q)
  PROVE  Joined(J[n], a, b, n, 1)
<1> DEFINE F == Forward(a, R, q)
           G == Forward(b, R, q)
           D == Divisors(n)
           T == {t \in Nat : t \in D => \A m \in Nat \ {0} : m * t = n => Joined(J[t], F[m], G[m], t, m)}
<1>1. /\ F \in [D -> Poly] /\ F[1] = a
      /\ \A k \in D : k # 1 => F[k] = ForwardPass(F[k \div 2], k \div 2, R, q)
  BY RightForward
<1>2. /\ G \in [D -> Poly] /\ G[1] = b
      /\ \A k \in D : k # 1 => G[k] = ForwardPass(G[k \div 2], k \div 2, R, q)
  BY RightForward
<1>3. J[1] = VECMULMOD(F[n], G[n], q) /\ J \in [D -> Poly]
  OBVIOUS
<1>4. \A k \in D : k # 1 => J[k] = InversePass(J[k \div 2], k \div 2, I, q)
  OBVIOUS
<1>5. 1 \in D /\ n \in D
  BY Ends
<1> HIDE DEF F, G
<1>6. ASSUME NEW t \in Nat, \A j \in 0..(t - 1) : j \in T PROVE t \in T
  <2> SUFFICES ASSUME t \in D, NEW m \in Nat \ {0}, m * t = n PROVE Joined(J[t], F[m], G[m], t, m)
    OBVIOUS
  <2>1. CASE t = 1
    <3>1. m = n
      BY <2>1
    <3>2. F[n] \in Poly /\ G[n] \in Poly
      BY <1>1, <1>2, <1>5
    <3>3. Joined(VECMULMOD(F[n], G[n], q), F[n], G[n], 1, n)
      BY <3>2, JoinedFirst
    <3>4. QED  BY <1>3, <2>1, <3>1, <3>3
  <2>2. CASE t # 1
    <3> DEFINE h == t \div 2
               k == 2 * m
    <3>1. h \in D /\ h < t /\ t = 2 * h /\ h \in Nat \ {0}
      BY <2>2, DivisorTwice
    <3> HIDE DEF h
    <3>2. m * (2 * h) = n
      BY <3>1
    <3>3. k \in Nat \ {0} /\ k * h = n /\ m \in D /\ k \in D /\ k \div 2 = m /\ k # 1
      BY <3>1, <3>2, DivisorStep
    <3> HIDE DEF k
    <3>4. h \in T
      BY <1>6, <3>1
    <3>5. Joined(J[h], F[k], G[k], h, k)
      BY <3>1, <3>3, <3>4
    <3>6. F[k] = ForwardPass(F[m], m, R, q) /\ G[k] = ForwardPass(G[m], m, R, q)
      BY <1>1, <1>2, <3>3
    <3>7. J[t] = InversePass(J[h], h, I, q)
      BY <1>4, <2>2 DEF h
    <3>8. J[h] \in Poly /\ F[m] \in Poly /\ G[m] \in Poly
      BY <1>1, <1>2, <3>1, <3>3
    <3>9. Joined(J[h], ForwardPass(F[m], m, R, q), ForwardPass(G[m], m, R, q), h, 2 * m)
      BY <3>5, <3>6 DEF k
    <3>10. Joined(InversePass(J[h], h, I, q), F[m], G[m], 2 * h, m)
      BY <3>1, <3>2, <3>8, <3>9, JoinedStep
    <3>11. QED  BY <3>1, <3>7, <3>10
  <2>3. QED  BY <2>1, <2>2
<1> HIDE DEF T, D
<1>7. Nat \subseteq T
  BY <1>6, StrongInduction
<1>8. n \in T /\ 1 * n = n /\ 1 \in Nat \ {0}
  BY <1>7, Field
<1>9. QED  BY <1>1, <1>2, <1>5, <1>8 DEF T

(***************************************************************************)
(* The tables of NTT are right, and so is their use: for every n that is a *)
(* power of two and every q, what ZKNOX_NTT computes through the transform *)
(* is the product of the polynomials modulo X^n + 1 and q.                 *)
(***************************************************************************)
THEOREM TransformMultiplies ==
  ASSUME NEW a \in Poly, NEW b \in Poly
  PROVE  NTTINV(VECMULMOD(NTTFW(a, R, q), NTTFW(b, R, q), q), I, q, Genuine.nm1modq) = Product(a, b, q)
<1> DEFINE e == VECMULMOD(NTTFW(a, R, q), NTTFW(b, R, q), q)
           J == Backward(e, I, q)
           u == Genuine.nm1modq
           C == [j \in 0..(n - 1) |-> Cyclic(a, b, -1, n, 0, j)]
<1>1. NTTFW(a, R, q) = Forward(a, R, q)[n] /\ NTTFW(b, R, q) = Forward(b, R, q)[n]
  BY ForwardIs, SizeIs
<1>2. Forward(a, R, q)[n] \in Poly /\ Forward(b, R, q)[n] \in Poly
  BY Ends, RightForward
<1>3. e = VECMULMOD(Forward(a, R, q)[n], Forward(b, R, q)[n], q) /\ e \in Poly
  <2>1. e = VECMULMOD(Forward(a, R, q)[n], Forward(b, R, q)[n], q)
    BY <1>1
  <2>2. QED  BY <1>2, <2>1, JoinedFirst
<1> HIDE DEF e
<1>4. /\ J \in [Divisors(n) -> Poly] /\ J[1] = e
      /\ \A k \in Divisors(n) : k # 1 => J[k] = InversePass(J[k \div 2], k \div 2, I, q)
  BY <1>3, RightBackward
<1> HIDE DEF J
<1>5. Joined(J[n], a, b, n, 1)
  BY <1>3, <1>4, JoinedAll
<1>6. NTTINV(e, I, q, u) = [j \in 0..(n - 1) |-> mulmod(J[n][j], u, q)]
  <2>1. NTTINV(e, I, q, u) = [j \in DOMAIN e |-> mulmod(Backward(e, I, q)[Size(e)][j], u, q)]
    BY InverseIs, Zenon
  <2>2. Size(e) = n /\ DOMAIN e = 0..(n - 1)
    BY <1>3, SizeIs
  <2>3. QED  BY <2>1, <2>2, Zenon DEF J
<1>7. u \in Int /\ (n * u) % q = 1 % q
  BY GenuineAssumption, StorageAssumption DEF GenuineAssumption, StorageAssumption, IsStorage
<1>8. J[n] \in Poly
  BY <1>4, Ends
<1> HIDE DEF u
<1>9. ASSUME NEW j \in 0..(n - 1)
      PROVE  C[j] \in Int /\ mulmod(J[n][j], u, q) = C[j] % q
  <2> DEFINE x == J[n][j]
             y == C[j]
             nu == n * u
             xu == x * u
             ny == n * y
             nyu == ny * u
             one == 1
  <2>1. Cong(x, n * y)
    <3>1. Cong(J[n][0 * n + j], n * Cyclic(a, b, Root(1 + 0), n, 0 * n, j))
      <4>1. 0 \in 0..(1 - 1)
        OBVIOUS
      <4>2. QED  BY <1>5, <4>1 DEF Joined
    <3>2. 0 * n + j = j /\ 0 * n = 0 /\ Root(1 + 0) = -1
      BY Field DEF Root
    <3>3. QED  BY <3>1, <3>2
  <2>2. y \in Int
    <3>1. \A k \in 0..(0 + n - 1) : a[k] \in Int /\ b[k] \in Int
      BY Field DEF Poly
    <3>2. -1 \in Int /\ n \in Nat /\ 0 \in Nat
      BY Field
    <3> DEFINE w == -1
    <3>3. w \in Int
      OBVIOUS
    <3> HIDE DEF w
    <3>4. Cyclic(a, b, w, n, 0, j) \in Int
      BY <3>1, <3>2, <3>3, CyclicInt
    <3>5. QED  BY <3>4 DEF w
  <2>3. x \in Int
    BY <1>8 DEF Poly
  <2> HIDE DEF x, y
  <2>4. Cong(nu, one) /\ nu \in Int /\ one \in Int
    <3>1. nu \in Int /\ one \in Int /\ nu % q = one % q
      BY <1>7, Field
    <3> HIDE DEF nu, one
    <3>2. QED  BY <3>1, CongFromMod
  <2>5. Cong(xu, nyu) /\ xu \in Int /\ nyu \in Int /\ ny \in Int
    <3>1. ny \in Int /\ Cong(x, ny)
      BY <2>1, <2>2, Field
    <3> HIDE DEF ny
    <3>2. Cong(x * u, ny * u)
      BY <1>7, <2>3, <3>1, CongScale
    <3>3. x * u \in Int /\ ny * u \in Int
      BY <1>7, <2>3, <3>1
    <3>4. QED  BY <3>1, <3>2, <3>3
  <2>6. nyu = y * nu
    BY <1>7, <2>2, Field
  <2>7. Cong(y * nu, y)
    <3> HIDE DEF nu, one
    <3>1. Cong(y * nu, y * one)
      BY <2>2, <2>4, CongScale
    <3>2. y * one = y
      BY <2>2 DEF one
    <3>3. QED  BY <3>1, <3>2
  <2>8. mulmod(x, u, q) \in 0..(q - 1) /\ Cong(mulmod(x, u, q), xu)
    BY <1>7, <2>3, MulMod
  <2> HIDE DEF nu, xu, ny, nyu
  <2>9. Cong(xu, y)
    BY <2>2, <2>5, <2>6, <2>7, CongTrans
  <2> DEFINE v == mulmod(x, u, q)
  <2>10. v \in Int /\ v \in 0..(q - 1) /\ Cong(v, xu)
    BY <2>8
  <2> HIDE DEF v
  <2>11. Cong(v, y)
    BY <2>2, <2>5, <2>9, <2>10, CongTrans
  <2>12. v % q = y % q
    BY <2>2, <2>10, <2>11, CongSame
  <2>13. v % q = v
    BY <2>10, Field
  <2>14. QED  BY <2>2, <2>12, <2>13 DEF v, x, y
<1>10. ASSUME NEW j \in 0..(n - 1) PROVE Product(a, b, q)[j] = C[j] % q
  <2> DEFINE f == [i \in 0..(n - 1) |-> IF i <= j THEN a[i] * b[j - i] ELSE -(a[i] * b[j - i + n])]
             g == Part(a, b, -1, n, 0, j)
  <2>1. Size(a) = n /\ DOMAIN a = 0..(n - 1)
    BY SizeIs
  <2>2. Product(a, b, q)[j] = SumFunction(f) % q
    BY <2>1 DEF Product
  <2>3. SumFunction(f) = Sigma(f, n)
    BY Zenon DEF SumFunction, Sigma, f
  <2>4. \A i \in 0..(n - 1) : f[i] \in Int /\ f[i] = g[i]
    <3> SUFFICES ASSUME NEW i \in 0..(n - 1) PROVE f[i] \in Int /\ f[i] = g[i]
      OBVIOUS
    <3>1. 0 + i = i /\ 0 + (j - i) = j - i /\ 0 + (j - i + n) = j - i + n
      BY Field
    <3>2. CASE i <= j
      <4>1. a[i] \in Int /\ b[j - i] \in Int
        BY <3>2, Field DEF Poly
      <4>2. f[i] = a[i] * b[j - i] /\ g[i] = a[i] * b[j - i]
        BY <3>1, <3>2 DEF Part
      <4> HIDE DEF f, g
      <4>3. QED  BY <4>1, <4>2
    <3>3. CASE ~(i <= j)
      <4>0. j - i + n \in 0..(n - 1)
        BY <3>3, Field
      <4> DEFINE x == a[i]
                 y == b[j - i + n]
      <4>1. x \in Int /\ y \in Int
        BY <4>0 DEF Poly
      <4>2. f[i] = -(x * y) /\ g[i] = (-1) * (x * y)
        BY <3>1, <3>3 DEF Part
      <4> HIDE DEF f, g, x, y
      <4>3. QED  BY <4>1, <4>2
    <3>4. QED  BY <3>2, <3>3
  <2>5. C[j] = Sigma(g, n)
    BY DEF Cyclic
  <2>6. n \in Nat
    BY Field
  <2> HIDE DEF f, g, C
  <2>7. Sigma(f, n) = Sigma(g, n)
    BY <2>4, <2>6, SigmaSame
  <2>8. QED  BY <2>2, <2>3, <2>5, <2>7
<1> HIDE DEF C
<1>11. Product(a, b, q) = [j \in 0..(n - 1) |-> Product(a, b, q)[j]]
  BY SizeIs DEF Product
<1>12. NTTINV(e, I, q, u) = Product(a, b, q)
  <2>1. \A j \in 0..(n - 1) : mulmod(J[n][j], u, q) = Product(a, b, q)[j]
    BY <1>9, <1>10
  <2>2. QED  BY <1>6, <1>11, <2>1, Zenon
<1>13. QED  BY <1>12 DEF e, u

---------------------------------------------------------------------------
(***************************************************************************)
(* The norm: a verification with the right tables accepts exactly the      *)
(* short signatures.                                                       *)
(***************************************************************************)
(* Coefficients as the contract's arrays hold them. *)
Natural == [0..(n - 1) -> Nat]

(* The storage that is in use, but for its flag. *)
LEMMA StorageUsed ==
  ASSUME NEW S, IsStorage(S), [ntt EXCEPT !.is_immutable = 1] = Constructed(S)
  PROVE  ntt.q = S.q /\ ntt.nm1modq = S.nm1modq /\ ntt.psirev = S.psirev /\ ntt.psiinvrev = S.psiinvrev
<1> DEFINE a == [ntt EXCEPT !.is_immutable = 1]
           b == [S EXCEPT !.is_immutable = 1]
<1>1. a = b
  BY DEF Constructed
<1>2. DOMAIN a = DOMAIN ntt /\ DOMAIN b = DOMAIN S
  OBVIOUS
<1>3. {"q", "nm1modq", "psirev", "psiinvrev"} \subseteq DOMAIN S
  BY DEF IsStorage
<1>4. DOMAIN ntt = DOMAIN S
  <2> HIDE DEF a, b
  <2>1. QED  BY <1>1, <1>2
<1>5. ASSUME NEW f \in {"q", "nm1modq", "psirev", "psiinvrev"}
      PROVE  ntt[f] = S[f]
  <2>1. a[f] = ntt[f]
    BY <1>3, <1>4
  <2>2. b[f] = S[f]
    BY <1>3
  <2> HIDE DEF a, b
  <2>3. QED  BY <1>1, <2>1, <2>2
<1>6. /\ ntt["q"] = S["q"] /\ ntt["nm1modq"] = S["nm1modq"]
      /\ ntt["psirev"] = S["psirev"] /\ ntt["psiinvrev"] = S["psiinvrev"]
  BY <1>5
<1>7. QED  BY <1>6

(* It is the right one. *)
LEMMA InUse ==
  ASSUME IsGenuine
  PROVE  ntt.q = q /\ ntt.nm1modq = Genuine.nm1modq /\ ntt.psirev = R /\ ntt.psiinvrev = I
<1>1. IsStorage(Genuine) /\ Genuine.q = q
  BY StorageAssumption, GenuineAssumption DEF StorageAssumption, GenuineAssumption
<1>2. QED  BY <1>1, StorageUsed DEF IsGenuine, R, I

(* With any storage, a product has coefficients. *)
LEMMA ProductTyped ==
  ASSUME NEW S, IsStorage(S), NEW a \in Poly, NEW b \in Poly
  PROVE  /\ NTT_MUL(a, b, S) \in Natural
         /\ \E e \in Poly : NTT_MUL(a, b, S) = NTTINV(e, S.psiinvrev, S.q, S.nm1modq)
<1> DEFINE T == S.psirev
           U == S.psiinvrev
           Q == S.q
           u == S.nm1modq
           x == NTTFW(a, T, Q)
           y == NTTFW(b, T, Q)
           e == VECMULMOD(x, y, Q)
           J == Backward(e, U, Q)
<1>1. IsTable(T) /\ IsTable(U) /\ Q \in Nat /\ u \in Nat
  BY DEF IsStorage, IsTable
<1>2. NTT_MUL(a, b, S) = NTTINV(e, U, Q, u)
  BY DEF NTT_MUL
<1> HIDE DEF T, U, Q, u
<1>3. x \in Poly /\ y \in Poly
  <2>1. x = Forward(a, T, Q)[n] /\ y = Forward(b, T, Q)[n]
    BY ForwardIs, SizeIs
  <2>2. Forward(a, T, Q)[n] \in Poly /\ Forward(b, T, Q)[n] \in Poly
    BY <1>1, Ends, ForwardRuns
  <2>3. QED  BY <2>1, <2>2
<1> HIDE DEF x, y
<1>4. e \in Poly
  <2>1. e = [i \in 0..(n - 1) |-> mulmod(x[i], y[i], Q)]
    BY <1>3, SizeIs DEF VECMULMOD
  <2>2. \A i \in 0..(n - 1) : x[i] \in Int /\ y[i] \in Int
    BY <1>3 DEF Poly
  <2>3. ASSUME NEW i \in 0..(n - 1) PROVE mulmod(x[i], y[i], Q) \in Int
    <3>1. x[i] \in Int /\ y[i] \in Int
      BY <2>2
    <3>2. mulmod(x[i], y[i], Q) \in Nat
      BY <1>1, <3>1, ModNat
    <3>3. QED  BY <3>2
  <2> HIDE DEF e
  <2>4. QED  BY <2>1, <2>3 DEF Poly
<1> HIDE DEF e
<1>5. NTTINV(e, U, Q, u) = [j \in 0..(n - 1) |-> mulmod(J[n][j], u, Q)]
  <2>1. NTTINV(e, U, Q, u) = [j \in DOMAIN e |-> mulmod(J[Size(e)][j], u, Q)]
    BY InverseIs, Zenon
  <2>2. Size(e) = n /\ DOMAIN e = 0..(n - 1)
    BY <1>4, SizeIs
  <2>3. QED  BY <2>1, <2>2
<1>6. J[n] \in Poly
  BY <1>1, <1>4, Ends, BackwardRuns
<1> HIDE DEF J
<1>7. ASSUME NEW j \in 0..(n - 1) PROVE mulmod(J[n][j], u, Q) \in Nat
  <2>0. u \in Int
    BY <1>1
  <2>1. J[n][j] \in Int /\ u \in Int
    <3> DEFINE v == J[n]
    <3>1. v \in Poly
      BY <1>6
    <3> HIDE DEF v
    <3>2. v[j] \in Int
      BY <3>1 DEF Poly
    <3>3. QED  BY <2>0, <3>2 DEF v
  <2>2. QED  BY <1>1, <2>1, ModNat
<1>8. NTTINV(e, U, Q, u) \in Natural
  BY <1>5, <1>7 DEF Natural
<1>9. QED  BY <1>2, <1>4, <1>8 DEF U, Q, u

(* The two ways to take a coefficient as close to zero as it can be. *)
LEMMA CentredNearest ==
  ASSUME NEW x \in 0..q, NEW y \in Int, Cong(x, y)
  PROVE  Centred(x) \in Int /\ Nearest(y) \in Int /\ Centred(x) * Centred(x) = Nearest(y) * Nearest(y)
<1>1. q \in Nat \ {0} /\ x \in Int
  BY Field
<1>2. x % q = y % q
  BY <1>1, CongSame
<1> DEFINE z == y % q
           h == q \div 2
           k == (q - 1) \div 2
<1>3. z \in 0..(q - 1)
  BY CongMod
<1>4. h \in Nat /\ k \in Nat /\ 2 * h <= q /\ q <= 2 * h + 1 /\ 2 * k <= q - 1 /\ q - 1 <= 2 * k + 1
  BY <1>1
<1>5. Centred(x) = (IF x > h THEN q - x ELSE x) /\ Nearest(y) = (IF z <= k THEN z ELSE q - z)
  BY DEF Centred, Nearest
<1>6. CASE x = q
  <2>1. q % q = 0
    <3>1. 1 * q + 0 = q
      BY <1>1
    <3>2. (1 * q + 0) % q = 0
      BY <1>1, QuotientUnique
    <3>3. QED  BY <3>1, <3>2
  <2>2. z = 0
    BY <1>2, <1>6, <2>1
  <2> HIDE DEF z, h, k
  <2>3. Centred(x) = 0 /\ Nearest(y) = 0
    BY <1>1, <1>4, <1>5, <1>6, <2>2
  <2>4. QED  BY <2>3
<1>7. CASE x # q
  <2>1. x % q = x
    BY <1>1, <1>7
  <2>2. z = x
    BY <1>2, <2>1
  <2> HIDE DEF z, h, k
  <2>3. Centred(x) = Nearest(y) /\ Centred(x) \in Int
    <3>1. CASE x > h
      <4>1. x <= k => x = q - x
        BY <1>1, <1>4, <3>1
      <4>2. QED  BY <1>1, <1>5, <2>2, <3>1, <4>1
    <3>2. CASE ~(x > h)
      <4>1. x <= k \/ x = q - x
        BY <1>1, <1>4, <3>2
      <4>2. QED  BY <1>1, <1>5, <2>2, <3>2, <4>1
    <3>3. QED  BY <3>1, <3>2
  <2>4. QED  BY <2>3
<1>8. QED  BY <1>6, <1>7

(* So the norms are the same numbers. *)
LEMMA NormIs ==
  ASSUME NEW a \in [0..(n - 1) -> 0..q], NEW b \in Poly, \A j \in 0..(n - 1) : Cong(a[j], b[j])
  PROVE  Squares(a) = Norm(b) /\ Squares(a) \in Int
<1> DEFINE f == [j \in 0..(n - 1) |-> Centred(a[j]) * Centred(a[j])]
           g == [j \in 0..(n - 1) |-> Nearest(b[j]) * Nearest(b[j])]
<1>1. DOMAIN a = 0..(n - 1) /\ DOMAIN b = 0..(n - 1)
  BY DEF Poly
<1>2. Squares(a) = SumFunction(f) /\ Norm(b) = SumFunction(g)
  BY <1>1, Zenon DEF Squares, Norm
<1>3. ASSUME NEW j \in 0..(n - 1)
      PROVE  Centred(a[j]) * Centred(a[j]) \in Int
             /\ Centred(a[j]) * Centred(a[j]) = Nearest(b[j]) * Nearest(b[j])
  <2> DEFINE x == a[j]
             y == b[j]
  <2>1. x \in 0..q /\ y \in Int /\ Cong(x, y)
    BY DEF Poly
  <2> HIDE DEF x, y
  <2>2. Centred(x) \in Int /\ Centred(x) * Centred(x) = Nearest(y) * Nearest(y)
    BY <2>1, CentredNearest
  <2>3. Centred(x) * Centred(x) \in Int
    BY <2>2
  <2>4. QED  BY <2>2, <2>3 DEF x, y
<1>4. f = g
  BY <1>3
<1>5. SumFunction(f) = Sigma(f, n)
  BY Zenon DEF SumFunction, Sigma, f
<1>6. \A j \in 0..(n - 1) : f[j] \in Int
  BY <1>3
<1> HIDE DEF f, g
<1>7. Sigma(f, n) \in Int
  BY <1>6, Field, SigmaInt
<1>8. QED  BY <1>2, <1>4, <1>5, <1>7

(***************************************************************************)
(* The verification, of a hash c that is complete.                         *)
(***************************************************************************)
(* Its coefficients. *)
LEMMA HashTyped ==
  ASSUME c \in Seq(0..(q - 1)), Len(c) = n
  PROVE  \A j \in 0..(n - 1) : Hashed[j] \in 0..(q - 1)
<1>1. n \in Nat \ {0}
  BY Field
<1>2. ASSUME NEW j \in 0..(n - 1) PROVE Hashed[j] \in 0..(q - 1)
  <2>1. j + 1 \in 1..Len(c)
    BY <1>1
  <2>2. c[j + 1] \in 0..(q - 1)
    <3> DEFINE S == 0..(q - 1)
    <3>1. c \in Seq(S)
      OBVIOUS
    <3> HIDE DEF S
    <3>2. c[j + 1] \in S
      BY <2>1, <3>1, ElementOfSeq
    <3>3. QED  BY <3>2 DEF S
  <2>3. Hashed[j] = c[j + 1]
    BY DEF Hashed
  <2>4. QED  BY <2>2, <2>3
<1>3. QED  BY <1>2

(* Whatever the product is, what is left of the hash without it is weighed. *)
LEMMA VerifiedIs ==
  ASSUME NEW p \in Natural, sig.s2 \in Natural, c \in Seq(0..(q - 1)), Len(c) = n,
         Verified(p) # "revert"
  PROVE  LET diff == [j \in 0..(n - 1) |-> Hashed[j] - p[j]]
         IN  /\ Verified(p) = IF Norm(diff) + Norm(sig.s2) <= sigBound
                               THEN "SIG_VALIDATION_SUCCESS" ELSE "SIG_VALIDATION_FAILED"
             /\ \A j \in 0..(n - 1) : diff[j] \in Int
             /\ Norm(diff) \in Int /\ Norm(sig.s2) \in Int
<1> DEFINE s1 == VECSUBMOD(Hashed, p, q)
           diff == [j \in 0..(n - 1) |-> Hashed[j] - p[j]]
           s2 == sig.s2
<1>1. n \in Nat \ {0} /\ q \in Nat \ {0} /\ sigBound \in Nat
  BY FalconAssumption DEF FalconAssumption
<1>2. s2 \in Natural /\ s2 \in Poly /\ DOMAIN p = 0..(n - 1)
  BY DEF Natural, Poly
<1> HIDE DEF s2
<1>3. Verified(p) = IF \E j \in 0..(n - 1) : p[j] > q \/ s2[j] > q THEN "revert"
                    ELSE IF Squares(s1) + Squares(s2) > sigBound THEN "SIG_VALIDATION_FAILED"
                    ELSE "SIG_VALIDATION_SUCCESS"
  BY <1>2, Zenon DEF Verified, s2
<1>4. \A j \in 0..(n - 1) : ~(p[j] > q \/ s2[j] > q)
  BY <1>3
<1>5. \A j \in 0..(n - 1) : Hashed[j] \in Int /\ p[j] \in Int
  BY <1>1, HashTyped DEF Natural
<1>6. s1 = [j \in 0..(n - 1) |-> addmod(Hashed[j], q - p[j], q)]
  BY DEF VECSUBMOD, Hashed
<1> HIDE DEF s1, diff
<1>7. ASSUME NEW j \in 0..(n - 1)
      PROVE  s1[j] \in 0..q /\ diff[j] \in Int /\ Cong(s1[j], diff[j])
  <2> DEFINE x == Hashed[j]
             y == p[j]
  <2>1. x \in Int /\ y \in Int
    BY <1>5
  <2>2. s1[j] = addmod(x, q - y, q) /\ diff[j] = x - y
    BY <1>6 DEF diff
  <2> HIDE DEF x, y
  <2>3. addmod(x, q - y, q) \in 0..(q - 1) /\ Cong(addmod(x, q - y, q), x - y)
    BY <2>1, SubMod
  <2>4. QED  BY <1>1, <2>1, <2>2, <2>3
<1>8. s1 \in [0..(n - 1) -> 0..q] /\ diff \in Poly
  <2>1. s1 = [j \in 0..(n - 1) |-> s1[j]] /\ diff = [j \in 0..(n - 1) |-> diff[j]]
    BY <1>6 DEF diff
  <2>2. QED  BY <1>7, <2>1 DEF Poly
<1>9. Squares(s1) = Norm(diff) /\ Squares(s1) \in Int
  BY <1>7, <1>8, NormIs
<1>10. s2 \in [0..(n - 1) -> 0..q]
  <2>1. \A j \in 0..(n - 1) : s2[j] \in 0..q
    BY <1>1, <1>2, <1>4 DEF Natural
  <2>2. QED  BY <1>2, <2>1 DEF Natural
<1>11. Squares(s2) = Norm(s2) /\ Squares(s2) \in Int
  <2>1. \A j \in 0..(n - 1) : Cong(s2[j], s2[j])
    BY <1>2, CongRefl DEF Poly
  <2>2. QED  BY <1>2, <1>10, <2>1, NormIs
<1>12. Verified(p) = IF Squares(s1) + Squares(s2) > sigBound THEN "SIG_VALIDATION_FAILED" ELSE "SIG_VALIDATION_SUCCESS"
  BY <1>3, <1>4
<1>13. Verified(p) = IF Norm(diff) + Norm(s2) <= sigBound THEN "SIG_VALIDATION_SUCCESS" ELSE "SIG_VALIDATION_FAILED"
  BY <1>1, <1>9, <1>11, <1>12
<1>14. QED  BY <1>7, <1>9, <1>11, <1>13 DEF diff, s2

(* With the right tables it is the product by its definition. *)
LEMMA VerifyIsShort ==
  ASSUME key \in Natural, sig.s2 \in Natural, c \in Seq(0..(q - 1)), Len(c) = n, IsGenuine,
         Verify # "revert"
  PROVE  /\ Verify = IF Short THEN "SIG_VALIDATION_SUCCESS" ELSE "SIG_VALIDATION_FAILED"
         /\ VerifyOpt = Verify
<1> DEFINE p == Product(sig.s2, key, q)
           diff == [j \in 0..(n - 1) |-> Hashed[j] - p[j]]
           s2 == sig.s2
<1>1. n \in Nat \ {0} /\ q \in Nat \ {0} /\ sigBound \in Nat
  BY FalconAssumption DEF FalconAssumption
<1>2. key \in Poly /\ s2 \in Poly /\ s2 \in Natural
  BY DEF Natural, Poly
<1> HIDE DEF s2
<1>3. NTT_MUL(s2, key, ntt) = Product(s2, key, q)
  <2>1. NTT_MUL(s2, key, ntt) = NTTINV(VECMULMOD(NTTFW(s2, R, q), NTTFW(key, R, q), q), I, q, Genuine.nm1modq)
    BY InUse, Zenon DEF NTT_MUL
  <2>2. QED  BY <1>2, <2>1, TransformMultiplies
<1>4. Verify = Verified(p)
  BY <1>3 DEF Verify, s2
<1>5. VerifyOpt = Verify
  <2>1. NTT_HALFMUL(s2, NTTFW(key, Genuine.psirev, q), ntt) = NTT_MUL(s2, key, ntt)
    BY InUse, Zenon DEF NTT_HALFMUL, NTT_MUL, R
  <2>2. QED  BY <2>1, Zenon DEF Verify, VerifyOpt, s2
<1>6. p = [j \in 0..(n - 1) |-> p[j]] /\ DOMAIN p = 0..(n - 1)
  <2>1. DOMAIN s2 = 0..(n - 1)
    BY <1>2, SizeIs
  <2>2. QED  BY <2>1 DEF Product, s2
<1>7. Short <=> Norm(diff) + Norm(s2) <= sigBound
  BY <1>6, Zenon DEF Short, s2
<1>8. \A j \in 0..(n - 1) : p[j] \in 0..(q - 1)
  <2> SUFFICES ASSUME NEW j \in 0..(n - 1) PROVE p[j] \in 0..(q - 1)
    OBVIOUS
  <2> DEFINE f == [i \in 0..(n - 1) |-> IF i <= j THEN s2[i] * key[j - i] ELSE -(s2[i] * key[j - i + n])]
  <2>1. Size(s2) = n /\ DOMAIN s2 = 0..(n - 1)
    BY <1>2, SizeIs
  <2>2. p[j] = SumFunction(f) % q
    BY <2>1 DEF Product, s2
  <2>3. SumFunction(f) = Sigma(f, n)
    BY Zenon DEF SumFunction, Sigma, f
  <2>4. ASSUME NEW i \in 0..(n - 1) PROVE f[i] \in Int
    <3>1. CASE i <= j
      <4>1. j - i \in 0..(n - 1)
        BY <1>1, <3>1
      <4>2. s2[i] \in Int /\ key[j - i] \in Int
        BY <1>2, <4>1 DEF Poly
      <4>3. f[i] = s2[i] * key[j - i]
        BY <3>1
      <4> HIDE DEF f
      <4>4. QED  BY <4>2, <4>3
    <3>2. CASE ~(i <= j)
      <4>1. j - i + n \in 0..(n - 1)
        BY <1>1, <3>2
      <4>2. s2[i] \in Int /\ key[j - i + n] \in Int
        BY <1>2, <4>1 DEF Poly
      <4>3. f[i] = -(s2[i] * key[j - i + n])
        BY <3>2
      <4> HIDE DEF f
      <4>4. QED  BY <4>2, <4>3
    <3>3. QED  BY <3>1, <3>2
  <2> HIDE DEF f, p
  <2>5. Sigma(f, n) \in Int
    BY <1>1, <2>4, SigmaInt
  <2>6. QED  BY <2>2, <2>3, <2>5, CongMod
<1>9. p \in Natural
  <2> HIDE DEF p
  <2>1. \A j \in 0..(n - 1) : p[j] \in Nat
    BY <1>1, <1>8
  <2>2. QED  BY <1>6, <2>1 DEF Natural
<1>10. Verify = IF Norm(diff) + Norm(s2) <= sigBound THEN "SIG_VALIDATION_SUCCESS" ELSE "SIG_VALIDATION_FAILED"
  <2> HIDE DEF p
  <2>1. QED  BY <1>4, <1>9, VerifiedIs DEF s2
<1> HIDE DEF diff
<1>11. QED  BY <1>5, <1>7, <1>10, Zenon

---------------------------------------------------------------------------
(***************************************************************************)
(* The bits of a number: readBits of what Binary writes, and Binary of     *)
(* what readBits reads.                                                    *)
(***************************************************************************)
(* Powers of two. *)
LEMMA Powers ==
  /\ Decoders!TwoTo \in [Nat -> Nat \ {0}] /\ Decoders!TwoTo[0] = 1
  /\ \A k \in Nat : Decoders!TwoTo[k + 1] = 2 * Decoders!TwoTo[k]
<1> DEFINE X == Nat \ {0}
           step == [s \in X \X Nat |-> 2 * s[1]]
           pred == [k \in Nat |-> k - 1]
           Is(g) == g = [k \in Nat |-> IF k = 0 THEN 1 ELSE 2 * g[k - 1]]
           B == {0}
<1>1. \A k \in Nat \ B : pred[k] \in Nat /\ pred[k] < k /\ pred[k] = k - 1
  OBVIOUS
<1>2. step \in [X \X Nat -> X] /\ 1 \in X /\ \A x \in X, k \in Nat : step[<<x, k>>] = 2 * x
  OBVIOUS
<1>0. Nat \in SUBSET Nat
  OBVIOUS
<1> DEFINE one == 1
           N == Nat
<1> HIDE DEF B, step, pred, one, X, N
<1>3. PICK f \in [N -> X] : Recurs(f, N, one, step, pred, B)
  <2>1. \A k \in N \ B : pred[k] \in N /\ pred[k] < k
    BY <1>1 DEF N
  <2>2. step \in [X \X N -> X] /\ one \in X /\ N \in SUBSET Nat
    BY <1>2 DEF N, one
  <2>3. QED  BY <2>1, <2>2, RecursionOn
<1>4. f = [k \in Nat |-> IF k \in B THEN one ELSE step[<<f[pred[k]], k>>]] /\ f \in [Nat -> X]
  BY <1>3 DEF Recurs, N
<1>5. ASSUME NEW k \in Nat PROVE f[k] = IF k = 0 THEN 1 ELSE 2 * f[k - 1]
  <2>1. f[k] = IF k = 0 THEN 1 ELSE step[<<f[pred[k]], k>>]
    BY <1>4 DEF B, one
  <2>2. CASE k # 0
    <3>1. pred[k] = k - 1 /\ k - 1 \in Nat
      BY <1>1, <2>2 DEF B
    <3>2. f[k - 1] \in X
      BY <1>4, <3>1
    <3>3. QED  BY <1>2, <2>1, <2>2, <3>1, <3>2
  <2>3. QED  BY <2>1, <2>2
<1>6. Is(f)
  <2>1. f = [k \in Nat |-> f[k]]
    BY <1>4
  <2>2. QED  BY <1>5, <2>1, Zenon
<1>7. Is(Decoders!TwoTo)
  <2>1. Decoders!TwoTo = CHOOSE g : Is(g)
    BY Zenon DEF Decoders!TwoTo
  <2> HIDE DEF Is
  <2>2. QED  BY <1>6, <2>1, Zenon
<1> DEFINE T == Decoders!TwoTo
<1> HIDE DEF T
<1>8. T = [k \in Nat |-> IF k = 0 THEN 1 ELSE 2 * T[k - 1]]
  BY <1>7, Zenon DEF T
<1> HIDE DEF Is
<1>9. T[0] = 1 /\ \A k \in Nat : T[k + 1] = 2 * T[k]
  <2>1. T[0] = 1
    BY <1>8
  <2>2. ASSUME NEW k \in Nat PROVE T[k + 1] = 2 * T[k]
    <3>1. k + 1 \in Nat /\ k + 1 # 0 /\ k + 1 - 1 = k
      OBVIOUS
    <3>2. T[k + 1] = IF k + 1 = 0 THEN 1 ELSE 2 * T[k + 1 - 1]
      <4>1. \A j \in Nat : T[j] = IF j = 0 THEN 1 ELSE 2 * T[j - 1]
        BY <1>8, Zenon
      <4>2. QED  BY <3>1, <4>1
    <3>3. QED  BY <3>1, <3>2
  <2>3. QED  BY <2>1, <2>2
<1>10. \A k \in Nat : T[k] \in X
  <2> DEFINE U == {k \in Nat : T[k] \in X}
  <2>1. 0 \in U
    BY <1>9 DEF X
  <2>2. ASSUME NEW k \in Nat, k \in U PROVE k + 1 \in U
    BY <1>9, <2>2 DEF X
  <2> HIDE DEF U
  <2>3. Nat \subseteq U
    BY <2>1, <2>2, Induction
  <2>4. QED  BY <2>3 DEF U
<1>11. T \in [Nat -> X]
  <2>1. DOMAIN T = Nat /\ T = [k \in Nat |-> T[k]]
    BY <1>8
  <2>2. QED  BY <1>10, <2>1
<1>12. QED  BY <1>9, <1>11 DEF T, X

(* Division by twice a number. *)
LEMMA Halving ==
  ASSUME NEW v \in Nat, NEW t \in Nat \ {0}
  PROVE  /\ v \div (2 * t) \in Nat /\ v \div t \in Nat
         /\ v \div t = 2 * (v \div (2 * t)) + ((v \div t) % 2)
         /\ v \div (2 * t) = (v \div t) \div 2
<1> DEFINE a == v \div t
           b == v % t
           e == a \div 2
           f == a % 2
           d == 2 * t
           x == f * t + b
<1>1. a \in Nat /\ b \in 0..(t - 1) /\ v = a * t + b
  OBVIOUS
<1>2. d \in Nat \ {0}
  OBVIOUS
<1>3. e \in Nat /\ f \in {0, 1} /\ a = 2 * e + f
  BY <1>1
<1> HIDE DEF a, b, e, f
<1>4. x \in 0..(d - 1)
  <2>1. CASE f = 0
    BY <1>1, <2>1
  <2>2. CASE f = 1
    BY <1>1, <2>2
  <2>3. QED  BY <1>3, <2>1, <2>2
<1>5. v = e * d + x
  BY <1>1, <1>3
<1> HIDE DEF d, x
<1>6. v \div d = e
  BY <1>2, <1>3, <1>4, <1>5, QuotientUnique
<1>7. QED  BY <1>1, <1>3, <1>6 DEF a, e, d, f

(* The bits of a number, read one by one. *)
ReadAs(f, bits, p, k) ==
  /\ f \in [0..k -> Nat] /\ f[0] = 0 /\ Decoders!readBits(bits, p, k) = f[k]
  /\ \A j \in 1..k : f[j] = 2 * f[j - 1] + Decoders!Bit(bits, p + j - 1)

(* The accumulator of readBits, bit by bit, is a function. *)
LEMMA ReadRuns ==
  ASSUME NEW bits, NEW p \in Nat, NEW k \in Nat, \A j \in 0..(k - 1) : Decoders!Bit(bits, p + j) \in {0, 1}
  PROVE  \E f : ReadAs(f, bits, p, k)
<1> DEFINE X == Nat
           D == 0..k
           B == {0}
           base == 0
           G(v, j) == 2 * v + Decoders!Bit(bits, p + j - 1)
           step == [s \in X \X D |-> IF s[2] = 0 THEN 0 ELSE G(s[1], s[2])]
           pred == [j \in D |-> j - 1]
           Is(g) == g = [j \in 0..k |-> IF j = 0 THEN 0 ELSE 2 * g[j - 1] + Decoders!Bit(bits, p + j - 1)]
<1>1. \A j \in D \ B : pred[j] \in D /\ pred[j] < j /\ pred[j] = j - 1
  OBVIOUS
<1>2. \A v \in X, j \in D : j # 0 => G(v, j) \in X
  <2> SUFFICES ASSUME NEW v \in X, NEW j \in D, j # 0 PROVE G(v, j) \in X
    OBVIOUS
  <2>1. j - 1 \in 0..(k - 1) /\ p + (j - 1) = p + j - 1
    OBVIOUS
  <2>2. Decoders!Bit(bits, p + j - 1) \in {0, 1}
    BY <2>1
  <2> HIDE DEF D
  <2>3. QED  BY <2>2
<1>3. step \in [X \X D -> X] /\ \A v \in X, j \in D : j # 0 => step[<<v, j>>] = G(v, j)
  <2> HIDE DEF G, D
  <2>1. QED  BY <1>2
<1>4. D \in SUBSET Nat /\ base \in X
  OBVIOUS
<1> HIDE DEF X, D, B, base, step, pred
<1>5. PICK f \in [D -> X] : Recurs(f, D, base, step, pred, B)
  <2>1. \A j \in D \ B : pred[j] \in D /\ pred[j] < j
    BY <1>1
  <2>2. step \in [X \X D -> X]
    BY <1>3
  <2> HIDE DEF G
  <2>3. QED  BY <1>4, <2>1, <2>2, RecursionOn
<1>6. ASSUME NEW j \in D PROVE f[j] = IF j = 0 THEN 0 ELSE G(f[j - 1], j)
  <2>1. f[j] = IF j = 0 THEN 0 ELSE step[<<f[pred[j]], j>>]
    BY <1>5 DEF Recurs, B, base
  <2>2. CASE j # 0
    <3>1. pred[j] = j - 1 /\ j - 1 \in D
      BY <1>1, <2>2 DEF B
    <3>2. f[j - 1] \in X
      BY <3>1
    <3> HIDE DEF G
    <3>3. QED  BY <1>3, <2>1, <2>2, <3>1, <3>2
  <2>3. QED  BY <2>1, <2>2
<1>7. Is(f)
  <2>1. f = [j \in D |-> f[j]]
    OBVIOUS
  <2>2. QED  BY <1>6, <2>1, Zenon DEF D
<1> DEFINE F == CHOOSE g : Is(g)
<1>8. Decoders!readBits(bits, p, k) = F[k]
  BY Zenon DEF Decoders!readBits
<1>9. Is(F)
  <2> HIDE DEF Is
  <2>1. QED  BY <1>7, Zenon
<1> HIDE DEF F
<1>10. F = [j \in D |-> IF j = 0 THEN 0 ELSE G(F[j - 1], j)]
  BY <1>9, Zenon DEF D
<1>11. \A j \in D : F[j] = IF j = 0 THEN 0 ELSE G(F[j - 1], j)
  BY <1>10, Zenon
<1> HIDE DEF G, Is
<1>12. \A j \in D : F[j] \in X
  <2> DEFINE U == {j \in Nat : j \in D => F[j] \in X}
  <2>1. 0 \in U
    BY <1>4, <1>11 DEF base
  <2>2. ASSUME NEW j \in Nat, j \in U PROVE j + 1 \in U
    <3> SUFFICES ASSUME j + 1 \in D PROVE F[j + 1] \in X
      OBVIOUS
    <3>1. j \in D /\ j + 1 # 0 /\ (j + 1) - 1 = j
      BY DEF D
    <3>2. F[j + 1] = G(F[j], j + 1)
      BY <1>11, <3>1
    <3>3. QED  BY <1>2, <2>2, <3>1, <3>2
  <2> HIDE DEF U
  <2>3. Nat \subseteq U
    BY <2>1, <2>2, Induction
  <2>4. QED  BY <1>4, <2>3 DEF U
<1>13. F \in [0..k -> Nat]
  <2>1. F = [j \in D |-> F[j]]
    BY <1>10
  <2>2. QED  BY <1>12, <2>1 DEF D, X
<1>14. F[0] = 0 /\ \A j \in 1..k : F[j] = 2 * F[j - 1] + Decoders!Bit(bits, p + j - 1)
  BY <1>11 DEF D, G
<1>15. QED  BY <1>8, <1>13, <1>14 DEF ReadAs

(* What Binary writes, readBits reads. *)
LEMMA BinaryRead ==
  ASSUME NEW bits, NEW p \in Nat, NEW k \in Nat, NEW v \in Nat, v < Decoders!TwoTo[k],
         \A j \in 1..k : Decoders!Bit(bits, p + j - 1) = Decoders!Binary(v, k)[j]
  PROVE  Decoders!readBits(bits, p, k) = v
<1> DEFINE T == Decoders!TwoTo
<1>1. T \in [Nat -> Nat \ {0}] /\ T[0] = 1 /\ \A j \in Nat : T[j + 1] = 2 * T[j]
  BY Powers
<1>2. v < T[k]
  OBVIOUS
<1> HIDE DEF T
<1>3. ASSUME NEW j \in 1..k
      PROVE  /\ k - j \in Nat /\ T[k - j] \in Nat \ {0} /\ T[k - (j - 1)] = 2 * T[k - j]
             /\ Decoders!Bit(bits, p + j - 1) = (v \div T[k - j]) % 2
  <2>1. k - j \in Nat /\ k - (j - 1) = (k - j) + 1
    OBVIOUS
  <2>2. Decoders!Binary(v, k)[j] = (v \div T[k - j]) % 2
    BY DEF Decoders!Binary, T
  <2>3. QED  BY <1>1, <2>1, <2>2
<1>4. ASSUME NEW j \in 0..(k - 1) PROVE Decoders!Bit(bits, p + j) \in {0, 1}
  <2> DEFINE i == j + 1
             t == T[k - i]
             w == v \div t
  <2>1. i \in 1..k /\ p + j = p + i - 1
    OBVIOUS
  <2> HIDE DEF i
  <2>2. Decoders!Bit(bits, p + i - 1) = w % 2 /\ w \in Nat
    <3>1. Decoders!Bit(bits, p + i - 1) = w % 2 /\ t \in Nat \ {0}
      BY <1>3, <2>1
    <3> HIDE DEF t
    <3>2. QED  BY <3>1
  <2> HIDE DEF w
  <2>3. w % 2 \in {0, 1}
    BY <2>2
  <2>4. QED  BY <2>1, <2>2, <2>3
<1>45. PICK f : ReadAs(f, bits, p, k)
  BY <1>4, ReadRuns
<1>5. /\ f \in [0..k -> Nat] /\ f[0] = 0 /\ Decoders!readBits(bits, p, k) = f[k]
      /\ \A j \in 1..k : f[j] = 2 * f[j - 1] + Decoders!Bit(bits, p + j - 1)
  BY <1>45 DEF ReadAs
<1> DEFINE U == {j \in Nat : j <= k => f[j] = v \div T[k - j]}
<1>6. 0 \in U
  <2> DEFINE t == T[k]
  <2>1. t \in Nat \ {0} /\ v < t /\ k - 0 = k
    BY <1>1, <1>2
  <2> HIDE DEF t
  <2>2. v \div t = 0
    <3> DEFINE none == 0
    <3>1. v \in 0..(t - 1) /\ none \in Nat /\ none * t + v = v
      BY <2>1
    <3> HIDE DEF none
    <3>2. (none * t + v) \div t = none
      BY <2>1, <3>1, QuotientUnique
    <3>3. QED  BY <3>1, <3>2 DEF none
  <2>3. QED  BY <1>5, <2>1, <2>2 DEF t
<1>7. ASSUME NEW j \in Nat, j \in U PROVE j + 1 \in U
  <2> SUFFICES ASSUME j + 1 <= k PROVE f[j + 1] = v \div T[k - (j + 1)]
    OBVIOUS
  <2> DEFINE i == j + 1
             t == T[k - i]
  <2>1. i \in 1..k /\ i - 1 = j
    OBVIOUS
  <2> HIDE DEF i
  <2>2. /\ t \in Nat \ {0} /\ T[k - j] = 2 * t /\ Decoders!Bit(bits, p + i - 1) = (v \div t) % 2
    BY <1>3, <2>1
  <2>3. f[i] = 2 * f[j] + Decoders!Bit(bits, p + i - 1) /\ f[j] = v \div T[k - j]
    BY <1>5, <1>7, <2>1
  <2> HIDE DEF t
  <2>4. v \div t = 2 * (v \div (2 * t)) + ((v \div t) % 2)
    BY <2>2, Halving
  <2>5. f[i] = v \div t
    BY <2>2, <2>3, <2>4
  <2>6. QED  BY <2>5 DEF i, t
<1> HIDE DEF U
<1>8. Nat \subseteq U
  BY <1>6, <1>7, Induction
<1>9. f[k] = v \div T[k - k]
  BY <1>8 DEF U
<1>10. k - k = 0 /\ v \div 1 = v
  OBVIOUS
<1>11. QED  BY <1>1, <1>5, <1>9, <1>10

(* And what readBits reads, Binary writes. *)
LEMMA ReadBinary ==
  ASSUME NEW bits, NEW p \in Nat, NEW k \in Nat, \A j \in 0..(k - 1) : Decoders!Bit(bits, p + j) \in {0, 1}
  PROVE  LET v == Decoders!readBits(bits, p, k)
         IN  /\ v \in Nat /\ v < Decoders!TwoTo[k]
             /\ \A j \in 1..k : Decoders!Binary(v, k)[j] = Decoders!Bit(bits, p + j - 1)
<1> DEFINE T == Decoders!TwoTo
           v == Decoders!readBits(bits, p, k)
<1>1. T \in [Nat -> Nat \ {0}] /\ T[0] = 1 /\ \A j \in Nat : T[j + 1] = 2 * T[j]
  BY Powers
<1>15. PICK f : ReadAs(f, bits, p, k)
  BY ReadRuns
<1>2. /\ f \in [0..k -> Nat] /\ f[0] = 0 /\ v = f[k] /\ v \in Nat
      /\ \A j \in 1..k : f[j] = 2 * f[j - 1] + Decoders!Bit(bits, p + j - 1)
  <2>1. k \in 0..k
    OBVIOUS
  <2>2. QED  BY <1>15, <2>1 DEF ReadAs
<1> HIDE DEF v, T
<1>3. ASSUME NEW j \in 1..k
      PROVE  /\ Decoders!Bit(bits, p + j - 1) \in {0, 1} /\ f[j] \in Nat /\ f[j - 1] \in Nat
             /\ f[j] = 2 * f[j - 1] + Decoders!Bit(bits, p + j - 1)
  <2>1. j - 1 \in 0..(k - 1) /\ p + (j - 1) = p + j - 1 /\ j \in 0..k /\ j - 1 \in 0..k
    OBVIOUS
  <2>2. Decoders!Bit(bits, p + j - 1) \in {0, 1}
    BY <2>1
  <2>3. QED  BY <1>2, <2>1, <2>2
<1> DEFINE U == {j \in Nat : j <= k => f[j] < T[j]}
<1>4. 0 \in U
  BY <1>1, <1>2
<1>5. ASSUME NEW j \in Nat, j \in U PROVE j + 1 \in U
  <2> SUFFICES ASSUME j + 1 <= k PROVE f[j + 1] < T[j + 1]
    OBVIOUS
  <2>1. j + 1 \in 1..k /\ j + 1 - 1 = j /\ p + (j + 1) - 1 = p + j
    OBVIOUS
  <2>2. f[j + 1] = 2 * f[j] + Decoders!Bit(bits, p + (j + 1) - 1) /\ Decoders!Bit(bits, p + (j + 1) - 1) \in {0, 1}
        /\ f[j] \in Nat
    BY <1>3, <2>1
  <2>3. f[j] < T[j] /\ T[j] \in Nat /\ T[j + 1] = 2 * T[j]
    BY <1>1, <1>5
  <2>4. QED  BY <2>2, <2>3
<1> HIDE DEF U
<1>6. Nat \subseteq U
  BY <1>4, <1>5, Induction
<1>7. v < T[k]
  BY <1>2, <1>6 DEF U
<1> DEFINE W == {i \in Nat : i <= k => v \div T[i] = f[k - i]}
<1>8. 0 \in W
  <2>1. v \in Nat /\ k - 0 = k
    BY <1>2
  <2>2. v \div 1 = v
    BY <2>1
  <2>3. QED  BY <1>1, <1>2, <2>1, <2>2
<1>9. ASSUME NEW i \in Nat, i \in W PROVE i + 1 \in W
  <2> SUFFICES ASSUME i + 1 <= k PROVE v \div T[i + 1] = f[k - (i + 1)]
    OBVIOUS
  <2> DEFINE j == k - i
             t == T[i]
             b == Decoders!Bit(bits, p + j - 1)
             w == f[j - 1]
  <2>1. j \in 1..k /\ k - (i + 1) = j - 1
    OBVIOUS
  <2>2. v \div t = f[j]
    BY <1>9
  <2> HIDE DEF j
  <2>3. b \in {0, 1} /\ w \in Nat /\ f[j] = 2 * w + b
    BY <1>3, <2>1
  <2>4. t \in Nat \ {0} /\ T[i + 1] = 2 * t /\ v \in Nat
    BY <1>1, <1>2
  <2> HIDE DEF t, b, w
  <2>5. v \div (2 * t) = (v \div t) \div 2
    BY <2>4, Halving
  <2>6. (2 * w + b) \div 2 = w
    BY <2>3
  <2>7. QED  BY <2>1, <2>2, <2>3, <2>4, <2>5, <2>6 DEF w
<1> HIDE DEF W
<1>10. Nat \subseteq W
  BY <1>8, <1>9, Induction
<1>11. ASSUME NEW j \in 1..k PROVE Decoders!Binary(v, k)[j] = Decoders!Bit(bits, p + j - 1)
  <2> DEFINE b == Decoders!Bit(bits, p + j - 1)
             w == f[j - 1]
  <2>1. Decoders!Binary(v, k)[j] = (v \div T[k - j]) % 2
    BY DEF Decoders!Binary, T
  <2>2. v \div T[k - j] = f[j]
    <3>1. k - j \in Nat /\ k - j <= k /\ k - (k - j) = j
      OBVIOUS
    <3>2. QED  BY <1>10, <3>1 DEF W
  <2>3. b \in {0, 1} /\ w \in Nat /\ f[j] = 2 * w + b
    BY <1>3
  <2> HIDE DEF b, w
  <2>4. (2 * w + b) % 2 = b
    BY <2>3
  <2>5. QED  BY <2>1, <2>2, <2>3, <2>4 DEF b
<1>12. QED  BY <1>2, <1>7, <1>11 DEF v, T

---------------------------------------------------------------------------
(***************************************************************************)
(* What stands where in the data, and the parts of what was joined.        *)
(***************************************************************************)
(* w stands in the data from position p on. *)
Holds(bits, p, w) == \A j \in 1..Len(w) : p + j - 1 \in 1..Len(bits) /\ bits[p + j - 1] = w[j]

(* What stands one after the other, *)
LEMMA HoldsJoin ==
  ASSUME NEW X, NEW bits \in Seq(X), NEW v \in Seq(X), NEW w \in Seq(X), NEW p \in Nat
  PROVE  Holds(bits, p, v \o w) <=> Holds(bits, p, v) /\ Holds(bits, p + Len(v), w)
<1> DEFINE l == Len(v)
           m == Len(w)
           vw == v \o w
<1>1. l \in Nat /\ m \in Nat /\ vw \in Seq(X) /\ Len(vw) = l + m
  BY ConcatProperties
<1>2. /\ \A j \in 1..l : vw[j] = v[j]
      /\ \A j \in 1..m : vw[l + j] = w[j]
  <2>1. ASSUME NEW j \in 1..l PROVE vw[j] = v[j]
    <3>1. j \in 1..(Len(v) + Len(w)) /\ j <= Len(v)
      BY <1>1
    <3>2. QED  BY <3>1, ConcatProperties
  <2>2. ASSUME NEW j \in 1..m PROVE vw[l + j] = w[j]
    <3>1. l + j \in 1..(Len(v) + Len(w)) /\ ~(l + j <= Len(v)) /\ l + j - Len(v) = j
      BY <1>1
    <3>2. QED  BY <3>1, ConcatProperties
  <2>3. QED  BY <2>1, <2>2
<1> HIDE DEF vw
<1>3. ASSUME Holds(bits, p, vw) PROVE Holds(bits, p, v) /\ Holds(bits, p + l, w)
  <2>1. ASSUME NEW j \in 1..l PROVE p + j - 1 \in 1..Len(bits) /\ bits[p + j - 1] = v[j]
    <3>1. j \in 1..Len(vw)
      BY <1>1
    <3>2. QED  BY <1>2, <1>3, <3>1 DEF Holds
  <2>2. ASSUME NEW j \in 1..m PROVE p + l + j - 1 \in 1..Len(bits) /\ bits[p + l + j - 1] = w[j]
    <3>1. l + j \in 1..Len(vw) /\ p + (l + j) - 1 = p + l + j - 1
      BY <1>1
    <3>2. p + (l + j) - 1 \in 1..Len(bits) /\ bits[p + (l + j) - 1] = vw[l + j]
      BY <1>3, <3>1 DEF Holds
    <3>3. QED  BY <1>2, <3>1, <3>2
  <2>3. QED  BY <2>1, <2>2 DEF Holds
<1>4. ASSUME Holds(bits, p, v), Holds(bits, p + l, w) PROVE Holds(bits, p, vw)
  <2> SUFFICES ASSUME NEW j \in 1..Len(vw)
               PROVE  p + j - 1 \in 1..Len(bits) /\ bits[p + j - 1] = vw[j]
    BY DEF Holds
  <2>1. CASE j <= l
    <3>1. j \in 1..l
      BY <2>1
    <3>2. QED  BY <1>2, <1>4, <3>1 DEF Holds
  <2>2. CASE ~(j <= l)
    <3> DEFINE i == j - l
    <3>1. i \in 1..m /\ l + i = j /\ p + l + i - 1 = p + j - 1
      BY <1>1, <2>2
    <3> HIDE DEF i
    <3>2. p + l + i - 1 \in 1..Len(bits) /\ bits[p + l + i - 1] = w[i]
      BY <1>4, <3>1 DEF Holds
    <3>3. QED  BY <1>2, <3>1, <3>2
  <2>3. QED  BY <2>1, <2>2
<1>5. QED  BY <1>3, <1>4 DEF vw

(* what is written from the first position on, *)
LEMMA HoldsSelf ==
  ASSUME NEW X, NEW w \in Seq(X)
  PROVE  Holds(w, 1, w)
BY DEF Holds

(* and what is followed by more. *)
LEMMA HoldsMore ==
  ASSUME NEW X, NEW bits \in Seq(X), NEW more \in Seq(X), NEW w \in Seq(X), NEW p \in Nat, Holds(bits, p, w)
  PROVE  Holds(bits \o more, p, w)
<1> DEFINE b == bits \o more
<1>1. Len(b) = Len(bits) + Len(more) /\ Len(bits) \in Nat /\ Len(more) \in Nat
  BY ConcatProperties
<1>2. \A i \in 1..Len(bits) : i \in 1..Len(b) /\ b[i] = bits[i]
  <2> SUFFICES ASSUME NEW i \in 1..Len(bits) PROVE i \in 1..Len(b) /\ b[i] = bits[i]
    OBVIOUS
  <2>1. i \in 1..(Len(bits) + Len(more)) /\ i <= Len(bits)
    BY <1>1
  <2>2. QED  BY <1>1, <2>1, ConcatProperties
<1> HIDE DEF b
<1>3. Holds(b, p, w)
  BY <1>2 DEF Holds
<1>4. QED  BY <1>3 DEF b

(* What stands first is cut off by its length. *)
LEMMA HoldsPrefix ==
  ASSUME NEW X, NEW bits \in Seq(X), NEW w \in Seq(X), Holds(bits, 1, w)
  PROVE  SubSeq(bits, 1, Len(w)) = w
<1> DEFINE l == Len(w)
           s == SubSeq(bits, 1, l)
<1>1. l \in Nat /\ Len(bits) \in Nat
  OBVIOUS
<1>2. \A j \in 1..l : j \in 1..Len(bits) /\ bits[j] = w[j]
  <2> SUFFICES ASSUME NEW j \in 1..l PROVE j \in 1..Len(bits) /\ bits[j] = w[j]
    OBVIOUS
  <2>1. 1 + j - 1 = j
    OBVIOUS
  <2>2. QED  BY <2>1 DEF Holds
<1>3. l <= Len(bits)
  <2>1. CASE l = 0
    BY <1>1, <2>1
  <2>2. CASE l # 0
    <3>1. l \in 1..l
      BY <1>1, <2>2
    <3>2. l \in 1..Len(bits)
      BY <1>2, <3>1
    <3>3. QED  BY <1>1, <3>2
  <2>3. QED  BY <2>1, <2>2
<1>4. s = [j \in 1..l |-> bits[j]]
  BY <1>1, <1>3
<1>5. w = [j \in 1..l |-> w[j]]
  OBVIOUS
<1>6. QED  BY <1>2, <1>4, <1>5

(***************************************************************************)
(* Data put together from parts: g[u] is the first u of them.              *)
(***************************************************************************)
Joins(g, s, X) ==
  /\ g \in [0..Len(s) -> Seq(X)] /\ g[0] = <<>>
  /\ \A u \in 1..Len(s) : g[u] = g[u - 1] \o s[u]

(* The fold that joins sequences, part by part. *)
LEMMA Flattened ==
  ASSUME NEW X, NEW s \in Seq(Seq(X))
  PROVE  \E g : Joins(g, s, X) /\ Decoders!FlattenSeq(s) = g[Len(s)]
<1> DEFINE N == Len(s)
<1>1. N \in Nat /\ <<>> \in Seq(X) /\ \A u \in 1..N : s[u] \in Seq(X)
  BY EmptySeq
<1>2. CASE N = 0
  <2> DEFINE g == [u \in 0..0 |-> <<>>]
  <2>1. s = <<>>
    BY <1>2, EmptySeq
  <2>2. Decoders!FlattenSeq(s) = <<>>
    BY <1>2, <2>1 DEF Decoders!FlattenSeq
  <2>3. g \in [0..Len(s) -> Seq(X)] /\ g[0] = <<>> /\ g[Len(s)] = <<>>
    BY <1>1, <1>2
  <2>4. 1..Len(s) = {}
    BY <1>2
  <2> HIDE DEF g
  <2>5. Joins(g, s, X)
    BY <2>3, <2>4 DEF Joins
  <2>6. QED  BY <2>2, <2>3, <2>5
<1>3. CASE N # 0
  <2> DEFINE D == 1..N
             Y == Seq(X)
             B == {1}
             base == s[1]
             step == [t \in Y \X D |-> t[1] \o s[t[2]]]
             pred == [u \in D |-> u - 1]
             Is(f) == f = [u \in 1..Len(s) |-> IF u = 1 THEN s[u] ELSE f[u - 1] \o s[u]]
  <2>1. \A u \in D \ B : pred[u] \in D /\ pred[u] < u /\ pred[u] = u - 1
    BY <1>1
  <2>2. D \in SUBSET Nat /\ 1 \in D /\ base \in Y /\ \A u \in D : s[u] \in Y
    BY <1>1, <1>3
  <2>3. step \in [Y \X D -> Y] /\ \A w \in Y, u \in D : step[<<w, u>>] = w \o s[u]
    <3>1. ASSUME NEW w \in Y, NEW u \in D PROVE w \o s[u] \in Y
      BY <2>2, ConcatProperties
    <3> HIDE DEF Y, D
    <3>2. QED  BY <3>1
  <2> HIDE DEF D, Y, B, base, step, pred
  <2>4. PICK f \in [D -> Y] : Recurs(f, D, base, step, pred, B)
    <3>1. \A u \in D \ B : pred[u] \in D /\ pred[u] < u
      BY <2>1
    <3>2. step \in [Y \X D -> Y]
      BY <2>3
    <3>3. QED  BY <2>2, <3>1, <3>2, RecursionOn
  <2>5. ASSUME NEW u \in D PROVE f[u] = IF u = 1 THEN s[u] ELSE f[u - 1] \o s[u]
    <3>1. f[u] = IF u = 1 THEN s[u] ELSE step[<<f[pred[u]], u>>]
      BY <2>4 DEF Recurs, B, base
    <3>2. CASE u # 1
      <4>1. pred[u] = u - 1 /\ u - 1 \in D
        BY <2>1, <3>2 DEF B
      <4>2. f[u - 1] \in Y
        BY <4>1
      <4>3. step[<<f[u - 1], u>>] = f[u - 1] \o s[u]
        BY <2>3, <4>2
      <4>4. QED  BY <3>1, <3>2, <4>1, <4>3
    <3>3. QED  BY <3>1, <3>2
  <2>6. Is(f)
    <3>1. f = [u \in D |-> f[u]]
      OBVIOUS
    <3>2. QED  BY <2>5, <3>1, Zenon DEF D
  <2> DEFINE F == CHOOSE h : Is(h)
  <2>7. Decoders!FlattenSeq(s) = F[N]
    BY <1>3, Zenon DEF Decoders!FlattenSeq
  <2>8. Is(F)
    <3> HIDE DEF Is
    <3>1. QED  BY <2>6, Zenon
  <2> HIDE DEF F
  <2>9. F = [u \in D |-> IF u = 1 THEN s[u] ELSE F[u - 1] \o s[u]]
    BY <2>8, Zenon DEF D
  <2>10. \A u \in D : F[u] = IF u = 1 THEN s[u] ELSE F[u - 1] \o s[u]
    BY <2>9, Zenon
  <2> HIDE DEF Is
  <2>11. \A u \in D : F[u] \in Y
    <3> DEFINE U == {u \in Nat : u \in D => F[u] \in Y}
    <3>1. 0 \in U
      BY DEF D
    <3>2. ASSUME NEW u \in Nat, u \in U PROVE u + 1 \in U
      <4> SUFFICES ASSUME u + 1 \in D PROVE F[u + 1] \in Y
        OBVIOUS
      <4> DEFINE k == u + 1
      <4>1. k - 1 = u /\ (k # 1 => u \in D)
        BY DEF D
      <4> HIDE DEF k
      <4>2. k \in D
        BY DEF k
      <4>3. CASE k = 1
        <5>1. F[k] = s[k]
          BY <2>10, <4>2, <4>3
        <5>2. QED  BY <2>2, <4>2, <5>1 DEF k
      <4>4. CASE k # 1
        <5>1. F[k] = F[u] \o s[k] /\ F[u] \in Y /\ s[k] \in Y
          BY <2>2, <2>10, <3>2, <4>1, <4>2, <4>4
        <5>2. F[u] \o s[k] \in Y
          BY <5>1, ConcatProperties DEF Y
        <5>3. QED  BY <5>1, <5>2 DEF k
      <4>5. QED  BY <4>3, <4>4
    <3> HIDE DEF U
    <3>3. Nat \subseteq U
      BY <3>1, <3>2, Induction
    <3>4. QED  BY <2>2, <3>3 DEF U
  <2> DEFINE g == [u \in 0..N |-> IF u = 0 THEN <<>> ELSE F[u]]
  <2>12. \A u \in D : g[u] = F[u] /\ u \in 0..N
    BY <1>1 DEF D
  <2>13. g[0] = <<>>
    BY <1>1
  <2>14. g \in [0..N -> Seq(X)]
    <3>1. ASSUME NEW u \in 0..N PROVE (IF u = 0 THEN <<>> ELSE F[u]) \in Seq(X)
      <4>1. u = 0 \/ u \in D
        BY DEF D
      <4>2. QED  BY <1>1, <2>11, <4>1 DEF Y
    <3>2. QED  BY <3>1
  <2> HIDE DEF g
  <2>15. ASSUME NEW u \in D PROVE g[u] = g[u - 1] \o s[u]
    <3>1. CASE u = 1
      <4>1. u - 1 = 0 /\ g[u] = s[u]
        BY <2>10, <2>12, <3>1
      <4>2. <<>> \o s[u] = s[u]
        BY <2>2, ConcatEmptySeq DEF Y
      <4>3. QED  BY <2>13, <4>1, <4>2
    <3>2. CASE u # 1
      <4>1. u - 1 \in D
        BY <3>2 DEF D
      <4>2. QED  BY <2>10, <2>12, <3>2, <4>1
    <3>3. QED  BY <3>1, <3>2
  <2>16. Joins(g, s, X)
    BY <2>13, <2>14, <2>15 DEF Joins, D
  <2>17. g[N] = F[N]
    BY <1>1, <1>3, <2>12 DEF D
  <2>18. QED  BY <2>7, <2>16, <2>17
<1>4. QED  BY <1>2, <1>3

(* Where each part stands in the data. *)
LEMMA PartsHeld ==
  ASSUME NEW X, NEW s \in Seq(Seq(X)), NEW g, Joins(g, s, X), NEW bits \in Seq(X),
         Holds(bits, 1, g[Len(s)]), NEW u \in 1..Len(s)
  PROVE  Holds(bits, Len(g[u - 1]) + 1, s[u])
<1> DEFINE N == Len(s)
           W == {i \in Nat : i <= N => Holds(bits, 1, g[N - i])}
<1>1. N \in Nat /\ \A v \in 1..N : s[v] \in Seq(X)
  OBVIOUS
<1>2. /\ \A v \in 0..N : g[v] \in Seq(X)
      /\ \A v \in 1..N : g[v] = g[v - 1] \o s[v]
  BY DEF Joins
<1>3. ASSUME NEW v \in 1..N, Holds(bits, 1, g[v])
      PROVE  Holds(bits, 1, g[v - 1]) /\ Holds(bits, Len(g[v - 1]) + 1, s[v])
  <2> DEFINE x == g[v - 1]
             y == s[v]
  <2>1. x \in Seq(X) /\ y \in Seq(X) /\ g[v] = x \o y
    <3>1. v - 1 \in 0..N
      BY <1>1
    <3>2. QED  BY <1>1, <1>2, <3>1
  <2> HIDE DEF x, y
  <2>2. Holds(bits, 1, x \o y) /\ 1 \in Nat
    BY <1>3, <2>1
  <2>3. Holds(bits, 1, x) /\ Holds(bits, 1 + Len(x), y)
    <3> DEFINE p == 1
    <3>1. p \in Nat /\ Holds(bits, p, x \o y)
      BY <2>2
    <3> HIDE DEF p
    <3>2. Holds(bits, p, x) /\ Holds(bits, p + Len(x), y)
      BY <2>1, <3>1, HoldsJoin
    <3>3. QED  BY <3>2 DEF p
  <2>4. 1 + Len(x) = Len(x) + 1
    BY <2>1
  <2>5. QED  BY <2>3, <2>4 DEF x, y
<1>4. 0 \in W
  <2>1. N - 0 = N
    BY <1>1
  <2>2. QED  BY <2>1
<1>5. ASSUME NEW i \in Nat, i \in W PROVE i + 1 \in W
  <2> SUFFICES ASSUME i + 1 <= N PROVE Holds(bits, 1, g[N - (i + 1)])
    OBVIOUS
  <2> DEFINE v == N - i
  <2>1. v \in 1..N /\ N - (i + 1) = v - 1
    BY <1>1
  <2>2. Holds(bits, 1, g[v])
    BY <1>1, <1>5
  <2> HIDE DEF v
  <2>3. QED  BY <1>3, <2>1, <2>2
<1> HIDE DEF W
<1>6. Nat \subseteq W
  BY <1>4, <1>5, Induction
<1>7. Holds(bits, 1, g[u])
  <2>1. N - u \in Nat /\ N - u <= N /\ N - (N - u) = u
    BY <1>1
  <2>2. QED  BY <1>6, <2>1 DEF W
<1>8. QED  BY <1>3, <1>7

(* And the other way: data that holds part after part holds their whole. *)
LEMMA WholeHeld ==
  ASSUME NEW X, NEW s \in Seq(Seq(X)), NEW g, Joins(g, s, X), NEW bits \in Seq(X),
         \A u \in 1..Len(s) : Holds(bits, Len(g[u - 1]) + 1, s[u])
  PROVE  Holds(bits, 1, g[Len(s)])
<1> DEFINE N == Len(s)
           W == {i \in Nat : i <= N => Holds(bits, 1, g[i])}
<1>1. N \in Nat /\ \A v \in 1..N : s[v] \in Seq(X)
  OBVIOUS
<1>2. /\ \A v \in 0..N : g[v] \in Seq(X)
      /\ \A v \in 1..N : g[v] = g[v - 1] \o s[v]
      /\ g[0] = <<>>
  BY DEF Joins
<1>3. 0 \in W
  <2>1. Len(g[0]) = 0
    BY <1>2, EmptySeq
  <2>2. Holds(bits, 1, g[0])
    BY <2>1 DEF Holds
  <2>3. QED  BY <2>2
<1>4. ASSUME NEW i \in Nat, i \in W PROVE i + 1 \in W
  <2> SUFFICES ASSUME i + 1 <= N PROVE Holds(bits, 1, g[i + 1])
    OBVIOUS
  <2> DEFINE v == i + 1
             x == g[i]
             y == s[v]
             p == 1
  <2>1. v \in 1..N /\ v - 1 = i /\ i \in 0..N /\ p \in Nat
    BY <1>1
  <2> HIDE DEF v
  <2>2. x \in Seq(X) /\ y \in Seq(X) /\ g[v] = x \o y
    BY <1>1, <1>2, <2>1
  <2>3. Holds(bits, p, x)
    BY <1>1, <1>4, <2>1
  <2>4. Holds(bits, p + Len(x), y)
    <3>1. p + Len(x) = Len(x) + 1
      BY <2>2
    <3>2. Holds(bits, Len(g[v - 1]) + 1, s[v])
      BY <2>1
    <3>3. QED  BY <2>1, <3>1, <3>2
  <2> HIDE DEF x, y, p
  <2>5. Holds(bits, p, x \o y)
    BY <2>1, <2>2, <2>3, <2>4, HoldsJoin
  <2>6. QED  BY <2>2, <2>5 DEF v, p
<1> HIDE DEF W
<1>5. Nat \subseteq W
  BY <1>3, <1>4, Induction
<1>6. QED  BY <1>1, <1>5 DEF W

---------------------------------------------------------------------------
(***************************************************************************)
(* One coefficient of a signature, encoded and read.                       *)
(***************************************************************************)
Bits == {0, 1}

T0 == Decoders!TwoTo[LowBits]

(* The sizes of the encodings. *)
LEMMA Sizes ==
  /\ LowBits \in Nat \ {0} /\ LogQ \in Nat \ {0} /\ ByteBits \in Nat \ {0} /\ ByteBits = LowBits + 1
  /\ MaxValue \in Nat /\ 2 * MaxValue < q /\ q <= Decoders!TwoTo[LogQ]
  /\ T0 \in Nat \ {0}
<1>1. /\ LowBits \in Nat \ {0} /\ ByteBits = LowBits + 1 /\ LogQ \in Nat /\ LogQ > ByteBits
      /\ MaxValue \in Nat /\ 2 * MaxValue < q /\ q <= Decoders!TwoTo[LogQ]
  BY DecodersAssumption DEF DecodersAssumption
<1>2. T0 \in Nat \ {0}
  BY <1>1, Powers DEF T0
<1>3. QED  BY <1>1, <1>2

(* A number of k bits is as long as that. *)
LEMMA BinaryShape ==
  ASSUME NEW v \in Nat, NEW k \in Nat
  PROVE  Decoders!Binary(v, k) \in Seq(Bits) /\ Len(Decoders!Binary(v, k)) = k
<1> DEFINE w == Decoders!Binary(v, k)
<1>1. w = [j \in 1..k |-> (v \div Decoders!TwoTo[k - j]) % 2]
  BY DEF Decoders!Binary
<1>2. ASSUME NEW j \in 1..k PROVE (v \div Decoders!TwoTo[k - j]) % 2 \in Bits
  <2> DEFINE t == Decoders!TwoTo[k - j]
             d == v \div t
  <2>1. t \in Nat \ {0}
    <3>1. k - j \in Nat
      OBVIOUS
    <3>2. QED  BY <3>1, Powers
  <2> HIDE DEF t
  <2>2. d \in Nat
    BY <2>1
  <2> HIDE DEF d
  <2>3. d % 2 \in {0, 1}
    BY <2>2
  <2>4. QED  BY <2>3 DEF d, t, Bits
<1>3. w \in [1..k -> Bits]
  <2> DEFINE W(j) == (v \div Decoders!TwoTo[k - j]) % 2
  <2>1. w = [j \in 1..k |-> W(j)] /\ \A j \in 1..k : W(j) \in Bits
    BY <1>1, <1>2
  <2> HIDE DEF W, w
  <2>2. QED  BY <2>1
<1> HIDE DEF w
<1>4. w \in Seq(Bits)
  BY <1>3
<1>5. Len(w) = k
  BY <1>3
<1>6. QED  BY <1>4, <1>5 DEF w

(* A coefficient in its encoding: sign, low bits, the rest in unary. *)
Shape(w, x, r, h) ==
  /\ w \in Seq(Bits) /\ Len(w) = LowBits + h + 2
  /\ w[1] = (IF x < 0 THEN 1 ELSE 0)
  /\ \A j \in 1..LowBits : w[1 + j] = Decoders!Binary(r, LowBits)[j]
  /\ \A j \in 1..h : w[1 + LowBits + j] = 0
  /\ w[LowBits + h + 2] = 1

(* Sign, low bits, as many zeroes as the high part, and a one. *)
LEMMA EncodedShape ==
  ASSUME NEW x \in Int, NEW m \in Nat, m = (IF x < 0 THEN - x ELSE x),
         NEW h, h = m \div T0, NEW r, r = m % T0
  PROVE  /\ h \in Nat /\ r \in Nat /\ r < T0 /\ m = h * T0 + r
         /\ Shape(Decoders!EncodedCoefficient(x), x, r, h)
<1> DEFINE s == IF x < 0 THEN 1 ELSE 0
           a == <<s>>
           b == Decoders!Binary(r, LowBits)
           z == [j \in 1..h |-> 0]
           e == <<1>>
           ab == a \o b
           abz == ab \o z
           w == abz \o e
<1>1. T0 \in Nat \ {0} /\ LowBits \in Nat
  BY Sizes
<1>2. h \in Nat /\ r \in Nat /\ r < T0 /\ m = h * T0 + r
  BY <1>1
<1>3. Decoders!EncodedCoefficient(x) = w
  <2>1. Decoders!EncodedCoefficient(x) =
          LET k == IF x < 0 THEN - x ELSE x
          IN  <<IF x < 0 THEN 1 ELSE 0>> \o Decoders!Binary(k % T0, LowBits)
                \o [j \in 1..(k \div T0) |-> 0] \o <<1>>
    BY DEF Decoders!EncodedCoefficient, T0
  <2>2. QED  BY <2>1, Zenon
<1>4. a \in Seq(Bits) /\ Len(a) = 1 /\ a[1] = s
  BY DEF Bits
<1>5. b \in Seq(Bits) /\ Len(b) = LowBits
  BY <1>1, <1>2, BinaryShape
<1>6. z \in Seq(Bits) /\ Len(z) = h /\ \A j \in 1..h : z[j] = 0
  <2>1. z \in [1..h -> Bits]
    BY DEF Bits
  <2>2. z \in Seq(Bits)
    BY <1>2, <2>1
  <2>3. QED  BY <1>2, <2>2
<1>7. e \in Seq(Bits) /\ Len(e) = 1 /\ e[1] = 1
  BY DEF Bits
<1> HIDE DEF s, a, b, z, e
<1>8. /\ ab \in Seq(Bits) /\ Len(ab) = 1 + LowBits /\ ab[1] = s
      /\ \A j \in 1..LowBits : ab[1 + j] = b[j]
  <2>1. ab \in Seq(Bits) /\ Len(ab) = 1 + LowBits
    BY <1>4, <1>5, ConcatProperties, ZenonT(60)
  <2>2. \A i \in 1..(1 + LowBits) : ab[i] = IF i <= 1 THEN a[i] ELSE b[i - 1]
    <3>1. \A i \in 1..(Len(a) + Len(b)) : ab[i] = IF i <= Len(a) THEN a[i] ELSE b[i - Len(a)]
      BY <1>4, <1>5, ConcatProperties, Zenon
    <3>2. QED  BY <1>4, <1>5, <3>1, Zenon
  <2> HIDE DEF ab
  <2>3. 1 \in 1..(1 + LowBits)
    BY <1>1
  <2>4. ab[1] = s
    BY <1>4, <2>2, <2>3
  <2>5. ASSUME NEW j \in 1..LowBits PROVE ab[1 + j] = b[j]
    <3>1. 1 + j \in 1..(1 + LowBits) /\ ~(1 + j <= 1) /\ (1 + j) - 1 = j
      BY <1>1
    <3>2. QED  BY <2>2, <3>1
  <2>6. QED  BY <2>1, <2>4, <2>5 DEF ab
<1> HIDE DEF ab
<1>9. /\ abz \in Seq(Bits) /\ Len(abz) = 1 + LowBits + h
      /\ \A i \in 1..(1 + LowBits) : abz[i] = ab[i]
      /\ \A j \in 1..h : abz[1 + LowBits + j] = 0
  <2>1. abz \in Seq(Bits) /\ Len(abz) = 1 + LowBits + h
    BY <1>6, <1>8, ConcatProperties
  <2>2. \A i \in 1..(1 + LowBits + h) : abz[i] = IF i <= 1 + LowBits THEN ab[i] ELSE z[i - (1 + LowBits)]
    BY <1>6, <1>8, ConcatProperties
  <2> HIDE DEF abz
  <2>3. ASSUME NEW i \in 1..(1 + LowBits) PROVE abz[i] = ab[i]
    <3>1. i \in 1..(1 + LowBits + h) /\ i <= 1 + LowBits
      BY <1>1, <1>2
    <3>2. QED  BY <2>2, <3>1
  <2>4. ASSUME NEW j \in 1..h PROVE abz[1 + LowBits + j] = 0
    <3> DEFINE l == 1 + LowBits
               i == l + j
    <3>1. l \in Nat /\ j \in Nat /\ 1 <= j /\ j <= h /\ h \in Nat
      BY <1>1, <1>2
    <3>2. abz[i] = IF i <= l THEN ab[i] ELSE z[i - l]
      <4>1. i \in 1..(l + h)
        <5> HIDE DEF l
        <5>1. QED  BY <3>1
      <4> HIDE DEF i
      <4>2. QED  BY <2>2, <4>1
    <3> HIDE DEF l
    <3>3. ~(i <= l) /\ i - l = j
      BY <3>1
    <3> HIDE DEF i
    <3>4. abz[i] = z[j]
      BY <3>2, <3>3
    <3>5. QED  BY <1>6, <3>4 DEF i, l
  <2>5. QED  BY <2>1, <2>3, <2>4 DEF abz
<1> HIDE DEF abz
<1>10. /\ w \in Seq(Bits) /\ Len(w) = LowBits + h + 2
       /\ \A i \in 1..(1 + LowBits + h) : w[i] = abz[i]
       /\ w[LowBits + h + 2] = 1
  <2>1. w \in Seq(Bits) /\ Len(w) = 1 + LowBits + h + 1
    <3>1. w \in Seq(Bits) /\ Len(w) = Len(abz) + Len(e)
      BY <1>7, <1>9, ConcatProperties, Zenon
    <3>2. QED  BY <1>7, <1>9, <3>1, Zenon
  <2>2. \A i \in 1..(1 + LowBits + h + 1) : w[i] = IF i <= 1 + LowBits + h THEN abz[i] ELSE e[i - (1 + LowBits + h)]
    BY <1>7, <1>9, ConcatProperties
  <2> HIDE DEF w
  <2>3. 1 + LowBits + h + 1 = LowBits + h + 2
    BY <1>1, <1>2
  <2>4. ASSUME NEW i \in 1..(1 + LowBits + h) PROVE w[i] = abz[i]
    <3>1. i \in 1..(1 + LowBits + h + 1) /\ i <= 1 + LowBits + h
      BY <1>1, <1>2
    <3>2. QED  BY <2>2, <3>1
  <2> DEFINE k == LowBits + h + 2
  <2>5. k \in 1..(1 + LowBits + h + 1) /\ ~(k <= 1 + LowBits + h) /\ k - (1 + LowBits + h) = 1
    BY <1>1, <1>2
  <2> HIDE DEF k
  <2>6. w[k] = 1
    BY <1>7, <2>2, <2>5
  <2>7. QED  BY <2>1, <2>3, <2>4, <2>6 DEF w, k
<1> HIDE DEF w
<1>11. w[1] = s /\ \A j \in 1..LowBits : w[1 + j] = b[j]
  <2>1. 1 \in 1..(1 + LowBits + h) /\ 1 \in 1..(1 + LowBits)
    BY <1>1, <1>2
  <2>2. w[1] = s
    BY <1>8, <1>9, <1>10, <2>1
  <2>3. ASSUME NEW j \in 1..LowBits PROVE w[1 + j] = b[j]
    <3>1. 1 + j \in 1..(1 + LowBits + h) /\ 1 + j \in 1..(1 + LowBits)
      BY <1>1, <1>2
    <3>2. QED  BY <1>8, <1>9, <1>10, <3>1
  <2>4. QED  BY <2>2, <2>3
<1>12. \A j \in 1..h : w[1 + LowBits + j] = 0
  <2> SUFFICES ASSUME NEW j \in 1..h PROVE w[1 + LowBits + j] = 0
    OBVIOUS
  <2>1. 1 + LowBits + j \in 1..(1 + LowBits + h)
    BY <1>1, <1>2
  <2>2. QED  BY <1>9, <1>10, <2>1
<1>13. QED  BY <1>2, <1>3, <1>10, <1>11, <1>12 DEF s, b, Shape

(* Where the unary part ends. *)
LEMMA StopIs ==
  ASSUME NEW bits, NEW p, NEW low, NEW e \in Decoders!Ones(bits, p + 1 + low), e \in Int,
         \A k \in Decoders!Ones(bits, p + 1 + low) : k \in Int /\ e <= k
  PROVE  Decoders!Stop(bits, p, low) = e
<1> DEFINE S == Decoders!Ones(bits, p + 1 + low)
           First(j) == j \in S /\ \A k \in S : j <= k
<1>1. e \in S /\ e \in Int /\ \A k \in S : k \in Int /\ e <= k
  OBVIOUS
<1>2. Decoders!Stop(bits, p, low) = CHOOSE j : First(j)
  BY Zenon DEF Decoders!Stop
<1> HIDE DEF S
<1>3. First(e)
  BY <1>1
<1>4. \A j : First(j) => j = e
  BY <1>1
<1> HIDE DEF First
<1>5. (CHOOSE j : First(j)) = e
  BY <1>3, <1>4, Zenon
<1>6. QED  BY <1>2, <1>5

(* The unary part ends at its first one. *)
LEMMA StopFirst ==
  ASSUME NEW bits \in Seq(Bits), NEW p \in Nat, NEW low \in Nat, Decoders!Ones(bits, p + 1 + low) # {}
  PROVE  LET e == Decoders!Stop(bits, p, low)
         IN  /\ e \in (p + 1 + low)..Len(bits) /\ bits[e] = 1
             /\ \A k \in (p + 1 + low)..(e - 1) : bits[k] # 1
<1> DEFINE S == Decoders!Ones(bits, p + 1 + low)
<1>1. S = {j \in (p + 1 + low)..Len(bits) : bits[j] = 1}
  BY DEF Decoders!Ones
<1>2. S \in SUBSET Nat /\ S # {}
  BY <1>1
<1> HIDE DEF S
<1>3. PICK e \in S : \A k \in S : e <= k
  BY <1>2, Least
<1>4. e \in Int /\ \A k \in S : k \in Int
  BY <1>2
<1>5. Decoders!Stop(bits, p, low) = e
  BY <1>3, <1>4, StopIs DEF S
<1>6. e \in (p + 1 + low)..Len(bits) /\ bits[e] = 1
  BY <1>1, <1>3
<1>7. ASSUME NEW k \in (p + 1 + low)..(e - 1), bits[k] = 1 PROVE FALSE
  <2>1. k \in (p + 1 + low)..Len(bits)
    BY <1>4, <1>6
  <2>2. k \in S
    BY <1>1, <1>7, <2>1
  <2>3. e <= k /\ k <= e - 1
    BY <1>3, <2>2
  <2>4. QED  BY <1>4, <2>3
<1>8. QED  BY <1>5, <1>6, <1>7

(* The decoded value, of its parts. *)
LEMMA MagnitudeIs ==
  ASSUME NEW bits, NEW p, NEW v, v = Decoders!readBits(bits, p + 1, LowBits),
         NEW e, e = Decoders!Stop(bits, p, LowBits)
  PROVE  /\ Decoders!Magnitude(bits, p, LowBits) = v + T0 * (e - (p + 1 + LowBits))
         /\ Decoders!Value(bits, p, LowBits) = IF bits[p] = 1 THEN - Decoders!Magnitude(bits, p, LowBits)
                                                              ELSE Decoders!Magnitude(bits, p, LowBits)
<1>1. Decoders!Magnitude(bits, p, LowBits) = v + T0 * (e - (p + 1 + LowBits))
  BY Zenon DEF Decoders!Magnitude, T0
<1>2. Decoders!Value(bits, p, LowBits) = IF bits[p] = 1 THEN - Decoders!Magnitude(bits, p, LowBits)
                                                        ELSE Decoders!Magnitude(bits, p, LowBits)
  BY Zenon DEF Decoders!Value
<1>3. QED  BY <1>1, <1>2

(* A coefficient that stands in the data is read as it was written. *)
LEMMA CoefficientRead ==
  ASSUME NEW bits \in Seq(Bits), NEW p \in Nat \ {0}, NEW x \in Int,
         Holds(bits, p, Decoders!EncodedCoefficient(x))
  PROVE  LET e == Decoders!Stop(bits, p, LowBits)
         IN  /\ Decoders!Ones(bits, p + 1 + LowBits) # {}
             /\ e + 1 = p + Len(Decoders!EncodedCoefficient(x))
             /\ Decoders!Magnitude(bits, p, LowBits) = (IF x < 0 THEN - x ELSE x)
             /\ Decoders!Value(bits, p, LowBits) = x
             /\ bits[p] = (IF x < 0 THEN 1 ELSE 0)
<1> DEFINE m == IF x < 0 THEN - x ELSE x
           h == m \div T0
           w == Decoders!EncodedCoefficient(x)
           P == p + 1 + LowBits
           e == P + h
           v == m % T0
<1>1. T0 \in Nat \ {0} /\ LowBits \in Nat \ {0} /\ m \in Nat
  BY Sizes
<1>2. /\ h \in Nat /\ v \in Nat /\ v < T0 /\ m = h * T0 + v
      /\ w \in Seq(Bits) /\ Len(w) = LowBits + h + 2
      /\ w[1] = (IF x < 0 THEN 1 ELSE 0)
      /\ \A j \in 1..LowBits : w[1 + j] = Decoders!Binary(v, LowBits)[j]
      /\ \A j \in 1..h : w[1 + LowBits + j] = 0
      /\ w[LowBits + h + 2] = 1
  <2> HIDE DEF m
  <2>1. m = (IF x < 0 THEN - x ELSE x)
    BY DEF m
  <2>2. /\ h \in Nat /\ v \in Nat /\ v < T0 /\ m = h * T0 + v
        /\ Shape(w, x, v, h)
    <3>1. h = m \div T0 /\ v = m % T0
      OBVIOUS
    <3> HIDE DEF h, v, w
    <3>2. Shape(Decoders!EncodedCoefficient(x), x, v, h)
      BY <1>1, <2>1, <3>1, EncodedShape
    <3>3. h \in Nat /\ v \in Nat /\ v < T0 /\ m = h * T0 + v
      BY <1>1, <3>1
    <3>4. QED  BY <3>2, <3>3 DEF w
  <2>3. QED  BY <2>2 DEF Shape
<1>3. \A j \in 1..(LowBits + h + 2) : p + j - 1 \in 1..Len(bits) /\ bits[p + j - 1] = w[j]
  BY <1>2 DEF Holds
<1> HIDE DEF w, h, v
<1>4. e \in P..Len(bits) /\ bits[e] = 1 /\ e \in Int /\ P \in Int
  <2> DEFINE j == LowBits + h + 2
  <2>1. j \in 1..(LowBits + h + 2) /\ p + j - 1 = e
    BY <1>1, <1>2
  <2> HIDE DEF j, e
  <2>2. e \in 1..Len(bits) /\ bits[e] = w[j] /\ w[j] = 1
    BY <1>2, <1>3, <2>1 DEF j
  <2>3. QED  BY <1>1, <1>2, <2>2 DEF e
<1>5. ASSUME NEW k \in P..Len(bits), bits[k] = 1 PROVE k \in Int /\ e <= k
  <2> SUFFICES ASSUME k < e PROVE FALSE
    BY <1>4
  <2> DEFINE i == k - P + 1
             j == 1 + LowBits + i
  <2>1. i \in 1..h /\ j \in 1..(LowBits + h + 2) /\ p + j - 1 = k
    BY <1>1, <1>2
  <2> HIDE DEF i
  <2>2. w[j] = 0
    BY <1>2, <2>1
  <2> HIDE DEF j
  <2>3. bits[k] = w[j]
    BY <1>3, <2>1
  <2>4. QED  BY <1>5, <2>2, <2>3
<1>6. Decoders!Ones(bits, P) = {k \in P..Len(bits) : bits[k] = 1}
  BY DEF Decoders!Ones
<1>7. e \in Decoders!Ones(bits, P) /\ \A k \in Decoders!Ones(bits, P) : k \in Int /\ e <= k
  BY <1>4, <1>5, <1>6
<1>8. Decoders!Stop(bits, p, LowBits) = e
  <2> HIDE DEF e
  <2>1. QED  BY <1>4, <1>7, StopIs
<1>9. bits[p] = (IF x < 0 THEN 1 ELSE 0)
  <2> DEFINE j == 1
  <2>1. j \in 1..(LowBits + h + 2) /\ p + j - 1 = p
    BY <1>1, <1>2
  <2> HIDE DEF j
  <2>2. bits[p] = w[j]
    BY <1>3, <2>1
  <2>3. QED  BY <1>2, <2>2 DEF j
<1>10. Decoders!readBits(bits, p + 1, LowBits) = v
  <2>1. ASSUME NEW j \in 1..LowBits
        PROVE  Decoders!Bit(bits, p + 1 + j - 1) = Decoders!Binary(v, LowBits)[j]
    <3> DEFINE i == 1 + j
    <3>1. i \in 1..(LowBits + h + 2) /\ p + i - 1 = p + 1 + j - 1
      BY <1>1, <1>2
    <3>2. w[i] = Decoders!Binary(v, LowBits)[j]
      BY <1>2
    <3> HIDE DEF i
    <3>3. p + 1 + j - 1 \in DOMAIN bits /\ bits[p + 1 + j - 1] = w[i]
      BY <1>3, <3>1
    <3>4. QED  BY <3>2, <3>3 DEF Decoders!Bit
  <2> DEFINE o == p + 1
  <2>2. o \in Nat /\ v < Decoders!TwoTo[LowBits] /\ LowBits \in Nat /\ v \in Nat
    BY <1>1, <1>2 DEF T0
  <2>3. \A j \in 1..LowBits : Decoders!Bit(bits, o + j - 1) = Decoders!Binary(v, LowBits)[j]
    BY <2>1
  <2> HIDE DEF o
  <2>4. Decoders!readBits(bits, o, LowBits) = v
    BY <2>2, <2>3, BinaryRead
  <2>5. QED  BY <2>4 DEF o
<1>11. Decoders!Magnitude(bits, p, LowBits) = m
  <2>1. Decoders!Magnitude(bits, p, LowBits) = v + T0 * (e - P)
    BY <1>8, <1>10, MagnitudeIs
  <2>2. e - P = h
    BY <1>1, <1>2
  <2>3. QED  BY <1>1, <1>2, <2>1, <2>2
<1>12. Decoders!Value(bits, p, LowBits) = x
  <2>1. Decoders!Value(bits, p, LowBits) = IF bits[p] = 1 THEN - m ELSE m
    BY <1>11, MagnitudeIs
  <2>2. QED  BY <1>9, <2>1
<1>13. e + 1 = p + Len(w)
  BY <1>1, <1>2
<1>14. QED  BY <1>7, <1>8, <1>9, <1>11, <1>12, <1>13 DEF w

(* And one that comp_decode accepts is what the encoding writes. *)
LEMMA CoefficientWritten ==
  ASSUME NEW bits \in Seq(Bits), NEW p \in Nat \ {0}, Decoders!WellFormed(bits, p)
  PROVE  LET x == Decoders!Value(bits, p, LowBits)
             e == Decoders!Stop(bits, p, LowBits)
         IN  /\ Decoders!Ones(bits, p + 1 + LowBits) # {}
             /\ x \in Int /\ (- MaxValue) <= x /\ x <= MaxValue
             /\ Holds(bits, p, Decoders!EncodedCoefficient(x))
             /\ e \in Nat /\ e + 1 = p + Len(Decoders!EncodedCoefficient(x))
<1> DEFINE x == Decoders!Value(bits, p, LowBits)
           e == Decoders!Stop(bits, p, LowBits)
           M == Decoders!Magnitude(bits, p, LowBits)
           P == p + 1 + LowBits
           h == e - P
           v == Decoders!readBits(bits, p + 1, LowBits)
           w == Decoders!EncodedCoefficient(x)
<1>1. T0 \in Nat \ {0} /\ LowBits \in Nat \ {0} /\ p + ByteBits = P /\ MaxValue \in Nat
  BY Sizes
<1>2. Decoders!Ones(bits, P) # {} /\ M <= MaxValue /\ ~(bits[p] = 1 /\ M = 0)
  <2>1. Decoders!Ones(bits, p + ByteBits) # {} /\ M <= MaxValue /\ ~(bits[p] = 1 /\ M = 0)
    BY Zenon DEF Decoders!WellFormed
  <2>2. QED  BY <1>1, <2>1
<1>3. e \in P..Len(bits) /\ bits[e] = 1 /\ \A k \in P..(e - 1) : bits[k] # 1
  BY <1>1, <1>2, StopFirst
<1>4. M = v + T0 * h /\ x = (IF bits[p] = 1 THEN - M ELSE M)
  BY MagnitudeIs
<1> HIDE DEF e, v, M, x
<1>5. h \in Nat /\ e \in Nat /\ e = P + h /\ P + h <= Len(bits)
  BY <1>1, <1>3
<1>6. \A i \in p..(P + h) : i \in 1..Len(bits) /\ bits[i] \in {0, 1}
  BY <1>5 DEF Bits
<1> HIDE DEF h
<1>7. ASSUME NEW j \in 0..(LowBits - 1)
      PROVE  Decoders!Bit(bits, p + 1 + j) = bits[p + 1 + j] /\ Decoders!Bit(bits, p + 1 + j) \in {0, 1}
  <2>1. p + 1 + j \in p..(P + h)
    BY <1>1, <1>5
  <2>2. QED  BY <1>6, <2>1 DEF Decoders!Bit
<1>8. v \in Nat /\ v < T0 /\ \A j \in 1..LowBits : Decoders!Binary(v, LowBits)[j] = bits[p + j]
  <2> DEFINE o == p + 1
  <2>1. o \in Nat /\ LowBits \in Nat
    BY <1>1
  <2>2. \A j \in 0..(LowBits - 1) : Decoders!Bit(bits, o + j) \in {0, 1}
    BY <1>7
  <2>3. v = Decoders!readBits(bits, o, LowBits)
    BY DEF v
  <2> HIDE DEF o
  <2>4. /\ v \in Nat /\ v < Decoders!TwoTo[LowBits]
        /\ \A j \in 1..LowBits : Decoders!Binary(v, LowBits)[j] = Decoders!Bit(bits, o + j - 1)
    BY <2>1, <2>2, <2>3, ReadBinary, ZenonT(60)
  <2>5. ASSUME NEW j \in 1..LowBits PROVE Decoders!Bit(bits, o + j - 1) = bits[p + j]
    <3> DEFINE i == j - 1
    <3>1. i \in 0..(LowBits - 1) /\ o + j - 1 = p + 1 + i /\ p + 1 + i = p + j
      BY <1>1 DEF o
    <3> HIDE DEF i
    <3>2. QED  BY <1>7, <3>1
  <2>6. QED  BY <2>4, <2>5 DEF T0
<1>9. M \in Nat /\ M = h * T0 + v
  <2>1. M = v + T0 * h
    BY <1>4
  <2>2. \A a, b, d \in Nat : d + a * b = b * a + d /\ b * a + d \in Nat
    OBVIOUS
  <2>3. T0 \in Nat
    BY <1>1
  <2>4. QED  BY <1>5, <1>8, <2>1, <2>2, <2>3
<1>10. x \in Int /\ (- MaxValue) <= x /\ x <= MaxValue /\ (bits[p] = 1 <=> x < 0)
       /\ M = (IF x < 0 THEN - x ELSE x)
  BY <1>1, <1>2, <1>4, <1>9
<1>11. M \div T0 = h /\ M % T0 = v
  <2>1. v \in 0..(T0 - 1)
    BY <1>1, <1>8
  <2>2. (h * T0 + v) \div T0 = h
    BY <1>1, <1>5, <2>1, QuotientUnique
  <2>3. M = (M \div T0) * T0 + (M % T0)
    BY <1>1, <1>9
  <2> DEFINE a == M % T0
  <2>4. a \in Int
    BY <1>1, <1>9
  <2> HIDE DEF a
  <2>5. h * T0 + v = h * T0 + a
    BY <1>9, <2>2, <2>3 DEF a
  <2> DEFINE b == h * T0
  <2>6. b \in Int
    BY <1>1, <1>5
  <2> HIDE DEF b
  <2>7. v = a
    BY <1>8, <2>4, <2>5, <2>6 DEF b
  <2>8. QED  BY <1>9, <2>2, <2>7 DEF a
<1>12. /\ w \in Seq(Bits) /\ Len(w) = LowBits + h + 2
       /\ w[1] = (IF x < 0 THEN 1 ELSE 0)
       /\ \A j \in 1..LowBits : w[1 + j] = Decoders!Binary(v, LowBits)[j]
       /\ \A j \in 1..h : w[1 + LowBits + j] = 0
       /\ w[LowBits + h + 2] = 1
  <2>1. h = M \div T0 /\ v = M % T0
    BY <1>11
  <2>2. Shape(w, x, v, h)
    <3> HIDE DEF w
    <3>1. QED  BY <1>9, <1>10, <2>1, EncodedShape DEF w
  <2>3. QED  BY <2>2 DEF Shape
<1> HIDE DEF w
<1>13. Holds(bits, p, w)
  <2> SUFFICES ASSUME NEW j \in 1..(LowBits + h + 2)
               PROVE  p + j - 1 \in 1..Len(bits) /\ bits[p + j - 1] = w[j]
    BY <1>12 DEF Holds
  <2> DEFINE k == p + j - 1
  <2>1. k \in p..(P + h) /\ j \in Nat
    BY <1>1, <1>5
  <2>2. k \in 1..Len(bits) /\ bits[k] \in {0, 1}
    <3> HIDE DEF k
    <3>1. QED  BY <1>6, <2>1
  <2>3. CASE j = 1
    <3>1. k = p
      BY <2>3
    <3>2. bits[p] \in {0, 1}
      BY <2>2, <3>1
    <3>3. w[1] = bits[p]
      BY <1>10, <1>12, <3>2
    <3>4. QED  BY <2>2, <2>3, <3>1, <3>3
  <2>4. CASE j \in 2..(1 + LowBits)
    <3> DEFINE i == j - 1
    <3>1. i \in 1..LowBits /\ 1 + i = j /\ k = p + i
      BY <1>1, <2>4
    <3> HIDE DEF i
    <3>2. w[j] = bits[p + i]
      BY <1>8, <1>12, <3>1
    <3>3. QED  BY <2>2, <3>1, <3>2
  <2>5. CASE j \in (2 + LowBits)..(1 + LowBits + h)
    <3> DEFINE i == j - 1 - LowBits
    <3>1. i \in 1..h /\ 1 + LowBits + i = j /\ k \in P..(e - 1)
      BY <1>1, <1>5, <2>5
    <3> HIDE DEF i, k
    <3>2. w[j] = 0
      BY <1>12, <3>1
    <3>3. bits[k] # 1
      BY <1>3, <3>1
    <3>4. QED  BY <2>2, <3>2, <3>3 DEF k
  <2>6. CASE j = LowBits + h + 2
    <3>1. k = e
      BY <1>1, <1>5, <2>6
    <3>2. QED  BY <1>3, <1>12, <2>2, <2>6, <3>1
  <2>7. j = 1 \/ j \in 2..(1 + LowBits) \/ j \in (2 + LowBits)..(1 + LowBits + h) \/ j = LowBits + h + 2
    <3> HIDE DEF h
    <3>1. LowBits \in Nat /\ h \in Nat
      BY <1>1, <1>5
    <3>2. QED  BY <3>1
  <2>8. QED  BY <2>3, <2>4, <2>5, <2>6, <2>7, Zenon
<1>14. e + 1 = p + Len(w)
  BY <1>1, <1>5, <1>12
<1>15. QED  BY <1>2, <1>5, <1>10, <1>13, <1>14 DEF w, x, e

---------------------------------------------------------------------------
(***************************************************************************)
(* The runs of the decoders of signatures, one coefficient after another.  *)
(***************************************************************************)
(* What a decoder of signatures has come to. *)
States == [status : {"done", "thrown", "hangs"}, at : Nat \ {0}, out : Seq(Int)]

(* Its step, with comp_decode's checks and without. *)
Checked(d, bits) ==
  IF d.status # "done" \/ ~Decoders!WellFormed(bits, d.at) THEN [d EXCEPT !.status = "thrown"]
  ELSE Decoders!Taken(d, bits, LowBits, Decoders!Value(bits, d.at, LowBits))

Plain(d, bits) ==
  IF d.status # "done" \/ Decoders!Ones(bits, d.at + 1 + LowBits) = {} THEN [d EXCEPT !.status = "hangs"]
  ELSE Decoders!Taken(d, bits, LowBits, Decoders!toModQ(Decoders!Value(bits, d.at, LowBits)))

CheckedRun(f, bits, size) ==
  /\ f \in [0..size -> States] /\ f[0] = Decoders!Start
  /\ \A u \in 1..size : f[u] = Checked(f[u - 1], bits)

PlainRun(f, bits, size) ==
  /\ f \in [0..size -> States] /\ f[0] = Decoders!Start
  /\ \A u \in 1..size : f[u] = Plain(f[u - 1], bits)

(* A run of steps exists. *)
Steps(f, size, start, next) == f = [u \in 0..size |-> IF u = 0 THEN start ELSE next[f[u - 1]]]

(* The states of a decoder, one coefficient after another, are a function, *)
LEMMA StepsExist ==
  ASSUME NEW X, NEW start \in X, NEW next \in [X -> X], NEW size \in Nat
  PROVE  \E f \in [0..size -> X] : Steps(f, size, start, next)
<1> DEFINE D == 0..size
           B == {0}
           step == [s \in X \X D |-> next[s[1]]]
           pred == [u \in D |-> u - 1]
<1>1. \A u \in D \ B : pred[u] \in D /\ pred[u] < u /\ pred[u] = u - 1
  OBVIOUS
<1>2. D \in SUBSET Nat /\ step \in [X \X D -> X] /\ \A x \in X, u \in D : step[<<x, u>>] = next[x]
  <2>1. D \in SUBSET Nat
    OBVIOUS
  <2> HIDE DEF D
  <2>2. QED  BY <2>1
<1> HIDE DEF D, B, step, pred
<1>3. PICK f \in [D -> X] : Recurs(f, D, start, step, pred, B)
  <2>1. \A u \in D \ B : pred[u] \in D /\ pred[u] < u
    BY <1>1
  <2>2. QED  BY <1>2, <2>1, RecursionOn
<1>4. ASSUME NEW u \in D PROVE f[u] = IF u = 0 THEN start ELSE next[f[u - 1]]
  <2>1. f[u] = IF u = 0 THEN start ELSE step[<<f[pred[u]], u>>]
    BY <1>3 DEF Recurs, B
  <2>2. CASE u # 0
    <3>1. pred[u] = u - 1 /\ u - 1 \in D
      BY <1>1, <2>2 DEF B
    <3>2. f[u - 1] \in X
      BY <3>1
    <3>3. QED  BY <1>2, <2>1, <2>2, <3>1, <3>2
  <2>3. QED  BY <2>1, <2>2
<1>5. f = [u \in D |-> f[u]]
  OBVIOUS
<1>6. f = [u \in D |-> IF u = 0 THEN start ELSE next[f[u - 1]]]
  BY <1>4, <1>5, Zenon
<1>7. Steps(f, size, start, next)
  BY <1>6 DEF Steps, D
<1>8. QED  BY <1>7 DEF D

(* and each follows from the one before. *)
LEMMA StepsAre ==
  ASSUME NEW X, NEW start \in X, NEW next \in [X -> X], NEW size \in Nat,
         NEW f, Steps(f, size, start, next)
  PROVE  /\ f \in [0..size -> X] /\ f[0] = start
         /\ \A u \in 1..size : f[u] = next[f[u - 1]] /\ f[u - 1] \in X
<1>1. f = [u \in 0..size |-> IF u = 0 THEN start ELSE next[f[u - 1]]]
  BY Zenon DEF Steps
<1>2. \A u \in 0..size : f[u] = IF u = 0 THEN start ELSE next[f[u - 1]]
  BY <1>1, Zenon
<1> DEFINE U == {u \in Nat : u <= size => f[u] \in X}
<1>3. 0 \in U /\ f[0] = start
  BY <1>2
<1>4. ASSUME NEW u \in Nat, u \in U PROVE u + 1 \in U
  <2> SUFFICES ASSUME u + 1 <= size PROVE f[u + 1] \in X
    OBVIOUS
  <2>1. u + 1 \in 0..size /\ u + 1 # 0 /\ u + 1 - 1 = u /\ f[u] \in X
    BY <1>4
  <2>2. f[u + 1] = next[f[u]]
    <3> DEFINE v == u + 1
    <3>1. v \in 0..size /\ v # 0 /\ v - 1 = u
      BY <2>1
    <3> HIDE DEF v
    <3>2. f[v] = next[f[u]]
      BY <1>2, <3>1
    <3>3. QED  BY <3>2 DEF v
  <2>3. QED  BY <2>1, <2>2
<1> HIDE DEF U
<1>5. Nat \subseteq U
  BY <1>3, <1>4, Induction
<1>6. \A u \in 0..size : f[u] \in X
  BY <1>5 DEF U
<1>7. f \in [0..size -> X]
  <2>1. f = [u \in 0..size |-> f[u]]
    BY <1>1, <1>2, Zenon
  <2>2. QED  BY <1>6, <2>1
<1>8. ASSUME NEW u \in 1..size PROVE f[u] = next[f[u - 1]] /\ f[u - 1] \in X
  <2>1. u \in 0..size /\ u # 0 /\ u - 1 \in 0..size
    OBVIOUS
  <2>2. QED  BY <1>2, <1>6, <2>1
<1>9. QED  BY <1>3, <1>7, <1>8

(* What a coefficient comes to, and where it stops. *)
LEMMA ValueTyped ==
  ASSUME NEW bits \in Seq(Bits), NEW p \in Nat \ {0}, Decoders!Ones(bits, p + 1 + LowBits) # {}
  PROVE  /\ Decoders!Stop(bits, p, LowBits) \in Nat
         /\ Decoders!Value(bits, p, LowBits) \in Int
         /\ Decoders!toModQ(Decoders!Value(bits, p, LowBits)) \in Int
<1> DEFINE e == Decoders!Stop(bits, p, LowBits)
           v == Decoders!readBits(bits, p + 1, LowBits)
           M == Decoders!Magnitude(bits, p, LowBits)
           x == Decoders!Value(bits, p, LowBits)
<1>1. T0 \in Nat \ {0} /\ LowBits \in Nat \ {0}
  BY Sizes
<1>2. e \in (p + 1 + LowBits)..Len(bits)
  BY <1>1, StopFirst
<1>3. M = v + T0 * (e - (p + 1 + LowBits)) /\ x = (IF bits[p] = 1 THEN - M ELSE M)
  BY MagnitudeIs
<1>4. v \in Nat
  <2> DEFINE o == p + 1
  <2>1. o \in Nat /\ LowBits \in Nat
    BY <1>1
  <2>2. \A j \in 0..(LowBits - 1) : Decoders!Bit(bits, o + j) \in {0, 1}
    <3> SUFFICES ASSUME NEW j \in 0..(LowBits - 1) PROVE Decoders!Bit(bits, o + j) \in {0, 1}
      OBVIOUS
    <3>1. o + j \in 1..Len(bits)
      BY <1>1, <1>2
    <3>2. bits[o + j] \in {0, 1}
      BY <3>1 DEF Bits
    <3>3. QED  BY <3>1, <3>2 DEF Decoders!Bit
  <2> HIDE DEF o
  <2>3. Decoders!readBits(bits, o, LowBits) \in Nat
    BY <2>1, <2>2, ReadBinary
  <2>4. QED  BY <2>3 DEF o
<1> HIDE DEF e, v, M, x
<1>5. e \in Nat /\ M \in Int
  <2> DEFINE h == e - (p + 1 + LowBits)
  <2>1. h \in Int /\ e \in Nat
    BY <1>1, <1>2
  <2>2. M = v + T0 * h
    BY <1>3
  <2> HIDE DEF h
  <2>3. QED  BY <1>1, <1>4, <2>1, <2>2
<1>6. x \in Int
  BY <1>3, <1>5
<1>7. Decoders!toModQ(x) \in Int
  BY <1>6, FalconAssumption DEF FalconAssumption, Decoders!toModQ
<1>8. QED  BY <1>5, <1>6, <1>7 DEF e, x

(* A coefficient is taken, and the decoder stands behind it. *)
LEMMA TakenIs ==
  ASSUME NEW d \in States, NEW bits, NEW v \in Int, Decoders!Stop(bits, d.at, LowBits) \in Nat
  PROVE  LET t == Decoders!Taken(d, bits, LowBits, v)
         IN  /\ t \in States /\ t.status = d.status
             /\ t.at = Decoders!Stop(bits, d.at, LowBits) + 1 /\ t.out = Append(d.out, v)
<1> DEFINE t == Decoders!Taken(d, bits, LowBits, v)
           e == Decoders!Stop(bits, d.at, LowBits)
<1>1. t = [d EXCEPT !.at = e + 1, !.out = Append(@, v)]
  BY Zenon DEF Decoders!Taken
<1>2. e \in Nat
  OBVIOUS
<1> HIDE DEF t, e
<1>3. d = [status |-> d.status, at |-> d.at, out |-> d.out] /\ d.out \in Seq(Int)
  BY DEF States
<1>4. t = [status |-> d.status, at |-> e + 1, out |-> Append(d.out, v)]
  BY <1>1, <1>3
<1>5. Append(d.out, v) \in Seq(Int)
  BY <1>3
<1>6. t \in States
  BY <1>2, <1>4, <1>5 DEF States
<1>7. QED  BY <1>4, <1>6 DEF t, e

(* Where a decoder starts. *)
LEMMA StartTyped ==
  /\ Decoders!Start \in States /\ Decoders!Start.status = "done" /\ Decoders!Start.at = 1
  /\ Decoders!Start.out = <<>>
BY DEF Decoders!Start, States

(* And what it comes to. *)
LEMMA NextTyped ==
  ASSUME NEW bits \in Seq(Bits), NEW d \in States
  PROVE  Checked(d, bits) \in States /\ Plain(d, bits) \in States
<1>1. /\ d.status \in {"done", "thrown", "hangs"} /\ d.at \in Nat \ {0} /\ d.out \in Seq(Int)
      /\ d = [status |-> d.status, at |-> d.at, out |-> d.out]
  BY DEF States
<1>2. [d EXCEPT !.status = "thrown"] \in States /\ [d EXCEPT !.status = "hangs"] \in States
  <2>1. /\ [d EXCEPT !.status = "thrown"] = [status |-> "thrown", at |-> d.at, out |-> d.out]
        /\ [d EXCEPT !.status = "hangs"] = [status |-> "hangs", at |-> d.at, out |-> d.out]
    BY <1>1
  <2>2. QED  BY <1>1, <2>1 DEF States
<1>3. Decoders!WellFormed(bits, d.at) => Decoders!Ones(bits, d.at + 1 + LowBits) # {}
  BY <1>1, CoefficientWritten
<1>4. ASSUME Decoders!Ones(bits, d.at + 1 + LowBits) # {}
      PROVE  /\ Decoders!Taken(d, bits, LowBits, Decoders!Value(bits, d.at, LowBits)) \in States
             /\ Decoders!Taken(d, bits, LowBits, Decoders!toModQ(Decoders!Value(bits, d.at, LowBits))) \in States
  <2> DEFINE x == Decoders!Value(bits, d.at, LowBits)
             y == Decoders!toModQ(x)
  <2>1. Decoders!Stop(bits, d.at, LowBits) \in Nat /\ x \in Int /\ y \in Int
    BY <1>1, <1>4, ValueTyped
  <2> HIDE DEF x, y
  <2>2. Decoders!Taken(d, bits, LowBits, x) \in States /\ Decoders!Taken(d, bits, LowBits, y) \in States
    BY <2>1, TakenIs
  <2>3. QED  BY <2>2 DEF x, y
<1>5. QED  BY <1>2, <1>3, <1>4, Zenon DEF Checked, Plain

(* decodeFalconSig runs through such states, *)
LEMMA CheckedRuns ==
  ASSUME NEW bits \in Seq(Bits), NEW size \in Nat
  PROVE  \E f : CheckedRun(f, bits, size) /\ Decoders!decodeFalconSig(bits, size) = f[size]
<1> DEFINE next == [d \in States |-> Checked(d, bits)]
           Is(g) == g = [u \in 0..size |-> IF u = 0 THEN Decoders!Start ELSE Checked(g[u - 1], bits)]
<1>1. next \in [States -> States] /\ \A d \in States : next[d] = Checked(d, bits)
  BY NextTyped
<1> HIDE DEF next
<1>2. \E f \in [0..size -> States] : Steps(f, size, Decoders!Start, next)
  BY <1>1, StartTyped, StepsExist
<1>3. PICK f \in [0..size -> States] : Steps(f, size, Decoders!Start, next)
  BY <1>2
<1>4. CheckedRun(f, bits, size)
  <2>1. f[0] = Decoders!Start /\ \A u \in 1..size : f[u] = next[f[u - 1]] /\ f[u - 1] \in States
    BY <1>1, <1>3, StartTyped, StepsAre
  <2>2. QED  BY <1>1, <2>1 DEF CheckedRun
<1>5. Is(f)
  <2>1. ASSUME NEW u \in 0..size PROVE f[u] = IF u = 0 THEN Decoders!Start ELSE Checked(f[u - 1], bits)
    <3>1. u # 0 => u \in 1..size
      OBVIOUS
    <3>2. QED  BY <1>4, <3>1 DEF CheckedRun
  <2>2. f = [u \in 0..size |-> f[u]]
    OBVIOUS
  <2>3. QED  BY <2>1, <2>2, Zenon
<1>6. ASSUME NEW g, Is(g) PROVE CheckedRun(g, bits, size)
  <2>1. \A u \in 0..size : g[u] = IF u = 0 THEN Decoders!Start ELSE Checked(g[u - 1], bits)
    BY <1>6, Zenon
  <2> DEFINE U == {u \in Nat : u <= size => g[u] \in States}
  <2>2. 0 \in U
    BY <2>1, StartTyped
  <2>3. ASSUME NEW u \in Nat, u \in U PROVE u + 1 \in U
    <3> SUFFICES ASSUME u + 1 <= size PROVE g[u + 1] \in States
      OBVIOUS
    <3> DEFINE v == u + 1
    <3>1. v \in 0..size /\ v # 0 /\ v - 1 = u /\ g[u] \in States
      BY <2>3
    <3> HIDE DEF v
    <3>2. g[v] = Checked(g[u], bits)
      BY <2>1, <3>1
    <3>3. QED  BY <3>1, <3>2, NextTyped DEF v
  <2> HIDE DEF U
  <2>4. Nat \subseteq U
    BY <2>2, <2>3, Induction
  <2>5. \A u \in 0..size : g[u] \in States
    BY <2>4 DEF U
  <2>6. g = [u \in 0..size |-> g[u]]
    BY <1>6, <2>1, Zenon
  <2> HIDE DEF Is
  <2>7. g \in [0..size -> States]
    BY <2>5, <2>6
  <2>8. QED  BY <2>1, <2>7 DEF CheckedRun
<1> DEFINE F == CHOOSE g : Is(g)
<1>7. Decoders!decodeFalconSig(bits, size) = F[size]
  BY Zenon DEF Decoders!decodeFalconSig, Checked
<1>8. Is(F)
  <2> HIDE DEF Is
  <2>1. QED  BY <1>5, Zenon
<1> HIDE DEF F, Is
<1>9. QED  BY <1>6, <1>7, <1>8

(* and decompressS2 through its own. *)
LEMMA PlainRuns ==
  ASSUME NEW bits \in Seq(Bits), NEW size \in Nat
  PROVE  \E f : PlainRun(f, bits, size) /\ Decoders!decompressS2(bits, size) = f[size]
<1> DEFINE next == [d \in States |-> Plain(d, bits)]
           Is(g) == g = [u \in 0..size |-> IF u = 0 THEN Decoders!Start ELSE Plain(g[u - 1], bits)]
<1>1. next \in [States -> States] /\ \A d \in States : next[d] = Plain(d, bits)
  BY NextTyped
<1> HIDE DEF next
<1>2. \E f \in [0..size -> States] : Steps(f, size, Decoders!Start, next)
  BY <1>1, StartTyped, StepsExist
<1>3. PICK f \in [0..size -> States] : Steps(f, size, Decoders!Start, next)
  BY <1>2
<1>4. PlainRun(f, bits, size)
  <2>1. f[0] = Decoders!Start /\ \A u \in 1..size : f[u] = next[f[u - 1]] /\ f[u - 1] \in States
    BY <1>1, <1>3, StartTyped, StepsAre
  <2>2. QED  BY <1>1, <2>1 DEF PlainRun
<1>5. Is(f)
  <2>1. ASSUME NEW u \in 0..size PROVE f[u] = IF u = 0 THEN Decoders!Start ELSE Plain(f[u - 1], bits)
    <3>1. u # 0 => u \in 1..size
      OBVIOUS
    <3>2. QED  BY <1>4, <3>1 DEF PlainRun
  <2>2. f = [u \in 0..size |-> f[u]]
    OBVIOUS
  <2>3. QED  BY <2>1, <2>2, Zenon
<1>6. ASSUME NEW g, Is(g) PROVE PlainRun(g, bits, size)
  <2>1. \A u \in 0..size : g[u] = IF u = 0 THEN Decoders!Start ELSE Plain(g[u - 1], bits)
    BY <1>6, Zenon
  <2> DEFINE U == {u \in Nat : u <= size => g[u] \in States}
  <2>2. 0 \in U
    BY <2>1, StartTyped
  <2>3. ASSUME NEW u \in Nat, u \in U PROVE u + 1 \in U
    <3> SUFFICES ASSUME u + 1 <= size PROVE g[u + 1] \in States
      OBVIOUS
    <3> DEFINE v == u + 1
    <3>1. v \in 0..size /\ v # 0 /\ v - 1 = u /\ g[u] \in States
      BY <2>3
    <3> HIDE DEF v
    <3>2. g[v] = Plain(g[u], bits)
      BY <2>1, <3>1
    <3>3. QED  BY <3>1, <3>2, NextTyped DEF v
  <2> HIDE DEF U
  <2>4. Nat \subseteq U
    BY <2>2, <2>3, Induction
  <2>5. \A u \in 0..size : g[u] \in States
    BY <2>4 DEF U
  <2>6. g = [u \in 0..size |-> g[u]]
    BY <1>6, <2>1, Zenon
  <2> HIDE DEF Is
  <2>7. g \in [0..size -> States]
    BY <2>5, <2>6
  <2>8. QED  BY <2>1, <2>7 DEF PlainRun
<1> DEFINE F == CHOOSE g : Is(g)
<1>7. Decoders!decompressS2(bits, size) = F[size]
  BY Zenon DEF Decoders!decompressS2, Decoders!Unchecked, Plain
<1>8. Is(F)
  <2> HIDE DEF Is
  <2>1. QED  BY <1>5, Zenon
<1> HIDE DEF F, Is
<1>9. QED  BY <1>6, <1>7, <1>8

(* A list that grows by its next element. *)
LEMMA AppendNext ==
  ASSUME NEW X, NEW s, NEW u \in Nat, NEW v, v = u + 1, \A i \in 1..v : s[i] \in X
  PROVE  Append([i \in 1..u |-> s[i]], s[v]) = [i \in 1..v |-> s[i]]
<1> DEFINE a == [i \in 1..u |-> s[i]]
           b == [i \in 1..v |-> s[i]]
           l == Append(a, s[v])
<1>1. a \in Seq(X) /\ Len(a) = u /\ s[v] \in X
  <2>1. v \in 1..v /\ 1..u \subseteq 1..v
    OBVIOUS
  <2>2. a \in [1..u -> X]
    BY <2>1
  <2> HIDE DEF a
  <2>3. QED  BY <2>1, <2>2
<1>2. l \in Seq(X) /\ Len(l) = v /\ (\A i \in 1..u : l[i] = a[i]) /\ l[v] = s[v]
  <2> HIDE DEF a
  <2>1. /\ l \in Seq(X) /\ Len(l) = Len(a) + 1
        /\ \A i \in 1..Len(a) : l[i] = a[i]
        /\ l[Len(a) + 1] = s[v]
    BY <1>1, AppendProperties
  <2> HIDE DEF l
  <2>2. QED  BY <1>1, <2>1
<1>3. l = [i \in 1..v |-> l[i]]
  <2> HIDE DEF l
  <2>1. QED  BY <1>2
<1>4. ASSUME NEW i \in 1..v PROVE l[i] = s[i]
  <2>1. i = v \/ i \in 1..u
    OBVIOUS
  <2> HIDE DEF l
  <2>2. QED  BY <1>2, <2>1
<1>5. QED  BY <1>3, <1>4, Zenon

(* A coefficient is encoded in bits. *)
LEMMA EncodedTyped ==
  ASSUME NEW x \in Int
  PROVE  Decoders!EncodedCoefficient(x) \in Seq(Bits)
<1> DEFINE m == IF x < 0 THEN - x ELSE x
           h == m \div T0
           r == m % T0
<1>1. m \in Nat /\ m = (IF x < 0 THEN - x ELSE x) /\ h = m \div T0 /\ r = m % T0
  OBVIOUS
<1> HIDE DEF m, h, r
<1>2. Shape(Decoders!EncodedCoefficient(x), x, r, h)
  BY <1>1, EncodedShape
<1>3. QED  BY <1>2 DEF Shape

Encodings(s) == [u \in DOMAIN s |-> Decoders!EncodedCoefficient(s[u])]

(* The compressed vector joins the encodings of its coefficients, *)
LEMMA CompressedIs ==
  ASSUME NEW size \in Nat, NEW s \in [1..size -> Int]
  PROVE  /\ Encodings(s) \in Seq(Seq(Bits)) /\ Len(Encodings(s)) = size
         /\ \A u \in 1..size : Encodings(s)[u] = Decoders!EncodedCoefficient(s[u])
         /\ \E g : Joins(g, Encodings(s), Bits) /\ Decoders!Compressed(s) = g[size]
<1> DEFINE e == Encodings(s)
<1>1. e = [u \in 1..size |-> Decoders!EncodedCoefficient(s[u])]
  BY DEF Encodings
<1>2. \A u \in 1..size : Decoders!EncodedCoefficient(s[u]) \in Seq(Bits)
  <2> SUFFICES ASSUME NEW u \in 1..size PROVE Decoders!EncodedCoefficient(s[u]) \in Seq(Bits)
    OBVIOUS
  <2> DEFINE x == s[u]
  <2>1. x \in Int
    OBVIOUS
  <2> HIDE DEF x
  <2>2. Decoders!EncodedCoefficient(x) \in Seq(Bits)
    BY <2>1, EncodedTyped
  <2>3. QED  BY <2>2 DEF x
<1>3. Decoders!Compressed(s) = Decoders!FlattenSeq(e)
  BY Zenon DEF Decoders!Compressed, Encodings
<1> HIDE DEF e
<1>4. e \in [1..size -> Seq(Bits)]
  BY <1>1, <1>2
<1>5. e \in Seq(Seq(Bits)) /\ Len(e) = size
  BY <1>4
<1>6. \E g : Joins(g, e, Bits) /\ Decoders!FlattenSeq(e) = g[Len(e)]
  BY <1>5, Flattened
<1>7. \E g : Joins(g, e, Bits) /\ Decoders!Compressed(s) = g[size]
  BY <1>3, <1>5, <1>6
<1>8. QED  BY <1>1, <1>5, <1>7 DEF e

(* and grows by the length of each. *)
LEMMA JoinsGrow ==
  ASSUME NEW X, NEW s \in Seq(Seq(X)), NEW g, Joins(g, s, X), NEW u \in 1..Len(s)
  PROVE  /\ g[u - 1] \in Seq(X) /\ g[u] \in Seq(X)
         /\ Len(g[u]) = Len(g[u - 1]) + Len(s[u])
         /\ Len(g[u - 1]) \in Nat /\ Len(s[u]) \in Nat
<1> DEFINE a == g[u - 1]
           b == s[u]
<1>1. a \in Seq(X) /\ g[u] = a \o b
  <2>1. u - 1 \in 0..Len(s)
    OBVIOUS
  <2>2. QED  BY <2>1 DEF Joins
<1>2. b \in Seq(X)
  OBVIOUS
<1> HIDE DEF a, b
<1>3. a \o b \in Seq(X) /\ Len(a \o b) = Len(a) + Len(b) /\ Len(a) \in Nat /\ Len(b) \in Nat
  BY <1>1, <1>2, ConcatProperties
<1>4. QED  BY <1>1, <1>3 DEF a, b

(* The decoder without checks, on data that starts with the encoding of s. *)
LEMMA PlainFollows ==
  ASSUME NEW bits \in Seq(Bits), NEW size \in Nat, NEW s \in [1..size -> Int],
         NEW g, Joins(g, Encodings(s), Bits), Holds(bits, 1, g[size])
  PROVE  LET d == Decoders!decompressS2(bits, size)
         IN  /\ d \in States /\ d.status = "done" /\ d.at = Len(g[size]) + 1
             /\ d.out = [i \in 1..size |-> Decoders!toModQ(s[i])]
<1> DEFINE e == Encodings(s)
           m == [i \in 1..size |-> Decoders!toModQ(s[i])]
<1>1. /\ e \in Seq(Seq(Bits)) /\ Len(e) = size
      /\ \A u \in 1..size : e[u] = Decoders!EncodedCoefficient(s[u])
  BY CompressedIs
<1>2. \A i \in 1..size : m[i] = Decoders!toModQ(s[i]) /\ m[i] \in Int
  <2> SUFFICES ASSUME NEW i \in 1..size PROVE Decoders!toModQ(s[i]) \in Int
    OBVIOUS
  <2>1. s[i] \in Int
    OBVIOUS
  <2>2. QED  BY <2>1, FalconAssumption DEF FalconAssumption, Decoders!toModQ
<1>3. PICK f : PlainRun(f, bits, size) /\ Decoders!decompressS2(bits, size) = f[size]
  BY PlainRuns
<1>4. /\ f \in [0..size -> States] /\ f[0] = Decoders!Start
      /\ \A u \in 1..size : f[u] = Plain(f[u - 1], bits)
  BY <1>3 DEF PlainRun
<1>5. Joins(g, e, Bits)
  OBVIOUS
<1> HIDE DEF e, m
<1> DEFINE Right(u) == /\ f[u].status = "done" /\ f[u].at = Len(g[u]) + 1
                       /\ f[u].out = [i \in 1..u |-> m[i]]
           U == {u \in Nat : u <= size => Right(u)}
<1>6. 0 \in U
  <2>1. g[0] = <<>>
    BY <1>5 DEF Joins
  <2>2. Len(g[0]) = 0
    BY <2>1
  <2>3. [i \in 1..0 |-> m[i]] = <<>>
    BY SMT
  <2>4. Right(0)
    BY <1>4, <2>2, <2>3, StartTyped
  <2>5. QED  BY <2>4
<1>7. ASSUME NEW t \in Nat, t \in U PROVE t + 1 \in U
  <2> SUFFICES ASSUME t + 1 <= size PROVE Right(t + 1)
    OBVIOUS
  <2> DEFINE u == t + 1
             d == f[t]
             p == d.at
             x == s[u]
  <2>1. u \in 1..size /\ u - 1 = t /\ u \in Nat /\ t \in 0..size
    OBVIOUS
  <2>2. d.status = "done" /\ p = Len(g[t]) + 1 /\ d.out = [i \in 1..t |-> m[i]] /\ d \in States
    BY <1>4, <1>7, <2>1
  <2>3. f[u] = Plain(d, bits) /\ x \in Int /\ e[u] = Decoders!EncodedCoefficient(x)
    <3> HIDE DEF u
    <3>1. QED  BY <1>1, <1>4, <2>1
  <2>35. u = t + 1
    OBVIOUS
  <2> HIDE DEF u, d, x
  <2>4. p \in Nat \ {0}
    BY <2>2 DEF States
  <2>5. Holds(bits, Len(g[t]) + 1, e[u])
    <3>1. u \in 1..Len(e) /\ Holds(bits, 1, g[Len(e)])
      BY <1>1, <2>1
    <3>2. Holds(bits, Len(g[u - 1]) + 1, e[u])
      BY <1>1, <1>5, <3>1, PartsHeld
    <3>3. QED  BY <2>1, <3>2
  <2>6. Holds(bits, p, Decoders!EncodedCoefficient(x))
    BY <2>2, <2>3, <2>5
  <2> HIDE DEF p
  <2>7. /\ Decoders!Ones(bits, p + 1 + LowBits) # {}
        /\ Decoders!Stop(bits, p, LowBits) + 1 = p + Len(Decoders!EncodedCoefficient(x))
        /\ Decoders!Value(bits, p, LowBits) = x
    BY <2>3, <2>4, <2>6, CoefficientRead
  <2>8. f[u] = Decoders!Taken(d, bits, LowBits, m[u])
    <3>1. m[u] = Decoders!toModQ(x)
      BY <1>2, <2>1 DEF x
    <3>2. QED  BY <2>2, <2>3, <2>7, <3>1, Zenon DEF Plain, p
  <2>9. m[u] \in Int /\ Decoders!Stop(bits, p, LowBits) \in Nat
    BY <1>2, <2>1, <2>4, <2>7, ValueTyped
  <2>10. f[u].status = "done" /\ f[u].at = Decoders!Stop(bits, p, LowBits) + 1 /\ f[u].out = Append(d.out, m[u])
    <3> DEFINE v == m[u]
    <3>1. v \in Int /\ Decoders!Stop(bits, d.at, LowBits) \in Nat
      BY <2>9 DEF p
    <3> HIDE DEF v
    <3>2. LET w == Decoders!Taken(d, bits, LowBits, v)
          IN  /\ w \in States /\ w.status = d.status
              /\ w.at = Decoders!Stop(bits, d.at, LowBits) + 1 /\ w.out = Append(d.out, v)
      BY <2>2, <3>1, TakenIs
    <3>3. QED  BY <2>2, <2>8, <3>2, Zenon DEF p, v
  <2>11. Len(g[u]) = Len(g[t]) + Len(e[u]) /\ Len(g[t]) \in Nat /\ Len(e[u]) \in Nat
    <3>1. u \in 1..Len(e)
      BY <1>1, <2>1
    <3>2. Len(g[u]) = Len(g[u - 1]) + Len(e[u]) /\ Len(g[u - 1]) \in Nat /\ Len(e[u]) \in Nat
      BY <1>1, <1>5, <3>1, JoinsGrow
    <3>3. QED  BY <2>1, <3>2
  <2>12. f[u].at = Len(g[u]) + 1
    <3>1. f[u].at = p + Len(e[u])
      BY <2>3, <2>7, <2>10
    <3>2. p = Len(g[t]) + 1
      BY <2>2 DEF p
    <3> DEFINE a == Len(g[t])
               b == Len(e[u])
    <3>3. a \in Nat /\ b \in Nat /\ Len(g[u]) = a + b /\ f[u].at = p + b /\ p = a + 1
      BY <2>11, <3>1, <3>2
    <3> HIDE DEF a, b
    <3>4. p + b = a + b + 1
      BY <3>3
    <3>5. QED  BY <3>3, <3>4
  <2>13. f[u].out = [i \in 1..u |-> m[i]]
    <3>1. \A i \in 1..u : m[i] \in Int
      BY <1>2, <2>1
    <3>2. Append([i \in 1..t |-> m[i]], m[u]) = [i \in 1..u |-> m[i]]
      BY <2>35, <3>1, AppendNext
    <3>3. QED  BY <2>2, <2>10, <3>2
  <2>14. QED  BY <2>10, <2>12, <2>13 DEF u
<1> HIDE DEF U
<1>8. Nat \subseteq U
  BY <1>6, <1>7, Induction
<1>9. Right(size)
  BY <1>8 DEF U
<1>10. f[size] \in States
  BY <1>4
<1>11. [i \in 1..size |-> m[i]] = [i \in 1..size |-> Decoders!toModQ(s[i])]
  BY <1>2, Zenon
<1>12. QED  BY <1>3, <1>9, <1>10, <1>11, Zenon

---------------------------------------------------------------------------
(***************************************************************************)
(* Whole signatures: what decompressS2 reads of what falcon-sign wrote,    *)
(* and what the checked decoder admits.                                    *)
(***************************************************************************)
(* The last byte is filled up behind what was written. *)
LEMMA FilledIs ==
  ASSUME NEW w \in Seq(Bits)
  PROVE  \E z \in Seq(Bits) : Decoders!Filled(w) = w \o z
<1> DEFINE k == (- Len(w)) % ByteBits
           z == [j \in 1..k |-> 0]
<1>1. k \in Nat
  <2>1. Len(w) \in Nat /\ ByteBits \in Nat \ {0}
    BY Sizes
  <2>2. QED  BY <2>1
<1>2. Decoders!Filled(w) = w \o z
  BY Zenon DEF Decoders!Filled
<1> HIDE DEF k
<1>3. z \in [1..k -> Bits]
  BY DEF Bits
<1> HIDE DEF z
<1>4. z \in Seq(Bits)
  BY <1>1, <1>3
<1>5. QED  BY <1>2, <1>4

(* main's decoder gives back the signature it is given, modulo q. *)
LEMMA SignatureRead ==
  ASSUME NEW size \in Nat, NEW s \in [1..size -> Int]
  PROVE  LET d == Decoders!decompressS2(Decoders!Filled(Decoders!Compressed(s)), size)
         IN  d.status = "done" /\ d.out = [i \in 1..size |-> Decoders!toModQ(s[i])]
<1> DEFINE w == Decoders!Compressed(s)
           bits == Decoders!Filled(w)
<1>1. PICK g : Joins(g, Encodings(s), Bits) /\ w = g[size]
  BY CompressedIs
<1>2. w \in Seq(Bits)
  <2>1. Len(Encodings(s)) = size /\ size \in 0..size
    BY CompressedIs
  <2>2. QED  BY <1>1, <2>1 DEF Joins
<1> HIDE DEF w
<1>3. PICK z \in Seq(Bits) : bits = w \o z
  BY <1>2, FilledIs
<1>4. bits \in Seq(Bits)
  BY <1>2, <1>3, ConcatProperties
<1>5. Holds(bits, 1, g[size])
  <2> DEFINE p == 1
  <2>1. Holds(w, p, w) /\ p \in Nat
    BY <1>2, HoldsSelf
  <2> HIDE DEF p
  <2>2. Holds(w \o z, p, w)
    BY <1>2, <2>1, HoldsMore
  <2>3. QED  BY <1>1, <1>3, <2>2 DEF p
<1> HIDE DEF bits
<1>6. QED  BY <1>1, <1>4, <1>5, PlainFollows DEF bits, w

(* What comp_decode accepts is the encoding of what it returns. *)
LEMMA SignatureCanonical ==
  ASSUME NEW bits \in Seq(Bits), NEW size \in Nat, Decoders!decodeFalconSig(bits, size).status = "done"
  PROVE  LET d == Decoders!decodeFalconSig(bits, size)
         IN  /\ Decoders!Compressed(d.out) = SubSeq(bits, 1, d.at - 1)
             /\ Decoders!decompressS2(bits, size) = Decoders!decodeFalconSignature(bits, size)
             /\ d.out \in [1..size -> (- MaxValue)..MaxValue]
<1>1. PICK f : CheckedRun(f, bits, size) /\ Decoders!decodeFalconSig(bits, size) = f[size]
  BY CheckedRuns
<1>2. /\ f \in [0..size -> States] /\ f[0] = Decoders!Start /\ f[size].status = "done"
      /\ \A u \in 1..size : f[u] = Checked(f[u - 1], bits)
  BY <1>1 DEF CheckedRun
<1> DEFINE Y == (- MaxValue)..MaxValue
           x(u) == Decoders!Value(bits, f[u - 1].at, LowBits)
           s == [u \in 1..size |-> x(u)]
           Steps1(u) == LET d == f[u - 1]
                        IN  /\ d \in States /\ d.status = "done" /\ Decoders!WellFormed(bits, d.at)
                            /\ f[u] = Decoders!Taken(d, bits, LowBits, x(u))
<1>3. ASSUME NEW u \in 1..size, f[u].status = "done" PROVE Steps1(u)
  <2> DEFINE d == f[u - 1]
             t == [d EXCEPT !.status = "thrown"]
  <2>1. d \in States /\ f[u] = Checked(d, bits)
    <3>1. u - 1 \in 0..size
      OBVIOUS
    <3>2. QED  BY <1>2, <3>1
  <2>2. t.status = "thrown"
    <3> HIDE DEF d
    <3>1. d = [status |-> d.status, at |-> d.at, out |-> d.out]
      BY <2>1 DEF States
    <3>2. QED  BY <3>1
  <2>3. f[u] # t
    BY <1>3, <2>2
  <2> HIDE DEF t
  <2>4. d.status = "done" /\ Decoders!WellFormed(bits, d.at)
        /\ f[u] = Decoders!Taken(d, bits, LowBits, Decoders!Value(bits, d.at, LowBits))
    BY <2>1, <2>3, Zenon DEF Checked, t
  <2>5. QED  BY <2>1, <2>4
<1> DEFINE W == {i \in Nat : i <= size => f[size - i].status = "done"}
<1>4. \A u \in 0..size : f[u].status = "done"
  <2>1. 0 \in W
    <3>1. size - 0 = size
      OBVIOUS
    <3>2. QED  BY <1>2, <3>1
  <2>2. ASSUME NEW i \in Nat, i \in W PROVE i + 1 \in W
    <3> SUFFICES ASSUME i + 1 <= size PROVE f[size - (i + 1)].status = "done"
      OBVIOUS
    <3> DEFINE u == size - i
    <3>1. u \in 1..size /\ size - (i + 1) = u - 1 /\ f[u].status = "done"
      BY <2>2
    <3> HIDE DEF u
    <3>2. QED  BY <1>3, <3>1
  <2> HIDE DEF W
  <2>3. Nat \subseteq W
    BY <2>1, <2>2, Induction
  <2>4. ASSUME NEW u \in 0..size PROVE f[u].status = "done"
    <3>1. size - u \in Nat /\ size - u <= size /\ size - (size - u) = u
      OBVIOUS
    <3>2. QED  BY <2>3, <3>1 DEF W
  <2>5. QED  BY <2>4
<1> HIDE DEF W
<1>5. \A u \in 1..size : Steps1(u)
  <2> HIDE DEF Steps1
  <2>1. 1..size \subseteq 0..size
    OBVIOUS
  <2>2. QED  BY <1>3, <1>4, <2>1
<1>6. ASSUME NEW u \in 1..size
      PROVE  LET p == f[u - 1].at
                 e == Decoders!EncodedCoefficient(x(u))
             IN  /\ x(u) \in Y /\ x(u) \in Int /\ p \in Nat \ {0}
                 /\ Holds(bits, p, e)
                 /\ f[u].at = p + Len(e) /\ f[u].out = Append(f[u - 1].out, x(u))
  <2> DEFINE d == f[u - 1]
             p == d.at
             v == x(u)
  <2>1. d \in States /\ Decoders!WellFormed(bits, p) /\ f[u] = Decoders!Taken(d, bits, LowBits, v)
    BY <1>5
  <2>2. p \in Nat \ {0}
    <3> HIDE DEF d
    <3>1. QED  BY <2>1 DEF States
  <2>3. v = Decoders!Value(bits, p, LowBits)
    OBVIOUS
  <2> HIDE DEF v, p
  <2>4. /\ v \in Int /\ (- MaxValue) <= v /\ v <= MaxValue
        /\ Holds(bits, p, Decoders!EncodedCoefficient(v))
        /\ Decoders!Stop(bits, p, LowBits) \in Nat
        /\ Decoders!Stop(bits, p, LowBits) + 1 = p + Len(Decoders!EncodedCoefficient(v))
    BY <2>1, <2>2, <2>3, CoefficientWritten
  <2>5. v \in Y
    BY <2>4, Sizes
  <2>6. f[u].at = Decoders!Stop(bits, p, LowBits) + 1 /\ f[u].out = Append(d.out, v)
    <3> HIDE DEF d
    <3>1. Decoders!Stop(bits, d.at, LowBits) \in Nat
      BY <2>4 DEF p
    <3>2. LET w == Decoders!Taken(d, bits, LowBits, v)
          IN  /\ w \in States /\ w.status = d.status
              /\ w.at = Decoders!Stop(bits, d.at, LowBits) + 1 /\ w.out = Append(d.out, v)
      BY <2>1, <2>4, <3>1, TakenIs
    <3>3. QED  BY <2>1, <3>2, Zenon DEF p
  <2>7. f[u].at = p + Len(Decoders!EncodedCoefficient(v))
    BY <2>4, <2>6
  <2>8. QED  BY <2>2, <2>4, <2>5, <2>6, <2>7, Zenon DEF p, v
<1> HIDE DEF x, Steps1
<1>7. s \in [1..size -> Y] /\ s \in [1..size -> Int] /\ \A u \in 1..size : s[u] = x(u) /\ x(u) \in Int
  <2> HIDE DEF Y
  <2>1. \A u \in 1..size : x(u) \in Y /\ x(u) \in Int
    BY <1>6
  <2>2. QED  BY <2>1
<1> HIDE DEF s, Y
<1> DEFINE e == Encodings(s)
<1>8. /\ e \in Seq(Seq(Bits)) /\ Len(e) = size
      /\ \A u \in 1..size : e[u] = Decoders!EncodedCoefficient(x(u))
  BY <1>7, CompressedIs
<1>9. PICK g : Joins(g, e, Bits) /\ Decoders!Compressed(s) = g[size]
  BY <1>7, CompressedIs
<1> HIDE DEF e
<1> DEFINE Right(u) == f[u].at = Len(g[u]) + 1 /\ f[u].out = [i \in 1..u |-> s[i]]
           U == {u \in Nat : u <= size => Right(u)}
<1>10. 0 \in U
  <2>1. g[0] = <<>>
    BY <1>9 DEF Joins
  <2>2. Len(g[0]) = 0
    BY <2>1
  <2>3. [i \in 1..0 |-> s[i]] = <<>>
    BY SMT
  <2>4. Right(0)
    BY <1>2, <2>2, <2>3, StartTyped
  <2>5. QED  BY <2>4
<1>11. ASSUME NEW t \in Nat, t \in U PROVE t + 1 \in U
  <2> SUFFICES ASSUME t + 1 <= size PROVE Right(t + 1)
    OBVIOUS
  <2> DEFINE u == t + 1
             p == f[t].at
  <2>1. u \in 1..size /\ u - 1 = t /\ u = t + 1 /\ p = Len(g[t]) + 1 /\ f[t].out = [i \in 1..t |-> s[i]]
    BY <1>11
  <2> HIDE DEF u
  <2>2. f[u].at = p + Len(e[u]) /\ f[u].out = Append(f[t].out, s[u])
    BY <1>6, <1>7, <1>8, <2>1
  <2>3. f[u].out = [i \in 1..u |-> s[i]]
    <3>1. \A i \in 1..u : s[i] \in Int
      BY <1>7, <2>1
    <3>2. Append([i \in 1..t |-> s[i]], s[u]) = [i \in 1..u |-> s[i]]
      BY <2>1, <3>1, AppendNext
    <3>3. QED  BY <2>1, <2>2, <3>2
  <2>4. f[u].at = Len(g[u]) + 1
    <3>1. u \in 1..Len(e)
      BY <1>8, <2>1
    <3>2. Len(g[u]) = Len(g[u - 1]) + Len(e[u]) /\ Len(g[u - 1]) \in Nat /\ Len(e[u]) \in Nat
      BY <1>8, <1>9, <3>1, JoinsGrow, ZenonT(60)
    <3> DEFINE a == Len(g[t])
               b == Len(e[u])
    <3>3. a \in Nat /\ b \in Nat /\ Len(g[u]) = a + b /\ f[u].at = p + b /\ p = a + 1
      BY <2>1, <2>2, <3>2
    <3> HIDE DEF a, b, p
    <3>4. p + b = a + b + 1
      BY <3>3
    <3>5. QED  BY <3>3, <3>4
  <2>5. QED  BY <2>3, <2>4 DEF u
<1> HIDE DEF U
<1>12. Nat \subseteq U
  BY <1>10, <1>11, Induction
<1>13. \A u \in 0..size : Right(u)
  BY <1>12 DEF U
<1>14. f[size].at = Len(g[size]) + 1 /\ f[size].out = s
  <2>1. s = [i \in 1..size |-> s[i]] /\ size \in 0..size
    BY <1>7
  <2>2. QED  BY <1>13, <2>1
<1>15. Holds(bits, 1, g[size])
  <2>1. ASSUME NEW u \in 1..size PROVE Holds(bits, Len(g[u - 1]) + 1, e[u])
    <3>1. u - 1 \in 0..size
      OBVIOUS
    <3>2. f[u - 1].at = Len(g[u - 1]) + 1
      BY <1>13, <3>1
    <3>3. QED  BY <1>6, <1>8, <3>2
  <2>2. \A u \in 1..Len(e) : Holds(bits, Len(g[u - 1]) + 1, e[u])
    BY <1>8, <2>1
  <2>3. Holds(bits, 1, g[Len(e)])
    BY <1>8, <1>9, <2>2, WholeHeld
  <2>4. QED  BY <1>8, <2>3
<1>16. g[size] \in Seq(Bits)
  <2>1. size \in 0..Len(e)
    BY <1>8
  <2>2. QED  BY <1>9, <2>1 DEF Joins
<1>17. Decoders!Compressed(s) = SubSeq(bits, 1, f[size].at - 1)
  <2> DEFINE w == g[size]
  <2>1. SubSeq(bits, 1, Len(w)) = w
    BY <1>15, <1>16, HoldsPrefix
  <2>2. f[size].at - 1 = Len(w)
    <3>1. f[size].at = Len(w) + 1 /\ Len(w) \in Nat
      BY <1>14, <1>16
    <3> HIDE DEF w
    <3>2. QED  BY <3>1
  <2>3. QED  BY <1>9, <2>1, <2>2
<1>18. Decoders!decompressS2(bits, size) = Decoders!decodeFalconSignature(bits, size)
  <2> DEFINE d == f[size]
             b == Decoders!decompressS2(bits, size)
             m == [i \in 1..size |-> Decoders!toModQ(s[i])]
  <2>1. b \in States /\ b.status = "done" /\ b.at = Len(g[size]) + 1 /\ b.out = m
    <3>1. Joins(g, Encodings(s), Bits)
      BY <1>9 DEF e
    <3>2. QED  BY <1>7, <1>15, <3>1, PlainFollows
  <2>2. d \in States /\ d.status = "done" /\ d.at = Len(g[size]) + 1 /\ d.out = s
    BY <1>2, <1>14
  <2>3. Decoders!decodeFalconSignature(bits, size)
          = [d EXCEPT !.out = [u \in DOMAIN d.out |-> Decoders!toModQ(d.out[u])]]
    BY <1>1, Zenon DEF Decoders!decodeFalconSignature
  <2>4. [u \in DOMAIN d.out |-> Decoders!toModQ(d.out[u])] = m
    <3>1. DOMAIN s = 1..size
      BY <1>7
    <3>2. QED  BY <2>2, <3>1, Zenon
  <2> HIDE DEF d, b, m
  <2>5. [d EXCEPT !.out = m] = [status |-> d.status, at |-> d.at, out |-> m]
    BY <2>2 DEF States
  <2>6. b = [status |-> b.status, at |-> b.at, out |-> b.out]
    BY <2>1 DEF States
  <2>7. Decoders!decodeFalconSignature(bits, size) = b
    BY <2>1, <2>2, <2>3, <2>4, <2>5, <2>6
  <2>8. QED  BY <2>7 DEF b
<1>19. s \in [1..size -> (- MaxValue)..MaxValue]
  BY <1>7 DEF Y
<1>20. QED  BY <1>1, <1>14, <1>17, <1>18, <1>19

---------------------------------------------------------------------------
(***************************************************************************)
(* Keys: LogQ bits a coefficient, the first bit the highest.               *)
(***************************************************************************)
Packed(h) == [u \in DOMAIN h |-> Decoders!Binary(h[u], LogQ)]

(* The packed key joins its coefficients, LogQ bits each. *)
LEMMA PackedIs ==
  ASSUME NEW size \in Nat, NEW h \in [1..size -> Nat]
  PROVE  /\ Packed(h) \in Seq(Seq(Bits)) /\ Len(Packed(h)) = size
         /\ \A u \in 1..size : Packed(h)[u] = Decoders!Binary(h[u], LogQ) /\ Len(Packed(h)[u]) = LogQ
         /\ \E g : /\ Joins(g, Packed(h), Bits) /\ Decoders!EncodedPk(h) = Decoders!Filled(g[size])
                   /\ \A u \in 0..size : g[u] \in Seq(Bits) /\ Len(g[u]) = u * LogQ
<1> DEFINE e == Packed(h)
<1>1. e = [u \in 1..size |-> Decoders!Binary(h[u], LogQ)]
  BY DEF Packed
<1>2. ASSUME NEW u \in 1..size
      PROVE  Decoders!Binary(h[u], LogQ) \in Seq(Bits) /\ Len(Decoders!Binary(h[u], LogQ)) = LogQ
  <2> DEFINE x == h[u]
  <2>1. x \in Nat /\ LogQ \in Nat
    BY Sizes
  <2> HIDE DEF x
  <2>2. Decoders!Binary(x, LogQ) \in Seq(Bits) /\ Len(Decoders!Binary(x, LogQ)) = LogQ
    BY <2>1, BinaryShape
  <2>3. QED  BY <2>2 DEF x
<1>3. Decoders!EncodedPk(h) = Decoders!Filled(Decoders!FlattenSeq(e))
  BY Zenon DEF Decoders!EncodedPk, Packed
<1> HIDE DEF e
<1>4. e \in [1..size -> Seq(Bits)] /\ \A u \in 1..size : e[u] = Decoders!Binary(h[u], LogQ) /\ Len(e[u]) = LogQ
  BY <1>1, <1>2
<1>5. e \in Seq(Seq(Bits)) /\ Len(e) = size
  BY <1>4
<1>6. PICK g : Joins(g, e, Bits) /\ Decoders!FlattenSeq(e) = g[Len(e)]
  BY <1>5, Flattened
<1> DEFINE U == {u \in Nat : u <= size => Len(g[u]) = u * LogQ}
<1>7. 0 \in U
  <2>1. g[0] = <<>> /\ LogQ \in Nat
    BY <1>6, Sizes DEF Joins
  <2>2. Len(g[0]) = 0 /\ 0 * LogQ = 0
    BY <2>1
  <2>3. QED  BY <2>2
<1>8. ASSUME NEW t \in Nat, t \in U PROVE t + 1 \in U
  <2> SUFFICES ASSUME t + 1 <= size PROVE Len(g[t + 1]) = (t + 1) * LogQ
    OBVIOUS
  <2> DEFINE u == t + 1
  <2>1. u \in 1..Len(e) /\ u - 1 = t /\ u \in 1..size
    BY <1>5
  <2> HIDE DEF u
  <2>2. Len(g[u]) = Len(g[u - 1]) + Len(e[u])
    BY <1>5, <1>6, <2>1, JoinsGrow, ZenonT(60)
  <2>3. Len(e[u]) = LogQ /\ Len(g[t]) = t * LogQ /\ LogQ \in Nat
    BY <1>4, <1>8, <2>1, Sizes
  <2>4. Len(g[u]) = t * LogQ + LogQ
    BY <2>1, <2>2, <2>3
  <2>5. t * LogQ + LogQ = (t + 1) * LogQ
    BY <2>3
  <2>6. QED  BY <2>4, <2>5 DEF u
<1> HIDE DEF U
<1>9. Nat \subseteq U
  BY <1>7, <1>8, Induction
<1>10. \A u \in 0..size : g[u] \in Seq(Bits) /\ Len(g[u]) = u * LogQ
  <2> SUFFICES ASSUME NEW u \in 0..size PROVE g[u] \in Seq(Bits) /\ Len(g[u]) = u * LogQ
    OBVIOUS
  <2>1. Len(g[u]) = u * LogQ
    BY <1>9 DEF U
  <2>2. g[u] \in Seq(Bits)
    BY <1>5, <1>6 DEF Joins
  <2>3. QED  BY <2>1, <2>2
<1>11. \E gg : /\ Joins(gg, e, Bits) /\ Decoders!EncodedPk(h) = Decoders!Filled(gg[size])
               /\ \A u \in 0..size : gg[u] \in Seq(Bits) /\ Len(gg[u]) = u * LogQ
  BY <1>3, <1>5, <1>6, <1>10
<1>12. QED  BY <1>4, <1>5, <1>11 DEF e

(* Where a coefficient of a key starts. *)
LEMMA KeyBitIs ==
  ASSUME NEW u \in Nat \ {0}
  PROVE  /\ Decoders!KeyBit(u) = (u - 1) * LogQ + 1 /\ Decoders!KeyBit(u) \in Nat
         /\ (u - 1) * LogQ + LogQ = u * LogQ
<1>1. LogQ \in Nat /\ u - 1 \in Nat
  BY Sizes
<1>2. Decoders!KeyBit(u) = 1 + (u - 1) * LogQ
  BY Zenon DEF Decoders!KeyBit
<1> DEFINE a == (u - 1) * LogQ
<1>3. a \in Nat /\ a + LogQ = u * LogQ
  BY <1>1
<1> HIDE DEF a
<1>4. 1 + a = a + 1 /\ a + 1 \in Nat
  BY <1>3
<1>5. QED  BY <1>2, <1>3, <1>4 DEF a

(* main's decoder gives back the key it is given. *)
LEMMA KeyRead ==
  ASSUME NEW size \in Nat, NEW h \in [1..size -> 0..(q - 1)]
  PROVE  Decoders!decodePk(Decoders!EncodedPk(h), size) = h
<1> DEFINE bits == Decoders!EncodedPk(h)
           e == Packed(h)
<1>1. h \in [1..size -> Nat] /\ \A u \in 1..size : h[u] \in Nat /\ h[u] < Decoders!TwoTo[LogQ]
  <2>1. q \in Nat \ {0} /\ q <= Decoders!TwoTo[LogQ] /\ Decoders!TwoTo[LogQ] \in Nat
    BY Sizes, Powers, FalconAssumption DEF FalconAssumption
  <2>2. ASSUME NEW u \in 1..size PROVE h[u] \in Nat /\ h[u] < Decoders!TwoTo[LogQ]
    <3>1. h[u] \in 0..(q - 1)
      OBVIOUS
    <3>2. QED  BY <2>1, <3>1
  <2>3. QED  BY <2>2
<1>2. /\ e \in Seq(Seq(Bits)) /\ Len(e) = size
      /\ \A u \in 1..size : e[u] = Decoders!Binary(h[u], LogQ) /\ Len(e[u]) = LogQ
  BY <1>1, PackedIs
<1>3. PICK g : /\ Joins(g, e, Bits) /\ bits = Decoders!Filled(g[size])
               /\ \A u \in 0..size : g[u] \in Seq(Bits) /\ Len(g[u]) = u * LogQ
  BY <1>1, PackedIs
<1> HIDE DEF e, bits
<1> DEFINE w == g[size]
<1>4. w \in Seq(Bits)
  BY <1>3
<1> HIDE DEF w
<1>5. PICK z \in Seq(Bits) : bits = w \o z
  BY <1>3, <1>4, FilledIs DEF w
<1>6. bits \in Seq(Bits)
  BY <1>4, <1>5, ConcatProperties
<1>7. Holds(bits, 1, w)
  <2> DEFINE p == 1
  <2>1. Holds(w, p, w) /\ p \in Nat
    BY <1>4, HoldsSelf
  <2> HIDE DEF p
  <2>2. Holds(w \o z, p, w)
    BY <1>4, <2>1, HoldsMore
  <2>3. QED  BY <1>5, <2>2 DEF p
<1>8. ASSUME NEW u \in 1..size PROVE Decoders!readBits(bits, Decoders!KeyBit(u), LogQ) = h[u]
  <2> DEFINE p == Decoders!KeyBit(u)
             v == h[u]
  <2>1. v \in Nat /\ v < Decoders!TwoTo[LogQ] /\ LogQ \in Nat /\ u - 1 \in 0..size /\ u \in Nat \ {0}
    BY <1>1, Sizes
  <2>2. p = Len(g[u - 1]) + 1 /\ p \in Nat
    <3>1. p = (u - 1) * LogQ + 1 /\ p \in Nat
      BY <2>1, KeyBitIs
    <3>2. Len(g[u - 1]) = (u - 1) * LogQ
      BY <1>3, <2>1
    <3>3. QED  BY <3>1, <3>2
  <2>3. Holds(bits, p, e[u])
    <3>1. u \in 1..Len(e) /\ Holds(bits, 1, g[Len(e)])
      BY <1>2, <1>7 DEF w
    <3>2. Holds(bits, Len(g[u - 1]) + 1, e[u])
      BY <1>2, <1>3, <1>6, <3>1, PartsHeld
    <3>3. QED  BY <2>2, <3>2
  <2>4. e[u] = Decoders!Binary(v, LogQ) /\ Len(e[u]) = LogQ
    BY <1>2
  <2> HIDE DEF p, v
  <2>5. \A j \in 1..LogQ : Decoders!Bit(bits, p + j - 1) = Decoders!Binary(v, LogQ)[j]
    <3> SUFFICES ASSUME NEW j \in 1..LogQ PROVE Decoders!Bit(bits, p + j - 1) = Decoders!Binary(v, LogQ)[j]
      OBVIOUS
    <3>1. p + j - 1 \in 1..Len(bits) /\ bits[p + j - 1] = e[u][j]
      BY <2>3, <2>4 DEF Holds
    <3>2. p + j - 1 \in DOMAIN bits
      BY <1>6, <3>1
    <3>3. QED  BY <2>4, <3>1, <3>2 DEF Decoders!Bit
  <2>6. Decoders!readBits(bits, p, LogQ) = v
    BY <2>1, <2>2, <2>5, BinaryRead
  <2>7. QED  BY <2>6 DEF p, v
<1>9. Decoders!decodePk(bits, size) = [u \in 1..size |-> Decoders!readBits(bits, Decoders!KeyBit(u), LogQ)]
  BY Zenon DEF Decoders!decodePk
<1>10. h = [u \in 1..size |-> h[u]]
  OBVIOUS
<1>11. Decoders!decodePk(bits, size) = h
  BY <1>8, <1>9, <1>10, Zenon
<1>12. QED  BY <1>11 DEF bits

(* And a key that is long enough has the encoding it was read from. *)
LEMMA KeyCanonical ==
  ASSUME NEW bits \in Seq(Bits), NEW size \in Nat, Len(bits) >= size * LogQ
  PROVE  LET h == Decoders!decodePk(bits, size)
         IN  /\ h \in [1..size -> Nat]
             /\ Decoders!EncodedPk(h) = Decoders!Filled(SubSeq(bits, 1, size * LogQ))
<1> DEFINE h == Decoders!decodePk(bits, size)
           x(u) == Decoders!readBits(bits, Decoders!KeyBit(u), LogQ)
<1>1. h = [u \in 1..size |-> x(u)]
  BY Zenon DEF Decoders!decodePk
<1>2. ASSUME NEW u \in 1..size
      PROVE  /\ x(u) \in Nat
             /\ \A j \in 1..LogQ : LET k == Decoders!KeyBit(u) + j - 1
                                   IN  /\ k \in 1..Len(bits)
                                       /\ bits[k] = Decoders!Binary(x(u), LogQ)[j]
  <2> DEFINE p == Decoders!KeyBit(u)
             v == x(u)
             a == (u - 1) * LogQ
             b == size * LogQ
  <2>1. p = a + 1 /\ p \in Nat /\ a + LogQ = u * LogQ
    BY KeyBitIs
  <2>2. LogQ \in Nat /\ a \in Nat /\ b \in Nat /\ a + LogQ <= b /\ b <= Len(bits) /\ Len(bits) \in Nat
    <3>1. LogQ \in Nat
      BY Sizes
    <3>2. a \in Nat /\ b \in Nat
      BY <3>1
    <3>3. b = u * LogQ + (size - u) * LogQ /\ (size - u) * LogQ \in Nat
      BY <3>1
    <3> DEFINE k == (size - u) * LogQ
               l == u * LogQ
    <3>4. k \in Nat /\ l \in Nat /\ b = l + k /\ a + LogQ = l
      BY <2>1, <3>1, <3>3
    <3> HIDE DEF k, l, a, b
    <3>5. a + LogQ <= b
      BY <3>4
    <3>6. QED  BY <3>1, <3>2, <3>5 DEF b
  <2> HIDE DEF a, b
  <2>3. \A j \in 0..(LogQ - 1) : p + j \in 1..Len(bits) /\ bits[p + j] \in {0, 1}
    <3> SUFFICES ASSUME NEW j \in 0..(LogQ - 1) PROVE p + j \in 1..Len(bits) /\ bits[p + j] \in {0, 1}
      OBVIOUS
    <3> HIDE DEF p
    <3>1. p + j \in 1..Len(bits)
      BY <2>1, <2>2
    <3>2. QED  BY <3>1 DEF Bits
  <2>4. \A j \in 0..(LogQ - 1) : Decoders!Bit(bits, p + j) = bits[p + j]
    <3> HIDE DEF p
    <3>1. QED  BY <2>3 DEF Decoders!Bit
  <2>5. v = Decoders!readBits(bits, p, LogQ)
    OBVIOUS
  <2> HIDE DEF p, v
  <2>6. /\ v \in Nat
        /\ \A j \in 1..LogQ : Decoders!Binary(v, LogQ)[j] = Decoders!Bit(bits, p + j - 1)
    <3>1. \A j \in 0..(LogQ - 1) : Decoders!Bit(bits, p + j) \in {0, 1}
      BY <2>3, <2>4
    <3>2. QED  BY <2>1, <2>2, <2>5, <3>1, ReadBinary
  <2>7. ASSUME NEW j \in 1..LogQ
        PROVE  p + j - 1 \in 1..Len(bits) /\ bits[p + j - 1] = Decoders!Binary(v, LogQ)[j]
    <3> DEFINE i == j - 1
    <3>1. i \in 0..(LogQ - 1) /\ p + j - 1 = p + i
      BY <2>1, <2>2
    <3> HIDE DEF i
    <3>2. QED  BY <2>3, <2>4, <2>6, <3>1
  <2>8. QED  BY <2>6, <2>7 DEF p, v
<1> HIDE DEF x
<1>3. h \in [1..size -> Nat] /\ \A u \in 1..size : h[u] = x(u)
  <2> HIDE DEF h
  <2>1. QED  BY <1>1, <1>2
<1> HIDE DEF h
<1> DEFINE e == Packed(h)
<1>4. /\ e \in Seq(Seq(Bits)) /\ Len(e) = size
      /\ \A u \in 1..size : e[u] = Decoders!Binary(h[u], LogQ) /\ Len(e[u]) = LogQ
  BY <1>3, PackedIs
<1>5. PICK g : /\ Joins(g, e, Bits) /\ Decoders!EncodedPk(h) = Decoders!Filled(g[size])
               /\ \A u \in 0..size : g[u] \in Seq(Bits) /\ Len(g[u]) = u * LogQ
  BY <1>3, PackedIs
<1> HIDE DEF e
<1>6. ASSUME NEW u \in 1..size PROVE Holds(bits, Len(g[u - 1]) + 1, e[u])
  <2>1. Len(g[u - 1]) + 1 = Decoders!KeyBit(u)
    <3>1. u - 1 \in 0..size
      OBVIOUS
    <3>2. Decoders!KeyBit(u) = (u - 1) * LogQ + 1
      BY KeyBitIs
    <3>3. QED  BY <1>5, <3>1, <3>2
  <2> DEFINE p == Decoders!KeyBit(u)
  <2>2. \A j \in 1..LogQ : p + j - 1 \in 1..Len(bits) /\ bits[p + j - 1] = e[u][j]
    BY <1>2, <1>3, <1>4
  <2> HIDE DEF p
  <2>3. Holds(bits, p, e[u])
    BY <1>4, <2>2 DEF Holds
  <2>4. QED  BY <2>1, <2>3 DEF p
<1>7. Holds(bits, 1, g[size])
  <2>1. \A u \in 1..Len(e) : Holds(bits, Len(g[u - 1]) + 1, e[u])
    BY <1>4, <1>6
  <2>2. Holds(bits, 1, g[Len(e)])
    BY <1>4, <1>5, <2>1, WholeHeld
  <2>3. QED  BY <1>4, <2>2
<1>8. SubSeq(bits, 1, size * LogQ) = g[size]
  <2> DEFINE w == g[size]
  <2>1. w \in Seq(Bits) /\ Len(w) = size * LogQ
    BY <1>5
  <2>2. Holds(bits, 1, w)
    BY <1>7
  <2> HIDE DEF w
  <2>3. SubSeq(bits, 1, Len(w)) = w
    BY <2>1, <2>2, HoldsPrefix
  <2>4. QED  BY <2>1, <2>3 DEF w
<1>9. QED  BY <1>3, <1>5, <1>8 DEF h

---------------------------------------------------------------------------
(***************************************************************************)
(* The verification: what it reads of the storage stays until it returns.  *)
(***************************************************************************)
(* What is verified, and what the verification has come to. *)
Verification ==
  /\ c \in Seq(0..(q - 1))
  /\ pc = "hash" => key \in Natural /\ sig.s2 \in Natural
  /\ pc = "done" /\ result # "revert" =>
       /\ IF Len(c) = n THEN key \in Natural /\ sig.s2 \in Natural /\ result = Verify
                        ELSE result = "SIG_VALIDATION_FAILED"
       /\ WellFormed(key, sig) => Len(c) = n

(* What no step of the verifier touches, *)
LEMMA VerificationSame ==
  ASSUME Verification, UNCHANGED <<ntt, pc, key, sig, c, result>>
  PROVE  Verification'
<1>1. Verify' = Verify
  BY DEF Verify, Verified, Hashed
<1>2. QED  BY <1>1 DEF Verification, WellFormed

(* one that has returned, *)
LEMMA VerificationIdle ==
  ASSUME Verification, pc' = "idle", c' = c
  PROVE  Verification'
BY DEF Verification

(* one that starts with a decoded signature, *)
LEMMA VerificationStarts ==
  ASSUME NEW h, NEW s, ValidateSignature(h, s),
         Size(h) = n => h \in Natural, s.decodes => s.s2 \in Natural
  PROVE  Verification'
<1>1. key' = h /\ sig' = s /\ c' = <<>>
  BY DEF ValidateSignature
<1>2. Len(<<>>) = 0 /\ <<>> \in Seq(0..(q - 1)) /\ 0 # n
  BY EmptySeq, FalconAssumption DEF FalconAssumption
<1>3. \/ pc' = "done" /\ (result' = "revert" \/ (result' = "SIG_VALIDATION_FAILED" /\ ~WellFormed(h, s)))
      \/ s.decodes /\ Size(h) = n /\ pc' = "hash"
  BY DEF ValidateSignature, WellFormed
<1>4. (pc' = "hash" => key' \in Natural /\ sig'.s2 \in Natural) /\ c' \in Seq(0..(q - 1))
  BY <1>1, <1>2, <1>3
<1>5. pc' = "done" /\ result' # "revert" =>
        Len(c') # n /\ ~WellFormed(key', sig') /\ result' = "SIG_VALIDATION_FAILED"
  BY <1>1, <1>2, <1>3
<1>6. WellFormed(key, sig)' <=> WellFormed(key', sig')
  BY DEF WellFormed
<1>7. QED  BY <1>4, <1>5, <1>6 DEF Verification

(* reads a word, *)
LEMMA VerificationReads ==
  ASSUME Verification, NEW t \in Words, Read(t)
  PROVE  Verification'
<1>1. pc = "hash" /\ pc' = "hash" /\ key' = key /\ sig' = sig
      /\ c' = (IF Usable(t) THEN Append(c, Coefficient(t)) ELSE c)
  BY DEF Read
<1>2. Coefficient(t) \in 0..(q - 1)
  <2>1. t \in Int
    BY FalconAssumption DEF FalconAssumption
  <2>2. QED  BY <2>1, CongMod DEF Coefficient
<1>3. c' \in Seq(0..(q - 1))
  <2> DEFINE S == 0..(q - 1)
             x == Coefficient(t)
  <2>1. c \in Seq(S) /\ x \in S
    BY <1>2 DEF Verification
  <2> HIDE DEF S, x
  <2>2. Append(c, x) \in Seq(S)
    BY <2>1
  <2>3. c' \in Seq(S)
    BY <1>1, <2>1, <2>2 DEF x
  <2>4. QED  BY <2>3 DEF S
<1>4. QED  BY <1>1, <1>3 DEF Verification

(* and has its outcome. *)
LEMMA VerificationHashed ==
  ASSUME Verification, HashedToPoint
  PROVE  Verification'
<1>1. pc = "hash" /\ Len(c) = n /\ result' = Verify /\ pc' = "done" /\ UNCHANGED <<ntt, key, sig, c>>
  BY DEF HashedToPoint, storage
<1>2. Verify' = Verify
  BY <1>1 DEF Verify, Verified, Hashed
<1>3. QED  BY <1>1, <1>2 DEF Verification

(* Its end keeps the invariant, *)
LEMMA VerificationEnds ==
  ASSUME Verification, OutOfGas \/ Returned
  PROVE  Verification'
<1>1. CASE OutOfGas
  <2>1. pc' = "done" /\ result' = "revert" /\ c' = c
    BY <1>1 DEF OutOfGas
  <2>2. QED  BY <2>1 DEF Verification
<1>2. CASE Returned
  <2>1. pc' = "idle" /\ c' = <<>>
    BY <1>2 DEF Returned
  <2>2. <<>> \in Seq(0..(q - 1))
    BY EmptySeq
  <2>3. QED  BY <2>1, <2>2 DEF Verification
<1>3. QED  BY <1>1, <1>2

(* and so do updates of tables, which a running call does not see. *)
LEMMA VerificationTables ==
  ASSUME Verification, MakeImmutable \/ \E tables \in Updates : Update(tables)
  PROVE  Verification'
<1>1. pc' = "idle" /\ c' = c
  BY DEF MakeImmutable, Update
<1>2. QED  BY <1>1, VerificationIdle

(* It holds before any call. *)
LEMMA VerificationInit == Init => Verification
BY EmptySeq DEF Init, Verification

(* Every step keeps it. *)
LEMMA VerificationNext ==
  ASSUME Verification, [Next]_vars
  PROVE  Verification'
<1>1. ASSUME NEW h \in Keys, NEW s \in Sigs, ValidateSignature(h, s) PROVE Verification'
  <2>1. (Size(h) = n => h \in Natural) /\ (s.decodes => s.s2 \in Natural)
    BY InputsAssumption DEF InputsAssumption, Natural
  <2>2. QED  BY <1>1, <2>1, VerificationStarts
<1>2. ASSUME NEW t \in Words, Read(t) PROVE Verification'
  BY <1>2, VerificationReads
<1>3. CASE HashedToPoint
  BY <1>3, VerificationHashed
<1>4. CASE OutOfGas \/ Returned
  BY <1>4, VerificationEnds
<1>5. CASE MakeImmutable \/ \E tables \in Updates : Update(tables)
  BY <1>5, VerificationTables
<1>6. CASE UNCHANGED vars
  BY <1>6, VerificationSame DEF vars, storage
<1>7. QED  BY <1>1, <1>2, <1>3, <1>4, <1>5, <1>6, Zenon DEF Next

(* And an accepted signature satisfies the equation of Falcon. *)
LEMMA Accepts ==
  ASSUME Verification
  PROVE  AcceptsShort
<1> SUFFICES ASSUME pc = "done", Len(c) = n, IsGenuine, result # "revert"
             PROVE  /\ result = (IF Short THEN "SIG_VALIDATION_SUCCESS" ELSE "SIG_VALIDATION_FAILED")
                    /\ VerifyOpt = result
  BY Zenon DEF AcceptsShort
<1>1. key \in Natural /\ sig.s2 \in Natural /\ result = Verify /\ c \in Seq(0..(q - 1))
  BY DEF Verification
<1>2. Verify # "revert"
  BY <1>1
<1>3. /\ Verify = (IF Short THEN "SIG_VALIDATION_SUCCESS" ELSE "SIG_VALIDATION_FAILED")
      /\ VerifyOpt = Verify
  BY <1>1, <1>2, VerifyIsShort
<1>4. QED  BY <1>1, <1>3, Zenon

(***************************************************************************)
(* AcceptsShort holds: whatever n and q with the tables they need, NTT_MUL *)
(* and NTT_HALFMUL compute the product by its definition, and so verify    *)
(* accepts exactly the signatures that are short.                          *)
(***************************************************************************)
THEOREM VerifierAccepts == Spec => []AcceptsShort
<1>1. Init => Verification
  BY VerificationInit
<1>2. Verification /\ [Next]_vars => Verification'
  BY VerificationNext
<1>3. Verification => AcceptsShort
  BY Accepts
<1>4. QED  BY <1>1, <1>2, <1>3, PTL DEF Spec

---------------------------------------------------------------------------
(***************************************************************************)
(* What a signature of the script stands for modulo q.                     *)
(***************************************************************************)
(* The script counts coefficients from one, the contract from zero. *)
LEMMA SigmaShift ==
  ASSUME NEW k \in Nat, NEW f, NEW g, \A i \in 1..k : g[i] \in Int, \A i \in 0..(k - 1) : f[i] = g[i + 1]
  PROVE  SumFunctionOnSet(g, 1..k) = Sigma(f, k)
<1> DEFINE T == {l \in Nat : l <= k => Signed(g, 1..l) = Sigma(f, l)}
<1>1. 0 \in T
  <2>1. 1..0 = {}
    OBVIOUS
  <2>2. QED  BY <2>1, SignedEmpty, SigmaZero
<1>2. ASSUME NEW l \in Nat, l \in T PROVE l + 1 \in T
  <2> SUFFICES ASSUME l + 1 <= k PROVE Signed(g, 1..(l + 1)) = Sigma(f, l + 1)
    OBVIOUS
  <2> DEFINE S == 1..l
             x == l + 1
  <2>1. /\ 1..(l + 1) = S \cup {x} /\ x \notin S /\ \A y \in S \cup {x} : g[y] \in Int
    OBVIOUS
  <2>2. IsFiniteSet(S)
    BY FS_Interval
  <2>3. f[l] = g[x] /\ \A i \in 0..l : f[i] \in Int
    <3>1. \A i \in 0..l : i \in 0..(k - 1) /\ i + 1 \in 1..k
      OBVIOUS
    <3>2. l \in 0..l
      OBVIOUS
    <3>3. QED  BY <3>1, <3>2
  <2>4. Signed(g, S) = Sigma(f, l)
    BY <1>2
  <2>5. Sigma(f, l + 1) = Sigma(f, l) + f[l]
    BY <2>3, SigmaNext
  <2>6. Sigma(f, l) \in Int
    BY <2>3, SigmaInt
  <2>7. g[x] \in Int
    BY <2>1
  <2> HIDE DEF S, x
  <2>8. Signed(g, S \cup {x}) = g[x] + Signed(g, S)
    BY <2>1, <2>2, SignedAdded
  <2>9. Signed(g, 1..(l + 1)) = g[x] + Sigma(f, l)
    BY <2>1, <2>4, <2>8
  <2>10. Sigma(f, l + 1) = Sigma(f, l) + g[x]
    BY <2>3, <2>5
  <2> DEFINE a == g[x]
             b == Sigma(f, l)
  <2>11. a \in Int /\ b \in Int
    BY <2>6, <2>7
  <2> HIDE DEF a, b
  <2>12. a + b = b + a
    BY <2>11
  <2>13. QED  BY <2>9, <2>10, <2>12 DEF a, b
<1> HIDE DEF T
<1>3. Nat \subseteq T
  BY <1>1, <1>2, Induction
<1>4. Signed(g, 1..k) = Sigma(f, k)
  BY <1>3 DEF T
<1>5. SumFunctionOnSet(g, 1..k) = Signed(g, 1..k)
  <2> DEFINE S == 1..k
  <2>1. IsFiniteSet(S) /\ \A i \in S : g[i] \in Int
    BY FS_Interval
  <2> HIDE DEF S
  <2>2. SumFunctionOnSet(g, S) = Signed(g, S)
    BY <2>1, SumIsSigned
  <2>3. QED  BY <2>2 DEF S
<1>6. QED  BY <1>4, <1>5

(* Coefficients that are the same modulo q have the same product. *)
LEMMA ProductSame ==
  ASSUME NEW a \in Poly, NEW d \in Poly, NEW b \in Poly, \A i \in 0..(n - 1) : Cong(a[i], d[i])
  PROVE  Product(a, b, q) = Product(d, b, q)
<1> DEFINE F(x, j) == [i \in 0..(n - 1) |-> IF i <= j THEN x[i] * b[j - i] ELSE -(x[i] * b[j - i + n])]
<1>0. n \in Nat
  BY Field
<1>1. ASSUME NEW x \in Poly
      PROVE  Product(x, b, q) = [j \in 0..(n - 1) |-> SumFunction(F(x, j)) % q]
  <2>1. Size(x) = n /\ DOMAIN x = 0..(n - 1)
    BY SizeIs
  <2>2. QED  BY <2>1, Zenon DEF Product
<1>2. ASSUME NEW j \in 0..(n - 1) PROVE SumFunction(F(a, j)) % q = SumFunction(F(d, j)) % q
  <2> DEFINE f == F(a, j)
             g == F(d, j)
  <2>1. SumFunction(f) = Sigma(f, n) /\ SumFunction(g) = Sigma(g, n)
    BY Zenon DEF SumFunction, Sigma, f, g
  <2>2. ASSUME NEW i \in 0..(n - 1) PROVE f[i] \in Int /\ g[i] \in Int /\ Cong(f[i], g[i])
    <3> DEFINE x == a[i]
               y == d[i]
               k == IF i <= j THEN b[j - i] ELSE - b[j - i + n]
    <3>1. x \in Int /\ y \in Int /\ Cong(x, y)
      BY DEF Poly
    <3>2. k \in Int /\ f[i] = x * k /\ g[i] = y * k
      <4>1. CASE i <= j
        <5> DEFINE z == b[j - i]
        <5>1. z \in Int
          <6>1. j - i \in 0..(n - 1)
            BY <1>0, <4>1
          <6>2. QED  BY <6>1 DEF Poly
        <5>2. k = z /\ f[i] = x * z /\ g[i] = y * z
          BY <4>1
        <5> HIDE DEF f, g, k, z
        <5>3. QED  BY <5>1, <5>2
      <4>2. CASE ~(i <= j)
        <5> DEFINE z == b[j - i + n]
        <5>1. z \in Int
          <6>1. j - i + n \in 0..(n - 1)
            BY <1>0, <4>2
          <6>2. QED  BY <6>1 DEF Poly
        <5>2. k = - z /\ f[i] = -(x * z) /\ g[i] = -(y * z)
          BY <4>2
        <5> HIDE DEF f, g, k, z, x, y
        <5>3. -(x * z) = x * (- z) /\ -(y * z) = y * (- z) /\ - z \in Int
          BY <3>1, <5>1
        <5>4. QED  BY <5>2, <5>3
      <4>3. QED  BY <4>1, <4>2
    <3> HIDE DEF f, g, k, x, y
    <3>3. Cong(x * k, y * k)
      BY <3>1, <3>2, CongScale
    <3>4. x * k \in Int /\ y * k \in Int
      BY <3>1, <3>2
    <3>5. QED  BY <3>2, <3>3, <3>4
  <2> HIDE DEF f, g
  <2>3. Sigma(f, n) \in Int /\ Sigma(g, n) \in Int
    BY <1>0, <2>2, SigmaInt
  <2>4. Cong(Sigma(f, n), Sigma(g, n))
    BY <1>0, <2>2, SigmaCong
  <2>5. Sigma(f, n) % q = Sigma(g, n) % q
    BY <2>3, <2>4, CongSame
  <2>6. QED  BY <2>1, <2>5 DEF f, g
<1> HIDE DEF F
<1>3. QED  BY <1>1, <1>2

(***************************************************************************)
(* A signature's coefficients as main's decoder gives them.                *)
(***************************************************************************)
Reduced(s) == [j \in 0..(n - 1) |-> Decoders!toModQ(s[j + 1])]

(* toModQ keeps a coefficient modulo q, and its square. *)
LEMMA ReducedOne ==
  ASSUME NEW x \in (- MaxValue)..MaxValue
  PROVE  LET y == Decoders!toModQ(x)
         IN  y \in Nat /\ y = x % q /\ Cong(y, x) /\ Nearest(y) \in Int /\ Nearest(y) * Nearest(y) = x * x
<1> DEFINE y == Decoders!toModQ(x)
           h == (q - 1) \div 2
<1>1. MaxValue \in Nat /\ 2 * MaxValue < q /\ q \in Nat \ {0}
  BY Sizes, Field
<1>2. y = IF x < 0 THEN q + x ELSE x
  BY DEF Decoders!toModQ
<1> HIDE DEF y
<1>3. x \in Int /\ (- MaxValue) <= x /\ x <= MaxValue /\ y \in Nat /\ y < q
  BY <1>1, <1>2
<1>4. Cong(y, x)
  <2>1. CASE x < 0
    <3>1. y = x + 1 * q
      BY <1>1, <1>2, <1>3, <2>1
    <3>2. QED  BY <3>1 DEF Cong
  <2>2. CASE ~(x < 0)
    BY <1>2, <1>3, <2>2, CongRefl
  <2>3. QED  BY <2>1, <2>2
<1>5. y % q = y
  BY <1>1, <1>3
<1>6. h \in Nat /\ 2 * h <= q - 1 /\ q - 1 <= 2 * h + 1
  BY <1>1
<1>7. Nearest(y) = IF y <= h THEN y ELSE q - y
  BY <1>5, Zenon DEF Nearest
<1> HIDE DEF h
<1>8. Nearest(y) = IF x < 0 THEN - x ELSE x
  BY <1>1, <1>2, <1>3, <1>6, <1>7
<1> DEFINE z == Nearest(y)
<1>9. z = x \/ z = - x
  BY <1>8
<1> HIDE DEF z
<1>10. z \in Int /\ z * z = x * x
  BY <1>3, <1>9
<1>11. y = x % q
  <2>1. y % q = x % q
    BY <1>3, <1>4, CongSame
  <2>2. QED  BY <1>5, <2>1
<1>12. QED  BY <1>3, <1>4, <1>10, <1>11 DEF z, y

(* And so the norm of a signature does not change. *)
LEMMA ReducedIs ==
  ASSUME NEW s \in [1..n -> (- MaxValue)..MaxValue]
  PROVE  /\ Reduced(s) \in Natural /\ Reduced(s) \in Poly /\ Coefficients(s) \in Poly
         /\ Reduced(s) = [j \in 0..(n - 1) |-> s[j + 1] % q]
         /\ \A j \in 0..(n - 1) : Cong(Coefficients(s)[j], Reduced(s)[j])
         /\ Norm(Reduced(s)) = SumFunction([j \in 1..n |-> s[j] * s[j]])
<1> DEFINE r == Reduced(s)
           a == Coefficients(s)
           f == [j \in 0..(n - 1) |-> Nearest(r[j]) * Nearest(r[j])]
           g == [j \in 1..n |-> s[j] * s[j]]
<1>1. n \in Nat \ {0} /\ MaxValue \in Nat
  BY Field, Sizes
<1>2. a = [j \in 0..(n - 1) |-> s[j + 1]] /\ r = [j \in 0..(n - 1) |-> Decoders!toModQ(s[j + 1])]
  <2>1. Len(s) = n
    BY <1>1
  <2>2. QED  BY <2>1 DEF Coefficients, Reduced
<1>3. ASSUME NEW j \in 0..(n - 1)
      PROVE  /\ s[j + 1] \in Int /\ a[j] = s[j + 1]
             /\ r[j] \in Nat /\ r[j] = s[j + 1] % q /\ Cong(r[j], a[j])
             /\ Nearest(r[j]) * Nearest(r[j]) = s[j + 1] * s[j + 1]
  <2> DEFINE x == s[j + 1]
             y == r[j]
  <2>1. x \in (- MaxValue)..MaxValue
    <3>1. j + 1 \in 1..n
      BY <1>1
    <3>2. QED  BY <3>1
  <2>2. y = Decoders!toModQ(x) /\ a[j] = x
    BY <1>2
  <2> HIDE DEF x, y
  <2>3. y \in Nat /\ y = x % q /\ Cong(y, x) /\ Nearest(y) * Nearest(y) = x * x
    BY <2>1, <2>2, ReducedOne
  <2>4. x \in Int
    BY <1>1, <2>1
  <2>5. QED  BY <2>2, <2>3, <2>4 DEF x, y
<1>4. \A j \in 1..n : g[j] = s[j] * s[j] /\ g[j] \in Int
  <2> SUFFICES ASSUME NEW j \in 1..n PROVE s[j] * s[j] \in Int
    OBVIOUS
  <2> DEFINE x == s[j]
  <2>1. x \in Int
    BY <1>1
  <2> HIDE DEF x
  <2>2. x * x \in Int
    BY <2>1
  <2>3. QED  BY <2>2 DEF x
<1>5. Norm(r) = SumFunction(f)
  <2>1. DOMAIN r = 0..(n - 1)
    BY <1>2
  <2>2. QED  BY <2>1, Zenon DEF Norm
<1>6. SumFunction(f) = Sigma(f, n) /\ SumFunction(g) = SumFunctionOnSet(g, 1..n)
  BY Zenon DEF SumFunction, Sigma, f, g
<1> HIDE DEF r, a
<1>7. \A j \in 0..(n - 1) : f[j] = g[j + 1]
  <2> SUFFICES ASSUME NEW j \in 0..(n - 1) PROVE f[j] = g[j + 1]
    OBVIOUS
  <2>1. f[j] = s[j + 1] * s[j + 1]
    BY <1>3
  <2>2. j + 1 \in 1..n
    BY <1>1
  <2> HIDE DEF f, g
  <2>3. QED  BY <1>4, <2>1, <2>2
<1> HIDE DEF f, g
<1>8. SumFunctionOnSet(g, 1..n) = Sigma(f, n)
  BY <1>1, <1>4, <1>7, SigmaShift
<1>9. r \in Natural /\ r \in Poly /\ a \in Poly
  <2>1. r = [j \in 0..(n - 1) |-> r[j]] /\ a = [j \in 0..(n - 1) |-> a[j]]
    BY <1>2
  <2>2. QED  BY <1>3, <2>1 DEF Natural, Poly
<1>10. \A j \in 0..(n - 1) : Cong(a[j], r[j])
  <2> SUFFICES ASSUME NEW j \in 0..(n - 1) PROVE Cong(a[j], r[j])
    OBVIOUS
  <2> DEFINE x == a[j]
             y == r[j]
  <2>1. x \in Int /\ y \in Int /\ Cong(y, x)
    BY <1>3
  <2> HIDE DEF x, y
  <2>2. Cong(x, y)
    BY <2>1, CongSym
  <2>3. QED  BY <2>2 DEF x, y
<1>11. r = [j \in 0..(n - 1) |-> s[j + 1] % q]
  BY <1>2, <1>3
<1>12. QED  BY <1>5, <1>6, <1>8, <1>9, <1>10, <1>11 DEF r, a, g

---------------------------------------------------------------------------
(***************************************************************************)
(* What the decoders make of a file.                                       *)
(***************************************************************************)
Printout(f) ==
  [file |-> f,
   key |-> Decoders!decodePk(f.bits, f.size),
   keyChecked |-> Decoders!decodeFalconPk(f.bits, f.size),
   keyLow |-> Decoders!decodePk14bit(f.bits, f.size),
   signed |-> Decoders!decodeFalconSig(f.bits, f.size),
   final |-> Decoders!decodeFalconSignature(f.bits, f.size),
   anvil |-> Decoders!decompressS2(f.bits, f.size),
   falcon |-> Decoders!decodeCompressedSig(f.bits, f.size),
   full |-> Decoders!decodeFalconSigCt1(f.header, f.bits, f.size)]

Printing == decoded = <<>> \/ \E f \in Files : decoded = <<Printout(f)>>

(* What was printed is canonical. *)
LEMMA PrintedCanonical ==
  ASSUME Printing
  PROVE  Canonical
<1> SUFFICES ASSUME NEW f \in Files, decoded = <<Printout(f)>> PROVE Canonical
  BY DEF Printing, Canonical
<1> DEFINE d == Printout(f)
           bits == f.bits
           size == f.size
<1>1. bits \in Seq(Bits) /\ size \in Nat
  BY DecodersAssumption DEF DecodersAssumption, Bits
<1>2. /\ d.file = f /\ d.key = Decoders!decodePk(bits, size)
      /\ d.keyChecked = Decoders!decodeFalconPk(bits, size)
      /\ d.signed = Decoders!decodeFalconSig(bits, size)
      /\ d.final = Decoders!decodeFalconSignature(bits, size)
      /\ d.anvil = Decoders!decompressS2(bits, size)
  BY DEF Printout
<1> HIDE DEF d
<1>3. d.keyChecked.out = d.key
  <2>1. Decoders!decodeFalconPk(bits, size).out = Decoders!decodePk(bits, size)
    BY DEF Decoders!decodeFalconPk
  <2>2. QED  BY <1>2, <2>1
<1>4. d.final.status = d.signed.status
  <2> DEFINE s == Decoders!decodeFalconSig(bits, size)
             m == [u \in DOMAIN s.out |-> Decoders!toModQ(s.out[u])]
  <2>1. s \in States
    <3>1. PICK g : CheckedRun(g, bits, size) /\ s = g[size]
      BY <1>1, CheckedRuns
    <3>2. QED  BY <1>1, <3>1 DEF CheckedRun
  <2>2. Decoders!decodeFalconSignature(bits, size) = [s EXCEPT !.out = m]
    BY Zenon DEF Decoders!decodeFalconSignature
  <2> HIDE DEF s, m
  <2>3. [s EXCEPT !.out = m].status = s.status
    BY <2>1 DEF States
  <2>4. QED  BY <1>2, <2>2, <2>3 DEF s
<1>5. ASSUME d.final.status = "done"
      PROVE  Decoders!Compressed(d.signed.out) = SubSeq(bits, 1, d.signed.at - 1) /\ d.anvil = d.final
  <2>1. Decoders!decodeFalconSig(bits, size).status = "done"
    BY <1>2, <1>4, <1>5
  <2>2. LET s == Decoders!decodeFalconSig(bits, size)
        IN  /\ Decoders!Compressed(s.out) = SubSeq(bits, 1, s.at - 1)
            /\ Decoders!decompressS2(bits, size) = Decoders!decodeFalconSignature(bits, size)
    BY <1>1, <2>1, SignatureCanonical
  <2>3. QED  BY <1>2, <2>2, Zenon
<1>6. ASSUME Len(bits) >= size * LogQ
      PROVE  Decoders!EncodedPk(d.keyChecked.out) = Decoders!Filled(SubSeq(bits, 1, size * LogQ))
  <2>1. Decoders!EncodedPk(Decoders!decodePk(bits, size)) = Decoders!Filled(SubSeq(bits, 1, size * LogQ))
    BY <1>1, <1>6, KeyCanonical
  <2>2. QED  BY <1>2, <1>3, <2>1, Zenon
<1>7. \A j \in DOMAIN decoded : decoded[j] = d
  <2>1. decoded = <<d>>
    BY DEF d
  <2>2. QED  BY <2>1
<1>8. d.file.bits = bits /\ d.file.size = size
  BY <1>2
<1>9. QED  BY <1>3, <1>5, <1>6, <1>7, <1>8, Zenon DEF Canonical

(***************************************************************************)
(* Canonical holds: what the checked decoders accept is the encoding of    *)
(* what they return, whatever the data and however long.                   *)
(***************************************************************************)
THEOREM DecodersInvert == ScriptSpec => []Canonical
<1>1. ScriptInit => Printing
  BY DEF ScriptInit, Printing
<1>2. Printing /\ [ScriptNext]_allVars => Printing'
  <2> SUFFICES ASSUME Printing, [ScriptNext]_allVars PROVE Printing'
    OBVIOUS
  <2>1. ASSUME decoded' = decoded PROVE Printing'
    BY <2>1 DEF Printing
  <2>2. ASSUME NEW f \in Files, Decode(f) PROVE Printing'
    <3>1. decoded' = <<Printout(f)>>
      BY <2>2, Zenon DEF Decode, Printout
    <3>2. QED  BY <3>1 DEF Printing
  <2>3. CASE Printed
    BY <2>3 DEF Printed, Printing
  <2>4. CASE UNCHANGED allVars
    BY <2>1, <2>4 DEF allVars, script
  <2>5. CASE Verifier
    BY <2>1, <2>5 DEF Verifier, script
  <2>6. CASE \E h \in Keys : OtherInitializes(h) \/ \E w \in CodeWords : DeployStack(h, w)
    BY <2>1, <2>6 DEF DeployStack, OtherInitializes
  <2>7. CASE DeployAccount \/ Initialize \/ Simulate \/ Simulated \/ Send
    BY <2>1, <2>7 DEF DeployAccount, Initialize, Simulate, Simulated, Send
  <2>8. CASE \E s2 \in Vectors : Sign(s2)
    <3>1. decoded' = decoded
      BY <2>8, Zenon DEF Sign
    <3>2. QED  BY <2>1, <3>1
  <2>9. CASE Mined \/ Waited \/ Throws
    BY <2>1, <2>9 DEF Mined, Waited, Throws
  <2>10. QED
    BY <2>2, <2>3, <2>4, <2>5, <2>6, <2>7, <2>8, <2>9, Zenon DEF ScriptNext
<1>3. Printing => Canonical
  BY PrintedCanonical
<1>4. QED  BY <1>1, <1>2, <1>3, PTL DEF ScriptSpec

---------------------------------------------------------------------------
(***************************************************************************)
(* main, from the key pair to the account's answer.                        *)
(***************************************************************************)
Registered == {"initialized", "signed", "simulating", "simulated", "sending", "mined"}

(* An array of any size that an account may store. *)
IsKey(h) == Size(h) = n => h \in Natural

(* The key and the signature, as the chain is given them. *)
Understanding ==
  /\ Verification /\ Mains /\ IsStorage(ntt)
  /\ stage # "hangs" /\ secret = [h |-> secret.h, s2 |-> secret.s2]
  /\ stage # "start" => secret.h \in [0..(n - 1) -> 0..(q - 1)] /\ publicKey = secret.h
  /\ stage \in Registered \/ accountKey # None => IsKey(accountKey)
  /\ stage \in Registered \ {"initialized"} =>
       /\ secret.s2 \in Vectors
       /\ submission[1] = [s2 |-> Reduced(secret.s2), decodes |-> TRUE, saltLength |-> 40]

(* A key of the signer is read as it was. *)
LEMMA KeyUnderstood ==
  ASSUME NEW h \in [0..(n - 1) -> 0..(q - 1)]
  PROVE  PublicKey(Decoders!EncodedPk([j \in 1..n |-> h[j - 1]])) = h
<1> DEFINE k == [j \in 1..n |-> h[j - 1]]
<1>1. n \in Nat \ {0}
  BY Field
<1>2. k \in [1..n -> 0..(q - 1)]
  <2>1. \A j \in 1..n : j - 1 \in 0..(n - 1)
    BY <1>1
  <2>2. QED  BY <2>1
<1>3. \A j \in 0..(n - 1) : k[j + 1] = h[j]
  <2>1. \A j \in 0..(n - 1) : j + 1 \in 1..n /\ j + 1 - 1 = j
    BY <1>1
  <2>2. QED  BY <2>1
<1> HIDE DEF k
<1>4. Decoders!decodePk(Decoders!EncodedPk(k), n) = k
  BY <1>1, <1>2, KeyRead
<1>5. PublicKey(Decoders!EncodedPk(k)) = Coefficients(k)
  BY <1>4 DEF PublicKey
<1>6. Len(k) = n
  BY <1>1, <1>2
<1>7. Coefficients(k) = [j \in 0..(n - 1) |-> k[j + 1]]
  BY <1>6 DEF Coefficients
<1>8. h = [j \in 0..(n - 1) |-> h[j]]
  OBVIOUS
<1>9. Coefficients(k) = h
  BY <1>3, <1>7, <1>8, Zenon
<1>10. QED  BY <1>5, <1>9 DEF k

(* And its signature as what it stands for modulo q. *)
LEMMA SignatureUnderstood ==
  ASSUME NEW s \in Vectors
  PROVE  LET d == Decoders!decompressS2(Decoders!Filled(Decoders!Compressed(s)), n)
         IN  d.status = "done" /\ Coefficients(d.out) = Reduced(s)
<1> DEFINE m == [i \in 1..n |-> Decoders!toModQ(s[i])]
           d == Decoders!decompressS2(Decoders!Filled(Decoders!Compressed(s)), n)
<1>1. n \in Nat \ {0}
  BY Field
<1>2. s \in [1..n -> Int]
  <2>1. s \in [1..n -> (- MaxValue)..MaxValue] /\ MaxValue \in Nat
    BY DecodersAssumption DEF DecodersAssumption
  <2>2. QED  BY <2>1
<1>3. d.status = "done" /\ d.out = m
  BY <1>1, <1>2, SignatureRead
<1> HIDE DEF d
<1>4. Len(m) = n
  BY <1>1
<1>5. \A j \in 0..(n - 1) : m[j + 1] = Decoders!toModQ(s[j + 1])
  <2>1. \A j \in 0..(n - 1) : j + 1 \in 1..n
    BY <1>1
  <2>2. QED  BY <2>1
<1> HIDE DEF m
<1>6. Coefficients(m) = [j \in 0..(n - 1) |-> m[j + 1]]
  BY <1>4 DEF Coefficients
<1>7. Coefficients(m) = Reduced(s)
  BY <1>5, <1>6, Zenon DEF Reduced
<1>8. QED  BY <1>3, <1>7 DEF d

(* The signer's reckoning is the verifier's. *)
LEMMA SameReckoning ==
  ASSUME NEW s \in Vectors, secret.s2 = s, secret.h \in [0..(n - 1) -> 0..(q - 1)],
         key = secret.h, sig.s2 = Reduced(s)
  PROVE  Short <=> SignedNorm(OffChain) <= sigBound
<1> DEFINE h == secret.h
           p == Product(Reduced(s), h, q)
           N(x) == Norm([j \in DOMAIN x |-> Hashed[j] - x[j]])
<1>1. s \in [1..n -> (- MaxValue)..MaxValue] /\ h \in Poly
  <2>1. h \in Poly
    BY FalconAssumption DEF FalconAssumption, Poly
  <2>2. QED  BY <2>1, DecodersAssumption DEF DecodersAssumption
<1> HIDE DEF h
<1>2. Product(Coefficients(s), h, q) = p /\ Norm(Reduced(s)) = SumFunction([j \in 1..n |-> s[j] * s[j]])
  <2>1. /\ Reduced(s) \in Poly /\ Coefficients(s) \in Poly
        /\ \A j \in 0..(n - 1) : Cong(Coefficients(s)[j], Reduced(s)[j])
        /\ Norm(Reduced(s)) = SumFunction([j \in 1..n |-> s[j] * s[j]])
    BY <1>1, ReducedIs
  <2>2. QED  BY <1>1, <2>1, ProductSame
<1>3. Short <=> N(p) + Norm(Reduced(s)) <= sigBound
  BY Zenon DEF Short, h
<1>4. SignedNorm(OffChain) = N(Product(Coefficients(s), h, q)) + SumFunction([j \in 1..n |-> s[j] * s[j]])
  BY Zenon DEF SignedNorm, OffChain, h
<1> HIDE DEF N, p
<1>5. QED  BY <1>2, <1>3, <1>4, Zenon

(* What the signer reckons with NTT_MUL is what the account does. *)
LEMMA SameOnChain ==
  ASSUME NEW s \in Vectors, secret.s2 = s, IsStorage(ntt), key = accountKey, key \in Natural,
         sig.s2 = Reduced(s), c \in Seq(0..(q - 1)), Len(c) = n, Verify # "revert"
  PROVE  Verify = IF SignedNorm(OnChain) <= sigBound THEN "SIG_VALIDATION_SUCCESS" ELSE "SIG_VALIDATION_FAILED"
<1> DEFINE p == NTT_MUL(sig.s2, key, ntt)
           diff == [j \in 0..(n - 1) |-> Hashed[j] - p[j]]
           squares == SumFunction([j \in 1..n |-> s[j] * s[j]])
<1>1. s \in [1..n -> (- MaxValue)..MaxValue]
  BY DecodersAssumption DEF DecodersAssumption
<1>2. /\ sig.s2 \in Natural /\ sig.s2 \in Poly /\ Norm(sig.s2) = squares
      /\ sig.s2 = [j \in 0..(n - 1) |-> secret.s2[j + 1] % q]
  BY <1>1, ReducedIs
<1>3. p \in Natural
  <2>1. key \in Poly
    BY DEF Natural, Poly
  <2>2. QED  BY <1>2, <2>1, ProductTyped
<1>4. OnChain = p
  BY <1>2, Zenon DEF OnChain
<1> HIDE DEF squares
<1>5. SignedNorm(OnChain) = Norm(diff) + Norm(sig.s2)
  <2>1. DOMAIN p = 0..(n - 1)
    BY <1>3 DEF Natural
  <2>2. SignedNorm(p) = Norm(diff) + squares
    BY <2>1, Zenon DEF SignedNorm, squares
  <2> HIDE DEF p, diff
  <2>3. QED  BY <1>2, <1>4, <2>2
<1>6. Verify = Verified(p)
  BY Zenon DEF Verify
<1>7. Verify = IF Norm(diff) + Norm(sig.s2) <= sigBound THEN "SIG_VALIDATION_SUCCESS" ELSE "SIG_VALIDATION_FAILED"
  <2> HIDE DEF p
  <2>1. QED  BY <1>2, <1>3, <1>6, VerifiedIs
<1> HIDE DEF diff
<1>8. QED  BY <1>5, <1>7

(* What the contract says is what the signer meant. *)
LEMMA UnderstandingTells ==
  ASSUME Understanding
  PROVE  SignerUnderstood
<1>1. stage # "hangs" /\ (stage # "start" => publicKey = secret.h)
  BY DEF Understanding
<1>2. ASSUME Answered
      PROVE  /\ result = "SIG_VALIDATION_SUCCESS" <=> Size(accountKey) = n /\ SignedNorm(OnChain) <= sigBound
             /\ IsGenuine /\ accountKey = secret.h =>
                  (result = "SIG_VALIDATION_SUCCESS" <=> SignedNorm(OffChain) <= sigBound)
  <2> DEFINE s == secret.s2
  <2>1. /\ stage \in Registered \ {"initialized"} /\ stage # "start" /\ Verifying
        /\ pc = "done" /\ result # "revert"
    BY <1>2 DEF Registered, Verifying, Answered
  <2>2. /\ secret.h \in [0..(n - 1) -> 0..(q - 1)] /\ s \in Vectors /\ key = accountKey
        /\ sig = [s2 |-> Reduced(s), decodes |-> TRUE, saltLength |-> 40]
        /\ Verification /\ IsStorage(ntt)
    BY <2>1 DEF Understanding, Mains
  <2>3. sig.s2 = Reduced(s) /\ sig.decodes /\ sig.saltLength = 40
    BY <2>2
  <2>4. Size(key) = n <=> Len(c) = n
    <3>1. Size(key) = n => Len(c) = n
      BY <2>1, <2>2, <2>3 DEF Verification, WellFormed
    <3>2. ASSUME Len(c) = n PROVE Size(key) = n
      <4>1. key \in Poly
        BY <2>1, <2>2, <3>2 DEF Verification, Natural, Poly
      <4>2. QED  BY <4>1, SizeIs
    <3>3. QED  BY <3>1, <3>2
  <2>5. CASE Len(c) # n
    <3>1. result = "SIG_VALIDATION_FAILED" /\ Size(accountKey) # n
      BY <2>1, <2>2, <2>4, <2>5 DEF Verification
    <3>2. accountKey # secret.h
      <4>1. secret.h \in Poly
        BY <2>2, Field DEF Poly
      <4>2. QED  BY <3>1, <4>1, SizeIs
    <3>3. QED  BY <3>1, <3>2
  <2>6. CASE Len(c) = n
    <3>1. key \in Natural /\ result = Verify /\ c \in Seq(0..(q - 1)) /\ Size(accountKey) = n
      BY <2>1, <2>2, <2>4, <2>6 DEF Verification
    <3>2. result = IF SignedNorm(OnChain) <= sigBound THEN "SIG_VALIDATION_SUCCESS" ELSE "SIG_VALIDATION_FAILED"
      BY <2>1, <2>2, <2>3, <2>6, <3>1, SameOnChain
    <3>3. ASSUME IsGenuine, accountKey = secret.h
          PROVE  result = "SIG_VALIDATION_SUCCESS" <=> SignedNorm(OffChain) <= sigBound
      <4>1. AcceptsShort
        BY <2>2, Accepts
      <4>2. result = (IF Short THEN "SIG_VALIDATION_SUCCESS" ELSE "SIG_VALIDATION_FAILED")
        BY <2>1, <2>6, <3>3, <4>1, Zenon DEF AcceptsShort
      <4>3. Short <=> SignedNorm(OffChain) <= sigBound
        BY <2>2, <2>3, <3>3, SameReckoning
      <4>4. QED  BY <4>2, <4>3
    <3>4. QED  BY <3>1, <3>2, <3>3
  <2>7. QED  BY <2>5, <2>6
<1>3. QED  BY <1>1, <1>2, Zenon DEF SignerUnderstood

(* Steps of the verifier, and of anyone else, that main does not notice. *)
LEMMA UnderstandingKept ==
  ASSUME Understanding, Verification', IsStorage(ntt)', UNCHANGED script, Mains'
  PROVE  Understanding'
BY DEF Understanding, script, Reduced, IsKey

(* The flag is not one of the words read. *)
LEMMA StorageKept ==
  ASSUME NEW S, IsStorage(S), NEW x
  PROVE  IsStorage([S EXCEPT !.is_immutable = x])
<1> DEFINE r == [S EXCEPT !.is_immutable = x]
<1>1. {"q", "nm1modq", "psirev", "psiinvrev", "is_immutable"} \subseteq DOMAIN S
  BY DEF IsStorage
<1>2. /\ DOMAIN r = DOMAIN S
      /\ r["q"] = S["q"] /\ r["nm1modq"] = S["nm1modq"]
      /\ r["psirev"] = S["psirev"] /\ r["psiinvrev"] = S["psiinvrev"]
  BY <1>1
<1>3. r.q = S.q /\ r.nm1modq = S.nm1modq /\ r.psirev = S.psirev /\ r.psiinvrev = S.psiinvrev
  BY <1>2
<1> HIDE DEF r
<1>4. IsStorage(r)
  BY <1>1, <1>2, <1>3 DEF IsStorage
<1>5. QED  BY <1>4 DEF r

(* Main's tables are words, too. *)
LEMMA DeployedStorage ==
  ASSUME NEW w \in CodeWords
  PROVE  /\ IsStorage(Deployed(w)) /\ Deployed(w).q = q /\ Deployed(w).nm1modq = Genuine.nm1modq
         /\ Deployed(w).psirev = FalconConstantsCode(w) /\ Deployed(w).psiinvrev = FalconConstantsCode(w)
<1> DEFINE F == FalconConstantsCode(w)
<1>1. w \in Nat /\ q \in Nat /\ Genuine.nm1modq \in Nat
  BY DecodersAssumption, Field, StorageAssumption DEF DecodersAssumption, StorageAssumption, IsStorage
<1>2. \A k \in 1..(n - 1) : F[k] \in Nat
  BY <1>1 DEF FalconConstantsCode
<1> HIDE DEF F
<1>3. Deployed(w) = [q |-> q, nm1modq |-> Genuine.nm1modq, is_immutable |-> 0, psirev |-> F, psiinvrev |-> F]
  BY DEF Deployed, F
<1>4. QED  BY <1>1, <1>2, <1>3 DEF IsStorage, F

(* Steps of the contract keep it, *)
LEMMA UnderstandingVerifier ==
  ASSUME Understanding, Verifier
  PROVE  Understanding'
<1>1. UNCHANGED script /\ Verification /\ Mains /\ IsStorage(ntt)
  BY DEF Verifier, Understanding
<1>0. ASSUME ntt' = ntt PROVE IsStorage(ntt)'
  BY <1>0, <1>1
<1>2. ASSUME pc # "idle", key' = key, sig' = sig, pc' # "idle" PROVE Mains'
  BY <1>1, <1>2 DEF Mains, Verifying, script
<1>3. ASSUME stage = "start" \/ pc = "idle" PROVE Mains'
  <2>1. ~Verifying /\ stage' = stage
    BY <1>1, <1>3 DEF Mains, Verifying, script
  <2>2. QED  BY <2>1 DEF Mains, Verifying
<1>4. ASSUME NEW h \in Keys, NEW s \in Sigs, stage = "start", ValidateSignature(h, s)
      PROVE  Understanding'
  <2>1. (Size(h) = n => h \in Natural) /\ (s.decodes => s.s2 \in Natural)
    BY InputsAssumption DEF InputsAssumption, Natural
  <2>2. Verification'
    BY <1>4, <2>1, VerificationStarts
  <2>3. ntt' = ntt
    BY <1>4 DEF ValidateSignature, storage
  <2>4. QED  BY <1>0, <1>1, <1>3, <1>4, <2>2, <2>3, UnderstandingKept
<1>5. ASSUME NEW t \in Words, Read(t) PROVE Understanding'
  <2>1. pc # "idle" /\ key' = key /\ sig' = sig /\ pc' # "idle" /\ ntt' = ntt
    BY <1>5 DEF Read, storage
  <2>2. Verification'
    BY <1>1, <1>5, VerificationReads
  <2>3. QED  BY <1>0, <1>1, <1>2, <2>1, <2>2, UnderstandingKept
<1>6. CASE HashedToPoint
  <2>1. pc # "idle" /\ key' = key /\ sig' = sig /\ pc' # "idle" /\ ntt' = ntt
    BY <1>6 DEF HashedToPoint, storage
  <2>2. Verification'
    BY <1>1, <1>6, VerificationHashed
  <2>3. QED  BY <1>0, <1>1, <1>2, <2>1, <2>2, UnderstandingKept
<1>7. CASE OutOfGas
  <2>1. pc # "idle" /\ key' = key /\ sig' = sig /\ pc' # "idle" /\ ntt' = ntt
    BY <1>7 DEF OutOfGas, storage
  <2>2. Verification'
    BY <1>1, <1>7, VerificationEnds
  <2>3. QED  BY <1>0, <1>1, <1>2, <2>1, <2>2, UnderstandingKept
<1>8. CASE stage = "start" /\ Returned
  <2>1. ntt' = ntt
    BY <1>8 DEF Returned, storage
  <2>2. QED  BY <1>0, <1>1, <1>3, <1>8, <2>1, VerificationEnds, UnderstandingKept
<1>9. CASE MakeImmutable \/ \E tables \in Updates : Update(tables)
  <2>1. pc = "idle"
    BY <1>9 DEF MakeImmutable, Update
  <2>2. Verification'
    BY <1>1, <1>9, VerificationTables
  <2>3. IsStorage(ntt)'
    <3>1. CASE MakeImmutable
      <4>1. ntt' = [ntt EXCEPT !.is_immutable = 1]
        BY <3>1 DEF MakeImmutable
      <4>2. QED  BY <1>1, <4>1, StorageKept
    <3>2. ASSUME NEW tables \in Updates, Update(tables) PROVE IsStorage(ntt)'
      <4>1. ntt' = [tables EXCEPT !.is_immutable = ntt.is_immutable] /\ IsStorage(tables)
        BY <3>2, StorageAssumption DEF Update, StorageAssumption
      <4>2. QED  BY <4>1, StorageKept
    <3>3. QED  BY <1>9, <3>1, <3>2
  <2>4. QED  BY <1>1, <1>3, <2>1, <2>2, <2>3, UnderstandingKept
<1>10. QED  BY <1>4, <1>5, <1>6, <1>7, <1>8, <1>9, Zenon DEF Verifier

(* main verifies its own operation. *)
LEMMA UnderstandingStarts ==
  ASSUME Understanding, stage \in Registered \ {"initialized"}, ValidateSignature(accountKey, submission[1]),
         stage' \in {"simulating", "sending"},
         UNCHANGED <<secret, publicKey, accountKey, submission>>
  PROVE  Understanding'
<1> DEFINE s == secret.s2
           h == accountKey
           x == submission[1]
<1>1. /\ stage # "start" /\ stage \in Registered
      /\ stage' \in Registered /\ stage' \in Registered \ {"initialized"} /\ stage' # "start" /\ stage' # "hangs"
  BY DEF Registered
<1>2. /\ IsKey(h) /\ IsStorage(ntt) /\ s \in Vectors
      /\ x = [s2 |-> Reduced(s), decodes |-> TRUE, saltLength |-> 40]
  BY <1>1 DEF Understanding
<1>3. x.s2 = Reduced(s)
  BY <1>2
<1>4. Size(h) = n => h \in Natural
  BY <1>2 DEF IsKey
<1>5. x.s2 \in Natural
  <2>1. s \in [1..n -> (- MaxValue)..MaxValue]
    BY <1>2, DecodersAssumption DEF DecodersAssumption
  <2>2. QED  BY <1>3, <2>1, ReducedIs
<1> HIDE DEF h, x
<1>6. ValidateSignature(h, x)
  BY DEF h, x
<1>7. Verification'
  BY <1>4, <1>5, <1>6, VerificationStarts
<1>8. key' = h /\ sig' = x /\ pc' # "idle" /\ ntt' = ntt
  BY <1>6 DEF ValidateSignature, storage
<1>9. accountKey' = h /\ submission'[1] = x
  BY DEF h, x
<1>10. Mains'
  BY <1>8, <1>9 DEF Mains
<1>11. Reduced(secret.s2)' = Reduced(secret.s2)
  BY DEF Reduced
<1>12. QED  BY <1>1, <1>2, <1>7, <1>8, <1>9, <1>10, <1>11 DEF Understanding, h, x, IsKey

(* main awaits, or is told the outcome. *)
LEMMA UnderstandingIdle ==
  ASSUME Understanding, Verification', stage' \notin {"start", "hangs", "simulating", "sending"},
         stage' \in Registered => stage \in Registered,
         stage' \in Registered \ {"initialized"} => stage \in Registered \ {"initialized"},
         stage # "start", UNCHANGED <<ntt, secret, publicKey, accountKey, submission>>
  PROVE  Understanding'
<1>1. Mains'
  BY DEF Mains, Verifying
<1>2. Reduced(secret.s2)' = Reduced(secret.s2)
  BY DEF Reduced
<1>3. QED  BY <1>1, <1>2 DEF Understanding, IsKey

(* and so does every step. *)
LEMMA UnderstandingNext ==
  ASSUME Understanding, [ScriptNext]_allVars
  PROVE  Understanding'
<1>1. Verification /\ Mains /\ IsStorage(ntt)
  BY DEF Understanding
<1>2. ASSUME UNCHANGED vars PROVE Verification'
  BY <1>1, <1>2, VerificationSame DEF vars, storage
<1>3. CASE Verifier
  BY <1>3, UnderstandingVerifier
<1>4. ASSUME NEW h \in Keys, NEW w \in CodeWords, DeployStack(h, w) PROVE Understanding'
  <2>1. /\ pc = "idle" /\ h \in [0..(n - 1) -> 0..(q - 1)] /\ stage' = "keys"
        /\ secret' = [h |-> h, s2 |-> <<>>]
        /\ publicKey' = PublicKey(Decoders!EncodedPk([j \in 1..n |-> h[j - 1]]))
        /\ pc' = pc /\ c' = c /\ ntt' = Constructed(Deployed(w)) /\ accountKey' = accountKey
    BY <1>4 DEF DeployStack, At
  <2>2. Verification'
    BY <1>1, <2>1, VerificationIdle
  <2>3. publicKey' = h /\ secret'.h = h /\ secret' = [h |-> secret'.h, s2 |-> secret'.s2]
    BY <2>1, KeyUnderstood
  <2>4. stage' \notin Registered /\ stage' # "hangs" /\ Mains'
    BY <2>1 DEF Registered, Mains, Verifying
  <2>5. IsStorage(ntt)'
    BY <2>1, DeployedStorage, StorageKept DEF Constructed
  <2>6. accountKey' # None => IsKey(accountKey)'
    BY <2>1 DEF Understanding, IsKey
  <2>7. QED  BY <2>1, <2>2, <2>3, <2>4, <2>5, <2>6 DEF Understanding
<1>5. CASE DeployAccount
  <2>1. /\ stage = "keys" /\ stage' = "deployed" /\ UNCHANGED vars
        /\ UNCHANGED <<ntt, secret, publicKey, accountKey, submission>>
    BY <1>5 DEF DeployAccount, At, vars
  <2>2. stage' \notin Registered
    BY <2>1 DEF Registered
  <2>3. QED  BY <1>2, <2>1, <2>2, UnderstandingIdle
<1>6. CASE Initialize
  <2>1. /\ stage = "deployed" /\ UNCHANGED vars /\ UNCHANGED <<secret, publicKey, submission>>
        /\ stage' \in {"initialized", "failed"}
        /\ accountKey' = publicKey \/ (accountKey # None /\ accountKey' = accountKey)
    BY <1>6 DEF Initialize, At
  <2>2. /\ stage' \notin Registered \ {"initialized"} /\ stage' \notin {"start", "hangs"} /\ Mains'
        /\ stage # "start"
    BY <2>1 DEF Registered, Mains, Verifying
  <2>3. IsKey(publicKey)
    <3>1. publicKey \in [0..(n - 1) -> 0..(q - 1)]
      BY <2>2 DEF Understanding
    <3>2. publicKey \in Natural
      BY <3>1, Field DEF Natural
    <3>3. QED  BY <3>2 DEF IsKey
  <2>4. IsKey(accountKey)'
    BY <2>1, <2>3 DEF Understanding, IsKey
  <2>5. IsStorage(ntt)'
    BY <1>1, <2>1 DEF vars
  <2>6. QED  BY <1>2, <2>1, <2>2, <2>4, <2>5 DEF Understanding
<1>7. ASSUME NEW h \in Keys, OtherInitializes(h) PROVE Understanding'
  <2>1. stage = "deployed" /\ UNCHANGED <<vars, stage, secret, publicKey, submission>> /\ accountKey' = h
    BY <1>7 DEF OtherInitializes, At
  <2>2. stage' \notin Registered /\ stage' \notin {"start", "hangs"} /\ Mains'
    BY <2>1 DEF Registered, Mains, Verifying
  <2>3. Verification' /\ IsStorage(ntt)'
    BY <1>1, <1>2, <2>1 DEF vars
  <2>4. IsKey(accountKey)'
    BY <2>1, InputsAssumption DEF InputsAssumption, IsKey, Natural
  <2>5. QED  BY <2>1, <2>2, <2>3, <2>4 DEF Understanding
<1>8. ASSUME NEW s2 \in Vectors, Sign(s2) PROVE Understanding'
  <2> DEFINE d == Decoders!decompressS2(Decoders!Filled(Decoders!Compressed(s2)), n)
             x == [s2 |-> Coefficients(d.out), decodes |-> TRUE, saltLength |-> 40]
  <2>1. d.status = "done" /\ Coefficients(d.out) = Reduced(s2)
    BY SignatureUnderstood
  <2>2. /\ stage = "initialized" /\ stage' = (IF d.status = "done" THEN "signed" ELSE "hangs")
        /\ submission' = <<x>> /\ secret' = [secret EXCEPT !.s2 = s2]
        /\ UNCHANGED <<vars, publicKey, accountKey>>
    BY <1>8, Zenon DEF Sign, At
  <2>3. x = [s2 |-> Reduced(s2), decodes |-> TRUE, saltLength |-> 40]
    BY <2>1
  <2> HIDE DEF d, x
  <2>4. secret = [h |-> secret.h, s2 |-> secret.s2]
    BY DEF Understanding
  <2>5. secret' = [h |-> secret.h, s2 |-> s2]
    BY <2>2, <2>4
  <2>6. secret'.h = secret.h /\ secret'.s2 = s2 /\ secret' = [h |-> secret'.h, s2 |-> secret'.s2]
    BY <2>5
  <2>7. stage' = "signed" /\ Mains' /\ stage' # "hangs" /\ stage \in Registered /\ stage # "start"
    BY <2>1, <2>2 DEF Mains, Verifying, Registered
  <2>8. secret.h \in [0..(n - 1) -> 0..(q - 1)] /\ publicKey = secret.h /\ IsKey(accountKey)
    BY <2>7 DEF Understanding
  <2>9. submission'[1] = [s2 |-> Reduced(secret'.s2), decodes |-> TRUE, saltLength |-> 40]
    BY <2>2, <2>3, <2>6
  <2>10. Verification' /\ IsStorage(ntt)'
    BY <1>1, <1>2, <2>2 DEF vars
  <2>11. Reduced(secret.s2)' = Reduced(secret'.s2)
    BY DEF Reduced
  <2>12. QED  BY <2>2, <2>6, <2>7, <2>8, <2>9, <2>10, <2>11 DEF Understanding, IsKey
<1>9. CASE Simulate
  <2>1. /\ stage = "signed" /\ ValidateSignature(accountKey, submission[1]) /\ stage' = "simulating"
        /\ UNCHANGED <<secret, publicKey, accountKey, submission>>
    BY <1>9 DEF Simulate, At
  <2>2. stage \in Registered \ {"initialized"}
    BY <2>1 DEF Registered
  <2>3. QED  BY <2>1, <2>2, UnderstandingStarts
<1>10. CASE Simulated
  <2>1. /\ stage = "simulating" /\ Returned /\ stage' \in {"simulated", "failed"}
        /\ UNCHANGED <<ntt, secret, publicKey, accountKey, submission>>
    BY <1>10 DEF Simulated, Returned, storage
  <2>2. stage \in Registered \ {"initialized"} /\ Verification'
    BY <1>1, <2>1, VerificationEnds DEF Registered
  <2>3. QED  BY <2>1, <2>2, UnderstandingIdle
<1>11. CASE Send
  <2>1. /\ stage = "simulated" /\ ValidateSignature(accountKey, submission[1]) /\ stage' = "sending"
        /\ UNCHANGED <<secret, publicKey, accountKey, submission>>
    BY <1>11 DEF Send, At
  <2>2. stage \in Registered \ {"initialized"}
    BY <2>1 DEF Registered
  <2>3. QED  BY <2>1, <2>2, UnderstandingStarts
<1>12. CASE Mined
  <2>1. /\ stage = "sending" /\ Returned /\ stage' = "mined"
        /\ UNCHANGED <<ntt, secret, publicKey, accountKey, submission>>
    BY <1>12 DEF Mined, Returned, storage
  <2>2. stage \in Registered \ {"initialized"} /\ Verification'
    BY <1>1, <2>1, VerificationEnds DEF Registered
  <2>3. QED  BY <2>1, <2>2, UnderstandingIdle
<1>13. CASE Waited
  <2>1. /\ stage = "mined" /\ stage' \in {"succeeded", "failed"} /\ UNCHANGED vars
        /\ UNCHANGED <<ntt, secret, publicKey, accountKey, submission>>
    BY <1>13 DEF Waited, At, vars
  <2>2. stage' \notin Registered
    BY <2>1 DEF Registered
  <2>3. QED  BY <1>2, <2>1, <2>2, UnderstandingIdle
<1>14. CASE Throws
  <2>1. /\ stage # "start" /\ stage' = "failed" /\ UNCHANGED vars
        /\ UNCHANGED <<ntt, secret, publicKey, accountKey, submission>>
    BY <1>14 DEF Throws, vars
  <2>2. stage' \notin Registered
    BY <2>1 DEF Registered
  <2>3. QED  BY <1>2, <2>1, <2>2, UnderstandingIdle
<1>15. ASSUME UNCHANGED <<vars, stage, secret, publicKey, accountKey, submission>> PROVE Understanding'
  <2>1. Verification' /\ IsStorage(ntt)'
    BY <1>1, <1>2, <1>15 DEF vars
  <2>2. Mains' /\ Reduced(secret.s2)' = Reduced(secret.s2)
    BY <1>1, <1>15 DEF Mains, Verifying, vars, Reduced
  <2>3. QED  BY <1>15, <2>1, <2>2 DEF Understanding, IsKey
<1>16. CASE Printed \/ \E f \in Files : Decode(f)
  <2>1. UNCHANGED <<vars, stage, secret, publicKey, accountKey, submission>>
    BY <1>16 DEF Printed, Decode
  <2>2. QED  BY <1>15, <2>1
<1>17. CASE UNCHANGED allVars
  BY <1>15, <1>17 DEF allVars, script
<1>18. QED
  BY <1>3, <1>4, <1>5, <1>6, <1>7, <1>8, <1>9, <1>10, <1>11, <1>12, <1>13, <1>14, <1>16, <1>17, Zenon
     DEF ScriptNext

(* It holds before main starts. *)
LEMMA UnderstandingInit == ScriptInit => Understanding
<1> SUFFICES ASSUME ScriptInit PROVE Understanding
    OBVIOUS
<1>1. stage = "start" /\ secret = [h |-> None, s2 |-> <<>>] /\ Init
  BY DEF ScriptInit
<1>2. secret = [h |-> secret.h, s2 |-> secret.s2]
  BY <1>1
<1>3. stage \notin Registered /\ Mains
  BY <1>1 DEF Registered, Mains, Verifying
<1>4. IsStorage(ntt)
  <2>1. PICK tables \in Updates : ntt = Constructed(tables)
    BY <1>1 DEF Init
  <2>2. QED  BY <2>1, StorageAssumption, StorageKept DEF StorageAssumption, Constructed
<1>5. accountKey = None
  BY DEF ScriptInit
<1>6. QED  BY <1>1, <1>2, <1>3, <1>4, <1>5, VerificationInit DEF Understanding

(***************************************************************************)
(* SignerUnderstood holds, whatever the key, the coefficients falcon-sign  *)
(* may put in a signature, and what others do meanwhile.                   *)
(***************************************************************************)
THEOREM ScriptUnderstands == ScriptSpec => []SignerUnderstood
<1>1. ScriptInit => Understanding
  BY UnderstandingInit
<1>2. Understanding /\ [ScriptNext]_allVars => Understanding'
  BY UnderstandingNext
<1>3. Understanding => SignerUnderstood
  BY UnderstandingTells
<1>4. QED  BY <1>1, <1>2, <1>3, PTL DEF ScriptSpec

---------------------------------------------------------------------------
(***************************************************************************)
(* The tables that main deploys: all words but one are zero.               *)
(***************************************************************************)
(* Remainders of the two coefficients that a pass of NTTINV joins. *)
LEMMA Remainders ==
  ASSUME NEW j \in 0..(n - 1), NEW m \in Nat \ {0}, NEW t \in Nat \ {0}, m * (2 * t) = n
  PROVE  /\ j % (2 * t) < t => j % t = j % (2 * t) /\ (j + t) % t = j % (2 * t)
         /\ ~(j % (2 * t) < t) => j % t = (j % (2 * t)) - t /\ (j - t) % t = (j % (2 * t)) - t
<1> DEFINE d == 2 * t
<1>1. d \in Nat \ {0} /\ m * d = n /\ d = t + t
  OBVIOUS
<1>2. PICK i \in 0..(m - 1), y \in 0..(d - 1) : j = i * d + y
  <2> HIDE DEF d
  <2>1. InBlock(j, m, d)
    BY <1>1, Place
  <2>2. QED  BY <2>1 DEF InBlock
<1>3. i \in Nat /\ y \in Nat
  OBVIOUS
<1> DEFINE l == 2 * i
<1>4. l \in Nat /\ l + 1 \in Nat /\ i * d = l * t
  BY <1>3
<1>5. (i * d + y) % d = y
  <2> HIDE DEF d
  <2>1. QED  BY <1>1, <1>3, QuotientUnique
<1>6. j % d = y
  BY <1>2, <1>5
<1> HIDE DEF l
<1>7. (l + 1) * t = l * t + t
  BY <1>4
<1>8. ASSUME y < t PROVE j % t = y /\ (j + t) % t = y
  <2>1. y \in 0..(t - 1)
    BY <1>3, <1>8
  <2>2. (l * t + y) % t = y /\ ((l + 1) * t + y) % t = y
    BY <1>4, <2>1, QuotientUnique
  <2>3. j = l * t + y /\ j + t = (l + 1) * t + y
    BY <1>2, <1>3, <1>4, <1>7
  <2>4. QED  BY <2>2, <2>3
<1>9. ASSUME ~(y < t) PROVE j % t = y - t /\ (j - t) % t = y - t
  <2> DEFINE z == y - t
  <2>1. z \in 0..(t - 1)
    BY <1>1, <1>3, <1>9
  <2>2. j = (l + 1) * t + z /\ j - t = l * t + z
    BY <1>2, <1>3, <1>4, <1>7
  <2> HIDE DEF z
  <2>3. (l * t + z) % t = z /\ ((l + 1) * t + z) % t = z
    BY <1>4, <2>1, QuotientUnique
  <2>4. j % t = z /\ (j - t) % t = z
    BY <2>2, <2>3
  <2>5. QED  BY <2>4 DEF z
<1>10. QED  BY <1>6, <1>8, <1>9 DEF d

(* Zero stays zero. *)
LEMMA ZeroMod ==
  ASSUME NEW x \in Int
  PROVE  addmod(0, 0, q) = 0 /\ addmod(0, q - 0, q) = 0 /\ mulmod(0, x, q) = 0 /\ mulmod(x, 0, q) = 0
<1>1. q \in Nat \ {0}
  BY Field
<1>2. 0 + 0 = 0 /\ 0 + (q - 0) = q /\ 0 * x = 0 /\ x * 0 = 0
  BY <1>1
<1>3. 0 % q = 0
  BY <1>1
<1>4. q % q = 0
  <2>1. 1 * q + 0 = q
    BY <1>1
  <2>2. (1 * q + 0) % q = 0
    BY <1>1, QuotientUnique
  <2>3. QED  BY <2>1, <2>2
<1>5. QED  BY <1>1, <1>2, <1>3, <1>4 DEF addmod, mulmod

(* A pass on blocks of t coefficients that are zero but for their first. *)
FirstOnly(a, t) == \A j \in 0..(n - 1) : j % t # 0 => a[j] = 0

LEMMA ZeroPass ==
  ASSUME NEW w \in Nat, NEW a \in Poly, NEW m \in Nat \ {0}, NEW t \in Nat \ {0}, m * (2 * t) = n,
         FirstOnly(a, t)
  PROVE  /\ InversePass(a, t, FalconConstantsCode(w), q) \in Poly
         /\ m # 1 => FirstOnly(InversePass(a, t, FalconConstantsCode(w), q), 2 * t)
         /\ m = 1 => \A j \in 0..(n - 1) :
                       j # 0 /\ j # t => InversePass(a, t, FalconConstantsCode(w), q)[j] = 0
<1> DEFINE T == FalconConstantsCode(w)
           d == 2 * t
           p == InversePass(a, t, T, q)
<1>1. n \in Nat \ {0} /\ q \in Nat \ {0}
  BY Field
<1>2. \A k \in 1..(n - 1) : T[k] \in Nat /\ (k # 1 => T[k] = 0)
  BY DEF FalconConstantsCode
<1>3. IsTable(T)
  BY <1>2 DEF IsTable
<1> HIDE DEF T
<1>4. /\ p \in Poly
      /\ p = [j \in 0..(n - 1) |->
                IF j % d < t THEN addmod(a[j], a[j + t], q)
                             ELSE mulmod(addmod(a[j - t], q - a[j], q), T[m + j \div d], q)]
  <2>1. q \in Nat
    BY <1>1
  <2>2. p \in Poly
    <3> HIDE DEF d
    <3>1. QED  BY <1>3, <2>1, InverseTyped
  <2>3. Size(a) \div (2 * t) = m /\ DOMAIN a = 0..(n - 1)
    BY SizeIs, DivisorStep
  <2>4. QED  BY <2>2, <2>3 DEF InversePass
<1> HIDE DEF p
<1>5. ASSUME NEW j \in 0..(n - 1), j % d < t, j % d # 0 PROVE p[j] = 0
  <2>1. j + t \in 0..(n - 1) /\ j % t # 0 /\ (j + t) % t # 0
    BY <1>5, HalfAt, Remainders
  <2>2. a[j] = 0 /\ a[j + t] = 0
    BY <2>1 DEF FirstOnly
  <2>3. p[j] = addmod(0, 0, q)
    BY <1>4, <1>5, <2>2
  <2>4. QED  BY <2>3, ZeroMod
<1>6. ASSUME NEW j \in 0..(n - 1), ~(j % d < t), T[m + j \div d] = 0 PROVE p[j] = 0
  <2> DEFINE x == a[j - t]
             y == a[j]
             v == addmod(x, q - y, q)
  <2>1. x \in Int /\ y \in Int
    BY <1>6, HalfAt DEF Poly
  <2>2. p[j] = mulmod(v, 0, q)
    BY <1>4, <1>6
  <2> HIDE DEF x, y
  <2>3. v \in Int
    BY <1>1, <2>1, ModNat
  <2> HIDE DEF v
  <2>4. QED  BY <2>2, <2>3, ZeroMod
<1>7. ASSUME NEW j \in 0..(n - 1), ~(j % d < t), j % d # t PROVE p[j] = 0
  <2> DEFINE y == j % d
             r == T[m + j \div d]
  <2>0. y \in Int
    OBVIOUS
  <2>1. y - t # 0
    BY <1>7, <2>0
  <2>2. j - t \in 0..(n - 1) /\ j % t # 0 /\ (j - t) % t # 0
    BY <1>7, <2>1, HalfAt, Remainders
  <2>3. a[j] = 0 /\ a[j - t] = 0
    BY <2>2 DEF FirstOnly
  <2>4. r \in Int
    <3>1. m + j \div d \in 1..(n - 1)
      BY HalfAt
    <3>2. QED  BY <1>2, <3>1
  <2>5. p[j] = mulmod(addmod(0, q - 0, q), r, q)
    BY <1>4, <1>7, <2>3
  <2> HIDE DEF r
  <2>6. QED  BY <2>4, <2>5, ZeroMod
<1>8. ASSUME m # 1 PROVE FirstOnly(p, d)
  <2> SUFFICES ASSUME NEW j \in 0..(n - 1), j % d # 0 PROVE p[j] = 0
    BY DEF FirstOnly
  <2>1. CASE j % d < t
    BY <1>5, <2>1
  <2>2. CASE ~(j % d < t)
    <3>1. m + j \div d \in 1..(n - 1) /\ m + j \div d # 1
      <4>1. m + j \div d \in 1..(n - 1)
        BY HalfAt
      <4>2. j \div d >= 0
        OBVIOUS
      <4>3. QED  BY <1>8, <4>1, <4>2
    <3>2. T[m + j \div d] = 0
      BY <1>2, <3>1
    <3>3. QED  BY <1>6, <2>2, <3>2
  <2>3. QED  BY <2>1, <2>2
<1>9. ASSUME m = 1, NEW j \in 0..(n - 1), j # 0, j # t PROVE p[j] = 0
  <2>1. j % d = j
    <3>1. d = n
      BY <1>9
    <3>2. QED  BY <1>1, <3>1
  <2>2. CASE j < t
    BY <1>5, <1>9, <2>1, <2>2
  <2>3. CASE ~(j < t)
    BY <1>7, <1>9, <2>1, <2>3
  <2>4. QED  BY <2>2, <2>3
<1>10. QED  BY <1>4, <1>8, <1>9 DEF p, T

(* So all but two coefficients of what NTTINV gives are zero. *)
LEMMA ZeroInverse ==
  ASSUME NEW w \in Nat, NEW e \in Poly, NEW u \in Int, NEW j \in 0..(n - 1), j # 0, j # n \div 2
  PROVE  NTTINV(e, FalconConstantsCode(w), q, u)[j] = 0
<1> DEFINE T == FalconConstantsCode(w)
           J == Backward(e, T, q)
           D == Divisors(n)
           W == {k \in Nat : k \in D /\ k # n => FirstOnly(J[k], k)}
<1>1. n \in Nat \ {0} /\ q \in Nat
  BY Field
<1>2. IsTable(T)
  BY DEF IsTable, FalconConstantsCode
<1>3. /\ J \in [D -> Poly] /\ J[1] = e
      /\ \A k \in D : k # 1 => J[k] = InversePass(J[k \div 2], k \div 2, T, q)
  <2> HIDE DEF T
  <2>1. J \in [D -> Poly] /\ J[1] = e
    BY <1>1, <1>2, BackwardRuns
  <2>2. \A k \in D : k # 1 => J[k] = InversePass(J[k \div 2], k \div 2, T, q)
    BY <1>1, <1>2, BackwardRuns
  <2>3. QED  BY <2>1, <2>2
<1>4. NTTINV(e, T, q, u)[j] = mulmod(J[n][j], u, q)
  <2>1. NTTINV(e, T, q, u) = [i \in DOMAIN e |-> mulmod(J[Size(e)][i], u, q)]
    BY InverseIs, Zenon
  <2>2. Size(e) = n /\ DOMAIN e = 0..(n - 1)
    BY SizeIs
  <2> HIDE DEF J
  <2>3. QED  BY <2>1, <2>2
<1> HIDE DEF J
<1>5. ASSUME NEW k \in D, k # 1, FirstOnly(J[k \div 2], k \div 2)
      PROVE  /\ k # n => FirstOnly(J[k], k)
             /\ k = n => \A i \in 0..(n - 1) : i # 0 /\ i # n \div 2 => J[k][i] = 0
  <2> DEFINE t == k \div 2
             p == J[k]
  <2>1. t \in D /\ k = 2 * t /\ t \in Nat \ {0}
    BY <1>5, DivisorTwice
  <2>2. PICK m \in Nat \ {0} : m * k = n
    <3>1. k * 1 = k
      BY <2>1
    <3>2. PICK m \in Nat \ {0} : k * m = n
      BY DivisorTimes
    <3>3. m * k = n
      BY <2>1, <3>2
    <3>4. QED  BY <3>3
  <2>3. J[t] \in Poly /\ p = InversePass(J[t], t, T, q) /\ FirstOnly(J[t], t)
    BY <1>3, <1>5, <2>1
  <2> HIDE DEF t, p
  <2>4. m * (2 * t) = n
    BY <2>1, <2>2
  <2>5. /\ m # 1 => FirstOnly(p, k)
        /\ m = 1 => \A i \in 0..(n - 1) : i # 0 /\ i # t => p[i] = 0
    BY <2>1, <2>3, <2>4, ZeroPass
  <2>6. m = 1 <=> k = n
    <3>1. m = 1 => k = n
      BY <2>1, <2>2
    <3>2. k = n => m = 1
      <4>1. ASSUME k = n, m # 1 PROVE FALSE
        <5>1. (m - 1) * k = 0 /\ m - 1 \in Nat \ {0} /\ k \in Nat \ {0}
          BY <2>1, <2>2, <4>1
        <5>2. QED  BY <5>1
      <4>2. QED  BY <4>1
    <3>3. QED  BY <3>1, <3>2
  <2>7. k = n => t = n \div 2
    BY DEF t
  <2>8. QED  BY <2>5, <2>6, <2>7 DEF p
<1>6. ASSUME NEW k \in Nat, \A i \in 0..(k - 1) : i \in W PROVE k \in W
  <2> SUFFICES ASSUME k \in D, k # n PROVE FirstOnly(J[k], k)
    OBVIOUS
  <2>1. CASE k = 1
    <3>1. \A i \in 0..(n - 1) : i % 1 = 0
      OBVIOUS
    <3>2. QED  BY <2>1, <3>1 DEF FirstOnly
  <2>2. CASE k # 1
    <3> DEFINE t == k \div 2
    <3>1. t \in D /\ t < k /\ t \in Nat /\ k <= n
      <4>1. t \in D /\ t < k /\ t \in Nat \ {0}
        BY <2>2, DivisorTwice
      <4>2. k <= n
        BY DEF Divisors
      <4>3. QED  BY <4>1, <4>2
    <3> HIDE DEF t
    <3>2. t \in W /\ t # n
      BY <1>1, <1>6, <3>1
    <3>3. FirstOnly(J[t], t)
      BY <3>1, <3>2
    <3>4. QED  BY <1>5, <2>2, <3>3 DEF t
  <2>3. QED  BY <2>1, <2>2
<1>7. Nat \subseteq W
  <2> HIDE DEF W
  <2>1. QED  BY <1>6, StrongInduction
<1>8. J[n][j] = 0
  <2>1. n \in D /\ n # 1
    BY <1>1, Ends
  <2> DEFINE t == n \div 2
  <2>2. t \in D /\ t \in Nat /\ t < n
    BY <2>1, DivisorTwice
  <2> HIDE DEF t
  <2>3. FirstOnly(J[t], t)
    BY <1>7, <2>2
  <2>4. QED  BY <1>5, <2>1, <2>3 DEF t
<1>9. QED  BY <1>4, <1>8, ZeroMod

(* Sums grow with their terms. *)
LEMMA SigmaGrows ==
  ASSUME NEW k \in Nat, NEW f, NEW g, \A i \in 0..(k - 1) : f[i] \in Int /\ g[i] \in Int /\ f[i] <= g[i]
  PROVE  Sigma(f, k) <= Sigma(g, k)
<1> DEFINE T == {l \in Nat : l <= k => Sigma(f, l) <= Sigma(g, l)}
<1>1. 0 \in T
  BY SigmaZero
<1>2. ASSUME NEW l \in Nat, l \in T PROVE l + 1 \in T
  <2> SUFFICES ASSUME l + 1 <= k PROVE Sigma(f, l + 1) <= Sigma(g, l + 1)
    OBVIOUS
  <2>1. \A i \in 0..l : f[i] \in Int /\ g[i] \in Int /\ f[i] <= g[i]
    OBVIOUS
  <2>2. Sigma(f, l + 1) = Sigma(f, l) + f[l] /\ Sigma(g, l + 1) = Sigma(g, l) + g[l]
    BY <2>1, SigmaNext
  <2>3. Sigma(f, l) \in Int /\ Sigma(g, l) \in Int
    BY <2>1, SigmaInt
  <2>4. QED  BY <1>2, <2>1, <2>2, <2>3
<1> HIDE DEF T
<1>3. Nat \subseteq T
  BY <1>1, <1>2, Induction
<1>4. QED  BY <1>3 DEF T

(* What is accepted with these tables has a short hash. *)
LEMMA JudgesHash ==
  ASSUME Understanding
  PROVE  HashJudged
<1> SUFFICES ASSUME pc = "done", result = "SIG_VALIDATION_SUCCESS",
                    NEW w \in CodeWords, [ntt EXCEPT !.is_immutable = 1] = Constructed(Deployed(w))
             PROVE  Norm(HashRest) + Norm(sig.s2) <= sigBound
  BY Zenon DEF HashJudged, AsDeployed
<1> DEFINE p == NTT_MUL(sig.s2, key, ntt)
           diff == [j \in 0..(n - 1) |-> Hashed[j] - p[j]]
           f == [j \in 0..(n - 1) |-> Nearest(HashRest[j]) * Nearest(HashRest[j])]
           g == [j \in 0..(n - 1) |-> Nearest(diff[j]) * Nearest(diff[j])]
<1>1. n \in Nat \ {0} /\ q \in Nat \ {0} /\ sigBound \in Nat /\ w \in Nat
  BY FalconAssumption, DecodersAssumption DEF FalconAssumption, DecodersAssumption
<1>2. /\ Len(c) = n /\ c \in Seq(0..(q - 1)) /\ key \in Natural /\ sig.s2 \in Natural
      /\ Verify = "SIG_VALIDATION_SUCCESS" /\ IsStorage(ntt)
  BY DEF Understanding, Verification
<1>3. ntt.q = q /\ ntt.nm1modq = Genuine.nm1modq /\ ntt.psiinvrev = FalconConstantsCode(w)
  BY DeployedStorage, StorageUsed
<1>4. p \in Natural /\ \E e \in Poly : p = NTTINV(e, FalconConstantsCode(w), q, Genuine.nm1modq)
  <2> DEFINE s2 == sig.s2
             Given(S) == \E e \in Poly : p = NTTINV(e, S.psiinvrev, S.q, S.nm1modq)
  <2>1. s2 \in Poly /\ key \in Poly
    BY <1>2 DEF Natural, Poly
  <2>2. p \in Natural /\ Given(ntt)
    <3> HIDE DEF s2
    <3>1. QED  BY <1>2, <2>1, ProductTyped, Zenon DEF s2
  <2> HIDE DEF p
  <2>3. QED  BY <1>3, <2>2
<1>5. \A j \in 0..(n - 1) : j # 0 /\ j # n \div 2 => p[j] = 0
  <2>1. PICK e \in Poly : p = NTTINV(e, FalconConstantsCode(w), q, Genuine.nm1modq)
    BY <1>4
  <2>2. Genuine.nm1modq \in Int
    BY StorageAssumption DEF StorageAssumption, IsStorage
  <2> HIDE DEF p
  <2>3. QED  BY <1>1, <2>1, <2>2, ZeroInverse
<1>6. Verify = Verified(p)
  BY Zenon DEF Verify
<1> HIDE DEF p
<1>7. /\ Norm(diff) + Norm(sig.s2) <= sigBound
      /\ \A j \in 0..(n - 1) : diff[j] \in Int
      /\ Norm(diff) \in Int /\ Norm(sig.s2) \in Int
  <2>1. Verified(p) # "revert"
    BY <1>2, <1>6
  <2>2. /\ Verified(p) = (IF Norm(diff) + Norm(sig.s2) <= sigBound
                          THEN "SIG_VALIDATION_SUCCESS" ELSE "SIG_VALIDATION_FAILED")
        /\ \A j \in 0..(n - 1) : diff[j] \in Int
        /\ Norm(diff) \in Int /\ Norm(sig.s2) \in Int
    BY <1>2, <1>4, <2>1, VerifiedIs
  <2> HIDE DEF diff
  <2>3. QED  BY <1>2, <1>6, <2>2
<1>8. ASSUME NEW x \in Int PROVE Nearest(x) \in Int /\ Nearest(x) * Nearest(x) \in Nat
  <2> DEFINE z == Nearest(x)
  <2>1. x % q \in 0..(q - 1)
    BY CongMod
  <2>2. z \in Int
    BY <1>1, <2>1 DEF Nearest
  <2> HIDE DEF z
  <2>3. z * z \in Nat
    BY <2>2
  <2>4. QED  BY <2>2, <2>3 DEF z
<1>9. Nearest(0) * Nearest(0) = 0
  <2>1. 0 % q = 0 /\ (q - 1) \div 2 >= 0
    BY <1>1
  <2>2. Nearest(0) = 0
    BY <2>1 DEF Nearest
  <2>3. QED  BY <2>2
<1>10. ASSUME NEW j \in 0..(n - 1) PROVE f[j] \in Int /\ g[j] \in Int /\ f[j] <= g[j]
  <2> DEFINE x == diff[j]
             y == HashRest[j]
  <2>0. x \in Int
    BY <1>7
  <2>1. Nearest(x) * Nearest(x) \in Nat
    BY <1>8, <2>0
  <2>2. CASE j \in {0, n \div 2}
    <3>1. y = 0
      BY <2>2 DEF HashRest
    <3> HIDE DEF x, y
    <3>2. Nearest(y) * Nearest(y) = 0
      BY <1>9, <3>1
    <3>3. QED  BY <2>1, <3>2 DEF x, y
  <2>3. CASE j \notin {0, n \div 2}
    <3>1. y = Hashed[j] /\ p[j] = 0
      BY <1>5, <2>3 DEF HashRest
    <3>2. Hashed[j] \in Int
      BY <1>1, <1>2, HashTyped
    <3>3. x = y
      BY <3>1, <3>2
    <3> HIDE DEF x, y
    <3>4. Nearest(y) * Nearest(y) = Nearest(x) * Nearest(x)
      BY <3>3
    <3>5. QED  BY <2>1, <3>4 DEF x, y
  <2>4. QED  BY <2>2, <2>3
<1>11. Norm(HashRest) = Sigma(f, n) /\ Norm(diff) = Sigma(g, n)
  <2>1. DOMAIN HashRest = 0..(n - 1) /\ DOMAIN diff = 0..(n - 1)
    BY DEF HashRest
  <2>2. Norm(HashRest) = SumFunction(f) /\ Norm(diff) = SumFunction(g)
    BY <2>1, Zenon DEF Norm
  <2>3. SumFunction(f) = Sigma(f, n) /\ SumFunction(g) = Sigma(g, n)
    BY Zenon DEF SumFunction, Sigma, f, g
  <2> HIDE DEF f, g, diff
  <2>4. QED  BY <2>2, <2>3
<1> HIDE DEF f, g, diff
<1>12. Sigma(f, n) <= Sigma(g, n) /\ Sigma(f, n) \in Int
  BY <1>1, <1>10, SigmaGrows, SigmaInt
<1>13. QED  BY <1>1, <1>7, <1>11, <1>12

(***************************************************************************)
(* HashJudged holds, whatever n and q and the bytecode: with the stack as  *)
(* main deploys it, no key and no signature makes the account accept an    *)
(* operation whose hash is long in the coefficients other than two.        *)
(***************************************************************************)
THEOREM DeployedJudgesHash == ScriptSpec => []HashJudged
<1>1. ScriptInit => Understanding
  BY UnderstandingInit
<1>2. Understanding /\ [ScriptNext]_allVars => Understanding'
  BY UnderstandingNext
<1>3. Understanding => HashJudged
  BY JudgesHash
<1>4. QED  BY <1>1, <1>2, <1>3, PTL DEF ScriptSpec
============================================================================
