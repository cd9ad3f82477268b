--------------------------- MODULE FalconDecoders ---------------------------
(***************************************************************************)
(* The decoders of falcon-sign's keys and signatures: decode-final.js,     *)
(* decode-full.js, decode-falcon.js, investigate.js and the two functions  *)
(* of scripts/anvil-falcon-tx.ts.                                          *)
(*                                                                         *)
(* Bytes are read from their high bits, except by the little-endian        *)
(* decoders, so the data behind the header is a sequence of bits, a whole  *)
(* number of bytes long.  JavaScript reads zeros behind the end.           *)
(***************************************************************************)
EXTENDS Integers, Sequences, SequencesExt

CONSTANTS
  q,         \* the field, 12289
  LogQ,      \* bits of a packed coefficient of a key, 14
  LowBits,   \* bits of a signature's coefficient beside its sign, 7
  MaxValue,  \* the largest coefficient of a signature, 2047
  ByteBits   \* bits of a byte, one more than LowBits

TwoTo[k \in Nat] == IF k = 0 THEN 1 ELSE 2 * TwoTo[k - 1]

Bit(bits, p) == IF p \in DOMAIN bits THEN bits[p] ELSE 0

(* The number in k bits from position p, the high bit first. *)
readBits(bits, p, k) ==
  LET Read[j \in 0..k] == IF j = 0 THEN 0 ELSE 2 * Read[j - 1] + Bit(bits, p + j - 1)
  IN  Read[k]

(* The number in k bits from position p, the low bit first. *)
LittleEndian(bits, p, k) ==
  LET Read[j \in 0..k] == IF j = 0 THEN 0 ELSE 2 * Read[j - 1] + Bit(bits, p + k - j)
  IN  Read[k]

toModQ(x) == IF x < 0 THEN q + x ELSE x

---------------------------------------------------------------------------
(* Public keys: size coefficients of LogQ bits each. *)

(* Where coefficient u starts. *)
KeyBit(u) == 1 + (u - 1) * LogQ

(* decode-full.js, and decodePk of anvil-falcon-tx.ts *)
decodePk(bits, size) == [u \in 1..size |-> readBits(bits, KeyBit(u), LogQ)]

(* decode-final.js *)
decodeFalconPk(bits, size) ==
  LET w == decodePk(bits, size)
  IN  [status |-> IF \E u \in 1..size : w[u] >= q THEN "thrown" ELSE "done", out |-> w]

(* The bits of each byte turned round: the order in which they are read. *)
FromLowBits(bits) ==
  [p \in DOMAIN bits |-> bits[((p - 1) \div ByteBits) * ByteBits + ByteBits - ((p - 1) % ByteBits)]]

(* decodePk of decode-falcon.js, and decodePk14bit of investigate.js *)
decodePk14bit(bits, size) ==
  [u \in 1..size |-> LittleEndian(FromLowBits(bits), KeyBit(u), LogQ)]

---------------------------------------------------------------------------
(***************************************************************************)
(* Signatures: the coefficient at position p is its sign, low bits and, in *)
(* unary, the bits above them: zeros before a one.                         *)
(***************************************************************************)
Ones(bits, p) == {j \in p..Len(bits) : bits[j] = 1}

Stop(bits, p, low) == CHOOSE j \in Ones(bits, p + 1 + low) : \A k \in Ones(bits, p + 1 + low) : j <= k

Magnitude(bits, p, low) ==
  readBits(bits, p + 1, low) + TwoTo[low] * (Stop(bits, p, low) - (p + 1 + low))

Value(bits, p, low) == IF bits[p] = 1 THEN - Magnitude(bits, p, low) ELSE Magnitude(bits, p, low)

Start == [status |-> "done", at |-> 1, out |-> <<>>]

Taken(d, bits, low, value) ==
  [d EXCEPT !.at = Stop(bits, d.at, low) + 1, !.out = Append(@, value)]

(* Mutant: -0 is let through. *)
WellFormedOrMinusZero(bits, p) ==
  Ones(bits, p + ByteBits) # {} /\ Magnitude(bits, p, LowBits) <= MaxValue

(* What comp_decode demands of the coefficient at p: enough data, no -0. *)
WellFormed(bits, p) ==
  /\ Ones(bits, p + ByteBits) # {}
  /\ Magnitude(bits, p, LowBits) <= MaxValue
  /\ ~(bits[p] = 1 /\ Magnitude(bits, p, LowBits) = 0)

(* comp_decode: decode-final.js *)
decodeFalconSig(bits, size) ==
  LET Next(d) == IF d.status # "done" \/ ~WellFormed(bits, d.at) THEN [d EXCEPT !.status = "thrown"]
                 ELSE Taken(d, bits, LowBits, Value(bits, d.at, LowBits))
      After[u \in 0..size] == IF u = 0 THEN Start ELSE Next(After[u - 1])
  IN  After[size]

decodeFalconSignature(bits, size) ==
  LET d == decodeFalconSig(bits, size)
  IN  [d EXCEPT !.out = [u \in DOMAIN d.out |-> toModQ(d.out[u])]]

(* Without a look at the end of the data: no one follows, so it hangs. *)
Unchecked(bits, size, low) ==
  LET Next(d) == IF d.status # "done" \/ Ones(bits, d.at + 1 + low) = {} THEN [d EXCEPT !.status = "hangs"]
                 ELSE Taken(d, bits, low, toModQ(Value(bits, d.at, low)))
      After[u \in 0..size] == IF u = 0 THEN Start ELSE Next(After[u - 1])
  IN  After[size]

(* anvil-falcon-tx.ts *)
decompressS2(bits, size) == Unchecked(bits, size, LowBits)

(* decode-falcon.js: one low bit more than the encoding has. *)
decodeCompressedSig(bits, size) == Unchecked(bits, size, LowBits + 1)

(* decode-full.js, which looks at the size named in the header. *)
decodeFalconSigCt1(header, bits, size) ==
  IF header # size THEN [Start EXCEPT !.status = "thrown"] ELSE Unchecked(bits, size, LowBits + 1)

---------------------------------------------------------------------------
(* falcon-sign's encodings *)

Binary(v, k) == [j \in 1..k |-> (v \div TwoTo[k - j]) % 2]

Filled(bits) == bits \o [j \in 1..((- Len(bits)) % ByteBits) |-> 0]

EncodedPk(h) == Filled(FlattenSeq([u \in DOMAIN h |-> Binary(h[u], LogQ)]))

EncodedCoefficient(x) ==
  LET m == IF x < 0 THEN - x ELSE x
  IN  <<IF x < 0 THEN 1 ELSE 0>> \o Binary(m % TwoTo[LowBits], LowBits)
        \o [j \in 1..(m \div TwoTo[LowBits]) |-> 0] \o <<1>>

Compressed(s) == FlattenSeq([u \in DOMAIN s |-> EncodedCoefficient(s[u])])
=============================================================================
