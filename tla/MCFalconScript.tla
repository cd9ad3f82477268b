--------------------------- MODULE MCFalconScript ---------------------------
(***************************************************************************)
(* FalconScript in the field of MCFalconVerifier.  A byte has three bits   *)
(* and the coefficients of a signature lie within seven of zero; the       *)
(* decoders are given every file of at most four bytes.                    *)
(***************************************************************************)
EXTENDS FalconScript, MCFalconVerifier

SomeCode == {100}

SomeVectors == {<<1, 0, -1, 2>>, <<-5, 3, 0, 0>>, <<7, -7, 0, 0>>}

ShortFiles ==
  {[header |-> 2, size |-> 2, bits |-> bits] :
     bits \in UNION {[1..k -> {0, 1}] : k \in {0, 3, 6, 9, 12}}}
  \cup {[header |-> 9, size |-> 2, bits |-> <<0, 0, 1>>]}
=============================================================================
