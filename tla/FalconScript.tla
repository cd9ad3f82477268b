---------------------------- MODULE FalconScript ----------------------------
(***************************************************************************)
(* scripts/anvil-falcon-tx.ts: the stack and an account are deployed, a    *)
(* key generated, an operation signed, its signature decoded, and the      *)
(* operation simulated and sent, while anyone else uses the chain.  Each   *)
(* await is a step; anvil mines a transaction when it arrives.             *)
(*                                                                         *)
(* The decoders' scripts run before it, on data of any kind.               *)
(***************************************************************************)
EXTENDS FalconVerifier

CONSTANTS
  LogQ, LowBits, MaxValue, ByteBits,  \* of FalconDecoders
  Vectors,  \* signed coefficients that falcon-sign may put in a signature
  CodeWords, \* what the second word of FalconConstants' code may be
  Files,    \* what the decoders may be given: [header, size, bits]
  None      \* no key

Decoders == INSTANCE FalconDecoders

ASSUME DecodersAssumption ==
  /\ ByteBits = LowBits + 1 /\ LowBits \in Nat \ {0}
  /\ LogQ \in Nat /\ LogQ > ByteBits /\ q <= Decoders!TwoTo[LogQ]
  /\ MaxValue \in Nat /\ 2 * MaxValue < q
  /\ Vectors \subseteq [1..n -> (- MaxValue)..MaxValue]
  /\ CodeWords \subseteq Nat
  /\ \A f \in Files : f.size \in Nat /\ f.bits \in Seq({0, 1})

VARIABLES
  stage,      \* where main is
  secret,     \* falcon-sign's own key h, and the coefficients it signed with
  publicKey,  \* the key that main decoded
  accountKey, \* the key stored by the account
  submission, \* the signature main submits, once decoded
  receipt,    \* what handleOps came to on the chain
  seen,       \* the words of the hash of the operation, which stay the same
  tested,     \* history: the storage of ZKNOX_NTT in the simulation
  decoded     \* what the decoders make of a file, while they print it

script == <<stage, secret, publicKey, accountKey, submission, receipt, seen, tested, decoded>>
allVars == <<vars, script>>

Final == {"hangs", "succeeded", "failed"}

(* main awaits, and nothing else runs. *)
At(s) == stage = s /\ pc = "idle" /\ decoded = <<>>

---------------------------------------------------------------------------
(* main *)

Coefficients(s) == [j \in 0..(Len(s) - 1) |-> s[j + 1]]

(* Mutant: the key is decoded as decode-falcon.js does. *)
PublicKeyLittleEndian(pk) == Coefficients(Decoders!decodePk14bit(pk, n))

PublicKey(pk) == Coefficients(Decoders!decodePk(pk, n))

(***************************************************************************)
(* The tables of main's ZKNOX_NTT.  Both are the code of FalconConstants,  *)
(* a contract without functions: less than two words, w the second, and    *)
(* zero beyond.  Nothing reads the first.                                  *)
(***************************************************************************)
(* Mutant: the array psi_rev, as if it were in the code. *)
FalconConstantsArray(w) == Genuine.psirev

FalconConstantsCode(w) == [k \in 1..(n - 1) |-> IF k = 1 THEN w ELSE 0]

Deployed(w) ==
  [q |-> q, nm1modq |-> Genuine.nm1modq, is_immutable |-> 0,
   psirev |-> FalconConstantsCode(w), psiinvrev |-> FalconConstantsCode(w)]

(* The stack is deployed, ZKNOX_NTT with it, and a key pair made. *)
DeployStack(h, w) ==
  /\ At("start") /\ h \in [0..(n - 1) -> 0..(q - 1)]
  /\ ntt' = Constructed(Deployed(w))
  /\ stage' = "keys" /\ secret' = [h |-> h, s2 |-> <<>>]
  /\ publicKey' = PublicKey(Decoders!EncodedPk([j \in 1..n |-> h[j - 1]]))
  /\ UNCHANGED <<pc, key, sig, prng, word, words, c, result, accountKey, submission, receipt, seen, tested, decoded>>

(* The proxy is there without an owner or a key. *)
DeployAccount ==
  /\ At("keys") /\ stage' = "deployed"
  /\ UNCHANGED <<vars, secret, publicKey, accountKey, submission, receipt, seen, tested, decoded>>

(***************************************************************************)
(* initializer: the first call of initialize is the only one.  main waits  *)
(* until its own is sent: the provider may notice that it would revert, or *)
(* it reverts when it is mined and main goes on with the other's key.      *)
(***************************************************************************)
Initialize ==
  /\ At("deployed")
  /\ \/ accountKey = None /\ stage' = "initialized" /\ accountKey' = publicKey
     \/ accountKey # None /\ stage' \in {"initialized", "failed"} /\ UNCHANGED accountKey
  /\ UNCHANGED <<vars, secret, publicKey, submission, receipt, seen, tested, decoded>>

(* Whoever it is names main's verifier too. *)
OtherInitializes(h) ==
  /\ At("deployed") /\ accountKey = None
  /\ accountKey' = h
  /\ UNCHANGED <<vars, stage, secret, publicKey, submission, receipt, seen, tested, decoded>>

(* The account gets its balance and deposit; the operation is built and signed. *)
Sign(s2) ==
  /\ At("initialized")
  /\ LET d == Decoders!decompressS2(Decoders!Filled(Decoders!Compressed(s2)), n)
     IN  /\ stage' = IF d.status = "done" THEN "signed" ELSE "hangs"
         /\ submission' = <<[s2 |-> Coefficients(d.out), decodes |-> TRUE, saltLength |-> 40]>>
  /\ secret' = [secret EXCEPT !.s2 = s2]
  /\ UNCHANGED <<vars, publicKey, accountKey, receipt, seen, tested, decoded>>

(* callStatic.handleOps *)
Simulate ==
  /\ At("signed")
  /\ ValidateSignature(accountKey, submission[1])
  /\ stage' = "simulating" /\ tested' = ntt
  /\ UNCHANGED <<secret, publicKey, accountKey, submission, receipt, seen, decoded>>

Simulated ==
  /\ stage = "simulating" /\ Returned
  /\ stage' = IF result = "SIG_VALIDATION_SUCCESS" THEN "simulated" ELSE "failed"
  /\ seen' = words
  /\ UNCHANGED <<secret, publicKey, accountKey, submission, receipt, tested, decoded>>

(* handleOps, of the same operation *)
Send ==
  /\ At("simulated")
  /\ ValidateSignature(accountKey, submission[1])
  /\ stage' = "sending"
  /\ UNCHANGED <<secret, publicKey, accountKey, submission, receipt, seen, tested, decoded>>

Mined ==
  /\ stage = "sending" /\ Returned
  /\ stage' = "mined" /\ receipt' = result
  /\ UNCHANGED <<secret, publicKey, accountKey, submission, seen, tested, decoded>>

(* tx.wait throws if the transaction reverted. *)
Waited ==
  /\ At("mined")
  /\ stage' = IF receipt = "SIG_VALIDATION_SUCCESS" THEN "succeeded" ELSE "failed"
  /\ UNCHANGED <<vars, secret, publicKey, accountKey, submission, receipt, seen, tested, decoded>>

(* Any request may fail, and main then ends. *)
Throws ==
  /\ pc = "idle" /\ stage \notin Final \cup {"start"}
  /\ stage' = "failed"
  /\ UNCHANGED <<vars, secret, publicKey, accountKey, submission, receipt, seen, tested, decoded>>

---------------------------------------------------------------------------
(* The scripts of the decoders print what they decode. *)

Decode(f) ==
  /\ At("start")
  /\ decoded' = <<[file |-> f,
                   key |-> Decoders!decodePk(f.bits, f.size),
                   keyChecked |-> Decoders!decodeFalconPk(f.bits, f.size),
                   keyLow |-> Decoders!decodePk14bit(f.bits, f.size),
                   signed |-> Decoders!decodeFalconSig(f.bits, f.size),
                   final |-> Decoders!decodeFalconSignature(f.bits, f.size),
                   anvil |-> Decoders!decompressS2(f.bits, f.size),
                   falcon |-> Decoders!decodeCompressedSig(f.bits, f.size),
                   full |-> Decoders!decodeFalconSigCt1(f.header, f.bits, f.size)]>>
  /\ UNCHANGED <<vars, stage, secret, publicKey, accountKey, submission, receipt, seen, tested>>

Printed ==
  /\ decoded # <<>> /\ decoded' = <<>>
  /\ UNCHANGED <<vars, stage, secret, publicKey, accountKey, submission, receipt, seen, tested>>

---------------------------------------------------------------------------
(* Mutant: hashToPoint reads other words, as for a new signature. *)
WordIsAny(t) == TRUE

(* The same operation and salt have the same hash. *)
WordOf(t) == stage = "sending" => Len(words) < Len(seen) /\ t = seen[Len(words) + 1]

(* The verifier, used by main and, as bounded here, before main starts by others. *)
Verifier ==
  /\ decoded = <<>>
  /\ \/ \E h \in Keys, s \in Sigs : stage = "start" /\ ValidateSignature(h, s)
     \/ \E t \in Words : WordOf(t) /\ Read(t)
     \/ HashedToPoint
     \/ stage # "sending" /\ OutOfGas  \* the simulation has had the same gas
     \/ stage = "start" /\ Returned
     \/ \E tables \in Updates : Update(tables)
     \/ MakeImmutable
  /\ UNCHANGED script

ScriptInit ==
  /\ Init
  /\ stage = "start" /\ secret = [h |-> None, s2 |-> <<>>] /\ publicKey = None /\ accountKey = None
  /\ submission = <<>> /\ receipt = "none" /\ seen = <<>> /\ tested = ntt /\ decoded = <<>>

ScriptNext ==
  \/ Verifier
  \/ \E h \in Keys, w \in CodeWords : DeployStack(h, w)
  \/ DeployAccount \/ Initialize
  \/ \E h \in Keys : OtherInitializes(h)
  \/ \E s2 \in Vectors : Sign(s2)
  \/ Simulate \/ Simulated \/ Send \/ Mined \/ Waited \/ Throws
  \/ \E f \in Files : Decode(f)
  \/ Printed

ScriptSpec == ScriptInit /\ [][ScriptNext]_allVars

---------------------------------------------------------------------------
(***************************************************************************)
(* The chain understands the signer.  main's decoders come to an end, the  *)
(* key they give is falcon-sign's, and the account, whoever initialized    *)
(* it and whatever the tables, accepts an operation exactly when the       *)
(* signature is short by the signer's own reckoning: with the signed       *)
(* coefficients s2, from before they were encoded, decoded and reduced,    *)
(* and the product that NTT_MUL makes of them.  With the right tables and  *)
(* the signer's own key, that is the product by its definition.            *)
(***************************************************************************)
SignedNorm(product) ==
  Norm([j \in DOMAIN product |-> Hashed[j] - product[j]])
    + SumFunction([j \in 1..n |-> secret.s2[j] * secret.s2[j]])

OnChain == NTT_MUL([j \in 0..(n - 1) |-> secret.s2[j + 1] % q], accountKey, ntt)

OffChain == Product(Coefficients(secret.s2), secret.h, q)

Answered == stage \in {"simulating", "sending"} /\ pc = "done" /\ result # "revert"

SignerUnderstood ==
  /\ stage # "hangs"
  /\ stage # "start" => publicKey = secret.h
  /\ Answered =>
       /\ result = "SIG_VALIDATION_SUCCESS" <=> Size(accountKey) = n /\ SignedNorm(OnChain) <= sigBound
       /\ IsGenuine /\ accountKey = secret.h =>
            (result = "SIG_VALIDATION_SUCCESS" <=> SignedNorm(OffChain) <= sigBound)

(***************************************************************************)
(* With the tables that main deploys, the account judges little but the    *)
(* hash.  The product is zero except in two coefficients, whatever the key *)
(* and the signature, so an operation is accepted only if the hash of the  *)
(* operation is itself short in all the others.                            *)
(***************************************************************************)
AsDeployed == \E w \in CodeWords : [ntt EXCEPT !.is_immutable = 1] = Constructed(Deployed(w))

HashRest == [j \in 0..(n - 1) |-> IF j \in {0, n \div 2} THEN 0 ELSE Hashed[j]]

HashJudged ==
  pc = "done" /\ AsDeployed /\ result = "SIG_VALIDATION_SUCCESS" =>
    Norm(HashRest) + Norm(sig.s2) <= sigBound

(***************************************************************************)
(* `expect(ret).to.equal(0)` in falcon-simple-wallet.test.ts, of a stack   *)
(* deployed as here: an account with the signer's key accepts what the     *)
(* signer signed.                                                          *)
(***************************************************************************)
SignerAccepted ==
  Answered /\ AsDeployed /\ accountKey = secret.h /\ SignedNorm(OffChain) <= sigBound =>
    result = "SIG_VALIDATION_SUCCESS"

(***************************************************************************)
(* The simulation foretells the transaction: when the operation fails on   *)
(* the chain although it was simulated with success, somebody has changed  *)
(* the storage of ZKNOX_NTT in between.                                    *)
(***************************************************************************)
SimulationForetells ==
  stage = "sending" /\ pc = "done" /\ result # "SIG_VALIDATION_SUCCESS" => ntt # tested

(***************************************************************************)
(* decodeFalconSig of decode-final.js inverts the encoding: what it        *)
(* accepts is the one encoding of what it returns, and main's decoder,     *)
(* which checks nothing, then returns the same modulo q.  So main's hangs  *)
(* only on data that decode-final.js rejects.  A key that is long enough   *)
(* and passes its check has that one encoding, and main reads the same. *)
(***************************************************************************)
Canonical ==
  \A j \in DOMAIN decoded :
    LET d == decoded[j]
        bits == d.file.bits
    IN  /\ d.final.status = "done" =>
             /\ Decoders!Compressed(d.signed.out) = SubSeq(bits, 1, d.signed.at - 1)
             /\ d.anvil = d.final
        /\ d.keyChecked.status = "done" /\ Len(bits) >= d.file.size * LogQ =>
             /\ Decoders!EncodedPk(d.keyChecked.out) = Decoders!Filled(SubSeq(bits, 1, d.file.size * LogQ))
             /\ d.key = d.keyChecked.out
=============================================================================
