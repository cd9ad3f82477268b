---------------------------- MODULE MCHandleOps ----------------------------
(***************************************************************************)
(* HandleOps on one account and one paymaster.  The account submits an     *)
(* operation it pays for itself and one the paymaster pays for.            *)
(***************************************************************************)
EXTENDS HandleOps

CONSTANTS acct, pm, ep, agg, nobody, sigFailed

Self == [hash |-> 1, sender |-> acct, nonce |-> 0, paymaster |-> nobody, prefund |-> 2,
         initCode |-> FALSE, callData |-> TRUE, wellFormed |-> TRUE]

Sponsored == [hash |-> 2, sender |-> acct, nonce |-> 1, paymaster |-> pm, prefund |-> 1,
              initCode |-> FALSE, callData |-> TRUE, wellFormed |-> TRUE]

(* One without callData, whose paymaster may still want its postOp. *)
Idle == [Sponsored EXCEPT !.hash = 6, !.nonce = 0, !.callData = FALSE]

(* The operation that creates the account, for free. *)
Creating == [Self EXCEPT !.hash = 3, !.initCode = TRUE, !.prefund = 0]

(* Another operation with the same nonce, with no callData. *)
Rival == [Self EXCEPT !.hash = 4, !.callData = FALSE, !.prefund = 0]

Malformed == [Self EXCEPT !.hash = 5, !.wellFormed = FALSE]

Plain(ops) == [aggregators |-> <<nobody>>,
               ops |-> [j \in 1..Len(ops) |-> [op |-> ops[j], group |-> 1]]]

Aggregated(aggregator, first, second) ==
  [aggregators |-> <<aggregator, nobody>>,
   ops |-> <<[op |-> first, group |-> 1], [op |-> second, group |-> 2]>>]

Signed == [aggregator |-> nobody, validAfter |-> 0, validUntil |-> 0]
WrongSignature == [Signed EXCEPT !.aggregator = sigFailed]
Expired == [Signed EXCEPT !.validUntil = 1]
NotDue == [Signed EXCEPT !.validAfter = 2]
AggregatorSigned == [Signed EXCEPT !.aggregator = agg]

(* Two operations in one bundle, and in another one a rival of the first. *)
PairOps == {Self, Sponsored, Idle}
PairBundles == {Plain(<<Self, Sponsored>>), Plain(<<Idle>>)}
PairAddr == {acct, pm, ep}
Answers == {Signed, WrongSignature}

(* Groups, accounts created on the way, and operations that share a nonce. *)
GroupOps == {Creating, Sponsored, Rival, Malformed}
GroupBundles ==
  {Aggregated(agg, Creating, Sponsored), Aggregated(sigFailed, Rival, Sponsored),
   Plain(<<Rival>>), Plain(<<Malformed>>)}
GroupAddr == {acct, pm, agg, ep}
GroupDeployed == {agg, pm, ep}
AllAnswers == {Signed, WrongSignature, Expired, NotDue, AggregatorSigned}
===========================================================================
