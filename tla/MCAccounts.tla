----------------------------- MODULE MCAccounts -----------------------------
(* A SimpleAccount of alice, and a FalconSimpleAccount that bob's key signs  *)
(* for and the SimpleAccount owns; one contract of unknown code.             *)
EXTENDS Accounts

CONSTANTS alice, bob, contract, simple, falcon

MCMadeFor == [a \in Simple |-> alice]

Exec(a, calls) == [dest |-> a, value |-> 0, fn |-> "execute", calls |-> calls]
Batch(a, calls) == [dest |-> a, value |-> 0, fn |-> "executeBatch", calls |-> calls, matching |-> TRUE]
Initialization(a, o, k) == [dest |-> a, value |-> 0, fn |-> "initialize", owner |-> o, key |-> k]
Withdraw(a, to) == [dest |-> a, value |-> 0, fn |-> "withdrawDepositTo", to |-> to, amount |-> 1]
Upgrade(a) == [dest |-> a, value |-> 0, fn |-> "upgradeToAndCall", impl |-> 2]
Deposit(a) == [dest |-> a, value |-> 1, fn |-> "addDeposit"]
Take(to) == [dest |-> EntryPoint, value |-> 0, fn |-> "withdrawTo", to |-> to, amount |-> 1]
Pay(to) == [dest |-> to, value |-> 1, fn |-> "receive"]

(* What contract calls back is among these. *)
MCCalls == {
  Initialization(falcon, simple, bob),
  Initialization(falcon, contract, alice),
  Deposit(falcon),
  Withdraw(falcon, contract),
  Upgrade(falcon),
  Batch(falcon, <<Pay(contract), Deposit(falcon)>>),
  [Batch(falcon, <<Pay(alice)>>) EXCEPT !.matching = FALSE],
  Exec(simple, <<Exec(falcon, <<Withdraw(falcon, simple)>>)>>),
  Exec(simple, <<Take(alice)>>)
}

Op(sender, initCode, signer, prefund, callData) ==
  [sender |-> sender, initCode |-> initCode, signer |-> signer, prefund |-> prefund, callData |-> callData]

MCOperations == {
  Op(simple, simple, alice, 0, <<Exec(simple, <<Upgrade(falcon)>>)>>),
  Op(simple, NoOne, alice, 1, <<Batch(simple, <<Pay(contract), Pay(contract)>>)>>),
  Op(falcon, NoOne, bob, 1, <<Exec(falcon, <<Pay(contract)>>)>>),
  Op(falcon, NoOne, alice, 1, <<Withdraw(falcon, alice)>>)
}

(* From each call to those it leads to; no call is more than four steps away. *)
LeadsTo(c) ==
  Range(SubCalls(c))
    \cup (IF c.fn = "withdrawDepositTo" THEN {Withdrawal(c)} ELSE {})
    \cup (IF c.fn = "withdrawTo" THEN {Payment(c)} ELSE {})

MCAllCalls ==
  LET upTo[k \in 0..4] ==
        IF k = 0 THEN MCCalls \cup UNION {Range(op.callData) : op \in MCOperations}
        ELSE upTo[k - 1] \cup UNION {LeadsTo(c) : c \in upTo[k - 1]}
  IN  upTo[4]
=============================================================================
