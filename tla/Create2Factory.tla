--------------------------- MODULE Create2Factory ---------------------------
(***************************************************************************)
(* src/Create2Factory.ts: calls of deploy, any number at once, on objects  *)
(* that remember having seen the deterministic deployer.                   *)
(*                                                                         *)
(* One step is the node's answer to the request that a call waits for and  *)
(* the code from there to the next request.  A transaction is sent in one  *)
(* step and mined in another; blocks are mined whether or not a call waits *)
(* for them.  An address is what it is the address of.                     *)
(***************************************************************************)
EXTENDS Integers, FiniteSets

CONSTANTS
  Calls,     \* the calls of deploy
  object,    \* object[c]: the Create2Factory that c is called on
  contract,  \* contract[c]: initCode and salt, by the contract they make
  Contracts, \* the contracts deployed
  Empty,     \* those of them whose init code returns no code
  Factory    \* the deterministic deployer

ASSUME Create2Assumption == Factory \notin Contracts /\ Empty \subseteq Contracts

VARIABLES
  factoryDeployed,  \* of each object
  at,       \* at[c]: the request that c waits for, or how it ended
  code,     \* the addresses that have code
  funded,   \* factoryDeployer's fees mined; those still in the pool are in txs
  txs,      \* the pool: what the transactions are, and the calls that sent them
  failed,   \* the calls whose deployment reverted
  emptied   \* the contracts of Empty that were made: addresses without code

factoryVars == <<factoryDeployed, at, code, funded, txs, failed, emptied>>

Objects == {object[c] : c \in Calls}
Ended == {"returned", "thrown"}

Go(c, stage) == at' = [at EXCEPT ![c] = stage]

(* A transaction: the fee, the presigned factoryTx, or a call of the deployer. *)
Tx(c, kind) == [by |-> c, kind |-> kind]

Send(c, kind) == txs' = txs \cup {Tx(c, kind)}

---------------------------------------------------------------------------
(* deploy, first of all deployFactory and its _isFactoryDeployed. *)

Deploy(c) ==
  /\ at[c] = "idle"
  /\ Go(c, IF factoryDeployed[object[c]] THEN "code" ELSE "factory")
  /\ UNCHANGED <<factoryDeployed, code, funded, txs, failed, emptied>>

(* _isFactoryDeployed, before the deployer is sent and after it was mined. *)
IsFactoryDeployed(c, missing) ==
  /\ factoryDeployed' = [factoryDeployed EXCEPT ![object[c]] = @ \/ Factory \in code]
  /\ Go(c, IF factoryDeployed'[object[c]] THEN "code" ELSE missing)
  /\ UNCHANGED <<code, funded, txs, failed, emptied>>

FactoryChecked(c) == at[c] = "factory" /\ IsFactoryDeployed(c, "fund")

(* The fee is sent, and not waited for: a timer runs instead. *)
Fund(c) ==
  /\ at[c] = "fund"
  /\ Go(c, "sleep") /\ Send(c, "fee")
  /\ UNCHANGED <<factoryDeployed, code, funded, failed, emptied>>

(* The node takes factoryTx once, and only from an account that can pay. *)
Accepted == funded /\ Factory \notin code /\ \A tx \in txs : tx.kind # "factoryTx"

SendFactory(c) ==
  /\ at[c] = "sleep"
  /\ IF Accepted THEN Go(c, "factory wait") /\ Send(c, "factoryTx")
     ELSE Go(c, "thrown") /\ UNCHANGED txs
  /\ UNCHANGED <<factoryDeployed, code, funded, failed, emptied>>

FactoryWaited(c) ==
  /\ at[c] = "factory wait" /\ Tx(c, "factoryTx") \notin txs
  /\ IsFactoryDeployed(c, "thrown")

CodeChecked(c) ==
  /\ at[c] = "code"
  /\ IF contract[c] \in code THEN Go(c, "returned")
     ELSE \E next \in {"estimate", "send"} : Go(c, next)
  /\ UNCHANGED <<factoryDeployed, code, funded, txs, failed, emptied>>

(* create2 fails where an earlier one was, even if that one left no code. *)
Collides(c) == Factory \in code /\ contract[c] \in code \cup emptied

(* estimateGas rejects what would revert. *)
Estimated(c) ==
  /\ at[c] = "estimate"
  /\ Go(c, IF Collides(c) THEN "thrown" ELSE "send")
  /\ UNCHANGED <<factoryDeployed, code, funded, txs, failed, emptied>>

SendDeployment(c) ==
  /\ at[c] = "send"
  /\ Go(c, "wait") /\ Send(c, "create")
  /\ UNCHANGED <<factoryDeployed, code, funded, failed, emptied>>

(* wait() throws when the transaction failed. *)
DeploymentWaited(c) ==
  /\ at[c] = "wait" /\ Tx(c, "create") \notin txs
  /\ Go(c, IF c \in failed THEN "thrown" ELSE "check")
  /\ UNCHANGED <<factoryDeployed, code, funded, txs, failed, emptied>>

(* Mutant: the transaction's success is taken for the contract's. *)
Unchecked(c) ==
  /\ at[c] = "check"
  /\ Go(c, "returned")
  /\ UNCHANGED <<factoryDeployed, code, funded, txs, failed, emptied>>

DeploymentChecked(c) ==
  /\ at[c] = "check"
  /\ Go(c, IF contract[c] \in code THEN "returned" ELSE "thrown")
  /\ UNCHANGED <<factoryDeployed, code, funded, txs, failed, emptied>>

(* The node rejects a request, or is not there. *)
Rejected(c) ==
  /\ at[c] \notin Ended \cup {"idle"}
  /\ Go(c, "thrown")
  /\ UNCHANGED <<factoryDeployed, code, funded, txs, failed, emptied>>

(***************************************************************************)
(* A transaction is mined.  When the deployer's create2 fails, the deployer *)
(* reverts; a call of the deployer where there is none does nothing, and   *)
(* that succeeds.  What gas deploy has computed from the init code may     *)
(* turn out too little.                                                    *)
(***************************************************************************)
Mined(tx) ==
  LET creates == tx.kind = "create" /\ Factory \in code
      made == CASE tx.kind = "factoryTx" -> {Factory}
                [] creates -> {contract[tx.by]}
                [] OTHER -> {}
  IN  /\ txs' = txs \ {tx}
      /\ funded' = (funded \/ tx.kind = "fee")
      /\ \E outOfGas \in (IF creates THEN BOOLEAN ELSE {FALSE}) :
           IF outOfGas \/ (creates /\ Collides(tx.by))
           THEN failed' = failed \cup {tx.by} /\ UNCHANGED <<code, emptied>>
           ELSE /\ code' = code \cup (made \ Empty) /\ emptied' = emptied \cup (made \cap Empty)
                /\ UNCHANGED failed
      /\ UNCHANGED <<factoryDeployed, at>>

Answer(c) ==
  \/ FactoryChecked(c) \/ Fund(c) \/ SendFactory(c) \/ FactoryWaited(c) \/ CodeChecked(c)
  \/ Estimated(c) \/ SendDeployment(c) \/ DeploymentWaited(c) \/ DeploymentChecked(c)

FactoryInit ==
  /\ factoryDeployed = [o \in Objects |-> FALSE]
  /\ at = [c \in Calls |-> "idle"]
  /\ code \in {{}, {Factory} \cup (Contracts \ Empty)} /\ funded = FALSE /\ txs = {} /\ failed = {}
  /\ emptied = IF Factory \in code THEN Empty ELSE {}

FactoryNext ==
  \/ \E c \in Calls : Answer(c) \/ Rejected(c)
  \/ \E tx \in txs : Mined(tx)

---------------------------------------------------------------------------
(***************************************************************************)
(* deploy returns an address only when the contract is there, whatever     *)
(* calls race for the deployer and for the contract; and an object that    *)
(* remembers the deployer is right.                                        *)
(***************************************************************************)
DeployedHasCode ==
  /\ \A c \in Calls : at[c] = "returned" => contract[c] \in code
  /\ \A o \in Objects : factoryDeployed[o] => Factory \in code
============================================================================
