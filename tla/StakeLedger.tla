---------------------------- MODULE StakeLedger ----------------------------
(***************************************************************************)
(* StakeManager as an implementation of Ledger: an address's credit is its *)
(* deposit and its stake together.                                         *)
(***************************************************************************)
EXTENDS StakeManager

Entry(w) == [credit |-> Owed(w), vault |-> w.balance]

Credits == INSTANCE Ledger WITH
  Holders <- Addr, Money <- Supply,
  credit <- Owed(world), vault <- world.balance,
  saved <- [i \in DOMAIN frames |-> Entry(frames[i])]

(***************************************************************************)
(* Every call of the contract does to the credits what the ledger allows:  *)
(* money leaves only out of the caller's own credit, what comes in is      *)
(* credited in full, locking and unlocking a stake moves nothing, and a    *)
(* recipient's revert restores every credit together with the balance.     *)
(***************************************************************************)
ImplementsLedger == Credits!Spec
============================================================================
