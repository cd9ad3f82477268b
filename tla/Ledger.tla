------------------------------- MODULE Ledger -------------------------------
(***************************************************************************)
(* What a StakeManager promises, without deposits, stakes and delays: each *)
(* address has a credit with the contract, money comes in for a credit and *)
(* goes out of one, never more than it has, and while money is paid out    *)
(* its recipient may do all this again before it takes the money or sends  *)
(* the ledger back to where it was.                                        *)
(***************************************************************************)
EXTENDS Integers, Sequences

CONSTANTS
  Holders,  \* who may have credit
  Money     \* all there is

VARIABLES
  credit,  \* of each holder
  vault,   \* the money that is in
  saved    \* the ledgers that the open payments may go back to

ledger == <<credit, vault, saved>>

Init == credit = [a \in Holders |-> 0] /\ vault = 0 /\ saved = <<>>

PayIn(a, v) ==
  /\ credit' = [credit EXCEPT ![a] = @ + v]
  /\ vault' = vault + v
  /\ UNCHANGED saved

PayOut(a, v) ==
  /\ credit' = [credit EXCEPT ![a] = @ - v]
  /\ vault' = vault - v
  /\ saved' = Append(saved, [credit |-> credit, vault |-> vault])

Transfer(a, b, v) ==
  /\ credit' = [credit EXCEPT ![a] = @ - v, ![b] = @ + v]
  /\ UNCHANGED <<vault, saved>>

Taken ==
  /\ saved # <<>>
  /\ saved' = SubSeq(saved, 1, Len(saved) - 1)
  /\ UNCHANGED <<credit, vault>>

SentBack ==
  /\ saved # <<>>
  /\ credit' = saved[Len(saved)].credit /\ vault' = saved[Len(saved)].vault
  /\ saved' = SubSeq(saved, 1, Len(saved) - 1)

Next ==
  \/ \E a \in Holders : \E v \in 0..(Money - vault) : PayIn(a, v)
  \/ \E a \in Holders : \E v \in 0..credit[a] : PayOut(a, v)
  \/ \E a, b \in Holders : \E v \in 0..credit[a] : Transfer(a, b, v)
  \/ Taken \/ SentBack

Spec == Init /\ [][Next]_ledger
=============================================================================
