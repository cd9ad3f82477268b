-------------------------- MODULE MCStakeManager --------------------------
(* StakeManager on two accounts, three wei and two delays. *)
EXTENDS StakeLedger, TLC

CONSTANTS alice, bob, ep

MCAddr == {alice, bob, ep}
Accounts == Permutations({alice, bob})

===========================================================================
