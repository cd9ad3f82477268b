----------------------------- MODULE MCAASigner -----------------------------
(***************************************************************************)
(* AASigner with two transactions, and with or without a call of           *)
(* connectAccountAddress at the same time.                                 *)
(***************************************************************************)
EXTENDS AASigner

CONSTANTS t1, t2, c1, r1, mine, other, none

OneTx == {t1}
TwoTxs == {t1, t2}
OneConnect == {c1}
OneRead == {r1}

(* connectAccountAddress and the reads are explored one at a time. *)
Apart == (\A c \in Connects : at'[c] = "called") \/ (\A c \in Reads : at'[c] = "called")

MCSpec == Init /\ [][Next /\ Apart]_vars /\ Fairness
===========================================================================
