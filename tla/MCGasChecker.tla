---------------------------- MODULE MCGasChecker ----------------------------
(***************************************************************************)
(* One GasChecker with two tests of one or two accounts, while another     *)
(* process deploys the same account factory.                               *)
(***************************************************************************)
EXTENDS GasChecker

CONSTANTS g, o1, o2, o3

OtherCalls == {<<o1>>, <<o2>>, <<o3>>}

DeployCalls ==
  {InitDeploy(x) : x \in Callers} \cup {AccountsDeploy(t) : t \in Tests} \cup Others

(* Two of the other calls share an object. *)
ObjectOf == [c \in DeployCalls |-> IF c = <<o2>> THEN <<o1>> ELSE c]

ContractOf ==
  [c \in DeployCalls |-> CASE c[1] = "init" -> "EntryPoint" [] c = <<o3>> -> "Nothing"
                           [] OTHER -> "AccountFactory"]

(* The other calls are explored without the tests, and the tests without them. *)
Apart ==
  (\A x \in Callers : init'[x] = "no") \/ (\A c \in Others : at'[c] = "idle")

MCSpec == Init /\ [][Next /\ Apart]_vars /\ Fairness
=============================================================================
