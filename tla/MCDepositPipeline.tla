-------------------------- MODULE MCDepositPipeline --------------------------
(***************************************************************************)
(* Constants for model checking the deposit pipeline: two deposits pay one *)
(* bitcoin address, one pays a skycoin address.                            *)
(***************************************************************************)
EXTENDS DepositPipelineRefinement

CONSTANTS d1, d2, d3, a1, a2, BTC, SKY

MCDeposits == {d1, d2, d3}
MCTwoDeposits == {d1, d3}
MCCoinTypes == {BTC, SKY}
MCOneScanner == {BTC}
MCAddresses == {a1, a2}
MCCoinType == [d \in Deposits |-> IF d = d3 THEN SKY ELSE BTC]
MCAddress == [d \in Deposits |-> IF d = d3 THEN a2 ELSE a1]

(* Counted once, d1 and d2 stay below the price of their kitty; counted     *)
(* again after a restart they reach it.                                     *)
MCValue == [d \in Deposits |-> IF d = d2 THEN 2 ELSE 1]
MCPrice == (a1 :> 4) @@ (a2 :> 2)

(* a2 is scanned but was never bound. *)
MCBoundFirst == {a1}

(* Only bitcoin has a scanner, and every deposit pays the same address. *)
MCOneCoin == [d \in Deposits |-> BTC]
MCOneAddress == [d \in Deposits |-> a1]

(* d1 and d2 together pay the price of their kitty exactly. *)
MCLowPrice == (a1 :> 3) @@ (a2 :> 2)
=============================================================================
