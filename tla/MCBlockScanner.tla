---------------------------- MODULE MCBlockScanner ----------------------------
(***************************************************************************)
(* Constants for model checking the block scanner: t1 has an output to the *)
(* address bound later and one to both, t2 has one to the later address.   *)
(***************************************************************************)
EXTENDS BlockScanner, TLC

CONSTANTS t1, t2, a1, a2, BTC, SKY

MCTxs == {t1, t2}
MCAddresses == {a1, a2}
MCPays == (t1 :> {<<0, a2>>, <<1, a1>>, <<1, a2>>}) @@ (t2 :> {<<1, a2>>})
MCFirstAddresses == {a1}
MCCoinTypes == {BTC, SKY}
MCBitcoin == {BTC}
MCConfirmations == (BTC :> 1) @@ (SKY :> 0)
MCCountAhead == (BTC :> 0) @@ (SKY :> 1)
=============================================================================
