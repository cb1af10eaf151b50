------------------------------ MODULE MCSending ------------------------------
(***************************************************************************)
(* Constants for model checking Send: two sound waiting_confirm rows, one  *)
(* with a bad Txid, one that is refused, and a waiting_send row.           *)
(***************************************************************************)
EXTENDS Sending

CONSTANTS d1, d2, d3, d4, d5

MCDeposits == {d1, d2, d3, d4, d5}
MCInvalid == {d4}
MCBadTxid == {d3}
MCFirstStatus ==
    [d \in Deposits |-> IF d = d5 THEN "waiting_send" ELSE "waiting_confirm"]
=============================================================================
