---------------------- MODULE DepositPipelineRefinement ----------------------
(***************************************************************************)
(* The deposit pipeline implements the ledger.  A deposit is seen once its *)
(* scanner has stored it, and credited once updateStatus has made it       *)
(* waiting_partial; the total is AmountDeposited.                          *)
(***************************************************************************)
EXTENDS DepositPipeline

Seen == {d \in Deposits : scanStatus[d] # "none"}

Credited == {d \in Deposits : status[d] = "waiting_partial"}

Ledger == INSTANCE DepositLedger
            WITH seen <- Seen, credited <- Credited, total <- amount

(* Across restarts: only deposits seen on a chain are credited, the row and *)
(* the amount change in one step, by exactly the value of the deposit, and  *)
(* no total is ever rolled back.                                            *)
LedgerAtLeastOnce == Ledger!AtLeastOnce

(* Within one run of the process a deposit is credited at most once, even   *)
(* when transactions fail.                                                  *)
LedgerAtMostOnce == Ledger!AtMostOnce
=============================================================================
