---------------------------- MODULE DepositLedger ----------------------------
(***************************************************************************)
(* What the deposit pipeline promises, without its goroutines: a ledger of *)
(* the deposits seen on the chains, of those credited, and of the amount   *)
(* credited to each address, which stays below the price of its kitty.     *)
(***************************************************************************)
EXTENDS Naturals

CONSTANTS Deposits, Addresses, Address, Value, Price

VARIABLES
    seen,       \* deposits found on a chain
    credited,   \* deposits credited to their address
    total       \* the amount credited to each address

ledgerVars == <<seen, credited, total>>

LedgerInit ==
    /\ seen = {}
    /\ credited = {}
    /\ total = [a \in Addresses |-> 0]

See(D) ==
    /\ D # {}
    /\ D \cap seen = {}
    /\ seen' = seen \cup D
    /\ UNCHANGED <<credited, total>>

(* Crediting a deposit and adding it to the total are one step. *)
Credit(d) ==
    /\ d \in seen
    /\ total[Address[d]] + Value[d] < Price[Address[d]]
    /\ credited' = credited \cup {d}
    /\ total' = [total EXCEPT ![Address[d]] = @ + Value[d]]
    /\ UNCHANGED seen

CreditNew(d) == d \notin credited /\ Credit(d)

(* A deposit may be credited again: what holds across restarts. *)
AtLeastOnceNext ==
    \/ \E D \in SUBSET Deposits : See(D)
    \/ \E d \in Deposits : Credit(d)

AtLeastOnce == LedgerInit /\ [][AtLeastOnceNext]_ledgerVars

(* A deposit is credited at most once: what holds within one run. *)
AtMostOnceNext ==
    \/ \E D \in SUBSET Deposits : See(D)
    \/ \E d \in Deposits : CreditNew(d)

AtMostOnce == LedgerInit /\ [][AtMostOnceNext]_ledgerVars
=============================================================================
