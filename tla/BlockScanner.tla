----------------------------- MODULE BlockScanner -----------------------------
(***************************************************************************)
(* A block scanner walking along its chain: BaseScanner.Run with the       *)
(* functions of BTCScanner or SKYScanner, the node it asks, and the        *)
(* deposits it stores.                                                     *)
(*                                                                         *)
(* A block commits to its parent, so a block is the sequence of headers    *)
(* up to it: its height is its length, and it is on the chain when it is   *)
(* a prefix of the node's best block.  The node answers every question     *)
(* from the chain it has at that moment; the scanner keeps what it was     *)
(* answered, and the chain may be reorganised meanwhile.                   *)
(*                                                                         *)
(* Waiting, and a call that fails and is tried again, change nothing and   *)
(* are stuttering steps.  What a scan finds is queued for the exchange by  *)
(* QueueScanned of DepositPipeline.                                        *)
(***************************************************************************)
EXTENDS Naturals, Sequences

CONSTANTS
    Txs,            \* transactions that pay deposit addresses
    Addresses,      \* deposit addresses
    Pays,           \* the outputs of each transaction: index and address
    FirstAddresses, \* the addresses scanned from the first start on
    CoinTypes,      \* the coin types to choose the scanner from
    Forking,        \* the coin types whose chain may be reorganised
    ByHash,         \* the coin types whose next block is found by NextHash: BTC
    Confirmations,  \* ConfirmationsRequired of each coin type; SKY passes none
    CountAhead,     \* GetBlockCount less the best height: 0 for BTC, 1 for SKY
    InitialHeight,  \* InitialScanHeight
    MaxHeight,      \* bound: how long the chain grows
    MaxForks,       \* bound: how often the chain is reorganised
    MaxRestarts     \* bound: how often the process stops and starts again

ASSUME ScannerAssumption ==
    /\ Pays \in [Txs -> SUBSET (Nat \X Addresses)]
    /\ FirstAddresses \subseteq Addresses
    /\ Forking \subseteq ByHash
    /\ Confirmations \in [CoinTypes -> Nat]
    /\ CountAhead \in [CoinTypes -> Nat]
    /\ InitialHeight \in Nat \ {0}

ASSUME ScannerBounds ==
    /\ MaxHeight \in Nat
    /\ MaxForks \in Nat
    /\ MaxRestarts \in Nat

VARIABLES
    coin,       \* the coin type of this scanner
    (* the node *)
    chain,      \* its best block
    forks,      \* how often the chain was reorganised
    (* the bolt database *)
    scanAddrs,  \* deposit_addresses in the scan_meta bucket of the coin type
    found,      \* the rows of DepositBkt
    (* the scan goroutine *)
    step,       \* where it is
    block,      \* the block in hand
    next,       \* its NextHash, <<>> while the node has not set it
    passed,     \* the blocks scanned in this run, with the addresses looked for
    (* bound *)
    restarts

nodeVars == <<chain, forks>>
dbVars == <<scanAddrs, found>>
scanVars == <<step, block, next, passed>>
vars == <<coin, nodeVars, dbVars, scanVars, restarts>>

(* A header: what the block adds, and a nonce that tells blocks apart.      *)
Header == [txs : SUBSET Txs, nonce : Nat]
Block == Seq(Header)

(* A Deposit: its transaction and the index N it records, which are its     *)
(* key, its address and its height; and the output whose Value it holds.    *)
Row == [tx : Txs, n : Nat, vout : Nat, addr : Addresses, height : Nat]

TypeOK ==
    /\ coin \in CoinTypes
    /\ chain \in Block /\ chain # <<>>
    /\ forks \in Nat
    /\ scanAddrs \subseteq Addresses
    /\ found \subseteq Row
    /\ step \in {"start", "scan", "next", "stopped", "crashed"}
    /\ block \in Block
    /\ next \in Block
    /\ passed \subseteq [block : Block, addrs : SUBSET Addresses]
    /\ restarts \in Nat

-----------------------------------------------------------------------------
(* The node *)

Height(b) == Len(b)

OnChain(b) ==
    /\ Len(b) <= Len(chain)
    /\ \A i \in 1..Len(b) : b[i] = chain[i]

BlockAt(h) == SubSeq(chain, 1, h)

(* Each transaction is in a chain once.                                     *)
Mined(b) == UNION {b[i].txs : i \in DOMAIN b}

Mine(T) ==
    /\ Len(chain) < MaxHeight
    /\ T \cap Mined(chain) = {}
    /\ chain' = Append(chain, [txs |-> T, nonce |-> forks])
    /\ UNCHANGED <<coin, forks, dbVars, scanVars, restarts>>

(* The blocks above height h give way to a branch that is longer by one;    *)
(* what they held is mined again, above them, or not at all.                *)
Reorganise(h, T) ==
    /\ coin \in Forking
    /\ forks < MaxForks
    /\ h \in 1..(Len(chain) - 1)
    /\ Len(chain) < MaxHeight
    /\ T \cap Mined(BlockAt(h)) = {}
    /\ forks' = forks + 1
    /\ chain' = BlockAt(h) \o
                [i \in 1..(Len(chain) - h + 1) |->
                    [txs |-> IF i = 1 THEN T ELSE {}, nonce |-> forks']]
    /\ UNCHANGED <<coin, dbVars, scanVars, restarts>>

(* GetBlockCount                                                            *)
BestHeight == Len(chain) + CountAhead[coin]

(* NextHash of a block, as the node answers now: only a block on the chain  *)
(* has one.  The conversion of a SKY block sets none.                       *)
NextOf(b) ==
    IF coin \in ByHash /\ OnChain(b) /\ Len(b) < Len(chain)
    THEN BlockAt(Len(b) + 1) ELSE <<>>

-----------------------------------------------------------------------------
(* BaseScanner.Run *)

(* The initial block is read once; the scan goroutine starts with it.       *)
LoadInitialBlock ==
    /\ step = "start"
    /\ InitialHeight <= Len(chain)
    /\ block' = BlockAt(InitialHeight)
    /\ next' = NextOf(BlockAt(InitialHeight))
    /\ step' = "scan"
    /\ UNCHANGED <<coin, nodeVars, dbVars, passed, restarts>>

(* The node does not answer, or has no such block: Run returns the error,   *)
(* and the process shuts down.                                              *)
LoadFails ==
    /\ step = "start"
    /\ step' = "stopped"
    /\ UNCHANGED <<coin, nodeVars, dbVars, block, next, passed, restarts>>

(* Mutant: the confirmations required are not added.                        *)
Confirmed_None(b) == Height(b) <= BestHeight

(* "If not enough confirmations exist for this block, wait"                 *)
Confirmed(b) == Height(b) + Confirmations[coin] <= BestHeight

(* The index N that the conversion of a block gives to an output: neither   *)
(* btcBlock2CommonBlock nor skyBlock2CommonBlock sets it.                   *)
IndexOf(vout) == 0

(* pushDepositTx looks for the key Tx:N of a deposit.                       *)
Stored(t, n) == \E r \in found : r.tx = t /\ r.n = n

SameKey(q, r) == q.tx = r.tx /\ q.n = r.n

(* Mutant: the row takes the list of addresses of the output, not the one   *)
(* that matched.                                                            *)
Outputs_List(b) ==
    UNION {{[tx |-> t, n |-> IndexOf(o[1]), vout |-> o[1],
             addr |-> {p[2] : p \in {q \in Pays[t] : q[1] = o[1]}},
             height |-> Height(b)] : o \in {p \in Pays[t] : p[2] \in scanAddrs}} :
              t \in b[Len(b)].txs}

(* scanSpecifiedBlock: a deposit for each scanned address of each output.   *)
Outputs(b) ==
    UNION {{[tx |-> t, n |-> IndexOf(o[1]), vout |-> o[1], addr |-> o[2],
             height |-> Height(b)] : o \in {p \in Pays[t] : p[2] \in scanAddrs}} :
              t \in b[Len(b)].txs}

(* Mutant: pushDepositTx does not look whether the key is there.            *)
NewRows_NoKeyCheck(b, R) ==
    /\ R \subseteq Outputs(b)
    /\ \A r \in Outputs(b) : \E q \in R : SameKey(q, r)
    /\ \A q, r \in R : SameKey(q, r) => q = r

(* Mutant: a deposit that exists ends the loop over the block's deposits.   *)
NewRows_ReturnOnExisting(b, R) ==
    /\ R \subseteq Outputs(b)
    /\ \A r \in R : ~Stored(r.tx, r.n)
    /\ \A r \in Outputs(b) :
          (\A q \in Outputs(b) : ~Stored(q.tx, q.n)) => \E q \in R : SameKey(q, r)
    /\ \A q, r \in R : SameKey(q, r) => q = r

(* pushDepositTx for each of them, in the order of the outputs: the first   *)
(* deposit of each key that is not stored yet.  The order of the addresses  *)
(* of one output is left open.                                              *)
NewRows(b, R) ==
    /\ R \subseteq Outputs(b)
    /\ \A r \in R : /\ ~Stored(r.tx, r.n)
                    /\ \A q \in Outputs(b) : SameKey(q, r) => r.vout <= q.vout
    /\ \A r \in Outputs(b) : ~Stored(r.tx, r.n) => \E q \in R : SameKey(q, r)
    /\ \A q, r \in R : SameKey(q, r) => q = r

(* One round of the scan loop, from the check of the confirmations to the   *)
(* end of scanBlock, whose deposits are stored in one transaction.          *)
ScanBlock ==
    /\ step = "scan"
    /\ Confirmed(block)
    /\ \E R \in SUBSET Outputs(block) : NewRows(block, R) /\ found' = found \cup R
    /\ passed' = passed \cup {[block |-> block, addrs |-> scanAddrs]}
    /\ step' = "next"
    /\ UNCHANGED <<coin, nodeVars, scanAddrs, block, next, restarts>>

-----------------------------------------------------------------------------
(* waitForNextBlock *)

(* BTC: the block is asked for again until it has a NextHash.               *)
Refetch ==
    /\ step = "next"
    /\ coin \in ByHash
    /\ next = <<>>
    /\ NextOf(block) # <<>>
    /\ next' = NextOf(block)
    /\ UNCHANGED <<coin, nodeVars, dbVars, step, block, passed, restarts>>

(* BTC: the block that was asked for again comes without its transactions,  *)
(* and waitForNextBlock returns nil and an error.  Run logs it, waits, and  *)
(* goes round with the nil block.                                           *)
RefetchFails ==
    /\ step = "next"
    /\ coin \in ByHash
    /\ next = <<>>
    /\ NextOf(block) # <<>>
    /\ step' = "crashed"
    /\ UNCHANGED <<coin, nodeVars, dbVars, block, next, passed, restarts>>

(* Mutant: the cached NextHash is not used, the tip is scanned next.        *)
NextByHash_Tip ==
    /\ step = "next"
    /\ coin \in ByHash
    /\ next # <<>>
    /\ block' = chain
    /\ next' = <<>>
    /\ step' = "scan"
    /\ UNCHANGED <<coin, nodeVars, dbVars, passed, restarts>>

(* BTC: getNextBlock, by a NextHash that may have been read long ago.       *)
NextByHash ==
    /\ step = "next"
    /\ coin \in ByHash
    /\ next # <<>>
    /\ block' = next
    /\ next' = NextOf(next)
    /\ step' = "scan"
    /\ UNCHANGED <<coin, nodeVars, dbVars, passed, restarts>>

(* Mutant: getNextBlock is called with the height after the next one.       *)
NextByHeight_Skips ==
    /\ step = "next"
    /\ coin \notin ByHash
    /\ Height(block) + 2 <= Len(chain)
    /\ block' = BlockAt(Height(block) + 2)
    /\ step' = "scan"
    /\ UNCHANGED <<coin, nodeVars, dbVars, next, passed, restarts>>

(* SKY: getNextBlock, by the height after that of the block in hand.        *)
NextByHeight ==
    /\ step = "next"
    /\ coin \notin ByHash
    /\ Height(block) + 1 <= Len(chain)
    /\ block' = BlockAt(Height(block) + 1)
    /\ step' = "scan"
    /\ UNCHANGED <<coin, nodeVars, dbVars, next, passed, restarts>>

-----------------------------------------------------------------------------
(* AddScanAddress, called when an address is bound. *)
AddScanAddress(a) ==
    /\ a \notin scanAddrs
    /\ scanAddrs' = scanAddrs \cup {a}
    /\ UNCHANGED <<coin, nodeVars, found, scanVars, restarts>>

Init ==
    /\ coin \in CoinTypes
    /\ \E T \in SUBSET Txs : chain = <<[txs |-> T, nonce |-> 0]>>
    /\ forks = 0
    /\ scanAddrs = FirstAddresses
    /\ found = {}
    /\ step = "start"
    /\ block = <<>> /\ next = <<>> /\ passed = {}
    /\ restarts = 0

(* Only the database is left of the last run: the height reached is not     *)
(* stored, and every block is scanned again.                                *)
Restart ==
    /\ restarts < MaxRestarts
    /\ restarts' = restarts + 1
    /\ step' = "start"
    /\ block' = <<>> /\ next' = <<>> /\ passed' = {}
    /\ UNCHANGED <<coin, nodeVars, dbVars>>

Scan == LoadInitialBlock \/ ScanBlock \/ Refetch \/ NextByHash \/ NextByHeight

Next ==
    \/ Scan
    \/ LoadFails
    \/ RefetchFails
    \/ \E T \in SUBSET Txs : Mine(T) \/ \E h \in 1..MaxHeight : Reorganise(h, T)
    \/ \E a \in Addresses : AddScanAddress(a)
    \/ Restart

Spec == Init /\ [][Next]_vars

(* The scan goroutine runs, and a node that is asked again and again        *)
(* answers in the end; blocks, addresses, failures and restarts are owed to *)
(* nobody.                                                                  *)
FairSpec == Spec /\ WF_vars(Scan)

-----------------------------------------------------------------------------
(* Properties *)

(* An output is a deposit once: whichever of its addresses is met first and *)
(* however often its block is scanned again, after a restart or in another  *)
(* block after a reorganisation.                                            *)
NoneFoundTwice == \A q, r \in found : q.tx = r.tx /\ q.vout = r.vout => q = r

(* A block the scanner has passed hides no output to an address that was    *)
(* scanned then, whatever else the block held and whatever was stored       *)
(* before: there is a row under its key.  As long as IndexOf does not tell  *)
(* the outputs of a transaction apart, that row may be of another of them.  *)
PassedIsFound ==
    \A p \in passed : \A t \in p.block[Len(p.block)].txs : \A o \in Pays[t] :
        o[2] \in p.addrs => Stored(t, IndexOf(o[1]))

(* A scanner whose block is on the chain has scanned every block below it   *)
(* from InitialScanHeight on in this run, reorganised or not: retries,      *)
(* refetches and a NextHash that was read earlier leave no gap.             *)
NoBlockSkipped ==
    step \in {"scan", "next"} /\ OnChain(block) =>
        \A h \in InitialHeight..(Height(block) - 1) :
            \E p \in passed : p.block = BlockAt(h)

(* Nothing is stored before the chain is ConfirmationsRequired longer than  *)
(* the height of its block.                                                 *)
FoundWasConfirmed == \A r \in found : r.height + Confirmations[coin] <= BestHeight

(* While the chain is not reorganised a deposit is a payment on the chain,  *)
(* at the height that is recorded.  A reorganisation breaks it even within  *)
(* the confirmations required: they are counted by height, for a block read *)
(* before they existed.                                                     *)
FoundIsPaid ==
    forks = 0 => \A r \in found : /\ r.tx \in chain[r.height].txs
                                  /\ <<r.vout, r.addr>> \in Pays[r.tx]
                                  /\ r.addr \in scanAddrs

(* What is stored is true: not stored early, and a payment that was made.   *)
FoundIsTrue == FoundWasConfirmed /\ FoundIsPaid

(* An output on the chain, with its confirmations, to an address scanned    *)
(* from the start.                                                          *)
Payment(t, o) ==
    /\ o[2] \in FirstAddresses
    /\ \E h \in InitialHeight..Len(chain) :
          t \in chain[h].txs /\ h + Confirmations[coin] <= BestHeight

(* There is a row under the key of such an output in the end, unless it     *)
(* leaves the chain again, the scanner has failed, or it holds a block that *)
(* left the chain.  The last two end with a restart only.                   *)
ConfirmedIsFound ==
    \A t \in Txs : \A o \in Pays[t] :
        Payment(t, o) ~> \/ Stored(t, IndexOf(o[1]))
                         \/ ~Payment(t, o)
                         \/ step \in {"stopped", "crashed"}
                         \/ ~OnChain(block)
=============================================================================
