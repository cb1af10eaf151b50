--------------------------- MODULE DepositPipeline ---------------------------
(***************************************************************************)
(* The path of a coin deposit through teller, from the block in which a    *)
(* scanner finds it to the row that says how much was paid for a kitty:    *)
(*                                                                         *)
(*   BaseScanner  --note-->  Multiplexer  --outChan-->  Receive            *)
(*       ^  \                                            /    \            *)
(*       |   DepositBkt                       DepositInfoBkt  deposits     *)
(*       +-------------- note.ErrC ----------------------+       \         *)
(*                                                               Buy       *)
(*                                                                |        *)
(*                                                      DepositTrackBkt    *)
(*                                                                         *)
(* One scanner per coin type; all of them share one DepositBkt.  Every     *)
(* goroutine of the code is a group of actions; every bolt transaction     *)
(* (db.Update) is one atomic step.  The bolt file survives Restart,        *)
(* channels and goroutines do not.                                         *)
(***************************************************************************)
EXTENDS Naturals, Sequences, FiniteSets, FiniteSetsExt, SequencesExt

CONSTANTS
    Deposits,       \* outputs paying a scanned address, named by Deposit.ID()
    CoinTypes,      \* the coin types with a scanner, "BTC" and "SKY"
    Addresses,      \* deposit addresses known to the scanners
    Bound,          \* the addresses that have a BoundAddress row
    CoinType,       \* the coin type of each deposit
    Address,        \* the address each deposit pays
    Value,          \* the amount of each deposit
    Price,          \* AmountRequired: the price of the kitty behind an address
    NoDeposit,      \* a goroutine that holds no deposit
    ScannedCap,     \* capacity of BaseScanner.scannedDeposits (100)
    OutCap,         \* capacity of Multiplexer.outChan (1000)
    DepositsCap,    \* capacity of Receive.deposits (100)
    MaxRestarts,    \* bound: how often the process stops and starts again
    MaxDbFailures   \* bound: how many bolt transactions fail to commit

ASSUME DepositsAssumption ==
    /\ NoDeposit \notin Deposits
    /\ Bound \subseteq Addresses
    /\ CoinType \in [Deposits -> CoinTypes]
    /\ Address \in [Deposits -> Addresses]
    /\ Value \in [Deposits -> Nat]
    /\ Price \in [Addresses -> Nat]

ASSUME CapacityAssumption ==
    /\ ScannedCap \in Nat \ {0}
    /\ OutCap \in Nat \ {0}
    /\ DepositsCap \in Nat \ {0}
    /\ MaxRestarts \in Nat
    /\ MaxDbFailures \in Nat

VARIABLES
    (* the bolt database *)
    scanStatus,     \* DepositBkt: the scanner's status of each deposit
    status,         \* DepositInfoBkt: the exchange's status of each deposit
    tracked,        \* DepositTrackBkt: the addresses that have a DepositTrack
    amount,         \* DepositTrackBkt: AmountDeposited of each address
    (* BaseScanner: the scan goroutine and the deposit pipe goroutine *)
    scanner,        \* "starting", "loading" unprocessed deposits, or "running"
    pending,        \* deposits the scan goroutine has yet to queue
    scanned,        \* the channel scannedDeposits
    pipe,           \* the deposit in processDeposit
    pipeStep,       \* where processDeposit is
    errC,           \* the answer on the ErrC of the note of pipe
    (* Multiplexer *)
    mux,            \* the deposit a scanner's forwarding goroutine holds
    outChan,        \* the aggregate channel of notes
    (* Receive and Buy *)
    resubmit,       \* waiting_decide deposits Receive.Run has yet to queue
    hold,           \* the deposit runReadMultiplexer has yet to queue
    deposits,       \* the channel Receive.deposits
    (* what was given up on in this run of the process, as the log says *)
    scanFailed,     \* processDeposit failed; reprocessed after a restart
    buyFailed,      \* updateStatus failed; reprocessed after a restart
    (* bounds *)
    restarts, dbFailures

dbVars == <<scanStatus, status, tracked, amount>>
scanVars == <<scanner, pending, scanned>>
pipeVars == <<pipe, pipeStep, errC, scanFailed>>
muxVars == <<mux, outChan>>
exchangeVars == <<resubmit, hold, deposits, buyFailed>>
boundVars == <<restarts, dbFailures>>
vars == <<dbVars, scanVars, pipeVars, muxVars, exchangeVars, boundVars>>

ScanStatuses == {"none", "not_processed", "accepted"}
Statuses == {"none", "waiting_decide", "waiting_partial", "waiting_send"}

(* A DepositNote; its ErrC is known to the scanner that made it alone. *)
Note == [scanner : CoinTypes, deposit : Deposits]

TypeOK ==
    /\ scanStatus \in [Deposits -> ScanStatuses]
    /\ status \in [Deposits -> Statuses]
    /\ tracked \subseteq Addresses
    /\ amount \in [Addresses -> Nat]
    /\ scanner \in [CoinTypes -> {"starting", "loading", "running"}]
    /\ pending \in [CoinTypes -> SUBSET Deposits]
    /\ scanned \in [CoinTypes -> Seq(Deposits)]
    /\ pipe \in [CoinTypes -> Deposits \cup {NoDeposit}]
    /\ pipeStep \in [CoinTypes -> {"idle", "send", "wait"}]
    /\ errC \in [CoinTypes -> {"empty", "nil", "error"}]
    /\ mux \in [CoinTypes -> Deposits \cup {NoDeposit}]
    /\ outChan \in Seq(Note)
    /\ resubmit \subseteq Deposits
    /\ hold \in Deposits \cup {NoDeposit}
    /\ deposits \in Seq(Deposits)
    /\ scanFailed \subseteq Deposits
    /\ buyFailed \subseteq Deposits
    /\ restarts \in 0..MaxRestarts
    /\ dbFailures \in 0..MaxDbFailures

------------------------------------------------------------------------------
(* BaseScanner *)

OfCoin(c) == {d \in Deposits : CoinType[d] = c}

(* A bolt transaction fails to commit and leaves the database as it was. *)
DbFailure ==
    /\ dbFailures < MaxDbFailures
    /\ dbFailures' = dbFailures + 1

(* scanBlock: one transaction stores every deposit D of a block that is not *)
(* stored yet; those are then queued one by one.                           *)
ScanBlock(c, D) ==
    /\ scanner[c] = "running"
    /\ pending[c] = {}
    /\ D # {}
    /\ D \subseteq {d \in OfCoin(c) : scanStatus[d] = "none"}
    /\ scanStatus' = [d \in Deposits |->
                        IF d \in D THEN "not_processed" ELSE scanStatus[d]]
    /\ pending' = [pending EXCEPT ![c] = D]
    /\ UNCHANGED <<status, tracked, amount, scanner, scanned,
                   pipeVars, muxVars, exchangeVars, boundVars>>

(* `scannedDeposits <- dv`, in loadUnprocessedDeposits and after a scan. *)
(* The order in which bolt or the block lists the deposits is left open. *)
QueueScanned(c, d) ==
    /\ d \in pending[c]
    /\ Len(scanned[c]) < ScannedCap
    /\ scanned' = [scanned EXCEPT ![c] = Append(@, d)]
    /\ pending' = [pending EXCEPT ![c] = @ \ {d}]
    /\ UNCHANGED <<dbVars, scanner, pipeVars, muxVars, exchangeVars, boundVars>>

(* loadUnprocessedDeposits reads GetUnprocessedDeposits, which lists the    *)
(* deposits of every coin type, whichever scanner asks.                    *)
LoadUnprocessed(c) ==
    /\ scanner[c] = "starting"
    /\ scanner' = [scanner EXCEPT ![c] = "loading"]
    /\ pending' = [pending EXCEPT ![c] =
                      {d \in Deposits : scanStatus[d] = "not_processed"}]
    /\ UNCHANGED <<dbVars, scanned, pipeVars, muxVars, exchangeVars, boundVars>>

(* loadUnprocessedDeposits returned: Run launches its two goroutines. *)
StartScanner(c) ==
    /\ scanner[c] = "loading"
    /\ pending[c] = {}
    /\ scanner' = [scanner EXCEPT ![c] = "running"]
    /\ UNCHANGED <<dbVars, pending, scanned, pipeVars, muxVars, exchangeVars,
                   boundVars>>

(* The pipe goroutine takes the next scanned deposit: processDeposit. *)
PipeTake(c) ==
    /\ scanner[c] = "running"
    /\ pipeStep[c] = "idle"
    /\ scanned[c] # <<>>
    /\ pipe' = [pipe EXCEPT ![c] = Head(scanned[c])]
    /\ pipeStep' = [pipeStep EXCEPT ![c] = "send"]
    /\ scanned' = [scanned EXCEPT ![c] = Tail(@)]
    /\ UNCHANGED <<dbVars, scanner, pending, errC, scanFailed, muxVars,
                   exchangeVars, boundVars>>

(* Mutant: the pipe goroutine does not wait for the answer. *)
PipeSend_NoWait(c) ==
    /\ pipeStep[c] = "send"
    /\ mux[c] = NoDeposit
    /\ mux' = [mux EXCEPT ![c] = pipe[c]]
    /\ pipeStep' = [pipeStep EXCEPT ![c] = "idle"]
    /\ UNCHANGED <<dbVars, scanVars, pipe, errC, scanFailed, outChan,
                   exchangeVars, boundVars>>

(* depositC is unbuffered: the pipe and the multiplexer's goroutine meet. *)
PipeSend(c) ==
    /\ pipeStep[c] = "send"
    /\ mux[c] = NoDeposit
    /\ mux' = [mux EXCEPT ![c] = pipe[c]]
    /\ pipeStep' = [pipeStep EXCEPT ![c] = "wait"]
    /\ UNCHANGED <<dbVars, scanVars, pipe, errC, scanFailed, outChan,
                   exchangeVars, boundVars>>

(* processDeposit ends and the pipe goroutine loops. *)
PipeDone(c) ==
    /\ pipeStep[c] = "wait"
    /\ errC' = [errC EXCEPT ![c] = "empty"]
    /\ pipe' = [pipe EXCEPT ![c] = NoDeposit]
    /\ pipeStep' = [pipeStep EXCEPT ![c] = "idle"]
    /\ UNCHANGED <<status, tracked, amount, scanVars, muxVars, exchangeVars,
                   restarts>>

(* SetDepositProcessed after a nil on ErrC. *)
PipeAccept(c) ==
    /\ errC[c] = "nil"
    /\ PipeDone(c)
    /\ scanStatus' = [scanStatus EXCEPT ![pipe[c]] = "accepted"]
    /\ UNCHANGED <<scanFailed, dbFailures>>

(* SetDepositProcessed fails: the deposit stays unprocessed. *)
PipeAcceptFails(c) ==
    /\ errC[c] = "nil"
    /\ DbFailure
    /\ PipeDone(c)
    /\ scanFailed' = scanFailed \cup {pipe[c]}
    /\ UNCHANGED scanStatus

(* Mutant: an error ends the pipe goroutine instead of being logged. *)
PipeReject_Stops(c) ==
    /\ errC[c] = "error"
    /\ errC' = [errC EXCEPT ![c] = "empty"]
    /\ scanFailed' = scanFailed \cup {pipe[c]}
    /\ UNCHANGED <<dbVars, scanVars, pipe, pipeStep, muxVars, exchangeVars,
                   boundVars>>

(* The exchange answered with an error: the deposit stays unprocessed. *)
PipeReject(c) ==
    /\ errC[c] = "error"
    /\ PipeDone(c)
    /\ scanFailed' = scanFailed \cup {pipe[c]}
    /\ UNCHANGED <<scanStatus, dbFailures>>

------------------------------------------------------------------------------
(* Multiplexer *)

(* Mutant: a forwarding goroutine with nothing received forwards as well. *)
Multiplex_Empty(c) ==
    /\ Len(outChan) < OutCap
    /\ outChan' = Append(outChan, [scanner |-> c, deposit |-> mux[c]])
    /\ mux' = [mux EXCEPT ![c] = NoDeposit]
    /\ UNCHANGED <<dbVars, scanVars, pipeVars, exchangeVars, boundVars>>

(* Mutant: the note is forwarded and kept. *)
Multiplex_Keeps(c) ==
    /\ mux[c] # NoDeposit
    /\ Len(outChan) < OutCap
    /\ outChan' = Append(outChan, [scanner |-> c, deposit |-> mux[c]])
    /\ UNCHANGED <<dbVars, scanVars, pipeVars, mux, exchangeVars, boundVars>>

(* `m.outChan <- dv` *)
Multiplex(c) ==
    /\ mux[c] # NoDeposit
    /\ Len(outChan) < OutCap
    /\ outChan' = Append(outChan, [scanner |-> c, deposit |-> mux[c]])
    /\ mux' = [mux EXCEPT ![c] = NoDeposit]
    /\ UNCHANGED <<dbVars, scanVars, pipeVars, exchangeVars, boundVars>>

------------------------------------------------------------------------------
(* Receive *)

(* Receive.Run queues the waiting_decide deposits it loaded; only then does *)
(* runReadMultiplexer start.                                               *)
QueueResubmitted(d) ==
    /\ d \in resubmit
    /\ Len(deposits) < DepositsCap
    /\ deposits' = Append(deposits, d)
    /\ resubmit' = resubmit \ {d}
    /\ UNCHANGED <<dbVars, scanVars, pipeVars, muxVars, hold, buyFailed,
                   boundVars>>

(* GetOrCreateDepositInfo returns the row there is, or creates one, which   *)
(* ValidateForStatus refuses for a zero value and getBindAddressTx for an   *)
(* address that is not bound.                                              *)
CanSave(d) ==
    \/ status[d] # "none"
    \/ Address[d] \in Bound /\ Value[d] # 0

(* runReadMultiplexer takes a note and answers on its ErrC.  Nothing tells  *)
(* taking the note, committing and answering apart: until the scanner acts  *)
(* on the answer, a stop leaves behind the database alone.                 *)
TakeNote(d, answer) ==
    /\ resubmit = {}
    /\ hold = NoDeposit
    /\ outChan # <<>>
    /\ d = Head(outChan).deposit
    /\ errC' = [errC EXCEPT ![Head(outChan).scanner] = answer]
    /\ outChan' = Tail(outChan)
    /\ UNCHANGED <<scanStatus, amount, scanVars, pipe, pipeStep, scanFailed,
                   mux, resubmit, deposits, buyFailed, restarts>>

(* Mutant: the saved deposit is not put on r.deposits. *)
ReceiveSave_NotForwarded(d) ==
    /\ CanSave(d)
    /\ TakeNote(d, "nil")
    /\ status' = [status EXCEPT ![d] = IF @ = "none" THEN "waiting_decide" ELSE @]
    /\ tracked' = tracked \cup {Address[d]}
    /\ UNCHANGED <<hold, dbFailures>>

(* saveIncomingDeposit succeeds; the deposit is then due on r.deposits. *)
ReceiveSave(d) ==
    /\ CanSave(d)
    /\ TakeNote(d, "nil")
    /\ status' = [status EXCEPT ![d] = IF @ = "none" THEN "waiting_decide" ELSE @]
    /\ tracked' = tracked \cup {Address[d]}
    /\ hold' = d
    /\ UNCHANGED dbFailures

(* Mutant: a failed save is answered with nil. *)
ReceiveFails_AnswersNil(d) ==
    /\ TakeNote(d, "nil")
    /\ \/ ~CanSave(d) /\ UNCHANGED dbFailures
       \/ CanSave(d) /\ DbFailure
    /\ UNCHANGED <<status, tracked, hold>>

(* saveIncomingDeposit fails: nothing is stored, the scanner is told. *)
ReceiveFails(d) ==
    /\ TakeNote(d, "error")
    /\ \/ ~CanSave(d) /\ UNCHANGED dbFailures
       \/ CanSave(d) /\ DbFailure
    /\ UNCHANGED <<status, tracked, hold>>

(* `r.deposits <- d` *)
ReceiveForward ==
    /\ hold # NoDeposit
    /\ Len(deposits) < DepositsCap
    /\ deposits' = Append(deposits, hold)
    /\ hold' = NoDeposit
    /\ UNCHANGED <<dbVars, scanVars, pipeVars, muxVars, resubmit, buyFailed,
                   boundVars>>

------------------------------------------------------------------------------
(* Buy *)

(* The callback of updateStatus stores the deposit as waiting_send under    *)
(* the key di.Txid once the price is reached.  Nothing ever sets Txid, bolt *)
(* refuses an empty key, and the error rolls the whole transaction back.    *)
CallbackFails(d) ==
    LET a == Address[d] IN
    a \notin tracked \/ amount[a] + Value[d] >= Price[a]

(* runUpdateStatus takes the next deposit. *)
BuyTake(d) ==
    /\ deposits # <<>>
    /\ d = Head(deposits)
    /\ deposits' = Tail(deposits)
    /\ UNCHANGED <<scanStatus, tracked, scanVars, pipeVars, muxVars, resubmit,
                   hold, restarts>>

(* Mutant: the amount of the last deposit replaces the sum. *)
BuyUpdate_Replaces(d) ==
    /\ BuyTake(d)
    /\ ~CallbackFails(d)
    /\ status' = [status EXCEPT ![d] = "waiting_partial"]
    /\ amount' = [amount EXCEPT ![Address[d]] = Value[d]]
    /\ UNCHANGED <<buyFailed, dbFailures>>

(* Mutant: the amount is added and the status left. *)
BuyUpdate_NoStatus(d) ==
    /\ BuyTake(d)
    /\ ~CallbackFails(d)
    /\ amount' = [amount EXCEPT ![Address[d]] = @ + Value[d]]
    /\ UNCHANGED <<status, buyFailed, dbFailures>>

(* updateStatus commits, whatever the status was before.  The status it     *)
(* returns is waiting_partial, so runUpdateStatus forwards nothing.         *)
BuyUpdate(d) ==
    /\ BuyTake(d)
    /\ ~CallbackFails(d)
    /\ status' = [status EXCEPT ![d] = "waiting_partial"]
    /\ amount' = [amount EXCEPT ![Address[d]] = @ + Value[d]]
    /\ UNCHANGED <<buyFailed, dbFailures>>

(* Mutant: the status is stored outside the transaction that failed. *)
BuyFails_KeepsStatus(d) ==
    /\ BuyTake(d)
    /\ \/ CallbackFails(d) /\ UNCHANGED dbFailures
       \/ ~CallbackFails(d) /\ DbFailure
    /\ status' = [status EXCEPT ![d] = "waiting_partial"]
    /\ buyFailed' = buyFailed \cup {d}
    /\ UNCHANGED amount

(* updateStatus fails: the deposit is dropped until the next restart. *)
BuyFails(d) ==
    /\ BuyTake(d)
    /\ \/ CallbackFails(d) /\ UNCHANGED dbFailures
       \/ ~CallbackFails(d) /\ DbFailure
    /\ buyFailed' = buyFailed \cup {d}
    /\ UNCHANGED <<status, amount>>

------------------------------------------------------------------------------
(* The process *)

(* Every scanner goroutine or channel that a start finds in the state v. *)
Each(v) == [c \in CoinTypes |-> v]

Init ==
    /\ scanStatus = [d \in Deposits |-> "none"]
    /\ status = [d \in Deposits |-> "none"]
    /\ tracked = {}
    /\ amount = [a \in Addresses |-> 0]
    /\ scanner = Each("starting") /\ pending = Each({}) /\ scanned = Each(<<>>)
    /\ pipe = Each(NoDeposit) /\ pipeStep = Each("idle") /\ errC = Each("empty")
    /\ mux = Each(NoDeposit) /\ outChan = <<>>
    /\ resubmit = {} /\ hold = NoDeposit /\ deposits = <<>>
    /\ scanFailed = {} /\ buyFailed = {}
    /\ restarts = 0 /\ dbFailures = 0

(* Mutant: Receive.Run does not load the waiting_decide rows. *)
Restart_NoResubmit ==
    /\ restarts < MaxRestarts
    /\ restarts' = restarts + 1
    /\ resubmit' = {}
    /\ scanner' = Each("starting") /\ pending' = Each({}) /\ scanned' = Each(<<>>)
    /\ pipe' = Each(NoDeposit) /\ pipeStep' = Each("idle") /\ errC' = Each("empty")
    /\ mux' = Each(NoDeposit) /\ outChan' = <<>>
    /\ hold' = NoDeposit /\ deposits' = <<>>
    /\ scanFailed' = {} /\ buyFailed' = {}
    /\ UNCHANGED <<dbVars, dbFailures>>

(* Mutant: Receive.Run loads the rows of every status. *)
Restart_ResubmitsAll ==
    /\ restarts < MaxRestarts
    /\ restarts' = restarts + 1
    /\ resubmit' = {d \in Deposits : status[d] # "none"}
    /\ scanner' = Each("starting") /\ pending' = Each({}) /\ scanned' = Each(<<>>)
    /\ pipe' = Each(NoDeposit) /\ pipeStep' = Each("idle") /\ errC' = Each("empty")
    /\ mux' = Each(NoDeposit) /\ outChan' = <<>>
    /\ hold' = NoDeposit /\ deposits' = <<>>
    /\ scanFailed' = {} /\ buyFailed' = {}
    /\ UNCHANGED <<dbVars, dbFailures>>

(* The process stops, by a crash or a shutdown, and is started again with   *)
(* empty channels.  Receive.Run loads the waiting_decide rows; nobody adds  *)
(* one before it has queued them all.                                      *)
Restart ==
    /\ restarts < MaxRestarts
    /\ restarts' = restarts + 1
    /\ resubmit' = {d \in Deposits : status[d] = "waiting_decide"}
    /\ scanner' = Each("starting") /\ pending' = Each({}) /\ scanned' = Each(<<>>)
    /\ pipe' = Each(NoDeposit) /\ pipeStep' = Each("idle") /\ errC' = Each("empty")
    /\ mux' = Each(NoDeposit) /\ outChan' = <<>>
    /\ hold' = NoDeposit /\ deposits' = <<>>
    /\ scanFailed' = {} /\ buyFailed' = {}
    /\ UNCHANGED <<dbVars, dbFailures>>

Scan(c) ==
    \/ LoadUnprocessed(c) \/ StartScanner(c)
    \/ \E d \in pending[c] : QueueScanned(c, d)

Pipe(c) ==
    \/ PipeTake(c) \/ PipeSend(c)
    \/ PipeAccept(c) \/ PipeAcceptFails(c) \/ PipeReject(c)

ReceiveStep ==
    \/ \E d \in Deposits : QueueResubmitted(d) \/ ReceiveSave(d) \/ ReceiveFails(d)
    \/ ReceiveForward

BuyStep == \E d \in Deposits : BuyUpdate(d) \/ BuyFails(d)

(* What the goroutines do when no block arrives and nothing stops them. *)
GoroutineStep ==
    \/ \E c \in CoinTypes : Scan(c) \/ Pipe(c) \/ Multiplex(c)
    \/ ReceiveStep
    \/ BuyStep

Next ==
    \/ \E c \in CoinTypes : \/ \E D \in SUBSET OfCoin(c) : ScanBlock(c, D)
                            \/ Scan(c)
                            \/ Pipe(c)
                            \/ Multiplex(c)
    \/ ReceiveStep
    \/ BuyStep
    \/ Restart

Spec == Init /\ [][Next]_vars

(* Every goroutine keeps running; blocks, restarts and failing transactions *)
(* are owed to nobody.                                                     *)
Fairness ==
    /\ \A c \in CoinTypes : /\ WF_vars(Scan(c))
                            /\ WF_vars(Pipe(c))
                            /\ WF_vars(Multiplex(c))
    /\ WF_vars(ReceiveStep)
    /\ WF_vars(BuyStep)

FairSpec == Spec /\ Fairness

------------------------------------------------------------------------------
(* Properties *)

(* What the goroutines of a scanner, and of the exchange, have in hand. *)
InScanner(c) == pending[c] \cup ToSet(scanned[c]) \cup ({pipe[c]} \ {NoDeposit})

InExchange == resubmit \cup ToSet(deposits) \cup ({hold} \ {NoDeposit})

(* The three places the note of the deposit in processDeposit can be. *)
HeldByMux(c) == mux[c] # NoDeposit
InOutChan(c) == \E i \in DOMAIN outChan : outChan[i].scanner = c
Answered(c) == errC[c] # "empty"

Counted(a) == {d \in Deposits : Address[d] = a /\ status[d] = "waiting_partial"}

CountedValue(a) == MapThenSumSet(LAMBDA d : Value[d], Counted(a))

(* A deposit the scanner has marked accepted, and so never sends again, has *)
(* a DepositInfo row: no crash between the two databases' writes loses it.  *)
(* About the order of saveIncomingDeposit, ErrC and SetDepositProcessed.    *)
AcceptedIsSaved ==
    \A d \in Deposits : scanStatus[d] = "accepted" => status[d] # "none"

(* A stored deposit with work left to do is in the hands of exactly the     *)
(* goroutines that will do it, or was given up on with a log message that   *)
(* promises a retry after a restart: no deposit stalls in silence.          *)
NoneForgotten ==
    \A d \in Deposits :
        /\ scanStatus[d] = "not_processed" /\ scanner[CoinType[d]] # "starting" =>
               d \in InScanner(CoinType[d]) \cup scanFailed
        /\ status[d] = "waiting_decide" => d \in InExchange \cup buyFailed

(* The answer a scanner waits for is on its way exactly once: its note is   *)
(* held by the multiplexer, or is in outChan, or was answered.  So no note  *)
(* is answered twice (ErrC has room for one answer), no answer reaches      *)
(* another deposit, and outChan holds at most one note of each scanner.     *)
OneNotePerScanner ==
    /\ \A c \in CoinTypes :
        /\ pipeStep[c] = "wait" <=> HeldByMux(c) \/ InOutChan(c) \/ Answered(c)
        /\ ~ (HeldByMux(c) /\ InOutChan(c))
        /\ ~ (HeldByMux(c) /\ Answered(c))
        /\ ~ (InOutChan(c) /\ Answered(c))
        /\ HeldByMux(c) => mux[c] = pipe[c]
    /\ \A i \in DOMAIN outChan : outChan[i].deposit = pipe[outChan[i].scanner]
    /\ \A i, j \in DOMAIN outChan :
          outChan[i].scanner = outChan[j].scanner => i = j

(* AmountDeposited is never less than the deposits that count towards it,   *)
(* whatever the restarts and failed transactions of updateStatus.           *)
NeverUnderCounted == \A a \in Addresses : amount[a] >= CountedValue(a)

(* AmountDeposited is the sum of the deposits of the address that count     *)
(* (deposit.go:95).  It holds as long as there is one scanner and the       *)
(* process is never restarted.                                              *)
AmountIsCountedValue == \A a \in Addresses : amount[a] = CountedValue(a)

(* A deposit that is accepted, counted, and in nobody's hands. *)
Settled(d) ==
    /\ scanStatus[d] = "accepted" /\ status[d] = "waiting_partial"
    /\ d \notin InExchange
    /\ \A c \in CoinTypes : d \notin InScanner(c)

(* Such a deposit never enters the pipeline again, so that whatever is      *)
(* restarted, loaded or rescanned it is not counted again: a deposit is     *)
(* counted twice only while some goroutine has yet to finish with it.       *)
SettledStays == [][\A d \in Deposits : Settled(d) => Settled(d)']_vars

(* How many more steps the goroutines have before them at most: what each   *)
(* deposit in hand has yet to go through, and what a scanner that starts    *)
(* may load.                                                               *)
ToStart(c) ==
    CASE scanner[c] = "starting" -> 9 * Cardinality(Deposits) + 2
      [] scanner[c] = "loading" -> 1
      [] scanner[c] = "running" -> 0

ToSend(c) ==
    CASE pipeStep[c] = "send" -> 7
      [] pipeStep[c] = "wait" -> 1
      [] pipeStep[c] = "idle" -> 0

ToForward(c) == IF HeldByMux(c) THEN 5 ELSE 0

ScannerWork(c) ==
    ToStart(c) + 9 * Cardinality(pending[c]) + 8 * Len(scanned[c]) + ToSend(c) + ToForward(c)

ToQueue == IF hold = NoDeposit THEN 0 ELSE 3

ExchangeWork ==
    4 * Len(outChan) + 3 * Cardinality(resubmit) + ToQueue + 2 * Len(deposits)

Work == SumFunction([c \in CoinTypes |-> ScannerWork(c)]) + ExchangeWork

(* Without new blocks and restarts the goroutines come to an end: none of   *)
(* them takes a deposit it has been through before, nor sends one twice.    *)
EveryStepIsProgress == [][GoroutineStep => Work' < Work]_vars

(* The guards of the goroutines. *)
ScannerCanMove(c) ==
    \/ scanner[c] = "starting"
    \/ scanner[c] = "loading" /\ pending[c] = {}
    \/ pending[c] # {} /\ Len(scanned[c]) < ScannedCap
    \/ scanner[c] = "running" /\ pipeStep[c] = "idle" /\ scanned[c] # <<>>
    \/ pipeStep[c] = "send" /\ ~HeldByMux(c)
    \/ pipeStep[c] = "wait" /\ Answered(c)
    \/ HeldByMux(c) /\ Len(outChan) < OutCap

ExchangeCanMove ==
    \/ resubmit # {} /\ Len(deposits) < DepositsCap
    \/ hold # NoDeposit /\ Len(deposits) < DepositsCap
    \/ resubmit = {} /\ hold = NoDeposit /\ outChan # <<>>
    \/ deposits # <<>>

(* A scanner loads what its channel cannot hold, with no reader started. *)
StuckLoading(c) ==
    scanner[c] = "loading" /\ pending[c] # {} /\ Len(scanned[c]) >= ScannedCap

(* A deposit that is neither decided nor given up on in the log. *)
Undecided(d) ==
    \/ scanStatus[d] = "not_processed" /\ d \notin scanFailed /\ ~StuckLoading(CoinType[d])
    \/ status[d] = "waiting_decide" /\ d \notin buyFailed

(* The goroutines never all wait for one another, however small their       *)
(* channels: while a deposit is undecided one of them can go on, unless all *)
(* such deposits are of scanners that are stuck at their start.             *)
NobodyBlocked ==
    (\E d \in Deposits : Undecided(d)) =>
        ExchangeCanMove \/ \E c \in CoinTypes : ScannerCanMove(c)

(* Every deposit a scanner stored is in the end accepted, and every one the *)
(* exchange saved is counted, or the failure is logged: scanners,           *)
(* multiplexer, Receive and Buy never block one another.                    *)
EveryDepositSettles ==
    \A d \in Deposits :
        /\ scanStatus[d] = "not_processed" ~>
               scanStatus[d] = "accepted" \/ d \in scanFailed
        /\ status[d] = "waiting_decide" ~>
               status[d] = "waiting_partial" \/ d \in buyFailed

(* A deposit that completes the price of its kitty goes on to the sender.   *)
(* Stated by integration-testing.md and the comments of Buy; it is false.   *)
CompletingDepositIsSent ==
    \A d \in Deposits :
        (status[d] = "waiting_decide" /\ amount[Address[d]] + Value[d] >= Price[Address[d]])
            ~> status[d] = "waiting_send"
=============================================================================
