# Teller, specified

A TLA+ specification of kittycash/teller, the service that sells kitty boxes
for BTC and SKY. A user reserves a kitty over HTTP and gets a deposit address;
scanners watch the chains for payments to that address; the exchange adds the
payments up and hands the kitty over once its price is paid.

## The system

| part | source | state it keeps | operations |
|---|---|---|---|
| block scanners | `scanner/btc.go`, `sky.go`, `base_scanner.go` | height reached (memory), `DepositBkt` and the scan addresses (bolt) | scan a block, wait for the next one, load unprocessed deposits |
| deposit pipe | `scanner/base_scanner.go` | `scannedDeposits`, the note in flight | `processDeposit`: send a note, wait on its `ErrC`, `SetDepositProcessed` |
| multiplexer | `scanner/multiplexer.go` | `outChan`, the scanner map | one forwarding goroutine per scanner, `AddScanAddress` |
| Receive | `exchange/receiver.go` | `DepositInfoBkt`, `deposits` | save a deposit, answer on `ErrC`, resubmit `waiting_decide`, bind an address |
| Buy | `exchange/buy.go` | `DepositTrackBkt` | `updateStatus`: add the amount, set the status |
| Send, SendService | `exchange/send.go`, `sender/` | `depositChan`, request channels | drive `waiting_send` and `waiting_confirm` deposits |
| teller | `teller/` | one bolt transaction per request | `MakeReservationHandler`, `BindAddressTx` |
| agent | `agent/` | reservations and users, in memory and in bolt | reserve, change status, verify a user |
| address pool | `addrs/` | unused addresses in memory, used ones in bolt | `NewAddressWithTx`, `Remaining` |
| lifecycle | `cmd/teller/teller.go`, `exchange/exchange.go` | goroutines, quit and done channels | start-up order, shutdown order |
| configuration, HTTP server | `config/config.go`, `teller/http.go` | the settings | `Validate`, what to listen on and with which certificate |
| monitor | `monitor/` | `ln` | start, shutdown, reports |
| tools | `cmd/` | none | offline scans and repairs, a mock btcd |

| part | modules | proofs |
|---|---|---|
| deposit pipe, multiplexer, Receive, Buy | `DepositPipeline`, implementing `DepositLedger` | `DepositPipelineProofs`, `AmountProofs`, `PipelineProgressProofs`, on `SumTheorems` |
| teller, agent, address pool | `Reservation`, implementing `KittySale` | `ReservationProofs` |
| block scanners | `BlockScanner` | `BlockScannerProofs` |
| Send, SendService | `Sending` | `SendingProofs` |
| lifecycle, configuration, HTTP server, monitor | `Lifecycle`, which extends `Configuration` | `LifecycleProofs` |

Each has an `MC` module with its constants. The modules cut the system where the
code does: at a channel, at a bolt transaction, or at a goroutine's start and end.
`BlockScanner` ends at the row that `DepositPipeline` begins with, `Sending` begins
with the rows that Buy would leave, and `Lifecycle` runs all the goroutines with
their work left out.

The parts meet in three ways: through channels (scanner to multiplexer to
Receive to Buy to Send, with the answer coming back on `ErrC`), through one bolt
database with a single writer, and, in the request handler, through direct
calls made while that handler holds the writer.

What is hard about it: every goroutine can stop between any two writes; the same
deposit is stored three times (`DepositBkt`, `DepositInfoBkt`, `DepositTrackBkt`)
in separate transactions; both scanners share one `DepositBkt`; channels are
bounded and are filled before their readers start; a request changes memory
before the transaction that should justify the change commits.

## The deposit pipeline

`DepositPipeline` models a deposit from the block it is found in to the row that
counts it. There is one group of actions per goroutine:

| code | actions |
|---|---|
| scan goroutine | `LoadUnprocessed`, `QueueScanned`, `StartScanner`, `ScanBlock` |
| deposit pipe goroutine | `PipeTake`, `PipeSend`, `PipeAccept`, `PipeAcceptFails`, `PipeReject` |
| `Multiplexer.Multiplex` | `Multiplex` |
| `Receive` | `QueueResubmitted`, `ReceiveSave`, `ReceiveFails`, `ReceiveForward` |
| `Buy` | `BuyUpdate`, `BuyFails` |
| stop and start | `Restart` |

A `db.Update` is one step; one that fails to commit (`DbFailure`) leaves the
database alone. Receive's three statements (take the note, commit, answer) are
one step, because until the scanner acts on the answer a stop leaves behind
nothing but the database. `LoadUnprocessed` reads the deposits of every coin
type, as `GetUnprocessedDeposits` does. `BuyUpdate` and `BuyFails` split
`updateStatus` on whether its callback errors, which it does when the price is
reached because the row is put under the empty `Txid`.

### Properties

* `AcceptedIsSaved`, `NoneForgotten`, `OneNotePerScanner`: no crash, failing
  transaction or interleaving loses a deposit or its answer.
* `NeverUnderCounted`, `AmountIsCountedValue`: what the amount of an address says
  about its deposits.
* `CompletingDepositIsSent`: what happens at the price.
* `SettledStays`: a deposit that is accepted, counted and in nobody's hands never
  enters the pipeline again, so that a restart counts twice only what was still on
  its way.
* `EveryDepositSettles`: every deposit is accepted and counted, or its failure is in the
  log. `EveryStepIsProgress` and `NobodyBlocked` say why: each step of a goroutine makes
  `Work`, a bound on the steps they have left, smaller; and while a deposit is undecided
  some goroutine can move, unless the scanner of that deposit is stuck at its start
  (`StuckLoading`). `ScannerCanMove` and `ExchangeCanMove` are the guards of the actions.
* `LedgerAtLeastOnce`, `LedgerAtMostOnce`: the pipeline implements `DepositLedger`,
  in which a deposit is seen, then credited by its value in one step.

### Runs

| run | question | result |
|---|---|---|
| `pipeline_restart` | two scanners, three deposits, one restart anywhere, one failing transaction: is anything lost, stuck, or counted again once settled? | holds |
| `pipeline_one_run` | one scanner, no restart, two failing transactions: are amounts exact? | holds |
| `pipeline_live` | do all deposits settle, with channels at their limits, and is every step progress? | holds |
| `pipeline_recount` | is `AmountDeposited` exact across a restart? | no: a deposit whose row was not yet marked accepted is added again |
| `pipeline_paid_not_sent` | does a completing deposit become `waiting_send`? | no: its transaction is rolled back |

**Bounds.** Two deposits share an address and a scanner, the third has its own:
that gives two payments of one kitty, two scanners that load each other's
deposits, and two notes in `outChan` at once. `OutCap` and `DepositsCap` are 1,
so every sender meets a full channel; `ScannedCap` is 2, the least that holds
what a start loads in `pipeline_live`: a scanner that loads more blocks on its own
channel before it starts, and with `ScannedCap` at 1 `EveryDepositSettles` fails. With its
three deposits `pipeline_restart` has such scanners, and `NobodyBlocked` shows that they
hold up nobody else. One restart is enough for every
state a second start can find, as a start reads only the databases; one failing
transaction can hit each of the three `db.Update`s. Deposits in a run are
finite, so a run ends when all are settled: deadlock is not checked, and
`EveryDepositSettles` says instead that nothing is left over.

**Fairness** (`FairSpec`). Each goroutine is scheduled: weak fairness of the scan
goroutine and the pipe goroutine of every scanner, of every forwarding
goroutine, of Receive and of Buy. The Go scheduler gives that, and a blocked
channel operation is a disabled action. New blocks, restarts and failing
transactions are owed to nobody.

## Reservations

`Reservation` models one request from `MakeReservationHandler` to its answer. The
handler opens the bolt write transaction first and commits it last, so requests
run one after the other; what makes them hard is that each has three kinds of
effect: rows in the transaction (`pending`), which a rollback undoes; memory
(`pool`, `reservations`, `userOf`, `userHas`), which only a restart undoes; and
the kitty API (`api`), which nothing undoes.

| code | actions |
|---|---|
| `Begin(true)` | `Begin` |
| `Service.BindAddressTx`: `NewAddressWithTx`, `AddScanAddress`, `BindAddressWithTx` | `BindAddress`, `NoAddressLeft`, `BindFails`, `AfterAddScanAddress` |
| `VerifyCode`, `Agent.MakeReservation` | `MakeReservation`, `MakeReservationFails` |
| `KittyAPI.SetReservation` | `SetReservation`, `SetReservationFails` |
| `SatisfyCode`, `UserManager.AddReservation`, commit | `AddReservation`, `AddReservationFails` |
| the answer | `Respond` |
| stop and `agent.New`, `NewAddrs` | `Restart` |

Three things are kept as the code has them because properties turn on them.
`agent.New` stores the address of its loop variable, so after a restart every
stored user shares one object (which of them is last in bucket order is left
open), and `userOf` maps an address to the object behind it. The answer is 200
although the commit failed. `AddScanAddress` of the BTC and SKY scanners opens
a transaction of its own (`ScannerUsesDb`), the dummy scanner's does not.

The queries `GetReservationsHandler` and `GetDepositAddressHandler` change nothing
and may be asked between any two steps; `QuestionsAgree` says what their answers
have to do with one another, the first coming from memory and the second from
the database.

Left out: prices, expiry and the verification codes themselves (only whether
the verifier agrees), the coin type written to a row, the order of the address
file, `KittyOwnerBkt` (never written) and `IsBound` (never true).

### Properties

* `BoundIsReserved`, `UserRowsAgree`: the three buckets a reservation is written
  to agree after any sequence of failed requests and restarts.
* `UserLimit`, `LimitAnswerIsTrue`: the limit of one kitty per user holds, and
  refuses nobody else, although users share an object after a restart. Both hang
  on `maxReservation` being 1: a user is stored only together with a reservation,
  so everyone behind the shared object owns a kitty, and the object has one.
* `CommittedIsKnown`: memory and the kitty API are never behind the database, so a sold
  kitty is not offered again.
* `QuestionsAgree`: what memory and the database answer agrees, in the middle of a
  request as well.
* `ConfirmedIsCommitted`: every 200 is kept, provided the commit does not fail.
* `RequestEnds`: a request gives the write transaction back.
* `LedgerSpec`: the committed rows and the answers implement `KittySale`, in
  which a kitty is sold once, to one user, against an address of its own, and a
  user is told only of a sale that happened.

### Runs

| run | question | result |
|---|---|---|
| `reservation_requests` | three kitties, one of them delivered, two users, two restarts; is it a sale, and do the questions agree? | holds |
| `reservation_commit_fails` | one failing commit and one restart: do buckets, memory and API agree, does every request end? | holds |
| `reservation_stuck_reserved` | is `ErrBoxAlreadyReserved` true? | no: a request that fails late leaves its kitty reserved in memory |
| `reservation_node_scanner` | does a request end when a BTC or SKY scanner runs? | no: it waits for the transaction it holds itself |

**Bounds.** Two users and two kitties for sale are what a race for a kitty and a
user's second kitty need; the third is delivered from the start. Two BTC
addresses let one request leak an address and the next succeed. Two restarts let
a shared user object be changed, stored and shared again. Requests, failures of
the verifier and of the kitty API are unbounded. Deadlock is checked, except in
`reservation_node_scanner`, where the request stops on purpose.

**Fairness**. Weak fairness of `Handle`, the steps of the request that holds the
transaction: its goroutine runs, and the kitty API and the verifier answer or
fail. There is no timeout around the API call, so this is an assumption about
the API; new requests and restarts are not due.

## Block scanners

`BlockScanner` models `BaseScanner.Run` with the functions of either coin, and the
node it asks. A block commits to its parent, so a block is the sequence of
headers up to it: its height is its length, and it is on the chain when it is a
prefix of the node's best block. The node answers from the chain it has at that
moment; what the scanner holds may have left the chain since.

| code | actions |
|---|---|
| the node | `Mine`, `Reorganise` (BTC) |
| `BaseScanner.Run`, before the scan goroutine | `LoadInitialBlock`, `LoadFails` |
| confirmations, `scanBlock`, `pushDepositTx` | `ScanBlock` |
| `BTCScanner.waitForNextBlock`, `getNextBlock` | `Refetch`, `RefetchFails`, `NextByHash` |
| `SKYScanner.waitForNextBlock`, `getNextBlock` | `NextByHeight` |
| `Store.AddScanAddress` | `AddScanAddress` |
| stop and start | `Restart` |

A row says which output it holds the value of (`vout`) and which index it records (`n`),
which with the transaction is its key. `IndexOf` is the index a block conversion gives an
output. Kept as the code has it: that index is never set, so that all outputs of
a transaction have one key; the height reached is not stored; a SKY block has no
`NextHash`; confirmations compare heights and never look at the chain; when a
refetched block cannot be converted the loop goes on with a nil block, which ends
the process. A call that fails and is tried again changes nothing and is left out.

* `NoneFoundTwice`: an output is a deposit once, however often it is scanned.
* `PassedIsFound`: each output of a passed block to a scanned address has a row under its
  key. Neither property depends on the value of `IndexOf`: both hold as well when it is the
  index of the output. As it is not, the row may be of another output of the transaction. `OthersLost` proves what that
  costs: only one output of a transaction ever becomes a deposit.
* `NoBlockSkipped`: if the block in hand is on the chain, so is everything the
  scanner has passed below it, and nothing is missing.
* `FoundIsTrue`: a row is never early (`FoundWasConfirmed`), and until a reorganisation it
  is a payment on the chain (`FoundIsPaid`).
* `ConfirmedIsFound`: an output that has its confirmations gets a row under its key, unless it
  is reorganised away, the scanner has failed, or it holds a block that left the
  chain. The last is what the code does after a reorganisation: such a block never
  gets a `NextHash`, and the scanner waits until a restart.

`scanner_chain` checks all of them for a BTC scanner with one confirmation and a
SKY scanner with none. **Bounds.** Five blocks with the scan beginning at the second
give a block below the start, one that is scanned, one that is refetched, and a
branch of two; one reorganisation may replace what was scanned, is in hand or is
cached as next; a second restart scans again what the first one found. `t1` has an output
to the address that is bound late and one to both, so which of them has its row depends on
when it was scanned first.
**Fairness.** `Scan`: the goroutine runs and a node that is asked again and again
answers. Blocks, addresses, failures and restarts are owed to nobody. The chain may
end, so deadlock is not checked.

## Send

`Sending` models `Send.Run`, its worker `runSend`, and `SendService`. No step of
today's code stores `waiting_send` or `waiting_confirm` (`pipeline_paid_not_sent`), but
every start loads the rows that an older version has left.

| code | actions |
|---|---|
| `Send.Run` | `Load`, `LoadFails`, `Queue`, `StartReceiving`, `RunEnds` |
| `runSend`, `runNoSend`, `processWaitSendDeposit` | `Take`, `WorkerQuits`, `HandleInvalid`, `Ask`, `Done`, `GiveUp` |
| `SendService.Run`, `ConfirmRetry` | `ServiceTake`, `Confirm`, `ConfirmFails`, `ServiceQuits` |
| shutdown, stop and start | `ShutdownSend`, `ShutdownService`, `Restart` |
| the kitty node | `Learn` |

* `DoneIsKnown`: done means that the node had the transaction.
* `NoneForgotten`: while Send runs, a row that waits is queued, in hand, or given up
  on in the log.
* `AskIsServed`: `IsTxConfirmed` looks at nothing but its answer; the order of the
  shutdown is what keeps it from waiting for ever, and one request at a time what
  keeps it from reading another's answer.
* `ConfirmedIsDone`: once the node knows the transactions, every row is done or given
  up on. It turns on `waiting_send` rows being queued last: the worker never leaves
  one (`send.go:263` returns it as it was, without an error).
* `ShutdownEnds`: a shutdown of Send ends, unless the loaded rows did not fit into
  `depositChan` (`Run` then waits for a place that nobody makes) or a confirmation is
  awaited that the node does not give.

`sending` checks them. **Bounds.** Five rows: two sound ones, so that an answer could go
to the wrong one; one with a bad `Txid`, one that is refused, one in `waiting_send`. With
`DepositCap` 2 they do not fit, one in the worker and two in the channel leaving two to
wait. One restart and one failing update reach every place a second could, as `Restart`
keeps nothing but the rows. **Fairness.** `RunStep`, `WorkerStep` and `ServiceStep`, a
goroutine each. A node is asked again and again, so once it knows a transaction it says so;
that it gets to know it is owed by nobody. The worker may stop at a `waiting_send` row for
good, so deadlock is not checked.

## Lifecycle and configuration

`Configuration` is the part of `config.Config` that decides what teller runs: flags, which
web settings are set, and which settings are unusable. `Validate` and `WebValidate` are the
checks, `DefaultConfig` and `Load` the defaults and a file over them, and `Servable` what
`HTTPServer.Run` needs of the settings, which it does not look at again.

`Lifecycle` is `run()` of `cmd/teller/teller.go`: the tasks it starts in their order, what
ends it, the shutdown calls in their order (`ShutdownSteps`), and the last `wg.Wait`. A task
is reduced to where it is: off, starting, running, waiting for something, returned.

| code | actions |
|---|---|
| `run()`, starting | `LoadConfig`, `ConfigRefused`, `StartFails`, `StartScanners`, `NoBtcScanner`, `StartMultiplexer`, `StartSender`, `StartExchange`, `StartTeller`, `StartMonitor` |
| `run()`, ending | `Interrupt`, `Select`, `Close`, `CloseOutChan`, `Wait`, `AllTold`, `Join` |
| `background` and its tasks | `ScannerUp`, `TaskFails`, `TaskQuits`, `MonitorStep` |
| `Multiplexer` | `ForwarderTakes`, `ForwarderSends`, `ForwarderPanics`, `ForwarderQuits`, `MuxReturns` |
| `DummyScanner.addDepositHandler` | `AddDummyDeposit` |
| `Exchange.Run` and its parts | `LoadFails`, `ReceiveQueues`, `ReceiveReads`, `ReceivePushes`, `ReceiveEnds`, `BuyReads`, `BuyQuits`, `SendAsks`, `SendAnswered`, `SendPanics`, `SendRuns`, `SendQuits`, `ExchangeStep` |

* `AcceptedIsServable`: a configuration that was not refused gives a server that listens,
  has a certificate if it needs one, and redirects only to where it listens.
* `BoundIsScanned`: a coin for which addresses are handed out has a scanner, but for SKY
  under the dummy scanner.
* `PushHasReader`: whenever Receive may block on its channel Buy is there, at a start with
  more rows than the channel holds and at every point of a shutdown.
* `PanicCauses`: start, wiring and shutdown panic in two ways only: `outChan` is closed on
  a forwarder that has a deposit in hand, or the dummy sender, which is nil, is asked about
  a row. (A scanner that goes on with a nil block is `RefetchFails` of `BlockScanner`.)
* `EndsWhenDue`: an interrupt, and a task that ends by itself, end the process, unless the
  SKY scanner runs (nothing shuts it down), the monitor missed its `Shutdown` (it reads `ln`
  before `Run` has set it), or Send waits for the kitty node. An exchange that has
  terminated early is not in the way; it is no reason to end either, because `Exchange.Run`
  keeps the error back until somebody calls `Shutdown`.

`lifecycle` checks them; the type invariant, which is proved, is not checked again. **Bounds.** The configurations are the real parts with a row to
confirm, SKY alone, dummies with and without rows, the defaults bare and filled in, every
subset of the web settings, and each setting that `Validate` treats differently as the one
bad setting. Channels hold one, with one row loaded and two deposits made, so each is full
while its sender has more; one task or part fails. **Fairness.** `ProcessStep`, all that the
goroutines do. No step of it can be repeated for ever, so this is as much as fairness of each
goroutine. Failures, interrupts, deposits and the answers of the kitty node are not in it. A
process that has ended stops, so deadlock is not checked.

## Findings

Shown by a run:

1. `AmountDeposited` counts a deposit again after a restart (`pipeline_recount`).
2. The deposit that completes a price is rolled back: no kitty is ever sent
   (`pipeline_paid_not_sent`).
3. A failed request keeps its kitty reserved until a restart
   (`reservation_stuck_reserved`), and its address out of the pool, so that the pool can
   be empty while every address is unused.
4. With a BTC or SKY scanner a request deadlocks with itself
   (`reservation_node_scanner`).

Built into a model and shown by what holds around it:

5. With two scanners a deposit is added twice without any restart, because each loads
   what the other has found (`AmountIsCountedValue` is checked with one scanner).
6. A scanner with more unprocessed deposits than its channel holds never starts.
7. Of two outputs of one transaction that pay deposit addresses one is credited, although
   `README.md:717` of the repository keys a deposit by `tx:n`, `Deposit.ID` does, and its test
   expects `foo:2`: `btcBlock2CommonBlock` and `skyBlock2CommonBlock` leave `N` at zero
   (theorem `OthersLost`).
   After a reorganisation a BTC scanner waits until a restart; a refetch without transactions
   ends the process (`BlockScanner`).
8. A shutdown with the SKY scanner does not end, `outChan` may be closed on a deposit in
   hand, and the failure of a part of the exchange ends nothing (`Lifecycle`).
9. `setDefaults` sets `web.send_enabled`, which nothing reads, so that sending is off by
   default, although `config.toml:44` shows `send_enabled = true`
   (`DefaultConfig`).

## Proofs

The theorems hold for all values of the constants that satisfy the named assumptions of
their module: any number of deposits, scanners and channel places, any prices, chains,
kitties, users, addresses, configurations, restarts and failures. In each module one
inductive invariant carries the theorems, a lemma per group of actions shows that it is kept,
and `Invariance` (or its like) puts them together.

| module | theorem | states |
|---|---|---|
| `DepositPipelineProofs` | `TypeCorrect` | `[]TypeOK` |
| | `OneNote` | `[]OneNotePerScanner` |
| | `AcceptedSaved` | `[]AcceptedIsSaved` |
| | `NothingForgotten` | `[]NoneForgotten` |
| | `LedgerImplemented` | the pipeline implements the at-least-once ledger |
| `AmountProofs` | `NothingUnderCounted` | `[]NeverUnderCounted` |
| | `SettledForGood` | `Spec => SettledStays` |
| | `CreditedOnce` | the pipeline implements the at-most-once ledger, if there is one scanner and no restart |
| | `AmountExact` | `[]AmountIsCountedValue`, if there is one scanner and no restart |
| `PipelineProgressProofs` | `StepsAreProgress` | `Spec => EveryStepIsProgress`, for finitely many deposits and scanners |
| | `NeverAllBlocked` | `[]NobodyBlocked`, for finitely many deposits and scanners |
| `SumTheorems` | `SumAdd`, `SumChange` | how a sum over a finite set follows its set and its values |
| `ReservationProofs` | `TypesKept` | `[]TypeInv` |
| | `BucketsAgree` | `[]BoundIsReserved` |
| | `UserRowsKept` | `[]UserRowsAgree` |
| | `QuestionsAnswered` | `[]QuestionsAgree` |
| | `SoldIsKnown` | `[]CommittedIsKnown` |
| | `LimitKept` | `[]UserLimit` |
| | `ConfirmedKept` | `[]ConfirmedIsCommitted`, if no commit fails |
| | `LimitAnswerTrue` | `[]LimitAnswerIsTrue`, if no commit fails |
| | `SaleImplemented` | `Spec => LedgerSpec`, if no commit fails |
| `BlockScannerProofs` | `TypesKept` | `[]TypeOK` |
| | `StoredOnce` | `[]NoneFoundTwice` |
| | `OthersLost` | of the outputs of a transaction one is a deposit and no other ever is |
| | `NoPaymentMissed` | `[]PassedIsFound` |
| | `FoundTrue` | `[]FoundIsTrue` |
| | `NoGap` | `[]NoBlockSkipped` |
| `SendingProofs` | `TypesKept` | `[]TypeOK` |
| | `DoneHasTransaction` | `[]DoneIsKnown` |
| | `RowsKept` | `[]NoneForgotten` |
| | `AskServed` | `[]AskIsServed` |
| `LifecycleProofs` | `TypesKept` | `[]TypeOK` |
| | `AcceptedServes` | `[]AcceptedIsServable` |
| | `BoundScanned` | `[]BoundIsScanned` |
| | `PanicsExplained` | `[]PanicCauses` |
| | `PushServed` | `[]PushHasReader` |

*Pipeline.* Only `OneNotePerScanner` is inductive alone. `PipelineInv` = `TypeInv` (types, and
that the pipe goroutine holds a deposit when it sends or waits) /\ `OneNotePerScanner` /\
`SavedInv`. `SavedInv` follows a deposit down the pipeline: what a scanner holds has a row in
`DepositBkt`, what the exchange holds has one in `DepositInfoBkt`, and a `nil` waiting on `ErrC`
was put there after the row of the deposit that scanner waits for was committed. The last clause
is why `OneNotePerScanner` is needed: the answer must belong to the deposit in hand.
`CreditedOnce` adds `OnceInv`: a deposit is in one place between the scan and Buy, has no row
before Receive answers, and is `waiting_decide` from then until Buy has it. It assumes `OneRun`
(at most one coin type, no restart): a second scanner that starts while the first is running
loads its deposits too, and a restart sends again what was not yet accepted.

*Amounts.* `AmountStep` says that a step either leaves amounts and counted deposits alone or adds
one deposit to an amount and to what counts, and `CountedFinite` that finitely many count: the
sum then follows by `SumAdd`, and the difference between `NeverUnderCounted` and
`AmountIsCountedValue` is whether the deposit may have counted before, which `OnceInv` excludes.
The sums are folds of the community modules over a set whose elements are taken in an order of
their own; `SumTheorems` shows that the order does not matter. Its induction over the subsets
of a finite set, `SubsetInduction`, is a statement about a set of subsets and not about a
predicate, and rests on strict inclusion being well-founded.

*Progress.* `Work` weighs each deposit by the steps it still has before it, and a scanner that
starts by all it may load. `StepsAreProgress` takes the actions one by one: a scanner's own work
shrinks, or it hands on something that weighs less where it goes. `NeverAllBlocked`: Buy waits
for nobody, Receive for Buy only, the multiplexer for Receive, and a scanner for its own note,
which by `OneNotePerScanner` is with the multiplexer, in `outChan` or answered. By
`NoneForgotten` an undecided deposit is in hand, so there is work. Together: between two blocks,
restarts or faults the pipeline comes to rest after finitely many steps, with nothing undecided
but what a stuck start holds. Both need deposits and coin types to be finitely many, as they are.

*Reservations.* `ReservationInv` says in which phase what has been written: `pending` equals the
database except for the rows of the request in hand, the address in hand is used and bound in
`pending` only, and no user owns two kitties. Its part about users says that an object with
nothing in it is its own user's, and that a user who owns a kitty is behind an object that has
one. `AnswersInv` adds what an answer implies; it needs that no commit fails, since the handler
answers 200 after one that did.

*Block scanners.* `ScannerInv` adds to the properties that a row's key is its own and follows
from its output (`KeyInv`, from which `NoneFoundTwice`), that `next` is the block in hand and one
header more, that every prefix of the block in hand from `InitialHeight` on has been passed
(whether or not it is on the chain, which is what makes it survive a reorganisation), and that
until one happens everything the scanner holds is on the chain. `NoBlockSkipped` follows: the
prefixes of a block on the chain are the blocks of the chain.

*Send.* `SendingInv` adds which goroutine is where in which phase, and that `response` is
about `inHand`: a confirmation waiting there is of a transaction the node has.

*Lifecycle.* `LifeInv` says what each stage of the start has left behind (`StageInv`), and by
which step of the shutdown Receive is gone and Buy is told (`ReceiveInv`); the order of
`ShutdownSteps` enters there, as lemma `ShutdownOrder`. `ValidServes` shows for every subset of
the web settings that what `WebValidate` lets pass `HTTPServer.Run` can serve.

What only TLC shows:

* liveness under fairness, which the prover does not reach: `EveryDepositSettles`,
  `RequestEnds`, `ConfirmedIsFound`, `ConfirmedIsDone`, `ShutdownEnds`, `EndsWhenDue`. Of the
  first, `StepsAreProgress` and `NeverAllBlocked` prove all but the last step, that a goroutine
  which can move does.
* that `ScannerCanMove` and `ExchangeCanMove` are when `GoroutineStep` is enabled: `ENABLED` is
  out of the prover's reach, and the two definitions repeat the guards of the actions.

## Not modelled

* *Prices and expiry.* Prices are constants of a kitty; reservations never expire in this code.
* *Sending a transaction.* `SendService.BroadcastTx` and its retry are called from nowhere.
* *The dummy sender*, which is commented out where it would be made: only that it is nil.
* *Reports* of the monitor, `/api/config` and `/api/status`: they read and change nothing. The last
  looks up a bucket that nothing writes, and so always fails.
* *CORS, throttling, static files, logs*, and the utilities: no state that others depend on.
* *The tools under `cmd/`* other than teller: sequential programs that run while teller does not,
  or a mock of btcd.
* *bolt*: a transaction is one step that commits or does not. What its locks do to readers inside
  readers (`exchange/store.go:499`) is below the models.

## What could come next

1. A composition of `Reservation` with `DepositPipeline` over the one bolt writer: the pipeline
   waits while a request calls the kitty API.
2. `BlockScanner` and `DepositPipeline` as one, with deposits found again at a restart.
3. The argument of `PipelineProgressProofs` for the other goroutines: a measure for the steps of
   `Sending` and of `Lifecycle`, whose shutdown then ends but in the ways `EndsWhenDue` names.
