------------------------------- MODULE Sending -------------------------------
(***************************************************************************)
(* The last stage of a deposit: Send, which drives waiting_confirm rows to *)
(* done, and the SendService it asks for confirmations.                    *)
(*                                                                         *)
(*   Run --depositChan--> runSend --confirmChan--> SendService --> kittyd  *)
(*                           ^---------- RspC ----------+                  *)
(*                                                                         *)
(* No step of today's code stores waiting_send or waiting_confirm; such    *)
(* rows are left by an earlier version, and Run loads them at every start. *)
(* As no deposit reaches Send in a run either, receiveDeposits, which it   *)
(* starts after the loaded rows are queued, has nothing to do.             *)
(***************************************************************************)
EXTENDS Naturals, Sequences, FiniteSets

CONSTANTS
    Deposits,       \* the rows of DepositInfoBkt
    Invalid,        \* rows that ValidateForStatus refuses
    BadTxid,        \* rows whose Txid is not a hash
    FirstStatus,    \* the status of each row at the first start
    NoDeposit,      \* a goroutine that holds no deposit
    SendEnabled,    \* box_exchanger.send_enabled
    DepositCap,     \* capacity of Send.depositChan (100)
    MaxRestarts,    \* bound: how often the process stops and starts again
    MaxDbFailures   \* bound: how many bolt transactions fail to commit

Statuses == {"waiting_send", "waiting_confirm", "done"}

ASSUME SendingAssumption ==
    /\ IsFiniteSet(Deposits)
    /\ NoDeposit \notin Deposits
    /\ Invalid \subseteq Deposits
    /\ BadTxid \subseteq Deposits
    /\ FirstStatus \in [Deposits -> Statuses]
    /\ SendEnabled \in BOOLEAN
    /\ DepositCap \in Nat \ {0}
    /\ MaxRestarts \in Nat
    /\ MaxDbFailures \in Nat

VARIABLES
    status,         \* DepositInfoBkt: the status of each row
    (* Send.Run and runSend *)
    run,            \* "start", "queue" the loaded rows, "receive", "ended", "failed"
    toConfirm,      \* loaded waiting_confirm rows that Run has yet to queue
    toSend,         \* loaded waiting_send rows that Run has yet to queue
    depositChan,    \* the channel, of deposits with the status they were loaded with
    worker,         \* where runSend is
    inHand,         \* the deposit in processWaitSendDeposit
    dropped,        \* not reprocessed until teller is restarted, as the log says
    (* SendService *)
    service,        \* where its Run is
    request,        \* the request in confirmChan or in ConfirmRetry
    response,       \* what is on the RspC of that request
    (* shutdown *)
    sendQuit,       \* Send.quit is closed
    serviceQuit,    \* SendService.quit is closed
    (* outside the process, and bounds *)
    known,          \* deposits whose transaction the kitty node has
    restarts, dbFailures

runVars == <<run, toConfirm, toSend>>
workerVars == <<depositChan, worker, inHand, dropped>>
serviceVars == <<service, request, response>>
quitVars == <<sendQuit, serviceQuit>>
vars == <<status, runVars, workerVars, serviceVars, quitVars, known, restarts, dbFailures>>

TypeOK ==
    /\ status \in [Deposits -> Statuses]
    /\ run \in {"start", "queue", "receive", "ended", "failed"}
    /\ toConfirm \subseteq Deposits
    /\ toSend \subseteq Deposits
    /\ depositChan \in Seq(Deposits)
    /\ worker \in {"off", "idle", "handle", "ask", "gone"}
    /\ inHand \in Deposits \cup {NoDeposit}
    /\ dropped \subseteq Deposits
    /\ service \in {"idle", "retry", "gone"}
    /\ request \in Deposits \cup {NoDeposit}
    /\ response \in {"empty", "confirmed", "error", "nil"}
    /\ sendQuit \in BOOLEAN
    /\ serviceQuit \in BOOLEAN
    /\ known \subseteq Deposits
    /\ restarts \in Nat
    /\ dbFailures \in Nat

-----------------------------------------------------------------------------
(* Send.Run *)

HasStatus(s) == {d \in Deposits : status[d] = s}

(* Run loads both lists and starts runSend or runNoSend.                    *)
Load ==
    /\ run = "start"
    /\ run' = "queue"
    /\ toConfirm' = IF SendEnabled THEN HasStatus("waiting_confirm") ELSE {}
    /\ toSend' = IF SendEnabled THEN HasStatus("waiting_send") ELSE {}
    /\ worker' = "idle"
    /\ UNCHANGED <<status, depositChan, inHand, dropped, serviceVars, quitVars,
                   known, restarts, dbFailures>>

(* GetDepositInfoArray fails: Run returns the error.                        *)
LoadFails ==
    /\ run = "start"
    /\ SendEnabled
    /\ run' = "failed"
    /\ UNCHANGED <<status, toConfirm, toSend, workerVars, serviceVars, quitVars,
                   known, restarts, dbFailures>>

(* Mutant: the waiting_send rows are queued first.                          *)
Queue_SendFirst(d) ==
    /\ run = "queue"
    /\ Len(depositChan) < DepositCap
    /\ depositChan' = Append(depositChan, d)
    /\ \/ d \in toSend /\ toSend' = toSend \ {d} /\ UNCHANGED toConfirm
       \/ toSend = {} /\ d \in toConfirm /\ toConfirm' = toConfirm \ {d} /\ UNCHANGED toSend
    /\ UNCHANGED <<status, run, worker, inHand, dropped, serviceVars, quitVars,
                   known, restarts, dbFailures>>

(* `s.depositChan <- di`, without a look at quit: first the waiting_confirm *)
(* rows, then the waiting_send rows.                                        *)
Queue(d) ==
    /\ run = "queue"
    /\ Len(depositChan) < DepositCap
    /\ depositChan' = Append(depositChan, d)
    /\ \/ d \in toConfirm /\ toConfirm' = toConfirm \ {d} /\ UNCHANGED toSend
       \/ toConfirm = {} /\ d \in toSend /\ toSend' = toSend \ {d} /\ UNCHANGED toConfirm
    /\ UNCHANGED <<status, run, worker, inHand, dropped, serviceVars, quitVars,
                   known, restarts, dbFailures>>

Queued == toConfirm \cup toSend = {}

StartReceiving ==
    /\ run = "queue"
    /\ Queued
    /\ run' = "receive"
    /\ UNCHANGED <<status, toConfirm, toSend, workerVars, serviceVars, quitVars,
                   known, restarts, dbFailures>>

(* receiveDeposits has seen quit, runSend has returned: wg.Wait ends.       *)
RunEnds ==
    /\ run = "receive"
    /\ sendQuit
    /\ worker = "gone"
    /\ run' = "ended"
    /\ UNCHANGED <<status, toConfirm, toSend, workerVars, serviceVars, quitVars,
                   known, restarts, dbFailures>>

-----------------------------------------------------------------------------
(* runSend: processWaitSendDeposit *)

Take ==
    /\ worker = "idle"
    /\ depositChan # <<>>
    /\ depositChan' = Tail(depositChan)
    /\ IF SendEnabled
       THEN worker' = "handle" /\ inHand' = Head(depositChan)
       ELSE UNCHANGED <<worker, inHand>>
    /\ UNCHANGED <<status, runVars, dropped, serviceVars, quitVars, known,
                   restarts, dbFailures>>

(* Mutant: the loop of processWaitSendDeposit does not look at quit.        *)
WorkerQuits_BetweenRows ==
    /\ sendQuit
    /\ worker = "idle" /\ worker' = "gone" /\ UNCHANGED inHand
    /\ UNCHANGED <<status, runVars, depositChan, dropped, serviceVars, quitVars,
                   known, restarts, dbFailures>>

(* runSend, and the loop of processWaitSendDeposit, look at quit.           *)
WorkerQuits ==
    /\ sendQuit
    /\ \/ worker = "idle" /\ worker' = "gone" /\ UNCHANGED inHand
       \/ worker = "handle" /\ worker' = "idle" /\ inHand' = NoDeposit
    /\ UNCHANGED <<status, runVars, depositChan, dropped, serviceVars, quitVars,
                   known, restarts, dbFailures>>

WorkerIdle ==
    /\ worker' = "idle"
    /\ inHand' = NoDeposit

(* handleDepositInfoState refuses the row.                                  *)
HandleInvalid ==
    /\ worker = "handle"
    /\ ~sendQuit
    /\ inHand \in Invalid
    /\ dropped' = dropped \cup {inHand}
    /\ WorkerIdle
    /\ UNCHANGED <<status, runVars, depositChan, serviceVars, quitVars, known,
                   restarts, dbFailures>>

(* IsTxConfirmed: the request goes to confirmChan, and nothing but its RspC *)
(* is waited for.  For a waiting_send row there is no action: the code      *)
(* returns it as it is, without an error, and goes round until quit.        *)
Ask ==
    /\ worker = "handle"
    /\ ~sendQuit
    /\ inHand \notin Invalid
    /\ status[inHand] = "waiting_confirm"
    /\ worker' = "ask"
    /\ request' = inHand
    /\ UNCHANGED <<status, runVars, depositChan, inHand, dropped, service, response,
                   quitVars, known, restarts, dbFailures>>

DbFailure ==
    /\ dbFailures < MaxDbFailures
    /\ dbFailures' = dbFailures + 1

(* The answer is Confirmed; UpdateDepositInfo sets StatusDone.              *)
Done ==
    /\ worker = "ask"
    /\ response = "confirmed"
    /\ response' = "empty"
    /\ status' = [status EXCEPT ![inHand] = "done"]
    /\ WorkerIdle
    /\ UNCHANGED <<runVars, depositChan, dropped, service, request, quitVars,
                   known, restarts, dbFailures>>

(* Mutant: a failed update is not reported.                                 *)
GiveUp_Silently ==
    /\ worker = "ask"
    /\ response # "empty"
    /\ response = "confirmed" => DbFailure
    /\ response # "confirmed" => UNCHANGED dbFailures
    /\ response' = "empty"
    /\ WorkerIdle
    /\ UNCHANGED <<status, runVars, depositChan, dropped, service, request, quitVars,
                   known, restarts>>

(* Mutant: the row of a failed update is written back with a zero status.   *)
GiveUp_Zero ==
    /\ worker = "ask"
    /\ response # "empty"
    /\ response = "confirmed" => DbFailure
    /\ response # "confirmed" => UNCHANGED dbFailures
    /\ response' = "empty"
    /\ status' = [status EXCEPT ![inHand] = "unknown"]
    /\ dropped' = dropped \cup {inHand}
    /\ WorkerIdle
    /\ UNCHANGED <<runVars, depositChan, service, request, quitVars, known, restarts>>

(* An error, or a nil answer ("Sender closed"), or an update that fails.    *)
GiveUp ==
    /\ worker = "ask"
    /\ response # "empty"
    /\ response = "confirmed" => DbFailure
    /\ response # "confirmed" => UNCHANGED dbFailures
    /\ response' = "empty"
    /\ dropped' = dropped \cup {inHand}
    /\ WorkerIdle
    /\ UNCHANGED <<status, runVars, depositChan, service, request, quitVars, known,
                   restarts>>

-----------------------------------------------------------------------------
(* SendService.Run *)

ServiceTake ==
    /\ service = "idle"
    /\ request # NoDeposit
    /\ service' = "retry"
    /\ UNCHANGED <<status, runVars, workerVars, request, response, quitVars, known,
                   restarts, dbFailures>>

(* Mutant: the request stays queued and is answered again.                  *)
Answer_Again(r) ==
    /\ response' = r
    /\ service' = "idle"
    /\ UNCHANGED <<status, runVars, workerVars, request, quitVars, known, restarts,
                   dbFailures>>

Answer(r) ==
    /\ response' = r
    /\ request' = NoDeposit
    /\ service' = "idle"
    /\ UNCHANGED <<status, runVars, workerVars, quitVars, known, restarts, dbFailures>>

(* Mutant: an error of GetTransaction is taken for a confirmation.          *)
Confirm_Unknown ==
    /\ service = "retry"
    /\ request \notin BadTxid
    /\ Answer("confirmed")

(* ConfirmRetry: GetTransaction is tried until the node has the transaction *)
(* and answers; every failure before that is a wait and changes nothing.    *)
Confirm ==
    /\ service = "retry"
    /\ request \in known \ BadTxid
    /\ Answer("confirmed")

(* ConfirmRetry returns the error of SHA256FromHex.                         *)
ConfirmFails ==
    /\ service = "retry"
    /\ request \in BadTxid
    /\ Answer("error")

(* quit is closed: Run returns, from a retry after putting nil on RspC or   *)
(* without an answer, as its select chooses.                                *)
ServiceQuits ==
    /\ serviceQuit
    /\ service # "gone"
    /\ service' = "gone"
    /\ response' \in IF service = "retry" THEN {response, "nil"} ELSE {response}
    /\ UNCHANGED <<status, runVars, workerVars, request, quitVars, known, restarts,
                   dbFailures>>

-----------------------------------------------------------------------------
(* Stop and start *)

ShutdownSend ==
    /\ ~sendQuit
    /\ sendQuit' = TRUE
    /\ UNCHANGED <<status, runVars, workerVars, serviceVars, serviceQuit, known,
                   restarts, dbFailures>>

(* Mutant: SendService is told to quit before the exchange is done.         *)
ShutdownService_Early ==
    /\ sendQuit
    /\ ~serviceQuit
    /\ serviceQuit' = TRUE
    /\ UNCHANGED <<status, runVars, workerVars, serviceVars, sendQuit, known,
                   restarts, dbFailures>>

(* exchangeClient.Shutdown() waits for Send; sendService.Shutdown() is next. *)
ShutdownService ==
    /\ sendQuit
    /\ run \in {"ended", "failed"}
    /\ ~serviceQuit
    /\ serviceQuit' = TRUE
    /\ UNCHANGED <<status, runVars, workerVars, serviceVars, sendQuit, known,
                   restarts, dbFailures>>

(* The kitty node gets to know a transaction.                               *)
Learn(d) ==
    /\ d \notin known
    /\ known' = known \cup {d}
    /\ UNCHANGED <<status, runVars, workerVars, serviceVars, quitVars, restarts,
                   dbFailures>>

Init ==
    /\ status = FirstStatus
    /\ run = "start" /\ toConfirm = {} /\ toSend = {}
    /\ depositChan = <<>> /\ worker = "off" /\ inHand = NoDeposit
    /\ dropped = {}
    /\ service = "idle" /\ request = NoDeposit /\ response = "empty"
    /\ sendQuit = FALSE /\ serviceQuit = FALSE
    /\ known \in SUBSET Deposits
    /\ restarts = 0
    /\ dbFailures = 0

(* The process ends, by a shutdown or a crash, and starts again with what   *)
(* is in the database.                                                      *)
Restart ==
    /\ restarts < MaxRestarts
    /\ restarts' = restarts + 1
    /\ run' = "start" /\ toConfirm' = {} /\ toSend' = {}
    /\ depositChan' = <<>> /\ worker' = "off" /\ inHand' = NoDeposit
    /\ dropped' = {}
    /\ service' = "idle" /\ request' = NoDeposit /\ response' = "empty"
    /\ sendQuit' = FALSE /\ serviceQuit' = FALSE
    /\ UNCHANGED <<status, known, dbFailures>>

RunStep == Load \/ (\E d \in Deposits : Queue(d)) \/ StartReceiving \/ RunEnds
WorkerStep == Take \/ WorkerQuits \/ HandleInvalid \/ Ask \/ Done \/ GiveUp
ServiceStep == ServiceTake \/ Confirm \/ ConfirmFails \/ ServiceQuits

Next ==
    \/ RunStep
    \/ LoadFails
    \/ WorkerStep
    \/ ServiceStep
    \/ ShutdownSend
    \/ ShutdownService
    \/ \E d \in Deposits : Learn(d)
    \/ Restart

Spec == Init /\ [][Next]_vars

(* Each goroutine runs, and a node that has a transaction gives it in the   *)
(* end.  That the node gets it, a shutdown and a restart are owed to nobody. *)
FairSpec == Spec /\ WF_vars(RunStep) /\ WF_vars(WorkerStep) /\ WF_vars(ServiceStep)

-----------------------------------------------------------------------------
(* Properties *)

InChan == {depositChan[i] : i \in DOMAIN depositChan}

(* A row becomes done only after the node had its transaction, whatever was *)
(* retried, shut down or restarted on the way.                              *)
DoneIsKnown ==
    \A d \in Deposits :
        status[d] = "done" => FirstStatus[d] = "done" \/ d \in known \ BadTxid

(* A row that waits is queued, in hand, or given up on with a log message,  *)
(* until Send is told to quit: none is forgotten while Send runs.           *)
NoneForgotten ==
    run \in {"queue", "receive"} /\ SendEnabled /\ ~sendQuit =>
        \A d \in Deposits : status[d] # "done" =>
            d \in toConfirm \cup toSend \cup InChan \cup {inHand} \cup dropped

(* Whoever waits for an answer waits for a service that runs, and that has  *)
(* either the request or the answer, of this deposit: IsTxConfirmed does    *)
(* not look at quit, and only the order of the shutdown keeps it from       *)
(* waiting for ever, or from taking a nil or the answer of another.         *)
AskIsServed ==
    /\ worker = "ask" => ~serviceQuit /\ service # "gone"
    /\ worker = "ask" <=> request # NoDeposit \/ response # "empty"
    /\ request # NoDeposit => request = inHand /\ response = "empty"

(* Once the node knows the transactions of all rows that wait for one, each *)
(* of them is done or given up on, unless Send is shut down or failed to    *)
(* start.  Rows in waiting_send do not hold them up, being queued last.     *)
AllKnown == HasStatus("waiting_confirm") \subseteq known

ConfirmedIsDone ==
    \A d \in Deposits :
        (status[d] = "waiting_confirm" /\ AllKnown /\ SendEnabled) ~>
            status[d] = "done" \/ d \in dropped \/ sendQuit \/ run = "failed"

(* Send.Run waits for a place in depositChan that nobody will make: runSend *)
(* has seen quit and is gone.                                               *)
QueueStuck == run = "queue" /\ ~Queued /\ worker = "gone" /\ Len(depositChan) = DepositCap

(* runSend waits for a transaction that the node does not have.             *)
AwaitsNode == worker = "ask" /\ inHand \notin known

(* A shutdown of Send ends, if the process is not killed first, except in   *)
(* two ways: the rows did not fit into depositChan, or a confirmation is    *)
(* awaited that the node does not give.                                     *)
ShutdownEnds ==
    sendQuit ~> run \in {"ended", "failed"} \/ QueueStuck \/ AwaitsNode \/ ~sendQuit
=============================================================================
