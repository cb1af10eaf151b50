------------------------------ MODULE Lifecycle ------------------------------
(***************************************************************************)
(* The teller process: run() starts the tasks its configuration asks for,  *)
(* waits for an interrupt or for the first error, and takes them down one  *)
(* after the other.  The tasks are reduced to how they start, fail, block  *)
(* and end; what they do in between is the subject of the other modules.   *)
(*                                                                         *)
(*   btc --> forwarder --outChan--> receive --deposits--> buy      send    *)
(*   sky --> forwarder --^          `--------- exchange ---------'   |     *)
(*                                                              sendService *)
(***************************************************************************)
EXTENDS Naturals, Sequences, FiniteSets, Configuration

CONSTANTS
    Configs,        \* the configurations that teller is started with
    OutCap,         \* capacity of Multiplexer.outChan (1000)
    DepositCap,     \* capacity of Receive.deposits (100)
    Undecided,      \* waiting_decide rows that Receive.Run queues
    MaxDeposits,    \* bound: how many deposits the scanners hand over
    MaxFailures     \* bound: how many tasks and parts fail in a run

ASSUME LifecycleAssumption ==
    /\ Configs \subseteq [config : Config, toConfirm : BOOLEAN]
    /\ OutCap \in Nat \ {0}
    /\ DepositCap \in Nat \ {0}
    /\ Undecided \in Nat
    /\ MaxDeposits \in Nat
    /\ MaxFailures \in Nat

Coins == {"BTC", "SKY"}
Tasks == {"btc", "sky", "mux", "sendService", "exchange", "teller", "monitor"}
ExchangeParts == {"receive", "buy", "send"}
Parts == Tasks \cup ExchangeParts

VARIABLES
    cfg,            \* the configuration
    toConfirm,      \* Send has a waiting_confirm row to deal with
    main,           \* where run() is
    step,           \* how many of the ShutdownSteps it has taken
    interrupted,    \* its quit channel is closed
    part,           \* where each task and each part of the exchange is
    quit,           \* those whose quit channel is closed
    errC,           \* tasks that sent an error to run()
    exchangeErr,    \* Exchange.Run's errC holds an error
    scanners,       \* Multiplexer.scannerMap
    generators,     \* AddrManager: coins that have an address pool
    forwarder,      \* the goroutine of Multiplex for each coin
    outChan,        \* number of notes in outChan
    outClosed,      \* outChan is closed
    undecided,      \* loaded rows that Receive.Run has yet to queue
    deposits,       \* number of deposits in Receive.deposits
    lnClosed,       \* Monitor.ln was there to be shut down
    made,           \* number of deposits the scanners handed over
    failures        \* number of tasks and parts that failed

mainVars == <<main, step, interrupted>>
muxVars == <<scanners, forwarder, outChan, outClosed, made>>
receiveVars == <<undecided, deposits>>
vars == <<cfg, toConfirm, mainVars, part, quit, errC, exchangeErr, muxVars,
          generators, receiveVars, lnClosed, failures>>

Starting == {"config", "scanners", "multiplexer", "sender", "exchange", "teller", "monitor"}
Over == {"failed", "stopped", "panicked"}

Places == {"off", "starting", "queue", "built", "running", "push", "ask",
           "join", "terminating", "finishing", "failing", "returned"}

TypeOK ==
    /\ cfg \in Config
    /\ toConfirm \in BOOLEAN
    /\ main \in Starting \cup {"select", "shutdown", "join"} \cup Over
    /\ step \in Nat
    /\ interrupted \in BOOLEAN
    /\ part \in [Parts -> Places]
    /\ quit \subseteq Parts
    /\ errC \subseteq Tasks
    /\ exchangeErr \in BOOLEAN
    /\ scanners \subseteq Coins
    /\ generators \subseteq Coins
    /\ forwarder \in [Coins -> {"off", "waiting", "holding", "gone"}]
    /\ outChan \in 0..OutCap
    /\ outClosed \in BOOLEAN
    /\ undecided \in 0..Undecided
    /\ deposits \in 0..DepositCap
    /\ lnClosed \in BOOLEAN
    /\ made \in 0..MaxDeposits
    /\ failures \in 0..MaxFailures

Alive == main \notin Over

-----------------------------------------------------------------------------
(* run(): starting.  Each step may instead fail, and run() then returns.    *)

(* Only those that may fail before they do anything have a "starting".      *)
Start(ps, next) ==
    /\ part' = [p \in Parts |->
                   IF p \notin ps THEN part[p]
                   ELSE IF p \in {"btc", "sky", "receive", "send", "monitor"}
                   THEN "starting" ELSE "running"]
    /\ main' = next

StartFails ==
    /\ main \in Starting
    /\ main = "config" => Validate(cfg)
    /\ main' = "failed"
    /\ UNCHANGED <<cfg, toConfirm, step, interrupted, part, quit, errC, exchangeErr,
                   muxVars, generators, receiveVars, lnClosed, failures>>

(* config.Load refuses the configuration.                                   *)
ConfigRefused ==
    /\ main = "config"
    /\ ~Validate(cfg)
    /\ main' = "failed"
    /\ UNCHANGED <<cfg, toConfirm, step, interrupted, part, quit, errC, exchangeErr,
                   muxVars, generators, receiveVars, lnClosed, failures>>

(* config.Load, the database and scanner.NewStore.                          *)
LoadConfig ==
    /\ main = "config"
    /\ Validate(cfg)
    /\ main' = "scanners"
    /\ UNCHANGED <<cfg, toConfirm, step, interrupted, part, quit, errC, exchangeErr,
                   muxVars, generators, receiveVars, lnClosed, failures>>

RealScanners ==
    IF cfg.dummyScanner THEN {}
    ELSE {p \in {"btc", "sky"} : (p = "btc" /\ cfg.btc) \/ (p = "sky" /\ cfg.sky)}

(* createBtcScanner, createSkyScanner, and AddScanner for SKY.              *)
StartScanners ==
    /\ main = "scanners"
    /\ Start(RealScanners, "multiplexer")
    /\ scanners' = IF "sky" \in RealScanners THEN {"SKY"} ELSE {}
    /\ UNCHANGED <<cfg, toConfirm, step, interrupted, quit, errC, exchangeErr, forwarder,
                   outChan, outClosed, made, generators, receiveVars, lnClosed, failures>>

HasBtcScanner == cfg.dummyScanner \/ part["btc"] # "off"

(* AddScanner for BTC refuses a nil scanner: with SKY alone run() fails.    *)
NoBtcScanner ==
    /\ main = "multiplexer"
    /\ ~HasBtcScanner
    /\ main' = "failed"
    /\ UNCHANGED <<cfg, toConfirm, step, interrupted, part, quit, errC, exchangeErr,
                   muxVars, generators, receiveVars, lnClosed, failures>>

(* AddScanner for BTC, and Multiplex with a goroutine for each scanner.     *)
StartMultiplexer ==
    /\ main = "multiplexer"
    /\ HasBtcScanner
    /\ Start({"mux"}, "sender")
    /\ scanners' = scanners \cup {"BTC"}
    /\ forwarder' = [c \in Coins |-> IF c \in scanners' THEN "waiting" ELSE "off"]
    /\ UNCHANGED <<cfg, toConfirm, step, interrupted, quit, errC, exchangeErr, outChan,
                   outClosed, made, generators, receiveVars, lnClosed, failures>>

(* Mutant: the send service is made together with the SKY scanner.          *)
StartSender_WithSky ==
    /\ main = "sender"
    /\ Start(IF cfg.dummySender \/ ~cfg.sky THEN {} ELSE {"sendService"}, "exchange")
    /\ UNCHANGED <<cfg, toConfirm, step, interrupted, quit, errC, exchangeErr, muxVars,
                   generators, receiveVars, lnClosed, failures>>

(* With the dummy sender, whose creation is commented out, sendAPI is nil.  *)
StartSender ==
    /\ main = "sender"
    /\ Start(IF cfg.dummySender THEN {} ELSE {"sendService"}, "exchange")
    /\ UNCHANGED <<cfg, toConfirm, step, interrupted, quit, errC, exchangeErr, muxVars,
                   generators, receiveVars, lnClosed, failures>>

(* NewExchange, and Exchange.Run with its three goroutines.                 *)
StartExchange ==
    /\ main = "exchange"
    /\ Start({"exchange"} \cup ExchangeParts, "teller")
    /\ UNCHANGED <<cfg, toConfirm, step, interrupted, quit, errC, exchangeErr, muxVars,
                   generators, receiveVars, lnClosed, failures>>

(* Mutant: the address pools are made whether or not a coin is enabled.     *)
Pools_All == Coins

(* PushGenerator: an address pool for each coin that is enabled.            *)
Pools == {c \in Coins : (c = "BTC" /\ cfg.btc) \/ (c = "SKY" /\ cfg.sky)}

(* The address pools, the agent and the teller server.                      *)
StartTeller ==
    /\ main = "teller"
    /\ Start({"teller"}, "monitor")
    /\ generators' = Pools
    /\ UNCHANGED <<cfg, toConfirm, step, interrupted, quit, errC, exchangeErr, muxVars,
                   receiveVars, lnClosed, failures>>

StartMonitor ==
    /\ main = "monitor"
    /\ Start({"monitor"}, "select")
    /\ UNCHANGED <<cfg, toConfirm, step, interrupted, quit, errC, exchangeErr, muxVars,
                   generators, receiveVars, lnClosed, failures>>

-----------------------------------------------------------------------------
(* run(): waiting and shutting down                                         *)

(* catchInterrupt closes quit.  It may do so at any time; only Select looks *)
(* at it, so that one that comes earlier is the same as one that comes now. *)
(* A second one panics, for a shutdown that is stuck; it is left out.       *)
Interrupt ==
    /\ main = "select"
    /\ ~interrupted
    /\ interrupted' = TRUE
    /\ UNCHANGED <<cfg, toConfirm, main, step, part, quit, errC, exchangeErr, muxVars,
                   generators, receiveVars, lnClosed, failures>>

Select ==
    /\ main = "select"
    /\ interrupted \/ errC # {}
    /\ main' = "shutdown"
    /\ UNCHANGED <<cfg, toConfirm, step, interrupted, part, quit, errC, exchangeErr,
                   muxVars, generators, receiveVars, lnClosed, failures>>

(* Mutant: Exchange.Shutdown stops Buy before Receive.                      *)
ShutdownSteps_BuyFirst ==
    << <<"close", "monitor">>, <<"close", "teller">>, <<"wait", "teller">>,
       <<"close", "mux">>, <<"close", "outChan">>, <<"wait", "mux">>,
       <<"close", "btc">>, <<"wait", "btc">>, <<"close", "exchange">>,
       <<"close", "buy">>, <<"wait", "buy">>,
       <<"close", "receive">>, <<"wait", "receive">>,
       <<"close", "send">>, <<"wait", "send">>, <<"wait", "exchange">>,
       <<"close", "sendService">>, <<"wait", "sendService">> >>

(* Mutant: Exchange.Shutdown waits for Run before it stops the parts.       *)
ShutdownSteps_RunFirst ==
    << <<"close", "monitor">>, <<"close", "teller">>, <<"wait", "teller">>,
       <<"close", "mux">>, <<"close", "outChan">>, <<"wait", "mux">>,
       <<"close", "btc">>, <<"wait", "btc">>,
       <<"close", "exchange">>, <<"wait", "exchange">>,
       <<"close", "receive">>, <<"wait", "receive">>, <<"close", "buy">>, <<"wait", "buy">>,
       <<"close", "send">>, <<"wait", "send">>,
       <<"close", "sendService">>, <<"wait", "sendService">> >>

(* The Shutdown calls of run(), and what each closes and waits for.  The    *)
(* SKY scanner is not among them.                                           *)
ShutdownSteps ==
    << <<"close", "monitor">>,
       <<"close", "teller">>, <<"wait", "teller">>,
       <<"close", "mux">>, <<"close", "outChan">>, <<"wait", "mux">>,
       <<"close", "btc">>, <<"wait", "btc">>,
       <<"close", "exchange">>,
           <<"close", "receive">>, <<"wait", "receive">>,
           <<"close", "buy">>, <<"wait", "buy">>,
           <<"close", "send">>, <<"wait", "send">>,
       <<"wait", "exchange">>,
       <<"close", "sendService">>, <<"wait", "sendService">> >>

ShutdownStep(op, p) ==
    /\ main = "shutdown"
    /\ step < Len(ShutdownSteps)
    /\ ShutdownSteps[step + 1] = <<op, p>>
    /\ step' = step + 1

Close(p) ==
    /\ ShutdownStep("close", p)
    /\ quit' = quit \cup {p}
    /\ lnClosed' \in IF p # "monitor" THEN {lnClosed}
                     ELSE CASE part[p] = "running" -> {TRUE}
                            [] part[p] = "built" -> BOOLEAN
                            [] OTHER -> {FALSE}
    /\ UNCHANGED <<cfg, toConfirm, main, interrupted, part, errC, exchangeErr, muxVars,
                   generators, receiveVars, failures>>

CloseOutChan ==
    /\ ShutdownStep("close", "outChan")
    /\ outClosed' = TRUE
    /\ UNCHANGED <<cfg, toConfirm, main, interrupted, part, quit, errC, exchangeErr,
                   scanners, forwarder, outChan, made, generators, receiveVars, lnClosed, failures>>

(* `<-done`: a part that writes to an unbuffered done channel is let go by  *)
(* this; the others closed it, or put their value in it, as they returned.  *)
Wait(p) ==
    /\ ShutdownStep("wait", p)
    /\ part[p] \in {"off", "finishing", "failing", "returned"}
    /\ part' = [part EXCEPT ![p] = IF @ = "off" THEN @ ELSE "returned"]
    /\ errC' = IF p = "exchange" /\ part[p] = "failing" THEN errC \cup {p} ELSE errC
    /\ exchangeErr' = (exchangeErr \/ (p = "receive" /\ part[p] = "failing"))
    /\ UNCHANGED <<cfg, toConfirm, main, interrupted, quit, muxVars, generators,
                   receiveVars, lnClosed, failures>>

AllTold ==
    /\ main = "shutdown"
    /\ step = Len(ShutdownSteps)
    /\ main' = "join"
    /\ UNCHANGED <<cfg, toConfirm, step, interrupted, part, quit, errC, exchangeErr,
                   muxVars, generators, receiveVars, lnClosed, failures>>

(* wg.Wait                                                                  *)
Join ==
    /\ main = "join"
    /\ \A p \in Tasks : part[p] \in {"off", "returned"}
    /\ main' = "stopped"
    /\ UNCHANGED <<cfg, toConfirm, step, interrupted, part, quit, errC, exchangeErr,
                   muxVars, generators, receiveVars, lnClosed, failures>>

MainStep ==
    \/ ConfigRefused \/ LoadConfig \/ StartScanners \/ NoBtcScanner \/ StartMultiplexer
    \/ StartSender \/ StartExchange \/ StartTeller \/ StartMonitor \/ Select
    \/ (\E p \in Parts : Close(p)) \/ CloseOutChan \/ (\E p \in Parts : Wait(p))
    \/ AllTold \/ Join

-----------------------------------------------------------------------------
(* The block scanners, the send service and the teller server               *)

Moves(p, from, to) ==
    /\ Alive
    /\ part[p] \in from
    /\ part' = [part EXCEPT ![p] = to]

(* A block scanner has its initial block.                                   *)
ScannerUp(p) ==
    /\ p \in {"btc", "sky"}
    /\ Moves(p, {"starting"}, "running")
    /\ UNCHANGED <<cfg, toConfirm, mainVars, quit, errC, exchangeErr, muxVars,
                   generators, receiveVars, lnClosed, failures>>

Failure ==
    /\ failures < MaxFailures
    /\ failures' = failures + 1

(* `background` sends an error to run(); the servers return none once quit. *)
TaskFails(p) ==
    /\ Failure
    /\ \/ p \in {"btc", "sky"} /\ Moves(p, {"starting"}, "returned")
       \/ p = "teller" /\ Moves(p, {"running"}, "returned")
       \/ p = "monitor" /\ Moves(p, {"built", "running"}, "returned")
    /\ errC' = IF p \in quit \cap {"teller", "monitor"} THEN errC ELSE errC \cup {p}
    /\ UNCHANGED <<cfg, toConfirm, mainVars, quit, exchangeErr, muxVars, generators,
                   receiveVars, lnClosed>>

TaskQuits(p) ==
    /\ p \in quit \cap {"btc", "sendService", "teller"}
    /\ Moves(p, {"starting", "running"}, "returned")
    /\ UNCHANGED <<cfg, toConfirm, mainVars, quit, errC, exchangeErr, muxVars,
                   generators, receiveVars, lnClosed, failures>>

-----------------------------------------------------------------------------
(* The monitor: Run sets m.ln and listens; Shutdown closes an m.ln that it  *)
(* sees, without waiting.  One that it does not see listens for ever.       *)

MonitorStep ==
    /\ \/ Moves("monitor", {"starting"}, "built")
       \/ ~lnClosed /\ Moves("monitor", {"built"}, "running")
       \/ lnClosed /\ Moves("monitor", {"built", "running"}, "returned")
    /\ UNCHANGED <<cfg, toConfirm, mainVars, quit, errC, exchangeErr, muxVars,
                   generators, receiveVars, lnClosed, failures>>

-----------------------------------------------------------------------------
(* Multiplex                                                                *)

(* The goroutine of c is handed a deposit.                                  *)
Handed(c) ==
    /\ Alive
    /\ forwarder[c] = "waiting"
    /\ made < MaxDeposits
    /\ made' = made + 1
    /\ forwarder' = [forwarder EXCEPT ![c] = "holding"]
    /\ UNCHANGED <<cfg, toConfirm, mainVars, part, quit, errC, exchangeErr, scanners,
                   outChan, outClosed, generators, receiveVars, lnClosed, failures>>

ForwarderTakes(c) ==
    /\ part[IF c = "BTC" THEN "btc" ELSE "sky"] = "running"
    /\ Handed(c)

(* The handler of the dummy scanner, which is registered for BTC, takes a   *)
(* deposit for any address, and of any coin type.                           *)
AddDummyDeposit ==
    /\ cfg.dummyScanner
    /\ Handed("BTC")

ForwarderSends(c) ==
    /\ Alive
    /\ forwarder[c] = "holding"
    /\ ~outClosed
    /\ outChan < OutCap
    /\ outChan' = outChan + 1
    /\ forwarder' = [forwarder EXCEPT ![c] = "waiting"]
    /\ UNCHANGED <<cfg, toConfirm, mainVars, part, quit, errC, exchangeErr, scanners,
                   outClosed, made, generators, receiveVars, lnClosed, failures>>

(* A send on a closed channel, also one that was blocked, panics.           *)
ForwarderPanics(c) ==
    /\ Alive
    /\ forwarder[c] = "holding"
    /\ outClosed
    /\ main' = "panicked"
    /\ UNCHANGED <<cfg, toConfirm, step, interrupted, part, quit, errC, exchangeErr,
                   muxVars, generators, receiveVars, lnClosed, failures>>

ForwarderQuits(c) ==
    /\ Alive
    /\ forwarder[c] = "waiting"
    /\ "mux" \in quit
    /\ forwarder' = [forwarder EXCEPT ![c] = "gone"]
    /\ UNCHANGED <<cfg, toConfirm, mainVars, part, quit, errC, exchangeErr, scanners,
                   outChan, outClosed, made, generators, receiveVars, lnClosed, failures>>

MuxReturns ==
    /\ \A c \in scanners : forwarder[c] = "gone"
    /\ Moves("mux", {"running"}, "returned")
    /\ UNCHANGED <<cfg, toConfirm, mainVars, quit, errC, exchangeErr, muxVars,
                   generators, receiveVars, lnClosed, failures>>

MuxStep == (\E c \in Coins : ForwarderSends(c) \/ ForwarderPanics(c) \/ ForwarderQuits(c))
           \/ MuxReturns

-----------------------------------------------------------------------------
(* Receive and Buy                                                          *)

(* GetDepositInfoArray of Receive.Run, or of Send.Run, fails.  Receive then *)
(* waits in its unbuffered done for a Shutdown before it returns the error. *)
LoadFails(p) ==
    /\ Failure
    /\ \/ p = "receive" /\ Moves(p, {"starting"}, "failing")
       \/ p = "send" /\ cfg.sendEnabled /\ Moves(p, {"starting"}, "returned")
    /\ exchangeErr' = (exchangeErr \/ p = "send")
    /\ UNCHANGED <<cfg, toConfirm, mainVars, quit, errC, muxVars, generators,
                   receiveVars, lnClosed>>

ReceiveQueues ==
    /\ \/ Moves("receive", {"starting"}, "queue") /\ UNCHANGED receiveVars
       \/ /\ undecided > 0 /\ deposits < DepositCap
          /\ Moves("receive", {"queue"}, "queue")
          /\ undecided' = undecided - 1 /\ deposits' = deposits + 1
       \/ undecided = 0 /\ Moves("receive", {"queue"}, "running") /\ UNCHANGED receiveVars
    /\ UNCHANGED <<cfg, toConfirm, mainVars, quit, errC, exchangeErr, muxVars,
                   generators, lnClosed, failures>>

(* A note is read, saved and answered; it is pushed only if it was saved.   *)
ReceiveReads ==
    /\ outChan > 0
    /\ outChan' = outChan - 1
    /\ Moves("receive", {"running"}, "push") \/ Moves("receive", {"running"}, "running")
    /\ UNCHANGED <<cfg, toConfirm, mainVars, quit, errC, exchangeErr, scanners, forwarder,
                   outClosed, made, generators, receiveVars, lnClosed, failures>>

ReceivePushes ==
    /\ deposits < DepositCap
    /\ deposits' = deposits + 1
    /\ Moves("receive", {"push"}, "running")
    /\ UNCHANGED <<cfg, toConfirm, mainVars, quit, errC, exchangeErr, muxVars, generators,
                   undecided, lnClosed, failures>>

ReceiveEnds ==
    /\ "receive" \in quit \/ (outClosed /\ outChan = 0)
    /\ Moves("receive", {"running"}, "finishing")
    /\ UNCHANGED <<cfg, toConfirm, mainVars, quit, errC, exchangeErr, muxVars, generators,
                   receiveVars, lnClosed, failures>>

BuyReads ==
    /\ deposits > 0
    /\ deposits' = deposits - 1
    /\ Moves("buy", {"running"}, "running")
    /\ UNCHANGED <<cfg, toConfirm, mainVars, quit, errC, exchangeErr, muxVars, generators,
                   undecided, lnClosed, failures>>

BuyQuits ==
    /\ "buy" \in quit
    /\ Moves("buy", {"running"}, "finishing")
    /\ UNCHANGED <<cfg, toConfirm, mainVars, quit, errC, exchangeErr, muxVars, generators,
                   receiveVars, lnClosed, failures>>

-----------------------------------------------------------------------------
(* Send and Exchange.Run                                                    *)

(* runSend has the waiting_confirm row and calls sender.IsTxConfirmed.      *)
SendAsks ==
    /\ toConfirm
    /\ cfg.sendEnabled
    /\ part["sendService"] # "off"
    /\ Moves("send", {"starting", "running"}, "ask")
    /\ UNCHANGED <<cfg, toConfirm, mainVars, quit, errC, exchangeErr, muxVars, generators,
                   receiveVars, lnClosed, failures>>

(* sendAPI is nil.                                                          *)
SendPanics ==
    /\ Alive
    /\ toConfirm
    /\ cfg.sendEnabled
    /\ part["sendService"] = "off"
    /\ part["send"] \in {"starting", "running"}
    /\ main' = "panicked"
    /\ UNCHANGED <<cfg, toConfirm, step, interrupted, part, quit, errC, exchangeErr,
                   muxVars, generators, receiveVars, lnClosed, failures>>

(* The send service has an answer, and Send is done with the row.           *)
SendAnswered ==
    /\ part["sendService"] = "running"
    /\ Moves("send", {"ask"}, "running")
    /\ toConfirm' = FALSE
    /\ UNCHANGED <<cfg, mainVars, quit, errC, exchangeErr, muxVars, generators,
                   receiveVars, lnClosed, failures>>

SendRuns ==
    /\ ~(toConfirm /\ cfg.sendEnabled)
    /\ Moves("send", {"starting"}, "running")
    /\ UNCHANGED <<cfg, toConfirm, mainVars, quit, errC, exchangeErr, muxVars, generators,
                   receiveVars, lnClosed, failures>>

(* Its done channel holds one value: nothing keeps it from returning.       *)
SendQuits ==
    /\ "send" \in quit
    /\ Moves("send", {"starting", "running"}, "returned")
    /\ UNCHANGED <<cfg, toConfirm, mainVars, quit, errC, exchangeErr, muxVars, generators,
                   receiveVars, lnClosed, failures>>

(* Exchange.Run sees quit or "Terminating early", and then waits for its    *)
(* three goroutines, which the error has not told to end.                   *)
ExchangeStep ==
    /\ \/ "exchange" \in quit /\ Moves("exchange", {"running"}, "join")
       \/ exchangeErr /\ Moves("exchange", {"running"}, "terminating")
       \/ /\ \A p \in ExchangeParts : part[p] = "returned"
          /\ \/ Moves("exchange", {"join"}, "finishing")
             \/ Moves("exchange", {"terminating"}, "failing")
    /\ UNCHANGED <<cfg, toConfirm, mainVars, quit, errC, exchangeErr, muxVars, generators,
                   receiveVars, lnClosed, failures>>

-----------------------------------------------------------------------------
Init ==
    /\ \E c \in Configs : cfg = c.config /\ toConfirm = c.toConfirm
    /\ main = "config" /\ step = 0 /\ interrupted = FALSE
    /\ part = [p \in Parts |-> "off"]
    /\ quit = {} /\ errC = {} /\ exchangeErr = FALSE
    /\ scanners = {} /\ generators = {}
    /\ forwarder = [c \in Coins |-> "off"]
    /\ outChan = 0 /\ outClosed = FALSE /\ made = 0
    /\ undecided = Undecided /\ deposits = 0
    /\ lnClosed = FALSE /\ failures = 0

(* What the goroutines of the process do.                                   *)
ProcessStep ==
    \/ MainStep
    \/ (\E p \in Parts : ScannerUp(p) \/ TaskQuits(p))
    \/ MonitorStep
    \/ MuxStep
    \/ ReceiveQueues \/ ReceiveReads \/ ReceivePushes \/ ReceiveEnds
    \/ BuyReads \/ BuyQuits
    \/ SendAsks \/ SendPanics \/ SendRuns \/ SendQuits
    \/ ExchangeStep

(* What befalls it: interrupts, failures, deposits, the kitty node.         *)
Environment ==
    \/ Interrupt
    \/ StartFails
    \/ (\E p \in Parts : TaskFails(p) \/ LoadFails(p))
    \/ (\E c \in Coins : ForwarderTakes(c))
    \/ AddDummyDeposit
    \/ SendAnswered

Next == ProcessStep \/ Environment

Spec == Init /\ [][Next]_vars

(* The process runs: no step of it can be repeated for ever, so that this   *)
(* is as much as fairness for each goroutine.  Nothing is owed by the rest. *)
FairSpec == Spec /\ WF_vars(ProcessStep)

-----------------------------------------------------------------------------
(* Properties *)

(* Receive pushes to its deposits channel without a look at quit: whenever  *)
(* it may have to wait there, Buy runs and has not been told to quit.       *)
PushHasReader ==
    Alive /\ part["receive"] \in {"queue", "push"} =>
        part["buy"] = "running" /\ "buy" \notin quit

(* Start, wiring and shutdown panic in two ways only: outChan was closed on *)
(* a deposit in hand, or the dummy sender, which is nil, was asked about a  *)
(* row.  A teller that is not shut down and has a real sender meets neither. *)
(* (A scanner that goes on with a nil block is RefetchFails of BlockScanner.) *)
PanicCauses ==
    main = "panicked" =>
        \/ outClosed /\ \E c \in Coins : forwarder[c] = "holding"
        \/ cfg.dummySender /\ cfg.sendEnabled /\ toConfirm

(* What is bound is scanned: a coin that has an address pool has a scanner  *)
(* when teller serves, but for SKY under the dummy scanner.                 *)
BoundIsScanned ==
    part["teller"] # "off" =>
        \A c \in generators : c \in scanners \/ (c = "SKY" /\ cfg.dummyScanner)

(* A configuration that was not refused gives a server that can serve.      *)
AcceptedIsServable == part["teller"] # "off" => Servable(cfg.web)

(* The SKY scanner runs, and no shutdown step is about it.                  *)
SkyRuns == main = "join" /\ part["sky"] = "running"

(* The monitor listens, having missed its Shutdown.                         *)
MonitorRuns == main = "join" /\ part["monitor"] = "running" /\ ~lnClosed

(* Send waits for the kitty node.                                           *)
SendWaits == main = "shutdown" /\ part["send"] = "ask"

Failed == \E p \in {"btc", "sky", "teller", "monitor"} : part[p] = "returned"

(* An interrupt, and a scanner, a server or the monitor that ends by        *)
(* itself, end the process, unless the SKY scanner runs, the monitor missed *)
(* its Shutdown, or the kitty node does not have a transaction that Send    *)
(* asks for.  An exchange that has terminated early is no obstacle, and not *)
(* a reason either: nobody hears of it before the shutdown.                 *)
EndsWhenDue ==
    interrupted \/ Failed ~> main \in Over \/ SkyRuns \/ MonitorRuns \/ SendWaits
=============================================================================
