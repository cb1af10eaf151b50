---------------------------- MODULE LifecycleProofs ----------------------------
(***************************************************************************)
(* Proofs about Lifecycle, for any configurations, channel capacities,     *)
(* loaded rows, deposits and failures.                                     *)
(***************************************************************************)
EXTENDS Lifecycle, TLAPS

-----------------------------------------------------------------------------
(* The inductive invariant *)

(* What each stage of the start relies on, and what it has not done yet.    *)
StageInv ==
    /\ main \in Starting => step = 0 /\ quit = {}
    /\ main \in Starting \ {"monitor"} => part["teller"] = "off"
    /\ main \notin {"config", "failed", "panicked"} => Validate(cfg)
    /\ part["teller"] # "off" => Validate(cfg)
    /\ main \in {"multiplexer", "sender", "exchange", "teller"} =>
          (cfg.sky /\ ~cfg.dummyScanner => "SKY" \in scanners)
    /\ main \in {"sender", "exchange", "teller"} => "BTC" \in scanners
    /\ main = "exchange" => part["sendService"] # "off" \/ cfg.dummySender
    /\ part["send"] # "off" => part["sendService"] # "off" \/ cfg.dummySender

(* Receive is waited for before Buy is told: while Receive is there Buy     *)
(* runs.                                                                    *)
ReceiveInv ==
    /\ step >= 11 => part["receive"] \in {"off", "returned"}
    /\ "buy" \in quit => step >= 12
    /\ part["receive"] \notin {"off", "returned"} => part["buy"] = "running"

LifeInv ==
    /\ TypeOK
    /\ StageInv
    /\ ReceiveInv
    /\ PanicCauses
    /\ BoundIsScanned

-----------------------------------------------------------------------------
(* Configuration *)

(* Web.Validate lets pass only what HTTPServer.Run can serve.               *)
LEMMA ValidServes ==
    ASSUME NEW web \in SUBSET WebSettings, WebValidate(web)
    PROVE  Servable(web)
<1>1. Listeners(web) # {}
  BY DEF WebValidate, Listeners
<1>2. SslHost(web) # {} => "https_addr" \in Listeners(web)
  BY DEF WebValidate, SslHost, Listeners
<1>3. ASSUME "https_addr" \in web
      PROVE  CertFrom(web) \in {{"acme"}, {"tls_cert", "tls_key"}}
  <2>1. CASE "auto_tls_host" \in web
    BY <2>1 DEF CertFrom
  <2>2. CASE "auto_tls_host" \notin web
    BY <1>3, <2>2 DEF WebValidate, CertFrom
  <2> QED BY <2>1, <2>2
<1> QED BY <1>1, <1>2, <1>3 DEF Servable

-----------------------------------------------------------------------------
(* Types *)

LEMMA TypesMain ==
    ASSUME TypeOK, MainStep \/ Interrupt \/ StartFails
    PROVE  TypeOK'
<1> USE DEF TypeOK, Places, mainVars, muxVars, receiveVars, Starting, Over
<1>1. CASE ConfigRefused \/ LoadConfig \/ NoBtcScanner \/ Select \/ AllTold \/ Join
           \/ Interrupt \/ StartFails
  BY <1>1 DEF ConfigRefused, LoadConfig, NoBtcScanner, Select, AllTold, Join, Interrupt, StartFails
<1>2. CASE StartScanners
  BY <1>2 DEF StartScanners, Start, Coins
<1>3. CASE StartMultiplexer
  BY <1>3 DEF StartMultiplexer, Start, Coins
<1>4. CASE StartSender \/ StartExchange \/ StartMonitor
  BY <1>4 DEF StartSender, StartExchange, StartMonitor, Start
<1>5. CASE StartTeller
  BY <1>5 DEF StartTeller, Start, Pools, Coins
<1>6. ASSUME NEW p \in Parts, Close(p) PROVE TypeOK'
  <2>1. lnClosed' \in BOOLEAN
    BY <1>6 DEF Close
  <2> QED BY <1>6, <2>1 DEF Close, ShutdownStep
<1>7. CASE CloseOutChan
  BY <1>7 DEF CloseOutChan, ShutdownStep
<1>8. ASSUME NEW p \in Parts, Wait(p) PROVE TypeOK'
  <2>1. errC' \subseteq Tasks /\ exchangeErr' \in BOOLEAN /\ step' \in Nat
    <3>1. errC' \subseteq errC \cup {"exchange"} /\ errC \subseteq Tasks /\ "exchange" \in Tasks
      BY <1>8 DEF Wait, Tasks
    <3>2. exchangeErr' = (exchangeErr \/ (p = "receive" /\ part[p] = "failing"))
      BY <1>8 DEF Wait
    <3>3. step' = step + 1
      BY <1>8 DEF Wait, ShutdownStep
    <3> QED BY <3>1, <3>2, <3>3
  <2>2. part' \in [Parts -> Places]
    BY <1>8 DEF Wait
  <2> QED BY <1>8, <2>1, <2>2 DEF Wait
<1> QED BY <1>1, <1>2, <1>3, <1>4, <1>5, <1>6, <1>7, <1>8 DEF MainStep

LEMMA TypesParts ==
    ASSUME TypeOK, NEW p \in Parts,
           \/ ScannerUp(p) \/ TaskQuits(p) \/ TaskFails(p) \/ LoadFails(p) \/ MonitorStep
           \/ SendAsks \/ SendAnswered \/ SendRuns \/ SendQuits \/ ExchangeStep
    PROVE  TypeOK'
<1> USE DEF TypeOK, Places, Moves, mainVars, muxVars, receiveVars
<1>1. CASE ScannerUp(p) \/ TaskQuits(p)
  BY <1>1 DEF ScannerUp, TaskQuits
<1>2. CASE TaskFails(p)
  <2>1. failures' \in 0..MaxFailures
    BY <1>2, LifecycleAssumption DEF TaskFails, Failure
  <2>2. errC' \subseteq Tasks
    BY <1>2 DEF TaskFails, Tasks
  <2>3. part' \in [Parts -> Places]
    BY <1>2 DEF TaskFails
  <2> QED BY <1>2, <2>1, <2>2, <2>3 DEF TaskFails
<1>3. CASE LoadFails(p)
  BY <1>3, LifecycleAssumption DEF LoadFails, Failure
<1>4. CASE MonitorStep
  BY <1>4 DEF MonitorStep
<1>5. CASE SendAsks \/ SendAnswered \/ SendRuns \/ SendQuits
  BY <1>5 DEF SendAsks, SendAnswered, SendRuns, SendQuits
<1>6. CASE ExchangeStep
  BY <1>6 DEF ExchangeStep
<1> QED BY <1>1, <1>2, <1>3, <1>4, <1>5, <1>6

LEMMA TypesDeposits ==
    ASSUME TypeOK, NEW c \in Coins,
           \/ Handed(c) \/ ForwarderSends(c) \/ ForwarderPanics(c) \/ ForwarderQuits(c)
           \/ MuxReturns \/ SendPanics \/ ReceiveQueues \/ ReceiveReads \/ ReceivePushes
           \/ ReceiveEnds \/ BuyReads \/ BuyQuits
    PROVE  TypeOK'
<1> USE LifecycleAssumption DEF TypeOK, Places, Moves, mainVars, muxVars, receiveVars
<1>1. CASE Handed(c)
  BY <1>1 DEF Handed
<1>2. CASE ForwarderSends(c)
  BY <1>2 DEF ForwarderSends
<1>3. CASE ForwarderPanics(c) \/ SendPanics
  BY <1>3 DEF ForwarderPanics, SendPanics, Over
<1>4. CASE ForwarderQuits(c)
  BY <1>4 DEF ForwarderQuits
<1>5. CASE MuxReturns \/ ReceiveEnds \/ BuyQuits
  BY <1>5 DEF MuxReturns, ReceiveEnds, BuyQuits
<1>6. CASE ReceiveQueues
  BY <1>6 DEF ReceiveQueues
<1>7. CASE ReceiveReads
  BY <1>7 DEF ReceiveReads
<1>8. CASE ReceivePushes
  <2>1. deposits' \in 0..DepositCap
    BY <1>8 DEF ReceivePushes
  <2> QED BY <1>8, <2>1 DEF ReceivePushes
<1>9. CASE BuyReads
  <2>1. deposits' \in 0..DepositCap
    BY <1>9 DEF BuyReads
  <2> QED BY <1>9, <2>1 DEF BuyReads
<1> QED BY <1>1, <1>2, <1>3, <1>4, <1>5, <1>6, <1>7, <1>8, <1>9

LEMMA TypesNext == ASSUME TypeOK, [Next]_vars PROVE TypeOK'
<1>1. CASE UNCHANGED vars
  BY <1>1 DEF TypeOK, vars, mainVars, muxVars, receiveVars
<1>2. CASE Next
  <2>1. "BTC" \in Coins /\ "btc" \in Parts
    BY DEF Coins, Parts, Tasks
  <2> QED BY <1>2, <2>1, TypesMain, TypesParts, TypesDeposits
          DEF Next, ProcessStep, Environment, MuxStep, ForwarderTakes, AddDummyDeposit
<1> QED BY <1>1, <1>2

-----------------------------------------------------------------------------
(* Kinds of steps *)

(* A part that is there goes on: Receive while it has not returned, Buy     *)
(* only when it is told to.                                                 *)
LEMMA PartGoesOn ==
    ASSUME LifeInv, TypeOK', NEW p \in Parts, NEW v,
           Alive, part' = [part EXCEPT ![p] = v], part[p] # "off", v # "off",
           p = "receive" => part[p] # "returned",
           p = "buy" => v = "running" \/ "buy" \in quit,
           UNCHANGED <<cfg, main, step, quit, scanners, generators>>
    PROVE  LifeInv'
<1>1. \A q \in Parts : (part'[q] = "off" <=> part[q] = "off") /\ (q # p => part'[q] = part[q])
  BY DEF LifeInv, TypeOK
<1>2. {"teller", "send", "sendService", "receive", "buy"} \subseteq Parts
  BY DEF Parts, Tasks, ExchangeParts
<1>3. StageInv'
  BY <1>1, <1>2 DEF LifeInv, StageInv
<1>4. ReceiveInv'
  <2>1. part[p] # "off" /\ part'[p] = v
    BY DEF LifeInv, TypeOK
  <2>2. step \in Nat
    BY DEF LifeInv, TypeOK
  <2> QED BY <1>1, <1>2, <2>1, <2>2 DEF LifeInv, ReceiveInv
<1>5. PanicCauses' /\ BoundIsScanned'
  BY <1>1, <1>2 DEF LifeInv, PanicCauses, BoundIsScanned, Alive, Over
<1> QED BY <1>3, <1>4, <1>5 DEF LifeInv

(* A step of run(), or of a forwarder, that leaves the parts alone.         *)
LEMMA MainGoesOn ==
    ASSUME LifeInv, TypeOK', main \notin Over,
           \/ main' = main
           \/ main' = "failed"
           \/ main' \in {"shutdown", "join", "stopped"} /\ Validate(cfg),
           UNCHANGED <<cfg, part, step, quit, scanners, generators>>
    PROVE  LifeInv'
<1>1. StageInv'
  BY DEF LifeInv, StageInv, Starting
<1>2. ReceiveInv' /\ BoundIsScanned'
  BY DEF LifeInv, ReceiveInv, BoundIsScanned
<1>3. PanicCauses'
  BY DEF PanicCauses, Over
<1> QED BY <1>1, <1>2, <1>3 DEF LifeInv

-----------------------------------------------------------------------------
(* Starting *)

LEMMA InitInv == ASSUME Init PROVE LifeInv
<1>1. PICK c \in Configs : cfg = c.config /\ toConfirm = c.toConfirm
  BY DEF Init
<1>2. TypeOK
  <2>1. cfg \in Config /\ toConfirm \in BOOLEAN
    BY <1>1, LifecycleAssumption
  <2>2. undecided \in 0..Undecided /\ deposits \in 0..DepositCap /\ outChan \in 0..OutCap
        /\ made \in 0..MaxDeposits /\ failures \in 0..MaxFailures
    BY LifecycleAssumption DEF Init
  <2>3. /\ main \in Starting /\ step \in Nat /\ quit = {} /\ errC = {} /\ scanners = {}
        /\ generators = {} /\ forwarder \in [Coins -> {"off", "waiting", "holding", "gone"}]
        /\ interrupted \in BOOLEAN /\ exchangeErr \in BOOLEAN /\ outClosed \in BOOLEAN
        /\ lnClosed \in BOOLEAN
    BY DEF Init, Starting
  <2>4. part \in [Parts -> Places]
    BY DEF Init, Places
  <2> QED BY <2>1, <2>2, <2>3, <2>4 DEF TypeOK
<1>3. part = [p \in Parts |-> "off"] /\ {"teller", "send", "receive"} \subseteq Parts
  BY DEF Init, Parts, Tasks, ExchangeParts
<1>4. StageInv /\ ReceiveInv /\ PanicCauses /\ BoundIsScanned
  BY <1>3 DEF Init, StageInv, ReceiveInv, PanicCauses, BoundIsScanned, Starting
<1> QED BY <1>2, <1>4 DEF LifeInv

LEMMA StartKeeps ==
    ASSUME LifeInv, TypeOK',
           LoadConfig \/ StartScanners \/ StartMultiplexer \/ StartSender \/ StartExchange
              \/ StartTeller \/ StartMonitor
    PROVE  LifeInv'
<1> DEFINE seen == {"teller", "send", "sendService", "receive", "buy"}
<1>1. seen \subseteq Parts /\ step \in Nat /\ cfg \in Config
  BY DEF LifeInv, TypeOK, Parts, Tasks, ExchangeParts
<1>2. main \in Starting /\ main' \in (Starting \ {"config"}) \cup {"select"} /\ step = 0 /\ quit = {}
  BY DEF LoadConfig, StartScanners, StartMultiplexer, StartSender, StartExchange, StartTeller,
         StartMonitor, Start, Starting, LifeInv, StageInv
<1>3. UNCHANGED <<cfg, step, quit>>
  BY DEF LoadConfig, StartScanners, StartMultiplexer, StartSender, StartExchange, StartTeller,
         StartMonitor, mainVars
<1>4. PanicCauses'
  BY <1>2 DEF PanicCauses, Starting
<1>5. CASE LoadConfig
  <2>1. StageInv' /\ ReceiveInv' /\ BoundIsScanned'
    BY <1>2, <1>3, <1>5 DEF LoadConfig, LifeInv, StageInv, ReceiveInv, BoundIsScanned, Starting, muxVars
  <2> QED BY <1>4, <2>1 DEF LifeInv
<1>6. CASE StartScanners
  <2>1. main = "scanners" /\ main' = "multiplexer" /\ UNCHANGED generators
    BY <1>6 DEF StartScanners, Start
  <2>2. \A p \in seen : part'[p] = part[p]
    BY <1>1, <1>6 DEF StartScanners, Start, RealScanners
  <2>3. cfg.sky /\ ~cfg.dummyScanner => scanners' = {"SKY"}
    BY <1>6 DEF StartScanners, RealScanners
  <2>4. StageInv' /\ ReceiveInv' /\ BoundIsScanned'
    BY <1>2, <1>3, <2>1, <2>2, <2>3 DEF LifeInv, StageInv, ReceiveInv, BoundIsScanned, Starting
  <2> QED BY <1>4, <2>4 DEF LifeInv
<1>7. CASE StartMultiplexer
  <2>1. /\ main = "multiplexer" /\ main' = "sender" /\ UNCHANGED generators
        /\ scanners' = scanners \cup {"BTC"}
    BY <1>7 DEF StartMultiplexer, Start
  <2>2. \A p \in seen : part'[p] = part[p]
    BY <1>1, <1>7 DEF StartMultiplexer, Start
  <2>3. StageInv' /\ ReceiveInv' /\ BoundIsScanned'
    BY <1>2, <1>3, <2>1, <2>2 DEF LifeInv, StageInv, ReceiveInv, BoundIsScanned, Starting
  <2> QED BY <1>4, <2>3 DEF LifeInv
<1>8. CASE StartSender
  <2>1. main = "sender" /\ main' = "exchange" /\ UNCHANGED <<generators, scanners>>
    BY <1>8 DEF StartSender, Start, muxVars
  <2>2. /\ \A p \in seen \ {"sendService"} : part'[p] = part[p]
        /\ part'["sendService"] = IF cfg.dummySender THEN part["sendService"] ELSE "running"
    BY <1>1, <1>8 DEF StartSender, Start
  <2>3. StageInv' /\ ReceiveInv' /\ BoundIsScanned'
    BY <1>2, <1>3, <2>1, <2>2 DEF LifeInv, StageInv, ReceiveInv, BoundIsScanned, Starting
  <2> QED BY <1>4, <2>3 DEF LifeInv
<1>9. CASE StartExchange
  <2>1. main = "exchange" /\ main' = "teller" /\ UNCHANGED <<generators, scanners>>
    BY <1>9 DEF StartExchange, Start, muxVars
  <2>2. /\ part'["teller"] = part["teller"] /\ part'["sendService"] = part["sendService"]
        /\ part'["receive"] = "starting" /\ part'["buy"] = "running"
    BY <1>1, <1>9 DEF StartExchange, Start, ExchangeParts
  <2>3. StageInv' /\ ReceiveInv' /\ BoundIsScanned'
    BY <1>2, <1>3, <2>1, <2>2 DEF LifeInv, StageInv, ReceiveInv, BoundIsScanned, Starting
  <2> QED BY <1>4, <2>3 DEF LifeInv
<1>10. CASE StartTeller
  <2>1. /\ main = "teller" /\ main' = "monitor" /\ UNCHANGED scanners
        /\ generators' = {c \in Coins : (c = "BTC" /\ cfg.btc) \/ (c = "SKY" /\ cfg.sky)}
    BY <1>10 DEF StartTeller, Start, Pools, muxVars
  <2>2. \A p \in seen \ {"teller"} : part'[p] = part[p]
    BY <1>1, <1>10 DEF StartTeller, Start
  <2>3. StageInv' /\ ReceiveInv'
    BY <1>2, <1>3, <2>1, <2>2 DEF LifeInv, StageInv, ReceiveInv, Starting
  <2>4. BoundIsScanned'
    BY <1>3, <2>1 DEF LifeInv, StageInv, BoundIsScanned, Coins
  <2> QED BY <1>4, <2>3, <2>4 DEF LifeInv
<1>11. CASE StartMonitor
  <2>1. main = "monitor" /\ main' = "select" /\ UNCHANGED <<generators, scanners>>
    BY <1>11 DEF StartMonitor, Start, muxVars
  <2>2. \A p \in seen : part'[p] = part[p]
    BY <1>1, <1>11 DEF StartMonitor, Start
  <2>3. StageInv' /\ ReceiveInv' /\ BoundIsScanned'
    BY <1>2, <1>3, <2>1, <2>2 DEF LifeInv, StageInv, ReceiveInv, BoundIsScanned, Starting
  <2> QED BY <1>4, <2>3 DEF LifeInv
<1> QED BY <1>5, <1>6, <1>7, <1>8, <1>9, <1>10, <1>11

-----------------------------------------------------------------------------
(* Shutting down *)

(* Where the steps are that the invariant counts.                           *)
LEMMA ShutdownOrder ==
    ASSUME NEW i \in 1..Len(ShutdownSteps)
    PROVE  /\ ShutdownSteps[i] = <<"close", "buy">> => i = 12
           /\ ShutdownSteps[i] = <<"wait", "buy">> => i = 13
           /\ ShutdownSteps[i] = <<"wait", "receive">> <=> i = 11
           /\ ShutdownSteps[i] = <<"close", "outChan">> => i = 5
<1>1. Len(ShutdownSteps) = 18
  BY DEF ShutdownSteps
<1>2. \/ i = 1 \/ i = 2 \/ i = 3 \/ i = 4 \/ i = 5 \/ i = 6 \/ i = 7 \/ i = 8 \/ i = 9
      \/ i = 10 \/ i = 11 \/ i = 12 \/ i = 13 \/ i = 14 \/ i = 15 \/ i = 16 \/ i = 17 \/ i = 18
  BY <1>1
<1> QED BY <1>2 DEF ShutdownSteps

LEMMA CloseKeeps ==
    ASSUME LifeInv, TypeOK', NEW p \in Parts, Close(p)
    PROVE  LifeInv'
<1>1. /\ main = "shutdown" /\ step' = step + 1 /\ quit' = quit \cup {p} /\ step \in Nat
      /\ UNCHANGED <<cfg, toConfirm, main, part, scanners, generators>>
  BY DEF Close, ShutdownStep, muxVars, LifeInv, TypeOK
<1>2. /\ step + 1 \in 1..Len(ShutdownSteps) /\ ShutdownSteps[step + 1] = <<"close", p>>
  BY <1>1 DEF Close, ShutdownStep, ShutdownSteps
<1>3. (p = "buy" => step = 11) /\ step # 10
  BY <1>1, <1>2, ShutdownOrder
<1>4. StageInv' /\ BoundIsScanned' /\ PanicCauses'
  BY <1>1 DEF LifeInv, StageInv, BoundIsScanned, PanicCauses, Starting
<1>5. ReceiveInv'
  BY <1>1, <1>3 DEF LifeInv, ReceiveInv
<1> QED BY <1>4, <1>5 DEF LifeInv

LEMMA CloseOutChanKeeps ==
    ASSUME LifeInv, TypeOK', CloseOutChan
    PROVE  LifeInv'
<1>1. /\ main = "shutdown" /\ step' = step + 1 /\ step = 4
      /\ UNCHANGED <<cfg, main, part, quit, scanners, generators>>
  <2>1. step \in Nat /\ step + 1 \in 1..Len(ShutdownSteps)
        /\ ShutdownSteps[step + 1] = <<"close", "outChan">>
    BY DEF CloseOutChan, ShutdownStep, LifeInv, TypeOK, ShutdownSteps
  <2>2. step = 4
    BY <2>1, ShutdownOrder
  <2> QED BY <2>2 DEF CloseOutChan, ShutdownStep
<1>2. StageInv' /\ BoundIsScanned' /\ PanicCauses' /\ ReceiveInv'
  BY <1>1 DEF LifeInv, StageInv, BoundIsScanned, PanicCauses, ReceiveInv, Starting
<1> QED BY <1>2 DEF LifeInv

LEMMA WaitKeeps ==
    ASSUME LifeInv, TypeOK', NEW p \in Parts, Wait(p)
    PROVE  LifeInv'
<1>1. /\ main = "shutdown" /\ step' = step + 1 /\ step \in Nat
      /\ UNCHANGED <<cfg, main, quit, scanners, generators>>
      /\ part' = [part EXCEPT ![p] = IF @ = "off" THEN @ ELSE "returned"]
  BY DEF Wait, ShutdownStep, muxVars, LifeInv, TypeOK
<1>2. \A q \in Parts : /\ (part'[q] = "off") <=> (part[q] = "off")
                       /\ (q # p) => (part'[q] = part[q])
                       /\ (q = p) => (part'[q] \in {"off", "returned"})
  BY <1>1 DEF LifeInv, TypeOK
<1>3. {"teller", "send", "sendService", "receive", "buy"} \subseteq Parts
  BY DEF Parts, Tasks, ExchangeParts
<1>4. (step = 10 => p = "receive") /\ (p = "buy" => step = 12)
  <2>1. step + 1 \in 1..Len(ShutdownSteps) /\ ShutdownSteps[step + 1] = <<"wait", p>>
    BY <1>1 DEF Wait, ShutdownStep, ShutdownSteps
  <2> QED BY <1>1, <2>1, ShutdownOrder
<1>5. StageInv' /\ BoundIsScanned' /\ PanicCauses'
  BY <1>1, <1>2, <1>3 DEF LifeInv, StageInv, BoundIsScanned, PanicCauses, Starting
<1>6. ReceiveInv'
  BY <1>1, <1>2, <1>3, <1>4 DEF LifeInv, ReceiveInv
<1> QED BY <1>5, <1>6 DEF LifeInv

-----------------------------------------------------------------------------
(* The parts *)

LEMMA PartsKeep ==
    ASSUME LifeInv, TypeOK', NEW p \in Parts,
           \/ ScannerUp(p) \/ TaskQuits(p) \/ TaskFails(p) \/ LoadFails(p) \/ MonitorStep
           \/ MuxReturns \/ ReceiveQueues \/ ReceiveReads \/ ReceivePushes \/ ReceiveEnds
           \/ BuyReads \/ BuyQuits
           \/ SendAsks \/ SendAnswered \/ SendRuns \/ SendQuits \/ ExchangeStep
    PROVE  LifeInv'
<1> USE DEF Moves, mainVars, muxVars, receiveVars
<1>1. Alive /\ UNCHANGED <<cfg, main, step, quit, scanners, generators>>
  BY DEF ScannerUp, TaskQuits, TaskFails, LoadFails, MonitorStep, MuxReturns, ReceiveQueues,
         ReceiveReads, ReceivePushes, ReceiveEnds, BuyReads, BuyQuits, SendAsks, SendAnswered,
         SendRuns, SendQuits, ExchangeStep
<1>2. CASE ScannerUp(p) \/ TaskQuits(p) \/ TaskFails(p)
  <2>1. \E v : v # "off" /\ part' = [part EXCEPT ![p] = v] /\ part[p] # "off"
    BY <1>2 DEF ScannerUp, TaskQuits, TaskFails
  <2>2. p # "receive" /\ p # "buy"
    BY <1>2 DEF ScannerUp, TaskQuits, TaskFails
  <2> QED BY <1>1, <2>1, <2>2, PartGoesOn
<1>3. CASE LoadFails(p) \/ ReceiveQueues \/ ReceiveReads \/ ReceivePushes \/ ReceiveEnds
  <2>1. "receive" \in Parts /\ "send" \in Parts
    BY DEF Parts, ExchangeParts
  <2>2. \E q \in {"receive", "send"} : \E v :
           /\ v # "off" /\ part' = [part EXCEPT ![q] = v]
           /\ part[q] \notin {"off", "returned"}
    BY <1>3 DEF LoadFails, ReceiveQueues, ReceiveReads, ReceivePushes, ReceiveEnds
  <2> QED BY <1>1, <2>1, <2>2, PartGoesOn
<1>4. CASE BuyReads \/ BuyQuits
  <2>1. "buy" \in Parts
    BY DEF Parts, ExchangeParts
  <2>2. \E v : /\ v # "off" /\ part' = [part EXCEPT !["buy"] = v] /\ part["buy"] # "off"
               /\ v = "running" \/ "buy" \in quit
    BY <1>4 DEF BuyReads, BuyQuits
  <2> QED BY <1>1, <2>1, <2>2, PartGoesOn
<1>5. CASE MonitorStep \/ MuxReturns \/ SendAsks \/ SendAnswered \/ SendRuns \/ SendQuits
           \/ ExchangeStep
  <2>1. {"monitor", "mux", "send", "exchange"} \subseteq Parts
    BY DEF Parts, Tasks, ExchangeParts
  <2>2. \E q \in {"monitor", "mux", "send", "exchange"} : \E v :
           v # "off" /\ part' = [part EXCEPT ![q] = v] /\ part[q] # "off"
    BY <1>5 DEF MonitorStep, MuxReturns, SendAsks, SendAnswered, SendRuns, SendQuits, ExchangeStep
  <2> QED BY <1>1, <2>1, <2>2, PartGoesOn
<1> QED BY <1>2, <1>3, <1>4, <1>5

(* The two steps that panic.                                                *)
LEMMA PanicsKeep ==
    ASSUME LifeInv, TypeOK', SendPanics \/ \E c \in Coins : ForwarderPanics(c)
    PROVE  LifeInv'
<1>1. /\ main' = "panicked"
      /\ UNCHANGED <<cfg, toConfirm, part, step, quit, scanners, generators, outClosed, forwarder>>
  BY DEF SendPanics, ForwarderPanics, muxVars
<1>2. StageInv' /\ ReceiveInv' /\ BoundIsScanned'
  BY <1>1 DEF LifeInv, StageInv, ReceiveInv, BoundIsScanned, Starting
<1>3. PanicCauses'
  <2>1. CASE SendPanics
    BY <1>1, <2>1 DEF SendPanics, LifeInv, StageInv, PanicCauses
  <2>2. ASSUME NEW c \in Coins, ForwarderPanics(c) PROVE PanicCauses'
    BY <1>1, <2>2 DEF ForwarderPanics, PanicCauses
  <2> QED BY <2>1, <2>2
<1> QED BY <1>2, <1>3 DEF LifeInv

-----------------------------------------------------------------------------
(* Every step *)

LEMMA NextInv == ASSUME LifeInv, [Next]_vars PROVE LifeInv'
<1>1. TypeOK'
  BY TypesNext DEF LifeInv
<1>2. CASE UNCHANGED vars
  BY <1>1, <1>2 DEF LifeInv, StageInv, ReceiveInv, PanicCauses, BoundIsScanned, vars,
                    mainVars, muxVars
<1>3. CASE ConfigRefused \/ NoBtcScanner \/ StartFails
  <2>1. main \notin Over /\ main' = "failed"
        /\ UNCHANGED <<cfg, part, step, quit, scanners, generators>>
    BY <1>3 DEF ConfigRefused, NoBtcScanner, StartFails, Starting, Over, muxVars
  <2> QED BY <1>1, <2>1, MainGoesOn
<1>4. CASE Select \/ AllTold \/ Join
  <2>1. /\ main \in {"select", "shutdown", "join"} /\ main' \in {"shutdown", "join", "stopped"}
        /\ UNCHANGED <<cfg, part, step, quit, scanners, generators>>
    BY <1>4 DEF Select, AllTold, Join, muxVars
  <2>2. main \notin Over /\ Validate(cfg)
    BY <2>1 DEF LifeInv, StageInv, Over
  <2> QED BY <1>1, <2>1, <2>2, MainGoesOn
<1>5. ASSUME NEW c \in Coins, Handed(c) \/ ForwarderSends(c) \/ ForwarderQuits(c) PROVE LifeInv'
  <2>1. main \notin Over /\ UNCHANGED <<cfg, main, part, step, quit, scanners, generators>>
    BY <1>5 DEF Handed, ForwarderSends, ForwarderQuits, Alive, mainVars
  <2> QED BY <1>1, <2>1, MainGoesOn
<1>6. CASE Interrupt
  <2>1. main \notin Over /\ UNCHANGED <<cfg, main, part, step, quit, scanners, generators>>
    BY <1>6 DEF Interrupt, Over, muxVars
  <2> QED BY <1>1, <2>1, MainGoesOn
<1>7. CASE LoadConfig \/ StartScanners \/ StartMultiplexer \/ StartSender \/ StartExchange
           \/ StartTeller \/ StartMonitor
  BY <1>1, <1>7, StartKeeps
<1>8. CASE \E p \in Parts : Close(p) \/ Wait(p)
  BY <1>1, <1>8, CloseKeeps, WaitKeeps
<1>9. CASE CloseOutChan
  BY <1>1, <1>9, CloseOutChanKeeps
<1>10. CASE SendPanics \/ \E c \in Coins : ForwarderPanics(c)
  BY <1>1, <1>10, PanicsKeep
<1>11. ASSUME NEW p \in Parts,
              \/ ScannerUp(p) \/ TaskQuits(p) \/ TaskFails(p) \/ LoadFails(p) \/ MonitorStep
              \/ MuxReturns \/ ReceiveQueues \/ ReceiveReads \/ ReceivePushes \/ ReceiveEnds
              \/ BuyReads \/ BuyQuits
              \/ SendAsks \/ SendAnswered \/ SendRuns \/ SendQuits \/ ExchangeStep
       PROVE  LifeInv'
  BY <1>1, <1>11, PartsKeep
<1>12. CASE MainStep
  BY <1>12, <1>3, <1>4, <1>7, <1>8, <1>9 DEF MainStep
<1>13. CASE ProcessStep \/ Environment
  <2>1. "btc" \in Parts /\ "BTC" \in Coins
    BY DEF Parts, Tasks, Coins
  <2> QED BY <1>13, <2>1, <1>3, <1>5, <1>6, <1>10, <1>11, <1>12
          DEF ProcessStep, Environment, MuxStep, ForwarderTakes, AddDummyDeposit
<1> QED BY <1>2, <1>13 DEF Next

LEMMA Invariance == Spec => []LifeInv
BY InitInv, NextInv, PTL DEF Spec

-----------------------------------------------------------------------------
(* Theorems *)

(* Every variable has its type.                                             *)
THEOREM TypesKept == Spec => []TypeOK
<1>1. LifeInv => TypeOK
  BY DEF LifeInv
<1> QED BY <1>1, Invariance, PTL

(* Whatever Config.Validate lets pass, HTTPServer.Run can serve.            *)
THEOREM AcceptedServes == Spec => []AcceptedIsServable
<1>1. ASSUME LifeInv, part["teller"] # "off" PROVE Servable(cfg.web)
  <2>1. cfg.web \in SUBSET WebSettings /\ WebValidate(cfg.web)
    BY <1>1 DEF LifeInv, TypeOK, Config, StageInv, Validate
  <2> QED BY <2>1, ValidServes
<1>2. LifeInv => AcceptedIsServable
  BY <1>1 DEF AcceptedIsServable
<1> QED BY <1>2, Invariance, PTL

(* A coin with an address pool has a scanner, but for SKY under the dummy.  *)
THEOREM BoundScanned == Spec => []BoundIsScanned
<1>1. LifeInv => BoundIsScanned
  BY DEF LifeInv
<1> QED BY <1>1, Invariance, PTL

(* There are two ways to panic, and no third.                               *)
THEOREM PanicsExplained == Spec => []PanicCauses
<1>1. LifeInv => PanicCauses
  BY DEF LifeInv
<1> QED BY <1>1, Invariance, PTL

(* Receive never waits for a place in its deposits channel without a Buy    *)
(* that runs, because it is shut down first.                                *)
THEOREM PushServed == Spec => []PushHasReader
<1>1. LifeInv => PushHasReader
  BY DEF LifeInv, ReceiveInv, PushHasReader, TypeOK
<1> QED BY <1>1, Invariance, PTL
=============================================================================
