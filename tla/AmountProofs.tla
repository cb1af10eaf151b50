---------------------------- MODULE AmountProofs ----------------------------
(***************************************************************************)
(* What is credited.  For any number of deposits and addresses, channel    *)
(* capacities and failing transactions, an address is never credited with  *)
(* less than the sum of its deposits in waiting_partial; a settled deposit *)
(* is never credited again; and with one scanner and no restart each       *)
(* deposit is credited once, and an address with exactly that sum.         *)
(***************************************************************************)
EXTENDS DepositPipelineProofs, SumTheorems

OneRun == MaxRestarts = 0 /\ \A c, k \in CoinTypes : c = k

(* A channel that holds no deposit twice stays one when a deposit is sent    *)
(* that is not in it, ...                                                    *)
LEMMA InjectiveAppend ==
    ASSUME NEW S, NEW s \in Seq(S), NEW e \in S, IsInjective(s), e \notin ToSet(s)
    PROVE  IsInjective(Append(s, e))
<1>1. /\ DOMAIN Append(s, e) = DOMAIN s \cup {Len(s) + 1}
      /\ Append(s, e)[Len(s) + 1] = e
      /\ \A i \in DOMAIN s : Append(s, e)[i] = s[i]
  OBVIOUS
<1>2. \A i \in DOMAIN s : s[i] # e
  BY DEF ToSet
<1>. QED
  BY <1>1, <1>2, Zenon DEF IsInjective

(* ... and when one is received, which is then not in it any more.           *)
LEMMA InjectiveTail ==
    ASSUME NEW S, NEW s \in Seq(S), s # <<>>, IsInjective(s)
    PROVE  IsInjective(Tail(s)) /\ Head(s) \notin ToSet(Tail(s))
<1>1. DOMAIN s = 1..Len(s) /\ DOMAIN Tail(s) = 1..(Len(s) - 1) /\ Len(s) \in Nat \ {0}
  OBVIOUS
<1>2. \A i \in DOMAIN Tail(s) : i + 1 \in DOMAIN s /\ Tail(s)[i] = s[i + 1]
  OBVIOUS
<1>3. Head(s) = s[1] /\ 1 \in DOMAIN s
  BY <1>1
<1>4. ASSUME NEW i \in DOMAIN Tail(s), NEW j \in DOMAIN Tail(s), Tail(s)[i] = Tail(s)[j]
      PROVE  i = j
  <2>1. i + 1 = j + 1
    BY <1>2, <1>4 DEF IsInjective
  <2>. QED
    BY <2>1, <1>1
<1>5. ASSUME NEW i \in DOMAIN Tail(s) PROVE Tail(s)[i] # Head(s)
  <2>1. i + 1 # 1
    BY <1>1
  <2>. QED
    BY <2>1, <1>2, <1>3 DEF IsInjective
<1>6. IsInjective(Tail(s))
  BY <1>4 DEF IsInjective
<1>7. Head(s) \notin ToSet(Tail(s))
  BY <1>5, Zenon DEF ToSet
<1>. QED
  BY <1>6, <1>7

------------------------------------------------------------------------------
(* Waiting in a scanner, or sent and not answered: unknown to the exchange.  *)
Ahead(c) == pending[c] \cup ToSet(scanned[c])

ScannerOnce(c) ==
    /\ scanner[c] # "running" =>
           pending[c] = {} /\ \A d \in Deposits : scanStatus[d] = "none"
    /\ IsInjective(scanned[c])
    /\ pending[c] \cap ToSet(scanned[c]) = {}
    /\ pipe[c] \notin Ahead(c)
    /\ \A d \in Ahead(c) : status[d] = "none"
    /\ pipe[c] # NoDeposit /\ errC[c] = "empty" => status[pipe[c]] = "none"

(* What the exchange has in hand it has once, and has yet to decide.         *)
ExchangeOnce ==
    /\ resubmit = {}
    /\ IsInjective(deposits)
    /\ hold \notin ToSet(deposits)
    /\ \A d \in InExchange : status[d] = "waiting_decide"

(* A deposit is in one place of the pipeline, and passes Buy once.           *)
OnceInv == ExchangeOnce /\ \A c \in CoinTypes : ScannerOnce(c)

LEMMA OnceInit == Init => OnceInv
  BY ToSetEmpty, DepositsAssumption
     DEF Init, Each, OnceInv, ScannerOnce, ExchangeOnce, Ahead, InExchange, IsInjective

(* What is Ahead are deposits.                                               *)
LEMMA AheadTyped ==
    ASSUME TypeInv, NEW c \in CoinTypes
    PROVE  Ahead(c) \subseteq Deposits /\ InExchange \subseteq Deposits
  BY ToSetType DEF Ahead, InExchange, TypeInv, TypeOK

(* The deposit of the note at the head of outChan is in the hands of its     *)
(* scanner, which has no answer yet.                                         *)
LEMMA NoteUnanswered ==
    ASSUME TypeInv, OneNotePerScanner, NEW d \in Deposits, NEW answer, TakeNote(d, answer)
    PROVE  \E k \in CoinTypes : /\ pipe[k] = d
                                /\ errC[k] = "empty"
                                /\ errC' = [errC EXCEPT ![k] = answer]
<1> DEFINE k == Head(outChan).scanner
<1>1. outChan # <<>> /\ outChan \in Seq(Note) /\ Head(outChan) = outChan[1]
  BY DEF TypeInv, TypeOK, TakeNote
<1>2. 1 \in DOMAIN outChan /\ k \in CoinTypes
  BY <1>1, NotesTyped
<1>3. pipe[k] = d /\ errC' = [errC EXCEPT ![k] = answer]
  BY <1>1, <1>2 DEF OneNotePerScanner, TakeNote
<1>4. errC[k] = "empty"
  BY <1>1, <1>2 DEF OneNotePerScanner, InOutChan, Answered
<1>. QED
  BY <1>2, <1>3, <1>4

------------------------------------------------------------------------------
(* The steps of the scanner.                                                 *)
LEMMA ScannerKeepsOnce ==
    ASSUME PipelineInv, OnceInv, OneRun, NEW k \in CoinTypes,
           \/ \E D \in SUBSET OfCoin(k) : ScanBlock(k, D)
           \/ Scan(k)
           \/ Pipe(k)
           \/ Multiplex(k)
    PROVE  OnceInv'
<1> USE DepositsAssumption
<1> USE DEF PipelineInv, TypeInv, TypeOK
<1>0. ASSUME ScannerOnce(k)', ExchangeOnce' PROVE OnceInv'
  BY <1>0 DEF OnceInv, OneRun
<1>a. ASSUME UNCHANGED <<status, resubmit, hold, deposits>> PROVE ExchangeOnce'
  BY <1>a DEF OnceInv, ExchangeOnce, InExchange
<1>b. ScannerOnce(k) /\ Ahead(k) \subseteq Deposits
  BY AheadTyped DEF OnceInv
<1>1. ASSUME NEW D \in SUBSET OfCoin(k), ScanBlock(k, D) PROVE OnceInv'
  <2>1. /\ scanner[k] = "running" /\ pending[k] = {} /\ D \subseteq Deposits
        /\ \A d \in D : scanStatus[d] = "none"
        /\ pending' = [pending EXCEPT ![k] = D]
        /\ UNCHANGED <<status, scanner, scanned, pipe, errC, resubmit, hold, deposits>>
    BY <1>1 DEF ScanBlock, OfCoin, pipeVars, exchangeVars
  <2>2. pending'[k] = D /\ Ahead(k)' = D \cup ToSet(scanned[k])
    BY <2>1 DEF Ahead
  <2>3. \A d \in D : d \notin InScanner(k) /\ status[d] = "none"
    BY <2>1 DEF SavedInv
  <2>4. \A d \in D : d \notin ToSet(scanned[k]) /\ d # pipe[k]
    BY <2>1, <2>3 DEF InScanner
  <2>5. ScannerOnce(k)'
    BY <1>b, <2>1, <2>2, <2>3, <2>4 DEF ScannerOnce, Ahead
  <2>. QED
    BY <1>0, <1>a, <2>1, <2>5
<1>2. ASSUME NEW d \in pending[k], QueueScanned(k, d) PROVE OnceInv'
  <2>1. /\ pending'[k] = pending[k] \ {d} /\ scanned'[k] = Append(scanned[k], d)
        /\ UNCHANGED <<scanStatus, status, scanner, pipe, errC, resubmit, hold, deposits>>
    BY <1>2 DEF QueueScanned, dbVars, pipeVars, exchangeVars
  <2>2. d \in Deposits /\ scanned[k] \in Seq(Deposits) /\ d \notin ToSet(scanned[k])
    BY <1>b DEF ScannerOnce
  <2>3. ToSet(scanned'[k]) = ToSet(scanned[k]) \cup {d} /\ IsInjective(scanned'[k])
    BY <1>b, <2>1, <2>2, ToSetAppend, InjectiveAppend DEF ScannerOnce
  <2>4. Ahead(k)' = Ahead(k)
    BY <2>1, <2>3 DEF Ahead
  <2>5. pending'[k] \cap ToSet(scanned'[k]) = {}
    BY <1>b, <2>1, <2>3 DEF ScannerOnce
  <2>6. ScannerOnce(k)'
    BY <1>b, <2>1, <2>3, <2>4, <2>5 DEF ScannerOnce
  <2>. QED
    BY <1>0, <1>a, <2>1, <2>6
<1>3. ASSUME LoadUnprocessed(k) PROVE OnceInv'
  <2>1. /\ scanner[k] = "starting"
        /\ pending'[k] = {d \in Deposits : scanStatus[d] = "not_processed"}
        /\ UNCHANGED <<scanStatus, status, scanned, pipe, errC, resubmit, hold, deposits>>
    BY <1>3 DEF LoadUnprocessed, dbVars, pipeVars, exchangeVars
  <2>2. pending[k] = {} /\ \A d \in Deposits : scanStatus[d] = "none"
    BY <1>b, <2>1 DEF ScannerOnce
  <2>3. pending'[k] = {} /\ Ahead(k)' = Ahead(k)
    BY <2>1, <2>2 DEF Ahead
  <2>4. ScannerOnce(k)'
    BY <1>b, <2>1, <2>2, <2>3 DEF ScannerOnce
  <2>. QED
    BY <1>0, <1>a, <2>1, <2>4
<1>4. ASSUME StartScanner(k) PROVE OnceInv'
  <2>1. /\ scanner'[k] = "running"
        /\ UNCHANGED <<scanStatus, status, pending, scanned, pipe, errC, resubmit, hold, deposits>>
    BY <1>4 DEF StartScanner, dbVars, pipeVars, exchangeVars
  <2>2. ScannerOnce(k)'
    BY <1>b, <2>1 DEF ScannerOnce, Ahead
  <2>. QED
    BY <1>0, <1>a, <2>1, <2>2
<1>5. ASSUME PipeTake(k) PROVE OnceInv'
  <2> DEFINE h == Head(scanned[k])
  <2>1. /\ scanner[k] = "running" /\ scanned[k] # <<>> /\ scanned[k] \in Seq(Deposits)
        /\ pipe'[k] = h /\ scanned'[k] = Tail(scanned[k])
        /\ UNCHANGED <<scanStatus, status, scanner, pending, errC, resubmit, hold, deposits>>
    BY <1>5 DEF PipeTake, dbVars, exchangeVars
  <2>2. /\ ToSet(scanned[k]) = ToSet(scanned'[k]) \cup {h}
        /\ IsInjective(scanned'[k]) /\ h \notin ToSet(scanned'[k])
    BY <1>b, <2>1, ToSetTail, InjectiveTail DEF ScannerOnce
  <2>3. /\ Ahead(k)' \subseteq Ahead(k) /\ h \in Ahead(k) /\ h \notin Ahead(k)'
        /\ pending'[k] \cap ToSet(scanned'[k]) = {}
    BY <1>b, <2>1, <2>2 DEF ScannerOnce, Ahead
  <2>4. ScannerOnce(k)'
    BY <1>b, <2>1, <2>2, <2>3 DEF ScannerOnce
  <2>. QED
    BY <1>0, <1>a, <2>1, <2>4
<1>6. ASSUME PipeDone(k),
             \/ UNCHANGED scanStatus
             \/ scanStatus' = [scanStatus EXCEPT ![pipe[k]] = "accepted"]
      PROVE  OnceInv'
  <2>1. /\ pipe[k] \in Deposits /\ pipe[k] \in InScanner(k) /\ pipe'[k] = NoDeposit
        /\ UNCHANGED <<status, scanner, pending, scanned, resubmit, hold, deposits>>
    BY <1>6, PipeDoneFacts
  <2>2. scanStatus[pipe[k]] # "none"
    BY <2>1 DEF SavedInv
  <2>3. scanner[k] = "running"
    BY <1>b, <2>1, <2>2 DEF ScannerOnce
  <2>4. Ahead(k)' = Ahead(k) /\ NoDeposit \notin Ahead(k)
    BY <1>b, <2>1 DEF Ahead
  <2>5. ScannerOnce(k)'
    BY <1>b, <2>1, <2>3, <2>4 DEF ScannerOnce
  <2>. QED
    BY <1>0, <1>a, <2>1, <2>5
<1>7. ASSUME PipeSend(k) \/ Multiplex(k) PROVE OnceInv'
  <2>1. UNCHANGED <<scanStatus, status, scanner, pending, scanned, pipe, errC, resubmit, hold,
                    deposits>>
    BY <1>7 DEF PipeSend, Multiplex, dbVars, scanVars, pipeVars, exchangeVars
  <2>2. ScannerOnce(k)'
    BY <1>b, <2>1 DEF ScannerOnce, Ahead
  <2>. QED
    BY <1>0, <1>a, <2>1, <2>2
<1>8. PipeAccept(k) \/ PipeAcceptFails(k) \/ PipeReject(k) =>
          /\ PipeDone(k)
          /\ \/ UNCHANGED scanStatus
             \/ scanStatus' = [scanStatus EXCEPT ![pipe[k]] = "accepted"]
  BY DEF PipeAccept, PipeAcceptFails, PipeReject
<1>. QED
  BY <1>1, <1>2, <1>3, <1>4, <1>5, <1>6, <1>7, <1>8 DEF Scan, Pipe

(* The steps of Receive and Buy.                                             *)
LEMMA ExchangeKeepsOnce ==
    ASSUME PipelineInv, OnceInv, OneRun, ReceiveStep \/ BuyStep
    PROVE  OnceInv'
<1> USE DepositsAssumption
<1> USE DEF PipelineInv, TypeInv, TypeOK
<1>a. \A c \in CoinTypes : ScannerOnce(c) /\ Ahead(c) \subseteq Deposits
  BY AheadTyped DEF OnceInv
<1>b. ExchangeOnce /\ InExchange \subseteq Deposits
  <2>1. ASSUME NEW c \in CoinTypes PROVE InExchange \subseteq Deposits
    BY AheadTyped
  <2>2. InExchange \subseteq Deposits
    BY ToSetType DEF InExchange
  <2>. QED
    BY <2>2 DEF OnceInv
<1>1. ASSUME NEW d \in Deposits, ReceiveSave(d) PROVE OnceInv'
  <2>1. TakeNote(d, "nil") /\ hold' = d /\ hold = NoDeposit
    BY <1>1 DEF ReceiveSave, TakeNote
  <2>. PICK k \in CoinTypes : pipe[k] = d /\ errC[k] = "empty" /\ errC' = [errC EXCEPT ![k] = "nil"]
    BY <2>1, NoteUnanswered
  <2>2. UNCHANGED <<scanStatus, scanner, pending, scanned, pipe, resubmit, deposits>>
    BY <2>1, TakeNoteFacts
  <2>3. status[d] = "none" /\ d \notin Ahead(k)
    BY <1>a DEF ScannerOnce
  <2>4. status' = [status EXCEPT ![d] = "waiting_decide"]
    BY <1>1, <2>3 DEF ReceiveSave
  <2>5. \A e \in Deposits : status'[e] = IF e = d THEN "waiting_decide" ELSE status[e]
    BY <2>4
  <2>6. ScannerOnce(k)'
    <3>1. Ahead(k)' = Ahead(k) /\ errC'[k] = "nil"
      BY <2>2 DEF Ahead
    <3>2. \A e \in Ahead(k) : status'[e] = "none"
      BY <1>a, <2>3, <2>5 DEF ScannerOnce
    <3>. QED
      BY <1>a, <2>2, <3>1, <3>2 DEF ScannerOnce
  <2>7. ExchangeOnce'
    <3>1. d \notin InExchange /\ InExchange' = InExchange \cup {d}
      BY <1>b, <2>1, <2>2, <2>3 DEF ExchangeOnce, InExchange
    <3>2. \A e \in InExchange' : status'[e] = "waiting_decide"
      BY <1>b, <2>5, <3>1 DEF ExchangeOnce
    <3>. QED
      BY <1>b, <2>1, <2>2, <3>1, <3>2 DEF ExchangeOnce, InExchange
  <2>. QED
    BY <2>6, <2>7 DEF OnceInv, OneRun
<1>2. ASSUME NEW d \in Deposits, ReceiveFails(d) PROVE OnceInv'
  <2>1. TakeNote(d, "error") /\ UNCHANGED <<status, hold>>
    BY <1>2 DEF ReceiveFails
  <2>. PICK k \in CoinTypes : errC' = [errC EXCEPT ![k] = "error"]
    BY <2>1, NoteUnanswered
  <2>2. UNCHANGED <<scanStatus, scanner, pending, scanned, pipe, resubmit, deposits>>
    BY <2>1, TakeNoteFacts
  <2>3. errC'[k] = "error" /\ Ahead(k)' = Ahead(k)
    BY <2>2 DEF Ahead
  <2>4. ScannerOnce(k)'
    BY <1>a, <2>1, <2>2, <2>3 DEF ScannerOnce
  <2>5. ExchangeOnce'
    BY <1>b, <2>1, <2>2 DEF ExchangeOnce, InExchange
  <2>. QED
    BY <2>4, <2>5 DEF OnceInv, OneRun
<1>3. ASSUME ReceiveForward PROVE OnceInv'
  <2>1. /\ hold \in Deposits /\ hold \notin ToSet(deposits) /\ hold' = NoDeposit
        /\ deposits' = Append(deposits, hold)
        /\ UNCHANGED <<scanStatus, status, scanner, pending, scanned, pipe, errC, resubmit>>
    BY <1>3, <1>b DEF ReceiveForward, ExchangeOnce, dbVars, scanVars, pipeVars
  <2>2. ToSet(deposits') = ToSet(deposits) \cup {hold} /\ IsInjective(deposits')
    BY <1>b, <2>1, ToSetAppend, InjectiveAppend DEF ExchangeOnce
  <2>3. InExchange' = InExchange /\ NoDeposit \notin ToSet(deposits')
    BY <1>b, <2>1, <2>2 DEF InExchange
  <2>4. ExchangeOnce'
    BY <1>b, <2>1, <2>2, <2>3 DEF ExchangeOnce
  <2>5. \A c \in CoinTypes : ScannerOnce(c)'
    BY <1>a, <2>1 DEF ScannerOnce, Ahead
  <2>. QED
    BY <2>4, <2>5 DEF OnceInv
<1>4. ASSUME NEW d \in Deposits, BuyTake(d),
             \/ UNCHANGED status
             \/ status' = [status EXCEPT ![d] = "waiting_partial"]
      PROVE  OnceInv'
  <2>1. /\ deposits \in Seq(Deposits) /\ deposits # <<>> /\ d = Head(deposits)
        /\ deposits' = Tail(deposits)
        /\ UNCHANGED <<scanStatus, scanner, pending, scanned, pipe, errC, resubmit, hold>>
    BY <1>4 DEF BuyTake, scanVars, pipeVars
  <2>2. /\ ToSet(deposits) = ToSet(deposits') \cup {d}
        /\ IsInjective(deposits') /\ d \notin ToSet(deposits')
    BY <1>b, <2>1, ToSetTail, InjectiveTail DEF ExchangeOnce
  <2>3. /\ InExchange' \subseteq InExchange /\ d \in InExchange /\ d \notin InExchange'
        /\ hold \notin ToSet(deposits')
    BY <1>b, <2>1, <2>2 DEF ExchangeOnce, InExchange
  <2>4. \A e \in Deposits : e # d => status'[e] = status[e]
    BY <1>4
  <2>5. ExchangeOnce'
    <3>1. \A e \in InExchange' : e # d /\ e \in InExchange /\ e \in Deposits
      BY <1>b, <2>3
    <3>2. \A e \in InExchange' : status'[e] = "waiting_decide"
      BY <1>b, <2>4, <3>1 DEF ExchangeOnce
    <3>. QED
      BY <1>b, <2>1, <2>2, <2>3, <3>2 DEF ExchangeOnce
  <2>6. ASSUME NEW c \in CoinTypes PROVE ScannerOnce(c)'
    <3>1. status[d] = "waiting_decide"
      BY <1>b, <2>3 DEF ExchangeOnce
    <3>2. \A e \in Deposits : status[e] = "none" => status'[e] = "none"
      BY <2>4, <3>1
    <3>3. Ahead(c)' = Ahead(c) /\ pipe[c] \in Deposits \cup {NoDeposit}
      BY <2>1 DEF Ahead
    <3>4. \A e \in Ahead(c)' : status'[e] = "none"
      BY <1>a, <3>2, <3>3 DEF ScannerOnce
    <3>5. pipe[c] # NoDeposit /\ errC[c] = "empty" => status'[pipe[c]] = "none"
      BY <1>a, <3>2, <3>3 DEF ScannerOnce
    <3>. QED
      BY <1>a, <2>1, <3>3, <3>4, <3>5, SMTT(30) DEF ScannerOnce
  <2>. QED
    BY <2>5, <2>6 DEF OnceInv
<1>5. \A d \in Deposits : ~QueueResubmitted(d)
  BY <1>b DEF QueueResubmitted, ExchangeOnce
<1>6. \A d \in Deposits : BuyUpdate(d) \/ BuyFails(d) =>
          /\ BuyTake(d)
          /\ \/ UNCHANGED status
             \/ status' = [status EXCEPT ![d] = "waiting_partial"]
  BY DEF BuyUpdate, BuyFails
<1>. QED
  BY <1>1, <1>2, <1>3, <1>4, <1>5, <1>6 DEF ReceiveStep, BuyStep

LEMMA OnceNext ==
    ASSUME PipelineInv, OnceInv, OneRun, [Next]_vars
    PROVE  OnceInv'
<1>1. CASE UNCHANGED vars
  BY <1>1 DEF vars, dbVars, scanVars, pipeVars, exchangeVars, OnceInv, ScannerOnce,
              ExchangeOnce, Ahead, InExchange
<1>2. ~Restart
  BY DEF Restart, OneRun, PipelineInv, TypeInv, TypeOK
<1>. QED
  BY <1>1, <1>2, ScannerKeepsOnce, ExchangeKeepsOnce DEF Next

------------------------------------------------------------------------------
(* What Buy takes from its channel has not been credited.                    *)
LEMMA OnceStep ==
    ASSUME PipelineInv, OnceInv, [Next]_vars
    PROVE  [Ledger!AtMostOnceNext]_(Ledger!ledgerVars)
<1>1. ASSUME NEW d \in Deposits, BuyUpdate(d) PROVE Ledger!CreditNew(d)
  <2>1. d \in InExchange /\ Ledger!Credit(d)
    BY <1>1, LedgerCredit
  <2>2. d \notin Credited
    BY <2>1 DEF OnceInv, ExchangeOnce, Credited
  <2>. QED
    BY <2>1, <2>2 DEF Ledger!CreditNew
<1>. QED
  BY <1>1, LedgerSees DEF Ledger!AtMostOnceNext

(* With one scanner and no restart no deposit is credited twice, whatever    *)
(* transactions fail (LedgerAtMostOnce).                                     *)
THEOREM CreditedOnce == ASSUME OneRun PROVE Spec => LedgerAtMostOnce
<1>1. PipelineInv /\ OnceInv /\ [Next]_vars => OnceInv'
  BY OnceNext
<1>2. PipelineInv /\ OnceInv /\ [Next]_vars => [Ledger!AtMostOnceNext]_(Ledger!ledgerVars)
  BY OnceStep
<1>. QED
  BY <1>1, <1>2, OnceInit, LedgerInitial, PipelineInvAlways, PTL
     DEF Spec, LedgerAtMostOnce, Ledger!AtMostOnce

------------------------------------------------------------------------------
(* Only finitely many deposits ever count.                                   *)
CountedFinite == \A a \in Addresses : IsFiniteSet(Counted(a))

(* What a step does to an address: nothing, or updateStatus has credited a   *)
(* deposit of the address, which counts from then on.                        *)
CreditedWith(d, a) ==
    /\ Address[d] = a
    /\ Counted(a)' = Counted(a) \cup {d}
    /\ amount'[a] = amount[a] + Value[d]

LEMMA AmountStep ==
    ASSUME PipelineInv, [Next]_vars, NEW a \in Addresses
    PROVE  \/ Counted(a)' = Counted(a) /\ amount'[a] = amount[a]
           \/ \E d \in InExchange : d \in Deposits /\ CreditedWith(d, a)
<1> USE DepositsAssumption
<1> USE DEF PipelineInv, TypeInv, TypeOK
<1>1. ASSUME UNCHANGED Ledger!ledgerVars PROVE Counted(a)' = Counted(a) /\ amount'[a] = amount[a]
  BY <1>1 DEF Ledger!ledgerVars, Counted, Credited
<1>2. ASSUME NEW D, Ledger!See(D) PROVE Counted(a)' = Counted(a) /\ amount'[a] = amount[a]
  BY <1>2 DEF Ledger!See, Counted, Credited
<1>3. ASSUME NEW d \in Deposits, BuyUpdate(d)
      PROVE  \/ Counted(a)' = Counted(a) /\ amount'[a] = amount[a]
             \/ d \in InExchange /\ CreditedWith(d, a)
  <2>1. d \in InExchange
    BY <1>3, LedgerCredit
  <2>2. /\ status' = [status EXCEPT ![d] = "waiting_partial"]
        /\ amount' = [amount EXCEPT ![Address[d]] = @ + Value[d]]
    BY <1>3 DEF BuyUpdate
  <2>3. Counted(a)' = IF Address[d] = a THEN Counted(a) \cup {d} ELSE Counted(a)
    BY <2>2 DEF Counted
  <2>. QED
    BY <2>1, <2>2, <2>3 DEF CreditedWith
<1>. QED
  BY <1>1, <1>2, <1>3, LedgerSees

LEMMA CountedFiniteNext ==
    ASSUME PipelineInv, CountedFinite, [Next]_vars
    PROVE  CountedFinite'
<1> SUFFICES ASSUME NEW a \in Addresses PROVE IsFiniteSet(Counted(a)')
  BY DEF CountedFinite
<1>. QED
  BY AmountStep, FS_AddElement DEF CountedFinite, CreditedWith

(* The sum that the properties compare with, and what a deposit adds to it.  *)
LEMMA CountedValueSum ==
    ASSUME NEW a \in Addresses
    PROVE  /\ CountedValue(a) = Sum(Value, Counted(a))
           /\ CountedValue(a)' = Sum(Value, Counted(a)')
  BY DEF CountedValue, Sum, MapThenSumSet, MapThenFoldSet

LEMMA CountedValueStep ==
    ASSUME CountedFinite, NEW a \in Addresses, NEW d \in Deposits, CreditedWith(d, a)
    PROVE  /\ CountedValue(a) \in Nat
           /\ Value[d] \in Nat
           /\ CountedValue(a)' = IF d \in Counted(a) THEN CountedValue(a)
                                                     ELSE CountedValue(a) + Value[d]
<1>1. /\ IsFiniteSet(Counted(a)) /\ Value[d] \in Nat
      /\ \A e \in Counted(a) \cup {d} : Value[e] \in Nat
  BY DepositsAssumption DEF CountedFinite, Counted
<1>2. Sum(Value, Counted(a)) \in Nat
  BY <1>1, SumType
<1>3. CountedValue(a)' = Sum(Value, Counted(a) \cup {d})
  BY CountedValueSum DEF CreditedWith
<1>4. CASE d \in Counted(a)
  <2>1. Counted(a) \cup {d} = Counted(a)
    BY <1>4
  <2>. QED
    BY <2>1, <1>1, <1>2, <1>3, <1>4, CountedValueSum
<1>5. CASE d \notin Counted(a)
  BY <1>1, <1>2, <1>3, <1>5, SumAdd, CountedValueSum
<1>. QED
  BY <1>4, <1>5

------------------------------------------------------------------------------
(* Whatever was restarted and whatever failed, no deposit that counts is     *)
(* missing from AmountDeposited (NeverUnderCounted).                         *)
LEMMA AmountsInit == Init => CountedFinite /\ AmountIsCountedValue
<1> SUFFICES ASSUME Init, NEW a \in Addresses
             PROVE  IsFiniteSet(Counted(a)) /\ amount[a] = CountedValue(a)
  BY DEF CountedFinite, AmountIsCountedValue
<1>1. Counted(a) = {} /\ amount[a] = 0
  BY DEF Init, Counted
<1>. QED
  BY <1>1, FS_EmptySet, SumEmpty, CountedValueSum

LEMMA NeverUnderCountedNext ==
    ASSUME PipelineInv, CountedFinite, NeverUnderCounted, [Next]_vars
    PROVE  NeverUnderCounted'
<1> SUFFICES ASSUME NEW a \in Addresses PROVE amount'[a] >= CountedValue(a)'
  BY DEF NeverUnderCounted
<1>0. amount[a] >= CountedValue(a) /\ amount[a] \in Nat
  BY DEF NeverUnderCounted, PipelineInv, TypeInv, TypeOK
<1>1. CASE Counted(a)' = Counted(a) /\ amount'[a] = amount[a]
  <2>1. CountedValue(a)' = CountedValue(a)
    BY <1>1, CountedValueSum
  <2>. QED
    BY <1>0, <1>1, <2>1
<1>2. ASSUME NEW d \in Deposits, CreditedWith(d, a)
      PROVE  amount'[a] >= CountedValue(a)'
  <2>1. amount'[a] = amount[a] + Value[d]
    BY <1>2 DEF CreditedWith
  <2>. QED
    BY <1>0, <1>2, <2>1, CountedValueStep
<1>. QED
  BY <1>1, <1>2, AmountStep

(* No amount is ever less than the deposits that count towards it, through   *)
(* restarts and failing transactions of updateStatus (NeverUnderCounted).    *)
THEOREM NothingUnderCounted == Spec => []NeverUnderCounted
<1>1. Init => CountedFinite /\ NeverUnderCounted
  <2>1. ASSUME Init, NEW a \in Addresses PROVE amount[a] >= CountedValue(a)
    BY <2>1, AmountsInit DEF AmountIsCountedValue, Init
  <2>. QED
    BY <2>1, AmountsInit DEF NeverUnderCounted
<1>2. PipelineInv /\ CountedFinite /\ [Next]_vars => CountedFinite'
  BY CountedFiniteNext
<1>3. PipelineInv /\ CountedFinite /\ NeverUnderCounted /\ [Next]_vars => NeverUnderCounted'
  BY NeverUnderCountedNext
<1>. QED
  BY <1>1, <1>2, <1>3, PipelineInvAlways, PTL DEF Spec

(* With one scanner and no restart a deposit that Buy takes does not count   *)
(* yet, and AmountDeposited is the sum (AmountIsCountedValue).               *)
LEMMA AmountIsCountedValueNext ==
    ASSUME PipelineInv, OnceInv, CountedFinite, AmountIsCountedValue, [Next]_vars
    PROVE  AmountIsCountedValue'
<1> SUFFICES ASSUME NEW a \in Addresses PROVE amount'[a] = CountedValue(a)'
  BY DEF AmountIsCountedValue
<1>0. amount[a] = CountedValue(a)
  BY DEF AmountIsCountedValue
<1>1. CASE Counted(a)' = Counted(a) /\ amount'[a] = amount[a]
  <2>1. CountedValue(a)' = CountedValue(a)
    BY <1>1, CountedValueSum
  <2>. QED
    BY <1>0, <1>1, <2>1
<1>2. ASSUME NEW d \in InExchange, d \in Deposits, CreditedWith(d, a)
      PROVE  amount'[a] = CountedValue(a)'
  <2>1. d \notin Counted(a)
    BY <1>2 DEF OnceInv, ExchangeOnce, Counted
  <2>2. amount'[a] = amount[a] + Value[d]
    BY <1>2 DEF CreditedWith
  <2>. QED
    BY <1>0, <1>2, <2>1, <2>2, CountedValueStep
<1>. QED
  BY <1>1, <1>2, AmountStep

(* With one scanner and no restart the amount is what deposit.go says it is: *)
(* the sum of the deposits that count (AmountIsCountedValue).                *)
THEOREM AmountExact == ASSUME OneRun PROVE Spec => []AmountIsCountedValue
<1>1. PipelineInv /\ OnceInv /\ [Next]_vars => OnceInv'
  BY OnceNext
<1>2. PipelineInv /\ CountedFinite /\ [Next]_vars => CountedFinite'
  BY CountedFiniteNext
<1>3. PipelineInv /\ OnceInv /\ CountedFinite /\ AmountIsCountedValue /\ [Next]_vars
          => AmountIsCountedValue'
  BY AmountIsCountedValueNext
<1>. QED
  BY <1>1, <1>2, <1>3, OnceInit, AmountsInit, PipelineInvAlways, PTL DEF Spec

------------------------------------------------------------------------------
(* A settled deposit is taken up by no goroutine and by no start.            *)
LEMMA SettledNext ==
    ASSUME PipelineInv, [Next]_vars, NEW d \in Deposits, Settled(d)
    PROVE  Settled(d)'
<1> USE DepositsAssumption
<1> USE DEF PipelineInv, TypeInv, TypeOK
<1>a. /\ scanStatus[d] = "accepted" /\ status[d] = "waiting_partial"
      /\ d \notin InExchange
      /\ \A c \in CoinTypes : d \notin InScanner(c)
  BY DEF Settled
<1>b. ASSUME scanStatus'[d] = "accepted", status'[d] = "waiting_partial",
             d \notin InExchange', \A c \in CoinTypes : d \notin InScanner(c)'
      PROVE  Settled(d)'
  BY <1>b DEF Settled
<1>1. ASSUME NEW k \in CoinTypes, NEW D \in SUBSET OfCoin(k), ScanBlock(k, D) PROVE Settled(d)'
  <2>1. d \notin D /\ scanStatus'[d] = scanStatus[d]
    BY <1>1, <1>a DEF ScanBlock
  <2>2. \A c \in CoinTypes : InScanner(c)' \subseteq InScanner(c) \cup D
    BY <1>1 DEF ScanBlock, InScanner, pipeVars
  <2>3. UNCHANGED status /\ InExchange' = InExchange
    BY <1>1 DEF ScanBlock, InExchange, exchangeVars
  <2>. QED
    BY <1>a, <1>b, <2>1, <2>2, <2>3
<1>2. ASSUME NEW k \in CoinTypes, NEW e \in pending[k], QueueScanned(k, e) PROVE Settled(d)'
  <2>1. ToSet(Append(scanned[k], e)) = ToSet(scanned[k]) \cup {e}
    BY ToSetAppend
  <2>2. \A c \in CoinTypes : InScanner(c)' = InScanner(c)
    BY <1>2, <2>1, SMTT(30) DEF QueueScanned, InScanner, pipeVars
  <2>. QED
    BY <1>a, <1>b, <1>2, <2>2 DEF QueueScanned, InExchange, dbVars, exchangeVars
<1>3. ASSUME NEW k \in CoinTypes, LoadUnprocessed(k) PROVE Settled(d)'
  <2>1. \A c \in CoinTypes :
           InScanner(c)' \subseteq InScanner(c) \cup {e \in Deposits : scanStatus[e] = "not_processed"}
    BY <1>3 DEF LoadUnprocessed, InScanner, pipeVars
  <2>. QED
    BY <1>a, <1>b, <1>3, <2>1 DEF LoadUnprocessed, InExchange, dbVars, exchangeVars
<1>4. ASSUME NEW k \in CoinTypes, PipeTake(k) PROVE Settled(d)'
  <2>1. ToSet(scanned[k]) = ToSet(Tail(scanned[k])) \cup {Head(scanned[k])}
    BY <1>4, ToSetTail DEF PipeTake
  <2>2. \A c \in CoinTypes : InScanner(c)' \subseteq InScanner(c)
    BY <1>4, <2>1 DEF PipeTake, InScanner
  <2>. QED
    BY <1>a, <1>b, <1>4, <2>2 DEF PipeTake, InExchange, dbVars, exchangeVars
<1>5. ASSUME NEW k \in CoinTypes, PipeDone(k),
             \/ UNCHANGED scanStatus
             \/ scanStatus' = [scanStatus EXCEPT ![pipe[k]] = "accepted"]
      PROVE  Settled(d)'
  <2>1. scanStatus'[d] = "accepted"
    BY <1>a, <1>5
  <2>2. UNCHANGED status /\ InExchange' = InExchange
    BY <1>5, PipeDoneFacts DEF InExchange
  <2>3. \A c \in CoinTypes : InScanner(c)' \subseteq InScanner(c)
    BY <1>5, PipeDoneFacts
  <2>. QED
    BY <1>a, <1>b, <2>1, <2>2, <2>3
<1>6. ASSUME \/ \E k \in CoinTypes : StartScanner(k) \/ PipeSend(k) \/ Multiplex(k)
             \/ UNCHANGED vars
      PROVE  Settled(d)'
  BY <1>6 DEF StartScanner, PipeSend, Multiplex, Settled, InScanner, InExchange, vars, dbVars,
              scanVars, pipeVars, exchangeVars
<1>7. ASSUME NEW e \in Deposits, NEW answer, TakeNote(e, answer), hold' \in {hold, e},
             \A x \in Deposits : status'[x] = status[x] \/ status[x] = "none"
      PROVE  Settled(d)'
  <2>1. e # d
    BY <1>a, <1>7, TakeNoteFacts
  <2>2. InExchange' \subseteq InExchange \cup {e}
    BY <1>7, TakeNoteFacts DEF InExchange
  <2>3. UNCHANGED scanStatus /\ \A c \in CoinTypes : InScanner(c)' = InScanner(c)
    BY <1>7, TakeNoteFacts DEF InScanner
  <2>4. status'[d] = status[d]
    BY <1>a, <1>7
  <2>. QED
    BY <1>a, <1>b, <2>1, <2>2, <2>3, <2>4
<1>8. ASSUME NEW e \in Deposits, QueueResubmitted(e) \/ ReceiveForward PROVE Settled(d)'
  <2>1. \A x \in Deposits : ToSet(Append(deposits, x)) = ToSet(deposits) \cup {x}
    BY ToSetAppend
  <2>2. InExchange' \subseteq InExchange
    <3>1. CASE QueueResubmitted(e)
      <4>1. ToSet(deposits') = ToSet(deposits) \cup {e} /\ e \in resubmit
        BY <2>1, <3>1 DEF QueueResubmitted
      <4>. QED
        BY <3>1, <4>1 DEF QueueResubmitted, InExchange
    <3>2. CASE ReceiveForward
      <4>1. ToSet(deposits') = ToSet(deposits) \cup {hold} /\ hold # NoDeposit
        BY <2>1, <3>2 DEF ReceiveForward
      <4>. QED
        BY <3>2, <4>1 DEF ReceiveForward, InExchange
    <3>. QED
      BY <1>8, <3>1, <3>2
  <2>3. UNCHANGED <<scanStatus, status>> /\ \A c \in CoinTypes : InScanner(c)' = InScanner(c)
    BY <1>8 DEF QueueResubmitted, ReceiveForward, InScanner, dbVars, scanVars, pipeVars
  <2>. QED
    BY <1>a, <1>b, <2>2, <2>3
<1>9. ASSUME NEW e \in Deposits, BuyTake(e),
             \/ UNCHANGED status
             \/ status' = [status EXCEPT ![e] = "waiting_partial"]
      PROVE  Settled(d)'
  <2>1. ToSet(deposits) = ToSet(Tail(deposits)) \cup {Head(deposits)}
    BY <1>9, ToSetTail DEF BuyTake
  <2>2. InExchange' \subseteq InExchange
    BY <1>9, <2>1 DEF BuyTake, InExchange
  <2>3. UNCHANGED scanStatus /\ \A c \in CoinTypes : InScanner(c)' = InScanner(c)
    BY <1>9 DEF BuyTake, InScanner, scanVars, pipeVars
  <2>4. status'[d] = "waiting_partial"
    BY <1>a, <1>9
  <2>. QED
    BY <1>a, <1>b, <2>2, <2>3, <2>4
<1>10. ASSUME Restart PROVE Settled(d)'
  BY <1>a, <1>10, ToSetEmpty
     DEF Restart, Each, Settled, InScanner, InExchange, dbVars
<1>11. \A k \in CoinTypes : PipeAccept(k) \/ PipeAcceptFails(k) \/ PipeReject(k) =>
          /\ PipeDone(k)
          /\ \/ UNCHANGED scanStatus
             \/ scanStatus' = [scanStatus EXCEPT ![pipe[k]] = "accepted"]
  BY DEF PipeAccept, PipeAcceptFails, PipeReject
<1>12. \A e \in Deposits : ReceiveSave(e) \/ ReceiveFails(e) =>
          /\ \E answer \in {"nil", "error"} : TakeNote(e, answer)
          /\ hold' \in {hold, e}
          /\ \A x \in Deposits : status'[x] = status[x] \/ status[x] = "none"
  BY DEF ReceiveSave, ReceiveFails
<1>13. \A e \in Deposits : BuyUpdate(e) \/ BuyFails(e) =>
          /\ BuyTake(e)
          /\ \/ UNCHANGED status
             \/ status' = [status EXCEPT ![e] = "waiting_partial"]
  BY DEF BuyUpdate, BuyFails
<1>. QED
  BY <1>1, <1>2, <1>3, <1>4, <1>5, <1>6, <1>7, <1>8, <1>9, <1>10, <1>11, <1>12, <1>13
     DEF Next, Scan, Pipe, ReceiveStep, BuyStep

(* Once a deposit is accepted and counted and nobody holds it, it is out of  *)
(* the pipeline for good and counts no second time, whatever happens         *)
(* (SettledStays).                                                           *)
THEOREM SettledForGood == Spec => SettledStays
<1>1. PipelineInv /\ [Next]_vars => \A d \in Deposits : Settled(d) => Settled(d)'
  BY SettledNext
<1>. QED
  BY <1>1, PipelineInvAlways, PTL DEF Spec, SettledStays
=============================================================================
