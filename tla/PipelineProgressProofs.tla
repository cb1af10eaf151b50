----------------------- MODULE PipelineProgressProofs -----------------------
(***************************************************************************)
(* Why the pipeline comes to rest, and in which state: for any finite      *)
(* numbers of deposits and scanners, any channel capacities, and any       *)
(* restarts and failing transactions, the goroutines never run in circles, *)
(* and never all wait for one another while a deposit is undecided.        *)
(***************************************************************************)
EXTENDS DepositPipelineProofs, SumTheorems

FinitelyMany == IsFiniteSet(Deposits) /\ IsFiniteSet(CoinTypes)

(* What a scanner or the exchange has left to do is a number of steps, ...   *)
LEMMA PartsTyped ==
    ASSUME TypeInv, FinitelyMany, NEW c \in CoinTypes
    PROVE  /\ ToStart(c) \in Nat /\ ToSend(c) \in Nat /\ ToForward(c) \in Nat
           /\ IsFiniteSet(pending[c]) /\ Cardinality(pending[c]) \in Nat
           /\ Cardinality(pending[c]) <= Cardinality(Deposits)
           /\ Cardinality(Deposits) \in Nat
           /\ Len(scanned[c]) \in Nat
<1> USE DEF TypeInv, TypeOK
<1>1. /\ IsFiniteSet(pending[c]) /\ Cardinality(pending[c]) <= Cardinality(Deposits)
      /\ Cardinality(pending[c]) \in Nat /\ Cardinality(Deposits) \in Nat
  BY FS_Subset, FS_CardinalityType DEF FinitelyMany
<1>2. ToStart(c) \in Nat /\ ToSend(c) \in Nat /\ ToForward(c) \in Nat
  BY <1>1 DEF ToStart, ToSend, ToForward
<1>3. Len(scanned[c]) \in Nat
  OBVIOUS
<1>. QED
  BY <1>1, <1>2, <1>3

LEMMA ExchangePartsTyped ==
    ASSUME TypeInv, FinitelyMany
    PROVE  /\ Len(outChan) \in Nat /\ Len(deposits) \in Nat /\ ToQueue \in Nat
           /\ IsFiniteSet(resubmit) /\ Cardinality(resubmit) \in Nat
<1> USE DEF TypeInv, TypeOK
<1>1. IsFiniteSet(resubmit) /\ Cardinality(resubmit) \in Nat
  BY FS_Subset, FS_CardinalityType DEF FinitelyMany
<1>. QED
  BY <1>1 DEF ToQueue

WorkNatural == ExchangeWork \in Nat /\ \A c \in CoinTypes : ScannerWork(c) \in Nat

LEMMA WorkTyped == TypeInv /\ FinitelyMany => WorkNatural
<1> SUFFICES ASSUME TypeInv, FinitelyMany PROVE WorkNatural
  OBVIOUS
<1>1. ExchangeWork \in Nat
  BY ExchangePartsTyped DEF ExchangeWork
<1>2. ASSUME NEW c \in CoinTypes PROVE ScannerWork(c) \in Nat
  BY PartsTyped DEF ScannerWork
<1>. QED
  BY <1>1, <1>2 DEF WorkNatural

LEMMA WorkTypedNext == ASSUME FinitelyMany PROVE TypeInv' => WorkNatural'
<1>1. TypeInv => WorkNatural
  BY WorkTyped
<1>. QED
  BY <1>1, PTL

(* ... and all of it is their sum.                                           *)
LEMMA WorkIsSum ==
    /\ Work = Sum([c \in CoinTypes |-> ScannerWork(c)], CoinTypes) + ExchangeWork
    /\ Work' = Sum([c \in CoinTypes |-> ScannerWork(c)'], CoinTypes) + ExchangeWork'
  BY DEF Work, Sum, SumFunction, SumFunctionOnSet, FoldFunctionOnSet, MapThenSumSet,
         MapThenFoldSet

(* A step of the exchange alone makes the work less if it makes its own less, *)
LEMMA ExchangeShrinks ==
    ASSUME WorkNatural, WorkNatural', FinitelyMany,
           \A c \in CoinTypes : ScannerWork(c)' = ScannerWork(c),
           ExchangeWork' < ExchangeWork
    PROVE  Work' < Work
<1> DEFINE V == [c \in CoinTypes |-> ScannerWork(c)]
           W == [c \in CoinTypes |-> ScannerWork(c)']
<1>1. V = W
  OBVIOUS
<1>2. /\ Sum(V, CoinTypes) \in Nat
      /\ ExchangeWork \in Nat /\ ExchangeWork' \in Nat
  <2>1. \A c \in CoinTypes : V[c] \in Nat
    BY DEF WorkNatural
  <2>2. Sum(V, CoinTypes) \in Nat
    <3> HIDE DEF V
    <3> QED
      BY <2>1, SumType DEF FinitelyMany
  <2>3. ExchangeWork \in Nat /\ ExchangeWork' \in Nat
    BY DEF WorkNatural
  <2>. QED
    BY <2>2, <2>3
<1>3. Work = Sum(V, CoinTypes) + ExchangeWork /\ Work' = Sum(W, CoinTypes) + ExchangeWork'
  BY WorkIsSum
<1>. QED
  BY <1>1, <1>2, <1>3

(* ... and one that involves a scanner if their work together gets less.     *)
LEMMA ScannerShrinks ==
    ASSUME WorkNatural, WorkNatural', FinitelyMany, NEW k \in CoinTypes,
           \A c \in CoinTypes \ {k} : ScannerWork(c)' = ScannerWork(c),
           ScannerWork(k)' + ExchangeWork' < ScannerWork(k) + ExchangeWork
    PROVE  Work' < Work
<1> DEFINE V == [c \in CoinTypes |-> ScannerWork(c)]
           W == [c \in CoinTypes |-> ScannerWork(c)']
<1>1. /\ \A c \in CoinTypes : V[c] \in Nat /\ W[c] \in Nat
      /\ \A c \in CoinTypes \ {k} : V[c] = W[c]
      /\ V[k] = ScannerWork(k) /\ W[k] = ScannerWork(k)'
      /\ ExchangeWork \in Nat /\ ExchangeWork' \in Nat
  <2>1. \A c \in CoinTypes : ScannerWork(c) \in Nat
    BY DEF WorkNatural
  <2>2. \A c \in CoinTypes : ScannerWork(c)' \in Nat
    BY DEF WorkNatural
  <2>3. ExchangeWork \in Nat /\ ExchangeWork' \in Nat
    BY DEF WorkNatural
  <2>. QED
    BY <2>1, <2>2, <2>3
<1>2. Work = Sum(V, CoinTypes) + ExchangeWork /\ Work' = Sum(W, CoinTypes) + ExchangeWork'
  BY WorkIsSum
<1> HIDE DEF V, W
<1>3. Sum(V, CoinTypes) + W[k] = Sum(W, CoinTypes) + V[k]
  BY <1>1, SumChange DEF FinitelyMany
<1>4. Sum(V, CoinTypes) \in Nat /\ Sum(W, CoinTypes) \in Nat
  BY <1>1, SumType DEF FinitelyMany
<1>5. W[k] + ExchangeWork' < V[k] + ExchangeWork
  BY <1>1
<1>6. W[k] \in Nat /\ V[k] \in Nat
  BY <1>1
<1>. QED
  BY <1>1, <1>2, <1>3, <1>4, <1>5, <1>6

------------------------------------------------------------------------------
(* The work of a scanner whose variables stay is the same.                   *)
LEMMA ScannerStays ==
    ASSUME NEW c,
           scanner'[c] = scanner[c], pending'[c] = pending[c], scanned'[c] = scanned[c],
           pipeStep'[c] = pipeStep[c], mux'[c] = mux[c]
    PROVE  ScannerWork(c)' = ScannerWork(c)
<1>1. ToStart(c)' = ToStart(c)
  BY DEF ToStart
<1>2. ToSend(c)' = ToSend(c)
  BY DEF ToSend
<1>3. ToForward(c)' = ToForward(c)
  BY DEF ToForward, HeldByMux
<1>. QED
  BY <1>1, <1>2, <1>3 DEF ScannerWork

LEMMA ExchangeStays ==
    ASSUME UNCHANGED <<outChan, resubmit, hold, deposits>>
    PROVE  ExchangeWork' = ExchangeWork
  BY DEF ExchangeWork, ToQueue

(* The scan goroutine: a start loads what it was due to load, a deposit goes *)
(* from the scan to the channel.                                             *)
LEMMA ScanShrinks ==
    ASSUME TypeInv, TypeInv', FinitelyMany, NEW k \in CoinTypes, Scan(k)
    PROVE  Work' < Work
<1>t. /\ scanner \in [CoinTypes -> {"starting", "loading", "running"}]
      /\ pending \in [CoinTypes -> SUBSET Deposits]
      /\ scanned \in [CoinTypes -> Seq(Deposits)]
  BY DEF TypeInv, TypeOK
<1>p. /\ ToStart(k) \in Nat /\ ToSend(k) \in Nat /\ ToForward(k) \in Nat
      /\ IsFiniteSet(pending[k]) /\ Cardinality(pending[k]) \in Nat
      /\ Cardinality(Deposits) \in Nat /\ Len(scanned[k]) \in Nat
  BY PartsTyped
<1>w. WorkNatural /\ WorkNatural'
  BY WorkTyped, WorkTypedNext
<1>a. /\ ExchangeWork \in Nat
      /\ ScannerWork(k) \in Nat /\ ScannerWork(k)' \in Nat
  BY <1>w DEF WorkNatural
<1>1. CASE LoadUnprocessed(k)
  <2>1. /\ scanner[k] = "starting" /\ scanner' = [scanner EXCEPT ![k] = "loading"]
        /\ pending' = [pending EXCEPT ![k] = {d \in Deposits : scanStatus[d] = "not_processed"}]
        /\ UNCHANGED <<scanned, pipeStep, mux, outChan, resubmit, hold, deposits>>
    BY <1>1 DEF LoadUnprocessed, pipeVars, muxVars, exchangeVars
  <2>2. \A c \in CoinTypes \ {k} : ScannerWork(c)' = ScannerWork(c)
    BY <2>1, <1>t, ScannerStays
  <2>3. /\ ToStart(k) = 9 * Cardinality(Deposits) + 2
        /\ ToStart(k)' = 1
    BY <2>1, <1>t DEF ToStart
  <2>4. ToSend(k)' = ToSend(k) /\ ToForward(k)' = ToForward(k)
    BY <2>1, <1>t DEF ToSend, ToForward, HeldByMux
  <2>5. Cardinality(pending'[k]) \in Nat /\ Cardinality(pending'[k]) <= Cardinality(Deposits)
    BY <1>t, <2>1, FS_Subset, FS_CardinalityType DEF FinitelyMany
  <2>6. ScannerWork(k)' < ScannerWork(k)
    <3> DEFINE loaded == Cardinality(pending'[k])
               all == Cardinality(Deposits)
               old == Cardinality(pending[k])
               queued == Len(scanned[k])
    <3>1. ScannerWork(k)' = 1 + 9 * loaded + 8 * queued + ToSend(k) + ToForward(k)
      BY <2>1, <2>3, <2>4 DEF ScannerWork
    <3>2. ScannerWork(k) = 9 * all + 2 + 9 * old + 8 * queued + ToSend(k) + ToForward(k)
      BY <2>3 DEF ScannerWork
    <3>3. /\ loaded \in Nat /\ all \in Nat /\ old \in Nat /\ queued \in Nat /\ loaded <= all
          /\ ToSend(k) \in Nat /\ ToForward(k) \in Nat
      BY <2>5, <1>p
    <3> HIDE DEF loaded, all, old, queued
    <3>. QED
      BY <3>1, <3>2, <3>3
  <2>7. ExchangeWork' = ExchangeWork
    BY <2>1, ExchangeStays
  <2>. QED
    BY <1>a, <2>2, <2>6, <2>7, <1>w, ScannerShrinks
<1>2. CASE StartScanner(k)
  <2>1. /\ scanner[k] = "loading" /\ scanner' = [scanner EXCEPT ![k] = "running"]
        /\ UNCHANGED <<pending, scanned, pipeStep, mux, outChan, resubmit, hold, deposits>>
    BY <1>2 DEF StartScanner, pipeVars, muxVars, exchangeVars
  <2>2. \A c \in CoinTypes \ {k} : ScannerWork(c)' = ScannerWork(c)
    BY <2>1, <1>t, ScannerStays
  <2>3. ToStart(k) = 1 /\ ToStart(k)' = 0
    BY <2>1, <1>t DEF ToStart
  <2>4. ToSend(k)' = ToSend(k) /\ ToForward(k)' = ToForward(k)
    BY <2>1, <1>t DEF ToSend, ToForward, HeldByMux
  <2>5. ScannerWork(k)' < ScannerWork(k)
    BY <2>1, <2>3, <2>4, <1>p DEF ScannerWork
  <2>6. ExchangeWork' = ExchangeWork
    BY <2>1, ExchangeStays
  <2>. QED
    BY <1>a, <2>2, <2>5, <2>6, <1>w, ScannerShrinks
<1>3. ASSUME NEW d \in pending[k], QueueScanned(k, d) PROVE Work' < Work
  <2>1. /\ pending' = [pending EXCEPT ![k] = @ \ {d}]
        /\ scanned' = [scanned EXCEPT ![k] = Append(@, d)]
        /\ UNCHANGED <<scanner, pipeStep, mux, outChan, resubmit, hold, deposits>>
    BY <1>3 DEF QueueScanned, pipeVars, muxVars, exchangeVars
  <2>2. \A c \in CoinTypes \ {k} : ScannerWork(c)' = ScannerWork(c)
    BY <2>1, <1>t, ScannerStays
  <2>3. ToStart(k)' = ToStart(k) /\ ToSend(k)' = ToSend(k) /\ ToForward(k)' = ToForward(k)
    BY <2>1, <1>t DEF ToStart, ToSend, ToForward, HeldByMux
  <2>4. Cardinality(pending'[k]) = Cardinality(pending[k]) - 1
    BY <2>1, <1>p, <1>t, FS_RemoveElement
  <2>5. Len(scanned'[k]) = Len(scanned[k]) + 1
    BY <2>1, <1>t
  <2>6. ScannerWork(k)' < ScannerWork(k)
    <3> DEFINE start == ToStart(k)
               loaded == Cardinality(pending[k])
               queued == Len(scanned[k])
    <3>1. ScannerWork(k)' = start + 9 * (loaded - 1) + 8 * (queued + 1) + ToSend(k) + ToForward(k)
      BY <2>3, <2>4, <2>5 DEF ScannerWork
    <3>2. ScannerWork(k) = start + 9 * loaded + 8 * queued + ToSend(k) + ToForward(k)
      BY DEF ScannerWork
    <3>3. ToSend(k) \in Nat /\ ToForward(k) \in Nat
      BY <1>p
    <3>4. start \in Nat /\ loaded \in Nat /\ queued \in Nat
      BY <1>p
    <3> HIDE DEF start, loaded, queued
    <3>. QED
      BY <3>1, <3>2, <3>3, <3>4
  <2>7. ExchangeWork' = ExchangeWork
    BY <2>1, ExchangeStays
  <2>. QED
    BY <1>a, <2>2, <2>6, <2>7, <1>w, ScannerShrinks
<1>. QED
  BY <1>1, <1>2, <1>3 DEF Scan

(* The pipe goroutine and the multiplexer: a deposit goes one place further. *)
LEMMA PipeShrinks ==
    ASSUME TypeInv, TypeInv', FinitelyMany, NEW k \in CoinTypes, Pipe(k) \/ Multiplex(k)
    PROVE  Work' < Work
<1>t. /\ scanner \in [CoinTypes -> {"starting", "loading", "running"}]
      /\ scanned \in [CoinTypes -> Seq(Deposits)]
      /\ pipeStep \in [CoinTypes -> {"idle", "send", "wait"}]
      /\ mux \in [CoinTypes -> Deposits \cup {NoDeposit}]
      /\ outChan \in Seq(Note)
  BY DEF TypeInv, TypeOK
<1>p. /\ ToStart(k) \in Nat /\ ToSend(k) \in Nat /\ ToForward(k) \in Nat
      /\ Cardinality(pending[k]) \in Nat /\ Len(scanned[k]) \in Nat
  BY PartsTyped
<1>w. WorkNatural /\ WorkNatural'
  BY WorkTyped, WorkTypedNext
<1>a. /\ ExchangeWork \in Nat
      /\ ScannerWork(k) \in Nat /\ ScannerWork(k)' \in Nat
  BY <1>w DEF WorkNatural
<1>1. CASE PipeTake(k)
  <2>1. /\ pipeStep[k] = "idle" /\ pipeStep' = [pipeStep EXCEPT ![k] = "send"]
        /\ scanned[k] # <<>> /\ scanned' = [scanned EXCEPT ![k] = Tail(@)]
        /\ UNCHANGED <<scanner, pending, mux, outChan, resubmit, hold, deposits>>
    BY <1>1 DEF PipeTake, muxVars, exchangeVars
  <2>2. \A c \in CoinTypes \ {k} : ScannerWork(c)' = ScannerWork(c)
    BY <2>1, <1>t, ScannerStays
  <2>3. ToSend(k) = 0 /\ ToSend(k)' = 7
    BY <2>1, <1>t DEF ToSend
  <2>4. ToStart(k)' = ToStart(k) /\ ToForward(k)' = ToForward(k)
    BY <2>1, <1>t DEF ToStart, ToForward, HeldByMux
  <2>5. Len(scanned'[k]) = Len(scanned[k]) - 1
    BY <2>1, <1>t
  <2>6. ScannerWork(k)' < ScannerWork(k)
    BY <2>1, <2>3, <2>4, <2>5, <1>p DEF ScannerWork
  <2>7. ExchangeWork' = ExchangeWork
    BY <2>1, ExchangeStays
  <2>. QED
    BY <1>a, <2>2, <2>6, <2>7, <1>w, ScannerShrinks
<1>2. CASE PipeSend(k)
  <2>1. /\ pipeStep[k] = "send" /\ pipeStep' = [pipeStep EXCEPT ![k] = "wait"]
        /\ mux[k] = NoDeposit /\ mux' = [mux EXCEPT ![k] = pipe[k]]
        /\ UNCHANGED <<scanner, pending, scanned, outChan, resubmit, hold, deposits>>
    BY <1>2 DEF PipeSend, scanVars, exchangeVars
  <2>2. \A c \in CoinTypes \ {k} : ScannerWork(c)' = ScannerWork(c)
    BY <2>1, <1>t, ScannerStays
  <2>3. ToSend(k) = 7 /\ ToSend(k)' = 1 /\ ToForward(k) = 0 /\ ToForward(k)' \in {0, 5}
    BY <2>1, <1>t DEF ToSend, ToForward, HeldByMux
  <2>4. ToStart(k)' = ToStart(k)
    BY <2>1, <1>t DEF ToStart
  <2>5. ScannerWork(k)' < ScannerWork(k)
    BY <2>1, <2>3, <2>4, <1>p DEF ScannerWork
  <2>6. ExchangeWork' = ExchangeWork
    BY <2>1, ExchangeStays
  <2>. QED
    BY <1>a, <2>2, <2>5, <2>6, <1>w, ScannerShrinks
<1>3. CASE PipeDone(k)
  <2>1. /\ pipeStep[k] = "wait" /\ pipeStep' = [pipeStep EXCEPT ![k] = "idle"]
        /\ UNCHANGED <<scanner, pending, scanned, mux, outChan, resubmit, hold, deposits>>
    BY <1>3 DEF PipeDone, scanVars, muxVars, exchangeVars
  <2>2. \A c \in CoinTypes \ {k} : ScannerWork(c)' = ScannerWork(c)
    BY <2>1, <1>t, ScannerStays
  <2>3. ToSend(k) = 1 /\ ToSend(k)' = 0
    BY <2>1, <1>t DEF ToSend
  <2>4. ToStart(k)' = ToStart(k) /\ ToForward(k)' = ToForward(k)
    BY <2>1, <1>t DEF ToStart, ToForward, HeldByMux
  <2>5. ScannerWork(k)' < ScannerWork(k)
    BY <2>1, <2>3, <2>4, <1>p DEF ScannerWork
  <2>6. ExchangeWork' = ExchangeWork
    BY <2>1, ExchangeStays
  <2>. QED
    BY <1>a, <2>2, <2>5, <2>6, <1>w, ScannerShrinks
<1>4. CASE Multiplex(k)
  <2>1. /\ mux[k] # NoDeposit /\ mux' = [mux EXCEPT ![k] = NoDeposit]
        /\ \E n : outChan' = Append(outChan, n)
        /\ UNCHANGED <<scanner, pending, scanned, pipeStep, resubmit, hold, deposits>>
    BY <1>4 DEF Multiplex, scanVars, pipeVars, exchangeVars
  <2>2. \A c \in CoinTypes \ {k} : ScannerWork(c)' = ScannerWork(c)
    BY <2>1, <1>t, ScannerStays
  <2>3. ToForward(k) = 5 /\ ToForward(k)' = 0
    BY <2>1, <1>t DEF ToForward, HeldByMux
  <2>4. ToStart(k)' = ToStart(k) /\ ToSend(k)' = ToSend(k)
    BY <2>1, <1>t DEF ToStart, ToSend
  <2>5. ScannerWork(k)' = ScannerWork(k) - 5
    BY <2>1, <2>3, <2>4, <1>p DEF ScannerWork
  <2>6. Len(outChan') = Len(outChan) + 1
    BY <2>1, <1>t
  <2>7. ExchangeWork' = ExchangeWork + 4
    <3>1. ToQueue' = ToQueue
      BY <2>1 DEF ToQueue
    <3>. QED
      BY <2>1, <2>6, <3>1, ExchangePartsTyped DEF ExchangeWork
  <2>. QED
    BY <1>a, <2>2, <2>5, <2>7, <1>w, ScannerShrinks
<1>. QED
  BY <1>1, <1>2, <1>3, <1>4 DEF Pipe, PipeAccept, PipeAcceptFails, PipeReject

(* Receive and Buy: a note is answered and gone, a deposit decided.          *)
LEMMA ExchangeStepShrinks ==
    ASSUME TypeInv, TypeInv', FinitelyMany, ReceiveStep \/ BuyStep
    PROVE  Work' < Work
<1>t. outChan \in Seq(Note) /\ deposits \in Seq(Deposits)
  BY DEF TypeInv, TypeOK
<1>p. /\ Len(outChan) \in Nat /\ Len(deposits) \in Nat /\ ToQueue \in Nat
      /\ IsFiniteSet(resubmit) /\ Cardinality(resubmit) \in Nat
  BY ExchangePartsTyped
<1>w. WorkNatural /\ WorkNatural'
  BY WorkTyped, WorkTypedNext
<1>a. ASSUME UNCHANGED <<scanner, pending, scanned, pipeStep, mux>>
      PROVE  \A c \in CoinTypes : ScannerWork(c)' = ScannerWork(c)
  BY <1>a, ScannerStays
<1>1. ASSUME NEW d \in Deposits, NEW answer, TakeNote(d, answer)
      PROVE  Work' < Work
  <2>1. /\ hold = NoDeposit /\ outChan # <<>> /\ outChan' = Tail(outChan)
        /\ UNCHANGED <<scanner, pending, scanned, pipeStep, mux, resubmit, deposits>>
    BY <1>1 DEF TakeNote, scanVars
  <2>2. Len(outChan') = Len(outChan) - 1
    BY <2>1, <1>t
  <2>3. ToQueue = 0 /\ ToQueue' \in {0, 3}
    BY <2>1, <1>t DEF ToQueue
  <2>4. ExchangeWork' < ExchangeWork
    BY <2>1, <2>2, <2>3, <1>p DEF ExchangeWork
  <2>. QED
    BY <1>a, <2>1, <2>4, <1>w, ExchangeShrinks
<1>2. ASSUME NEW d \in Deposits, QueueResubmitted(d) PROVE Work' < Work
  <2>1. /\ d \in resubmit /\ deposits' = Append(deposits, d) /\ resubmit' = resubmit \ {d}
        /\ UNCHANGED <<scanner, pending, scanned, pipeStep, mux, outChan, hold>>
    BY <1>2 DEF QueueResubmitted, scanVars, pipeVars, muxVars
  <2>2. Cardinality(resubmit') = Cardinality(resubmit) - 1
    BY <2>1, <1>p, FS_RemoveElement
  <2>4. Len(deposits') = Len(deposits) + 1
    BY <2>1, <1>t
  <2>3. ExchangeWork' < ExchangeWork
    BY <2>1, <2>2, <2>4, <1>p DEF ExchangeWork, ToQueue
  <2>. QED
    BY <1>a, <2>1, <2>3, <1>w, ExchangeShrinks
<1>3. CASE ReceiveForward
  <2>1. /\ hold # NoDeposit /\ deposits' = Append(deposits, hold) /\ hold' = NoDeposit
        /\ UNCHANGED <<scanner, pending, scanned, pipeStep, mux, outChan, resubmit>>
    BY <1>3 DEF ReceiveForward, scanVars, pipeVars, muxVars
  <2>2. ToQueue = 3 /\ ToQueue' = 0 /\ Len(deposits') = Len(deposits) + 1
    BY <2>1, <1>t DEF ToQueue
  <2>3. ExchangeWork' < ExchangeWork
    BY <2>1, <2>2, <1>p DEF ExchangeWork
  <2>. QED
    BY <1>a, <2>1, <2>3, <1>w, ExchangeShrinks
<1>4. ASSUME NEW d \in Deposits, BuyTake(d) PROVE Work' < Work
  <2>1. /\ deposits # <<>> /\ deposits' = Tail(deposits)
        /\ UNCHANGED <<scanner, pending, scanned, pipeStep, mux, outChan, resubmit, hold>>
    BY <1>4 DEF BuyTake, scanVars, pipeVars, muxVars
  <2>2. Len(deposits') = Len(deposits) - 1
    BY <2>1, <1>t
  <2>3. ExchangeWork' < ExchangeWork
    BY <2>1, <2>2, <1>p DEF ExchangeWork, ToQueue
  <2>. QED
    BY <1>a, <2>1, <2>3, <1>w, ExchangeShrinks
<1>. QED
  BY <1>1, <1>2, <1>3, <1>4 DEF ReceiveStep, BuyStep, ReceiveSave, ReceiveFails, BuyUpdate, BuyFails

(* No goroutine ever goes back: every step of theirs leaves less to do, so   *)
(* that between two blocks there are finitely many (EveryStepIsProgress).    *)
THEOREM StepsAreProgress == ASSUME FinitelyMany PROVE Spec => EveryStepIsProgress
<1>1. TypeInv /\ TypeInv' /\ [Next]_vars => (GoroutineStep => Work' < Work)
  BY ScanShrinks, PipeShrinks, ExchangeStepShrinks DEF GoroutineStep
<1>. QED
  BY <1>1, TypeInvAlways, PTL DEF Spec, EveryStepIsProgress

------------------------------------------------------------------------------
(* Buy waits for nobody, Receive for Buy alone, ...                          *)
LEMMA ExchangeMoves ==
    ASSUME TypeInv, FinitelyMany, ExchangeWork # 0
    PROVE  ExchangeCanMove
<1>t. /\ outChan \in Seq(Note) /\ deposits \in Seq(Deposits)
      /\ resubmit \subseteq Deposits /\ hold \in Deposits \cup {NoDeposit}
  BY DEF TypeInv, TypeOK
<1>1. outChan # <<>> \/ resubmit # {} \/ hold # NoDeposit \/ deposits # <<>>
  <2> SUFFICES ASSUME outChan = <<>>, resubmit = {}, hold = NoDeposit, deposits = <<>>
               PROVE  FALSE
    OBVIOUS
  <2>1. Len(outChan) = 0 /\ Cardinality(resubmit) = 0 /\ ToQueue = 0 /\ Len(deposits) = 0
    BY FS_EmptySet DEF ToQueue
  <2>. QED
    BY <2>1 DEF ExchangeWork
<1>2. CASE deposits # <<>>
  BY <1>2 DEF ExchangeCanMove
<1>3. CASE deposits = <<>>
  <2>1. Len(deposits) < DepositsCap
    BY <1>3, CapacityAssumption
  <2>. QED
    BY <1>1, <1>3, <2>1 DEF ExchangeCanMove
<1>. QED
  BY <1>2, <1>3

(* ... and a scanner for its own note, which is at the multiplexer, in       *)
(* outChan or answered.                                                      *)
LEMMA ScannerMoves ==
    ASSUME TypeInv, OneNotePerScanner, NEW c \in CoinTypes,
           ScannerWork(c) # 0, ~StuckLoading(c)
    PROVE  ScannerCanMove(c) \/ outChan # <<>>
<1>t. /\ scanner[c] \in {"starting", "loading", "running"}
      /\ pipeStep[c] \in {"idle", "send", "wait"}
      /\ scanned[c] \in Seq(Deposits) /\ outChan \in Seq(Note)
      /\ Len(scanned[c]) \in Nat /\ ScannedCap \in Nat \ {0} /\ OutCap \in Nat \ {0}
  BY CapacityAssumption DEF TypeInv, TypeOK
<1>1. CASE scanner[c] # "running"
  BY <1>1, <1>t DEF ScannerCanMove, StuckLoading
<1>2. CASE HeldByMux(c) \/ pipeStep[c] # "idle"
  <2>1. CASE pipeStep[c] = "send"
    <3>1. ~HeldByMux(c)
      BY <2>1 DEF OneNotePerScanner
    <3>. QED
      BY <2>1, <3>1 DEF ScannerCanMove
  <2>2. CASE HeldByMux(c)
    <3>1. CASE Len(outChan) < OutCap
      BY <2>2, <3>1 DEF ScannerCanMove
    <3>2. CASE ~ (Len(outChan) < OutCap)
      BY <1>t, <3>2
    <3>. QED
      BY <3>1, <3>2
  <2>3. CASE pipeStep[c] = "wait" /\ ~HeldByMux(c)
    <3>1. InOutChan(c) \/ Answered(c)
      BY <2>3 DEF OneNotePerScanner
    <3>2. CASE InOutChan(c)
      BY <3>2 DEF InOutChan
    <3>. QED
      BY <2>3, <3>1, <3>2 DEF ScannerCanMove
  <2>. QED
    BY <1>2, <1>t, <2>1, <2>2, <2>3
<1>3. CASE scanner[c] = "running" /\ ~HeldByMux(c) /\ pipeStep[c] = "idle"
  <2>1. pending[c] # {} \/ scanned[c] # <<>>
    <3> SUFFICES ASSUME pending[c] = {}, scanned[c] = <<>> PROVE FALSE
      OBVIOUS
    <3>1. ToStart(c) = 0 /\ ToSend(c) = 0 /\ ToForward(c) = 0
      BY <1>3 DEF ToStart, ToSend, ToForward
    <3>2. Cardinality(pending[c]) = 0 /\ Len(scanned[c]) = 0
      BY FS_EmptySet
    <3>. QED
      BY <3>1, <3>2 DEF ScannerWork
  <2>2. CASE scanned[c] # <<>>
    BY <1>3, <2>2 DEF ScannerCanMove
  <2>3. CASE scanned[c] = <<>>
    BY <1>t, <2>1, <2>3 DEF ScannerCanMove
  <2>. QED
    BY <2>2, <2>3
<1>. QED
  BY <1>1, <1>2, <1>3

(* A scanner or the exchange that has a deposit in hand has work left.       *)
LEMMA ScannerAtRest ==
    ASSUME TypeInv, FinitelyMany, NEW c \in CoinTypes, ScannerWork(c) = 0
    PROVE  InScanner(c) = {} /\ scanner[c] # "starting"
<1>1. /\ ToStart(c) = 0 /\ ToSend(c) = 0
      /\ Cardinality(pending[c]) = 0 /\ Len(scanned[c]) = 0
  <2> DEFINE a == ToStart(c)
             b == Cardinality(pending[c])
             e == Len(scanned[c])
             f == ToSend(c)
             g == ToForward(c)
  <2>1. a + 9 * b + 8 * e + f + g = 0
    BY DEF ScannerWork
  <2>2. a \in Nat /\ b \in Nat /\ e \in Nat /\ f \in Nat /\ g \in Nat
    BY PartsTyped
  <2> HIDE DEF a, b, e, f, g
  <2>3. a = 0 /\ b = 0 /\ e = 0 /\ f = 0
    BY <2>1, <2>2
  <2>. QED
    BY <2>3 DEF a, b, e, f
<1>2. pending[c] = {} /\ scanned[c] = <<>>
  BY <1>1, PartsTyped, FS_EmptySet DEF TypeInv, TypeOK
<1>3. scanner[c] # "starting"
  BY <1>1, PartsTyped DEF ToStart
<1>4. pipeStep[c] = "idle"
  BY <1>1 DEF ToSend, TypeInv, TypeOK
<1>5. pipe[c] = NoDeposit
  BY <1>4 DEF TypeInv, PipeHolds
<1>. QED
  BY <1>2, <1>3, <1>5, ToSetEmpty DEF InScanner

LEMMA ExchangeAtRest ==
    ASSUME TypeInv, FinitelyMany, ExchangeWork = 0
    PROVE  InExchange = {}
<1>1. Cardinality(resubmit) = 0 /\ ToQueue = 0 /\ Len(deposits) = 0
  BY ExchangePartsTyped DEF ExchangeWork
<1>2. resubmit = {} /\ hold = NoDeposit /\ deposits = <<>>
  BY <1>1, ExchangePartsTyped, FS_EmptySet DEF ToQueue, TypeInv, TypeOK
<1>. QED
  BY <1>2, ToSetEmpty DEF InExchange

(* The goroutines never all wait for one another, whatever the capacities:   *)
(* while a deposit is undecided one of them can go on, but for a scanner     *)
(* that loads more than its channel holds (NobodyBlocked).                   *)
THEOREM NeverAllBlocked == ASSUME FinitelyMany PROVE Spec => []NobodyBlocked
<1>1. TypeInv /\ OneNotePerScanner /\ NoneForgotten => NobodyBlocked
  <2> SUFFICES ASSUME TypeInv, OneNotePerScanner, NoneForgotten,
                      NEW d \in Deposits, Undecided(d)
               PROVE  ExchangeCanMove \/ \E c \in CoinTypes : ScannerCanMove(c)
    BY DEF NobodyBlocked
  <2>1. CASE ExchangeWork # 0
    BY <2>1, ExchangeMoves
  <2>2. CASE ExchangeWork = 0
    <3> DEFINE c == CoinType[d]
    <3>1. c \in CoinTypes
      BY DepositsAssumption
    <3>2. scanStatus[d] = "not_processed" /\ d \notin scanFailed /\ ~StuckLoading(c)
      BY <2>2, ExchangeAtRest DEF NoneForgotten, Undecided
    <3>3. ScannerWork(c) # 0
      BY <3>1, <3>2, ScannerAtRest DEF NoneForgotten
    <3>4. outChan = <<>>
      <4>1. Len(outChan) = 0
        BY <2>2, ExchangePartsTyped DEF ExchangeWork
      <4>. QED
        BY <4>1 DEF TypeInv, TypeOK
    <3>5. ScannerCanMove(c)
      <4> HIDE DEF c
      <4>. QED
        BY <3>1, <3>2, <3>3, <3>4, ScannerMoves
    <3>. QED
      BY <3>1, <3>5
  <2>. QED
    BY <2>1, <2>2
<1>. QED
  BY <1>1, TypeInvAlways, OneNote, NothingForgotten, PTL
=============================================================================
