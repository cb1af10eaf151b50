------------------------ MODULE DepositPipelineProofs ------------------------
(***************************************************************************)
(* Proofs about the deposit pipeline, for any number of deposits, coin     *)
(* types and addresses, any channel capacities and any number of restarts  *)
(* and failing transactions.                                               *)
(***************************************************************************)
EXTENDS DepositPipelineRefinement, TLAPS

(* processDeposit has a deposit in hand until it returns. *)
PipeHolds ==
    \A c \in CoinTypes :
        /\ pipeStep[c] = "idle" => pipe[c] = NoDeposit
        /\ pipeStep[c] # "idle" => pipe[c] \in Deposits

TypeInv == TypeOK /\ PipeHolds

------------------------------------------------------------------------------
(* The elements of a channel: of an empty one, ... *)
LEMMA ToSetEmpty == ToSet(<<>>) = {}
  BY DEF ToSet

(* ... after a send, ... *)
LEMMA ToSetAppend ==
    ASSUME NEW S, NEW s \in Seq(S), NEW e \in S
    PROVE  ToSet(Append(s, e)) = ToSet(s) \cup {e}
<1>1. Append(s, e) \in Seq(S) /\ DOMAIN Append(s, e) = DOMAIN s \cup {Len(s) + 1}
  OBVIOUS
<1>2. \A i \in DOMAIN s : Append(s, e)[i] = s[i]
  OBVIOUS
<1>3. Append(s, e)[Len(s) + 1] = e
  OBVIOUS
<1>. QED
  BY <1>1, <1>2, <1>3, Zenon DEF ToSet

(* ... and before a receive. *)
LEMMA ToSetTail ==
    ASSUME NEW S, NEW s \in Seq(S), s # <<>>
    PROVE  ToSet(s) = ToSet(Tail(s)) \cup {Head(s)}
<1>1. DOMAIN s = 1..Len(s) /\ DOMAIN Tail(s) = 1..(Len(s) - 1) /\ Len(s) > 0
  OBVIOUS
<1>2. \A i \in DOMAIN Tail(s) : Tail(s)[i] = s[i + 1]
  OBVIOUS
<1>3. Head(s) = s[1]
  OBVIOUS
<1>. QED
  <2>1. ASSUME NEW x \in ToSet(s) PROVE x \in ToSet(Tail(s)) \cup {Head(s)}
    <3>1. PICK i \in DOMAIN s : x = s[i]
      BY DEF ToSet
    <3>2. CASE i = 1
      BY <3>1, <3>2, <1>3
    <3>3. CASE i # 1
      <4>1. i - 1 \in DOMAIN Tail(s) /\ Tail(s)[i - 1] = x
        BY <1>1, <1>2, <3>1, <3>3
      <4>. QED
        BY <4>1 DEF ToSet
    <3>. QED
      BY <3>2, <3>3
  <2>2. ToSet(Tail(s)) \subseteq ToSet(s)
    BY <1>1, <1>2 DEF ToSet
  <2>3. Head(s) \in ToSet(s)
    BY <1>1, <1>3 DEF ToSet
  <2>. QED
    BY <2>1, <2>2, <2>3

(* What a channel of S holds is in S. *)
LEMMA ToSetType ==
    ASSUME NEW S, NEW s \in Seq(S)
    PROVE  ToSet(s) \subseteq S
<1>1. \A i \in DOMAIN s : s[i] \in S
  OBVIOUS
<1>. QED
  BY <1>1, Zenon DEF ToSet

------------------------------------------------------------------------------
(* The type invariant with PipeHolds is inductive. *)
LEMMA TypeInvInit == Init => TypeInv
  BY DepositsAssumption, CapacityAssumption, ToSetEmpty
     DEF Init, TypeInv, TypeOK, PipeHolds, Each, ScanStatuses, Statuses

LEMMA TypeInvNext == TypeInv /\ [Next]_vars => TypeInv'
<1> SUFFICES ASSUME TypeInv, [Next]_vars PROVE TypeInv'
  OBVIOUS
<1> USE DepositsAssumption, CapacityAssumption
<1> USE DEF TypeInv, TypeOK, PipeHolds, ScanStatuses, Statuses, OfCoin, dbVars,
            scanVars, pipeVars, muxVars, exchangeVars, boundVars
<1>1. ASSUME NEW c \in CoinTypes, NEW D \in SUBSET OfCoin(c), ScanBlock(c, D)
      PROVE  TypeInv'
  BY <1>1 DEF ScanBlock
<1>2. ASSUME NEW c \in CoinTypes, NEW d \in pending[c], QueueScanned(c, d)
      PROVE  TypeInv'
  BY <1>2 DEF QueueScanned
<1>3. ASSUME NEW c \in CoinTypes, LoadUnprocessed(c) \/ StartScanner(c) PROVE TypeInv'
  <2>1. CASE LoadUnprocessed(c)
    <3>1. {d \in Deposits : scanStatus[d] = "not_processed"} \in SUBSET Deposits
      OBVIOUS
    <3>2. pending' \in [CoinTypes -> SUBSET Deposits]
      BY <2>1, <3>1 DEF LoadUnprocessed
    <3>3. scanner' \in [CoinTypes -> {"starting", "loading", "running"}]
      BY <2>1 DEF LoadUnprocessed
    <3>. QED
      BY <2>1, <3>2, <3>3 DEF LoadUnprocessed
  <2>2. CASE StartScanner(c)
    BY <2>2 DEF StartScanner
  <2>. QED
    BY <1>3, <2>1, <2>2
<1>4. ASSUME NEW c \in CoinTypes, PipeTake(c) PROVE TypeInv'
  <2>1. scanned[c] \in Seq(Deposits) /\ scanned[c] # <<>>
    BY <1>4 DEF PipeTake
  <2>2. Head(scanned[c]) \in Deposits /\ Tail(scanned[c]) \in Seq(Deposits)
    BY <2>1
  <2>3. TypeOK'
    BY <1>4, <2>2 DEF PipeTake
  <2>4. PipeHolds'
    BY <1>4, <2>2 DEF PipeTake
  <2>. QED
    BY <2>3, <2>4
<1>5. ASSUME NEW c \in CoinTypes, PipeSend(c) PROVE TypeInv'
  <2>1. pipe[c] \in Deposits
    BY <1>5 DEF PipeSend
  <2>2. TypeOK'
    BY <1>5, <2>1 DEF PipeSend
  <2>3. PipeHolds'
    BY <1>5 DEF PipeSend
  <2>. QED
    BY <2>2, <2>3
<1>6. ASSUME NEW c \in CoinTypes, PipeAccept(c) PROVE TypeInv'
  <2>1. pipe[c] \in Deposits
    BY <1>6 DEF PipeAccept, PipeDone
  <2>2. TypeOK'
    BY <1>6, <2>1 DEF PipeAccept, PipeDone
  <2>3. PipeHolds'
    BY <1>6 DEF PipeAccept, PipeDone
  <2>. QED
    BY <2>2, <2>3
<1>7. ASSUME NEW c \in CoinTypes, PipeAcceptFails(c) PROVE TypeInv'
  <2>1. dbFailures' \in 0..MaxDbFailures
    BY <1>7 DEF PipeAcceptFails, DbFailure
  <2>2. TypeOK'
    BY <1>7, <2>1 DEF PipeAcceptFails, PipeDone
  <2>3. PipeHolds'
    BY <1>7 DEF PipeAcceptFails, PipeDone
  <2>. QED
    BY <2>2, <2>3
<1>8. ASSUME NEW c \in CoinTypes, PipeReject(c) PROVE TypeInv'
  <2>1. pipe[c] \in Deposits
    BY <1>8 DEF PipeReject, PipeDone
  <2>2. TypeOK'
    BY <1>8, <2>1 DEF PipeReject, PipeDone
  <2>3. PipeHolds'
    BY <1>8 DEF PipeReject, PipeDone
  <2>. QED
    BY <2>2, <2>3
<1>9. ASSUME NEW c \in CoinTypes, Multiplex(c) PROVE TypeInv'
  <2>1. [scanner |-> c, deposit |-> mux[c]] \in Note
    BY <1>9 DEF Multiplex, Note
  <2>2. TypeOK'
    BY <1>9, <2>1 DEF Multiplex
  <2>3. PipeHolds'
    BY <1>9 DEF Multiplex
  <2>. QED
    BY <2>2, <2>3
<1>10. ASSUME NEW d \in Deposits, QueueResubmitted(d) PROVE TypeInv'
  BY <1>10 DEF QueueResubmitted
<1>11. ASSUME NEW d \in Deposits, ReceiveSave(d) PROVE TypeInv'
  <2>1. outChan' \in Seq(Note)
    <3>1. outChan \in Seq(Note) /\ outChan # <<>> /\ outChan' = Tail(outChan)
      BY <1>11 DEF ReceiveSave, TakeNote
    <3>. QED
      BY <3>1
  <2>2. status' \in [Deposits -> Statuses] /\ tracked' \subseteq Addresses
    BY <1>11 DEF ReceiveSave
  <2>3. errC' \in [CoinTypes -> {"empty", "nil", "error"}]
    BY <1>11 DEF ReceiveSave, TakeNote
  <2>4. TypeOK'
    BY <1>11, <2>1, <2>2, <2>3 DEF ReceiveSave, TakeNote
  <2>5. PipeHolds'
    BY <1>11 DEF ReceiveSave, TakeNote
  <2>. QED
    BY <2>4, <2>5
<1>12. ASSUME NEW d \in Deposits, ReceiveFails(d) PROVE TypeInv'
  <2>1. dbFailures' \in 0..MaxDbFailures
    BY <1>12 DEF ReceiveFails, DbFailure
  <2>2. outChan' \in Seq(Note)
    <3>1. outChan \in Seq(Note) /\ outChan # <<>> /\ outChan' = Tail(outChan)
      BY <1>12 DEF ReceiveFails, TakeNote
    <3>. QED
      BY <3>1
  <2>3. TypeOK'
    BY <1>12, <2>1, <2>2 DEF ReceiveFails, TakeNote
  <2>4. PipeHolds'
    BY <1>12 DEF ReceiveFails, TakeNote
  <2>. QED
    BY <2>3, <2>4
<1>13. ASSUME ReceiveForward PROVE TypeInv'
  BY <1>13 DEF ReceiveForward
<1>14. ASSUME NEW d \in Deposits, BuyUpdate(d) PROVE TypeInv'
  BY <1>14, SMTT(30) DEF BuyUpdate, BuyTake
<1>15. ASSUME NEW d \in Deposits, BuyFails(d) PROVE TypeInv'
  <2>1. dbFailures' \in 0..MaxDbFailures
    BY <1>15 DEF BuyFails, DbFailure
  <2>2. TypeOK'
    BY <1>15, <2>1, SMTT(30) DEF BuyFails, BuyTake
  <2>3. PipeHolds'
    BY <1>15 DEF BuyFails, BuyTake
  <2>. QED
    BY <2>2, <2>3
<1>16. ASSUME Restart PROVE TypeInv'
  BY <1>16 DEF Restart, Each
<1>17. ASSUME UNCHANGED vars PROVE TypeInv'
  BY <1>17 DEF vars
<1>. QED
  BY <1>1, <1>2, <1>3, <1>4, <1>5, <1>6, <1>7, <1>8, <1>9, <1>10, <1>11, <1>12,
     <1>13, <1>14, <1>15, <1>16, <1>17 DEF Next, Scan, Pipe, ReceiveStep, BuyStep

LEMMA TypeInvAlways == Spec => []TypeInv
  BY TypeInvInit, TypeInvNext, PTL DEF Spec

(* The variables keep their types (TypeOK). *)
THEOREM TypeCorrect == Spec => []TypeOK
  BY TypeInvAlways, PTL DEF TypeInv

------------------------------------------------------------------------------
(* The note a scanner waits for is in one place (OneNotePerScanner). *)
LEMMA NotesTyped ==
    ASSUME TypeInv, NEW i \in DOMAIN outChan
    PROVE  outChan[i].scanner \in CoinTypes /\ outChan[i].deposit \in Deposits
<1>1. outChan \in Seq(Note)
  BY DEF TypeInv, TypeOK
<1>2. outChan[i] \in Note
  BY <1>1
<1>. QED
  BY <1>2 DEF Note

LEMMA OneNoteInit == Init => OneNotePerScanner
  BY DEF Init, OneNotePerScanner, Each, HeldByMux, InOutChan, Answered

(* Receiving the head of outChan and answering it. *)
LEMMA TakeNoteKeepsOneNote ==
    ASSUME TypeInv, OneNotePerScanner, NEW d \in Deposits,
           NEW answer \in {"nil", "error"}, TakeNote(d, answer)
    PROVE  OneNotePerScanner'
<1>1. outChan \in Seq(Note) /\ outChan # <<>> /\ Head(outChan) = outChan[1]
  BY DEF TypeInv, TypeOK, TakeNote
<1>. PICK k \in CoinTypes : k = outChan[1].scanner
  BY <1>1, NotesTyped
<1>2. outChan' = Tail(outChan) /\ outChan' \in Seq(Note)
  BY <1>1 DEF TakeNote
<1>3. DOMAIN outChan = 1..Len(outChan) /\ Len(outChan) \in Nat \ {0}
  BY <1>1
<1>4. DOMAIN outChan' = 1..(Len(outChan) - 1)
  BY <1>1, <1>2
<1>5. \A i \in DOMAIN outChan' : i + 1 \in DOMAIN outChan /\ outChan'[i] = outChan[i + 1]
  BY <1>1, <1>2, <1>3, <1>4
<1>6. k \in CoinTypes /\ errC' = [errC EXCEPT ![k] = answer]
      /\ UNCHANGED <<pipe, pipeStep, mux>>
  BY <1>1 DEF TakeNote
<1>7. errC \in [CoinTypes -> {"empty", "nil", "error"}]
  BY DEF TypeInv, TypeOK
<1>8. 1 \in DOMAIN outChan
  BY <1>3
<1>9. \A i \in DOMAIN outChan : outChan[i].scanner = k => i = 1
  BY <1>1, <1>8 DEF OneNotePerScanner
<1>10. InOutChan(k)
  BY <1>1, <1>8 DEF InOutChan
<1>11. ~InOutChan(k)'
  BY <1>3, <1>4, <1>5, <1>9 DEF InOutChan
<1>12. ASSUME NEW c \in CoinTypes, c # k PROVE InOutChan(c)' <=> InOutChan(c)
  <2>1. ASSUME InOutChan(c) PROVE InOutChan(c)'
    <3>1. PICK i \in DOMAIN outChan : outChan[i].scanner = c
      BY <2>1 DEF InOutChan
    <3>2. i # 1
      BY <3>1, <1>1, <1>12
    <3>3. i - 1 \in DOMAIN outChan' /\ (i - 1) + 1 = i
      BY <3>1, <3>2, <1>3, <1>4
    <3>4. outChan'[i - 1] = outChan[i]
      BY <3>3, <1>5
    <3>. QED
      BY <3>1, <3>3, <3>4 DEF InOutChan
  <2>2. ASSUME InOutChan(c)' PROVE InOutChan(c)
    BY <2>2, <1>5 DEF InOutChan
  <2>. QED
    BY <2>1, <2>2
<1>13. ASSUME NEW c \in CoinTypes
       PROVE  /\ pipeStep'[c] = "wait" <=>
                     HeldByMux(c)' \/ InOutChan(c)' \/ Answered(c)'
              /\ ~ (HeldByMux(c)' /\ InOutChan(c)')
              /\ ~ (HeldByMux(c)' /\ Answered(c)')
              /\ ~ (InOutChan(c)' /\ Answered(c)')
              /\ HeldByMux(c)' => mux'[c] = pipe'[c]
  <2>1. CASE c = k
    <3>1. Answered(c)' /\ ~InOutChan(c)' /\ (HeldByMux(c)' <=> HeldByMux(c))
      BY <2>1, <1>6, <1>7, <1>11 DEF Answered, HeldByMux
    <3>2. pipeStep[c] = "wait" /\ ~HeldByMux(c)
      BY <2>1, <1>10 DEF OneNotePerScanner
    <3>. QED
      BY <3>1, <3>2, <1>6
  <2>2. CASE c # k
    <3>1. /\ Answered(c)' <=> Answered(c)
          /\ HeldByMux(c)' <=> HeldByMux(c)
          /\ InOutChan(c)' <=> InOutChan(c)
      BY <2>2, <1>6, <1>7, <1>12 DEF Answered, HeldByMux
    <3>. QED
      BY <3>1, <1>6 DEF OneNotePerScanner
  <2>. QED
    BY <2>1, <2>2
<1>14. \A i \in DOMAIN outChan' : outChan'[i].deposit = pipe'[outChan'[i].scanner]
  BY <1>5, <1>6 DEF OneNotePerScanner
<1>15. ASSUME NEW i \in DOMAIN outChan', NEW j \in DOMAIN outChan',
              outChan'[i].scanner = outChan'[j].scanner
       PROVE  i = j
  <2>1. i + 1 = j + 1
    BY <1>15, <1>5 DEF OneNotePerScanner
  <2>. QED
    BY <2>1, <1>4
<1>. QED
  BY <1>13, <1>14, <1>15 DEF OneNotePerScanner

(* The pipe goroutine ends processDeposit: the answer is consumed. *)
LEMMA PipeDoneKeepsOneNote ==
    ASSUME TypeInv, OneNotePerScanner, NEW k \in CoinTypes, Answered(k), PipeDone(k)
    PROVE  OneNotePerScanner'
<1> USE DEF TypeInv, TypeOK
<1>1. /\ pipe' = [pipe EXCEPT ![k] = NoDeposit]
      /\ pipeStep' = [pipeStep EXCEPT ![k] = "idle"]
      /\ errC' = [errC EXCEPT ![k] = "empty"]
      /\ UNCHANGED <<mux, outChan>>
  BY DEF PipeDone, muxVars
<1>2. ~InOutChan(k) /\ ~HeldByMux(k)
  BY DEF OneNotePerScanner
<1>3. \A c \in CoinTypes : /\ HeldByMux(c)' <=> HeldByMux(c)
                           /\ InOutChan(c)' <=> InOutChan(c)
                           /\ Answered(c)' <=> Answered(c) /\ c # k
  BY <1>1 DEF HeldByMux, InOutChan, Answered
<1>4. \A i \in DOMAIN outChan : outChan[i].scanner # k /\ outChan[i].scanner \in CoinTypes
  BY <1>2, NotesTyped DEF InOutChan
<1>. QED
  BY <1>1, <1>2, <1>3, <1>4 DEF OneNotePerScanner

LEMMA OneNoteNext ==
    TypeInv /\ OneNotePerScanner /\ [Next]_vars => OneNotePerScanner'
<1> SUFFICES ASSUME TypeInv, OneNotePerScanner, [Next]_vars
             PROVE  OneNotePerScanner'
  OBVIOUS
<1> DEFINE noteVars == <<pipe, pipeStep, errC, mux, outChan>>
<1> USE DepositsAssumption
<1>1. ASSUME UNCHANGED noteVars PROVE OneNotePerScanner'
  BY <1>1 DEF OneNotePerScanner, HeldByMux, InOutChan, Answered
<1>2. ASSUME NEW k \in CoinTypes, PipeTake(k) PROVE OneNotePerScanner'
  <2>1. /\ pipe' = [pipe EXCEPT ![k] = Head(scanned[k])]
        /\ pipeStep[k] = "idle"
        /\ pipeStep' = [pipeStep EXCEPT ![k] = "send"]
        /\ UNCHANGED <<errC, mux, outChan>>
    BY <1>2 DEF PipeTake, muxVars
  <2>2. ~InOutChan(k) /\ ~HeldByMux(k) /\ ~Answered(k)
    BY <2>1 DEF OneNotePerScanner
  <2>3. \A c \in CoinTypes : /\ HeldByMux(c)' <=> HeldByMux(c)
                             /\ InOutChan(c)' <=> InOutChan(c)
                             /\ Answered(c)' <=> Answered(c)
    BY <2>1 DEF HeldByMux, InOutChan, Answered
  <2>4. \A i \in DOMAIN outChan : outChan[i].scanner # k /\ outChan[i].scanner \in CoinTypes
    BY <2>2, NotesTyped DEF InOutChan
  <2>. QED
    BY <2>1, <2>2, <2>3, <2>4 DEF OneNotePerScanner, TypeInv, TypeOK
<1>3. ASSUME NEW k \in CoinTypes, PipeSend(k) PROVE OneNotePerScanner'
  <2>1. /\ pipeStep[k] = "send"
        /\ pipeStep' = [pipeStep EXCEPT ![k] = "wait"]
        /\ mux' = [mux EXCEPT ![k] = pipe[k]]
        /\ UNCHANGED <<pipe, errC, outChan>>
    BY <1>3 DEF PipeSend
  <2>2. ~InOutChan(k) /\ ~HeldByMux(k) /\ ~Answered(k)
    BY <2>1 DEF OneNotePerScanner
  <2>3. pipe[k] # NoDeposit
    BY <2>1 DEF TypeInv, PipeHolds
  <2>4. \A c \in CoinTypes : /\ HeldByMux(c)' <=> HeldByMux(c) \/ c = k
                             /\ InOutChan(c)' <=> InOutChan(c)
                             /\ Answered(c)' <=> Answered(c)
    BY <2>1, <2>3 DEF HeldByMux, InOutChan, Answered, TypeInv, TypeOK
  <2>5. ASSUME NEW c \in CoinTypes, c # k
        PROVE  pipeStep'[c] = pipeStep[c] /\ mux'[c] = mux[c]
    BY <2>1, <2>5 DEF TypeInv, TypeOK
  <2>6. pipeStep'[k] = "wait" /\ mux'[k] = pipe[k]
    BY <2>1 DEF TypeInv, TypeOK
  <2>. QED
    BY <2>1, <2>2, <2>4, <2>5, <2>6 DEF OneNotePerScanner
<1>4. ASSUME NEW k \in CoinTypes, PipeAccept(k) PROVE OneNotePerScanner'
  BY <1>4, PipeDoneKeepsOneNote DEF PipeAccept, Answered
<1>5. ASSUME NEW k \in CoinTypes, PipeAcceptFails(k) PROVE OneNotePerScanner'
  BY <1>5, PipeDoneKeepsOneNote DEF PipeAcceptFails, Answered
<1>6. ASSUME NEW k \in CoinTypes, PipeReject(k) PROVE OneNotePerScanner'
  BY <1>6, PipeDoneKeepsOneNote DEF PipeReject, Answered
<1>7. ASSUME NEW k \in CoinTypes, Multiplex(k) PROVE OneNotePerScanner'
  <2> DEFINE n == Len(outChan) + 1
  <2>1. /\ HeldByMux(k)
        /\ mux' = [mux EXCEPT ![k] = NoDeposit]
        /\ outChan' = Append(outChan, [scanner |-> k, deposit |-> mux[k]])
        /\ UNCHANGED <<pipe, pipeStep, errC>>
    BY <1>7 DEF Multiplex, HeldByMux, pipeVars
  <2>2. /\ ~InOutChan(k) /\ ~Answered(k) /\ pipeStep[k] = "wait" /\ mux[k] = pipe[k]
    BY <2>1 DEF OneNotePerScanner
  <2>3. mux[k] \in Deposits /\ [scanner |-> k, deposit |-> mux[k]] \in Note
    BY <2>2 DEF TypeInv, PipeHolds, Note
  <2>4. outChan \in Seq(Note) /\ mux \in [CoinTypes -> Deposits \cup {NoDeposit}]
    BY DEF TypeInv, TypeOK
  <2>5. /\ DOMAIN outChan' = DOMAIN outChan \cup {n}
        /\ outChan'[n].scanner = k /\ outChan'[n].deposit = mux[k]
        /\ \A i \in DOMAIN outChan : i # n /\ outChan'[i] = outChan[i]
    BY <2>1, <2>3, <2>4
  <2>6. ASSUME NEW c \in CoinTypes
        PROVE  /\ HeldByMux(c)' <=> HeldByMux(c) /\ c # k
               /\ InOutChan(c)' <=> InOutChan(c) \/ c = k
               /\ Answered(c)' <=> Answered(c)
    <3>1. HeldByMux(c)' <=> HeldByMux(c) /\ c # k
      BY <2>1, <2>4 DEF HeldByMux
    <3>2. InOutChan(c)' <=> InOutChan(c) \/ c = k
      BY <2>5, Zenon DEF InOutChan
    <3>3. Answered(c)' <=> Answered(c)
      BY <2>1 DEF Answered
    <3>. QED
      BY <3>1, <3>2, <3>3
  <2>7. \A i \in DOMAIN outChan : outChan[i].scanner # k
    BY <2>2 DEF InOutChan
  <2>8. \A i \in DOMAIN outChan' : outChan'[i].deposit = pipe'[outChan'[i].scanner]
    BY <2>1, <2>2, <2>5 DEF OneNotePerScanner
  <2>9. \A i, j \in DOMAIN outChan' :
           outChan'[i].scanner = outChan'[j].scanner => i = j
    BY <2>5, <2>7 DEF OneNotePerScanner
  <2>10. \A c \in CoinTypes :
           /\ pipeStep'[c] = "wait" <=>
                  HeldByMux(c)' \/ InOutChan(c)' \/ Answered(c)'
           /\ ~ (HeldByMux(c)' /\ InOutChan(c)')
           /\ ~ (HeldByMux(c)' /\ Answered(c)')
           /\ ~ (InOutChan(c)' /\ Answered(c)')
           /\ HeldByMux(c)' => mux'[c] = pipe'[c]
    <3> SUFFICES ASSUME NEW c \in CoinTypes
                 PROVE  /\ pipeStep[c] = "wait" <=>
                              (HeldByMux(c) /\ c # k) \/ (InOutChan(c) \/ c = k) \/ Answered(c)
                        /\ ~ ((HeldByMux(c) /\ c # k) /\ (InOutChan(c) \/ c = k))
                        /\ ~ ((HeldByMux(c) /\ c # k) /\ Answered(c))
                        /\ ~ ((InOutChan(c) \/ c = k) /\ Answered(c))
                        /\ HeldByMux(c) /\ c # k => mux'[c] = pipe[c]
      BY <2>1, <2>6
    <3>1. CASE c = k
      BY <3>1, <2>2
    <3>2. CASE c # k
      <4>1. mux'[c] = mux[c]
        BY <2>1, <2>4, <3>2
      <4>. QED
        BY <3>2, <4>1 DEF OneNotePerScanner
    <3>. QED
      BY <3>1, <3>2
  <2>. QED
    BY <2>8, <2>9, <2>10 DEF OneNotePerScanner
<1>8. ASSUME NEW d \in Deposits, ReceiveSave(d) PROVE OneNotePerScanner'
  BY <1>8, TakeNoteKeepsOneNote DEF ReceiveSave
<1>9. ASSUME NEW d \in Deposits, ReceiveFails(d) PROVE OneNotePerScanner'
  BY <1>9, TakeNoteKeepsOneNote DEF ReceiveFails
<1>10. ASSUME Restart PROVE OneNotePerScanner'
  BY <1>10 DEF Restart, Each, OneNotePerScanner, HeldByMux, InOutChan, Answered
<1>11. ASSUME \/ \E c \in CoinTypes : \/ \E D \in SUBSET OfCoin(c) : ScanBlock(c, D)
                                     \/ Scan(c)
              \/ \E d \in Deposits : QueueResubmitted(d)
              \/ ReceiveForward
              \/ BuyStep
              \/ UNCHANGED vars
       PROVE  UNCHANGED noteVars
  BY <1>11 DEF ScanBlock, Scan, QueueScanned, LoadUnprocessed, StartScanner, QueueResubmitted,
               ReceiveForward, BuyStep, BuyUpdate, BuyFails, BuyTake, vars,
               pipeVars, muxVars
<1>. QED
  BY <1>1, <1>2, <1>3, <1>4, <1>5, <1>6, <1>7, <1>8, <1>9, <1>10, <1>11
     DEF Next, Pipe, ReceiveStep

(* No answer is lost, doubled or given to another deposit (OneNotePerScanner). *)
THEOREM OneNote == Spec => []OneNotePerScanner
  BY TypeInvAlways, OneNoteInit, OneNoteNext, PTL DEF Spec

------------------------------------------------------------------------------
(* A nil on ErrC was sent after the DepositInfo row was committed; what the  *)
(* scanner holds is in DepositBkt, what the exchange holds in DepositInfoBkt, *)
(* and a row of the second has one in the first.                             *)
SavedInv ==
    /\ \A d \in Deposits : scanStatus[d] = "accepted" => status[d] # "none"
    /\ \A c \in CoinTypes : errC[c] = "nil" => status[pipe[c]] # "none"
    /\ \A c \in CoinTypes : \A d \in InScanner(c) : scanStatus[d] # "none"
    /\ \A d \in InExchange : status[d] # "none"
    /\ \A d \in Deposits : status[d] # "none" => scanStatus[d] # "none"

LEMMA SavedInit == Init => SavedInv
  BY ToSetEmpty, DepositsAssumption
     DEF Init, SavedInv, Each, InScanner, InExchange

LEMMA TakeNoteFacts ==
    ASSUME TypeInv, OneNotePerScanner, NEW d \in Deposits, NEW answer,
           TakeNote(d, answer)
    PROVE  /\ \E k \in CoinTypes :
                 /\ pipe[k] = d
                 /\ d \in InScanner(k)
                 /\ errC' = [errC EXCEPT ![k] = answer]
           /\ UNCHANGED <<scanStatus, amount, scanner, pending, scanned, pipe, scanFailed,
                          resubmit, deposits, buyFailed>>
<1> DEFINE k == Head(outChan).scanner
<1>1. outChan # <<>> /\ outChan \in Seq(Note) /\ Head(outChan) = outChan[1]
  BY DEF TypeInv, TypeOK, TakeNote
<1>2. 1 \in DOMAIN outChan /\ k \in CoinTypes
  BY <1>1, NotesTyped
<1>3. pipe[k] = d
  BY <1>1, <1>2 DEF OneNotePerScanner, TakeNote
<1>4. d \in InScanner(k)
  BY <1>3, DepositsAssumption DEF InScanner
<1>5. errC' = [errC EXCEPT ![k] = answer]
  BY DEF TakeNote
<1>6. UNCHANGED <<scanStatus, amount, scanner, pending, scanned, pipe, scanFailed,
                  resubmit, deposits, buyFailed>>
  BY DEF TakeNote, scanVars
<1>. QED
  BY <1>2, <1>3, <1>4, <1>5, <1>6

LEMMA PipeDoneFacts ==
    ASSUME TypeInv, NEW k \in CoinTypes, PipeDone(k)
    PROVE  /\ pipe[k] \in Deposits
           /\ errC' = [errC EXCEPT ![k] = "empty"]
           /\ pipe' = [pipe EXCEPT ![k] = NoDeposit]
           /\ \A c \in CoinTypes : InScanner(c)' \subseteq InScanner(c)
           /\ pipe[k] \in InScanner(k)
           /\ UNCHANGED <<status, tracked, amount, scanner, pending, scanned, mux, outChan,
                          resubmit, hold, deposits, buyFailed>>
  BY DepositsAssumption
     DEF PipeDone, TypeInv, TypeOK, PipeHolds, InScanner, scanVars, muxVars,
         exchangeVars

LEMMA SavedNext ==
    TypeInv /\ OneNotePerScanner /\ SavedInv /\ [Next]_vars => SavedInv'
<1> SUFFICES ASSUME TypeInv, OneNotePerScanner, SavedInv, [Next]_vars
             PROVE  SavedInv'
  OBVIOUS
<1> USE DepositsAssumption
<1>1. ASSUME NEW k \in CoinTypes, NEW D \in SUBSET OfCoin(k), ScanBlock(k, D)
      PROVE  SavedInv'
  <2>1. \A d \in Deposits :
          /\ scanStatus'[d] # "none" <=> scanStatus[d] # "none" \/ d \in D
          /\ scanStatus'[d] = "accepted" => scanStatus[d] = "accepted"
    BY <1>1 DEF ScanBlock
  <2>2. \A c \in CoinTypes : InScanner(c)' \subseteq InScanner(c) \cup D
    BY <1>1 DEF ScanBlock, InScanner, TypeInv, TypeOK, pipeVars
  <2>3. \A c \in CoinTypes : InScanner(c) \subseteq Deposits
    BY ToSetType DEF InScanner, TypeInv, TypeOK
  <2>4. UNCHANGED <<status, errC, pipe>> /\ InExchange' = InExchange
    BY <1>1 DEF ScanBlock, InExchange, pipeVars, exchangeVars
  <2>5. D \subseteq Deposits
    BY DEF OfCoin
  <2>. QED
    BY <2>1, <2>2, <2>3, <2>4, <2>5 DEF SavedInv
<1>2. ASSUME NEW k \in CoinTypes, NEW d \in pending[k], QueueScanned(k, d)
      PROVE  SavedInv'
  <2>1. d \in Deposits /\ scanned[k] \in Seq(Deposits)
    BY DEF TypeInv, TypeOK
  <2>2. ToSet(Append(scanned[k], d)) = ToSet(scanned[k]) \cup {d}
    BY <2>1, ToSetAppend
  <2>3. \A c \in CoinTypes : InScanner(c)' = InScanner(c)
    BY <1>2, <2>2 DEF QueueScanned, InScanner, TypeInv, TypeOK, pipeVars
  <2>. QED
    BY <1>2, <2>3 DEF QueueScanned, SavedInv, InExchange, dbVars, pipeVars, exchangeVars
<1>3. ASSUME NEW k \in CoinTypes, PipeTake(k) PROVE SavedInv'
  <2>1. scanned[k] \in Seq(Deposits) /\ scanned[k] # <<>>
    BY <1>3 DEF PipeTake, TypeInv, TypeOK
  <2>2. ToSet(scanned[k]) = ToSet(Tail(scanned[k])) \cup {Head(scanned[k])}
    BY <2>1, ToSetTail
  <2>3. \A c \in CoinTypes : InScanner(c)' \subseteq InScanner(c)
    BY <1>3, <2>2 DEF PipeTake, InScanner, TypeInv, TypeOK
  <2>4. errC[k] # "nil"
    BY <1>3 DEF PipeTake, OneNotePerScanner, Answered
  <2>5. \A c \in CoinTypes : errC'[c] = "nil" => errC[c] = "nil" /\ pipe'[c] = pipe[c]
    BY <1>3, <2>4 DEF PipeTake, TypeInv, TypeOK
  <2>. QED
    BY <1>3, <2>3, <2>5 DEF PipeTake, SavedInv, InExchange, dbVars, exchangeVars
<1>4. ASSUME NEW k \in CoinTypes, PipeSend(k) PROVE SavedInv'
  BY <1>4 DEF PipeSend, SavedInv, InScanner, InExchange, dbVars, scanVars, exchangeVars
<1>5. ASSUME NEW k \in CoinTypes, PipeDone(k),
             \/ UNCHANGED scanStatus
             \/ errC[k] = "nil" /\ scanStatus' = [scanStatus EXCEPT ![pipe[k]] = "accepted"]
      PROVE  SavedInv'
  <2>1. \A c \in CoinTypes : errC'[c] = "nil" => errC[c] = "nil" /\ pipe'[c] = pipe[c]
    BY <1>5, PipeDoneFacts, SMTT(30) DEF TypeInv, TypeOK
  <2>2. \A d \in Deposits :
          /\ scanStatus[d] # "none" => scanStatus'[d] # "none"
          /\ scanStatus'[d] = "accepted" => status[d] # "none"
    BY <1>5, PipeDoneFacts DEF SavedInv, TypeInv, TypeOK
  <2>3. \A c \in CoinTypes : InScanner(c) \subseteq Deposits
    BY ToSetType DEF InScanner, TypeInv, TypeOK
  <2>4. \A c \in CoinTypes : InScanner(c)' \subseteq InScanner(c)
    BY <1>5, PipeDoneFacts
  <2>5. UNCHANGED status /\ InExchange' = InExchange
    BY <1>5, PipeDoneFacts DEF InExchange
  <2>6. ASSUME NEW c \in CoinTypes, NEW d \in InScanner(c)'
        PROVE  scanStatus'[d] # "none"
    <3>1. d \in InScanner(c) /\ d \in Deposits
      BY <2>3, <2>4
    <3>. QED
      BY <3>1, <2>2 DEF SavedInv
  <2>7. ASSUME NEW c \in CoinTypes, errC'[c] = "nil" PROVE status'[pipe'[c]] # "none"
    <3>1. errC[c] = "nil" /\ pipe'[c] = pipe[c]
      BY <2>1, <2>7
    <3>2. status[pipe[c]] # "none"
      BY <3>1 DEF SavedInv
    <3>. QED
      BY <3>1, <3>2, <2>5
  <2>8. \A d \in InExchange' : status'[d] # "none"
    BY <2>5 DEF SavedInv
  <2>9. \A d \in Deposits : status'[d] # "none" => scanStatus'[d] # "none"
    BY <2>2, <2>5 DEF SavedInv
  <2>. QED
    BY <2>2, <2>5, <2>6, <2>7, <2>8, <2>9 DEF SavedInv
<1>6. ASSUME NEW k \in CoinTypes, Multiplex(k) PROVE SavedInv'
  BY <1>6 DEF Multiplex, SavedInv, InScanner, InExchange, dbVars, scanVars, pipeVars,
              exchangeVars
<1>7. ASSUME NEW d \in Deposits, QueueResubmitted(d) PROVE SavedInv'
  <2>1. ToSet(Append(deposits, d)) = ToSet(deposits) \cup {d}
    BY ToSetAppend DEF TypeInv, TypeOK
  <2>. QED
    BY <1>7, <2>1 DEF QueueResubmitted, SavedInv, InScanner, InExchange, dbVars,
                      scanVars, pipeVars
<1>8. ASSUME NEW d \in Deposits, ReceiveSave(d) PROVE SavedInv'
  <2>1. TakeNote(d, "nil")
    BY <1>8 DEF ReceiveSave
  <2>2. \A e \in Deposits : status'[e] # "none" <=> status[e] # "none" \/ e = d
    BY <1>8 DEF ReceiveSave, TypeInv, TypeOK
  <2>3. InExchange' \subseteq InExchange \cup {d} /\ InExchange \subseteq Deposits
    BY <1>8, <2>1, TakeNoteFacts, ToSetType DEF ReceiveSave, InExchange, TypeInv, TypeOK
  <2>4. \A c \in CoinTypes : InScanner(c)' = InScanner(c)
    BY <2>1, TakeNoteFacts DEF InScanner
  <2>5. \A c \in CoinTypes : errC'[c] = "nil" => status'[pipe[c]] # "none"
    <3> SUFFICES ASSUME NEW c \in CoinTypes, errC'[c] = "nil"
                 PROVE  status'[pipe[c]] # "none"
      OBVIOUS
    <3>. PICK k \in CoinTypes : pipe[k] = d /\ errC' = [errC EXCEPT ![k] = "nil"]
      BY <2>1, TakeNoteFacts
    <3>1. CASE c = k
      BY <2>2, <3>1
    <3>2. CASE c # k
      <4>1. errC[c] = "nil"
        BY <3>2 DEF TypeInv, TypeOK
      <4>2. pipeStep[c] = "wait"
        BY <4>1 DEF OneNotePerScanner, Answered
      <4>3. pipe[c] \in Deposits
        BY <4>2 DEF TypeInv, PipeHolds
      <4>. QED
        BY <4>1, <4>3, <2>2 DEF SavedInv
    <3>. QED
      BY <3>1, <3>2
  <2>. QED
    BY <2>1, <2>2, <2>3, <2>4, <2>5, TakeNoteFacts DEF SavedInv
<1>9. ASSUME NEW d \in Deposits, ReceiveFails(d) PROVE SavedInv'
  <2>1. TakeNote(d, "error") /\ UNCHANGED <<status, hold>>
    BY <1>9 DEF ReceiveFails
  <2>2. \A c \in CoinTypes : errC'[c] = "nil" => errC[c] = "nil"
    BY <2>1, TakeNoteFacts DEF TypeInv, TypeOK
  <2>3. InExchange' = InExchange /\ \A c \in CoinTypes : InScanner(c)' = InScanner(c)
    BY <2>1, TakeNoteFacts DEF InScanner, InExchange
  <2>. QED
    BY <2>1, <2>2, <2>3, TakeNoteFacts DEF SavedInv
<1>10. ASSUME ReceiveForward PROVE SavedInv'
  <2>1. ToSet(Append(deposits, hold)) = ToSet(deposits) \cup {hold}
    BY <1>10, ToSetAppend DEF ReceiveForward, TypeInv, TypeOK
  <2>. QED
    BY <1>10, <2>1 DEF ReceiveForward, SavedInv, InScanner, InExchange, dbVars,
                       scanVars, pipeVars
<1>11. ASSUME NEW d \in Deposits, BuyTake(d),
              \/ UNCHANGED status
              \/ status' = [status EXCEPT ![d] = "waiting_partial"]
       PROVE  SavedInv'
  <2>1. deposits \in Seq(Deposits) /\ deposits # <<>> /\ d = Head(deposits)
    BY <1>11 DEF BuyTake, TypeInv, TypeOK
  <2>2. ToSet(deposits) = ToSet(Tail(deposits)) \cup {d}
    BY <2>1, ToSetTail
  <2>3. d \in InExchange /\ InExchange' \subseteq InExchange
    BY <1>11, <2>2 DEF BuyTake, InExchange
  <2>4. \A e \in Deposits : status'[e] # "none" <=> status[e] # "none"
    BY <1>11, <2>3 DEF SavedInv, TypeInv, TypeOK
  <2>5. UNCHANGED <<scanStatus, errC, pipe>>
        /\ \A c \in CoinTypes : InScanner(c)' = InScanner(c)
    BY <1>11 DEF BuyTake, InScanner, scanVars, pipeVars
  <2>6. InExchange \subseteq Deposits
    BY DEF InExchange, TypeInv, TypeOK, ToSet
  <2>7. \A c \in CoinTypes : errC[c] = "nil" => pipe[c] \in Deposits
    BY DEF TypeInv, TypeOK, PipeHolds, OneNotePerScanner, Answered
  <2>. QED
    BY <2>3, <2>4, <2>5, <2>6, <2>7 DEF SavedInv
<1>12. ASSUME Restart PROVE SavedInv'
  BY <1>12, ToSetEmpty
     DEF Restart, Each, SavedInv, InScanner, InExchange, OfCoin, dbVars
<1>16. ASSUME NEW k \in CoinTypes, LoadUnprocessed(k) PROVE SavedInv'
  <2>1. \A c \in CoinTypes :
           InScanner(c)' \subseteq InScanner(c) \cup {d \in Deposits : scanStatus[d] # "none"}
    BY <1>16 DEF LoadUnprocessed, InScanner, TypeInv, TypeOK, pipeVars
  <2>2. UNCHANGED <<scanStatus, status, errC, pipe>> /\ InExchange' = InExchange
    BY <1>16 DEF LoadUnprocessed, InExchange, dbVars, pipeVars, exchangeVars
  <2>. QED
    BY <2>1, <2>2 DEF SavedInv
<1>13. ASSUME \/ \E c \in CoinTypes : StartScanner(c)
              \/ UNCHANGED vars
       PROVE  SavedInv'
  BY <1>13 DEF StartScanner, vars, SavedInv, InScanner, InExchange, dbVars, scanVars,
               pipeVars, exchangeVars
<1>14. \A k \in CoinTypes : PipeAccept(k) \/ PipeAcceptFails(k) \/ PipeReject(k) =>
          /\ PipeDone(k)
          /\ \/ UNCHANGED scanStatus
             \/ errC[k] = "nil" /\ scanStatus' = [scanStatus EXCEPT ![pipe[k]] = "accepted"]
  BY DEF PipeAccept, PipeAcceptFails, PipeReject
<1>15. \A d \in Deposits : BuyUpdate(d) \/ BuyFails(d) =>
          /\ BuyTake(d)
          /\ \/ UNCHANGED status
             \/ status' = [status EXCEPT ![d] = "waiting_partial"]
  BY DEF BuyUpdate, BuyFails
<1>. QED
  BY <1>1, <1>2, <1>3, <1>4, <1>5, <1>6, <1>7, <1>8, <1>9, <1>10, <1>11, <1>12,
     <1>13, <1>14, <1>15, <1>16 DEF Next, Scan, Pipe, ReceiveStep, BuyStep

(* What the later proofs rest on. *)
PipelineInv == TypeInv /\ OneNotePerScanner /\ SavedInv

LEMMA PipelineInvNext == PipelineInv /\ [Next]_vars => PipelineInv'
  BY TypeInvNext, OneNoteNext, SavedNext DEF PipelineInv

LEMMA PipelineInvAlways == Spec => []PipelineInv
<1>1. Init => PipelineInv
  BY TypeInvInit, OneNoteInit, SavedInit DEF PipelineInv
<1>. QED
  BY <1>1, PipelineInvNext, PTL DEF Spec

(* No deposit is lost between the scanner and the exchange: one that the    *)
(* scanner never sends again is in DepositInfoBkt (AcceptedIsSaved).        *)
THEOREM AcceptedSaved == Spec => []AcceptedIsSaved
<1>1. PipelineInv => AcceptedIsSaved
  BY DEF PipelineInv, SavedInv, AcceptedIsSaved
<1>. QED
  BY <1>1, PipelineInvAlways, PTL

------------------------------------------------------------------------------
(* The amount and the tracks change in updateStatus and saveIncomingDeposit  *)
(* alone.                                                                    *)
LEMMA AmountSteps ==
    ASSUME [Next]_vars
    PROVE  \/ UNCHANGED <<amount, tracked>>
           \/ \E d \in Deposits : ReceiveSave(d)
           \/ \E d \in Deposits : BuyUpdate(d)
  BY DEF Next, Scan, Pipe, ReceiveStep, BuyStep, ScanBlock, QueueScanned, LoadUnprocessed, StartScanner,
         PipeTake, PipeSend, PipeAccept, PipeAcceptFails, PipeReject, PipeDone, Multiplex,
         QueueResubmitted, ReceiveFails, TakeNote, ReceiveForward, BuyFails, BuyTake,
         Restart, vars, dbVars

------------------------------------------------------------------------------
(* The pipeline implements the ledger in which a deposit may be credited     *)
(* again.                                                                    *)
LEMMA LedgerInitial == Init => Ledger!LedgerInit
  BY DEF Init, Ledger!LedgerInit, Seen, Credited

LEMMA LedgerCredit ==
    ASSUME PipelineInv, NEW d \in Deposits, BuyUpdate(d)
    PROVE  d \in InExchange /\ Ledger!Credit(d)
<1> USE DepositsAssumption
<1> USE DEF PipelineInv, TypeInv, TypeOK, Seen, Credited
<1>1. d \in InExchange
  BY ToSetTail DEF BuyUpdate, BuyTake, InExchange
<1>2. scanStatus[d] # "none"
  BY <1>1 DEF SavedInv
<1>3. Credited' = Credited \cup {d}
  BY DEF BuyUpdate
<1>4. Seen' = Seen /\ d \in Seen
  BY <1>2 DEF BuyUpdate, BuyTake
<1>5. amount[Address[d]] + Value[d] < Price[Address[d]]
  <2>1. /\ amount[Address[d]] \in Nat /\ Value[d] \in Nat /\ Price[Address[d]] \in Nat
        /\ ~(amount[Address[d]] + Value[d] >= Price[Address[d]])
    BY DEF BuyUpdate, CallbackFails
  <2>. QED
    BY <2>1
<1>6. amount' = [amount EXCEPT ![Address[d]] = @ + Value[d]]
  BY DEF BuyUpdate
<1>. QED
  BY <1>1, <1>3, <1>4, <1>5, <1>6 DEF Ledger!Credit

LEMMA LedgerSees ==
    ASSUME PipelineInv, [Next]_vars
    PROVE  \/ UNCHANGED Ledger!ledgerVars
           \/ \E D \in SUBSET Deposits : Ledger!See(D)
           \/ \E d \in Deposits : BuyUpdate(d)
<1> USE DepositsAssumption
<1> USE DEF PipelineInv, TypeInv, TypeOK, Seen, Credited, Ledger!ledgerVars
<1>1. CASE UNCHANGED <<scanStatus, status, amount>>
  BY <1>1
<1>2. ASSUME NEW c \in CoinTypes, NEW D \in SUBSET OfCoin(c), ScanBlock(c, D)
      PROVE  Ledger!See(D) /\ D \in SUBSET Deposits
  <2>1. Seen' = Seen \cup D
    BY <1>2 DEF ScanBlock, OfCoin
  <2>2. D # {} /\ D \cap Seen = {} /\ D \subseteq Deposits
    BY <1>2 DEF ScanBlock, OfCoin
  <2>3. UNCHANGED <<status, amount>>
    BY <1>2 DEF ScanBlock
  <2>. QED
    BY <2>1, <2>2, <2>3 DEF Ledger!See
<1>3. ASSUME NEW k \in CoinTypes, PipeAccept(k)
      PROVE  UNCHANGED Ledger!ledgerVars
  <2>1. scanStatus[pipe[k]] # "none" /\ pipe[k] \in Deposits
    BY <1>3, PipeDoneFacts DEF PipeAccept, SavedInv
  <2>2. Seen' = Seen
    BY <1>3, <2>1 DEF PipeAccept
  <2>. QED
    BY <1>3, <2>2 DEF PipeAccept, PipeDone
<1>4. ASSUME NEW d \in Deposits, ReceiveSave(d)
      PROVE  UNCHANGED Ledger!ledgerVars
  <2>1. \A e \in Deposits : status'[e] = "waiting_partial" <=> status[e] = "waiting_partial"
    BY <1>4 DEF ReceiveSave
  <2>. QED
    BY <1>4, <2>1 DEF ReceiveSave, TakeNote
<1>5. \/ UNCHANGED <<scanStatus, status, amount>>
      \/ \E c \in CoinTypes : \E D \in SUBSET OfCoin(c) : ScanBlock(c, D)
      \/ \E c \in CoinTypes : PipeAccept(c)
      \/ \E d \in Deposits : ReceiveSave(d)
      \/ \E d \in Deposits : BuyUpdate(d)
  BY DEF Next, Scan, Pipe, ReceiveStep, BuyStep, QueueScanned, LoadUnprocessed, StartScanner, PipeTake,
         PipeSend, PipeAcceptFails, PipeReject, PipeDone, Multiplex, QueueResubmitted,
         ReceiveFails, TakeNote, ReceiveForward, BuyFails, BuyTake, Restart, vars, dbVars
<1>. QED
  BY <1>1, <1>2, <1>3, <1>4, <1>5

LEMMA LedgerStep ==
    ASSUME PipelineInv, [Next]_vars
    PROVE  [Ledger!AtLeastOnceNext]_(Ledger!ledgerVars)
  BY LedgerSees, LedgerCredit DEF Ledger!AtLeastOnceNext

(* Only deposits seen on a chain are credited, each time by their value and  *)
(* in the step that stores them as credited (LedgerAtLeastOnce).             *)
THEOREM LedgerImplemented == Spec => LedgerAtLeastOnce
  BY LedgerInitial, LedgerStep, PipelineInvAlways, PTL
     DEF Spec, LedgerAtLeastOnce, Ledger!AtLeastOnce

------------------------------------------------------------------------------
(* Nothing with work left to do is forgotten (NoneForgotten). *)
LEMMA NoneForgottenNext ==
    TypeInv /\ OneNotePerScanner /\ NoneForgotten /\ [Next]_vars => NoneForgotten'
<1> SUFFICES ASSUME TypeInv, OneNotePerScanner, NoneForgotten, [Next]_vars
             PROVE  NoneForgotten'
  OBVIOUS
<1> USE DepositsAssumption
<1> DEFINE Hands == \A c \in CoinTypes : InScanner(c)' = InScanner(c)
<1>1. ASSUME UNCHANGED <<scanStatus, status, scanner, scanFailed, buyFailed>>, Hands,
             InExchange' = InExchange
      PROVE  NoneForgotten'
  BY <1>1 DEF NoneForgotten
<1>2. ASSUME NEW k \in CoinTypes, NEW D \in SUBSET OfCoin(k), ScanBlock(k, D)
      PROVE  NoneForgotten'
  <2>1. \A d \in Deposits :
          scanStatus'[d] = "not_processed" =>
              scanStatus[d] = "not_processed" \/ (d \in D /\ CoinType[d] = k)
    BY <1>2 DEF ScanBlock, OfCoin
  <2>2. D \subseteq InScanner(k)'
    BY <1>2 DEF ScanBlock, InScanner, TypeInv, TypeOK
  <2>3. \A c \in CoinTypes : InScanner(c) \subseteq InScanner(c)'
    BY <1>2 DEF ScanBlock, InScanner, TypeInv, TypeOK, pipeVars
  <2>4. UNCHANGED <<status, scanner, scanFailed, buyFailed>> /\ InExchange' = InExchange
    BY <1>2 DEF ScanBlock, InExchange, pipeVars, exchangeVars
  <2>. QED
    BY <2>1, <2>2, <2>3, <2>4 DEF NoneForgotten
<1>3. ASSUME NEW k \in CoinTypes, NEW d \in pending[k], QueueScanned(k, d)
      PROVE  NoneForgotten'
  <2>1. ToSet(Append(scanned[k], d)) = ToSet(scanned[k]) \cup {d}
    BY ToSetAppend DEF TypeInv, TypeOK
  <2>2. /\ scanned' = [scanned EXCEPT ![k] = Append(@, d)]
        /\ pending' = [pending EXCEPT ![k] = @ \ {d}]
        /\ d \in pending[k] /\ pipe' = pipe
    BY <1>3 DEF QueueScanned, pipeVars
  <2>3. /\ scanned'[k] = Append(scanned[k], d) /\ pending'[k] = pending[k] \ {d}
        /\ \A c \in CoinTypes \ {k} : scanned'[c] = scanned[c] /\ pending'[c] = pending[c]
    BY <2>2 DEF TypeInv, TypeOK
  <2>4. Hands
    BY <2>1, <2>2, <2>3 DEF InScanner
  <2>. QED
    BY <1>1, <1>3, <2>4 DEF QueueScanned, InExchange, dbVars, pipeVars, exchangeVars
<1>4. ASSUME NEW k \in CoinTypes, PipeTake(k) PROVE NoneForgotten'
  <2>1. scanned[k] \in Seq(Deposits) /\ scanned[k] # <<>> /\ pipe[k] = NoDeposit
    BY <1>4 DEF PipeTake, TypeInv, TypeOK, PipeHolds
  <2>2. ToSet(scanned[k]) = ToSet(Tail(scanned[k])) \cup {Head(scanned[k])}
        /\ Head(scanned[k]) \in Deposits
    BY <2>1, ToSetTail
  <2>3. /\ scanned' = [scanned EXCEPT ![k] = Tail(@)] /\ pending' = pending
        /\ pipe' = [pipe EXCEPT ![k] = Head(scanned[k])]
    BY <1>4 DEF PipeTake
  <2>4. /\ scanned'[k] = Tail(scanned[k]) /\ pipe'[k] = Head(scanned[k])
        /\ \A c \in CoinTypes \ {k} : scanned'[c] = scanned[c] /\ pipe'[c] = pipe[c]
    BY <2>3 DEF TypeInv, TypeOK
  <2>5. ASSUME NEW c \in CoinTypes PROVE InScanner(c)' = InScanner(c)
    <3>1. CASE c = k
      <4>1. Head(scanned[k]) # NoDeposit
        BY <2>2
      <4>2. InScanner(k) = pending[k] \cup ToSet(scanned[k])
        BY <2>1 DEF InScanner
      <4>3. InScanner(k)' = pending[k] \cup ToSet(Tail(scanned[k])) \cup {Head(scanned[k])}
        BY <2>3, <2>4, <4>1 DEF InScanner
      <4>. QED
        BY <2>2, <3>1, <4>2, <4>3
    <3>2. CASE c # k
      BY <2>3, <2>4, <3>2 DEF InScanner
    <3>. QED
      BY <3>1, <3>2
  <2>6. InExchange' = InExchange /\ UNCHANGED <<scanStatus, status, scanner, scanFailed, buyFailed>>
    BY <1>4 DEF PipeTake, InExchange, dbVars, exchangeVars
  <2>. QED
    BY <1>1, <2>5, <2>6
<1>5. ASSUME NEW k \in CoinTypes, PipeDone(k),
             \/ scanStatus' = [scanStatus EXCEPT ![pipe[k]] = "accepted"]
                /\ UNCHANGED scanFailed
             \/ UNCHANGED scanStatus /\ scanFailed' = scanFailed \cup {pipe[k]}
      PROVE  NoneForgotten'
  <2>1. ASSUME NEW c \in CoinTypes PROVE InScanner(c) \subseteq InScanner(c)' \cup {pipe[k]}
    <3>1. pipe' = [pipe EXCEPT ![k] = NoDeposit] /\ pending' = pending /\ scanned' = scanned
      BY <1>5, PipeDoneFacts
    <3>2. c # k => pipe'[c] = pipe[c]
      BY <3>1 DEF TypeInv, TypeOK
    <3>3. CASE c = k
      BY <3>1, <3>3 DEF InScanner
    <3>4. CASE c # k
      BY <3>1, <3>2, <3>4 DEF InScanner
    <3>. QED
      BY <3>3, <3>4
  <2>2. \A d \in Deposits :
          scanStatus'[d] = "not_processed" =>
              scanStatus[d] = "not_processed" /\ (d # pipe[k] \/ d \in scanFailed')
    BY <1>5, PipeDoneFacts DEF TypeInv, TypeOK
  <2>3. UNCHANGED <<status, scanner, buyFailed>> /\ InExchange' = InExchange
    BY <1>5, PipeDoneFacts DEF InExchange
  <2>4. scanFailed \subseteq scanFailed'
    BY <1>5
  <2>. QED
    BY <2>1, <2>2, <2>3, <2>4 DEF NoneForgotten
<1>6. ASSUME NEW d \in Deposits, QueueResubmitted(d) PROVE NoneForgotten'
  <2>1. ToSet(Append(deposits, d)) = ToSet(deposits) \cup {d}
    BY ToSetAppend DEF TypeInv, TypeOK
  <2>2. InExchange' = InExchange
    BY <1>6, <2>1 DEF QueueResubmitted, InExchange
  <2>. QED
    BY <1>1, <1>6, <2>2 DEF QueueResubmitted, InScanner, dbVars, scanVars, pipeVars
<1>7. ASSUME NEW d \in Deposits, ReceiveSave(d) PROVE NoneForgotten'
  <2>1. TakeNote(d, "nil")
    BY <1>7 DEF ReceiveSave
  <2>2. InExchange' = InExchange \cup {d}
    BY <1>7, <2>1, TakeNoteFacts DEF ReceiveSave, TakeNote, InExchange
  <2>3. \A e \in Deposits : status'[e] = "waiting_decide" => status[e] = "waiting_decide" \/ e = d
    BY <1>7 DEF ReceiveSave, TypeInv, TypeOK
  <2>4. Hands
    BY <2>1, TakeNoteFacts DEF InScanner
  <2>. QED
    BY <2>1, <2>2, <2>3, <2>4, TakeNoteFacts DEF NoneForgotten
<1>8. ASSUME NEW d \in Deposits, ReceiveFails(d) PROVE NoneForgotten'
  <2>1. TakeNote(d, "error") /\ UNCHANGED <<status, hold>>
    BY <1>8 DEF ReceiveFails
  <2>2. Hands /\ InExchange' = InExchange
    BY <2>1, TakeNoteFacts DEF InScanner, InExchange
  <2>. QED
    BY <1>1, <2>1, <2>2, TakeNoteFacts
<1>9. ASSUME ReceiveForward PROVE NoneForgotten'
  <2>1. ToSet(Append(deposits, hold)) = ToSet(deposits) \cup {hold}
    BY <1>9, ToSetAppend DEF ReceiveForward, TypeInv, TypeOK
  <2>2. InExchange' = InExchange
    BY <1>9, <2>1 DEF ReceiveForward, InExchange
  <2>. QED
    BY <1>1, <1>9, <2>2 DEF ReceiveForward, InScanner, dbVars, scanVars, pipeVars
<1>10. ASSUME NEW d \in Deposits, BuyTake(d),
              \/ UNCHANGED status /\ buyFailed' = buyFailed \cup {d}
              \/ status' = [status EXCEPT ![d] = "waiting_partial"] /\ UNCHANGED buyFailed
       PROVE  NoneForgotten'
  <2>1. ToSet(deposits) = ToSet(Tail(deposits)) \cup {d}
    BY <1>10, ToSetTail DEF BuyTake, TypeInv, TypeOK
  <2>2. InExchange \subseteq InExchange' \cup {d}
    BY <1>10, <2>1 DEF BuyTake, InExchange
  <2>3. \A e \in Deposits :
          status'[e] = "waiting_decide" =>
              status[e] = "waiting_decide" /\ (e # d \/ e \in buyFailed')
    BY <1>10 DEF TypeInv, TypeOK
  <2>4. Hands /\ UNCHANGED <<scanStatus, scanner, scanFailed>> /\ buyFailed \subseteq buyFailed'
    BY <1>10 DEF BuyTake, InScanner, scanVars, pipeVars
  <2>. QED
    BY <2>2, <2>3, <2>4 DEF NoneForgotten
<1>11. ASSUME Restart PROVE NoneForgotten'
  <2>1. \A d \in Deposits :
          /\ scanner'[CoinType[d]] = "starting"
          /\ status[d] = "waiting_decide" => d \in InExchange'
    BY <1>11, ToSetEmpty DEF Restart, Each, InExchange
  <2>. QED
    BY <1>11, <2>1 DEF Restart, NoneForgotten, dbVars
<1>12. ASSUME NEW k \in CoinTypes, PipeSend(k) \/ Multiplex(k)
       PROVE  NoneForgotten'
  <2>1. UNCHANGED <<dbVars, scanner, pending, scanned, pipe, scanFailed, exchangeVars>>
    BY <1>12 DEF PipeSend, Multiplex, scanVars, pipeVars
  <2>. QED
    BY <1>1, <2>1 DEF InScanner, InExchange, dbVars, exchangeVars
<1>16. ASSUME NEW k \in CoinTypes, StartScanner(k) PROVE NoneForgotten'
  <2>1. \A c \in CoinTypes : scanner'[c] # "starting" => scanner[c] # "starting"
    BY <1>16 DEF StartScanner, TypeInv, TypeOK
  <2>2. UNCHANGED <<dbVars, pending, scanned, pipe, scanFailed, exchangeVars>>
    BY <1>16 DEF StartScanner, pipeVars
  <2>. QED
    BY <2>1, <2>2 DEF NoneForgotten, InScanner, InExchange, dbVars, exchangeVars
<1>17. ASSUME NEW k \in CoinTypes, LoadUnprocessed(k) PROVE NoneForgotten'
  <2>1. \A d \in Deposits : scanStatus[d] = "not_processed" => d \in InScanner(k)'
    BY <1>17 DEF LoadUnprocessed, InScanner, TypeInv, TypeOK
  <2>2. \A c \in CoinTypes : c # k =>
           InScanner(c)' = InScanner(c) /\ scanner'[c] = scanner[c]
    BY <1>17 DEF LoadUnprocessed, InScanner, TypeInv, TypeOK, pipeVars
  <2>3. UNCHANGED <<scanStatus, status, scanFailed, buyFailed>> /\ InExchange' = InExchange
    BY <1>17 DEF LoadUnprocessed, InExchange, dbVars, pipeVars, exchangeVars
  <2>. QED
    BY <2>1, <2>2, <2>3 DEF NoneForgotten
<1>13. ASSUME UNCHANGED vars PROVE NoneForgotten'
  BY <1>1, <1>13 DEF vars, InScanner, InExchange, dbVars, scanVars, pipeVars, exchangeVars
<1>14. \A k \in CoinTypes : PipeAccept(k) \/ PipeAcceptFails(k) \/ PipeReject(k) =>
          /\ PipeDone(k)
          /\ \/ scanStatus' = [scanStatus EXCEPT ![pipe[k]] = "accepted"]
                /\ UNCHANGED scanFailed
             \/ UNCHANGED scanStatus /\ scanFailed' = scanFailed \cup {pipe[k]}
  BY DEF PipeAccept, PipeAcceptFails, PipeReject
<1>15. \A d \in Deposits : BuyUpdate(d) \/ BuyFails(d) =>
          /\ BuyTake(d)
          /\ \/ UNCHANGED status /\ buyFailed' = buyFailed \cup {d}
             \/ status' = [status EXCEPT ![d] = "waiting_partial"] /\ UNCHANGED buyFailed
  BY DEF BuyUpdate, BuyFails
<1>. QED
  BY <1>2, <1>3, <1>4, <1>5, <1>6, <1>7, <1>8, <1>9, <1>10, <1>11, <1>12, <1>13,
     <1>14, <1>15, <1>16, <1>17 DEF Next, Scan, Pipe, ReceiveStep, BuyStep

(* A stored deposit with work left to do is in the hands of a goroutine, or  *)
(* its failure was logged (NoneForgotten).                                   *)
THEOREM NothingForgotten == Spec => []NoneForgotten
<1>1. Init => NoneForgotten
  BY DEF Init, NoneForgotten
<1>2. PipelineInv => TypeInv /\ OneNotePerScanner
  BY DEF PipelineInv
<1>. QED
  BY <1>1, <1>2, NoneForgottenNext, PipelineInvAlways, PTL DEF Spec
=============================================================================
