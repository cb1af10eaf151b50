----------------------------- MODULE SendingProofs -----------------------------
(***************************************************************************)
(* Proofs about Sending, for any rows, capacity, shutdowns and restarts.   *)
(***************************************************************************)
EXTENDS Sending, SequenceTheorems, TLAPS

-----------------------------------------------------------------------------
(* The inductive invariant *)

(* Which parts run when.                                                    *)
PhaseInv ==
    /\ run \in {"start", "failed"} => worker = "off"
    /\ run = "ended" => worker = "gone"
    /\ serviceQuit => run \in {"ended", "failed"}
    /\ service = "gone" => serviceQuit
    /\ service = "retry" => request # NoDeposit
    /\ worker = "gone" => sendQuit

(* What runSend holds, and what has been answered about it.                 *)
HandInv ==
    /\ worker \in {"handle", "ask"} <=> inHand # NoDeposit
    /\ worker = "ask" => status[inHand] = "waiting_confirm"
    /\ response = "confirmed" => inHand \in known \ BadTxid

SendingInv ==
    /\ TypeOK
    /\ PhaseInv
    /\ HandInv
    /\ AskIsServed
    /\ DoneIsKnown
    /\ NoneForgotten

-----------------------------------------------------------------------------
(* depositChan *)

LEMMA InChanAppend ==
    ASSUME TypeOK, NEW d \in Deposits, depositChan' = Append(depositChan, d)
    PROVE  depositChan' \in Seq(Deposits) /\ InChan' = InChan \cup {d}
<1>1. /\ depositChan' \in Seq(Deposits)
      /\ Len(depositChan) \in Nat /\ Len(depositChan') = Len(depositChan) + 1
      /\ \A i \in 1..Len(depositChan) : depositChan'[i] = depositChan[i]
      /\ depositChan'[Len(depositChan) + 1] = d
  BY AppendProperties, LenProperties DEF TypeOK
<1>2. DOMAIN depositChan = 1..Len(depositChan) /\ DOMAIN depositChan' = 1..Len(depositChan')
  BY <1>1, LenProperties DEF TypeOK
<1> QED BY <1>1, <1>2 DEF InChan

LEMMA InChanTail ==
    ASSUME TypeOK, depositChan # <<>>, depositChan' = Tail(depositChan)
    PROVE  /\ depositChan' \in Seq(Deposits)
           /\ Head(depositChan) \in Deposits
           /\ InChan \subseteq InChan' \cup {Head(depositChan)}
<1>1. /\ depositChan' \in Seq(Deposits) /\ Head(depositChan) \in Deposits
      /\ Len(depositChan) \in Nat /\ Len(depositChan') = Len(depositChan) - 1
      /\ \A i \in 1..Len(depositChan') : depositChan'[i] = depositChan[i + 1]
  BY HeadTailProperties, LenProperties DEF TypeOK
<1>2. DOMAIN depositChan = 1..Len(depositChan) /\ DOMAIN depositChan' = 1..Len(depositChan')
  BY <1>1, LenProperties DEF TypeOK
<1>3. ASSUME NEW i \in 1..Len(depositChan)
      PROVE  depositChan[i] \in InChan' \cup {Head(depositChan)}
  <2>1. CASE i = 1
    BY <2>1, <1>1 DEF TypeOK
  <2>2. CASE i # 1
    <3>1. i - 1 \in 1..Len(depositChan') /\ depositChan'[i - 1] = depositChan[i]
      BY <1>1, <2>2
    <3> QED BY <1>2, <3>1 DEF InChan
  <2> QED BY <2>1, <2>2
<1> QED BY <1>1, <1>2, <1>3 DEF InChan

-----------------------------------------------------------------------------
(* One lemma per goroutine *)

LEMMA InitInv == ASSUME Init PROVE SendingInv
<1>1. <<>> \in Seq(Deposits)
  BY EmptySeq
<1>2. TypeOK
  BY <1>1, SendingAssumption DEF Init, TypeOK
<1>3. PhaseInv /\ HandInv /\ AskIsServed /\ DoneIsKnown /\ NoneForgotten
  BY DEF Init, PhaseInv, HandInv, AskIsServed, DoneIsKnown, NoneForgotten
<1> QED BY <1>2, <1>3 DEF SendingInv

LEMMA RunKeeps ==
    ASSUME SendingInv, RunStep \/ LoadFails
    PROVE  SendingInv'
<1>1. CASE Load
  <2>1. TypeOK'
    BY <1>1 DEF Load, SendingInv, TypeOK, serviceVars, quitVars, HasStatus
  <2>2. PhaseInv' /\ HandInv' /\ AskIsServed' /\ DoneIsKnown'
    BY <1>1 DEF Load, SendingInv, TypeOK, PhaseInv, HandInv, AskIsServed, DoneIsKnown,
                serviceVars, quitVars
  <2>3. NoneForgotten'
    <3>1. SUFFICES ASSUME SendEnabled, NEW d \in Deposits, status[d] # "done"
                   PROVE  d \in toConfirm' \cup toSend'
      BY <1>1 DEF Load, NoneForgotten
    <3>2. status[d] \in {"waiting_send", "waiting_confirm"}
      BY <3>1 DEF SendingInv, TypeOK, Statuses
    <3> QED BY <1>1, <3>1, <3>2 DEF Load, HasStatus
  <2> QED BY <2>1, <2>2, <2>3 DEF SendingInv
<1>2. ASSUME NEW d \in Deposits, Queue(d) PROVE SendingInv'
  <2>1. depositChan' \in Seq(Deposits) /\ InChan' = InChan \cup {d}
    BY <1>2, InChanAppend DEF Queue, SendingInv
  <2>2. toConfirm \cup toSend \subseteq toConfirm' \cup toSend' \cup {d}
        /\ toConfirm' \subseteq toConfirm /\ toSend' \subseteq toSend
    BY <1>2 DEF Queue
  <2>3. TypeOK'
    BY <1>2, <2>1, <2>2 DEF Queue, SendingInv, TypeOK, serviceVars, quitVars
  <2>4. PhaseInv' /\ HandInv' /\ AskIsServed' /\ DoneIsKnown'
    BY <1>2 DEF Queue, SendingInv, PhaseInv, HandInv, AskIsServed, DoneIsKnown,
                serviceVars, quitVars
  <2>5. NoneForgotten'
    BY <1>2, <2>1, <2>2 DEF Queue, SendingInv, NoneForgotten, quitVars
  <2> QED BY <2>3, <2>4, <2>5 DEF SendingInv
<1>3. CASE StartReceiving \/ RunEnds \/ LoadFails
  <2>1. UNCHANGED <<status, toConfirm, toSend, workerVars, serviceVars, quitVars, known,
                    restarts, dbFailures>>
    BY <1>3 DEF StartReceiving, RunEnds, LoadFails
  <2>2. TypeOK'
    BY <1>3, <2>1 DEF StartReceiving, RunEnds, LoadFails, SendingInv, TypeOK,
                      workerVars, serviceVars, quitVars
  <2>3. PhaseInv'
    BY <1>3, <2>1 DEF StartReceiving, RunEnds, LoadFails, SendingInv, PhaseInv,
                      workerVars, serviceVars, quitVars
  <2>4. HandInv' /\ AskIsServed' /\ DoneIsKnown'
    BY <2>1 DEF SendingInv, HandInv, AskIsServed, DoneIsKnown,
                workerVars, serviceVars, quitVars
  <2>5. NoneForgotten'
    BY <1>3, <2>1 DEF StartReceiving, RunEnds, LoadFails, SendingInv, NoneForgotten, InChan,
                      workerVars, quitVars
  <2> QED BY <2>2, <2>3, <2>4, <2>5 DEF SendingInv
<1> QED BY <1>1, <1>2, <1>3 DEF RunStep

LEMMA WorkerKeeps ==
    ASSUME SendingInv, WorkerStep
    PROVE  SendingInv'
<1> USE DEF SendingInv
<1>1. CASE Take
  <2>1. /\ depositChan' \in Seq(Deposits) /\ Head(depositChan) \in Deposits
        /\ InChan \subseteq InChan' \cup {Head(depositChan)}
    BY <1>1, InChanTail DEF Take
  <2>2. TypeOK'
    BY <1>1, <2>1 DEF Take, TypeOK, runVars, serviceVars, quitVars
  <2>3. PhaseInv' /\ HandInv' /\ AskIsServed' /\ DoneIsKnown'
    <3>1. Head(depositChan) # NoDeposit
      BY <2>1, SendingAssumption
    <3> QED BY <1>1, <3>1 DEF Take, PhaseInv, HandInv, AskIsServed, DoneIsKnown,
                              runVars, serviceVars, quitVars
  <2>4. NoneForgotten'
    <3>1. SUFFICES ASSUME SendEnabled, run \in {"queue", "receive"}, ~sendQuit,
                          NEW d \in Deposits, status[d] # "done"
                   PROVE  d \in toConfirm \cup toSend \cup InChan' \cup {inHand'} \cup dropped
      BY <1>1 DEF Take, NoneForgotten, runVars, quitVars
    <3>2. d \in toConfirm \cup toSend \cup InChan \cup {inHand} \cup dropped
      BY <3>1 DEF NoneForgotten
    <3>3. inHand = NoDeposit /\ inHand' = Head(depositChan) /\ d # NoDeposit
      BY <1>1, <3>1, SendingAssumption DEF Take, HandInv
    <3> QED BY <2>1, <3>2, <3>3
  <2> QED BY <2>2, <2>3, <2>4
<1>2. CASE WorkerQuits
  <2>1. TypeOK' /\ PhaseInv' /\ HandInv' /\ AskIsServed' /\ DoneIsKnown'
    BY <1>2 DEF WorkerQuits, TypeOK, PhaseInv, HandInv, AskIsServed, DoneIsKnown,
                runVars, serviceVars, quitVars
  <2>2. NoneForgotten'
    BY <1>2 DEF WorkerQuits, NoneForgotten, quitVars
  <2> QED BY <2>1, <2>2
<1>3. CASE Ask
  <2>1. inHand \in Deposits /\ inHand # NoDeposit
    BY <1>3, SendingAssumption DEF Ask, HandInv, TypeOK
  <2>2. TypeOK'
    BY <1>3, <2>1 DEF Ask, TypeOK, runVars, quitVars
  <2>3. PhaseInv' /\ HandInv' /\ DoneIsKnown'
    BY <1>3, <2>1 DEF Ask, PhaseInv, HandInv, DoneIsKnown, runVars, quitVars
  <2>4. AskIsServed'
    <3>1. request = NoDeposit /\ response = "empty"
      BY <1>3 DEF Ask, AskIsServed
    <3>2. ~serviceQuit /\ service # "gone"
      BY <1>3 DEF Ask, PhaseInv
    <3> QED BY <1>3, <2>1, <3>1, <3>2 DEF Ask, AskIsServed, quitVars
  <2>5. NoneForgotten'
    BY <1>3 DEF Ask, NoneForgotten, InChan, runVars, quitVars
  <2> QED BY <2>2, <2>3, <2>4, <2>5
<1>4. CASE HandleInvalid
  <2>1. TypeOK' /\ PhaseInv' /\ HandInv' /\ AskIsServed' /\ DoneIsKnown'
    BY <1>4 DEF HandleInvalid, WorkerIdle, TypeOK, PhaseInv, HandInv, AskIsServed,
                DoneIsKnown, runVars, serviceVars, quitVars
  <2>2. NoneForgotten'
    BY <1>4 DEF HandleInvalid, WorkerIdle, NoneForgotten, InChan, runVars, quitVars
  <2> QED BY <2>1, <2>2
<1>5. CASE Done
  <2>1. inHand \in Deposits /\ request = NoDeposit /\ inHand \in known \ BadTxid
    BY <1>5, SendingAssumption DEF Done, HandInv, TypeOK, AskIsServed
  <2>2. TypeOK'
    BY <1>5, <2>1 DEF Done, WorkerIdle, TypeOK, Statuses, runVars, quitVars
  <2>3. PhaseInv' /\ HandInv' /\ AskIsServed'
    BY <1>5, <2>1 DEF Done, WorkerIdle, PhaseInv, HandInv, AskIsServed, runVars, quitVars
  <2>4. DoneIsKnown'
    BY <1>5, <2>1 DEF Done, DoneIsKnown, TypeOK
  <2>5. NoneForgotten'
    BY <1>5, <2>1 DEF Done, WorkerIdle, NoneForgotten, InChan, TypeOK, runVars, quitVars
  <2> QED BY <2>2, <2>3, <2>4, <2>5
<1>6. CASE GiveUp
  <2>1. inHand \in Deposits /\ request = NoDeposit
    BY <1>6, SendingAssumption DEF GiveUp, HandInv, TypeOK, AskIsServed
  <2>2. TypeOK'
    BY <1>6, <2>1 DEF GiveUp, DbFailure, WorkerIdle, TypeOK, runVars, quitVars
  <2>3. PhaseInv' /\ HandInv' /\ AskIsServed' /\ DoneIsKnown'
    BY <1>6, <2>1 DEF GiveUp, WorkerIdle, PhaseInv, HandInv, AskIsServed, DoneIsKnown,
                      runVars, quitVars
  <2>4. NoneForgotten'
    BY <1>6, <2>1 DEF GiveUp, WorkerIdle, NoneForgotten, InChan, runVars, quitVars
  <2> QED BY <2>2, <2>3, <2>4
<1> QED BY <1>1, <1>2, <1>3, <1>4, <1>5, <1>6 DEF WorkerStep

LEMMA ServiceKeeps ==
    ASSUME SendingInv, ServiceStep
    PROVE  SendingInv'
<1> USE DEF SendingInv
<1>1. UNCHANGED <<status, runVars, workerVars, quitVars, known, restarts, dbFailures>>
  BY DEF ServiceStep, ServiceTake, Confirm, ConfirmFails, Answer, ServiceQuits
<1>2. NoneForgotten' /\ DoneIsKnown'
  BY <1>1 DEF NoneForgotten, DoneIsKnown, InChan, runVars, workerVars, quitVars
<1>3. CASE ServiceTake
  BY <1>1, <1>2, <1>3 DEF ServiceTake, TypeOK, PhaseInv, HandInv, AskIsServed,
                          runVars, workerVars, quitVars
<1>4. CASE Confirm \/ ConfirmFails
  <2>1. /\ service = "retry" /\ service' = "idle" /\ request' = NoDeposit
        /\ response' \in {"confirmed", "error"}
        /\ response' = "confirmed" => request \in known \ BadTxid
    BY <1>4 DEF Confirm, ConfirmFails, Answer
  <2>2. request # NoDeposit /\ request = inHand /\ worker = "ask"
    BY <2>1 DEF PhaseInv, AskIsServed
  <2> QED BY <1>1, <1>2, <2>1, <2>2 DEF TypeOK, PhaseInv, HandInv, AskIsServed,
                                        runVars, workerVars, quitVars
<1>5. CASE ServiceQuits
  <2>1. worker # "ask" /\ request = NoDeposit /\ service # "retry" /\ response = "empty"
    BY <1>5 DEF ServiceQuits, PhaseInv, AskIsServed
  <2> QED BY <1>1, <1>2, <1>5, <2>1 DEF ServiceQuits, TypeOK, PhaseInv, HandInv, AskIsServed,
                                        runVars, workerVars, quitVars
<1> QED BY <1>3, <1>4, <1>5 DEF ServiceStep

LEMMA NextInv == ASSUME SendingInv, [Next]_vars PROVE SendingInv'
<1> USE DEF SendingInv
<1>1. CASE ShutdownSend
  BY <1>1 DEF ShutdownSend, TypeOK, PhaseInv, HandInv, AskIsServed, DoneIsKnown,
              NoneForgotten, runVars, workerVars, serviceVars
<1>2. CASE ShutdownService
  <2>1. worker # "ask"
    BY <1>2 DEF ShutdownService, PhaseInv
  <2> QED BY <1>2, <2>1 DEF ShutdownService, TypeOK, PhaseInv, HandInv, AskIsServed,
                 DoneIsKnown, NoneForgotten, InChan, runVars, workerVars, serviceVars
<1>3. ASSUME NEW d \in Deposits, Learn(d) PROVE SendingInv'
  BY <1>3 DEF Learn, TypeOK, PhaseInv, HandInv, AskIsServed, DoneIsKnown, NoneForgotten,
              InChan, runVars, workerVars, serviceVars, quitVars
<1>4. CASE Restart
  <2>1. <<>> \in Seq(Deposits)
    BY EmptySeq
  <2>2. TypeOK'
    <3>1. restarts' \in Nat /\ UNCHANGED <<status, known, dbFailures>>
      BY <1>4 DEF Restart, TypeOK
    <3>2. depositChan' \in Seq(Deposits)
      BY <1>4, <2>1 DEF Restart
    <3> QED BY <1>4, <3>1, <3>2 DEF Restart, TypeOK
  <2>3. PhaseInv' /\ HandInv' /\ AskIsServed'
    BY <1>4 DEF Restart, PhaseInv, HandInv, AskIsServed
  <2>4. DoneIsKnown' /\ NoneForgotten'
    BY <1>4 DEF Restart, DoneIsKnown, NoneForgotten
  <2> QED BY <2>2, <2>3, <2>4
<1>5. CASE UNCHANGED vars
  BY <1>5 DEF vars, TypeOK, PhaseInv, HandInv, AskIsServed, DoneIsKnown, NoneForgotten,
              InChan, runVars, workerVars, serviceVars, quitVars
<1> QED BY <1>1, <1>2, <1>3, <1>4, <1>5, RunKeeps, WorkerKeeps, ServiceKeeps DEF Next

LEMMA Invariance == Spec => []SendingInv
BY InitInv, NextInv, PTL DEF Spec

-----------------------------------------------------------------------------
(* Theorems *)

(* Every variable has its type.                                             *)
THEOREM TypesKept == Spec => []TypeOK
<1>1. SendingInv => TypeOK
  BY DEF SendingInv
<1> QED BY <1>1, Invariance, PTL

(* A row becomes done only when the node has its transaction.               *)
THEOREM DoneHasTransaction == Spec => []DoneIsKnown
<1>1. SendingInv => DoneIsKnown
  BY DEF SendingInv
<1> QED BY <1>1, Invariance, PTL

(* While Send runs no loaded row is forgotten.                              *)
THEOREM RowsKept == Spec => []NoneForgotten
<1>1. SendingInv => NoneForgotten
  BY DEF SendingInv
<1> QED BY <1>1, Invariance, PTL

(* Whoever waits for an answer waits for a service that runs and has the    *)
(* request or the answer: the order of the shutdown sees to it.             *)
THEOREM AskServed == Spec => []AskIsServed
<1>1. SendingInv => AskIsServed
  BY DEF SendingInv
<1> QED BY <1>1, Invariance, PTL
=============================================================================
