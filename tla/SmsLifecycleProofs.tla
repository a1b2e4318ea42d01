------------------------- MODULE SmsLifecycleProofs -------------------------
(***************************************************************************)
(* Type correctness and charging theorems of SmsLifecycle, for any number  *)
(* of messages, receipts, sweeper passes, restarts and faults, any rates   *)
(* and any subset of charging modes.                                       *)
(***************************************************************************)
EXTENDS SmsLifecycle, FiniteSetTheorems, TLAPS

\* A pass takes a row up, with the modes it looked up or the defaults of a lookup that failed.
SweepStarts(s, m) == SweepRead(s, m) \/ SweepMisread(s, m)

-----------------------------------------------------------------------------
(* Types.  TypeOK is a conjunction of parts that share no variable: a part   *)
(* whose variables a step leaves alone is kept.                              *)

\* A step that leaves the row, the ledger and the counters alone keeps their types.
LEMMA SameRow == RowTypes /\ UNCHANGED <<rowVars, counted>> => RowTypes'
  BY DEF RowTypes, rowVars

\* A step that leaves the submit handlers and the tracking maps alone keeps their types.
LEMMA SameSub == SubmitTypes /\ UNCHANGED <<submit, trackVars>> => SubmitTypes'
  BY DEF SubmitTypes, trackVars

\* A step that leaves the receipt handlers alone keeps their types.
LEMMA SameRec == ReceiptTypes /\ UNCHANGED receipt => ReceiptTypes'
  BY DEF ReceiptTypes

\* A step that leaves the billing tasks alone keeps their types.
LEMMA SameChg == ChargeTypes /\ UNCHANGED charge => ChargeTypes'
  BY DEF ChargeTypes, Tasks

\* A step that leaves the forced-receipt timers alone keeps their types.
LEMMA SameFrc == ForceTypes /\ UNCHANGED forceVars => ForceTypes'
  BY DEF ForceTypes, forceVars

\* A step that leaves the sweeper alone keeps its types.
LEMMA SameSwp == SweepTypes /\ UNCHANGED <<modeVars, sweepVars>> => SweepTypes'
  BY DEF SweepTypes, modeVars, sweepVars, historyVars

\* A step that leaves the process bookkeeping alone keeps its types.
LEMMA SamePrc ==
    ProcessTypes /\ UNCHANGED <<modeVars, processVars, faults>> => ProcessTypes'
  BY DEF ProcessTypes, modeVars, processVars

\* One receipt's handler moves on to a well-formed stage.
LEMMA ReceiptUpdate ==
    ASSUME ReceiptTypes, NEW r \in Receipts, NEW rec \in ReceiptType,
           rec.pc = "waiting" => rec.of \in Msgs,
           rec.pc \in Matched => rec.target \in Msgs,
           receipt' = [receipt EXCEPT ![r] = rec]
    PROVE  ReceiptTypes'
  BY DEF ReceiptTypes

\* Starting billing tasks (the un-awaited charge calls) keeps the task types.
LEMMA WithTasksType ==
    ASSUME NEW c \in Tasks, NEW s
    PROVE  WithTasks(c, s) \in Tasks
<1> DEFINE k == IF ChargesClient(s) THEN c.cost + 1 ELSE c.cost
           p == IF ChargesSupplier(s) THEN c.supplier + 1 ELSE c.supplier
<1>1. k \in Nat /\ p \in Nat
  BY DEF Tasks
<1>2. WithTasks(c, s) = [c EXCEPT !.cost = k, !.supplier = p]
  BY DEF WithTasks
<1> HIDE DEF k, p
<1> QED BY <1>1, <1>2 DEF Tasks

\* A task whose row is priced goes on to its counter, and stays well typed.
LEMMA RowPricedType ==
    ASSUME NEW c \in Tasks, c.cost > 0
    PROVE  RowPriced(c) \in Tasks
<1> DEFINE k == c.cost - 1
           p == c.counter + 1
<1>1. k \in Nat /\ p \in Nat
  BY DEF Tasks
<1>2. RowPriced(c) = [c EXCEPT !.cost = k, !.counter = p]
  BY DEF RowPriced, Tasks
<1> HIDE DEF k, p
<1> QED BY <1>1, <1>2 DEF Tasks

\* A system that has accepted no message is well typed.
LEMMA InitType == Init => TypeOK
  BY LifecycleAssumption
  DEF Init, TypeOK, RowTypes, SubmitTypes, ReceiptTypes, ChargeTypes, Tasks,
      ForceTypes, SweepTypes, ProcessTypes, LifecycleAssumption, Token,
      ReceiptType, SweepType, Mode, Matched, Stat, Idle, NoSweep, NoCharge, Unread

\* Every step of submit_sm and deliverSms keeps the types.
LEMMA SubmitType ==
    ASSUME TypeOK, NEW m \in Msgs, SubmitStep(m) \/ SubmitFault(m)
    PROVE  TypeOK'
<1> USE LifecycleAssumption DEF LifecycleAssumption, modeVars, rowVars,
        trackVars, forceVars, sweepVars, historyVars, processVars
<1>1. CASE Accept(m)
  <2>1. SubmitTypes'
    BY <1>1 DEF Accept, TypeOK, SubmitTypes, Token
  <2>2. RowTypes' /\ ReceiptTypes' /\ ChargeTypes' /\ ForceTypes' /\
      SweepTypes' /\ ProcessTypes'
    BY <1>1, SameRow, SameRec, SameChg, SameFrc, SameSwp, SamePrc DEF Accept,
        TypeOK
  <2> QED BY <2>1, <2>2 DEF TypeOK
<1>2. CASE Reject(m)
  <2>1. RowTypes'
    BY <1>2 DEF Reject, TypeOK, RowTypes
  <2>2. SubmitTypes'
    BY <1>2 DEF Reject, TypeOK, SubmitTypes, Token
  <2>3. ReceiptTypes' /\ ChargeTypes' /\ ForceTypes' /\ SweepTypes' /\
      ProcessTypes'
    BY <1>2, SameRec, SameChg, SameFrc, SameSwp, SamePrc DEF Reject, TypeOK
  <2> QED BY <2>1, <2>2, <2>3 DEF TypeOK
<1>3. CASE Track(m)
  <2>1. SubmitTypes'
    BY <1>3 DEF Track, TypeOK, SubmitTypes, Token
  <2>2. RowTypes' /\ ReceiptTypes' /\ ChargeTypes' /\ ForceTypes' /\
      SweepTypes' /\ ProcessTypes'
    BY <1>3, SameRow, SameRec, SameChg, SameFrc, SameSwp, SamePrc DEF Track,
        TypeOK
  <2> QED BY <2>1, <2>2 DEF TypeOK
<1>4. CASE Insert(m)
  <2>1. RowTypes'
    BY <1>4 DEF Insert, TypeOK, RowTypes, SubmitClientCost, SubmitSupplierCost
  <2>2. SubmitTypes'
    BY <1>4 DEF Insert, TypeOK, SubmitTypes, Token
  <2>3. ReceiptTypes' /\ ChargeTypes' /\ ForceTypes' /\ SweepTypes' /\
      ProcessTypes'
    BY <1>4, SameRec, SameChg, SameFrc, SameSwp, SamePrc DEF Insert, TypeOK
  <2> QED BY <2>1, <2>2, <2>3 DEF TypeOK
<1>5. CASE CountSubmit(m)
  <2>1. RowTypes'
    BY <1>5 DEF CountSubmit, TypeOK, RowTypes
  <2>2. SubmitTypes'
    BY <1>5 DEF CountSubmit, TypeOK, SubmitTypes, Token
  <2>3. ReceiptTypes' /\ ChargeTypes' /\ ForceTypes' /\ SweepTypes' /\
      ProcessTypes'
    BY <1>5, SameRec, SameChg, SameFrc, SameSwp, SamePrc DEF CountSubmit,
        TypeOK
  <2> QED BY <2>1, <2>2, <2>3 DEF TypeOK
<1>6. CASE Register(m)
  <2>1. SubmitTypes'
    BY <1>6 DEF Register, TypeOK, SubmitTypes, Token
  <2>2. ForceTypes'
    BY <1>6 DEF Register, TypeOK, ForceTypes, ForceJob
  <2>3. RowTypes' /\ ReceiptTypes' /\ ChargeTypes' /\ SweepTypes' /\
      ProcessTypes'
    BY <1>6, SameRow, SameRec, SameChg, SameSwp, SamePrc DEF Register, TypeOK
  <2> QED BY <2>1, <2>2, <2>3 DEF TypeOK
<1>7. CASE SubmitFault(m)
  <2>1. SubmitTypes'
    BY <1>7 DEF SubmitFault, TypeOK, SubmitTypes, Token
  <2>2. ProcessTypes'
    BY <1>7 DEF SubmitFault, TypeOK, ProcessTypes
  <2>3. RowTypes' /\ ReceiptTypes' /\ ChargeTypes' /\ ForceTypes' /\
      SweepTypes'
    BY <1>7, SameRow, SameRec, SameChg, SameFrc, SameSwp DEF SubmitFault,
        TypeOK
  <2> QED BY <2>1, <2>2, <2>3 DEF TypeOK
<1> QED BY <1>1, <1>2, <1>3, <1>4, <1>5, <1>6, <1>7 DEF SubmitStep

\* Every statement of a billing task keeps the types.
LEMMA ChargeType ==
    ASSUME TypeOK, NEW m \in Msgs, ChargeStep(m) \/ ChargeFault(m) \/ ForgetStale(m)
    PROVE  TypeOK'
<1> USE LifecycleAssumption DEF LifecycleAssumption, modeVars, rowVars,
        trackVars, forceVars, sweepVars, historyVars, processVars
<1>1. CASE ChargeCost(m)
  <2>1. RowTypes'
    BY <1>1 DEF ChargeCost, TypeOK, RowTypes, SubmitSupplierCost
  <2>2. ChargeTypes'
    <3>1. charge[m] \in Tasks /\ charge[m].cost > 0
      BY <1>1 DEF ChargeCost, TypeOK, ChargeTypes
    <3>2. RowPriced(charge[m]) \in Tasks
      BY <3>1, RowPricedType
    <3> QED BY <1>1, <3>2 DEF ChargeCost, TypeOK, ChargeTypes
  <2>3. SubmitTypes' /\ ReceiptTypes' /\ ForceTypes' /\ SweepTypes' /\
      ProcessTypes'
    BY <1>1, SameSub, SameRec, SameFrc, SameSwp, SamePrc DEF ChargeCost, TypeOK
  <2> QED BY <2>1, <2>2, <2>3 DEF TypeOK
<1>2. CASE ChargeCounter(m)
  <2>1. RowTypes'
    BY <1>2 DEF ChargeCounter, TypeOK, RowTypes
  <2>2. ChargeTypes'
    BY <1>2 DEF ChargeCounter, TypeOK, ChargeTypes, Tasks
  <2>3. SubmitTypes' /\ ReceiptTypes' /\ ForceTypes' /\ SweepTypes' /\
      ProcessTypes'
    BY <1>2, SameSub, SameRec, SameFrc, SameSwp, SamePrc DEF ChargeCounter,
        TypeOK
  <2> QED BY <2>1, <2>2, <2>3 DEF TypeOK
<1>3. CASE ChargeSupplier(m)
  <2>1. RowTypes'
    BY <1>3 DEF ChargeSupplier, TypeOK, RowTypes
  <2>2. ChargeTypes'
    BY <1>3 DEF ChargeSupplier, TypeOK, ChargeTypes, Tasks
  <2>3. SubmitTypes' /\ ReceiptTypes' /\ ForceTypes' /\ SweepTypes' /\
      ProcessTypes'
    BY <1>3, SameSub, SameRec, SameFrc, SameSwp, SamePrc DEF ChargeSupplier,
        TypeOK
  <2> QED BY <2>1, <2>2, <2>3 DEF TypeOK
<1>4. CASE ChargeFault(m)
  <2>1. ChargeTypes'
    BY <1>4 DEF ChargeFault, TypeOK, ChargeTypes, Tasks
  <2>2. ProcessTypes'
    BY <1>4 DEF ChargeFault, TypeOK, ProcessTypes
  <2>3. RowTypes' /\ SubmitTypes' /\ ReceiptTypes' /\ ForceTypes' /\
      SweepTypes'
    BY <1>4, SameRow, SameSub, SameRec, SameFrc, SameSwp DEF ChargeFault,
        TypeOK
  <2> QED BY <2>1, <2>2, <2>3 DEF TypeOK
<1>5. CASE ForgetStale(m)
  <2>1. SubmitTypes'
    BY <1>5 DEF ForgetStale, TypeOK, SubmitTypes, Token
  <2>2. RowTypes' /\ ReceiptTypes' /\ ChargeTypes' /\ ForceTypes' /\
      SweepTypes' /\ ProcessTypes'
    BY <1>5, SameRow, SameRec, SameChg, SameFrc, SameSwp, SamePrc DEF
        ForgetStale, TypeOK
  <2> QED BY <2>1, <2>2 DEF TypeOK
<1> QED BY <1>1, <1>2, <1>3, <1>4, <1>5 DEF ChargeStep

\* Every step of a forced receipt (arming, firing, writing) keeps the types.
LEMMA ForceType ==
    ASSUME TypeOK, NEW m \in Msgs, ForceStep(m) \/ ForceFault(m)
    PROVE  TypeOK'
<1> USE LifecycleAssumption DEF LifecycleAssumption, modeVars, rowVars,
        trackVars, forceVars, sweepVars, historyVars, processVars
<1>1. CASE ForceMark(m)
  <2>1. RowTypes'
    BY <1>1 DEF ForceMark, TypeOK, RowTypes, SubmitSupplierCost
  <2>2. ForceTypes'
    BY <1>1 DEF ForceMark, TypeOK, ForceTypes
  <2>3. SubmitTypes' /\ ReceiptTypes' /\ ChargeTypes' /\ SweepTypes' /\
      ProcessTypes'
    BY <1>1, SameSub, SameRec, SameChg, SameSwp, SamePrc DEF ForceMark, TypeOK
  <2> QED BY <2>1, <2>2, <2>3 DEF TypeOK
<1>2. CASE ForceCount(m)
  <2>1. RowTypes'
    BY <1>2 DEF ForceCount, TypeOK, RowTypes
  <2>2. ForceTypes'
    BY <1>2 DEF ForceCount, TypeOK, ForceTypes
  <2>3. SubmitTypes' /\ ReceiptTypes' /\ ChargeTypes' /\ SweepTypes' /\
      ProcessTypes'
    BY <1>2, SameSub, SameRec, SameChg, SameSwp, SamePrc DEF ForceCount, TypeOK
  <2> QED BY <2>1, <2>2, <2>3 DEF TypeOK
<1>3. CASE ForcePay(m)
  <2>1. RowTypes'
    BY <1>3 DEF ForcePay, TypeOK, RowTypes
  <2>2. ForceTypes'
    BY <1>3 DEF ForcePay, TypeOK, ForceTypes
  <2>3. SubmitTypes' /\ ReceiptTypes' /\ ChargeTypes' /\ SweepTypes' /\
      ProcessTypes'
    BY <1>3, SameSub, SameRec, SameChg, SameSwp, SamePrc DEF ForcePay, TypeOK
  <2> QED BY <2>1, <2>2, <2>3 DEF TypeOK
<1>4. CASE TimerRead(m)
  <2> DEFINE reading == [cost |-> cost[m], supplierCost |-> supplierCost[m]]
  <2>1. reading \in [cost : {0, ClientRate}, supplierCost : {0, SupplierRate}]
    BY DEF TypeOK, RowTypes
  <2>2. ForceTypes'
    <3>1. CASE status[m] = "SENT"
      <4>1. /\ force' = [force EXCEPT ![m] = "tmark"]
            /\ seen' = [seen EXCEPT ![m] = reading]
        BY <1>4, <3>1 DEF TimerRead
      <4> HIDE DEF reading
      <4> QED BY <2>1, <4>1 DEF TypeOK, ForceTypes
    <3>2. CASE status[m] # "SENT"
      BY <1>4, <3>2 DEF TimerRead, TypeOK, ForceTypes
    <3> QED BY <3>1, <3>2
  <2>3. RowTypes' /\ SubmitTypes' /\ ReceiptTypes' /\ ChargeTypes'
            /\ SweepTypes' /\ ProcessTypes'
    BY <1>4, SameRow, SameSub, SameRec, SameChg, SameSwp, SamePrc
       DEF TimerRead, TypeOK
  <2> QED BY <2>2, <2>3 DEF TypeOK
<1>5. CASE TimerMark(m)
  <2>1. RowTypes'
    BY <1>5 DEF TimerMark, TypeOK, RowTypes, ForceTypes, TimeoutCost,
        TimeoutSupplierCost
  <2>2. ForceTypes'
    BY <1>5 DEF TimerMark, TypeOK, ForceTypes, Unread
  <2>3. SubmitTypes' /\ ReceiptTypes' /\ ChargeTypes' /\ SweepTypes' /\
      ProcessTypes'
    BY <1>5, SameSub, SameRec, SameChg, SameSwp, SamePrc DEF TimerMark, TypeOK
  <2> QED BY <2>1, <2>2, <2>3 DEF TypeOK
<1>6. CASE TimerCount(m)
  <2>1. RowTypes'
    BY <1>6 DEF TimerCount, TypeOK, RowTypes
  <2>2. ForceTypes'
    BY <1>6 DEF TimerCount, TypeOK, ForceTypes
  <2>3. SubmitTypes' /\ ReceiptTypes' /\ ChargeTypes' /\ SweepTypes' /\
      ProcessTypes'
    BY <1>6, SameSub, SameRec, SameChg, SameSwp, SamePrc DEF TimerCount, TypeOK
  <2> QED BY <2>1, <2>2, <2>3 DEF TypeOK
<1>7. CASE ForceFault(m)
  <2>1. ForceTypes'
    BY <1>7 DEF ForceFault, TypeOK, ForceTypes
  <2>2. ProcessTypes'
    BY <1>7 DEF ForceFault, TypeOK, ProcessTypes
  <2>3. RowTypes' /\ SubmitTypes' /\ ReceiptTypes' /\ ChargeTypes' /\
      SweepTypes'
    BY <1>7, SameRow, SameSub, SameRec, SameChg, SameSwp DEF ForceFault, TypeOK
  <2> QED BY <2>1, <2>2, <2>3 DEF TypeOK
<1> QED BY <1>1, <1>2, <1>3, <1>4, <1>5, <1>6, <1>7 DEF ForceStep

\* Every step of a sweep pass keeps the types.
LEMMA SweepPassType ==
    ASSUME TypeOK, NEW s \in Sweeps,
           SweepStep(s) \/ SweepFault(s) \/ \E m \in Msgs : SweepStarts(s, m)
    PROVE  TypeOK'
<1> USE LifecycleAssumption DEF LifecycleAssumption, modeVars, rowVars,
        trackVars, forceVars, sweepVars, historyVars, processVars
<1>1. ASSUME NEW m \in Msgs, SweepStarts(s, m)
      PROVE  TypeOK'
  <2>1. PICK client \in {clientMode, "on_submit"}, supplier \in {supplierMode, "none"} :
            SweepTakes(s, m, client, supplier)
    BY <1>1 DEF SweepStarts, SweepRead, SweepMisread
  <2> DEFINE row == [pc |-> "resolve", msg |-> m, cost |-> cost[m],
                     supplierCost |-> supplierCost[m], client |-> client,
                     supplier |-> supplier]
  <2>2. client \in Mode /\ supplier \in Mode \cup {"none"}
    BY DEF TypeOK, ProcessTypes, Mode
  <2>3. row \in SweepType
    BY <2>2 DEF TypeOK, RowTypes, SweepType
  <2>4. sweep' = [sweep EXCEPT ![s] = row]
    BY <2>1 DEF SweepTakes
  <2>5. row.msg \in Msgs /\ row.client = client /\ row.supplier = supplier
    OBVIOUS
  <2>6. SweepTypes'
    <3> HIDE DEF row
    <3> QED BY <2>1, <2>3, <2>4, <2>5 DEF SweepTakes, TypeOK, SweepTypes
  <2>7. RowTypes' /\ SubmitTypes' /\ ReceiptTypes' /\ ChargeTypes' /\ ForceTypes'
    BY <2>1, SameRow, SameSub, SameRec, SameChg, SameFrc DEF SweepTakes, TypeOK
  <2>8. ProcessTypes'
    BY <1>1 DEF SweepStarts, SweepRead, SweepMisread, SweepTakes, TypeOK, ProcessTypes
  <2> QED BY <2>6, <2>7, <2>8 DEF TypeOK
<1>2. CASE SweepSkip(s)
  <2>1. SweepTypes'
    BY <1>2 DEF SweepSkip, TypeOK, SweepTypes, SweepType, NoSweep, Mode
  <2>2. RowTypes' /\ SubmitTypes' /\ ReceiptTypes' /\ ChargeTypes' /\
      ForceTypes' /\ ProcessTypes'
    BY <1>2, SameRow, SameSub, SameRec, SameChg, SameFrc, SamePrc DEF
        SweepSkip, TypeOK
  <2> QED BY <2>1, <2>2 DEF TypeOK
<1>3. CASE SweepFail(s)
  <2>1. RowTypes'
    BY <1>3 DEF SweepFail, TypeOK, RowTypes
  <2>2. SweepTypes'
    BY <1>3 DEF SweepFail, Settled, NoSweep, Mode, TypeOK, SweepTypes, SweepType
  <2>3. SubmitTypes' /\ ReceiptTypes' /\ ChargeTypes' /\ ForceTypes' /\
      ProcessTypes'
    BY <1>3, SameSub, SameRec, SameChg, SameFrc, SamePrc DEF SweepFail, TypeOK
  <2> QED BY <2>1, <2>2, <2>3 DEF TypeOK
<1>4. CASE SweepDeliver(s)
  <2>1. RowTypes'
    BY <1>4 DEF SweepDeliver, TypeOK, RowTypes, TimeoutCost,
        TimeoutSupplierCost, SweepTypes, SweepType
  <2>2. SweepTypes'
    <3>1. sweep[s].msg \in Msgs
      BY <1>4 DEF SweepDeliver, TypeOK, SweepTypes
    <3>2. PICK pc \in {"count", "push"} : sweep' = [sweep EXCEPT ![s] = Settled(s, pc)]
      BY <1>4 DEF SweepDeliver
    <3>3. /\ Settled(s, pc) \in SweepType
          /\ Settled(s, pc).msg = sweep[s].msg
          /\ Settled(s, pc).client = "on_submit" /\ Settled(s, pc).supplier = "none"
      BY <3>1 DEF Settled, NoSweep, SweepType, Mode
    <3>4. misread' \subseteq Msgs
      BY <1>4, <3>1 DEF SweepDeliver, TypeOK, SweepTypes
    <3>5. UNCHANGED <<modeVars, swept, reported, reopened, backlog>>
      BY <1>4 DEF SweepDeliver
    <3> QED BY <3>1, <3>2, <3>3, <3>4, <3>5 DEF TypeOK, SweepTypes
  <2>3. SubmitTypes' /\ ReceiptTypes' /\ ChargeTypes' /\ ForceTypes' /\
      ProcessTypes'
    BY <1>4, SameSub, SameRec, SameChg, SameFrc, SamePrc DEF SweepDeliver,
        TypeOK
  <2> QED BY <2>1, <2>2, <2>3 DEF TypeOK
<1>5. CASE SweepCount(s)
  <2>1. RowTypes'
    BY <1>5 DEF SweepCount, TypeOK, RowTypes, SweepTypes
  <2>2. SweepTypes'
    BY <1>5 DEF SweepCount, TypeOK, SweepTypes, SweepType
  <2>3. SubmitTypes' /\ ReceiptTypes' /\ ChargeTypes' /\ ForceTypes' /\
      ProcessTypes'
    BY <1>5, SameSub, SameRec, SameChg, SameFrc, SamePrc DEF SweepCount, TypeOK
  <2> QED BY <2>1, <2>2, <2>3 DEF TypeOK
<1>6. CASE SweepPush(s)
  <2>1. SweepTypes'
    BY <1>6 DEF SweepPush, TypeOK, SweepTypes, SweepType, NoSweep, Mode
  <2>2. RowTypes' /\ SubmitTypes' /\ ReceiptTypes' /\ ChargeTypes' /\
      ForceTypes' /\ ProcessTypes'
    BY <1>6, SameRow, SameSub, SameRec, SameChg, SameFrc, SamePrc DEF
        SweepPush, TypeOK
  <2> QED BY <2>1, <2>2 DEF TypeOK
<1>7. CASE SweepFault(s)
  <2>1. SweepTypes'
    BY <1>7 DEF SweepFault, TypeOK, SweepTypes, SweepType, NoSweep, Mode
  <2>2. ProcessTypes'
    BY <1>7 DEF SweepFault, TypeOK, ProcessTypes
  <2>3. RowTypes' /\ SubmitTypes' /\ ReceiptTypes' /\ ChargeTypes' /\
      ForceTypes'
    BY <1>7, SameRow, SameSub, SameRec, SameChg, SameFrc DEF SweepFault, TypeOK
  <2> QED BY <2>1, <2>2, <2>3 DEF TypeOK
<1> QED BY <1>1, <1>2, <1>3, <1>4, <1>5, <1>6, <1>7 DEF SweepStep

\* A restart and a database fault keep the types.
LEMMA ProcessType ==
    ASSUME TypeOK, Restart \/ HydrateStep \/ OlderRow
    PROVE  TypeOK'
<1> USE LifecycleAssumption DEF LifecycleAssumption, modeVars, rowVars,
        trackVars, forceVars, sweepVars, historyVars, processVars
<1>1. CASE Restart
  <2>1. SubmitTypes'
    BY <1>1 DEF Restart, TypeOK, SubmitTypes, Token
  <2>2. ReceiptTypes'
    BY <1>1, ZenonT(40) DEF Restart, TypeOK, ReceiptTypes, ReceiptType, Stat, Matched,
        Token, Closed, Idle
  <2>3. ChargeTypes'
    BY <1>1 DEF Restart, TypeOK, ChargeTypes, Tasks, NoCharge
  <2>4. ForceTypes'
    BY <1>1 DEF Restart, TypeOK, ForceTypes, Unread
  <2>5. SweepTypes'
    BY <1>1 DEF Restart, TypeOK, SweepTypes, SweepType, NoSweep, Mode
  <2>6. ProcessTypes'
    BY <1>1 DEF Restart, TypeOK, ProcessTypes
  <2>7. RowTypes'
    BY <1>1, SameRow DEF Restart, TypeOK
  <2> QED BY <2>1, <2>2, <2>3, <2>4, <2>5, <2>6, <2>7 DEF TypeOK
<1>2. CASE HydrateRead
  <2>1. ProcessTypes'
    BY <1>2 DEF HydrateRead, TypeOK, ProcessTypes
  <2>2. RowTypes' /\ SubmitTypes' /\ ReceiptTypes' /\ ChargeTypes' /\
      ForceTypes' /\ SweepTypes'
    BY <1>2, SameRow, SameSub, SameRec, SameChg, SameFrc, SameSwp DEF
        HydrateRead, TypeOK
  <2> QED BY <2>1, <2>2 DEF TypeOK
<1>3. CASE HydrateApply
  <2>1. SubmitTypes'
    BY <1>3 DEF HydrateApply, TypeOK, SubmitTypes, Token, ProcessTypes
  <2>2. ProcessTypes'
    BY <1>3 DEF HydrateApply, TypeOK, ProcessTypes
  <2>3. RowTypes' /\ ReceiptTypes' /\ ChargeTypes' /\ ForceTypes' /\
      SweepTypes'
    BY <1>3, SameRow, SameRec, SameChg, SameFrc, SameSwp DEF HydrateApply,
        TypeOK
  <2> QED BY <2>1, <2>2, <2>3 DEF TypeOK
<1>4. CASE OlderRow
  <2>1. SweepTypes'
    BY <1>4 DEF OlderRow, TypeOK, SweepTypes
  <2>2. RowTypes' /\ SubmitTypes' /\ ReceiptTypes' /\ ChargeTypes' /\ ForceTypes'
            /\ ProcessTypes'
    BY <1>4, SameRow, SameSub, SameRec, SameChg, SameFrc, SamePrc DEF OlderRow, TypeOK
  <2> QED BY <2>1, <2>2 DEF TypeOK
<1> QED BY <1>1, <1>2, <1>3, <1>4 DEF HydrateStep

\* A receipt that has not come is well typed.
LEMMA IdleType == Idle \in ReceiptType
  BY DEF Idle, ReceiptType, Stat, Token

\* A matched receipt is well typed.
LEMMA TakenType ==
    ASSUME NEW pc \in Matched, NEW s \in Stat, NEW n \in Msgs, NEW token \in Token
    PROVE  /\ Taken(pc, s, n, token) \in ReceiptType
           /\ Taken(pc, s, n, token).pc = pc
           /\ Taken(pc, s, n, token).target = n
<1>1. Taken(pc, s, n, token) \in ReceiptType
  BY IdleType, ZenonT(40) DEF Taken, ReceiptType, Matched
<1>2. Taken(pc, s, n, token).pc = pc /\ Taken(pc, s, n, token).target = n
  BY IdleType DEF Taken, ReceiptType
<1> QED BY <1>1, <1>2

\* A receipt that was dealt with is well typed.
LEMMA ClosedType == Closed \in ReceiptType /\ Closed.pc = "closed"
  BY IdleType DEF Closed, ReceiptType

\* Every step of processSupplierDlr keeps the types.
LEMMA ReceiptStepType ==
    ASSUME TypeOK, NEW r \in Receipts, ReceiptStep(r) \/ ReceiptFault(r)
    PROVE  TypeOK'
<1> USE LifecycleAssumption DEF LifecycleAssumption, modeVars, rowVars,
        trackVars, forceVars, sweepVars, historyVars, processVars
<1>1. CASE LateMatch(r)
  <2>1. receipt[r].of \in Msgs
    BY <1>1 DEF LateMatch, TypeOK, ReceiptTypes
  <2>2. PICK n \in Msgs : receipt' = [receipt EXCEPT ![r] =
                              Taken("update", receipt[r].stat, n, pending[n])]
    BY <1>1, <2>1 DEF LateMatch, Candidates
  <2>3. receipt[r].stat \in Stat /\ pending[n] \in Token
    BY DEF TypeOK, ReceiptTypes, ReceiptType, SubmitTypes
  <2> DEFINE rec == Taken("update", receipt[r].stat, n, pending[n])
  <2>4. ReceiptTypes'
    <3>1. rec \in ReceiptType /\ rec.pc = "update" /\ rec.target = n
      BY <2>3, TakenType DEF Matched
    <3>2. receipt' = [receipt EXCEPT ![r] = rec]
      BY <2>2
    <3> HIDE DEF rec
    <3> QED BY <3>1, <3>2, ReceiptUpdate DEF TypeOK
  <2>5. RowTypes' /\ SubmitTypes' /\ ChargeTypes' /\ ForceTypes' /\ SweepTypes'
            /\ ProcessTypes'
    BY <1>1, SameRow, SameSub, SameChg, SameFrc, SameSwp, SamePrc
       DEF LateMatch, TypeOK
  <2> QED BY <2>4, <2>5 DEF TypeOK
<1>2. CASE RecoverRead(r)
  <2>1. /\ receipt[r].of \in Msgs /\ receipt[r].stat \in Stat /\ r \in Token
        /\ receipt' = [receipt EXCEPT ![r] =
                          Taken("recovered", receipt[r].stat, receipt[r].of, r)]
    BY <1>2 DEF RecoverRead, TypeOK, ReceiptTypes, ReceiptType, Token
  <2>2. ReceiptTypes'
    <3> DEFINE rec == Taken("recovered", receipt[r].stat, receipt[r].of, r)
    <3>1. rec \in ReceiptType /\ rec.pc = "recovered" /\ rec.target \in Msgs
      BY <2>1, TakenType DEF Matched
    <3>2. receipt' = [receipt EXCEPT ![r] = rec]
      BY <2>1
    <3> HIDE DEF rec
    <3> QED BY <3>1, <3>2, ReceiptUpdate DEF TypeOK
  <2>3. RowTypes' /\ SubmitTypes' /\ ChargeTypes' /\ ForceTypes' /\ SweepTypes'
            /\ ProcessTypes'
    BY <1>2, SameRow, SameSub, SameChg, SameFrc, SameSwp, SamePrc
       DEF RecoverRead, TypeOK
  <2> QED BY <2>2, <2>3 DEF TypeOK
<1>3. CASE RecoverResume(r)
  <2>1. SubmitTypes'
    BY <1>3 DEF RecoverResume, TypeOK, SubmitTypes, Token, ReceiptTypes,
        Matched
  <2>2. ReceiptTypes'
    <3> DEFINE rec == [receipt[r] EXCEPT !.pc = "update"]
    <3>1. rec \in ReceiptType
      BY <1>3 DEF RecoverResume, TypeOK, ReceiptTypes, ReceiptType, Matched
    <3>2. /\ rec.pc = "waiting" => rec.of \in Msgs
          /\ rec.pc \in Matched => rec.target \in Msgs
      BY <1>3 DEF RecoverResume, TypeOK, ReceiptTypes, ReceiptType, Matched
    <3>3. receipt' = [receipt EXCEPT ![r] = rec]
      BY <1>3 DEF RecoverResume
    <3> HIDE DEF rec
    <3> QED BY <3>1, <3>2, <3>3, ReceiptUpdate DEF TypeOK
  <2>3. RowTypes' /\ ChargeTypes' /\ ForceTypes' /\ SweepTypes' /\
      ProcessTypes'
    BY <1>3, SameRow, SameChg, SameFrc, SameSwp, SamePrc DEF RecoverResume,
        TypeOK
  <2> QED BY <2>1, <2>2, <2>3 DEF TypeOK
<1>4. CASE GiveUp(r)
  <2>1. ReceiptTypes'
    <3>1. receipt' = [receipt EXCEPT ![r] = Closed]
      BY <1>4 DEF GiveUp
    <3> QED BY <3>1, ClosedType, ReceiptUpdate DEF TypeOK, Matched
  <2>2. RowTypes' /\ SubmitTypes' /\ ChargeTypes' /\ ForceTypes' /\ SweepTypes'
      /\ ProcessTypes'
    BY <1>4, SameRow, SameSub, SameChg, SameFrc, SameSwp, SamePrc DEF GiveUp,
        TypeOK
  <2> QED BY <2>1, <2>2 DEF TypeOK
<1>5. CASE UpdateStatus(r)
  <2>1. RowTypes'
    BY <1>5 DEF UpdateStatus, TypeOK, RowTypes, ReceiptTypes, ReceiptType,
        DlrStatusOf, Stat
  <2>2. ReceiptTypes'
    <3> DEFINE rec == [receipt[r] EXCEPT !.pc =
                        IF DlrStatusOf(receipt[r].stat) = "DELIVERED" THEN "read"
                        ELSE "callback"]
    <3>1. rec \in ReceiptType
      BY <1>5 DEF UpdateStatus, TypeOK, ReceiptTypes, ReceiptType, Matched
    <3>2. /\ rec.pc = "waiting" => rec.of \in Msgs
          /\ rec.pc \in Matched => rec.target \in Msgs
      BY <1>5 DEF UpdateStatus, TypeOK, ReceiptTypes, ReceiptType, Matched
    <3>3. receipt' = [receipt EXCEPT ![r] = rec]
      BY <1>5 DEF UpdateStatus
    <3> HIDE DEF rec
    <3> QED BY <3>1, <3>2, <3>3, ReceiptUpdate DEF TypeOK
  <2>3. SweepTypes'
    BY <1>5 DEF UpdateStatus, TypeOK, SweepTypes, ReceiptTypes, Matched
  <2>4. SubmitTypes' /\ ChargeTypes' /\ ForceTypes' /\ ProcessTypes'
    BY <1>5, SameSub, SameChg, SameFrc, SamePrc DEF UpdateStatus, TypeOK
  <2> QED BY <2>1, <2>2, <2>3, <2>4 DEF TypeOK
<1>6. CASE ReadCost(r)
  <2>1. ReceiptTypes'
    <3> DEFINE rec == IF status[receipt[r].target] = "none"
                     THEN [receipt[r] EXCEPT !.pc = "callback"]
                     ELSE [receipt[r] EXCEPT !.pc = "stamp",
                               !.rate = cost[receipt[r].target]]
    <3>1. rec \in ReceiptType
      <4>1. CASE status[receipt[r].target] = "none"
      BY <1>6, <4>1 DEF ReadCost, TypeOK, ReceiptTypes, ReceiptType
    <4>2. CASE status[receipt[r].target] # "none"
      <5>1. cost[receipt[r].target] \in {0, ClientRate}
        BY <1>6 DEF ReadCost, TypeOK, ReceiptTypes, Matched, RowTypes
      <5>2. receipt[r] \in ReceiptType
        BY DEF TypeOK, ReceiptTypes
      <5>3. [receipt[r] EXCEPT !.pc = "stamp",
                 !.rate = cost[receipt[r].target]] \in ReceiptType
        BY <5>1, <5>2 DEF ReceiptType
      <5> QED BY <4>2, <5>3
    <4> QED BY <4>1, <4>2
    <3>2. /\ rec.pc = "waiting" => rec.of \in Msgs
          /\ rec.pc \in Matched => rec.target \in Msgs
      BY <1>6 DEF ReadCost, TypeOK, ReceiptTypes, ReceiptType, Matched, RowTypes
    <3>3. receipt' = [receipt EXCEPT ![r] = rec]
      BY <1>6 DEF ReadCost, RowTypes
    <3> HIDE DEF rec
    <3> QED BY <3>1, <3>2, <3>3, ReceiptUpdate DEF TypeOK
  <2>2. RowTypes' /\ SubmitTypes' /\ ChargeTypes' /\ ForceTypes' /\ SweepTypes'
      /\ ProcessTypes'
    BY <1>6, SameRow, SameSub, SameChg, SameFrc, SameSwp, SamePrc DEF ReadCost,
        TypeOK
  <2> QED BY <2>1, <2>2 DEF TypeOK
<1>7. CASE Stamp(r)
  <2>1. RowTypes'
    <3>1. StampedProfit(r) \in Int
      BY LifecycleAssumption
      DEF StampedProfit, LifecycleAssumption, TypeOK, ReceiptTypes, ReceiptType
    <3> HIDE DEF LifecycleAssumption
    <3> QED BY <1>7, <3>1 DEF Stamp, TypeOK, RowTypes
  <2>2. ReceiptTypes'
    <3> DEFINE rec == [receipt[r] EXCEPT !.pc = "callback", !.rate = 0]
    <3>1. rec \in ReceiptType
      BY <1>7, ZenonT(40) DEF Stamp, TypeOK, ReceiptTypes, ReceiptType, Matched
    <3>2. /\ rec.pc = "waiting" => rec.of \in Msgs
          /\ rec.pc \in Matched => rec.target \in Msgs
      BY <1>7 DEF Stamp, TypeOK, ReceiptTypes, ReceiptType, Matched
    <3>3. receipt' = [receipt EXCEPT ![r] = rec]
      BY <1>7 DEF Stamp
    <3> HIDE DEF rec
    <3> QED BY <3>1, <3>2, <3>3, ReceiptUpdate DEF TypeOK
  <2>3. SubmitTypes' /\ ChargeTypes' /\ ForceTypes' /\ SweepTypes' /\
      ProcessTypes'
    BY <1>7, SameSub, SameChg, SameFrc, SameSwp, SamePrc DEF Stamp, TypeOK
  <2> QED BY <2>1, <2>2, <2>3 DEF TypeOK
<1>8. CASE FireCallback(r)
  <2>1. SubmitTypes'
    BY <1>8 DEF FireCallback, TypeOK, SubmitTypes, Token, ConsumedCallback,
        Released
  <2>2. ReceiptTypes'
    <3>1. receipt' = [receipt EXCEPT ![r] = Closed]
      BY <1>8 DEF FireCallback
    <3> QED BY <3>1, ClosedType, ReceiptUpdate DEF TypeOK, Matched
  <2>3. ChargeTypes'
    BY <1>8, WithTasksType
       DEF FireCallback, TypeOK, ChargeTypes, Tasks, ReceiptTypes, Matched
  <2>4. RowTypes' /\ ForceTypes' /\ SweepTypes' /\ ProcessTypes'
    BY <1>8, SameRow, SameFrc, SameSwp, SamePrc DEF FireCallback, TypeOK
  <2> QED BY <2>1, <2>2, <2>3, <2>4 DEF TypeOK
<1>9. CASE ReceiptFault(r)
  <2>1. ReceiptTypes'
    <3>1. CASE receipt' = [receipt EXCEPT ![r] = Closed]
      BY <3>1, ClosedType, ReceiptUpdate DEF TypeOK, Matched
    <3> DEFINE rec == [receipt[r] EXCEPT !.pc = "callback", !.rate = 0]
    <3>2. CASE receipt[r].pc \in {"update", "read", "stamp"} /\ receipt' = [receipt EXCEPT ![r] = rec]
      <4>1. rec \in ReceiptType
        BY <3>2, ZenonT(40) DEF TypeOK, ReceiptTypes, ReceiptType
      <4>2. rec.pc = "callback" /\ rec.target \in Msgs
        BY <3>2 DEF TypeOK, ReceiptTypes, ReceiptType, Matched
      <4> HIDE DEF rec
      <4> QED BY <3>2, <4>1, <4>2, ReceiptUpdate DEF TypeOK
    <3> QED BY <1>9, <3>1, <3>2 DEF ReceiptFault
  <2>2. ProcessTypes'
    BY <1>9 DEF ReceiptFault, TypeOK, ProcessTypes
  <2>3. RowTypes' /\ SubmitTypes' /\ ChargeTypes' /\ ForceTypes' /\ SweepTypes'
    BY <1>9, SameRow, SameSub, SameChg, SameFrc, SameSwp DEF ReceiptFault,
        TypeOK
  <2> QED BY <2>1, <2>2, <2>3 DEF TypeOK
<1> QED BY <1>1, <1>2, <1>3, <1>4, <1>5, <1>6, <1>7, <1>8, <1>9 DEF ReceiptStep

\* The arrival of a supplier receipt keeps the types.
LEMMA ArriveType ==
    ASSUME TypeOK, NEW r \in Receipts, NEW m \in Msgs, NEW s \in Stats,
           NEW known \in BOOLEAN,
             NEW addressed \in Addressings, Arrive(r, m, s, known, addressed)
    PROVE  TypeOK'
<1> USE DEF modeVars, rowVars, trackVars, forceVars, sweepVars, historyVars, processVars
<1> DEFINE waiting == [Idle EXCEPT !.pc = "waiting", !.of = m, !.stat = s,
                                   !.known = known, !.addressed = addressed]
<1>1. s \in Stat /\ addressed \in BOOLEAN
  BY LifecycleAssumption DEF LifecycleAssumption
<1>2. \/ receipt' = [receipt EXCEPT ![r] = waiting]
      \/ \E n \in Msgs : receipt' = [receipt EXCEPT ![r] = Taken("update", s, n, pending[n])]
  BY DEF Arrive, Candidates
<1>3. ReceiptTypes'
  <2>1. CASE receipt' = [receipt EXCEPT ![r] = waiting]
    <3>1. waiting \in ReceiptType
      BY <1>1, IdleType, ZenonT(40) DEF ReceiptType
    <3>2. waiting.of = m /\ waiting.pc = "waiting"
      BY IdleType DEF ReceiptType
    <3> HIDE DEF waiting
    <3> QED BY <2>1, <3>1, <3>2, ReceiptUpdate DEF TypeOK, Matched
  <2>2. ASSUME NEW n \in Msgs,
               receipt' = [receipt EXCEPT ![r] = Taken("update", s, n, pending[n])]
        PROVE  ReceiptTypes'
    <3>1. pending[n] \in Token
      BY DEF TypeOK, SubmitTypes
    <3>2. /\ Taken("update", s, n, pending[n]) \in ReceiptType
          /\ Taken("update", s, n, pending[n]).pc = "update"
          /\ Taken("update", s, n, pending[n]).target = n
      BY <1>1, <3>1, TakenType DEF Matched
    <3> QED BY <2>2, <3>2, ReceiptUpdate DEF TypeOK
  <2> QED BY <1>2, <2>1, <2>2
<1>4. SweepTypes'
  BY DEF Arrive, Named, TypeOK, SweepTypes
<1>5. RowTypes' /\ SubmitTypes' /\ ChargeTypes' /\ ForceTypes' /\ ProcessTypes'
  BY SameRow, SameSub, SameChg, SameFrc, SamePrc DEF Arrive, TypeOK
<1> QED BY <1>3, <1>4, <1>5 DEF TypeOK

\* A step that changes nothing keeps the types.
LEMMA StutterType == TypeOK /\ UNCHANGED vars => TypeOK'
  BY SameRow, SameSub, SameRec, SameChg, SameFrc, SameSwp, SamePrc
  DEF TypeOK, vars

\* Every step keeps the types.
LEMMA TypeStep == TypeOK /\ [Next]_vars => TypeOK'
<1> SUFFICES ASSUME TypeOK, [Next]_vars PROVE TypeOK'
  OBVIOUS
<1>1. CASE Next
  BY <1>1, SubmitType, ArriveType, ReceiptStepType, ChargeType, ForceType,
     SweepPassType, ProcessType DEF Next, Fault, SweepStarts
<1>2. CASE UNCHANGED vars
  BY <1>2, StutterType
<1> QED BY <1>1, <1>2

\* Every behaviour keeps the types: no interleaving of the handlers, faults and
\* restarts leaves a column, a counter or a handler stage outside its range.
THEOREM TypeCorrect == Spec => []TypeOK
<1>1. Init => TypeOK
  BY InitType
<1>2. TypeOK /\ [Next]_vars => TypeOK'
  BY TypeStep
<1> QED BY <1>1, <1>2, PTL DEF Spec

-----------------------------------------------------------------------------
(* Charging.  The steps fall into those that touch none of what the billing  *)
(* invariants read, and a dozen that do.                                     *)

\* No handler changes a mode.
LEMMA ModesStay == [Next]_vars => UNCHANGED modeVars
  BY ZenonT(40) DEF vars, Next, Fault, SubmitStep, ReceiptStep, ChargeStep, ForceStep,
     SweepStep, HydrateStep, Accept, Reject, Track, Insert, CountSubmit,
     SubmitFault, Register, Arrive, LateMatch, RecoverRead, RecoverResume,
     GiveUp, UpdateStatus, ReadCost, Stamp, ReceiptFault, FireCallback,
     ChargeCost, ChargeCounter, ChargeSupplier, ChargeFault, ForgetStale,
     ForceMark, ForceCount, ForcePay, TimerRead, TimerMark, TimerCount,
     ForceFault, SweepStarts, SweepRead, SweepMisread, SweepTakes, SweepSkip, SweepFail,
         SweepDeliver, SweepCount,
     SweepPush, SweepFault, Restart, HydrateRead, HydrateApply, OlderRow

\* What a pass does with the row it holds.
LEMMA PassMoves ==
    ASSUME TypeOK, NEW s \in Sweeps, SweepStep(s) \/ SweepFault(s)
    PROVE  /\ sweep[s].pc # "idle" /\ sweep[s].msg \in Msgs
           /\ \A z \in Sweeps \ {s} : sweep'[z] = sweep[z]
           /\ sweep'[s].pc \in {"idle", "count", "push"}
           /\ sweep'[s].msg \in {sweep[s].msg, NoMsg}
           /\ sweep'[s].pc = "count" => SweepDeliver(s) /\ IsDlrCharged(sweep[s].client)
<1>1. CASE SweepSkip(s)
  BY <1>1 DEF SweepSkip, NoSweep, TypeOK, SweepTypes
<1>2. CASE SweepFail(s)
  BY <1>2 DEF SweepFail, Settled, NoSweep, TypeOK, SweepTypes
<1>3. CASE SweepDeliver(s)
  <2>1. PICK pc \in {"count", "push"} :
            /\ sweep' = [sweep EXCEPT ![s] = Settled(s, pc)]
            /\ pc = "count" => IsDlrCharged(sweep[s].client)
    BY <1>3 DEF SweepDeliver
  <2>2. Settled(s, pc).pc = pc /\ Settled(s, pc).msg = sweep[s].msg
    BY DEF Settled, NoSweep
  <2>3. sweep[s].pc = "resolve" /\ sweep \in [Sweeps -> SweepType] /\ sweep[s].msg \in Msgs
    BY <1>3 DEF SweepDeliver, TypeOK, SweepTypes
  <2>4. sweep'[s] = Settled(s, pc) /\ \A z \in Sweeps \ {s} : sweep'[z] = sweep[z]
    BY <2>1, <2>3
  <2> QED BY <1>3, <2>1, <2>2, <2>3, <2>4
<1>4. CASE SweepCount(s) \/ SweepPush(s) \/ SweepFault(s)
  BY <1>4 DEF SweepCount, SweepPush, SweepFault, NoSweep, TypeOK, SweepTypes, SweepType
<1> QED BY <1>1, <1>2, <1>3, <1>4 DEF SweepStep

\* What a pass notes of the row it takes up.
LEMMA StartMoves ==
    ASSUME TypeOK, NEW s \in Sweeps, NEW m \in Msgs, SweepStarts(s, m)
    PROVE  /\ sweep[s].pc = "idle" /\ status[m] \in Waiting
           /\ \A z \in Sweeps \ {s} : sweep'[z] = sweep[z]
           /\ sweep'[s].pc = "resolve" /\ sweep'[s].msg = m
           /\ sweep'[s].cost = cost[m] /\ sweep'[s].supplierCost = supplierCost[m]
           /\ UNCHANGED <<modeVars, rowVars, counted, submit, callback, charge, forceVars>>
<1>1. PICK client \in {clientMode, "on_submit"}, supplier \in {supplierMode, "none"} :
          SweepTakes(s, m, client, supplier)
  BY DEF SweepStarts, SweepRead, SweepMisread
<1> QED BY <1>1 DEF SweepTakes, TypeOK, SweepTypes, trackVars

billing == <<modeVars, submit, callback, counted, charge, force, sweep>>

\* Starting billing tasks changes the task counters by what was asked for, and nothing else.
LEMMA WithTasksCounts ==
    ASSUME NEW c \in Tasks, NEW s
    PROVE  /\ WithTasks(c, s).cost = IF ChargesClient(s) THEN c.cost + 1 ELSE c.cost
           /\ WithTasks(c, s).counter = c.counter
           /\ WithTasks(c, s).supplier = IF ChargesSupplier(s) THEN c.supplier + 1 ELSE c.supplier
  BY DEF WithTasks, Tasks

\* Pricing a row turns one cost task into one counter task.
LEMMA RowPricedCounts ==
    ASSUME NEW c \in Tasks
    PROVE  RowPriced(c).cost = c.cost - 1 /\ RowPriced(c).counter = c.counter + 1
  BY DEF RowPriced, Tasks

Touches(m) ==
    \/ SubmitStep(m) \/ SubmitFault(m) \/ ChargeCost(m) \/ ChargeCounter(m)
    \/ ChargeSupplier(m) \/ ChargeFault(m) \/ ForceStep(m) \/ ForceFault(m)
    \/ ForgetStale(m)

\* The steps outside submit-side charging leave what SubmitBilling relates alone.
LEMMA QuietSteps ==
    ASSUME Next
    PROVE  \/ UNCHANGED billing
           \/ \E m \in Msgs : Touches(m)
           \/ \E r \in Receipts : FireCallback(r)
           \/ \E s \in Sweeps : \/ SweepStep(s) \/ SweepFault(s)
                                \/ \E m \in Msgs : SweepStarts(s, m)
           \/ Restart
<1> USE DEF billing, modeVars, rowVars, trackVars, forceVars, sweepVars,
        processVars
<1>1. ASSUME NEW r \in Receipts, NEW m \in Msgs, NEW s \in Stats,
             NEW known \in BOOLEAN,
             NEW addressed \in Addressings, Arrive(r, m, s, known, addressed)
      PROVE  UNCHANGED billing
  BY <1>1 DEF Arrive
<1>2. ASSUME NEW r \in Receipts, ReceiptStep(r) \/ ReceiptFault(r)
      PROVE  UNCHANGED billing \/ FireCallback(r)
  <2>1. CASE LateMatch(r)
    BY <2>1 DEF LateMatch
  <2>2. CASE RecoverRead(r) \/ RecoverResume(r) \/ GiveUp(r)
    BY <2>2 DEF RecoverRead, RecoverResume, GiveUp
  <2>3. CASE UpdateStatus(r) \/ ReadCost(r) \/ Stamp(r) \/ ReceiptFault(r)
    BY <2>3 DEF UpdateStatus, ReadCost, Stamp, ReceiptFault
  <2> QED BY <1>2, <2>1, <2>2, <2>3 DEF ReceiptStep
<1>3. HydrateStep \/ OlderRow => UNCHANGED billing
  BY DEF HydrateStep, HydrateRead, HydrateApply, OlderRow
<1> QED BY <1>1, <1>2, <1>3 DEF Next, Fault, SweepStarts, Touches, ChargeStep

\* Every step keeps the submit-side strengthening: a charge on submit is still to come,
\* in flight, or done, and never two of them.
LEMMA SubmitBillingStep ==
    ASSUME TypeOK, SubmitBilling, [Next]_vars
    PROVE  SubmitBilling'
<1> USE DEF modeVars, rowVars, trackVars, forceVars, sweepVars, historyVars, processVars,
        IsSubmitCharged, IsDlrCharged
<1> SUFFICES ASSUME IsSubmitCharged(clientMode') PROVE SubmitBilling'
  BY DEF SubmitBilling
<1>1. CASE UNCHANGED billing
  BY <1>1 DEF billing, SubmitBilling
<1>2. ASSUME NEW m \in Msgs, Touches(m) PROVE SubmitBilling'
  <2>1. CASE Accept(m) \/ Reject(m) \/ Track(m)
    BY <2>1 DEF Accept, Reject, Track, SubmitBilling, TypeOK, SubmitTypes
  <2>2. CASE Insert(m) \/ SubmitFault(m)
    BY <2>2 DEF Insert, SubmitFault, SubmitBilling, TypeOK, SubmitTypes
  <2>3. CASE CountSubmit(m)
    BY <2>3 DEF CountSubmit, SubmitBilling, TypeOK, SubmitTypes, RowTypes
  <2>4. CASE Register(m)
    BY <2>4 DEF Register, ForceJob, SubmitBilling, TypeOK, SubmitTypes, ForceTypes
  <2>5. CASE ChargeCost(m) \/ ChargeCounter(m)
    BY <2>5 DEF ChargeCost, ChargeCounter, SubmitBilling
  <2>6. CASE ChargeSupplier(m)
    BY <2>6 DEF ChargeSupplier, SubmitBilling, TypeOK, ChargeTypes, Tasks
  <2>7. CASE ChargeFault(m)
    BY <2>7 DEF ChargeFault, SubmitBilling, TypeOK, ChargeTypes, Tasks
  <2>8. CASE ForceStep(m) \/ ForceFault(m)
    BY <2>8 DEF ForceStep, ForceFault, ForceMark, ForceCount, ForcePay, TimerRead,
       TimerMark, TimerCount, SubmitBilling, TypeOK, ForceTypes
  <2>9. CASE ForgetStale(m)
    BY <2>9 DEF ForgetStale, SubmitBilling
  <2> QED BY <1>2, <2>1, <2>2, <2>3, <2>4, <2>5, <2>6, <2>7, <2>8, <2>9
          DEF Touches, SubmitStep
<1>3. ASSUME NEW r \in Receipts, FireCallback(r) PROVE SubmitBilling'
  <2>1. clientMode' = clientMode /\ ~ChargesClient(receipt[r].stat)
    BY <1>3 DEF FireCallback, ChargesClient
  <2>2. \A m \in Msgs : /\ charge'[m].cost = charge[m].cost
                        /\ charge'[m].counter = charge[m].counter
    BY <1>3, <2>1, WithTasksCounts DEF FireCallback, TypeOK, ChargeTypes
  <2> QED BY <1>3, <2>2 DEF FireCallback, SubmitBilling
<1>4. ASSUME NEW s \in Sweeps,
             \/ SweepStep(s) \/ SweepFault(s) \/ \E m \in Msgs : SweepStarts(s, m)
      PROVE  SubmitBilling'
  <2>1. \A z \in Sweeps : sweep[z].pc # "count"
    BY ModesStay DEF SubmitBilling
  <2>2. clientMode' = clientMode
    BY ModesStay
  <2>3. ASSUME NEW z \in Sweeps PROVE sweep'[z].pc # "count"
    <3>1. CASE SweepStep(s) \/ SweepFault(s)
      <4>1. SweepDeliver(s) => ~IsDlrCharged(sweep[s].client)
        BY <2>2 DEF SweepDeliver, TypeOK, SweepTypes
      <4> QED BY <2>1, <3>1, <4>1, PassMoves
    <3>2. ASSUME NEW m \in Msgs, SweepStarts(s, m) PROVE sweep'[z].pc # "count"
      BY <2>1, <3>2, StartMoves
    <3> QED BY <1>4, <3>1, <3>2
  <2>4. UNCHANGED <<submit, counted, charge, force>>
    BY <1>4, <2>1 DEF SweepStep, SweepFault, SweepStarts, SweepRead, SweepMisread, SweepTakes,
       SweepSkip, SweepFail, SweepDeliver, SweepCount, SweepPush
  <2> QED BY <2>2, <2>3, <2>4 DEF SubmitBilling
<1>5. CASE Restart
  BY <1>5 DEF Restart, NoCharge, NoSweep, SubmitBilling, TypeOK,
     SubmitTypes
<1>6. CASE UNCHANGED vars
  BY <1>6, <1>1 DEF vars, billing
<1> QED BY <1>1, <1>2, <1>3, <1>4, <1>5, <1>6, QuietSteps

\* A client charged at submit is counted exactly once for a submit that ran to
\* its end and at most once for any other, whatever receipts, forced outcomes,
\* sweeps, faults and restarts follow.
THEOREM SubmitChargedOnceHolds == Spec => []SubmitChargedOnce
<1>1. Init => SubmitBilling
  BY DEF Init, SubmitBilling, NoCharge, NoSweep
<1>2. TypeOK /\ SubmitBilling /\ [Next]_vars => SubmitBilling'
  BY SubmitBillingStep
<1>3. SubmitBilling => SubmitChargedOnce
  BY DEF SubmitBilling, SubmitChargedOnce
<1> QED BY <1>1, <1>2, <1>3, TypeCorrect, PTL DEF Spec

\* Every step keeps the receipt-side strengthening: the callback that charges on delivery
\* is consumed at most once per registration.
LEMMA ReceiptBillingStep ==
    ASSUME TypeOK, ReceiptBilling, [Next]_vars
    PROVE  ReceiptBilling'
<1> USE DEF modeVars, rowVars, trackVars, forceVars, sweepVars, historyVars, processVars,
        Unregistered
<1>0. CASE UNCHANGED billing
  BY <1>0, SMTT(40) DEF billing, ReceiptBilling
<1>m. UNCHANGED modeVars
  BY ModesStay
<1> SUFFICES ASSUME clientMode = "on_dlr", ~IsForce(supplierMode)
             PROVE  ReceiptBilling'
  BY <1>m DEF ReceiptBilling, IsDlrCharged, IsForce
<1>a. /\ \A n \in Msgs : force[n] = "none"
      /\ \A n \in Msgs : submit[n] # "inserted"
      /\ \A s \in Sweeps : sweep[s].pc # "count"
      /\ \A s \in Sweeps : sweep[s].pc # "idle" =>
            SweepAction(sweep[s].client, sweep[s].supplier) # "deliver"
      /\ ForceJob = "none"
  BY DEF ReceiptBilling, IsDlrCharged, IsForce, SweepAction, ForceJob, TypeOK, SweepTypes
<1>2. ASSUME NEW m \in Msgs, Touches(m) PROVE ReceiptBilling'
  <2>1. CASE Accept(m) \/ Reject(m) \/ Track(m)
    BY <2>1 DEF Accept, Reject, Track, ReceiptBilling, IsDlrCharged, TypeOK,
       SubmitTypes
  <2>2. CASE Insert(m) \/ SubmitFault(m)
    BY <2>2 DEF Insert, SubmitFault, ReceiptBilling, IsDlrCharged,
       IsSubmitCharged, TypeOK, SubmitTypes
  <2>3. CASE CountSubmit(m)
    BY <2>3, <1>a DEF CountSubmit
  <2>4. CASE Register(m)
    BY <2>4, <1>a DEF Register, ReceiptBilling, IsDlrCharged, TypeOK,
       SubmitTypes, ForceTypes
  <2>5. CASE ChargeCost(m)
    <3>1. \A n \in Msgs :
             charge'[n].cost + charge'[n].counter = charge[n].cost + charge[n].counter
      <4>1. charge' = [charge EXCEPT ![m] = RowPriced(@)]
        BY <2>5 DEF ChargeCost
      <4>2. \A n \in Msgs : charge[n].cost \in Nat /\ charge[n].counter \in Nat
        BY DEF TypeOK, ChargeTypes, Tasks
      <4>3. charge'[m] = RowPriced(charge[m]) /\ charge[m] \in Tasks
        BY <4>1 DEF TypeOK, ChargeTypes
      <4>4. /\ charge'[m].cost = charge[m].cost - 1
            /\ charge'[m].counter = charge[m].counter + 1
        BY <4>3, RowPricedCounts
      <4>5. \A n \in Msgs : n # m => charge'[n] = charge[n]
        BY <4>1 DEF TypeOK, ChargeTypes
      <4> QED BY <4>2, <4>4, <4>5
    <3>2. \A n \in Msgs : counted[n] \in Nat
      BY DEF TypeOK, RowTypes
    <3> QED BY <2>5, <3>1, <3>2 DEF ChargeCost, ReceiptBilling, IsDlrCharged
  <2>6. CASE ChargeCounter(m)
    <3>1. \A n \in Msgs :
             charge'[n].cost + charge'[n].counter + counted'[n]
                = charge[n].cost + charge[n].counter + counted[n]
      BY <2>6 DEF ChargeCounter, TypeOK, ChargeTypes, Tasks, RowTypes
    <3> QED BY <2>6, <3>1 DEF ChargeCounter, ReceiptBilling, IsDlrCharged
  <2>7. CASE ChargeSupplier(m)
    <3>1. \A n \in Msgs : /\ charge'[n].cost = charge[n].cost
                          /\ charge'[n].counter = charge[n].counter
      BY <2>7 DEF ChargeSupplier, TypeOK, ChargeTypes, Tasks
    <3> QED BY <2>7, <3>1 DEF ChargeSupplier, ReceiptBilling, IsDlrCharged
  <2>8. CASE ChargeFault(m)
    <3>1. \A n \in Msgs :
             /\ charge'[n].cost \in Nat /\ charge'[n].counter \in Nat
             /\ charge'[n].cost <= charge[n].cost
             /\ charge'[n].counter <= charge[n].counter
      <4>1. PICK task \in {"cost", "counter", "supplier"} :
               /\ charge[m][task] > 0
               /\ charge' = [charge EXCEPT ![m][task] = @ - 1]
        BY <2>8 DEF ChargeFault
      <4>2. \A n \in Msgs : n # m => charge'[n] = charge[n]
        BY <4>1 DEF TypeOK, ChargeTypes
      <4>3. charge'[m] = [charge[m] EXCEPT ![task] = @ - 1]
        BY <4>1 DEF TypeOK, ChargeTypes
      <4>4. \A n \in Msgs : charge[n].cost \in Nat /\ charge[n].counter \in Nat
        BY DEF TypeOK, ChargeTypes, Tasks
      <4>5. CASE task = "cost"
        BY <4>1, <4>2, <4>3, <4>4, <4>5 DEF TypeOK, ChargeTypes, Tasks
      <4>6. CASE task = "counter"
        BY <4>1, <4>2, <4>3, <4>4, <4>6 DEF TypeOK, ChargeTypes, Tasks
      <4>7. CASE task = "supplier"
        BY <4>1, <4>2, <4>3, <4>4, <4>7 DEF TypeOK, ChargeTypes, Tasks
      <4> QED BY <4>5, <4>6, <4>7
    <3>2. \A n \in Msgs : /\ counted[n] \in Nat /\ charge[n].cost \in Nat
                          /\ charge[n].counter \in Nat
      BY DEF TypeOK, RowTypes, ChargeTypes, Tasks
    <3> QED BY <2>8, <3>1, <3>2 DEF ChargeFault, ReceiptBilling, IsDlrCharged
  <2>9. CASE ForceStep(m) \/ ForceFault(m)
    BY <2>9, <1>a DEF ForceStep, ForceFault, ForceMark, ForceCount, ForcePay,
       TimerRead, TimerMark, TimerCount
  <2>10. CASE ForgetStale(m)
    BY <2>10 DEF ForgetStale, ReceiptBilling, IsDlrCharged, TypeOK, SubmitTypes
  <2> QED BY <1>2, <2>1, <2>2, <2>3, <2>4, <2>5, <2>6, <2>7, <2>8, <2>9, <2>10
          DEF Touches, SubmitStep
<1>3. ASSUME NEW r \in Receipts, FireCallback(r) PROVE ReceiptBilling'
  <2> DEFINE t == receipt[r].target
             s == receipt[r].stat
  <2>1. t \in Msgs
    BY <1>3 DEF FireCallback, TypeOK, ReceiptTypes, Matched
  <2>2. \A n \in Msgs : callback'[n] = (callback[n] /\ n # t)
    BY <1>3 DEF FireCallback, ConsumedCallback, TypeOK, SubmitTypes
  <2>3. CASE ~callback[t]
    BY <1>3, <2>2, <2>3 DEF FireCallback, ReceiptBilling, IsDlrCharged
  <2>4. CASE callback[t]
    <3>1. /\ charge[t].cost + charge[t].counter + counted[t] = 0
          /\ submit[t] \notin Unregistered
      BY <2>1, <2>4 DEF ReceiptBilling, IsDlrCharged
    <3>2. /\ charge[t] \in Tasks /\ counted[t] \in Nat
      BY <2>1 DEF TypeOK, ChargeTypes, RowTypes
    <3>3. charge' = [charge EXCEPT ![t] = WithTasks(@, s)]
      BY <1>3, <2>4 DEF FireCallback
    <3>4. charge'[t] = WithTasks(charge[t], s)
      BY <2>1, <3>3 DEF TypeOK, ChargeTypes
    <3>5. \A n \in Msgs : n # t => charge'[n] = charge[n]
      BY <3>3 DEF TypeOK, ChargeTypes
    <3>6. charge'[t].cost + charge'[t].counter + counted[t] <= 1
      BY <3>1, <3>2, <3>4, WithTasksCounts DEF Tasks
    <3>7. UNCHANGED <<submit, counted, force, sweep, modeVars>>
      BY <1>3 DEF FireCallback
    <3> HIDE DEF t, s
    <3> QED BY <2>1, <2>2, <3>1, <3>5, <3>6, <3>7 DEF ReceiptBilling, IsDlrCharged
  <2> QED BY <2>3, <2>4
<1>4. ASSUME NEW s \in Sweeps,
             \/ SweepStep(s) \/ SweepFault(s) \/ \E m \in Msgs : SweepStarts(s, m)
      PROVE  ReceiptBilling'
  <2>1. \A z \in Sweeps : sweep'[z].pc # "count"
    <3>1. CASE SweepStep(s) \/ SweepFault(s)
      <4>1. ~SweepDeliver(s)
        BY <1>a DEF SweepDeliver
      <4> QED BY <1>a, <3>1, <4>1, PassMoves
    <3>2. ASSUME NEW m \in Msgs, SweepStarts(s, m) PROVE \A z \in Sweeps : sweep'[z].pc # "count"
      BY <1>a, <3>2, StartMoves
    <3> QED BY <1>4, <3>1, <3>2
  <2>2. UNCHANGED <<submit, callback, counted, charge, force, modeVars>>
    BY <1>4, <1>a DEF SweepStep, SweepFault, SweepStarts, SweepRead, SweepMisread, SweepTakes,
        SweepSkip, SweepFail,
       SweepDeliver, SweepCount, SweepPush
  <2> QED BY <2>1, <2>2 DEF ReceiptBilling, IsDlrCharged
<1>5. CASE Restart
  <2>1. \A n \in Msgs : counted[n] \in Nat /\ charge[n].cost \in Nat
                        /\ charge[n].counter \in Nat
    BY DEF TypeOK, RowTypes, ChargeTypes, Tasks
  <2>2. \A n \in Msgs : /\ charge'[n].cost = 0 /\ charge'[n].counter = 0
                        /\ ~callback'[n] /\ force'[n] = "none"
                        /\ counted'[n] = counted[n]
    BY <1>5 DEF Restart, NoCharge
  <2>3. \A n \in Msgs : submit'[n] = 
             IF submit[n] \in {"accepted", "tracked", "inserted", "counted"} THEN "aborted"
             ELSE submit[n]
    BY <1>5 DEF Restart
  <2>4. \A n \in Msgs : submit'[n] # "inserted"
    BY <2>3
  <2>5. \A n \in Msgs : submit'[n] \in Unregistered => counted[n] = 0
    BY <2>1, <2>3 DEF ReceiptBilling, IsDlrCharged
  <2>6. \A n \in Msgs : counted[n] <= 1
    BY <2>1 DEF ReceiptBilling, IsDlrCharged
  <2>7. \A z \in Sweeps : sweep'[z].pc # "count"
    BY <1>5 DEF Restart, NoSweep
  <2> QED BY <1>m, <2>1, <2>2, <2>4, <2>5, <2>6, <2>7
          DEF ReceiptBilling, IsDlrCharged
<1>6. CASE UNCHANGED vars
  BY <1>6, <1>0 DEF vars, billing
<1> QED BY <1>0, <1>2, <1>3, <1>4, <1>5, <1>6, QuietSteps

\* So the callback, its charge task and the count are one token in every state.
LEMMA ReceiptBillingHolds == Spec => []ReceiptBilling
<1>1. Init => ReceiptBilling
  BY DEF Init, ReceiptBilling, NoCharge, NoSweep, Unregistered
<1>2. TypeOK /\ ReceiptBilling /\ [Next]_vars => ReceiptBilling'
  BY ReceiptBillingStep
<1> QED BY <1>1, <1>2, TypeCorrect, PTL DEF Spec

\* An on_dlr client is counted at most once for a message: the one-shot callback
\* is the only way to a count, and every receipt finds it used or takes it.
THEOREM DlrChargedOnceHolds == Spec => []DlrChargedOnce
<1>1. TypeOK /\ ReceiptBilling => DlrChargedOnce
  BY DEF ReceiptBilling, DlrChargedOnce, TypeOK, RowTypes, ChargeTypes, Tasks
<1> QED BY <1>1, TypeCorrect, ReceiptBillingHolds, PTL

-----------------------------------------------------------------------------
(* The row comes first *)

\* The submission has not reached its INSERT.
Early == {"new", "accepted", "tracked"}

\* Before its INSERT nothing but the submit handler knows of a message.
Untouched ==
    \A m \in Msgs : submit[m] \in Early =>
        /\ status[m] = "none" /\ counted[m] = 0 /\ ~callback[m]
        /\ charge[m] = NoCharge /\ force[m] = "none"
        /\ \A s \in Sweeps : sweep[s].msg # m

\* Receipts, forced outcomes, charges and sweeps all need a row that has been inserted.
LEMMA UntouchedStep ==
    ASSUME TypeOK, Untouched, [Next]_vars
    PROVE  Untouched'
<1> USE DEF modeVars, rowVars, trackVars, forceVars, sweepVars, historyVars, processVars, Early,
        NoCharge
<1>1. ASSUME NEW m \in Msgs, SubmitStep(m) \/ SubmitFault(m) PROVE Untouched'
  <2>1. CASE Accept(m) \/ Reject(m) \/ Track(m)
    BY <2>1 DEF Accept, Reject, Track, Untouched, TypeOK, RowTypes, SubmitTypes
  <2>2. CASE Insert(m) \/ CountSubmit(m) \/ Register(m)
    BY <2>2 DEF Insert, CountSubmit, Register, Untouched, TypeOK, RowTypes,
                SubmitTypes, ForceTypes
  <2>3. CASE SubmitFault(m)
    BY <2>3 DEF SubmitFault, Untouched, TypeOK, SubmitTypes
  <2> QED BY <1>1, <2>1, <2>2, <2>3 DEF SubmitStep
<1>2. ASSUME NEW m \in Msgs, ChargeStep(m) \/ ChargeFault(m) PROVE Untouched'
  <2>1. submit[m] \notin Early
    BY <1>2 DEF Untouched, ChargeStep, ChargeCost, ChargeCounter, ChargeSupplier, ChargeFault
  <2>2. \A n \in Msgs \ {m} : /\ charge'[n] = charge[n] /\ counted'[n] = counted[n]
    BY <1>2 DEF ChargeStep, ChargeCost, ChargeCounter, ChargeSupplier, ChargeFault, TypeOK,
                ChargeTypes, RowTypes
  <2>3. UNCHANGED <<submit, status, callback, force, sweep>>
    BY <1>2 DEF ChargeStep, ChargeCost, ChargeCounter, ChargeSupplier, ChargeFault
  <2> QED BY <2>1, <2>2, <2>3 DEF Untouched
<1>3. ASSUME NEW m \in Msgs, ForceStep(m) \/ ForceFault(m) PROVE Untouched'
  <2>1. submit[m] \notin Early
    BY <1>3 DEF Untouched, ForceStep, ForceFault, ForceMark, ForceCount, ForcePay, TimerRead,
                TimerMark, TimerCount
  <2>2. \A n \in Msgs \ {m} : /\ status'[n] = status[n] /\ counted'[n] = counted[n]
                              /\ force'[n] = force[n]
    BY <1>3 DEF ForceStep, ForceFault, ForceMark, ForceCount, ForcePay, TimerRead,
                TimerMark, TimerCount, TypeOK, RowTypes, ForceTypes
  <2>3. UNCHANGED <<submit, charge, callback, sweep>>
    BY <1>3 DEF ForceStep, ForceFault, ForceMark, ForceCount, ForcePay, TimerRead,
                TimerMark, TimerCount
  <2> QED BY <2>1, <2>2, <2>3 DEF Untouched
<1>4. ASSUME NEW m \in Msgs, ForgetStale(m) PROVE Untouched'
  BY <1>4 DEF ForgetStale, Untouched, TypeOK, SubmitTypes
<1>5. ASSUME NEW r \in Receipts, NEW m \in Msgs, NEW s \in Stats, NEW known \in BOOLEAN,
             NEW addressed \in Addressings, Arrive(r, m, s, known, addressed)
      PROVE  Untouched'
  BY <1>5 DEF Arrive, Untouched
<1>6. ASSUME NEW r \in Receipts, ReceiptStep(r) \/ ReceiptFault(r) PROVE Untouched'
  <2>1. CASE LateMatch(r) \/ RecoverRead(r) \/ RecoverResume(r) \/ GiveUp(r)
    BY <2>1 DEF LateMatch, RecoverRead, RecoverResume, GiveUp, Untouched
  <2>2. CASE ReadCost(r) \/ Stamp(r) \/ ReceiptFault(r)
    BY <2>2 DEF ReadCost, Stamp, ReceiptFault, Untouched
  <2>3. CASE UpdateStatus(r)
    BY <2>3 DEF UpdateStatus, Untouched, TypeOK, RowTypes
  <2>4. CASE FireCallback(r)
    BY <2>4 DEF FireCallback, ConsumedCallback, Untouched, TypeOK, SubmitTypes, ChargeTypes
  <2> QED BY <1>6, <2>1, <2>2, <2>3, <2>4 DEF ReceiptStep
<1>7. ASSUME NEW s \in Sweeps, NEW m \in Msgs, SweepStarts(s, m) PROVE Untouched'
  BY <1>7 DEF SweepStarts, SweepRead, SweepMisread, SweepTakes, Waiting, Untouched, TypeOK,
      SweepTypes
<1>8. ASSUME NEW s \in Sweeps, SweepStep(s) \/ SweepFault(s) PROVE Untouched'
  <2>1. sweep[s].msg \in Msgs /\ submit[sweep[s].msg] \notin Early
    BY <1>8 DEF SweepStep, SweepFault, SweepSkip, SweepFail, SweepDeliver, SweepCount, SweepPush,
                Untouched, TypeOK, SweepTypes
  <2>2. \A n \in Msgs \ {sweep[s].msg} : status'[n] = status[n] /\ counted'[n] = counted[n]
    BY <1>8, <2>1 DEF SweepStep, SweepFault, SweepSkip, SweepFail, SweepDeliver, SweepCount,
                SweepPush, TypeOK, RowTypes
  <2>3. \A z \in Sweeps : sweep'[z].msg \in {sweep[z].msg, NoMsg}
    BY <1>8, PassMoves
  <2>4. UNCHANGED <<submit, charge, callback, force>>
    BY <1>8 DEF SweepStep, SweepFault, SweepSkip, SweepFail, SweepDeliver, SweepCount, SweepPush
  <2> QED BY <2>1, <2>2, <2>3, <2>4, LifecycleAssumption DEF Untouched, LifecycleAssumption
<1>9. CASE Restart
  BY <1>9, LifecycleAssumption
  DEF Restart, NoSweep, Untouched, TypeOK, SubmitTypes, LifecycleAssumption
<1>10. CASE HydrateStep \/ OlderRow \/ UNCHANGED vars
  BY <1>10 DEF HydrateStep, HydrateRead, HydrateApply, OlderRow, vars, Untouched
<1> QED BY <1>1, <1>2, <1>3, <1>4, <1>5, <1>6, <1>7, <1>8, <1>9, <1>10 DEF Next, Fault,
    SweepStarts

\* So no other handler reaches a message whose row is still to come.
LEMMA UntouchedHolds == Spec => []Untouched
<1>1. Init => Untouched
  BY LifecycleAssumption DEF Init, Untouched, NoCharge, NoSweep, LifecycleAssumption
<1>2. TypeOK /\ Untouched /\ [Next]_vars => Untouched'
  BY UntouchedStep
<1> QED BY <1>1, <1>2, TypeCorrect, PTL DEF Spec

-----------------------------------------------------------------------------
(* The sweeper *)

Resolving(s) == sweep[s].pc \in {"count", "push"}

\* The passes that have resolved the row of m and are still to push its receipt.
Busy(m) == {s \in Sweeps : Resolving(s) /\ sweep[s].msg = m}

\* One while the row of m waits, or is still to be inserted.
Open(m) == IF status[m] \in Waiting \cup {"none"} THEN 1 ELSE 0

\* Forced receipts that were pushed, that are about to be, or that a waiting row may still
\* get: one, and one more for every receipt that made a settled row wait again.
Resolved == \A m \in Msgs : swept[m] + Cardinality(Busy(m)) + Open(m) <= 1 + reopened[m]

\* There are finitely many passes at a time.
LEMMA BusyFinite ==
    ASSUME NEW m
    PROVE  IsFiniteSet(Busy(m)) /\ Cardinality(Busy(m)) \in Nat
<1>1. IsFiniteSet(Sweeps)
  BY LifecycleAssumption DEF LifecycleAssumption
<1>2. Busy(m) \subseteq Sweeps
  BY DEF Busy
<1>3. IsFiniteSet(Busy(m))
  BY <1>1, <1>2, FS_Subset
<1> QED BY <1>3, FS_CardinalityType

\* A step that makes no settled row wait again keeps Resolved.
LEMMA SweepsRest ==
    ASSUME TypeOK, Resolved, UNCHANGED <<sweep, swept, reopened>>,
           \A m \in Msgs : \/ status'[m] = status[m]
                           \/ status'[m] \notin Waiting \cup {"none"}
                           \/ status[m] \in Waiting \cup {"none"}
    PROVE  Resolved'
<1> SUFFICES ASSUME NEW m \in Msgs
             PROVE  swept'[m] + Cardinality(Busy(m)') + Open(m)' <= 1 + reopened'[m]
  BY DEF Resolved
<1>1. Busy(m)' = Busy(m)
  BY DEF Busy, Resolving
<1>2. Open(m)' <= Open(m) /\ Open(m)' \in {0, 1} /\ Open(m) \in {0, 1}
  BY DEF Open, Waiting
<1>3. swept[m] \in Nat /\ reopened[m] \in Nat /\ Cardinality(Busy(m)) \in Nat
  BY BusyFinite DEF TypeOK, SweepTypes
<1>4. swept[m] + Cardinality(Busy(m)) + Open(m) <= 1 + reopened[m]
  BY DEF Resolved
<1> QED BY <1>1, <1>2, <1>3, <1>4

\* A step of one pass, which resolves a waiting row, pushes its receipt, or does neither.
LEMMA PassStep ==
    ASSUME TypeOK, Resolved, NEW s \in Sweeps, UNCHANGED reopened,
           \A z \in Sweeps \ {s} : sweep'[z] = sweep[z],
           \/ Resolving(s)' = Resolving(s) /\ sweep'[s].msg = sweep[s].msg
           \/ ~Resolving(s) /\ ~Resolving(s)'
           \/ ~Resolving(s) /\ Resolving(s)' /\ sweep'[s].msg = sweep[s].msg
           \/ Resolving(s) /\ ~Resolving(s)',
           Resolving(s) /\ ~Resolving(s)' => swept' = [swept EXCEPT ![sweep[s].msg] = @ + 1],
           ~(Resolving(s) /\ ~Resolving(s)') => swept' = swept,
           ~Resolving(s) /\ Resolving(s)' =>
               /\ sweep[s].msg \in Msgs /\ status[sweep[s].msg] \in Waiting
               /\ \E st \in {"FAILED", "DELIVERED"} :
                     status' = [status EXCEPT ![sweep[s].msg] = st],
           ~(~Resolving(s) /\ Resolving(s)') => status' = status
    PROVE  Resolved'
<1> SUFFICES ASSUME NEW m \in Msgs
             PROVE  swept'[m] + Cardinality(Busy(m)') + Open(m)' <= 1 + reopened'[m]
  BY DEF Resolved
<1>1. /\ swept[m] \in Nat /\ reopened[m] \in Nat /\ Cardinality(Busy(m)) \in Nat
      /\ IsFiniteSet(Busy(m)) /\ Open(m) \in {0, 1}
      /\ swept[m] + Cardinality(Busy(m)) + Open(m) <= 1 + reopened[m]
  BY BusyFinite DEF TypeOK, SweepTypes, Open, Resolved
<1>2. CASE ~Resolving(s) /\ Resolving(s)'
  <2>1. CASE sweep[s].msg = m
    <3>1. s \notin Busy(m) /\ Busy(m)' = Busy(m) \cup {s}
      BY <1>2, <2>1 DEF Busy, Resolving
    <3>2. Cardinality(Busy(m)') = Cardinality(Busy(m)) + 1
      BY <1>1, <3>1, FS_AddElement
    <3>3. Open(m) = 1 /\ Open(m)' = 0
      BY <1>2, <2>1 DEF Open, Waiting, TypeOK, RowTypes
    <3> QED BY <1>1, <1>2, <3>2, <3>3
  <2>2. CASE sweep[s].msg # m
    <3>1. Busy(m)' = Busy(m)
      BY <1>2, <2>2 DEF Busy, Resolving
    <3>2. Open(m)' = Open(m)
      BY <1>2, <2>2 DEF Open, TypeOK, RowTypes
    <3> QED BY <1>1, <1>2, <3>1, <3>2
  <2> QED BY <2>1, <2>2
<1>3. CASE Resolving(s) /\ ~Resolving(s)'
  <2>1. Open(m)' = Open(m)
    BY <1>3 DEF Open
  <2>2. CASE sweep[s].msg = m
    <3>1. s \in Busy(m) /\ Busy(m)' = Busy(m) \ {s}
      BY <1>3, <2>2 DEF Busy, Resolving
    <3>2. Cardinality(Busy(m)') = Cardinality(Busy(m)) - 1
      BY <1>1, <3>1, FS_RemoveElement
    <3>3. swept'[m] = swept[m] + 1
      BY <1>3, <2>2 DEF TypeOK, SweepTypes
    <3> QED BY <1>1, <2>1, <3>2, <3>3
  <2>3. CASE sweep[s].msg # m
    <3>1. Busy(m)' = Busy(m)
      BY <1>3, <2>3 DEF Busy, Resolving
    <3>2. swept'[m] = swept[m]
      BY <1>3, <2>3 DEF TypeOK, SweepTypes
    <3> QED BY <1>1, <2>1, <3>1, <3>2
  <2> QED BY <2>2, <2>3
<1>4. CASE Resolving(s)' = Resolving(s)
  <2>1. Busy(m)' = Busy(m)
    BY <1>4 DEF Busy, Resolving
  <2>2. Open(m)' = Open(m) /\ swept' = swept
    BY <1>4 DEF Open
  <2> QED BY <1>1, <2>1, <2>2
<1> QED BY <1>2, <1>3, <1>4 DEF Resolving

\* Nothing but a receipt makes a settled row wait again, and the guarded UPDATE of a second
\* pass changes no row that another has settled.
LEMMA ResolvedStep ==
    ASSUME TypeOK, Untouched, Resolved, [Next]_vars
    PROVE  Resolved'
<1> USE DEF modeVars, rowVars, trackVars, forceVars, sweepVars, historyVars, processVars
<1>1. ASSUME NEW m \in Msgs, SubmitStep(m) \/ SubmitFault(m) PROVE Resolved'
  <2>1. /\ UNCHANGED <<sweep, swept, reopened>>
        /\ status[m] = "none" \/ status' = status
        /\ \A n \in Msgs \ {m} : status'[n] = status[n]
    BY <1>1 DEF SubmitStep, SubmitFault, Accept, Reject, Track, Insert, CountSubmit, Register,
                Untouched, Early, TypeOK, RowTypes, SubmitTypes
  <2> QED BY <2>1, SweepsRest
<1>2. ASSUME NEW m \in Msgs, ChargeStep(m) \/ ChargeFault(m) \/ ForgetStale(m) PROVE Resolved'
  <2>1. UNCHANGED <<sweep, swept, reopened, status>>
    BY <1>2 DEF ChargeStep, ChargeCost, ChargeCounter, ChargeSupplier, ChargeFault, ForgetStale
  <2> QED BY <2>1, SweepsRest
<1>3. ASSUME NEW m \in Msgs, ForceStep(m) \/ ForceFault(m) PROVE Resolved'
  <2>1. /\ UNCHANGED <<sweep, swept, reopened>>
        /\ status' = status \/ status' = [status EXCEPT ![m] = "DELIVERED"]
    BY <1>3 DEF ForceStep, ForceFault, ForceMark, ForceCount, ForcePay, TimerRead,
                TimerMark, TimerCount
  <2> QED BY <2>1, SweepsRest DEF TypeOK, RowTypes, Waiting
<1>4. ASSUME NEW r \in Receipts, NEW m \in Msgs, NEW s \in Stats, NEW known \in BOOLEAN,
             NEW addressed \in Addressings, Arrive(r, m, s, known, addressed)
      PROVE  Resolved'
  <2>1. UNCHANGED <<sweep, swept, reopened, status>>
    BY <1>4 DEF Arrive
  <2> QED BY <2>1, SweepsRest
<1>5. ASSUME NEW r \in Receipts, ReceiptStep(r) \/ ReceiptFault(r) PROVE Resolved'
  <2>1. CASE UpdateStatus(r)
    <3> DEFINE t == receipt[r].target
               new == DlrStatusOf(receipt[r].stat)
    <3>1. t \in Msgs /\ new # "none"
      BY <2>1 DEF UpdateStatus, Matched, DlrStatusOf, TypeOK, ReceiptTypes, ReceiptType, Stat
    <3>2. CASE new \in Waiting /\ status[t] \notin Waiting \cup {"none"}
      <4> SUFFICES ASSUME NEW m \in Msgs
                   PROVE  swept'[m] + Cardinality(Busy(m)') + Open(m)' <= 1 + reopened'[m]
        BY DEF Resolved
      <4>1. /\ status' = [status EXCEPT ![t] = new]
            /\ reopened' = [reopened EXCEPT ![t] = @ + 1]
            /\ UNCHANGED <<sweep, swept>>
        BY <2>1, <3>2 DEF UpdateStatus
      <4>2. Busy(m)' = Busy(m)
        BY <4>1 DEF Busy, Resolving
      <4>3. /\ swept[m] \in Nat /\ reopened[m] \in Nat /\ Cardinality(Busy(m)) \in Nat
            /\ swept[m] + Cardinality(Busy(m)) + Open(m) <= 1 + reopened[m]
        BY BusyFinite DEF TypeOK, SweepTypes, Resolved
      <4>4. CASE m = t
        <5>1. Open(m) = 0 /\ Open(m)' \in {0, 1}
          BY <3>2, <4>4 DEF Open
        <5>2. reopened'[m] = reopened[m] + 1
          BY <3>1, <4>1, <4>4 DEF TypeOK, SweepTypes
        <5> HIDE DEF t, new
        <5> QED BY <4>1, <4>2, <4>3, <5>1, <5>2
      <4>5. CASE m # t
        <5>1. status'[m] = status[m] /\ reopened'[m] = reopened[m]
          BY <4>1, <4>5 DEF TypeOK, RowTypes, SweepTypes
        <5>2. Open(m)' = Open(m) /\ Open(m) \in {0, 1}
          BY <5>1 DEF Open
        <5> QED BY <4>1, <4>2, <4>3, <5>1, <5>2
      <4> QED BY <4>4, <4>5
    <3>3. CASE ~(new \in Waiting /\ status[t] \notin Waiting \cup {"none"})
      <4>1. UNCHANGED <<sweep, swept, reopened>>
        BY <2>1, <3>3 DEF UpdateStatus
      <4>2. status' = status \/ status' = [status EXCEPT ![t] = new]
        BY <2>1 DEF UpdateStatus
      <4>3. \A m \in Msgs : status'[m] = status[m] \/ (m = t /\ status'[m] = new)
        BY <4>2 DEF TypeOK, RowTypes
      <4> HIDE DEF t, new
      <4> QED BY <3>1, <3>3, <4>1, <4>3, SweepsRest
    <3> QED BY <3>2, <3>3
  <2>2. CASE ~UpdateStatus(r)
    <3>1. UNCHANGED <<sweepVars, status>>
      BY <1>5, <2>2 DEF ReceiptStep, LateMatch, RecoverRead, RecoverResume, GiveUp, ReadCost,
                        Stamp, ReceiptFault, FireCallback
    <3> QED BY <3>1, SweepsRest
  <2> QED BY <2>1, <2>2
<1>6. ASSUME NEW s \in Sweeps, NEW m \in Msgs, SweepStarts(s, m) PROVE Resolved'
  <2>1. /\ sweep[s].pc = "idle" /\ sweep'[s].pc = "resolve"
        /\ \A z \in Sweeps \ {s} : sweep'[z] = sweep[z]
        /\ UNCHANGED <<swept, reopened, status>>
    BY <1>6 DEF SweepStarts, SweepRead, SweepMisread, SweepTakes, TypeOK, SweepTypes
  <2> QED BY <2>1, PassStep DEF Resolving
<1>7. ASSUME NEW s \in Sweeps, SweepStep(s) \/ SweepFault(s) PROVE Resolved'
  <2>1. CASE SweepSkip(s)
    <3>1. /\ ~Resolving(s) /\ ~Resolving(s)'
          /\ \A z \in Sweeps \ {s} : sweep'[z] = sweep[z]
          /\ UNCHANGED <<swept, reopened, status>>
      BY <2>1 DEF SweepSkip, NoSweep, Resolving, TypeOK, SweepTypes
    <3> QED BY <3>1, PassStep
  <2>2. CASE SweepFail(s) \/ SweepDeliver(s)
    <3>1. PICK pc \in {"count", "push"} : sweep' = [sweep EXCEPT ![s] = Settled(s, pc)]
      BY <2>2 DEF SweepFail, SweepDeliver
    <3>2. Settled(s, pc).pc = pc /\ Settled(s, pc).msg = sweep[s].msg
      BY DEF Settled, NoSweep
    <3>3. /\ \A z \in Sweeps \ {s} : sweep'[z] = sweep[z]
          /\ sweep'[s].msg = sweep[s].msg /\ sweep'[s].pc = pc
      BY <3>1, <3>2 DEF TypeOK, SweepTypes
    <3>4. /\ sweep[s].pc = "resolve" /\ status[sweep[s].msg] \in Waiting
          /\ UNCHANGED <<swept, reopened>>
          /\ \E st \in {"FAILED", "DELIVERED"} : status' = [status EXCEPT ![sweep[s].msg] = st]
      BY <2>2 DEF SweepFail, SweepDeliver, StillPending
    <3>5. sweep[s].msg \in Msgs
      BY <3>4 DEF TypeOK, SweepTypes
    <3>6. ~Resolving(s) /\ Resolving(s)'
      BY <3>3, <3>4 DEF Resolving
    <3> QED BY <3>3, <3>4, <3>5, <3>6, PassStep
  <2>3. CASE SweepCount(s) \/ SweepFault(s)
    <3>1. UNCHANGED <<status, swept, reopened>>
      BY <2>3 DEF SweepCount, SweepFault
    <3>2. /\ \A z \in Sweeps \ {s} : sweep'[z] = sweep[z]
          /\ \/ Resolving(s) /\ Resolving(s)' /\ sweep'[s].msg = sweep[s].msg
             \/ ~Resolving(s) /\ ~Resolving(s)'
      BY <2>3 DEF SweepCount, SweepFault, Resolving, NoSweep, TypeOK, SweepTypes, SweepType
    <3> QED BY <3>1, <3>2, PassStep
  <2>4. CASE SweepPush(s)
    <3>1. /\ UNCHANGED <<status, reopened>>
          /\ swept' = [swept EXCEPT ![sweep[s].msg] = @ + 1]
          /\ Resolving(s) /\ ~Resolving(s)'
          /\ \A z \in Sweeps \ {s} : sweep'[z] = sweep[z]
      BY <2>4 DEF SweepPush, Resolving, NoSweep, TypeOK, SweepTypes
    <3> QED BY <3>1, PassStep
  <2> QED BY <1>7, <2>1, <2>2, <2>3, <2>4 DEF SweepStep
<1>8. CASE Restart
  <2> SUFFICES ASSUME NEW m \in Msgs
               PROVE  swept'[m] + Cardinality(Busy(m)') + Open(m)' <= 1 + reopened'[m]
    BY DEF Resolved
  <2>1. Busy(m)' = {}
    BY <1>8 DEF Restart, NoSweep, Busy, Resolving
  <2>2. Cardinality(Busy(m)') = 0
    BY <2>1, FS_EmptySet
  <2>3. UNCHANGED <<swept, reopened, status>>
    BY <1>8 DEF Restart
  <2>4. /\ swept[m] \in Nat /\ reopened[m] \in Nat /\ Cardinality(Busy(m)) \in Nat
        /\ Open(m) \in {0, 1} /\ Open(m)' = Open(m)
        /\ swept[m] + Cardinality(Busy(m)) + Open(m) <= 1 + reopened[m]
    BY <2>3, BusyFinite DEF TypeOK, SweepTypes, Resolved, Open
  <2> QED BY <2>2, <2>3, <2>4
<1>9. CASE HydrateStep \/ OlderRow \/ UNCHANGED vars
  <2>1. UNCHANGED <<sweep, swept, reopened, status>>
    BY <1>9 DEF HydrateStep, HydrateRead, HydrateApply, OlderRow, vars
  <2> QED BY <2>1, SweepsRest
<1> QED BY <1>1, <1>2, <1>3, <1>4, <1>5, <1>6, <1>7, <1>8, <1>9 DEF Next, Fault, SweepStarts

\* Overlapping passes push one forced receipt for a message at most, and one more for every
\* receipt of state PENDING or SENT that made its settled row wait again: a row that one
\* pass has settled fails the guarded UPDATE of every other.
THEOREM SweptOnceHolds == Spec => []SweptOnce
<1>1. Init => Resolved
  <2> SUFFICES ASSUME Init, NEW m \in Msgs
               PROVE  swept[m] + Cardinality(Busy(m)) + Open(m) <= 1 + reopened[m]
    BY DEF Resolved
  <2>1. Busy(m) = {}
    BY DEF Init, Busy, Resolving, NoSweep
  <2>2. Cardinality(Busy(m)) = 0
    BY <2>1, FS_EmptySet
  <2> QED BY <2>2 DEF Init, Open
<1>2. TypeOK /\ Untouched /\ Resolved /\ [Next]_vars => Resolved'
  BY ResolvedStep
<1>3. TypeOK /\ Resolved => SweptOnce
  <2> SUFFICES ASSUME TypeOK, Resolved, NEW m \in Msgs PROVE swept[m] <= 1 + reopened[m]
    BY DEF SweptOnce
  <2>1. /\ swept[m] \in Nat /\ reopened[m] \in Nat /\ Cardinality(Busy(m)) \in Nat
        /\ Open(m) \in {0, 1}
        /\ swept[m] + Cardinality(Busy(m)) + Open(m) <= 1 + reopened[m]
    BY BusyFinite DEF TypeOK, SweepTypes, Resolved, Open
  <2> QED BY <2>1
<1> QED BY <1>1, <1>2, <1>3, TypeCorrect, UntouchedHolds, PTL DEF Spec

\* Receipts move by their handlers, their arrival and a restart.
LEMMA ReceiptMoves ==
    ASSUME [Next]_vars
    PROVE  \/ UNCHANGED receipt \/ Restart
           \/ \E q \in Receipts : ReceiptStep(q) \/ ReceiptFault(q)
           \/ \E q \in Receipts, n \in Msgs, s \in Stats, known \in BOOLEAN,
                 addressed \in Addressings : Arrive(q, n, s, known, addressed)
  BY DEF Next, Fault, SweepStarts, ChargeStep, ChargeCost, ChargeCounter, ChargeSupplier,
      ChargeFault,
         ForgetStale, SubmitStep, SubmitFault, Accept, Reject, Track, Insert, CountSubmit,
         Register, ForceStep, ForceFault, ForceMark, ForceCount, ForcePay, TimerRead,
         TimerMark, TimerCount, SweepStarts, SweepRead, SweepMisread, SweepTakes, SweepStep,
             SweepFault, SweepSkip, SweepFail,
         SweepDeliver, SweepCount, SweepPush, HydrateStep, HydrateRead, HydrateApply, OlderRow, vars

\* Histories only grow, and only the sweeper of an on_dlr client misreads a row.
LEMMA HistoryGrows ==
    ASSUME [Next]_vars
    PROVE  /\ \A m \in Msgs : m \in reported => m \in reported'
           /\ misread \subseteq misread'
           /\ misread' = misread \/ IsDlrCharged(clientMode)
<1> USE DEF historyVars, sweepVars
<1>1. ASSUME NEW r \in Receipts, NEW m \in Msgs, NEW s \in Stats, NEW known \in BOOLEAN,
             NEW addressed \in Addressings, Arrive(r, m, s, known, addressed)
      PROVE  misread' = misread /\ \A n \in Msgs : n \in reported => n \in reported'
  BY <1>1 DEF Arrive
<1>2. ASSUME NEW s \in Sweeps, \/ SweepStep(s) \/ SweepFault(s)
                               \/ \E m \in Msgs : SweepStarts(s, m)
      PROVE  /\ reported' = reported /\ misread \subseteq misread'
             /\ misread' = misread \/ IsDlrCharged(clientMode)
  <2>1. CASE SweepDeliver(s)
    BY <2>1 DEF SweepDeliver
  <2>2. CASE ~SweepDeliver(s)
    BY <1>2, <2>2 DEF SweepStep, SweepFault, SweepStarts, SweepRead, SweepMisread, SweepTakes,
                      SweepSkip, SweepFail, SweepCount, SweepPush
  <2> QED BY <2>1, <2>2
<1>3. CASE \E r \in Receipts : UpdateStatus(r)
  BY <1>3 DEF UpdateStatus
<1>4. CASE OlderRow \/ Restart
  BY <1>4 DEF OlderRow, Restart
<1>5. ASSUME UNCHANGED sweepVars
      PROVE  UNCHANGED <<reported, misread>>
  BY <1>5, SMTT(40)
<1>6. \/ UNCHANGED sweepVars \/ OlderRow \/ Restart
      \/ \E r \in Receipts : UpdateStatus(r)
      \/ \E s \in Sweeps : SweepStep(s) \/ SweepFault(s) \/ \E m \in Msgs : SweepStarts(s, m)
      \/ \E r \in Receipts, m \in Msgs, s \in Stats, known \in BOOLEAN, addressed \in Addressings :
            Arrive(r, m, s, known, addressed)
  <2> USE DEF sweepVars
  <2>1. ASSUME NEW r \in Receipts, ReceiptStep(r) \/ ReceiptFault(r), ~UpdateStatus(r)
        PROVE  UNCHANGED sweepVars
    BY <2>1, ZenonT(40) DEF ReceiptStep, LateMatch, RecoverRead, RecoverResume, GiveUp, ReadCost,
                            Stamp, ReceiptFault, FireCallback
  <2>2. ASSUME NEW m \in Msgs, SubmitStep(m) \/ SubmitFault(m)
        PROVE  UNCHANGED sweepVars
    BY <2>2, ZenonT(40) DEF SubmitStep, SubmitFault, Accept, Reject, Track, Insert, CountSubmit,
                            Register
  <2>3. ASSUME NEW m \in Msgs, ChargeStep(m) \/ ChargeFault(m) \/ ForgetStale(m)
        PROVE  UNCHANGED sweepVars
    BY <2>3, ZenonT(40) DEF ChargeStep, ChargeCost, ChargeCounter, ChargeSupplier, ChargeFault,
                            ForgetStale
  <2>4. ASSUME NEW m \in Msgs, ForceStep(m) \/ ForceFault(m)
        PROVE  UNCHANGED sweepVars
    BY <2>4, ZenonT(40) DEF ForceStep, ForceFault, ForceMark, ForceCount, ForcePay, TimerRead,
                            TimerMark, TimerCount
  <2>5. HydrateStep \/ UNCHANGED vars => UNCHANGED sweepVars
    BY ZenonT(40) DEF HydrateStep, HydrateRead, HydrateApply, vars
  <2> QED BY <2>1, <2>2, <2>3, <2>4, <2>5 DEF Next, Fault, SweepStarts
<1> QED BY <1>1, <1>2, <1>3, <1>4, <1>5, <1>6

-----------------------------------------------------------------------------
(* What rows show *)

\* The row of a client charged at submit shows its rate from the INSERT on, whoever has
\* read the row has read that rate, and no lookup can take the client for another kind.
PricedRows ==
    IsSubmitCharged(clientMode) =>
        /\ misread = {}
        /\ \A m \in Msgs : /\ status[m] # "none" => cost[m] = ClientRate
                           /\ force[m] = "tmark" => seen[m].cost = ClientRate
        /\ \A s \in Sweeps : sweep[s].pc = "resolve" => sweep[s].cost = ClientRate
        /\ \A r \in Receipts : receipt[r].pc = "stamp" =>
              receipt[r].rate = ClientRate /\ status[receipt[r].target] # "none"

\* The count of a message is made or on its way.
Owed(m) == \/ counted[m] > 0 \/ charge[m].counter > 0 \/ force[m] \in {"count", "tcount"}
           \/ submit[m] = "inserted"
           \/ \E s \in Sweeps : sweep[s].pc = "count" /\ sweep[s].msg = m

OwedPriced == \A m \in Msgs : Owed(m) /\ m \notin misread => cost[m] = ClientRate

\* After the INSERT nothing is written into the cost column but the rate, unless a lookup
\* failed, and no row disappears: a forced outcome writes what it read, or the rate if
\* that was nothing.
LEMMA CostKept ==
    ASSUME TypeOK, Untouched, PricedRows, [Next]_vars, NEW n \in Msgs
    PROVE  /\ \/ submit[n] \in Early \/ cost'[n] \in {cost[n], ClientRate}
              \/ n \in misread'
           /\ status[n] # "none" => status'[n] # "none"
           /\ \/ submit[n] \in Early \/ status'[n] = "none" \/ status[n] # "none"
              \/ cost'[n] = ClientRate
<1> USE DEF modeVars, rowVars, trackVars, forceVars, sweepVars, historyVars, processVars
<1> DEFINE Kept == /\ \/ submit[n] \in Early \/ cost'[n] \in {cost[n], ClientRate}
                      \/ n \in misread'
                   /\ status[n] # "none" => status'[n] # "none"
                   /\ \/ submit[n] \in Early \/ status'[n] = "none" \/ status[n] # "none"
                      \/ cost'[n] = ClientRate
<1>1. ASSUME NEW m \in Msgs, SubmitStep(m) \/ SubmitFault(m) PROVE Kept
  BY <1>1 DEF SubmitStep, SubmitFault, Accept, Reject, Track, Insert, CountSubmit, Register,
              Early, TypeOK, RowTypes
<1>2. ASSUME NEW m \in Msgs, ChargeStep(m) \/ ChargeFault(m) \/ ForgetStale(m) PROVE Kept
  BY <1>2 DEF ChargeStep, ChargeCost, ChargeCounter, ChargeSupplier, ChargeFault, ForgetStale,
              TypeOK, RowTypes
<1>3. ASSUME NEW m \in Msgs, ForceStep(m) \/ ForceFault(m) PROVE Kept
  <2>1. CASE TimerMark(m)
    <3>1. TimeoutCost(clientMode, seen[m]) = ClientRate
      BY <2>1 DEF TimerMark, TimeoutCost, PricedRows, IsSubmitCharged, IsDlrCharged, TypeOK,
                  ForceTypes
    <3>2. submit[m] \notin Early
      BY <2>1 DEF TimerMark, Untouched
    <3> QED BY <2>1, <3>1, <3>2 DEF TimerMark, TypeOK, RowTypes
  <2>2. CASE ForceMark(m)
    <3>1. submit[m] \notin Early
      BY <2>2 DEF ForceMark, Untouched
    <3>2. status[m] # "none" => status'[m] # "none"
      BY <2>2 DEF ForceMark, TypeOK, RowTypes
    <3> QED BY <2>2, <3>1, <3>2 DEF ForceMark, TypeOK, RowTypes
  <2>3. CASE ~TimerMark(m) /\ ~ForceMark(m)
    BY <1>3, <2>3 DEF ForceStep, ForceFault, ForceCount, ForcePay, TimerRead, TimerCount
  <2> QED BY <2>1, <2>2, <2>3
<1>4. ASSUME NEW r \in Receipts, NEW m \in Msgs, NEW s \in Stats, NEW known \in BOOLEAN,
             NEW addressed \in Addressings, Arrive(r, m, s, known, addressed)
      PROVE  Kept
  BY <1>4 DEF Arrive
<1>5. ASSUME NEW r \in Receipts, ReceiptStep(r) \/ ReceiptFault(r) PROVE Kept
  <2>1. CASE UpdateStatus(r)
    <3>1. DlrStatusOf(receipt[r].stat) # "none"
      BY DEF DlrStatusOf, TypeOK, ReceiptTypes, ReceiptType, Stat
    <3> QED BY <2>1, <3>1 DEF UpdateStatus, TypeOK, RowTypes
  <2>2. CASE ~UpdateStatus(r)
    BY <1>5, <2>2 DEF ReceiptStep, LateMatch, RecoverRead, RecoverResume, GiveUp, ReadCost,
                      Stamp, ReceiptFault, FireCallback
  <2> QED BY <2>1, <2>2
<1>6. ASSUME NEW s \in Sweeps, NEW m \in Msgs, SweepStarts(s, m) PROVE Kept
  BY <1>6 DEF SweepStarts, SweepRead, SweepMisread, SweepTakes
<1>7. ASSUME NEW s \in Sweeps, SweepStep(s) \/ SweepFault(s) PROVE Kept
  <2>1. CASE SweepDeliver(s)
    <3> DEFINE read == [cost |-> sweep[s].cost, supplierCost |-> sweep[s].supplierCost]
               m == sweep[s].msg
    <3>1. /\ m \in Msgs /\ sweep[s].cost \in {0, ClientRate}
          /\ sweep[s].client \in {clientMode, "on_submit"}
          /\ IsSubmitCharged(clientMode) => sweep[s].cost = ClientRate
      BY <2>1 DEF SweepDeliver, PricedRows, TypeOK, SweepTypes, SweepType
    <3>2. \/ TimeoutCost(sweep[s].client, read) = ClientRate
          \/ IsDlrCharged(clientMode) /\ ~IsDlrCharged(sweep[s].client)
      BY <3>1 DEF TimeoutCost, IsSubmitCharged, IsDlrCharged
    <3>3. /\ cost' = [cost EXCEPT ![m] = TimeoutCost(sweep[s].client, read)]
          /\ status' = [status EXCEPT ![m] = "DELIVERED"]
          /\ IsDlrCharged(clientMode) /\ ~IsDlrCharged(sweep[s].client) => m \in misread'
          /\ status[m] # "none"
      BY <2>1 DEF SweepDeliver, StillPending, Waiting
    <3> HIDE DEF read, m
    <3> QED BY <3>1, <3>2, <3>3 DEF TypeOK, RowTypes
  <2>2. CASE ~SweepDeliver(s)
    BY <1>7, <2>2 DEF SweepStep, SweepSkip, SweepFail, SweepCount, SweepPush, SweepFault,
                      StillPending, Waiting, TypeOK, RowTypes
  <2> QED BY <2>1, <2>2
<1>8. CASE Restart \/ HydrateStep \/ OlderRow \/ UNCHANGED vars
  BY <1>8 DEF Restart, HydrateStep, HydrateRead, HydrateApply, OlderRow, vars
<1> QED BY <1>1, <1>2, <1>3, <1>4, <1>5, <1>6, <1>7, <1>8 DEF Next, Fault, SweepStarts

\* Who starts to owe a count has just written the price: the charge task, the forced
\* outcomes and the sweeper update the row before the counter.
LEMMA OwedStep ==
    ASSUME TypeOK, Untouched, PricedRows, OwedPriced, [Next]_vars
    PROVE  OwedPriced'
<1> USE DEF modeVars, rowVars, trackVars, forceVars, sweepVars, historyVars, processVars
<1>0. ASSUME NEW m \in Msgs, Owed(m), m \notin misread' PROVE cost'[m] = ClientRate
  <2>1. submit[m] \notin Early /\ cost[m] = ClientRate
    BY <1>0, HistoryGrows DEF Owed, OwedPriced, Untouched, NoCharge, Early
  <2> QED BY <1>0, <2>1, CostKept
<1> SUFFICES ASSUME NEW n \in Msgs, Owed(n)' PROVE Owed(n) \/ cost'[n] = ClientRate
  BY <1>0 DEF OwedPriced
<1> DEFINE Fair == Owed(n) \/ cost'[n] = ClientRate
<1>1. ASSUME UNCHANGED <<counted, charge, force, sweep, submit>> PROVE Fair
  BY <1>1 DEF Owed
<1>2. ASSUME NEW m \in Msgs, SubmitStep(m) \/ SubmitFault(m) PROVE Fair
  <2>1. CASE CountSubmit(m)
    BY <2>1 DEF CountSubmit, Owed, TypeOK, RowTypes, SubmitTypes
  <2>2. CASE Register(m)
    BY <2>2 DEF Register, ForceJob, Owed, TypeOK, ForceTypes, SubmitTypes
  <2>3. CASE Insert(m)
    BY <2>3 DEF Insert, SubmitClientCost, IsSubmitCharged, IsDlrCharged, Owed, TypeOK,
                RowTypes, SubmitTypes
  <2>4. CASE Accept(m) \/ Reject(m) \/ Track(m) \/ SubmitFault(m)
    BY <2>4 DEF SubmitFault, Accept, Reject, Track, Owed, TypeOK, SubmitTypes
  <2> QED BY <1>2, <2>1, <2>2, <2>3, <2>4 DEF SubmitStep
<1>3. ASSUME NEW m \in Msgs, ChargeStep(m) \/ ChargeFault(m) \/ ForgetStale(m) PROVE Fair
  <2>1. CASE ChargeCost(m)
    <3>1. n # m => charge'[n] = charge[n]
      BY <2>1 DEF ChargeCost, TypeOK, ChargeTypes
    <3>2. n = m => cost'[n] = ClientRate
      BY <2>1 DEF ChargeCost, TypeOK, RowTypes
    <3> QED BY <2>1, <3>1, <3>2 DEF ChargeCost, Owed
  <2>2. CASE ChargeCounter(m)
    BY <2>2 DEF ChargeCounter, Owed, TypeOK, ChargeTypes, Tasks, RowTypes
  <2>3. CASE ChargeSupplier(m)
    BY <2>3 DEF ChargeSupplier, Owed, TypeOK, ChargeTypes, Tasks
  <2>4. CASE ChargeFault(m)
    BY <2>4 DEF ChargeFault, Owed, TypeOK, ChargeTypes, Tasks
  <2>5. CASE ForgetStale(m)
    BY <2>5 DEF ForgetStale, Owed
  <2> QED BY <1>3, <2>1, <2>2, <2>3, <2>4, <2>5 DEF ChargeStep
<1>4. ASSUME NEW m \in Msgs, ForceStep(m) \/ ForceFault(m) PROVE Fair
  <2>1. CASE TimerMark(m)
    <3>1. TimeoutCost(clientMode, seen[m]) = ClientRate
      BY <2>1 DEF TimerMark, TimeoutCost, PricedRows, IsSubmitCharged, IsDlrCharged, TypeOK,
                  ForceTypes
    <3> QED BY <2>1, <3>1 DEF TimerMark, Owed, TypeOK, RowTypes, ForceTypes
  <2>2. CASE ~TimerMark(m)
    BY <1>4, <2>2 DEF ForceStep, ForceFault, ForceMark, ForceCount, ForcePay, TimerRead,
                      TimerCount, Owed, TypeOK, RowTypes, ForceTypes
  <2> QED BY <2>1, <2>2
<1>5. ASSUME NEW r \in Receipts, ReceiptStep(r) \/ ReceiptFault(r) PROVE Fair
  <2>1. CASE FireCallback(r)
    <3>1. charge'[n].counter = charge[n].counter
      BY <2>1, WithTasksCounts DEF FireCallback, TypeOK, ChargeTypes
    <3> QED BY <2>1, <3>1 DEF FireCallback, Owed
  <2>2. CASE ~FireCallback(r)
    BY <1>1, <1>5, <2>2 DEF ReceiptStep, LateMatch, RecoverRead, RecoverResume, GiveUp,
                            UpdateStatus, ReadCost, Stamp, ReceiptFault
  <2> QED BY <2>1, <2>2
<1>6. ASSUME NEW s \in Sweeps, \/ SweepStep(s) \/ SweepFault(s)
                               \/ \E m \in Msgs : SweepStarts(s, m)
      PROVE  Fair
  <2>1. CASE SweepDeliver(s)
    <3> DEFINE m == sweep[s].msg
               next == IF IsDlrCharged(sweep[s].client) THEN "count" ELSE "push"
    <3>1. m \in Msgs /\ sweep[s].cost \in {0, ClientRate}
      BY <2>1 DEF SweepDeliver, TypeOK, SweepTypes, SweepType
    <3>2. IsDlrCharged(sweep[s].client) => cost'[m] = ClientRate
      BY <2>1, <3>1 DEF SweepDeliver, TimeoutCost, TypeOK, RowTypes
    <3>3. /\ sweep' = [sweep EXCEPT ![s] = Settled(s, next)]
          /\ UNCHANGED <<counted, charge, force, submit>>
      BY <2>1 DEF SweepDeliver
    <3>4. Settled(s, next).pc = next /\ Settled(s, next).msg = m
      BY DEF Settled, NoSweep
    <3>5. ASSUME NEW z \in Sweeps, sweep'[z].pc = "count", sweep'[z].msg = n
          PROVE  Owed(n) \/ cost'[n] = ClientRate
      <4>1. CASE z = s
        BY <3>2, <3>3, <3>4, <3>5, <4>1 DEF TypeOK, SweepTypes
      <4>2. CASE z # s
        BY <3>3, <3>5, <4>2 DEF Owed, TypeOK, SweepTypes
      <4> QED BY <4>1, <4>2
    <3> HIDE DEF m, next
    <3> QED BY <3>3, <3>5 DEF Owed
  <2>2. CASE SweepCount(s)
    BY <2>2 DEF SweepCount, Owed, TypeOK, RowTypes, SweepTypes, SweepType
  <2>3. CASE ~SweepDeliver(s) /\ ~SweepCount(s)
    <3>1. \A z \in Sweeps : sweep'[z].pc = "count" => sweep'[z] = sweep[z]
      BY <1>6, <2>3, PassMoves, StartMoves
    <3>2. UNCHANGED <<counted, charge, force, submit>>
      BY <1>6, <2>3 DEF SweepStep, SweepFault, SweepStarts, SweepRead, SweepMisread, SweepTakes,
                        SweepSkip, SweepFail, SweepPush
    <3> QED BY <3>1, <3>2 DEF Owed
  <2> QED BY <2>1, <2>2, <2>3
<1>7. CASE Restart
  BY <1>7 DEF Restart, NoCharge, NoSweep, Owed
<1>8. CASE \/ HydrateStep \/ OlderRow \/ UNCHANGED vars
           \/ \E r \in Receipts, m \in Msgs, s \in Stats, known \in BOOLEAN,
                 addressed \in Addressings : Arrive(r, m, s, known, addressed)
  BY <1>1, <1>8, ZenonT(40) DEF HydrateStep, HydrateRead, HydrateApply, OlderRow, vars, Arrive
<1> QED BY <1>2, <1>3, <1>4, <1>5, <1>6, <1>7, <1>8 DEF Next, Fault, SweepStarts

\* Every step keeps the price of the rows, and whoever reads one reads it.
LEMMA PricedStep ==
    ASSUME TypeOK, Untouched, PricedRows, [Next]_vars
    PROVE  PricedRows'
<1> USE DEF modeVars, rowVars, trackVars, forceVars, sweepVars, historyVars, processVars
<1> SUFFICES ASSUME IsSubmitCharged(clientMode)
             PROVE  /\ misread' = {}
                    /\ \A m \in Msgs : /\ status'[m] # "none" => cost'[m] = ClientRate
                                       /\ force'[m] = "tmark" => seen'[m].cost = ClientRate
                    /\ \A s \in Sweeps : sweep'[s].pc = "resolve" => sweep'[s].cost = ClientRate
                    /\ \A r \in Receipts : receipt'[r].pc = "stamp" =>
                          receipt'[r].rate = ClientRate /\ status'[receipt'[r].target] # "none"
  BY ModesStay DEF PricedRows, IsSubmitCharged
<1>0. misread' = {}
  BY HistoryGrows DEF PricedRows, IsSubmitCharged, IsDlrCharged
<1>1. ASSUME NEW m \in Msgs, status'[m] # "none" PROVE cost'[m] = ClientRate
  <2>1. CASE submit[m] \notin Early
    BY <1>0, <1>1, <2>1, CostKept DEF PricedRows
  <2>2. CASE submit[m] \in Early
    <3>1. status[m] = "none" /\ force[m] = "none" /\ \A s \in Sweeps : sweep[s].msg # m
      BY <2>2 DEF Untouched
    <3>2. CASE Insert(m)
      BY <3>2 DEF Insert, SubmitClientCost, IsSubmitCharged, IsDlrCharged, TypeOK, RowTypes
    <3>3. CASE Reject(m)
      BY <3>3 DEF Reject, TypeOK, RowTypes
    <3>4. CASE ~Insert(m) /\ ~Reject(m)
      <4>1. ASSUME NEW n \in Msgs, SubmitStep(n) \/ SubmitFault(n) PROVE status'[m] = "none"
        BY <3>1, <3>4, <4>1 DEF SubmitStep, SubmitFault, Accept, Reject, Track, Insert,
                                CountSubmit, Register, TypeOK, RowTypes
      <4>2. ASSUME NEW n \in Msgs, ForceStep(n) \/ ForceFault(n) PROVE status'[m] = "none"
        BY <3>1, <4>2 DEF ForceStep, ForceFault, ForceMark, ForceCount, ForcePay, TimerRead,
                          TimerMark, TimerCount, TypeOK, RowTypes
      <4>3. ASSUME NEW s \in Sweeps, SweepStep(s) \/ SweepFault(s) PROVE status'[m] = "none"
        BY <3>1, <4>3 DEF SweepStep, SweepFault, SweepSkip, SweepFail, SweepDeliver, SweepCount,
                          SweepPush, StillPending, Waiting, TypeOK, RowTypes
      <4>4. ASSUME NEW r \in Receipts, ReceiptStep(r) \/ ReceiptFault(r) PROVE status'[m] = "none"
        BY <3>1, <4>4 DEF ReceiptStep, LateMatch, RecoverRead, RecoverResume, GiveUp,
                          UpdateStatus, ReadCost, Stamp, ReceiptFault, FireCallback, TypeOK, RowTypes
      <4>5. ASSUME NEW n \in Msgs, ChargeStep(n) \/ ChargeFault(n) \/ ForgetStale(n)
            PROVE  status' = status
        BY <4>5 DEF ChargeStep, ChargeCost, ChargeCounter, ChargeSupplier, ChargeFault,
            ForgetStale
      <4>6. CASE \/ HydrateStep \/ OlderRow \/ Restart \/ UNCHANGED vars
                 \/ \E r \in Receipts, n \in Msgs, s \in Stats, known \in BOOLEAN,
                       addressed \in Addressings : Arrive(r, n, s, known, addressed)
                 \/ \E s \in Sweeps, n \in Msgs : SweepStarts(s, n)
        BY <1>1, <3>1, <4>6 DEF HydrateStep, HydrateRead, HydrateApply, OlderRow, Restart,
            vars, Arrive, SweepStarts, SweepRead, SweepMisread, SweepTakes
      <4> QED BY <1>1, <3>1, <4>1, <4>2, <4>3, <4>4, <4>5, <4>6 DEF Next, Fault, SweepStarts
    <3> QED BY <3>2, <3>3, <3>4
  <2> QED BY <2>1, <2>2
<1>2. ASSUME NEW m \in Msgs, force'[m] = "tmark" PROVE seen'[m].cost = ClientRate
  <2>1. CASE force'[m] = force[m] /\ seen'[m] = seen[m]
    BY <1>2, <2>1 DEF PricedRows
  <2>2. ASSUME NEW n \in Msgs, ForceStep(n) \/ ForceFault(n) PROVE seen'[m].cost = ClientRate
    BY <1>2, <2>2 DEF ForceStep, ForceFault, ForceMark, ForceCount, ForcePay, TimerRead,
                      TimerMark, TimerCount, PricedRows, TypeOK, ForceTypes
  <2>3. ASSUME NEW n \in Msgs, SubmitStep(n) \/ SubmitFault(n)
        PROVE  force'[m] = force[m] /\ seen'[m] = seen[m]
    BY <1>2, <2>3 DEF SubmitStep, SubmitFault, Accept, Reject, Track, Insert, CountSubmit,
                      Register, ForceJob, TypeOK, ForceTypes
  <2>4. CASE Restart
    BY <1>2, <2>4 DEF Restart
  <2>5. ASSUME UNCHANGED forceVars PROVE force'[m] = force[m] /\ seen'[m] = seen[m]
    BY <2>5, SMTT(40)
  <2>6. \/ UNCHANGED forceVars \/ Restart
        \/ \E n \in Msgs : SubmitStep(n) \/ SubmitFault(n) \/ ForceStep(n) \/ ForceFault(n)
    BY ZenonT(40) DEF Next, Fault, SweepStarts, ChargeStep, ChargeCost, ChargeCounter,
        ChargeSupplier, ChargeFault,
           ForgetStale, ReceiptStep, LateMatch, RecoverRead, RecoverResume, GiveUp, UpdateStatus,
           ReadCost, Stamp, ReceiptFault, FireCallback, SweepStarts, SweepRead, SweepMisread,
               SweepTakes, SweepStep, SweepFault,
           SweepSkip, SweepFail, SweepDeliver, SweepCount, SweepPush, HydrateStep, HydrateRead,
           HydrateApply, OlderRow, vars, Arrive
  <2> QED BY <2>1, <2>2, <2>3, <2>4, <2>5, <2>6
<1>3. ASSUME NEW s \in Sweeps, sweep'[s].pc = "resolve" PROVE sweep'[s].cost = ClientRate
  <2>1. ASSUME NEW z \in Sweeps, NEW m \in Msgs, SweepStarts(z, m) PROVE sweep'[s].cost = ClientRate
    BY <1>3, <2>1 DEF SweepStarts, SweepRead, SweepMisread, SweepTakes, Waiting, PricedRows,
        TypeOK,
                      SweepTypes
  <2>2. ASSUME NEW z \in Sweeps, SweepStep(z) \/ SweepFault(z) PROVE sweep'[s].cost = ClientRate
    BY <1>3, <2>2, PassMoves DEF PricedRows
  <2>3. CASE Restart
    BY <1>3, <2>3 DEF Restart, NoSweep
  <2>4. CASE UNCHANGED sweep
    BY <1>3, <2>4 DEF PricedRows
  <2>5. \/ UNCHANGED sweep \/ Restart
        \/ \E z \in Sweeps : SweepStep(z) \/ SweepFault(z) \/ \E m \in Msgs : SweepStarts(z, m)
    BY ZenonT(40) DEF Next, Fault, SweepStarts, ChargeStep, ChargeCost, ChargeCounter,
        ChargeSupplier, ChargeFault,
           ForgetStale, ReceiptStep, LateMatch, RecoverRead, RecoverResume, GiveUp, UpdateStatus,
           ReadCost, Stamp, ReceiptFault, FireCallback, SubmitStep, SubmitFault, Accept, Reject,
           Track, Insert, CountSubmit, Register, ForceStep, ForceFault, ForceMark, ForceCount,
           ForcePay, TimerRead, TimerMark, TimerCount, HydrateStep, HydrateRead, HydrateApply,
               OlderRow,
           vars, Arrive
  <2> QED BY <2>1, <2>2, <2>3, <2>4, <2>5
<1>4. ASSUME NEW r \in Receipts, receipt'[r].pc = "stamp"
      PROVE  receipt'[r].rate = ClientRate /\ status'[receipt'[r].target] # "none"
  <2>1. \/ receipt'[r] = receipt[r]
        \/ /\ receipt[r].pc = "read" /\ receipt'[r].target = receipt[r].target
           /\ status[receipt[r].target] # "none" /\ receipt'[r].rate = cost[receipt[r].target]
    <3>1. ASSUME NEW q \in Receipts, ReadCost(q)
          PROVE  \/ receipt'[r] = receipt[r]
                 \/ /\ receipt[r].pc = "read" /\ receipt'[r].target = receipt[r].target
                    /\ status[receipt[r].target] # "none"
                    /\ receipt'[r].rate = cost[receipt[r].target]
      BY <1>4, <3>1 DEF ReadCost, TypeOK, ReceiptTypes, ReceiptType
    <3>2. ASSUME NEW q \in Receipts, ReceiptStep(q) \/ ReceiptFault(q), ~ReadCost(q)
          PROVE  receipt'[r] = receipt[r]
      <4>1. CASE LateMatch(q) \/ RecoverRead(q)
        <5>1. PICK pc \in {"update", "recovered"} :
                 \E x, token : receipt' = [receipt EXCEPT ![q] = Taken(pc, receipt[q].stat, x, token)]
          BY <4>1 DEF LateMatch, RecoverRead
        <5>2. \A s, x, token : Taken(pc, s, x, token).pc = pc
          BY DEF Taken, Idle
        <5> QED BY <1>4, <5>1, <5>2 DEF TypeOK, ReceiptTypes
      <4>2. CASE RecoverResume(q) \/ UpdateStatus(q)
        BY <1>4, <4>2 DEF RecoverResume, UpdateStatus, TypeOK, ReceiptTypes, ReceiptType
      <4>3. CASE Stamp(q) \/ ReceiptFault(q)
        BY <1>4, <4>3 DEF Stamp, ReceiptFault, Closed, Idle, TypeOK, ReceiptTypes, ReceiptType
      <4>4. CASE GiveUp(q) \/ FireCallback(q)
        BY <1>4, <4>4 DEF GiveUp, FireCallback, Closed, Idle, TypeOK, ReceiptTypes
      <4> QED BY <3>2, <4>1, <4>2, <4>3, <4>4 DEF ReceiptStep
    <3>3. ASSUME NEW q \in Receipts, NEW n \in Msgs, NEW s \in Stats, NEW known \in BOOLEAN,
             NEW addressed \in Addressings, Arrive(q, n, s, known, addressed)
          PROVE  receipt'[r] = receipt[r]
      <4>1. \/ \E x \in Msgs : receipt' = [receipt EXCEPT ![q] = Taken("update", s, x, pending[x])]
            \/ receipt' = [receipt EXCEPT ![q] = [Idle EXCEPT !.pc = "waiting", !.of = n,
                               !.stat = s, !.known = known, !.addressed = addressed]]
        BY <3>3 DEF Arrive, Candidates
      <4> QED BY <1>4, <4>1 DEF Taken, Idle, TypeOK, ReceiptTypes
    <3>4. CASE Restart
      BY <1>4, <3>4 DEF Restart, Closed, Idle
    <3> QED BY <3>1, <3>2, <3>3, <3>4, ReceiptMoves
  <2>2. receipt[r].pc \in {"read", "stamp"} => receipt[r].target \in Msgs
    BY DEF TypeOK, ReceiptTypes, Matched
  <2>3. CASE receipt'[r] = receipt[r]
    BY <1>0, <1>4, <2>2, <2>3, CostKept DEF PricedRows
  <2>4. CASE receipt'[r] # receipt[r]
    BY <1>0, <2>1, <2>2, <2>4, CostKept DEF PricedRows
  <2> QED BY <2>3, <2>4
<1> QED BY <1>0, <1>1, <1>2, <1>3, <1>4

\* The rows of a client charged at submit show its rate in every reachable state.
LEMMA PricedHolds == Spec => []PricedRows
<1>1. Init => PricedRows
  BY DEF Init, PricedRows, Idle, NoSweep
<1>2. TypeOK /\ Untouched /\ PricedRows /\ [Next]_vars => PricedRows'
  BY PricedStep
<1> QED BY <1>1, <1>2, TypeCorrect, UntouchedHolds, PTL DEF Spec

\* Wherever the tenant's counter was charged for a message, by whichever of the five
\* handlers that count, its row shows the client's rate and keeps it, unless a pass whose
\* lookup of the client's mode failed delivered it.
THEOREM BilledRowPricedHolds == Spec => []BilledRowPriced
<1>1. Init => OwedPriced
  BY DEF Init, OwedPriced, Owed, NoCharge, NoSweep
<1>2. TypeOK /\ Untouched /\ PricedRows /\ OwedPriced /\ [Next]_vars => OwedPriced'
  BY OwedStep
<1>3. OwedPriced => BilledRowPriced
  BY DEF OwedPriced, Owed, BilledRowPriced
<1> QED BY <1>1, <1>2, <1>3, TypeCorrect, UntouchedHolds, PricedHolds, PTL DEF Spec

\* Every statement that touches a cost column of such a row writes the profit that goes
\* with it, and the profit a delivery stamps is computed on the rate the row still has.
LEMMA ProfitStep ==
    ASSUME TypeOK, Untouched, PricedRows, ProfitConsistent, [Next]_vars
    PROVE  ProfitConsistent'
<1> USE DEF modeVars, rowVars, trackVars, forceVars, sweepVars, historyVars, processVars
<1> SUFFICES ASSUME IsSubmitCharged(clientMode), NEW n \in Msgs, submit'[n] # "failed"
             PROVE  profit'[n] = cost'[n] - supplierCost'[n]
  BY ModesStay DEF ProfitConsistent, IsSubmitCharged
<1> DEFINE Fits == profit'[n] = cost'[n] - supplierCost'[n]
<1>1. ASSUME submit[n] # "failed", UNCHANGED <<cost, supplierCost, profit>> PROVE Fits
  BY <1>1 DEF ProfitConsistent
<1>2. ASSUME NEW m \in Msgs, SubmitStep(m) \/ SubmitFault(m) PROVE Fits
  <2>1. submit[n] # "failed"
    BY <1>2 DEF SubmitStep, SubmitFault, Accept, Reject, Track, Insert, CountSubmit, Register,
                TypeOK, SubmitTypes
  <2>2. CASE Insert(m)
    BY <2>1, <2>2 DEF Insert, ProfitConsistent, TypeOK, RowTypes
  <2>3. CASE Reject(m)
    BY <2>1, <2>3 DEF Reject, ProfitConsistent, TypeOK, RowTypes, SubmitTypes
  <2>4. CASE Accept(m) \/ Track(m) \/ CountSubmit(m) \/ Register(m) \/ SubmitFault(m)
    BY <1>1, <2>1, <2>4 DEF SubmitFault, Accept, Track, CountSubmit, Register
  <2> QED BY <1>2, <2>2, <2>3, <2>4 DEF SubmitStep
<1>3. ASSUME NEW m \in Msgs, ChargeStep(m) \/ ChargeFault(m) \/ ForgetStale(m) PROVE Fits
  <2>1. submit[n] # "failed"
    BY <1>3 DEF ChargeStep, ChargeCost, ChargeCounter, ChargeSupplier, ChargeFault, ForgetStale
  <2>2. CASE ChargeCost(m)
    BY <2>1, <2>2 DEF ChargeCost, ProfitConsistent, TypeOK, RowTypes
  <2>3. CASE ChargeSupplier(m)
    BY <2>1, <2>3 DEF ChargeSupplier, ProfitConsistent, TypeOK, RowTypes
  <2>4. CASE ~ChargeCost(m) /\ ~ChargeSupplier(m)
    BY <1>1, <1>3, <2>1, <2>4 DEF ChargeStep, ChargeCounter, ChargeFault, ForgetStale
  <2> QED BY <2>2, <2>3, <2>4
<1>4. ASSUME NEW m \in Msgs, ForceStep(m) \/ ForceFault(m) PROVE Fits
  <2>1. submit[n] # "failed"
    BY <1>4 DEF ForceStep, ForceFault, ForceMark, ForceCount, ForcePay, TimerRead, TimerMark,
                TimerCount
  <2>2. CASE ForceMark(m)
    BY <2>1, <2>2 DEF ForceMark, ProfitConsistent, TypeOK, RowTypes
  <2>3. CASE ForcePay(m)
    BY <2>1, <2>3 DEF ForcePay, ProfitConsistent, TypeOK, RowTypes
  <2>4. CASE TimerMark(m)
    BY <2>1, <2>4 DEF TimerMark, ProfitConsistent, TypeOK, RowTypes
  <2>5. CASE ~ForceMark(m) /\ ~ForcePay(m) /\ ~TimerMark(m)
    BY <1>1, <1>4, <2>1, <2>5 DEF ForceStep, ForceFault, ForceCount, TimerRead, TimerCount
  <2> QED BY <2>2, <2>3, <2>4, <2>5
<1>5. ASSUME NEW r \in Receipts, ReceiptStep(r) \/ ReceiptFault(r) PROVE Fits
  <2>1. submit[n] # "failed"
    BY <1>5 DEF ReceiptStep, LateMatch, RecoverRead, RecoverResume, GiveUp, UpdateStatus,
                ReadCost, Stamp, ReceiptFault, FireCallback
  <2>2. CASE Stamp(r)
    <3>1. /\ receipt[r].target \in Msgs /\ receipt[r].rate = ClientRate
          /\ cost[receipt[r].target] = ClientRate
      BY <2>2 DEF Stamp, PricedRows, TypeOK, ReceiptTypes, Matched
    <3> QED BY <2>1, <2>2, <3>1 DEF Stamp, StampedProfit, ProfitConsistent, TypeOK, RowTypes
  <2>3. CASE ~Stamp(r)
    BY <1>1, <1>5, <2>1, <2>3 DEF ReceiptStep, LateMatch, RecoverRead, RecoverResume, GiveUp,
       UpdateStatus, ReadCost, ReceiptFault, FireCallback
  <2> QED BY <2>2, <2>3
<1>6. ASSUME NEW s \in Sweeps, \/ SweepStep(s) \/ SweepFault(s)
                               \/ \E m \in Msgs : SweepStarts(s, m)
      PROVE  Fits
  <2>1. submit[n] # "failed"
    BY <1>6 DEF SweepStep, SweepFault, SweepStarts, SweepRead, SweepMisread, SweepTakes,
        SweepSkip, SweepFail, SweepDeliver, SweepCount,
                SweepPush
  <2>2. CASE SweepDeliver(s)
    BY <2>1, <2>2 DEF SweepDeliver, ProfitConsistent, TypeOK, RowTypes
  <2>3. CASE ~SweepDeliver(s)
    BY <1>1, <1>6, <2>1, <2>3 DEF SweepStep, SweepFault, SweepStarts, SweepRead, SweepMisread,
        SweepTakes, SweepSkip, SweepFail,
                                  SweepCount, SweepPush
  <2> QED BY <2>2, <2>3
<1>7. CASE Restart
  <2>1. submit[n] # "failed"
    BY <1>7 DEF Restart
  <2> QED BY <1>1, <1>7, <2>1 DEF Restart
<1>8. CASE \/ HydrateStep \/ OlderRow \/ UNCHANGED vars
           \/ \E r \in Receipts, m \in Msgs, s \in Stats, known \in BOOLEAN,
                 addressed \in Addressings : Arrive(r, m, s, known, addressed)
  BY <1>1, <1>8, ZenonT(40) DEF HydrateStep, HydrateRead, HydrateApply, OlderRow, vars, Arrive
<1> QED BY <1>2, <1>3, <1>4, <1>5, <1>6, <1>7, <1>8 DEF Next, Fault, SweepStarts

\* For a client charged at submit the profit of a row is the difference of its costs after
\* every statement of every handler.
THEOREM ProfitConsistentHolds == Spec => []ProfitConsistent
<1>1. Init => ProfitConsistent
  BY DEF Init, ProfitConsistent
<1>2. TypeOK /\ Untouched /\ PricedRows /\ ProfitConsistent /\ [Next]_vars => ProfitConsistent'
  BY ProfitStep
<1> QED BY <1>1, <1>2, TypeCorrect, UntouchedHolds, PricedHolds, PTL DEF Spec

-----------------------------------------------------------------------------
(* Deliveries.  matchDelivery falls back to the number, and to any message at all when a *)
(* receipt has none: what a receipt is taken for is one of the messages it names.       *)

\* A delivery a handler works on was reported for the message the handler works for, or
\* for every message the receipt may still be taken for; only a DELIVRD one is priced.
Told ==
    \A r \in Receipts :
        /\ receipt[r].stat = "DELIVRD" =>
              /\ receipt[r].pc \in Matched => receipt[r].target \in reported
              /\ receipt[r].pc = "waiting" =>
                    Named(receipt[r].of, receipt[r].addressed) \subseteq reported
        /\ receipt[r].pc \in {"read", "stamp"} => receipt[r].stat = "DELIVRD"

\* A receipt is only taken for a message it names.
LEMMA CandidatesNamed ==
    ASSUME NEW m \in Msgs, NEW known, NEW addressed, NEW n \in Candidates(m, known, addressed)
    PROVE  n \in Named(m, addressed)
  BY DEF Candidates, Named

\* What a receipt reports does not change on its way to the callback.
LEMMA ReceiptsKeep ==
    ASSUME TypeOK, Told, [Next]_vars
    PROVE  Told'
<1> DEFINE Keeps(r) ==
        /\ receipt'[r].stat = "DELIVRD" =>
              /\ receipt'[r].pc \in Matched => receipt'[r].target \in reported'
              /\ receipt'[r].pc = "waiting" =>
                    Named(receipt'[r].of, receipt'[r].addressed) \subseteq reported'
        /\ receipt'[r].pc \in {"read", "stamp"} => receipt'[r].stat = "DELIVRD"
<1>1. reported \subseteq Msgs /\ \A m \in Msgs : m \in reported => m \in reported'
  BY HistoryGrows DEF TypeOK, SweepTypes
<1>2. SUFFICES ASSUME NEW r \in Receipts PROVE Keeps(r)
  BY DEF Told, Named
<1>3. CASE receipt'[r] = receipt[r]
  BY <1>1, <1>3 DEF Told
<1>4. CASE receipt'[r] = Closed
  BY <1>4 DEF Closed, Idle, Matched
<1>5. CASE Restart
  BY <1>3, <1>4, <1>5 DEF Restart
<1>6. ASSUME NEW q \in Receipts, NEW m \in Msgs, NEW s \in Stats, NEW known \in BOOLEAN,
             NEW addressed \in Addressings, Arrive(q, m, s, known, addressed)
      PROVE  Keeps(r)
  <2>1. CASE q # r
    BY <1>3, <1>6, <2>1 DEF Arrive, TypeOK, ReceiptTypes
  <2>2. CASE q = r
    <3>1. s = "DELIVRD" => Named(m, addressed) \subseteq reported'
      BY <1>6 DEF Arrive
    <3>2. CASE receipt' = [receipt EXCEPT ![r] = [Idle EXCEPT !.pc = "waiting", !.of = m,
                               !.stat = s, !.known = known, !.addressed = addressed]]
      BY <3>1, <3>2 DEF Idle, Matched, TypeOK, ReceiptTypes
    <3>3. ASSUME NEW n \in Candidates(m, known, addressed),
                 receipt' = [receipt EXCEPT ![r] = Taken("update", s, n, pending[n])]
          PROVE  Keeps(r)
      <4>1. n \in Named(m, addressed)
        BY CandidatesNamed
      <4> QED BY <3>1, <3>3, <4>1 DEF Taken, Idle, Matched, TypeOK, ReceiptTypes
    <3> QED BY <1>6, <2>2, <3>2, <3>3 DEF Arrive
  <2> QED BY <2>1, <2>2
<1>7. ASSUME NEW q \in Receipts, ReceiptStep(q) \/ ReceiptFault(q) PROVE Keeps(r)
  <2>1. CASE q # r
    <3>1. receipt'[r] = receipt[r]
      BY <1>7, <2>1 DEF ReceiptStep, LateMatch, RecoverRead, RecoverResume, GiveUp,
                        UpdateStatus, ReadCost, Stamp, ReceiptFault, FireCallback, TypeOK, ReceiptTypes
    <3> QED BY <1>3, <3>1
  <2>2. CASE q = r /\ (LateMatch(r) \/ RecoverRead(r))
    <3>1. receipt[r].pc = "waiting" /\ receipt[r].of \in Msgs
      BY <2>2 DEF LateMatch, RecoverRead, TypeOK, ReceiptTypes
    <3>2. receipt[r].of \in Named(receipt[r].of, receipt[r].addressed)
      BY <3>1 DEF Named
    <3>3. PICK pc \in {"update", "recovered"}, n \in Named(receipt[r].of, receipt[r].addressed),
               token \in Token : receipt' = [receipt EXCEPT ![r] = Taken(pc, receipt[r].stat, n, token)]
      <4>1. CASE LateMatch(r)
        BY <3>1, <4>1, CandidatesNamed DEF LateMatch, Candidates, TypeOK, SubmitTypes
      <4>2. CASE RecoverRead(r)
        BY <3>2, <4>2 DEF RecoverRead, Token
      <4> QED BY <2>2, <4>1, <4>2
    <3>4. /\ receipt'[r].pc = pc /\ receipt'[r].stat = receipt[r].stat
          /\ receipt'[r].target = n
      BY <3>3 DEF Taken, Idle, TypeOK, ReceiptTypes
    <3>5. receipt[r].stat = "DELIVRD" => n \in reported'
      BY <1>1, <3>1, <3>3 DEF Told
    <3> QED BY <3>4, <3>5 DEF Matched
  <2>3. CASE q = r /\ RecoverResume(r)
    BY <1>1, <2>3 DEF RecoverResume, Matched, Told, TypeOK, ReceiptTypes, ReceiptType
  <2>4. CASE q = r /\ UpdateStatus(r)
    <3>1. DlrStatusOf(receipt[r].stat) = "DELIVERED" => receipt[r].stat = "DELIVRD"
      BY DEF DlrStatusOf, TypeOK, ReceiptTypes, ReceiptType, Stat
    <3>2. PICK pc \in {"read", "callback"} :
              /\ receipt[r].pc = "update" /\ receipt' = [receipt EXCEPT ![r].pc = pc]
              /\ pc = "read" => receipt[r].stat = "DELIVRD"
      BY <2>4, <3>1 DEF UpdateStatus
    <3>3. receipt[r] \in ReceiptType /\ DOMAIN receipt = Receipts
      BY DEF TypeOK, ReceiptTypes
    <3> QED BY <1>1, <3>2, <3>3 DEF Matched, Told, ReceiptType
  <2>5. CASE q = r /\ (ReadCost(r) \/ Stamp(r) \/ ReceiptFault(r))
    <3>1. receipt[r] \in ReceiptType /\ DOMAIN receipt = Receipts
      BY DEF TypeOK, ReceiptTypes
    <3>2. \/ receipt'[r] = Closed
          \/ /\ receipt[r].pc \in {"update", "read", "stamp"}
             /\ receipt'[r].pc = "callback" \/ (receipt[r].pc = "read" /\ receipt'[r].pc = "stamp")
             /\ receipt'[r].stat = receipt[r].stat
             /\ receipt'[r].target = receipt[r].target
      <4>1. CASE ReadCost(r)
        BY <3>1, <4>1 DEF ReadCost, ReceiptType
      <4>2. CASE Stamp(r)
        BY <3>1, <4>2 DEF Stamp, ReceiptType
      <4>3. CASE ReceiptFault(r)
        BY <3>1, <4>3 DEF ReceiptFault, ReceiptType
      <4> QED BY <2>5, <4>1, <4>2, <4>3
    <3> QED BY <1>1, <1>4, <3>2 DEF Matched, Told
  <2>6. CASE q = r /\ (GiveUp(r) \/ FireCallback(r))
    <3>1. receipt'[r] = Closed
      BY <2>6 DEF GiveUp, FireCallback, TypeOK, ReceiptTypes
    <3> QED BY <1>4, <3>1
  <2> QED BY <1>7, <2>1, <2>2, <2>3, <2>4, <2>5, <2>6 DEF ReceiptStep
<1> QED BY <1>3, <1>5, <1>6, <1>7, ReceiptMoves

\* A callback is fired for a message whose delivery was reported.
LEMMA CallbackReported ==
    ASSUME Told, NEW r \in Receipts, FireCallback(r), receipt[r].stat = "DELIVRD"
    PROVE  receipt[r].target \in reported
  BY DEF FireCallback, Told, Matched

\* A supplier charged on delivery is owed, or has been read to be owed, nothing else.
SupplierPaid ==
    IsDlrCharged(supplierMode) =>
        /\ \A m \in Msgs :
              /\ supplierCost[m] > 0 \/ charge[m].supplier > 0 \/ seen[m].supplierCost > 0 =>
                     m \in reported
              /\ force[m] # "pay"
        /\ \A s \in Sweeps : sweep[s].pc = "resolve" /\ sweep[s].supplierCost > 0 =>
              sweep[s].msg \in reported

\* Every step keeps it: the supplier's charge task is started by a DELIVRD receipt of the
\* message, and what forces an outcome writes back what it read.
LEMMA SupplierStep ==
    ASSUME TypeOK, Told, SupplierPaid, [Next]_vars
    PROVE  SupplierPaid'
<1> USE DEF modeVars, rowVars, trackVars, forceVars, sweepVars, historyVars, processVars
<1>0. \A m \in Msgs : m \in reported => m \in reported'
  BY HistoryGrows
<1> DEFINE Paid(m) == /\ (supplierCost'[m] > 0 \/ charge'[m].supplier > 0
                          \/ seen'[m].supplierCost > 0) => m \in reported
                      /\ force'[m] # "pay"
           Read(s) == sweep'[s].pc = "resolve" /\ sweep'[s].supplierCost > 0 =>
                          sweep'[s].msg \in reported
           Fine == (\A m \in Msgs : Paid(m)) /\ (\A s \in Sweeps : Read(s))
<1> SUFFICES ASSUME IsDlrCharged(supplierMode) PROVE Fine
  <2>1. UNCHANGED supplierMode
    BY ModesStay
  <2>2. \A s \in Sweeps : sweep'[s].pc = "resolve" => sweep'[s].msg \in Msgs
    BY TypeStep DEF TypeOK, SweepTypes
  <2>3. ASSUME Fine PROVE SupplierPaid'
    <3>1. \A s \in Sweeps : (sweep[s].pc = "resolve" /\ sweep[s].supplierCost > 0 =>
                                  sweep[s].msg \in reported)'
      BY <1>0, <2>2, <2>3
    <3>2. \A m \in Msgs :
             /\ (supplierCost[m] > 0 \/ charge[m].supplier > 0 \/ seen[m].supplierCost > 0 =>
                    m \in reported)'
             /\ (force[m] # "pay")'
      BY <1>0, <2>3
    <3> QED BY <3>1, <3>2 DEF SupplierPaid
  <2> QED BY <2>1, <2>3 DEF SupplierPaid, IsDlrCharged
<1>1. ~IsForce(supplierMode) /\ SubmitSupplierCost = 0
  BY DEF IsDlrCharged, IsForce, SubmitSupplierCost
<1>2. ASSUME UNCHANGED <<supplierCost, charge, seen, force, sweep>> PROVE Fine
  BY <1>2 DEF SupplierPaid
<1>3. ASSUME NEW m \in Msgs, SubmitStep(m) \/ SubmitFault(m) PROVE Fine
  <2>1. CASE Insert(m)
    BY <1>1, <2>1 DEF Insert, SupplierPaid, TypeOK, RowTypes
  <2>2. CASE Register(m)
    BY <2>2 DEF Register, ForceJob, SupplierPaid, TypeOK, ForceTypes
  <2>3. CASE ~Insert(m) /\ ~Register(m)
    BY <1>2, <1>3, <2>3 DEF SubmitStep, SubmitFault, Accept, Reject, Track, CountSubmit
  <2> QED BY <2>1, <2>2, <2>3
<1>4. ASSUME NEW m \in Msgs, ChargeStep(m) \/ ChargeFault(m) \/ ForgetStale(m) PROVE Fine
  <2>1. CASE ChargeCost(m)
    <3>1. charge[m] \in Tasks /\ RowPriced(charge[m]).supplier = charge[m].supplier
      BY DEF RowPriced, TypeOK, ChargeTypes, Tasks
    <3>2. \A n \in Msgs : charge'[n].supplier = charge[n].supplier
      BY <2>1, <3>1 DEF ChargeCost, TypeOK, ChargeTypes
    <3> QED BY <1>1, <2>1, <3>2 DEF ChargeCost, SupplierPaid, TypeOK, RowTypes
  <2>2. CASE ChargeCounter(m)
    <3>1. \A n \in Msgs : charge'[n].supplier = charge[n].supplier
      BY <2>2 DEF ChargeCounter, TypeOK, ChargeTypes, Tasks
    <3> QED BY <2>2, <3>1 DEF ChargeCounter, SupplierPaid
  <2>3. CASE ChargeSupplier(m)
    <3>1. m \in reported
      BY <2>3 DEF ChargeSupplier, SupplierPaid
    <3>2. \A n \in Msgs : n # m => supplierCost'[n] = supplierCost[n] /\ charge'[n] = charge[n]
      BY <2>3 DEF ChargeSupplier, TypeOK, RowTypes, ChargeTypes
    <3>3. UNCHANGED <<seen, force, sweep>>
      BY <2>3 DEF ChargeSupplier
    <3> QED BY <3>1, <3>2, <3>3 DEF SupplierPaid
  <2>4. CASE ChargeFault(m)
    <3>1. \A n \in Msgs : charge'[n].supplier > 0 => charge[n].supplier > 0
      BY <2>4 DEF ChargeFault, TypeOK, ChargeTypes, Tasks
    <3> QED BY <2>4, <3>1 DEF ChargeFault, SupplierPaid
  <2>5. CASE ForgetStale(m)
    BY <1>2, <2>5 DEF ForgetStale
  <2> QED BY <1>4, <2>1, <2>2, <2>3, <2>4, <2>5 DEF ChargeStep
<1>5. ASSUME NEW m \in Msgs, ForceStep(m) \/ ForceFault(m) PROVE Fine
  <2>1. CASE ForceMark(m)
    BY <1>1, <2>1 DEF ForceMark, SupplierPaid, TypeOK, RowTypes, ForceTypes
  <2>2. CASE TimerRead(m)
    BY <2>2 DEF TimerRead, SupplierPaid, TypeOK, ForceTypes
  <2>3. CASE TimerMark(m)
    <3>1. TimeoutSupplierCost(supplierMode, seen[m]) = seen[m].supplierCost
      BY <1>1 DEF TimeoutSupplierCost
    <3> QED BY <2>3, <3>1 DEF TimerMark, Unread, SupplierPaid, TypeOK, RowTypes, ForceTypes
  <2>4. CASE ForcePay(m)
    BY <2>4 DEF ForcePay, SupplierPaid
  <2>5. CASE ForceCount(m) \/ TimerCount(m) \/ ForceFault(m)
    BY <1>1, <2>5 DEF ForceCount, TimerCount, ForceFault, SupplierPaid, TypeOK, ForceTypes
  <2> QED BY <1>5, <2>1, <2>2, <2>3, <2>4, <2>5 DEF ForceStep
<1>6. ASSUME NEW r \in Receipts, ReceiptStep(r) \/ ReceiptFault(r) PROVE Fine
  <2>1. CASE Stamp(r)
    <3>1. receipt[r].target \in Msgs /\ receipt[r].target \in reported
      BY <2>1 DEF Stamp, Told, Matched, TypeOK, ReceiptTypes
    <3> QED BY <2>1, <3>1 DEF Stamp, SupplierPaid, TypeOK, RowTypes
  <2>2. CASE FireCallback(r)
    <3> DEFINE t == receipt[r].target
    <3>1. t \in Msgs
      BY <2>2 DEF FireCallback, Matched, TypeOK, ReceiptTypes
    <3>2. \A n \in Msgs : n # t => charge'[n] = charge[n]
      BY <2>2 DEF FireCallback, TypeOK, ChargeTypes
    <3>3. charge'[t] = charge[t] \/ charge'[t] = WithTasks(charge[t], receipt[r].stat)
      BY <2>2, <3>1 DEF FireCallback, TypeOK, ChargeTypes
    <3>4. receipt[r].stat = "DELIVRD" => t \in reported
      BY <2>2, CallbackReported
    <3>5. charge'[t].supplier > 0 => charge[t].supplier > 0 \/ t \in reported
      BY <3>1, <3>3, <3>4, WithTasksCounts DEF ChargesSupplier, TypeOK, ChargeTypes
    <3>6. UNCHANGED <<supplierCost, seen, force, sweep>>
      BY <2>2, SMTT(40) DEF FireCallback
    <3> HIDE DEF t
    <3> QED BY <3>1, <3>2, <3>5, <3>6 DEF SupplierPaid
  <2>3. CASE ~Stamp(r) /\ ~FireCallback(r)
    BY <1>2, <1>6, <2>3 DEF ReceiptStep, LateMatch, RecoverRead, RecoverResume, GiveUp,
                            UpdateStatus, ReadCost, ReceiptFault
  <2> QED BY <2>1, <2>2, <2>3
<1>7. ASSUME NEW s \in Sweeps, NEW m \in Msgs, SweepStarts(s, m) PROVE Fine
  BY <1>7 DEF SweepStarts, SweepRead, SweepMisread, SweepTakes, SupplierPaid, TypeOK, SweepTypes
<1>8. ASSUME NEW s \in Sweeps, SweepStep(s) \/ SweepFault(s) PROVE Fine
  <2>1. \A z \in Sweeps : sweep'[z].pc = "resolve" => sweep'[z] = sweep[z]
    BY <1>8, PassMoves
  <2>2. CASE SweepDeliver(s)
    <3>1. TimeoutSupplierCost(sweep[s].supplier,
             [cost |-> sweep[s].cost, supplierCost |-> sweep[s].supplierCost]) = sweep[s].supplierCost
      <4>1. ~IsForce(sweep[s].supplier)
        BY <1>1, <2>2 DEF SweepDeliver, IsForce, TypeOK, SweepTypes
      <4> QED BY <4>1 DEF TimeoutSupplierCost
    <3> QED BY <2>1, <2>2, <3>1 DEF SweepDeliver, SupplierPaid, TypeOK, RowTypes
  <2>3. CASE ~SweepDeliver(s)
    BY <1>8, <2>1, <2>3 DEF SweepStep, SweepFault, SweepSkip, SweepFail, SweepCount, SweepPush,
                            SupplierPaid
  <2> QED BY <2>2, <2>3
<1>9. CASE Restart
  BY <1>9 DEF Restart, NoCharge, NoSweep, Unread, SupplierPaid
<1>10. CASE \/ HydrateStep \/ OlderRow \/ UNCHANGED vars
            \/ \E r \in Receipts, m \in Msgs, s \in Stats, known \in BOOLEAN,
                 addressed \in Addressings : Arrive(r, m, s, known, addressed)
  BY <1>2, <1>10, ZenonT(40) DEF HydrateStep, HydrateRead, HydrateApply, OlderRow, vars, Arrive
<1> QED BY <1>3, <1>4, <1>5, <1>6, <1>7, <1>8, <1>9, <1>10 DEF Next, Fault, SweepStarts

\* What reached a handler as a delivery was reported as one in every reachable state.
LEMMA ToldHolds == Spec => []Told
<1>1. Init => Told
  BY DEF Init, Told, Idle, Matched
<1>2. TypeOK /\ Told /\ [Next]_vars => Told'
  BY ReceiptsKeep
<1> QED BY <1>1, <1>2, TypeCorrect, PTL DEF Spec

\* An on_dlr supplier costs nothing for a message before a DELIVRD receipt that has its id
\* or its number, or none, whatever outcome the client's mode forces.
THEOREM MarginIsolationHolds == Spec => []MarginIsolation
<1>1. Init => SupplierPaid
  BY DEF Init, SupplierPaid, NoCharge, NoSweep, Unread
<1>2. TypeOK /\ Told /\ SupplierPaid /\ [Next]_vars => SupplierPaid'
  BY SupplierStep
<1>3. SupplierPaid => MarginIsolation
  BY DEF SupplierPaid, MarginIsolation
<1> QED BY <1>1, <1>2, <1>3, TypeCorrect, ToldHolds, PTL DEF Spec

\* The client's side of it: nothing but the callback starts a charge.
ClientPaid ==
    IsDlrCharged(clientMode) /\ ~IsForce(supplierMode) =>
        \A m \in Msgs : charge[m].cost > 0 \/ charge[m].counter > 0 \/ counted[m] > 0 =>
            m \in reported

\* Every step keeps it: ReceiptBilling leaves no other handler a count to make.
LEMMA ClientStep ==
    ASSUME TypeOK, Told, ReceiptBilling, ClientPaid, [Next]_vars
    PROVE  ClientPaid'
<1> USE DEF modeVars, rowVars, trackVars, forceVars, sweepVars, historyVars, processVars
<1>0. \A m \in Msgs : m \in reported => m \in reported'
  BY HistoryGrows
<1> SUFFICES ASSUME IsDlrCharged(clientMode) /\ ~IsForce(supplierMode), NEW n \in Msgs,
                    charge'[n].cost > 0 \/ charge'[n].counter > 0 \/ counted'[n] > 0
             PROVE  n \in reported
  BY <1>0, ModesStay DEF ClientPaid, IsDlrCharged, IsForce
<1> DEFINE Paid == charge[n].cost > 0 \/ charge[n].counter > 0 \/ counted[n] > 0
<1>1. /\ Paid => n \in reported
      /\ \A m \in Msgs : submit[m] # "inserted" /\ force[m] = "none"
      /\ \A s \in Sweeps : sweep[s].pc # "count"
  BY DEF ClientPaid, ReceiptBilling
<1>2. ASSUME UNCHANGED <<charge, counted>> PROVE Paid
  BY <1>2
<1>3. ASSUME NEW m \in Msgs, Touches(m) PROVE Paid
  <2>1. CASE ChargeCost(m) \/ ChargeCounter(m)
    BY <2>1 DEF ChargeCost, ChargeCounter, RowPriced, TypeOK, RowTypes, ChargeTypes, Tasks
  <2>2. CASE ChargeSupplier(m)
    BY <2>2 DEF ChargeSupplier, TypeOK, ChargeTypes, Tasks
  <2>3. CASE ChargeFault(m)
    BY <2>3 DEF ChargeFault, TypeOK, ChargeTypes, Tasks
  <2>4. CASE ~ChargeCost(m) /\ ~ChargeCounter(m) /\ ~ChargeSupplier(m) /\ ~ChargeFault(m)
    BY <1>1, <1>2, <1>3, <2>4 DEF Touches, SubmitStep, SubmitFault, Accept, Reject, Track,
       Insert, CountSubmit, Register, ForceStep, ForceFault, ForceMark, ForceCount, ForcePay,
       TimerRead, TimerMark, TimerCount, ForgetStale
  <2> QED BY <2>1, <2>2, <2>3, <2>4
<1>4. ASSUME NEW r \in Receipts, FireCallback(r) PROVE Paid \/ n \in reported
  <2>1. \/ charge'[n] = charge[n]
        \/ n = receipt[r].target /\ charge'[n] = WithTasks(charge[n], receipt[r].stat)
    BY <1>4 DEF FireCallback, TypeOK, ChargeTypes
  <2>2. counted' = counted
    BY <1>4 DEF FireCallback
  <2>3. receipt[r].stat = "DELIVRD" => receipt[r].target \in reported
    BY <1>4, CallbackReported
  <2>4. charge[n] \in Tasks
    BY DEF TypeOK, ChargeTypes
  <2> QED BY <2>1, <2>2, <2>3, <2>4, WithTasksCounts DEF ChargesClient
<1>5. ASSUME NEW s \in Sweeps, \/ SweepStep(s) \/ SweepFault(s)
                               \/ \E m \in Msgs : SweepStarts(s, m)
      PROVE  Paid
  BY <1>1, <1>2, <1>5 DEF SweepStep, SweepFault, SweepStarts, SweepRead, SweepMisread,
      SweepTakes, SweepSkip, SweepFail, SweepDeliver,
                          SweepCount, SweepPush
<1>6. CASE Restart
  BY <1>1, <1>6 DEF Restart, NoCharge
<1>7. CASE UNCHANGED billing \/ UNCHANGED vars
  BY <1>1, <1>2, <1>7 DEF billing, vars
<1> QED BY <1>1, <1>3, <1>4, <1>5, <1>6, <1>7, QuietSteps

\* An on_dlr client is counted for a message only after a DELIVRD receipt that has its id or
\* its number, or none, unless the supplier's mode forces the outcome.
THEOREM NoChargeWithoutDeliveryHolds == Spec => []NoChargeWithoutDelivery
<1>1. Init => ClientPaid
  BY DEF Init, ClientPaid, NoCharge
<1>2. TypeOK /\ Told /\ ReceiptBilling /\ ClientPaid /\ [Next]_vars => ClientPaid'
  BY ClientStep
<1>3. ClientPaid => NoChargeWithoutDelivery
  BY DEF ClientPaid, NoChargeWithoutDelivery
<1> QED BY <1>1, <1>2, <1>3, TypeCorrect, ToldHolds, ReceiptBillingHolds, PTL DEF Spec

=============================================================================
