------------------------ MODULE AndroidGatewayProofs ------------------------
(***************************************************************************)
(* For any number of messages, flushes, receipts, restarts and failing     *)
(* statements: a queued message is in one place (server-mt-queue.ts), a    *)
(* side of the phone that is charged on delivery pays for nothing but a    *)
(* delivery the phone reported, and a client charged on submission pays    *)
(* once, and not for a message that failed in the queue (smpp-server.ts).  *)
(***************************************************************************)
EXTENDS AndroidGateway, QueueFacts

Statuses == {"none", "QUEUED", "SENT", "DELIVERED", "FAILED"}

\* What the billing of a message rests on.  The entries of the queue are left open:
\* none of the steps that charge tells one from another.
BillingTypes ==
    /\ status \in [Msgs -> Statuses]
    /\ cost \in [Msgs -> {0, 1}] /\ supplierCost \in [Msgs -> {0, 1}]
    /\ counted \in [Msgs -> Nat]
    /\ charge \in [Msgs -> [cost : Nat, blank : Nat, counter : Nat, supplier : Nat]]
    /\ callback \in [Msgs -> BOOLEAN]

\* A receipt names its message and keeps its state; one that has not come names none.
ReceiptTypes ==
    /\ receipt \in [Receipts ->
          [pc : {"idle", "grace", "recover", "forget", "select", "count", "write", "done"},
           msg : Msgs \cup {NoMsg}, stat : {"DELIVRD", "UNDELIV"},
           cost : {0, 1}, supplierCost : {0, 1}]]
    /\ \A r \in Receipts : receipt[r].pc = "idle" <=> receipt[r].msg = NoMsg

\* A flush counts its item, or will when it is taken, as far as it has read the modes.
WillCount(f) ==
    \/ flush[f].pc = "count"
    \/ flush[f].pc \in {"wait", "update"} /\ ~IsDlrCharged(ReadClient(billing[f]))

\* A handler or a flush is about to count only for a client charged on submission,
\* or for a message the flush sent blindly.
CountsOnSubmit ==
    /\ DOMAIN submit = Msgs /\ DOMAIN flush = Flushes /\ DOMAIN billing = Flushes
    /\ \A f \in Flushes : DOMAIN flush[f] = {"pc", "items"}
    /\ IsDlrCharged(clientMode) =>
          /\ \A m \in Msgs : submit[m] # "count"
          /\ \A f \in Flushes : WillCount(f) => Current(f) \in blind

\* What may go wrong in a flush
FlushError(f) == FlushFault(f) \/ FlushBlind(f) \/ FlushLost(f)

\* A price a receipt is about to write, or a task that would charge, belongs to a
\* message whose delivery was reported.
WorkReported ==
    /\ \A m \in Msgs : ~DeliveryReported(m) => charge[m] = NoCharge
    /\ \A r \in Receipts :
          /\ receipt[r].pc = "count" => receipt[r].stat = "DELIVRD"
          /\ receipt[r].pc \in {"count", "write"} /\ IsDlrCharged(supplierMode)
             /\ ~DeliveryReported(receipt[r].msg) => receipt[r].supplierCost = 0

-----------------------------------------------------------------------------
(* Who counts *)

\* A flush goes to another state; the others stay.
FlushGoes(f, p) == flush' = [flush EXCEPT ![f].pc = p]

\* A flush that goes to another state stays a flush, and moves no other.
LEMMA FlushMoves ==
    ASSUME DOMAIN flush = Flushes, \A g \in Flushes : DOMAIN flush[g] = {"pc", "items"},
           NEW f \in Flushes, NEW p, FlushGoes(f, p)
    PROVE  /\ DOMAIN flush' = Flushes
           /\ \A g \in Flushes : DOMAIN flush'[g] = {"pc", "items"}
           /\ \A g \in Flushes : /\ flush'[g].pc = IF g = f THEN p ELSE flush[g].pc
                                 /\ flush'[g].items = flush[g].items
  BY DEF FlushGoes

\* ... or is over, or turns to its next item.
LEMMA FlushRenewed ==
    ASSUME DOMAIN flush = Flushes, \A g \in Flushes : DOMAIN flush[g] = {"pc", "items"},
           NEW f \in Flushes, NEW p, NEW items,
           flush' = [flush EXCEPT ![f] = [pc |-> p, items |-> items]]
    PROVE  /\ DOMAIN flush' = Flushes
           /\ \A g \in Flushes : DOMAIN flush'[g] = {"pc", "items"}
           /\ \A g \in Flushes : flush'[g].pc = IF g = f THEN p ELSE flush[g].pc
           /\ \A g \in Flushes \ {f} : flush'[g] = flush[g]
  OBVIOUS

\* A submission handler counts nothing by itself: its client is one charged on submit.
LEMMA SubmitCounts ==
    ASSUME CountsOnSubmit, NEW m \in Msgs, SubmitStep(m) \/ SubmitFault(m)
    PROVE  CountsOnSubmit'
<1> USE DEF CountsOnSubmit, WillCount, ReadClient, Current, modeVars, heldVars, lookVars
<1>1. CASE SendDirect(m)
  BY <1>1 DEF SendDirect
<1>2. CASE Enqueue(m) \/ Refuse(m)
  BY <1>2 DEF Enqueue, Refuse
<1>3. CASE Insert(m)
  BY <1>3 DEF Insert
<1>4. CASE CountSubmit(m) \/ Register(m)
  BY <1>4 DEF CountSubmit, Register
<1>5. CASE SubmitFault(m)
  BY <1>5 DEF SubmitFault
<1> QED BY <1>1, <1>2, <1>3, <1>4, <1>5 DEF SubmitStep

\* Turning to the next item of a flush, or giving it up, starts no count.
LEMMA TurnCounts ==
    ASSUME CountsOnSubmit, NEW f \in Flushes, NEW p \in {"idle", "lookup"}, NEW items,
           flush' = [flush EXCEPT ![f] = [pc |-> p, items |-> items]],
           UNCHANGED <<modeVars, billing, blind, submit>>
    PROVE  CountsOnSubmit'
<1>1. /\ DOMAIN flush' = Flushes
      /\ \A g \in Flushes : DOMAIN flush'[g] = {"pc", "items"}
      /\ flush'[f].pc = p
      /\ \A g \in Flushes \ {f} : flush'[g] = flush[g]
  BY FlushRenewed DEF CountsOnSubmit
<1>2. \A g \in Flushes : WillCount(g)' => WillCount(g) /\ Current(g)' = Current(g)
  BY <1>1 DEF WillCount, ReadClient, Current, modeVars
<1> QED BY <1>1, <1>2 DEF CountsOnSubmit, IsDlrCharged, modeVars

\* ... as NextItem does.
LEMMA NextItemCounts ==
    ASSUME CountsOnSubmit, NEW f \in Flushes, NEW q, NextItem(f, q),
           UNCHANGED <<modeVars, billing, blind, submit>>
    PROVE  CountsOnSubmit'
<1>1. CASE flush' = [flush EXCEPT ![f] = [pc |-> "idle", items |-> <<>>]]
  BY <1>1, TurnCounts
<1>2. CASE flush' = [flush EXCEPT ![f] = [pc |-> "lookup", items |-> Tail(flush[f].items)]]
  BY <1>2, TurnCounts
<1> QED BY <1>1, <1>2 DEF NextItem, NoFlush

\* A flush (flushServerMtQueue) counts only messages of clients charged on submit, and
\* those it sends blindly.
LEMMA FlushCounts ==
    ASSUME CountsOnSubmit, NEW f \in Flushes, Bind(f) \/ FlushStep(f) \/ FlushError(f)
    PROVE  CountsOnSubmit'
<1>1. CASE Bind(f)
  <2>0. UNCHANGED <<modeVars, billing, blind, submit>>
    BY <1>1 DEF Bind, lookVars
  <2>1. CASE queue = <<>>
    BY <1>1, <2>0, <2>1 DEF Bind, CountsOnSubmit, WillCount, ReadClient, Current,
                                modeVars
  <2>2. CASE queue # <<>>
    BY <1>1, <2>0, <2>2, TurnCounts DEF Bind
  <2> QED BY <2>1, <2>2
<1>2. ASSUME NEW p, FlushGoes(f, p), UNCHANGED <<modeVars, submit>>,
             DOMAIN billing' = Flushes,
             \A g \in Flushes \ {f} : billing'[g] = billing[g],
             blind \subseteq blind',
             IsDlrCharged(clientMode) /\ WillCount(f)' => Current(f) \in blind'
      PROVE  CountsOnSubmit'
  <2>1. /\ DOMAIN flush' = Flushes
        /\ \A g \in Flushes : DOMAIN flush'[g] = {"pc", "items"}
        /\ \A g \in Flushes : /\ flush'[g].pc = IF g = f THEN p ELSE flush[g].pc
                              /\ flush'[g].items = flush[g].items
    BY <1>2, FlushMoves DEF CountsOnSubmit
  <2>2. clientMode' = clientMode /\ submit' = submit
    BY <1>2 DEF modeVars
  <2>3. \A g \in Flushes : Current(g)' = Current(g)
    BY <2>1 DEF Current
  <2>4. \A g \in Flushes \ {f} : WillCount(g)' => WillCount(g)
    BY <1>2, <2>1, <2>2 DEF WillCount, ReadClient
  <2> QED BY <1>2, <2>1, <2>2, <2>3, <2>4 DEF CountsOnSubmit, IsDlrCharged
<1>3. ASSUME NEW p, FlushGoes(f, p), UNCHANGED <<modeVars, billing, blind, submit>>,
             p # "register" /\ WillCount(f)' => WillCount(f)
      PROVE  CountsOnSubmit'
  <2>1. flush'[f].pc = p
    BY <1>3, FlushMoves DEF CountsOnSubmit
  <2>2. p = "register" => ~WillCount(f)'
    BY <2>1 DEF WillCount
  <2> QED BY <1>2, <1>3, <2>2 DEF CountsOnSubmit
<1>4. ASSUME NEW b, Sending(f, b), blind \subseteq blind',
             b = "none" => Current(f) \in blind', b \in {"both", "client", "none"}
      PROVE  CountsOnSubmit'
  <2>1. FlushGoes(f, "wait") /\ UNCHANGED <<modeVars, submit>>
    BY <1>4 DEF Sending, FlushGoes
  <2>2. /\ DOMAIN billing' = Flushes /\ billing'[f] = b
        /\ \A g \in Flushes \ {f} : billing'[g] = billing[g]
    BY <1>4 DEF Sending, CountsOnSubmit
  <2>3. flush'[f].pc = "wait"
    BY <2>1, FlushMoves DEF CountsOnSubmit
  <2>4. IsDlrCharged(clientMode) /\ WillCount(f)' => Current(f) \in blind'
    BY <1>4, <2>1, <2>2, <2>3 DEF WillCount, ReadClient, modeVars
  <2> QED BY <1>2, <1>4, <2>1, <2>2, <2>4
<1>5. CASE FlushSend(f)
  BY <1>4, <1>5 DEF FlushSend
<1>6. CASE FlushBlind(f)
  BY <1>4, <1>6 DEF FlushBlind
<1>7. CASE FlushTaken(f)
  <2>1. FlushGoes(f, "update") /\ flush[f].pc = "wait"
        /\ UNCHANGED <<modeVars, billing, blind, submit>>
    BY <1>7 DEF FlushTaken, FlushGoes, lookVars
  <2>2. WillCount(f)' => WillCount(f)
    <3>1. flush'[f].pc = "update"
      BY <2>1, FlushMoves DEF CountsOnSubmit
    <3> QED BY <2>1, <3>1 DEF WillCount, ReadClient, modeVars
  <2> QED BY <1>3, <2>1, <2>2
<1>8. CASE FlushUpdate(f)
  <2> DEFINE p == IF IsDlrCharged(ReadClient(billing[f])) THEN "register" ELSE "count"
  <2>1. FlushGoes(f, p) /\ flush[f].pc = "update"
        /\ UNCHANGED <<modeVars, billing, blind, submit>>
    BY <1>8 DEF FlushUpdate, FlushGoes, lookVars
  <2>2. p = "count" => WillCount(f)
    BY <2>1 DEF WillCount
  <2>3. p \in {"register", "count"}
    OBVIOUS
  <2> HIDE DEF p
  <2> QED BY <1>3, <2>1, <2>2, <2>3
<1>9. CASE FlushCount(f) \/ FlushFault(f)
  <2>1. FlushGoes(f, "register") /\ UNCHANGED <<modeVars, billing, blind, submit>>
    BY <1>9 DEF FlushCount, FlushFault, FlushGoes, lookVars
  <2> QED BY <1>3, <2>1
<1>10. CASE FlushFail(f)
  BY <1>10, NextItemCounts DEF FlushFail, lookVars
<1>11. CASE FlushRegister(f)
  BY <1>11, NextItemCounts DEF FlushRegister
<1>12. CASE FlushLost(f)
  BY <1>12, TurnCounts DEF FlushLost, NoFlush, lookVars
<1> QED BY <1>1, <1>5, <1>6, <1>7, <1>8, <1>9, <1>10, <1>11, <1>12
        DEF FlushStep, FlushError

\* A submit handler or a flush gets to its count only if the client is charged on
\* submission, whatever else happens.
LEMMA CountsStep == CountsOnSubmit /\ [Next]_vars => CountsOnSubmit'
<1> SUFFICES ASSUME CountsOnSubmit, [Next]_vars PROVE CountsOnSubmit'
  OBVIOUS
<1>1. ASSUME UNCHANGED <<modeVars, billing, blind, submit, flush>> PROVE CountsOnSubmit'
  BY <1>1 DEF CountsOnSubmit, WillCount, ReadClient, Current, modeVars
<1>2. CASE UNCHANGED vars
  BY <1>1, <1>2 DEF vars, heldVars, lookVars
<1>3. ASSUME NEW m \in Msgs, Age(m) \/ ExpireWrite(m) \/ ExpireFault(m) \/ ChargeStep(m) \/ ChargeFault(m)
      PROVE  CountsOnSubmit'
  BY <1>1, <1>3, SMTT(40) DEF Age, ExpireWrite, ExpireFault, ChargeStep, ChargeCost, ChargeBlank, ChargeCounter,
                    ChargeSupplier, ChargeFault, heldVars, lookVars
<1>4. ASSUME NEW r \in Receipts, ReceiptStep(r) \/ JobFault(r) \/ (\E m \in Msgs, s \in Stats : Arrive(r, m, s))
      PROVE  CountsOnSubmit'
  BY <1>1, <1>4 DEF ReceiptStep, LateMatch, RecoverRead, RecoverWrite, RecoverEnd, JobRead,
                    JobCount, JobWrite, JobFault, Arrive, heldVars, lookVars
<1>5. CASE Unbind \/ Expire
  BY <1>1, <1>5 DEF Unbind, Expire, heldVars, lookVars
<1>6. CASE Restart
  BY <1>6 DEF Restart, CountsOnSubmit, WillCount, NoFlush, modeVars
<1> QED BY <1>2, <1>3, <1>4, <1>5, <1>6, SubmitCounts, FlushCounts DEF Next, Fault, FlushError

-----------------------------------------------------------------------------
(* Steps that charge nobody *)

\* Nothing billing looks at is changed.
Unbilled ==
    /\ UNCHANGED <<modeVars, cost, supplierCost, counted, charge, receipt>>
    /\ blind \subseteq blind'
    /\ status' \in [Msgs -> Statuses] /\ callback' \in [Msgs -> BOOLEAN]

Billed == BillingTypes /\ ReceiptTypes /\ WorkReported /\ PaidOnDelivery

\* A step that touches neither rows nor charges keeps the billing invariant.
LEMMA UnbilledKeeps == Billed /\ Unbilled => Billed'
  BY DEF Unbilled, modeVars, Billed, BillingTypes, ReceiptTypes, WorkReported,
         PaidOnDelivery, DeliveryReported

\* Submission but for the row and its count
LEMMA SubmitQuiet ==
    ASSUME BillingTypes, NEW m \in Msgs,
           SendDirect(m) \/ Enqueue(m) \/ Refuse(m) \/ Register(m) \/ SubmitFault(m)
    PROVE  Unbilled
  BY DEF SendDirect, Enqueue, Refuse, Register, SubmitFault, BillingTypes, Unbilled,
         rowVars, billVars, lookVars

\* Binds, and a flush but for its UPDATE and its count
LEMMA FlushQuiet ==
    ASSUME BillingTypes, NEW f \in Flushes,
           \/ Bind(f) \/ FlushSend(f) \/ FlushFail(f) \/ FlushTaken(f)
           \/ FlushRegister(f) \/ FlushError(f)
    PROVE  Unbilled
  BY DEF Bind, FlushSend, Sending, FlushFail, FlushTaken, FlushRegister, FlushError, FlushFault, FlushBlind, FlushLost, BillingTypes,
         Unbilled, rowVars, billVars, lookVars

\* Time passing, and the sweep, which writes a status alone
LEMMA SweepQuiet ==
    ASSUME BillingTypes, NEW m \in Msgs, Age(m) \/ ExpireWrite(m) \/ ExpireFault(m)
    PROVE  Unbilled
  BY DEF Age, ExpireWrite, ExpireFault, BillingTypes, Unbilled, Statuses, rowVars, billVars,
         lookVars

-----------------------------------------------------------------------------
(* Steps that write a price *)

\* A step prices a side that is charged on submission, or counts for one, or for a
\* message that was sent blindly.
LEMMA PricedBilled ==
    ASSUME Billed, UNCHANGED <<modeVars, charge, receipt, callback>>,
           status' \in [Msgs -> Statuses], cost' \in [Msgs -> {0, 1}],
           supplierCost' \in [Msgs -> {0, 1}], counted' \in [Msgs -> Nat],
           \A n \in Msgs : supplierCost'[n] \in {0, AtSend(supplierMode), supplierCost[n]},
           blind' = blind,
           IsDlrCharged(clientMode) =>
              \A n \in Msgs : counted'[n] = counted[n] \/ n \in blind
    PROVE  Billed'
<1> USE DEF Billed
<1>1. BillingTypes' /\ ReceiptTypes' /\ WorkReported'
  BY DEF BillingTypes, ReceiptTypes, WorkReported, DeliveryReported, modeVars
<1>2. IsDlrCharged(supplierMode) => AtSend(supplierMode) = 0
  BY DEF AtSend
<1>3. PaidOnDelivery'
  BY <1>2 DEF PaidOnDelivery, DeliveryReported, modeVars
<1> QED BY <1>1, <1>3

\* The submit handler writes its row and counts; the flush writes it again.
LEMMA SubmitBilled ==
    ASSUME Billed, CountsOnSubmit, NEW m \in Msgs, Insert(m) \/ CountSubmit(m)
    PROVE  Billed'
<1> USE DEF Billed, BillingTypes, rowVars, billVars, lookVars
<1>1. AtSend(supplierMode) \in {0, 1} /\ AtSend(clientMode) \in {0, 1}
  BY DEF AtSend
<1>2. CASE Insert(m)
  <2>1. InsertedStatus(m) \in Statuses
    BY DEF InsertedStatus, Statuses
  <2>2. /\ UNCHANGED <<modeVars, charge, receipt, callback, counted>>
        /\ status' \in [Msgs -> Statuses] /\ cost' \in [Msgs -> {0, 1}]
        /\ supplierCost' \in [Msgs -> {0, 1}]
        /\ \A n \in Msgs : supplierCost'[n] \in {0, AtSend(supplierMode), supplierCost[n]}
    BY <1>1, <1>2, <2>1 DEF Insert
  <2>3. blind' = blind
    BY <1>2 DEF Insert
  <2> QED BY <2>2, <2>3, PricedBilled
<1>3. CASE CountSubmit(m)
  BY <1>3, PricedBilled DEF CountSubmit, CountsOnSubmit
<1> QED BY <1>2, <1>3

\* The flush's UPDATE and its count, two statements, keep the billing invariant.
LEMMA FlushBilled ==
    ASSUME Billed, CountsOnSubmit, NEW f \in Flushes, FlushUpdate(f) \/ FlushCount(f)
    PROVE  Billed'
<1> USE DEF Billed, BillingTypes, rowVars, billVars, lookVars
<1>1. AtSend(supplierMode) \in {0, 1} /\ AtSend(clientMode) \in {0, 1}
  BY DEF AtSend
<1>2. CASE FlushUpdate(f)
  <2>1. /\ UNCHANGED <<modeVars, charge, receipt, callback, counted>>
        /\ status' \in [Msgs -> Statuses] /\ cost' \in [Msgs -> {0, 1}]
        /\ supplierCost' \in [Msgs -> {0, 1}]
        /\ \A n \in Msgs : supplierCost'[n] \in {0, AtSend(supplierMode), supplierCost[n]}
    BY <1>1, <1>2 DEF FlushUpdate, Priced, Statuses
  <2>2. blind' = blind
    BY <1>2 DEF FlushUpdate
  <2> QED BY <2>1, <2>2, PricedBilled
<1>3. CASE FlushCount(f)
  <2>1. counted' \in [Msgs -> Nat]
    <3> DEFINE m == Current(f)
    <3>1. counted' = [counted EXCEPT ![m] = @ + 1]
      BY <1>3 DEF FlushCount
    <3> HIDE DEF m
    <3>2. CASE m \in Msgs
      BY <3>1, <3>2
    <3>3. CASE m \notin Msgs
      BY <3>1, <3>3
    <3> QED BY <3>2, <3>3
  <2>2. IsDlrCharged(clientMode) => Current(f) \in blind
    BY <1>3 DEF FlushCount, CountsOnSubmit, WillCount
  <2>3. \A n \in Msgs : counted'[n] = counted[n] \/ n = Current(f)
    BY <1>3 DEF FlushCount
  <2> QED BY <1>3, <2>1, <2>2, <2>3, PricedBilled DEF FlushCount
<1> QED BY <1>2, <1>3

\* A callback's tasks exist only for a message that was reported delivered.
LEMMA TasksBilled ==
    ASSUME Billed, NEW m \in Msgs, ChargeStep(m) \/ ChargeFault(m)
    PROVE  Billed'
<1> USE DEF Billed
<1>0. UNCHANGED <<modeVars, status, receipt, callback, blind>>
  BY DEF ChargeStep, ChargeCost, ChargeBlank, ChargeCounter, ChargeSupplier, ChargeFault, rowVars,
         lookVars
<1>1. DeliveryReported(m)
  BY DEF ChargeStep, ChargeCost, ChargeBlank, ChargeCounter, ChargeSupplier, ChargeFault, WorkReported,
         NoCharge, BillingTypes
<1>2. AtSend(supplierMode) \in {0, 1}
  BY DEF AtSend
<1>3. /\ charge' \in [Msgs -> [cost : Nat, blank : Nat, counter : Nat, supplier : Nat]]
      /\ supplierCost' \in [Msgs -> {0, 1}] /\ cost' \in [Msgs -> {0, 1}]
      /\ counted' \in [Msgs -> Nat]
      /\ \A n \in Msgs \ {m} : /\ charge'[n] = charge[n] /\ supplierCost'[n] = supplierCost[n]
                               /\ counted'[n] = counted[n]
  <2> USE DEF BillingTypes, rowVars
  <2>1. CASE ChargeCost(m)
    BY <1>2, <2>1 DEF ChargeCost, ChargeBlank
  <2>2. CASE ChargeCounter(m)
    BY <2>2 DEF ChargeCounter
  <2>3. CASE ChargeSupplier(m)
    BY <2>3 DEF ChargeSupplier
  <2>4. CASE ChargeFault(m)
    BY <2>4 DEF ChargeFault
  <2>5. CASE ChargeBlank(m)
    BY <2>5 DEF ChargeBlank
  <2> QED BY <2>1, <2>2, <2>3, <2>4, <2>5 DEF ChargeStep
<1>4. BillingTypes' /\ ReceiptTypes'
  BY <1>0, <1>3 DEF BillingTypes, ReceiptTypes, modeVars
<1>5. WorkReported' /\ PaidOnDelivery'
  BY <1>0, <1>1, <1>3 DEF WorkReported, PaidOnDelivery, DeliveryReported, modeVars
<1> QED BY <1>4, <1>5

\* A receipt a handler has
Handling == [pc : {"grace", "recover", "forget", "select", "count", "write", "done"},
             msg : Msgs, stat : {"DELIVRD", "UNDELIV"}, cost : {0, 1}, supplierCost : {0, 1}]

\* Receipts stay as they are or are handled.
LEMMA HandledTypes ==
    ASSUME ReceiptTypes, receipt' = [q \in Receipts |-> receipt'[q]],
           \A q \in Receipts : receipt'[q] = receipt[q]
                                \/ (receipt'[q] \in Handling /\ receipt'[q].pc # "idle")
    PROVE  ReceiptTypes'
<1> DEFINE T == [pc : {"idle", "grace", "recover", "forget", "select", "count", "write", "done"},
                 msg : Msgs \cup {NoMsg}, stat : {"DELIVRD", "UNDELIV"},
                 cost : {0, 1}, supplierCost : {0, 1}]
<1>1. ASSUME NEW c \in Handling PROVE c \in T /\ c.msg # NoMsg
  BY AndroidAssumption DEF Handling, AndroidAssumption
<1>2. \A q \in Receipts : receipt'[q] \in T
  BY <1>1 DEF ReceiptTypes
<1>3. ASSUME NEW q \in Receipts
      PROVE  receipt'[q].pc = "idle" <=> receipt'[q].msg = NoMsg
  <2>1. CASE receipt'[q] = receipt[q]
    BY <2>1 DEF ReceiptTypes
  <2>2. CASE receipt'[q] \in Handling /\ receipt'[q].pc # "idle"
    BY <1>1, <2>2
  <2> QED BY <2>1, <2>2
<1> QED BY <1>2, <1>3 DEF ReceiptTypes

\* A callback fires: it leaves tasks only for a delivery, which the handler's own
\* update then names.
LEMMA FireBilled ==
    ASSUME Billed, NEW r \in Receipts, NEW m \in Msgs, NEW s \in {"DELIVRD", "UNDELIV"},
           receipt[r].pc = "idle" \/ (receipt[r].msg = m /\ receipt[r].stat = s),
           Fire(r, m, s), UNCHANGED <<modeVars, rowVars, counted, blind>>
    PROVE  Billed'
<1> USE DEF Billed
<1>0. UNCHANGED <<clientMode, supplierMode, status, cost, supplierCost, counted, blind>>
  BY DEF modeVars, rowVars
<1>1. /\ callback' \in [Msgs -> BOOLEAN]
      /\ charge' \in [Msgs -> [cost : Nat, blank : Nat, counter : Nat, supplier : Nat]]
      /\ s # "DELIVRD" => charge' = charge
      /\ \A n \in Msgs \ {m} : charge'[n] = charge[n]
  BY DEF Fire, Started, Tasks, TasksDue, NoCharge, AtSend, BillingTypes
<1>2. /\ \A q \in Receipts \ {r} : receipt'[q] = receipt[q]
      /\ receipt'[r] \in Handling /\ receipt' = [q \in Receipts |-> receipt'[q]]
      /\ receipt'[r].pc = "select" /\ receipt'[r].msg = m /\ receipt'[r].stat = s
  <2> DEFINE c == [NoReceipt EXCEPT !.pc = "select", !.msg = m, !.stat = s]
  <2>1. c \in Handling /\ c.pc = "select" /\ c.msg = m /\ c.stat = s
    BY DEF NoReceipt, Handling
  <2>2. receipt' = [receipt EXCEPT ![r] = c]
    BY DEF Fire
  <2> HIDE DEF c
  <2> QED BY <2>1, <2>2 DEF ReceiptTypes
<1>3. ReceiptTypes'
  BY <1>2, HandledTypes
<1>4. /\ \A n \in Msgs : DeliveryReported(n) => DeliveryReported(n)'
      /\ s = "DELIVRD" => DeliveryReported(m)'
  BY <1>2, AndroidAssumption DEF DeliveryReported, ReceiptTypes, AndroidAssumption
<1>5. BillingTypes'
  BY <1>0, <1>1 DEF BillingTypes
<1>6. WorkReported'
  <2>1. \A n \in Msgs : ~DeliveryReported(n)' => charge'[n] = NoCharge
    BY <1>1, <1>4 DEF WorkReported
  <2>2. ASSUME NEW q \in Receipts, receipt'[q].pc \in {"count", "write"}
        PROVE  receipt'[q] = receipt[q] /\ receipt[q].msg \in Msgs
    BY <1>2, <2>2 DEF ReceiptTypes
  <2> QED BY <1>0, <1>4, <2>1, <2>2 DEF WorkReported
<1>7. PaidOnDelivery'
  BY <1>0, <1>4 DEF PaidOnDelivery
<1> QED BY <1>3, <1>5, <1>6, <1>7

\* What a handler may do to its receipt without touching a price: the receipt keeps
\* its message and its state, and has no supplier price it should not have.
LEMMA HandlerBilled ==
    ASSUME Billed, NEW r \in Receipts, NEW c \in Handling,
           receipt' = [receipt EXCEPT ![r] = c],
           receipt[r].pc = "idle" \/ (receipt[r].msg = c.msg /\ receipt[r].stat = c.stat),
           c.pc = "count" => c.stat = "DELIVRD",
           c.pc \in {"count", "write"} /\ IsDlrCharged(supplierMode)
             /\ ~DeliveryReported(c.msg) => c.supplierCost = 0
    PROVE  /\ ReceiptTypes'
           /\ \A n \in Msgs : DeliveryReported(n) => DeliveryReported(n)'
           /\ UNCHANGED <<modeVars, charge>> => WorkReported'
<1> USE DEF Billed
<1> USE DEF Handling
<1>1. /\ \A q \in Receipts \ {r} : receipt'[q] = receipt[q]
      /\ receipt'[r] = c
      /\ DOMAIN receipt' = Receipts
  BY DEF ReceiptTypes
<1>2. ReceiptTypes'
  BY <1>1, AndroidAssumption DEF ReceiptTypes, AndroidAssumption
<1>3. \A n \in Msgs : DeliveryReported(n) => DeliveryReported(n)'
  BY <1>1, AndroidAssumption DEF DeliveryReported, ReceiptTypes, AndroidAssumption
<1>4. \A q \in Receipts : receipt[q].pc \in {"count", "write"} => receipt[q].msg \in Msgs
  BY DEF ReceiptTypes
<1>5. ASSUME UNCHANGED <<modeVars, charge>> PROVE WorkReported'
  BY <1>1, <1>3, <1>4, <1>5 DEF WorkReported, modeVars, IsDlrCharged
<1> QED BY <1>2, <1>3, <1>5

\* A receipt finds its callback within the grace window.
LEMMA LateBilled ==
    ASSUME Billed, NEW r \in Receipts, LateMatch(r)
    PROVE  Billed'
<1>1. receipt[r].msg \in Msgs /\ receipt[r].stat \in {"DELIVRD", "UNDELIV"}
  BY AndroidAssumption DEF LateMatch, Billed, ReceiptTypes, AndroidAssumption
<1>2. /\ Fire(r, receipt[r].msg, receipt[r].stat)
      /\ UNCHANGED <<modeVars, rowVars, counted, blind>>
  BY DEF LateMatch, lookVars
<1> QED BY <1>1, <1>2, FireBilled

\* A receipt for a message the phone took arrives.
LEMMA ArriveBilled ==
    ASSUME Billed, NEW r \in Receipts, NEW m \in Msgs, NEW s \in Stats, Arrive(r, m, s)
    PROVE  Billed'
<1> USE DEF Billed
<1>1. s \in {"DELIVRD", "UNDELIV"}
  BY AndroidAssumption DEF AndroidAssumption
<1>2. CASE Fire(r, m, s)
  BY <1>1, <1>2, FireBilled DEF Arrive, lookVars
<1>3. CASE ~Fire(r, m, s)
  <2> DEFINE c == [NoReceipt EXCEPT !.pc = "grace", !.msg = m, !.stat = s]
  <2>2. receipt' = [receipt EXCEPT ![r] = c]
    BY <1>3 DEF Arrive
  <2>3. c \in Handling /\ c.pc = "grace" /\ c.msg = m /\ c.stat = s
    BY <1>1 DEF Handling, NoReceipt
  <2>4. /\ receipt[r].pc = "idle"
        /\ UNCHANGED <<modeVars, rowVars, counted, callback, charge, blind>>
    BY <1>3 DEF Arrive, lookVars
  <2> HIDE DEF c
  <2>6. ReceiptTypes' /\ WorkReported' /\ \A n \in Msgs : DeliveryReported(n) => DeliveryReported(n)'
    BY <2>2, <2>3, <2>4, HandlerBilled
  <2>7. BillingTypes' /\ PaidOnDelivery'
    BY <2>4, <2>6 DEF BillingTypes, PaidOnDelivery, modeVars, rowVars
  <2> QED BY <2>6, <2>7
<1> QED BY <1>2, <1>3

\* A handler goes on with its receipt: it has a supplier price that is not owed yet
\* only for a delivery.
Handled(r, c) ==
    /\ c \in Handling /\ receipt' = [receipt EXCEPT ![r] = c]
    /\ c.msg = receipt[r].msg /\ c.stat = receipt[r].stat
    /\ c.pc = "count" => c.stat = "DELIVRD"
    /\ c.pc \in {"count", "write"} /\ IsDlrCharged(supplierMode)
         /\ ~DeliveryReported(c.msg) => c.supplierCost = 0

ReceiptGoes(r, p) == receipt' = [receipt EXCEPT ![r].pc = p]

\* Each statement of the two charge jobs works on a receipt that is being handled.
LEMMA JobHandled ==
    ASSUME Billed, NEW r \in Receipts,
           \/ RecoverRead(r) \/ RecoverWrite(r) \/ RecoverEnd(r) \/ JobRead(r)
           \/ JobCount(r) \/ JobWrite(r) \/ JobFault(r)
    PROVE  receipt[r] \in Handling /\ \E c : Handled(r, c)
<1> DEFINE o == receipt[r]
<1>1. o \in Handling
  BY AndroidAssumption DEF RecoverRead, RecoverWrite, RecoverEnd, JobRead, JobCount,
         JobWrite, JobFault, Billed, ReceiptTypes, AndroidAssumption, Handling
<1>2. CASE receipt' = Closed(r)
  <2> DEFINE c == [o EXCEPT !.pc = "done", !.cost = 0, !.supplierCost = 0]
  <2>1. receipt' = [receipt EXCEPT ![r] = c]
    BY <1>2 DEF Closed, Billed, ReceiptTypes
  <2>2. c \in Handling /\ c.msg = o.msg /\ c.stat = o.stat /\ c.pc = "done"
    BY <1>1 DEF Handling
  <2> HIDE DEF c
  <2> QED BY <1>1, <2>1, <2>2 DEF Handled
<1>3. ASSUME NEW p \in {"recover", "forget", "write"}, ReceiptGoes(r, p),
             p = "write" => o.pc = "count"
      PROVE  \E c : Handled(r, c)
  <2> DEFINE c == [o EXCEPT !.pc = p]
  <2>1. receipt' = [receipt EXCEPT ![r] = c]
    BY <1>3 DEF Billed, ReceiptTypes, ReceiptGoes
  <2>2. c \in Handling /\ c.msg = o.msg /\ c.stat = o.stat /\ c.pc = p
        /\ c.supplierCost = o.supplierCost
    BY <1>1, <1>3 DEF Handling
  <2>3. p = "write" /\ IsDlrCharged(supplierMode) /\ ~DeliveryReported(o.msg)
          => o.supplierCost = 0
    BY <1>3 DEF Billed, WorkReported
  <2> HIDE DEF c
  <2> QED BY <1>1, <1>3, <2>1, <2>2, <2>3 DEF Handled
<1>4. CASE JobRead(r)
  <2> DEFINE m == o.msg
             charged == o.stat = "DELIVRD" /\ status[m] # "none"
             p == IF charged /\ cost[m] = 0 /\ IsDlrCharged(clientMode) THEN "count" ELSE "write"
             x == IF charged /\ IsDlrCharged(supplierMode) THEN 1 ELSE supplierCost[m]
             c == [o EXCEPT !.pc = p, !.cost = cost[m], !.supplierCost = x]
  <2>1. receipt' = [receipt EXCEPT ![r] = c]
    BY <1>4 DEF JobRead
  <2>2. m \in Msgs /\ (o.stat = "DELIVRD" => DeliveryReported(m))
    BY <1>1 DEF Handling, DeliveryReported
  <2>3. /\ x \in {0, 1} /\ p \in {"count", "write"} /\ (p = "count" => o.stat = "DELIVRD")
        /\ IsDlrCharged(supplierMode) /\ ~DeliveryReported(m) => x = 0
    BY <2>2 DEF Billed, BillingTypes, PaidOnDelivery
  <2>4. cost[m] \in {0, 1}
    BY <2>2 DEF Billed, BillingTypes
  <2> HIDE DEF x, p, charged
  <2>5. c \in Handling /\ c.msg = m /\ c.stat = o.stat /\ c.pc = p /\ c.supplierCost = x
    BY <1>1, <2>3, <2>4 DEF Handling
  <2> HIDE DEF c
  <2>6. Handled(r, c)
    BY <2>1, <2>3, <2>5 DEF Handled
  <2> QED BY <1>1, <2>6
<1>5. CASE JobCount(r)
  <2> DEFINE c == [o EXCEPT !.pc = "write", !.cost = 1]
  <2>1. receipt' = [receipt EXCEPT ![r] = c]
    BY <1>5 DEF JobCount
  <2>2. c \in Handling /\ c.msg = o.msg /\ c.stat = o.stat /\ c.pc = "write"
        /\ c.supplierCost = o.supplierCost
    BY <1>1 DEF Handling
  <2>3. IsDlrCharged(supplierMode) /\ ~DeliveryReported(o.msg) => o.supplierCost = 0
    BY <1>5 DEF Billed, WorkReported, JobCount
  <2> HIDE DEF c
  <2> QED BY <1>1, <2>1, <2>2, <2>3 DEF Handled
<1>6. CASE RecoverRead(r)
  <2>1. receipt' = Closed(r) \/ ReceiptGoes(r, "recover")
    BY <1>6 DEF RecoverRead, ReceiptGoes
  <2>2. ReceiptGoes(r, "recover") => \E c : Handled(r, c)
    BY <1>3
  <2> QED BY <1>1, <1>2, <2>1, <2>2
<1>7. CASE RecoverWrite(r)
  <2>1. ReceiptGoes(r, "forget")
    BY <1>7 DEF RecoverWrite, ReceiptGoes
  <2>2. ReceiptGoes(r, "forget") => \E c : Handled(r, c)
    BY <1>3
  <2> QED BY <1>1, <2>1, <2>2
<1>8. CASE RecoverEnd(r) \/ JobWrite(r)
  BY <1>2, <1>8 DEF RecoverEnd, JobWrite
<1>9. CASE JobFault(r)
  <2>1. receipt' = Closed(r) \/ (o.pc = "count" /\ ReceiptGoes(r, "write"))
    BY <1>9 DEF JobFault, ReceiptGoes
  <2>2. o.pc = "count" /\ ReceiptGoes(r, "write") => \E c : Handled(r, c)
    BY <1>3
  <2> QED BY <1>1, <1>2, <2>1, <2>2
<1> QED BY <1>1, <1>4, <1>5, <1>6, <1>7, <1>8, <1>9

\* The handler's job reads the price of its row, or sets one for a delivery, and
\* counts for a delivery only.
LEMMA JobBilled ==
    ASSUME Billed, NEW r \in Receipts,
           \/ RecoverRead(r) \/ RecoverWrite(r) \/ RecoverEnd(r) \/ JobRead(r)
           \/ JobCount(r) \/ JobWrite(r) \/ JobFault(r)
    PROVE  Billed'
<1> DEFINE m == receipt[r].msg
<1>1. PICK c : Handled(r, c)
  BY JobHandled
<1>2. receipt[r] \in Handling /\ m \in Msgs
  BY JobHandled DEF Handling
<1>3. UNCHANGED <<modeVars, charge, blind>>
  BY DEF RecoverRead, RecoverWrite, RecoverEnd, JobRead, JobCount, JobWrite, JobFault,
         billVars, modeVars, lookVars
<1>4. /\ ReceiptTypes' /\ WorkReported'
      /\ \A n \in Msgs : DeliveryReported(n) => DeliveryReported(n)'
  BY <1>1, <1>3, HandlerBilled DEF Handled
<1>5. counted' = IF JobCount(r) THEN [counted EXCEPT ![m] = @ + 1] ELSE counted
  BY DEF RecoverRead, RecoverWrite, RecoverEnd, JobRead, JobCount, JobWrite, JobFault, billVars
<1>6. JobCount(r) => DeliveryReported(m)
  BY DEF JobCount, Billed, WorkReported, DeliveryReported
<1>7. \/ supplierCost' = supplierCost
      \/ /\ receipt[r].pc = "write"
         /\ supplierCost' = [supplierCost EXCEPT ![m] = receipt[r].supplierCost]
  BY DEF RecoverRead, RecoverWrite, RecoverEnd, JobRead, JobCount, JobWrite, JobFault, rowVars
<1>8. status' \in [Msgs -> Statuses] /\ cost' \in [Msgs -> {0, 1}] /\ callback' \in [Msgs -> BOOLEAN]
  <2> USE <1>2 DEF Handling, Billed, BillingTypes, rowVars
  <2>1. Outcome(r) \in Statuses
    BY DEF Outcome, Statuses
  <2>2. CASE RecoverRead(r) \/ JobRead(r) \/ JobCount(r) \/ JobFault(r)
    BY <2>2 DEF RecoverRead, JobRead, JobCount, JobFault
  <2>3. CASE RecoverWrite(r) \/ RecoverEnd(r)
    BY <2>1, <2>3 DEF RecoverWrite, RecoverEnd
  <2>4. CASE JobWrite(r)
    BY <2>1, <2>4 DEF JobWrite
  <2> QED BY <2>2, <2>3, <2>4
<1>9. BillingTypes'
  BY <1>2, <1>3, <1>5, <1>7, <1>8 DEF Billed, BillingTypes, Handling
<1>10. \A n \in Msgs : IsDlrCharged(supplierMode) /\ ~DeliveryReported(n)' => supplierCost'[n] = 0
  BY <1>2, <1>4, <1>7 DEF Billed, BillingTypes, PaidOnDelivery, WorkReported
<1>11. \A n \in Msgs \ blind :
          IsDlrCharged(clientMode) /\ ~DeliveryReported(n)' => counted'[n] = 0
  BY <1>2, <1>4, <1>5, <1>6 DEF Billed, BillingTypes, PaidOnDelivery
<1>12. PaidOnDelivery'
  BY <1>3, <1>10, <1>11 DEF PaidOnDelivery, modeVars, IsDlrCharged
<1> QED BY <1>4, <1>9, <1>12 DEF Billed

-----------------------------------------------------------------------------
\* A restart of the process forgets callbacks and work under way, and bills nothing.
LEMMA RestartBilled == Billed /\ Restart => Billed'
<1> SUFFICES ASSUME Billed, Restart PROVE Billed'
  OBVIOUS
<1> USE DEF Billed
<1>1. /\ UNCHANGED <<modeVars, rowVars, counted, blind>>
      /\ callback' \in [Msgs -> BOOLEAN] /\ charge' = [m \in Msgs |-> NoCharge]
  BY DEF Restart
<1>2. BillingTypes'
  BY <1>1 DEF BillingTypes, NoCharge, rowVars
<1>3. /\ receipt' = [q \in Receipts |-> receipt'[q]]
      /\ \A r \in Receipts :
            /\ receipt[r].pc = "idle" => receipt'[r] = receipt[r]
            /\ receipt[r].pc # "idle" => receipt'[r] \in Handling /\ receipt'[r].pc = "done"
            /\ receipt'[r].msg = receipt[r].msg /\ receipt'[r].stat = receipt[r].stat
  <2>1. receipt' = [q \in Receipts |-> receipt'[q]]
    BY DEF Restart
  <2>2. ASSUME NEW r \in Receipts, receipt[r].pc = "idle" PROVE receipt'[r] = receipt[r]
    BY <2>2 DEF Restart
  <2>3. ASSUME NEW r \in Receipts, receipt[r].pc # "idle"
        PROVE  /\ receipt'[r] \in Handling /\ receipt'[r].pc = "done"
               /\ receipt'[r].msg = receipt[r].msg /\ receipt'[r].stat = receipt[r].stat
    <3> DEFINE c == [receipt[r] EXCEPT !.pc = "done", !.cost = 0, !.supplierCost = 0]
    <3>1. receipt'[r] = c
      BY <2>3 DEF Restart
    <3>2. receipt[r] \in Handling
      BY <2>3, AndroidAssumption DEF ReceiptTypes, AndroidAssumption, Handling
    <3>3. c \in Handling /\ c.pc = "done" /\ c.msg = receipt[r].msg /\ c.stat = receipt[r].stat
      BY <3>2 DEF Handling
    <3> HIDE DEF c
    <3> QED BY <3>1, <3>3
  <2> QED BY <2>1, <2>2, <2>3
<1>4. ReceiptTypes'
  BY <1>3, HandledTypes
<1>5. \A m \in Msgs : DeliveryReported(m)' = DeliveryReported(m)
  BY <1>3 DEF DeliveryReported
<1>6. WorkReported'
  <2>1. \A m \in Msgs : charge'[m] = NoCharge
    BY <1>1
  <2>2. \A q \in Receipts : receipt'[q].pc \notin {"count", "write"}
    BY <1>3
  <2> QED BY <2>1, <2>2 DEF WorkReported, NoCharge
<1>7. PaidOnDelivery'
  BY <1>1, <1>5 DEF PaidOnDelivery, modeVars, rowVars, IsDlrCharged
<1> QED BY <1>2, <1>4, <1>6, <1>7

\* Every step of the phone's gateway keeps the billing invariant.
LEMMA BilledStep == CountsOnSubmit /\ Billed /\ [Next]_vars => Billed'
<1> SUFFICES ASSUME CountsOnSubmit, Billed, [Next]_vars PROVE Billed'
  OBVIOUS
<1>1. ASSUME Unbilled PROVE Billed'
  BY <1>1, UnbilledKeeps
<1> HIDE DEF Billed
<1>2. BillingTypes
  BY DEF Billed
<1>3. CASE UNCHANGED vars
  BY <1>3, <1>1, <1>2 DEF Unbilled, vars, rowVars, billVars, lookVars, BillingTypes
<1>4. ASSUME NEW m \in Msgs, SubmitStep(m) \/ SubmitFault(m) PROVE Billed'
  <2>1. CASE SendDirect(m) \/ Enqueue(m) \/ Refuse(m) \/ Register(m) \/ SubmitFault(m)
    BY <1>1, <1>2, <2>1, SubmitQuiet
  <2>2. CASE Insert(m) \/ CountSubmit(m)
    BY <2>2, SubmitBilled
  <2> QED BY <1>4, <2>1, <2>2 DEF SubmitStep
<1>5. ASSUME NEW f \in Flushes, Bind(f) \/ FlushStep(f) \/ FlushError(f) PROVE Billed'
  <2>1. CASE \/ Bind(f) \/ FlushSend(f) \/ FlushFail(f) \/ FlushTaken(f)
             \/ FlushRegister(f) \/ FlushError(f)
    BY <1>1, <1>2, <2>1, FlushQuiet
  <2>2. CASE FlushUpdate(f) \/ FlushCount(f)
    BY <2>2, FlushBilled
  <2> QED BY <1>5, <2>1, <2>2 DEF FlushStep
<1>6. ASSUME NEW m \in Msgs, Age(m) \/ ExpireWrite(m) \/ ExpireFault(m) PROVE Billed'
  BY <1>1, <1>2, <1>6, SweepQuiet
<1>7. CASE Unbind \/ Expire
  BY <1>1, <1>2, <1>7 DEF Unbind, Expire, Unbilled, rowVars, billVars, lookVars,
         BillingTypes
<1>8. ASSUME NEW r \in Receipts, ReceiptStep(r) \/ JobFault(r) PROVE Billed'
  <2>1. CASE LateMatch(r)
    BY <2>1, LateBilled
  <2> QED BY <1>8, <2>1, JobBilled DEF ReceiptStep
<1>9. ASSUME NEW r \in Receipts, NEW m \in Msgs, NEW s \in Stats, Arrive(r, m, s) PROVE Billed'
  BY <1>9, ArriveBilled
<1>10. ASSUME NEW m \in Msgs, ChargeStep(m) \/ ChargeFault(m) PROVE Billed'
  BY <1>10, TasksBilled
<1>11. CASE Restart
  BY <1>11, RestartBilled
<1> QED BY <1>3, <1>4, <1>5, <1>6, <1>7, <1>8, <1>9, <1>10, <1>11
        DEF Next, Fault, FlushError

\* At first nothing is paid or reported.
LEMMA InitBilled == Init => CountsOnSubmit /\ Billed
<1> SUFFICES ASSUME Init PROVE CountsOnSubmit /\ Billed
  OBVIOUS
<1> USE DEF Init
<1>1. CountsOnSubmit
  BY DEF CountsOnSubmit, WillCount, NoFlush
<1>2. BillingTypes
  BY DEF BillingTypes, Statuses, NoCharge
<1>3. ReceiptTypes
  BY AndroidAssumption DEF ReceiptTypes, NoReceipt, AndroidAssumption
<1>4. WorkReported /\ PaidOnDelivery
  BY DEF WorkReported, PaidOnDelivery, NoReceipt
<1> QED BY <1>1, <1>2, <1>3, <1>4 DEF Billed

\* A side of the phone that is charged on delivery pays for a message only after a
\* DELIVRD receipt: no flush, expiry, failure receipt, recovery or restart, in
\* whatever order, makes it pay before, but for the client of a message that a flush
\* sent with neither mode read.
THEOREM PaidOnDeliveryHolds == Spec => []PaidOnDelivery
<1>2. CountsOnSubmit /\ Billed /\ [Next]_vars => (CountsOnSubmit /\ Billed)'
  BY CountsStep, BilledStep
<1>3. Billed => PaidOnDelivery
  BY DEF Billed
<1> QED BY <1>2, <1>3, InitBilled, PTL DEF Spec


-----------------------------------------------------------------------------
(* Where a queued message is *)

Batch == [pc : {"idle", "lookup", "wait", "update", "count", "register"},
          items : Seq(Msgs)]

SubmitPhases == {"new", "direct", "queued", "refused", "count", "register", "done",
                 "errored"}

HeldTypes ==
    /\ queue \in Seq(Msgs) /\ old \subseteq Range(queue) /\ expiring \subseteq Msgs
    /\ flush \in [Flushes -> Batch]
    /\ submit \in [Msgs -> SubmitPhases]

Carried(f) == Range(flush[f].items)

Held(m) == m \in Range(queue) \cup expiring \/ \E f \in Flushes : m \in Carried(f)

\* The queue, the batches of the flushes and the expired entries have nothing in
\* common, and a message that was not queued is in none of them.
Apart ==
    /\ Distinct(queue)
    /\ \A f \in Flushes : /\ Distinct(flush[f].items)
                          /\ flush[f].pc = "idle" <=> flush[f].items = <<>>
                          /\ Carried(f) \cap (Range(queue) \cup expiring) = {}
    /\ \A f, g \in Flushes : f # g => Carried(f) \cap Carried(g) = {}
    /\ Range(queue) \cap expiring = {}
    /\ \A m \in Msgs : submit[m] \in {"new", "direct", "refused"} => ~Held(m)

HeldInv == HeldTypes /\ Apart

\* Nothing has sent the message or given it up: it may still cost, and has not yet.
Waiting(m) ==
    \/ submit[m] \in {"new", "refused"}
    \/ m \in Range(queue) \cup expiring
    \/ \E f \in Flushes : /\ m \in Carried(f)
                          /\ m = Current(f) => flush[f].pc \in {"lookup", "wait", "update"}

\* A flush counts the item it is at.
Counts(m) == \E f \in Flushes : flush[f].pc = "count" /\ Current(f) = m

\* No step makes a message wait again, or holds one it was not given.
Moves ==
    \A m \in Msgs :
        /\ Waiting(m)' => Waiting(m)
        /\ Held(m)' => Held(m) \/ submit[m] = "new"
        /\ submit'[m] = "new" => submit[m] = "new"
        /\ Counts(m)' => Counts(m) \/ \E f \in Flushes : FlushUpdate(f) /\ Current(f) = m

\* Steps that move no entry: submission but for its queueing, receipts and charges
LEMMA HeldStays ==
    ASSUME HeldInv, UNCHANGED heldVars, submit' \in [Msgs -> SubmitPhases],
           \A m \in Msgs :
              \/ submit'[m] = submit[m]
              \/ submit[m] = "new" /\ submit'[m] \in {"direct", "refused"}
              \/ submit'[m] \notin {"new", "direct", "refused"}
    PROVE  HeldInv' /\ Moves
<1>1. UNCHANGED <<queue, old, expiring, flush>>
  BY DEF heldVars
<1>2. \A m \in Msgs : Held(m)' = Held(m)
  BY <1>1 DEF Held, Carried
<1>3. HeldTypes'
  BY <1>1 DEF HeldInv, HeldTypes
<1>4. \A m \in Msgs : submit'[m] \in {"new", "direct", "refused"}
                        => submit[m] \in {"new", "direct", "refused"}
  OBVIOUS
<1>5. Apart'
  BY <1>1, <1>2, <1>4 DEF HeldInv, Apart, Carried
<1>6. Moves
  <2>1. \A m \in Msgs : /\ submit'[m] \in {"new", "refused"} => submit[m] \in {"new", "refused"}
                        /\ submit'[m] = "new" => submit[m] = "new"
    OBVIOUS
  <2>2. \A m \in Msgs : Counts(m)' = Counts(m)
    BY <1>1 DEF Counts, Current
  <2>3. \A m \in Msgs : Waiting(m)' => Waiting(m)
    BY <1>1, <2>1 DEF Waiting, Carried, Current
  <2> QED BY <1>2, <2>1, <2>2, <2>3 DEF Moves
<1> QED BY <1>3, <1>5, <1>6 DEF HeldInv

\* Steps that divide what the queue and one flush hold between the two anew
LEMMA HeldDivided ==
    ASSUME HeldInv, NEW f \in Flushes, NEW b \in Batch,
           flush' = [flush EXCEPT ![f] = b],
           queue' \in Seq(Msgs), Distinct(b.items), Distinct(queue'),
           b.pc = "idle" <=> b.items = <<>>,
           Range(b.items) \cap Range(queue') = {},
           Range(b.items) \cup Range(queue') \subseteq Range(queue) \cup Carried(f),
           old' \subseteq Range(queue'), UNCHANGED <<expiring, submit>>
    PROVE  HeldInv' /\ \A m \in Msgs : Held(m)' => Held(m)
<1>1. /\ flush' \in [Flushes -> Batch]
      /\ flush'[f] = b /\ \A g \in Flushes \ {f} : flush'[g] = flush[g]
  BY DEF HeldInv, HeldTypes
<1>2. HeldTypes'
  BY <1>1 DEF HeldInv, HeldTypes
<1>3. Carried(f)' = Range(b.items) /\ \A g \in Flushes \ {f} : Carried(g)' = Carried(g)
  BY <1>1 DEF Carried
<1>4. \A m \in Msgs : Held(m)' => Held(m)
  BY <1>3 DEF Held
<1>5. /\ \A g, h \in Flushes : g # h => Carried(g) \cap Carried(h) = {}
      /\ \A g \in Flushes : Carried(g) \cap (Range(queue) \cup expiring) = {}
      /\ Range(queue) \cap expiring = {}
  BY DEF HeldInv, Apart
<1>6. Range(queue') \cap expiring' = {}
  BY <1>5
<1>7. \A g \in Flushes : Carried(g)' \cap (Range(queue') \cup expiring') = {}
  <2>1. ASSUME NEW g \in Flushes \ {f} PROVE Carried(g) \cap (Range(queue') \cup expiring') = {}
    BY <1>5
  <2>2. Range(b.items) \cap (Range(queue') \cup expiring') = {}
    BY <1>5
  <2> QED BY <1>3, <2>1, <2>2
<1>8. \A g, h \in Flushes : g # h => Carried(g)' \cap Carried(h)' = {}
  <2>1. ASSUME NEW g \in Flushes \ {f} PROVE Carried(g) \cap Range(b.items) = {}
    BY <1>5
  <2>2. \A g, h \in Flushes \ {f} : g # h => Carried(g)' \cap Carried(h)' = {}
    BY <1>3, <1>5
  <2> QED BY <1>3, <2>1, <2>2
<1>9. \A g \in Flushes : Distinct(flush'[g].items) /\ (flush'[g].pc = "idle" <=> flush'[g].items = <<>>)
  BY <1>1 DEF HeldInv, Apart
<1>10. \A m \in Msgs : submit'[m] \in {"new", "direct", "refused"} => ~Held(m)'
  BY <1>4 DEF HeldInv, Apart
<1>11. Apart'
  BY <1>6, <1>7, <1>8, <1>9, <1>10 DEF Apart
<1> QED BY <1>2, <1>4, <1>11 DEF HeldInv

\* A flush that goes to another state keeps its batch.
LEMMA HeldGoes ==
    ASSUME HeldInv, NEW f \in Flushes, flush[f].pc # "idle",
           NEW p \in {"wait", "update", "count", "register"}, FlushGoes(f, p),
           UNCHANGED <<queue, old, expiring, submit>>
    PROVE  /\ HeldInv' /\ \A m \in Msgs : Held(m)' => Held(m)
           /\ \A g \in Flushes : /\ flush'[g].pc = IF g = f THEN p ELSE flush[g].pc
                                 /\ flush'[g].items = flush[g].items
<1> DEFINE b == [flush[f] EXCEPT !.pc = p]
<1>1. flush[f] \in Batch /\ flush \in [Flushes -> Batch] /\ queue \in Seq(Msgs)
  BY DEF HeldInv, HeldTypes
<1>2. b \in Batch /\ b.pc = p /\ b.items = flush[f].items
  BY <1>1 DEF Batch
<1>3. flush' = [flush EXCEPT ![f] = b]
  BY <1>1 DEF FlushGoes
<1> HIDE DEF b
<1>4. /\ Distinct(b.items) /\ Distinct(queue') /\ (b.pc = "idle" <=> b.items = <<>>)
      /\ Range(b.items) \cap Range(queue') = {}
      /\ Range(b.items) \cup Range(queue') \subseteq Range(queue) \cup Carried(f)
      /\ old' \subseteq Range(queue')
  BY <1>2 DEF HeldInv, HeldTypes, Apart, Carried
<1>5. HeldInv' /\ \A m \in Msgs : Held(m)' => Held(m)
  BY <1>1, <1>2, <1>3, <1>4, HeldDivided
<1>6. \A g \in Flushes : /\ flush'[g].pc = IF g = f THEN p ELSE flush[g].pc
                         /\ flush'[g].items = flush[g].items
  BY <1>1, <1>2, <1>3
<1> QED BY <1>5, <1>6


\* The item a flush is at is one of its batch, and comes once.
LEMMA CurrentHeld ==
    ASSUME HeldInv, NEW f \in Flushes, flush[f].pc # "idle"
    PROVE  /\ flush[f].items # <<>> /\ flush[f].items \in Seq(Msgs)
           /\ Current(f) \in Msgs
           /\ Carried(f) = {Current(f)} \cup Range(Tail(flush[f].items))
           /\ Current(f) \notin Range(Tail(flush[f].items))
           /\ Tail(flush[f].items) \in Seq(Msgs) /\ Distinct(Tail(flush[f].items))
<1>1. flush[f] \in Batch
  BY DEF HeldInv, HeldTypes
<1>2. /\ flush[f].items # <<>> /\ flush[f].items \in Seq(Msgs) /\ Distinct(flush[f].items)
  BY <1>1 DEF HeldInv, Apart, Batch
<1> DEFINE q == flush[f].items
<1> HIDE DEF q
<1>3. /\ Head(q) \in Msgs /\ Tail(q) \in Seq(Msgs)
      /\ Range(q) = {Head(q)} \cup Range(Tail(q))
      /\ Distinct(Tail(q)) /\ Head(q) \notin Range(Tail(q))
  BY <1>2, RestOfQueue DEF q
<1> QED BY <1>2, <1>3 DEF q, Current, Carried

\* A flush turns to its next item, with the queue q: what it still carries waited.
LEMMA HeldNext ==
    ASSUME HeldInv, NEW f \in Flushes, flush[f].pc # "idle",
           NEW q, q \in Seq(Msgs), Distinct(q),
           Range(queue) \subseteq Range(q), Range(q) \subseteq Range(queue) \cup {Current(f)},
           NextItem(f, q), UNCHANGED <<old, expiring, submit>>
    PROVE  /\ HeldInv' /\ \A m \in Msgs : Held(m)' => Held(m)
           /\ flush'[f].pc \in {"idle", "lookup"}
           /\ \A g \in Flushes \ {f} : flush'[g] = flush[g]
           /\ Range(queue') \cup Carried(f)'
                \subseteq Range(q) \cup Range(Tail(flush[f].items))
<1> DEFINE rest == Tail(flush[f].items)
<1>1. /\ rest \in Seq(Msgs) /\ Distinct(rest) /\ Current(f) \notin Range(rest)
      /\ Carried(f) = {Current(f)} \cup Range(rest)
  BY CurrentHeld
<1>2. Range(queue) \cap Carried(f) = {} /\ old \subseteq Range(queue)
  BY DEF HeldInv, HeldTypes, Apart
<1>3. Range(q) \cap Range(rest) = {} /\ Range(q) \subseteq Range(queue) \cup Carried(f)
  BY <1>1, <1>2
<1>4. /\ flush \in [Flushes -> Batch]
      /\ <<>> \in Seq(Msgs) /\ Range(<<>>) = {} /\ Distinct(<<>>)
  BY EmptyQueue DEF HeldInv, HeldTypes
<1>5. ASSUME NEW b \in Batch, flush' = [flush EXCEPT ![f] = b],
             b.pc \in {"idle", "lookup"}, b.pc = "idle" <=> b.items = <<>>,
             Distinct(b.items), queue' \in Seq(Msgs), Distinct(queue'),
             Range(b.items) \cap Range(queue') = {}, Range(q) \subseteq Range(queue'),
             Range(b.items) \cup Range(queue') \subseteq Range(q) \cup Range(rest)
      PROVE  /\ HeldInv' /\ \A m \in Msgs : Held(m)' => Held(m)
             /\ flush'[f].pc \in {"idle", "lookup"}
             /\ \A g \in Flushes \ {f} : flush'[g] = flush[g]
             /\ Range(queue') \cup Carried(f)' \subseteq Range(q) \cup Range(rest)
  <2>1. /\ Range(b.items) \cup Range(queue') \subseteq Range(queue) \cup Carried(f)
        /\ old' \subseteq Range(queue')
    BY <1>1, <1>2, <1>3, <1>5
  <2>2. HeldInv' /\ \A m \in Msgs : Held(m)' => Held(m)
    BY <1>5, <2>1, HeldDivided
  <2>3. flush'[f] = b /\ \A g \in Flushes \ {f} : flush'[g] = flush[g]
    BY <1>4, <1>5
  <2> QED BY <1>5, <2>2, <2>3 DEF Carried
<1>6. NoFlush \in Batch /\ NoFlush.pc = "idle" /\ NoFlush.items = <<>>
  BY <1>4 DEF NoFlush, Batch
<1> HIDE DEF rest
<1>7. CASE rest = <<>>
  <2>1. flush' = [flush EXCEPT ![f] = NoFlush] /\ queue' = q
    BY <1>7 DEF NextItem, rest
  <2> QED BY <1>4, <1>5, <1>6, <2>1 DEF rest
<1>8. CASE rest # <<>> /\ ~bound
  <2>1. flush' = [flush EXCEPT ![f] = NoFlush] /\ queue' = <<Head(rest)>> \o q
    BY <1>8 DEF NextItem, rest
  <2>2. Head(rest) \in Msgs /\ Head(rest) \in Range(rest)
    BY <1>1, <1>8, RestOfQueue
  <2>3. /\ queue' \in Seq(Msgs) /\ Range(queue') = {Head(rest)} \cup Range(q)
        /\ Distinct(queue')
    BY <1>3, <2>1, <2>2, FrontQueue
  <2> QED BY <1>4, <1>5, <1>6, <2>1, <2>2, <2>3 DEF rest
<1>9. CASE rest # <<>> /\ bound
  <2> DEFINE b == [pc |-> "lookup", items |-> rest]
  <2>1. flush' = [flush EXCEPT ![f] = b] /\ queue' = q
    BY <1>9 DEF NextItem, rest
  <2>2. b \in Batch /\ b.pc = "lookup" /\ b.items = rest
    BY <1>1 DEF Batch
  <2> HIDE DEF b
  <2> QED BY <1>1, <1>3, <1>5, <1>9, <2>1, <2>2 DEF rest
<1> QED BY <1>7, <1>8, <1>9

\* An item that is put back is in no other place.
LEMMA RequeuedQueue ==
    ASSUME HeldInv, NEW f \in Flushes, flush[f].pc # "idle"
    PROVE  /\ Requeued(Current(f)) \in Seq(Msgs) /\ Distinct(Requeued(Current(f)))
           /\ Range(Requeued(Current(f))) = {Current(f)} \cup Range(queue)
<1>1. Current(f) \in Msgs /\ Current(f) \in Carried(f)
  BY CurrentHeld
<1>2. queue \in Seq(Msgs) /\ Distinct(queue) /\ Current(f) \notin Range(queue)
  BY <1>1 DEF HeldInv, HeldTypes, Apart
<1> QED BY <1>1, <1>2, FrontQueue DEF Requeued


\* Submission: a message enters the queue when it is new, and only then.
LEMMA SubmitHeld ==
    ASSUME HeldInv, NEW m \in Msgs, SubmitStep(m) \/ SubmitFault(m)
    PROVE  HeldInv' /\ Moves
<1>1. submit \in [Msgs -> SubmitPhases]
  BY DEF HeldInv, HeldTypes
<1>2. ASSUME NEW p \in SubmitPhases, submit' = [submit EXCEPT ![m] = p], UNCHANGED heldVars,
             \/ submit[m] = "new" /\ p \in {"direct", "refused"}
             \/ p \notin {"new", "direct", "refused"}
      PROVE  HeldInv' /\ Moves
  BY <1>1, <1>2, HeldStays
<1>3. CASE SendDirect(m)
  BY <1>2, <1>3 DEF SendDirect, SubmitPhases
<1>4. CASE Refuse(m)
  BY <1>2, <1>4 DEF Refuse, SubmitPhases
<1>5. CASE Insert(m)
  <2> DEFINE p == IF ~Sent(m) THEN "done"
                  ELSE IF Entry[m] = "fallback" /\ ~IsDlrCharged(clientMode) THEN "count"
                  ELSE "register"
  <2>1. submit' = [submit EXCEPT ![m] = p] /\ UNCHANGED heldVars
    BY <1>5 DEF Insert
  <2>2. p \in {"done", "count", "register"}
    OBVIOUS
  <2> HIDE DEF p
  <2> QED BY <1>2, <2>1, <2>2 DEF SubmitPhases
<1>6. CASE CountSubmit(m)
  BY <1>2, <1>6 DEF CountSubmit, SubmitPhases
<1>7. CASE Register(m)
  BY <1>2, <1>7 DEF Register, SubmitPhases
<1>8. CASE SubmitFault(m)
  BY <1>2, <1>8 DEF SubmitFault, SubmitPhases
<1>9. CASE Enqueue(m)
  <2>1. /\ submit[m] = "new" /\ submit' = [submit EXCEPT ![m] = "queued"]
        /\ queue' = Append(queue, m) /\ UNCHANGED <<old, expiring, flush>>
    BY <1>9 DEF Enqueue
  <2>2. queue \in Seq(Msgs) /\ Distinct(queue) /\ ~Held(m)
    BY <2>1 DEF HeldInv, HeldTypes, Apart
  <2>3. /\ m \notin Range(queue) /\ m \notin expiring
        /\ \A f \in Flushes : m \notin Carried(f)
    BY <2>2 DEF Held
  <2>4. queue' \in Seq(Msgs) /\ Range(queue') = Range(queue) \cup {m} /\ Distinct(queue')
    BY <2>1, <2>2, <2>3, AppendQueue
  <2>5. \A n \in Msgs : Held(n)' <=> Held(n) \/ n = m
    BY <2>1, <2>4 DEF Held, Carried
  <2>6. /\ submit' \in [Msgs -> SubmitPhases] /\ submit'[m] = "queued"
        /\ \A n \in Msgs \ {m} : submit'[n] = submit[n]
    BY <1>1, <2>1 DEF SubmitPhases
  <2>7. HeldTypes'
    BY <2>1, <2>4, <2>6 DEF HeldInv, HeldTypes
  <2>8. Apart'
    <3>1. \A n \in Msgs : submit'[n] \in {"new", "direct", "refused"} => ~Held(n)'
      BY <2>5, <2>6 DEF HeldInv, Apart
    <3>2. /\ Range(queue') \cap expiring' = {}
          /\ \A f \in Flushes : Carried(f) \cap (Range(queue') \cup expiring') = {}
      BY <2>1, <2>3, <2>4 DEF HeldInv, Apart
    <3> QED BY <2>1, <2>4, <3>1, <3>2 DEF HeldInv, Apart, Carried
  <2>9. \A n \in Msgs : Waiting(n)' => Waiting(n)
    BY <2>1, <2>4, <2>6 DEF Waiting, Carried, Current
  <2>10. \A n \in Msgs : Counts(n)' = Counts(n)
    BY <2>1 DEF Counts, Current
  <2> QED BY <2>1, <2>5, <2>6, <2>7, <2>8, <2>9, <2>10 DEF HeldInv, Moves
<1> QED BY <1>3, <1>4, <1>5, <1>6, <1>7, <1>8, <1>9 DEF SubmitStep

\* A bind hands the whole queue to its flush.
LEMMA BindHeld ==
    ASSUME HeldInv, NEW f \in Flushes, Bind(f)
    PROVE  HeldInv' /\ Moves
<1>1. /\ flush \in [Flushes -> Batch] /\ queue \in Seq(Msgs) /\ Distinct(queue)
      /\ flush[f].pc = "idle" /\ flush[f].items = <<>>
  BY DEF Bind, HeldInv, HeldTypes, Apart
<1>2. queue' = <<>> /\ old' = {} /\ UNCHANGED <<expiring, submit>>
  BY DEF Bind, Undrained, Refreshed
<1>3. queue' \in Seq(Msgs) /\ Range(queue') = {} /\ Distinct(queue')
  BY <1>2, EmptyQueue
<1> DEFINE b == IF queue = <<>> THEN flush[f] ELSE [pc |-> "lookup", items |-> queue]
<1>4. flush' = [flush EXCEPT ![f] = b]
  BY <1>1 DEF Bind
<1>5. /\ b \in Batch /\ b.pc \in {"idle", "lookup"} /\ b.items = queue
      /\ b.pc = "idle" <=> b.items = <<>>
  BY <1>1 DEF Batch
<1> HIDE DEF b
<1>6. HeldInv' /\ \A m \in Msgs : Held(m)' => Held(m)
  BY <1>1, <1>2, <1>3, <1>4, <1>5, HeldDivided
<1>7. flush'[f] = b /\ \A g \in Flushes \ {f} : flush'[g] = flush[g]
  BY <1>1, <1>4
<1>8. \A m \in Msgs : Waiting(m)' => Waiting(m)
  BY <1>2, <1>3, <1>5, <1>7 DEF Waiting, Carried, Current
<1>9. \A m \in Msgs : Counts(m)' => Counts(m)
  BY <1>5, <1>7 DEF Counts, Current
<1> QED BY <1>2, <1>6, <1>8, <1>9 DEF Moves

\* A flush that loses its connection to the database drops its batch.
LEMMA LostHeld ==
    ASSUME HeldInv, NEW f \in Flushes, FlushLost(f)
    PROVE  HeldInv' /\ Moves
<1>1. /\ flush' = [flush EXCEPT ![f] = NoFlush]
      /\ UNCHANGED <<queue, old, expiring, submit>>
  BY DEF FlushLost
<1>2. /\ flush \in [Flushes -> Batch] /\ queue \in Seq(Msgs) /\ Distinct(queue)
      /\ old \subseteq Range(queue)
  BY DEF HeldInv, HeldTypes, Apart
<1>3. /\ NoFlush \in Batch /\ NoFlush.pc = "idle" /\ NoFlush.items = <<>>
      /\ Range(NoFlush.items) = {} /\ Distinct(NoFlush.items)
  BY EmptyQueue DEF NoFlush, Batch
<1>4. HeldInv' /\ \A m \in Msgs : Held(m)' => Held(m)
  BY <1>1, <1>2, <1>3, HeldDivided
<1>5. flush'[f] = NoFlush /\ \A g \in Flushes \ {f} : flush'[g] = flush[g]
  BY <1>1, <1>2
<1>6. \A m \in Msgs : Waiting(m)' => Waiting(m)
  BY <1>1, <1>3, <1>5 DEF Waiting, Carried, Current
<1>7. \A m \in Msgs : Counts(m)' => Counts(m)
  BY <1>3, <1>5 DEF Counts, Current
<1> QED BY <1>1, <1>4, <1>6, <1>7 DEF Moves

\* A flush that fails or finishes an item turns to the next, or puts it back.
LEMMA TurnHeld ==
    ASSUME HeldInv, NEW f \in Flushes, flush[f].pc # "idle", NEW q,
           \/ q = queue
           \/ q = Requeued(Current(f)) /\ flush[f].pc \in {"lookup", "wait", "update"},
           NextItem(f, q), UNCHANGED <<old, expiring, submit>>
    PROVE  HeldInv' /\ Moves
<1>1. queue \in Seq(Msgs) /\ Distinct(queue)
  BY DEF HeldInv, HeldTypes, Apart
<1>2. /\ q \in Seq(Msgs) /\ Distinct(q) /\ Range(queue) \subseteq Range(q)
      /\ Range(q) \subseteq Range(queue) \cup {Current(f)}
      /\ Current(f) \in Range(q) \ Range(queue) => flush[f].pc \in {"lookup", "wait", "update"}
  <2>1. CASE q = queue
    BY <1>1, <2>1
  <2>2. CASE q = Requeued(Current(f)) /\ flush[f].pc \in {"lookup", "wait", "update"}
    BY <2>2, RequeuedQueue
  <2> QED BY <2>1, <2>2
<1> DEFINE rest == Range(Tail(flush[f].items))
<1>3. /\ HeldInv' /\ \A m \in Msgs : Held(m)' => Held(m)
      /\ flush'[f].pc \in {"idle", "lookup"}
      /\ \A g \in Flushes \ {f} : flush'[g] = flush[g]
      /\ Range(queue') \cup Carried(f)' \subseteq Range(q) \cup rest
  BY <1>2, HeldNext
<1>4. Carried(f) = {Current(f)} \cup rest /\ Current(f) \notin rest
  BY CurrentHeld
<1> HIDE DEF rest
<1>5. \A m \in Range(q) \cup rest : Waiting(m)
  BY <1>2, <1>4 DEF Waiting
<1>6. ASSUME NEW m \in Msgs, Waiting(m)' PROVE Waiting(m)
  <2>1. CASE submit'[m] \in {"new", "refused"} \/ m \in expiring'
    BY <2>1 DEF Waiting
  <2>2. CASE m \in Range(queue') \/ m \in Carried(f)'
    BY <1>3, <1>5, <2>2
  <2>3. ASSUME NEW g \in Flushes \ {f}, m \in Carried(g)',
               (m = Current(g) => flush[g].pc \in {"lookup", "wait", "update"})'
        PROVE  Waiting(m)
    BY <1>3, <2>3 DEF Waiting, Carried, Current
  <2> QED BY <1>6, <2>1, <2>2, <2>3 DEF Waiting
<1>7. \A m \in Msgs : Counts(m)' => Counts(m)
  BY <1>3 DEF Counts, Current
<1> QED BY <1>3, <1>6, <1>7 DEF Moves

\* Flushing: an item that is sent, counted or given up waits no longer.
LEMMA FlushHeld ==
    ASSUME HeldInv, NEW f \in Flushes, FlushStep(f) \/ FlushError(f)
    PROVE  HeldInv' /\ Moves
<1>1. flush[f].pc # "idle"
  BY DEF FlushStep, FlushSend, Sending, FlushFail, FlushTaken, FlushUpdate, FlushCount, FlushRegister,
         FlushError, FlushFault, FlushBlind, FlushLost
<1>2. ASSUME NEW p \in {"wait", "update", "count", "register"}, FlushGoes(f, p),
             UNCHANGED <<queue, old, expiring, submit>>,
             p \in {"wait", "update"} => flush[f].pc \in {"lookup", "wait"},
             p = "count" => FlushUpdate(f)
      PROVE  HeldInv' /\ Moves
  <2>1. /\ HeldInv' /\ \A m \in Msgs : Held(m)' => Held(m)
        /\ \A g \in Flushes : /\ flush'[g].pc = IF g = f THEN p ELSE flush[g].pc
                              /\ flush'[g].items = flush[g].items
    BY <1>1, <1>2, HeldGoes
  <2>2. \A g \in Flushes : Current(g)' = Current(g) /\ Carried(g)' = Carried(g)
    BY <2>1 DEF Current, Carried
  <2>3. \A m \in Msgs : Waiting(m)' => Waiting(m)
    BY <1>2, <2>1, <2>2 DEF Waiting
  <2>4. \A m \in Msgs : Counts(m)' => Counts(m) \/ \E g \in Flushes : FlushUpdate(g) /\ Current(g) = m
    BY <1>2, <2>1, <2>2 DEF Counts
  <2> QED BY <1>2, <2>1, <2>3, <2>4 DEF Moves
<1>3. CASE FlushSend(f) \/ FlushBlind(f)
  <2>1. /\ FlushGoes(f, "wait") /\ flush[f].pc = "lookup"
        /\ UNCHANGED <<queue, old, expiring, submit>>
    BY <1>3 DEF FlushSend, FlushBlind, Sending, FlushGoes
  <2> QED BY <1>2, <2>1
<1>4. CASE FlushTaken(f)
  BY <1>2, <1>4 DEF FlushTaken, FlushGoes
<1>5. CASE FlushUpdate(f)
  <2> DEFINE p == IF IsDlrCharged(ReadClient(billing[f])) THEN "register" ELSE "count"
  <2>1. FlushGoes(f, p) /\ UNCHANGED <<queue, old, expiring, submit>>
    BY <1>5 DEF FlushUpdate, FlushGoes
  <2>2. p \in {"register", "count"}
    OBVIOUS
  <2> HIDE DEF p
  <2> QED BY <1>2, <1>5, <2>1, <2>2
<1>6. CASE FlushCount(f) \/ FlushFault(f)
  BY <1>2, <1>6 DEF FlushCount, FlushFault, FlushGoes
<1>7. CASE FlushFail(f)
  BY <1>1, <1>7, TurnHeld DEF FlushFail
<1>8. CASE FlushRegister(f)
  BY <1>1, <1>8, TurnHeld DEF FlushRegister, AfterRegister
<1> QED BY <1>3, <1>4, <1>5, <1>6, <1>7, <1>8, LostHeld DEF FlushStep, FlushError


\* The sweep takes what it expires out of the queue, and drops it with its UPDATE.
LEMMA SweepHeld ==
    ASSUME HeldInv,
           Expire \/ \E m \in Msgs : Age(m) \/ ExpireWrite(m) \/ ExpireFault(m)
    PROVE  HeldInv' /\ Moves
<1>1. CASE \E m \in Msgs : Age(m)
  <2>1. /\ UNCHANGED <<queue, expiring, flush, submit>> /\ old' \subseteq Range(queue)
    BY <1>1 DEF Age, HeldInv, HeldTypes
  <2>2. HeldTypes' /\ Apart'
    BY <2>1 DEF HeldInv, HeldTypes, Apart, Held, Carried
  <2> QED BY <2>1, <2>2 DEF HeldInv, Moves, Waiting, Held, Carried, Counts, Current
<1>2. ASSUME UNCHANGED <<flush, submit>>, queue' \in Seq(Msgs), Distinct(queue'),
             Range(queue') \cup expiring' \subseteq Range(queue) \cup expiring,
             Range(queue') \cap expiring' = {}, old' \subseteq Range(queue')
      PROVE  HeldInv' /\ Moves
  <2>1. expiring' \subseteq Msgs
    BY <1>2, RangeOfSeq DEF HeldInv, HeldTypes
  <2>2. HeldTypes'
    BY <1>2, <2>1 DEF HeldInv, HeldTypes
  <2>3. \A m \in Msgs : (Held(m)' => Held(m)) /\ (Waiting(m)' => Waiting(m)) /\ Counts(m)' = Counts(m)
    BY <1>2 DEF Held, Waiting, Counts, Carried, Current
  <2>4. Apart'
    <3>1. \A m \in Msgs : submit'[m] \in {"new", "direct", "refused"} => ~Held(m)'
      BY <1>2, <2>3 DEF HeldInv, Apart
    <3>2. \A f \in Flushes : Carried(f)' \cap (Range(queue') \cup expiring') = {}
      BY <1>2 DEF HeldInv, Apart, Carried
    <3> QED BY <1>2, <3>1, <3>2 DEF HeldInv, Apart, Carried
  <2> QED BY <1>2, <2>2, <2>3, <2>4 DEF HeldInv, Moves
<1>3. CASE Expire
  <2>1. /\ queue' = Without(queue, old) /\ expiring' = expiring \cup old
        /\ old' = {} /\ UNCHANGED <<flush, submit>>
    BY <1>3 DEF Expire, Overdue
  <2>2. /\ queue' \in Seq(Msgs) /\ Range(queue') = Range(queue) \ old /\ Distinct(queue')
    BY <2>1, WithoutQueue DEF HeldInv, HeldTypes, Apart
  <2>3. Range(queue) \cap expiring = {} /\ old \subseteq Range(queue)
    BY DEF HeldInv, HeldTypes, Apart
  <2> QED BY <1>2, <2>1, <2>2, <2>3
<1>4. CASE \E m \in Msgs : ExpireWrite(m) \/ ExpireFault(m)
  <2>1. UNCHANGED <<queue, old, flush, submit>> /\ expiring' \subseteq expiring
    BY <1>4 DEF ExpireWrite, ExpireFault
  <2>2. /\ queue \in Seq(Msgs) /\ Distinct(queue) /\ old \subseteq Range(queue)
        /\ Range(queue) \cap expiring = {}
    BY DEF HeldInv, HeldTypes, Apart
  <2> QED BY <1>2, <2>1, <2>2
<1> QED BY <1>1, <1>3, <1>4

\* A restart holds nothing any longer.
LEMMA RestartHeld ==
    ASSUME HeldInv, Restart
    PROVE  HeldInv' /\ Moves
<1>1. /\ queue' = <<>> /\ old' = {} /\ expiring' = {}
      /\ flush' = [f \in Flushes |-> NoFlush]
  BY DEF Restart
<1>2. /\ queue' \in Seq(Msgs) /\ Range(queue') = {} /\ Distinct(queue')
      /\ <<>> \in Seq(Msgs) /\ Range(<<>>) = {} /\ Distinct(<<>>)
  BY <1>1, EmptyQueue
<1>3. \A f \in Flushes : flush'[f] = NoFlush /\ Carried(f)' = {}
  BY <1>1, <1>2 DEF NoFlush, Carried
<1>4. /\ submit' \in [Msgs -> SubmitPhases]
      /\ \A m \in Msgs : submit'[m] = submit[m] \/ submit'[m] = "errored"
      /\ \A m \in Msgs : submit'[m] # "refused"
  BY DEF Restart, HeldInv, HeldTypes, SubmitPhases
<1>5. \A m \in Msgs : ~Held(m)'
  BY <1>1, <1>2, <1>3 DEF Held
<1>6. HeldTypes'
  BY <1>1, <1>2, <1>4 DEF HeldTypes, NoFlush, Batch
<1>7. Apart'
  BY <1>1, <1>2, <1>3, <1>5 DEF Apart, NoFlush
<1>8. \A m \in Msgs : Waiting(m)' => Waiting(m)
  BY <1>1, <1>2, <1>3, <1>4 DEF Waiting
<1>9. \A m \in Msgs : ~Counts(m)'
  BY <1>3 DEF Counts, NoFlush
<1> QED BY <1>4, <1>5, <1>6, <1>7, <1>8, <1>9 DEF HeldInv, Moves

\* Whatever happens, an entry is in one place and moves only forward.
LEMMA HeldStep == HeldInv /\ [Next]_vars => HeldInv' /\ Moves
<1> SUFFICES ASSUME HeldInv, [Next]_vars PROVE HeldInv' /\ Moves
  OBVIOUS
<1>1. ASSUME UNCHANGED <<heldVars, submit>> PROVE HeldInv' /\ Moves
  BY <1>1, HeldStays DEF HeldInv, HeldTypes
<1>2. CASE UNCHANGED vars
  BY <1>1, <1>2 DEF vars
<1>3. ASSUME NEW m \in Msgs, ChargeStep(m) \/ ChargeFault(m) PROVE HeldInv' /\ Moves
  BY SMTT(40), <1>1, <1>3 DEF ChargeStep, ChargeCost, ChargeBlank, ChargeCounter, ChargeSupplier, ChargeFault
<1>4. ASSUME NEW r \in Receipts, ReceiptStep(r) \/ JobFault(r) \/ (\E m \in Msgs, s \in Stats : Arrive(r, m, s))
      PROVE  HeldInv' /\ Moves
  BY <1>1, <1>4 DEF ReceiptStep, LateMatch, RecoverRead, RecoverWrite, RecoverEnd, JobRead,
                    JobCount, JobWrite, JobFault, Arrive
<1>5. CASE Unbind
  BY <1>1, <1>5 DEF Unbind
<1> QED BY <1>2, <1>3, <1>4, <1>5, SubmitHeld, BindHeld, FlushHeld, SweepHeld, RestartHeld
        DEF Next, Fault, FlushError

\* At first nothing is queued.
LEMMA InitHeld == Init => HeldInv
<1> SUFFICES ASSUME Init PROVE HeldInv
  OBVIOUS
<1>1. <<>> \in Seq(Msgs) /\ Range(<<>>) = {} /\ Distinct(<<>>)
  BY EmptyQueue
<1>2. HeldTypes
  BY <1>1 DEF Init, HeldTypes, Batch, NoFlush, SubmitPhases
<1>3. \A f \in Flushes : flush[f] = NoFlush /\ Carried(f) = {}
  BY <1>1 DEF Init, Carried, NoFlush
<1>4. Apart
  BY <1>1, <1>3 DEF Init, Apart, Held, NoFlush
<1> QED BY <1>2, <1>4 DEF HeldInv

\* A queued message is in one place, whatever binds, expiries, refusals and restarts
\* come between: no two flushes send the same entry, and the sweep fails none that a
\* flush is delivering (drainServerMtQueue, requeueServerMt, the TTL sweep).
THEOREM HeldOnceHolds == Spec => []HeldOnce
<1>1. HeldInv /\ [Next]_vars => HeldInv'
  BY HeldStep
<1>2. HeldInv => HeldOnce
  <2> SUFFICES ASSUME HeldInv PROVE HeldOnce
    OBVIOUS
  <2>1. ASSUME NEW q \in Seq(Msgs), Distinct(q) PROVE NoRepeats(q)
    BY <2>1 DEF NoRepeats, Distinct
  <2>2. queue \in Seq(Msgs) /\ \A f \in Flushes : flush[f].items \in Seq(Msgs)
    BY DEF HeldInv, HeldTypes, Batch
  <2>3. NoRepeats(queue) /\ \A f \in Flushes : NoRepeats(flush[f].items)
    BY <2>1, <2>2 DEF HeldInv, Apart
  <2>4. ASSUME NEW m \in Msgs PROVE Cardinality(Places(m)) <= 1
    <3>1. ASSUME NEW p, Places(m) \subseteq {p} PROVE Cardinality(Places(m)) <= 1
      <4>1. IsFiniteSet({p}) /\ Cardinality({p}) = 1
        BY FS_Singleton
      <4> QED BY <3>1, <4>1, FS_Subset
    <3>2. /\ \A f \in Flushes : Carried(f) \cap (Range(queue) \cup expiring) = {}
          /\ \A f, g \in Flushes : f # g => Carried(f) \cap Carried(g) = {}
          /\ Range(queue) \cap expiring = {}
      BY DEF HeldInv, Apart
    <3>3. CASE m \in Range(queue)
      <4>1. Places(m) \subseteq {"queue"}
        BY <3>2, <3>3 DEF Places, InFlush, Carried
      <4> QED BY <3>1, <4>1
    <3>4. CASE m \in expiring
      <4>1. Places(m) \subseteq {"expiring"}
        BY <3>2, <3>4 DEF Places, InQueue, InFlush, Carried
      <4> QED BY <3>1, <4>1
    <3>5. CASE m \notin Range(queue) \cup expiring
      <4>1. CASE \E f \in Flushes : m \in Carried(f)
        <5>1. PICK f \in Flushes : m \in Carried(f)
          BY <4>1
        <5>2. Places(m) \subseteq {f}
          BY <3>2, <3>5, <5>1 DEF Places, InQueue, InFlush, Carried
        <5> QED BY <3>1, <5>2
      <4>2. CASE \A f \in Flushes : m \notin Carried(f)
        <5>1. Places(m) \subseteq {"queue"}
          BY <3>5, <4>2 DEF Places, InQueue, InFlush, Carried
        <5> QED BY <3>1, <5>1
      <4> QED BY <4>1, <4>2
    <3> QED BY <3>3, <3>4, <3>5
  <2> QED BY <2>3, <2>4 DEF HeldOnce
<1> QED BY <1>1, <1>2, InitHeld, PTL DEF Spec


-----------------------------------------------------------------------------
(* What a queued message costs *)

Unreported(m) == \A r \in Receipts : receipt[r].msg # m

\* No task that charges the client is left.
Settled(c) == c.cost = 0 /\ c.blank = 0 /\ c.counter = 0

Free(m) == counted[m] = 0 /\ cost[m] = 0 /\ supplierCost[m] = 0

\* A message of the ANDROID_SMS path has cost nothing while it waits, and one that
\* failed unreported never waits again; a client charged on submission has no task of
\* a callback that charges it, and has not paid for what is waiting or being counted.
UnpaidFor(m) ==
    /\ submit[m] # "count"
    /\ Unreported(m) /\ (Waiting(m) \/ status[m] = "FAILED") => Free(m)
    /\ Unreported(m) /\ status[m] = "FAILED" => ~Held(m) /\ submit[m] # "new"
    /\ ~IsDlrCharged(clientMode) =>
          /\ counted[m] <= 1 /\ Settled(charge[m])
          /\ Waiting(m) \/ Counts(m) => counted[m] = 0

\* The handler of a receipt counts for a client charged on delivery alone.
CountsOnDelivery ==
    \A r \in Receipts : receipt[r].pc = "count" => IsDlrCharged(clientMode)

Unpaid ==
    /\ \A m \in Msgs : Entry[m] = "android" => UnpaidFor(m)
    /\ CountsOnDelivery

\* A receipt once named is named for good, and its handler counts only after it found
\* the client charged on delivery.
LEMMA ReportsStay ==
    ASSUME Billed, CountsOnDelivery, [Next]_vars
    PROVE  CountsOnDelivery' /\ \A m \in Msgs : Unreported(m)' => Unreported(m)
<1> DEFINE Good == /\ CountsOnDelivery'
                   /\ \A q \in Receipts : receipt[q].msg \in Msgs => receipt'[q].msg = receipt[q].msg
<1>1. SUFFICES Good
  BY DEF Unreported
<1>2. clientMode' = clientMode
  <2>1. ASSUME NEW m \in Msgs,
               \/ SubmitStep(m) \/ SubmitFault(m) \/ Age(m) \/ ExpireWrite(m) \/ ExpireFault(m)
               \/ ChargeStep(m) \/ ChargeFault(m)
        PROVE  UNCHANGED modeVars
    BY <2>1 DEF SubmitStep, SendDirect, Enqueue, Refuse, Insert, CountSubmit, Register,
         SubmitFault, Age, ExpireWrite, ExpireFault, ChargeStep, ChargeCost, ChargeBlank, ChargeCounter,
         ChargeSupplier, ChargeFault
  <2>2. ASSUME NEW f \in Flushes, Bind(f) \/ FlushStep(f) \/ FlushError(f)
        PROVE  UNCHANGED modeVars
    BY SMTT(40), <2>2 DEF Bind, FlushStep, FlushSend, Sending, FlushFail, FlushTaken, FlushUpdate, FlushCount,
         FlushRegister, FlushError, FlushFault, FlushBlind, FlushLost
  <2>3. ASSUME NEW r \in Receipts,
               ReceiptStep(r) \/ JobFault(r) \/ (\E m \in Msgs, s \in Stats : Arrive(r, m, s))
        PROVE  UNCHANGED modeVars
    BY <2>3 DEF ReceiptStep, LateMatch, RecoverRead, RecoverWrite, RecoverEnd, JobRead,
         JobCount, JobWrite, JobFault, Arrive
  <2>4. CASE Unbind \/ Expire \/ Restart \/ UNCHANGED vars
    BY <2>4 DEF Unbind, Expire, Restart, vars, modeVars
  <2> QED BY <2>1, <2>2, <2>3, <2>4 DEF Next, Fault, FlushError, modeVars
<1>3. ReceiptTypes
  BY DEF Billed
<1>4. CASE receipt' = receipt
  BY <1>2, <1>4 DEF CountsOnDelivery, IsDlrCharged
<1>5. ASSUME NEW r \in Receipts, NEW c, receipt' = [receipt EXCEPT ![r] = c],
             receipt[r].pc = "idle" \/ c.msg = receipt[r].msg,
             c.pc = "count" => IsDlrCharged(clientMode)
      PROVE  Good
  <2>1. CountsOnDelivery'
    BY <1>2, <1>3, <1>5 DEF CountsOnDelivery, ReceiptTypes, IsDlrCharged
  <2>2. \A q \in Receipts : receipt[q].msg \in Msgs => receipt'[q].msg = receipt[q].msg
    BY <1>3, <1>5, AndroidAssumption DEF ReceiptTypes, AndroidAssumption
  <2> QED BY <2>1, <2>2
<1> HIDE DEF Good
<1>6. ASSUME NEW r \in Receipts, LateMatch(r) PROVE Good
  <2> DEFINE c == [NoReceipt EXCEPT !.pc = "select", !.msg = receipt[r].msg, !.stat = receipt[r].stat]
  <2>1. receipt' = [receipt EXCEPT ![r] = c] /\ c.msg = receipt[r].msg /\ c.pc = "select"
    BY <1>6 DEF LateMatch, Fire, NoReceipt
  <2> HIDE DEF c
  <2> QED BY <1>5, <2>1
<1>7. ASSUME NEW r \in Receipts, NEW m \in Msgs, NEW s \in Stats, Arrive(r, m, s) PROVE Good
  <2>1. receipt[r].pc = "idle"
    BY <1>7 DEF Arrive
  <2>2. ASSUME NEW p \in {"select", "grace"},
               receipt' = [receipt EXCEPT ![r] = [NoReceipt EXCEPT !.pc = p, !.msg = m, !.stat = s]]
        PROVE  Good
    <3> DEFINE c == [NoReceipt EXCEPT !.pc = p, !.msg = m, !.stat = s]
    <3>1. receipt' = [receipt EXCEPT ![r] = c] /\ c.pc = p
      BY <2>2 DEF NoReceipt
    <3> HIDE DEF c
    <3> QED BY <1>5, <2>1, <3>1
  <2>3. CASE Fire(r, m, s)
    BY <2>2, <2>3 DEF Fire
  <2>4. CASE ~Fire(r, m, s)
    BY <1>7, <2>2, <2>4 DEF Arrive
  <2> QED BY <2>3, <2>4
<1>8. ASSUME NEW r \in Receipts,
             \/ RecoverRead(r) \/ RecoverWrite(r) \/ RecoverEnd(r) \/ JobRead(r)
             \/ JobCount(r) \/ JobWrite(r) \/ JobFault(r)
      PROVE  Good
  <2>1. PICK c : Handled(r, c)
    BY <1>8, JobHandled
  <2>2. receipt' = [receipt EXCEPT ![r] = c] /\ c.msg = receipt[r].msg /\ receipt'[r] = c
    BY <1>3, <2>1 DEF Handled, ReceiptTypes
  <2>3. receipt'[r].pc = "count" => IsDlrCharged(clientMode)
    <3>1. CASE JobRead(r)
      BY <1>3, <3>1 DEF JobRead, ReceiptTypes
    <3>2. CASE RecoverRead(r) \/ RecoverWrite(r) \/ RecoverEnd(r)
      BY <1>3, <3>2, ZenonT(40) DEF RecoverRead, RecoverWrite, RecoverEnd, Closed, ReceiptTypes
    <3>3. CASE JobCount(r) \/ JobWrite(r)
      BY <1>3, <3>3, ZenonT(40) DEF JobCount, JobWrite, Closed, ReceiptTypes
    <3>4. CASE JobFault(r)
      BY <1>3, <3>4, ZenonT(40) DEF JobFault, Closed, ReceiptTypes
    <3> QED BY <1>8, <3>1, <3>2, <3>3, <3>4
  <2> QED BY <1>5, <2>2, <2>3
<1>9. CASE Restart
  BY <1>3, <1>9 DEF Good, Restart, ReceiptTypes, CountsOnDelivery
<1>10. ASSUME NEW m \in Msgs,
              \/ SubmitStep(m) \/ SubmitFault(m) \/ Age(m) \/ ExpireWrite(m) \/ ExpireFault(m)
              \/ ChargeStep(m) \/ ChargeFault(m)
       PROVE  receipt' = receipt
  BY <1>10 DEF SubmitStep, SendDirect, Enqueue, Refuse, Insert, CountSubmit, Register,
       SubmitFault, Age, ExpireWrite, ExpireFault, ChargeStep, ChargeCost, ChargeBlank, ChargeCounter,
       ChargeSupplier, ChargeFault
<1>11. ASSUME NEW f \in Flushes, Bind(f) \/ FlushStep(f) \/ FlushError(f)
       PROVE  receipt' = receipt
  BY <1>11 DEF Bind, FlushStep, FlushSend, Sending, FlushFail, FlushTaken, FlushUpdate, FlushCount,
       FlushRegister, FlushError, FlushFault, FlushBlind, FlushLost
<1>12. CASE Unbind \/ Expire \/ UNCHANGED vars
  BY <1>4, <1>12 DEF Unbind, Expire, vars, Good
<1> QED BY <1>4, <1>6, <1>7, <1>8, <1>9, <1>10, <1>11, <1>12
        DEF Next, Fault, FlushError, ReceiptStep, Good

\* The item a flush is about to write waits.
LEMMA UpdateWaits ==
    ASSUME HeldInv, NEW f \in Flushes, FlushUpdate(f)
    PROVE  Waiting(Current(f)) /\ Held(Current(f))
  BY CurrentHeld DEF FlushUpdate, Waiting, Held

\* Steps that neither charge for m nor write its row, unless it is reported
LEMMA CalmUnpaid ==
    ASSUME HeldInv, Moves, NEW m \in Msgs, UnpaidFor(m), clientMode' = clientMode,
           submit'[m] # "count",
           Unreported(m)' =>
              /\ Unreported(m) /\ cost'[m] = cost[m] /\ supplierCost'[m] = supplierCost[m]
              /\ counted'[m] = counted[m] /\ (status'[m] = "FAILED" => status[m] = "FAILED"),
           ~IsDlrCharged(clientMode) =>
              counted'[m] = counted[m] /\ Settled(charge'[m])
    PROVE  UnpaidFor(m)'
<1>1. Counts(m)' => Counts(m) \/ Waiting(m)
  BY UpdateWaits DEF Moves
<1>2. /\ Waiting(m)' => Waiting(m)
      /\ Held(m)' => Held(m) \/ submit[m] = "new"
      /\ submit'[m] = "new" => submit[m] = "new"
  BY DEF Moves
<1>3. Unreported(m)' /\ (Waiting(m)' \/ status'[m] = "FAILED") => Free(m)'
  BY <1>2 DEF UnpaidFor, Free
<1>4. Unreported(m)' /\ status'[m] = "FAILED" => ~Held(m)' /\ submit'[m] # "new"
  BY <1>2 DEF UnpaidFor
<1>5. ~IsDlrCharged(clientMode)' =>
        /\ counted'[m] <= 1 /\ Settled(charge'[m])
        /\ Waiting(m)' \/ Counts(m)' => counted'[m] = 0
  BY <1>1, <1>2 DEF UnpaidFor, IsDlrCharged
<1> QED BY <1>3, <1>4, <1>5 DEF UnpaidFor

\* Steps that bill nothing and write no row
LEMMA QuietUnpaid ==
    ASSUME HeldInv, Moves, NEW m \in Msgs, UnpaidFor(m), submit'[m] # "count",
           Unreported(m)' => Unreported(m),
           UNCHANGED <<modeVars, rowVars, billVars>>
    PROVE  UnpaidFor(m)'
  BY CalmUnpaid DEF modeVars, rowVars, billVars, UnpaidFor


\* Submission: the refused message is written FAILED without a cost, a message sent at
\* once no longer waits, and this path counts nothing.
LEMMA SubmitUnpaid ==
    ASSUME HeldInv, Billed, Moves, NEW m \in Msgs, Entry[m] = "android", UnpaidFor(m),
           Unreported(m)' => Unreported(m), NEW n \in Msgs, SubmitStep(n) \/ SubmitFault(n)
    PROVE  UnpaidFor(m)'
<1>1. submit \in [Msgs -> SubmitPhases] /\ submit[m] # "count"
  BY DEF HeldInv, HeldTypes, UnpaidFor
<1>2. ASSUME NEW p \in SubmitPhases \ {"count"}, submit' = [submit EXCEPT ![n] = p]
      PROVE  submit'[m] # "count"
  BY <1>1, <1>2
<1>3. CASE SendDirect(n) \/ Enqueue(n) \/ Refuse(n) \/ Register(n) \/ SubmitFault(n)
  <2>1. submit'[m] # "count"
    BY <1>2, <1>3 DEF SendDirect, Enqueue, Refuse, Register, SubmitFault, SubmitPhases
  <2>2. UNCHANGED <<modeVars, rowVars, billVars>>
    BY <1>3 DEF SendDirect, Enqueue, Refuse, Register, SubmitFault
  <2> QED BY <2>1, <2>2, QuietUnpaid
<1>4. CASE CountSubmit(n)
  <2>1. n # m /\ counted' = [counted EXCEPT ![n] = @ + 1] /\ UNCHANGED <<modeVars, rowVars, charge>>
    BY <1>1, <1>4 DEF CountSubmit
  <2>2. counted'[m] = counted[m]
    BY <2>1 DEF Billed, BillingTypes
  <2>3. submit'[m] # "count"
    BY <1>1, <1>4, <2>1 DEF CountSubmit
  <2> QED BY <2>1, <2>2, <2>3, CalmUnpaid DEF modeVars, rowVars, UnpaidFor
<1>5. CASE Insert(n) /\ n # m
  <2>1. /\ status'[m] = status[m] /\ cost'[m] = cost[m] /\ supplierCost'[m] = supplierCost[m]
        /\ submit'[m] = submit[m]
    BY <1>1, <1>5 DEF Insert, Billed, BillingTypes
  <2>2. UNCHANGED <<modeVars, billVars>>
    BY <1>5 DEF Insert
  <2> QED BY <1>1, <2>1, <2>2, CalmUnpaid DEF modeVars, billVars, UnpaidFor
<1>6. CASE Insert(m)
  <2>1. /\ submit[m] \in {"direct", "queued", "refused"} /\ Sent(m) = (submit[m] = "direct")
        /\ UNCHANGED <<modeVars, heldVars, billVars>>
    BY <1>6 DEF Insert, Sent
  <2>2. /\ submit'[m] \in {"done", "register"} /\ status'[m] = InsertedStatus(m)
        /\ submit[m] # "direct" => cost'[m] = 0 /\ supplierCost'[m] = 0
    BY <1>1, <1>6, <2>1 DEF Insert, Billed, BillingTypes
  <2>3. submit[m] = "refused" \/ ~(status'[m] = "FAILED")
    BY <2>1, <2>2 DEF InsertedStatus
  <2>4. submit[m] \in {"direct", "refused"} => ~Held(m)
    BY DEF HeldInv, Apart
  <2>5. Held(m)' = Held(m)
    BY <2>1 DEF heldVars, Held, Carried
  <2>6. Waiting(m)' => Held(m)
    BY <2>1, <2>2 DEF heldVars, Waiting, Held, Carried
  <2>7. Waiting(m)' => Waiting(m) /\ submit[m] # "direct"
    BY <2>4, <2>6 DEF Moves
  <2>8. submit[m] = "refused" => Waiting(m)
    BY DEF Waiting
  <2>9. UNCHANGED <<clientMode, counted, charge>>
    BY <2>1 DEF modeVars, billVars
  <2>10. Unreported(m)' /\ (Waiting(m)' \/ status'[m] = "FAILED") => Free(m)'
    BY <2>2, <2>3, <2>7, <2>8, <2>9 DEF UnpaidFor, Free
  <2>11. status'[m] = "FAILED" => ~Held(m)' /\ submit'[m] # "new"
    BY <2>2, <2>3, <2>4, <2>5
  <2>12. Counts(m)' = Counts(m)
    BY <2>1 DEF heldVars, Counts, Current
  <2>13. ~IsDlrCharged(clientMode)' =>
          /\ counted'[m] <= 1 /\ Settled(charge'[m])
          /\ Waiting(m)' \/ Counts(m)' => counted'[m] = 0
    BY <2>7, <2>9, <2>12 DEF UnpaidFor, IsDlrCharged
  <2> QED BY <2>2, <2>10, <2>11, <2>13 DEF UnpaidFor
<1> QED BY <1>3, <1>4, <1>5, <1>6 DEF SubmitStep

\* The flush prices and counts its item once, when it no longer waits.
LEMMA FlushUnpaid ==
    ASSUME HeldInv, HeldInv', Billed, Moves, NEW m \in Msgs, UnpaidFor(m),
           Unreported(m)' => Unreported(m),
           NEW f \in Flushes, Bind(f) \/ FlushStep(f) \/ FlushError(f)
    PROVE  UnpaidFor(m)'
<1>0. submit' = submit /\ submit[m] # "count"
  BY DEF Bind, FlushStep, FlushSend, Sending, FlushFail, FlushTaken, FlushUpdate, FlushCount,
         FlushRegister, FlushError, FlushFault, FlushBlind, FlushLost, UnpaidFor
<1>1. CASE \/ Bind(f) \/ FlushSend(f) \/ FlushFail(f) \/ FlushTaken(f)
           \/ FlushRegister(f) \/ FlushError(f)
  <2>1. UNCHANGED <<modeVars, rowVars, billVars>>
    BY <1>1 DEF Bind, FlushSend, Sending, FlushFail, FlushTaken, FlushRegister, FlushError, FlushFault, FlushBlind, FlushLost
  <2> QED BY <1>0, <2>1, QuietUnpaid
<1>2. ASSUME FlushUpdate(f) \/ FlushCount(f), Current(f) = m
      PROVE  /\ ~Waiting(m)' /\ Held(m) /\ submit[m] \notin {"new", "refused"}
             /\ flush'[f].pc \in {"register", "count"}
    <2>1. flush[f].pc \in {"update", "count"} /\ UNCHANGED <<queue, old, expiring, submit>>
      BY <1>2 DEF FlushUpdate, FlushCount
    <2>2. m \in Carried(f)
      BY <1>2, <2>1, CurrentHeld
    <2>3. PICK p \in {"register", "count"} : FlushGoes(f, p)
      BY <1>2 DEF FlushUpdate, FlushCount, FlushGoes
    <2>4. \A g \in Flushes : /\ flush'[g].pc = IF g = f THEN p ELSE flush[g].pc
                             /\ flush'[g].items = flush[g].items
      BY <2>1, <2>3, HeldGoes
    <2>5. /\ m \notin Range(queue) \cup expiring
          /\ \A g \in Flushes \ {f} : m \notin Carried(g)
      BY <2>2 DEF HeldInv, Apart
    <2>6. Held(m) /\ submit[m] \notin {"new", "refused"}
      BY <2>2 DEF HeldInv, Apart, Held
    <2>7. Current(f)' = m
      BY <1>2, <2>4 DEF Current
    <2>8. ~Waiting(m)'
      BY <2>1, <2>3, <2>4, <2>5, <2>6, <2>7 DEF Waiting, Carried
    <2> QED BY <2>3, <2>4, <2>6, <2>8
<1>3. CASE FlushUpdate(f)
  <2> DEFINE n == Current(f)
  <2>1. n \in Msgs
    BY <1>3, CurrentHeld DEF FlushUpdate
  <2>2. UNCHANGED <<modeVars, billVars>>
    BY <1>3 DEF FlushUpdate
  <2>3. CASE n # m
    <3>1. status'[m] = status[m] /\ cost'[m] = cost[m] /\ supplierCost'[m] = supplierCost[m]
      BY <1>3, <2>1, <2>3 DEF FlushUpdate, Billed, BillingTypes
    <3> QED BY <1>0, <2>2, <3>1, CalmUnpaid DEF modeVars, billVars, UnpaidFor
  <2>4. CASE n = m
    <3>1. Waiting(m) /\ Held(m) /\ ~Waiting(m)' /\ submit[m] # "new"
      BY <1>2, <1>3, <2>4, UpdateWaits
    <3>2. Unreported(m)' => status[m] # "FAILED" /\ status'[m] # "FAILED"
      <4>1. Unreported(m) => status[m] # "FAILED"
        BY <3>1 DEF UnpaidFor
      <4>2. status'[m] \in {status[m], "SENT"}
        BY <1>3, <2>4 DEF FlushUpdate, Billed, BillingTypes
      <4> QED BY <4>1, <4>2
    <3>3. ~IsDlrCharged(clientMode)' =>
            /\ counted'[m] <= 1 /\ Settled(charge'[m])
            /\ counted'[m] = 0
      BY <2>2, <3>1 DEF UnpaidFor, IsDlrCharged, modeVars, billVars
    <3> QED BY <1>0, <3>1, <3>2, <3>3 DEF UnpaidFor
  <2> QED BY <2>3, <2>4
<1>4. CASE FlushCount(f)
  <2> DEFINE n == Current(f)
  <2>1. n \in Msgs
    BY <1>4, CurrentHeld DEF FlushCount
  <2>2. UNCHANGED <<modeVars, rowVars, charge>> /\ counted' = [counted EXCEPT ![n] = @ + 1]
    BY <1>4 DEF FlushCount
  <2>3. CASE n # m
    <3>1. counted'[m] = counted[m]
      BY <2>1, <2>2, <2>3 DEF Billed, BillingTypes
    <3> QED BY <1>0, <2>2, <3>1, CalmUnpaid DEF modeVars, rowVars, UnpaidFor
  <2>4. CASE n = m
    <3>1. Held(m) /\ ~Waiting(m)' /\ submit[m] # "new" /\ Counts(m)
      BY <1>2, <1>4, <2>4 DEF FlushCount, Counts
    <3>2. Unreported(m)' => status'[m] # "FAILED"
      BY <2>2, <3>1 DEF UnpaidFor, rowVars
    <3>3. ~Counts(m)'
      <4>1. \A g \in Flushes : flush[g].pc # "idle" => Current(g) \in Carried(g)
        BY CurrentHeld
      <4>2. \A g \in Flushes \ {f} : flush[g].pc = "count" => Current(g) # m
        <5>1. m \in Carried(f)
          BY <1>4, <2>4, CurrentHeld DEF FlushCount
        <5> QED BY <4>1, <5>1 DEF HeldInv, Apart
      <4>3. \A g \in Flushes : /\ flush'[g].pc = IF g = f THEN "register" ELSE flush[g].pc
                               /\ flush'[g].items = flush[g].items
        BY <1>4, HeldGoes DEF FlushCount, FlushGoes
      <4> QED BY <4>2, <4>3 DEF Counts, Current
    <3>4. ~IsDlrCharged(clientMode)' =>
            counted'[m] <= 1 /\ Settled(charge'[m])
      <4>1. ~IsDlrCharged(clientMode)' => counted[m] = 0 /\ Settled(charge[m])
        BY <2>2, <3>1 DEF UnpaidFor, IsDlrCharged, modeVars
      <4>2. counted'[m] = counted[m] + 1
        BY <2>1, <2>2, <2>4 DEF Billed, BillingTypes
      <4> QED BY <2>2, <4>1, <4>2
    <3> QED BY <1>0, <3>1, <3>2, <3>3, <3>4 DEF UnpaidFor
  <2> QED BY <2>3, <2>4
<1> QED BY <1>1, <1>3, <1>4 DEF FlushStep


\* The sweep fails an entry that has cost nothing, and which nothing holds any longer.
LEMMA SweepUnpaid ==
    ASSUME HeldInv, Billed, Moves, NEW m \in Msgs, UnpaidFor(m),
           Unreported(m)' => Unreported(m),
           \/ Expire \/ Unbind
           \/ \E n \in Msgs : Age(n) \/ ExpireWrite(n) \/ ExpireFault(n)
    PROVE  UnpaidFor(m)'
<1>0. submit' = submit /\ submit[m] # "count"
  BY DEF Expire, Unbind, Age, ExpireWrite, ExpireFault, UnpaidFor
<1>1. CASE Expire \/ Unbind \/ \E n \in Msgs : Age(n) \/ ExpireFault(n)
  <2>1. UNCHANGED <<modeVars, rowVars, billVars>>
    BY <1>1 DEF Expire, Unbind, Age, ExpireFault
  <2> QED BY <1>0, <2>1, QuietUnpaid
<1>2. ASSUME NEW n \in Msgs, ExpireWrite(n) PROVE UnpaidFor(m)'
  <2>1. UNCHANGED <<modeVars, billVars, cost, supplierCost, queue, flush>>
        /\ n \in expiring /\ expiring' = expiring \ {n}
    BY <1>2 DEF ExpireWrite
  <2>2. CASE n # m
    <3>1. status'[m] = status[m]
      BY <1>2, <2>2 DEF ExpireWrite, Billed, BillingTypes
    <3> QED BY <1>0, <2>1, <3>1, CalmUnpaid DEF modeVars, billVars, UnpaidFor
  <2>3. CASE n = m
    <3>1. Waiting(m) /\ Held(m)
      BY <2>1, <2>3 DEF Waiting, Held
    <3>2. ~Held(m)' /\ submit[m] # "new"
      BY <2>1, <2>3, <3>1 DEF HeldInv, Apart, Held, Carried
    <3>3. Waiting(m)' => Waiting(m)
      BY <3>1
    <3>4. Counts(m)' => Counts(m)
      BY <2>1 DEF Counts, Current
    <3>5. UNCHANGED <<clientMode, cost, supplierCost, counted, charge>>
      BY <2>1 DEF modeVars, billVars
    <3> QED BY <1>0, <3>1, <3>2, <3>4, <3>5 DEF UnpaidFor, Free, IsDlrCharged
  <2> QED BY <2>2, <2>3
<1> QED BY <1>1, <1>2

\* The tasks of a callback and the handler of a receipt charge for a reported message,
\* and a client that is charged on submission for none.
LEMMA ReceiptUnpaid ==
    ASSUME HeldInv, Billed, CountsOnDelivery, Moves, NEW m \in Msgs, UnpaidFor(m),
           Unreported(m)' => Unreported(m),
           \/ \E n \in Msgs : ChargeStep(n) \/ ChargeFault(n)
           \/ \E r \in Receipts : ReceiptStep(r) \/ JobFault(r)
           \/ \E r \in Receipts, n \in Msgs, s \in Stats : Arrive(r, n, s)
    PROVE  UnpaidFor(m)'
<1>0. submit[m] # "count"
  BY DEF UnpaidFor
<1>1. ASSUME NEW n \in Msgs, ChargeStep(n) \/ ChargeFault(n) PROVE UnpaidFor(m)'
  <2>0. UNCHANGED <<clientMode, submit, status, receipt>>
    BY <1>1 DEF ChargeStep, ChargeCost, ChargeBlank, ChargeCounter, ChargeSupplier, ChargeFault, modeVars, rowVars
  <2>1. ~IsDlrCharged(clientMode) => Settled(charge[m])
    BY DEF UnpaidFor
  <2>2. /\ charge \in [Msgs -> [cost : Nat, blank : Nat, counter : Nat, supplier : Nat]]
        /\ counted \in [Msgs -> Nat] /\ cost \in [Msgs -> {0, 1}]
        /\ supplierCost \in [Msgs -> {0, 1}]
    BY DEF Billed, BillingTypes
  <2>3. CASE n # m
    <3>1. /\ cost'[m] = cost[m] /\ supplierCost'[m] = supplierCost[m]
          /\ counted'[m] = counted[m] /\ charge'[m] = charge[m]
      BY <1>1, <2>2, <2>3 DEF ChargeStep, ChargeCost, ChargeBlank, ChargeCounter, ChargeSupplier, ChargeFault, rowVars
    <3> QED BY <1>0, <2>0, <2>1, <3>1, CalmUnpaid
  <2>4. CASE n = m
    <3>1. ~Unreported(m)
      BY <1>1, <2>4 DEF ChargeStep, ChargeCost, ChargeBlank, ChargeCounter, ChargeSupplier, ChargeFault,
         Billed, WorkReported, NoCharge, DeliveryReported, Unreported
    <3>2. ~IsDlrCharged(clientMode) =>
             counted'[m] = counted[m] /\ Settled(charge'[m])
      <4>1. CASE ChargeCost(m) \/ ChargeBlank(m) \/ ChargeCounter(m)
        BY <2>1, <2>2, <4>1 DEF ChargeCost, ChargeBlank, ChargeCounter, Settled
      <4>2. CASE ChargeSupplier(m)
        BY <2>1, <2>2, <4>2 DEF ChargeSupplier, Settled
      <4>3. CASE ChargeFault(m)
        <5>1. PICK task \in {"cost", "blank", "counter", "supplier"} :
                 charge[m][task] > 0 /\ charge' = [charge EXCEPT ![m][task] = @ - 1]
          BY <4>3 DEF ChargeFault
        <5>2. counted' = counted
          BY <4>3 DEF ChargeFault
        <5>3. ~IsDlrCharged(clientMode) => task = "supplier"
          BY <2>1, <2>2, <5>1 DEF Settled
        <5>4. task = "supplier" => (Settled(charge'[m]) <=> Settled(charge[m]))
          BY <2>2, <5>1 DEF Settled
        <5> QED BY <2>1, <5>2, <5>3, <5>4
      <4> QED BY <1>1, <2>4, <4>1, <4>2, <4>3 DEF ChargeStep
    <3> QED BY <1>0, <2>0, <3>1, <3>2, CalmUnpaid
  <2> QED BY <2>3, <2>4
<1>2. ASSUME NEW r \in Receipts,
             \/ RecoverRead(r) \/ RecoverWrite(r) \/ RecoverEnd(r) \/ JobRead(r)
             \/ JobCount(r) \/ JobWrite(r) \/ JobFault(r)
      PROVE  UnpaidFor(m)'
  <2> DEFINE n == receipt[r].msg
  <2>1. n \in Msgs
    BY <1>2, JobHandled DEF Handling
  <2>2. UNCHANGED <<clientMode, submit, charge>>
    BY <1>2 DEF RecoverRead, RecoverWrite, RecoverEnd, JobRead, JobCount, JobWrite, JobFault,
       modeVars, billVars
  <2>3. n # m => /\ status'[m] = status[m] /\ cost'[m] = cost[m]
                 /\ supplierCost'[m] = supplierCost[m] /\ counted'[m] = counted[m]
    BY <1>2, <2>1 DEF RecoverRead, RecoverWrite, RecoverEnd, JobRead, JobCount, JobWrite,
       JobFault, Billed, BillingTypes, rowVars, billVars
  <2>4. n = m => ~Unreported(m)
    BY DEF Unreported
  <2>5. ~IsDlrCharged(clientMode) => counted' = counted
    BY <1>2 DEF RecoverRead, RecoverWrite, RecoverEnd, JobRead, JobCount, JobWrite,
       JobFault, CountsOnDelivery, billVars
  <2> QED BY <1>0, <2>2, <2>3, <2>4, <2>5, CalmUnpaid DEF UnpaidFor
<1>3. ASSUME NEW r \in Receipts, NEW n \in Msgs, NEW s, Fire(r, n, s),
             UNCHANGED <<modeVars, rowVars, counted, submit>>
      PROVE  UnpaidFor(m)'
  <2>1. ~IsDlrCharged(clientMode) => Tasks(known[n], s).cost = 0 /\ Tasks(known[n], s).blank = 0
    BY DEF Tasks, TasksDue, NoCharge, ReadClient, AtSend, IsDlrCharged
  <2>2. charge' = [charge EXCEPT ![n] = Started(@, Tasks(known[n], s))]
    BY <1>3 DEF Fire
  <2>3. ~IsDlrCharged(clientMode) => Settled(charge'[m])
    BY <2>1, <2>2 DEF Started, Settled, UnpaidFor, Billed, BillingTypes
  <2> QED BY <1>0, <1>3, <2>3, CalmUnpaid DEF modeVars, rowVars
<1>4. ASSUME NEW r \in Receipts, LateMatch(r) PROVE UnpaidFor(m)'
  <2>1. receipt[r].msg \in Msgs
    BY <1>4, AndroidAssumption DEF LateMatch, Billed, ReceiptTypes, AndroidAssumption
  <2> QED BY <1>3, <1>4, <2>1 DEF LateMatch
<1>5. ASSUME NEW r \in Receipts, NEW n \in Msgs, NEW s \in Stats, Arrive(r, n, s) PROVE UnpaidFor(m)'
  <2>1. CASE Fire(r, n, s)
    BY <1>3, <1>5, <2>1 DEF Arrive
  <2>2. CASE ~Fire(r, n, s)
    <3>1. UNCHANGED <<modeVars, rowVars, billVars, submit>>
      BY <1>5, <2>2 DEF Arrive, billVars
    <3> QED BY <1>0, <3>1, QuietUnpaid
  <2> QED BY <2>1, <2>2
<1> QED BY <1>1, <1>2, <1>4, <1>5 DEF ReceiptStep

\* A restart loses what is under way, and nothing that is lost was paid for.
LEMMA RestartUnpaid ==
    ASSUME HeldInv, Moves, NEW m \in Msgs, UnpaidFor(m), Unreported(m)' => Unreported(m),
           Restart
    PROVE  UnpaidFor(m)'
<1>1. /\ UNCHANGED <<modeVars, rowVars, counted>> /\ charge' = [n \in Msgs |-> NoCharge]
      /\ submit'[m] # "count"
  BY DEF Restart
<1>2. Settled(charge'[m])
  BY <1>1 DEF NoCharge, Settled
<1> QED BY <1>1, <1>2, CalmUnpaid DEF modeVars, rowVars

\* A message of the ANDROID_SMS path is paid for when it stops waiting, and once.
LEMMA UnpaidStep ==
    ASSUME HeldInv, HeldInv', Moves, Billed, Unpaid, [Next]_vars
    PROVE  Unpaid'
<1>1. CountsOnDelivery' /\ \A m \in Msgs : Unreported(m)' => Unreported(m)
  BY ReportsStay DEF Unpaid
<1>2. ASSUME NEW m \in Msgs, Entry[m] = "android" PROVE UnpaidFor(m)'
  <2>1. UnpaidFor(m) /\ (Unreported(m)' => Unreported(m))
    BY <1>1, <1>2 DEF Unpaid
  <2>2. CASE UNCHANGED vars
    <3>1. UNCHANGED <<modeVars, rowVars, billVars>> /\ submit'[m] # "count"
      BY <2>1, <2>2 DEF vars, UnpaidFor
    <3> QED BY <2>1, <3>1, QuietUnpaid
  <2>3. ASSUME NEW n \in Msgs, SubmitStep(n) \/ SubmitFault(n) PROVE UnpaidFor(m)'
    BY <1>2, <2>1, <2>3, SubmitUnpaid
  <2>4. ASSUME NEW f \in Flushes, Bind(f) \/ FlushStep(f) \/ FlushError(f) PROVE UnpaidFor(m)'
    BY <2>1, <2>4, FlushUnpaid
  <2>5. CASE \/ Expire \/ Unbind
             \/ \E n \in Msgs : Age(n) \/ ExpireWrite(n) \/ ExpireFault(n)
    BY <2>1, <2>5, SweepUnpaid
  <2>6. CASE \/ \E n \in Msgs : ChargeStep(n) \/ ChargeFault(n)
             \/ \E r \in Receipts : ReceiptStep(r) \/ JobFault(r)
             \/ \E r \in Receipts, n \in Msgs, s \in Stats : Arrive(r, n, s)
    BY <2>1, <2>6, ReceiptUnpaid DEF Unpaid
  <2>7. CASE Restart
    BY <2>1, <2>7, RestartUnpaid
  <2> QED BY <2>2, <2>3, <2>4, <2>5, <2>6, <2>7
      DEF Next, Fault, FlushError
<1> QED BY <1>1, <1>2 DEF Unpaid

\* On the ANDROID_SMS path a client charged on submission pays once at most, whatever
\* flushes, refusals, requeues, receipts and restarts there are, and a message that
\* failed without a receipt has cost nobody anything.
THEOREM QueuedChargedOnceHolds == Spec => []QueuedChargedOnce
<1> DEFINE Inv == HeldInv /\ CountsOnSubmit /\ Billed /\ Unpaid
<1>1. Init => Inv
  <2>1. Init => Unpaid
    BY DEF Init, Unpaid, UnpaidFor, Free, Settled, CountsOnDelivery, NoReceipt, NoCharge,
       Counts, NoFlush
  <2> QED BY <2>1, InitHeld, InitBilled
<1>2. Inv /\ [Next]_vars => Inv'
  BY HeldStep, CountsStep, BilledStep, UnpaidStep
<1>3. Inv => QueuedChargedOnce
  <2> SUFFICES ASSUME Inv, NEW m \in Msgs, Entry[m] = "android"
               PROVE  /\ ~IsDlrCharged(clientMode) => counted[m] <= 1
                      /\ FailedUnreported(m) => counted[m] = 0 /\ cost[m] = 0 /\ supplierCost[m] = 0
    BY DEF QueuedChargedOnce
  <2>1. UnpaidFor(m)
    BY DEF Unpaid
  <2> QED BY <2>1 DEF UnpaidFor, FailedUnreported, Unreported, Free
<1> QED BY <1>1, <1>2, <1>3, PTL DEF Spec
===============================================================================
