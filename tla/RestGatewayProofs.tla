-------------------------- MODULE RestGatewayProofs --------------------------
(***************************************************************************)
(* The registry of RestGateway and the receipts, proved for every set of   *)
(* messages, queue limit and number of attempts.                           *)
(***************************************************************************)
EXTENDS RestGateway, QueueFacts

-----------------------------------------------------------------------------
(* The registry *)

Held == Range(queue) \cup inflight

\* An item is in one place.
Places == Distinct(queue) /\ Range(queue) \cap inflight = {}

\* The phone had an item at most once more than it failed, and only what failed
\* less than MAX_ATTEMPTS times is held.
Tries ==
    \A m \in Msgs :
        /\ submit[m] \in {"new", "refused"} =>
              m \notin Held /\ polls[m] = 0 /\ attempts[m] = 0
        /\ m \in Held => attempts[m] < MaxAttempts
        /\ m \in Range(queue) => polls[m] <= attempts[m]
        /\ m \in inflight => polls[m] <= attempts[m] + 1
        /\ polls[m] <= MaxAttempts

Registry == TypeOK /\ Places /\ Tries

\* The steps that touch none of it
LEMMA RegistryQuiet ==
    ASSUME Registry, TypeOK', UNCHANGED <<queue, inflight, attempts, polls>>,
           \A m \in Msgs : submit'[m] \in {"new", "refused"} => submit[m] \in {"new", "refused"}
    PROVE  Registry'
  BY DEF Registry, Places, Tries, Held

\* enqueueRestMt appends a message the registry never had.
LEMMA RegistryEnqueue ==
    ASSUME Registry, NEW m \in Msgs, EnqueueRestMt(m)
    PROVE  Registry'
<1> USE DEF Registry, TypeOK
<1>1. /\ submit[m] = "new" /\ submit' = [submit EXCEPT ![m] = "queued"]
      /\ queue' = Append(queue, m)
      /\ UNCHANGED <<entry, inflight, attempts, aged, polls, row, callback, told, result,
                     restarts>>
  BY DEF EnqueueRestMt, historyVars
<1>2. m \notin Held /\ polls[m] = 0 /\ attempts[m] = 0
  BY <1>1 DEF Tries
<1>3. /\ queue' \in Seq(Msgs) /\ Range(queue') = Range(queue) \cup {m}
      /\ Distinct(queue')
  BY <1>1, <1>2, AppendQueue DEF Places, Held
<1>4. TypeOK'
  BY <1>1, <1>3
<1>5. Places'
  BY <1>1, <1>2, <1>3 DEF Places, Held
<1>6. Tries'
  BY <1>1, <1>2, <1>3, GatewayAssumption DEF GatewayAssumption, Tries, Held
<1> QED BY <1>4, <1>5, <1>6

\* dequeueRestMt moves the front of the queue to the claimed.
LEMMA RegistryPoll ==
    ASSUME Registry, NEW n \in 1..Len(queue), Poll(n)
    PROVE  Registry' /\ Held' \subseteq Held
<1> USE DEF Registry, TypeOK
<1> DEFINE items == Range(SubSeq(queue, 1, n))
           rest  == SubSeq(queue, n + 1, Len(queue))
<1>1. /\ queue' = rest /\ inflight' = inflight \cup items
      /\ polls' = [m \in Msgs |-> IF m \in items THEN polls[m] + 1 ELSE polls[m]]
      /\ UNCHANGED <<entry, attempts, aged, submit, row, callback, told, result, restarts>>
  BY DEF Poll, messageVars
<1>2. n + 1 \in 1 .. Len(queue) + 1
  OBVIOUS
<1>3. rest \in Seq(Msgs) /\ Distinct(rest)
  BY <1>2, PartOfQueue DEF Places
<1>4. /\ items \subseteq Range(queue) /\ Range(rest) \subseteq Range(queue)
      /\ items \cap Range(rest) = {}
  BY SplitQueue DEF Places
<1>5. Range(queue) \subseteq Msgs
  BY RangeOfSeq
<1> HIDE DEF items, rest
<1>6. TypeOK'
  BY <1>1, <1>3, <1>4, <1>5
<1>7. Places'
  BY <1>1, <1>3, <1>4 DEF Places
<1>8. Held' \subseteq Held
  BY <1>1, <1>4 DEF Held
<1>9. Tries'
  <2> SUFFICES ASSUME NEW m \in Msgs
               PROVE  /\ submit'[m] \in {"new", "refused"} =>
                            m \notin Held' /\ polls'[m] = 0 /\ attempts'[m] = 0
                      /\ m \in Held' => attempts'[m] < MaxAttempts
                      /\ m \in Range(queue') => polls'[m] <= attempts'[m]
                      /\ m \in inflight' => polls'[m] <= attempts'[m] + 1
                      /\ polls'[m] <= MaxAttempts
    BY DEF Tries, Held
  <2>1. CASE m \in items
    BY <1>1, <1>4, <1>8, <2>1, GatewayAssumption DEF GatewayAssumption, Tries, Held, Places
  <2>2. CASE m \notin items
    BY <1>1, <1>4, <1>8, <2>2 DEF Tries, Held
  <2> QED BY <2>1, <2>2
<1> QED BY <1>6, <1>7, <1>8, <1>9

\* reportRestMtResult takes a claimed item out, or back to the front.
LEMMA RegistryReport ==
    ASSUME Registry, NEW r \in Results, NEW m \in Msgs, NEW success \in BOOLEAN,
           Report(r, m, success)
    PROVE  /\ Registry' /\ Held' \subseteq Held
           /\ result'[r].pc = "update" /\ result'[r].kind = "failed" =>
                 m \notin Held'
<1> USE DEF Registry, TypeOK
<1>1. /\ UNCHANGED <<entry, submit, row, callback, told, polls, restarts>>
      /\ polls[m] > 0
      /\ \E p \in {"update", "over"} :
            result' = [result EXCEPT ![r] =
                [pc |-> p, msg |-> m, kind |-> IF success THEN "sent" ELSE "failed"]]
  BY DEF Report, messageVars
<1>2. CASE UNCHANGED <<inflight, attempts, queue, aged>>
  <2>1. TypeOK'
    BY <1>1, <1>2
  <2>2. Registry' /\ Held' = Held
    BY <1>1, <1>2, <2>1, RegistryQuiet DEF Held
  <2>3. result'[r].pc = "update" /\ result'[r].kind = "failed" =>
           entry # "absent" /\ m \in inflight
    BY DEF Report
  <2>4. ~(entry # "absent" /\ m \in inflight)
    BY <1>2 DEF Report
  <2> QED BY <2>2, <2>3, <2>4
<1>3. CASE /\ m \in inflight /\ success /\ inflight' = inflight \ {m}
           /\ UNCHANGED <<attempts, queue, aged>>
  <2>1. TypeOK'
    BY <1>1, <1>3
  <2>2. Registry' /\ Held' \subseteq Held
    BY <1>1, <1>3, <2>1 DEF Held, Places, Tries
  <2> QED BY <1>1, <1>3, <2>2
<1>4. CASE /\ m \in inflight /\ ~success /\ inflight' = inflight \ {m}
           /\ attempts' = [attempts EXCEPT ![m] = attempts[m] + 1]
           /\ queue' = Failing(m) /\ aged' = aged \ {m}
           /\ result'[r].pc = "update" => Exhausted(m)
  <2>1. m \notin Range(queue) /\ attempts[m] < MaxAttempts /\ polls[m] <= attempts[m] + 1
    BY <1>4 DEF Places, Tries, Held
  <2> DEFINE t == <<m>>
  <2>2. t \in Seq(Msgs) /\ Range(t) = {m} /\ Distinct(t)
    BY OneQueue
  <2>3. queue' = IF Exhausted(m) THEN queue ELSE t \o queue
    BY <1>4 DEF Failing
  <2> HIDE DEF t
  <2>4. /\ queue' \in Seq(Msgs) /\ Distinct(queue')
        /\ Range(queue') = IF Exhausted(m) THEN Range(queue) ELSE Range(queue) \cup {m}
    <3>1. /\ t \o queue \in Seq(Msgs) /\ Range(t \o queue) = Range(t) \cup Range(queue)
          /\ Range(t) \cap Range(queue) = {} => Distinct(t \o queue)
      BY <2>2, ConcatQueue DEF Places
    <3> QED BY <2>1, <2>2, <2>3, <3>1 DEF Places
  <2>5. attempts[m] + 1 \in 0 .. MaxAttempts /\ (~Exhausted(m) => attempts[m] + 1 < MaxAttempts)
    BY <2>1, GatewayAssumption DEF GatewayAssumption, Exhausted
  <2>6. TypeOK'
    BY <1>1, <1>4, <2>4, <2>5
  <2>7. Places'
    BY <1>4, <2>1, <2>4 DEF Places
  <2>8. Held' \subseteq Held
    BY <1>4, <2>4 DEF Held
  <2>9. Tries'
    BY <1>1, <1>4, <2>1, <2>4, <2>5, GatewayAssumption
    DEF GatewayAssumption, Tries, Held, Places
  <2> QED BY <1>4, <2>1, <2>4, <2>6, <2>7, <2>8, <2>9 DEF Held
<1> QED BY <1>2, <1>3, <1>4 DEF Report

\* cleanup puts expired claims back, counts them, and cuts the queue.
LEMMA RegistryCleanup ==
    ASSUME Registry, CleanupFresh
    PROVE  Registry' /\ Held' \subseteq Held
<1> USE DEF Registry, TypeOK
<1> DEFINE Back == {m \in Expired : ~Exhausted(m)}
<1>1. PICK back \in SetToSeqs(Back) : queue' = Latest(back \o queue)
  BY DEF CleanupFresh
<1>2. /\ inflight' = inflight \ Expired
      /\ attempts' = [m \in Msgs |-> IF m \in Expired THEN attempts[m] + 1 ELSE attempts[m]]
      /\ UNCHANGED <<entry, aged, submit, row, callback, told, polls, result, restarts>>
  BY DEF CleanupFresh, Unclaimed, messageVars, historyVars
<1>3. Expired \subseteq inflight /\ Back \subseteq Expired /\ Back \subseteq Msgs
  BY DEF Expired
<1>4. back \in Seq(Back) /\ back \in Seq(Msgs) /\ Distinct(back) /\ Range(back) \subseteq Back
  <2>1. IsFiniteSet(Back)
    BY <1>3, GatewayAssumption, FS_Subset DEF GatewayAssumption
  <2>2. Cardinality(Back) \in Nat
    BY <2>1, FS_CardinalityType
  <2> HIDE DEF Back
  <2>3. back \in [1 .. Cardinality(Back) -> Back]
        /\ \A i, j \in 1 .. Cardinality(Back) : i # j => back[i] # back[j]
    BY <1>1 DEF SetToSeqs
  <2>4. back \in Seq(Back)
    <3> DEFINE n == Cardinality(Back)
    <3>1. n \in Nat /\ back \in [1 .. n -> Back]
      BY <2>2, <2>3
    <3> HIDE DEF n
    <3> QED BY <3>1
  <2>5. Distinct(back)
    BY <2>2, <2>3 DEF Distinct
  <2>6. Range(back) \subseteq Back
    BY <2>3 DEF Range
  <2> QED BY <1>3, <2>4, <2>5, <2>6, SeqMonotonic
<1> DEFINE both == back \o queue
<1>5. /\ both \in Seq(Msgs) /\ Distinct(both) /\ Range(both) = Range(back) \cup Range(queue)
  <2>1. Range(back) \cap Range(queue) = {}
    BY <1>3, <1>4 DEF Places
  <2> QED BY <1>4, <2>1, ConcatQueue DEF Places
<1> HIDE DEF both, Back
<1>6. /\ queue' \in Seq(Msgs) /\ Distinct(queue') /\ Range(queue') \subseteq Range(both)
  <2>1. CASE Len(both) > MaxQueue
    <3>1. queue' = SubSeq(both, Len(both) - MaxQueue + 1, Len(both))
      BY <1>1, <2>1 DEF Latest, both
    <3>2. Len(both) - MaxQueue + 1 \in 1 .. Len(both) + 1
      BY <1>5, <2>1, GatewayAssumption DEF GatewayAssumption
    <3>3. /\ queue' \in Seq(Msgs) /\ Distinct(queue')
          /\ Range(queue') = {both[k] : k \in Len(both) - MaxQueue + 1 .. Len(both)}
      BY <1>5, <3>1, <3>2, PartOfQueue
    <3>4. Range(both) = {both[k] : k \in 1 .. Len(both)}
      BY <1>5, RangeEquality
    <3>5. Len(both) - MaxQueue + 1 .. Len(both) \subseteq 1 .. Len(both)
      BY <1>5, <3>2, GatewayAssumption DEF GatewayAssumption
    <3> QED BY <3>3, <3>4, <3>5
  <2>2. CASE ~(Len(both) > MaxQueue)
    BY <1>1, <1>5, <2>2 DEF Latest, both
  <2> QED BY <2>1, <2>2
<1>7. Range(queue') \subseteq Back \cup Range(queue)
  BY <1>4, <1>5, <1>6
<1>8. \A m \in Expired : attempts[m] + 1 \in 0 .. MaxAttempts
                        /\ (m \in Back => attempts[m] + 1 < MaxAttempts)
  BY <1>3, GatewayAssumption DEF GatewayAssumption, Tries, Held, Back, Exhausted
<1>9. TypeOK'
  BY <1>2, <1>3, <1>6, <1>8
<1>10. Places'
  BY <1>2, <1>3, <1>6, <1>7 DEF Places
<1>11. Held' \subseteq Held
  BY <1>2, <1>3, <1>7 DEF Held
<1>12. Tries'
  <2> SUFFICES ASSUME NEW m \in Msgs
               PROVE  /\ submit'[m] \in {"new", "refused"} =>
                            m \notin Held' /\ polls'[m] = 0 /\ attempts'[m] = 0
                      /\ m \in Held' => attempts'[m] < MaxAttempts
                      /\ m \in Range(queue') => polls'[m] <= attempts'[m]
                      /\ m \in inflight' => polls'[m] <= attempts'[m] + 1
                      /\ polls'[m] <= MaxAttempts
    BY DEF Tries, Held
  <2>1. CASE m \in Expired
    <3>1. m \in inflight /\ m \notin Range(queue) /\ m \notin inflight'
          /\ attempts'[m] = attempts[m] + 1 /\ polls'[m] = polls[m]
      BY <1>2, <1>3, <2>1 DEF Places
    <3>2. m \in Held' => m \in Back
      BY <1>7, <3>1 DEF Held
    <3> QED BY <1>2, <1>8, <2>1, <3>1, <3>2, GatewayAssumption
            DEF GatewayAssumption, Tries, Held
  <2>2. CASE m \notin Expired
    <3>1. m \in Range(queue') => m \in Range(queue)
      BY <1>3, <1>7, <2>2
    <3> QED BY <1>2, <2>2, <3>1 DEF Tries, Held
  <2> QED BY <2>1, <2>2
<1> QED BY <1>9, <1>10, <1>11, <1>12

\* A silent entry goes with what it holds, and so does every entry at a restart.
LEMMA RegistryEmpties ==
    ASSUME Registry, CleanupSilent \/ Restart
    PROVE  Registry' /\ Held' = {}
<1> USE DEF Registry, TypeOK
<1>1. /\ queue' = <<>> /\ inflight' = {} /\ UNCHANGED <<attempts, polls>>
      /\ \A m \in Msgs : submit'[m] \in {"new", "refused"} => submit'[m] = submit[m]
  BY DEF CleanupSilent, Restart, messageVars, historyVars
<1>2. TypeOK'
  <2>1. CASE CleanupSilent
    BY <2>1 DEF CleanupSilent, messageVars, historyVars
  <2>2. CASE Restart
    <3>1. /\ UNCHANGED <<row, told, polls, attempts>> /\ restarts' \in 0 .. MaxRestarts
          /\ entry' = "absent" /\ queue' = <<>> /\ inflight' = {} /\ aged' = {}
      BY <2>2, GatewayAssumption DEF GatewayAssumption, Restart, historyVars
    <3>2. /\ submit' \in [Msgs -> {"new", "queued", "inserted", "done", "refused", "aborted"}]
          /\ callback' \in [Msgs -> BOOLEAN]
      BY <2>2 DEF Restart
    <3>3. /\ result' \in [Results -> [pc : {"idle", "update", "callback", "over"},
                                      msg : Msgs \cup {NoMsg}, kind : {"sent", "failed"}]]
          /\ \A r \in Results : result'[r].pc # "idle" => result'[r].msg \in Msgs
      <4> DEFINE R == [pc : {"idle", "update", "callback", "over"},
                       msg : Msgs \cup {NoMsg}, kind : {"sent", "failed"}]
      <4>1. result' = [r \in Results |-> IF result[r].pc \in {"update", "callback"}
                                         THEN [result[r] EXCEPT !.pc = "over"] ELSE result[r]]
        BY <2>2 DEF Restart
      <4>2. ASSUME NEW r \in Results
            PROVE  result'[r] \in R /\ (result'[r].pc # "idle" => result'[r].msg \in Msgs)
        <5>1. CASE result[r].pc \in {"update", "callback"}
          <6>1. result'[r] = [result[r] EXCEPT !.pc = "over"] /\ result[r] \in R
            BY <4>1, <5>1
          <6> QED BY <5>1, <6>1
        <5>2. CASE result[r].pc \notin {"update", "callback"}
          BY <4>1, <5>2
        <5> QED BY <5>1, <5>2
      <4> QED BY <4>1, <4>2
    <3> QED BY <3>1, <3>2, <3>3
  <2> QED BY <2>1, <2>2
<1>3. Range(queue') = {} /\ Distinct(queue')
  BY <1>1 DEF Range, Distinct
<1>4. Places' /\ Held' = {}
  BY <1>1, <1>3 DEF Places, Held
<1>5. Tries'
  BY <1>1, <1>3, <1>4 DEF Tries, Held
<1> QED BY <1>2, <1>4, <1>5

\* The registry keeps its invariant, and never takes a message again that has left.
NeverBack == \A m \in Msgs : /\ m \in Held' => m \in Held \/ submit[m] = "new"
                             /\ submit[m] # "new" => submit'[m] # "new"

\* Every call of the registry keeps its queue, its claims and the tries of its messages.
LEMMA RegistryStep ==
    ASSUME Registry, [Next]_vars
    PROVE  Registry' /\ NeverBack
<1> USE DEF Registry, TypeOK
<1>1. ASSUME NEW m \in Msgs, EnqueueRestMt(m) PROVE Registry' /\ NeverBack
  <2>1. Range(queue') = Range(queue) \cup {m} /\ inflight' = inflight
    BY <1>1, AppendQueue DEF EnqueueRestMt
  <2> QED BY <1>1, <2>1, RegistryEnqueue DEF NeverBack, Held, EnqueueRestMt
<1>2. ASSUME NEW m \in Msgs, Refuse(m) \/ InsertRow(m) \/ RegisterDlrCallback(m) \/ Age(m)
      PROVE  Registry' /\ NeverBack
  <2>1. /\ UNCHANGED <<queue, inflight, attempts, polls>>
        /\ m \in Held \/ submit[m] # "new" \/ submit'[m] = "refused"
        /\ \A l \in Msgs : submit'[l] = submit[l] \/ submit'[l] # "new"
    BY <1>2 DEF Refuse, InsertRow, RegisterDlrCallback, Age, entryVars, historyVars,
                messageVars, Held
  <2>2. TypeOK'
    BY <1>2 DEF Refuse, InsertRow, RegisterDlrCallback, Age, entryVars, historyVars,
                messageVars
  <2>3. \A l \in Msgs : submit'[l] \in {"new", "refused"} => submit[l] \in {"new", "refused"}
    BY <1>2 DEF Refuse, InsertRow, RegisterDlrCallback, Age, messageVars
  <2> QED BY <2>1, <2>2, <2>3, RegistryQuiet DEF NeverBack, Held
<1>3. CASE \/ Heartbeat \/ Silence \/ UNCHANGED vars
           \/ \E r \in Results : UpdateMessage(r) \/ TriggerDlrCallback(r)
  <2>1. UNCHANGED <<queue, inflight, attempts, polls, submit>>
    BY <1>3 DEF Heartbeat, Silence, UpdateMessage, TriggerDlrCallback, vars, entryVars,
                historyVars, messageVars
  <2>2. TypeOK'
    <3>1. CASE Heartbeat \/ Silence \/ UNCHANGED vars
      BY <3>1 DEF Heartbeat, Silence, vars, entryVars, historyVars, messageVars
    <3>2. ASSUME NEW r \in Results, UpdateMessage(r) PROVE TypeOK'
      BY <3>2, ZenonT(40) DEF UpdateMessage, entryVars, historyVars
    <3>3. ASSUME NEW r \in Results, TriggerDlrCallback(r) PROVE TypeOK'
      <4>1. told' \in [Msgs -> Seq({"DELIVRD", "FAILED"})] /\ callback' \in [Msgs -> BOOLEAN]
        <5> DEFINE m == result[r].msg
                   k == IF result[r].kind = "sent" THEN "DELIVRD" ELSE "FAILED"
        <5>1. m \in Msgs
          BY <3>3 DEF TriggerDlrCallback
        <5>2. Append(told[m], k) \in Seq({"DELIVRD", "FAILED"})
          BY <5>1
        <5> QED BY <3>3, <5>1, <5>2, ZenonT(40) DEF TriggerDlrCallback, Consumed
      <4> QED BY <3>3, <4>1, ZenonT(40) DEF TriggerDlrCallback, entryVars
    <3> QED BY <1>3, <3>1, <3>2, <3>3
  <2> QED BY <2>1, <2>2, RegistryQuiet DEF NeverBack, Held
<1>4. ASSUME NEW n \in 1..Len(queue), Poll(n) PROVE Registry' /\ NeverBack
  BY <1>4, RegistryPoll DEF NeverBack, Poll, messageVars
<1>5. ASSUME NEW r \in Results, NEW m \in Msgs, NEW success \in BOOLEAN,
             Report(r, m, success)
      PROVE  Registry' /\ NeverBack
  BY <1>5, RegistryReport DEF NeverBack, Report, messageVars
<1>6. CASE CleanupFresh
  BY <1>6, RegistryCleanup DEF NeverBack, CleanupFresh, messageVars
<1>7. CASE CleanupSilent \/ Restart
  <2>1. Registry' /\ Held' = {}
    BY <1>7, RegistryEmpties
  <2>2. \A m \in Msgs : submit'[m] = submit[m] \/ submit'[m] = "aborted"
    BY <1>7 DEF CleanupSilent, Restart, messageVars
  <2> QED BY <2>1, <2>2 DEF NeverBack
<1> HIDE DEF Registry, TypeOK
<1> QED BY <1>1, <1>2, <1>3, <1>4, <1>5, <1>6, <1>7 DEF Next, SubmitStep, Cleanup

\* So the registry is well formed in every reachable state.
LEMMA RegistryHolds == Spec => []Registry
<1>1. Init => Registry
  <2> SUFFICES ASSUME Init PROVE Registry
    OBVIOUS
  <2>1. TypeOK
    BY GatewayAssumption DEF GatewayAssumption, Init, TypeOK, NoResult
  <2>2. Range(queue) = {} /\ Distinct(queue)
    BY DEF Init, Range, Distinct
  <2> QED BY <2>1, <2>2, GatewayAssumption
          DEF GatewayAssumption, Init, Registry, Places, Tries, Held
<1>2. Registry /\ [Next]_vars => Registry'
  BY RegistryStep
<1> QED BY <1>1, <1>2, PTL DEF Spec

\* The registry, the rows and the result calls stay in range.
THEOREM TypeCorrect == Spec => []TypeOK
<1>1. Registry => TypeOK
  BY DEF Registry
<1> QED BY <1>1, RegistryHolds, PTL

\* A message is in the queue once at most, and not while it is claimed, however
\* polls, failures, expired claims and re-registrations interleave.
THEOREM ClaimedOnceHolds == Spec => []ClaimedOnce
<1>1. Registry => ClaimedOnce
  BY DEF Registry, Places, Distinct, ClaimedOnce
<1> QED BY <1>1, RegistryHolds, PTL

-----------------------------------------------------------------------------
(* The rows *)

\* There is no row before the INSERT, and what failed for good has left the registry.
Left(m) == m \notin Held /\ submit[m] # "new"

Rows ==
    /\ \A m \in Msgs :
          /\ submit[m] \in {"new", "queued", "refused"} => row[m] = "none"
          /\ row[m] = "FAILED" => Left(m)
    /\ \A r \in Results :
          result[r].pc = "update" /\ result[r].kind = "failed" => Left(result[r].msg)

\* Once gone, gone for good
LEMMA LeftStays ==
    ASSUME NeverBack, NEW m \in Msgs, Left(m)
    PROVE  m \notin Held' /\ submit'[m] # "new"
  BY DEF NeverBack, Left

\* Every step of the gateway keeps it.
LEMMA RowsStep ==
    ASSUME Registry, Rows, [Next]_vars
    PROVE  Rows'
<1> USE DEF Registry, TypeOK
<1>0. NeverBack
  BY RegistryStep
<1>1. CASE UNCHANGED result
           /\ \A m \in Msgs : /\ row'[m] = "FAILED" => row[m] = "FAILED"
                              /\ submit'[m] \in {"new", "queued", "refused"} => row'[m] = "none"
  <2>1. ASSUME NEW m \in Msgs, row'[m] = "FAILED" PROVE m \notin Held' /\ submit'[m] # "new"
    <3>1. Left(m)
      BY <1>1, <2>1 DEF Rows
    <3> QED BY <1>0, <3>1, LeftStays
  <2>2. ASSUME NEW r \in Results, result'[r].pc = "update", result'[r].kind = "failed"
        PROVE  result'[r].msg \notin Held' /\ submit'[result'[r].msg] # "new"
    <3>1. result'[r] = result[r] /\ result[r].msg \in Msgs /\ Left(result[r].msg)
      BY <1>1, <2>2 DEF Rows
    <3> QED BY <1>0, <3>1, LeftStays
  <2> QED BY <1>1, <2>1, <2>2 DEF Rows, Left
<1>2. ASSUME NEW m \in Msgs, SubmitStep(m) \/ Age(m) PROVE Rows'
  <2>1. \A l \in Msgs : /\ row'[l] = "FAILED" => row[l] = "FAILED"
                        /\ submit'[l] \in {"new", "queued", "refused"} => row'[l] = "none"
    BY <1>2 DEF SubmitStep, EnqueueRestMt, Refuse, InsertRow, RegisterDlrCallback, Age,
                messageVars, Rows
  <2>2. UNCHANGED result
    BY <1>2 DEF SubmitStep, EnqueueRestMt, Refuse, InsertRow, RegisterDlrCallback, Age
  <2> QED BY <1>1, <2>1, <2>2
<1>3. CASE \/ Heartbeat \/ Silence \/ UNCHANGED vars \/ Cleanup
           \/ \E n \in 1..Len(queue) : Poll(n)
  <2>1. UNCHANGED <<submit, row, result>>
    BY <1>3 DEF Heartbeat, Silence, vars, messageVars, Cleanup, CleanupFresh, CleanupSilent,
                Poll
  <2> QED BY <1>1, <2>1 DEF Rows
<1>4. ASSUME NEW r \in Results, NEW m \in Msgs, NEW success \in BOOLEAN,
             Report(r, m, success)
      PROVE  Rows'
  <2>1. /\ UNCHANGED <<submit, row>> /\ polls[m] > 0
        /\ result'[r].msg = m
        /\ \A q \in Results \ {r} : result'[q] = result[q]
    BY <1>4 DEF Report, messageVars
  <2>2. submit'[m] # "new"
    BY <2>1 DEF Tries
  <2>3. result'[r].pc = "update" /\ result'[r].kind = "failed" => m \notin Held'
    BY <1>4, RegistryReport
  <2>4. \A l \in Msgs : row'[l] = "FAILED" => l \notin Held' /\ submit'[l] # "new"
    BY <1>0, <2>1, LeftStays DEF Rows
  <2>5. ASSUME NEW q \in Results, result'[q].pc = "update", result'[q].kind = "failed"
        PROVE  result'[q].msg \notin Held' /\ submit'[result'[q].msg] # "new"
    <3>1. CASE q = r
      BY <2>1, <2>2, <2>3, <2>5, <3>1
    <3>2. CASE q # r
      <4>1. result'[q] = result[q] /\ Left(result[q].msg) /\ result[q].msg \in Msgs
        BY <2>1, <2>5, <3>2 DEF Rows
      <4> QED BY <1>0, <4>1, LeftStays
    <3> QED BY <3>1, <3>2
  <2> QED BY <2>1, <2>4, <2>5 DEF Rows, Left
<1>5. ASSUME NEW r \in Results, UpdateMessage(r) PROVE Rows'
  <2> DEFINE m == result[r].msg
  <2>1. m \in Msgs /\ result[r].pc = "update"
    BY <1>5 DEF UpdateMessage
  <2>2. /\ UNCHANGED <<queue, inflight, submit>>
        /\ \A q \in Results : result'[q].pc = "update" => result'[q] = result[q]
        /\ \A l \in Msgs \ {m} : row'[l] = row[l]
        /\ row[m] = "none" => row'[m] = "none"
        /\ row'[m] = "FAILED" => row[m] = "FAILED" \/ result[r].kind = "failed"
    BY <1>5, <2>1 DEF UpdateMessage, Upgrades, entryVars
  <2>3. row'[m] = "FAILED" => Left(m)
    BY <2>1, <2>2 DEF Rows
  <2> HIDE DEF m
  <2>4. \A l \in Msgs :
           /\ submit'[l] \in {"new", "queued", "refused"} => row'[l] = "none"
           /\ row'[l] = "FAILED" => Left(l)
    BY <2>1, <2>2, <2>3 DEF Rows
  <2> QED BY <2>2, <2>4 DEF Rows, Left, Held
<1>6. ASSUME NEW r \in Results, TriggerDlrCallback(r) PROVE Rows'
  <2>1. /\ UNCHANGED <<queue, inflight, submit, row>>
        /\ \A q \in Results : result'[q].pc = "update" => result'[q] = result[q]
    BY <1>6 DEF TriggerDlrCallback, entryVars
  <2> QED BY <2>1 DEF Rows, Left, Held
<1>7. CASE Restart
  <2>1. /\ row' = row
        /\ \A m \in Msgs : submit'[m] = submit[m] \/ submit'[m] = "aborted"
        /\ \A q \in Results : result'[q].pc # "update"
    BY <1>7 DEF Restart
  <2>2. \A m \in Msgs : row'[m] = "FAILED" => m \notin Held' /\ submit'[m] # "new"
    BY <1>0, <2>1, LeftStays DEF Rows
  <2> QED BY <2>1, <2>2 DEF Rows, Left
<1> QED BY <1>2, <1>3, <1>4, <1>5, <1>6, <1>7 DEF Next

\* So a row tells of a result only after the registry has let its message go.
LEMMA RowsHold == Spec => []Rows
<1>1. Init => Rows
  BY DEF Init, Rows, NoResult
<1>2. Registry /\ Rows /\ [Next]_vars => Rows'
  BY RowsStep
<1> QED BY <1>1, <1>2, RegistryHolds, PTL DEF Spec

\* The phone gets a message MAX_ATTEMPTS times at most, and one whose row was
\* marked FAILED never again.
THEOREM TriesEndHolds == Spec => []TriesEnd
<1>1. Registry /\ Rows => TriesEnd
  BY DEF Registry, Tries, Rows, Left, Held, TriesEnd
<1> QED BY <1>1, RegistryHolds, RowsHold, PTL

\* Late, repeated and contradicting results leave a final row alone, and so does
\* the INSERT, which no result can come before.
THEOREM FinalRowStandsHolds == Spec => FinalRowStands
<1>1. ASSUME Registry, Rows, [Next]_vars, NEW m \in Msgs, row[m] \in {"DELIVERED", "FAILED"}
      PROVE  row'[m] = row[m]
  <2> USE DEF Registry, TypeOK
  <2>1. ASSUME NEW l \in Msgs, SubmitStep(l) \/ Age(l) PROVE row'[m] = row[m]
    BY <1>1, <2>1 DEF Rows, SubmitStep, EnqueueRestMt, Refuse, InsertRow,
                      RegisterDlrCallback, Age, messageVars
  <2>2. ASSUME NEW r \in Results, UpdateMessage(r) PROVE row'[m] = row[m]
    BY <1>1, <2>2 DEF UpdateMessage, Upgrades
  <2>3. ASSUME NEW r \in Results, NEW l \in Msgs, NEW success \in BOOLEAN,
               Report(r, l, success)
        PROVE  row'[m] = row[m]
    BY <2>3 DEF Report, messageVars
  <2>4. CASE \/ Heartbeat \/ Silence \/ UNCHANGED vars \/ Cleanup \/ Restart
             \/ \E n \in 1..Len(queue) : Poll(n)
             \/ \E r \in Results : TriggerDlrCallback(r)
    BY <2>4 DEF Heartbeat, Silence, vars, messageVars, Cleanup, CleanupFresh,
                CleanupSilent, Restart, Poll, TriggerDlrCallback
  <2> QED BY <1>1, <2>1, <2>2, <2>3, <2>4 DEF Next
<1>2. Registry /\ Rows /\ [Next]_vars =>
         [\A m \in Msgs : row[m] \in {"DELIVERED", "FAILED"} => row'[m] = row[m]]_vars
  BY <1>1
<1> QED BY <1>2, RegistryHolds, RowsHold, PTL DEF Spec, FinalRowStands

-----------------------------------------------------------------------------
(* The receipts *)

\* A callback is registered once, and before it is no receipt was sent.
Receipts ==
    \A m \in Msgs :
        /\ submit[m] \in {"new", "queued", "inserted"} => ~callback[m] /\ told[m] = <<>>
        /\ callback[m] => told[m] = <<>>
        /\ Len(told[m]) <= 1

\* Every step keeps it: triggerDlrCallback takes the callback for the receipt.
LEMMA ReceiptsStep ==
    ASSUME TypeOK, Receipts, [Next]_vars
    PROVE  Receipts'
<1> USE DEF TypeOK
<1>1. ASSUME NEW m \in Msgs, SubmitStep(m) \/ Age(m) PROVE Receipts'
  BY <1>1, ZenonT(40) DEF Receipts, SubmitStep, EnqueueRestMt, Refuse, InsertRow, RegisterDlrCallback,
              Age, messageVars, historyVars
<1>2. ASSUME NEW r \in Results, TriggerDlrCallback(r) PROVE Receipts'
  <2> DEFINE m == result[r].msg
             k == IF result[r].kind = "sent" THEN "DELIVRD" ELSE "FAILED"
  <2>1. CASE callback[m]
    <3>1. m \in Msgs /\ told[m] = <<>> /\ submit[m] \notin {"new", "queued", "inserted"}
      BY <1>2, <2>1 DEF TriggerDlrCallback, Receipts
    <3>2. /\ callback' = [callback EXCEPT ![m] = FALSE] /\ submit' = submit
          /\ told' = [told EXCEPT ![m] = Append(<<>>, k)]
      BY <1>2, <2>1, <3>1 DEF TriggerDlrCallback, Consumed
    <3>3. Len(Append(<<>>, k)) = 1
      OBVIOUS
    <3> HIDE DEF m, k
    <3> QED BY <3>1, <3>2, <3>3 DEF Receipts
  <2>2. CASE ~callback[m]
    BY <1>2, <2>2 DEF TriggerDlrCallback, Receipts
  <2> QED BY <2>1, <2>2
<1>3. CASE \/ Heartbeat \/ Silence \/ UNCHANGED vars \/ Cleanup
           \/ \E n \in 1..Len(queue) : Poll(n)
           \/ \E r \in Results : UpdateMessage(r)
           \/ \E r \in Results, m \in Msgs, success \in BOOLEAN : Report(r, m, success)
  <2>1. UNCHANGED <<submit, callback, told>>
    BY <1>3 DEF Heartbeat, Silence, vars, messageVars, historyVars, Cleanup, CleanupFresh,
                CleanupSilent, Poll, UpdateMessage, Report
  <2> QED BY <2>1 DEF Receipts
<1>4. CASE Restart
  BY <1>4 DEF Restart, Receipts, historyVars
<1> QED BY <1>1, <1>2, <1>3, <1>4 DEF Next

\* The client gets one receipt a message at most, although results are repeated.
THEOREM ToldOnceHolds == Spec => []ToldOnce
<1>1. Init => Receipts
  BY DEF Init, Receipts
<1>2. TypeOK /\ Receipts /\ [Next]_vars => Receipts'
  BY ReceiptsStep
<1>3. Receipts => ToldOnce
  BY DEF Receipts, ToldOnce
<1> QED BY <1>1, <1>2, <1>3, TypeCorrect, PTL DEF Spec
===============================================================================
