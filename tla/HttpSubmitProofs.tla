--------------------------- MODULE HttpSubmitProofs ---------------------------
(***************************************************************************)
(* Theorems about HttpSubmit, for any number of requests, contents, poll   *)
(* passes, windows, faults and restarts, and any modes and routes.         *)
(***************************************************************************)
EXTENDS HttpSubmit, TLAPS

-----------------------------------------------------------------------------
(* Types *)

USE DEF configVars, dedupeVars, rowVars, clockVars

\* A step that leaves the configuration alone keeps its types.
LEMMA SameConfig == ConfigTypes /\ UNCHANGED configVars => ConfigTypes'
  BY DEF ConfigTypes

\* A step that leaves requests and markers alone keeps their types.
LEMMA SameRequests ==
    RequestTypes /\ UNCHANGED <<dedupeVars, request>> => RequestTypes'
  BY DEF RequestTypes

\* A step that leaves the rows alone keeps their types.
LEMMA SameRows == RowTypes /\ UNCHANGED rowVars => RowTypes'
  BY DEF RowTypes

\* A step that leaves the forced-outcome timers alone keeps their types.
LEMMA SameTimers == TimerTypes /\ UNCHANGED timer => TimerTypes'
  BY DEF TimerTypes

\* A step that leaves the poll passes alone keeps their types.
LEMMA SamePasses == PassTypes /\ UNCHANGED pass => PassTypes'
  BY DEF PassTypes

\* What delivery reports is a status of a row, or the refusal of a call.
LEMMA OutcomesType == ConfigTypes => Outcomes \subseteq Statuses \cup {"refused", "unread"}
  BY HttpAssumption DEF HttpAssumption, RouteTypes, ConfigTypes, Outcomes, Statuses

\* Before the first request everything is in range.
LEMMA InitType == Init => TypeOK
  BY HttpAssumption
  DEF HttpAssumption, Init, TypeOK, ConfigTypes, RequestTypes, RowTypes, TimerTypes,
      PassTypes, NewRequest, NoTimer, NoPass, RequestPCs, Statuses, DlrValues, Answers

\* The guard against repeats keeps the types.
LEMMA GuardType ==
    ASSUME TypeOK,
           \/ \E r \in Requests : Submit(r)
           \/ \E k \in Keys : WindowEnds(k)
    PROVE  TypeOK'
<1>1. ASSUME NEW r \in Requests, Submit(r) PROVE TypeOK'
  <2>1. KeyOf[r] \in Keys
    BY HttpAssumption DEF HttpAssumption
  <2>2. RequestTypes'
    BY <1>1, <2>1 DEF Submit, TypeOK, RequestTypes, RequestPCs
  <2> QED
    BY <1>1, <2>2, SameConfig, SameRows, SameTimers, SamePasses DEF Submit, TypeOK
<1>2. CASE \E k \in Keys : WindowEnds(k)
  <2>1. RequestTypes'
    BY <1>2 DEF WindowEnds, TypeOK, RequestTypes
  <2> QED
    BY <1>2, <2>1, SameConfig, SameRows, SameTimers, SamePasses DEF WindowEnds, TypeOK
<1> QED BY <1>1, <1>2

\* Send, INSERT, charge and forced outcome keep the types.
LEMMA RequestStepType ==
    ASSUME TypeOK, NEW r \in Requests, RequestStep(r)
    PROVE  TypeOK'
<1>1. ASSUME NEW o \in Outcomes, Deliver(r, o) PROVE TypeOK'
  <2>1. RequestTypes'
    BY <1>1, OutcomesType DEF Deliver, Released, TypeOK, RequestTypes, RequestPCs
  <2> QED
    BY <1>1, <2>1, SameConfig, SameRows, SameTimers, SamePasses DEF Deliver, TypeOK
<1>2. CASE Insert(r)
  <2> DEFINE o == request[r].outcome
  <2>1. o \in Statuses \cup {"unread"}
    BY <1>2 DEF Insert, TypeOK, RequestTypes
  <2>2. RequestTypes'
    BY <1>2 DEF Insert, Released, AfterCount, TypeOK, RequestTypes, RequestPCs
  <2>3. InsertStatus(o) \in Statuses /\ InsertDlr(o) \in DlrValues /\ InsertCost(o) \in 0..1
    BY <2>1 DEF InsertStatus, InsertDlr, InsertCost, Statuses, DlrValues
  <2>4. RowTypes'
    BY <1>2, <2>1, <2>3 DEF Insert, TypeOK, RowTypes
  <2> QED
    BY <1>2, <2>2, <2>4, SameConfig, SameTimers, SamePasses DEF Insert, TypeOK
<1>3. CASE Count(r)
  <2>1. RequestTypes'
    BY <1>3 DEF Count, AfterCount, TypeOK, RequestTypes, RequestPCs
  <2>2. counted' \in [Requests -> Nat]
    BY <1>3 DEF Count, TypeOK
  <2> QED
    BY <1>3, <2>1, <2>2, SameConfig, SameRows, SameTimers, SamePasses DEF Count, TypeOK
<1>4. CASE ForceNow(r)
  <2>1. RequestTypes'
    BY <1>4 DEF ForceNow, AfterForced, TypeOK, RequestTypes, RequestPCs
  <2>2. RowTypes'
    BY <1>4 DEF ForceNow, TypeOK, RowTypes, Statuses, DlrValues
  <2>3. TimerTypes'
    BY <1>4 DEF ForceNow, TypeOK, TimerTypes
  <2> QED
    BY <1>4, <2>1, <2>2, <2>3, SameConfig, SamePasses DEF ForceNow, TypeOK
<1>5. CASE ForceCount(r)
  <2>1. RequestTypes'
    BY <1>5 DEF ForceCount, AfterForced, TypeOK, RequestTypes, RequestPCs
  <2>2. counted' \in [Requests -> Nat]
    BY <1>5 DEF ForceCount, TypeOK
  <2> QED
    BY <1>5, <2>1, <2>2, SameConfig, SameRows, SameTimers, SamePasses
    DEF ForceCount, TypeOK
<1>6. CASE ForceCost(r)
  <2>1. RequestTypes'
    BY <1>6 DEF ForceCost, TypeOK, RequestTypes, RequestPCs
  <2>2. RowTypes'
    BY <1>6 DEF ForceCost, TypeOK, RowTypes
  <2> QED
    BY <1>6, <2>1, <2>2, SameConfig, SameTimers, SamePasses DEF ForceCost, TypeOK
<1> QED BY <1>1, <1>2, <1>3, <1>4, <1>5, <1>6 DEF RequestStep

\* The timer of a forced outcome keeps the types.
LEMMA TimerStepType ==
    ASSUME TypeOK, NEW r \in Requests, TimerStep(r)
    PROVE  TypeOK'
<1>1. CASE TimerRead(r)
  <2>1. TimerTypes'
    BY <1>1 DEF TimerRead, NoTimer, TypeOK, TimerTypes, RowTypes
  <2> QED
    BY <1>1, <2>1, SameConfig, SameRequests, SameRows, SamePasses DEF TimerRead, TypeOK
<1>2. CASE TimerCount(r)
  <2>1. TimerTypes' /\ counted' \in [Requests -> Nat]
    BY <1>2 DEF TimerCount, TypeOK, TimerTypes
  <2> QED
    BY <1>2, <2>1, SameConfig, SameRequests, SameRows, SamePasses DEF TimerCount, TypeOK
<1>3. CASE TimerWrite(r)
  <2>1. TimerTypes'
    BY <1>3 DEF TimerWrite, NoTimer, TypeOK, TimerTypes
  <2>2. RowTypes'
    BY <1>3 DEF TimerWrite, TypeOK, TimerTypes, RowTypes, Statuses, DlrValues
  <2> QED
    BY <1>3, <2>1, <2>2, SameConfig, SameRequests, SamePasses DEF TimerWrite, TypeOK
<1> QED BY <1>1, <1>2, <1>3 DEF TimerStep

\* The pass that goes on to its next row is one of the poller's.
PassRecord ==
    [pc : {"idle", "next", "fetch", "read", "write", "count"},
     todo : SUBSET Requests, due : SUBSET Requests, msg : Requests \cup {NoRequest},
     answer : Answers, deferred : BOOLEAN, unpriced : BOOLEAN]

\* A pass that is done with a row is well formed and holds no row.
LEMMA FinishedType ==
    ASSUME PassTypes, NEW p \in Passes, NEW r
    PROVE  Finished(p, r) \in PassRecord /\ Finished(p, r).pc \in {"idle", "next"}
<1>1. pass[p].todo \subseteq Requests /\ pass[p].due \subseteq Requests
  BY DEF PassTypes
<1>2. pass[p].todo \ {r} \subseteq Requests /\ pass[p].due \ {r} \subseteq Requests
  BY <1>1
<1>3. NoPass \in PassRecord /\ NoPass.pc = "idle"
  BY DEF NoPass, PassRecord, Answers
<1>4. CASE pass[p].todo \ {r} = {}
  BY <1>3, <1>4 DEF Finished
<1>5. CASE pass[p].todo \ {r} # {}
  <2>1. Finished(p, r) = [NoPass EXCEPT !.pc = "next", !.todo = pass[p].todo \ {r},
                                        !.due = pass[p].due \ {r}]
    BY <1>5 DEF Finished
  <2> QED BY <1>2, <1>3, <2>1 DEF PassRecord
<1> QED BY <1>4, <1>5

\* A pass that moves on to a well-formed record keeps the types.
LEMMA PassUpdate ==
    ASSUME PassTypes, NEW p \in Passes, NEW c \in PassRecord,
           c.pc \in {"fetch", "read", "write", "count"} => c.msg \in Requests,
           c.pc \in {"read", "write", "count"} => c.answer # "PENDING",
           pass' = [pass EXCEPT ![p] = c]
    PROVE  PassTypes'
  BY DEF PassTypes, PassRecord

\* ... and so does one that finishes its row.
LEMMA PassFinishes ==
    ASSUME PassTypes, NEW p \in Passes, NEW r, pass' = [pass EXCEPT ![p] = Finished(p, r)]
    PROVE  PassTypes'
<1> DEFINE c == Finished(p, r)
<1>1. c \in PassRecord /\ c.pc \in {"idle", "next"}
  BY FinishedType
<1>2. pass' = [pass EXCEPT ![p] = c]
  OBVIOUS
<1> HIDE DEF c
<1> QED BY <1>1, <1>2, PassUpdate

\* Selection and the rows a pass leaves or fails keep the types.
LEMMA PollMessageType ==
    ASSUME TypeOK, NEW p \in Passes,
           PollSelect(p) \/ \E r \in Requests : PollMessage(p, r)
    PROVE  TypeOK'
<1>1. CASE PollSelect(p)
  <2> DEFINE c == [pass[p] EXCEPT !.pc = "next", !.todo = Candidates,
                                  !.due = Candidates \ recent]
  <2>1. c \in PassRecord /\ c.pc = "next"
    BY DEF TypeOK, PassTypes, PassRecord, Candidates, Waiting
  <2>2. pass' = [pass EXCEPT ![p] = c]
    BY <1>1 DEF PollSelect
  <2>3. PassTypes'
    <3> HIDE DEF c
    <3> QED BY <2>1, <2>2, PassUpdate DEF TypeOK
  <2> QED
    BY <1>1, <2>3, SameConfig, SameRequests, SameRows, SameTimers DEF PollSelect, TypeOK
<1>2. ASSUME NEW r \in Requests, PollMessage(p, r) PROVE TypeOK'
  <2>1. CASE PollSkip(p, r) \/ PollNoUrl(p, r)
    <3>1. PassTypes'
      BY <2>1, PassFinishes DEF PollSkip, PollNoUrl, TypeOK
    <3> QED
      BY <2>1, <3>1, SameConfig, SameRequests, SameRows, SameTimers
      DEF PollSkip, PollNoUrl, TypeOK
  <2>2. CASE PollTimeout(p, r)
    <3>1. PassTypes'
      BY <2>2, PassFinishes DEF PollTimeout, TypeOK
    <3>2. RowTypes'
      BY <2>2 DEF PollTimeout, TypeOK, RowTypes, DlrValues
    <3> QED
      BY <2>2, <3>1, <3>2, SameConfig, SameRequests, SameTimers DEF PollTimeout, TypeOK
  <2>3. CASE PollFetch(p, r)
    <3> DEFINE c == [pass[p] EXCEPT !.pc = "fetch", !.msg = r]
    <3>1. c \in PassRecord /\ c.pc = "fetch" /\ c.msg = r
      BY DEF TypeOK, PassTypes, PassRecord
    <3>2. pass' = [pass EXCEPT ![p] = c]
      BY <2>3 DEF PollFetch
    <3>3. PassTypes'
      <4> HIDE DEF c
      <4> QED BY <3>1, <3>2, PassUpdate DEF TypeOK
    <3> QED
      BY <2>3, <3>3, SameConfig, SameRequests, SameRows, SameTimers DEF PollFetch, TypeOK
  <2> QED BY <1>2, <2>1, <2>2, <2>3 DEF PollMessage
<1> QED BY <1>1, <1>2

\* The answer of a supplier and what a poll does with it keep the types.
LEMMA PollAnswerType ==
    ASSUME TypeOK, NEW p \in Passes,
           \/ \E a \in Answers : PollAnswer(p, a)
           \/ PollRead(p) \/ PollWrite(p) \/ PollCount(p)
    PROVE  TypeOK'
<1> DEFINE r == pass[p].msg
<1>1. pass[p] \in PassRecord
  BY DEF TypeOK, PassTypes, PassRecord
<1>2. ASSUME NEW a \in Answers, PollAnswer(p, a) PROVE TypeOK'
  <2> DEFINE c == [pass[p] EXCEPT !.pc = "read", !.answer = a]
  <2>1. PassTypes'
    <3>1. CASE a = "PENDING"
      BY <1>2, <3>1, PassFinishes DEF PollAnswer, TypeOK
    <3>2. CASE a # "PENDING"
      <4>1. c \in PassRecord /\ c.pc = "read" /\ c.msg = r /\ c.answer = a
        BY <1>1 DEF PassRecord
      <4>2. r \in Requests
        BY <1>2 DEF PollAnswer, TypeOK, PassTypes
      <4>3. pass' = [pass EXCEPT ![p] = c]
        BY <1>2, <3>2 DEF PollAnswer
      <4> HIDE DEF c
      <4> QED BY <3>2, <4>1, <4>2, <4>3, PassUpdate DEF TypeOK
    <3> QED BY <3>1, <3>2
  <2>2. r \in Requests
    BY <1>2 DEF PollAnswer, TypeOK, PassTypes
  <2> QED
    BY <1>2, <2>1, <2>2, SameConfig, SameRequests, SameRows, SameTimers
    DEF PollAnswer, TypeOK
<1>3. CASE PollRead(p)
  <2> DEFINE c == [pass[p] EXCEPT
                     !.pc = "write",
                     !.deferred = IsDlrCharged(clientMode) /\ cost[r] = 0,
                     !.unpriced = IsDlrCharged(supplierMode) /\ supplierCost[r] = 0]
  <2>1. /\ c \in PassRecord /\ c.pc = "write" /\ c.msg = r
        /\ c.answer = pass[p].answer
    BY <1>1 DEF PassRecord, IsDlrCharged
  <2>2. r \in Requests /\ pass[p].answer # "PENDING"
    BY <1>3 DEF PollRead, TypeOK, PassTypes
  <2>3. pass' = [pass EXCEPT ![p] = c]
    BY <1>3 DEF PollRead
  <2>4. PassTypes'
    <3> HIDE DEF c
    <3> QED BY <2>1, <2>2, <2>3, PassUpdate DEF TypeOK
  <2> QED
    BY <1>3, <2>4, SameConfig, SameRequests, SameRows, SameTimers DEF PollRead, TypeOK
<1>4. CASE PollWrite(p)
  <2> DEFINE c == [pass[p] EXCEPT !.pc = "count"]
  <2>1. c \in PassRecord /\ c.pc = "count" /\ c.msg = r /\ c.answer = pass[p].answer
    BY <1>1 DEF PassRecord
  <2>2. r \in Requests /\ pass[p].answer \in Answers \ {"PENDING"}
    BY <1>1, <1>4 DEF PollWrite, TypeOK, PassTypes, PassRecord
  <2>3. \/ pass' = [pass EXCEPT ![p] = Finished(p, r)]
        \/ pass' = [pass EXCEPT ![p] = c]
    BY <1>4 DEF PollWrite
  <2>4. PassTypes'
    <3> HIDE DEF c
    <3> QED BY <2>1, <2>2, <2>3, PassUpdate, PassFinishes DEF TypeOK
  <2>5. RowTypes'
    <3>1. PolledStatus(r, pass[p].answer) \in Statuses \cup {"none"}
      BY <2>2 DEF PolledStatus, TypeOK, RowTypes, Statuses
    <3> QED BY <1>4, <2>2, <3>1 DEF PollWrite, TypeOK, RowTypes, Answers, DlrValues
  <2> QED
    BY <1>4, <2>4, <2>5, SameConfig, SameRequests, SameTimers DEF PollWrite, TypeOK
<1>5. CASE PollCount(p)
  <2>1. PassTypes'
    BY <1>5, PassFinishes DEF PollCount, TypeOK
  <2>2. counted' \in [Requests -> Nat]
    <3>1. r \in Requests
      BY <1>5 DEF PollCount, TypeOK, PassTypes
    <3> QED BY <1>5, <3>1 DEF PollCount, TypeOK
  <2> QED
    BY <1>5, <2>1, <2>2, SameConfig, SameRequests, SameRows, SameTimers
    DEF PollCount, TypeOK
<1> QED BY <1>2, <1>3, <1>4, <1>5

\* Faults, restarts and time keep the types.
LEMMA FaultType ==
    ASSUME TypeOK,
           \/ Fault \/ Restart
           \/ \E r \in Requests : ClockStep(r)
    PROVE  TypeOK'
<1>1. CASE Fault
  <2>1. faults' \in 0..MaxFaults
    BY <1>1, HttpAssumption DEF HttpAssumption, Fault, TypeOK
  <2>2. ConfigTypes' /\ RowTypes'
    BY <1>1, SameConfig, SameRows DEF Fault, TypeOK
  <2>3. ASSUME NEW r \in Requests, RequestFault(r)
        PROVE  RequestTypes' /\ TimerTypes' /\ PassTypes'
    <3>1. RequestTypes'
      BY <1>1, <2>3 DEF Fault, RequestFault, TypeOK, RequestTypes, RequestPCs
    <3> QED BY <2>3, <3>1, SameTimers, SamePasses DEF RequestFault, TypeOK
  <2>4. ASSUME NEW r \in Requests, TimerFault(r)
        PROVE  RequestTypes' /\ TimerTypes' /\ PassTypes'
    <3>1. TimerTypes'
      BY <2>4 DEF TimerFault, NoTimer, TypeOK, TimerTypes
    <3> QED BY <1>1, <2>4, <3>1, SameRequests, SamePasses DEF Fault, TimerFault, TypeOK
  <2>5. ASSUME NEW p \in Passes, PollFault(p) \/ PollMisread(p)
        PROVE  RequestTypes' /\ TimerTypes' /\ PassTypes'
    <3>1. CASE PollFault(p)
      BY <1>1, <3>1, PassFinishes, SameRequests, SameTimers DEF Fault, PollFault, TypeOK
    <3>2. CASE PollMisread(p)
      <4>1. PICK deferred \in BOOLEAN, unpriced \in BOOLEAN :
               pass' = [pass EXCEPT ![p].pc = "write", ![p].deferred = deferred,
                                    ![p].unpriced = unpriced]
        BY <3>2 DEF PollMisread, IsDlrCharged
      <4> DEFINE c == [pass[p] EXCEPT !.pc = "write", !.deferred = deferred,
                                      !.unpriced = unpriced]
      <4>2. /\ c \in PassRecord /\ c.pc = "write" /\ c.msg = pass[p].msg
            /\ c.answer = pass[p].answer
        BY DEF TypeOK, PassTypes, PassRecord
      <4>3. pass[p].msg \in Requests /\ pass[p].answer # "PENDING"
        BY <3>2 DEF PollMisread, TypeOK, PassTypes
      <4>4. pass' = [pass EXCEPT ![p] = c]
        BY <4>1
      <4>5. PassTypes'
        <5> HIDE DEF c
        <5> QED BY <4>2, <4>3, <4>4, PassUpdate DEF TypeOK
      <4> QED
        BY <1>1, <3>2, <4>5, SameRequests, SameTimers DEF Fault, PollMisread, TypeOK
    <3> QED BY <2>5, <3>1, <3>2
  <2> QED BY <1>1, <2>1, <2>2, <2>3, <2>4, <2>5 DEF Fault, TypeOK
<1>2. CASE Restart
  <2>1. faults' \in 0..MaxFaults
    BY <1>2, HttpAssumption DEF HttpAssumption, Restart, TypeOK
  <2>2. RequestTypes'
    BY <1>2 DEF Restart, TypeOK, RequestTypes, RequestPCs
  <2>3. TimerTypes' /\ PassTypes'
    BY <1>2 DEF Restart, NoTimer, NoPass, TimerTypes, PassTypes, Answers
  <2> QED BY <1>2, <2>1, <2>2, <2>3, SameConfig, SameRows DEF Restart, TypeOK
<1>3. ASSUME NEW r \in Requests, ClockStep(r) PROVE TypeOK'
  BY <1>3, SameConfig, SameRequests, SameRows, SameTimers, SamePasses
  DEF ClockStep, TimesOut, Due, Ages, Advances, TypeOK
<1> QED BY <1>1, <1>2, <1>3

\* Every behaviour keeps the types: no order of requests, timers, polls, faults and
\* restarts inserts a row without an outcome or writes one without an answer.
THEOREM TypeCorrect == Spec => []TypeOK
<1>1. Init => TypeOK
  BY InitType
<1>2. TypeOK /\ [Next]_vars => TypeOK'
  <2> SUFFICES ASSUME TypeOK, [Next]_vars PROVE TypeOK'
    OBVIOUS
  <2>1. CASE Next
    BY <2>1, GuardType, RequestStepType, TimerStepType, PollMessageType, PollAnswerType,
       FaultType DEF Next, PollStep
  <2>2. CASE UNCHANGED vars
    BY <2>2, SameConfig, SameRequests, SameRows, SameTimers, SamePasses DEF TypeOK, vars
  <2> QED BY <2>1, <2>2
<1> QED BY <1>1, <1>2, PTL DEF Spec

-----------------------------------------------------------------------------
(* Rows *)

Early    == {"new", "duplicate", "send", "insert"}
Recorded == {"count", "force", "forceCount", "forceCost"}

\* Nothing is written to a row, counted for it or asked about it before its INSERT.
RowFirst ==
    /\ \A r \in Requests :
          /\ request[r].pc \in Early => status[r] = "none"
          /\ request[r].pc \in Recorded => status[r] # "none"
          /\ request[r].pc \in {"new", "duplicate", "send"} => request[r].outcome = "none"
          /\ status[r] = "none" =>
                /\ dlr[r] = "none" /\ cost[r] = 0 /\ supplierCost[r] = 0
                /\ counted[r] = 0 /\ timer[r].pc = "none"
    /\ \A p \in Passes :
          /\ \A r \in pass[p].todo : status[r] # "none"
          /\ pass[p].pc \in {"fetch", "read", "write", "count"} =>
                status[pass[p].msg] # "none"

\* A pass that is done with a row is left with some of the rows it had.
LEMMA FinishedTodo ==
    ASSUME NEW p, NEW r
    PROVE  /\ Finished(p, r).todo \subseteq pass[p].todo
           /\ Finished(p, r).pc \in {"idle", "next"}
<1>1. NoPass.todo = {} /\ NoPass.pc = "idle"
  BY DEF NoPass
<1>2. CASE pass[p].todo \ {r} = {}
  BY <1>1, <1>2 DEF Finished
<1>3. CASE pass[p].todo \ {r} # {}
  BY <1>3 DEF Finished, NoPass
<1> QED BY <1>2, <1>3

\* The guard, the send and the restart write no row.
LEMMA RowFirstGuard ==
    ASSUME TypeOK, RowFirst,
           \/ \E r \in Requests : Submit(r) \/ \E o \in Outcomes : Deliver(r, o)
           \/ \E k \in Keys : WindowEnds(k)
           \/ \E r \in Requests : ClockStep(r)
           \/ Restart
    PROVE  RowFirst'
<1>1. ASSUME NEW r \in Requests, Submit(r) PROVE RowFirst'
  BY <1>1 DEF Submit, RowFirst, TypeOK, RequestTypes, Early, Recorded
<1>2. ASSUME NEW r \in Requests, NEW o \in Outcomes, Deliver(r, o) PROVE RowFirst'
  BY <1>2 DEF Deliver, RowFirst, TypeOK, RequestTypes, Early, Recorded
<1>3. ASSUME NEW k \in Keys, WindowEnds(k) PROVE RowFirst'
  BY <1>3 DEF WindowEnds, RowFirst
<1>4. ASSUME NEW r \in Requests, ClockStep(r) PROVE RowFirst'
  BY <1>4 DEF ClockStep, TimesOut, Due, Ages, Advances, RowFirst
<1>5. CASE Restart
  BY <1>5 DEF Restart, NoTimer, NoPass, RowFirst, TypeOK, RequestTypes, Early, Recorded
<1> QED BY <1>1, <1>2, <1>3, <1>4, <1>5

\* A request writes only its own row, after it has inserted it.
LEMMA RowFirstRequest ==
    ASSUME TypeOK, RowFirst, NEW r \in Requests,
           Insert(r) \/ Count(r) \/ ForceNow(r) \/ ForceCount(r) \/ ForceCost(r)
           \/ TimerStep(r)
    PROVE  RowFirst'
<1> USE DEF RowFirst, TypeOK, RequestTypes, RowTypes, TimerTypes, PassTypes, Early, Recorded
<1>1. CASE Insert(r)
  <2>1. request[r].outcome # "none" /\ InsertStatus(request[r].outcome) # "none"
    BY <1>1 DEF Insert, InsertStatus, Statuses
  <2>2. AfterCount(request[r].outcome) \in {"force", "done"}
    BY DEF AfterCount
  <2>3. /\ request' = [request EXCEPT ![r].pc = request'[r].pc]
        /\ request'[r].pc \in {"count", "force", "done"}
    BY <1>1, <2>2 DEF Insert
  <2> QED BY <1>1, <2>1, <2>3 DEF Insert
<1>2. CASE Count(r)
  BY <1>2 DEF Count, AfterCount
<1>3. CASE ForceNow(r)
  <2>1. status[r] # "none"
    BY <1>3 DEF ForceNow
  <2>2. AfterForced \in {"forceCost", "done"}
    BY DEF AfterForced
  <2>3. /\ request' = [request EXCEPT ![r].pc = request'[r].pc]
        /\ request'[r].pc \in {"forceCount", "forceCost", "done"}
    BY <1>3, <2>2 DEF ForceNow
  <2>4. \/ UNCHANGED <<status, dlr>> /\ timer' = [timer EXCEPT ![r].pc = "set"]
        \/ /\ status' = [status EXCEPT ![r] = "DELIVERED"]
           /\ dlr' = [dlr EXCEPT ![r] = "DELIVERED"]
           /\ UNCHANGED timer
    BY <1>3 DEF ForceNow
  <2>5. UNCHANGED <<cost, supplierCost, counted, pass>>
    BY <1>3 DEF ForceNow
  <2>6. \A s \in Requests : status[s] # "none" => status'[s] # "none"
    BY <2>4
  <2>7. \A s \in Requests \ {r} : UNCHANGED <<status[s], dlr[s], timer[s], request[s]>>
    BY <2>3, <2>4
  <2>8. status'[r] # "none" /\ request'[r].outcome = request[r].outcome
    BY <2>1, <2>3, <2>6
  <2> HIDE DEF Early
  <2>9. request'[r].pc \notin Early
    BY <2>3 DEF Early
  <2> QED BY <2>3, <2>5, <2>6, <2>7, <2>8, <2>9 DEF Early
<1>4. CASE ForceCount(r) \/ ForceCost(r)
  <2>1. status[r] # "none"
    BY <1>4 DEF ForceCount, ForceCost
  <2>2. AfterForced \in {"forceCost", "done"}
    BY DEF AfterForced
  <2>3. CASE ForceCount(r)
    BY <2>1, <2>2, <2>3 DEF ForceCount
  <2>4. CASE ForceCost(r)
    BY <2>1, <2>4 DEF ForceCost
  <2> QED BY <1>4, <2>3, <2>4
<1>5. CASE TimerRead(r)
  BY <1>5 DEF TimerRead, NoTimer
<1>6. CASE TimerCount(r)
  <2>1. status[r] # "none"
    BY <1>6 DEF TimerCount
  <2> QED BY <1>6, <2>1 DEF TimerCount
<1>7. CASE TimerWrite(r)
  <2>1. status[r] # "none"
    BY <1>7 DEF TimerWrite
  <2> QED BY <1>7, <2>1 DEF TimerWrite, NoTimer
<1> QED BY <1>1, <1>2, <1>3, <1>4, <1>5, <1>6, <1>7 DEF TimerStep

\* A poll writes only rows it selected, and those were SENT then.
LEMMA RowFirstPoll ==
    ASSUME TypeOK, RowFirst, NEW p \in Passes, PollStep(p)
    PROVE  RowFirst'
<1> USE DEF RowFirst, TypeOK, RowTypes, PassTypes
<1>1. CASE PollSelect(p)
  <2>1. \A r \in Candidates : status[r] # "none"
    BY DEF Candidates, Waiting
  <2> QED BY <1>1, <2>1 DEF PollSelect
<1>2. ASSUME NEW r \in Requests, PollMessage(p, r) PROVE RowFirst'
  BY <1>2, FinishedTodo DEF PollMessage, PollSkip, PollTimeout, PollNoUrl, PollFetch
<1>3. ASSUME NEW a \in Answers, PollAnswer(p, a) PROVE RowFirst'
  BY <1>3, FinishedTodo DEF PollAnswer
<1>4. CASE PollRead(p)
  BY <1>4 DEF PollRead
<1>5. CASE PollWrite(p)
  <2>1. status[pass[p].msg] # "none"
    BY <1>5 DEF PollWrite
  <2>2. \A r : status[r] # "none" => PolledStatus(r, pass[p].answer) # "none"
    BY DEF PolledStatus
  <2>3. \A r \in Requests : status[r] # "none" => status'[r] # "none"
    BY <1>5, <2>1, <2>2 DEF PollWrite
  <2>4. \A r \in Requests : r # pass[p].msg =>
           status'[r] = status[r] /\ dlr'[r] = dlr[r]
    BY <1>5 DEF PollWrite
  <2>5. \A q \in Passes : /\ pass'[q].todo \subseteq pass[q].todo
                          /\ pass'[q].pc \in {"fetch", "read", "write", "count"} =>
                                /\ pass[q].pc \in {"fetch", "read", "write", "count"}
                                /\ pass'[q].msg = pass[q].msg
    <3>1. \A q \in Passes \ {p} : pass'[q] = pass[q]
      BY <1>5 DEF PollWrite
    <3>2. \/ pass'[p] = Finished(p, pass[p].msg)
          \/ pass'[p].todo = pass[p].todo /\ pass'[p].msg = pass[p].msg
      BY <1>5 DEF PollWrite
    <3>3. pass[p].pc = "write"
      BY <1>5 DEF PollWrite
    <3>4. /\ pass'[p].todo \subseteq pass[p].todo
          /\ pass'[p].pc \in {"fetch", "read", "write", "count"} =>
                pass'[p].msg = pass[p].msg
      BY <3>2, FinishedTodo
    <3> QED BY <3>1, <3>3, <3>4
  <2> QED BY <1>5, <2>1, <2>3, <2>4, <2>5 DEF PollWrite, Early
<1>6. CASE PollCount(p)
  BY <1>6, FinishedTodo DEF PollCount
<1> QED BY <1>1, <1>2, <1>3, <1>4, <1>5, <1>6 DEF PollStep

\* A fault writes no row.
LEMMA RowFirstFault ==
    ASSUME TypeOK, RowFirst, Fault
    PROVE  RowFirst'
<1> USE DEF RowFirst, TypeOK, RequestTypes, TimerTypes, PassTypes, Early, Recorded
<1>1. ASSUME NEW r \in Requests, RequestFault(r) PROVE RowFirst'
  BY <1>1 DEF Fault, RequestFault
<1>2. ASSUME NEW r \in Requests, TimerFault(r) PROVE RowFirst'
  BY <1>2 DEF Fault, TimerFault, NoTimer
<1>3. ASSUME NEW p \in Passes, PollFault(p) PROVE RowFirst'
  <2>1. \A q \in Passes : /\ pass'[q].todo \subseteq pass[q].todo
                          /\ pass'[q] = pass[q] \/ pass'[q].pc \in {"idle", "next"}
    BY <1>3, FinishedTodo DEF PollFault
  <2>2. UNCHANGED <<request, timer, status, dlr, cost, supplierCost, counted>>
    BY <1>3 DEF Fault, PollFault
  <2> QED BY <2>1, <2>2
<1>4. ASSUME NEW p \in Passes, PollMisread(p) PROVE RowFirst'
  <2>1. /\ \A q \in Passes : pass'[q].todo = pass[q].todo /\ pass'[q].msg = pass[q].msg
        /\ \A q \in Passes \ {p} : pass'[q] = pass[q]
        /\ pass[p].pc = "read"
    BY <1>4 DEF PollMisread
  <2>2. UNCHANGED <<request, timer, status, dlr, cost, supplierCost, counted>>
    BY <1>4 DEF Fault, PollMisread
  <2> QED BY <2>1, <2>2
<1> QED BY <1>1, <1>2, <1>3, <1>4 DEF Fault

\* Every step keeps it.
LEMMA RowFirstStep == TypeOK /\ RowFirst /\ [Next]_vars => RowFirst'
<1> SUFFICES ASSUME TypeOK, RowFirst, [Next]_vars PROVE RowFirst'
  OBVIOUS
<1>1. CASE Next
  BY <1>1, RowFirstGuard, RowFirstRequest, RowFirstPoll, RowFirstFault
  DEF Next, RequestStep
<1>2. CASE UNCHANGED vars
  BY <1>2 DEF vars, RowFirst
<1> QED BY <1>1, <1>2

\* Nothing is written to a row before its INSERT.
LEMMA RowFirstHolds == Spec => []RowFirst
<1>1. Init => RowFirst
  BY DEF Init, RowFirst, NewRequest, NoTimer, NoPass, Recorded
<1> QED BY <1>1, RowFirstStep, TypeCorrect, PTL DEF Spec

-----------------------------------------------------------------------------
(* Status *)

\* A message once shown as DELIVERED stays so, whatever timers, timeouts and
\* overlapping polls write later: only an INSERT and a delivery write the status.
THEOREM StatusStandsHolds == Spec => StatusStands
<1>1. ASSUME TypeOK, RowFirst, [Next]_vars, NEW r \in Requests, status[r] = "DELIVERED"
      PROVE  status'[r] = "DELIVERED"
  <2> USE <1>1 DEF TypeOK, RowTypes
  <2>1. ASSUME NEW s \in Requests, Insert(s) PROVE status'[r] = "DELIVERED"
    BY <2>1 DEF Insert, RowFirst, Early
  <2>2. ASSUME NEW s \in Requests, ForceNow(s) \/ TimerWrite(s)
        PROVE  status'[r] = "DELIVERED"
    BY <2>2 DEF ForceNow, TimerWrite
  <2>3. ASSUME NEW p \in Passes, PollWrite(p) PROVE status'[r] = "DELIVERED"
    BY <2>3 DEF PollWrite, PolledStatus
  <2>4. ASSUME NEW s \in Requests, RequestStep(s) \/ TimerStep(s)
        PROVE  status'[r] = "DELIVERED"
    BY <2>1, <2>2, <2>4
    DEF RequestStep, TimerStep, Deliver, Count, ForceCount, ForceCost, TimerRead, TimerCount
  <2>5. ASSUME NEW p \in Passes, PollStep(p) PROVE status'[r] = "DELIVERED"
    BY <2>3, <2>5
    DEF PollStep, PollSelect, PollMessage, PollSkip, PollTimeout, PollNoUrl, PollFetch,
        PollAnswer, PollRead, PollCount
  <2>6. CASE Next
    BY <2>4, <2>5, <2>6
    DEF Next, Submit, WindowEnds, ClockStep, TimesOut, Due, Ages, Advances, Fault, Restart
  <2>7. CASE UNCHANGED vars
    BY <2>7 DEF vars
  <2> QED BY <2>6, <2>7
<1>2. TypeOK /\ RowFirst /\ [Next]_vars =>
        [\A r \in Requests : status[r] = "DELIVERED" => status'[r] = "DELIVERED"]_vars
  BY <1>1
<1> QED BY <1>2, TypeCorrect, RowFirstHolds, PTL DEF Spec, StatusStands

-----------------------------------------------------------------------------
(* Repeated requests *)

\* Requests are of windows that have begun; and two of one content are entitled to
\* its marker only where an older request has released the first one's.
WindowBound ==
    \A r \in Requests : request[r].window <= window[KeyOf[r]]

SoleEntitled ==
    \A r, s \in Requests :
        r # s /\ KeyOf[r] = KeyOf[s] /\ Entitled(r) /\ Entitled(s) => ReleasedByAnother(r)

DedupeInv == WindowBound /\ MarkerJustified /\ RepeatRefused /\ SoleEntitled

\* What every step does but those of the guard, the send, the INSERT and a restart
Settled ==
    /\ UNCHANGED dedupeVars
    /\ \A r \in Requests :
          /\ request'[r].window = request[r].window
          /\ request'[r].outcome = request[r].outcome
          /\ status'[r] = "none" <=> status[r] = "none"
          /\ \/ request'[r].pc = request[r].pc
             \/ request[r].pc = "insert" /\ request'[r].pc = "errored"
             \/ /\ request[r].pc \in Recorded
                /\ request'[r].pc \in Recorded \cup {"done", "errored"}

Marking ==
    \/ \E r \in Requests : Submit(r) \/ Insert(r) \/ \E o \in Outcomes : Deliver(r, o)
    \/ \E k \in Keys : WindowEnds(k)
    \/ Restart

\* Every step marks, releases, or leaves the contents' windows and requests as they are.
LEMMA MarkingOrSettled ==
    ASSUME TypeOK, RowFirst, [Next]_vars
    PROVE  Marking \/ Settled
<1> USE DEF TypeOK, RequestTypes, RowTypes, Settled, Recorded
<1>1. ASSUME NEW r \in Requests, Count(r) PROVE Settled
  BY <1>1 DEF Count, AfterCount
<1>2. ASSUME NEW r \in Requests, ForceNow(r) PROVE Settled
  <2>1. AfterForced \in {"forceCost", "done"}
    BY DEF AfterForced
  <2>2. status[r] # "none"
    BY <1>2 DEF ForceNow, RowFirst
  <2>3. /\ request[r].pc = "force"
        /\ request'[r].pc \in {"forceCount", "forceCost", "done"}
        /\ request' = [request EXCEPT ![r].pc = request'[r].pc]
        /\ UNCHANGED dedupeVars
    BY <1>2, <2>1 DEF ForceNow
  <2>4. status' = status \/ status' = [status EXCEPT ![r] = "DELIVERED"]
    BY <1>2 DEF ForceNow
  <2> QED BY <2>2, <2>3, <2>4
<1>3. ASSUME NEW r \in Requests, ForceCount(r) \/ ForceCost(r) PROVE Settled
  <2>1. AfterForced \in {"forceCost", "done"}
    BY DEF AfterForced
  <2> QED BY <1>3, <2>1, SMTT(40) DEF ForceCount, ForceCost
<1>4. ASSUME NEW r \in Requests, TimerStep(r) PROVE Settled
  BY <1>4 DEF TimerStep, TimerRead, TimerCount, TimerWrite, RowFirst
<1>5. ASSUME NEW p \in Passes, PollStep(p) PROVE Settled
  <2>1. CASE PollWrite(p)
    <3>1. status[pass[p].msg] # "none" /\ PolledStatus(pass[p].msg, pass[p].answer) # "none"
      BY <2>1 DEF PollWrite, PolledStatus, RowFirst
    <3> QED BY <2>1, <3>1 DEF PollWrite
  <2> QED
    BY <1>5, <2>1
    DEF PollStep, PollSelect, PollMessage, PollSkip, PollTimeout, PollNoUrl, PollFetch,
        PollAnswer, PollRead, PollCount
<1>6. CASE Fault
  <2>1. ASSUME NEW r \in Requests, RequestFault(r) PROVE Settled
    BY <1>6, <2>1 DEF Fault, RequestFault
  <2>2. UNCHANGED request \/ \E r \in Requests : RequestFault(r)
    BY <1>6 DEF Fault, TimerFault, PollFault, PollMisread
  <2>3. UNCHANGED <<dedupeVars, status>>
    BY <1>6 DEF Fault
  <2> QED BY <2>1, <2>2, <2>3
<1>7. ASSUME NEW r \in Requests, ClockStep(r) PROVE Settled
  BY <1>7 DEF ClockStep, TimesOut, Due, Ages, Advances
<1>8. CASE UNCHANGED vars
  BY <1>8 DEF vars
<1> QED
  BY <1>1, <1>2, <1>3, <1>4, <1>5, <1>6, <1>7, <1>8 DEF Next, RequestStep, Marking

\* A step that settles entitles nobody anew and takes no title away.
LEMMA SettledKeeps ==
    ASSUME TypeOK, RowFirst, Settled, NEW r \in Requests
    PROVE  /\ Entitled(r)' <=> Entitled(r)
           /\ ReleasedByAnother(r)' <=> ReleasedByAnother(r)
  BY DEF Settled, Entitled, ReleasedByAnother, RowFirst, Recorded, Early

\* ... so it keeps what the guard promises.
LEMMA DedupeSettled ==
    ASSUME TypeOK, RowFirst, DedupeInv, Settled
    PROVE  DedupeInv'
<1>1. WindowBound'
  BY DEF Settled, DedupeInv, WindowBound
<1>2. MarkerJustified' /\ RepeatRefused' /\ SoleEntitled'
  BY SettledKeeps DEF Settled, DedupeInv, MarkerJustified, RepeatRefused, SoleEntitled
<1> QED BY <1>1, <1>2 DEF DedupeInv

\* A request that is admitted marks its content; one that is refused changes nothing.
LEMMA DedupeSubmit ==
    ASSUME TypeOK, RowFirst, DedupeInv, NEW r \in Requests, Submit(r)
    PROVE  DedupeInv'
<1> DEFINE k == KeyOf[r]
<1> USE DEF TypeOK, RequestTypes
<1>1. k \in Keys /\ window[k] \in Nat /\ window' = window
  BY HttpAssumption DEF HttpAssumption, Submit
<1>2. /\ request[r].pc = "new" /\ request'[r].window = window[k]
      /\ request'[r].outcome = "none"
      /\ request'[r].pc = IF k \in seen THEN "duplicate" ELSE "send"
      /\ \A s \in Requests \ {r} : request'[s] = request[s]
      /\ seen' = seen \cup {k} /\ status' = status
  BY DEF Submit
<1>3. WindowBound'
  BY <1>1, <1>2 DEF DedupeInv, WindowBound
<1>4. \A s \in Requests \ {r} : Entitled(s)' <=> Entitled(s)
  BY <1>1, <1>2 DEF Entitled
<1>5. /\ ~Entitled(r)
      /\ Entitled(r)' <=> k \notin seen
  BY <1>1, <1>2 DEF Entitled, RowFirst, Early, Succeeded
<1>6. \A s \in Requests \ {r} : ReleasedByAnother(s) => ReleasedByAnother(s)'
  BY <1>2 DEF ReleasedByAnother
<1>7. MarkerJustified'
  BY <1>2, <1>4, <1>5 DEF DedupeInv, MarkerJustified
<1>8. RepeatRefused'
  <2> SUFFICES ASSUME NEW s \in Requests, Entitled(s)', ~ReleasedByAnother(s)'
               PROVE  KeyOf[s] \in seen'
    BY DEF RepeatRefused
  <2>1. CASE s = r
    BY <1>2, <2>1
  <2>2. CASE s # r
    BY <1>2, <1>4, <1>6, <2>2 DEF DedupeInv, RepeatRefused
  <2> QED BY <2>1, <2>2
<1>9. SoleEntitled'
  <2> SUFFICES ASSUME NEW a \in Requests, NEW b \in Requests, a # b, KeyOf[a] = KeyOf[b],
                      Entitled(a)', Entitled(b)'
               PROVE  ReleasedByAnother(a)'
    BY DEF SoleEntitled
  <2>1. CASE a # r /\ b # r
    BY <1>4, <1>6, <2>1 DEF DedupeInv, SoleEntitled
  <2>2. CASE b = r
    <3>1. ReleasedByAnother(a)
      BY <1>4, <1>5, <2>2 DEF DedupeInv, RepeatRefused
    <3> QED BY <1>6, <2>2, <3>1
  <2>3. CASE a = r
    <3>1. ReleasedByAnother(b)
      BY <1>4, <1>5, <2>3 DEF DedupeInv, RepeatRefused
    <3>2. PICK s \in Requests : /\ KeyOf[s] = KeyOf[b]
                                /\ request[s].window < request[b].window
                                /\ request[s].pc \notin {"new", "duplicate", "send"}
                                /\ ~Succeeded(request[s].outcome)
      BY <3>1 DEF ReleasedByAnother
    <3>3. request[b].window = window[k]
      BY <1>4, <2>3 DEF Entitled
    <3> QED BY <1>2, <2>3, <3>2, <3>3 DEF ReleasedByAnother
  <2> QED BY <2>1, <2>2, <2>3
<1> QED BY <1>3, <1>7, <1>8, <1>9 DEF DedupeInv

\* What a delivery changes.
LEMMA DeliverEffect ==
    ASSUME TypeOK, NEW r \in Requests, NEW o, Deliver(r, o)
    PROVE  /\ request[r].pc = "send"
           /\ request'[r].pc = IF o = "refused" THEN "done" ELSE "insert"
           /\ request'[r].outcome = o
           /\ request'[r].window = request[r].window
           /\ \A s \in Requests \ {r} : request'[s] = request[s]
           /\ status' = status /\ window' = window
           /\ seen' = IF o = "refused" THEN seen \ {KeyOf[r]} ELSE seen
<1> DEFINE c == [request[r] EXCEPT !.outcome = o,
                                   !.pc = IF o = "refused" THEN "done" ELSE "insert"]
<1>1. request' = [request EXCEPT ![r] = c]
  BY DEF Deliver
<1>2. /\ c.pc = IF o = "refused" THEN "done" ELSE "insert"
      /\ c.outcome = o /\ c.window = request[r].window
  BY DEF TypeOK, RequestTypes
<1> HIDE DEF c
<1> QED BY <1>1, <1>2 DEF Deliver, Released, Succeeded, TypeOK, RequestTypes

\* A request that reports its outcome keeps its title if it succeeded; if it failed,
\* it loses its title with the marker.
LEMMA DedupeOutcome ==
    ASSUME TypeOK, RowFirst, DedupeInv, NEW r \in Requests,
           Insert(r) \/ \E o \in Outcomes : Deliver(r, o)
    PROVE  DedupeInv'
<1> DEFINE k == KeyOf[r]
<1> USE DEF TypeOK, RequestTypes, RowTypes
<1>1. /\ \A s \in Requests \ {r} : request'[s] = request[s] /\ status'[s] = status[s]
      /\ request'[r].window = request[r].window /\ window' = window
      /\ request[r].pc \in {"send", "insert"} /\ status[r] = "none"
      /\ request'[r].pc \notin {"new", "duplicate", "send"}
  <2>1. CASE Insert(r)
    BY <2>1 DEF Insert, AfterCount, RowFirst, Early
  <2>2. ASSUME NEW o \in Outcomes, Deliver(r, o)
        PROVE  <1>1!:
    BY <2>2, DeliverEffect DEF RowFirst, Early
  <2> QED BY <2>1, <2>2
<1>2. \/ seen' = seen /\ (Entitled(r)' <=> Entitled(r))
      \/ seen' = seen \ {k} /\ ~Entitled(r)' /\ ~Succeeded(request'[r].outcome)
  <2>1. ASSUME NEW o \in Outcomes, Deliver(r, o)
        PROVE  \/ seen' = seen /\ (Entitled(r)' <=> Entitled(r))
               \/ seen' = seen \ {k} /\ ~Entitled(r)' /\ ~Succeeded(request'[r].outcome)
    <3>1. CASE o = "refused"
      <4>1. request'[r].pc = "done" /\ request'[r].outcome = "refused" /\ seen' = seen \ {k}
        BY <2>1, <3>1, DeliverEffect
      <4> QED BY <4>1 DEF Entitled, Succeeded
    <3>2. CASE o # "refused"
      <4>1. request'[r].pc = "insert" /\ request[r].pc = "send" /\ seen' = seen
            /\ status'[r] = status[r]
        BY <2>1, <3>2, DeliverEffect
      <4> QED BY <1>1, <4>1 DEF Entitled
    <3> QED BY <3>1, <3>2
  <2>2. CASE Insert(r)
    <3>1. request'[r].pc \in {"count", "force", "done"}
      BY <2>2 DEF Insert, AfterCount
    <3> QED BY <1>1, <2>2, <3>1 DEF Insert, Released, Succeeded, Entitled
  <2> QED BY <2>1, <2>2
<1>3. WindowBound'
  BY <1>1 DEF DedupeInv, WindowBound
<1>4. \A s \in Requests \ {r} : Entitled(s)' <=> Entitled(s)
  BY <1>1 DEF Entitled
<1>5. ASSUME NEW s \in Requests, ReleasedByAnother(s) PROVE ReleasedByAnother(s)'
  <2>1. PICK z \in Requests : /\ KeyOf[z] = KeyOf[s]
                              /\ request[z].window < request[s].window
                              /\ request[z].pc \notin {"new", "duplicate", "send"}
                              /\ ~Succeeded(request[z].outcome)
    BY <1>5 DEF ReleasedByAnother
  <2>2. request'[s].window = request[s].window /\ request'[z].window = request[z].window
    BY <1>1
  <2>3. request'[z].pc \notin {"new", "duplicate", "send"} /\ ~Succeeded(request'[z].outcome)
    <3>1. CASE z = r
      <4>1. ASSUME NEW o \in Outcomes, Deliver(r, o) PROVE FALSE
        BY <2>1, <3>1, <4>1 DEF Deliver
      <4>2. Insert(r)
        BY <4>1
      <4>3. request'[r].outcome = request[r].outcome
        BY <4>2 DEF Insert
      <4> QED BY <1>1, <2>1, <3>1, <4>3
    <3>2. CASE z # r
      BY <1>1, <2>1, <3>2
    <3> QED BY <3>1, <3>2
  <2> QED BY <2>1, <2>2, <2>3 DEF ReleasedByAnother
<1>6. CASE seen' = seen /\ (Entitled(r)' <=> Entitled(r))
  <2>1. \A s \in Requests : Entitled(s)' <=> Entitled(s)
    BY <1>4, <1>6
  <2>2. MarkerJustified' /\ RepeatRefused' /\ SoleEntitled'
    BY <1>5, <1>6, <2>1 DEF DedupeInv, MarkerJustified, RepeatRefused, SoleEntitled
  <2> QED BY <1>3, <2>2 DEF DedupeInv
<1>7. CASE seen' = seen \ {k} /\ ~Entitled(r)' /\ ~Succeeded(request'[r].outcome)
  <2>1. MarkerJustified'
    BY <1>4, <1>7 DEF DedupeInv, MarkerJustified
  <2>2. SoleEntitled'
    BY <1>4, <1>5, <1>7 DEF DedupeInv, SoleEntitled
  <2>3. RepeatRefused'
    <3> SUFFICES ASSUME NEW s \in Requests, Entitled(s)', ~ReleasedByAnother(s)'
                 PROVE  KeyOf[s] \in seen'
      BY DEF RepeatRefused
    <3>1. s # r /\ Entitled(s) /\ ~ReleasedByAnother(s)
      BY <1>4, <1>5, <1>7
    <3>2. KeyOf[s] \in seen
      BY <3>1 DEF DedupeInv, RepeatRefused
    <3>3. ASSUME KeyOf[s] = k PROVE FALSE
      <4>1. request[s].window = window[k] /\ request[r].window <= window[k]
        BY <3>1, <3>3 DEF Entitled, DedupeInv, WindowBound
      <4>2. CASE request[r].window = window[k]
        <5>1. Entitled(r)
          BY <1>1, <4>2 DEF Entitled
        <5> QED BY <3>1, <3>3, <5>1 DEF DedupeInv, SoleEntitled
      <4>3. CASE request[r].window < window[k]
        <5>1. ReleasedByAnother(s)'
          BY <1>1, <1>7, <3>1, <3>3, <4>1, <4>3 DEF ReleasedByAnother
        <5> QED BY <5>1
      <4>4. k \in Keys
        BY HttpAssumption DEF HttpAssumption
      <4>5. request[r].window \in Nat /\ window[k] \in Nat
        BY <4>4
      <4> HIDE DEF k
      <4>6. \A a, b \in Nat : a <= b => a = b \/ a < b
        OBVIOUS
      <4> QED BY <4>1, <4>2, <4>3, <4>5, <4>6, Zenon
    <3> QED BY <1>7, <3>2, <3>3
  <2> QED BY <1>3, <2>1, <2>2, <2>3 DEF DedupeInv
<1> QED BY <1>2, <1>6, <1>7

\* At the end of a window, and at a restart, every title to the markers is void.
LEMMA DedupeWindow ==
    ASSUME TypeOK, RowFirst, DedupeInv, Restart \/ \E k \in Keys : WindowEnds(k)
    PROVE  DedupeInv'
<1> USE DEF TypeOK, RequestTypes
<1>1. ASSUME NEW k \in Keys, WindowEnds(k) PROVE DedupeInv'
  <2>1. /\ window' = [window EXCEPT ![k] = window[k] + 1] /\ seen' = seen \ {k}
        /\ request' = request /\ status' = status
    BY <1>1 DEF WindowEnds
  <2>2. ASSUME NEW r \in Requests
        PROVE  /\ KeyOf[r] \in Keys
               /\ ReleasedByAnother(r)' <=> ReleasedByAnother(r)
               /\ KeyOf[r] = k => ~Entitled(r)'
               /\ KeyOf[r] # k => (Entitled(r)' <=> Entitled(r))
    BY <2>1, HttpAssumption
    DEF HttpAssumption, ReleasedByAnother, Entitled, DedupeInv, WindowBound
  <2>3. WindowBound'
    BY <2>1, HttpAssumption DEF HttpAssumption, DedupeInv, WindowBound
  <2>4. MarkerJustified'
    BY <2>1, <2>2 DEF DedupeInv, MarkerJustified
  <2>5. RepeatRefused'
    BY <2>1, <2>2 DEF DedupeInv, RepeatRefused
  <2>6. SoleEntitled'
    BY <2>2 DEF DedupeInv, SoleEntitled
  <2> QED BY <2>3, <2>4, <2>5, <2>6 DEF DedupeInv
<1>2. CASE Restart
  <2>1. /\ window' = [k \in Keys |-> window[k] + 1] /\ seen' = {}
        /\ \A r \in Requests : request'[r].window = request[r].window
    BY <1>2 DEF Restart
  <2>2. \A r \in Requests : KeyOf[r] \in Keys /\ ~Entitled(r)'
    BY <2>1, HttpAssumption DEF HttpAssumption, Entitled, DedupeInv, WindowBound
  <2>3. WindowBound'
    BY <2>1, HttpAssumption DEF HttpAssumption, DedupeInv, WindowBound
  <2> QED
    BY <2>1, <2>2, <2>3 DEF DedupeInv, MarkerJustified, RepeatRefused, SoleEntitled
<1> QED BY <1>1, <1>2

\* Every behaviour keeps what the guard promises.
LEMMA DedupeHolds == Spec => []DedupeInv
<1>1. Init => DedupeInv
  BY HttpAssumption
  DEF HttpAssumption, Init, NewRequest, DedupeInv, WindowBound, MarkerJustified,
      RepeatRefused, SoleEntitled, Entitled
<1>2. TypeOK /\ RowFirst /\ DedupeInv /\ [Next]_vars => DedupeInv'
  BY MarkingOrSettled, DedupeSettled, DedupeSubmit, DedupeOutcome, DedupeWindow DEF Marking
<1> QED BY <1>1, <1>2, TypeCorrect, RowFirstHolds, PTL DEF Spec

\* A content is marked only while a request of the same window is on its way, has
\* been sent, or died before it made a row: a legitimate retry is let through.
THEOREM MarkerJustifiedHolds == Spec => []MarkerJustified
<1>1. DedupeInv => MarkerJustified
  BY DEF DedupeInv
<1> QED BY <1>1, DedupeHolds, PTL

\* A message on its way or sent keeps its marker to the end of its window, unless a
\* failed request of an earlier window releases it: a repeat is refused.
THEOREM RepeatRefusedHolds == Spec => []RepeatRefused
<1>1. DedupeInv => RepeatRefused
  BY DEF DedupeInv
<1> QED BY <1>1, DedupeHolds, PTL

-----------------------------------------------------------------------------
(* Costs *)

Forced == {"force", "forceCount", "forceCost"}

\* The configuration of a behaviour does not change.
LEMMA ConfigStays == [Next]_vars => UNCHANGED configVars
<1>1. ASSUME NEW r \in Requests, RequestStep(r) \/ Submit(r) \/ ClockStep(r)
      PROVE  UNCHANGED configVars
  BY <1>1 DEF RequestStep, Submit, ClockStep, TimesOut, Due, Ages, Advances, Deliver,
              Insert, Count, ForceNow, ForceCount, ForceCost
<1>2. ASSUME NEW r \in Requests, TimerStep(r) PROVE UNCHANGED configVars
  BY <1>2 DEF TimerStep, TimerRead, TimerCount, TimerWrite
<1>3. ASSUME NEW p \in Passes, PollStep(p) PROVE UNCHANGED configVars
  BY <1>3 DEF PollStep, PollSelect, PollMessage, PollSkip, PollTimeout, PollNoUrl,
              PollFetch, PollAnswer, PollRead, PollWrite, PollCount
<1>4. ASSUME Fault \/ Restart \/ \E k \in Keys : WindowEnds(k)
      PROVE  UNCHANGED configVars
  BY <1>4 DEF Fault, Restart, WindowEnds
<1> QED BY <1>1, <1>2, <1>3, <1>4 DEF Next, vars

\* Why: only a message that was sent is forced, and only its timer runs.
CostInv ==
    \A r \in Requests :
        /\ cost[r] = 1 \/ supplierCost[r] = 1 => Succeeded(request[r].outcome)
        /\ IsDlrCharged(clientMode) /\ cost[r] = 1 => status[r] = "DELIVERED"
        /\ request[r].pc \in Forced => request[r].outcome = "SENT"
        /\ timer[r].pc # "none" => request[r].outcome = "SENT"

\* The steps that touch nothing of it.
LEMMA CostQuiet ==
    ASSUME TypeOK, CostInv, UNCHANGED <<clientMode, cost, supplierCost, timer>>,
           \A r \in Requests :
              /\ status[r] = "DELIVERED" => status'[r] = "DELIVERED"
              /\ request'[r].outcome = request[r].outcome
              /\ request'[r].pc \in Forced =>
                    request[r].pc \in Forced \/ request[r].outcome = "SENT"
    PROVE  CostInv'
  BY DEF CostInv, Succeeded, IsDlrCharged

\* Every step of a request keeps it.
LEMMA CostRequest ==
    ASSUME TypeOK, RowFirst, CostInv, NEW r \in Requests, RequestStep(r)
    PROVE  CostInv'
<1> USE DEF TypeOK, RequestTypes, RowTypes, TimerTypes, Forced
<1>1. ASSUME NEW o \in Outcomes, Deliver(r, o) PROVE CostInv'
  <2>1. status[r] = "none" /\ cost[r] = 0 /\ supplierCost[r] = 0 /\ timer[r].pc = "none"
    BY <1>1 DEF Deliver, RowFirst, Early
  <2>2. UNCHANGED <<clientMode, rowVars, timer>>
    BY <1>1 DEF Deliver
  <2>3. request'[r].pc \notin Forced /\ \A s \in Requests \ {r} : request'[s] = request[s]
    BY <1>1 DEF Deliver
  <2>4. /\ ~(cost'[r] = 1 \/ supplierCost'[r] = 1)
        /\ timer'[r].pc = "none" /\ request'[r].pc \notin Forced
    BY <2>1, <2>2, <2>3
  <2>5. ASSUME NEW s \in Requests \ {r}
        PROVE  UNCHANGED <<clientMode, cost[s], supplierCost[s], status[s], timer[s],
                           request[s]>>
    BY <2>2, <2>3
  <2> HIDE DEF Forced
  <2> QED BY <2>4, <2>5 DEF CostInv, IsDlrCharged
<1>2. CASE Insert(r)
  <2> DEFINE o == request[r].outcome
  <2>1. status[r] = "none" /\ cost[r] = 0 /\ supplierCost[r] = 0 /\ timer[r].pc = "none"
    BY <1>2 DEF Insert, RowFirst, Early
  <2>2. /\ InsertCost(o) = 1 => Succeeded(o)
        /\ InsertCost(o) = 1 /\ IsDlrCharged(clientMode) => InsertStatus(o) = "DELIVERED"
    BY DEF InsertCost, ChargedAtSubmit, IsDlrCharged, IsSubmitCharged, InsertStatus
  <2>3. AfterCount(o) \in Forced => o = "SENT"
    BY DEF AfterCount
  <2>4. /\ request'[r].outcome = o
        /\ request'[r].pc \in Forced => o = "SENT"
        /\ \A s \in Requests \ {r} : request'[s] = request[s]
    BY <1>2, <2>3 DEF Insert
  <2>5. /\ status'[r] = InsertStatus(o) /\ cost'[r] = InsertCost(o) /\ supplierCost'[r] = InsertCost(o)
        /\ \A s \in Requests \ {r} : /\ status'[s] = status[s] /\ cost'[s] = cost[s]
                                     /\ supplierCost'[s] = supplierCost[s]
        /\ UNCHANGED <<clientMode, timer>>
    BY <1>2 DEF Insert
  <2> HIDE DEF o
  <2> QED BY <2>1, <2>2, <2>4, <2>5 DEF CostInv
<1>3. CASE Count(r)
  <2>1. AfterCount(request[r].outcome) \in Forced => request[r].outcome = "SENT"
    BY DEF AfterCount
  <2> QED BY <1>3, <2>1, CostQuiet DEF Count
<1>4. CASE ForceNow(r)
  <2>1. request[r].outcome = "SENT"
    BY <1>4 DEF ForceNow, CostInv
  <2>2. CASE timer' = timer
    <3>1. \A s \in Requests : /\ status[s] = "DELIVERED" => status'[s] = "DELIVERED"
                              /\ request'[s].outcome = request[s].outcome
                              /\ s # r => request'[s] = request[s]
      BY <1>4 DEF ForceNow
    <3>2. UNCHANGED <<clientMode, cost, supplierCost>>
      BY <1>4 DEF ForceNow
    <3> QED BY <2>1, <2>2, <3>1, <3>2, CostQuiet
  <2>3. CASE timer' = [timer EXCEPT ![r].pc = "set"] /\ UNCHANGED status
    <3>1. \A s \in Requests : /\ request'[s].outcome = request[s].outcome
                              /\ s # r => request'[s] = request[s] /\ timer'[s] = timer[s]
      BY <1>4, <2>3 DEF ForceNow
    <3>2. UNCHANGED <<clientMode, cost, supplierCost, status>>
      BY <1>4, <2>3 DEF ForceNow
    <3> QED BY <2>1, <3>1, <3>2 DEF CostInv
  <2> QED BY <1>4, <2>2, <2>3 DEF ForceNow
<1>5. CASE ForceCount(r)
  <2>1. \A s \in Requests : /\ request'[s].outcome = request[s].outcome
                            /\ s # r => request'[s] = request[s]
    BY <1>5 DEF ForceCount
  <2>2. request[r].pc \in Forced /\ UNCHANGED <<clientMode, rowVars, timer>>
    BY <1>5 DEF ForceCount
  <2> QED BY <2>1, <2>2, CostQuiet
<1>6. CASE ForceCost(r)
  <2>1. request[r].outcome = "SENT"
    BY <1>6 DEF ForceCost, CostInv
  <2> QED BY <1>6, <2>1 DEF ForceCost, CostInv, Succeeded
<1> QED BY <1>1, <1>2, <1>3, <1>4, <1>5, <1>6 DEF RequestStep

\* A poll, a fault, a repeat and time write no cost; the timer writes its own.
LEMMA CostOther ==
    ASSUME TypeOK, RowFirst, CostInv,
           \/ \E r \in Requests : Submit(r) \/ TimerStep(r) \/ ClockStep(r)
           \/ \E k \in Keys : WindowEnds(k)
           \/ \E p \in Passes : PollStep(p)
           \/ Fault \/ Restart
    PROVE  CostInv'
<1> USE DEF TypeOK, RequestTypes, RowTypes, TimerTypes, Forced
<1>1. ASSUME NEW r \in Requests, Submit(r) PROVE CostInv'
  <2>1. request[r].outcome = "none" /\ request'[r].outcome = "none"
        /\ request'[r].pc \notin Forced
    BY <1>1 DEF Submit, RowFirst
  <2> QED BY <1>1, <2>1, CostQuiet DEF Submit
<1>2. ASSUME NEW r \in Requests, TimerStep(r) PROVE CostInv'
  <2>1. timer[r].pc # "none"
    BY <1>2 DEF TimerStep, TimerRead, TimerCount, TimerWrite
  <2>2. request[r].outcome = "SENT" /\ request' = request /\ clientMode' = clientMode
    BY <1>2, <2>1 DEF CostInv, TimerStep, TimerRead, TimerCount, TimerWrite
  <2>3. \A s \in Requests \ {r} :
           /\ timer'[s] = timer[s] /\ cost'[s] = cost[s] /\ status'[s] = status[s]
           /\ supplierCost'[s] = supplierCost[s]
    BY <1>2 DEF TimerStep, TimerRead, TimerCount, TimerWrite
  <2>4. \/ cost'[r] = cost[r] /\ status'[r] = status[r]
        \/ status'[r] = "DELIVERED"
    BY <1>2 DEF TimerStep, TimerRead, TimerCount, TimerWrite
  <2> QED BY <2>2, <2>3, <2>4 DEF CostInv, Succeeded
<1>3. ASSUME NEW r \in Requests, ClockStep(r) PROVE CostInv'
  BY <1>3, CostQuiet DEF ClockStep, TimesOut, Due, Ages, Advances
<1>4. ASSUME NEW k \in Keys, WindowEnds(k) PROVE CostInv'
  BY <1>4, CostQuiet DEF WindowEnds
<1>5. ASSUME NEW p \in Passes, PollStep(p) PROVE CostInv'
  <2>1. UNCHANGED <<clientMode, request, cost, supplierCost, timer>>
    BY <1>5 DEF PollStep, PollSelect, PollMessage, PollSkip, PollTimeout, PollNoUrl,
       PollFetch, PollAnswer, PollRead, PollWrite, PollCount
  <2>2. \A r \in Requests : status[r] = "DELIVERED" => status'[r] = "DELIVERED"
    <3>1. CASE PollWrite(p)
      BY <3>1, SMTT(40) DEF PollWrite, PolledStatus
    <3>2. CASE ~PollWrite(p)
      BY <1>5, <3>2 DEF PollStep, PollSelect, PollMessage, PollSkip, PollTimeout,
         PollNoUrl, PollFetch, PollAnswer, PollRead, PollCount
    <3> QED BY <3>1, <3>2
  <2> QED BY <2>1, <2>2, CostQuiet, SMTT(40)
<1>6. CASE Fault
  <2>1. ASSUME NEW r \in Requests, RequestFault(r) PROVE CostInv'
    BY <1>6, <2>1, CostQuiet DEF Fault, RequestFault
  <2>2. ASSUME NEW r \in Requests, TimerFault(r) PROVE CostInv'
    BY <1>6, <2>2 DEF Fault, TimerFault, NoTimer, CostInv
  <2>3. ASSUME NEW p \in Passes, PollFault(p) \/ PollMisread(p) PROVE CostInv'
    BY <1>6, <2>3, CostQuiet DEF Fault, PollFault, PollMisread
  <2> QED BY <1>6, <2>1, <2>2, <2>3 DEF Fault
<1>7. CASE Restart
  <2>1. \A r \in Requests : /\ request'[r].outcome = request[r].outcome
                            /\ request'[r].pc \notin Forced
                            /\ timer'[r].pc = "none"
    BY <1>7 DEF Restart, NoTimer
  <2>2. UNCHANGED <<clientMode, rowVars>>
    BY <1>7 DEF Restart
  <2> QED BY <2>1, <2>2 DEF CostInv
<1> QED BY <1>1, <1>2, <1>3, <1>4, <1>5, <1>6, <1>7

\* Every behaviour keeps it.
LEMMA CostHolds == Spec => []CostInv
<1>1. Init => CostInv
  <2> SUFFICES ASSUME Init, NEW r \in Requests
               PROVE  /\ cost[r] # 1 /\ supplierCost[r] # 1
                      /\ request[r].pc \notin Forced /\ timer[r].pc = "none"
    BY DEF CostInv
  <2>1. cost[r] = 0 /\ supplierCost[r] = 0
    BY DEF Init
  <2>2. request[r].pc = "new" /\ timer[r].pc = "none"
    BY DEF Init, NewRequest, NoTimer
  <2> QED BY <2>1, <2>2 DEF Forced
<1>2. TypeOK /\ RowFirst /\ CostInv /\ [Next]_vars => CostInv'
  <2> SUFFICES ASSUME TypeOK, RowFirst, CostInv, [Next]_vars PROVE CostInv'
    OBVIOUS
  <2>1. CASE Next
    BY <2>1, CostRequest, CostOther DEF Next
  <2>2. CASE UNCHANGED vars
    BY <2>2 DEF vars, CostInv
  <2> QED BY <2>1, <2>2
<1> QED BY <1>1, <1>2, TypeCorrect, RowFirstHolds, PTL DEF Spec

\* A message that failed at submit never costs anything, and the row of an on_dlr
\* client shows a cost only with the delivery, whatever forced outcomes and polls do.
THEOREM PricedForOutcomeHolds == Spec => []PricedForOutcome
<1>1. CostInv => PricedForOutcome
  BY DEF CostInv, PricedForOutcome, Succeeded
<1> QED BY <1>1, CostHolds, PTL

-----------------------------------------------------------------------------
(* Counting *)

\* CountedOnce is about clients charged at submit, and about Business API sends.
Paid == IsSubmitCharged(clientMode) \/ route = "business"

\* Why: the forced outcome and its timer count only an on_dlr client, and only a
\* message that was SENT, which a Business API send never is.
CountRows ==
    \A r \in Requests :
        /\ Paid => counted[r] <= 1
        /\ Paid /\ request[r].pc \in Early \cup {"count"} => counted[r] = 0
        /\ request[r].pc = "forceCount" \/ timer[r].pc = "count" => IsDlrCharged(clientMode)
        /\ route = "business" => request[r].outcome # "SENT"

\* ... and a poll counts only what it found deferred, for a CUSTOM_API supplier.
CountPasses ==
    \A p \in Passes :
        /\ pass[p].deferred => IsDlrCharged(clientMode)
        /\ pass[p].pc = "count" => pass[p].deferred
        /\ pass[p].pc # "idle" => route = "custom"

\* A row that no step of its own touches stays as it is.
LEMMA CountRowsOthers ==
    ASSUME CountRows, UNCHANGED configVars, NEW r \in Requests,
           \A s \in Requests \ {r} :
               UNCHANGED <<counted[s], request[s], timer[s]>>,
           Paid => counted'[r] <= 1,
           Paid /\ request'[r].pc \in Early \cup {"count"} => counted'[r] = 0,
           request'[r].pc = "forceCount" \/ timer'[r].pc = "count" => IsDlrCharged(clientMode),
           route = "business" => request'[r].outcome # "SENT"
    PROVE  CountRows'
<1> SUFFICES ASSUME NEW s \in Requests
             PROVE  /\ Paid => counted'[s] <= 1
                    /\ Paid /\ request'[s].pc \in Early \cup {"count"} => counted'[s] = 0
                    /\ request'[s].pc = "forceCount" \/ timer'[s].pc = "count"
                          => IsDlrCharged(clientMode)
                    /\ route = "business" => request'[s].outcome # "SENT"
  BY DEF CountRows, Paid, IsDlrCharged, IsSubmitCharged
<1>1. CASE s = r
  BY <1>1
<1>2. CASE s # r
  BY <1>2 DEF CountRows
<1> QED BY <1>1, <1>2

\* Every step of a request keeps it.
LEMMA CountRequest ==
    ASSUME TypeOK, CostInv, CountRows, NEW r \in Requests, RequestStep(r)
    PROVE  CountRows'
<1> USE DEF TypeOK, RequestTypes, Early
<1>0. UNCHANGED configVars
  BY ConfigStays DEF Next
<1>1. ASSUME NEW o \in Outcomes, Deliver(r, o) PROVE CountRows'
  <2>1. route = "business" => o # "SENT"
    BY DEF Outcomes
  <2>2. request'[r].outcome = o /\ request'[r].pc \in {"done", "insert"}
        /\ \A s \in Requests \ {r} : request'[s] = request[s]
    BY <1>1 DEF Deliver
  <2>3. request[r].pc = "send" /\ UNCHANGED <<counted, timer>>
    BY <1>1 DEF Deliver
  <2> QED BY <1>0, <2>1, <2>2, <2>3, CountRowsOthers DEF CountRows
<1>2. CASE Insert(r)
  <2>1. /\ request[r].pc = "insert" /\ UNCHANGED <<counted, timer>>
        /\ request'[r].outcome = request[r].outcome /\ request'[r].pc # "forceCount"
        /\ \A s \in Requests \ {r} : request'[s] = request[s]
    BY <1>2 DEF Insert, AfterCount
  <2> QED BY <1>0, <2>1, CountRowsOthers DEF CountRows
<1>3. CASE Count(r)
  <2>1. /\ request[r].pc = "count" /\ UNCHANGED timer
        /\ request'[r].outcome = request[r].outcome
        /\ request'[r].pc \in {"force", "done"} /\ counted'[r] = counted[r] + 1
        /\ \A s \in Requests \ {r} : UNCHANGED <<counted[s], request[s]>>
    BY <1>3 DEF Count, AfterCount
  <2> QED BY <1>0, <2>1, CountRowsOthers DEF CountRows
<1>4. CASE ForceNow(r)
  <2>1. /\ UNCHANGED counted /\ request'[r].outcome = request[r].outcome
        /\ request'[r].pc \notin Early \cup {"count"}
        /\ request'[r].pc = "forceCount" => IsDlrCharged(clientMode)
        /\ \A s \in Requests \ {r} : request'[s] = request[s]
    BY <1>4 DEF ForceNow, ForcedCharge, AfterForced
  <2>2. /\ timer'[r].pc = "count" => timer[r].pc = "count"
        /\ \A s \in Requests \ {r} : timer'[s] = timer[s]
    BY <1>4 DEF ForceNow, TimerTypes
  <2> QED BY <1>0, <2>1, <2>2, CountRowsOthers DEF CountRows
<1>5. CASE ForceCount(r)
  <2>1. /\ request[r].pc = "forceCount" /\ UNCHANGED timer
        /\ request'[r].outcome = request[r].outcome
        /\ request'[r].pc \in {"forceCost", "done"}
        /\ \A s \in Requests \ {r} : UNCHANGED <<counted[s], request[s]>>
    BY <1>5 DEF ForceCount, AfterForced
  <2>2. ~Paid
    BY <2>1 DEF CountRows, Paid, CostInv, Forced, IsDlrCharged, IsSubmitCharged
  <2> QED BY <1>0, <2>1, <2>2, CountRowsOthers DEF CountRows
<1>6. CASE ForceCost(r)
  <2>1. /\ UNCHANGED <<timer, counted>> /\ request'[r].outcome = request[r].outcome
        /\ request'[r].pc = "done"
        /\ \A s \in Requests \ {r} : request'[s] = request[s]
    BY <1>6 DEF ForceCost
  <2> QED BY <1>0, <2>1, CountRowsOthers DEF CountRows
<1> QED BY <1>1, <1>2, <1>3, <1>4, <1>5, <1>6 DEF RequestStep

\* So does the timer,
LEMMA CountTimer ==
    ASSUME TypeOK, CostInv, CountRows, NEW r \in Requests, TimerStep(r)
    PROVE  CountRows'
<1> USE DEF TypeOK, TimerTypes
<1>0. UNCHANGED configVars
  BY ConfigStays DEF Next
<1>1. CASE TimerRead(r)
  <2>1. /\ UNCHANGED <<counted, request>>
        /\ \A s \in Requests \ {r} : timer'[s] = timer[s]
    BY <1>1 DEF TimerRead
  <2>2. timer'[r].pc = "count" => IsDlrCharged(clientMode)
    <3>1. CASE dlr[r] # "SENT"
      BY <1>1, <3>1 DEF TimerRead, NoTimer
    <3>2. CASE dlr[r] = "SENT" /\ ~ForcedCharge
      <4>1. timer'[r].pc = "write"
        BY <1>1, <3>2 DEF TimerRead
      <4> QED BY <4>1
    <3> QED BY <3>1, <3>2 DEF ForcedCharge
  <2> QED BY <1>0, <2>1, <2>2, CountRowsOthers DEF CountRows
<1>2. CASE TimerCount(r)
  <2>1. /\ timer[r].pc = "count" /\ UNCHANGED request /\ timer'[r].pc = "write"
        /\ \A s \in Requests \ {r} : UNCHANGED <<counted[s], timer[s]>>
    BY <1>2 DEF TimerCount
  <2>2. ~Paid
    BY <2>1 DEF CountRows, Paid, CostInv, IsDlrCharged, IsSubmitCharged
  <2> QED BY <1>0, <2>1, <2>2, CountRowsOthers DEF CountRows
<1>3. CASE TimerWrite(r)
  <2>1. /\ UNCHANGED <<counted, request>> /\ timer'[r].pc = "none"
        /\ \A s \in Requests \ {r} : timer'[s] = timer[s]
    BY <1>3 DEF TimerWrite, NoTimer
  <2> QED BY <1>0, <2>1, CountRowsOthers DEF CountRows
<1> QED BY <1>1, <1>2, <1>3 DEF TimerStep

\* and a poll, which works for a CUSTOM_API supplier.
LEMMA CountPoll ==
    ASSUME TypeOK, CountRows, CountPasses, NEW p \in Passes, PollStep(p)
    PROVE  CountRows' /\ CountPasses'
<1> USE DEF TypeOK, PassTypes
<1>0. UNCHANGED configVars
  BY ConfigStays DEF Next
<1>1. UNCHANGED <<request, timer>>
  BY DEF PollStep, PollSelect, PollMessage, PollSkip, PollTimeout, PollNoUrl,
         PollFetch, PollAnswer, PollRead, PollWrite, PollCount
<1>2. UNCHANGED counted \/ ~Paid
  <2>1. CASE PollCount(p)
    BY <2>1 DEF PollCount, CountPasses, Paid, IsDlrCharged, IsSubmitCharged
  <2>2. CASE ~PollCount(p)
    BY <2>2 DEF PollStep, PollSelect, PollMessage, PollSkip, PollTimeout, PollNoUrl,
                PollFetch, PollAnswer, PollRead, PollWrite
  <2> QED BY <2>1, <2>2
<1>3. CountRows'
  BY <1>0, <1>1, <1>2 DEF CountRows, Paid, IsDlrCharged, IsSubmitCharged
<1>4. \A r \in Requests : \/ Finished(p, r) = NoPass
                          \/ Finished(p, r).pc = "next" /\ ~Finished(p, r).deferred
  BY DEF Finished, NoPass
<1>5. \A q \in Passes \ {p} : pass'[q] = pass[q]
  BY DEF PollStep, PollSelect, PollMessage, PollSkip, PollTimeout, PollNoUrl,
         PollFetch, PollAnswer, PollRead, PollWrite, PollCount
<1>6. /\ pass'[p].deferred => IsDlrCharged(clientMode)
      /\ pass'[p].pc = "count" => pass'[p].deferred
      /\ pass'[p].pc # "idle" => route = "custom"
  <2> USE <1>4 DEF CountPasses, NoPass
  <2>1. CASE PollSelect(p)
    BY <2>1, ZenonT(40) DEF PollSelect, Candidates, Waiting
  <2>2. ASSUME NEW r \in Requests, PollMessage(p, r)
        PROVE  <1>6!1 /\ <1>6!2 /\ <1>6!3
    BY <2>2 DEF PollMessage, PollSkip, PollTimeout, PollNoUrl, PollFetch
  <2>3. ASSUME NEW a \in Answers, PollAnswer(p, a)
        PROVE  <1>6!1 /\ <1>6!2 /\ <1>6!3
    BY <2>3 DEF PollAnswer
  <2>4. CASE PollRead(p)
    BY <2>4 DEF PollRead
  <2>5. CASE PollWrite(p)
    BY <2>5 DEF PollWrite
  <2>6. CASE PollCount(p)
    BY <2>6 DEF PollCount
  <2> QED BY <2>1, <2>2, <2>3, <2>4, <2>5, <2>6 DEF PollStep
<1>7. CountPasses'
  BY <1>0, <1>5, <1>6 DEF CountPasses, IsDlrCharged
<1> QED BY <1>3, <1>7

\* The rest neither counts nor sets anything that will.
LEMMA CountOther ==
    ASSUME TypeOK, RowFirst, CountRows, CountPasses,
           \/ \E r \in Requests : Submit(r) \/ ClockStep(r)
           \/ \E k \in Keys : WindowEnds(k)
           \/ Fault \/ Restart
    PROVE  CountRows' /\ CountPasses'
<1> USE DEF TypeOK, RequestTypes, TimerTypes, PassTypes, Early
<1>0. UNCHANGED configVars /\ UNCHANGED counted
  BY ConfigStays
  DEF Next, Submit, ClockStep, TimesOut, Due, Ages, Advances, WindowEnds, Fault, Restart
<1>1. ASSUME NEW r \in Requests, Submit(r) PROVE CountRows' /\ CountPasses'
  <2>1. /\ request[r].pc = "new" /\ UNCHANGED <<timer, pass>>
        /\ request'[r].pc \in Early /\ request'[r].outcome = "none"
        /\ \A s \in Requests \ {r} : request'[s] = request[s]
    BY <1>1 DEF Submit
  <2>2. CountRows'
    BY <1>0, <2>1, CountRowsOthers DEF CountRows
  <2> QED BY <1>0, <2>1, <2>2 DEF CountPasses, IsDlrCharged
<1>2. CASE \/ \E r \in Requests : ClockStep(r)
           \/ \E k \in Keys : WindowEnds(k)
  <2>1. UNCHANGED <<request, timer, pass>>
    BY <1>2 DEF ClockStep, TimesOut, Due, Ages, Advances, WindowEnds
  <2> QED BY <1>0, <2>1 DEF CountRows, CountPasses, Paid, IsDlrCharged, IsSubmitCharged
<1>3. CASE Fault
  <2>1. ASSUME NEW r \in Requests, RequestFault(r) \/ TimerFault(r)
        PROVE  CountRows' /\ CountPasses'
    <3>1. /\ UNCHANGED pass /\ request'[r].outcome = request[r].outcome
          /\ request'[r] = request[r] \/ request'[r].pc \in {"done", "errored"}
          /\ timer'[r] = timer[r] \/ timer'[r].pc = "none"
          /\ \A s \in Requests \ {r} : UNCHANGED <<request[s], timer[s]>>
      BY <2>1 DEF RequestFault, TimerFault, NoTimer
    <3>2. CountRows'
      BY <1>0, <3>1, CountRowsOthers, ZenonT(40) DEF CountRows
    <3> QED BY <1>0, <3>1, <3>2 DEF CountPasses, IsDlrCharged
  <2>2. ASSUME NEW p \in Passes, PollFault(p) PROVE CountRows' /\ CountPasses'
    <3>1. /\ UNCHANGED <<request, timer>> /\ pass[p].pc # "idle"
          /\ pass'[p].pc \in {"idle", "next"} /\ ~pass'[p].deferred
          /\ \A q \in Passes \ {p} : pass'[q] = pass[q]
      BY <2>2 DEF PollFault, Finished, NoPass
    <3>2. CountRows'
      BY <1>0, <3>1 DEF CountRows, Paid, IsDlrCharged, IsSubmitCharged
    <3> QED BY <1>0, <3>1, <3>2 DEF CountPasses, IsDlrCharged
  <2>3. ASSUME NEW p \in Passes, PollMisread(p) PROVE CountRows' /\ CountPasses'
    <3>1. /\ UNCHANGED <<request, timer>> /\ pass[p].pc = "read"
          /\ \A q \in Passes \ {p} : pass'[q] = pass[q]
      BY <2>3 DEF PollMisread
    <3>3. PICK deferred \in {FALSE, IsDlrCharged(clientMode)},
               unpriced \in {FALSE, IsDlrCharged(supplierMode)} :
             pass' = [pass EXCEPT ![p].pc = "write", ![p].deferred = deferred,
                                  ![p].unpriced = unpriced]
      BY <2>3 DEF PollMisread
    <3>4. pass'[p].pc = "write" /\ (pass'[p].deferred => IsDlrCharged(clientMode))
      <4>1. pass'[p].pc = "write" /\ pass'[p].deferred = deferred
        BY <3>3
      <4> QED BY <4>1, Zenon
    <3>2. CountRows'
      BY <1>0, <3>1 DEF CountRows, Paid, IsDlrCharged, IsSubmitCharged
    <3> QED BY <1>0, <3>1, <3>2, <3>4 DEF CountPasses, IsDlrCharged
  <2> QED BY <1>3, <2>1, <2>2, <2>3 DEF Fault
<1>4. CASE Restart
  <2>1. \A r \in Requests :
           /\ request'[r].outcome = request[r].outcome /\ timer'[r].pc = "none"
           /\ request'[r].pc \in {"new", "duplicate", "done", "errored"}
           /\ request'[r].pc \in Early => request[r].pc \in Early
    BY <1>4 DEF Restart, NoTimer
  <2>2. \A p \in Passes : pass'[p].pc = "idle" /\ ~pass'[p].deferred
    BY <1>4 DEF Restart, NoPass
  <2> QED BY <1>0, <2>1, <2>2 DEF CountRows, CountPasses, Paid, IsDlrCharged, IsSubmitCharged
<1> QED BY <1>1, <1>2, <1>3, <1>4

\* A client charged at submit, or of a Business API send, is counted at most once
\* for a message: by the request, and by no forced outcome, timer or poll after it.
THEOREM CountedOnceHolds == Spec => []CountedOnce
<1>1. Init => CountRows /\ CountPasses
  <2> SUFFICES ASSUME Init PROVE CountRows /\ CountPasses
    OBVIOUS
  <2>1. \A r \in Requests :
           /\ counted[r] = 0 /\ request[r].pc = "new" /\ request[r].outcome = "none"
           /\ timer[r].pc = "none"
    BY DEF Init, NewRequest, NoTimer
  <2>2. \A p \in Passes : pass[p].pc = "idle" /\ ~pass[p].deferred
    BY DEF Init, NoPass
  <2> QED BY <2>1, <2>2 DEF CountRows, CountPasses
<1>2. TypeOK /\ RowFirst /\ CostInv /\ CountRows /\ CountPasses /\ [Next]_vars
      => CountRows' /\ CountPasses'
  <2> SUFFICES ASSUME TypeOK, RowFirst, CostInv, CountRows, CountPasses, [Next]_vars
               PROVE  CountRows' /\ CountPasses'
    OBVIOUS
  <2>1. ASSUME NEW r \in Requests, RequestStep(r) \/ TimerStep(r)
        PROVE  CountRows' /\ CountPasses'
    <3>1. UNCHANGED <<pass, configVars>>
      BY <2>1, ConfigStays
      DEF Next, RequestStep, Deliver, Insert, Count, ForceNow, ForceCount, ForceCost,
          TimerStep, TimerRead, TimerCount, TimerWrite
    <3> QED BY <2>1, <3>1, CountRequest, CountTimer DEF CountPasses, IsDlrCharged
  <2>2. CASE UNCHANGED vars
    BY <2>2 DEF vars, CountRows, CountPasses, Paid, IsDlrCharged, IsSubmitCharged
  <2> QED BY <2>1, <2>2, CountPoll, CountOther DEF Next
<1>3. CountRows => CountedOnce
  BY DEF CountRows, CountedOnce, Paid
<1> QED BY <1>1, <1>2, <1>3, TypeCorrect, RowFirstHolds, CostHolds, PTL DEF Spec
===============================================================================
