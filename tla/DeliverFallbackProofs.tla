------------------------ MODULE DeliverFallbackProofs ------------------------
(***************************************************************************)
(* For plans of any length and any number of messages: however connections *)
(* come and go and answers are late, deliverSmsWithFallback                *)
(* (smpp-client.ts) gives a route its full turn before it goes on to the   *)
(* next, and no route more than its four attempts; it sends a message once *)
(* but for attempts a phone left unanswered, and reports what came of it.  *)
(***************************************************************************)
EXTENDS DeliverFallback, QueueFacts

\* The attempts a route whose turn is over has had
Turns(i) == {0, MaxTries} \cup (IF plan[i] = "smsc" THEN {1} ELSE {})

\* A call is on a route exactly while it is under way, and has an outcome when it is
\* over; a supplier that is not bound to us is one we connect to.
OnRoute(m) ==
    /\ call[m].pc \in {"wait", "result", "pause"} => call[m].route \in Routes /\ call[m].try > 0
    /\ call[m].pc = "new" => call[m].route = 0
    /\ call[m].pc = "pause" => call[m].try < MaxTries
    /\ call[m].pc # "over" => call[m].outcome = "none"
    /\ call[m].route \in Routes /\ ~call[m].smpp /\ ~call[m].rest => plan[call[m].route] = "smsc"

\* The attempts on the routes of the plan: behind the call, where it is, and ahead
InTurn(m) ==
    /\ \A i \in Routes : i < call[m].route => spent[m][i] \in Turns(i)
    /\ \A i \in Routes : i > call[m].route => spent[m][i] = 0
    /\ call[m].pc \in {"wait", "result", "pause"} => spent[m][call[m].route] = call[m].try
    /\ call[m].outcome \in {"failed", "queued"} => \A i \in Routes : spent[m][i] \in Turns(i)

Inv == TypeOK /\ \A m \in Messages : OnRoute(m) /\ InTurn(m)

-----------------------------------------------------------------------------
(* Routes *)

\* A plan has a first connected route, if it has one.
LEMMA FirstRoute ==
    ASSUME TypeOK, NEW i \in Nat, Connected(i) # {}
    PROVE  /\ NextRoute(i) \in Routes /\ NextRoute(i) >= i
           /\ link[NextRoute(i)] # {}
<1>1. Routes = 1 .. Len(plan) /\ Len(plan) \in Nat
  BY PlanAssumption DEF TypeOK, PlanAssumption, Routes
<1>2. Connected(i) \subseteq Nat
  BY <1>1 DEF Connected
<1>3. \E j \in Connected(i) : \A k \in Connected(i) : j <= k
  BY <1>2, LeastNumber
<1>4. NextRoute(i) \in Connected(i)
  BY <1>3 DEF NextRoute
<1> QED BY <1>4 DEF Connected

\* A route's supplier without a session of its own and without a REST phone is one
\* we connect to.
LEMMA ClientRoute ==
    ASSUME TypeOK, NEW i \in Routes, link[i] # {}, "smpp" \notin link[i], "rest" \notin link[i]
    PROVE  plan[i] = "smsc"
<1>1. plan[i] \in Kinds
  BY PlanAssumption DEF TypeOK, PlanAssumption, Routes
<1> QED BY <1>1 DEF TypeOK, Links, Kinds

-----------------------------------------------------------------------------
(* One attempt *)

\* The call of m after an attempt with c
Tried(m, c, d) ==
    /\ call' = [call EXCEPT ![m] = d]
    /\ d.pc \in {"wait", "result"}
    /\ d.route = c.route /\ d.try = c.try /\ d.outcome = "none"
    /\ d.smpp = c.smpp /\ d.rest = c.rest

\* An attempt waits for an answer or has its result.
LEMMA AttemptMade ==
    ASSUME Inv, NEW m \in Messages, NEW c \in CallType,
           c.route \in Routes, c.try \in 1..MaxTries, c.outcome = "none",
           spent[m][c.route] = c.try - 1,
           Attempt(m, c)
    PROVE  /\ \E d \in CallType : Tried(m, c, d)
           /\ spent' \in [Messages -> [Routes -> 0..MaxTries]]
           /\ spent'[m][c.route] = c.try
           /\ \A n \in Messages, i \in Routes :
                  n # m \/ i # c.route => spent'[n][i] = spent[n][i]
           /\ taken' \in [Messages -> [Routes -> Nat]]
           /\ pdus' \subseteq PduType
<1> USE DEF Inv, TypeOK
<1>1. spent' = [spent EXCEPT ![m][c.route] = @ + 1]
  BY DEF Attempt
<1>2. /\ spent' \in [Messages -> [Routes -> 0..MaxTries]]
      /\ spent'[m][c.route] = c.try
      /\ \A n \in Messages, i \in Routes : n # m \/ i # c.route => spent'[n][i] = spent[n][i]
  <2> DEFINE i == c.route
  <2>1. /\ spent \in [Messages -> [Routes -> 0..MaxTries]] /\ i \in Routes
        /\ spent[m][i] + 1 = c.try /\ c.try \in 0..MaxTries
    BY DEF MaxTries
  <2>2. spent' = [spent EXCEPT ![m][i] = @ + 1]
    BY <1>1
  <2> HIDE DEF i, Inv, TypeOK
  <2>3. /\ spent' \in [Messages -> [Routes -> 0..MaxTries]] /\ spent'[m][i] = c.try
        /\ \A n \in Messages, j \in Routes : n # m \/ j # i => spent'[n][j] = spent[n][j]
    BY <2>1, <2>2
  <2> QED BY <2>3 DEF i
<1>3. taken' \in [Messages -> [Routes -> Nat]]
  <2>1. taken' = [taken EXCEPT ![m][c.route] = @ + 1] \/ taken' = taken
    BY DEF Attempt
  <2>2. taken \in [Messages -> [Routes -> Nat]] /\ c.route \in Routes
    OBVIOUS
  <2> HIDE DEF Inv, TypeOK
  <2> QED BY <2>1, <2>2
<1>4. pdus' \subseteq PduType
  <2>1. Pdu(m, c, FirstOp(c.route)) \in PduType
    BY DEF Pdu, FirstOp, PduType, Results, MaxTries
  <2> QED BY <2>1 DEF Attempt
<1>5. \E d \in CallType : Tried(m, c, d)
  <2>1. CASE call' = [call EXCEPT ![m] = [c EXCEPT !.pc = "wait"]]
    <3> DEFINE d == [c EXCEPT !.pc = "wait"]
    <3>1. /\ d \in CallType /\ d.pc = "wait" /\ d.route = c.route /\ d.try = c.try
          /\ d.outcome = c.outcome /\ d.smpp = c.smpp /\ d.rest = c.rest
      BY DEF CallType
    <3>2. call' = [call EXCEPT ![m] = d]
      BY <2>1
    <3> HIDE DEF d
    <3> QED BY <3>1, <3>2 DEF Tried
  <2>2. CASE \E r \in {"ok", "unbound"} :
                call' = [call EXCEPT ![m] = [c EXCEPT !.pc = "result", !.result = r]]
    <3>0. PICK r \in {"ok", "unbound"} :
                call' = [call EXCEPT ![m] = [c EXCEPT !.pc = "result", !.result = r]]
      BY <2>2
    <3> DEFINE d == [c EXCEPT !.pc = "result", !.result = r]
    <3>1. /\ d \in CallType /\ d.pc = "result" /\ d.route = c.route /\ d.try = c.try
          /\ d.outcome = c.outcome /\ d.smpp = c.smpp /\ d.rest = c.rest
      BY DEF CallType, Results
    <3>2. call' = [call EXCEPT ![m] = d]
      BY <3>0
    <3> HIDE DEF d
    <3> QED BY <3>1, <3>2 DEF Tried
  <2> QED BY <2>1, <2>2 DEF Attempt
<1> QED BY <1>2, <1>3, <1>4, <1>5

-----------------------------------------------------------------------------
(* What a call may become *)

\* The call of m goes on as d: the others, and their attempts, stay.
Goes(m, d) ==
    /\ call' = [call EXCEPT ![m] = d] /\ d \in CallType
    /\ \A n \in Messages \ {m}, i \in Routes : spent'[n][i] = spent[n][i]

\* The invariant follows from what holds of that call and from the types of the rest.
LEMMA GoesKeeps ==
    ASSUME Inv, NEW m \in Messages, NEW d, Goes(m, d), OnRoute(m)', InTurn(m)', plan' = plan,
           link' \in [Routes -> SUBSET {"client", "smpp", "rest"}],
           \A i \in Routes : link'[i] \subseteq Links[plan[i]],
           pdus' \subseteq PduType, tracked' \subseteq [msg : Messages, route : Routes],
           mtQueue' \subseteq Messages, taken' \in [Messages -> [Routes -> Nat]],
           spent' \in [Messages -> [Routes -> 0..MaxTries]],
           late' \in [Messages -> Nat], changes' \in 0..MaxChanges
    PROVE  Inv'
<1>1. Routes' = Routes /\ CallType' = CallType /\ PduType' = PduType
  BY DEF Routes, CallType, PduType
<1>2. call' \in [Messages -> CallType]
  BY DEF Goes, Inv, TypeOK
<1>3. TypeOK'
  BY <1>1, <1>2 DEF Inv, TypeOK
<1>4. ASSUME NEW n \in Messages, n # m PROVE OnRoute(n)' /\ InTurn(n)'
  <2>1. call'[n] = call[n] /\ \A i \in Routes : spent'[n][i] = spent[n][i]
    BY <1>4 DEF Goes, Inv, TypeOK
  <2>2. OnRoute(n) /\ InTurn(n)
    BY DEF Inv
  <2>3. OnRoute(n)'
    BY <1>1, <2>1, <2>2 DEF OnRoute
  <2>4. call[n].pc \in {"wait", "result", "pause"} => call[n].route \in Routes
    BY <2>2 DEF OnRoute
  <2>5. InTurn(n)'
    <3>1. \A i \in Routes : Turns(i)' = Turns(i)
      BY DEF Turns
    <3>2. /\ \A i \in Routes : i < call'[n].route => spent'[n][i] \in Turns(i)
          /\ \A i \in Routes : i > call'[n].route => spent'[n][i] = 0
          /\ call'[n].outcome \in {"failed", "queued"} => \A i \in Routes : spent'[n][i] \in Turns(i)
      BY <2>1, <2>2 DEF InTurn
    <3>3. call'[n].pc \in {"wait", "result", "pause"} => spent'[n][call'[n].route] = call'[n].try
      BY <2>1, <2>2, <2>4 DEF InTurn
    <3> QED BY <1>1, <3>1, <3>2, <3>3 DEF InTurn
  <2> QED BY <2>3, <2>5
<1> QED BY <1>3, <1>4 DEF Inv

\* tryNextRoute from route i: the message's turns before i are over, those from i on
\* have not begun.
LEMMA TryKeeps ==
    ASSUME Inv, NEW m \in Messages, NEW i \in Nat \ {0}, TryFrom(m, i),
           \A j \in Routes : j < i => spent[m][j] \in Turns(j),
           \A j \in Routes : j >= i => spent[m][j] = 0,
           \A j \in Routes : j > call[m].route => spent[m][j] = 0,
           \A j \in Routes : j < call[m].route => spent[m][j] \in Turns(j),
           tracked' = tracked, UNCHANGED <<plan, link, late, changes>>
    PROVE  Inv'
<1> DEFINE Full(j) == spent[m][j] \in Turns(j)
<1>0. Routes' = Routes /\ Routes \subseteq Nat \ {0}
  BY PlanAssumption DEF Routes, Inv, TypeOK, PlanAssumption
<1>1. CASE Connected(i) = {}
  <2>1. GiveUp(m)
    BY <1>1 DEF TryFrom
  <2>2. PICK x \in {"queued", "failed"} :
            call' = [call EXCEPT ![m] = [@ EXCEPT !.pc = "over", !.outcome = x]]
    BY <2>1 DEF GiveUp
  <2> DEFINE d == [call[m] EXCEPT !.pc = "over", !.outcome = x]
  <2>3. /\ d \in CallType /\ d.pc = "over" /\ d.outcome = x /\ d.route = call[m].route
        /\ d.smpp = call[m].smpp /\ d.rest = call[m].rest
    <3>1. call[m] \in CallType
      BY DEF Inv, TypeOK
    <3> QED BY <3>1 DEF CallType
  <2>4. call' = [call EXCEPT ![m] = d]
    BY <2>2
  <2> HIDE DEF d
  <2>5. UNCHANGED <<pdus, taken, spent>> /\ mtQueue' \subseteq Messages
    BY <2>1 DEF GiveUp, Inv, TypeOK
  <2>6. Goes(m, d)
    BY <2>3, <2>4, <2>5 DEF Goes
  <2>7. call'[m] = d
    BY <2>4 DEF Inv, TypeOK
  <2>8. OnRoute(m)'
    BY <1>0, <2>3, <2>7 DEF OnRoute, Inv
  <2>9. \A j \in Routes : spent[m][j] \in Turns(j)
    BY <1>0 DEF Turns
  <2>10. InTurn(m)'
    BY <1>0, <2>3, <2>5, <2>7, <2>9 DEF InTurn, Turns
  <2> QED BY <2>5, <2>6, <2>8, <2>10, GoesKeeps DEF Inv, TypeOK
<1>2. CASE Connected(i) # {}
  <2> DEFINE j == NextRoute(i)
             a == "smpp" \in link[j]
             r == "rest" \in link[j]
             c == [NewCall EXCEPT !.route = j, !.try = 1, !.smpp = a, !.rest = r]
  <2>1. j \in Routes /\ j >= i /\ link[j] # {}
    BY <1>2, FirstRoute DEF Inv
  <2>2. Attempt(m, c) /\ mtQueue' = mtQueue
    BY <1>2 DEF TryFrom
  <2> HIDE DEF j
  <2>3. /\ c \in CallType /\ c.route = j /\ c.try = 1 /\ c.outcome = "none"
        /\ (~c.smpp => "smpp" \notin link[j]) /\ (~c.rest => "rest" \notin link[j])
    <3>1. a \in BOOLEAN /\ r \in BOOLEAN
      OBVIOUS
    <3> HIDE DEF a, r
    <3>2. c \in CallType
      <4>1. NewCall \in CallType /\ 1 \in 0..MaxTries
        BY DEF NewCall, CallType, MaxTries, Results
      <4> QED BY <2>1, <3>1, <4>1 DEF CallType
    <3>3. c.route = j /\ c.try = 1 /\ c.outcome = "none" /\ (c.smpp <=> a) /\ (c.rest <=> r)
      BY <3>1 DEF NewCall
    <3> HIDE DEF c
    <3> QED BY <3>2, <3>3 DEF a, r
  <2> HIDE DEF c
  <2>4. spent[m][c.route] = c.try - 1 /\ c.try \in 1..MaxTries
    BY <2>1, <2>3 DEF MaxTries
  <2>5. /\ \E d \in CallType : Tried(m, c, d)
        /\ spent' \in [Messages -> [Routes -> 0..MaxTries]] /\ spent'[m][c.route] = c.try
        /\ \A n \in Messages, k \in Routes : n # m \/ k # c.route => spent'[n][k] = spent[n][k]
        /\ taken' \in [Messages -> [Routes -> Nat]] /\ pdus' \subseteq PduType
    BY <2>1, <2>2, <2>3, <2>4, AttemptMade
  <2>6. PICK d \in CallType : Tried(m, c, d)
    BY <2>5
  <2>7. /\ call'[m] = d /\ d.pc \in {"wait", "result"} /\ d.route = j /\ d.try = 1
        /\ d.outcome = "none" /\ d.smpp = c.smpp /\ d.rest = c.rest
    BY <2>3, <2>6 DEF Tried, Inv, TypeOK
  <2>8. Goes(m, d)
    BY <2>5, <2>6 DEF Goes, Tried
  <2>9. ~c.smpp /\ ~c.rest => plan[j] = "smsc"
    BY <2>1, <2>3, ClientRoute DEF Inv
  <2>10. OnRoute(m)'
    BY <1>0, <2>1, <2>7, <2>9 DEF OnRoute
  <2>11. \A k \in Routes : k < j => spent[m][k] \in Turns(k)
    <3>1. \A k \in Routes : 0 \in Turns(k)
      BY DEF Turns
    <3>2. \A k \in Routes : k < i \/ k >= i
      BY <1>0
    <3> QED BY <3>1, <3>2
  <2>12. \A k \in Routes : k > j => spent[m][k] = 0
    BY <1>0, <2>1
  <2>13. InTurn(m)'
    BY <1>0, <2>1, <2>3, <2>5, <2>7, <2>11, <2>12 DEF InTurn, Turns
  <2> QED BY <2>2, <2>5, <2>8, <2>10, <2>13, GoesKeeps DEF Inv, TypeOK
<1> QED BY <1>1, <1>2

-----------------------------------------------------------------------------
(* Steps *)

\* The call's state after a step that leaves its route and its attempts: it is on its
\* way, or sent.
Stays(m, d) ==
    /\ call' = [call EXCEPT ![m] = d] /\ d \in CallType
    /\ d.route = call[m].route /\ d.try = call[m].try
    /\ d.smpp = call[m].smpp /\ d.rest = call[m].rest
    /\ d.pc \in {"result", "pause", "over"}
    /\ d.pc = "pause" => d.try < MaxTries
    /\ d.outcome = IF d.pc = "over" THEN "sent" ELSE "none"

\* A call that stays on its route (submitToRoute answered, or a pause between tries) keeps the order of routes.
LEMMA StaysKeeps ==
    ASSUME Inv, NEW m \in Messages, call[m].pc \in {"wait", "result"}, NEW d, Stays(m, d),
           UNCHANGED <<plan, link, mtQueue, taken, spent, changes>>,
           pdus' \subseteq PduType, tracked' \subseteq [msg : Messages, route : Routes],
           late' \in [Messages -> Nat]
    PROVE  Inv'
<1>1. Goes(m, d) /\ call'[m] = d
  BY DEF Goes, Stays, Inv, TypeOK
<1>2. OnRoute(m) /\ InTurn(m) /\ Routes' = Routes
  BY DEF Inv, Routes
<1>3. OnRoute(m)'
  BY <1>1, <1>2 DEF OnRoute, Stays
<1>4. \A i \in Routes : Turns(i)' = Turns(i)
  BY DEF Turns
<1>5. InTurn(m)'
  <2>1. /\ \A i \in Routes : i < d.route => spent'[m][i] \in Turns(i)
        /\ \A i \in Routes : i > d.route => spent'[m][i] = 0
        /\ d.outcome \notin {"failed", "queued"}
        /\ spent'[m][d.route] = d.try
    BY <1>2 DEF InTurn, Stays
  <2> QED BY <1>1, <1>2, <1>4, <2>1 DEF InTurn
<1> QED BY <1>1, <1>3, <1>5, GoesKeeps DEF Inv, TypeOK

\* A step that leaves the calls and their attempts alone
LEMMA RestKeeps ==
    ASSUME Inv, UNCHANGED <<plan, call, spent>>,
           link' \in [Routes -> SUBSET {"client", "smpp", "rest"}],
           \A i \in Routes : link'[i] \subseteq Links[plan[i]],
           pdus' \subseteq PduType, tracked' \subseteq [msg : Messages, route : Routes],
           mtQueue' \subseteq Messages, taken' \in [Messages -> [Routes -> Nat]],
           late' \in [Messages -> Nat], changes' \in 0..MaxChanges
    PROVE  Inv'
<1>1. Routes' = Routes /\ CallType' = CallType /\ PduType' = PduType
  BY DEF Routes, CallType, PduType
<1>2. TypeOK'
  BY <1>1 DEF Inv, TypeOK
<1>3. \A m \in Messages : OnRoute(m)' /\ InTurn(m)'
  BY <1>1 DEF Inv, OnRoute, InTurn, Turns
<1> QED BY <1>2, <1>3 DEF Inv

\* The call begins with the first route of its plan.
LEMMA DeliverKeeps ==
    ASSUME Inv, NEW m \in Messages, Deliver(m)
    PROVE  Inv'
<1>1. /\ Routes \subseteq Nat \ {0} /\ call[m].route = 0
      /\ \A j \in Routes : j > call[m].route => spent[m][j] = 0
  BY PlanAssumption DEF Deliver, Routes, Inv, TypeOK, PlanAssumption, OnRoute, InTurn
<1>2. \A j \in Routes : spent[m][j] = 0 /\ ~(j < 1) /\ ~(j < call[m].route)
  BY <1>1
<1>3. TryFrom(m, 1) /\ UNCHANGED <<plan, link, tracked, late, changes>>
  BY DEF Deliver
<1> QED BY <1>1, <1>2, <1>3, TryKeeps

\* A route's turn that ended without success has used up its attempts, or was ended by
\* an SMSC that is not bound.
LEMMA TurnOver ==
    ASSUME Inv, NEW m \in Messages, call[m].pc = "result",
           ~TriesAgain(call[m]), ~Succeeded(call[m].result)
    PROVE  call[m].route \in Routes /\ spent[m][call[m].route] \in Turns(call[m].route)
<1> DEFINE c == call[m]
<1>1. c.route \in Routes /\ c.try \in 1..MaxTries /\ spent[m][c.route] = c.try
  BY DEF Inv, OnRoute, InTurn, TypeOK, CallType
<1>2. c.try = MaxTries \/ (c.try = 1 /\ ~c.smpp /\ ~c.rest)
  BY <1>1 DEF TriesAgain, MaxTries
<1>3. ~c.smpp /\ ~c.rest => plan[c.route] = "smsc"
  BY <1>1 DEF Inv, OnRoute
<1> QED BY <1>1, <1>2, <1>3 DEF Turns

\* Going on after a failed try, on this route or on the next connected one, keeps the order of routes.
LEMMA ResumeKeeps ==
    ASSUME Inv, NEW m \in Messages, Resume(m)
    PROVE  Inv'
<1> DEFINE c == call[m]
<1>1. /\ c \in CallType /\ c.pc = "result" /\ c.route \in Routes /\ c.outcome = "none"
      /\ Routes \subseteq Nat \ {0}
  BY PlanAssumption DEF Resume, Inv, TypeOK, OnRoute, Routes, PlanAssumption
<1>2. CASE TriesAgain(c)
  <2> DEFINE d == [c EXCEPT !.pc = "pause"]
  <2>1. /\ d \in CallType /\ d.pc = "pause" /\ d.route = c.route /\ d.try = c.try
        /\ d.smpp = c.smpp /\ d.rest = c.rest /\ d.outcome = c.outcome
    BY <1>1 DEF CallType
  <2>2. /\ call' = [call EXCEPT ![m] = d]
        /\ UNCHANGED <<plan, link, mtQueue, taken, spent, changes, pdus, tracked, late>>
    BY <1>2 DEF Resume
  <2> HIDE DEF d
  <2>3. Stays(m, d)
    BY <1>1, <1>2, <2>1, <2>2 DEF Stays, TriesAgain
  <2> QED BY <1>1, <2>2, <2>3, StaysKeeps DEF Inv, TypeOK
<1>3. CASE ~TriesAgain(c) /\ Succeeded(c.result)
  <2> DEFINE d == [c EXCEPT !.pc = "over", !.outcome = "sent"]
  <2>1. /\ d \in CallType /\ d.pc = "over" /\ d.route = c.route /\ d.try = c.try
        /\ d.smpp = c.smpp /\ d.rest = c.rest /\ d.outcome = "sent"
    BY <1>1 DEF CallType
  <2>2. /\ call' = [call EXCEPT ![m] = d] /\ tracked' = Tracking(m, c)
        /\ UNCHANGED <<plan, link, mtQueue, taken, spent, changes, pdus, late>>
    BY <1>3 DEF Resume
  <2>3. tracked' \subseteq [msg : Messages, route : Routes]
    BY <1>1, <2>2 DEF Tracking, Inv, TypeOK
  <2> HIDE DEF d
  <2>4. Stays(m, d)
    BY <1>1, <2>1, <2>2 DEF Stays
  <2> QED BY <1>1, <2>2, <2>3, <2>4, StaysKeeps DEF Inv, TypeOK
<1>4. CASE ~TriesAgain(c) /\ ~Succeeded(c.result)
  <2>1. TryFrom(m, c.route + 1) /\ UNCHANGED <<plan, link, tracked, late, changes>>
    BY <1>4 DEF Resume
  <2>2. spent[m][c.route] \in Turns(c.route)
    BY <1>1, <1>4, TurnOver
  <2>3. /\ \A j \in Routes : j < c.route => spent[m][j] \in Turns(j)
        /\ \A j \in Routes : j > c.route => spent[m][j] = 0
    BY DEF Inv, InTurn
  <2>4. /\ c.route + 1 \in Nat \ {0}
        /\ \A j \in Routes : j < c.route + 1 => j < c.route \/ j = c.route
        /\ \A j \in Routes : j >= c.route + 1 => j > c.route
    <3>1. \A j, k \in Nat : /\ k + 1 \in Nat \ {0} /\ (j < k + 1 => j < k \/ j = k)
                           /\ (j >= k + 1 => j > k)
      OBVIOUS
    <3>2. c.route \in Nat /\ \A j \in Routes : j \in Nat
      BY <1>1
    <3> QED BY <3>1, <3>2
  <2>5. /\ \A j \in Routes : j < c.route + 1 => spent[m][j] \in Turns(j)
        /\ \A j \in Routes : j >= c.route + 1 => spent[m][j] = 0
    BY <2>2, <2>3, <2>4
  <2> QED BY <2>1, <2>3, <2>4, <2>5, TryKeeps
<1> QED BY <1>2, <1>3, <1>4

\* After the pause, one attempt more on the same route
LEMMA BackoffKeeps ==
    ASSUME Inv, NEW m \in Messages, BackoffEnds(m)
    PROVE  Inv'
<1> DEFINE c == [call[m] EXCEPT !.try = @ + 1]
           k == call[m].route
<1>1. /\ call[m] \in CallType /\ call[m].pc = "pause" /\ k \in Routes /\ call[m].outcome = "none"
      /\ call[m].try \in 1..MaxTries /\ call[m].try < MaxTries /\ spent[m][k] = call[m].try
      /\ Routes' = Routes /\ Routes \subseteq Nat \ {0}
  BY PlanAssumption DEF BackoffEnds, Inv, TypeOK, CallType, OnRoute, InTurn, Routes, PlanAssumption
<1>2. /\ c \in CallType /\ c.route = k /\ c.try = call[m].try + 1 /\ c.outcome = "none"
      /\ c.smpp = call[m].smpp /\ c.rest = call[m].rest /\ c.try \in 1..MaxTries
  BY <1>1 DEF CallType, MaxTries
<1>3. Attempt(m, c) /\ UNCHANGED <<plan, link, tracked, mtQueue, late, changes>>
  BY DEF BackoffEnds
<1> HIDE DEF c
<1>4. /\ \E d \in CallType : Tried(m, c, d)
      /\ spent' \in [Messages -> [Routes -> 0..MaxTries]] /\ spent'[m][k] = c.try
      /\ \A n \in Messages, i \in Routes : n # m \/ i # k => spent'[n][i] = spent[n][i]
      /\ taken' \in [Messages -> [Routes -> Nat]] /\ pdus' \subseteq PduType
  <2>1. spent[m][c.route] = c.try - 1
    BY <1>1, <1>2
  <2> QED BY <1>1, <1>2, <1>3, <2>1, AttemptMade
<1>5. PICK d \in CallType : Tried(m, c, d)
  BY <1>4
<1>6. /\ call'[m] = d /\ d.pc \in {"wait", "result"} /\ d.route = k /\ d.try = c.try
      /\ d.outcome = "none" /\ d.smpp = c.smpp /\ d.rest = c.rest
  BY <1>2, <1>5 DEF Tried, Inv, TypeOK
<1>7. Goes(m, d)
  BY <1>4, <1>5 DEF Goes, Tried
<1>8. OnRoute(m)'
  <2>1. OnRoute(m) /\ plan' = plan
    BY <1>3 DEF Inv
  <2> QED BY <1>1, <1>2, <1>6, <2>1 DEF OnRoute
<1>9. InTurn(m)'
  <2>1. \A i \in Routes : Turns(i)' = Turns(i)
    BY <1>3 DEF Turns
  <2>2. /\ \A i \in Routes : i < k => spent'[m][i] \in Turns(i)
        /\ \A i \in Routes : i > k => spent'[m][i] = 0
    BY <1>1, <1>4 DEF Inv, InTurn
  <2> QED BY <1>1, <1>4, <1>6, <2>1, <2>2 DEF InTurn
<1> QED BY <1>3, <1>4, <1>7, <1>8, <1>9, GoesKeeps DEF Inv, TypeOK

\* The answer of a phone did not come in time.
LEMMA TimeoutKeeps ==
    ASSUME Inv, NEW m \in Messages, TimeoutFires(m)
    PROVE  Inv'
<1> DEFINE d == [call[m] EXCEPT !.pc = "result", !.result = "refused"]
<1>1. call[m] \in CallType /\ call[m].pc = "wait" /\ call[m].outcome = "none"
  BY DEF TimeoutFires, Inv, TypeOK, OnRoute
<1>2. /\ d \in CallType /\ d.pc = "result" /\ d.route = call[m].route /\ d.try = call[m].try
      /\ d.smpp = call[m].smpp /\ d.rest = call[m].rest /\ d.outcome = "none"
  BY <1>1 DEF CallType, Results
<1>3. /\ call' = [call EXCEPT ![m] = d]
      /\ UNCHANGED <<plan, link, pdus, tracked, mtQueue, taken, spent, changes>>
  BY DEF TimeoutFires
<1>5. late' \in [Messages -> Nat]
  BY DEF TimeoutFires, Inv, TypeOK
<1> HIDE DEF d
<1>4. Stays(m, d)
  BY <1>2, <1>3 DEF Stays
<1> QED BY <1>1, <1>3, <1>4, <1>5, StaysKeeps DEF Inv, TypeOK

\* An answer for which the call still waits is its result.
LEMMA AnsweredKeeps ==
    ASSUME Inv, NEW p \in pdus, Answered(p)
    PROVE  Inv'
<1>1. p \in PduType /\ p.msg \in Messages /\ p.answer \in Results
  BY DEF Inv, TypeOK, PduType
<1>2. CASE call' = call
  <2>1. [p EXCEPT !.op = "deliver", !.answer = "none"] \in PduType
    BY <1>1 DEF PduType, Results
  <2>2. pdus' \subseteq PduType
    BY <2>1 DEF Answered, Inv, TypeOK
  <2>3. UNCHANGED <<plan, link, tracked, mtQueue, taken, spent, late, changes>>
    BY DEF Answered
  <2> QED BY <1>2, <2>2, <2>3, RestKeeps DEF Inv, TypeOK
<1>3. CASE call' # call
  <2> DEFINE m == p.msg
             d == [call[m] EXCEPT !.pc = "result", !.result = p.answer]
  <2>1. /\ call' = [call EXCEPT ![m] = d] /\ call[m].pc = "wait" /\ pdus' \subseteq pdus
        /\ UNCHANGED <<plan, link, tracked, mtQueue, taken, spent, late, changes>>
    BY <1>3 DEF Answered, Awaits
  <2>2. call[m] \in CallType /\ call[m].outcome = "none"
    BY <1>1, <2>1 DEF Inv, TypeOK, OnRoute
  <2>3. /\ d \in CallType /\ d.pc = "result" /\ d.route = call[m].route /\ d.try = call[m].try
        /\ d.smpp = call[m].smpp /\ d.rest = call[m].rest /\ d.outcome = "none"
    BY <1>1, <2>2 DEF CallType
  <2> HIDE DEF d
  <2>4. Stays(m, d)
    BY <2>1, <2>3 DEF Stays
  <2> QED BY <1>1, <2>1, <2>4, StaysKeeps DEF Inv, TypeOK
<1> QED BY <1>2, <1>3

\* The supplier takes or refuses the message.
LEMMA SupplierKeeps ==
    ASSUME Inv, NEW p \in pdus, NEW r \in Results, Takes(p, r) \/ Refuses(p, r)
    PROVE  Inv'
<1>1. p \in PduType /\ [p EXCEPT !.answer = r] \in PduType
  BY DEF Inv, TypeOK, PduType
<1>2. pdus' \subseteq PduType
  BY <1>1 DEF Takes, Refuses, Inv, TypeOK
<1>3. taken' \in [Messages -> [Routes -> Nat]]
  <2>1. taken' = [taken EXCEPT ![p.msg][p.route] = @ + 1] \/ taken' = taken
    BY DEF Takes, Refuses
  <2>2. taken \in [Messages -> [Routes -> Nat]] /\ p.msg \in Messages /\ p.route \in Routes
    BY <1>1 DEF Inv, TypeOK, PduType
  <2> QED BY <2>1, <2>2
<1>4. UNCHANGED <<plan, link, call, tracked, mtQueue, spent, late, changes>>
  BY DEF Takes, Refuses
<1> QED BY <1>2, <1>3, <1>4, RestKeeps DEF Inv, TypeOK

\* A connection comes or goes.
LEMMA ConnectionKeeps ==
    ASSUME Inv, NEW i \in Routes, NEW l \in {"client", "smpp", "rest"}, Drop(i, l) \/ Connect(i, l)
    PROVE  Inv'
<1>1. UNCHANGED <<plan, call, tracked, mtQueue, taken, spent, late>> /\ pdus' \subseteq pdus
  BY DEF Drop, Connect
<1>2. changes' \in 0..MaxChanges
  BY PlanAssumption DEF Drop, Connect, Inv, TypeOK, PlanAssumption
<1>3. /\ link' \in [Routes -> SUBSET {"client", "smpp", "rest"}]
      /\ \A j \in Routes : link'[j] \subseteq Links[plan[j]]
  <2>1. PICK x \in SUBSET Links[plan[i]] : link' = [link EXCEPT ![i] = x]
    <3>1. CASE Drop(i, l)
      BY <3>1 DEF Drop, Inv, TypeOK
    <3>2. CASE Connect(i, l)
      BY <3>2 DEF Connect, Inv, TypeOK
    <3> QED BY <3>1, <3>2
  <2>2. Links[plan[i]] \subseteq {"client", "smpp", "rest"}
    <3>1. plan[i] \in Kinds
      BY PlanAssumption DEF Inv, TypeOK, PlanAssumption, Routes
    <3> QED BY <3>1 DEF Links, Kinds
  <2> QED BY <2>1, <2>2 DEF Inv, TypeOK
<1> QED BY <1>1, <1>2, <1>3, RestKeeps DEF Inv, TypeOK

\* Every step of deliverSmsWithFallback and of its links keeps the invariant.
LEMMA InvStep == Inv /\ [Next]_vars => Inv'
<1> SUFFICES ASSUME Inv, [Next]_vars PROVE Inv'
  OBVIOUS
<1>1. CASE UNCHANGED vars
  BY <1>1, RestKeeps DEF vars, Inv, TypeOK
<1>2. ASSUME NEW m \in Messages, Deliver(m) \/ CallStep(m) PROVE Inv'
  BY <1>2, DeliverKeeps, ResumeKeeps, BackoffKeeps, TimeoutKeeps DEF CallStep
<1>3. ASSUME NEW p \in pdus, NEW r \in {"ok", "anonymous", "refused", "unbound"},
             Takes(p, r) \/ Refuses(p, r)
      PROVE  Inv'
  <2>1. r \in Results
    BY DEF Results
  <2> QED BY <1>3, <2>1, SupplierKeeps
<1>4. ASSUME NEW p \in pdus, Answered(p) PROVE Inv'
  BY <1>4, AnsweredKeeps
<1>5. ASSUME NEW i \in Routes, NEW l \in {"client", "smpp", "rest"}, Drop(i, l) \/ Connect(i, l)
      PROVE  Inv'
  BY <1>5, ConnectionKeeps
<1> QED BY <1>1, <1>2, <1>3, <1>4, <1>5 DEF Next

\* No route is used before the first call.
LEMMA InvInit == Init => Inv
<1> SUFFICES ASSUME Init PROVE Inv
  OBVIOUS
<1>1. NewCall \in CallType
  BY DEF NewCall, CallType, MaxTries, Results
<1>2. TypeOK
  BY <1>1, PlanAssumption DEF Init, TypeOK, PlanAssumption, MaxTries
<1>3. Routes \subseteq Nat \ {0}
  BY <1>2, PlanAssumption DEF TypeOK, Routes, PlanAssumption
<1>4. \A m \in Messages : OnRoute(m) /\ InTurn(m)
  BY <1>3 DEF Init, NewCall, OnRoute, InTurn
<1> QED BY <1>2, <1>4 DEF Inv

\* So the routes of a call are taken in their order of priority at all times.
LEMMA InvHolds == Spec => []Inv
BY InvInit, InvStep, PTL DEF Spec

\* Calls, PDUs, connections and tracked deliveries have their types, and no route is
\* tried more than MaxTries times for a message.
THEOREM TypeCorrect == Spec => []TypeOK
<1>1. Inv => TypeOK
  BY DEF Inv
<1> QED BY <1>1, InvHolds, PTL

\* A lower route is used, and a message given up, only when the higher routes have had
\* their turns, whatever their connections and their answers do meanwhile.
THEOREM PriorityKeptHolds == Spec => []PriorityKept
<1>1. Inv => PriorityKept
  BY DEF Inv, InTurn, Turns, PriorityKept
<1> QED BY <1>1, InvHolds, PTL


-----------------------------------------------------------------------------
(* How often a message was taken *)

\* f[i] is the total of the first i entries of a row.
Sums(f, row) ==
    /\ f \in [0 .. Len(row) -> Nat] /\ f[0] = 0
    /\ \A i \in 1 .. Len(row) : f[i] = f[i - 1] + row[i]

\* The total is what such a sum comes to.
LEMMA TotalIs ==
    ASSUME NEW row \in Seq(Nat), NEW f, Sums(f, row)
    PROVE  Total(row) = f[Len(row)]
<1> DEFINE Adds(k) == k = [i \in 0 .. Len(row) |-> IF i = 0 THEN 0 ELSE k[i - 1] + row[i]]
           sum == CHOOSE k : Adds(k)
<1>1. Len(row) \in Nat
  OBVIOUS
<1>2. Adds(f)
  <2>1. \A i \in 0 .. Len(row) : f[i] = IF i = 0 THEN 0 ELSE f[i - 1] + row[i]
    BY <1>1 DEF Sums
  <2>2. f = [i \in 0 .. Len(row) |-> f[i]]
    BY DEF Sums
  <2> QED BY <2>1, <2>2
<1>3. Adds(sum)
  BY <1>2
<1>4. Total(row) = sum[Len(row)]
  BY DEF Total
<1> HIDE DEF sum
<1>5. \A i \in 0 .. Len(row) : sum[i] = IF i = 0 THEN 0 ELSE sum[i - 1] + row[i]
  BY <1>3, Zenon
<1> DEFINE A == {i \in 0 .. Len(row) : sum[i] # f[i]}
<1>6. A = {}
  <2> SUFFICES ASSUME A # {} PROVE FALSE
    OBVIOUS
  <2>1. A \in SUBSET Nat
    BY <1>1
  <2>2. PICK j \in A : \A k \in A : j <= k
    BY <2>1, LeastNumber
  <2>3. j \in 1 .. Len(row) /\ j - 1 \in 0 .. Len(row) /\ ~(j <= j - 1)
    BY <1>1, <1>5, <2>2 DEF Sums
  <2>4. sum[j - 1] = f[j - 1]
    BY <2>2, <2>3
  <2>5. sum[j] = f[j]
    BY <1>5, <2>3, <2>4 DEF Sums
  <2> QED BY <2>2, <2>5
<1>7. sum[Len(row)] = f[Len(row)]
  BY <1>1, <1>6
<1> QED BY <1>4, <1>7

\* Every row has its sums.
LEMMA SumsRun ==
    ASSUME NEW row \in Seq(Nat)
    PROVE  \E f : Sums(f, row)
<1> DEFINE body == [vd \in Nat \X Nat |-> vd[1] + vd[2]]
<1>1. body \in [Nat \X Nat -> Nat] /\ \A v, d \in Nat : body[<<v, d>>] = v + d
  OBVIOUS
<1> HIDE DEF body
<1>2. Len(row) \in 0 .. Len(row) /\ \A i \in 1 .. Len(row) : row[i] \in Nat /\ i - 1 \in 0 .. Len(row)
  OBVIOUS
<1>3. PICK f \in [0 .. Len(row) -> Nat] : Loop(f, 0, body, row, Len(row))
  BY <1>1, <1>2, LoopRuns
<1>4. \A i \in 1 .. Len(row) : f[i] = f[i - 1] + row[i]
  BY <1>1, <1>2, <1>3 DEF Loop
<1>5. Sums(f, row)
  BY <1>3, <1>4 DEF Sums, Loop
<1> QED BY <1>5

\* A supplier that takes the message adds one to the total.
LEMMA TotalGrows ==
    ASSUME NEW row \in Seq(Nat), NEW i \in 1 .. Len(row)
    PROVE  /\ Total(row) \in Nat
           /\ Total([row EXCEPT ![i] = @ + 1]) = Total(row) + 1
<1> DEFINE more == [row EXCEPT ![i] = @ + 1]
<1>1. /\ more \in Seq(Nat) /\ Len(more) = Len(row) /\ Len(row) \in Nat
      /\ more[i] = row[i] + 1 /\ row[i] \in Nat
      /\ \A j \in 1 .. Len(row) : j # i => more[j] = row[j]
      /\ \A j \in 1 .. Len(row) : row[j] \in Nat
  OBVIOUS
<1> HIDE DEF more
<1>2. PICK f : Sums(f, row)
  BY SumsRun
<1>3. /\ f \in [0 .. Len(row) -> Nat] /\ f[0] = 0
      /\ \A j \in 1 .. Len(row) : f[j] = f[j - 1] + row[j]
  BY <1>2 DEF Sums
<1>4. Total(row) = f[Len(row)] /\ f[Len(row)] \in Nat
  <2>1. Total(row) = f[Len(row)]
    BY <1>2, TotalIs
  <2>2. Len(row) \in 0 .. Len(row)
    BY <1>1
  <2> QED BY <1>3, <2>1, <2>2
<1> DEFINE g == [j \in 0 .. Len(row) |-> IF j < i THEN f[j] ELSE f[j] + 1]
<1>5. Sums(g, more)
  <2>1. \A j \in 0 .. Len(row) : f[j] \in Nat
    BY <1>3
  <2>2. g \in [0 .. Len(row) -> Nat] /\ g[0] = 0
    BY <1>1, <1>3, <2>1, SMTT(40)
  <2>3. ASSUME NEW j \in 1 .. Len(row) PROVE g[j] = g[j - 1] + more[j]
    <3>0. j - 1 \in 0 .. Len(row) /\ j \in 0 .. Len(row) /\ j \in Int /\ i \in Int
      BY <1>1
    <3>1. f[j] = f[j - 1] + row[j] /\ f[j - 1] \in Nat /\ row[j] \in Nat
      BY <1>1, <1>3, <2>1, <3>0
    <3>2. /\ g[j] = IF j < i THEN f[j] ELSE f[j] + 1
          /\ g[j - 1] = IF j - 1 < i THEN f[j - 1] ELSE f[j - 1] + 1
      BY <3>0
    <3> HIDE DEF g
    <3>3. CASE j < i
      BY <1>1, <3>0, <3>1, <3>2, <3>3
    <3>4. CASE j = i
      BY <1>1, <3>0, <3>1, <3>2, <3>4
    <3>5. CASE j > i
      BY <1>1, <3>0, <3>1, <3>2, <3>5
    <3> QED BY <3>0, <3>3, <3>4, <3>5
  <2> HIDE DEF g
  <2> QED BY <1>1, <2>2, <2>3 DEF Sums
<1>6. Total(more) = g[Len(row)]
  BY <1>1, <1>5, TotalIs
<1>7. g[Len(row)] = f[Len(row)] + 1
  BY <1>1
<1> QED BY <1>4, <1>6, <1>7 DEF more

\* Nothing taken on any route is nothing taken.
LEMMA TotalZero ==
    ASSUME NEW row \in Seq(Nat), \A i \in 1 .. Len(row) : row[i] = 0
    PROVE  Total(row) = 0
<1> DEFINE f == [i \in 0 .. Len(row) |-> 0]
<1>1. Len(row) \in Nat /\ f \in [0 .. Len(row) -> Nat]
  OBVIOUS
<1>2. Sums(f, row)
  BY <1>1 DEF Sums
<1>3. f[Len(row)] = 0
  BY <1>1
<1> HIDE DEF f
<1> QED BY <1>2, <1>3, TotalIs


-----------------------------------------------------------------------------
(* A call c, the set P of its PDUs, the row of taken and its late attempts *)

Expects(c, p) == c.pc = "wait" /\ p.route = c.route /\ p.try = c.try

\* PDUs that were given up on: each may be taken yet.
OpenOf(c, P) == {p \in P : p.answer = "none" /\ ~Expects(c, p)}

\* The call was told that a supplier took the message,
Wins(c) == \/ c.pc = "over" /\ c.outcome = "sent"
           \/ c.pc = "result" /\ Succeeded(c.result)

\* ... or will be, or waits for an answer that is lost.
MayWin(c, P) ==
    Wins(c) \/ (c.pc = "wait" /\ \A p \in P : Expects(c, p) => Succeeded(p.answer))

\* An attempt the call made before, or its present one
Before(c, p) == p.route < c.route \/ (p.route = c.route /\ p.try <= c.try)

\* The PDUs are of attempts that were made, one of each, and what says it took the
\* message took it.
Known(c, P, row) ==
    /\ IsFiniteSet(P) /\ P \subseteq PduType
    /\ row \in Seq(Nat) /\ Len(row) = Len(plan)
    /\ \A p \in P : Before(c, p) /\ (Succeeded(p.answer) => row[p.route] > 0)
    /\ \A p, q \in P : p.route = q.route /\ p.try = q.try => p = q
    /\ Wins(c) => row[c.route] > 0

\* A take is the one the call was told of, or one that was given up on.
Counted(c, P, row, lt) ==
    /\ lt \in Nat
    /\ Total(row) + Cardinality(OpenOf(c, P)) <= IF MayWin(c, P) THEN lt + 1 ELSE lt

Sound(c, P, row, lt) == Known(c, P, row) /\ Counted(c, P, row, lt)

\* One element more is at most one more to count.
LEMMA OneMore ==
    ASSUME NEW S, NEW x, IsFiniteSet(S)
    PROVE  /\ IsFiniteSet(S \cup {x})
           /\ Cardinality(S) \in Nat /\ Cardinality(S \cup {x}) \in Nat
           /\ Cardinality(S \cup {x}) <= Cardinality(S) + 1
<1> DEFINE more == Cardinality(S \cup {x})
           size == Cardinality(S)
<1>1. IsFiniteSet(S \cup {x}) /\ (more = size \/ more = size + 1)
  BY FS_AddElement
<1>2. more \in Nat /\ size \in Nat
  BY <1>1, FS_CardinalityType
<1> HIDE DEF more, size
<1>3. more <= size + 1
  BY <1>1, <1>2
<1> QED BY <1>1, <1>2, <1>3 DEF more, size

\* The numbers of these facts
LEMMA OpenFinite ==
    ASSUME TypeOK, NEW c, NEW P, NEW row, Known(c, P, row)
    PROVE  /\ IsFiniteSet(OpenOf(c, P)) /\ Cardinality(OpenOf(c, P)) \in Nat
           /\ Total(row) \in Nat
           /\ Routes = 1 .. Len(plan) /\ Len(plan) \in Nat
           /\ \A p \in P : p.route \in Routes /\ p.try \in Nat
<1>1. Routes = 1 .. Len(plan) /\ Len(plan) \in Nat
  BY PlanAssumption DEF TypeOK, PlanAssumption, Routes
<1>2. OpenOf(c, P) \subseteq P
  BY DEF OpenOf
<1>3. IsFiniteSet(OpenOf(c, P)) /\ Cardinality(OpenOf(c, P)) \in Nat
  BY <1>2, FS_Subset, FS_CardinalityType DEF Known
<1>4. Total(row) \in Nat
  <2>1. PICK f : Sums(f, row)
    BY SumsRun DEF Known
  <2>2. Total(row) = f[Len(row)]
    BY <2>1, TotalIs DEF Known
  <2>3. Len(row) \in 0 .. Len(row)
    BY <1>1 DEF Known
  <2> QED BY <2>1, <2>2, <2>3 DEF Sums
<1>5. \A p \in P : p.route \in Routes /\ p.try \in Nat
  BY DEF Known, PduType, MaxTries
<1> QED BY <1>1, <1>3, <1>4, <1>5

\* What a supplier takes on route i is in the row, and adds one.
LEMMA RowGrows ==
    ASSUME TypeOK, NEW c, NEW P, NEW row, Known(c, P, row), NEW i \in Routes
    PROVE  LET more == [row EXCEPT ![i] = @ + 1] IN
           /\ more \in Seq(Nat) /\ Len(more) = Len(plan)
           /\ Total(more) = Total(row) + 1 /\ Total(row) \in Nat
           /\ more[i] > 0 /\ \A j \in Routes : row[j] > 0 => more[j] > 0
<1>1. Routes = 1 .. Len(plan) /\ row \in Seq(Nat) /\ Len(row) = Len(plan)
  BY OpenFinite DEF Known
<1> DEFINE more == [row EXCEPT ![i] = @ + 1]
<1>2. /\ more \in Seq(Nat) /\ Len(more) = Len(plan)
      /\ more[i] > 0 /\ \A j \in Routes : row[j] > 0 => more[j] > 0
  BY <1>1
<1>3. Total(more) = Total(row) + 1 /\ Total(row) \in Nat
  BY <1>1, TotalGrows
<1> QED BY <1>2, <1>3

\* A call that was not waiting goes on, with the same PDUs.
LEMMA CallGoesOn ==
    ASSUME TypeOK, NEW c, NEW d, NEW P, NEW row, NEW lt, Sound(c, P, row, lt),
           c.pc # "wait", d.pc # "wait", \A p \in P : Before(d, p),
           Wins(d) <=> Wins(c), Wins(c) => d.route = c.route
    PROVE  Sound(d, P, row, lt)
<1>1. OpenOf(d, P) = OpenOf(c, P) /\ (MayWin(d, P) <=> MayWin(c, P))
  BY DEF OpenOf, Expects, MayWin
<1> QED BY <1>1 DEF Sound, Known, Counted

\* A call that was not waiting, and has not won, makes an attempt: over REST the
\* message is taken at once,
LEMMA RestTakes ==
    ASSUME TypeOK, NEW c, NEW d, NEW P, NEW row, NEW lt, Sound(c, P, row, lt),
           c.pc # "wait", ~Wins(c), d.pc = "result", Wins(d), d.route \in Routes,
           \A p \in P : Before(d, p)
    PROVE  Sound(d, P, [row EXCEPT ![d.route] = @ + 1], lt)
<1> DEFINE more == [row EXCEPT ![d.route] = @ + 1]
<1>1. /\ more \in Seq(Nat) /\ Len(more) = Len(plan)
      /\ Total(more) = Total(row) + 1 /\ Total(row) \in Nat
      /\ more[d.route] > 0 /\ \A j \in Routes : row[j] > 0 => more[j] > 0
  BY RowGrows DEF Sound
<1> HIDE DEF more
<1>2. OpenOf(d, P) = OpenOf(c, P) /\ MayWin(d, P) /\ ~MayWin(c, P)
  BY DEF OpenOf, Expects, MayWin
<1>3. Cardinality(OpenOf(c, P)) \in Nat /\ \A p \in P : p.route \in Routes
  BY OpenFinite DEF Sound
<1>4. Known(d, P, more)
  BY <1>1, <1>3 DEF Sound, Known
<1>5. Counted(d, P, more, lt)
  BY <1>1, <1>2, <1>3 DEF Sound, Counted
<1> QED BY <1>4, <1>5 DEF Sound, more

\* ... or a PDU is sent and waited for.
LEMMA PduSent ==
    ASSUME TypeOK, NEW c, NEW d, NEW P, NEW row, NEW lt, Sound(c, P, row, lt),
           c.pc # "wait", ~Wins(c), d.pc = "wait",
           \A p \in P : Before(d, p) /\ ~(p.route = d.route /\ p.try = d.try),
           NEW q \in PduType, q.route = d.route, q.try = d.try, q.answer = "none"
    PROVE  Sound(d, P \cup {q}, row, lt)
<1>1. IsFiniteSet(P \cup {q})
  BY FS_AddElement DEF Sound, Known
<1>2. q.route \in Nat /\ q.try \in Nat
  <2>1. q.route \in Routes /\ q.try \in Nat
    BY DEF PduType, MaxTries
  <2> QED BY <2>1, OpenFinite DEF Sound
<1>3. Before(d, q) /\ ~Succeeded(q.answer) /\ Expects(d, q)
  BY <1>2 DEF Before, Succeeded, Expects
<1>4. ~Wins(d)
  BY DEF Wins
<1>5. Known(d, P \cup {q}, row)
  <2>1. \A p, r \in P \cup {q} : p.route = r.route /\ p.try = r.try => p = r
    BY DEF Sound, Known
  <2> QED BY <1>1, <1>3, <1>4, <2>1 DEF Sound, Known
<1>6. OpenOf(d, P \cup {q}) = OpenOf(c, P)
  BY <1>3 DEF OpenOf, Expects
<1>7. ~MayWin(c, P)
  BY DEF MayWin
<1>8. Counted(d, P \cup {q}, row, lt)
  <2>1. Cardinality(OpenOf(c, P)) \in Nat /\ Total(row) \in Nat
    BY OpenFinite DEF Sound
  <2> QED BY <1>6, <1>7, <2>1 DEF Sound, Counted
<1> QED BY <1>5, <1>8 DEF Sound


\* A PDU changes its answer or its operation: it is still the only one of its attempt.
LEMMA PduReplaced ==
    ASSUME TypeOK, NEW c, NEW P, NEW row, Known(c, P, row), NEW p \in P,
           NEW q \in PduType, q.route = p.route, q.try = p.try,
           NEW more \in Seq(Nat), Len(more) = Len(plan),
           \A j \in Routes : row[j] > 0 => more[j] > 0,
           Succeeded(q.answer) => more[q.route] > 0,
           Wins(c) => more[c.route] > 0
    PROVE  Known(c, (P \ {p}) \cup {q}, more)
<1> DEFINE R == (P \ {p}) \cup {q}
<1>1. IsFiniteSet(R)
  <2>1. IsFiniteSet(P \ {p})
    BY FS_RemoveElement DEF Known
  <2> QED BY <2>1, FS_AddElement
<1>2. \A r \in P : r.route \in Routes
  BY OpenFinite
<1>3. Before(c, q)
  BY DEF Known, Before
<1>4. \A r \in R : Before(c, r) /\ (Succeeded(r.answer) => more[r.route] > 0)
  BY <1>2, <1>3 DEF Known
<1>5. \A r, s \in R : r.route = s.route /\ r.try = s.try => r = s
  BY DEF Known
<1> QED BY <1>1, <1>4, <1>5 DEF Known

\* The supplier takes the message.
LEMMA PduTaken ==
    ASSUME TypeOK, NEW c, NEW P, NEW row, NEW lt, Sound(c, P, row, lt),
           NEW p \in P, p.answer = "none", NEW q \in PduType,
           q.route = p.route, q.try = p.try, Succeeded(q.answer)
    PROVE  Sound(c, (P \ {p}) \cup {q}, [row EXCEPT ![p.route] = @ + 1], lt)
<1> DEFINE R == (P \ {p}) \cup {q}
           more == [row EXCEPT ![p.route] = @ + 1]
<1>1. /\ p.route \in Routes /\ Cardinality(OpenOf(c, P)) \in Nat
      /\ IsFiniteSet(OpenOf(c, P))
  BY OpenFinite DEF Sound
<1>2. /\ more \in Seq(Nat) /\ Len(more) = Len(plan)
      /\ Total(more) = Total(row) + 1 /\ Total(row) \in Nat
      /\ more[p.route] > 0 /\ \A j \in Routes : row[j] > 0 => more[j] > 0
  BY <1>1, RowGrows DEF Sound
<1> HIDE DEF more
<1>3. Wins(c) => more[c.route] > 0
  <2>1. Wins(c) => row[c.route] > 0
    BY DEF Sound, Known
  <2>2. more = [row EXCEPT ![p.route] = @ + 1] /\ row \in Seq(Nat) /\ p.route \in 1 .. Len(row)
    BY <1>1, OpenFinite DEF more, Sound, Known
  <2>3. c.route = p.route => more[c.route] > 0
    BY <1>2
  <2>4. c.route # p.route => more[c.route] = row[c.route]
    BY <2>2
  <2> QED BY <2>1, <2>3, <2>4
<1>4. Known(c, R, more)
  BY <1>2, <1>3, PduReplaced DEF Sound
<1>5. q.answer # "none" /\ ~Succeeded(p.answer)
  BY DEF Succeeded
<1>6. Counted(c, R, more, lt)
  <2>1. CASE Expects(c, p)
    <3>1. OpenOf(c, R) = OpenOf(c, P)
      BY <1>5, <2>1 DEF OpenOf
    <3>2. ~MayWin(c, P)
      BY <1>5, <2>1 DEF MayWin, Wins, Expects
    <3>3. \A r \in P : Expects(c, r) => r = p
      BY <2>1 DEF Expects, Sound, Known
    <3>4. MayWin(c, R)
      BY <2>1, <3>3 DEF MayWin, Expects
    <3> QED BY <1>1, <1>2, <3>1, <3>2, <3>4 DEF Sound, Counted
  <2>2. CASE ~Expects(c, p)
    <3>1. p \in OpenOf(c, P) /\ OpenOf(c, R) = OpenOf(c, P) \ {p}
      BY <1>5, <2>2 DEF OpenOf, Expects
    <3>2. Cardinality(OpenOf(c, R)) = Cardinality(OpenOf(c, P)) - 1
      BY <1>1, <3>1, FS_RemoveElement, ZenonT(40)
    <3>3. MayWin(c, R) <=> MayWin(c, P)
      BY <1>5, <2>2 DEF MayWin, Expects
    <3> QED BY <1>1, <1>2, <3>2, <3>3 DEF Sound, Counted
  <2> QED BY <2>1, <2>2
<1> QED BY <1>4, <1>6 DEF Sound, more

\* It refuses it, or is sent a DELIVER_SM in place of a SUBMIT_SM it has refused.
LEMMA PduRefused ==
    ASSUME TypeOK, NEW c, NEW P, NEW row, NEW lt, Sound(c, P, row, lt),
           NEW p \in P, ~Succeeded(p.answer), NEW q \in PduType,
           q.route = p.route, q.try = p.try, ~Succeeded(q.answer),
           p.answer = "none" \/ Expects(c, p)
    PROVE  Sound(c, (P \ {p}) \cup {q}, row, lt)
<1> DEFINE R == (P \ {p}) \cup {q}
<1>1. Known(c, R, row)
  <2>1. Known(c, P, row)
    BY DEF Sound
  <2>2. /\ row \in Seq(Nat) /\ Len(row) = Len(plan)
        /\ Wins(c) => row[c.route] > 0
    BY <2>1 DEF Known
  <2>3. \A j \in Routes : row[j] > 0 => row[j] > 0
    OBVIOUS
  <2> QED BY <2>1, <2>2, <2>3, PduReplaced, Zenon
<1>2. MayWin(c, R) <=> MayWin(c, P)
  BY DEF MayWin, Expects
<1>3. Cardinality(OpenOf(c, R)) <= Cardinality(OpenOf(c, P))
  <2>1. IsFiniteSet(OpenOf(c, P)) /\ IsFiniteSet(OpenOf(c, R))
        /\ Cardinality(OpenOf(c, P)) \in Nat /\ Cardinality(OpenOf(c, R)) \in Nat
    BY <1>1, OpenFinite DEF Sound
  <2>2. CASE Expects(c, p)
    <3>1. OpenOf(c, R) = OpenOf(c, P) \/ OpenOf(c, R) \subseteq OpenOf(c, P)
      BY <2>2 DEF OpenOf, Expects
    <3> QED BY <2>1, <3>1, FS_Subset
  <2>3. CASE ~Expects(c, p)
    <3>1. p \in OpenOf(c, P) /\ OpenOf(c, R) \subseteq (OpenOf(c, P) \ {p}) \cup {q}
      BY <2>3 DEF OpenOf, Expects
    <3>2. /\ IsFiniteSet(OpenOf(c, P) \ {p})
          /\ Cardinality(OpenOf(c, P) \ {p}) = Cardinality(OpenOf(c, P)) - 1
      BY <2>1, <3>1, FS_RemoveElement
    <3> DEFINE rest == OpenOf(c, P) \ {p}
    <3>3. /\ IsFiniteSet(rest \cup {q})
          /\ Cardinality(rest) \in Nat /\ Cardinality(rest \cup {q}) \in Nat
          /\ Cardinality(rest \cup {q}) <= Cardinality(rest) + 1
      BY <3>2, OneMore
    <3>4. Cardinality(OpenOf(c, R)) <= Cardinality(rest \cup {q})
      BY <3>1, <3>3, FS_Subset
    <3>5. Cardinality(rest) = Cardinality(OpenOf(c, P)) - 1
      BY <3>2
    <3> HIDE DEF rest, R
    <3> QED BY <2>1, <3>3, <3>4, <3>5
  <2> QED BY <2>2, <2>3
<1>4. /\ Cardinality(OpenOf(c, R)) \in Nat /\ Cardinality(OpenOf(c, P)) \in Nat
      /\ Total(row) \in Nat
  BY <1>1, OpenFinite DEF Sound
<1>5. Counted(c, R, row, lt)
  BY <1>2, <1>3, <1>4 DEF Sound, Counted
<1> QED BY <1>1, <1>5 DEF Sound

\* PDUs are lost with their connection, or an answer comes too late.
LEMMA PdusLost ==
    ASSUME TypeOK, NEW c, NEW P, NEW row, NEW lt, Sound(c, P, row, lt),
           NEW R \in SUBSET P
    PROVE  Sound(c, R, row, lt)
<1>1. Known(c, R, row)
  BY FS_Subset DEF Sound, Known
<1>2. OpenOf(c, R) \subseteq OpenOf(c, P) /\ (MayWin(c, P) => MayWin(c, R))
  BY DEF OpenOf, MayWin
<1>3. /\ IsFiniteSet(OpenOf(c, P)) /\ Cardinality(OpenOf(c, R)) \in Nat
      /\ Cardinality(OpenOf(c, P)) \in Nat /\ Total(row) \in Nat
  BY <1>1, OpenFinite DEF Sound
<1>4. Cardinality(OpenOf(c, R)) <= Cardinality(OpenOf(c, P))
  BY <1>2, <1>3, FS_Subset
<1>5. Counted(c, R, row, lt)
  BY <1>2, <1>3, <1>4 DEF Sound, Counted
<1> QED BY <1>1, <1>5 DEF Sound

\* The answer the call waits for becomes its result.
LEMMA AnswerTold ==
    ASSUME TypeOK, NEW c, NEW d, NEW P, NEW row, NEW lt, Sound(c, P, row, lt),
           NEW p \in P, p.answer # "none", Expects(c, p),
           d.pc = "result", d.result = p.answer, d.route = c.route, d.try = c.try
    PROVE  Sound(d, P \ {p}, row, lt)
<1> DEFINE R == P \ {p}
<1>1. Sound(c, R, row, lt)
  BY PdusLost
<1>2. Wins(d) <=> Succeeded(p.answer)
  BY DEF Wins
<1>3. Wins(d) => row[d.route] > 0
  BY <1>2 DEF Sound, Known, Expects
<1>4. Known(d, R, row)
  BY <1>1, <1>3 DEF Sound, Known, Before
<1>5. \A r \in P : Expects(c, r) => r = p
  BY DEF Expects, Sound, Known
<1>6. OpenOf(d, R) = OpenOf(c, P)
  BY <1>5 DEF OpenOf, Expects
<1>7. MayWin(d, R) <=> MayWin(c, P)
  BY <1>2, <1>5 DEF MayWin, Wins, Expects
<1>8. Counted(d, R, row, lt)
  BY <1>6, <1>7 DEF Sound, Counted
<1> QED BY <1>4, <1>8 DEF Sound

\* No answer has come in time: one attempt more that was given up on.
LEMMA AttemptLate ==
    ASSUME TypeOK, NEW c, NEW d, NEW P, NEW row, NEW lt, Sound(c, P, row, lt),
           c.pc = "wait", d.pc = "result", d.result = "refused",
           d.route = c.route, d.try = c.try
    PROVE  Sound(d, P, row, lt + 1)
<1>1. ~Wins(d) /\ ~Wins(c) /\ ~MayWin(d, P)
  BY DEF Wins, MayWin, Succeeded
<1>2. Known(d, P, row)
  BY <1>1 DEF Sound, Known, Before
<1>3. /\ IsFiniteSet(OpenOf(c, P)) /\ Cardinality(OpenOf(c, P)) \in Nat
      /\ Cardinality(OpenOf(d, P)) \in Nat /\ Total(row) \in Nat /\ lt \in Nat
  BY <1>2, OpenFinite DEF Sound, Counted
<1>4. CASE MayWin(c, P)
  <2>1. OpenOf(d, P) = OpenOf(c, P)
    BY <1>1, <1>4 DEF OpenOf, MayWin, Expects, Succeeded
  <2>2. Counted(d, P, row, lt + 1)
    BY <1>1, <1>3, <1>4, <2>1 DEF Sound, Counted
  <2> QED BY <1>2, <2>2 DEF Sound
<1>5. CASE ~MayWin(c, P)
  <2>1. PICK p \in P : Expects(c, p)
    BY <1>5 DEF MayWin
  <2>2. OpenOf(d, P) \subseteq OpenOf(c, P) \cup {p}
    BY <2>1 DEF OpenOf, Expects, Sound, Known
  <2>3. /\ IsFiniteSet(OpenOf(c, P) \cup {p})
        /\ Cardinality(OpenOf(c, P) \cup {p}) <= Cardinality(OpenOf(c, P)) + 1
    BY <1>3, OneMore
  <2>4. /\ Cardinality(OpenOf(d, P)) <= Cardinality(OpenOf(c, P) \cup {p})
        /\ Cardinality(OpenOf(c, P) \cup {p}) \in Nat
    BY <2>2, <2>3, FS_Subset, FS_CardinalityType
  <2>5. Counted(d, P, row, lt + 1)
    BY <1>1, <1>3, <1>5, <2>3, <2>4 DEF Sound, Counted
  <2> QED BY <1>2, <2>5 DEF Sound
<1> QED BY <1>4, <1>5


-----------------------------------------------------------------------------
(* The calls, the PDUs and what was taken *)

Of(P, m) == {p \in P : p.msg = m}

\* The supplier of a call that was sent, with an id, is expected to send a receipt.
Told(d, m, entries) ==
    d.outcome = "sent" /\ d.result = "ok" => [msg |-> m, route |-> d.route] \in entries

Fine(m) == Sound(call[m], Of(pdus, m), taken[m], late[m]) /\ Told(call[m], m, tracked)

FineAfter(m) ==
    Sound(call'[m], Of(pdus', m), taken'[m], late'[m]) /\ Told(call'[m], m, tracked')

\* What concerns message n is left alone.
Same(n) ==
    /\ call'[n] = call[n] /\ Of(pdus', n) = Of(pdus, n)
    /\ taken'[n] = taken[n] /\ late'[n] = late[n]

Account == Inv /\ \A m \in Messages : Fine(m)

\* The plan does not change, nor what is sound by it.
LEMMA FineStays ==
    ASSUME plan' = plan, NEW m, FineAfter(m)
    PROVE  Fine(m)'
<1>1. PduType' = PduType
  BY DEF PduType, Routes
<1>2. Known(call'[m], Of(pdus', m), taken'[m]) => Known(call[m], Of(pdus, m), taken[m])'
  BY <1>1 DEF Known, Of, Before, Wins, Succeeded
<1>3. Counted(call'[m], Of(pdus', m), taken'[m], late'[m])
        => Counted(call[m], Of(pdus, m), taken[m], late[m])'
  BY DEF Counted, OpenOf, MayWin, Expects, Wins, Succeeded, Of, Total
<1> QED BY <1>2, <1>3 DEF Fine, FineAfter, Sound, Told

\* A step that keeps the order of routes, and accounts for the messages it concerns
LEMMA FineStep ==
    ASSUME Account, Inv', plan' = plan, tracked \subseteq tracked',
           \A n \in Messages : Same(n) \/ FineAfter(n)
    PROVE  Account'
<1>1. ASSUME NEW n \in Messages PROVE FineAfter(n)
  <2>1. CASE Same(n)
    BY <2>1 DEF Same, FineAfter, Account, Fine, Told
  <2> QED BY <1>1, <2>1
<1>2. \A n \in Messages : Fine(n)'
  BY <1>1, FineStays
<1> QED BY <1>2 DEF Account

\* attemptDelivery, of a call that has not won and does not wait, with a new try
LEMMA AttemptFine ==
    ASSUME Account, NEW m \in Messages, NEW c \in CallType, Attempt(m, c),
           c.route \in Routes, c.try \in 1..MaxTries, c.outcome = "none",
           call[m].pc # "wait", ~Wins(call[m]),
           \A p \in Of(pdus, m) : Before(c, p) /\ ~(p.route = c.route /\ p.try = c.try),
           UNCHANGED <<plan, late, tracked>>
    PROVE  \A n \in Messages : Same(n) \/ FineAfter(n)
<1> DEFINE P == Of(pdus, m)
<1>1. TypeOK /\ Sound(call[m], P, taken[m], late[m])
  BY DEF Account, Inv, Fine
<1>2. call \in [Messages -> CallType] /\ taken \in [Messages -> [Routes -> Nat]]
  BY <1>1 DEF TypeOK
<1>3. CASE /\ call' = [call EXCEPT ![m] = [c EXCEPT !.pc = "result", !.result = "ok"]]
           /\ taken' = [taken EXCEPT ![m][c.route] = @ + 1] /\ pdus' = pdus
  <2> DEFINE d == [c EXCEPT !.pc = "result", !.result = "ok"]
  <2>1. /\ d.pc = "result" /\ d.result = "ok" /\ d.route = c.route /\ d.try = c.try
        /\ d.outcome = "none"
    BY DEF CallType
  <2>2. call' = [call EXCEPT ![m] = d]
    BY <1>3
  <2> HIDE DEF d
  <2>3. call'[m] = d /\ \A n \in Messages \ {m} : call'[n] = call[n]
    BY <1>2, <2>2
  <2>4. /\ taken'[m] = [taken[m] EXCEPT ![d.route] = @ + 1]
        /\ \A n \in Messages \ {m} : taken'[n] = taken[n]
    BY <1>2, <1>3, <2>1
  <2>5. Wins(d) /\ \A p \in P : Before(d, p)
    BY <2>1 DEF Wins, Succeeded, Before
  <2> HIDE DEF P
  <2>6. Sound(d, P, [taken[m] EXCEPT ![d.route] = @ + 1], late[m])
    BY <1>1, <2>1, <2>5, RestTakes
  <2>7. FineAfter(m)
    BY <1>3, <2>1, <2>3, <2>4, <2>6 DEF FineAfter, Told, P
  <2> QED BY <1>3, <2>3, <2>4, <2>7 DEF Same
<1>4. CASE /\ call' = [call EXCEPT ![m] = [c EXCEPT !.pc = "result", !.result = "unbound"]]
           /\ UNCHANGED <<taken, pdus>>
  <2> DEFINE d == [c EXCEPT !.pc = "result", !.result = "unbound"]
  <2>1. /\ d.pc = "result" /\ d.result = "unbound" /\ d.route = c.route /\ d.try = c.try
        /\ d.outcome = "none"
    BY DEF CallType
  <2>2. call' = [call EXCEPT ![m] = d]
    BY <1>4
  <2> HIDE DEF d
  <2>3. call'[m] = d /\ \A n \in Messages \ {m} : call'[n] = call[n]
    BY <1>2, <2>2
  <2>4. ~Wins(d) /\ \A p \in P : Before(d, p)
    BY <2>1 DEF Wins, Succeeded, Before
  <2> HIDE DEF P
  <2>5. Sound(d, P, taken[m], late[m])
    BY <1>1, <2>1, <2>4, CallGoesOn
  <2>6. FineAfter(m)
    BY <1>4, <2>1, <2>3, <2>5 DEF FineAfter, Told, P
  <2> QED BY <1>4, <2>3, <2>6 DEF Same
<1>5. CASE /\ call' = [call EXCEPT ![m] = [c EXCEPT !.pc = "wait"]]
           /\ pdus' = pdus \cup {Pdu(m, c, FirstOp(c.route))} /\ taken' = taken
  <2> DEFINE d == [c EXCEPT !.pc = "wait"]
             q == Pdu(m, c, FirstOp(c.route))
  <2>1. d.pc = "wait" /\ d.route = c.route /\ d.try = c.try /\ d.outcome = "none"
    BY DEF CallType
  <2>2. call' = [call EXCEPT ![m] = d]
    BY <1>5
  <2> HIDE DEF d
  <2>3. call'[m] = d /\ \A n \in Messages \ {m} : call'[n] = call[n]
    BY <1>2, <2>2
  <2>4. /\ q \in PduType /\ q.msg = m /\ q.route = d.route /\ q.try = d.try
        /\ q.answer = "none"
    BY <2>1 DEF Pdu, FirstOp, PduType, Results, MaxTries
  <2>5. \A p \in P : Before(d, p) /\ ~(p.route = d.route /\ p.try = d.try)
    BY <2>1 DEF Before
  <2>6. pdus' = pdus \cup {q}
    BY <1>5
  <2> HIDE DEF q
  <2>7. Of(pdus', m) = P \cup {q} /\ \A n \in Messages \ {m} : Of(pdus', n) = Of(pdus, n)
    BY <2>4, <2>6 DEF Of
  <2> HIDE DEF P
  <2>8. Sound(d, P \cup {q}, taken[m], late[m])
    BY <1>1, <2>1, <2>4, <2>5, PduSent
  <2>9. FineAfter(m)
    BY <1>5, <2>1, <2>3, <2>7, <2>8 DEF FineAfter, Told
  <2> QED BY <1>5, <2>3, <2>7, <2>9 DEF Same
<1> QED BY <1>3, <1>4, <1>5 DEF Attempt

\* tryNextRoute from a route behind the present one
LEMMA TryFine ==
    ASSUME Account, NEW m \in Messages, NEW i \in Nat \ {0}, TryFrom(m, i),
           call[m].pc # "wait", ~Wins(call[m]), call[m].route < i,
           UNCHANGED <<plan, late, tracked>>
    PROVE  \A n \in Messages : Same(n) \/ FineAfter(n)
<1> DEFINE P == Of(pdus, m)
<1>0. /\ TypeOK /\ Inv /\ Sound(call[m], P, taken[m], late[m])
      /\ call \in [Messages -> CallType] /\ call[m] \in CallType
  BY DEF Account, Inv, Fine, TypeOK
<1>1. CASE Connected(i) = {}
  <2>1. GiveUp(m)
    BY <1>1 DEF TryFrom
  <2>2. PICK x \in {"queued", "failed"} :
            call' = [call EXCEPT ![m] = [@ EXCEPT !.pc = "over", !.outcome = x]]
    BY <2>1 DEF GiveUp
  <2> DEFINE d == [call[m] EXCEPT !.pc = "over", !.outcome = x]
  <2>3. d.pc = "over" /\ d.outcome = x /\ d.route = call[m].route /\ d.try = call[m].try
    BY <1>0 DEF CallType
  <2>4. call' = [call EXCEPT ![m] = d]
    BY <2>2
  <2> HIDE DEF d
  <2>5. call'[m] = d /\ \A n \in Messages \ {m} : call'[n] = call[n]
    BY <1>0, <2>4
  <2>6. UNCHANGED <<pdus, taken>>
    BY <2>1 DEF GiveUp
  <2>7. ~Wins(d) /\ \A p \in P : Before(d, p)
    BY <1>0, <2>3 DEF Wins, Before, Sound, Known
  <2> HIDE DEF P
  <2>8. Sound(d, P, taken[m], late[m])
    BY <1>0, <2>3, <2>7, CallGoesOn
  <2>9. FineAfter(m)
    BY <2>3, <2>5, <2>6, <2>8 DEF FineAfter, Told, P
  <2> QED BY <2>5, <2>6, <2>9 DEF Same
<1>2. CASE Connected(i) # {}
  <2> DEFINE j == NextRoute(i)
             a == "smpp" \in link[j]
             r == "rest" \in link[j]
             c == [NewCall EXCEPT !.route = j, !.try = 1, !.smpp = a, !.rest = r]
  <2>1. j \in Routes /\ j >= i
    BY <1>0, <1>2, FirstRoute DEF Inv
  <2>2. Attempt(m, c)
    BY <1>2 DEF TryFrom
  <2> HIDE DEF j
  <2>3. c \in CallType /\ c.route = j /\ c.try = 1 /\ c.outcome = "none"
    <3>1. a \in BOOLEAN /\ r \in BOOLEAN
      OBVIOUS
    <3> HIDE DEF a, r
    <3>2. NewCall \in CallType /\ 1 \in 0..MaxTries
      BY DEF NewCall, CallType, MaxTries, Results
    <3> QED BY <2>1, <3>1, <3>2 DEF CallType, NewCall
  <2> HIDE DEF c
  <2>4. c.route \in Routes /\ c.try \in 1..MaxTries
    BY <2>1, <2>3 DEF MaxTries
  <2>5. \A p \in P : p.route < j
    <3>1. \A p \in P : p.route \in Nat /\ p.route <= call[m].route
      <4>1. call[m].route \in Nat
        BY <1>0, OpenFinite DEF CallType, Sound
      <4>2. \A p \in P : p.route \in Nat
        BY <1>0, OpenFinite DEF Sound
      <4>3. \A p \in P : Before(call[m], p)
        BY <1>0 DEF Sound, Known
      <4> QED BY <4>1, <4>2, <4>3 DEF Before
    <3>2. call[m].route \in Nat /\ j \in Nat
      BY <1>0, <2>1, OpenFinite DEF CallType, Sound
    <3> HIDE DEF P
    <3> QED BY <2>1, <3>1, <3>2
  <2>6. \A p \in P : Before(c, p) /\ ~(p.route = c.route /\ p.try = c.try)
    <3>1. \A p \in P : p.route \in Nat /\ c.route \in Nat
      BY <1>0, <2>1, <2>3, OpenFinite DEF Sound
    <3> QED BY <2>3, <2>5, <3>1 DEF Before
  <2> QED BY <2>2, <2>3, <2>4, <2>6, AttemptFine
<1> QED BY <1>1, <1>2


\* The call begins with the first route of its plan: nothing was sent for it.
LEMMA DeliverFine ==
    ASSUME Account, NEW m \in Messages, Deliver(m)
    PROVE  \A n \in Messages : Same(n) \/ FineAfter(n)
<1>1. call[m].pc = "new" /\ TryFrom(m, 1) /\ UNCHANGED <<plan, late, tracked>>
  BY DEF Deliver
<1>2. call[m].route = 0 /\ ~Wins(call[m])
  BY <1>1 DEF Account, Inv, OnRoute, Wins
<1> QED BY <1>1, <1>2, TryFine

\* An attempt is over: the call pauses, has won, or goes on to the next route.
LEMMA ResumeFine ==
    ASSUME Account, NEW m \in Messages, Resume(m)
    PROVE  /\ \A n \in Messages : Same(n) \/ FineAfter(n)
           /\ tracked \subseteq tracked'
<1> DEFINE c == call[m]
           P == Of(pdus, m)
<1>0. /\ TypeOK /\ Sound(c, P, taken[m], late[m]) /\ c.pc = "result" /\ c.outcome = "none"
      /\ call \in [Messages -> CallType] /\ c \in CallType /\ plan' = plan /\ late' = late
  BY DEF Account, Inv, Fine, TypeOK, Resume, OnRoute
<1>1. \A p \in P : Before(c, p)
  BY <1>0 DEF Sound, Known
<1>2. CASE TriesAgain(c)
  <2> DEFINE d == [c EXCEPT !.pc = "pause"]
  <2>1. d.pc = "pause" /\ d.route = c.route /\ d.try = c.try /\ d.outcome = "none"
    BY <1>0 DEF CallType
  <2>2. call' = [call EXCEPT ![m] = d] /\ UNCHANGED <<pdus, tracked, taken>>
    BY <1>2 DEF Resume
  <2> HIDE DEF d
  <2>3. call'[m] = d /\ \A n \in Messages \ {m} : call'[n] = call[n]
    BY <1>0, <2>2
  <2>4. ~Wins(d) /\ ~Wins(c) /\ \A p \in P : Before(d, p)
    BY <1>0, <1>1, <1>2, <2>1 DEF Wins, Before, TriesAgain
  <2> HIDE DEF P, c
  <2>5. Sound(d, P, taken[m], late[m])
    BY <1>0, <2>1, <2>4, CallGoesOn
  <2>6. FineAfter(m)
    BY <1>0, <2>1, <2>2, <2>3, <2>5 DEF FineAfter, Told, P
  <2> QED BY <1>0, <2>2, <2>3, <2>6 DEF Same
<1>3. CASE ~TriesAgain(c) /\ Succeeded(c.result)
  <2> DEFINE d == [c EXCEPT !.pc = "over", !.outcome = "sent"]
  <2>1. /\ d.pc = "over" /\ d.outcome = "sent" /\ d.route = c.route /\ d.try = c.try
        /\ d.result = c.result
    BY <1>0 DEF CallType
  <2>2. /\ call' = [call EXCEPT ![m] = d] /\ UNCHANGED <<pdus, taken>>
        /\ tracked' = Tracking(m, c)
    BY <1>3 DEF Resume
  <2> HIDE DEF d
  <2>3. call'[m] = d /\ \A n \in Messages \ {m} : call'[n] = call[n]
    BY <1>0, <2>2
  <2>4. Wins(d) /\ Wins(c) /\ \A p \in P : Before(d, p)
    BY <1>0, <1>1, <1>3, <2>1 DEF Wins, Before
  <2>5. Told(d, m, tracked') /\ tracked \subseteq tracked'
    BY <2>1, <2>2 DEF Told, Tracking
  <2> HIDE DEF P, c
  <2>6. Sound(d, P, taken[m], late[m])
    BY <1>0, <2>1, <2>4, CallGoesOn
  <2>7. FineAfter(m)
    BY <1>0, <2>2, <2>3, <2>5, <2>6 DEF FineAfter, P
  <2> QED BY <1>0, <2>2, <2>3, <2>5, <2>7 DEF Same
<1>4. CASE ~TriesAgain(c) /\ ~Succeeded(c.result)
  <2>1. TryFrom(m, c.route + 1) /\ tracked' = tracked
    BY <1>4 DEF Resume
  <2>2. ~Wins(c)
    BY <1>0, <1>4 DEF Wins
  <2>3. c.route \in Nat
    BY <1>0, OpenFinite DEF CallType, Sound
  <2>4. c.route + 1 \in Nat \ {0} /\ c.route < c.route + 1
    BY <2>3
  <2> QED BY <1>0, <2>1, <2>2, <2>4, TryFine
<1> QED BY <1>2, <1>3, <1>4

\* After the pause the same route is tried again, under a new number.
LEMMA BackoffFine ==
    ASSUME Account, NEW m \in Messages, BackoffEnds(m)
    PROVE  \A n \in Messages : Same(n) \/ FineAfter(n)
<1> DEFINE c == [call[m] EXCEPT !.try = @ + 1]
           P == Of(pdus, m)
<1>1. /\ call[m] \in CallType /\ call[m].pc = "pause" /\ call[m].route \in Routes
      /\ call[m].outcome = "none" /\ call[m].try \in 1..MaxTries /\ call[m].try < MaxTries
      /\ TypeOK /\ Sound(call[m], P, taken[m], late[m])
  BY DEF Account, Fine, BackoffEnds, Inv, TypeOK, CallType, OnRoute
<1>2. /\ c \in CallType /\ c.route = call[m].route /\ c.try = call[m].try + 1
      /\ c.outcome = "none" /\ c.try \in 1..MaxTries
  BY <1>1 DEF CallType, MaxTries
<1>3. Attempt(m, c) /\ UNCHANGED <<plan, late, tracked>>
  BY DEF BackoffEnds
<1> HIDE DEF c
<1>4. ~Wins(call[m])
  BY <1>1 DEF Wins
<1>5. \A p \in P : Before(c, p) /\ ~(p.route = c.route /\ p.try = c.try)
  <2>1. \A p \in P : p.route \in Nat /\ p.try \in Nat /\ c.route \in Nat
    BY <1>1, <1>2, OpenFinite DEF Sound
  <2>2. \A p \in P : Before(call[m], p)
    BY <1>1 DEF Sound, Known
  <2>3. call[m].try \in Nat
    BY <1>1 DEF MaxTries
  <2> HIDE DEF P
  <2> QED BY <1>2, <2>1, <2>2, <2>3 DEF Before
<1> QED BY <1>1, <1>2, <1>3, <1>4, <1>5, AttemptFine

\* A phone has not answered in time.
LEMMA TimeoutFine ==
    ASSUME Account, NEW m \in Messages, TimeoutFires(m)
    PROVE  \A n \in Messages : Same(n) \/ FineAfter(n)
<1> DEFINE d == [call[m] EXCEPT !.pc = "result", !.result = "refused"]
           P == Of(pdus, m)
<1>0. /\ TypeOK /\ Sound(call[m], P, taken[m], late[m]) /\ call[m].pc = "wait"
      /\ call[m].outcome = "none" /\ call \in [Messages -> CallType] /\ call[m] \in CallType
      /\ late \in [Messages -> Nat]
  BY DEF Account, Inv, Fine, TypeOK, TimeoutFires, OnRoute
<1>1. /\ d.pc = "result" /\ d.result = "refused" /\ d.route = call[m].route
      /\ d.try = call[m].try /\ d.outcome = "none"
  BY <1>0 DEF CallType
<1>2. /\ call' = [call EXCEPT ![m] = d] /\ late' = [late EXCEPT ![m] = @ + 1]
      /\ UNCHANGED <<plan, pdus, tracked, taken>>
  BY DEF TimeoutFires
<1> HIDE DEF d
<1>3. call'[m] = d /\ \A n \in Messages \ {m} : call'[n] = call[n]
  BY <1>0, <1>2
<1>4. late'[m] = late[m] + 1 /\ \A n \in Messages \ {m} : late'[n] = late[n]
  BY <1>0, <1>2
<1> HIDE DEF P
<1>5. Sound(d, P, taken[m], late[m] + 1)
  BY <1>0, <1>1, AttemptLate
<1>6. FineAfter(m)
  BY <1>1, <1>2, <1>3, <1>4, <1>5 DEF FineAfter, Told, P
<1> QED BY <1>2, <1>3, <1>4, <1>6 DEF Same

\* A supplier takes the message or refuses it.
LEMMA SupplierFine ==
    ASSUME Account, NEW p \in pdus, NEW r \in Results,
           \/ r \in {"ok", "anonymous"} /\ Takes(p, r)
           \/ r \in {"refused", "unbound"} /\ Refuses(p, r)
    PROVE  \A n \in Messages : Same(n) \/ FineAfter(n)
<1> DEFINE m == p.msg
           q == [p EXCEPT !.answer = r]
           P == Of(pdus, m)
<1>0. /\ TypeOK /\ p \in PduType /\ m \in Messages /\ p.answer = "none" /\ p.route \in Routes
      /\ taken \in [Messages -> [Routes -> Nat]] /\ UNCHANGED <<plan, call, late, tracked>>
  BY DEF Account, Inv, TypeOK, PduType, Takes, Refuses
<1>1. Sound(call[m], P, taken[m], late[m]) /\ Told(call[m], m, tracked)
  BY <1>0 DEF Account, Fine
<1>2. /\ q \in PduType /\ q.msg = m /\ q.route = p.route /\ q.try = p.try /\ q.answer = r
      /\ p \in P
  BY <1>0 DEF PduType, Of
<1>3. pdus' = (pdus \ {p}) \cup {q}
  BY DEF Takes, Refuses
<1> HIDE DEF q
<1>4. /\ Of(pdus', m) = (P \ {p}) \cup {q}
      /\ \A n \in Messages \ {m} : Of(pdus', n) = Of(pdus, n)
  BY <1>2, <1>3 DEF Of
<1> HIDE DEF P
<1>5. CASE r \in {"ok", "anonymous"} /\ Takes(p, r)
  <2>1. taken' = [taken EXCEPT ![m][p.route] = @ + 1]
    BY <1>5 DEF Takes
  <2>2. /\ taken'[m] = [taken[m] EXCEPT ![p.route] = @ + 1]
        /\ \A n \in Messages \ {m} : taken'[n] = taken[n]
    BY <1>0, <2>1
  <2>3. Succeeded(q.answer)
    BY <1>2, <1>5 DEF Succeeded
  <2>4. Sound(call[m], (P \ {p}) \cup {q}, [taken[m] EXCEPT ![p.route] = @ + 1], late[m])
    BY <1>0, <1>1, <1>2, <2>3, PduTaken
  <2>5. FineAfter(m)
    BY <1>0, <1>1, <1>4, <2>2, <2>4 DEF FineAfter
  <2> QED BY <1>0, <1>4, <2>2, <2>5 DEF Same
<1>6. CASE r \in {"refused", "unbound"} /\ Refuses(p, r)
  <2>1. taken' = taken
    BY <1>6 DEF Refuses
  <2>2. ~Succeeded(q.answer) /\ ~Succeeded(p.answer)
    BY <1>0, <1>2, <1>6 DEF Succeeded
  <2>3. Sound(call[m], (P \ {p}) \cup {q}, taken[m], late[m])
    BY <1>0, <1>1, <1>2, <2>2, PduRefused
  <2>4. FineAfter(m)
    BY <1>0, <1>1, <1>4, <2>1, <2>3 DEF FineAfter
  <2> QED BY <1>0, <1>4, <2>1, <2>4 DEF Same
<1> QED BY <1>5, <1>6

\* An answer arrives: too late, as the refusal of a SUBMIT_SM, or as the result.
LEMMA AnsweredFine ==
    ASSUME Account, NEW p \in pdus, Answered(p)
    PROVE  \A n \in Messages : Same(n) \/ FineAfter(n)
<1> DEFINE m == p.msg
           P == Of(pdus, m)
<1>0. /\ TypeOK /\ p \in PduType /\ m \in Messages /\ p.answer # "none"
      /\ call \in [Messages -> CallType] /\ UNCHANGED <<plan, taken, late, tracked>>
  BY DEF Account, Inv, TypeOK, PduType, Answered
<1>1. /\ Sound(call[m], P, taken[m], late[m]) /\ Told(call[m], m, tracked)
      /\ p \in P /\ call[m] \in CallType
  BY <1>0 DEF Account, Fine, Of
<1>2. /\ Of(pdus \ {p}, m) = P \ {p}
      /\ \A n \in Messages \ {m} : Of(pdus \ {p}, n) = Of(pdus, n)
  BY DEF Of
<1>3. CASE ~Awaits(m, p)
  <2>1. pdus' = pdus \ {p} /\ call' = call
    BY <1>3 DEF Answered
  <2> HIDE DEF P
  <2>2. Sound(call[m], P \ {p}, taken[m], late[m])
    BY <1>0, <1>1, PdusLost
  <2>3. FineAfter(m)
    BY <1>0, <1>1, <1>2, <2>1, <2>2 DEF FineAfter
  <2> QED BY <1>0, <1>2, <2>1, <2>3 DEF Same
<1>4. CASE Awaits(m, p) /\ FallsBack(p)
  <2> DEFINE q == [p EXCEPT !.op = "deliver", !.answer = "none"]
  <2>1. /\ q \in PduType /\ q.msg = m /\ q.route = p.route /\ q.try = p.try
        /\ q.answer = "none"
    BY <1>0 DEF PduType, Results
  <2>2. pdus' = (pdus \ {p}) \cup {q} /\ call' = call
    BY <1>4 DEF Answered
  <2> HIDE DEF q
  <2>3. /\ Of(pdus', m) = (P \ {p}) \cup {q}
        /\ \A n \in Messages \ {m} : Of(pdus', n) = Of(pdus, n)
    BY <2>1, <2>2 DEF Of
  <2>4. ~Succeeded(q.answer) /\ ~Succeeded(p.answer) /\ Expects(call[m], p)
    BY <1>4, <2>1 DEF Succeeded, FallsBack, Awaits, Expects
  <2> HIDE DEF P
  <2>5. Sound(call[m], (P \ {p}) \cup {q}, taken[m], late[m])
    BY <1>0, <1>1, <2>1, <2>4, PduRefused
  <2>6. FineAfter(m)
    BY <1>0, <1>1, <2>2, <2>3, <2>5 DEF FineAfter
  <2> QED BY <1>0, <2>2, <2>3, <2>6 DEF Same
<1>5. CASE Awaits(m, p) /\ ~FallsBack(p)
  <2> DEFINE d == [call[m] EXCEPT !.pc = "result", !.result = p.answer]
  <2>1. /\ d.pc = "result" /\ d.result = p.answer /\ d.route = call[m].route
        /\ d.try = call[m].try /\ d.outcome = call[m].outcome
    BY <1>1 DEF CallType
  <2>2. call' = [call EXCEPT ![m] = d] /\ pdus' = pdus \ {p}
    BY <1>5 DEF Answered
  <2> HIDE DEF d
  <2>3. call'[m] = d /\ \A n \in Messages \ {m} : call'[n] = call[n]
    BY <1>0, <2>2
  <2>4. Expects(call[m], p) /\ call[m].outcome = "none"
    BY <1>0, <1>5 DEF Awaits, Expects, Account, Inv, OnRoute
  <2> HIDE DEF P
  <2>5. Sound(d, P \ {p}, taken[m], late[m])
    BY <1>0, <1>1, <2>1, <2>4, AnswerTold
  <2>6. FineAfter(m)
    BY <1>0, <1>2, <2>1, <2>2, <2>3, <2>4, <2>5 DEF FineAfter, Told
  <2> QED BY <1>0, <1>2, <2>2, <2>3, <2>6 DEF Same
<1> QED BY <1>3, <1>4, <1>5

\* A connection is lost with the PDUs on it.
LEMMA ConnectionFine ==
    ASSUME Account, NEW i \in Routes, NEW l \in {"client", "smpp", "rest"},
           Drop(i, l) \/ Connect(i, l)
    PROVE  \A n \in Messages : FineAfter(n)
<1> SUFFICES ASSUME NEW n \in Messages PROVE FineAfter(n)
  OBVIOUS
<1>1. UNCHANGED <<plan, call, tracked, taken, late>> /\ pdus' \subseteq pdus
  BY DEF Drop, Connect
<1>2. Sound(call[n], Of(pdus, n), taken[n], late[n]) /\ Told(call[n], n, tracked) /\ TypeOK
  BY DEF Account, Inv, Fine
<1>3. Of(pdus', n) \in SUBSET Of(pdus, n)
  BY <1>1 DEF Of
<1>4. Sound(call[n], Of(pdus', n), taken[n], late[n])
  BY <1>2, <1>3, PdusLost
<1> QED BY <1>1, <1>2, <1>4 DEF FineAfter

\* Every step of the calls, the suppliers and their connections keeps the account.
LEMMA AccountStep == Account /\ [Next]_vars => Account'
<1> SUFFICES ASSUME Account, [Next]_vars PROVE Account'
  OBVIOUS
<1>0. Inv'
  BY InvStep DEF Account
<1>1. CASE UNCHANGED vars
  <2>1. \A n \in Messages : Same(n)
    BY <1>1 DEF vars, Same
  <2> QED BY <1>0, <1>1, <2>1, FineStep DEF vars
<1>2. ASSUME NEW m \in Messages, Deliver(m) \/ CallStep(m) PROVE Account'
  <2>1. plan' = plan
    BY <1>2 DEF Deliver, CallStep, Resume, BackoffEnds, TimeoutFires
  <2>2. CASE Resume(m)
    BY <1>0, <2>1, <2>2, ResumeFine, FineStep
  <2>3. CASE Deliver(m) \/ BackoffEnds(m) \/ TimeoutFires(m)
    <3>1. tracked' = tracked
      BY <2>3 DEF Deliver, BackoffEnds, TimeoutFires
    <3>2. \A n \in Messages : Same(n) \/ FineAfter(n)
      BY <2>3, DeliverFine, BackoffFine, TimeoutFine
    <3> QED BY <1>0, <2>1, <3>1, <3>2, FineStep
  <2> QED BY <1>2, <2>2, <2>3 DEF CallStep
<1>3. ASSUME NEW p \in pdus,
             \/ \E r \in {"ok", "anonymous"} : Takes(p, r)
             \/ \E r \in {"refused", "unbound"} : Refuses(p, r)
      PROVE  Account'
  <2>1. UNCHANGED <<plan, tracked>>
    BY <1>3 DEF Takes, Refuses
  <2>2. \A n \in Messages : Same(n) \/ FineAfter(n)
    <3>1. {"ok", "anonymous"} \subseteq Results /\ {"refused", "unbound"} \subseteq Results
      BY DEF Results
    <3> QED BY <1>3, <3>1, SupplierFine
  <2> QED BY <1>0, <2>1, <2>2, FineStep
<1>4. ASSUME NEW p \in pdus, Answered(p) PROVE Account'
  <2>1. UNCHANGED <<plan, tracked>>
    BY <1>4 DEF Answered
  <2> QED BY <1>0, <1>4, <2>1, AnsweredFine, FineStep
<1>5. ASSUME NEW i \in Routes, NEW l \in {"client", "smpp", "rest"}, Drop(i, l) \/ Connect(i, l)
      PROVE  Account'
  <2>1. UNCHANGED <<plan, tracked>>
    BY <1>5 DEF Drop, Connect
  <2> QED BY <1>0, <1>5, <2>1, ConnectionFine, FineStep
<1> QED BY <1>1, <1>2, <1>3, <1>4, <1>5 DEF Next

\* Before the first call nothing was sent, and at all times what was is accounted for.
LEMMA AccountHolds == Spec => []Account
<1>1. Init => Account
  <2> SUFFICES ASSUME Init, Inv PROVE Account
    BY InvInit
  <2>1. SUFFICES ASSUME NEW m \in Messages PROVE Fine(m)
    BY DEF Account
  <2>2. /\ call[m] = NewCall /\ taken[m] = [i \in Routes |-> 0] /\ late[m] = 0
        /\ Of(pdus, m) = {}
    BY DEF Init, Of
  <2>3. taken[m] \in Seq(Nat) /\ Len(taken[m]) = Len(plan)
    <3>1. Routes = 1 .. Len(plan) /\ Len(plan) \in Nat
      BY PlanAssumption DEF Inv, TypeOK, PlanAssumption, Routes
    <3> QED BY <2>2, <3>1
  <2>4. \A i \in 1 .. Len(taken[m]) : taken[m][i] = 0
    BY <2>2, <2>3
  <2>5. Total(taken[m]) = 0
    BY <2>3, <2>4, TotalZero
  <2>6. IsFiniteSet({}) /\ Cardinality({}) = 0
    BY FS_EmptySet
  <2>7. OpenOf(call[m], {}) = {} /\ ~Wins(call[m]) /\ Told(call[m], m, tracked)
    BY <2>2 DEF OpenOf, NewCall, Wins, Told
  <2>8. ~MayWin(call[m], {})
    BY <2>2, <2>7 DEF MayWin, NewCall
  <2>9. Known(call[m], {}, taken[m])
    BY <2>3, <2>6, <2>7 DEF Known
  <2>10. Counted(call[m], {}, taken[m], late[m])
    BY <2>2, <2>5, <2>6, <2>7, <2>8 DEF Counted
  <2> QED BY <2>2, <2>7, <2>9, <2>10 DEF Fine, Sound
<1> QED BY <1>1, AccountStep, PTL DEF Spec

\* What was taken, by the call's outcome
LEMMA TakenBy ==
    ASSUME Account, NEW m \in Messages
    PROVE  /\ TotalTaken(m) \in Nat /\ late[m] \in Nat
           /\ TotalTaken(m) <= IF MayWin(call[m], Of(pdus, m)) THEN late[m] + 1 ELSE late[m]
<1>1. TypeOK /\ Sound(call[m], Of(pdus, m), taken[m], late[m])
  BY DEF Account, Inv, Fine
<1>2. Cardinality(OpenOf(call[m], Of(pdus, m))) \in Nat /\ Total(taken[m]) \in Nat
  BY <1>1, OpenFinite DEF Sound
<1> QED BY <1>1, <1>2 DEF Sound, Counted, TotalTaken

\* A message is taken once, however its attempts, the fallback of a modem, the answers
\* and the connections overlap, but for attempts given up on without an answer
\* (attemptDelivery's timeout).
THEOREM TakenOnceHolds == Spec => []TakenOnce
<1>1. Account => TakenOnce
  <2> SUFFICES ASSUME Account, NEW m \in Messages PROVE TotalTaken(m) <= 1 + late[m]
    BY DEF TakenOnce
  <2> QED BY TakenBy
<1> QED BY <1>1, AccountHolds, PTL

\* What deliverSmsWithFallback reports is true: a failed or queued message was taken by
\* nobody, and one that was sent by the supplier it names, whose receipt is expected.
THEOREM OutcomeTrueHolds == Spec => []OutcomeTrue
<1>1. Account => OutcomeTrue
  <2> SUFFICES ASSUME Account, NEW m \in Messages
               PROVE  /\ call[m].outcome \in {"failed", "queued"} => TotalTaken(m) <= late[m]
                      /\ call[m].outcome = "sent" =>
                            /\ taken[m][call[m].route] > 0
                            /\ call[m].result = "ok" =>
                                  [msg |-> m, route |-> call[m].route] \in tracked
    BY DEF OutcomeTrue
  <2>1. call[m].outcome # "none" => call[m].pc = "over"
    BY DEF Account, Inv, OnRoute
  <2>2. ASSUME call[m].outcome \in {"failed", "queued"} PROVE TotalTaken(m) <= late[m]
    <3>1. ~MayWin(call[m], Of(pdus, m))
      BY <2>1, <2>2 DEF MayWin, Wins
    <3> QED BY <3>1, TakenBy
  <2>3. ASSUME call[m].outcome = "sent" PROVE taken[m][call[m].route] > 0
    <3>1. Wins(call[m])
      BY <2>1, <2>3 DEF Wins
    <3> QED BY <3>1 DEF Account, Fine, Sound, Known
  <2>4. call[m].outcome = "sent" /\ call[m].result = "ok"
            => [msg |-> m, route |-> call[m].route] \in tracked
    BY DEF Account, Fine, Told
  <2> QED BY <2>2, <2>3, <2>4
<1> QED BY <1>1, AccountHolds, PTL
===============================================================================
