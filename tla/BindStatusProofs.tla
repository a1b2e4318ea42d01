--------------------------- MODULE BindStatusProofs ---------------------------
(***************************************************************************)
(* bind_status of a party of either kind: the link to a supplier           *)
(* (SupplierLink), for any number of sessions and of calls that connect at *)
(* once, and the party that binds to us (ServerBinds), for any number of   *)
(* sessions; last, the two of them as MCBindStatus composes them.          *)
(***************************************************************************)
EXTENDS MCBindStatus, TLAPS

USE DEF syncVars, linkVars, Legs, Timers, BindStatuses

-----------------------------------------------------------------------------
(* Types *)

\* The legs of the mode; a call in progress binds one of them, and one that was
\* started for a single leg binds that one.
MyLegs == IF mode = "trx" THEN {"trx"} ELSE {"tx", "rx"}

LegsFit ==
    /\ mode = "trx" => timer \subseteq {"full"}
    /\ \A c \in Calls :
          call[c].pc \in {"read", "bind"} =>
              /\ call[c].leg \in MyLegs
              /\ call[c].kind # "full" => mode = "dual" /\ call[c].leg = call[c].kind
              /\ call[c].pc = "read" /\ call[c].kind = "full" => call[c].leg = FirstLeg
    /\ \A s \in Sessions :
          session[s].st \in {"bound", "closing"} =>
              /\ session[s].leg \in MyLegs
              /\ mode = "trx" => session[s].handlers

LinkOK == LinkTypes /\ LegsFit

\* The two legs of a TX_RX link are each other's other leg.
LEMMA OtherLeg == Other("tx") = "rx" /\ Other("rx") = "tx"
<1>1. {"tx", "rx"} \ {"tx"} = {"rx"} /\ {"tx", "rx"} \ {"rx"} = {"tx"}
  OBVIOUS
<1> QED BY <1>1 DEF Other

\* The leg connectSupplier opens first is one the mode of the link uses.
LEMMA FirstIsMine == mode \in Modes => FirstLeg \in MyLegs /\ FirstLeg \in Legs
  BY LinkAssumption DEF LinkAssumption, FirstLeg, MyLegs

\* What the closing of what is tracked does to a session
LEMMA ClosedSession ==
    ASSUME LinkTypes, NEW s \in Sessions
    PROVE  Closed(session)[s] \in {session[s], [session[s] EXCEPT !.st = "closing"]}
           /\ (Closed(session)[s] # session[s] => session[s].st = "bound")
  BY DEF Closed

\* Closing what is tracked (disconnectSupplier) keeps the types of the sessions and their legs.
LEMMA ClosedType ==
    ASSUME LinkOK
    PROVE  /\ Closed(session) \in [Sessions -> [leg : Legs,
                  st : {"free", "bound", "closing", "dead"}, handlers : BOOLEAN]]
           /\ \A s \in Sessions :
                 /\ Closed(session)[s].leg = session[s].leg
                 /\ Closed(session)[s].handlers = session[s].handlers
                 /\ Closed(session)[s].st \in {"bound", "closing"} =>
                       session[s].st \in {"bound", "closing"}
                 /\ session[s].st \in {"bound", "closing"} =>
                       Closed(session)[s].st \in {"bound", "closing"}
<1> USE DEF LinkOK, LinkTypes
<1>1. Closed(session) = [s \in Sessions |-> Closed(session)[s]]
  BY DEF Closed
<1>2. ASSUME NEW s \in Sessions
      PROVE  /\ Closed(session)[s] \in [leg : Legs,
                    st : {"free", "bound", "closing", "dead"}, handlers : BOOLEAN]
             /\ Closed(session)[s].leg = session[s].leg
             /\ Closed(session)[s].handlers = session[s].handlers
             /\ Closed(session)[s].st \in {"bound", "closing"} =>
                   session[s].st \in {"bound", "closing"}
             /\ session[s].st \in {"bound", "closing"} =>
                   Closed(session)[s].st \in {"bound", "closing"}
  <2>1. CASE Closed(session)[s] = session[s]
    BY <2>1
  <2>2. CASE Closed(session)[s] = [session[s] EXCEPT !.st = "closing"] /\ session[s].st = "bound"
    BY <2>2
  <2> QED BY <2>1, <2>2, ClosedSession
<1> HIDE DEF LinkOK, LinkTypes
<1> QED BY <1>1, <1>2

\* A call that starts to connect closes what is tracked and binds the first leg.
LEMMA StartOK ==
    ASSUME LinkOK, NEW c \in Calls, NEW rebind \in BOOLEAN, StartConnect(c, rebind),
           UNCHANGED <<mode, timer>>
    PROVE  LinkOK'
<1> USE DEF LinkOK, LinkTypes
<1>1. /\ call' = [call EXCEPT ![c] = [pc |-> "bind", kind |-> "full", leg |-> FirstLeg,
                                      rebind |-> rebind]]
      /\ session' = Closed(session) /\ stopped' = "no"
      /\ conn' \in [Legs -> Sessions \cup {NoSession}]
  BY DEF StartConnect, Connecting, NoConn
<1>2. LinkTypes'
  BY <1>1, ClosedType, FirstIsMine
<1>3. LegsFit'
  <2>1. MyLegs' = MyLegs /\ FirstLeg' = FirstLeg
    BY DEF MyLegs, FirstLeg
  <2>2. \A s \in Sessions :
           session'[s].st \in {"bound", "closing"} =>
              /\ session'[s].leg \in MyLegs
              /\ mode = "trx" => session'[s].handlers
    BY <1>1, ClosedType DEF LegsFit
  <2>3. \A d \in Calls :
           call'[d].pc \in {"read", "bind"} =>
              /\ call'[d].leg \in MyLegs
              /\ call'[d].kind # "full" => mode = "dual" /\ call'[d].leg = call'[d].kind
              /\ call'[d].pc = "read" /\ call'[d].kind = "full" => call'[d].leg = FirstLeg
    BY <1>1, FirstIsMine DEF LegsFit
  <2> QED BY <2>1, <2>2, <2>3 DEF LegsFit
<1> QED BY <1>2, <1>3

\* disconnectSupplier
LEMMA DisconnectOK ==
    ASSUME LinkOK, Disconnect, UNCHANGED mode,
           \/ call' = call
           \/ \E c \in Calls : \/ call' = [call EXCEPT ![c] = Idle]
                               \/ call' = [call EXCEPT ![c] = [Idle EXCEPT !.pc = "wait"]]
    PROVE  LinkOK'
<1> USE DEF LinkOK, LinkTypes
<1>1. /\ session' = Closed(session) /\ stopped' = "ended" /\ timer' = {}
      /\ conn' \in [Legs -> Sessions \cup {NoSession}]
  BY DEF Disconnect, NoConn
<1>2. /\ call' \in [Calls -> [pc : {"idle", "read", "bind", "wait"}, kind : Timers,
                              leg : Legs, rebind : BOOLEAN]]
      /\ \A d \in Calls : call'[d] = call[d] \/ call'[d].pc \in {"idle", "wait"}
  <2>1. CASE call' = call
    BY <2>1
  <2>2. ASSUME NEW c \in Calls, NEW i, i = Idle \/ i = [Idle EXCEPT !.pc = "wait"],
               call' = [call EXCEPT ![c] = i]
        PROVE  <1>2!1 /\ <1>2!2
    <3>1. i.pc \in {"idle", "wait"} /\ i \in [pc : {"idle", "read", "bind", "wait"},
                                             kind : Timers, leg : Legs, rebind : BOOLEAN]
      <4>1. CASE i = Idle
        BY <4>1 DEF Idle
      <4>2. CASE i = [Idle EXCEPT !.pc = "wait"]
        BY <4>2 DEF Idle
      <4> QED BY <2>2, <4>1, <4>2
    <3> QED BY <2>2, <3>1
  <2> QED BY <2>1, <2>2
<1>3. MyLegs' = MyLegs /\ FirstLeg' = FirstLeg
  BY DEF MyLegs, FirstLeg
<1>4. LinkTypes'
  BY <1>1, <1>2, ClosedType
<1>5. LegsFit'
  <2>1. \A s \in Sessions :
           session'[s].st \in {"bound", "closing"} =>
              /\ session'[s].leg \in MyLegs
              /\ mode = "trx" => session'[s].handlers
    BY <1>1, ClosedType DEF LegsFit
  <2>2. \A d \in Calls :
           call'[d].pc \in {"read", "bind"} =>
              /\ call'[d].leg \in MyLegs
              /\ call'[d].kind # "full" => mode = "dual" /\ call'[d].leg = call'[d].kind
              /\ call'[d].pc = "read" /\ call'[d].kind = "full" => call'[d].leg = FirstLeg
    BY <1>2 DEF LegsFit
  <2> HIDE DEF LinkTypes
  <2> QED BY <1>1, <1>3, <2>1, <2>2 DEF LegsFit
<1> QED BY <1>4, <1>5

\* Every step of a call
LEMMA CallOK ==
    ASSUME LinkOK, NEW c \in Calls, CallStep(c)
    PROVE  LinkOK'
<1> USE DEF LinkOK, LinkTypes
<1>0. mode' = mode /\ MyLegs' = MyLegs /\ FirstLeg' = FirstLeg
  BY DEF CallStep, Reconnect, ConnectFault, ReadFault, Rebind, BindOk, BindFails, MyLegs, FirstLeg
<1>1. CASE Reconnect(c)
  <2>1. CASE call[c].kind = "full"
    BY <1>1, <2>1, StartOK DEF Reconnect
  <2>2. CASE call[c].kind # "full"
    BY <1>0, <1>1, <2>2 DEF Reconnect, LegsFit
  <2> QED BY <2>1, <2>2
<1>2. CASE ConnectFault(c) \/ ReadFault(c)
  <2>1. /\ call' = [call EXCEPT ![c] = Idle] /\ UNCHANGED <<conn, session>>
        /\ timer' = timer \/ (call[c].pc = "read" /\ timer' = timer \cup {call[c].kind})
        /\ stopped' \in {stopped, "forgotten"}
    BY <1>2 DEF ConnectFault, ReadFault
  <2>2. timer' \subseteq Timers /\ (mode = "trx" => timer' \subseteq {"full"})
    BY <2>1, LinkAssumption DEF LinkAssumption, LegsFit
  <2>3. call' \in [Calls -> [pc : {"idle", "read", "bind", "wait"}, kind : Timers,
                            leg : Legs, rebind : BOOLEAN]]
        /\ \A d \in Calls : call'[d] = call[d] \/ call'[d].pc = "idle"
    BY <2>1 DEF Idle
  <2> QED BY <1>0, <2>1, <2>2, <2>3 DEF LegsFit
<1>3. CASE Rebind(c)
  BY <1>3, StartOK DEF Rebind
<1>4. ASSUME NEW s \in Sessions, BindOk(c, s) PROVE LinkOK'
  <2>1. /\ call[c].pc = "bind" /\ call[c].leg \in MyLegs
        /\ conn' = [conn EXCEPT ![call[c].leg] = s]
        /\ call' = [call EXCEPT ![c] = IF ~(call[c].kind = "full" /\ call[c].leg = "tx")
                                       THEN Idle ELSE [call[c] EXCEPT !.leg = "rx"]]
        /\ UNCHANGED <<mode, timer, stopped>>
    BY <1>4 DEF BindOk, LegsFit
  <2>2. /\ LinkTypes'
        /\ \A t \in Sessions :
              /\ session'[t].leg = IF t = s THEN call[c].leg ELSE session[t].leg
              /\ session'[t].st = IF t = s THEN "bound" ELSE session[t].st
              /\ session[t].handlers /\ t # s => session'[t].handlers
    <3> DEFINE last == ~(call[c].kind = "full" /\ call[c].leg = "tx")
               now == [conn EXCEPT ![call[c].leg] = s]
               registered == IF ~last THEN {} ELSE
                             IF call[c].kind = "full" THEN {now[l] : l \in Legs} ELSE {s}
               New(t) == IF t = s THEN [leg |-> call[c].leg, st |-> "bound", handlers |-> FALSE]
                                  ELSE session[t]
    <3>1. session' = [t \in Sessions |->
             [New(t) EXCEPT !.handlers = New(t).handlers \/ (t \in registered /\ New(t).st # "dead")]]
      BY <1>4 DEF BindOk
    <3> HIDE DEF registered
    <3>2. ASSUME NEW t \in Sessions
          PROVE  /\ session'[t] \in [leg : Legs, st : {"free", "bound", "closing", "dead"},
                                     handlers : BOOLEAN]
                 /\ session'[t].leg = New(t).leg /\ session'[t].st = New(t).st
                 /\ New(t).handlers => session'[t].handlers
      <4>1. New(t) \in [leg : Legs, st : {"free", "bound", "closing", "dead"},
                        handlers : BOOLEAN]
        OBVIOUS
      <4> HIDE DEF New
      <4> QED BY <3>1, <4>1
    <3>3. call' \in [Calls -> [pc : {"idle", "read", "bind", "wait"}, kind : Timers,
                              leg : Legs, rebind : BOOLEAN]]
      <4>1. Idle \in [pc : {"idle", "read", "bind", "wait"}, kind : Timers,
                      leg : Legs, rebind : BOOLEAN]
        BY DEF Idle
      <4>2. [call[c] EXCEPT !.leg = "rx"] \in
                [pc : {"idle", "read", "bind", "wait"}, kind : Timers,
                 leg : Legs, rebind : BOOLEAN]
        OBVIOUS
      <4> QED BY <2>1, <4>1, <4>2
    <3>4. session' \in [Sessions -> [leg : Legs, st : {"free", "bound", "closing", "dead"},
                                     handlers : BOOLEAN]]
      BY <3>1, <3>2
    <3>5. conn' \in [Legs -> Sessions \cup {NoSession}]
      BY <2>1
    <3>6. LinkTypes'
      BY <2>1, <3>3, <3>4, <3>5
    <3>7. ASSUME NEW t \in Sessions
          PROVE  /\ session'[t].leg = IF t = s THEN call[c].leg ELSE session[t].leg
                 /\ session'[t].st = IF t = s THEN "bound" ELSE session[t].st
                 /\ session[t].handlers /\ t # s => session'[t].handlers
      BY <3>2
    <3> HIDE DEF LinkTypes
    <3> QED BY <3>6, <3>7
  <2>3. mode = "trx" => session'[s].handlers
    <3> SUFFICES ASSUME mode = "trx" PROVE session'[s].handlers
      OBVIOUS
    <3>1. call[c].kind = "full" /\ call[c].leg = "trx"
      BY <2>1 DEF LegsFit, MyLegs
    <3>2. s = [conn EXCEPT !["trx"] = s]["trx"]
      OBVIOUS
    <3> QED BY <1>4, <3>1, <3>2 DEF BindOk
  <2>4. \A d \in Calls \ {c} : call'[d] = call[d]
    BY <2>1
  <2>5. call'[c].pc \in {"read", "bind"} => call'[c].pc = "bind" /\ call'[c].kind = "full"
                                          /\ call'[c].leg = "rx" /\ mode # "trx"
    BY <2>1 DEF Idle, MyLegs
  <2>6. LegsFit'
    <3> HIDE DEF LinkTypes
    <3> QED BY <1>0, <2>1, <2>2, <2>3, <2>4, <2>5 DEF LegsFit, MyLegs
  <2> QED BY <2>2, <2>6
<1>5. ASSUME NEW p \in BOOLEAN, BindFails(c, p) PROVE LinkOK'
  <2>1. CASE Disconnect
    BY <1>0, <1>5, <2>1, DisconnectOK DEF BindFails, Idle
  <2>2. CASE ~(call[c].kind = "full" /\ call[c].leg = "rx")
    <3>1. /\ call[c].pc = "bind" /\ call' = [call EXCEPT ![c] = Idle]
          /\ timer' = timer \cup Rescheduled(p) \cup ({call[c].kind} \ {"full"})
          /\ stopped' \in {stopped, "ended"} /\ UNCHANGED <<conn, session>>
      BY <1>5, <2>2 DEF BindFails
    <3>2. timer' \subseteq Timers /\ (mode = "trx" => timer' \subseteq {"full"})
      BY <3>1, LinkAssumption DEF LinkAssumption, LegsFit, Rescheduled
    <3>3. call' \in [Calls -> [pc : {"idle", "read", "bind", "wait"}, kind : Timers,
                              leg : Legs, rebind : BOOLEAN]]
          /\ \A d \in Calls : call'[d] = call[d] \/ call'[d].pc = "idle"
      BY <3>1 DEF Idle
    <3> QED BY <1>0, <3>1, <3>2, <3>3 DEF LegsFit
  <2> QED BY <1>5, <2>1, <2>2 DEF BindFails
<1> QED BY <1>1, <1>2, <1>3, <1>4, <1>5 DEF CallStep

\* A session ends.
LEMMA SessionOK ==
    ASSUME LinkOK, NEW s \in Sessions, CloseEvent(s) \/ ErrorEvent(s)
    PROVE  LinkOK'
<1> USE DEF LinkOK, LinkTypes
<1>1. /\ UNCHANGED <<mode, call, stopped>> /\ MyLegs' = MyLegs /\ FirstLeg' = FirstLeg
      /\ session[s].st \in {"bound", "closing"}
      /\ conn' = conn \/ conn' = [conn EXCEPT ![session[s].leg] = NoSession]
  BY DEF CloseEvent, ErrorEvent, MyLegs, FirstLeg, Untracked
<1>2. conn' \in [Legs -> Sessions \cup {NoSession}]
  BY <1>1
<1>3. /\ session' \in [Sessions -> [leg : Legs, st : {"free", "bound", "closing", "dead"},
                                    handlers : BOOLEAN]]
      /\ \A t \in Sessions \ {s} : session'[t] = session[t]
      /\ session'[s].st # "dead" => session'[s] = [session[s] EXCEPT !.st = "closing"]
  <2>1. CASE CloseEvent(s)
    <3> DEFINE d == NotOpen("dead")
    <3>1. session' = [session EXCEPT ![s] = d]
      BY <2>1 DEF CloseEvent
    <3>2. d.st = "dead" /\ d \in [leg : Legs, st : {"free", "bound", "closing", "dead"},
                                 handlers : BOOLEAN]
      BY DEF NotOpen
    <3> HIDE DEF d
    <3>3. session'[s] = d /\ \A t \in Sessions \ {s} : session'[t] = session[t]
      BY <3>1
    <3>4. session' \in [Sessions -> [leg : Legs, st : {"free", "bound", "closing", "dead"},
                                    handlers : BOOLEAN]]
      BY <3>1, <3>2
    <3> QED BY <3>2, <3>3, <3>4
  <2>2. CASE ErrorEvent(s)
    BY <2>2 DEF ErrorEvent
  <2> QED BY <2>1, <2>2
<1>4. timer' \subseteq Timers /\ (mode = "trx" => timer' \subseteq {"full"})
  <2>1. ASSUME NEW sibling \in BOOLEAN, sibling => mode = "dual"
        PROVE  Armed(session[s].leg, sibling) \subseteq Timers
               /\ (mode = "trx" => Armed(session[s].leg, sibling) = {"full"})
    BY <1>1, <2>1, LinkAssumption DEF LinkAssumption, Armed, LegsFit, MyLegs
  <2>2. timer' = timer \/ \E sibling \in BOOLEAN :
           (sibling => mode = "dual") /\ timer' = timer \cup Armed(session[s].leg, sibling)
    <3> DEFINE sibling == mode = "dual" /\ Tracked(Other(session[s].leg))
    <3>1. timer' = timer \/ timer' = timer \cup Armed(session[s].leg, sibling)
      BY DEF CloseEvent, ErrorEvent
    <3>2. sibling \in BOOLEAN /\ (sibling => mode = "dual")
      OBVIOUS
    <3> HIDE DEF sibling
    <3> QED BY <3>1, <3>2
  <2> QED BY <2>1, <2>2 DEF LegsFit
<1> QED BY <1>1, <1>2, <1>3, <1>4 DEF LegsFit

\* A timer fires.
LEMMA TimerOK ==
    ASSUME LinkOK, NEW t \in Timers, NEW c \in Calls, TimerFires(c, t)
    PROVE  LinkOK'
<1> USE DEF LinkOK, LinkTypes
<1> DEFINE goal == IF t # "full" /\ Tracked(Other(t)) THEN t ELSE "full"
<1>1. /\ t \in timer /\ timer' = timer \ {t} /\ UNCHANGED <<mode, conn, session, stopped>>
      /\ call' = [call EXCEPT ![c] = [pc |-> "read", kind |-> goal,
                     leg |-> IF goal = "full" THEN FirstLeg ELSE goal, rebind |-> FALSE]]
      /\ MyLegs' = MyLegs /\ FirstLeg' = FirstLeg
  BY DEF TimerFires, MyLegs, FirstLeg
<1>2. /\ goal \in Timers
      /\ goal # "full" => mode = "dual" /\ goal \in {"tx", "rx"}
  BY <1>1, LinkAssumption DEF LinkAssumption, LegsFit
<1>3. FirstLeg \in MyLegs /\ FirstLeg \in Legs /\ (mode = "dual" => MyLegs = {"tx", "rx"})
  BY FirstIsMine DEF MyLegs
<1> HIDE DEF goal
<1>4. /\ call'[c].kind = goal /\ call'[c].leg = IF goal = "full" THEN FirstLeg ELSE goal
      /\ \A d \in Calls \ {c} : call'[d] = call[d]
      /\ call' \in [Calls -> [pc : {"idle", "read", "bind", "wait"}, kind : Timers,
                             leg : Legs, rebind : BOOLEAN]]
  BY <1>1, <1>2, <1>3
<1> QED BY <1>1, <1>2, <1>3, <1>4, ZenonT(40) DEF LegsFit

\* What moves nothing but the column
LinkStays == UNCHANGED <<mode, conn, session, timer, call, stopped>>

\* A step that writes only the column keeps the link well formed.
LEMMA LinkKeeps == LinkOK /\ LinkStays => LinkOK'
  BY DEF LinkStays, LinkOK, LinkTypes, LegsFit, MyLegs, FirstLeg

\* The periodic sync, the late writes and a bind asked of a connected link write only the column.
LEMMA RestingSteps ==
    ASSUME \/ UNCHANGED vars \/ Sync \/ \E v \in BindStatuses : WriteLands(v)
           \/ Connected /\ \E c \in Calls : AdminBind(c)
    PROVE  LinkStays
  BY DEF vars, Sync, WriteLands, AdminBind, Admin, LinkStays

\* The administrator's requests
LEMMA AdminOK ==
    ASSUME LinkOK, AdminUnbind \/ \E c \in Calls : AdminBind(c) \/ AdminRebind(c)
    PROVE  LinkOK'
<1>1. CASE AdminUnbind
  BY <1>1, DisconnectOK DEF AdminUnbind, Admin
<1>2. ASSUME NEW c \in Calls, AdminRebind(c) PROVE LinkOK'
  BY <1>2, DisconnectOK DEF AdminRebind, Admin
<1>3. ASSUME NEW c \in Calls, AdminBind(c) PROVE LinkOK'
  <2>1. CASE Connected
    BY <1>3, <2>1, LinkKeeps, RestingSteps
  <2>2. CASE ~Connected
    BY <1>3, <2>2, StartOK DEF AdminBind, Admin
  <2> QED BY <2>1, <2>2
<1> QED BY <1>1, <1>2, <1>3

\* Every step keeps the types and the legs.
LEMMA LinkStep == LinkOK /\ [Next]_vars => LinkOK'
<1> SUFFICES ASSUME LinkOK, [Next]_vars PROVE LinkOK'
  OBVIOUS
<1> QED BY LinkKeeps, CallOK, SessionOK, TimerOK, AdminOK, RestingSteps DEF Next, Fire

\* At the start one call connects.
LEMMA LinkStarts == Init => LinkOK
<1> SUFFICES ASSUME Init PROVE LinkOK
  OBVIOUS
<1>1. FirstLeg \in MyLegs /\ FirstLeg \in Legs
  BY FirstIsMine DEF Init
<1>2. /\ call \in [Calls -> [pc : {"idle", "read", "bind", "wait"}, kind : Timers,
                             leg : Legs, rebind : BOOLEAN]]
      /\ \A c \in Calls : call[c].pc \in {"read", "bind"} =>
            call[c].pc = "bind" /\ call[c].kind = "full" /\ call[c].leg = FirstLeg
  BY <1>1 DEF Init, Connecting, Idle
<1>3. /\ \A s \in Sessions : session[s].st = "free"
      /\ session \in [Sessions -> [leg : Legs, st : {"free", "bound", "closing", "dead"},
                                   handlers : BOOLEAN]]
  BY DEF Init, NotOpen
<1>4. LinkTypes
  BY <1>2, <1>3 DEF Init, LinkTypes
<1> QED BY <1>1, <1>2, <1>3, <1>4 DEF Init, LinkOK, LegsFit

\* The legs stay what they are.
LEMMA ModeStays == [Next]_vars => mode' = mode /\ MyLegs' = MyLegs /\ FirstLeg' = FirstLeg
<1> SUFFICES ASSUME [Next]_vars PROVE mode' = mode
  BY DEF MyLegs, FirstLeg
<1>1. ASSUME NEW c \in Calls, CallStep(c) \/ AdminBind(c) \/ AdminRebind(c) PROVE mode' = mode
  BY <1>1 DEF CallStep, Reconnect, ConnectFault, ReadFault, Rebind, BindOk, BindFails, AdminBind,
              AdminRebind, Admin
<1>2. CASE \E t \in Timers : Fire(t)
  BY <1>2 DEF Fire, TimerFires
<1>3. CASE \/ \E s \in Sessions : CloseEvent(s) \/ ErrorEvent(s)
           \/ AdminUnbind \/ Sync \/ UNCHANGED vars
           \/ \E v \in BindStatuses : WriteLands(v)
  BY <1>3 DEF CloseEvent, ErrorEvent, AdminUnbind, Admin, Sync, WriteLands, vars
<1> QED BY <1>1, <1>2, <1>3 DEF Next

\* The job and the updates write what the column may hold.
LEMMA ColumnStep ==
    ASSUME TypeOK, [Next]_vars
    PROVE  ColumnTypes'
<1> USE DEF TypeOK, LinkTypes, ColumnTypes, SyncTypeOK
<1>0. mode' = mode
  BY ModeStays
<1>1. ASSUME NEW c \in Calls, CallStep(c) PROVE ColumnTypes'
  <2>1. UNCHANGED <<admin, syncVars>> /\ writes' \subseteq BindStatuses
    BY <1>1 DEF CallStep, Reconnect, ConnectFault, ReadFault, Rebind, BindOk, BindFails
  <2>2. faults' \in 0..MaxFaults[mode]
    <3>1. CASE ConnectFault(c) \/ ReadFault(c)
      BY <3>1, LinkAssumption DEF LinkAssumption, ConnectFault, ReadFault
    <3>2. CASE ~ConnectFault(c) /\ ~ReadFault(c)
      <4>1. faults' = faults
        BY <1>1, <3>2 DEF CallStep, Reconnect, Rebind, BindOk, BindFails
      <4> QED BY <4>1
    <3> QED BY <3>1, <3>2
  <2> QED BY <1>0, <2>1, <2>2
<1>2. CASE AdminUnbind \/ \E c \in Calls : AdminBind(c) \/ AdminRebind(c)
  <2>1. Admin /\ writes' \subseteq BindStatuses
    BY <1>2 DEF AdminUnbind, AdminBind, AdminRebind
  <2>2. UNCHANGED <<faults, syncVars>> /\ admin' \in 0..MaxAdmin[mode]
    BY <2>1, LinkAssumption DEF LinkAssumption, Admin
  <2> QED BY <1>0, <2>1, <2>2
<1>3. CASE \/ \E s \in Sessions : CloseEvent(s) \/ ErrorEvent(s)
           \/ \E t \in Timers : Fire(t) \/ UNCHANGED vars
  <2>1. UNCHANGED <<admin, faults, syncVars>> /\ writes' \subseteq BindStatuses
    BY <1>3 DEF CloseEvent, ErrorEvent, Fire, TimerFires, vars
  <2> QED BY <1>0, <2>1
<1>4. CASE Sync
  <2>1. UNCHANGED <<admin, faults, writes>>
    BY <1>4 DEF Sync
  <2>2. SyncTypeOK'
    <3>1. CASE SyncRead \/ SyncWrite
      BY <3>1 DEF SyncRead, SyncWrite, SyncIdle
    <3>2. CASE SyncTest(Connected)
      <4>1. Verdict(Connected, sync.value) \in BindStatuses
        BY DEF Verdict
      <4>2. sync' \in [pc : {"idle", "read", "write"}, value : BindStatuses]
        BY <3>2, <4>1 DEF SyncTest, SyncIdle
      <4> QED BY <3>2, <4>2 DEF SyncTest
    <3> QED BY <1>4, <3>1, <3>2 DEF Sync
  <2> QED BY <1>0, <2>1, <2>2
<1>5. ASSUME NEW v \in BindStatuses, WriteLands(v) PROVE ColumnTypes'
  BY <1>0, <1>5 DEF WriteLands
<1> QED BY <1>1, <1>2, <1>3, <1>4, <1>5 DEF Next

\* At the start nothing is under way to the column.
LEMMA ColumnStarts == Init => ColumnTypes
  BY LinkAssumption DEF LinkAssumption, Init, ColumnTypes, SyncTypeOK, SyncInit, SyncIdle

-----------------------------------------------------------------------------
(* What is tracked *)

\* A step of a transceiver link either forgets what it tracked, or tracks a session
\* that is bound, or leaves what it tracked alone.
LEMMA TrackedStep ==
    ASSUME LinkOK, TrackedAlive, [Next]_vars
    PROVE  TrackedAlive'
<1> SUFFICES ASSUME mode = "trx", conn'["trx"] # NoSession
             PROVE  session'[conn'["trx"]].st = "bound"
  BY ModeStays DEF TrackedAlive, Tracked
<1> USE DEF LinkOK, LinkTypes
<1> DEFINE tracked == conn["trx"]
<1>1. CASE conn'["trx"] = tracked /\ \A s \in Sessions : s = tracked => session'[s].st = session[s].st
  BY <1>1 DEF TrackedAlive, Tracked
<1>2. ASSUME NEW c \in Calls, CallStep(c) PROVE session'[conn'["trx"]].st = "bound"
  <2>1. ASSUME NEW r \in BOOLEAN, StartConnect(c, r) PROVE FALSE
    BY <2>1 DEF StartConnect, NoConn
  <2>2. ASSUME Disconnect PROVE FALSE
    BY <2>2 DEF Disconnect, NoConn
  <2>3. ASSUME NEW s \in Sessions, BindOk(c, s) PROVE session'[conn'["trx"]].st = "bound"
    <3>1. /\ call[c].kind = "full" /\ call[c].leg = "trx"
      BY <2>3 DEF BindOk, LegsFit, MyLegs
    <3>2. conn' = [conn EXCEPT !["trx"] = s]
      BY <2>3, <3>1 DEF BindOk
    <3>3. session'[s].st = "bound"
      BY <2>3, <3>1 DEF BindOk
    <3> QED BY <3>2, <3>3
  <2>4. CASE \/ Reconnect(c) \/ ConnectFault(c) \/ ReadFault(c) \/ Rebind(c)
            \/ \E p \in BOOLEAN : BindFails(c, p)
    <3>1. UNCHANGED <<conn, session>>
      BY <2>1, <2>2, <2>4 DEF Reconnect, ConnectFault, ReadFault, Rebind, BindFails
    <3> QED BY <1>1, <3>1
  <2> QED BY <1>2, <2>3, <2>4 DEF CallStep
<1>3. ASSUME NEW s \in Sessions, CloseEvent(s) \/ ErrorEvent(s)
      PROVE  session'[conn'["trx"]].st = "bound"
  <2>1. session[s].leg = "trx" /\ session[s].handlers
    BY <1>3 DEF CloseEvent, ErrorEvent, LegsFit, MyLegs
  <2>2. conn' = [conn EXCEPT !["trx"] = NoSession]
    BY <1>3, <2>1 DEF CloseEvent, ErrorEvent, Untracked
  <2> QED BY <2>2
<1>4. CASE AdminUnbind \/ \E c \in Calls : AdminBind(c) \/ AdminRebind(c)
  <2>1. UNCHANGED <<conn, session>>
    BY <1>4 DEF AdminUnbind, AdminBind, AdminRebind, Disconnect, StartConnect, NoConn
  <2> QED BY <1>1, <2>1
<1>5. CASE LinkStays \/ \E t \in Timers : Fire(t)
  <2>1. UNCHANGED <<conn, session>>
    BY <1>5 DEF LinkStays, Fire, TimerFires
  <2> QED BY <1>1, <2>1
<1> QED BY <1>2, <1>3, <1>4, <1>5, RestingSteps DEF Next

-----------------------------------------------------------------------------
(* What is down is pursued *)

\* The call goes on to bind this leg.
WillBind(c, leg) ==
    /\ call[c].pc # "idle"
    /\ \/ call[c].pc = "wait" \/ call[c].leg = leg
       \/ call[c].kind = "full" /\ call[c].leg = FirstLeg

Restored(leg) ==
    (\E c \in Calls : WillBind(c, leg)) \/ timer # {} \/ CloseComing(leg)

\* Each leg that is down is on its way back, unless the link was ended or forgotten.
LegsPursued == \A leg \in MyLegs : stopped # "no" \/ Tracked(leg) \/ Restored(leg)

\* A call that starts to connect will bind every leg, whatever it forgets.
LEMMA StartPursues ==
    ASSUME LinkOK, NEW c \in Calls, NEW rebind \in BOOLEAN, StartConnect(c, rebind),
           mode' = mode
    PROVE  LegsPursued'
<1>1. call'[c].pc = "bind" /\ call'[c].kind = "full" /\ call'[c].leg = FirstLeg
  BY DEF StartConnect, Connecting, LinkOK, LinkTypes
<1>2. FirstLeg' = FirstLeg
  BY DEF FirstLeg
<1> QED BY <1>1, <1>2 DEF LegsPursued, Restored, WillBind

\* A call that ends has bound its leg, armed a timer or given up for good.
LEMMA CallPursues ==
    ASSUME LinkOK, LegsPursued, NEW c \in Calls, CallStep(c)
    PROVE  LegsPursued'
<1> USE DEF LinkOK, LinkTypes
<1>0. mode' = mode /\ MyLegs' = MyLegs /\ FirstLeg' = FirstLeg
  BY ModeStays DEF Next
<1>1. CASE StartConnect(c, TRUE) \/ StartConnect(c, FALSE) \/ Disconnect
  <2>1. CASE Disconnect
    BY <1>0, <2>1 DEF Disconnect, LegsPursued
  <2> QED BY <1>0, <1>1, <2>1, StartPursues
<1>2. CASE Reconnect(c) /\ call[c].kind # "full"
  <2>1. /\ call' = [call EXCEPT ![c].pc = "bind"] /\ call[c].pc = "read"
        /\ UNCHANGED <<conn, session, timer, stopped>>
    BY <1>2 DEF Reconnect
  <2>2. ASSUME NEW leg \in MyLegs, NEW d \in Calls, WillBind(d, leg) PROVE WillBind(d, leg)'
    BY <1>0, <2>1, <2>2 DEF WillBind
  <2> QED BY <1>0, <2>1, <2>2 DEF LegsPursued, Restored, Tracked, CloseComing
<1>3. CASE ConnectFault(c) \/ ReadFault(c)
  BY <1>0, <1>3 DEF ConnectFault, ReadFault, LegsPursued, Restored
<1>4. ASSUME NEW s \in Sessions, BindOk(c, s) PROVE LegsPursued'
  <2>1. /\ conn' = [conn EXCEPT ![call[c].leg] = s] /\ UNCHANGED <<timer, stopped>>
        /\ call[c].pc = "bind" /\ session[s].st = "free"
        /\ call' = [call EXCEPT ![c] = IF ~(call[c].kind = "full" /\ call[c].leg = "tx")
                                       THEN Idle ELSE [call[c] EXCEPT !.leg = "rx"]]
    BY <1>4 DEF BindOk
  <2>2. s # NoSession /\ \A l \in Legs : Tracked(l) => Tracked(l)'
    BY <2>1, LinkAssumption DEF LinkAssumption, Tracked
  <2>3. \A leg \in MyLegs : leg = call[c].leg => Tracked(leg)'
    BY <2>1, <2>2 DEF Tracked, MyLegs
  <2>4. ASSUME NEW leg \in MyLegs, NEW d \in Calls, WillBind(d, leg)
        PROVE  Tracked(leg)' \/ \E e \in Calls : WillBind(e, leg)'
    <3>1. CASE d # c
      BY <1>0, <2>1, <2>4, <3>1 DEF WillBind
    <3>2. CASE d = c /\ call[c].leg # leg
      <4>1. call[c].kind = "full" /\ call[c].leg = FirstLeg
        BY <2>1, <2>4, <3>2 DEF WillBind
      <4>2. call[c].leg = "tx" /\ leg = "rx"
        BY <3>2, <4>1, LinkAssumption DEF LinkAssumption, FirstLeg, MyLegs
      <4>3. call'[c].pc = "bind" /\ call'[c].leg = "rx"
        BY <2>1, <4>1, <4>2
      <4> QED BY <4>2, <4>3 DEF WillBind
    <3> QED BY <2>3, <3>1, <3>2
  <2>5. ASSUME NEW leg \in MyLegs, CloseComing(leg) PROVE CloseComing(leg)'
    <3>1. PICK t \in Sessions : session[t].leg = leg /\ session[t].st \in {"bound", "closing"}
                                /\ session[t].handlers
      BY <2>5 DEF CloseComing
    <3>2. t # s
      BY <2>1, <3>1
    <3>3. session'[t].leg = leg /\ session'[t].st = session[t].st /\ session'[t].handlers
      BY <1>4, <3>1, <3>2 DEF BindOk
    <3> QED BY <3>1, <3>3 DEF CloseComing
  <2>6. MyLegs \subseteq Legs
    BY DEF MyLegs
  <2> QED BY <1>0, <2>1, <2>2, <2>4, <2>5, <2>6 DEF LegsPursued, Restored
<1>5. ASSUME NEW p \in BOOLEAN, BindFails(c, p), ~Disconnect PROVE LegsPursued'
  <2>1. /\ timer' = timer \cup Rescheduled(p) \cup ({call[c].kind} \ {"full"})
        /\ stopped' = IF p THEN "ended" ELSE stopped
    BY <1>5 DEF BindFails
  <2>2. CASE p
    BY <2>1, <2>2 DEF LegsPursued
  <2>3. CASE ~p
    BY <2>1, <2>3 DEF LegsPursued, Restored, Rescheduled
  <2> QED BY <2>2, <2>3
<1> QED BY <1>1, <1>2, <1>3, <1>4, <1>5 DEF CallStep, Reconnect, Rebind, BindFails

\* A session that ends arms a timer, now or with the close event to come.
LEMMA SessionPursues ==
    ASSUME LinkOK, LegsPursued, NEW s \in Sessions, CloseEvent(s) \/ ErrorEvent(s)
    PROVE  LegsPursued'
<1> USE DEF LinkOK, LinkTypes
<1>0. mode' = mode /\ MyLegs' = MyLegs /\ FirstLeg' = FirstLeg
  BY ModeStays DEF Next
<1>1. CASE CloseEvent(s) /\ session[s].handlers
  <2>1. timer' # {}
    BY <1>1 DEF CloseEvent, Armed
  <2> QED BY <2>1 DEF LegsPursued, Restored
<1>2. CASE CloseEvent(s) /\ ~session[s].handlers
  <2>1. /\ UNCHANGED <<conn, timer, call, stopped>>
        /\ \A t \in Sessions \ {s} : session'[t] = session[t]
    BY <1>2 DEF CloseEvent
  <2>2. \A leg \in MyLegs : CloseComing(leg) => CloseComing(leg)'
    BY <1>2, <2>1 DEF CloseComing
  <2> QED BY <1>0, <2>1, <2>2 DEF LegsPursued, Restored, WillBind, Tracked
<1>3. CASE ErrorEvent(s)
  <2>1. /\ session[s].handlers /\ session' = [session EXCEPT ![s].st = "closing"]
        /\ conn' = [conn EXCEPT ![session[s].leg] = NoSession]
        /\ UNCHANGED <<timer, call, stopped>>
    BY <1>3 DEF ErrorEvent, Untracked
  <2>2. \A leg \in MyLegs : CloseComing(leg) => CloseComing(leg)'
    BY <2>1 DEF CloseComing
  <2>3. CloseComing(session[s].leg)'
    BY <2>1 DEF CloseComing
  <2>4. \A leg \in MyLegs : leg # session[s].leg /\ Tracked(leg) => Tracked(leg)'
    BY <2>1 DEF MyLegs, Tracked
  <2> QED BY <1>0, <2>1, <2>2, <2>3, <2>4 DEF LegsPursued, Restored, WillBind
<1> QED BY <1>1, <1>2, <1>3

\* A timer fires into a call for what it was armed for, or for everything.
LEMMA TimerPursues ==
    ASSUME LinkOK, LegsPursued, NEW t \in Timers, NEW c \in Calls, TimerFires(c, t)
    PROVE  LegsPursued'
<1> USE DEF LinkOK, LinkTypes
<1>0. mode' = mode /\ MyLegs' = MyLegs /\ FirstLeg' = FirstLeg
  BY ModeStays DEF Next, Fire
<1> DEFINE goal == IF t # "full" /\ Tracked(Other(t)) THEN t ELSE "full"
<1>1. /\ t \in timer /\ UNCHANGED <<conn, session, stopped>>
      /\ call' = [call EXCEPT ![c] = [pc |-> "read", kind |-> goal,
                     leg |-> IF goal = "full" THEN FirstLeg ELSE goal, rebind |-> FALSE]]
  BY DEF TimerFires
<1>2. call'[c].pc = "read" /\ call'[c].kind = goal
      /\ call'[c].leg = IF goal = "full" THEN FirstLeg ELSE goal
  BY <1>1
<1>3. ASSUME NEW leg \in MyLegs PROVE Tracked(leg)' \/ WillBind(c, leg)'
  <2>1. CASE goal = "full"
    BY <1>0, <1>2, <2>1 DEF WillBind
  <2>2. CASE goal # "full"
    <3>1. mode = "dual" /\ t \in {"tx", "rx"} /\ goal = t /\ Tracked(Other(t))
      BY <1>1, <2>2, LinkAssumption DEF LinkAssumption, LegsFit
    <3>2. leg = t \/ leg = Other(t)
      BY <3>1, OtherLeg DEF MyLegs
    <3>3. Tracked(Other(t))'
      BY <1>1, <3>1 DEF Tracked
    <3> HIDE DEF goal
    <3> QED BY <1>2, <2>2, <3>1, <3>2, <3>3 DEF WillBind
  <2> QED BY <2>1, <2>2
<1> QED BY <1>0, <1>3 DEF LegsPursued, Restored

\* Every step keeps a missing leg pursued by a timer, a connect or a closing session.
LEMMA PursuedStep == LinkOK /\ LegsPursued /\ [Next]_vars => LegsPursued'
<1> SUFFICES ASSUME LinkOK, LegsPursued, [Next]_vars PROVE LegsPursued'
  OBVIOUS
<1>0. mode' = mode /\ MyLegs' = MyLegs /\ FirstLeg' = FirstLeg
  BY ModeStays
<1>1. CASE LinkStays
  BY <1>0, <1>1 DEF LinkStays, LegsPursued, Restored, WillBind, Tracked, CloseComing
<1>2. CASE AdminUnbind \/ \E c \in Calls : AdminRebind(c)
  BY <1>0, <1>2 DEF AdminUnbind, AdminRebind, Disconnect, LegsPursued
<1>3. ASSUME NEW c \in Calls, AdminBind(c), ~Connected PROVE LegsPursued'
  BY <1>0, <1>3, StartPursues DEF AdminBind
<1> QED BY <1>1, <1>2, <1>3, CallPursues, SessionPursues, TimerPursues, RestingSteps
        DEF Next, Fire

\* The call that connects at the start binds every leg.
LEMMA PursuedStarts == Init => LegsPursued
<1> SUFFICES ASSUME Init PROVE LegsPursued
  OBVIOUS
<1>1. PICK c \in Calls : call[c].pc = "bind" /\ call[c].kind = "full" /\ call[c].leg = FirstLeg
  BY DEF Init, Connecting
<1> QED BY <1>1 DEF LegsPursued, Restored, WillBind

\* A link whose missing legs are pursued is pursued.
LEMMA LegsAreLink == LinkOK /\ LegsPursued => Pursued
<1> SUFFICES ASSUME LinkOK, LegsPursued PROVE Pursued
  OBVIOUS
<1>1. \A leg \in MyLegs : Restored(leg) => Busy \/ timer # {} \/ CloseComing(leg)
  BY DEF Restored, WillBind, Busy
<1>2. MyLegs \subseteq Legs /\ MyLegs # {} /\ (mode = "dual" => MyLegs = {"tx", "rx"})
  BY DEF MyLegs
<1> QED BY <1>1, <1>2, OtherLeg DEF LegsPursued, Pursued

-----------------------------------------------------------------------------
(* The party that binds to us *)

\* The sessions are numbered in the order they open, and 0 is none of them.
SessionsNumbered == PartySessions \subseteq Nat \ {0} /\ NoSession = 0

USE DEF Binds!syncVars

\* The steps of the job leave the sessions alone.
LEMMA BindsSyncType ==
    ASSUME Binds!TypeOK, Binds!Sync
    PROVE  Binds!SyncTypeOK' /\ UNCHANGED <<kind, peer, unheard, slot, graceTimers, graceTimer,
                                      unbinds, asked, starting>>
<1> USE DEF Binds!TypeOK, Binds!SyncTypeOK, Binds!BindStatuses, Binds!bindVars
<1>1. CASE Binds!SyncReads
  BY <1>1 DEF Binds!SyncReads, Binds!SyncRead
<1>2. CASE Binds!SyncTests
  <2>1. PICK c \in BOOLEAN : Binds!SyncTest(c)
    <3>1. PICK fresh \in Binds!RecentlyBound : Binds!SyncTest(Binds!SessionSeen(fresh))
      BY <1>2 DEF Binds!SyncTests
    <3>2. Binds!SessionSeen(fresh) \in BOOLEAN
      BY DEF Binds!SessionSeen
    <3> QED BY <3>1, <3>2
  <2>2. Binds!Verdict(c, sync.value) \in Binds!BindStatuses
    BY DEF Binds!Verdict
  <2>3. sync' \in [pc : {"idle", "read", "write"}, value : Binds!BindStatuses]
    BY <2>1, <2>2 DEF Binds!SyncTest, Binds!SyncIdle
  <2> QED BY <1>2, <2>1, <2>3 DEF Binds!SyncTests, Binds!SyncTest
<1>3. CASE Binds!SyncWrites
  BY <1>3 DEF Binds!SyncWrites, Binds!SyncWrite, Binds!SyncIdle
<1> QED BY <1>1, <1>2, <1>3 DEF Binds!Sync

\* Every step of a SERVER-mode session, of its grace timer and of the sync keeps the types.
LEMMA BindsTypeStep ==
    ASSUME Binds!TypeOK, [Binds!Next]_(Binds!vars)
    PROVE  Binds!TypeOK'
<1> USE DEF Binds!TypeOK, Binds!SyncTypeOK, Binds!BindStatuses
<1>1. ASSUME NEW s \in PartySessions, Binds!SessionStep(s) PROVE Binds!TypeOK'
  <2>1. CASE Binds!MarkBound(s)
    BY <2>1 DEF Binds!MarkBound
  <2>2. CASE Binds!Track(s) \/ Binds!Resolve(s) \/ Binds!CloseUnheard(s)
    BY <2>2 DEF Binds!Track, Binds!Resolve, Binds!CloseUnheard
  <2>3. CASE Binds!Close(s)
    BY <2>3 DEF Binds!Close
  <2>4. CASE Binds!GraceEnds(s)
    BY <2>4 DEF Binds!GraceEnds
  <2>5. CASE Binds!Unbind(s)
    BY <2>5 DEF Binds!Unbind
  <2> QED BY <1>1, <2>1, <2>2, <2>3, <2>4, <2>5 DEF Binds!SessionStep
<1>2. CASE Binds!AdminUnbinds \/ Binds!Ages \/ Binds!Started
  BY <1>2 DEF Binds!AdminUnbinds, Binds!Ages, Binds!Started, Binds!bindVars
<1>3. CASE Binds!Sync
  <2>1. /\ lastBind' \in {lastBind, NoSession} /\ recent' \in BOOLEAN
        /\ row' \in [bind : PartySessions \cup {NoSession}, recent : BOOLEAN]
    <3>1. CASE Binds!SyncReads
      BY <3>1 DEF Binds!SyncReads, Binds!bindVars
    <3>2. CASE Binds!SyncTests
      BY <3>2 DEF Binds!SyncTests, Binds!bindVars
    <3>3. CASE Binds!SyncWrites
      BY <3>3 DEF Binds!SyncWrites
    <3> QED BY <1>3, <3>1, <3>2, <3>3 DEF Binds!Sync
  <2> QED BY <1>3, <2>1, BindsSyncType
<1>4. CASE UNCHANGED Binds!vars
  BY <1>4 DEF Binds!vars, Binds!bindVars
<1> QED BY <1>1, <1>2, <1>3, <1>4 DEF Binds!Next

\* At the start no session has bound.
LEMMA BindsStart == Binds!Init => Binds!TypeOK
<1>1. Binds!Init => Binds!SyncTypeOK
  BY DEF Binds!Init, Binds!SyncInit, Binds!SyncIdle, Binds!SyncTypeOK, Binds!BindStatuses
<1>2. Binds!Init => graceTimer \in graceTimers \cup {NoSession}
              /\ row \in [bind : PartySessions \cup {NoSession}, recent : BOOLEAN]
  BY DEF Binds!Init
<1>3. Binds!Init => peer \in [PartySessions -> {"new", "marked", "tracked", "bound", "closed"}]
  BY DEF Binds!Init
<1> QED BY <1>1, <1>2, <1>3 DEF Binds!Init, Binds!TypeOK

\* Sessions are marked in the order they open; last_bind_time names the latest of
\* them, or the job; and what the slot holds was marked before.
InOrder ==
    /\ \A s, t \in PartySessions : s < t /\ peer[t] # "new" => peer[s] # "new"
    /\ lastBind # NoSession => \A s \in PartySessions : peer[s] # "new" => s <= lastBind
    /\ slot # NoSession => peer[slot] # "new"

\* Every step keeps the sessions in the order of their binds.
LEMMA InOrderStep ==
    ASSUME SessionsNumbered, Binds!TypeOK, InOrder, [Binds!Next]_(Binds!vars)
    PROVE  InOrder'
<1> USE DEF Binds!TypeOK
<1>1. ASSUME NEW s \in PartySessions, Binds!SessionStep(s) PROVE InOrder'
  <2>1. CASE Binds!MarkBound(s)
    <3>1. /\ peer[s] = "new" /\ \A t \in PartySessions : t < s => peer[t] # "new"
          /\ peer' = [peer EXCEPT ![s] = "marked"] /\ lastBind' = s /\ slot' = slot
      BY <2>1 DEF Binds!MarkBound
    <3>2. \A t \in PartySessions : peer[t] # "new" => t < s
      BY <3>1 DEF InOrder, SessionsNumbered
    <3> QED BY <3>1, <3>2 DEF InOrder, SessionsNumbered
  <2>2. CASE ~Binds!MarkBound(s)
    <3>1. /\ lastBind' = lastBind /\ slot' \in {slot, NoSession, s}
          /\ \A t \in PartySessions : peer'[t] = "new" <=> peer[t] = "new"
          /\ slot' = s => peer[s] # "new" \/ slot = s
      BY <1>1, <2>2 DEF Binds!SessionStep, Binds!Track, Binds!Resolve, Binds!CloseUnheard,
             Binds!Close, Binds!GraceEnds, Binds!Unbind
    <3> QED BY <3>1 DEF InOrder, SessionsNumbered
  <2> QED BY <2>1, <2>2
<1>2. CASE Binds!AdminUnbinds \/ Binds!Ages \/ Binds!Started \/ UNCHANGED Binds!vars
  BY <1>2 DEF Binds!AdminUnbinds, Binds!Ages, Binds!Started, Binds!vars, Binds!bindVars, InOrder
<1>3. CASE Binds!Sync
  <2>1. lastBind' \in {lastBind, NoSession}
    BY <1>3 DEF Binds!Sync, Binds!SyncReads, Binds!SyncTests, Binds!SyncWrites, Binds!bindVars
  <2> QED BY <1>3, <2>1, BindsSyncType DEF InOrder
<1> QED BY <1>1, <1>2, <1>3 DEF Binds!Next

\* The latest session is the last that was marked: see NoFalseUnbind of ServerBinds.
LEMMA InOrderUnbinds ==
    ASSUME SessionsNumbered, Binds!TypeOK, InOrder, NEW s \in PartySessions,
           Binds!Unbind(s), bindStatus' # bindStatus
    PROVE  slot <= s
<1>1. lastBind = s
  BY DEF Binds!Unbind, Binds!Guarded
<1> QED BY <1>1 DEF Binds!TypeOK, InOrder, SessionsNumbered

-----------------------------------------------------------------------------
(* The two of them *)

USE DEF linkOnly, bindsOnly, IsLink

\* A link, while the other module rests, or a party that binds to us, while the link
\* rests
LinkServes ==
    /\ IsLink /\ LinkOK /\ ColumnTypes /\ LegsPursued /\ TrackedAlive
    /\ kind = "none" /\ unbinds = {}
BindsServe == LinkRests /\ Binds!TypeOK

\* One of them is chosen at the start.
LEMMA PartyStarts == PartyInit => LinkServes \/ BindsServe
<1>1. Init /\ BindsRest => LinkServes
  <2>1. Init => IsLink
    BY LinkAssumption DEF LinkAssumption, Init
  <2>2. Init => TrackedAlive
    BY DEF Init, TrackedAlive, Tracked
  <2> QED BY <2>1, <2>2, LinkStarts, ColumnStarts, PursuedStarts DEF LinkServes, BindsRest
<1>2. Binds!Init /\ LinkRests => BindsServe
  BY BindsStart DEF BindsServe
<1> QED BY <1>1, <1>2 DEF PartyInit

\* The link takes its own steps,
LEMMA LinkGoesOn ==
    ASSUME LinkServes, [PartyNext]_<<linkOnly, bindsOnly, syncVars>>
    PROVE  LinkServes'
<1>1. [Next]_vars /\ UNCHANGED bindsOnly
  BY DEF LinkServes, PartyNext, vars
<1>2. mode' = mode
  BY <1>1, ModeStays
<1>3. ColumnTypes'
  BY <1>1, ColumnStep DEF LinkServes, LinkOK, TypeOK
<1> QED BY <1>1, <1>2, <1>3, LinkStep, TrackedStep, PursuedStep DEF LinkServes

\* ... and the party that binds to us takes those of its sessions and timers.
LEMMA BindsGoOn ==
    ASSUME BindsServe, [PartyNext]_<<linkOnly, bindsOnly, syncVars>>
    PROVE  BindsServe' /\ [Binds!Next]_(Binds!vars)
<1>1. [Binds!Next]_(Binds!vars) /\ UNCHANGED linkOnly
  BY DEF BindsServe, LinkRests, PartyNext, Binds!vars, Binds!bindVars, Binds!syncVars
<1>2. LinkRests'
  BY <1>1 DEF BindsServe, LinkRests
<1> QED BY <1>1, <1>2, BindsTypeStep DEF BindsServe

\* So one of them serves at all times.
LEMMA PartyHolds == PartySpec => [](LinkServes \/ BindsServe)
<1>1. (LinkServes \/ BindsServe) /\ [PartyNext]_<<linkOnly, bindsOnly, syncVars>>
          => (LinkServes \/ BindsServe)'
  BY LinkGoesOn, BindsGoOn
<1> QED BY <1>1, PartyStarts, PTL DEF PartySpec

\* The state of a link, of its calls and of the column stays in range, and so does that
\* of the sessions and timers of a party that binds to us.
THEOREM TypeCorrect == PartySpec => [](IF IsLink THEN TypeOK ELSE Binds!TypeOK)
<1>1. LinkServes \/ BindsServe => IF IsLink THEN TypeOK ELSE Binds!TypeOK
  BY DEF LinkServes, BindsServe, LinkRests, TypeOK, LinkOK
<1> QED BY <1>1, PartyHolds, PTL

\* A link that is down, and the lost leg of a TX_RX link, is pursued: however calls,
\* timers, closes and the administrator overlap, an attempt is under way, a timer is
\* armed or a close is coming, unless the link was ended on purpose or a reconnect
\* found no database connection.
THEOREM PursuedHolds == PartySpec => []Pursued
<1>1. LinkServes \/ BindsServe => Pursued
  BY LegsAreLink DEF LinkServes, BindsServe, LinkRests, Pursued
<1> QED BY <1>1, PartyHolds, PTL

\* Messages are never sent into a transceiver session that has reported its end.
THEOREM TrackedAliveHolds == PartySpec => []TrackedAlive
<1>1. LinkServes \/ BindsServe => TrackedAlive
  BY DEF LinkServes, BindsServe, LinkRests, TrackedAlive
<1> QED BY <1>1, PartyHolds, PTL

\* A party that binds to us binds in the order of its sessions.
LEMMA OrderHolds ==
    ASSUME SessionsNumbered PROVE PartySpec => [](LinkServes \/ (BindsServe /\ InOrder))
<1>1. PartyInit => LinkServes \/ (BindsServe /\ InOrder)
  <2>1. Binds!Init => InOrder
    BY DEF Binds!Init, InOrder
  <2>2. Init /\ BindsRest => InOrder
    BY DEF BindsRest, InOrder
  <2> QED BY <2>1, <2>2, PartyStarts DEF PartyInit
<1>2. (LinkServes \/ (BindsServe /\ InOrder)) /\ [PartyNext]_<<linkOnly, bindsOnly, syncVars>>
          => (LinkServes \/ (BindsServe /\ InOrder))'
  BY LinkGoesOn, BindsGoOn, InOrderStep DEF BindsServe
<1> QED BY <1>1, <1>2, PTL DEF PartySpec

\* The late end of an old session, by its close, its grace timer or its guarded
\* UPDATE, never marks a party UNBOUND that a later session connects: boundAt is
\* the bind time of the latest session, and the slot holds no later one.
THEOREM NoFalseUnbindHolds ==
    ASSUME SessionsNumbered PROVE PartySpec => NoFalseUnbind
<1> DEFINE Late == \A s \in PartySessions :
                      Binds!Unbind(s) /\ bindStatus' # bindStatus => slot <= s
<1>1. LinkServes => Late
  BY DEF LinkServes, Binds!Unbind
<1>2. BindsServe /\ InOrder => Late
  BY InOrderUnbinds DEF BindsServe
<1> HIDE DEF Late
<1>3. PartySpec => [][Late]_(Binds!vars)
  BY <1>1, <1>2, OrderHolds, PTL
<1> QED BY <1>3 DEF NoFalseUnbind, Binds!NoFalseUnbind, Late
===============================================================================
