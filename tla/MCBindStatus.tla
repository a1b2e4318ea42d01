----------------------------- MODULE MCBindStatus -----------------------------
(***************************************************************************)
(* bind_status of one party of each kind: a supplier we connect to         *)
(* (SupplierLink), or a client or SERVER-mode supplier that connects to us *)
(* (ServerBinds).  They share the column and the job; which of the two it  *)
(* is, is chosen at the start, and the variables of the other one rest.    *)
(***************************************************************************)
EXTENDS SupplierLink

CONSTANTS PartySessions, Kinds

VARIABLES kind, peer, unheard, slot, lastBind, recent, graceTimers, graceTimer,
          unbinds, asked, row, starting

Binds == INSTANCE ServerBinds WITH Sessions <- PartySessions

linkOnly  == <<mode, linkVars, writes, admin, faults>>
bindsOnly == <<kind, peer, unheard, slot, lastBind, recent, graceTimers, graceTimer,
               unbinds, asked, row, starting>>

IsLink == mode # "none"

LinkRests ==
    /\ mode = "none" /\ conn = NoConn /\ timer = {} /\ writes = {} /\ stopped = "ended"
    /\ session = [s \in Sessions |-> NotOpen("free")]
    /\ call = [c \in Calls |-> Idle]
    /\ admin = 0 /\ faults = 0

BindsRest ==
    /\ kind = "none" /\ peer = [s \in PartySessions |-> "new"] /\ unheard = {}
    /\ slot = NoSession /\ lastBind = NoSession /\ recent = FALSE
    /\ graceTimers = {} /\ graceTimer = NoSession /\ unbinds = {}
    /\ asked = FALSE /\ row = [bind |-> NoSession, recent |-> FALSE] /\ starting = TRUE

PartyInit == (Init /\ BindsRest) \/ (Binds!Init /\ LinkRests)

PartyNext ==
    \/ IsLink /\ Next /\ UNCHANGED bindsOnly
    \/ ~IsLink /\ Binds!Next /\ UNCHANGED linkOnly

\* The fairness of the one that rests asks for nothing: none of its steps is
\* enabled but the job's, which the other one takes.
PartySpec ==
    PartyInit /\ [][PartyNext]_<<linkOnly, bindsOnly, syncVars>> /\ Fairness /\ Binds!Fairness

\* One request and one fault for a transceiver; none in TX_RX mode.
OncePerTrx == [m \in Modes |-> IF m = "trx" THEN 1 ELSE 0]

\* The end of an old session never marks a party UNBOUND that a later session
\* connects (handleCleanup, its grace timer, the boundAt guard): see ServerBinds.
NoFalseUnbind == Binds!NoFalseUnbind

\* The column of either kind of party becomes true in the end, whatever closes, grace
\* timers, updates that overtake each other and the job's stale writes did: see
\* SupplierLink and ServerBinds.
ColumnHeals == LinkHeals /\ Binds!ColumnHeals
=============================================================================
