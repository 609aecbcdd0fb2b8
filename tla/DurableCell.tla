---------------------------- MODULE DurableCell ----------------------------
(***************************************************************************)
(* What atomic_write promises of the file it replaces: whoever opens it,   *)
(* at any moment and after any crash, finds one of the contents that were  *)
(* stored, and a crash goes back at most to the last durable one.          *)
(***************************************************************************)
CONSTANT Value

VARIABLES
    now,        \* what a reader of the file finds
    durable     \* what he finds after a crash

cellVars == <<now, durable>>

CellInit == now \in Value /\ durable = now

Store(v) == now' = v /\ UNCHANGED durable
MakeDurable == durable' = now /\ UNCHANGED now
Crash == now' = durable /\ UNCHANGED durable

CellNext == (\E v \in Value : Store(v)) \/ MakeDurable \/ Crash

CellSpec == CellInit /\ [][CellNext]_cellVars
=============================================================================
