--------------------------- MODULE ChildContract ---------------------------
(***************************************************************************)
(* What an init process owes its children: every process it becomes the    *)
(* parent of and that dies is waited for, exactly once, until the machine  *)
(* goes down.  Nothing is said of how the deaths are noticed.              *)
(***************************************************************************)
CONSTANT Child

VARIABLES
    stage,  \* what has become of each child
    down    \* the machine went down

contractVars == <<stage, down>>

TypeOK ==
    /\ stage \in [Child -> {"unborn", "live", "dead", "collected"}]
    /\ down \in BOOLEAN

Init ==
    /\ stage \in [Child -> {"unborn", "live"}]
    /\ down = FALSE

Move(c, from, to) ==
    /\ ~down
    /\ stage[c] = from
    /\ stage' = [stage EXCEPT ![c] = to]
    /\ UNCHANGED down

Born(c) == Move(c, "unborn", "live")
Collect(c) == Move(c, "dead", "collected")

\* One signal to a group of processes may be the end of several.
Die(cs) ==
    /\ ~down
    /\ \A c \in cs : stage[c] = "live"
    /\ stage' = [c \in Child |-> IF c \in cs THEN "dead" ELSE stage[c]]
    /\ UNCHANGED down

GoDown == down' = TRUE /\ UNCHANGED stage

Next ==
    \/ \E c \in Child : Born(c) \/ Collect(c)
    \/ \E cs \in SUBSET Child : Die(cs)
    \/ GoDown

Safety == Init /\ [][Next]_contractVars

Spec == Safety /\ \A c \in Child : WF_contractVars(Collect(c))
=============================================================================
