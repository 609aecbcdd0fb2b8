--------------------------- MODULE ConfigRestore ---------------------------
(***************************************************************************)
(* csr config backup and restore of /etc/cesar.  Restore stages a copy of  *)
(* the backup beside the live tree, moves the live one aside, activates    *)
(* the copy and drops the old one; every step can fail, and the command    *)
(* can be killed at every step and be called again.  The names of staging  *)
(* and of retired end with the time: two calls in one second, which would  *)
(* share them, are not modelled.                                           *)
(***************************************************************************)
EXTENDS Naturals

CONSTANTS
    Tree,       \* the configurations somebody writes
    NoTree,     \* there is no such directory
    MaxCalls    \* bound: the restores and backups of a behaviour

ASSUME TreeAssumption ==
    NoTree \notin [of : Tree, part : BOOLEAN] /\ MaxCalls \in Nat

VARIABLES
    etc,        \* /etc/cesar
    staging, retired,   \* the two siblings of the call that runs
    backup,     \* the backup directory
    rpc,        \* where restore is
    before,     \* history: the last /etc/cesar there was before the call
    wanted,     \* history: the backup it restores
    kept,       \* whole trees that killed calls have left beside /etc/cesar
    calls

restoreVars ==
    <<etc, staging, retired, backup, rpc, before, wanted, kept, calls>>

\* A tree can be all of a configuration, or only a part of it.
Whole(t) == [of |-> t, part |-> FALSE]
Part(t) == [t EXCEPT !.part = TRUE]

RestoreInit ==
    /\ etc \in {Whole(t) : t \in Tree}
    /\ backup \in {Whole(t) : t \in Tree} \union {NoTree}
    /\ staging = NoTree /\ retired = NoTree
    /\ rpc = "idle" /\ before = etc /\ wanted = etc
    /\ kept = {} /\ calls = 0

Return == rpc' = "idle"
Then(label) == rpc' = label

\* cp -a; when it fails, the regular files one by one, so that the directory
\* with the services and the allowlist is left out.
BackupConfig ==
    /\ rpc = "idle" /\ etc # NoTree /\ calls < MaxCalls
    /\ backup' \in {etc, Part(etc)}
    /\ calls' = calls + 1
    /\ UNCHANGED <<etc, staging, retired, rpc, before, wanted, kept>>

CallRestore ==
    /\ rpc = "idle" /\ backup # NoTree /\ calls < MaxCalls
    /\ before' = IF etc = NoTree THEN before ELSE etc
    /\ wanted' = backup
    /\ staging' = NoTree /\ retired' = NoTree
    /\ kept' = kept \union {t \in {staging, retired} \ {NoTree} : ~t.part}
    /\ calls' = calls + 1
    /\ Then("stage")
    /\ UNCHANGED <<etc, backup>>

\* The part a failed cp has copied stays.
Stage ==
    /\ rpc = "stage"
    /\ \/ staging' = wanted /\ Then("aside")
       \/ staging' \in {NoTree, Part(wanted)} /\ Return
    /\ UNCHANGED <<etc, retired, backup, before, wanted, kept, calls>>

\* Mutant: the live tree is removed, not moved.
RemoveLive ==
    /\ rpc = "aside"
    /\ \/ etc' = NoTree /\ Then("activate") /\ UNCHANGED <<staging, retired>>
       \/ etc # NoTree /\ staging' = NoTree /\ Return /\ UNCHANGED <<etc, retired>>
    /\ UNCHANGED <<backup, before, wanted, kept, calls>>

\* It is no error that there is no /etc/cesar.
MoveAside ==
    /\ rpc = "aside"
    /\ \/ retired' = etc /\ etc' = NoTree /\ Then("activate") /\ UNCHANGED staging
       \/ etc # NoTree /\ staging' = NoTree /\ Return /\ UNCHANGED <<etc, retired>>
    /\ UNCHANGED <<backup, before, wanted, kept, calls>>

Activate ==
    /\ rpc = "activate"
    /\ \/ etc' = staging /\ staging' = NoTree /\ Then("drop")
       \/ Then("putBack") /\ UNCHANGED <<etc, staging>>
    /\ UNCHANGED <<retired, backup, before, wanted, kept, calls>>

\* The result of this rename is not looked at.
PutBack ==
    /\ rpc = "putBack"
    /\ \/ retired # NoTree /\ etc' = retired /\ retired' = NoTree
       \/ UNCHANGED <<etc, retired>>
    /\ staging' = NoTree
    /\ Return
    /\ UNCHANGED <<backup, before, wanted, kept, calls>>

\* remove_dir_all takes one entry after the other, and can fail.
DropOld ==
    /\ rpc = "drop"
    /\ \/ retired # NoTree /\ retired' = Part(retired) /\ UNCHANGED rpc
       \/ retired' = NoTree /\ Return
       \/ UNCHANGED retired /\ Return
    /\ UNCHANGED <<etc, staging, backup, before, wanted, kept, calls>>

KillRestore ==
    /\ rpc # "idle"
    /\ Return
    /\ UNCHANGED <<etc, staging, retired, backup, before, wanted, kept, calls>>

RestoreNext ==
    \/ BackupConfig \/ CallRestore \/ Stage \/ MoveAside \/ Activate \/ PutBack
    \/ DropOld \/ KillRestore

RestoreSpec == RestoreInit /\ [][RestoreNext]_restoreVars

-----------------------------------------------------------------------------
\* Whatever fails, and wherever restore is killed, /etc/cesar is the tree it
\* was or the tree in the backup, never a mix or a part of them; and while it
\* is neither, over any number of calls, the last one is whole beside it.
ConfigIsNotLost ==
    /\ etc \in {before, wanted, NoTree}
    /\ etc = NoTree =>
         before \in {retired} \union kept \/ before.part
=============================================================================
