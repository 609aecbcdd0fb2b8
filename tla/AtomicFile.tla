----------------------------- MODULE AtomicFile -----------------------------
(***************************************************************************)
(* atomic_write: a new file is written under a temporary name, synced, and *)
(* renamed over the target.  Several processes may write one target, each  *)
(* has a temporary name of its own, every system call may fail, a process  *)
(* may be killed and the machine may lose power between any two of them.   *)
(***************************************************************************)
CONSTANTS
    Writer,     \* the processes
    Value,      \* the contents they write
    Torn        \* an empty or half-written content

ASSUME TornAssumption == Torn \notin Value

VARIABLES
    target,     \* the file that has the name, as a reader finds it
    entry,      \* the file that has the name on the disk
    tmp,        \* the file that has the temporary name of each writer
    wpc,        \* where each writer is
    bytes       \* what it writes

fileVars == <<target, entry, tmp, wpc, bytes>>

\* A file: its content, and whether all of it is on the disk.
File == [content : Value \union {Torn}, synced : BOOLEAN]
Empty == [content |-> Torn, synced |-> FALSE]

FileInit ==
    /\ \E v \in Value : target = [content |-> v, synced |-> TRUE]
    /\ entry = target
    /\ tmp = [w \in Writer |-> Empty]
    /\ wpc = [w \in Writer |-> "idle"]
    /\ bytes \in [Writer -> Value]

At(w, label) == wpc[w] = label
Moved(w, label) == wpc' = [wpc EXCEPT ![w] = label]

CreateTmp(w) ==
    /\ At(w, "idle")
    /\ tmp' = [tmp EXCEPT ![w] = Empty]
    /\ \E v \in Value : bytes' = [bytes EXCEPT ![w] = v]
    /\ Moved(w, "write")
    /\ UNCHANGED <<target, entry>>

WriteAll(w) ==
    /\ At(w, "write")
    /\ tmp' = [tmp EXCEPT ![w].content = bytes[w]]
    /\ Moved(w, "sync")
    /\ UNCHANGED <<target, entry, bytes>>

\* Mutant: the new file is renamed before it is synced.
SyncNothing(w) ==
    /\ At(w, "sync")
    /\ Moved(w, "rename")
    /\ UNCHANGED <<target, entry, tmp, bytes>>

SyncAll(w) ==
    /\ At(w, "sync")
    /\ tmp' = [tmp EXCEPT ![w].synced = TRUE]
    /\ Moved(w, "rename")
    /\ UNCHANGED <<target, entry, bytes>>

Rename(w) ==
    /\ At(w, "rename")
    /\ target' = tmp[w]
    /\ tmp' = [tmp EXCEPT ![w] = Empty]
    /\ Moved(w, "syncDir")
    /\ UNCHANGED <<entry, bytes>>

\* The result of syncing the directory is ignored: it may have failed.
SyncDir(w) ==
    /\ At(w, "syncDir")
    /\ \/ entry' = target
       \/ UNCHANGED entry
    /\ Moved(w, "idle")
    /\ UNCHANGED <<target, tmp, bytes>>

\* A step fails: the temporary file is removed.  Or the process is killed, and
\* the file stays until the next process of that number truncates it.
GiveUp(w) ==
    /\ wpc[w] \in {"write", "sync", "rename"}
    /\ Moved(w, "idle")
    /\ \/ tmp' = [tmp EXCEPT ![w] = Empty]
       \/ UNCHANGED tmp
    /\ UNCHANGED <<target, entry, bytes>>

\* The kernel writes the directory out on its own.
Flush == entry' = target /\ UNCHANGED <<target, tmp, wpc, bytes>>

\* The name refers to what it referred to on the disk, and a file that was not
\* synced has lost some of its content, or not.
PowerLoss ==
    /\ \/ target' = entry
       \/ ~entry.synced /\ target' = [entry EXCEPT !.content = Torn]
    /\ tmp' = [w \in Writer |-> Empty]
    /\ wpc' = [w \in Writer |-> "idle"]
    /\ UNCHANGED <<entry, bytes>>

WriterStep(w) ==
    \/ CreateTmp(w) \/ WriteAll(w) \/ SyncAll(w) \/ Rename(w) \/ SyncDir(w)
    \/ GiveUp(w)

FileNext == (\E w \in Writer : WriterStep(w)) \/ Flush \/ PowerLoss

FileSpec == FileInit /\ [][FileNext]_fileVars

-----------------------------------------------------------------------------
FileTypeOK ==
    /\ target \in File /\ entry \in File
    /\ tmp \in [Writer -> File]
    /\ wpc \in [Writer -> {"idle", "write", "sync", "rename", "syncDir"}]
    /\ bytes \in [Writer -> Value]

\* A file gets the name only whole and synced.
WholeAndSynced ==
    /\ target.content \in Value /\ target.synced
    /\ entry.content \in Value /\ entry.synced
    /\ \A w \in Writer : At(w, "sync") => tmp[w].content = bytes[w]
    /\ \A w \in Writer : At(w, "rename") =>
          tmp[w] = [content |-> bytes[w], synced |-> TRUE]

Cell == INSTANCE DurableCell
            WITH now <- target.content, durable <- entry.content

\* Whatever fails and whenever the machine stops, the file has one of the
\* contents that were written, whole (atomic_write).
ReplacesAtomically == Cell!CellSpec
=============================================================================
