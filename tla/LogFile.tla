------------------------------ MODULE LogFile ------------------------------
(***************************************************************************)
(* The log: every process has a CesarLogger with an append handle of its   *)
(* own, checks the size of the file that has the name, and renames it to   *)
(* `<log>.1` when it is over the limit; other commands clear or follow it. *)
(* An entry is a number, and the size of a file the number of its entries. *)
(***************************************************************************)
EXTENDS Integers, Sequences

CONSTANTS
    Logger,         \* the processes that write
    LogMaxBytes,    \* LOG_MAX_BYTES
    MaxEntries      \* bound: the entries written in a behaviour

ASSUME LogAssumption == LogMaxBytes \in Nat /\ MaxEntries \in Nat

VARIABLES
    inode,      \* the contents of the files, by number; 1 is the first
    live,       \* the number of the file at LOG_PATH, 0 if there is none
    rotated,    \* the number of the file at `<log>.1`, 0 if there is none
    handle,     \* the file each logger appends to
    lpc,        \* where each logger is in append
    written,    \* the entries so far
    gap,        \* history: entries were cleared or moved away since the last
                \* rotation by append
    lastLen,    \* what a follower has read of the file
    shown       \* the last entry it has printed

logVars == <<inode, live, rotated, handle, lpc, written, gap, lastLen, shown>>

LogInit ==
    /\ inode = << <<>> >> /\ live = 1 /\ rotated = 0
    /\ handle = [w \in Logger |-> 1]
    /\ lpc = [w \in Logger |-> "idle"]
    /\ written = 0 /\ gap = FALSE
    /\ lastLen = 0 /\ shown = 0

Size == IF live = 0 THEN 0 ELSE Len(inode[live])
Goto(w, label) == lpc' = [lpc EXCEPT ![w] = label]

\* append looks at the size of whatever has the name.
CheckSize(w) ==
    /\ lpc[w] = "idle" /\ written < MaxEntries
    /\ Goto(w, IF Size > LogMaxBytes THEN "rotate" ELSE "write")
    /\ UNCHANGED <<inode, live, rotated, handle, written, gap, lastLen, shown>>

\* Mutant: the first rotated file stays.
RotateOnce(w) ==
    /\ lpc[w] = "rotate"
    /\ IF live = 0 THEN UNCHANGED <<live, rotated, gap>>
       ELSE /\ live' = 0 /\ gap' = FALSE
            /\ rotated' = IF rotated = 0 THEN live ELSE rotated
    /\ Goto(w, "open")
    /\ UNCHANGED <<inode, handle, written, lastLen, shown>>

\* The rename fails if another process has just done it.
RotateLog(w) ==
    /\ lpc[w] = "rotate"
    /\ IF live = 0 THEN UNCHANGED <<live, rotated, gap>>
       ELSE live' = 0 /\ rotated' = live /\ gap' = FALSE
    /\ Goto(w, "open")
    /\ UNCHANGED <<inode, handle, written, lastLen, shown>>

\* open_append: the file that has the name, or a new one.
OpenAppend(w) ==
    /\ lpc[w] = "open"
    /\ IF live = 0
       THEN inode' = Append(inode, <<>>) /\ live' = Len(inode) + 1
       ELSE UNCHANGED <<inode, live>>
    /\ handle' = [handle EXCEPT ![w] = live']
    /\ Goto(w, "write")
    /\ UNCHANGED <<rotated, written, gap, lastLen, shown>>

WriteEntry(w) ==
    /\ lpc[w] = "write"
    /\ written' = written + 1
    /\ inode' = [inode EXCEPT ![handle[w]] = Append(@, written')]
    /\ Goto(w, "idle")
    /\ UNCHANGED <<live, rotated, handle, gap, lastLen, shown>>

\* csr log clear and csl --clear, in a process of its own: the file is
\* truncated, or made if another process has just renamed it.
TruncateLog ==
    /\ live # 0 /\ Size > 0
    /\ inode' = [inode EXCEPT ![live] = <<>>]
    /\ UNCHANGED live

MakeLog ==
    /\ live = 0
    /\ inode' = Append(inode, <<>>)
    /\ live' = Len(inode) + 1

ClearLog ==
    /\ TruncateLog \/ MakeLog
    /\ gap' = TRUE
    /\ UNCHANGED <<rotated, handle, lpc, written, lastLen, shown>>

\* csr log rotate gives the file a name with the time in it; its clear_log is
\* a ClearLog.
RotateByHand ==
    /\ live # 0 /\ Size > 0
    /\ live' = 0 /\ gap' = TRUE
    /\ UNCHANGED <<inode, rotated, handle, lpc, written, lastLen, shown>>

\* Mutant: no such test.
NoResync == lastLen
\* log follow, service watch and socket trace, once a second: a file that is
\* shorter than what was read is another one, or was truncated.
Resync == IF Size < lastLen THEN 0 ELSE lastLen
Follow ==
    /\ live # 0 /\ Size # lastLen
    /\ lastLen' = IF Size > Resync THEN Size ELSE Resync
    /\ shown' = IF Size > Resync THEN inode[live][Size] ELSE shown
    /\ UNCHANGED <<inode, live, rotated, handle, lpc, written, gap>>

LoggerStep(w) == CheckSize(w) \/ RotateLog(w) \/ OpenAppend(w) \/ WriteEntry(w)

LogNext ==
    (\E w \in Logger : LoggerStep(w)) \/ ClearLog \/ RotateByHand \/ Follow

LogSpec == LogInit /\ [][LogNext]_logVars

-----------------------------------------------------------------------------
Entries(i) == IF i = 0 THEN <<>> ELSE inode[i]

\* With one logger, rotation loses nothing but what is older than `<log>.1`:
\* that file and the live one, one after the other, end with the last entry
\* and leave none out.
HistoryTail ==
    LET tail == Entries(rotated) \o Entries(live)
    IN  ~gap =>
          \A i \in 1..Len(tail) : tail[i] = written - Len(tail) + i

\* "All log output goes to /var/log/cesar.md": what append writes is, at that
\* moment, in the file of that name.
OutputGoesToTheLog ==
    [][\A w \in Logger : WriteEntry(w) => handle[w] = live]_logVars
=============================================================================
