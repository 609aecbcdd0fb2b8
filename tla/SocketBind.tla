----------------------------- MODULE SocketBind -----------------------------
(***************************************************************************)
(* Listening sockets.  At boot PID 1 binds one for each service that has a *)
(* Socket, one after the other, and keeps the descriptor for the children  *)
(* of the service; csr socket create and activate bind one and exit, and   *)
(* csr socket destroy removes the file.  bind_unix_socket binds to a       *)
(* temporary name beside the path, listens, and renames onto the path.     *)
(* A socket is named by the service or the csr process it was made for.    *)
(***************************************************************************)

CONSTANTS
    Claimant,   \* the services with a Socket
    PathOf,     \* the path of each
    Csr,        \* the processes of csr socket create and activate
    NoSocket    \* there is no file

ASSUME SocketAssumption == Claimant \intersect Csr = {} /\ NoSocket \notin Claimant \union Csr

VARIABLES
    file,       \* the socket that has each path
    listening,  \* the sockets that are open and listen
    temp,       \* the sockets whose temporary name exists
    bpc,        \* where the binding of each is
    listenPath, \* what it is bound for
    registered, \* SERVICE_LISTEN_FDS: the services with a descriptor
    seenPaths,  \* the paths the boot has met
    touched     \* history: csr has replaced or removed what was there

socketVars ==
    <<file, listening, temp, bpc, listenPath, registered, seenPaths, touched>>

Owner == Claimant \union Csr
SocketPath == {PathOf[s] : s \in Claimant}

SocketInit ==
    /\ file = [p \in SocketPath |-> NoSocket]
    /\ listening = {} /\ temp = {} /\ registered = {}
    /\ seenPaths = {} /\ touched = {}
    /\ bpc = [o \in Owner |-> "new"]
    /\ listenPath \in [Owner -> SocketPath]
    /\ \A s \in Claimant : listenPath[s] = PathOf[s]

Moves(o, from, to) == bpc[o] = from /\ bpc' = [bpc EXCEPT ![o] = to]
InCall == {"bind", "listen", "rename"}

-----------------------------------------------------------------------------
\* Mutant: no such test.
ClaimAlways(s) ==
    /\ \A t \in Claimant : bpc[t] \notin InCall
    /\ Moves(s, "new", "bind")
    /\ seenPaths' = seenPaths \union {PathOf[s]}
    /\ UNCHANGED <<file, listening, temp, listenPath, registered, touched>>

\* The loop over the services: the second claimant of a path is skipped.
Claim(s) ==
    /\ \A t \in Claimant : bpc[t] \notin InCall
    /\ IF PathOf[s] \in seenPaths THEN Moves(s, "new", "skipped")
                                  ELSE Moves(s, "new", "bind")
    /\ seenPaths' = seenPaths \union {PathOf[s]}
    /\ UNCHANGED <<file, listening, temp, listenPath, registered, touched>>

\* create binds in any case, activate only where nothing is.
CallCsr(c) ==
    /\ \/ Moves(c, "new", "bind")
       \/ file[listenPath[c]] # NoSocket /\ Moves(c, "new", "gone")
    /\ UNCHANGED <<file, listening, temp, listenPath, registered, seenPaths, touched>>

\* A file that has the temporary name is removed, whether bind fails or not.
BindTemp(o) ==
    /\ \/ temp' = temp \union {o} /\ Moves(o, "bind", "listen")
       \/ temp' = temp \ {o} /\ Moves(o, "bind", "failed")
    /\ UNCHANGED <<file, listening, listenPath, registered, seenPaths, touched>>

Listen(o) ==
    /\ \/ Moves(o, "listen", "rename") /\ listening' = listening \union {o}
          /\ UNCHANGED temp
       \/ Moves(o, "listen", "failed") /\ temp' = temp \ {o}
          /\ UNCHANGED listening
    /\ UNCHANGED <<file, listenPath, registered, seenPaths, touched>>

\* Ok is followed, in PID 1, by register_listen_fd; in csr, by the exit.
Publish(o) ==
    /\ temp' = temp \ {o}
    /\ \/ /\ Moves(o, "rename", "bound")
          /\ file' = [file EXCEPT ![listenPath[o]] = o]
          /\ registered' = registered \union ({o} \intersect Claimant)
          /\ touched' = IF o \in Csr THEN touched \union {listenPath[o]} ELSE touched
          /\ UNCHANGED listening
       \/ /\ Moves(o, "rename", "failed")
          /\ listening' = listening \ {o}
          /\ UNCHANGED <<file, registered, touched>>
    /\ UNCHANGED <<listenPath, seenPaths>>

\* A csr process ends, or is killed in the middle of the call.
ExitCsr(c) ==
    /\ bpc[c] \in InCall \union {"bound", "failed"}
    /\ Moves(c, bpc[c], IF bpc[c] \in InCall THEN "killed" ELSE "gone")
    /\ listening' = listening \ {c}
    /\ UNCHANGED <<file, temp, listenPath, registered, seenPaths, touched>>

DestroySocket(p) ==
    /\ file[p] # NoSocket
    /\ file' = [file EXCEPT ![p] = NoSocket]
    /\ touched' = touched \union {p}
    /\ UNCHANGED <<listening, temp, bpc, listenPath, registered, seenPaths>>

SocketNext ==
    \/ \E s \in Claimant : Claim(s)
    \/ \E c \in Csr : CallCsr(c) \/ ExitCsr(c)
    \/ \E o \in Owner : BindTemp(o) \/ Listen(o) \/ Publish(o)
    \/ \E p \in SocketPath : DestroySocket(p)

SocketSpec == SocketInit /\ [][SocketNext]_socketVars

-----------------------------------------------------------------------------
\* What has a path can be connected to, unless the csr process that made it is
\* gone: no path is ever without its listener between two steps of a bind.
PublishedListens ==
    \A p \in SocketPath : file[p] \in Owner =>
        file[p] \in listening \/ bpc[file[p]] = "gone"

\* The socket a service was given is the one at its path, as long as csr keeps
\* off that path: no other service steals it.
NotStolen ==
    \A s \in registered : file[PathOf[s]] = s \/ PathOf[s] \in touched

\* No temporary file outlives a call, except that of a killed process.
NoStrayTemp == \A o \in temp : bpc[o] \in InCall \union {"killed"}

ServiceSocketsKept == PublishedListens /\ NotStolen /\ NoStrayTemp
=============================================================================
