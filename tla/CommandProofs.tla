--------------------------- MODULE CommandProofs ---------------------------
(***************************************************************************)
(* Proofs about what the processes of csr share with each other and with   *)
(* PID 1: the tree of the configuration, the control socket, the paths of  *)
(* the listening sockets, and the unit files that csr service convert      *)
(* writes.                                                                 *)
(***************************************************************************)
EXTENDS ConfigRestore, Forwarding, SocketBind, UnitConversion, TLAPS

-----------------------------------------------------------------------------
(* /etc/cesar                                                              *)

Trees == [of : Tree, part : BOOLEAN]
TreesOrNone == Trees \union {NoTree}

TreeTypes ==
    /\ etc \in TreesOrNone /\ staging \in TreesOrNone /\ retired \in TreesOrNone
    /\ backup \in TreesOrNone
    /\ before \in Trees /\ wanted \in Trees
    /\ kept \subseteq Trees
    /\ rpc \in {"idle", "stage", "aside", "activate", "putBack", "drop"}

\* What each step of restore finds.
StepFinds ==
    /\ rpc \in {"stage", "aside"} => etc \in {before, NoTree} /\ retired = NoTree
    /\ rpc \in {"aside", "activate"} => staging = wanted
    /\ rpc \in {"activate", "putBack"} => etc = NoTree /\ retired \in {before, NoTree}
    /\ rpc = "drop" => etc = wanted

RestoreInv == TreeTypes /\ StepFinds /\ ConfigIsNotLost

LEMMA PartIsTree == ASSUME NEW t \in Trees PROVE Part(t) \in Trees
BY DEF Trees, Part

LEMMA RestoreStarts == RestoreInit => RestoreInv
<1>1. \A t \in Tree : Whole(t) \in Trees
  BY DEF Whole, Trees
<1> QED
  BY <1>1, TreeAssumption
     DEF RestoreInit, RestoreInv, TreeTypes, StepFinds, ConfigIsNotLost, Trees, TreesOrNone

LEMMA RestoreStepKeeps == RestoreInv /\ [RestoreNext]_restoreVars => RestoreInv'
<1> SUFFICES ASSUME RestoreInv, [RestoreNext]_restoreVars PROVE RestoreInv'
  OBVIOUS
<1> USE DEF RestoreInv, TreeTypes, StepFinds, ConfigIsNotLost, TreesOrNone, Return, Then
<1>0. NoTree \notin Trees
  BY TreeAssumption DEF Trees
<1>1. CASE BackupConfig
  <2>1. Part(etc) \in Trees
    BY <1>1, PartIsTree DEF BackupConfig
  <2> QED
    BY <1>1, <2>1 DEF BackupConfig
<1>2. CASE CallRestore
  <2>1. wanted' \in Trees /\ before' \in Trees /\ kept' \subseteq Trees
    BY <1>2 DEF CallRestore
  <2>2. TreeTypes' /\ StepFinds'
    BY <1>2, <2>1 DEF CallRestore
  <2>3. etc = NoTree /\ before = retired => before \in kept' \/ before.part
    BY <1>0, <1>2 DEF CallRestore
  <2>4. ConfigIsNotLost'
    BY <1>0, <1>2, <2>3 DEF CallRestore
  <2> QED
    BY <2>2, <2>4
<1>3. CASE Stage
  <2>1. Part(wanted) \in Trees
    BY PartIsTree
  <2> QED
    BY <1>3, <2>1 DEF Stage
<1>4. CASE MoveAside
  BY <1>0, <1>4 DEF MoveAside
<1>5. CASE Activate
  BY <1>0, <1>5 DEF Activate
<1>6. CASE PutBack
  BY <1>0, <1>6 DEF PutBack
<1>7. CASE DropOld
  <2>1. retired # NoTree => Part(retired) \in Trees
    BY PartIsTree
  <2> QED
    BY <1>0, <1>7, <2>1 DEF DropOld
<1>8. CASE KillRestore
  BY <1>8 DEF KillRestore
<1>9. CASE UNCHANGED restoreVars
  BY <1>9 DEF restoreVars
<1> QED
  BY <1>1, <1>2, <1>3, <1>4, <1>5, <1>6, <1>7, <1>8, <1>9 DEF RestoreNext

\* Wherever csr config restore fails or is killed, and however often it is
\* called, /etc/cesar is a whole former tree or a whole former tree lies
\* beside it.
THEOREM ConfigSurvives == RestoreSpec => []ConfigIsNotLost
<1>1. RestoreInv => ConfigIsNotLost
  BY DEF RestoreInv
<1> QED
  BY RestoreStarts, RestoreStepKeeps, <1>1, PTL DEF RestoreSpec

-----------------------------------------------------------------------------
(* The control socket                                                      *)

ForwardTypes ==
    /\ shutdown \in BOOLEAN /\ sockFile \in BOOLEAN
    /\ accepting \in {"none", "open", "broken", "removed", "closed"}
    /\ request \in [Invocation -> Request]
    /\ cpc \in [Invocation -> {"idle", "connect", "read", "failed", "offline", "ended"}]
    /\ conn \in [Invocation -> {"none", "queued", "thread", "ok", "err", "eof"}]
    /\ ranBy \in [Invocation -> SUBSET {"pid1", "csr"}]

\* The file is there while connections are accepted, and the loop only ends
\* for a shutdown.
ServerOK ==
    /\ accepting \in {"none", "open"} \/ shutdown
    /\ accepting = "open" => sockFile
    /\ sockFile => accepting # "none"

InvocationOK(i) ==
    /\ conn[i] # "none" => accepting # "none"
    /\ cpc[i] \in {"idle", "connect"} => conn[i] = "none"
    /\ cpc[i] = "offline" /\ conn[i] # "none" => shutdown
    /\ "csr" \in ranBy[i] => cpc[i] = "ended"

ForwardInv ==
    /\ ForwardTypes /\ ServerOK
    /\ \A i \in Invocation : InvocationOK(i)
    /\ OfflineOnlyAlone

LEMMA ForwardStarts == ForwardInit => ForwardInv
BY DEF ForwardInit, ForwardInv, ForwardTypes, ServerOK, InvocationOK, OfflineOnlyAlone

LEMMA Pid1Keeps == ForwardInv /\ Pid1 => ForwardInv'
<1> SUFFICES ASSUME ForwardInv, Pid1 PROVE ForwardInv'
  OBVIOUS
<1> USE DEF ForwardInv, ForwardTypes, ServerOK, InvocationOK, OfflineOnlyAlone,
            clientVars, initVars, Becomes, RanBy
<1>1. CASE StartServer
  <2>1. \/ accepting' = "open" /\ sockFile' = TRUE
        \/ UNCHANGED <<accepting, sockFile>>
    BY <1>1 DEF StartServer
  <2>2. UNCHANGED <<shutdown, request, cpc, conn, ranBy>>
    BY <1>1 DEF StartServer
  <2>3. CASE accepting' = "open" /\ sockFile' = TRUE
    BY <2>2, <2>3
  <2>4. CASE UNCHANGED <<accepting, sockFile>>
    BY <2>2, <2>4
  <2> QED
    BY <2>1, <2>3, <2>4
<1>2. CASE Sigterm \/ BeginShutdown \/ ShutdownEnds
  <2>1. UNCHANGED <<accepting, sockFile, request, cpc, conn, ranBy>>
    BY <1>2 DEF Sigterm, BeginShutdown, ShutdownEnds
  <2>2. shutdown' \in BOOLEAN /\ (shutdown => shutdown')
    BY <1>2 DEF Sigterm, BeginShutdown, ShutdownEnds
  <2> QED
    BY <2>1, <2>2
<1>3. CASE RemoveSocket
  <2>1. accepting = "broken" /\ accepting' = "removed" /\ sockFile' = FALSE
    BY <1>3 DEF RemoveSocket
  <2>2. UNCHANGED <<shutdown, request, cpc, conn, ranBy>>
    BY <1>3 DEF RemoveSocket
  <2>3. shutdown
    BY <2>1
  <2> QED
    BY <2>1, <2>2, <2>3
<1>4. CASE DropListener
  BY <1>4 DEF DropListener
<1>5. ASSUME NEW i \in Invocation, AcceptConn(i) PROVE ForwardInv'
  BY <1>5 DEF AcceptConn
<1>6. ASSUME NEW i \in Invocation, Execute(i) PROVE ForwardInv'
  <2>1. ranBy' \in [Invocation -> SUBSET {"pid1", "csr"}]
    BY <1>6 DEF Execute
  <2>2. \A j \in Invocation : "csr" \in ranBy'[j] => "csr" \in ranBy[j]
    BY <1>6 DEF Execute
  <2>3. conn' \in [Invocation -> {"none", "queued", "thread", "ok", "err", "eof"}]
    BY <1>6 DEF Execute
  <2>4. \A j \in Invocation : conn'[j] # "none" <=> conn[j] # "none"
    BY <1>6 DEF Execute
  <2>5. shutdown' \in BOOLEAN /\ (shutdown => shutdown')
    BY <1>6 DEF Execute
  <2>6. UNCHANGED <<accepting, sockFile, request, cpc>>
    BY <1>6 DEF Execute
  <2> QED
    BY <2>1, <2>2, <2>3, <2>4, <2>5, <2>6
<1> QED
  BY <1>1, <1>2, <1>3, <1>4, <1>5, <1>6 DEF Pid1

\* The step that matters is TryForwardFailed: without the file, an invocation
\* with a connection knows that a shutdown was requested.
LEMMA ClientKeeps ==
    ASSUME NEW i \in Invocation, ForwardInv, Call(i) \/ Client(i)
    PROVE  ForwardInv'
<1> USE DEF ForwardInv, ForwardTypes, ServerOK, InvocationOK, OfflineOnlyAlone,
            initVars, Becomes, RanBy, Step
<1>1. CASE Call(i)
  BY <1>1 DEF Call
<1>2. CASE Connect(i)
  BY <1>2 DEF Connect
<1>3. CASE ReadReply(i)
  BY <1>3 DEF ReadReply
<1>4. CASE ReadTimeout(i)
  BY <1>4 DEF ReadTimeout
<1>5. CASE TryForwardFailed(i)
  <2>1. cpc'[i] = "offline" /\ conn[i] # "none" => shutdown
    BY <1>5 DEF TryForwardFailed
  <2> QED
    BY <1>5, <2>1 DEF TryForwardFailed
<1>6. CASE ExecuteOffline(i)
  <2>1. /\ ranBy' \in [Invocation -> SUBSET {"pid1", "csr"}]
        /\ \A j \in Invocation : j # i => ranBy'[j] = ranBy[j]
    BY <1>6 DEF ExecuteOffline, ForkHere, ForkDaemon, RebootHere
  <2>2. /\ cpc[i] = "offline" /\ cpc' = [cpc EXCEPT ![i] = "ended"]
        /\ UNCHANGED <<shutdown, accepting, sockFile, request, conn>>
    BY <1>6 DEF ExecuteOffline
  <2> QED
    BY <2>1, <2>2
<1> QED
  BY <1>1, <1>2, <1>3, <1>4, <1>5, <1>6 DEF Client

\* No invocation that has reached PID 1 acts by itself, unless a shutdown was
\* requested: for any number of invocations, whatever they ask.
THEOREM ActsOnlyAlone == ForwardSpec => []OfflineOnlyAlone
<1>1. ForwardInv /\ [ForwardNext]_forwardVars => ForwardInv'
  <2>1. ForwardInv /\ UNCHANGED forwardVars => ForwardInv'
    BY DEF forwardVars, ForwardInv, ForwardTypes, ServerOK, InvocationOK, OfflineOnlyAlone
  <2> QED
    BY <2>1, Pid1Keeps, ClientKeeps DEF ForwardNext
<1>2. ForwardInv => OfflineOnlyAlone
  BY DEF ForwardInv
<1> QED
  BY <1>1, <1>2, ForwardStarts, PTL DEF ForwardSpec

-----------------------------------------------------------------------------
(* The listening sockets                                                   *)

SocketTypes ==
    /\ file \in [SocketPath -> Owner \union {NoSocket}]
    /\ listening \subseteq Owner /\ temp \subseteq Owner
    /\ bpc \in [Owner -> {"new", "skipped", "bind", "listen", "rename", "bound",
                         "failed", "killed", "gone"}]
    /\ listenPath \in [Owner -> SocketPath]
    /\ registered \subseteq Claimant

\* Of the claimants of a path only the first one gets to bind.
OnePerPath ==
    /\ \A s \in Claimant : listenPath[s] = PathOf[s]
    /\ \A s \in Claimant : bpc[s] # "new" => PathOf[s] \in seenPaths
    /\ \A s, t \in Claimant :
          s # t /\ bpc[s] \notin {"new", "skipped"} /\ bpc[t] \notin {"new", "skipped"}
            => PathOf[s] # PathOf[t]

PublishedIsBound ==
    /\ \A o \in Owner : bpc[o] \in {"rename", "bound"} => o \in listening
    /\ \A p \in SocketPath : file[p] \in Owner => bpc[file[p]] \in {"bound", "gone"}
    /\ \A s \in registered : bpc[s] = "bound"

SocketInv ==
    SocketTypes /\ OnePerPath /\ PublishedIsBound /\ NotStolen /\ NoStrayTemp

LEMMA SocketStarts == SocketInit => SocketInv
BY SocketAssumption
   DEF SocketInit, SocketInv, SocketTypes, OnePerPath, PublishedIsBound, NotStolen,
       NoStrayTemp, Owner, SocketPath

\* The steps that leave the files and the listeners alone.
LEMMA QuietStepKeeps ==
    ASSUME SocketInv,
           UNCHANGED <<file, listening, listenPath, registered, touched>>,
           temp' \subseteq Owner, NoStrayTemp', OnePerPath', SocketTypes',
           \A o \in Owner :
              /\ bpc'[o] \in {"rename", "bound"} => bpc[o] \in {"rename", "bound"}
              /\ bpc[o] \in {"bound", "gone"} => bpc'[o] = bpc[o]
    PROVE  SocketInv'
<1> USE DEF SocketInv, SocketTypes, Owner
<1>1. PublishedIsBound'
  BY DEF PublishedIsBound
<1>2. NotStolen'
  BY DEF NotStolen
<1> QED
  BY <1>1, <1>2

LEMMA SocketStepKeeps == SocketInv /\ [SocketNext]_socketVars => SocketInv'
<1> SUFFICES ASSUME SocketInv, [SocketNext]_socketVars PROVE SocketInv'
  OBVIOUS
<1> USE DEF SocketInv, SocketTypes, Moves, InCall
<1>1. ASSUME NEW s \in Claimant, Claim(s) PROVE SocketInv'
  <2>1. s \in Owner
    BY DEF Owner
  <2>2. OnePerPath'
    BY <1>1, <2>1 DEF Claim, OnePerPath, Owner
  <2>3. SocketTypes' /\ NoStrayTemp'
    BY <1>1, <2>1 DEF Claim, NoStrayTemp
  <2> QED
    BY <1>1, <2>1, <2>2, <2>3, QuietStepKeeps DEF Claim
<1>2. ASSUME NEW c \in Csr, CallCsr(c) PROVE SocketInv'
  <2>1. c \in Owner /\ c \notin Claimant
    BY SocketAssumption DEF Owner
  <2>2. OnePerPath'
    BY <1>2, <2>1 DEF CallCsr, OnePerPath, Owner
  <2>3. SocketTypes' /\ NoStrayTemp'
    BY <1>2, <2>1 DEF CallCsr, NoStrayTemp
  <2> QED
    BY <1>2, <2>1, <2>2, <2>3, QuietStepKeeps DEF CallCsr
<1>3. ASSUME NEW o \in Owner, BindTemp(o) PROVE SocketInv'
  <2>1. OnePerPath'
    BY <1>3 DEF BindTemp, OnePerPath, Owner
  <2>2. SocketTypes' /\ NoStrayTemp'
    BY <1>3 DEF BindTemp, NoStrayTemp
  <2> QED
    BY <1>3, <2>1, <2>2, QuietStepKeeps DEF BindTemp
<1>4. ASSUME NEW o \in Owner, Listen(o) PROVE SocketInv'
  <2>1. OnePerPath'
    BY <1>4 DEF Listen, OnePerPath, Owner
  <2>2. SocketTypes' /\ NoStrayTemp'
    BY <1>4 DEF Listen, NoStrayTemp
  <2>3. PublishedIsBound' /\ NotStolen'
    BY <1>4 DEF Listen, PublishedIsBound, NotStolen, Owner
  <2> QED
    BY <2>1, <2>2, <2>3
<1>5. ASSUME NEW o \in Owner, Publish(o) PROVE SocketInv'
  <2>1. OnePerPath'
    BY <1>5 DEF Publish, OnePerPath, Owner
  <2>2. SocketTypes' /\ NoStrayTemp'
    BY <1>5 DEF Publish, NoStrayTemp
  <2>3. CASE Moves(o, "rename", "bound")
    <3>1. /\ file' = [file EXCEPT ![listenPath[o]] = o]
          /\ registered' = registered \union ({o} \intersect Claimant)
          /\ touched' = IF o \in Csr THEN touched \union {listenPath[o]} ELSE touched
          /\ UNCHANGED <<listening, listenPath>>
      BY <1>5, <2>3 DEF Publish
    <3>2. PublishedIsBound'
      BY <2>3, <3>1 DEF PublishedIsBound, Owner
    <3>3. ASSUME NEW s \in registered', PathOf[s] \notin touched'
          PROVE  file'[PathOf[s]] = s
      <4>1. s \in Claimant /\ PathOf[s] \in SocketPath /\ s \in Owner
        BY <3>1 DEF SocketPath, Owner
      <4>2. CASE s = o
        BY <3>1, <4>1, <4>2 DEF OnePerPath
      <4>3. CASE s # o
        <5>1. s \in registered /\ file[PathOf[s]] = s /\ bpc[s] = "bound"
          BY <3>1, <3>3, <4>3 DEF NotStolen, PublishedIsBound
        <5>2. listenPath[o] # PathOf[s]
          <6>1. CASE o \in Csr
            BY <3>1, <3>3, <6>1
          <6>2. CASE o \in Claimant
            BY <2>3, <4>1, <4>3, <5>1, <6>2 DEF OnePerPath
          <6> QED
            BY <6>1, <6>2 DEF Owner
        <5> QED
          BY <3>1, <4>1, <5>1, <5>2
      <4> QED
        BY <4>2, <4>3
    <3>4. NotStolen'
      BY <3>3 DEF NotStolen
    <3> QED
      BY <2>1, <2>2, <3>2, <3>4
  <2>4. CASE Moves(o, "rename", "failed")
    <3>1. listening' = listening \ {o} /\ UNCHANGED <<file, registered, touched>>
      BY <1>5, <2>4 DEF Publish
    <3>2. PublishedIsBound' /\ NotStolen'
      BY <2>4, <3>1 DEF PublishedIsBound, NotStolen, Owner
    <3> QED
      BY <2>1, <2>2, <3>2
  <2> QED
    BY <1>5, <2>3, <2>4 DEF Publish
<1>6. ASSUME NEW c \in Csr, ExitCsr(c) PROVE SocketInv'
  <2>1. c \in Owner /\ c \notin Claimant
    BY SocketAssumption DEF Owner
  <2>2. OnePerPath'
    BY <1>6, <2>1 DEF ExitCsr, OnePerPath, Owner
  <2>3. SocketTypes' /\ NoStrayTemp'
    BY <1>6, <2>1 DEF ExitCsr, NoStrayTemp
  <2>4. PublishedIsBound' /\ NotStolen'
    BY <1>6, <2>1 DEF ExitCsr, PublishedIsBound, NotStolen, Owner
  <2> QED
    BY <2>2, <2>3, <2>4
<1>7. ASSUME NEW p \in SocketPath, DestroySocket(p) PROVE SocketInv'
  <2>1. OnePerPath' /\ SocketTypes' /\ NoStrayTemp'
    BY <1>7 DEF DestroySocket, OnePerPath, NoStrayTemp
  <2>2. PublishedIsBound'
    BY <1>7, SocketAssumption DEF DestroySocket, PublishedIsBound, Owner
  <2>3. NotStolen'
    BY <1>7 DEF DestroySocket, NotStolen, SocketPath
  <2> QED
    BY <2>1, <2>2, <2>3
<1>8. CASE UNCHANGED socketVars
  BY <1>8 DEF socketVars, OnePerPath, PublishedIsBound, NotStolen, NoStrayTemp
<1> QED
  BY <1>1, <1>2, <1>3, <1>4, <1>5, <1>6, <1>7, <1>8 DEF SocketNext

\* The socket a service was given stays the one at its path, no path is
\* without its listener and no temporary name is left over: for any number of
\* services and paths, and whatever csr does meanwhile.
THEOREM SocketsKept == SocketSpec => []ServiceSocketsKept
<1>1. SocketInv => ServiceSocketsKept
  BY DEF SocketInv, SocketTypes, PublishedIsBound, ServiceSocketsKept, PublishedListens
<1> QED
  BY SocketStarts, SocketStepKeeps, <1>1, PTL DEF SocketSpec

-----------------------------------------------------------------------------
(***************************************************************************)
(* The conversion of a unit.  Says is about the unit, which no step        *)
(* changes: the invariant says that what was found is what the lines       *)
(* before the current one say.                                             *)
(***************************************************************************)
ConversionTypes ==
    /\ unit \in Seq(UnitLine)
    /\ at \in 1..Len(unit) + 1
    /\ deps \in Seq(Dependency)
    /\ restart \in {"always", "never", "on-failure"}
    /\ oneshot \in BOOLEAN

\* The last header before the n-th line is that of s.
InSectionAt(n, s) ==
    \E h \in 1..n - 1 : /\ unit[h].key = "section" /\ unit[h].value = s
                        /\ \A m \in h + 1..n - 1 : unit[m].key # "section"
SectionFound == \A s \in {"unit", "service"} : section = s <=> InSectionAt(at, s)

CommandFound ==
    \/ exec = NoExec /\ \A j \in 1..at - 1 : ~SaysCommand(j)
    \/ \E j \in 1..at - 1 : /\ SaysCommand(j) /\ exec = unit[j].value
                            /\ \A i \in 1..j - 1 : ~SaysCommand(i)

LastSaysBefore(n, key, value) ==
    \E j \in 1..n - 1 :
        /\ Says(j, "service", key) /\ unit[j].value = value
        /\ \A i \in j + 1..n - 1 : ~Says(i, "service", key)
PolicyFound ==
    /\ oneshot <=> LastSaysBefore(at, "type", "oneshot")
    /\ restart = "always" <=> LastSaysBefore(at, "restart", "always")
    /\ restart = "on-failure" <=> LastSaysBefore(at, "restart", "on-abort")

Dependencies(n) == {unit[j].value : j \in {k \in 1..n - 1 : Says(k, "unit", "requires")}}
DependenciesFound ==
    /\ {deps[i] : i \in 1..Len(deps)} = Dependencies(at)
    /\ \A i, j \in 1..Len(deps) : deps[i] = deps[j] => i = j

WrittenAtTheEnd ==
    iniFile # Unwritten =>
      /\ at = Len(unit) + 1
      /\ IF exec = NoExec THEN iniFile = NoExecStart
         ELSE iniFile =
                <<Entry("Exec", exec)>>
                  \o (IF deps = <<>> THEN <<>> ELSE <<Entry("Requires", deps)>>)
                  \o <<Entry("Restart", IF oneshot THEN "never" ELSE restart)>>

ConversionInv ==
    /\ ConversionTypes /\ SectionFound /\ CommandFound /\ PolicyFound
    /\ DependenciesFound /\ WrittenAtTheEnd

LEMMA ConversionStarts == ConversionInit => ConversionInv
<1> SUFFICES ASSUME ConversionInit PROVE ConversionInv
  OBVIOUS
<1>1. ConversionTypes
  <2>1. unit \in Seq(UnitLine) /\ Len(unit) \in Nat
    BY ConversionAssumption DEF ConversionInit
  <2>2. at \in 1..Len(unit) + 1
    BY <2>1 DEF ConversionInit
  <2>3. deps \in Seq(Dependency)
    BY DEF ConversionInit
  <2> QED
    BY <2>1, <2>2, <2>3 DEF ConversionInit, ConversionTypes
<1>2. SectionFound /\ CommandFound /\ PolicyFound
  BY DEF ConversionInit, SectionFound, InSectionAt, CommandFound, PolicyFound,
     LastSaysBefore
<1>3. DependenciesFound
  BY DEF ConversionInit, DependenciesFound, Dependencies
<1> QED
  BY <1>1, <1>2, <1>3 DEF ConversionInit, ConversionInv, WrittenAtTheEnd

\* What one more line changes.
LEMMA LineSays ==
    ASSUME ConversionTypes, SectionFound, at <= Len(unit),
           NEW s \in {"unit", "service"}, NEW key, key # "section"
    PROVE  Says(at, s, key) <=> unit[at].key = key /\ section = s
<1>1. ASSUME unit[at].key = key, section = s PROVE Says(at, s, key)
  <2>1. PICK h \in 1..at - 1 : /\ unit[h].key = "section" /\ unit[h].value = s
                               /\ \A m \in h + 1..at - 1 : unit[m].key # "section"
    BY <1>1 DEF SectionFound, InSectionAt
  <2>2. \A m \in h + 1..at : unit[m].key # "section"
    BY <1>1, <2>1 DEF ConversionTypes
  <2> QED
    BY <1>1, <2>1, <2>2 DEF Says, ConversionTypes
<1>2. ASSUME Says(at, s, key) PROVE unit[at].key = key /\ section = s
  <2>1. PICK h \in 1..at : /\ unit[h].key = "section" /\ unit[h].value = s
                           /\ \A m \in h + 1..at : unit[m].key # "section"
    BY <1>2 DEF Says
  <2>2. h \in 1..at - 1
    BY <1>2, <2>1 DEF Says, ConversionTypes
  <2> QED
    BY <1>2, <2>1, <2>2 DEF Says, SectionFound, InSectionAt, ConversionTypes
<1> QED
  BY <1>1, <1>2

LEMMA SectionNext ==
    ASSUME ConversionTypes, at <= Len(unit), NEW s
    PROVE  InSectionAt(at + 1, s) <=>
             IF unit[at].key = "section" THEN unit[at].value = s
             ELSE InSectionAt(at, s)
<1>1. at \in Nat /\ at >= 1 /\ at + 1 - 1 = at
  BY DEF ConversionTypes
<1>2. CASE unit[at].key = "section"
  <2>1. ASSUME unit[at].value = s PROVE InSectionAt(at + 1, s)
    <3>1. at \in 1..at /\ \A m \in at + 1..at : unit[m].key # "section"
      BY <1>1
    <3> QED
      BY <1>1, <1>2, <2>1, <3>1 DEF InSectionAt
  <2>2. ASSUME InSectionAt(at + 1, s) PROVE unit[at].value = s
    <3>1. PICK h \in 1..at : /\ unit[h].key = "section" /\ unit[h].value = s
                             /\ \A m \in h + 1..at : unit[m].key # "section"
      BY <1>1, <2>2 DEF InSectionAt
    <3>2. h = at
      BY <1>1, <1>2, <3>1
    <3> QED
      BY <3>1, <3>2
  <2> QED
    BY <1>2, <2>1, <2>2
<1>3. CASE unit[at].key # "section"
  <2>1. ASSUME InSectionAt(at, s) PROVE InSectionAt(at + 1, s)
    <3>1. PICK h \in 1..at - 1 : /\ unit[h].key = "section" /\ unit[h].value = s
                                 /\ \A m \in h + 1..at - 1 : unit[m].key # "section"
      BY <2>1 DEF InSectionAt
    <3>2. h \in 1..at /\ \A m \in h + 1..at : unit[m].key # "section"
      BY <1>1, <1>3, <3>1
    <3> QED
      BY <1>1, <3>1, <3>2 DEF InSectionAt
  <2>2. ASSUME InSectionAt(at + 1, s) PROVE InSectionAt(at, s)
    <3>1. PICK h \in 1..at : /\ unit[h].key = "section" /\ unit[h].value = s
                             /\ \A m \in h + 1..at : unit[m].key # "section"
      BY <1>1, <2>2 DEF InSectionAt
    <3>2. h \in 1..at - 1 /\ \A m \in h + 1..at - 1 : unit[m].key # "section"
      BY <1>1, <1>3, <3>1
    <3> QED
      BY <3>1, <3>2 DEF InSectionAt
  <2> QED
    BY <1>3, <2>1, <2>2
<1> QED
  BY <1>2, <1>3

LEMMA LastSaysNext ==
    ASSUME ConversionTypes, at <= Len(unit), NEW key, NEW value
    PROVE  LastSaysBefore(at + 1, key, value) <=>
             IF Says(at, "service", key) THEN unit[at].value = value
             ELSE LastSaysBefore(at, key, value)
<1> USE DEF ConversionTypes, LastSaysBefore
<1>1. CASE Says(at, "service", key)
  BY <1>1
<1>2. CASE ~Says(at, "service", key)
  BY <1>2
<1> QED
  BY <1>1, <1>2

LEMMA DependenciesNext ==
    ASSUME ConversionTypes, at <= Len(unit)
    PROVE  Dependencies(at + 1) =
             Dependencies(at) \union
               (IF Says(at, "unit", "requires") THEN {unit[at].value} ELSE {})
<1>1. at \in Nat /\ at >= 1 /\ at + 1 - 1 = at
  BY DEF ConversionTypes
<1>2. ASSUME NEW x
      PROVE  x \in Dependencies(at + 1) <=>
               \E j \in 1..at : Says(j, "unit", "requires") /\ x = unit[j].value
  BY <1>1 DEF Dependencies
<1>3. ASSUME NEW x
      PROVE  x \in Dependencies(at) <=>
               \E j \in 1..at - 1 : Says(j, "unit", "requires") /\ x = unit[j].value
  BY DEF Dependencies
<1>4. 1..at = (1..at - 1) \union {at}
  BY <1>1
<1> QED
  BY <1>2, <1>3, <1>4

LEMMA CommandNext ==
    ASSUME ConversionTypes, CommandFound, at <= Len(unit), unit' = unit, at' = at + 1,
           exec' = IF exec = NoExec /\ SaysCommand(at) THEN unit[at].value ELSE exec
    PROVE  CommandFound'
<1> USE DEF ConversionTypes
<1>1. \A j : SaysCommand(j)' <=> SaysCommand(j)
  BY DEF SaysCommand, Says
<1>2. at' - 1 = at /\ 1..at = (1..at - 1) \union {at}
  OBVIOUS
<1>3. CASE exec = NoExec /\ SaysCommand(at)
  <2>1. \A j \in 1..at - 1 : ~SaysCommand(j)
    BY <1>3 DEF CommandFound, SaysCommand
  <2> QED
    BY <1>1, <1>2, <1>3, <2>1 DEF CommandFound
<1>4. CASE exec = NoExec /\ ~SaysCommand(at)
  BY <1>1, <1>2, <1>4 DEF CommandFound, SaysCommand
<1>5. CASE exec # NoExec
  <2>1. PICK j \in 1..at - 1 : /\ SaysCommand(j) /\ exec = unit[j].value
                               /\ \A i \in 1..j - 1 : ~SaysCommand(i)
    BY <1>5 DEF CommandFound
  <2> QED
    BY <1>1, <1>2, <1>5, <2>1 DEF CommandFound
<1> QED
  BY <1>3, <1>4, <1>5

\* A line that no component but one looks at.
LEMMA LineRead ==
    ASSUME ConversionInv, at <= Len(unit), NextLine,
           section' = IF unit[at].key = "section" THEN unit[at].value ELSE section,
           exec' = IF exec = NoExec /\ SaysCommand(at) THEN unit[at].value ELSE exec,
           oneshot' = IF Says(at, "service", "type") THEN unit[at].value = "oneshot"
                      ELSE oneshot,
           restart' = IF Says(at, "service", "restart") THEN PolicyOf(unit[at].value)
                      ELSE restart,
           deps' = IF Says(at, "unit", "requires")
                        /\ \A i \in 1..Len(deps) : deps[i] # unit[at].value
                   THEN Append(deps, unit[at].value) ELSE deps
    PROVE  ConversionInv'
<1> USE DEF ConversionInv
<1>1. /\ unit' = unit /\ at' = at + 1 /\ iniFile' = iniFile /\ iniFile = Unwritten
      /\ unit[at] \in UnitLine /\ at \in 1..Len(unit)
  BY DEF NextLine, WrittenAtTheEnd, ConversionTypes
<1>2. ConversionTypes'
  <2>1. restart' \in {"always", "never", "on-failure"}
    BY DEF PolicyOf, ConversionTypes
  <2>2. Says(at, "unit", "requires") => unit[at].value \in Dependency
    BY <1>1 DEF Says, UnitLine, Entry
  <2>3. deps' \in Seq(Dependency)
    BY <2>2 DEF ConversionTypes
  <2>4. oneshot' \in BOOLEAN
    BY DEF ConversionTypes
  <2>5. unit' \in Seq(UnitLine) /\ at' \in 1..Len(unit') + 1
    BY <1>1 DEF ConversionTypes
  <2> QED
    BY <2>1, <2>3, <2>4, <2>5 DEF ConversionTypes
<1>3. SectionFound'
  <2>1. \A s : InSectionAt(at, s)' <=> InSectionAt(at + 1, s)
    BY <1>1 DEF InSectionAt
  <2> QED
    BY <2>1, SectionNext DEF SectionFound
<1>4. CommandFound'
  BY <1>1, CommandNext
<1>5. PolicyFound'
  <2>1. \A key, value :
          LastSaysBefore(at, key, value)' <=> LastSaysBefore(at + 1, key, value)
    BY <1>1 DEF LastSaysBefore, Says
  <2>2. oneshot' <=> LastSaysBefore(at + 1, "type", "oneshot")
    BY LastSaysNext DEF PolicyFound, ConversionTypes
  <2>3. Says(at, "service", "restart") => unit[at].value \in {"always", "no", "on-abort"}
    BY <1>1 DEF Says, UnitLine, Entry
  <2>4. /\ restart' = "always" <=> LastSaysBefore(at + 1, "restart", "always")
        /\ restart' = "on-failure" <=> LastSaysBefore(at + 1, "restart", "on-abort")
    BY <2>3, LastSaysNext DEF PolicyFound, PolicyOf
  <2> QED
    BY <2>1, <2>2, <2>4 DEF PolicyFound
<1>6. DependenciesFound'
  <2>1. Dependencies(at)' = Dependencies(at + 1)
    BY <1>1 DEF Dependencies, Says
  <2>2. CASE Says(at, "unit", "requires") /\ \A i \in 1..Len(deps) : deps[i] # unit[at].value
    <3>1. deps' = Append(deps, unit[at].value)
      BY <2>2
    <3>2. /\ Len(deps') = Len(deps) + 1 /\ deps'[Len(deps) + 1] = unit[at].value
          /\ \A i \in 1..Len(deps) : deps'[i] = deps[i]
      BY <3>1 DEF ConversionTypes
    <3>3. {deps'[i] : i \in 1..Len(deps')} =
            {deps[i] : i \in 1..Len(deps)} \union {unit[at].value}
      BY <3>2 DEF ConversionTypes
    <3> QED
      BY <2>1, <2>2, <3>2, <3>3, DependenciesNext DEF DependenciesFound, ConversionTypes
  <2>3. CASE ~(Says(at, "unit", "requires") /\ \A i \in 1..Len(deps) : deps[i] # unit[at].value)
    <3>1. deps' = deps
      BY <2>3
    <3>2. Says(at, "unit", "requires") => unit[at].value \in Dependencies(at)
      BY <2>3 DEF DependenciesFound
    <3>3. Dependencies(at + 1) = Dependencies(at)
      BY <1>1, <3>2, DependenciesNext
    <3> QED
      BY <2>1, <3>1, <3>3 DEF DependenciesFound
  <2> QED
    BY <2>2, <2>3
<1>7. WrittenAtTheEnd'
  BY <1>1 DEF WrittenAtTheEnd, Unwritten
<1> QED
  BY <1>2, <1>3, <1>4, <1>5, <1>6, <1>7

\* A step that reads no line.
LEMMA NothingFound ==
    ASSUME ConversionInv, UNCHANGED <<unit, at, section, deps, exec, restart, oneshot>>
    PROVE  (ConversionTypes /\ SectionFound /\ CommandFound /\ PolicyFound
              /\ DependenciesFound)'
<1>1. \A j, s, key : Says(j, s, key)' <=> Says(j, s, key)
  BY DEF Says
<1>2. ConversionTypes' /\ SectionFound'
  BY DEF ConversionInv, ConversionTypes, SectionFound, InSectionAt
<1>3. CommandFound'
  BY <1>1 DEF ConversionInv, CommandFound, SaysCommand
<1>4. PolicyFound'
  BY <1>1 DEF ConversionInv, PolicyFound, LastSaysBefore
<1>5. DependenciesFound'
  <2>1. Dependencies(at)' = Dependencies(at)
    BY <1>1 DEF Dependencies
  <2>2. {deps'[i] : i \in 1..Len(deps')} = {deps[i] : i \in 1..Len(deps)}
    OBVIOUS
  <2> QED
    BY <2>1, <2>2 DEF ConversionInv, DependenciesFound
<1> QED
  BY <1>2, <1>3, <1>4, <1>5

LEMMA ConversionStepKeeps ==
    ASSUME ConversionInv, [ConversionNext]_conversionVars
    PROVE  ConversionInv'
<1> USE DEF ConversionInv
<1>1. ASSUME at <= Len(unit), NEW s \in {"unit", "service"}, NEW key, key # "section"
      PROVE  Says(at, s, key) <=> unit[at].key = key /\ section = s
  BY <1>1, LineSays
<1>2. at <= Len(unit) =>
        (SaysCommand(at) <=>
           unit[at].key = "exec" /\ section = "service" /\ unit[at].value # NoExec)
  BY <1>1 DEF SaysCommand
<1>3. ASSUME BeginSection PROVE ConversionInv'
  BY <1>1, <1>2, <1>3, LineRead DEF BeginSection, Has, This
<1>4. ASSUME ReadDependency PROVE ConversionInv'
  BY <1>1, <1>2, <1>4, LineRead DEF ReadDependency, Has, This
<1>5. ASSUME ReadExec PROVE ConversionInv'
  BY <1>1, <1>2, <1>5, LineRead DEF ReadExec, Has, This
<1>6. ASSUME ReadType PROVE ConversionInv'
  BY <1>1, <1>2, <1>6, LineRead DEF ReadType, Has, This
<1>7. ASSUME ReadRestart PROVE ConversionInv'
  BY <1>1, <1>2, <1>7, LineRead DEF ReadRestart, Has, This
<1>8. ASSUME WriteIni PROVE ConversionInv'
  <2>1. at = Len(unit) + 1
    BY <1>8 DEF WriteIni, ConversionTypes
  <2>2. WrittenAtTheEnd'
    BY <1>8, <2>1 DEF WriteIni, WrittenAtTheEnd
  <2>3. UNCHANGED <<unit, at, section, deps, exec, restart, oneshot>>
    BY <1>8 DEF WriteIni
  <2> QED
    BY <2>2, <2>3, NothingFound
<1>9. CASE UNCHANGED conversionVars
  <2>1. WrittenAtTheEnd'
    BY <1>9 DEF conversionVars, WrittenAtTheEnd
  <2>2. UNCHANGED <<unit, at, section, deps, exec, restart, oneshot>>
    BY <1>9 DEF conversionVars
  <2> QED
    BY <2>1, <2>2, NothingFound
<1> QED
  BY <1>3, <1>4, <1>5, <1>6, <1>7, <1>8, <1>9 DEF ConversionNext

\* A key that is on one line only.
LEMMA LastOfOne ==
    ASSUME NEW lines, NEW key, NEW default, NEW i \in Nat,
           {j \in 1..Len(lines) : lines[j].key = key} = {i}
    PROVE  LastOf(lines, key, default) = lines[i].value
<1>1. (CHOOSE k \in {i} : \A j \in {i} : j <= k) = i
  OBVIOUS
<1> QED
  BY <1>1 DEF LastOf

LEMMA FileIsRead ==
    ASSUME ConversionInv, iniFile # Unwritten, exec # NoExec
    PROVE  Parsed(iniFile) =
             [exec |-> exec, requires |-> deps,
              restart |-> RestartPolicy(IF oneshot THEN "never" ELSE restart)]
<1> DEFINE policy == IF oneshot THEN "never" ELSE restart
<1>1. CASE deps = <<>>
  <2>1. iniFile = <<Entry("Exec", exec), Entry("Restart", policy)>>
    BY <1>1 DEF ConversionInv, WrittenAtTheEnd
  <2>2. Len(iniFile) = 2 /\ iniFile[1] = Entry("Exec", exec)
          /\ iniFile[2] = Entry("Restart", policy)
    BY <2>1
  <2>3. /\ iniFile[1].key = "Exec" /\ iniFile[1].value = exec
        /\ iniFile[2].key = "Restart" /\ iniFile[2].value = policy
    BY <2>2 DEF Entry
  <2> HIDE DEF policy
  <2>4. LastOf(iniFile, "Exec", NoExec) = exec
    <3>1. {j \in 1..Len(iniFile) : iniFile[j].key = "Exec"} = {1}
      BY <2>2, <2>3, 1..2 = {1, 2}
    <3> QED
      BY <2>3, <3>1, LastOfOne
  <2>5. LastOf(iniFile, "Restart", Unset) = policy
    <3>1. {j \in 1..Len(iniFile) : iniFile[j].key = "Restart"} = {2}
      BY <2>2, <2>3, 1..2 = {1, 2}
    <3> QED
      BY <2>3, <3>1, LastOfOne
  <2>6. LastOf(iniFile, "Requires", <<>>) = <<>>
    BY <2>2, <2>3, 1..2 = {1, 2} DEF LastOf
  <2> QED
    BY <1>1, <2>4, <2>5, <2>6 DEF Parsed, policy
<1>2. CASE deps # <<>>
  <2>1. iniFile = <<Entry("Exec", exec), Entry("Requires", deps), Entry("Restart", policy)>>
    BY <1>2 DEF ConversionInv, WrittenAtTheEnd
  <2>2. Len(iniFile) = 3 /\ iniFile[1] = Entry("Exec", exec)
          /\ iniFile[2] = Entry("Requires", deps) /\ iniFile[3] = Entry("Restart", policy)
    BY <2>1
  <2>3. /\ iniFile[1].key = "Exec" /\ iniFile[1].value = exec
        /\ iniFile[2].key = "Requires" /\ iniFile[2].value = deps
        /\ iniFile[3].key = "Restart" /\ iniFile[3].value = policy
    BY <2>2 DEF Entry
  <2> HIDE DEF policy
  <2>4. LastOf(iniFile, "Exec", NoExec) = exec
    <3>1. {j \in 1..Len(iniFile) : iniFile[j].key = "Exec"} = {1}
      BY <2>2, <2>3, 1..3 = {1, 2, 3}
    <3> QED
      BY <2>3, <3>1, LastOfOne
  <2>5. LastOf(iniFile, "Restart", Unset) = policy
    <3>1. {j \in 1..Len(iniFile) : iniFile[j].key = "Restart"} = {3}
      BY <2>2, <2>3, 1..3 = {1, 2, 3}
    <3> QED
      BY <2>3, <3>1, LastOfOne
  <2>6. LastOf(iniFile, "Requires", <<>>) = deps
    <3>1. {j \in 1..Len(iniFile) : iniFile[j].key = "Requires"} = {2}
      BY <2>2, <2>3, 1..3 = {1, 2, 3}
    <3> QED
      BY <2>3, <3>1, LastOfOne
  <2> QED
    BY <2>4, <2>5, <2>6 DEF Parsed, policy
<1> QED
  BY <1>1, <1>2

\* For a unit of any length, with its sections and keys in any order and any number
\* of times, what convert writes is read as the service the unit describes, and a
\* unit is refused only if it has no command (convert_systemd_unit).
THEOREM ConversionIsExact == ConversionSpec => []ConvertedAsDescribed
<1>1. ConversionInv => ConvertedAsDescribed
  <2> SUFFICES ASSUME ConversionInv, iniFile # Unwritten
               PROVE  ConvertedAsDescribed
    BY DEF ConvertedAsDescribed
  <2>1. at = Len(unit) + 1 /\ at - 1 = Len(unit) /\ unit \in Seq(UnitLine)
    BY DEF ConversionInv, WrittenAtTheEnd, ConversionTypes
  <2>2. CASE exec = NoExec
    <3>1. iniFile = NoExecStart
      BY <2>2 DEF ConversionInv, WrittenAtTheEnd
    <3>2. \A j \in 1..Len(unit) : ~SaysCommand(j)
      BY <2>1, <2>2 DEF ConversionInv, CommandFound, SaysCommand
    <3> QED
      BY <3>1, <3>2 DEF ConvertedAsDescribed
  <2>3. CASE exec # NoExec
    <3>1. PICK j \in 1..Len(unit) : /\ SaysCommand(j) /\ exec = unit[j].value
                                    /\ \A i \in 1..j - 1 : ~SaysCommand(i)
      BY <2>1, <2>3 DEF ConversionInv, CommandFound
    <3>2. \A key, value : LastSays(key, value) <=> LastSaysBefore(at, key, value)
      BY <2>1 DEF LastSays, LastSaysBefore
    <3>3. /\ Parsed(iniFile).exec = exec
          /\ Parsed(iniFile).requires = deps
          /\ Parsed(iniFile).restart =
               RestartPolicy(IF oneshot THEN "never" ELSE restart)
      BY <2>3, FileIsRead
    <3>4. /\ Parsed(iniFile).restart = "Always" <=> LastSays("restart", "always") /\ ~Oneshot
          /\ Parsed(iniFile).restart = "OnFailure" <=> LastSays("restart", "on-abort") /\ ~Oneshot
      BY <3>2, <3>3 DEF ConversionInv, ConversionTypes, PolicyFound, RestartPolicy, Oneshot
    <3>5. {deps[i] : i \in 1..Len(deps)} =
            {unit[k].value : k \in {l \in 1..Len(unit) : Says(l, "unit", "requires")}}
      BY <2>1 DEF ConversionInv, DependenciesFound, Dependencies
    <3>6. \A k, l \in 1..Len(deps) : deps[k] = deps[l] => k = l
      BY DEF ConversionInv, DependenciesFound
    <3> HIDE DEF ConversionInv
    <3>7. ~(\A k \in 1..Len(unit) : ~SaysCommand(k))
      BY <3>1
    <3> DEFINE read == Parsed(iniFile)
    <3>8. SaysCommand(j) /\ read.exec = unit[j].value /\ \A i \in 1..j - 1 : ~SaysCommand(i)
      BY <3>1, <3>3
    <3>9. /\ {read.requires[i] : i \in 1..Len(read.requires)} =
               {unit[k].value : k \in {l \in 1..Len(unit) : Says(l, "unit", "requires")}}
          /\ \A k, l \in 1..Len(read.requires) :
               read.requires[k] = read.requires[l] => k = l
      <4>1. read.requires = deps
        BY <3>3
      <4> HIDE DEF read
      <4>2. \A k, l \in 1..Len(read.requires) :
               read.requires[k] = read.requires[l] => k = l
        BY <3>6, <4>1
      <4>3. {read.requires[i] : i \in 1..Len(read.requires)} = {deps[i] : i \in 1..Len(deps)}
        BY <4>1
      <4> QED
        BY <3>5, <4>2, <4>3
    <3> QED
      BY <3>4, <3>7, <3>8, <3>9, Zenon DEF ConvertedAsDescribed
  <2> QED
    BY <2>2, <2>3
<1> QED
  BY <1>1, ConversionStarts, ConversionStepKeeps, PTL DEF ConversionSpec
=============================================================================
