----------------------------- MODULE FileProofs -----------------------------
(***************************************************************************)
(* The files csr writes: atomic_write replaces a file atomically, and      *)
(* upsert_ini_key edits the key it is asked to and nothing else.           *)
(***************************************************************************)
EXTENDS AtomicFile, IniFile, LogFile, UnitStore, FiniteSetTheorems, TLAPS

-----------------------------------------------------------------------------
(***************************************************************************)
(* atomic_write implements a cell that is replaced atomically.  A step of  *)
(* a writer that renames is a Store, every other one a stutter; a sync of  *)
(* the directory is MakeDurable, a power loss is a Crash.                  *)
(***************************************************************************)
FileInv == FileTypeOK /\ WholeAndSynced

LEMMA FileInitInv == FileInit => FileInv
  BY DEF FileInit, FileInv, FileTypeOK, WholeAndSynced, File, Empty, At

\* What a rename may replace the target with, and what the disk may have.
LEMMA FileStepInv == FileInv /\ [FileNext]_fileVars => FileInv'
<1> SUFFICES ASSUME FileInv, [FileNext]_fileVars PROVE FileInv'
  OBVIOUS
<1> USE DEF FileInv, FileTypeOK, WholeAndSynced, File, At, Moved
<1>1. ASSUME NEW w \in Writer, CreateTmp(w) PROVE FileInv'
  BY <1>1 DEF CreateTmp, Empty
<1>2. ASSUME NEW w \in Writer, WriteAll(w) PROVE FileInv'
  BY <1>2 DEF WriteAll
<1>3. ASSUME NEW w \in Writer, SyncAll(w) PROVE FileInv'
  BY <1>3 DEF SyncAll
<1>4. ASSUME NEW w \in Writer, Rename(w) PROVE FileInv'
  <2>1. tmp[w] = [content |-> bytes[w], synced |-> TRUE] /\ bytes[w] \in Value
    BY <1>4 DEF Rename
  <2>2. FileTypeOK'
    BY <1>4, <2>1 DEF Rename, Empty
  <2>3. target'.content \in Value /\ target'.synced
    BY <1>4, <2>1 DEF Rename
  <2>4. \A v \in Writer : v # w => tmp'[v] = tmp[v] /\ wpc'[v] = wpc[v]
    BY <1>4 DEF Rename
  <2>5. WholeAndSynced'
    BY <1>4, <2>3, <2>4 DEF Rename
  <2> QED
    BY <2>2, <2>5
<1>5. ASSUME NEW w \in Writer, SyncDir(w) PROVE FileInv'
  BY <1>5 DEF SyncDir
<1>6. ASSUME NEW w \in Writer, GiveUp(w) PROVE FileInv'
  <2>1. CASE tmp' = [tmp EXCEPT ![w] = Empty]
    <3>1. Empty \in File
      BY DEF Empty
    <3>2. tmp' \in [Writer -> File]
      BY <2>1, <3>1
    <3> QED
      BY <1>6, <3>2 DEF GiveUp
  <2>2. CASE UNCHANGED tmp
    BY <1>6, <2>2 DEF GiveUp
  <2> QED
    BY <1>6, <2>1, <2>2 DEF GiveUp
<1>7. CASE Flush
  BY <1>7 DEF Flush
<1>8. CASE PowerLoss
  BY <1>8 DEF PowerLoss, Empty
<1>9. CASE UNCHANGED fileVars
  BY <1>9 DEF fileVars
<1> QED
  BY <1>1, <1>2, <1>3, <1>4, <1>5, <1>6, <1>7, <1>8, <1>9
  DEF FileNext, WriterStep

LEMMA FileInvHolds == FileSpec => []FileInv
  BY FileInitInv, FileStepInv, PTL DEF FileSpec

\* Every step of the writers, the kernel or the power supply is a step of the
\* cell (atomic_write).
LEMMA StepRefines ==
  FileInv /\ [FileNext]_fileVars => [Cell!CellNext]_(Cell!cellVars)
<1> SUFFICES ASSUME FileInv, [FileNext]_fileVars
             PROVE  [Cell!CellNext]_(Cell!cellVars)
  OBVIOUS
<1> USE DEF Cell!cellVars, Cell!CellNext, Cell!Store, Cell!MakeDurable,
            Cell!Crash
<1>1. ASSUME NEW w \in Writer, Rename(w) PROVE Cell!Store(target'.content)
                                               /\ target'.content \in Value
  BY <1>1 DEF Rename, FileInv, WholeAndSynced, FileTypeOK, File, At
<1>2. ASSUME NEW w \in Writer, SyncDir(w)
      PROVE  Cell!MakeDurable \/ UNCHANGED Cell!cellVars
  BY <1>2 DEF SyncDir
<1>3. ASSUME NEW w \in Writer,
             CreateTmp(w) \/ WriteAll(w) \/ SyncAll(w) \/ GiveUp(w)
      PROVE  UNCHANGED Cell!cellVars
  BY <1>3 DEF CreateTmp, WriteAll, SyncAll, GiveUp
<1>4. CASE Flush
  BY <1>4 DEF Flush
<1>5. CASE PowerLoss
  BY <1>5 DEF PowerLoss, FileInv, WholeAndSynced
<1>6. CASE UNCHANGED fileVars
  BY <1>6 DEF fileVars
<1> QED
  BY <1>1, <1>2, <1>3, <1>4, <1>5, <1>6 DEF FileNext, WriterStep

\* At every moment and after every crash the file is whole: it has one of the
\* contents that were written, for every number of writers (atomic_write).
THEOREM WritesAreAtomic == FileSpec => ReplacesAtomically
<1>1. FileInit => Cell!CellInit
  BY DEF FileInit, Cell!CellInit
<1> QED
  BY <1>1, StepRefines, FileInvHolds, PTL
  DEF FileSpec, ReplacesAtomically, Cell!CellSpec

\* The file that has the name is always synced (atomic_write).
THEOREM TargetIsWhole == FileSpec => []WholeAndSynced
  BY FileInvHolds, PTL DEF FileInv

-----------------------------------------------------------------------------
(***************************************************************************)
(* upsert_ini_key sets the key, for every file.  The invariant relates the *)
(* two flags of the loop to the lines written so far.                      *)
(***************************************************************************)
IniTypeOK ==
    /\ ini \in Seq(Line) /\ content \in Seq(Line) /\ out \in Seq(Line)
    /\ next \in Nat \ {0}
    /\ inSection \in BOOLEAN /\ replaced \in BOOLEAN /\ finished \in BOOLEAN

\* What the flags mean.  The last conjunct shows that the test for the header
\* at the end of the code is never needed.
FlagsAreRight ==
    /\ inSection <=> InTheSection(out, Len(out))
    /\ replaced => \E j \in 1..Len(out) : IsTarget(out, j)
    /\ ~replaced /\ ~inSection => ~HasHeader(out)

ValuesAreNew ==
    \A j \in 1..Len(out) : IsTarget(out, j) => out[j].value = TheValue

IniInv ==
    /\ IniTypeOK
    /\ ValuesAreNew
    /\ ~finished => FlagsAreRight
    /\ finished => ~AtLine
    /\ KeyIsSet

LEMMA LineFacts ==
  /\ TheHeader \in Line /\ ThePair \in Line /\ Blank \in Line
  /\ TheHeader.kind = "header" /\ ThePair.kind = "pair" /\ Blank.kind = "blank"
  /\ ThePair.name = TheKey /\ ThePair.value = TheValue
<1>1. TheSection \in Section /\ TheKey \in Key /\ TheValue \in Val
  BY IniAssumption
<1>2. Header(TheSection) \in {Header(s) : s \in Section}
  BY <1>1
<1>3. Pair(TheKey, TheValue) \in {Pair(k, v) : k \in Key, v \in Val}
  BY <1>1
<1>4. TheHeader \in Line /\ ThePair \in Line /\ Blank \in Line
  BY <1>2, <1>3 DEF TheHeader, ThePair, Line
<1> QED
  BY <1>4 DEF TheHeader, ThePair, Header, Pair, Blank

\* What appending a line changes about sections and targets.
LEMMA AppendFacts ==
  ASSUME NEW s \in Seq(Line), NEW l \in Line
  PROVE  LET t == Append(s, l) IN
         /\ t \in Seq(Line) /\ Len(t) = Len(s) + 1
         /\ t[Len(t)] = l
         /\ \A j \in 1..Len(s) : t[j] = s[j]
         /\ \A j \in 0..Len(s) : InTheSection(t, j) <=> InTheSection(s, j)
         /\ InTheSection(t, Len(t)) <=>
               (l = TheHeader \/ (l.kind # "header" /\ InTheSection(s, Len(s))))
         /\ HasHeader(t) <=> (HasHeader(s) \/ l = TheHeader)
<1> DEFINE t == Append(s, l)
<1> HIDE DEF t
<1>1. t \in Seq(Line) /\ Len(t) = Len(s) + 1 /\ Len(s) \in Nat
  BY DEF t
<1>2. t[Len(t)] = l /\ \A j \in 1..Len(s) : t[j] = s[j]
  BY <1>1 DEF t
<1>3. \A j \in 0..Len(s) : InTheSection(t, j) <=> InTheSection(s, j)
  BY <1>1, <1>2, SMTT(30) DEF InTheSection
<1>4. ASSUME l = TheHeader PROVE InTheSection(t, Len(t))
  BY <1>1, <1>2, <1>4 DEF InTheSection
<1>5. ASSUME l.kind # "header", InTheSection(s, Len(s))
      PROVE  InTheSection(t, Len(t))
  <2>1. PICK h \in 1..Len(s) :
           s[h] = TheHeader /\ \A m \in h + 1..Len(s) : s[m].kind # "header"
    BY <1>5 DEF InTheSection
  <2>2. t[h] = TheHeader /\ h \in 1..Len(t)
    BY <1>1, <1>2, <2>1
  <2>3. ASSUME NEW m \in h + 1..Len(t) PROVE t[m].kind # "header"
    <3>1. CASE m = Len(t)
      BY <1>2, <1>5, <3>1
    <3>2. CASE m # Len(t)
      <4>1. m \in h + 1..Len(s) /\ m \in 1..Len(s)
        BY <1>1, <2>1, <3>2
      <4> QED
        BY <1>2, <2>1, <4>1
    <3> QED
      BY <3>1, <3>2
  <2> QED
    BY <2>2, <2>3 DEF InTheSection
<1>6. ASSUME InTheSection(t, Len(t)), l # TheHeader
      PROVE  l.kind # "header" /\ InTheSection(s, Len(s))
  <2>1. PICK h \in 1..Len(t) :
           t[h] = TheHeader /\ \A m \in h + 1..Len(t) : t[m].kind # "header"
    BY <1>6 DEF InTheSection
  <2>2. h \in 1..Len(s)
    BY <1>1, <1>2, <1>6, <2>1
  <2>3. l.kind # "header"
    BY <1>1, <1>2, <2>1, <2>2
  <2>4. \A m \in h + 1..Len(s) : s[m].kind # "header"
    BY <1>1, <1>2, <2>1, <2>2
  <2> QED
    BY <1>2, <2>1, <2>2, <2>3, <2>4 DEF InTheSection
<1>7. HasHeader(t) <=> (HasHeader(s) \/ l = TheHeader)
  BY <1>1, <1>2 DEF HasHeader
<1> QED
  BY <1>1, <1>2, <1>3, <1>4, <1>5, <1>6, <1>7 DEF t

\* Appending a line that is not the key with another value keeps the targets.
LEMMA AppendTargets ==
  ASSUME NEW s \in Seq(Line), NEW l \in Line
  PROVE  LET t == Append(s, l) IN
         /\ \A j \in 1..Len(s) : IsTarget(t, j) <=> IsTarget(s, j)
         /\ IsTarget(t, Len(t)) <=>
               (l.kind = "pair" /\ l.name = TheKey /\ InTheSection(s, Len(s)))
<1> DEFINE t == Append(s, l)
<1> HIDE DEF t
<1>1. /\ t \in Seq(Line) /\ Len(t) = Len(s) + 1 /\ Len(s) \in Nat
      /\ t[Len(t)] = l
      /\ \A j \in 1..Len(s) : t[j] = s[j]
      /\ \A j \in 0..Len(s) : InTheSection(t, j) <=> InTheSection(s, j)
      /\ InTheSection(t, Len(t)) <=>
            (l = TheHeader \/ (l.kind # "header" /\ InTheSection(s, Len(s))))
  BY AppendFacts DEF t
<1>2. \A j \in 1..Len(s) : IsTarget(t, j) <=> IsTarget(s, j)
  BY <1>1 DEF IsTarget
<1>3. l.kind = "pair" => l # TheHeader /\ l.kind # "header"
  BY LineFacts
<1>4. IsTarget(t, Len(t)) <=>
         (l.kind = "pair" /\ l.name = TheKey /\ InTheSection(s, Len(s)))
  BY <1>1, <1>3 DEF IsTarget
<1> QED
  BY <1>2, <1>4 DEF t

\* What a step appends when it appends one line: the three facts the loop keeps.
LEMMA AppendKeeps ==
  ASSUME out \in Seq(Line), NEW l \in Line, ValuesAreNew,
         (l.kind = "pair" /\ l.name = TheKey /\ InTheSection(out, Len(out)))
            => l.value = TheValue,
         out' = Append(out, l)
  PROVE  /\ ValuesAreNew'
         /\ (\E j \in 1..Len(out) : IsTarget(out, j))
               => \E j \in 1..Len(out') : IsTarget(out', j)
<1>1. /\ out' \in Seq(Line) /\ Len(out') = Len(out) + 1 /\ Len(out) \in Nat
      /\ out'[Len(out')] = l
      /\ \A j \in 1..Len(out) : out'[j] = out[j]
  BY AppendFacts
<1>2. /\ \A j \in 1..Len(out) : IsTarget(out', j) <=> IsTarget(out, j)
      /\ IsTarget(out', Len(out')) <=>
            (l.kind = "pair" /\ l.name = TheKey /\ InTheSection(out, Len(out)))
  BY AppendTargets
<1>3. ASSUME NEW j \in 1..Len(out'), IsTarget(out', j)
      PROVE  out'[j].value = TheValue
  <2>1. CASE j = Len(out')
    BY <1>1, <1>2, <1>3, <2>1
  <2>2. CASE j # Len(out')
    <3>1. j \in 1..Len(out)
      BY <1>1, <2>2
    <3> QED
      BY <1>1, <1>2, <1>3, <3>1 DEF ValuesAreNew
  <2> QED
    BY <2>1, <2>2
<1>4. ValuesAreNew'
  BY <1>3 DEF ValuesAreNew
<1>5. ASSUME NEW j \in 1..Len(out), IsTarget(out, j)
      PROVE  \E k \in 1..Len(out') : IsTarget(out', k)
  <2>1. j \in 1..Len(out') /\ IsTarget(out', j)
    BY <1>1, <1>2, <1>5
  <2> QED
    BY <2>1
<1> QED
  BY <1>4, <1>5

LEMMA CurrentIsLine ==
  ASSUME IniTypeOK, AtLine
  PROVE  Current \in Line
  BY DEF IniTypeOK, AtLine, Current

LEMMA InitHolds == IniInit => IniInv
<1> SUFFICES ASSUME IniInit PROVE IniInv
  OBVIOUS
<1>1. /\ ini \in Seq(Line) /\ content \in Seq(Line) /\ out \in Seq(Line)
      /\ out = <<>> /\ Len(out) = 0
  <2>1. ini \in Seq(Line) /\ out = <<>>
    BY IniAssumption DEF IniInit
  <2>2. content = ini \/ content = <<>>
    BY DEF IniInit
  <2>3. <<>> \in Seq(Line) /\ Len(<<>>) = 0
    OBVIOUS
  <2>4. CASE content = ini
    BY <2>1, <2>3, <2>4
  <2>5. CASE content = <<>>
    BY <2>1, <2>3, <2>5
  <2> QED
    BY <2>2, <2>4, <2>5
<1>2. IniTypeOK
  <2>1. next \in Nat \ {0}
    BY DEF IniInit
  <2>2. inSection \in BOOLEAN /\ replaced \in BOOLEAN /\ finished \in BOOLEAN
    BY DEF IniInit
  <2> QED
    BY <1>1, <2>1, <2>2 DEF IniTypeOK
<1>3. ~InTheSection(out, Len(out)) /\ ~HasHeader(out)
  BY <1>1 DEF InTheSection, HasHeader
<1> QED
  BY <1>1, <1>2, <1>3 DEF IniInv, ValuesAreNew, FlagsAreRight, KeyIsSet, IniInit

LEMMA EnterSectionKeeps == IniInv /\ EnterSection => IniInv'
<1> SUFFICES ASSUME IniInv, EnterSection PROVE IniInv'
  OBVIOUS
<1>1. /\ ValuesAreNew /\ out \in Seq(Line) /\ Current \in Line
      /\ AtLine /\ Current = TheHeader /\ Current.kind = "header"
      /\ out' = Append(out, Current) /\ out' \in Seq(Line)
      /\ ~finished /\ ~finished'
  BY CurrentIsLine, LineFacts
     DEF IniInv, IniTypeOK, EnterSection, Advance
<1>2. IniTypeOK'
  BY <1>1 DEF IniInv, IniTypeOK, EnterSection, Advance
<1>3. /\ ValuesAreNew'
      /\ (\E j \in 1..Len(out) : IsTarget(out, j))
            => \E j \in 1..Len(out') : IsTarget(out', j)
  BY <1>1, AppendKeeps
<1>4. InTheSection(out', Len(out'))
  BY <1>1, AppendFacts
<1>5. FlagsAreRight'
  BY <1>1, <1>3, <1>4 DEF IniInv, FlagsAreRight, EnterSection
<1> QED
  BY <1>1, <1>2, <1>3, <1>5 DEF IniInv, KeyIsSet

LEMMA LeaveSectionKeeps == IniInv /\ LeaveSection => IniInv'
<1> SUFFICES ASSUME IniInv, LeaveSection PROVE IniInv'
  OBVIOUS
<1>1. /\ IniTypeOK /\ ValuesAreNew /\ out \in Seq(Line)
      /\ AtLine /\ Current # TheHeader /\ Current \in Line
      /\ Current.kind = "header"
      /\ inSection' = FALSE /\ ~finished /\ ~finished'
      /\ finished' = finished
  BY CurrentIsLine DEF IniInv, IniTypeOK, LeaveSection, Advance
<1>2. CASE inSection /\ ~replaced
  <2> DEFINE mid == Append(out, ThePair)
  <2>1. ThePair \in Line /\ ThePair.kind = "pair" /\ ThePair.name = TheKey
        /\ ThePair.value = TheValue
    BY LineFacts
  <2>2. mid \in Seq(Line) /\ out' = Append(mid, Current) /\ replaced' = TRUE
    BY <1>1, <1>2, <2>1, AppendFacts DEF LeaveSection
  <2>3. IniTypeOK'
    <3>1. out' \in Seq(Line)
      BY <1>1, <2>2
    <3>2. next' \in Nat \ {0} /\ ini' \in Seq(Line) /\ content' \in Seq(Line)
      BY DEF IniInv, IniTypeOK, LeaveSection, Advance
    <3>3. /\ inSection' \in BOOLEAN /\ replaced' \in BOOLEAN
          /\ finished' \in BOOLEAN
      BY <1>1, <2>2 DEF IniInv, IniTypeOK
    <3> QED
      BY <3>1, <3>2, <3>3 DEF IniTypeOK
  <2>4. /\ \A j \in 1..Len(out) : mid[j] = out[j]
        /\ Len(mid) = Len(out) + 1 /\ mid[Len(mid)] = ThePair
        /\ Len(out) \in Nat
    BY <1>1, <2>1, AppendFacts
  <2>5. \A j \in 1..Len(out) : IsTarget(mid, j) <=> IsTarget(out, j)
    BY <1>1, <2>1, AppendTargets
  <2>6. \A j \in 1..Len(mid) : IsTarget(mid, j) => mid[j].value = TheValue
    <3> SUFFICES ASSUME NEW j \in 1..Len(mid), IsTarget(mid, j)
                 PROVE  mid[j].value = TheValue
      OBVIOUS
    <3>1. j = Len(mid) \/ j \in 1..Len(out)
      BY <2>4
    <3> QED
      BY <1>1, <2>1, <2>4, <2>5, <3>1 DEF ValuesAreNew
  <2>7. /\ Len(out') = Len(mid) + 1 /\ out'[Len(out')] = Current
        /\ \A j \in 1..Len(mid) : out'[j] = mid[j]
    BY <1>1, <2>2, AppendFacts
  <2>8. /\ \A j \in 1..Len(mid) : IsTarget(out', j) <=> IsTarget(mid, j)
        /\ ~IsTarget(out', Len(out'))
    BY <1>1, <2>2, AppendTargets
  <2>9. ValuesAreNew'
    <3> SUFFICES ASSUME NEW j \in 1..Len(out'), IsTarget(out', j)
                 PROVE  out'[j].value = TheValue
      BY DEF ValuesAreNew
    <3>1. j \in 1..Len(mid)
      BY <2>4, <2>7, <2>8
    <3> QED
      BY <2>6, <2>7, <2>8, <3>1
  <2>10. InTheSection(out, Len(out))
    BY <1>1, <1>2 DEF IniInv, FlagsAreRight
  <2>11. IsTarget(mid, Len(mid))
    BY <1>1, <2>1, <2>10, AppendTargets
  <2>12. Len(mid) \in 1..Len(mid) /\ Len(mid) \in 1..Len(out')
    BY <2>4, <2>7
  <2>13. \E j \in 1..Len(out') : IsTarget(out', j)
    BY <2>8, <2>11, <2>12
  <2>14. ~InTheSection(out', Len(out'))
    BY <1>1, <2>2, AppendFacts
  <2>15. FlagsAreRight'
    BY <1>1, <2>2, <2>13, <2>14 DEF FlagsAreRight
  <2> QED
    BY <1>1, <2>3, <2>9, <2>15 DEF IniInv, KeyIsSet
<1>3. CASE ~(inSection /\ ~replaced)
  <2>1. out' = Append(out, Current) /\ replaced' = replaced
    BY <1>3 DEF LeaveSection
  <2>2. IniTypeOK'
    <3>1. out' \in Seq(Line)
      BY <1>1, <2>1
    <3>2. next' \in Nat \ {0} /\ ini' \in Seq(Line) /\ content' \in Seq(Line)
      BY DEF IniInv, IniTypeOK, LeaveSection, Advance
    <3>3. /\ inSection' \in BOOLEAN /\ replaced' \in BOOLEAN
          /\ finished' \in BOOLEAN
      BY <1>1, <2>1 DEF IniInv, IniTypeOK
    <3> QED
      BY <3>1, <3>2, <3>3 DEF IniTypeOK
  <2>3. /\ ValuesAreNew'
        /\ (\E j \in 1..Len(out) : IsTarget(out, j))
              => \E j \in 1..Len(out') : IsTarget(out', j)
    BY <1>1, <2>1, AppendKeeps
  <2>4. ~InTheSection(out', Len(out')) /\ (HasHeader(out') <=> HasHeader(out))
    BY <1>1, <2>1, AppendFacts
  <2>5. FlagsAreRight'
    BY <1>1, <1>3, <2>1, <2>3, <2>4 DEF IniInv, FlagsAreRight
  <2> QED
    BY <1>1, <2>2, <2>3, <2>5 DEF IniInv, KeyIsSet
<1> QED
  BY <1>2, <1>3

LEMMA CopyOrReplaceKeeps == IniInv /\ CopyOrReplace => IniInv'
<1> SUFFICES ASSUME IniInv, CopyOrReplace PROVE IniInv'
  OBVIOUS
<1>1. /\ ValuesAreNew /\ out \in Seq(Line)
      /\ AtLine /\ Current \in Line /\ Current.kind # "header"
      /\ inSection' = inSection /\ ~finished /\ ~finished'
  BY CurrentIsLine DEF IniInv, IniTypeOK, CopyOrReplace, Advance
<1>2. /\ ThePair \in Line /\ ThePair.kind = "pair" /\ ThePair.kind # "header"
      /\ ThePair.name = TheKey /\ ThePair.value = TheValue
  BY LineFacts
<1> DEFINE l == IF IsTheKey THEN ThePair ELSE Current
<1>3. /\ l \in Line /\ l.kind # "header" /\ l # TheHeader
      /\ out' = Append(out, l) /\ out' \in Seq(Line)
      /\ replaced' \in BOOLEAN /\ (replaced' <=> (IsTheKey \/ replaced))
  <2>1. CASE IsTheKey
    <3>1. l = ThePair
      BY <2>1
    <3>2. out' = Append(out, ThePair) /\ replaced' = TRUE
      BY <2>1 DEF CopyOrReplace
    <3>3. ThePair # TheHeader
      BY <1>2, LineFacts
    <3> QED
      BY <1>1, <1>2, <2>1, <3>1, <3>2, <3>3
  <2>2. CASE ~IsTheKey
    <3>1. l = Current /\ out' = Append(out, Current) /\ replaced' = replaced
      BY <2>2 DEF CopyOrReplace
    <3>2. TheHeader.kind = "header" /\ replaced \in BOOLEAN
      BY LineFacts DEF IniInv, IniTypeOK
    <3> QED
      BY <1>1, <2>2, <3>1, <3>2
  <2> QED
    BY <2>1, <2>2
<1>4. IniTypeOK'
  BY <1>1, <1>3 DEF IniInv, IniTypeOK, CopyOrReplace, Advance, IsTheKey
<1>5. inSection <=> InTheSection(out, Len(out))
  BY <1>1 DEF IniInv, FlagsAreRight
<1>6. (l.kind = "pair" /\ l.name = TheKey /\ InTheSection(out, Len(out)))
         => l.value = TheValue
  BY <1>2, <1>5 DEF IsTheKey
<1> HIDE DEF l
<1>7. /\ ValuesAreNew'
      /\ (\E j \in 1..Len(out) : IsTarget(out, j))
            => \E j \in 1..Len(out') : IsTarget(out', j)
  BY <1>1, <1>3, <1>6, AppendKeeps
<1>8. /\ InTheSection(out', Len(out')) <=> InTheSection(out, Len(out))
      /\ HasHeader(out') <=> HasHeader(out)
  BY <1>1, <1>3, AppendFacts
<1>9. ASSUME IsTheKey PROVE \E j \in 1..Len(out') : IsTarget(out', j)
  <2>1. IsTarget(out', Len(out'))
    BY <1>1, <1>2, <1>3, <1>5, <1>9, AppendTargets DEF IsTheKey, l
  <2>2. Len(out') \in 1..Len(out')
    BY <1>1, <1>3, AppendFacts
  <2> QED
    BY <2>1, <2>2
<1>10. FlagsAreRight'
  BY <1>1, <1>3, <1>5, <1>7, <1>8, <1>9 DEF IniInv, FlagsAreRight, IsTheKey
<1> QED
  BY <1>1, <1>4, <1>7, <1>10 DEF IniInv, KeyIsSet

\* The blank line that sets a new section off is no occurrence of the key.
LEMMA SeparatedValues ==
  ASSUME out \in Seq(Line), ValuesAreNew
  PROVE  /\ Separated \in Seq(Line)
         /\ \A j \in 1..Len(Separated) :
               IsTarget(Separated, j) => Separated[j].value = TheValue
<1>1. CASE AllBlank(content)
  BY <1>1 DEF Separated, ValuesAreNew
<1>2. CASE ~AllBlank(content)
  <2>1. Separated = Append(out, Blank) /\ Blank \in Line /\ Blank.kind = "blank"
    BY <1>2, LineFacts DEF Separated
  <2>2. /\ Separated \in Seq(Line) /\ Len(Separated) = Len(out) + 1
        /\ Len(out) \in Nat
        /\ \A j \in 1..Len(out) : Separated[j] = out[j]
    BY <2>1, AppendFacts
  <2>3. /\ \A j \in 1..Len(out) : IsTarget(Separated, j) <=> IsTarget(out, j)
        /\ ~IsTarget(Separated, Len(Separated))
    BY <2>1, AppendTargets
  <2>4. \A j \in 1..Len(Separated) : j = Len(Separated) \/ j \in 1..Len(out)
    BY <2>2
  <2> QED
    BY <2>2, <2>3, <2>4 DEF ValuesAreNew
<1> QED
  BY <1>1, <1>2

LEMMA AtEndKeeps == IniInv /\ AtEnd => IniInv'
<1> SUFFICES ASSUME IniInv, AtEnd PROVE IniInv'
  OBVIOUS
<1>1. /\ ValuesAreNew /\ out \in Seq(Line) /\ ~AtLine /\ ~finished
      /\ finished' /\ ~AtLine' /\ FlagsAreRight
      /\ ini' = ini /\ content' = content /\ next' = next
      /\ inSection' = inSection /\ replaced' = replaced
  BY DEF IniInv, IniTypeOK, AtEnd, AtLine
<1>2. /\ TheHeader \in Line /\ TheHeader.kind = "header"
      /\ ThePair \in Line /\ ThePair.kind = "pair"
      /\ ThePair.name = TheKey /\ ThePair.value = TheValue
  BY LineFacts
<1>3. SUFFICES /\ out' \in Seq(Line) /\ ValuesAreNew'
               /\ \E j \in 1..Len(out') : IsTarget(out', j)
  <2> finished' \in BOOLEAN
    BY DEF AtEnd
  <2> QED
    BY <1>1, <1>3 DEF IniInv, IniTypeOK, KeyIsSet, ValuesAreNew
<1>4. CASE replaced
  <2>1. out' = out
    BY <1>4 DEF AtEnd
  <2> QED
    BY <1>1, <1>4, <2>1 DEF FlagsAreRight, ValuesAreNew
<1>5. CASE ~replaced /\ inSection
  <2>1. out' = Append(out, ThePair)
    BY <1>5 DEF AtEnd
  <2>2. ValuesAreNew'
    BY <1>1, <1>2, <2>1, AppendKeeps
  <2>3. IsTarget(out', Len(out'))
    BY <1>1, <1>2, <1>5, <2>1, AppendTargets DEF FlagsAreRight
  <2>4. out' \in Seq(Line) /\ Len(out') \in 1..Len(out')
    BY <1>1, <1>2, <2>1
  <2> QED
    BY <2>2, <2>3, <2>4
<1>6. CASE ~replaced /\ ~inSection
  <2> DEFINE mid == Append(Separated, TheHeader)
  <2>0. /\ Separated \in Seq(Line)
        /\ \A j \in 1..Len(Separated) :
              IsTarget(Separated, j) => Separated[j].value = TheValue
    BY <1>1, SeparatedValues
  <2>1. ~HasHeader(out)
    BY <1>1, <1>6 DEF FlagsAreRight
  <2>2. mid \in Seq(Line) /\ out' = Append(mid, ThePair)
    BY <1>2, <1>6, <2>0, <2>1 DEF AtEnd
  <2>3. /\ Len(mid) = Len(Separated) + 1 /\ mid[Len(mid)] = TheHeader
        /\ \A j \in 1..Len(Separated) : mid[j] = Separated[j]
        /\ InTheSection(mid, Len(mid)) /\ Len(Separated) \in Nat
    BY <1>2, <2>0, AppendFacts
  <2>4. /\ \A j \in 1..Len(Separated) : IsTarget(mid, j) <=> IsTarget(Separated, j)
        /\ ~IsTarget(mid, Len(mid))
    BY <1>2, <2>0, AppendTargets
  <2>5. /\ out' \in Seq(Line) /\ Len(out') = Len(mid) + 1
        /\ out'[Len(out')] = ThePair
        /\ \A j \in 1..Len(mid) : out'[j] = mid[j]
    BY <1>2, <2>2, AppendFacts
  <2>6. /\ \A j \in 1..Len(mid) : IsTarget(out', j) <=> IsTarget(mid, j)
        /\ IsTarget(out', Len(out'))
    BY <1>2, <2>2, <2>3, AppendTargets
  <2>7. ASSUME NEW j \in 1..Len(out'), IsTarget(out', j)
        PROVE  out'[j].value = TheValue
    <3>1. j = Len(out') \/ j = Len(mid) \/ j \in 1..Len(Separated)
      BY <2>3, <2>5
    <3>2. CASE j = Len(out')
      BY <1>2, <2>5, <3>2
    <3>3. CASE j = Len(mid)
      BY <2>3, <2>4, <2>6, <2>7, <3>3
    <3>4. CASE j \in 1..Len(Separated)
      BY <2>0, <2>3, <2>4, <2>5, <2>6, <2>7, <3>4
    <3> QED
      BY <3>1, <3>2, <3>3, <3>4
  <2>8. Len(out') \in 1..Len(out')
    BY <2>3, <2>5
  <2> QED
    BY <2>5, <2>6, <2>7, <2>8 DEF ValuesAreNew
<1> QED
  BY <1>4, <1>5, <1>6

\* When upsert_ini_key is done the key is in its section, and has the new value
\* wherever it is there: for every file, and every section, key and value.
THEOREM UpsertSetsTheKey == IniSpec => []KeyIsSet
<1>1. IniInv /\ [IniNext]_iniVars => IniInv'
  <2> SUFFICES ASSUME IniInv, [IniNext]_iniVars PROVE IniInv'
    OBVIOUS
  <2>1. CASE UNCHANGED iniVars
    BY <2>1 DEF IniInv, IniTypeOK, ValuesAreNew, FlagsAreRight, KeyIsSet, AtLine,
                iniVars
  <2> QED
    BY <2>1, EnterSectionKeeps, LeaveSectionKeeps, CopyOrReplaceKeeps,
       AtEndKeeps DEF IniNext
<1>2. IniInv => KeyIsSet
  BY DEF IniInv
<1> QED
  BY <1>1, <1>2, InitHolds, PTL DEF IniSpec

-----------------------------------------------------------------------------
(***************************************************************************)
(* upsert_ini_key leaves everything else as it was.  What is said of a file *)
(* is said of its first n lines, so that the file that is read and the one *)
(* that is written grow by one line in the same way.                       *)
(***************************************************************************)
\* What one more line changes.
LEMMA OneMoreLine ==
  ASSUME NEW s \in Seq(Line), NEW n \in Nat, n < Len(s)
  PROVE  /\ InTheSection(s, n + 1) <=>
              \/ s[n + 1] = TheHeader
              \/ s[n + 1].kind # "header" /\ InTheSection(s, n)
         /\ IsTarget(s, n + 1) <=>
              /\ s[n + 1].kind = "pair" /\ s[n + 1].name = TheKey
              /\ InTheSection(s, n)
         /\ SectionAt(s, n + 1) = IF s[n + 1].kind = "header"
                                  THEN {s[n + 1].name} ELSE SectionAt(s, n)
<1>. DEFINE k == n + 1
<1>1. k \in 1..Len(s) /\ k \in Nat /\ Len(s) \in Nat
  OBVIOUS
<1>2. TheHeader.kind = "header" /\ s[k] \in Line
  BY <1>1, LineFacts
<1>3. InTheSection(s, k) <=>
         (s[k] = TheHeader \/ (s[k].kind # "header" /\ InTheSection(s, n)))
  <2>1. ASSUME s[k] = TheHeader PROVE InTheSection(s, k)
    BY <1>1, <2>1 DEF InTheSection
  <2>2. ASSUME s[k].kind # "header", InTheSection(s, n) PROVE InTheSection(s, k)
    <3>1. PICK h \in 1..n :
             s[h] = TheHeader /\ \A m \in h + 1..n : s[m].kind # "header"
      BY <2>2 DEF InTheSection
    <3>2. \A m \in h + 1..k : m = k \/ m \in h + 1..n
      OBVIOUS
    <3>. QED
      BY <2>2, <3>1, <3>2 DEF InTheSection
  <2>3. ASSUME InTheSection(s, k), s[k] # TheHeader
        PROVE  s[k].kind # "header" /\ InTheSection(s, n)
    <3>1. PICK h \in 1..k :
             s[h] = TheHeader /\ \A m \in h + 1..k : s[m].kind # "header"
      BY <2>3 DEF InTheSection
    <3>2. h \in 1..n /\ k \in h + 1..k /\ \A m \in h + 1..n : m \in h + 1..k
      BY <2>3, <3>1
    <3>. QED
      BY <3>1, <3>2 DEF InTheSection
  <2>. QED
    BY <2>1, <2>2, <2>3
<1>4. IsTarget(s, k) <=>
         (s[k].kind = "pair" /\ s[k].name = TheKey /\ InTheSection(s, n))
  BY <1>2, <1>3 DEF IsTarget
<1>5. CASE s[k].kind = "header"
  <2>1. \A h \in 1..k : IsLastHeader(s, h, k) <=> h = k
    BY <1>1, <1>5 DEF IsLastHeader
  <2>2. SectionAt(s, k) = {s[k].name}
    BY <1>1, <2>1 DEF SectionAt
  <2>. QED
    BY <1>3, <1>4, <1>5, <2>2
<1>6. CASE s[k].kind # "header"
  <2>1. ASSUME NEW h \in 1..k
        PROVE  IsLastHeader(s, h, k) <=> h \in 1..n /\ IsLastHeader(s, h, n)
    <3>1. CASE h = k
      BY <1>6, <3>1 DEF IsLastHeader
    <3>2. CASE h # k
      <4>1. h \in 1..n /\ \A m \in h + 1..k : m = k \/ m \in h + 1..n
        BY <3>2
      <4>2. \A m \in h + 1..n : m \in h + 1..k
        OBVIOUS
      <4>. QED
        BY <1>6, <4>1, <4>2 DEF IsLastHeader
    <3>. QED
      BY <3>1, <3>2
  <2>2. {i \in 1..k : IsLastHeader(s, i, k)} = {i \in 1..n : IsLastHeader(s, i, n)}
    BY <2>1
  <2>3. SectionAt(s, k) = SectionAt(s, n)
    BY <2>2 DEF SectionAt
  <2>. QED
    BY <1>3, <1>4, <1>6, <2>3
<1>. QED
  BY <1>5, <1>6

\* One more line is one more of the others, at the end of them, or none.
LEMMA OneMoreOther ==
  ASSUME NEW s \in Seq(Line), NEW n \in Nat, n < Len(s)
  PROVE  /\ OtherCount(s, n) \in Nat
         /\ IsTarget(s, n + 1) =>
              /\ OtherCount(s, n + 1) = OtherCount(s, n)
              /\ Others(s, n + 1) = Others(s, n)
         /\ ~IsTarget(s, n + 1) =>
              /\ OtherCount(s, n + 1) = OtherCount(s, n) + 1
              /\ Others(s, n + 1) = Others(s, n) \union
                   {<<OtherCount(s, n) + 1, SectionAt(s, n + 1), s[n + 1]>>}
<1>. DEFINE other(j) == {m \in 1..j : ~IsTarget(s, m)}
           place(j) == <<OtherCount(s, j), SectionAt(s, j), s[j]>>
<1>1. IsFiniteSet(other(n)) /\ Cardinality(other(n)) \in Nat
  <2>1. IsFiniteSet(1..n)
    BY FS_Interval
  <2>. QED
    BY <2>1, FS_Subset, FS_CardinalityType
<1>2. OtherCount(s, n) = Cardinality(other(n)) /\ OtherCount(s, n + 1) = Cardinality(other(n + 1))
  BY DEF OtherCount
<1>3. /\ Others(s, n) = {place(j) : j \in other(n)}
      /\ Others(s, n + 1) = {place(j) : j \in other(n + 1)}
  BY DEF Others
<1>4. CASE IsTarget(s, n + 1)
  <2>1. other(n + 1) = other(n)
    BY <1>4
  <2>. QED
    BY <1>1, <1>2, <1>3, <1>4, <2>1
<1>5. CASE ~IsTarget(s, n + 1)
  <2>1. other(n + 1) = other(n) \union {n + 1} /\ n + 1 \notin other(n)
    BY <1>5
  <2>2. Cardinality(other(n + 1)) = Cardinality(other(n)) + 1
    BY <1>1, <2>1, FS_AddElement
  <2>3. {place(j) : j \in other(n + 1)} = {place(j) : j \in other(n)} \union {place(n + 1)}
    BY <2>1
  <2>. QED
    BY <1>1, <1>2, <1>3, <1>5, <2>2, <2>3
<1>. QED
  BY <1>4, <1>5

\* A line that is appended changes nothing about those before it.
LEMMA OthersStay ==
  ASSUME NEW s \in Seq(Line), NEW l \in Line, NEW n \in 0..Len(s)
  PROVE  /\ InTheSection(Append(s, l), n) <=> InTheSection(s, n)
         /\ SectionAt(Append(s, l), n) = SectionAt(s, n)
         /\ OtherCount(Append(s, l), n) = OtherCount(s, n)
         /\ Others(Append(s, l), n) = Others(s, n)
<1>. DEFINE t == Append(s, l)
<1>. HIDE DEF t
<1>1. /\ Len(s) \in Nat
      /\ \A j \in 1..Len(s) : t[j] = s[j]
      /\ \A j \in 0..Len(s) : InTheSection(t, j) <=> InTheSection(s, j)
      /\ \A j \in 1..Len(s) : IsTarget(t, j) <=> IsTarget(s, j)
  BY AppendFacts, AppendTargets DEF t
<1>2. \A j \in 0..n : SectionAt(t, j) = SectionAt(s, j)
  <2>. SUFFICES ASSUME NEW j \in 0..n PROVE SectionAt(t, j) = SectionAt(s, j)
    OBVIOUS
  <2>1. \A h \in 1..j : t[h] = s[h]
    BY <1>1
  <2>2. \A i \in 1..j : IsLastHeader(t, i, j) <=> IsLastHeader(s, i, j)
    BY <2>1 DEF IsLastHeader
  <2>. QED
    BY <2>1, <2>2 DEF SectionAt
<1>3. \A j \in 0..n : OtherCount(t, j) = OtherCount(s, j)
  <2>. SUFFICES ASSUME NEW j \in 0..n PROVE OtherCount(t, j) = OtherCount(s, j)
    OBVIOUS
  <2>1. {m \in 1..j : ~IsTarget(t, m)} = {m \in 1..j : ~IsTarget(s, m)}
    BY <1>1
  <2>. QED
    BY <2>1 DEF OtherCount
<1>4. Others(t, n) = Others(s, n)
  <2>1. {m \in 1..n : ~IsTarget(t, m)} = {m \in 1..n : ~IsTarget(s, m)}
    BY <1>1
  <2>2. \A j \in 1..n : t[j] = s[j] /\ j \in 0..n
    BY <1>1
  <2>. QED
    BY <1>2, <1>3, <2>1, <2>2 DEF Others
<1>. QED
  BY <1>1, <1>2, <1>3, <1>4 DEF t

\* The first m lines of t and the first n of s have the same others.
Same(t, m, s, n) ==
    /\ InTheSection(t, m) <=> InTheSection(s, n)
    /\ SectionAt(t, m) = SectionAt(s, n)
    /\ OtherCount(t, m) = OtherCount(s, n)
    /\ Others(t, m) = Others(s, n)

\* The key, appended in its section, is none of them.
LEMMA SameWithTheKey ==
  ASSUME NEW t \in Seq(Line), InTheSection(t, Len(t))
  PROVE  Same(Append(t, ThePair), Len(t) + 1, t, Len(t))
<1>. DEFINE new == Append(t, ThePair)
<1>. HIDE DEF new
<1>1. /\ new \in Seq(Line) /\ Len(new) = Len(t) + 1 /\ Len(t) \in Nat
      /\ new[Len(t) + 1] = ThePair /\ ThePair \in Line
      /\ ThePair.kind = "pair" /\ ThePair.name = TheKey
      /\ TheHeader.kind = "header"
  BY LineFacts, AppendFacts DEF new
<1>2. Same(new, Len(t), t, Len(t))
  BY <1>1, OthersStay DEF Same, new
<1>3. IsTarget(new, Len(t) + 1) /\ Same(new, Len(t) + 1, new, Len(t))
  <2>1. /\ IsTarget(new, Len(t) + 1) /\ InTheSection(new, Len(t) + 1)
        /\ SectionAt(new, Len(t) + 1) = SectionAt(new, Len(t))
    <3>. DEFINE k == Len(t)
    <3>1. k < Len(new) /\ k \in Nat /\ InTheSection(new, k)
      BY <1>1, <1>2 DEF Same
    <3>2. new[k + 1].kind = "pair" /\ new[k + 1].name = TheKey
      BY <1>1
    <3>. HIDE DEF k
    <3>3. /\ IsTarget(new, k + 1)
          /\ SectionAt(new, k + 1) = SectionAt(new, k)
      BY <1>1, <3>1, <3>2, OneMoreLine
    <3>4. InTheSection(new, k + 1)
      BY <3>3 DEF IsTarget
    <3>. QED
      BY <3>3, <3>4 DEF k
  <2>2. /\ OtherCount(new, Len(t) + 1) = OtherCount(new, Len(t))
        /\ Others(new, Len(t) + 1) = Others(new, Len(t))
    <3>1. Len(t) < Len(new)
      BY <1>1
    <3>. QED
      BY <1>1, <2>1, <3>1, OneMoreOther
  <2>. QED
    BY <1>1, <1>2, <2>1, <2>2 DEF Same
<1>. QED
  BY <1>2, <1>3 DEF Same, new

\* A line that is copied, or replaced because it is the key, is the next of
\* them on both sides, or on neither.
LEMMA SameWithTheLine ==
  ASSUME NEW s \in Seq(Line), NEW n \in Nat, n < Len(s),
         NEW t \in Seq(Line), NEW l \in Line,
         Same(t, Len(t), s, n),
         l = s[n + 1] \/ (l = ThePair /\ IsTarget(s, n + 1))
  PROVE  Same(Append(t, l), Len(t) + 1, s, n + 1)
<1>. DEFINE new == Append(t, l)
            k == Len(t)
<1>. HIDE DEF new
<1>1. /\ new \in Seq(Line) /\ Len(new) = k + 1 /\ k \in Nat /\ new[k + 1] = l
  BY AppendFacts DEF new
<1>2. Same(new, k, s, n)
  <2>1. Same(new, k, t, k)
    BY <1>1, OthersStay DEF Same, new
  <2>. QED
    BY <2>1 DEF Same
<1>3. CASE l = s[n + 1]
  <2>1. /\ InTheSection(new, k + 1) <=> InTheSection(s, n + 1)
        /\ IsTarget(new, k + 1) <=> IsTarget(s, n + 1)
        /\ SectionAt(new, k + 1) = SectionAt(s, n + 1)
    <3>1. /\ InTheSection(new, k + 1) <=>
               \/ l = TheHeader
               \/ l.kind # "header" /\ InTheSection(new, k)
          /\ IsTarget(new, k + 1) <=>
               (l.kind = "pair" /\ l.name = TheKey /\ InTheSection(new, k))
          /\ SectionAt(new, k + 1) =
               IF l.kind = "header" THEN {l.name} ELSE SectionAt(new, k)
      <4>1. k < Len(new)
        BY <1>1
      <4>. HIDE DEF k
      <4>. QED
        BY <1>1, <4>1, OneMoreLine
    <3>2. /\ InTheSection(s, n + 1) <=>
               \/ l = TheHeader
               \/ l.kind # "header" /\ InTheSection(s, n)
          /\ IsTarget(s, n + 1) <=>
               (l.kind = "pair" /\ l.name = TheKey /\ InTheSection(s, n))
          /\ SectionAt(s, n + 1) =
               IF l.kind = "header" THEN {l.name} ELSE SectionAt(s, n)
      BY <1>3, OneMoreLine
    <3>. QED
      BY <1>2, <3>1, <3>2 DEF Same
  <2>2. CASE IsTarget(s, n + 1)
    <3>1. /\ OtherCount(new, k + 1) = OtherCount(new, k)
          /\ Others(new, k + 1) = Others(new, k)
      BY <1>1, <2>1, <2>2, OneMoreOther
    <3>2. /\ OtherCount(s, n + 1) = OtherCount(s, n)
          /\ Others(s, n + 1) = Others(s, n)
      BY <2>2, OneMoreOther
    <3>. QED
      BY <1>2, <2>1, <3>1, <3>2 DEF Same, new
  <2>3. CASE ~IsTarget(s, n + 1)
    <3>1. /\ OtherCount(new, k + 1) = OtherCount(new, k) + 1
          /\ Others(new, k + 1) = Others(new, k) \union
               {<<OtherCount(new, k) + 1, SectionAt(new, k + 1), l>>}
      BY <1>1, <2>1, <2>3, OneMoreOther
    <3>2. /\ OtherCount(s, n + 1) = OtherCount(s, n) + 1
          /\ Others(s, n + 1) = Others(s, n) \union
               {<<OtherCount(s, n) + 1, SectionAt(s, n + 1), l>>}
      BY <1>3, <2>3, OneMoreOther
    <3>. QED
      BY <1>2, <2>1, <3>1, <3>2 DEF Same, new
  <2>. QED
    BY <2>2, <2>3
<1>4. CASE l = ThePair /\ IsTarget(s, n + 1)
  <2>1. /\ ThePair.kind = "pair" /\ ThePair.name = TheKey
        /\ TheHeader.kind = "header"
    BY LineFacts
  <2>2. /\ InTheSection(s, n) /\ InTheSection(s, n + 1)
        /\ SectionAt(s, n + 1) = SectionAt(s, n)
        /\ OtherCount(s, n + 1) = OtherCount(s, n)
        /\ Others(s, n + 1) = Others(s, n)
    BY <1>4, <2>1, OneMoreLine, OneMoreOther
  <2>3. InTheSection(t, k)
    BY <2>2 DEF Same
  <2>4. Same(new, k + 1, t, k)
    BY <1>4, <2>3, SameWithTheKey DEF new
  <2>. QED
    BY <2>2, <2>4 DEF Same, new
<1>. QED
  BY <1>3, <1>4

\* What was written has the others of what was read.
SameSoFar ==
    /\ next <= Len(content) + 1
    /\ ~finished => Same(out, Len(out), content, next - 1)

EditInv == IniInv /\ SameSoFar /\ OthersUntouched

LEMMA EditStarts == IniInit => EditInv
<1> SUFFICES ASSUME IniInit PROVE EditInv
  OBVIOUS
<1>1. IniInv /\ next = 1 /\ out = <<>> /\ finished = FALSE /\ content \in Seq(Line)
  BY InitHolds DEF IniInit, IniInv, IniTypeOK
<1>2. /\ InTheSection(out, 0) <=> InTheSection(content, 0)
      /\ SectionAt(out, 0) = SectionAt(content, 0)
  BY DEF InTheSection, SectionAt
<1>3. /\ {m \in 1..0 : ~IsTarget(out, m)} = {}
      /\ {m \in 1..0 : ~IsTarget(content, m)} = {}
  OBVIOUS
<1>4. Same(out, 0, content, 0)
  BY <1>2, <1>3 DEF Same, OtherCount, Others
<1>. QED
  BY <1>1, <1>4 DEF EditInv, SameSoFar, OthersUntouched

\* The loop, for one line.
LEMMA LoopKeepsOthers ==
  ASSUME EditInv, EnterSection \/ LeaveSection \/ CopyOrReplace
  PROVE  SameSoFar' /\ OthersUntouched'
<1>1. /\ content \in Seq(Line) /\ out \in Seq(Line) /\ next \in Nat \ {0}
      /\ next <= Len(content) /\ Current \in Line /\ Current = content[next]
      /\ next' = next + 1 /\ content' = content /\ ~finished /\ ~finished'
      /\ inSection <=> InTheSection(out, Len(out))
  BY CurrentIsLine
     DEF EditInv, IniInv, IniTypeOK, FlagsAreRight, EnterSection, LeaveSection,
         CopyOrReplace, Advance, AtLine, Current
<1>. DEFINE n == next - 1
<1>2. n \in Nat /\ n < Len(content) /\ n + 1 = next /\ next' - 1 = n + 1
  BY <1>1
<1>3. Same(out, Len(out), content, n)
  BY <1>1 DEF EditInv, SameSoFar
<1>4. SUFFICES Same(out', Len(out'), content, n + 1)
  BY <1>1, <1>2, <1>4 DEF SameSoFar, OthersUntouched
<1>5. ASSUME NEW t \in Seq(Line), NEW l \in Line, out' = Append(t, l),
             Same(t, Len(t), content, n),
             l = Current \/ (l = ThePair /\ IsTarget(content, n + 1))
      PROVE  Same(out', Len(out'), content, n + 1)
  <2>1. Len(out') = Len(t) + 1
    BY <1>5
  <2>. QED
    BY <1>1, <1>2, <1>5, <2>1, SameWithTheLine
<1>6. CASE out' = Append(out, Current)
  BY <1>1, <1>3, <1>5, <1>6
<1>7. CASE LeaveSection /\ inSection /\ ~replaced
  <2>. DEFINE mid == Append(out, ThePair)
  <2>1. out' = Append(mid, Current) /\ mid \in Seq(Line) /\ Len(mid) = Len(out) + 1
    BY <1>1, <1>7, LineFacts DEF LeaveSection
  <2>2. Same(mid, Len(mid), content, n)
    BY <1>1, <1>3, <1>7, <2>1, SameWithTheKey DEF Same
  <2>. QED
    BY <1>1, <1>5, <2>1, <2>2
<1>8. CASE CopyOrReplace /\ IsTheKey
  <2>1. out' = Append(out, ThePair) /\ ThePair \in Line
    BY <1>8, LineFacts DEF CopyOrReplace
  <2>2. InTheSection(content, n)
    BY <1>1, <1>3, <1>8 DEF Same, IsTheKey
  <2>3. IsTarget(content, n + 1)
    BY <1>1, <1>2, <1>8, <2>2, OneMoreLine DEF IsTheKey
  <2>. QED
    BY <1>1, <1>3, <1>5, <2>1, <2>3
<1>. QED
  BY <1>6, <1>7, <1>8 DEF EnterSection, LeaveSection, CopyOrReplace

\* A line that is no pair, appended, is the next of the others.
LEMMA AppendOther ==
  ASSUME NEW t \in Seq(Line), NEW l \in Line, l.kind # "pair"
  PROVE  LET new == Append(t, l) IN
         /\ new \in Seq(Line) /\ Len(new) = Len(t) + 1
         /\ InTheSection(new, Len(new)) <=>
               (l = TheHeader \/ (l.kind # "header" /\ InTheSection(t, Len(t))))
         /\ SectionAt(new, Len(new)) =
               IF l.kind = "header" THEN {l.name} ELSE SectionAt(t, Len(t))
         /\ OtherCount(new, Len(new)) = OtherCount(t, Len(t)) + 1
         /\ Others(new, Len(new)) = Others(t, Len(t)) \union
               {<<OtherCount(t, Len(t)) + 1, SectionAt(new, Len(new)), l>>}
<1>. DEFINE new == Append(t, l)
            k == Len(t)
<1>. HIDE DEF new
<1>1. /\ new \in Seq(Line) /\ Len(new) = k + 1 /\ k \in Nat /\ new[k + 1] = l
      /\ InTheSection(new, k + 1) <=>
            (l = TheHeader \/ (l.kind # "header" /\ InTheSection(t, k)))
  BY AppendFacts DEF new
<1>2. /\ SectionAt(new, k) = SectionAt(t, k)
      /\ OtherCount(new, k) = OtherCount(t, k)
      /\ Others(new, k) = Others(t, k)
  BY <1>1, OthersStay DEF new
<1>. HIDE DEF k
<1>3. k < Len(new)
  BY <1>1
<1>4. SectionAt(new, k + 1) = IF l.kind = "header" THEN {l.name} ELSE SectionAt(new, k)
  BY <1>1, <1>3, OneMoreLine
<1>5. ~IsTarget(new, k + 1)
  BY <1>1 DEF IsTarget
<1>6. /\ OtherCount(new, k + 1) = OtherCount(new, k) + 1
      /\ Others(new, k + 1) = Others(new, k) \union
           {<<OtherCount(new, k) + 1, SectionAt(new, k + 1), new[k + 1]>>}
  BY <1>1, <1>3, <1>5, OneMoreOther
<1>. QED
  BY <1>1, <1>2, <1>4, <1>6 DEF new, k

\* What is added at the end is the key, or the header and the key, with a blank
\* line before them if the file is not blank.
LEMMA AtEndKeepsOthers ==
  ASSUME EditInv, AtEnd
  PROVE  SameSoFar' /\ OthersUntouched'
<1>1. /\ content \in Seq(Line) /\ out \in Seq(Line) /\ next \in Nat
      /\ ini' = ini /\ content' = content /\ next' = next /\ finished'
      /\ next - 1 = Len(content) /\ Len(out) \in Nat
      /\ FlagsAreRight
  BY DEF EditInv, SameSoFar, IniInv, IniTypeOK, AtEnd, AtLine
<1>2. Same(out, Len(out), content, Len(content))
  BY <1>1 DEF EditInv, SameSoFar, AtEnd
<1>3. SameSoFar'
  BY <1>1 DEF EditInv, SameSoFar
<1>. DEFINE count == OtherCount(content, Len(content))
            others == Others(content, Len(content))
            header(j) == <<j, {TheSection}, TheHeader>>
            blank(j) == <<j, SectionAt(content, Len(content)), Blank>>
            Added(new) ==
                \/ new = others
                \/ AllBlank(content) /\ new = others \union {header(count + 1)}
                \/ /\ ~AllBlank(content)
                   /\ new = others \union {blank(count + 1), header(count + 2)}
<1>4. ASSUME Added(Others(out', Len(out'))) PROVE OthersUntouched'
  BY <1>1, <1>4 DEF OthersUntouched, AllBlank
<1>5. CASE out' = out
  <2>1. Others(out', Len(out')) = others
    BY <1>2, <1>5 DEF Same
  <2>. QED
    BY <1>3, <1>4, <2>1
<1>6. CASE ~replaced /\ inSection
  <2>1. out' = Append(out, ThePair) /\ Len(out') = Len(out) + 1
    BY <1>1, <1>6 DEF AtEnd
  <2>2. Same(out', Len(out'), out, Len(out))
    BY <1>1, <1>6, <2>1, SameWithTheKey DEF FlagsAreRight
  <2>3. Others(out', Len(out')) = others
    BY <1>2, <2>2 DEF Same
  <2>. QED
    BY <1>3, <1>4, <2>3
<1>7. CASE ~replaced /\ ~inSection
  <2>. DEFINE mid == Append(Separated, TheHeader)
  <2>. HIDE DEF mid
  <2>1. ~HasHeader(out) /\ out' = Append(mid, ThePair)
    BY <1>1, <1>7 DEF FlagsAreRight, AtEnd, mid
  <2>2. /\ TheHeader \in Line /\ TheHeader.kind = "header"
        /\ TheHeader.name = TheSection
        /\ Blank \in Line /\ Blank.kind = "blank"
    BY LineFacts DEF TheHeader, Header
  <2>3. count \in Nat
    <3>1. IsFiniteSet({j \in 1..Len(content) : ~IsTarget(content, j)})
      <4>1. IsFiniteSet(1..Len(content))
        BY <1>1, FS_Interval
      <4>. QED
        BY <4>1, FS_Subset
    <3>. QED
      BY <3>1, FS_CardinalityType DEF OtherCount
  <2>4. Separated \in Seq(Line)
    BY <1>1, <2>2 DEF Separated
  <2>5. /\ mid \in Seq(Line) /\ InTheSection(mid, Len(mid))
        /\ SectionAt(mid, Len(mid)) = {TheSection}
        /\ Others(mid, Len(mid)) = Others(Separated, Len(Separated)) \union
              {header(OtherCount(Separated, Len(Separated)) + 1)}
    BY <2>2, <2>4, AppendOther DEF mid
  <2>6. Others(out', Len(out')) = Others(mid, Len(mid))
    <3>1. Len(out') = Len(mid) + 1 /\ Same(out', Len(mid) + 1, mid, Len(mid))
      BY <2>1, <2>5, LineFacts, SameWithTheKey
    <3>. QED
      BY <3>1 DEF Same
  <2>7. CASE AllBlank(content)
    <3>1. Separated = out
      BY <2>7 DEF Separated
    <3>2. /\ Others(Separated, Len(Separated)) = others
          /\ OtherCount(Separated, Len(Separated)) = count
      BY <1>2, <3>1 DEF Same
    <3>3. Others(out', Len(out')) = others \union {header(count + 1)}
      BY <2>5, <2>6, <3>2
    <3>. QED
      BY <1>3, <1>4, <2>7, <3>3
  <2>8. CASE ~AllBlank(content)
    <3>1. Separated = Append(out, Blank)
      BY <2>8 DEF Separated
    <3>2. /\ SectionAt(Separated, Len(Separated)) = SectionAt(out, Len(out))
          /\ OtherCount(Separated, Len(Separated)) = OtherCount(out, Len(out)) + 1
          /\ Others(Separated, Len(Separated)) = Others(out, Len(out)) \union
                {<<OtherCount(out, Len(out)) + 1,
                   SectionAt(Separated, Len(Separated)), Blank>>}
      BY <1>1, <2>2, <3>1, AppendOther
    <3>3. /\ Others(Separated, Len(Separated)) = others \union {blank(count + 1)}
          /\ OtherCount(Separated, Len(Separated)) = count + 1
      BY <1>2, <3>2 DEF Same
    <3>4. (count + 1) + 1 = count + 2
      BY <2>3
    <3>5. Others(out', Len(out')) =
             others \union {blank(count + 1), header(count + 2)}
      BY <2>5, <2>6, <3>3, <3>4
    <3>. QED
      BY <1>3, <1>4, <2>8, <3>5
  <2>. QED
    BY <2>7, <2>8
<1>. QED
  BY <1>3, <1>5, <1>6, <1>7 DEF AtEnd

\* When upsert_ini_key is done, every line that is not an occurrence of the key
\* in its section is where it was among the others, in the section it was in;
\* what may be new is the header of the section, and a blank line before it in
\* a file that is not blank: for every file that can be read.
THEOREM UpsertTouchesNothingElse == IniSpec => []OthersUntouched
<1>1. EditInv /\ [IniNext]_iniVars => EditInv'
  <2> SUFFICES ASSUME EditInv, [IniNext]_iniVars PROVE EditInv'
    OBVIOUS
  <2>1. CASE UNCHANGED iniVars
    BY <2>1 DEF EditInv, IniInv, IniTypeOK, ValuesAreNew, FlagsAreRight, KeyIsSet,
                AtLine, SameSoFar, OthersUntouched, iniVars
  <2>2. CASE IniNext
    BY <2>2, EnterSectionKeeps, LeaveSectionKeeps, CopyOrReplaceKeeps,
       AtEndKeeps, LoopKeepsOthers, AtEndKeepsOthers DEF IniNext, EditInv
  <2> QED
    BY <2>1, <2>2
<1>2. EditInv => OthersUntouched
  BY DEF EditInv
<1> QED
  BY <1>1, <1>2, EditStarts, PTL DEF IniSpec

-----------------------------------------------------------------------------
(***************************************************************************)
(* The log of one logger.  A file can be made under its feet (`csr log     *)
(* clear` after a rotation by hand), so that the logger goes on writing to *)
(* the old one; but then the new file is empty until the logger opens it.  *)
(***************************************************************************)
\* The file ends with that entry and leaves none out.
UpTo(s, last) == \A i \in 1..Len(s) : s[i] = last - Len(s) + i

LogTypes ==
    /\ inode \in Seq(Seq(Nat)) /\ written \in Nat /\ gap \in BOOLEAN
    /\ live \in 0..Len(inode) /\ rotated \in 0..Len(inode)
    /\ handle \in [Logger -> 1..Len(inode)]
    /\ lpc \in [Logger -> {"idle", "rotate", "open", "write"}]

\* Entries are in the file of the name only if the logger writes to it; and
\* while none was cleared, the file is missing only between the two steps of a
\* rotation.
WritesToLive ==
    \A w \in Logger :
      /\ live # 0 => \/ handle[w] = live
                     \/ gap /\ inode[live] = <<>>
      /\ live = 0 => gap \/ lpc[w] = "open"

LogInv ==
    /\ LogTypes
    /\ WritesToLive
    /\ live # 0 => rotated # live /\ UpTo(inode[live], written)
    /\ HistoryTail

\* One more entry.
LEMMA EntryAppended ==
    ASSUME NEW s \in Seq(Nat), NEW last \in Nat, UpTo(s, last)
    PROVE  UpTo(Append(s, last + 1), last + 1)
  <1>. DEFINE new == Append(s, last + 1)
  <1>1. /\ Len(new) = Len(s) + 1 /\ Len(s) \in Nat /\ new[Len(new)] = last + 1
        /\ \A i \in 1..Len(s) : new[i] = s[i]
    OBVIOUS
  <1>. HIDE DEF new
  <1>2. \A i \in 1..Len(new) : new[i] = last + 1 - Len(new) + i
    BY <1>1, SMTT(30) DEF UpTo
  <1>. QED
    BY <1>2 DEF UpTo, new

\* Every file that has a number is a sequence of entries.
LEMMA FilesAreEntries ==
    ASSUME LogTypes
    PROVE  /\ Entries(live) \in Seq(Nat) /\ Entries(rotated) \in Seq(Nat)
           /\ live # 0 => inode[live] \in Seq(Nat)
  BY DEF LogTypes, Entries

\* Where the files that have a name do not change, nor does the tail.
LEMMA TailStays ==
    ASSUME LogInv, UNCHANGED <<written, gap>>,
           Entries(live)' = Entries(live), Entries(rotated)' = Entries(rotated)
    PROVE  HistoryTail'
  BY DEF LogInv, HistoryTail

\* An empty log is in order.
LEMMA LogStarts == LogInit => LogInv
  <1>. SUFFICES ASSUME LogInit PROVE LogInv
    OBVIOUS
  <1>1. /\ inode = << <<>> >> /\ Len(inode) = 1 /\ inode[1] = <<>>
        /\ live = 1 /\ rotated = 0 /\ written = 0
    BY DEF LogInit
  <1>2. LogTypes
    <2>1. inode \in Seq(Seq(Nat))
      <3>1. <<>> \in Seq(Nat)
        OBVIOUS
      <3>. QED
        BY <1>1, <3>1
    <2>2. handle \in [Logger -> 1..Len(inode)]
      BY <1>1 DEF LogInit
    <2>3. lpc \in [Logger -> {"idle", "rotate", "open", "write"}]
      BY DEF LogInit
    <2>4. gap \in BOOLEAN
      BY DEF LogInit
    <2>5. live \in 0..Len(inode) /\ rotated \in 0..Len(inode) /\ written \in Nat
      BY <1>1
    <2>. QED
      BY <2>1, <2>2, <2>3, <2>4, <2>5 DEF LogTypes
  <1>3. WritesToLive
    BY <1>1 DEF LogInit, WritesToLive
  <1>4. HistoryTail
    BY <1>1 DEF HistoryTail, Entries
  <1>. QED
    BY <1>1, <1>2, <1>3, <1>4 DEF LogInv, UpTo

\* A look at the size changes no file.
LEMMA CheckSizeKeeps ==
    ASSUME LogInv, NEW w \in Logger, CheckSize(w)
    PROVE  LogInv'
  <1>1. LogTypes' /\ WritesToLive'
    BY DEF LogInv, LogTypes, WritesToLive, CheckSize, Goto
  <1>2. HistoryTail'
    BY TailStays DEF CheckSize, Entries
  <1>. QED
    BY <1>1, <1>2 DEF LogInv, UpTo, CheckSize

\* The rotation moves the live file, and the tail with it.
LEMMA RotateLogKeeps ==
    ASSUME \A u, v \in Logger : u = v, LogInv, NEW w \in Logger, RotateLog(w)
    PROVE  LogInv'
  <1>1. LogTypes'
    <2>1. live' \in 0..Len(inode) /\ rotated' \in 0..Len(inode) /\ gap' \in BOOLEAN
      <3>1. CASE live = 0
        <4>1. UNCHANGED <<live, rotated, gap>>
          BY <3>1 DEF RotateLog
        <4>. QED
          BY <4>1 DEF LogInv, LogTypes
      <3>2. CASE live # 0
        <4>1. live' = 0 /\ rotated' = live /\ gap' = FALSE
          BY <3>2 DEF RotateLog
        <4>2. Len(inode) \in Nat
          BY DEF LogInv, LogTypes
        <4>3. live' \in 0..Len(inode) /\ rotated' \in 0..Len(inode)
          BY <4>1, <4>2 DEF LogInv, LogTypes
        <4>4. gap' \in BOOLEAN
          BY <4>1
        <4>. QED
          BY <4>3, <4>4
      <3>. QED
        BY <3>1, <3>2
    <2>2. lpc' \in [Logger -> {"idle", "rotate", "open", "write"}]
      BY DEF LogInv, LogTypes, RotateLog, Goto
    <2>. QED
      BY <2>1, <2>2 DEF LogInv, LogTypes, RotateLog
  <1>2. lpc'[w] = "open" /\ live' = 0
    BY DEF LogInv, LogTypes, RotateLog, Goto
  <1>3. WritesToLive'
    BY <1>2 DEF LogInv, WritesToLive
  <1>4. CASE live = 0
    <2>1. HistoryTail'
      BY <1>4, TailStays DEF RotateLog, Entries
    <2>. QED
      BY <1>1, <1>2, <1>3, <2>1 DEF LogInv
  <1>5. CASE live # 0
    <2>1. /\ Entries(rotated)' = inode[live] /\ Entries(live)' = <<>>
          /\ written' = written /\ UpTo(inode[live], written)
      BY <1>5, <1>2 DEF LogInv, RotateLog, Entries
    <2>2. (Entries(rotated) \o Entries(live))' = inode[live]
      BY <1>5, <2>1, FilesAreEntries DEF LogInv
    <2>3. HistoryTail'
      BY <2>1, <2>2 DEF HistoryTail, UpTo
    <2>. QED
      BY <1>1, <1>2, <1>3, <2>3 DEF LogInv
  <1>. QED
    BY <1>4, <1>5

\* A file that was just made.
LEMMA NewFile ==
    ASSUME LogTypes, inode' = Append(inode, <<>>)
    PROVE  /\ inode' \in Seq(Seq(Nat)) /\ Len(inode') = Len(inode) + 1
           /\ inode'[Len(inode) + 1] = <<>>
           /\ \A i \in 1..Len(inode) : inode'[i] = inode[i]
  BY DEF LogTypes

\* The new file is empty.
LEMMA OpenAppendKeeps ==
    ASSUME \A u, v \in Logger : u = v, LogInv, NEW w \in Logger, OpenAppend(w)
    PROVE  LogInv'
  <1>1. LogTypes /\ UNCHANGED <<written, gap, rotated>>
    BY DEF LogInv, OpenAppend
  <1>2. handle'[w] = live' /\ live' # 0 /\ LogTypes'
    <2>1. CASE live = 0
      <3>1. /\ live' = Len(inode) + 1 /\ Len(inode') = Len(inode) + 1
            /\ inode' \in Seq(Seq(Nat)) /\ Len(inode) \in Nat
        BY <1>1, <2>1, NewFile DEF OpenAppend, LogTypes
      <3>. QED
        BY <1>1, <3>1, SMTT(30) DEF OpenAppend, LogTypes, Goto
    <2>2. CASE live # 0
      BY <1>1, <2>2 DEF OpenAppend, LogTypes, Goto
    <2>. QED
      BY <2>1, <2>2
  <1>3. WritesToLive'
    BY <1>2 DEF WritesToLive
  <1>4. CASE live = 0
    <2>1. /\ Entries(live)' = <<>> /\ Entries(live) = <<>>
          /\ live' = Len(inode) + 1 /\ inode'[live'] = <<>>
      BY <1>1, <1>2, <1>4, NewFile DEF OpenAppend, Entries
    <2>2. Entries(rotated)' = Entries(rotated)
      BY <1>1, <1>4, NewFile DEF OpenAppend, Entries, LogTypes
    <2>3. rotated' # live' /\ UpTo(inode'[live'], written')
      BY <1>1, <2>1 DEF UpTo, LogTypes
    <2>. QED
      BY <1>1, <1>2, <1>3, <2>1, <2>2, <2>3, TailStays DEF LogInv
  <1>5. CASE live # 0
    <2>1. UNCHANGED <<inode, live, rotated, written>>
      BY <1>1, <1>5 DEF OpenAppend
    <2>2. HistoryTail'
      BY <1>1, <2>1, TailStays DEF Entries
    <2>. QED
      BY <1>1, <1>2, <1>3, <2>1, <2>2 DEF LogInv, UpTo
  <1>. QED
    BY <1>4, <1>5

\* The entry goes to the end of the live file.
LEMMA WriteEntryKeeps ==
    ASSUME \A u, v \in Logger : u = v, LogInv, NEW w \in Logger, WriteEntry(w)
    PROVE  LogInv'
  <1>1. /\ LogTypes /\ written' = written + 1 /\ written \in Nat
        /\ UNCHANGED <<live, rotated, handle, gap>>
        /\ lpc[w] = "write" /\ handle[w] \in 1..Len(inode)
    BY DEF LogInv, LogTypes, WriteEntry
  <1>2. /\ inode'[handle[w]] = Append(inode[handle[w]], written')
        /\ \A i \in 1..Len(inode) : i # handle[w] => inode'[i] = inode[i]
        /\ inode' \in Seq(Seq(Nat)) /\ Len(inode') = Len(inode)
    BY <1>1 DEF LogTypes, WriteEntry
  <1>3. LogTypes'
    BY <1>1, <1>2 DEF LogTypes, WriteEntry, Goto
  <1>4. CASE live # 0 /\ handle[w] = live
    <2>1. inode[live] \in Seq(Nat) /\ inode'[live] = Append(inode[live], written')
      BY <1>1, <1>2, <1>4, FilesAreEntries
    <2>2. UpTo(inode'[live'], written')
      BY <1>1, <1>4, <2>1, EntryAppended DEF LogInv
    <2>3. rotated # live /\ Entries(rotated)' = Entries(rotated)
      BY <1>1, <1>2, <1>4 DEF LogInv, LogTypes, Entries
    <2>4. /\ Entries(rotated) \in Seq(Nat) /\ Entries(live) = inode[live]
          /\ Entries(live)' = Append(inode[live], written')
      BY <1>1, <1>4, <2>1, FilesAreEntries DEF Entries
    <2>5. HistoryTail'
      <3>. DEFINE before == Entries(rotated) \o inode[live]
                  new == Entries(rotated) \o Append(inode[live], written')
      <3>1. /\ before \in Seq(Nat) /\ Len(new) = Len(before) + 1
            /\ new[Len(new)] = written' /\ Len(before) \in Nat
            /\ \A i \in 1..Len(before) : new[i] = before[i]
        <4>1. /\ before \in Seq(Nat)
              /\ Len(before) = Len(Entries(rotated)) + Len(inode[live])
          BY <2>1, <2>4
        <4>2. Append(inode[live], written') \in Seq(Nat)
          BY <1>1, <2>1
        <4>3. Len(new) = Len(before) + 1 /\ new[Len(new)] = written'
          BY <2>1, <2>4, <4>1, <4>2
        <4>4. \A i \in 1..Len(before) : new[i] = before[i]
          BY <2>1, <2>4, <4>1, <4>2
        <4> QED
          BY <4>1, <4>3, <4>4
      <3>2. ~gap => UpTo(before, written)
        BY <2>4 DEF LogInv, HistoryTail, UpTo
      <3>. HIDE DEF before, new
      <3>3. ~gap => \A i \in 1..Len(new) : new[i] = written' - Len(new) + i
        <4>. SUFFICES ASSUME ~gap, NEW i \in 1..Len(new)
                      PROVE  new[i] = written' - Len(new) + i
          OBVIOUS
        <4>1. \A k \in 1..Len(before) : before[k] = written - Len(before) + k
          BY <3>2 DEF UpTo
        <4>2. CASE i = Len(new)
          BY <1>1, <3>1, <4>2
        <4>3. CASE i # Len(new)
          <5>1. i \in 1..Len(before)
            BY <3>1, <4>3
          <5>. QED
            BY <1>1, <3>1, <4>1, <5>1
        <4>. QED
          BY <4>2, <4>3
      <3>. QED
        BY <1>1, <2>3, <2>4, <3>3 DEF HistoryTail, new
    <2>6. WritesToLive'
      BY <1>1, <1>4 DEF WritesToLive
    <2>. QED
      BY <1>1, <1>3, <2>2, <2>3, <2>5, <2>6 DEF LogInv
  <1>5. CASE live # 0 /\ handle[w] # live
    <2>1. gap /\ inode[live] = <<>> /\ inode'[live] = <<>> /\ rotated # live
      <3>1. gap /\ inode[live] = <<>> /\ rotated # live
        BY <1>5 DEF LogInv, WritesToLive
      <3>2. live \in 1..Len(inode)
        BY <1>1, <1>5 DEF LogTypes
      <3>. QED
        BY <1>2, <1>5, <3>1, <3>2
    <2>2. UpTo(inode'[live'], written') /\ HistoryTail' /\ WritesToLive'
      BY <1>1, <1>5, <2>1 DEF UpTo, HistoryTail, WritesToLive
    <2>. QED
      BY <1>1, <1>3, <2>1, <2>2 DEF LogInv
  <1>6. CASE live = 0
    <2>1. gap
      BY <1>1, <1>6 DEF LogInv, WritesToLive
    <2>2. HistoryTail' /\ WritesToLive'
      BY <1>1, <1>6, <2>1 DEF HistoryTail, WritesToLive
    <2>. QED
      BY <1>1, <1>3, <1>6, <2>2 DEF LogInv
  <1>. QED
    BY <1>4, <1>5, <1>6

\* Clearing and rotating by hand leave a gap, and no promise.
LEMMA ClearKeeps ==
    ASSUME LogInv, ClearLog \/ RotateByHand
    PROVE  LogInv'
  <1>1. LogTypes /\ gap' = TRUE /\ UNCHANGED <<rotated, handle, lpc, written>>
    BY DEF LogInv, ClearLog, RotateByHand
  <1>2. HistoryTail'
    BY <1>1 DEF HistoryTail
  <1>3. CASE TruncateLog /\ ClearLog
    <2>1. /\ inode' \in Seq(Seq(Nat)) /\ Len(inode') = Len(inode)
          /\ inode'[live] = <<>> /\ live' = live /\ live # 0
      <3>1. inode \in Seq(Seq(Nat)) /\ live \in 1..Len(inode) /\ <<>> \in Seq(Nat)
        BY <1>1, <1>3 DEF TruncateLog, LogTypes
      <3>2. inode' = [inode EXCEPT ![live] = <<>>] /\ live' = live
        BY <1>3 DEF TruncateLog
      <3>. QED
        BY <3>1, <3>2
    <2>2. LogTypes'
      BY <1>1, <2>1 DEF LogTypes
    <2>3. WritesToLive' /\ UpTo(inode'[live'], written')
      BY <1>1, <2>1 DEF WritesToLive, UpTo
    <2>. QED
      BY <1>1, <1>2, <2>1, <2>2, <2>3 DEF LogInv
  <1>4. CASE MakeLog /\ ClearLog
    <2>1. /\ inode' \in Seq(Seq(Nat)) /\ Len(inode') = Len(inode) + 1
          /\ live' = Len(inode) + 1 /\ inode'[live'] = <<>>
          /\ Len(inode) \in Nat
      BY <1>1, <1>4, NewFile DEF MakeLog, LogTypes
    <2>2. LogTypes' /\ WritesToLive' /\ UpTo(inode'[live'], written') /\ rotated' # live'
      BY <1>1, <2>1 DEF LogTypes, WritesToLive, UpTo
    <2>. QED
      BY <1>2, <2>2 DEF LogInv
  <1>5. CASE RotateByHand
    <2>1. live' = 0 /\ LogTypes' /\ WritesToLive'
      BY <1>1, <1>5 DEF RotateByHand, LogTypes, WritesToLive
    <2>. QED
      BY <1>2, <2>1 DEF LogInv
  <1>. QED
    BY <1>3, <1>4, <1>5 DEF ClearLog

\* Who follows the log only reads it.
LEMMA FollowKeeps ==
    ASSUME LogInv, Follow \/ UNCHANGED logVars
    PROVE  LogInv'
  <1>1. UNCHANGED <<inode, live, rotated, handle, lpc, written, gap>>
    BY DEF Follow, logVars
  <1>. QED
    BY <1>1 DEF LogInv, LogTypes, WritesToLive, UpTo, HistoryTail, Entries

\* Of what one logger has written, rotation loses only what is older than the
\* rotated file, for every limit and every number of entries, and whatever
\* csr log clear and csr log rotate do (append, rotate_if_needed).  With a
\* second logger it is false: after one has rotated the file, the other goes
\* on appending to the rotated one, out of the order of the numbers.
THEOREM RotationKeepsTheTail ==
    ASSUME \A u, v \in Logger : u = v
    PROVE  LogSpec => []HistoryTail
  <1>1. LogInv /\ [LogNext]_logVars => LogInv'
    BY CheckSizeKeeps, RotateLogKeeps, OpenAppendKeeps, WriteEntryKeeps,
       ClearKeeps, FollowKeeps DEF LogNext, LoggerStep
  <1>2. LogInv => HistoryTail
    BY DEF LogInv
  <1>. QED
    BY LogStarts, <1>1, <1>2, PTL DEF LogSpec

-----------------------------------------------------------------------------
(***************************************************************************)
(* The unit files.  A command is what is left of its operations; for each  *)
(* command that a property is about the invariant says what the disk has   *)
(* of the operations that are done, and which ones are still pending.      *)
(***************************************************************************)
UnitOp == {"none", "create", "rm", "install", "update", "rollback", "snapshot",
           "restore", "delete", "import", "convert"}

OnFiles == [do : {"copy", "write", "remove", "skip", "unlink"},
            from : Path \union ({"given"} \X Version),
            to : {"user", "backup", "snapshot"} \X Unit,
            strict : BOOLEAN]
OnSnapDir == [do : {"mkdir", "rmdir", "rename"},
              from : {SnapDir}, to : {SnapDir}, strict : BOOLEAN]
UnitStep == OnFiles \union OnSnapDir

JobType == [op : UnitOp, name : Unit \union {"none"}, todo : Seq(UnitStep),
            half : BOOLEAN, wrote : BOOLEAN, failed : BOOLEAN, force : BOOLEAN,
            found : Content]

UnitTypes ==
    /\ disk \in [Path -> Content]
    /\ systemd \subseteq Unit
    /\ old \in [Unit -> Content] /\ taken \in [Unit -> Version \union {NoFile}]
    /\ job \in JobType

\* An operation the command has still to do.
Pending(step) == \E i \in 1..Len(job.todo) : job.todo[i] = step

\* Only a snapshot writes to a snapshot: the other commands may remove its files.
Writes(step) == step.do \in {"copy", "write"}
WritesWhereItMay ==
    job.op # "snapshot" =>
      \A i \in 1..Len(job.todo) :
         Writes(job.todo[i]) => job.todo[i].to[1] # "snapshot"

\* daemon update: the old unit is at its place until the backup has it.
UpdateIsSafe ==
    \A n \in Unit : old[n] \in Version =>
      \/ job = NoJob /\ old[n] \in {disk[User(n)], disk[Backup(n)]}
      \/ /\ job.op = "update" /\ job.name = n
         /\ \/ /\ \E v \in Version :
                    job.todo = <<Copy(User(n), Backup(n)), Copy(Given(v), User(n))>>
               /\ disk[User(n)] = old[n]
            \/ /\ \E v \in Version : job.todo = <<Copy(Given(v), User(n))>>
               /\ disk[Backup(n)] = old[n]
            \/ job.todo = <<>> /\ disk[Backup(n)] = old[n]

\* snapshot create: of a service with a file of either kind the snapshot has
\* the user file, or will have it; the other one only if there is no user file.
Saves(step) ==
    \/ step = OnDir("mkdir", TRUE)
    \/ \E m \in Unit : step \in {Copy(System(m), Snap(m)), Copy(User(m), Snap(m))}

SnapshotIsRight ==
    job.op = "snapshot" =>
      /\ \A i \in 1..Len(job.todo) : Saves(job.todo[i])
      /\ \A i, j \in 1..Len(job.todo) :
           i < j /\ job.todo[i].from[1] = "user" => job.todo[j].from[1] = "user"
      /\ \A n \in Unit : taken[n] # NoFile =>
           /\ taken[n] = Definition(n) /\ disk[User(n)] # HalfFile
           /\ \/ Exists(User(n)) /\ Pending(Copy(User(n), Snap(n)))
              \/ /\ Exists(User(n)) /\ disk[Snap(n)] = disk[User(n)]
                 /\ ~Pending(Copy(System(n), Snap(n)))
              \/ /\ ~Exists(User(n))
                 /\ ~Pending(Copy(User(n), Snap(n)))
                 /\ \/ disk[Snap(n)] = disk[System(n)]
                    \/ Pending(Copy(System(n), Snap(n)))

\* What a snapshot promises of a service it holds.
Captured(n) == disk[Snap(n)] = taken[n]

SnapshotIsKept ==
    job.op # "snapshot" => \A n \in Unit : taken[n] # NoFile => Captured(n)

\* snapshot restore
RestoreIsRight ==
    job.op = "restore" =>
      /\ \A i \in 1..Len(job.todo) : \E m \in Unit :
           job.todo[i] = Copy(Snap(m), User(m))
      /\ ~job.failed => \A n \in Unit : taken[n] # NoFile =>
           disk[User(n)] = disk[Snap(n)] \/ Pending(Copy(Snap(n), User(n)))

\* convert: a unit of the source has a file, or will have one.
ConvertIsRight ==
    job.op = "convert" =>
      /\ \A i \in 1..Len(job.todo) : \E m \in Unit :
           \/ job.todo[i] = SkipUnit(m)
           \/ \E v \in Version : job.todo[i] = Write(v, User(m))
      /\ ~job.failed => \A n \in systemd :
           Exists(User(n)) \/ \E v \in Version : Pending(Write(v, User(n)))

UnitInv ==
    /\ UnitTypes /\ WritesWhereItMay
    /\ UpdateIsSafe /\ SnapshotIsRight /\ SnapshotIsKept
    /\ RestoreIsRight /\ ConvertIsRight

\* Each file of a directory is visited.
LEMMA EveryFile ==
    ASSUME NEW S, IsFiniteSet(S)
    PROVE  /\ SetToSeq(S) \in [1..Cardinality(S) -> S]
           /\ Len(SetToSeq(S)) = Cardinality(S) /\ Cardinality(S) \in Nat
           /\ SetToSeq(S) \in Seq(S)
           /\ \A x \in S : \E i \in 1..Cardinality(S) : SetToSeq(S)[i] = x
  <1>. DEFINE s == SetToSeq(S)
              D == 1..Cardinality(S)
  <1>1. Cardinality(S) \in Nat /\ ExistsBijection(D, S)
    BY FS_CardinalityType
  <1>2. PICK f \in [D -> S] : IsInjective(f)
    BY <1>1 DEF ExistsBijection, Bijection, Injection
  <1>3. s \in [D -> S] /\ IsInjective(s)
    BY <1>2 DEF SetToSeq
  <1>4. s \in Injection(D, S)
    BY <1>3 DEF Injection
  <1>5. Cardinality(D) = Cardinality(S)
    BY <1>1, FS_Interval
  <1>6. s \in Surjection(D, S)
    BY <1>4, <1>5, FS_Injection
  <1>. HIDE DEF s
  <1>7. \A x \in S : \E i \in D : s[i] = x
    BY <1>6 DEF Surjection
  <1>8. s \in Seq(S) /\ Len(s) = Cardinality(S)
    BY <1>1, <1>3
  <1>. QED
    BY <1>1, <1>3, <1>7, <1>8 DEF s

\* The paths of different kinds and of different units differ.
LEMMA Paths ==
    ASSUME NEW n \in Unit
    PROVE  /\ User(n) \in Path /\ System(n) \in Path
           /\ Backup(n) \in Path /\ Snap(n) \in Path
           /\ User(n)[1] = "user" /\ System(n)[1] = "system"
           /\ Backup(n)[1] = "backup" /\ Snap(n)[1] = "snapshot"
           /\ \A m \in Unit : m # n => User(m) # User(n) /\ Snap(m) # Snap(n)
           /\ \A m \in Unit : User(m) # Snap(n) /\ User(m) # System(n)
                              /\ User(m) # Backup(n) /\ Snap(m) # System(n)
  BY DEF User, System, Backup, Snap, Path

\* The operations that the commands consist of.
LEMMA Steps ==
    ASSUME NEW n \in Unit
    PROVE  /\ Copy(System(n), Snap(n)) \in UnitStep
           /\ Copy(User(n), Snap(n)) \in UnitStep
           /\ Copy(Snap(n), User(n)) \in UnitStep
           /\ Copy(User(n), Backup(n)) \in UnitStep
           /\ Copy(User(n), User(n)) \in UnitStep
           /\ Delete(User(n)) \in UnitStep
           /\ Delete(Snap(n)) \in UnitStep /\ Discard(Snap(n)) \in UnitStep
           /\ Unlink(n) \in UnitStep /\ SkipUnit(n) \in UnitStep
           /\ \A v \in Version : /\ Copy(Given(v), User(n)) \in UnitStep
                                 /\ Write(v, User(n)) \in UnitStep
  BY DEF UnitStep, OnFiles, Copy, Write, Delete, Discard, Unlink, SkipUnit, User, System, Backup,
         Snap, Given, Path

\* Those on the directory of the snapshot.
LEMMA DirSteps ==
    ASSUME NEW do \in {"mkdir", "rmdir", "rename"}, NEW strict \in BOOLEAN
    PROVE  /\ OnDir(do, strict) \in UnitStep /\ ~Writes(OnDir(do, strict))
           /\ OnDir(do, strict).do = do /\ OnDir(do, strict).from[1] = "directory"
  <1>1. OnDir(do, strict) \in OnSnapDir
    BY DEF OnSnapDir, OnDir
  <1>2. OnDir(do, strict).do = do /\ OnDir(do, strict).from[1] = "directory"
    BY DEF OnDir, SnapDir
  <1>. QED
    BY <1>1, <1>2 DEF UnitStep, Writes

\* The next operation.
LEMMA NextOp ==
    ASSUME UnitTypes, job.todo # <<>>
    PROVE  /\ job.todo \in Seq(UnitStep) /\ Len(job.todo) \in Nat \ {0}
           /\ Op = job.todo[1] /\ Op \in UnitStep /\ Pending(Op)
           /\ Op \in OnFiles => Op.to \in Path /\ Op.to[1] # "system"
           /\ Op.do \in {"copy", "write", "remove", "skip", "unlink"} => Op \in OnFiles
           /\ Op.do \in {"mkdir", "rmdir", "rename"} <=> Op \in OnSnapDir
  <1>1. job.todo \in Seq(UnitStep)
    BY DEF UnitTypes, JobType
  <1>2. Len(job.todo) \in Nat \ {0} /\ Op = job.todo[1] /\ Op \in UnitStep
    BY <1>1 DEF Op
  <1>3. Op \in OnFiles => Op.to \in {"user", "backup", "snapshot"} \X Unit
    BY <1>2 DEF OnFiles
  <1>4. /\ Op \in OnFiles => Op.do \in {"copy", "write", "remove", "skip", "unlink"}
        /\ Op \in OnSnapDir => Op.do \in {"mkdir", "rmdir", "rename"}
    BY DEF OnFiles, OnSnapDir
  <1>. QED
    BY <1>1, <1>2, <1>3, <1>4 DEF Pending, Path, UnitStep

\* What is left after it.
LEMMA OneLess ==
    ASSUME UnitTypes, job.todo # <<>>, job'.todo = Tail(job.todo)
    PROVE  /\ \A s : Pending(s)' => Pending(s)
           /\ \A s : Pending(s) => s = Op \/ Pending(s)'
           /\ \A i \in 1..Len(job'.todo) :
                i + 1 \in 1..Len(job.todo) /\ job'.todo[i] = job.todo[i + 1]
  <1>1. /\ job.todo \in Seq(UnitStep) /\ Len(job.todo) \in Nat \ {0}
        /\ Op = job.todo[1]
    BY NextOp
  <1>2. /\ Len(job'.todo) = Len(job.todo) - 1
        /\ \A i \in 1..Len(job'.todo) :
             i + 1 \in 1..Len(job.todo) /\ job'.todo[i] = job.todo[i + 1]
    BY <1>1
  <1>3. ASSUME NEW s, Pending(s)
        PROVE  s = Op \/ Pending(s)'
    <2>1. PICK i \in 1..Len(job.todo) : job.todo[i] = s
      BY <1>3 DEF Pending
    <2>2. CASE i = 1
      BY <1>1, <2>1, <2>2
    <2>3. CASE i # 1
      <3>1. i - 1 \in 1..Len(job'.todo) /\ (i - 1) + 1 = i
        BY <1>1, <1>2, <2>1, <2>3
      <3>2. job'.todo[i - 1] = s
        BY <1>2, <2>1, <3>1
      <3>. QED
        BY <3>1, <3>2 DEF Pending
    <2>. QED
      BY <2>2, <2>3
  <1>. QED
    BY <1>2, <1>3 DEF Pending

\* An operation that works and writes to a file, or removes one.
LEMMA Executed ==
    ASSUME UnitInv, job.op # "none", job.todo # <<>>,
           UNCHANGED <<old, systemd>>,
           taken' = IF Op.do = "remove" THEN Without(Op.to) ELSE taken,
           job' \in JobType, job'.op = job.op, job'.name = job.name,
           job'.failed = job.failed, job'.todo = Tail(job.todo),
           NEW x \in Content, disk' = [disk EXCEPT ![Op.to] = x],
           \/ Op.do \in {"copy", "write"} /\ x = Read(Op.from)
           \/ Op.do = "remove"
    PROVE  UnitInv'
  <1>. DEFINE ops == job.todo
  <1>1. /\ UnitTypes /\ Op \in UnitStep /\ Op = ops[1] /\ Pending(Op)
        /\ Op.to \in Path /\ Op.to[1] # "system" /\ 1 \in 1..Len(ops)
    BY NextOp DEF UnitInv
  <1>1a. /\ taken' \in [Unit -> Version \union {NoFile}]
         /\ \A n \in Unit : taken'[n] # NoFile => taken'[n] = taken[n]
         /\ Op.do = "remove" => \A n \in Unit : Op.to = Snap(n) => taken'[n] = NoFile
    BY <1>1 DEF UnitTypes, Without, Snap, Path
  <1>2. /\ \A p \in Path : p # Op.to => disk'[p] = disk[p]
        /\ disk'[Op.to] = x
    BY <1>1 DEF UnitTypes
  <1>3. /\ \A s : Pending(s)' => Pending(s)
        /\ \A s : Pending(s) => s = Op \/ Pending(s)'
        /\ \A i \in 1..Len(job'.todo) :
             i + 1 \in 1..Len(ops) /\ job'.todo[i] = ops[i + 1]
    BY <1>1, OneLess
  <1>4. UnitTypes'
    BY <1>1, <1>1a DEF UnitTypes
  <1>5. WritesWhereItMay'
    BY <1>3 DEF UnitInv, WritesWhereItMay, Writes
  <1>6. UpdateIsSafe'
    <2>. SUFFICES ASSUME NEW n \in Unit, old[n] \in Version
                  PROVE  /\ job'.op = "update" /\ job'.name = n
                         /\ \/ /\ \E v \in Version :
                                    job'.todo = <<Copy(Given(v), User(n))>>
                               /\ disk'[Backup(n)] = old[n]
                            \/ job'.todo = <<>> /\ disk'[Backup(n)] = old[n]
      BY DEF UpdateIsSafe
    <2>1. job # NoJob
      BY DEF NoJob
    <2>2. job.op = "update" /\ job.name = n
      BY <2>1 DEF UnitInv, UpdateIsSafe
    <2>3. CASE /\ \E v \in Version :
                    ops = <<Copy(User(n), Backup(n)), Copy(Given(v), User(n))>>
               /\ disk[User(n)] = old[n]
      <3>1. PICK v \in Version :
              ops = <<Copy(User(n), Backup(n)), Copy(Given(v), User(n))>>
        BY <2>3
      <3>2. Op = Copy(User(n), Backup(n)) /\ job'.todo = <<Copy(Given(v), User(n))>>
        BY <1>1, <3>1
      <3>3. /\ Op.to = Backup(n) /\ Op.from = User(n) /\ Op.do = "copy"
            /\ User(n)[1] # "given"
        BY <3>2, Paths DEF Copy
      <3>4. disk'[Backup(n)] = old[n]
        BY <1>2, <2>3, <3>3 DEF Read
      <3>. QED
        BY <2>2, <3>2, <3>4
    <2>4. CASE /\ \E v \in Version : ops = <<Copy(Given(v), User(n))>>
               /\ disk[Backup(n)] = old[n]
      <3>1. job'.todo = <<>> /\ Op.to = User(n)
        BY <1>1, <2>4 DEF Copy
      <3>2. disk'[Backup(n)] = disk[Backup(n)]
        BY <1>2, <3>1, Paths
      <3>. QED
        BY <2>2, <2>4, <3>1, <3>2
    <2>. QED
      BY <2>1, <2>2, <2>3, <2>4 DEF UnitInv, UpdateIsSafe
  <1>7. SnapshotIsKept'
    <2>. SUFFICES ASSUME job.op # "snapshot", NEW n \in Unit, taken'[n] # NoFile
                  PROVE  Captured(n)'
      BY DEF SnapshotIsKept
    <2>1. taken'[n] = taken[n] /\ Captured(n)
      BY <1>1a DEF UnitInv, SnapshotIsKept
    <2>2. Op.to # Snap(n)
      <3>1. Op.do # "remove" => Op.to[1] # "snapshot"
        BY <1>1 DEF UnitInv, WritesWhereItMay, Writes
      <3>. QED
        BY <1>1a, <3>1, Paths
    <2>3. disk'[Snap(n)] = disk[Snap(n)]
      BY <1>2, <2>2, Paths
    <2>. QED
      BY <2>1, <2>3 DEF Captured
  <1>8. RestoreIsRight'
    <2>. SUFFICES ASSUME job.op = "restore" PROVE RestoreIsRight'
      BY DEF RestoreIsRight
    <2>1. \A i \in 1..Len(ops) : \E m \in Unit : ops[i] = Copy(Snap(m), User(m))
      BY DEF UnitInv, RestoreIsRight
    <2>2. PICK m \in Unit : Op = Copy(Snap(m), User(m))
      BY <1>1, <2>1
    <2>3. /\ Op.do = "copy" /\ Op.from = Snap(m) /\ Op.to = User(m)
          /\ x = disk[Snap(m)] /\ taken' = taken
      BY <2>2, Paths DEF Copy, Read
    <2>4. ASSUME ~job.failed, NEW n \in Unit, taken[n] # NoFile
          PROVE  disk'[User(n)] = disk'[Snap(n)] \/ Pending(Copy(Snap(n), User(n)))'
      <3>1. disk[User(n)] = disk[Snap(n)] \/ Pending(Copy(Snap(n), User(n)))
        BY <2>4 DEF UnitInv, RestoreIsRight
      <3>2. disk'[Snap(n)] = disk[Snap(n)]
        BY <1>2, <2>3, Paths
      <3>3. CASE n = m
        BY <1>2, <2>3, <3>2, <3>3
      <3>4. CASE n # m
        <4>1. disk'[User(n)] = disk[User(n)] /\ Copy(Snap(n), User(n)) # Op
          BY <1>2, <2>3, <3>4, Paths DEF Copy
        <4>. QED
          BY <1>3, <3>1, <3>2, <4>1
      <3>. QED
        BY <3>3, <3>4
    <2>. QED
      BY <1>3, <2>1, <2>3, <2>4 DEF RestoreIsRight
  <1>9. ConvertIsRight'
    <2>. SUFFICES ASSUME job.op = "convert" PROVE ConvertIsRight'
      BY DEF ConvertIsRight
    <2>1. \A i \in 1..Len(ops) : \E m \in Unit :
            \/ ops[i] = SkipUnit(m) \/ \E v \in Version : ops[i] = Write(v, User(m))
      BY DEF UnitInv, ConvertIsRight
    <2>2. PICK m \in Unit : \/ Op = SkipUnit(m)
                            \/ \E v \in Version : Op = Write(v, User(m))
      BY <1>1, <2>1
    <2>3. PICK v \in Version : Op = Write(v, User(m))
      BY <2>2 DEF SkipUnit
    <2>4. Op.to = User(m) /\ x = v /\ x # NoFile
      BY <2>3, UnitAssumption DEF Write, Read, Given
    <2>5. ASSUME ~job.failed, NEW n \in systemd
          PROVE  Exists(User(n))' \/ \E w \in Version : Pending(Write(w, User(n)))'
      <3>1. n \in Unit /\ (Exists(User(n)) \/
                           \E w \in Version : Pending(Write(w, User(n))))
        BY <2>5 DEF UnitInv, ConvertIsRight, UnitTypes
      <3>2. CASE n = m
        BY <1>2, <2>4, <3>2 DEF Exists
      <3>3. CASE n # m
        <4>1. /\ disk'[User(n)] = disk[User(n)]
              /\ \A w \in Version : Write(w, User(n)) # Op
          BY <1>2, <2>4, <3>1, <3>3, Paths DEF Write
        <4>. QED
          BY <1>3, <3>1, <4>1 DEF Exists
      <3>. QED
        BY <3>2, <3>3
    <2>. QED
      BY <1>3, <2>1, <2>5 DEF ConvertIsRight
  <1>10. SnapshotIsRight'
    <2>. SUFFICES ASSUME job.op = "snapshot" PROVE SnapshotIsRight'
      BY DEF SnapshotIsRight
    <2>1. /\ \A i \in 1..Len(ops) : Saves(ops[i])
          /\ \A i, j \in 1..Len(ops) :
               i < j /\ ops[i].from[1] = "user" => ops[j].from[1] = "user"
      BY DEF UnitInv, SnapshotIsRight
    <2>2. PICK m \in Unit : Op \in {Copy(System(m), Snap(m)), Copy(User(m), Snap(m))}
      BY <1>1, <2>1 DEF Saves, OnDir
    <2>3. /\ Op.to = Snap(m) /\ x = disk[Op.from] /\ taken' = taken
          /\ Op.from \in {System(m), User(m)}
      BY <2>2, Paths DEF Copy, Read
    <2>4. \A p \in Path : p[1] \in {"user", "system"} => disk'[p] = disk[p]
      BY <1>2, <2>3, Paths
    <2>5. ASSUME Op.from[1] = "user", NEW n \in Unit
          PROVE  ~Pending(Copy(System(n), Snap(n)))'
      <3>1. \A i \in 1..Len(job'.todo) : job'.todo[i].from[1] = "user"
        BY <1>1, <1>3, <2>1, <2>5
      <3>. QED
        BY <3>1, Paths DEF Pending, Copy
    <2>6. ASSUME NEW n \in Unit, taken[n] # NoFile
          PROVE  /\ taken[n] = Definition(n)' /\ disk'[User(n)] # HalfFile
                 /\ \/ Exists(User(n))' /\ Pending(Copy(User(n), Snap(n)))'
                    \/ /\ Exists(User(n))' /\ disk'[Snap(n)] = disk'[User(n)]
                       /\ ~Pending(Copy(System(n), Snap(n)))'
                    \/ /\ ~Exists(User(n))'
                       /\ ~Pending(Copy(User(n), Snap(n)))'
                       /\ \/ disk'[Snap(n)] = disk'[System(n)]
                          \/ Pending(Copy(System(n), Snap(n)))'
      <3>1. /\ disk'[User(n)] = disk[User(n)] /\ disk'[System(n)] = disk[System(n)]
            /\ taken[n] = Definition(n) /\ disk[User(n)] # HalfFile
        BY <2>4, <2>6, Paths DEF UnitInv, SnapshotIsRight
      <3>2. Definition(n)' = Definition(n) /\ Exists(User(n))' = Exists(User(n))
        BY <3>1 DEF Definition, Exists
      <3>3. \/ Exists(User(n)) /\ Pending(Copy(User(n), Snap(n)))
            \/ /\ Exists(User(n)) /\ disk[Snap(n)] = disk[User(n)]
               /\ ~Pending(Copy(System(n), Snap(n)))
            \/ /\ ~Exists(User(n))
               /\ ~Pending(Copy(User(n), Snap(n)))
               /\ \/ disk[Snap(n)] = disk[System(n)]
                  \/ Pending(Copy(System(n), Snap(n)))
        BY <2>6 DEF UnitInv, SnapshotIsRight
      <3>4. CASE n # m
        <4>1. /\ disk'[Snap(n)] = disk[Snap(n)]
              /\ Copy(User(n), Snap(n)) # Op /\ Copy(System(n), Snap(n)) # Op
          BY <1>2, <2>3, <3>4, Paths DEF Copy
        <4>. QED
          BY <1>3, <3>1, <3>2, <3>3, <4>1
      <3>5. CASE n = m /\ Op = Copy(User(m), Snap(m))
        <4>1. /\ disk'[Snap(n)] = disk'[User(n)]
              /\ ~Pending(Copy(System(n), Snap(n)))'
          BY <1>2, <2>3, <2>5, <3>1, <3>5, Paths DEF Copy
        <4>2. Exists(User(n))
          BY <1>1, <3>3, <3>5
        <4>. QED
          BY <3>1, <3>2, <4>1, <4>2
      <3>6. CASE n = m /\ Op = Copy(System(m), Snap(m))
        <4>1. /\ disk'[Snap(n)] = disk'[System(n)]
              /\ Copy(User(n), Snap(n)) # Op
          BY <1>2, <2>3, <3>1, <3>6, Paths DEF Copy
        <4>. QED
          BY <1>1, <1>3, <3>1, <3>2, <3>3, <3>6, <4>1
      <3>. QED
        BY <2>2, <3>4, <3>5, <3>6
    <2>7. /\ \A i \in 1..Len(job'.todo) : Saves(job'.todo[i])
          /\ \A i, j \in 1..Len(job'.todo) :
               i < j /\ job'.todo[i].from[1] = "user" => job'.todo[j].from[1] = "user"
      BY <1>3, <2>1
    <2>. QED
      BY <2>3, <2>6, <2>7 DEF SnapshotIsRight, Saves
  <1>. QED
    BY <1>4, <1>5, <1>6, <1>7, <1>8, <1>9, <1>10 DEF UnitInv

\* An operation that leaves the files as they are.
LEMMA Passed ==
    ASSUME UnitInv, job.op # "none", job.todo # <<>>,
           UNCHANGED <<disk, old, taken, systemd>>,
           job' \in JobType, job'.op = job.op, job'.name = job.name,
           job'.failed = job.failed, job'.todo = Tail(job.todo),
           Op.do \in {"unlink", "skip", "mkdir", "rmdir", "rename"}
    PROVE  UnitInv'
  <1>. DEFINE ops == job.todo
  <1>1. /\ UnitTypes /\ Op = ops[1] /\ 1 \in 1..Len(ops)
    BY NextOp DEF UnitInv
  <1>2. /\ \A s : Pending(s)' => Pending(s)
        /\ \A s : Pending(s) => s = Op \/ Pending(s)'
        /\ \A i \in 1..Len(job'.todo) :
             i + 1 \in 1..Len(ops) /\ job'.todo[i] = ops[i + 1]
    BY <1>1, OneLess
  <1>3. UnitTypes'
    BY <1>1 DEF UnitTypes
  <1>4. WritesWhereItMay'
    BY <1>2 DEF UnitInv, WritesWhereItMay
  <1>5. UpdateIsSafe'
    <2>1. job # NoJob
      BY DEF NoJob
    <2>2. ASSUME NEW n \in Unit, old[n] \in Version
          PROVE  FALSE
      <3>1. PICK v \in Version :
              ops \in {<<Copy(User(n), Backup(n)), Copy(Given(v), User(n))>>,
                      <<Copy(Given(v), User(n))>>}
        BY <2>1, <2>2 DEF UnitInv, UpdateIsSafe
      <3>2. Op \in {Copy(User(n), Backup(n)), Copy(Given(v), User(n))}
        BY <1>1, <3>1
      <3>. QED
        BY <3>2 DEF Copy
    <2>. QED
      BY <2>2 DEF UpdateIsSafe
  <1>6. \A from, to : Copy(from, to) # Op
    BY DEF Copy
  <1>7. RestoreIsRight' /\ SnapshotIsKept'
    <2>1. job.op # "restore"
      BY <1>1, <1>6 DEF UnitInv, RestoreIsRight
    <2>. QED
      BY <2>1 DEF UnitInv, RestoreIsRight, SnapshotIsKept, Captured
  <1>7a. SnapshotIsRight'
    <2>. SUFFICES ASSUME job.op = "snapshot" PROVE SnapshotIsRight'
      BY DEF SnapshotIsRight
    <2>1. \A from, to : Pending(Copy(from, to))' <=> Pending(Copy(from, to))
      BY <1>2, <1>6
    <2>2. /\ \A i \in 1..Len(job'.todo) : Saves(job'.todo[i])
          /\ \A i, j \in 1..Len(job'.todo) :
               i < j /\ job'.todo[i].from[1] = "user" => job'.todo[j].from[1] = "user"
      <3>1. /\ \A i \in 1..Len(ops) : Saves(ops[i])
            /\ \A i, j \in 1..Len(ops) :
                 i < j /\ ops[i].from[1] = "user" => ops[j].from[1] = "user"
        BY DEF UnitInv, SnapshotIsRight
      <3>. QED
        BY <1>1, <1>2, <3>1, SMTT(30)
    <2>3. \A n \in Unit : Definition(n)' = Definition(n) /\ Exists(User(n))' = Exists(User(n))
      BY DEF Definition, Exists
    <2>. QED
      BY <2>1, <2>2, <2>3 DEF UnitInv, SnapshotIsRight, Saves
  <1>8. ConvertIsRight'
    <2>1. \A m \in Unit, v \in Version : Write(v, User(m)) # Op
      BY DEF Write
    <2>2. systemd \subseteq Unit
      BY <1>1 DEF UnitTypes
    <2>. QED
      BY <1>2, <2>1, <2>2 DEF UnitInv, ConvertIsRight, Exists
  <1>. QED
    BY <1>3, <1>4, <1>5, <1>7, <1>7a, <1>8 DEF UnitInv

\* fs::copy has truncated its target.
LEMMA Truncated ==
    ASSUME UnitInv, CopyOpen
    PROVE  UnitInv'
  <1>. DEFINE ops == job.todo
  <1>1. /\ UnitTypes /\ Op \in UnitStep /\ Op = ops[1] /\ Pending(Op)
        /\ Op.to \in Path /\ Op.to[1] # "system" /\ 1 \in 1..Len(ops)
        /\ job.op # "none" /\ ops # <<>> /\ Op.do = "copy"
        /\ UNCHANGED <<old, taken, systemd>>
    BY NextOp DEF UnitInv, CopyOpen, Busy, Op
  <1>2. /\ \A p \in Path : p # Op.to => disk'[p] = disk[p]
        /\ disk'[Op.to] = HalfFile /\ disk' \in [Path -> Content]
    BY <1>1 DEF UnitTypes, CopyOpen, Content
  <1>3. /\ job' \in JobType /\ job'.op = job.op /\ job'.name = job.name
        /\ job'.failed = job.failed /\ job'.todo = ops
    BY <1>1 DEF CopyOpen, UnitTypes, JobType
  <1>4. \A s : Pending(s)' <=> Pending(s)
    BY <1>3 DEF Pending
  <1>5. UnitTypes'
    BY <1>1, <1>2, <1>3 DEF UnitTypes
  <1>6. WritesWhereItMay'
    BY <1>3 DEF UnitInv, WritesWhereItMay, Writes
  <1>7. UpdateIsSafe'
    <2>. SUFFICES ASSUME NEW n \in Unit, old[n] \in Version
                  PROVE  /\ job'.op = "update" /\ job'.name = n
                         /\ \/ /\ \E v \in Version :
                                    job'.todo = <<Copy(User(n), Backup(n)),
                                                  Copy(Given(v), User(n))>>
                               /\ disk'[User(n)] = old[n]
                            \/ /\ \E v \in Version :
                                    job'.todo = <<Copy(Given(v), User(n))>>
                               /\ disk'[Backup(n)] = old[n]
      BY <1>1 DEF UpdateIsSafe
    <2>1. job # NoJob
      BY <1>1 DEF NoJob
    <2>2. /\ job.op = "update" /\ job.name = n
          /\ \/ /\ \E v \in Version :
                     ops = <<Copy(User(n), Backup(n)), Copy(Given(v), User(n))>>
                /\ disk[User(n)] = old[n]
             \/ /\ \E v \in Version : ops = <<Copy(Given(v), User(n))>>
                /\ disk[Backup(n)] = old[n]
      BY <1>1, <2>1 DEF UnitInv, UpdateIsSafe
    <2>3. CASE Op.to = Backup(n)
      <3>1. disk'[User(n)] = disk[User(n)]
        BY <1>2, <2>3, Paths
      <3>2. \A v \in Version : ops # <<Copy(Given(v), User(n))>>
        BY <1>1, <2>3, Paths DEF Copy
      <3>. QED
        BY <1>3, <2>2, <3>1, <3>2
    <2>4. CASE Op.to # Backup(n)
      <3>1. disk'[Backup(n)] = disk[Backup(n)]
        BY <1>2, <2>4, Paths
      <3>2. \A v \in Version :
              ops # <<Copy(User(n), Backup(n)), Copy(Given(v), User(n))>>
        BY <1>1, <2>4 DEF Copy
      <3>. QED
        BY <1>3, <2>2, <3>1, <3>2
    <2>. QED
      BY <2>3, <2>4
  <1>8. SnapshotIsKept'
    <2>. SUFFICES ASSUME job.op # "snapshot", NEW n \in Unit, taken[n] # NoFile
                  PROVE  Captured(n)'
      BY <1>1, <1>3 DEF SnapshotIsKept
    <2>1. Captured(n) /\ Op.to[1] # "snapshot"
      BY <1>1 DEF UnitInv, SnapshotIsKept, WritesWhereItMay, Writes
    <2>2. disk'[Snap(n)] = disk[Snap(n)]
      BY <1>1, <1>2, <2>1, Paths
    <2>. QED
      BY <1>1, <2>1, <2>2 DEF Captured
  <1>9. RestoreIsRight'
    <2>. SUFFICES ASSUME job.op = "restore" PROVE RestoreIsRight'
      BY <1>3 DEF RestoreIsRight
    <2>1. PICK m \in Unit : Op = Copy(Snap(m), User(m))
      BY <1>1 DEF UnitInv, RestoreIsRight
    <2>2. ASSUME ~job.failed, NEW n \in Unit, taken[n] # NoFile
          PROVE  disk'[User(n)] = disk'[Snap(n)] \/ Pending(Copy(Snap(n), User(n)))'
      <3>1. disk[User(n)] = disk[Snap(n)] \/ Pending(Copy(Snap(n), User(n)))
        BY <2>2 DEF UnitInv, RestoreIsRight
      <3>2. CASE n = m
        BY <1>1, <1>4, <2>1, <3>2
      <3>3. CASE n # m
        <4>1. /\ disk'[User(n)] = disk[User(n)]
              /\ disk'[Snap(n)] = disk[Snap(n)]
          BY <1>2, <2>1, <3>3, Paths DEF Copy
        <4>. QED
          BY <1>4, <3>1, <4>1
      <3>. QED
        BY <3>2, <3>3
    <2>. QED
      BY <1>1, <1>3, <2>2 DEF UnitInv, RestoreIsRight
  <1>10. ConvertIsRight'
    <2>1. job.op # "convert"
      <3>1. ASSUME job.op = "convert" PROVE Op.do # "copy"
        <4>1. \E m \in Unit : \/ Op = SkipUnit(m)
                             \/ \E v \in Version : Op = Write(v, User(m))
          BY <1>1, <3>1 DEF UnitInv, ConvertIsRight
        <4>. QED
          BY <4>1 DEF Write, SkipUnit
      <3>. QED
        BY <1>1, <3>1
    <2>. QED
      BY <1>3, <2>1 DEF ConvertIsRight
  <1>11. SnapshotIsRight'
    <2>. SUFFICES ASSUME job.op = "snapshot" PROVE SnapshotIsRight'
      BY <1>3 DEF SnapshotIsRight
    <2>1. PICK m \in Unit : Op \in {Copy(System(m), Snap(m)), Copy(User(m), Snap(m))}
      BY <1>1 DEF UnitInv, SnapshotIsRight, Saves, OnDir
    <2>2. Op.to = Snap(m) /\ Op.from \in {System(m), User(m)}
      BY <2>1 DEF Copy
    <2>3. \A p \in Path : p[1] \in {"user", "system"} => disk'[p] = disk[p]
      BY <1>2, <2>2, Paths
    <2>4. ASSUME NEW n \in Unit, taken[n] # NoFile
          PROVE  /\ taken[n] = Definition(n)' /\ disk'[User(n)] # HalfFile
                 /\ \/ Exists(User(n))' /\ Pending(Copy(User(n), Snap(n)))'
                    \/ /\ Exists(User(n))' /\ disk'[Snap(n)] = disk'[User(n)]
                       /\ ~Pending(Copy(System(n), Snap(n)))'
                    \/ /\ ~Exists(User(n))'
                       /\ ~Pending(Copy(User(n), Snap(n)))'
                       /\ \/ disk'[Snap(n)] = disk'[System(n)]
                          \/ Pending(Copy(System(n), Snap(n)))'
      <3>1. /\ disk'[User(n)] = disk[User(n)] /\ disk'[System(n)] = disk[System(n)]
            /\ taken[n] = Definition(n) /\ disk[User(n)] # HalfFile
        BY <2>3, <2>4, Paths DEF UnitInv, SnapshotIsRight
      <3>2. Definition(n)' = Definition(n) /\ Exists(User(n))' = Exists(User(n))
        BY <3>1 DEF Definition, Exists
      <3>3. \/ Exists(User(n)) /\ Pending(Copy(User(n), Snap(n)))
            \/ /\ Exists(User(n)) /\ disk[Snap(n)] = disk[User(n)]
               /\ ~Pending(Copy(System(n), Snap(n)))
            \/ /\ ~Exists(User(n))
               /\ ~Pending(Copy(User(n), Snap(n)))
               /\ \/ disk[Snap(n)] = disk[System(n)]
                  \/ Pending(Copy(System(n), Snap(n)))
        BY <2>4 DEF UnitInv, SnapshotIsRight
      <3>4. CASE n # m
        <4>1. disk'[Snap(n)] = disk[Snap(n)]
          BY <1>2, <2>2, <3>4, Paths
        <4>. QED
          BY <1>4, <3>1, <3>2, <3>3, <4>1
      <3>5. CASE n = m
        BY <1>1, <1>4, <2>1, <3>1, <3>2, <3>3, <3>5
      <3>. QED
        BY <3>4, <3>5
    <2>5. /\ \A i \in 1..Len(ops) : Saves(ops[i])
          /\ \A i, j \in 1..Len(ops) :
               i < j /\ ops[i].from[1] = "user" => ops[j].from[1] = "user"
      BY DEF UnitInv, SnapshotIsRight
    <2>6. /\ \A i \in 1..Len(job'.todo) : Saves(job'.todo[i])
          /\ \A i, j \in 1..Len(job'.todo) :
               i < j /\ job'.todo[i].from[1] = "user" => job'.todo[j].from[1] = "user"
      BY <1>3, <2>5
    <2>. QED
      BY <1>1, <2>4, <2>6 DEF SnapshotIsRight, Saves
  <1>. QED
    BY <1>5, <1>6, <1>7, <1>8, <1>9, <1>10, <1>11 DEF UnitInv

\* An operation that fails: of what it was to do nothing is promised any more.
LEMMA Failed ==
    ASSUME UnitInv, CopyFails \/ Fails
    PROVE  UnitInv'
  <1>. DEFINE ops == job.todo
  <1>1. /\ UnitTypes /\ Op \in UnitStep /\ Op = ops[1] /\ 1 \in 1..Len(ops)
        /\ job.op # "none" /\ ops # <<>> /\ UNCHANGED <<disk, systemd>>
        /\ job' = Advanced(TRUE) /\ ops \in Seq(UnitStep)
    <2>1. /\ job.op # "none" /\ ops # <<>> /\ UNCHANGED <<disk, systemd>>
          /\ job' = Advanced(TRUE)
      BY DEF CopyFails, Fails, Busy
    <2>. QED
      BY <2>1, NextOp DEF UnitInv
  <1>2. /\ job' \in JobType /\ job'.op = job.op /\ job'.name = job.name
        /\ job'.failed /\ job'.todo = IF Op.strict THEN <<>> ELSE Tail(ops)
    <2>. DEFINE left == IF Op.strict THEN <<>> ELSE Tail(ops)
    <2>1. (job.failed \/ TRUE) = TRUE
      OBVIOUS
    <2>2. job' = [job EXCEPT !.todo = IF TRUE /\ Op.strict THEN <<>> ELSE Tail(ops),
                             !.half = FALSE, !.failed = job.failed \/ TRUE]
      BY <1>1 DEF Advanced
    <2>3. job' = [job EXCEPT !.todo = left, !.half = FALSE, !.failed = TRUE]
      BY <2>1, <2>2
    <2>4. left \in Seq(UnitStep)
      BY <1>1
    <2>. HIDE DEF left
    <2>5. job \in JobType
      BY <1>1 DEF UnitTypes
    <2>6. /\ job' \in JobType /\ job'.op = job.op /\ job'.name = job.name
          /\ job'.failed = TRUE /\ job'.todo = left
      BY <2>3, <2>4, <2>5 DEF JobType
    <2>. QED
      BY <2>6 DEF left
  <1>3. /\ \A s : Pending(s)' => Pending(s)
        /\ \A i \in 1..Len(job'.todo) :
             i + 1 \in 1..Len(ops) /\ job'.todo[i] = ops[i + 1]
        /\ ~Op.strict => \A s : Pending(s) => s = Op \/ Pending(s)'
    <2>1. CASE Op.strict
      BY <1>2, <2>1 DEF Pending
    <2>2. CASE ~Op.strict
      BY <1>1, <1>2, <2>2, OneLess
    <2>. QED
      BY <2>1, <2>2
  <1>4. /\ Op.do = "copy" => CopyFails
        /\ \/ old' = old
           \/ old' = [old EXCEPT ![job.name] = NoFile]
        /\ \/ taken' = taken
           \/ taken' = [taken EXCEPT ![Op.to[2]] = NoFile]
           \/ taken' = [n \in Unit |-> NoFile]
        /\ Op.do = "mkdir" => taken' = [n \in Unit |-> NoFile]
    BY <1>1 DEF CopyFails, Fails, Busy, Op, Without
  <1>5. /\ \A n \in Unit : taken'[n] # NoFile => taken'[n] = taken[n]
        /\ \A n \in Unit : old'[n] \in Version => old'[n] = old[n]
    BY <1>1, <1>4, UnitAssumption DEF UnitTypes
  <1>6. UnitTypes'
    <2>1. old' \in [Unit -> Content]
      BY <1>1, <1>4 DEF UnitTypes, Content
    <2>2. taken' \in [Unit -> Version \union {NoFile}]
      BY <1>1, <1>4 DEF UnitTypes
    <2>. QED
      BY <1>1, <1>2, <2>1, <2>2 DEF UnitTypes
  <1>7. WritesWhereItMay'
    BY <1>1, <1>2, <1>3, ZenonT(40) DEF UnitInv, WritesWhereItMay, Writes
  <1>8. UpdateIsSafe'
    <2>. SUFFICES ASSUME NEW n \in Unit, old'[n] \in Version
                  PROVE  /\ job'.op = "update" /\ job'.name = n
                         /\ job'.todo = <<>> /\ disk'[Backup(n)] = old'[n]
      BY DEF UpdateIsSafe
    <2>1. old'[n] = old[n] /\ job # NoJob
      BY <1>1, <1>5 DEF NoJob
    <2>2. job.op = "update" /\ job.name = n
      BY <2>1 DEF UnitInv, UpdateIsSafe
    <2>3. ASSUME NEW v \in Version,
                 ops = <<Copy(User(n), Backup(n)), Copy(Given(v), User(n))>>
          PROVE  FALSE
      <3>1. Op = Copy(User(n), Backup(n))
        BY <1>1, <2>3
      <3>2. Op.do = "copy" /\ Op.to[1] = "backup"
        BY <3>1, Paths DEF Copy
      <3>3. old' = [old EXCEPT ![n] = NoFile]
        BY <1>4, <2>2, <3>2 DEF CopyFails
      <3>. QED
        BY <1>1, <3>3, UnitAssumption DEF UnitTypes
    <2>4. PICK v \in Version : ops = <<Copy(Given(v), User(n))>>
      BY <1>1, <2>1, <2>3 DEF UnitInv, UpdateIsSafe
    <2>5. disk[Backup(n)] = old[n]
      BY <1>1, <2>1, <2>3 DEF UnitInv, UpdateIsSafe
    <2>6. job'.todo = <<>>
      BY <1>2, <2>4
    <2>. QED
      BY <1>1, <1>2, <2>1, <2>2, <2>5, <2>6
  <1>9. SnapshotIsKept'
    BY <1>1, <1>2, <1>5 DEF UnitInv, SnapshotIsKept, Captured
  <1>10. RestoreIsRight'
    BY <1>2, <1>3 DEF UnitInv, RestoreIsRight
  <1>11. ConvertIsRight'
    BY <1>2, <1>3 DEF UnitInv, ConvertIsRight
  <1>12. SnapshotIsRight'
    <2>. SUFFICES ASSUME job.op = "snapshot" PROVE SnapshotIsRight'
      BY <1>2 DEF SnapshotIsRight
    <2>1. /\ \A i \in 1..Len(ops) : Saves(ops[i])
          /\ \A i, j \in 1..Len(ops) :
               i < j /\ ops[i].from[1] = "user" => ops[j].from[1] = "user"
      BY DEF UnitInv, SnapshotIsRight
    <2>2. CASE Op = OnDir("mkdir", TRUE)
      <3>1. Op.strict /\ Op.do = "mkdir"
        BY <2>2 DEF OnDir
      <3>2. job'.todo = <<>> /\ taken' = [n \in Unit |-> NoFile]
        BY <1>2, <1>4, <3>1
      <3>. QED
        BY <3>2 DEF SnapshotIsRight
    <2>3. CASE Op # OnDir("mkdir", TRUE)
      <3>1. PICK m \in Unit : Op \in {Copy(System(m), Snap(m)), Copy(User(m), Snap(m))}
        BY <1>1, <2>1, <2>3 DEF Saves
      <3>2. Op.to = Snap(m) /\ Op.do = "copy" /\ ~Op.strict /\ Snap(m)[2] = m
        BY <3>1 DEF Copy, Snap
      <3>3. taken' = [taken EXCEPT ![m] = NoFile]
        BY <1>4, <3>2, Paths DEF CopyFails, Without
      <3>4. ASSUME NEW n \in Unit, taken'[n] # NoFile
            PROVE  /\ taken'[n] = Definition(n)' /\ disk'[User(n)] # HalfFile
                   /\ \/ Exists(User(n))' /\ Pending(Copy(User(n), Snap(n)))'
                      \/ /\ Exists(User(n))' /\ disk'[Snap(n)] = disk'[User(n)]
                         /\ ~Pending(Copy(System(n), Snap(n)))'
                      \/ /\ ~Exists(User(n))'
                         /\ ~Pending(Copy(User(n), Snap(n)))'
                         /\ \/ disk'[Snap(n)] = disk'[System(n)]
                            \/ Pending(Copy(System(n), Snap(n)))'
        <4>1. n # m /\ taken'[n] = taken[n]
          BY <1>1, <1>5, <3>3, <3>4 DEF UnitTypes
        <4>2. Definition(n)' = Definition(n) /\ Exists(User(n))' = Exists(User(n))
          BY <1>1 DEF Definition, Exists
        <4>3. Copy(User(n), Snap(n)) # Op /\ Copy(System(n), Snap(n)) # Op
          BY <3>2, <4>1, Paths DEF Copy
        <4>4. /\ Pending(Copy(User(n), Snap(n)))' <=> Pending(Copy(User(n), Snap(n)))
              /\ Pending(Copy(System(n), Snap(n)))' <=> Pending(Copy(System(n), Snap(n)))
          BY <1>3, <3>2, <4>3
        <4>. QED
          BY <1>1, <3>4, <4>1, <4>2, <4>4 DEF UnitInv, SnapshotIsRight
      <3>5. /\ \A i \in 1..Len(job'.todo) : Saves(job'.todo[i])
            /\ \A i, j \in 1..Len(job'.todo) :
                 i < j /\ job'.todo[i].from[1] = "user" => job'.todo[j].from[1] = "user"
        BY <1>3, <2>1, SMTT(30)
      <3>. QED
        BY <3>4, <3>5 DEF SnapshotIsRight, Saves
    <2>. QED
      BY <2>2, <2>3
  <1>. QED
    BY <1>6, <1>7, <1>8, <1>9, <1>10, <1>11, <1>12 DEF UnitInv

\* A command is over, or was killed.
LEMMA Ended ==
    ASSUME UnitInv, Done \/ Killed
    PROVE  UnitInv'
  <1>1. /\ job' = NoJob /\ UNCHANGED <<disk, old>> /\ systemd' \subseteq systemd
        /\ UnitTypes
    BY DEF UnitInv, Done, Killed
  <1>2. job'.op = "none" /\ job'.todo = <<>> /\ job' \in JobType
    BY <1>1 DEF NoJob, JobType, UnitOp, Content
  <1>3. /\ taken' = taken \/ taken' = [n \in Unit |-> NoFile]
        /\ job.op = "snapshot" /\ taken' = taken => job.todo = <<>> \/ taken' = [n \in Unit |-> NoFile]
    BY DEF Done, Killed
  <1>4. UnitTypes'
    BY <1>1, <1>2, <1>3 DEF UnitTypes
  <1>5. WritesWhereItMay'
    BY <1>2 DEF WritesWhereItMay
  <1>6. UpdateIsSafe'
    <2>. SUFFICES ASSUME NEW n \in Unit, old[n] \in Version
                  PROVE  old[n] \in {disk[User(n)], disk[Backup(n)]}
      BY <1>1 DEF UpdateIsSafe
    <2>. QED
      BY DEF UnitInv, UpdateIsSafe
  <1>7. SnapshotIsKept'
    <2>. SUFFICES ASSUME NEW n \in Unit, taken'[n] # NoFile PROVE Captured(n)'
      BY DEF SnapshotIsKept
    <2>1. taken' = taken /\ (job.op = "snapshot" => job.todo = <<>>)
      BY <1>3
    <2>2. CASE job.op # "snapshot"
      BY <1>1, <2>1, <2>2 DEF UnitInv, SnapshotIsKept, Captured
    <2>3. CASE job.op = "snapshot"
      <3>1. \A s : ~Pending(s)
        BY <2>1, <2>3 DEF Pending
      <3>2. /\ taken[n] = Definition(n) /\ disk[User(n)] # HalfFile
            /\ \/ Exists(User(n)) /\ disk[Snap(n)] = disk[User(n)]
               \/ ~Exists(User(n)) /\ disk[Snap(n)] = disk[System(n)]
        BY <2>1, <2>3, <3>1 DEF UnitInv, SnapshotIsRight
      <3>3. disk[User(n)] \in Content
        BY <1>1, Paths DEF UnitTypes
      <3>4. Captured(n)
        BY <2>1, <3>2, <3>3, UnitAssumption DEF Captured, Definition, Exists, Content
      <3>. QED
        BY <1>1, <2>1, <3>4 DEF Captured
    <2>. QED
      BY <2>2, <2>3
  <1>8. SnapshotIsRight' /\ RestoreIsRight' /\ ConvertIsRight'
    BY <1>2 DEF SnapshotIsRight, RestoreIsRight, ConvertIsRight
  <1>. QED
    BY <1>4, <1>5, <1>6, <1>7, <1>8 DEF UnitInv

\* A step that touches neither a file nor the command in progress.
LEMMA Between ==
    ASSUME UnitInv, UNCHANGED <<disk, systemd, job, old, taken>>
    PROVE  UnitInv'
  <1>1. UnitTypes' /\ WritesWhereItMay' /\ UpdateIsSafe'
    BY DEF UnitInv, UnitTypes, WritesWhereItMay, Writes, UpdateIsSafe
  <1>2. SnapshotIsRight'
    BY DEF UnitInv, SnapshotIsRight, Saves, Definition, Exists, Pending
  <1>3. SnapshotIsKept' /\ RestoreIsRight' /\ ConvertIsRight'
    BY DEF UnitInv, SnapshotIsKept, RestoreIsRight, ConvertIsRight, Captured,
       Exists, Pending
  <1>. QED
    BY <1>1, <1>2, <1>3 DEF UnitInv

\* A package is installed, upgraded or removed, whatever csr is doing.
LEMMA Upgraded ==
    ASSUME UnitInv, Upgrade
    PROVE  UnitInv'
  <1>1. PICK n \in Packaged, v \in Version \union {NoFile} :
          /\ disk' = [disk EXCEPT ![System(n)] = v]
          /\ taken' = IF job.op = "snapshot" THEN [taken EXCEPT ![n] = NoFile] ELSE taken
    BY DEF Upgrade
  <1>2. UNCHANGED <<systemd, job, old>> /\ UnitTypes /\ n \in Unit
    BY UnitAssumption DEF UnitInv, Upgrade
  <1>3. /\ \A p \in Path : p # System(n) => disk'[p] = disk[p]
        /\ disk' \in [Path -> Content]
    BY <1>1, <1>2, Paths DEF UnitTypes, Content
  <1>4. /\ \A m \in Unit : /\ disk'[User(m)] = disk[User(m)]
                           /\ disk'[Snap(m)] = disk[Snap(m)]
                           /\ disk'[Backup(m)] = disk[Backup(m)]
        /\ \A m \in Unit : m # n => disk'[System(m)] = disk[System(m)]
    <2>. SUFFICES ASSUME NEW m \in Unit
                  PROVE  /\ disk'[User(m)] = disk[User(m)]
                         /\ disk'[Snap(m)] = disk[Snap(m)]
                         /\ disk'[Backup(m)] = disk[Backup(m)]
                         /\ m # n => disk'[System(m)] = disk[System(m)]
      OBVIOUS
    <2>1. /\ User(m) # System(n) /\ Snap(m) # System(n)
          /\ Backup(m) # System(n)
          /\ m # n => System(m) # System(n)
      BY DEF User, Snap, Backup, System
    <2>2. User(m) \in Path /\ Snap(m) \in Path /\ Backup(m) \in Path /\ System(m) \in Path
      BY Paths
    <2>. QED
      BY <1>3, <2>1, <2>2
  <1>5. /\ taken' \in [Unit -> Version \union {NoFile}]
        /\ \A m \in Unit : taken'[m] # NoFile => taken'[m] = taken[m]
    BY <1>1, <1>2 DEF UnitTypes
  <1>6. UnitTypes'
    BY <1>2, <1>3, <1>5 DEF UnitTypes
  <1>7. WritesWhereItMay'
    BY <1>2 DEF UnitInv, WritesWhereItMay, Writes
  <1>8. UpdateIsSafe'
    BY <1>2, <1>4 DEF UnitInv, UpdateIsSafe
  <1>9. SnapshotIsKept' /\ RestoreIsRight'
    BY <1>2, <1>4, <1>5 DEF UnitInv, SnapshotIsKept, RestoreIsRight, Captured, Pending
  <1>10. ConvertIsRight'
    BY <1>2, <1>4 DEF UnitInv, ConvertIsRight, Exists, Pending, UnitTypes
  <1>11. SnapshotIsRight'
    <2>. SUFFICES ASSUME job.op = "snapshot" PROVE SnapshotIsRight'
      BY <1>2 DEF SnapshotIsRight
    <2>1. ASSUME NEW m \in Unit, taken'[m] # NoFile
          PROVE  /\ m # n /\ taken'[m] = taken[m]
                 /\ Definition(m)' = Definition(m) /\ Exists(User(m))' = Exists(User(m))
                 /\ \A s : Pending(s)' <=> Pending(s)
      <3>1. m # n
        BY <1>1, <1>2, <2>1 DEF UnitTypes
      <3>. QED
        BY <1>2, <1>4, <1>5, <2>1, <3>1 DEF Definition, Exists, Pending
    <2>2. /\ \A i \in 1..Len(job.todo) : Saves(job.todo[i])
          /\ \A i, j \in 1..Len(job.todo) :
               i < j /\ job.todo[i].from[1] = "user" => job.todo[j].from[1] = "user"
      BY DEF UnitInv, SnapshotIsRight
    <2>3. ASSUME NEW m \in Unit, taken'[m] # NoFile
          PROVE  /\ taken'[m] = Definition(m)' /\ disk'[User(m)] # HalfFile
                 /\ \/ Exists(User(m))' /\ Pending(Copy(User(m), Snap(m)))'
                    \/ /\ Exists(User(m))' /\ disk'[Snap(m)] = disk'[User(m)]
                       /\ ~Pending(Copy(System(m), Snap(m)))'
                    \/ /\ ~Exists(User(m))'
                       /\ ~Pending(Copy(User(m), Snap(m)))'
                       /\ \/ disk'[Snap(m)] = disk'[System(m)]
                          \/ Pending(Copy(System(m), Snap(m)))'
      BY <1>4, <2>1, <2>3 DEF UnitInv, SnapshotIsRight
    <2>4. /\ \A i \in 1..Len(job'.todo) : Saves(job'.todo[i])
          /\ \A i, j \in 1..Len(job'.todo) :
               i < j /\ job'.todo[i].from[1] = "user" => job'.todo[j].from[1] = "user"
      BY <1>2, <2>2
    <2>. QED
      BY <2>3, <2>4 DEF SnapshotIsRight, Saves
  <1>. QED
    BY <1>6, <1>7, <1>8, <1>9, <1>10, <1>11 DEF UnitInv

\* A step of a command leaves it with the rest of its steps.
LEMMA JobAdvances ==
    ASSUME UnitTypes, job.todo # <<>>,
           job' = Advanced(FALSE) \/ job' = [Advanced(FALSE) EXCEPT !.wrote = TRUE]
    PROVE  /\ job' \in JobType /\ job'.op = job.op /\ job'.name = job.name
           /\ job'.failed = job.failed /\ job'.todo = Tail(job.todo)
  <1>1. job \in JobType /\ Tail(job.todo) \in Seq(UnitStep)
    BY DEF UnitTypes, JobType
  <1>2. job.failed \in BOOLEAN /\ (job.failed \/ FALSE) = job.failed
    BY <1>1, Zenon DEF JobType
  <1>3. Advanced(FALSE) =
          [job EXCEPT !.todo = Tail(job.todo), !.half = FALSE,
                      !.failed = job.failed \/ FALSE]
    BY DEF Advanced
  <1>4. Advanced(FALSE) =
          [job EXCEPT !.todo = Tail(job.todo), !.half = FALSE, !.failed = job.failed]
    BY <1>2, <1>3
  <1>. DEFINE after == Advanced(FALSE)
  <1>5. /\ after \in JobType /\ after.op = job.op /\ after.name = job.name
        /\ after.failed = job.failed /\ after.todo = Tail(job.todo)
    BY <1>1, <1>4 DEF JobType
  <1>. HIDE DEF after
  <1>6. job' = after \/ job' = [after EXCEPT !.wrote = TRUE]
    BY DEF after
  <1>. QED
    BY <1>5, <1>6 DEF JobType

\* What is read to be written.
LEMMA WhatIsRead ==
    ASSUME UnitTypes, job.todo # <<>>, Op.do \in {"copy", "write"}
    PROVE  Read(Op.from) \in Content
  <1>1. Op.from \in Path \union ({"given"} \X Version)
    BY NextOp DEF OnFiles
  <1>2. CASE Op.from \in Path
    <2>1. Op.from[1] # "given"
      BY <1>2 DEF Path
    <2>. QED
      BY <1>2, <2>1 DEF Read, UnitTypes
  <1>3. CASE Op.from \in {"given"} \X Version
    BY <1>3 DEF Read, Content
  <1>. QED
    BY <1>1, <1>2, <1>3

\* One step on the files keeps every part of the invariant.
LEMMA FileStepKeeps ==
    ASSUME UnitInv, FileStep
    PROVE  UnitInv'
  <1>1. UnitTypes
    BY DEF UnitInv
  <1>2. CASE CopyFill \/ WriteWhole
    <2>1. /\ job.op # "none" /\ job.todo # <<>> /\ UNCHANGED <<old, taken, systemd>>
          /\ Op.do \in {"copy", "write"} /\ disk' = [disk EXCEPT ![Op.to] = Read(Op.from)]
          /\ job' = Advanced(FALSE) \/ job' = [Advanced(FALSE) EXCEPT !.wrote = TRUE]
      BY <1>2 DEF CopyFill, WriteWhole, Busy, Op
    <2>. QED
      BY <1>1, <2>1, JobAdvances, WhatIsRead, Executed
  <1>3. CASE DeleteUnit
    <2>1. /\ job.op # "none" /\ job.todo # <<>> /\ UNCHANGED <<old, systemd>>
          /\ Op.do = "remove" /\ taken' = Without(Op.to)
          /\ disk' = [disk EXCEPT ![Op.to] = NoFile]
          /\ job' = Advanced(FALSE) /\ NoFile \in Content
      BY <1>3 DEF DeleteUnit, Busy, Op, Content
    <2>. QED
      BY <1>1, <2>1, JobAdvances, Executed
  <1>4. CASE DeleteLink \/ Skipped \/ MakeDir \/ RemoveDir \/ MoveIn
    <2>1. /\ job.op # "none" /\ job.todo # <<>>
          /\ UNCHANGED <<disk, old, taken, systemd>>
          /\ Op.do \in {"unlink", "skip", "mkdir", "rmdir", "rename"}
          /\ job' = Advanced(FALSE)
      BY <1>4 DEF DeleteLink, Skipped, MakeDir, RemoveDir, MoveIn, Busy, Op
    <2>. QED
      BY <1>1, <2>1, JobAdvances, Passed
  <1>. QED
    BY <1>2, <1>3, <1>4, Truncated, Failed, Ended DEF FileStep

\* A command of any operations begins.
LEMMA Issued ==
    ASSUME NEW op \in UnitOp, NEW n \in Unit \union {"none"},
           NEW ops \in Seq(UnitStep), NEW force \in BOOLEAN,
           Run(op, n, ops, force), UnitTypes, op = "rollback" => n \in Unit
    PROVE  /\ job'.op = op /\ job'.todo = ops /\ job'.name = n
           /\ job'.failed = FALSE /\ job' \in JobType
  <1>. DEFINE file == IF op = "rollback" THEN disk[User(n)] ELSE NoFile
  <1>1. file \in Content
    BY Paths DEF UnitTypes, Content
  <1>2. job' = [NoJob EXCEPT !.op = op, !.name = n, !.todo = ops, !.force = force,
                             !.found = file]
    BY DEF Run
  <1>. HIDE DEF file
  <1>3. job' = [op |-> op, name |-> n, todo |-> ops, half |-> FALSE,
                wrote |-> FALSE, failed |-> FALSE, force |-> force, found |-> file]
    BY <1>2, Zenon DEF NoJob
  <1>. QED
    BY <1>1, <1>3 DEF JobType

\* A command begins right if the list of its steps is right.
LEMMA Begins ==
    ASSUME UnitInv, NEW op \in UnitOp, NEW n \in Unit \union {"none"},
           NEW ops \in Seq(UnitStep), NEW force \in BOOLEAN,
           Run(op, n, ops, force), UNCHANGED <<disk, systemd>>,
           taken' \in [Unit -> Version \union {NoFile}],
           op # "snapshot" =>
             /\ job.op # "snapshot" /\ taken' = taken
             /\ \A i \in 1..Len(ops) : Writes(ops[i]) => ops[i].to[1] # "snapshot",
           op = "rollback" => n \in Unit,
           op = "update" => UpdateIsSafe',
           op = "snapshot" => SnapshotIsRight',
           op = "restore" => RestoreIsRight',
           op = "convert" => ConvertIsRight'
    PROVE  UnitInv'
  <1>1. /\ job'.op = op /\ job'.todo = ops /\ job'.name = n
        /\ job'.failed = FALSE /\ job' \in JobType
    BY Issued DEF UnitInv
  <1>2. /\ UnitTypes /\ \A m \in Unit : User(m) \in Path
        /\ \A m \in Unit : disk[User(m)] \in Content
    BY Paths DEF UnitInv, UnitTypes
  <1>3. /\ old' = [m \in Unit |-> IF op = "update" /\ m = n THEN disk[User(n)] ELSE NoFile]
        /\ old' \in [Unit -> Content]
    BY <1>2 DEF Run, Content
  <1>4. UnitTypes'
    BY <1>1, <1>2, <1>3 DEF UnitTypes
  <1>5. WritesWhereItMay'
    BY <1>1 DEF WritesWhereItMay, Writes
  <1>6. UpdateIsSafe'
    <2>1. ASSUME op # "update" PROVE \A m \in Unit : old'[m] \notin Version
      BY <1>3, <2>1, UnitAssumption
    <2>. QED
      BY <2>1 DEF UpdateIsSafe
  <1>7. SnapshotIsKept'
    BY <1>1 DEF UnitInv, SnapshotIsKept, Captured
  <1>8. SnapshotIsRight' /\ RestoreIsRight' /\ ConvertIsRight'
    BY <1>1 DEF SnapshotIsRight, RestoreIsRight, ConvertIsRight
  <1>. QED
    BY <1>1, <1>4, <1>5, <1>6, <1>7, <1>8 DEF UnitInv

\* The units of a directory, one after the other.
LEMMA EachUnit ==
    ASSUME NEW S, S \subseteq Unit
    PROVE  /\ SetToSeq(S) \in [1..Len(SetToSeq(S)) -> S]
           /\ Len(SetToSeq(S)) \in Nat
           /\ \A x \in S : \E i \in 1..Len(SetToSeq(S)) : SetToSeq(S)[i] = x
  BY EveryFile, UnitAssumption, FS_Subset

\* What convert does for a unit.
ToConvert(n, v, force) ==
    IF force \/ ~Exists(User(n)) THEN Write(v, User(n)) ELSE SkipUnit(n)

\* The commands of one unit, but for daemon update.
LEMMA SimpleKeeps ==
    ASSUME UnitInv, Idle, NEW n \in Unit,
           \/ Rm(n) \/ Rollback(n)
           \/ \E v \in Version : Create(n, v) \/ Install(n, v)
    PROVE  UnitInv'
  <1>1. job.op = "none" /\ UnitTypes /\ FALSE \in BOOLEAN
    BY DEF Idle, NoJob, UnitInv
  <1>2. /\ User(n)[1] = "user" /\ n \in Unit \union {"none"}
        /\ taken \in [Unit -> Version \union {NoFile}]
    BY <1>1, Paths DEF UnitTypes
  <1>3. ASSUME NEW op \in {"create", "rm", "install", "rollback"},
               NEW ops \in Seq(UnitStep), \A i \in 1..Len(ops) : ops[i].to = User(n),
               Run(op, n, ops, FALSE), UNCHANGED <<disk, systemd, taken>>
        PROVE  UnitInv'
    BY <1>1, <1>2, <1>3, Begins DEF UnitOp
  <1>4. ASSUME NEW op \in {"create", "install", "rollback"},
                NEW step \in UnitStep, step.to = User(n),
                Run(op, n, <<step>>, FALSE), UNCHANGED <<disk, systemd, taken>>
         PROVE  UnitInv'
    <2>. DEFINE ops == <<step>>
    <2>1. ops \in Seq(UnitStep) /\ Len(ops) = 1 /\ ops[1] = step
      BY <1>4
    <2>2. \A i \in 1..Len(ops) : ops[i].to = User(n)
      BY <1>4, <2>1
    <2>. HIDE DEF ops
    <2>3. Run(op, n, ops, FALSE)
      BY <1>4 DEF ops
    <2>. QED
      BY <1>3, <1>4, <2>1, <2>2, <2>3
  <1>5. ASSUME NEW v \in Version, Create(n, v)
        PROVE  UnitInv'
    <2>1. Write(v, User(n)) \in UnitStep /\ Write(v, User(n)).to = User(n)
      BY Steps DEF Write
    <2>2. /\ Run("create", n, <<Write(v, User(n))>>, FALSE)
          /\ UNCHANGED <<disk, systemd, taken>>
      BY <1>5 DEF Create
    <2>. QED
      BY <1>4, <2>1, <2>2
  <1>6. ASSUME NEW v \in Version, Install(n, v)
        PROVE  UnitInv'
    <2>1. Copy(Given(v), User(n)) \in UnitStep /\ Copy(Given(v), User(n)).to = User(n)
      BY Steps DEF Copy
    <2>2. /\ Run("install", n, <<Copy(Given(v), User(n))>>, FALSE)
          /\ UNCHANGED <<disk, systemd, taken>>
      BY <1>6 DEF Install
    <2>. QED
      BY <1>4, <2>1, <2>2
  <1>7. CASE Rollback(n)
    <2>1. Copy(User(n), User(n)) \in UnitStep /\ Copy(User(n), User(n)).to = User(n)
      BY Steps DEF Copy
    <2>2. /\ Run("rollback", n, <<Copy(User(n), User(n))>>, FALSE)
          /\ UNCHANGED <<disk, systemd, taken>>
      BY <1>7 DEF Rollback
    <2>. QED
      BY <1>4, <2>1, <2>2
  <1>8. CASE Rm(n)
    <2>. DEFINE ops == <<Delete(User(n)), Unlink(n)>>
    <2>1. ops \in Seq(UnitStep) /\ Len(ops) = 2
      BY Steps
    <2>2. Delete(User(n)).to = User(n) /\ Unlink(n).to = User(n)
      BY DEF Delete, Unlink
    <2>3. \A i \in 1..Len(ops) : ops[i].to = User(n)
      BY <2>1, <2>2
    <2>. QED
      BY <1>3, <1>8, <2>1, <2>3 DEF Rm
  <1>. QED
    BY <1>5, <1>6, <1>7, <1>8

\* daemon update
LEMMA UpdateKeeps ==
    ASSUME UnitInv, Idle, NEW n \in Unit, NEW v \in Version, Update(n, v)
    PROVE  UnitInv'
  <1>1. job.op = "none" /\ UnitTypes /\ FALSE \in BOOLEAN /\ "update" \in UnitOp
    BY DEF Idle, NoJob, UnitInv, UnitOp
  <1>2. /\ User(n)[1] = "user" /\ Backup(n)[1] = "backup"
        /\ n \in Unit \union {"none"} /\ taken \in [Unit -> Version \union {NoFile}]
    BY <1>1, Paths DEF UnitTypes
  <1>. DEFINE two == <<Copy(User(n), Backup(n)), Copy(Given(v), User(n))>>
              one == <<Copy(Given(v), User(n))>>
  <1>3. UpdateSteps(n, v) = IF Exists(User(n)) THEN two ELSE one
    <2>1. CASE Exists(User(n))
      <3>. DEFINE saved == Copy(User(n), Backup(n))
                  installed == Copy(Given(v), User(n))
      <3>1. UpdateSteps(n, v) = <<saved>> \o <<installed>>
        BY <2>1 DEF UpdateSteps
      <3>2. two = <<saved, installed>>
        OBVIOUS
      <3>. HIDE DEF saved, installed
      <3>3. <<saved>> \o <<installed>> = <<saved, installed>>
        <4>. DEFINE T == {saved, installed}
                    joined == <<saved>> \o <<installed>>
        <4>1. <<saved>> \in Seq(T) /\ <<installed>> \in Seq(T) /\ <<saved, installed>> \in Seq(T)
          OBVIOUS
        <4>2. joined \in Seq(T) /\ Len(joined) = 2
          BY <4>1
        <4>3. joined[1] = saved /\ joined[2] = installed
          BY <4>1
        <4>. HIDE DEF joined
        <4>4. joined = <<saved, installed>>
          BY <4>2, <4>3
        <4>. QED
          BY <4>4 DEF joined
      <3>. QED
        BY <2>1, <3>1, <3>2, <3>3
    <2>2. CASE ~Exists(User(n))
      <3>1. UpdateSteps(n, v) = <<>> \o one
        BY <2>2 DEF UpdateSteps
      <3>. QED
        BY <2>2, <3>1
    <2>. QED
      BY <2>1, <2>2
  <1>4. two \in Seq(UnitStep) /\ one \in Seq(UnitStep) /\ Len(two) = 2 /\ Len(one) = 1
    BY Steps
  <1>5. \A ops \in {two, one} : \A i \in 1..Len(ops) : ops[i].to[1] # "snapshot"
    <2>1. Copy(User(n), Backup(n)).to = Backup(n) /\ Copy(Given(v), User(n)).to = User(n)
      BY DEF Copy
    <2>. QED
      BY <1>2, <1>4, <2>1
  <1>6. UpdateSteps(n, v) \in {two, one} /\ UpdateSteps(n, v) \in Seq(UnitStep)
    BY <1>3, <1>4
  <1>7. /\ Run("update", n, UpdateSteps(n, v), FALSE)
        /\ UNCHANGED <<disk, systemd, taken>>
    BY DEF Update
  <1>8. /\ job'.op = "update" /\ job'.name = n /\ job'.todo = UpdateSteps(n, v)
        /\ old' = [m \in Unit |-> IF m = n THEN disk[User(n)] ELSE NoFile]
    <2>1. old' = [m \in Unit |-> IF "update" = "update" /\ m = n THEN disk[User(n)] ELSE NoFile]
      BY <1>7 DEF Run
    <2>. QED
      BY <1>1, <1>2, <1>6, <1>7, <2>1, Issued
  <1>9. UpdateIsSafe'
    <2>. SUFFICES ASSUME NEW m \in Unit, old'[m] \in Version
                  PROVE  /\ job'.op = "update" /\ job'.name = m
                         /\ \E w \in Version :
                              job'.todo = <<Copy(User(m), Backup(m)), Copy(Given(w), User(m))>>
                         /\ disk'[User(m)] = old'[m]
      BY DEF UpdateIsSafe
    <2>1. m = n /\ disk[User(n)] \in Version /\ old'[m] = disk[User(n)]
      BY <1>8, UnitAssumption
    <2>2. Exists(User(n))
      BY <2>1, UnitAssumption DEF Exists
    <2>. QED
      BY <1>3, <1>7, <1>8, <2>1, <2>2
  <1>. HIDE DEF two, one
  <1>10. \A i \in 1..Len(UpdateSteps(n, v)) : UpdateSteps(n, v)[i].to[1] # "snapshot"
    BY <1>5, <1>6
  <1>. QED
    BY <1>1, <1>2, <1>6, <1>7, <1>9, <1>10, Begins

\* snapshot restore
LEMMA RestoreKeeps ==
    ASSUME UnitInv, Idle, SnapshotRestore
    PROVE  UnitInv'
  <1>1. /\ job.op = "none" /\ UnitTypes /\ FALSE \in BOOLEAN /\ "restore" \in UnitOp
        /\ "none" \in Unit \union {"none"}
        /\ taken \in [Unit -> Version \union {NoFile}]
    BY DEF Idle, NoJob, UnitInv, UnitOp, UnitTypes
  <1>. DEFINE S == InSnapshot
              s == SetToSeq(S)
              ops == [i \in 1..Len(s) |-> Copy(Snap(s[i]), User(s[i]))]
  <1>2. Run("restore", "none", ops, FALSE) /\ UNCHANGED <<disk, systemd, taken>>
    BY DEF SnapshotRestore, EachOf
  <1>3. S \subseteq Unit
    BY DEF InSnapshot
  <1>4. \A n \in Unit : n \in S <=> Exists(Snap(n))
    BY DEF InSnapshot
  <1>4a. \A n \in S : n \in Unit
    BY <1>3
  <1>4b. /\ s \in [1..Len(s) -> S] /\ Len(s) \in Nat
         /\ \A x \in S : \E i \in 1..Len(s) : s[i] = x
    BY <1>3, EachUnit
  <1>. HIDE DEF S, s
  <1>5. /\ ops \in Seq(UnitStep)
        /\ \A i \in 1..Len(ops) : \E n \in S : ops[i] = Copy(Snap(n), User(n))
        /\ \A n \in S : \E i \in 1..Len(ops) : ops[i] = Copy(Snap(n), User(n))
    <2>1. \A i \in 1..Len(s) : s[i] \in S /\ Copy(Snap(s[i]), User(s[i])) \in UnitStep
      BY <1>4a, <1>4b, Steps
    <2>2. ops \in Seq(UnitStep) /\ Len(ops) = Len(s)
      BY <1>4b, <2>1
    <2>3. \A i \in 1..Len(ops) : ops[i] = Copy(Snap(s[i]), User(s[i]))
      BY <2>2
    <2>4. ASSUME NEW n \in S
          PROVE  \E i \in 1..Len(ops) : ops[i] = Copy(Snap(n), User(n))
      <3>1. PICK i \in 1..Len(s) : s[i] = n
        BY <1>4b
      <3>. QED
        BY <2>2, <2>3, <3>1
    <2>. QED
      BY <2>1, <2>2, <2>3, <2>4
  <1>. HIDE DEF ops
  <1>6. job'.op = "restore" /\ job'.todo = ops /\ job'.failed = FALSE
    BY <1>1, <1>2, <1>5, Issued
  <1>7. \A n \in Unit : taken[n] # NoFile => n \in S
    BY <1>1, <1>4, UnitAssumption DEF UnitInv, SnapshotIsKept, Captured, Exists
  <1>8. RestoreIsRight'
    <2>1. \A i \in 1..Len(job'.todo) : \E m \in Unit :
            job'.todo[i] = Copy(Snap(m), User(m))
      BY <1>4a, <1>5, <1>6
    <2>2. ASSUME NEW n \in Unit, taken'[n] # NoFile
          PROVE  Pending(Copy(Snap(n), User(n)))'
      <3>1. n \in S
        BY <1>2, <1>7, <2>2
      <3>. QED
        BY <1>5, <1>6, <3>1 DEF Pending
    <2>. QED
      BY <2>1, <2>2 DEF RestoreIsRight
  <1>9. ASSUME NEW i \in 1..Len(ops)
        PROVE  ops[i].to[1] # "snapshot"
    <2>1. PICK n \in S : ops[i] = Copy(Snap(n), User(n))
      BY <1>5
    <2>2. Copy(Snap(n), User(n)).to = User(n)
      BY DEF Copy
    <2>3. n \in Unit
      BY <1>4a
    <2>4. User(n)[1] = "user"
      BY <2>3, Paths
    <2>. QED
      BY <2>1, <2>2, <2>4
  <1>. QED
    BY <1>1, <1>2, <1>5, <1>8, <1>9, Begins

\* convert
LEMMA ConvertKeeps ==
    ASSUME UnitInv, Idle, NEW v \in Version, NEW force \in BOOLEAN, Convert(v, force)
    PROVE  UnitInv'
  <1>1. /\ job.op = "none" /\ UnitTypes /\ "convert" \in UnitOp
        /\ "none" \in Unit \union {"none"} /\ systemd \subseteq Unit
        /\ taken \in [Unit -> Version \union {NoFile}]
    BY DEF Idle, NoJob, UnitInv, UnitOp, UnitTypes
  <1>. DEFINE s == SetToSeq(systemd)
              ops == [i \in 1..Len(s) |-> ToConvert(s[i], v, force)]
  <1>2. Run("convert", "none", ops, force) /\ UNCHANGED <<disk, systemd, taken>>
    BY DEF Convert, EachOf, ToConvert
  <1>2a. /\ s \in [1..Len(s) -> systemd] /\ Len(s) \in Nat
         /\ \A x \in systemd : \E i \in 1..Len(s) : s[i] = x
    BY <1>1, EachUnit
  <1>. HIDE DEF s
  <1>3. /\ ops \in Seq(UnitStep)
        /\ \A i \in 1..Len(ops) : \E n \in systemd : ops[i] = ToConvert(n, v, force)
        /\ \A n \in systemd : \E i \in 1..Len(ops) : ops[i] = ToConvert(n, v, force)
    <2>1. \A i \in 1..Len(s) : s[i] \in systemd /\ ToConvert(s[i], v, force) \in UnitStep
      BY <1>1, <1>2a, Steps DEF ToConvert
    <2>2. ops \in Seq(UnitStep) /\ Len(ops) = Len(s)
      BY <1>2a, <2>1
    <2>3. \A i \in 1..Len(ops) : ops[i] = ToConvert(s[i], v, force)
      BY <2>2
    <2>4. ASSUME NEW n \in systemd
          PROVE  \E i \in 1..Len(ops) : ops[i] = ToConvert(n, v, force)
      <3>1. PICK i \in 1..Len(s) : s[i] = n
        BY <1>2a
      <3>. QED
        BY <2>2, <2>3, <3>1
    <2>. QED
      BY <2>1, <2>2, <2>3, <2>4
  <1>. HIDE DEF ops
  <1>4. job'.op = "convert" /\ job'.todo = ops
    BY <1>1, <1>2, <1>3, Issued, ZenonT(40)
  <1>5. \A n \in systemd : ToConvert(n, v, force) \in {Write(v, User(n)), SkipUnit(n)}
    BY DEF ToConvert
  <1>6. ASSUME NEW n \in systemd
        PROVE  Exists(User(n))' \/ \E w \in Version : Pending(Write(w, User(n)))'
    <2>1. CASE ToConvert(n, v, force) = Write(v, User(n))
      BY <1>3, <1>4, <2>1 DEF Pending
    <2>2. CASE Exists(User(n))
      BY <1>2, <2>2 DEF Exists
    <2>. QED
      BY <2>1, <2>2 DEF ToConvert
  <1>7. ConvertIsRight'
    BY <1>1, <1>2, <1>3, <1>4, <1>5, <1>6 DEF ConvertIsRight
  <1>8. \A i \in 1..Len(ops) : ops[i].to[1] # "snapshot"
    <2>1. \A n \in systemd : ToConvert(n, v, force).to = User(n)
      BY DEF ToConvert, Write, SkipUnit
    <2>. QED
      BY <1>1, <1>3, <2>1, Paths
  <1>. QED
    BY <1>1, <1>2, <1>3, <1>7, <1>8, Begins

\* snapshot create
LEMMA SnapshotKeeps ==
    ASSUME UnitInv, Idle, SnapshotCreate
    PROVE  UnitInv'
  <1>1. /\ UnitTypes /\ FALSE \in BOOLEAN /\ "snapshot" \in UnitOp
        /\ "none" \in Unit \union {"none"}
    BY DEF UnitInv, UnitOp
  <1>. DEFINE S == {n \in Unit : Exists(System(n))}
              U == {n \in Unit : Exists(User(n))}
              s == SetToSeq(S)
              u == SetToSeq(U)
              A == [i \in 1..Len(s) |-> Copy(System(s[i]), Snap(s[i]))]
              B == [i \in 1..Len(u) |-> Copy(User(u[i]), Snap(u[i]))]
              copies == A \o B
              first == OnDir("mkdir", TRUE)
              ops == <<first>> \o copies
  <1>2. /\ Run("snapshot", "none", ops, FALSE) /\ UNCHANGED <<disk, systemd>>
        /\ taken' = [n \in Unit |-> IF disk[User(n)] = HalfFile THEN NoFile
                                    ELSE Definition(n)]
    BY DEF SnapshotCreate, SnapshotSteps, EachOf
  <1>3. /\ S \subseteq Unit /\ U \subseteq Unit
        /\ \A n \in Unit : n \in S <=> Exists(System(n))
        /\ \A n \in Unit : n \in U <=> Exists(User(n))
    OBVIOUS
  <1>3a. /\ s \in [1..Len(s) -> S] /\ Len(s) \in Nat
         /\ \A x \in S : \E i \in 1..Len(s) : s[i] = x
    BY <1>3, EachUnit
  <1>3b. /\ u \in [1..Len(u) -> U] /\ Len(u) \in Nat
         /\ \A x \in U : \E i \in 1..Len(u) : u[i] = x
    BY <1>3, EachUnit
  <1>. HIDE DEF S, U, s, u
  <1>4. /\ A \in Seq(UnitStep)
        /\ \A i \in 1..Len(A) : \E n \in S : A[i] = Copy(System(n), Snap(n))
        /\ \A n \in S : \E i \in 1..Len(A) : A[i] = Copy(System(n), Snap(n))
    <2>1. \A i \in 1..Len(s) : s[i] \in S /\ Copy(System(s[i]), Snap(s[i])) \in UnitStep
      BY <1>3, <1>3a, Steps
    <2>2. A \in Seq(UnitStep) /\ Len(A) = Len(s)
      BY <1>3a, <2>1
    <2>3. \A i \in 1..Len(A) : A[i] = Copy(System(s[i]), Snap(s[i]))
      BY <2>2
    <2>4. ASSUME NEW n \in S
          PROVE  \E i \in 1..Len(A) : A[i] = Copy(System(n), Snap(n))
      <3>1. PICK i \in 1..Len(s) : s[i] = n
        BY <1>3a
      <3>. QED
        BY <2>2, <2>3, <3>1
    <2>. QED
      BY <2>1, <2>2, <2>3, <2>4
  <1>5. /\ B \in Seq(UnitStep)
        /\ \A i \in 1..Len(B) : \E n \in U : B[i] = Copy(User(n), Snap(n))
        /\ \A n \in U : \E i \in 1..Len(B) : B[i] = Copy(User(n), Snap(n))
    <2>1. \A i \in 1..Len(u) : u[i] \in U /\ Copy(User(u[i]), Snap(u[i])) \in UnitStep
      BY <1>3, <1>3b, Steps
    <2>2. B \in Seq(UnitStep) /\ Len(B) = Len(u)
      BY <1>3b, <2>1
    <2>3. \A i \in 1..Len(B) : B[i] = Copy(User(u[i]), Snap(u[i]))
      BY <2>2
    <2>4. ASSUME NEW n \in U
          PROVE  \E i \in 1..Len(B) : B[i] = Copy(User(n), Snap(n))
      <3>1. PICK i \in 1..Len(u) : u[i] = n
        BY <1>3b
      <3>. QED
        BY <2>2, <2>3, <3>1
    <2>. QED
      BY <2>1, <2>2, <2>3, <2>4
  <1>. HIDE DEF A, B
  <1>6. /\ copies \in Seq(UnitStep) /\ Len(copies) = Len(A) + Len(B)
        /\ Len(A) \in Nat /\ Len(B) \in Nat
        /\ \A i \in 1..Len(A) : copies[i] = A[i]
        /\ \A i \in 1..Len(B) : copies[Len(A) + i] = B[i]
        /\ \A i \in 1..Len(copies) :
             i \in 1..Len(A) \/ (i - Len(A) \in 1..Len(B) /\ copies[i] = B[i - Len(A)])
    BY <1>4, <1>5
  <1>. HIDE DEF copies
  <1>6a. first \in UnitStep /\ first.from[1] = "directory" /\ first.do = "mkdir"
    BY DirSteps
  <1>. HIDE DEF first
  <1>6b. /\ ops \in Seq(UnitStep) /\ Len(ops) = Len(copies) + 1 /\ ops[1] = first
         /\ \A i \in 1..Len(copies) : i + 1 \in 1..Len(ops) /\ ops[i + 1] = copies[i]
         /\ \A i \in 1..Len(ops) : i # 1 =>
              i - 1 \in 1..Len(copies) /\ ops[i] = copies[i - 1]
    BY <1>6, <1>6a
  <1>. HIDE DEF ops
  <1>7. job'.op = "snapshot" /\ job'.todo = ops
    BY <1>1, <1>2, <1>6b, Issued
  <1>7a. \A step : step.do # "mkdir" =>
           (Pending(step)' <=> \E i \in 1..Len(copies) : copies[i] = step)
    <2>. SUFFICES ASSUME NEW step, step.do # "mkdir"
                  PROVE  Pending(step)' <=> \E i \in 1..Len(copies) : copies[i] = step
      OBVIOUS
    <2>1. ASSUME Pending(step)' PROVE \E i \in 1..Len(copies) : copies[i] = step
      <3>1. PICK i \in 1..Len(ops) : ops[i] = step
        BY <1>7, <2>1 DEF Pending
      <3>2. i # 1
        BY <1>6a, <1>6b, <3>1
      <3>. QED
        BY <1>6b, <3>1, <3>2
    <2>2. ASSUME NEW i \in 1..Len(copies), copies[i] = step PROVE Pending(step)'
      BY <1>6b, <1>7, <2>2 DEF Pending
    <2>. QED
      BY <2>1, <2>2
  <1>7b. \A n : /\ Copy(User(n), Snap(n)).do # "mkdir"
                /\ Copy(System(n), Snap(n)).do # "mkdir"
    BY DEF Copy
  <1>8. /\ \A i \in 1..Len(A) : copies[i].from[1] = "system"
        /\ \A i \in 1..Len(copies) : i \notin 1..Len(A) => copies[i].from[1] = "user"
    <2>1. ASSUME NEW i \in 1..Len(A)
          PROVE  copies[i].from[1] = "system"
      <3>1. PICK n \in S : A[i] = Copy(System(n), Snap(n))
        BY <1>4
      <3>. QED
        BY <1>3, <1>6, <3>1, Paths DEF Copy
    <2>2. ASSUME NEW i \in 1..Len(copies), i \notin 1..Len(A)
          PROVE  copies[i].from[1] = "user"
      <3>1. i - Len(A) \in 1..Len(B) /\ copies[i] = B[i - Len(A)]
        BY <1>6, <2>2
      <3>2. PICK n \in U : B[i - Len(A)] = Copy(User(n), Snap(n))
        BY <1>5, <3>1
      <3>. QED
        BY <1>3, <3>1, <3>2, Paths DEF Copy
    <2>. QED
      BY <2>1, <2>2
  <1>9. \A i \in 1..Len(ops) : Saves(ops[i])
    <2>. SUFFICES ASSUME NEW i \in 1..Len(copies)
                  PROVE  \E m \in Unit :
                           copies[i] \in {Copy(System(m), Snap(m)), Copy(User(m), Snap(m))}
      BY <1>6b DEF Saves, first
    <2>1. CASE i \in 1..Len(A)
      BY <1>3, <1>4, <1>6, <2>1
    <2>2. CASE i - Len(A) \in 1..Len(B) /\ copies[i] = B[i - Len(A)]
      BY <1>3, <1>5, <2>2
    <2>. QED
      BY <1>6, <2>1, <2>2
  <1>10. \A i, j \in 1..Len(ops) :
           i < j /\ ops[i].from[1] = "user" => ops[j].from[1] = "user"
    <2>. SUFFICES ASSUME NEW i \in 1..Len(ops), NEW j \in 1..Len(ops),
                         i < j, ops[i].from[1] = "user"
                  PROVE  ops[j].from[1] = "user"
      OBVIOUS
    <2>1. i # 1 /\ j # 1
      BY <1>6, <1>6a, <1>6b
    <2>2. /\ i - 1 \in 1..Len(copies) /\ ops[i] = copies[i - 1]
          /\ j - 1 \in 1..Len(copies) /\ ops[j] = copies[j - 1]
      BY <1>6b, <2>1
    <2>3. i - 1 \notin 1..Len(A)
      BY <1>8, <2>2, Zenon
    <2>4. j - 1 \notin 1..Len(A)
      BY <1>6, <1>6b, <2>2, <2>3
    <2>. QED
      BY <1>8, <2>2, <2>4
  <1>11. ASSUME NEW n \in Unit, taken'[n] # NoFile
         PROVE  /\ taken'[n] = Definition(n)' /\ disk'[User(n)] # HalfFile
                /\ \/ Exists(User(n))' /\ Pending(Copy(User(n), Snap(n)))'
                   \/ /\ ~Exists(User(n))'
                      /\ ~Pending(Copy(User(n), Snap(n)))'
                      /\ Pending(Copy(System(n), Snap(n)))'
    <2>1. /\ taken'[n] = Definition(n) /\ Definition(n)' = Definition(n)
          /\ Exists(User(n))' = Exists(User(n)) /\ disk'[User(n)] # HalfFile
      BY <1>2, <1>11 DEF Definition, Exists
    <2>2. CASE n \in U
      <3>1. PICK i \in 1..Len(B) : B[i] = Copy(User(n), Snap(n))
        BY <1>5, <2>2
      <3>2. Len(A) + i \in 1..Len(copies) /\ copies[Len(A) + i] = Copy(User(n), Snap(n))
        BY <1>6, <3>1
      <3>3. Pending(Copy(User(n), Snap(n)))'
        BY <1>7a, <1>7b, <3>2
      <3>. QED
        BY <1>3, <2>1, <2>2, <3>3
    <2>3. CASE n \notin U
      <3>1. n \in S
        BY <1>3, <1>11, <2>1, <2>3, UnitAssumption DEF Definition, Exists
      <3>2. Pending(Copy(System(n), Snap(n)))'
        <4>1. PICK i \in 1..Len(A) : A[i] = Copy(System(n), Snap(n))
          BY <1>4, <3>1
        <4>2. i \in 1..Len(copies) /\ copies[i] = Copy(System(n), Snap(n))
          BY <1>6, <4>1
        <4>. QED
          BY <1>7a, <1>7b, <4>2
      <3>3. ASSUME Pending(Copy(User(n), Snap(n)))'
            PROVE  FALSE
        <4>1. PICK i \in 1..Len(copies) : copies[i] = Copy(User(n), Snap(n))
          BY <1>7a, <1>7b, <3>3
        <4>2. i \notin 1..Len(A)
          BY <1>8, <4>1, Paths DEF Copy
        <4>3. PICK m \in U : copies[i] = Copy(User(m), Snap(m))
          BY <1>5, <1>6, <4>2
        <4>4. Snap(m) = Snap(n) /\ m \in Unit
          BY <1>3, <4>1, <4>3 DEF Copy
        <4>. QED
          BY <2>3, <4>4, Paths
      <3>. QED
        BY <1>3, <2>1, <2>3, <3>2, <3>3
    <2>. QED
      BY <2>2, <2>3
  <1>12. SnapshotIsRight'
    BY <1>7, <1>9, <1>10, <1>11 DEF SnapshotIsRight, Saves
  <1>13. taken' \in [Unit -> Version \union {NoFile}]
    BY <1>2 DEF Definition
  <1>. QED
    BY <1>1, <1>2, <1>6b, <1>12, <1>13, Begins

\* snapshot delete and snapshot import
LEMMA RemovalKeeps ==
    ASSUME UnitInv, Idle, SnapshotDelete \/ SnapshotImport
    PROVE  UnitInv'
  <1>1. /\ job.op = "none" /\ UnitTypes /\ FALSE \in BOOLEAN
        /\ "none" \in Unit \union {"none"}
        /\ taken \in [Unit -> Version \union {NoFile}]
    BY DEF Idle, NoJob, UnitInv, UnitTypes
  <1>. DEFINE T == {step \in UnitStep : ~Writes(step)}
  <1>2. ASSUME NEW op \in {"delete", "import"}, NEW ops \in Seq(T),
               Run(op, "none", ops, FALSE), UNCHANGED <<disk, systemd, taken>>
        PROVE  UnitInv'
    <2>1. ops \in Seq(UnitStep) /\ \A i \in 1..Len(ops) : ~Writes(ops[i])
      OBVIOUS
    <2>2. op \in UnitOp /\ op \notin {"snapshot", "rollback", "update", "restore", "convert"}
      BY DEF UnitOp
    <2>. QED
      BY <1>1, <1>2, <2>1, <2>2, Begins
  <1>. DEFINE s == SetToSeq(InSnapshot)
              deletes == [i \in 1..Len(s) |-> Delete(Snap(s[i]))]
              discards == [i \in 1..Len(s) |-> Discard(Snap(s[i]))]
  <1>3. /\ s \in [1..Len(s) -> InSnapshot] /\ Len(s) \in Nat
        /\ InSnapshot \subseteq Unit
    BY EachUnit DEF InSnapshot
  <1>. HIDE DEF s
  <1>4. deletes \in Seq(T) /\ discards \in Seq(T)
    <2>1. \A n \in Unit : Delete(Snap(n)) \in T /\ Discard(Snap(n)) \in T
      BY Steps DEF Writes, Delete, Discard
    <2>2. \A i \in 1..Len(s) : Delete(Snap(s[i])) \in T /\ Discard(Snap(s[i])) \in T
      BY <1>3, <2>1
    <2>. HIDE DEF T
    <2>. QED
      BY <1>3, <2>2
  <1>. DEFINE rmdir(strict) == OnDir("rmdir", strict)
              rename == OnDir("rename", TRUE)
  <1>5. rmdir(TRUE) \in T /\ rmdir(FALSE) \in T /\ rename \in T
    BY DirSteps
  <1>5a. <<rmdir(TRUE)>> \in Seq(T) /\ <<rmdir(FALSE), rename>> \in Seq(T)
    <2>. DEFINE a == rmdir(TRUE)
                b == rmdir(FALSE)
    <2>1. a \in T /\ b \in T /\ rename \in T
      BY <1>5
    <2>. HIDE DEF T, a, b, rename
    <2>2. <<a>> \in Seq(T) /\ <<b, rename>> \in Seq(T)
      BY <2>1
    <2>. QED
      BY <2>2 DEF a, b, rename
  <1>6. CASE SnapshotDelete
    <2>. DEFINE last == <<rmdir(TRUE)>>
    <2>1. /\ Run("delete", "none", deletes \o last, FALSE)
          /\ UNCHANGED <<disk, systemd, taken>>
      BY <1>6 DEF SnapshotDelete, EachOf, s
    <2>. HIDE DEF T, deletes
    <2>2. last \in Seq(T)
      BY <1>5a
    <2>. HIDE DEF last
    <2>3. deletes \o last \in Seq(T)
      BY <1>4, <2>2
    <2>. QED
      BY <1>2, <2>1, <2>3
  <1>7. CASE SnapshotImport
    <2>. DEFINE last == <<rmdir(FALSE), rename>>
    <2>1. /\ Run("import", "none", discards \o last, FALSE)
          /\ UNCHANGED <<disk, systemd, taken>>
      BY <1>7 DEF SnapshotImport, EachOf, s
    <2>. HIDE DEF T, discards
    <2>2. last \in Seq(T)
      BY <1>5a
    <2>. HIDE DEF last
    <2>3. discards \o last \in Seq(T)
      BY <1>4, <2>2
    <2>. QED
      BY <1>2, <2>1, <2>3
  <1>. QED
    BY <1>6, <1>7

\* The files as they are found are no promise of anything.
LEMMA UnitStarts == UnitInit => UnitInv
  <1>. SUFFICES ASSUME UnitInit PROVE UnitInv
    OBVIOUS
  <1>1. job = NoJob /\ job.op = "none" /\ job.todo = <<>>
    BY DEF UnitInit, NoJob
  <1>2. job \in JobType
    BY <1>1 DEF NoJob, JobType, UnitOp, Content
  <1>3. \A p \in Path : p[1] = "system" => p[2] \in Unit
    BY DEF Path
  <1>4. disk \in [Path -> Content]
    BY <1>3, UnitAssumption DEF UnitInit, Content
  <1>5. UnitTypes
    BY <1>2, <1>4 DEF UnitTypes, UnitInit, Content
  <1>6. WritesWhereItMay
    BY <1>1 DEF WritesWhereItMay
  <1>7. UpdateIsSafe /\ SnapshotIsKept
    BY UnitAssumption DEF UpdateIsSafe, SnapshotIsKept, UnitInit
  <1>8. SnapshotIsRight /\ RestoreIsRight /\ ConvertIsRight
    BY <1>1 DEF SnapshotIsRight, RestoreIsRight, ConvertIsRight
  <1>. QED
    BY <1>5, <1>6, <1>7, <1>8 DEF UnitInv

\* Every command begins, goes on, fails and ends with the invariant.
LEMMA UnitStepKeeps == UnitInv /\ [UnitNext]_unitVars => UnitInv'
  <1>. SUFFICES ASSUME UnitInv, [UnitNext]_unitVars PROVE UnitInv'
    OBVIOUS
  <1>1. ASSUME NEW op \in menu, Command(op)
        PROVE  UnitInv'
    <2>1. Idle /\ job = NoJob
      BY <1>1 DEF Command, Idle
    <2>2. ASSUME NEW n \in Unit, Enable(n) \/ Disable(n)
          PROVE  UnitInv'
      BY <2>2, Between DEF Enable, Disable
    <2>3. CASE SnapshotImportFiles
      BY <2>3, Between DEF SnapshotImportFiles
    <2>. QED
      BY <1>1, <2>1, <2>2, <2>3, SimpleKeeps, UpdateKeeps, RestoreKeeps,
         ConvertKeeps, SnapshotKeeps, RemovalKeeps
         DEF Command
  <1>2. CASE UNCHANGED unitVars
    BY <1>2, Between DEF unitVars
  <1>. QED
    BY <1>1, <1>2, FileStepKeeps, Upgraded DEF UnitNext

\* So it holds.
LEMMA UnitInvHolds == UnitSpec => []UnitInv
  BY UnitStarts, UnitStepKeeps, PTL DEF UnitSpec

\* What daemon update replaces is still there, whole, whatever fails and
\* whenever csr is killed (daemon_update): the unit itself until the copy over
\* it begins, from then on the backup.
THEOREM UpdatesAreSafe == UnitSpec => []OldUnitSurvives
  <1>1. UnitInv => OldUnitSurvives
    BY DEF UnitInv, UpdateIsSafe, OldUnitSurvives
  <1>. QED
    BY UnitInvHolds, <1>1, PTL

\* A snapshot that was taken and restored without an error gives every service
\* the definition it had, for any number of units, with any commands and any
\* upgrades of packages in between (snapshot_create, snapshot_restore).  It says
\* nothing of the units of which the snapshot promises nothing: taken is NoFile
\* for those whose user file was broken when it was made, whose system file
\* changed meanwhile, whose copy failed or was deleted since, and for all of
\* them if it was killed.
THEOREM RestoresAreRight == UnitSpec => []RestoredAsTaken
  <1>1. UnitInv => RestoredAsTaken
    <2>. SUFFICES ASSUME UnitInv, job.op = "restore", job.todo = <<>>, ~job.failed,
                         NEW n \in Unit, taken[n] # NoFile
                  PROVE  Definition(n) = taken[n]
      BY DEF RestoredAsTaken
    <2>1. disk[User(n)] = disk[Snap(n)] /\ taken[n] \in Version /\ Captured(n)
      BY DEF UnitInv, RestoreIsRight, Pending, SnapshotIsKept, UnitTypes
    <2>. QED
      BY <2>1, UnitAssumption DEF Captured, Definition
  <1>. QED
    BY UnitInvHolds, <1>1, PTL

\* convert removes its source only when each of its units has a unit file,
\* unless it was forced to (service_convert).
THEOREM SourceIsConverted == UnitSpec => SourceOutlivesFailures
  <1>1. ASSUME UnitInv, [UnitNext]_unitVars
        PROVE  [systemd' # systemd /\ ~job.force =>
                  \A n \in systemd : disk[User(n)] # NoFile]_unitVars
    <2>. SUFFICES ASSUME systemd' # systemd, ~job.force, NEW n \in systemd
                  PROVE  disk[User(n)] # NoFile
      OBVIOUS
    <2>1. Done /\ job.op = "convert" /\ MayRemoveSource
      BY <1>1 DEF UnitNext, FileStep, Command, unitVars, CopyOpen, CopyFill, CopyFails,
         WriteWhole, DeleteUnit, DeleteLink, Skipped, MakeDir, RemoveDir, MoveIn,
         Fails, Done, Killed, Upgrade, Enable, Disable, Rm, Rollback, Create, Install,
         Update, SnapshotCreate, SnapshotDelete, SnapshotImport, SnapshotImportFiles,
         SnapshotRestore, Convert
    <2>2. ~job.failed /\ job.todo = <<>>
      BY <2>1 DEF MayRemoveSource, Done
    <2>3. Exists(User(n)) \/ \E v \in Version : Pending(Write(v, User(n)))
      BY <1>1, <2>1, <2>2 DEF UnitInv, ConvertIsRight
    <2>. QED
      BY <2>2, <2>3 DEF Pending, Exists
  <1>. QED
    BY UnitInvHolds, <1>1, PTL DEF UnitSpec, SourceOutlivesFailures
=============================================================================
