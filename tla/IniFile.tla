------------------------------ MODULE IniFile ------------------------------
(***************************************************************************)
(* upsert_ini_key, behind `csr config set`: one pass over the lines of     *)
(* cesar.ini that replaces the key in its section, or adds it there.  A    *)
(* comment, or a line without a "=", is a Text line; section names are     *)
(* compared without case in the code and are one name here.                *)
(***************************************************************************)
EXTENDS Integers, Sequences, FiniteSets

CONSTANTS
    Section, Key, Val,
    TheSection, TheKey, TheValue,   \* what the command sets
    NoName,                         \* fills unused fields
    Contents                        \* the files the command may find

VARIABLES
    ini,        \* the file before
    content,    \* what was read of it
    next,       \* the line the loop looks at
    out,        \* the lines of the new file
    inSection,  \* the loop is in the section
    replaced,   \* the key was written
    finished

iniVars == <<ini, content, next, out, inSection, replaced, finished>>

Header(s) == [kind |-> "header", name |-> s, value |-> NoName]
Pair(k, v) == [kind |-> "pair", name |-> k, value |-> v]
Text == [kind |-> "text", name |-> NoName, value |-> NoName]
Blank == [kind |-> "blank", name |-> NoName, value |-> NoName]

Line == {Header(s) : s \in Section} \union {Text, Blank}
            \union {Pair(k, v) : k \in Key, v \in Val}

TheHeader == Header(TheSection)
ThePair == Pair(TheKey, TheValue)

ASSUME IniAssumption ==
    /\ TheSection \in Section /\ TheKey \in Key /\ TheValue \in Val
    /\ Contents \subseteq Seq(Line)

\* A file that is not there, or cannot be read, counts as empty.
IniInit ==
    /\ ini \in Contents
    /\ content \in {ini, <<>>}
    /\ next = 1 /\ out = <<>>
    /\ inSection = FALSE /\ replaced = FALSE /\ finished = FALSE

Current == content[next]
AtLine == next <= Len(content)

Advance == next' = next + 1 /\ UNCHANGED <<ini, content, finished>>

EnterSection ==
    /\ AtLine /\ Current = TheHeader
    /\ out' = Append(out, Current)
    /\ inSection' = TRUE
    /\ UNCHANGED replaced
    /\ Advance

\* Mutant: inSection is not reset.
LeaveNoSection ==
    /\ AtLine /\ Current.kind = "header" /\ Current # TheHeader
    /\ out' = Append(out, Current)
    /\ UNCHANGED <<inSection, replaced>>
    /\ Advance

\* A section ends where the next one begins: the key goes before that.
LeaveSection ==
    /\ AtLine /\ Current.kind = "header" /\ Current # TheHeader
    /\ IF inSection /\ ~replaced
       THEN /\ out' = Append(Append(out, ThePair), Current)
            /\ replaced' = TRUE
       ELSE /\ out' = Append(out, Current)
            /\ UNCHANGED replaced
    /\ inSection' = FALSE
    /\ Advance

\* Mutant: the first occurrence of the key, only.
IsTheFirst ==
    inSection /\ ~replaced /\ Current.kind = "pair" /\ Current.name = TheKey

IsTheKey == inSection /\ Current.kind = "pair" /\ Current.name = TheKey

CopyOrReplace ==
    /\ AtLine /\ Current.kind # "header"
    /\ IF IsTheKey
       THEN out' = Append(out, ThePair) /\ replaced' = TRUE
       ELSE out' = Append(out, Current) /\ UNCHANGED replaced
    /\ UNCHANGED inSection
    /\ Advance

HasHeader(lines) == \E j \in 1..Len(lines) : lines[j] = TheHeader

\* A new section is set off by a blank line, unless nothing is before it.
AllBlank(lines) == \A j \in 1..Len(lines) : lines[j] = Blank
Separated == IF AllBlank(content) THEN out ELSE Append(out, Blank)

AtEnd ==
    /\ ~AtLine /\ ~finished
    /\ out' = CASE replaced -> out
                [] ~replaced /\ (inSection \/ HasHeader(out)) ->
                      Append(out, ThePair)
                [] OTHER -> Append(Append(Separated, TheHeader), ThePair)
    /\ finished' = TRUE
    /\ UNCHANGED <<ini, content, next, inSection, replaced>>

IniNext == EnterSection \/ LeaveSection \/ CopyOrReplace \/ AtEnd
IniSpec == IniInit /\ [][IniNext]_iniVars

-----------------------------------------------------------------------------
\* The j-th line is in the section: the last header before it is the header.
InTheSection(lines, j) ==
    \E h \in 1..j : /\ lines[h] = TheHeader
                    /\ \A m \in h + 1..j : lines[m].kind # "header"

IsTarget(lines, j) ==
    /\ lines[j].kind = "pair" /\ lines[j].name = TheKey
    /\ InTheSection(lines, j)

\* The new file has the key in its section, and wherever it has it there it
\* has the new value, so that it does not matter which occurrence a reader
\* takes (upsert_ini_key).
KeyIsSet ==
    finished =>
      /\ \E j \in 1..Len(out) : IsTarget(out, j)
      /\ \A j \in 1..Len(out) : IsTarget(out, j) => out[j].value = TheValue

\* The section of the j-th line, the name in the last header before it: a set
\* of one name, or the empty set before the first header.
IsLastHeader(lines, h, j) ==
    /\ lines[h].kind = "header"
    /\ \A m \in h + 1..j : lines[m].kind # "header"
SectionAt(lines, j) == {lines[h].name : h \in {i \in 1..j : IsLastHeader(lines, i, j)}}

\* The first n lines that are not an occurrence of the key, each with its place
\* among them and its section.
OtherCount(lines, n) == Cardinality({j \in 1..n : ~IsTarget(lines, j)})
Others(lines, n) ==
    {<<OtherCount(lines, j), SectionAt(lines, j), lines[j]>> :
        j \in {m \in 1..n : ~IsTarget(lines, m)}}

\* "Keys in other sections are left untouched" (the comment of
\* upsert_ini_key), and so is everything else: if the file could be read, the
\* new one has the same lines in the same sections and order.  What may be new
\* besides the key is the header, and a blank line before it in a file that is
\* not blank.  A file that could not be read is replaced whole (config set).
OthersUntouched ==
    finished /\ content = ini =>
      LET count == OtherCount(ini, Len(ini))
          old == Others(ini, Len(ini))
          new == Others(out, Len(out))
          header(j) == <<j, {TheSection}, TheHeader>>
          blank(j) == <<j, SectionAt(ini, Len(ini)), Blank>>
      IN  \/ new = old
          \/ AllBlank(ini) /\ new = old \union {header(count + 1)}
          \/ ~AllBlank(ini) /\ new = old \union {blank(count + 1), header(count + 2)}
=============================================================================
