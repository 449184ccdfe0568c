------------------------------- MODULE Smbios -------------------------------
(***************************************************************************)
(* What the client says it runs on (sys/HardwareInfo.cpp, parseSmbios and  *)
(* detect).  The firmware's table is a sequence of structures: a type, the *)
(* length of a formatted area, the area, and strings that end with a zero  *)
(* byte each and with one more at the end.  The walk takes one structure   *)
(* per step, from a table that may be cut or damaged.                      *)
(***************************************************************************)
EXTENDS Naturals, Sequences, SequencesExt

CONSTANTS
    Firmware,       \* sequences of structures: [type, area, strings]
    Mirror,         \* what the registry says of manufacturer and model
    Placeholder,    \* what makers ship in a field they never filled
    Blank,          \* the bytes trim removes
    Misprint        \* what a damaged byte may become

\* A structure is made of numbers, and of strings that are not empty and in which
\* no zero byte is; what is empty is missing, and needs no placeholder.
ASSUME FirmwareAssumption ==
    /\ Firmware \subseteq
          Seq([type: Nat, area: Seq(Nat), strings: Seq(Seq(Nat \ {0}) \ {<<>>})])
    /\ Misprint \subseteq Nat
    /\ <<>> \notin Placeholder

Attribute == {"manufacturer", "model", "serial"}

\* TYPE_SYSTEM_INFORMATION, the shortest area, and where the area holds the
\* numbers of the strings.
SYSTEM_INFORMATION == 1
SHORTEST == 4
Offset == [manufacturer |-> 4, model |-> 5, serial |-> 7]

Unfilled == [a \in Attribute |-> <<>>]

VARIABLES
    firmware,   \* the structures the table was made from
    harm,       \* what became of it: "none", "cut", "changed" or "unreadable"
    table,      \* its bytes, behind the header
    declared,   \* the length the header gives
    mirror,     \* the registry's copy
    cursor,     \* the walk's cursor, 0 for the first byte
    touched,    \* the positions of the bytes the walk has read
    stage,      \* "walk", "fill" or "done"
    info        \* the HardwareInfo

smbios == <<firmware, harm, table, declared, mirror, cursor, touched, stage, info>>

-----------------------------------------------------------------------------
(* The firmware's side.                                                    *)

Printed(s) ==
    <<s.type, SHORTEST + Len(s.area), 0, 0>> \o s.area
    \o FlattenSeq([i \in DOMAIN s.strings |-> s.strings[i] \o <<0>>])
    \o (IF s.strings = <<>> THEN <<0, 0>> ELSE <<0>>)

Table(structures) == FlattenSeq([i \in DOMAIN structures |-> Printed(structures[i])])

SmbiosInit ==
    /\ firmware \in Firmware /\ mirror \in Mirror
    /\ LET whole == Table(firmware)
       IN  \/ harm = "none" /\ table = whole /\ declared = Len(whole)
           \/ /\ harm = "cut"
              /\ \E n \in 0 .. Len(whole) - 1 :
                    \/ table = whole /\ declared = n
                    \/ table = SubSeq(whole, 1, n) /\ declared = Len(whole)
           \/ /\ harm = "changed" /\ declared = Len(whole)
              /\ \E i \in DOMAIN whole, b \in Misprint : table = [whole EXCEPT ![i] = b]
           \/ harm = "unreadable" /\ table = <<>> /\ declared = 0
    /\ cursor = 0 /\ touched = {} /\ info = Unfilled
    /\ stage = IF table = <<>> THEN "fill" ELSE "walk"

-----------------------------------------------------------------------------
(* The walk.                                                               *)

End == Min({declared, Len(table)})

\* Behind the table lies what happens to lie there.
Cell(i) == IF i < Len(table) THEN table[i + 1] ELSE 0

Trim(s) ==
    LET kept == {i \in DOMAIN s : s[i] \notin Blank}
    IN  IF kept = {} THEN <<>> ELSE SubSeq(s, Min(kept), Max(kept))

\* Not the code: the empty string does not end the list.
ListEndsWithTable(c) == c >= End

\* The list of strings ends with an empty one, or with the table.
ListEnds(c) == c >= End \/ Cell(c) = 0

\* Not the code: strlen, which looks for a zero byte wherever the next one is.
LimitNone == Len(table) + 1

\* strnlen is given the bytes that remain: it looks at none from here on.
Limit == End

\* Where the string that begins at c ends.
Stop(c) ==
    CHOOSE k \in c .. Limit : /\ k = Limit \/ Cell(k) = 0
                              /\ \A j \in c .. k - 1 : Cell(j) # 0

\* What the loop's condition and strnlen read of the string at c: the zero byte
\* behind it too, if there is one.
StringReads(c) == IF c >= End THEN {} ELSE {k \in c .. Stop(c) : k < Limit}

\* The cursor behind the string at c.
Behind(c) == IF ListEnds(c) THEN c ELSE Stop(c) + 1

\* smbiosString's cursor, behind each of the strings in turn.
Cursors(strings, index) ==
    LET behind[n \in 0 .. index] == IF n = 0 THEN strings ELSE Behind(behind[n - 1])
    IN  behind

\* smbiosString: the string with that number, of those that start at strings.
SmbiosString(strings, index) ==
    LET first == Cursors(strings, index)[index - 1]
    IN  IF index = 0 \/ ListEnds(first) THEN <<>>
        ELSE Trim([n \in 1 .. Stop(first) - first |-> Cell(first + n - 1)])

\* ... and all that it reads on its way there.
SmbiosStringReads(strings, index) ==
    UNION {StringReads(Cursors(strings, index)[n]) : n \in 0 .. index - 1}

\* The scan looks at a byte and the one behind it, so there must be two.
Scannable(j) == j + 1 < End

\* Where the search for two zero bytes stops: at them, or short of the end.
Scan(strings) ==
    CHOOSE j \in strings .. Max({strings, End}) :
        /\ ~Scannable(j) \/ (Cell(j) = 0 /\ Cell(j + 1) = 0)
        /\ \A k \in strings .. j - 1 : Scannable(k) /\ ~(Cell(k) = 0 /\ Cell(k + 1) = 0)

\* ... and what it has read by then: the second byte only behind a zero byte.
ScanReads(strings) ==
    LET tested == {j \in strings .. Scan(strings) : Scannable(j)}
    IN  tested \union {j + 1 : j \in {k \in tested : Cell(k) = 0}}

\* A structure begins at the cursor, and its area lies inside the table.
HasStructure ==
    /\ cursor + SHORTEST <= End
    /\ Cell(cursor + 1) >= SHORTEST
    /\ cursor + Cell(cursor + 1) <= End

IsSystemInformation ==
    Cell(cursor) = SYSTEM_INFORMATION /\ Cell(cursor + 1) > Offset.serial

\* What is read of the structure at the cursor before it is known to be one.
HeadReads == IF cursor + SHORTEST <= End THEN {cursor, cursor + 1} ELSE {}

EndWalk ==
    /\ stage = "walk" /\ ~HasStructure
    /\ stage' = "fill"
    /\ touched' = touched \union HeadReads
    /\ UNCHANGED <<firmware, harm, table, declared, mirror, cursor, info>>

SkipStructure ==
    /\ stage = "walk" /\ HasStructure /\ ~IsSystemInformation
    /\ LET strings == cursor + Cell(cursor + 1)
       IN  /\ cursor' = Scan(strings) + 2
           /\ touched' = touched \union HeadReads \union ScanReads(strings)
    /\ UNCHANGED <<firmware, harm, table, declared, mirror, stage, info>>

TakeStructure ==
    /\ stage = "walk" /\ HasStructure /\ IsSystemInformation
    /\ LET strings == cursor + Cell(cursor + 1)
           Number(a) == Cell(cursor + Offset[a])
       IN  /\ info' = [a \in Attribute |-> SmbiosString(strings, Number(a))]
           /\ touched' = touched \union HeadReads \union ScanReads(strings)
                      \union {cursor + Offset[a] : a \in Attribute}
                      \union UNION {SmbiosStringReads(strings, Number(a)) : a \in Attribute}
    /\ stage' = "fill"
    /\ UNCHANGED <<firmware, harm, table, declared, mirror, cursor>>

IsPlaceholder(value) == value = <<>> \/ value \in Placeholder

\* The rest of detect: the registry's copy for what is missing, and nothing
\* rather than a placeholder.
Fill ==
    /\ stage = "fill"
    /\ LET filled == [a \in Attribute |->
               IF IsPlaceholder(info[a]) /\ a # "serial" THEN Trim(mirror[a]) ELSE info[a]]
       IN  info' = [a \in Attribute |-> IF IsPlaceholder(filled[a]) THEN <<>> ELSE filled[a]]
    /\ stage' = "done"
    /\ UNCHANGED <<firmware, harm, table, declared, mirror, cursor, touched>>

SmbiosNext == EndWalk \/ SkipStructure \/ TakeStructure \/ Fill

-----------------------------------------------------------------------------
IsFull(s) == s.type = SYSTEM_INFORMATION /\ SHORTEST + Len(s.area) > Offset.serial

\* The string the firmware meant by an attribute, if it has a full system
\* information structure with that string.
Meant(a) ==
    LET full == {k \in DOMAIN firmware : IsFull(firmware[k])}
        system == firmware[Min(full)]
        number == system.area[Offset[a] - SHORTEST + 1]
    IN  IF full # {} /\ number \in DOMAIN system.strings
        THEN system.strings[number] ELSE <<>>

\* Whatever lengths and numbers the table contains, and wherever it was cut, no
\* byte behind its declared end or its real one is read: not of a structure's
\* head, not by the scan for two zero bytes, and not by the search for a string
\* that no zero byte ends (parseSmbios, smbiosString).
WalkInBounds == \A i \in touched : i < Len(table) /\ i < declared

\* The device introduces itself to the portal as itself: each attribute is the
\* one the firmware meant, or the registry's copy, or nothing; a table that was
\* cut gives at most the beginning of the string, never another one's, and
\* what no maker filled in is not reported.
IntroducesItself ==
    stage = "done" /\ harm # "changed" =>
        \A a \in Attribute :
            LET known == IF harm = "unreadable" THEN <<>> ELSE Trim(Meant(a))
                copied == a # "serial" /\ info[a] = Trim(mirror[a])
            IN  /\ info[a] \notin Placeholder
                /\ CASE harm = "cut" ->
                          copied \/ \E n \in 0 .. Len(Meant(a)) :
                                        info[a] = Trim(SubSeq(Meant(a), 1, n))
                     [] harm # "cut" /\ ~IsPlaceholder(known) -> info[a] = known
                     [] OTHER -> copied \/ info[a] = <<>>

=============================================================================
