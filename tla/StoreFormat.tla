---------------------------- MODULE StoreFormat ----------------------------
(***************************************************************************)
(* The bytes of a device record (store/LocalStore.cpp, Writer, Reader,     *)
(* serialize and deserialize): magic, format version, length-prefixed      *)
(* strings, the counter, the deadline as a signed number, two single       *)
(* bytes.  The reader takes one field at a time from bytes that may have   *)
(* been cut or changed; each field it takes is one step.                   *)
(***************************************************************************)
EXTENDS Integers, Sequences, SequencesExt

CONSTANTS
    ByteSpan,       \* values of a byte: 256 in the code
    WordBytes,      \* bytes of a length and of the counter: 4 in the code
    DayBytes,       \* bytes of the deadline: 8 in the code
    MAGIC, FORMAT_VERSION,
    StringField,    \* the names of the strings, in order: nine in the code
    Device          \* records of the strings and the four fields of the state

Byte == 0 .. ByteSpan - 1

\* How many values n bytes have.
Power[n \in Nat] == IF n = 0 THEN 1 ELSE ByteSpan * Power[n - 1]

Word == 0 .. Power[WordBytes] - 1
Day == -(Power[DayBytes] \div 2) .. (Power[DayBytes] \div 2) - 1

\* DeviceStatus as its enumerators number it; Locked is the last.
Status == 0 .. 3

\* What a record holds, in order, and the part of it that is the device's.
Layout == <<"magic", "version">> \o StringField
          \o <<"lastCounter", "lockDeadlineDay", "status", "lastTokenWasGrace">>

Member == {Layout[i] : i \in 3 .. Len(Layout)}

\* Half the values of a deadline are negative, so their number is even.
ASSUME FormatAssumption ==
    /\ ByteSpan \in Nat \ {0} /\ ByteSpan % 2 = 0
    /\ WordBytes \in Nat /\ DayBytes \in Nat \ {0}
    /\ MAGIC \in Seq(Byte) /\ FORMAT_VERSION \in Byte
    /\ StringField \in Seq({StringField[i] : i \in DOMAIN StringField})
    /\ \A i, j \in DOMAIN Layout : Layout[i] = Layout[j] => i = j
    /\ Status \subseteq Byte
    /\ \A device \in Device :
          /\ device = [f \in Member |-> device[f]]
          /\ \A i \in DOMAIN StringField :
                /\ device[StringField[i]] \in Seq(Byte)
                /\ Len(device[StringField[i]]) \in Word
          /\ device.lastCounter \in Word
          /\ device.lockDeadlineDay \in Day
          /\ device.status \in Status
          /\ device.lastTokenWasGrace \in {0, 1}

-----------------------------------------------------------------------------
(* Writer.                                                                 *)

\* The n bytes of a number, the highest first; a negative one wraps around.
PutNumber(value, n) == [i \in 1 .. n |-> (value \div Power[n - i]) % ByteSpan]

PutString(value) == PutNumber(Len(value), WordBytes) \o value

Serialize(device) ==
    MAGIC \o <<FORMAT_VERSION>>
    \o FlattenSeq([i \in DOMAIN StringField |-> PutString(device[StringField[i]])])
    \o PutNumber(device.lastCounter, WordBytes)
    \o PutNumber(device.lockDeadlineDay, DayBytes)
    \o <<device.status, device.lastTokenWasGrace>>

-----------------------------------------------------------------------------
(* Reader.                                                                 *)

VARIABLES
    written,    \* the device that was serialized
    damage,     \* what became of the bytes: "none", "cut" or "changed"
    buffer,     \* the bytes deserialize is given
    offset,     \* the reader's offset_
    todo,       \* the fields still to take
    read,       \* the fields of the device taken so far
    answer      \* what deserialize returned

vars == <<written, damage, buffer, offset, todo, read, answer>>

Init ==
    /\ written \in Device
    /\ \/ damage = "none" /\ buffer = Serialize(written)
       \/ /\ damage = "cut"
          /\ \E n \in 0 .. Len(Serialize(written)) - 1 :
                buffer = SubSeq(Serialize(written), 1, n)
       \/ /\ damage = "changed"
          /\ \E i \in DOMAIN Serialize(written), b \in Byte :
                /\ buffer = [Serialize(written) EXCEPT ![i] = b]
                /\ b # Serialize(written)[i]
    /\ offset = 0 /\ todo = Layout /\ read = <<>> /\ answer = "none"

\* Not the code: the last byte is not counted.
AvailableOffByOne(n) == offset + n <= Len(buffer) + 1

Available(n) == offset + n <= Len(buffer)

\* The bytes from offset_ on; behind the buffer lies what happens to lie there.
Bytes(n) == [i \in 1 .. n |-> IF offset + i <= Len(buffer) THEN buffer[offset + i] ELSE 0]

Number(bytes) ==
    LET value[n \in 0 .. Len(bytes)] ==
            IF n = 0 THEN 0 ELSE value[n - 1] * ByteSpan + bytes[n]
    IN  value[Len(bytes)]

\* Not the code: the highest bit is a digit like the others.
SignedAsUnsigned(bytes) == Number(bytes)

Signed(bytes) ==
    IF Number(bytes) \in Day THEN Number(bytes) ELSE Number(bytes) - Power[DayBytes]

Awaits(field) == answer = "none" /\ todo # <<>> /\ Head(todo) = field

Reject ==
    /\ answer' = "rejected"
    /\ UNCHANGED <<written, damage, buffer, offset, todo, read>>

\* A field of n bytes, kept as value under its name.
Take(field, n, value) ==
    /\ offset' = offset + n
    /\ todo' = Tail(todo)
    /\ read' = [f \in DOMAIN read \union {field} |-> IF f = field THEN value ELSE read[f]]
    /\ UNCHANGED <<written, damage, buffer, answer>>

Skip(n) ==
    /\ offset' = offset + n
    /\ todo' = Tail(todo)
    /\ UNCHANGED <<written, damage, buffer, read, answer>>

TakeMagic ==
    /\ Awaits("magic")
    /\ IF Available(Len(MAGIC)) /\ Bytes(Len(MAGIC)) = MAGIC THEN Skip(Len(MAGIC)) ELSE Reject

TakeVersion ==
    /\ Awaits("version")
    /\ IF Available(1) /\ Bytes(1) = <<FORMAT_VERSION>> THEN Skip(1) ELSE Reject

\* Not the code: the length is believed.
TakeStringUnchecked(field) ==
    /\ Awaits(field)
    /\ LET length == Number(Bytes(WordBytes))
       IN  IF Available(WordBytes)
           THEN Take(field, WordBytes + length,
                     SubSeq(Bytes(WordBytes + length), WordBytes + 1, WordBytes + length))
           ELSE Reject

TakeString(field) ==
    /\ Awaits(field)
    /\ LET length == Number(Bytes(WordBytes))
       IN  IF Available(WordBytes) /\ Available(WordBytes + length)
           THEN Take(field, WordBytes + length,
                     SubSeq(Bytes(WordBytes + length), WordBytes + 1, WordBytes + length))
           ELSE Reject

TakeCounter ==
    /\ Awaits("lastCounter")
    /\ IF Available(WordBytes) THEN Take("lastCounter", WordBytes, Number(Bytes(WordBytes)))
       ELSE Reject

TakeDeadline ==
    /\ Awaits("lockDeadlineDay")
    /\ IF Available(DayBytes) THEN Take("lockDeadlineDay", DayBytes, Signed(Bytes(DayBytes)))
       ELSE Reject

TakeByte(field) ==
    /\ Awaits(field)
    /\ IF Available(1) THEN Take(field, 1, Bytes(1)[1]) ELSE Reject

\* The status must be one; any other byte than zero means grace.
Conclude ==
    /\ answer = "none" /\ todo = <<>>
    /\ IF read.status \in Status
       THEN /\ read' = [read EXCEPT !.lastTokenWasGrace = IF @ = 0 THEN 0 ELSE 1]
            /\ answer' = "accepted"
            /\ UNCHANGED <<written, damage, buffer, offset, todo>>
       ELSE Reject

Next ==
    \/ TakeMagic \/ TakeVersion
    \/ \E i \in DOMAIN StringField : TakeString(StringField[i])
    \/ TakeCounter \/ TakeDeadline
    \/ TakeByte("status") \/ TakeByte("lastTokenWasGrace")
    \/ Conclude

Spec == Init /\ [][Next]_vars

-----------------------------------------------------------------------------
\* The reader stays inside the bytes it was given, whatever they say about
\* their own length.
ReadsInBounds == offset <= Len(buffer)

\* What serialize wrote is read back, field for field.
WholeRecordIsRead ==
    damage = "none" => /\ answer # "rejected"
                       /\ answer = "accepted" => read = written

\* A record that was cut short anywhere is not taken for a record; and whatever
\* bytes are accepted, the device read from them is one that could have been
\* written: a status that exists, a counter and lengths that fit.
AcceptedIsGenuine ==
    answer = "accepted" =>
        /\ damage # "cut"
        /\ DOMAIN read = DOMAIN written
        /\ \A i \in DOMAIN StringField : read[StringField[i]] \in Seq(Byte)
        /\ read.lastCounter \in Word /\ read.lockDeadlineDay \in Day
        /\ read.status \in Status /\ read.lastTokenWasGrace \in {0, 1}

=============================================================================
