------------------------------- MODULE Leb128 --------------------------------
(***************************************************************************)
(* The variable-length integers of the codec: least significant group      *)
(* first, a continuation flag on every byte but the last, and only the     *)
(* shortest form accepted.  The code's groups have seven bits; here they   *)
(* have GroupBits, so that long forms are short enough to enumerate.       *)
(***************************************************************************)
EXTENDS Integers, Sequences, FiniteSets, SequencesExt

CONSTANTS
    GroupBits,    \* payload bits of a byte: 7
    CountBits     \* width of a count or an index: 32

ASSUME GroupsAssumption == GroupBits \in Nat \ {0} /\ CountBits \in Nat \ {0}

Radix == 2^GroupBits
Bytes == 0..2 * Radix - 1
Payload(group) == group % Radix
SignBit(group) == Payload(group) >= Radix \div 2

-----------------------------------------------------------------------------
\* Readers.  `at` bytes were consumed before; a reading says how many after.

Fault(code) == [is |-> "fault", code |-> code]
Reading(value, at) == [is |-> "read", value |-> value, at |-> at]

\* The bytes up to the first without the continuation flag, or all that are left.
Lasts(bytes, at) == {k \in at + 1..Len(bytes) : bytes[k] < Radix}
Complete(bytes, at) == Lasts(bytes, at) # {}
Groups(bytes, at) ==
    SubSeq(bytes, at + 1, IF Complete(bytes, at) THEN Min(Lasts(bytes, at)) ELSE Len(bytes))

Combined(groups) == FoldRight(LAMBDA group, rest : Payload(group) + Radix * rest, groups, 0)

\* A zero last group is never needed, nor a group of sign bits after a sign.
Overlong(groups) == Len(groups) > 1 /\ Last(groups) = 0
OverlongSigned(groups) ==
    /\ Len(groups) > 1
    /\ \/ Last(groups) = 0 /\ ~SignBit(groups[Len(groups) - 1])
       \/ Last(groups) = Radix - 1 /\ SignBit(groups[Len(groups) - 1])

\* lebU32: a count that needs more bits is refused before it is read to its end.
CountGroups == (CountBits + GroupBits - 1) \div GroupBits
SpareFrom == 2^(CountBits - GroupBits * (CountGroups - 1))
ReadCount(bytes, at) ==
    LET groups == Groups(bytes, at)
    IN  IF \/ Len(groups) > CountGroups
           \/ Len(groups) = CountGroups /\ Payload(groups[CountGroups]) >= SpareFrom
        THEN Fault("invalid_length")
        ELSE IF ~Complete(bytes, at) THEN Fault("truncated")
        ELSE IF Overlong(groups) THEN Fault("overlong_leb128")
        ELSE Reading(Combined(groups), at + Len(groups))

\* lebBig and slebBig: any magnitude within the byte cap.
ReadNat(bytes, at, cap) ==
    LET groups == Groups(bytes, at)
    IN  IF Len(groups) > cap THEN Fault("numeric_bytes")
        ELSE IF ~Complete(bytes, at) THEN Fault("truncated")
        ELSE IF Overlong(groups) THEN Fault("overlong_leb128")
        ELSE Reading(Combined(groups), at + Len(groups))
ReadInt(bytes, at, cap) ==
    LET groups == Groups(bytes, at)
        image == Combined(groups)
    IN  IF Len(groups) > cap THEN Fault("numeric_bytes")
        ELSE IF ~Complete(bytes, at) THEN Fault("truncated")
        ELSE IF OverlongSigned(groups) THEN Fault("overlong_leb128")
        ELSE Reading(IF SignBit(Last(groups)) THEN image - Radix^Len(groups) ELSE image,
                     at + Len(groups))

-----------------------------------------------------------------------------
\* Writers: the plain loops, and the one for unbounded numbers, which counts
\* the groups first and emits them by halving.

WriteLeb[n \in Nat] ==
    IF n < Radix THEN <<n>> ELSE <<Radix + (n % Radix)>> \o WriteLeb[n \div Radix]
WriteSleb[n \in Int] ==
    LET group == n % Radix
        rest == n \div Radix
    IN  IF rest = IF SignBit(group) THEN -1 ELSE 0
        THEN <<group>> ELSE <<Radix + group>> \o WriteSleb[rest]

BitLength[n \in Nat] == IF n = 0 THEN 0 ELSE 1 + BitLength[n \div 2]
UpTo(bits) == (bits + GroupBits - 1) \div GroupBits
LebGroupCount(n) == IF n = 0 THEN 1 ELSE UpTo(BitLength[n])
SlebGroupCount(n) ==
    LET magnitude == IF n >= 0 THEN n ELSE -n - 1
        groups == UpTo(BitLength[magnitude] + 1)
    IN  IF groups = 0 THEN 1 ELSE groups

Emitted[image \in Nat, groups \in Nat] ==
    IF groups = 1 THEN <<image % Radix>>
    ELSE LET half == groups \div 2
             low == Radix^half
         IN  Emitted[image % low, half] \o Emitted[image \div low, groups - half]
Flagged(groups) ==
    [i \in DOMAIN groups |-> IF i < Len(groups) THEN Radix + groups[i] ELSE groups[i]]

WriteUnbounded(n, signed, cap) ==
    LET groups == IF signed THEN SlebGroupCount(n) ELSE LebGroupCount(n)
    IN  IF groups > cap THEN Fault("numeric_bytes")
        ELSE Reading(Flagged(Emitted[IF n >= 0 THEN n ELSE n + Radix^groups, groups]), groups)
=============================================================================
