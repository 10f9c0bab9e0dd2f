------------------------------- MODULE Formats -------------------------------
(***************************************************************************)
(* The format library: what a text in human units says as a Candid value,  *)
(* exactly, and how a value is shown.                                      *)
(*                                                                         *)
(* A text is what its syntax splits it into: `form` says which grammar it  *)
(* has, `parts` what that grammar reads, `units` its UTF-8 bytes where     *)
(* only those matter.  Days have their real calendar; an hour, a minute, a *)
(* decimal digit and a fraction of a second have the scale of the          *)
(* instance, so that a nanosecond of the year 9999 is a small number.      *)
(***************************************************************************)
EXTENDS CandidTypes

CONSTANTS
    Ten,            \* the base of decimal digits: 10
    FractionDigits, \* digits of a second: 9
    Hours,          \* of a day: 24
    Sixty,          \* minutes of an hour, seconds of a minute
    SubaccountSize, \* bytes of a subaccount: 32
    NumberBytes     \* of them, those a numbered subaccount uses: 8

ASSUME FormatsAssumption ==
    /\ Ten \in Nat \ {0, 1} /\ FractionDigits \in Nat /\ FractionDigits % 3 = 0
    /\ Hours \in Nat \ {0} /\ Sixty \in Nat \ {0}
    /\ SubaccountSize \in Nat /\ NumberBytes \in 0..SubaccountSize

NotGiven == "not given"
Parsed(value) == [is |-> "parsed", value |-> value]
Text(form, parts, units) == [is |-> "string", form |-> form, parts |-> parts, units |-> units]

\* The UTF-8 bytes the library tells apart: "0x", one unsafe to display, any other.
HexPrefix == 1
UnsafeUnit == 2
PlainUnit == 3
Word(word) == Text("word", [word |-> word, styled |-> FALSE], <<PlainUnit>>)
Styled(word) == Text("word", [word |-> word, styled |-> TRUE], <<PlainUnit>>)
Hex(bytes, prefixed) ==
    Text("hex", [bytes |-> bytes, prefixed |-> prefixed],
         IF prefixed THEN <<HexPrefix>> ELSE <<PlainUnit>>)

Integral == DOMAIN Fixed \cup {"nat", "int"}
TimeTypes == {"nat", "int", "nat32", "nat64", "int64"}
IsSigned(candid) == candid \in Signed \cup {"int"}
InBounds(candid, number) ==
    \/ candid = "int"
    \/ candid = "nat" /\ number >= 0
    \/ candid \in DOMAIN Fixed /\ number \in Numbers(candid)
Ranged(candid, number) ==
    IF InBounds(candid, number) THEN Parsed(number) ELSE Fault("E_RANGE")

-----------------------------------------------------------------------------
\* Decimal digits.

Decimal(digits) == FoldLeft(LAMBDA n, digit : n * Ten + digit, 0, digits)
Digits[n \in Nat] == IF n < Ten THEN <<n>> ELSE Append(Digits[n \div Ten], n % Ten)
Zeros(n) == [i \in 1..n |-> 0]
PadStart(digits, width) ==
    IF Len(digits) >= width THEN digits ELSE Zeros(width - Len(digits)) \o digits
PadEnd(digits, width) ==
    IF Len(digits) >= width THEN SubSeq(digits, 1, width)
    ELSE digits \o Zeros(width - Len(digits))
Stripped(digits) ==
    SubSeq(digits, 1, Max({0} \cup {i \in DOMAIN digits : digits[i] # 0}))
StrippedStart(digits) ==
    LET from == {i \in DOMAIN digits : digits[i] # 0}
    IN  IF from = {} THEN << >> ELSE SubSeq(digits, Min(from), Len(digits))

-----------------------------------------------------------------------------
\* `amount`: base units, never rounded.  A symbol matches whatever its case.

Amount(negative, whole, frac, symbol) ==
    Text("amount", [negative |-> negative, whole |-> whole, frac |-> frac, symbol |-> symbol],
         <<PlainUnit>>)
NoSymbol == [name |-> NotGiven, upper |-> FALSE]
NoThreshold == -1

ParseAmount_Cut(text, args, candid) ==
    LET said == text.parts
        magnitude == Decimal(said.whole) * Ten^args.decimals
                       + Decimal(PadEnd(said.frac, args.decimals))
    IN  IF text.form # "amount" THEN Fault("E_SYNTAX")
        ELSE IF said.negative /\ ~IsSigned(candid) THEN Fault("E_NEGATIVE")
        ELSE IF said.symbol # NoSymbol /\ said.symbol.name # args.symbol.name
             THEN Fault("E_SYMBOL_MISMATCH")
        ELSE Ranged(candid, IF said.negative THEN -magnitude ELSE magnitude)
ParseAmount(text, args, candid) ==
    LET said == text.parts
        magnitude == Decimal(said.whole) * Ten^args.decimals
                       + Decimal(PadEnd(said.frac, args.decimals))
    IN  IF text.form # "amount" THEN Fault("E_SYNTAX")
        ELSE IF said.negative /\ ~IsSigned(candid) THEN Fault("E_NEGATIVE")
        ELSE IF said.symbol # NoSymbol /\ said.symbol.name # args.symbol.name
             THEN Fault("E_SYMBOL_MISMATCH")
        ELSE IF Len(said.frac) > args.decimals THEN Fault("E_EXCESS_PRECISION")
        ELSE Ranged(candid, IF said.negative THEN -magnitude ELSE magnitude)

DisplayAmount(value, args, candid) ==
    LET digits == PadStart(Digits[IF value < 0 THEN -value ELSE value], args.decimals + 1)
        whole == Len(digits) - args.decimals
    IN  IF ~InBounds(candid, value) THEN Fault("E_RANGE")
        ELSE IF args.threshold # NoThreshold /\ value >= args.threshold
             THEN Parsed(Word(args.message))
        ELSE Parsed(Amount(value < 0, SubSeq(digits, 1, whole),
                           Stripped(SubSeq(digits, whole + 1, Len(digits))), args.symbol))

-----------------------------------------------------------------------------
\* `timestamp` and `duration`: whole numbers of a unit, in nanoseconds between.

NsPer == [ns |-> 1, us |-> Ten^(FractionDigits \div 3),
          ms |-> Ten^(2 * (FractionDigits \div 3)), s |-> Ten^FractionDigits]
SecondsPerDay == Hours * Sixty * Sixty
NsToUnit(ns, unit) ==
    IF ns % NsPer[unit] # 0 THEN Fault("E_INEXACT") ELSE Parsed(ns \div NsPer[unit])
AlignNow(now, unit) == (now \div NsPer[unit]) * NsPer[unit]

\* The proleptic Gregorian calendar, from March of the year 0 in eras of 400 years.
DaysFromCivil(year, month, day) ==
    LET y == IF month <= 2 THEN year - 1 ELSE year
        era == y \div 400
        yoe == y - era * 400
        doy == (153 * (month + (IF month > 2 THEN -3 ELSE 9)) + 2) \div 5 + day - 1
    IN  era * 146097 + yoe * 365 + yoe \div 4 - yoe \div 100 + doy - 719468
CivilFromDays(days) ==
    LET z == days + 719468
        era == z \div 146097
        doe == z - era * 146097
        yoe == (doe - doe \div 1460 + doe \div 36524 - doe \div 146096) \div 365
        doy == doe - (365 * yoe + yoe \div 4 - yoe \div 100)
        mp == (5 * doy + 2) \div 153
        month == IF mp < 10 THEN mp + 3 ELSE mp - 9
    IN  [year |-> yoe + era * 400 + (IF month <= 2 THEN 1 ELSE 0), month |-> month,
         day |-> doy - (153 * mp + 2) \div 5 + 1]
IsLeap(year) == year % 4 = 0 /\ (year % 100 # 0 \/ year % 400 = 0)
DaysInMonth(year, month) ==
    CASE month = 2 -> IF IsLeap(year) THEN 29 ELSE 28
      [] month \in {4, 6, 9, 11} -> 30
      [] OTHER -> 31
MinS == DaysFromCivil(0, 1, 1) * SecondsPerDay
MaxS == (DaysFromCivil(9999, 12, 31) + 1) * SecondsPerDay - 1

UtcZone == [negative |-> FALSE, hours |-> 0, minutes |-> 0]
Instant(year, month, day, hour, minute, second, frac, zone) ==
    Text("instant", [year |-> year, month |-> month, day |-> day, hour |-> hour,
                     minute |-> minute, second |-> second, frac |-> frac, zone |-> zone],
         <<PlainUnit>>)
TooFine(frac) == \E i \in FractionDigits + 1..Len(frac) : frac[i] # 0
ParseRfc3339(t) ==
    LET offset == (IF t.zone.negative THEN -1 ELSE 1)
                    * (t.zone.hours * Sixty * Sixty + t.zone.minutes * Sixty)
        seconds == DaysFromCivil(t.year, t.month, t.day) * SecondsPerDay
                     + t.hour * Sixty * Sixty + t.minute * Sixty + t.second - offset
    IN  IF \/ t.month \notin 1..12
           \/ t.day \notin 1..DaysInMonth(t.year, t.month)
           \/ t.hour >= Hours \/ t.minute >= Sixty \/ t.second >= Sixty
           \/ t.zone.hours >= Hours \/ t.zone.minutes >= Sixty
        THEN Fault("E_RANGE")
        ELSE IF TooFine(t.frac) THEN Fault("E_INEXACT")
        ELSE Parsed(seconds * NsPer.s + Decimal(PadEnd(t.frac, FractionDigits)))
Rfc3339Of(ns) ==
    LET seconds == ns \div NsPer.s
        days == seconds \div SecondsPerDay
        sod == seconds - days * SecondsPerDay
        civil == CivilFromDays(days)
        frac == PadStart(Digits[ns - seconds * NsPer.s], FractionDigits)
    IN  IF seconds \notin MinS..MaxS THEN Fault("E_RANGE")
        ELSE Parsed(Instant(civil.year, civil.month, civil.day, sod \div (Sixty * Sixty),
                            (sod % (Sixty * Sixty)) \div Sixty, sod % Sixty,
                            Stripped(frac), UtcZone))

\* Each part of a duration is a number or NoPart; years and months have no length.
NoPart == -1
Duration(negative, calendar, parts, frac) ==
    Text("duration", [negative |-> negative, calendar |-> calendar, plus |-> FALSE,
                      parts |-> parts, frac |-> frac], <<PlainUnit>>)
Relative(text) == [text EXCEPT !.parts.plus = TRUE]
ParseDurationNs(d) ==
    LET Part(name) == IF d.parts[name] = NoPart THEN 0 ELSE d.parts[name]
        seconds == (Part("weeks") * 7 + Part("days")) * SecondsPerDay
                     + Part("hours") * Sixty * Sixty + Part("minutes") * Sixty + Part("seconds")
    IN  IF d.calendar THEN Fault("E_CALENDAR_UNIT")
        ELSE IF \A name \in DOMAIN d.parts : d.parts[name] = NoPart THEN Fault("E_SYNTAX")
        ELSE IF TooFine(d.frac) THEN Fault("E_INEXACT")
        ELSE Parsed(seconds * NsPer.s + Decimal(PadEnd(d.frac, FractionDigits)))

\* `candid` bounds what is counted, once it is a whole number of the unit.
InUnit(ns, unit, candid) ==
    LET counted == NsToUnit(ns, unit)
    IN  IF counted.is = "fault" THEN counted ELSE Ranged(candid, counted.value)
NoClock == [ns |-> -1]
IsRelative(text) == text.form = "duration" /\ text.parts.plus
ParseTimestamp(text, args, candid, now) ==
    LET duration == ParseDurationNs(text.parts)
        instant == ParseRfc3339(text.parts)
    IN  IF IsRelative(text)
        THEN IF now = NoClock THEN Fault("E_NEEDS_NOW")
             ELSE IF duration.is = "fault" THEN duration
             ELSE IF text.parts.negative THEN Fault("E_SYNTAX")
             ELSE InUnit(AlignNow(now.ns, args.unit) + duration.value, args.unit, candid)
        ELSE IF text.form # "instant" THEN Fault("E_SYNTAX")
        ELSE IF instant.is = "fault" THEN instant
        ELSE InUnit(instant.value, args.unit, candid)
ParseDuration(text, args, candid) ==
    LET read == ParseDurationNs(text.parts)
        ns == IF text.parts.negative THEN -read.value ELSE read.value
    IN  IF text.form # "duration" \/ IsRelative(text) THEN Fault("E_SYNTAX")
        ELSE IF read.is = "fault" THEN read
        ELSE IF ns < 0 /\ ~IsSigned(candid) THEN Fault("E_NEGATIVE")
        ELSE InUnit(ns, args.unit, candid)

\* A named value shows its words; one at or above the threshold, the message.
DisplayTimestamp(value, args, candid) ==
    IF ~InBounds(candid, value) THEN Fault("E_RANGE")
    ELSE IF value \in DOMAIN args.labels THEN Parsed(Word(args.labels[value]))
    ELSE IF args.threshold # NoThreshold /\ value >= args.threshold
         THEN Parsed(Word(args.message))
    ELSE Rfc3339Of(value * NsPer[args.unit])
DisplayDuration(value, args, candid) ==
    LET total == (IF value < 0 THEN -value ELSE value) * NsPer[args.unit]
        seconds == total \div NsPer.s
        frac == Stripped(PadStart(Digits[total % NsPer.s], FractionDigits))
        Shown(part) == IF part = 0 THEN NoPart ELSE part
        parts == [weeks |-> NoPart, days |-> Shown(seconds \div SecondsPerDay),
                  hours |-> Shown((seconds % SecondsPerDay) \div (Sixty * Sixty)),
                  minutes |-> Shown((seconds % (Sixty * Sixty)) \div Sixty),
                  seconds |-> IF total = 0 \/ frac # << >> THEN seconds % Sixty
                              ELSE Shown(seconds % Sixty)]
    IN  IF ~InBounds(candid, value) THEN Fault("E_RANGE")
        ELSE Parsed(Duration(value < 0, FALSE, parts, frac))

-----------------------------------------------------------------------------
\* `subaccount`, `account` and `bytes`.  A digit of a subaccount is a byte here.

IsZero(bytes) == \A i \in DOMAIN bytes : bytes[i] = 0
BigEndian(number, size) ==
    [i \in 1..size |-> (number \div (2 * Radix)^(size - i)) % (2 * Radix)]
OfBigEndian(bytes) == FoldLeft(LAMBDA n, byte : n * 2 * Radix + byte, 0, bytes)

\* "#n" or n without leading zeros, or exactly all the digits in hex.
Numbered(number) == Text("number", [number |-> number], <<PlainUnit>>)
IsWhole(text) ==
    /\ text.form = "amount" /\ text.parts.frac = << >> /\ text.parts.symbol = NoSymbol
    /\ Len(text.parts.whole) = 1 \/ Head(text.parts.whole) # 0
ParseSubaccount(text) ==
    LET number == IF text.form = "number" THEN text.parts.number ELSE Decimal(text.parts.whole)
    IN  CASE text.form = "hex" ->
               IF Len(text.parts.bytes) = SubaccountSize THEN Parsed(text.parts.bytes)
               ELSE Fault("E_LENGTH")
          [] text.form = "number" \/ (IsWhole(text) /\ ~text.parts.negative) ->
               IF number >= (2 * Radix)^NumberBytes THEN Fault("E_RANGE")
               ELSE Parsed(BigEndian(number, SubaccountSize))
          [] OTHER -> Fault("E_SYNTAX")
DisplaySubaccount(bytes) ==
    IF Len(bytes) # SubaccountSize THEN Fault("E_LENGTH")
    ELSE IF IsZero(SubSeq(bytes, 1, SubaccountSize - NumberBytes))
         THEN Parsed(Numbered(OfBigEndian(bytes)))
    ELSE Parsed(Hex(bytes, FALSE))

\* A checksum is what it was computed over; without a dot a text is a principal.
Account(owner, checksum, sub) ==
    Text("account", [owner |-> owner, checksum |-> checksum, sub |-> sub], <<PlainUnit>>)
NoChecksum == [of |-> << >>]
Checksum(owner, sub) == [of |-> <<owner, sub>>]
NoDot == [dot |-> FALSE]
After(digits) == [dot |-> TRUE, digits |-> digits]
NoSub == [given |-> FALSE]
Sub(bytes) == [given |-> TRUE, bytes |-> bytes]
ParseAccount(text) ==
    LET t == text.parts
        sub == PadStart(t.sub.digits, SubaccountSize)
    IN  IF text.form # "account" THEN Fault("E_SYNTAX")
        ELSE IF t.sub = NoDot
             THEN IF t.checksum = NoChecksum THEN Parsed([owner |-> t.owner, sub |-> NoSub])
                  ELSE Fault("E_CHECKSUM")
        ELSE IF t.checksum = NoChecksum THEN Fault("E_CHECKSUM_MISSING")
        ELSE IF t.sub.digits = << >> \/ Head(t.sub.digits) = 0 THEN Fault("E_NOT_CANONICAL")
        ELSE IF Len(t.sub.digits) > SubaccountSize THEN Fault("E_LENGTH")
        ELSE IF t.checksum # Checksum(t.owner, sub) THEN Fault("E_CHECKSUM")
        ELSE Parsed([owner |-> t.owner, sub |-> Sub(sub)])
DisplayAccount(account) ==
    IF account.sub = NoSub THEN Parsed(Account(account.owner, NoChecksum, NoDot))
    ELSE IF Len(account.sub.bytes) # SubaccountSize THEN Fault("E_LENGTH")
    ELSE IF IsZero(account.sub.bytes) THEN Parsed(Account(account.owner, NoChecksum, NoDot))
    ELSE Parsed(Account(account.owner, Checksum(account.owner, account.sub.bytes),
                        After(StrippedStart(account.sub.bytes))))

\* Text is its UTF-8 bytes unless it starts with "0x": then it is hex.
HasPrefix(units) == units # << >> /\ Head(units) = HexPrefix
NoMaxLen == -1
ParseBytes(text, args) ==
    LET asHex == IF text.form = "hex" THEN Parsed(text.parts.bytes) ELSE Fault("E_HEX")
        bytes == IF args.encoding = "hex" \/ HasPrefix(text.units) THEN asHex
                 ELSE IF WellFormed(text.units) THEN Parsed(text.units)
                 ELSE Fault("E_UTF8")
    IN  IF bytes.is = "fault" THEN bytes
        ELSE IF args.max_len # NoMaxLen /\ Len(bytes.value) > args.max_len
             THEN Fault("E_MAX_LEN")
        ELSE bytes
DisplayBytes_TextFirst(bytes, args) ==
    IF args.encoding = "hex" \/ ~WellFormed(bytes) THEN Parsed(Hex(bytes, TRUE))
    ELSE Parsed(Text("plain", << >>, bytes))
DisplayBytes(bytes, args) ==
    IF \/ args.encoding = "hex" \/ ~WellFormed(bytes)
       \/ \E i \in DOMAIN bytes : bytes[i] = UnsafeUnit
       \/ HasPrefix(bytes)
    THEN Parsed(Hex(bytes, TRUE))
    ELSE Parsed(Text("plain", << >>, bytes))

-----------------------------------------------------------------------------
\* formatterFor: the value tag of a position, bound to its arguments.  An
\* argument is a literal or names a query, whose answer `refs` may hold.

ValueTags == <<"amount", "timestamp", "duration", "account", "subaccount", "bytes">>
NoFormatter == [is |-> "none"]
CandidOf == [amount |-> Integral, timestamp |-> TimeTypes, duration |-> TimeTypes,
             account |-> {"record"}, subaccount |-> {"blob"}, bytes |-> {"blob"}]
DynamicArgs(tag, args) == IF tag = "amount" THEN {"decimals", "symbol"} ELSE {}
Missing(tag, args, refs) ==
    \E name \in DynamicArgs(tag, args) :
        args[name].from # NotGiven /\ args[name].from \notin DOMAIN refs
Argument(arg, refs) == IF arg.from = NotGiven THEN arg.literal ELSE refs[arg.from]
FormatterFor(node, refs) ==
    LET present == {i \in DOMAIN ValueTags : ValueTags[i] \in DOMAIN node.tags}
        tag == ValueTags[CHOOSE i \in present : TRUE]
        args == node.tags[tag]
    IN  IF present = {} THEN NoFormatter
        ELSE IF Cardinality(present) > 1 THEN Fault("E_TAG_CONFLICT")
        ELSE IF node.candid \notin CandidOf[tag] THEN Fault("E_TAG_TYPE")
        ELSE IF Missing(tag, args, refs) THEN Fault("E_REF_UNRESOLVED")
        ELSE [is |-> "formatter", tag |-> tag, candid |-> node.candid,
              args |-> IF tag = "amount"
                       THEN [args EXCEPT !.decimals = Argument(@, refs),
                                         !.symbol = Argument(@, refs)]
                       ELSE args]

Parse(f, text, now) ==
    CASE f.tag = "amount" -> ParseAmount(text, f.args, f.candid)
      [] f.tag = "timestamp" -> ParseTimestamp(text, f.args, f.candid, now)
      [] f.tag = "duration" -> ParseDuration(text, f.args, f.candid)
      [] f.tag = "account" -> ParseAccount(text)
      [] f.tag = "subaccount" -> ParseSubaccount(text)
      [] f.tag = "bytes" -> ParseBytes(text, f.args)
Display(f, value) ==
    CASE f.tag = "amount" -> DisplayAmount(value, f.args, f.candid)
      [] f.tag = "timestamp" -> DisplayTimestamp(value, f.args, f.candid)
      [] f.tag = "duration" -> DisplayDuration(value, f.args, f.candid)
      [] f.tag = "account" -> DisplayAccount(value)
      [] f.tag = "subaccount" -> DisplaySubaccount(value)
      [] f.tag = "bytes" -> DisplayBytes(value, f.args)
=============================================================================
