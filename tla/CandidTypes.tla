----------------------------- MODULE CandidTypes -----------------------------
(***************************************************************************)
(* What the walks of the codec and of the validator share: schema nodes,   *)
(* wire types and host values.                                             *)
(*                                                                         *)
(* A schema is an arena, a function from node names to nodes; a `rec` node *)
(* names its body.  A wire type is a number, as in the code: a negative    *)
(* opcode, or an index (from 0) into the type table.  A key of a record or *)
(* variant is a string, and FieldIds says which id it derives.             *)
(***************************************************************************)
EXTENDS Leb128

CONSTANT FieldIds
ASSUME FieldIdsAssumption ==
    /\ FieldIds = [key \in DOMAIN FieldIds |-> FieldIds[key]]
    /\ \A key \in DOMAIN FieldIds : FieldIds[key] \in Nat

OpCode == [null |-> -1, bool |-> -2, nat |-> -3, int |-> -4, nat8 |-> -5, nat16 |-> -6,
           nat32 |-> -7, nat64 |-> -8, int8 |-> -9, int16 |-> -10, int32 |-> -11, int64 |-> -12,
           float32 |-> -13, float64 |-> -14, text |-> -15, reserved |-> -16, empty |-> -17,
           opt |-> -18, vec |-> -19,
           record |-> -20, variant |-> -21, func |-> -22, service |-> -23, principal |-> -24]
Composites == {"opt", "vec", "record", "variant", "func", "service"}
Floats == [float32 |-> 4, float64 |-> 8]
Primitives == DOMAIN OpCode \ (Composites \cup DOMAIN Floats)
Modes == [update |-> 0, query |-> 1, oneway |-> 2, composite_query |-> 3]

\* A chain of recs longer than maxDepth has no answer.
Unresolved == "unresolved"
Resolve(schema, node, maxDepth) ==
    LET from[hops \in 0..maxDepth, n \in DOMAIN schema] ==
            IF schema[n].kind # "rec" THEN n
            ELSE IF hops = maxDepth THEN Unresolved
            ELSE from[hops + 1, schema[n].body]
    IN  from[0, node]

\* Kinds whose values include null, at a resolved node.
AdmitsNull(node) == node.kind \in {"opt", "null", "reserved"}

\* The entries of a record or variant in wire order, and two keys of one id.
FieldId(field) == FieldIds[field.key]
SortedFields(fields) == SortSeq(fields, LAMBDA f, g : FieldId(f) < FieldId(g))
Collides(fields) ==
    \E i, j \in DOMAIN fields : i # j /\ FieldId(fields[i]) = FieldId(fields[j])

-----------------------------------------------------------------------------
\* Host values.  Text is its UTF-8 bytes, among them the last byte when they
\* are no text; a string that starts with 0 is the text of the principal
\* whose bytes follow.

Null == [is |-> "null"]
Boolean(truth) == [is |-> "boolean", truth |-> truth]
Number(number) == [is |-> "number", number |-> number]
BigInt(number) == [is |-> "bigint", bigint |-> number]
String(units) == [is |-> "string", units |-> units]
Tag(key) == [is |-> "tag", key |-> key]
BytesOf(bytes) == [is |-> "bytes", bytes |-> bytes]
Array(items) == [is |-> "array", items |-> items]
Object(fields) == [is |-> "object", fields |-> fields]
Entry(key, value) == [key |-> key, value |-> value]

HasKey(object, key) == \E i \in DOMAIN object.fields : object.fields[i].key = key
ValueAt(object, key) ==
    object.fields[CHOOSE i \in DOMAIN object.fields : object.fields[i].key = key].value

MaxByte == 2 * Radix - 1
WellFormed(units) == \A i \in DOMAIN units : units[i] # MaxByte
PrincipalText(bytes) == String(<<0>> \o bytes)
IsPrincipal(value) == value.is = "string" /\ value.units # << >> /\ Head(value.units) = 0
MaxPrincipal == 29

\* Numbers of a fixed width, in bytes; the widest are bigints.
Fixed == [nat8 |-> 1, nat16 |-> 2, nat32 |-> 4, nat64 |-> 8,
          int8 |-> 1, int16 |-> 2, int32 |-> 4, int64 |-> 8]
Signed == {"int8", "int16", "int32", "int64"}
Images(kind) == (2 * Radix)^Fixed[kind]
Numbers(kind) ==
    IF kind \in Signed THEN -(Images(kind) \div 2)..Images(kind) \div 2 - 1
    ELSE 0..Images(kind) - 1
HostOf(kind, number) == IF Fixed[kind] = 8 THEN BigInt(number) ELSE Number(number)
IsHostOf(kind, value) == value.is = HostOf(kind, 0).is
NumberOf(value) == IF value.is = "bigint" THEN value.bigint ELSE value.number
LittleEndian(kind, number) ==
    [i \in 1..Fixed[kind] |-> (number \div (2 * Radix)^(i - 1)) % (2 * Radix)]
OfLittleEndian(kind, bytes) ==
    LET image == FoldRight(LAMBDA byte, rest : byte + 2 * Radix * rest, bytes, 0)
    IN  IF kind \in Signed /\ image >= Images(kind) \div 2 THEN image - Images(kind) ELSE image
=============================================================================
