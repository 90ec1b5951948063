------------------------------- MODULE Amf0 --------------------------------
(***************************************************************************)
(* The AMF0 reader and writer (amf/amf0.rs) over cells.                    *)
(*                                                                         *)
(* A message body is a sequence of cells.  A cell is one field of fixed    *)
(* width: a type marker, a length or count, a double, a byte of a string,  *)
(* a tag byte, a FourCC.  Every cell is a natural number, so code that     *)
(* looks at the wrong field reads some number, as the program would read   *)
(* some bytes.  A position is the index of the next unread cell; a read    *)
(* that fails returns position 0.                                          *)
(***************************************************************************)
EXTENDS Naturals, Sequences, SequencesExt

CONSTANTS
    MAX_SKIP_DEPTH,     \* nesting skip_value follows
    MAX_OBJECT_KEYS     \* members of one object, items of one array

Number == 0
Boolean == 1
String == 2
Object == 3
Movieclip == 4
Null == 5
Undefined == 6
Reference == 7
EcmaArray == 8
ObjectEnd == 9
StrictArray == 10
Date == 11
LongString == 12
Unsupported == 13
XmlDoc == 15
TypedObject == 16
LastType == 17

-----------------------------------------------------------------------------
(* Writers.  *)

write_number(x) == <<Number, x>>
write_boolean(x) == <<Boolean, IF x THEN 1 ELSE 0>>
write_null == <<Null>>
write_string(s) == <<String, Len(s)>> \o s
write_long_string(s) == <<LongString, Len(s)>> \o s
write_object_key(k) == <<Len(k)>> \o k
write_object_end == <<0, ObjectEnd>>

-----------------------------------------------------------------------------
(* Readers.  *)

(* Buffer::available and Buffer::drain: the position after n more cells.   *)
Take(b, p, n) == IF p > 0 /\ p + n - 1 <= Len(b) THEN p + n ELSE 0

Cell(b, p) == IF p \in 1 .. Len(b) THEN b[p] ELSE 0

(* read_type: the marker, and nothing for a byte that is no marker.        *)
ReadType(b, p) == IF p \in 1 .. Len(b) /\ b[p] <= LastType THEN p + 1 ELSE 0

(* read_string, read_long_string: the marker, a length below the size of   *)
(* the caller's array, the bytes.                                          *)
ReadText(b, p, marker, size) ==
    LET bad == [pos |-> 0, s |-> <<>>]
        end == IF Len(b) < p + 1 \/ b[p] # marker \/ b[p + 1] >= size
               THEN 0 ELSE Take(b, p + 2, b[p + 1])
    IN  IF p = 0 \/ end = 0 THEN bad
        ELSE [pos |-> end, s |-> SubSeq(b, p + 2, end - 1)]

ReadKey(b, p, size) ==
    LET end == IF p > Len(b) \/ b[p] >= size THEN 0 ELSE Take(b, p + 1, b[p])
    IN  IF p = 0 \/ end = 0 THEN [pos |-> 0, s |-> <<>>]
        ELSE [pos |-> end, s |-> SubSeq(b, p + 1, end - 1)]

(* read_number_value: a marker that must be Number, and the double.        *)
ReadNumber(b, p) == IF p > 0 /\ p + 1 <= Len(b) /\ b[p] = Number THEN p + 2 ELSE 0

is_object_end(b, p) == p > 0 /\ p + 1 <= Len(b) /\ b[p] = 0 /\ b[p + 1] = ObjectEnd

-----------------------------------------------------------------------------
(* skip_value.  *)

RECURSIVE skip_value_depth(_, _, _, _), SkipItems(_, _, _, _), SkipMembers(_, _, _, _)

SkipCounted(b, p) == IF p \in 1 .. Len(b) THEN Take(b, p + 1, b[p]) ELSE 0

SkipTyped(b, p, depth) ==
    IF p = 0 \/ p > Len(b) \/ b[p] > LastType THEN 0
    ELSE skip_value_depth(b, p + 1, depth, b[p])

(* The elements of a StrictArray.  *)
SkipItems(b, p, depth, n) ==
    IF p = 0 \/ n = 0 THEN p ELSE SkipItems(b, SkipTyped(b, p, depth), depth, n - 1)

(* The members of an Object, EcmaArray or TypedObject, to its end marker.  *)
SkipMembers(b, p, depth, keys) ==
    CASE p = 0 -> 0
      [] is_object_end(b, p) -> p + 2
      [] ~is_object_end(b, p) /\ keys >= MAX_OBJECT_KEYS -> 0
      [] OTHER -> SkipMembers(b, SkipTyped(b, SkipCounted(b, p), depth), depth, keys + 1)

skip_value_depth(b, p, depth, ty) ==
    CASE ty \in {Number, Boolean, Reference} -> Take(b, p, 1)
      [] ty = Date -> Take(b, p, 2)
      [] ty \in {String, LongString, XmlDoc} -> SkipCounted(b, p)
      [] ty \in {Null, Undefined, Movieclip} -> p
      [] ty = StrictArray ->
            IF depth >= MAX_SKIP_DEPTH \/ p > Len(b) \/ Cell(b, p) > MAX_OBJECT_KEYS THEN 0
            ELSE SkipItems(b, p + 1, depth + 1, b[p])
      [] ty \in {Object, EcmaArray, TypedObject} ->
            IF depth >= MAX_SKIP_DEPTH THEN 0
            ELSE SkipMembers(b, CASE ty = Object -> p
                                  [] ty = EcmaArray -> Take(b, p, 1)
                                  [] ty = TypedObject -> SkipCounted(b, p), depth + 1, 0)
      [] OTHER -> 0

skip_value(b, p) == SkipTyped(b, p, 0)
=============================================================================
