----------------------------- MODULE CodeView ------------------------------
(***************************************************************************)
(* What the CodeView records of symbols and of types share: a record is a  *)
(* row of fields, some of which say how long they are themselves.          *)
(*                                                                         *)
(* A layout is a sequence of roles, a role being the least that the        *)
(* properties tell apart: "type" and "item" are indices into the type and  *)
(* the item stream, "offset" and "segment" make an address, "name" is the  *)
(* name, and the others are numbers of a width.                            *)
(***************************************************************************)
EXTENDS Bytes

(* The bytes that follow the tag of a numeric leaf of a fixed size.        *)
NumberTail(tag) ==
  CASE tag = \h8000 -> 1
    [] tag \in {\h8001, \h8002, \h801c} -> 2
    [] tag \in {\h8003, \h8004, \h8005} -> 4
    [] tag = \h800b -> 6
    [] tag \in {\h8006, \h8009, \h800a, \h800c, \h801a} -> 8
    [] tag = \h8007 -> 10
    [] tag \in {\h8008, \h800d, \h8017, \h8018, \h8019} -> 16
    [] tag = \h800e -> 20
    [] tag = \h800f -> 32
    [] OTHER -> -1

VarString == \h8010

Utf8String == \h801b

(* Number::from_parser: an immediate value below 0x8000, a leaf of a fixed *)
(* size, or one of the two kinds of strings.  An unknown leaf is an error. *)
TakeNumber(b) ==
  LET tag == U16At(b, 0)
      Whole(n) == TakeBytes(b, n)
      Text == TakeStrz(Drop(b, 2))
  IN IF Len(b) < 2 THEN Err
     ELSE IF tag < \h8000 THEN Whole(2)
     ELSE IF tag = VarString
          THEN IF Len(b) < 4 THEN Err ELSE Whole(4 + U16At(b, 2))
     ELSE IF tag = Utf8String
          THEN IF Text = Err THEN Err ELSE Whole(Len(b) - Len(Text[2]))
     ELSE IF NumberTail(tag) = -1 THEN Err
     ELSE Whole(2 + NumberTail(tag))

Width(role) ==
  CASE role = "u8" -> 1
    [] role \in {"u16", "flags16", "segment", "module"} -> 2
    [] role = "u64" -> 8
    [] OTHER -> 4

(* A count and that many u32s, and as many counts as there is room for.    *)
TakeFunctions(b) ==
  IF Len(b) < 4 THEN Err
  ELSE LET n == U32At(b, 0)
           Left == (Len(b) - 4) \div 4
       IN IF n > Left THEN Err ELSE TakeBytes(b, 4 + 4 * n + 4 * Min({n, Left - n}))

(* One field.  "gaps" takes whole 4-byte entries, "rest" all that is left. *)
TakeField(role, b) ==
  CASE role \in {"name", "strz"} -> TakeStrz(b)
    [] role = "strt" ->
         IF Len(b) = 0 \/ Len(b) < 1 + b[1] THEN Err
         ELSE <<SubSeq(b, 2, 1 + b[1]), Drop(b, 1 + b[1])>>
    [] role = "number" -> TakeNumber(b)
    [] role = "functions" -> TakeFunctions(b)
    [] role = "gaps" -> TakeBytes(b, 4 * (Len(b) \div 4))
    [] role = "rest" -> <<b, <<>>>>
    [] OTHER -> TakeBytes(b, Width(role))

(* Parse::from_parser of a record: its fields one after another, each with *)
(* its place in the record, and what is left of the record.                *)
ParseFields(layout, data) ==
  LET Taken(acc, role, field) ==
        IF field = Err THEN Err
        ELSE <<Append(acc[1], [role |-> role, at |-> Len(data) - Len(acc[2]),
                               value |-> field[1]]),
               field[2]>>
      Step(acc, role) ==
        IF acc = Err THEN Err ELSE Taken(acc, role, TakeField(role, acc[2]))
  IN FoldLeft(Step, << <<>>, data >>, layout)

HasField(fields, role) == \E i \in DOMAIN fields : fields[i].role = role

Field(fields, role) ==
  fields[CHOOSE i \in DOMAIN fields :
           fields[i].role = role /\ \A j \in 1 .. i - 1 : fields[j].role # role].value

FieldU16(fields, role) == U16At(Field(fields, role), 0)

FieldU32(fields, role) == U32At(Field(fields, role), 0)
=============================================================================
