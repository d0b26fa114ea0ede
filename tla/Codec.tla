-------------------------------- MODULE Codec --------------------------------
(***************************************************************************)
(* The byte layer under the wire protocol and the state file: PayloadWriter *)
(* and PayloadReader of src/src/distributed/protocol.cpp, ByteWriter and   *)
(* ByteReader of src/src/persistence.cpp, which agree field by field.      *)
(*                                                                         *)
(* A message is a function from field names to values.  A layout is the    *)
(* sequence of put_ or get_ calls a codec makes; a writer and a reader     *)
(* have a layout each, and nothing but their text makes them agree.        *)
(***************************************************************************)
EXTENDS Integers, Sequences

Byte == 0..255
Huge == 2147483647    \* stands for itself and every greater number

\* Parts one after the other; numbers added up.
Concat(parts) ==
    LET upto[i \in 0..Len(parts)] == IF i = 0 THEN <<>> ELSE upto[i - 1] \o parts[i]
    IN  upto[Len(parts)]
Sum(s) ==
    LET upto[i \in 0..Len(s)] == IF i = 0 THEN 0 ELSE upto[i - 1] + s[i]
    IN  upto[Len(s)]

\* Calls of one kind on several fields in a row.
Calls(kind, names) == [i \in DOMAIN names |-> [kind |-> kind, name |-> names[i]]]

U8(names) == Calls("u8", names)
U16(names) == Calls("u16", names)
U32(names) == Calls("u32", names)
U64(names) == Calls("u64", names)    \* also put_id and put_generation
I64(names) == Calls("i64", names)
Bool(names) == Calls("bool", names)
Str(names) == Calls("string", names)

\* An enumeration in `width' bytes that the reader compares with its kCount; a counted
\* list with the limit the reader compares the count with; the fields of a member.
Enum(name, width, count) ==
    <<[kind |-> "enum", name |-> name, width |-> width, count |-> count]>>
List(name, limit, fields) ==
    <<[kind |-> "list", name |-> name, limit |-> limit, fields |-> fields]>>
Struct(name, fields) == <<[kind |-> "struct", name |-> name, fields |-> fields]>>

Width(f) ==
    CASE f.kind = "enum" -> f.width
      [] f.kind \in {"u8", "bool"} -> 1
      [] f.kind = "u16" -> 2
      [] f.kind = "u32" -> 4
      [] OTHER -> 8

-----------------------------------------------------------------------------
\* Little-endian, two's complement.  Values stay below 2^31.
Place == <<1, 256, 65536, 16777216>>
Magnitude(n, width) == [i \in 1..width |-> IF i > 4 THEN 0 ELSE (n \div Place[i]) % 256]

\* Mutant: the value is not split into bytes.
put_whole(v, width) == [i \in 1..width |-> IF i = 1 THEN v ELSE 0]

put_int(v, width) ==
    IF v >= 0 THEN Magnitude(v, width)
    ELSE [i \in 1..width |-> 255 - Magnitude(-v - 1, width)[i]]

Digit(bs, i) == IF i <= Len(bs) THEN bs[i] ELSE 0
Unsigned(bs) ==
    IF Digit(bs, 4) >= 128 \/ \E i \in 5..Len(bs) : bs[i] # 0 THEN Huge
    ELSE Digit(bs, 1) + 256 * Digit(bs, 2) + 65536 * Digit(bs, 3) + 16777216 * Digit(bs, 4)

get_int(bs, signed) ==
    IF signed /\ bs[Len(bs)] >= 128
    THEN -Unsigned([i \in DOMAIN bs |-> 255 - bs[i]]) - 1
    ELSE Unsigned(bs)

\* A value of a Boolean field is 0 or 1; get_bool reads any non-zero byte as true.
get_scalar(f, bs) ==
    IF f.kind = "bool" THEN (IF bs[1] = 0 THEN 0 ELSE 1) ELSE get_int(bs, f.kind = "i64")

\* Bytes from `at' on, counted from 0 as in the code, and the number they hold.
field(bs, at, width) == SubSeq(bs, at + 1, at + width)
number(bs, at, width) == get_int(field(bs, at, width), FALSE)

-----------------------------------------------------------------------------
(***************************************************************************)
(* The writer.  A part of a message is written by the calls of its own     *)
(* layout, `inner'.  Parts nest three deep below a message: a route        *)
(* response holds a decision, that a ranking, and each entry its factors.  *)
(***************************************************************************)
\* ok() is lost by one string over the limit, and by nothing else.
fits(inner(_, _, _), fields, m, limits) ==
    \A i \in DOMAIN fields :
        LET f == fields[i]
            x == m[f.name]
        IN  CASE f.kind = "string" -> Len(x) <= limits.max_string_bytes
              [] f.kind = "list" -> \A k \in DOMAIN x : inner(f.fields, x[k], limits)
              [] f.kind = "struct" -> inner(f.fields, x, limits)
              [] OTHER -> TRUE

fits_0(fields, m, limits) == fits(LAMBDA fs, x, l : TRUE, fields, m, limits)
fits_1(fields, m, limits) == fits(fits_0, fields, m, limits)
fits_2(fields, m, limits) == fits(fits_1, fields, m, limits)
writer_ok(fields, m, limits) == fits(fits_2, fields, m, limits)

put_field(inner(_, _), f, x) ==
    CASE f.kind = "string" -> put_int(Len(x), 4) \o x
      [] f.kind = "list" ->
           put_int(Len(x), 4) \o Concat([k \in DOMAIN x |-> inner(f.fields, x[k])])
      [] f.kind = "struct" -> inner(f.fields, x)
      [] OTHER -> put_int(x, Width(f))

put_fields(inner(_, _), fields, m) ==
    Concat([i \in DOMAIN fields |-> put_field(inner, fields[i], m[fields[i].name])])

bytes_0(fields, m) == put_fields(LAMBDA fs, x : <<>>, fields, m)
bytes_1(fields, m) == put_fields(bytes_0, fields, m)
bytes_2(fields, m) == put_fields(bytes_1, fields, m)
writer_bytes(fields, m) == put_fields(bytes_2, fields, m)

-----------------------------------------------------------------------------
(***************************************************************************)
(* The reader.  A call is a function from the offset it starts at to what  *)
(* it gives and the offset it leaves, or to a failure.                     *)
(***************************************************************************)
Read(v, off) == [ok |-> TRUE, off |-> off, val |-> v]
Failure == [ok |-> FALSE]

require(bs, off, count) == Len(bs) - off >= count

get_string(bs, off, limits) ==
    LET length == number(bs, off, 4) IN
    IF require(bs, off, 4) /\ length <= limits.max_string_bytes /\ require(bs, off + 4, length)
    THEN Read(field(bs, off + 4, length), off + 4 + length)
    ELSE Failure

get_number(f, bs, off) ==
    LET v == get_scalar(f, field(bs, off, Width(f))) IN
    IF require(bs, off, Width(f)) /\ ~(f.kind = "enum" /\ v >= f.count)
    THEN Read(v, off + Width(f))
    ELSE Failure

\* Calls one after the other, each from where the one before stopped.  ok() does not
\* come back: after one that fails nothing more is read.
Put(r, name, v, off) ==
    Read([n \in DOMAIN r.val \cup {name} |-> IF n = name THEN v ELSE r.val[n]], off)

InOrder(calls, names, start) ==
    LET upto[i \in 0..Len(calls)] ==
            IF i = 0 THEN Read(<<>>, start)
            ELSE LET r == upto[i - 1]
                     got == calls[i][r.off]
                 IN  IF r.ok /\ got.ok THEN Put(r, names[i], got.val, got.off)
                     ELSE [ok |-> FALSE, off |-> r.off, val |-> r.val]
    IN  upto[Len(calls)]

\* A count, and as many parts.
get_list(part, bs, off, limit) ==
    LET count == number(bs, off, 4) IN
    IF require(bs, off, 4) /\ count <= limit
    THEN InOrder([k \in 1..count |-> part], [k \in 1..count |-> k], off + 4)
    ELSE Failure

get_field(inner(_, _, _, _), f, bs, off, limits) ==
    CASE f.kind = "string" -> get_string(bs, off, limits)
      [] f.kind = "list" -> get_list([o \in 0..Len(bs) |-> inner(f.fields, bs, o, limits)],
                                     bs, off, limits[f.limit])
      [] f.kind = "struct" -> inner(f.fields, bs, off, limits)
      [] OTHER -> get_number(f, bs, off)

get_fields(inner(_, _, _, _), fields, bs, off, limits) ==
    InOrder([i \in DOMAIN fields |->
                [o \in 0..Len(bs) |-> get_field(inner, fields[i], bs, o, limits)]],
            [i \in DOMAIN fields |-> fields[i].name], off)

read_0(fields, bs, off, limits) ==
    get_fields(LAMBDA fs, b, o, l : Read(<<>>, o), fields, bs, off, limits)
read_1(fields, bs, off, limits) == get_fields(read_0, fields, bs, off, limits)
read_2(fields, bs, off, limits) == get_fields(read_1, fields, bs, off, limits)
read(fields, bs, off, limits) == get_fields(read_2, fields, bs, off, limits)

\* decode_message: the layout, and nothing after it.
Exhausted(bs, r) == r.off = Len(bs)
decode_message(fields, bs, limits) ==
    LET r == read(fields, bs, 0, limits)
    IN  IF Len(bs) <= limits.max_payload_bytes /\ r.ok /\ Exhausted(bs, r) THEN r ELSE Failure

-----------------------------------------------------------------------------
\* Stands for crc32c, of which only this is used: changing one byte changes it.
Block(bs, b) == [i \in 1..64 |-> Digit(bs, 64 * (b - 1) + i)]
crc32c(bs) == Sum([b \in 1..(Len(bs) \div 64 + 1) |-> Sum(Block(bs, b))]) % 65521

\* Stands for sha256 over a sequence of numbers: 32 bytes.
sha256(text) == [i \in 1..32 |-> Sum([k \in DOMAIN text |-> (i + k) * (text[k] % 65521)]) % 256]

=============================================================================
