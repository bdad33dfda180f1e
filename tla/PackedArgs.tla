----------------------------- MODULE PackedArgs ------------------------------
(***************************************************************************)
(* pack and unpack of io.c: arguments laid out in a buffer behind a header *)
(* of their length and the buffer's size.  A format is a sequence of "i",  *)
(* "u" and "p", of which an unknown letter makes both functions return -1; *)
(* byte b of a value v is <<v, b>>, and data has the bytes written so far. *)
(***************************************************************************)
EXTENDS Integers, Sequences

Letter == {"i", "u", "p"}
Width == [i |-> 4, u |-> 4, p |-> 8]
Header == 8                                          \* 2 * sizeof(int)

Zeroed == [len |-> 0, size |-> 0, data |-> <<>>]     \* char arg_buf[256] = {0}

(* the letters the loops get through *)
Taken(fmt) == CHOOSE n \in 0 .. Len(fmt) :
                /\ \A k \in 1 .. n : fmt[k] \in Letter
                /\ n < Len(fmt) => fmt[n + 1] \notin Letter

(* ptr after the first k arguments *)
Offset(fmt, k) ==
  LET ptr[i \in 0 .. k] == IF i = 0 THEN Header ELSE ptr[i - 1] + Width[fmt[i]] IN ptr[k]

Bytes(v, c) == [b \in 1 .. Width[c] |-> <<v, b>>]

(* No assertion of pack fails. *)
PackSucceeds(size, fmt) ==
  size >= Header /\ \A k \in 1 .. Taken(fmt) : size >= Offset(fmt, k - 1)

(* what the memcpys of pack leave behind the header, one after the other, and what
   they do not reach *)
Copied(fmt, values, k) ==
  LET data[i \in 0 .. k] == IF i = 0 THEN <<>> ELSE data[i - 1] \o Bytes(values[i], fmt[i])
  IN data[k]
Over(new, old) ==
  [b \in DOMAIN new \cup DOMAIN old |-> IF b \in DOMAIN new THEN new[b] ELSE old[b]]

(* The header is written last, and not at all if a letter is unknown. *)
pack(buf, size, fmt, values) ==
  LET n == Taken(fmt)
      data == Over(Copied(fmt, values, n), buf.data)
  IN IF n = Len(fmt) THEN [len |-> Offset(fmt, n), size |-> size, data |-> data]
                     ELSE [len |-> buf.len, size |-> buf.size, data |-> data]

Unchecked(buf, fmt) ==                                               \* mutant
  \A k \in DOMAIN fmt : k <= Taken(fmt) + 1 => buf.len > Offset(fmt, k - 1)

(* No assertion of unpack fails: there is more before each letter, known or not, and
   nothing is left at the end, if it gets there. *)
UnpackSucceeds(buf, fmt) ==
  /\ \A k \in DOMAIN fmt : k <= Taken(fmt) + 1 => buf.len > Offset(fmt, k - 1)
  /\ Taken(fmt) = Len(fmt) => buf.len = Offset(fmt, Len(fmt))

unpack(buf, fmt) ==
  [k \in 1 .. Taken(fmt) |->
     [b \in 1 .. Width[fmt[k]] |-> buf.data[Offset(fmt, k - 1) - Header + b]]]

------------------------------------------------------------------------------
(* Every format of up to MaxItems letters, every size of buffer that differs for
   them, and a buffer that is new or has had other arguments. *)
MaxItems == 4                                        \* bound: async_recv has 4
Formats == UNION {[1 .. n -> Letter] : n \in 0 .. MaxItems}
BufferSizes == {0, 7, 8, 12, 16, 24, 28, 40}
Used == {Zeroed, pack(Zeroed, 40, <<"p", "i", "p", "p">>, [k \in 1 .. 4 |-> -k])}
Numbered(buf, size, fmt) == pack(buf, size, fmt, [k \in DOMAIN fmt |-> k])

(* What was packed, also where other arguments were, is unpacked by the same format,
   and a callee that packs a result of no greater length in its place finds room. *)
RoundTrip ==
  \A buf \in Used, fmt \in Formats, size \in BufferSizes : PackSucceeds(size, fmt) =>
    LET buffer == Numbered(buf, size, fmt) IN
    /\ UnpackSucceeds(buffer, fmt)
    /\ unpack(buffer, fmt) = [k \in DOMAIN fmt |-> Bytes(k, fmt[k])]
    /\ \A k \in DOMAIN fmt : PackSucceeds(buffer.size, SubSeq(fmt, 1, k))

(* Arguments of another total length never get past unpack. *)
LengthNoticed ==
  \A fmt, other \in Formats :
    UnpackSucceeds(Numbered(Zeroed, 0, fmt), other)
      <=> Offset(other, Len(other)) = Offset(fmt, Len(fmt))

(* Nothing gets past unpack that pack refused to finish in a new buffer. *)
RefusalNoticed ==
  \A fmt, other \in Formats :
    ~UnpackSucceeds(Numbered(Zeroed, 0, Append(fmt, "unknown")), other)
==============================================================================
