------------------------------ MODULE Strings -------------------------------
(***************************************************************************)
(* The growing strings of examples/str.c: a block of memory, the length of *)
(* what it holds, and a capacity, which is kept apart from the size of the *)
(* block.  text is what the calls so far say each string holds.            *)
(***************************************************************************)
EXTENDS Integers, Sequences, FiniteSets

CONSTANTS
  Name,      \* the strings of a program
  Char,
  Extra,     \* 10: what a growing string gets beyond twice its capacity
  MaxLen     \* bound: no call makes a string longer

(* The first character of an empty string needs room for itself and the NUL. *)
StringsAssumption == Extra \in Nat /\ Extra >= 2 /\ MaxLen \in Nat

VARIABLES str, text

vars == <<str, text>>

NUL == "NUL"
Garbage == "garbage"

string_init == [block |-> <<>>, len |-> 0, cap |-> 0]

Init == /\ str = [n \in Name |-> string_init]
        /\ text = [n \in Name |-> <<>>]

Words == UNION {[1 .. k -> Char] : k \in 0 .. 2}     \* bound: arguments

------------------------------------------------------------------------------
realloc(block, size) ==
  [i \in 1 .. size |-> IF i \in DOMAIN block THEN block[i] ELSE Garbage]

(* bytes written from position at on, at = 0 the start of the block *)
memcpy(block, at, bytes) ==
  [i \in DOMAIN block |-> IF i \in at + 1 .. at + Len(bytes) THEN bytes[i - at] ELSE block[i]]

(* while (least >= new_cap) new_cap = new_cap * 2 + 10; each round adds something,
   so the loop has ended within least + 1 rounds. *)
Grown(cap, least) ==
  LET new_cap[i \in 0 .. least + 1] ==
        IF i = 0 THEN cap
        ELSE IF least >= new_cap[i - 1] THEN new_cap[i - 1] * 2 + Extra ELSE new_cap[i - 1]
  IN new_cap[least + 1]

GrownTo(s, cap) ==
  IF cap = s.cap THEN s ELSE [s EXCEPT !.block = realloc(@, cap), !.cap = cap]

(* bytes and a NUL at the end of what s holds, in a capacity of cap *)
Extended(s, bytes, cap) ==
  [GrownTo(s, cap) EXCEPT !.block = memcpy(@, s.len, Append(bytes, NUL)),
                          !.len = @ + Len(bytes)]

string_append(s, c) ==
  Extended(s, <<c>>, IF s.len + 2 >= s.cap THEN s.cap * 2 + Extra ELSE s.cap)

string_from_cstr(s, cstr) ==
  [block |-> memcpy(realloc(s.block, Len(cstr) + 1), 0, Append(cstr, NUL)),
   len |-> Len(cstr), cap |-> Len(cstr) + 1]

ClearedLength(s) == [s EXCEPT !.len = 0]                         \* mutant
string_clear(s) ==
  [s EXCEPT !.len = 0, !.block = IF s.cap = 0 THEN @ ELSE memcpy(@, 0, <<NUL>>)]

string_concat(s, b) == Extended(s, b, Grown(s.cap, s.len + 1 + Len(b) + 1))

string_ref_clone(s, ref) ==
  LET out[i \in 0 .. Len(ref)] == IF i = 0 THEN s ELSE string_append(out[i - 1], ref[i])
  IN out[Len(ref)]

string_clone(src, dst) ==
  LET d == GrownTo(dst, Grown(dst.cap, src.len + 2))
  IN [d EXCEPT !.block = memcpy(@, 0, SubSeq(src.block, 1, src.len + 1)), !.len = src.len]

string_reserve(s, cap) ==
  IF s.cap >= cap + 1 THEN s ELSE [s EXCEPT !.block = realloc(@, cap + 1)]

(* memset(s->str + s->len, pad, s->cap): s->cap bytes, whatever s->len is *)
string_resize(s, size, pad) ==
  IF size = s.len THEN s
  ELSE IF size < s.len
  THEN [s EXCEPT !.len = size, !.block = IF s.cap = 0 THEN @ ELSE memcpy(@, size, <<NUL>>)]
  ELSE [block |-> memcpy(memcpy(realloc(s.block, size + 1), s.len, [i \in 1 .. size + 1 |-> pad]),
                         size, <<NUL>>),
        len |-> size, cap |-> size + 1]

------------------------------------------------------------------------------
Becomes(n, s, t) == /\ Len(t) <= MaxLen
                    /\ str' = [str EXCEPT ![n] = s] /\ text' = [text EXCEPT ![n] = t]

DeInit(n) == Becomes(n, string_init, <<>>)
AppendChar(n) == \E c \in Char : Becomes(n, string_append(str[n], c), Append(text[n], c))
FromCstr(n) == \E w \in Words : Becomes(n, string_from_cstr(str[n], w), w)
Clear(n) == Becomes(n, string_clear(str[n]), <<>>)
Concat(n) == \E w \in Words : Becomes(n, string_concat(str[n], w), text[n] \o w)
string_ref(s) == SubSeq(s.block, 1, s.len)
ConcatRef(n, m) == /\ n # m
                   /\ \E s \in {string_concat(str[n], string_ref(str[m])),
                                string_ref_clone(str[n], string_ref(str[m]))} :
                        Becomes(n, s, text[n] \o text[m])
Reserve(n) == \E cap \in 0 .. MaxLen : Becomes(n, string_reserve(str[n], cap), text[n])

(* Contracts: what is cloned has been written to, and resize, which would set
   memory behind the block, makes only empty strings longer (echo_loop clears
   its string first). *)
Clone(m, n) == /\ n # m /\ str[m].cap > 0
               /\ Becomes(n, string_clone(str[m], str[n]), text[m])
Resize(n) ==
  \E size \in 0 .. MaxLen, pad \in Char :
    /\ size > str[n].len => str[n].len = 0
    /\ Becomes(n, string_resize(str[n], size, pad),
               [i \in 1 .. size |-> IF i \in DOMAIN text[n] THEN text[n][i] ELSE pad])

Next ==
  \E n \in Name :
    \/ DeInit(n) \/ AppendChar(n) \/ FromCstr(n) \/ Clear(n) \/ Concat(n) \/ Reserve(n) \/ Resize(n)
    \/ \E m \in Name : ConcatRef(n, m) \/ Clone(m, n)

Spec == Init /\ [][Next]_vars

------------------------------------------------------------------------------
(* After any sequence of calls a string holds what they say, and if it has a
   capacity it ends in a NUL. *)
HoldsText ==
  \A n \in Name : LET s == str[n] IN
    /\ SubSeq(s.block, 1, s.len) = text[n]
    /\ s.cap > 0 => s.block[s.len + 1] = NUL

(* The capacity, by which append decides whether there is room, is never more
   than the block has, and leaves room for the NUL. *)
CapacityOK ==
  \A n \in Name : LET s == str[n] IN
    /\ s.cap <= Len(s.block) /\ s.len = Len(text[n])
    /\ s.len < s.cap \/ s.len = 0
==============================================================================
