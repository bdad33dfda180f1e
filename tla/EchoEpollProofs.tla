--------------------------- MODULE EchoEpollProofs ---------------------------
(***************************************************************************)
(* The epoll echo server keeps every byte in order, handles no event of a  *)
(* connection it has closed and counts each open connection, for any       *)
(* clients, messages, sizes of buffers and batches and failing calls, and  *)
(* so implements EchoSpec.                                                 *)
(***************************************************************************)
EXTENDS EchoEpoll, SocketsProofs, FiniteSetTheorems

(* Between two calls of client_on_update: when Reading, the size or the message
   is not complete; when Writing, both are.  A read_buffer not begun is empty. *)
Unfilled(r) ==
  \/ Len(r.size) < SizeBytes /\ r.msg = <<>>
  \/ Len(r.size) = SizeBytes /\ Len(r.msg) < ntohl(r.size)

RecordOK(r) ==
  /\ r \in Record
  /\ r.mode = "Reading" => r.sent = 0 /\ Unfilled(r)
  /\ r.mode = "Writing" => Len(r.size) = SizeBytes /\ r.sent <= SizeBytes + Len(r.msg)
  /\ ~ r.begun => r.buf = <<>>

(* What the record of a client holds of its bytes, in order. *)
Holds(r) == Drop(r.size \o r.msg, r.sent) \o r.buf

LEMMA DropType ==
  ASSUME NEW r, RecordOK(r)
  PROVE  Drop(r.size \o r.msg, r.sent) \in Seq(Byte)
<1>1. /\ r.size \in Seq(Byte) /\ r.msg \in Seq(Byte) /\ r.buf \in Seq(Byte) /\ r.sent \in Nat
      /\ r.mode \in {"Reading", "Writing"}
  BY DEF RecordOK, Record
<1> DEFINE s == r.size \o r.msg
<1>2. s \in Seq(Byte) /\ Len(s) = Len(r.size) + Len(r.msg) /\ Len(r.size) \in Nat /\ Len(r.msg) \in Nat
  BY <1>1, ConcatProperties, LenProperties
<1> HIDE DEF s
<1>3. r.sent \in 0 .. Len(s)
  <2>1. PICK a : a = Len(r.size)
    OBVIOUS
  <2>2. PICK b : b = Len(r.msg)
    OBVIOUS
  <2>3. a \in Nat /\ b \in Nat /\ r.sent \in Nat /\ Len(s) = a + b
    BY <1>1, <1>2, <2>1, <2>2
  <2>4. r.sent = 0 \/ r.sent <= a + b
    BY <1>1, <2>1, <2>2 DEF RecordOK
  <2> QED BY <2>3, <2>4
<1>4. Drop(s, r.sent) \in Seq(Byte)
  BY <1>2, <1>3, TakeDrop
<1> QED BY <1>4 DEF s

LEMMA HoldsType ==
  ASSUME NEW r, RecordOK(r)
  PROVE  Holds(r) \in Seq(Byte)
<1>1. r.buf \in Seq(Byte)
  BY DEF RecordOK, Record
<1> QED BY <1>1, DropType, ConcatProperties DEF Holds

LEMMA HoldsAll ==
  ASSUME NEW r \in Record, r.sent = 0
  PROVE  Holds(r) = r.size \o r.msg \o r.buf
<1>1. r.size \o r.msg \in Seq(Byte)
  BY ConcatProperties DEF Record
<1> QED BY <1>1, DropEnds DEF Holds

LEMMA FreshOK == RecordOK(Fresh) /\ Holds(Fresh) = <<>>
<1>1. Fresh \in Record /\ Fresh.sent = 0 /\ Fresh.size = <<>> /\ Fresh.msg = <<>>
      /\ Fresh.buf = <<>> /\ Fresh.mode = "Reading"
  BY EmptySeq DEF Fresh, Record
<1>2. RecordOK(Fresh)
  BY <1>1, EmptySeq DEF RecordOK, Unfilled, SizeBytes
<1>3. <<>> \o <<>> \o <<>> = <<>>
  BY EmptySeq, ConcatEmptySeq
<1> QED BY <1>1, <1>2, <1>3, HoldsAll

------------------------------------------------------------------------------
(* The two loops of client_on_update that take bytes out of read_buffer. *)
LEMMA SizeCopied ==
  ASSUME NEW r \in Record, r.mode = "Reading", r.sent = 0, Unfilled(r)
  PROVE  LET k == Copied(r, "size", SizeBytes)
         IN /\ k \in Record /\ k.mode = "Reading" /\ k.sent = 0 /\ k.begun = r.begun
            /\ \/ Len(k.size) < SizeBytes /\ k.msg = <<>> /\ k.buf = <<>>
               \/ Len(k.size) = SizeBytes /\ Len(k.msg) <= ntohl(k.size)
            /\ Holds(k) = Holds(r)
<1> DEFINE amt == Least(SizeBytes - Len(r.size), Len(r.buf))
<1> DEFINE s == r.size \o Take(r.buf, amt)
<1> DEFINE d == Drop(r.buf, amt)
<1> DEFINE k == [r EXCEPT !.size = s, !.buf = d]
<1>1. /\ r.size \in Seq(Byte) /\ r.msg \in Seq(Byte) /\ r.buf \in Seq(Byte)
      /\ SizeBytes \in Nat /\ Len(r.size) \in Nat /\ Len(r.buf) \in Nat /\ Len(r.msg) \in Nat
  BY LenProperties DEF Record, SizeBytes
<1>2. Copied(r, "size", SizeBytes) = k
  BY DEF Copied
<1>3. Len(r.size) <= SizeBytes
  BY <1>1 DEF Unfilled
<1>4. Copies(r.size, r.buf, SizeBytes, s, d)
  BY <1>1, <1>3, CopiedFacts
<1>5. Len(r.size) = SizeBytes => s = r.size /\ d = r.buf
  <2>1. SUFFICES ASSUME Len(r.size) = SizeBytes PROVE s = r.size /\ d = r.buf
    OBVIOUS
  <2>2. amt = 0
    BY <1>1, <2>1 DEF Least
  <2>3. Take(r.buf, 0) = <<>> /\ Drop(r.buf, 0) = r.buf
    BY <1>1, SubSeqEmpty, DropEnds DEF Take
  <2> QED BY <1>1, <2>2, <2>3, ConcatEmptySeq
<1> HIDE DEF amt, s, d
<1>6. /\ s \in Seq(Byte) /\ d \in Seq(Byte)
      /\ Len(s) < SizeBytes => d = <<>>
      /\ ~ Len(s) < SizeBytes => Len(s) = SizeBytes
      /\ s \o d = r.size \o r.buf
  BY <1>4 DEF Copies
<1>7. /\ k \in Record /\ k.size = s /\ k.buf = d /\ k.msg = r.msg /\ k.mode = "Reading"
      /\ k.sent = 0 /\ k.begun = r.begun
  BY <1>6 DEF Record
<1>8. CASE Len(r.size) = SizeBytes
  <2>1. s = r.size /\ d = r.buf
    BY <1>5, <1>8
  <2>2. Len(r.msg) <= ntohl(r.size)
    <3>1. ntohl(r.size) \in Nat
      BY <1>1, <1>8, SizeIsNat
    <3> QED BY <1>1, <1>8, <3>1 DEF Unfilled
  <2>3. Holds(k) = Holds(r)
    BY <1>7, <2>1 DEF Holds
  <2> QED BY <1>2, <1>7, <1>8, <2>1, <2>2, <2>3
<1>9. CASE Len(r.size) # SizeBytes
  <2>1. r.msg = <<>>
    BY <1>9 DEF Unfilled
  <2>2. Holds(r) = r.size \o r.buf /\ Holds(k) = s \o d
    <3>1. r.size \o <<>> = r.size /\ s \o <<>> = s
      BY <1>1, <1>6, ConcatEmptySeq
    <3>2. Holds(r) = r.size \o r.msg \o r.buf /\ Holds(k) = k.size \o k.msg \o k.buf
      BY <1>7, HoldsAll
    <3> QED BY <1>7, <2>1, <3>1, <3>2
  <2>3. \/ Len(s) < SizeBytes /\ d = <<>>
        \/ Len(s) = SizeBytes /\ Len(r.msg) <= ntohl(s)
    <3>1. Len(s) = SizeBytes => ntohl(s) \in Nat
      BY <1>6, SizeIsNat
    <3>2. Len(r.msg) = 0
      BY <2>1
    <3> QED BY <1>6, <3>1, <3>2
  <2> QED BY <1>2, <1>6, <1>7, <2>1, <2>2, <2>3
<1> QED BY <1>8, <1>9

LEMMA MsgCopied ==
  ASSUME NEW r \in Record, r.mode = "Reading", r.sent = 0,
         Len(r.size) = SizeBytes, Len(r.msg) <= ntohl(r.size)
  PROVE  LET k == Copied(r, "msg", ntohl(r.size))
         IN /\ k \in Record /\ k.mode = "Reading" /\ k.sent = 0 /\ k.begun = r.begun
            /\ k.size = r.size
            /\ Len(k.msg) < ntohl(r.size) => k.buf = <<>>
            /\ Holds(k) = Holds(r)
<1> DEFINE n == ntohl(r.size)
<1> DEFINE amt == Least(n - Len(r.msg), Len(r.buf))
<1> DEFINE m == r.msg \o Take(r.buf, amt)
<1> DEFINE d == Drop(r.buf, amt)
<1> DEFINE k == [r EXCEPT !.msg = m, !.buf = d]
<1>1. /\ r.size \in Seq(Byte) /\ r.msg \in Seq(Byte) /\ r.buf \in Seq(Byte)
      /\ n \in Nat /\ Len(r.msg) \in Nat
  BY SizeIsNat, LenProperties DEF Record
<1>2. Copied(r, "msg", n) = k
  BY DEF Copied
<1>3. Copies(r.msg, r.buf, n, m, d)
  BY <1>1, CopiedFacts
<1> HIDE DEF n, amt, m, d
<1>4. /\ m \in Seq(Byte) /\ d \in Seq(Byte)
      /\ Len(m) < n => d = <<>>
  BY <1>3 DEF Copies
<1>5. /\ k \in Record /\ k.size = r.size /\ k.msg = m /\ k.buf = d /\ k.mode = "Reading"
      /\ k.sent = 0 /\ k.begun = r.begun
  BY <1>4 DEF Record
<1>6. Holds(k) = Holds(r)
  <2>1. Holds(r) = r.size \o r.msg \o r.buf /\ Holds(k) = r.size \o m \o d
    BY <1>5, HoldsAll
  <2>2. SameAssociated(r.size, r.msg, r.buf) /\ SameAssociated(r.size, m, d)
    BY <1>1, <1>4, Reassociated
  <2> QED BY <1>3, <2>1, <2>2 DEF Copies, SameAssociated
<1> QED BY <1>2, <1>4, <1>5, <1>6 DEF n

LEMMA ClearedKeeps ==
  ASSUME NEW r \in Record, r.mode = "Reading", r.sent = 0, Unfilled(r), r.buf = <<>>
  PROVE  RecordOK(Cleared(r)) /\ Holds(Cleared(r)) = Holds(r)
<1>1. /\ Cleared(r) \in Record /\ Cleared(r).mode = "Reading" /\ Cleared(r).sent = 0
      /\ Cleared(r).size = r.size /\ Cleared(r).msg = r.msg /\ Cleared(r).buf = <<>>
  BY EmptySeq DEF Cleared, Record
<1>2. RecordOK(Cleared(r))
  BY <1>1 DEF RecordOK, Unfilled
<1> QED BY <1>1, <1>2 DEF Holds

LEMMA FilledKeeps ==
  ASSUME NEW r \in Record, r.mode = "Reading", r.sent = 0, r.begun, Unfilled(r)
  PROVE  RecordOK(Filled(r)) /\ Holds(Filled(r)) = Holds(r)
<1>1. PICK s : s = Copied(r, "size", SizeBytes)
  OBVIOUS
<1>2. PICK m : m = Copied(s, "msg", ntohl(s.size))
  OBVIOUS
<1>3. /\ s \in Record /\ s.mode = "Reading" /\ s.sent = 0 /\ s.begun /\ Holds(s) = Holds(r)
      /\ \/ Len(s.size) < SizeBytes /\ s.msg = <<>> /\ s.buf = <<>>
         \/ Len(s.size) = SizeBytes /\ Len(s.msg) <= ntohl(s.size)
  BY <1>1, SizeCopied
<1>4. Filled(r) = IF Len(s.size) < SizeBytes THEN Cleared(s)
                  ELSE IF Len(m.msg) < ntohl(s.size) THEN Cleared(m)
                  ELSE [m EXCEPT !.mode = "Writing", !.sent = 0]
  BY <1>1, <1>2 DEF Filled
<1>5. CASE Len(s.size) < SizeBytes
  <2>1. s.msg = <<>> /\ s.buf = <<>>
    BY <1>3, <1>5
  <2>2. Unfilled(s)
    BY <1>5, <2>1 DEF Unfilled
  <2> QED BY <1>3, <1>4, <1>5, <2>1, <2>2, ClearedKeeps
<1>6. CASE ~ Len(s.size) < SizeBytes
  <2>1. Len(s.size) = SizeBytes /\ Len(s.msg) <= ntohl(s.size)
    BY <1>3, <1>6
  <2>2. /\ m \in Record /\ m.mode = "Reading" /\ m.sent = 0 /\ m.size = s.size
        /\ Len(m.msg) < ntohl(s.size) => m.buf = <<>>
        /\ Holds(m) = Holds(s) /\ m.begun
    BY <1>2, <1>3, <2>1, MsgCopied
  <2>3. CASE Len(m.msg) < ntohl(s.size)
    <3>1. Unfilled(m) /\ m.buf = <<>>
      BY <2>1, <2>2, <2>3 DEF Unfilled
    <3> QED BY <1>3, <1>4, <1>6, <2>2, <2>3, <3>1, ClearedKeeps
  <2>4. CASE ~ Len(m.msg) < ntohl(s.size)
    <3> DEFINE w == [m EXCEPT !.mode = "Writing", !.sent = 0]
    <3>1. Filled(r) = w
      BY <1>4, <1>6, <2>4
    <3>2. /\ w \in Record /\ w.mode = "Writing" /\ w.size = m.size /\ w.msg = m.msg
          /\ w.buf = m.buf /\ w.sent = 0 /\ w.begun = m.begun
      BY <2>2 DEF Record
    <3> HIDE DEF w
    <3>3. RecordOK(w)
      <4>1. Len(w.msg) \in Nat
        BY <3>2, LenProperties DEF Record
      <4>2. w.begun
        BY <2>2, <3>2
      <4> QED BY <2>1, <2>2, <3>2, <4>1, <4>2 DEF RecordOK, SizeBytes
    <3>4. Holds(w) = Holds(m)
      BY <2>2, <3>2 DEF Holds
    <3> QED BY <1>3, <2>2, <3>1, <3>3, <3>4
  <2> QED BY <2>3, <2>4
<1> QED BY <1>5, <1>6

------------------------------------------------------------------------------
(* The rest of the size, or else of the message, is first of what is held. *)
LEMMA ToSendFirst ==
  ASSUME NEW r, RecordOK(r), r.mode = "Writing"
  PROVE  /\ r.size \o r.msg \in Seq(Byte) /\ r.sent \in 0 .. Len(r.size \o r.msg)
         /\ Len(r.size \o r.msg) = SizeBytes + Len(r.msg)
         /\ ToSend(r) \in Seq(Byte)
         /\ r.sent + Len(ToSend(r)) <= SizeBytes + Len(r.msg)
         /\ \E y \in Seq(Byte) : /\ Drop(r.size \o r.msg, r.sent) = ToSend(r) \o y
                                 /\ ToSend(r) = <<>> => y = <<>>
<1>1. PICK s : s = r.size
  OBVIOUS
<1>2. PICK m : m = r.msg
  OBVIOUS
<1>3. PICK p : p = r.sent
  OBVIOUS
<1>4. PICK b : b = Len(m)
  OBVIOUS
<1>5. s \in Seq(Byte) /\ m \in Seq(Byte) /\ p \in Nat /\ Len(s) = 2 /\ p <= 2 + b /\ b \in Nat
  <2>1. r \in Record /\ Len(r.size) = SizeBytes /\ r.sent <= SizeBytes + Len(r.msg)
    BY DEF RecordOK
  <2> QED BY <1>1, <1>2, <1>3, <1>4, <2>1, LenProperties DEF Record, SizeBytes
<1>6. s \o m \in Seq(Byte) /\ Len(s \o m) = 2 + b
  <2>1. s \o m \in Seq(Byte) /\ Len(s \o m) = Len(s) + Len(m)
    BY <1>5, ConcatProperties
  <2> QED BY <1>4, <1>5, <2>1
<1>7. ToSend(r) = IF p < 2 THEN Drop(s, p) ELSE Drop(m, p - 2)
  BY <1>1, <1>2, <1>3 DEF ToSend, SizeBytes
<1>8. CASE p < 2
  <2>1. p \in 0 .. Len(s)
    BY <1>5, <1>8
  <2>2. Drop(s \o m, p) = Drop(s, p) \o m /\ Drop(s, p) \in Seq(Byte) /\ Len(Drop(s, p)) = 2 - p
    BY <1>5, <2>1, DropConcat, TakeDrop
  <2>3. Drop(s, p) # <<>>
    <3>1. 2 - p # 0
      BY <1>5, <1>8
    <3> QED BY <2>2, <3>1, EmptySeq
  <2>4. p + (2 - p) <= 2 + b /\ p \in 0 .. 2 + b
    BY <1>5
  <2> QED BY <1>1, <1>2, <1>3, <1>4, <1>5, <1>6, <1>7, <1>8, <2>2, <2>3, <2>4 DEF SizeBytes
<1>9. CASE ~ p < 2
  <2> DEFINE q == p - 2
  <2>1. q \in 0 .. Len(m) /\ p = Len(s) + q
    BY <1>4, <1>5, <1>9
  <2>2. Drop(s \o m, p) = Drop(m, q) /\ Drop(m, q) \in Seq(Byte) /\ Len(Drop(m, q)) = b - q
    <3>1. Drop(s \o m, Len(s) + q) = Drop(m, q)
      BY <1>5, <2>1, DropPast
    <3>2. Drop(m, q) \in Seq(Byte) /\ Len(Drop(m, q)) = Len(m) - q
      BY <1>5, <2>1, TakeDrop
    <3> HIDE DEF q
    <3> QED BY <1>4, <2>1, <3>1, <3>2
  <2>3. Drop(m, q) = Drop(m, q) \o <<>> /\ <<>> \in Seq(Byte)
    BY <2>2, ConcatEmptySeq, EmptySeq
  <2>4. p + (b - q) <= 2 + b /\ p \in 0 .. 2 + b
    BY <1>5
  <2> QED BY <1>1, <1>2, <1>3, <1>4, <1>5, <1>6, <1>7, <1>9, <2>2, <2>3, <2>4 DEF SizeBytes
<1> QED BY <1>8, <1>9

(* Folded where it is used: bytes b sent of record r leave the record k. *)
Gives(r, b, k) ==
  /\ b \in Seq(Byte) /\ RecordOK(k) /\ k.mode = "Writing"
  /\ Holds(r) = b \o Holds(k)

LEMMA PieceSent ==
  ASSUME NEW r, RecordOK(r), r.mode = "Writing", NEW n \in 0 .. Len(ToSend(r))
  PROVE  Gives(r, Take(ToSend(r), n), [r EXCEPT !.sent = @ + n])
<1> DEFINE k == [r EXCEPT !.sent = @ + n]
<1>1. PICK w : w = r.size \o r.msg
  OBVIOUS
<1>2. PICK x : x = ToSend(r)
  OBVIOUS
<1>3. PICK p : p = r.sent
  OBVIOUS
<1>4. PICK f : f = r.buf
  OBVIOUS
<1>5. PICK l : l = Len(r.msg)
  OBVIOUS
<1>6. PICK y \in Seq(Byte) : Drop(w, p) = x \o y
  BY <1>1, <1>2, <1>3, ToSendFirst
<1>7. /\ w \in Seq(Byte) /\ p \in 0 .. Len(w) /\ x \in Seq(Byte) /\ Len(w) = 2 + l
      /\ p + Len(x) <= 2 + l
  BY <1>1, <1>2, <1>3, <1>5, ToSendFirst DEF SizeBytes
<1>8. f \in Seq(Byte) /\ l \in Nat /\ Len(x) \in Nat /\ p \in Nat /\ n \in 0 .. Len(x)
  BY <1>2, <1>3, <1>4, <1>5, <1>7, LenProperties DEF RecordOK, Record
<1>9. n \in 0 .. Len(w) - p
  BY <1>7, <1>8
<1>10. PICK t : t = Take(x, n)
  OBVIOUS
<1>11. PICK d : d = Drop(x, n)
  OBVIOUS
<1>12. t \in Seq(Byte) /\ d \in Seq(Byte) /\ t \o d = x
  BY <1>7, <1>8, <1>10, <1>11, TakeDrop
<1>13. Drop(w, p + n) = d \o y
  <2>1. Drop(Drop(w, p), n) = Drop(w, p + n)
    BY <1>7, <1>9, DropDrop
  <2>2. Drop(x \o y, n) = d \o y
    BY <1>6, <1>7, <1>8, <1>11, DropConcat
  <2> QED BY <1>6, <2>1, <2>2
<1>14. k \in Record /\ k.size = r.size /\ k.msg = r.msg /\ k.buf = f /\ k.sent = p + n
       /\ k.mode = "Writing" /\ k.begun = r.begun
  <2>1. r \in Record
    BY DEF RecordOK
  <2>2. r.sent + n \in Nat
    BY <1>3, <1>8
  <2> QED BY <1>3, <1>4, <2>1, <2>2 DEF Record
<1> HIDE DEF k
<1>15. RecordOK(k)
  <2>1. k.sent <= SizeBytes + Len(k.msg)
    BY <1>5, <1>7, <1>8, <1>14 DEF SizeBytes
  <2>2. Len(k.size) = SizeBytes /\ (~ k.begun => k.buf = <<>>)
    BY <1>4, <1>14 DEF RecordOK
  <2> QED BY <1>14, <2>1, <2>2 DEF RecordOK
<1>16. Holds(r) = t \o Holds(k)
  <2>1. Holds(r) = (t \o d) \o y \o f /\ Holds(k) = d \o y \o f
    BY <1>1, <1>3, <1>4, <1>6, <1>12, <1>13, <1>14 DEF Holds
  <2>2. d \o y \in Seq(Byte)
    BY <1>6, <1>12, ConcatProperties
  <2>3. SameAssociated(t, d, y) /\ SameAssociated(t, d \o y, f)
    BY <1>6, <1>8, <1>12, <2>2, Reassociated
  <2> QED BY <2>1, <2>3 DEF SameAssociated
<1> QED BY <1>2, <1>10, <1>12, <1>14, <1>15, <1>16 DEF Gives, k

LEMMA EchoDoneKeeps ==
  ASSUME NEW r, RecordOK(r), r.mode = "Writing", ToSend(r) = <<>>
  PROVE  RecordOK(EchoDone(r)) /\ Holds(EchoDone(r)) = Holds(r)
<1> DEFINE k == EchoDone(r)
<1>1. r \in Record /\ r.buf \in Seq(Byte) /\ (~ r.begun => r.buf = <<>>)
  BY DEF RecordOK, Record
<1>2. /\ k \in Record /\ k.mode = "Reading" /\ k.size = <<>> /\ k.msg = <<>> /\ k.sent = 0
      /\ k.buf = r.buf /\ k.begun = r.begun
  BY <1>1, EmptySeq DEF EchoDone, Record
<1> HIDE DEF k
<1>3. RecordOK(k)
  BY <1>1, <1>2, EmptySeq DEF RecordOK, Unfilled, SizeBytes
<1>4. Drop(r.size \o r.msg, r.sent) = <<>>
  <2>1. PICK y \in Seq(Byte) : /\ Drop(r.size \o r.msg, r.sent) = ToSend(r) \o y
                               /\ y = <<>>
    BY ToSendFirst
  <2> QED BY <2>1, EmptySeq, ConcatEmptySeq
<1>5. Holds(k) = <<>> \o <<>> \o r.buf
  BY <1>2, HoldsAll
<1>6. <<>> \o <<>> = <<>>
  BY EmptySeq, ConcatEmptySeq
<1> QED BY <1>3, <1>4, <1>5, <1>6 DEF Holds, k

LEMMA BufferFilled ==
  ASSUME NEW r, RecordOK(r), r.mode = "Reading", ~ r.begun, NEW t \in Seq(Byte)
  PROVE  LET k == Filled([r EXCEPT !.buf = t, !.begun = TRUE])
         IN RecordOK(k) /\ Holds(k) = Holds(r) \o t
<1> DEFINE f == [r EXCEPT !.buf = t, !.begun = TRUE]
<1>1. r \in Record /\ r.sent = 0 /\ Unfilled(r) /\ r.buf = <<>>
  BY DEF RecordOK
<1>2. r.size \in Seq(Byte) /\ r.msg \in Seq(Byte)
  BY <1>1 DEF Record
<1>3. /\ f \in Record /\ f.mode = "Reading" /\ f.sent = 0 /\ f.begun /\ f.size = r.size
      /\ f.msg = r.msg /\ f.buf = t
  BY <1>1 DEF Record
<1> HIDE DEF f
<1>4. Unfilled(f)
  BY <1>1, <1>3 DEF Unfilled
<1>5. RecordOK(Filled(f)) /\ Holds(Filled(f)) = Holds(f)
  BY <1>3, <1>4, FilledKeeps
<1>6. Holds(f) = Holds(r) \o t
  <2>1. r.size \o r.msg \in Seq(Byte)
    BY <1>2, ConcatProperties
  <2>2. Holds(f) = r.size \o r.msg \o t /\ Holds(r) = r.size \o r.msg \o <<>>
    BY <1>1, <1>3, HoldsAll
  <2> QED BY <2>1, <2>2, ConcatEmptySeq
<1> QED BY <1>5, <1>6 DEF f

(* The second half of client_on_update changes a record without losing bytes. *)
LEMMA WritePartKeeps ==
  ASSUME NEW c \in Client, NEW r, RecordOK(r), NEW events, WritePart(c, r, events)
  PROVE  \E k : /\ RecordOK(k) /\ Holds(k) = Holds(r)
                /\ client' = [client EXCEPT ![c] = k]
                /\ in_send' = in_send \/ (in_send' = c /\ k.mode = "Writing")
<1>1. CASE r.mode = "Writing" /\ "OUT" \in events /\ ToSend(r) = <<>>
  BY <1>1, EchoDoneKeeps DEF WritePart
<1>2. CASE ~ (r.mode = "Writing" /\ "OUT" \in events /\ ToSend(r) = <<>>)
  BY <1>2 DEF WritePart
<1> QED BY <1>1, <1>2

------------------------------------------------------------------------------
RecordsInv ==
  /\ client \in [Client -> Record]
  /\ \A c \in Client : /\ RecordOK(client[c])
                       /\ conn[c] # "open" => client[c] = Fresh

(* The events of a batch are of open connections, and of each at most one. *)
BatchInv ==
  /\ epoll_events \subseteq Event /\ Cardinality(epoll_events) <= EVENTS_CNT
  /\ \A d, e \in epoll_events : d.of = e.of => d = e
  /\ \A e \in epoll_events : \A c \in Client :
       e.of = c => conn[c] = "open" /\ ("HUP" \in e.events => peer[c] = "left")

(* Who is in send has no other event in the batch. *)
SendInv ==
  /\ server \in {"starting", "running", "exited"}
  /\ in_send \in Client \cup {"none"}
  /\ \A c \in Client : in_send = c =>
       /\ client[c].mode = "Writing" /\ conn[c] = "open"
       /\ \A e \in epoll_events : e.of # c

Open == {c \in Client : conn[c] = "open"}
Served == {c \in Client : conn[c] \in {"open", "leaked"}}

CountInv ==
  /\ current_client_cnt \in Int
  /\ Cardinality(Open) <= current_client_cnt
  /\ current_client_cnt <= MaxCount + Cardinality(Served)

KeptInv == \A c \in Client : Kept(c, Holds(client[c]))

IInv == SocketsInv /\ RecordsInv /\ BatchInv /\ SendInv /\ CountInv /\ KeptInv

LEMMA Counted ==
  /\ IsFiniteSet(Open) /\ Cardinality(Open) \in Nat
  /\ IsFiniteSet(Served) /\ Cardinality(Served) \in Nat
<1>1. Open \in SUBSET Client /\ Served \in SUBSET Client /\ IsFiniteSet(Client)
  BY EpollAssumption DEF Open, Served
<1> QED BY <1>1, FS_Subset, FS_CardinalityType

LEMMA BatchFinite ==
  ASSUME BatchInv
  PROVE  IsFiniteSet(epoll_events)
<1> DEFINE S == epoll_events
<1> DEFINE T == Client \cup {"accept"}
<1> DEFINE f == [e \in S |-> e.of]
<1>1. f \in [S -> T]
  BY DEF BatchInv, Event
<1>2. \A d, e \in S : f[d] = f[e] => d = e
  BY DEF BatchInv
<1>3. f \in Injection(S, T)
  BY <1>1, <1>2 DEF Injection, IsInjective
<1>4. IsFiniteSet(T)
  BY EpollAssumption, FS_AddElement
<1> HIDE DEF S, T, f
<1>5. IsFiniteSet(S)
  BY <1>3, <1>4, FS_Injection
<1> QED BY <1>5 DEF S

LEMMA InitInv == Init => IInv /\ Echo!Init
<1> SUFFICES ASSUME Init PROVE IInv /\ Echo!Init
  OBVIOUS
<1> USE DEF Init, SocketsInit
<1>1. SocketsInv /\ Echo!Init
  BY EmptySeq DEF SocketsInv, SocketsTypeOK, Echo!Init
<1>2. RecordsInv
  BY FreshOK DEF RecordsInv, RecordOK
<1>3. BatchInv
  BY EpollAssumption, FS_EmptySet DEF BatchInv
<1>4. SendInv
  BY EpollAssumption DEF SendInv
<1>5. CountInv
  <2>1. Open = {} /\ MaxCount \in Nat
    BY EpollAssumption DEF Open
  <2> QED BY <2>1, Counted, FS_EmptySet DEF CountInv
<1>6. KeptInv
  BY DEF KeptInv, Kept
<1> QED BY <1>1, <1>2, <1>3, <1>4, <1>5, <1>6 DEF IInv

(* Events are taken out of the batch one at a time; those of the others stay
   events of open connections. *)
LEMMA BatchShrinks ==
  ASSUME BatchInv, epoll_events' \subseteq epoll_events,
         \A e \in epoll_events' : \A c \in Client : e.of = c => UNCHANGED <<conn[c], peer[c]>>
  PROVE  BatchInv'
<1>1. IsFiniteSet(epoll_events)
  BY BatchFinite
<1>2. Cardinality(epoll_events') <= Cardinality(epoll_events)
      /\ Cardinality(epoll_events) \in Nat /\ Cardinality(epoll_events') \in Nat
  BY <1>1, FS_Subset, FS_CardinalityType
<1>3. Cardinality(epoll_events') <= EVENTS_CNT
  BY <1>2, EpollAssumption DEF BatchInv
<1>4. epoll_events' \subseteq Event /\ \A d, e \in epoll_events' : d.of = e.of => d = e
  BY DEF BatchInv
<1>5. ASSUME NEW e \in epoll_events', NEW c \in Client, e.of = c
      PROVE  conn'[c] = "open" /\ ("HUP" \in e.events => peer'[c] = "left")
  <2>1. e \in epoll_events /\ conn'[c] = conn[c] /\ peer'[c] = peer[c]
    BY <1>5
  <2> QED BY <1>5, <2>1 DEF BatchInv
<1> QED BY <1>3, <1>4, <1>5 DEF BatchInv

LEMMA RecordsChange ==
  ASSUME RecordsInv, NEW c \in Client, NEW k, RecordOK(k), client' = [client EXCEPT ![c] = k],
         conn'[c] # "open" => k = Fresh,
         \A d \in Client \ {c} : conn'[d] = conn[d]
  PROVE  RecordsInv' /\ client'[c] = k /\ \A d \in Client \ {c} : client'[d] = client[d]
<1>1. k \in Record
  BY DEF RecordOK
<1>2. /\ client' \in [Client -> Record] /\ client'[c] = k
      /\ \A d \in Client \ {c} : client'[d] = client[d]
  BY <1>1 DEF RecordsInv
<1>3. ASSUME NEW d \in Client
      PROVE  RecordOK(client'[d]) /\ (conn'[d] # "open" => client'[d] = Fresh)
  <2>1. CASE d = c
    BY <1>2, <2>1
  <2>2. CASE d # c
    BY <1>2, <2>2 DEF RecordsInv
  <2> QED BY <2>1, <2>2
<1>4. \A d \in Client : RecordOK(client[d])' /\ (conn[d] # "open" => client[d] = Fresh)'
  BY <1>3 DEF RecordOK, Unfilled
<1> QED BY <1>2, <1>4 DEF RecordsInv

LEMMA KeptChanges ==
  ASSUME KeptInv, NEW c \in Client, (Kept(c, Holds(client[c])))',
         \A d \in Client \ {c} : UNCHANGED <<client[d], peer[d], expected[d], outbox[d], inbox[d]>>
  PROVE  KeptInv'
<1>1. ASSUME NEW d \in Client, d # c PROVE (Kept(d, Holds(client[d])))'
  <2>1. Kept(d, Holds(client[d])) /\ UNCHANGED <<client[d], peer[d], expected[d], outbox[d], inbox[d]>>
    BY <1>1 DEF KeptInv
  <2> QED BY <2>1 DEF Kept
<1> QED BY <1>1 DEF KeptInv

(* Steps that leave the sockets, the records and the count alone. *)
LEMMA QuietKeeps ==
  ASSUME IInv, UNCHANGED <<sockets, client>>, BatchInv', SendInv', CountInv'
  PROVE  IInv' /\ EchoStep
<1>1. SocketsInv' /\ EchoStep /\ UNCHANGED <<peer, conn, inbox, outbox, expected>>
  BY SameSockets DEF IInv
<1>2. RecordsInv'
  BY <1>1 DEF IInv, RecordsInv
<1>3. KeptInv'
  BY <1>1 DEF IInv, KeptInv, Kept
<1> QED BY <1>1, <1>2, <1>3 DEF IInv

LEMMA SameCount ==
  ASSUME CountInv, UNCHANGED <<conn, current_client_cnt>>
  PROVE  CountInv'
BY DEF CountInv, Open, Served

LEMMA StartServerKeeps ==
  ASSUME IInv, StartServer
  PROVE  IInv' /\ EchoStep
<1>1. UNCHANGED <<sockets, conn, peer, client, epoll_events, in_send, current_client_cnt>>
      /\ server' \in {"running", "exited"}
  BY DEF StartServer, sockets
<1>2. BatchInv' /\ SendInv'
  BY <1>1 DEF IInv, BatchInv, SendInv
<1> QED BY <1>1, <1>2, SameCount, QuietKeeps DEF IInv

LEMMA EpollWaitKeeps ==
  ASSUME IInv, EpollWait
  PROVE  IInv' /\ EchoStep
<1>1. /\ UNCHANGED <<sockets, conn, peer, client, in_send, current_client_cnt, server>>
      /\ in_send = "none"
      /\ epoll_events' \subseteq {e \in Event : Ready(e)}
      /\ Cardinality(epoll_events') <= EVENTS_CNT
      /\ \A d, e \in epoll_events' : d.of = e.of => d = e
  BY DEF EpollWait, sockets
<1>2. ASSUME NEW e \in epoll_events', NEW c \in Client, e.of = c
      PROVE  conn'[c] = "open" /\ ("HUP" \in e.events => peer'[c] = "left")
  <2>1. Ready(e) /\ c # "accept"
    BY <1>1, EpollAssumption
  <2> QED BY <1>1, <1>2, <2>1 DEF Ready
<1>3. BatchInv'
  BY <1>1, <1>2 DEF BatchInv
<1>4. SendInv'
  BY <1>1, EpollAssumption DEF IInv, SendInv
<1> QED BY <1>1, <1>3, <1>4, SameCount, QuietKeeps DEF IInv

LEMMA AcceptFailsKeeps ==
  ASSUME IInv, AcceptFails
  PROVE  IInv' /\ EchoStep
<1>1. /\ UNCHANGED <<sockets, conn, peer, client, in_send, server>> /\ in_send = "none"
      /\ epoll_events' \subseteq epoll_events
      /\ current_client_cnt' = current_client_cnt + 1 /\ current_client_cnt < MaxCount
  BY DEF AcceptFails, AcceptEvent, Handling, sockets
<1>2. BatchInv'
  BY <1>1, BatchShrinks DEF IInv
<1>3. SendInv'
  BY <1>1, EpollAssumption DEF IInv, SendInv
<1>4. CountInv'
  <2>1. Open' = Open /\ Served' = Served /\ MaxCount \in Nat
    BY <1>1, EpollAssumption DEF Open, Served
  <2> QED BY <1>1, <2>1, Counted DEF IInv, CountInv
<1> QED BY <1>1, <1>2, <1>3, <1>4, QuietKeeps

LEMMA AcceptSucceedsKeeps ==
  ASSUME IInv, NEW c \in Client, AcceptSucceeds(c)
  PROVE  IInv' /\ EchoStep
<1> USE DEF IInv
<1>1. /\ UNCHANGED <<in_send, server, peer, inbox, outbox, expected>> /\ in_send = "none"
      /\ epoll_events' \subseteq epoll_events
      /\ current_client_cnt' = current_client_cnt + 1
      /\ c \in Pending /\ conn[c] = "pending" /\ client' = [client EXCEPT ![c] = Fresh]
  BY DEF AcceptSucceeds, AcceptEvent, Handling, Accepted, Pending
<1>2. PICK as \in {"open", "leaked"} : Accepted(c, as)
  BY DEF AcceptSucceeds
<1>3. /\ SocketsInv' /\ EchoStep /\ conn'[c] = as
      /\ \A d \in Client \ {c} : conn'[d] = conn[d]
  BY <1>1, <1>2, AcceptedKeeps
<1>4. RecordsInv' /\ client'[c] = Fresh /\ \A d \in Client \ {c} : client'[d] = client[d]
  BY <1>1, <1>3, FreshOK, RecordsChange
<1>5. BatchInv'
  <2>1. \A e \in epoll_events' : e.of # c
    BY <1>1 DEF BatchInv
  <2> QED BY <1>1, <1>3, <2>1, BatchShrinks
<1>6. SendInv'
  BY <1>1, EpollAssumption DEF SendInv
<1>7. CountInv'
  <2>1. Served' = Served \cup {c} /\ c \notin Served
    BY <1>1, <1>3 DEF Served
  <2>2. Open' = IF as = "open" THEN Open \cup {c} ELSE Open
    BY <1>1, <1>3 DEF Open
  <2>3. Cardinality(Served') = Cardinality(Served) + 1
    BY <2>1, Counted, FS_AddElement
  <2>4. Cardinality(Open') <= Cardinality(Open) + 1
    <3>1. c \notin Open /\ IsFiniteSet(Open) /\ Cardinality(Open) \in Nat
      BY <1>1, Counted DEF Open
    <3>2. Cardinality(Open \cup {c}) = Cardinality(Open) + 1
      BY <3>1, FS_AddElement
    <3>3. Cardinality(Open') = Cardinality(Open) + 1 \/ Cardinality(Open') = Cardinality(Open)
      <4>1. CASE as = "open"
        BY <2>2, <3>2, <4>1
      <4>2. CASE as # "open"
        BY <2>2, <4>2
      <4> QED BY <4>1, <4>2
    <3> QED BY <3>1, <3>3
  <2>5. Cardinality(Open') \in Nat /\ MaxCount \in Nat
    BY <2>2, Counted, FS_AddElement, FS_CardinalityType, EpollAssumption
  <2> QED BY <1>1, <2>3, <2>4, <2>5, Counted DEF CountInv
<1>8. KeptInv'
  <2>1. client[c] = Fresh
    BY <1>1 DEF RecordsInv
  <2>2. (Kept(c, Holds(client[c])))'
    BY <1>1, <1>4, <2>1 DEF KeptInv, Kept
  <2> QED BY <1>1, <1>4, <2>2, KeptChanges
<1> QED BY <1>3, <1>4, <1>5, <1>6, <1>7, <1>8

(* An update that goes on with the connection; k is its record after it. *)
LEMMA RecordMoves ==
  ASSUME IInv, NEW c \in Client, conn[c] = "open",
         NEW k, RecordOK(k), client' = [client EXCEPT ![c] = k],
         UNCHANGED <<peer, conn, expected, current_client_cnt, server>>,
         epoll_events' \subseteq epoll_events,
         in_send' \in {c, "none"}, in_send \in {c, "none"},
         in_send' = c => k.mode = "Writing" /\ \A e \in epoll_events' : e.of # c,
         SocketsInv', Kept(c, Holds(k))',
         \A d \in Client \ {c} : outbox'[d] = outbox[d] /\ inbox'[d] = inbox[d]
  PROVE  IInv'
<1> USE DEF IInv
<1>1. RecordsInv' /\ client'[c] = k /\ \A d \in Client \ {c} : client'[d] = client[d]
  BY RecordsChange
<1>2. BatchInv'
  BY BatchShrinks
<1>3. SendInv'
  BY <1>1, EpollAssumption DEF SendInv
<1>4. CountInv'
  BY SameCount
<1>5. KeptInv'
  <2>1. (Kept(c, Holds(client[c])))'
    BY <1>1 DEF Kept
  <2> QED BY <1>1, <2>1, KeptChanges
<1> QED BY <1>1, <1>2, <1>3, <1>4, <1>5

(* The event that is handled is of an open connection and the only one of it. *)
LEMMA HandlingFacts ==
  ASSUME IInv, NEW c \in Client, NEW e \in epoll_events, e.of = c, Handling(e)
  PROVE  /\ conn[c] = "open" /\ in_send = "none"
         /\ "HUP" \in e.events => peer[c] = "left"
         /\ epoll_events' \subseteq epoll_events
         /\ \A d \in epoll_events' : d.of # c
BY DEF IInv, BatchInv, Handling

(* client_on_update from the end of its first half, which leaves the record f. *)
LEMMA WritePartStep ==
  ASSUME IInv, NEW c \in Client, conn[c] = "open", in_send = "none",
         epoll_events' \subseteq epoll_events, \A d \in epoll_events' : d.of # c,
         NEW f, RecordOK(f), NEW events, WritePart(c, f, events),
         UNCHANGED <<peer, conn, outbox, expected, current_client_cnt, server>>,
         SocketsInv', Kept(c, Holds(f))', \A d \in Client \ {c} : inbox'[d] = inbox[d]
  PROVE  IInv'
<1>1. PICK k : /\ RecordOK(k) /\ Holds(k) = Holds(f)
               /\ client' = [client EXCEPT ![c] = k]
               /\ in_send' = in_send \/ (in_send' = c /\ k.mode = "Writing")
  BY WritePartKeeps
<1>2. Kept(c, Holds(k))'
  BY <1>1 DEF Kept
<1>3. /\ in_send' \in {c, "none"} /\ c # "none"
      /\ in_send' = c => k.mode = "Writing" /\ \A e \in epoll_events' : e.of # c
  BY <1>1, EpollAssumption
<1> QED BY <1>1, <1>2, <1>3, RecordMoves

LEMMA UpdateKeeps ==
  ASSUME IInv, NEW c \in Client, Update(c)
  PROVE  IInv' /\ EchoStep
<1>1. PICK e \in epoll_events :
        /\ e.of = c /\ Handling(e)
        /\ \/ /\ Recvs(c, e.events)
              /\ \E n \in 1 .. BufSize :
                   /\ Received(c, n)
                   /\ WritePart(c, Filled([client[c] EXCEPT !.buf = Take(inbox[c], n),
                                                            !.begun = TRUE]), e.events)
           \/ /\ ~Recvs(c, e.events) /\ UNCHANGED sockets
              /\ WritePart(c, IF client[c].mode = "Reading" /\ "IN" \in e.events
                              THEN Filled(client[c]) ELSE client[c], e.events)
        /\ UNCHANGED <<current_client_cnt, server>>
  BY DEF Update
<1>2. /\ conn[c] = "open" /\ in_send = "none" /\ epoll_events' \subseteq epoll_events
      /\ \A d \in epoll_events' : d.of # c
  BY <1>1, HandlingFacts
<1>3. PICK r : r = client[c]
  OBVIOUS
<1>4. RecordOK(r)
  BY <1>3 DEF IInv, RecordsInv
<1>5. PICK h : h = Holds(r)
  OBVIOUS
<1>6. h \in Seq(Byte) /\ Kept(c, h)
  BY <1>3, <1>4, <1>5, HoldsType DEF IInv, KeptInv
<1>7. CASE Recvs(c, e.events)
  <2>1. PICK n : /\ Received(c, n)
                 /\ WritePart(c, Filled([client[c] EXCEPT !.buf = Take(inbox[c], n),
                                                          !.begun = TRUE]), e.events)
    BY <1>1, <1>7
  <2>2. PICK t : t = Take(inbox[c], n)
    OBVIOUS
  <2>3. PICK f : f = Filled([r EXCEPT !.buf = t, !.begun = TRUE])
    OBVIOUS
  <2>4. /\ SocketsInv' /\ EchoStep /\ t \in Seq(Byte) /\ Kept(c, h \o t)'
        /\ \A d \in Client \ {c} : inbox'[d] = inbox[d]
    BY <1>6, <2>1, <2>2, ReceivedKeeps DEF IInv
  <2>5. RecordOK(f) /\ Holds(f) = h \o t
    <3>1. r.mode = "Reading" /\ ~ r.begun
      BY <1>3, <1>7 DEF Recvs
    <3> QED BY <1>4, <1>5, <2>3, <2>4, <3>1, BufferFilled
  <2>6. WritePart(c, f, e.events)
    BY <1>3, <2>1, <2>2, <2>3
  <2>7. Kept(c, Holds(f))'
    BY <2>4, <2>5 DEF Kept
  <2>8. UNCHANGED <<peer, conn, outbox, expected, current_client_cnt, server>>
    BY <1>1, <2>1 DEF Received
  <2>9. IInv'
    BY <1>2, <2>4, <2>5, <2>6, <2>7, <2>8, WritePartStep
  <2> QED BY <2>4, <2>9
<1>8. CASE ~ Recvs(c, e.events)
  <2>1. PICK f : f = IF r.mode = "Reading" /\ "IN" \in e.events THEN Filled(r) ELSE r
    OBVIOUS
  <2>2. UNCHANGED sockets /\ WritePart(c, f, e.events)
    BY <1>1, <1>3, <1>8, <2>1
  <2>3. RecordOK(f) /\ Holds(f) = h
    <3>1. CASE r.mode = "Reading" /\ "IN" \in e.events
      <4>1. r \in Record /\ r.sent = 0 /\ Unfilled(r)
        BY <1>4, <3>1 DEF RecordOK
      <4>2. r.begun
        BY <1>3, <1>8, <3>1 DEF Recvs
      <4> QED BY <1>5, <2>1, <3>1, <4>1, <4>2, FilledKeeps
    <3>2. CASE ~ (r.mode = "Reading" /\ "IN" \in e.events)
      BY <1>4, <1>5, <2>1, <3>2
    <3> QED BY <3>1, <3>2
  <2>4. /\ SocketsInv' /\ EchoStep /\ UNCHANGED <<peer, conn, inbox, outbox, expected>>
        /\ Kept(c, h)'
    BY <1>6, <2>2, SameSockets DEF IInv
  <2>5. Kept(c, Holds(f))'
    BY <2>3, <2>4 DEF Kept
  <2>6. IInv'
    BY <1>1, <1>2, <2>2, <2>3, <2>4, <2>5, WritePartStep
  <2> QED BY <2>4, <2>6
<1> QED BY <1>7, <1>8

LEMMA SendPieceKeeps ==
  ASSUME IInv, NEW c \in Client, SendPiece(c)
  PROVE  IInv' /\ EchoStep
<1>1. PICK n : n = Least(Space(c), Len(ToSend(client[c])))
  OBVIOUS
<1>2. PICK r : r = client[c]
  OBVIOUS
<1>3. PICK b : b = Take(ToSend(r), n)
  OBVIOUS
<1>4. PICK k : k = [r EXCEPT !.sent = @ + n]
  OBVIOUS
<1>5. /\ in_send = c /\ Sent(c, b) /\ client' = [client EXCEPT ![c].sent = @ + n]
      /\ in_send' \in {c, "none"}
      /\ UNCHANGED <<epoll_events, current_client_cnt, server>>
  BY <1>1, <1>2, <1>3 DEF SendPiece
<1>6. /\ RecordOK(r) /\ r.mode = "Writing" /\ conn[c] = "open"
      /\ \A e \in epoll_events : e.of # c
  BY <1>2, <1>5 DEF IInv, RecordsInv, SendInv
<1>7. n \in 0 .. Len(ToSend(r))
  <2>1. ToSend(r) \in Seq(Byte) /\ Len(ToSend(r)) \in Nat
    BY <1>6, ToSendFirst, LenProperties
  <2>2. outbox[c] \in Seq(Byte) /\ Len(outbox[c]) \in Nat
    BY LenProperties DEF IInv, SocketsInv, SocketsTypeOK
  <2>3. Space(c) \in Int
    BY <2>2, SocketAssumption DEF Space
  <2>4. n \in Int /\ n <= Len(ToSend(r)) /\ n <= Space(c)
    BY <1>1, <1>2, <2>1, <2>3 DEF Least
  <2>5. n >= 0
    <3>1. 1 <= Space(c)
      BY <1>5, <2>3 DEF Sent
    <3> QED BY <1>1, <1>2, <2>1, <2>3, <3>1 DEF Least
  <2> QED BY <2>1, <2>4, <2>5
<1>8. Gives(r, b, k)
  BY <1>3, <1>4, <1>6, <1>7, PieceSent
<1>9. PICK h : h = Holds(k)
  OBVIOUS
<1>10. b \in Seq(Byte) /\ h \in Seq(Byte) /\ RecordOK(k) /\ k.mode = "Writing" /\ Kept(c, b \o h)
  <2>1. b \in Seq(Byte) /\ RecordOK(k) /\ k.mode = "Writing" /\ Holds(r) = b \o h
    BY <1>8, <1>9 DEF Gives
  <2> QED BY <1>2, <1>9, <2>1, HoldsType DEF IInv, KeptInv
<1>11. /\ SocketsInv' /\ EchoStep /\ Kept(c, h)'
       /\ \A d \in Client \ {c} : outbox'[d] = outbox[d]
       /\ UNCHANGED <<peer, conn, inbox, expected>>
  BY <1>5, <1>6, <1>10, SentKeeps DEF IInv
<1>12. client' = [client EXCEPT ![c] = k]
  BY <1>2, <1>4, <1>5
<1>13. Kept(c, Holds(k))'
  BY <1>9, <1>11 DEF Kept
<1>14. IInv'
  BY <1>5, <1>6, <1>10, <1>11, <1>12, <1>13, RecordMoves
<1> QED BY <1>11, <1>14

------------------------------------------------------------------------------
LEMMA CloseKeeps ==
  ASSUME IInv, NEW c \in Client, conn[c] = "open", peer[c] = "left", CloseClient(c),
         epoll_events' \subseteq epoll_events, \A e \in epoll_events' : e.of # c,
         in_send' = "none"
  PROVE  IInv' /\ EchoStep
<1> USE DEF IInv
<1>1. /\ Closed(c) /\ client' = [client EXCEPT ![c] = Fresh]
      /\ current_client_cnt' = current_client_cnt - 1 /\ server' = server
  BY DEF CloseClient
<1>2. /\ SocketsInv' /\ EchoStep /\ conn'[c] = "none"
      /\ \A h : Kept(c, h)'
      /\ \A d \in Client \ {c} : UNCHANGED <<peer[d], conn[d], inbox[d], outbox[d], expected[d]>>
  BY <1>1, ClosedKeeps
<1>3. RecordsInv' /\ client'[c] = Fresh /\ \A d \in Client \ {c} : client'[d] = client[d]
  BY <1>1, <1>2, FreshOK, RecordsChange
<1>4. BatchInv'
  BY <1>2, BatchShrinks
<1>5. SendInv'
  BY <1>1, EpollAssumption DEF SendInv
<1>6. CountInv'
  <2>1. Open' = Open \ {c} /\ c \in Open
    BY <1>2 DEF Open
  <2>2. Served' = Served \ {c} /\ c \in Served
    BY <1>2 DEF Served
  <2>3. Cardinality(Open') = Cardinality(Open) - 1
    BY <2>1, Counted, FS_RemoveElement
  <2>4. Cardinality(Served') = Cardinality(Served) - 1
    BY <2>2, Counted, FS_RemoveElement
  <2>5. MaxCount \in Nat
    BY EpollAssumption
  <2> QED BY <1>1, <2>3, <2>4, <2>5, Counted DEF CountInv
<1>7. KeptInv'
  <2>1. (Kept(c, Holds(client[c])))'
    <3>1. PICK h : h = Holds(client'[c])
      OBVIOUS
    <3>2. Kept(c, h)'
      BY <1>2
    <3> QED BY <3>1, <3>2 DEF Kept
  <2> QED BY <1>2, <1>3, <2>1, KeptChanges
<1> QED BY <1>2, <1>3, <1>4, <1>5, <1>6, <1>7

LEMMA UpdateFailsKeeps ==
  ASSUME IInv, NEW c \in Client, UpdateFails(c)
  PROVE  IInv' /\ EchoStep
<1>1. PICK e \in epoll_events :
        /\ e.of = c /\ Handling(e)
        /\ \/ "HUP" \in e.events
           \/ Recvs(c, e.events) /\ (EndOfStream(c) \/ Reset(c))
        /\ CloseClient(c) /\ UNCHANGED in_send
  BY DEF UpdateFails
<1>2. /\ conn[c] = "open" /\ in_send = "none" /\ epoll_events' \subseteq epoll_events
      /\ \A d \in epoll_events' : d.of # c
      /\ "HUP" \in e.events => peer[c] = "left"
  BY <1>1, HandlingFacts
<1>3. peer[c] = "left"
  BY <1>1, <1>2 DEF EndOfStream, Reset
<1> QED BY <1>1, <1>2, <1>3, CloseKeeps

LEMMA SendFailsKeeps ==
  ASSUME IInv, NEW c \in Client, SendFails(c)
  PROVE  IInv' /\ EchoStep
<1>1. /\ in_send = c /\ peer[c] = "left" /\ CloseClient(c) /\ in_send' = "none"
      /\ epoll_events' = epoll_events
  BY DEF SendFails, Reset
<1>2. conn[c] = "open" /\ \A e \in epoll_events : e.of # c
  BY <1>1 DEF IInv, SendInv
<1> QED BY <1>1, <1>2, CloseKeeps

LEMMA PeersStepKeeps ==
  ASSUME IInv, Peers, UNCHANGED local
  PROVE  IInv' /\ EchoStep
<1> USE DEF IInv
<1>1. UNCHANGED <<client, epoll_events, in_send, current_client_cnt, server>>
  BY DEF local
<1>2. PICK held : held = [c \in Client |-> Holds(client[c])]
  OBVIOUS
<1>3. held \in [Client -> Seq(Byte)]
  BY <1>2, HoldsType DEF RecordsInv
<1>4. \A c \in Client : Kept(c, held[c])
  BY <1>2 DEF KeptInv
<1>5. \A c \in Client : conn[c] = "none" => held[c] = <<>>
  BY <1>2, FreshOK DEF RecordsInv
<1>6. /\ SocketsInv' /\ EchoStep
      /\ \A c \in Client :
           /\ Kept(c, held[c])'
           /\ conn'[c] = conn[c] \/ (conn[c] = "none" /\ conn'[c] = "pending")
           /\ peer[c] = "left" => peer'[c] = "left"
  BY <1>3, <1>4, <1>5, PeersKeep
<1>7. RecordsInv'
  BY <1>1, <1>6 DEF RecordsInv
<1>8. BatchInv' /\ SendInv'
  BY <1>1, <1>6 DEF BatchInv, SendInv
<1>9. CountInv'
  <2>1. Open' = Open /\ Served' = Served
    BY <1>6 DEF Open, Served
  <2> QED BY <1>1, <2>1 DEF CountInv
<1>10. KeptInv'
  BY <1>1, <1>2, <1>6 DEF KeptInv, Kept
<1> QED BY <1>6, <1>7, <1>8, <1>9, <1>10

LEMMA NextKeeps ==
  ASSUME IInv, [Next]_vars
  PROVE  IInv' /\ EchoStep
<1>1. CASE UNCHANGED vars
  <2>1. UNCHANGED <<sockets, conn, peer, client, epoll_events, in_send, current_client_cnt, server>>
    BY <1>1 DEF vars, sockets, local
  <2>2. BatchInv' /\ SendInv'
    BY <2>1 DEF IInv, BatchInv, SendInv
  <2> QED BY <2>1, <2>2, SameCount, QuietKeeps DEF IInv
<1>2. CASE StartServer
  BY <1>2, StartServerKeeps
<1>3. CASE EpollWait
  BY <1>3, EpollWaitKeeps
<1>4. CASE AcceptFails
  BY <1>4, AcceptFailsKeeps
<1>5. ASSUME NEW c \in Client, Serve(c) PROVE IInv' /\ EchoStep
  BY <1>5, AcceptSucceedsKeeps, UpdateKeeps, UpdateFailsKeeps, SendPieceKeeps, SendFailsKeeps
     DEF Serve
<1>6. CASE Peers /\ UNCHANGED local
  BY <1>6, PeersStepKeeps
<1> QED BY <1>1, <1>2, <1>3, <1>4, <1>5, <1>6 DEF Next, RunServer, Over

LEMMA Inductive == Spec => []IInv
<1>1. Init => IInv
  BY InitInv
<1>2. IInv /\ [Next]_vars => IInv'
  BY NextKeeps
<1> QED BY <1>1, <1>2, PTL DEF Spec

------------------------------------------------------------------------------
(* The variables keep their types; the batch never exceeds EVENTS_CNT, and the
   count, which failing calls drive up, stays within its bound. *)
THEOREM TypeCorrect == Spec => []TypeOK
<1>1. IInv => TypeOK
  <2> SUFFICES ASSUME IInv PROVE TypeOK
    OBVIOUS
  <2>1. current_client_cnt \in 0 .. MaxCount + Cardinality(Client)
    <3>1. Served \in SUBSET Client /\ IsFiniteSet(Client) /\ MaxCount \in Nat
      BY EpollAssumption DEF Served
    <3>2. Cardinality(Served) <= Cardinality(Client) /\ Cardinality(Client) \in Nat
      BY <3>1, FS_Subset, FS_CardinalityType
    <3> QED BY <3>1, <3>2, Counted DEF IInv, CountInv
  <2> QED BY <2>1 DEF TypeOK, IInv, SocketsInv, RecordsInv, BatchInv, SendInv
<1> QED BY <1>1, Inductive, PTL

(* Wherever recv and send cut the stream and whatever happens between the events
   of a batch, what a client still expects is what is on its way to it, what its
   record and its read_buffer hold and what is on its way to the server. *)
THEOREM KeepsBytes == Spec => []BytesKept
<1>1. IInv => BytesKept
  <2> SUFFICES ASSUME IInv, NEW c \in Client, peer[c] = "in"
               PROVE  expected[c] = outbox[c] \o Drop(client[c].size \o client[c].msg, client[c].sent)
                                    \o client[c].buf \o inbox[c]
    BY DEF BytesKept
  <2>1. PICK o : o = outbox[c]
    OBVIOUS
  <2>2. PICK d : d = Drop(client[c].size \o client[c].msg, client[c].sent)
    OBVIOUS
  <2>3. PICK b : b = client[c].buf
    OBVIOUS
  <2>4. expected[c] = o \o (d \o b) \o inbox[c]
    BY <2>1, <2>2, <2>3 DEF IInv, KeptInv, Kept, Holds
  <2>5. o \in Seq(Byte) /\ d \in Seq(Byte) /\ b \in Seq(Byte)
    <3>1. RecordOK(client[c]) /\ b \in Seq(Byte) /\ o \in Seq(Byte)
      BY <2>1, <2>3 DEF IInv, SocketsInv, SocketsTypeOK, RecordsInv, Record
    <3>2. d \in Seq(Byte)
      BY <2>2, <3>1, DropType
    <3> QED BY <3>1, <3>2
  <2>6. SameAssociated(o, d, b)
    BY <2>5, Reassociated
  <2> QED BY <2>1, <2>2, <2>3, <2>4, <2>6 DEF SameAssociated
<1> QED BY <1>1, Inductive, PTL

(* assert(client->socket != 0) cannot fail: no event of the batch, and no send
   under way, is of a connection that an earlier event has closed. *)
THEOREM HandlesNoStaleEvent == Spec => []NoStaleEvent
<1>1. IInv => NoStaleEvent
  BY DEF IInv, BatchInv, SendInv, Event, NoStaleEvent
<1> QED BY <1>1, Inductive, PTL

(* current_client_cnt is never lower than the number of open connections. *)
THEOREM CountsOpen == Spec => []CountsClients
<1>1. IInv => CountsClients
  BY DEF IInv, CountInv, Open, CountsClients
<1> QED BY <1>1, Inductive, PTL

(* The server implements the abstract one: it sends a client only what it owes,
   in order, and closes a connection only after the client has left. *)
THEOREM EpollImplementsEcho == Spec => ImplementsEcho
<1>1. Init => Echo!Init
  BY InitInv
<1>2. IInv /\ [Next]_vars => [Echo!Next]_<<EchoHere, EchoGone, expected, outbox>>
  BY NextKeeps DEF EchoStep
<1> QED BY <1>1, <1>2, Inductive, PTL DEF Spec, ImplementsEcho, Echo!Spec, EchoHere, EchoGone
==============================================================================
