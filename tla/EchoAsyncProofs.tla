--------------------------- MODULE EchoAsyncProofs ---------------------------
(***************************************************************************)
(* The coroutine echo server keeps every byte in order and serves every    *)
(* connection once, for any set of clients, messages, sizes of buffers and *)
(* failing calls, and so implements EchoSpec.                              *)
(***************************************************************************)
EXTENDS EchoAsync, SocketsProofs, FiniteSetTheorems

(* The local variables of an echo_loop, and what read_n_bytes and write_n_bytes
   rely on: inside a read the buffer is used up and the size or the message is
   not complete; inside a write all of the message is there and not all is sent. *)
Local == [at : {"none", "start", "read_size", "read_msg", "write_size", "write_msg"},
          size : Seq(Byte), msg : Seq(Byte), sent : Nat, buf : Seq(Byte)]

Incomplete(l) ==
  /\ l.at \in {"read_size", "read_msg"}
  /\ l.at = "read_size" => Len(l.size) < SizeBytes
  /\ l.at = "read_msg" => Len(l.size) = SizeBytes /\ Len(l.msg) < ntohl(l.size)

LoopOK(l) ==
  /\ l \in Local
  /\ l.at \in {"none", "start"} => l.size = <<>> /\ l.buf = <<>>
  /\ l.at \in {"read_size", "read_msg"} => Incomplete(l) /\ l.buf = <<>>
  /\ l.at = "write_size" => Len(l.size) = SizeBytes /\ l.sent < SizeBytes
  /\ l.at = "write_msg" => l.sent < Len(l.msg)

(* What an echo_loop holds of its client's bytes, in order. *)
Holds(l) == Held(l) \o l.buf

LEMMA SizeReadKeeps ==
  ASSUME NEW l \in Local, l.at = "read_size", Len(l.size) < SizeBytes
  PROVE  LET k == SizeRead(l)
         IN /\ k \in Local
            /\ \/ k.at = "read_size" /\ Len(k.size) < SizeBytes /\ k.buf = <<>>
               \/ k.at = "read_msg" /\ Len(k.size) = SizeBytes /\ k.msg = <<>>
            /\ Holds(k) = Holds(l)
<1> DEFINE amt == Least(SizeBytes - Len(l.size), Len(l.buf))
<1> DEFINE s == l.size \o Take(l.buf, amt)
<1> DEFINE d == Drop(l.buf, amt)
<1>1. l.size \in Seq(Byte) /\ l.buf \in Seq(Byte) /\ SizeBytes \in Nat /\ Len(l.size) \in Nat
  BY LenProperties DEF Local, SizeBytes
<1> DEFINE k == [l EXCEPT !.size = s, !.buf = d]
<1>3. Copied(l, "size", SizeBytes) = k
  BY DEF Copied
<1>8. Copies(l.size, l.buf, SizeBytes, s, d)
  <2>1. Len(l.size) <= SizeBytes
    BY <1>1
  <2> QED BY <1>1, <2>1, CopiedFacts
<1> HIDE DEF amt, s, d
<1>2. /\ s \in Seq(Byte) /\ d \in Seq(Byte)
      /\ Len(s) < SizeBytes => d = <<>>
      /\ ~ Len(s) < SizeBytes => Len(s) = SizeBytes
  BY <1>8 DEF Copies
<1>4. k \in Local /\ k.size = s /\ k.buf = d /\ k.at = "read_size"
  BY <1>2 DEF Local
<1>5. Holds(l) = s \o d
  BY <1>8 DEF Copies, Holds, Held
<1>6. CASE Len(s) < SizeBytes
  <2>1. SizeRead(l) = k
    BY <1>3, <1>4, <1>6 DEF SizeRead
  <2> QED BY <1>2, <1>4, <1>5, <1>6, <2>1 DEF Holds, Held
<1>7. CASE ~ Len(s) < SizeBytes
  <2> DEFINE j == [k EXCEPT !.at = "read_msg", !.msg = <<>>]
  <2>1. SizeRead(l) = j
    BY <1>3, <1>4, <1>7 DEF SizeRead
  <2>2. /\ j \in Local /\ j.size = s /\ j.buf = d /\ j.at = "read_msg" /\ j.msg = <<>>
    BY <1>2, <1>4, EmptySeq DEF Local
  <2>3. Holds(j) = s \o <<>> \o d
    BY <2>2 DEF Holds, Held
  <2>4. s \o <<>> = s
    BY <1>2, ConcatEmptySeq
  <2>5. Len(s) = SizeBytes
    BY <1>2, <1>7
  <2> QED BY <1>5, <2>1, <2>2, <2>3, <2>4, <2>5
<1> QED BY <1>6, <1>7

LEMMA MsgReadKeeps ==
  ASSUME NEW l \in Local, l.at = "read_msg", Len(l.size) = SizeBytes,
         Len(l.msg) <= ntohl(l.size)
  PROVE  LoopOK(MsgRead(l)) /\ MsgRead(l).at \in {"read_msg", "write_size"}
         /\ Holds(MsgRead(l)) = Holds(l)
<1> DEFINE n == ntohl(l.size)
<1> DEFINE amt == Least(n - Len(l.msg), Len(l.buf))
<1> DEFINE m == l.msg \o Take(l.buf, amt)
<1> DEFINE d == Drop(l.buf, amt)
<1>1. /\ l.size \in Seq(Byte) /\ l.msg \in Seq(Byte) /\ l.buf \in Seq(Byte)
      /\ n \in Nat /\ Len(l.msg) \in Nat
  BY SizeIsNat, LenProperties DEF Local
<1> DEFINE k == [l EXCEPT !.msg = m, !.buf = d]
<1>3. Copied(l, "msg", n) = k
  BY DEF Copied
<1>8. Copies(l.msg, l.buf, n, m, d)
  BY <1>1, CopiedFacts
<1> HIDE DEF n, amt, m, d
<1>2. /\ m \in Seq(Byte) /\ d \in Seq(Byte)
      /\ Len(m) < n => d = <<>>
  BY <1>8 DEF Copies
<1>4. k \in Local /\ k.size = l.size /\ k.msg = m /\ k.buf = d /\ k.at = "read_msg"
  BY <1>2 DEF Local
<1>5. Holds(l) = l.size \o m \o d
  <2>1. SameAssociated(l.size, l.msg, l.buf) /\ SameAssociated(l.size, m, d)
    BY <1>1, <1>2, Reassociated
  <2> QED BY <1>8, <2>1 DEF Copies, SameAssociated, Holds, Held
<1>6. CASE Len(m) < n
  <2>1. MsgRead(l) = k
    BY <1>3, <1>4, <1>6 DEF MsgRead, n
  <2>2. Holds(k) = l.size \o m \o d
    BY <1>4 DEF Holds, Held
  <2>3. LoopOK(k)
    BY <1>2, <1>4, <1>6 DEF LoopOK, Incomplete, n
  <2> QED BY <1>4, <1>5, <2>1, <2>2, <2>3
<1>7. CASE ~ Len(m) < n
  <2> DEFINE j == [k EXCEPT !.at = "write_size", !.sent = 0]
  <2>1. MsgRead(l) = j
    BY <1>3, <1>4, <1>7 DEF MsgRead, n
  <2>2. /\ j \in Local /\ j.size = l.size /\ j.msg = m /\ j.buf = d /\ j.at = "write_size"
        /\ j.sent = 0
    BY <1>4 DEF Local
  <2>3. Holds(j) = Drop(l.size, 0) \o m \o d
    BY <2>2 DEF Holds, Held, ToWrite
  <2>4. Drop(l.size, 0) = l.size
    BY <1>1, DropEnds
  <2>5. LoopOK(j)
    <3> HIDE DEF j
    <3> QED BY <2>2 DEF LoopOK, SizeBytes
  <2> QED BY <1>5, <2>1, <2>2, <2>3, <2>4, <2>5
<1> QED BY <1>6, <1>7

LEMMA ReadingKeeps ==
  ASSUME NEW l \in Local, Incomplete(l)
  PROVE  LoopOK(Reading(l)) /\ Reading(l).at \notin {"none", "start"}
         /\ Holds(Reading(l)) = Holds(l)
<1>1. CASE l.at = "read_size"
  <2>1. Len(l.size) < SizeBytes
    BY <1>1 DEF Incomplete
  <2> DEFINE k == SizeRead(l)
  <2>2. /\ k \in Local
        /\ \/ k.at = "read_size" /\ Len(k.size) < SizeBytes /\ k.buf = <<>>
           \/ k.at = "read_msg" /\ Len(k.size) = SizeBytes /\ k.msg = <<>>
        /\ Holds(k) = Holds(l)
    BY <1>1, <2>1, SizeReadKeeps
  <2>3. Reading(l) = IF k.at = "read_msg" THEN MsgRead(k) ELSE k
    BY <1>1 DEF Reading
  <2> HIDE DEF k
  <2>4. CASE k.at = "read_size"
    BY <2>2, <2>3, <2>4 DEF LoopOK, Incomplete
  <2>5. CASE k.at = "read_msg"
    <3>1. k.size \in Seq(Byte) /\ Len(k.size) = SizeBytes /\ k.msg = <<>>
      BY <2>2, <2>5 DEF Local
    <3>2. ntohl(k.size) \in Nat /\ Len(k.msg) = 0
      BY <3>1, SizeIsNat, EmptySeq
    <3>3. Len(k.msg) <= ntohl(k.size)
      BY <3>2
    <3> QED BY <2>2, <2>3, <2>5, <3>1, <3>3, MsgReadKeeps
  <2> QED BY <2>2, <2>4, <2>5
<1>2. CASE l.at = "read_msg"
  <2>1. Reading(l) = MsgRead(l)
    BY <1>2 DEF Reading
  <2>2. l.msg \in Seq(Byte) /\ l.size \in Seq(Byte) /\ Len(l.msg) \in Nat
    BY LenProperties DEF Local
  <2>4. Len(l.size) = SizeBytes /\ Len(l.msg) < ntohl(l.size)
    BY <1>2 DEF Incomplete
  <2>5. ntohl(l.size) \in Nat
    BY <2>2, <2>4, SizeIsNat
  <2>3. Len(l.size) = SizeBytes /\ Len(l.msg) <= ntohl(l.size)
    BY <2>2, <2>4, <2>5
  <2> QED BY <1>2, <2>1, <2>3, MsgReadKeeps
<1> QED BY <1>1, <1>2 DEF Incomplete

LEMMA HoldsType ==
  ASSUME NEW l, LoopOK(l)
  PROVE  Held(l) \in Seq(Byte) /\ Holds(l) \in Seq(Byte)
<1>1. l \in Local
  BY DEF LoopOK
<1>2. l.size \in Seq(Byte) /\ l.msg \in Seq(Byte) /\ l.buf \in Seq(Byte) /\ l.sent \in Nat
  BY <1>1 DEF Local
<1>3. l.at \in {"write_size", "write_msg"} => ToWrite(l) \in Seq(Byte)
  <2>1. CASE l.at = "write_size"
    <3>3. Len(l.size) = SizeBytes /\ l.sent < SizeBytes
      BY <2>1 DEF LoopOK
    <3>1. l.sent \in 0 .. Len(l.size)
      BY <1>2, <3>3 DEF SizeBytes
    <3> QED BY <1>2, <2>1, <3>1, TakeDrop DEF ToWrite
  <2>2. CASE l.at = "write_msg"
    <3>1. l.sent < Len(l.msg)
      BY <2>2 DEF LoopOK
    <3>2. Len(l.msg) \in Nat
      BY <1>2, LenProperties
    <3>3. l.sent \in 0 .. Len(l.msg)
      BY <1>2, <3>1, <3>2
    <3> QED BY <1>2, <2>2, <3>3, TakeDrop DEF ToWrite
  <2> QED BY <2>1, <2>2
<1>4. Held(l) \in Seq(Byte)
  <2>1. l.size \o l.msg \in Seq(Byte) /\ <<>> \in Seq(Byte)
    BY <1>2, ConcatProperties, EmptySeq
  <2>2. ToWrite(l) \in Seq(Byte) => ToWrite(l) \o l.msg \in Seq(Byte)
    BY <1>2, ConcatProperties
  <2> QED BY <1>1, <1>2, <1>3, <2>1, <2>2 DEF Held, Local
<1> QED BY <1>2, <1>4, ConcatProperties DEF Holds

(* What recv brings goes behind what echo_loop holds. *)
LEMMA BufferFilled ==
  ASSUME NEW l, LoopOK(l), l.at \in {"read_size", "read_msg"}, NEW t \in Seq(Byte),
         NEW k, k = Reading([l EXCEPT !.buf = t])
  PROVE  LoopOK(k) /\ k.at \notin {"none", "start"} /\ Holds(k) = Holds(l) \o t
<1> DEFINE r == [l EXCEPT !.buf = t]
<1>1. l \in Local /\ Incomplete(l) /\ l.buf = <<>>
  BY DEF LoopOK
<1>2. r \in Local /\ r.at = l.at /\ r.size = l.size /\ r.msg = l.msg /\ r.buf = t
  BY <1>1 DEF Local
<1>3. k = Reading(r)
  OBVIOUS
<1> HIDE DEF r
<1>4. Incomplete(r)
  BY <1>1, <1>2 DEF Incomplete
<1>5. LoopOK(k) /\ k.at \notin {"none", "start"} /\ Holds(k) = Holds(r)
  BY <1>2, <1>3, <1>4, ReadingKeeps
<1>6. Holds(r) = Held(l) \o t
  BY <1>1, <1>2 DEF Holds, Held, Incomplete
<1>7. Holds(l) = Held(l)
  <2>1. Held(l) \o <<>> = Held(l)
    BY HoldsType, ConcatEmptySeq
  <2> QED BY <1>1, <2>1 DEF Holds
<1> QED BY <1>5, <1>6, <1>7

LEMMA NextRoundKeeps ==
  ASSUME NEW l, LoopOK(l)
  PROVE  /\ LoopOK(NextRound(l)) /\ NextRound(l).at \notin {"none", "start"}
         /\ Holds(NextRound(l)) = l.buf
<1> DEFINE r == [l EXCEPT !.at = "read_size", !.size = <<>>]
<1>1. l \in Local
  BY DEF LoopOK
<1>2. r \in Local /\ r.at = "read_size" /\ r.size = <<>> /\ r.buf = l.buf /\ l.buf \in Seq(Byte)
  BY <1>1, EmptySeq DEF Local
<1>3. NextRound(l) = Reading(r)
  BY DEF NextRound
<1> HIDE DEF r
<1>4. Len(r.size) = 0
  BY <1>2, EmptySeq
<1>5. Incomplete(r)
  BY <1>2, <1>4 DEF Incomplete, SizeBytes
<1>6. Holds(r) = l.buf
  <2>1. <<>> \o l.buf = l.buf
    BY <1>2, ConcatEmptySeq
  <2> QED BY <1>2, <2>1 DEF Holds, Held
<1> QED BY <1>2, <1>3, <1>5, <1>6, ReadingKeeps

(* What send has taken is the front of what echo_loop holds. *)
Gives(l, b, k) == /\ b \in Seq(Byte) /\ LoopOK(k) /\ k.at \notin {"none", "start"}
                  /\ Holds(l) = b \o Holds(k)

LEMMA WrittenKeeps ==
  ASSUME NEW l, LoopOK(l), l.at \in {"write_size", "write_msg"},
         NEW n, n \in 1 .. Len(ToWrite(l)), NEW b, b = Take(ToWrite(l), n),
         NEW k, k = Written(l, n)
  PROVE  Gives(l, b, k)
<1> USE DEF Gives
<1> DEFINE part == IF l.at = "write_size" THEN l.size ELSE l.msg
<1> DEFINE w == ToWrite(l)
<1>1. /\ l \in Local /\ l.size \in Seq(Byte) /\ l.msg \in Seq(Byte) /\ l.buf \in Seq(Byte)
      /\ l.sent \in Nat /\ part \in Seq(Byte) /\ w = Drop(part, l.sent)
  BY DEF LoopOK, Local, ToWrite
<1>2. l.sent \in 0 .. Len(part)
  <2>1. CASE l.at = "write_size"
    <3>1. part = l.size /\ Len(l.size) = SizeBytes /\ l.sent < SizeBytes
      BY <2>1 DEF LoopOK
    <3> HIDE DEF part
    <3> QED BY <1>1, <3>1 DEF SizeBytes
  <2>2. CASE l.at = "write_msg"
    <3>1. part = l.msg /\ l.sent < Len(l.msg)
      BY <2>2 DEF LoopOK
    <3>2. Len(l.msg) \in Nat
      BY <1>1, LenProperties
    <3> HIDE DEF part
    <3> QED BY <1>1, <3>1, <3>2
  <2> QED BY <2>1, <2>2
<1>3. Holds(l) = IF l.at = "write_size" THEN w \o l.msg \o l.buf ELSE w \o l.buf
  BY DEF Holds, Held
<1>11. n \in 1 .. Len(w) /\ b = Take(w, n)
  OBVIOUS
<1>12. k = IF n < Len(w) THEN [l EXCEPT !.sent = @ + n]
           ELSE IF l.at = "write_size" /\ l.msg # <<>>
           THEN [l EXCEPT !.at = "write_msg", !.sent = 0] ELSE NextRound(l)
  BY DEF Written
<1>13. part = IF l.at = "write_size" THEN l.size ELSE l.msg
  OBVIOUS
<1> HIDE DEF w, part
<1>4. w \in Seq(Byte) /\ Len(w) = Len(part) - l.sent /\ Len(part) \in Nat
  BY <1>1, <1>2, TakeDrop, LenProperties
<1> DEFINE rest == Drop(w, n)
<1>5. b \in Seq(Byte) /\ rest \in Seq(Byte) /\ b \o rest = w
  <2>1. n \in 0 .. Len(w)
    BY <1>4, <1>11
  <2>2. /\ Take(w, n) \in Seq(Byte) /\ Drop(w, n) \in Seq(Byte)
        /\ Take(w, n) \o Drop(w, n) = w
    BY <1>4, <2>1, TakeDrop
  <2> QED BY <1>11, <2>2
<1>6. rest = Drop(part, l.sent + n)
  <2>1. n \in 0 .. Len(part) - l.sent
    BY <1>4, <1>11
  <2> QED BY <1>1, <1>2, <2>1, DropDrop
<1>7. ~ n < Len(w) => n = Len(w) /\ b = w
  <2>1. ~ n < Len(w) => n = Len(w)
    BY <1>4, <1>11
  <2>2. Take(w, Len(w)) = w
    BY <1>4, SubSeqFull DEF Take
  <2> QED BY <1>11, <2>1, <2>2
<1> HIDE DEF rest
<1>8. CASE n < Len(w)
  <2>1. k = [l EXCEPT !.sent = @ + n]
    BY <1>8, <1>12
  <2>2. /\ k \in Local /\ k.at = l.at /\ k.size = l.size /\ k.msg = l.msg /\ k.buf = l.buf
        /\ k.sent = l.sent + n
    <3>1. l.sent + n \in Nat
      BY <1>1, <1>4, <1>11
    <3> QED BY <1>1, <2>1, <3>1 DEF Local
  <2>3. ToWrite(k) = rest
    BY <1>6, <1>13, <2>2 DEF ToWrite
  <2>4. l.sent + n < Len(part)
    BY <1>1, <1>4, <1>8, <1>11
  <2>5. LoopOK(k)
    BY <1>13, <2>2, <2>4 DEF LoopOK
  <2>6. Holds(k) = IF l.at = "write_size" THEN rest \o l.msg \o l.buf ELSE rest \o l.buf
    BY <2>2, <2>3 DEF Holds, Held
  <2>7. Holds(l) = b \o Holds(k)
    <3>1. CASE l.at = "write_size"
      <4>1. rest \o l.msg \in Seq(Byte)
        BY <1>1, <1>5, ConcatProperties
      <4>2. SameAssociated(b, rest, l.msg) /\ SameAssociated(b, rest \o l.msg, l.buf)
        BY <1>1, <1>5, <4>1, Reassociated
      <4> QED BY <1>3, <1>5, <2>6, <3>1, <4>2 DEF SameAssociated
    <3>2. CASE l.at # "write_size"
      <4>1. SameAssociated(b, rest, l.buf)
        BY <1>1, <1>5, Reassociated
      <4> QED BY <1>3, <1>5, <2>6, <3>2, <4>1 DEF SameAssociated
    <3> QED BY <3>1, <3>2
  <2> QED BY <1>5, <2>2, <2>5, <2>7
<1>9. CASE ~ n < Len(w) /\ l.at = "write_size" /\ l.msg # <<>>
  <2>1. k = [l EXCEPT !.at = "write_msg", !.sent = 0]
    BY <1>9, <1>12
  <2>2. /\ k \in Local /\ k.at = "write_msg" /\ k.msg = l.msg /\ k.buf = l.buf
        /\ k.sent = 0
    <3>1. l \in Local
      BY <1>1
    <3> DEFINE j == [l EXCEPT !.at = "write_msg", !.sent = 0]
    <3>2. j \in Local
      BY <3>1 DEF Local
    <3>3. j.at = "write_msg" /\ j.msg = l.msg /\ j.buf = l.buf /\ j.sent = 0
      BY <3>1 DEF Local
    <3> QED BY <2>1, <3>2, <3>3
  <2>3. Holds(k) = Drop(l.msg, 0) \o l.buf /\ Drop(l.msg, 0) = l.msg
    BY <1>1, <2>2, DropEnds DEF Holds, Held, ToWrite
  <2>4. 0 < Len(l.msg)
    BY <1>1, <1>9, EmptySeq
  <2>5. LoopOK(k)
    BY <2>2, <2>4 DEF LoopOK
  <2>6. SameAssociated(w, l.msg, l.buf)
    BY <1>1, <1>4, Reassociated
  <2>7. Holds(l) = b \o Holds(k)
    BY <1>3, <1>7, <1>9, <2>3, <2>6 DEF SameAssociated
  <2> QED BY <1>5, <2>2, <2>5, <2>7
<1>10. CASE ~ n < Len(w) /\ ~ (l.at = "write_size" /\ l.msg # <<>>)
  <2>1. k = NextRound(l)
    BY <1>10, <1>12
  <2>2. Holds(l) = w \o l.buf
    <3>1. w \o <<>> = w
      BY <1>4, ConcatEmptySeq
    <3> QED BY <1>3, <1>10, <3>1
  <2> QED BY <1>5, <1>7, <1>10, <2>1, <2>2, NextRoundKeeps
<1> QED BY <1>8, <1>9, <1>10

------------------------------------------------------------------------------
Coroutine == Client \cup {"server_stats", "accept_loop"}

(* Who is in the queue: accept_loop once the server runs, and exactly the
   echo_loops of open connections, each once. *)
QueueInv ==
  /\ queue \in Seq(Coroutine) /\ IsInjective(queue)
  /\ server \in {"starting", "running", "exited", "killed"}
  /\ server = "starting" => queue = <<>>
  /\ server \in {"running", "killed"} => "accept_loop" \in Range(queue)
  /\ \A c \in Client : c \in Range(queue) <=> conn[c] = "open"

LoopsInv ==
  /\ loop \in [Client -> Local]
  /\ \A c \in Client : LoopOK(loop[c]) /\ (loop[c].at = "none" <=> conn[c] # "open")

Started == {c \in Client : loop[c].at \notin {"none", "start"}}

CountInv == IsFiniteSet(Started) /\ current_client_cnt = Cardinality(Started)

KeptInv == \A c \in Client : Kept(c, Holds(loop[c]))

IInv == SocketsInv /\ QueueInv /\ LoopsInv /\ CountInv /\ KeptInv

LEMMA InitInv == Init => IInv /\ Echo!Init
<1> SUFFICES ASSUME Init PROVE IInv /\ Echo!Init
  OBVIOUS
<1> USE DEF Init, SocketsInit
<1>1. SocketsInv /\ Echo!Init
  BY EmptySeq DEF SocketsInv, SocketsTypeOK, Echo!Init
<1>2. QueueInv
  BY EmptySeq DEF QueueInv, IsInjective, Range
<1>3. Fresh \in Local
  BY EmptySeq DEF Fresh, Local
<1>4. LoopOK(Fresh)
  BY <1>3 DEF LoopOK, Fresh
<1>5. LoopsInv
  BY <1>3, <1>4 DEF LoopsInv, Fresh
<1>6. CountInv
  <2>1. Started = {}
    BY DEF Started, Fresh
  <2> QED BY <2>1, FS_EmptySet DEF CountInv
<1>7. KeptInv
  BY DEF KeptInv, Kept
<1> QED BY <1>1, <1>2, <1>5, <1>6, <1>7 DEF IInv

(* What runs is at the front of the queue. *)
LEMMA RunningFacts ==
  ASSUME IInv, NEW co, Runs(co)
  PROVE  /\ queue # <<>> /\ co \in Range(queue) /\ co = Head(queue)
         /\ co \in Client => conn[co] = "open" /\ peer[co] # "out"
<1>1. "accept_loop" \in Range(queue) /\ queue \in Seq(Coroutine)
  BY DEF IInv, QueueInv, Runs
<1>2. queue # <<>>
  BY <1>1, EmptySeq DEF Range
<1>3. co \in Range(queue)
  BY <1>1, <1>2, NonEmpty DEF Runs
<1>4. co \in Client => conn[co] = "open"
  BY <1>3 DEF IInv, QueueInv
<1> QED BY <1>2, <1>3, <1>4 DEF Runs, IInv, SocketsInv

(* Steps that change neither the loops nor what is under way. *)
LEMMA QuietKeeps ==
  ASSUME IInv, UNCHANGED <<sockets, loop, current_client_cnt>>, QueueInv'
  PROVE  IInv' /\ EchoStep
<1>1. SocketsInv' /\ EchoStep /\ UNCHANGED <<peer, conn, inbox, outbox, expected>>
  BY SameSockets DEF IInv
<1>2. LoopsInv' /\ CountInv'
  BY <1>1 DEF IInv, LoopsInv, CountInv, Started
<1>3. KeptInv'
  BY <1>1 DEF IInv, KeptInv, Kept
<1> QED BY <1>1, <1>2, <1>3 DEF IInv

LEMMA SkipKeeps ==
  ASSUME IInv, NEW co, Runs(co), queue' = Skipped, UNCHANGED <<sockets, loop, current_client_cnt, server>>
  PROVE  IInv' /\ EchoStep
<1>1. queue # <<>> /\ queue \in Seq(Coroutine) /\ IsInjective(queue)
  BY RunningFacts DEF IInv, QueueInv
<1>2. /\ queue' \in Seq(Coroutine) /\ IsInjective(queue') /\ Range(queue') = Range(queue)
      /\ queue' # <<>>
  BY <1>1, RotateDistinct DEF Skipped
<1>3. server = "running" /\ conn' = conn /\ server' = server
  BY DEF Runs, sockets
<1>4. QueueInv'
  BY <1>2, <1>3 DEF IInv, QueueInv
<1> QED BY <1>4, QuietKeeps

LEMMA AsyncMainKeeps ==
  ASSUME IInv, AsyncMain
  PROVE  IInv' /\ EchoStep
<1>1. QueueInv'
  <2>1. queue = <<>> /\ conn' = conn /\ \A c \in Client : conn[c] # "open"
    <3>1. queue = <<>>
      BY DEF IInv, QueueInv, AsyncMain
    <3>2. Range(queue) = {}
      BY <3>1 DEF Range
    <3> QED BY <3>1, <3>2 DEF IInv, QueueInv, AsyncMain, sockets
  <2>2. CASE server' = "exited" /\ queue' = queue
    BY <2>1, <2>2 DEF IInv, QueueInv
  <2>3. CASE server' = "running" /\ queue' = <<"server_stats", "accept_loop">>
    <3> DEFINE q == <<"server_stats", "accept_loop">>
    <3>1. /\ q \in Seq(Coroutine) /\ DOMAIN q = {1, 2} /\ q[1] = "server_stats"
          /\ q[2] = "accept_loop"
      BY DEF Coroutine
    <3>2. Range(q) = {"server_stats", "accept_loop"} /\ IsInjective(q)
      BY <3>1 DEF Range, IsInjective
    <3>3. \A c \in Client : c \notin Range(q)
      BY <3>2, AsyncAssumption
    <3> QED BY <2>1, <2>3, <3>1, <3>2, <3>3 DEF QueueInv
  <2> QED BY <2>2, <2>3 DEF AsyncMain
<1> QED BY <1>1, QuietKeeps DEF AsyncMain

LEMMA LoopChanges ==
  ASSUME LoopsInv, NEW c \in Client, NEW k, LoopOK(k), loop' = [loop EXCEPT ![c] = k],
         k.at = "none" <=> conn'[c] # "open",
         \A d \in Client \ {c} : conn'[d] = conn[d]
  PROVE  LoopsInv' /\ loop'[c] = k /\ \A d \in Client \ {c} : loop'[d] = loop[d]
<1>1. k \in Local
  BY DEF LoopOK
<1>2. /\ loop' \in [Client -> Local] /\ loop'[c] = k
      /\ \A d \in Client \ {c} : loop'[d] = loop[d]
  BY <1>1 DEF LoopsInv
<1>3. ASSUME NEW d \in Client
      PROVE  LoopOK(loop'[d]) /\ (loop'[d].at = "none" <=> conn'[d] # "open")
  <2>1. CASE d = c
    BY <1>2, <2>1
  <2>2. CASE d # c
    BY <1>2, <2>2 DEF LoopsInv
  <2> QED BY <2>1, <2>2
<1>4. \A d \in Client : LoopOK(loop[d])' /\ (loop[d].at = "none" <=> conn[d] # "open")'
  BY <1>3 DEF LoopOK, Incomplete
<1> QED BY <1>2, <1>4 DEF LoopsInv

LEMMA SameCount ==
  ASSUME CountInv, NEW c \in Client, UNCHANGED current_client_cnt,
         loop'[c].at \in {"none", "start"} <=> loop[c].at \in {"none", "start"},
         \A d \in Client \ {c} : loop'[d] = loop[d]
  PROVE  CountInv'
<1>1. Started' = Started
  BY DEF Started
<1> QED BY <1>1 DEF CountInv

LEMMA KeptChanges ==
  ASSUME KeptInv, NEW c \in Client, (Kept(c, Holds(loop[c])))',
         \A d \in Client \ {c} : UNCHANGED <<loop[d], peer[d], expected[d], outbox[d], inbox[d]>>
  PROVE  KeptInv'
<1>1. ASSUME NEW d \in Client, d # c PROVE (Kept(d, Holds(loop[d])))'
  <2>1. Kept(d, Holds(loop[d])) /\ UNCHANGED <<loop[d], peer[d], expected[d], outbox[d], inbox[d]>>
    BY <1>1 DEF KeptInv
  <2> QED BY <2>1 DEF Kept
<1> QED BY <1>1 DEF KeptInv

LEMMA AcceptSucceedsKeeps ==
  ASSUME IInv, NEW c \in Client, AcceptSucceeds(c)
  PROVE  IInv' /\ EchoStep
<1> USE DEF IInv
<1>1. Runs("accept_loop") /\ c \in Pending /\ conn[c] = "pending" /\ server = "running"
      /\ UNCHANGED <<current_client_cnt, server>>
  BY DEF AcceptSucceeds, Pending, Runs
<1>2. CASE Accepted(c, "open") /\ queue' = Append(queue, c)
           /\ loop' = [loop EXCEPT ![c] = [Fresh EXCEPT !.at = "start"]]
  <2> DEFINE k == [Fresh EXCEPT !.at = "start"]
  <2>1. /\ SocketsInv' /\ EchoStep /\ conn'[c] = "open"
        /\ \A d \in Client \ {c} : conn'[d] = conn[d]
    BY <1>1, <1>2, AcceptedKeeps
  <2>2. k \in Local /\ k.at = "start" /\ k.size = <<>> /\ k.buf = <<>>
    BY EmptySeq DEF Local, Fresh
  <2>3. LoopOK(k)
    BY <2>2 DEF LoopOK
  <2>4. loop' = [loop EXCEPT ![c] = k]
    BY <1>2
  <2> HIDE DEF k
  <2>5. LoopsInv' /\ loop'[c] = k /\ \A d \in Client \ {c} : loop'[d] = loop[d]
    BY <2>1, <2>2, <2>3, <2>4, LoopChanges
  <2>6. loop[c].at = "none"
    BY <1>1 DEF LoopsInv
  <2>7. CountInv'
    BY <1>1, <2>2, <2>5, <2>6, SameCount
  <2>8. KeptInv'
    <3>1. Holds(loop[c]) = Holds(k)
      <4>1. loop[c].buf = <<>>
        BY <2>6 DEF LoopsInv, LoopOK
      <4> QED BY <2>2, <2>6, <4>1 DEF Holds, Held
    <3>2. UNCHANGED <<peer, expected, outbox, inbox>>
      BY <1>2 DEF Accepted
    <3>3. (Kept(c, Holds(loop[c])))'
      BY <2>5, <3>1, <3>2 DEF KeptInv, Kept
    <3> QED BY <2>5, <3>2, <3>3, KeptChanges
  <2>9. QueueInv'
    <3>1. queue \in Seq(Coroutine) /\ IsInjective(queue) /\ c \in Coroutine /\ c \notin Range(queue)
      BY <1>1 DEF QueueInv, Coroutine
    <3>2. /\ queue' \in Seq(Coroutine) /\ IsInjective(queue') /\ queue' # <<>>
          /\ Range(queue') = Range(queue) \cup {c}
      BY <1>2, <3>1, AppendDistinct
    <3> QED BY <1>1, <2>1, <3>2 DEF QueueInv
  <2> QED BY <2>1, <2>5, <2>7, <2>8, <2>9
<1>3. CASE Accepted(c, "leaked") /\ UNCHANGED <<queue, loop>>
  <2>1. /\ SocketsInv' /\ EchoStep /\ conn'[c] = "leaked"
        /\ \A d \in Client \ {c} : conn'[d] = conn[d]
    BY <1>1, <1>3, AcceptedKeeps
  <2>2. \A d \in Client : conn'[d] = "open" <=> conn[d] = "open"
    BY <1>1, <2>1
  <2>3. QueueInv'
    BY <1>1, <1>3, <2>2 DEF QueueInv
  <2>4. LoopsInv' /\ CountInv'
    BY <1>1, <1>3, <2>2 DEF LoopsInv, CountInv, Started
  <2>5. KeptInv'
    BY <1>3 DEF Accepted, KeptInv, Kept
  <2> QED BY <2>1, <2>3, <2>4, <2>5
<1> QED BY <1>2, <1>3 DEF AcceptSucceeds

LEMMA EchoStartsKeeps ==
  ASSUME IInv, NEW c \in Client, EchoStarts(c)
  PROVE  IInv' /\ EchoStep
<1> USE DEF IInv
<1> DEFINE l == loop[c]
<1> DEFINE k == [l EXCEPT !.at = "read_size"]
<1>1. /\ Runs(c) /\ l.at = "start" /\ current_client_cnt' = current_client_cnt + 1
      /\ loop' = [loop EXCEPT ![c] = k]
      /\ UNCHANGED <<sockets, queue, server>> /\ conn[c] = "open"
  BY RunningFacts DEF EchoStarts
<1>2. /\ SocketsInv' /\ EchoStep /\ UNCHANGED <<peer, conn, inbox, outbox, expected>>
  BY <1>1, SameSockets
<1>3. l \in Local /\ l.size = <<>> /\ l.buf = <<>>
  BY <1>1 DEF LoopsInv, LoopOK
<1>4. k \in Local /\ k.at = "read_size" /\ k.size = <<>> /\ k.buf = <<>>
  BY <1>3 DEF Local
<1> HIDE DEF k
<1>5. LoopOK(k)
  <2>1. Len(k.size) = 0
    BY <1>4, EmptySeq
  <2> QED BY <1>4, <2>1 DEF LoopOK, Incomplete, SizeBytes
<1>6. LoopsInv' /\ loop'[c] = k /\ \A d \in Client \ {c} : loop'[d] = loop[d]
  BY <1>1, <1>2, <1>4, <1>5, LoopChanges
<1>7. CountInv'
  <2>1. Started' = Started \cup {c} /\ c \notin Started
    BY <1>1, <1>4, <1>6 DEF Started
  <2> QED BY <1>1, <2>1, FS_AddElement DEF CountInv
<1>8. KeptInv'
  <2>1. Holds(k) = Holds(l)
    BY <1>1, <1>3, <1>4 DEF Holds, Held
  <2>2. (Kept(c, Holds(loop[c])))'
    BY <1>2, <1>6, <2>1 DEF KeptInv, Kept
  <2> QED BY <1>2, <1>6, <2>2, KeptChanges
<1>9. QueueInv'
  BY <1>1, <1>2 DEF QueueInv
<1> QED BY <1>2, <1>6, <1>7, <1>8, <1>9

LEMMA EchoFailsKeeps ==
  ASSUME IInv, NEW c \in Client, Runs(c), loop[c].at \notin {"none", "start"},
         peer[c] = "left", EchoFails(c)
  PROVE  IInv' /\ EchoStep
<1> USE DEF IInv
<1>1. /\ Closed(c) /\ current_client_cnt' = current_client_cnt - 1 /\ queue' = Tail(queue)
      /\ loop' = [loop EXCEPT ![c] = Fresh] /\ server' = server /\ server = "running"
  BY DEF EchoFails, Runs
<1>2. /\ SocketsInv' /\ EchoStep /\ conn'[c] = "none"
      /\ \A h : Kept(c, h)'
      /\ \A d \in Client \ {c} : UNCHANGED <<peer[d], conn[d], inbox[d], outbox[d], expected[d]>>
  BY <1>1, ClosedKeeps
<1>3. Fresh \in Local /\ Fresh.at = "none" /\ Fresh.size = <<>> /\ Fresh.buf = <<>>
  BY EmptySeq DEF Local, Fresh
<1>4. LoopOK(Fresh)
  BY <1>3 DEF LoopOK
<1>5. LoopsInv' /\ loop'[c] = Fresh /\ \A d \in Client \ {c} : loop'[d] = loop[d]
  BY <1>1, <1>2, <1>3, <1>4, LoopChanges
<1>6. CountInv'
  <2>1. Started' = Started \ {c} /\ c \in Started
    BY <1>3, <1>5 DEF Started
  <2> QED BY <1>1, <2>1, FS_RemoveElement DEF CountInv
<1>7. KeptInv'
  <2>1. (Kept(c, Holds(loop[c])))'
    <3>1. PICK h : h = Holds(loop'[c])
      OBVIOUS
    <3>2. Kept(c, h)'
      BY <1>2
    <3> QED BY <3>1, <3>2 DEF Kept
  <2> QED BY <1>2, <1>5, <2>1, KeptChanges
<1>8. QueueInv'
  <2>1. queue \in Seq(Coroutine) /\ queue # <<>> /\ IsInjective(queue) /\ c = Head(queue)
    BY RunningFacts DEF QueueInv
  <2>2. queue' \in Seq(Coroutine) /\ IsInjective(queue') /\ Range(queue') = Range(queue) \ {c}
    BY <1>1, <2>1, TailDistinct
  <2>3. "accept_loop" # c
    BY AsyncAssumption
  <2> QED BY <1>1, <1>2, <2>2, <2>3 DEF QueueInv
<1> QED BY <1>2, <1>5, <1>6, <1>7, <1>8

(* Steps of an echo_loop that has started and goes on. *)
LEMMA LoopMoves ==
  ASSUME IInv, NEW c \in Client, loop[c].at \notin {"none", "start"}, conn[c] = "open",
         NEW k, LoopOK(k), k.at \notin {"none", "start"}, loop' = [loop EXCEPT ![c] = k],
         UNCHANGED <<queue, current_client_cnt, server, peer, conn, expected>>,
         SocketsInv', Kept(c, Holds(k))',
         \A d \in Client \ {c} : outbox'[d] = outbox[d] /\ inbox'[d] = inbox[d]
  PROVE  IInv'
<1> USE DEF IInv
<1>1. LoopsInv' /\ loop'[c] = k /\ \A d \in Client \ {c} : loop'[d] = loop[d]
  BY LoopChanges
<1>2. CountInv'
  BY <1>1, SameCount
<1>3. KeptInv'
  <2>1. (Kept(c, Holds(loop[c])))'
    BY <1>1 DEF Kept
  <2> QED BY <1>1, <2>1, KeptChanges
<1>4. QueueInv'
  BY DEF QueueInv
<1> QED BY <1>1, <1>2, <1>3, <1>4

LEMMA RecvBytesKeeps ==
  ASSUME IInv, NEW c \in Client, RecvBytes(c)
  PROVE  IInv' /\ EchoStep
<1> USE DEF IInv
<1>1. PICK n : /\ Received(c, n)
               /\ loop' = [loop EXCEPT ![c] = Reading([@ EXCEPT !.buf = Take(inbox[c], n)])]
  BY DEF RecvBytes
<1>2. PICK t : t = Take(inbox[c], n)
  OBVIOUS
<1>3. PICK h : h = Holds(loop[c])
  OBVIOUS
<1>4. PICK k : k = Reading([loop[c] EXCEPT !.buf = t])
  OBVIOUS
<1>5. /\ Runs(c) /\ loop[c].at \in {"read_size", "read_msg"} /\ conn[c] = "open"
      /\ LoopOK(loop[c]) /\ UNCHANGED <<queue, current_client_cnt, server>>
  BY RunningFacts DEF RecvBytes, InRecv, LoopsInv
<1>6. h \in Seq(Byte) /\ Kept(c, h)
  BY <1>3, <1>5, HoldsType DEF KeptInv
<1>7. /\ SocketsInv' /\ EchoStep /\ t \in Seq(Byte)
      /\ Kept(c, h \o t)'
      /\ \A d \in Client \ {c} : inbox'[d] = inbox[d]
  BY <1>1, <1>2, <1>6, ReceivedKeeps
<1>8. LoopOK(k) /\ k.at \notin {"none", "start"} /\ Holds(k) = h \o t
  BY <1>3, <1>4, <1>5, <1>7, BufferFilled
<1>9. loop' = [loop EXCEPT ![c] = k]
  BY <1>1, <1>2, <1>4 DEF LoopsInv
<1>10. Kept(c, Holds(k))'
  BY <1>7, <1>8 DEF Kept
<1>11. UNCHANGED <<peer, conn, outbox, expected>>
  BY <1>1 DEF Received
<1>12. IInv'
  BY <1>5, <1>7, <1>8, <1>9, <1>10, <1>11, LoopMoves
<1> QED BY <1>7, <1>12

LEMMA SendBytesKeeps ==
  ASSUME IInv, NEW c \in Client, SendBytes(c)
  PROVE  IInv' /\ EchoStep
<1> USE DEF IInv
<1>1. PICK n \in 1 .. Len(ToWrite(loop[c])) :
        /\ Sent(c, Take(ToWrite(loop[c]), n))
        /\ loop' = [loop EXCEPT ![c] = Written(@, n)]
  BY DEF SendBytes
<1>2. PICK b : b = Take(ToWrite(loop[c]), n)
  OBVIOUS
<1>3. PICK k : k = Written(loop[c], n)
  OBVIOUS
<1>4. /\ Runs(c) /\ loop[c].at \in {"write_size", "write_msg"} /\ conn[c] = "open"
      /\ LoopOK(loop[c]) /\ UNCHANGED <<queue, current_client_cnt, server>>
  BY RunningFacts DEF SendBytes, InSend, LoopsInv
<1>5. /\ b \in Seq(Byte) /\ LoopOK(k) /\ k.at \notin {"none", "start"}
      /\ Holds(loop[c]) = b \o Holds(k)
  <2>1. PICK l : l = loop[c]
    OBVIOUS
  <2>2. /\ LoopOK(l) /\ l.at \in {"write_size", "write_msg"} /\ n \in 1 .. Len(ToWrite(l))
        /\ b = Take(ToWrite(l), n) /\ k = Written(l, n)
    BY <1>2, <1>3, <1>4, <2>1
  <2>3. Gives(l, b, k)
    BY <2>2, WrittenKeeps
  <2> QED BY <2>1, <2>3 DEF Gives
<1>6. PICK h : h = Holds(k)
  OBVIOUS
<1>7. h \in Seq(Byte) /\ Kept(c, b \o h)
  BY <1>5, <1>6, HoldsType DEF KeptInv
<1>8. /\ SocketsInv' /\ EchoStep /\ Kept(c, h)'
      /\ \A d \in Client \ {c} : outbox'[d] = outbox[d]
      /\ UNCHANGED <<peer, conn, inbox, expected>>
  BY <1>1, <1>2, <1>4, <1>5, <1>7, SentKeeps
<1>9. loop' = [loop EXCEPT ![c] = k]
  BY <1>1, <1>3 DEF LoopsInv
<1>10. Kept(c, Holds(k))'
  BY <1>6, <1>8 DEF Kept
<1>11. IInv'
  BY <1>4, <1>5, <1>8, <1>9, <1>10, LoopMoves
<1> QED BY <1>8, <1>11

LEMMA PeersStepKeeps ==
  ASSUME IInv, Peers, UNCHANGED <<queue, loop, current_client_cnt, server>>
  PROVE  IInv' /\ EchoStep
<1> USE DEF IInv
<1>1. PICK held : held = [c \in Client |-> Holds(loop[c])]
  OBVIOUS
<1>2. held \in [Client -> Seq(Byte)]
  BY <1>1, HoldsType DEF LoopsInv
<1>3. \A c \in Client : Kept(c, held[c])
  BY <1>1 DEF KeptInv
<1>4. ASSUME NEW c \in Client, conn[c] = "none" PROVE held[c] = <<>>
  <2>1. loop[c].at = "none" /\ loop[c].buf = <<>>
    BY <1>4 DEF LoopsInv, LoopOK
  <2> QED BY <1>1, <2>1, EmptySeq, ConcatEmptySeq DEF Holds, Held
<1>5. /\ SocketsInv' /\ EchoStep
      /\ \A c \in Client :
           /\ Kept(c, held[c])'
           /\ conn'[c] = conn[c] \/ (conn[c] = "none" /\ conn'[c] = "pending")
  BY <1>2, <1>3, <1>4, PeersKeep
<1>6. QueueInv' /\ LoopsInv' /\ CountInv'
  BY <1>5 DEF QueueInv, LoopsInv, CountInv, Started
<1>7. KeptInv'
  BY <1>1, <1>5 DEF KeptInv, Kept
<1> QED BY <1>5, <1>6, <1>7

LEMMA NextKeeps ==
  ASSUME IInv, [Next]_vars
  PROVE  IInv' /\ EchoStep
<1>1. CASE UNCHANGED vars
  <2>1. UNCHANGED <<sockets, queue, loop, current_client_cnt, server, conn>>
    BY <1>1 DEF vars, sockets
  <2>2. QueueInv'
    BY <2>1 DEF IInv, QueueInv
  <2> QED BY <2>1, <2>2, QuietKeeps
<1>2. CASE AsyncMain
  BY <1>2, AsyncMainKeeps
<1>3. CASE ServerStats
  BY <1>3, SkipKeeps DEF ServerStats
<1>4. CASE AcceptLoop
  BY <1>1, <1>4, SkipKeeps, AcceptSucceedsKeeps DEF AcceptLoop, AcceptBlocks, AcceptFails
<1>5. ASSUME NEW c \in Client, EchoLoop(c) PROVE IInv' /\ EchoStep
  <2>1. CASE EchoStarts(c)
    BY <2>1, EchoStartsKeeps
  <2>2. CASE Blocks(c)
    BY <2>2, SkipKeeps DEF Blocks, InRecv, InSend
  <2>3. CASE RecvBytes(c)
    BY <2>3, RecvBytesKeeps
  <2>4. CASE RecvEnds(c)
    BY <2>4, EchoFailsKeeps DEF RecvEnds, InRecv, EndOfStream, Reset
  <2>5. CASE SendBytes(c)
    BY <2>5, SendBytesKeeps
  <2>6. CASE SendFails(c)
    <3>1. Runs(c) /\ loop[c].at \notin {"none", "start"} /\ peer[c] = "left"
      BY <2>6 DEF SendFails, InSend, Reset
    <3>2. CASE EchoFails(c)
      BY <3>1, <3>2, EchoFailsKeeps
    <3>3. CASE server' = "killed" /\ UNCHANGED <<sockets, queue, loop, current_client_cnt>>
      <4>1. QueueInv'
        BY <3>1, <3>3 DEF IInv, QueueInv, Runs, sockets
      <4> QED BY <3>3, <4>1, QuietKeeps
    <3> QED BY <2>6, <3>2, <3>3 DEF SendFails
  <2> QED BY <1>5, <2>1, <2>2, <2>3, <2>4, <2>5, <2>6 DEF EchoLoop
<1>6. CASE Over
  BY <1>1, <1>6 DEF Over
<1>7. CASE Peers /\ UNCHANGED <<queue, loop, current_client_cnt, server>>
  BY <1>7, PeersStepKeeps
<1> QED BY <1>1, <1>2, <1>3, <1>4, <1>5, <1>6, <1>7 DEF Next, Server

------------------------------------------------------------------------------
LEMMA Inductive == Spec => []IInv
<1>1. Init => IInv
  BY InitInv
<1>2. IInv /\ [Next]_vars => IInv'
  BY NextKeeps
<1> QED BY <1>1, <1>2, PTL DEF Spec

(* In every reachable state of the server, for any clients and messages, what a
   client still expects is exactly what is on its way to it, held by its
   echo_loop and on its way to the server, in this order. *)
THEOREM KeepsBytes == Spec => []BytesKept
<1>1. IInv => BytesKept
  <2> SUFFICES ASSUME IInv, NEW c \in Client, peer[c] = "in"
               PROVE  expected[c] = outbox[c] \o Held(loop[c]) \o loop[c].buf \o inbox[c]
    BY DEF BytesKept
  <2> DEFINE o == outbox[c]
  <2> DEFINE h == Held(loop[c])
  <2> DEFINE b == loop[c].buf
  <2>1. expected[c] = o \o (h \o b) \o inbox[c]
    BY DEF IInv, KeptInv, Kept, Holds
  <2>2. o \in Seq(Byte) /\ h \in Seq(Byte) /\ b \in Seq(Byte)
    BY HoldsType DEF IInv, SocketsInv, SocketsTypeOK, LoopsInv, LoopOK, Local
  <2> HIDE DEF o, h, b
  <2>3. SameAssociated(o, h, b)
    BY <2>2, Reassociated
  <2>4. expected[c] = o \o h \o b \o inbox[c]
    BY <2>1, <2>3 DEF SameAssociated
  <2> QED BY <2>4 DEF o, h, b
<1> QED BY <1>1, Inductive, PTL

(* Whatever accept, fcntl, recv and send do, each open connection has exactly
   one echo_loop in the queue and is counted once. *)
THEOREM ServesOnce == Spec => []ServedOnce
<1>1. IInv => ServedOnce
  <2> SUFFICES ASSUME IInv PROVE ServedOnce
    OBVIOUS
  <2>1. queue \in Seq(Coroutine) /\ IsInjective(queue)
    BY DEF IInv, QueueInv
  <2>2. ASSUME NEW c \in Client
        PROVE  Cardinality({i \in DOMAIN queue : queue[i] = c}) = IF conn[c] = "open" THEN 1 ELSE 0
    <3> DEFINE places == {i \in DOMAIN queue : queue[i] = c}
    <3>1. CASE c \in Range(queue)
      <4>1. PICK i \in DOMAIN queue : queue[i] = c
        BY <3>1 DEF Range
      <4>2. places = {i}
        BY <2>1, <4>1 DEF IsInjective
      <4>3. conn[c] = "open"
        BY <3>1 DEF IInv, QueueInv
      <4> QED BY <4>2, <4>3, FS_Singleton
    <3>2. CASE c \notin Range(queue)
      <4>1. places = {}
        BY <3>2 DEF Range
      <4>2. conn[c] # "open"
        BY <3>2 DEF IInv, QueueInv
      <4> QED BY <4>1, <4>2, FS_EmptySet
    <3> QED BY <3>1, <3>2
  <2>3. {c \in Range(queue) \cap Client : loop[c].at # "start"} = Started
    BY DEF IInv, QueueInv, LoopsInv, Started
  <2> QED BY <2>2, <2>3 DEF ServedOnce, IInv, CountInv
<1> QED BY <1>1, Inductive, PTL

(* The server implements the abstract one: it sends a client only what it owes,
   in order, and closes a connection only after the client has left. *)
THEOREM AsyncImplementsEcho == Spec => ImplementsEcho
<1>1. Init => Echo!Init
  BY InitInv
<1>2. IInv /\ [Next]_vars => [Echo!Next]_<<EchoHere, EchoGone, expected, outbox>>
  BY NextKeeps DEF EchoStep
<1> QED BY <1>1, <1>2, Inductive, PTL DEF Spec, ImplementsEcho, Echo!Spec, EchoHere, EchoGone
==============================================================================
