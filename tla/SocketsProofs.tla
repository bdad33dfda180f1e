---------------------------- MODULE SocketsProofs ----------------------------
(***************************************************************************)
(* What the proofs of the two echo servers share: facts about cutting and  *)
(* joining streams of bytes, the invariant of the sockets themselves, and  *)
(* what each step of a client and each system call does to the bytes       *)
(* between a client and the server, and to the specification EchoSpec.     *)
(***************************************************************************)
EXTENDS Sockets, SequenceLemmas

(* Cutting a stream in two loses nothing. *)
LEMMA TakeDrop ==
  ASSUME NEW S, NEW s \in Seq(S), NEW n \in 0 .. Len(s)
  PROVE  /\ Take(s, n) \in Seq(S) /\ Len(Take(s, n)) = n
         /\ Drop(s, n) \in Seq(S) /\ Len(Drop(s, n)) = Len(s) - n
         /\ Take(s, n) \o Drop(s, n) = s
<1>1. Len(s) \in Nat /\ \A i \in 1 .. Len(s) : s[i] \in S
  BY LenProperties, ElementOfSeq
<1>2. Take(s, n) \in Seq(S) /\ Len(Take(s, n)) = n
  BY <1>1, SubSeqProperties DEF Take
<1>3. Drop(s, n) \in Seq(S) /\ Len(Drop(s, n)) = Len(s) - n
  BY <1>1, SubSeqProperties DEF Drop
<1>4. Take(s, n) \o Drop(s, n) = SubSeq(s, 1, Len(s))
  <2>1. 1 \in 1 .. Len(s) + 1 /\ n \in 1 - 1 .. Len(s) /\ Len(s) \in n .. Len(s)
    BY <1>1
  <2> QED BY <2>1, ConcatAdjacentSubSeq DEF Take, Drop
<1> QED BY <1>2, <1>3, <1>4, SubSeqFull

LEMMA DropEnds ==
  ASSUME NEW S, NEW s \in Seq(S)
  PROVE  Drop(s, 0) = s /\ Drop(s, Len(s)) = <<>>
<1>1. Len(s) \in Nat
  BY LenProperties
<1> QED BY <1>1, SubSeqFull, SubSeqEmpty DEF Drop

(* An element of what is left after a cut. *)
LEMMA DropElement ==
  ASSUME NEW S, NEW s \in Seq(S), NEW n \in 0 .. Len(s), NEW i \in 1 .. Len(s) - n
  PROVE  Drop(s, n)[i] = s[n + i]
<1>1. Len(s) \in Nat /\ \A j \in 1 .. Len(s) : s[j] \in S
  BY LenProperties, ElementOfSeq
<1>2. /\ n + 1 \in Int /\ Len(s) \in Int /\ i \in 1 .. Len(s) - (n + 1) + 1
      /\ \A j \in n + 1 .. Len(s) : s[j] \in S
      /\ (n + 1) + i - 1 = n + i
  BY <1>1
<1>3. SubSeq(s, n + 1, Len(s))[i] = s[(n + 1) + i - 1]
  BY <1>2, SubSeqProperties
<1> QED BY <1>2, <1>3 DEF Drop

(* Two cuts are one. *)
LEMMA DropDrop ==
  ASSUME NEW S, NEW s \in Seq(S), NEW n \in 0 .. Len(s), NEW m \in 0 .. Len(s) - n
  PROVE  Drop(Drop(s, n), m) = Drop(s, n + m)
<1> DEFINE d == Drop(s, n)
<1> DEFINE l == Drop(d, m)
<1> DEFINE r == Drop(s, n + m)
<1>1. Len(s) \in Nat
  BY LenProperties
<1>2. d \in Seq(S) /\ Len(d) = Len(s) - n
  BY TakeDrop
<1>3. /\ l \in Seq(S) /\ Len(l) = Len(s) - n - m
      /\ r \in Seq(S) /\ Len(r) = Len(s) - (n + m)
  <2>1. m \in 0 .. Len(d) /\ n + m \in 0 .. Len(s)
    BY <1>1, <1>2
  <2>2. l \in Seq(S) /\ Len(l) = Len(d) - m
    BY <1>2, <2>1, TakeDrop
  <2>3. r \in Seq(S) /\ Len(r) = Len(s) - (n + m)
    BY <2>1, TakeDrop
  <2> QED BY <1>2, <2>2, <2>3
<1>4. ASSUME NEW i \in 1 .. Len(l) PROVE l[i] = r[i]
  <2>1. i \in 1 .. Len(d) - m /\ m + i \in 1 .. Len(s) - n /\ i \in 1 .. Len(s) - (n + m)
        /\ n + m \in 0 .. Len(s) /\ m \in 0 .. Len(d)
    BY <1>1, <1>2, <1>3
  <2>2. l[i] = d[m + i]
    BY <1>2, <2>1, DropElement
  <2>3. d[m + i] = s[n + (m + i)]
    BY <2>1, DropElement
  <2>4. r[i] = s[n + m + i]
    BY <2>1, DropElement
  <2>5. n + (m + i) = n + m + i
    BY <1>1, <1>3
  <2> QED BY <2>2, <2>3, <2>4, <2>5
<1> HIDE DEF l, r
<1>5. l = r
  BY <1>1, <1>3, <1>4, SeqEqual
<1> QED BY <1>5 DEF l, r

(* Brackets moved; kept folded where the lemma is used, so that the provers see
   one fact about four streams and not the many about \o. *)
SameJoined(s, t, u, v) == s \o t \o (u \o v) = s \o (t \o u) \o v

SameAssociated(s, t, u) == s \o t \o u = s \o (t \o u)

LEMMA Reassociated ==
  ASSUME NEW S, NEW s \in Seq(S), NEW t \in Seq(S), NEW u \in Seq(S)
  PROVE  SameAssociated(s, t, u)
BY ConcatAssociative DEF SameAssociated

LEMMA Rejoined ==
  ASSUME NEW S, NEW s \in Seq(S), NEW t \in Seq(S), NEW u \in Seq(S), NEW v \in Seq(S)
  PROVE  SameJoined(s, t, u, v)
<1>1. s \o t \in Seq(S)
  BY ConcatProperties
<1>2. SameAssociated(s \o t, u, v) /\ SameAssociated(s, t, u)
  BY <1>1, Reassociated
<1> QED BY <1>2 DEF SameAssociated, SameJoined

(* A cut through a stream and what follows it. *)
LEMMA DropConcat ==
  ASSUME NEW S, NEW s \in Seq(S), NEW t \in Seq(S), NEW n \in 0 .. Len(s)
  PROVE  Drop(s \o t, n) = Drop(s, n) \o t
<1>1. Len(s) \in Nat /\ Len(t) \in Nat
  BY LenProperties
<1>2. /\ Take(s, n) \in Seq(S) /\ Len(Take(s, n)) = n
      /\ Drop(s, n) \in Seq(S) /\ s = Take(s, n) \o Drop(s, n)
  BY TakeDrop
<1>3. s \o t \in Seq(S) /\ Len(s \o t) = Len(s) + Len(t)
  BY ConcatProperties
<1>4. /\ Take(s \o t, n) \in Seq(S) /\ Len(Take(s \o t, n)) = n
      /\ Drop(s \o t, n) \in Seq(S)
      /\ s \o t = Take(s \o t, n) \o Drop(s \o t, n)
  <2>1. n \in 0 .. Len(s \o t)
    BY <1>1, <1>3
  <2> QED BY <1>3, <2>1, TakeDrop
<1>5. Take(s \o t, n) = Take(s, n)
  <2>1. CASE n = 0
    BY <2>1, SubSeqEmpty DEF Take
  <2>2. CASE n # 0
    <3>1. 1 \in 1 .. Len(s) /\ n \in 1 .. Len(s)
      BY <1>1, <2>2
    <3> QED BY <3>1, SubSeqOfConcat1 DEF Take
  <2> QED BY <2>1, <2>2
<1>6. s \o t = Take(s, n) \o (Drop(s, n) \o t)
  <2>1. (Take(s, n) \o Drop(s, n)) \o t = Take(s, n) \o (Drop(s, n) \o t)
    <3>1. SameAssociated(Take(s, n), Drop(s, n), t)
      BY <1>2, Reassociated
    <3> QED BY <3>1 DEF SameAssociated
  <2> QED BY <1>2, <2>1
<1>7. Drop(s, n) \o t \in Seq(S)
  BY <1>2, ConcatProperties
<1>8. Take(s, n) \o (Drop(s, n) \o t) = Take(s, n) \o Drop(s \o t, n)
  BY <1>4, <1>5, <1>6
<1> QED BY <1>2, <1>4, <1>7, <1>8, ConcatSimplifications

LEMMA DropPast ==
  ASSUME NEW S, NEW s \in Seq(S), NEW t \in Seq(S), NEW n \in 0 .. Len(t)
  PROVE  Drop(s \o t, Len(s) + n) = Drop(t, n)
<1>1. Len(s) \in Nat /\ Len(t) \in Nat
  BY LenProperties
<1>2. s \o t \in Seq(S) /\ Len(s \o t) = Len(s) + Len(t)
  BY ConcatProperties
<1>3. Drop(s \o t, Len(s)) = t
  <2>1. Len(s) \in 0 .. Len(s)
    BY <1>1
  <2>2. Drop(s \o t, Len(s)) = Drop(s, Len(s)) \o t
    BY <2>1, DropConcat
  <2> QED BY <2>2, DropEnds, ConcatEmptySeq
<1>4. Len(s) \in 0 .. Len(s \o t) /\ n \in 0 .. Len(s \o t) - Len(s)
  BY <1>1, <1>2
<1>5. Drop(Drop(s \o t, Len(s)), n) = Drop(s \o t, Len(s) + n)
  BY <1>2, <1>4, DropDrop
<1> QED BY <1>3, <1>5

LEMMA TakeConcat ==
  ASSUME NEW S, NEW s \in Seq(S), NEW t \in Seq(S)
  PROVE  Take(s \o t, Len(s)) = s
<1>1. Len(s) \in Nat
  BY LenProperties
<1>2. CASE s = <<>>
  BY <1>1, <1>2, EmptySeq, SubSeqEmpty DEF Take
<1>3. CASE s # <<>>
  <2>1. Len(s) > 0
    BY <1>3, EmptySeq
  <2>2. 1 \in 1 .. Len(s) /\ Len(s) \in 1 .. Len(s)
    BY <1>1, <2>1
  <2>3. SubSeq(s \o t, 1, Len(s)) = SubSeq(s, 1, Len(s))
    BY <2>2, SubSeqOfConcat1
  <2> QED BY <2>3, SubSeqFull DEF Take
<1> QED BY <1>2, <1>3

LEMMA TailConcat ==
  ASSUME NEW S, NEW s \in Seq(S), NEW t \in Seq(S), s # <<>>
  PROVE  Tail(s) \in Seq(S) /\ Tail(s \o t) = Tail(s) \o t /\ s \o t # <<>>
<1>1. Len(s) \in Nat /\ Len(s) > 0
  BY EmptySeq
<1>2. s \o t \in Seq(S) /\ s \o t # <<>>
  BY ConcatProperties, ConcatEqualIffEmpty
<1>3. Tail(s) \in Seq(S) /\ Tail(s) = Drop(s, 1) /\ Tail(s \o t) = Drop(s \o t, 1)
  BY <1>2, HeadTailProperties, TailIsSubSeq DEF Drop
<1>4. 1 \in 0 .. Len(s)
  BY <1>1
<1>5. Drop(s \o t, 1) = Drop(s, 1) \o t
  BY <1>4, DropConcat
<1> QED BY <1>2, <1>3, <1>5

(* The loops of both servers that take bytes out of their buffer b, until s has
   n of them or the buffer is used up: s1 and b1 are what they leave. *)
Copies(s, b, n, s1, b1) ==
  /\ s1 \in Seq(Byte) /\ b1 \in Seq(Byte)
  /\ Len(s1) < n => b1 = <<>>
  /\ ~ Len(s1) < n => Len(s1) = n
  /\ s1 \o b1 = s \o b

LEMMA CopiedFacts ==
  ASSUME NEW s \in Seq(Byte), NEW b \in Seq(Byte), NEW n \in Nat, Len(s) <= n,
         NEW amt, amt = Least(n - Len(s), Len(b))
  PROVE  Copies(s, b, n, s \o Take(b, amt), Drop(b, amt))
<1>1. Len(s) \in Nat /\ Len(b) \in Nat
  BY LenProperties
<1>2. amt \in 0 .. Len(b) /\ amt <= n - Len(s) /\ (amt < n - Len(s) => amt = Len(b))
  BY <1>1 DEF Least
<1> DEFINE t == Take(b, amt)
<1> DEFINE d == Drop(b, amt)
<1>3. t \in Seq(Byte) /\ Len(t) = amt /\ d \in Seq(Byte) /\ t \o d = b
  BY <1>2, TakeDrop
<1>4. amt = Len(b) => d = <<>>
  BY DropEnds
<1> HIDE DEF t, d
<1>5. s \o t \in Seq(Byte) /\ Len(s \o t) = Len(s) + amt
  BY <1>3, ConcatProperties
<1>6. s \o t \o d = s \o b
  <2>1. SameAssociated(s, t, d)
    BY <1>3, Reassociated
  <2> QED BY <1>3, <2>1 DEF SameAssociated
<1> DEFINE k == Len(s \o t)
<1>7. (k < n => d = <<>>) /\ (~ k < n => k = n)
  <2>1. k = Len(s) + amt
    BY <1>5
  <2> HIDE DEF k
  <2> QED BY <1>1, <1>2, <1>4, <2>1
<1>8. Copies(s, b, n, s \o t, d)
  BY <1>3, <1>5, <1>6, <1>7 DEF Copies
<1> QED BY <1>8 DEF t, d

LEMMA SizeIsNat ==
  ASSUME NEW s \in Seq(Byte), Len(s) = SizeBytes
  PROVE  ntohl(s) \in Nat
<1>1. s[1] \in Byte /\ s[2] \in Byte
  BY ElementOfSeq DEF SizeBytes
<1> QED BY <1>1 DEF ntohl, Byte, Base

------------------------------------------------------------------------------
(* The sockets by themselves: a connection is there exactly while its client is
   or was, and nothing is under way to a client that has left. *)
SocketsInv ==
  /\ SocketsTypeOK
  /\ \A c \in Client : /\ conn[c] = "none" <=> peer[c] = "out"
                       /\ peer[c] # "in" => outbox[c] = <<>> /\ expected[c] = <<>>
                       /\ peer[c] = "out" => inbox[c] = <<>>

(* held: the bytes of c that the server has received and not sent. *)
Kept(c, held) == peer[c] = "in" => expected[c] = outbox[c] \o held \o inbox[c]

EchoHere == {c \in Client : peer[c] = "in" /\ conn[c] # "none"}
EchoGone == {c \in Client : peer[c] = "left"}
EchoStep == Echo!Next \/ UNCHANGED <<EchoHere, EchoGone, expected, outbox>>

LEMMA FramedType ==
  ASSUME NEW m \in Message
  PROVE  Framed(m) \in Seq(Byte) /\ Len(Framed(m)) \in Nat /\ Len(Framed(m)) > 0
<1> DEFINE size == <<Len(m) \div Base, Len(m) % Base>>
<1>1. m \in Seq(Byte) /\ Len(m) \in Nat /\ Len(m) < 4
  <2>1. m \in Seq(Byte) /\ Len(m) < Base * Base
    BY SocketAssumption
  <2> QED BY <2>1, LenProperties DEF Base
<1>2. Len(m) \div Base \in Byte /\ Len(m) % Base \in Byte
  BY <1>1 DEF Base, Byte
<1>3. size \in Seq(Byte) /\ Len(size) = 2
  BY <1>2
<1> HIDE DEF size
<1>4. size \o m \in Seq(Byte) /\ Len(size \o m) = Len(size) + Len(m)
  BY <1>1, <1>3, ConcatProperties
<1> QED BY <1>1, <1>3, <1>4 DEF Framed, size

LEMMA SameSockets ==
  ASSUME SocketsInv, UNCHANGED sockets
  PROVE  /\ SocketsInv' /\ EchoStep /\ UNCHANGED <<peer, conn, inbox, outbox, expected>>
         /\ \A c \in Client : \A h : Kept(c, h) => Kept(c, h)'
BY DEF sockets, SocketsInv, SocketsTypeOK, EchoStep, EchoHere, EchoGone, Kept

(* What a client does keeps what the server holds of the others, and is a step
   of EchoSpec. *)
LEMMA ConnectsKeeps ==
  ASSUME SocketsInv, NEW c \in Client, Connects(c)
  PROVE  SocketsInv' /\ EchoStep /\ Kept(c, <<>>)'
<1> USE DEF SocketsInv, SocketsTypeOK, Connects
<1>1. SocketsInv'
  OBVIOUS
<1>2. Echo!Joins(c)
  BY DEF Echo!Joins
<1>3. Kept(c, <<>>)'
  <2>1. outbox'[c] = <<>> /\ expected'[c] = <<>> /\ inbox'[c] = <<>>
    OBVIOUS
  <2>2. <<>> = <<>> \o <<>> \o <<>>
    BY EmptySeq, ConcatEmptySeq
  <2> QED BY <2>1, <2>2 DEF Kept
<1> QED BY <1>1, <1>2, <1>3 DEF EchoStep, Echo!Next

LEMMA WritesKeeps ==
  ASSUME SocketsInv, NEW c \in Client, Writes(c), NEW h \in Seq(Byte), Kept(c, h)
  PROVE  SocketsInv' /\ EchoStep /\ Kept(c, h)'
<1> USE DEF SocketsInv, SocketsTypeOK
<1>1. PICK m \in Message : /\ inbox' = [inbox EXCEPT ![c] = @ \o Framed(m)]
                           /\ expected' = [expected EXCEPT ![c] = @ \o Framed(m)]
  BY DEF Writes
<1> DEFINE f == Framed(m)
<1> DEFINE e == expected[c]
<1>2. f \in Seq(Byte) /\ Len(f) \in Nat /\ Len(f) > 0
  BY FramedType
<1>3. e \in Seq(Byte) /\ inbox[c] \in Seq(Byte) /\ outbox[c] \in Seq(Byte)
  OBVIOUS
<1> HIDE DEF f, e
<1>4. /\ e \o f \in Seq(Byte) /\ Len(e \o f) = Len(e) + Len(f) /\ Len(e) \in Nat
      /\ inbox[c] \o f \in Seq(Byte)
  BY <1>2, <1>3, ConcatProperties, LenProperties
<1>5. /\ expected'[c] = e \o f /\ inbox'[c] = inbox[c] \o f
      /\ \A d \in Client \ {c} : expected'[d] = expected[d] /\ inbox'[d] = inbox[d]
      /\ UNCHANGED <<peer, conn, outbox>> /\ peer[c] = "in"
      /\ expected' \in [Client -> Seq(Byte)] /\ inbox' \in [Client -> Seq(Byte)]
  BY <1>1, <1>4 DEF f, e, Writes
<1>6. SocketsInv'
  BY <1>5
<1>7. Kept(c, h)'
  <2>1. e = outbox[c] \o h \o inbox[c]
    BY <1>5 DEF Kept, e
  <2>2. outbox[c] \o h \o inbox[c] \o f = outbox[c] \o h \o (inbox[c] \o f)
    <3>1. outbox[c] \o h \in Seq(Byte)
      BY <1>3, ConcatProperties
    <3>2. SameAssociated(outbox[c] \o h, inbox[c], f)
      BY <1>2, <1>3, <3>1, Reassociated
    <3> QED BY <3>2 DEF SameAssociated
  <2> QED BY <1>5, <2>1, <2>2 DEF Kept
<1>8. Echo!Writes(c)
  <2>1. SubSeq(e \o f, Len(e) + 1, Len(e \o f)) = f
    <3>1. Len(e) \in 0 .. Len(e) /\ 0 \in 0 .. Len(f) /\ Len(e) + 0 = Len(e)
      BY <1>2, <1>4
    <3>2. Drop(e \o f, Len(e) + 0) = Drop(f, 0)
      BY <1>2, <1>3, <3>1, DropPast DEF e
    <3> QED BY <1>2, <3>1, <3>2, DropEnds DEF Drop
  <2>2. c \in EchoHere
    BY <1>5 DEF EchoHere
  <2>3. Len(expected'[c]) > Len(expected[c])
    BY <1>2, <1>4, <1>5 DEF e
  <2>4. expected' = [expected EXCEPT ![c] = @ \o SubSeq(expected'[c], Len(@) + 1, Len(expected'[c]))]
    BY <1>1, <1>5, <2>1 DEF e, f
  <2> QED BY <1>5, <2>2, <2>3, <2>4 DEF Echo!Writes, EchoHere
<1> QED BY <1>6, <1>7, <1>8 DEF EchoStep, Echo!Next

LEMMA ReadsKeeps ==
  ASSUME SocketsInv, NEW c \in Client, Reads(c), NEW h \in Seq(Byte), Kept(c, h)
  PROVE  SocketsInv' /\ EchoStep /\ Kept(c, h)'
<1> USE DEF SocketsInv, SocketsTypeOK
<1>1. /\ outbox[c] \in Seq(Byte) /\ outbox[c] # <<>> /\ inbox[c] \in Seq(Byte)
      /\ peer[c] = "in" /\ conn[c] # "none"
      /\ expected[c] = outbox[c] \o h \o inbox[c]
  BY DEF Reads, Kept
<1>2. /\ Tail(outbox[c]) \in Seq(Byte) /\ h \o inbox[c] \in Seq(Byte)
      /\ Tail(outbox[c] \o (h \o inbox[c])) = Tail(outbox[c]) \o (h \o inbox[c])
      /\ outbox[c] \o h \o inbox[c] = outbox[c] \o (h \o inbox[c])
      /\ Tail(outbox[c]) \o h \o inbox[c] = Tail(outbox[c]) \o (h \o inbox[c])
  <2>1. h \o inbox[c] \in Seq(Byte)
    BY <1>1, ConcatProperties
  <2>2. /\ Tail(outbox[c]) \in Seq(Byte)
        /\ Tail(outbox[c] \o (h \o inbox[c])) = Tail(outbox[c]) \o (h \o inbox[c])
    BY <1>1, <2>1, TailConcat
  <2>3. outbox[c] \o h \o inbox[c] = outbox[c] \o (h \o inbox[c])
    <3>1. SameAssociated(outbox[c], h, inbox[c])
      BY <1>1, Reassociated
    <3> QED BY <3>1 DEF SameAssociated
  <2>4. Tail(outbox[c]) \o h \o inbox[c] = Tail(outbox[c]) \o (h \o inbox[c])
    <3>1. SameAssociated(Tail(outbox[c]), h, inbox[c])
      BY <1>1, <2>2, Reassociated
    <3> QED BY <3>1 DEF SameAssociated
  <2> QED BY <2>1, <2>2, <2>3, <2>4
<1>3. Tail(expected[c]) = Tail(outbox[c]) \o h \o inbox[c] /\ Tail(expected[c]) \in Seq(Byte)
  BY <1>1, <1>2, ConcatProperties
<1>4. SocketsInv'
  BY <1>1, <1>2, <1>3 DEF Reads
<1>5. Kept(c, h)'
  BY <1>3 DEF Reads, Kept
<1>6. Echo!Reads(c)
  BY <1>1 DEF Reads, Echo!Reads
<1> QED BY <1>4, <1>5, <1>6 DEF EchoStep, Echo!Next

LEMMA LeavesKeeps ==
  ASSUME SocketsInv, NEW c \in Client, Leaves(c), NEW h
  PROVE  SocketsInv' /\ EchoStep /\ Kept(c, h)'
<1> USE DEF SocketsInv, SocketsTypeOK, Leaves
<1>1. SocketsInv'
  BY EmptySeq
<1>2. Echo!Leaves(c)
  <2>1. c \in EchoHere /\ EchoHere' = EchoHere \ {c} /\ EchoGone' = EchoGone \cup {c}
    BY DEF EchoHere, EchoGone
  <2> QED BY <2>1 DEF Echo!Leaves, EchoHere, EchoGone
<1> QED BY <1>1, <1>2 DEF EchoStep, Echo!Next, Kept

LEMMA PeersKeep ==
  ASSUME SocketsInv, Peers, NEW held \in [Client -> Seq(Byte)],
         \A c \in Client : conn[c] = "none" => held[c] = <<>>,
         \A c \in Client : Kept(c, held[c])
  PROVE  /\ SocketsInv' /\ EchoStep
         /\ \A c \in Client :
              /\ Kept(c, held[c])'
              /\ conn'[c] = conn[c] \/ (conn[c] = "none" /\ conn'[c] = "pending")
              /\ peer[c] = "left" => peer'[c] = "left"
<1>1. PICK c \in Client : Connects(c) \/ Writes(c) \/ Reads(c) \/ Leaves(c)
  BY DEF Peers
<1>2. held[c] \in Seq(Byte) /\ Kept(c, held[c])
  OBVIOUS
<1>3. SocketsInv' /\ EchoStep /\ Kept(c, held[c])'
  <2>1. CASE Connects(c)
    BY <2>1, ConnectsKeeps DEF Connects
  <2>2. CASE Writes(c)
    BY <1>2, <2>2, WritesKeeps
  <2>3. CASE Reads(c)
    BY <1>2, <2>3, ReadsKeeps
  <2>4. CASE Leaves(c)
    BY <2>4, LeavesKeeps
  <2> QED BY <1>1, <2>1, <2>2, <2>3, <2>4
<1>4. ASSUME NEW d \in Client
      PROVE  /\ conn'[d] = conn[d] \/ (conn[d] = "none" /\ conn'[d] = "pending")
             /\ peer[d] = "left" => peer'[d] = "left"
  BY <1>1, <1>4 DEF Connects, Writes, Reads, Leaves, SocketsInv, SocketsTypeOK
<1>5. ASSUME NEW d \in Client, d # c PROVE Kept(d, held[d])'
  <2>1. /\ peer'[d] = peer[d] /\ expected'[d] = expected[d]
        /\ outbox'[d] = outbox[d] /\ inbox'[d] = inbox[d]
    BY <1>1, <1>5 DEF Connects, Writes, Reads, Leaves, SocketsInv, SocketsTypeOK
  <2> QED BY <2>1 DEF Kept
<1> QED BY <1>3, <1>4, <1>5

------------------------------------------------------------------------------
(* What the calls of the servers do. *)
LEMMA AcceptedKeeps ==
  ASSUME SocketsInv, NEW c \in Pending, NEW as \in {"open", "leaked"}, Accepted(c, as)
  PROVE  /\ SocketsInv' /\ EchoStep
         /\ conn'[c] = as
         /\ \A d \in Client \ {c} : conn'[d] = conn[d]
<1> USE DEF SocketsInv, SocketsTypeOK, Accepted, Pending
<1>1. SocketsInv'
  OBVIOUS
<1>2. UNCHANGED <<EchoHere, EchoGone, expected, outbox>>
  BY DEF EchoHere, EchoGone
<1>3. conn'[c] = as /\ \A d \in Client \ {c} : conn'[d] = conn[d]
  OBVIOUS
<1> HIDE DEF SocketsInv, SocketsTypeOK, Accepted, Pending
<1> QED BY <1>1, <1>2, <1>3 DEF EchoStep

LEMMA ReceivedKeeps ==
  ASSUME SocketsInv, NEW c \in Client, NEW n, Received(c, n), NEW h \in Seq(Byte), Kept(c, h),
         NEW got, got = Take(inbox[c], n)
  PROVE  /\ SocketsInv' /\ EchoStep
         /\ got \in Seq(Byte)
         /\ Kept(c, h \o got)'
         /\ \A d \in Client \ {c} : inbox'[d] = inbox[d]
<1>1. inbox[c] \in Seq(Byte) /\ Len(inbox[c]) \in Nat /\ n \in 0 .. Len(inbox[c])
      /\ Len(inbox[c]) > 0
  <2>1. inbox[c] \in Seq(Byte) /\ Len(inbox[c]) \in Nat
    BY LenProperties DEF SocketsInv, SocketsTypeOK
  <2>2. BufSize \in Nat
    BY SocketAssumption
  <2> QED BY <2>1, <2>2 DEF Received, Least
<1>2. got \in Seq(Byte) /\ Drop(inbox[c], n) \in Seq(Byte) /\ inbox[c] = got \o Drop(inbox[c], n)
  BY <1>1, TakeDrop
<1>3. /\ inbox'[c] = Drop(inbox[c], n) /\ inbox' \in [Client -> Seq(Byte)]
      /\ \A d \in Client \ {c} : inbox'[d] = inbox[d]
      /\ UNCHANGED <<peer, conn, outbox, expected>>
  BY <1>2 DEF Received, SocketsInv, SocketsTypeOK
<1>4. SocketsInv'
  <2>1. peer[c] # "out"
    BY <1>1, EmptySeq DEF SocketsInv
  <2> QED BY <1>3, <2>1 DEF SocketsInv, SocketsTypeOK
<1>5. Kept(c, h \o got)'
  <2>1. outbox[c] \in Seq(Byte)
    BY DEF SocketsInv, SocketsTypeOK
  <2> DEFINE o == outbox[c]
  <2> DEFINE i == Drop(inbox[c], n)
  <2>2. o \in Seq(Byte) /\ i \in Seq(Byte) /\ inbox[c] = got \o i
    BY <1>2, <2>1
  <2> HIDE DEF o, i
  <2>3. o \in Seq(Byte) /\ got \in Seq(Byte) /\ i \in Seq(Byte)
    BY <1>2, <2>2
  <2>4. SameJoined(o, h, got, i)
    BY <2>3, Rejoined
  <2>5. peer[c] = "in" => expected[c] = o \o (h \o got) \o i
    BY <2>2, <2>4 DEF Kept, o, SameJoined
  <2>6. o = outbox'[c] /\ i = inbox'[c] /\ expected'[c] = expected[c] /\ peer'[c] = peer[c]
    BY <1>3 DEF o, i
  <2> QED BY <2>5, <2>6 DEF Kept
<1>6. UNCHANGED <<EchoHere, EchoGone, expected, outbox>>
  BY <1>3 DEF EchoHere, EchoGone
<1> QED BY <1>2, <1>3, <1>4, <1>5, <1>6 DEF EchoStep

LEMMA SentKeeps ==
  ASSUME SocketsInv, NEW c \in Client, conn[c] # "none",
         NEW bytes \in Seq(Byte), Sent(c, bytes), NEW rest \in Seq(Byte),
         Kept(c, bytes \o rest)
  PROVE  /\ SocketsInv' /\ EchoStep
         /\ Kept(c, rest)'
         /\ \A d \in Client \ {c} : outbox'[d] = outbox[d]
         /\ UNCHANGED <<peer, conn, inbox, expected>>
<1>1. CASE peer[c] # "in"
  <2>1. UNCHANGED sockets
    BY <1>1 DEF Sent, sockets
  <2> QED BY <1>1, <2>1 DEF sockets, SocketsInv, SocketsTypeOK, EchoStep, EchoHere, EchoGone, Kept
<1>2. CASE peer[c] = "in"
  <2> DEFINE o == outbox[c]
  <2>1. /\ o \in Seq(Byte) /\ inbox[c] \in Seq(Byte) /\ outbox \in [Client -> Seq(Byte)]
        /\ outbox' = [outbox EXCEPT ![c] = @ \o bytes]
        /\ UNCHANGED <<peer, conn, inbox, expected>>
    BY <1>2 DEF SocketsInv, SocketsTypeOK, Sent
  <2>2. o \o bytes \in Seq(Byte) /\ Len(o \o bytes) = Len(o) + Len(bytes)
        /\ Len(o) \in Nat /\ Len(bytes) \in Nat
    BY <2>1, ConcatProperties, LenProperties
  <2>3. /\ outbox'[c] = o \o bytes
        /\ outbox' \in [Client -> Seq(Byte)]
        /\ \A d \in Client \ {c} : outbox'[d] = outbox[d]
    BY <2>1, <2>2
  <2>4. SocketsInv'
    BY <1>2, <2>1, <2>3 DEF SocketsInv, SocketsTypeOK
  <2> HIDE DEF o
  <2>5. expected[c] = o \o (bytes \o rest) \o inbox[c]
    BY <1>2 DEF Kept, o
  <2>6. o \o (bytes \o rest) = o \o bytes \o rest
    <3>1. SameAssociated(o, bytes, rest)
      BY <2>1, Reassociated
    <3> QED BY <3>1 DEF SameAssociated
  <2>7. Kept(c, rest)'
    BY <2>1, <2>3, <2>5, <2>6 DEF Kept
  <2>8. expected[c] = o \o bytes \o (rest \o inbox[c]) /\ rest \o inbox[c] \in Seq(Byte)
    <3>1. SameAssociated(o \o bytes, rest, inbox[c])
      BY <2>1, <2>2, Reassociated
    <3>2. rest \o inbox[c] \in Seq(Byte)
      BY <2>1, ConcatProperties
    <3> QED BY <2>5, <2>6, <3>1, <3>2 DEF SameAssociated
  <2>9. SubSeq(expected[c], 1, Len(o) + Len(bytes)) = o \o bytes
    BY <2>2, <2>8, TakeConcat DEF Take
  <2>10. \E k \in Nat : Len(expected[c]) = Len(o) + Len(bytes) + k
    <3>1. Len(rest \o inbox[c]) \in Nat
      BY <2>8, LenProperties
    <3>2. Len(expected[c]) = Len(o \o bytes) + Len(rest \o inbox[c])
      BY <2>2, <2>8, ConcatProperties
    <3> QED BY <2>2, <3>1, <3>2
  <2>11. Len(bytes) > 0
    <3>1. Space(c) \in Int
      BY <2>2, SocketAssumption DEF Space, o
    <3> QED BY <2>2, <3>1 DEF Sent
  <2>12. Echo!Echoes(c)
    <3>1. Len(o) + Len(bytes) \in Len(o) + 1 .. Len(expected[c])
      <4>1. PICK k \in Nat : Len(expected[c]) = Len(o) + Len(bytes) + k
        BY <2>10
      <4> QED BY <2>2, <2>11, <4>1
    <3>2. outbox' = [outbox EXCEPT ![c] = SubSeq(expected[c], 1, Len(o) + Len(bytes))]
      BY <2>1, <2>9 DEF o
    <3> QED BY <1>2, <2>1, <3>1, <3>2 DEF Echo!Echoes, o
  <2> QED BY <2>1, <2>3, <2>4, <2>7, <2>12 DEF EchoStep, Echo!Next
<1> QED BY <1>1, <1>2

LEMMA ClosedKeeps ==
  ASSUME SocketsInv, NEW c \in Client, peer[c] = "left", Closed(c), NEW h
  PROVE  /\ SocketsInv' /\ EchoStep
         /\ Kept(c, h)'
         /\ conn'[c] = "none"
         /\ \A d \in Client \ {c} : UNCHANGED <<peer[d], conn[d], inbox[d], outbox[d], expected[d]>>
<1> USE DEF SocketsInv, SocketsTypeOK, Closed
<1>1. SocketsInv'
  BY EmptySeq
<1>2. Echo!Closes(c)
  <2>1. expected' = expected /\ outbox' = outbox
    OBVIOUS
  <2>2. EchoHere' = EchoHere /\ c \in EchoGone /\ EchoGone' = EchoGone \ {c}
    BY DEF EchoHere, EchoGone
  <2> QED BY <2>1, <2>2 DEF Echo!Closes, EchoHere, EchoGone
<1> QED BY <1>1, <1>2 DEF EchoStep, Echo!Next, Kept
==============================================================================
