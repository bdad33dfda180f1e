--------------------------- MODULE SequenceLemmas ----------------------------
(***************************************************************************)
(* Facts that the proofs of several components rest on: about queues, of   *)
(* sequences whose elements are distinct, and about loops, of functions    *)
(* defined by recursion over the natural numbers.                          *)
(***************************************************************************)
EXTENDS Sequences, Integers, SequenceTheorems, WellFoundedInduction, TLAPS

LEMMA NonEmpty ==
  ASSUME NEW S, NEW q \in Seq(S), q # <<>>
  PROVE  Len(q) \in Nat /\ Len(q) > 0 /\ 1 \in DOMAIN q /\ Head(q) = q[1]
         /\ Head(q) \in Range(q) /\ Range(q) \subseteq S
<1>1. Len(q) \in Nat /\ Len(q) > 0 /\ DOMAIN q = 1 .. Len(q) /\ Head(q) = q[1]
  BY EmptySeq, LenProperties
<1>2. \A i \in DOMAIN q : q[i] \in S
  BY <1>1, ElementOfSeq
<1> QED BY <1>1, <1>2 DEF Range

(* Taking from the front, adding at the back and both, whether or not the elements
   are distinct. *)
LEMMA TailRange ==
  ASSUME NEW S, NEW q \in Seq(S), q # <<>>
  PROVE  /\ Tail(q) \in Seq(S)
         /\ Range(Tail(q)) \subseteq Range(q)
         /\ Range(q) \ {Head(q)} \subseteq Range(Tail(q))
<1> DEFINE t == Tail(q)
<1>1. /\ t \in Seq(S) /\ Len(t) = Len(q) - 1 /\ Len(q) \in Nat /\ Len(q) > 0
      /\ DOMAIN q = 1 .. Len(q) /\ DOMAIN t = 1 .. Len(t) /\ Head(q) = q[1]
      /\ \A i \in 1 .. Len(t) : t[i] = q[i + 1]
  BY NonEmpty, HeadTailProperties, LenProperties
<1> HIDE DEF t
<1>2. ASSUME NEW i \in DOMAIN t PROVE t[i] \in Range(q)
  <2>1. i + 1 \in DOMAIN q /\ t[i] = q[i + 1]
    BY <1>1
  <2> QED BY <2>1 DEF Range
<1>3. ASSUME NEW i \in DOMAIN q, q[i] # Head(q) PROVE q[i] \in Range(t)
  <2>1. i - 1 \in DOMAIN t /\ t[i - 1] = q[(i - 1) + 1] /\ (i - 1) + 1 = i
    BY <1>1, <1>3
  <2> QED BY <2>1 DEF Range
<1> QED BY <1>1, <1>2, <1>3 DEF t, Range

LEMMA AppendRange ==
  ASSUME NEW S, NEW q \in Seq(S), NEW x \in S
  PROVE  /\ Append(q, x) \in Seq(S)
         /\ Append(q, x) # <<>>
         /\ Range(Append(q, x)) = Range(q) \cup {x}
         /\ q # <<>> => Head(Append(q, x)) = Head(q)
<1> DEFINE a == Append(q, x)
<1>1. /\ a \in Seq(S) /\ Len(a) = Len(q) + 1 /\ Len(q) \in Nat
      /\ DOMAIN q = 1 .. Len(q) /\ DOMAIN a = 1 .. Len(a)
      /\ \A i \in 1 .. Len(q) : a[i] = q[i]
      /\ a[Len(q) + 1] = x
  BY AppendProperties, LenProperties
<1> HIDE DEF a
<1>2. a # <<>>
  BY <1>1, EmptySeq
<1>3. \A y \in Range(a) : y \in Range(q) \cup {x}
  BY <1>1 DEF Range
<1>4. \A y \in Range(q) : y \in Range(a)
  BY <1>1 DEF Range
<1>5. x \in Range(a)
  <2>1. Len(q) + 1 \in DOMAIN a
    BY <1>1
  <2> QED BY <2>1, <1>1 DEF Range
<1>6. q # <<>> => Head(a) = Head(q)
  BY <1>1, <1>2, NonEmpty
<1> QED BY <1>1, <1>2, <1>3, <1>4, <1>5, <1>6 DEF a

LEMMA RotateRange ==
  ASSUME NEW S, NEW q \in Seq(S), q # <<>>
  PROVE  /\ Append(Tail(q), Head(q)) \in Seq(S)
         /\ Append(Tail(q), Head(q)) # <<>>
         /\ Range(Append(Tail(q), Head(q))) = Range(q)
<1> DEFINE t == Tail(q)
           x == Head(q)
<1>1. t \in Seq(S) /\ Range(t) \subseteq Range(q) /\ Range(q) \ {x} \subseteq Range(t)
  BY TailRange
<1>2. x \in Range(q) /\ x \in S
  BY NonEmpty
<1> HIDE DEF t, x
<1>3. /\ Append(t, x) \in Seq(S) /\ Append(t, x) # <<>>
      /\ Range(Append(t, x)) = Range(t) \cup {x}
  BY <1>1, <1>2, AppendRange
<1> QED BY <1>1, <1>2, <1>3 DEF t, x

LEMMA TailDistinct ==
  ASSUME NEW S, NEW q \in Seq(S), q # <<>>, IsInjective(q)
  PROVE  /\ Tail(q) \in Seq(S)
         /\ IsInjective(Tail(q))
         /\ Range(Tail(q)) = Range(q) \ {Head(q)}
<1> DEFINE t == Tail(q)
<1>1. /\ t \in Seq(S) /\ Len(t) = Len(q) - 1 /\ Len(q) \in Nat /\ Len(q) > 0
      /\ DOMAIN q = 1 .. Len(q) /\ DOMAIN t = 1 .. Len(t) /\ Head(q) = q[1]
      /\ \A i \in 1 .. Len(t) : t[i] = q[i + 1]
  BY NonEmpty, HeadTailProperties, LenProperties
<1> HIDE DEF t
<1>2. IsInjective(t)
  <2> SUFFICES ASSUME NEW i \in DOMAIN t, NEW j \in DOMAIN t, t[i] = t[j]
               PROVE  i = j
    BY DEF IsInjective
  <2>1. i + 1 \in DOMAIN q /\ j + 1 \in DOMAIN q /\ q[i + 1] = q[j + 1]
    BY <1>1
  <2>2. i + 1 = j + 1
    BY <2>1 DEF IsInjective
  <2> QED BY <2>2, <1>1
<1>3. ASSUME NEW x \in Range(t) PROVE x \in Range(q) \ {Head(q)}
  <2>1. PICK i \in DOMAIN t : x = t[i]
    BY DEF Range
  <2>2. i + 1 \in DOMAIN q /\ i + 1 # 1 /\ 1 \in DOMAIN q /\ x = q[i + 1]
    BY <2>1, <1>1
  <2>3. q[i + 1] # q[1]
    BY <2>2 DEF IsInjective
  <2> QED BY <2>2, <2>3, <1>1 DEF Range
<1>4. ASSUME NEW x \in Range(q) \ {Head(q)} PROVE x \in Range(t)
  <2>1. PICK i \in DOMAIN q : x = q[i]
    BY DEF Range
  <2>2. i # 1
    BY <2>1, <1>1
  <2>3. i - 1 \in DOMAIN t /\ t[i - 1] = q[(i - 1) + 1] /\ (i - 1) + 1 = i
    BY <2>2, <1>1
  <2> QED BY <2>1, <2>3 DEF Range
<1> QED BY <1>1, <1>2, <1>3, <1>4 DEF t

LEMMA AppendDistinct ==
  ASSUME NEW S, NEW q \in Seq(S), IsInjective(q), NEW x \in S, x \notin Range(q)
  PROVE  /\ Append(q, x) \in Seq(S)
         /\ Append(q, x) # <<>>
         /\ IsInjective(Append(q, x))
         /\ Range(Append(q, x)) = Range(q) \cup {x}
         /\ q # <<>> => Head(Append(q, x)) = Head(q)
<1> DEFINE a == Append(q, x)
<1>1. /\ Len(a) = Len(q) + 1 /\ Len(q) \in Nat
      /\ DOMAIN q = 1 .. Len(q) /\ DOMAIN a = 1 .. Len(a)
      /\ \A i \in 1 .. Len(q) : a[i] = q[i]
      /\ a[Len(q) + 1] = x
  BY AppendProperties, LenProperties
<1> HIDE DEF a
<1>2. \A i \in DOMAIN q : q[i] # x
  BY DEF Range
<1>3. IsInjective(a)
  <2> SUFFICES ASSUME NEW i \in DOMAIN a, NEW j \in DOMAIN a, a[i] = a[j]
               PROVE  i = j
    BY DEF IsInjective
  <2>1. CASE i \in DOMAIN q /\ j \in DOMAIN q
    BY <2>1, <1>1 DEF IsInjective
  <2>2. CASE i \notin DOMAIN q
    BY <2>2, <1>1, <1>2
  <2>3. CASE j \notin DOMAIN q
    BY <2>3, <1>1, <1>2
  <2> QED BY <2>1, <2>2, <2>3
<1> QED BY <1>3, AppendRange DEF a

LEMMA PrependDistinct ==
  ASSUME NEW S, NEW q \in Seq(S), IsInjective(q), NEW x \in S, x \notin Range(q)
  PROVE  /\ <<x>> \o q \in Seq(S)
         /\ <<x>> \o q # <<>>
         /\ IsInjective(<<x>> \o q)
         /\ Range(<<x>> \o q) = Range(q) \cup {x}
         /\ Head(<<x>> \o q) = x
<1> DEFINE a == <<x>> \o q
<1>1. /\ a \in Seq(S) /\ Len(a) = Len(q) + 1 /\ Len(q) \in Nat
      /\ DOMAIN q = 1 .. Len(q) /\ DOMAIN a = 1 .. Len(a)
      /\ a[1] = x
      /\ \A i \in 1 .. Len(q) : a[i + 1] = q[i]
  <2>1. <<x>> \in Seq(S) /\ Len(<<x>>) = 1 /\ <<x>>[1] = x
    OBVIOUS
  <2>2. /\ a \in Seq(S) /\ Len(a) = 1 + Len(q)
        /\ \A i \in 1 .. 1 + Len(q) : a[i] = IF i <= 1 THEN <<x>>[i] ELSE q[i - 1]
    BY <2>1, ConcatProperties
  <2>3. Len(q) \in Nat /\ DOMAIN q = 1 .. Len(q) /\ DOMAIN a = 1 .. Len(a)
    BY <2>2, LenProperties
  <2> HIDE DEF a
  <2>4. a[1] = x
    BY <2>1, <2>2, <2>3
  <2>5. \A i \in 1 .. Len(q) : a[i + 1] = q[i]
    BY <2>2, <2>3
  <2> QED BY <2>2, <2>3, <2>4, <2>5
<1> HIDE DEF a
<1>2. a # <<>>
  BY <1>1, EmptySeq
<1>3. \A i \in DOMAIN q : q[i] # x
  BY DEF Range
<1>7. ASSUME NEW i \in DOMAIN a, i # 1 PROVE i - 1 \in DOMAIN q /\ a[i] = q[i - 1]
  <2>1. i - 1 \in 1 .. Len(q) /\ (i - 1) + 1 = i
    BY <1>7, <1>1
  <2> QED BY <2>1, <1>1
<1>4. IsInjective(a)
  <2> SUFFICES ASSUME NEW i \in DOMAIN a, NEW j \in DOMAIN a, a[i] = a[j]
               PROVE  i = j
    BY DEF IsInjective
  <2>1. CASE i # 1 /\ j # 1
    <3>1. i - 1 = j - 1
      BY <2>1, <1>7 DEF IsInjective
    <3> QED BY <3>1, <1>1
  <2>2. CASE i = 1
    BY <2>2, <1>1, <1>3, <1>7
  <2>3. CASE j = 1
    BY <2>3, <1>1, <1>3, <1>7
  <2> QED BY <2>1, <2>2, <2>3
<1>5. Range(a) = Range(q) \cup {x}
  <2>1. \A y \in Range(a) : y \in Range(q) \cup {x}
    BY <1>1, <1>7 DEF Range
  <2>2. ASSUME NEW y \in Range(q) PROVE y \in Range(a)
    <3>1. PICK i \in DOMAIN q : y = q[i]
      BY DEF Range
    <3>2. i + 1 \in DOMAIN a /\ a[i + 1] = y
      BY <3>1, <1>1
    <3> QED BY <3>2 DEF Range
  <2>3. x \in Range(a)
    BY <1>1 DEF Range
  <2> QED BY <2>1, <2>2, <2>3
<1>6. Head(a) = x
  BY <1>1, <1>2, NonEmpty
<1> QED BY <1>1, <1>2, <1>4, <1>5, <1>6 DEF a

(* async_skip: the first goes to the back. *)
LEMMA RotateDistinct ==
  ASSUME NEW S, NEW q \in Seq(S), q # <<>>, IsInjective(q)
  PROVE  /\ Append(Tail(q), Head(q)) \in Seq(S)
         /\ Append(Tail(q), Head(q)) # <<>>
         /\ IsInjective(Append(Tail(q), Head(q)))
         /\ Range(Append(Tail(q), Head(q))) = Range(q)
<1> DEFINE t == Tail(q)
<1> DEFINE x == Head(q)
<1>1. t \in Seq(S) /\ IsInjective(t) /\ Range(t) = Range(q) \ {x}
  BY TailDistinct
<1>2. x \in Range(q) /\ x \in S
  BY NonEmpty
<1> HIDE DEF t, x
<1>3. /\ Append(t, x) \in Seq(S) /\ Append(t, x) # <<>> /\ IsInjective(Append(t, x))
      /\ Range(Append(t, x)) = Range(t) \cup {x}
  BY <1>1, <1>2, AppendDistinct
<1> QED BY <1>1, <1>2, <1>3 DEF t, x

------------------------------------------------------------------------------
(* The least-number principle. *)
LEMMA LeastElement ==
  ASSUME NEW T, T \subseteq Nat, T # {}
  PROVE  \E x \in T : \A y \in T : x <= y
<1>1. PICK x \in T : \A y \in T : ~ (<<y, x>> \in OpToRel(<, Nat))
  BY WFMin, NatLessThanWellFounded
<1>2. ASSUME NEW y \in T PROVE x <= y
  <2>1. x \in Nat /\ y \in Nat
    OBVIOUS
  <2>2. y < x => <<y, x>> \in OpToRel(<, Nat)
    BY <2>1 DEF OpToRel
  <2>3. ~ (y < x)
    BY <2>2, <1>1
  <2> QED BY <2>1, <2>3
<1> QED BY <1>2

(* Induction over the natural numbers, for a set in place of a predicate. *)
LEMMA SetInduction ==
  ASSUME NEW S, 0 \in S, \A n \in Nat : n \in S => n + 1 \in S
  PROVE  Nat \subseteq S
<1> SUFFICES ASSUME Nat \ S # {} PROVE FALSE
  OBVIOUS
<1>1. PICK x \in Nat \ S : \A y \in Nat \ S : x <= y
  BY LeastElement
<1>2. x \in Nat /\ x # 0 /\ x - 1 \in Nat /\ (x - 1) + 1 = x /\ ~ (x <= x - 1)
  BY <1>1
<1>3. x - 1 \in S
  BY <1>1, <1>2
<1> QED BY <1>1, <1>2, <1>3

(* g holds what the first n rounds of a loop compute from a; round i takes the
   value x to step[<<i, x>>]. *)
IsRun(g, n, a, step) ==
  /\ g[0] = a
  /\ \A i \in 0 .. n - 1 : g[i + 1] = step[<<i, g[i]>>]

LEMMA RunsAgree ==
  ASSUME NEW a, NEW step, NEW m \in Nat, NEW n \in Nat, NEW g, NEW h,
         IsRun(g, m, a, step), IsRun(h, n, a, step)
  PROVE  \A i \in Nat : i <= m /\ i <= n => g[i] = h[i]
<1> DEFINE S == {i \in Nat : i <= m /\ i <= n => g[i] = h[i]}
<1>1. 0 \in S
  BY DEF IsRun
<1>2. ASSUME NEW i \in Nat, i \in S PROVE i + 1 \in S
  <2> SUFFICES ASSUME i + 1 <= m, i + 1 <= n PROVE g[i + 1] = h[i + 1]
    OBVIOUS
  <2>1. i \in 0 .. m - 1 /\ i \in 0 .. n - 1 /\ g[i] = h[i]
    BY <1>2
  <2> QED BY <2>1 DEF IsRun
<1> HIDE DEF S
<1>3. Nat \subseteq S
  BY <1>1, <1>2, SetInduction
<1> QED BY <1>3 DEF S

Iterates(f, a, step) ==
  /\ f[0] = a
  /\ \A i \in Nat : f[i + 1] = step[<<i, f[i]>>]

(* Every loop computes something: the recursive functions of the modules exist. *)
LEMMA RunExists ==
  ASSUME NEW S, NEW a \in S, NEW step \in [Nat \X S -> S]
  PROVE  \E f \in [Nat -> S] : Iterates(f, a, step)
<1> DEFINE T == {n \in Nat : \E g \in [0 .. n -> S] : IsRun(g, n, a, step)}
<1>1. 0 \in T
  <2> DEFINE g == [i \in 0 .. 0 |-> a]
  <2>1. g \in [0 .. 0 -> S] /\ IsRun(g, 0, a, step)
    BY DEF IsRun
  <2> QED BY <2>1
<1>2. ASSUME NEW n \in Nat, n \in T PROVE n + 1 \in T
  <2>1. PICK g \in [0 .. n -> S] : IsRun(g, n, a, step)
    BY <1>2
  <2> DEFINE h == [i \in 0 .. n + 1 |-> IF i = n + 1 THEN step[<<n, g[n]>>] ELSE g[i]]
  <2>2. g[n] \in S /\ <<n, g[n]>> \in Nat \X S
    BY <2>1
  <2>3. h \in [0 .. n + 1 -> S]
    BY <2>1, <2>2
  <2>4. h[0] = a
    BY <2>1 DEF IsRun
  <2>5. ASSUME NEW i \in 0 .. (n + 1) - 1 PROVE h[i + 1] = step[<<i, h[i]>>]
    <3>1. CASE i = n
      <4>1. n \in 0 .. n + 1 /\ n + 1 \in 0 .. n + 1 /\ n # n + 1
        OBVIOUS
      <4> QED BY <3>1, <4>1
    <3>2. CASE i # n
      <4>1. i \in 0 .. n - 1 /\ i + 1 \in 0 .. n + 1 /\ i \in 0 .. n + 1 /\ i + 1 # n + 1 /\ i # n + 1
        BY <3>2
      <4> QED BY <2>1, <4>1 DEF IsRun
    <3> QED BY <3>1, <3>2
  <2>6. h \in [0 .. n + 1 -> S] /\ IsRun(h, n + 1, a, step)
    BY <2>3, <2>4, <2>5 DEF IsRun
  <2> QED BY <2>6
<1> HIDE DEF T
<1>3. \A n \in Nat : \E g \in [0 .. n -> S] : IsRun(g, n, a, step)
  <2>1. Nat \subseteq T
    BY <1>1, <1>2, SetInduction
  <2> QED BY <2>1 DEF T
<1> DEFINE G(n) == CHOOSE g \in [0 .. n -> S] : IsRun(g, n, a, step)
           f == [n \in Nat |-> G(n)[n]]
<1>4. ASSUME NEW n \in Nat PROVE G(n) \in [0 .. n -> S] /\ IsRun(G(n), n, a, step)
  BY <1>3
<1> HIDE DEF G
<1>5. f \in [Nat -> S]
  BY <1>4
<1>6. f[0] = a
  BY <1>4 DEF IsRun
<1>7. ASSUME NEW i \in Nat PROVE f[i + 1] = step[<<i, f[i]>>]
  <2>1. G(i + 1)[i + 1] = step[<<i, G(i + 1)[i]>>]
    <3>1. i + 1 \in Nat /\ i \in 0 .. (i + 1) - 1
      OBVIOUS
    <3>2. IsRun(G(i + 1), i + 1, a, step)
      BY <3>1, <1>4
    <3> QED BY <3>1, <3>2 DEF IsRun
  <2>2. G(i + 1)[i] = G(i)[i]
    <3>1. i + 1 \in Nat /\ i <= i + 1 /\ i <= i
      OBVIOUS
    <3> QED BY <3>1, <1>4, RunsAgree
  <2> QED BY <2>1, <2>2
<1>8. Iterates(f, a, step)
  BY <1>6, <1>7 DEF Iterates
<1> QED BY <1>5, <1>8
==============================================================================
