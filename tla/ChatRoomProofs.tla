--------------------------- MODULE ChatRoomProofs ---------------------------
(* Proofs about ChatRoom, for any connections, users and messages.         *)
EXTENDS ChatRoom, WellFoundedInduction, TLAPS

-----------------------------------------------------------------------------
(* Lemmas: sequences that grow at their end or lose their first element.   *)

LEMMA AppendSet ==
  ASSUME NEW S, NEW s \in Seq(S), NEW m \in S
  PROVE  Append(s, m) \in Seq(S) /\ ToSet(Append(s, m)) = ToSet(s) \cup {m}
<1>1. /\ Append(s, m) \in Seq(S) /\ Len(Append(s, m)) = Len(s) + 1
      /\ \A i \in 1 .. Len(s) : Append(s, m)[i] = s[i]
      /\ Append(s, m)[Len(s) + 1] = m
  OBVIOUS
<1>2. DOMAIN s = 1 .. Len(s) /\ DOMAIN Append(s, m) = 1 .. Len(s) + 1 /\ Len(s) \in Nat
  OBVIOUS
<1> QED
  BY <1>1, <1>2 DEF ToSet

LEMMA TailSet ==
  ASSUME NEW S, NEW s \in Seq(S), s # <<>>
  PROVE  /\ Tail(s) \in Seq(S) /\ Head(s) \in S
         /\ ToSet(s) = {Head(s)} \cup ToSet(Tail(s))
<1>1. /\ Tail(s) \in Seq(S) /\ Head(s) \in S /\ Head(s) = s[1]
      /\ Len(s) \in Nat /\ Len(s) > 0 /\ Len(Tail(s)) = Len(s) - 1
      /\ \A i \in 1 .. Len(s) - 1 : Tail(s)[i] = s[i + 1]
  OBVIOUS
<1>2. DOMAIN s = 1 .. Len(s) /\ DOMAIN Tail(s) = 1 .. Len(s) - 1
  BY <1>1
<1>3. \A i \in DOMAIN s : s[i] = Head(s) \/ \E j \in DOMAIN Tail(s) : Tail(s)[j] = s[i]
  <2> SUFFICES ASSUME NEW i \in 1 .. Len(s), i # 1
               PROVE  \E j \in 1 .. Len(s) - 1 : Tail(s)[j] = s[i]
    BY <1>1, <1>2
  <2>1. i - 1 \in 1 .. Len(s) - 1 /\ Tail(s)[i - 1] = s[i]
    BY <1>1
  <2> QED
    BY <2>1
<1>4. \A j \in DOMAIN Tail(s) : \E i \in DOMAIN s : Tail(s)[j] = s[i]
  <2> SUFFICES ASSUME NEW j \in 1 .. Len(s) - 1
               PROVE  \E i \in 1 .. Len(s) : Tail(s)[j] = s[i]
    BY <1>2
  <2>1. j + 1 \in 1 .. Len(s) /\ Tail(s)[j] = s[j + 1]
    BY <1>1
  <2> QED
    BY <2>1
<1>5. 1 \in DOMAIN s
  BY <1>1, <1>2
<1>6. ToSet(s) \subseteq {Head(s)} \cup ToSet(Tail(s))
  BY <1>3 DEF ToSet
<1>7. ToSet(Tail(s)) \subseteq ToSet(s)
  BY <1>4 DEF ToSet
<1>8. Head(s) \in ToSet(s)
  BY <1>1, <1>5 DEF ToSet
<1> QED
  BY <1>1, <1>6, <1>7, <1>8

\* In two sets of messages, those of one connection come in this order.
Precedes(S, T) == \A m \in S, n \in T : m[1] = n[1] => m[2] <= n[2]

Ordered(s) == \A c \in Conns : NonDecreasing(s, c)

LEMMA AppendOrder ==
  ASSUME NEW s \in Seq(Messages), NEW m \in Messages, Ordered(s), Precedes(ToSet(s), {m})
  PROVE  Ordered(Append(s, m))
<1>1. /\ Append(s, m) \in Seq(Messages) /\ Len(s) \in Nat
      /\ \A i \in 1 .. Len(s) : Append(s, m)[i] = s[i]
      /\ Append(s, m)[Len(s) + 1] = m
      /\ DOMAIN s = 1 .. Len(s) /\ DOMAIN Append(s, m) = 1 .. Len(s) + 1
  OBVIOUS
<1>2. \A i \in 1 .. Len(s) : s[i][1] = m[1] => s[i][2] <= m[2]
  BY <1>1 DEF Precedes, ToSet
<1>3. SUFFICES ASSUME NEW c \in Conns, NEW i \in 1 .. Len(s) + 1, NEW j \in 1 .. Len(s) + 1, i < j,
                      Append(s, m)[i][1] = c, Append(s, m)[j][1] = c
               PROVE  Append(s, m)[i][2] <= Append(s, m)[j][2]
  BY <1>1 DEF Ordered, NonDecreasing
<1>4. i \in 1 .. Len(s)
  BY <1>1, <1>3
<1>5. CASE j = Len(s) + 1
  BY <1>1, <1>2, <1>3, <1>4, <1>5
<1>6. CASE j \in 1 .. Len(s)
  BY <1>1, <1>3, <1>4, <1>6 DEF Ordered, NonDecreasing
<1> QED
  BY <1>1, <1>5, <1>6

LEMMA TailOrder ==
  ASSUME NEW s \in Seq(Messages), s # <<>>, Ordered(s)
  PROVE  Ordered(Tail(s)) /\ Precedes({Head(s)}, ToSet(Tail(s)))
<1>1. /\ Tail(s) \in Seq(Messages) /\ Head(s) = s[1] /\ s[1] \in Messages
      /\ Len(s) \in Nat /\ Len(s) > 0
      /\ \A i \in 1 .. Len(s) - 1 : Tail(s)[i] = s[i + 1]
      /\ DOMAIN s = 1 .. Len(s) /\ DOMAIN Tail(s) = 1 .. Len(s) - 1
  OBVIOUS
<1>2. Ordered(Tail(s))
  <2> SUFFICES ASSUME NEW c \in Conns, NEW i \in 1 .. Len(s) - 1, NEW j \in 1 .. Len(s) - 1, i < j,
                      Tail(s)[i][1] = c, Tail(s)[j][1] = c
               PROVE  Tail(s)[i][2] <= Tail(s)[j][2]
    BY <1>1 DEF Ordered, NonDecreasing
  <2>1. i + 1 \in 1 .. Len(s) /\ j + 1 \in 1 .. Len(s) /\ i + 1 < j + 1
    BY <1>1
  <2> QED
    BY <1>1, <2>1 DEF Ordered, NonDecreasing
<1>3. Precedes({Head(s)}, ToSet(Tail(s)))
  <2> SUFFICES ASSUME NEW j \in 1 .. Len(s) - 1, s[1][1] = Tail(s)[j][1]
               PROVE  s[1][2] <= Tail(s)[j][2]
    BY <1>1 DEF Precedes, ToSet
  <2>1. s[1][1] \in Conns
    BY <1>1 DEF Messages
  <2>2. 1 \in 1 .. Len(s) /\ j + 1 \in 1 .. Len(s) /\ 1 < j + 1 /\ Tail(s)[j] = s[j + 1]
    BY <1>1
  <2> QED
    BY <1>1, <2>1, <2>2 DEF Ordered, NonDecreasing
<1> QED
  BY <1>2, <1>3
-----------------------------------------------------------------------------
(* Filters, by induction over the elements: what Those yields for a        *)
(* sequence that grows at its end, or that is taken from its head.         *)

\* A set of numbers that holds 0 and with each number the next holds all of them.
LEMMA SetInduction ==
  ASSUME NEW S \in SUBSET Nat, 0 \in S, \A n \in S : n + 1 \in S
  PROVE  S = Nat
<1>1. SUFFICES ASSUME Nat \ S # {} PROVE FALSE
  OBVIOUS
<1>2. PICK x \in Nat \ S : \A y \in Nat \ S : ~ (<<y, x>> \in OpToRel(<, Nat))
  BY <1>1, NatLessThanWellFounded, WFMin
<1>3. x # 0 /\ x - 1 \in Nat /\ x - 1 < x
  OBVIOUS
<1>4. <<x - 1, x>> \in OpToRel(<, Nat)
  BY <1>3 DEF OpToRel
<1>5. x - 1 \in S
  BY <1>2, <1>4, <1>3
<1>6. x - 1 + 1 \in S
  BY <1>5
<1> QED
  BY <1>3, <1>6

\* k is the function that Those(s, S) chooses, for the first n elements of s.
Kept(k, s, S, n) ==
  k = [i \in 0 .. n |-> IF i = 0 THEN <<>>
                        ELSE IF s[i] \in S THEN Append(k[i - 1], s[i]) ELSE k[i - 1]]

LEMMA KeptExists ==
  ASSUME NEW s, NEW S, NEW n \in Nat
  PROVE  \E k : Kept(k, s, S, n)
<1> DEFINE N == {m \in Nat : \E k : Kept(k, s, S, m)}
<1>1. 0 \in N
  <2>1. Kept([i \in 0 .. 0 |-> <<>>], s, S, 0)
    BY DEF Kept
  <2> QED
    BY <2>1
<1>2. ASSUME NEW m \in N PROVE m + 1 \in N
  <2>1. PICK k : Kept(k, s, S, m)
    OBVIOUS
  <2> DEFINE h == [i \in 0 .. m + 1 |-> IF i <= m THEN k[i] ELSE
          IF s[i] \in S THEN Append(k[i - 1], s[i]) ELSE k[i - 1]]
  <2>0. m \in Nat OBVIOUS
  <2>2. ASSUME NEW i \in 0 .. m + 1
        PROVE h[i] = IF i = 0 THEN <<>>
                        ELSE IF s[i] \in S THEN Append(h[i - 1], s[i]) ELSE h[i - 1]
    <3>1. CASE i = 0
      BY <2>0, <2>1, <3>1 DEF Kept
    <3>2. CASE i # 0
      <4>1. i - 1 \in 0 .. m /\ h[i - 1] = k[i - 1]
         BY <2>0, <3>2
      <4>2. CASE i <= m
         <5>1. i \in 0 .. m /\ h[i] = k[i]
           BY <4>2, <2>0
         <5> HIDE DEF h
         <5> QED BY <5>1, <4>1, <3>2, <2>1 DEF Kept
      <4>3. CASE i = m + 1
         <5>1. h[i] = IF s[i] \in S THEN Append(k[i - 1], s[i]) ELSE k[i - 1]
           BY <4>3, <2>0
         <5> HIDE DEF h
         <5> QED BY <5>1, <4>1, <3>2
      <4> QED
        BY <4>2, <4>3, <2>0
    <3> QED
      BY <3>1, <3>2
  <2>3. Kept(h, s, S, m + 1)
    <3>1. h = [i \in 0 .. m + 1 |-> h[i]]
      OBVIOUS
    <3> HIDE DEF h
    <3> QED
      BY <2>2, <3>1 DEF Kept
  <2> HIDE DEF h
  <2> QED
    BY <2>0, <2>3
<1>3. N = Nat
  <2> HIDE DEF N
  <2>1. N \in SUBSET Nat BY DEF N
  <2> QED
    BY <1>1, <1>2, <2>1, SetInduction
<1> QED
  BY <1>3

LEMMA ThoseIsKept ==
  ASSUME NEW S, NEW M, NEW s \in Seq(M)
  PROVE  \E k : Kept(k, s, S, Len(s)) /\ Those(s, S) = k[Len(s)]
<1>0. Len(s) \in Nat OBVIOUS
<1>1. \E k : Kept(k, s, S, Len(s))
  BY <1>0, KeptExists
<1> DEFINE c == CHOOSE k : Kept(k, s, S, Len(s))
<1>2. Kept(c, s, S, Len(s))
  BY <1>1
<1>3. Those(s, S) = c[Len(s)]
  BY Zenon DEF Those, Kept
<1> QED
  BY <1>2, <1>3

\* What k computes, element by element.
Steps(k, s, S, n) ==
  /\ k[0] = <<>>
  /\ \A i \in 1 .. n : k[i] = IF s[i] \in S THEN Append(k[i - 1], s[i]) ELSE k[i - 1]

LEMMA KeptSteps ==
  ASSUME NEW S, NEW s, NEW n \in Nat, NEW k, Kept(k, s, S, n)
  PROVE  Steps(k, s, S, n)
<1>1. 0 \in 0 .. n /\ \A i \in 1 .. n : i \in 0 .. n /\ i # 0
  OBVIOUS
<1> QED
  BY <1>1 DEF Kept, Steps

LEMMA ThoseSteps ==
  ASSUME NEW S, NEW M, NEW s \in Seq(M)
  PROVE  \E k : Steps(k, s, S, Len(s)) /\ Those(s, S) = k[Len(s)]
<1>1. Len(s) \in Nat
  OBVIOUS
<1> QED
  BY <1>1, ThoseIsKept, KeptSteps

\* A filter for S yields elements of S.
LEMMA KeptType ==
  ASSUME NEW S, NEW s, NEW n \in Nat, NEW k, Steps(k, s, S, n)
  PROVE  \A i \in 0 .. n : k[i] \in Seq(S)
<1> DEFINE N == {i \in Nat : i <= n => k[i] \in Seq(S)}
<1>1. 0 \in N
  <2>1. <<>> \in Seq(S)
    OBVIOUS
  <2> QED
    BY <2>1 DEF Steps
<1>2. ASSUME NEW i \in N PROVE i + 1 \in N
  <2>1. SUFFICES ASSUME i + 1 <= n PROVE k[i + 1] \in Seq(S)
    OBVIOUS
  <2>2. i \in Nat /\ k[i] \in Seq(S) /\ i + 1 \in 1 .. n /\ (i + 1) - 1 = i
    BY <2>1
  <2>3. k[i + 1] = IF s[i + 1] \in S THEN Append(k[i], s[i + 1]) ELSE k[i]
    BY <2>2 DEF Steps
  <2> QED
    BY <2>2, <2>3
<1>3. N = Nat
  <2> HIDE DEF N
  <2>1. N \in SUBSET Nat
    BY DEF N
  <2> QED
    BY <1>1, <1>2, <2>1, SetInduction
<1> QED
  BY <1>3

\* The filter of a prefix is a step of the filter of the whole.
LEMMA KeptAgree ==
  ASSUME NEW S, NEW s, NEW t, NEW n \in Nat, NEW k, NEW h,
         Steps(k, s, S, n), Steps(h, t, S, n + 1), \A i \in 1 .. n : s[i] = t[i]
  PROVE  k[n] = h[n]
<1> DEFINE N == {i \in Nat : i <= n => k[i] = h[i]}
<1>1. 0 \in N
  <2>1. k[0] = <<>> /\ h[0] = <<>> /\ n + 1 \in Nat
    BY DEF Steps
  <2> QED
    BY <2>1
<1>2. ASSUME NEW i \in N PROVE i + 1 \in N
  <2>1. SUFFICES ASSUME i + 1 <= n PROVE k[i + 1] = h[i + 1]
    OBVIOUS
  <2>2. i \in Nat /\ k[i] = h[i] /\ i + 1 \in 1 .. n /\ i + 1 \in 1 .. n + 1 /\ (i + 1) - 1 = i
    BY <2>1
  <2>3. k[i + 1] = IF s[i + 1] \in S THEN Append(k[i], s[i + 1]) ELSE k[i]
    BY <2>2 DEF Steps
  <2>4. h[i + 1] = IF t[i + 1] \in S THEN Append(h[i], t[i + 1]) ELSE h[i]
    BY <2>2 DEF Steps
  <2> QED
    BY <2>2, <2>3, <2>4
<1>3. N = Nat
  <2> HIDE DEF N
  <2>1. N \in SUBSET Nat
    BY DEF N
  <2> QED
    BY <1>1, <1>2, <2>1, SetInduction
<1> QED
  BY <1>3

LEMMA ThoseType ==
  ASSUME NEW S, NEW M, NEW s \in Seq(M)
  PROVE  Those(s, S) \in Seq(S)
<1>1. Len(s) \in Nat /\ Len(s) \in 0 .. Len(s)
  OBVIOUS
<1>2. PICK k : Steps(k, s, S, Len(s)) /\ Those(s, S) = k[Len(s)]
  BY ThoseSteps
<1> QED
  BY <1>1, <1>2, KeptType

LEMMA ThoseEmpty ==
  ASSUME NEW S
  PROVE  Those(<<>>, S) = <<>>
<1>1. <<>> \in Seq({}) /\ Len(<<>>) = 0
  OBVIOUS
<1>2. PICK k : Steps(k, <<>>, S, Len(<<>>)) /\ Those(<<>>, S) = k[Len(<<>>)]
  BY <1>1, ThoseSteps
<1> QED
  BY <1>1, <1>2 DEF Steps

LEMMA ThoseAppend ==
  ASSUME NEW S, NEW M, NEW s \in Seq(M), NEW m \in M
  PROVE  Those(Append(s, m), S) = IF m \in S THEN Append(Those(s, S), m) ELSE Those(s, S)
<1> DEFINE n == Len(s)
           t == Append(s, m)
<1>1. /\ n \in Nat /\ n + 1 \in Nat /\ t \in Seq(M) /\ Len(t) = n + 1 /\ t[n + 1] = m
      /\ \A i \in 1 .. n : s[i] = t[i]
      /\ n + 1 \in 1 .. n + 1 /\ (n + 1) - 1 = n
  OBVIOUS
<1> HIDE DEF n, t
<1>2. PICK k : Steps(k, s, S, n) /\ Those(s, S) = k[n]
  BY ThoseSteps DEF n
<1>3. PICK h : Steps(h, t, S, n + 1) /\ Those(t, S) = h[n + 1]
  BY <1>1, ThoseSteps
<1>4. k[n] = h[n]
  BY <1>1, <1>2, <1>3, KeptAgree
<1>5. h[n + 1] = IF t[n + 1] \in S THEN Append(h[n], t[n + 1]) ELSE h[n]
  BY <1>1, <1>3 DEF Steps
<1> QED
  BY <1>1, <1>2, <1>3, <1>4, <1>5 DEF t

LEMMA ThoseHead ==
  ASSUME NEW S, NEW M, NEW s \in Seq(M), s # <<>>
  PROVE  Those(s, S) = IF Head(s) \in S THEN <<Head(s)>> \o Those(Tail(s), S)
                       ELSE Those(Tail(s), S)
<1> DEFINE n == Len(s) - 1
           t == Tail(s)
           pre == IF Head(s) \in S THEN <<Head(s)>> ELSE <<>>
<1>1. /\ n \in Nat /\ n + 1 \in Nat /\ t \in Seq(M) /\ Len(t) = n /\ Len(s) = n + 1
      /\ s[1] = Head(s) /\ \A i \in 1 .. n : t[i] = s[i + 1]
      /\ n \in 0 .. n
  OBVIOUS
<1>2. /\ Head(s) \in S => \A q \in Seq(S) : pre \o q = <<Head(s)>> \o q
      /\ Head(s) \notin S => \A q \in Seq(S) : pre \o q = q
      /\ pre = IF s[1] \in S THEN Append(<<>>, s[1]) ELSE <<>>
      /\ pre \o <<>> = pre
      /\ pre \in Seq(S)
  <2>1. <<>> \in Seq(S) /\ s[1] = Head(s)
    BY <1>1
  <2>2. CASE Head(s) \in S
    <3>1. pre = <<Head(s)>> /\ <<Head(s)>> \in Seq(S) /\ Append(<<>>, Head(s)) = <<Head(s)>>
      BY <2>2
    <3>2. <<Head(s)>> \o <<>> = <<Head(s)>>
      BY <2>2
    <3> QED
      BY <2>1, <2>2, <3>1, <3>2
  <2>3. CASE Head(s) \notin S
    <3>1. pre = <<>>
      BY <2>3
    <3>2. <<>> \o <<>> = <<>> /\ \A q \in Seq(S) : <<>> \o q = q
      OBVIOUS
    <3> QED
      BY <2>1, <2>3, <3>1, <3>2
  <2> QED
    BY <2>2, <2>3
<1> HIDE DEF n, t, pre
<1>3. PICK k : Steps(k, s, S, n + 1) /\ Those(s, S) = k[n + 1]
  BY <1>1, ThoseSteps
<1>4. PICK h : Steps(h, t, S, n) /\ Those(t, S) = h[n]
  BY <1>1, ThoseSteps
<1> DEFINE N == {i \in Nat : i <= n => k[i + 1] = pre \o h[i]}
<1>5. 0 \in N
  <2>1. h[0] = <<>> /\ k[0] = <<>>
    BY <1>1, <1>3, <1>4 DEF Steps
  <2>2. 1 \in 1 .. n + 1 /\ 1 - 1 = 0 /\ 0 + 1 = 1
    BY <1>1
  <2>3. k[1] = IF s[1] \in S THEN Append(k[0], s[1]) ELSE k[0]
    BY <1>1, <1>3, <2>2 DEF Steps
  <2> QED
    BY <1>2, <2>1, <2>2, <2>3
<1>6. ASSUME NEW i \in N PROVE i + 1 \in N
  <2>1. SUFFICES ASSUME i + 1 <= n PROVE k[(i + 1) + 1] = pre \o h[i + 1]
    OBVIOUS
  <2>2. /\ i \in Nat /\ k[i + 1] = pre \o h[i] /\ i + 1 \in 1 .. n /\ (i + 1) - 1 = i
        /\ (i + 1) + 1 \in 1 .. n + 1 /\ ((i + 1) + 1) - 1 = i + 1 /\ i \in 0 .. n
    BY <1>1, <2>1
  <2>3. k[(i + 1) + 1] = IF s[(i + 1) + 1] \in S THEN Append(k[i + 1], s[(i + 1) + 1]) ELSE k[i + 1]
    BY <1>1, <1>3, <2>2 DEF Steps
  <2>4. h[i + 1] = IF t[i + 1] \in S THEN Append(h[i], t[i + 1]) ELSE h[i]
    BY <1>1, <1>4, <2>2 DEF Steps
  <2>5. t[i + 1] = s[(i + 1) + 1] /\ h[i] \in Seq(S)
    BY <1>1, <1>4, <2>2, KeptType
  <2>6. \A q \in Seq(S), x \in S : Append(pre \o q, x) = pre \o Append(q, x)
    BY <1>2
  <2> QED
    BY <2>2, <2>3, <2>4, <2>5, <2>6
<1>7. N = Nat
  <2> HIDE DEF N
  <2>1. N \in SUBSET Nat
    BY DEF N
  <2> QED
    BY <1>5, <1>6, <2>1, SetInduction
<1>8. k[n + 1] = pre \o h[n]
  BY <1>1, <1>7
<1>9. h[n] \in Seq(S)
  BY <1>1, <1>4, KeptType
<1> QED
  BY <1>2, <1>3, <1>4, <1>8, <1>9 DEF t
-----------------------------------------------------------------------------
(* Types.                                                                  *)

\* What readLoop is working on is a message, and writeLoop sends one.
TypeInv ==
  /\ TypeOK
  /\ \A c \in Conns :
       /\ heard[c] <= Quota[c]
       /\ reader[c] \in {"save", "pub"} => heard[c] # 0
       /\ writer[c] = "send" => out[c] # None

LEMMA TypeInit == Init => TypeInv
<1> SUFFICES ASSUME Init PROVE TypeInv
  OBVIOUS
<1>1. <<>> \in Seq(Messages) /\ <<>> \in Seq({Row(m) : m \in Messages})
  OBVIOUS
<1>2. TypeOK
  BY <1>1 DEF Init, TypeOK
<1>3. \A c \in Conns : heard[c] <= Quota[c]
  BY ConnsAssumption DEF Init
<1> QED
  BY <1>2, <1>3 DEF Init, TypeInv

LEMMA CurrentType ==
  ASSUME TypeInv, NEW c \in Conns, reader[c] \in {"save", "pub"}
  PROVE  Current(c) \in Messages
<1>1. heard[c] \in 1 .. Quota[c]
  BY ConnsAssumption DEF TypeInv, TypeOK
<1> QED
  BY <1>1 DEF Current, Messages

LEMMA InsertedType ==
  ASSUME TypeInv, NEW c \in Conns, reader[c] = "save"
  PROVE  Inserted(c) \in Seq({Row(m) : m \in Messages})
<1>1. Row(Current(c)) \in {Row(m) : m \in Messages}
  BY CurrentType
<1> QED
  BY <1>1, AppendSet DEF Inserted, TypeInv, TypeOK

LEMMA PublishType ==
  ASSUME TypeInv, NEW c \in Conns, reader[c] = "pub", NEW missed \in SUBSET Conns, Publish(c, missed)
  PROVE  published' \in Seq(Messages) /\ buf' \in [Conns -> Seq(Messages)]
<1>1. Current(c) \in Messages
  BY CurrentType
<1>2. \A s \in Seq(Messages) : Append(s, Current(c)) \in Seq(Messages)
  BY <1>1, AppendSet
<1> QED
  BY <1>2 DEF Publish, TypeInv, TypeOK

LEMMA TypeNext ==
  ASSUME TypeInv, [Next]_vars
  PROVE  TypeInv'
<1> USE ConnsAssumption DEF TypeInv, TypeOK, readVars, writeVars, relayVars, logVars
<1>1. ASSUME NEW c \in Conns, Connect(c) PROVE TypeInv'
  BY <1>1 DEF Connect
<1>2. ASSUME NEW c \in Conns, Break(c) PROVE TypeInv'
  BY <1>2 DEF Break
<1>3. ASSUME NEW c \in Conns, Recv(c) PROVE TypeInv'
  BY <1>3 DEF Recv
<1>4. ASSUME NEW c \in Conns, RecvBad(c) PROVE TypeInv'
  BY <1>4 DEF RecvBad
<1>5. ASSUME NEW c \in Conns, RecvClose(c) PROVE TypeInv'
  BY <1>5 DEF RecvClose
<1>6. ASSUME NEW c \in Conns, RecvError(c) PROVE TypeInv'
  BY <1>6 DEF RecvError
<1>7. ASSUME NEW c \in Conns, ReaderClose(c) PROVE TypeInv'
  BY <1>7 DEF ReaderClose
<1>8. ASSUME NEW c \in Conns, SaveFails(c) PROVE TypeInv'
  <2>1. db' \in Seq({Row(m) : m \in Messages})
    BY <1>8, InsertedType DEF SaveFails
  <2> QED
    BY <1>8, <2>1 DEF SaveFails
<1>9. ASSUME NEW c \in Conns, SaveMessage(c) PROVE TypeInv'
  <2>1. db' \in Seq({Row(m) : m \in Messages})
    BY <1>9, InsertedType DEF SaveMessage
  <2> QED
    BY <1>9, <2>1 DEF SaveMessage
<1>10. ASSUME NEW c \in Conns, PubFails(c) PROVE TypeInv'
  BY <1>10 DEF PubFails
<1>11. ASSUME NEW c \in Conns, Subscribe(c) PROVE TypeInv'
  BY <1>11 DEF Subscribe
<1>12. ASSUME NEW c \in Conns, Take(c) PROVE TypeInv'
  <2>1. Tail(buf[c]) \in Seq(Messages) /\ Head(buf[c]) \in Messages
    BY <1>12, TailSet DEF Take
  <2> QED
    BY <1>12, <2>1 DEF Take
<1>13. ASSUME NEW c \in Conns, Unsubscribe(c) PROVE TypeInv'
  BY <1>13 DEF Unsubscribe
<1>14. ASSUME NEW c \in Conns, Handoff(c) PROVE TypeInv'
  BY <1>14 DEF Handoff
<1>15. ASSUME NEW c \in Conns, Stopped(c) PROVE TypeInv'
  BY <1>15 DEF Stopped
<1>16. ASSUME NEW c \in Conns, Send(c) PROVE TypeInv'
  <2>1. Append(sent[c], out[c]) \in Seq(Messages)
    BY <1>16, AppendSet DEF Send
  <2> QED
    BY <1>16, <2>1 DEF Send
<1>17. ASSUME NEW c \in Conns, SendFails(c) PROVE TypeInv'
  BY <1>17 DEF SendFails
<1>18. ASSUME NEW c \in Conns, WriterClose(c) PROVE TypeInv'
  BY <1>18 DEF WriterClose
<1>19. ASSUME NEW c \in Conns, NEW missed \in SUBSET Conns, Pub(c, missed) \/ PubAgain(c, missed)
      PROVE  TypeInv'
  BY <1>19, PublishType DEF Pub, PubAgain
<1>20. CASE UNCHANGED vars
  BY <1>20 DEF vars
<1> HIDE DEF TypeInv, TypeOK
<1>21. ASSUME NEW c \in Conns, ReadStep(c) PROVE TypeInv'
  <2>1. CASE \E missed \in SUBSET Conns : Pub(c, missed) \/ PubAgain(c, missed)
    BY <1>19, <2>1, Zenon
  <2>2. CASE RecvError(c) \/ ReaderClose(c) \/ SaveMessage(c) \/ SaveFails(c) \/ PubFails(c)
    BY <1>6, <1>7, <1>8, <1>9, <1>10, <2>2
  <2> QED
    BY <1>21, <2>1, <2>2, Zenon DEF ReadStep
<1>22. ASSUME NEW c \in Conns, ClientStep(c) PROVE TypeInv'
  BY <1>1, <1>2, <1>3, <1>4, <1>5, <1>22 DEF ClientStep
<1>23. ASSUME NEW c \in Conns, RelayStep(c) PROVE TypeInv'
  BY <1>12, <1>13, <1>23 DEF RelayStep
<1>24. ASSUME NEW c \in Conns, WriteStep(c) PROVE TypeInv'
  BY <1>11, <1>14, <1>15, <1>16, <1>17, <1>18, <1>24 DEF WriteStep
<1> QED
  BY <1>20, <1>21, <1>22, <1>23, <1>24 DEF Next

\* The types of a room, for every number of connections and messages.
THEOREM TypeCorrect == Spec => []TypeOK
<1>1. TypeInv => TypeOK
  BY DEF TypeInv
<1> QED
  BY TypeInit, TypeNext, <1>1, PTL DEF Spec
-----------------------------------------------------------------------------
(* The history.  The numbers of a connection's messages never fall on any  *)
(* of their ways, since each way starts at the number that readLoop is     *)
(* working on, and this is the largest so far.                             *)

Some(m) == {m} \ {None}

\* The history holds what readLoop published or is about to publish, and of
\* each connection nothing beyond the message that readLoop is working on.
Saved ==
  /\ \A m \in ToSet(History) :
       /\ m[2] <= heard[m[1]]
       /\ reader[m[1]] = "save" => m[2] < heard[m[1]]
  /\ \A c \in Conns : reader[c] = "pub" => Current(c) \in ToSet(History)
  /\ IsInjective(History)
  /\ Ordered(History)
  /\ Ordered(published)
  /\ ToSet(published) \subseteq ToSet(History)

\* What is on its way to d is in the history and in order: first what was
\* sent, then what writeLoop holds, then what Sub offers, then the rest.
InOrder(d) ==
  /\ ToSet(sent[d]) \cup Some(out[d]) \cup Some(pend[d]) \cup ToSet(buf[d]) \subseteq ToSet(History)
  /\ Ordered(sent[d])
  /\ Ordered(buf[d])
  /\ Precedes(ToSet(sent[d]), Some(out[d]) \cup Some(pend[d]) \cup ToSet(buf[d]))
  /\ Precedes(Some(out[d]), Some(pend[d]) \cup ToSet(buf[d]))
  /\ Precedes(Some(pend[d]), ToSet(buf[d]))

HistoryInv == Saved /\ \A d \in Conns : InOrder(d)

LEMMA MessageType ==
  ASSUME TypeInv, NEW m \in Messages
  PROVE  m[1] \in Conns /\ m[2] \in Nat
BY ConnsAssumption DEF Messages

\* The messages of the rows, and what an insertion adds to them.
LEMMA HistoryType ==
  ASSUME TypeInv
  PROVE  /\ History \in Seq(Messages) /\ DOMAIN History = DOMAIN db
         /\ \A i \in DOMAIN db : db[i] = Row(History[i])
<1>1. db \in Seq({Row(m) : m \in Messages})
  BY DEF TypeInv, TypeOK
<1>2. \A i \in DOMAIN db : db[i].msg \in Messages /\ db[i] = Row(db[i].msg)
  BY <1>1 DEF Row
<1>3. Len(db) \in Nat /\ DOMAIN db = 1 .. Len(db)
  BY <1>1
<1> QED
  BY <1>2, <1>3 DEF History

LEMMA HistoryAppend ==
  ASSUME TypeInv, NEW m \in Messages, db' = Append(db, Row(m))
  PROVE  History' = Append(History, m)
<1>1. /\ db \in Seq({Row(n) : n \in Messages}) /\ Row(m) \in {Row(n) : n \in Messages}
      /\ Row(m).msg = m
  BY DEF TypeInv, TypeOK, Row
<1>2. /\ Len(db) \in Nat /\ DOMAIN db = 1 .. Len(db) /\ DOMAIN db' = 1 .. Len(db) + 1
      /\ \A i \in 1 .. Len(db) : db'[i] = db[i]
      /\ db'[Len(db) + 1] = Row(m)
  BY <1>1
<1>3. /\ History \in Seq(Messages) /\ DOMAIN History = 1 .. Len(db)
      /\ \A i \in 1 .. Len(db) : History[i] = db[i].msg
  BY <1>2, HistoryType DEF History
<1>4. Len(History) = Len(db)
  BY <1>2, <1>3
<1> DEFINE t == Append(History, m)
<1>5. /\ t = [i \in 1 .. Len(db) + 1 |-> t[i]]
      /\ \A i \in 1 .. Len(db) + 1 : t[i] = IF i = Len(db) + 1 THEN m ELSE History[i]
  <2> HIDE DEF History
  <2>1. t \in Seq(Messages) /\ Len(t) = Len(History) + 1
    BY <1>3
  <2>2. DOMAIN t = 1 .. Len(db) + 1
    BY <2>1, <1>2, <1>4
  <2>3. t = [i \in 1 .. Len(db) + 1 |-> t[i]]
    <3> HIDE DEF t
    <3> QED
      BY <2>1, <2>2
  <2>4. \A i \in 1 .. Len(History) : t[i] = History[i]
    BY <1>3
  <2>5. t[Len(History) + 1] = m
    BY <1>3
  <2> HIDE DEF t
  <2>6. ASSUME NEW i \in 1 .. Len(db) + 1
        PROVE  t[i] = IF i = Len(db) + 1 THEN m ELSE History[i]
    <3>1. CASE i = Len(db) + 1
      BY <3>1, <2>5, <1>4
    <3>2. CASE i # Len(db) + 1
      <4>1. Len(db) \in Nat
        BY <1>2
      <4>2. i \in 1 .. Len(db)
        BY <4>1, <3>2
      <4> QED
        BY <4>2, <3>2, <2>4, <1>4
    <3> QED
      BY <3>1, <3>2
  <2> QED
    BY <2>3, <2>6
<1> HIDE DEF t
<1>6. History' = [i \in 1 .. Len(db) + 1 |-> db'[i].msg]
  BY <1>2 DEF History
<1>7. \A i \in 1 .. Len(db) + 1 :
        db'[i].msg = IF i = Len(db) + 1 THEN m ELSE History[i]
  BY <1>1, <1>2, <1>3
<1>8. History' = t
  BY <1>5, <1>6, <1>7
<1> QED
  BY <1>8 DEF t

LEMMA HistoryInit == Init => HistoryInv
<1> SUFFICES ASSUME Init PROVE HistoryInv
  OBVIOUS
<1>1. ToSet(<<>>) = {} /\ Ordered(<<>>) /\ IsInjective(<<>>)
  BY DEF ToSet, Ordered, NonDecreasing, IsInjective
<1>2. Saved
  <2>1. History = <<>>
    BY DEF Init, History
  <2> QED
    BY <1>1, <2>1 DEF Init, Saved
<1>3. ASSUME NEW d \in Conns PROVE InOrder(d)
  <2>1. sent[d] = <<>> /\ buf[d] = <<>> /\ out[d] = None /\ pend[d] = None
    BY DEF Init
  <2> QED
    BY <1>1, <2>1 DEF InOrder, Some, Precedes
<1> QED
  BY <1>2, <1>3 DEF HistoryInv

\* A step that moves no message, and that gives readLoop none to work on.
LEMMA QuietStep ==
  ASSUME TypeInv, HistoryInv, UNCHANGED <<heard, History, published, buf, pend, out, sent>>,
         \A c \in Conns : reader'[c] \in {"save", "pub"} => reader'[c] = reader[c]
  PROVE  HistoryInv'
<1>1. Saved'
  <2>1. \A m \in ToSet(History) : m[1] \in Conns
    BY MessageType, HistoryType DEF ToSet
  <2> QED
    BY <2>1 DEF HistoryInv, Saved, Current
<1>2. \A d \in Conns : InOrder(d)'
  BY DEF HistoryInv, InOrder
<1> QED
  BY <1>1, <1>2 DEF HistoryInv

\* A step of the receiving side: only the ways to one connection change.
LEMMA LaneStep ==
  ASSUME TypeInv, HistoryInv, NEW c \in Conns, UNCHANGED <<reader, heard, History, published>>,
         \A d \in Conns \ {c} : UNCHANGED <<buf[d], pend[d], out[d], sent[d]>>,
         InOrder(c)'
  PROVE  HistoryInv'
<1>1. Saved'
  BY DEF HistoryInv, Saved, Current
<1>2. ASSUME NEW d \in Conns \ {c} PROVE InOrder(d)'
  BY <1>2 DEF HistoryInv, InOrder
<1> QED
  BY <1>1, <1>2 DEF HistoryInv

LEMMA RecvHistory ==
  ASSUME TypeInv, HistoryInv, NEW c \in Conns, Recv(c)
  PROVE  HistoryInv'
<1>1. \A m \in ToSet(History) : m[1] \in Conns /\ m[2] \in Nat
  BY MessageType, HistoryType DEF ToSet
<1>2. /\ heard' = [heard EXCEPT ![c] = heard[c] + 1]
      /\ reader' = [reader EXCEPT ![c] = "save"]
      /\ UNCHANGED <<History, published, buf, pend, out, sent>>
      /\ heard \in [Conns -> Nat] /\ DOMAIN reader = Conns
  BY DEF Recv, writeVars, relayVars, logVars, History, TypeInv, TypeOK
<1>3. Saved'
  <2>1. ASSUME NEW m \in ToSet(History)
        PROVE  m[2] <= heard'[m[1]] /\ (reader'[m[1]] = "save" => m[2] < heard'[m[1]])
    <3>1. m[1] \in Conns /\ m[2] \in Nat /\ m[2] <= heard[m[1]] /\ heard[m[1]] \in Nat
      BY <1>1, <1>2 DEF HistoryInv, Saved
    <3>2. CASE m[1] = c
      BY <1>2, <3>1, <3>2
    <3>3. CASE m[1] # c
      BY <1>2, <3>1, <3>3 DEF HistoryInv, Saved
    <3> QED
      BY <3>2, <3>3
  <2>2. ASSUME NEW d \in Conns, reader'[d] = "pub" PROVE Current(d)' \in ToSet(History)
    <3>1. d # c /\ reader[d] = "pub" /\ heard'[d] = heard[d]
      BY <1>2, <2>2
    <3> QED
      BY <3>1 DEF HistoryInv, Saved, Current
  <2> QED
    BY <1>2, <2>1, <2>2 DEF HistoryInv, Saved
<1>4. \A d \in Conns : InOrder(d)'
  BY <1>2 DEF HistoryInv, InOrder
<1> QED
  BY <1>3, <1>4 DEF HistoryInv

\* An insertion, whether its answer is lost or not.
LEMMA SaveHistory ==
  ASSUME TypeInv, HistoryInv, NEW c \in Conns, SaveMessage(c) \/ SaveFails(c), db' = Inserted(c)
  PROVE  HistoryInv'
<1> DEFINE m == Current(c)
<1>0. /\ reader[c] = "save" /\ reader' \in {[reader EXCEPT ![c] = "pub"], [reader EXCEPT ![c] = "recv"]}
      /\ UNCHANGED <<heard, published, buf, pend, out, sent>>
      /\ DOMAIN reader = Conns /\ heard \in [Conns -> Nat]
  BY DEF SaveMessage, SaveFails, writeVars, relayVars, TypeInv, TypeOK
<1>2. m \in Messages /\ m[1] = c /\ m[2] = heard[c]
  BY <1>0, CurrentType DEF Current
<1>1. /\ History' = Append(History, m) /\ History \in Seq(Messages)
      /\ reader[c] = "save" /\ reader' \in {[reader EXCEPT ![c] = "pub"], [reader EXCEPT ![c] = "recv"]}
      /\ UNCHANGED <<heard, published, buf, pend, out, sent>>
      /\ DOMAIN reader = Conns /\ heard \in [Conns -> Nat]
  BY <1>0, <1>2, HistoryAppend, HistoryType DEF Inserted
<1>3. ToSet(History') = ToSet(History) \cup {m}
  BY <1>1, <1>2, AppendSet
<1>4. ASSUME NEW n \in ToSet(History)
      PROVE  /\ n[1] \in Conns /\ n[2] \in Nat /\ n[2] <= heard[n[1]]
             /\ n[1] = c => n[2] < m[2]
  <2>1. n[1] \in Conns /\ n[2] \in Nat
    BY <1>1, MessageType DEF ToSet
  <2> QED
    BY <1>1, <1>2, <2>1 DEF HistoryInv, Saved
<1>5. m \notin ToSet(History)
  BY <1>1, <1>2, <1>4
<1>6. IsInjective(History')
  <2>1. /\ Len(History) \in Nat /\ DOMAIN History = 1 .. Len(History) /\ DOMAIN History' = 1 .. Len(History) + 1
        /\ \A i \in 1 .. Len(History) : History'[i] = History[i]
        /\ History'[Len(History) + 1] = m
    BY <1>1, <1>2
  <2>2. \A i \in 1 .. Len(History) : History[i] # m
    BY <1>5, <2>1 DEF ToSet
  <2>3. \A i, j \in 1 .. Len(History) : History[i] = History[j] => i = j
    BY <2>1 DEF HistoryInv, Saved, IsInjective
  <2>4. \A i \in 1 .. Len(History) + 1 : i \in 1 .. Len(History) \/ i = Len(History) + 1
    BY <2>1
  <2>5. \A i, j \in 1 .. Len(History) + 1 : History'[i] = History'[j] => i = j
    BY <2>1, <2>2, <2>3, <2>4
  <2> QED
    BY <2>1, <2>5 DEF IsInjective
<1>7. Ordered(History')
  <2>1. Precedes(ToSet(History), {m})
    BY <1>1, <1>2, <1>4 DEF Precedes
  <2> QED
    BY <1>1, <1>2, <2>1, AppendOrder DEF HistoryInv, Saved
<1>8. Saved'
  <2>1. ASSUME NEW n \in ToSet(History')
        PROVE  n[2] <= heard'[n[1]] /\ (reader'[n[1]] = "save" => n[2] < heard'[n[1]])
    <3>1. CASE n = m
      BY <1>1, <1>2, <3>1
    <3>2. CASE n \in ToSet(History)
      BY <1>1, <1>4, <3>2 DEF HistoryInv, Saved
    <3> QED
      BY <1>3, <3>1, <3>2
  <2>2. ASSUME NEW d \in Conns, reader'[d] = "pub" PROVE Current(d)' \in ToSet(History')
    <3>1. Current(d)' = Current(d)
      BY <1>1 DEF Current
    <3>2. d = c \/ reader[d] = "pub"
      BY <1>1, <2>2
    <3> QED
      BY <1>3, <3>1, <3>2 DEF HistoryInv, Saved
  <2>3. ToSet(published') \subseteq ToSet(History') /\ Ordered(published')
    BY <1>1, <1>3 DEF HistoryInv, Saved
  <2> QED
    BY <1>6, <1>7, <2>1, <2>2, <2>3 DEF Saved
<1>9. \A d \in Conns : InOrder(d)'
  BY <1>1, <1>3 DEF HistoryInv, InOrder
<1> QED
  BY <1>8, <1>9 DEF HistoryInv

\* A message that is published follows, on every way, all those before it.
LEMMA PublishHistory ==
  ASSUME TypeInv, HistoryInv, NEW c \in Conns, NEW missed \in SUBSET Conns,
         Pub(c, missed) \/ PubAgain(c, missed)
  PROVE  HistoryInv'
<1> DEFINE m == Current(c)
<1>1. /\ Publish(c, missed) /\ reader[c] = "pub"
      /\ reader' \in {reader, [reader EXCEPT ![c] = "recv"]}
      /\ UNCHANGED <<heard, History, pend, out, sent>>
      /\ DOMAIN reader = Conns /\ heard \in [Conns -> Nat] /\ History \in Seq(Messages)
      /\ published \in Seq(Messages) /\ buf \in [Conns -> Seq(Messages)]
  BY HistoryType DEF Pub, PubAgain, readVars, writeVars, History, TypeInv, TypeOK
<1>2. m \in Messages /\ m[1] = c /\ m[2] = heard[c] /\ m \in ToSet(History)
  BY <1>1, CurrentType DEF Current, HistoryInv, Saved
<1>3. Precedes(ToSet(History), {m})
  <2> SUFFICES ASSUME NEW n \in ToSet(History), n[1] = c PROVE n[2] <= m[2]
    BY <1>2 DEF Precedes
  <2> QED
    BY <1>2 DEF HistoryInv, Saved
<1>4. \A S \in SUBSET ToSet(History) : Precedes(S, {m})
  BY <1>3 DEF Precedes
<1>5. Saved'
  <2>1. ToSet(published') = ToSet(published) \cup {m}
    BY <1>1, <1>2, AppendSet DEF Publish
  <2>2. Ordered(published')
    BY <1>1, <1>2, <1>4, AppendOrder DEF Publish, HistoryInv, Saved
  <2>3. \A d \in Conns : /\ reader'[d] \in {"save", "pub"} => reader'[d] = reader[d]
                         /\ Current(d)' = Current(d)
    BY <1>1 DEF Current
  <2>4. \A n \in ToSet(History) : n[1] \in Conns
    BY <1>1, MessageType DEF ToSet
  <2>5. \A n \in ToSet(History) : /\ n[2] <= heard'[n[1]]
                             /\ reader'[n[1]] = "save" => n[2] < heard'[n[1]]
    BY <1>1, <2>3, <2>4 DEF HistoryInv, Saved
  <2> QED
    BY <1>1, <1>2, <2>1, <2>2, <2>3, <2>5 DEF HistoryInv, Saved
<1>6. ASSUME NEW d \in Conns PROVE InOrder(d)'
  <2>1. CASE buf'[d] = buf[d]
    BY <1>1, <2>1 DEF HistoryInv, InOrder
  <2>2. CASE buf'[d] = Append(buf[d], m)
    <3>1. /\ InOrder(d) /\ buf[d] \in Seq(Messages)
          /\ out'[d] = out[d] /\ pend'[d] = pend[d] /\ sent'[d] = sent[d] /\ History' = History
      BY <1>1 DEF HistoryInv
    <3>2. ToSet(buf'[d]) = ToSet(buf[d]) \cup {m}
      BY <1>2, <2>2, <3>1, AppendSet
    <3>3. Precedes(ToSet(buf[d]), {m}) /\ Precedes(ToSet(sent[d]), {m})
          /\ Precedes(Some(out[d]), {m}) /\ Precedes(Some(pend[d]), {m})
      BY <1>4, <3>1 DEF InOrder
    <3>4. Ordered(buf'[d])
      BY <1>2, <2>2, <3>1, <3>3, AppendOrder DEF InOrder
    <3>5. \A S, T : Precedes(S, T) /\ Precedes(S, {m}) => Precedes(S, T \cup {m})
      BY DEF Precedes
    <3>6. /\ Precedes(ToSet(sent[d]), Some(out[d]) \cup Some(pend[d]) \cup ToSet(buf'[d]))
          /\ Precedes(Some(out[d]), Some(pend[d]) \cup ToSet(buf'[d]))
          /\ Precedes(Some(pend[d]), ToSet(buf'[d]))
      <4>1. /\ Precedes(ToSet(sent[d]), (Some(out[d]) \cup Some(pend[d]) \cup ToSet(buf[d])) \cup {m})
            /\ Precedes(Some(out[d]), (Some(pend[d]) \cup ToSet(buf[d])) \cup {m})
            /\ Precedes(Some(pend[d]), ToSet(buf[d]) \cup {m})
        BY <3>1, <3>3, <3>5 DEF InOrder
      <4> QED
        BY <3>2, <4>1 DEF Precedes
    <3>7. ToSet(buf'[d]) \subseteq ToSet(History)
      BY <1>2, <3>1, <3>2 DEF InOrder
    <3> QED
      BY <3>1, <3>4, <3>6, <3>7 DEF InOrder
  <2> QED
    BY <1>1, <2>1, <2>2 DEF Publish
<1> QED
  BY <1>5, <1>6 DEF HistoryInv

LEMMA TakeHistory ==
  ASSUME TypeInv, HistoryInv, NEW c \in Conns, Take(c)
  PROVE  HistoryInv'
<1>1. /\ UNCHANGED <<reader, heard, History, published, out, sent>>
      /\ \A d \in Conns \ {c} : UNCHANGED <<buf[d], pend[d]>>
      /\ buf[c] # <<>> /\ buf[c] \in Seq(Messages) /\ buf'[c] = Tail(buf[c])
      /\ pend'[c] \in {Head(buf[c]), None}
  BY DEF Take, readVars, writeVars, logVars, History, TypeInv, TypeOK
<1>2. InOrder(c)
  BY DEF HistoryInv
<1>3. ToSet(buf[c]) = {Head(buf[c])} \cup ToSet(buf'[c])
  BY <1>1, TailSet
<1>4. Ordered(buf'[c]) /\ Precedes({Head(buf[c])}, ToSet(buf'[c]))
  BY <1>1, <1>2, TailOrder DEF InOrder
<1>5. Some(pend'[c]) \subseteq {Head(buf[c])}
  BY <1>1 DEF Some
<1>6. Some(pend'[c]) \cup ToSet(buf'[c]) \subseteq ToSet(buf[c])
  BY <1>3, <1>5
<1>7. Precedes(Some(pend'[c]), ToSet(buf'[c]))
  BY <1>4, <1>5 DEF Precedes
<1>8. InOrder(c)'
  BY <1>1, <1>2, <1>4, <1>6, <1>7 DEF InOrder, Precedes
<1> QED
  BY <1>1, <1>8, LaneStep

LEMMA WriteHistory ==
  ASSUME TypeInv, HistoryInv, NEW c \in Conns,
         Unsubscribe(c) \/ Handoff(c) \/ Send(c) \/ SendFails(c)
  PROVE  HistoryInv'
<1> USE DEF readVars, writeVars, relayVars, logVars
<1>1. /\ InOrder(c) /\ sent[c] \in Seq(Messages) /\ ToSet(<<>>) = {} /\ Some(None) = {}
      /\ DOMAIN buf = Conns /\ DOMAIN pend = Conns /\ DOMAIN out = Conns /\ DOMAIN sent = Conns
  BY DEF HistoryInv, TypeInv, TypeOK, ToSet, Some
<1>2. /\ UNCHANGED <<reader, heard, History, published>>
      /\ \A d \in Conns \ {c} : UNCHANGED <<buf[d], pend[d], out[d], sent[d]>>
  <2>1. CASE Unsubscribe(c)
    BY <1>1, <2>1 DEF Unsubscribe, History
  <2>2. CASE Handoff(c)
    BY <1>1, <2>2 DEF Handoff, History
  <2>3. CASE Send(c)
    BY <1>1, <2>3 DEF Send, History
  <2>4. CASE SendFails(c)
    BY <1>1, <2>4 DEF SendFails, History
  <2> QED
    BY <2>1, <2>2, <2>3, <2>4
<1>3. CASE Unsubscribe(c)
  <2>1. buf'[c] = <<>> /\ pend'[c] = None /\ out'[c] = out[c] /\ sent'[c] = sent[c]
    BY <1>1, <1>3 DEF Unsubscribe
  <2>2. Ordered(<<>>)
    BY DEF Ordered, NonDecreasing
  <2>3. InOrder(c)'
    BY <1>1, <1>2, <2>1, <2>2 DEF InOrder, Precedes
  <2> QED
    BY <1>2, <2>3, LaneStep
<1>4. CASE Handoff(c)
  <2>1. buf'[c] = buf[c] /\ pend'[c] = None /\ out'[c] = pend[c] /\ sent'[c] = sent[c]
    BY <1>1, <1>4 DEF Handoff
  <2>2. InOrder(c)'
    BY <1>1, <1>2, <2>1 DEF InOrder, Precedes
  <2> QED
    BY <1>2, <2>2, LaneStep
<1>5. CASE Send(c)
  <2>1. /\ buf'[c] = buf[c] /\ pend'[c] = pend[c] /\ out'[c] = None
        /\ sent'[c] = Append(sent[c], out[c])
    BY <1>1, <1>5 DEF Send
  <2>2. out[c] \in Messages /\ Some(out[c]) = {out[c]}
    BY <1>5 DEF Send, TypeInv, TypeOK, Some
  <2>3. ToSet(sent'[c]) = ToSet(sent[c]) \cup {out[c]}
    BY <1>1, <2>1, <2>2, AppendSet
  <2>4. Ordered(sent'[c])
    <3>1. Precedes(ToSet(sent[c]), {out[c]})
      BY <1>1, <2>2 DEF InOrder, Precedes
    <3> QED
      BY <1>1, <2>1, <2>2, <3>1, AppendOrder DEF InOrder
  <2>5. InOrder(c)'
    BY <1>1, <1>2, <2>1, <2>2, <2>3, <2>4 DEF InOrder, Precedes
  <2> QED
    BY <1>2, <2>5, LaneStep
<1>6. CASE SendFails(c)
  <2>1. buf'[c] = buf[c] /\ pend'[c] = pend[c] /\ out'[c] = None /\ sent'[c] = sent[c]
    BY <1>1, <1>6 DEF SendFails
  <2>2. InOrder(c)'
    BY <1>1, <1>2, <2>1 DEF InOrder, Precedes
  <2> QED
    BY <1>2, <2>2, LaneStep
<1> QED
  BY <1>3, <1>4, <1>5, <1>6

LEMMA HistoryNext ==
  ASSUME TypeInv, HistoryInv, [Next]_vars
  PROVE  HistoryInv'
<1> USE DEF readVars, writeVars, relayVars, logVars
<1>1. CASE UNCHANGED vars
  BY <1>1, QuietStep DEF vars, History
<1>2. ASSUME NEW c \in Conns, ClientStep(c) PROVE HistoryInv'
  <2>1. CASE Recv(c)
    BY <2>1, RecvHistory
  <2>2. CASE Connect(c) \/ Break(c) \/ RecvBad(c) \/ RecvClose(c)
    BY <2>2, QuietStep DEF Connect, Break, RecvBad, RecvClose, History, TypeInv, TypeOK
  <2> QED
    BY <1>2, <2>1, <2>2 DEF ClientStep
<1>3. ASSUME NEW c \in Conns, ReadStep(c) PROVE HistoryInv'
  <2>1. CASE \E missed \in SUBSET Conns : Pub(c, missed) \/ PubAgain(c, missed)
    BY <2>1, PublishHistory, Zenon
  <2>2. CASE (SaveMessage(c) \/ SaveFails(c)) /\ db' = Inserted(c)
    BY <2>2, SaveHistory
  <2>3. CASE RecvError(c) \/ ReaderClose(c) \/ (SaveFails(c) /\ db' = db) \/ PubFails(c)
    BY <2>3, QuietStep DEF RecvError, ReaderClose, SaveFails, PubFails, History, TypeInv, TypeOK
  <2>4. SaveMessage(c) \/ SaveFails(c) => db' = Inserted(c) \/ (SaveFails(c) /\ db' = db)
    BY DEF SaveMessage, SaveFails
  <2> QED
    BY <1>3, <2>1, <2>2, <2>3, <2>4, Zenon DEF ReadStep
<1>4. ASSUME NEW c \in Conns, RelayStep(c) PROVE HistoryInv'
  BY <1>4, TakeHistory, WriteHistory DEF RelayStep
<1>5. ASSUME NEW c \in Conns, WriteStep(c) PROVE HistoryInv'
  <2>1. CASE Handoff(c) \/ Send(c) \/ SendFails(c)
    BY <2>1, WriteHistory
  <2>2. CASE Subscribe(c) \/ Stopped(c) \/ WriterClose(c)
    BY <2>2, QuietStep DEF Subscribe, Stopped, WriterClose, History
  <2> QED
    BY <1>5, <2>1, <2>2 DEF WriteStep
<1> QED
  BY <1>1, <1>2, <1>3, <1>4, <1>5 DEF Next

LEMMA HistoryImplies ==
  ASSUME TypeInv, HistoryInv
  PROVE  HistoryAgrees
<1>1. ASSUME NEW m \in ToSet(published)
      PROVE  \E row \in ToSet(db) :
               /\ row.msg = m
               /\ Truthful(m) => row.room = ThisRoom /\ row.user = UserOf[m[1]]
  <2>1. PICK i \in DOMAIN db : db[i] = Row(m)
    BY HistoryType DEF HistoryInv, Saved, ToSet
  <2>2. Row(m) \in ToSet(db)
    BY <2>1 DEF ToSet
  <2>3. /\ Row(m).msg = m
        /\ Truthful(m) => Row(m).room = ThisRoom /\ Row(m).user = UserOf[m[1]]
    BY DEF Row, Truthful
  <2> QED
    BY <2>2, <2>3
<1> QED
  BY <1>1 DEF HistoryInv, Saved, InOrder, HistoryAgrees, Ordered

\* Whatever fails, is repeated or is missed: the table and every live view keep
\* the order of each sender, what is live has a row, listed in this room under
\* its sender when the client named them, and no message has two.
THEOREM HistoryTheorem == Spec => []HistoryAgrees
<1>1. TypeInv /\ HistoryInv => HistoryAgrees
  BY HistoryImplies
<1> QED
  BY TypeInit, TypeNext, HistoryInit, HistoryNext, <1>1, PTL DEF Spec
-----------------------------------------------------------------------------
(* The broadcast.  Messages wait for a client in three places, and each of *)
(* the three goroutines moves one at a time; who looks at all three sees a *)
(* single queue.  Messages that a loop throws away belong to a client that *)
(* left, because neither loop ends while the websocket works.              *)

Closing(c) ==
  stop[c] \/ Ended(c) \/ writer[c] = "closing" \/ reader[c] = "closing"

RoomInv ==
  \A c \in Conns :
    /\ reader[c] = "off" => writer[c] = "off"
    /\ writer[c] # "send" => out[c] = None
    /\ Closing(c) => Left(c)

LEMMA RoomInvInit == Init => RoomInv
BY DEF Init, RoomInv, Closing, Ended, Left

\* A connection whose own goroutines and socket a step leaves alone.
LEMMA RoomInvOther ==
  ASSUME RoomInv, NEW d \in Conns,
         UNCHANGED <<reader[d], writer[d], out[d], stop[d], sock[d]>>
  PROVE  /\ reader'[d] = "off" => writer'[d] = "off"
         /\ writer'[d] # "send" => out'[d] = None
         /\ Closing(d)' => Left(d)'
BY DEF RoomInv, Closing, Ended, Left

LEMMA RoomInvNext ==
  ASSUME TypeInv, RoomInv, [Next]_vars
  PROVE  RoomInv'
<1> USE DEF readVars, writeVars, relayVars, logVars
<1> DEFINE Same(d) == UNCHANGED <<reader[d], writer[d], out[d], stop[d], sock[d]>>
           Good(d) == /\ reader'[d] = "off" => writer'[d] = "off"
                      /\ writer'[d] # "send" => out'[d] = None
                      /\ Closing(d)' => Left(d)'
<1>0. /\ DOMAIN reader = Conns /\ DOMAIN writer = Conns /\ DOMAIN out = Conns
      /\ DOMAIN stop = Conns /\ DOMAIN sock = Conns
  BY DEF TypeInv, TypeOK
<1>1. CASE UNCHANGED vars
  BY <1>1 DEF vars, RoomInv, Closing, Ended, Left
<1>2. ASSUME NEW c \in Conns, ClientStep(c)
      PROVE  Good(c) /\ \A d \in Conns \ {c} : Same(d)
  <2>1. /\ reader[c] = "off" => writer[c] = "off"
        /\ writer[c] # "send" => out[c] = None
        /\ Closing(c) => Left(c)
    BY DEF RoomInv
  <2> QED
    BY <1>0, <1>2, <2>1
    DEF ClientStep, Connect, Break, Recv, RecvBad, RecvClose, Closing, Ended, Left
<1>3. ASSUME NEW c \in Conns, RelayStep(c)
      PROVE  Good(c) /\ \A d \in Conns \ {c} : Same(d)
  <2>1. /\ reader[c] = "off" => writer[c] = "off"
        /\ writer[c] # "send" => out[c] = None
        /\ Closing(c) => Left(c)
    BY DEF RoomInv
  <2> QED
    BY <1>0, <1>3, <2>1 DEF RelayStep, Take, Unsubscribe, Closing, Ended, Left
<1>4. ASSUME NEW c \in Conns, WriteStep(c)
      PROVE  Good(c) /\ \A d \in Conns \ {c} : Same(d)
  <2>1. /\ reader[c] = "off" => writer[c] = "off"
        /\ writer[c] # "send" => out[c] = None
        /\ Closing(c) => Left(c)
    BY DEF RoomInv
  <2>2. CASE Subscribe(c) \/ Handoff(c) \/ Stopped(c)
    BY <1>0, <2>1, <2>2 DEF Subscribe, Handoff, Stopped, Closing, Ended, Left
  <2>3. CASE Send(c) \/ SendFails(c) \/ WriterClose(c)
    BY <1>0, <2>1, <2>3 DEF Send, SendFails, WriterClose, Closing, Ended, Left
  <2> QED
    BY <1>4, <2>2, <2>3 DEF WriteStep
<1>5. ASSUME NEW c \in Conns, ReadStep(c)
      PROVE  Good(c) /\ \A d \in Conns \ {c} : Same(d)
  <2>1. /\ reader[c] = "off" => writer[c] = "off"
        /\ writer[c] # "send" => out[c] = None
        /\ Closing(c) => Left(c)
    BY DEF RoomInv
  <2>2. CASE RecvError(c) \/ ReaderClose(c) \/ SaveMessage(c) \/ SaveFails(c) \/ PubFails(c)
    BY <1>0, <2>1, <2>2
    DEF RecvError, ReaderClose, SaveMessage, SaveFails, PubFails, Closing, Ended, Left
  <2>3. ASSUME NEW missed \in SUBSET Conns, Pub(c, missed) \/ PubAgain(c, missed)
        PROVE  Good(c) /\ \A d \in Conns \ {c} : Same(d)
    BY <1>0, <2>1, <2>3 DEF Pub, PubAgain, Closing, Ended, Left
  <2> QED
    BY <1>5, <2>2, <2>3, Zenon DEF ReadStep
<1>6. ASSUME NEW c \in Conns, Good(c), \A d \in Conns \ {c} : Same(d)
      PROVE  RoomInv'
  BY <1>6, RoomInvOther DEF RoomInv
<1> QED
  BY <1>1, <1>2, <1>3, <1>4, <1>5, <1>6 DEF Next

\* A step that changes no queue, no delivery and no listener's status.
LEMMA Unseen ==
  ASSUME sent' = sent,
         \A c \in Conns : Status(c)' = Status(c) /\ Pipeline(c)' = Pipeline(c)
  PROVE  UNCHANGED Room!vars
BY DEF Room!vars

LEMMA SeqIdentities ==
  ASSUME NEW S, NEW q \in Seq(S), NEW m \in S
  PROVE  /\ <<>> \o q = q /\ q \o <<>> = q /\ <<m>> \o q # <<>>
         /\ Head(<<m>> \o q) = m /\ Tail(<<m>> \o q) = q
         /\ <<m>> \in Seq(S) /\ <<>> \in Seq(S)
         /\ \A r \in Seq(S) : q \o r \in Seq(S) /\ q \o Append(r, m) = Append(q \o r, m)
OBVIOUS

LEMMA OneOrNoneType ==
  ASSUME NEW m \in Messages \cup {None}
  PROVE  OneOrNone(m) \in Seq(Messages)
BY DEF OneOrNone

LEMMA ForeignType ==
  ASSUME NEW c, NEW s \in Seq(Messages)
  PROVE  ForeignOf(c, s) \in Seq(Messages)
<1>1. ForeignOf(c, s) \in Seq(ForeignTo(c)) /\ ForeignTo(c) \subseteq Messages
  BY ThoseType DEF ForeignOf, ForeignTo
<1> QED
  BY <1>1

LEMMA ForeignAppend ==
  ASSUME NEW c, NEW s \in Seq(Messages), NEW m \in Messages
  PROVE  ForeignOf(c, Append(s, m)) = IF m \in ForeignTo(c) THEN Append(ForeignOf(c, s), m)
                                      ELSE ForeignOf(c, s)
BY ThoseAppend DEF ForeignOf

LEMMA ForeignEmpty ==
  ASSUME NEW c
  PROVE  ForeignOf(c, <<>>) = <<>>
BY ThoseEmpty DEF ForeignOf

LEMMA ForeignHead ==
  ASSUME NEW c, NEW s \in Seq(Messages), s # <<>>
  PROVE  ForeignOf(c, s) =
           OneOrNone(IF Foreign(c, Head(s)) THEN Head(s) ELSE None) \o ForeignOf(c, Tail(s))
<1>1. Head(s) \in Messages /\ Tail(s) \in Seq(Messages) /\ Head(s) # None
  BY TailSet, ConnsAssumption
<1>2. ForeignOf(c, Tail(s)) \in Seq(Messages)
  BY <1>1, ForeignType
<1>3. Head(s) \in ForeignTo(c) <=> Foreign(c, Head(s))
  BY <1>1 DEF ForeignTo
<1>4. ForeignOf(c, s) = IF Head(s) \in ForeignTo(c)
                          THEN <<Head(s)>> \o ForeignOf(c, Tail(s))
                          ELSE ForeignOf(c, Tail(s))
  BY ThoseHead DEF ForeignOf
<1>5. <<>> \o ForeignOf(c, Tail(s)) = ForeignOf(c, Tail(s))
  BY <1>2
<1> QED
  BY <1>1, <1>3, <1>4, <1>5 DEF OneOrNone

LEMMA PipelineType ==
  ASSUME TypeInv, NEW c \in Conns
  PROVE  /\ OneOrNone(out[c]) \in Seq(Messages)
         /\ OneOrNone(pend[c]) \in Seq(Messages)
         /\ ForeignOf(c, buf[c]) \in Seq(Messages)
BY OneOrNoneType, ForeignType DEF TypeInv, TypeOK

\* A step that touches neither the messages nor the sockets nor relay.
LEMMA UnseenStep ==
  ASSUME UNCHANGED <<sent, sock, relay, out, pend, buf>>
  PROVE  UNCHANGED Room!vars
BY Unseen DEF Status, Pipeline, Left

LEMMA LeaveStep ==
  ASSUME TypeInv, NEW c \in Conns, sock[c] = "open", UNCHANGED <<sent, relay, out, pend, buf>>,
         NEW x \in {"closed", "failed"}, sock' = [sock EXCEPT ![c] = x]
  PROVE  Room!Leave(c)
<1>1. /\ ~Left(c) /\ Left(c)' /\ DOMAIN sock = Conns
      /\ \A d \in Conns \ {c} : Left(d)' = Left(d)
  BY DEF Left, TypeInv, TypeOK
<1>2. /\ Status(c) # "left" /\ Status(c)' = "left" /\ Pipeline(c)' = <<>>
      /\ \A d \in Conns \ {c} : Status(d)' = Status(d) /\ Pipeline(d)' = Pipeline(d)
  BY <1>1 DEF Status, Pipeline
<1> QED
  BY <1>2 DEF Room!Leave

\* A message that redis accepts joins the queue of every client that it is
\* meant for, whose subscription works and that did not leave.
LEMMA PublishStep ==
  ASSUME TypeInv, NEW c \in Conns, NEW missed \in SUBSET Conns,
         Pub(c, missed) \/ PubAgain(c, missed)
  PROVE  \E m \in Messages, lost \in SUBSET Conns : Room!Publish(m, lost)
<1> DEFINE m == Current(c)
           lost == missed \cup {d \in Conns : relay[d] # "on"}
<1>1. /\ Publish(c, missed) /\ reader[c] = "pub"
      /\ UNCHANGED <<relay, pend, out, sent, sock>> /\ buf \in [Conns -> Seq(Messages)]
  BY DEF Pub, PubAgain, readVars, writeVars, TypeInv, TypeOK
<1>2. m \in Messages
  BY <1>1, CurrentType
<1>3. ASSUME NEW d \in Conns
      PROVE  Pipeline(d)' = IF Status(d) = "in" /\ m \in ForeignTo(d) /\ d \notin lost
                              THEN Append(Pipeline(d), m) ELSE Pipeline(d)
  <2>1. CASE Left(d)
    BY <1>1, <2>1 DEF Pipeline, Status, Left
  <2>2. CASE ~Left(d) /\ relay[d] = "on" /\ d \notin missed
    <3>1. /\ ~Left(d)' /\ out'[d] = out[d] /\ pend'[d] = pend[d]
          /\ buf'[d] = Append(buf[d], m) /\ buf[d] \in Seq(Messages)
      BY <1>1, <2>2 DEF Publish, Left
    <3>2. ForeignOf(d, buf'[d]) = IF m \in ForeignTo(d) THEN Append(ForeignOf(d, buf[d]), m)
                                  ELSE ForeignOf(d, buf[d])
      BY <1>2, <3>1, ForeignAppend
    <3>3. Status(d) = "in" /\ d \notin lost
      BY <2>2 DEF Status
    <3> DEFINE p == OneOrNone(out[d]) \o OneOrNone(pend[d])
               q == ForeignOf(d, buf[d])
    <3>4. p \o Append(q, m) = Append(p \o q, m)
      BY <1>2, PipelineType
    <3>5. Pipeline(d) = p \o q /\ Pipeline(d)' = p \o ForeignOf(d, buf'[d])
      BY <2>2, <3>1 DEF Pipeline
    <3> HIDE DEF p, q
    <3> QED
      BY <3>2, <3>3, <3>4, <3>5 DEF q
  <2>3. CASE ~Left(d) /\ ~ (relay[d] = "on" /\ d \notin missed)
    <3>1. d \in lost /\ buf'[d] = buf[d]
      BY <1>1, <2>3 DEF Publish
    <3> QED
      BY <1>1, <3>1 DEF Pipeline, Left
  <2> QED
    BY <2>1, <2>2, <2>3
<1>4. \A d \in Conns : Status(d)' = Status(d)
  BY <1>1 DEF Status, Left
<1> HIDE DEF m, lost
<1>5. Room!Publish(m, lost)
  BY <1>1, <1>3, <1>4 DEF Room!Publish
<1>6. lost \in SUBSET Conns
  BY DEF lost
<1> QED
  BY <1>2, <1>5, <1>6

LEMMA SubscribeStep ==
  ASSUME TypeInv, NEW c \in Conns, Subscribe(c)
  PROVE  Room!Join(c) \/ UNCHANGED Room!vars
<1>1. /\ relay' = [relay EXCEPT ![c] = "on"] /\ DOMAIN relay = Conns
      /\ UNCHANGED <<sent, sock, out, pend, buf>>
  BY DEF Subscribe, logVars, readVars, TypeInv, TypeOK
<1>2. \A d \in Conns : Pipeline(d)' = Pipeline(d)
  BY <1>1 DEF Pipeline, Left
<1>3. \A d \in Conns \ {c} : Status(d)' = Status(d)
  BY <1>1 DEF Status, Left
<1>4. CASE Status(c) = "out"
  <2>1. Status(c)' = "in"
    BY <1>1, <1>4 DEF Status, Left
  <2> QED
    BY <1>1, <1>2, <1>3, <1>4, <2>1 DEF Room!Join
<1>5. CASE Status(c) # "out"
  <2>1. Status(c)' = Status(c)
    BY <1>1, <1>5 DEF Status, Left
  <2> QED
    BY <1>1, <1>2, <1>3, <2>1, Unseen
<1> QED
  BY <1>4, <1>5

LEMMA SendStep ==
  ASSUME TypeInv, RoomInv, NEW c \in Conns, Send(c)
  PROVE  Room!Deliver(c)
<1>1. /\ sent' = [sent EXCEPT ![c] = Append(@, out[c])] /\ out' = [out EXCEPT ![c] = None]
      /\ UNCHANGED <<relay, pend, buf, sock>> /\ ~Left(c) /\ out[c] \in Messages
      /\ out[c] # None /\ DOMAIN sent = Conns /\ DOMAIN out = Conns
  BY DEF Send, relayVars, Left, TypeInv, TypeOK
<1>2. \A d \in Conns : Status(d)' = Status(d)
  BY <1>1 DEF Status, Left
<1>3. \A d \in Conns \ {c} : Pipeline(d)' = Pipeline(d)
  BY <1>1 DEF Pipeline, Left
<1> DEFINE p == OneOrNone(pend[c])
           q == ForeignOf(c, buf[c])
<1>4. p \in Seq(Messages) /\ q \in Seq(Messages)
  BY PipelineType
<1>5. Pipeline(c) = (<<out[c]>> \o p) \o q /\ Pipeline(c)' = (<<>> \o p) \o q
  BY <1>1 DEF Pipeline, OneOrNone, Left
<1> HIDE DEF p, q
<1>6. Pipeline(c) # <<>> /\ Head(Pipeline(c)) = out[c] /\ Tail(Pipeline(c)) = Pipeline(c)'
  <2>1. (<<out[c]>> \o p) \o q = <<out[c]>> \o (p \o q) /\ (<<>> \o p) \o q = p \o q
    BY <1>1, <1>4
  <2>2. p \o q \in Seq(Messages)
    BY <1>4
  <2> QED
    BY <1>1, <1>5, <2>1, <2>2, SeqIdentities
<1>7. [d \in Conns |-> Status(d)]' = [d \in Conns |-> Status(d)]
  BY <1>2
<1>8. [d \in Conns |-> Pipeline(d)]' =
        [[d \in Conns |-> Pipeline(d)] EXCEPT ![c] = Tail([d \in Conns |-> Pipeline(d)][c])]
  BY <1>3, <1>6
<1> QED
  BY <1>1, <1>6, <1>7, <1>8 DEF Room!Deliver

\* A message that moves from the subscription to the offer, or from the offer
\* to writeLoop, keeps its place in the queue.
LEMMA TakeStep ==
  ASSUME TypeInv, RoomInv, NEW c \in Conns, Take(c)
  PROVE  UNCHANGED Room!vars
<1>1. /\ UNCHANGED <<relay, out, sent, sock>> /\ buf[c] # <<>> /\ pend[c] = None
      /\ pend'[c] = IF Foreign(c, Head(buf[c])) THEN Head(buf[c]) ELSE None
      /\ buf'[c] = Tail(buf[c]) /\ buf[c] \in Seq(Messages)
      /\ \A d \in Conns \ {c} : buf'[d] = buf[d] /\ pend'[d] = pend[d]
  BY DEF Take, readVars, writeVars, logVars, TypeInv, TypeOK
<1>2. ForeignOf(c, buf[c]) = OneOrNone(pend'[c]) \o ForeignOf(c, buf'[c])
  BY <1>1, ForeignHead
<1> DEFINE o == OneOrNone(out[c])
           p == OneOrNone(pend'[c])
           q == ForeignOf(c, buf'[c])
<1>3. o \in Seq(Messages) /\ p \in Seq(Messages) /\ q \in Seq(Messages)
  <2>1. Tail(buf[c]) \in Seq(Messages) /\ Head(buf[c]) \in Messages
    BY <1>1, TailSet
  <2> QED
    BY <1>1, <2>1, PipelineType, OneOrNoneType, ForeignType
<1>4. (o \o <<>>) \o (p \o q) = (o \o p) \o q
  BY <1>3
<1>5. OneOrNone(pend[c]) = <<>> /\ OneOrNone(out'[c]) = o
  BY <1>1 DEF OneOrNone
<1> HIDE DEF o, p, q
<1>6. Pipeline(c)' = Pipeline(c)
  BY <1>1, <1>2, <1>4, <1>5 DEF Pipeline, Left, p, q, o
<1>7. \A d \in Conns \ {c} : Pipeline(d)' = Pipeline(d)
  BY <1>1 DEF Pipeline, Left
<1>8. \A d \in Conns : Status(d)' = Status(d)
  BY <1>1 DEF Status, Left
<1> QED
  BY <1>1, <1>6, <1>7, <1>8, Unseen

LEMMA HandoffStep ==
  ASSUME TypeInv, RoomInv, NEW c \in Conns, Handoff(c)
  PROVE  UNCHANGED Room!vars
<1>1. /\ UNCHANGED <<relay, buf, sent, sock>> /\ writer[c] = "select" /\ out[c] = None
      /\ out'[c] = pend[c] /\ pend'[c] = None
      /\ \A d \in Conns \ {c} : out'[d] = out[d] /\ pend'[d] = pend[d]
  BY DEF Handoff, readVars, logVars, RoomInv, TypeInv, TypeOK
<1>2. /\ OneOrNone(out[c]) = <<>> /\ OneOrNone(pend'[c]) = <<>>
      /\ OneOrNone(out'[c]) = OneOrNone(pend[c])
  BY <1>1 DEF OneOrNone
<1>3. OneOrNone(pend[c]) \in Seq(Messages)
  BY PipelineType
<1>4. OneOrNone(out'[c]) \o OneOrNone(pend'[c]) = OneOrNone(out[c]) \o OneOrNone(pend[c])
  BY <1>2, <1>3
<1>5. Pipeline(c)' = Pipeline(c)
  BY <1>1, <1>4 DEF Pipeline, Left
<1>6. \A d \in Conns \ {c} : Pipeline(d)' = Pipeline(d)
  BY <1>1 DEF Pipeline, Left
<1>7. \A d \in Conns : Status(d)' = Status(d)
  BY <1>1 DEF Status, Left
<1> QED
  BY <1>1, <1>5, <1>6, <1>7, Unseen

\* Messages are thrown away only for a client that left.
LEMMA DiscardStep ==
  ASSUME TypeInv, RoomInv, NEW c \in Conns, Unsubscribe(c) \/ SendFails(c)
  PROVE  UNCHANGED Room!vars
<1>1. /\ UNCHANGED <<sent, sock>> /\ Left(c) /\ Status(c)' = Status(c)
      /\ \A d \in Conns \ {c} :
           out'[d] = out[d] /\ pend'[d] = pend[d] /\ buf'[d] = buf[d] /\ relay'[d] = relay[d]
  <2>1. CASE Unsubscribe(c)
    <3>1. Left(c)
      BY <2>1 DEF Unsubscribe, RoomInv, Closing
    <3> QED
      BY <2>1, <3>1 DEF Unsubscribe, Status, Left, readVars, writeVars, logVars, TypeInv, TypeOK
  <2>2. CASE SendFails(c)
    BY <2>2 DEF SendFails, Status, Left, relayVars, logVars, TypeInv, TypeOK
  <2> QED
    BY <2>1, <2>2
<1>2. \A d \in Conns : Pipeline(d)' = Pipeline(d)
  BY <1>1 DEF Pipeline, Left
<1>3. \A d \in Conns \ {c} : Status(d)' = Status(d)
  BY <1>1 DEF Status, Left
<1> QED
  BY <1>1, <1>2, <1>3, Unseen

LEMMA RoomInit == Init => Room!Init
<1> SUFFICES ASSUME Init PROVE Room!Init
  OBVIOUS
<1>1. \A c \in Conns : Status(c) = "out" /\ Pipeline(c) = <<>>
  <2> SUFFICES ASSUME NEW c \in Conns PROVE Status(c) = "out" /\ Pipeline(c) = <<>>
    OBVIOUS
  <2>1. OneOrNone(out[c]) = <<>> /\ OneOrNone(pend[c]) = <<>> /\ ForeignOf(c, buf[c]) = <<>>
    BY ForeignEmpty DEF Init, OneOrNone
  <2>2. <<>> \o <<>> = <<>>
    OBVIOUS
  <2> QED
    BY <2>1, <2>2 DEF Init, Status, Pipeline, Left
<1> QED
  BY <1>1 DEF Init, Room!Init

LEMMA RoomStep ==
  ASSUME TypeInv, RoomInv, [Next]_vars
  PROVE  [Room!Next]_Room!vars
<1> USE DEF readVars, writeVars, relayVars, logVars
<1>1. CASE UNCHANGED vars
  BY <1>1, UnseenStep DEF vars
<1>2. ASSUME NEW c \in Conns, ClientStep(c) PROVE [Room!Next]_Room!vars
  <2>1. CASE Connect(c) \/ Recv(c) \/ RecvBad(c)
    BY <2>1, UnseenStep DEF Connect, Recv, RecvBad
  <2>2. CASE Break(c)
    BY <2>2, LeaveStep DEF Break, Room!Next
  <2>3. CASE RecvClose(c)
    BY <2>3, LeaveStep DEF RecvClose, Room!Next
  <2> QED
    BY <1>2, <2>1, <2>2, <2>3 DEF ClientStep
<1>3. ASSUME NEW c \in Conns, ReadStep(c) PROVE [Room!Next]_Room!vars
  <2>1. CASE \E missed \in SUBSET Conns : Pub(c, missed) \/ PubAgain(c, missed)
    <3>1. \E m \in Messages, lost \in SUBSET Conns : Room!Publish(m, lost)
      BY <2>1, PublishStep, Zenon
    <3> QED
      BY <3>1 DEF Room!Next
  <2>2. CASE RecvError(c) \/ ReaderClose(c) \/ SaveMessage(c) \/ SaveFails(c) \/ PubFails(c)
    BY <2>2, UnseenStep DEF RecvError, ReaderClose, SaveMessage, SaveFails, PubFails
  <2> QED
    BY <1>3, <2>1, <2>2, Zenon DEF ReadStep
<1>4. ASSUME NEW c \in Conns, RelayStep(c) PROVE [Room!Next]_Room!vars
  BY <1>4, TakeStep, DiscardStep DEF RelayStep
<1>5. ASSUME NEW c \in Conns, WriteStep(c) PROVE [Room!Next]_Room!vars
  <2>1. CASE Subscribe(c)
    BY <2>1, SubscribeStep DEF Room!Next
  <2>2. CASE Send(c)
    BY <2>2, SendStep DEF Room!Next
  <2>3. CASE Handoff(c) \/ SendFails(c)
    BY <2>3, HandoffStep, DiscardStep
  <2>4. CASE Stopped(c) \/ WriterClose(c)
    BY <2>4, UnseenStep DEF Stopped, WriterClose
  <2> QED
    BY <1>5, <2>1, <2>2, <2>3, <2>4 DEF WriteStep
<1> QED
  BY <1>1, <1>2, <1>3, <1>4, <1>5 DEF Next

\* readLoop, writeLoop and Sub implement the broadcast, for any number of
\* connections and messages: what a client's subscription received from
\* others reaches the client in this order, without gaps or repetitions,
\* until the client leaves.
THEOREM BroadcastTheorem == Spec => Broadcasts
<1>1. Init => TypeInv /\ RoomInv
  BY TypeInit, RoomInvInit
<1>2. TypeInv /\ RoomInv /\ [Next]_vars => (TypeInv /\ RoomInv)'
  BY TypeNext, RoomInvNext
<1>3. Init => Room!Init
  BY RoomInit
<1>4. TypeInv /\ RoomInv /\ [Next]_vars => [Room!Next]_Room!vars
  BY RoomStep
<1> QED
  BY <1>1, <1>2, <1>3, <1>4, PTL DEF Spec, Broadcasts, Room!Spec
-----------------------------------------------------------------------------
(* The double close.  The messages that were meant for a client and were   *)
(* neither sent to it nor wait for it any more are counted as its gap.  A  *)
(* gap never shrinks, and a loop that closes stop a second time has one.   *)

Weight(m) == IF m = None THEN 0 ELSE 1

Gap(c) ==
  Len(ForeignOf(c, published))
    - (Len(sent[c]) + Weight(out[c]) + Weight(pend[c]) + Len(ForeignOf(c, buf[c])))

QuietInv ==
  \A c \in Conns :
    /\ Gap(c) >= 0
    /\ writer[c] \in {"closing", "panicked"} => Gap(c) > 0
    /\ stop[c] /\ reader[c] # "done" => Gap(c) > 0

LEMMA GapType ==
  ASSUME TypeInv, NEW c \in Conns
  PROVE  /\ Len(ForeignOf(c, published)) \in Nat /\ Len(ForeignOf(c, buf[c])) \in Nat
         /\ Len(sent[c]) \in Nat /\ Weight(out[c]) \in {0, 1} /\ Weight(pend[c]) \in {0, 1}
         /\ Gap(c) \in Int
<1>1. published \in Seq(Messages) /\ buf[c] \in Seq(Messages) /\ sent[c] \in Seq(Messages)
  BY DEF TypeInv, TypeOK
<1>2. ForeignOf(c, published) \in Seq(Messages) /\ ForeignOf(c, buf[c]) \in Seq(Messages)
  BY <1>1, ForeignType
<1>3. Weight(out[c]) \in {0, 1} /\ Weight(pend[c]) \in {0, 1}
  BY DEF Weight
<1> QED
  BY <1>1, <1>2, <1>3 DEF Gap

LEMMA GapTypeNext ==
  ASSUME TypeInv', NEW c \in Conns
  PROVE  Gap(c)' \in Int
<1>1. published' \in Seq(Messages) /\ buf'[c] \in Seq(Messages) /\ sent'[c] \in Seq(Messages)
  BY DEF TypeInv, TypeOK
<1>2. ForeignOf(c, published') \in Seq(Messages) /\ ForeignOf(c, buf'[c]) \in Seq(Messages)
  BY <1>1, ForeignType
<1>3. Weight(out'[c]) \in {0, 1} /\ Weight(pend'[c]) \in {0, 1}
  BY DEF Weight
<1> QED
  BY <1>1, <1>2, <1>3 DEF Gap

LEMMA SameGap ==
  ASSUME NEW c \in Conns,
         UNCHANGED <<published, sent[c], out[c], pend[c], buf[c]>>
  PROVE  Gap(c)' = Gap(c)
BY DEF Gap

\* What is published is counted on both sides, save where it is missed.
LEMMA PublishGap ==
  ASSUME TypeInv, NEW c \in Conns, NEW missed \in SUBSET Conns, reader[c] = "pub",
         Publish(c, missed), UNCHANGED <<sent, out, pend>>, NEW d \in Conns
  PROVE  Gap(d)' >= Gap(d)
<1> DEFINE m == Current(c)
<1>1. m \in Messages /\ buf[d] \in Seq(Messages) /\ published \in Seq(Messages)
  BY CurrentType DEF TypeInv, TypeOK
<1>2. published' = Append(published, m) /\ buf'[d] \in {buf[d], Append(buf[d], m)}
  BY DEF Publish
<1> HIDE DEF m
<1>3. \A s \in Seq(Messages) :
        /\ Len(ForeignOf(d, s)) \in Nat
        /\ Len(ForeignOf(d, Append(s, m))) =
             IF m \in ForeignTo(d) THEN Len(ForeignOf(d, s)) + 1 ELSE Len(ForeignOf(d, s))
  <2> SUFFICES ASSUME NEW s \in Seq(Messages)
               PROVE  /\ Len(ForeignOf(d, s)) \in Nat
                      /\ Len(ForeignOf(d, Append(s, m))) =
                           IF m \in ForeignTo(d) THEN Len(ForeignOf(d, s)) + 1
                           ELSE Len(ForeignOf(d, s))
    OBVIOUS
  <2>1. ForeignOf(d, s) \in Seq(Messages)
    BY ForeignType
  <2>2. Len(Append(ForeignOf(d, s), m)) = Len(ForeignOf(d, s)) + 1
    BY <1>1, <2>1
  <2> QED
    BY <1>1, <2>1, <2>2, ForeignAppend
<1> DEFINE L(s) == Len(ForeignOf(d, s))
           x == IF m \in ForeignTo(d) THEN 1 ELSE 0
<1>4. \A s \in Seq(Messages) : L(s) \in Nat /\ L(Append(s, m)) = L(s) + x
  BY <1>3
<1>5. /\ L(published) \in Nat /\ L(buf[d]) \in Nat /\ x \in {0, 1}
      /\ L(published') = L(published) + x
      /\ L(buf'[d]) = L(buf[d]) \/ L(buf'[d]) = L(buf[d]) + x
  <2> HIDE DEF L
  <2> QED
    BY <1>1, <1>2, <1>4
<1>6. sent'[d] = sent[d] /\ Weight(out'[d]) = Weight(out[d]) /\ Weight(pend'[d]) = Weight(pend[d])
  OBVIOUS
<1>7. /\ Len(sent[d]) \in Nat /\ Weight(out[d]) \in {0, 1} /\ Weight(pend[d]) \in {0, 1}
  BY GapType
<1>8. /\ Gap(d) = L(published) - (Len(sent[d]) + Weight(out[d]) + Weight(pend[d]) + L(buf[d]))
      /\ Gap(d)' = L(published') - (Len(sent[d]) + Weight(out[d]) + Weight(pend[d]) + L(buf'[d]))
  BY <1>6 DEF Gap
<1> HIDE DEF L, x
<1> QED
  BY <1>5, <1>7, <1>8

\* Moving a message keeps the gap, and throwing one away widens it.
LEMMA MoveGap ==
  ASSUME TypeInv, RoomInv, NEW c \in Conns
  PROVE  /\ Take(c) \/ Handoff(c) \/ Send(c) \/ Unsubscribe(c) => Gap(c)' >= Gap(c)
         /\ SendFails(c) => Gap(c)' = Gap(c) + 1
<1> USE DEF readVars, writeVars, relayVars, logVars
<1>1. CASE Take(c)
  <2>1. /\ UNCHANGED <<published, sent, out>> /\ buf[c] # <<>> /\ pend[c] = None
        /\ pend'[c] = IF Foreign(c, Head(buf[c])) THEN Head(buf[c]) ELSE None
        /\ buf'[c] = Tail(buf[c]) /\ buf[c] \in Seq(Messages)
    BY <1>1 DEF Take, TypeInv, TypeOK
  <2>2. ForeignOf(c, buf[c]) = OneOrNone(pend'[c]) \o ForeignOf(c, buf'[c])
    BY <2>1, ForeignHead
  <2>3. buf'[c] \in Seq(Messages) /\ pend'[c] \in Messages \cup {None}
    BY <2>1, TailSet
  <2>4. OneOrNone(pend'[c]) \in Seq(Messages) /\ ForeignOf(c, buf'[c]) \in Seq(Messages)
    BY <2>3, OneOrNoneType, ForeignType
  <2>5. Len(OneOrNone(pend'[c])) = Weight(pend'[c]) /\ Weight(pend'[c]) \in {0, 1}
    BY DEF OneOrNone, Weight
  <2>6. /\ Len(ForeignOf(c, buf[c])) = Weight(pend'[c]) + Len(ForeignOf(c, buf'[c]))
        /\ Len(ForeignOf(c, buf'[c])) \in Nat
    BY <2>2, <2>4, <2>5
  <2>7. Weight(pend[c]) = 0
    BY <2>1 DEF Weight
  <2>8. /\ Len(ForeignOf(c, published)) \in Nat /\ Len(sent[c]) \in Nat
        /\ Weight(out[c]) \in {0, 1} /\ Gap(c) \in Int
    BY GapType
  <2>9. Gap(c)' = Len(ForeignOf(c, published))
          - (Len(sent[c]) + Weight(out[c]) + Weight(pend'[c]) + Len(ForeignOf(c, buf'[c])))
    BY <2>1 DEF Gap
  <2>10. Gap(c)' = Gap(c)
    BY <2>5, <2>6, <2>7, <2>8, <2>9 DEF Gap
  <2>11. ~SendFails(c)
    BY <1>1 DEF Take, SendFails, TypeInv, TypeOK
  <2> QED
    BY <2>8, <2>10, <2>11
<1>2. CASE Handoff(c)
  <2>1. /\ UNCHANGED <<published, sent, buf>> /\ out[c] = None
        /\ out'[c] = pend[c] /\ pend'[c] = None
    BY <1>2 DEF Handoff, RoomInv, TypeInv, TypeOK
  <2>2. Weight(out[c]) = 0 /\ Weight(pend'[c]) = 0 /\ Weight(out'[c]) = Weight(pend[c])
    BY <2>1 DEF Weight
  <2>3. Gap(c)' = Gap(c)
    BY <2>1, <2>2, GapType DEF Gap
  <2> QED
    BY <1>2, <2>3, GapType DEF Handoff, SendFails
<1>3. CASE Send(c)
  <2>1. /\ UNCHANGED <<published, pend, buf>> /\ out[c] # None /\ out'[c] = None
        /\ out[c] \in Messages
        /\ sent'[c] = Append(sent[c], out[c]) /\ sent[c] \in Seq(Messages)
    BY <1>3 DEF Send, TypeInv, TypeOK
  <2>2. Weight(out[c]) = 1 /\ Weight(out'[c]) = 0 /\ Len(sent'[c]) = Len(sent[c]) + 1
    BY <2>1 DEF Weight
  <2>3. Gap(c)' = Gap(c)
    BY <2>1, <2>2, GapType DEF Gap
  <2> QED
    BY <1>3, <2>3, GapType DEF Send, SendFails
<1>4. CASE Unsubscribe(c)
  <2>1. UNCHANGED <<published, sent, out>> /\ pend'[c] = None /\ buf'[c] = <<>> /\ Ended(c)
    BY <1>4 DEF Unsubscribe, TypeInv, TypeOK
  <2>2. Weight(pend'[c]) = 0 /\ ForeignOf(c, buf'[c]) = <<>> /\ Len(<<>>) = 0
    BY <2>1, ForeignEmpty DEF Weight
  <2>3. Gap(c)' >= Gap(c)
    BY <2>1, <2>2, GapType DEF Gap
  <2> QED
    BY <2>1, <2>3 DEF SendFails, Ended
<1>5. CASE SendFails(c)
  <2>1. /\ UNCHANGED <<published, sent, pend, buf>> /\ out[c] # None /\ out'[c] = None
    BY <1>5 DEF SendFails, TypeInv, TypeOK
  <2>2. Weight(out[c]) = 1 /\ Weight(out'[c]) = 0
    BY <2>1 DEF Weight
  <2>3. Gap(c)' = Gap(c) + 1
    BY <2>1, <2>2, GapType DEF Gap
  <2> QED
    BY <2>3, <1>5, GapType DEF Take, Handoff, Send, Unsubscribe, SendFails
<1> QED
  BY <1>1, <1>2, <1>3, <1>4, <1>5

LEMMA GapGrows ==
  ASSUME TypeInv, RoomInv, [Next]_vars, NEW d \in Conns
  PROVE  Gap(d)' >= Gap(d)
<1> USE DEF readVars, writeVars, relayVars, logVars
<1>0. Gap(d)' = Gap(d) => Gap(d)' >= Gap(d)
  BY GapType
<1>1. CASE UNCHANGED vars
  BY <1>0, <1>1, SameGap DEF vars
<1>2. ASSUME NEW c \in Conns, ClientStep(c) PROVE Gap(d)' >= Gap(d)
  BY <1>0, <1>2, SameGap DEF ClientStep, Connect, Break, Recv, RecvBad, RecvClose
<1>3. ASSUME NEW c \in Conns, ReadStep(c) PROVE Gap(d)' >= Gap(d)
  <2>1. ASSUME NEW missed \in SUBSET Conns, Pub(c, missed) \/ PubAgain(c, missed)
        PROVE  Gap(d)' >= Gap(d)
    BY <2>1, PublishGap DEF Pub, PubAgain
  <2>2. CASE RecvError(c) \/ ReaderClose(c) \/ SaveMessage(c) \/ SaveFails(c) \/ PubFails(c)
    BY <1>0, <2>2, SameGap DEF RecvError, ReaderClose, SaveMessage, SaveFails, PubFails
  <2> QED
    BY <1>3, <2>1, <2>2, Zenon DEF ReadStep
<1>4. ASSUME NEW c \in Conns, Take(c) \/ Handoff(c) \/ Send(c) \/ Unsubscribe(c) \/ SendFails(c)
      PROVE  Gap(d)' >= Gap(d)
  <2>1. CASE c = d
    <3>1. Gap(d)' = Gap(d) + 1 => Gap(d)' >= Gap(d)
      BY GapType
    <3> QED
      BY <1>4, <2>1, <3>1, MoveGap
  <2>2. CASE c # d
    BY <1>0, <1>4, <2>2, SameGap
    DEF Take, Handoff, Send, Unsubscribe, SendFails, TypeInv, TypeOK
  <2> QED
    BY <2>1, <2>2
<1>5. ASSUME NEW c \in Conns, Subscribe(c) \/ Stopped(c) \/ WriterClose(c)
      PROVE  Gap(d)' >= Gap(d)
  BY <1>0, <1>5, SameGap DEF Subscribe, Stopped, WriterClose
<1> QED
  BY <1>1, <1>2, <1>3, <1>4, <1>5, GapType DEF Next, RelayStep, WriteStep

LEMMA QuietInit == Init => QuietInv
<1> SUFFICES ASSUME Init, NEW c \in Conns
             PROVE  /\ Gap(c) >= 0
                    /\ writer[c] \in {"closing", "panicked"} => Gap(c) > 0
                    /\ stop[c] /\ reader[c] # "done" => Gap(c) > 0
  BY DEF QuietInv
<1>1. ForeignOf(c, published) = <<>> /\ ForeignOf(c, buf[c]) = <<>> /\ Len(<<>>) = 0
  BY ForeignEmpty DEF Init
<1>2. Gap(c) = 0
  BY <1>1 DEF Init, Gap, Weight
<1>3. writer[c] = "off" /\ ~stop[c]
  BY DEF Init
<1> QED
  BY <1>2, <1>3

LEMMA QuietNext ==
  ASSUME TypeInv, RoomInv, QuietInv, [Next]_vars
  PROVE  QuietInv'
<1> USE DEF readVars, writeVars, relayVars, logVars
<1> SUFFICES ASSUME NEW d \in Conns
             PROVE  /\ Gap(d)' >= 0
                    /\ writer'[d] \in {"closing", "panicked"} => Gap(d)' > 0
                    /\ stop'[d] /\ reader'[d] # "done" => Gap(d)' > 0
  BY DEF QuietInv
<1>1. /\ Gap(d) \in Int /\ Gap(d) >= 0 /\ Gap(d)' >= Gap(d)
      /\ writer[d] \in {"closing", "panicked"} => Gap(d) > 0
      /\ stop[d] /\ reader[d] # "done" => Gap(d) > 0
  BY GapType, GapGrows DEF QuietInv
<1>2. /\ Gap(d)' \in Int /\ Gap(d)' >= 0
      /\ Gap(d) > 0 => Gap(d)' > 0
  <2>1. Gap(d)' \in Int
    BY TypeNext, GapTypeNext
  <2> QED
    BY <1>1, <2>1
<1>3. CASE \/ writer[d] \in {"closing", "panicked"}
           \/ stop[d] /\ reader[d] # "done"
           \/ Gap(d)' > 0
  BY <1>1, <1>2, <1>3
<1>4. ASSUME writer[d] \notin {"closing", "panicked"}, stop[d] => reader[d] = "done",
             ~ (Gap(d)' > 0)
      PROVE  /\ writer'[d] \in {"closing", "panicked"} => FALSE
             /\ stop'[d] => reader'[d] = "done"
  <2>0. /\ DOMAIN reader = Conns /\ DOMAIN writer = Conns /\ DOMAIN stop = Conns
    BY DEF TypeInv, TypeOK
  <2>1. ~SendFails(d)
    <3>1. SendFails(d) => Gap(d)' > 0
      BY <1>1, MoveGap
    <3> QED
      BY <1>4, <3>1
  <2>2. CASE UNCHANGED vars
    BY <1>4, <2>2 DEF vars
  <2>3. ASSUME NEW c \in Conns, ClientStep(c)
        PROVE  writer'[d] \notin {"closing", "panicked"} /\ (stop'[d] => reader'[d] = "done")
    BY <1>4, <2>0, <2>3 DEF ClientStep, Connect, Break, Recv, RecvBad, RecvClose
  <2>4. ASSUME NEW c \in Conns, RelayStep(c)
        PROVE  writer'[d] \notin {"closing", "panicked"} /\ (stop'[d] => reader'[d] = "done")
    BY <1>4, <2>4 DEF RelayStep, Take, Unsubscribe
  <2>5. ASSUME NEW c \in Conns, WriteStep(c)
        PROVE  writer'[d] \notin {"closing", "panicked"} /\ (stop'[d] => reader'[d] = "done")
    <3>1. CASE Subscribe(c) \/ Handoff(c) \/ Stopped(c) \/ Send(c)
      BY <1>4, <2>0, <3>1 DEF Subscribe, Handoff, Stopped, Send
    <3>2. CASE SendFails(c)
      BY <1>4, <2>0, <2>1, <3>2 DEF SendFails
    <3>3. CASE WriterClose(c)
      BY <1>4, <2>0, <3>3 DEF WriterClose
    <3> QED
      BY <2>5, <3>1, <3>2, <3>3 DEF WriteStep
  <2>6. ASSUME NEW c \in Conns, ReadStep(c)
        PROVE  writer'[d] \notin {"closing", "panicked"} /\ (stop'[d] => reader'[d] = "done")
    <3>1. CASE RecvError(c) \/ ReaderClose(c) \/ SaveMessage(c) \/ SaveFails(c) \/ PubFails(c)
      BY <1>4, <2>0, <3>1 DEF RecvError, ReaderClose, SaveMessage, SaveFails, PubFails
    <3>2. ASSUME NEW missed \in SUBSET Conns, Pub(c, missed) \/ PubAgain(c, missed)
          PROVE  writer'[d] \notin {"closing", "panicked"} /\ (stop'[d] => reader'[d] = "done")
      BY <1>4, <2>0, <3>2 DEF Pub, PubAgain
    <3> QED
      BY <2>6, <3>1, <3>2, Zenon DEF ReadStep
  <2> QED
    BY <2>2, <2>3, <2>4, <2>5, <2>6 DEF Next
<1> QED
  BY <1>2, <1>3, <1>4

\* A loop panics, or is about to, only when a message that was published for
\* its client had not reached it: in a room without traffic to a connection
\* its close is safe.
THEOREM QuietCloseTheorem == Spec => []QuietCloseIsSafe
<1>1. Init => TypeInv /\ RoomInv /\ QuietInv
  BY TypeInit, RoomInvInit, QuietInit
<1>2. TypeInv /\ RoomInv /\ QuietInv /\ [Next]_vars => (TypeInv /\ RoomInv /\ QuietInv)'
  BY TypeNext, RoomInvNext, QuietNext
<1>3. TypeInv /\ QuietInv => QuietCloseIsSafe
  <2> SUFFICES ASSUME TypeInv, QuietInv, NEW c \in Conns,
                      writer[c] = "panicked" \/ (reader[c] = "closing" /\ stop[c])
               PROVE  Undelivered(c)
    BY DEF QuietCloseIsSafe
  <2>1. Gap(c) > 0
    BY DEF QuietInv
  <2> QED
    BY <2>1, GapType DEF Gap, Undelivered
<1> QED
  BY <1>1, <1>2, <1>3, PTL DEF Spec
=============================================================================
