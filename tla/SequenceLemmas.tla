--------------------------- MODULE SequenceLemmas ---------------------------
(***************************************************************************)
(* Queues as the sets of what they hold: what appending, taking the head,   *)
(* removing an element and concatenating do to that set, and that a queue   *)
(* that holds each thing once goes on doing so.                             *)
(***************************************************************************)
EXTENDS Sequences, SequencesExt, SequenceTheorems, TLAPS

Distinct(s) == \A i, j \in DOMAIN s : s[i] = s[j] => i = j
Firsts(s) == [i \in DOMAIN s |-> s[i][1]]

LEMMA EmptyHolds ==
    ASSUME NEW S
    PROVE  <<>> \in Seq(S) /\ Range(<<>>) = {} /\ Firsts(<<>>) = <<>> /\ Distinct(<<>>)
<1>1. <<>> \in Seq(S)
  OBVIOUS
<1>2. DOMAIN <<>> = {}
  OBVIOUS
<1> QED
  BY <1>1, <1>2 DEF Range, Firsts, Distinct

LEMMA AppendHolds ==
    ASSUME NEW S, NEW s \in Seq(S), NEW x \in S
    PROVE  /\ Append(s, x) \in Seq(S)
           /\ Range(Append(s, x)) = Range(s) \cup {x}
           /\ Distinct(s) /\ x \notin Range(s) => Distinct(Append(s, x))
<1> DEFINE t == Append(s, x)
<1>1. /\ t \in Seq(S) /\ DOMAIN t = 1 .. Len(s) + 1 /\ t[Len(s) + 1] = x
      /\ \A i \in 1 .. Len(s) : t[i] = s[i]
      /\ DOMAIN s = 1 .. Len(s) /\ Len(s) \in Nat
  OBVIOUS
<1>2. DOMAIN t = DOMAIN s \cup {Len(s) + 1} /\ Len(s) + 1 \notin DOMAIN s
  BY <1>1
<1> HIDE DEF t
<1>3. Range(t) = Range(s) \cup {x}
  BY <1>1, <1>2 DEF Range
<1>4. ASSUME Distinct(s), x \notin Range(s) PROVE Distinct(t)
  BY <1>1, <1>2, <1>4 DEF Range, Distinct
<1> QED
  BY <1>1, <1>3, <1>4 DEF t

LEMMA TailHolds ==
    ASSUME NEW S, NEW s \in Seq(S), s # <<>>
    PROVE  /\ Tail(s) \in Seq(S) /\ Head(s) \in S
           /\ Range(s) = Range(Tail(s)) \cup {Head(s)}
           /\ Distinct(s) => Distinct(Tail(s)) /\ Head(s) \notin Range(Tail(s))
<1> DEFINE t == Tail(s)
<1>1. /\ t \in Seq(S) /\ Head(s) = s[1] /\ Head(s) \in S
      /\ DOMAIN s = 1 .. Len(s) /\ Len(s) \in Nat /\ Len(s) > 0
      /\ DOMAIN t = 1 .. Len(s) - 1 /\ \A i \in 1 .. Len(s) - 1 : t[i] = s[i + 1]
  OBVIOUS
<1> HIDE DEF t
<1>2. \A i \in DOMAIN s : i = 1 \/ (i - 1 \in DOMAIN t /\ t[i - 1] = s[i])
  BY <1>1
<1>3. \A i \in DOMAIN t : i + 1 \in DOMAIN s /\ i + 1 # 1 /\ t[i] = s[i + 1]
  BY <1>1
<1>4. Range(s) \subseteq Range(t) \cup {Head(s)}
  BY <1>1, <1>2 DEF Range
<1>5. Range(t) \subseteq Range(s) /\ Head(s) \in Range(s)
  BY <1>1, <1>3 DEF Range
<1>6. ASSUME Distinct(s) PROVE Distinct(t) /\ Head(s) \notin Range(t)
  <2>1. Distinct(t)
    BY <1>1, <1>3, <1>6 DEF Distinct
  <2>2. Head(s) \notin Range(t)
    BY <1>1, <1>3, <1>6 DEF Distinct, Range
  <2> QED
    BY <2>1, <2>2
<1> QED
  BY <1>1, <1>4, <1>5, <1>6 DEF t

\* Where the elements are before and after one is removed.
LEMMA RemoveIndices ==
    ASSUME NEW S, NEW s \in Seq(S), NEW n \in DOMAIN s
    PROVE  /\ RemoveAt(s, n) \in Seq(S) /\ s[n] \in S
           /\ \A i \in DOMAIN s :
                 \/ i = n
                 \/ i < n /\ i \in DOMAIN RemoveAt(s, n) /\ RemoveAt(s, n)[i] = s[i]
                 \/ /\ i > n /\ i - 1 \in DOMAIN RemoveAt(s, n)
                    /\ RemoveAt(s, n)[i - 1] = s[i]
           /\ \A i \in DOMAIN RemoveAt(s, n) :
                 \/ i < n /\ i \in DOMAIN s /\ RemoveAt(s, n)[i] = s[i]
                 \/ i >= n /\ i + 1 \in DOMAIN s /\ RemoveAt(s, n)[i] = s[i + 1]
           /\ \A i \in DOMAIN RemoveAt(s, n) \cup DOMAIN s : i \in Nat
<1> DEFINE t == RemoveAt(s, n)
<1> DEFINE a == SubSeq(s, 1, n - 1)
<1> DEFINE b == SubSeq(s, n + 1, Len(s))
<1>0. /\ DOMAIN s = 1 .. Len(s) /\ Len(s) \in Nat /\ n \in 1 .. Len(s)
      /\ \A i \in DOMAIN s : s[i] \in S
  OBVIOUS
<1>a. /\ a \in Seq(S) /\ Len(a) = n - 1
      /\ \A i \in 1 .. n - 1 : a[i] = s[i]
  BY <1>0
<1>b. /\ b \in Seq(S) /\ Len(b) = Len(s) - n
      /\ \A i \in 1 .. Len(s) - n : b[i] = s[n + i]
  BY <1>0
<1>c. t = a \o b
  BY DEF RemoveAt
<1> HIDE DEF a, b, t
<1>1. /\ DOMAIN s = 1 .. Len(s) /\ Len(s) \in Nat /\ n \in 1 .. Len(s) /\ s[n] \in S
      /\ t \in Seq(S) /\ DOMAIN t = 1 .. Len(s) - 1
      /\ \A i \in 1 .. Len(s) - 1 : t[i] = IF i < n THEN s[i] ELSE s[i + 1]
  <2>1. t \in Seq(S) /\ Len(t) = Len(s) - 1
    <3>1. a \o b \in Seq(S) /\ Len(a \o b) = Len(a) + Len(b)
      BY <1>a, <1>b, ConcatProperties
    <3>2. n - 1 + (Len(s) - n) = Len(s) - 1
      BY <1>0
    <3> QED
      BY <3>1, <3>2, <1>a, <1>b, <1>c
  <2>2. ASSUME NEW i \in 1 .. Len(s) - 1
        PROVE  t[i] = IF i < n THEN s[i] ELSE s[i + 1]
    <3>1. CASE i < n
      BY <1>0, <1>a, <1>b, <1>c, <3>1
    <3>2. CASE i >= n
      <4>1. i - (n - 1) \in 1 .. Len(s) - n /\ n + (i - (n - 1)) = i + 1
        BY <1>0, <3>2
      <4>2. t[i] = b[i - (n - 1)]
        BY <1>0, <1>a, <1>b, <1>c, <3>2
      <4> QED
        BY <1>0, <1>b, <3>2, <4>1, <4>2
    <3> QED
      BY <1>0, <3>1, <3>2
  <2> QED
    BY <1>0, <2>1, <2>2
<1>2. \A i \in DOMAIN s : \/ i = n
                          \/ i < n /\ i \in DOMAIN t /\ t[i] = s[i]
                          \/ i > n /\ i - 1 \in DOMAIN t /\ t[i - 1] = s[i]
  BY <1>1
<1>3. \A i \in DOMAIN t : \/ i < n /\ i \in DOMAIN s /\ t[i] = s[i]
                          \/ i >= n /\ i + 1 \in DOMAIN s /\ t[i] = s[i + 1]
  BY <1>1
<1>4. \A i \in DOMAIN t \cup DOMAIN s : i \in Nat
  BY <1>1
<1> QED
  BY <1>1, <1>2, <1>3, <1>4 DEF t

LEMMA RemoveHolds ==
    ASSUME NEW S, NEW s \in Seq(S), NEW n \in DOMAIN s
    PROVE  /\ RemoveAt(s, n) \in Seq(S) /\ s[n] \in S
           /\ Range(s) = Range(RemoveAt(s, n)) \cup {s[n]}
           /\ Distinct(s) => Distinct(RemoveAt(s, n)) /\ s[n] \notin Range(RemoveAt(s, n))
<1> DEFINE t == RemoveAt(s, n)
<1>1. /\ t \in Seq(S) /\ s[n] \in S /\ n \in DOMAIN s
      /\ \A i \in DOMAIN s : \/ i = n
                             \/ i < n /\ i \in DOMAIN t /\ t[i] = s[i]
                             \/ i > n /\ i - 1 \in DOMAIN t /\ t[i - 1] = s[i]
      /\ \A i \in DOMAIN t : \/ i < n /\ i \in DOMAIN s /\ t[i] = s[i]
                             \/ i >= n /\ i + 1 \in DOMAIN s /\ t[i] = s[i + 1]
      /\ \A i \in DOMAIN t : i \in Nat
  BY RemoveIndices
<1>2. n \in Nat
  OBVIOUS
<1> HIDE DEF t
<1>4. Range(s) = Range(t) \cup {s[n]}
  <2>1. Range(s) \subseteq Range(t) \cup {s[n]}
    BY <1>1 DEF Range
  <2>2. Range(t) \cup {s[n]} \subseteq Range(s)
    BY <1>1 DEF Range
  <2> QED
    BY <2>1, <2>2
<1>6. ASSUME Distinct(s) PROVE Distinct(t) /\ s[n] \notin Range(t)
  <2>1. Distinct(t)
    BY <1>1, <1>2, <1>6 DEF Distinct
  <2>2. s[n] \notin Range(t)
    BY <1>1, <1>2, <1>6 DEF Distinct, Range
  <2> QED
    BY <2>1, <2>2
<1> QED
  BY <1>1, <1>4, <1>6 DEF t

LEMMA FirstsHold ==
    ASSUME NEW S, NEW s \in Seq(S \X BOOLEAN)
    PROVE  /\ Firsts(s) \in Seq(S) /\ Range(Firsts(s)) = {r[1] : r \in Range(s)}
           /\ \A x \in S \X BOOLEAN : Firsts(Append(s, x)) = Append(Firsts(s), x[1])
           /\ s # <<>> => /\ Firsts(Tail(s)) = Tail(Firsts(s))
                          /\ Firsts(s) # <<>> /\ Head(Firsts(s)) = Head(s)[1]
<1>1. Firsts(s) \in Seq(S) /\ Len(Firsts(s)) = Len(s)
  BY DEF Firsts
<1>2. Range(Firsts(s)) = {r[1] : r \in Range(s)}
  BY DEF Firsts, Range
<1>3. ASSUME NEW x \in S \X BOOLEAN PROVE Firsts(Append(s, x)) = Append(Firsts(s), x[1])
  BY <1>1 DEF Firsts
<1>4. ASSUME s # <<>>
      PROVE  /\ Firsts(Tail(s)) = Tail(Firsts(s))
             /\ Firsts(s) # <<>> /\ Head(Firsts(s)) = Head(s)[1]
  BY <1>1, <1>4 DEF Firsts
<1> QED
  BY <1>1, <1>2, <1>3, <1>4

-----------------------------------------------------------------------------
(* Queues of tuples that are told apart by their first component *)

Tags(s) == {x[1] : x \in Range(s)}
Once(s) == \A i, j \in DOMAIN s : s[i][1] = s[j][1] => i = j

LEMMA OnceEmpty == Tags(<<>>) = {} /\ Once(<<>>)
BY EmptyHolds DEF Tags, Once

LEMMA OnceAppend ==
    ASSUME NEW S, NEW s \in Seq(S), NEW x \in S
    PROVE  /\ Append(s, x) \in Seq(S)
           /\ Range(Append(s, x)) = Range(s) \cup {x}
           /\ Tags(Append(s, x)) = Tags(s) \cup {x[1]}
           /\ Once(s) /\ x[1] \notin Tags(s) => Once(Append(s, x))
<1> DEFINE t == Append(s, x)
<1>1. /\ t \in Seq(S) /\ Range(t) = Range(s) \cup {x}
  BY AppendHolds
<1>2. /\ DOMAIN s = 1 .. Len(s) /\ Len(s) \in Nat
      /\ DOMAIN t = 1 .. Len(s) + 1 /\ t[Len(s) + 1] = x
      /\ \A i \in 1 .. Len(s) : t[i] = s[i]
  OBVIOUS
<1>3. DOMAIN t = DOMAIN s \cup {Len(s) + 1}
  BY <1>2
<1> HIDE DEF t
<1>4. Tags(t) = Tags(s) \cup {x[1]}
  BY <1>1 DEF Tags
<1>5. ASSUME Once(s), x[1] \notin Tags(s) PROVE Once(t)
  <2>1. \A i \in DOMAIN s : s[i][1] # x[1]
    BY <1>5 DEF Tags, Range
  <2> QED
    BY <1>2, <1>3, <1>5, <2>1 DEF Once
<1> QED
  BY <1>1, <1>4, <1>5 DEF t

LEMMA OnceTail ==
    ASSUME NEW S, NEW s \in Seq(S), s # <<>>
    PROVE  /\ Tail(s) \in Seq(S) /\ Head(s) \in S
           /\ Range(s) = Range(Tail(s)) \cup {Head(s)}
           /\ Tags(s) = Tags(Tail(s)) \cup {Head(s)[1]}
           /\ Once(s) => Once(Tail(s)) /\ Head(s)[1] \notin Tags(Tail(s))
<1> DEFINE t == Tail(s)
<1>1. /\ t \in Seq(S) /\ Head(s) \in S
      /\ Range(s) = Range(t) \cup {Head(s)}
  BY TailHolds
<1>2. /\ Head(s) = s[1] /\ 1 \in DOMAIN s
      /\ \A i \in DOMAIN t : i + 1 \in DOMAIN s /\ i + 1 # 1 /\ t[i] = s[i + 1]
      /\ \A i, j \in DOMAIN t : i + 1 = j + 1 => i = j
  OBVIOUS
<1> HIDE DEF t
<1>3. Tags(s) = Tags(t) \cup {Head(s)[1]}
  BY <1>1 DEF Tags
<1>4. ASSUME Once(s) PROVE Once(t) /\ Head(s)[1] \notin Tags(t)
  <2>1. Once(t)
    BY <1>2, <1>4 DEF Once
  <2>2. Head(s)[1] \notin Tags(t)
    BY <1>2, <1>4 DEF Once, Tags, Range
  <2> QED
    BY <2>1, <2>2
<1> QED
  BY <1>1, <1>3, <1>4 DEF t

LEMMA OnceRemove ==
    ASSUME NEW S, NEW s \in Seq(S), NEW n \in DOMAIN s
    PROVE  /\ RemoveAt(s, n) \in Seq(S) /\ s[n] \in S /\ s[n] \in Range(s)
           /\ Range(s) = Range(RemoveAt(s, n)) \cup {s[n]}
           /\ Tags(s) = Tags(RemoveAt(s, n)) \cup {s[n][1]}
           /\ Once(s) => Once(RemoveAt(s, n)) /\ s[n][1] \notin Tags(RemoveAt(s, n))
<1> DEFINE t == RemoveAt(s, n)
<1>1. /\ t \in Seq(S) /\ s[n] \in S /\ Range(s) = Range(t) \cup {s[n]}
  BY RemoveHolds
<1>2. /\ \A i \in DOMAIN t : \/ i < n /\ i \in DOMAIN s /\ t[i] = s[i]
                             \/ i >= n /\ i + 1 \in DOMAIN s /\ t[i] = s[i + 1]
      /\ \A i \in DOMAIN t : i \in Nat
  BY RemoveIndices
<1>3. n \in Nat /\ n \in DOMAIN s
  OBVIOUS
<1> HIDE DEF t
<1>4. Tags(s) = Tags(t) \cup {s[n][1]}
  BY <1>1 DEF Tags
<1>5. ASSUME Once(s) PROVE Once(t) /\ s[n][1] \notin Tags(t)
  <2>1. Once(t)
    BY <1>2, <1>3, <1>5 DEF Once
  <2>2. s[n][1] \notin Tags(t)
    BY <1>2, <1>3, <1>5 DEF Once, Tags, Range
  <2> QED
    BY <2>1, <2>2
<1> QED
  BY <1>1, <1>4, <1>5 DEF t, Range

LEMMA OnceConcat ==
    ASSUME NEW S, NEW s \in Seq(S), NEW t \in Seq(S)
    PROVE  /\ s \o t \in Seq(S)
           /\ Range(s \o t) = Range(s) \cup Range(t)
           /\ Tags(s \o t) = Tags(s) \cup Tags(t)
           /\ Once(s) /\ Once(t) /\ Tags(s) \cap Tags(t) = {} => Once(s \o t)
<1> DEFINE u == s \o t
<1>1. u \in Seq(S) /\ Range(u) = Range(s) \cup Range(t)
  BY ConcatProperties, RangeConcatenation
<1>2. /\ Len(s) \in Nat /\ Len(t) \in Nat /\ DOMAIN u = 1 .. Len(s) + Len(t)
      /\ \A i \in DOMAIN u : \/ i \in DOMAIN s /\ u[i] = s[i]
                             \/ i - Len(s) \in DOMAIN t /\ u[i] = t[i - Len(s)]
  OBVIOUS
<1> HIDE DEF u
<1>3. Tags(u) = Tags(s) \cup Tags(t)
  BY <1>1 DEF Tags
<1>4. ASSUME Once(s), Once(t), Tags(s) \cap Tags(t) = {} PROVE Once(u)
  <2> SUFFICES ASSUME NEW i \in DOMAIN u, NEW j \in DOMAIN u, u[i][1] = u[j][1]
               PROVE  i = j
    BY DEF Once
  <2>1. /\ \A k \in DOMAIN s : s[k][1] \in Tags(s)
        /\ \A k \in DOMAIN t : t[k][1] \in Tags(t)
    BY DEF Tags, Range
  <2>2. CASE i \in DOMAIN s /\ u[i] = s[i]
    BY <1>2, <1>4, <2>1, <2>2 DEF Once
  <2>3. CASE i - Len(s) \in DOMAIN t /\ u[i] = t[i - Len(s)]
    <3>1. j - Len(s) \in DOMAIN t /\ u[j] = t[j - Len(s)]
      BY <1>2, <1>4, <2>1, <2>3
    <3>2. i - Len(s) = j - Len(s)
      BY <1>4, <2>3, <3>1 DEF Once
    <3> QED
      BY <1>2, <3>2
  <2> QED
    BY <1>2, <2>2, <2>3
<1> QED
  BY <1>1, <1>3, <1>4 DEF u
=============================================================================
