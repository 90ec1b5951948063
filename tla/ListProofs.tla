----------------------------- MODULE ListProofs -----------------------------
(***************************************************************************)
(* Induction over the numbers up to a bound, and what lists hold.  The     *)
(* induction principle has no operator parameter: it speaks of a set of    *)
(* good numbers, and follows from the well-foundedness of the order on     *)
(* the natural numbers.                                                    *)
(***************************************************************************)
EXTENDS Lists, WellFoundedInduction, TLAPS

\* Induction over the numbers up to n, for a set of good ones.
LEMMA UpToInduction ==
    ASSUME NEW n \in Nat, NEW G, 0 \in G, \A i \in 1 .. n : i - 1 \in G => i \in G
    PROVE  \A i \in 0 .. n : i \in G
<1> DEFINE bad == {i \in 0 .. n : i \notin G}
           less == OpToRel(<, Nat)
<1>1. IsWellFoundedOn(less, Nat)
  BY NatLessThanWellFounded, Zenon
<1>2. \A i, j \in Nat : i < j => <<i, j>> \in less
  BY DEF OpToRel
<1> HIDE DEF less
<1>3. SUFFICES ASSUME bad # {} PROVE FALSE
  OBVIOUS
<1>4. bad \subseteq Nat
  OBVIOUS
<1>5. PICK x \in bad : \A y \in bad : ~(<<y, x>> \in less)
  <2> HIDE DEF bad
  <2> QED
    BY <1>1, <1>3, <1>4, WFMin
<1>6. x \in 0 .. n /\ x \notin G /\ x # 0
  BY <1>5
<1>7. x - 1 \in bad /\ <<x - 1, x>> \in less
  BY <1>2, <1>6
<1>8. QED
  BY <1>5, <1>7

\* What the lists left after i keys are.
IsKept(g, keys, gone, n) ==
    g = [i \in 0 .. n |->
           IF i = 0 THEN <<>>
           ELSE IF keys[i] \in gone THEN g[i - 1] ELSE Append(g[i - 1], keys[i])]

\* There are such lists for every list of keys.
LEMMA KeptExists ==
    ASSUME NEW keys, NEW gone, NEW n \in Nat
    PROVE  \E g : IsKept(g, keys, gone, n)
<1> DEFINE G == {m \in 0 .. n : \E g : IsKept(g, keys, gone, m)}
<1>1. 0 \in G
  <2> DEFINE g == [i \in 0 .. 0 |-> <<>>]
  <2>1. IsKept(g, keys, gone, 0)
    BY DEF IsKept
  <2> QED BY <2>1
<1>2. ASSUME NEW m \in 1 .. n, m - 1 \in G PROVE m \in G
  <2>1. PICK g : IsKept(g, keys, gone, m - 1)
    BY <1>2
  <2> DEFINE h == [i \in 0 .. m |->
                     IF i < m THEN g[i]
                     ELSE IF keys[m] \in gone THEN g[m - 1] ELSE Append(g[m - 1], keys[m])]
  <2> DEFINE Step(k, i) == IF i = 0 THEN <<>>
                           ELSE IF keys[i] \in gone THEN k[i - 1] ELSE Append(k[i - 1], keys[i])
  <2>2. ASSUME NEW i \in 0 .. m PROVE h[i] = Step(h, i)
    <3>1. CASE i = m
      BY <3>1
    <3>2. CASE i < m
      <4>1. i \in 0 .. (m - 1)
        BY <3>2
      <4>2. g[i] = Step(g, i)
        BY <4>1, <2>1 DEF IsKept
      <4>3. h[i] = g[i] /\ (i # 0 => h[i - 1] = g[i - 1])
        BY <3>2
      <4> QED BY <4>2, <4>3
    <3> QED BY <3>1, <3>2
  <2>3. h = [i \in 0 .. m |-> Step(h, i)]
    <3> HIDE DEF Step
    <3> QED BY <2>2
  <2>4. IsKept(h, keys, gone, m)
    BY <2>3 DEF IsKept
  <2> HIDE DEF h
  <2> QED BY <2>4
<1>3. \A i \in 0 .. n : i \in G
  <2> HIDE DEF G
  <2> QED BY <1>1, <1>2, UpToInduction
<1> QED BY <1>3

\* What a list holds after a route was appended.
LEMMA ElementsAppend ==
    ASSUME NEW R, NEW keys \in Seq(R), NEW r \in R
    PROVE  Elements(Append(keys, r)) = Elements(keys) \cup {r}
<1> DEFINE s == Append(keys, r)
<1>1. DOMAIN s = 1 .. (Len(keys) + 1) /\ DOMAIN keys = 1 .. Len(keys)
  OBVIOUS
<1>2. s[Len(keys) + 1] = r /\ \A i \in 1 .. Len(keys) : s[i] = keys[i]
  OBVIOUS
<1>3. Len(keys) \in Nat
  OBVIOUS
<1> HIDE DEF s
<1>4. ASSUME NEW x \in Elements(s) PROVE x \in Elements(keys) \cup {r}
  <2>1. PICK i \in 1 .. (Len(keys) + 1) : x = s[i]
    BY <1>1 DEF Elements
  <2> QED BY <2>1, <1>1, <1>2, <1>3 DEF Elements
<1>5. ASSUME NEW x \in Elements(keys) \cup {r} PROVE x \in Elements(s)
  <2>1. CASE x = r
    BY <2>1, <1>1, <1>2, <1>3 DEF Elements
  <2>2. CASE x \in Elements(keys)
    <3>1. PICK i \in 1 .. Len(keys) : x = keys[i]
      BY <2>2, <1>1 DEF Elements
    <3> QED BY <3>1, <1>1, <1>2, <1>3 DEF Elements
  <2> QED BY <2>1, <2>2
<1> QED BY <1>4, <1>5 DEF s

\* What is left of a list is the list less what was taken out.
LEMMA WithoutElements ==
    ASSUME NEW R, NEW keys \in Seq(R), NEW gone
    PROVE  /\ Without(keys, gone) \in Seq(R)
           /\ Elements(Without(keys, gone)) = Elements(keys) \ gone
<1> DEFINE n == Len(keys)
<1> DEFINE g == CHOOSE h : IsKept(h, keys, gone, n)
<1>1. Without(keys, gone) = g[n]
  BY DEF Without, IsKept
<1>2. n \in Nat
  OBVIOUS
<1>3. IsKept(g, keys, gone, n)
  <2> HIDE DEF n
  <2> QED BY <1>2, KeptExists
<1> HIDE DEF g
<1>4. ASSUME NEW i \in 0 .. n
      PROVE  g[i] = IF i = 0 THEN <<>>
                    ELSE IF keys[i] \in gone THEN g[i - 1] ELSE Append(g[i - 1], keys[i])
  BY <1>3 DEF IsKept
<1> DEFINE Upto(i) == {keys[j] : j \in 1 .. i}
<1> DEFINE Good(i) == g[i] \in Seq(R) /\ Elements(g[i]) = Upto(i) \ gone
<1> DEFINE G == {i \in 0 .. n : Good(i)}
<1>5. Good(0)
  <2>1. g[0] = <<>>
    BY <1>2, <1>4
  <2>2. Upto(0) = {} /\ Elements(<<>>) = {}
    BY DEF Elements
  <2> HIDE DEF Upto
  <2> QED BY <2>1, <2>2
<1>6. ASSUME NEW i \in 1 .. n, Good(i - 1) PROVE Good(i)
  <2>1. Upto(i) = Upto(i - 1) \cup {keys[i]}
    <3>1. 1 .. i = (1 .. (i - 1)) \cup {i}
      OBVIOUS
    <3> QED BY <3>1
  <2>2. keys[i] \in R
    OBVIOUS
  <2>3. i \in 0 .. n /\ i # 0
    OBVIOUS
  <2>4. g[i] = IF keys[i] \in gone THEN g[i - 1] ELSE Append(g[i - 1], keys[i])
    BY <1>4, <2>3
  <2> HIDE DEF Upto, n
  <2>5. CASE keys[i] \in gone
    BY <2>5, <2>4, <2>1, <1>6
  <2>6. CASE keys[i] \notin gone
    <3>1. g[i] = Append(g[i - 1], keys[i])
      BY <2>6, <2>4
    <3>2. Append(g[i - 1], keys[i]) \in Seq(R)
      BY <1>6, <2>2
    <3>3. Elements(Append(g[i - 1], keys[i])) = Elements(g[i - 1]) \cup {keys[i]}
      BY <1>6, <2>2, ElementsAppend
    <3> QED BY <3>1, <3>2, <3>3, <2>1, <2>6, <1>6
  <2> QED BY <2>5, <2>6
<1>7. \A i \in 0 .. n : i \in G
  <2>1. 0 \in G
    BY <1>5, <1>2
  <2>2. ASSUME NEW i \in 1 .. n, i - 1 \in G PROVE i \in G
    <3>1. Good(i - 1)
      BY <2>2
    <3>2. Good(i)
      BY <3>1, <1>6
    <3> HIDE DEF Good
    <3> QED BY <3>2
  <2> HIDE DEF G, n
  <2> QED BY <1>2, <2>1, <2>2, UpToInduction
<1>8. Good(n)
  <2> HIDE DEF Good
  <2> QED BY <1>7, <1>2
<1>9. Elements(keys) = Upto(n)
  BY DEF Elements
<1> HIDE DEF Upto, n
<1> QED BY <1>1, <1>8, <1>9

\* What a list holds is its first element and what the rest holds.
LEMMA ElementsHeadTail ==
    ASSUME NEW R, NEW s \in Seq(R), s # <<>>
    PROVE  /\ Head(s) \in R /\ Tail(s) \in Seq(R)
           /\ Elements(s) = {Head(s)} \cup Elements(Tail(s))
<1>1. Head(s) = s[1] /\ Head(s) \in R /\ Tail(s) \in Seq(R)
  OBVIOUS
<1>2. /\ Len(s) \in Nat \ {0} /\ Len(Tail(s)) = Len(s) - 1
      /\ \A i \in 1 .. Len(Tail(s)) : Tail(s)[i] = s[i + 1]
  OBVIOUS
<1>3. DOMAIN s = 1 .. Len(s) /\ DOMAIN Tail(s) = 1 .. Len(Tail(s))
  OBVIOUS
<1>4. ASSUME NEW x \in Elements(s) PROVE x \in {Head(s)} \cup Elements(Tail(s))
  <2>1. PICK i \in 1 .. Len(s) : x = s[i]
    BY <1>3 DEF Elements
  <2>2. CASE i # 1
    <3>1. i - 1 \in 1 .. Len(Tail(s)) /\ (i - 1) + 1 = i
      BY <2>2, <1>2
    <3> QED BY <3>1, <2>1, <1>2, <1>3 DEF Elements
  <2> QED BY <2>1, <2>2, <1>1
<1>5. ASSUME NEW x \in {Head(s)} \cup Elements(Tail(s)) PROVE x \in Elements(s)
  <2>1. CASE x = Head(s)
    BY <2>1, <1>1, <1>2, <1>3 DEF Elements
  <2>2. CASE x \in Elements(Tail(s))
    <3>1. PICK i \in 1 .. Len(Tail(s)) : x = Tail(s)[i]
      BY <2>2, <1>3 DEF Elements
    <3>2. i + 1 \in 1 .. Len(s)
      BY <1>2
    <3> QED BY <3>1, <3>2, <1>2, <1>3 DEF Elements
  <2> QED BY <2>1, <2>2
<1> QED BY <1>1, <1>4, <1>5

\* What two lists hold together.
LEMMA ElementsConcat ==
    ASSUME NEW R, NEW s \in Seq(R), NEW t \in Seq(R)
    PROVE  s \o t \in Seq(R) /\ Elements(s \o t) = Elements(s) \cup Elements(t)
<1> DEFINE u == s \o t
<1>1. u \in Seq(R) /\ Len(s) \in Nat /\ Len(t) \in Nat /\ Len(u) = Len(s) + Len(t)
  OBVIOUS
<1>2. DOMAIN u = 1 .. Len(u) /\ DOMAIN s = 1 .. Len(s) /\ DOMAIN t = 1 .. Len(t)
  OBVIOUS
<1>3. /\ \A i \in 1 .. Len(s) : u[i] = s[i]
      /\ \A i \in 1 .. Len(t) : u[Len(s) + i] = t[i]
  OBVIOUS
<1> HIDE DEF u
<1>4. ASSUME NEW x \in Elements(u) PROVE x \in Elements(s) \cup Elements(t)
  <2>1. PICK i \in 1 .. Len(u) : x = u[i]
    BY <1>2 DEF Elements
  <2>2. CASE i \in 1 .. Len(s)
    BY <2>1, <2>2, <1>2, <1>3 DEF Elements
  <2>3. CASE i \notin 1 .. Len(s)
    <3>1. i - Len(s) \in 1 .. Len(t) /\ Len(s) + (i - Len(s)) = i
      BY <2>3, <1>1
    <3> QED BY <3>1, <2>1, <1>2, <1>3 DEF Elements
  <2> QED BY <2>2, <2>3
<1>5. ASSUME NEW x \in Elements(s) \cup Elements(t) PROVE x \in Elements(u)
  <2>1. CASE x \in Elements(s)
    <3>1. PICK i \in 1 .. Len(s) : x = s[i]
      BY <2>1, <1>2 DEF Elements
    <3> QED BY <3>1, <1>1, <1>2, <1>3 DEF Elements
  <2>2. CASE x \in Elements(t)
    <3>1. PICK i \in 1 .. Len(t) : x = t[i]
      BY <2>2, <1>2 DEF Elements
    <3>2. Len(s) + i \in 1 .. Len(u)
      BY <1>1
    <3> QED BY <3>1, <3>2, <1>2, <1>3 DEF Elements
  <2> QED BY <2>1, <2>2
<1> QED BY <1>1, <1>4, <1>5 DEF u
=============================================================================
