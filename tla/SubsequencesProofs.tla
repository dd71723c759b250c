------------------------ MODULE SubsequencesProofs ------------------------
(***************************************************************************)
(* What a filter of a sequence keeps, for every sequence: the lemmas the     *)
(* proofs about queues, buffers and contexts cite.  Its recursion is a       *)
(* recursive function, so its equations are those of a function that exists; *)
(* the induction over the length is that a set of naturals has a least.       *)
(***************************************************************************)
EXTENDS Subsequences, SequenceTheorems, WellFoundedInduction, TLAPS

\* A set of natural numbers that is not empty has a least element.
LEMMA Least ==
  ASSUME NEW T \in SUBSET Nat, T # {}
  PROVE  \E x \in T : \A y \in T : x <= y
<1>1. IsWellFoundedOn(OpToRel(<, Nat), Nat)
  BY NatLessThanWellFounded
<1>2. \E x \in T : \A y \in T : ~ (<<y, x>> \in OpToRel(<, Nat))
  BY <1>1, WFMin, Zenon
<1>3. ASSUME NEW x \in T, NEW y \in T, ~ (<<y, x>> \in OpToRel(<, Nat))
      PROVE  x <= y
  BY <1>3 DEF OpToRel
<1>4. QED
  BY <1>2, <1>3

\* Induction up to a bound.
LEMMA UpTo ==
  ASSUME NEW k \in Nat, NEW T, 0 \in T,
         \A n \in 0 .. (k - 1) : n \in T => n + 1 \in T
  PROVE  k \in T
<1> SUFFICES ASSUME {n \in 0 .. k : n \notin T} # {}
             PROVE  FALSE
  OBVIOUS
<1>1. PICK x \in {n \in 0 .. k : n \notin T} : \A y \in {n \in 0 .. k : n \notin T} : x <= y
  <2>1. {n \in 0 .. k : n \notin T} \in SUBSET Nat
    OBVIOUS
  <2>2. QED
    BY <2>1, Least
<1>2. x # 0 /\ x - 1 \in 0 .. (k - 1) /\ x - 1 \in 0 .. k
  BY <1>1
<1>3. x - 1 \in T
  BY <1>1, <1>2
<1>4. QED
  BY <1>1, <1>2, <1>3


\* f takes the elements of s that are in S, one after the other.
Takes(f, s, S, k) ==
  f = [n \in 0 .. k |-> IF n = 0 THEN <<>>
                        ELSE IF s[n] \in S THEN Append(f[n - 1], s[n])
                        ELSE f[n - 1]]

LEMMA TakesMore ==
  ASSUME NEW s, NEW S, NEW j \in Nat, NEW f, Takes(f, s, S, j)
  PROVE  \E g : Takes(g, s, S, j + 1)
<1> DEFINE g == [n \in 0 .. (j + 1) |->
                     IF n <= j THEN f[n]
                     ELSE IF s[n] \in S THEN Append(f[n - 1], s[n]) ELSE f[n - 1]]
<1>1. ASSUME NEW n \in 0 .. (j + 1)
      PROVE  g[n] = IF n = 0 THEN <<>>
                    ELSE IF s[n] \in S THEN Append(g[n - 1], s[n]) ELSE g[n - 1]
  <2>1. CASE n = 0
    BY <2>1 DEF Takes
  <2>2. CASE n \in 1 .. j
    <3>1. n \in 0 .. j /\ n - 1 \in 0 .. (j + 1) /\ n - 1 <= j /\ n <= j /\ n # 0
      BY <2>2
    <3>2. g[n] = f[n] /\ g[n - 1] = f[n - 1]
      BY <3>1
    <3>3. f[n] = IF s[n] \in S THEN Append(f[n - 1], s[n]) ELSE f[n - 1]
      BY <3>1 DEF Takes
    <3>4. QED
      BY <3>1, <3>2, <3>3
  <2>3. CASE n = j + 1
    <3>1. g[n - 1] = f[n - 1] /\ ~(n <= j) /\ n # 0
      BY <2>3
    <3>2. QED
      BY <3>1
  <2>4. QED
    BY <2>1, <2>2, <2>3
<1>2. g = [n \in 0 .. (j + 1) |-> g[n]]
  OBVIOUS
<1> HIDE DEF g
<1>3. Takes(g, s, S, j + 1)
  BY <1>1, <1>2 DEF Takes
<1>4. QED
  BY <1>3

LEMMA TakesExists ==
  ASSUME NEW s, NEW S, NEW k \in Nat
  PROVE  \E f : Takes(f, s, S, k)
<1> DEFINE T == {j \in Nat : \E f : Takes(f, s, S, j)}
<1>1. 0 \in T
  <2>1. Takes([n \in 0 .. 0 |-> <<>>], s, S, 0)
    BY DEF Takes
  <2>2. QED
    BY <2>1
<1>2. ASSUME NEW j \in 0 .. (k - 1), j \in T
      PROVE  j + 1 \in T
  <2>1. PICK f : Takes(f, s, S, j)
    BY <1>2
  <2>2. \E g : Takes(g, s, S, j + 1)
    BY <2>1, TakesMore
  <2>3. QED
    BY <2>2
<1>3. k \in T
  <2> HIDE DEF T
  <2>1. QED
    BY <1>1, <1>2, UpTo
<1>4. QED
  BY <1>3

LEMMA OnlyTakes ==
  ASSUME NEW s, NEW S, Len(s) \in Nat
  PROVE  \E f : Takes(f, s, S, Len(s)) /\ Only(s, S) = f[Len(s)]
<1> DEFINE C == CHOOSE f : Takes(f, s, S, Len(s))
<1>1. Takes(C, s, S, Len(s))
  BY TakesExists
<1>2. Only(s, S) = C[Len(s)]
  BY DEF Only, Takes
<1>3. QED
  BY <1>1, <1>2

\* What Only keeps are elements of S, and of the type of the sequence.
LEMMA OnlyTyped ==
  ASSUME NEW R, NEW s \in Seq(R), NEW S
  PROVE  Only(s, S) \in Seq(R \cap S) /\ Len(Only(s, S)) <= Len(s)
<1>1. Len(s) \in Nat /\ \A n \in 1 .. Len(s) : s[n] \in R
  OBVIOUS
<1>2. PICK f : Takes(f, s, S, Len(s)) /\ Only(s, S) = f[Len(s)]
  BY <1>1, OnlyTakes
<1> DEFINE T == {n \in 0 .. Len(s) : f[n] \in Seq(R \cap S) /\ Len(f[n]) <= n}
<1>3. 0 \in T
  BY <1>1, <1>2 DEF Takes
<1>4. ASSUME NEW n \in 0 .. (Len(s) - 1), n \in T
      PROVE  n + 1 \in T
  <2>1. n + 1 \in 1 .. Len(s) /\ n + 1 \in 0 .. Len(s) /\ n + 1 # 0 /\ (n + 1) - 1 = n
    BY <1>1
  <2>2. f[n + 1] = IF s[n + 1] \in S THEN Append(f[n], s[n + 1]) ELSE f[n]
    BY <1>2, <2>1 DEF Takes
  <2>3. f[n] \in Seq(R \cap S) /\ Len(f[n]) <= n
    BY <1>4
  <2>4. s[n + 1] \in R
    BY <1>1, <2>1
  <2>5. f[n + 1] \in Seq(R \cap S) /\ Len(f[n + 1]) <= n + 1
    BY <2>2, <2>3, <2>4
  <2>6. QED
    BY <2>1, <2>5
<1>5. Len(s) \in T
  <2> HIDE DEF T
  <2>1. QED
    BY <1>1, <1>3, <1>4, UpTo
<1>6. QED
  BY <1>2, <1>5

\* What Only keeps of a longer sequence.
LEMMA OnlyAppend ==
  ASSUME NEW R, NEW s \in Seq(R), NEW x \in R, NEW S
  PROVE  Only(Append(s, x), S) = IF x \in S THEN Append(Only(s, S), x) ELSE Only(s, S)
<1> DEFINE r == Append(s, x)
<1>1. /\ Len(s) \in Nat /\ r \in Seq(R) /\ Len(r) = Len(s) + 1 /\ Len(r) \in Nat
      /\ r[Len(s) + 1] = x
      /\ \A n \in 1 .. Len(s) : r[n] = s[n]
  OBVIOUS
<1> HIDE DEF r
<1>2. PICK f : Takes(f, s, S, Len(s)) /\ Only(s, S) = f[Len(s)]
  BY <1>1, OnlyTakes
<1>3. PICK g : Takes(g, r, S, Len(r)) /\ Only(r, S) = g[Len(r)]
  BY <1>1, OnlyTakes
<1> DEFINE T == {n \in 0 .. Len(s) : f[n] = g[n]}
<1>4. 0 \in T
  BY <1>1, <1>2, <1>3 DEF Takes
<1>5. ASSUME NEW n \in 0 .. (Len(s) - 1), n \in T
      PROVE  n + 1 \in T
  <2>1. /\ n + 1 \in 1 .. Len(s) /\ n + 1 \in 0 .. Len(s) /\ n + 1 \in 0 .. Len(r)
        /\ n + 1 # 0 /\ (n + 1) - 1 = n
    BY <1>1
  <2>2. f[n + 1] = IF s[n + 1] \in S THEN Append(f[n], s[n + 1]) ELSE f[n]
    BY <1>2, <2>1 DEF Takes
  <2>3. g[n + 1] = IF r[n + 1] \in S THEN Append(g[n], r[n + 1]) ELSE g[n]
    BY <1>3, <2>1 DEF Takes
  <2>4. f[n] = g[n] /\ r[n + 1] = s[n + 1]
    BY <1>1, <1>5, <2>1
  <2>5. QED
    BY <2>1, <2>2, <2>3, <2>4
<1>6. Len(s) \in T
  <2> HIDE DEF T
  <2>1. QED
    BY <1>1, <1>4, <1>5, UpTo
<1>7. g[Len(r)] = IF x \in S THEN Append(g[Len(s)], x) ELSE g[Len(s)]
  <2>1. Len(r) \in 0 .. Len(r) /\ Len(r) # 0 /\ Len(r) - 1 = Len(s) /\ r[Len(r)] = x
    BY <1>1
  <2>2. g[Len(r)] = IF r[Len(r)] \in S THEN Append(g[Len(r) - 1], r[Len(r)]) ELSE g[Len(r) - 1]
    BY <1>3, <2>1 DEF Takes
  <2>3. QED
    BY <2>1, <2>2
<1>8. QED
  BY <1>2, <1>3, <1>6, <1>7 DEF r

\* e names the places of s that Only keeps.
Places(e, q, s, S, n) ==
  /\ e \in [1 .. Len(q) -> 1 .. n]
  /\ \A i \in 1 .. Len(q) : q[i] = s[e[i]]
  /\ \A i, j \in 1 .. Len(q) : i < j => e[i] < e[j]
  /\ \A m \in 1 .. n : s[m] \in S => \E i \in 1 .. Len(q) : e[i] = m

LEMMA PlacesMore ==
  ASSUME NEW R, NEW s \in Seq(R), NEW S, NEW n \in Nat, n < Len(s),
         NEW q \in Seq(R), NEW e, Places(e, q, s, S, n)
  PROVE  /\ s[n + 1] \in S => \E d : Places(d, Append(q, s[n + 1]), s, S, n + 1)
         /\ s[n + 1] \notin S => Places(e, q, s, S, n + 1)
<1>1. s[n + 1] \in R /\ Len(q) \in Nat
  OBVIOUS
<1>2. ASSUME s[n + 1] \in S
      PROVE  \E d : Places(d, Append(q, s[n + 1]), s, S, n + 1)
  <2> DEFINE p == Append(q, s[n + 1])
             d == [i \in 1 .. (Len(q) + 1) |-> IF i <= Len(q) THEN e[i] ELSE n + 1]
  <2>1. /\ Len(p) = Len(q) + 1 /\ p[Len(q) + 1] = s[n + 1]
        /\ \A i \in 1 .. Len(q) : p[i] = q[i]
    BY <1>1
  <2>2. \A i \in 1 .. Len(q) : d[i] = e[i] /\ e[i] \in 1 .. n
    <3>1. \A i \in 1 .. Len(q) : d[i] = e[i]
      BY <1>1
    <3>2. \A i \in 1 .. Len(q) : e[i] \in 1 .. n
      BY DEF Places
    <3>3. QED
      BY <3>1, <3>2
  <2>3. d[Len(q) + 1] = n + 1 /\ \A i \in 1 .. Len(p) : i \in 1 .. Len(q) \/ i = Len(q) + 1
    BY <1>1, <2>1
  <2>4. d \in [1 .. Len(p) -> 1 .. (n + 1)]
    <3>1. \A i \in 1 .. (Len(q) + 1) : d[i] \in 1 .. (n + 1)
      <4> HIDE DEF d, p
      <4>1. QED
        BY <1>1, <2>1, <2>2, <2>3
    <3>2. QED
      BY <2>1, <3>1
  <2> HIDE DEF d, p
  <2>5. \A i \in 1 .. Len(p) : p[i] = s[d[i]]
    BY <2>1, <2>2, <2>3 DEF Places
  <2>6. \A i, j \in 1 .. Len(p) : i < j => d[i] < d[j]
    BY <1>1, <2>1, <2>2, <2>3 DEF Places
  <2>7. ASSUME NEW m \in 1 .. (n + 1), s[m] \in S
        PROVE  \E i \in 1 .. Len(p) : d[i] = m
    <3>1. CASE m = n + 1
      BY <1>1, <2>1, <2>3, <3>1
    <3>2. CASE m \in 1 .. n
      <4>1. PICK i \in 1 .. Len(q) : e[i] = m
        BY <2>7, <3>2 DEF Places
      <4>2. QED
        BY <1>1, <2>1, <2>2, <4>1
    <3>3. QED
      BY <3>1, <3>2
  <2>8. Places(d, p, s, S, n + 1)
    BY <2>4, <2>5, <2>6, <2>7 DEF Places
  <2>9. QED
    BY <2>8 DEF p
<1>3. ASSUME s[n + 1] \notin S
      PROVE  Places(e, q, s, S, n + 1)
  <2>1. e \in [1 .. Len(q) -> 1 .. (n + 1)]
    BY DEF Places
  <2>2. \A m \in 1 .. (n + 1) : s[m] \in S => \E i \in 1 .. Len(q) : e[i] = m
    <3>1. \A m \in 1 .. (n + 1) : s[m] \in S => m \in 1 .. n
      BY <1>3
    <3>2. QED
      BY <3>1 DEF Places
  <2>3. QED
    BY <2>1, <2>2 DEF Places
<1>4. QED
  BY <1>2, <1>3

\* Only keeps the order of what it keeps, and keeps all that is in S.
LEMMA OnlyPlaces ==
  ASSUME NEW R, NEW s \in Seq(R), NEW S
  PROVE  \E e : Places(e, Only(s, S), s, S, Len(s))
<1>1. Len(s) \in Nat /\ \A n \in 1 .. Len(s) : s[n] \in R
  OBVIOUS
<1>2. PICK f : Takes(f, s, S, Len(s)) /\ Only(s, S) = f[Len(s)]
  BY <1>1, OnlyTakes
<1> DEFINE T == {n \in 0 .. Len(s) : f[n] \in Seq(R) /\ \E e : Places(e, f[n], s, S, n)}
<1>3. 0 \in T
  <2>1. f[0] = <<>>
    BY <1>1, <1>2 DEF Takes
  <2>2. Places([i \in 1 .. 0 |-> 0], <<>>, s, S, 0)
    BY DEF Places
  <2>3. f[0] \in Seq(R) /\ \E e : Places(e, f[0], s, S, 0)
    BY <2>1, <2>2
  <2>4. QED
    BY <1>1, <2>3
<1>4. ASSUME NEW n \in 0 .. (Len(s) - 1), n \in T
      PROVE  n + 1 \in T
  <2>1. /\ n + 1 \in 1 .. Len(s) /\ n + 1 \in 0 .. Len(s) /\ n + 1 # 0 /\ (n + 1) - 1 = n
        /\ n \in Nat /\ n < Len(s)
    BY <1>1
  <2>2. f[n + 1] = IF s[n + 1] \in S THEN Append(f[n], s[n + 1]) ELSE f[n]
    BY <1>2, <2>1 DEF Takes
  <2>3. PICK e : Places(e, f[n], s, S, n)
    BY <1>4
  <2>4. f[n] \in Seq(R)
    BY <1>4
  <2> HIDE DEF T
  <2>5. /\ s[n + 1] \in S => \E d : Places(d, Append(f[n], s[n + 1]), s, S, n + 1)
        /\ s[n + 1] \notin S => Places(e, f[n], s, S, n + 1)
    BY <2>1, <2>3, <2>4, PlacesMore
  <2>6. \E d : Places(d, f[n + 1], s, S, n + 1)
    BY <2>2, <2>5
  <2>7. f[n + 1] \in Seq(R)
    BY <1>1, <2>1, <2>2, <2>4
  <2>8. QED
    BY <2>1, <2>6, <2>7 DEF T
<1>5. Len(s) \in T
  <2> HIDE DEF T
  <2>1. QED
    BY <1>1, <1>3, <1>4, UpTo
<1>6. QED
  BY <1>2, <1>5

\* What Only keeps is in the sequence and in S, and all that is in both is kept.
LEMMA OnlyElements ==
  ASSUME NEW R, NEW s \in Seq(R), NEW S
  PROVE  /\ \A i \in 1 .. Len(Only(s, S)) :
              Only(s, S)[i] \in S /\ \E j \in 1 .. Len(s) : s[j] = Only(s, S)[i]
         /\ \A j \in 1 .. Len(s) : s[j] \in S =>
              \E i \in 1 .. Len(Only(s, S)) : Only(s, S)[i] = s[j]
<1>1. PICK e : Places(e, Only(s, S), s, S, Len(s))
  BY OnlyPlaces
<1>2. Only(s, S) \in Seq(R \cap S)
  BY OnlyTyped
<1>3. \A i \in 1 .. Len(Only(s, S)) : Only(s, S)[i] \in S
  BY <1>2
<1>4. \A i \in 1 .. Len(Only(s, S)) : e[i] \in 1 .. Len(s) /\ s[e[i]] = Only(s, S)[i]
  BY <1>1 DEF Places
<1>5. ASSUME NEW j \in 1 .. Len(s), s[j] \in S
      PROVE  \E i \in 1 .. Len(Only(s, S)) : Only(s, S)[i] = s[j]
  <2>1. PICK i \in 1 .. Len(Only(s, S)) : e[i] = j
    BY <1>1, <1>5 DEF Places
  <2>2. QED
    BY <1>4, <2>1
<1>6. QED
  BY <1>3, <1>4, <1>5

\* A sequence whose elements are all in S is kept as it is.
LEMMA OnlyAll ==
  ASSUME NEW S, NEW s \in Seq(S)
  PROVE  Only(s, S) = s
<1>1. Len(s) \in Nat /\ \A n \in 1 .. Len(s) : s[n] \in S
  OBVIOUS
<1>2. PICK f : Takes(f, s, S, Len(s)) /\ Only(s, S) = f[Len(s)]
  BY <1>1, OnlyTakes
<1> DEFINE T == {n \in 0 .. Len(s) : f[n] = SubSeq(s, 1, n)}
<1>3. 0 \in T
  BY <1>1, <1>2 DEF Takes
<1>4. ASSUME NEW n \in 0 .. (Len(s) - 1), n \in T
      PROVE  n + 1 \in T
  <2>1. n + 1 \in 1 .. Len(s) /\ n + 1 \in 0 .. Len(s) /\ n + 1 # 0 /\ (n + 1) - 1 = n
    BY <1>1
  <2>2. f[n + 1] = Append(f[n], s[n + 1])
    BY <1>1, <1>2, <2>1 DEF Takes
  <2>3. SubSeq(s, 1, n + 1) = Append(SubSeq(s, 1, n), s[n + 1])
    BY <1>1, <2>1
  <2>4. QED
    BY <1>4, <2>1, <2>2, <2>3
<1>5. Len(s) \in T
  <2> HIDE DEF T
  <2>1. QED
    BY <1>1, <1>3, <1>4, UpTo
<1>6. SubSeq(s, 1, Len(s)) = s
  OBVIOUS
<1>7. QED
  BY <1>2, <1>5, <1>6

\* Only asks of a set no more than which elements of the sequence are in it.
LEMMA OnlyAgree ==
  ASSUME NEW R, NEW s \in Seq(R), NEW S, NEW U,
         \A i \in 1 .. Len(s) : s[i] \in S <=> s[i] \in U
  PROVE  Only(s, S) = Only(s, U)
<1>1. Len(s) \in Nat
  OBVIOUS
<1>2. PICK f : Takes(f, s, S, Len(s)) /\ Only(s, S) = f[Len(s)]
  BY <1>1, OnlyTakes
<1>3. PICK g : Takes(g, s, U, Len(s)) /\ Only(s, U) = g[Len(s)]
  BY <1>1, OnlyTakes
<1> DEFINE T == {n \in 0 .. Len(s) : f[n] = g[n]}
<1>4. 0 \in T
  BY <1>1, <1>2, <1>3 DEF Takes
<1>5. ASSUME NEW n \in 0 .. (Len(s) - 1), n \in T
      PROVE  n + 1 \in T
  <2>1. n + 1 \in 1 .. Len(s) /\ n + 1 \in 0 .. Len(s) /\ n + 1 # 0 /\ (n + 1) - 1 = n
    BY <1>1
  <2>2. f[n + 1] = IF s[n + 1] \in S THEN Append(f[n], s[n + 1]) ELSE f[n]
    BY <1>2, <2>1 DEF Takes
  <2>3. g[n + 1] = IF s[n + 1] \in U THEN Append(g[n], s[n + 1]) ELSE g[n]
    BY <1>3, <2>1 DEF Takes
  <2>4. QED
    BY <1>5, <2>1, <2>2, <2>3
<1>6. Len(s) \in T
  <2> HIDE DEF T
  <2>1. QED
    BY <1>1, <1>4, <1>5, UpTo
<1>7. QED
  BY <1>2, <1>3, <1>6

\* A sequence one element after the other.
LEMMA PrefixSteps ==
  ASSUME NEW R, NEW t \in Seq(R)
  PROVE  /\ Len(t) \in Nat /\ SubSeq(t, 1, 0) = <<>> /\ SubSeq(t, 1, Len(t)) = t
         /\ \A n \in 0 .. (Len(t) - 1) :
              /\ SubSeq(t, 1, n) \in Seq(R) /\ t[n + 1] \in R
              /\ SubSeq(t, 1, n + 1) = Append(SubSeq(t, 1, n), t[n + 1])
<1>1. Len(t) \in Nat /\ SubSeq(t, 1, 0) = <<>> /\ SubSeq(t, 1, Len(t)) = t
  OBVIOUS
<1>2. ASSUME NEW n \in 0 .. (Len(t) - 1)
      PROVE  /\ SubSeq(t, 1, n) \in Seq(R) /\ t[n + 1] \in R
             /\ SubSeq(t, 1, n + 1) = Append(SubSeq(t, 1, n), t[n + 1])
  <2>1. n \in Nat /\ n + 1 \in 1 .. Len(t)
    BY <1>1
  <2>2. SubSeq(t, 1, n + 1) = Append(SubSeq(t, 1, n), t[n + 1])
    BY <1>1, <2>1
  <2>3. \A i \in 1 .. n : t[i] \in R
    BY <1>1, <2>1
  <2>4. SubSeq(t, 1, n) \in Seq(R)
    BY <2>1, <2>3, SubSeqProperties
  <2>5. t[n + 1] \in R
    BY <2>1
  <2>6. QED
    BY <2>2, <2>4, <2>5
<1>3. QED
  BY <1>1, <1>2

LEMMA ConcatAppend ==
  ASSUME NEW R, NEW s \in Seq(R), NEW t \in Seq(R), NEW x \in R
  PROVE  s \o t \in Seq(R) /\ s \o Append(t, x) = Append(s \o t, x)
OBVIOUS

LEMMA OnlyEmpty == ASSUME NEW S PROVE Only(<<>>, S) = <<>>
<1>1. PICK e : e = <<>>
  OBVIOUS
<1>2. e \in Seq(S)
  BY <1>1
<1>3. Only(e, S) = e
  BY <1>2, OnlyAll
<1>4. QED
  BY <1>1, <1>3

\* What is kept of two sequences is kept of each.
KeptOfEach(s, q, S) == Only(s \o q, S) = Only(s, S) \o Only(q, S)

LEMMA OnlyConcatMore ==
  ASSUME NEW R, NEW s \in Seq(R), NEW q \in Seq(R), NEW x \in R, NEW S, KeptOfEach(s, q, S)
  PROVE  KeptOfEach(s, Append(q, x), S)
<1>1. PICK r : r = s \o q
  OBVIOUS
<1>2. r \in Seq(R) /\ s \o Append(q, x) = Append(r, x)
  BY <1>1, ConcatAppend
<1>3. Only(Append(r, x), S) = IF x \in S THEN Append(Only(r, S), x) ELSE Only(r, S)
  BY <1>2, OnlyAppend
<1>4. Only(Append(q, x), S) = IF x \in S THEN Append(Only(q, S), x) ELSE Only(q, S)
  BY OnlyAppend
<1>5. PICK k, l : k = Only(s, S) /\ l = Only(q, S)
  OBVIOUS
<1>6. Only(r, S) = k \o l
  BY <1>1, <1>5 DEF KeptOfEach
<1>7. ASSUME x \in S
      PROVE  k \o Append(l, x) = Append(k \o l, x)
  <2>1. k \in Seq(R \cap S) /\ l \in Seq(R \cap S) /\ x \in R \cap S
    BY <1>5, <1>7, OnlyTyped
  <2>2. QED
    BY <2>1, ConcatAppend
<1>8. CASE x \in S
  BY <1>2, <1>3, <1>4, <1>5, <1>6, <1>7, <1>8 DEF KeptOfEach
<1>9. CASE x \notin S
  BY <1>2, <1>3, <1>4, <1>5, <1>6, <1>9 DEF KeptOfEach
<1>10. QED
  BY <1>8, <1>9

LEMMA OnlyConcat ==
  ASSUME NEW R, NEW s \in Seq(R), NEW t \in Seq(R), NEW S
  PROVE  Only(s \o t, S) = Only(s, S) \o Only(t, S)
<1> DEFINE T == {n \in 0 .. Len(t) : KeptOfEach(s, SubSeq(t, 1, n), S)}
<1>1. /\ Len(t) \in Nat /\ SubSeq(t, 1, 0) = <<>> /\ SubSeq(t, 1, Len(t)) = t
      /\ \A n \in 0 .. (Len(t) - 1) :
           /\ SubSeq(t, 1, n) \in Seq(R) /\ t[n + 1] \in R
           /\ SubSeq(t, 1, n + 1) = Append(SubSeq(t, 1, n), t[n + 1])
  BY PrefixSteps
<1>2. 0 \in T
  <2>1. PICK k : k = Only(s, S)
    OBVIOUS
  <2>2. k \in Seq(R \cap S)
    BY <2>1, OnlyTyped
  <2>3. s \o <<>> = s /\ k \o <<>> = k
    BY <2>2
  <2>4. Only(<<>>, S) = <<>>
    BY OnlyEmpty
  <2>5. PICK e : e = SubSeq(t, 1, 0)
    OBVIOUS
  <2>6. e = <<>>
    BY <1>1, <2>5
  <2>7. KeptOfEach(s, e, S)
    BY <2>1, <2>3, <2>4, <2>6 DEF KeptOfEach
  <2>8. 0 \in 0 .. Len(t)
    BY <1>1
  <2>9. QED
    BY <2>5, <2>7, <2>8
<1>3. ASSUME NEW n \in 0 .. (Len(t) - 1), n \in T
      PROVE  n + 1 \in T
  <2>1. PICK q \in Seq(R), x \in R : q = SubSeq(t, 1, n) /\ Append(q, x) = SubSeq(t, 1, n + 1)
    BY <1>1
  <2>2. KeptOfEach(s, q, S)
    BY <1>3, <2>1
  <2>3. KeptOfEach(s, Append(q, x), S)
    BY <2>2, OnlyConcatMore
  <2>4. n + 1 \in 0 .. Len(t)
    BY <1>1
  <2>5. QED
    BY <2>1, <2>3, <2>4
<1>4. Len(t) \in T
  <2> HIDE DEF T
  <2>1. QED
    BY <1>1, <1>2, <1>3, UpTo
<1>5. QED
  BY <1>1, <1>4 DEF KeptOfEach

\* Nothing is kept of a sequence without an element of S.
LEMMA OnlyNone ==
  ASSUME NEW R, NEW s \in Seq(R), NEW S, \A i \in 1 .. Len(s) : s[i] \notin S
  PROVE  Only(s, S) = <<>>
<1>1. Only(s, S) = Only(s, {})
  BY OnlyAgree
<1>2. Only(s, {}) \in Seq(R \cap {})
  BY OnlyTyped
<1>3. QED
  BY <1>1, <1>2

\* What is kept in two rounds is in both sets.
LEMMA OnlyTwiceMore ==
  ASSUME NEW R, NEW q \in Seq(R), NEW x \in R, NEW S, NEW U,
         Only(Only(q, S), U) = Only(q, S \cap U)
  PROVE  Only(Only(Append(q, x), S), U) = Only(Append(q, x), S \cap U)
<1>1. Only(Append(q, x), S) = IF x \in S THEN Append(Only(q, S), x) ELSE Only(q, S)
  BY OnlyAppend
<1>2. Only(Append(q, x), S \cap U) =
        IF x \in S \cap U THEN Append(Only(q, S \cap U), x) ELSE Only(q, S \cap U)
  BY OnlyAppend
<1>3. ASSUME x \in S
      PROVE  Only(Append(Only(q, S), x), U) =
               IF x \in U THEN Append(Only(Only(q, S), U), x) ELSE Only(Only(q, S), U)
  <2>1. PICK k : k = Only(q, S)
    OBVIOUS
  <2>2. PICK Z : Z = R \cap S
    OBVIOUS
  <2> k \in Seq(Z) /\ x \in Z
    BY <1>3, <2>1, <2>2, OnlyTyped
  <2>3. Only(Append(k, x), U) = IF x \in U THEN Append(Only(k, U), x) ELSE Only(k, U)
    BY OnlyAppend
  <2>4. QED
    BY <2>1, <2>3
<1>4. x \in S \cap U <=> x \in S /\ x \in U
  OBVIOUS
<1>5. CASE x \in S
  BY <1>1, <1>2, <1>3, <1>4, <1>5
<1>6. CASE x \notin S
  BY <1>1, <1>2, <1>4, <1>6
<1>7. QED
  BY <1>5, <1>6

LEMMA OnlyTwice ==
  ASSUME NEW R, NEW t \in Seq(R), NEW S, NEW U
  PROVE  Only(Only(t, S), U) = Only(t, S \cap U)
<1> DEFINE T == {n \in 0 .. Len(t) :
                   Only(Only(SubSeq(t, 1, n), S), U) = Only(SubSeq(t, 1, n), S \cap U)}
<1>1. /\ Len(t) \in Nat /\ SubSeq(t, 1, 0) = <<>> /\ SubSeq(t, 1, Len(t)) = t
      /\ \A n \in 0 .. (Len(t) - 1) :
           /\ SubSeq(t, 1, n) \in Seq(R) /\ t[n + 1] \in R
           /\ SubSeq(t, 1, n + 1) = Append(SubSeq(t, 1, n), t[n + 1])
  BY PrefixSteps
<1>2. 0 \in T
  <2>1. Only(<<>>, S) = <<>> /\ Only(<<>>, U) = <<>> /\ Only(<<>>, S \cap U) = <<>>
    BY OnlyEmpty
  <2>2. Only(Only(<<>>, S), U) = Only(<<>>, S \cap U)
    BY <2>1
  <2>3. Only(Only(SubSeq(t, 1, 0), S), U) = Only(SubSeq(t, 1, 0), S \cap U)
    BY <1>1, <2>2
  <2>4. 0 \in 0 .. Len(t)
    BY <1>1
  <2>5. QED
    BY <2>3, <2>4
<1>3. ASSUME NEW n \in 0 .. (Len(t) - 1), n \in T
      PROVE  n + 1 \in T
  <2>1. PICK q \in Seq(R), x \in R : q = SubSeq(t, 1, n) /\ Append(q, x) = SubSeq(t, 1, n + 1)
    BY <1>1
  <2>2. Only(Only(q, S), U) = Only(q, S \cap U)
    BY <1>3, <2>1
  <2>3. Only(Only(Append(q, x), S), U) = Only(Append(q, x), S \cap U)
    BY <2>2, OnlyTwiceMore
  <2>4. n + 1 \in 0 .. Len(t)
    BY <1>1
  <2>5. QED
    BY <2>1, <2>3, <2>4
<1>4. Len(t) \in T
  <2> HIDE DEF T
  <2>1. QED
    BY <1>1, <1>2, <1>3, UpTo
<1>5. QED
  BY <1>1, <1>4
=============================================================================
