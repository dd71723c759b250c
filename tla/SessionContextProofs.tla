------------------------- MODULE SessionContextProofs -------------------------
(***************************************************************************)
(* The messages of a session, for any limits, any history and any number of  *)
(* turns: a block of memory, each of whose reads keeps the budget and tells   *)
(* nothing twice, and behind it the conversation, of which the window has     *)
(* left the newest turns and which holds the present query with what was      *)
(* retrieved for it.                                                         *)
(***************************************************************************)
EXTENDS SessionContext, SubsequencesProofs, FiniteSetTheorems, TLAPS

\* What the aggregators appended, as far as it is still there.
OfTurns == {m \in Messages : m.src = "turn"}
Own(c) == Only(c, OfTurns)

\* r is the end of t.
EndOf(r, t) == Len(r) <= Len(t) /\ \A i \in 1..Len(r) : r[i] = t[i + (Len(t) - Len(r))]

\* The memory, which the window protects.
Memories ==
  {m \in Messages : m.src \in {"start", "hydrated"} /\ m.role # "tool" /\ m.text[1] # "turn"}
\* A text comes once of each read, and no message that the summary of its read quotes.
TextsOnce(b) ==
  \A i, j \in 1..Len(b) : i < j /\ b[i].src = b[j].src => b[i].text # b[j].text
Unquoted(b) ==
  \A i, j \in 1..Len(b) :
    b[i].src = b[j].src /\ b[i].text[1] = "summary" /\ b[j].role # "developer" =>
      b[j].text \notin Summarised

\* The memory as it is: each of its reads keeps the budget.
Sound(b) ==
  /\ TextsOnce(b) /\ Unquoted(b)
  /\ \A src \in {"start", "hydrated"} : Cardinality({m \in ToSet(b) : m.src = src}) <= MemoryBudget
Block(b, prot) == b \in Seq(Memories) /\ prot = ToSet(b) /\ Sound(b)

\* Behind it is what was said, and what was retrieved for the present turn.
Dialogue(c, dyn) ==
  /\ c \in Seq(Messages)
  /\ \A i \in 1..Len(c) :
       c[i].src = "turn" \/ (c[i].src = "dynamic" /\ c[i].role = "developer" /\ c[i] \in dyn)

\* Between a tool's result and its call the user says nothing.
CallAt(c, i, j) ==
  /\ c[j].role = "assistant" /\ c[j].text = c[i].text
  /\ \A k \in j..i : c[k].role # "user"
CallsFirst(c) ==
  \A i \in 1..Len(c) : c[i].role = "tool" => \E j \in 1..(i - 1) : CallAt(c, i, j)

\* It is the newest part of the session sd, from a user's words on.
Newer(c, sd) ==
  /\ EndOf(Own(c), sd)
  /\ sd # <<>> => Own(c) # <<>> /\ Own(c)[1].role = "user"

\* The query of turn n is the user's last, and what was retrieved is behind it.
AskedAt(c, dyn, n, q) ==
  /\ c[q] = Query(n)
  /\ \A k \in (q + 1)..Len(c) : c[k].role # "user"
  /\ \A m \in dyn : \E k \in (q + 1)..Len(c) : c[k] = m
Asks(c, dyn, n) == \E q \in 1..Len(c) : AskedAt(c, dyn, n, q)

-----------------------------------------------------------------------------
(* A message joins the conversation. *)

LEMMA Joined ==
  ASSUME NEW c \in Seq(Messages), NEW x \in Messages, NEW d, d = Append(c, x)
  PROVE  /\ d \in Seq(Messages) /\ Len(d) = Len(c) + 1 /\ Len(c) \in Nat
         /\ \A i \in 1..Len(c) : d[i] = c[i] /\ c[i] \in Messages
         /\ d[Len(c) + 1] = x
OBVIOUS

LEMMA OwnJoined ==
  ASSUME NEW c \in Seq(Messages), NEW x \in Messages, x.src = "turn"
  PROVE  Own(Append(c, x)) = Append(Own(c), x)
<1>1. x \in OfTurns
  BY DEF OfTurns
<1>2. QED
  BY <1>1, OnlyAppend DEF Own

LEMMA OwnTyped == ASSUME NEW c \in Seq(Messages) PROVE Own(c) \in Seq(Messages)
<1>1. Own(c) \in Seq(Messages \cap OfTurns)
  BY OnlyTyped DEF Own
<1>2. Messages \cap OfTurns \subseteq Messages
  OBVIOUS
<1>3. QED
  BY <1>1, <1>2

LEMMA OwnConcat ==
  ASSUME NEW c \in Seq(Messages), NEW d \in Seq(Messages)
  PROVE  Own(c \o d) = Own(c) \o Own(d)
BY OnlyConcat DEF Own

LEMMA EndJoined ==
  ASSUME NEW r \in Seq(Messages), NEW t \in Seq(Messages), NEW x \in Messages, EndOf(r, t)
  PROVE  EndOf(Append(r, x), Append(t, x))
<1>1. PICK u, v : u = Append(r, x) /\ v = Append(t, x)
  OBVIOUS
<1>2. /\ Len(u) = Len(r) + 1 /\ Len(v) = Len(t) + 1 /\ Len(r) \in Nat /\ Len(t) \in Nat
      /\ u[Len(r) + 1] = x /\ v[Len(t) + 1] = x
      /\ \A i \in 1..Len(r) : u[i] = r[i]
      /\ \A i \in 1..Len(t) : v[i] = t[i]
  BY <1>1, Joined
<1>3. Len(r) <= Len(t) /\ \A i \in 1..Len(r) : r[i] = t[i + (Len(t) - Len(r))]
  BY DEF EndOf
<1>4. ASSUME NEW i \in 1..Len(u)
      PROVE  u[i] = v[i + (Len(v) - Len(u))]
  <2>1. CASE i = Len(r) + 1
    <3>1. i + (Len(v) - Len(u)) = Len(t) + 1
      BY <1>2, <2>1
    <3>2. QED
      BY <1>2, <2>1, <3>1
  <2>2. CASE i # Len(r) + 1
    <3>1. /\ i \in 1..Len(r) /\ i + (Len(v) - Len(u)) = i + (Len(t) - Len(r))
          /\ i + (Len(t) - Len(r)) \in 1..Len(t)
      BY <1>2, <1>3, <2>2
    <3>2. QED
      BY <1>2, <1>3, <3>1
  <2>3. QED
    BY <2>1, <2>2
<1>5. Len(u) <= Len(v)
  BY <1>2, <1>3
<1>6. EndOf(u, v)
  BY <1>4, <1>5 DEF EndOf
<1>7. QED
  BY <1>1, <1>6

LEMMA NewerJoined ==
  ASSUME NEW c \in Seq(Messages), NEW sd \in Seq(Messages), NEW x \in Messages,
         x.src = "turn", Newer(c, sd), sd # <<>> \/ x.role = "user"
  PROVE  Newer(Append(c, x), Append(sd, x))
<1>1. PICK r : r = Own(c)
  OBVIOUS
<1>2. r \in Seq(Messages) /\ Own(Append(c, x)) = Append(r, x)
  BY <1>1, OwnTyped, OwnJoined
<1>3. EndOf(r, sd) /\ (sd # <<>> => r # <<>> /\ r[1].role = "user")
  BY <1>1 DEF Newer
<1>4. EndOf(Append(r, x), Append(sd, x))
  BY <1>2, <1>3, EndJoined
<1>5. Append(r, x) # <<>> /\ Append(r, x)[1].role = "user"
  <2>1. CASE sd # <<>>
    BY <1>2, <1>3, <2>1
  <2>2. CASE sd = <<>>
    <3>1. r = <<>>
      BY <1>2, <1>3, <2>2 DEF EndOf
    <3>2. QED
      BY <2>2, <3>1
  <2>3. QED
    BY <2>1, <2>2
<1>6. QED
  BY <1>2, <1>4, <1>5 DEF Newer

LEMMA DialogueJoined ==
  ASSUME NEW c, NEW dyn, NEW x \in Messages, x.src = "turn", Dialogue(c, dyn)
  PROVE  Dialogue(Append(c, x), dyn)
<1>1. c \in Seq(Messages)
  BY DEF Dialogue
<1>2. PICK d : d = Append(c, x)
  OBVIOUS
<1>3. /\ d \in Seq(Messages) /\ Len(d) = Len(c) + 1 /\ Len(c) \in Nat
      /\ \A i \in 1..Len(c) : d[i] = c[i]
      /\ d[Len(c) + 1] = x
  BY <1>1, <1>2, Joined
<1>4. ASSUME NEW i \in 1..Len(d)
      PROVE  d[i].src = "turn" \/ (d[i].src = "dynamic" /\ d[i].role = "developer" /\ d[i] \in dyn)
  <2>1. CASE i = Len(c) + 1
    BY <1>3, <2>1
  <2>2. CASE i \in 1..Len(c)
    BY <1>3, <2>2 DEF Dialogue
  <2>3. QED
    BY <1>3, <2>1, <2>2
<1>5. QED
  BY <1>2, <1>3, <1>4 DEF Dialogue

LEMMA CallsJoined ==
  ASSUME NEW c \in Seq(Messages), NEW x \in Messages, CallsFirst(c),
         x.role = "tool" =>
           /\ Len(c) > 0 /\ c[Len(c)].role = "assistant" /\ c[Len(c)].text = x.text
  PROVE  CallsFirst(Append(c, x))
<1>1. PICK d : d = Append(c, x)
  OBVIOUS
<1>2. /\ Len(d) = Len(c) + 1 /\ Len(c) \in Nat /\ d[Len(c) + 1] = x
      /\ \A i \in 1..Len(c) : d[i] = c[i]
  BY <1>1, Joined
<1>3. ASSUME NEW i \in 1..Len(d), d[i].role = "tool"
      PROVE  \E j \in 1..(i - 1) : CallAt(d, i, j)
  <2>1. CASE i = Len(c) + 1
    <3>1. x.role = "tool"
      BY <1>2, <1>3, <2>1
    <3>2. Len(c) \in 1..(i - 1) /\ c[Len(c)].role = "assistant" /\ c[Len(c)].text = x.text
      BY <1>2, <2>1, <3>1
    <3>3. d[Len(c)] = c[Len(c)] /\ d[i] = x
      BY <1>2, <2>1, <3>2
    <3>4. \A k \in Len(c)..i : d[k].role # "user"
      <4>1. \A k \in Len(c)..i : k = Len(c) \/ k = i
        BY <1>2, <2>1
      <4>2. QED
        BY <1>3, <3>2, <3>3, <4>1
    <3>5. CallAt(d, i, Len(c))
      BY <3>2, <3>3, <3>4 DEF CallAt
    <3>6. QED
      BY <3>2, <3>5
  <2>2. CASE i \in 1..Len(c)
    <3>1. PICK j \in 1..(i - 1) : CallAt(c, i, j)
      BY <1>2, <1>3, <2>2 DEF CallsFirst
    <3>2. \A k \in j..i : k \in 1..Len(c) /\ d[k] = c[k]
      BY <1>2, <2>2
    <3>3. d[j] = c[j] /\ d[i] = c[i]
      BY <2>2, <3>2
    <3>4. CallAt(d, i, j)
      BY <3>1, <3>2, <3>3 DEF CallAt
    <3>5. QED
      BY <3>4
  <2>3. QED
    BY <1>2, <2>1, <2>2
<1>4. QED
  BY <1>1, <1>3 DEF CallsFirst

LEMMA AsksJoined ==
  ASSUME NEW c \in Seq(Messages), NEW x \in Messages, NEW dyn, NEW n, Asks(c, dyn, n),
         x.role # "user"
  PROVE  Asks(Append(c, x), dyn, n)
<1>1. PICK d : d = Append(c, x)
  OBVIOUS
<1>2. /\ Len(d) = Len(c) + 1 /\ Len(c) \in Nat /\ d[Len(c) + 1] = x
      /\ \A i \in 1..Len(c) : d[i] = c[i]
  BY <1>1, Joined
<1>3. PICK q \in 1..Len(c) : AskedAt(c, dyn, n, q)
  BY DEF Asks
<1>4. q \in 1..Len(d) /\ d[q] = Query(n)
  BY <1>2, <1>3 DEF AskedAt
<1>5. ASSUME NEW k \in (q + 1)..Len(d)
      PROVE  d[k].role # "user"
  <2>1. k = Len(c) + 1 \/ k \in (q + 1)..Len(c)
    BY <1>2
  <2>2. QED
    BY <1>2, <1>3, <2>1 DEF AskedAt
<1>6. ASSUME NEW m \in dyn
      PROVE  \E k \in (q + 1)..Len(d) : d[k] = m
  <2>1. PICK k \in (q + 1)..Len(c) : c[k] = m
    BY <1>3 DEF AskedAt
  <2>2. k \in (q + 1)..Len(d) /\ k \in 1..Len(c)
    BY <1>2
  <2>3. QED
    BY <1>2, <2>1, <2>2
<1>7. AskedAt(d, dyn, n, q)
  BY <1>4, <1>5, <1>6 DEF AskedAt
<1>8. QED
  BY <1>1, <1>4, <1>7 DEF Asks

\* The query itself joins.
LEMMA AsksQuery ==
  ASSUME NEW c \in Seq(Messages), NEW n, Query(n) \in Messages
  PROVE  Asks(Append(c, Query(n)), {}, n)
<1>1. PICK d : d = Append(c, Query(n))
  OBVIOUS
<1>2. Len(d) = Len(c) + 1 /\ Len(c) \in Nat /\ d[Len(c) + 1] = Query(n)
  BY <1>1, Joined
<1>3. AskedAt(d, {}, n, Len(c) + 1) /\ Len(c) + 1 \in 1..Len(d)
  BY <1>2 DEF AskedAt
<1>4. QED
  BY <1>1, <1>3 DEF Asks
-----------------------------------------------------------------------------
(* What was retrieved for an earlier turn goes. *)

LEMMA ClearedPlaces ==
  ASSUME NEW c \in Seq(Messages), NEW S, CallsFirst(c),
         \A i \in 1..Len(c) : c[i].role # "developer" => c[i] \in S
  PROVE  CallsFirst(Only(c, S))
<1>1. PICK d : d = Only(c, S)
  OBVIOUS
<1>2. PICK e : Places(e, d, c, S, Len(c))
  BY <1>1, OnlyPlaces
<1>3. d \in Seq(Messages \cap S) /\ Len(c) \in Nat
  BY <1>1, OnlyTyped
<1>4. Len(d) \in Nat
  BY <1>3
<1>5. ASSUME NEW i \in 1..Len(d), d[i].role = "tool"
      PROVE  \E j \in 1..(i - 1) : CallAt(d, i, j)
  <2>1. e[i] \in 1..Len(c) /\ c[e[i]] = d[i]
    BY <1>2 DEF Places
  <2>2. PICK p \in 1..(e[i] - 1) : CallAt(c, e[i], p)
    BY <1>5, <2>1 DEF CallsFirst
  <2>3. p \in 1..Len(c)
    BY <1>3, <2>1
  <2>4. c[p] \in S
    BY <2>2, <2>3 DEF CallAt
  <2>5. PICK j \in 1..Len(d) : e[j] = p
    BY <1>2, <2>3, <2>4 DEF Places
  <2>6. d[j] = c[p]
    BY <1>2, <2>5 DEF Places
  <2>7. j \in 1..(i - 1)
    <3>1. e[j] < e[i]
      BY <2>1, <2>2, <2>5
    <3>2. i < j => e[i] < e[j]
      BY <1>2 DEF Places
    <3>3. QED
      BY <1>4, <2>1, <2>3, <2>5, <3>1, <3>2
  <2>8. ASSUME NEW k \in j..i
        PROVE  d[k].role # "user"
    <3>1. k \in 1..Len(d)
      BY <1>4
    <3>2. e[k] \in 1..Len(c) /\ d[k] = c[e[k]]
      BY <1>2, <3>1 DEF Places
    <3>3. p <= e[k]
      <4>1. j < k => e[j] < e[k]
        BY <1>2, <3>1 DEF Places
      <4>2. QED
        BY <2>3, <2>5, <3>2, <4>1
    <3>4. e[k] <= e[i]
      <4>1. k < i => e[k] < e[i]
        BY <1>2, <3>1 DEF Places
      <4>2. QED
        BY <2>1, <3>2, <4>1
    <3>5. e[k] \in p..e[i]
      BY <2>1, <2>3, <3>2, <3>3, <3>4
    <3>6. QED
      BY <2>2, <3>2, <3>5 DEF CallAt
  <2>9. CallAt(d, i, j)
    BY <2>1, <2>2, <2>6, <2>8 DEF CallAt
  <2>10. QED
    BY <2>7, <2>9
<1>6. QED
  BY <1>1, <1>5 DEF CallsFirst

\* Clearing keeps what was said.
LEMMA Cleared ==
  ASSUME NEW c, NEW dyn, NEW S, Dialogue(c, dyn), CallsFirst(c),
         \A m \in dyn : m.src = "dynamic",
         \A i \in 1..Len(c) : c[i] \in S <=> c[i] \notin dyn
  PROVE  /\ Dialogue(Only(c, S), {}) /\ CallsFirst(Only(c, S))
         /\ Own(Only(c, S)) = Own(c)
<1>1. c \in Seq(Messages)
  BY DEF Dialogue
<1>2. PICK d : d = Only(c, S)
  OBVIOUS
<1>3. d \in Seq(Messages)
  <2>1. d \in Seq(Messages \cap S) /\ Messages \cap S \subseteq Messages
    BY <1>1, <1>2, OnlyTyped
  <2>2. QED
    BY <2>1
<1>4. ASSUME NEW i \in 1..Len(d)
      PROVE  d[i].src = "turn"
  <2>1. d[i] \in S /\ \E j \in 1..Len(c) : c[j] = d[i]
    BY <1>1, <1>2, OnlyElements
  <2>2. QED
    BY <2>1 DEF Dialogue
<1>5. Dialogue(d, {})
  BY <1>3, <1>4 DEF Dialogue
<1>6. CallsFirst(d)
  <2>1. \A i \in 1..Len(c) : c[i].role # "developer" => c[i] \in S
    BY DEF Dialogue
  <2>2. QED
    BY <1>1, <1>2, <2>1, ClearedPlaces
<1>7. Own(d) = Own(c)
  <2>1. Only(Only(c, S), OfTurns) = Only(c, S \cap OfTurns)
    BY <1>1, OnlyTwice
  <2>2. \A i \in 1..Len(c) : c[i] \in S \cap OfTurns <=> c[i] \in OfTurns
    BY DEF OfTurns
  <2>3. Only(c, S \cap OfTurns) = Only(c, OfTurns)
    <3>1. PICK U : U = S \cap OfTurns
      OBVIOUS
    <3>2. Only(c, U) = Only(c, OfTurns)
      BY <1>1, <2>2, <3>1, OnlyAgree
    <3>3. QED
      BY <3>1, <3>2
  <2>4. QED
    BY <1>2, <2>1, <2>3 DEF Own
<1>8. QED
  BY <1>2, <1>5, <1>6, <1>7

-----------------------------------------------------------------------------
(* What was retrieved for the turn arrives. *)

LEMMA Concat ==
  ASSUME NEW R, NEW c \in Seq(R), NEW u \in Seq(R), NEW d, d = c \o u
  PROVE  /\ d \in Seq(R) /\ Len(d) = Len(c) + Len(u) /\ Len(c) \in Nat /\ Len(u) \in Nat
         /\ \A i \in 1..Len(c) : d[i] = c[i]
         /\ \A i \in 1..Len(u) : d[Len(c) + i] = u[i]
<1>1. Len(c) \in Nat /\ Len(u) \in Nat
  OBVIOUS
<1>2. /\ d \in Seq(R) /\ Len(d) = Len(c) + Len(u)
      /\ \A i \in 1..Len(c) + Len(u) : d[i] = IF i <= Len(c) THEN c[i] ELSE u[i - Len(c)]
  BY ConcatProperties
<1>3. ASSUME NEW i \in 1..Len(c)
      PROVE  d[i] = c[i]
  BY <1>1, <1>2
<1>4. ASSUME NEW i \in 1..Len(u)
      PROVE  d[Len(c) + i] = u[i]
  <2>1. Len(c) + i \in 1..Len(c) + Len(u) /\ ~ (Len(c) + i <= Len(c)) /\ (Len(c) + i) - Len(c) = i
    BY <1>1
  <2>2. QED
    BY <1>2, <2>1
<1>5. QED
  BY <1>1, <1>2, <1>3, <1>4

LEMMA Delivered ==
  ASSUME NEW c, NEW n, NEW u \in Seq(Messages), Dialogue(c, {}), CallsFirst(c), Asks(c, {}, n),
         \A i \in 1..Len(u) : u[i].src = "dynamic" /\ u[i].role = "developer"
  PROVE  /\ Dialogue(c \o u, ToSet(u)) /\ CallsFirst(c \o u) /\ Asks(c \o u, ToSet(u), n)
         /\ Own(c \o u) = Own(c)
<1>1. c \in Seq(Messages)
  BY DEF Dialogue
<1>2. PICK d : d = c \o u
  OBVIOUS
<1>3. /\ d \in Seq(Messages) /\ Len(d) = Len(c) + Len(u) /\ Len(c) \in Nat /\ Len(u) \in Nat
      /\ \A i \in 1..Len(c) : d[i] = c[i]
      /\ \A i \in 1..Len(u) : d[Len(c) + i] = u[i]
  BY <1>1, <1>2, Concat
<1>4. \A i \in 1..Len(d) : i \in 1..Len(c) \/ \E k \in 1..Len(u) : i = Len(c) + k
  <2>1. ASSUME NEW i \in 1..Len(d), i \notin 1..Len(c)
        PROVE  i - Len(c) \in 1..Len(u) /\ i = Len(c) + (i - Len(c))
    BY <1>3, <2>1
  <2>2. QED
    BY <2>1
<1>5. \A i \in 1..Len(u) : u[i] \in ToSet(u)
  BY <1>3 DEF ToSet
<1>6. Dialogue(d, ToSet(u))
  <2>1. \A i \in 1..Len(c) : c[i].src = "turn"
    BY DEF Dialogue
  <2>2. ASSUME NEW i \in 1..Len(d)
        PROVE  \/ d[i].src = "turn"
               \/ d[i].src = "dynamic" /\ d[i].role = "developer" /\ d[i] \in ToSet(u)
    <3>1. CASE i \in 1..Len(c)
      BY <1>3, <2>1, <3>1
    <3>2. ASSUME NEW k \in 1..Len(u), i = Len(c) + k
          PROVE  d[i].src = "dynamic" /\ d[i].role = "developer" /\ d[i] \in ToSet(u)
      <4>1. d[i] = u[k] /\ u[k] \in ToSet(u)
        BY <1>3, <1>5, <3>2
      <4>2. QED
        BY <4>1
    <3>3. QED
      BY <1>4, <3>1, <3>2
  <2>3. QED
    BY <1>3, <2>2 DEF Dialogue
<1>7. CallsFirst(d)
  <2>1. ASSUME NEW i \in 1..Len(d), d[i].role = "tool"
        PROVE  \E j \in 1..(i - 1) : CallAt(d, i, j)
    <3>1. i \in 1..Len(c)
      BY <1>3, <1>4, <2>1
    <3>2. PICK j \in 1..(i - 1) : CallAt(c, i, j)
      BY <1>3, <2>1, <3>1 DEF CallsFirst
    <3>3. \A k \in j..i : k \in 1..Len(c) /\ d[k] = c[k]
      BY <1>3, <3>1
    <3>4. d[j] = c[j] /\ d[i] = c[i]
      BY <3>1, <3>3
    <3>5. CallAt(d, i, j)
      BY <3>2, <3>3, <3>4 DEF CallAt
    <3>6. QED
      BY <3>5
  <2>2. QED
    BY <2>1 DEF CallsFirst
<1>8. Asks(d, ToSet(u), n)
  <2>1. PICK q \in 1..Len(c) : AskedAt(c, {}, n, q)
    BY DEF Asks
  <2>2. q \in 1..Len(d) /\ d[q] = Query(n)
    BY <1>3, <2>1 DEF AskedAt
  <2>3. ASSUME NEW k \in (q + 1)..Len(d)
        PROVE  d[k].role # "user"
    <3>1. k \in 1..Len(d)
      BY <1>3
    <3>2. CASE k \in 1..Len(c)
      <4>1. k \in (q + 1)..Len(c)
        BY <1>3, <3>2
      <4>2. QED
        BY <1>3, <2>1, <3>2, <4>1 DEF AskedAt
    <3>3. CASE k \notin 1..Len(c)
      BY <1>3, <1>4, <3>1, <3>3
    <3>4. QED
      BY <3>2, <3>3
  <2>4. ASSUME NEW m \in ToSet(u)
        PROVE  \E k \in (q + 1)..Len(d) : d[k] = m
    <3>1. PICK i \in 1..Len(u) : u[i] = m
      BY <1>3 DEF ToSet
    <3>2. Len(c) + i \in (q + 1)..Len(d) /\ d[Len(c) + i] = m
      BY <1>3, <3>1
    <3>3. QED
      BY <3>2
  <2>5. AskedAt(d, ToSet(u), n, q)
    BY <2>2, <2>3, <2>4 DEF AskedAt
  <2>6. QED
    BY <2>2, <2>5 DEF Asks
<1>9. Own(d) = Own(c)
  <2>1. \A i \in 1..Len(u) : u[i] \notin OfTurns
    BY DEF OfTurns
  <2>2. Only(u, OfTurns) = <<>>
    BY <2>1, OnlyNone
  <2>3. Own(c \o u) = Own(c) \o Own(u)
    BY <1>1, OwnConcat
  <2>4. Own(c) \o <<>> = Own(c)
    BY <1>1, OwnTyped, ConcatEmptySeq
  <2>5. QED
    BY <1>2, <2>2, <2>3, <2>4 DEF Own
<1>10. QED
  BY <1>2, <1>6, <1>7, <1>8, <1>9

-----------------------------------------------------------------------------
(* The window. *)

LEMMA Greatest ==
  ASSUME NEW k \in Nat, NEW T \in SUBSET (1..k), T # {}
  PROVE  Max(T) \in T /\ \A y \in T : y <= Max(T)
<1>1. PICK U : U = {n \in 0..k : k - n \in T}
  OBVIOUS
<1>2. U \in SUBSET Nat /\ U # {}
  <2>1. PICK t \in T : TRUE
    OBVIOUS
  <2>2. t \in 1..k
    BY <2>1
  <2>3. k - t \in 0..k /\ k - (k - t) = t
    BY <2>2
  <2>4. k - t \in U
    BY <1>1, <2>1, <2>3
  <2>5. U \in SUBSET Nat
    BY <1>1
  <2>6. QED
    BY <2>4, <2>5
<1>3. PICK x \in U : \A y \in U : x <= y
  BY <1>2, Least
<1>4. ASSUME NEW y \in T
      PROVE  k - x >= y
  <2>1. k - y \in 0..k /\ k - (k - y) = y
    OBVIOUS
  <2>2. k - y \in U
    BY <1>1, <2>1
  <2>3. x <= k - y
    BY <1>3, <2>2
  <2>4. QED
    BY <1>1, <1>3, <2>3
<1>5. \E z \in T : \A y \in T : z >= y
  <2>1. k - x \in T
    BY <1>1, <1>3
  <2>2. QED
    BY <1>4, <2>1
<1>6. Max(T) \in T /\ \A y \in T : Max(T) >= y
  BY <1>5 DEF Max
<1>7. ASSUME NEW y \in T
      PROVE  y <= Max(T)
  BY <1>6
<1>8. QED
  BY <1>6, <1>7

LEMMA LeastIs ==
  ASSUME NEW T \in SUBSET Nat, T # {}
  PROVE  Min(T) \in T /\ \A y \in T : Min(T) <= y
<1>1. \E x \in T : \A y \in T : x <= y
  BY Least
<1>2. QED
  BY <1>1 DEF Min

\* The window keeps an end of the conversation that begins with a group, and
\* the newest group whatever its size.
LEMMA KeptIs ==
  ASSUME NEW c \in Seq(Messages), c # <<>>, NEW room
  PROVE  \E a \in 1..Len(c) :
           /\ Kept(c, room) = SubSeq(c, a, Len(c))
           /\ a = 1 \/ c[a].role = "user"
           /\ \E g \in GroupStarts(c) : a <= g
<1>1. PICK k : k = Len(c)
  OBVIOUS
<1>2. k \in Nat /\ k > 0 /\ DOMAIN c = 1..k
  BY <1>1
<1>3. PICK G : G = GroupStarts(c)
  OBVIOUS
<1>4. G \in SUBSET (1..k) /\ 1 \in G /\ \A i \in G : i = 1 \/ c[i].role = "user"
  BY <1>2, <1>3 DEF GroupStarts
<1>5. Max(G) \in G
  BY <1>2, <1>4, Greatest
<1>6. PICK F : F = {i \in G : Len(c) - i + 1 <= room} \cup {Max(G)}
  OBVIOUS
<1>7. F \in SUBSET Nat /\ F # {} /\ F \subseteq G /\ Max(G) \in F
  <2>1. F \subseteq G /\ Max(G) \in F
    BY <1>5, <1>6
  <2>2. G \subseteq Nat
    BY <1>2, <1>4
  <2>3. QED
    BY <2>1, <2>2
<1>8. Min(F) \in F /\ Min(F) <= Max(G)
  BY <1>7, LeastIs
<1>9. Kept(c, room) = SubSeq(c, Min(F), Len(c))
  BY <1>3, <1>6 DEF Kept
<1>10. Min(F) \in G /\ Min(F) \in 1..Len(c)
  BY <1>1, <1>4, <1>7, <1>8
<1>11. QED
  BY <1>3, <1>4, <1>5, <1>8, <1>9, <1>10

LEMMA Suffix ==
  ASSUME NEW c \in Seq(Messages), NEW a \in 1..Len(c), NEW d, d = SubSeq(c, a, Len(c))
  PROVE  /\ d \in Seq(Messages) /\ Len(d) = Len(c) - a + 1 /\ Len(c) \in Nat
         /\ \A i \in 1..Len(d) : i + (a - 1) \in 1..Len(c) /\ d[i] = c[i + (a - 1)]
<1>1. Len(c) \in Nat
  OBVIOUS
<1>2. /\ d \in Seq(Messages) /\ Len(d) = Len(c) - a + 1
      /\ \A i \in 1..(Len(c) - a + 1) : d[i] = c[a + i - 1]
  <2>1. \A i \in a..Len(c) : c[i] \in Messages
    BY <1>1
  <2>2. /\ d \in Seq(Messages) /\ Len(d) = IF a <= Len(c) THEN Len(c) - a + 1 ELSE 0
        /\ \A i \in 1..(Len(c) - a + 1) : d[i] = c[a + i - 1]
    BY <1>1, <2>1, SubSeqProperties
  <2>3. QED
    BY <1>1, <2>2
<1>3. \A i \in 1..Len(d) : i + (a - 1) \in 1..Len(c) /\ i + (a - 1) = a + i - 1
  BY <1>1, <1>2
<1>4. QED
  BY <1>1, <1>2, <1>3

\* It has room for what it keeps, or keeps one turn.
LEMMA KeptFits ==
  ASSUME NEW c \in Seq(Messages), NEW room \in Int, NEW d, d = Kept(c, room)
  PROVE  Len(d) <= room \/ \A i \in 2..Len(d) : d[i].role # "user"
<1>1. CASE c = <<>>
  BY <1>1 DEF Kept
<1>2. CASE c # <<>>
  <2>1. PICK k \in Nat : k = Len(c) /\ k > 0 /\ DOMAIN c = 1..k
    BY <1>2
  <2>2. PICK G : G = GroupStarts(c)
    OBVIOUS
  <2>3. G \in SUBSET (1..k) /\ 1 \in G /\ \A i \in 1..k : c[i].role = "user" => i \in G
    BY <2>1, <2>2 DEF GroupStarts
  <2>4. PICK z : z = Max(G)
    OBVIOUS
  <2>5. z \in G /\ \A y \in G : y <= z
    BY <2>3, <2>4, Greatest
  <2>6. PICK T : T = {i \in G : k - i + 1 <= room}
    OBVIOUS
  <2>7. PICK F : F = T \cup {z}
    OBVIOUS
  <2>8. F \in SUBSET Nat /\ F # {} /\ F \subseteq 1..k
    <3>1. F \subseteq G /\ F # {}
      BY <2>5, <2>6, <2>7
    <3>2. G \subseteq 1..k /\ 1..k \subseteq Nat
      BY <2>3
    <3>3. QED
      BY <3>1, <3>2
  <2>9. PICK a : a = Min(F)
    OBVIOUS
  <2>10. a \in F /\ a \in 1..k /\ \A y \in F : a <= y
    BY <2>8, <2>9, LeastIs
  <2>11. d = SubSeq(c, a, Len(c))
    BY <1>2, <2>1, <2>2, <2>4, <2>6, <2>7, <2>9 DEF Kept
  <2>12. /\ Len(d) = k - a + 1
         /\ \A i \in 1..Len(d) : i + (a - 1) \in 1..k /\ d[i] = c[i + (a - 1)]
    BY <2>1, <2>10, <2>11, Suffix
  <2>13. CASE a \in T
    BY <2>6, <2>12, <2>13
  <2>14. CASE a \notin T
    <3>1. a = z
      BY <2>7, <2>10, <2>14
    <3>2. ASSUME NEW i \in 2..Len(d)
          PROVE  d[i].role # "user"
      <4>1. i \in 1..Len(d) /\ i + (a - 1) > a
        BY <2>10, <2>12
      <4>2. i + (a - 1) \notin G
        BY <2>3, <2>5, <2>10, <3>1, <4>1
      <4>3. QED
        BY <2>3, <2>12, <4>1, <4>2
    <3>3. QED
      BY <3>2
  <2>15. QED
    BY <2>13, <2>14
<1>3. QED
  BY <1>1, <1>2

\* What is kept of the session begins with a user's words, and is its end.
LEMMA CutOwn ==
  ASSUME NEW c \in Seq(Messages), NEW a \in 1..Len(c), a > 1, c[a].role = "user", c[a].src = "turn"
  PROVE  \E r, t \in Seq(Messages) :
           /\ Own(c) = r \o t /\ Own(SubSeq(c, a, Len(c))) = t
           /\ t # <<>> /\ t[1].role = "user"
<1>1. PICK u, v : u = SubSeq(c, 1, a - 1) /\ v = SubSeq(c, a, Len(c))
  OBVIOUS
<1>2. Len(c) \in Nat
  OBVIOUS
<1>3. u \in Seq(Messages) /\ v \in Seq(Messages)
  <2>1. (\A i \in 1..(a - 1) : c[i] \in Messages) /\ (\A i \in a..Len(c) : c[i] \in Messages)
    BY <1>2
  <2>2. QED
    BY <1>1, <1>2, <2>1, SubSeqProperties
<1>4. c = u \o v
  <2>1. 1 \in 1..Len(c) + 1 /\ a - 1 \in (1 - 1)..Len(c) /\ Len(c) \in (a - 1)..Len(c) /\ (a - 1) + 1 = a
    BY <1>2
  <2>2. SubSeq(c, 1, a - 1) \o SubSeq(c, (a - 1) + 1, Len(c)) = SubSeq(c, 1, Len(c))
    BY <2>1, ConcatAdjacentSubSeq
  <2>3. SubSeq(c, 1, Len(c)) = c
    BY SubSeqFull
  <2>4. QED
    BY <1>1, <2>1, <2>2, <2>3
<1>5. PICK w \in Seq(Messages) : v = <<c[a]>> \o w
  <2>1. SubSeq(c, a, Len(c)) = <<c[a]>> \o SubSeq(c, a + 1, Len(c))
    BY <1>2, SubSeqRecursiveFirst
  <2>2. SubSeq(c, a + 1, Len(c)) \in Seq(Messages)
    <3>1. \A i \in (a + 1)..Len(c) : c[i] \in Messages
      BY <1>2
    <3>2. QED
      BY <1>2, <3>1, SubSeqProperties
  <2>3. QED
    BY <1>1, <2>1, <2>2
<1>6. PICK x \in Messages : x = c[a]
  OBVIOUS
<1>7. Own(v) = <<x>> \o Own(w)
  <2>1. PICK z : z = <<x>>
    OBVIOUS
  <2>2. z \in Seq(Messages)
    BY <2>1
  <2>3. Only(z \o w, OfTurns) = Only(z, OfTurns) \o Only(w, OfTurns)
    BY <1>5, <2>2, OnlyConcat
  <2>4. Only(z, OfTurns) = z
    <3>1. x \in OfTurns
      BY <1>6 DEF OfTurns
    <3>2. z \in Seq(OfTurns)
      BY <2>1, <3>1
    <3>3. QED
      BY <3>2, OnlyAll
  <2>5. QED
    BY <1>5, <1>6, <2>1, <2>3, <2>4 DEF Own
<1>8. PICK r, t, y : r = Own(u) /\ t = Own(v) /\ y = Own(w)
  OBVIOUS
<1>9. r \in Seq(Messages) /\ t \in Seq(Messages) /\ y \in Seq(Messages)
  BY <1>3, <1>5, <1>8, OwnTyped
<1>10. Own(c) = r \o t
  BY <1>3, <1>4, <1>8, OwnConcat
<1>11. t # <<>> /\ t[1] = x
  <2>1. t = <<x>> \o y
    BY <1>7, <1>8
  <2>2. QED
    BY <1>9, <2>1
<1>12. QED
  BY <1>1, <1>6, <1>8, <1>9, <1>10, <1>11

LEMMA EndOfEnd ==
  ASSUME NEW r \in Seq(Messages), NEW t \in Seq(Messages), NEW sd \in Seq(Messages), EndOf(r \o t, sd)
  PROVE  EndOf(t, sd)
<1>1. PICK d : d = r \o t
  OBVIOUS
<1>2. /\ d \in Seq(Messages) /\ Len(d) = Len(r) + Len(t) /\ Len(r) \in Nat /\ Len(t) \in Nat
      /\ \A i \in 1..Len(t) : d[Len(r) + i] = t[i]
  BY <1>1, Concat
<1>3. Len(d) <= Len(sd) /\ \A i \in 1..Len(d) : d[i] = sd[i + (Len(sd) - Len(d))]
  BY <1>1 DEF EndOf
<1>4. Len(sd) \in Nat /\ Len(t) <= Len(sd)
  BY <1>2, <1>3
<1>5. ASSUME NEW i \in 1..Len(t)
      PROVE  t[i] = sd[i + (Len(sd) - Len(t))]
  <2>1. Len(r) + i \in 1..Len(d) /\ (Len(r) + i) + (Len(sd) - Len(d)) = i + (Len(sd) - Len(t))
    BY <1>2, <1>4
  <2>2. d[Len(r) + i] = sd[(Len(r) + i) + (Len(sd) - Len(d))]
    BY <1>3, <2>1
  <2>3. QED
    BY <1>2, <2>1, <2>2
<1>6. QED
  BY <1>4, <1>5 DEF EndOf

\* Cut before a user's words, the conversation is still all the invariant says.
LEMMA Cut ==
  ASSUME NEW c, NEW dyn, NEW sd \in Seq(Messages), NEW n, NEW a \in 1..Len(c), NEW q \in 1..Len(c),
         Dialogue(c, dyn), CallsFirst(c), Newer(c, sd), AskedAt(c, dyn, n, q),
         a <= q, a = 1 \/ c[a].role = "user"
  PROVE  /\ Dialogue(SubSeq(c, a, Len(c)), dyn) /\ CallsFirst(SubSeq(c, a, Len(c)))
         /\ Newer(SubSeq(c, a, Len(c)), sd) /\ Asks(SubSeq(c, a, Len(c)), dyn, n)
<1>1. c \in Seq(Messages)
  BY DEF Dialogue
<1>2. PICK d : d = SubSeq(c, a, Len(c))
  OBVIOUS
<1>3. /\ d \in Seq(Messages) /\ Len(d) = Len(c) - a + 1 /\ Len(c) \in Nat
      /\ \A i \in 1..Len(d) : i + (a - 1) \in 1..Len(c) /\ d[i] = c[i + (a - 1)]
  BY <1>1, <1>2, Suffix
<1>4. \A i \in a..Len(c) : i - (a - 1) \in 1..Len(d) /\ d[i - (a - 1)] = c[i]
  <2>1. ASSUME NEW i \in a..Len(c)
        PROVE  i - (a - 1) \in 1..Len(d) /\ (i - (a - 1)) + (a - 1) = i
    BY <1>3
  <2>2. QED
    BY <1>3, <2>1
<1>5. Dialogue(d, dyn)
  BY <1>3 DEF Dialogue
<1>6. CallsFirst(d)
  <2>1. ASSUME NEW i \in 1..Len(d), d[i].role = "tool"
        PROVE  \E j \in 1..(i - 1) : CallAt(d, i, j)
    <3>1. i + (a - 1) \in 1..Len(c) /\ d[i] = c[i + (a - 1)]
      BY <1>3
    <3>2. PICK p \in 1..((i + (a - 1)) - 1) : CallAt(c, i + (a - 1), p)
      BY <2>1, <3>1 DEF CallsFirst
    <3>3. a <= p
      <4>1. CASE a <= p
        BY <4>1
      <4>2. CASE p < a
        <5>1. a \in p..(i + (a - 1))
          BY <1>3, <4>2
        <5>2. c[a].role # "user"
          BY <3>2, <5>1 DEF CallAt
        <5>3. QED
          BY <3>2, <4>2, <5>2
      <4>3. QED
        BY <1>3, <3>2, <4>1, <4>2
    <3>4. PICK j \in 1..(i - 1) : j + (a - 1) = p
      <4>1. p - (a - 1) \in 1..(i - 1) /\ (p - (a - 1)) + (a - 1) = p
        BY <1>3, <3>2, <3>3
      <4>2. QED
        BY <4>1
    <3>5. d[j] = c[p]
      <4>1. j \in 1..Len(d)
        BY <1>3
      <4>2. QED
        BY <1>3, <3>4, <4>1
    <3>6. ASSUME NEW k \in j..i
          PROVE  d[k].role # "user"
      <4>1. k \in 1..Len(d) /\ k + (a - 1) \in p..(i + (a - 1))
        BY <1>3, <3>4
      <4>2. QED
        BY <1>3, <3>2, <4>1 DEF CallAt
    <3>7. CallAt(d, i, j)
      BY <3>1, <3>2, <3>5, <3>6 DEF CallAt
    <3>8. QED
      BY <3>7
  <2>2. QED
    BY <2>1 DEF CallsFirst
<1>7. Newer(d, sd)
  <2>1. CASE a = 1
    <3>1. d = c
      BY <1>1, <1>2, <2>1, SubSeqFull
    <3>2. QED
      BY <3>1
  <2>2. CASE a # 1
    <3>1. a > 1 /\ c[a].role = "user"
      BY <2>2
    <3>2. c[a].src = "turn"
      BY <3>1 DEF Dialogue
    <3>3. PICK r, t \in Seq(Messages) :
            Own(c) = r \o t /\ Own(d) = t /\ t # <<>> /\ t[1].role = "user"
      BY <1>1, <1>2, <3>1, <3>2, CutOwn
    <3>4. EndOf(r \o t, sd)
      BY <3>3 DEF Newer
    <3>5. EndOf(t, sd)
      BY <3>4, EndOfEnd
    <3>6. QED
      BY <3>3, <3>5 DEF Newer
  <2>3. QED
    BY <2>1, <2>2
<1>8. Asks(d, dyn, n)
  <2>1. q \in a..Len(c)
    BY <1>3
  <2>2. PICK p \in 1..Len(d) : p = q - (a - 1) /\ d[p] = c[q]
    BY <1>4, <2>1
  <2>3. ASSUME NEW k \in (p + 1)..Len(d)
        PROVE  d[k].role # "user"
    <3>1. k \in 1..Len(d) /\ k + (a - 1) \in (q + 1)..Len(c)
      BY <1>3, <2>2, SMTT(30)
    <3>2. QED
      BY <1>3, <3>1 DEF AskedAt
  <2>4. ASSUME NEW m \in dyn
        PROVE  \E k \in (p + 1)..Len(d) : d[k] = m
    <3>1. PICK k \in (q + 1)..Len(c) : c[k] = m
      BY DEF AskedAt
    <3>2. k \in a..Len(c) /\ k - (a - 1) \in (p + 1)..Len(d)
      BY <1>3, <2>2
    <3>3. QED
      BY <1>4, <3>1, <3>2
  <2>5. AskedAt(d, dyn, n, p)
    BY <2>2, <2>3, <2>4 DEF AskedAt
  <2>6. QED
    BY <2>5 DEF Asks
<1>9. QED
  BY <1>2, <1>5, <1>6, <1>7, <1>8

\* What the window may do to the conversation.
LEMMA KeptWhole ==
  ASSUME NEW c, NEW dyn, NEW sd \in Seq(Messages), NEW n, NEW room,
         Dialogue(c, dyn), CallsFirst(c), Newer(c, sd), Asks(c, dyn, n)
  PROVE  /\ Dialogue(Kept(c, room), dyn) /\ CallsFirst(Kept(c, room))
         /\ Newer(Kept(c, room), sd) /\ Asks(Kept(c, room), dyn, n)
         /\ Len(Kept(c, room)) = Len(c) => Kept(c, room) = c
<1>1. c \in Seq(Messages)
  BY DEF Dialogue
<1>2. PICK q \in 1..Len(c) : AskedAt(c, dyn, n, q)
  BY DEF Asks
<1>3. c # <<>> /\ Len(c) \in Nat
  BY <1>1, <1>2
<1>4. PICK a \in 1..Len(c) :
        /\ Kept(c, room) = SubSeq(c, a, Len(c))
        /\ a = 1 \/ c[a].role = "user"
        /\ \E g \in GroupStarts(c) : a <= g
  BY <1>1, <1>3, KeptIs
<1>5. a <= q
  <2>1. PICK g \in GroupStarts(c) : a <= g
    BY <1>4
  <2>2. g \in 1..Len(c) /\ (g = 1 \/ c[g].role = "user")
    BY <1>1, <2>1 DEF GroupStarts
  <2>3. g <= q
    <3>1. g \notin (q + 1)..Len(c) \/ g = 1
      BY <1>2, <2>2 DEF AskedAt
    <3>2. QED
      BY <1>3, <2>2, <3>1
  <2>4. QED
    BY <1>3, <2>1, <2>2, <2>3
<1>6. PICK d : d = SubSeq(c, a, Len(c))
  OBVIOUS
<1>7. Dialogue(d, dyn) /\ CallsFirst(d) /\ Newer(d, sd) /\ Asks(d, dyn, n)
  BY <1>2, <1>4, <1>5, <1>6, Cut
<1>8. Len(d) = Len(c) => d = c
  <2>1. Len(d) = Len(c) - a + 1
    BY <1>1, <1>6, Suffix
  <2>2. Len(d) = Len(c) => a = 1
    BY <1>3, <2>1
  <2>3. a = 1 => d = c
    BY <1>1, <1>6, SubSeqFull
  <2>4. QED
    BY <2>2, <2>3
<1>9. Kept(c, room) = d
  BY <1>4, <1>6
<1>10. QED
  BY <1>7, <1>8, <1>9

-----------------------------------------------------------------------------
(* The memory and the conversation are told apart by who wrote them. *)

LEMMA InToSet ==
  ASSUME NEW R, NEW s \in Seq(R), NEW x
  PROVE  x \in ToSet(s) <=> \E i \in 1..Len(s) : s[i] = x
<1>1. DOMAIN s = 1..Len(s)
  OBVIOUS
<1>2. QED
  BY <1>1 DEF ToSet

LEMMA Parts ==
  ASSUME NEW b, NEW c, NEW prot, NEW dyn, Block(b, prot), Dialogue(c, dyn)
  PROVE  b \o c \in Seq(Messages) /\ b \in Seq(Messages) /\ c \in Seq(Messages)
<1>1. b \in Seq(Memories) /\ c \in Seq(Messages)
  BY DEF Block, Dialogue
<1>2. Memories \subseteq Messages
  BY DEF Memories
<1>3. QED
  BY <1>1, <1>2

\* d is the memory b and the conversation c.
Laid(d, b, c, prot, dyn) == d = b \o c /\ Block(b, prot) /\ Dialogue(c, dyn)

LEMMA PartsOf ==
  ASSUME NEW b, NEW c, NEW prot, NEW dyn, NEW d, Laid(d, b, c, prot, dyn)
  PROVE  Only(d, prot) = b /\ Only(d, ToSet(d) \ prot) = c
<1>1. PICK U : U = ToSet(d) \ prot
  OBVIOUS
<1>2. d = b \o c /\ Block(b, prot) /\ Dialogue(c, dyn)
  BY DEF Laid
<1>3. b \in Seq(Memories) /\ prot = ToSet(b) /\ c \in Seq(Messages)
  BY <1>2 DEF Block, Dialogue
<1>4. Memories \subseteq Messages
  BY DEF Memories
<1>5. b \in Seq(Messages)
  BY <1>3, <1>4
<1>6. /\ d \in Seq(Messages) /\ Len(d) = Len(b) + Len(c) /\ Len(b) \in Nat /\ Len(c) \in Nat
      /\ \A i \in 1..Len(b) : d[i] = b[i]
      /\ \A i \in 1..Len(c) : d[Len(b) + i] = c[i]
  BY <1>2, <1>3, <1>5, Concat
<1>7. \A i \in 1..Len(b) : b[i] \in prot
  BY <1>3, InToSet
<1>8. ASSUME NEW i \in 1..Len(c)
      PROVE  c[i] \notin prot
  <2>1. c[i].src \in {"turn", "dynamic"}
    BY <1>2 DEF Dialogue
  <2>2. \A m \in Memories : m.src \in {"start", "hydrated"}
    BY DEF Memories
  <2>3. \A j \in 1..Len(b) : b[j] # c[i]
    BY <1>3, <2>1, <2>2
  <2>4. QED
    BY <1>3, <2>3, InToSet
<1>9. \A i \in 1..Len(c) : c[i] \in U
  <2>1. ASSUME NEW i \in 1..Len(c)
        PROVE  c[i] \in ToSet(d)
    <3>1. Len(b) + i \in 1..Len(d) /\ d[Len(b) + i] = c[i]
      BY <1>6
    <3>2. QED
      BY <1>6, <3>1, InToSet
  <2>2. QED
    BY <1>1, <1>8, <2>1
<1>10. ASSUME NEW S
       PROVE  Only(b \o c, S) = Only(b, S) \o Only(c, S)
  BY <1>3, <1>5, OnlyConcat
<1>11. Only(d, prot) = b
  <2>1. Only(b, prot) = Only(b, Messages)
    BY <1>5, <1>7, OnlyAgree
  <2>2. Only(b, Messages) = b
    BY <1>5, OnlyAll
  <2>3. Only(c, prot) = <<>>
    BY <1>3, <1>8, OnlyNone
  <2>4. Only(b \o c, prot) = Only(b, prot) \o Only(c, prot)
    BY <1>10
  <2>5. b \o <<>> = b
    BY <1>5, ConcatEmptySeq
  <2>6. QED
    BY <1>2, <2>1, <2>2, <2>3, <2>4, <2>5
<1>12. Only(d, U) = c
  <2>1. Only(c, U) = Only(c, Messages)
    BY <1>3, <1>9, OnlyAgree
  <2>2. Only(c, Messages) = c
    BY <1>3, OnlyAll
  <2>3. Only(b, U) = <<>>
    BY <1>1, <1>5, <1>7, OnlyNone
  <2>4. Only(b \o c, U) = Only(b, U) \o Only(c, U)
    BY <1>10
  <2>5. <<>> \o c = c
    BY <1>3, ConcatEmptySeq
  <2>6. QED
    BY <1>2, <2>1, <2>2, <2>3, <2>4, <2>5
<1>13. QED
  BY <1>1, <1>11, <1>12

-----------------------------------------------------------------------------
(* The memory prompt is memory. *)

\* What the database had before the session said anything.
OldStores == {m \in Stores : m.text[1] = "old"}

LEMMA GreaterOfTwo ==
  ASSUME NEW x \in Int, NEW y \in Int
  PROVE  /\ Max({x, y}) = IF x >= y THEN x ELSE y
         /\ Min({x, y}) = IF x <= y THEN x ELSE y
<1>1. Max({x, y}) = IF x >= y THEN x ELSE y
  BY DEF Max
<1>2. Min({x, y}) = IF x <= y THEN x ELSE y
  BY DEF Min
<1>3. QED
  BY <1>1, <1>2

LEMMA EndsTyped ==
  ASSUME NEW R, NEW s \in Seq(R), NEW n \in Nat
  PROVE  Newest(s, n) \in Seq(R) /\ Oldest(s, n) \in Seq(R)
<1>1. PICK k : k = Len(s)
  OBVIOUS
<1>2. k \in Nat /\ \A i \in 1..k : s[i] \in R
  BY <1>1
<1>3. PICK from \in Nat : from = Max({1, k - n + 1}) /\ from >= 1
  <2>1. k - n + 1 \in Int
    BY <1>2
  <2>2. Max({1, k - n + 1}) = IF 1 >= k - n + 1 THEN 1 ELSE k - n + 1
    BY <2>1, GreaterOfTwo
  <2>3. QED
    BY <2>1, <2>2
<1>4. PICK to \in Nat : to = Min({n, k}) /\ to <= k
  <2>1. n \in Int /\ k \in Int
    BY <1>2
  <2>2. Min({n, k}) = IF n <= k THEN n ELSE k
    BY <2>1, GreaterOfTwo
  <2>3. QED
    BY <1>2, <2>2
<1>5. SubSeq(s, from, k) \in Seq(R)
  <2>1. \A i \in from..k : s[i] \in R
    BY <1>2, <1>3
  <2>2. QED
    BY <1>2, <2>1, SubSeqProperties
<1>6. SubSeq(s, 1, to) \in Seq(R)
  <2>1. \A i \in 1..to : s[i] \in R
    BY <1>2, <1>4
  <2>2. QED
    BY <2>1, SubSeqProperties
<1>7. QED
  BY <1>1, <1>3, <1>4, <1>5, <1>6 DEF Newest, Oldest

LEMMA PickTyped ==
  ASSUME NEW R, NEW s \in Seq(R), NEW I
  PROVE  Pick(s, I) \in Seq(R)
<1>1. PICK ix : ix = [i \in DOMAIN s |-> i]
  OBVIOUS
<1>2. ix \in Seq(DOMAIN s)
  <2>1. DOMAIN s = 1..Len(s) /\ Len(s) \in Nat
    OBVIOUS
  <2>2. QED
    BY <1>1, <2>1
<1>3. PICK at : at = Only(ix, I)
  OBVIOUS
<1>4. at \in Seq((DOMAIN s) \cap I)
  BY <1>2, <1>3, OnlyTyped
<1>5. Len(at) \in Nat /\ DOMAIN at = 1..Len(at) /\ \A i \in 1..Len(at) : s[at[i]] \in R
  BY <1>4
<1>6. Pick(s, I) = [i \in DOMAIN at |-> s[at[i]]]
  BY <1>1, <1>3 DEF Pick
<1>7. QED
  BY <1>5, <1>6

LEMMA BudgetedTyped ==
  ASSUME NEW R, NEW s \in Seq(R), NEW t \in Seq(R)
  PROVE  Budgeted(s, t) \in Seq(R)
<1>1. PICK first : first = Oldest(s, MemoryBudget)
  OBVIOUS
<1>2. first \in Seq(R)
  BY <1>1, LimitsOK, EndsTyped
<1>3. PICK I : I = {i \in Fresh(t, first) :
                      Cardinality({j \in Fresh(t, first) : j > i}) < MemoryBudget - Len(first)}
  OBVIOUS
<1>4. PICK p \in Seq(R) : p = Pick(t, I)
  BY PickTyped
<1>5. Budgeted(s, t) = first \o p
  BY <1>1, <1>3, <1>4 DEF Budgeted
<1>6. QED
  BY <1>2, <1>4, <1>5

LEMMA MemoryTyped ==
  ASSUME NEW src \in {"start", "hydrated"}, NEW has, NEW conversation \in Seq(OldStores)
  PROVE  Memory(src, has, conversation) \in Seq(Memories)
<1>1. PICK developers : developers = Only(<<"facts", "summary">>, has)
  OBVIOUS
<1>2. developers \in Seq({"facts", "summary"})
  <2>1. <<"facts", "summary">> \in Seq({"facts", "summary"})
    OBVIOUS
  <2>2. developers \in Seq({"facts", "summary"} \cap has)
    BY <1>1, <2>1, OnlyTyped
  <2>3. {"facts", "summary"} \cap has \subseteq {"facts", "summary"}
    OBVIOUS
  <2>4. QED
    BY <2>2, <2>3
<1>3. PICK s : s = [i \in DOMAIN developers |-> Message(src, "developer", <<developers[i], 0>>)]
  OBVIOUS
<1>4. s \in Seq(Memories)
  <2>1. \A i \in 1..Len(developers) :
          Message(src, "developer", <<developers[i], 0>>) \in Memories
    <3>1. \A w \in {"facts", "summary"} : Message(src, "developer", <<w, 0>>) \in Memories
      BY DEF Message, Memories, Messages, Sources, Roles, Texts
    <3>2. \A i \in 1..Len(developers) : developers[i] \in {"facts", "summary"}
      BY <1>2
    <3>3. QED
      BY <3>1, <3>2
  <2>2. DOMAIN developers = 1..Len(developers) /\ Len(developers) \in Nat
    BY <1>2
  <2>3. QED
    BY <1>3, <2>1, <2>2
<1>5. PICK t : t = [i \in DOMAIN conversation |->
                      Message(src, conversation[i].role, conversation[i].text)]
  OBVIOUS
<1>6. t \in Seq(Memories)
  <2>1. \A m \in OldStores : Message(src, m.role, m.text) \in Memories
    BY DEF Message, Memories, Messages, Sources, Roles, OldStores, Stores
  <2>2. \A i \in 1..Len(conversation) : conversation[i] \in OldStores
    OBVIOUS
  <2>3. DOMAIN conversation = 1..Len(conversation) /\ Len(conversation) \in Nat
    OBVIOUS
  <2>4. QED
    BY <1>5, <2>1, <2>2, <2>3
<1>7. Memory(src, has, conversation) = Budgeted(s, t)
  BY <1>1, <1>3, <1>5 DEF Memory
<1>8. QED
  BY <1>4, <1>6, <1>7, BudgetedTyped

-----------------------------------------------------------------------------
(* What is read of the memory at one time. *)

\* e names the places of s that p picks, which are among I.
Picked(e, p, s, I) ==
  /\ e \in [1..Len(p) -> I]
  /\ \A i \in 1..Len(p) : p[i] = s[e[i]]
  /\ \A i, j \in 1..Len(p) : i < j => e[i] < e[j]

LEMMA PickPlaces ==
  ASSUME NEW R, NEW s \in Seq(R), NEW I
  PROVE  \E e : Picked(e, Pick(s, I), s, I \cap (1..Len(s)))
<1>1. PICK ix : ix = [i \in DOMAIN s |-> i]
  OBVIOUS
<1>2. DOMAIN s = 1..Len(s) /\ Len(s) \in Nat
  OBVIOUS
<1>3. ix \in Seq(1..Len(s)) /\ Len(ix) = Len(s) /\ \A i \in 1..Len(s) : ix[i] = i
  BY <1>1, <1>2
<1>4. PICK at : at = Only(ix, I)
  OBVIOUS
<1>5. PICK e : Places(e, at, ix, I, Len(ix))
  BY <1>3, <1>4, OnlyPlaces
<1>6. at \in Seq((1..Len(s)) \cap I)
  BY <1>3, <1>4, OnlyTyped
<1>7. Len(at) \in Nat /\ DOMAIN at = 1..Len(at)
      /\ \A i \in 1..Len(at) : at[i] \in (1..Len(s)) \cap I
  BY <1>6
<1>8. PICK p : p = [i \in DOMAIN at |-> s[at[i]]]
  OBVIOUS
<1>9. Pick(s, I) = p
  BY <1>1, <1>4, <1>8 DEF Pick
<1>10. Len(p) = Len(at) /\ \A i \in 1..Len(at) : p[i] = s[at[i]]
  BY <1>7, <1>8
<1>11. at \in [1..Len(p) -> I \cap (1..Len(s))]
  BY <1>6, <1>7, <1>10
<1>12. \A i, j \in 1..Len(p) : i < j => at[i] < at[j]
  <2>1. \A i \in 1..Len(at) : e[i] \in 1..Len(s) /\ at[i] = ix[e[i]]
    BY <1>3, <1>5 DEF Places
  <2>2. \A i \in 1..Len(at) : at[i] = e[i]
    BY <1>3, <2>1
  <2>3. QED
    BY <1>5, <1>10, <2>2 DEF Places
<1>13. QED
  BY <1>9, <1>10, <1>11, <1>12 DEF Picked

LEMMA PickedFew ==
  ASSUME NEW k \in Nat, NEW I \in SUBSET (1..k), NEW e, NEW p, NEW s, Len(p) \in Nat,
         Picked(e, p, s, I)
  PROVE  IsFiniteSet(I) /\ Cardinality(I) \in Nat /\ Len(p) <= Cardinality(I)
<1>1. IsFiniteSet(1..k)
  BY FS_Interval
<1>2. IsFiniteSet(I) /\ Cardinality(I) \in Nat
  BY <1>1, FS_Subset, FS_CardinalityType
<1>3. e \in [1..Len(p) -> I] /\ \A i, j \in 1..Len(p) : i < j => e[i] < e[j]
  BY DEF Picked
<1>4. ASSUME NEW i \in 1..Len(p), NEW j \in 1..Len(p), e[i] = e[j]
      PROVE  i = j
  <2>1. e[i] \in I /\ e[j] \in I
    BY <1>3
  <2>2. e[i] \in Int /\ e[j] \in Int /\ i \in Int /\ j \in Int
    <3>1. \A x \in I : x \in 1..k
      OBVIOUS
    <3>2. \A x \in I : x \in Int
      BY <3>1
    <3>3. \A n \in Nat : \A x \in 1..n : x \in Int
      OBVIOUS
    <3>4. QED
      BY <2>1, <3>2, <3>3, Zenon
  <2>3. QED
    BY <1>3, <1>4, <2>2
<1>5. e \in Injection(1..Len(p), I)
  BY <1>3, <1>4 DEF Injection, IsInjective
<1>6. Cardinality(1..Len(p)) <= Cardinality(I)
  BY <1>2, <1>5, FS_Injection, Zenon
<1>7. Cardinality(1..Len(p)) = Len(p)
  <2>1. ASSUME NEW n \in Nat PROVE Cardinality(1..n) = n
    BY FS_Interval
  <2>2. QED
    BY <2>1
<1>8. QED
  BY <1>2, <1>6, <1>7

\* The members of F with fewer than room greater ones are room at most.
LEMMA NewestFew ==
  ASSUME NEW k \in Nat, NEW F \in SUBSET (1..k), NEW room \in Int,
         NEW T, T = {i \in F : Cardinality({j \in F : j > i}) < room}
  PROVE  T = {} \/ Cardinality(T) <= room
<1> SUFFICES ASSUME T # {} PROVE Cardinality(T) <= room
  OBVIOUS
<1>1. IsFiniteSet(F)
  <2>1. IsFiniteSet(1..k)
    BY FS_Interval
  <2>2. QED
    BY <2>1, FS_Subset
<1>2. T \in SUBSET Nat
  <2>1. \A x \in T : x \in F
    OBVIOUS
  <2>2. \A x \in F : x \in 1..k
    OBVIOUS
  <2>3. \A x \in 1..k : x \in Nat
    OBVIOUS
  <2>4. QED
    BY <2>1, <2>2, <2>3, Zenon
<1>3. PICK i \in T : \A j \in T : i <= j
  BY <1>2, Least
<1>4. PICK G : G = {j \in F : j > i}
  OBVIOUS
<1>5. IsFiniteSet(G) /\ Cardinality(G) \in Nat /\ Cardinality(G) < room
  <2>1. G \in SUBSET F
    BY <1>4
  <2>2. QED
    BY <1>1, <1>3, <1>4, <2>1, FS_Subset, FS_CardinalityType
<1>6. T \ {i} \in SUBSET G
  <2>1. ASSUME NEW j \in T \ {i} PROVE j \in G
    <3>1. i <= j /\ i \in Nat /\ j \in Nat /\ j # i /\ j \in F
      BY <1>2, <1>3
    <3>2. QED
      BY <1>4, <3>1
  <2>2. QED
    BY <2>1
<1>7. Cardinality(T \ {i}) <= Cardinality(G)
  BY <1>5, <1>6, FS_Subset
<1>8. IsFiniteSet(T) /\ Cardinality(T) \in Nat
  BY <1>1, FS_Subset, FS_CardinalityType
<1>9. Cardinality(T \ {i}) = Cardinality(T) - 1
  BY <1>3, <1>8, FS_RemoveElement
<1>10. QED
  BY <1>5, <1>7, <1>8, <1>9

LEMMA OldestIs ==
  ASSUME NEW R, NEW s \in Seq(R), NEW n \in Nat
  PROVE  \E h \in Seq(R) : /\ h = Oldest(s, n)
                           /\ Len(h) \in Nat /\ Len(h) <= n /\ Len(h) <= Len(s)
                           /\ \A i \in 1..Len(h) : h[i] = s[i]
<1>1. PICK k : k = Len(s)
  OBVIOUS
<1>2. k \in Nat
  BY <1>1
<1>3. Min({n, k}) \in 0..k /\ Min({n, k}) <= n
  <2>1. n \in Int /\ k \in Int
    BY <1>2
  <2>2. Min({n, k}) = IF n <= k THEN n ELSE k
    BY <2>1, GreaterOfTwo
  <2>3. QED
    BY <1>2, <2>2
<1>4. PICK z : z = Min({n, k})
  OBVIOUS
<1>5. z \in 0..k /\ z <= n
  BY <1>3, <1>4
<1>6. PICK h : h = SubSeq(s, 1, z)
  OBVIOUS
<1>7. h \in Seq(R) /\ Len(h) = z /\ \A i \in 1..z : h[i] = s[i]
  BY <1>1, <1>2, <1>5, <1>6
<1>8. h = Oldest(s, n)
  BY <1>1, <1>4, <1>6 DEF Oldest
<1>9. QED
  BY <1>1, <1>2, <1>5, <1>7, <1>8

\* The developer messages come first, as many as fit, and behind them places of the
\* conversation, as many as are left.
PartedAs(d, s, t, h, p, e) ==
  /\ d = h \o p /\ Len(d) <= MemoryBudget
  /\ Len(h) <= Len(s) /\ \A i \in 1..Len(h) : h[i] = s[i]
  /\ Picked(e, p, t, Fresh(t, h))
Parted(R, d, s, t) == \E h, p \in Seq(R) : \E e : PartedAs(d, s, t, h, p, e)

LEMMA BudgetedIs ==
  ASSUME NEW R, NEW s \in Seq(R), NEW t \in Seq(R)
  PROVE  Parted(R, Budgeted(s, t), s, t)
<1>1. PICK h \in Seq(R) : /\ h = Oldest(s, MemoryBudget)
                          /\ Len(h) \in Nat /\ Len(h) <= MemoryBudget /\ Len(h) <= Len(s)
                          /\ \A i \in 1..Len(h) : h[i] = s[i]
  BY LimitsOK, OldestIs
<1>2. PICK F : F = Fresh(t, h)
  OBVIOUS
<1>3. F \in SUBSET (1..Len(t)) /\ Len(t) \in Nat
  BY <1>2 DEF Fresh
<1>4. PICK room : room = MemoryBudget - Len(h)
  OBVIOUS
<1>5. room \in Int /\ room >= 0
  BY <1>1, <1>4, LimitsOK
<1>6. PICK I : I = {i \in F : Cardinality({j \in F : j > i}) < room}
  OBVIOUS
<1>7. I \in SUBSET (1..Len(t)) /\ I \cap (1..Len(t)) = I /\ I \subseteq F
  BY <1>3, <1>6
<1>8. PICK p \in Seq(R) : p = Pick(t, I)
  BY PickTyped
<1>9. PICK e : Picked(e, p, t, I)
  BY <1>7, <1>8, PickPlaces
<1>10. Len(p) \in Nat
  BY <1>8
<1>11. Len(p) <= room
  <2>1. Cardinality(I) \in Nat /\ Len(p) <= Cardinality(I)
    BY <1>3, <1>7, <1>9, <1>10, PickedFew
  <2>2. I = {} \/ Cardinality(I) <= room
    BY <1>3, <1>5, <1>6, NewestFew
  <2>3. I = {} => Len(p) = 0
    <3>1. Cardinality({}) = 0
      BY FS_EmptySet
    <3>2. QED
      BY <1>10, <2>1, <3>1
  <2>4. QED
    BY <1>5, <1>10, <2>1, <2>2, <2>3
<1>12. Budgeted(s, t) = h \o p
  BY <1>1, <1>2, <1>4, <1>6, <1>8 DEF Budgeted
<1>13. PICK d : d = h \o p
  OBVIOUS
<1>14. Len(d) = Len(h) + Len(p)
  BY <1>1, <1>8, <1>13
<1>15. Len(d) <= MemoryBudget
  BY <1>1, <1>4, <1>10, <1>11, <1>14, LimitsOK
<1>16. Picked(e, p, t, F)
  BY <1>7, <1>9 DEF Picked
<1>17. QED
  <2>1. PartedAs(d, s, t, h, p, e)
    BY <1>1, <1>2, <1>13, <1>15, <1>16 DEF PartedAs
  <2>2. Parted(R, d, s, t)
    BY <1>1, <1>8, <2>1, Zenon DEF Parted
  <2>3. QED
    BY <1>12, <1>13, <2>2

\* What build_memory_messages makes of the facts, the summary and the conversation.
Developers(s, src) ==
  /\ \A i \in 1..Len(s) :
       s[i].src = src /\ s[i].role = "developer" /\ s[i].text[1] \in {"facts", "summary"}
  /\ \A i, j \in 1..Len(s) : i < j => s[i].text # s[j].text
Conversation(t, src) ==
  \A i \in 1..Len(t) : t[i].src = src /\ t[i].role # "developer" /\ t[i].text[1] = "old"

LEMMA FromPlaces ==
  ASSUME NEW R, NEW n \in Nat, NEW s \in [1..n -> R]
  PROVE  s \in Seq(R) /\ Len(s) = n
OBVIOUS

LEMMA DeveloperParts ==
  ASSUME NEW src \in {"start", "hydrated"}, NEW w, NEW has, w = Only(<<"facts", "summary">>, has),
         NEW s, s = [i \in DOMAIN w |-> Message(src, "developer", <<w[i], 0>>)]
  PROVE  s \in Seq(Memories) /\ Developers(s, src)
<1>1. PICK q : q = <<"facts", "summary">>
  OBVIOUS
<1>2. q \in Seq({"facts", "summary"}) /\ Len(q) = 2 /\ q[1] = "facts" /\ q[2] = "summary"
  BY <1>1
<1>3. PICK e : Places(e, w, q, has, Len(q))
  BY <1>1, <1>2, OnlyPlaces
<1>4. w \in Seq({"facts", "summary"} \cap has)
  BY <1>1, <1>2, OnlyTyped
<1>5. Len(w) \in Nat /\ DOMAIN w = 1..Len(w) /\ \A i \in 1..Len(w) : w[i] \in {"facts", "summary"}
  BY <1>4
<1>6. \A x \in {"facts", "summary"} :
        /\ Message(src, "developer", <<x, 0>>) \in Memories
        /\ Message(src, "developer", <<x, 0>>).src = src
        /\ Message(src, "developer", <<x, 0>>).role = "developer"
        /\ Message(src, "developer", <<x, 0>>).text[1] = x
  BY DEF Message, Memories, Messages, Sources, Roles, Texts
<1>7. \A i \in 1..Len(w) : Message(src, "developer", <<w[i], 0>>) \in Memories
  BY <1>5, <1>6
<1>8. /\ s \in Seq(Memories) /\ Len(s) = Len(w)
      /\ \A i \in 1..Len(s) : s[i] = Message(src, "developer", <<w[i], 0>>)
  <2>1. s = [i \in 1..Len(w) |-> Message(src, "developer", <<w[i], 0>>)]
    BY <1>5
  <2>2. s \in [1..Len(w) -> Memories]
    BY <1>7, <2>1
  <2>3. PICK n \in Nat : n = Len(w)
    BY <1>5
  <2>4. s \in Seq(Memories) /\ Len(s) = n
    <3>1. s \in [1..n -> Memories]
      BY <2>2, <2>3
    <3>2. QED
      BY <3>1, FromPlaces
  <2>5. QED
    BY <2>1, <2>3, <2>4
<1>9. ASSUME NEW i \in 1..Len(s)
      PROVE  s[i].src = src /\ s[i].role = "developer" /\ s[i].text[1] = w[i]
  <2>1. w[i] \in {"facts", "summary"} /\ s[i] = Message(src, "developer", <<w[i], 0>>)
    BY <1>5, <1>8, <1>9
  <2>2. QED
    BY <1>6, <2>1
<1>10. ASSUME NEW i \in 1..Len(s), NEW j \in 1..Len(s), i < j
       PROVE  s[i].text # s[j].text
  <2>1. e[i] \in 1..2 /\ e[j] \in 1..2 /\ e[i] < e[j] /\ w[i] = q[e[i]] /\ w[j] = q[e[j]]
    BY <1>2, <1>3, <1>8, <1>10 DEF Places
  <2>2. w[i] = "facts" /\ w[j] = "summary"
    BY <1>2, <2>1
  <2>3. s[i].text[1] = "facts" /\ s[j].text[1] = "summary"
    BY <1>9, <1>10, <2>2
  <2>4. QED
    BY <2>3
<1>11. ASSUME NEW i \in 1..Len(s)
       PROVE  s[i].text[1] \in {"facts", "summary"}
  <2>1. s[i].text[1] = w[i]
    BY <1>9, <1>11
  <2>2. i \in 1..Len(w)
    BY <1>8, <1>11
  <2>3. QED
    BY <1>5, <2>1, <2>2
<1>12. Developers(s, src)
  <2>1. ASSUME NEW i \in 1..Len(s)
        PROVE  s[i].src = src /\ s[i].role = "developer" /\ s[i].text[1] \in {"facts", "summary"}
    BY <1>9, <1>11, <2>1
  <2>2. QED
    BY <1>10, <2>1, Zenon DEF Developers
<1>13. QED
  BY <1>8, <1>12

LEMMA ConversationParts ==
  ASSUME NEW src \in {"start", "hydrated"}, NEW c \in Seq(OldStores),
         NEW t, t = [i \in DOMAIN c |-> Message(src, c[i].role, c[i].text)]
  PROVE  t \in Seq(Memories) /\ Conversation(t, src)
<1>1. \A m \in OldStores :
        /\ Message(src, m.role, m.text) \in Memories
        /\ Message(src, m.role, m.text).src = src
        /\ Message(src, m.role, m.text).role # "developer"
        /\ Message(src, m.role, m.text).text[1] = "old"
  BY DEF Message, Memories, Messages, Sources, Roles, OldStores, Stores
<1>2. DOMAIN c = 1..Len(c) /\ Len(c) \in Nat /\ \A i \in 1..Len(c) : c[i] \in OldStores
  OBVIOUS
<1>3. \A i \in 1..Len(c) : Message(src, c[i].role, c[i].text) \in Memories
  BY <1>1, <1>2
<1>4. t = [i \in 1..Len(c) |-> Message(src, c[i].role, c[i].text)]
  BY <1>2
<1>5. t \in [1..Len(c) -> Memories]
  BY <1>3, <1>4
<1>6. t \in Seq(Memories) /\ Len(t) = Len(c)
  BY <1>2, <1>5, FromPlaces
<1>7. ASSUME NEW i \in 1..Len(t)
      PROVE  t[i].src = src /\ t[i].role # "developer" /\ t[i].text[1] = "old"
  <2>1. c[i] \in OldStores /\ t[i] = Message(src, c[i].role, c[i].text)
    BY <1>2, <1>4, <1>6, <1>7
  <2>2. QED
    BY <1>1, <2>1
<1>8. QED
  BY <1>6, <1>7 DEF Conversation

\* Read at one time.
ReadOf(b, src) ==
  /\ b \in Seq(Memories) /\ Len(b) <= MemoryBudget
  /\ \A i \in 1..Len(b) : b[i].src = src
  /\ TextsOnce(b) /\ Unquoted(b)

LEMMA PartedRead ==
  ASSUME NEW src, NEW s \in Seq(Memories), NEW t \in Seq(Memories), NEW d,
         Developers(s, src), Conversation(t, src), Parted(Memories, d, s, t)
  PROVE  ReadOf(d, src)
<1>1. PICK h \in Seq(Memories), p \in Seq(Memories) : \E e : PartedAs(d, s, t, h, p, e)
  BY DEF Parted
<1>2. PICK e : PartedAs(d, s, t, h, p, e)
  BY <1>1
<1>3. d = h \o p
  BY <1>2 DEF PartedAs
<1>4. /\ d \in Seq(Memories) /\ Len(d) = Len(h) + Len(p) /\ Len(h) \in Nat /\ Len(p) \in Nat
      /\ \A i \in 1..Len(h) : d[i] = h[i]
      /\ \A i \in 1..Len(p) : d[Len(h) + i] = p[i]
  BY <1>3, Concat
<1>5. Len(s) \in Nat /\ Len(t) \in Nat
  OBVIOUS
<1>6. ASSUME NEW i \in 1..Len(h)
      PROVE  /\ i \in 1..Len(s) /\ d[i] = s[i] /\ h[i] = s[i]
             /\ d[i].src = src /\ d[i].role = "developer"
             /\ d[i].text[1] \in {"facts", "summary"}
  <2>1. i \in 1..Len(s) /\ h[i] = s[i]
    BY <1>2, <1>4, <1>5 DEF PartedAs
  <2>2. d[i] = s[i]
    BY <1>4, <2>1
  <2>3. QED
    BY <2>1, <2>2 DEF Developers
<1>7. ASSUME NEW i \in 1..Len(p)
      PROVE  /\ e[i] \in Fresh(t, h) /\ e[i] \in 1..Len(t) /\ p[i] = t[e[i]]
             /\ p[i].src = src /\ p[i].role # "developer" /\ p[i].text[1] = "old"
  <2>1. e[i] \in Fresh(t, h) /\ p[i] = t[e[i]]
    BY <1>2 DEF PartedAs, Picked
  <2>2. e[i] \in 1..Len(t)
    <3>1. Fresh(t, h) \subseteq DOMAIN t
      BY DEF Fresh
    <3>2. DOMAIN t = 1..Len(t)
      OBVIOUS
    <3>3. QED
      BY <2>1, <3>1, <3>2
  <2>3. QED
    BY <2>1, <2>2 DEF Conversation
<1>8. ASSUME NEW i \in 1..Len(d), i \notin 1..Len(h)
      PROVE  i - Len(h) \in 1..Len(p) /\ d[i] = p[i - Len(h)]
  <2>1. i - Len(h) \in 1..Len(p) /\ i = Len(h) + (i - Len(h))
    BY <1>4, <1>8
  <2>2. QED
    BY <1>4, <2>1
<1>9. \A i \in 1..Len(d) : d[i].src = src
  <2>1. ASSUME NEW i \in 1..Len(d) PROVE d[i].src = src
    <3>1. CASE i \in 1..Len(h)
      BY <1>6, <3>1
    <3>2. CASE i \notin 1..Len(h)
      BY <1>7, <1>8, <3>2
    <3>3. QED
      BY <3>1, <3>2
  <2>2. QED
    BY <2>1
<1>10. ASSUME NEW i \in 1..Len(d), NEW j \in 1..Len(d), i < j
       PROVE  d[i].text # d[j].text
  <2>1. CASE j \in 1..Len(h)
    <3>1. i \in 1..Len(h)
      BY <1>4, <1>10, <2>1
    <3>2. d[i] = s[i] /\ d[j] = s[j] /\ i \in 1..Len(s) /\ j \in 1..Len(s)
      BY <1>6, <2>1, <3>1
    <3>3. QED
      BY <1>10, <3>2 DEF Developers
  <2>2. CASE i \in 1..Len(h) /\ j \notin 1..Len(h)
    <3>1. d[i].text[1] \in {"facts", "summary"}
      BY <1>6, <2>2
    <3>2. d[j].text[1] = "old"
      <4>1. PICK k \in 1..Len(p) : d[j] = p[k]
        BY <1>8, <2>2
      <4>2. QED
        BY <1>7, <4>1
    <3>3. QED
      BY <3>1, <3>2
  <2>3. CASE i \notin 1..Len(h) /\ j \notin 1..Len(h)
    <3>1. PICK k, l \in 1..Len(p) : k = i - Len(h) /\ l = j - Len(h)
      BY <1>8, <2>3
    <3>2. d[i] = p[k] /\ d[j] = p[l] /\ k < l
      BY <1>4, <1>8, <1>10, <2>3, <3>1
    <3>3. e[k] < e[l]
      BY <1>2, <3>2 DEF PartedAs, Picked
    <3>4. e[k] \in Fresh(t, h) /\ e[l] \in DOMAIN t
      BY <1>7
    <3>5. t[e[l]].text # t[e[k]].text
      BY <3>3, <3>4 DEF Fresh
    <3>6. QED
      BY <1>7, <3>2, <3>5
  <2>4. QED
    BY <1>4, <1>10, <2>1, <2>2, <2>3
<1>11. ASSUME NEW i \in 1..Len(d), NEW j \in 1..Len(d),
              d[i].text[1] = "summary", d[j].role # "developer"
       PROVE  d[j].text \notin Summarised
  <2>1. i \in 1..Len(h)
    BY <1>7, <1>8, <1>11
  <2>2. j \notin 1..Len(h)
    BY <1>6, <1>11
  <2>3. PICK k \in 1..Len(p) : d[j] = p[k]
    BY <1>8, <2>2
  <2>4. e[k] \in Fresh(t, h) /\ p[k] = t[e[k]]
    BY <1>7
  <2>5. i \in DOMAIN h /\ h[i].text[1] = "summary"
    <3>1. DOMAIN h = 1..Len(h)
      OBVIOUS
    <3>2. QED
      BY <1>4, <1>11, <2>1, <3>1
  <2>6. t[e[k]].text \notin Summarised
    BY <2>4, <2>5 DEF Fresh
  <2>7. QED
    BY <2>3, <2>4, <2>6
<1>12. Len(d) <= MemoryBudget
  BY <1>2 DEF PartedAs
<1>13. TextsOnce(d)
  BY <1>10 DEF TextsOnce
<1>14. Unquoted(d)
  BY <1>11 DEF Unquoted
<1>15. QED
  BY <1>4, <1>9, <1>12, <1>13, <1>14 DEF ReadOf

LEMMA MemoryRead ==
  ASSUME NEW src \in {"start", "hydrated"}, NEW has, NEW c \in Seq(OldStores)
  PROVE  ReadOf(Memory(src, has, c), src)
<1>1. PICK w : w = Only(<<"facts", "summary">>, has)
  OBVIOUS
<1>2. PICK s : s = [i \in DOMAIN w |-> Message(src, "developer", <<w[i], 0>>)]
  OBVIOUS
<1>3. PICK t : t = [i \in DOMAIN c |-> Message(src, c[i].role, c[i].text)]
  OBVIOUS
<1>4. s \in Seq(Memories) /\ Developers(s, src)
  BY <1>1, <1>2, DeveloperParts
<1>5. t \in Seq(Memories) /\ Conversation(t, src)
  BY <1>3, ConversationParts
<1>6. PICK d : d = Budgeted(s, t)
  OBVIOUS
<1>7. Parted(Memories, d, s, t)
  BY <1>4, <1>5, <1>6, BudgetedIs
<1>8. ReadOf(d, src)
  BY <1>4, <1>5, <1>7, PartedRead
<1>9. Memory(src, has, c) = d
  BY <1>1, <1>2, <1>3, <1>6 DEF Memory
<1>10. QED
  BY <1>8, <1>9

LEMMA SetOfConcat ==
  ASSUME NEW R, NEW c \in Seq(R), NEW u \in Seq(R), NEW d, d = c \o u
  PROVE  \A x : x \in ToSet(d) <=> x \in ToSet(c) \/ x \in ToSet(u)
<1>1. /\ d \in Seq(R) /\ Len(d) = Len(c) + Len(u) /\ Len(c) \in Nat /\ Len(u) \in Nat
      /\ \A i \in 1..Len(c) : d[i] = c[i]
      /\ \A i \in 1..Len(u) : d[Len(c) + i] = u[i]
  BY Concat
<1>2. ASSUME NEW x, x \in ToSet(d)
      PROVE  x \in ToSet(c) \/ x \in ToSet(u)
  <2>1. PICK i \in 1..Len(d) : d[i] = x
    <3>1. d \in Seq(R)
      BY <1>1
    <3>2. QED
      BY <1>2, <3>1, InToSet, Zenon
  <2>2. CASE i \in 1..Len(c)
    BY <1>1, <2>1, <2>2, InToSet
  <2>3. CASE i \notin 1..Len(c)
    <3>1. i - Len(c) \in 1..Len(u) /\ i = Len(c) + (i - Len(c))
      BY <1>1, <2>3
    <3>2. u[i - Len(c)] = x
      BY <1>1, <2>1, <3>1
    <3>3. QED
      BY <3>1, <3>2, InToSet
  <2>4. QED
    BY <2>2, <2>3
<1>3. ASSUME NEW x, x \in ToSet(u)
      PROVE  x \in ToSet(d)
  <2>1. PICK i \in 1..Len(u) : u[i] = x
    BY <1>3, InToSet
  <2>2. Len(c) + i \in 1..Len(d) /\ d[Len(c) + i] = x
    BY <1>1, <2>1
  <2>3. QED
    BY <1>1, <2>2, InToSet
<1>4. ASSUME NEW x, x \in ToSet(c)
      PROVE  x \in ToSet(d)
  <2>1. PICK i \in 1..Len(c) : c[i] = x
    BY <1>4, InToSet
  <2>2. i \in 1..Len(d) /\ d[i] = x
    BY <1>1, <2>1
  <2>3. QED
    BY <1>1, <2>2, InToSet
<1>5. QED
  BY <1>2, <1>3, <1>4

LEMMA SetFew ==
  ASSUME NEW R, NEW b \in Seq(R), NEW T \in SUBSET ToSet(b)
  PROVE  IsFiniteSet(T) /\ Cardinality(T) \in Nat /\ Cardinality(T) <= Len(b)
<1>1. PICK n \in Nat : n = Len(b)
  OBVIOUS
<1>2. IsFiniteSet(1..n) /\ Cardinality(1..n) = n
  <2>1. ASSUME NEW k \in Nat PROVE IsFiniteSet(1..k) /\ Cardinality(1..k) = k
    BY FS_Interval
  <2>2. QED
    BY <2>1
<1>3. DOMAIN b = 1..n
  BY <1>1
<1>4. PICK f : f = [i \in 1..n |-> b[i]]
  OBVIOUS
<1>5. f \in Surjection(1..n, ToSet(b))
  BY <1>3, <1>4 DEF Surjection, ToSet
<1>6. IsFiniteSet(ToSet(b)) /\ Cardinality(ToSet(b)) <= n
  BY <1>2, <1>5, FS_Surjection
<1>7. IsFiniteSet(T) /\ Cardinality(T) <= Cardinality(ToSet(b))
  BY <1>6, FS_Subset
<1>8. Cardinality(T) \in Nat /\ Cardinality(ToSet(b)) \in Nat
  BY <1>6, <1>7, FS_CardinalityType
<1>9. QED
  BY <1>1, <1>6, <1>7, <1>8

LEMMA ReadSound ==
  ASSUME NEW src, NEW b, ReadOf(b, src)
  PROVE  Sound(b)
<1>1. b \in Seq(Memories) /\ Len(b) <= MemoryBudget /\ TextsOnce(b) /\ Unquoted(b)
  BY DEF ReadOf
<1>2. ASSUME NEW x
      PROVE  Cardinality({m \in ToSet(b) : m.src = x}) <= MemoryBudget
  <2>1. PICK T \in SUBSET ToSet(b) : T = {m \in ToSet(b) : m.src = x}
    OBVIOUS
  <2>2. Cardinality(T) \in Nat /\ Cardinality(T) <= Len(b)
    BY <1>1, <2>1, SetFew
  <2>3. Len(b) \in Nat
    BY <1>1
  <2>4. QED
    BY <1>1, <2>1, <2>2, <2>3, LimitsOK
<1>3. QED
  BY <1>1, <1>2 DEF Sound

\* What hydration reads joins what the session's start read.
LEMMA SoundJoined ==
  ASSUME NEW new, NEW b \in Seq(Memories), NEW e, e = new \o b,
         ReadOf(new, "hydrated"), Sound(b), \A m \in ToSet(b) : m.src = "start"
  PROVE  Sound(e)
<1>1. new \in Seq(Memories) /\ (\A i \in 1..Len(new) : new[i].src = "hydrated")
      /\ TextsOnce(new) /\ Unquoted(new) /\ Sound(new)
  BY ReadSound DEF ReadOf
<1>2. TextsOnce(b) /\ Unquoted(b)
  BY DEF Sound
<1>3. /\ e \in Seq(Memories) /\ Len(e) = Len(new) + Len(b) /\ Len(new) \in Nat /\ Len(b) \in Nat
      /\ \A i \in 1..Len(new) : e[i] = new[i]
      /\ \A i \in 1..Len(b) : e[Len(new) + i] = b[i]
  BY <1>1, Concat
<1>4. ASSUME NEW i \in 1..Len(b)
      PROVE  b[i].src = "start"
  BY InToSet
<1>5. ASSUME NEW i \in 1..Len(e), i \notin 1..Len(new)
      PROVE  i - Len(new) \in 1..Len(b) /\ e[i] = b[i - Len(new)] /\ e[i].src = "start"
  <2>1. i - Len(new) \in 1..Len(b) /\ i = Len(new) + (i - Len(new))
    BY <1>3, <1>5
  <2>2. e[i] = b[i - Len(new)]
    BY <1>3, <2>1
  <2>3. QED
    BY <1>4, <2>1, <2>2
<1>6. ASSUME NEW i \in 1..Len(new)
      PROVE  e[i] = new[i] /\ e[i].src = "hydrated"
  BY <1>1, <1>3
<1>7. ASSUME NEW i \in 1..Len(e), NEW j \in 1..Len(e), e[i].src = e[j].src
      PROVE  \/ i \in 1..Len(new) /\ j \in 1..Len(new)
             \/ i \notin 1..Len(new) /\ j \notin 1..Len(new)
  BY <1>5, <1>6, <1>7
<1>8. TextsOnce(e)
  <2>1. ASSUME NEW i \in 1..Len(e), NEW j \in 1..Len(e), i < j, e[i].src = e[j].src
        PROVE  e[i].text # e[j].text
    <3>1. CASE i \in 1..Len(new) /\ j \in 1..Len(new)
      BY <1>1, <1>6, <2>1, <3>1 DEF TextsOnce
    <3>2. CASE i \notin 1..Len(new) /\ j \notin 1..Len(new)
      <4>1. PICK k, l \in 1..Len(b) : k = i - Len(new) /\ l = j - Len(new)
        BY <1>5, <3>2
      <4>2. e[i] = b[k] /\ e[j] = b[l] /\ k < l
        BY <1>3, <1>5, <2>1, <3>2, <4>1
      <4>3. b[k].src = b[l].src
        BY <2>1, <4>2
      <4>4. QED
        BY <1>2, <4>2, <4>3 DEF TextsOnce
    <3>3. QED
      BY <1>7, <2>1, <3>1, <3>2
  <2>2. QED
    BY <2>1 DEF TextsOnce
<1>9. Unquoted(e)
  <2>1. ASSUME NEW i \in 1..Len(e), NEW j \in 1..Len(e), e[i].src = e[j].src,
               e[i].text[1] = "summary", e[j].role # "developer"
        PROVE  e[j].text \notin Summarised
    <3>1. CASE i \in 1..Len(new) /\ j \in 1..Len(new)
      <4>1. e[i] = new[i] /\ e[j] = new[j]
        BY <1>6, <3>1
      <4>2. QED
        BY <1>1, <2>1, <3>1, <4>1 DEF Unquoted
    <3>2. CASE i \notin 1..Len(new) /\ j \notin 1..Len(new)
      <4>1. PICK k, l \in 1..Len(b) : e[i] = b[k] /\ e[j] = b[l]
        BY <1>5, <3>2
      <4>2. QED
        BY <1>2, <2>1, <4>1 DEF Unquoted
    <3>3. QED
      BY <1>7, <2>1, <3>1, <3>2
  <2>2. QED
    BY <2>1 DEF Unquoted
<1>10. ASSUME NEW x \in {"start", "hydrated"}
       PROVE  Cardinality({m \in ToSet(e) : m.src = x}) <= MemoryBudget
  <2>1. \A m : m \in ToSet(e) <=> m \in ToSet(new) \/ m \in ToSet(b)
    BY <1>1, SetOfConcat
  <2>2. \A m \in ToSet(new) : m.src = "hydrated"
    BY <1>1, InToSet
  <2>3. CASE x = "start"
    <3>1. {m \in ToSet(e) : m.src = x} = {m \in ToSet(b) : m.src = x}
      BY <2>1, <2>2, <2>3
    <3>2. QED
      BY <3>1 DEF Sound
  <2>4. CASE x = "hydrated"
    <3>1. {m \in ToSet(e) : m.src = x} = {m \in ToSet(new) : m.src = x}
      BY <2>1, <2>4
    <3>2. QED
      BY <1>1, <3>1 DEF Sound
  <2>5. QED
    BY <2>3, <2>4
<1>11. QED
  BY <1>8, <1>9, <1>10 DEF Sound

LEMMA AskedSaid ==
  ASSUME NEW c \in Seq(Messages), NEW dyn, NEW n, NEW sd \in Seq(Messages),
         Asks(c, dyn, n), Newer(c, sd)
  PROVE  sd # <<>>
<1>1. PICK q \in 1..Len(c) : c[q] = Query(n)
  BY DEF Asks, AskedAt
<1>2. c[q] \in OfTurns
  BY <1>1 DEF OfTurns, Query, Said, Message
<1>3. \E i \in 1..Len(Own(c)) : Own(c)[i] = c[q]
  BY <1>2, OnlyElements DEF Own
<1>4. PICK r \in Seq(Messages) : r = Own(c)
  BY OwnTyped
<1>5. Len(r) > 0 /\ Len(r) <= Len(sd)
  <2>1. Len(r) > 0
    BY <1>3, <1>4
  <2>2. QED
    BY <1>4, <2>1 DEF Newer, EndOf
<1>6. QED
  BY <1>5

LEMMA SomeUser ==
  ASSUME NEW c \in Seq(Messages), NEW sd, Newer(c, sd), sd # <<>>
  PROVE  \E i \in 1..Len(c) : c[i].role = "user"
<1>1. PICK r \in Seq(Messages) : r = Own(c)
  BY OwnTyped
<1>2. r # <<>> /\ r[1].role = "user"
  BY <1>1 DEF Newer
<1>3. 1 \in 1..Len(r)
  BY <1>2
<1>4. \E j \in 1..Len(c) : c[j] = r[1]
  BY <1>1, <1>3, OnlyElements DEF Own
<1>5. QED
  BY <1>2, <1>4

\* Without what was retrieved, d is the memory and what was said.
Clears(d, b, c, dyn) ==
  \E e : /\ Only(d, ToSet(d) \ dyn) = b \o e
         /\ Dialogue(e, {}) /\ CallsFirst(e) /\ Own(e) = Own(c)

LEMMA ClearedStory ==
  ASSUME NEW b, NEW c, NEW prot, NEW dyn, NEW d, Laid(d, b, c, prot, dyn), CallsFirst(c),
         \A m \in dyn : m.src = "dynamic"
  PROVE  Clears(d, b, c, dyn)
<1>1. PICK S : S = ToSet(d) \ dyn
  OBVIOUS
<1>2. d = b \o c /\ Block(b, prot) /\ Dialogue(c, dyn)
  BY DEF Laid
<1>3. b \o c \in Seq(Messages) /\ b \in Seq(Messages) /\ c \in Seq(Messages)
  BY <1>2, Parts
<1>4. /\ d \in Seq(Messages) /\ Len(d) = Len(b) + Len(c) /\ Len(b) \in Nat /\ Len(c) \in Nat
      /\ \A i \in 1..Len(b) : d[i] = b[i]
      /\ \A i \in 1..Len(c) : d[Len(b) + i] = c[i]
  BY <1>2, <1>3, Concat
<1>5. \A i \in 1..Len(b) : b[i] \in S
  <2>1. ASSUME NEW i \in 1..Len(b)
        PROVE  b[i] \in ToSet(d) /\ b[i] \notin dyn
    <3>1. i \in 1..Len(d) /\ d[i] = b[i]
      BY <1>4
    <3>2. b[i] \in ToSet(d)
      BY <1>4, <3>1, InToSet
    <3>3. b[i].src \in {"start", "hydrated"}
      BY <1>2 DEF Block, Memories
    <3>4. QED
      BY <3>2, <3>3
  <2>2. QED
    BY <1>1, <2>1
<1>6. \A i \in 1..Len(c) : c[i] \in S <=> c[i] \notin dyn
  <2>1. ASSUME NEW i \in 1..Len(c)
        PROVE  c[i] \in ToSet(d)
    <3>1. Len(b) + i \in 1..Len(d) /\ d[Len(b) + i] = c[i]
      BY <1>4
    <3>2. QED
      BY <1>4, <3>1, InToSet
  <2>2. QED
    BY <1>1, <2>1
<1>7. PICK e : e = Only(c, S)
  OBVIOUS
<1>8. Dialogue(e, {}) /\ CallsFirst(e) /\ Own(e) = Own(c)
  BY <1>2, <1>6, <1>7, Cleared
<1>9. Only(b, S) = b
  <2>1. Only(b, S) = Only(b, Messages)
    BY <1>3, <1>5, OnlyAgree
  <2>2. QED
    BY <1>3, <2>1, OnlyAll
<1>10. Only(b \o c, S) = Only(b, S) \o Only(c, S)
  BY <1>3, OnlyConcat
<1>11. QED
  BY <1>1, <1>2, <1>7, <1>8, <1>9, <1>10 DEF Clears

-----------------------------------------------------------------------------
(* The inductive invariant. *)

Story(b, c) ==
  /\ messages = b \o c
  /\ Block(b, protected) /\ Dialogue(c, dynamic) /\ CallsFirst(c) /\ Newer(c, said)
  /\ point \in {"asked", "retrieving", "ready", "answering"} => Asks(c, dynamic, turn)

\* What is in the database was there before, as long as nothing is said.
Unsaid == saved \in Seq(OldStores) /\ pending \in Seq(OldStores) /\ recent \in Seq(OldStores)

\* Only the present turn has something retrieved, once it is; the model answers
\* what it was sent.
Timely ==
  /\ \A m \in dynamic : m \in Messages /\ m.src = "dynamic" /\ m.text[2] = turn
  /\ point \in {"speaking", "asked", "retrieving"} => dynamic = {}
  /\ point = "answering" => request = messages
  /\ said = <<>> => Unsaid

\* What hydration reads comes on top of what the start had.
Early == hydration \in {"reading", "read"} => \A m \in protected : m.src = "start"

Types ==
  /\ request \in Seq(Messages) /\ said \in Seq(Messages)
  /\ known \subseteq {"facts", "summary"}
  /\ saved \in Seq(Stores) /\ pending \in Seq(Stores) /\ recent \in Seq(Stores)
  /\ hydration \in {"reading", "read", "installed", "skipped", "failed", "cancelled"}
  /\ turn \in 0..MaxTurns
  /\ point \in Points

Inv == Types /\ Timely /\ \E b, c : Story(b, c)

LEMMA InvInit == Init => Inv /\ Early
<1> SUFFICES ASSUME Init PROVE Inv /\ Early
  OBVIOUS
<1>1. <<>> \in Seq(OldStores) /\ <<>> \in Seq(Messages) /\ <<>> \in Seq(Stores)
  OBVIOUS
<1>2. messages \in Seq(Memories) /\ Sound(messages) /\ Early
  <2>1. ReadOf(messages, "start")
    BY <1>1, MemoryRead DEF Init
  <2>2. messages \in Seq(Memories) /\ \A i \in 1..Len(messages) : messages[i].src = "start"
    BY <2>1 DEF ReadOf
  <2>3. protected = ToSet(messages)
    BY DEF Init
  <2>4. QED
    BY <2>1, <2>2, <2>3, InToSet, ReadSound DEF Early
<1>3. History \in Seq(OldStores) /\ History \in Seq(Stores)
  <2>1. PICK R : R = [role : {"user", "assistant"}, text : {"old"} \X Nat]
    OBVIOUS
  <2>2. R \subseteq OldStores /\ OldStores \subseteq Stores
    BY <2>1 DEF OldStores, Stores, Texts
  <2>3. History \in Seq(R)
    BY <2>1, LimitsOK
  <2>4. QED
    BY <2>2, <2>3, SeqMonotonic
<1>4. Types
  BY <1>1, <1>3, LimitsOK DEF Init, Types, Points
<1>5. Timely
  BY <1>1, <1>3 DEF Init, Timely, Unsaid
<1>6. Story(messages, <<>>)
  <2>1. messages = messages \o <<>>
    BY <1>2, ConcatEmptySeq
  <2>2. Block(messages, protected)
    BY <1>2 DEF Block, Init
  <2>3. Dialogue(<<>>, dynamic) /\ CallsFirst(<<>>)
    BY <1>1 DEF Dialogue, CallsFirst
  <2>4. Newer(<<>>, said)
    <3>1. Own(<<>>) = <<>>
      BY OnlyEmpty DEF Own
    <3>2. QED
      BY <3>1 DEF Newer, EndOf, Init
  <2>5. QED
    BY <2>1, <2>2, <2>3, <2>4 DEF Story, Init
<1>7. QED
  BY <1>2, <1>4, <1>5, <1>6 DEF Inv

-----------------------------------------------------------------------------
(* The steps. *)

LEMMA TimelyRoles == ASSUME Timely PROVE \A m \in dynamic : m.src = "dynamic"
BY DEF Timely

\* Steps that leave the messages alone.
LEMMA InvRests ==
  ASSUME Inv, UNCHANGED <<messages, protected, dynamic, turn, request, said>>,
         point' \in {point, "quiet", "ended"}, Types', Unsaid => Unsaid'
  PROVE  Inv'
<1>1. Timely'
  BY DEF Inv, Timely
<1>2. PICK b, c : Story(b, c)
  BY DEF Inv
<1>3. Story(b, c)'
  BY <1>2 DEF Story
<1>4. QED
  BY <1>1, <1>3 DEF Inv

LEMMA InvRead == ASSUME Inv, HydrationRead PROVE Inv'
<1>1. recent' \in Seq(Stores) /\ (Unsaid => recent' \in Seq(OldStores))
  BY LimitsOK, EndsTyped DEF Inv, Types, Unsaid, HydrationRead
<1>2. Types'
  BY <1>1 DEF Inv, Types, HydrationRead, store
<1>3. Unsaid => Unsaid'
  BY <1>1 DEF Unsaid, HydrationRead, store
<1>4. QED
  BY <1>2, <1>3, InvRests DEF HydrationRead

LEMMA InvFail == ASSUME Inv, HydrationFail \/ HydrationSkip PROVE Inv'
<1>1. Types' /\ (Unsaid => Unsaid')
  BY DEF Inv, Types, Unsaid, HydrationFail, HydrationSkip, store
<1>2. QED
  BY <1>1, InvRests DEF HydrationFail, HydrationSkip

LEMMA InvSilent == ASSUME Inv, UserSilent PROVE Inv'
<1>1. Types' /\ (Unsaid => Unsaid')
  BY DEF Inv, Types, Points, Unsaid, UserSilent, store
<1>2. QED
  BY <1>1, InvRests DEF UserSilent

LEMMA InvEnd == ASSUME Inv, EndSession PROVE Inv'
<1>1. Types'
  BY DEF Inv, Types, Points, EndSession, store
<1>2. Unsaid => Unsaid'
  BY DEF Unsaid, EndSession, store
<1>3. QED
  BY <1>1, <1>2, InvRests DEF EndSession

LEMMA InvSave == ASSUME Inv, Save PROVE Inv'
<1>1. ASSUME NEW R, saved \in Seq(R), pending \in Seq(R)
      PROVE  saved' \in Seq(R) /\ pending' \in Seq(R)
  <2>1. pending # <<>> /\ saved' = Append(saved, Head(pending)) /\ pending' = Tail(pending)
    BY DEF Save
  <2>2. Head(pending) \in R /\ Tail(pending) \in Seq(R)
    BY <1>1, <2>1, HeadTailProperties
  <2>3. QED
    BY <1>1, <2>1, <2>2, AppendProperties
<1>2. Types'
  BY <1>1 DEF Inv, Types, Save
<1>3. Unsaid => Unsaid'
  BY <1>1 DEF Unsaid, Save
<1>4. QED
  BY <1>2, <1>3, InvRests DEF Save

\* Hydration lands only while nothing was said, so what it read is from before.
LEMMA InstallsFirst ==
  ASSUME Inv, HydrationInstall
  PROVE  said = <<>> /\ point \notin {"asked", "retrieving", "ready", "answering"}
<1>1. PICK b, c : Story(b, c)
  BY DEF Inv
<1>2. PICK d : d = b \o c
  OBVIOUS
<1>3. d \in Seq(Messages) /\ b \in Seq(Messages) /\ c \in Seq(Messages)
  BY <1>1, <1>2, Parts DEF Story
<1>4. ASSUME NEW i \in 1..Len(c), c[i].role = "user"
      PROVE  FALSE
  <2>1. Len(d) = Len(b) + Len(c) /\ Len(b) \in Nat /\ Len(c) \in Nat /\ d[Len(b) + i] = c[i]
    BY <1>2, <1>3, Concat
  <2>2. Len(b) + i \in DOMAIN d
    BY <1>3, <2>1
  <2>3. messages = d
    BY <1>1, <1>2 DEF Story
  <2>4. QED
    BY <1>4, <2>1, <2>2, <2>3 DEF HydrationInstall, HasUser
<1>5. said = <<>>
  BY <1>1, <1>3, <1>4, SomeUser DEF Story
<1>6. point \notin {"asked", "retrieving", "ready", "answering"}
  <2>1. said \in Seq(Messages)
    BY DEF Inv, Types
  <2>2. ~ Asks(c, dynamic, turn)
    BY <1>1, <1>3, <1>5, <2>1, AskedSaid DEF Story
  <2>3. QED
    BY <1>1, <2>2 DEF Story
<1>7. QED
  BY <1>5, <1>6

LEMMA InvInstall == ASSUME Inv, Early, HydrationInstall PROVE Inv'
<1>1. PICK b, c : Story(b, c)
  BY DEF Inv
<1>2. b \in Seq(Messages) /\ c \in Seq(Messages)
  BY <1>1, Parts DEF Story
<1>3. said = <<>>
  BY InstallsFirst
<1>4. point \notin {"asked", "retrieving", "ready", "answering"}
  BY InstallsFirst
<1>5. PICK new : new = Memory("hydrated", HydratedBundle, recent)
  OBVIOUS
<1>6. new \in Seq(Memories) /\ ReadOf(new, "hydrated")
  <2>1. recent \in Seq(OldStores)
    BY <1>3 DEF Inv, Timely, Unsaid
  <2>2. QED
    BY <1>5, <2>1, MemoryRead DEF ReadOf
<1>7. messages' = new \o (b \o c) /\ protected' = protected \cup ToSet(new)
  BY <1>1, <1>5 DEF HydrationInstall, ProtectMessages, Story
<1>8. PICK e : e = new \o b
  OBVIOUS
<1>9. Memories \subseteq Messages
  BY DEF Memories
<1>10. messages' = e \o c
  <2>1. new \in Seq(Messages)
    BY <1>6, <1>9
  <2>2. QED
    BY <1>2, <1>7, <1>8, <2>1, ConcatAssociative, SMTT(30)
<1>11. Block(e, protected')
  <2>1. b \in Seq(Memories) /\ protected = ToSet(b) /\ Sound(b)
    BY <1>1 DEF Story, Block
  <2>2. e \in Seq(Memories)
    BY <1>6, <1>8, <2>1, Concat
  <2>3. \A x : x \in ToSet(e) <=> x \in ToSet(new) \/ x \in ToSet(b)
    BY <1>6, <1>8, <2>1, SetOfConcat
  <2>4. protected' = ToSet(e)
    BY <1>7, <2>1, <2>3
  <2>5. \A m \in ToSet(b) : m.src = "start"
    BY <2>1 DEF Early, HydrationInstall
  <2>6. Sound(e)
    BY <1>6, <1>8, <2>1, <2>5, SoundJoined
  <2>7. QED
    BY <2>2, <2>4, <2>6 DEF Block
<1>12. Story(e, c)'
  BY <1>1, <1>4, <1>10, <1>11 DEF Story, HydrationInstall
<1>13. Types'
  BY DEF Inv, Types, HydrationInstall, store
<1>14. Timely'
  BY <1>4 DEF Inv, Timely, Unsaid, HydrationInstall, store
<1>15. QED
  BY <1>12, <1>13, <1>14 DEF Inv

LEMMA TurnMessages ==
  ASSUME NEW role \in Roles, NEW kind \in {"turn", "call"}, NEW n \in Nat
  PROVE  /\ Said(role, <<kind, n>>) \in Messages
         /\ Said(role, <<kind, n>>).src = "turn" /\ Said(role, <<kind, n>>).role = role
         /\ Said(role, <<kind, n>>).text = <<kind, n>>
         /\ role \in {"user", "assistant"} => Stored(role, n) \in Stores
BY DEF Said, Message, Messages, Sources, Texts, Stored, Stores

LEMMA ConcatJoined ==
  ASSUME NEW b \in Seq(Messages), NEW c \in Seq(Messages), NEW x \in Messages
  PROVE  Append(b \o c, x) = b \o Append(c, x)
OBVIOUS

\* The conversation as the invariant has it.
Told(c, dyn, sd) ==
  Dialogue(c, dyn) /\ CallsFirst(c) /\ Newer(c, sd) /\ sd \in Seq(Messages)

\* A message of the session joins both the context and what was said.
LEMMA StoryJoined ==
  ASSUME NEW c, NEW dyn, NEW sd, NEW x, x \in Messages, Told(c, dyn, sd),
         x.src = "turn", x.role # "tool", sd # <<>> \/ x.role = "user"
  PROVE  Told(Append(c, x), dyn, Append(sd, x)) /\ Append(sd, x) # <<>>
<1>1. c \in Seq(Messages) /\ sd \in Seq(Messages)
  BY DEF Told, Dialogue
<1>2. Dialogue(Append(c, x), dyn)
  BY DialogueJoined DEF Told
<1>3. CallsFirst(Append(c, x))
  BY <1>1, CallsJoined DEF Told
<1>4. Newer(Append(c, x), Append(sd, x))
  BY <1>1, NewerJoined DEF Told
<1>5. Append(sd, x) \in Seq(Messages) /\ Append(sd, x) # <<>>
  BY <1>1, AppendProperties
<1>6. QED
  BY <1>2, <1>3, <1>4, <1>5 DEF Told

LEMMA StoresJoined ==
  ASSUME NEW role \in {"user", "assistant"}, NEW n \in Nat, pending \in Seq(Stores)
  PROVE  Append(pending, Stored(role, n)) \in Seq(Stores)
BY TurnMessages, AppendProperties DEF Roles

LEMMA InvUserStopped == ASSUME Inv, UserStopped PROVE Inv'
<1>1. PICK b, c : Story(b, c)
  BY DEF Inv
<1>2. PICK x : x = Query(turn)
  OBVIOUS
<1>3. turn \in Nat /\ said \in Seq(Messages) /\ pending \in Seq(Stores)
  BY LimitsOK DEF Inv, Types
<1>4. x \in Messages /\ x.src = "turn" /\ x.role = "user"
  BY <1>2, <1>3, TurnMessages DEF Query, Roles
<1>5. b \in Seq(Messages) /\ c \in Seq(Messages)
  BY <1>1, Parts DEF Story
<1>6. /\ messages' = b \o Append(c, x) /\ Dialogue(Append(c, x), dynamic)
      /\ CallsFirst(Append(c, x)) /\ Newer(Append(c, x), said')
      /\ said' \in Seq(Messages) /\ said' # <<>>
  <2>1. messages' = Append(b \o c, x) /\ said' = Append(said, x)
    BY <1>1, <1>2 DEF UserStopped, Story
  <2>2. Dialogue(c, dynamic) /\ CallsFirst(c) /\ Newer(c, said)
    BY <1>1 DEF Story
  <2>3. Told(Append(c, x), dynamic, Append(said, x)) /\ Append(said, x) # <<>>
    BY <1>3, <1>4, <2>2, StoryJoined DEF Told
  <2>4. Append(b \o c, x) = b \o Append(c, x)
    BY <1>4, <1>5, ConcatJoined
  <2>5. QED
    BY <2>1, <2>3, <2>4 DEF Told
<1>7. dynamic = {} /\ dynamic' = dynamic
  BY DEF Inv, Timely, UserStopped
<1>8. Asks(Append(c, x), dynamic, turn)
  BY <1>2, <1>4, <1>5, <1>7, AsksQuery
<1>9. Story(b, Append(c, x))'
  <2>1. Block(b, protected) /\ protected' = protected /\ turn' = turn
    BY <1>1 DEF Story, UserStopped
  <2>2. QED
    BY <1>6, <1>7, <1>8, <2>1 DEF Story
<1>10. Types'
  <2>1. pending' \in Seq(Stores)
    BY <1>3, StoresJoined DEF UserStopped
  <2>2. QED
    BY <1>6, <2>1 DEF Inv, Types, Points, UserStopped
<1>11. Timely'
  BY <1>6, <1>7 DEF Inv, Timely, UserStopped
<1>12. QED
  BY <1>9, <1>10, <1>11 DEF Inv

LEMMA InvAnswer == ASSUME Inv, Answer PROVE Inv'
<1>1. PICK b, c : Story(b, c)
  BY DEF Inv
<1>2. PICK x : x = Said("assistant", <<"turn", turn>>)
  OBVIOUS
<1>3. turn \in Nat /\ said \in Seq(Messages) /\ pending \in Seq(Stores)
  BY LimitsOK DEF Inv, Types
<1>4. x \in Messages /\ x.src = "turn" /\ x.role = "assistant"
  BY <1>2, <1>3, TurnMessages DEF Roles
<1>5. b \in Seq(Messages) /\ c \in Seq(Messages)
  BY <1>1, Parts DEF Story
<1>6. said # <<>>
  BY <1>1, <1>3, <1>5, AskedSaid DEF Story, Answer
<1>7. /\ messages' = b \o Append(c, x) /\ Dialogue(Append(c, x), dynamic)
      /\ CallsFirst(Append(c, x)) /\ Newer(Append(c, x), said')
      /\ said' \in Seq(Messages) /\ said' # <<>>
  <2>1. messages' = Append(b \o c, x) /\ said' = Append(said, x)
    BY <1>1, <1>2 DEF Answer, Story
  <2>2. Dialogue(c, dynamic) /\ CallsFirst(c) /\ Newer(c, said)
    BY <1>1 DEF Story
  <2>3. Told(Append(c, x), dynamic, Append(said, x)) /\ Append(said, x) # <<>>
    BY <1>3, <1>4, <1>6, <2>2, StoryJoined DEF Told
  <2>4. Append(b \o c, x) = b \o Append(c, x)
    BY <1>4, <1>5, ConcatJoined
  <2>5. QED
    BY <2>1, <2>3, <2>4 DEF Told
<1>8. Story(b, Append(c, x))'
  <2>1. Block(b, protected) /\ protected' = protected /\ dynamic' = dynamic /\ point' = "quiet"
    BY <1>1 DEF Story, Answer
  <2>2. QED
    BY <1>7, <2>1 DEF Story
<1>9. Types'
  <2>1. pending' \in Seq(Stores)
    BY <1>3, StoresJoined DEF Answer
  <2>2. QED
    BY <1>7, <2>1 DEF Inv, Types, Points, Answer
<1>10. Timely'
  BY <1>7 DEF Inv, Timely, Answer
<1>11. QED
  BY <1>8, <1>9, <1>10 DEF Inv

LEMMA InvToolRound == ASSUME Inv, ToolRound PROVE Inv'
<1>1. PICK b, c : Story(b, c)
  BY DEF Inv
<1>2. PICK x, y : x = Said("assistant", <<"call", turn>>) /\ y = Said("tool", <<"call", turn>>)
  OBVIOUS
<1>3. turn \in Nat /\ said \in Seq(Messages)
  BY LimitsOK DEF Inv, Types
<1>4. /\ x \in Messages /\ x.src = "turn" /\ x.role = "assistant" /\ x.text = <<"call", turn>>
      /\ y \in Messages /\ y.src = "turn" /\ y.role = "tool" /\ y.text = <<"call", turn>>
  BY <1>2, <1>3, TurnMessages DEF Roles
<1>5. b \in Seq(Messages) /\ c \in Seq(Messages)
  BY <1>1, Parts DEF Story
<1>6. Asks(c, dynamic, turn) /\ Dialogue(c, dynamic) /\ CallsFirst(c) /\ Newer(c, said)
  BY <1>1 DEF Story, ToolRound
<1>7. said # <<>>
  BY <1>3, <1>5, <1>6, AskedSaid
<1>8. PICK d, sd : d = Append(c, x) /\ sd = Append(said, x)
  OBVIOUS
<1>9. /\ Append(b \o c, x) = b \o d /\ Dialogue(d, dynamic) /\ CallsFirst(d) /\ Newer(d, sd)
      /\ sd \in Seq(Messages) /\ sd # <<>>
  <2>1. Told(d, dynamic, sd) /\ sd # <<>>
    BY <1>3, <1>4, <1>6, <1>7, <1>8, StoryJoined DEF Told
  <2>2. Append(b \o c, x) = b \o d
    BY <1>4, <1>5, <1>8, ConcatJoined
  <2>3. QED
    BY <2>1, <2>2 DEF Told
<1>10. Asks(d, dynamic, turn)
  BY <1>4, <1>5, <1>6, <1>8, AsksJoined
<1>11. PICK e, se : e = Append(d, y) /\ se = Append(sd, y)
  OBVIOUS
<1>12. d \in Seq(Messages) /\ Len(d) > 0 /\ d[Len(d)] = x
  BY <1>4, <1>5, <1>8
<1>13. Dialogue(e, dynamic) /\ Newer(e, se) /\ se \in Seq(Messages) /\ se # <<>>
  <2>1. Dialogue(e, dynamic)
    BY <1>4, <1>9, <1>11, DialogueJoined
  <2>2. Newer(e, se)
    BY <1>4, <1>9, <1>11, <1>12, NewerJoined
  <2>3. se \in Seq(Messages) /\ se # <<>>
    BY <1>4, <1>9, <1>11, AppendProperties
  <2>4. QED
    BY <2>1, <2>2, <2>3
<1>14. CallsFirst(e)
  BY <1>4, <1>9, <1>11, <1>12, CallsJoined
<1>15. Asks(e, dynamic, turn)
  BY <1>4, <1>10, <1>11, <1>12, AsksJoined
<1>16. messages' = b \o e /\ said' = se
  <2>1. PICK call : call = <<x, y>>
    OBVIOUS
  <2>2. messages' = (b \o c) \o call /\ said' = said \o call
    BY <1>1, <1>2, <2>1 DEF ToolRound, Story
  <2>3. ASSUME NEW s \in Seq(Messages)
        PROVE  s \o call = Append(Append(s, x), y)
    BY <1>4, <2>1
  <2>4. b \o c \in Seq(Messages)
    BY <1>5
  <2>5. (b \o c) \o call = Append(Append(b \o c, x), y) /\ said \o call = Append(Append(said, x), y)
    BY <1>3, <2>3, <2>4
  <2>6. Append(b \o d, y) = b \o e
    BY <1>4, <1>5, <1>11, <1>12, ConcatJoined
  <2>7. QED
    BY <1>8, <1>9, <1>11, <2>2, <2>5, <2>6
<1>17. b \o e \in Seq(Messages)
  BY <1>4, <1>5, <1>11, <1>12
<1>18. Story(b, e)'
  <2>1. Block(b, protected) /\ protected' = protected /\ dynamic' = dynamic /\ turn' = turn
    BY <1>1 DEF Story, ToolRound
  <2>2. QED
    BY <1>13, <1>14, <1>15, <1>16, <2>1 DEF Story
<1>19. Types'
  <2>1. request' \in Seq(Messages) /\ said' \in Seq(Messages)
    BY <1>13, <1>16, <1>17 DEF ToolRound
  <2>2. QED
    BY <2>1 DEF Inv, Types, ToolRound, store
<1>20. Timely'
  <2>1. said' # <<>> /\ request' = messages' /\ point' = "answering"
    BY <1>13, <1>16 DEF ToolRound
  <2>2. QED
    BY <2>1 DEF Inv, Timely, ToolRound
<1>21. QED
  BY <1>18, <1>19, <1>20 DEF Inv

LEMMA InvStartTurn == ASSUME Inv, StartTurn PROVE Inv'
<1>1. PICK b, c : Story(b, c)
  BY DEF Inv
<1>2. Dialogue(c, dynamic) /\ CallsFirst(c) /\ Newer(c, said) /\ Block(b, protected) /\ messages = b \o c
  BY <1>1 DEF Story
<1>3. turn \in Nat /\ turn + 1 \in 0..MaxTurns /\ said \in Seq(Messages) /\ pending \in Seq(Stores)
  BY LimitsOK DEF Inv, Types, StartTurn
<1>4. b \in Seq(Messages) /\ c \in Seq(Messages)
  BY <1>2, Parts
<1>5. PICK e : /\ ClearDynamic(messages) = b \o e
               /\ Dialogue(e, {}) /\ CallsFirst(e) /\ Own(e) = Own(c)
  <2>1. \A m \in dynamic : m.src = "dynamic"
    BY TimelyRoles DEF Inv
  <2>2. Laid(messages, b, c, protected, dynamic)
    BY <1>2 DEF Laid
  <2>3. Clears(messages, b, c, dynamic)
    BY <1>2, <2>1, <2>2, ClearedStory
  <2>4. QED
    BY <2>3 DEF ClearDynamic, Clears
<1>6. e \in Seq(Messages) /\ Newer(e, said)
  BY <1>2, <1>5 DEF Dialogue, Newer
<1>7. PICK x : x = Said("assistant", <<"turn", turn>>)
  OBVIOUS
<1>8. x \in Messages /\ x.src = "turn" /\ x.role = "assistant"
  BY <1>3, <1>7, TurnMessages DEF Roles
<1>9. PICK heard, over \in {<<>>, <<x>>} :
        /\ point # "answering" => heard = <<>> /\ over = <<>>
        /\ messages' = ClearDynamic(messages) \o heard
        /\ said' = said \o heard
        /\ pending' = IF over = <<>> THEN pending
                      ELSE Append(pending, Stored("assistant", turn))
  BY <1>7 DEF StartTurn
<1>10. point = "answering" => said # <<>>
  BY <1>1, <1>3, <1>4, AskedSaid DEF Story
<1>11. /\ turn' = turn + 1 /\ point' = "speaking" /\ dynamic' = {} /\ protected' = protected
       /\ known' = known /\ saved' = saved /\ hydration' = hydration /\ recent' = recent
       /\ request' = request
  BY DEF StartTurn
<1>12. PICK d : /\ messages' = b \o d
                /\ Dialogue(d, {}) /\ CallsFirst(d) /\ Newer(d, said') /\ said' \in Seq(Messages)
                /\ said' = <<>> => said = <<>>
  <2>1. CASE heard = <<>>
    <3>1. messages' = b \o e
      <4>1. b \o e \in Seq(Messages)
        BY <1>4, <1>6
      <4>2. (b \o e) \o <<>> = b \o e
        BY <4>1, ConcatEmptySeq
      <4>3. QED
        BY <1>5, <1>9, <2>1, <4>2
    <3>2. said' = said
      <4>1. said \o <<>> = said
        BY <1>3, ConcatEmptySeq
      <4>2. QED
        BY <1>9, <2>1, <4>1
    <3>3. QED
      BY <1>3, <1>5, <1>6, <3>1, <3>2
  <2>2. CASE heard # <<>>
    <3>1. heard = <<x>> /\ said # <<>>
      BY <1>9, <1>10, <2>2
    <3>2. ASSUME NEW s \in Seq(Messages)
          PROVE  s \o heard = Append(s, x)
      BY <1>8, <3>1
    <3>3. messages' = b \o Append(e, x)
      <4>1. b \o e \in Seq(Messages)
        BY <1>4, <1>6
      <4>2. (b \o e) \o heard = Append(b \o e, x)
        BY <3>2, <4>1
      <4>3. Append(b \o e, x) = b \o Append(e, x)
        BY <1>4, <1>6, <1>8, ConcatJoined
      <4>4. QED
        BY <1>5, <1>9, <4>2, <4>3
    <3>4. said' = Append(said, x)
      BY <1>3, <1>9, <3>2
    <3>5. Told(Append(e, x), {}, Append(said, x)) /\ Append(said, x) # <<>>
      <4>1. Told(e, {}, said)
        BY <1>3, <1>5, <1>6 DEF Told
      <4>2. QED
        BY <1>8, <3>1, <4>1, StoryJoined
    <3>6. QED
      BY <3>3, <3>4, <3>5 DEF Told
  <2>3. QED
    BY <2>1, <2>2
<1>13. pending' \in Seq(Stores) /\ (pending' # pending => said # <<>>)
  <2>1. Append(pending, Stored("assistant", turn)) \in Seq(Stores)
    BY <1>3, StoresJoined
  <2>2. QED
    BY <1>3, <1>9, <1>10, <2>1
<1>14. Story(b, d)'
  BY <1>2, <1>11, <1>12 DEF Story
<1>15. Types'
  BY <1>3, <1>11, <1>12, <1>13 DEF Inv, Types, Points
<1>16. Timely'
  <2>1. said' = <<>> => said = <<>> /\ pending' = pending
    BY <1>12, <1>13
  <2>2. said' = <<>> => Unsaid'
    BY <1>11, <2>1 DEF Inv, Timely, Unsaid
  <2>3. QED
    BY <1>11, <2>2 DEF Timely
<1>17. QED
  BY <1>14, <1>15, <1>16 DEF Inv

\* Nothing is retrieved yet when the query comes by: there is nothing to clear.
LEMMA InvProcessFrame == ASSUME Inv, ProcessFrame PROVE Inv'
<1>1. PICK b, c : Story(b, c)
  BY DEF Inv
<1>2. messages \in Seq(Messages)
  BY <1>1, Parts DEF Story
<1>3. dynamic = {}
  BY DEF Inv, Timely, ProcessFrame
<1>4. messages' = messages
  <2>1. PICK S : S = ToSet(messages) \ dynamic
    OBVIOUS
  <2>2. \A i \in 1..Len(messages) : messages[i] \in S
    BY <1>2, <1>3, <2>1, InToSet
  <2>3. Only(messages, S) = Only(messages, Messages)
    BY <1>2, <2>2, OnlyAgree
  <2>4. Only(messages, Messages) = messages
    BY <1>2, OnlyAll
  <2>5. QED
    BY <2>1, <2>3, <2>4 DEF ProcessFrame, ClearDynamic
<1>5. dynamic' = dynamic /\ point' \in {"ready", "retrieving"} /\ point = "asked"
  BY <1>3 DEF ProcessFrame
<1>6. Story(b, c)'
  BY <1>1, <1>4, <1>5 DEF Story, ProcessFrame
<1>7. Types'
  BY <1>5 DEF Inv, Types, Points, ProcessFrame, store
<1>8. Timely'
  <2>1. Unsaid' <=> Unsaid
    BY DEF Unsaid, ProcessFrame, store
  <2>2. QED
    BY <1>3, <1>5, <2>1 DEF Inv, Timely, ProcessFrame
<1>9. QED
  BY <1>6, <1>7, <1>8 DEF Inv

LEMMA InvDeliver == ASSUME Inv, Deliver PROVE Inv'
<1>1. PICK b, c : Story(b, c)
  BY DEF Inv
<1>2. dynamic = {} /\ turn \in Nat
  BY LimitsOK DEF Inv, Timely, Types, Deliver
<1>3. /\ Dialogue(c, {}) /\ CallsFirst(c) /\ Newer(c, said) /\ Asks(c, {}, turn)
      /\ Block(b, protected) /\ messages = b \o c
  BY <1>1, <1>2 DEF Story, Deliver
<1>4. b \in Seq(Messages) /\ c \in Seq(Messages)
  BY <1>3, Parts
<1>5. PICK found : LET kinds == Only(Retrieved, found)
                       new == [i \in DOMAIN kinds |-> Message("dynamic", "developer", <<kinds[i], turn>>)] IN
                   messages' = messages \o new /\ dynamic' = dynamic \cup ToSet(new)
  BY DEF Deliver
<1>6. PICK kinds : kinds = Only(Retrieved, found)
  OBVIOUS
<1>7. PICK new : new = [i \in DOMAIN kinds |-> Message("dynamic", "developer", <<kinds[i], turn>>)]
  OBVIOUS
<1>8. messages' = messages \o new /\ dynamic' = ToSet(new)
  BY <1>2, <1>5, <1>6, <1>7
<1>9. kinds \in Seq(ToSet(Retrieved))
  <2>1. Retrieved \in Seq(ToSet(Retrieved))
    BY DEF Retrieved, ToSet
  <2>2. kinds \in Seq(ToSet(Retrieved) \cap found)
    BY <1>6, <2>1, OnlyTyped
  <2>3. ToSet(Retrieved) \cap found \subseteq ToSet(Retrieved)
    OBVIOUS
  <2>4. QED
    BY <2>2, <2>3, SeqMonotonic
<1>10. \A k \in ToSet(Retrieved) :
         LET m == Message("dynamic", "developer", <<k, turn>>) IN
         m \in Messages /\ m.src = "dynamic" /\ m.role = "developer" /\ m.text[2] = turn
  BY <1>2 DEF Message, Messages, Sources, Roles, Texts
<1>11. /\ new \in Seq(Messages)
       /\ \A i \in 1..Len(new) : new[i].src = "dynamic" /\ new[i].role = "developer" /\ new[i].text[2] = turn
  <2>1. /\ DOMAIN kinds = 1..Len(kinds) /\ Len(kinds) \in Nat
        /\ \A i \in 1..Len(kinds) : kinds[i] \in ToSet(Retrieved)
    BY <1>9
  <2>2. ASSUME NEW i \in 1..Len(kinds)
        PROVE  /\ new[i] \in Messages /\ new[i].src = "dynamic"
               /\ new[i].role = "developer" /\ new[i].text[2] = turn
    <3>1. new[i] = Message("dynamic", "developer", <<kinds[i], turn>>)
      BY <1>7, <2>1
    <3>2. QED
      BY <1>10, <2>1, <3>1
  <2>3. new \in [1..Len(kinds) -> Messages]
    BY <1>7, <2>1, <2>2
  <2>4. new \in Seq(Messages) /\ Len(new) = Len(kinds)
    BY <2>1, <2>3
  <2>5. QED
    BY <2>2, <2>4
<1>12. PICK e : e = c \o new
  OBVIOUS
<1>13. Dialogue(e, dynamic') /\ CallsFirst(e) /\ Asks(e, dynamic', turn) /\ Own(e) = Own(c)
  BY <1>3, <1>8, <1>11, <1>12, Delivered
<1>14. messages' = b \o e
  BY <1>3, <1>4, <1>8, <1>11, <1>12, ConcatAssociative
<1>15. Story(b, e)'
  BY <1>3, <1>13, <1>14 DEF Story, Newer, Deliver
<1>16. Types'
  BY DEF Inv, Types, Points, Deliver, store
<1>17. Timely'
  <2>1. Unsaid' <=> Unsaid
    BY DEF Unsaid, Deliver, store
  <2>2. \A m \in dynamic' : m \in Messages /\ m.src = "dynamic" /\ m.text[2] = turn
    BY <1>8, <1>11, InToSet
  <2>3. QED
    BY <2>1, <2>2 DEF Inv, Timely, Deliver
<1>18. QED
  BY <1>15, <1>16, <1>17 DEF Inv

\* The window tells the two parts apart.
LEMMA StoryParts ==
  ASSUME NEW b, NEW c, messages = b \o c, Block(b, protected), Dialogue(c, dynamic)
  PROVE  Protected(messages) = b /\ Candidates(messages) = c
<1>1. Laid(messages, b, c, protected, dynamic)
  BY DEF Laid
<1>2. Only(messages, protected) = b /\ Only(messages, ToSet(messages) \ protected) = c
  BY <1>1, PartsOf
<1>3. QED
  BY <1>2 DEF Protected, Candidates

\* The window leaves the memory and, of the conversation c, what it keeps, e.
Cuts(b, c, e) ==
  /\ b \in Seq(Messages) /\ e = Kept(c, MaxMessages - Len(b))
  /\ c \in Seq(Messages) /\ Block(b, protected)
  /\ Dialogue(e, dynamic) /\ CallsFirst(e) /\ Newer(e, said) /\ Asks(e, dynamic, turn)

LEMMA ReleaseCuts ==
  ASSUME Inv, Release
  PROVE  \E b, c, e : Cuts(b, c, e) /\ messages' = b \o e
<1>1. PICK b, c : Story(b, c)
  BY DEF Inv
<1>2. /\ Dialogue(c, dynamic) /\ CallsFirst(c) /\ Newer(c, said) /\ Asks(c, dynamic, turn)
      /\ Block(b, protected) /\ messages = b \o c /\ said \in Seq(Messages)
  BY <1>1 DEF Story, Release, Inv, Types
<1>3. b \in Seq(Messages) /\ Protected(messages) = b /\ Candidates(messages) = c
  <2>1. b \in Seq(Messages)
    BY <1>2, Parts
  <2>2. QED
    BY <1>2, <2>1, StoryParts
<1>4. PICK room : room = MaxMessages - Len(b)
  OBVIOUS
<1>5. PICK e : e = Kept(c, room)
  OBVIOUS
<1>6. /\ Dialogue(e, dynamic) /\ CallsFirst(e) /\ Newer(e, said) /\ Asks(e, dynamic, turn)
      /\ Len(e) = Len(c) => e = c
  BY <1>2, <1>5, KeptWhole
<1>7. messages' = b \o e
  <2>1. messages' = IF Len(b \o e) = Len(messages) THEN messages ELSE b \o e
    BY <1>3, <1>4, <1>5 DEF Release, Trim
  <2>2. Len(b \o e) = Len(messages) => e = c
    <3>1. c \in Seq(Messages) /\ e \in Seq(Messages)
      BY <1>2, <1>6 DEF Dialogue
    <3>2. Len(b \o e) = Len(b) + Len(e) /\ Len(b \o c) = Len(b) + Len(c)
      BY <1>3, <3>1, ConcatProperties
    <3>3. Len(b) \in Nat /\ Len(e) \in Nat /\ Len(c) \in Nat
      BY <1>3, <3>1
    <3>4. Len(b) + Len(e) = Len(b) + Len(c) => Len(e) = Len(c)
      BY <3>3
    <3>5. QED
      BY <1>2, <1>6, <3>2, <3>4
  <2>3. QED
    BY <1>2, <2>1, <2>2
<1>8. Cuts(b, c, e)
  BY <1>2, <1>3, <1>4, <1>5, <1>6 DEF Cuts, Dialogue
<1>9. QED
  BY <1>7, <1>8

LEMMA InvRelease == ASSUME Inv, Release PROVE Inv'
<1>1. PICK b, c, e : Cuts(b, c, e) /\ messages' = b \o e
  BY ReleaseCuts
<1>2. /\ Block(b, protected) /\ Dialogue(e, dynamic) /\ CallsFirst(e)
      /\ Newer(e, said) /\ Asks(e, dynamic, turn)
  BY <1>1 DEF Cuts
<1>3. Story(b, e)'
  BY <1>1, <1>2 DEF Story, Release
<1>4. request' \in Seq(Messages)
  <2>1. b \o e \in Seq(Messages)
    BY <1>2, Parts
  <2>2. QED
    BY <1>1, <2>1 DEF Release
<1>5. Types'
  BY <1>4 DEF Inv, Types, Points, Release, store
<1>6. Timely'
  <2>1. Unsaid' <=> Unsaid
    BY DEF Unsaid, Release, store
  <2>2. QED
    BY <2>1 DEF Inv, Timely, Release
<1>7. QED
  BY <1>3, <1>5, <1>6 DEF Inv

\* After the session's start only hydration adds to the memory, once.
LEMMA EarlyNext == ASSUME Early, [Next]_vars PROVE Early'
<1>1. CASE Hydrate
  BY <1>1 DEF Early, Hydrate, HydrationRead, HydrationFail, HydrationInstall, HydrationSkip
<1>2. CASE StartTurn \/ UserStopped \/ UserSilent \/ ProcessFrame \/ Deliver
  BY <1>2 DEF Early, StartTurn, UserStopped, UserSilent, ProcessFrame, Deliver
<1>3. CASE Release \/ ToolRound \/ Answer \/ Save \/ EndSession \/ UNCHANGED vars
  BY <1>3 DEF Early, Release, ToolRound, Answer, Save, EndSession, vars
<1>4. QED
  BY <1>1, <1>2, <1>3 DEF Next

\* The window protects all the memory that the session was given, and nothing else.
AllProtected == protected = WholeMemory

LEMMA AllProtectedInit == Init => AllProtected
<1> SUFFICES ASSUME Init PROVE AllProtected
  OBVIOUS
<1>1. hydration = "reading" /\ protected = ToSet(Memory("start", SessionBundle, <<>>))
  BY DEF Init
<1>2. QED
  BY <1>1 DEF AllProtected, WholeMemory

LEMMA AllProtectedNext == ASSUME AllProtected, [Next]_vars PROVE AllProtected'
<1>1. known' = known
  BY DEF Next, Hydrate, HydrationRead, HydrationFail, HydrationInstall, HydrationSkip,
     StartTurn, UserStopped, UserSilent, ProcessFrame, Deliver, Release, ToolRound, Answer,
     Save, EndSession, store, vars
<1>2. CASE HydrationInstall
  <2>1. PICK a, new : /\ a = ToSet(Memory("start", SessionBundle, <<>>))
                      /\ new = Memory("hydrated", HydratedBundle, recent)
    OBVIOUS
  <2>2. SessionBundle' = SessionBundle
    BY <1>1, <2>1 DEF SessionBundle
  <2>3. hydration = "read" /\ hydration' = "installed" /\ recent' = recent
    BY <1>2 DEF HydrationInstall
  <2>4. protected' = protected \cup ToSet(new)
    BY <1>2, <2>1 DEF HydrationInstall, ProtectMessages
  <2>5. protected = a
    BY <2>1, <2>3 DEF AllProtected, WholeMemory
  <2>6. WholeMemory' = a \cup ToSet(new)
    BY <1>1, <2>1, <2>2, <2>3 DEF WholeMemory, HydratedBundle
  <2>7. QED
    BY <2>4, <2>5, <2>6 DEF AllProtected
<1>3. CASE ~ HydrationInstall
  <2>1. /\ protected' = protected
        /\ hydration' = "installed" <=> hydration = "installed"
        /\ hydration = "installed" => recent' = recent
    BY <1>3 DEF Next, Hydrate, HydrationRead, HydrationFail, HydrationSkip, StartTurn,
       UserStopped, UserSilent, ProcessFrame, Deliver, Release, ToolRound, Answer, Save,
       EndSession, store, vars
  <2>2. SessionBundle' = SessionBundle /\ HydratedBundle' = HydratedBundle
    BY <1>1 DEF SessionBundle, HydratedBundle
  <2>3. WholeMemory' = WholeMemory
    BY <2>1, <2>2 DEF WholeMemory
  <2>4. QED
    BY <2>1, <2>3 DEF AllProtected
<1>4. QED
  BY <1>2, <1>3

LEMMA InvNext == ASSUME Inv, Early, [Next]_vars PROVE Inv'
<1>1. CASE Hydrate
  BY <1>1, InvRead, InvFail, InvInstall DEF Hydrate
<1>2. CASE StartTurn
  BY <1>2, InvStartTurn
<1>3. CASE UserStopped
  BY <1>3, InvUserStopped
<1>4. CASE UserSilent
  BY <1>4, InvSilent
<1>5. CASE ProcessFrame
  BY <1>5, InvProcessFrame
<1>6. CASE Deliver
  BY <1>6, InvDeliver
<1>7. CASE Release
  BY <1>7, InvRelease
<1>8. CASE ToolRound
  BY <1>8, InvToolRound
<1>9. CASE Answer
  BY <1>9, InvAnswer
<1>10. CASE Save
  BY <1>10, InvSave
<1>11. CASE EndSession
  BY <1>11, InvEnd
<1>12. CASE UNCHANGED vars
  <2>1. Types' /\ (Unsaid => Unsaid')
    BY <1>12 DEF Inv, Types, Unsaid, vars, store
  <2>2. QED
    BY <1>12, <2>1, InvRests DEF vars
<1>13. QED
  BY <1>1, <1>2, <1>3, <1>4, <1>5, <1>6, <1>7, <1>8, <1>9, <1>10, <1>11, <1>12 DEF Next

THEOREM SessionInvariant == Spec => []Inv
BY InvInit, InvNext, EarlyNext, PTL DEF Spec

-----------------------------------------------------------------------------
(* What the invariant says. *)

LEMMA InvTyped == ASSUME Inv PROVE TypeOK
<1>1. PICK b, c : Story(b, c)
  BY DEF Inv
<1>2. messages \in Seq(Messages)
  BY <1>1, Parts DEF Story
<1>3. protected \subseteq Messages
  <2>1. b \in Seq(Memories) /\ protected = ToSet(b)
    BY <1>1 DEF Story, Block
  <2>2. \A m \in protected : m \in Memories
    BY <2>1, InToSet
  <2>3. QED
    BY <2>2 DEF Memories
<1>4. dynamic \subseteq Messages
  BY DEF Inv, Timely
<1>5. QED
  BY <1>2, <1>3, <1>4 DEF Inv, Types, TypeOK

LEMMA InvInFront == ASSUME Inv PROVE MemoryInFront
<1>1. PICK b, c : Story(b, c)
  BY DEF Inv
<1>2. messages = b \o c /\ Block(b, protected) /\ Dialogue(c, dynamic)
  BY <1>1 DEF Story
<1>3. Protected(messages) = b /\ Candidates(messages) = c
  BY <1>2, StoryParts
<1>4. messages = Protected(messages) \o Candidates(messages)
  BY <1>2, <1>3
<1>5. \A m \in protected : m.text[1] # "turn"
  <2>1. b \in Seq(Memories) /\ protected = ToSet(b)
    BY <1>2 DEF Block
  <2>2. \A m \in protected : m \in Memories
    BY <2>1, InToSet
  <2>3. QED
    BY <2>2 DEF Memories
<1>6. QED
  BY <1>4, <1>5 DEF MemoryInFront

LEMMA InvBudgeted == ASSUME Inv PROVE MemoryBudgeted
<1>1. PICK b, c : Story(b, c)
  BY DEF Inv
<1>2. messages = b \o c /\ Block(b, protected) /\ Dialogue(c, dynamic)
  BY <1>1 DEF Story
<1>3. b \in Seq(Memories) /\ protected = ToSet(b) /\ TextsOnce(b) /\ Unquoted(b) /\ Sound(b)
  BY <1>2 DEF Block, Sound
<1>4. b \in Seq(Messages) /\ c \in Seq(Messages)
  BY <1>2, Parts
<1>5. PICK d : d = b \o c
  OBVIOUS
<1>6. /\ d \in Seq(Messages) /\ Len(d) = Len(b) + Len(c) /\ Len(b) \in Nat /\ Len(c) \in Nat
      /\ \A i \in 1..Len(b) : d[i] = b[i]
      /\ \A i \in 1..Len(c) : d[Len(b) + i] = c[i]
  BY <1>4, <1>5, Concat
<1>7. DOMAIN d = 1..Len(d)
  BY <1>6
<1>8. ASSUME NEW i \in DOMAIN d, d[i] \in protected
      PROVE  i \in 1..Len(b) /\ d[i] = b[i]
  <2>1. CASE i \in 1..Len(b)
    BY <1>6, <2>1
  <2>2. CASE i \notin 1..Len(b)
    <3>1. i - Len(b) \in 1..Len(c) /\ i = Len(b) + (i - Len(b))
      BY <1>6, <1>7, <2>2
    <3>2. d[i] = c[i - Len(b)]
      BY <1>6, <3>1
    <3>3. d[i].src \in {"turn", "dynamic"}
      BY <1>2, <3>1, <3>2 DEF Dialogue
    <3>4. PICK j \in 1..Len(b) : b[j] = d[i]
      BY <1>3, <1>8, InToSet
    <3>5. d[i].src \in {"start", "hydrated"}
      BY <1>3, <3>4 DEF Memories
    <3>6. QED
      BY <3>3, <3>5
  <2>3. QED
    BY <2>1, <2>2
<1>9. ASSUME NEW i \in DOMAIN d, NEW j \in DOMAIN d, d[i] \in protected, d[j] \in protected,
             i # j, d[i].src = d[j].src
      PROVE  d[i].text # d[j].text
  <2>1. i \in 1..Len(b) /\ j \in 1..Len(b) /\ d[i] = b[i] /\ d[j] = b[j]
    BY <1>8, <1>9
  <2>2. i < j \/ j < i
    BY <1>6, <1>9, <2>1
  <2>3. QED
    BY <1>3, <1>9, <2>1, <2>2 DEF TextsOnce
<1>10. ASSUME NEW m \in protected, NEW n \in protected,
              m.src = n.src, m.text[1] = "summary", n.role # "developer"
       PROVE  n.text \notin Summarised
  <2>1. PICK i, j \in 1..Len(b) : b[i] = m /\ b[j] = n
    BY <1>3, InToSet
  <2>2. QED
    BY <1>3, <1>10, <2>1 DEF Unquoted
<1>11. \A src \in {"start", "hydrated"} :
         Cardinality({m \in protected : m.src = src}) <= MemoryBudget
  BY <1>3 DEF Sound
<1>12. messages = d
  BY <1>2, <1>5
<1>13. QED
  BY <1>9, <1>10, <1>11, <1>12 DEF MemoryBudgeted

\* The end of a sequence, as the library says it.
LEMMA EndIsSuffix ==
  ASSUME NEW r \in Seq(Messages), NEW t \in Seq(Messages), EndOf(r, t)
  PROVE  IsSuffix(r, t)
<1>1. PICK u, v : u = Reverse(r) /\ v = Reverse(t)
  OBVIOUS
<1>2. PICK j, k \in Nat : j = Len(r) /\ k = Len(t) /\ j <= k
  BY DEF EndOf
<1>3. \A i \in 1..j : r[i] = t[i + (k - j)]
  BY <1>2 DEF EndOf
<1>4. u = [i \in 1..j |-> r[(j - i) + 1]] /\ v = [i \in 1..k |-> t[(k - i) + 1]]
  BY <1>1, <1>2 DEF Reverse
<1>5. u \in Seq(Messages) /\ Len(u) = j
  <2>1. \A i \in 1..j : r[(j - i) + 1] \in Messages
    BY <1>2
  <2>2. QED
    BY <1>2, <1>4, <2>1
<1>6. v \in Seq(Messages) /\ Len(v) = k
  <2>1. \A i \in 1..k : t[(k - i) + 1] \in Messages
    BY <1>2
  <2>2. QED
    BY <1>2, <1>4, <2>1
<1>7. ASSUME NEW i \in 1..j
      PROVE  u[i] = v[i]
  <2>1. (j - i) + 1 \in 1..j /\ ((j - i) + 1) + (k - j) = (k - i) + 1 /\ i \in 1..k
    BY <1>2
  <2>2. r[(j - i) + 1] = t[((j - i) + 1) + (k - j)]
    BY <1>3, <2>1
  <2>3. u[i] = r[(j - i) + 1] /\ v[i] = t[(k - i) + 1]
    BY <1>4, <2>1
  <2>4. QED
    BY <2>1, <2>2, <2>3
<1>8. SubSeq(u, 1, j) = SubSeq(v, 1, j)
  <2>1. /\ SubSeq(u, 1, j) \in Seq(Messages) /\ Len(SubSeq(u, 1, j)) = j
        /\ \A i \in 1..j : SubSeq(u, 1, j)[i] = u[i]
    <3>1. \A i \in 1..j : u[i] \in Messages
      BY <1>5
    <3>2. QED
      BY <1>2, <1>5, <3>1, SubSeqProperties
  <2>2. /\ SubSeq(v, 1, j) \in Seq(Messages) /\ Len(SubSeq(v, 1, j)) = j
        /\ \A i \in 1..j : SubSeq(v, 1, j)[i] = v[i]
    <3>1. \A i \in 1..j : v[i] \in Messages
      BY <1>2, <1>6
    <3>2. QED
      BY <1>2, <1>6, <3>1, SubSeqProperties
  <2>3. QED
    BY <1>7, <2>1, <2>2, SeqEqual
<1>9. IsPrefix(u, v)
  BY <1>2, <1>5, <1>6, <1>8 DEF IsPrefix
<1>10. QED
  BY <1>1, <1>9 DEF IsSuffix

LEMMA InvNoHole == ASSUME Inv PROVE NoHole
<1>1. PICK b, c : Story(b, c)
  BY DEF Inv
<1>2. /\ messages = b \o c /\ Block(b, protected) /\ Dialogue(c, dynamic)
      /\ CallsFirst(c) /\ Newer(c, said) /\ said \in Seq(Messages)
  BY <1>1 DEF Story, Inv, Types
<1>3. b \o c \in Seq(Messages) /\ b \in Seq(Messages) /\ c \in Seq(Messages)
  BY <1>2, Parts
<1>4. PICK d : d = b \o c
  OBVIOUS
<1>5. /\ d \in Seq(Messages) /\ Len(d) = Len(b) + Len(c) /\ Len(b) \in Nat /\ Len(c) \in Nat
      /\ \A i \in 1..Len(b) : d[i] = b[i]
      /\ \A i \in 1..Len(c) : d[Len(b) + i] = c[i]
  BY <1>3, <1>4, Concat
<1>6. \A i \in 1..Len(b) : b[i].src # "turn" /\ b[i].role # "tool"
  BY <1>2 DEF Block, Memories
<1>7. PICK U : U = {m \in ToSet(d) : m.src = "turn"}
  OBVIOUS
<1>8. PICK r : r = Own(c)
  OBVIOUS
<1>9. Only(d, U) = r
  <2>1. \A i \in 1..Len(d) : d[i] \in U <=> d[i] \in OfTurns
    <3>1. ASSUME NEW i \in 1..Len(d)
          PROVE  d[i] \in ToSet(d) /\ d[i] \in Messages
      BY <1>5, InToSet
    <3>2. QED
      BY <1>7, <3>1 DEF OfTurns
  <2>2. Only(d, U) = Own(d)
    BY <1>5, <2>1, OnlyAgree DEF Own
  <2>3. Own(d) = Own(b) \o Own(c)
    BY <1>3, <1>4, OwnConcat
  <2>4. Own(b) = <<>>
    <3>1. \A i \in 1..Len(b) : b[i] \notin OfTurns
      BY <1>6 DEF OfTurns
    <3>2. QED
      BY <1>3, <3>1, OnlyNone DEF Own
  <2>5. <<>> \o Own(c) = Own(c)
    BY <1>3, OwnTyped, ConcatEmptySeq
  <2>6. QED
    BY <1>8, <2>2, <2>3, <2>4, <2>5
<1>10. r \in Seq(Messages) /\ EndOf(r, said) /\ (said # <<>> => r # <<>> /\ r[1].role = "user")
  BY <1>2, <1>3, <1>8, OwnTyped DEF Newer
<1>11. IsSuffix(r, said)
  BY <1>2, <1>10, EndIsSuffix
<1>12. r # said => r # <<>> /\ r[1].role = "user"
  <2>1. said = <<>> => r = <<>>
    BY <1>10 DEF EndOf
  <2>2. QED
    BY <1>10, <2>1
<1>13. ASSUME NEW i \in DOMAIN d, d[i].role = "tool"
       PROVE  \E j \in 1..(i - 1) : d[j].role = "assistant" /\ d[j].text = d[i].text
  <2>1. i \in 1..Len(d)
    BY <1>5
  <2>2. i \notin 1..Len(b)
    BY <1>5, <1>6, <1>13
  <2>3. PICK k \in 1..Len(c) : i = Len(b) + k
    <3>1. i - Len(b) \in 1..Len(c) /\ i = Len(b) + (i - Len(b))
      BY <1>5, <2>1, <2>2
    <3>2. QED
      BY <3>1
  <2>4. d[i] = c[k]
    BY <1>5, <2>3
  <2>5. PICK j \in 1..(k - 1) : c[j].role = "assistant" /\ c[j].text = c[k].text
    BY <1>2, <1>13, <2>4 DEF CallsFirst, CallAt
  <2>6. Len(b) + j \in 1..(i - 1) /\ d[Len(b) + j] = c[j]
    BY <1>5, <2>3
  <2>7. QED
    BY <2>4, <2>5, <2>6
<1>14. messages = d /\ U = {m \in ToSet(messages) : m.src = "turn"}
  BY <1>2, <1>4, <1>7
<1>15. QED
  BY <1>9, <1>11, <1>12, <1>13, <1>14 DEF NoHole

LEMMA InvComplete == ASSUME Inv, AllProtected PROVE RequestComplete
<1> SUFFICES ASSUME point = "answering"
             PROVE  /\ Query(turn) \in ToSet(request)
                    /\ dynamic \subseteq ToSet(request)
                    /\ \A m \in ToSet(request) : m.src = "dynamic" => m.text[2] = turn
                    /\ WholeMemory \subseteq ToSet(request)
  BY DEF RequestComplete
<1>1. PICK b, c : Story(b, c)
  BY DEF Inv
<1>2. /\ messages = b \o c /\ Block(b, protected) /\ Dialogue(c, dynamic) /\ Asks(c, dynamic, turn)
  BY <1>1 DEF Story
<1>3. b \in Seq(Messages) /\ c \in Seq(Messages)
  BY <1>2, Parts
<1>4. PICK d : d = b \o c
  OBVIOUS
<1>5. /\ d \in Seq(Messages) /\ Len(d) = Len(b) + Len(c) /\ Len(b) \in Nat /\ Len(c) \in Nat
      /\ \A i \in 1..Len(b) : d[i] = b[i]
      /\ \A i \in 1..Len(c) : d[Len(b) + i] = c[i]
  BY <1>3, <1>4, Concat
<1>6. request = d
  BY <1>2, <1>4 DEF Inv, Timely
<1>7. \A i \in 1..Len(b) : b[i] \in ToSet(d)
  <2>1. ASSUME NEW i \in 1..Len(b)
        PROVE  i \in 1..Len(d) /\ d[i] = b[i]
    BY <1>5
  <2>2. QED
    BY <1>5, <2>1, InToSet
<1>8. \A i \in 1..Len(c) : c[i] \in ToSet(d)
  <2>1. ASSUME NEW i \in 1..Len(c)
        PROVE  Len(b) + i \in 1..Len(d) /\ d[Len(b) + i] = c[i]
    BY <1>5
  <2>2. QED
    BY <1>5, <2>1, InToSet
<1>9. PICK q \in 1..Len(c) : AskedAt(c, dynamic, turn, q)
  BY <1>2 DEF Asks
<1>10. Query(turn) \in ToSet(d)
  BY <1>8, <1>9 DEF AskedAt
<1>11. dynamic \subseteq ToSet(d)
  <2>1. ASSUME NEW m \in dynamic
        PROVE  m \in ToSet(d)
    <3>1. PICK k \in (q + 1)..Len(c) : c[k] = m
      BY <1>9 DEF AskedAt
    <3>2. k \in 1..Len(c)
      BY <1>5
    <3>3. QED
      BY <1>8, <3>1, <3>2
  <2>2. QED
    BY <2>1
<1>12. ASSUME NEW m \in ToSet(d), m.src = "dynamic"
       PROVE  m.text[2] = turn
  <2>1. PICK i \in 1..Len(d) : d[i] = m
    BY <1>5, InToSet
  <2>2. i \notin 1..Len(b)
    <3>1. \A j \in 1..Len(b) : b[j].src # "dynamic"
      <4>1. b \in Seq(Memories)
        BY <1>2 DEF Block
      <4>2. QED
        BY <4>1 DEF Memories
    <3>2. QED
      BY <1>5, <1>12, <2>1, <3>1
  <2>3. i - Len(b) \in 1..Len(c) /\ i = Len(b) + (i - Len(b))
    BY <1>5, <2>2
  <2>4. c[i - Len(b)] = m
    BY <1>5, <2>1, <2>3
  <2>5. m \in dynamic
    BY <1>2, <1>12, <2>3, <2>4 DEF Dialogue
  <2>6. QED
    BY <2>5 DEF Inv, Timely
<1>13. ASSUME NEW m \in protected
       PROVE  m \in ToSet(d)
  <2>1. m \in ToSet(b)
    BY <1>2 DEF Block
  <2>2. QED
    BY <1>3, <1>7, <2>1, InToSet
<1>14. WholeMemory \subseteq ToSet(d)
  BY <1>13 DEF AllProtected
<1>15. QED
  BY <1>6, <1>10, <1>11, <1>12, <1>14

-----------------------------------------------------------------------------
(* The window's limit, which only a release sets and only a tool's result passes. *)

LEMMA BoundedRelease == ASSUME Inv, Release PROVE RequestBounded'
<1>1. PICK b, c, e : Cuts(b, c, e) /\ messages' = b \o e
  BY ReleaseCuts
<1>2. /\ b \in Seq(Messages) /\ c \in Seq(Messages) /\ e = Kept(c, MaxMessages - Len(b))
      /\ Block(b, protected) /\ Dialogue(e, dynamic) /\ e \in Seq(Messages)
  BY <1>1 DEF Cuts, Dialogue
<1>3. PICK d : d = b \o e
  OBVIOUS
<1>4. Len(d) = Len(b) + Len(e) /\ Len(b) \in Nat /\ Len(e) \in Nat
  BY <1>2, <1>3, Concat
<1>5. PICK room : room = MaxMessages - Len(b)
  OBVIOUS
<1>6. room \in Int
  BY <1>4, <1>5, LimitsOK
<1>7. Len(e) <= room \/ \A i \in 2..Len(e) : e[i].role # "user"
  BY <1>2, <1>5, <1>6, KeptFits
<1>8. Laid(d, b, e, protected, dynamic)
  BY <1>2, <1>3 DEF Laid
<1>9. Only(d, ToSet(d) \ protected) = e
  BY <1>8, PartsOf
<1>10. request' = d /\ protected' = protected
  BY <1>1, <1>3 DEF Release
<1>11. Candidates(request)' = e
  BY <1>9, <1>10 DEF Candidates
<1>12. Len(e) <= room => Len(d) <= MaxMessages
  BY <1>4, <1>5, LimitsOK
<1>13. QED
  BY <1>7, <1>10, <1>11, <1>12 DEF RequestBounded

\* Steps that leave what the model answers alone, or no answer.
LEMMA BoundedRests ==
  ASSUME RequestBounded,
         \/ point' # "answering"
         \/ UNCHANGED <<protected, turn, point, request, said>>
  PROVE  RequestBounded'
BY DEF RequestBounded, Candidates

LEMMA BoundedNext == ASSUME Inv, RequestBounded, [Next]_vars PROVE RequestBounded'
<1>1. CASE HydrationInstall
  BY <1>1, InstallsFirst, BoundedRests DEF HydrationInstall
<1>2. CASE HydrationRead \/ HydrationFail \/ HydrationSkip
  BY <1>2, BoundedRests DEF HydrationRead, HydrationFail, HydrationSkip
<1>3. CASE StartTurn \/ UserStopped \/ UserSilent \/ ProcessFrame \/ Deliver
  <2>1. point' # "answering"
    BY <1>3 DEF StartTurn, UserStopped, UserSilent, ProcessFrame, Deliver
  <2>2. QED
    BY <2>1, BoundedRests
<1>4. CASE Answer \/ EndSession
  BY <1>4, BoundedRests DEF Answer, EndSession
<1>5. CASE Save \/ UNCHANGED vars
  BY <1>5, BoundedRests DEF Save, vars
<1>6. CASE Release
  BY <1>6, BoundedRelease
<1>7. CASE ToolRound
  <2>1. PICK x, y : x = Said("assistant", <<"call", turn>>) /\ y = Said("tool", <<"call", turn>>)
    OBVIOUS
  <2>2. said' = said \o <<x, y>> /\ turn' = turn
    BY <1>7, <2>1 DEF ToolRound
  <2>3. said \in Seq(Messages) /\ <<x, y>> \in Seq({x, y}) /\ Len(<<x, y>>) = 2 /\ <<x, y>>[1] = x
    BY DEF Inv, Types
  <2>4. PICK u, v : u = said \o <<x, y>> /\ v = <<x, y>>
    OBVIOUS
  <2>5. x \in ToSet(u)
    <3>1. said \in Seq(Messages \cup {x, y}) /\ v \in Seq(Messages \cup {x, y})
      BY <2>3, <2>4
    <3>2. \A z : z \in ToSet(u) <=> z \in ToSet(said) \/ z \in ToSet(v)
      BY <2>4, <3>1, SetOfConcat
    <3>3. x \in ToSet(v)
      <4>1. 1 \in 1..Len(v) /\ v[1] = x
        BY <2>3, <2>4
      <4>2. QED
        BY <3>1, <4>1, InToSet
    <3>4. QED
      BY <3>2, <3>3
  <2>6. QED
    BY <2>1, <2>2, <2>4, <2>5 DEF RequestBounded
<1>8. QED
  BY <1>1, <1>2, <1>3, <1>4, <1>5, <1>6, <1>7 DEF Next, Hydrate

-----------------------------------------------------------------------------
(* What the memory tells twice. *)

\* The start knows the summary at most.
StartKnows == \A m \in protected : m.src = "start" => m.text[1] = "summary"

\* Of the texts of both reads, only the summary's may come twice.
OnceButSummary ==
  \A i, j \in DOMAIN messages :
    i # j /\ messages[i] \in protected /\ messages[j] \in protected
    /\ messages[i].text = messages[j].text => messages[i].text[1] = "summary"

LEMMA StartReads ==
  ASSUME NEW has \in SUBSET {"summary"}, NEW b, b = Memory("start", has, <<>>)
  PROVE  \A i \in 1..Len(b) : b[i].text[1] = "summary"
<1>1. PICK w : w = Only(<<"facts", "summary">>, has)
  OBVIOUS
<1>2. PICK s : s = [i \in DOMAIN w |-> Message("start", "developer", <<w[i], 0>>)]
  OBVIOUS
<1>3. s \in Seq(Memories)
  BY <1>1, <1>2, DeveloperParts
<1>4. PICK q : q = <<"facts", "summary">>
  OBVIOUS
<1>5. w \in Seq({"facts", "summary"} \cap has)
  <2>1. q \in Seq({"facts", "summary"})
    BY <1>4
  <2>2. QED
    BY <1>1, <1>4, <2>1, OnlyTyped
<1>6. DOMAIN w = 1..Len(w) /\ Len(w) \in Nat /\ \A i \in 1..Len(w) : w[i] = "summary"
  BY <1>5
<1>7. DOMAIN s = 1..Len(w) /\ \A i \in 1..Len(w) : s[i] = Message("start", "developer", <<w[i], 0>>)
  BY <1>2, <1>6
<1>8. \A i \in 1..Len(w) : Message("start", "developer", <<w[i], 0>>).text[1] = "summary"
  BY <1>6 DEF Message
<1>9. \A i \in 1..Len(s) : s[i].text[1] = "summary"
  <2>1. DOMAIN s = 1..Len(s)
    BY <1>3
  <2>2. QED
    BY <1>7, <1>8, <2>1
<1>10. PICK t : t = [i \in DOMAIN <<>> |-> Message("start", <<>>[i].role, <<>>[i].text)]
  OBVIOUS
<1>11. t \in Seq(Memories) /\ Len(t) = 0
  BY <1>10
<1>12. b = Budgeted(s, t)
  BY <1>1, <1>2, <1>10 DEF Memory
<1>13. PICK h \in Seq(Memories), p \in Seq(Memories) : \E e : PartedAs(b, s, t, h, p, e)
  <2>1. t \in Seq(Memories)
    BY <1>11
  <2>2. Parted(Memories, Budgeted(s, t), s, t)
    BY <1>3, <2>1, BudgetedIs
  <2>3. Parted(Memories, b, s, t)
    BY <1>12, <2>2
  <2>4. QED
    BY <2>3 DEF Parted
<1>14. PICK e : PartedAs(b, s, t, h, p, e)
  BY <1>13
<1>15. Len(p) = 0
  <2>1. Fresh(t, h) = {}
    <3>1. DOMAIN t = {}
      BY <1>10
    <3>2. QED
      BY <3>1 DEF Fresh
  <2>2. \A i \in 1..Len(p) : e[i] \in Fresh(t, h)
    BY <1>14 DEF PartedAs, Picked
  <2>3. Len(p) \in Nat
    BY <1>13
  <2>4. QED
    BY <2>1, <2>2, <2>3
<1>16. /\ Len(b) = Len(h) + Len(p) /\ Len(h) \in Nat
       /\ \A i \in 1..Len(h) : b[i] = h[i]
  BY <1>13, <1>14, Concat DEF PartedAs
<1>17. \A i \in 1..Len(h) : i \in 1..Len(s) /\ h[i] = s[i]
  BY <1>3, <1>14, <1>16 DEF PartedAs
<1>18. QED
  BY <1>9, <1>15, <1>16, <1>17

LEMMA StartKnowsInit == Init => StartKnows
<1> SUFFICES ASSUME Init PROVE StartKnows
  OBVIOUS
<1>1. messages = Memory("start", SessionBundle, <<>>) /\ protected = ToSet(messages)
  BY DEF Init
<1>2. SessionBundle \in SUBSET {"summary"}
  BY DEF SessionBundle
<1>3. messages \in Seq(Memories)
  <2>1. <<>> \in Seq(OldStores)
    OBVIOUS
  <2>2. QED
    BY <1>1, <2>1, MemoryTyped
<1>4. \A i \in 1..Len(messages) : messages[i].text[1] = "summary"
  BY <1>1, <1>2, StartReads
<1>5. QED
  BY <1>1, <1>3, <1>4, InToSet DEF StartKnows

LEMMA StartKnowsNext == ASSUME Inv, StartKnows, [Next]_vars PROVE StartKnows'
<1>1. CASE HydrationInstall
  <2>1. PICK new : new = Memory("hydrated", HydratedBundle, recent)
    OBVIOUS
  <2>2. recent \in Seq(OldStores)
    BY <1>1, InstallsFirst DEF Inv, Timely, Unsaid
  <2>3. new \in Seq(Memories) /\ \A i \in 1..Len(new) : new[i].src = "hydrated"
    BY <2>1, <2>2, MemoryRead DEF ReadOf
  <2>4. protected' = protected \cup ToSet(new)
    BY <1>1, <2>1 DEF HydrationInstall, ProtectMessages
  <2>5. \A m \in ToSet(new) : m.src = "hydrated"
    BY <2>3, InToSet
  <2>6. QED
    BY <2>4, <2>5 DEF StartKnows
<1>2. CASE ~ HydrationInstall
  <2>1. protected' = protected
    BY <1>2 DEF Next, Hydrate, HydrationRead, HydrationFail, HydrationSkip, StartTurn,
       UserStopped, UserSilent, ProcessFrame, Deliver, Release, ToolRound, Answer, Save,
       EndSession, vars
  <2>2. QED
    BY <2>1 DEF StartKnows
<1>3. QED
  BY <1>1, <1>2

LEMMA InvOnce == ASSUME Inv, StartKnows PROVE OnceButSummary
<1>1. TypeOK /\ MemoryBudgeted
  BY InvTyped, InvBudgeted
<1>2. ASSUME NEW m \in protected
      PROVE  m.src \in {"start", "hydrated"}
  <2>1. PICK b, c : Story(b, c)
    BY DEF Inv
  <2>2. b \in Seq(Memories) /\ protected = ToSet(b)
    BY <2>1 DEF Story, Block
  <2>3. m \in Memories
    BY <2>2, InToSet
  <2>4. QED
    BY <2>3 DEF Memories
<1>3. ASSUME NEW i \in DOMAIN messages, NEW j \in DOMAIN messages, i # j,
             messages[i] \in protected, messages[j] \in protected,
             messages[i].text = messages[j].text
      PROVE  messages[i].text[1] = "summary"
  <2>1. messages[i].src # messages[j].src
    BY <1>1, <1>3 DEF MemoryBudgeted
  <2>2. messages[i].src = "start" \/ messages[j].src = "start"
    BY <1>2, <1>3, <2>1
  <2>3. QED
    BY <1>3, <2>2 DEF StartKnows
<1>4. QED
  BY <1>3 DEF OnceButSummary

-----------------------------------------------------------------------------
(* The results. *)

\* Every variable stays in its type, the memory and the context among them
\* (BoundedContextProcessor, install_optional_memory).
THEOREM SessionTypeCorrect == Spec => []TypeOK
BY SessionInvariant, InvTyped, PTL

\* However many messages and turns: the memory is one block in front of the
\* conversation and never has a message of the running session (main.py:155-172);
\* and whatever the budget, what is read of it at one time keeps it, with each text
\* once and no message that its summary quotes (services/memory.py:372-424).
THEOREM MemoryIsSound == Spec => []MemorySound
<1>1. Inv => MemorySound
  BY InvInFront, InvBudgeted DEF MemorySound
<1>2. QED
  BY <1>1, SessionInvariant, PTL

\* Of both reads only the summary may be in the context twice, which the run
\* session_context_memory shows (services/memory.py:376, main.py:144, 171).
THEOREM OnlySummaryTwice == Spec => []OnceButSummary
BY StartKnowsInit, StartKnowsNext, SessionInvariant, InvOnce, PTL DEF Spec

\* Whatever the limits, the model sees the newest part of the session without a
\* hole, from a user's words on (BoundedContextProcessor.trim).
THEOREM WindowLeavesNoHole == Spec => []NoHole
BY SessionInvariant, InvNoHole, PTL

\* A request has its query, what was retrieved for it and all the memory, what the
\* session started with and what hydration installed of facts and recent messages,
\* and nothing of another turn's retrieval, whatever the window dropped; and the
\* window kept its limit, or one turn is all it left (main.py:155-172,
\* processors.py:489-535).  The memory is counted from what was read of it, not from
\* what the window protects: that the two are the same is the invariant AllProtected.
THEOREM RequestsAreSound == Spec => []RequestSound
<1>1. Init => RequestBounded
  BY DEF Init, RequestBounded
<1>2. Spec => []RequestBounded
  BY <1>1, BoundedNext, SessionInvariant, PTL DEF Spec
<1>3. RequestComplete /\ RequestBounded => RequestSound
  BY DEF RequestSound
<1>4. Spec => []AllProtected
  BY AllProtectedInit, AllProtectedNext, PTL DEF Spec
<1>5. QED
  BY <1>2, <1>3, <1>4, InvComplete, SessionInvariant, PTL
=============================================================================
