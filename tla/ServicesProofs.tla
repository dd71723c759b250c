---------------------------- MODULE ServicesProofs ----------------------------
(***************************************************************************)
(* Proofs about the parts behind a voice session: the embeddings that        *)
(* concurrent callers share, the tool calls of a session and what the user   *)
(* is told of them, and what the messages of a user leave in memory; and of   *)
(* the whole they make up with the documents of CorpusProofs.                *)
(***************************************************************************)
EXTENDS MCServices, CorpusProofs, SubsequencesProofs, FiniteSetTheorems, TLAPS

(***************************************************************************)
(* EmbeddingCache.  A task is named by the call that created it, so that     *)
(* calls share one only if what the table holds, what a call waits for and   *)
(* who created it agree in their text.                                       *)
(***************************************************************************)

CallTypes ==
  /\ caller \in [Callers -> [text : Texts,
                             state : {"idle", "waiting", "cancelled"} \cup Answers,
                             on : Callers \cup {NoCall}]]
  /\ provider \in [Callers -> {"none", "running", "raised"} \cup Answers]
  /\ flying \in [Texts -> Callers \cup {NoCall}]
  /\ gaveUp \subseteq Callers

\* What the table holds was created by a call of that text.
TableOfCalls ==
  \A t \in Texts : flying[t] # NoCall => provider[flying[t]] # "none" /\ caller[flying[t]].text = t

\* A task was created by a call that waits for it, or has waited.
TaskOfCall ==
  \A c \in Callers :
    /\ provider[c] # "none" => caller[c].on = c /\ caller[c].state # "idle"
    /\ provider[c] = "running" => flying[caller[c].text] = c

\* A call waits for a task of its own text.
WaitsForOwnText ==
  \A c \in Callers :
    /\ caller[c].on = NoCall => caller[c].state \in {"idle", "vector"}
    /\ caller[c].state = "idle" => caller[c].on = NoCall
    /\ caller[c].on # NoCall =>
         provider[caller[c].on] # "none" /\ caller[caller[c].on].text = caller[c].text

\* Who has resumed found the task done, and took it out of the table.
TookOut ==
  \A c \in Callers :
    caller[c].on # NoCall /\ caller[c].state # "waiting" /\ c \notin gaveUp =>
      provider[caller[c].on] # "running" /\ flying[caller[c].text] # caller[c].on

EmbedInv ==
  CallTypes /\ TableOfCalls /\ TaskOfCall /\ WaitsForOwnText /\ TookOut /\ OwnCancellation

LEMMA InvShares == EmbedInv => SharedSafely
<1> SUFFICES ASSUME EmbedInv PROVE SharedSafely
  OBVIOUS
<1> USE EmbeddingAssumption DEF EmbedInv, CallTypes
<1>1. OneCallPerText
  BY DEF OneCallPerText, TaskOfCall
<1>2. LeftBehind
  <2> SUFFICES ASSUME NEW t \in Texts, flying[t] # NoCall, provider[flying[t]] # "running",
                      NEW c \in Callers, caller[c].on = flying[t],
                      caller[c].state # "waiting", c \notin gaveUp
               PROVE  FALSE
    BY DEF LeftBehind
  <2>1. caller[c].on # NoCall /\ caller[c].on \in Callers
    OBVIOUS
  <2>2. caller[caller[c].on].text = caller[c].text
    BY <2>1 DEF WaitsForOwnText
  <2>3. caller[flying[t]].text = t
    BY DEF TableOfCalls
  <2>4. QED
    BY <2>1, <2>2, <2>3 DEF TookOut
<1>3. QED
  BY <1>1, <1>2 DEF SharedSafely

LEMMA InitEmbed == EmbedInit => EmbedInv
<1> SUFFICES ASSUME EmbedInit PROVE EmbedInv
  OBVIOUS
<1> PICK own \in [Callers -> Texts] :
      caller = [c \in Callers |-> [text |-> own[c], state |-> "idle", on |-> NoCall]]
  BY DEF EmbedInit
<1> QED
  BY DEF EmbedInit, EmbedInv, CallTypes, TableOfCalls, TaskOfCall, WaitsForOwnText, TookOut,
         OwnCancellation, Answers

\* A call moves: its text stays, and so does every other call.
LEMMA Entered ==
  ASSUME CallTypes, NEW c \in Callers, NEW state \in {"waiting", "cancelled"} \cup Answers,
         NEW on \in Callers \cup {NoCall}, Enters(c, state, on)
  PROVE  /\ caller' \in [Callers -> [text : Texts,
                                     state : {"idle", "waiting", "cancelled"} \cup Answers,
                                     on : Callers \cup {NoCall}]]
         /\ \A d \in Callers : caller'[d].text = caller[d].text
         /\ \A d \in Callers \ {c} : caller'[d] = caller[d]
         /\ caller'[c].state = state /\ caller'[c].on = on
BY DEF CallTypes, Enters

LEMMA EmbedHit == EmbedInv /\ (\E c \in Callers : Hit(c)) => EmbedInv'
<1> SUFFICES ASSUME EmbedInv, NEW c \in Callers, Hit(c) PROVE EmbedInv'
  OBVIOUS
<1> USE EmbeddingAssumption DEF EmbedInv
<1>1. /\ caller' = [caller EXCEPT ![c].state = "vector", ![c].on = NoCall]
      /\ caller[c].state = "idle"
      /\ UNCHANGED <<provider, flying, gaveUp>>
  BY DEF Hit, Enters
<1>2. CallTypes'
  BY ZenonT(40), <1>1 DEF CallTypes, Answers
<1>3. provider[c] = "none"
  BY <1>1 DEF TaskOfCall
<1>4. \A d \in Callers : caller'[d].text = caller[d].text
  BY <1>1 DEF CallTypes
<1>5. \A d \in Callers \ {c} : caller'[d] = caller[d]
  BY <1>1 DEF CallTypes
<1>6. caller'[c].state = "vector" /\ caller'[c].on = NoCall
  BY <1>1 DEF CallTypes
<1>7. TableOfCalls'
  BY <1>1, <1>4 DEF TableOfCalls, CallTypes
<1>8. TaskOfCall'
  BY <1>1, <1>3, <1>4, <1>5 DEF TaskOfCall, CallTypes
<1>9. WaitsForOwnText'
  BY <1>1, <1>4, <1>5, <1>6 DEF WaitsForOwnText, CallTypes
<1>10. TookOut' /\ OwnCancellation'
  BY <1>1, <1>5, <1>6 DEF TookOut, OwnCancellation, CallTypes
<1>11. QED
  BY <1>2, <1>7, <1>8, <1>9, <1>10

LEMMA EmbedAsk == EmbedInv /\ (\E c \in Callers : Ask(c)) => EmbedInv'
<1> SUFFICES ASSUME EmbedInv, NEW c \in Callers, Ask(c) PROVE EmbedInv'
  OBVIOUS
<1> DEFINE t == caller[c].text
           shared == IF flying[t] = NoCall THEN c ELSE flying[t]
<1> USE EmbeddingAssumption DEF EmbedInv
<1>1. /\ caller' = [caller EXCEPT ![c].state = "waiting", ![c].on = shared]
      /\ caller[c].state = "idle"
      /\ flying' = [flying EXCEPT ![t] = shared]
      /\ provider' = IF shared = c THEN [provider EXCEPT ![c] = "running"] ELSE provider
      /\ gaveUp' = gaveUp
  BY DEF Ask, Enters
<1>2. t \in Texts /\ shared \in Callers
  BY DEF CallTypes
<1>3. provider[c] = "none" /\ \A d \in Callers : caller[d].on # c
  BY <1>1 DEF TaskOfCall, WaitsForOwnText
<1>4. Enters(c, "waiting", shared)
  BY DEF Ask
<1>5. /\ caller' \in [Callers -> [text : Texts,
                                  state : {"idle", "waiting", "cancelled"} \cup Answers,
                                  on : Callers \cup {NoCall}]]
      /\ \A d \in Callers : caller'[d].text = caller[d].text
      /\ \A d \in Callers \ {c} : caller'[d] = caller[d]
      /\ caller'[c].state = "waiting" /\ caller'[c].on = shared
  <2> HIDE DEF shared
  <2>1. QED
    BY <1>2, <1>4, Entered
<1>6. CallTypes'
  <2>1. provider' \in [Callers -> {"none", "running", "raised"} \cup Answers]
    BY <1>1 DEF CallTypes
  <2>2. flying' \in [Texts -> Callers \cup {NoCall}]
    BY <1>1, <1>2 DEF CallTypes
  <2>3. QED
    BY <1>1, <1>5, <2>1, <2>2 DEF CallTypes
<1>7. /\ \A u \in Texts \ {t} : flying'[u] = flying[u]
      /\ flying'[t] = shared
      /\ \A d \in Callers \ {c} : provider'[d] = provider[d]
  BY <1>1 DEF CallTypes
<1>8. CASE shared = c
  <2>1. flying[t] = NoCall /\ provider'[c] = "running"
    BY <1>1, <1>3, <1>8 DEF TableOfCalls, CallTypes
  <2>2. TableOfCalls'
    BY <1>2, <1>5, <1>6, <1>7, <1>8, <2>1 DEF TableOfCalls, CallTypes
  <2>3. TaskOfCall'
    <3>1. \A d \in Callers \ {c} : provider[d] = "running" => caller[d].text # t
      BY <2>1 DEF TaskOfCall, CallTypes
    <3>2. QED
      BY <1>2, <1>5, <1>7, <1>8, <2>1, <3>1 DEF TaskOfCall, CallTypes
  <2>4. WaitsForOwnText'
    BY <1>3, <1>5, <1>7, <1>8, <2>1 DEF WaitsForOwnText, CallTypes
  <2>5. TookOut'
    BY <1>1, <1>3, <1>5, <1>7, <1>8, <2>1 DEF TookOut, CallTypes
  <2>6. OwnCancellation'
    BY <1>1, <1>3, <1>5, <1>7 DEF OwnCancellation, CallTypes, WaitsForOwnText
  <2>7. QED
    BY <1>6, <2>2, <2>3, <2>4, <2>5, <2>6
<1>9. CASE shared # c
  <2>1. flying[t] = shared /\ provider' = provider /\ flying' = flying
    BY <1>1, <1>2, <1>7, <1>9 DEF CallTypes
  <2>2. provider[shared] # "none" /\ caller[shared].text = t
    BY <1>2, <2>1 DEF TableOfCalls
  <2>3. TableOfCalls'
    BY <1>5, <2>1 DEF TableOfCalls, CallTypes
  <2>4. TaskOfCall'
    BY <1>3, <1>5, <2>1 DEF TaskOfCall, CallTypes
  <2>5. WaitsForOwnText'
    <3> HIDE DEF shared, t
    <3>1. \A d \in Callers \ {c} :
            /\ caller'[d].on = NoCall => caller'[d].state \in {"idle", "vector"}
            /\ caller'[d].state = "idle" => caller'[d].on = NoCall
            /\ caller'[d].on # NoCall =>
                 provider'[caller'[d].on] # "none"
                 /\ caller'[caller'[d].on].text = caller'[d].text
      BY <1>5, <2>1 DEF WaitsForOwnText, CallTypes
    <3>2. shared # NoCall /\ caller'[shared].text = caller'[c].text
      <4>1. caller'[shared].text = caller[shared].text /\ caller'[c].text = caller[c].text
        BY <1>2, <1>5
      <4>2. t = caller[c].text
        BY DEF t
      <4>3. QED
        BY <1>2, <2>2, <4>1, <4>2
    <3>3. QED
      BY <1>5, <2>1, <2>2, <3>1, <3>2 DEF WaitsForOwnText
  <2>6. gaveUp' = gaveUp /\ caller'[c].state = "waiting"
    BY <1>1, <1>5
  <2>7. TookOut'
    <3> HIDE DEF shared, t
    <3> QED
      BY <1>5, <2>1, <2>6 DEF TookOut
  <2>8. OwnCancellation'
    <3> HIDE DEF shared, t
    <3> QED
      BY <1>5, <2>1, <2>6 DEF OwnCancellation
  <2>9. QED
    BY <1>6, <2>3, <2>4, <2>5, <2>7, <2>8
<1>10. QED
  BY <1>8, <1>9

LEMMA EmbedAnswer == EmbedInv /\ (\E c \in Callers : Answer(c)) => EmbedInv'
<1> SUFFICES ASSUME EmbedInv, NEW c \in Callers, Answer(c) PROVE EmbedInv'
  OBVIOUS
<1> USE EmbeddingAssumption DEF EmbedInv
<1>1. PICK outcome \in Answers \cup {"raised"} : provider' = [provider EXCEPT ![c] = outcome]
  BY DEF Answer
<1>2. /\ provider[c] = "running" /\ outcome \notin {"running", "none"}
      /\ UNCHANGED <<caller, flying, gaveUp>>
  BY DEF Answer, Answers
<1>3. /\ provider'[c] = outcome
      /\ \A d \in Callers \ {c} : provider'[d] = provider[d]
  BY <1>1 DEF CallTypes
<1>4. CallTypes'
  BY <1>1, <1>2 DEF CallTypes
<1>5. TableOfCalls' /\ TaskOfCall' /\ WaitsForOwnText' /\ TookOut'
  BY <1>2, <1>3 DEF TableOfCalls, TaskOfCall, WaitsForOwnText, TookOut, CallTypes
<1>6. OwnCancellation'
  BY <1>2, <1>3 DEF OwnCancellation, WaitsForOwnText, CallTypes
<1>7. QED
  BY <1>4, <1>5, <1>6

\* Only what is done leaves the table.
LEMMA OnlyDoneLeaves ==
  ASSUME CallTypes, NEW t \in Texts, NEW shared \in Callers, flying' = LeftTable(t, shared)
  PROVE  /\ flying' \in [Texts -> Callers \cup {NoCall}]
         /\ \A u \in Texts : flying'[u] \in {flying[u], NoCall}
         /\ \A u \in Texts : flying'[u] # flying[u] => provider[flying[u]] # "running"
         /\ provider[shared] # "running" => flying'[t] # shared
BY EmbeddingAssumption DEF CallTypes, LeftTable

LEMMA EmbedLeaves ==
  ASSUME EmbedInv, NEW c \in Callers, NEW state \in {"cancelled"} \cup Answers,
         caller[c].state = "waiting",
         Enters(c, state, caller[c].on),
         flying' = LeftTable(caller[c].text, caller[c].on),
         provider' = provider,
         \/ gaveUp' = gaveUp \cup {c}
         \/ /\ gaveUp' = gaveUp /\ provider[caller[c].on] # "running"
            /\ state = "cancelled" => provider[caller[c].on] = "raised"
  PROVE  EmbedInv'
<1> USE EmbeddingAssumption DEF EmbedInv
<1>1. caller[c].on \in Callers /\ caller[c].text \in Texts
  BY DEF WaitsForOwnText, CallTypes
<1>2. CallTypes'
  <2>1. flying' \in [Texts -> Callers \cup {NoCall}]
    BY <1>1, OnlyDoneLeaves
  <2>2. QED
    BY <1>1, <2>1, Entered DEF CallTypes
<1>3. /\ \A d \in Callers : caller'[d].text = caller[d].text /\ caller'[d].on = caller[d].on
      /\ \A d \in Callers \ {c} : caller'[d] = caller[d]
      /\ caller'[c].state = state
  <2>1. PICK on \in Callers : on = caller[c].on
    BY <1>1
  <2>2. CallTypes /\ Enters(c, state, on)
    BY <2>1
  <2>3. /\ \A d \in Callers : caller'[d].text = caller[d].text
        /\ \A d \in Callers \ {c} : caller'[d] = caller[d]
        /\ caller'[c].state = state /\ caller'[c].on = on
    BY <2>2, Entered
  <2>4. QED
    BY <2>1, <2>3
<1>4. state # "idle" /\ state # "waiting"
  BY DEF Answers
<1>5. /\ \A u \in Texts : flying'[u] \in {flying[u], NoCall}
      /\ \A u \in Texts : flying'[u] # flying[u] => provider[flying[u]] # "running"
      /\ provider[caller[c].on] # "running" => flying'[caller[c].text] # caller[c].on
  BY <1>1, OnlyDoneLeaves
<1>6. TableOfCalls'
  BY <1>3, <1>5 DEF TableOfCalls, CallTypes
<1>7. TaskOfCall'
  BY <1>3, <1>4, <1>5 DEF TaskOfCall, CallTypes
<1>8. WaitsForOwnText'
  BY <1>1, <1>3, <1>4 DEF WaitsForOwnText, CallTypes
<1>9. TookOut'
  BY <1>1, <1>3, <1>5 DEF TookOut, CallTypes
<1>10. OwnCancellation'
  BY <1>3 DEF OwnCancellation, CallTypes
<1>11. QED
  BY <1>2, <1>6, <1>7, <1>8, <1>9, <1>10

LEMMA EmbedCancelCaller == EmbedInv /\ (\E c \in Callers : CancelCaller(c)) => EmbedInv'
<1> SUFFICES ASSUME EmbedInv, NEW c \in Callers, CancelCaller(c) PROVE EmbedInv'
  OBVIOUS
<1> QED
  BY EmbedLeaves DEF CancelCaller

LEMMA EmbedResumeCaller == EmbedInv /\ (\E c \in Callers : ResumeCaller(c)) => EmbedInv'
<1> SUFFICES ASSUME EmbedInv, NEW c \in Callers, ResumeCaller(c) PROVE EmbedInv'
  OBVIOUS
<1> DEFINE shared == caller[c].on
           state == IF provider[shared] \in Answers THEN provider[shared] ELSE "cancelled"
<1>1. shared \in Callers /\ provider[shared] \notin {"none", "running"}
  BY EmbeddingAssumption DEF ResumeCaller, EmbedInv, WaitsForOwnText, CallTypes
<1>2. state = "cancelled" => provider[shared] = "raised"
  BY <1>1 DEF EmbedInv, CallTypes, Answers
<1>3. state \in {"cancelled"} \cup Answers
  OBVIOUS
<1>4. QED
  BY <1>1, <1>2, <1>3, EmbedLeaves DEF ResumeCaller

LEMMA EmbedInvariant == EmbedSpec => []EmbedInv
<1>1. EmbedInv /\ [EmbedNext]_embedVars => EmbedInv'
  <2>1. EmbedInv /\ UNCHANGED embedVars => EmbedInv'
    BY DEF embedVars, EmbedInv, CallTypes, TableOfCalls, TaskOfCall, WaitsForOwnText, TookOut,
           OwnCancellation
  <2>2. QED
    BY <2>1, EmbedHit, EmbedAsk, EmbedAnswer, EmbedCancelCaller, EmbedResumeCaller
       DEF EmbedNext, EmbedStep
<1>2. QED
  BY <1>1, InitEmbed, PTL DEF EmbedSpec

\* Concurrent callers share the embedding of a text without harm, for any callers,
\* texts and size of the cache: one call of the provider, no cancellation but one's own,
\* no task left behind that nobody will take out (memory.py:620-637).
THEOREM EmbeddingsShared == EmbedSpec => []SharedSafely
BY EmbedInvariant, InvShares, PTL

LEMMA LargerOfTwo ==
  ASSUME NEW i \in Int, NEW j \in Int
  PROVE  Max({i, j}) = IF i >= j THEN i ELSE j
BY DEF Max

\* The cache keeps texts.
LEMMA KeptTyped ==
  ASSUME vectors \in Seq(Texts), NEW t \in Texts
  PROVE  Touched(t) \in Seq(Texts) /\ Kept(t) \in Seq(Texts)
<1>1. Touched(t) \in Seq(Texts)
  <2>1. Only(vectors, Texts \ {t}) \in Seq(Texts \cap (Texts \ {t}))
    BY OnlyTyped
  <2>2. Texts \cap (Texts \ {t}) \subseteq Texts
    OBVIOUS
  <2>3. Only(vectors, Texts \ {t}) \in Seq(Texts)
    BY <2>1, <2>2
  <2>4. QED
    BY <2>3 DEF Touched
<1> DEFINE q == Touched(t)
           size == Max({1, CacheSize})
           from == Max({1, Len(q) - size + 1})
<1>2. Len(q) \in Nat
  BY <1>1
<1> HIDE DEF q
<1>3. size \in Nat /\ from \in Nat /\ from >= 1
  <2>1. size \in Nat
    BY LargerOfTwo, EmbeddingAssumption
  <2> HIDE DEF size
  <2>2. Len(q) - size + 1 \in Int
    BY <1>2, <2>1
  <2>3. from = IF 1 >= Len(q) - size + 1 THEN 1 ELSE Len(q) - size + 1
    BY <2>2, LargerOfTwo
  <2>4. QED
    BY <2>1, <2>2, <2>3
<1>4. Kept(t) = SubSeq(q, from, Len(q))
  BY DEF Kept, q
<1> HIDE DEF from
<1>5. SubSeq(q, from, Len(q)) \in Seq(Texts)
  BY <1>1, <1>2, <1>3, SubSeqProperties DEF q
<1>6. QED
  BY <1>1, <1>4, <1>5

\* The cache and the table of tasks are typed.
THEOREM EmbedTypeCorrect == EmbedSpec => []EmbedTypeOK
<1>1. EmbedInit => vectors \in Seq(Texts)
  BY DEF EmbedInit
<1>2. vectors \in Seq(Texts) /\ EmbedInv /\ [EmbedNext]_embedVars => (vectors \in Seq(Texts))'
  <2> SUFFICES ASSUME vectors \in Seq(Texts), EmbedInv, [EmbedNext]_embedVars
               PROVE  vectors' \in Seq(Texts)
    OBVIOUS
  <2>1. \A c \in Callers : caller[c].text \in Texts
    BY DEF EmbedInv, CallTypes
  <2>2. ASSUME NEW c \in Callers, Hit(c) \/ Ask(c) \/ ResumeCaller(c)
        PROVE  vectors' \in Seq(Texts)
    <3> DEFINE t == caller[c].text
    <3>1. t \in Texts
      BY <2>1
    <3> HIDE DEF t
    <3>2. Touched(t) \in Seq(Texts) /\ Kept(t) \in Seq(Texts)
      BY <3>1, KeptTyped
    <3>3. Only(vectors, Texts \ {t}) \in Seq(Texts)
      <4>1. Only(vectors, Texts \ {t}) \in Seq(Texts \cap (Texts \ {t}))
        BY OnlyTyped
      <4>2. Texts \cap (Texts \ {t}) \subseteq Texts
        OBVIOUS
      <4>3. QED
        BY <4>1, <4>2
    <3>4. QED
      BY <2>2, <3>2, <3>3 DEF Hit, Ask, ResumeCaller, t
  <2>3. ASSUME NEW c \in Callers, Answer(c) \/ CancelCaller(c)
        PROVE  vectors' = vectors
    BY <2>3 DEF Answer, CancelCaller
  <2>4. UNCHANGED embedVars => vectors' = vectors
    BY DEF embedVars
  <2>5. QED
    BY <2>2, <2>3, <2>4 DEF EmbedNext, EmbedStep
<1>3. EmbedInv /\ vectors \in Seq(Texts) => EmbedTypeOK
  BY DEF EmbedInv, CallTypes, EmbedTypeOK
<1>4. QED
  BY <1>1, <1>2, <1>3, EmbedInvariant, PTL DEF EmbedSpec

(***************************************************************************)
(* ToolCalls.  A call has one outcome from the moment it ends; the frames on  *)
(* their way to the processor, whose reports come later, carry the same one. *)
(***************************************************************************)

\* The frames of q that end c carry an outcome of S.
EndsIn(q, c, S) ==
  \A i \in 1..Len(q) : q[i].kind = "ended" /\ q[i].call = c => q[i].status \in S

\* S is what may be told of c: nothing, or its outcome.
Tells(c, S) ==
  /\ reports[c] \cap Outcome \subseteq S
  /\ EndsIn(coming, c, S)
  /\ "saved" \in S => c \in issues
  /\ "invalid" \in S => c \notin issues

\* A call that has not ended has nothing told of it, one that has ended one outcome.
OneTold(c) ==
  /\ tool[c] # "ended" => Tells(c, {})
  /\ tool[c] = "ended" => \E o \in Outcome : Tells(c, {o})

ReportTypes ==
  /\ tool \in [Calls -> {"idle", "called", "saving", "committed", "ended"}]
  /\ reports \in [Calls -> SUBSET (Outcome \cup {"in_progress"})]
  /\ issues \subseteq Calls
  /\ coming \in Seq(CallFrames \cup TextFrames)

\* The row is there from the commit on.
RowFromCommit ==
  \A c \in Calls :
    /\ c \in issues => tool[c] \in {"committed", "ended"}
    /\ tool[c] = "committed" => c \in issues

ToldInv == ReportTypes /\ RowFromCommit /\ \A c \in Calls : OneTold(c)

LEMMA ToldOutcome == ToldInv => OutcomeTold
<1> SUFFICES ASSUME ToldInv, NEW c \in Calls
             PROVE  /\ Cardinality(reports[c] \cap Outcome) <= 1
                    /\ "saved" \in reports[c] => c \in issues
                    /\ "invalid" \in reports[c] => c \notin issues
  BY DEF OutcomeTold, OneOutcome, ReportIsTrue
<1>1. {"saved", "invalid"} \subseteq Outcome
  BY DEF Outcome
<1>2. PICK S \in SUBSET Outcome : Tells(c, S) /\ (S = {} \/ \E o \in Outcome : S = {o})
  BY DEF ToldInv, OneTold
<1>3. reports[c] \cap Outcome \subseteq S
  BY <1>2 DEF Tells
<1>4. reports[c] \cap Outcome = {} \/ \E o \in Outcome : reports[c] \cap Outcome = {o}
  BY <1>2, <1>3
<1>5. Cardinality(reports[c] \cap Outcome) <= 1
  <2>1. CASE reports[c] \cap Outcome = {}
    BY <2>1, FS_EmptySet
  <2>2. ASSUME NEW o, reports[c] \cap Outcome = {o}
        PROVE  Cardinality(reports[c] \cap Outcome) <= 1
    BY <2>2, FS_Singleton
  <2>3. QED
    BY <1>4, <2>1, <2>2
<1>6. QED
  BY <1>1, <1>2, <1>3, <1>5 DEF Tells

\* The frames of a call that is not c leave what ends c.
LEMMA EndsAppended ==
  ASSUME NEW q \in Seq(CallFrames \cup TextFrames), NEW f \in CallFrames \cup TextFrames,
         NEW c, NEW S, EndsIn(q, c, S),
         f.kind = "ended" /\ f.call = c => f.status \in S
  PROVE  EndsIn(Append(q, f), c, S) /\ Append(q, f) \in Seq(CallFrames \cup TextFrames)
BY DEF EndsIn

LEMMA EndsTaken ==
  ASSUME NEW q \in Seq(CallFrames \cup TextFrames), q # <<>>, NEW c, NEW S, EndsIn(q, c, S)
  PROVE  /\ EndsIn(Tail(q), c, S) /\ Tail(q) \in Seq(CallFrames \cup TextFrames)
         /\ Head(q) \in CallFrames \cup TextFrames
         /\ Head(q).kind = "ended" /\ Head(q).call = c => Head(q).status \in S
BY DEF EndsIn

LEMMA EndsFiltered ==
  ASSUME NEW q \in Seq(CallFrames \cup TextFrames), NEW c, NEW S, EndsIn(q, c, S), NEW F
  PROVE  EndsIn(Only(q, F), c, S) /\ Only(q, F) \in Seq(CallFrames \cup TextFrames)
<1>1. Only(q, F) \in Seq((CallFrames \cup TextFrames) \cap F)
  BY OnlyTyped
<1>2. (CallFrames \cup TextFrames) \cap F \subseteq CallFrames \cup TextFrames
  OBVIOUS
<1>3. Only(q, F) \in Seq(CallFrames \cup TextFrames)
  BY <1>1, <1>2
<1>4. \A i \in 1..Len(Only(q, F)) : \E j \in 1..Len(q) : q[j] = Only(q, F)[i]
  BY OnlyElements
<1>5. QED
  BY <1>3, <1>4 DEF EndsIn

\* The types of the frames.
LEMMA FrameTypes ==
  /\ \A c \in Calls : [kind |-> "started", call |-> c] \in CallFrames
  /\ \A c \in Calls, o \in Outcome : [kind |-> "ended", call |-> c, status |-> o] \in CallFrames
  /\ [kind |-> "text"] \in TextFrames
  /\ \A f \in CallFrames \cup TextFrames :
       /\ f.kind \in {"started", "ended"} => f.call \in Calls
       /\ f.kind = "ended" => f.status \in Outcome
BY DEF CallFrames, TextFrames

LEMMA ToldStarts == CallInit => ToldInv
BY DEF CallInit, ToldInv, ReportTypes, RowFromCommit, OneTold, Tells, EndsIn

\* c ends with the outcome o, which it reports, or leaves to the processor, and hands on.
Ends(c, o, more) ==
  /\ tool[c] \in {"called", "saving", "committed"}
  /\ tool' = [tool EXCEPT ![c] = "ended"]
  /\ more \subseteq {o, "in_progress"}
  /\ reports' = [reports EXCEPT ![c] = @ \cup more]
  /\ coming' = Append(coming, [kind |-> "ended", call |-> c, status |-> o])
  /\ issues' = issues

LEMMA ToldEnds ==
  ASSUME ToldInv, NEW c \in Calls, NEW o \in Outcome, NEW more, Ends(c, o, more),
         o = "saved" => c \in issues,
         o = "invalid" => c \notin issues
  PROVE  ToldInv'
<1> DEFINE f == [kind |-> "ended", call |-> c, status |-> o]
<1>1. ReportTypes /\ RowFromCommit /\ \A d \in Calls : OneTold(d)
  BY DEF ToldInv
<1>2. f \in CallFrames \cup TextFrames /\ f.kind = "ended" /\ f.call = c /\ f.status = o
  BY FrameTypes
<1> HIDE DEF f
<1>3. coming' = Append(coming, f)
  BY DEF f, Ends
<1>4. coming \in Seq(CallFrames \cup TextFrames)
  BY <1>1 DEF ReportTypes
<1>5. coming' \in Seq(CallFrames \cup TextFrames)
  BY <1>2, <1>3, <1>4
<1>6. ReportTypes'
  BY <1>1, <1>5 DEF ReportTypes, Ends
<1>7. RowFromCommit'
  BY <1>1 DEF Ends, RowFromCommit, ReportTypes
<1>8. OneTold(c)'
  <2>1. tool'[c] = "ended" /\ reports'[c] = reports[c] \cup more
    BY <1>1 DEF ReportTypes, Ends
  <2>2. Tells(c, {})
    BY <1>1 DEF OneTold, Ends
  <2>3. EndsIn(coming, c, {o})
    BY <2>2 DEF Tells, EndsIn
  <2>4. EndsIn(coming', c, {o})
    BY <1>2, <1>3, <1>4, <2>3, EndsAppended
  <2>5. "in_progress" \notin Outcome
    BY DEF Outcome
  <2>6. reports'[c] \cap Outcome \subseteq {o}
    BY <2>1, <2>2, <2>5 DEF Tells, Ends
  <2>7. Tells(c, {o})'
    BY <2>4, <2>6 DEF Tells, Ends
  <2>8. QED
    BY <2>1, <2>7 DEF OneTold
<1>9. ASSUME NEW d \in Calls, d # c
      PROVE  OneTold(d)'
  <2>1. tool'[d] = tool[d] /\ reports'[d] = reports[d]
    BY <1>1, <1>9 DEF ReportTypes, Ends
  <2>2. ASSUME NEW S, Tells(d, S)
        PROVE  Tells(d, S)'
    <3>1. EndsIn(coming, d, S) /\ ~(f.kind = "ended" /\ f.call = d)
      BY <1>2, <1>9, <2>2 DEF Tells
    <3>2. EndsIn(Append(coming, f), d, S)
      BY <1>2, <1>4, <3>1, EndsAppended
    <3>3. QED
      BY <1>3, <2>1, <2>2, <3>2 DEF Tells, Ends
  <2>3. QED
    BY <1>1, <2>1, <2>2 DEF OneTold
<1>10. QED
  BY <1>6, <1>7, <1>8, <1>9 DEF ToldInv

\* No call ends, and nothing more is told of one than the frames on their way say.
LEMMA ToldKept ==
  ASSUME ToldInv, ReportTypes', RowFromCommit',
         \A d \in Calls : tool'[d] = "ended" <=> tool[d] = "ended",
         \A d \in Calls : tool[d] = "ended" => (d \in issues' <=> d \in issues),
         \A d \in Calls : \A S \in SUBSET Outcome : Tells(d, S) =>
           reports'[d] \cap Outcome \subseteq S /\ EndsIn(coming', d, S)
  PROVE  ToldInv'
<1> SUFFICES ASSUME NEW d \in Calls PROVE OneTold(d)'
  BY DEF ToldInv
<1>1. OneTold(d)
  BY DEF ToldInv
<1>2. ASSUME tool'[d] # "ended"
      PROVE  Tells(d, {})'
  <2>1. Tells(d, {})
    BY <1>1, <1>2 DEF OneTold
  <2>2. QED
    BY <2>1 DEF Tells
<1>3. ASSUME tool'[d] = "ended"
      PROVE  \E o \in Outcome : Tells(d, {o})'
  <2>1. PICK o \in Outcome : Tells(d, {o})
    BY <1>1, <1>3 DEF OneTold
  <2>2. reports'[d] \cap Outcome \subseteq {o} /\ EndsIn(coming', d, {o})
    BY <2>1
  <2>3. Tells(d, {o})'
    BY <1>3, <2>1, <2>2 DEF Tells
  <2>4. QED
    BY <2>3
<1>4. QED
  BY <1>2, <1>3 DEF OneTold

\* A frame that ends no call joins those on their way, and nothing is reported.
LEMMA ToldSends ==
  ASSUME ToldInv, NEW f \in CallFrames \cup TextFrames, f.kind # "ended",
         coming' = Append(coming, f) \/ coming' = coming,
         tool' \in [Calls -> {"idle", "called", "saving", "committed", "ended"}],
         \A d \in Calls : tool'[d] = "ended" <=> tool[d] = "ended",
         reports' \in [Calls -> SUBSET (Outcome \cup {"in_progress"})],
         \A d \in Calls : reports'[d] \cap Outcome = reports[d] \cap Outcome,
         issues' = issues,
         \A d \in Calls : tool[d] \in {"committed", "ended"} => tool'[d] = tool[d],
         \A d \in Calls : tool'[d] = "committed" => tool[d] = "committed"
  PROVE  ToldInv'
<1>1. ReportTypes /\ RowFromCommit
  BY DEF ToldInv
<1>2. coming' \in Seq(CallFrames \cup TextFrames)
  BY <1>1 DEF ReportTypes
<1>3. ReportTypes' /\ RowFromCommit'
  BY <1>1, <1>2 DEF ReportTypes, RowFromCommit
<1>4. ASSUME NEW d \in Calls, NEW S \in SUBSET Outcome, Tells(d, S)
      PROVE  reports'[d] \cap Outcome \subseteq S /\ EndsIn(coming', d, S)
  <2>1. EndsIn(coming, d, S) /\ reports[d] \cap Outcome \subseteq S
    BY <1>4 DEF Tells
  <2>2. EndsIn(Append(coming, f), d, S)
    BY <1>1, <2>1, EndsAppended DEF ReportTypes
  <2>3. QED
    BY <2>1, <2>2
<1>5. QED
  BY <1>3, <1>4, ToldKept

LEMMA ToldCallTool == ToldInv /\ (\E c \in Calls : CallTool(c)) => ToldInv'
<1> SUFFICES ASSUME ToldInv, NEW c \in Calls, CallTool(c) PROVE ToldInv'
  OBVIOUS
<1>1. ReportTypes
  BY DEF ToldInv
<1>2. [kind |-> "started", call |-> c] \in CallFrames \cup TextFrames
  BY FrameTypes
<1>3. /\ tool[c] = "idle" /\ tool' = [tool EXCEPT ![c] = "called"]
      /\ coming' = Append(coming, [kind |-> "started", call |-> c])
      /\ UNCHANGED <<reports, issues>>
  BY DEF CallTool, Becomes
<1>4. /\ tool' \in [Calls -> {"idle", "called", "saving", "committed", "ended"}]
      /\ tool'[c] = "called" /\ \A d \in Calls : d # c => tool'[d] = tool[d]
  BY <1>1, <1>3 DEF ReportTypes
<1>5. QED
  BY <1>1, <1>2, <1>3, <1>4, ToldSends DEF ReportTypes

LEMMA ToldAnnounces == ToldInv /\ (\E c \in Calls : AnnounceCall(c)) => ToldInv'
<1> SUFFICES ASSUME ToldInv, NEW c \in Calls, AnnounceCall(c) PROVE ToldInv'
  OBVIOUS
<1>1. ReportTypes
  BY DEF ToldInv
<1>2. [kind |-> "text"] \in CallFrames \cup TextFrames
  BY FrameTypes
<1>3. /\ tool[c] = "called" /\ tool' = [tool EXCEPT ![c] = "saving"]
      /\ reports' = [reports EXCEPT ![c] = @ \cup {"in_progress"}]
      /\ UNCHANGED <<coming, issues>>
  BY DEF AnnounceCall, Becomes, Report
<1>4. /\ tool' \in [Calls -> {"idle", "called", "saving", "committed", "ended"}]
      /\ tool'[c] = "saving" /\ \A d \in Calls : d # c => tool'[d] = tool[d]
  BY <1>1, <1>3 DEF ReportTypes
<1>5. /\ reports' \in [Calls -> SUBSET (Outcome \cup {"in_progress"})]
      /\ \A d \in Calls : reports'[d] \cap Outcome = reports[d] \cap Outcome
  BY <1>1, <1>3 DEF ReportTypes, Outcome
<1>6. QED
  BY <1>2, <1>3, <1>4, <1>5, ToldSends

LEMMA ToldRefuses == ToldInv /\ (\E c \in Calls : RefuseCall(c)) => ToldInv'
<1> SUFFICES ASSUME ToldInv, NEW c \in Calls, RefuseCall(c) PROVE ToldInv'
  OBVIOUS
<1>1. "invalid" \in Outcome /\ c \notin issues
  BY DEF Outcome, RefuseCall, Becomes, ToldInv, RowFromCommit
<1>2. /\ tool[c] = "called" /\ tool' = [tool EXCEPT ![c] = "ended"]
      /\ reports' = [reports EXCEPT ![c] = @ \cup {"in_progress", "invalid"}]
      /\ coming' = Append(coming, [kind |-> "ended", call |-> c, status |-> "invalid"])
      /\ issues' = issues
  BY DEF RefuseCall, Becomes
<1>3. Ends(c, "invalid", {"in_progress", "invalid"})
  BY <1>2 DEF Ends
<1>4. QED
  BY <1>1, <1>3, ToldEnds

LEMMA ToldCommits == ToldInv /\ (\E c \in Calls : CommitIssue(c)) => ToldInv'
<1> SUFFICES ASSUME ToldInv, NEW c \in Calls, CommitIssue(c) PROVE ToldInv'
  OBVIOUS
<1>1. ReportTypes /\ RowFromCommit
  BY DEF ToldInv
<1>2. /\ tool[c] = "saving" /\ tool' = [tool EXCEPT ![c] = "committed"]
      /\ issues' = issues \cup {c}
      /\ UNCHANGED <<reports, coming>>
  BY DEF CommitIssue, Becomes
<1>3. ReportTypes' /\ RowFromCommit'
  BY <1>1, <1>2 DEF ReportTypes, RowFromCommit
<1>4. \A d \in Calls : tool'[d] = "ended" <=> tool[d] = "ended"
  BY <1>1, <1>2 DEF ReportTypes
<1>5. \A d \in Calls : tool[d] = "ended" => (d \in issues' <=> d \in issues)
  BY <1>2
<1>6. QED
  BY <1>2, <1>3, <1>4, <1>5, ToldKept DEF Tells

LEMMA ToldEndTool ==
  ASSUME ToldInv, NEW c \in Calls, NEW from \in {"saving", "committed"}, NEW o \in Outcome,
         EndTool(c, from, o), issues' = issues, o # "invalid",
         o = "saved" => c \in issues
  PROVE  ToldInv'
<1>1. /\ tool[c] = from /\ tool' = [tool EXCEPT ![c] = "ended"]
      /\ reports' = [reports EXCEPT ![c] = @ \cup {o}]
      /\ coming' = Append(coming, [kind |-> "ended", call |-> c, status |-> o])
  BY DEF EndTool, Becomes, Report
<1>2. Ends(c, o, {o})
  BY <1>1 DEF Ends
<1>3. QED
  BY <1>2, ToldEnds

LEMMA ToldCancels == ToldInv /\ (\E c \in Calls : CancelCall(c)) => ToldInv'
<1> SUFFICES ASSUME ToldInv, NEW c \in Calls, CancelCall(c) PROVE ToldInv'
  OBVIOUS
<1> DEFINE more == IF tool[c] = "called" THEN {} ELSE {"cancelled"}
<1>1. ReportTypes
  BY DEF ToldInv
<1>2. reports' = [reports EXCEPT ![c] = @ \cup more]
  BY <1>1 DEF CancelCall, CancelReported, Report, ReportTypes
<1>3. /\ tool[c] \in {"called", "saving", "committed"}
      /\ tool' = [tool EXCEPT ![c] = "ended"]
      /\ coming' = Append(coming, [kind |-> "ended", call |-> c, status |-> "cancelled"])
      /\ issues' = issues
  BY DEF CancelCall, Running
<1>4. "cancelled" \in Outcome /\ more \subseteq {"cancelled", "in_progress"}
  BY DEF Outcome
<1> HIDE DEF more
<1>5. Ends(c, "cancelled", more)
  BY <1>2, <1>3, <1>4 DEF Ends
<1>6. QED
  BY <1>4, <1>5, ToldEnds

LEMMA ToldBegins ==
  ASSUME ToldInv, NEW c \in Calls, BeginCall(c), coming # <<>>, coming' = Tail(coming),
         UNCHANGED <<tool, issues>>
  PROVE  ToldInv'
<1>1. ReportTypes /\ RowFromCommit
  BY DEF ToldInv
<1>2. reports' = [reports EXCEPT ![c] = @ \cup {"in_progress"}]
  BY DEF BeginCall, Report
<1>3. ReportTypes' /\ RowFromCommit'
  BY <1>1, <1>2, EndsTaken DEF ReportTypes, RowFromCommit
<1>4. \A d \in Calls : reports'[d] \cap Outcome = reports[d] \cap Outcome
  BY <1>1, <1>2 DEF ReportTypes, Outcome
<1>5. ASSUME NEW d \in Calls, NEW S \in SUBSET Outcome, Tells(d, S)
      PROVE  reports'[d] \cap Outcome \subseteq S /\ EndsIn(coming', d, S)
  <2>1. EndsIn(coming, d, S) /\ reports[d] \cap Outcome \subseteq S
    BY <1>5 DEF Tells
  <2>2. EndsIn(Tail(coming), d, S)
    BY <1>1, <2>1, EndsTaken DEF ReportTypes
  <2>3. QED
    BY <1>4, <2>1, <2>2
<1>6. QED
  BY <1>3, <1>5, ToldKept

LEMMA ToldEndsCall ==
  ASSUME ToldInv, NEW c \in Calls, NEW o \in Outcome, EndCall(c, o),
         coming # <<>>, Head(coming).kind = "ended", Head(coming).call = c,
         Head(coming).status = o, coming' = Tail(coming), UNCHANGED <<tool, issues>>
  PROVE  ToldInv'
<1>1. ReportTypes /\ RowFromCommit
  BY DEF ToldInv
<1>2. reports' = [reports EXCEPT ![c] = @ \cup {o}]
  BY DEF EndCall, Report
<1>3. ReportTypes' /\ RowFromCommit'
  <2>1. coming' \in Seq(CallFrames \cup TextFrames)
    BY <1>1 DEF ReportTypes
  <2>2. QED
    BY <1>1, <1>2, <2>1 DEF ReportTypes, RowFromCommit
<1>4. ASSUME NEW d \in Calls, NEW S \in SUBSET Outcome, Tells(d, S)
      PROVE  reports'[d] \cap Outcome \subseteq S /\ EndsIn(coming', d, S)
  <2>1. EndsIn(coming, d, S) /\ reports[d] \cap Outcome \subseteq S
    BY <1>4 DEF Tells
  <2>2. EndsIn(Tail(coming), d, S) /\ (c = d => o \in S)
    BY <1>1, <2>1, EndsTaken DEF ReportTypes
  <2>3. reports'[d] = IF d = c THEN reports[d] \cup {o} ELSE reports[d]
    BY <1>1, <1>2 DEF ReportTypes
  <2>4. QED
    BY <2>1, <2>2, <2>3
<1>5. QED
  BY <1>3, <1>4, ToldKept

LEMMA ToldTakes == ToldInv /\ TakeFrame => ToldInv'
<1> SUFFICES ASSUME ToldInv, TakeFrame PROVE ToldInv'
  OBVIOUS
<1> DEFINE frame == Head(coming)
<1>1. ReportTypes /\ RowFromCommit
  BY DEF ToldInv
<1>2. /\ coming # <<>> /\ coming' = Tail(coming) /\ UNCHANGED <<tool, issues>>
      /\ \/ frame.kind = "started" /\ BeginCall(frame.call)
         \/ frame.kind = "ended" /\ EndCall(frame.call, frame.status)
         \/ frame.kind = "text" /\ TextPasses
  BY DEF TakeFrame
<1>3. frame \in CallFrames \cup TextFrames
  BY <1>1, <1>2 DEF ReportTypes
<1>4. CASE frame.kind = "started"
  <2>1. frame.call \in Calls /\ BeginCall(frame.call)
    BY <1>2, <1>3, <1>4, FrameTypes
  <2>2. QED
    BY <1>2, <2>1, ToldBegins
<1>5. CASE frame.kind = "ended"
  <2>1. frame.call \in Calls /\ frame.status \in Outcome /\ EndCall(frame.call, frame.status)
    BY <1>2, <1>3, <1>5, FrameTypes
  <2>2. QED
    BY <1>2, <1>5, <2>1, ToldEndsCall
<1>6. CASE frame.kind = "text"
  <2>1. reports' = reports
    BY <1>2, <1>6 DEF TextPasses
  <2>2. ReportTypes' /\ RowFromCommit'
    <3>1. coming' \in Seq(CallFrames \cup TextFrames)
      BY <1>1, <1>2 DEF ReportTypes
    <3>2. QED
      BY <1>1, <1>2, <2>1, <3>1 DEF ReportTypes, RowFromCommit
  <2>3. ASSUME NEW d \in Calls, NEW S \in SUBSET Outcome, Tells(d, S)
        PROVE  reports'[d] \cap Outcome \subseteq S /\ EndsIn(coming', d, S)
    <3>1. EndsIn(coming, d, S) /\ reports[d] \cap Outcome \subseteq S
      BY <2>3 DEF Tells
    <3>2. EndsIn(Tail(coming), d, S)
      BY <1>1, <1>2, <3>1, EndsTaken DEF ReportTypes
    <3>3. QED
      BY <1>2, <2>1, <3>1, <3>2
  <2>4. QED
    BY <1>2, <2>2, <2>3, ToldKept
<1>7. QED
  BY <1>2, <1>4, <1>5, <1>6

LEMMA ToldInterrupts == ToldInv /\ InterruptCalls => ToldInv'
<1> SUFFICES ASSUME ToldInv, InterruptCalls PROVE ToldInv'
  OBVIOUS
<1>1. ReportTypes /\ RowFromCommit
  BY DEF ToldInv
<1>2. coming' = Only(coming, CallFrames) /\ UNCHANGED <<tool, reports, issues>>
  BY DEF InterruptCalls, toolVars
<1>3. coming' \in Seq(CallFrames \cup TextFrames)
  <2>1. EndsIn(coming, 0, Outcome)
    BY <1>1, FrameTypes DEF ReportTypes, EndsIn
  <2>2. QED
    BY <1>1, <1>2, <2>1, EndsFiltered DEF ReportTypes
<1>4. ReportTypes' /\ RowFromCommit'
  BY <1>1, <1>2, <1>3 DEF ReportTypes, RowFromCommit
<1>5. ASSUME NEW d \in Calls, NEW S \in SUBSET Outcome, Tells(d, S)
      PROVE  reports'[d] \cap Outcome \subseteq S /\ EndsIn(coming', d, S)
  <2>1. EndsIn(coming, d, S) /\ reports[d] \cap Outcome \subseteq S
    BY <1>5 DEF Tells
  <2>2. EndsIn(Only(coming, CallFrames), d, S)
    BY <1>1, <2>1, EndsFiltered DEF ReportTypes
  <2>3. QED
    BY <1>2, <2>1, <2>2
<1>6. QED
  BY <1>2, <1>4, <1>5, ToldKept

LEMMA ToldStep == ToldInv /\ [CallNext]_callVars => ToldInv'
<1> SUFFICES ASSUME ToldInv, [CallNext]_callVars PROVE ToldInv'
  OBVIOUS
<1>1. ASSUME UNCHANGED <<tool, reports, issues, coming>>
      PROVE  ToldInv'
  BY <1>1 DEF ToldInv, ReportTypes, RowFromCommit, OneTold, Tells
<1>2. ASSUME NEW c \in Calls, SaveIssue(c)
      PROVE  ToldInv'
  <2>1. EndTool(c, "committed", "saved") /\ issues' = issues
    BY <1>2 DEF SaveIssue, Saved
  <2>2. c \in issues
    BY <2>1 DEF EndTool, Becomes, ToldInv, RowFromCommit
  <2>3. QED
    BY <2>1, <2>2, ToldEndTool DEF Outcome
<1>3. ASSUME NEW c \in Calls, SaveFails(c)
      PROVE  ToldInv'
  <2>1. PICK from \in {"saving", "committed"}, o \in {"timeout", "error"} : EndTool(c, from, o)
    BY <1>3 DEF SaveFails
  <2>2. issues' = issues /\ o \in Outcome /\ o # "invalid" /\ o # "saved"
    BY <1>3 DEF SaveFails, Outcome
  <2>3. QED
    BY <2>1, <2>2, ToldEndTool
<1>4. ASSUME SendText
      PROVE  ToldInv'
  <2>1. [kind |-> "text"] \in CallFrames \cup TextFrames
    BY FrameTypes
  <2>2. coming' = Append(coming, [kind |-> "text"]) /\ UNCHANGED <<tool, reports, issues>>
    BY <1>4 DEF SendText, toolVars
  <2>3. QED
    BY <2>1, <2>2, ToldSends DEF ToldInv, ReportTypes
<1>5. ASSUME TimerFires \/ NextTurn \/ UNCHANGED callVars
      PROVE  UNCHANGED <<tool, reports, issues, coming>>
  BY <1>5 DEF TimerFires, NextTurn, callVars, toolVars
<1>6. QED
  BY <1>1, <1>2, <1>3, <1>4, <1>5, ToldCallTool, ToldAnnounces, ToldRefuses, ToldCommits,
     ToldCancels, ToldTakes, ToldInterrupts DEF CallNext, CallStep

\* What the user is told of a call is one outcome, and true, for any number of calls and
\* turns, wherever a call fails or is cancelled and however far the processor is behind
\* (raise_issue.py:86-142, processors.py:773-853).
THEOREM CallsToldTruly == CallSpec => []OutcomeTold
BY ToldStarts, ToldStep, ToldOutcome, PTL DEF CallSpec

\* The fillers: the turn's own says whether it has had one, no later turn has had one,
\* and the timer runs only with a delay and before the answer.
FillerTypes ==
  /\ active \subseteq Calls
  /\ timer \in BOOLEAN /\ delayed \in BOOLEAN /\ filled \in BOOLEAN
  /\ between \in BOOLEAN /\ answered \in BOOLEAN
  /\ turnNo \in 1..MaxCallTurns
  /\ between => turnNo < MaxCallTurns
  /\ fillers \in [1..MaxCallTurns -> Nat]

TimerInPlace == timer => delayed /\ ~answered

FillersCounted ==
  /\ fillers[turnNo] = IF filled THEN 1 ELSE 0
  /\ \A t \in 1..MaxCallTurns : fillers[t] <= 1 /\ (t > turnNo => fillers[t] = 0)

FillerInv == FillerTypes /\ TimerInPlace /\ FillersCounted

LEMMA FillerStarts == CallInit => FillerInv
<1> SUFFICES ASSUME CallInit PROVE FillerInv
  OBVIOUS
<1>1. /\ active = {} /\ timer = FALSE /\ filled = FALSE /\ turnNo = 1
      /\ between = FALSE /\ answered = FALSE /\ delayed \in BOOLEAN
      /\ fillers = [t \in 1..MaxCallTurns |-> 0]
  BY DEF CallInit
<1>2. 1 \in 1..MaxCallTurns
  BY CallBounds
<1>3. FillerTypes
  BY <1>1, <1>2 DEF FillerTypes
<1>4. QED
  BY <1>1, <1>2, <1>3 DEF FillerInv, TimerInPlace, FillersCounted

\* A filler, or none: what has been spoken stays counted.
LEMMA FillerCounts ==
  ASSUME FillerTypes, FillersCounted, Filler \/ UNCHANGED <<filled, fillers>>,
         turnNo' = turnNo
  PROVE  /\ FillersCounted' /\ filled' \in BOOLEAN
         /\ fillers' \in [1..MaxCallTurns -> Nat]
<1>1. CASE UNCHANGED <<filled, fillers>>
  BY <1>1 DEF FillerTypes, FillersCounted
<1>2. CASE Filler /\ filled
  <2>1. fillers' = fillers /\ filled' = TRUE
    BY <1>2 DEF Filler
  <2>2. QED
    BY <1>2, <2>1 DEF FillerTypes, FillersCounted
<1>3. CASE Filler /\ ~filled
  <2>1. fillers' = [fillers EXCEPT ![turnNo] = @ + 1] /\ filled' = TRUE
    BY <1>3 DEF Filler
  <2>2. /\ fillers'[turnNo] = 1
        /\ \A t \in 1..MaxCallTurns : t # turnNo => fillers'[t] = fillers[t]
        /\ fillers' \in [1..MaxCallTurns -> Nat]
    BY <1>3, <2>1 DEF FillerTypes, FillersCounted
  <2>3. QED
    BY <2>1, <2>2 DEF FillerTypes, FillersCounted
<1>4. QED
  BY <1>1, <1>2, <1>3

\* The processor begins to wait for a call.
LEMMA FillerBegins ==
  ASSUME FillerInv, NEW c \in Calls, BeginCall(c), UNCHANGED <<delayed, talkVars>>
  PROVE  FillerInv' /\ (fillers' # fillers => ~timer)
<1>1. FillerTypes /\ FillersCounted /\ TimerInPlace
  BY DEF FillerInv
<1>2. active' \subseteq Calls /\ answered' = FALSE /\ UNCHANGED <<delayed, turnNo, between>>
  BY <1>1 DEF BeginCall, FillerTypes, talkVars
<1>3. Filler \/ UNCHANGED <<filled, fillers>>
  BY DEF BeginCall
<1>4. FillersCounted' /\ filled' \in BOOLEAN /\ fillers' \in [1..MaxCallTurns -> Nat]
  BY <1>1, <1>2, <1>3, FillerCounts
<1>5. CASE delayed
  <2>1. timer' \in BOOLEAN /\ fillers' = fillers
    BY <1>5, Zenon DEF BeginCall
  <2>2. QED
    BY <1>1, <1>2, <1>4, <1>5, <2>1 DEF FillerInv, FillerTypes, TimerInPlace
<1>6. CASE ~delayed
  <2>1. timer' = timer
    BY <1>6 DEF BeginCall
  <2>2. QED
    BY <1>1, <1>2, <1>4, <1>6, <2>1 DEF FillerInv, FillerTypes, TimerInPlace
<1>7. QED
  BY <1>5, <1>6

LEMMA FillerTakes ==
  ToldInv /\ FillerInv /\ TakeFrame => FillerInv' /\ (fillers' # fillers => ~timer)
<1> SUFFICES ASSUME ToldInv, FillerInv, TakeFrame
             PROVE  FillerInv' /\ (fillers' # fillers => ~timer)
  OBVIOUS
<1> DEFINE frame == Head(coming)
<1>1. /\ coming # <<>> /\ UNCHANGED <<delayed, talkVars>>
      /\ \/ frame.kind = "started" /\ BeginCall(frame.call)
         \/ frame.kind = "ended" /\ EndCall(frame.call, frame.status)
         \/ frame.kind = "text" /\ TextPasses
  BY DEF TakeFrame
<1>2. frame \in CallFrames \cup TextFrames
  BY <1>1 DEF ToldInv, ReportTypes
<1>3. CASE frame.kind = "started" /\ BeginCall(frame.call)
  <2>1. frame.call \in Calls
    BY <1>2, <1>3, FrameTypes
  <2>2. QED
    BY <1>1, <1>3, <2>1, FillerBegins
<1>4. CASE frame.kind = "ended" /\ EndCall(frame.call, frame.status)
  <2>1. /\ active' \subseteq active /\ timer' = (timer /\ active' # {})
        /\ UNCHANGED <<filled, fillers, answered, delayed, turnNo, between>>
    BY <1>1, <1>4 DEF EndCall, talkVars
  <2>2. timer' \in BOOLEAN /\ (timer' => timer)
    BY <2>1, Zenon
  <2>3. QED
    BY <2>1, <2>2 DEF FillerInv, FillerTypes, TimerInPlace, FillersCounted
<1>5. CASE frame.kind = "text" /\ TextPasses
  <2>1. /\ active' = {} /\ timer' = FALSE /\ answered' = TRUE
        /\ UNCHANGED <<filled, fillers, delayed, turnNo, between>>
    BY <1>1, <1>5 DEF TextPasses, talkVars
  <2>2. QED
    BY <2>1 DEF FillerInv, FillerTypes, TimerInPlace, FillersCounted
<1>6. QED
  BY <1>1, <1>3, <1>4, <1>5

\* A step of the tool leaves the timer and may speak the turn's filler.
LEMMA FillerOfTool ==
  ASSUME FillerInv, Filler \/ UNCHANGED <<filled, fillers>>,
         UNCHANGED <<active, timer, answered, delayed, turnNo, between>>
  PROVE  FillerInv'
<1>1. FillersCounted' /\ filled' \in BOOLEAN /\ fillers' \in [1..MaxCallTurns -> Nat]
  BY FillerCounts DEF FillerInv
<1>2. QED
  BY <1>1 DEF FillerInv, FillerTypes, TimerInPlace

LEMMA FillerTurns ==
  FillerInv /\ (InterruptCalls \/ NextTurn) => FillerInv' /\ fillers' = fillers
<1> SUFFICES ASSUME FillerInv, InterruptCalls \/ NextTurn
             PROVE  FillerInv' /\ fillers' = fillers
  OBVIOUS
<1>1. CASE InterruptCalls
  <2>1. /\ between' = TRUE /\ turnNo < MaxCallTurns /\ active' = {} /\ timer' = FALSE
        /\ UNCHANGED <<filled, fillers, answered, turnNo, delayed>>
    BY <1>1 DEF InterruptCalls
  <2>2. QED
    BY <2>1 DEF FillerInv, FillerTypes, TimerInPlace, FillersCounted
<1>2. CASE NextTurn
  <2>1. /\ between /\ between' = FALSE /\ turnNo' = turnNo + 1 /\ filled' = FALSE
        /\ UNCHANGED <<active, timer, fillers, answered, delayed>>
    BY <1>2 DEF NextTurn
  <2>2. turnNo \in Nat /\ turnNo' \in 1..MaxCallTurns /\ fillers[turnNo'] = 0
    BY <2>1, CallBounds DEF FillerInv, FillerTypes, FillersCounted
  <2>3. \A t \in 1..MaxCallTurns : t > turnNo' => t > turnNo
    BY <2>1, <2>2, CallBounds
  <2>4. FillersCounted'
    BY <2>1, <2>2, <2>3 DEF FillerInv, FillersCounted
  <2>5. FillerTypes' /\ TimerInPlace'
    BY <2>1, <2>2 DEF FillerInv, FillerTypes, TimerInPlace
  <2>6. QED
    BY <2>1, <2>4, <2>5 DEF FillerInv
<1>3. QED
  BY <1>1, <1>2

\* What a step may speak.
FillerMove == fillers' # fillers => (timer /\ tool' = tool => ~answered)

LEMMA FillerStep ==
  ToldInv /\ FillerInv /\ [CallNext]_callVars => FillerInv' /\ FillerMove
<1> SUFFICES ASSUME ToldInv, FillerInv, [CallNext]_callVars
             PROVE  FillerInv' /\ FillerMove
  OBVIOUS
<1>1. ASSUME UNCHANGED <<fillerVars, delayed, turnNo, between>>
      PROVE  FillerInv' /\ FillerMove
  BY <1>1 DEF FillerInv, FillerTypes, TimerInPlace, FillersCounted, FillerMove, fillerVars
<1>2. ASSUME NEW c \in Calls, AnnounceCall(c) \/ RefuseCall(c)
      PROVE  FillerInv' /\ FillerMove
  <2>1. Filler /\ UNCHANGED <<active, timer, answered, delayed, turnNo, between>>
    BY <1>2 DEF AnnounceCall, RefuseCall, talkVars
  <2>2. FillerInv'
    BY <2>1, FillerOfTool
  <2>3. QED
    BY <2>2 DEF FillerMove, FillerInv, TimerInPlace
<1>3. ASSUME TimerFires
      PROVE  FillerInv' /\ FillerMove
  <2>1. /\ timer' = FALSE
        /\ Filler \/ UNCHANGED <<filled, fillers>>
        /\ UNCHANGED <<active, answered, delayed, turnNo, between>>
    BY <1>3 DEF TimerFires, TimerFiller, talkVars
  <2>2. FillersCounted' /\ filled' \in BOOLEAN /\ fillers' \in [1..MaxCallTurns -> Nat]
    BY <2>1, FillerCounts DEF FillerInv
  <2>3. QED
    BY <2>1, <2>2 DEF FillerInv, FillerTypes, TimerInPlace, FillerMove
<1>4. ASSUME NEW c \in Calls,
             CallTool(c) \/ CommitIssue(c) \/ SaveIssue(c) \/ SaveFails(c) \/ CancelCall(c)
      PROVE  UNCHANGED <<fillerVars, delayed, turnNo, between>>
  BY <1>4 DEF CallTool, CommitIssue, SaveIssue, SaveFails, CancelCall, talkVars
<1>5. ASSUME SendText \/ UNCHANGED callVars
      PROVE  UNCHANGED <<fillerVars, delayed, turnNo, between>>
  BY <1>5 DEF SendText, callVars, talkVars
<1>6. QED
  BY <1>1, <1>2, <1>3, <1>4, <1>5, FillerTakes, FillerTurns
     DEF CallNext, CallStep, FillerMove, FillerInv

\* A filler is the first of its turn, whoever comes first of the tool and the
\* processor, and the delayed one is not spoken into an answer that has begun, for any
\* number of calls and turns and either setting of the delay (raise_issue.py:16-19,
\* processors.py:799-803, 857-859).
THEOREM FillersInPlace == CallSpec => FillerInPlace
<1>1. FillerInv' /\ FillerMove =>
        (fillers' # fillers =>
           /\ \A t \in 1..MaxCallTurns : fillers'[t] <= 1
           /\ timer /\ tool' = tool => ~answered)
  BY DEF FillerInv, FillersCounted, FillerMove
<1>2. QED
  BY <1>1, ToldStarts, ToldStep, FillerStarts, FillerStep, PTL DEF CallSpec, FillerInPlace

StruckTypes == struck \subseteq Calls

LEMMA StruckStarts == CallInit => StruckTypes
  BY DEF CallInit, StruckTypes

LEMMA StruckStep == StruckTypes /\ [CallNext]_callVars => StruckTypes'
<1> SUFFICES ASSUME StruckTypes, [CallNext]_callVars PROVE StruckTypes'
  OBVIOUS
<1>1. CASE InterruptCalls
  BY <1>1 DEF InterruptCalls, StruckTypes
<1>2. ASSUME NEW c \in Calls, CallStep(c)
      PROVE  UNCHANGED struck
  BY <1>2 DEF CallStep, CallTool, AnnounceCall, RefuseCall, CommitIssue, SaveIssue,
              SaveFails, CancelCall, talkVars
<1>3. ASSUME SendText \/ TakeFrame \/ TimerFires \/ NextTurn \/ UNCHANGED callVars
      PROVE  UNCHANGED struck
  BY <1>3 DEF SendText, TakeFrame, TimerFires, NextTurn, callVars, talkVars
<1>4. QED
  BY <1>1, <1>2, <1>3 DEF CallNext, StruckTypes

\* The calls, their frames and their fillers are typed.
THEOREM CallTypeCorrect == CallSpec => []CallTypeOK
<1>1. ToldInv /\ FillerInv /\ StruckTypes => CallTypeOK
  BY DEF ToldInv, ReportTypes, FillerInv, FillerTypes, StruckTypes, CallTypeOK
<1>2. QED
  BY <1>1, ToldStarts, ToldStep, FillerStarts, FillerStep, StruckStarts, StruckStep, PTL
     DEF CallSpec

(***************************************************************************)
(* MessageMemory.  The messages of one voice conversation stay in the order  *)
(* in which they were saved on their whole way, from the save through the    *)
(* lane and the job to the facts; and the job that counts, reads and stores  *)
(* holds the key of its conversation, so that what it counted is still what  *)
(* the conversation shows.                                                   *)
(***************************************************************************)

(* The messages a statement sees *)

Upto(n) == [m \in 1 .. n |-> m]

Rows == [conv : Convs, role : Roles, path : {"voice", "http"},
         state : {"flushed", "committed", "gone"}]

SeenIn(q, c) == {m \in DOMAIN q : /\ q[m].conv = c /\ q[m].state = "committed"
                                  /\ q[m].role \in {"You", "Aura"}}
VisibleIn(q, c) == Only([m \in DOMAIN q |-> m], SeenIn(q, c))

Seen(c) == SeenIn(messages, c)

LEMMA UptoTyped ==
  ASSUME NEW n \in Nat
  PROVE  Upto(n) \in Seq(1 .. n) /\ Len(Upto(n)) = n /\ \A i \in 1 .. n : Upto(n)[i] = i
BY DEF Upto

\* The ids that are seen, in order, when another message joins.
LEMMA SeenMore ==
  ASSUME NEW n \in Nat, NEW S \in SUBSET (1 .. n)
  PROVE  /\ Only(Upto(n + 1), S) = Only(Upto(n), S)
         /\ Only(Upto(n + 1), S \cup {n + 1}) = Append(Only(Upto(n), S), n + 1)
<1>1. Upto(n) \in Seq(1 .. (n + 1)) /\ n + 1 \in 1 .. (n + 1) /\ n + 1 \notin S
      /\ Len(Upto(n)) = n /\ \A i \in 1 .. n : Upto(n)[i] = i
  BY UptoTyped DEF Upto
<1>2. Upto(n + 1) = Append(Upto(n), n + 1)
  <2>1. \A s, t \in Seq(1 .. (n + 1)) :
          Len(s) = Len(t) /\ (\A i \in 1 .. Len(s) : s[i] = t[i]) => s = t
    BY SMTT(30)
  <2>2. PICK t : t = Append(Upto(n), n + 1)
    OBVIOUS
  <2>3. /\ t \in Seq(1 .. (n + 1)) /\ Len(t) = n + 1 /\ t[n + 1] = n + 1
        /\ \A i \in 1 .. n : t[i] = i
    BY <1>1, <2>2
  <2>4. /\ Upto(n + 1) \in Seq(1 .. (n + 1)) /\ Len(Upto(n + 1)) = n + 1
        /\ \A i \in 1 .. (n + 1) : Upto(n + 1)[i] = i
    BY UptoTyped
  <2>5. \A i \in 1 .. (n + 1) : i \in 1 .. n \/ i = n + 1
    OBVIOUS
  <2>6. t = Upto(n + 1)
    BY <2>1, <2>3, <2>4, <2>5
  <2>7. QED
    BY <2>2, <2>6
<1>3. Only(Append(Upto(n), n + 1), S) = Only(Upto(n), S)
  BY <1>1, OnlyAppend
<1>4. Only(Append(Upto(n), n + 1), S \cup {n + 1}) = Append(Only(Upto(n), S \cup {n + 1}), n + 1)
  <2>1. PICK U : U = S \cup {n + 1}
    OBVIOUS
  <2>2. n + 1 \in U
    BY <2>1
  <2>3. PICK s \in Seq(1 .. (n + 1)), x \in 1 .. (n + 1) : s = Upto(n) /\ x = n + 1
    BY <1>1
  <2>4. Only(Append(s, x), U) = IF x \in U THEN Append(Only(s, U), x) ELSE Only(s, U)
    BY OnlyAppend
  <2>5. QED
    BY <2>1, <2>2, <2>3, <2>4
<1>5. Only(Upto(n), S \cup {n + 1}) = Only(Upto(n), S)
  <2>1. \A i \in 1 .. Len(Upto(n)) : Upto(n)[i] \in S <=> Upto(n)[i] \in S \cup {n + 1}
    BY <1>1
  <2>2. QED
    BY <1>1, <2>1, OnlyAgree
<1>6. QED
  BY <1>2, <1>3, <1>4, <1>5

LEMMA VisibleIs ==
  ASSUME NEW q \in Seq(Rows), NEW c
  PROVE  /\ VisibleIn(q, c) = Only(Upto(Len(q)), SeenIn(q, c))
         /\ SeenIn(q, c) \in SUBSET (1 .. Len(q)) /\ Len(q) \in Nat
         /\ VisibleIn(q, c) \in Seq(SeenIn(q, c)) /\ Len(VisibleIn(q, c)) \in Nat
         /\ Len(VisibleIn(q, c)) <= Len(q)
         /\ \A m \in SeenIn(q, c) : \E i \in DOMAIN VisibleIn(q, c) : VisibleIn(q, c)[i] = m
<1>1. DOMAIN q = 1 .. Len(q) /\ Len(q) \in Nat
  OBVIOUS
<1>2. VisibleIn(q, c) = Only(Upto(Len(q)), SeenIn(q, c))
  BY <1>1 DEF VisibleIn, Upto
<1>3. SeenIn(q, c) \in SUBSET (1 .. Len(q))
  BY <1>1 DEF SeenIn
<1>4. /\ Only(Upto(Len(q)), SeenIn(q, c)) \in Seq((1 .. Len(q)) \cap SeenIn(q, c))
      /\ Len(Only(Upto(Len(q)), SeenIn(q, c))) <= Len(q)
  BY <1>1, UptoTyped, OnlyTyped
<1>5. (1 .. Len(q)) \cap SeenIn(q, c) = SeenIn(q, c)
  BY <1>3
<1>6. VisibleIn(q, c) \in Seq(SeenIn(q, c))
  BY <1>2, <1>4, <1>5
<1>7. ASSUME NEW m \in SeenIn(q, c)
      PROVE  \E i \in DOMAIN VisibleIn(q, c) : VisibleIn(q, c)[i] = m
  <2>1. /\ m \in 1 .. Len(Upto(Len(q))) /\ Upto(Len(q))[m] = m
        /\ Upto(Len(q)) \in Seq(1 .. Len(q))
    BY <1>1, <1>3, UptoTyped
  <2>2. \A j \in 1 .. Len(Upto(Len(q))) : Upto(Len(q))[j] \in SeenIn(q, c) =>
          \E i \in 1 .. Len(Only(Upto(Len(q)), SeenIn(q, c))) :
            Only(Upto(Len(q)), SeenIn(q, c))[i] = Upto(Len(q))[j]
    BY <2>1, OnlyElements
  <2>3. QED
    BY <1>2, <1>6, <2>1, <2>2
<1>8. QED
  BY <1>1, <1>2, <1>3, <1>4, <1>6, <1>7

LEMMA Appended ==
  ASSUME NEW S, NEW q \in Seq(S), NEW x \in S
  PROVE  /\ Append(q, x) \in Seq(S) /\ Len(Append(q, x)) = Len(q) + 1
         /\ DOMAIN Append(q, x) = 1 .. (Len(q) + 1) /\ DOMAIN q = 1 .. Len(q)
         /\ Len(q) \in Nat /\ Append(q, x)[Len(q) + 1] = x
         /\ \A i \in 1 .. Len(q) : Append(q, x)[i] = q[i]
OBVIOUS

LEMMA SeqMono ==
  ASSUME NEW S, NEW T, S \subseteq T, NEW q \in Seq(S)
  PROVE  q \in Seq(T)
OBVIOUS

\* A row that joins is seen last, or not at all.
LEMMA VisibleMore ==
  ASSUME NEW q \in Seq(Rows), NEW entry \in Rows, NEW c
  PROVE  \/ /\ SeenIn(Append(q, entry), c) = SeenIn(q, c)
            /\ VisibleIn(Append(q, entry), c) = VisibleIn(q, c)
         \/ /\ entry.conv = c /\ entry.state = "committed"
            /\ SeenIn(Append(q, entry), c) = SeenIn(q, c) \cup {Len(q) + 1}
            /\ VisibleIn(Append(q, entry), c) = Append(VisibleIn(q, c), Len(q) + 1)
<1>1. PICK r : r = Append(q, entry)
  OBVIOUS
<1>2. /\ r \in Seq(Rows)
      /\ DOMAIN r = 1 .. (Len(q) + 1) /\ DOMAIN q = 1 .. Len(q) /\ Len(q) \in Nat
      /\ Len(r) = Len(q) + 1 /\ r[Len(q) + 1] = entry
      /\ \A i \in 1 .. Len(q) : r[i] = q[i]
  BY <1>1, Appended
<1>3. \A i \in DOMAIN r : i \in DOMAIN q \/ i = Len(q) + 1
  BY <1>2
<1>4. /\ VisibleIn(r, c) = Only(Upto(Len(q) + 1), SeenIn(r, c))
      /\ VisibleIn(q, c) = Only(Upto(Len(q)), SeenIn(q, c))
      /\ SeenIn(q, c) \in SUBSET (1 .. Len(q))
  BY <1>2, VisibleIs
<1>5. CASE entry.conv = c /\ entry.state = "committed" /\ entry.role \in {"You", "Aura"}
  <2>1. SeenIn(r, c) = SeenIn(q, c) \cup {Len(q) + 1}
    BY <1>2, <1>3, <1>5 DEF SeenIn
  <2>2. VisibleIn(r, c) = Append(VisibleIn(q, c), Len(q) + 1)
    BY <1>2, <1>4, <2>1, SeenMore
  <2>3. QED
    BY <1>1, <1>5, <2>1, <2>2
<1>6. CASE ~(entry.conv = c /\ entry.state = "committed" /\ entry.role \in {"You", "Aura"})
  <2>1. SeenIn(r, c) = SeenIn(q, c)
    BY <1>2, <1>3, <1>6 DEF SeenIn
  <2>2. VisibleIn(r, c) = VisibleIn(q, c)
    BY <1>2, <1>4, <2>1, SeenMore
  <2>3. QED
    BY <1>1, <2>1, <2>2
<1>7. QED
  BY <1>5, <1>6

-----------------------------------------------------------------------------
(* The rows of UserMemory *)

Voice(m) == messages[m].path = "voice"
TogetherIn(q, m, n) == q[m].conv = q[n].conv /\ q[m].path = "voice" /\ q[n].path = "voice"
Together(m, n) == TogetherIn(messages, m, n)

RowOf(f, types, keys, values) ==
  f \in [type : types, key : keys, value : values, active : BOOLEAN, source : DOMAIN messages]

IsRow(f) == \E types, keys, values : RowOf(f, types, keys, values)

\* Rows that say what FactsCurrent says.
RowsCurrent(entries) ==
  /\ \A f \in entries : IsRow(f)
  /\ \A f, g \in entries :
       f.active /\ f.key \in SingleKeys /\ f.type = g.type /\ f.key = g.key =>
         /\ g.active => f = g
         /\ Together(f.source, g.source) => f.source >= g.source

\* ... and come from messages of a set, none of them newer than message m.
From(entries, sources) == \A f \in entries : f.source \in sources
NoneAfter(sources, m) == \A n \in sources : Together(n, m) => n <= m

Inactive(f) == [f EXCEPT !.active = FALSE]

LEMMA InactiveRow ==
  ASSUME NEW f, IsRow(f)
  PROVE  /\ IsRow(Inactive(f)) /\ Inactive(f).active = FALSE
         /\ Inactive(f).type = f.type /\ Inactive(f).key = f.key
         /\ Inactive(f).value = f.value /\ Inactive(f).source = f.source
<1>1. PICK types, keys, values : RowOf(f, types, keys, values)
  BY DEF IsRow
<1>2. /\ RowOf(Inactive(f), types, keys, values) /\ Inactive(f).active = FALSE
      /\ Inactive(f).type = f.type /\ Inactive(f).key = f.key
      /\ Inactive(f).value = f.value /\ Inactive(f).source = f.source
  BY <1>1 DEF RowOf, Inactive
<1>3. QED
  BY <1>2 DEF IsRow

\* A row that an update leaves active is a row of before.
LEMMA DeactivatedRows ==
  ASSUME NEW entries, RowsCurrent(entries), NEW gone
  PROVE  /\ \A f \in Deactivated(entries, gone) :
              \E r \in entries : /\ f.type = r.type /\ f.key = r.key /\ f.source = r.source
                                 /\ f.active => f = r /\ r \notin gone
                                 /\ IsRow(f)
         /\ RowsCurrent(Deactivated(entries, gone))
         /\ \A X : From(entries, X) => From(Deactivated(entries, gone), X)
<1>1. \A f \in Deactivated(entries, gone) :
         \E r \in entries : f = IF r \in gone THEN Inactive(r) ELSE r
  BY DEF Deactivated, Inactive
<1>2. ASSUME NEW f \in Deactivated(entries, gone)
      PROVE  \E r \in entries : /\ f.type = r.type /\ f.key = r.key /\ f.source = r.source
                                /\ f.active => f = r /\ r \notin gone
                                /\ IsRow(f)
  <2>1. PICK r \in entries : f = IF r \in gone THEN Inactive(r) ELSE r
    BY <1>1
  <2>2. IsRow(r)
    BY DEF RowsCurrent
  <2>3. CASE r \in gone
    BY <2>1, <2>2, <2>3, InactiveRow
  <2>4. CASE r \notin gone
    BY <2>1, <2>2, <2>4
  <2>5. QED
    BY <2>3, <2>4
<1>3. RowsCurrent(Deactivated(entries, gone))
  <2>1. ASSUME NEW f \in Deactivated(entries, gone), NEW g \in Deactivated(entries, gone),
               f.active, f.key \in SingleKeys, f.type = g.type, f.key = g.key
        PROVE  /\ g.active => f = g
               /\ Together(f.source, g.source) => f.source >= g.source
    <3>1. f \in entries
      BY <1>2, <2>1
    <3>2. PICK r \in entries : /\ g.type = r.type /\ g.key = r.key /\ g.source = r.source
                               /\ g.active => g = r
      BY <1>2
    <3>3. /\ r.active => f = r
          /\ Together(f.source, r.source) => f.source >= r.source
      BY <2>1, <3>1, <3>2 DEF RowsCurrent
    <3>4. QED
      BY <3>2, <3>3
  <2>2. QED
    BY <1>2, <2>1 DEF RowsCurrent
<1>4. ASSUME NEW X, From(entries, X)
      PROVE  From(Deactivated(entries, gone), X)
  BY <1>2, <1>4 DEF From
<1>5. QED
  BY <1>2, <1>3, <1>4

LEMMA StillActive ==
  ASSUME NEW entries, RowsCurrent(entries), NEW gone, NEW f \in Deactivated(entries, gone), f.active
  PROVE  f \in entries /\ f \notin gone
<1>1. \E r \in entries : f = IF r \in gone THEN Inactive(r) ELSE r
  BY DEF Deactivated, Inactive
<1>2. PICK r \in entries : f = IF r \in gone THEN Inactive(r) ELSE r
  BY <1>1
<1>3. IsRow(r)
  BY DEF RowsCurrent
<1>4. r \notin gone
  BY <1>2, <1>3, InactiveRow
<1>5. QED
  BY <1>2, <1>4

LEMMA AppliedCurrent ==
  ASSUME NEW m \in DOMAIN messages, DOMAIN messages \in SUBSET Nat,
         NEW X, m \in X, NoneAfter(X, m),
         NEW entries, RowsCurrent(entries), From(entries, X), NEW event
  PROVE  RowsCurrent(Applied(entries, event, m)) /\ From(Applied(entries, event, m), X)
<1>1. CASE event.action = "deactivate"
  BY <1>1, DeactivatedRows DEF Applied
<1>2. CASE event.action # "deactivate"
  <2> DEFINE same == {r \in entries : SameKey(r, event)}
             others == IF event.key \in SingleKeys THEN Deactivated(entries, same) ELSE entries
             entry == [type |-> event.type, key |-> event.key, value |-> event.value,
                       active |-> TRUE, source |-> m]
             upserted == {r \in others : ~(SameKey(r, event) /\ r.value = event.value)} \cup {entry}
  <2>1. Applied(entries, event, m) = upserted
    BY <1>2 DEF Applied, Upsert
  <2>2. RowsCurrent(others) /\ From(others, X)
    BY DeactivatedRows
  <2>3. ASSUME NEW f \in others, event.key \in SingleKeys, f.active
        PROVE  ~SameKey(f, event)
    <3>1. f \in Deactivated(entries, same)
      BY <2>3
    <3> HIDE DEF same
    <3>2. f \in entries /\ f \notin same
      BY <2>3, <3>1, StillActive
    <3>3. QED
      BY <3>2 DEF same
  <2>4. /\ entry.type = event.type /\ entry.key = event.key /\ entry.source = m /\ entry.active
        /\ IsRow(entry)
    <3>1. RowOf(entry, {event.type}, {event.key}, {event.value})
      BY DEF RowOf
    <3>2. QED
      BY <3>1 DEF IsRow
  <2> HIDE DEF others, entry
  <2>5. ASSUME NEW f \in upserted, NEW g \in upserted,
               f.active, f.key \in SingleKeys, f.type = g.type, f.key = g.key
        PROVE  /\ g.active => f = g
               /\ Together(f.source, g.source) => f.source >= g.source
    <3>1. CASE f = entry /\ g = entry
      BY <2>4, <3>1
    <3>2. CASE f = entry /\ g \in others
      <4>1. SameKey(g, event) /\ event.key \in SingleKeys
        BY <2>4, <2>5, <3>2 DEF SameKey
      <4>2. ~g.active
        BY <2>3, <3>2, <4>1
      <4>3. Together(g.source, m) => g.source <= m
        BY <2>2, <3>2 DEF From, NoneAfter
      <4>4. g.source \in Nat /\ m \in Nat
        BY <2>2, <3>2 DEF RowsCurrent, IsRow, RowOf
      <4>5. QED
        BY <2>4, <3>2, <4>2, <4>3, <4>4 DEF Together, TogetherIn
    <3>3. CASE f \in others /\ g = entry
      <4>1. SameKey(f, event) /\ event.key \in SingleKeys
        BY <2>4, <2>5, <3>3 DEF SameKey
      <4>2. QED
        BY <2>3, <2>5, <3>3, <4>1
    <3>4. CASE f \in others /\ g \in others
      BY <2>2, <2>5, <3>4 DEF RowsCurrent
    <3>5. QED
      BY <3>1, <3>2, <3>3, <3>4
  <2>6. RowsCurrent(upserted)
    BY <2>2, <2>4, <2>5 DEF RowsCurrent
  <2>7. From(upserted, X)
    BY <2>2, <2>4 DEF From
  <2>8. QED
    BY <2>1, <2>6, <2>7
<1>3. QED
  BY <1>1, <1>2

\* f applies the events one after the other.
Applies(f, entries, events, m, k) ==
  f = [n \in 0 .. k |-> IF n = 0 THEN entries ELSE Applied(f[n - 1], events[n], m)]

LEMMA AppliesExists ==
  ASSUME NEW entries, NEW events, NEW m, NEW k \in Nat
  PROVE  \E f : Applies(f, entries, events, m, k)
<1> DEFINE T == {j \in Nat : \E f : Applies(f, entries, events, m, j)}
<1>1. 0 \in T
  <2>1. Applies([n \in 0 .. 0 |-> entries], entries, events, m, 0)
    BY DEF Applies
  <2>2. QED
    BY <2>1
<1>2. ASSUME NEW j \in 0 .. (k - 1), j \in T
      PROVE  j + 1 \in T
  <2>1. PICK f : Applies(f, entries, events, m, j)
    BY <1>2
  <2> DEFINE g == [n \in 0 .. (j + 1) |->
                     IF n <= j THEN f[n] ELSE Applied(f[n - 1], events[n], m)]
  <2>2. ASSUME NEW n \in 0 .. (j + 1)
        PROVE  g[n] = IF n = 0 THEN entries ELSE Applied(g[n - 1], events[n], m)
    <3>1. CASE n = 0
      BY <2>1, <3>1 DEF Applies
    <3>2. CASE n # 0
      <4>1. n - 1 \in 0 .. (j + 1) /\ n - 1 <= j /\ g[n - 1] = f[n - 1]
        BY <3>2
      <4>2. g[n] = IF n <= j THEN f[n] ELSE Applied(f[n - 1], events[n], m)
        OBVIOUS
      <4>3. n <= j => f[n] = Applied(f[n - 1], events[n], m)
        BY <2>1, <3>2 DEF Applies
      <4>4. QED
        BY <3>2, <4>1, <4>2, <4>3
    <3>3. QED
      BY <3>1, <3>2
  <2>3. g = [n \in 0 .. (j + 1) |-> g[n]]
    OBVIOUS
  <2>4. Applies(g, entries, events, m, j + 1)
    <3> HIDE DEF g
    <3>1. QED
      BY <2>2, <2>3 DEF Applies
  <2>5. QED
    BY <2>4
<1>3. k \in T
  <2> HIDE DEF T
  <2>1. QED
    BY <1>1, <1>2, UpTo
<1>4. QED
  BY <1>3

\* Events about message m keep the rows current.
LEMMA EventsCurrent ==
  ASSUME NEW m \in DOMAIN messages, DOMAIN messages \in SUBSET Nat,
         NEW X, m \in X, NoneAfter(X, m),
         NEW entries, RowsCurrent(entries), From(entries, X), NEW events, Len(events) \in Nat
  PROVE  RowsCurrent(ApplyEvents(entries, events, m)) /\ From(ApplyEvents(entries, events, m), X)
<1> DEFINE C == CHOOSE f : Applies(f, entries, events, m, Len(events))
           T == {n \in 0 .. Len(events) : RowsCurrent(C[n]) /\ From(C[n], X)}
<1>1. Applies(C, entries, events, m, Len(events))
  BY AppliesExists
<1>2. ApplyEvents(entries, events, m) = C[Len(events)]
  BY DEF ApplyEvents, Applies
<1> HIDE DEF C
<1>3. 0 \in T
  BY <1>1 DEF Applies
<1>4. ASSUME NEW n \in 0 .. (Len(events) - 1), n \in T
      PROVE  n + 1 \in T
  <2>1. n + 1 \in 0 .. Len(events) /\ n + 1 # 0 /\ (n + 1) - 1 = n
    OBVIOUS
  <2>2. C[n + 1] = Applied(C[n], events[n + 1], m)
    BY <1>1, <2>1 DEF Applies
  <2>3. RowsCurrent(C[n + 1]) /\ From(C[n + 1], X)
    BY <1>4, <2>2, AppliedCurrent
  <2>4. QED
    BY <2>1, <2>3
<1>5. Len(events) \in T
  <2> HIDE DEF T
  <2>1. QED
    BY <1>3, <1>4, UpTo
<1>6. QED
  BY <1>2, <1>5
-----------------------------------------------------------------------------
(* The invariant *)

MemoryTypes ==
  /\ convs \subseteq Convs
  /\ messages \in Seq(Rows)
  /\ saving \in [Convs -> DOMAIN messages \cup {NoMessage}]
  /\ lane \in Seq(DOMAIN messages) /\ missed \subseteq DOMAIN messages
  /\ enriching \in [of : DOMAIN messages \cup {NoMessage},
                    step : {"none", "classify", "read", "store"},
                    count : Nat, read : Seq(DOMAIN messages)]
  /\ enriching.of = NoMessage => enriching.step = "none"

\* A voice session commits before it enqueues; a row lives in a conversation that does.
RowsLive ==
  \A m \in DOMAIN messages :
    /\ Voice(m) => messages[m].state # "flushed"
    /\ messages[m].state # "gone" => messages[m].conv \in convs
    /\ ~Voice(m) => messages[m].conv \in HttpConvs

SavingOwn ==
  \A c \in Convs : saving[c] # NoMessage => messages[saving[c]].conv = c /\ Voice(saving[c])

\* Nobody saves in the conversation of the job that runs.
KeyHeld == enriching.of # NoMessage => saving[messages[enriching.of].conv] = NoMessage

SavedInv == RowsLive /\ SavingOwn /\ KeyHeld /\ JobFindsMessage

\* The messages of one voice conversation are in the order in which they were saved
\* on their whole way: known facts, the job, the lane, the save.
Ahead(m, n) == Together(m, n) => m < n

LaneOrdered == \A i, j \in DOMAIN lane : i < j => Ahead(lane[i], lane[j])
SavingLast ==
  \A c \in Convs : saving[c] # NoMessage => \A i \in DOMAIN lane : Ahead(lane[i], saving[c])
JobFirst == enriching.of # NoMessage => \A i \in DOMAIN lane : Ahead(enriching.of, lane[i])

\* A message all that is under way comes after.
Passed(m) ==
  /\ m \in DOMAIN messages
  /\ \A i \in DOMAIN lane : Ahead(m, lane[i])
  /\ \A c \in Convs : saving[c] # NoMessage => Ahead(m, saving[c])
Learnt(m) == Passed(m) /\ (enriching.of # NoMessage => Ahead(m, enriching.of))

LaneInv ==
  /\ LaneOrdered /\ SavingLast /\ JobFirst
  /\ \A f \in facts : Learnt(f.source)
  /\ RowsCurrent(facts)

\* The job counts, and reads, what is still there when it stores.
JobConv == messages[enriching.of].conv
JobCounts ==
  /\ enriching.step \in {"read", "store"} /\ JobConv \in convs \ HttpConvs
  => enriching.count = Len(Visible(JobConv))
JobRead ==
  /\ enriching.step = "store" /\ JobConv \in convs \ HttpConvs
  => enriching.read = Newest(Visible(JobConv),
                             IF enriching.count <= Threshold THEN ChunkSize ELSE Recent)

TileInv == JobCounts /\ JobRead /\ ChunksTile /\ \A k \in chunks : k.conv \in convs

\* What is stored refers to messages that are there.
ReadSeen ==
  /\ enriching.step = "store" /\ JobConv \in convs
  => \A i \in DOMAIN enriching.read : enriching.read[i] \in Seen(JobConv)
StoredSeen ==
  /\ \A k \in chunks : k.conv \in convs /\ {k.first, k.last} \subseteq Seen(k.conv)
  /\ \A c \in Convs : \A i \in DOMAIN summary[c] : summary[c][i] \in Seen(c)
  /\ DOMAIN summary = Convs

SeenInv == ReadSeen /\ StoredSeen

MemoryInv == MemoryTypes /\ SavedInv /\ LaneInv /\ TileInv /\ SeenInv
-----------------------------------------------------------------------------
(* Types *)

\* No message changes its conversation, role or path, or comes back.
Grown ==
  /\ messages' \in Seq(Rows) /\ DOMAIN messages \subseteq DOMAIN messages'
  /\ DOMAIN messages' \in SUBSET Nat
  /\ \A m \in DOMAIN messages :
       /\ messages'[m].conv = messages[m].conv /\ messages'[m].role = messages[m].role
       /\ messages'[m].path = messages[m].path
       /\ messages[m].state = "gone" => messages'[m].state = "gone"

InState(entry, state) == [entry EXCEPT !.state = state]

\* The rows of some messages take another state.
Restated(q, K, state) == [m \in DOMAIN q |-> IF m \in K THEN InState(q[m], state) ELSE q[m]]

LEMMA RestatedRow ==
  ASSUME NEW entry \in Rows, NEW state \in {"flushed", "committed", "gone"}
  PROVE  /\ InState(entry, state) \in Rows
         /\ InState(entry, state).conv = entry.conv /\ InState(entry, state).role = entry.role
         /\ InState(entry, state).path = entry.path /\ InState(entry, state).state = state
BY DEF Rows, InState

LEMMA RestatedRows ==
  ASSUME NEW q \in Seq(Rows), NEW K, NEW state \in {"flushed", "committed", "gone"}
  PROVE  /\ Restated(q, K, state) \in Seq(Rows) /\ Len(Restated(q, K, state)) = Len(q)
         /\ DOMAIN Restated(q, K, state) = DOMAIN q
         /\ \A n \in DOMAIN q :
              /\ Restated(q, K, state)[n].conv = q[n].conv
              /\ Restated(q, K, state)[n].role = q[n].role
              /\ Restated(q, K, state)[n].path = q[n].path
              /\ Restated(q, K, state)[n].state = IF n \in K THEN state ELSE q[n].state
<1>1. DOMAIN q = 1 .. Len(q) /\ Len(q) \in Nat /\ \A n \in 1 .. Len(q) : q[n] \in Rows
  OBVIOUS
<1>2. /\ DOMAIN Restated(q, K, state) = 1 .. Len(q)
      /\ \A n \in 1 .. Len(q) : Restated(q, K, state)[n] =
           IF n \in K THEN InState(q[n], state) ELSE q[n]
  BY <1>1 DEF Restated
<1>3. ASSUME NEW n \in 1 .. Len(q)
      PROVE  /\ Restated(q, K, state)[n] \in Rows
             /\ Restated(q, K, state)[n].conv = q[n].conv
             /\ Restated(q, K, state)[n].role = q[n].role
             /\ Restated(q, K, state)[n].path = q[n].path
             /\ Restated(q, K, state)[n].state = IF n \in K THEN state ELSE q[n].state
  <2>1. q[n] \in Rows
    BY <1>1
  <2>2. CASE n \in K
    BY <1>2, <2>1, <2>2, RestatedRow
  <2>3. CASE n \notin K
    BY <1>2, <2>1, <2>3
  <2>4. QED
    BY <2>2, <2>3
<1>4. Restated(q, K, state) \in Seq(Rows) /\ Len(Restated(q, K, state)) = Len(q)
  <2>1. Restated(q, K, state) \in [1 .. Len(q) -> Rows]
    BY <1>1, <1>3 DEF Restated
  <2>2. QED
    BY <1>1, <2>1
<1>5. QED
  BY <1>1, <1>2, <1>3, <1>4

\* The end of a request, and the delete of a conversation, as such changes.
LEMMA EndRestates ==
  ASSUME MemoryTypes, NEW m \in DOMAIN messages, HttpEnd(m)
  PROVE  /\ messages[m].state = "flushed"
         /\ \E state \in {"committed", "gone"} : messages' = Restated(messages, {m}, state)
<1>1. ASSUME NEW q \in Seq(Rows), NEW state
      PROVE  [q EXCEPT ![m].state = state] = Restated(q, {m}, state)
  <2>1. [q EXCEPT ![m].state = state] =
          [n \in DOMAIN q |-> IF n = m THEN [q[n] EXCEPT !.state = state] ELSE q[n]]
    OBVIOUS
  <2>2. QED
    BY <2>1 DEF Restated, InState
<1>2. messages \in Seq(Rows)
  BY DEF MemoryTypes
<1>3. QED
  BY <1>1, <1>2 DEF HttpEnd

LEMMA DeleteRestates ==
  ASSUME NEW c, DeleteConversation(c)
  PROVE  messages' = Restated(messages, {m \in DOMAIN messages : messages[m].conv = c}, "gone")
BY DEF DeleteConversation, Restated, InState

LEMMA RowSaved ==
  ASSUME MemoryTypes, NEW c \in Convs, NEW role \in Roles, NEW way \in {"voice", "http"},
         NEW state \in {"flushed", "committed", "gone"},
         messages' = Append(messages, Row(c, role, way, state))
  PROVE  /\ Grown /\ Len(messages) + 1 \in DOMAIN messages'
         /\ Len(messages) \in Nat /\ DOMAIN messages = 1 .. Len(messages)
         /\ messages'[Len(messages) + 1] = Row(c, role, way, state)
         /\ \A m \in DOMAIN messages : messages'[m] = messages[m]
         /\ \A m \in DOMAIN messages' : m \in DOMAIN messages \/ m = Len(messages) + 1
         /\ Row(c, role, way, state) \in Rows
<1>1. messages \in Seq(Rows) /\ Row(c, role, way, state) \in Rows
  BY DEF MemoryTypes, Row, Rows
<1>2. /\ messages' \in Seq(Rows) /\ DOMAIN messages' = 1 .. (Len(messages) + 1)
      /\ DOMAIN messages = 1 .. Len(messages) /\ Len(messages) \in Nat
      /\ messages'[Len(messages) + 1] = Row(c, role, way, state)
      /\ \A m \in 1 .. Len(messages) : messages'[m] = messages[m]
  BY <1>1, Appended
<1>3. QED
  BY <1>1, <1>2 DEF Grown

LEMMA RowsGrow == ASSUME MemoryTypes, [MemoryNext]_memoryVars PROVE Grown
<1>1. messages \in Seq(Rows) /\ DOMAIN messages \in SUBSET Nat
  BY DEF MemoryTypes
<1>2. CASE \E c \in Convs, role \in Roles : SaveCommit(c, role)
  BY <1>2, RowSaved DEF SaveCommit
<1>3. CASE \E c \in Convs, role \in Roles : HttpFlush(c, role)
  BY <1>3, RowSaved DEF HttpFlush
<1>4. CASE \E m \in DOMAIN messages : HttpEnd(m)
  <2>1. PICK m \in DOMAIN messages, state \in {"committed", "gone"} :
          messages' = Restated(messages, {m}, state) /\ messages[m].state = "flushed"
    BY <1>4, EndRestates
  <2>2. /\ messages' \in Seq(Rows) /\ DOMAIN messages' = DOMAIN messages
        /\ \A n \in DOMAIN messages :
             /\ messages'[n].conv = messages[n].conv /\ messages'[n].role = messages[n].role
             /\ messages'[n].path = messages[n].path
             /\ messages'[n].state = IF n \in {m} THEN state ELSE messages[n].state
    BY <1>1, <2>1, RestatedRows
  <2>3. QED
    BY <1>1, <2>1, <2>2 DEF Grown
<1>5. CASE \E c \in Convs : DeleteConversation(c)
  <2>1. PICK K : messages' = Restated(messages, K, "gone")
    BY <1>5, DeleteRestates
  <2>2. /\ messages' \in Seq(Rows) /\ DOMAIN messages' = DOMAIN messages
        /\ \A n \in DOMAIN messages :
             /\ messages'[n].conv = messages[n].conv /\ messages'[n].role = messages[n].role
             /\ messages'[n].path = messages[n].path
             /\ messages'[n].state = IF n \in K THEN "gone" ELSE messages[n].state
    BY <1>1, <2>1, RestatedRows
  <2>3. QED
    BY <1>1, <2>2 DEF Grown
<1>6. CASE UNCHANGED messages
  BY <1>1, <1>6 DEF Grown
<1>7. QED
  BY <1>2, <1>3, <1>4, <1>5, <1>6 DEF MemoryNext, memoryVars, savedVars, SaveEnqueue, Forget,
     TakeJob, LearnFacts, ReadRecent, StoreMemory

LEMMA JobTaken ==
  ASSUME MemoryTypes, TakeJob
  PROVE  \E m \in DOMAIN messages :
           /\ lane # <<>> /\ m = lane[1] /\ 1 \in DOMAIN lane
           /\ enriching = NoJob /\ saving[messages[m].conv] = NoMessage
           /\ lane' = Only(lane, DOMAIN messages \ {m})
           /\ UNCHANGED <<convs, messages, saving, facts, chunks, summary>>
           /\ \/ missed' = missed
              \/ /\ missed' = missed \cup {m}
                 /\ ~(messages[m].conv \in convs /\ messages[m].state = "committed")
           /\ \/ enriching' = NoJob
              \/ enriching' = Job(m, "classify", 0)
              \/ enriching' = Job(m, "read", Len(Visible(messages[m].conv)))
<1>1. PICK m \in HeadJob :
        /\ enriching = NoJob /\ Locked(m)
        /\ lane' = Only(lane, DOMAIN messages \ {m})
        /\ UNCHANGED <<convs, messages, saving, facts, chunks, summary>>
        /\ missed' = IF messages[m].conv \in convs /\ messages[m].state = "committed"
                     THEN missed ELSE missed \cup {m}
        /\ \/ enriching' = NoJob
           \/ enriching' = Job(m, "classify", 0)
           \/ enriching' = Job(m, "read", Len(Visible(messages[m].conv)))
  BY DEF TakeJob, savedVars, learntVars
<1>2. /\ lane # <<>> /\ m = Head(lane) /\ lane \in Seq(DOMAIN messages)
  BY DEF HeadJob, MemoryTypes
<1>3. m = lane[1] /\ 1 \in DOMAIN lane /\ m \in DOMAIN messages
  BY <1>2
<1>4. QED
  BY <1>1, <1>2, <1>3 DEF Locked

LEMMA NewestIs ==
  ASSUME NEW S, NEW ids \in Seq(S), NEW n \in Nat \ {0}
  PROVE  /\ Newest(ids, n) \in Seq(S)
         /\ Len(Newest(ids, n)) = IF Len(ids) <= n THEN Len(ids) ELSE n
         /\ \A i \in 1 .. Len(Newest(ids, n)) :
              /\ i + (Len(ids) - Len(Newest(ids, n))) \in 1 .. Len(ids)
              /\ Newest(ids, n)[i] = ids[i + (Len(ids) - Len(Newest(ids, n)))]
<1>1. Len(ids) \in Nat /\ Len(ids) - n + 1 \in Int
  OBVIOUS
<1>2. PICK from \in Nat : /\ from = Max({1, Len(ids) - n + 1})
                          /\ from = IF Len(ids) <= n THEN 1 ELSE Len(ids) - n + 1
  BY <1>1, LargerOfTwo
<1>3. PICK r : r = SubSeq(ids, from, Len(ids))
  OBVIOUS
<1>4. /\ r \in Seq(S) /\ Len(r) = (Len(ids) - from) + 1
      /\ \A i \in 1 .. Len(r) : i + (from - 1) \in 1 .. Len(ids) /\ r[i] = ids[i + (from - 1)]
  <2>1. from \in 1 .. Len(ids) + 1 /\ Len(ids) \in from - 1 .. Len(ids)
    BY <1>1, <1>2
  <2>2. /\ SubSeq(ids, from, Len(ids)) \in Seq(S)
        /\ Len(SubSeq(ids, from, Len(ids))) = (Len(ids) - from) + 1
    BY <2>1, SubSeqProperties
  <2>3. \A i \in 1 .. (Len(ids) - from) + 1 : SubSeq(ids, from, Len(ids))[i] = ids[from + i - 1]
    BY <2>1, SubSeqProperties
  <2>4. \A i \in 1 .. (Len(ids) - from) + 1 :
          i + (from - 1) \in 1 .. Len(ids) /\ i + (from - 1) = from + i - 1
    BY <1>1, <2>1
  <2>5. QED
    BY <1>3, <2>2, <2>3, <2>4
<1>5. /\ Len(r) = IF Len(ids) <= n THEN Len(ids) ELSE n
      /\ from - 1 = Len(ids) - Len(r)
  BY <1>1, <1>2, <1>4
<1>6. Newest(ids, n) = r
  BY <1>2, <1>3 DEF Newest
<1>7. QED
  BY <1>4, <1>5, <1>6

LEMMA RecentTyped ==
  ASSUME MemoryTypes, NEW c, NEW n \in Nat \ {0}
  PROVE  /\ Visible(c) = VisibleIn(messages, c)
         /\ Newest(Visible(c), n) \in Seq(Seen(c)) /\ Seen(c) \in SUBSET (DOMAIN messages)
         /\ Newest(Visible(c), n) \in Seq(DOMAIN messages)
<1>1. Visible(c) = VisibleIn(messages, c)
  BY DEF Visible, VisibleIn, SeenIn
<1>2. messages \in Seq(Rows)
  BY DEF MemoryTypes
<1>3. VisibleIn(messages, c) \in Seq(SeenIn(messages, c))
  BY <1>2, VisibleIs
<1>4. Newest(VisibleIn(messages, c), n) \in Seq(SeenIn(messages, c))
  BY <1>3, NewestIs
<1>5. SeenIn(messages, c) \in SUBSET (DOMAIN messages)
  BY DEF SeenIn
<1>6. QED
  BY <1>1, <1>4, <1>5, SeqMono DEF Seen

LEMMA LimitPositive ==
  ASSUME NEW count
  PROVE  /\ (IF count <= Threshold THEN ChunkSize ELSE Recent) \in Nat \ {0}
         /\ (IF count <= Threshold THEN ChunkSize ELSE Recent) >= ChunkSize
         /\ ChunkSize \in Nat \ {0, 1}
BY MemoryAssumption

LEMMA TypesStep == ASSUME MemoryTypes, [MemoryNext]_memoryVars PROVE MemoryTypes'
<1>1. /\ convs \subseteq Convs /\ messages \in Seq(Rows)
      /\ saving \in [Convs -> DOMAIN messages \cup {NoMessage}]
      /\ lane \in Seq(DOMAIN messages) /\ missed \subseteq DOMAIN messages
      /\ enriching \in [of : DOMAIN messages \cup {NoMessage},
                        step : {"none", "classify", "read", "store"},
                        count : Nat, read : Seq(DOMAIN messages)]
      /\ enriching.of = NoMessage => enriching.step = "none"
  BY DEF MemoryTypes
<1>2. Grown
  BY RowsGrow
<1>3. /\ messages' \in Seq(Rows) /\ DOMAIN messages \subseteq DOMAIN messages'
      /\ lane \in Seq(DOMAIN messages') /\ missed \subseteq DOMAIN messages'
      /\ saving \in [Convs -> DOMAIN messages' \cup {NoMessage}]
      /\ Seq(DOMAIN messages) \subseteq Seq(DOMAIN messages')
  BY <1>1, <1>2, SeqMono DEF Grown
<1>4. enriching \in [of : DOMAIN messages' \cup {NoMessage},
                    step : {"none", "classify", "read", "store"},
                    count : Nat, read : Seq(DOMAIN messages')]
  BY <1>1, <1>3
<1>5. NoJob \in [of : DOMAIN messages' \cup {NoMessage},
                step : {"none", "classify", "read", "store"},
                count : Nat, read : Seq(DOMAIN messages')]
      /\ NoJob.step = "none"
  BY DEF NoJob, Job
<1>6. CASE \E c \in Convs, role \in Roles : SaveCommit(c, role)
  <2>1. PICK c \in Convs, role \in Roles : SaveCommit(c, role)
    BY <1>6
  <2>2. /\ Len(messages) + 1 \in DOMAIN messages'
        /\ saving' = [saving EXCEPT ![c] = Len(messages) + 1]
        /\ UNCHANGED <<convs, lane, enriching, missed>>
    BY <2>1, RowSaved DEF SaveCommit, learntVars
  <2>3. saving' \in [Convs -> DOMAIN messages' \cup {NoMessage}]
    BY <1>3, <2>2
  <2>4. QED
    BY <1>1, <1>3, <1>4, <2>2, <2>3 DEF MemoryTypes
<1>7. CASE \E c \in Convs : SaveEnqueue(c)
  <2>1. PICK c \in Convs : SaveEnqueue(c)
    BY <1>7
  <2>2. /\ saving[c] \in DOMAIN messages
        /\ saving' = [saving EXCEPT ![c] = NoMessage]
        /\ lane' \in {lane, Append(lane, saving[c])}
        /\ UNCHANGED <<convs, messages, enriching, missed>>
    BY <1>1, <2>1 DEF SaveEnqueue, learntVars
  <2>3. Append(lane, saving[c]) \in Seq(DOMAIN messages)
    BY <1>1, <2>2
  <2>4. lane' \in Seq(DOMAIN messages)
    BY <1>1, <2>2, <2>3
  <2>5. saving' \in [Convs -> DOMAIN messages \cup {NoMessage}]
    BY <1>1, <2>2
  <2>6. QED
    BY <1>1, <1>3, <1>4, <2>2, <2>4, <2>5 DEF MemoryTypes
<1>8. CASE \E c \in Convs, role \in Roles : HttpFlush(c, role)
  <2>1. PICK c \in Convs, role \in Roles : HttpFlush(c, role)
    BY <1>8
  <2>2. /\ Len(messages) + 1 \in DOMAIN messages'
        /\ lane' = Append(lane, Len(messages) + 1)
        /\ UNCHANGED <<convs, saving, enriching, missed>>
    BY <2>1, RowSaved DEF HttpFlush, learntVars
  <2>3. lane' \in Seq(DOMAIN messages')
    BY <1>3, <2>2
  <2>4. QED
    BY <1>1, <1>3, <1>4, <2>2, <2>3 DEF MemoryTypes
<1>9. CASE \E m \in DOMAIN messages : HttpEnd(m)
  BY <1>1, <1>3, <1>4, <1>9 DEF HttpEnd, learntVars, MemoryTypes
<1>10. CASE \E c \in Convs : DeleteConversation(c)
  BY <1>1, <1>3, <1>4, <1>10 DEF DeleteConversation, MemoryTypes
<1>11. CASE TakeJob
  <2>1. PICK m \in DOMAIN messages :
           /\ lane' = Only(lane, DOMAIN messages \ {m})
           /\ UNCHANGED <<convs, messages, saving, facts, chunks, summary>>
           /\ missed' = missed \/ missed' = missed \cup {m}
           /\ \/ enriching' = NoJob
              \/ enriching' = Job(m, "classify", 0)
              \/ enriching' = Job(m, "read", Len(Visible(messages[m].conv)))
    BY <1>11, JobTaken
  <2>2. Only(lane, DOMAIN messages \ {m}) \in
            Seq(DOMAIN messages \cap (DOMAIN messages \ {m}))
    BY <1>1, OnlyTyped
  <2>3. lane' \in Seq(DOMAIN messages)
    BY <2>1, <2>2, SeqMono
  <2>4. Len(Visible(messages[m].conv)) \in Nat
    BY <1>1, VisibleIs DEF Visible, VisibleIn, SeenIn
  <2>5. \A count \in Nat, step \in {"classify", "read"} :
          /\ Job(m, step, count) \in [of : DOMAIN messages' \cup {NoMessage},
                                     step : {"none", "classify", "read", "store"},
                                     count : Nat, read : Seq(DOMAIN messages')]
          /\ Job(m, step, count).of # NoMessage
    <3>1. m # NoMessage
      BY <1>1, MemoryAssumption
    <3>2. QED
      BY <2>1, <3>1 DEF Job
  <2>6. enriching' \in [of : DOMAIN messages' \cup {NoMessage},
                       step : {"none", "classify", "read", "store"},
                       count : Nat, read : Seq(DOMAIN messages')]
        /\ (enriching'.of = NoMessage => enriching'.step = "none")
    BY <1>5, <2>1, <2>4, <2>5
  <2>7. QED
    BY <1>1, <1>3, <2>1, <2>3, <2>6 DEF MemoryTypes
<1>12. CASE Forget \/ LearnFacts \/ StoreMemory
  <2>1. enriching' \in {enriching, NoJob} /\ UNCHANGED <<convs, messages, saving, lane, missed>>
    BY <1>12 DEF Forget, LearnFacts, StoreMemory, savedVars
  <2>2. QED
    BY <1>1, <1>3, <1>4, <1>5, <2>1 DEF MemoryTypes
<1>13. CASE ReadRecent
  <2>1. PICK limit \in Nat \ {0} :
          /\ enriching' = [enriching EXCEPT !.step = "store",
                            !.read = Newest(Visible(messages[enriching.of].conv), limit)]
          /\ enriching.of # NoMessage /\ UNCHANGED <<convs, messages, saving, lane, missed>>
    BY <1>1, <1>13, LimitPositive DEF ReadRecent, savedVars, learntVars
  <2>2. Newest(Visible(messages[enriching.of].conv), limit) \in Seq(DOMAIN messages)
    BY RecentTyped
  <2>3. enriching' \in [of : DOMAIN messages \cup {NoMessage},
                       step : {"none", "classify", "read", "store"},
                       count : Nat, read : Seq(DOMAIN messages)]
        /\ enriching'.of = enriching.of
    BY <1>1, <2>1, <2>2
  <2>4. QED
    BY <1>1, <1>3, <2>1, <2>3 DEF MemoryTypes
<1>14. CASE UNCHANGED memoryVars
  BY <1>1, <1>14 DEF memoryVars, savedVars, learntVars, MemoryTypes
<1>15. QED
  BY <1>6, <1>7, <1>8, <1>9, <1>10, <1>11, <1>12, <1>13, <1>14 DEF MemoryNext

-----------------------------------------------------------------------------
(* Saving *)

LEMMA RowsLiveStep == ASSUME MemoryTypes, RowsLive, [MemoryNext]_memoryVars PROVE RowsLive'
<1>1. messages \in Seq(Rows)
  BY DEF MemoryTypes
<1>2. ASSUME NEW c \in convs, NEW entry \in Rows, entry.conv = c, messages' = Append(messages, entry),
             entry.path = "voice" => entry.state # "flushed",
             entry.path # "voice" => c \in HttpConvs, convs' = convs
      PROVE  RowsLive'
  <2>1. \A m \in DOMAIN messages' :
          messages'[m] = entry \/ (m \in DOMAIN messages /\ messages'[m] = messages[m])
    BY <1>1, <1>2, Appended
  <2>2. QED
    BY <1>2, <2>1 DEF RowsLive, Voice
<1>3. CASE \E c \in Convs, role \in Roles : SaveCommit(c, role) \/ HttpFlush(c, role)
  <2>1. PICK c \in Convs, role \in Roles, way \in {"voice", "http"},
             state \in {"flushed", "committed"} :
          /\ c \in convs /\ convs' = convs /\ (way = "voice" => state # "flushed")
          /\ (way # "voice" => c \in HttpConvs)
          /\ messages' = Append(messages, Row(c, role, way, state))
    BY <1>3 DEF SaveCommit, HttpFlush
  <2>2. /\ Row(c, role, way, state) \in Rows /\ Row(c, role, way, state).conv = c
        /\ Row(c, role, way, state).path = way /\ Row(c, role, way, state).state = state
    BY DEF Row, Rows
  <2>3. QED
    BY <1>2, <2>1, <2>2
<1>4. CASE \E m \in DOMAIN messages : HttpEnd(m)
  <2>1. PICK m \in DOMAIN messages, state \in {"committed", "gone"} :
          messages' = Restated(messages, {m}, state) /\ messages[m].state = "flushed"
    BY <1>4, EndRestates
  <2>2. /\ DOMAIN messages' = DOMAIN messages
        /\ \A n \in DOMAIN messages :
             /\ messages'[n].conv = messages[n].conv /\ messages'[n].path = messages[n].path
             /\ messages'[n].state = IF n \in {m} THEN state ELSE messages[n].state
    BY <1>1, <2>1, RestatedRows
  <2>3. convs' = convs
    BY <1>4 DEF HttpEnd
  <2>4. messages[m].conv \in convs
    BY <2>1 DEF RowsLive
  <2>5. QED
    BY <2>2, <2>3, <2>4 DEF RowsLive, Voice
<1>5. CASE \E c \in Convs : DeleteConversation(c)
  <2>1. PICK c \in Convs : DeleteConversation(c)
    BY <1>5
  <2>2. messages' = Restated(messages, {m \in DOMAIN messages : messages[m].conv = c}, "gone")
    BY <2>1, DeleteRestates
  <2>3. /\ DOMAIN messages' = DOMAIN messages
        /\ \A n \in DOMAIN messages :
             /\ messages'[n].conv = messages[n].conv /\ messages'[n].path = messages[n].path
             /\ messages'[n].state =
                  IF n \in {m \in DOMAIN messages : messages[m].conv = c} THEN "gone"
                  ELSE messages[n].state
    BY <1>1, <2>2, RestatedRows
  <2>4. convs' = convs \ {c}
    BY <2>1 DEF DeleteConversation
  <2>5. QED
    BY <2>3, <2>4 DEF RowsLive, Voice
<1>6. CASE UNCHANGED <<messages, convs>>
  BY <1>6 DEF RowsLive, Voice
<1>7. QED
  BY <1>3, <1>4, <1>5, <1>6 DEF MemoryNext, memoryVars, savedVars, SaveEnqueue, Forget,
     TakeJob, LearnFacts, ReadRecent, StoreMemory

LEMMA RowTyped ==
  ASSUME MemoryTypes, NEW m \in DOMAIN messages
  PROVE  /\ messages[m].conv \in Convs /\ messages[m].path \in {"voice", "http"}
         /\ messages[m].state \in {"flushed", "committed", "gone"}
<1>1. messages[m] \in Rows
  BY DEF MemoryTypes
<1>2. QED
  BY <1>1 DEF Rows

LEMMA SavedStep ==
  ASSUME MemoryTypes, SavedInv, [MemoryNext]_memoryVars
  PROVE  SavedInv'
<1>1. /\ messages \in Seq(Rows)
      /\ saving \in [Convs -> DOMAIN messages \cup {NoMessage}]
      /\ missed \subseteq DOMAIN messages
      /\ enriching.of \in DOMAIN messages \cup {NoMessage}
      /\ \A m \in DOMAIN messages : messages[m].conv \in Convs
  BY RowTyped DEF MemoryTypes
<1>2. /\ Grown /\ RowsLive' /\ RowsLive
  BY RowsGrow, RowsLiveStep DEF SavedInv
<1>3. NoMessage \notin DOMAIN messages
  BY <1>1, MemoryAssumption
<1>4. CASE \E c \in Convs, role \in Roles : SaveCommit(c, role)
  <2>1. PICK c \in Convs, role \in Roles : SaveCommit(c, role)
    BY <1>4
  <2>2. /\ saving' = [saving EXCEPT ![c] = Len(messages) + 1] /\ KeyFree(c)
        /\ messages'[Len(messages) + 1] = Row(c, role, "voice", "committed")
        /\ UNCHANGED <<enriching, missed>>
    BY <2>1, RowSaved DEF SaveCommit
  <2>3. SavingOwn'
    BY <1>1, <1>2, <2>2 DEF SavedInv, SavingOwn, Voice, Row, Grown
  <2>4. KeyHeld'
    BY <1>1, <1>2, <2>2 DEF SavedInv, KeyHeld, KeyFree, Grown
  <2>5. JobFindsMessage'
    BY <1>1, <1>2, <2>2 DEF SavedInv, JobFindsMessage, Grown
  <2>6. QED
    BY <1>2, <2>3, <2>4, <2>5 DEF SavedInv
<1>5. CASE \E c \in Convs : SaveEnqueue(c)
  BY <1>1, <1>2, <1>5 DEF SaveEnqueue, SavedInv, SavingOwn, KeyHeld, JobFindsMessage, Voice,
     learntVars
<1>6. CASE TakeJob
  <2>1. PICK m \in DOMAIN messages :
           /\ saving[messages[m].conv] = NoMessage /\ UNCHANGED <<convs, messages, saving>>
           /\ \/ missed' = missed
              \/ /\ missed' = missed \cup {m}
                 /\ ~(messages[m].conv \in convs /\ messages[m].state = "committed")
           /\ \/ enriching' = NoJob
              \/ enriching' = Job(m, "classify", 0)
              \/ enriching' = Job(m, "read", Len(Visible(messages[m].conv)))
    BY <1>6, JobTaken
  <2>2. enriching'.of \in {NoMessage, m}
    BY <2>1 DEF Job, NoJob
  <2>3. messages[m].state \in {"flushed", "committed", "gone"}
    BY RowTyped
  <2>4. JobFindsMessage'
    BY <1>1, <1>2, <2>1, <2>3 DEF SavedInv, JobFindsMessage, RowsLive, Voice
  <2>5. SavingOwn' /\ KeyHeld'
    BY <2>1, <2>2 DEF SavedInv, SavingOwn, KeyHeld, Voice
  <2>6. QED
    BY <1>2, <2>4, <2>5 DEF SavedInv
<1>7. CASE /\ UNCHANGED <<saving, missed>> /\ enriching'.of \in {enriching.of, NoMessage}
  BY <1>1, <1>2, <1>7 DEF SavedInv, SavingOwn, KeyHeld, JobFindsMessage, Voice, Grown
<1>8. ASSUME [MemoryNext]_memoryVars, ~TakeJob,
             ~\E c \in Convs, role \in Roles : SaveCommit(c, role),
             ~\E c \in Convs : SaveEnqueue(c)
      PROVE  UNCHANGED <<saving, missed>> /\ enriching'.of \in {enriching.of, NoMessage}
  <2>1. NoJob.of = NoMessage
    BY DEF NoJob, Job
  <2>2. ReadRecent => enriching'.of = enriching.of
    BY DEF ReadRecent, MemoryTypes
  <2>3. QED
    BY <1>8, <2>1, <2>2 DEF MemoryNext, memoryVars, savedVars, HttpFlush, HttpEnd, Forget,
       DeleteConversation, LearnFacts, ReadRecent, StoreMemory, learntVars
<1>9. QED
  BY <1>4, <1>5, <1>6, <1>7, <1>8

-----------------------------------------------------------------------------
(* Facts *)

LEMMA TogetherKept ==
  ASSUME MemoryTypes, Grown
  PROVE  \A m, n \in DOMAIN messages : TogetherIn(messages', m, n) <=> TogetherIn(messages, m, n)
BY DEF Grown, TogetherIn

LEMMA RowsKept ==
  ASSUME MemoryTypes, Grown, RowsCurrent(facts), facts' \subseteq facts
  PROVE  RowsCurrent(facts)'
<1>1. \A f \in facts : IsRow(f) /\ f.source \in DOMAIN messages
  BY DEF RowsCurrent, IsRow, RowOf
<1>2. ASSUME NEW f \in facts
      PROVE  IsRow(f)'
  <2>1. PICK types, keys, values : RowOf(f, types, keys, values)
    BY <1>1 DEF IsRow
  <2>2. RowOf(f, types, keys, values)'
    BY <2>1 DEF RowOf, Grown
  <2>3. QED
    BY <2>2 DEF IsRow
<1>3. \A f \in facts' : IsRow(f)'
  BY <1>2
<1>4. ASSUME NEW f \in facts', NEW g \in facts',
             f.active, f.key \in SingleKeys, f.type = g.type, f.key = g.key
      PROVE  /\ g.active => f = g
             /\ TogetherIn(messages', f.source, g.source) => f.source >= g.source
  <2>1. f \in facts /\ g \in facts
    OBVIOUS
  <2>2. /\ g.active => f = g
        /\ TogetherIn(messages, f.source, g.source) => f.source >= g.source
    BY <1>4, <2>1 DEF RowsCurrent, Together
  <2>3. QED
    BY <1>1, <2>1, <2>2, TogetherKept
<1>5. QED
  BY <1>3, <1>4 DEF RowsCurrent, Together

\* Whatever leaves the queues alone.
LEMMA OrderKept ==
  ASSUME MemoryTypes, LaneInv, Grown, UNCHANGED <<saving, lane>>,
         enriching'.of \in {enriching.of, NoMessage}, facts' \subseteq facts
  PROVE  LaneInv'
<1>1. /\ \A i \in DOMAIN lane : lane[i] \in DOMAIN messages
      /\ \A c \in Convs : saving[c] # NoMessage => saving[c] \in DOMAIN messages
      /\ enriching.of # NoMessage => enriching.of \in DOMAIN messages
      /\ DOMAIN messages \subseteq DOMAIN messages'
  BY DEF MemoryTypes, Grown
<1>2. \A m, n \in DOMAIN messages : TogetherIn(messages', m, n) <=> TogetherIn(messages, m, n)
  BY TogetherKept
<1>3. LaneOrdered'
  BY <1>1, <1>2 DEF LaneInv, LaneOrdered, Ahead, Together
<1>4. SavingLast'
  BY <1>1, <1>2 DEF LaneInv, SavingLast, Ahead, Together
<1>5. JobFirst'
  BY <1>1, <1>2 DEF LaneInv, JobFirst, Ahead, Together
<1>6. ASSUME NEW f \in facts'
      PROVE  Learnt(f.source)'
  <2>1. Learnt(f.source) /\ f.source \in DOMAIN messages
    BY DEF LaneInv, Learnt, Passed
  <2>2. QED
    BY <1>1, <1>2, <2>1 DEF Learnt, Passed, Ahead, Together
<1>7. RowsCurrent(facts)'
  BY RowsKept DEF LaneInv
<1>8. QED
  BY <1>3, <1>4, <1>5, <1>6, <1>7 DEF LaneInv

LEMMA OrderSaves ==
  ASSUME MemoryTypes, SavedInv, LaneInv, Grown,
         NEW c \in Convs, NEW role \in Roles, SaveCommit(c, role)
  PROVE  LaneInv'
<1>1. /\ \A i \in DOMAIN lane : lane[i] \in DOMAIN messages
      /\ \A x \in Convs : saving[x] # NoMessage => saving[x] \in DOMAIN messages
      /\ enriching.of # NoMessage => enriching.of \in DOMAIN messages
      /\ DOMAIN messages \subseteq DOMAIN messages'
  BY DEF MemoryTypes, Grown
<1>2. \A m, n \in DOMAIN messages : TogetherIn(messages', m, n) <=> TogetherIn(messages, m, n)
  BY TogetherKept
<1>3. PICK new \in Nat : /\ saving' = [saving EXCEPT ![c] = new]
                         /\ \A m \in DOMAIN messages : m \in Nat /\ m < new
                         /\ UNCHANGED <<lane, enriching, facts>>
  <2>1. /\ Len(messages) \in Nat /\ DOMAIN messages = 1 .. Len(messages)
        /\ saving' = [saving EXCEPT ![c] = Len(messages) + 1]
        /\ UNCHANGED <<lane, enriching, facts>>
    BY DEF SaveCommit, learntVars, MemoryTypes
  <2>2. Len(messages) + 1 \in Nat /\ \A m \in 1 .. Len(messages) : m \in Nat /\ m < Len(messages) + 1
    BY <2>1
  <2>3. QED
    BY <2>1, <2>2
<1>4. LaneOrdered'
  BY <1>1, <1>2, <1>3 DEF LaneInv, LaneOrdered, Ahead, Together
<1>5. SavingLast'
  <2>1. \A x \in Convs : saving'[x] = saving[x] \/ saving'[x] = new
    BY <1>3 DEF MemoryTypes
  <2>2. ASSUME NEW x \in Convs, saving'[x] # NoMessage, NEW i \in DOMAIN lane
        PROVE  TogetherIn(messages', lane[i], saving'[x]) => lane[i] < saving'[x]
    <3>1. CASE saving'[x] = new
      BY <1>1, <1>3, <3>1
    <3>2. CASE saving'[x] = saving[x]
      BY <1>1, <1>2, <2>2, <3>2 DEF LaneInv, SavingLast, Ahead, Together
    <3>3. QED
      BY <2>1, <3>1, <3>2
  <2>3. QED
    BY <1>3, <2>2 DEF SavingLast, Ahead, Together
<1>6. JobFirst'
  BY <1>1, <1>2, <1>3 DEF LaneInv, JobFirst, Ahead, Together
<1>7. ASSUME NEW f \in facts'
      PROVE  Learnt(f.source)'
  <2>1. Learnt(f.source) /\ f.source \in DOMAIN messages
    BY <1>3 DEF LaneInv, Learnt, Passed
  <2>2. QED
    BY <1>1, <1>2, <1>3, <2>1 DEF Learnt, Passed, Ahead, Together, MemoryTypes
<1>8. RowsCurrent(facts)'
  BY <1>3, RowsKept DEF LaneInv
<1>9. QED
  BY <1>4, <1>5, <1>6, <1>7, <1>8 DEF LaneInv

\* A job joins the lane behind all of its conversation.
LEMMA OrderJoins ==
  ASSUME MemoryTypes, LaneInv, Grown, NEW new \in DOMAIN messages', lane' = Append(lane, new),
         \A i \in DOMAIN lane : TogetherIn(messages', lane[i], new) => lane[i] < new,
         \A f \in facts : TogetherIn(messages', f.source, new) => f.source < new,
         \A x \in Convs : saving'[x] # NoMessage =>
            saving'[x] = saving[x] /\ ~TogetherIn(messages', new, saving[x]),
         enriching.of # NoMessage => ~TogetherIn(messages', enriching.of, new),
         UNCHANGED <<enriching, facts>>
  PROVE  LaneInv'
<1>1. /\ \A i \in DOMAIN lane : lane[i] \in DOMAIN messages
      /\ \A x \in Convs : saving[x] # NoMessage => saving[x] \in DOMAIN messages
      /\ enriching.of # NoMessage => enriching.of \in DOMAIN messages
      /\ DOMAIN messages \subseteq DOMAIN messages'
  BY DEF MemoryTypes, Grown
<1>2. \A m, n \in DOMAIN messages : TogetherIn(messages', m, n) <=> TogetherIn(messages, m, n)
  BY TogetherKept
<1>3. /\ Len(lane) \in Nat /\ DOMAIN lane = 1 .. Len(lane)
      /\ DOMAIN lane' = 1 .. (Len(lane) + 1) /\ lane'[Len(lane) + 1] = new
      /\ \A i \in DOMAIN lane : lane'[i] = lane[i]
  <2>1. lane \in Seq(DOMAIN messages') /\ new \in DOMAIN messages'
    BY <1>1, SeqMono DEF MemoryTypes
  <2>2. QED
    BY <2>1, Appended
<1>4. \A i \in DOMAIN lane' : (i \in DOMAIN lane /\ lane'[i] = lane[i])
                             \/ (i = Len(lane) + 1 /\ lane'[i] = new)
  BY <1>3
<1>5. LaneOrdered'
  <2>1. ASSUME NEW i \in DOMAIN lane', NEW j \in DOMAIN lane', i < j
        PROVE  TogetherIn(messages', lane'[i], lane'[j]) => lane'[i] < lane'[j]
    <3>1. i \in DOMAIN lane /\ lane'[i] = lane[i]
      BY <1>3, <1>4, <2>1
    <3>2. CASE j \in DOMAIN lane
      BY <1>1, <1>2, <1>3, <2>1, <3>1, <3>2 DEF LaneInv, LaneOrdered, Ahead, Together
    <3>3. CASE lane'[j] = new
      BY <3>1, <3>3
    <3>4. QED
      BY <1>4, <3>2, <3>3
  <2>2. QED
    BY <2>1 DEF LaneOrdered, Ahead, Together
<1>6. SavingLast'
  <2>1. ASSUME NEW x \in Convs, saving'[x] # NoMessage, NEW i \in DOMAIN lane'
        PROVE  TogetherIn(messages', lane'[i], saving'[x]) => lane'[i] < saving'[x]
    <3>1. CASE i \in DOMAIN lane /\ lane'[i] = lane[i]
      BY <1>1, <1>2, <2>1, <3>1 DEF LaneInv, SavingLast, Ahead, Together
    <3>2. CASE lane'[i] = new
      BY <2>1, <3>2
    <3>3. QED
      BY <1>4, <3>1, <3>2
  <2>2. QED
    BY <2>1 DEF SavingLast, Ahead, Together
<1>7. JobFirst'
  <2>1. ASSUME enriching.of # NoMessage, NEW i \in DOMAIN lane'
        PROVE  TogetherIn(messages', enriching.of, lane'[i]) => enriching.of < lane'[i]
    BY <1>1, <1>2, <1>4, <2>1 DEF LaneInv, JobFirst, Ahead, Together
  <2>2. QED
    BY <2>1 DEF JobFirst, Ahead, Together
<1>8. ASSUME NEW f \in facts
      PROVE  Learnt(f.source)'
  <2>1. Learnt(f.source) /\ f.source \in DOMAIN messages
    BY DEF LaneInv, Learnt, Passed
  <2>2. ASSUME NEW i \in DOMAIN lane'
        PROVE  TogetherIn(messages', f.source, lane'[i]) => f.source < lane'[i]
    BY <1>1, <1>2, <1>4, <2>1 DEF Learnt, Passed, Ahead, Together
  <2>3. ASSUME NEW x \in Convs, saving'[x] # NoMessage
        PROVE  TogetherIn(messages', f.source, saving'[x]) => f.source < saving'[x]
    BY <1>1, <1>2, <2>1, <2>3 DEF Learnt, Passed, Ahead, Together
  <2>4. enriching.of # NoMessage =>
          (TogetherIn(messages', f.source, enriching.of) => f.source < enriching.of)
    BY <1>1, <1>2, <2>1 DEF Learnt, Passed, Ahead, Together
  <2>5. QED
    BY <1>1, <2>1, <2>2, <2>3, <2>4 DEF Learnt, Passed, Ahead, Together
<1>9. RowsCurrent(facts)'
  BY RowsKept DEF LaneInv
<1>10. QED
  BY <1>5, <1>6, <1>7, <1>8, <1>9 DEF LaneInv

LEMMA OrderEnqueues ==
  ASSUME MemoryTypes, SavedInv, LaneInv, Grown, NEW c \in Convs, SaveEnqueue(c)
  PROVE  LaneInv'
<1>1. PICK m \in DOMAIN messages :
        /\ m = saving[c] /\ m # NoMessage /\ saving' = [saving EXCEPT ![c] = NoMessage]
        /\ lane' \in {lane, Append(lane, m)} /\ UNCHANGED <<messages, enriching, facts>>
  BY DEF SaveEnqueue, MemoryTypes, learntVars
<1>2. \A x \in Convs : saving'[x] # NoMessage => saving'[x] = saving[x] /\ x # c
  BY <1>1 DEF MemoryTypes
<1>3. messages[m].conv = c
  BY <1>1 DEF SavedInv, SavingOwn
<1>4. CASE lane' = Append(lane, m)
  <2>1. \A i \in DOMAIN lane : TogetherIn(messages', lane[i], m) => lane[i] < m
    BY <1>1 DEF LaneInv, SavingLast, Ahead, Together
  <2>2. \A f \in facts : TogetherIn(messages', f.source, m) => f.source < m
    BY <1>1 DEF LaneInv, Learnt, Passed, Ahead, Together
  <2>3. \A x \in Convs : saving'[x] # NoMessage =>
            saving'[x] = saving[x] /\ ~TogetherIn(messages', m, saving[x])
    BY <1>1, <1>2, <1>3 DEF SavedInv, SavingOwn, TogetherIn
  <2>4. enriching.of # NoMessage => ~TogetherIn(messages', enriching.of, m)
    BY <1>1, <1>3 DEF SavedInv, KeyHeld, TogetherIn
  <2>5. m \in DOMAIN messages'
    BY <1>1
  <2>6. QED
    BY <1>1, <1>4, <2>1, <2>2, <2>3, <2>4, <2>5, OrderJoins
<1>5. CASE lane' = lane
  <2>1. \A i \in DOMAIN lane : lane[i] \in DOMAIN messages
    BY DEF MemoryTypes
  <2>2. LaneOrdered' /\ JobFirst'
    BY <1>1, <1>5 DEF LaneInv, LaneOrdered, JobFirst, Ahead, Together
  <2>3. SavingLast'
    BY <1>1, <1>2, <1>5 DEF LaneInv, SavingLast, Ahead, Together
  <2>4. ASSUME NEW f \in facts
        PROVE  Learnt(f.source)'
    <3>1. Learnt(f.source)
      BY DEF LaneInv
    <3>2. QED
      BY <1>1, <1>2, <1>5, <3>1 DEF Learnt, Passed, Ahead, Together
  <2>5. RowsCurrent(facts)'
    BY <1>1, RowsKept DEF LaneInv
  <2>6. QED
    BY <1>1, <2>2, <2>3, <2>4, <2>5 DEF LaneInv
<1>6. QED
  BY <1>1, <1>4, <1>5

LEMMA OrderFlushes ==
  ASSUME MemoryTypes, LaneInv, Grown, NEW c \in Convs, NEW role \in Roles, HttpFlush(c, role)
  PROVE  LaneInv'
<1>1. PICK new \in DOMAIN messages' : lane' = Append(lane, new) /\ messages'[new].path = "http"
  <2>1. Len(messages) + 1 \in DOMAIN messages' /\
        messages'[Len(messages) + 1] = Row(c, role, "http", "flushed")
    BY RowSaved DEF HttpFlush
  <2>2. QED
    BY <2>1 DEF HttpFlush, Row
<1>2. \A m : ~TogetherIn(messages', m, new) /\ ~TogetherIn(messages', new, m)
  BY <1>1 DEF TogetherIn
<1>3. UNCHANGED <<saving, enriching, facts>>
  BY DEF HttpFlush, learntVars
<1>4. QED
  BY <1>1, <1>2, <1>3, OrderJoins

LEMMA OrderTakes ==
  ASSUME MemoryTypes, LaneInv, Grown, TakeJob
  PROVE  LaneInv'
<1>1. PICK m \in DOMAIN messages :
        /\ m = lane[1] /\ 1 \in DOMAIN lane /\ lane' = Only(lane, DOMAIN messages \ {m})
        /\ UNCHANGED <<messages, saving, facts>>
        /\ enriching'.of \in {NoMessage, m}
  <2>1. PICK m \in DOMAIN messages :
          /\ m = lane[1] /\ 1 \in DOMAIN lane /\ lane' = Only(lane, DOMAIN messages \ {m})
          /\ UNCHANGED <<messages, saving, facts>>
          /\ \/ enriching' = NoJob
             \/ enriching' = Job(m, "classify", 0)
             \/ enriching' = Job(m, "read", Len(Visible(messages[m].conv)))
    BY JobTaken
  <2>2. enriching'.of \in {NoMessage, m}
    BY <2>1 DEF NoJob, Job
  <2>3. QED
    BY <2>1, <2>2
<1>2. lane \in Seq(DOMAIN messages) /\ DOMAIN lane = 1 .. Len(lane) /\ Len(lane) \in Nat
  BY DEF MemoryTypes
<1>3. PICK e : Places(e, lane', lane, DOMAIN messages \ {m}, Len(lane))
  BY <1>1, <1>2, OnlyPlaces
<1>4. lane' \in Seq(DOMAIN messages \cap (DOMAIN messages \ {m}))
  BY <1>1, <1>2, OnlyTyped
<1>5. /\ DOMAIN lane' = 1 .. Len(lane')
      /\ \A i \in DOMAIN lane' : /\ e[i] \in DOMAIN lane /\ lane'[i] = lane[e[i]]
                                 /\ lane'[i] # m /\ e[i] # 1 /\ 1 < e[i]
      /\ \A i, j \in DOMAIN lane' : i < j => e[i] < e[j]
  <2>1. DOMAIN lane' = 1 .. Len(lane') /\ \A i \in DOMAIN lane' : lane'[i] # m
    BY <1>4
  <2>2. \A i \in DOMAIN lane' : e[i] \in 1 .. Len(lane) /\ lane'[i] = lane[e[i]]
    BY <1>3, <2>1 DEF Places
  <2>3. \A i, j \in DOMAIN lane' : i < j => e[i] < e[j]
    BY <1>3, <2>1 DEF Places
  <2>4. \A i \in DOMAIN lane' : e[i] # 1
    BY <1>1, <2>1, <2>2
  <2>5. QED
    BY <1>2, <2>1, <2>2, <2>3, <2>4
<1>6. LaneOrdered'
  <2>1. ASSUME NEW i \in DOMAIN lane', NEW j \in DOMAIN lane', i < j
        PROVE  TogetherIn(messages, lane'[i], lane'[j]) => lane'[i] < lane'[j]
    <3>1. PICK x \in DOMAIN lane, y \in DOMAIN lane : x < y /\ lane'[i] = lane[x] /\ lane'[j] = lane[y]
      BY <1>5, <2>1
    <3>2. TogetherIn(messages, lane[x], lane[y]) => lane[x] < lane[y]
      BY <3>1 DEF LaneInv, LaneOrdered, Ahead, Together
    <3>3. QED
      BY <3>1, <3>2
  <2>2. QED
    BY <1>1, <2>1 DEF LaneOrdered, Ahead, Together
<1>7. SavingLast'
  BY <1>1, <1>5 DEF LaneInv, SavingLast, Ahead, Together
<1>8. JobFirst'
  <2>1. \A i \in DOMAIN lane' : TogetherIn(messages, m, lane'[i]) => m < lane'[i]
    BY <1>1, <1>5 DEF LaneInv, LaneOrdered, Ahead, Together
  <2>2. QED
    BY <1>1, <2>1 DEF JobFirst, Ahead, Together
<1>9. ASSUME NEW f \in facts
      PROVE  Learnt(f.source)'
  <2>1. Learnt(f.source)
    BY DEF LaneInv
  <2>2. QED
    BY <1>1, <1>5, <2>1 DEF Learnt, Passed, Ahead, Together
<1>10. RowsCurrent(facts)'
  BY <1>1, RowsKept DEF LaneInv
<1>11. QED
  BY <1>1, <1>6, <1>7, <1>8, <1>9, <1>10 DEF LaneInv

LEMMA ValidLen ==
  ASSUME NEW events \in Seq(Events)
  PROVE  Len(Valid(events)) \in Nat
<1>1. PICK S : Valid(events) = [i \in DOMAIN Only(events, S) |->
                  [Only(events, S)[i] EXCEPT !.key = IF @ = "name" THEN "real_name" ELSE @]]
  BY DEF Valid
<1>2. Only(events, S) \in Seq(Events \cap S)
  BY OnlyTyped
<1>3. DOMAIN Valid(events) = 1 .. Len(Only(events, S)) /\ Len(Only(events, S)) \in Nat
  BY <1>1, <1>2
<1>4. Len(Valid(events)) = Len(Only(events, S))
  BY <1>3, LenProperties
<1>5. QED
  BY <1>3, <1>4

LEMMA OrderLearns ==
  ASSUME MemoryTypes, SavedInv, LaneInv, LearnFacts
  PROVE  LaneInv'
<1> DEFINE m == enriching.of
           X == {n \in DOMAIN messages : Passed(n) /\ (n = m \/ Ahead(n, m))}
<1>1. m \in DOMAIN messages /\ m # NoMessage /\ enriching'.of = NoMessage
      /\ UNCHANGED <<messages, saving, lane>> /\ DOMAIN messages \in SUBSET Nat
  BY DEF LearnFacts, MemoryTypes, NoJob, Job, savedVars
<1>2. PICK events : facts' = ApplyEvents(facts, events, m) /\ Len(events) \in Nat
  <2>1. <<>> \in Seq(Events)
    OBVIOUS
  <2>2. QED
    BY <2>1, ValidLen, MemoryAssumption DEF LearnFacts
<1>3. m \in X
  <2>1. \A i \in DOMAIN lane : Ahead(m, lane[i])
    BY <1>1 DEF LaneInv, JobFirst
  <2>2. ASSUME NEW c \in Convs, saving[c] # NoMessage
        PROVE  Ahead(m, saving[c])
    BY <1>1, <2>2 DEF SavedInv, SavingOwn, KeyHeld, Ahead, Together, TogetherIn
  <2>3. QED
    BY <1>1, <2>1, <2>2 DEF Passed
<1>4. NoneAfter(X, m)
  BY <1>1 DEF NoneAfter, Ahead
<1>5. From(facts, X)
  BY <1>1 DEF LaneInv, Learnt, Passed, From
<1> HIDE DEF X, m
<1>6. RowsCurrent(facts') /\ From(facts', X)
  BY <1>1, <1>2, <1>3, <1>4, <1>5, EventsCurrent DEF LaneInv
<1>7. RowsCurrent(facts)'
  BY <1>1, <1>6 DEF RowsCurrent, IsRow, RowOf, Together
<1>8. ASSUME NEW f \in facts'
      PROVE  Learnt(f.source)'
  <2>1. Passed(f.source)
    BY <1>6 DEF From, X
  <2>2. QED
    BY <1>1, <2>1 DEF Learnt, Passed, Ahead, Together
<1>9. LaneOrdered' /\ SavingLast' /\ JobFirst'
  BY <1>1 DEF LaneInv, LaneOrdered, SavingLast, JobFirst, Ahead, Together
<1>10. QED
  BY <1>7, <1>8, <1>9 DEF LaneInv

LEMMA OrderStep ==
  ASSUME MemoryTypes, SavedInv, LaneInv, [MemoryNext]_memoryVars
  PROVE  LaneInv'
<1>1. Grown
  BY RowsGrow
<1>2. CASE \E c \in Convs, role \in Roles : SaveCommit(c, role)
  BY <1>1, <1>2, OrderSaves
<1>3. CASE \E c \in Convs : SaveEnqueue(c)
  BY <1>1, <1>3, OrderEnqueues
<1>4. CASE \E c \in Convs, role \in Roles : HttpFlush(c, role)
  BY <1>1, <1>4, OrderFlushes
<1>5. CASE TakeJob
  BY <1>1, <1>5, OrderTakes
<1>6. CASE LearnFacts
  BY <1>6, OrderLearns
<1>7. CASE \/ \E m \in DOMAIN messages : HttpEnd(m)
           \/ \E c \in Convs : DeleteConversation(c)
           \/ Forget \/ ReadRecent \/ StoreMemory \/ UNCHANGED memoryVars
  <2>1. NoJob.of = NoMessage
    BY DEF NoJob, Job
  <2>2. ReadRecent => enriching'.of = enriching.of
    BY DEF ReadRecent, MemoryTypes
  <2>3. UNCHANGED <<saving, lane>> /\ enriching'.of \in {enriching.of, NoMessage}
        /\ facts' \subseteq facts
    BY <1>7, <2>1, <2>2 DEF HttpEnd, DeleteConversation, Forget, ReadRecent, StoreMemory,
       memoryVars, savedVars, learntVars
  <2>4. QED
    BY <1>1, <2>3, OrderKept
<1>8. QED
  BY <1>2, <1>3, <1>4, <1>5, <1>6, <1>7 DEF MemoryNext

LEMMA FactsAreCurrent == LaneInv => FactsCurrent
<1>1. ASSUME RowsCurrent(facts)
      PROVE  FactsCurrent
  BY <1>1 DEF RowsCurrent, FactsCurrent, OneActivePerType, NewestWins, Together, TogetherIn
<1>2. QED
  BY <1>1 DEF LaneInv

-----------------------------------------------------------------------------
(* Chunks and summaries *)

LEMMA SameSeen ==
  ASSUME NEW q \in Seq(Rows), NEW r \in Seq(Rows), Len(r) = Len(q), NEW c,
         SeenIn(r, c) = SeenIn(q, c)
  PROVE  VisibleIn(r, c) = VisibleIn(q, c)
BY VisibleIs

LEMMA VisibleSteps ==
  ASSUME MemoryTypes, RowsLive, [MemoryNext]_memoryVars
  PROVE  /\ convs' \subseteq convs
         /\ \A c \in Convs : c \in convs' \/ c \notin convs =>
              SeenIn(messages, c) \subseteq SeenIn(messages', c)
         /\ \A c \in convs' \ HttpConvs :
              \/ VisibleIn(messages', c) = VisibleIn(messages, c)
              \/ /\ KeyFree(c) /\ enriching' = enriching
                 /\ \E new : VisibleIn(messages', c) = Append(VisibleIn(messages, c), new)
<1>1. messages \in Seq(Rows) /\ convs \subseteq Convs
  BY DEF MemoryTypes
<1>2. CASE \E c \in Convs, role \in Roles : SaveCommit(c, role) \/ HttpFlush(c, role)
  <2>1. PICK d \in Convs, role \in Roles : SaveCommit(d, role) \/ HttpFlush(d, role)
    BY <1>2
  <2>2. PICK entry \in Rows : /\ messages' = Append(messages, entry) /\ entry.conv = d
                              /\ \/ entry.state = "committed" /\ KeyFree(d)
                                 \/ entry.state = "flushed"
    <3>1. \A way \in {"voice", "http"}, state \in {"flushed", "committed"} :
            /\ Row(d, role, way, state) \in Rows /\ Row(d, role, way, state).conv = d
            /\ Row(d, role, way, state).state = state
      BY DEF Row, Rows
    <3>2. QED
      BY <2>1, <3>1 DEF SaveCommit, HttpFlush
  <2>3. convs' = convs /\ enriching' = enriching
    BY <2>1 DEF SaveCommit, HttpFlush
  <2>4. ASSUME NEW c
        PROVE  /\ SeenIn(messages, c) \subseteq SeenIn(messages', c)
               /\ \/ VisibleIn(messages', c) = VisibleIn(messages, c)
                  \/ /\ entry.conv = c /\ entry.state = "committed"
                     /\ VisibleIn(messages', c) = Append(VisibleIn(messages, c), Len(messages) + 1)
    <3>1. \/ /\ SeenIn(Append(messages, entry), c) = SeenIn(messages, c)
             /\ VisibleIn(Append(messages, entry), c) = VisibleIn(messages, c)
          \/ /\ entry.conv = c /\ entry.state = "committed"
             /\ SeenIn(Append(messages, entry), c) = SeenIn(messages, c) \cup {Len(messages) + 1}
             /\ VisibleIn(Append(messages, entry), c) =
                  Append(VisibleIn(messages, c), Len(messages) + 1)
      BY <1>1, VisibleMore
    <3>2. QED
      BY <2>2, <3>1
  <2>5. QED
    BY <2>2, <2>3, <2>4
<1>3. CASE \E m \in DOMAIN messages : HttpEnd(m)
  <2>1. PICK m \in DOMAIN messages, state \in {"committed", "gone"} :
          messages' = Restated(messages, {m}, state) /\ messages[m].state = "flushed"
    BY <1>3, EndRestates
  <2>2. /\ messages' \in Seq(Rows) /\ Len(messages') = Len(messages)
        /\ DOMAIN messages' = DOMAIN messages
        /\ \A n \in DOMAIN messages :
             /\ messages'[n].conv = messages[n].conv /\ messages'[n].role = messages[n].role
             /\ messages'[n].state = IF n \in {m} THEN state ELSE messages[n].state
    BY <1>1, <2>1, RestatedRows
  <2>3. convs' = convs /\ messages[m].conv \in HttpConvs
    BY <1>3, <2>1 DEF HttpEnd, RowsLive
  <2>4. \A c : SeenIn(messages, c) \subseteq SeenIn(messages', c)
    BY <2>1, <2>2 DEF SeenIn
  <2>5. ASSUME NEW c, c \notin HttpConvs
        PROVE  SeenIn(messages', c) = SeenIn(messages, c)
    <3>1. \A n \in DOMAIN messages : messages[n].conv = c => n # m
      BY <2>3, <2>5
    <3>2. \A n \in DOMAIN messages :
            messages[n].conv = c => messages'[n].state = messages[n].state
      BY <2>2, <3>1
    <3>3. QED
      BY <2>2, <3>2 DEF SeenIn
  <2>6. \A c : c \notin HttpConvs => VisibleIn(messages', c) = VisibleIn(messages, c)
    BY <1>1, <2>2, <2>5, SameSeen
  <2>7. QED
    BY <2>3, <2>4, <2>6
<1>4. CASE \E c \in Convs : DeleteConversation(c)
  <2>1. PICK d \in Convs : DeleteConversation(d)
    BY <1>4
  <2>2. /\ messages' = Restated(messages, {m \in DOMAIN messages : messages[m].conv = d}, "gone")
        /\ convs' = convs \ {d} /\ d \in convs
    BY <2>1, DeleteRestates DEF DeleteConversation
  <2>3. /\ messages' \in Seq(Rows) /\ Len(messages') = Len(messages)
        /\ DOMAIN messages' = DOMAIN messages
        /\ \A n \in DOMAIN messages :
             /\ messages'[n].conv = messages[n].conv /\ messages'[n].role = messages[n].role
             /\ messages'[n].state =
                  IF n \in {m \in DOMAIN messages : messages[m].conv = d} THEN "gone"
                  ELSE messages[n].state
    BY <1>1, <2>2, RestatedRows
  <2>4. \A c : c # d => SeenIn(messages', c) = SeenIn(messages, c)
    BY <2>3 DEF SeenIn
  <2>5. \A c : c # d => VisibleIn(messages', c) = VisibleIn(messages, c)
    BY <1>1, <2>3, <2>4, SameSeen
  <2>6. QED
    BY <2>2, <2>4, <2>5
<1>5. CASE UNCHANGED <<messages, convs>>
  BY <1>5
<1>6. QED
  BY <1>2, <1>3, <1>4, <1>5 DEF MemoryNext, memoryVars, savedVars, SaveEnqueue, Forget,
     TakeJob, LearnFacts, ReadRecent, StoreMemory

LEMMA WindowIs ==
  ASSUME NEW S, NEW ids \in Seq(S), ChunkSize <= Len(ids), NEW w, w = Newest(ids, ChunkSize)
  PROVE  /\ w \in Seq(S) /\ Len(w) = ChunkSize
         /\ \A k \in 1 .. Len(w) : /\ k + (Len(ids) - Len(w)) \in 1 .. Len(ids)
                                   /\ w[k] = ids[k + (Len(ids) - Len(w))]
<1>1. PICK n \in Nat \ {0} : n = ChunkSize
  BY MemoryAssumption
<1>2. /\ Newest(ids, n) \in Seq(S)
      /\ Len(Newest(ids, n)) = IF Len(ids) <= n THEN Len(ids) ELSE n
      /\ \A i \in 1 .. Len(Newest(ids, n)) :
           /\ i + (Len(ids) - Len(Newest(ids, n))) \in 1 .. Len(ids)
           /\ Newest(ids, n)[i] = ids[i + (Len(ids) - Len(Newest(ids, n)))]
  BY NewestIs
<1>3. Len(Newest(ids, n)) = n
  BY <1>1, <1>2
<1>4. QED
  BY <1>1, <1>2, <1>3

LEMMA WholeChunks ==
  ASSUME NEW n \in Nat, NEW k \in Nat \ {0}, n % k = 0
  PROVE  \E i \in Nat : i * k = n
BY SMTT(60)

\* A chunk of the newest messages, cut when their number is a multiple of its size.
LEMMA ChunkIsTile ==
  ASSUME NEW S, NEW ids \in Seq(S), NEW limit \in Nat \ {0}, limit >= ChunkSize,
         Len(ids) % ChunkSize = 0, NEW read, read = Newest(ids, limit), Len(read) >= 2
  PROVE  \E i \in 1 .. Len(ids) :
           /\ i * ChunkSize = Len(ids)
           /\ Newest(read, ChunkSize)[1] = ids[(i - 1) * ChunkSize + 1]
           /\ Last(Newest(read, ChunkSize)) = ids[i * ChunkSize]
<1>1. ChunkSize \in Nat \ {0, 1} /\ Len(ids) \in Nat
  BY MemoryAssumption
<1>2. /\ read \in Seq(S) /\ Len(read) = IF Len(ids) <= limit THEN Len(ids) ELSE limit
      /\ \A i \in 1 .. Len(read) : read[i] = ids[i + (Len(ids) - Len(read))]
  BY NewestIs
<1>3. PICK i \in Nat : i * ChunkSize = Len(ids) /\ i >= 1 /\ i <= Len(ids) /\ ChunkSize <= Len(ids)
  <2>1. Len(ids) >= 2
    BY <1>1, <1>2
  <2>2. PICK i \in Nat : i * ChunkSize = Len(ids)
    BY <1>1, WholeChunks
  <2>3. i # 0
    BY <1>1, <2>1, <2>2
  <2>4. PICK j \in Nat : i = j + 1
    BY <2>3
  <2>5. j * ChunkSize \in Nat /\ i * ChunkSize = j * ChunkSize + ChunkSize /\ j * ChunkSize >= j
    BY <1>1, <2>4
  <2>6. QED
    BY <1>1, <2>2, <2>4, <2>5
<1>4. Len(read) \in Nat /\ ChunkSize <= Len(read)
  BY <1>1, <1>2, <1>3
<1>5. PICK w : w = Newest(read, ChunkSize)
  OBVIOUS
<1>6. /\ w \in Seq(S) /\ Len(w) = ChunkSize
      /\ \A k \in 1 .. Len(w) : /\ k + (Len(read) - Len(w)) \in 1 .. Len(read)
                                /\ w[k] = read[k + (Len(read) - Len(w))]
  BY SMTT(30), <1>2, <1>4, <1>5, WindowIs
<1>7. ASSUME NEW k \in 1 .. Len(w)
      PROVE  w[k] = ids[k + (Len(ids) - ChunkSize)]
  <2>1. PICK x \in 1 .. Len(read) : x = k + (Len(read) - Len(w)) /\ w[k] = read[x]
    BY <1>6
  <2>2. read[x] = ids[x + (Len(ids) - Len(read))]
    BY <1>2
  <2>3. x + (Len(ids) - Len(read)) = k + (Len(ids) - ChunkSize)
    BY <1>1, <1>4, <1>6, <2>1
  <2>4. QED
    BY <2>1, <2>2, <2>3
<1>8. 1 \in 1 .. Len(w) /\ ChunkSize \in 1 .. Len(w)
  BY <1>1, <1>6
<1>9. w[1] = ids[1 + (Len(ids) - ChunkSize)] /\ w[Len(w)] = ids[ChunkSize + (Len(ids) - ChunkSize)]
  BY <1>6, <1>7, <1>8
<1>10. /\ ChunkSize + (Len(ids) - ChunkSize) = i * ChunkSize
       /\ 1 + (Len(ids) - ChunkSize) = (i - 1) * ChunkSize + 1
  BY <1>1, <1>3
<1>11. Last(w) = w[Len(w)]
  BY DEF Last
<1>12. i \in 1 .. Len(ids)
  BY <1>1, <1>3
<1>13. w[1] = ids[(i - 1) * ChunkSize + 1] /\ Last(w) = ids[i * ChunkSize]
  BY <1>9, <1>10, <1>11
<1>14. QED
  BY <1>3, <1>5, <1>12, <1>13

\* A chunk, tiling the ids its conversation shows.
TileOf(ids, k, i) ==
  /\ i * ChunkSize <= Len(ids)
  /\ k.first = ids[(i - 1) * ChunkSize + 1] /\ k.last = ids[i * ChunkSize]
TilesIn(q, k) == \E i \in DOMAIN q : TileOf(VisibleIn(q, k.conv), k, i)

LEMMA TileStays ==
  ASSUME NEW ids \in Seq(Nat), NEW new, NEW more \in {ids, Append(ids, new)},
         NEW i \in Nat \ {0}, NEW k, TileOf(ids, k, i)
  PROVE  TileOf(more, k, i)
<1>1. ChunkSize \in Nat \ {0, 1} /\ Len(ids) \in Nat
  BY MemoryAssumption
<1>2. PICK j \in Nat : i = j + 1
  OBVIOUS
<1>3. /\ (i - 1) * ChunkSize + 1 = j * ChunkSize + 1 /\ j * ChunkSize \in Nat
      /\ i * ChunkSize = j * ChunkSize + ChunkSize
  BY <1>1, <1>2
<1>4. i * ChunkSize <= Len(ids)
  BY DEF TileOf
<1>5. (i - 1) * ChunkSize + 1 \in 1 .. Len(ids) /\ i * ChunkSize \in 1 .. Len(ids)
  BY <1>1, <1>3, <1>4
<1>6. PICK T : T = Nat \cup {new}
  OBVIOUS
<1>7. ids \in Seq(T) /\ new \in T
  BY <1>6, SeqMono
<1>8. /\ Len(Append(ids, new)) = Len(ids) + 1
      /\ \A x \in 1 .. Len(ids) : Append(ids, new)[x] = ids[x]
  BY <1>7, Appended
<1>9. CASE more = Append(ids, new)
  <2>1. /\ Append(ids, new)[(i - 1) * ChunkSize + 1] = ids[(i - 1) * ChunkSize + 1]
        /\ Append(ids, new)[i * ChunkSize] = ids[i * ChunkSize]
    BY <1>5, <1>8
  <2>2. i * ChunkSize <= Len(ids) + 1
    BY <1>1, <1>3, <1>4
  <2>3. QED
    BY <1>8, <1>9, <2>1, <2>2 DEF TileOf
<1>10. QED
  BY <1>9

\* What the newest of the newest ids make is a tile.
LEMMA NewestTile ==
  ASSUME NEW ids \in Seq(Nat), NEW limit \in Nat \ {0}, limit >= ChunkSize,
         Len(ids) % ChunkSize = 0, Len(Newest(ids, limit)) >= 2, NEW k,
         k.first = Newest(Newest(ids, limit), ChunkSize)[1],
         k.last = Last(Newest(Newest(ids, limit), ChunkSize))
  PROVE  \E i \in 1 .. Len(ids) : TileOf(ids, k, i)
<1>1. PICK read : read = Newest(ids, limit)
  OBVIOUS
<1>2. \E i \in 1 .. Len(ids) :
         /\ i * ChunkSize = Len(ids)
         /\ Newest(read, ChunkSize)[1] = ids[(i - 1) * ChunkSize + 1]
         /\ Last(Newest(read, ChunkSize)) = ids[i * ChunkSize]
  BY SMTT(30), <1>1, ChunkIsTile
<1>3. PICK i \in 1 .. Len(ids) :
         /\ i * ChunkSize = Len(ids)
         /\ Newest(read, ChunkSize)[1] = ids[(i - 1) * ChunkSize + 1]
         /\ Last(Newest(read, ChunkSize)) = ids[i * ChunkSize]
  BY <1>2
<1>4. i * ChunkSize <= Len(ids)
  BY <1>3
<1>5. TileOf(ids, k, i)
  BY <1>1, <1>3, <1>4 DEF TileOf
<1>6. QED
  BY <1>5

LEMMA VisibleNow ==
  ASSUME messages \in Seq(Rows)
  PROVE  /\ \A c : Visible(c) = VisibleIn(messages, c)
         /\ \A c : VisibleIn(messages, c) \in Seq(Nat) /\ Len(VisibleIn(messages, c)) \in Nat
         /\ \A c : Len(VisibleIn(messages, c)) <= Len(messages)
         /\ DOMAIN messages = 1 .. Len(messages) /\ Len(messages) \in Nat
<1>1. \A c : Visible(c) = VisibleIn(messages, c)
  BY DEF Visible, VisibleIn, SeenIn
<1>2. ASSUME NEW c
      PROVE  /\ VisibleIn(messages, c) \in Seq(Nat) /\ Len(VisibleIn(messages, c)) \in Nat
             /\ Len(VisibleIn(messages, c)) <= Len(messages)
  <2>1. /\ SeenIn(messages, c) \in SUBSET (1 .. Len(messages)) /\ Len(messages) \in Nat
        /\ VisibleIn(messages, c) \in Seq(SeenIn(messages, c))
    BY VisibleIs
  <2>2. SeenIn(messages, c) \subseteq Nat
    BY <2>1
  <2>3. QED
    BY <2>1, <2>2, SeqMono, VisibleIs
<1>3. QED
  BY <1>1, <1>2

\* A chunk stays a tile while its conversation is there.
LEMMA TilesStay ==
  ASSUME MemoryTypes, RowsLive, [MemoryNext]_memoryVars, NEW k, k.conv \in convs' \ HttpConvs,
         TilesIn(messages, k)
  PROVE  TilesIn(messages', k)
<1>1. messages \in Seq(Rows)
  BY DEF MemoryTypes
<1>2. PICK i \in DOMAIN messages : TileOf(VisibleIn(messages, k.conv), k, i)
  BY DEF TilesIn
<1>3. i \in Nat \ {0} /\ VisibleIn(messages, k.conv) \in Seq(Nat)
  BY <1>1, VisibleNow
<1>4. \E new : VisibleIn(messages', k.conv) \in
                 {VisibleIn(messages, k.conv), Append(VisibleIn(messages, k.conv), new)}
  BY VisibleSteps
<1>5. TileOf(VisibleIn(messages', k.conv), k, i)
  BY <1>2, <1>3, <1>4, TileStays
<1>6. i \in DOMAIN messages'
  BY RowsGrow DEF Grown
<1>7. QED
  BY <1>5, <1>6 DEF TilesIn

\* The job's conversation shows what it showed, as long as the job holds its key.
LEMMA JobSeesSame ==
  ASSUME MemoryTypes, RowsLive, [MemoryNext]_memoryVars, enriching' = enriching,
         enriching.of # NoMessage, JobConv' \in convs' \ HttpConvs
  PROVE  JobConv' = JobConv /\ JobConv \in convs \ HttpConvs
         /\ VisibleIn(messages', JobConv) = VisibleIn(messages, JobConv)
<1>1. enriching.of \in DOMAIN messages
  BY DEF MemoryTypes
<1>2. JobConv' = JobConv
  BY <1>1, RowsGrow DEF Grown, JobConv
<1>3. JobConv \in convs' \ HttpConvs /\ JobConv \in convs
  BY <1>2, VisibleSteps
<1>4. ~KeyFree(JobConv)
  BY DEF KeyFree, JobConv
<1>5. QED
  BY <1>2, <1>3, <1>4, VisibleSteps

LEMMA JobStepped ==
  ASSUME MemoryTypes, RowsLive, JobCounts, JobRead, [MemoryNext]_memoryVars
  PROVE  JobCounts' /\ JobRead'
<1>1. /\ messages \in Seq(Rows)
      /\ enriching \in [of : DOMAIN messages \cup {NoMessage},
                        step : {"none", "classify", "read", "store"},
                        count : Nat, read : Seq(DOMAIN messages)]
      /\ enriching.of = NoMessage => enriching.step = "none"
  BY DEF MemoryTypes
<1>2. messages' \in Seq(Rows)
  BY RowsGrow DEF Grown
<1>3. /\ \A c : Visible(c) = VisibleIn(messages, c)
      /\ \A c : Visible(c)' = VisibleIn(messages', c)
  BY DEF Visible, VisibleIn, SeenIn
<1>4. CASE enriching' = enriching
  <2>1. ASSUME enriching.step \in {"read", "store"}, JobConv' \in convs' \ HttpConvs
        PROVE  /\ JobConv' = JobConv /\ JobConv \in convs \ HttpConvs
               /\ Visible(JobConv)' = Visible(JobConv)
    <3>1. enriching.of # NoMessage
      BY <1>1, <2>1
    <3>2. JobConv' = JobConv /\ JobConv \in convs \ HttpConvs
          /\ VisibleIn(messages', JobConv) = VisibleIn(messages, JobConv)
      BY <1>4, <2>1, <3>1, JobSeesSame
    <3>3. Visible(JobConv)' = VisibleIn(messages', JobConv')
      BY DEF Visible, VisibleIn, SeenIn
    <3>4. QED
      BY <1>3, <3>2, <3>3
  <2>2. JobCounts'
    BY <1>4, <2>1 DEF JobCounts
  <2>3. JobRead'
    BY <1>4, <2>1 DEF JobRead
  <2>4. QED
    BY <2>2, <2>3
<1>5. CASE TakeJob
  <2>1. PICK m \in DOMAIN messages :
          /\ messages' = messages
          /\ \/ enriching' = NoJob
             \/ enriching' = Job(m, "classify", 0)
             \/ enriching' = Job(m, "read", Len(Visible(messages[m].conv)))
    BY <1>5, JobTaken
  <2>2. CASE enriching' = NoJob \/ enriching' = Job(m, "classify", 0)
    <3>1. enriching'.step \notin {"read", "store"}
      BY <2>2 DEF NoJob, Job
    <3>2. QED
      BY <3>1 DEF JobCounts, JobRead
  <2>3. CASE enriching' = Job(m, "read", Len(Visible(messages[m].conv)))
    <3>1. /\ enriching'.step = "read" /\ enriching'.of = m
          /\ enriching'.count = Len(Visible(messages[m].conv))
      BY <2>3 DEF Job
    <3>2. Visible(JobConv)' = Visible(messages[m].conv)
      BY <2>1, <3>1 DEF Visible, JobConv
    <3>3. QED
      BY <3>1, <3>2 DEF JobCounts, JobRead
  <2>4. QED
    BY <2>1, <2>2, <2>3
<1>6. CASE ReadRecent
  <2>1. UNCHANGED <<messages, convs>> /\ enriching.step = "read"
    BY <1>6 DEF ReadRecent, savedVars
  <2>2. /\ enriching'.of = enriching.of /\ enriching'.count = enriching.count
        /\ enriching'.read = Newest(Visible(JobConv),
                             IF enriching.count <= Threshold THEN ChunkSize ELSE Recent)
    BY <1>1, <1>6 DEF ReadRecent, JobConv
  <2>3. JobConv' = JobConv
    BY <2>1, <2>2 DEF JobConv
  <2>4. Visible(JobConv)' = Visible(JobConv)
    BY <2>1, <2>3 DEF Visible
  <2>5. JobCounts'
    BY <2>1, <2>2, <2>3, <2>4 DEF JobCounts
  <2>6. JobRead'
    BY <2>2, <2>3, <2>4 DEF JobRead
  <2>7. QED
    BY <2>5, <2>6
<1>7. CASE LearnFacts \/ StoreMemory
  <2>1. enriching'.step \notin {"read", "store"}
    BY <1>7 DEF LearnFacts, StoreMemory, NoJob, Job
  <2>2. QED
    BY <2>1 DEF JobCounts, JobRead
<1>8. QED
  BY <1>4, <1>5, <1>6, <1>7 DEF MemoryNext, memoryVars, SaveCommit, SaveEnqueue, HttpFlush,
     HttpEnd, DeleteConversation, Forget

\* What a job stores is a tile.
LEMMA StoresTile ==
  ASSUME MemoryTypes, JobCounts, JobRead, enriching.step = "store", WantsChunk,
         JobConv \in convs \ HttpConvs, NEW k, k.conv = JobConv,
         k.first = Newest(enriching.read, ChunkSize)[1],
         k.last = Last(Newest(enriching.read, ChunkSize))
  PROVE  TilesIn(messages, k)
<1>1. messages \in Seq(Rows)
  BY DEF MemoryTypes
<1>2. PICK ids \in Seq(Nat) : ids = VisibleIn(messages, JobConv)
  BY <1>1, VisibleNow
<1>3. PICK limit : limit = IF enriching.count <= Threshold THEN ChunkSize ELSE Recent
  OBVIOUS
<1>4. limit \in Nat \ {0} /\ limit >= ChunkSize
  BY <1>3, LimitPositive
<1>5. PICK read : read = Newest(ids, limit)
  OBVIOUS
<1>6. Visible(JobConv) = ids
  BY <1>1, <1>2, VisibleNow
<1>7. enriching.read = read /\ enriching.count = Len(ids)
  BY <1>3, <1>5, <1>6 DEF JobCounts, JobRead
<1>8. Len(ids) % ChunkSize = 0 /\ Len(read) >= 2
  BY <1>7 DEF WantsChunk
<1>9. PICK i \in 1 .. Len(ids) : TileOf(ids, k, i)
  BY <1>4, <1>5, <1>7, <1>8, NewestTile
<1>10. i \in DOMAIN messages
  BY <1>1, <1>2, VisibleNow
<1>11. QED
  BY <1>2, <1>9, <1>10 DEF TilesIn

LEMMA TileStep ==
  ASSUME MemoryTypes, RowsLive, TileInv, [MemoryNext]_memoryVars
  PROVE  TileInv'
<1>1. JobCounts' /\ JobRead'
  BY JobStepped DEF TileInv
<1>2. messages \in Seq(Rows) /\ messages' \in Seq(Rows)
  BY RowsGrow DEF MemoryTypes, Grown
<1>3. ASSUME NEW k \in chunks
      PROVE  k.conv \in convs /\ (k.conv \notin HttpConvs => TilesIn(messages, k))
  BY <1>2, VisibleNow DEF TileInv, ChunksTile, TilesIn, TileOf
<1>4. ASSUME NEW k \in chunks'
      PROVE  k.conv \in convs' /\ (k.conv \notin HttpConvs => TilesIn(messages', k))
  <2>1. CASE k \in chunks
    <3>1. CASE \E c \in Convs : DeleteConversation(c)
      <4>1. k.conv \in convs'
        BY <1>3, <1>4, <2>1, <3>1 DEF DeleteConversation
      <4>2. QED
        BY <1>3, <2>1, <4>1, TilesStay
    <3>2. CASE ~\E c \in Convs : DeleteConversation(c)
      <4>1. convs' = convs
        BY <3>2 DEF MemoryNext, memoryVars, savedVars, learntVars, SaveCommit, SaveEnqueue,
           HttpFlush, HttpEnd, Forget, TakeJob, LearnFacts, ReadRecent, StoreMemory
      <4>2. QED
        BY <1>3, <2>1, <4>1, TilesStay
    <3>3. QED
      BY <3>1, <3>2
  <2>2. CASE k \notin chunks
    <3>1. StoreMemory
      BY <1>4, <2>2 DEF MemoryNext, memoryVars, savedVars, learntVars, SaveCommit, SaveEnqueue,
         HttpFlush, HttpEnd, DeleteConversation, Forget, TakeJob, LearnFacts, ReadRecent
    <3>2. /\ UNCHANGED <<convs, messages>> /\ enriching.step = "store"
          /\ JobConv \in convs /\ WantsChunk
          /\ k = [conv |-> JobConv, first |-> Newest(enriching.read, ChunkSize)[1],
                  last |-> Last(Newest(enriching.read, ChunkSize))]
      BY <1>4, <2>2, <3>1 DEF StoreMemory, savedVars, JobConv
    <3>3. /\ k.conv = JobConv /\ k.first = Newest(enriching.read, ChunkSize)[1]
          /\ k.last = Last(Newest(enriching.read, ChunkSize))
      BY <3>2
    <3>4. k.conv \notin HttpConvs => TilesIn(messages, k)
      BY <3>2, <3>3, StoresTile DEF TileInv
    <3>5. QED
      BY <3>2, <3>3, <3>4
  <2>3. QED
    BY <2>1, <2>2
<1>5. ChunksTile'
  <2>1. \A c : Visible(c)' = VisibleIn(messages', c)
    BY DEF Visible, VisibleIn, SeenIn
  <2>2. QED
    BY <1>4, <2>1 DEF ChunksTile, TilesIn, TileOf
<1>6. QED
  BY <1>1, <1>4, <1>5 DEF TileInv

-----------------------------------------------------------------------------
(* What is stored refers to messages that are there *)

\* The elements of the newest ids are among them.
LEMMA EndsSeen ==
  ASSUME NEW S, NEW read \in Seq(S), Len(read) >= 2
  PROVE  Newest(read, ChunkSize)[1] \in S /\ Last(Newest(read, ChunkSize)) \in S
<1>1. PICK n \in Nat \ {0, 1} : n = ChunkSize
  BY MemoryAssumption
<1>2. n \in Nat \ {0}
  OBVIOUS
<1>3. Newest(read, n) \in Seq(S) /\ Len(Newest(read, n)) = IF Len(read) <= n THEN Len(read) ELSE n
  BY <1>2, NewestIs
<1>4. PICK w \in Seq(S) : w = Newest(read, n)
  BY <1>3
<1>5. Len(w) >= 1
  BY <1>1, <1>3, <1>4
<1>6. w[1] \in S /\ w[Len(w)] \in S
  BY <1>4, <1>5
<1>7. QED
  BY <1>1, <1>4, <1>6 DEF Last

LEMMA ReadStep ==
  ASSUME MemoryTypes, RowsLive, ReadSeen, [MemoryNext]_memoryVars
  PROVE  ReadSeen'
<1>1. /\ messages \in Seq(Rows) /\ convs \subseteq Convs
      /\ enriching \in [of : DOMAIN messages \cup {NoMessage},
                        step : {"none", "classify", "read", "store"},
                        count : Nat, read : Seq(DOMAIN messages)]
      /\ enriching.of = NoMessage => enriching.step = "none"
  BY DEF MemoryTypes
<1>2. CASE enriching' = enriching
  <2>1. ASSUME enriching.step = "store", JobConv' \in convs'
        PROVE  JobConv' = JobConv /\ JobConv \in convs /\ Seen(JobConv) \subseteq Seen(JobConv)'
    <3>1. enriching.of \in DOMAIN messages
      BY <1>1, <2>1
    <3>2. JobConv' = JobConv
      BY <1>2, <3>1, RowsGrow DEF Grown, JobConv
    <3>3. JobConv \in convs' /\ JobConv \in convs
      BY <2>1, <3>2, VisibleSteps
    <3>4. SeenIn(messages, JobConv) \subseteq SeenIn(messages', JobConv)
      BY <1>1, <3>3, VisibleSteps
    <3>5. Seen(JobConv)' = SeenIn(messages', JobConv')
      BY DEF Seen
    <3>6. QED
      BY <3>2, <3>3, <3>4, <3>5 DEF Seen
  <2>2. QED
    BY <1>2, <2>1 DEF ReadSeen
<1>3. CASE enriching'.step # "store"
  BY <1>3 DEF ReadSeen
<1>4. CASE ReadRecent
  <2>1. UNCHANGED <<messages, convs>>
    BY <1>4 DEF ReadRecent, savedVars
  <2>2. PICK limit : limit = IF enriching.count <= Threshold THEN ChunkSize ELSE Recent
    OBVIOUS
  <2>3. enriching'.of = enriching.of /\ enriching'.read = Newest(Visible(JobConv), limit)
    BY <1>1, <1>4, <2>2 DEF ReadRecent, JobConv
  <2>4. JobConv' = JobConv
    BY <2>1, <2>3 DEF JobConv
  <2>5. Newest(Visible(JobConv), limit) \in Seq(Seen(JobConv))
    BY <2>2, LimitPositive, RecentTyped
  <2>6. Seen(JobConv)' = Seen(JobConv)
    BY <2>1, <2>4 DEF Seen
  <2>7. \A i \in DOMAIN enriching'.read : enriching'.read[i] \in Seen(JobConv)
    BY <2>3, <2>5
  <2>8. QED
    BY <2>4, <2>6, <2>7 DEF ReadSeen
<1>5. TakeJob => enriching'.step # "store"
  <2>1. TakeJob => \E m : \/ enriching' = NoJob
                          \/ enriching' = Job(m, "classify", 0)
                          \/ enriching' = Job(m, "read", Len(Visible(messages[m].conv)))
    BY JobTaken
  <2>2. \A m, n : Job(m, "read", n).step = "read" /\ Job(m, "classify", n).step = "classify"
    BY DEF Job
  <2>3. NoJob.step = "none"
    BY DEF NoJob, Job
  <2>4. QED
    BY <2>1, <2>2, <2>3
<1>6. LearnFacts \/ StoreMemory => enriching'.step # "store"
  BY DEF LearnFacts, StoreMemory, NoJob, Job
<1>7. QED
  BY <1>2, <1>3, <1>4, <1>5, <1>6 DEF MemoryNext, memoryVars, SaveCommit, SaveEnqueue, HttpFlush,
     HttpEnd, DeleteConversation, Forget

LEMMA StoredStep ==
  ASSUME MemoryTypes, RowsLive, ReadSeen, StoredSeen, [MemoryNext]_memoryVars
  PROVE  StoredSeen'
<1>1. /\ messages \in Seq(Rows) /\ convs \subseteq Convs
      /\ enriching \in [of : DOMAIN messages \cup {NoMessage},
                        step : {"none", "classify", "read", "store"},
                        count : Nat, read : Seq(DOMAIN messages)]
      /\ enriching.of = NoMessage => enriching.step = "none"
  BY DEF MemoryTypes
<1>2. \A c : Seen(c) = SeenIn(messages, c) /\ Seen(c)' = SeenIn(messages', c)
  BY DEF Seen
<1>3. \A c \in Convs : c \in convs' \/ c \notin convs => Seen(c) \subseteq Seen(c)'
  BY <1>2, VisibleSteps
<1>4. CASE \E c \in Convs : DeleteConversation(c)
  <2>1. PICK d \in Convs : DeleteConversation(d)
    BY <1>4
  <2>2. /\ convs' = convs \ {d} /\ chunks' = {k \in chunks : k.conv # d}
        /\ summary' = [summary EXCEPT ![d] = <<>>]
    BY <2>1 DEF DeleteConversation
  <2>3. ASSUME NEW k \in chunks'
        PROVE  k.conv \in convs' /\ {k.first, k.last} \subseteq Seen(k.conv)'
    BY <1>1, <1>3, <2>2, <2>3 DEF StoredSeen
  <2>4. ASSUME NEW c \in Convs, NEW i \in DOMAIN summary'[c]
        PROVE  summary'[c][i] \in Seen(c)'
    <3>1. CASE c = d
      BY <2>2, <2>4, <3>1 DEF StoredSeen
    <3>2. CASE c # d
      <4>1. summary'[c] = summary[c] /\ Seen(c) \subseteq Seen(c)'
        BY <1>3, <2>2, <3>2 DEF StoredSeen
      <4>2. QED
        BY <2>4, <4>1 DEF StoredSeen
    <3>3. QED
      BY <3>1, <3>2
  <2>5. DOMAIN summary' = Convs
    BY <2>2 DEF StoredSeen
  <2>6. QED
    BY <2>3, <2>4, <2>5 DEF StoredSeen
<1>5. CASE StoreMemory
  <2>1. UNCHANGED <<convs, messages>>
    BY <1>5 DEF StoreMemory, savedVars
  <2>2. \A c : Seen(c)' = Seen(c)
    BY <1>2, <2>1
  <2>3. enriching.step = "store"
    BY <1>5 DEF StoreMemory
  <2>4. ASSUME NEW k \in chunks', k \notin chunks
        PROVE  k.conv \in convs /\ {k.first, k.last} \subseteq Seen(k.conv)
    <3>1. /\ JobConv \in convs /\ WantsChunk
          /\ k = [conv |-> JobConv, first |-> Newest(enriching.read, ChunkSize)[1],
                  last |-> Last(Newest(enriching.read, ChunkSize))]
      BY <1>5, <2>4 DEF StoreMemory, JobConv
    <3>2. /\ k.conv = JobConv /\ k.first = Newest(enriching.read, ChunkSize)[1]
          /\ k.last = Last(Newest(enriching.read, ChunkSize))
      BY <3>1
    <3>3. enriching.read \in Seq(Seen(JobConv)) /\ Len(enriching.read) >= 2
      <4>1. PICK read \in Seq(DOMAIN messages) : read = enriching.read
        BY <1>1
      <4>2. \A i \in DOMAIN read : read[i] \in Seen(JobConv)
        BY <2>3, <3>1, <4>1 DEF ReadSeen
      <4>3. read \in Seq(Seen(JobConv))
        BY <4>1, <4>2
      <4>4. QED
        BY <3>1, <4>1, <4>3 DEF WantsChunk
    <3>4. k.first \in Seen(JobConv) /\ k.last \in Seen(JobConv)
      BY <3>2, <3>3, EndsSeen
    <3>5. QED
      BY <3>1, <3>2, <3>4
  <2>5. ASSUME NEW c \in Convs, NEW i \in DOMAIN summary'[c]
        PROVE  summary'[c][i] \in Seen(c)
    <3>1. CASE summary'[c] = summary[c]
      BY <2>5, <3>1 DEF StoredSeen
    <3>2. CASE summary'[c] # summary[c]
      <4>1. JobConv \in convs /\ c = JobConv /\ summary'[c] = enriching.read
        BY <1>5, <3>2 DEF StoreMemory, JobConv, StoredSeen
      <4>2. QED
        BY <2>3, <2>5, <4>1 DEF ReadSeen
    <3>3. QED
      BY <3>1, <3>2
  <2>6. DOMAIN summary' = Convs
    BY <1>5 DEF StoreMemory, StoredSeen
  <2>7. QED
    BY <2>1, <2>2, <2>4, <2>5, <2>6 DEF StoredSeen
<1>6. CASE UNCHANGED <<convs, chunks, summary>>
  <2>1. \A c \in Convs : Seen(c) \subseteq Seen(c)'
    BY <1>3, <1>6
  <2>2. QED
    BY <1>1, <1>6, <2>1 DEF StoredSeen
<1>7. QED
  BY <1>4, <1>5, <1>6 DEF MemoryNext, memoryVars, savedVars, learntVars, SaveCommit, SaveEnqueue,
     HttpFlush, HttpEnd, Forget, TakeJob, LearnFacts, ReadRecent

-----------------------------------------------------------------------------
(* The theorems *)

LEMMA MemoryHolds ==
  ASSUME MemoryAssumption
  PROVE  MemorySpec => []MemoryInv
<1>1. MemoryInit => MemoryInv
  <2>1. SUFFICES ASSUME MemoryInit PROVE MemoryInv
    OBVIOUS
  <2>2. /\ convs = Convs /\ messages = <<>> /\ saving = [c \in Convs |-> NoMessage]
        /\ lane = <<>> /\ enriching = Job(NoMessage, "none", 0) /\ facts = {} /\ chunks = {}
        /\ summary = [c \in Convs |-> <<>>] /\ missed = {}
    BY <2>1 DEF MemoryInit, NoJob
  <2>3. /\ enriching.of = NoMessage /\ enriching.step = "none" /\ enriching.count = 0
        /\ enriching.read = <<>>
        /\ enriching \in [of : {NoMessage}, step : {"none"}, count : Nat, read : Seq({})]
    BY <2>2 DEF Job
  <2>4. DOMAIN messages = {} /\ messages \in Seq(Rows) /\ lane \in Seq({}) /\ DOMAIN lane = {}
    BY <2>2
  <2>5. MemoryTypes
    BY <2>2, <2>3, <2>4 DEF MemoryTypes
  <2>6. SavedInv
    BY <2>2, <2>3, <2>4 DEF SavedInv, RowsLive, SavingOwn, KeyHeld, JobFindsMessage
  <2>7. LaneInv
    BY <2>2, <2>3, <2>4 DEF LaneInv, LaneOrdered, SavingLast, JobFirst, RowsCurrent
  <2>8. TileInv
    BY <2>2, <2>3 DEF TileInv, JobCounts, JobRead, ChunksTile
  <2>9. SeenInv
    BY <2>2, <2>3 DEF SeenInv, ReadSeen, StoredSeen
  <2>10. QED
    BY <2>5, <2>6, <2>7, <2>8, <2>9 DEF MemoryInv
<1>2. MemoryInv /\ [MemoryNext]_memoryVars => MemoryInv'
  <2>1. SUFFICES ASSUME MemoryInv, [MemoryNext]_memoryVars PROVE MemoryInv'
    OBVIOUS
  <2>2. MemoryTypes /\ SavedInv /\ LaneInv /\ TileInv /\ SeenInv /\ RowsLive /\ ReadSeen /\ StoredSeen
    BY <2>1 DEF MemoryInv, SavedInv, SeenInv
  <2>3. MemoryTypes'
    BY <2>1, <2>2, TypesStep
  <2>4. SavedInv'
    BY <2>1, <2>2, SavedStep
  <2>5. LaneInv'
    BY <2>1, <2>2, OrderStep
  <2>6. TileInv'
    BY <2>1, <2>2, TileStep
  <2>7. SeenInv'
    BY <2>1, <2>2, ReadStep, StoredStep DEF SeenInv
  <2>8. QED
    BY <2>3, <2>4, <2>5, <2>6, <2>7 DEF MemoryInv
<1>3. QED
  BY <1>1, <1>2, PTL DEF MemorySpec

\* The job of a message a voice session saved finds it, unless it has been deleted: it
\* is enqueued after the commit (memory.py:1092-1102).
THEOREM JobsFindTheirMessage ==
  ASSUME MemoryAssumption
  PROVE  MemorySpec => []JobFindsMessage
<1>1. MemoryInv => JobFindsMessage
  BY DEF MemoryInv, SavedInv
<1>2. QED
  BY <1>1, MemoryHolds, PTL

\* One value of a single-valued key is active under each type, and it is the one the
\* user gave last, whatever the model extracts from a message and for any number of
\* conversations (memory.py:786-828, task_queue.py:89-98).
THEOREM FactsStayCurrent ==
  ASSUME MemoryAssumption
  PROVE  MemorySpec => []FactsCurrent
<1>1. MemoryInv => FactsCurrent
  BY FactsAreCurrent DEF MemoryInv
<1>2. QED
  BY <1>1, MemoryHolds, PTL

\* The chunks of a conversation only voice sessions write to never overlap, for every
\* size of a chunk, threshold and number of recent messages (memory.py:1028-1064).
THEOREM ChunksTileConversation ==
  ASSUME MemoryAssumption
  PROVE  MemorySpec => []ChunksTile
<1>1. MemoryInv => ChunksTile
  BY DEF MemoryInv, TileInv
<1>2. QED
  BY <1>1, MemoryHolds, PTL

\* What is stored refers to committed messages of its own conversation, also while
\* conversations are deleted (memory.py:1028-1090, history.py).
THEOREM MemoryTypeCorrect ==
  ASSUME MemoryAssumption
  PROVE  MemorySpec => []MemoryTypeOK
<1>1. ASSUME MemoryInv PROVE MemoryTypeOK
  <2>1. MemoryTypes /\ RowsCurrent(facts) /\ (\A f \in facts : Learnt(f.source)) /\ StoredSeen
    BY <1>1 DEF MemoryInv, LaneInv, SeenInv
  <2>2. messages \in Seq(Rows)
    BY <2>1 DEF MemoryTypes
  <2>3. ASSUME NEW c
        PROVE  Seen(c) \subseteq ToSet(Visible(c))
    <3>1. \A m \in Seen(c) : \E i \in DOMAIN Visible(c) : Visible(c)[i] = m
      BY <2>2, VisibleIs, VisibleNow DEF Seen
    <3>2. QED
      BY <3>1 DEF ToSet
  <2>4. \A f \in facts : f.active \in BOOLEAN /\ f.source \in DOMAIN messages
    BY <2>1 DEF RowsCurrent, IsRow, RowOf, Learnt, Passed
  <2>5. \A k \in chunks : k.conv \in convs /\ {k.first, k.last} \subseteq ToSet(Visible(k.conv))
    BY <2>1, <2>3 DEF StoredSeen
  <2>6. \A c \in Convs : ToSet(summary[c]) \subseteq ToSet(Visible(c))
    BY <2>1, <2>3 DEF StoredSeen, ToSet
  <2>7. QED
    BY <2>1, <2>4, <2>5, <2>6 DEF MemoryTypeOK, MemoryTypes, Rows
<1>2. QED
  BY <1>1, MemoryHolds, PTL

(***************************************************************************)
(* The whole the parts make up, in which each step is one of the part it      *)
(* exercises: it is a behaviour of every part, so what is proved of a part   *)
(* holds in it.                                                              *)
(***************************************************************************)

\* A step of the whole is a step of each part, or leaves it as it is.
LEMMA CorpusSteps == [ServicesNext]_partVars => [CorpusNext]_corpusVars
<1>1. ServicesNext => CorpusNext \/ UNCHANGED corpusVars
  BY Zenon DEF ServicesNext, CorpusNext, Document, Check, Search, InCorpus, InIngest, InEmbed, InMemory, InCall
<1>2. QED
  BY <1>1, Zenon DEF partVars

LEMMA IngestSteps == [ServicesNext]_partVars => [IngestNext]_ingestVars
<1>1. ServicesNext => IngestNext \/ UNCHANGED ingestVars
  BY Zenon DEF ServicesNext, IngestNext, IngestStep, InCorpus, InIngest, InEmbed, InMemory, InCall
<1>2. QED
  BY <1>1, Zenon DEF partVars

LEMMA EmbedSteps == [ServicesNext]_partVars => [EmbedNext]_embedVars
<1>1. ServicesNext => EmbedNext \/ UNCHANGED embedVars
  BY Zenon DEF ServicesNext, EmbedNext, EmbedStep, InCorpus, InIngest, InEmbed, InMemory, InCall
<1>2. QED
  BY <1>1, Zenon DEF partVars

LEMMA MemorySteps == [ServicesNext]_partVars => [MemoryNext]_memoryVars
<1>1. ServicesNext => MemoryNext \/ UNCHANGED memoryVars
  BY Zenon DEF ServicesNext, MemoryNext, InCorpus, InIngest, InEmbed, InMemory, InCall
<1>2. QED
  BY <1>1, Zenon DEF partVars

LEMMA CallSteps == [ServicesNext]_partVars => [CallNext]_callVars
<1>1. ServicesNext => CallNext \/ UNCHANGED callVars
  BY Zenon DEF ServicesNext, CallNext, CallStep, InCorpus, InIngest, InEmbed, InMemory, InCall
<1>2. QED
  BY <1>1, Zenon DEF partVars


\* Whatever part is exercised, it is a behaviour of each of them.
THEOREM ServicesImplemented ==
  ServicesSpec => CorpusSpec /\ IngestSpec /\ EmbedSpec /\ MemorySpec /\ CallSpec
<1>1. ServicesInit => CorpusInit /\ IngestInit /\ EmbedInit /\ MemoryInit /\ CallInit
  BY DEF ServicesInit
<1>2. ServicesSpec => ServicesInit /\ [][ServicesNext]_partVars
  BY PTL DEF ServicesSpec
<1>3. QED
  BY <1>1, <1>2, CorpusSteps, IngestSteps, EmbedSteps, MemorySteps, CallSteps, PTL
     DEF CorpusSpec, IngestSpec, EmbedSpec, MemorySpec, CallSpec

\* What is stored of a user, and every table and queue in front of it, keeps its type.
THEOREM ServicesTyped == ASSUME MemoryAssumption PROVE ServicesSpec => []ServicesTypeOK
<1>1. CorpusSpec => []CorpusInv
  BY CorpusInvariant
<1>2. IngestSpec => []IngestInv
  BY IngestInvariant
<1>3. MemorySpec => []MemoryTypeOK
  BY MemoryTypeCorrect, MemoryAssumption
<1>4. CorpusInv /\ IngestInv /\ EmbedTypeOK /\ MemoryTypeOK /\ CallTypeOK => ServicesTypeOK
  BY DEF CorpusInv, IngestInv, ServicesTypeOK
<1>5. QED
  BY <1>1, <1>2, <1>3, <1>4, EmbedTypeCorrect, CallTypeCorrect, ServicesImplemented, PTL

\* What holds of the parts holds of the whole, at once and for ever: of its searches, its
\* documents, its embeddings, its facts, its chunks and its tool calls.
THEOREM ServicesSafe ==
  ASSUME MemoryAssumption
  PROVE  ServicesSpec =>
           /\ [](/\ SearchesSound /\ StoreAgrees /\ StuckOnlyByFault /\ SharedSafely
                 /\ FactsCurrent /\ ChunksTile /\ JobFindsMessage /\ OutcomeTold)
           /\ ImplementsCorpus /\ FillerInPlace
<1>1. MemorySpec => []FactsCurrent /\ []ChunksTile /\ []JobFindsMessage
  BY FactsStayCurrent, ChunksTileConversation, JobsFindTheirMessage, MemoryAssumption
<1>2. QED
  BY <1>1, SearchesAreSound, StoreAgreesWithRows, OnlyFaultsStick, IngestionImplementsCorpus,
     EmbeddingsShared, CallsToldTruly, FillersInPlace, ServicesImplemented, PTL
=============================================================================
