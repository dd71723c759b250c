----------------------- MODULE ContextRetrievalProofs -----------------------
(***************************************************************************)
(* Theorems about ContextRetrieval, for any number of queries and either    *)
(* value of its switches.                                                   *)
(***************************************************************************)
EXTENDS ContextRetrieval, SequenceTheorems, TLAPS

Tasks == [state : {"none", "running", "cancelling", "ended", "cut"},
          gen : Nat, need : SUBSET Branches]

Release == [query : Query, found : SUBSET Query]

\* A task that was cancelled belongs to an older generation: what its finally
\* clause looks at before it would release the frame.
CancelledIsOld ==
  \A q \in Query : task[q].state = "cancelling" => task[q].gen < generation

(***************************************************************************)
(* Queries move from the queue to the corpus check, to the active retrieval *)
(* and to the LLM, and never overtake: each place holds older queries than  *)
(* the places before it.                                                    *)
(***************************************************************************)
InqOrdered ==
  /\ \A m, n \in DOMAIN inq : m < n => inq[m] < inq[n]
  /\ \A n \in DOMAIN inq : inq[n] <= asked

CheckingOrdered ==
  /\ checking.query <= asked
  /\ \A n \in DOMAIN inq : checking.query < inq[n]

Gone(q) == active = q \/ \E n \in DOMAIN released : released[n].query = q

GoneOrdered ==
  \A q \in Query : Gone(q) =>
    /\ q <= asked
    /\ checking.query # None => q < checking.query
    /\ \A n \in DOMAIN inq : q < inq[n]

ActiveOrdered ==
  active # None => \A n \in DOMAIN released : released[n].query < active

\* The steps that end a task.
TaskEnds(q) ==
  \/ Retrieved(q) \/ Failed(q) \/ SearchTaken(q) \/ CancelDelivered(q)
  \/ CancelUnstarted(q)

LEMMA TaskSteps == \A q \in Query : TaskStep(q) <=> StartTask(q) \/ TaskEnds(q)
BY DEF TaskStep, TaskEnds

OrderInv == InqOrdered /\ CheckingOrdered /\ GoneOrdered /\ ActiveOrdered /\ ReleaseOrder

-----------------------------------------------------------------------------
(* Type correctness *)

LEMMA SupersededTyped ==
  ASSUME TypeOK
  PROVE  Superseded \in [Query -> Tasks]
<1> SUFFICES ASSUME NEW q \in Query
             PROVE  (IF q = active /\ task[q].state = "running"
                     THEN [task[q] EXCEPT !.state = "cancelling"] ELSE task[q]) \in Tasks
  BY DEF Superseded
<1>1. task[q] \in Tasks
  BY DEF TypeOK, Tasks
<1>2. [task[q] EXCEPT !.state = "cancelling"] \in Tasks
  BY <1>1 DEF Tasks
<1> QED BY <1>1, <1>2

LEMMA EndTyped ==
  ASSUME TypeOK, NEW q \in Query, End(q, "ended") \/ End(q, "cut")
  PROVE  task' \in [Query -> Tasks] /\ active' \in 0..Queries
<1>1. Ended("ended") \in Tasks /\ Ended("cut") \in Tasks
  BY DEF Ended, Tasks
<1>2. task \in [Query -> Tasks]
  BY DEF TypeOK, Tasks
<1>3. task' = [task EXCEPT ![q] = Ended("ended")] \/ task' = [task EXCEPT ![q] = Ended("cut")]
  BY DEF End
<1>4. task' \in [Query -> Tasks]
  BY <1>1, <1>2, <1>3
<1>5. active' = active \/ active' = None
  BY DEF End
<1> QED BY <1>4, <1>5, RetrievalAssumption DEF TypeOK, None

LEMMA PushedTyped ==
  ASSUME TypeOK, NEW q \in Query, NEW found \in SUBSET Query
  PROVE  /\ Pushed(q, found) \in Seq(Release)
         /\ Len(Pushed(q, found)) = Len(released) + 1
         /\ DOMAIN Pushed(q, found) = 1..(Len(released) + 1)
         /\ \A n \in 1..Len(released) : Pushed(q, found)[n] = released[n]
         /\ Pushed(q, found)[Len(released) + 1] = [query |-> q, found |-> found]
<1>1. [query |-> q, found |-> found] \in Release
  BY DEF Release
<1>2. released \in Seq(Release)
  BY DEF TypeOK, Release
<1>3. Len(released) \in Nat /\ DOMAIN released = 1..Len(released)
  BY <1>2, LenProperties
<1>4. Pushed(q, found) = Append(released, [query |-> q, found |-> found])
  BY DEF Pushed
<1>5. /\ Pushed(q, found) \in Seq(Release)
      /\ Len(Pushed(q, found)) = Len(released) + 1
      /\ \A n \in 1..Len(released) : Pushed(q, found)[n] = released[n]
      /\ Pushed(q, found)[Len(released) + 1] = [query |-> q, found |-> found]
  BY <1>1, <1>2, <1>4, AppendProperties
<1>6. DOMAIN Pushed(q, found) = 1..Len(Pushed(q, found))
  BY <1>5, LenProperties
<1> QED BY <1>5, <1>6

\* What the tasks and the frames of the retrieval hold in the next state.
TypedNext ==
  /\ generation' \in Nat
  /\ task' \in [Query -> Tasks]
  /\ unstarted' \in 0..Queries /\ active' \in 0..Queries
  /\ webCall' \in 0..Queries
  /\ fillers' \in [{"rag", "web"} -> 0..Queries]
  /\ spoken' \in BOOLEAN
  /\ released' \in Seq(Release)
  /\ said' \subseteq Query

LEMMA NoFillersIs == NoFillers = [kind \in {"rag", "web"} |-> None]
BY DEF NoFillers

LEMMA QueryFacts ==
  /\ None \in 0..Queries
  /\ NoFillers \in [{"rag", "web"} -> 0..Queries]
  /\ \A q \in Query : q \in 0..Queries /\ q # None /\ q \in Nat
<1>1. Queries \in Nat
  BY RetrievalAssumption
<1>2. None \in 0..Queries
  BY <1>1 DEF None
<1>3. NoFillers \in [{"rag", "web"} -> 0..Queries]
  BY <1>2, NoFillersIs
<1> QED BY <1>1, <1>2, <1>3 DEF None, Query

LEMMA RouteTyped ==
  ASSUME TypeOK, NEW q \in Query, NEW need \in SUBSET Branches,
         dynamic' \in SUBSET Query, Route(q, need)
  PROVE  TypedNext
<1> USE QueryFacts
<1>1. Superseded \in [Query -> Tasks]
  BY SupersededTyped
<1>2. generation + 1 \in Nat
  BY DEF TypeOK
<1>3. CASE RouteDirect(q)
  <2>1. released' \in Seq(Release)
    BY <1>3, PushedTyped DEF RouteDirect
  <2> QED BY <1>1, <1>2, <1>3, <2>1 DEF RouteDirect, TypedNext, TypeOK
<1>4. CASE RouteRetrieve(q, need)
  <2> DEFINE new == [state |-> "running", gen |-> generation + 1, need |-> need]
  <2>1. new \in Tasks
    BY <1>2 DEF Tasks
  <2>2. task' = [Superseded EXCEPT ![q] = new]
    BY <1>4 DEF RouteRetrieve
  <2>3. task' \in [Query -> Tasks]
    BY <1>1, <2>1, <2>2
  <2>4. webCall' \in 0..Queries
    BY <1>4 DEF RouteRetrieve, TypeOK
  <2>5. fillers' \in [{"rag", "web"} -> 0..Queries]
    <3>1. [kind \in {"rag", "web"} |-> IF kind \in need THEN q ELSE None]
            \in [{"rag", "web"} -> 0..Queries]
      OBVIOUS
    <3> QED BY <1>4, <3>1 DEF RouteRetrieve
  <2>6. spoken' \in BOOLEAN /\ said' \subseteq Query
    BY <1>4 DEF RouteRetrieve, Emit, TypeOK
  <2>7. released' \in Seq(Release)
    BY <1>4 DEF RouteRetrieve, TypeOK, Release
  <2>8. generation' \in Nat /\ unstarted' \in 0..Queries /\ active' \in 0..Queries
    BY <1>2, <1>4 DEF RouteRetrieve
  <2> QED BY <2>3, <2>4, <2>5, <2>6, <2>7, <2>8 DEF TypedNext
<1> QED BY <1>3, <1>4 DEF Route

\* The rest of the type invariant, about the user and process_frame.
TypedFrames ==
  /\ asked \in 0..Queries /\ listening \in BOOLEAN /\ interrupt \in BOOLEAN
  /\ inq \in Seq(Query)
  /\ checking \in [query : 0..Queries, need : SUBSET Branches]
  /\ dynamic \subseteq Query
  /\ ended \in BOOLEAN

LEMMA TypedParts == TypedFrames' /\ TypedNext => TypeOK'
BY DEF TypedFrames, TypedNext, TypeOK, Tasks, Release

LEMMA TypedUnchanged ==
  ASSUME TypeOK
  PROVE  /\ UNCHANGED <<generation, task, unstarted, active, webCall, fillers, spoken,
                          released, said>>
              => TypedNext
         /\ UNCHANGED <<user, checking, dynamic>> => TypedFrames'
BY DEF TypeOK, TypedNext, TypedFrames, Tasks, Release, user

LEMMA FinishTyped ==
  ASSUME TypeOK, NEW q \in Query, NEW rest \in [{"rag", "web"} -> 0..Queries],
         FinishWebTool(q, rest)
  PROVE  webCall' \in 0..Queries /\ fillers' \in [{"rag", "web"} -> 0..Queries]
BY QueryFacts DEF TypeOK, FinishWebTool

LEMMA TypeStep == TypeOK /\ [Next]_vars => TypeOK'
<1> SUFFICES ASSUME TypeOK, [Next]_vars PROVE TypeOK'
  OBVIOUS
<1> USE QueryFacts
<1>0. Queries \in Nat /\ asked \in Nat /\ generation + 1 \in Nat
  BY RetrievalAssumption DEF TypeOK
<1>1. Superseded \in [Query -> Tasks]
  BY SupersededTyped
<1>2. [query |-> None, need |-> {}] \in [query : 0..Queries, need : SUBSET Branches]
  OBVIOUS
<1>3. asked < Queries => asked + 1 \in Query /\ asked + 1 \in 0..Queries
  BY <1>0 DEF Query
<1>4. <<>> \in Seq(Query)
  BY EmptySeq
<1>5. CASE StartUserTurn
  <2>1. TypedNext
    BY <1>0, <1>1, <1>5 DEF StartUserTurn, TypedNext, TypeOK, Release
  <2>2. TypedFrames'
    BY <1>5 DEF StartUserTurn, TypedFrames, TypeOK, ClearDynamicContext
  <2> QED BY <2>1, <2>2, TypedParts
<1>6. CASE Ask
  <2>1. asked + 1 \in Query /\ asked + 1 \in 0..Queries
    BY <1>3, <1>6 DEF Ask
  <2>2. Append(inq, asked + 1) \in Seq(Query)
    BY <2>1, AppendProperties DEF TypeOK
  <2>3. TypedNext
    BY <1>6 DEF Ask, TypedNext, TypeOK, Tasks, Release
  <2>4. TypedFrames'
    BY <1>6, <2>1, <2>2 DEF Ask, TypedFrames, TypeOK
  <2> QED BY <2>3, <2>4, TypedParts
<1>7. CASE AskTyped
  <2>1. asked + 1 \in Query /\ asked + 1 \in 0..Queries
    BY <1>3, <1>7 DEF AskTyped
  <2>2. <<asked + 1>> \in Seq(Query)
    BY <2>1
  <2>3. TypedNext
    BY <1>7 DEF AskTyped, TypedNext, TypeOK, Tasks, Release
  <2>4. TypedFrames'
    BY <1>2, <1>7, <2>1, <2>2 DEF AskTyped, TypedFrames, TypeOK
  <2> QED BY <2>3, <2>4, TypedParts
<1>8. CASE ProcessFrame
  <2>1. inq \in Seq(Query) /\ inq # <<>>
    BY <1>8 DEF ProcessFrame, TypeOK
  <2>2. Head(inq) \in Query /\ Tail(inq) \in Seq(Query)
    BY <2>1, HeadTailProperties
  <2>3. PICK need \in SUBSET Branches :
          \/ /\ checking' = [query |-> Head(inq), need |-> need]
             /\ UNCHANGED <<generation, task, unstarted, active, webCall, fillers,
                            spoken, released, said>>
          \/ Route(Head(inq), need) /\ UNCHANGED checking
    BY <1>8 DEF ProcessFrame
  <2>4. dynamic' = {}
    BY <1>8 DEF ProcessFrame, ClearDynamicContext
  <2>5. checking' \in [query : 0..Queries, need : SUBSET Branches]
    BY SMTT(30), <2>2, <2>3 DEF TypeOK
  <2>6. TypedFrames'
    BY <1>8, <2>2, <2>4, <2>5 DEF ProcessFrame, TypedFrames, TypeOK
  <2>7. CASE UNCHANGED <<generation, task, unstarted, active, webCall, fillers, spoken,
                         released, said>>
    BY <2>4, <2>6, <2>7, TypedUnchanged, TypedParts
  <2>8. CASE Route(Head(inq), need)
    BY <2>2, <2>4, <2>6, <2>8, RouteTyped, TypedParts
  <2> QED BY <2>3, <2>7, <2>8
<1>9. CASE CorpusChecked
  <2>1. checking.query \in Query /\ checking.need \in SUBSET Branches
    BY <1>9 DEF CorpusChecked, TypeOK, Query, None
  <2>2. dynamic' \in SUBSET Query
    BY <1>9 DEF CorpusChecked, TypeOK
  <2>3. TypedFrames'
    BY <1>2, <1>9, <2>2 DEF CorpusChecked, TypedFrames, TypeOK, user
  <2>4. checking.need \ {"rag"} \in SUBSET Branches
    BY <2>1
  <2>5. TypedNext
    BY <1>9, <2>1, <2>2, <2>4, RouteTyped DEF CorpusChecked
  <2> QED BY <2>3, <2>5, TypedParts
<1>10. CASE Interrupt
  <2>1. TypedNext
    BY <1>10 DEF Interrupt, TypedNext, TypeOK, Tasks, Release
  <2>2. TypedFrames'
    BY <1>2, <1>4, <1>10 DEF Interrupt, TypedFrames, TypeOK
  <2> QED BY <2>1, <2>2, TypedParts
<1>11. ASSUME NEW q \in Query, TaskEnds(q) PROVE TypeOK'
  <2>1. [fillers EXCEPT !.rag = None] \in [{"rag", "web"} -> 0..Queries]
    BY DEF TypeOK
  <2>2. fillers \in [{"rag", "web"} -> 0..Queries]
    BY DEF TypeOK
  <2>3. (End(q, "ended") \/ End(q, "cut")) /\ UNCHANGED <<user, checking, generation, unstarted, spoken, said>>
    BY <1>11 DEF TaskEnds, Retrieved, Failed, SearchTaken, CancelDelivered, CancelUnstarted
  <2>4. \/ FinishWebTool(q, FillersAfterSearch) \/ FinishWebTool(q, fillers)
        \/ UNCHANGED <<webCall, fillers>>
    BY <1>11 DEF TaskEnds, Retrieved, Failed, SearchTaken, CancelDelivered, CancelUnstarted
  <2>5. webCall' \in 0..Queries /\ fillers' \in [{"rag", "web"} -> 0..Queries]
    BY <2>1, <2>2, <2>4, FinishTyped DEF FillersAfterSearch, TypeOK
  <2>6. task' \in [Query -> Tasks] /\ active' \in 0..Queries
    BY <2>3, EndTyped
  <2>7. dynamic' \in SUBSET Query
    BY <1>11 DEF TaskEnds, Retrieved, Failed, SearchTaken, CancelDelivered, CancelUnstarted, TypeOK
  <2>8. \/ released' = Pushed(q, dynamic')
        \/ released' = Pushed(q, dynamic)
        \/ released' = released
    BY <1>11 DEF TaskEnds, Retrieved, Failed, SearchTaken, CancelDelivered, CancelUnstarted
  <2> released \in Seq(Release) /\ dynamic \in SUBSET Query
    BY DEF TypeOK, Release
  <2>9. released' \in Seq(Release)
    BY ZenonT(40), <2>7, <2>8, PushedTyped
  <2>10. TypedNext
    BY <2>3, <2>5, <2>6, <2>9 DEF TypedNext, TypeOK
  <2>11. TypedFrames'
    BY <2>3, <2>7 DEF TypedFrames, TypeOK, user
  <2> QED BY <2>10, <2>11, TypedParts
<1>12. CASE RagFiller
  <2>1. /\ fillers.rag \in 0..Queries
        /\ [fillers EXCEPT !.rag = None] \in [{"rag", "web"} -> 0..Queries]
    BY DEF TypeOK
  <2> fillers.rag \in Query
    BY <1>12, <2>1, <1>0 DEF RagFiller, Query, None
  <2>2. TypedNext
    BY <1>12, <2>1 DEF RagFiller, Emit, TypedNext, TypeOK, Tasks, Release
  <2>3. TypedFrames'
    BY <1>12, TypedUnchanged DEF RagFiller
  <2> QED BY <2>2, <2>3, TypedParts
<1>13. CASE WebFiller
  <2>1. /\ fillers.web \in 0..Queries
        /\ [fillers EXCEPT !.web = None] \in [{"rag", "web"} -> 0..Queries]
    BY DEF TypeOK
  <2> fillers.web \in Query
    BY <1>13, <2>1, <1>0 DEF WebFiller, Query, None
  <2>2. TypedNext
    BY <1>13, <2>1 DEF WebFiller, Emit, TypedNext, TypeOK, Tasks, Release
  <2>3. TypedFrames'
    BY <1>13, TypedUnchanged DEF WebFiller
  <2> QED BY <2>2, <2>3, TypedParts
<1>14. CASE Cleanup
  <2>1. TypedNext
    BY <1>0, <1>1, <1>14 DEF Cleanup, TypedNext, TypeOK, Release
  <2>2. TypedFrames'
    BY <1>14 DEF Cleanup, TypedFrames, TypeOK
  <2> QED BY <2>1, <2>2, TypedParts
<1>15. CASE UNCHANGED vars
  BY <1>15 DEF vars, TypeOK
<1>16. ASSUME NEW q \in Query, StartTask(q) PROVE TypeOK'
  <2>1. TypedNext
    BY <1>16 DEF StartTask, TypedNext, TypeOK, Tasks, Release
  <2>2. TypedFrames'
    BY <1>16 DEF StartTask, TypedFrames, TypeOK, user
  <2> QED BY <2>1, <2>2, TypedParts
<1> QED
  BY <1>5, <1>6, <1>7, <1>8, <1>9, <1>10, <1>11, <1>12, <1>13, <1>14, <1>15, <1>16,
     TaskSteps
  DEF Next, FrameStep

\* The state, the two switches and the histories are typed, for any number of
\* queries: in particular every frame that goes to the LLM is that of a query
\* that was asked.
THEOREM RetrievalTypeCorrect == Spec => []TypeOK
<1>1. Init => TypeOK
  <2>1. 0 \in 0..Queries /\ 0 \in Nat /\ {} \in SUBSET Branches
    BY RetrievalAssumption
  <2>2. NoTask \in Tasks
    BY <2>1 DEF NoTask, Tasks
  <2>3. <<>> \in Seq(Query) /\ <<>> \in Seq(Release)
    BY EmptySeq
  <2> SUFFICES ASSUME Init PROVE TypeOK
    OBVIOUS
  <2>4. task \in [Query -> Tasks]
    BY <2>2 DEF Init
  <2>5. checking \in [query : 0..Queries, need : SUBSET Branches]
    BY <2>1, QueryFacts DEF Init
  <2>6. fillers \in [{"rag", "web"} -> 0..Queries] /\ active \in 0..Queries /\ webCall \in 0..Queries
    BY QueryFacts DEF Init
  <2> QED BY <2>1, <2>3, <2>4, <2>5, <2>6 DEF Init, TypeOK, Tasks, Release
<1> QED BY <1>1, TypeStep, PTL DEF Spec

-----------------------------------------------------------------------------
(* Superseding *)

TaskInv == RunningIsActive /\ CancelledIsOld

LEMMA SupersededStops ==
  ASSUME TypeOK, TaskInv, NEW q \in Query
  PROVE  /\ Superseded[q].state # "running"
         /\ Superseded[q].state = "cancelling" => Superseded[q].gen < generation + 1
<1>1. task[q] \in Tasks /\ generation \in Nat
  BY DEF TypeOK, Tasks
<1>2. Superseded[q] = IF q = active /\ task[q].state = "running"
                      THEN [task[q] EXCEPT !.state = "cancelling"] ELSE task[q]
  BY DEF Superseded
<1>3. CASE q = active /\ task[q].state = "running"
  <2>1. Superseded[q].state = "cancelling" /\ Superseded[q].gen = task[q].gen
    BY <1>1, <1>2, <1>3 DEF Tasks
  <2>2. task[q].gen = generation
    BY <1>3 DEF TaskInv, RunningIsActive, Running, Current
  <2> QED BY <1>1, <2>1, <2>2
<1>4. CASE ~(q = active /\ task[q].state = "running")
  <2>1. Superseded[q] = task[q]
    BY <1>2, <1>4
  <2>2. task[q].state # "running"
    BY <1>4 DEF TaskInv, RunningIsActive, Running
  <2>3. task[q].state = "cancelling" => task[q].gen < generation
    BY DEF TaskInv, CancelledIsOld
  <2> QED BY <1>1, <2>1, <2>2, <2>3 DEF Tasks
<1> QED BY <1>3, <1>4

LEMMA SupersedeKeeps ==
  ASSUME TypeOK, TaskInv,
         task' = Superseded, generation' = generation + 1, active' = None
  PROVE  TaskInv'
BY SupersededStops, QueryFacts DEF TaskInv, RunningIsActive, CancelledIsOld, Running

LEMMA RouteKeeps ==
  ASSUME TypeOK, TaskInv, NEW q \in Query, NEW need \in SUBSET Branches, Route(q, need)
  PROVE  TaskInv'
<1>1. CASE RouteDirect(q)
  BY <1>1, SupersedeKeeps DEF RouteDirect
<1>2. CASE RouteRetrieve(q, need)
  <2> DEFINE new == [state |-> "running", gen |-> generation + 1, need |-> need]
  <2>1. task' = [Superseded EXCEPT ![q] = new] /\ generation' = generation + 1 /\ active' = q
    BY <1>2 DEF RouteRetrieve
  <2>2. Superseded \in [Query -> Tasks]
    BY SupersededTyped
  <2>3. task'[q].state = "running" /\ task'[q].gen = generation'
    BY <2>1, <2>2
  <2>4. \A p \in Query \ {q} : task'[p] = Superseded[p]
    BY <2>1, <2>2
  <2>5. \A p \in Query \ {q} :
          /\ task'[p].state # "running"
          /\ task'[p].state = "cancelling" => task'[p].gen < generation'
    BY <2>1, <2>4, SupersededStops
  <2> QED BY <2>1, <2>3, <2>5 DEF TaskInv, RunningIsActive, CancelledIsOld, Running, Current
<1> QED BY <1>1, <1>2 DEF Route

LEMMA EndKeeps ==
  ASSUME TypeOK, TaskInv, NEW q \in Query, End(q, "ended") \/ End(q, "cut"), UNCHANGED generation,
         task[q].state \in {"running", "cancelling"}
  PROVE  TaskInv'
<1>1. task \in [Query -> Tasks]
  BY DEF TypeOK, Tasks
<1>2. PICK how \in {"ended", "cut"} :
        task' = [task EXCEPT ![q] = Ended(how)] /\ active' = IF active = q THEN None ELSE active
  BY DEF End
<1>3. task'[q].state \in {"ended", "cut"}
  BY <1>1, <1>2 DEF Ended
<1>4. \A p \in Query \ {q} : task'[p] = task[p]
  BY <1>1, <1>2
<1>5. active' # q
  BY <1>2, QueryFacts
<1>6. \A p \in Query \ {q} : active' = p <=> active = p
  BY <1>2, QueryFacts
<1> QED
  BY <1>3, <1>4, <1>5, <1>6 DEF TaskInv, RunningIsActive, CancelledIsOld, Running, Current

LEMMA TaskInvKept ==
  ASSUME TaskInv, UNCHANGED <<task, generation, active>>
  PROVE  TaskInv'
BY DEF TaskInv, RunningIsActive, CancelledIsOld, Running, Current

LEMMA TaskInvStep == TypeOK /\ TaskInv /\ [Next]_vars => TaskInv'
<1> SUFFICES ASSUME TypeOK, TaskInv, [Next]_vars PROVE TaskInv'
  OBVIOUS
<1>1. CASE StartUserTurn \/ Cleanup
  BY <1>1, SupersedeKeeps DEF StartUserTurn, Cleanup
<1>2. CASE Ask \/ AskTyped \/ Interrupt \/ RagFiller \/ WebFiller
  BY <1>2, TaskInvKept DEF Ask, AskTyped, Interrupt, RagFiller, WebFiller
<1>3. CASE ProcessFrame
  <2>1. Head(inq) \in Query
    BY <1>3, HeadTailProperties DEF ProcessFrame, TypeOK
  <2>2. PICK need \in SUBSET Branches :
          Route(Head(inq), need) \/ UNCHANGED <<generation, task, active>>
    BY <1>3 DEF ProcessFrame
  <2> QED BY <2>1, <2>2, RouteKeeps, TaskInvKept
<1>4. CASE CorpusChecked
  <2>1. checking.query \in Query /\ checking.need \in SUBSET Branches
    BY <1>4 DEF CorpusChecked, TypeOK, Query, None
  <2>2. checking.need \ {"rag"} \in SUBSET Branches
    BY <2>1
  <2> QED BY <1>4, <2>1, <2>2, RouteKeeps DEF CorpusChecked
<1>5. ASSUME NEW q \in Query, TaskEnds(q) PROVE TaskInv'
  <2>1. (End(q, "ended") \/ End(q, "cut")) /\ UNCHANGED generation /\ task[q].state \in {"running", "cancelling"}
    BY <1>5 DEF TaskEnds, Retrieved, Failed, DeadlinePassed, Searching, SearchTaken, CancelDelivered,
         CancelUnstarted, Running
  <2> QED BY <2>1, EndKeeps
<1>6. CASE UNCHANGED vars
  BY <1>6, TaskInvKept DEF vars
<1>7. ASSUME NEW q \in Query, StartTask(q) PROVE TaskInv'
  BY <1>7, TaskInvKept DEF StartTask
<1> QED BY <1>1, <1>2, <1>3, <1>4, <1>5, <1>6, <1>7, TaskSteps DEF Next, FrameStep

\* Superseding is complete: a retrieval that runs is the active one and is
\* current, so a frame is never installed or released for an older generation.
THEOREM SupersededIsCancelled == Spec => []RunningIsActive
<1>1. Init => TaskInv
  BY QueryFacts DEF Init, TaskInv, RunningIsActive, CancelledIsOld, Running, NoTask
<1>2. TaskInv => RunningIsActive
  BY DEF TaskInv
<1> QED BY <1>1, <1>2, RetrievalTypeCorrect, TaskInvStep, PTL DEF Spec

-----------------------------------------------------------------------------
(* Order *)

LEMMA OrderFacts ==
  ASSUME TypeOK
  PROVE  /\ asked \in Nat /\ checking.query \in Nat /\ active \in Nat
         /\ DOMAIN inq = 1..Len(inq) /\ Len(inq) \in Nat
         /\ \A n \in DOMAIN inq : inq[n] \in Query
         /\ DOMAIN released = 1..Len(released) /\ Len(released) \in Nat
         /\ \A n \in DOMAIN released : released[n].query \in Query
<1>1. inq \in Seq(Query) /\ released \in Seq(Release)
  BY DEF TypeOK, Release
<1>2. /\ DOMAIN inq = 1..Len(inq) /\ Len(inq) \in Nat
      /\ \A n \in DOMAIN inq : inq[n] \in Query
  BY <1>1, LenProperties
<1>3. /\ DOMAIN released = 1..Len(released) /\ Len(released) \in Nat
      /\ \A n \in DOMAIN released : released[n] \in Release
  BY <1>1, LenProperties
<1>4. \A n \in DOMAIN released : released[n].query \in Query
  BY <1>3 DEF Release
<1>5. asked \in Nat /\ active \in Nat
  BY RetrievalAssumption DEF TypeOK
<1>6. checking.query \in 0..Queries
  BY DEF TypeOK
<1> QED BY <1>2, <1>3, <1>4, <1>5, <1>6, RetrievalAssumption

LEMMA InqNext ==
  ASSUME TypeOK'
  PROVE  \A n \in DOMAIN inq' : inq'[n] \in Query
<1> inq' \in Seq(Query)
  BY DEF TypeOK
<1> QED BY LenProperties

\* A frame pushed for a query newer than all those released keeps the order.
LEMMA PushedOrder ==
  ASSUME TypeOK, ReleaseOrder, NEW q \in Query, NEW found \in SUBSET Query,
         \A n \in DOMAIN released : released[n].query < q,
         released' = Pushed(q, found)
  PROVE  /\ ReleaseOrder'
         /\ \A n \in DOMAIN released' :
              released'[n].query = q \/ \E m \in DOMAIN released : released'[n].query = released[m].query
<1> DEFINE L == Len(released)
<1>1. /\ DOMAIN released' = 1..(L + 1)
      /\ \A n \in 1..L : released'[n] = released[n]
      /\ released'[L + 1].query = q
  <2>1. /\ DOMAIN Pushed(q, found) = 1..(L + 1)
        /\ \A n \in 1..L : Pushed(q, found)[n] = released[n]
        /\ Pushed(q, found)[L + 1] = [query |-> q, found |-> found]
    BY PushedTyped
  <2>2. Pushed(q, found)[L + 1].query = q
    BY <2>1
  <2> QED BY <2>1, <2>2
<1>2. L \in Nat /\ DOMAIN released = 1..L
  BY OrderFacts
<1> HIDE DEF L
<1>3. \A n \in DOMAIN released' : n \in 1..L \/ n = L + 1
  BY <1>1, <1>2
<1>4. ASSUME NEW m \in DOMAIN released', NEW n \in DOMAIN released', m < n
      PROVE  released'[m].query < released'[n].query
  <2>1. m \in 1..L
    BY <1>1, <1>2, <1>4
  <2>2. CASE n \in 1..L
    BY <1>1, <1>2, <1>4, <2>1, <2>2 DEF ReleaseOrder
  <2>3. CASE n = L + 1
    BY <1>1, <1>2, <2>1, <2>3
  <2> QED BY <1>3, <2>2, <2>3
<1>5. ReleaseOrder'
  BY <1>4 DEF ReleaseOrder
<1> QED BY <1>1, <1>2, <1>3, <1>5

\* Nothing is put anywhere: frames are dropped, a retrieval is given up.
LEMMA OrderShrinks ==
  ASSUME TypeOK, TypeOK', OrderInv,
         asked' = asked, inq' = inq \/ inq' = <<>>,
         checking' = checking \/ checking'.query = None,
         active' = active \/ active' = None, released' = released
  PROVE  OrderInv'
<1> USE OrderFacts, QueryFacts
<1>1. \A n \in DOMAIN inq' : n \in DOMAIN inq /\ inq'[n] = inq[n]
  OBVIOUS
<1>2. InqOrdered'
  BY <1>1 DEF OrderInv, InqOrdered
<1>3. CheckingOrdered'
  BY <1>1 DEF OrderInv, CheckingOrdered, None, Query
<1>4. \A q \in Query : Gone(q)' => Gone(q)
  BY DEF Gone
<1>5. GoneOrdered'
  BY <1>1, <1>4 DEF OrderInv, GoneOrdered
<1>6. ActiveOrdered' /\ ReleaseOrder'
  BY DEF OrderInv, ActiveOrdered, ReleaseOrder
<1> QED BY <1>2, <1>3, <1>5, <1>6 DEF OrderInv

\* A query leaves process_frame: it is newer than all that are gone.
LEMMA RouteOrder ==
  ASSUME TypeOK, TypeOK', OrderInv,
         NEW q \in Query, NEW need \in SUBSET Branches, Route(q, need),
         asked' = asked, checking'.query = None, q <= asked,
         InqOrdered', \A n \in DOMAIN inq' : q < inq'[n],
         \A p \in Query : Gone(p) => p < q
  PROVE  OrderInv'
<1> USE QueryFacts
<1>1. CheckingOrdered'
  <2>1. asked \in Nat /\ \A n \in DOMAIN inq' : inq'[n] \in Nat
    BY OrderFacts, InqNext DEF Query
  <2> QED BY <2>1, OrderFacts DEF CheckingOrdered, None, Query
<1>2. \A n \in DOMAIN released : released[n].query < q
  BY OrderFacts DEF Gone
<1>3. ReleaseOrder' /\ ActiveOrdered' /\ \A p \in Query : Gone(p)' => Gone(p) \/ p = q
  <2>1. CASE RouteDirect(q)
    <3>1. released' = Pushed(q, dynamic') /\ active' = None
      BY <2>1 DEF RouteDirect
    <3>2. dynamic' \in SUBSET Query
      BY DEF TypeOK
    <3>3. /\ ReleaseOrder'
          /\ \A n \in DOMAIN released' :
               released'[n].query = q \/ \E m \in DOMAIN released : released'[n].query = released[m].query
      BY <1>2, <3>1, <3>2, PushedOrder DEF OrderInv
    <3> QED BY <3>1, <3>3 DEF ActiveOrdered, Gone
  <2>2. CASE RouteRetrieve(q, need)
    <3>1. released' = released /\ active' = q
      BY <2>2 DEF RouteRetrieve
    <3> QED BY <1>2, <3>1 DEF OrderInv, ReleaseOrder, ActiveOrdered, Gone
  <2> QED BY <2>1, <2>2 DEF Route
<1>4. GoneOrdered'
  <2> SUFFICES ASSUME NEW p \in Query, Gone(p)'
               PROVE  p <= asked' /\ \A n \in DOMAIN inq' : p < inq'[n]
    BY DEF GoneOrdered
  <2>1. p = q \/ p < q
    BY <1>3
  <2>2. asked \in Nat /\ p \in Nat /\ q \in Nat /\ \A n \in DOMAIN inq' : inq'[n] \in Nat
    BY OrderFacts, InqNext DEF Query
  <2> QED BY <2>1, <2>2
<1> QED BY <1>1, <1>3, <1>4 DEF OrderInv

LEMMA EndOrder ==
  ASSUME TypeOK, TypeOK', TaskInv, OrderInv, NEW q \in Query, TaskEnds(q)
  PROVE  OrderInv'
<1> USE QueryFacts
<1>1. /\ asked' = asked /\ inq' = inq /\ checking' = checking
      /\ active' = IF active = q THEN None ELSE active
  BY DEF TaskEnds, Retrieved, Failed, SearchTaken, CancelDelivered, CancelUnstarted, End, user
<1>2. CASE released' = released
  BY <1>1, <1>2, OrderShrinks
<1>3. CASE released' # released
  <2>1. ~CancelDelivered(q)
    <3>1. task[q].state = "cancelling" => ~Current(q)
      <4>1. task[q] \in Tasks /\ generation \in Nat
        BY DEF TypeOK, Tasks
      <4> QED BY <4>1 DEF TaskInv, CancelledIsOld, Current, Tasks
    <3> QED BY <1>3, <3>1 DEF CancelDelivered
  <2> ~CancelUnstarted(q)
    BY <1>3 DEF CancelUnstarted
  <2>2. active = q
    BY <2>1 DEF TaskEnds, Retrieved, Failed, DeadlinePassed, Searching, SearchTaken, TaskInv, RunningIsActive
  <2>3. PICK found \in SUBSET Query : released' = Pushed(q, found)
    <3>1. dynamic \in SUBSET Query /\ dynamic' \in SUBSET Query
      BY DEF TypeOK
    <3> QED BY <2>1, <3>1 DEF TaskEnds, Retrieved, Failed, SearchTaken
  <2>4. \A n \in DOMAIN released : released[n].query < q
    BY <2>2 DEF OrderInv, ActiveOrdered
  <2>5. /\ ReleaseOrder'
        /\ \A n \in DOMAIN released' :
             released'[n].query = q \/ \E m \in DOMAIN released : released'[n].query = released[m].query
    BY <2>3, <2>4, PushedOrder DEF OrderInv
  <2>6. active' = None
    BY <1>1, <2>2
  <2>7. \A p \in Query : Gone(p)' => Gone(p)
    BY <2>2, <2>5, <2>6 DEF Gone
  <2>8. GoneOrdered'
    BY <1>1, <2>7 DEF OrderInv, GoneOrdered
  <2>9. InqOrdered' /\ CheckingOrdered' /\ ActiveOrdered'
    BY <1>1, <2>6 DEF OrderInv, InqOrdered, CheckingOrdered, ActiveOrdered
  <2> QED BY <2>5, <2>8, <2>9 DEF OrderInv
<1> QED BY <1>2, <1>3

LEMMA OrderStep == TypeOK /\ TypeOK' /\ TaskInv /\ OrderInv /\ [Next]_vars => OrderInv'
<1> SUFFICES ASSUME TypeOK, TypeOK', TaskInv, OrderInv, [Next]_vars PROVE OrderInv'
  OBVIOUS
<1> USE QueryFacts
<1>1. CASE StartUserTurn \/ Interrupt \/ RagFiller \/ WebFiller \/ Cleanup \/ UNCHANGED vars
  BY <1>1, OrderShrinks DEF StartUserTurn, Interrupt, RagFiller, WebFiller, Cleanup, vars, user
<1>2. CASE Ask
  <2>1. asked' = asked + 1 /\ inq' = Append(inq, asked + 1) /\ UNCHANGED <<checking, active, released>>
    BY <1>2 DEF Ask
  <2>2. asked \in Nat /\ inq \in Seq(Query) /\ asked + 1 \in Query
    BY <1>2, RetrievalAssumption DEF Ask, TypeOK, Query
  <2>3. /\ Len(inq) \in Nat /\ DOMAIN inq = 1..Len(inq) /\ DOMAIN inq' = 1..(Len(inq) + 1)
        /\ \A n \in 1..Len(inq) : inq'[n] = inq[n]
        /\ inq'[Len(inq) + 1] = asked + 1
    BY <2>1, <2>2, AppendProperties, LenProperties
  <2>4. \A n \in DOMAIN inq : inq[n] \in Nat /\ inq[n] <= asked
    BY OrderFacts DEF OrderInv, InqOrdered, Query
  <2>5. InqOrdered'
    BY <2>1, <2>2, <2>3, <2>4, SMTT(30) DEF OrderInv, InqOrdered
  <2>6. CheckingOrdered'
    BY <2>1, <2>2, <2>3, OrderFacts DEF OrderInv, CheckingOrdered
  <2>7. \A p \in Query : Gone(p)' => Gone(p)
    BY <2>1 DEF Gone
  <2>8. GoneOrdered'
    BY <2>1, <2>2, <2>3, <2>7 DEF OrderInv, GoneOrdered
  <2>9. ActiveOrdered' /\ ReleaseOrder'
    BY <2>1 DEF OrderInv, ActiveOrdered, ReleaseOrder
  <2> QED BY <2>5, <2>6, <2>8, <2>9 DEF OrderInv
<1>3. CASE AskTyped
  <2>1. /\ asked' = asked + 1 /\ inq' = <<asked + 1>> /\ checking'.query = None
        /\ UNCHANGED <<active, released>>
    BY <1>3 DEF AskTyped
  <2>2. asked \in Nat /\ DOMAIN inq' = {1} /\ inq'[1] = asked + 1
    BY <2>1, OrderFacts
  <2>3. InqOrdered' /\ CheckingOrdered'
    BY <2>1, <2>2 DEF InqOrdered, CheckingOrdered, None
  <2>4. \A p \in Query : Gone(p)' => Gone(p)
    BY <2>1 DEF Gone
  <2>5. GoneOrdered'
    BY <2>1, <2>2, <2>4 DEF OrderInv, GoneOrdered
  <2>6. ActiveOrdered' /\ ReleaseOrder'
    BY <2>1 DEF OrderInv, ActiveOrdered, ReleaseOrder
  <2> QED BY <2>3, <2>5, <2>6 DEF OrderInv
<1>4. CASE ProcessFrame
  <2> DEFINE q == Head(inq)
  <2>1. inq \in Seq(Query) /\ inq # <<>> /\ inq' = Tail(inq) /\ asked' = asked /\ checking.query = None
    BY <1>4 DEF ProcessFrame, TypeOK, user
  <2>2. q \in Query /\ q = inq[1] /\ Len(inq) \in Nat \ {0} /\ DOMAIN inq = 1..Len(inq)
    BY <2>1, HeadTailProperties, LenProperties, EmptySeq
  <2>3. /\ DOMAIN inq' = 1..(Len(inq) - 1)
        /\ \A n \in 1..(Len(inq) - 1) : inq'[n] = inq[n + 1]
    BY <2>1, <2>2, HeadTailProperties, LenProperties
  <2>. /\ \A m, n \in 1..Len(inq) : m < n => inq[m] < inq[n]
       /\ \A n \in 1..Len(inq) : inq[n] <= asked
    BY <2>2 DEF OrderInv, InqOrdered
  <2>. \A n \in 1..(Len(inq) - 1) : n \in Nat /\ n + 1 \in 1..Len(inq) /\ 1 < n + 1
    BY <2>2
  <2>. 1 \in 1..Len(inq)
    BY <2>2
  <2> HIDE DEF q
  <2>4. InqOrdered'
    <3>1. ASSUME NEW m \in DOMAIN inq', NEW n \in DOMAIN inq', m < n
          PROVE  inq'[m] < inq'[n]
      BY <2>3, <3>1
    <3>2. ASSUME NEW n \in DOMAIN inq' PROVE inq'[n] <= asked'
      BY <2>1, <2>3
    <3> QED BY <3>1, <3>2 DEF InqOrdered
  <2>5. \A n \in DOMAIN inq' : q < inq'[n]
    BY <2>2, <2>3
  <2>6. q <= asked /\ \A p \in Query : Gone(p) => p < q
    BY <2>2 DEF OrderInv, GoneOrdered
  <2>7. PICK need \in SUBSET Branches :
          \/ /\ checking' = [query |-> q, need |-> need]
             /\ UNCHANGED <<active, released>>
          \/ Route(q, need) /\ UNCHANGED checking
    BY <1>4 DEF ProcessFrame, q
  <2>8. CASE checking' = [query |-> q, need |-> need] /\ UNCHANGED <<active, released>>
    <3>1. checking'.query = q
      BY <2>8
    <3>2. CheckingOrdered'
      BY <2>1, <2>5, <2>6, <3>1 DEF CheckingOrdered
    <3>3. \A p \in Query : Gone(p)' => Gone(p)
      BY <2>8 DEF Gone
    <3>4. \A p \in Query : Gone(p) => p <= asked /\ \A n \in DOMAIN inq' : p < inq'[n]
      BY <2>2, <2>3 DEF OrderInv, GoneOrdered
    <3>5. GoneOrdered'
      BY <2>1, <2>6, <3>1, <3>3, <3>4 DEF GoneOrdered
    <3>6. ActiveOrdered' /\ ReleaseOrder'
      BY <2>8 DEF OrderInv, ActiveOrdered, ReleaseOrder
    <3> QED BY <2>4, <3>2, <3>5, <3>6 DEF OrderInv
  <2>9. CASE Route(q, need) /\ UNCHANGED checking
    BY <2>1, <2>2, <2>4, <2>5, <2>6, <2>9, RouteOrder
  <2> QED BY <2>7, <2>8, <2>9
<1>5. CASE CorpusChecked
  <2> DEFINE q == checking.query
  <2>1. /\ q \in Query /\ checking.need \in SUBSET Branches
        /\ checking.need \ {"rag"} \in SUBSET Branches
    <3>1. checking.query \in 0..Queries /\ checking.need \in SUBSET Branches
      BY DEF TypeOK
    <3>2. checking.query # None
      BY <1>5 DEF CorpusChecked
    <3> QED BY <3>1, <3>2, RetrievalAssumption DEF None, Query
  <2>2. asked' = asked /\ inq' = inq /\ checking'.query = None
    BY <1>5 DEF CorpusChecked, user
  <2>3. InqOrdered' /\ \A n \in DOMAIN inq' : q < inq'[n]
    BY <2>2 DEF OrderInv, InqOrdered, CheckingOrdered
  <2>4. q <= asked /\ \A p \in Query : Gone(p) => p < q
    BY <2>1 DEF OrderInv, CheckingOrdered, GoneOrdered
  <2>5. PICK need \in SUBSET Branches : Route(q, need)
    BY <1>5, <2>1 DEF CorpusChecked
  <2> HIDE DEF q
  <2> QED BY <2>1, <2>2, <2>3, <2>4, <2>5, RouteOrder
<1>6. ASSUME NEW q \in Query, TaskEnds(q) PROVE OrderInv'
  BY <1>6, EndOrder
<1>7. ASSUME NEW q \in Query, StartTask(q) PROVE OrderInv'
  BY <1>7, OrderShrinks DEF StartTask, user
<1> QED BY <1>1, <1>2, <1>3, <1>4, <1>5, <1>6, <1>7, TaskSteps DEF Next, FrameStep

\* The LLM sees the queries in the order they were asked and none twice, however
\* many retrievals are superseded, time out, are cancelled or taken down with
\* another session's search.
THEOREM FramesKeepOrder == Spec => []ReleaseOrder
<1>1. Init => TaskInv
  BY QueryFacts DEF Init, TaskInv, RunningIsActive, CancelledIsOld, Running, NoTask
<1>2. Init => OrderInv
  BY QueryFacts DEF Init, OrderInv, InqOrdered, CheckingOrdered, GoneOrdered, Gone,
                    ActiveOrdered, ReleaseOrder, None
<1>3. TypeOK /\ TypeOK' /\ TaskInv /\ OrderInv /\ [Next]_vars => TaskInv' /\ OrderInv'
  BY TaskInvStep, OrderStep
<1>4. OrderInv => ReleaseOrder
  BY DEF OrderInv
<1> QED BY <1>1, <1>2, <1>3, <1>4, RetrievalTypeCorrect, PTL DEF Spec

-----------------------------------------------------------------------------
(* Web calls *)

\* The open call has a task that will end it, or one that cleanup struck before it
\* began; and a task that has not begun loses its call only to cleanup.
CallTask ==
  webCall # None =>
    \/ task[webCall].state \in {"running", "cancelling"}
    \/ ended /\ unstarted = webCall /\ task[webCall].state = "cut"

CallUnstarted == webCall # None /\ unstarted = webCall => Running(webCall) \/ ended

CallInv == CallTask /\ CallUnstarted

LEMMA CallIsQuery == TypeOK /\ webCall # None => webCall \in Query
BY RetrievalAssumption DEF TypeOK, None, Query

LEMMA CallSuperseded ==
  ASSUME TypeOK, CallTask, webCall # None
  PROVE  \/ Superseded[webCall].state \in {"running", "cancelling"}
         \/ ended /\ unstarted = webCall /\ Superseded[webCall].state = "cut"
<1>1. webCall \in Query
  BY CallIsQuery
<1>2. task[webCall] \in Tasks
  BY <1>1 DEF TypeOK, Tasks
<1>3. Superseded[webCall] = IF webCall = active /\ task[webCall].state = "running"
                            THEN [task[webCall] EXCEPT !.state = "cancelling"]
                            ELSE task[webCall]
  BY <1>1 DEF Superseded
<1>4. [task[webCall] EXCEPT !.state = "cancelling"].state = "cancelling"
  BY <1>2 DEF Tasks
<1> QED BY <1>3, <1>4 DEF CallTask

LEMMA CallRouted ==
  ASSUME TypeOK, CallInv, ~ended, ended' = ended, FirstStepsDone,
         NEW q \in Query, NEW need \in SUBSET Branches, Route(q, need)
  PROVE  CallInv'
<1>1. webCall # None => /\ webCall \in Query /\ unstarted # webCall
                        /\ Superseded[webCall].state \in {"running", "cancelling"}
  BY CallIsQuery, CallSuperseded DEF CallInv, CallTask, FirstStepsDone
<1>2. CASE RouteDirect(q)
  BY <1>1, <1>2 DEF RouteDirect, CallInv, CallTask, CallUnstarted
<1>3. CASE RouteRetrieve(q, need)
  <2>1. /\ task' = [Superseded EXCEPT
                      ![q] = [state |-> "running", gen |-> generation + 1, need |-> need]]
        /\ webCall' = q \/ webCall' = webCall
        /\ unstarted' = q
    BY <1>3 DEF RouteRetrieve
  <2>2. Superseded \in [Query -> Tasks]
    BY SupersededTyped
  <2>3. task'[q].state = "running" /\ \A p \in Query \ {q} : task'[p] = Superseded[p]
    BY <2>1, <2>2
  <2> QED BY <1>1, <2>1, <2>3 DEF CallInv, CallTask, CallUnstarted, Running
<1> QED BY <1>2, <1>3 DEF Route

LEMMA CallEnds ==
  ASSUME TypeOK, CallInv, NEW q \in Query, TaskEnds(q)
  PROVE  CallInv'
<1>1. /\ \A p \in Query \ {q} : task'[p] = task[p]
      /\ UNCHANGED <<unstarted, ended>>
  <2>1. End(q, "ended") \/ End(q, "cut")
    BY DEF TaskEnds, Retrieved, Failed, SearchTaken, CancelDelivered, CancelUnstarted
  <2>2. UNCHANGED <<unstarted, ended>>
    BY DEF TaskEnds, Retrieved, Failed, SearchTaken, CancelDelivered, CancelUnstarted, user
  <2> QED BY <2>1, <2>2 DEF End, TypeOK
<1>2. CASE CancelUnstarted(q)
  <2>1. /\ webCall' = webCall /\ unstarted = q /\ task[q].state = "cancelling"
        /\ task' = [task EXCEPT ![q] = Ended("cut")]
    BY <1>2 DEF CancelUnstarted, End
  <2>2. task'[q].state = "cut"
    BY <2>1 DEF TypeOK, Ended
  <2>3. webCall = q => ended
    BY <2>1, QueryFacts DEF CallInv, CallUnstarted, Running
  <2> QED BY <1>1, <2>1, <2>2, <2>3, CallIsQuery DEF CallInv, CallTask, CallUnstarted, Running
<1>3. CASE ~CancelUnstarted(q)
  <2>1. webCall' = None \/ (webCall' = webCall /\ webCall # q)
    BY <1>3 DEF TaskEnds, Retrieved, Failed, SearchTaken, CancelDelivered, FinishWebTool
  <2> QED BY <1>1, <2>1, CallIsQuery DEF CallInv, CallTask, CallUnstarted, Running
<1> QED BY <1>2, <1>3

LEMMA CallStep == TypeOK /\ CallInv /\ [Next]_vars => CallInv'
<1> SUFFICES ASSUME TypeOK, CallInv, [Next]_vars PROVE CallInv'
  OBVIOUS
<1>1. CASE StartUserTurn
  BY <1>1 DEF StartUserTurn, CallInv, CallTask, CallUnstarted
<1>2. CASE Cleanup
  BY <1>2, CallSuperseded DEF Cleanup, CallInv, CallTask, CallUnstarted
<1>3. CASE Ask \/ AskTyped \/ Interrupt \/ RagFiller \/ WebFiller \/ UNCHANGED vars
  BY <1>3 DEF Ask, AskTyped, Interrupt, RagFiller, WebFiller, user, vars, CallInv, CallTask,
              CallUnstarted, Running
<1>4. CASE ProcessFrame
  <2>1. Head(inq) \in Query
    BY <1>4, HeadTailProperties DEF ProcessFrame, TypeOK
  <2>2. PICK need \in SUBSET Branches :
          Route(Head(inq), need) \/ UNCHANGED <<task, unstarted, webCall>>
    BY <1>4 DEF ProcessFrame
  <2>3. ~ended /\ ended' = ended /\ FirstStepsDone
    BY <1>4 DEF ProcessFrame
  <2>4. CASE UNCHANGED <<task, unstarted, webCall>>
    BY <2>3, <2>4 DEF CallInv, CallTask, CallUnstarted, Running
  <2> QED BY <2>1, <2>2, <2>3, <2>4, CallRouted
<1>5. CASE CorpusChecked
  <2>1. checking.query \in Query /\ checking.need \in SUBSET Branches
    BY <1>5 DEF CorpusChecked, TypeOK, Query, None
  <2>2. checking.need \ {"rag"} \in SUBSET Branches
    BY <2>1
  <2>3. ~ended /\ ended' = ended /\ FirstStepsDone
    BY <1>5 DEF CorpusChecked, user
  <2> QED BY <1>5, <2>1, <2>2, <2>3, CallRouted DEF CorpusChecked
<1>6. ASSUME NEW q \in Query, StartTask(q) PROVE CallInv'
  BY <1>6, QueryFacts DEF StartTask, user, Running, CallInv, CallTask, CallUnstarted
<1> QED
  BY <1>1, <1>2, <1>3, <1>4, <1>5, <1>6, CallEnds, TaskSteps DEF Next, FrameStep

LEMMA CallStarts == Init => CallInv
BY DEF Init, CallInv, CallTask, CallUnstarted

\* No timeout, error, cancellation or new turn leaves a web call open that the client
\* sees in progress: a task that will end it is still there, unless cleanup struck
\* before that task's first step (processors.py:1330-1346, 1362, 1369-1374).
THEOREM WebCallsAreEnded == Spec => []WebCallHasTask
<1>1. CallInv => WebCallHasTask
  BY DEF CallInv, CallTask, WebCallHasTask
<1> QED BY <1>1, CallStarts, CallStep, RetrievalTypeCorrect, PTL DEF Spec

-----------------------------------------------------------------------------
(* The findings of a query, when the corpus check answers at once *)

\* Nothing is in the context while a retrieval is under way: what an older one found
\* was taken out when process_frame began, and nobody has come since.
NothingStale ==
  /\ checking.query = None
  /\ active # None => dynamic = {}

ContextInv == NothingStale /\ OwnContext

LEMMA PushedOwn ==
  ASSUME TypeOK, OwnContext, NEW q \in Query, NEW found \in SUBSET {q},
         released' = Pushed(q, found)
  PROVE  OwnContext'
<1>1. found \in SUBSET Query
  OBVIOUS
<1>2. /\ DOMAIN released' = 1..(Len(released) + 1)
      /\ \A n \in 1..Len(released) : released'[n] = released[n]
      /\ released'[Len(released) + 1] = [query |-> q, found |-> found]
  BY <1>1, PushedTyped
<1>3. Len(released) \in Nat /\ DOMAIN released = 1..Len(released)
  BY OrderFacts
<1>4. ASSUME NEW n \in DOMAIN released' PROVE released'[n].found \subseteq {released'[n].query}
  <2>1. CASE n \in 1..Len(released)
    BY <1>2, <1>3, <2>1 DEF OwnContext
  <2>2. CASE n = Len(released) + 1
    BY <1>2, <2>2
  <2> QED BY <1>2, <1>3, <1>4, <2>1, <2>2
<1> QED BY <1>4 DEF OwnContext

LEMMA ContextStep ==
  ASSUME CheckWaits = FALSE, TypeOK, TaskInv, ContextInv, [Next]_vars
  PROVE  ContextInv'
<1> USE DEF ContextInv
<1>1. CASE StartUserTurn \/ Cleanup
  BY <1>1 DEF StartUserTurn, Cleanup, NothingStale, OwnContext
<1>2. CASE Ask \/ AskTyped \/ Interrupt \/ RagFiller \/ WebFiller \/ UNCHANGED vars
  BY <1>2 DEF Ask, AskTyped, Interrupt, RagFiller, WebFiller, vars, NothingStale, OwnContext
<1>3. CASE ProcessFrame
  <2>1. Head(inq) \in Query
    BY <1>3, HeadTailProperties DEF ProcessFrame, TypeOK
  <2>2. PICK need \in SUBSET Branches : Route(Head(inq), need) /\ UNCHANGED checking
    BY <1>3 DEF ProcessFrame
  <2>3. dynamic' = {}
    BY <1>3 DEF ProcessFrame, ClearDynamicContext
  <2>4. NothingStale'
    BY <2>2, <2>3 DEF NothingStale
  <2>5. CASE RouteDirect(Head(inq))
    BY <2>1, <2>3, <2>4, <2>5, PushedOwn DEF RouteDirect
  <2>6. CASE RouteRetrieve(Head(inq), need)
    BY <2>4, <2>6 DEF RouteRetrieve, OwnContext
  <2> QED BY <2>2, <2>5, <2>6 DEF Route
<1>4. CASE CorpusChecked
  BY <1>4 DEF CorpusChecked, NothingStale
<1>5. ASSUME NEW q \in Query, TaskEnds(q) PROVE ContextInv'
  <2>1. UNCHANGED checking /\ active' = IF active = q THEN None ELSE active
    BY <1>5 DEF TaskEnds, Retrieved, Failed, SearchTaken, CancelDelivered, CancelUnstarted, End
  <2>2. CASE CancelDelivered(q)
    <3>1. UNCHANGED <<dynamic, released>>
      <4>1. task[q] \in Tasks /\ generation \in Nat
        BY DEF TypeOK, Tasks
      <4>2. ~Current(q)
        BY <2>2, <4>1 DEF CancelDelivered, TaskInv, CancelledIsOld, Current, Tasks
      <4> QED BY <2>2, <4>2 DEF CancelDelivered
    <3> QED BY <2>1, <3>1 DEF NothingStale, OwnContext
  <2>4. CASE CancelUnstarted(q)
    BY <2>1, <2>4 DEF CancelUnstarted, NothingStale, OwnContext
  <2>3. CASE Retrieved(q) \/ Failed(q) \/ SearchTaken(q)
    <3>1. active = q /\ active' = None
      BY <2>1, <2>3 DEF Retrieved, Failed, DeadlinePassed, Searching, SearchTaken, TaskInv,
         RunningIsActive
    <3>2. dynamic = {}
      BY <3>1, QueryFacts DEF NothingStale
    <3>3. PICK found \in SUBSET {q} : released' = Pushed(q, found)
      BY <2>3, <3>2 DEF Retrieved, Failed, SearchTaken
    <3>4. OwnContext'
      BY <3>3, PushedOwn
    <3> QED BY <2>1, <3>1, <3>4 DEF NothingStale
  <2> QED BY <1>5, <2>2, <2>3, <2>4 DEF TaskEnds
<1>6. ASSUME NEW q \in Query, StartTask(q) PROVE ContextInv'
  BY <1>6 DEF StartTask, NothingStale, OwnContext
<1> QED BY <1>1, <1>2, <1>3, <1>4, <1>5, <1>6, TaskSteps DEF Next, FrameStep

\* The await of the corpus check is the only way for an older query's findings into
\* a newer query's request: if the check always answers from its cache, each frame
\* goes on with its own findings or none (processors.py:1079-1128, 1276).
THEOREM OwnContextWithoutWait ==
  ASSUME CheckWaits = FALSE
  PROVE  Spec => []OwnContext
<1>1. Init => TaskInv /\ ContextInv
  BY QueryFacts DEF Init, TaskInv, RunningIsActive, CancelledIsOld, Running, NoTask,
                    ContextInv, NothingStale, OwnContext
<1>2. TypeOK /\ TaskInv /\ ContextInv /\ [Next]_vars => TaskInv' /\ ContextInv'
  BY TaskInvStep, ContextStep
<1>3. ContextInv => OwnContext
  BY DEF ContextInv
<1> QED BY <1>1, <1>2, <1>3, RetrievalTypeCorrect, PTL DEF Spec

-----------------------------------------------------------------------------
(* The fillers *)

Out(q) == \E n \in DOMAIN released : released[n].query = q

\* A query that process_frame and its queue have left behind.
Behind(q) ==
  /\ q <= asked
  /\ checking.query # None => q < checking.query
  /\ \A n \in DOMAIN inq : q < inq[n]

\* A retrieval is of a query left behind, its frame waits for it, and the documents'
\* filler is of the retrieval that runs, or of one that was cut off.
TasksBehind == \A q \in Query : task[q].state # "none" => Behind(q)
FrameWaits == \A q \in Query : task[q].state \in {"running", "cancelling"} => ~Out(q)
FillerOfTask == fillers.rag # None => task[fillers.rag].state \in {"running", "cut"}

FillerInv == TasksBehind /\ FrameWaits /\ FillerOfTask

LEMMA SupersededIs ==
  ASSUME TypeOK, NEW q \in Query
  PROVE  /\ Superseded[q].state # "none" <=> task[q].state # "none"
         /\ Superseded[q].state \in {"running", "cancelling"} =>
              task[q].state \in {"running", "cancelling"}
<1>1. task[q] \in Tasks
  BY DEF TypeOK, Tasks
<1>2. Superseded[q] = IF q = active /\ task[q].state = "running"
                      THEN [task[q] EXCEPT !.state = "cancelling"] ELSE task[q]
  BY DEF Superseded
<1>3. [task[q] EXCEPT !.state = "cancelling"].state = "cancelling"
  BY <1>1 DEF Tasks
<1> QED BY <1>2, <1>3

LEMMA BehindStays ==
  ASSUME TypeOK, OrderInv, [Next]_vars, NEW q \in Query, Behind(q)
  PROVE  Behind(q)'
<1> USE QueryFacts
<1>1. CASE UNCHANGED <<asked, checking, inq>>
  BY <1>1 DEF Behind
<1>2. CASE Interrupt
  BY <1>2 DEF Interrupt, Behind
<1>3. CASE Ask
  <2>1. asked' = asked + 1 /\ inq' = Append(inq, asked + 1) /\ checking' = checking
    BY <1>3 DEF Ask
  <2>2. asked \in Nat /\ inq \in Seq(Query) /\ asked + 1 \in Query
    BY <1>3, RetrievalAssumption DEF Ask, TypeOK, Query
  <2>3. /\ Len(inq) \in Nat /\ DOMAIN inq = 1..Len(inq) /\ DOMAIN inq' = 1..(Len(inq) + 1)
        /\ \A n \in 1..Len(inq) : inq'[n] = inq[n]
        /\ inq'[Len(inq) + 1] = asked + 1
    BY <2>1, <2>2, AppendProperties, LenProperties
  <2> QED BY <2>1, <2>2, <2>3 DEF Behind
<1>4. CASE AskTyped
  <2>1. asked' = asked + 1 /\ inq' = <<asked + 1>> /\ checking'.query = None /\ asked \in Nat
    BY <1>4, OrderFacts DEF AskTyped
  <2>2. DOMAIN inq' = {1} /\ inq'[1] = asked + 1
    BY <2>1
  <2> QED BY <2>1, <2>2 DEF Behind
<1>5. CASE ProcessFrame
  <2>1. inq \in Seq(Query) /\ inq # <<>> /\ inq' = Tail(inq) /\ asked' = asked
    BY <1>5 DEF ProcessFrame, TypeOK
  <2>2. Head(inq) = inq[1] /\ Len(inq) \in Nat \ {0} /\ DOMAIN inq = 1..Len(inq)
    BY <2>1, HeadTailProperties, LenProperties, EmptySeq
  <2>3. /\ DOMAIN inq' = 1..(Len(inq) - 1)
        /\ \A n \in 1..(Len(inq) - 1) : inq'[n] = inq[n + 1]
    BY <2>1, <2>2, HeadTailProperties, LenProperties
  <2>4. \A n \in DOMAIN inq' : q < inq'[n]
    BY <2>2, <2>3, SMTT(30) DEF Behind
  <2>5. checking'.query = Head(inq) \/ checking' = checking
    BY <1>5 DEF ProcessFrame
  <2>6. q < Head(inq)
    BY <2>2 DEF Behind
  <2> QED BY <2>1, <2>4, <2>5, <2>6 DEF Behind
<1>6. CASE CorpusChecked
  BY <1>6 DEF CorpusChecked, user, Behind
<1> QED
  BY <1>1, <1>2, <1>3, <1>4, <1>5, <1>6 DEF Next, FrameStep, TaskStep, StartUserTurn, Cleanup,
     RagFiller, WebFiller, StartTask, Retrieved, Failed, SearchTaken, CancelDelivered,
     CancelUnstarted, user, vars

\* process_frame routes a query that nothing was done for.
LEMMA RoutesNew ==
  ASSUME TypeOK, OrderInv, ProcessFrame \/ CorpusChecked
  PROVE  \/ UNCHANGED <<task, active, webCall, fillers, released, said>>
         \/ \E q \in Query, need \in SUBSET Branches :
              Route(q, need) /\ ~Behind(q) /\ ~Out(q)
<1> USE QueryFacts
<1>1. CASE ProcessFrame
  <2>1. Head(inq) \in Query /\ 1 \in DOMAIN inq /\ Head(inq) = inq[1]
    <3>1. inq \in Seq(Query) /\ inq # <<>>
      BY <1>1 DEF ProcessFrame, TypeOK
    <3> QED BY <3>1, HeadTailProperties, LenProperties, EmptySeq
  <2>2. ~(Head(inq) < Head(inq))
    BY <2>1
  <2>3. ~Behind(Head(inq)) /\ ~Out(Head(inq))
    BY <2>1, <2>2 DEF Behind, Out, OrderInv, GoneOrdered, Gone
  <2>4. PICK need \in SUBSET Branches :
          \/ UNCHANGED <<task, active, webCall, fillers, released, said>>
          \/ Route(Head(inq), need)
    BY <1>1 DEF ProcessFrame
  <2> QED BY <2>1, <2>3, <2>4
<1>2. CASE CorpusChecked
  <2>1. checking.query \in Query /\ checking.need \in SUBSET Branches /\ checking.query # None
    BY <1>2 DEF CorpusChecked, TypeOK, Query, None
  <2>2. checking.need \ {"rag"} \in SUBSET Branches
    BY <2>1
  <2>3. ~(checking.query < checking.query)
    BY <2>1
  <2>4. ~Behind(checking.query) /\ ~Out(checking.query)
    BY <2>1, <2>3 DEF Behind, Out, OrderInv, GoneOrdered, Gone
  <2> QED BY <1>2, <2>1, <2>2, <2>4 DEF CorpusChecked
<1> QED BY <1>1, <1>2

LEMMA OutPushed ==
  ASSUME TypeOK, NEW q \in Query, NEW found \in SUBSET Query, released' = Pushed(q, found)
  PROVE  \A p : Out(p)' => Out(p) \/ p = q
<1>1. /\ DOMAIN released' = 1..(Len(released) + 1)
      /\ \A n \in 1..Len(released) : released'[n] = released[n]
      /\ released'[Len(released) + 1] = [query |-> q, found |-> found]
  BY PushedTyped
<1>2. released'[Len(released) + 1].query = q
  BY <1>1
<1>3. Len(released) \in Nat /\ DOMAIN released = 1..Len(released)
  BY OrderFacts
<1>4. \A n \in DOMAIN released' : n \in DOMAIN released \/ n = Len(released) + 1
  BY <1>1, <1>3
<1> QED BY <1>1, <1>2, <1>3, <1>4 DEF Out

\* What a step may say: nothing of a query whose frame is out, unless it was cut off.
SaysInPlace == \A q \in said' \ said : Out(q) => task[q].state = "cut"

LEMMA RouteFills ==
  ASSUME TypeOK, TypeOK', OrderInv, OrderInv', FillerInv, [Next]_vars,
         NEW q \in Query, NEW need \in SUBSET Branches, Route(q, need), ~Behind(q), ~Out(q)
  PROVE  FillerInv' /\ SaysInPlace
<1> USE QueryFacts
<1>1. task[q].state = "none"
  BY DEF FillerInv, TasksBehind
<1>2. Superseded \in [Query -> Tasks]
  BY SupersededTyped
<1>3. CASE RouteDirect(q)
  <2>1. task' = Superseded /\ fillers'.rag = None /\ said' = said /\ released' = Pushed(q, dynamic')
    BY <1>3 DEF RouteDirect, NoFillers
  <2>2. \A p : Out(p)' => Out(p) \/ p = q
    BY <2>1, OutPushed DEF TypeOK
  <2>3. TasksBehind'
    BY <2>1, SupersededIs, BehindStays DEF FillerInv, TasksBehind
  <2>4. FrameWaits'
    BY <1>1, <2>1, <2>2, SupersededIs DEF FillerInv, FrameWaits
  <2>5. FillerOfTask'
    BY <2>1 DEF FillerOfTask
  <2> QED BY <2>1, <2>3, <2>4, <2>5 DEF FillerInv, SaysInPlace
<1>4. CASE RouteRetrieve(q, need)
  <2>1. /\ task' = [Superseded EXCEPT
                      ![q] = [state |-> "running", gen |-> generation + 1, need |-> need]]
        /\ active' = q /\ released' = released
        /\ fillers'.rag \in {None, q} /\ (said' = said \/ said' = said \cup {q})
    BY <1>4 DEF RouteRetrieve, NoFillers, Emit
  <2>2. task'[q].state = "running" /\ \A p \in Query \ {q} : task'[p] = Superseded[p]
    BY <1>2, <2>1
  <2>3. Behind(q)'
    BY <2>1 DEF OrderInv, GoneOrdered, Gone, Behind
  <2>4. TasksBehind'
    BY <2>2, <2>3, SupersededIs, BehindStays DEF FillerInv, TasksBehind
  <2>5. FrameWaits'
    BY <2>1, <2>2, SupersededIs DEF FillerInv, FrameWaits, Out
  <2>6. FillerOfTask'
    BY <2>1, <2>2 DEF FillerOfTask
  <2> QED BY <2>1, <2>4, <2>5, <2>6 DEF FillerInv, SaysInPlace
<1> QED BY <1>3, <1>4 DEF Route

LEMMA FillerStep ==
  ASSUME TypeOK, TypeOK', OrderInv, OrderInv', CallInv, FillerInv, [Next]_vars
  PROVE  FillerInv' /\ SaysInPlace
<1> USE QueryFacts
<1>1. CASE StartUserTurn \/ Cleanup
  <2>1. task' = Superseded /\ fillers'.rag = None /\ said' = said /\ released' = released
    BY <1>1 DEF StartUserTurn, Cleanup, NoFillers
  <2>2. TasksBehind'
    BY <2>1, SupersededIs, BehindStays DEF FillerInv, TasksBehind
  <2>3. FrameWaits'
    BY <2>1, SupersededIs DEF FillerInv, FrameWaits, Out
  <2>4. FillerOfTask'
    BY <2>1 DEF FillerOfTask
  <2> QED BY <2>1, <2>2, <2>3, <2>4 DEF FillerInv, SaysInPlace
<1>2. CASE /\ UNCHANGED <<task, released>> /\ fillers'.rag \in {None, fillers.rag}
           /\ SaysInPlace
  <2>1. TasksBehind'
    BY <1>2, BehindStays DEF FillerInv, TasksBehind
  <2>2. FrameWaits' /\ FillerOfTask'
    BY <1>2 DEF FillerInv, FrameWaits, FillerOfTask, Out
  <2> QED BY <1>2, <2>1, <2>2 DEF FillerInv
<1>3. Ask \/ AskTyped \/ Interrupt \/ UNCHANGED vars =>
        UNCHANGED <<task, released>> /\ fillers'.rag \in {None, fillers.rag} /\ SaysInPlace
  BY DEF Ask, AskTyped, Interrupt, vars, SaysInPlace
<1>4. RagFiller =>
        UNCHANGED <<task, released>> /\ fillers'.rag \in {None, fillers.rag} /\ SaysInPlace
  <2> SUFFICES ASSUME RagFiller
               PROVE  UNCHANGED <<task, released>> /\ fillers'.rag \in {None, fillers.rag}
                      /\ SaysInPlace
    OBVIOUS
  <2>1. /\ fillers.rag # None /\ UNCHANGED <<task, released>>
        /\ fillers' = [fillers EXCEPT !.rag = None]
        /\ \A q \in said' \ said : q = fillers.rag
    BY DEF RagFiller, Emit
  <2>2. fillers \in [{"rag", "web"} -> 0..Queries]
    BY DEF TypeOK
  <2>3. fillers.rag \in Query /\ fillers'.rag = None
    BY <2>1, <2>2, RetrievalAssumption DEF None, Query
  <2>4. Out(fillers.rag) => task[fillers.rag].state = "cut"
    BY <2>1, <2>3 DEF FillerInv, FillerOfTask, FrameWaits
  <2> QED BY <2>1, <2>3, <2>4 DEF SaysInPlace
<1>5. WebFiller =>
        UNCHANGED <<task, released>> /\ fillers'.rag \in {None, fillers.rag} /\ SaysInPlace
  <2> SUFFICES ASSUME WebFiller
               PROVE  UNCHANGED <<task, released>> /\ fillers'.rag \in {None, fillers.rag}
                      /\ SaysInPlace
    OBVIOUS
  <2>1. /\ fillers.web # None /\ UNCHANGED <<task, released>>
        /\ fillers' = [fillers EXCEPT !.web = None]
        /\ \A q \in said' \ said : q = fillers.web /\ webCall = fillers.web
    BY DEF WebFiller, Emit
  <2>2. fillers \in [{"rag", "web"} -> 0..Queries]
    BY DEF TypeOK
  <2>3. fillers.web \in Query /\ fillers'.rag = fillers.rag
    BY <2>1, <2>2, RetrievalAssumption DEF None, Query
  <2>4. webCall = fillers.web => ~Out(fillers.web) \/ task[fillers.web].state = "cut"
    BY <2>1, <2>3 DEF FillerInv, FrameWaits, CallInv, CallTask
  <2> QED BY <2>1, <2>3, <2>4 DEF SaysInPlace
<1>6. CASE ProcessFrame \/ CorpusChecked
  <2>1. UNCHANGED <<task, active, webCall, fillers, released, said>> =>
          UNCHANGED <<task, released>> /\ fillers'.rag \in {None, fillers.rag} /\ SaysInPlace
    BY DEF SaysInPlace
  <2> QED BY <1>2, <1>6, <2>1, RoutesNew, RouteFills
<1>7. ASSUME NEW q \in Query, TaskEnds(q) PROVE FillerInv' /\ SaysInPlace
  <2>1. /\ said' = said /\ task[q].state # "none"
        /\ \/ task' = [task EXCEPT ![q] = Ended("cut")] /\ fillers'.rag \in {None, fillers.rag}
           \/ task' = [task EXCEPT ![q] = Ended("ended")] /\ fillers'.rag = None
    <3>1. fillers \in [{"rag", "web"} -> 0..Queries]
      BY DEF TypeOK
    <3>2. FillersAfterSearch.rag = None /\ NoFillers.rag = None
      BY <3>1 DEF FillersAfterSearch, NoFillers
    <3> QED
      BY <1>7, <3>2 DEF TaskEnds, Retrieved, Failed, DeadlinePassed, Searching, SearchTaken, CancelDelivered,
         CancelUnstarted,
         End, Running, FinishWebTool
  <2>2. /\ task'[q].state \in {"ended", "cut"} /\ \A p \in Query \ {q} : task'[p] = task[p]
        /\ fillers'.rag = q => task'[q].state = "cut"
    <3>1. task \in [Query -> Tasks] /\ Ended("cut").state = "cut" /\ Ended("ended").state = "ended"
      BY DEF TypeOK, Tasks, Ended
    <3> QED BY <2>1, <3>1
  <2>3. \A p : Out(p)' => Out(p) \/ p = q
    <3>1. \/ released' = released
          \/ \E found \in SUBSET Query : released' = Pushed(q, found)
      <4>1. dynamic \in SUBSET Query /\ dynamic' \in SUBSET Query
        BY DEF TypeOK
      <4> QED BY <1>7, <4>1 DEF TaskEnds, Retrieved, Failed, SearchTaken, CancelDelivered, CancelUnstarted
    <3> QED BY <3>1, OutPushed DEF Out
  <2>4. TasksBehind'
    BY <2>1, <2>2, BehindStays DEF FillerInv, TasksBehind
  <2>5. FrameWaits'
    BY <2>2, <2>3 DEF FillerInv, FrameWaits
  <2>6. FillerOfTask'
    <3>1. fillers'.rag \in 0..Queries
      BY DEF TypeOK
    <3>2. fillers'.rag # None => fillers'.rag \in Query /\ fillers'.rag = fillers.rag
      BY <2>1, <3>1, RetrievalAssumption DEF None, Query
    <3> QED BY <2>2, <3>2 DEF FillerInv, FillerOfTask
  <2> QED BY <2>1, <2>4, <2>5, <2>6 DEF FillerInv, SaysInPlace
<1>8. ASSUME NEW q \in Query, StartTask(q) PROVE FillerInv' /\ SaysInPlace
  BY <1>2, <1>8 DEF StartTask, SaysInPlace
<1> QED
  BY <1>1, <1>2, <1>3, <1>4, <1>5, <1>6, <1>7, <1>8, TaskSteps DEF Next, FrameStep

\* A filler never races the answer: once a query's frame is with the LLM its filler is
\* not spoken any more, unless a deadline or a cancellation cut its searches off
\* (processors.py:1250-1252, 1345-1347).
THEOREM FillersPrecedeAnswer == Spec => FillerBeforeAnswer
<1>1. Init => TaskInv
  BY QueryFacts DEF Init, TaskInv, RunningIsActive, CancelledIsOld, Running, NoTask
<1>2. Init => OrderInv
  BY QueryFacts DEF Init, OrderInv, InqOrdered, CheckingOrdered, GoneOrdered, Gone,
                    ActiveOrdered, ReleaseOrder, None
<1>3. Init => FillerInv
  BY QueryFacts DEF Init, FillerInv, TasksBehind, FrameWaits, FillerOfTask, Out, NoTask,
                    NoFillers
<1>4. TypeOK /\ TypeOK' /\ TaskInv /\ OrderInv /\ [Next]_vars => TaskInv' /\ OrderInv'
  BY TaskInvStep, OrderStep
<1>5. TypeOK /\ TypeOK' /\ OrderInv /\ OrderInv' /\ CallInv /\ FillerInv /\ [Next]_vars
        => FillerInv' /\ SaysInPlace
  BY FillerStep
<1>6. SaysInPlace =>
        [\A q \in said' \ said :
           (\E n \in DOMAIN released : released[n].query = q) => task[q].state = "cut"]_vars
  BY DEF SaysInPlace, Out
<1> QED
  BY <1>1, <1>2, <1>3, <1>4, <1>5, <1>6, RetrievalTypeCorrect, CallStarts, CallStep,
     PTL
     DEF Spec, FillerBeforeAnswer
-----------------------------------------------------------------------------
(***************************************************************************)
(* No query is lost.  What AlwaysAnswered needs besides fairness: the newest *)
(* query is somewhere from where a step that runs takes it further.          *)
(***************************************************************************)

Queued(q) == \E n \in DOMAIN inq : inq[n] = q

Held(q) == Queued(q) \/ checking.query = q \/ Gone(q)

\* An interruption is on its way only while the user speaks.
InterruptInTurn == interrupt => listening

NewestHeld == asked # None /\ ~listening /\ ~ended => Held(asked)

HeldInv == InterruptInTurn /\ NewestHeld

LEMMA RouteTakes ==
  ASSUME TypeOK, NEW q \in Query, NEW need \in SUBSET Branches,
         dynamic' \in SUBSET Query, Route(q, need)
  PROVE  Gone(q)'
<1>1. CASE RouteDirect(q)
  <2>1. released' = Pushed(q, dynamic')
    BY <1>1 DEF RouteDirect
  <2>2. Len(released) \in Nat
    BY LenProperties DEF TypeOK
  <2>3. /\ DOMAIN released' = 1..(Len(released) + 1)
        /\ released'[Len(released) + 1] = [query |-> q, found |-> dynamic']
    BY ZenonT(30), <2>1, PushedTyped
  <2>4. Len(released) + 1 \in DOMAIN released' /\ released'[Len(released) + 1].query = q
    BY <2>2, <2>3
  <2> QED BY <2>4 DEF Gone
<1>2. CASE RouteRetrieve(q, need)
  BY <1>2 DEF RouteRetrieve, Gone
<1> QED BY <1>1, <1>2 DEF Route

\* The end of a retrieval gives up no frame but a superseded one's.
LEMMA EndHolds ==
  ASSUME TypeOK, TaskInv, NEW q \in Query, TaskEnds(q), NEW p \in Query, Gone(p)
  PROVE  Gone(p)'
<1>1. \/ released' = released /\ task[q].state = "cancelling"
      \/ \E found \in SUBSET Query : released' = Pushed(q, found)
  <2>1. dynamic \in SUBSET Query /\ dynamic' \in SUBSET Query
    BY DEF TypeOK, TaskEnds, Retrieved, Failed, SearchTaken, CancelDelivered, CancelUnstarted
  <2> QED BY <2>1 DEF TaskEnds, Retrieved, Failed, SearchTaken, CancelDelivered, CancelUnstarted
<1>2. active' = IF active = q THEN None ELSE active
  BY DEF TaskEnds, Retrieved, Failed, SearchTaken, CancelDelivered, CancelUnstarted, End
<1>3. CASE released' = released /\ task[q].state = "cancelling"
  <2>1. active # q
    BY <1>3 DEF TaskInv, RunningIsActive, Running
  <2> QED BY <1>2, <1>3, <2>1 DEF Gone
<1>4. ASSUME NEW found \in SUBSET Query, released' = Pushed(q, found) PROVE Gone(p)'
  <2>1. Len(released) \in Nat /\ DOMAIN released = 1..Len(released)
    BY LenProperties DEF TypeOK
  <2>2. /\ DOMAIN released' = 1..(Len(released) + 1)
        /\ \A n \in 1..Len(released) : released'[n] = released[n]
        /\ released'[Len(released) + 1] = [query |-> q, found |-> found]
    BY ZenonT(30), <1>4, PushedTyped
  <2>3. CASE active = p /\ p # q
    BY <1>2, <2>3 DEF Gone
  <2>4. CASE p = q
    BY <2>1, <2>2, <2>4 DEF Gone
  <2>5. CASE \E n \in DOMAIN released : released[n].query = p
    BY <2>1, <2>2, <2>5 DEF Gone
  <2> QED BY <2>3, <2>4, <2>5 DEF Gone
<1> QED BY <1>1, <1>3, <1>4

LEMMA HeldStep ==
  TypeOK /\ TaskInv /\ OrderInv /\ HeldInv /\ [Next]_vars => HeldInv'
<1> SUFFICES ASSUME TypeOK, TaskInv, OrderInv, HeldInv, [Next]_vars PROVE HeldInv'
  OBVIOUS
<1> USE QueryFacts
<1>1. CASE StartUserTurn \/ Interrupt
  BY <1>1 DEF StartUserTurn, Interrupt, HeldInv, InterruptInTurn, NewestHeld
<1>2. CASE Cleanup
  BY <1>2 DEF Cleanup, HeldInv, InterruptInTurn, NewestHeld
<1>3. CASE RagFiller \/ WebFiller \/ UNCHANGED vars
  <2>1. UNCHANGED <<asked, listening, interrupt, inq, ended, checking, active, released>>
    BY <1>3 DEF RagFiller, WebFiller, vars, user
  <2> QED BY <2>1 DEF HeldInv, InterruptInTurn, NewestHeld, Held, Queued, Gone
<1>4. CASE Ask
  <2>1. inq \in Seq(Query) /\ asked + 1 \in Query
    BY <1>4, RetrievalAssumption DEF Ask, TypeOK, Query
  <2>2. asked' = asked + 1 /\ inq' = Append(inq, asked + 1) /\ ~interrupt'
    BY <1>4 DEF Ask
  <2>3. Len(inq) + 1 \in DOMAIN inq' /\ inq'[Len(inq) + 1] = asked'
    BY <2>1, <2>2, AppendProperties, LenProperties
  <2> QED BY <2>2, <2>3 DEF HeldInv, InterruptInTurn, NewestHeld, Held, Queued
<1>5. CASE AskTyped
  <2>1. asked' = asked + 1 /\ inq' = <<asked + 1>> /\ ~interrupt'
    BY <1>5 DEF AskTyped
  <2>2. 1 \in DOMAIN inq' /\ inq'[1] = asked'
    BY <2>1, OrderFacts
  <2> QED BY <2>1, <2>2 DEF HeldInv, InterruptInTurn, NewestHeld, Held, Queued
<1>6. CASE ProcessFrame
  <2> DEFINE q == Head(inq)
  <2>1. /\ inq \in Seq(Query) /\ inq # <<>> /\ inq' = Tail(inq)
        /\ checking.query = None
        /\ UNCHANGED <<asked, listening, interrupt, ended>>
    BY <1>6 DEF ProcessFrame, TypeOK
  <2>2. q \in Query /\ q = inq[1] /\ Len(inq) \in Nat \ {0} /\ DOMAIN inq = 1..Len(inq)
    BY <2>1, HeadTailProperties, LenProperties, EmptySeq
  <2>3. /\ DOMAIN inq' = 1..(Len(inq) - 1)
        /\ \A n \in 1..(Len(inq) - 1) : inq'[n] = inq[n + 1]
    BY <2>1, <2>2, HeadTailProperties, LenProperties
  <2> SUFFICES ASSUME asked # None, ~listening, ~ended PROVE Held(asked)'
    BY <2>1 DEF HeldInv, InterruptInTurn, NewestHeld, Held, Queued, Gone
  <2>4. asked \in Query
    BY RetrievalAssumption DEF TypeOK, Query, None
  <2>5. ~Gone(asked)
    <3>1. 1 \in DOMAIN inq /\ inq[1] \in Query
      BY <2>2
    <3>2. inq[1] <= asked
      BY <3>1 DEF OrderInv, InqOrdered
    <3>3. Gone(asked) => asked < inq[1]
      BY <2>4, <3>1 DEF OrderInv, GoneOrdered
    <3> QED BY <2>4, <3>1, <3>2, <3>3 DEF Query
  <2>6. PICK n \in 1..Len(inq) : inq[n] = asked
    BY <2>1, <2>2, <2>5 DEF HeldInv, NewestHeld, Held, Queued
  <2>7. CASE n = 1
    <3>1. PICK need \in SUBSET Branches :
            checking' = [query |-> q, need |-> need] \/ Route(q, need)
      BY <1>6 DEF ProcessFrame
    <3>2. asked = q /\ dynamic' \in SUBSET Query
      BY <1>6, <2>2, <2>6, <2>7 DEF ProcessFrame, ClearDynamicContext
    <3>3. CASE checking' = [query |-> q, need |-> need]
      BY <2>1, <3>2, <3>3 DEF Held
    <3>4. CASE Route(q, need)
      <4>1. Gone(asked)'
        BY <2>1, <2>4, <3>2, <3>4, RouteTakes DEF Gone
      <4> QED BY <4>1 DEF Held
    <3> QED BY <3>1, <3>3, <3>4
  <2>8. CASE n # 1
    <3>1. n - 1 \in DOMAIN inq' /\ inq'[n - 1] = asked
      BY <2>2, <2>3, <2>6, <2>8
    <3> QED BY <2>1, <3>1 DEF Held, Queued
  <2> QED BY <2>7, <2>8
<1>7. CASE CorpusChecked
  <2>1. /\ checking.query # None
        /\ UNCHANGED <<asked, listening, interrupt, inq, ended>>
    BY <1>7 DEF CorpusChecked, user
  <2> SUFFICES ASSUME asked # None, ~listening, ~ended PROVE Held(asked)'
    BY <2>1 DEF HeldInv, InterruptInTurn, NewestHeld, Held, Queued, Gone
  <2>2. asked \in Query
    BY RetrievalAssumption DEF TypeOK, Query, None
  <2>3. ~Gone(asked)
    BY <2>1, <2>2 DEF OrderInv, GoneOrdered, CheckingOrdered, TypeOK, Query
  <2>4. CASE Queued(asked)
    BY <2>1, <2>4 DEF Held, Queued
  <2>5. CASE checking.query = asked
    <3>1. checking.need \in SUBSET Branches /\ checking.need \ {"rag"} \in SUBSET Branches
      BY DEF TypeOK
    <3>2. dynamic' \in SUBSET Query
      BY <1>7 DEF CorpusChecked, TypeOK
    <3>3. PICK need \in SUBSET Branches : Route(asked, need)
      BY <1>7, <2>5, <3>1 DEF CorpusChecked
    <3>4. Gone(asked)'
      BY <2>1, <2>2, <3>2, <3>3, RouteTakes DEF Gone
    <3> QED BY <3>4 DEF Held, Gone
  <2> QED BY <2>3, <2>4, <2>5 DEF HeldInv, NewestHeld, Held
<1>8. ASSUME NEW q \in Query, TaskEnds(q) PROVE HeldInv'
  <2>1. UNCHANGED <<asked, listening, interrupt, inq, ended, checking>>
    BY <1>8 DEF TaskEnds, Retrieved, Failed, SearchTaken, CancelDelivered, CancelUnstarted, user
  <2>2. asked # None => asked \in Query
    BY RetrievalAssumption DEF TypeOK, Query, None
  <2>3. asked # None /\ Gone(asked) => Gone(asked)'
    BY <1>8, <2>1, <2>2, EndHolds DEF Gone
  <2> QED BY <2>1, <2>3 DEF HeldInv, InterruptInTurn, NewestHeld, Held, Queued
<1>9. ASSUME NEW q \in Query, StartTask(q) PROVE HeldInv'
  BY <1>9 DEF StartTask, user, HeldInv, InterruptInTurn, NewestHeld, Held, Queued, Gone
<1> QED BY <1>1, <1>2, <1>3, <1>4, <1>5, <1>6, <1>7, <1>8, <1>9, TaskSteps
   DEF Next, FrameStep

\* Nothing forgets the newest query: while the user neither speaks nor has left, its
\* frame is in the queue, in the corpus check, with a retrieval that runs and that
\* nobody has cancelled, or with the LLM (processors.py:1080-1156, 1340-1347).
THEOREM NewestIsNotLost ==
  Spec => [](\A q \in Query : asked = q /\ ~listening /\ ~ended =>
               \/ \E n \in DOMAIN inq : inq[n] = q
               \/ checking.query = q
               \/ Running(q)
               \/ \E n \in DOMAIN released : released[n].query = q)
<1> DEFINE Safe == \A q \in Query : asked = q /\ ~listening /\ ~ended =>
                     \/ \E n \in DOMAIN inq : inq[n] = q
                     \/ checking.query = q
                     \/ Running(q)
                     \/ \E n \in DOMAIN released : released[n].query = q
<1>1. Init => TaskInv
  BY QueryFacts DEF Init, TaskInv, RunningIsActive, CancelledIsOld, Running, NoTask
<1>2. Init => OrderInv
  BY QueryFacts DEF Init, OrderInv, InqOrdered, CheckingOrdered, GoneOrdered, Gone,
                    ActiveOrdered, ReleaseOrder, None
<1>3. Init => HeldInv
  BY DEF Init, HeldInv, InterruptInTurn, NewestHeld, None
<1>4. TypeOK /\ TypeOK' /\ TaskInv /\ OrderInv /\ [Next]_vars => TaskInv' /\ OrderInv'
  BY TaskInvStep, OrderStep
<1>5. TypeOK /\ TaskInv /\ OrderInv /\ HeldInv /\ [Next]_vars => HeldInv'
  BY HeldStep
<1>6. TaskInv /\ HeldInv => Safe
  BY QueryFacts DEF TaskInv, RunningIsActive, HeldInv, NewestHeld, Held, Queued, Gone
<1>7. Spec => []Safe
  <2> HIDE DEF Safe
  <2> QED BY <1>1, <1>2, <1>3, <1>4, <1>5, <1>6, RetrievalTypeCorrect, PTL DEF Spec
<1> QED BY <1>7
=============================================================================
