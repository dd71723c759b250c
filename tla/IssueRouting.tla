----------------------------- MODULE IssueRouting -----------------------------
(***************************************************************************)
(* ToolRoutingProcessor (core/processors.py): which tools the model may call *)
(* in a turn.  The issue tool is offered while the user is about to raise a  *)
(* complaint.  Whether that is so, the router reads off the user's words, a  *)
(* flag it keeps, and the last messages of a context that the window may     *)
(* have cut and that starts with restored memory.                            *)
(*                                                                          *)
(* Words are what the router's patterns tell apart: a user "requests" an     *)
(* issue, "cancels", gives a "continuation" (an address, a number, a yes) or *)
(* says something "other"; an assistant "prompts" for fields or for          *)
(* confirmation, reports "success", or is "plain"; a tool reports.  A user    *)
(* asking for the "web" says nothing about an issue; retrieval, which asks    *)
(* the same patterns first, has then made the search.                        *)
(***************************************************************************)
EXTENDS Integers, FiniteSets, Sequences

CONSTANTS
  Restored,   \* conversation the session was started with, in front, protected
  ScanWindow, \* how many messages _issue_workflow_is_active looks at (16)
  Retrieval,  \* whether a retrieval in front of the router searches the web
  MaxSpoken   \* bound: messages of the session

UserSays == {"request", "cancel", "cancelRequest", "continuation", "web", "other"}
AssistantSays == {"prompt", "success", "plain"}

Messages == [role : {"user", "assistant", "tool"},
             says : UserSays \cup AssistantSays \cup {"failure"}]

\* The scan reaches what a turn adds: the user's words, a tool's result, the answer.
ASSUME IssueConstants ==
  /\ Restored \in Seq(Messages)
  /\ ScanWindow \in Nat /\ ScanWindow >= 3
  /\ MaxSpoken \in Nat /\ Retrieval \in BOOLEAN

VARIABLES
  spoken,     \* history variable: all messages of the session
  kept,       \* the first of them that is still in the context
  workflow,   \* _issue_workflow_active
  tools,      \* context.tools
  answering   \* the model works on the turn

issueVars == <<spoken, kept, workflow, tools, answering>>

FromUser(says) == [role |-> "user", says |-> says]
FromAssistant(says) == [role |-> "assistant", says |-> says]
Tool(says) == [role |-> "tool", says |-> says]

IssueTypeOK ==
  /\ spoken \in Seq(Messages)
  /\ kept \in 1..(Len(spoken) + 1)
  /\ workflow \in BOOLEAN /\ answering \in BOOLEAN
  /\ tools \subseteq {"search", "issue"}

IssueInit ==
  /\ spoken = <<>>
  /\ kept = 1
  /\ workflow = FALSE /\ answering = FALSE
  /\ tools = {}

-----------------------------------------------------------------------------

\* The context once message m has come.
Context(m) == Restored \o SubSeq(spoken, kept, Len(spoken)) \o <<m>>

Requests(says) == says \in {"request", "cancelRequest"}
Cancels(says) == says \in {"cancel", "cancelRequest"}

\* Messages the scan stops at, newest first: a reported success closes the
\* workflow, a prompt or a request of the past opens it.
Closes(m) == m.role # "user" /\ m.says = "success"
Opens(m) == \/ m.role = "assistant" /\ m.says = "prompt"
            \/ m.role = "user" /\ Requests(m.says)

\* Mutant: a success does not stop the scan.
ScannedPastSuccess(context, otherwise) ==
  LET window == {i \in DOMAIN context : i > Len(context) - ScanWindow} IN
  (\E i \in window : Opens(context[i])) \/ otherwise

\* The state a scan of the context finds, `otherwise' if nothing decides.
Scanned(context, otherwise) ==
  LET window == {i \in DOMAIN context : i > Len(context) - ScanWindow}
      telling == {i \in window : Closes(context[i]) \/ Opens(context[i])} IN
  IF telling = {} THEN otherwise
  ELSE \E i \in telling : Opens(context[i]) /\ \A j \in telling : j <= i

\* _issue_workflow_is_active, which is the flag's new value too.
Active(says) ==
  IF Cancels(says) THEN FALSE
  ELSE IF Requests(says) THEN TRUE
  ELSE says = "continuation" /\ Scanned(Context(FromUser(says)), workflow)

-----------------------------------------------------------------------------

\* What the window may have dropped after a turn: whole turns, the newest stays.
Starts(said) == {i \in kept..Len(said) : i = kept \/ said[i].role = "user"}

\* A context frame passes the router, whose route() sets the tools, and then
\* the window.
UserTurn(says) ==
  /\ Len(spoken) < MaxSpoken
  /\ spoken' = Append(spoken, FromUser(says))
  /\ workflow' = Active(says)
  /\ tools' = {t \in {"search", "issue"} :
                \/ t = "search" /\ says = "web" /\ ~Retrieval
                \/ t = "issue" /\ workflow'}
  /\ kept' \in Starts(spoken')
  /\ answering' = TRUE

\* The model calls the issue tool, whose result joins the context and goes back
\* to the model without passing the router.
CallIssueTool(result) ==
  /\ answering /\ "issue" \in tools
  /\ Len(spoken) < MaxSpoken
  /\ spoken[Len(spoken)].role = "user"
  /\ spoken' = Append(spoken, Tool(result))
  /\ UNCHANGED <<kept, workflow, tools, answering>>

\* The model answers.
Answer(says) ==
  /\ answering
  /\ Len(spoken) < MaxSpoken
  /\ spoken' = Append(spoken, FromAssistant(says))
  /\ answering' = FALSE
  /\ UNCHANGED <<kept, workflow, tools>>

IssueNext ==
  \/ \E says \in UserSays : UserTurn(says)
  \/ \E result \in {"success", "failure"} : CallIssueTool(result)
  \/ \E says \in AssistantSays : Answer(says)

IssueSpec == IssueInit /\ [][IssueNext]_issueVars

-----------------------------------------------------------------------------
(* Properties *)

\* A complaint is settled when a success is reported or the user cancels.
Settles(m) == Closes(m) \/ (m.role = "user" /\ Cancels(m.says))

\* Everything that was said, and the causes of a workflow that is open in it.
Transcript == Restored \o spoken

OpenCauses ==
  {i \in DOMAIN Transcript :
     /\ Opens(Transcript[i])
     /\ \A j \in DOMAIN Transcript : Settles(Transcript[j]) => j < i}

\* A bare yes of the user, since which nothing was settled.
Resumes(k) ==
  /\ spoken[k] = FromUser("continuation")
  /\ \A j \in k..Len(spoken) : ~Settles(spoken[j])

\* The first exception: a cancellation clears the flag but not the context, where a
\* yes soon after it, to whatever question, finds the cancelled request or its prompt.
CancelledThenYes ==
  \E i, k \in DOMAIN spoken :
    /\ Resumes(k) /\ i < k /\ k < i + ScanWindow
    /\ Opens(spoken[i])
    /\ \E j \in i..k : spoken[j].role = "user" /\ Cancels(spoken[j].says)
    /\ \A j \in i..Len(spoken) : ~Closes(spoken[j])

\* The second: the restored conversation ends with a complaint that was open.  It stays
\* in front of the window, and a yes finds it there when the success that settled it
\* has been dropped, or after a cancellation.
RestoredThenYes ==
  \E i \in DOMAIN Restored, k \in DOMAIN spoken :
    /\ Resumes(k)
    /\ Opens(Restored[i]) /\ Len(Restored) + 1 < i + ScanWindow
    /\ \A j \in i..Len(Restored) : ~Closes(Restored[j])
    /\ \A j \in kept..Len(spoken) : ~Closes(spoken[j])

\* The issue tool is offered only for a complaint that somebody brought up and that
\* was neither raised nor cancelled since, whatever the flag remembers, the window has
\* left of the context and the restored conversation holds, so that no yes to another
\* question raises it a second time (processors.py:630-667).  Both closings are those
\* of test_issue_success_or_cancellation_closes_workflow (test_tool_routing.py:77).
\* The code keeps the first, but for a success that has left the window in front of a
\* restored complaint, and the second only until the next yes: these two exceptions,
\* and no others.
OfferHasCause ==
  (answering /\ spoken[Len(spoken)].role = "user" /\ "issue" \in tools)
    => OpenCauses # {} \/ CancelledThenYes \/ RestoredThenYes
=============================================================================
