---------------------------- MODULE Continuation ----------------------------
(***************************************************************************)
(* The context of a model request in the running system: the history that  *)
(* get_session reads and continue_transcript completes when a task begins, *)
(* with what the run itself recorded behind it, cut by build_context.      *)
(* Histories are those that AgentRuntime leaves: runs that were cancelled, *)
(* failed or reached a limit in the middle of a batch of tool calls, and   *)
(* processes that went away there.                                         *)
(***************************************************************************)
EXTENDS AgentRuntime, Transcript

Entry(m) == [role |-> messages[m].role, run |-> messages[m].run,
             calls |-> messages[m].calls, marker |-> FALSE]
\* The messages at these positions, as the table has them in order.
Entries(S) ==
  LET chosen == InOrder(S) IN [i \in DOMAIN chosen |-> Entry(chosen[i])]

\* get_session: the accepted messages of the session, without the answers of
\* runs that did not complete.
InSessionFinishedOnly(m, s) ==
  /\ session[messages[m].run] = s
  /\ messages[m].accepted
  /\ messages[m].role \in {"final", "tool"} =>
       status[messages[m].run] = "completed"
InSession(m, s) ==
  /\ session[messages[m].run] = s
  /\ messages[m].accepted
  /\ messages[m].role = "final" => status[messages[m].run] = "completed"
History(s) == Entries({m \in DOMAIN messages : InSession(m, s)})

\* working_messages of the loop: the history as it was when the run was
\* created (runs before it have ended, and accept no message any more), and
\* what the run recorded.
CreatedAt(r) ==
  CHOOSE m \in DOMAIN messages :
    messages[m].run = r /\ messages[m].role = "user"
Own(r) ==
  Entries({m \in DOMAIN messages :
             messages[m].run = r /\ messages[m].role # "user"})
WorkingMessages(r) ==
  Continued(Entries({m \in DOMAIN messages :
                       InSession(m, session[r]) /\ m <= CreatedAt(r)}))
  \o Own(r)

-----------------------------------------------------------------------------
(* Properties *)

\* Whatever happened to earlier runs of the session, and wherever the budget
\* cuts the history, the context of a request is one a provider accepts: each
\* tool call is answered exactly once, in order, and no reply stands alone.
ContextWellFormed ==
  \A r \in Runs : task[r].pc = "model_request_started" =>
    \A context \in Contexts(WorkingMessages(r)) : WellFormed(context)

\* What a new run is told of earlier ones is what they committed: every
\* accepted tool result itself and no marker in its place, every request of
\* the user, and the answers of exactly the runs that completed.
Told(s) ==
  LET sent == Continued(History(s)) IN {sent[i] : i \in DOMAIN sent}
HistoryFaithful ==
  \A r \in Runs : task[r].pc = "get_session" =>
    LET s == session[r] IN
    /\ \A m \in DOMAIN messages :
         /\ session[messages[m].run] = s
         /\ messages[m].accepted
         /\ messages[m].role \in {"user", "tool"}
         => Entry(m) \in Told(s)
    /\ \A q \in Runs : session[q] = s =>
         (status[q] = "completed" <=>
            \E e \in Told(s) : e.role = "final" /\ e.run = q)
=============================================================================
