----------------------------- MODULE Transcript -----------------------------
(***************************************************************************)
(* What the model is shown of a session (core/context.py), as operators on *)
(* sequences of messages.  A message is [role, run, calls, marker]: calls  *)
(* are the tool calls it makes or the one it answers, marker says that it  *)
(* stands in for a result that was never accepted.  Sizes are left out:    *)
(* build_context may keep any of the histories that a character budget may *)
(* leave.                                                                  *)
(***************************************************************************)
EXTENDS Naturals, FiniteSets, SequencesExt

-----------------------------------------------------------------------------
(* continue_transcript *)

\* The tool messages that directly follow message i.
Following(msgs, i) ==
  {j \in i + 1 .. Len(msgs) :
     \A k \in i + 1 .. j : msgs[k].role = "tool"}

\* The reply to a call that message i makes: the last one that follows, or a
\* marker.
ReplyTo(msgs, i, call) ==
  LET found == {j \in Following(msgs, i) : call \in msgs[j].calls} IN
  IF found = {}
  THEN [role |-> "tool", run |-> msgs[i].run, calls |-> {call},
        marker |-> TRUE]
  ELSE msgs[CHOOSE j \in found : \A k \in found : k <= j]

\* The elements of a set of numbers, smallest first: the n-th has n elements
\* up to itself.
InOrder(S) ==
  [n \in 1 .. Cardinality(S) |->
     CHOOSE x \in S : Cardinality({y \in S : y <= x}) = n]

\* Every message that is no reply, and behind it a reply to each of its calls.
\* Replies without a call are left out.
Continued(msgs) ==
  FlattenSeq([i \in DOMAIN msgs |->
    IF msgs[i].role = "tool" THEN <<>>
    ELSE LET order == InOrder(msgs[i].calls) IN
         <<msgs[i]>> \o
         [n \in DOMAIN order |-> ReplyTo(msgs, i, order[n])]])

-----------------------------------------------------------------------------
(* build_context *)

\* Where a group begins: replies belong to the group of their calls.
GroupStartsAnywhere(msgs) == DOMAIN msgs
GroupStarts(msgs) ==
  {i \in DOMAIN msgs :
     msgs[i].role = "tool" =>
       ~\E p \in 1 .. i - 1 :
          msgs[p].role = "calls" /\ i \in Following(msgs, p)}

\* The latest request of the user and all that comes after it is required; of
\* the groups before it a contiguous recent part is kept.
LatestUser(msgs) ==
  CHOOSE i \in DOMAIN msgs :
    /\ msgs[i].role = "user"
    /\ \A j \in i + 1 .. Len(msgs) : msgs[j].role # "user"
Contexts(msgs) ==
  {SubSeq(msgs, first, Len(msgs)) :
     first \in {i \in GroupStarts(msgs) : i <= LatestUser(msgs)}}

-----------------------------------------------------------------------------

\* What a provider accepts: every call has its reply, in order and directly
\* behind the calls, and there is no other reply.
WellFormed(msgs) ==
  /\ \A i \in DOMAIN msgs : msgs[i].role = "calls" =>
       LET order == InOrder(msgs[i].calls) IN
       /\ i + Len(order) <= Len(msgs)
       /\ \A n \in DOMAIN order :
            msgs[i + n].role = "tool" /\ msgs[i + n].calls = {order[n]}
  /\ \A i \in DOMAIN msgs : msgs[i].role = "tool" =>
       \E p \in 1 .. i - 1 :
         /\ msgs[p].role = "calls"
         /\ i \in Following(msgs, p)
         /\ i - p <= Cardinality(msgs[p].calls)
=============================================================================
