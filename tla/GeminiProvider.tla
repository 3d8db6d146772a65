--------------------------- MODULE GeminiProvider ---------------------------
(***************************************************************************)
(* One call of GeminiProvider.generate (providers/gemini.py), as           *)
(* AgentLoop makes it: HTTP attempts, the records around them, the retry   *)
(* decision and its delay, under the deadline and the cancellation token   *)
(* of the run.                                                             *)
(*                                                                         *)
(* An action runs from one await to the next.  Awaiting a record is two    *)
(* steps, the commit and the return to generate, for time passes and the   *)
(* token may be cancelled in between.  Time is what is left: `left` until  *)
(* the deadline, `timer` until the present wait is over; Tick lets both    *)
(* run down.  Code may run later than its timer, never earlier.            *)
(***************************************************************************)
EXTENDS Naturals, Sequences, FiniteSets

CONSTANTS
  MaxRequests,     \* max_attempts, 1 or 2
  Deadlines,       \* what the run may have left when generate is called
  NoDeadline,      \* a run without a time limit
  RequestTimeout,  \* request_timeout
  RetryDelay,      \* retry_delay
  Hints,           \* what retry_after may find in a 429
  NoHint           \* nothing, or nothing usable

ASSUME RequestsAssumption == MaxRequests \in {1, 2}
ASSUME DeadlinesAssumption == Deadlines \subseteq Nat \cup {NoDeadline}
ASSUME TimesAssumption == RequestTimeout \in Nat \ {0} /\ RetryDelay \in Nat
ASSUME HintsAssumption == Hints \subseteq Nat \cup {NoHint}
ASSUME NullsAssumption == NoDeadline \notin Nat /\ NoHint \notin Nat

VARIABLES
  pc,         \* where generate is
  attempt,    \* attempt
  plan,       \* retry: the retry decision of the failed attempt
  delay,      \* delay
  left,       \* remaining(), or NoDeadline
  timer,      \* time until the present wait is over
  cancelled,  \* the token is cancelled
  records,    \* provider_attempt events in the log of the run
  requests,   \* requests that left
  owed,       \* time for which the server asked not to be called again
  verdict     \* how generate ended

providerVars == <<pc, attempt, plan, delay, left, timer, cancelled, records,
                  requests, owed, verdict>>

-----------------------------------------------------------------------------

\* emit is awaited at "intent", "success" and "failure"; each is followed by
\* the point where generate goes on after the commit.
Recording == {"intent", "success", "failure"}
Recorded == {"announced", "succeeded", "failed"}
Awaits == Recording \cup Recorded \cup {"http", "wait"}
Points == Awaits \cup {"called", "over"}

Phases == {"dispatch_intent", "succeeded", "failed"}
Records == [attempt : 1 .. MaxRequests, phase : Phases, retry : BOOLEAN]
Record(phase, retry) ==
  Append(records, [attempt |-> attempt, phase |-> phase, retry |-> retry])

\* remaining(), and the time the HTTP request gets.
Remaining == IF left = NoDeadline THEN RequestTimeout ELSE left
HttpTimeout == IF Remaining < RequestTimeout THEN Remaining ELSE RequestTimeout

Ends(how) ==
  /\ pc' = "over"
  /\ verdict' = how
  /\ UNCHANGED <<attempt, plan, delay, timer, requests>>
Goes(point) == pc' = point /\ UNCHANGED verdict

\* check(): generate raises if the token is cancelled or the time is up.
Raises == cancelled \/ Remaining = 0
Checked(going) == (Raises /\ Ends("stopped")) \/ (~Raises /\ going)

\* An attempt failed: is there a retry, and after which delay?
FailsRetryableOnly(retryable, wait) ==
  /\ plan' = (retryable /\ wait # NoHint /\ wait < Remaining /\ ~cancelled)
  /\ delay' = IF wait = NoHint THEN 0 ELSE wait
  /\ Goes("failure")
  /\ UNCHANGED <<attempt, timer, requests>>
FailsTransport(retryable, wait) ==
  /\ plan' = (/\ retryable
              /\ attempt < MaxRequests
              /\ wait # NoHint
              /\ RetryDelay < Remaining
              /\ ~cancelled)
  /\ delay' = RetryDelay
  /\ Goes("failure")
  /\ UNCHANGED <<attempt, timer, requests>>
Fails(retryable, wait) ==
  /\ plan' = (/\ retryable
              /\ attempt < MaxRequests
              /\ wait # NoHint
              /\ wait < Remaining
              /\ ~cancelled)
  /\ delay' = IF wait = NoHint THEN 0 ELSE wait
  /\ Goes("failure")
  /\ UNCHANGED <<attempt, timer, requests>>

-----------------------------------------------------------------------------
(* generate *)

\* The request is built and measured, then the first attempt is announced.
Generate ==
  /\ pc = "called"
  /\ \/ Ends("failed")  \* CONTEXT_BUDGET_EXCEEDED
     \/ Checked(/\ Goes("intent")
                /\ attempt' = 1
                /\ UNCHANGED <<plan, delay, timer, requests>>)
  /\ UNCHANGED <<left, cancelled, records, owed>>

\* A record commits.
Commits ==
  /\ pc \in Recording
  /\ CASE pc = "intent" -> /\ records' = Record("dispatch_intent", FALSE)
                           /\ Goes("announced")
       [] pc = "success" -> /\ records' = Record("succeeded", FALSE)
                            /\ Goes("succeeded")
       [] OTHER -> /\ records' = Record("failed", plan)
                   /\ Goes("failed")
  /\ UNCHANGED <<attempt, plan, delay, left, timer, cancelled, requests, owed>>

\* It does not, or its acknowledgement is lost: StorageError leaves generate.
StorageFails ==
  /\ pc \in Recording \cup Recorded
  /\ Ends("stopped")
  /\ UNCHANGED <<left, cancelled, records, owed>>

\* The request leaves, with the time that is left at most.
Post ==
  /\ pc = "announced"
  /\ Checked(/\ Goes("http")
             /\ timer' = HttpTimeout
             /\ requests' = requests + 1
             /\ UNCHANGED <<attempt, plan, delay>>)
  /\ UNCHANGED <<left, cancelled, records, owed>>

\* No response: the time is up, the connection broke, or anything else, which
\* is not retried.
TimesOutWithRun ==
  /\ pc = "http"
  /\ left = 0
  /\ Fails(TRUE, RetryDelay)
  /\ UNCHANGED <<left, cancelled, records, owed>>
TimesOut ==
  /\ pc = "http"
  /\ timer = 0
  /\ Fails(TRUE, RetryDelay)
  /\ UNCHANGED <<left, cancelled, records, owed>>
TransportFails ==
  /\ pc = "http"
  /\ \E retryable \in BOOLEAN : Fails(retryable, RetryDelay)
  /\ UNCHANGED <<left, cancelled, records, owed>>

\* A response: an answer, a malformed one or a 4xx, a 5xx, or a 429 with what
\* retry_after found in it.
Responds ==
  /\ pc = "http"
  /\ \/ /\ Checked(\/ /\ Goes("success")
                      /\ UNCHANGED <<attempt, plan, delay, timer, requests>>
                   \/ \E retryable \in BOOLEAN : Fails(retryable, RetryDelay))
        /\ UNCHANGED owed
     \/ \E hint \in Hints :
          /\ Checked(Fails(TRUE, hint))
          /\ owed' = IF hint = NoHint THEN 0 ELSE hint
  /\ UNCHANGED <<left, cancelled, records>>

Returns ==
  /\ pc = "succeeded"
  /\ Checked(Ends("answered"))
  /\ UNCHANGED <<left, cancelled, records, owed>>

\* The failure is recorded: it is raised, or the delay begins, if it still
\* fits.
FailureRecordedNoRecheck ==
  /\ pc = "failed"
  /\ Checked(IF ~plan THEN Ends("failed")
             ELSE /\ Goes("wait")
                  /\ timer' = delay
                  /\ UNCHANGED <<attempt, plan, delay, requests>>)
  /\ UNCHANGED <<left, cancelled, records, owed>>
FailureRecorded ==
  /\ pc = "failed"
  /\ Checked(IF ~plan \/ delay >= Remaining THEN Ends("failed")
             ELSE /\ Goes("wait")
                  /\ timer' = delay
                  /\ UNCHANGED <<attempt, plan, delay, requests>>)
  /\ UNCHANGED <<left, cancelled, records, owed>>

\* The delay is over: the next attempt.
WakesAnnounced ==
  /\ pc = "wait"
  /\ timer = 0
  /\ Checked(/\ Goes("announced")
             /\ attempt' = attempt + 1
             /\ UNCHANGED <<plan, delay, timer, requests>>)
  /\ UNCHANGED <<left, cancelled, records, owed>>
Wakes ==
  /\ pc = "wait"
  /\ timer = 0
  /\ Checked(/\ Goes("intent")
             /\ attempt' = attempt + 1
             /\ UNCHANGED <<plan, delay, timer, requests>>)
  /\ UNCHANGED <<left, cancelled, records, owed>>

\* The watcher of a cancellable, here or in the loop around generate, sees
\* the token or the end of the time.
CutOff ==
  /\ pc \in Awaits
  /\ cancelled \/ left = 0
  /\ Ends("stopped")
  /\ UNCHANGED <<left, cancelled, records, owed>>

-----------------------------------------------------------------------------
(* Environment and specification *)

CancelToken ==
  /\ pc # "over"
  /\ ~cancelled
  /\ cancelled' = TRUE
  /\ UNCHANGED <<pc, attempt, plan, delay, left, timer, records, requests,
                 owed, verdict>>

Less(time) == IF time = 0 THEN 0 ELSE time - 1
Tick ==
  /\ pc \in Awaits
  /\ left' = IF left = NoDeadline THEN left ELSE Less(left)
  /\ timer' = Less(timer)
  /\ owed' = Less(owed)
  /\ UNCHANGED <<pc, attempt, plan, delay, cancelled, records, requests,
                 verdict>>

ProviderInit ==
  /\ pc = "called"
  /\ attempt = 0
  /\ plan = FALSE
  /\ delay = 0
  /\ left \in Deadlines
  /\ timer = 0
  /\ cancelled = FALSE
  /\ records = <<>>
  /\ requests = 0
  /\ owed = 0
  /\ verdict = "open"

\* What generate does by itself, and what others do to it.
Proceeds == Generate \/ Commits \/ Post \/ TimesOut \/ Returns
            \/ FailureRecorded \/ Wakes
ProviderNext ==
  \/ Proceeds
  \/ StorageFails \/ TransportFails \/ Responds \/ CutOff
  \/ CancelToken \/ Tick

ProviderSpec == ProviderInit /\ [][ProviderNext]_providerVars

\* Time passes, the store answers and generate goes on.  The server need not
\* answer, and nothing need be cancelled.
FairProviderSpec ==
  ProviderSpec /\ WF_providerVars(Proceeds) /\ WF_providerVars(Tick)

-----------------------------------------------------------------------------
(* Properties *)

ProviderTypeOK ==
  /\ pc \in Points
  /\ attempt \in 0 .. MaxRequests
  /\ plan \in BOOLEAN
  /\ delay \in Nat
  /\ left \in Nat \cup {NoDeadline}
  /\ timer \in Nat
  /\ cancelled \in BOOLEAN
  /\ records \in Seq(Records)
  /\ requests \in 0 .. MaxRequests
  /\ owed \in Nat
  /\ verdict \in {"open", "answered", "failed", "stopped"}

\* generate implements ModelExchange: each request is announced in the log,
\* the failure of one is there before the next is announced, the success
\* before the answer is given, however records, time, failures of storage and
\* of the network, and cancellations interleave.
Intents == {i \in DOMAIN records : records[i].phase = "dispatch_intent"}
Settlements == {i \in DOMAIN records : records[i].phase # "dispatch_intent"}
Exchange == INSTANCE ModelExchange WITH
  announced <- Cardinality(Intents),
  sent <- requests,
  settled <- Cardinality(Settlements),
  succeeded <- \E i \in DOMAIN records : records[i].phase = "succeeded"
ImplementsExchange == Exchange!Spec

\* A request leaves only while the run is neither cancelled nor out of time;
\* a second one only after the retry was announced in the log together with
\* the failure, and not before the server allowed it.
RequestsJustified ==
  [][requests' > requests =>
       /\ ~cancelled
       /\ Remaining > 0
       /\ owed = 0
       /\ requests > 0 => records[Len(records) - 1].retry]_providerVars

\* A wait for the server or for a retry is over when the time of the run is,
\* although the time it was planned with has passed since: the record of the
\* failure is awaited between the decision and the delay.
WithinDeadline ==
  left # NoDeadline /\ pc \in {"http", "wait"} => timer <= left

\* A call of the model ends, whether or not the server ever answers, and
\* without a time limit of the run as well.
GenerateEnds == <>(pc = "over")
=============================================================================
