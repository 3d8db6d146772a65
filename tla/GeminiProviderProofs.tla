------------------------ MODULE GeminiProviderProofs ------------------------
(***************************************************************************)
(* Proofs of the safety properties of GeminiProvider, for all time limits, *)
(* delays and hints of a server.                                           *)
(***************************************************************************)
EXTENDS GeminiProvider, FiniteSetTheorems, TLAPS

-----------------------------------------------------------------------------
(* Types and attempts *)

\* The attempt number and the requests that left agree, and a retry is only
\* planned while an attempt is left.
Attempts ==
  /\ pc = "called" => attempt = 0 /\ requests = 0 /\ records = <<>>
  /\ pc \notin {"called", "over"} => attempt \in 1 .. MaxRequests
  /\ pc \in {"intent", "announced"} => requests = attempt - 1
  /\ pc \in {"http", "success", "succeeded", "failure", "failed", "wait"}
       => requests = attempt
  /\ pc \in {"failure", "failed"} /\ plan => attempt < MaxRequests
  /\ pc = "wait" => plan /\ attempt < MaxRequests
  /\ pc = "over" <=> verdict # "open"

USE RequestsAssumption, DeadlinesAssumption, TimesAssumption,
    HintsAssumption, NullsAssumption

\* The time that is left, and the timeout sent with a request, are numbers.
LEMMA TimeTypes ==
  ASSUME left \in Nat \cup {NoDeadline}
  PROVE  Remaining \in Nat /\ HttpTimeout \in Nat
BY DEF Remaining, HttpTimeout

\* A record written by the transport is a record of the log.
LEMMA RecordTypes ==
  ASSUME records \in Seq(Records), attempt \in 1 .. MaxRequests,
         NEW phase \in Phases, NEW retry \in BOOLEAN
  PROVE  Record(phase, retry) \in Seq(Records)
<1>1. [attempt |-> attempt, phase |-> phase, retry |-> retry] \in Records
  BY DEF Records
<1>2. QED BY <1>1 DEF Record

\* Types and attempts are preserved together.
LEMMA StepTyped ==
  ProviderTypeOK /\ Attempts /\ [ProviderNext]_providerVars
    => ProviderTypeOK' /\ Attempts'
<1> SUFFICES ASSUME ProviderTypeOK, Attempts, [ProviderNext]_providerVars
             PROVE  ProviderTypeOK' /\ Attempts'
  OBVIOUS
<1> USE DEF ProviderTypeOK, Attempts, Points, Awaits, Recording, Recorded
<1>1. Remaining \in Nat /\ HttpTimeout \in Nat
  BY TimeTypes
<1>2. ASSUME NEW retryable \in BOOLEAN, NEW wait \in Nat \cup {NoHint},
             Fails(retryable, wait), pc = "http",
             UNCHANGED <<left, cancelled, records>>, owed' \in Nat
      PROVE  ProviderTypeOK' /\ Attempts'
  BY <1>1, <1>2 DEF Fails, Goes
<1>3. ASSUME NEW how \in {"answered", "failed", "stopped"}, Ends(how),
             UNCHANGED <<left, cancelled, records>>, owed' \in Nat
      PROVE  ProviderTypeOK' /\ Attempts'
  BY <1>3 DEF Ends
<1>4. CASE Generate
  BY <1>3, <1>4 DEF Generate, Checked, Goes
<1>5. CASE Commits
  <2>1. pc \in {"intent", "success", "failure"} /\ attempt \in 1 .. MaxRequests
    BY <1>5 DEF Commits
  <2>2. /\ Record("dispatch_intent", FALSE) \in Seq(Records)
        /\ Record("succeeded", FALSE) \in Seq(Records)
        /\ Record("failed", plan) \in Seq(Records)
    BY <2>1, RecordTypes DEF Phases
  <2>3. QED BY <1>5, <2>1, <2>2 DEF Commits, Goes
<1>6. CASE StorageFails
  BY <1>3, <1>6 DEF StorageFails
<1>7. CASE Post
  BY <1>1, <1>3, <1>7 DEF Post, Checked, Goes
<1>8. CASE TimesOut
  BY <1>2, <1>8 DEF TimesOut
<1>9. CASE TransportFails
  BY <1>2, <1>9 DEF TransportFails
<1>10. CASE Responds
  <2>1. ASSUME NEW hint \in Hints,
               Checked(Fails(TRUE, hint)),
               owed' = IF hint = NoHint THEN 0 ELSE hint
        PROVE  ProviderTypeOK' /\ Attempts'
    BY <1>2, <1>3, <1>10, <2>1 DEF Responds, Checked
  <2>2. ASSUME Checked(\/ /\ Goes("success")
                          /\ UNCHANGED <<attempt, plan, delay, timer, requests>>
                       \/ \E retryable \in BOOLEAN :
                            Fails(retryable, RetryDelay)),
               UNCHANGED owed
        PROVE  ProviderTypeOK' /\ Attempts'
    BY <1>2, <1>3, <1>10, <2>2 DEF Responds, Checked, Goes
  <2>3. QED BY <1>10, <2>1, <2>2 DEF Responds
<1>11. CASE Returns
  BY <1>3, <1>11 DEF Returns, Checked
<1>12. CASE FailureRecorded
  BY <1>1, <1>3, <1>12 DEF FailureRecorded, Checked, Goes
<1>13. CASE Wakes
  <2>1. CASE Raises
    BY <1>3, <1>13, <2>1 DEF Wakes, Checked
  <2>2. CASE ~Raises
    <3>1. /\ pc = "wait" /\ pc' = "intent" /\ attempt' = attempt + 1
          /\ UNCHANGED <<plan, delay, timer, requests, left, cancelled,
                         records, owed, verdict>>
      BY <1>13, <2>2 DEF Wakes, Checked, Goes
    <3>2. attempt \in 1 .. MaxRequests /\ attempt < MaxRequests
          /\ requests = attempt /\ MaxRequests \in Nat
      BY <3>1
    <3>3. QED BY <3>1, <3>2
  <2>3. QED BY <2>1, <2>2
<1>14. CASE CutOff
  BY <1>3, <1>14 DEF CutOff
<1>15. CASE CancelToken
  BY <1>15 DEF CancelToken
<1>16. CASE Tick
  BY <1>16 DEF Tick, Less
<1>17. CASE UNCHANGED providerVars
  BY <1>17 DEF providerVars
<1>18. QED
  BY <1>4, <1>5, <1>6, <1>7, <1>8, <1>9, <1>10, <1>11, <1>12, <1>13, <1>14,
     <1>15, <1>16, <1>17 DEF ProviderNext, Proceeds

\* The type invariant and Attempts hold in every state.
LEMMA TypedAlways == ProviderSpec => [](ProviderTypeOK /\ Attempts)
<1>1. ProviderInit => ProviderTypeOK /\ Attempts
  <2>1. <<>> \in Seq(Records)
    OBVIOUS
  <2>2. 0 \in 0 .. MaxRequests
    OBVIOUS
  <2>3. ProviderInit => ProviderTypeOK
    <3> SUFFICES ASSUME ProviderInit PROVE ProviderTypeOK
      OBVIOUS
    <3> USE DEF ProviderInit
    <3>1. pc \in Points /\ verdict \in {"open", "answered", "failed", "stopped"}
      BY DEF Points
    <3>2. plan \in BOOLEAN /\ cancelled \in BOOLEAN
      OBVIOUS
    <3>3. left \in Nat \cup {NoDeadline}
      OBVIOUS
    <3>4. attempt \in 0 .. MaxRequests /\ requests \in 0 .. MaxRequests
      BY <2>2
    <3>5. records \in Seq(Records)
      BY <2>1
    <3>6. delay \in Nat /\ timer \in Nat /\ owed \in Nat
      OBVIOUS
    <3>7. QED BY <3>1, <3>2, <3>3, <3>4, <3>5, <3>6 DEF ProviderTypeOK
  <2>4. ProviderInit => Attempts
    BY DEF ProviderInit, Attempts
  <2>5. QED BY <2>3, <2>4
<1>2. QED BY <1>1, StepTyped, PTL DEF ProviderSpec

\* A call of the model is always in one of its states, with at most
\* MaxRequests requests, whatever the times are.
THEOREM ProviderTypeCorrect == ProviderSpec => []ProviderTypeOK
BY TypedAlways, PTL

-----------------------------------------------------------------------------
(* Time *)

\* A retry was still in time when the last check was made; no wait starts
\* with more time than is left, and both run down together.
LEMMA StepInTime ==
  ProviderTypeOK /\ WithinDeadline /\ [ProviderNext]_providerVars
    => WithinDeadline'
<1> SUFFICES ASSUME ProviderTypeOK, WithinDeadline,
                    [ProviderNext]_providerVars
             PROVE  WithinDeadline'
  OBVIOUS
<1> USE DEF ProviderTypeOK, WithinDeadline
<1>1. ASSUME pc' \notin {"http", "wait"}
      PROVE  WithinDeadline'
  BY <1>1
<1>2. CASE Post
  BY <1>2 DEF Post, Checked, Ends, Goes, HttpTimeout, Remaining
<1>3. CASE FailureRecorded
  BY <1>3 DEF FailureRecorded, Checked, Ends, Goes, Remaining
<1>4. CASE Tick
  BY <1>4 DEF Tick, Less
<1>5. CASE CancelToken
  BY <1>5 DEF CancelToken
<1>6. CASE UNCHANGED providerVars
  BY <1>6 DEF providerVars
<1>7. CASE \/ Generate \/ Commits \/ StorageFails \/ TimesOut
           \/ TransportFails \/ Responds \/ Returns \/ Wakes \/ CutOff
  <2>1. pc' \notin {"http", "wait"}
    BY <1>7
    DEF Generate, Commits, StorageFails, TimesOut, TransportFails, Responds,
        Returns, Wakes, CutOff, Checked, Fails, Ends, Goes
  <2>2. QED BY <1>1, <2>1
<1>8. QED
  BY <1>2, <1>3, <1>4, <1>5, <1>6, <1>7 DEF ProviderNext, Proceeds

\* A wait for the server or for a retry never outlasts the time of the run.
THEOREM WaitsFitTheDeadline == ProviderSpec => []WithinDeadline
<1>1. ProviderInit => WithinDeadline
  BY DEF ProviderInit, WithinDeadline
<1>2. QED BY <1>1, StepInTime, ProviderTypeCorrect, PTL DEF ProviderSpec

-----------------------------------------------------------------------------
(* Why a request may leave *)

\* Before a retry is sent, its announcement is the last record but one, and
\* the server's ban is over: it is never longer than what is left to wait.
Allowed ==
  /\ pc \in {"called", "intent", "announced", "http", "success", "succeeded"}
       => owed = 0
  /\ pc \in {"failure", "failed"} => owed <= delay
  /\ pc = "wait" => owed <= timer
Planned ==
  /\ pc \in {"failed", "wait"} =>
       records # <<>> /\ records[Len(records)].retry = plan
  /\ pc = "intent" /\ attempt > 1 =>
       records # <<>> /\ records[Len(records)].retry
  /\ pc = "announced" /\ attempt > 1 =>
       Len(records) > 1 /\ records[Len(records) - 1].retry

\* No step tries again before the delay it owes has passed.
LEMMA StepAllowed ==
  ProviderTypeOK /\ Allowed /\ [ProviderNext]_providerVars => Allowed'
<1> SUFFICES ASSUME ProviderTypeOK, Allowed, [ProviderNext]_providerVars
             PROVE  Allowed'
  OBVIOUS
<1> USE DEF ProviderTypeOK, Allowed
<1>1. CASE Tick
  BY <1>1 DEF Tick, Less
<1> DEFINE Until(wait) == IF wait = NoHint THEN 0 ELSE wait
<1>2. ASSUME NEW retryable, NEW wait, Fails(retryable, wait),
             owed' <= Until(wait)
      PROVE  Allowed'
  <2>1. pc' = "failure" /\ delay' = Until(wait)
    BY <1>2 DEF Fails, Goes
  <2>2. QED BY <1>2, <2>1
<1>3. ASSUME Ends("stopped")
      PROVE  Allowed'
  BY <1>3 DEF Ends
<1>4. Until(RetryDelay) = RetryDelay /\ 0 <= RetryDelay
      /\ (pc = "http" => owed <= RetryDelay)
  OBVIOUS
<1>5. CASE Responds
  <2>1. ASSUME NEW hint \in Hints, Checked(Fails(TRUE, hint)),
               owed' = Until(hint)
        PROVE  Allowed'
    <3>1. owed' <= Until(hint)
      BY <2>1
    <3>2. QED BY <1>2, <1>3, <2>1, <3>1 DEF Checked
  <2>2. ASSUME UNCHANGED owed, pc = "http",
               NEW retryable \in BOOLEAN, Fails(retryable, RetryDelay)
        PROVE  Allowed'
    BY <1>2, <1>4, <2>2
  <2>3. CASE pc' = "success" /\ UNCHANGED owed /\ pc = "http"
    BY <2>3
  <2>4. QED
    BY <1>3, <1>5, <2>1, <2>2, <2>3 DEF Responds, Checked, Goes
<1>6. CASE TimesOut \/ TransportFails
  BY <1>2, <1>4, <1>6 DEF TimesOut, TransportFails
<1>7. CASE Generate \/ Post \/ StorageFails \/ Returns \/ CutOff
  BY <1>7 DEF Generate, Post, StorageFails, Returns, CutOff, Checked, Ends,
              Goes
<1>8. CASE Commits
  BY <1>8 DEF Commits, Goes, Recording
<1>9. CASE FailureRecorded
  BY <1>9 DEF FailureRecorded, Checked, Ends, Goes
<1>10. CASE Wakes
  BY <1>10 DEF Wakes, Checked, Ends, Goes
<1>11. CASE CancelToken \/ UNCHANGED providerVars
  BY <1>11 DEF CancelToken, providerVars
<1>12. QED
  BY <1>1, <1>5, <1>6, <1>7, <1>8, <1>9, <1>10, <1>11
  DEF ProviderNext, Proceeds

\* No step tries again unless the last failure was logged as retried.
LEMMA StepPlanned ==
  ProviderTypeOK /\ Attempts /\ Planned /\ [ProviderNext]_providerVars
    => Planned'
<1> SUFFICES ASSUME ProviderTypeOK, Attempts, Planned,
                    [ProviderNext]_providerVars
             PROVE  Planned'
  OBVIOUS
<1> USE DEF ProviderTypeOK, Planned
<1>1. CASE Commits
  <2>1. attempt \in 1 .. MaxRequests /\ pc \in Recording
    BY <1>1 DEF Commits, Recording, Attempts
  <2>2. CASE pc = "intent"
    <3>1. /\ Len(records') = Len(records) + 1
          /\ attempt > 1 => records'[Len(records)] = records[Len(records)]
      BY <1>1, <2>2 DEF Commits, Record
    <3>2. pc' = "announced" /\ attempt' = attempt
      BY <1>1, <2>2 DEF Commits, Goes
    <3>3. Len(records) \in Nat /\ (records # <<>> => Len(records) > 0)
      OBVIOUS
    <3>4. QED BY <2>2, <3>1, <3>2, <3>3
  <2>3. CASE pc = "success"
    BY <1>1, <2>3 DEF Commits, Goes
  <2>4. CASE pc = "failure"
    <3>1. /\ Len(records') = Len(records) + 1
          /\ records'[Len(records) + 1].retry = plan
      BY <1>1, <2>4 DEF Commits, Record
    <3>2. pc' = "failed" /\ plan' = plan /\ records' # <<>>
      BY <1>1, <2>4 DEF Commits, Goes, Record
    <3>3. QED BY <3>1, <3>2
  <2>5. QED BY <2>1, <2>2, <2>3, <2>4 DEF Recording
<1>2. CASE Generate
  BY <1>2 DEF Generate, Checked, Ends, Goes
<1>3. CASE FailureRecorded
  BY <1>3 DEF FailureRecorded, Checked, Ends, Goes
<1>4. CASE Wakes
  BY <1>4 DEF Wakes, Checked, Ends, Goes, Attempts
<1>5. CASE \/ Post \/ StorageFails \/ Returns \/ CutOff \/ Responds
           \/ TimesOut \/ TransportFails
  <2>1. pc' \notin {"failed", "wait", "intent", "announced"}
    BY <1>5 DEF Post, StorageFails, Returns, CutOff, Responds, TimesOut,
                TransportFails, Checked, Fails, Ends, Goes
  <2>2. QED BY <2>1
<1>6. CASE CancelToken \/ Tick \/ UNCHANGED providerVars
  BY <1>6 DEF CancelToken, Tick, providerVars
<1>7. QED
  BY <1>1, <1>2, <1>3, <1>4, <1>5, <1>6 DEF ProviderNext, Proceeds

\* A request leaves only in time, uncancelled and, if it is a retry,
\* announced together with the failure before it and allowed by the server.
THEOREM RequestsAreJustified == ProviderSpec => RequestsJustified
<1> DEFINE Sent == requests' > requests =>
                     /\ ~cancelled
                     /\ Remaining > 0
                     /\ owed = 0
                     /\ requests > 0 => records[Len(records) - 1].retry
<1>1. ProviderInit => Allowed /\ Planned
  BY DEF ProviderInit, Allowed, Planned
<1>2. ProviderTypeOK /\ Attempts /\ Allowed /\ Planned
        /\ [ProviderNext]_providerVars => [Sent]_providerVars
  <2> SUFFICES ASSUME ProviderTypeOK, Attempts, Allowed, Planned,
                      [ProviderNext]_providerVars, requests' > requests
               PROVE  Sent
    OBVIOUS
  <2>1. CASE Post
    <3>1. ~Raises /\ pc = "announced"
      BY <2>1 DEF Post, Checked, Ends, ProviderTypeOK
    <3>2. Remaining \in Nat
      BY TimeTypes DEF ProviderTypeOK
    <3>3. QED
      BY <3>1, <3>2 DEF Raises, Allowed, Planned, Attempts, ProviderTypeOK
  <2>2. CASE ~Post
    <3>1. requests' = requests
      BY <2>2
      DEF ProviderNext, Proceeds, Generate, Commits, TimesOut, Returns,
          FailureRecorded, Wakes, StorageFails, TransportFails, Responds,
          CutOff, CancelToken, Tick, Checked, Fails, Ends, Goes, providerVars
    <3>2. QED BY <3>1 DEF ProviderTypeOK
  <2>3. QED BY <2>1, <2>2
<1>3. ProviderSpec => [](ProviderTypeOK /\ Attempts /\ Allowed /\ Planned)
  BY <1>1, StepAllowed, StepPlanned, TypedAlways, PTL DEF ProviderSpec
<1>4. QED BY <1>2, <1>3, PTL DEF ProviderSpec, RequestsJustified

-----------------------------------------------------------------------------
(* The exchange *)

Success == \E i \in DOMAIN records : records[i].phase = "succeeded"

\* What is in the log at each point of generate.
Logged ==
  /\ pc = "called" => Cardinality(Intents) = 0 /\ Cardinality(Settlements) = 0
  /\ pc = "intent" => /\ Cardinality(Intents) = attempt - 1
                      /\ Cardinality(Settlements) = attempt - 1
  /\ pc \in {"announced", "http", "success", "failure"} =>
       /\ Cardinality(Intents) = attempt
       /\ Cardinality(Settlements) = attempt - 1
  /\ pc \in {"succeeded", "failed", "wait"} =>
       /\ Cardinality(Intents) = attempt
       /\ Cardinality(Settlements) = attempt
  /\ pc \notin {"succeeded", "over"} => ~Success
  /\ pc = "succeeded" => Success

\* A record counts once, as an announcement or as an outcome.
LEMMA RecordCounts ==
  ASSUME records \in Seq(Records), attempt \in 1 .. MaxRequests,
         NEW phase \in Phases, NEW retry \in BOOLEAN,
         records' = Record(phase, retry)
  PROVE  /\ Cardinality(Intents') =
              Cardinality(Intents) + (IF phase = "dispatch_intent" THEN 1 ELSE 0)
         /\ Cardinality(Settlements') =
              Cardinality(Settlements)
              + (IF phase = "dispatch_intent" THEN 0 ELSE 1)
         /\ Success' <=> Success \/ phase = "succeeded"
<1> DEFINE n == Len(records)
<1>1. /\ n \in Nat /\ DOMAIN records = 1 .. n
      /\ DOMAIN records' = 1 .. n + 1
      /\ \A i \in 1 .. n : records'[i] = records[i]
      /\ records'[n + 1].phase = phase
  BY DEF Record
<1>2. IsFiniteSet(Intents) /\ IsFiniteSet(Settlements)
  <2>1. IsFiniteSet(1 .. n)
    BY <1>1, FS_Interval
  <2>2. Intents \in SUBSET (1 .. n) /\ Settlements \in SUBSET (1 .. n)
    BY <1>1 DEF Intents, Settlements
  <2>3. QED BY <2>1, <2>2, FS_Subset
<1>3. n + 1 \notin Intents /\ n + 1 \notin Settlements
  BY <1>1 DEF Intents, Settlements
<1>4. /\ Cardinality(Intents) \in Nat /\ Cardinality(Settlements) \in Nat
      /\ Cardinality(Intents \cup {n + 1}) = Cardinality(Intents) + 1
      /\ Cardinality(Settlements \cup {n + 1}) = Cardinality(Settlements) + 1
  BY <1>2, <1>3, FS_AddElement, FS_CardinalityType
<1>5. /\ Intents' = IF phase = "dispatch_intent" THEN Intents \cup {n + 1}
                    ELSE Intents
      /\ Settlements' = IF phase = "dispatch_intent" THEN Settlements
                        ELSE Settlements \cup {n + 1}
  BY <1>1 DEF Intents, Settlements
<1>6. Success' <=> Success \/ phase = "succeeded"
  BY <1>1 DEF Success
<1>7. QED BY <1>4, <1>5, <1>6

\* Nothing else writes to the log.
LEMMA LogKept ==
  UNCHANGED records =>
    UNCHANGED <<Cardinality(Intents), Cardinality(Settlements), Success>>
BY DEF Intents, Settlements, Success

\* No step breaks the balance of intents and settlements in the log.
LEMMA StepLogged ==
  ProviderTypeOK /\ Attempts /\ Logged /\ [ProviderNext]_providerVars
    => Logged'
<1> SUFFICES ASSUME ProviderTypeOK, Attempts, Logged,
                    [ProviderNext]_providerVars
             PROVE  Logged'
  OBVIOUS
<1> DEFINE i == Cardinality(Intents)
           o == Cardinality(Settlements)
<1>1. CASE Commits
  <2>1. attempt \in 1 .. MaxRequests /\ pc \in Recording /\ attempt' = attempt
        /\ records \in Seq(Records) /\ plan \in BOOLEAN
    BY <1>1 DEF Commits, Recording, Attempts, ProviderTypeOK
  <2>2. CASE pc = "intent"
    <3>1. records' = Record("dispatch_intent", FALSE) /\ pc' = "announced"
      BY <1>1, <2>2 DEF Commits, Goes
    <3>2. i' = i + 1 /\ o' = o + 0 /\ (Success' <=> Success)
      BY <2>1, <3>1, RecordCounts DEF Phases
    <3>3. QED BY <2>1, <2>2, <3>1, <3>2 DEF Logged
  <2>3. CASE pc = "success"
    <3>1. records' = Record("succeeded", FALSE) /\ pc' = "succeeded"
      BY <1>1, <2>3 DEF Commits, Goes
    <3>2. i' = i + 0 /\ o' = o + 1 /\ Success'
      BY <2>1, <3>1, RecordCounts DEF Phases
    <3>3. QED BY <2>1, <2>3, <3>1, <3>2 DEF Logged
  <2>4. CASE pc = "failure"
    <3>1. records' = Record("failed", plan) /\ pc' = "failed"
      BY <1>1, <2>4 DEF Commits, Goes
    <3>2. i' = i + 0 /\ o' = o + 1 /\ (Success' <=> Success)
      BY <2>1, <3>1, RecordCounts DEF Phases
    <3>3. QED BY <2>1, <2>4, <3>1, <3>2 DEF Logged
  <2>5. QED BY <2>1, <2>2, <2>3, <2>4 DEF Recording
<1>2. CASE ~Commits
  <2>1. i' = i /\ o' = o /\ (Success' <=> Success)
    <3>1. UNCHANGED records
      BY <1>2
      DEF ProviderNext, Proceeds, Generate, StorageFails, Post, TimesOut,
          TransportFails, Responds, Returns, FailureRecorded, Wakes, CutOff,
          CancelToken, Tick, providerVars
    <3>2. QED BY <3>1, LogKept
  <2> HIDE DEF i, o
  <2>2. CASE pc' = "over"
    BY <2>2 DEF Logged
  <2>3. CASE Generate /\ pc' # "over"
    BY <2>1, <2>3 DEF Logged, Generate, Checked, Ends, Goes, i, o
  <2>4. CASE /\ pc' # "over"
             /\ \/ Post \/ TimesOut \/ TransportFails \/ Responds
                \/ FailureRecorded
    BY <2>1, <2>4 DEF Logged, Post, TimesOut, TransportFails, Responds,
                      FailureRecorded, Checked, Fails, Ends, Goes, i, o
  <2>5. CASE Wakes /\ pc' # "over"
    BY <2>1, <2>5 DEF Logged, Wakes, Checked, Ends, Goes, ProviderTypeOK, i, o
  <2>6. CASE CancelToken \/ Tick \/ UNCHANGED providerVars
    BY <2>1, <2>6 DEF Logged, CancelToken, Tick, providerVars, i, o
  <2>7. CASE StorageFails \/ Returns \/ CutOff
    <3>1. pc' = "over"
      BY <2>7 DEF StorageFails, Returns, CutOff, Checked, Ends
    <3>2. QED BY <2>2, <3>1
  <2>8. QED
    BY <1>2, <2>2, <2>3, <2>4, <2>5, <2>6, <2>7 DEF ProviderNext, Proceeds
<1>3. QED BY <1>1, <1>2

\* Every step of generate is a step of the exchange or leaves it alone.
LEMMA StepExchanges ==
  ProviderTypeOK /\ Attempts /\ Logged /\ Logged' /\ [ProviderNext]_providerVars
    => [Exchange!Next]_(Exchange!exchangeVars)
<1> SUFFICES ASSUME ProviderTypeOK, Attempts, Logged, Logged',
                    [ProviderNext]_providerVars
             PROVE  Exchange!Next \/ UNCHANGED Exchange!exchangeVars
  OBVIOUS
<1>1. CASE Commits
  <2>1. attempt \in 1 .. MaxRequests /\ pc \in Recording /\ attempt' = attempt
        /\ UNCHANGED <<requests, verdict>> /\ verdict = "open"
        /\ records \in Seq(Records) /\ plan \in BOOLEAN
    BY <1>1 DEF Commits, Recording, Attempts, ProviderTypeOK, Goes
  <2>2. CASE pc = "intent"
    <3>1. records' = Record("dispatch_intent", FALSE)
      BY <1>1, <2>2 DEF Commits
    <3>2. /\ Cardinality(Intents') = Cardinality(Intents) + 1
          /\ Cardinality(Settlements') = Cardinality(Settlements) + 0
          /\ (Success' <=> Success)
      BY <2>1, <3>1, RecordCounts DEF Phases
    <3>3. /\ Cardinality(Intents) = attempt - 1 /\ requests = attempt - 1
          /\ Cardinality(Settlements) = attempt - 1 /\ ~Success
      BY <2>2 DEF Logged, Attempts
    <3>4. Exchange!Announce
      BY <2>1, <3>2, <3>3
      DEF Exchange!Announce, Exchange!NothingOpen, Success
    <3>5. QED BY <3>4 DEF Exchange!Next
  <2>3. CASE pc \in {"success", "failure"}
    <3>1. PICK phase \in {"succeeded", "failed"}, retry \in BOOLEAN :
            records' = Record(phase, retry)
      BY <1>1, <2>1, <2>3 DEF Commits
    <3>2. /\ Cardinality(Intents') = Cardinality(Intents) + 0
          /\ Cardinality(Settlements') = Cardinality(Settlements) + 1
      BY <2>1, <3>1, RecordCounts DEF Phases
    <3>3. /\ Cardinality(Intents) = attempt /\ requests = attempt
          /\ Cardinality(Settlements) = attempt - 1
      BY <2>3 DEF Logged, Attempts
    <3>4. Exchange!Settle
      BY <2>1, <3>2, <3>3 DEF Exchange!Settle
    <3>5. QED BY <3>4 DEF Exchange!Next
  <2>4. QED BY <2>1, <2>2, <2>3 DEF Recording
<1>2. CASE ~Commits
  <2>1. UNCHANGED records
    BY <1>2
    DEF ProviderNext, Proceeds, Generate, StorageFails, Post, TimesOut,
        TransportFails, Responds, Returns, FailureRecorded, Wakes, CutOff,
        CancelToken, Tick, providerVars
  <2>2. UNCHANGED <<Cardinality(Intents), Cardinality(Settlements), Success>>
    BY <2>1, LogKept
  <2>3. ASSUME requests' = requests, pc # "over", verdict' = "stopped"
        PROVE  Exchange!Next
    <3>1. verdict = "open"
      BY <2>3 DEF Attempts
    <3>2. Exchange!Close
      BY <2>2, <2>3, <3>1 DEF Exchange!Close, Success
    <3>3. QED BY <3>2 DEF Exchange!Next
  <2>4. ASSUME requests' = requests, verdict' = verdict
        PROVE  UNCHANGED Exchange!exchangeVars
    BY <2>2, <2>4 DEF Exchange!exchangeVars, Success
  <2>5. ASSUME requests' = requests, verdict' = "failed", ~Success,
               pc # "over", Cardinality(Intents) = requests,
               Cardinality(Settlements) = requests
        PROVE  Exchange!Next
    <3>1. verdict = "open"
      BY <2>5 DEF Attempts
    <3>2. Exchange!Close
      BY <2>2, <2>5, <3>1 DEF Exchange!Close, Exchange!NothingOpen, Success
    <3>3. QED BY <3>2 DEF Exchange!Next
  <2>6. CASE Generate
    <3>1. /\ pc = "called" /\ requests = 0 /\ ~Success
          /\ Cardinality(Intents) = 0 /\ Cardinality(Settlements) = 0
      BY <2>6 DEF Generate, Logged, Attempts
    <3>2. QED BY <2>3, <2>4, <2>5, <2>6, <3>1 DEF Generate, Checked, Ends, Goes
  <2>7. CASE Post
    <3>1. CASE Raises
      BY <2>3, <2>7, <3>1 DEF Post, Checked, Ends
    <3>2. CASE ~Raises
      <4>1. /\ pc = "announced" /\ requests' = requests + 1
            /\ verdict' = verdict /\ verdict = "open"
        BY <2>7, <3>2 DEF Post, Checked, Goes, Attempts
      <4>2. Cardinality(Intents) = attempt /\ requests = attempt - 1
            /\ attempt \in Nat
        BY <4>1 DEF Logged, Attempts, ProviderTypeOK
      <4>3. Exchange!Send
        BY <2>2, <4>1, <4>2 DEF Exchange!Send, Success
      <4>4. QED BY <4>3 DEF Exchange!Next
    <3>3. QED BY <3>1, <3>2
  <2>8. CASE StorageFails \/ CutOff
    BY <2>3, <2>8 DEF StorageFails, CutOff, Ends, Recording, Recorded, Awaits
  <2>9. CASE TimesOut \/ TransportFails \/ Responds
    BY <2>3, <2>4, <2>9
    DEF TimesOut, TransportFails, Responds, Checked, Fails, Ends, Goes
  <2>10. CASE Returns
    <3>1. CASE Raises
      BY <2>3, <2>10, <3>1 DEF Returns, Checked, Ends
    <3>2. CASE ~Raises
      <4>1. /\ pc = "succeeded" /\ verdict' = "answered" /\ verdict = "open"
            /\ requests' = requests
        BY <2>10, <3>2 DEF Returns, Checked, Ends, Attempts
      <4>2. /\ Cardinality(Intents) = requests /\ Success
            /\ Cardinality(Settlements) = requests
        BY <4>1 DEF Logged, Attempts
      <4>3. Exchange!Close
        BY <2>2, <4>1, <4>2 DEF Exchange!Close, Exchange!NothingOpen, Success
      <4>4. QED BY <4>3 DEF Exchange!Next
    <3>3. QED BY <3>1, <3>2
  <2>11. CASE FailureRecorded
    <3>1. /\ pc = "failed" /\ ~Success
          /\ Cardinality(Intents) = requests
          /\ Cardinality(Settlements) = requests
      BY <2>11 DEF FailureRecorded, Logged, Attempts
    <3>2. QED
      BY <2>3, <2>4, <2>5, <2>11, <3>1
      DEF FailureRecorded, Checked, Ends, Goes
  <2>12. CASE Wakes
    BY <2>3, <2>4, <2>12 DEF Wakes, Checked, Ends, Goes
  <2>13. CASE CancelToken \/ Tick \/ UNCHANGED providerVars
    BY <2>4, <2>13 DEF CancelToken, Tick, providerVars
  <2>14. QED
    BY <1>2, <2>6, <2>7, <2>8, <2>9, <2>10, <2>11, <2>12, <2>13
    DEF ProviderNext, Proceeds
<1>3. QED BY <1>1, <1>2

\* generate implements ModelExchange: no interleaving of records, requests,
\* time, failures and cancellations sends a request that is not announced,
\* announces one before the failure of the last is in the log, sends more
\* than MaxRequests, or answers before the success is in the log.
THEOREM ProviderImplementsExchange == ProviderSpec => ImplementsExchange
<1>1. ProviderInit => Logged /\ Exchange!Init
  <2> SUFFICES ASSUME ProviderInit PROVE Logged /\ Exchange!Init
    OBVIOUS
  <2>1. pc = "called" /\ records = <<>> /\ requests = 0 /\ verdict = "open"
    BY DEF ProviderInit
  <2>2. Intents = {} /\ Settlements = {} /\ ~Success
    BY <2>1 DEF Intents, Settlements, Success
  <2>3. Cardinality(Intents) = 0 /\ Cardinality(Settlements) = 0
    BY <2>2, FS_EmptySet
  <2>4. QED BY <2>1, <2>2, <2>3 DEF Logged, Exchange!Init, Success
<1>2. ProviderSpec => []Logged
  BY <1>1, StepLogged, TypedAlways, PTL DEF ProviderSpec
<1>3. QED
  BY <1>1, <1>2, StepExchanges, TypedAlways, PTL
  DEF ProviderSpec, ImplementsExchange, Exchange!Spec
=============================================================================
