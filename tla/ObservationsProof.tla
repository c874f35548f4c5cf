------------------------- MODULE ObservationsProof -------------------------
(***************************************************************************)
(* Proofs about the reports, from the request to the exit status.  Three   *)
(* parts, one for each of the modules that model them: an observation is   *)
(* asked for in time (Polling), for any window, timeout, latency and       *)
(* intervals; its times are put into words (Times), for any timestamps and *)
(* any clock; and an assessment is printed (Reports), whatever the service *)
(* answers.                                                                *)
(***************************************************************************)
EXTENDS Polling, Times, Reports, SequenceTheorems, TLAPS

(* Polling. *)

(* The clock of the step under way: due later, inside its context, and not too early. *)
OnTime ==
    /\ windowEnd = began + Window
    /\ pc \in Active => now <= until /\ now <= ContextEnd
    /\ pc = "dialing" => dialHung
    /\ pc = "lookup" => attempt = 1
    /\ pc = "request" => until <= since + MaxLatency
    /\ pc = "wait" => notBefore <= until

IInv == TypeOK /\ OnTime /\ EndsInTime /\ NamesTheDeadline /\ FollowsRetryInterval

(* An interval too long for a time.Duration wraps below zero, to a timer that fires at once. *)
WrapsBelowZero == \A n \in RetryAfters : n * Second >= HalfRange => Duration(n) <= 0

(* With that, no timer fires later than it should. *)
NeverLate ==
    /\ pc = "request" => since <= notBefore
    /\ pc = "wait" => until <= notBefore
    /\ pc \in {"unavailable", "timeout"} /\ ~dialHung
         => SmallerOf(windowEnd, parentEnd) <= LargerOf(readyAt, MayAsk) + MaxLatency

----------------------------------------------------------------------------
(* What a wait is: the interval asked for, unless it does not fit a time.Duration. *)
LEMMA DurationIsInt ==
    ASSUME NEW n \in Int
    PROVE  Duration(n) \in Int
  <1>1. n * Second + HalfRange \in Int /\ 2 * HalfRange \in Nat /\ 2 * HalfRange > 0
    BY PollingAssumption
  <1>2. (n * Second + HalfRange) % (2 * HalfRange) \in Int
    BY <1>1
  <1> QED  BY <1>2, PollingAssumption DEF Duration

LEMMA RemainderOfLess ==
    ASSUME NEW a \in Nat, NEW b \in Nat, a < b
    PROVE  a % b = a
  OBVIOUS

LEMMA DurationOfFitting ==
    ASSUME NEW n \in Nat, n * Second < HalfRange
    PROVE  Duration(n) = n * Second
  <1> DEFINE t == n * Second
  <1>1. t \in Nat /\ HalfRange \in Nat
    BY PollingAssumption
  <1>2. t + HalfRange \in Nat /\ 2 * HalfRange \in Nat /\ t + HalfRange < 2 * HalfRange
    BY <1>1
  <1>3. (t + HalfRange) % (2 * HalfRange) = t + HalfRange
    BY <1>2, RemainderOfLess
  <1> HIDE DEF t
  <1>4. ((t + HalfRange) % (2 * HalfRange)) - HalfRange = t
    BY <1>1, <1>3
  <1> QED  BY <1>4 DEF Duration, t

(* The timer never fires before the interval that fits, and never lies in the past. *)
LEMMA TimerIsDue ==
    ASSUME NEW t \in Nat, NEW n \in Int, n > 0
    PROVE  LET fires == t + LargerOf(Duration(n), 0)
               asked == IF n * Second < HalfRange THEN t + n * Second ELSE t
           IN  /\ fires \in Nat /\ asked \in Nat
               /\ t <= fires /\ asked <= fires
               /\ n * Second < HalfRange \/ Duration(n) <= 0 => fires <= asked
  <1>1. Duration(n) \in Int
    BY DurationIsInt
  <1>2. n \in Nat /\ n * Second \in Nat
    BY PollingAssumption
  <1>3. n * Second < HalfRange => Duration(n) = n * Second
    BY <1>2, DurationOfFitting
  <1> DEFINE d == Duration(n)
             s == n * Second
  <1> HIDE DEF d, s
  <1>4. /\ d \in Int /\ s \in Nat
        /\ s < HalfRange => d = s
    BY <1>1, <1>2, <1>3 DEF d, s
  <1>5. LET fires == t + LargerOf(d, 0)
            asked == IF s < HalfRange THEN t + s ELSE t
        IN  /\ fires \in Nat /\ asked \in Nat
            /\ t <= fires /\ asked <= fires
            /\ s < HalfRange \/ d <= 0 => fires <= asked
    BY <1>4, PollingAssumption DEF LargerOf
  <1> QED  BY <1>5 DEF d, s

----------------------------------------------------------------------------
LEMMA Facts ==
    /\ Window \in Nat /\ Window > 0 /\ MaxLatency \in Nat /\ MaxLatency > 0
    /\ DialTimeout \in Nat /\ DialTimeout > 0
    /\ \A p \in Parents : p \in Nat /\ p > 0
    /\ Horizon \in Nat
  BY PollingAssumption DEF Horizon

LEMMA InitEstablishes == Init => IInv /\ NeverLate
  <1> SUFFICES ASSUME Init PROVE IInv /\ NeverLate
    OBVIOUS
  <1>1. /\ pc \in {"request", "dialing"} /\ until \in Nat /\ until > 0
        /\ pc = "request" => until <= MaxLatency
        /\ pc = "dialing" => dialHung
        /\ dialHung \in BOOLEAN
    <2>1. CASE pc = "request" /\ until \in 1 .. MaxLatency /\ dialHung = FALSE
      <3>1. until \in Nat /\ until > 0 /\ until <= MaxLatency
        BY <2>1, Facts
      <3> QED  BY <2>1, <3>1
    <2>2. CASE pc = "dialing" /\ until = DialTimeout /\ dialHung = TRUE
      BY <2>2, Facts
    <2> QED  BY <2>1, <2>2 DEF Init
  <1>2. TypeOK
    BY <1>1, Facts DEF Init, TypeOK, Active
  <1>3. OnTime
    BY <1>1, Facts DEF Init, OnTime, ContextEnd, SmallerOf
  <1>4. EndsInTime
    BY Facts DEF Init, EndsInTime
  <1> QED  BY <1>1, <1>2, <1>3, <1>4
           DEF Init, IInv, NamesTheDeadline, FollowsRetryInterval, NeverLate

(* No statement returns later than its context ends, and none in the past. *)
LEMMA Wakes ==
    ASSUME IInv, pc \in Active
    PROVE  /\ now \in Nat /\ WakesAt \in Nat /\ now <= WakesAt /\ WakesAt <= until
           /\ WakesAt <= parentEnd
           /\ pc # "lookup" => WakesAt <= began + Window
  <1>1. /\ now \in Nat /\ until \in Nat /\ windowEnd \in Nat /\ parentEnd \in Nat
        /\ windowEnd = began + Window
        /\ now <= until /\ now <= ContextEnd
    BY Facts DEF IInv, TypeOK, OnTime
  <1> QED  BY <1>1 DEF WakesAt, ContextEnd, SmallerOf

(* A new request is on time when its context has not ended. *)
LEMMA AskIsOnTime ==
    ASSUME NEW t \in Nat, Ask(t)
    PROVE  /\ pc' \in {"request", "dialing"}
           /\ since' = t /\ until' \in Nat /\ t < until' /\ dialHung' \in BOOLEAN
           /\ pc' = "request" => until' <= t + MaxLatency
           /\ pc' = "dialing" => dialHung'
  <1>1. since' = t
    BY DEF Ask
  <1>2. CASE pc' = "request" /\ (\E l \in 1 .. MaxLatency : until' = t + l) /\ dialHung' = FALSE
    <2>1. PICK l \in 1 .. MaxLatency : until' = t + l
      BY <1>2
    <2>2. until' \in Nat /\ t < until' /\ until' <= t + MaxLatency
      BY <2>1, Facts
    <2> QED  BY <1>1, <1>2, <2>2
  <1>3. CASE pc' = "dialing" /\ until' = t + DialTimeout /\ dialHung' = TRUE
    BY <1>1, <1>3, Facts
  <1> QED  BY <1>2, <1>3 DEF Ask

(* The results that name no deadline. *)
LEMMA EndPreserves ==
    ASSUME IInv, pc \in Active, now' \in now .. WakesAt,
           NEW result \in Results \ {"timeout", "unavailable"}, End(result),
           result \in {"failed", "interrupted"} \/ pc # "lookup",
           UNCHANGED <<parentEnd, readyAt, windowEnd, began, attempt, notBefore, dialHung>>
    PROVE  IInv' /\ NeverLate'
  <1>1. pc' = result /\ UNCHANGED <<since, until>>
    BY DEF End
  <1>2. pc' \notin Active \cup {"timeout", "unavailable"}
    BY <1>1 DEF Results, Active
  <1>3. /\ now' \in Nat /\ now' <= parentEnd
        /\ pc # "lookup" => now' <= began + Window
    BY Wakes, Facts DEF IInv, TypeOK
  <1>4. TypeOK'
    BY <1>1, <1>3 DEF IInv, TypeOK
  <1>5. EndsInTime'
    BY <1>1, <1>3 DEF EndsInTime
  <1> QED  BY <1>2, <1>4, <1>5
           DEF IInv, OnTime, NamesTheDeadline, FollowsRetryInterval, NeverLate, Active

(* What arrives does so within the context. *)
LEMMA ArrivalIsOnTime ==
    ASSUME IInv, pc \in Active, Arrives
    PROVE  /\ now' \in Nat /\ now' = WakesAt /\ now' = until
           /\ now' \in now .. WakesAt
           /\ now' <= ContextEnd /\ now' <= parentEnd
           /\ pc # "lookup" => now' <= began + Window
  <1>1. ContextEnd \in Nat
    BY Facts DEF ContextEnd, SmallerOf, IInv, TypeOK
  <1>2. until \in Nat
    BY DEF IInv, TypeOK
  <1>3. WakesAt <= ContextEnd
    BY <1>1, <1>2 DEF WakesAt, SmallerOf
  <1> QED  BY <1>3, Wakes DEF Arrives

LEMMA PendingPreserves ==
    ASSUME IInv, NEW n \in RetryAfters, Pending(n)
    PROVE  /\ IInv'
           /\ WrapsBelowZero => NeverLate'
  <1>1. /\ pc = "request" /\ pc \in Active
        /\ now' \in Nat /\ now' \in now .. WakesAt /\ now' <= ContextEnd
        /\ now' <= parentEnd /\ now' <= began + Window
        /\ UNCHANGED <<parentEnd, readyAt, windowEnd, began, attempt, dialHung>>
    <2>1. pc = "request" /\ pc \in Active /\ Arrives
      BY DEF Pending, Active
    <2> QED  BY <2>1, ArrivalIsOnTime DEF Pending
  <1>2. CASE n <= 0
    <2>1. End("invalid") /\ UNCHANGED notBefore
      BY <1>2 DEF Pending
    <2> QED  BY <1>1, <2>1, EndPreserves DEF Results
  <1>3. CASE n > 0
    <2>1. n \in Int
      BY PollingAssumption
    <2>2. /\ pc' = "wait"
          /\ until' = now' + LargerOf(Duration(n), 0)
          /\ notBefore' = IF n * Second < HalfRange THEN now' + n * Second ELSE now'
          /\ UNCHANGED since
      BY <1>3, <2>1 DEF Pending
    <2>3. PICK t \in Nat : t = now'
      BY <1>1
    <2>4. /\ until' \in Nat /\ notBefore' \in Nat /\ t <= until' /\ notBefore' <= until'
          /\ n * Second < HalfRange \/ Duration(n) <= 0 => until' <= notBefore'
      BY <1>3, <2>1, <2>2, <2>3, TimerIsDue
    <2>5. WrapsBelowZero => n * Second < HalfRange \/ Duration(n) <= 0
      <3>1. n * Second \in Int /\ HalfRange \in Int
        BY <2>1, PollingAssumption
      <3> QED  BY <3>1 DEF WrapsBelowZero
    <2>6. TypeOK'
      BY <1>1, <2>2, <2>4 DEF IInv, TypeOK, Active
    <2>7. ContextEnd' = ContextEnd
      BY <1>1, <2>2 DEF ContextEnd
    <2>8. OnTime'
      BY <1>1, <2>2, <2>3, <2>4, <2>7 DEF IInv, OnTime
    <2>9. EndsInTime' /\ NamesTheDeadline' /\ FollowsRetryInterval'
      BY <1>1, <2>2 DEF EndsInTime, NamesTheDeadline, FollowsRetryInterval
    <2>10. WrapsBelowZero => NeverLate'
      BY <2>2, <2>4, <2>5 DEF NeverLate
    <2> QED  BY <2>6, <2>8, <2>9, <2>10 DEF IInv
  <1> QED  BY <1>2, <1>3, PollingAssumption

(* The lookup of a pipeline name is bounded by the command's own context only. *)
LEMMA ErrorPreserves ==
    ASSUME IInv, Error
    PROVE  IInv' /\ NeverLate'
  <1>1. /\ pc \in {"request", "lookup"} /\ pc \in Active
        /\ now' \in Nat /\ now' \in now .. WakesAt /\ now' <= parentEnd
        /\ UNCHANGED <<parentEnd, readyAt, windowEnd, began, attempt, notBefore, dialHung>>
    <2>1. pc \in {"request", "lookup"} /\ pc \in Active /\ Arrives
      BY DEF Error, Active
    <2> QED  BY <2>1, ArrivalIsOnTime DEF Error
  <1>2. CASE End("failed")
    BY <1>1, <1>2, EndPreserves DEF Results
  <1>3. CASE pc = "request" /\ attempt = 1 /\ pc' = "lookup" /\ since' = now'
             /\ \E l \in 1 .. MaxLatency : until' = now' + l
    <2>1. until' \in Nat /\ now' <= until'
      <3>1. PICK t \in Nat, l \in 1 .. MaxLatency : t = now' /\ until' = t + l
        BY <1>1, <1>3
      <3>2. t + l \in Nat /\ t <= t + l
        BY Facts
      <3> QED  BY <3>1, <3>2
    <2>2. TypeOK'
      BY <1>1, <1>3, <2>1 DEF IInv, TypeOK, Active
    <2>3. OnTime'
      <3>1. ContextEnd' = parentEnd
        BY <1>1, <1>3 DEF ContextEnd
      <3> QED  BY <1>1, <1>3, <2>1, <3>1 DEF IInv, OnTime
    <2>4. EndsInTime' /\ NamesTheDeadline' /\ FollowsRetryInterval' /\ NeverLate'
      BY <1>1, <1>3 DEF EndsInTime, NamesTheDeadline, FollowsRetryInterval, NeverLate
    <2> QED  BY <2>2, <2>3, <2>4 DEF IInv
  <1> QED  BY <1>2, <1>3 DEF Error

LEMMA ResolvedPreserves ==
    ASSUME IInv, Resolved
    PROVE  IInv' /\ NeverLate'
  <1>1. /\ pc = "lookup" /\ pc \in Active /\ Arrives
        /\ attempt' = attempt + 1 /\ windowEnd' = now' + Window
        /\ began' = now' /\ notBefore' = now'
        /\ UNCHANGED <<parentEnd, readyAt>>
    BY DEF Resolved, Active
  <1>2. /\ TypeOK /\ now' \in Nat /\ now' <= parentEnd /\ attempt = 1 /\ parentEnd \in Nat
    BY <1>1, ArrivalIsOnTime, Facts DEF IInv, TypeOK, OnTime
  <1>3. /\ pc' \in {"request", "dialing"}
        /\ since' = now' /\ until' \in Nat /\ now' < until' /\ dialHung' \in BOOLEAN
        /\ pc' = "request" => until' <= now' + MaxLatency
        /\ pc' = "dialing" => dialHung'
    BY <1>2, AskIsOnTime DEF Resolved
  <1>4. windowEnd' \in Nat /\ now' <= windowEnd'
    <2>1. PICK t \in Nat : t = now'
      BY <1>2
    <2>2. t + Window \in Nat /\ t <= t + Window
      BY Facts
    <2> QED  BY <1>1, <2>1, <2>2
  <1>5. TypeOK'
    BY <1>1, <1>2, <1>3, <1>4 DEF TypeOK, Active
  <1>6. now' <= ContextEnd'
    BY <1>1, <1>2, <1>3, <1>4 DEF ContextEnd, SmallerOf
  <1>7. OnTime'
    BY <1>1, <1>2, <1>3, <1>6 DEF OnTime
  <1>8. EndsInTime'
    BY <1>1, <1>2, <1>4 DEF EndsInTime
  <1>9. NamesTheDeadline' /\ FollowsRetryInterval' /\ NeverLate'
    BY <1>1, <1>2, <1>3 DEF NamesTheDeadline, FollowsRetryInterval, NeverLate
  <1> QED  BY <1>5, <1>7, <1>8, <1>9 DEF IInv

LEMMA RetryPreserves ==
    ASSUME IInv, Retry
    PROVE  IInv' /\ (NeverLate => NeverLate')
  <1>1. /\ pc = "wait" /\ pc \in Active /\ Arrives
        /\ UNCHANGED <<parentEnd, readyAt, windowEnd, began, attempt, notBefore>>
    BY DEF Retry, Active
  <1>2. /\ TypeOK /\ now' \in Nat /\ now' = until
        /\ now' <= ContextEnd /\ now' <= parentEnd /\ now' <= began + Window
    BY <1>1, ArrivalIsOnTime DEF IInv
  <1>3. /\ pc' \in {"request", "dialing"}
        /\ since' = now' /\ until' \in Nat /\ now' < until' /\ dialHung' \in BOOLEAN
        /\ pc' = "request" => until' <= now' + MaxLatency
        /\ pc' = "dialing" => dialHung'
    BY <1>2, AskIsOnTime DEF Retry
  <1>4. TypeOK'
    BY <1>1, <1>2, <1>3 DEF TypeOK, Active
  <1>5. ContextEnd' = ContextEnd
    BY <1>1, <1>3 DEF ContextEnd
  <1>6. OnTime'
    BY <1>1, <1>2, <1>3, <1>5 DEF IInv, OnTime
  <1>7. EndsInTime'
    BY <1>1, <1>2 DEF EndsInTime
  <1>8. NamesTheDeadline' /\ FollowsRetryInterval'
    BY <1>1, <1>2, <1>3 DEF IInv, OnTime, NamesTheDeadline, FollowsRetryInterval
  <1>9. NeverLate => NeverLate'
    BY <1>1, <1>2, <1>3 DEF NeverLate
  <1> QED  BY <1>4, <1>6, <1>7, <1>8, <1>9 DEF IInv

(* The answers of queueMetricsDeadlineError, given at a deadline or after a hung dial. *)
LEMMA DeadlineErrorPreserves ==
    ASSUME IInv, pc \in {"request", "dialing", "wait"}, now' = WakesAt,
           ~dialHung => now' >= ContextEnd,
           \/ parentEnd <= now' /\ End("timeout")
           \/ /\ now' <= parentEnd /\ (windowEnd <= now' \/ (dialHung /\ until = now'))
              /\ End("unavailable"),
           UNCHANGED <<parentEnd, readyAt, windowEnd, began, attempt, notBefore, dialHung>>
    PROVE  IInv' /\ (NeverLate => NeverLate')
  <1>1. /\ pc' \in {"timeout", "unavailable"} /\ UNCHANGED <<since, until>>
        /\ pc' = "timeout" => parentEnd <= now'
        /\ pc' = "unavailable"
             => now' <= parentEnd /\ (windowEnd <= now' \/ (dialHung /\ until = now'))
    BY DEF End
  <1>2. /\ parentEnd \in Nat /\ windowEnd \in Nat /\ until \in Nat /\ since \in Nat
        /\ notBefore \in Nat /\ readyAt \in Nat /\ began \in Nat
    BY Facts DEF IInv, TypeOK
  <1>3. ContextEnd = SmallerOf(windowEnd, parentEnd)
    BY DEF ContextEnd
  <1>4. /\ now' \in Nat /\ now' <= until /\ now' <= parentEnd /\ now' <= began + Window
    BY Wakes DEF Active
  <1>5. TypeOK'
    BY <1>1, <1>4 DEF IInv, TypeOK, Results
  <1>6. OnTime' /\ EndsInTime'
    BY <1>1, <1>4 DEF IInv, OnTime, EndsInTime, Active
  <1>7. NamesTheDeadline' /\ FollowsRetryInterval'
    BY <1>1 DEF NamesTheDeadline, FollowsRetryInterval
  <1>8. ASSUME NeverLate, ~dialHung
        PROVE  SmallerOf(windowEnd, parentEnd) <= LargerOf(readyAt, MayAsk) + MaxLatency
    <2>1. SmallerOf(windowEnd, parentEnd) <= until
      BY <1>2, <1>3, <1>4, <1>8 DEF SmallerOf
    <2>2. until <= notBefore + MaxLatency
      <3>1. pc # "dialing"
        BY <1>8 DEF IInv, OnTime
      <3> QED  BY <1>2, <1>8, <3>1, Facts DEF IInv, OnTime, NeverLate
    <2>3. notBefore <= LargerOf(readyAt, MayAsk)
      BY <1>2 DEF MayAsk, LargerOf
    <2>4. SmallerOf(windowEnd, parentEnd) \in Nat /\ LargerOf(readyAt, MayAsk) \in Int
      BY <1>2 DEF MayAsk, LargerOf, SmallerOf
    <2> QED  BY <1>2, <2>1, <2>2, <2>3, <2>4, Facts
  <1>9. NeverLate => NeverLate'
    BY <1>1, <1>8 DEF NeverLate, MayAsk
  <1> QED  BY <1>5, <1>6, <1>7, <1>9 DEF IInv

LEMMA ExpiredPreserves ==
    ASSUME IInv, Expired \/ DialTimesOut
    PROVE  IInv' /\ (NeverLate => NeverLate')
  <1> USE DEF Expired, DialTimesOut
  <1>1. UNCHANGED <<parentEnd, readyAt, windowEnd, began, attempt, notBefore, dialHung>>
    OBVIOUS
  <1>2. CASE Expired /\ pc = "lookup"
    <2>1. pc \in Active /\ now' = WakesAt /\ End("failed")
      BY <1>2
    <2>2. now' \in now .. WakesAt
      BY <2>1, Wakes
    <2> QED  BY <1>1, <2>1, <2>2, EndPreserves DEF Results
  <1>3. CASE Expired /\ pc # "lookup"
    <2>1. /\ now' = WakesAt /\ now' >= ContextEnd /\ ContextEnd = SmallerOf(windowEnd, parentEnd)
          /\ pc \in {"request", "dialing", "wait"}
      BY <1>3 DEF Active, ContextEnd
    <2>2. \/ parentEnd <= now' /\ End("timeout")
          \/ (parentEnd > now' \/ (parentEnd = now' /\ windowEnd <= now')) /\ End("unavailable")
      BY <1>3 DEF DeadlineError
    <2>3. now' \in Nat /\ parentEnd \in Nat /\ windowEnd \in Nat
      BY <2>1, Wakes, Facts DEF IInv, TypeOK, Active
    <2>4. \/ parentEnd <= now' /\ End("timeout")
          \/ (now' <= parentEnd /\ windowEnd <= now') /\ End("unavailable")
      BY <2>1, <2>2, <2>3 DEF SmallerOf
    <2> QED  BY <1>1, <2>1, <2>4, DeadlineErrorPreserves
  <1>4. CASE DialTimesOut
    <2>1. /\ pc = "dialing" /\ dialHung /\ now' = WakesAt /\ now' = until
          /\ now' \in Nat /\ parentEnd \in Nat
      BY <1>4, ArrivalIsOnTime, Facts DEF IInv, TypeOK, OnTime, Active
    <2>2. \/ parentEnd <= now' /\ End("timeout")
          \/ now' <= parentEnd /\ End("unavailable")
      BY <1>4, <2>1 DEF DeadlineError
    <2> QED  BY <1>1, <2>1, <2>2, DeadlineErrorPreserves
  <1> QED  BY <1>2, <1>3, <1>4

----------------------------------------------------------------------------
LEMMA NextPreserves == IInv /\ [Next]_vars => IInv' /\ (WrapsBelowZero /\ NeverLate => NeverLate')
  <1> SUFFICES ASSUME IInv, [Next]_vars
               PROVE  IInv' /\ (WrapsBelowZero /\ NeverLate => NeverLate')
    OBVIOUS
  <1>1. CASE Ready
    <2>1. pc = "request" /\ Arrives /\ End("printed")
      BY <1>1 DEF Ready
    <2>2. UNCHANGED <<parentEnd, readyAt, windowEnd, began, attempt, notBefore, dialHung>>
      BY <1>1 DEF Ready
    <2>3. pc \in Active /\ now' \in now .. WakesAt
      BY <2>1, ArrivalIsOnTime DEF Active
    <2> QED  BY <2>1, <2>2, <2>3, EndPreserves DEF Results
  <1>2. CASE Interrupt
    <2>1. pc \in Active /\ now' \in now .. WakesAt /\ End("interrupted")
      BY <1>2 DEF Interrupt
    <2>2. UNCHANGED <<parentEnd, readyAt, windowEnd, began, attempt, notBefore, dialHung>>
      BY <1>2 DEF Interrupt
    <2> QED  BY <2>1, <2>2, EndPreserves DEF Results
  <1>3. ASSUME NEW n \in RetryAfters, Pending(n)
        PROVE  IInv' /\ (WrapsBelowZero => NeverLate')
    BY <1>3, PendingPreserves
  <1>4. CASE Error \/ Resolved
    BY <1>4, ErrorPreserves, ResolvedPreserves
  <1>5. CASE Retry
    BY <1>5, RetryPreserves
  <1>6. CASE Expired \/ DialTimesOut
    BY <1>6, ExpiredPreserves
  <1>7. CASE Over \/ UNCHANGED vars
    BY <1>7 DEF Over, vars, IInv, TypeOK, OnTime, ContextEnd, EndsInTime,
                NamesTheDeadline, FollowsRetryInterval, NeverLate, MayAsk
  <1> QED  BY <1>1, <1>2, <1>3, <1>4, <1>5, <1>6, <1>7 DEF Next

(* The invariant is inductive, whatever the service answers and when time runs out. *)
THEOREM Inductive == Spec => []IInv
  <1>1. Init => IInv
    BY InitEstablishes
  <1>2. IInv /\ [Next]_vars => IInv'
    BY NextPreserves
  <1> QED  BY <1>1, <1>2, PTL DEF Spec

THEOREM TypeCorrect == Spec => []TypeOK
  <1>1. IInv => TypeOK
    BY DEF IInv
  <1> QED  BY <1>1, Inductive, PTL

(***************************************************************************)
(* The polls of one loop and its waits take no more than a window from the *)
(* first request on, for whatever intervals, the ones that overflow a      *)
(* time.Duration included, and the command no more than its timeout.       *)
(***************************************************************************)
THEOREM LoopsEndInTime == Spec => []EndsInTime
  <1>1. IInv => EndsInTime
    BY DEF IInv
  <1> QED  BY <1>1, Inductive, PTL

(***************************************************************************)
(* The error that a user reads names a deadline that has passed; for the   *)
(* window the one exception is a dial that timed out at that instant.      *)
(***************************************************************************)
THEOREM DeadlinesAreNamed == Spec => []NamesTheDeadline
  <1>1. IInv => NamesTheDeadline
    BY DEF IInv
  <1> QED  BY <1>1, Inductive, PTL

(* The service is not asked before the time it named, with timers of any width. *)
THEOREM IntervalsAreFollowed == Spec => []FollowsRetryInterval
  <1>1. IInv => FollowsRetryInterval
    BY DEF IInv
  <1> QED  BY <1>1, Inductive, PTL

(***************************************************************************)
(* An observation that was ready in time is reported, for every service    *)
(* whose intervals, where they overflow a time.Duration, wrap below zero.  *)
(* An interval that wraps to a positive one makes the loop wait for a time *)
(* that nobody named, and an observation that is ready may be missed.      *)
(***************************************************************************)
THEOREM ReadyInTimeIsReported ==
    ASSUME WrapsBelowZero
    PROVE  Spec => []ReadyIsReported
  <1>1. Init => IInv /\ NeverLate
    BY InitEstablishes
  <1>2. IInv /\ NeverLate /\ [Next]_vars => (IInv /\ NeverLate)'
    BY NextPreserves
  <1>3. IInv /\ NeverLate => ReadyIsReported
    <2> SUFFICES ASSUME IInv, NeverLate, pc \in {"unavailable", "timeout"}, ~dialHung
                 PROVE  LargerOf(readyAt, MayAsk) + MaxLatency >= SmallerOf(windowEnd, parentEnd)
      BY DEF ReadyIsReported
    <2>1. /\ SmallerOf(windowEnd, parentEnd) \in Nat /\ LargerOf(readyAt, MayAsk) \in Int
          /\ MaxLatency \in Nat
      BY Facts DEF IInv, TypeOK, MayAsk, LargerOf, SmallerOf
    <2> QED  BY <2>1 DEF NeverLate
  <1> QED  BY <1>1, <1>2, <1>3, PTL DEF Spec

----------------------------------------------------------------------------
(* Times. *)

TimeTypeOK == clock \in Nat /\ {observedAt, nextRefreshAt, window} \subseteq Int

(* Whole seconds, and where the first one and the hour begin. *)
LEMMA WholeSeconds ==
    ASSUME NEW t \in Nat
    PROVE  /\ t \div Instants \in Nat
           /\ t < Instants <=> t \div Instants = 0
           /\ t >= 3600 * Instants <=> t \div Instants >= 3600
  <1>1. Instants \in Nat /\ Instants > 0
    BY TimesAssumption
  <1>2. PICK q \in Nat, r \in Nat : q = t \div Instants /\ r = t % Instants /\ r < Instants /\ t = q * Instants + r
    BY <1>1
  <1>3. CASE q = 0
    BY <1>1, <1>2, <1>3
  <1>4. CASE q >= 1
    <2>1. q * Instants >= Instants
      BY <1>1, <1>2, <1>4
    <2>2. q >= 3600 => q * Instants >= 3600 * Instants
      BY <1>1, <1>2
    <2>3. q < 3600 => q * Instants <= 3599 * Instants
      BY <1>1, <1>2
    <2> QED  BY <1>1, <1>2, <1>4, <2>1, <2>2, <2>3
  <1> QED  BY <1>2, <1>3, <1>4

LEMMA Sixties ==
    ASSUME NEW t \in Nat, NEW m, NEW s, m = t \div 60, s = t % 60
    PROVE  m \in Nat /\ s \in 0 .. 59 /\ t = 60 * m + s
  OBVIOUS

(* Hours, minutes and seconds make up the whole again. *)
Units(t, h, m, n, s) == h = t \div 3600 /\ m = t \div 60 /\ n = m % 60 /\ s = t % 60

LEMMA UnitsAddUp ==
    ASSUME NEW t \in Nat, NEW h, NEW m, NEW n, NEW s, Units(t, h, m, n, s)
    PROVE  /\ h \in Nat /\ m \in Nat /\ n \in 0 .. 59 /\ s \in 0 .. 59
           /\ t = 3600 * h + 60 * n + s
           /\ t = 60 * m + s
  <1>1. m \in Nat /\ s \in 0 .. 59 /\ t = 60 * m + s
    BY Sixties DEF Units
  <1>2. PICK k \in Nat : k = m \div 60
    BY <1>1, Sixties
  <1>3. n \in 0 .. 59 /\ m = 60 * k + n
    BY <1>1, <1>2, Sixties DEF Units
  <1>4. t = 3600 * k + (60 * n + s)
    BY <1>1, <1>3
  <1>5. h = k
    <2>1. h = (3600 * k + (60 * n + s)) \div 3600
      BY <1>4 DEF Units
    <2>2. (3600 * k + (60 * n + s)) \div 3600 = k
      <3>1. 60 * n + s \in Nat /\ 60 * n + s < 3600
        BY <1>1, <1>3
      <3> QED  BY <1>1, <1>3, <3>1
    <2> QED  BY <2>1, <2>2
  <1> QED  BY <1>1, <1>3, <1>4, <1>5

LEMMA ReadBack ==
    ASSUME NEW prefix, NEW h \in Nat, NEW m \in Nat, NEW s \in Nat
    PROVE  /\ Says(Parts(prefix, h, m, s)) = 3600 * h + 60 * m + s
           /\ Parts(prefix, h, m, s).kind = prefix
  <1> DEFINE n == [h |-> h, m |-> m, s |-> s]
             p == Parts(prefix, h, m, s)
  <1>1. p.parts = [u \in { v \in {"h", "m", "s"} : n[v] > 0 } |-> n[u]] /\ p.kind = prefix
    BY DEF Parts
  <1>2. Number(p, "h") = h /\ Number(p, "m") = m /\ Number(p, "s") = s
    <2>1. \A u \in {"h", "m", "s"} : Number(p, u) = IF n[u] > 0 THEN n[u] ELSE 0
      BY <1>1 DEF Number
    <2>2. n["h"] = h /\ n["m"] = m /\ n["s"] = s
      OBVIOUS
    <2> HIDE DEF n, p
    <2> QED  BY <2>1, <2>2
  <1> HIDE DEF p
  <1>3. Says(p) = 3600 * h + 60 * m + s
    BY <1>2 DEF Says
  <1> QED  BY <1>1, <1>3 DEF p

LEMMA ReadOne ==
    ASSUME NEW prefix, NEW n \in Nat, NEW unit \in {"h", "m", "s"}
    PROVE  /\ One(prefix, n, unit).kind = prefix
           /\ Says(One(prefix, n, unit)) = (CASE unit = "h" -> 3600 * n
                                           [] unit = "m" -> 60 * n
                                           [] unit = "s" -> n)
  BY DEF One, Says, Number

LEMMA ReadWords ==
    ASSUME NEW prefix
    PROVE  Says(Words(prefix)) = 0 /\ Words(prefix).kind = prefix
  BY DEF Words, Says, Number

LEMMA CompactSays ==
    ASSUME NEW prefix, NEW total \in Nat
    PROVE  /\ Says(FormatCompactDuration(prefix, total)) = total
           /\ FormatCompactDuration(prefix, total).kind = prefix
  <1>1. CASE total = 0
    BY <1>1, ReadOne DEF FormatCompactDuration
  <1>2. CASE total # 0
    <2>1. PICK h, m, n, s : Units(total, h, m, n, s)
      BY DEF Units
    <2>2. h \in Nat /\ n \in Nat /\ s \in Nat /\ total = 3600 * h + 60 * n + s
      BY <2>1, UnitsAddUp
    <2>3. FormatCompactDuration(prefix, total) = Parts(prefix, h, n, s)
      BY <1>2, <2>1 DEF FormatCompactDuration, Units
    <2> QED  BY <2>2, <2>3, ReadBack
  <1> QED  BY <1>1, <1>2

(***************************************************************************)
(* Ages, due times and windows are told as they are, whatever the units,   *)
(* and wherever the clock stands.                                          *)
(***************************************************************************)
LEMMA AgesAreTold == TimeTypeOK => AgesAreTrue
  <1> SUFFICES ASSUME TimeTypeOK PROVE AgesAreTrue
    OBVIOUS
  <1>1. Elapsed \in Int /\ Instants \in Nat /\ Instants > 0
    BY TimesAssumption DEF TimeTypeOK, Elapsed
  <1>2. CASE Elapsed < Instants
    <2>1. /\ FormatFreshness(Elapsed) = Words("just_now")
          /\ FormatCompactFreshness(Elapsed) = Words("just_now")
      BY <1>2 DEF FormatFreshness, FormatCompactFreshness
    <2>2. /\ Says(FormatFreshness(Elapsed)) = 0 /\ FormatFreshness(Elapsed).kind = "just_now"
          /\ Says(FormatCompactFreshness(Elapsed)) = 0
          /\ FormatCompactFreshness(Elapsed).kind = "just_now"
      BY <2>1, ReadWords
    <2>3. Age \in Nat /\ Age < Instants
      BY <1>1, <1>2 DEF Age
    <2>4. Age \div Instants = 0 /\ ~(Age >= 3600 * Instants)
      BY <1>1, <2>3, WholeSeconds
    <2>5. Floor(Age, 0, 1)
      BY <2>4 DEF Floor
    <2> QED  BY <2>2, <2>3, <2>4, <2>5 DEF AgesAreTrue
  <1>3. CASE Elapsed >= Instants
    <2>1. PICK total \in Nat : total = Elapsed \div Instants
      BY <1>1, <1>3, WholeSeconds
    <2>2. /\ Elapsed \in Nat /\ ~(Elapsed < 0) /\ ~(Elapsed < Instants)
          /\ total # 0
          /\ Elapsed >= 3600 * Instants <=> total >= 3600
      BY <1>1, <1>3, <2>1, WholeSeconds
    <2>3. /\ Says(FormatCompactFreshness(Elapsed)) = total
          /\ FormatCompactFreshness(Elapsed).kind = "ago"
      BY <2>1, <2>2, CompactSays DEF FormatCompactFreshness
    <2>4. /\ Floor(Elapsed, Says(FormatFreshness(Elapsed)), IF total >= 3600 THEN 3600 ELSE 1)
          /\ FormatFreshness(Elapsed).kind = "ago"
      <3>1. CASE total < 60
        <4>1. FormatFreshness(Elapsed) = One("ago", total, "s")
          BY <2>1, <2>2, <3>1 DEF FormatFreshness
        <4> QED  BY <2>1, <3>1, <4>1, ReadOne DEF Floor
      <3>2. CASE 60 <= total /\ total < 3600
        <4>1. FormatFreshness(Elapsed) = Parts("ago", 0, total \div 60, total % 60)
          BY <2>1, <2>2, <3>2 DEF FormatFreshness
        <4>2. Says(FormatFreshness(Elapsed)) = total /\ FormatFreshness(Elapsed).kind = "ago"
          <5>1. PICK h, m, n, s : Units(total, h, m, n, s)
            BY DEF Units
          <5>2. m \in Nat /\ s \in Nat /\ total = 60 * m + s
            BY <5>1, UnitsAddUp
          <5>3. FormatFreshness(Elapsed) = Parts("ago", 0, m, s)
            BY <4>1, <5>1 DEF Units
          <5>4. Says(Parts("ago", 0, m, s)) = 3600 * 0 + 60 * m + s /\ Parts("ago", 0, m, s).kind = "ago"
            BY <5>2, ReadBack
          <5> QED  BY <5>2, <5>3, <5>4
        <4> QED  BY <2>1, <3>2, <4>2 DEF Floor
      <3>3. CASE total >= 3600
        <4>1. FormatFreshness(Elapsed) = One("ago", total \div 3600, "h")
          BY <2>1, <2>2, <3>3 DEF FormatFreshness
        <4>2. PICK h, m, n, s : Units(total, h, m, n, s)
          BY DEF Units
        <4>3. Says(FormatFreshness(Elapsed)) = 3600 * h /\ FormatFreshness(Elapsed).kind = "ago"
          BY <4>1, <4>2, UnitsAddUp, ReadOne DEF Units
        <4>4. 3600 * h <= total /\ total < 3600 * h + 3600
          <5>1. h \in Nat /\ n \in 0 .. 59 /\ s \in 0 .. 59 /\ total = 3600 * h + 60 * n + s
            BY <4>2, UnitsAddUp
          <5> QED  BY <5>1
        <4> QED  BY <2>1, <3>3, <4>3, <4>4 DEF Floor
      <3> QED  BY <3>1, <3>2, <3>3
    <2>5. Age = Elapsed
      BY <2>2 DEF Age
    <2> QED  BY <2>1, <2>2, <2>3, <2>4, <2>5 DEF AgesAreTrue, Floor
  <1> QED  BY <1>1, <1>2, <1>3

LEMMA DueTimesAreTold == TimeTypeOK => DueTimesAreTrue
  <1> SUFFICES ASSUME TimeTypeOK PROVE DueTimesAreTrue
    OBVIOUS
  <1>1. Remaining \in Int /\ Instants \in Nat /\ Instants > 0
    BY TimesAssumption DEF TimeTypeOK, Remaining
  <1>2. CASE Remaining <= 0
    <2>1. /\ FormatRefreshDue(Remaining) = Words("now")
          /\ FormatCompactRefreshDue(Remaining) = Words("now")
      BY <1>2 DEF FormatRefreshDue, FormatCompactRefreshDue
    <2>2. Words("now").kind = "now" /\ ~(Remaining > 0)
      BY <1>1, <1>2, ReadWords
    <2> QED  BY <1>2, <2>1, <2>2 DEF DueTimesAreTrue
  <1>3. CASE Remaining > 0
    <2>1. PICK total \in Nat : total = Remaining \div Instants
      BY <1>1, <1>3, WholeSeconds
    <2>2. Remaining \in Nat /\ ~(Remaining <= 0) /\ (Remaining < Instants <=> total = 0)
      BY <1>1, <1>3, <2>1, WholeSeconds
    <2>3. CASE total = 0
      <3>1. /\ FormatRefreshDue(Remaining) = Words("soon")
            /\ FormatCompactRefreshDue(Remaining) = Words("soon")
        BY <2>1, <2>2, <2>3 DEF FormatRefreshDue, FormatCompactRefreshDue
      <3>2. Remaining \in 1 .. Instants - 1
        BY <1>1, <1>3, <2>2, <2>3
      <3>3. Says(Words("soon")) = 0 /\ Words("soon").kind = "soon"
        BY ReadWords
      <3>4. Floor(Remaining, 0, 1)
        BY <2>1, <2>3 DEF Floor
      <3> QED  BY <2>2, <3>1, <3>2, <3>3, <3>4 DEF DueTimesAreTrue
    <2>4. CASE total # 0
      <3>1. /\ FormatRefreshDue(Remaining) = Parts("in", 0, total \div 60, total % 60)
            /\ FormatCompactRefreshDue(Remaining) = FormatCompactDuration("in", total)
        BY <2>1, <2>2, <2>4 DEF FormatRefreshDue, FormatCompactRefreshDue
      <3>2. /\ Says(FormatRefreshDue(Remaining)) = total
            /\ FormatRefreshDue(Remaining).kind = "in"
        <4>1. PICK h, m, n, s : Units(total, h, m, n, s)
          BY DEF Units
        <4>2. m \in Nat /\ s \in Nat /\ total = 60 * m + s
          BY <4>1, UnitsAddUp
        <4>3. FormatRefreshDue(Remaining) = Parts("in", 0, m, s)
          BY <3>1, <4>1 DEF Units
        <4>4. Says(Parts("in", 0, m, s)) = 3600 * 0 + 60 * m + s /\ Parts("in", 0, m, s).kind = "in"
          BY <4>2, ReadBack
        <4> QED  BY <4>2, <4>3, <4>4
      <3>3. /\ Says(FormatCompactRefreshDue(Remaining)) = total
            /\ FormatCompactRefreshDue(Remaining).kind = "in"
        BY <3>1, CompactSays
      <3>4. Floor(Remaining, total, 1)
        BY <2>1 DEF Floor
      <3> QED  BY <2>2, <3>2, <3>3, <3>4 DEF DueTimesAreTrue
    <2> QED  BY <2>3, <2>4
  <1> QED  BY <1>1, <1>2, <1>3

LEMMA WindowsAreTold == TimeTypeOK => WindowsAreExact
  <1> SUFFICES ASSUME TimeTypeOK, window > 0 PROVE Says(WindowHeading(window)) = window
    BY DEF WindowsAreExact
  <1>1. window \in Nat /\ ~(window <= 0)
    BY DEF TimeTypeOK
  <1>2. PICK m, s : m = window \div 60 /\ s = window % 60
    OBVIOUS
  <1>3. CASE window % 60 = 0
    <2>1. WindowHeading(window) = One("window", m, "m")
      BY <1>1, <1>2, <1>3 DEF WindowHeading
    <2>2. m \in Nat /\ window = 60 * m
      BY <1>1, <1>2, <1>3, Sixties
    <2> QED  BY <2>1, <2>2, ReadOne
  <1>4. CASE window % 60 # 0
    BY <1>1, <1>4, ReadOne DEF WindowHeading
  <1> QED  BY <1>3, <1>4

(* Wherever the clock stands, and whatever the timestamps and windows: no text about a time    *)
(* says more or less than what it cuts off.                                                    *)
THEOREM TimesAreTold == TimeSpec => []TimesAreTrue
  <1>1. TimeInit => TimeTypeOK
    BY TimesAssumption DEF TimeInit, TimeTypeOK
  <1>2. TimeTypeOK /\ [PassTime]_timeVars => TimeTypeOK'
    BY DEF TimeTypeOK, PassTime, timeVars
  <1>3. TimeTypeOK => TimesAreTrue
    BY AgesAreTold, DueTimesAreTold, WindowsAreTold DEF TimesAreTrue
  <1> QED  BY <1>1, <1>2, <1>3, PTL DEF TimeSpec

----------------------------------------------------------------------------
(* Reports. *)

(* S gives the number of rows before each of the first n blockers of a list. *)
Sums(S, list, n) == S[1] = 0 /\ \A i \in 1 .. n - 1 : S[i + 1] = S[i] + Weight(list[i])

GoesOn(S, list, a) ==
    \E T \in [1 .. a + 1 -> Nat] : Sums(T, list, a + 1) /\ T[a + 1] = S[a] + Weight(list[a])

Cell(b, l) == <<b.name, IF b.reasons = <<>> THEN NoReason ELSE b.reasons[l]>>

(* Where a loop over the reasons stands. *)
Cursor(list, a, n) ==
    /\ a <= Len(list) + 1
    /\ a <= Len(list) => n <= Weight(list[a])
    /\ a > Len(list) => n = 1

(* From reason n of blocker a to the next row, reason m of blocker b. *)
RowFollows(list, S, a, n, b, m) ==
    /\ b \in Nat \ {0} /\ m \in Nat \ {0} /\ Cursor(list, b, m)
    /\ S[b] + m = S[a] + n + 1
    /\ \A i \in DOMAIN list : \A l \in 1 .. Weight(list[i]) :
          i < b \/ (i = b /\ l < m) <=> i < a \/ (i = a /\ l < n) \/ (i = a /\ l = n)

NextRow(list, a, n, b, m) ==
    IF n < Len(list[a].reasons) THEN m = n + 1 /\ b = a ELSE m = 1 /\ b = a + 1

Own       == Len(OwnRow)
AllGroups == Len(answer.groups) + 1
AllQueues == Len(answer.queues) + 1

Counted(G, Q, g, q) ==
    /\ Sums(G, answer.groups, g) /\ Sums(Q, answer.queues, q)
    /\ count = Own + G[g] + Q[q]

(* The rows of the queues up to reason n of queue k are where they belong. *)
QueueRows(Q, k, n) ==
    \A i \in DOMAIN answer.queues : \A l \in 1 .. Weight(answer.queues[i]) :
        i < k \/ (i = k /\ l < n) =>
            Own + Q[i] + l \in DOMAIN rows /\ rows[Own + Q[i] + l] = Cell(answer.queues[i], l)

GroupRowsAfter(n) == \A x \in DOMAIN rows : x > n => rows[x][1] = AGroup

Remedied == { row \in (Queues \cup {OwnGroup}) \X (Reasons \cup {"migration"}) : HasRemedy(row) }

(* The steps so far are those of the rows before p, each where the row first is. *)
StepsOf(todo, table, p, wanted) ==
    /\ \A i \in DOMAIN todo : todo[i] \in wanted /\ \E x \in DOMAIN table : x < p /\ table[x] = todo[i]
    /\ \A x \in DOMAIN table : x < p /\ table[x] \in wanted => \E i \in DOMAIN todo : todo[i] = table[x]
    /\ \A i, j \in DOMAIN todo : i < j =>
          \E x \in DOMAIN table : table[x] = todo[i] /\ \A y \in DOMAIN table : table[y] = todo[j] => x < y

Printed(G, Q) ==
    /\ stage = "status" => rows = <<>>
    /\ stage # "steps" => steps = <<>>
    /\ stage # "status" => \A i \in DOMAIN OwnRow : i \in DOMAIN rows /\ rows[i] = OwnRow[i]
    /\ stage = "queue_rows" =>
          /\ Cursor(answer.queues, at, nth) /\ QueueRows(Q, at, nth)
          /\ Len(rows) = Own + Q[at] + nth - 1
    /\ stage \in {"group_rows", "observations", "steps"} =>
          /\ QueueRows(Q, AllQueues, 1)
          /\ GroupRowsAfter(Own + Q[AllQueues])
    /\ stage = "group_rows" =>
          Cursor(answer.groups, at, nth) /\ Len(rows) = Own + Q[AllQueues] + G[at] + nth - 1
    /\ stage \in {"observations", "steps"} => Len(rows) = count
    /\ stage = "steps" => Cursor(answer.queues, at, nth) /\ StepsOf(steps, rows, Own + Q[at] + nth, Remedied)

Tables == {"status", "queue_rows", "group_rows", "observations", "steps"}

Bookkeeping ==
    /\ stage = "check" => rows = <<>> /\ steps = <<>>
    /\ stage = "count_groups" =>
          /\ at <= AllGroups /\ rows = <<>> /\ steps = <<>>
          /\ \E G \in [1 .. at -> Nat], Q \in [1 .. 1 -> Nat] : Counted(G, Q, at, 1)
    /\ stage = "count_queues" =>
          /\ at <= AllQueues /\ rows = <<>> /\ steps = <<>>
          /\ \E G \in [1 .. AllGroups -> Nat], Q \in [1 .. at -> Nat] : Counted(G, Q, AllGroups, at)
    /\ stage \in Tables =>
          \E G \in [1 .. AllGroups -> Nat], Q \in [1 .. AllQueues -> Nat] :
              Counted(G, Q, AllGroups, AllQueues) /\ Printed(G, Q)
    /\ stage = "exit" => count = Len(rows)
    /\ Delivered => StepsOf(steps, rows, Len(rows) + 1, Remedied)

Assessed ==
    /\ stage \notin {"check", "ended"} => Valid
    /\ stage = "ended" <=> verdict # "none"

ReportIInv == ReportTypeOK /\ Bookkeeping /\ Assessed /\ ExitTellsAssessment

----------------------------------------------------------------------------
(* The lists of an answer are sequences of blockers, each of at least one row. *)
LEMMA UpToIsSeq ==
    ASSUME NEW S, NEW n, NEW list \in UpTo(S, n)
    PROVE  list \in Seq(S)
  <1>1. PICK k \in 0 .. n : list \in [1 .. k -> S]
    BY DEF UpTo
  <1>2. k \in Nat
    OBVIOUS
  <1> QED  BY <1>1, <1>2, SeqDef

LEMMA ListsOfBlockers ==
    ASSUME NEW N, NEW R, NEW n, NEW list \in UpTo(Blockers(N, R), n)
    PROVE  list \in Seq([name: N, reasons: Seq(R)])
  <1>1. list \in Seq(Blockers(N, R))
    BY UpToIsSeq
  <1>2. Blockers(N, R) \subseteq [name: N, reasons: Seq(R)]
    <2>1. UpTo(R, MaxReasons) \subseteq Seq(R)
      BY UpToIsSeq
    <2> QED  BY <2>1 DEF Blockers
  <1> QED  BY <1>1, <1>2, SeqMonotonic

LEMMA WeightIsPositive ==
    ASSUME NEW N, NEW R, NEW b \in [name: N, reasons: Seq(R)]
    PROVE  /\ Weight(b) \in Nat \ {0}
           /\ Len(b.reasons) \in Nat
           /\ b.reasons = <<>> => Weight(b) = 1 /\ Len(b.reasons) = 0
           /\ b.reasons # <<>> => Weight(b) = Len(b.reasons)
  BY DEF Weight

LEMMA AnswerFacts ==
    ASSUME ReportTypeOK
    PROVE  /\ answer.queues \in Seq([name: Queues, reasons: Seq(Reasons)])
           /\ answer.groups \in Seq([name: {AGroup}, reasons: Seq(GroupReasons)])
           /\ answer.migration \in BOOLEAN
           /\ AllGroups \in Nat \ {0} /\ AllQueues \in Nat \ {0}
  <1>1. answer.queues \in QueueLists /\ answer.groups \in GroupLists \cup {<<>>} /\ answer.migration \in BOOLEAN
    BY DEF ReportTypeOK, Answers
  <1>2. answer.queues \in Seq([name: Queues, reasons: Seq(Reasons)])
    BY <1>1, ListsOfBlockers DEF QueueLists
  <1>3. answer.groups \in Seq([name: {AGroup}, reasons: Seq(GroupReasons)])
    <2>1. CASE answer.groups \in GroupLists
      BY <2>1, ListsOfBlockers DEF GroupLists
    <2>2. CASE answer.groups = <<>>
      BY <2>2
    <2> QED  BY <1>1, <2>1, <2>2
  <1>4. AllGroups \in Nat \ {0} /\ AllQueues \in Nat \ {0}
    BY <1>2, <1>3 DEF AllGroups, AllQueues
  <1> QED  BY <1>1, <1>2, <1>3, <1>4

LEMMA OwnFacts ==
    ASSUME ReportTypeOK
    PROVE  /\ OwnRow \in Seq({<<OwnGroup, "migration">>}) /\ Own \in 0 .. 1
           /\ Own = Len(OwnRow) /\ DOMAIN OwnRow = 1 .. Own
           /\ \A i \in DOMAIN OwnRow : OwnRow[i] = <<OwnGroup, "migration">>
  <1>1. CASE answer.migration
    BY <1>1 DEF OwnRow, Own
  <1>2. CASE ~answer.migration
    BY <1>2 DEF OwnRow, Own
  <1> QED  BY <1>1, <1>2

(* A loop moves by one row at a time. *)
LEMMA CursorMoves ==
    ASSUME NEW N, NEW R, NEW list \in Seq([name: N, reasons: Seq(R)]), NEW k, k = Len(list) + 1,
           NEW S \in [1 .. k -> Nat], Sums(S, list, k),
           NEW a \in Nat \ {0}, NEW n \in Nat \ {0}, Cursor(list, a, n), a <= Len(list),
           NEW b, NEW m, NextRow(list, a, n, b, m)
    PROVE  RowFollows(list, S, a, n, b, m)
  <1>1. /\ a \in 1 .. Len(list) /\ list[a] \in [name: N, reasons: Seq(R)]
        /\ n <= Weight(list[a])
        /\ S[a + 1] = S[a] + Weight(list[a]) /\ S[a] \in Nat
    <2>1. a \in 1 .. Len(list) /\ Len(list) \in Nat
      OBVIOUS
    <2>2. list[a] \in [name: N, reasons: Seq(R)]
      BY <2>1, ElementOfSeq
    <2>3. S[a + 1] = S[a] + Weight(list[a])
      <3>1. a \in 1 .. (Len(list) + 1) - 1
        BY <2>1
      <3> QED  BY <3>1 DEF Sums
    <2>4. S[a] \in Nat
      <3>1. a \in 1 .. Len(list) + 1
        BY <2>1
      <3> QED  BY <3>1
    <2> QED  BY <2>1, <2>2, <2>3, <2>4 DEF Cursor
  <1>2. CASE n < Len(list[a].reasons)
    <2>1. Weight(list[a]) = Len(list[a].reasons) /\ Len(list[a].reasons) \in Nat
      BY <1>1, <1>2, WeightIsPositive
    <2>2. m = n + 1 /\ b = a
      BY <1>2 DEF NextRow
    <2>3. Cursor(list, b, m)
      BY <1>1, <1>2, <2>1, <2>2 DEF Cursor
    <2>4. \A i \in DOMAIN list : \A l \in 1 .. Weight(list[i]) :
             i < b \/ (i = b /\ l < m) <=> i < a \/ (i = a /\ l < n) \/ (i = a /\ l = n)
      <3> SUFFICES ASSUME NEW i \in DOMAIN list, NEW l \in 1 .. Weight(list[i])
                   PROVE  i < a \/ (i = a /\ l < n + 1) <=> i < a \/ (i = a /\ l < n) \/ (i = a /\ l = n)
        BY <2>2
      <3>1. l \in Int
        OBVIOUS
      <3> QED  BY <3>1
    <2>5. S[b] + m = S[a] + n + 1
      BY <1>1, <2>2
    <2> QED  BY <2>2, <2>3, <2>4, <2>5 DEF RowFollows
  <1>3. CASE ~(n < Len(list[a].reasons))
    <2>1. n = Weight(list[a])
      <3>1. /\ Weight(list[a]) \in Nat \ {0} /\ Len(list[a].reasons) \in Nat
            /\ list[a].reasons = <<>> => Weight(list[a]) = 1
            /\ list[a].reasons # <<>> => Weight(list[a]) = Len(list[a].reasons)
        BY <1>1, WeightIsPositive
      <3>2. n <= Weight(list[a]) /\ ~(n < Len(list[a].reasons))
        BY <1>1, <1>3
      <3>3. PICK w \in Nat, r \in Nat : w = Weight(list[a]) /\ r = Len(list[a].reasons)
        BY <3>1
      <3>4. n <= w /\ ~(n < r) /\ (w = 1 \/ w = r)
        BY <3>1, <3>2, <3>3
      <3>5. n = w
        BY <3>4
      <3> QED  BY <3>3, <3>5
    <2>2. m = 1 /\ b = a + 1
      BY <1>3 DEF NextRow
    <2>3. Cursor(list, b, m)
      <3>1. \A i \in 1 .. Len(list) : list[i] \in [name: N, reasons: Seq(R)]
        BY ElementOfSeq
      <3>2. b <= Len(list) => Weight(list[b]) \in Nat \ {0}
        <4>1. b <= Len(list) => list[b] \in [name: N, reasons: Seq(R)]
          BY <1>1, <2>2, <3>1
        <4> QED  BY <4>1, WeightIsPositive
      <3> QED  BY <1>1, <2>2, <3>2 DEF Cursor
    <2>4. \A i \in DOMAIN list : \A l \in 1 .. Weight(list[i]) :
             i < b \/ (i = b /\ l < m) <=> i < a \/ (i = a /\ l < n) \/ (i = a /\ l = n)
      <3> SUFFICES ASSUME NEW i \in DOMAIN list, NEW l \in 1 .. Weight(list[i])
                   PROVE  i < a + 1 \/ (i = a + 1 /\ l < 1)
                            <=> i < a \/ (i = a /\ l < n) \/ (i = a /\ l = n)
        BY <2>2
      <3>1. l \in Int /\ l >= 1 /\ i \in Int /\ (i = a => l <= n)
        BY <2>1
      <3> QED  BY <3>1
    <2>5. S[b] + m = S[a] + n + 1
      BY <1>1, <2>1, <2>2
    <2> QED  BY <2>2, <2>3, <2>4, <2>5 DEF RowFollows
  <1> QED  BY <1>2, <1>3

----------------------------------------------------------------------------
(* A row is dealt with: its step is there before, or is appended. *)
LEMMA StepTaken ==
    ASSUME NEW T, NEW todo \in Seq(T), NEW U, NEW table \in Seq(U), NEW wanted, NEW p \in DOMAIN table,
           StepsOf(todo, table, p, wanted)
    PROVE  StepsOf(IF table[p] \in wanted THEN AppendNew(todo, table[p]) ELSE todo, table, p + 1, wanted)
  <1>1. p \in Nat /\ DOMAIN table = 1 .. Len(table) /\ DOMAIN todo = 1 .. Len(todo) /\ Len(todo) \in Nat
    OBVIOUS
  <1>2. CASE table[p] \notin wanted \/ \E i \in DOMAIN todo : todo[i] = table[p]
    <2>1. (IF table[p] \in wanted THEN AppendNew(todo, table[p]) ELSE todo) = todo
      BY <1>2 DEF AppendNew
    <2>2. StepsOf(todo, table, p + 1, wanted)
      <3>1. \A x \in DOMAIN table : x < p + 1 <=> x < p \/ x = p
        BY <1>1
      <3> QED  BY <1>2, <3>1 DEF StepsOf
    <2> QED  BY <2>1, <2>2
  <1>3. CASE table[p] \in wanted /\ ~\E i \in DOMAIN todo : todo[i] = table[p]
    <2> DEFINE more == Append(todo, table[p])
    <2>1. (IF table[p] \in wanted THEN AppendNew(todo, table[p]) ELSE todo) = more
      BY <1>3 DEF AppendNew
    <2>2. /\ DOMAIN more = 1 .. Len(todo) + 1
          /\ \A i \in 1 .. Len(todo) : more[i] = todo[i]
          /\ more[Len(todo) + 1] = table[p]
      BY <1>1
    <2> HIDE DEF more
    <2>3. ASSUME NEW i \in DOMAIN more
          PROVE  more[i] \in wanted /\ \E x \in DOMAIN table : x < p + 1 /\ table[x] = more[i]
      <3>1. CASE i = Len(todo) + 1
        BY <1>1, <1>3, <2>2, <3>1
      <3>2. CASE i \in 1 .. Len(todo)
        <4>1. PICK x \in DOMAIN table : x < p /\ table[x] = todo[i] /\ todo[i] \in wanted
          BY <1>1, <3>2 DEF StepsOf
        <4> QED  BY <1>1, <2>2, <3>2, <4>1
      <3> QED  BY <1>1, <2>2, <3>1, <3>2
    <2>4. ASSUME NEW x \in DOMAIN table, x < p + 1, table[x] \in wanted
          PROVE  \E i \in DOMAIN more : more[i] = table[x]
      <3>1. CASE x = p
        BY <1>1, <2>2, <3>1
      <3>2. CASE x < p
        <4>1. PICK i \in DOMAIN todo : todo[i] = table[x]
          BY <2>4, <3>2 DEF StepsOf
        <4> QED  BY <1>1, <2>2, <4>1
      <3> QED  BY <1>1, <2>4, <3>1, <3>2
    <2>5. ASSUME NEW i \in DOMAIN more, NEW j \in DOMAIN more, i < j
          PROVE  \E x \in DOMAIN table :
                    table[x] = more[i] /\ \A y \in DOMAIN table : table[y] = more[j] => x < y
      <3>1. i \in DOMAIN todo /\ more[i] = todo[i]
        BY <1>1, <2>2, <2>5
      <3>2. CASE j \in 1 .. Len(todo)
        BY <1>1, <2>2, <2>5, <3>1, <3>2 DEF StepsOf
      <3>3. CASE j = Len(todo) + 1
        <4>1. PICK x \in DOMAIN table : x < p /\ table[x] = todo[i]
          BY <3>1 DEF StepsOf
        <4>2. ASSUME NEW y \in DOMAIN table, table[y] = more[j]
              PROVE  x < y
          <5>1. table[y] = table[p]
            BY <2>2, <3>3, <4>2
          <5>2. ~(y < p)
            BY <1>3, <5>1 DEF StepsOf
          <5> QED  BY <1>1, <4>1, <5>2
        <4> QED  BY <3>1, <4>1, <4>2
      <3> QED  BY <1>1, <2>2, <3>2, <3>3
    <2>6. StepsOf(more, table, p + 1, wanted)
      BY <2>3, <2>4, <2>5 DEF StepsOf
    <2> QED  BY <2>1, <2>6
  <1> QED  BY <1>2, <1>3

(* The rows after those of the queues have no step. *)
LEMMA StepsDone ==
    ASSUME NEW todo, NEW U, NEW table \in Seq(U), NEW wanted, NEW p \in Nat, NEW q \in Nat, p <= q,
           StepsOf(todo, table, p, wanted),
           \A x \in DOMAIN table : x >= p => table[x] \notin wanted
    PROVE  StepsOf(todo, table, q, wanted)
  <1>1. \A x \in DOMAIN table : x \in Nat
    OBVIOUS
  <1>2. \A x \in DOMAIN table : (x < p => x < q) /\ (x < p \/ x >= p)
    BY <1>1
  <1> QED  BY <1>2 DEF StepsOf

LEMMA NoSteps ==
    ASSUME NEW p, NEW wanted
    PROVE  StepsOf(<<>>, <<>>, p, wanted)
  BY DEF StepsOf

(* Counting one blocker more. *)
LEMMA SumsGrow ==
    ASSUME NEW list, NEW a \in Nat \ {0}, Weight(list[a]) \in Nat,
           NEW S \in [1 .. a -> Nat], Sums(S, list, a)
    PROVE  GoesOn(S, list, a)
  <1> DEFINE T == [i \in 1 .. a + 1 |-> IF i = a + 1 THEN S[a] + Weight(list[a]) ELSE S[i]]
  <1>1. a \in Nat \ {0} /\ S[a] \in Nat
    OBVIOUS
  <1>2. Weight(list[a]) \in Nat
    OBVIOUS
  <1>3. T \in [1 .. a + 1 -> Nat]
    BY <1>1, <1>2
  <1>4. T[a + 1] = S[a] + Weight(list[a]) /\ T[1] = S[1] /\ \A i \in 1 .. a : T[i] = S[i]
    BY <1>1
  <1> HIDE DEF T
  <1>5. Sums(T, list, a + 1)
    <2>1. T[1] = 0
      BY <1>4 DEF Sums
    <2>2. ASSUME NEW i \in 1 .. (a + 1) - 1
          PROVE  T[i + 1] = T[i] + Weight(list[i])
      <3>1. CASE i = a
        BY <1>1, <1>4, <3>1
      <3>2. CASE i # a
        <4>1. i \in 1 .. a - 1 /\ i \in 1 .. a /\ i + 1 \in 1 .. a
          BY <1>1, <3>2
        <4>2. S[i + 1] = S[i] + Weight(list[i])
          BY <4>1 DEF Sums
        <4> QED  BY <1>4, <4>1, <4>2
      <3> QED  BY <3>1, <3>2
    <2> QED  BY <2>1, <2>2 DEF Sums
  <1> QED  BY <1>3, <1>4, <1>5 DEF GoesOn

LEMMA CursorStarts ==
    ASSUME NEW N, NEW R, NEW list \in Seq([name: N, reasons: Seq(R)])
    PROVE  Cursor(list, 1, 1)
  <1>1. Len(list) \in Nat
    OBVIOUS
  <1>2. 1 <= Len(list) => Weight(list[1]) \in Nat \ {0}
    <2>1. \A k \in 1 .. Len(list) : list[k] \in [name: N, reasons: Seq(R)]
      BY ElementOfSeq
    <2> QED  BY <1>1, <2>1, WeightIsPositive
  <1> QED  BY <1>1, <1>2 DEF Cursor

(* What stays as it is: the answer, and what is worked out from it. *)
LEMMA AnswerIsKept ==
    ASSUME [ReportNext]_reportVars
    PROVE  /\ UNCHANGED <<kind, json, answer>>
           /\ Own' = Own /\ OwnRow' = OwnRow /\ AllGroups' = AllGroups /\ AllQueues' = AllQueues
           /\ Remedied' = Remedied
  <1>1. UNCHANGED <<kind, json, answer>>
    BY DEF ReportNext, reportVars, Check, CountBlocker, GroupsCounted, QueuesCounted, PrintStatus,
           PrintRow, QueuesPrinted, GroupsPrinted, PrintObservations, AddStep, PrintSteps, Exit,
           WriteFails, Goto, Finish, NextReason
  <1>2. OwnRow' = OwnRow /\ AllGroups' = AllGroups /\ AllQueues' = AllQueues
    BY <1>1 DEF OwnRow, AllGroups, AllQueues
  <1>3. Own' = Own
    BY <1>2 DEF Own
  <1>4. Remedied' = Remedied
    BY <1>1 DEF Remedied, HasRemedy, Remedies
  <1> QED  BY <1>1, <1>2, <1>3, <1>4

LEMMA LoopsHaveCursors ==
    ASSUME ReportTypeOK, Bookkeeping, stage \in {"queue_rows", "group_rows", "steps"}
    PROVE  Cursor(List, at, nth)
  BY DEF Bookkeeping, Printed, Tables, List

(* The row that a loop has come to. *)
LEMMA QueueRow ==
    ASSUME ReportTypeOK, stage \in {"queue_rows", "steps"}, ~Ended, Cursor(List, at, nth)
    PROVE  /\ List = answer.queues /\ at \in DOMAIN answer.queues /\ at < AllQueues
           /\ nth \in 1 .. Weight(answer.queues[at])
           /\ Row = Cell(answer.queues[at], nth)
           /\ Row \in Queues \X (Reasons \cup {NoReason})
  <1>1. List = answer.queues
    BY DEF List
  <1>2. answer.queues \in Seq([name: Queues, reasons: Seq(Reasons)])
    BY AnswerFacts
  <1>3. at \in 1 .. Len(answer.queues) /\ DOMAIN answer.queues = 1 .. Len(answer.queues)
    <2>1. at \in Nat \ {0}
      BY DEF ReportTypeOK
    <2>2. ~(at > Len(answer.queues))
      BY <1>1 DEF Ended
    <2>3. Len(answer.queues) \in Nat /\ DOMAIN answer.queues = 1 .. Len(answer.queues)
      BY <1>2, LenProperties
    <2> QED  BY <2>1, <2>2, <2>3
  <1> DEFINE b == answer.queues[at]
  <1>4. b \in [name: Queues, reasons: Seq(Reasons)]
    BY <1>2, <1>3, ElementOfSeq
  <1>5. nth \in 1 .. Weight(b)
    <2>1. nth \in Nat \ {0}
      BY DEF ReportTypeOK
    <2>2. nth <= Weight(b)
      <3>1. at <= Len(answer.queues)
        BY <1>3
      <3> QED  BY <1>1, <3>1 DEF Cursor
    <2>3. Weight(b) \in Nat
      BY <1>4, WeightIsPositive
    <2> HIDE DEF b
    <2> QED  BY <2>1, <2>2, <2>3
  <1>6. Row = Cell(b, nth)
    BY <1>1 DEF Row, Cell
  <1>7. Cell(b, nth) \in Queues \X (Reasons \cup {NoReason})
    <2>1. b.reasons # <<>> => b.reasons[nth] \in Reasons
      <3>1. b.reasons # <<>> => nth \in 1 .. Len(b.reasons)
        BY <1>4, <1>5, WeightIsPositive
      <3>2. b.reasons \in Seq(Reasons)
        BY <1>4
      <3> QED  BY <3>1, <3>2, ElementOfSeq
    <2>2. b.name \in Queues
      BY <1>4
    <2> QED  BY <2>1, <2>2 DEF Cell
  <1>8. at < AllQueues
    <2>1. Len(answer.queues) \in Nat
      BY <1>2, LenProperties
    <2> QED  BY <1>3, <2>1 DEF AllQueues
  <1> QED  BY <1>1, <1>3, <1>5, <1>6, <1>7, <1>8

LEMMA GroupRow ==
    ASSUME ReportTypeOK, stage = "group_rows", ~Ended, Cursor(List, at, nth)
    PROVE  /\ List = answer.groups /\ at \in DOMAIN answer.groups /\ at < AllGroups
           /\ Row \in {AGroup} \X (GroupReasons \cup {NoReason})
  <1>1. List = answer.groups
    BY DEF List
  <1>2. answer.groups \in Seq([name: {AGroup}, reasons: Seq(GroupReasons)])
    BY AnswerFacts
  <1>3. at \in 1 .. Len(answer.groups) /\ DOMAIN answer.groups = 1 .. Len(answer.groups)
    <2>1. at \in Nat \ {0}
      BY DEF ReportTypeOK
    <2>2. ~(at > Len(answer.groups))
      BY <1>1 DEF Ended
    <2>3. Len(answer.groups) \in Nat /\ DOMAIN answer.groups = 1 .. Len(answer.groups)
      BY <1>2, LenProperties
    <2> QED  BY <2>1, <2>2, <2>3
  <1> DEFINE b == answer.groups[at]
  <1>4. b \in [name: {AGroup}, reasons: Seq(GroupReasons)]
    BY <1>2, <1>3, ElementOfSeq
  <1>5. nth \in Nat \ {0} /\ nth <= Weight(b)
    <2>1. nth \in Nat \ {0}
      BY DEF ReportTypeOK
    <2>2. at <= Len(answer.groups)
      BY <1>3
    <2> QED  BY <1>1, <2>1, <2>2 DEF Cursor
  <1>6. b.reasons # <<>> => b.reasons[nth] \in GroupReasons
    <2>1. b.reasons # <<>> => nth \in 1 .. Len(b.reasons)
      <3> HIDE DEF b
      <3>1. Len(b.reasons) \in Nat /\ (b.reasons # <<>> => Weight(b) = Len(b.reasons))
        BY <1>4, WeightIsPositive
      <3> QED  BY <1>5, <3>1
    <2>2. b.reasons \in Seq(GroupReasons)
      BY <1>4
    <2> QED  BY <2>1, <2>2, ElementOfSeq
  <1>7. Row \in {AGroup} \X (GroupReasons \cup {NoReason})
    <2>1. b.name \in {AGroup}
      BY <1>4
    <2> QED  BY <1>1, <1>6, <2>1 DEF Row
  <1>8. at < AllGroups
    <2>1. Len(answer.groups) \in Nat
      BY <1>2, LenProperties
    <2> QED  BY <1>3, <2>1 DEF AllGroups
  <1> QED  BY <1>1, <1>3, <1>7, <1>8

(* A step of the steps' loop or of none: which rows have one. *)
LEMMA RemediedRows ==
    ASSUME NEW row \in (Queues \cup {OwnGroup, AGroup})
                       \X (Reasons \cup GroupReasons \cup {"migration", NoReason})
    PROVE  /\ HasRemedy(row) <=> row \in Remedied
           /\ row[1] = AGroup => row \notin Remedied
  <1>1. HasRemedy(row) => row \in (Queues \cup {OwnGroup}) \X (Reasons \cup {"migration"})
    BY DEF HasRemedy
  <1>2. row[1] = AGroup => ~HasRemedy(row)
    <2>1. AGroup # OwnGroup
      BY DEF AGroup, OwnGroup
    <2> QED  BY <2>1, ReportsAssumption DEF HasRemedy
  <1> QED  BY <1>1, <1>2 DEF Remedied

----------------------------------------------------------------------------
LEMMA ReportInitEstablishes == ReportInit => ReportIInv
  <1> SUFFICES ASSUME ReportInit PROVE ReportIInv
    OBVIOUS
  <1>1. ReportTypeOK
    BY EmptySeq DEF ReportInit, ReportTypeOK
  <1>2. Bookkeeping
    BY DEF ReportInit, Bookkeeping, Tables, Delivered
  <1>3. Assessed /\ ExitTellsAssessment
    BY DEF ReportInit, Assessed, ExitTellsAssessment
  <1> QED  BY <1>1, <1>2, <1>3 DEF ReportIInv

LEMMA ReportTypeIsKept ==
    ASSUME ReportTypeOK, Bookkeeping, ReportNext
    PROVE  ReportTypeOK'
  <1> DEFINE Rows == (Queues \cup {OwnGroup, AGroup})
                     \X (Reasons \cup GroupReasons \cup {"migration", NoReason})
             Steps == (Queues \cup {OwnGroup}) \X (Reasons \cup {"migration"})
  <1>1. /\ kind' \in Kinds /\ json' \in BOOLEAN /\ answer' \in Answers(kind')
    BY AnswerIsKept DEF ReportTypeOK
  <1>2. stage' \in Loops \cup {"check", "status", "observations", "exit", "ended"}
    BY DEF ReportNext, Check, CountBlocker, GroupsCounted, QueuesCounted, PrintStatus, PrintRow,
           QueuesPrinted, GroupsPrinted, PrintObservations, AddStep, PrintSteps, Exit, WriteFails,
           Goto, Finish, NextReason, ReportTypeOK, Loops
  <1>3. verdict' \in {"none", "ok", "known_blockers", "unknown_status", "invalid_answer",
                      "rejected", "bad_time", "write_failed"}
    BY DEF ReportNext, Check, CountBlocker, GroupsCounted, QueuesCounted, PrintStatus, PrintRow,
           QueuesPrinted, GroupsPrinted, PrintObservations, AddStep, PrintSteps, Exit, WriteFails,
           Goto, Finish, NextReason, ReportTypeOK, ExitStatus
  <1>4. at' \in Nat \ {0} /\ nth' \in Nat \ {0}
    <2>1. at \in Nat \ {0} /\ nth \in Nat \ {0}
      BY DEF ReportTypeOK
    <2>2. at' \in {at, at + 1, 1} /\ nth' \in {nth, nth + 1, 1}
      BY DEF ReportNext, Check, CountBlocker, GroupsCounted, QueuesCounted, PrintStatus, PrintRow,
             QueuesPrinted, GroupsPrinted, PrintObservations, AddStep, PrintSteps, Exit, WriteFails,
             Goto, Finish, NextReason
    <2> QED  BY <2>1, <2>2
  <1>5. count' \in Nat
    <2>1. CASE CountBlocker
      <3>1. /\ count' = count + Weight(List[at]) /\ count \in Nat
            /\ at \in Nat \ {0} /\ ~(at > Len(List))
        BY <2>1 DEF CountBlocker, ReportTypeOK, Ended
      <3>2. \E N, R : List \in Seq([name: N, reasons: Seq(R)])
        BY AnswerFacts DEF List
      <3>3. PICK N, R : List \in Seq([name: N, reasons: Seq(R)])
        BY <3>2
      <3>4. Len(List) \in Nat
        BY <3>3, LenProperties
      <3>5. at \in 1 .. Len(List)
        BY <3>1, <3>4
      <3>6. List[at] \in [name: N, reasons: Seq(R)]
        BY <3>3, <3>5, ElementOfSeq
      <3>7. Weight(List[at]) \in Nat
        BY <3>6, WeightIsPositive
      <3> QED  BY <3>1, <3>7
    <2>2. CASE Check
      BY <2>2, OwnFacts DEF Check
    <2>3. CASE UNCHANGED count
      BY <2>3 DEF ReportTypeOK
    <2> QED  BY <2>1, <2>2, <2>3
             DEF ReportNext, GroupsCounted, QueuesCounted, PrintStatus, PrintRow, QueuesPrinted,
                 GroupsPrinted, PrintObservations, AddStep, PrintSteps, Exit, WriteFails, NextReason
  <1>6. rows' \in Seq(Rows)
    <2>1. rows \in Seq(Rows)
      BY DEF ReportTypeOK
    <2>2. CASE PrintRow
      <3>1. Row \in Rows
        <4>1. Cursor(List, at, nth) /\ ~Ended /\ stage \in {"queue_rows", "group_rows"}
          BY <2>2, LoopsHaveCursors DEF PrintRow
        <4>2. CASE stage = "queue_rows"
          BY <4>1, <4>2, QueueRow
        <4>3. CASE stage = "group_rows"
          BY <4>1, <4>3, GroupRow
        <4> QED  BY <4>1, <4>2, <4>3
      <3>2. rows' = Append(rows, Row)
        BY <2>2 DEF PrintRow
      <3> QED  BY <2>1, <3>1, <3>2, AppendProperties
    <2>3. CASE PrintStatus
      <3>1. OwnRow \in Seq({<<OwnGroup, "migration">>}) /\ {<<OwnGroup, "migration">>} \subseteq Rows
        BY OwnFacts
      <3>2. OwnRow \in Seq(Rows)
        BY <3>1, SeqMonotonic
      <3> QED  BY <2>3, <3>2 DEF PrintStatus
    <2>4. CASE UNCHANGED rows
      BY <2>1, <2>4
    <2> QED  BY <2>2, <2>3, <2>4
             DEF ReportNext, Check, CountBlocker, GroupsCounted, QueuesCounted, QueuesPrinted,
                 GroupsPrinted, PrintObservations, AddStep, PrintSteps, Exit, WriteFails
  <1>7. steps' \in Seq(Steps)
    <2>1. steps \in Seq(Steps)
      BY DEF ReportTypeOK
    <2>2. CASE AddStep
      <3>1. Cursor(List, at, nth) /\ ~Ended /\ stage = "steps"
        BY <2>2, LoopsHaveCursors DEF AddStep
      <3>2. Row \in Queues \X (Reasons \cup {NoReason})
        BY <3>1, QueueRow
      <3>3. HasRemedy(Row) => Row \in Steps
        BY <3>2 DEF HasRemedy
      <3>4. steps' = steps \/ (HasRemedy(Row) /\ steps' = Append(steps, Row))
        BY <2>2 DEF AddStep, AppendNew
      <3> QED  BY <2>1, <3>3, <3>4, AppendProperties
    <2>3. CASE PrintObservations
      <3>1. OwnRow \in Seq({<<OwnGroup, "migration">>}) /\ {<<OwnGroup, "migration">>} \subseteq Steps
        BY OwnFacts
      <3>2. OwnRow \in Seq(Steps)
        BY <3>1, SeqMonotonic
      <3> QED  BY <2>1, <2>3, <3>2 DEF PrintObservations
    <2>4. CASE UNCHANGED steps
      BY <2>1, <2>4
    <2> QED  BY <2>2, <2>3, <2>4
             DEF ReportNext, Check, CountBlocker, GroupsCounted, QueuesCounted, QueuesPrinted,
                 GroupsPrinted, PrintStatus, PrintRow, PrintSteps, Exit, WriteFails
  <1> QED  BY <1>1, <1>2, <1>3, <1>4, <1>5, <1>6, <1>7 DEF ReportTypeOK

(* An answer is checked before anything is said of it, and the exit status follows it. *)
LEMMA AssessmentIsKept ==
    ASSUME ReportTypeOK, Assessed, ExitTellsAssessment, ReportNext
    PROVE  Assessed' /\ ExitTellsAssessment'
  <1>1. Valid' = Valid /\ UNCHANGED <<kind, json, answer>>
    BY AnswerIsKept DEF Valid
  <1>2. kind \in {"readiness", "move", "cutover"}
    BY ReportsAssumption DEF ReportTypeOK
  <1>3. kind = "cutover" => answer.fields = "complete"
    BY DEF ReportTypeOK, Answers
  <1>4. CASE Check
    <2>1. CASE ~Valid
      <3>1. stage' = "ended" /\ verdict' = IF kind = "cutover" THEN "rejected" ELSE "invalid_answer"
        BY <1>4, <2>1 DEF Check, Finish
      <3>2. kind # "cutover" => answer.fields # "complete"
        BY <2>1 DEF Valid
      <3> QED  BY <1>1, <3>1, <3>2 DEF Assessed, ExitTellsAssessment
    <2>2. CASE Valid
      <3>1. stage' \in {"exit", "count_groups"} /\ verdict' = verdict /\ verdict = "none"
        BY <1>4, <2>2 DEF Check, Goto, Assessed
      <3> QED  BY <1>1, <2>2, <3>1 DEF Assessed, ExitTellsAssessment
    <2> QED  BY <2>1, <2>2
  <1>5. CASE Exit
    <2>1. stage' = "ended" /\ verdict' = ExitStatus /\ Valid
      BY <1>5 DEF Exit, Finish, Assessed
    <2>2. verdict' \in {"ok", "known_blockers", "unknown_status"}
          /\ (verdict' = "ok" <=> kind # "cutover" /\ answer.status = "no_known_blockers")
      BY <2>1 DEF ExitStatus
    <2>3. kind # "cutover" /\ answer.status = "no_known_blockers" => answer.fields = "complete"
      BY <2>1 DEF Valid, KnownStatuses
    <2> QED  BY <1>1, <2>1, <2>2, <2>3 DEF Assessed, ExitTellsAssessment
  <1>6. CASE PrintObservations
    <2>1. CASE answer.fields = "bad_refresh_time"
      <3>1. stage' = "ended" /\ verdict' = "bad_time" /\ Valid
        BY <1>6, <2>1 DEF PrintObservations, Finish, Assessed
      <3>2. answer.status \notin KnownStatuses
        BY <1>3, <2>1, <3>1 DEF Valid
      <3> QED  BY <1>1, <3>1, <3>2 DEF Assessed, ExitTellsAssessment, KnownStatuses
    <2>2. CASE answer.fields # "bad_refresh_time"
      <3>1. stage' = "steps" /\ verdict' = verdict /\ verdict = "none" /\ Valid
        BY <1>6, <2>2 DEF PrintObservations, Goto, Assessed
      <3> QED  BY <1>1, <3>1 DEF Assessed, ExitTellsAssessment
    <2> QED  BY <2>1, <2>2
  <1>7. CASE WriteFails
    <2>1. stage' = "ended" /\ verdict' = "write_failed"
      BY <1>7 DEF WriteFails, Finish
    <2> QED  BY <1>1, <2>1 DEF Assessed, ExitTellsAssessment
  <1>8. CASE \/ CountBlocker \/ GroupsCounted \/ QueuesCounted \/ PrintStatus
             \/ PrintRow \/ QueuesPrinted \/ GroupsPrinted \/ AddStep \/ PrintSteps
    <2>1. stage \notin {"check", "ended"} /\ stage' \notin {"check", "ended"} /\ verdict' = verdict
      BY <1>8 DEF CountBlocker, GroupsCounted, QueuesCounted, PrintStatus, PrintRow, QueuesPrinted,
                  GroupsPrinted, AddStep, PrintSteps, Goto, NextReason
    <2> QED  BY <1>1, <2>1 DEF Assessed, ExitTellsAssessment
  <1> QED  BY <1>4, <1>5, <1>6, <1>7, <1>8 DEF ReportNext

----------------------------------------------------------------------------
(* The rows of a table stay where they are when one is appended. *)
LEMMA RowAppended ==
    ASSUME ReportTypeOK, NEW row \in (Queues \cup {OwnGroup, AGroup})
                                    \X (Reasons \cup GroupReasons \cup {"migration", NoReason})
    PROVE  LET more == Append(rows, row) IN
           /\ Len(more) = Len(rows) + 1 /\ Len(rows) \in Nat
           /\ DOMAIN rows = 1 .. Len(rows) /\ DOMAIN more = 1 .. Len(rows) + 1
           /\ \A x \in DOMAIN rows : more[x] = rows[x]
           /\ more[Len(rows) + 1] = row
  <1> DEFINE Rows == (Queues \cup {OwnGroup, AGroup})
                     \X (Reasons \cup GroupReasons \cup {"migration", NoReason})
  <1>1. rows \in Seq(Rows) /\ row \in Rows
    BY DEF ReportTypeOK
  <1> HIDE DEF Rows
  <1> QED  BY <1>1, AppendProperties, LenProperties

(* Where a loop has ended. *)
LEMMA CursorAtEnd ==
    ASSUME NEW N, NEW R, NEW list \in Seq([name: N, reasons: Seq(R)]),
           NEW a \in Nat \ {0}, NEW n \in Nat \ {0}, Cursor(list, a, n), a > Len(list)
    PROVE  a = Len(list) + 1 /\ n = 1
  <1>1. Len(list) \in Nat
    BY LenProperties
  <1> QED  BY <1>1 DEF Cursor

(* A step from one table to another, or to the next row, leaves the counted blockers as they are. *)
LEMMA TablesAreKept ==
    ASSUME ReportTypeOK, Bookkeeping, ReportNext, stage \in Tables, stage' \in Tables, count' = count,
           ASSUME NEW G \in [1 .. AllGroups -> Nat], NEW Q \in [1 .. AllQueues -> Nat],
                  Counted(G, Q, AllGroups, AllQueues), Printed(G, Q)
           PROVE  Printed(G, Q)'
    PROVE  Bookkeeping'
  <1>1. PICK G \in [1 .. AllGroups -> Nat], Q \in [1 .. AllQueues -> Nat] :
            Counted(G, Q, AllGroups, AllQueues) /\ Printed(G, Q)
    BY DEF Bookkeeping
  <1>2. Printed(G, Q)'
    BY <1>1
  <1>3. (Counted(G, Q, AllGroups, AllQueues))'
    BY <1>1, AnswerIsKept DEF Counted
  <1>4. G \in [1 .. AllGroups' -> Nat] /\ Q \in [1 .. AllQueues' -> Nat]
    BY AnswerIsKept
  <1>5. stage' \notin {"check", "count_groups", "count_queues", "exit", "ended"}
    BY DEF Tables
  <1> QED  BY <1>2, <1>3, <1>4, <1>5 DEF Bookkeeping, Delivered

LEMMA CheckKeeps ==
    ASSUME ReportTypeOK, Bookkeeping, Check
    PROVE  Bookkeeping'
  <1>1. stage = "check" /\ rows = <<>> /\ steps = <<>> /\ rows' = <<>> /\ steps' = <<>>
    BY DEF Check, Bookkeeping
  <1>2. /\ Own' = Own /\ AllGroups' = AllGroups /\ Own \in Nat /\ AllGroups \in Nat \ {0}
        /\ answer' = answer /\ Own = Len(OwnRow)
    BY AnswerIsKept, OwnFacts, AnswerFacts DEF ReportNext
  <1>3. StepsOf(steps', rows', Len(rows') + 1, Remedied')
    BY <1>1, NoSteps
  <1>4. CASE Valid /\ ~InOneWrite
    <2>1. stage' = "count_groups" /\ at' = 1 /\ count' = Own
      BY <1>2, <1>4 DEF Check, Goto
    <2> DEFINE S == [i \in 1 .. 1 |-> 0]
    <2>2. S \in [1 .. 1 -> Nat] /\ S[1] = 0
      OBVIOUS
    <2> HIDE DEF S
    <2>3. (Counted(S, S, 1, 1))'
      BY <1>2, <2>1, <2>2 DEF Counted, Sums
    <2>4. (Counted(S, S, at, 1))' /\ at' <= AllGroups' /\ S \in [1 .. at' -> Nat]
      BY <1>2, <2>1, <2>2, <2>3 DEF Counted
    <2> QED  BY <1>1, <2>1, <2>2, <2>4 DEF Bookkeeping, Tables, Delivered
  <1>5. CASE ~(Valid /\ ~InOneWrite)
    <2>1. stage' \in {"exit", "ended"} /\ count' = 0
      BY <1>5 DEF Check, Goto, Finish
    <2>2. Len(rows') = 0
      BY <1>1
    <2> QED  BY <1>3, <2>1, <2>2 DEF Bookkeeping, Tables
  <1> QED  BY <1>4, <1>5

LEMMA CountBlockerKeeps ==
    ASSUME ReportTypeOK, Bookkeeping, CountBlocker
    PROVE  Bookkeeping'
  <1>1. /\ Own' = Own /\ AllGroups' = AllGroups /\ AllQueues' = AllQueues /\ answer' = answer
        /\ Own \in Nat
    BY AnswerIsKept, OwnFacts DEF ReportNext
  <1>2. /\ count' = count + Weight(List[at]) /\ at' = at + 1 /\ stage' = stage
        /\ rows' = rows /\ steps' = steps /\ ~(at > Len(List)) /\ at \in Nat \ {0}
    BY DEF CountBlocker, Ended, ReportTypeOK
  <1>3. CASE stage = "count_groups"
    <2>1. List = answer.groups /\ answer.groups \in Seq([name: {AGroup}, reasons: Seq(GroupReasons)])
      BY <1>3, AnswerFacts DEF List
    <2>2. at \in 1 .. Len(answer.groups) /\ Len(answer.groups) \in Nat
      BY <1>2, <2>1, LenProperties
    <2>3. PICK G \in [1 .. at -> Nat], Q \in [1 .. 1 -> Nat] : Counted(G, Q, at, 1)
      BY <1>3 DEF Bookkeeping
    <2>4. Weight(answer.groups[at]) \in Nat
      <3>1. answer.groups[at] \in [name: {AGroup}, reasons: Seq(GroupReasons)]
        BY <2>1, <2>2, ElementOfSeq
      <3> QED  BY <3>1, WeightIsPositive
    <2>5. PICK T \in [1 .. at + 1 -> Nat] :
              Sums(T, answer.groups, at + 1) /\ T[at + 1] = G[at] + Weight(answer.groups[at])
      <3>1. Sums(G, answer.groups, at) /\ G \in [1 .. at -> Nat]
        BY <2>3 DEF Counted
      <3>2. at \in Nat \ {0}
        BY <1>2
      <3>3. GoesOn(G, answer.groups, at)
        BY <2>4, <3>1, <3>2, SumsGrow
      <3> QED  BY <3>3 DEF GoesOn
    <2>6. G[at] \in Nat /\ Q[1] \in Nat /\ count = Own + G[at] + Q[1]
      BY <1>2, <2>3 DEF Counted
    <2>7. count' = Own + T[at + 1] + Q[1]
      <3>1. PICK o \in Nat, x \in Nat, y \in Nat, w \in Nat :
                o = Own /\ x = G[at] /\ y = Q[1] /\ w = Weight(answer.groups[at])
        BY <1>1, <2>4, <2>6
      <3>2. count = o + x + y /\ count' = count + w /\ T[at + 1] = x + w
        BY <1>2, <2>1, <2>5, <2>6, <3>1
      <3>3. o + x + y + w = o + (x + w) + y
        OBVIOUS
      <3> QED  BY <3>1, <3>2, <3>3
    <2>8. (Counted(T, Q, at, 1))'
      BY <1>1, <1>2, <2>3, <2>5, <2>7 DEF Counted
    <2>9. at' <= AllGroups' /\ T \in [1 .. at' -> Nat]
      BY <1>1, <1>2, <2>2, <2>5 DEF AllGroups
    <2>10. stage' = "count_groups" /\ rows' = <<>> /\ steps' = <<>>
      BY <1>2, <1>3 DEF Bookkeeping
    <2> QED  BY <2>3, <2>8, <2>9, <2>10 DEF Bookkeeping, Tables, Delivered
  <1>4. CASE stage = "count_queues"
    <2>1. List = answer.queues /\ answer.queues \in Seq([name: Queues, reasons: Seq(Reasons)])
      BY <1>4, AnswerFacts DEF List
    <2>2. at \in 1 .. Len(answer.queues) /\ Len(answer.queues) \in Nat
      BY <1>2, <2>1, LenProperties
    <2>3. PICK G \in [1 .. AllGroups -> Nat], Q \in [1 .. at -> Nat] : Counted(G, Q, AllGroups, at)
      BY <1>4 DEF Bookkeeping
    <2>4. Weight(answer.queues[at]) \in Nat
      <3>1. answer.queues[at] \in [name: Queues, reasons: Seq(Reasons)]
        BY <2>1, <2>2, ElementOfSeq
      <3> QED  BY <3>1, WeightIsPositive
    <2>5. PICK T \in [1 .. at + 1 -> Nat] :
              Sums(T, answer.queues, at + 1) /\ T[at + 1] = Q[at] + Weight(answer.queues[at])
      <3>1. Sums(Q, answer.queues, at) /\ Q \in [1 .. at -> Nat]
        BY <2>3 DEF Counted
      <3>2. at \in Nat \ {0}
        BY <1>2
      <3>3. GoesOn(Q, answer.queues, at)
        BY <2>4, <3>1, <3>2, SumsGrow
      <3> QED  BY <3>3 DEF GoesOn
    <2>6. G[AllGroups] \in Nat /\ Q[at] \in Nat /\ count = Own + G[AllGroups] + Q[at]
      <3>1. AllGroups \in Nat \ {0}
        BY AnswerFacts
      <3> QED  BY <1>2, <2>3, <3>1 DEF Counted
    <2>7. count' = Own + G[AllGroups] + T[at + 1]
      <3>1. PICK o \in Nat, x \in Nat, y \in Nat, w \in Nat :
                o = Own /\ x = Q[at] /\ y = G[AllGroups] /\ w = Weight(answer.queues[at])
        BY <1>1, <2>4, <2>6
      <3>2. count = o + y + x /\ count' = count + w /\ T[at + 1] = x + w
        BY <1>2, <2>1, <2>5, <2>6, <3>1
      <3>3. o + y + x + w = o + y + (x + w)
        OBVIOUS
      <3> QED  BY <3>1, <3>2, <3>3
    <2>8. (Counted(G, T, AllGroups, at))'
      BY <1>1, <1>2, <2>3, <2>5, <2>7 DEF Counted
    <2>9. at' <= AllQueues' /\ T \in [1 .. at' -> Nat] /\ G \in [1 .. AllGroups' -> Nat]
      BY <1>1, <1>2, <2>2, <2>3, <2>5 DEF AllQueues
    <2>10. stage' = "count_queues" /\ rows' = <<>> /\ steps' = <<>>
      BY <1>2, <1>4 DEF Bookkeeping
    <2> QED  BY <2>8, <2>9, <2>10 DEF Bookkeeping, Tables, Delivered
  <1> QED  BY <1>3, <1>4 DEF CountBlocker

LEMMA GroupsCountedKeeps ==
    ASSUME ReportTypeOK, Bookkeeping, GroupsCounted
    PROVE  Bookkeeping'
  <1>1. /\ Own' = Own /\ AllGroups' = AllGroups /\ AllQueues' = AllQueues /\ answer' = answer
        /\ AllQueues \in Nat \ {0}
    BY AnswerIsKept, AnswerFacts DEF ReportNext
  <1>2. /\ stage = "count_groups" /\ stage' = "count_queues" /\ at' = 1 /\ count' = count
        /\ rows' = <<>> /\ steps' = <<>>
    BY DEF GroupsCounted, Goto, Bookkeeping
  <1>3. at = AllGroups
    <2>1. at > Len(answer.groups) /\ at <= AllGroups /\ at \in Nat
      BY <1>2 DEF GroupsCounted, Ended, List, Bookkeeping, ReportTypeOK
    <2>2. Len(answer.groups) \in Nat
      BY AnswerFacts, LenProperties
    <2> QED  BY <2>1, <2>2 DEF AllGroups
  <1>4. PICK G \in [1 .. AllGroups -> Nat], Q \in [1 .. 1 -> Nat] : Counted(G, Q, AllGroups, 1)
    BY <1>2, <1>3 DEF Bookkeeping
  <1>5. (Counted(G, Q, AllGroups, at))' /\ G \in [1 .. AllGroups' -> Nat] /\ Q \in [1 .. at' -> Nat]
    BY <1>1, <1>2, <1>4 DEF Counted
  <1> QED  BY <1>1, <1>2, <1>5 DEF Bookkeeping, Tables, Delivered

LEMMA QueuesCountedKeeps ==
    ASSUME ReportTypeOK, Bookkeeping, QueuesCounted
    PROVE  Bookkeeping'
  <1>1. Own' = Own /\ AllGroups' = AllGroups /\ AllQueues' = AllQueues /\ answer' = answer
    BY AnswerIsKept DEF ReportNext
  <1>2. /\ stage = "count_queues" /\ stage' = "status" /\ count' = count
        /\ rows' = <<>> /\ steps' = <<>>
    BY DEF QueuesCounted, Goto, Bookkeeping
  <1>3. at = AllQueues
    <2>1. at > Len(answer.queues) /\ at <= AllQueues /\ at \in Nat
      BY <1>2 DEF QueuesCounted, Ended, List, Bookkeeping, ReportTypeOK
    <2>2. Len(answer.queues) \in Nat
      BY AnswerFacts, LenProperties
    <2> QED  BY <2>1, <2>2 DEF AllQueues
  <1>4. PICK G \in [1 .. AllGroups -> Nat], Q \in [1 .. AllQueues -> Nat] :
            Counted(G, Q, AllGroups, AllQueues)
    BY <1>2, <1>3 DEF Bookkeeping
  <1>5. /\ (Counted(G, Q, AllGroups, AllQueues))'
        /\ G \in [1 .. AllGroups' -> Nat] /\ Q \in [1 .. AllQueues' -> Nat]
    BY <1>1, <1>2, <1>4 DEF Counted
  <1>6. Printed(G, Q)'
    BY <1>2 DEF Printed
  <1> QED  BY <1>2, <1>5, <1>6 DEF Bookkeeping, Delivered

LEMMA PrintStatusKeeps ==
    ASSUME ReportTypeOK, Bookkeeping, PrintStatus
    PROVE  Bookkeeping'
  <1>1. /\ stage = "status" /\ stage' = "queue_rows" /\ at' = 1 /\ nth' = 1
        /\ rows' = OwnRow /\ steps' = steps /\ count' = count
    BY DEF PrintStatus, Goto
  <1>2. Own' = Own /\ AllQueues' = AllQueues /\ answer' = answer /\ OwnRow' = OwnRow
    BY AnswerIsKept DEF ReportNext
  <1>3. ASSUME NEW G \in [1 .. AllGroups -> Nat], NEW Q \in [1 .. AllQueues -> Nat],
               Counted(G, Q, AllGroups, AllQueues), Printed(G, Q)
        PROVE  Printed(G, Q)'
    <2>1. Cursor(answer.queues, 1, 1)
      BY AnswerFacts, CursorStarts
    <2>2. Q[1] = 0 /\ Own \in Nat /\ Len(OwnRow) = Own
      BY <1>3, OwnFacts DEF Counted, Sums
    <2>3. QueueRows(Q, at, nth)'
      <3>1. \A i \in DOMAIN answer.queues : \A l \in 1 .. Weight(answer.queues[i]) :
                ~(i < 1 \/ (i = 1 /\ l < 1))
        <4>1. DOMAIN answer.queues = 1 .. Len(answer.queues)
          BY AnswerFacts, LenProperties
        <4> QED  BY <4>1
      <3> QED  BY <1>1, <1>2, <3>1 DEF QueueRows
    <2>4. steps = <<>>
      BY <1>1, <1>3 DEF Printed
    <2> QED  BY <1>1, <1>2, <2>1, <2>2, <2>3, <2>4 DEF Printed
  <1> QED  BY <1>1, <1>3, TablesAreKept DEF Tables, ReportNext

LEMMA QueuesPrintedKeeps ==
    ASSUME ReportTypeOK, Bookkeeping, QueuesPrinted
    PROVE  Bookkeeping'
  <1>1. /\ stage = "queue_rows" /\ stage' = "group_rows" /\ at' = 1 /\ nth' = 1
        /\ UNCHANGED <<rows, steps, count>>
    BY DEF QueuesPrinted, Goto
  <1>2. Own' = Own /\ AllQueues' = AllQueues /\ answer' = answer /\ OwnRow' = OwnRow
    BY AnswerIsKept DEF ReportNext
  <1>3. ASSUME NEW G \in [1 .. AllGroups -> Nat], NEW Q \in [1 .. AllQueues -> Nat],
               Counted(G, Q, AllGroups, AllQueues), Printed(G, Q)
        PROVE  Printed(G, Q)'
    <2>1. Cursor(answer.groups, 1, 1)
      BY AnswerFacts, CursorStarts
    <2>2. at = AllQueues /\ nth = 1
      <3>1. Cursor(answer.queues, at, nth) /\ at > Len(answer.queues)
        BY <1>1, <1>3 DEF Printed, QueuesPrinted, Ended, List
      <3>2. at \in Nat \ {0} /\ nth \in Nat \ {0}
        BY DEF ReportTypeOK
      <3> QED  BY <3>1, <3>2, AnswerFacts, CursorAtEnd DEF AllQueues
    <2>3. /\ G[1] = 0 /\ Q[AllQueues] \in Nat /\ Own \in Nat
      BY <1>3, OwnFacts, AnswerFacts DEF Counted, Sums
    <2>4. Len(rows) = Own + Q[AllQueues]
      BY <1>1, <1>3, <2>2, <2>3 DEF Printed
    <2>5. QueueRows(Q, AllQueues, 1)
      BY <1>1, <1>3, <2>2 DEF Printed
    <2>6. GroupRowsAfter(Own + Q[AllQueues])
      <3>1. DOMAIN rows = 1 .. Len(rows)
        BY LenProperties DEF ReportTypeOK
      <3> QED  BY <2>3, <2>4, <3>1 DEF GroupRowsAfter
    <2>7. QueueRows(Q, AllQueues, 1)' /\ GroupRowsAfter(Own + Q[AllQueues])'
      BY <1>1, <1>2, <2>5, <2>6 DEF QueueRows, GroupRowsAfter
    <2>8. steps = <<>> /\ \A i \in DOMAIN OwnRow : i \in DOMAIN rows /\ rows[i] = OwnRow[i]
      BY <1>1, <1>3 DEF Printed
    <2>9. Len(rows) = Own + Q[AllQueues] + G[1] + 1 - 1
      BY <2>3, <2>4
    <2> QED  BY <1>1, <1>2, <2>1, <2>7, <2>8, <2>9 DEF Printed
  <1> QED  BY <1>1, <1>3, TablesAreKept DEF Tables, ReportNext

LEMMA GroupsPrintedKeeps ==
    ASSUME ReportTypeOK, Bookkeeping, GroupsPrinted
    PROVE  Bookkeeping'
  <1>1. /\ stage = "group_rows" /\ stage' = "observations"
        /\ UNCHANGED <<rows, steps, count>>
    BY DEF GroupsPrinted, Goto
  <1>2. Own' = Own /\ AllQueues' = AllQueues /\ answer' = answer /\ OwnRow' = OwnRow
    BY AnswerIsKept DEF ReportNext
  <1>3. ASSUME NEW G \in [1 .. AllGroups -> Nat], NEW Q \in [1 .. AllQueues -> Nat],
               Counted(G, Q, AllGroups, AllQueues), Printed(G, Q)
        PROVE  Printed(G, Q)'
    <2>1. at = AllGroups /\ nth = 1
      <3>1. Cursor(answer.groups, at, nth) /\ at > Len(answer.groups)
        BY <1>1, <1>3 DEF Printed, GroupsPrinted, Ended, List
      <3>2. at \in Nat \ {0} /\ nth \in Nat \ {0}
        BY DEF ReportTypeOK
      <3> QED  BY <3>1, <3>2, AnswerFacts, CursorAtEnd DEF AllGroups
    <2>2. G[AllGroups] \in Nat /\ Q[AllQueues] \in Nat /\ Own \in Nat
      BY OwnFacts, AnswerFacts
    <2>3. Len(rows) = Own + Q[AllQueues] + G[AllGroups] + 1 - 1
      BY <1>1, <1>3, <2>1 DEF Printed
    <2>4. Len(rows) = count
      BY <1>3, <2>2, <2>3 DEF Counted
    <2>5. /\ steps = <<>> /\ \A i \in DOMAIN OwnRow : i \in DOMAIN rows /\ rows[i] = OwnRow[i]
          /\ QueueRows(Q, AllQueues, 1) /\ GroupRowsAfter(Own + Q[AllQueues])
      BY <1>1, <1>3 DEF Printed
    <2>6. QueueRows(Q, AllQueues, 1)' /\ GroupRowsAfter(Own + Q[AllQueues])'
      BY <1>1, <1>2, <2>5 DEF QueueRows, GroupRowsAfter
    <2> QED  BY <1>1, <1>2, <2>4, <2>5, <2>6 DEF Printed
  <1> QED  BY <1>1, <1>3, TablesAreKept DEF Tables, ReportNext

LEMMA QueueRowKeeps ==
    ASSUME ReportTypeOK, Bookkeeping, PrintRow, stage = "queue_rows"
    PROVE  Bookkeeping'
  <1>1. stage' = stage /\ rows' = Append(rows, Row) /\ UNCHANGED <<steps, count>> /\ ~Ended
    BY DEF PrintRow, NextReason
  <1>2. Own' = Own /\ AllQueues' = AllQueues /\ answer' = answer /\ OwnRow' = OwnRow /\ Own \in Nat
    BY AnswerIsKept, OwnFacts DEF ReportNext
  <1>3. /\ List = answer.queues /\ at \in DOMAIN answer.queues /\ at < AllQueues
        /\ nth \in 1 .. Weight(answer.queues[at])
        /\ Row = Cell(answer.queues[at], nth)
        /\ Row \in Queues \X (Reasons \cup {NoReason})
    BY <1>1, LoopsHaveCursors, QueueRow
  <1>4. /\ Len(rows') = Len(rows) + 1 /\ Len(rows) \in Nat
        /\ DOMAIN rows = 1 .. Len(rows) /\ DOMAIN rows' = 1 .. Len(rows) + 1
        /\ \A x \in DOMAIN rows : rows'[x] = rows[x]
        /\ rows'[Len(rows) + 1] = Row
    BY <1>1, <1>3, RowAppended
  <1>5. ASSUME NEW G \in [1 .. AllGroups -> Nat], NEW Q \in [1 .. AllQueues -> Nat],
               Counted(G, Q, AllGroups, AllQueues), Printed(G, Q)
        PROVE  Printed(G, Q)'
    <2>1. /\ Cursor(answer.queues, at, nth) /\ QueueRows(Q, at, nth)
          /\ Len(rows) = Own + Q[at] + nth - 1
          /\ steps = <<>> /\ \A i \in DOMAIN OwnRow : i \in DOMAIN rows /\ rows[i] = OwnRow[i]
      BY <1>5 DEF Printed
    <2>2. /\ at' \in Nat \ {0} /\ nth' \in Nat \ {0} /\ Cursor(answer.queues, at', nth')
          /\ Q[at'] + nth' = Q[at] + nth + 1
          /\ \A i \in DOMAIN answer.queues : \A l \in 1 .. Weight(answer.queues[i]) :
                i < at' \/ (i = at' /\ l < nth') <=> i < at \/ (i = at /\ l < nth) \/ (i = at /\ l = nth)
      <3>1. /\ answer.queues \in Seq([name: Queues, reasons: Seq(Reasons)])
            /\ at \in Nat \ {0} /\ nth \in Nat \ {0} /\ at <= Len(answer.queues)
        BY <1>3, AnswerFacts, LenProperties DEF ReportTypeOK
      <3>2. Sums(Q, answer.queues, AllQueues) /\ AllQueues = Len(answer.queues) + 1
        BY <1>5 DEF Counted, AllQueues
      <3>3. NextRow(answer.queues, at, nth, at', nth')
        BY <1>3 DEF PrintRow, NextReason, NextRow
      <3>4. RowFollows(answer.queues, Q, at, nth, at', nth')
        BY <2>1, <3>1, <3>2, <3>3, CursorMoves
      <3> QED  BY <3>4 DEF RowFollows
    <2>3. Q[at] \in Nat /\ nth \in Nat /\ at \in Nat /\ at' \in 1 .. AllQueues /\ Q[at'] \in Nat
      <3>1. at \in Nat \ {0} /\ nth \in Nat \ {0} /\ AllQueues \in Nat
        BY AnswerFacts DEF ReportTypeOK
      <3>2. at' <= AllQueues
        BY <2>2 DEF Cursor, AllQueues
      <3>3. at' \in 1 .. AllQueues /\ at \in 1 .. AllQueues
        BY <1>3, <2>2, <3>1, <3>2
      <3> QED  BY <3>1, <3>3
    <2>4. Len(rows) + 1 = Own + Q[at] + nth
      <3>1. PICK o \in Nat, r \in Nat, n \in Nat : o = Own /\ r = Q[at] /\ n = nth
        BY <1>2, <2>3
      <3>2. Len(rows) = o + r + n - 1
        BY <2>1, <3>1
      <3>3. Len(rows) + 1 = o + r + n
        BY <3>2
      <3> QED  BY <3>1, <3>3
    <2>5. QueueRows(Q, at, nth)'
      <3> SUFFICES ASSUME NEW i \in DOMAIN answer.queues, NEW l \in 1 .. Weight(answer.queues[i]),
                          i < at \/ (i = at /\ l < nth) \/ (i = at /\ l = nth)
                   PROVE  /\ Own + Q[i] + l \in DOMAIN rows'
                          /\ rows'[Own + Q[i] + l] = Cell(answer.queues[i], l)
        BY <1>2, <2>2 DEF QueueRows
      <3>1. CASE i = at /\ l = nth
        BY <1>3, <1>4, <2>4, <3>1
      <3>2. CASE i < at \/ (i = at /\ l < nth)
        BY <1>4, <2>1, <3>2 DEF QueueRows
      <3> QED  BY <3>1, <3>2
    <2>6. Len(rows') = Own + Q[at'] + nth' - 1
      <3>1. nth' \in Nat /\ Own \in Nat /\ Q[at'] + nth' = Q[at] + nth + 1
        BY <1>2, <2>2
      <3>2. Len(rows') = Len(rows) + 1 /\ Len(rows) \in Nat /\ Len(rows) + 1 = Own + Q[at] + nth
        BY <1>4, <2>4
      <3>3. PICK l \in Nat, o \in Nat, r \in Nat, n \in Nat, s \in Nat, m \in Nat :
                l = Len(rows) /\ o = Own /\ r = Q[at] /\ n = nth /\ s = Q[at'] /\ m = nth'
        BY <2>3, <3>1, <3>2
      <3>4. l + 1 = o + r + n /\ s + m = r + n + 1
        BY <3>1, <3>2, <3>3
      <3>5. l + 1 = o + s + m - 1
        BY <3>4
      <3> QED  BY <3>2, <3>3, <3>5
    <2>7. \A i \in DOMAIN OwnRow : i \in DOMAIN rows' /\ rows'[i] = OwnRow[i]
      BY <1>4, <2>1
    <2> QED  BY <1>1, <1>2, <2>1, <2>2, <2>5, <2>6, <2>7 DEF Printed
  <1> QED  BY <1>1, <1>5, TablesAreKept DEF Tables, ReportNext

LEMMA GroupRowKeeps ==
    ASSUME ReportTypeOK, Bookkeeping, PrintRow, stage = "group_rows"
    PROVE  Bookkeeping'
  <1>1. stage' = stage /\ rows' = Append(rows, Row) /\ UNCHANGED <<steps, count>> /\ ~Ended
    BY DEF PrintRow, NextReason
  <1>2. Own' = Own /\ AllQueues' = AllQueues /\ answer' = answer /\ OwnRow' = OwnRow /\ Own \in Nat
    BY AnswerIsKept, OwnFacts DEF ReportNext
  <1>3. /\ List = answer.groups /\ at \in DOMAIN answer.groups /\ at < AllGroups
        /\ Row \in {AGroup} \X (GroupReasons \cup {NoReason})
    BY <1>1, LoopsHaveCursors, GroupRow
  <1>4. /\ Len(rows') = Len(rows) + 1 /\ Len(rows) \in Nat
        /\ DOMAIN rows = 1 .. Len(rows) /\ DOMAIN rows' = 1 .. Len(rows) + 1
        /\ \A x \in DOMAIN rows : rows'[x] = rows[x]
        /\ rows'[Len(rows) + 1] = Row
    BY <1>1, <1>3, RowAppended
  <1>5. ASSUME NEW G \in [1 .. AllGroups -> Nat], NEW Q \in [1 .. AllQueues -> Nat],
               Counted(G, Q, AllGroups, AllQueues), Printed(G, Q)
        PROVE  Printed(G, Q)'
    <2>1. /\ Cursor(answer.groups, at, nth) /\ Len(rows) = Own + Q[AllQueues] + G[at] + nth - 1
          /\ QueueRows(Q, AllQueues, 1) /\ GroupRowsAfter(Own + Q[AllQueues])
          /\ steps = <<>> /\ \A i \in DOMAIN OwnRow : i \in DOMAIN rows /\ rows[i] = OwnRow[i]
      BY <1>5 DEF Printed
    <2>2. /\ at' \in Nat \ {0} /\ nth' \in Nat \ {0} /\ Cursor(answer.groups, at', nth')
          /\ G[at'] + nth' = G[at] + nth + 1
      <3>1. /\ answer.groups \in Seq([name: {AGroup}, reasons: Seq(GroupReasons)])
            /\ at \in Nat \ {0} /\ nth \in Nat \ {0} /\ at <= Len(answer.groups)
        BY <1>3, AnswerFacts, LenProperties DEF ReportTypeOK
      <3>2. Sums(G, answer.groups, AllGroups) /\ AllGroups = Len(answer.groups) + 1
        BY <1>5 DEF Counted, AllGroups
      <3>3. NextRow(answer.groups, at, nth, at', nth')
        BY <1>3 DEF PrintRow, NextReason, NextRow
      <3>4. RowFollows(answer.groups, G, at, nth, at', nth')
        BY <2>1, <3>1, <3>2, <3>3, CursorMoves
      <3> QED  BY <3>4 DEF RowFollows
    <2>3. G[at] \in Nat /\ nth \in Nat /\ G[at'] \in Nat /\ Q[AllQueues] \in Nat
      <3>1. at \in Nat \ {0} /\ nth \in Nat \ {0} /\ AllGroups \in Nat /\ AllQueues \in 1 .. AllQueues
        BY AnswerFacts DEF ReportTypeOK
      <3>2. at' <= AllGroups
        BY <2>2 DEF Cursor, AllGroups
      <3>3. at' \in 1 .. AllGroups /\ at \in 1 .. AllGroups
        BY <1>3, <2>2, <3>1, <3>2
      <3> QED  BY <3>1, <3>3
    <2>4. Len(rows') = Own + Q[AllQueues] + G[at'] + nth' - 1
      <3>1. nth' \in Nat /\ Own \in Nat /\ G[at'] + nth' = G[at] + nth + 1
        BY <1>2, <2>2
      <3>2. Len(rows') = Len(rows) + 1 /\ Len(rows) \in Nat /\ Len(rows) = Own + Q[AllQueues] + G[at] + nth - 1
        BY <1>4, <2>1
      <3>3. PICK l \in Nat, o \in Nat, q \in Nat, r \in Nat, n \in Nat, s \in Nat, m \in Nat :
                /\ l = Len(rows) /\ o = Own /\ q = Q[AllQueues]
                /\ r = G[at] /\ n = nth /\ s = G[at'] /\ m = nth'
        BY <2>3, <3>1, <3>2
      <3>4. l = o + q + r + n - 1 /\ s + m = r + n + 1
        BY <3>1, <3>2, <3>3
      <3>5. l + 1 = o + q + s + m - 1
        BY <3>4
      <3> QED  BY <3>2, <3>3, <3>5
    <2>5. QueueRows(Q, AllQueues, 1)'
      BY <1>2, <1>4, <2>1 DEF QueueRows
    <2>6. GroupRowsAfter(Own + Q[AllQueues])'
      <3>1. Row[1] = AGroup
        BY <1>3
      <3>2. \A x \in DOMAIN rows' : x > Own + Q[AllQueues] => rows'[x][1] = AGroup
        <4> SUFFICES ASSUME NEW x \in DOMAIN rows', x > Own + Q[AllQueues] PROVE rows'[x][1] = AGroup
          OBVIOUS
        <4>1. x \in DOMAIN rows \/ x = Len(rows) + 1
          BY <1>4
        <4> QED  BY <1>4, <2>1, <3>1, <4>1 DEF GroupRowsAfter
      <3> QED  BY <1>2, <3>2 DEF GroupRowsAfter
    <2>7. \A i \in DOMAIN OwnRow : i \in DOMAIN rows' /\ rows'[i] = OwnRow[i]
      BY <1>4, <2>1
    <2> QED  BY <1>1, <1>2, <2>1, <2>2, <2>4, <2>5, <2>6, <2>7 DEF Printed
  <1> QED  BY <1>1, <1>5, TablesAreKept DEF Tables, ReportNext

(* The steps begin with that of the group itself. *)
LEMMA OwnStep ==
    ASSUME ReportTypeOK, NEW U, NEW table \in Seq(U),
           \A i \in DOMAIN OwnRow : i \in DOMAIN table /\ table[i] = OwnRow[i]
    PROVE  StepsOf(OwnRow, table, Own + 1, Remedied)
  <1>1. Own \in 0 .. 1 /\ DOMAIN OwnRow = 1 .. Own /\ DOMAIN table = 1 .. Len(table)
        /\ \A i \in DOMAIN OwnRow : OwnRow[i] = <<OwnGroup, "migration">>
    BY OwnFacts, LenProperties
  <1>2. <<OwnGroup, "migration">> \in Remedied
    BY DEF Remedied, HasRemedy
  <1>3. \A i \in DOMAIN OwnRow : OwnRow[i] \in Remedied /\ \E x \in DOMAIN table : x < Own + 1 /\ table[x] = OwnRow[i]
    <2> SUFFICES ASSUME NEW i \in DOMAIN OwnRow
                 PROVE  OwnRow[i] \in Remedied /\ \E x \in DOMAIN table : x < Own + 1 /\ table[x] = OwnRow[i]
      OBVIOUS
    <2>1. i \in DOMAIN table /\ i < Own + 1 /\ table[i] = OwnRow[i] /\ OwnRow[i] = <<OwnGroup, "migration">>
      BY <1>1
    <2> QED  BY <1>2, <2>1
  <1>4. \A x \in DOMAIN table : x < Own + 1 => x \in DOMAIN OwnRow
    BY <1>1
  <1>5. \A i, j \in DOMAIN OwnRow : ~(i < j)
    BY <1>1
  <1> QED  BY <1>3, <1>4, <1>5 DEF StepsOf

LEMMA PrintObservationsKeeps ==
    ASSUME ReportTypeOK, Bookkeeping, PrintObservations
    PROVE  Bookkeeping'
  <1>1. /\ stage = "observations" /\ UNCHANGED <<rows, count>>
    BY DEF PrintObservations
  <1>2. Own' = Own /\ AllQueues' = AllQueues /\ answer' = answer /\ OwnRow' = OwnRow /\ Remedied' = Remedied
    BY AnswerIsKept DEF ReportNext
  <1>3. CASE answer.fields = "bad_refresh_time"
    <2>1. stage' = "ended" /\ verdict' = "bad_time"
      BY <1>3 DEF PrintObservations, Finish
    <2> QED  BY <2>1 DEF Bookkeeping, Tables, Delivered
  <1>4. CASE answer.fields # "bad_refresh_time"
    <2>1. stage' = "steps" /\ at' = 1 /\ nth' = 1 /\ steps' = OwnRow
      BY <1>4 DEF PrintObservations, Goto
    <2>2. ASSUME NEW G \in [1 .. AllGroups -> Nat], NEW Q \in [1 .. AllQueues -> Nat],
                 Counted(G, Q, AllGroups, AllQueues), Printed(G, Q)
          PROVE  Printed(G, Q)'
      <3>1. Cursor(answer.queues, 1, 1)
        BY AnswerFacts, CursorStarts
      <3>2. Q[1] = 0 /\ Own \in Nat
        BY <2>2, OwnFacts DEF Counted, Sums
      <3>3. /\ QueueRows(Q, AllQueues, 1) /\ GroupRowsAfter(Own + Q[AllQueues]) /\ Len(rows) = count
            /\ \A i \in DOMAIN OwnRow : i \in DOMAIN rows /\ rows[i] = OwnRow[i]
        BY <1>1, <2>2 DEF Printed
      <3>4. QueueRows(Q, AllQueues, 1)' /\ GroupRowsAfter(Own + Q[AllQueues])'
        BY <1>1, <1>2, <3>3 DEF QueueRows, GroupRowsAfter
      <3>5. StepsOf(OwnRow, rows, Own + 1, Remedied)
        BY <3>3, OwnStep DEF ReportTypeOK
      <3>6. Own + Q[1] + 1 = Own + 1
        BY <3>2
      <3>7. StepsOf(steps', rows', Own' + Q[at'] + nth', Remedied')
        BY <1>1, <1>2, <2>1, <3>5, <3>6
      <3> QED  BY <1>1, <1>2, <2>1, <3>1, <3>3, <3>4, <3>7 DEF Printed
    <2> QED  BY <1>1, <2>1, <2>2, TablesAreKept DEF Tables, ReportNext
  <1> QED  BY <1>3, <1>4

LEMMA AddStepKeeps ==
    ASSUME ReportTypeOK, Bookkeeping, AddStep
    PROVE  Bookkeeping'
  <1>1. stage = "steps" /\ stage' = stage /\ UNCHANGED <<rows, count>> /\ ~Ended
        /\ steps' = IF HasRemedy(Row) THEN AppendNew(steps, Row) ELSE steps
    BY DEF AddStep, NextReason
  <1>2. Own' = Own /\ AllQueues' = AllQueues /\ answer' = answer /\ OwnRow' = OwnRow
        /\ Remedied' = Remedied /\ Own \in Nat
    BY AnswerIsKept, OwnFacts DEF ReportNext
  <1>3. /\ List = answer.queues /\ at \in DOMAIN answer.queues /\ at < AllQueues
        /\ nth \in 1 .. Weight(answer.queues[at])
        /\ Row = Cell(answer.queues[at], nth)
        /\ Row \in Queues \X (Reasons \cup {NoReason})
    BY <1>1, LoopsHaveCursors, QueueRow
  <1>4. HasRemedy(Row) <=> Row \in Remedied
    BY <1>3, RemediedRows
  <1>5. ASSUME NEW G \in [1 .. AllGroups -> Nat], NEW Q \in [1 .. AllQueues -> Nat],
               Counted(G, Q, AllGroups, AllQueues), Printed(G, Q)
        PROVE  Printed(G, Q)'
    <2>1. /\ QueueRows(Q, AllQueues, 1) /\ GroupRowsAfter(Own + Q[AllQueues]) /\ Len(rows) = count
          /\ \A i \in DOMAIN OwnRow : i \in DOMAIN rows /\ rows[i] = OwnRow[i]
          /\ Cursor(answer.queues, at, nth) /\ StepsOf(steps, rows, Own + Q[at] + nth, Remedied)
      BY <1>1, <1>5 DEF Printed
    <2> DEFINE p == Own + Q[at] + nth
    <2>2. p \in DOMAIN rows /\ rows[p] = Row
      BY <1>3, <2>1 DEF QueueRows
    <2>3. RowFollows(answer.queues, Q, at, nth, at', nth')
      <3>1. /\ answer.queues \in Seq([name: Queues, reasons: Seq(Reasons)])
            /\ at \in Nat \ {0} /\ nth \in Nat \ {0} /\ at <= Len(answer.queues)
        BY <1>3, AnswerFacts, LenProperties DEF ReportTypeOK
      <3>2. Sums(Q, answer.queues, AllQueues) /\ AllQueues = Len(answer.queues) + 1
        BY <1>5 DEF Counted, AllQueues
      <3>3. NextRow(answer.queues, at, nth, at', nth')
        BY <1>3 DEF AddStep, NextReason, NextRow
      <3> QED  BY <2>1, <3>1, <3>2, <3>3, CursorMoves
    <2>4. Q[at] \in Nat /\ Q[at'] \in Nat /\ nth \in Nat /\ nth' \in Nat
          /\ Q[at'] + nth' = Q[at] + nth + 1 /\ Cursor(answer.queues, at', nth')
      <3>1. at \in Nat \ {0} /\ nth \in Nat \ {0} /\ AllQueues \in Nat
        BY AnswerFacts DEF ReportTypeOK
      <3>2. at' <= AllQueues /\ at' \in Nat \ {0} /\ nth' \in Nat \ {0}
            /\ Q[at'] + nth' = Q[at] + nth + 1 /\ Cursor(answer.queues, at', nth')
        BY <2>3 DEF RowFollows, Cursor, AllQueues
      <3>3. at' \in 1 .. AllQueues /\ at \in 1 .. AllQueues
        BY <1>3, <3>1, <3>2
      <3> QED  BY <3>1, <3>2, <3>3
    <2>5. Own + Q[at'] + nth' = p + 1
      <3>1. PICK o \in Nat, r \in Nat, n \in Nat, s \in Nat, m \in Nat :
                o = Own /\ r = Q[at] /\ n = nth /\ s = Q[at'] /\ m = nth'
        BY <1>2, <2>4
      <3>2. s + m = r + n + 1 /\ p = o + r + n
        BY <2>4, <3>1
      <3>3. o + s + m = p + 1
        BY <3>2
      <3> QED  BY <3>1, <3>3
    <2> HIDE DEF p
    <2>6. StepsOf(steps', rows, p + 1, Remedied)
      <3>1. steps' = IF rows[p] \in Remedied THEN AppendNew(steps, rows[p]) ELSE steps
        BY <1>1, <1>4, <2>2
      <3>2. StepsOf(steps, rows, p, Remedied)
        BY <2>1 DEF p
      <3>3. /\ steps \in Seq((Queues \cup {OwnGroup}) \X (Reasons \cup {"migration"}))
            /\ rows \in Seq((Queues \cup {OwnGroup, AGroup})
                             \X (Reasons \cup GroupReasons \cup {"migration", NoReason}))
        BY DEF ReportTypeOK
      <3>4. StepsOf(IF rows[p] \in Remedied THEN AppendNew(steps, rows[p]) ELSE steps, rows, p + 1, Remedied)
        BY <2>2, <3>2, <3>3, StepTaken
      <3> QED  BY <3>1, <3>4
    <2>7. QueueRows(Q, AllQueues, 1)' /\ GroupRowsAfter(Own + Q[AllQueues])'
      BY <1>1, <1>2, <2>1 DEF QueueRows, GroupRowsAfter
    <2> QED  BY <1>1, <1>2, <2>1, <2>4, <2>5, <2>6, <2>7 DEF Printed
  <1> QED  BY <1>1, <1>5, TablesAreKept DEF Tables, ReportNext

LEMMA PrintStepsKeeps ==
    ASSUME ReportTypeOK, Bookkeeping, PrintSteps
    PROVE  Bookkeeping'
  <1>1. stage = "steps" /\ stage' = "exit" /\ UNCHANGED <<rows, steps, count>> /\ Ended
    BY DEF PrintSteps, Goto
  <1>2. Remedied' = Remedied
    BY AnswerIsKept DEF ReportNext
  <1>3. PICK G \in [1 .. AllGroups -> Nat], Q \in [1 .. AllQueues -> Nat] :
            Counted(G, Q, AllGroups, AllQueues) /\ Printed(G, Q)
    BY <1>1 DEF Bookkeeping, Tables
  <1>4. /\ GroupRowsAfter(Own + Q[AllQueues]) /\ Len(rows) = count
        /\ Cursor(answer.queues, at, nth) /\ StepsOf(steps, rows, Own + Q[at] + nth, Remedied)
    BY <1>1, <1>3 DEF Printed
  <1>5. at = AllQueues /\ nth = 1
    <2>1. at > Len(answer.queues)
      BY <1>1 DEF Ended, List
    <2>2. at \in Nat \ {0} /\ nth \in Nat \ {0}
      BY DEF ReportTypeOK
    <2> QED  BY <1>4, <2>1, <2>2, AnswerFacts, CursorAtEnd DEF AllQueues
  <1>6. StepsOf(steps, rows, Len(rows) + 1, Remedied)
    <2> DEFINE T == (Queues \cup {OwnGroup, AGroup}) \X (Reasons \cup GroupReasons \cup {"migration", NoReason})
               p == Own + Q[AllQueues] + 1
    <2>1. /\ G[AllGroups] \in Nat /\ Q[AllQueues] \in Nat /\ Own \in Nat
          /\ Len(rows) = Own + G[AllGroups] + Q[AllQueues]
      BY <1>3, <1>4, OwnFacts, AnswerFacts DEF Counted
    <2>2. p \in Nat /\ Len(rows) + 1 \in Nat /\ p <= Len(rows) + 1
      <3>1. PICK o \in Nat, g \in Nat, q \in Nat : o = Own /\ g = G[AllGroups] /\ q = Q[AllQueues]
        BY <2>1
      <3>2. Len(rows) = o + g + q /\ p = o + q + 1
        BY <2>1, <3>1
      <3>3. o + q + 1 \in Nat /\ o + g + q + 1 \in Nat /\ o + q + 1 <= o + g + q + 1
        OBVIOUS
      <3> QED  BY <3>2, <3>3
    <2>3. rows \in Seq(T)
      BY DEF ReportTypeOK
    <2>4. \A x \in DOMAIN rows : x >= p => rows[x] \notin Remedied
      <3> SUFFICES ASSUME NEW x \in DOMAIN rows, x >= p PROVE rows[x] \notin Remedied
        OBVIOUS
      <3>1. x \in 1 .. Len(rows) /\ rows[x] \in T
        BY <2>3, LenProperties, ElementOfSeq
      <3>2. x > Own + Q[AllQueues]
        BY <2>1, <3>1
      <3>3. rows[x][1] = AGroup
        BY <1>4, <3>2 DEF GroupRowsAfter
      <3> QED  BY <3>1, <3>3, RemediedRows
    <2>5. StepsOf(steps, rows, p, Remedied)
      BY <1>4, <1>5
    <2> HIDE DEF T, p
    <2> QED  BY <2>2, <2>3, <2>4, <2>5, StepsDone
  <1>7. count' = Len(rows') /\ StepsOf(steps', rows', Len(rows') + 1, Remedied')
    BY <1>1, <1>2, <1>4, <1>6
  <1> QED  BY <1>1, <1>7 DEF Bookkeeping, Tables

LEMMA EndKeeps ==
    ASSUME ReportTypeOK, Bookkeeping, Assessed, Exit \/ WriteFails
    PROVE  Bookkeeping'
  <1>1. UNCHANGED <<rows, steps, count>> /\ stage' = "ended" /\ Remedied' = Remedied
    BY AnswerIsKept DEF ReportNext, Exit, WriteFails, Finish
  <1>2. CASE Exit
    <2>1. stage = "exit" /\ verdict = "none"
      BY <1>2 DEF Exit, Assessed
    <2>2. StepsOf(steps, rows, Len(rows) + 1, Remedied)
      BY <2>1 DEF Bookkeeping, Delivered
    <2>3. StepsOf(steps', rows', Len(rows') + 1, Remedied')
      BY <1>1, <2>2
    <2> QED  BY <1>1, <2>3 DEF Bookkeeping, Tables
  <1>3. CASE WriteFails
    <2>1. verdict' = "write_failed"
      BY <1>3 DEF WriteFails, Finish
    <2> QED  BY <1>1, <2>1 DEF Bookkeeping, Tables, Delivered
  <1> QED  BY <1>2, <1>3

LEMMA ReportStutters ==
    ASSUME ReportIInv, UNCHANGED reportVars
    PROVE  ReportIInv'
  <1>1. UNCHANGED <<kind, json, answer, stage, at, nth, count, rows, steps, verdict>>
    BY DEF reportVars
  <1>2. ReportTypeOK'
    BY <1>1 DEF ReportIInv, ReportTypeOK
  <1>3. Assessed' /\ ExitTellsAssessment'
    BY <1>1 DEF ReportIInv, Assessed, ExitTellsAssessment, Valid
  <1>4. Bookkeeping'
    <2>1. /\ Own' = Own /\ OwnRow' = OwnRow /\ AllGroups' = AllGroups /\ AllQueues' = AllQueues
          /\ Remedied' = Remedied
      BY AnswerIsKept DEF reportVars
    <2> QED  BY <1>1, <2>1
             DEF ReportIInv, Bookkeeping, Counted, Printed, QueueRows, GroupRowsAfter, Delivered
  <1> QED  BY <1>2, <1>3, <1>4 DEF ReportIInv

LEMMA ReportIInvIsKept ==
    ASSUME ReportIInv, ReportNext
    PROVE  ReportIInv'
  <1>1. ReportTypeOK /\ Bookkeeping /\ Assessed /\ ExitTellsAssessment
    BY DEF ReportIInv
  <1>2. ReportTypeOK'
    BY <1>1, ReportTypeIsKept
  <1>3. Assessed' /\ ExitTellsAssessment'
    BY <1>1, AssessmentIsKept
  <1>4. Bookkeeping'
    <2>1. CASE Check
      BY <1>1, <2>1, CheckKeeps
    <2>2. CASE CountBlocker
      BY <1>1, <2>2, CountBlockerKeeps
    <2>3. CASE GroupsCounted
      BY <1>1, <2>3, GroupsCountedKeeps
    <2>4. CASE QueuesCounted
      BY <1>1, <2>4, QueuesCountedKeeps
    <2>5. CASE PrintStatus
      BY <1>1, <2>5, PrintStatusKeeps
    <2>6. CASE PrintRow
      <3>1. stage = "queue_rows" \/ stage = "group_rows"
        BY <2>6 DEF PrintRow
      <3> QED  BY <1>1, <2>6, <3>1, QueueRowKeeps, GroupRowKeeps
    <2>7. CASE QueuesPrinted
      BY <1>1, <2>7, QueuesPrintedKeeps
    <2>8. CASE GroupsPrinted
      BY <1>1, <2>8, GroupsPrintedKeeps
    <2>9. CASE PrintObservations
      BY <1>1, <2>9, PrintObservationsKeeps
    <2>10. CASE AddStep
      BY <1>1, <2>10, AddStepKeeps
    <2>11. CASE PrintSteps
      BY <1>1, <2>11, PrintStepsKeeps
    <2>12. CASE Exit \/ WriteFails
      BY <1>1, <2>12, EndKeeps
    <2> QED  BY <2>1, <2>2, <2>3, <2>4, <2>5, <2>6, <2>7, <2>8, <2>9, <2>10, <2>11, <2>12 DEF ReportNext
  <1> QED  BY <1>1, <1>2, <1>3, <1>4 DEF ReportIInv

(* From any answer of the service, the loops that count, print and advise keep the books that  *)
(* relate them: every stage of the report has the rows and the steps of the blockers it passed. *)
THEOREM ReportInductive == ReportSpec => []ReportIInv
  <1>1. ReportIInv /\ [ReportNext]_reportVars => ReportIInv'
    BY ReportIInvIsKept, ReportStutters
  <1> QED  BY ReportInitEstablishes, <1>1, PTL DEF ReportSpec

(* The variables have their types in every state of a report. *)
THEOREM ReportTypeCorrect == ReportSpec => []ReportTypeOK
  <1>1. ReportIInv => ReportTypeOK
    BY DEF ReportIInv
  <1> QED  BY ReportInductive, <1>1, PTL

LEMMA BooksAgree ==
    ASSUME ReportTypeOK, Bookkeeping
    PROVE  ReportAgreesWithItself
  <1>1. CountIsRows
    <2>1. stage \in {"observations", "steps"} => Len(rows) = count
      BY DEF Bookkeeping, Tables, Printed
    <2> QED  BY <2>1 DEF Bookkeeping, CountIsRows
  <1>2. StepsFollowRows
    <2> SUFFICES ASSUME Delivered
                 PROVE  /\ { steps[i] : i \in DOMAIN steps }
                              = { rows[x] : x \in { y \in DOMAIN rows : HasRemedy(rows[y]) } }
                        /\ \A i, j \in DOMAIN steps : i < j =>
                              \E x \in DOMAIN rows :
                                  rows[x] = steps[i] /\ \A y \in DOMAIN rows : rows[y] = steps[j] => x < y
      BY DEF StepsFollowRows
    <2>1. StepsOf(steps, rows, Len(rows) + 1, Remedied)
      BY DEF Bookkeeping
    <2>2. \A x \in DOMAIN rows : x < Len(rows) + 1 /\ (HasRemedy(rows[x]) <=> rows[x] \in Remedied)
      <3> DEFINE T == (Queues \cup {OwnGroup, AGroup}) \X (Reasons \cup GroupReasons \cup {"migration", NoReason})
      <3>1. rows \in Seq(T)
        BY DEF ReportTypeOK
      <3>2. \A x \in DOMAIN rows : rows[x] \in T /\ x \in 1 .. Len(rows) /\ Len(rows) \in Nat
        BY <3>1, ElementOfSeq, LenProperties
      <3>3. \A x \in DOMAIN rows : HasRemedy(rows[x]) <=> rows[x] \in Remedied
        BY <3>2, RemediedRows
      <3> QED  BY <3>2, <3>3
    <2>3. ASSUME NEW i \in DOMAIN steps
          PROVE  \E x \in DOMAIN rows : HasRemedy(rows[x]) /\ rows[x] = steps[i]
      BY <2>1, <2>2 DEF StepsOf
    <2>4. ASSUME NEW x \in DOMAIN rows, HasRemedy(rows[x])
          PROVE  \E i \in DOMAIN steps : steps[i] = rows[x]
      BY <2>1, <2>2, <2>4 DEF StepsOf
    <2> QED  BY <2>1, <2>3, <2>4 DEF StepsOf
  <1> QED  BY <1>1, <1>2 DEF ReportAgreesWithItself

(* Whatever the service answers, the number of conditions is that of the rows, and the next    *)
(* steps of a report that is delivered are those of its rows, each once and in their order.    *)
THEOREM ReportAgrees == ReportSpec => []ReportAgreesWithItself
  <1>1. ReportIInv => ReportAgreesWithItself
    BY BooksAgree DEF ReportIInv
  <1> QED  BY ReportInductive, <1>1, PTL

(* Whatever the service answers, exit status 0 is that of a known, complete, unblocked        *)
(* assessment printed in full, and only an unknown status can fail in the middle of a report. *)
THEOREM ExitTells == ReportSpec => []ExitTellsAssessment
  <1>1. ReportIInv => ExitTellsAssessment
    BY DEF ReportIInv
  <1> QED  BY ReportInductive, <1>1, PTL
=============================================================================
