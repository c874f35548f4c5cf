------------------------------ MODULE Polling ------------------------------
(***************************************************************************)
(* The retry loops of `queue metrics` and `pipeline readiness`: one        *)
(* command polls an observation that the service is still preparing,       *)
(* waits as long as each answer asks for, and gives up after a window of   *)
(* its own inside the command's timeout.  Readiness may restart the loop   *)
(* once, with a new window, under the slug that a pipeline name resolves   *)
(* to.  A step of the command is a blocking statement from beginning to    *)
(* end: it moves the clock on to the first event that the statement        *)
(* listens to.                                                             *)
(***************************************************************************)
EXTENDS Integers

CONSTANTS
    Window,         \* queueMetricsTimeout, pipelineReadinessTimeout
    Parents,        \* when the command's own context may end (--timeout)
    RetryAfters,    \* retry_after_seconds the service may answer
    MaxLatency,     \* bound: an answer takes 1 .. MaxLatency
    DialTimeout,    \* net.Dialer.Timeout of http.DefaultTransport (external)
    Second,         \* a second, in units of time
    HalfRange,      \* a time.Duration is in -HalfRange .. HalfRange - 1
    Fallback        \* whether a 404 leads to the lookup of a pipeline name

ASSUME PollingAssumption ==
    /\ Window \in Nat \ {0}
    /\ Parents \subseteq Nat \ {0}
    /\ RetryAfters \subseteq Int
    /\ MaxLatency \in Nat \ {0}
    /\ DialTimeout \in Nat \ {0}
    /\ Second \in Nat \ {0}
    /\ HalfRange \in Nat /\ HalfRange > Window
    /\ Fallback \in BOOLEAN

VARIABLES
    now,            \* the time since the command started
    parentEnd,      \* when the command's context ends
    readyAt,        \* when the observation is ready (in the service)
    pc,             \* what the command waits for, or how it ended
    windowEnd,      \* when the context of the loop ends by its own timeout
    since,          \* when the request under way was sent
    until,          \* when its answer arrives, or the timer fires
    began,          \* when the loop under way began (history)
    attempt,        \* first identifier, or the slug it resolved to
    notBefore,      \* when it asked to be asked again, if that fits a Duration (history)
    dialHung        \* whether a connection attempt hung (history)

vars == <<now, parentEnd, readyAt, pc, windowEnd, began, since, until, attempt, notBefore,
          dialHung>>

Active  == {"request", "dialing", "wait", "lookup"}

Results == {"printed", "unavailable", "timeout", "invalid", "failed", "interrupted"}
Horizon == 2 * (Window + MaxLatency)

SmallerOf(a, b) == IF a < b THEN a ELSE b
LargerOf(a, b)  == IF a < b THEN b ELSE a

(* time.Duration(n) * time.Second wraps around like any int64. *)
Duration(n) == ((n * Second + HalfRange) % (2 * HalfRange)) - HalfRange

(* context.WithTimeout(app.Context, ...): the earlier end counts. *)
ContextEnd == IF pc = "lookup" THEN parentEnd ELSE SmallerOf(windowEnd, parentEnd)

(* When the statement under way returns: net/http and the select in wait listen to the *)
(* context as well, and its end may come before their own event. *)
WakesAt == SmallerOf(until, ContextEnd)

TypeOK ==
    /\ now \in Nat
    /\ parentEnd \in Parents
    /\ readyAt \in Nat
    /\ pc \in Active \cup Results
    /\ windowEnd \in Nat
    /\ began \in Nat
    /\ since \in Nat
    /\ until \in Nat
    /\ attempt \in {1, 2}
    /\ notBefore \in Nat
    /\ dialHung \in BOOLEAN

(* The next request, from time t on: it is answered, or the dial hangs. *)
Ask(t) ==
    /\ since' = t
    /\ \/ pc' = "request" /\ (\E l \in 1 .. MaxLatency : until' = t + l) /\ dialHung' = FALSE
       \/ pc' = "dialing" /\ until' = t + DialTimeout /\ dialHung' = TRUE

Init ==
    /\ now = 0
    /\ parentEnd \in Parents
    /\ readyAt \in 0 .. Horizon
    /\ windowEnd = Window
    /\ began = 0
    /\ since = 0
    /\ \/ pc = "request" /\ until \in 1 .. MaxLatency /\ dialHung = FALSE
       \/ pc = "dialing" /\ until = DialTimeout /\ dialHung = TRUE
    /\ attempt = 1
    /\ notBefore = 0

End(result) == pc' = result /\ UNCHANGED <<since, until>>

----------------------------------------------------------------------------
(* What the statement waits for comes first: an answer, a timer or a hung dial's end. *)
Arrives == now' = WakesAt /\ now' = until

(* The observation is served, printed, and the command is over. *)
Ready ==
    /\ pc = "request" /\ Arrives
    /\ readyAt <= now'
    /\ End("printed")
    /\ UNCHANGED <<parentEnd, readyAt, windowEnd, began, attempt, notBefore, dialHung>>

(* Slip: the next request is sent at once, retry_after only shown. *)
PendingAtOnce(n) ==
    /\ pc = "request" /\ Arrives
    /\ since < readyAt
    /\ IF n <= 0
       THEN End("invalid") /\ UNCHANGED notBefore
       ELSE /\ pc' = "wait"
            /\ until' = now'
            /\ notBefore' = IF n * Second < HalfRange THEN now' + n * Second ELSE now'
            /\ UNCHANGED since
    /\ UNCHANGED <<parentEnd, readyAt, windowEnd, began, attempt, dialHung>>

(* Slip: retries back off to twice the interval the service asked for. *)
PendingBackoff(n) ==
    /\ pc = "request" /\ Arrives
    /\ since < readyAt
    /\ IF n <= 0
       THEN End("invalid") /\ UNCHANGED notBefore
       ELSE /\ pc' = "wait"
            /\ until' = now' + LargerOf(Duration(2 * n), 0)
            /\ notBefore' = IF n * Second < HalfRange THEN now' + n * Second ELSE now'
            /\ UNCHANGED since
    /\ UNCHANGED <<parentEnd, readyAt, windowEnd, began, attempt, dialHung>>

(* Still pending: a timer for the interval asked for; one below zero fires at once. *)
Pending(n) ==
    /\ pc = "request" /\ Arrives
    /\ since < readyAt
    /\ IF n <= 0
       THEN End("invalid") /\ UNCHANGED notBefore
       ELSE /\ pc' = "wait"
            /\ until' = now' + LargerOf(Duration(n), 0)
            /\ notBefore' = IF n * Second < HalfRange THEN now' + n * Second ELSE now'
            /\ UNCHANGED since
    /\ UNCHANGED <<parentEnd, readyAt, windowEnd, began, attempt, dialHung>>

(* Slip: every 404 leads to the lookup, the one of the resolved slug too. *)
ErrorFallsBackAgain ==
    /\ pc \in {"request", "lookup"} /\ Arrives
    /\ \/ End("failed")
       \/ /\ pc = "request" /\ Fallback
          /\ pc' = "lookup"
          /\ since' = now'
          /\ \E l \in 1 .. MaxLatency : until' = now' + l
    /\ UNCHANGED <<parentEnd, readyAt, windowEnd, began, attempt, notBefore, dialHung>>

(* Another error ends the command; a 404 may be due to a pipeline name. *)
Error ==
    /\ pc \in {"request", "lookup"} /\ Arrives
    /\ \/ End("failed")
       \/ /\ pc = "request" /\ Fallback /\ attempt = 1
          /\ pc' = "lookup"
          /\ since' = now'
          /\ \E l \in 1 .. MaxLatency : until' = now' + l
    /\ UNCHANGED <<parentEnd, readyAt, windowEnd, began, attempt, notBefore, dialHung>>

(* The name resolved: getPipelineReadiness starts over with its slug. *)
Resolved ==
    /\ pc = "lookup" /\ Arrives
    /\ attempt' = attempt + 1
    /\ windowEnd' = now' + Window
    /\ began' = now'
    /\ notBefore' = now'
    /\ Ask(now')
    /\ UNCHANGED <<parentEnd, readyAt>>

(* Slip: context.WithTimeout stands inside the loop, each poll has a window of its own. *)
RetryInNewWindow ==
    /\ pc = "wait" /\ Arrives
    /\ windowEnd' = now' + Window
    /\ Ask(now')
    /\ UNCHANGED <<parentEnd, readyAt, began, attempt, notBefore>>

(* The timer fires: the loop asks again. *)
Retry ==
    /\ pc = "wait" /\ Arrives
    /\ Ask(now')
    /\ UNCHANGED <<parentEnd, readyAt, windowEnd, began, attempt, notBefore>>

(* Slip: the deadline error does not ask whose deadline it was. *)
DeadlineErrorOfWindow(due) == End("unavailable")

(* queueMetricsDeadlineError: app.Context's own error, if it has one; of two deadlines *)
(* due at this instant, either may be seen first. *)
DeadlineError(due) ==
    \/ parentEnd <= now' /\ End("timeout")
    \/ /\ parentEnd > now' \/ (parentEnd = now' /\ due)
       /\ End("unavailable")

(* The context ends during a request or a wait; an answer at that instant may win. *)
Expired ==
    /\ pc \in Active
    /\ now' = WakesAt /\ ContextEnd <= now'
    /\ IF pc = "lookup" THEN End("failed") ELSE DeadlineError(windowEnd <= now')
    /\ UNCHANGED <<parentEnd, readyAt, windowEnd, began, attempt, notBefore, dialHung>>

(* A dial timeout is a context.DeadlineExceeded to errors.Is, too. *)
DialTimesOut ==
    /\ pc = "dialing" /\ Arrives
    /\ DeadlineError(TRUE)
    /\ UNCHANGED <<parentEnd, readyAt, windowEnd, began, attempt, notBefore, dialHung>>

(* SIGINT or SIGTERM cancels the command's context, at any moment. *)
Interrupt ==
    /\ pc \in Active
    /\ now' \in now .. WakesAt
    /\ End("interrupted")
    /\ UNCHANGED <<parentEnd, readyAt, windowEnd, began, attempt, notBefore, dialHung>>

(* The process is gone. *)
Over == pc \in Results /\ UNCHANGED vars

Next == \/ Ready \/ (\E n \in RetryAfters : Pending(n)) \/ Error \/ Resolved
        \/ Retry \/ Expired \/ DialTimesOut \/ Interrupt \/ Over

Spec == Init /\ [][Next]_vars

----------------------------------------------------------------------------
(***************************************************************************)
(* "The CLI follows the server's retry interval for up to one minute"      *)
(* (README.md:428): whatever intervals the service names, the polls of one *)
(* loop and the waits between them take a window in all, counted from the  *)
(* first of them, and everything is over with the command's timeout.       *)
(***************************************************************************)
EndsInTime ==
    /\ now <= parentEnd
    /\ pc \notin {"lookup", "failed", "interrupted"} => now <= began + Window

(***************************************************************************)
(* Giving up names the deadline that passed: the command's timeout only    *)
(* when it is over, the window only when it is, or when a dial times out.  *)
(***************************************************************************)
NamesTheDeadline ==
    /\ pc = "timeout" => parentEnd <= now
    /\ pc = "unavailable" => /\ now <= parentEnd
                             /\ windowEnd <= now \/ (dialHung /\ until = now)

(***************************************************************************)
(* The service is not asked again before the interval it named is over, as *)
(* long as the interval fits a time.Duration.                              *)
(***************************************************************************)
FollowsRetryInterval ==
    pc \in {"request", "dialing"} => since >= notBefore

(***************************************************************************)
(* An observation that is ready when the loop may ask again, an answer     *)
(* before the deadline, is printed: giving up means that it was not ready  *)
(* by then, or that the interval the service named left no time to ask.    *)
(***************************************************************************)
MayAsk == LargerOf(notBefore, began)

ReadyIsReported ==
    pc \in {"unavailable", "timeout"} /\ ~dialHung
        => LargerOf(readyAt, MayAsk) + MaxLatency >= SmallerOf(windowEnd, parentEnd)

(***************************************************************************)
(* "queue metrics did not become available within 1m0s"                    *)
(* (internal/cli/queue_metrics.go:63) is said only after the window.       *)
(***************************************************************************)
UnavailableAfterWindow == pc = "unavailable" => windowEnd <= now
============================================================================
