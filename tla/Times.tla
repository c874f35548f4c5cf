------------------------------- MODULE Times -------------------------------
(***************************************************************************)
(* How reports put ages and due times into words.  A clock runs past an    *)
(* observation and past the time of its next refresh; what a report would  *)
(* say at each instant is compared with the truth.  Timestamps are finer   *)
(* than seconds, and the clock may be behind the service's.                *)
(***************************************************************************)
EXTENDS Integers

CONSTANTS
    Instants,       \* in a second
    LastInstant,    \* bound: where the clock stops
    Observed,       \* instants of observations, before or after the clock's start
    Refreshes,      \* instants of next refreshes
    Windows         \* window_seconds

ASSUME TimesAssumption ==
    /\ Instants \in Nat \ {0} /\ LastInstant \in Nat
    /\ Observed \subseteq Int /\ Refreshes \subseteq Int /\ Windows \subseteq Int

VARIABLES clock, observedAt, nextRefreshAt, window

timeVars == <<clock, observedAt, nextRefreshAt, window>>

TimeInit ==
    /\ clock = 0
    /\ observedAt \in Observed /\ nextRefreshAt \in Refreshes /\ window \in Windows

PassTime ==
    /\ clock < LastInstant
    /\ clock' = clock + 1
    /\ UNCHANGED <<observedAt, nextRefreshAt, window>>

TimeSpec == TimeInit /\ [][PassTime]_timeVars

----------------------------------------------------------------------------
(* A text is its numbers, each with its unit, in the order h, m, s; words have none. *)
Words(kind)            == [kind |-> kind, parts |-> [u \in {} |-> 0]]
One(prefix, n, unit)   == [kind |-> prefix, parts |-> [u \in {unit} |-> n]]
Parts(prefix, h, m, s) ==
    LET n == [h |-> h, m |-> m, s |-> s]
    IN  [kind |-> prefix, parts |-> [u \in { v \in DOMAIN n : n[v] > 0 } |-> n[u]]]

(* Slip: the hours are left out, the minutes still count to 59. *)
FormatCompactWithoutHours(prefix, total) ==
    IF total = 0 THEN One(prefix, 0, "s") ELSE Parts(prefix, 0, total \div 60 % 60, total % 60)

FormatCompactDuration(prefix, total) ==
    IF total = 0 THEN One(prefix, 0, "s")
    ELSE Parts(prefix, total \div 3600, total \div 60 % 60, total % 60)

FormatCompactFreshness(elapsed) ==
    IF elapsed < Instants THEN Words("just_now")
    ELSE FormatCompactDuration("ago", elapsed \div Instants)

FormatCompactRefreshDue(remaining) ==
    IF remaining <= 0 THEN Words("now")
    ELSE IF remaining < Instants THEN Words("soon")
    ELSE FormatCompactDuration("in", remaining \div Instants)

(* formatMetricsFreshness: hours alone once there are any. *)
FormatFreshness(elapsed) ==
    LET total == elapsed \div Instants IN
    IF elapsed < Instants THEN Words("just_now")
    ELSE IF total < 60 THEN One("ago", total, "s")
    ELSE IF total < 3600 THEN Parts("ago", 0, total \div 60, total % 60)
    ELSE One("ago", total \div 3600, "h")

(* formatMetricsRefreshDue and formatPipelineRefreshDue: minutes without a bound. *)
FormatRefreshDue(remaining) ==
    LET total == remaining \div Instants IN
    IF remaining <= 0 THEN Words("now")
    ELSE IF total = 0 THEN Words("soon")
    ELSE Parts("in", 0, total \div 60, total % 60)

(* metricsWindowHeading and pipelineObservationWindow, which differ for no window only. *)
WindowHeading(seconds) ==
    IF seconds <= 0 THEN Words("none")
    ELSE IF seconds % 60 = 0 THEN One("window", seconds \div 60, "m")
    ELSE One("window", seconds, "s")

----------------------------------------------------------------------------
(* What a text says, in seconds. *)
Number(text, unit) == IF unit \in DOMAIN text.parts THEN text.parts[unit] ELSE 0
Says(text) == 3600 * Number(text, "h") + 60 * Number(text, "m") + Number(text, "s")

Elapsed   == clock - observedAt
Remaining == nextRefreshAt - clock

(* The number t of instants is n units, rounded down. *)
Floor(t, n, unit) == n <= t \div Instants /\ t \div Instants < n + unit

(* An observation from ahead of the clock has no age. *)
Age == IF Elapsed < 0 THEN 0 ELSE Elapsed

(* Not overstated, and understated by less than a second, or less than an hour where the *)
(* long form gives hours alone.                                                          *)
AgesAreTrue ==
    /\ Floor(Age, Says(FormatCompactFreshness(Elapsed)), 1)
    /\ Floor(Age, Says(FormatFreshness(Elapsed)), IF Age >= 3600 * Instants THEN 3600 ELSE 1)
    /\ \A text \in {FormatFreshness(Elapsed), FormatCompactFreshness(Elapsed)} :
          text.kind = "just_now" <=> Age < Instants

(* "now" from the instant of the refresh on and not before, and until then the time left. *)
DueTimesAreTrue ==
    \A text \in {FormatRefreshDue(Remaining), FormatCompactRefreshDue(Remaining)} :
        /\ text.kind = "now" <=> Remaining <= 0
        /\ Remaining > 0 => Floor(Remaining, Says(text), 1)
        /\ text.kind = "soon" => Remaining \in 1 .. Instants - 1

WindowsAreExact == window > 0 => Says(WindowHeading(window)) = window

(***************************************************************************)
(* At every instant, on both sides of every change of units, the long and  *)
(* the compact forms of an age and of a refresh that is due say the true   *)
(* time up to what they cut off, "just_now" and "now" at no other time;    *)
(* and a window is given exactly.                                          *)
(***************************************************************************)
TimesAreTrue == AgesAreTrue /\ DueTimesAreTrue /\ WindowsAreExact
=============================================================================
