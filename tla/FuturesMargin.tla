---------------------------- MODULE FuturesMargin ----------------------------
(***************************************************************************)
(* The futures checks of risk/futures.py: margin headroom, contract limit  *)
(* and the cut-off before the daily close of CME Globex.  Each answers     *)
(* "OK" or the reason it refuses.                                          *)
(*                                                                         *)
(* A time is the second of the week in New York, from Monday 0:00: the     *)
(* code converts to New York time and then only compares and subtracts     *)
(* wall-clock times (clocks change on a Sunday at 2:00, when Globex is     *)
(* closed).  Money is in cents and the buffer in basis points.             *)
(***************************************************************************)
EXTENDS Integers, FiniteSets

Hour == 3600
DaySeconds == 24 * Hour
WeekSeconds == 7 * DaySeconds

Weekday(t) == t \div DaySeconds
HourOf(t) == (t % DaySeconds) \div Hour

(* The four times at which minutes_until_close answers None. *)
Closed(t) ==
  \/ Weekday(t) = 5
  \/ Weekday(t) = 6 /\ HourOf(t) < 18
  \/ Weekday(t) \in 0 .. 3 /\ HourOf(t) = 17
  \/ Weekday(t) = 4 /\ HourOf(t) >= 17

NextClose(t) ==
  LET today == Weekday(t) * DaySeconds + 17 * Hour
  IN IF t < today THEN today ELSE today + DaySeconds

MinutesUntilClose(t) == (NextClose(t) - t) \div 60

(* Mutant of CutoffVerdict: at the cut-off itself the session is still ok. *)
CutoffVerdictLate(t, cutoff) ==
  CASE cutoff < 0 -> "INVALID_CUTOFF"
    [] cutoff >= 0 /\ Closed(t) -> "MARKET_CLOSED"
    [] OTHER -> IF MinutesUntilClose(t) < cutoff THEN "SESSION_CUTOFF" ELSE "OK"

(* check_session_cutoff *)
CutoffVerdict(t, cutoff) ==
  CASE cutoff < 0 -> "INVALID_CUTOFF"
    [] cutoff >= 0 /\ Closed(t) -> "MARKET_CLOSED"
    [] OTHER -> IF MinutesUntilClose(t) <= cutoff THEN "SESSION_CUTOFF" ELSE "OK"

(* A buffer is a share of the excess liquidity, in hundredths of a percent *)
(* of it.                                                                  *)
FullBuffer == 10000

(* check_margin_headroom *)
HeadroomVerdict(excess, margin, buffer) ==
  CASE margin < 0 -> "INVALID_MARGIN"
    [] margin >= 0 /\ ~ (buffer \in 0 .. FullBuffer - 1) -> "INVALID_BUFFER"
    [] margin >= 0 /\ buffer \in 0 .. FullBuffer - 1 /\ excess <= 0 ->
         "NO_EXCESS_LIQUIDITY"
    [] OTHER -> IF FullBuffer * (excess - margin) < excess * buffer
                THEN "HEADROOM_BREACH" ELSE "OK"

(* check_contract_limit *)
LimitVerdict(current, additional, most) ==
  CASE current < 0 \/ additional <= 0 -> "INVALID_CONTRACT_COUNT"
    [] current >= 0 /\ additional > 0 /\ most <= 0 -> "FUTURES_DISABLED"
    [] OTHER -> IF current + additional > most THEN "LIMIT_EXCEEDED" ELSE "OK"

-----------------------------------------------------------------------------
(* The session as docs of the exchange and the head of the file put it:    *)
(* open from Sunday 18:00 to Friday 17:00 but for an hour a day.           *)

(* The halts of the week, first and last second; Saturday's goes on to     *)
(* Sunday evening.                                                         *)
Halts ==
  {[from |-> d * DaySeconds + 17 * Hour, to |-> d * DaySeconds + 18 * Hour] : d \in 0 .. 3}
    \cup {[from |-> 4 * DaySeconds + 17 * Hour, to |-> 6 * DaySeconds + 18 * Hour]}

(* Second t of this week or the next is in a halt. *)
Halted(t) ==
  \E h \in Halts : h.from <= t % WeekSeconds /\ t % WeekSeconds < h.to

(* A halt begins within the seconds from t to t + span. *)
HaltBegins(t, span) ==
  \E h \in Halts, week \in {0, WeekSeconds} :
    t <= h.from + week /\ h.from + week <= t + span

(* What a verdict on the session must be. *)
CutoffIsSafe(t, cutoff, verdict) ==
  cutoff >= 0 =>
    /\ verdict = "MARKET_CLOSED" <=> Halted(t)
    /\ verdict = "OK" => ~ HaltBegins(t, 60 * cutoff)
    /\ verdict = "SESSION_CUTOFF" => HaltBegins(t, 60 * cutoff + 60)

(* What a verdict on a margin must be. *)
HeadroomIsSafe(excess, margin, buffer, verdict) ==
  /\ verdict = "OK" =>
       /\ excess > 0 /\ margin >= 0
       /\ FullBuffer * (excess - margin) >= buffer * excess
       /\ \A m \in 0 .. margin : HeadroomVerdict(excess, m, buffer) = "OK"
  /\ verdict = "HEADROOM_BREACH" => FullBuffer * (excess - margin) < buffer * excess
=============================================================================
