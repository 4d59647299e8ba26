--------------------------- MODULE TimeCalculator ---------------------------
(***************************************************************************)
(* The helper that adds up a duration unit by unit and says how long it is *)
(* in one of them.  An answer is a pair here: what the units from that one *)
(* upwards contribute, and what the smaller ones do, in milliseconds; the  *)
(* code adds the second, divided, to the first.  Rounding to a precision,  *)
(* and inMilliseconds, whose integers are too large for TLC, are left out. *)
(***************************************************************************)
EXTENDS Naturals

CONSTANT MaxVal   \* bound: the largest amount of a unit

ConstantsAssumption == MaxVal \in Nat

VARIABLE calculator   \* calculator[unit]: how many of them were added

Units == {"years", "months", "weeks", "days", "hours", "minutes", "seconds", "milliseconds"}

Init == calculator = [unit \in Units |-> 0]

\* calculator.years(val), calculator.months(val), ...
add(unit, val) ==
  /\ calculator[unit] + val <= MaxVal
  /\ calculator' = [calculator EXCEPT ![unit] = @ + val]

Of(unit) == calculator[unit]

inHours ==
  <<Of("hours") + Of("days") * 24 + Of("weeks") * 7 * 24 + Of("months") * 30 * 24
      + Of("years") * 12 * 30 * 24 * 60,
    Of("milliseconds") + Of("seconds") * 1000 + Of("minutes") * 60000>>

\* Mutant: weeks are counted in days.
inMinutes_Weeks ==
  <<Of("minutes") + Of("hours") * 60 + Of("days") * 24 * 60 + Of("weeks") * 7 * 60
      + Of("months") * 30 * 24 * 60 + Of("years") * 12 * 30 * 24 * 60,
    Of("milliseconds") + Of("seconds") * 1000>>

inMinutes ==
  <<Of("minutes") + Of("hours") * 60 + Of("days") * 24 * 60 + Of("weeks") * 7 * 24 * 60
      + Of("months") * 30 * 24 * 60 + Of("years") * 12 * 30 * 24 * 60,
    Of("milliseconds") + Of("seconds") * 1000>>

inSeconds ==
  <<Of("seconds") + Of("minutes") * 60 + Of("hours") * 60 * 60 + Of("days") * 24 * 60 * 60
      + Of("weeks") * 7 * 24 * 60 * 60 + Of("months") * 30 * 24 * 60 * 60
      + Of("years") * 12 * 30 * 24 * 60 * 60,
    Of("milliseconds")>>

Next == \E unit \in Units, val \in 1 .. MaxVal : add(unit, val)

Spec == Init /\ [][Next]_calculator

-----------------------------------------------------------------------------
(* Properties                                                              *)

\* `large` in units of 60 of the units of `small` is as long as `small`, where
\* one of the latter has `length` milliseconds.
Agree(large, small, length) ==
  /\ (large[2] - small[2]) % length = 0
  /\ large[1] * 60 + (large[2] - small[2]) \div length = small[1]

\* Whatever was added up, in whatever order, is as long in minutes as in seconds.
MinutesAndSecondsAgree == Agree(inMinutes, inSeconds, 1000)

=============================================================================
