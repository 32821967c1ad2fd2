------------------------------- MODULE MCCron -------------------------------
(***************************************************************************)
(* Six days of three hours of two minutes; the clocks go forward over an   *)
(* hour of the second day and back over the same hour of the fourth.  A    *)
(* month has three days at most, and the first has two.  The expressions   *)
(* are every combination of a few fields.                                  *)
(***************************************************************************)
EXTENDS Cron

At(v)           == {[from |-> v, to |-> v, step |-> 1]}
Between(v, w)   == {[from |-> v, to |-> w, step |-> 1]}
Every(n, v, w)  == {[from |-> v, to |-> w, step |-> n]}

MCExprs == [minutes : {At(0), At(1), Between(0, 1)},
            hours : {At(1), Between(1, 2), Every(2, 0, 2), Between(0, 2)},
            days : {Between(1, 3), At(1), At(3)},
            months : {Between(1, 2), At(2)},
            weekdays : {Between(0, 2), At(3), Between(2, 1)}]

MCDates == << [month |-> 1, day |-> 1, weekday |-> 0], [month |-> 1, day |-> 2, weekday |-> 1],
              [month |-> 2, day |-> 1, weekday |-> 2], [month |-> 2, day |-> 2, weekday |-> 0],
              [month |-> 2, day |-> 3, weekday |-> 1], [month |-> 1, day |-> 1, weekday |-> 2] >>

MCOffset == [t \in 0..35 |-> IF t \in 8..19 THEN 2 ELSE 0]

\* The zone of the example is of the kind that the theorems are about.
ASSUME ZoneOfTheExample ==
    NewMinutesAreLater /\ SkippedStandForNew /\ WholeHoursAreSkipped
=============================================================================
