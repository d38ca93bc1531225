--------------------------- MODULE ScheduleLoader ---------------------------
(***************************************************************************)
(* load_schedule (schedule_loader.py): what a row of the CSV, written in   *)
(* the wall-clock time of its zone, means in UTC.  The module has no state:*)
(* an instant is a number of units, a wall-clock time the number of units  *)
(* since the same midnight, as the clock on the wall counts them.          *)
(*                                                                         *)
(* The zones are pytz's: a standard offset and, from one instant to        *)
(* another, a summer time that is ahead of it.  localize() is called with  *)
(* its default, is_dst=False.                                              *)
(***************************************************************************)
EXTENDS Integers

CONSTANTS Day,           \* the units of a day
          ValidActions,  \* VALID_ACTIONS
          Unknown        \* a zone pytz does not know, a server that is not given

ASSUME LoaderAssumption == Day \in Nat \ {0}

\* A zone with one period of summer time: from <= t < to.
Zones == [std : Int, shift : Nat, from : Int, to : Int]

Summer(z, t) == z.from <= t /\ t < z.to

\* What the clock in zone z reads at instant t.
Clock(z, t) == t + z.std + (IF Summer(z, t) THEN z.shift ELSE 0)

\* tz.localize(wall).astimezone(utc): the instant at which the clock reads wall,
\* the later one - standard time - if there are two.  If there is none, because
\* the clock skips wall in spring, standard time is assumed all the same.
ToUTC(z, wall) ==
  LET inStandard == wall - z.std
      inSummer   == wall - z.std - z.shift
  IN  IF Summer(z, inStandard) /\ Summer(z, inSummer) THEN inSummer ELSE inStandard

\* A row: its zone, its server and action, the day, and two times of day.
IsRow(row) ==
  /\ row.zone \in Zones \cup {Unknown}
  /\ row.day \in Int
  /\ row.start \in 0 .. Day - 1 /\ row.stop \in 0 .. Day - 1

\* The rows that make load_schedule raise a ValueError.
Rejected(row, servers) ==
  \/ row.action \notin ValidActions
  \/ row.zone = Unknown
  \/ servers # Unknown /\ row.server \notin servers
  \/ row.start = row.stop

\* A stop that is earlier in the day than the start is on the next day.
StartWall(row) == row.day * Day + row.start
StopWall(row)  == row.day * Day + row.stop + (IF row.stop < row.start THEN Day ELSE 0)

StartDt(row) == ToUTC(row.zone, StartWall(row))
StopDt(row)  == ToUTC(row.zone, StopWall(row))

\* A session that is over by now_utc is left out.
Skipped(row, now) == StopDt(row) <= now

-----------------------------------------------------------------------------
(* What the conversion promises *)

\* The clock of the zone shows wall at some instant, at two of them.
Exists(z, wall) == \E d \in {0, z.shift} : Clock(z, wall - z.std - d) = wall
Twice(z, wall)  == /\ z.shift # 0
                   /\ \A d \in {0, z.shift} : Clock(z, wall - z.std - d) = wall

\* README.md: "HH:MM (24-hour, in the row's timezone)".  If the zone's clock ever
\* shows the time of the row, the job is due at an instant when it does.
ReadsTheClock(z, wall) == Exists(z, wall) => Clock(z, ToUTC(z, wall)) = wall

\* "stop_time must be after start_time" (load_schedule): so it is in UTC.
StopsAfterStart(row) == StartDt(row) < StopDt(row)
=============================================================================
