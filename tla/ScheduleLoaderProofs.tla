------------------------ MODULE ScheduleLoaderProofs ------------------------
(***************************************************************************)
(* What load_schedule's conversion to UTC guarantees for every zone with   *)
(* one period of summer time, every day and every pair of times.           *)
(***************************************************************************)
EXTENDS ScheduleLoader, TLAPS

\* A wall-clock time is an integer.
LEMMA WallType ==
  ASSUME NEW row, IsRow(row)
  PROVE  StartWall(row) \in Int /\ StopWall(row) \in Int
<1>1. Day \in Nat BY LoaderAssumption
<1>2. row.day * Day \in Int BY <1>1 DEF IsRow
<1> QED BY <1>1, <1>2 DEF IsRow, StartWall, StopWall

\* A session of a row that is not rejected is longer than nothing and shorter than
\* a day on the clock.
LEMMA WallOrder ==
  ASSUME NEW row, IsRow(row), row.start # row.stop
  PROVE  /\ StartWall(row) < StopWall(row)
         /\ StopWall(row) - StartWall(row) < Day
<1>1. Day \in Nat \ {0} BY LoaderAssumption
<1>2. row.start \in 0 .. Day - 1 /\ row.stop \in 0 .. Day - 1 BY DEF IsRow
<1>3. PICK midnight \in Int : midnight = row.day * Day BY <1>1 DEF IsRow
<1>4. StartWall(row) = midnight + row.start BY <1>3 DEF StartWall
<1>5. StopWall(row) = midnight + row.stop + (IF row.stop < row.start THEN Day ELSE 0)
  BY <1>3 DEF StopWall
<1>6. CASE row.stop < row.start BY <1>1, <1>2, <1>4, <1>5, <1>6
<1>7. CASE ~(row.stop < row.start) BY <1>1, <1>2, <1>4, <1>5, <1>7
<1> QED BY <1>6, <1>7

\* Whenever the zone's clock shows the time a row asks for, the job is due at an
\* instant at which it does (README.md: "in the row's timezone").
THEOREM JobsReadTheClock ==
  ASSUME NEW z \in Zones, NEW wall \in Int
  PROVE  ReadsTheClock(z, wall)
<1> SUFFICES ASSUME Exists(z, wall)
             PROVE  Clock(z, ToUTC(z, wall)) = wall
  BY DEF ReadsTheClock
<1>1. z.std \in Int /\ z.shift \in Nat /\ z.from \in Int /\ z.to \in Int BY DEF Zones
<1> DEFINE a == wall - z.std
           b == wall - z.std - z.shift
<1>2. a \in Int /\ b \in Int BY <1>1
<1>3. Clock(z, a) = wall \/ Clock(z, b) = wall
  <2>1. PICK d \in {0, z.shift} : Clock(z, wall - z.std - d) = wall BY DEF Exists
  <2>2. CASE d = 0
    <3>1. wall - z.std - 0 = a BY <1>1
    <3> QED BY <2>1, <2>2, <3>1
  <2> QED BY <2>1, <2>2
<1>4. CASE ~Summer(z, a) BY <1>1, <1>2, <1>4 DEF ToUTC, Clock
<1>5. CASE Summer(z, a) /\ Summer(z, b) BY <1>1, <1>2, <1>5 DEF ToUTC, Clock
<1>6. CASE Summer(z, a) /\ ~Summer(z, b)
  <2>1. Clock(z, a) = wall + z.shift BY <1>1, <1>2, <1>6 DEF Clock
  <2>2. Clock(z, b) = wall - z.shift BY <1>1, <1>2, <1>6 DEF Clock
  <2>3. z.shift = 0 BY <1>1, <1>3, <2>1, <2>2
  <2>4. a = b BY <1>1, <2>3
  <2> QED BY <1>6, <2>4
<1> QED BY <1>4, <1>5, <1>6

\* A time the clock shows twice is taken the second time it does, in standard time.
THEOREM TheLaterOfTwo ==
  ASSUME NEW z \in Zones, NEW wall \in Int, Twice(z, wall)
  PROVE  ToUTC(z, wall) = wall - z.std
<1>1. z.std \in Int /\ z.shift \in Nat /\ z.shift # 0 /\ z.from \in Int /\ z.to \in Int
  BY DEF Zones, Twice
<1>2. Clock(z, wall - z.std - 0) = wall BY DEF Twice
<1>3. wall - z.std - 0 = wall - z.std BY <1>1
<1>4. ~Summer(z, wall - z.std) BY <1>1, <1>2, <1>3 DEF Clock
<1> QED BY <1>4 DEF ToUTC

\* The conversion keeps the order of two times, unless the earlier one is one the
\* clock skips.
LEMMA KeepsOrder ==
  ASSUME NEW z \in Zones, NEW a \in Int, NEW b \in Int, a < b, Exists(z, a)
  PROVE  ToUTC(z, a) < ToUTC(z, b)
<1>1. z.std \in Int /\ z.shift \in Nat /\ z.from \in Int /\ z.to \in Int BY DEF Zones
<1> DEFINE a0 == a - z.std
           a1 == a - z.std - z.shift
           b0 == b - z.std
           b1 == b - z.std - z.shift
<1>2. a0 \in Int /\ a1 \in Int /\ b0 \in Int /\ b1 \in Int BY <1>1
<1>3. ToUTC(z, a) \in {a0, a1} /\ ToUTC(z, b) \in {b0, b1} BY DEF ToUTC
<1>4. CASE ToUTC(z, b) = b0 BY <1>1, <1>2, <1>3, <1>4
<1>5. CASE ToUTC(z, a) = a1 BY <1>1, <1>2, <1>3, <1>5
<1>6. CASE ToUTC(z, a) = a0 /\ ToUTC(z, b) # b0
  <2>1. Summer(z, b0) /\ Summer(z, b1) /\ ToUTC(z, b) = b1 BY <1>6 DEF ToUTC
  <2>2. Clock(z, a0) = a
    BY <1>6, JobsReadTheClock DEF ReadsTheClock
  <2>3. ~Summer(z, a0) \/ z.shift = 0 BY <1>1, <1>2, <2>2 DEF Clock
  <2>4. CASE z.shift = 0 BY <1>1, <1>2, <1>6, <2>1, <2>4
  <2>5. CASE ~Summer(z, a0)
    <3>1. a0 < b0 /\ b0 < z.to /\ z.from <= b1 BY <1>1, <1>2, <2>1 DEF Summer
    <3>2. a0 < z.from BY <1>1, <1>2, <2>5, <3>1 DEF Summer
    <3> QED BY <1>1, <1>2, <1>6, <2>1, <3>1, <3>2
  <2> QED BY <2>3, <2>4, <2>5
<1> QED BY <1>3, <1>4, <1>5, <1>6

\* An accepted row whose start is a time the clock shows stops after it starts, over
\* midnight and over both changes of the clock.  (A start the clock skips in
\* spring may come after its stop: the run dst_gap.)
THEOREM SessionsRunForward ==
  ASSUME NEW servers, NEW row, IsRow(row), ~Rejected(row, servers),
         Exists(row.zone, StartWall(row))
  PROVE  StopsAfterStart(row)
<1>1. row.zone \in Zones BY DEF IsRow, Rejected
<1>2. row.start # row.stop BY DEF Rejected
<1> QED BY <1>1, <1>2, WallType, WallOrder, KeepsOrder DEF StopsAfterStart, StartDt, StopDt

\* Between its two instants an accepted session lasts as long as its row says, give
\* or take one change of the clock.
THEOREM SessionsLast ==
  ASSUME NEW servers, NEW row, IsRow(row), ~Rejected(row, servers)
  PROVE  LET planned == StopWall(row) - StartWall(row)
             lasts   == StopDt(row) - StartDt(row)
         IN  /\ planned - row.zone.shift <= lasts
             /\ lasts <= planned + row.zone.shift
<1>1. row.zone \in Zones BY DEF IsRow, Rejected
<1>2. row.zone.std \in Int /\ row.zone.shift \in Nat BY <1>1 DEF Zones
<1>3. StartWall(row) \in Int /\ StopWall(row) \in Int BY WallType
<1>4. \A w \in Int : ToUTC(row.zone, w) \in {w - row.zone.std, w - row.zone.std - row.zone.shift}
  BY DEF ToUTC
<1> QED BY <1>2, <1>3, <1>4 DEF StartDt, StopDt
=============================================================================
