-------------------------- MODULE ScheduleValidator --------------------------
(***************************************************************************)
(* validate_sb_messages.py, run by hand while LoadSchedule, OBSControl and *)
(* the clock go on: it reads its clock, the CSV on GitHub and the queue    *)
(* one after the other, with a network call before each of the last two,   *)
(* and compares what it has read.                                          *)
(***************************************************************************)
EXTENDS ScheduledMachine

VARIABLES
  check,     \* the next call of the script, or "idle", or "ok": it has said so
  clock,     \* now_utc, read before anything else
  page,      \* the CSV it has fetched
  expected   \* the rows of page it expects to find in the queue

checkVars == <<check, clock, page, expected>>
validatorVars == <<machineVars, checkVars>>

ValidatorTypeOK ==
  /\ check \in {"idle", "fetch", "peek", "ok"}
  /\ clock \in 0 .. Horizon
  /\ page \in Schedules \cup {None}
  /\ expected \subseteq Nat

ValidatorInit ==
  /\ MachineInit
  /\ check = "idle" /\ clock = 0 /\ page = None /\ expected = {}

\* The script is called, as often as somebody likes.
ReadClock ==
  /\ check \in {"idle", "ok"}
  /\ check' = "fetch" /\ clock' = now /\ page' = None
  /\ UNCHANGED expected

\* It is over: an exception, a difference, or an OK that nobody can rely on any more.
EndCheck == check' = "idle" /\ clock' = 0 /\ page' = None /\ expected' = {}

\* expected_messages: requests.get, and then load_schedule by the clock of this moment.
\* It rejects an invalid row, unless only its server is wrong (the script does not pass the
\* known ones), and skips what is over.
ReadPage_SkipsStarted ==
  /\ check = "fetch" /\ check' = "peek" /\ page' = csv
  /\ expected' = {n \in DOMAIN csv : csv[n] \in Sessions /\ StartAt[csv[n]] > now}
  /\ UNCHANGED clock

ReadPage ==
  /\ check = "fetch"
  /\ \/ /\ check' = "peek" /\ page' = csv
        /\ expected' = {n \in DOMAIN csv : csv[n] \in Sessions /\ ~OverBy(csv[n], now)}
        /\ UNCHANGED clock
     \/ (Invalid(csv) \/ "fetch" \in Faults) /\ EndCheck

\* How often a start or a stop is expected, and how often the queue holds it for a time
\* that is to come by the clock read first; what is there too often is "extra", and
\* listed once more under "duplicates".
Expected(job) == Cardinality({n \in expected : page[n] = job[1]})

ActualFuture_AsSet(job) == IF \E m \in Peeked : m.job = job /\ At(job) > clock THEN 1 ELSE 0
ActualFuture(job) == Cardinality({m \in Peeked : m.job = job /\ At(job) > clock})

Missing == {job \in Jobs : Expected(job) > ActualFuture(job)}
Extra   == {job \in Jobs : ActualFuture(job) > Expected(job)}

\* queue_messages, and the comparison.  An OK after a peek that did not reach the end of
\* the queue is none that holds.
Compare ==
  /\ check = "peek"
  /\ \/ /\ Missing = {} /\ Extra = {} /\ Peeked = queue
        /\ check' = "ok" /\ clock' = 0 /\ expected' = {}
        /\ UNCHANGED page
     \/ (Missing # {} \/ Extra # {} \/ Peeked # queue \/ "bus" \in Faults) /\ EndCheck

Check == ReadClock \/ ReadPage \/ Compare

\* The OK is outdated once a run has cancelled or sent messages.
RunHasChangedQueue == queue' # queue /\ runVars' # runVars

ValidatorNext ==
  \/ Check /\ UNCHANGED machineVars
  \/ MachineNext /\ IF check = "ok" /\ RunHasChangedQueue THEN EndCheck ELSE UNCHANGED checkVars

ValidatorSpec == ValidatorInit /\ [][ValidatorNext]_validatorVars

\* "OK - queue matches the current schedule exactly" is right about the schedule the
\* script has fetched, although hours pass, runs purge and send and jobs are carried out
\* between its reads: the queue holds that schedule when it says so, and goes on to hold
\* it until a run cancels or sends again - if the peek has reached the end of the queue.
ValidatorIsSound ==
  check = "ok" => Holds(page)

-----------------------------------------------------------------------------
(* Why it is: an inductive invariant *)

\* What the script has read is as old as it is: no row is missing from "expected" but
\* those of sessions that are over by now, and its clock is behind.
ReadsAreOld ==
  /\ check \in {"fetch", "peek"} => clock <= now
  /\ check \in {"peek", "ok"} => page \in Schedules
  /\ check = "peek" =>
       /\ expected \subseteq DOMAIN page
       /\ \A n \in DOMAIN page :
            page[n] \in Sessions /\ ~OverBy(page[n], now) => n \in expected

ValidatorInv == ValidatorTypeOK /\ ReadsAreOld /\ ValidatorIsSound
=============================================================================
