---------------------------- MODULE MCObsControl ----------------------------
(***************************************************************************)
(* The schedules and machines on which TLC checks ObsControl.              *)
(***************************************************************************)
EXTENDS ObsControl, TLC

CONSTANTS start1, stop1, start2, stop2, s1

Row(command, action, at) ==
  [command |-> command, server |-> s1, action |-> action, at |-> at]

\* One streaming session.
OneStream == start1 :> Row("start", "streaming", 0) @@ stop1 :> Row("stop", "streaming", 1)

\* A stream, and an hour later the next one.
StreamAndNext == OneStream @@ start2 :> Row("start", "streaming", 2)

\* Two sessions back to back: the second starts when the first stops.
BackToBack == OneStream @@ start2 :> Row("start", "recording", 1)
                        @@ stop2 :> Row("stop", "recording", 2)

Mac     == s1 :> "mac"
Windows == s1 :> "windows"
WithScene == s1 :> TRUE
NoScene   == s1 :> FALSE

\* The invocations are interchangeable.
Symmetry == Permutations(Invocations)
=============================================================================
