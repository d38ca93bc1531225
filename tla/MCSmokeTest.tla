---------------------------- MODULE MCSmokeTest ----------------------------
(***************************************************************************)
(* The matrix of smoke-test.yml: two servers, tested side by side.         *)
(***************************************************************************)
EXTENDS SmokeTest

\* What the workflow runs after a deployment.
StartAll == [t \in Tests |-> "start"]

\* The same next to a test somebody runs by hand.
StartAndStop == [t \in Tests |-> IF t = "win-server-1" THEN "start" ELSE "stop"]
=============================================================================
