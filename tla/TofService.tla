----------------------------- MODULE TofService -----------------------------
(***************************************************************************)
(* What the ToF self test promises the SoC: one request at a time, left    *)
(* before right, and a request ends either without an answer or, out of    *)
(* the right phase, with one answer about this very request.  The service  *)
(* is withdrawn for good when a jig or the node's switch takes the sensor. *)
(***************************************************************************)
EXTENDS Integers

VARIABLES
  phase,     \* "idle", the side being calibrated, or "off" once withdrawn
  request,   \* number of the request served last
  answered   \* requests answered, each with what the answer was measured for

serviceVars == <<phase, request, answered>>
Side == {"Left", "Right"}

NoAnswer == [of |-> 0, data |-> [s \in Side |-> 0]]

ServiceInit == phase \in {"idle", "off"} /\ request = 0 /\ answered = NoAnswer

Accept ==
  /\ phase = "idle" /\ phase' = "Left"
  /\ request' = request + 1
  /\ UNCHANGED answered

Proceed ==
  /\ phase = "Left" /\ phase' = "Right"
  /\ UNCHANGED <<request, answered>>

Reply ==
  /\ phase = "Right" /\ phase' = "idle"
  /\ answered.of # request
  /\ answered' = [of |-> request, data |-> [s \in Side |-> request]]
  /\ UNCHANGED request

Abandon ==
  /\ phase \in Side /\ phase' = "idle"
  /\ UNCHANGED <<request, answered>>

Withdraw == phase' = "off" /\ request' = 0 /\ answered' = NoAnswer

ServiceNext == Accept \/ Proceed \/ Reply \/ Abandon \/ Withdraw

ServiceSpec == ServiceInit /\ [][ServiceNext]_serviceVars
=============================================================================
