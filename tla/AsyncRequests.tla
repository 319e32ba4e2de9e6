--------------------------- MODULE AsyncRequests ---------------------------
(***************************************************************************)
(* What AEnvironmentRequest promises whoever sends a message with          *)
(* sendMessageAsync (communication/network_interface.h): the request is    *)
(* being performed until it is answered or has timed out, one of the two   *)
(* and once, and an answer was given by the other side.                    *)
(***************************************************************************)
CONSTANT Requests

VARIABLES
  status,   \* of each request
  replied   \* requests the other side has replied to

vars == <<status, replied>>

Init ==
  /\ status = [r \in Requests |-> "new"]
  /\ replied = {}

Ask(r) ==
  /\ status[r] = "new"
  /\ status' = [status EXCEPT ![r] = "performing"]
  /\ UNCHANGED replied

\* Whether the request is still waited for is not for the other side to know.
Reply(r) ==
  /\ status[r] # "new"
  /\ replied' = replied \union {r}
  /\ UNCHANGED status

Answer(r) ==
  /\ status[r] = "performing"
  /\ r \in replied
  /\ status' = [status EXCEPT ![r] = "answered"]
  /\ UNCHANGED replied

TimeOut(r) ==
  /\ status[r] = "performing"
  /\ status' = [status EXCEPT ![r] = "timeouted"]
  /\ UNCHANGED replied

Next == \E r \in Requests : Ask(r) \/ Reply(r) \/ Answer(r) \/ TimeOut(r)

Spec == Init /\ [][Next]_vars

=============================================================================
