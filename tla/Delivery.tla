------------------------------ MODULE Delivery ------------------------------
(***************************************************************************)
(* What the engine promises about a message, with nothing said of nodes,   *)
(* links or goroutines: the comments of Send and SendFile, the kinds of    *)
(* Event and the receipts of core/pkg/runtime.  A request gets one verdict *)
(* at most, a message reaches its user once at most and never after it was *)
(* reported as failed, nothing that has reached its user is reported as    *)
(* failed, and a receipt tells of a message that has reached its user.     *)
(***************************************************************************)
EXTENDS Naturals

CONSTANTS Msgs     \* message ids chosen by the user interfaces

VARIABLES
  asked,     \* messages handed to Send or SendFile
  verdict,   \* verdict[m]: what the sender was told of m
  arrived,   \* arrived[m]: how often m was shown to its recipient
  receipts   \* receipts[m]: what the sender heard of m from the recipient

vars == <<asked, verdict, arrived, receipts>>

Receipts == {"DELIVERED", "READ"}

Init ==
  /\ asked = {}
  /\ verdict = [m \in Msgs |-> "none"]
  /\ arrived = [m \in Msgs |-> 0]
  /\ receipts = [m \in Msgs |-> {}]

\* Send or SendFile is called.
Ask(m) ==
  /\ m \notin asked
  /\ asked' = asked \cup {m}
  /\ UNCHANGED <<verdict, arrived, receipts>>

\* The recipient's event "message" or "file".
Arrive(m) ==
  /\ m \in asked
  /\ verdict[m] # "sendFailed"
  /\ arrived[m] = 0
  /\ arrived' = [arrived EXCEPT ![m] = 1]
  /\ UNCHANGED <<asked, verdict, receipts>>

\* The sender's event "sent".
Sent(m) ==
  /\ m \in asked
  /\ verdict[m] = "none"
  /\ verdict' = [verdict EXCEPT ![m] = "sent"]
  /\ UNCHANGED <<asked, arrived, receipts>>

\* The sender's event "sendFailed".
Fail(m) ==
  /\ m \in asked
  /\ verdict[m] = "none"
  /\ arrived[m] = 0
  /\ verdict' = [verdict EXCEPT ![m] = "sendFailed"]
  /\ UNCHANGED <<asked, arrived, receipts>>

\* The sender's event "receipt".
Acknowledge(m, r) ==
  /\ arrived[m] = 1
  /\ receipts' = [receipts EXCEPT ![m] = @ \cup {r}]
  /\ UNCHANGED <<asked, verdict, arrived>>

\* A receipt that repeats an earlier one changes nothing: a stuttering step.
Next ==
  /\ vars' # vars
  /\ \E m \in Msgs :
       \/ Ask(m) \/ Arrive(m) \/ Sent(m) \/ Fail(m)
       \/ \E r \in Receipts : Acknowledge(m, r)

Spec == Init /\ [][Next]_vars

=============================================================================
