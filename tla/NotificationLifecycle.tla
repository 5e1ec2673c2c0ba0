------------------------ MODULE NotificationLifecycle ------------------------
(***************************************************************************)
(* What notification-service promises about one notification, whatever the *)
(* number of processes, the batches and the failures:                      *)
(*   - it is claimed by at most one task at a time, and only while it is   *)
(*     NEW or DELAYED;                                                     *)
(*   - it is handed over at most once, by the task that claimed it;        *)
(*   - a task gives a claim up with a status that agrees with what happened *)
(*     to the message, or loses it and leaves the status alone;            *)
(*   - afterwards only the report of a sender changes the status, and only *)
(*     of a notification that was handed over.                             *)
(***************************************************************************)
CONSTANT Notification

VARIABLES
  status,    \* the column
  claimed,   \* the notifications some task works on
  handed     \* the notifications given to the senders (or, TEST, to the log)

Init ==
  /\ status  = [n \in Notification |-> "ABSENT"]
  /\ claimed = {}
  /\ handed  = {}

Create(n) ==
  /\ status[n] = "ABSENT"
  /\ status' = [status EXCEPT ![n] = "NEW"]
  /\ UNCHANGED <<claimed, handed>>

\* The claim may be lost at once, when the task never learns that it has it.
Claim(S) ==
  /\ \A n \in S : status[n] \in {"NEW", "DELAYED"}
  /\ status'  = [n \in Notification |-> IF n \in S THEN "PROCESSING" ELSE status[n]]
  /\ claimed' \in {claimed, claimed \cup S}
  /\ UNCHANGED handed

Hand(n) ==
  /\ n \in claimed \ handed
  /\ handed' = handed \cup {n}
  /\ UNCHANGED <<status, claimed>>

\* What a task may write when it is done with n.
Conclusion(n) ==
  IF n \in handed THEN {"SENDING", "PROCESSING_ERROR"}
  ELSE {"DELAYED", "SENDING_FORBIDDEN", "PROCESSING_ERROR"}

Settle(S) ==
  /\ S \subseteq claimed
  /\ \E verdict \in [S -> {"SENDING", "DELAYED", "SENDING_FORBIDDEN", "PROCESSING_ERROR"}] :
       /\ \A n \in S : verdict[n] \in Conclusion(n)
       /\ status' = [n \in Notification |-> IF n \in S THEN verdict[n] ELSE status[n]]
  /\ claimed' = claimed \ S
  /\ UNCHANGED handed

Abandon(S) ==
  /\ S \subseteq claimed
  /\ claimed' = claimed \ S
  /\ UNCHANGED <<status, handed>>

Report(S, outcome) ==
  /\ S \subseteq handed
  /\ status' = [n \in Notification |-> IF n \in S THEN outcome ELSE status[n]]
  /\ UNCHANGED <<claimed, handed>>

Next ==
  \/ \E n \in Notification : Create(n) \/ Hand(n)
  \/ \E S \in SUBSET Notification :
       \/ Claim(S) \/ Settle(S) \/ Abandon(S)
       \/ \E outcome \in {"SENT", "SENDING_ERROR"} : Report(S, outcome)

Spec == Init /\ [][Next]_<<status, claimed, handed>>
=============================================================================
