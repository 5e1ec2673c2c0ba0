--------------------------- MODULE MCNotification ---------------------------
(* Instances of NotificationService for TLC.                                *)
EXTENDS NotificationService, TLC

CONSTANTS n1, n2, p1, p2

Ask(event, method, priority, complete) ==
  [event |-> event, method |-> method, priority |-> priority, complete |-> complete]

\* A registration mail, an urgent mailing, a like whose event_data is complete,
\* one whose event_data is not, and a test.
AllRequests ==
  {Ask("USER_REGISTERED", "EMAIL", "LOW", TRUE),
   Ask("AUTO_MASS_NOTIFY", "EMAIL", "HIGH", TRUE),
   Ask("USER_REVIEW_LIKED", "WEBSOCKET", "LOW", TRUE),
   Ask("USER_REVIEW_LIKED", "WEBSOCKET", "LOW", FALSE),
   Ask("TEST", "WEBSOCKET", "LOW", TRUE)}

CompleteRequests == {r \in AllRequests : r.complete}
Likes            == {r \in AllRequests : r.event = "USER_REVIEW_LIKED"}

\* Two users in different zones, one of whom wants no e-mail.
AllProfiles == {[zone |-> 0, allowed |-> TRUE], [zone |-> 21, allowed |-> FALSE]}

\* Local hours in the two zones: 2 and 23 (both wait, one of them to the next
\* day), 15 and 12, and 12 and 9 of the next day, when every wait is over.
MCHour == {2, 15, 36}

\* Before the window of zone 0 opens and after it has closed again.
LateHour == {8, 20}

Symmetry == Permutations({n1, n2}) \cup Permutations({p1, p2})
=============================================================================
