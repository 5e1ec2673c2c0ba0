----------------------------- MODULE EmailSender -----------------------------
(***************************************************************************)
(* email-sender: one consumer of a queue of RabbitMQ, which mails, notes    *)
(* the mail in Redis by a background task, reports and settles the message. *)
(*                                                                          *)
(* The mail, the note, the report and the answer to the broker are four     *)
(* effects in four systems, and the process can end between any two.        *)
(***************************************************************************)
EXTENDS Integers, FiniteSets

CONSTANTS
  Mail,         \* notifications, each published once
  None,
  MaxMailFaults \* bound on restarts and on failures

VARIABLES
  waiting,   \* messages in the queue
  settled,   \* messages that were acknowledged, or refused without requeueing
  current,   \* the message in the hands of the consumer
  mailStep,  \* what it does with it
  consuming, \* FALSE once an exception has ended the consumer
  mailed,    \* how many times SMTP took a mail
  noting,    \* background tasks that note a mail
  noted,     \* keys in Redis that say that a mail was sent
  told,      \* the last report to notification-service
  lapses,    \* how often a note was not made, not read or has expired
  mailFaults

mailVars == <<waiting, settled, current, mailStep, consuming, mailed, noting, noted,
              told, lapses, mailFaults>>

MailStep == {"idle", "look", "template", "smtp", "sent", "failed"}

Init ==
  /\ waiting = Mail /\ settled = {}
  /\ current = None /\ mailStep = "idle" /\ consuming = TRUE
  /\ mailed = [m \in Mail |-> 0]
  /\ noting = {} /\ noted = {}
  /\ told   = [m \in Mail |-> "none"]
  /\ lapses = [m \in Mail |-> 0]
  /\ mailFaults = 0

MailFault == mailFaults < MaxMailFaults /\ mailFaults' = mailFaults + 1

Lapse(S) == lapses' = [m \in Mail |-> lapses[m] + IF m \in S THEN 1 ELSE 0]

Goto(step) == mailStep' = step

Settle == /\ settled' = settled \cup {current}
          /\ current' = None
          /\ Goto("idle")

-----------------------------------------------------------------------------
(* The consumer.                                                            *)

Deliver(m) ==
  /\ consuming /\ current = None /\ m \in waiting
  /\ waiting' = waiting \ {m} /\ current' = m /\ Goto("look")
  /\ UNCHANGED <<settled, consuming, mailed, noting, noted, told, lapses, mailFaults>>

\* A body that is not a notification is refused without a report.
Unreadable ==
  /\ mailStep = "look" /\ MailFault
  /\ Settle
  /\ UNCHANGED <<waiting, consuming, mailed, noting, noted, told, lapses>>

\* Mutation: the key in Redis is not looked at.
LookUp_never ==
  /\ mailStep = "look"
  /\ Goto("template")
  /\ UNCHANGED <<waiting, settled, current, consuming, mailed, noting, noted, told,
                 lapses, mailFaults>>

\* A mail that was noted is not sent again, and counts as a failure.
LookUp ==
  /\ mailStep = "look"
  /\ Goto(IF current \in noted THEN "failed" ELSE "template")
  /\ UNCHANGED <<waiting, settled, current, consuming, mailed, noting, noted, told,
                 lapses, mailFaults>>

\* Redis does not answer: as if there were no key.
LookUpFails ==
  /\ mailStep = "look" /\ MailFault
  /\ Goto("template") /\ Lapse({current})
  /\ UNCHANGED <<waiting, settled, current, consuming, mailed, noting, noted, told>>

\* A template that is not there, or a type that is not mailed.
Template ==
  /\ mailStep = "template"
  /\ \E known \in BOOLEAN : Goto(IF known THEN "smtp" ELSE "failed")
  /\ UNCHANGED <<waiting, settled, current, consuming, mailed, noting, noted, told,
                 lapses, mailFaults>>

Send ==
  /\ mailStep = "smtp"
  /\ mailed' = [mailed EXCEPT ![current] = @ + 1]
  /\ noting' = noting \cup {current}
  /\ Goto("sent")
  /\ UNCHANGED <<waiting, settled, current, consuming, noted, told, lapses, mailFaults>>

SendFails ==
  /\ mailStep = "smtp" /\ MailFault
  /\ Goto("failed")
  /\ UNCHANGED <<waiting, settled, current, consuming, mailed, noting, noted, told, lapses>>

\* An exception of PostgreSQL, of connect or of the rendering ends the consumer, and
\* the message stays with it; one of quit, after the mail was sent, too.
ConsumerEnds ==
  /\ MailFault /\ consuming
  /\ consuming' = FALSE /\ Goto("idle")
  /\ \/ mailStep \in {"template", "smtp"} /\ UNCHANGED <<mailed, lapses>>
     \/ mailStep = "smtp" /\ mailed' = [mailed EXCEPT ![current] = @ + 1] /\ Lapse({current})
  /\ UNCHANGED <<waiting, settled, current, noting, noted, told>>

\* Mutation: the report says what is to be mailed, not what was.
Report_sent ==
  /\ mailStep \in {"sent", "failed"}
  /\ told' = [told EXCEPT ![current] = "sent"]
  /\ Settle
  /\ UNCHANGED <<waiting, consuming, mailed, noting, noted, lapses, mailFaults>>

Report ==
  /\ mailStep \in {"sent", "failed"}
  /\ told' = [told EXCEPT ![current] = mailStep]
  /\ Settle
  /\ UNCHANGED <<waiting, consuming, mailed, noting, noted, lapses, mailFaults>>

\* Eight attempts were in vain: the message is settled all the same.
ReportFails ==
  /\ mailStep \in {"sent", "failed"} /\ MailFault
  /\ Settle
  /\ UNCHANGED <<waiting, consuming, mailed, noting, noted, told, lapses>>

\* The answer of notification-service is lost, and the process ends before the next
\* attempt: what was told, will be told again.
ReportLost ==
  /\ mailStep \in {"sent", "failed"} /\ MailFault
  /\ told' = [told EXCEPT ![current] = mailStep]
  /\ UNCHANGED <<waiting, settled, current, mailStep, consuming, mailed, noting, noted, lapses>>

-----------------------------------------------------------------------------
(* Redis, and the process.                                                  *)

Note(m) ==
  /\ m \in noting
  /\ noting' = noting \ {m} /\ noted' = noted \cup {m}
  /\ UNCHANGED <<waiting, settled, current, mailStep, consuming, mailed, told, lapses, mailFaults>>

NoteFails(m) ==
  /\ m \in noting /\ MailFault
  /\ noting' = noting \ {m} /\ Lapse({m})
  /\ UNCHANGED <<waiting, settled, current, mailStep, consuming, mailed, noted, told>>

\* The key lives for cache_expire_in_seconds_for_email.
NoteExpires(m) ==
  /\ m \in noted
  /\ noted' = noted \ {m} /\ Lapse({m})
  /\ UNCHANGED <<waiting, settled, current, mailStep, consuming, mailed, noting, told, mailFaults>>

\* main waits for a signal only. What was not settled is delivered again.
MailRestart ==
  /\ MailFault
  /\ waiting' = waiting \cup ({current} \ {None})
  /\ current' = None /\ Goto("idle") /\ consuming' = TRUE
  /\ noting' = {} /\ Lapse(noting)
  /\ UNCHANGED <<settled, mailed, noted, told>>

Next ==
  \/ \E m \in Mail : Deliver(m) \/ Note(m) \/ NoteFails(m) \/ NoteExpires(m)
  \/ Unreadable \/ LookUp \/ LookUpFails \/ Template
  \/ Send \/ SendFails \/ ConsumerEnds
  \/ Report \/ ReportFails \/ ReportLost
  \/ MailRestart

-----------------------------------------------------------------------------
(* Properties.                                                              *)

TypeOK ==
  /\ waiting \subseteq Mail /\ settled \subseteq Mail
  /\ current \in Mail \cup {None} /\ mailStep \in MailStep /\ consuming \in BOOLEAN
  /\ mailed \in [Mail -> Nat] /\ lapses \in [Mail -> Nat]
  /\ noting \subseteq Mail /\ noted \subseteq Mail
  /\ told \in [Mail -> {"none", "sent", "failed"}]

\* A user gets a second mail only when the note of the first was not made, not read
\* or has expired: no restart and no lost answer alone repeats a mail.
MailedBounded == \A m \in Mail : mailed[m] <= 1 + lapses[m]

\* What notification-service is told is true of the delivery it is told about: SENT
\* is said of a mail that went out, and while nothing failed, FAILED of one that did
\* not; and no message disappears.
MailReported ==
  \A m \in Mail :
    /\ told[m] = "sent" => mailed[m] > 0
    /\ mailFaults = 0 /\ m \in settled =>
         told[m] = IF mailed[m] > 0 THEN "sent" ELSE "failed"
    /\ m \in waiting \/ m \in settled \/ m = current

=============================================================================
