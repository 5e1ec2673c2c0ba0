--------------------------- MODULE Services_proofs ---------------------------
(***************************************************************************)
(* The services around the notifications, for every set of mails, paths,    *)
(* authors and orders, every size of a batch and any number of failures.    *)
(*                                                                          *)
(* A service is proved about under the specification of its own module; the *)
(* composition that TLC runs implements each of them.                       *)
(***************************************************************************)
EXTENDS MCServices, SequenceTheorems, FiniteSetTheorems, WellFoundedInduction, TLAPS

-----------------------------------------------------------------------------
(* email-sender.                                                            *)

MailSpec == Email!Init /\ [][Email!Next]_mailVars

MailHandInv ==
  /\ mailStep # "idle" => current \in Mail
  /\ mailFaults \in Nat

\* A message is in the queue, in the hands of the consumer, or settled.
PlaceInv(m) ==
  /\ m \in waiting \/ m \in settled \/ m = current
  /\ m \in waiting => m \notin settled /\ m # current
  /\ m \in settled => m # current

\* The consumer is on the way to send m.
Sending(m) == current = m /\ mailStep \in {"template", "smtp"}

\* A note is on its way only after its mail was sent, and until its process ends. Whoever
\* is about to send a mail has one mail less to its account than the bound allows.
MailCountInv(m) ==
  /\ m \in noting =>
       m \notin waiting /\ (current = m => mailStep \in {"sent", "idle"})
  /\ mailed[m] <= lapses[m] + IF m \in noting \cup noted THEN 1 ELSE 0
  /\ Sending(m) => mailed[m] <= lapses[m]

\* What is reported, or is about to be.
MailToldInv(m) ==
  /\ told[m] = "sent" => mailed[m] > 0
  /\ current = m /\ mailStep = "sent" => mailed[m] > 0

\* While nothing has failed, a message was mailed by the delivery that settles it.
FirstInv(m) ==
  /\ m \in settled => told[m] = IF mailed[m] > 0 THEN "sent" ELSE "failed"
  /\ m \in noting \cup noted => mailed[m] > 0
  /\ m \notin settled /\ ~ (current = m /\ mailStep = "sent") => mailed[m] = 0
  /\ current = m => mailStep # "idle"

MailInv ==
  /\ Email!TypeOK /\ MailHandInv
  /\ \A m \in Mail : PlaceInv(m) /\ MailCountInv(m) /\ MailToldInv(m)
  /\ mailFaults = 0 => \A m \in Mail : FirstInv(m)

LEMMA LapseType ==
  ASSUME Email!TypeOK, NEW S, Email!Lapse(S)
  PROVE  /\ lapses' \in [Mail -> Nat]
         /\ \A m \in Mail : lapses'[m] = lapses[m] + IF m \in S THEN 1 ELSE 0
BY DEF Email!TypeOK, Email!Lapse

LEMMA MailTypeStep ==
  ASSUME MailConstants, Email!TypeOK, MailHandInv, [Email!Next]_mailVars
  PROVE  Email!TypeOK' /\ MailHandInv'
<1> USE
   DEF Email!TypeOK, MailHandInv, Email!MailStep, MailConstants, Email!MailFault, Email!Goto
<1>1. ASSUME NEW m \in Mail, Email!Deliver(m) \/ Email!Note(m)
      PROVE Email!TypeOK' /\ MailHandInv'
  BY <1>1 DEF Email!Deliver, Email!Note
<1>2. ASSUME NEW m \in Mail, Email!NoteFails(m) \/ Email!NoteExpires(m)
      PROVE Email!TypeOK' /\ MailHandInv'
  BY <1>2, LapseType DEF Email!NoteFails, Email!NoteExpires
<1>3. CASE Email!Unreadable \/ Email!ReportFails
  BY <1>3 DEF Email!Unreadable, Email!ReportFails, Email!Settle
<1>4. CASE Email!LookUp \/ Email!Template \/ Email!SendFails
  BY <1>4 DEF Email!LookUp, Email!Template, Email!SendFails
<1>5. CASE Email!LookUpFails
  BY <1>5, LapseType DEF Email!LookUpFails
<1>6. CASE Email!Send
  BY <1>6 DEF Email!Send
<1>7. CASE Email!ConsumerEnds
  <2>1. current \in Mail => [mailed EXCEPT ![current] = @ + 1] \in [Mail -> Nat]
    OBVIOUS
  <2>2. mailed' \in [Mail -> Nat] /\ lapses' \in [Mail -> Nat]
    BY <1>7, <2>1, LapseType DEF Email!ConsumerEnds
  <2>3. mailFaults' = mailFaults + 1 /\ mailStep' = "idle"
        /\ UNCHANGED <<waiting, settled, current, noting, noted, told>>
    BY <1>7 DEF Email!ConsumerEnds
  <2>4. consuming' \in BOOLEAN
    <3>1. consuming' = FALSE
      BY <1>7 DEF Email!ConsumerEnds
    <3> QED BY <3>1
  <2> QED BY <2>2, <2>3, <2>4
<1>8. CASE Email!Report
  BY <1>8 DEF Email!Report, Email!Settle
<1>9. CASE Email!ReportLost
  BY <1>9 DEF Email!ReportLost
<1>10. CASE Email!MailRestart
  BY <1>10, LapseType DEF Email!MailRestart
<1>11. CASE UNCHANGED mailVars
  BY <1>11 DEF mailVars
<1> QED
  BY <1>1, <1>2, <1>3, <1>4, <1>5, <1>6, <1>7, <1>8, <1>9, <1>10, <1>11 DEF Email!Next

LEMMA PlaceStep ==
  ASSUME MailConstants, Email!TypeOK, MailHandInv, [Email!Next]_mailVars,
         NEW m \in Mail, PlaceInv(m)
  PROVE  PlaceInv(m)'
<1> USE DEF PlaceInv, MailConstants
<1>1. ASSUME NEW n \in Mail, Email!Deliver(n) PROVE PlaceInv(m)'
  BY <1>1 DEF Email!Deliver
<1>2. CASE Email!Unreadable \/ Email!Report \/ Email!ReportFails
  BY <1>2 DEF Email!Unreadable, Email!Report, Email!ReportFails, Email!Settle, MailHandInv
<1>3. CASE Email!MailRestart
  BY <1>3 DEF Email!MailRestart
<1>4. CASE UNCHANGED <<waiting, settled, current>>
  BY <1>4
<1> QED
  BY <1>1, <1>2, <1>3, <1>4
     DEF Email!Next, Email!Note, Email!NoteFails, Email!NoteExpires, Email!LookUp,
         Email!LookUpFails, Email!Template, Email!Send, Email!SendFails, Email!ConsumerEnds,
         Email!ReportLost, mailVars

LEMMA MailCountStep ==
  ASSUME MailConstants, Email!TypeOK, MailHandInv, [Email!Next]_mailVars,
         NEW m \in Mail, PlaceInv(m), MailCountInv(m)
  PROVE  MailCountInv(m)'
<1> USE DEF MailCountInv, Sending, MailConstants, Email!Goto
<1>1. mailed[m] \in Nat /\ lapses[m] \in Nat
  BY DEF Email!TypeOK
<1>2. ASSUME NEW n \in Mail, Email!Deliver(n) PROVE MailCountInv(m)'
  BY <1>1, <1>2 DEF Email!Deliver, PlaceInv
<1>3. CASE Email!Unreadable \/ Email!Report \/ Email!ReportFails
  BY <1>1, <1>3 DEF Email!Unreadable, Email!Report, Email!ReportFails, Email!Settle
<1>4. CASE Email!LookUp
  BY <1>1, <1>4 DEF Email!LookUp
<1>5. CASE Email!LookUpFails
  <2>1. lapses'[m] = lapses[m] + IF m = current THEN 1 ELSE 0
    BY <1>5, LapseType DEF Email!LookUpFails
  <2> QED BY <1>1, <1>5, <2>1 DEF Email!LookUpFails
<1>6. CASE Email!Template \/ Email!SendFails \/ Email!ReportLost
  BY <1>1, <1>6 DEF Email!Template, Email!SendFails, Email!ReportLost
<1>7. CASE Email!Send
  <2>1. current \in Mail /\ mailed'[m] = mailed[m] + IF m = current THEN 1 ELSE 0
    BY <1>1, <1>7 DEF Email!Send, MailHandInv, Email!TypeOK
  <2> QED BY <1>1, <1>7, <2>1 DEF Email!Send, PlaceInv
<1>8. CASE Email!ConsumerEnds
  <2>1. CASE UNCHANGED <<mailed, lapses>>
    BY <1>1, <1>8, <2>1 DEF Email!ConsumerEnds
  <2>2. CASE mailStep = "smtp" /\ mailed' = [mailed EXCEPT ![current] = @ + 1]
             /\ Email!Lapse({current})
    <3>1. /\ mailed'[m] = mailed[m] + IF m = current THEN 1 ELSE 0
          /\ lapses'[m] = lapses[m] + IF m = current THEN 1 ELSE 0
      BY <1>1, <2>2, LapseType DEF Email!TypeOK
    <3> QED BY <1>1, <1>8, <3>1 DEF Email!ConsumerEnds
  <2> QED BY <1>8, <2>1, <2>2 DEF Email!ConsumerEnds
<1>9. ASSUME NEW n \in Mail, Email!Note(n) PROVE MailCountInv(m)'
  BY <1>1, <1>9 DEF Email!Note
<1>10. ASSUME NEW n \in Mail, Email!NoteFails(n) \/ Email!NoteExpires(n) PROVE MailCountInv(m)'
  <2>1. lapses'[m] = lapses[m] + IF m = n THEN 1 ELSE 0
    BY <1>10, LapseType DEF Email!NoteFails, Email!NoteExpires
  <2> QED BY <1>1, <1>10, <2>1 DEF Email!NoteFails, Email!NoteExpires
<1>11. CASE Email!MailRestart
  <2>1. lapses'[m] = lapses[m] + IF m \in noting THEN 1 ELSE 0
    BY <1>11, LapseType DEF Email!MailRestart
  <2> QED BY <1>1, <1>11, <2>1 DEF Email!MailRestart
<1>12. CASE UNCHANGED mailVars
  BY <1>12 DEF mailVars
<1> QED
  BY <1>2, <1>3, <1>4, <1>5, <1>6, <1>7, <1>8, <1>9, <1>10, <1>11, <1>12 DEF Email!Next

LEMMA MailToldStep ==
  ASSUME MailConstants, Email!TypeOK, MailHandInv, [Email!Next]_mailVars,
         NEW m \in Mail, MailToldInv(m)
  PROVE  MailToldInv(m)'
<1> USE DEF MailToldInv, MailConstants, Email!Goto
<1>1. mailed[m] \in Nat
  BY DEF Email!TypeOK
<1>2. ASSUME NEW n \in Mail, Email!Deliver(n) PROVE MailToldInv(m)'
  BY <1>2 DEF Email!Deliver
<1>3. CASE Email!Unreadable \/ Email!ReportFails
  BY <1>3 DEF Email!Unreadable, Email!ReportFails, Email!Settle
<1>4. CASE Email!Report
  BY <1>4 DEF Email!Report, Email!Settle, MailHandInv, Email!TypeOK
<1>5. CASE Email!ReportLost
  BY <1>5 DEF Email!ReportLost, Email!TypeOK
<1>6. CASE Email!Send
  <2>1. mailed'[m] = mailed[m] + IF m = current THEN 1 ELSE 0
    BY <1>1, <1>6 DEF Email!Send, Email!TypeOK
  <2> QED BY <1>1, <1>6, <2>1 DEF Email!Send
<1>7. CASE Email!ConsumerEnds
  <2>1. mailed'[m] >= mailed[m] /\ UNCHANGED <<told, current>> /\ mailStep' = "idle"
    BY <1>1, <1>7 DEF Email!ConsumerEnds, Email!TypeOK
  <2>2. mailed[m] > 0 => mailed'[m] > 0
    <3>1. mailed'[m] \in Nat
      BY MailTypeStep DEF Email!TypeOK
    <3> QED BY <1>1, <2>1, <3>1
  <2> QED BY <2>1, <2>2
<1>8. CASE \/ Email!LookUp \/ Email!LookUpFails \/ Email!Template
           \/ Email!SendFails \/ Email!MailRestart
  BY <1>8
     DEF Email!LookUp, Email!LookUpFails, Email!Template, Email!SendFails, Email!MailRestart
<1>9. CASE UNCHANGED <<told, mailed, current, mailStep>>
  BY <1>9
<1> QED
  BY <1>2, <1>3, <1>4, <1>5, <1>6, <1>7, <1>8, <1>9
     DEF Email!Next, Email!Note, Email!NoteFails, Email!NoteExpires, mailVars

LEMMA FirstStep ==
  ASSUME MailConstants, Email!TypeOK, MailHandInv, [Email!Next]_mailVars, mailFaults' = 0,
         NEW m \in Mail, PlaceInv(m), MailToldInv(m), FirstInv(m)
  PROVE  FirstInv(m)'
<1> USE DEF FirstInv, MailConstants, Email!Goto
<1>1. mailed[m] \in Nat
  BY DEF Email!TypeOK
<1>2. ~ Email!MailFault
  BY DEF Email!MailFault, MailHandInv
<1>3. ASSUME NEW n \in Mail, Email!Deliver(n) PROVE FirstInv(m)'
  BY <1>3 DEF Email!Deliver, PlaceInv
<1>4. CASE Email!LookUp
  BY <1>1, <1>4 DEF Email!LookUp, PlaceInv
<1>5. CASE Email!Template
  BY <1>5 DEF Email!Template
<1>6. CASE Email!Send
  <2>1. mailed'[m] = mailed[m] + IF m = current THEN 1 ELSE 0
    BY <1>1, <1>6 DEF Email!Send, Email!TypeOK
  <2> QED BY <1>1, <1>6, <2>1 DEF Email!Send, PlaceInv
<1>7. CASE Email!Report
  <2>1. /\ told' = [told EXCEPT ![current] = mailStep] /\ mailStep \in {"sent", "failed"}
        /\ settled' = settled \cup {current} /\ current' = None
        /\ UNCHANGED <<mailed, noting, noted>>
    BY <1>7 DEF Email!Report, Email!Settle
  <2>2. CASE current = m
    <3>1. told'[m] = mailStep
      BY <2>1, <2>2 DEF Email!TypeOK
    <3>2. mailStep = "sent" => mailed[m] > 0
      BY <2>2 DEF MailToldInv
    <3>3. mailStep = "failed" => mailed[m] = 0
      BY <2>2 DEF PlaceInv
    <3> QED BY <2>1, <2>2, <3>1, <3>2, <3>3
  <2>3. CASE current # m
    BY <2>1, <2>3 DEF Email!TypeOK
  <2> QED BY <2>2, <2>3
<1>8. ASSUME NEW n \in Mail, Email!Note(n) \/ Email!NoteExpires(n) PROVE FirstInv(m)'
  BY <1>8 DEF Email!Note, Email!NoteExpires
<1>9. CASE UNCHANGED mailVars
  BY <1>9 DEF mailVars
<1> QED
  BY <1>2, <1>3, <1>4, <1>5, <1>6, <1>7, <1>8, <1>9
     DEF Email!Next, Email!Unreadable, Email!LookUpFails, Email!SendFails, Email!ConsumerEnds,
         Email!ReportFails, Email!ReportLost, Email!NoteFails, Email!MailRestart

LEMMA MailInvInit ==
  ASSUME MailConstants, Email!Init
  PROVE  MailInv
<1>1. Email!TypeOK /\ MailHandInv
  BY DEF MailConstants, Email!Init, Email!TypeOK, Email!MailStep, MailHandInv
<1>2. ASSUME NEW m \in Mail
      PROVE PlaceInv(m) /\ MailCountInv(m) /\ MailToldInv(m) /\ FirstInv(m)
  <2>1. /\ mailed[m] = 0 /\ lapses[m] = 0 /\ told[m] = "none" /\ m \in waiting /\ m # current
        /\ settled = {} /\ noting = {} /\ noted = {}
    BY DEF MailConstants, Email!Init
  <2> QED BY <2>1 DEF PlaceInv, MailCountInv, Sending, MailToldInv, FirstInv
<1> QED BY <1>1, <1>2 DEF MailInv

LEMMA MailInvStep ==
  ASSUME MailConstants, MailInv, [Email!Next]_mailVars
  PROVE  MailInv'
<1>1. Email!TypeOK /\ MailHandInv /\ Email!TypeOK' /\ MailHandInv'
  BY MailTypeStep DEF MailInv
<1>2. \A m \in Mail : PlaceInv(m)' /\ MailCountInv(m)' /\ MailToldInv(m)'
  BY <1>1, PlaceStep, MailCountStep, MailToldStep DEF MailInv
<1>3. mailFaults' = 0 => mailFaults = 0
  <2>1. Email!MailFault \/ mailFaults' = mailFaults
    BY DEF Email!Next, Email!Deliver, Email!Note, Email!NoteFails, Email!NoteExpires,
           Email!Unreadable, Email!LookUp, Email!LookUpFails, Email!Template, Email!Send,
           Email!SendFails, Email!ConsumerEnds, Email!Report, Email!ReportFails,
           Email!ReportLost, Email!MailRestart, mailVars
  <2> QED BY <1>1, <2>1 DEF MailHandInv, Email!MailFault
<1>4. mailFaults' = 0 => \A m \in Mail : FirstInv(m)'
  BY <1>1, <1>3, FirstStep DEF MailInv
<1> QED BY <1>1, <1>2, <1>4 DEF MailInv

LEMMA MailOnly == MCSpec => MailSpec
<1>1. MCInit => Email!Init
  BY DEF MCInit
<1>2. [MCNext]_mcVars => [Email!Next]_mailVars
  BY DEF MCNext, Rest, mcVars
<1> QED BY <1>1, <1>2, PTL DEF MCSpec, MailSpec

LEMMA MailInvHolds ==
  ASSUME MailConstants
  PROVE  MCSpec => []MailInv
<1>1. Email!Init => MailInv
  BY MailInvInit
<1>2. MailInv /\ [Email!Next]_mailVars => MailInv'
  BY MailInvStep
<1> QED BY <1>1, <1>2, MailOnly, PTL DEF MailSpec

\* Nobody gets a second mail unless the note of the first was not made, not read or has
\* expired, whatever restarts, lost reports and exceptions of SMTP meet.
THEOREM MailIsBounded == MCSpec => []MailedBounded
<1> USE MailConstants
<1>1. ASSUME MailInv, NEW m \in Mail PROVE mailed[m] <= 1 + lapses[m]
  BY <1>1 DEF MailInv, Email!TypeOK, MailCountInv
<1>2. MailInv => MailedBounded
  BY <1>1 DEF MailedBounded, Email!MailedBounded
<1> QED BY <1>2, MailInvHolds, PTL

\* SENT is told only of a mail that went out, FAILED only of one that did not as long as
\* nothing fails, and every message is in the queue, in hand or settled.
THEOREM MailReportIsTrue == MCSpec => []MailReported
<1> USE MailConstants
<1>1. MailInv => MailReported
  BY DEF MailInv, PlaceInv, MailToldInv, FirstInv, MailReported, Email!MailReported
<1> QED BY <1>1, MailInvHolds, PTL

-----------------------------------------------------------------------------
(* short-link-service.                                                      *)

LinkSpec == Links!Init /\ [][Links!Next]_linkVars

\* A request has a path when it uses one, and archives one that has expired.
LinkHandInv ==
  /\ \A a \in Author : writing[a].step \in {"insert", "told"} => writing[a].path \in Path
  /\ \A v \in Visitor :
       /\ visit[v].step # "away" => visit[v].path \in Path
       /\ visit[v].step = "archive" => visit[v].path \in expired

\* A path that was told to an author is theirs.
LinkToldInv == \A a \in Author : writing[a].step = "told" => link[writing[a].path] = a

\* One visitor at a time holds the row of a path, with the count that is one more than
\* the one in the table.
LockInv ==
  /\ \A v \in Visitor : visit[v].step = "counted" => visit[v].uses = uses[visit[v].path] + 1
  /\ \A v, w \in Visitor :
       /\ visit[v].step = "counted" /\ visit[w].step = "counted"
       /\ visit[v].path = visit[w].path
       => v = w

LinkCountInv == \A p \in Path : uses[p] = redirected[p] + unanswered[p]

LinkInv == Links!TypeOK /\ LinkHandInv /\ LinkToldInv /\ LockInv /\ LinkCountInv

VisitStep == {"away", "fetch", "counted", "archive"}

\* What the steps of a visitor do to visit.
LEMMA VisitType ==
  ASSUME Links!TypeOK, NEW v \in Visitor,
         NEW r, visit' = [visit EXCEPT ![v] = r]
  PROVE  /\ visit'[v] = r /\ \A w \in Visitor \ {v} : visit'[w] = visit[w]
         /\ r \in [step : VisitStep, path : Path \cup {None}, uses : Nat] =>
              visit' \in [Visitor -> [step : VisitStep, path : Path \cup {None}, uses : Nat]]
BY DEF Links!TypeOK, VisitStep

LEMMA FetchEffect ==
  ASSUME Links!TypeOK, LinkHandInv, NEW v \in Visitor, Links!Fetch(v)
  PROVE  /\ visit[v].path \in Path
         /\ visit'[v].step = "counted" /\ visit'[v].path = visit[v].path
         /\ visit'[v].uses = uses[visit[v].path] + 1
         /\ \A w \in Visitor \ {v} : visit'[w] = visit[w]
         /\ visit' \in [Visitor -> [step : VisitStep, path : Path \cup {None}, uses : Nat]]
<1> DEFINE r == Links!Raised(v)
<1>1. visit[v].path \in Path
  BY DEF Links!Fetch, LinkHandInv
<1>2. visit' = [visit EXCEPT ![v] = r]
  BY DEF Links!Fetch
<1>3. r \in [step : VisitStep, path : Path \cup {None}, uses : Nat]
  BY <1>1 DEF Links!TypeOK, VisitStep, Links!Raised
<1> QED BY <1>1, <1>2, <1>3, VisitType DEF Links!Raised

LEMMA StepEffect ==
  ASSUME Links!TypeOK, NEW v \in Visitor, NEW step \in VisitStep, Links!Visit(v, step)
  PROVE  /\ visit'[v].step = step /\ visit'[v].path = visit[v].path
         /\ \A w \in Visitor \ {v} : visit'[w] = visit[w]
         /\ visit' \in [Visitor -> [step : VisitStep, path : Path \cup {None}, uses : Nat]]
<1> DEFINE r == [visit[v] EXCEPT !.step = step]
<1>1. visit' = [visit EXCEPT ![v] = r]
  BY DEF Links!Visit
<1>2. r \in [step : VisitStep, path : Path \cup {None}, uses : Nat]
      /\ r.step = step /\ r.path = visit[v].path
  BY DEF Links!TypeOK, VisitStep
<1> QED BY <1>1, <1>2, VisitType

LEMMA AwayEffect ==
  ASSUME Links!TypeOK, NEW v \in Visitor, visit' = [visit EXCEPT ![v] = Links!Away]
  PROVE  /\ visit'[v].step = "away"
         /\ \A w \in Visitor \ {v} : visit'[w] = visit[w]
         /\ visit' \in [Visitor -> [step : VisitStep, path : Path \cup {None}, uses : Nat]]
<1>1. /\ Links!Away \in [step : VisitStep, path : Path \cup {None}, uses : Nat]
      /\ Links!Away.step = "away"
  BY DEF Links!Away, VisitStep
<1> QED BY <1>1, VisitType

LEMMA LinkTypeStep ==
  ASSUME LinkConstants, Links!TypeOK, LinkHandInv, [Links!Next]_linkVars
  PROVE  Links!TypeOK' /\ LinkHandInv'
<1>1. ASSUME NEW a \in Author, NEW p \in Path, Links!CheckPath(a, p)
      PROVE Links!TypeOK' /\ LinkHandInv'
  BY <1>1
     DEF Links!CheckPath, Links!Write, Links!Paths, Links!TypeOK, LinkHandInv, LinkConstants,
         VisitStep
<1>2. ASSUME NEW a \in Author, Links!Insert(a) PROVE Links!TypeOK' /\ LinkHandInv'
  BY <1>2
     DEF Links!Insert, Links!Put, Links!Write, Links!Paths, Links!TypeOK, LinkHandInv,
         LinkConstants, VisitStep
<1>3. ASSUME NEW a \in Author, Links!InsertRefused(a) PROVE Links!TypeOK' /\ LinkHandInv'
  BY <1>3
     DEF Links!InsertRefused, Links!Write, Links!Paths, Links!TypeOK, LinkHandInv,
         LinkConstants, VisitStep
<1>4. ASSUME NEW a \in Author, Links!InsertLost(a) PROVE Links!TypeOK' /\ LinkHandInv'
  BY <1>4
     DEF Links!InsertLost, Links!Put, Links!Paths, Links!TypeOK, LinkHandInv, LinkConstants,
         VisitStep
<1>5. ASSUME NEW v \in Visitor, NEW p \in Path, Links!Follow(v, p)
      PROVE Links!TypeOK' /\ LinkHandInv'
  BY <1>5 DEF Links!Follow, Links!Paths, Links!TypeOK, LinkHandInv, LinkConstants, VisitStep
<1>6. ASSUME NEW v \in Visitor, Links!Fetch(v) PROVE Links!TypeOK' /\ LinkHandInv'
  <2>1. /\ visit[v].path \in Path
        /\ visit'[v].step = "counted" /\ visit'[v].path = visit[v].path
        /\ \A w \in Visitor \ {v} : visit'[w] = visit[w]
        /\ visit' \in [Visitor -> [step : VisitStep, path : Path \cup {None}, uses : Nat]]
    BY <1>6, FetchEffect
  <2> QED BY <1>6, <2>1
             DEF Links!Fetch, Links!Paths, Links!TypeOK, LinkHandInv, LinkConstants, VisitStep
<1>7. ASSUME NEW v \in Visitor, Links!NotFound(v) PROVE Links!TypeOK' /\ LinkHandInv'
  BY <1>7, AwayEffect
     DEF Links!NotFound, Links!Paths, Links!TypeOK, LinkHandInv, LinkConstants, VisitStep
<1>8. ASSUME NEW v \in Visitor, Links!Commit(v) PROVE Links!TypeOK' /\ LinkHandInv'
  <2>1. visit[v].path \in Path /\ uses' \in [Path -> Nat]
        /\ redirected' \in [Path -> Nat] /\ unanswered' \in [Path -> Nat]
    BY <1>8 DEF Links!Commit, Links!Count, Links!Plus, Links!TypeOK, LinkHandInv
  <2>2. CASE visit[v].path \in expired
    <3>1. "archive" \in VisitStep /\ Links!Visit(v, "archive")
      BY <1>8, <2>2 DEF Links!Commit, VisitStep
    <3>2. /\ visit'[v].step = "archive" /\ visit'[v].path = visit[v].path
          /\ \A w \in Visitor \ {v} : visit'[w] = visit[w]
          /\ visit' \in [Visitor -> [step : VisitStep, path : Path \cup {None}, uses : Nat]]
      BY <3>1, StepEffect
    <3> QED BY <1>8, <2>1, <2>2, <3>2
            DEF Links!Commit, Links!Paths, Links!TypeOK, LinkHandInv, LinkConstants, VisitStep
  <2>3. CASE visit[v].path \notin expired
    <3>1. /\ visit'[v].step = "away"
          /\ \A w \in Visitor \ {v} : visit'[w] = visit[w]
          /\ visit' \in [Visitor -> [step : VisitStep, path : Path \cup {None}, uses : Nat]]
      BY <1>8, <2>3, AwayEffect DEF Links!Commit
    <3> QED BY <1>8, <2>1, <2>3, <3>1
            DEF Links!Commit, Links!Paths, Links!TypeOK, LinkHandInv, LinkConstants, VisitStep
  <2> QED BY <2>2, <2>3
<1>9. ASSUME NEW v \in Visitor, Links!CommitFails(v) PROVE Links!TypeOK' /\ LinkHandInv'
  <2>1. visit[v].path \in Path /\ uses' \in [Path -> Nat] /\ unanswered' \in [Path -> Nat]
    BY <1>9 DEF Links!CommitFails, Links!Count, Links!Plus, Links!TypeOK, LinkHandInv
  <2>2. "fetch" \in VisitStep /\ Links!Visit(v, "fetch")
    BY <1>9 DEF Links!CommitFails, VisitStep
  <2>3. /\ visit'[v].step = "fetch" /\ visit'[v].path = visit[v].path
        /\ \A w \in Visitor \ {v} : visit'[w] = visit[w]
        /\ visit' \in [Visitor -> [step : VisitStep, path : Path \cup {None}, uses : Nat]]
    BY <2>2, StepEffect
  <2> QED BY <1>9, <2>1, <2>3
             DEF Links!CommitFails, Links!Paths, Links!TypeOK, LinkHandInv, LinkConstants,
                 VisitStep
<1>10. ASSUME NEW v \in Visitor, Links!Archive(v) \/ Links!ArchiveFails(v)
       PROVE Links!TypeOK' /\ LinkHandInv'
  <2>1. visit[v].path \in Path /\ visit'[v].step = "away"
        /\ (Links!Archive(v) => visit[v].path \in expired)
    BY <1>10, AwayEffect DEF Links!Archive, Links!ArchiveFails, LinkHandInv
  <2>2. /\ \A w \in Visitor \ {v} : visit'[w] = visit[w]
        /\ visit' \in [Visitor -> [step : VisitStep, path : Path \cup {None}, uses : Nat]]
    BY <1>10, AwayEffect DEF Links!Archive, Links!ArchiveFails
  <2> QED BY <1>10, <2>1, <2>2
          DEF Links!Archive, Links!ArchiveFails, Links!Paths, Links!TypeOK, LinkHandInv,
              LinkConstants, VisitStep
<1>11. ASSUME NEW p \in Path, Links!Expire(p) PROVE Links!TypeOK' /\ LinkHandInv'
  BY <1>11 DEF Links!Expire, Links!Paths, Links!TypeOK, LinkHandInv, LinkConstants, VisitStep
<1>12. CASE UNCHANGED linkVars
  BY <1>12 DEF linkVars, Links!Paths, Links!TypeOK, LinkHandInv, LinkConstants, VisitStep
<1> QED
  BY <1>1, <1>2, <1>3, <1>4, <1>5, <1>6, <1>7, <1>8, <1>9, <1>10, <1>11, <1>12 DEF Links!Next

\* A row stays the row of its author.
LEMMA LinkToldStep ==
  ASSUME LinkConstants, Links!TypeOK, LinkHandInv, LinkToldInv, [Links!Next]_linkVars
  PROVE  LinkToldInv'
<1> USE DEF Links!TypeOK, LinkHandInv, LinkToldInv, LinkConstants
<1>1. ASSUME NEW a \in Author, NEW p \in Path, Links!CheckPath(a, p) PROVE LinkToldInv'
  BY <1>1 DEF Links!CheckPath, Links!Write
<1>2. ASSUME NEW a \in Author, Links!Insert(a) PROVE LinkToldInv'
  BY <1>2 DEF Links!Insert, Links!Put, Links!Write
<1>3. ASSUME NEW a \in Author, Links!InsertRefused(a) \/ Links!InsertLost(a) PROVE LinkToldInv'
  BY <1>3 DEF Links!InsertRefused, Links!InsertLost, Links!Put, Links!Write
<1>4. CASE UNCHANGED <<link, writing>>
  BY <1>4
<1> QED
  BY <1>1, <1>2, <1>3, <1>4
     DEF Links!Next, Links!Follow, Links!Fetch, Links!NotFound, Links!Commit, Links!CommitFails,
         Links!Archive, Links!ArchiveFails, Links!Expire, linkVars

LEMMA LockStep ==
  ASSUME LinkConstants, Links!TypeOK, LinkHandInv, LockInv, [Links!Next]_linkVars
  PROVE  LockInv'
<1> USE DEF LockInv
<1>1. ASSUME NEW v \in Visitor, NEW p \in Path, Links!Follow(v, p) PROVE LockInv'
  BY <1>1 DEF Links!Follow, Links!TypeOK
<1>2. ASSUME NEW v \in Visitor, Links!Fetch(v) PROVE LockInv'
  <2>1. /\ \A w \in Visitor : visit[w].step = "counted" => visit[w].path # visit[v].path
        /\ visit'[v].uses = uses[visit[v].path] + 1 /\ visit'[v].path = visit[v].path
        /\ uses' = uses
    <3>1. visit'[v].uses = uses[visit[v].path] + 1 /\ visit'[v].path = visit[v].path
      BY <1>2, FetchEffect
    <3> QED BY <1>2, <3>1 DEF Links!Fetch, Links!Locked
  <2>2. \A w \in Visitor \ {v} : visit'[w] = visit[w]
    BY <1>2, FetchEffect
  <2> QED BY <2>1, <2>2
<1>3. ASSUME NEW v \in Visitor, Links!NotFound(v) \/ Links!Archive(v) \/ Links!ArchiveFails(v)
      PROVE LockInv'
  BY <1>3, AwayEffect DEF Links!NotFound, Links!Archive, Links!ArchiveFails
<1>4. ASSUME NEW v \in Visitor, Links!Commit(v) \/ Links!CommitFails(v) PROVE LockInv'
  <2>1. visit[v].step = "counted" /\ visit[v].path \in Path
    BY <1>4 DEF Links!Commit, Links!CommitFails, LinkHandInv
  <2>2. visit'[v].step # "counted" /\ \A w \in Visitor \ {v} : visit'[w] = visit[w]
    BY <1>4, StepEffect, AwayEffect DEF Links!Commit, Links!CommitFails, VisitStep
  <2>3. \A p \in Path : p # visit[v].path => uses'[p] = uses[p]
    BY <1>4 DEF Links!Commit, Links!CommitFails, Links!Count, Links!TypeOK
  <2>4. \A w \in Visitor \ {v} :
          visit[w].step = "counted" => visit[w].path # visit[v].path
    BY <2>1
  <2> QED BY <2>2, <2>3, <2>4 DEF LinkHandInv
<1>5. CASE UNCHANGED <<visit, uses>>
  BY <1>5
<1> QED
  BY <1>1, <1>2, <1>3, <1>4, <1>5
     DEF Links!Next, Links!CheckPath, Links!Insert, Links!InsertRefused, Links!InsertLost,
         Links!Expire, linkVars

LEMMA LinkCountStep ==
  ASSUME LinkConstants, Links!TypeOK, LinkHandInv, LockInv, LinkCountInv, [Links!Next]_linkVars
  PROVE  LinkCountInv'
<1> USE DEF LinkCountInv
<1>1. ASSUME NEW v \in Visitor, Links!Commit(v) \/ Links!CommitFails(v) PROVE LinkCountInv'
  <2>1. visit[v].path \in Path /\ visit[v].uses = uses[visit[v].path] + 1
    BY <1>1 DEF Links!Commit, Links!CommitFails, LinkHandInv, LockInv
  <2>2. CASE UNCHANGED <<uses, redirected, unanswered>>
    BY <2>2
  <2>3. CASE Links!Count(v) /\ redirected' = Links!Plus(redirected, visit[v].path)
             /\ UNCHANGED unanswered
    BY <2>1, <2>3 DEF Links!TypeOK, Links!Count, Links!Plus
  <2>4. CASE Links!Count(v) /\ unanswered' = Links!Plus(unanswered, visit[v].path)
             /\ UNCHANGED redirected
    BY <2>1, <2>4 DEF Links!TypeOK, Links!Count, Links!Plus
  <2> QED BY <1>1, <2>2, <2>3, <2>4 DEF Links!Commit, Links!CommitFails
<1>2. CASE UNCHANGED <<uses, redirected, unanswered>>
  BY <1>2
<1> QED
  BY <1>1, <1>2
     DEF Links!Next, Links!CheckPath, Links!Insert, Links!InsertRefused, Links!InsertLost,
         Links!Follow, Links!Fetch, Links!NotFound, Links!Archive, Links!ArchiveFails,
         Links!Expire, linkVars

LEMMA LinkInvInit ==
  ASSUME LinkConstants, Links!Init
  PROVE  LinkInv
BY DEF LinkConstants, Links!Init, LinkInv, Links!TypeOK, LinkHandInv, LinkToldInv, LockInv,
       LinkCountInv, Links!Away, Links!Paths

LEMMA LinksOnly == MCSpec => LinkSpec
<1>1. MCInit => Links!Init
  BY DEF MCInit
<1>2. [MCNext]_mcVars => [Links!Next]_linkVars
  BY DEF MCNext, Rest, mcVars
<1> QED BY <1>1, <1>2, PTL DEF MCSpec, LinkSpec

\* Who was told a path finds the own URL under it for ever, however two authors look the
\* same path up; and no visit is lost from the count, however visitors meet on a row and
\* whatever commits are lost.
THEOREM LinksAgreeAlways == MCSpec => []LinksAgree
<1> USE LinkConstants
<1>1. Links!Init => LinkInv
  BY LinkInvInit
<1>2. LinkInv /\ [Links!Next]_linkVars => LinkInv'
  BY LinkTypeStep, LinkToldStep, LockStep, LinkCountStep DEF LinkInv
<1>3. LinkInv => LinksAgree
  BY DEF LinkInv, LinkToldInv, LinkCountInv, LinksAgree, Links!LinksAgree
<1> QED BY <1>1, <1>2, <1>3, LinksOnly, PTL DEF LinkSpec

-----------------------------------------------------------------------------
(* The ETL of metric-service.                                               *)

MetricSpec == Metrics!Init /\ [][Metrics!Next]_metricVars

\* A batch is a piece of the log, behind the position.
MetricBatchInv ==
  /\ metricFaults \in Nat
  /\ reading <= Len(metrics) + 1
  /\ \A o \in inBatch : o < reading
  /\ \A o, p \in inBatch : p - o < BatchSize
  /\ skipped \subseteq 1 .. Len(metrics)

\* What is behind the position is loaded, left, no JSON, or in the batch to be loaded.
BehindInv ==
  \A o \in 1 .. Len(metrics) :
    o < reading /\ metrics[o] # "broken" =>
      loaded[o] > 0 \/ o \in skipped \/ (etlStep = "load" /\ o \in inBatch)

\* What is before the committed offset needs no batch any more.
CommittedInv ==
  \A o \in 1 .. Len(metrics) :
    o < consumed /\ metrics[o] # "broken" => loaded[o] > 0 \/ o \in skipped

\* What is to be loaded, now or later, is there once less than the bound allows.
OnceInv ==
  \A o \in Metrics!Offset :
    /\ loaded[o] <= 1 + repeats
    /\ o >= reading \/ (etlStep = "load" /\ o \in inBatch) => loaded[o] <= repeats

\* While nothing fails, a batch is left because of one of its own metrics.
Near(o) == \E p \in 1 .. Len(metrics) :
             p - o < BatchSize /\ o - p < BatchSize /\ metrics[p] = "invalid"

LeftInv == metricFaults = 0 => \A o \in skipped : Near(o)

MetricInv == Metrics!TypeOK /\ MetricBatchInv /\ BehindInv /\ CommittedInv /\ OnceInv /\ LeftInv

\* A metric is put at the end, and the others stay where they are.
LEMMA PushKeeps ==
  ASSUME MetricConstants, Metrics!TypeOK, NEW q \in Metrics!Quality, Metrics!SendMessage(q)
  PROVE  /\ metrics' \in Seq(Metrics!Quality) /\ Len(metrics') = Len(metrics) + 1
         /\ Len(metrics') <= MaxMetrics
         /\ \A o \in 1 .. Len(metrics) : metrics'[o] = metrics[o]
BY AppendProperties DEF MetricConstants, Metrics!TypeOK, Metrics!SendMessage

\* A batch is what follows the position.
LEMMA PollTakes ==
  ASSUME MetricConstants, Metrics!TypeOK, MetricBatchInv,
         NEW n \in 1 .. BatchSize, Metrics!Polled(n)
  PROVE  /\ inBatch' \subseteq Metrics!Offset
         /\ reading' \in Nat /\ reading' <= Len(metrics) + 1
         /\ reading' >= reading
         /\ \A o \in inBatch' : o >= reading /\ o < reading'
         /\ \A o \in Nat : o >= reading /\ o < reading' => o \in inBatch'
         /\ \A o, p \in inBatch' : p - o < BatchSize
<1>1. reading \in Nat /\ reading >= 1 /\ Len(metrics) \in Nat /\ Len(metrics) <= MaxMetrics
  BY DEF MetricConstants, Metrics!TypeOK
<1>2. inBatch' = reading .. reading + n - 1 /\ reading' = reading + n
      /\ reading + n - 1 <= Len(metrics) /\ n \in Nat /\ n <= BatchSize
  BY DEF MetricConstants, Metrics!Polled
<1> QED BY <1>1, <1>2 DEF MetricConstants, Metrics!Offset

\* An insert adds one to each row of the batch.
LEMMA InsertAdds ==
  ASSUME Metrics!TypeOK, Metrics!InsertRows
  PROVE  /\ loaded' \in [Metrics!Offset -> Nat]
         /\ \A o \in Metrics!Rows : loaded'[o] = loaded[o] + 1
         /\ \A o \in Metrics!Offset \ Metrics!Rows : loaded'[o] = loaded[o]
BY DEF Metrics!TypeOK, Metrics!InsertRows, Metrics!Rows

\* A row of the batch is in the log, and ready to be counted once more.
LEMMA RowsInLog ==
  ASSUME MetricConstants, Metrics!TypeOK, MetricBatchInv
  PROVE  /\ Metrics!Rows \subseteq 1 .. Len(metrics) /\ Metrics!Rows \subseteq inBatch
         /\ 1 .. Len(metrics) \subseteq Metrics!Offset /\ Len(metrics) \in Nat
         /\ consumed \in Nat /\ reading \in Nat /\ consumed <= reading
<1>1. /\ Len(metrics) \in Nat /\ Len(metrics) <= MaxMetrics
      /\ consumed \in Nat /\ reading \in Nat /\ consumed <= reading
  BY DEF MetricConstants, Metrics!TypeOK
<1>2. ASSUME NEW o \in inBatch PROVE o \in 1 .. Len(metrics)
  <2>1. o \in Metrics!Offset /\ o < reading /\ reading <= Len(metrics) + 1
    BY <1>2 DEF Metrics!TypeOK, MetricBatchInv
  <2> QED BY <1>1, <2>1 DEF Metrics!Offset, MetricConstants
<1> QED BY <1>1, <1>2 DEF Metrics!Rows, Metrics!Offset, MetricConstants

LEMMA MetricTypeStep ==
  ASSUME MetricConstants, Metrics!TypeOK, MetricBatchInv, [Metrics!Next]_metricVars
  PROVE  Metrics!TypeOK'
<1>1. ASSUME NEW q \in Metrics!Quality, Metrics!Push(q) PROVE Metrics!TypeOK'
  BY <1>1, PushKeeps DEF Metrics!TypeOK, Metrics!Push
<1>2. ASSUME NEW n \in 1 .. BatchSize, Metrics!Extract(n) PROVE Metrics!TypeOK'
  <2>1. inBatch' \subseteq Metrics!Offset /\ reading' \in consumed .. MaxMetrics + 1
    BY <1>2, PollTakes DEF Metrics!TypeOK, Metrics!Extract, MetricConstants
  <2> QED BY <1>2, <2>1 DEF Metrics!TypeOK, Metrics!Extract, Metrics!Polled
<1>3. CASE Metrics!Load \/ Metrics!LoadLate
  BY <1>3, InsertAdds DEF Metrics!TypeOK, Metrics!Load, Metrics!LoadLate
<1>4. CASE Metrics!LoadFails
  BY <1>4 DEF Metrics!TypeOK, Metrics!LoadFails, Metrics!Rows
<1>5. CASE Metrics!Commit \/ Metrics!CommitFails \/ Metrics!EtlRestart
  BY <1>5 DEF Metrics!TypeOK, Metrics!Commit, Metrics!CommitFails, Metrics!EtlRestart
<1>6. CASE UNCHANGED metricVars
  BY <1>6 DEF Metrics!TypeOK, metricVars
<1> QED BY <1>1, <1>2, <1>3, <1>4, <1>5, <1>6 DEF Metrics!Next

LEMMA MetricBatchStep ==
  ASSUME MetricConstants, Metrics!TypeOK, MetricBatchInv, [Metrics!Next]_metricVars
  PROVE  MetricBatchInv'
<1>1. ASSUME NEW q \in Metrics!Quality, Metrics!Push(q) PROVE MetricBatchInv'
  <2>1. Len(metrics') = Len(metrics) + 1 /\ Len(metrics) \in Nat
    BY <1>1, PushKeeps DEF Metrics!Push, Metrics!TypeOK
  <2> QED BY <1>1, <2>1 DEF Metrics!TypeOK, MetricBatchInv, Metrics!Push
<1>2. ASSUME NEW n \in 1 .. BatchSize, Metrics!Extract(n) PROVE MetricBatchInv'
  BY <1>2, PollTakes DEF MetricBatchInv, Metrics!Extract
<1>3. CASE Metrics!Load \/ Metrics!LoadLate \/ Metrics!Commit \/ Metrics!CommitFails
  <2>1. metricFaults' \in Nat
    BY <1>3
       DEF MetricBatchInv, Metrics!Load, Metrics!LoadLate, Metrics!Commit, Metrics!CommitFails,
           Metrics!MetricFault
  <2>2. UNCHANGED <<metrics, reading, inBatch, skipped>>
    BY <1>3 DEF Metrics!Load, Metrics!LoadLate, Metrics!Commit, Metrics!CommitFails
  <2> QED BY <2>1, <2>2 DEF MetricBatchInv
<1>4. CASE Metrics!LoadFails
  <2>1. metricFaults' \in Nat
    BY <1>4 DEF MetricBatchInv, Metrics!LoadFails, Metrics!MetricFault
  <2>2. Metrics!Rows \subseteq 1 .. Len(metrics)
    BY RowsInLog
  <2> QED BY <1>4, <2>1, <2>2 DEF MetricBatchInv, Metrics!LoadFails
<1>5. CASE Metrics!EtlRestart
  BY <1>5 DEF Metrics!TypeOK, MetricBatchInv, Metrics!EtlRestart, Metrics!MetricFault
<1>6. CASE UNCHANGED metricVars
  BY <1>6 DEF MetricBatchInv, metricVars
<1> QED BY <1>1, <1>2, <1>3, <1>4, <1>5, <1>6 DEF Metrics!Next

LEMMA BehindStep ==
  ASSUME MetricConstants, Metrics!TypeOK, MetricBatchInv, BehindInv, CommittedInv,
         [Metrics!Next]_metricVars
  PROVE  BehindInv'
<1> USE DEF BehindInv
<1>1. \A o \in 1 .. Len(metrics) : o \in Metrics!Offset /\ o \in Nat /\ loaded[o] \in Nat
  BY DEF Metrics!TypeOK, MetricConstants, Metrics!Offset
<1>2. ASSUME NEW q \in Metrics!Quality, Metrics!Push(q) PROVE BehindInv'
  <2>1. Len(metrics) \in Nat /\ Len(metrics') = Len(metrics) + 1
        /\ \A o \in 1 .. Len(metrics) : metrics'[o] = metrics[o]
    BY <1>2, PushKeeps DEF Metrics!Push, Metrics!TypeOK
  <2>2. ASSUME NEW o \in 1 .. Len(metrics'), o < reading PROVE o \in 1 .. Len(metrics)
    BY <2>1, <2>2 DEF MetricBatchInv, Metrics!TypeOK
  <2> QED BY <1>2, <2>1, <2>2 DEF Metrics!Push
<1>3. ASSUME NEW n \in 1 .. BatchSize, Metrics!Extract(n) PROVE BehindInv'
  <2>1. /\ \A o \in Nat : o >= reading /\ o < reading' => o \in inBatch'
        /\ etlStep = "poll"
        /\ UNCHANGED <<metrics, loaded, skipped>>
        /\ etlStep' = IF \A o \in inBatch' : metrics[o] = "broken" THEN "poll" ELSE "load"
    BY <1>3, PollTakes DEF Metrics!Extract, Metrics!Polled
  <2>2. reading \in Nat /\ reading' \in Nat
    BY <1>3, PollTakes DEF Metrics!Extract, Metrics!TypeOK
  <2>3. ASSUME NEW o \in 1 .. Len(metrics), o < reading', metrics[o] # "broken"
        PROVE  loaded[o] > 0 \/ o \in skipped \/ (etlStep' = "load" /\ o \in inBatch')
    <3>1. CASE o < reading
      BY <2>1, <2>3, <3>1
    <3>2. CASE o >= reading
      BY <1>1, <2>1, <2>3, <3>2
    <3> QED BY <1>1, <2>2, <3>1, <3>2
  <2> QED BY <2>1, <2>3
<1>4. CASE Metrics!Load \/ Metrics!LoadLate
  <2>1. Metrics!InsertRows /\ UNCHANGED <<metrics, reading, inBatch, skipped>>
    BY <1>4 DEF Metrics!Load, Metrics!LoadLate
  <2>2. ASSUME NEW o \in 1 .. Len(metrics), o < reading, metrics[o] # "broken"
        PROVE  loaded'[o] > 0 \/ o \in skipped
    <3>1. CASE o \in inBatch
      <4>1. o \in Metrics!Rows /\ loaded'[o] = loaded[o] + 1
        BY <2>1, <2>2, <3>1, InsertAdds DEF Metrics!Rows
      <4> QED BY <1>1, <4>1
    <3>2. CASE o \notin inBatch
      <4>1. o \notin Metrics!Rows /\ loaded'[o] = loaded[o]
        BY <1>1, <2>1, <3>2, InsertAdds DEF Metrics!Rows
      <4> QED BY <2>2, <3>2, <4>1
    <3> QED BY <3>1, <3>2
  <2> QED BY <2>1, <2>2
<1>5. CASE Metrics!LoadFails
  BY <1>5 DEF Metrics!LoadFails, Metrics!Rows
<1>6. CASE Metrics!Commit \/ Metrics!CommitFails
  BY <1>6 DEF Metrics!Commit, Metrics!CommitFails
<1>7. CASE Metrics!EtlRestart
  <2>1. /\ consumed \in Nat /\ reading \in Nat /\ consumed <= reading
        /\ reading' = consumed /\ UNCHANGED <<metrics, loaded, skipped>>
    BY <1>7 DEF Metrics!EtlRestart, Metrics!TypeOK, MetricConstants
  <2> QED BY <2>1 DEF CommittedInv
<1>8. CASE UNCHANGED metricVars
  BY <1>8 DEF metricVars
<1> QED BY <1>2, <1>3, <1>4, <1>5, <1>6, <1>7, <1>8 DEF Metrics!Next

LEMMA CommittedStep ==
  ASSUME MetricConstants, Metrics!TypeOK, MetricBatchInv, BehindInv, CommittedInv,
         [Metrics!Next]_metricVars
  PROVE  CommittedInv'
<1> USE DEF CommittedInv
<1>1. \A o \in 1 .. Len(metrics) : o \in Metrics!Offset /\ o \in Nat /\ loaded[o] \in Nat
  BY DEF Metrics!TypeOK, MetricConstants, Metrics!Offset
<1>2. ASSUME NEW q \in Metrics!Quality, Metrics!Push(q) PROVE CommittedInv'
  <2>1. Len(metrics) \in Nat /\ Len(metrics') = Len(metrics) + 1
        /\ \A o \in 1 .. Len(metrics) : metrics'[o] = metrics[o]
    BY <1>2, PushKeeps DEF Metrics!Push, Metrics!TypeOK
  <2>2. ASSUME NEW o \in 1 .. Len(metrics'), o < consumed PROVE o \in 1 .. Len(metrics)
    BY <2>1, <2>2, RowsInLog DEF MetricBatchInv
  <2> QED BY <1>2, <2>1, <2>2 DEF Metrics!Push
<1>3. ASSUME NEW n \in 1 .. BatchSize, Metrics!Extract(n) PROVE CommittedInv'
  BY <1>3 DEF Metrics!Extract, Metrics!Polled
<1>4. CASE Metrics!Load \/ Metrics!LoadLate
  <2>1. Metrics!InsertRows /\ UNCHANGED <<metrics, consumed, skipped>>
    BY <1>4 DEF Metrics!Load, Metrics!LoadLate
  <2>2. \A o \in 1 .. Len(metrics) : loaded'[o] = loaded[o] \/ loaded'[o] = loaded[o] + 1
    BY <1>1, <2>1, InsertAdds
  <2> QED BY <1>1, <2>1, <2>2
<1>5. CASE Metrics!Commit
  BY <1>5 DEF Metrics!Commit, BehindInv
<1>6. CASE Metrics!LoadFails
  BY <1>6 DEF Metrics!LoadFails
<1>7. CASE Metrics!CommitFails \/ Metrics!EtlRestart
  BY <1>7 DEF Metrics!CommitFails, Metrics!EtlRestart
<1>8. CASE UNCHANGED metricVars
  BY <1>8 DEF metricVars
<1> QED BY <1>2, <1>3, <1>4, <1>5, <1>6, <1>7, <1>8 DEF Metrics!Next

LEMMA OnceStep ==
  ASSUME MetricConstants, Metrics!TypeOK, MetricBatchInv, OnceInv, [Metrics!Next]_metricVars
  PROVE  OnceInv'
<1> USE DEF OnceInv
<1>1. repeats \in Nat /\ \A o \in Metrics!Offset : o \in Nat /\ loaded[o] \in Nat
  BY DEF Metrics!TypeOK, MetricConstants, Metrics!Offset
<1>2. ASSUME NEW q \in Metrics!Quality, Metrics!Push(q) PROVE OnceInv'
  BY <1>2 DEF Metrics!Push
<1>3. ASSUME NEW n \in 1 .. BatchSize, Metrics!Extract(n) PROVE OnceInv'
  <2>1. /\ reading' \in Nat /\ reading \in Nat /\ reading' >= reading
        /\ \A o \in inBatch' : o >= reading
    BY <1>3, PollTakes, RowsInLog DEF Metrics!Extract
  <2> QED BY <1>1, <1>3, <2>1 DEF Metrics!Extract
<1>4. CASE Metrics!Load \/ Metrics!LoadLate
  <2>1. Metrics!InsertRows /\ UNCHANGED <<reading, inBatch>> /\ etlStep = "load"
    BY <1>4 DEF Metrics!Load, Metrics!LoadLate
  <2>2. \/ etlStep' = "commit" /\ repeats' = repeats
        \/ etlStep' = "load" /\ repeats' = repeats + 1
    BY <1>4, <2>1 DEF Metrics!Load, Metrics!LoadLate
  <2>3. ASSUME NEW o \in Metrics!Offset
        PROVE  /\ loaded'[o] <= 1 + repeats'
               /\ o >= reading \/ (etlStep' = "load" /\ o \in inBatch) => loaded'[o] <= repeats'
    <3>1. CASE o \in Metrics!Rows
      <4>1. loaded'[o] = loaded[o] + 1 /\ o \in inBatch
        BY <2>1, <3>1, InsertAdds DEF Metrics!Rows
      <4>2. loaded[o] <= repeats /\ ~ (o >= reading)
        BY <1>1, <2>1, <4>1, RowsInLog DEF MetricBatchInv
      <4> QED BY <1>1, <2>2, <4>1, <4>2
    <3>2. CASE o \notin Metrics!Rows
      <4>1. loaded'[o] = loaded[o]
        BY <2>1, <3>2, InsertAdds
      <4> QED BY <1>1, <2>1, <2>2, <4>1
    <3> QED BY <3>1, <3>2
  <2> QED BY <2>1, <2>3
<1>5. CASE Metrics!LoadFails \/ Metrics!Commit \/ Metrics!CommitFails
  BY <1>5 DEF Metrics!LoadFails, Metrics!Commit, Metrics!CommitFails
<1>6. CASE Metrics!EtlRestart
  <2>1. repeats' = repeats + 1 /\ loaded' = loaded
    BY <1>6 DEF Metrics!EtlRestart
  <2> QED BY <1>1, <2>1
<1>7. CASE UNCHANGED metricVars
  BY <1>7 DEF metricVars
<1> QED BY <1>2, <1>3, <1>4, <1>5, <1>6, <1>7 DEF Metrics!Next

\* A batch is left without a failure when one of its rows is not valid.
LEMMA LeftStep ==
  ASSUME MetricConstants, Metrics!TypeOK, MetricBatchInv, LeftInv, [Metrics!Next]_metricVars
  PROVE  LeftInv'
<1> USE DEF LeftInv
<1>1. ~ (Metrics!MetricFault /\ metricFaults' = 0)
  BY DEF Metrics!MetricFault, MetricBatchInv
<1>2. ASSUME NEW q \in Metrics!Quality, Metrics!Push(q) PROVE LeftInv'
  <2>1. Len(metrics) \in Nat /\ Len(metrics') = Len(metrics) + 1
        /\ \A o \in 1 .. Len(metrics) : metrics'[o] = metrics[o]
    BY <1>2, PushKeeps, RowsInLog DEF Metrics!Push
  <2>2. \A o \in skipped : Near(o) => Near(o)'
    BY <2>1 DEF Near
  <2> QED BY <1>2, <2>2 DEF Metrics!Push
<1>3. ASSUME Metrics!LoadFails, metricFaults' = 0 PROVE \A o \in skipped' : Near(o)'
  <2>1. /\ ~ Metrics!Loadable /\ metricFaults' = metricFaults
        /\ skipped' = skipped \cup Metrics!Rows /\ metrics' = metrics
    BY <1>1, <1>3 DEF Metrics!LoadFails
  <2>2. PICK p \in Metrics!Rows : metrics[p] = "invalid"
    <3>1. PICK p \in Metrics!Rows : metrics[p] # "valid"
      BY <2>1 DEF Metrics!Loadable
    <3>2. metrics[p] \in Metrics!Quality /\ metrics[p] # "broken"
      BY RowsInLog DEF Metrics!TypeOK, Metrics!Rows
    <3> QED BY <3>1, <3>2 DEF Metrics!Quality
  <2>3. \A o \in Metrics!Rows : Near(o)
    BY <2>2, RowsInLog DEF Near, MetricBatchInv
  <2>4. \A o \in skipped' : Near(o)
    BY <1>3, <2>1, <2>3
  <2> QED BY <2>1, <2>4 DEF Near
<1>4. CASE UNCHANGED <<metrics, skipped, metricFaults>>
  BY <1>4 DEF Near
<1> QED
  BY <1>1, <1>2, <1>3, <1>4
     DEF Metrics!Next, Metrics!Extract, Metrics!Load, Metrics!LoadLate, Metrics!Commit,
         Metrics!CommitFails, Metrics!EtlRestart, metricVars

LEMMA MetricInvInit ==
  ASSUME MetricConstants, Metrics!Init
  PROVE  MetricInv
<1>1. Len(metrics) = 0 /\ metrics \in Seq(Metrics!Quality) /\ reading = 1 /\ consumed = 1
  BY DEF Metrics!Init
<1>2. \A o \in Metrics!Offset : loaded[o] = 0
  BY DEF Metrics!Init
<1>3. loaded \in [Metrics!Offset -> Nat] /\ inBatch = {} /\ skipped = {} /\ repeats = 0
      /\ etlStep = "poll" /\ metricFaults = 0
  BY DEF Metrics!Init
<1>4. Metrics!TypeOK
  BY <1>1, <1>3 DEF MetricConstants, Metrics!TypeOK
<1>5. MetricBatchInv /\ BehindInv /\ CommittedInv /\ OnceInv /\ LeftInv
  BY <1>1, <1>2, <1>3 DEF MetricBatchInv, BehindInv, CommittedInv, OnceInv, LeftInv
<1> QED BY <1>4, <1>5 DEF MetricInv

LEMMA MetricsOnly == MCSpec => MetricSpec
<1>1. MCInit => Metrics!Init
  BY DEF MCInit
<1>2. [MCNext]_mcVars => [Metrics!Next]_metricVars
  BY DEF MCNext, Rest, mcVars
<1> QED BY <1>1, <1>2, PTL DEF MCSpec, MetricSpec

\* No metric behind the committed offset is missing from ClickHouse unless its batch was
\* left; none is there more often than restarts and lost answers explain; and without a
\* failure a batch is left only next to a metric that is not valid.
THEOREM MetricsLoadedAlways == MCSpec => []MetricsLoaded
<1> USE MetricConstants
<1>1. Metrics!Init => MetricInv
  BY MetricInvInit
<1>2. MetricInv /\ [Metrics!Next]_metricVars => MetricInv'
  BY MetricTypeStep, MetricBatchStep, BehindStep, CommittedStep, OnceStep, LeftStep
     DEF MetricInv
<1>3. ASSUME MetricInv PROVE MetricsLoaded
  <2>1. Metrics!TypeOK /\ MetricBatchInv /\ CommittedInv /\ OnceInv /\ LeftInv
    BY <1>3 DEF MetricInv
  <2>2. \A o \in 1 .. Len(metrics) : o \in Metrics!Offset
    BY <2>1, RowsInLog
  <2>3. ASSUME NEW o \in 1 .. Len(metrics), Near(o)
        PROVE  \E p \in o - BatchSize + 1 .. o + BatchSize - 1 :
                 p \in 1 .. Len(metrics) /\ metrics[p] = "invalid"
    <3>1. PICK p \in 1 .. Len(metrics) :
            p - o < BatchSize /\ o - p < BatchSize /\ metrics[p] = "invalid"
      BY <2>3 DEF Near
    <3>2. p \in o - BatchSize + 1 .. o + BatchSize - 1
      BY <2>1, <3>1, RowsInLog DEF MetricConstants
    <3> QED BY <3>1, <3>2
  <2>4. Metrics!MetricsLoaded
    BY <2>1, <2>2, <2>3 DEF Metrics!MetricsLoaded, CommittedInv, OnceInv, LeftInv
  <2> QED BY <2>4 DEF MetricsLoaded
<1> QED BY <1>1, <1>2, <1>3, MetricsOnly, PTL DEF MetricSpec

-----------------------------------------------------------------------------
(* event-generator.                                                         *)

OrderSpec == Orders!Init /\ [][Orders!Next]_orderVars

\* What was carried out without an answer, against the attempts at the present call.
LateInv(o) ==
  /\ written[o] = late[o] + IF stage[o] = "made" THEN 1 ELSE 0
  /\ stage[o] \in {"due", "films"} => late[o] = 0
  /\ stage[o] = "write" => late[o] <= tries[o]
  /\ stage[o] = "made" => late[o] < MaxTries
  /\ late[o] <= MaxTries

OrderInv == Orders!TypeOK /\ \A o \in Order : LateInv(o)

\* What becomes of an order: it goes to another stage, or another attempt is made.
LEMMA OrderTo ==
  ASSUME OrderConstants, Orders!TypeOK, NEW o \in Order,
         NEW s \in {"films", "write", "made", "failed"}, Orders!To(o, s)
  PROVE  /\ stage'[o] = s /\ tries'[o] = 0
         /\ \A p \in Order \ {o} : stage'[p] = stage[p] /\ tries'[p] = tries[p]
         /\ stage' \in [Order -> {"due", "films", "write", "made", "failed"}]
         /\ tries' \in [Order -> 0 .. MaxTries - 1]
BY DEF OrderConstants, Orders!TypeOK, Orders!To

LEMMA OrderAgain ==
  ASSUME OrderConstants, Orders!TypeOK, NEW o \in Order, Orders!Again(o, "failed")
  PROVE  /\ \/ tries'[o] = tries[o] + 1 /\ stage'[o] = stage[o]
            \/ tries[o] + 1 = MaxTries /\ tries'[o] = 0 /\ stage'[o] = "failed"
         /\ \A p \in Order \ {o} : stage'[p] = stage[p] /\ tries'[p] = tries[p]
         /\ stage' \in [Order -> {"due", "films", "write", "made", "failed"}]
         /\ tries' \in [Order -> 0 .. MaxTries - 1]
<1>1. tries[o] \in 0 .. MaxTries - 1 /\ MaxTries \in Nat /\ MaxTries > 0
  BY DEF OrderConstants, Orders!TypeOK
<1>2. CASE tries[o] + 1 < MaxTries
  BY <1>1, <1>2 DEF Orders!Again, Orders!TypeOK
<1>3. CASE ~ (tries[o] + 1 < MaxTries)
  <2>1. Orders!To(o, "failed")
    BY <1>3 DEF Orders!Again
  <2> QED BY <1>1, <1>3, <2>1, OrderTo
<1> QED BY <1>2, <1>3

LEMMA OrderInvStep ==
  ASSUME OrderConstants, OrderInv, [Orders!Next]_orderVars
  PROVE  OrderInv'
<1> USE DEF OrderInv
<1>1. \A o \in Order : written[o] \in Nat /\ late[o] \in Nat /\ tries[o] \in 0 .. MaxTries - 1
  BY DEF Orders!TypeOK
<1>2. MaxTries \in Nat /\ MaxTries > 0
  BY DEF OrderConstants
<1>3. ASSUME NEW o \in Order, Orders!Begin(o) \/ Orders!Invalid(o) \/ Orders!GetFilms(o)
      PROVE  OrderInv'
  <2>1. PICK s \in {"films", "write", "failed"} : Orders!To(o, s)
    BY <1>3 DEF Orders!Begin, Orders!Invalid, Orders!GetFilms
  <2>2. late[o] = 0 /\ stage[o] # "made" /\ UNCHANGED <<kind, written, late>>
    BY <1>3 DEF Orders!Begin, Orders!Invalid, Orders!GetFilms, LateInv
  <2> QED BY <1>1, <1>2, <2>1, <2>2, OrderTo DEF Orders!TypeOK, LateInv
<1>4. ASSUME NEW o \in Order, Orders!GetFilmsFails(o) \/ Orders!PostFails(o) PROVE OrderInv'
  <2>1. /\ Orders!Again(o, "failed") /\ stage[o] \in {"films", "write"}
        /\ UNCHANGED <<kind, written, late>>
    BY <1>4 DEF Orders!GetFilmsFails, Orders!PostFails
  <2> QED BY <1>1, <1>2, <2>1, OrderAgain DEF Orders!TypeOK, LateInv
<1>5. ASSUME NEW o \in Order, Orders!Made(o) PROVE OrderInv'
  <2>1. /\ written'[o] = written[o] + 1 /\ written' \in [Order -> Nat]
        /\ \A p \in Order \ {o} : written'[p] = written[p]
    BY <1>1, <1>5 DEF Orders!Made, Orders!Create, Orders!TypeOK
  <2>2. Orders!To(o, "made") /\ stage[o] = "write" /\ UNCHANGED <<kind, late>>
    BY <1>5 DEF Orders!Made
  <2> QED BY <1>1, <1>2, <2>1, <2>2, OrderTo DEF Orders!TypeOK, LateInv
<1>6. ASSUME NEW o \in Order, Orders!PostLate(o) PROVE OrderInv'
  <2>1. /\ written'[o] = written[o] + 1 /\ written' \in [Order -> Nat]
        /\ \A p \in Order \ {o} : written'[p] = written[p]
    BY <1>1, <1>6 DEF Orders!PostLate, Orders!Create, Orders!TypeOK
  <2>2. /\ late'[o] = late[o] + 1 /\ late' \in [Order -> Nat]
        /\ \A p \in Order \ {o} : late'[p] = late[p]
    BY <1>1, <1>6 DEF Orders!PostLate, Orders!TypeOK
  <2>3. Orders!Again(o, "failed") /\ stage[o] = "write" /\ UNCHANGED kind
    BY <1>6 DEF Orders!PostLate
  <2> QED BY <1>1, <1>2, <2>1, <2>2, <2>3, OrderAgain DEF Orders!TypeOK, LateInv
<1>7. ASSUME NEW o \in Order, Orders!Stop(o) PROVE OrderInv'
  <2>1. /\ Orders!To(o, "failed") /\ stage[o] \in {"films", "write"}
        /\ UNCHANGED <<kind, written, late>>
    BY <1>7 DEF Orders!Stop
  <2> QED BY <1>1, <1>2, <2>1, OrderTo DEF Orders!TypeOK, LateInv
<1>8. CASE UNCHANGED orderVars
  BY <1>8 DEF orderVars, Orders!TypeOK, LateInv
<1> QED
  BY <1>3, <1>4, <1>5, <1>6, <1>7, <1>8
     DEF Orders!Next, Orders!SendFilms, Orders!CreateMassNotify, Orders!CreateTemplate

LEMMA OrdersOnly == MCSpec => OrderSpec
<1>1. MCInit => Orders!Init
  BY DEF MCInit
<1>2. [MCNext]_mcVars => [Orders!Next]_orderVars
  BY DEF MCNext, Rest, mcVars
<1> QED BY <1>1, <1>2, PTL DEF MCSpec, OrderSpec

\* A mailing or a template exists as often as the answers that were given and those that
\* were lost say, and never more often than max_tries.
THEOREM OrderIsMailedOnce == MCSpec => []OneOrderOneMailing
<1> USE OrderConstants
<1>1. Orders!Init => OrderInv
  BY DEF OrderConstants, Orders!Init, OrderInv, Orders!TypeOK, LateInv
<1>2. OrderInv /\ [Orders!Next]_orderVars => OrderInv'
  BY OrderInvStep
<1>3. ASSUME OrderInv, NEW o \in Order PROVE written[o] <= MaxTries
  BY <1>3 DEF OrderConstants, OrderInv, Orders!TypeOK, LateInv
<1>4. OrderInv => OneOrderOneMailing
  BY <1>3 DEF OrderInv, LateInv, OneOrderOneMailing, Orders!OneOrderOneMailing
<1> QED BY <1>1, <1>2, <1>4, OrdersOnly, PTL DEF OrderSpec

-----------------------------------------------------------------------------
(* recs-profile.                                                            *)

RecSpec == Recs!Init /\ [][Recs!Next]_recVars

\* The row of e is in the open transaction.
InView(e) == \E i \in 1 .. Len(view[topic[e]]) : view[topic[e]][i] = e

\* An event that left the batch, or whose handler is past its commit, has its row or the
\* reason why not; one that is about to commit has its row in the transaction.
KeptInv ==
  /\ position <= Len(topic) + 1
  /\ \A e \in Recs!Event :
       /\ handling[e] # "none" => e < position
       /\ e < position => handling[e] # "none" \/ e \in handled \cup dropped
       /\ handling[e] \in {"close", "done"} => e \in handled \cup dropped
       /\ handling[e] = "commit" => e \in handled \cup dropped \/ InView(e)

\* The handlers that have selected and deleted, and are about to add a row of u.
Adders(u) == {f \in Recs!Batch : handling[f] = "add" /\ topic[f] = u}

MaxRows == CountRecs - 1 + MaxBatch

\* The rows of u, with those that are about to be added, fit.
RoomInv ==
  /\ Cardinality(Recs!Batch) <= MaxBatch
  /\ \A u \in RecUser :
       /\ Len(recs[u]) <= MaxRows + undone
       /\ Len(view[u]) + Cardinality(Adders(u)) <= MaxRows + undone

RecInv == Recs!TypeOK /\ KeptInv /\ RoomInv

\* The instance has a definition of Cardinality of its own.
LEMMA SameCount ==
  ASSUME NEW S
  PROVE  Recs!Cardinality(S) = Cardinality(S)
BY DEF Recs!Cardinality, Cardinality

LEMMA SomeEvents ==
  ASSUME RecConstants, NEW S \in SUBSET Recs!Event
  PROVE  IsFiniteSet(S) /\ Cardinality(S) \in Nat
<1>1. IsFiniteSet(Recs!Event)
  BY FS_Interval DEF RecConstants, Recs!Event
<1> QED BY <1>1, FS_Subset, FS_CardinalityType

LEMMA FewerEvents ==
  ASSUME RecConstants, NEW S \in SUBSET Recs!Event, NEW T \in SUBSET S
  PROVE  Cardinality(T) <= Cardinality(S)
BY SomeEvents, FS_Subset

LEMMA UndoneGrows ==
  ASSUME RecConstants, Recs!TypeOK, NEW e \in Recs!Event, Recs!Rollback(e)
  PROVE  undone' \in Nat /\ undone' >= undone
<1> DEFINE U == {f \in Recs!Batch \ {e} : handling[f] = "add"}
<1>1. Cardinality(U) \in Nat
  <2>1. U \in SUBSET Recs!Event
    BY DEF Recs!Batch
  <2> QED BY <2>1, SomeEvents
<1>2. undone' = undone + Cardinality(U)
  BY SameCount DEF Recs!Rollback
<1> HIDE DEF U
<1> QED BY <1>1, <1>2 DEF Recs!TypeOK

LEMMA RowsCut ==
  ASSUME RecConstants, NEW rows \in Seq(Recs!Event)
  PROVE  LET cut == SubSeq(rows, Recs!Surplus(rows) + 1, Len(rows))
         IN  /\ Recs!Surplus(rows) \in 0 .. Len(rows)
             /\ cut \in Seq(Recs!Event) /\ Len(cut) <= CountRecs - 1
             /\ Len(cut) = Len(rows) - Recs!Surplus(rows)
             /\ \A i \in 1 .. Len(cut) : cut[i] = rows[Recs!Surplus(rows) + i]
<1> DEFINE s == Recs!Surplus(rows)
<1>1. Len(rows) \in Nat
  BY LenProperties
<1>2. s \in 0 .. Len(rows) /\ Len(rows) - s <= CountRecs - 1
  BY <1>1 DEF RecConstants, Recs!Surplus
<1> HIDE DEF s
<1>3. SubSeq(rows, s + 1, Len(rows)) \in Seq(Recs!Event)
  BY <1>1, <1>2
<1>4. Len(SubSeq(rows, s + 1, Len(rows))) = Len(rows) - s
  BY <1>1, <1>2
<1>5. ASSUME NEW i \in 1 .. (Len(rows) - s)
      PROVE SubSeq(rows, s + 1, Len(rows))[i] = rows[s + i]
  BY <1>1, <1>2
<1> QED BY <1>2, <1>3, <1>4, <1>5 DEF s

LEMMA SelectEffect ==
  ASSUME RecConstants, Recs!TypeOK, NEW e \in Recs!Event, topic[e] \in RecUser,
         Recs!Select(e)
  PROVE  /\ view' \in [RecUser -> Seq(Recs!Event)]
         /\ \A u \in RecUser \ {topic[e]} : view'[u] = view[u]
         /\ Len(view'[topic[e]]) <= CountRecs - 1
         /\ dropped' \subseteq Recs!Event /\ dropped \subseteq dropped'
         /\ \A f \in Recs!Event :
              (\E i \in 1 .. Len(view[topic[e]]) : view[topic[e]][i] = f)
              => \/ \E i \in 1 .. Len(view'[topic[e]]) : view'[topic[e]][i] = f
                 \/ f \in handled \cup dropped'
<1> DEFINE rows == view[topic[e]]
           s == Recs!Surplus(rows)
           cut == SubSeq(rows, s + 1, Len(rows))
<1>1. rows \in Seq(Recs!Event)
  BY DEF Recs!TypeOK
<1>2. /\ s \in 0 .. Len(rows) /\ cut \in Seq(Recs!Event) /\ Len(cut) <= CountRecs - 1
      /\ Len(cut) = Len(rows) - s /\ \A i \in 1 .. Len(cut) : cut[i] = rows[s + i]
  BY <1>1, RowsCut
<1>3. view' = [view EXCEPT ![topic[e]] = cut]
      /\ dropped' = dropped \cup ({rows[i] : i \in 1 .. s} \ handled)
  BY DEF Recs!Select
<1>4. Len(rows) \in Nat /\ \A i \in 1 .. Len(rows) : rows[i] \in Recs!Event
  BY <1>1
<1> HIDE DEF rows, s, cut
<1>5. view'[topic[e]] = cut /\ \A u \in RecUser \ {topic[e]} : view'[u] = view[u]
  BY <1>3 DEF Recs!TypeOK
<1>6. view' \in [RecUser -> Seq(Recs!Event)]
  BY <1>2, <1>3 DEF Recs!TypeOK
<1>7. dropped' \subseteq Recs!Event /\ dropped \subseteq dropped'
  BY <1>2, <1>3, <1>4 DEF Recs!TypeOK
<1>8. ASSUME NEW f \in Recs!Event, NEW i \in 1 .. Len(rows), rows[i] = f
      PROVE (\E j \in 1 .. Len(cut) : cut[j] = f) \/ f \in handled \cup dropped'
  <2>1. CASE i <= s
    BY <1>2, <1>3, <1>8, <2>1
  <2>2. CASE i > s
    <3>1. i - s \in 1 .. Len(cut) /\ cut[i - s] = rows[s + (i - s)]
      BY <1>2, <1>4, <2>2
    <3>2. s + (i - s) = i
      BY <1>2, <1>4
    <3> QED BY <1>8, <3>1, <3>2
  <2> QED BY <1>2, <1>4, <2>1, <2>2
<1>9. view[topic[e]] = rows
  BY DEF rows
<1> QED BY <1>2, <1>5, <1>6, <1>7, <1>8, <1>9

LEMMA RecTypeStep ==
  ASSUME RecConstants, Recs!TypeOK, KeptInv, [Recs!Next]_recVars
  PROVE  Recs!TypeOK'
<1> USE DEF RecConstants
<1>0. ASSUME NEW e \in Recs!Event, handling[e] # "none"
      PROVE  topic[e] \in RecUser /\ e \in 1 .. Len(topic)
  BY <1>0 DEF Recs!TypeOK, KeptInv, Recs!Event
<1>1. ASSUME NEW u \in RecUser, Recs!Push(u) PROVE Recs!TypeOK'
  BY <1>1 DEF Recs!Push, Recs!TypeOK, Recs!Event, Recs!InSession
<1>2. ASSUME NEW n \in 1 .. MaxBatch, Recs!Poll(n) PROVE Recs!TypeOK'
  BY <1>2 DEF Recs!Poll, Recs!TypeOK, Recs!Event, Recs!InSession
<1>3. CASE Recs!AutoCommit
  BY <1>3 DEF Recs!AutoCommit, Recs!TypeOK
<1>4. CASE Recs!BatchDone \/ Recs!RecRestart
  <2>1. handling' \in [Recs!Event -> {"none", "fetch", "embed", "done"} \cup Recs!InSession]
    BY <1>4 DEF Recs!BatchDone, Recs!RecRestart
  <2>2. dropped' \subseteq Recs!Event /\ view' \in [RecUser -> Seq(Recs!Event)]
    BY <1>4 DEF Recs!BatchDone, Recs!RecRestart, Recs!Batch, Recs!TypeOK
  <2>3. position' \in 1 .. MaxEvents + 1 /\ committed \in 1 .. position'
    BY <1>4 DEF Recs!BatchDone, Recs!RecRestart, Recs!TypeOK
  <2>4. UNCHANGED <<topic, committed, recs, handled, undone>>
    BY <1>4 DEF Recs!BatchDone, Recs!RecRestart
  <2> QED BY <2>1, <2>2, <2>3, <2>4 DEF Recs!TypeOK
<1>5. ASSUME NEW e \in Recs!Event,
             Recs!FetchFilms(e) \/ Recs!FetchEmbedding(e) \/ Recs!FetchFails(e)
      PROVE  Recs!TypeOK'
  BY <1>5 DEF Recs!FetchFilms, Recs!FetchEmbedding, Recs!FetchFails, Recs!Step, Recs!TypeOK,
              Recs!InSession
<1>6. ASSUME NEW e \in Recs!Event, Recs!Select(e) PROVE Recs!TypeOK'
  <2>1. topic[e] \in RecUser
    BY <1>0, <1>6 DEF Recs!Select
  <2>2. view' \in [RecUser -> Seq(Recs!Event)] /\ dropped' \subseteq Recs!Event
    BY <1>6, <2>1, SelectEffect
  <2>3. handling' \in [Recs!Event -> {"none", "fetch", "embed", "done"} \cup Recs!InSession]
        /\ UNCHANGED <<topic, position, committed, recs, handled, undone>>
    BY <1>6 DEF Recs!Select, Recs!Step, Recs!TypeOK, Recs!InSession
  <2> QED BY <2>2, <2>3 DEF Recs!TypeOK
<1>7. ASSUME NEW e \in Recs!Event, Recs!Add(e) PROVE Recs!TypeOK'
  <2>1. topic[e] \in RecUser
    BY <1>0, <1>7 DEF Recs!Add
  <2>2. view' \in [RecUser -> Seq(Recs!Event)]
    BY <1>7, <2>1 DEF Recs!Add, Recs!TypeOK
  <2>3. handling' \in [Recs!Event -> {"none", "fetch", "embed", "done"} \cup Recs!InSession]
        /\ UNCHANGED <<topic, position, committed, recs, handled, dropped, undone>>
    BY <1>7 DEF Recs!Add, Recs!Step, Recs!TypeOK, Recs!InSession
  <2> QED BY <2>2, <2>3 DEF Recs!TypeOK
<1>8. ASSUME NEW e \in Recs!Event, Recs!Commit(e) PROVE Recs!TypeOK'
  BY <1>8 DEF Recs!Commit, Recs!Step, Recs!TypeOK, Recs!InSession
<1>9. ASSUME NEW e \in Recs!Event, Recs!Close(e) \/ Recs!SessionFails(e) PROVE Recs!TypeOK'
  <2>1. undone' \in Nat
    BY <1>9, UndoneGrows DEF Recs!Close, Recs!SessionFails
  <2>2. dropped' \subseteq Recs!Event
    BY <1>9 DEF Recs!Close, Recs!SessionFails, Recs!Flushed, Recs!Batch, Recs!TypeOK
  <2>3. view' = recs /\ UNCHANGED <<topic, position, committed, recs, handled>>
        /\ handling' \in [Recs!Event -> {"none", "fetch", "embed", "done"} \cup Recs!InSession]
    BY <1>9 DEF Recs!Close, Recs!SessionFails, Recs!Rollback, Recs!Step, Recs!TypeOK,
                Recs!InSession
  <2> QED BY <2>1, <2>2, <2>3 DEF Recs!TypeOK
<1>10. CASE UNCHANGED recVars
  BY <1>10 DEF recVars, Recs!TypeOK
<1> QED
  BY <1>1, <1>2, <1>3, <1>4, <1>5, <1>6, <1>7, <1>8, <1>9, <1>10 DEF Recs!Next

LEMMA KeptStep ==
  ASSUME RecConstants, Recs!TypeOK, KeptInv, [Recs!Next]_recVars
  PROVE  KeptInv'
<1> USE DEF RecConstants
<1>0. ASSUME NEW e \in Recs!Event, handling[e] # "none"
      PROVE  topic[e] \in RecUser /\ e \in 1 .. Len(topic)
  BY <1>0 DEF Recs!TypeOK, KeptInv, Recs!Event
<1>a. Len(topic) \in Nat /\ position \in Nat /\ committed \in Nat /\ committed <= position
      /\ Recs!Event \subseteq Nat
  BY DEF Recs!TypeOK, Recs!Event
<1>1. ASSUME NEW u \in RecUser, Recs!Push(u) PROVE KeptInv'
  <2>1. Len(topic') = Len(topic) + 1 /\ \A i \in 1 .. Len(topic) : topic'[i] = topic[i]
    BY <1>1 DEF Recs!Push, Recs!TypeOK
  <2>2. UNCHANGED <<position, handling, view, handled, dropped>>
    BY <1>1 DEF Recs!Push
  <2>3. ASSUME NEW e \in Recs!Event, handling[e] = "commit", InView(e) PROVE InView(e)'
    <3>1. topic'[e] = topic[e]
      BY <1>0, <2>1, <2>3
    <3> QED BY <2>2, <2>3, <3>1 DEF InView
  <2>4. position' <= Len(topic') + 1
    BY <1>a, <2>1, <2>2 DEF KeptInv
  <2> QED BY <2>2, <2>3, <2>4 DEF KeptInv
<1>2. ASSUME NEW n \in 1 .. MaxBatch, Recs!Poll(n) PROVE KeptInv'
  BY <1>2, <1>a DEF Recs!Poll, KeptInv, Recs!Batch
<1>3. CASE Recs!AutoCommit
  BY <1>3 DEF Recs!AutoCommit, KeptInv, InView
<1>4. CASE Recs!BatchDone
  BY <1>4 DEF Recs!BatchDone, KeptInv, Recs!Batch
<1>5. CASE Recs!RecRestart
  BY <1>5, <1>a DEF Recs!RecRestart, KeptInv, Recs!Batch
<1>6. ASSUME NEW e \in Recs!Event,
             Recs!FetchFilms(e) \/ Recs!FetchEmbedding(e) \/ Recs!FetchFails(e)
      PROVE  KeptInv'
  <2>1. UNCHANGED <<topic, position, view, handled>>
    BY <1>6 DEF Recs!FetchFilms, Recs!FetchEmbedding, Recs!FetchFails
  <2>2. \/ handling' = [handling EXCEPT ![e] = "embed"] /\ dropped' = dropped
        \/ handling' = [handling EXCEPT ![e] = "select"] /\ dropped' = dropped
        \/ handling' = [handling EXCEPT ![e] = "done"] /\ dropped' = dropped \cup {e}
    BY <1>6 DEF Recs!FetchFilms, Recs!FetchEmbedding, Recs!FetchFails, Recs!Step
  <2>3. handling[e] # "none"
    BY <1>6 DEF Recs!FetchFilms, Recs!FetchEmbedding, Recs!FetchFails
  <2>4. ASSUME NEW f \in Recs!Event, InView(f) PROVE InView(f)'
    BY <2>1, <2>4 DEF InView
  <2> QED BY <2>1, <2>2, <2>3, <2>4 DEF KeptInv, Recs!TypeOK
<1>7. ASSUME NEW e \in Recs!Event, Recs!Select(e) PROVE KeptInv'
  <2>1. topic[e] \in RecUser
    BY <1>0, <1>7 DEF Recs!Select
  <2>2. UNCHANGED <<topic, position, handled>> /\ handling[e] = "select"
        /\ handling' = [handling EXCEPT ![e] = "add"]
    BY <1>7 DEF Recs!Select, Recs!Step
  <2>3. dropped \subseteq dropped'
    BY <1>7, <2>1, SelectEffect
  <2>4. ASSUME NEW f \in Recs!Event, handling[f] = "commit", InView(f)
        PROVE  InView(f)' \/ f \in handled \cup dropped'
    <3>1. topic[f] \in RecUser
      BY <1>0, <2>4
    <3>2. CASE topic[f] = topic[e]
      BY <1>7, <2>1, <2>2, <2>4, <3>2, SelectEffect DEF InView
    <3>3. CASE topic[f] # topic[e]
      <4>1. view'[topic[f]] = view[topic[f]]
        BY <1>7, <2>1, <3>1, <3>3, SelectEffect
      <4> QED BY <2>2, <2>4, <4>1 DEF InView
    <3> QED BY <3>2, <3>3
  <2> QED BY <2>2, <2>3, <2>4 DEF KeptInv, Recs!TypeOK
<1>8. ASSUME NEW e \in Recs!Event, Recs!Add(e) PROVE KeptInv'
  <2>1. UNCHANGED <<topic, position, handled, dropped>> /\ handling[e] = "add"
        /\ handling' = [handling EXCEPT ![e] = "commit"]
        /\ view' = [view EXCEPT ![topic[e]] = Append(view[topic[e]], e)]
    BY <1>8 DEF Recs!Add, Recs!Step
  <2>2. topic[e] \in RecUser
    BY <1>0, <2>1
  <2>3. ASSUME NEW rows \in Seq(Recs!Event)
        PROVE  /\ Len(rows) + 1 \in 1 .. Len(Append(rows, e))
               /\ Append(rows, e)[Len(rows) + 1] = e
               /\ \A i \in 1 .. Len(rows) :
                    i \in 1 .. Len(Append(rows, e)) /\ Append(rows, e)[i] = rows[i]
    OBVIOUS
  <2>4. view[topic[e]] \in Seq(Recs!Event) /\ view'[topic[e]] = Append(view[topic[e]], e)
        /\ \A u \in RecUser : u # topic[e] => view'[u] = view[u]
    BY <2>1, <2>2 DEF Recs!TypeOK
  <2>5. InView(e)'
    BY <2>1, <2>3, <2>4 DEF InView
  <2>6. ASSUME NEW f \in Recs!Event, handling[f] = "commit", InView(f) PROVE InView(f)'
    <3>1. topic[f] \in RecUser
      BY <1>0, <2>6
    <3>2. CASE topic[f] = topic[e]
      BY <2>1, <2>3, <2>4, <2>6, <3>2 DEF InView
    <3>3. CASE topic[f] # topic[e]
      BY <2>1, <2>4, <2>6, <3>1, <3>3 DEF InView
    <3> QED BY <3>2, <3>3
  <2> QED BY <2>1, <2>5, <2>6 DEF KeptInv, Recs!TypeOK
<1>9. ASSUME NEW e \in Recs!Event, Recs!Commit(e) PROVE KeptInv'
  <2>1. UNCHANGED <<topic, position, view, dropped>> /\ handling[e] = "commit"
        /\ handling' = [handling EXCEPT ![e] = "close"] /\ handled \subseteq handled'
        /\ handled' = handled \cup UNION {{view[u][i] : i \in 1 .. Len(view[u])} : u \in RecUser}
    BY <1>9 DEF Recs!Commit, Recs!Step
  <2>2. topic[e] \in RecUser
    BY <1>0, <2>1
  <2>3. InView(e) => e \in handled'
    BY <2>1, <2>2 DEF InView
  <2>4. ASSUME NEW f \in Recs!Event, InView(f) PROVE InView(f)'
    BY <2>1, <2>4 DEF InView
  <2> QED BY <2>1, <2>3, <2>4 DEF KeptInv, Recs!TypeOK
<1>10. ASSUME NEW e \in Recs!Event, Recs!Close(e) PROVE KeptInv'
  BY <1>10 DEF Recs!Close, Recs!Rollback, Recs!Step, Recs!Flushed, Recs!Batch, Recs!TypeOK,
               KeptInv
<1>11. ASSUME NEW e \in Recs!Event, Recs!SessionFails(e) PROVE KeptInv'
  BY <1>11 DEF Recs!SessionFails, Recs!Rollback, Recs!Step, Recs!Flushed, Recs!Batch, Recs!TypeOK,
               KeptInv
<1>12. CASE UNCHANGED recVars
  BY <1>12 DEF recVars, KeptInv, InView
<1> QED
  BY <1>1, <1>2, <1>3, <1>4, <1>5, <1>6, <1>7, <1>8, <1>9, <1>10, <1>11, <1>12 DEF Recs!Next

\* The handlers that a rollback leaves without their deletion.
LEMMA RollbackRoom ==
  ASSUME RecConstants, Recs!TypeOK, RoomInv, NEW e \in Recs!Event, Recs!Rollback(e),
         handling' = [handling EXCEPT ![e] = "select"]
           \/ handling' = [handling EXCEPT ![e] = "done"],
         handling[e] # "none", UNCHANGED <<topic, recs>>
  PROVE  RoomInv'
<1> DEFINE U == {f \in Recs!Batch \ {e} : handling[f] = "add"}
<1>1. U \in SUBSET Recs!Event
  BY DEF Recs!Batch
<1>2. undone' = undone + Cardinality(U) /\ view' = recs
  BY SameCount DEF Recs!Rollback
<1>3. ASSUME NEW u \in RecUser PROVE Adders(u)' \in SUBSET U
  BY DEF Adders, Recs!Batch, Recs!TypeOK
<1>4. Recs!Batch' = Recs!Batch
  BY DEF Recs!Batch, Recs!TypeOK
<1>5. Cardinality(U) \in Nat
  BY <1>1, SomeEvents
<1> HIDE DEF U
<1>6. ASSUME NEW u \in RecUser
      PROVE  /\ Len(recs'[u]) <= MaxRows + undone'
             /\ Len(view'[u]) + Cardinality(Adders(u)') <= MaxRows + undone'
  <2>1. Cardinality(Adders(u)') <= Cardinality(U) /\ Cardinality(Adders(u)') \in Nat
    BY <1>1, <1>3, FewerEvents, SomeEvents
  <2>2. Len(recs[u]) <= MaxRows + undone
    BY DEF RoomInv
  <2>3. Len(recs[u]) \in Nat /\ undone \in Nat /\ MaxRows \in Nat
    BY DEF Recs!TypeOK, MaxRows, RecConstants
  <2> QED BY <1>2, <1>5, <2>1, <2>2, <2>3
<1> QED BY <1>4, <1>6 DEF RoomInv

LEMMA RoomStep ==
  ASSUME RecConstants, Recs!TypeOK, KeptInv, RoomInv, [Recs!Next]_recVars
  PROVE  RoomInv'
<1> USE DEF RecConstants
<1>0. ASSUME NEW e \in Recs!Event, handling[e] # "none"
      PROVE  topic[e] \in RecUser /\ e \in 1 .. Len(topic)
  BY <1>0 DEF Recs!TypeOK, KeptInv, Recs!Event
<1>a. /\ MaxRows \in Nat /\ undone \in Nat
      /\ \A u \in RecUser : Len(recs[u]) \in Nat /\ Len(view[u]) \in Nat
  BY DEF MaxRows, Recs!TypeOK
<1>b. ASSUME NEW u \in RecUser PROVE Adders(u) \in SUBSET Recs!Event
  BY DEF Adders, Recs!Batch
<1>1. ASSUME NEW u \in RecUser, Recs!Push(u) PROVE RoomInv'
  <2>1. UNCHANGED <<handling, recs, view, undone>>
    BY <1>1 DEF Recs!Push
  <2>2. ASSUME NEW e \in Recs!Batch PROVE topic'[e] = topic[e]
    BY <1>0, <1>1 DEF Recs!Push, Recs!Batch, Recs!TypeOK
  <2>3. Recs!Batch' = Recs!Batch
    BY <2>1 DEF Recs!Batch
  <2>4. ASSUME NEW w \in RecUser PROVE Adders(w)' = Adders(w)
    BY <2>1, <2>2, <2>3 DEF Adders
  <2> QED BY <2>1, <2>3, <2>4 DEF RoomInv
<1>2. ASSUME NEW n \in 1 .. MaxBatch, Recs!Poll(n) PROVE RoomInv'
  <2>1. /\ Recs!Batch = {} /\ UNCHANGED <<recs, view, undone>>
        /\ handling' = [e \in Recs!Event |->
                          IF e \in position .. position + n - 1 THEN "fetch" ELSE "none"]
    BY <1>2 DEF Recs!Poll
  <2>2. ASSUME NEW w \in RecUser PROVE Adders(w)' = {} /\ Adders(w) = {}
    BY <2>1 DEF Adders, Recs!Batch
  <2>3. Recs!Batch' \subseteq position .. position + n - 1
    BY <2>1 DEF Recs!Batch
  <2>4. Cardinality(Recs!Batch') <= n
    <3>1. position \in Nat /\ n \in Nat
      BY DEF Recs!TypeOK
    <3>2. IsFiniteSet(position .. position + n - 1)
          /\ Cardinality(position .. position + n - 1) = n
      BY <3>1, <1>2, FS_Interval
    <3>3. Recs!Batch' \in SUBSET (position .. position + n - 1)
      BY <2>3
    <3>4. Cardinality(Recs!Batch') <= Cardinality(position .. position + n - 1)
      BY <3>2, <3>3, FS_Subset
    <3> QED BY <3>2, <3>4
  <2>5. Cardinality(Recs!Batch') \in Nat
    BY SomeEvents DEF Recs!Batch
  <2>6. Cardinality(Recs!Batch') <= MaxBatch
    BY <2>4, <2>5
  <2>7. ASSUME NEW w \in RecUser
        PROVE  /\ Len(recs'[w]) <= MaxRows + undone'
               /\ Len(view'[w]) + Cardinality(Adders(w)') <= MaxRows + undone'
    <3>1. Cardinality(Adders(w)') = Cardinality(Adders(w))
      BY <2>2
    <3> QED BY <2>1, <3>1 DEF RoomInv
  <2> QED BY <2>6, <2>7 DEF RoomInv
<1>3. CASE Recs!AutoCommit
  BY <1>3 DEF Recs!AutoCommit, RoomInv, Adders, Recs!Batch
<1>4. CASE Recs!BatchDone \/ Recs!RecRestart
  <2>1. handling' = [e \in Recs!Event |-> "none"] /\ UNCHANGED <<recs, undone>>
        /\ (view' = view \/ view' = recs)
    BY <1>4 DEF Recs!BatchDone, Recs!RecRestart
  <2>2. Recs!Batch' = {} /\ \A u \in RecUser : Adders(u)' = {}
    BY <2>1 DEF Recs!Batch, Adders
  <2>3. Cardinality({}) = 0
    BY FS_EmptySet
  <2>4. \A u \in RecUser : Cardinality(Adders(u)) \in Nat
    BY <1>b, SomeEvents
  <2>5. ASSUME NEW u \in RecUser
        PROVE  /\ Len(recs'[u]) <= MaxRows + undone'
               /\ Len(view'[u]) + Cardinality(Adders(u)') <= MaxRows + undone'
    <3>1. /\ Len(recs[u]) <= MaxRows + undone
          /\ Len(view[u]) + Cardinality(Adders(u)) <= MaxRows + undone
      BY DEF RoomInv
    <3>2. Cardinality(Adders(u)') = 0
      BY <2>2, <2>3
    <3> QED BY <1>a, <2>1, <2>4, <3>1, <3>2
  <2>6. Cardinality(Recs!Batch') <= MaxBatch
    BY <2>2, <2>3
  <2> QED BY <2>5, <2>6 DEF RoomInv
<1>5. ASSUME NEW e \in Recs!Event,
             Recs!FetchFilms(e) \/ Recs!FetchEmbedding(e) \/ Recs!FetchFails(e)
                \/ Recs!Commit(e)
      PROVE  RoomInv'
  <2>1. Recs!Batch' = Recs!Batch /\ \A u \in RecUser : Adders(u)' = Adders(u)
    BY <1>5 DEF Recs!FetchFilms, Recs!FetchEmbedding, Recs!FetchFails, Recs!Commit, Recs!Step,
                Recs!Batch, Adders, Recs!TypeOK
  <2>2. UNCHANGED <<view, undone>> /\ (recs' = recs \/ recs' = view)
    BY <1>5 DEF Recs!FetchFilms, Recs!FetchEmbedding, Recs!FetchFails, Recs!Commit
  <2>4. \A u \in RecUser : Cardinality(Adders(u)) \in Nat
    BY <1>b, SomeEvents
  <2> QED BY <1>a, <2>1, <2>2, <2>4 DEF RoomInv
<1>6. ASSUME NEW e \in Recs!Event, Recs!Select(e) PROVE RoomInv'
  <2>1. handling[e] = "select" /\ handling' = [handling EXCEPT ![e] = "add"]
        /\ UNCHANGED <<topic, recs, undone>>
    BY <1>6 DEF Recs!Select, Recs!Step
  <2>2. topic[e] \in RecUser
    BY <1>0, <2>1
  <2>3. Len(view'[topic[e]]) <= CountRecs - 1 /\ view' \in [RecUser -> Seq(Recs!Event)]
        /\ \A u \in RecUser \ {topic[e]} : view'[u] = view[u]
    BY <1>6, <2>2, SelectEffect
  <2>4. Recs!Batch' = Recs!Batch /\ Recs!Batch \in SUBSET Recs!Event
        /\ \A u \in RecUser \ {topic[e]} : Adders(u)' = Adders(u)
    BY <2>1 DEF Recs!Batch, Adders, Recs!TypeOK
  <2>5. Adders(topic[e])' \in SUBSET Recs!Batch
    BY <2>4 DEF Adders
  <2>6. Cardinality(Adders(topic[e])') <= MaxBatch /\ Cardinality(Adders(topic[e])') \in Nat
    <3>1. Cardinality(Adders(topic[e])') <= Cardinality(Recs!Batch)
      BY <2>4, <2>5, FewerEvents
    <3>2. Cardinality(Adders(topic[e])') \in Nat /\ Cardinality(Recs!Batch) \in Nat
      BY <2>4, <2>5, SomeEvents
    <3> QED BY <3>1, <3>2 DEF RoomInv
  <2>7. Len(view'[topic[e]]) + Cardinality(Adders(topic[e])') <= MaxRows + undone
    <3>1. Len(view'[topic[e]]) \in Nat
      BY <2>2, <2>3
    <3> QED BY <1>a, <2>3, <2>6, <3>1 DEF MaxRows
  <2>8. ASSUME NEW u \in RecUser
        PROVE  Len(view'[u]) + Cardinality(Adders(u)') <= MaxRows + undone'
    <3>1. CASE u = topic[e]
      BY <2>1, <2>7, <3>1
    <3>2. CASE u # topic[e]
      BY <2>1, <2>3, <2>4, <3>2 DEF RoomInv
    <3> QED BY <3>1, <3>2
  <2> QED BY <2>1, <2>4, <2>8 DEF RoomInv
<1>7. ASSUME NEW e \in Recs!Event, Recs!Add(e) PROVE RoomInv'
  <2>1. handling[e] = "add" /\ handling' = [handling EXCEPT ![e] = "commit"]
        /\ UNCHANGED <<topic, recs, undone>>
        /\ view' = [view EXCEPT ![topic[e]] = Append(view[topic[e]], e)]
    BY <1>7 DEF Recs!Add, Recs!Step
  <2>2. topic[e] \in RecUser
    BY <1>0, <2>1
  <2>3. Len(view'[topic[e]]) = Len(view[topic[e]]) + 1
        /\ \A u \in RecUser \ {topic[e]} : view'[u] = view[u]
    BY <2>1, <2>2 DEF Recs!TypeOK
  <2>4. Recs!Batch' = Recs!Batch
        /\ \A u \in RecUser \ {topic[e]} : Adders(u)' = Adders(u)
    BY <2>1 DEF Recs!Batch, Adders, Recs!TypeOK
  <2>5. e \in Adders(topic[e]) /\ Adders(topic[e])' = Adders(topic[e]) \ {e}
    BY <2>1 DEF Recs!Batch, Adders, Recs!TypeOK
  <2>6. Cardinality(Adders(topic[e])') = Cardinality(Adders(topic[e])) - 1
        /\ Cardinality(Adders(topic[e])) \in Nat
    BY <1>b, <2>2, <2>5, SomeEvents, FS_RemoveElement
  <2>7. ASSUME NEW u \in RecUser
        PROVE  Len(view'[u]) + Cardinality(Adders(u)') <= MaxRows + undone'
    <3>1. CASE u = topic[e]
      <4>1. Len(view[u]) + Cardinality(Adders(u)) <= MaxRows + undone
        BY DEF RoomInv
      <4> QED BY <1>a, <2>1, <2>3, <2>6, <3>1, <4>1
    <3>2. CASE u # topic[e]
      BY <2>1, <2>3, <2>4, <3>2 DEF RoomInv
    <3> QED BY <3>1, <3>2
  <2> QED BY <2>1, <2>4, <2>7 DEF RoomInv
<1>8. ASSUME NEW e \in Recs!Event, Recs!Close(e) \/ Recs!SessionFails(e) PROVE RoomInv'
  <2>1. /\ Recs!Rollback(e) /\ handling[e] # "none" /\ UNCHANGED <<topic, recs>>
        /\ \/ handling' = [handling EXCEPT ![e] = "select"]
           \/ handling' = [handling EXCEPT ![e] = "done"]
    BY <1>8 DEF Recs!Close, Recs!SessionFails, Recs!Step
  <2> QED BY <2>1, RollbackRoom
<1>9. CASE UNCHANGED recVars
  BY <1>9 DEF recVars, RoomInv, Adders, Recs!Batch
<1> QED
  BY <1>1, <1>2, <1>3, <1>4, <1>5, <1>6, <1>7, <1>8, <1>9 DEF Recs!Next

LEMMA RecInvInit ==
  ASSUME RecConstants, Recs!Init
  PROVE  RecInv
<1> USE DEF Recs!Init, RecConstants
<1>1. Recs!TypeOK
  BY DEF Recs!TypeOK, Recs!InSession
<1>2. KeptInv
  BY DEF KeptInv, Recs!Event
<1>3. Recs!Batch = {} /\ \A u \in RecUser : Adders(u) = {}
  BY DEF Recs!Batch, Adders
<1>4. RoomInv
  <2>1. Cardinality({}) = 0
    BY FS_EmptySet
  <2>2. \A u \in RecUser : Len(recs[u]) = 0 /\ Len(view[u]) = 0
    OBVIOUS
  <2>3. ASSUME NEW u \in RecUser
        PROVE  /\ Len(recs[u]) <= MaxRows + undone
               /\ Len(view[u]) + Cardinality(Adders(u)) <= MaxRows + undone
    <3>1. Cardinality(Adders(u)) = 0
      BY <1>3, <2>1
    <3> QED BY <2>2, <3>1 DEF MaxRows
  <2>4. Cardinality(Recs!Batch) <= MaxBatch
    BY <1>3, <2>1
  <2> QED BY <2>3, <2>4 DEF RoomInv
<1> QED BY <1>1, <1>2, <1>4 DEF RecInv

LEMMA RecInvHolds ==
  ASSUME RecConstants
  PROVE  RecSpec => []RecInv
<1>1. Recs!Init => RecInv
  BY RecInvInit
<1>2. RecInv /\ [Recs!Next]_recVars => RecInv'
  BY RecTypeStep, KeptStep, RoomStep DEF RecInv
<1> QED BY <1>1, <1>2, PTL DEF RecSpec

LEMMA RecsOnly == MCSpec => RecSpec
<1>1. MCInit => Recs!Init
  BY DEF MCInit
<1>2. [MCNext]_mcVars => [Recs!Next]_recVars
  BY DEF MCNext, Rest, mcVars
<1> QED BY <1>1, <1>2, PTL DEF MCSpec, RecSpec

\* add_now_rec, for any number of users and events, any size of a batch and any number of
\* failures and restarts: a user has less than a batch of rows more than
\* count_rec_for_user, and one more for each deletion that another handler rolled back.
THEOREM RecsAreBounded == MCSpec => []RecsBounded
<1> USE RecConstants
<1>1. RecInv => RecsBounded
  <2>1. ASSUME RecInv, NEW u \in RecUser
        PROVE  Len(recs[u]) <= CountRecs + (MaxBatch - 1) + undone
    <3>1. Len(recs[u]) <= CountRecs - 1 + MaxBatch + undone
      BY <2>1 DEF RecInv, RoomInv, MaxRows
    <3> QED BY <2>1, <3>1 DEF RecInv, Recs!TypeOK, RecConstants
  <2> QED BY <2>1 DEF RecsBounded, Recs!RecsBounded, Recs!FetchUserRecs
<1> QED BY <1>1, RecsOnly, RecInvHolds, PTL

\* An event of the topic that is neither to be read nor in the batch has left its row,
\* unless a failure, or another handler of the shared session, took it.
THEOREM EventsAreKept == MCSpec => []EventsKept
<1> USE RecConstants
<1>1. RecInv => EventsKept
  <2>1. ASSUME RecInv, NEW e \in 1 .. Len(topic)
        PROVE  e >= position \/ e \in Recs!Batch \/ e \in handled \/ e \in dropped
    <3>1. e \in Recs!Event /\ position \in Nat
      BY <2>1 DEF RecInv, Recs!TypeOK, Recs!Event, RecConstants
    <3> QED BY <2>1, <3>1 DEF RecInv, KeptInv, Recs!Batch
  <2> QED BY <2>1 DEF EventsKept, Recs!EventsKept
<1> QED BY <1>1, RecsOnly, RecInvHolds, PTL

-----------------------------------------------------------------------------
(* rate_limite_utils.                                                       *)

\* A minute has three units at least: the key of the counter lives for one less, and a call
\* can reach it one after it was made.
LimitSpec == Limits!Init /\ [][Limits!Next]_limitVars

CallRec == [step : {"new", "counter", "bucket", "judge", "passed", "refused"},
            at : 0 .. MaxClock, seen : Seq(0 .. MaxClock)]

InFlight == {"counter", "bucket", "judge"}

\* A call that waits for Redis waits for the limiter in use, one unit of the clock at most.
CallInv ==
  /\ Limits!TypeOK
  /\ call \in [Call -> CallRec]
  /\ counter \in [0 .. Limits!Minute(MaxClock) -> [n : Nat, end : Nat]]
  /\ \A c \in Call :
       /\ call[c].step \in InFlight => call[c].at \in clock - 1 .. clock
       /\ call[c].step = "counter" => limiter = "counter"
       /\ call[c].step \in {"bucket", "judge"} => limiter = "bucket"
       /\ c \in passed <=> call[c].step = "passed"

Through(m) == {c \in passed \ blind : Limits!Minute(call[c].at) = m}

Least(x, y) == IF x <= y THEN x ELSE y

\* A key that ends later than that was raised when one made at the start of its minute
\* could have ended.
SecondEnd(m) == m * Window + 2 * (Window - 1)

\* A key that ends before that has counted every call of its minute; one that ends later
\* may have replaced a key that let Limit of them through.
CountInv(m) ==
  /\ counter[m].end = 0 => Through(m) = {}
  /\ counter[m].end # 0 => counter[m].end \in m * Window + Window - 1 .. clock + Window - 1
  /\ Cardinality(Through(m)) <= (IF counter[m].end < SecondEnd(m) THEN 0 ELSE Limit)
                                + Least(counter[m].n, Limit)

\* The list has the time of b, and none before it behind it.
HasTime(list, b) ==
  \E i \in 1 .. Len(list) :
    list[i] = call[b].at /\ \A j \in i .. Len(list) : list[j] >= call[b].at

\* A call is in the bucket, and in what a later reader has read, unless it was overtaken.
BucketInv ==
  \A b \in passed \ (blind \cup outrun) :
    /\ HasTime(bucket, b)
    /\ \A a \in Call \ blind :
         call[a].step = "judge" => <<b, a>> \in raced \/ HasTime(call[a].seen, b)

Apart(a, b) ==
  a # b /\ call[a].at - call[b].at \in 0 .. LeakInterval - 1 =>
    <<a, b>> \in raced \/ <<b, a>> \in raced \/ {a, b} \cap outrun # {}

LimitInv ==
  /\ CallInv
  /\ limiter = "counter" => \A m \in 0 .. Limits!Minute(MaxClock) : CountInv(m)
  /\ limiter = "bucket" => BucketInv /\ \A a, b \in passed \ blind : Apart(a, b)

LEMMA MinuteOf ==
  ASSUME LimitConstants, NEW t \in Nat
  PROVE  /\ Limits!Minute(t) \in Nat
         /\ Limits!Minute(t) * Window <= t /\ t <= Limits!Minute(t) * Window + Window - 1
BY DEF LimitConstants, Limits!Minute

LEMMA MinuteInRange ==
  ASSUME LimitConstants, NEW t \in 0 .. MaxClock
  PROVE  Limits!Minute(t) \in 0 .. Limits!Minute(MaxClock)
BY DEF LimitConstants, Limits!Minute

LEMMA SameCountOfCalls ==
  ASSUME NEW S
  PROVE  Limits!Cardinality(S) = Cardinality(S)
BY DEF Limits!Cardinality, Cardinality

\* What the call of a step becomes, and that the others stay.
CallTo(c, step, at, seen) ==
  /\ call' \in [Call -> CallRec]
  /\ call'[c].step = step /\ call'[c].at = at /\ call'[c].seen = seen
  /\ \A d \in Call \ {c} : call'[d] = call[d]

LEMMA CallBecomes ==
  ASSUME call \in [Call -> CallRec], NEW c \in Call, NEW v \in CallRec,
         call' = [call EXCEPT ![c] = v]
  PROVE  CallTo(c, v.step, v.at, v.seen)
BY DEF CallTo

LEMMA ToEffect ==
  ASSUME call \in [Call -> CallRec], NEW c \in Call,
         NEW step \in {"new", "counter", "bucket", "judge", "passed", "refused"},
         Limits!To(c, step)
  PROVE  CallTo(c, step, call[c].at, call[c].seen)
<1> DEFINE v == [call[c] EXCEPT !.step = step]
<1>1. v \in CallRec /\ v.step = step /\ v.at = call[c].at /\ v.seen = call[c].seen
  BY DEF CallRec
<1>2. call' = [call EXCEPT ![c] = v]
  BY DEF Limits!To
<1> HIDE DEF v
<1>3. CallTo(c, v.step, v.at, v.seen)
  BY <1>1, <1>2, CallBecomes
<1> QED BY <1>1, <1>3

LEMMA ArriveEffect ==
  ASSUME CallInv, NEW c \in Call, Limits!Arrive(c)
  PROVE  CallTo(c, limiter, clock, call[c].seen)
<1> DEFINE v == [call[c] EXCEPT !.step = limiter, !.at = clock]
<1>1. v \in CallRec /\ v.step = limiter /\ v.at = clock /\ v.seen = call[c].seen
  BY DEF CallRec, CallInv, Limits!TypeOK
<1>2. call' = [call EXCEPT ![c] = v]
  BY DEF Limits!Arrive
<1> HIDE DEF v
<1>3. CallTo(c, v.step, v.at, v.seen)
  BY <1>1, <1>2, CallBecomes DEF CallInv
<1> QED BY <1>1, <1>3

LEMMA ReadEffect ==
  ASSUME CallInv, NEW c \in Call, Limits!Read(c)
  PROVE  CallTo(c, "judge", call[c].at, bucket)
<1> DEFINE v == [call[c] EXCEPT !.step = "judge", !.seen = bucket]
<1>1. v \in CallRec /\ v.step = "judge" /\ v.at = call[c].at /\ v.seen = bucket
  BY DEF CallRec, CallInv, Limits!TypeOK
<1>2. call' = [call EXCEPT ![c] = v]
  BY DEF Limits!Read
<1> HIDE DEF v
<1>3. CallTo(c, v.step, v.at, v.seen)
  BY <1>1, <1>2, CallBecomes DEF CallInv
<1> QED BY <1>1, <1>3

LEMMA CallStep ==
  ASSUME LimitConstants, CallInv, [Limits!Next]_limitVars
  PROVE  CallInv'
<1> USE DEF LimitConstants, InFlight
<1>1. ASSUME NEW c \in Call, Limits!Arrive(c) PROVE CallInv'
  <2>1. CallTo(c, limiter, clock, call[c].seen)
    BY <1>1, ArriveEffect
  <2>2. call[c].step = "new" /\ limiter \in {"counter", "bucket"}
        /\ UNCHANGED <<clock, limiter, counter, bucket, passed, blind, raced, outrun>>
    BY <1>1 DEF Limits!Arrive, CallInv, Limits!TypeOK
  <2>3. Limits!TypeOK'
    BY <2>1, <2>2 DEF CallTo, CallInv, Limits!TypeOK, CallRec
  <2>4. clock \in clock - 1 .. clock
    BY DEF CallInv, Limits!TypeOK
  <2> QED BY <2>1, <2>2, <2>3, <2>4 DEF CallTo, CallInv
<1>2. ASSUME NEW c \in Call, Limits!Count(c) PROVE CallInv'
  <2> DEFINE m == Limits!Minute(call[c].at)
  <2>1. m \in 0 .. Limits!Minute(MaxClock) /\ clock \in 0 .. MaxClock
    BY <1>2, MinuteInRange DEF CallInv, CallRec, Limits!Count, Limits!TypeOK
  <2>2. counter' = [counter EXCEPT ![m] = [n |-> Limits!Raised(m), end |-> clock + Window - 1]]
        /\ UNCHANGED <<clock, limiter, bucket, blind, raced, outrun>>
        /\ \/ Limits!To(c, "refused") /\ passed' = passed
           \/ Limits!To(c, "passed") /\ passed' = passed \cup {c}
    BY <1>2 DEF Limits!Count, Limits!Raise
  <2>3. Limits!Raised(m) \in Nat
    BY <2>1 DEF Limits!Raised, CallInv
  <2> HIDE DEF m
  <2>4. counter' \in [0 .. Limits!Minute(MaxClock) -> [n : Nat, end : Nat]]
    BY <2>1, <2>2, <2>3 DEF CallInv
  <2>5. \/ CallTo(c, "refused", call[c].at, call[c].seen) /\ passed' = passed
        \/ CallTo(c, "passed", call[c].at, call[c].seen) /\ passed' = passed \cup {c}
    BY <2>2, ToEffect DEF CallInv
  <2>6. call[c].step = "counter"
    BY <1>2 DEF Limits!Count
  <2>7. Limits!TypeOK'
    BY <2>2, <2>4, <2>5 DEF CallTo, CallInv, Limits!TypeOK, CallRec
  <2> QED BY <2>2, <2>4, <2>5, <2>6, <2>7 DEF CallTo, CallInv
<1>3. ASSUME NEW c \in Call, Limits!CountFails(c) PROVE CallInv'
  <2> DEFINE m == Limits!Minute(call[c].at)
  <2>1. CallTo(c, "passed", call[c].at, call[c].seen)
    BY <1>3, ToEffect DEF CallInv, Limits!CountFails
  <2>2. call[c].step \in InFlight /\ passed' = passed \cup {c} /\ blind' = blind \cup {c}
        /\ UNCHANGED <<clock, limiter, bucket, raced, outrun>>
        /\ \/ counter' = counter
           \/ counter' = [counter EXCEPT ![m] = [n |-> Limits!Raised(m),
                                                 end |-> clock + Window - 1]]
    BY <1>3 DEF Limits!CountFails, Limits!Raise
  <2>3. m \in 0 .. Limits!Minute(MaxClock) /\ clock \in 0 .. MaxClock
    BY MinuteInRange DEF CallInv, CallRec, Limits!TypeOK
  <2>4. Limits!Raised(m) \in Nat
    BY <2>3 DEF Limits!Raised, CallInv
  <2> HIDE DEF m
  <2>5. counter' \in [0 .. Limits!Minute(MaxClock) -> [n : Nat, end : Nat]]
    BY <2>2, <2>3, <2>4 DEF CallInv
  <2>6. Limits!TypeOK'
    BY <2>1, <2>2, <2>5 DEF CallTo, CallInv, Limits!TypeOK, CallRec
  <2> QED BY <2>1, <2>2, <2>5, <2>6 DEF CallTo, CallInv
<1>4. ASSUME NEW c \in Call, Limits!Read(c) \/ Limits!ReadFails(c) PROVE CallInv'
  <2>1. \E seen : CallTo(c, "judge", call[c].at, seen)
    BY <1>4, ReadEffect, ToEffect DEF CallInv, Limits!ReadFails
  <2>2. call[c].step = "bucket" /\ (blind' = blind \/ blind' = blind \cup {c})
        /\ UNCHANGED <<clock, limiter, counter, bucket, passed, raced, outrun>>
    BY <1>4 DEF Limits!Read, Limits!ReadFails
  <2>3. Limits!TypeOK'
    BY <2>1, <2>2 DEF CallTo, CallInv, Limits!TypeOK, CallRec
  <2> QED BY <2>1, <2>2, <2>3 DEF CallTo, CallInv
<1>5. ASSUME NEW c \in Call, Limits!Refuse(c) PROVE CallInv'
  <2>1. CallTo(c, "refused", call[c].at, call[c].seen)
    BY <1>5, ToEffect DEF CallInv, Limits!Refuse
  <2>2. call[c].step = "judge"
        /\ UNCHANGED <<clock, limiter, counter, bucket, passed, blind, raced, outrun>>
    BY <1>5 DEF Limits!Refuse
  <2>3. Limits!TypeOK'
    BY <2>1, <2>2 DEF CallTo, CallInv, Limits!TypeOK, CallRec
  <2> QED BY <2>1, <2>2, <2>3 DEF CallTo, CallInv
<1>6. ASSUME NEW c \in Call, Limits!AppendTime(c) \/ Limits!AppendFails(c) PROVE CallInv'
  <2>1. CallTo(c, "passed", call[c].at, call[c].seen)
    BY <1>6, ToEffect DEF CallInv, Limits!AppendTime, Limits!AppendFails
  <2>2. /\ call[c].step = "judge" /\ passed' = passed \cup {c}
        /\ blind' \in {blind, blind \cup {c}} /\ UNCHANGED <<clock, limiter, counter>>
        /\ Limits!Appended(c) \/ UNCHANGED <<bucket, raced, outrun>>
    BY <1>6 DEF Limits!AppendTime, Limits!AppendFails
  <2>3. bucket' \in Seq(0 .. MaxClock)
    <3>1. call[c].at \in 0 .. MaxClock /\ bucket \in Seq(0 .. MaxClock)
      BY DEF CallInv, CallRec, Limits!TypeOK
    <3>2. bucket' = Append(bucket, call[c].at) \/ bucket' = bucket
      BY <2>2 DEF Limits!Appended
    <3> QED BY <3>1, <3>2
  <2>4. raced' \subseteq Call \X Call /\ outrun' \subseteq Call
    BY <2>2 DEF Limits!Appended, CallInv, Limits!TypeOK
  <2>5. Limits!TypeOK'
    BY <2>1, <2>2, <2>3, <2>4 DEF CallTo, CallInv, Limits!TypeOK, CallRec
  <2> QED BY <2>1, <2>2, <2>5 DEF CallTo, CallInv
<1>7. CASE Limits!ClockTick
  BY <1>7 DEF Limits!ClockTick, CallInv, Limits!TypeOK
<1>8. CASE UNCHANGED limitVars
  BY <1>8 DEF limitVars, CallInv, Limits!TypeOK
<1> QED BY <1>1, <1>2, <1>3, <1>4, <1>5, <1>6, <1>7, <1>8 DEF Limits!Next

\* Nothing but a call of the minute changes who came through in it.
LEMMA ThroughIs ==
  ASSUME LimitConstants, CallInv, NEW m
  PROVE  Through(m) \subseteq Call /\ IsFiniteSet(Through(m)) /\ Cardinality(Through(m)) \in Nat
<1>1. Through(m) \in SUBSET Call
  BY DEF Through, CallInv, Limits!TypeOK
<1>2. IsFiniteSet(Call)
  BY DEF LimitConstants
<1> QED BY <1>1, <1>2, FS_Subset, FS_CardinalityType

\* The counter is raised by a call that goes through, or that is not counted as one.
LEMMA RaiseStep ==
  ASSUME LimitConstants, CallInv, NEW c \in Call, NEW m \in 0 .. Limits!Minute(MaxClock),
         CountInv(m), Limits!Minute(call[c].at) = m, call[c].step = "counter",
         Limits!Raise(m), clock' = clock,
         \/ Through(m)' \in SUBSET Through(m)
         \/ Limits!Raised(m) <= Limit /\ Through(m)' \in SUBSET (Through(m) \cup {c})
  PROVE  CountInv(m)'
<1> USE DEF InFlight
<1> DEFINE k == m * Window
<1>0. /\ counter[m].n \in Nat /\ counter[m].end \in Nat /\ Limit \in Nat /\ clock \in Nat
      /\ Window \in Nat \ (0 .. 2) /\ m \in Nat /\ Cardinality(Through(m)) \in Nat
  <2>1. Limits!Minute(MaxClock) \in Nat
    BY MinuteOf DEF LimitConstants
  <2>2. Cardinality(Through(m)) \in Nat
    BY ThroughIs
  <2> QED BY <2>1, <2>2 DEF CallInv, Limits!TypeOK, LimitConstants
<1>1. /\ call[c].at \in Nat /\ call[c].at \in clock - 1 .. clock /\ c \notin passed
  BY DEF CallInv, CallRec, Limits!TypeOK
<1>2. k \in Nat /\ k <= call[c].at /\ call[c].at <= k + Window - 1
  BY <1>0, <1>1, MinuteOf DEF LimitConstants
<1>3. counter'[m].n = Limits!Raised(m) /\ counter'[m].end = clock + Window - 1
  BY DEF CallInv, Limits!Raise
<1>4. IsFiniteSet(Through(m)) /\ c \notin Through(m)
  BY <1>1, ThroughIs DEF Through
<1>5. /\ IsFiniteSet(Through(m) \cup {c})
      /\ Cardinality(Through(m) \cup {c}) = Cardinality(Through(m)) + 1
  BY <1>4, FS_AddElement
<1>6. \/ Cardinality(Through(m)') <= Cardinality(Through(m))
      \/ Limits!Raised(m) <= Limit /\ Cardinality(Through(m)') <= Cardinality(Through(m)) + 1
  <2>1. CASE Through(m)' \in SUBSET Through(m)
    BY <1>4, <2>1, FS_Subset
  <2>2. CASE Limits!Raised(m) <= Limit /\ Through(m)' \in SUBSET (Through(m) \cup {c})
    <3>1. Cardinality(Through(m)') <= Cardinality(Through(m) \cup {c})
      BY <1>5, <2>2, FS_Subset
    <3> QED BY <1>5, <2>2, <3>1
  <2> QED BY <2>1, <2>2
<1>7. Cardinality(Through(m)') \in Nat
  <2>1. Through(m)' \in SUBSET (Through(m) \cup {c})
    OBVIOUS
  <2> QED BY <1>5, <2>1, FS_Subset, FS_CardinalityType
<1>8. counter[m].end = 0 => Cardinality(Through(m)) = 0
  BY FS_EmptySet DEF CountInv
<1>9. Limits!Raised(m) = IF counter[m].end > clock THEN counter[m].n + 1 ELSE 1
  BY DEF Limits!Raised
<1>10. /\ counter[m].end # 0 => counter[m].end >= k + Window - 1
       /\ counter[m].end <= clock + Window - 1
       /\ Cardinality(Through(m)) <=
            (IF counter[m].end < k + 2 * (Window - 1) THEN 0 ELSE Limit)
            + Least(counter[m].n, Limit)
  BY <1>0, <1>2 DEF CountInv, SecondEnd
<1>11. k <= clock /\ clock <= k + Window
  BY <1>0, <1>1, <1>2
<1> HIDE DEF k
<1>12. Cardinality(Through(m)') <=
         (IF clock + Window - 1 < k + 2 * (Window - 1) THEN 0 ELSE Limit)
         + Least(Limits!Raised(m), Limit)
  <2>1. CASE counter[m].end > clock
    BY <1>0, <1>2, <1>6, <1>7, <1>9, <1>10, <1>11, <2>1 DEF Least
  <2>2. CASE ~ counter[m].end > clock /\ counter[m].end = 0
    BY <1>0, <1>2, <1>6, <1>7, <1>8, <1>9, <1>11, <2>2 DEF Least
  <2>3. CASE ~ counter[m].end > clock /\ counter[m].end # 0
    BY <1>0, <1>2, <1>6, <1>7, <1>9, <1>10, <1>11, <2>3 DEF Least
  <2> QED BY <2>1, <2>2, <2>3
<1>13. clock + Window - 1 # 0 /\ clock + Window - 1 \in k + Window - 1 .. clock + Window - 1
  BY <1>0, <1>2, <1>11
<1> QED BY <1>3, <1>12, <1>13 DEF CountInv, SecondEnd, k

LEMMA CounterStep ==
  ASSUME LimitConstants, CallInv, [Limits!Next]_limitVars, limiter = "counter",
         NEW m \in 0 .. Limits!Minute(MaxClock), CountInv(m)
  PROVE  CountInv(m)'
<1> USE DEF InFlight
<1>0. /\ counter[m].n \in Nat /\ counter[m].end \in Nat /\ Limit \in Nat /\ clock \in Nat
      /\ Window \in Nat \ (0 .. 2) /\ m \in Nat /\ Cardinality(Through(m)) \in Nat
  <2>1. Limits!Minute(MaxClock) \in Nat
    BY MinuteOf DEF LimitConstants
  <2>2. Cardinality(Through(m)) \in Nat
    BY ThroughIs
  <2> QED BY <2>1, <2>2 DEF CallInv, Limits!TypeOK, LimitConstants
<1>1. ASSUME NEW c \in Call, Limits!Arrive(c) PROVE CountInv(m)'
  <2>1. CallTo(c, limiter, clock, call[c].seen)
    BY <1>1, ArriveEffect
  <2>2. call[c].step = "new" /\ UNCHANGED <<clock, counter, passed, blind>>
    BY <1>1 DEF Limits!Arrive
  <2>3. c \notin passed /\ passed \subseteq Call
    BY <2>2 DEF CallInv, Limits!TypeOK
  <2>4. Through(m)' = Through(m)
    BY <2>1, <2>2, <2>3 DEF Through, CallTo, Limits!Minute
  <2> QED BY <2>2, <2>4 DEF CountInv, SecondEnd
<1>2. ASSUME NEW c \in Call, Limits!Count(c) PROVE CountInv(m)'
  <2>1. /\ call[c].step = "counter" /\ UNCHANGED <<clock, blind>>
        /\ counter' = [counter EXCEPT ![Limits!Minute(call[c].at)] =
                          [n |-> Limits!Raised(Limits!Minute(call[c].at)),
                           end |-> clock + Window - 1]]
    BY <1>2 DEF Limits!Count, Limits!Raise
  <2>2. /\ call[c].at \in Nat /\ call[c].at \in 0 .. MaxClock
        /\ call[c].at \in clock - 1 .. clock /\ c \notin passed /\ passed \subseteq Call
    BY <2>1 DEF CallInv, CallRec, Limits!TypeOK
  <2>3. \/ /\ Limits!Raised(Limits!Minute(call[c].at)) > Limit
           /\ CallTo(c, "refused", call[c].at, call[c].seen) /\ passed' = passed
        \/ /\ ~ Limits!Raised(Limits!Minute(call[c].at)) > Limit
           /\ CallTo(c, "passed", call[c].at, call[c].seen) /\ passed' = passed \cup {c}
    BY <1>2, ToEffect DEF Limits!Count, CallInv
  <2>4. \A d \in Call : call'[d].at = call[d].at
    BY <2>3 DEF CallTo
  <2>5. CASE Limits!Minute(call[c].at) # m
    <3>1. Through(m)' = Through(m)
      BY <2>1, <2>2, <2>3, <2>4, <2>5 DEF Through, Limits!Minute
    <3>2. counter'[m] = counter[m]
      BY <2>1, <2>5 DEF CallInv
    <3> QED BY <2>1, <3>1, <3>2 DEF CountInv, SecondEnd
  <2>6. CASE Limits!Minute(call[c].at) = m
    <3>1. Limits!Raise(m)
      BY <2>1, <2>6 DEF Limits!Raise
    <3>2. \/ Through(m)' \in SUBSET Through(m)
          \/ Limits!Raised(m) <= Limit /\ Through(m)' \in SUBSET (Through(m) \cup {c})
      BY <1>0, <2>1, <2>2, <2>3, <2>4, <2>6 DEF Through, Limits!Minute, Limits!Raised
    <3> QED BY <2>1, <2>6, <3>1, <3>2, RaiseStep
  <2> QED BY <2>5, <2>6
<1>3. ASSUME NEW c \in Call, Limits!CountFails(c) PROVE CountInv(m)'
  <2>1. CallTo(c, "passed", call[c].at, call[c].seen)
    BY <1>3, ToEffect DEF CallInv, Limits!CountFails
  <2>2. /\ passed' = passed \cup {c} /\ blind' = blind \cup {c} /\ clock' = clock
        /\ call[c].step = "counter" /\ c \notin passed /\ passed \subseteq Call
        /\ Limits!Raise(Limits!Minute(call[c].at)) \/ counter' = counter
    BY <1>3 DEF Limits!CountFails, CallInv, Limits!TypeOK
  <2>3. Through(m)' = Through(m)
    BY <2>1, <2>2 DEF Through, CallTo, Limits!Minute
  <2>4. CASE counter'[m] = counter[m]
    BY <2>2, <2>3, <2>4 DEF CountInv, SecondEnd
  <2>5. CASE Limits!Minute(call[c].at) = m /\ Limits!Raise(m)
    BY <2>2, <2>3, <2>5, RaiseStep
  <2>6. CASE Limits!Minute(call[c].at) # m /\ Limits!Raise(Limits!Minute(call[c].at))
    BY <2>4, <2>6 DEF Limits!Raise, CallInv
  <2> QED BY <2>2, <2>4, <2>5, <2>6
<1>4. ASSUME NEW c \in Call,
             \/ Limits!Read(c) \/ Limits!ReadFails(c) \/ Limits!Refuse(c)
             \/ Limits!AppendTime(c) \/ Limits!AppendFails(c)
      PROVE  FALSE
  BY <1>4 DEF CallInv, Limits!Read, Limits!ReadFails, Limits!Refuse, Limits!AppendTime,
              Limits!AppendFails
<1>5. CASE Limits!ClockTick
  <2>1. UNCHANGED <<counter, passed, blind, call>> /\ clock' = clock + 1
    BY <1>5 DEF Limits!ClockTick
  <2>2. Through(m)' = Through(m)
    BY <2>1 DEF Through, Limits!Minute
  <2> DEFINE k == m * Window
  <2>3. counter[m].end # 0 => counter[m].end \in k + Window - 1 .. clock + Window - 1
    BY DEF CountInv
  <2> HIDE DEF k
  <2>4. counter[m].end # 0 => counter[m].end \in k + Window - 1 .. clock + 1 + Window - 1
    BY <1>0, <2>3
  <2> QED BY <2>1, <2>2, <2>4 DEF CountInv, SecondEnd, k
<1>6. CASE UNCHANGED limitVars
  BY <1>6 DEF limitVars, CountInv, SecondEnd, Through, Limits!Minute
<1> QED BY <1>1, <1>2, <1>3, <1>4, <1>5, <1>6 DEF Limits!Next

\* What a list holds of b stays while the list and the call of b stay.
LEMMA SeenStays ==
  ASSUME NEW a, NEW b, HasTime(call[a].seen, b),
         call'[a].seen = call[a].seen, call'[b].at = call[b].at
  PROVE  HasTime(call[a].seen, b)'
BY DEF HasTime

LEMMA BucketStays ==
  ASSUME NEW b, HasTime(bucket, b), bucket' = bucket, call'[b].at = call[b].at
  PROVE  HasTime(bucket, b)'
BY DEF HasTime

LEMMA TimeAppended ==
  ASSUME NEW list \in Seq(Nat), NEW b, NEW t \in Nat, HasTime(list, b), t >= call[b].at
  PROVE  HasTime(Append(list, t), b)
<1>1. PICK i \in 1 .. Len(list) :
        list[i] = call[b].at /\ \A j \in i .. Len(list) : list[j] >= call[b].at
  BY DEF HasTime
<1>2. /\ Len(list) \in Nat /\ Len(Append(list, t)) = Len(list) + 1
      /\ \A j \in 1 .. Len(list) : Append(list, t)[j] = list[j]
      /\ Append(list, t)[Len(list) + 1] = t
  OBVIOUS
<1>3. i \in 1 .. Len(Append(list, t)) /\ Append(list, t)[i] = call[b].at
  BY <1>1, <1>2
<1>4. ASSUME NEW j \in i .. Len(Append(list, t))
      PROVE  Append(list, t)[j] >= call[b].at
  <2>1. CASE j = Len(list) + 1
    BY <1>2, <2>1
  <2>2. CASE j # Len(list) + 1
    BY <1>1, <1>2, <2>2
  <2> QED BY <2>1, <2>2
<1> QED BY <1>3, <1>4 DEF HasTime

LEMMA TimeLast ==
  ASSUME NEW list \in Seq(Nat), NEW b, NEW t \in Nat, t = call[b].at
  PROVE  HasTime(Append(list, t), b)
<1>1. /\ Len(Append(list, t)) = Len(list) + 1 /\ Len(list) + 1 \in 1 .. Len(Append(list, t))
      /\ Append(list, t)[Len(list) + 1] = t
  OBVIOUS
<1> QED BY <1>1 DEF HasTime

\* A call that has read the time of a call made less than LeakInterval before it is
\* refused.
LEMMA SeenIsTooSoon ==
  ASSUME LimitConstants, CallInv, NEW a \in Call, NEW b \in Call, HasTime(call[a].seen, b),
         call[a].at - call[b].at \in 0 .. LeakInterval - 1
  PROVE  Limits!TooSoon(a)
<1> DEFINE s == call[a].seen
<1>1. s \in Seq(Nat) /\ call[a].at \in Nat /\ call[b].at \in Nat /\ LeakInterval \in Nat
  BY DEF CallInv, CallRec, LimitConstants
<1>2. PICK i \in 1 .. Len(s) : s[i] = call[b].at /\ \A j \in i .. Len(s) : s[j] >= call[b].at
  BY DEF HasTime
<1>3. DOMAIN s = 1 .. Len(s) /\ Len(s) \in Nat /\ s[Len(s)] \in Nat
  <2> HIDE DEF s
  <2>1. DOMAIN s = 1 .. Len(s) /\ Len(s) \in Nat
    BY <1>1
  <2>2. Len(s) \in 1 .. Len(s)
    BY <1>2, <2>1
  <2> QED BY <1>1, <2>1, <2>2
<1>4. ~ Limits!Leaked(a, i)
  BY <1>1, <1>2 DEF Limits!Leaked
<1>5. i \in Limits!Kept(a)
  BY <1>2, <1>3, <1>4 DEF Limits!Kept
<1>6. s[Len(s)] >= call[b].at
  BY <1>2, <1>3
<1> HIDE DEF s
<1>7. call[a].at - s[Len(s)] < LeakInterval
  BY <1>1, <1>3, <1>6
<1> QED BY <1>5, <1>7 DEF Limits!TooSoon, s

LEMMA BucketStep ==
  ASSUME LimitConstants, CallInv, BucketInv, [Limits!Next]_limitVars, limiter = "bucket"
  PROVE  BucketInv'
<1>0. /\ passed \subseteq Call /\ bucket \in Seq(Nat)
      /\ \A c \in Call : call[c].at \in Nat /\ call[c].seen \in Seq(Nat)
  BY DEF CallInv, CallRec, Limits!TypeOK, LimitConstants
<1>1. ASSUME NEW c \in Call, c \notin passed, UNCHANGED <<bucket, passed, raced, outrun>>,
             blind \subseteq blind', \A d \in Call \ {c} : call'[d] = call[d],
             call'[c].step # "judge" \/ c \in blind' \/ call'[c].seen = bucket
      PROVE  BucketInv'
  <2> SUFFICES ASSUME NEW b \in passed \ (blind' \cup outrun)
               PROVE  /\ HasTime(bucket, b)'
                      /\ \A a \in Call \ blind' : call'[a].step = "judge" =>
                           <<b, a>> \in raced \/ HasTime(call[a].seen, b)'
    BY <1>1 DEF BucketInv
  <2>1. b \in passed \ (blind \cup outrun) /\ b \in Call /\ call'[b] = call[b]
    BY <1>0, <1>1
  <2>2. HasTime(bucket, b)
    BY <2>1 DEF BucketInv
  <2>3. HasTime(bucket, b)'
    BY <1>1, <2>1, <2>2, BucketStays
  <2>4. ASSUME NEW a \in Call \ blind', call'[a].step = "judge"
        PROVE  <<b, a>> \in raced \/ HasTime(call[a].seen, b)'
    <3>1. CASE a = c
      BY <1>1, <2>1, <2>2, <2>4, <3>1 DEF HasTime
    <3>2. CASE a # c
      <4>1. call'[a] = call[a] /\ a \notin blind
        BY <1>1, <3>2
      <4>2. <<b, a>> \in raced \/ HasTime(call[a].seen, b)
        BY <2>1, <2>4, <4>1 DEF BucketInv
      <4> QED BY <2>1, <4>1, <4>2, SeenStays
    <3> QED BY <3>1, <3>2
  <2> QED BY <2>3, <2>4
<1>2. ASSUME NEW c \in Call, Limits!Arrive(c) PROVE BucketInv'
  <2>1. CallTo(c, limiter, clock, call[c].seen)
    BY <1>2, ArriveEffect
  <2>2. call[c].step = "new" /\ UNCHANGED <<bucket, passed, blind, raced, outrun>>
    BY <1>2 DEF Limits!Arrive
  <2> QED BY <1>1, <2>1, <2>2 DEF CallTo, CallInv
<1>3. ASSUME NEW c \in Call, Limits!Read(c) PROVE BucketInv'
  <2>1. CallTo(c, "judge", call[c].at, bucket)
    BY <1>3, ReadEffect
  <2>2. call[c].step = "bucket" /\ UNCHANGED <<bucket, passed, blind, raced, outrun>>
    BY <1>3 DEF Limits!Read
  <2> QED BY <1>1, <2>1, <2>2 DEF CallTo, CallInv
<1>4. ASSUME NEW c \in Call, Limits!ReadFails(c) PROVE BucketInv'
  <2>1. CallTo(c, "judge", call[c].at, call[c].seen)
    BY <1>4, ToEffect DEF Limits!ReadFails, CallInv
  <2>2. call[c].step = "bucket" /\ blind' = blind \cup {c}
        /\ UNCHANGED <<bucket, passed, raced, outrun>>
    BY <1>4 DEF Limits!ReadFails
  <2> QED BY <1>1, <2>1, <2>2 DEF CallTo, CallInv
<1>5. ASSUME NEW c \in Call, Limits!Refuse(c) PROVE BucketInv'
  <2>1. CallTo(c, "refused", call[c].at, call[c].seen)
    BY <1>5, ToEffect DEF Limits!Refuse, CallInv
  <2>2. call[c].step = "judge" /\ UNCHANGED <<bucket, passed, blind, raced, outrun>>
    BY <1>5 DEF Limits!Refuse
  <2> QED BY <1>1, <2>1, <2>2 DEF CallTo, CallInv
<1>6. ASSUME NEW c \in Call, Limits!AppendFails(c), UNCHANGED <<bucket, raced, outrun>>
      PROVE  BucketInv'
  <2>1. CallTo(c, "passed", call[c].at, call[c].seen)
    BY <1>6, ToEffect DEF Limits!AppendFails, CallInv
  <2>2. passed' = passed \cup {c} /\ blind' = blind \cup {c}
        /\ UNCHANGED <<bucket, raced, outrun>> /\ c \notin passed
    BY <1>6 DEF Limits!AppendFails, CallInv
  <2> SUFFICES ASSUME NEW b \in passed' \ (blind' \cup outrun)
               PROVE  /\ HasTime(bucket, b)'
                      /\ \A a \in Call \ blind' : call'[a].step = "judge" =>
                           <<b, a>> \in raced \/ HasTime(call[a].seen, b)'
    BY <2>2 DEF BucketInv
  <2>3. b \in passed \ (blind \cup outrun) /\ call'[b] = call[b]
    BY <1>0, <2>1, <2>2 DEF CallTo
  <2>4. HasTime(bucket, b)'
    BY <2>2, <2>3, BucketStays DEF BucketInv
  <2>5. ASSUME NEW a \in Call \ blind', call'[a].step = "judge"
        PROVE  <<b, a>> \in raced \/ HasTime(call[a].seen, b)'
    <3>1. call'[a] = call[a] /\ a \notin blind
      BY <2>1, <2>2, <2>5 DEF CallTo
    <3>2. <<b, a>> \in raced \/ HasTime(call[a].seen, b)
      BY <2>3, <2>5, <3>1 DEF BucketInv
    <3> QED BY <2>3, <3>1, <3>2, SeenStays
  <2> QED BY <2>4, <2>5
<1>7. ASSUME NEW c \in Call, Limits!AppendTime(c) \/ Limits!AppendFails(c),
             Limits!Appended(c)
      PROVE  BucketInv'
  <2>1. CallTo(c, "passed", call[c].at, call[c].seen)
    BY <1>7, ToEffect DEF Limits!AppendTime, Limits!AppendFails, CallInv
  <2>2. /\ passed' = passed \cup {c} /\ blind' \in {blind, blind \cup {c}}
        /\ bucket' = Append(bucket, call[c].at)
        /\ raced' = raced \cup {<<c, b>> : b \in {b \in Call : call[b].step = "judge"} \ {c}}
        /\ outrun' = outrun \cup {b \in passed : call[b].at > call[c].at}
        /\ c \notin passed
    BY <1>7 DEF Limits!AppendTime, Limits!AppendFails, Limits!Appended, CallInv
  <2> SUFFICES ASSUME NEW b \in passed' \ (blind' \cup outrun')
               PROVE  /\ HasTime(bucket, b)'
                      /\ \A a \in Call \ blind' : call'[a].step = "judge" =>
                           <<b, a>> \in raced' \/ HasTime(call[a].seen, b)'
    BY DEF BucketInv
  <2>3. call'[b].at = call[b].at
    BY <1>0, <2>1, <2>2 DEF CallTo
  <2>4. HasTime(bucket', b)
    <3>1. CASE b = c
      BY <1>0, <2>2, <3>1, TimeLast
    <3>2. CASE b # c
      <4>1. b \in passed \ (blind \cup outrun) /\ ~ call[b].at > call[c].at /\ b \in Call
        BY <1>0, <2>2, <3>2
      <4>2. HasTime(bucket, b) /\ call[c].at >= call[b].at
        BY <1>0, <4>1 DEF BucketInv
      <4> QED BY <1>0, <2>2, <4>2, TimeAppended
    <3> QED BY <3>1, <3>2
  <2>5. HasTime(bucket, b)'
    BY <2>3, <2>4 DEF HasTime
  <2>6. ASSUME NEW a \in Call \ blind', call'[a].step = "judge"
        PROVE  <<b, a>> \in raced' \/ HasTime(call[a].seen, b)'
    <3>1. a # c /\ call'[a] = call[a]
      BY <2>1, <2>6 DEF CallTo
    <3>2. CASE b = c
      BY <2>2, <2>6, <3>1, <3>2
    <3>3. CASE b # c
      <4>1. <<b, a>> \in raced \/ HasTime(call[a].seen, b)
        BY <2>2, <2>6, <3>1, <3>3 DEF BucketInv
      <4> QED BY <2>2, <2>3, <3>1, <4>1, SeenStays
    <3> QED BY <3>2, <3>3
  <2> QED BY <2>5, <2>6
<1>8. ASSUME NEW c \in Call, Limits!Count(c) \/ Limits!CountFails(c) PROVE FALSE
  BY <1>8 DEF CallInv, Limits!Count, Limits!CountFails
<1>9. CASE UNCHANGED <<bucket, call, passed, blind, raced, outrun>>
  <2>1. \A b : HasTime(bucket, b)' <=> HasTime(bucket, b)
    BY <1>9 DEF HasTime
  <2>2. \A a, b : HasTime(call[a].seen, b)' <=> HasTime(call[a].seen, b)
    BY <1>9 DEF HasTime
  <2> QED BY <1>9, <2>1, <2>2, Zenon DEF BucketInv
<1>10. ASSUME NEW c \in Call, Limits!AppendTime(c) \/ Limits!AppendFails(c)
       PROVE  BucketInv'
  BY <1>6, <1>7, <1>10 DEF Limits!AppendTime, Limits!AppendFails
<1> QED
  BY <1>2, <1>3, <1>4, <1>5, <1>8, <1>9, <1>10 DEF Limits!Next, Limits!ClockTick, limitVars

LEMMA ApartStep ==
  ASSUME LimitConstants, CallInv, BucketInv, [Limits!Next]_limitVars, limiter = "bucket",
         \A a, b \in passed \ blind : Apart(a, b)
  PROVE  \A a, b \in passed' \ blind' : Apart(a, b)'
<1>0. passed \subseteq Call /\ \A c \in Call : call[c].at \in Nat
  BY DEF CallInv, CallRec, Limits!TypeOK
<1>1. ASSUME passed' \ blind' \subseteq passed \ blind,
             raced \subseteq raced', outrun \subseteq outrun',
             \A d \in passed : call'[d].at = call[d].at
      PROVE  \A a, b \in passed' \ blind' : Apart(a, b)'
  BY <1>1 DEF Apart
<1>2. ASSUME NEW c \in Call, Limits!Arrive(c) \/ Limits!Read(c) \/ Limits!ReadFails(c)
                                \/ Limits!Refuse(c) \/ Limits!AppendFails(c)
      PROVE  \A a, b \in passed' \ blind' : Apart(a, b)'
  <2>1. \E step, at, seen : CallTo(c, step, at, seen)
    BY <1>2, ArriveEffect, ReadEffect, ToEffect
       DEF CallInv, Limits!ReadFails, Limits!Refuse, Limits!AppendFails
  <2>2. c \notin passed
    BY <1>2 DEF CallInv, Limits!Arrive, Limits!Read, Limits!ReadFails, Limits!Refuse,
                Limits!AppendFails
  <2>3. /\ passed' \ blind' \subseteq passed \ blind
        /\ raced \subseteq raced' /\ outrun \subseteq outrun'
    BY <1>2 DEF Limits!Arrive, Limits!Read, Limits!ReadFails, Limits!Refuse, Limits!AppendFails,
                Limits!Appended
  <2>4. \A d \in passed : call'[d].at = call[d].at
    BY <1>0, <2>1, <2>2 DEF CallTo
  <2> QED BY <1>1, <2>3, <2>4
<1>3. ASSUME NEW c \in Call, Limits!AppendTime(c)
      PROVE  \A a, b \in passed' \ blind' : Apart(a, b)'
  <2>1. CallTo(c, "passed", call[c].at, call[c].seen)
    BY <1>3, ToEffect DEF Limits!AppendTime, CallInv
  <2>2. /\ passed' = passed \cup {c} /\ blind' = blind /\ raced \subseteq raced'
        /\ outrun' = outrun \cup {b \in passed : call[b].at > call[c].at}
        /\ call[c].step = "judge" /\ ~ Limits!TooSoon(c)
    BY <1>3 DEF Limits!AppendTime, Limits!Appended
  <2>3. \A d \in passed' : call'[d].at = call[d].at /\ d \in Call
    BY <1>0, <2>1, <2>2 DEF CallTo
  <2>4. ASSUME NEW d \in passed \ blind, c \notin blind,
               call[c].at - call[d].at \in 0 .. LeakInterval - 1
        PROVE  <<d, c>> \in raced \/ d \in outrun
    <3>1. ~ HasTime(call[c].seen, d)
      BY <1>0, <2>2, <2>4, SeenIsTooSoon
    <3> QED BY <2>2, <2>4, <3>1 DEF BucketInv
  <2>5. ASSUME NEW d \in passed \ blind, c \notin blind,
               call[d].at - call[c].at \in 0 .. LeakInterval - 1
        PROVE  <<d, c>> \in raced \/ d \in outrun'
    <3>1. CASE call[d].at > call[c].at
      BY <2>2, <2>5, <3>1
    <3>2. CASE ~ call[d].at > call[c].at
      <4>1. call[c].at - call[d].at \in 0 .. LeakInterval - 1
        BY <1>0, <2>5, <3>2 DEF LimitConstants
      <4> QED BY <2>2, <2>4, <2>5, <4>1
    <3> QED BY <3>1, <3>2
  <2> SUFFICES ASSUME NEW a \in passed' \ blind', NEW b \in passed' \ blind', a # b,
                      call[a].at - call[b].at \in 0 .. LeakInterval - 1
               PROVE  <<a, b>> \in raced' \/ <<b, a>> \in raced' \/ {a, b} \cap outrun' # {}
    BY <2>3 DEF Apart
  <2>6. CASE a = c
    BY <2>2, <2>4, <2>6
  <2>7. CASE b = c
    BY <2>2, <2>5, <2>7
  <2>8. CASE a # c /\ b # c
    BY <2>2, <2>8 DEF Apart
  <2> QED BY <2>6, <2>7, <2>8
<1>4. ASSUME NEW c \in Call, Limits!Count(c) \/ Limits!CountFails(c) PROVE FALSE
  BY <1>4 DEF CallInv, Limits!Count, Limits!CountFails
<1>5. CASE UNCHANGED <<call, passed, blind, raced, outrun>>
  BY <1>5 DEF Apart
<1> QED
  BY <1>2, <1>3, <1>4, <1>5 DEF Limits!Next, Limits!ClockTick, limitVars

LEMMA LimitInvHolds ==
  ASSUME LimitConstants
  PROVE  LimitSpec => []LimitInv
<1>1. Limits!Init => LimitInv
  <2> SUFFICES ASSUME Limits!Init PROVE LimitInv
    OBVIOUS
  <2>1. CallInv
    BY DEF LimitConstants, Limits!Init, CallInv, CallRec, InFlight, Limits!TypeOK, Limits!Minute
  <2>2. passed = {} /\ \A m : Through(m) = {}
    BY DEF Limits!Init, Through
  <2>3. BucketInv /\ \A a, b \in passed \ blind : Apart(a, b)
    BY <2>2 DEF BucketInv
  <2>4. ASSUME NEW m \in 0 .. Limits!Minute(MaxClock) PROVE CountInv(m)
    <3>1. counter[m].end = 0 /\ counter[m].n = 0
      BY DEF Limits!Init, Limits!Minute
    <3>2. Cardinality(Through(m)) = 0
      BY <2>2, FS_EmptySet
    <3> QED BY <2>2, <3>1, <3>2 DEF CountInv, Least, LimitConstants
  <2> QED BY <2>1, <2>3, <2>4 DEF LimitInv
<1>2. LimitInv /\ [Limits!Next]_limitVars => LimitInv'
  <2> SUFFICES ASSUME LimitInv, [Limits!Next]_limitVars PROVE LimitInv'
    OBVIOUS
  <2>1. CallInv'
    BY CallStep DEF LimitInv
  <2>2. limiter' = limiter
    BY DEF Limits!Next, Limits!Arrive, Limits!Count, Limits!CountFails, Limits!Read,
           Limits!ReadFails, Limits!Refuse, Limits!AppendTime, Limits!AppendFails,
           Limits!ClockTick, limitVars
  <2>3. limiter = "counter" => \A m \in 0 .. Limits!Minute(MaxClock) : CountInv(m)'
    BY CounterStep DEF LimitInv
  <2>4. limiter = "bucket" => BucketInv' /\ \A a, b \in passed' \ blind' : Apart(a, b)'
    BY BucketStep, ApartStep DEF LimitInv
  <2>5. Limits!Minute(MaxClock)' = Limits!Minute(MaxClock)
    BY DEF Limits!Minute
  <2> QED BY <2>1, <2>2, <2>3, <2>4, <2>5 DEF LimitInv
<1> QED BY <1>1, <1>2, PTL DEF LimitSpec

LEMMA LimitsOnly == MCSpec => LimitSpec
<1>1. MCInit => Limits!Init
  BY DEF MCInit
<1>2. [MCNext]_mcVars => [Limits!Next]_limitVars
  BY DEF MCNext, Rest, mcVars
<1> QED BY <1>1, <1>2, PTL DEF MCSpec, LimitSpec

\* rate_limit and rate_limit_leaky_bucket, for any number of calls and failures of Redis:
\* the limit of a minute is exceeded at most twofold, and calls of one interval pass the
\* bucket together only where one had read it before the other was in it, or an older
\* call came behind them.
THEOREM LimitsAlwaysHold == MCSpec => []LimitsHold
<1> USE LimitConstants
<1>1. LimitInv => LimitsHold
  <2> SUFFICES ASSUME LimitInv PROVE Limits!LimitsHold
    BY DEF LimitsHold
  <2>1. ASSUME limiter = "counter", NEW m \in 0 .. Limits!Minute(MaxClock)
        PROVE  Cardinality(Through(m)) <= 2 * Limit
    <3>1. counter[m].n \in Nat /\ Cardinality(Through(m)) \in Nat /\ Limit \in Nat
      BY ThroughIs DEF LimitInv, CallInv, LimitConstants
    <3>2. CountInv(m)
      BY <2>1 DEF LimitInv
    <3> QED BY <3>1, <3>2 DEF CountInv, Least
  <2>2. ASSUME limiter = "bucket", NEW a \in passed \ blind, NEW b \in passed \ blind
        PROVE  Apart(a, b)
    BY <2>2 DEF LimitInv
  <2> QED BY <2>1, <2>2, SameCountOfCalls DEF Limits!LimitsHold, Through, Apart
<1> QED BY <1>1, LimitsOnly, LimitInvHolds, PTL

-----------------------------------------------------------------------------
(* embedding-etl.                                                           *)

EtlSpec == Etl!Init /\ [][Etl!Next]_etlVars

RunRec == [step : {"none", "extract", "load"}, last : Nat, start : Nat, cursor : Nat \X Nat,
           page : SUBSET Etl!Doc, texts : [Etl!Doc -> Nat]]

\* The texts of a page are those of its films, unless one was changed since. What a search
\* finds is never newer than the film.
EtlTypes ==
  /\ etlNow \in Nat \ {0} /\ edits \in Nat
  /\ text \in [Etl!Doc -> Nat \ {0}] /\ embedding \in [Etl!Doc -> Nat]
  /\ updatedAt \in [Etl!Doc -> Nat \ {0}] /\ \A f \in Etl!Doc : updatedAt[f] <= etlNow
  /\ found \in [text : [Etl!Doc -> Nat \ {0}], at : [Etl!Doc -> Nat \ {0}],
                emb : [Etl!Doc -> Nat]]
  /\ \A f \in Etl!Doc : found.at[f] <= etlNow /\ found.text[f] <= text[f]
  /\ mark \in Nat /\ mark <= etlNow
  /\ etlRun \in RunRec /\ etlRun.start <= etlNow
  /\ etlRun.step = "none" => etlRun = Etl!NoRun
  /\ etlRun.step # "none" => etlRun.start # 0
  /\ etlRun.step # "load" => etlRun.page = {}
  /\ \A f \in etlRun.page : etlRun.texts[f] = text[f] \/ f \in forgiven

\* A stale film whose last change a search finds is found at the time of that change.
FoundInv ==
  \A f \in Etl!Doc \ forgiven :
    Etl!Stale(f) /\ f \notin Etl!Unseen => found.at[f] = updatedAt[f]

\* What the next run takes, if it starts from the mark.
MarkInv ==
  mark # 0 => \A f \in Etl!Doc \ forgiven : Etl!Stale(f) => updatedAt[f] > mark

\* The run has yet to come to the film.
Ahead(f) == Etl!After(etlRun.cursor, updatedAt[f], f)

\* A stale film is one of the page, one that the run has yet to come to, or one that was
\* changed after the run has started, which is what the next one looks for.
RunInv ==
  etlRun.step # "none" =>
    \A f \in Etl!Doc \ forgiven :
      Etl!Stale(f) => \/ f \in etlRun.page
                      \/ updatedAt[f] > etlRun.last /\ Ahead(f)
                      \/ updatedAt[f] > etlRun.start

EtlInv == EtlTypes /\ FoundInv /\ MarkInv /\ RunInv

LEMMA LeastNat ==
  ASSUME NEW T \in SUBSET Nat, T # {}
  PROVE  \E x \in T : \A y \in T : x <= y
<1>1. PICK x \in T : \A y \in T : ~ (<<y, x>> \in OpToRel(<, Nat))
  BY NatLessThanWellFounded, WFMin
<1>2. ASSUME NEW y \in T, y < x PROVE FALSE
  BY <1>1, <1>2 DEF OpToRel
<1> QED BY <1>2

LEMMA SameCountOfFilms ==
  ASSUME NEW S
  PROVE  Etl!Cardinality(S) = Cardinality(S)
BY DEF Etl!Cardinality, Cardinality

\* The order of the pages, as an order of numbers.
PageKey(f) == found.at[f] * (NumFilms + 1) + f

LEMMA KeyOrders ==
  ASSUME EtlConstants, EtlTypes, NEW f \in Etl!Doc, NEW g \in Etl!Doc
  PROVE  /\ PageKey(f) \in Nat
         /\ PageKey(f) < PageKey(g) <=> Etl!Before(f, g)
         /\ PageKey(f) = PageKey(g) <=> f = g
<1>1. /\ found.at[f] \in Nat /\ found.at[g] \in Nat
      /\ f \in 1 .. NumFilms /\ g \in 1 .. NumFilms /\ NumFilms \in Nat
  BY DEF EtlTypes, Etl!Doc, EtlConstants
<1>2. ASSUME NEW a \in Nat, NEW b \in Nat, a < b
      PROVE  a * (NumFilms + 1) + (NumFilms + 1) <= b * (NumFilms + 1)
  <2>1. PICK d \in Nat : b = a + 1 + d
    <3>1. b - a - 1 \in Nat /\ b = a + 1 + (b - a - 1)
      BY <1>2
    <3> QED BY <3>1
  <2>2. b * (NumFilms + 1) = a * (NumFilms + 1) + (NumFilms + 1) + d * (NumFilms + 1)
    BY <1>1, <2>1
  <2>3. d * (NumFilms + 1) \in Nat /\ a * (NumFilms + 1) \in Nat
    BY <1>1
  <2> QED BY <1>1, <2>2, <2>3
<1>3. found.at[f] * (NumFilms + 1) \in Nat /\ found.at[g] * (NumFilms + 1) \in Nat
  BY <1>1
<1>4. CASE found.at[f] < found.at[g]
  BY <1>1, <1>2, <1>3, <1>4 DEF PageKey, Etl!Before, Etl!After
<1>5. CASE found.at[f] = found.at[g]
  BY <1>1, <1>3, <1>5 DEF PageKey, Etl!Before, Etl!After
<1>6. CASE found.at[f] > found.at[g]
  BY <1>1, <1>2, <1>3, <1>6 DEF PageKey, Etl!Before, Etl!After
<1> QED BY <1>1, <1>4, <1>5, <1>6

\* Films have a first and a last one.
LEMMA FirstAndLast ==
  ASSUME EtlConstants, EtlTypes, NEW S \in SUBSET Etl!Doc, S # {}
  PROVE  /\ \E f \in S : \A g \in S \ {f} : Etl!Before(f, g)
         /\ \E f \in S : \A g \in S \ {f} : Etl!Before(g, f)
<1>1. PICK f \in S : \A g \in S : PageKey(f) <= PageKey(g)
  <2> DEFINE T == {PageKey(g) : g \in S}
  <2>1. T \in SUBSET Nat /\ T # {}
    BY KeyOrders
  <2>2. PICK x \in T : \A y \in T : x <= y
    BY <2>1, LeastNat
  <2> QED BY <2>2
<1>2. ASSUME NEW g \in S \ {f} PROVE Etl!Before(f, g)
  BY <1>1, KeyOrders
<1> DEFINE B == (etlNow + 1) * (NumFilms + 1)
<1>3. ASSUME NEW g \in Etl!Doc PROVE B - PageKey(g) \in Nat
  <2>1. PICK d \in Nat : etlNow = found.at[g] + d
    <3>1. etlNow - found.at[g] \in Nat /\ etlNow = found.at[g] + (etlNow - found.at[g])
      BY DEF EtlTypes
    <3> QED BY <3>1
  <2>2. /\ found.at[g] \in Nat /\ g \in 1 .. NumFilms /\ NumFilms \in Nat /\ etlNow \in Nat
    BY DEF EtlTypes, Etl!Doc, EtlConstants
  <2>3. B = found.at[g] * (NumFilms + 1) + d * (NumFilms + 1) + NumFilms + 1
    BY <2>1, <2>2
  <2>4. d * (NumFilms + 1) \in Nat /\ found.at[g] * (NumFilms + 1) \in Nat
    BY <2>2
  <2> HIDE DEF B
  <2> QED BY <2>2, <2>3, <2>4 DEF PageKey
<1> B \in Int
  BY DEF EtlTypes, EtlConstants
<1> HIDE DEF B
<1>4. PICK h \in S : \A g \in S : PageKey(g) <= PageKey(h)
  <2> DEFINE T == {B - PageKey(g) : g \in S}
  <2>1. T \in SUBSET Nat /\ T # {}
    BY <1>3
  <2>2. PICK x \in T : \A y \in T : x <= y
    BY <2>1, LeastNat
  <2>3. PICK h \in S : x = B - PageKey(h)
    OBVIOUS
  <2>4. ASSUME NEW g \in S PROVE PageKey(g) <= PageKey(h)
    <3>1. B - PageKey(h) <= B - PageKey(g)
      BY <2>2, <2>3
    <3>2. PageKey(g) \in Nat /\ PageKey(h) \in Nat
      BY KeyOrders
    <3> QED BY <3>1, <3>2
  <2> QED BY <2>4
<1>5. ASSUME NEW g \in S \ {h} PROVE Etl!Before(g, h)
  BY <1>4, KeyOrders
<1> QED BY <1>2, <1>5

LEMMA BeforeIsOrder ==
  ASSUME EtlConstants, EtlTypes, NEW f \in Etl!Doc, NEW g \in Etl!Doc, NEW h \in Etl!Doc
  PROVE  /\ ~ Etl!Before(f, f)
         /\ f = g \/ Etl!Before(f, g) \/ Etl!Before(g, f)
         /\ Etl!Before(f, g) /\ Etl!Before(g, h) => Etl!Before(f, h)
<1>1. ASSUME NEW x \in Etl!Doc, NEW y \in Etl!Doc
      PROVE  Etl!Before(x, y) <=> PageKey(x) < PageKey(y)
  BY KeyOrders
<1>2. PageKey(f) \in Nat /\ PageKey(g) \in Nat /\ PageKey(h) \in Nat
  BY KeyOrders
<1>3. PageKey(f) = PageKey(g) => f = g
  BY KeyOrders
<1> HIDE DEF PageKey
<1> QED BY <1>1, <1>2, <1>3

\* A page of a run that has films to come to has a last film, and what the run wants and
\* the page does not have comes behind it.
LEMMA PageIsFirst ==
  ASSUME EtlConstants, EtlTypes, Etl!Wanted # {}
  PROVE  LET last == CHOOSE f \in Etl!Page : \A g \in Etl!Page \ {f} : Etl!Before(g, f)
         IN  /\ last \in Etl!Page /\ Etl!Page \subseteq Etl!Wanted
             /\ \A f \in Etl!Wanted \ Etl!Page : Etl!Before(last, f)
<1> DEFINE last == CHOOSE f \in Etl!Page : \A g \in Etl!Page \ {f} : Etl!Before(g, f)
           Nearer(f) == {g \in Etl!Wanted : Etl!Before(g, f)}
<1>1. Etl!Wanted \in SUBSET Etl!Doc /\ Etl!Page \in SUBSET Etl!Wanted
  BY DEF Etl!Wanted, Etl!Page
<1>2. ASSUME NEW S \in SUBSET Etl!Doc PROVE IsFiniteSet(S) /\ Cardinality(S) \in Nat
  <2>1. IsFiniteSet(Etl!Doc)
    BY FS_Interval DEF Etl!Doc, EtlConstants
  <2> QED BY <2>1, FS_Subset, FS_CardinalityType
<1>3. \A f \in Etl!Wanted : f \in Etl!Page <=> Cardinality(Nearer(f)) < PageSize
  BY SameCountOfFilms DEF Etl!Page
<1>4. Etl!Page # {}
  <2>1. PICK f \in Etl!Wanted : \A g \in Etl!Wanted \ {f} : Etl!Before(f, g)
    BY <1>1, FirstAndLast
  <2>2. Nearer(f) = {}
    BY <1>1, <2>1, BeforeIsOrder
  <2>3. Cardinality(Nearer(f)) = 0
    BY <2>2, FS_EmptySet
  <2> QED BY <1>3, <2>3 DEF EtlConstants
<1>5. last \in Etl!Page /\ \A g \in Etl!Page \ {last} : Etl!Before(g, last)
  BY <1>1, <1>4, FirstAndLast
<1> HIDE DEF last
<1>6. ASSUME NEW f \in Etl!Wanted \ Etl!Page PROVE Etl!Before(last, f)
  <2> SUFFICES ASSUME ~ Etl!Before(last, f) PROVE FALSE
    OBVIOUS
  <2>1. f \in Etl!Doc /\ last \in Etl!Doc /\ last \in Etl!Wanted /\ Etl!Before(f, last)
    BY <1>1, <1>5, BeforeIsOrder
  <2>2. Nearer(f) \in SUBSET Nearer(last) /\ Nearer(last) \in SUBSET Etl!Doc
    BY <1>1, <2>1, BeforeIsOrder
  <2>3. Cardinality(Nearer(f)) <= Cardinality(Nearer(last))
    BY <1>2, <2>2, FS_Subset
  <2>4. Cardinality(Nearer(last)) < PageSize /\ ~ Cardinality(Nearer(f)) < PageSize
    BY <1>3, <1>5, <2>1
  <2>5. Cardinality(Nearer(f)) \in Nat /\ Cardinality(Nearer(last)) \in Nat /\ PageSize \in Nat
    BY <1>2, <2>2 DEF EtlConstants
  <2> HIDE DEF Nearer
  <2> QED BY <2>3, <2>4, <2>5
<1> QED BY <1>1, <1>5, <1>6 DEF last

\* What a change leaves of a run that goes on.
LEMMA EtlEdit ==
  ASSUME EtlConstants, EtlInv, NEW d \in Etl!Doc, Etl!Edit(d)
  PROVE  EtlInv'
<1> USE DEF EtlConstants
<1>1. /\ text' = [text EXCEPT ![d] = @ + 1] /\ updatedAt' = [updatedAt EXCEPT ![d] = etlNow]
      /\ forgiven' = IF d \in etlRun.page \/ etlNow \in {etlRun.start, mark}
                     THEN forgiven \cup {d} ELSE forgiven \ {d}
      /\ edits' = edits + 1 /\ UNCHANGED <<etlNow, embedding, found, mark, etlRun>>
  BY DEF Etl!Edit
<1>2. EtlTypes'
  <2>1. /\ edits' \in Nat /\ text' \in [Etl!Doc -> Nat \ {0}]
        /\ updatedAt' \in [Etl!Doc -> Nat \ {0}]
        /\ \A f \in Etl!Doc : updatedAt'[f] <= etlNow
    BY <1>1 DEF EtlInv, EtlTypes
  <2>2. \A f \in Etl!Doc : found.text[f] <= text'[f]
    BY <1>1 DEF EtlInv, EtlTypes
  <2>3. ASSUME NEW f \in etlRun.page PROVE etlRun.texts[f] = text'[f] \/ f \in forgiven'
    BY <1>1 DEF EtlInv, EtlTypes, RunRec
  <2> QED BY <1>1, <2>1, <2>2, <2>3 DEF EtlInv, EtlTypes
<1>3. ASSUME NEW f \in Etl!Doc \ {d}
      PROVE  /\ text'[f] = text[f] /\ updatedAt'[f] = updatedAt[f]
             /\ (f \in forgiven') <=> (f \in forgiven)
             /\ Etl!Stale(f)' <=> Etl!Stale(f)
             /\ (f \in Etl!Unseen)' <=> f \in Etl!Unseen
             /\ Ahead(f)' <=> Ahead(f)
  BY <1>1 DEF EtlInv, EtlTypes, Etl!Stale, Etl!Unseen, Ahead, Etl!After
<1>4. \/ d \in forgiven'
      \/ updatedAt'[d] = etlNow /\ etlNow # mark /\ etlNow # etlRun.start
  BY <1>1 DEF EtlInv, EtlTypes
<1>5. mark \in Nat /\ mark <= etlNow /\ etlRun.start \in Nat /\ etlRun.start <= etlNow
      /\ etlNow \in Nat
  BY DEF EtlInv, EtlTypes, RunRec
<1>6. (d \in Etl!Unseen)'
  <2>1. found.text[d] <= text[d] /\ found.text[d] \in Nat /\ text[d] \in Nat
    BY DEF EtlInv, EtlTypes
  <2>2. text'[d] = text[d] + 1 /\ found' = found
    BY <1>1 DEF EtlInv, EtlTypes
  <2>3. found'.text[d] # text'[d]
    BY <2>1, <2>2
  <2> QED BY <2>3 DEF Etl!Unseen
<1>7. FoundInv'
  <2> SUFFICES ASSUME NEW f \in Etl!Doc \ forgiven', Etl!Stale(f)', ~ (f \in Etl!Unseen)'
               PROVE  found'.at[f] = updatedAt'[f]
    BY DEF FoundInv
  <2>1. f # d
    BY <1>6
  <2> QED BY <1>1, <1>3, <2>1 DEF EtlInv, FoundInv
<1>8. MarkInv'
  BY <1>1, <1>3, <1>4, <1>5 DEF EtlInv, MarkInv
<1>9. RunInv'
  BY <1>1, <1>3, <1>4, <1>5 DEF EtlInv, RunInv
<1> QED BY <1>2, <1>7, <1>8, <1>9 DEF EtlInv

LEMMA EtlRefresh ==
  ASSUME EtlConstants, EtlInv, Etl!Refresh
  PROVE  EtlInv'
<1>1. /\ found' = Etl!Index
      /\ UNCHANGED <<etlNow, text, updatedAt, embedding, mark, etlRun, forgiven, edits>>
  BY DEF Etl!Refresh
<1>2. /\ found' \in [text : [Etl!Doc -> Nat \ {0}], at : [Etl!Doc -> Nat \ {0}],
                     emb : [Etl!Doc -> Nat]]
      /\ found'.text = text /\ found'.at = updatedAt
  BY <1>1 DEF Etl!Index, EtlInv, EtlTypes
<1>3. \A f \in Etl!Doc : found'.at[f] <= etlNow /\ found'.text[f] <= text[f]
  BY <1>2 DEF EtlInv, EtlTypes
<1>4. EtlTypes'
  BY <1>1, <1>2, <1>3 DEF EtlInv, EtlTypes
<1>5. FoundInv'
  BY <1>1, <1>2 DEF FoundInv
<1>6. MarkInv' /\ RunInv'
  BY <1>1 DEF EtlInv, MarkInv, RunInv, Etl!Stale, Ahead, Etl!After
<1> QED BY <1>4, <1>5, <1>6 DEF EtlInv

LEMMA EtlBegin ==
  ASSUME EtlConstants, EtlInv, NEW last \in Nat, Etl!Begin(last), last # 0,
         etlRun = Etl!NoRun
  PROVE  EtlInv'
<1> DEFINE run == [Etl!NoRun EXCEPT !.step = "extract", !.last = last, !.start = etlNow]
<1>1. /\ run \in RunRec /\ run.step = "extract" /\ run.last = last /\ run.start = etlNow
      /\ run.page = {} /\ run.cursor = <<0, 0>>
  BY DEF Etl!NoRun, RunRec, EtlInv, EtlTypes
<1>2. etlRun' = run /\ UNCHANGED <<etlNow, text, updatedAt, embedding, found, mark, edits>>
      /\ forgiven' = IF last = mark THEN forgiven
                     ELSE forgiven \cup {f \in Etl!Doc : Etl!Stale(f)}
  BY DEF Etl!Begin
<1> HIDE DEF run
<1>3. EtlTypes'
  BY <1>1, <1>2 DEF EtlInv, EtlTypes
<1>4. FoundInv' /\ MarkInv'
  BY <1>2 DEF EtlInv, FoundInv, MarkInv, Etl!Stale, Etl!Unseen
<1>5. ASSUME NEW f \in Etl!Doc PROVE Ahead(f)'
  BY <1>1, <1>2, <1>5 DEF EtlInv, EtlTypes, Ahead, Etl!After
<1>6. RunInv'
  <2> SUFFICES ASSUME NEW f \in Etl!Doc \ forgiven', Etl!Stale(f)'
               PROVE  updatedAt'[f] > etlRun'.last /\ Ahead(f)'
    BY DEF RunInv
  <2>1. Etl!Stale(f)
    BY <1>2 DEF Etl!Stale
  <2>2. last = mark /\ f \notin forgiven
    BY <1>2, <2>1
  <2>3. updatedAt[f] > mark
    BY <2>1, <2>2 DEF EtlInv, MarkInv
  <2> QED BY <1>1, <1>2, <1>5, <2>2, <2>3
<1> QED BY <1>3, <1>4, <1>6 DEF EtlInv

LEMMA EtlExtract ==
  ASSUME EtlConstants, EtlInv, Etl!Extract
  PROVE  EtlInv'
<1> DEFINE last == CHOOSE f \in Etl!Page : \A g \in Etl!Page \ {f} : Etl!Before(g, f)
           cursor == <<found.at[last], last>>
           run == [etlRun EXCEPT !.step = "load", !.page = Etl!Page, !.texts = Etl!BuildTexts,
                                 !.cursor = cursor]
<1>1. /\ last \in Etl!Page /\ Etl!Page \subseteq Etl!Wanted /\ Etl!Page \subseteq Etl!Doc
      /\ \A f \in Etl!Wanted \ Etl!Page : Etl!Before(last, f)
  <2>1. Etl!Wanted # {}
    BY DEF Etl!Extract
  <2> QED BY <2>1, PageIsFirst DEF EtlInv, Etl!Wanted
<1> HIDE DEF last
<1>2. /\ etlRun' = run /\ etlRun.step = "extract"
      /\ forgiven' = forgiven \cup
           {f \in Etl!Unseen : \/ f \in Etl!Page
                               \/ /\ updatedAt[f] <= etlRun.start
                                  /\ ~ Etl!After(cursor, updatedAt[f], f)}
      /\ UNCHANGED <<etlNow, text, updatedAt, embedding, found, mark, edits>>
  BY DEF Etl!Extract, last
<1>3. /\ Etl!BuildTexts \in [Etl!Doc -> Nat]
      /\ \A f \in Etl!Page : Etl!BuildTexts[f] = text[f] \/ f \in forgiven'
  BY <1>1, <1>2 DEF Etl!BuildTexts, Etl!Unseen, EtlInv, EtlTypes
<1>4. found.at[last] \in Nat /\ last \in Nat
  BY <1>1 DEF EtlInv, EtlTypes, Etl!Doc
<1>5. /\ run \in RunRec /\ run.step = "load" /\ run.last = etlRun.last
      /\ run.start = etlRun.start /\ run.page = Etl!Page /\ run.texts = Etl!BuildTexts
      /\ run.cursor = cursor
  BY <1>1, <1>3, <1>4 DEF RunRec, EtlInv, EtlTypes
<1> HIDE DEF run
<1>6. EtlTypes'
  BY <1>1, <1>2, <1>3, <1>5 DEF EtlInv, EtlTypes
<1>7. FoundInv' /\ MarkInv'
  BY <1>2 DEF EtlInv, FoundInv, MarkInv, Etl!Stale, Etl!Unseen
<1>8. RunInv'
  <2> SUFFICES ASSUME NEW f \in Etl!Doc \ forgiven', Etl!Stale(f)', f \notin etlRun'.page,
                      ~ updatedAt'[f] > etlRun'.start
               PROVE  updatedAt'[f] > etlRun'.last /\ Ahead(f)'
    BY DEF RunInv
  <2>1. /\ Etl!Stale(f) /\ f \in Etl!Doc \ forgiven /\ ~ updatedAt[f] > etlRun.start
        /\ etlRun.page = {} /\ f \notin Etl!Page
    BY <1>2, <1>5 DEF Etl!Stale, EtlInv, EtlTypes
  <2>2. updatedAt[f] > etlRun.last /\ Ahead(f)
    BY <1>2, <2>1 DEF EtlInv, RunInv
  <2>3. updatedAt[f] <= etlRun.start
    BY <2>1 DEF EtlInv, EtlTypes, RunRec
  <2>4. Etl!After(cursor, updatedAt[f], f)
    <3>1. CASE f \in Etl!Unseen
      BY <1>2, <2>3, <3>1
    <3>2. CASE f \notin Etl!Unseen
      <4>1. found.at[f] = updatedAt[f]
        BY <2>1, <3>2 DEF EtlInv, FoundInv
      <4>2. f \in Etl!Wanted
        BY <2>1, <2>2, <2>3, <4>1 DEF Etl!Wanted, Ahead
      <4> QED BY <1>1, <2>1, <4>1, <4>2 DEF Etl!Before
    <3> QED BY <3>1, <3>2
  <2>5. Ahead(f)'
    BY <1>2, <1>5, <2>4 DEF Ahead, Etl!After
  <2> QED BY <1>2, <1>5, <2>2, <2>5
<1> QED BY <1>6, <1>7, <1>8 DEF EtlInv

LEMMA EtlLoad ==
  ASSUME EtlConstants, EtlInv, NEW failed \in SUBSET Etl!Doc, Etl!Load(failed)
  PROVE  EtlInv'
<1> DEFINE run == [etlRun EXCEPT !.step = "extract", !.page = {}, !.texts = Etl!NoRun.texts]
           done == etlRun.page \ failed
<1>1. /\ etlRun' = run /\ etlRun.step = "load" /\ failed \subseteq etlRun.page
      /\ embedding' = [f \in Etl!Doc |-> IF f \in done THEN etlRun.texts[f] ELSE embedding[f]]
      /\ updatedAt' = [f \in Etl!Doc |-> IF f \in done THEN etlRun.start ELSE updatedAt[f]]
      /\ forgiven' = forgiven \cup {f \in failed : embedding[f] # 0}
      /\ UNCHANGED <<etlNow, text, found, mark, edits>>
  BY DEF Etl!Load, Etl!Refused, Etl!Embedded
<1>2. /\ run \in RunRec /\ run.step = "extract" /\ run.last = etlRun.last
      /\ run.start = etlRun.start /\ run.page = {} /\ run.cursor = etlRun.cursor
  BY DEF RunRec, EtlInv, EtlTypes, Etl!NoRun
<1> HIDE DEF run
<1>3. embedding' \in [Etl!Doc -> Nat]
  BY <1>1 DEF EtlInv, EtlTypes, RunRec
<1>4. updatedAt' \in [Etl!Doc -> Nat \ {0}] /\ \A f \in Etl!Doc : updatedAt'[f] <= etlNow
  BY <1>1 DEF EtlInv, EtlTypes, RunRec
<1>5. EtlTypes'
  BY <1>1, <1>2, <1>3, <1>4 DEF EtlInv, EtlTypes
<1>6. ASSUME NEW f \in Etl!Doc \ forgiven', Etl!Stale(f)'
      PROVE  /\ f \in Etl!Doc \ forgiven /\ f \notin etlRun.page /\ Etl!Stale(f)
             /\ updatedAt'[f] = updatedAt[f]
  <2>1. f \notin done
    BY <1>1, <1>6 DEF EtlInv, EtlTypes, Etl!Stale
  <2>2. f \notin failed
    BY <1>1, <1>6, <2>1 DEF Etl!Stale
  <2> QED BY <1>1, <1>6, <2>1, <2>2 DEF Etl!Stale
<1>7. FoundInv'
  BY <1>1, <1>6 DEF EtlInv, FoundInv, Etl!Unseen
<1>8. MarkInv'
  BY <1>1, <1>6 DEF EtlInv, MarkInv
<1>9. RunInv'
  BY <1>1, <1>2, <1>6 DEF EtlInv, RunInv, Ahead, Etl!After
<1> QED BY <1>5, <1>7, <1>8, <1>9 DEF EtlInv

LEMMA EtlEnds ==
  ASSUME EtlConstants, EtlInv, Etl!Finish \/ Etl!RunFails
  PROVE  EtlInv'
<1>1. /\ UNCHANGED <<etlNow, text, updatedAt, embedding, found, edits>>
      /\ etlRun' = Etl!NoRun
      /\ \/ forgiven' = forgiven /\ mark' \in {0, mark}
         \/ /\ forgiven' = Etl!Passed /\ mark' = etlRun.start
            /\ etlRun.step = "extract" /\ Etl!Wanted = {}
  BY DEF Etl!Finish, Etl!RunFails
<1>2. Etl!NoRun \in RunRec /\ Etl!NoRun.step = "none" /\ Etl!NoRun.start = 0
      /\ Etl!NoRun.page = {}
  BY DEF Etl!NoRun, RunRec
<1>3. mark' \in Nat /\ mark' <= etlNow /\ forgiven \subseteq forgiven'
  BY <1>1 DEF EtlInv, EtlTypes, RunRec, Etl!Passed
<1>4. EtlTypes'
  BY <1>1, <1>2, <1>3 DEF EtlInv, EtlTypes
<1>5. RunInv' /\ FoundInv'
  BY <1>1, <1>2, <1>3 DEF EtlInv, FoundInv, RunInv, Etl!Stale, Etl!Unseen
<1>6. MarkInv'
  <2>1. ASSUME NEW f \in Etl!Doc \ Etl!Passed, Etl!Stale(f), etlRun.step = "extract",
               Etl!Wanted = {}
        PROVE  updatedAt[f] > etlRun.start
    <3> SUFFICES ASSUME ~ updatedAt[f] > etlRun.start PROVE FALSE
      OBVIOUS
    <3>1. f \notin forgiven /\ etlRun.page = {} /\ updatedAt[f] <= etlRun.start
      BY <2>1 DEF EtlInv, EtlTypes, RunRec, Etl!Passed
    <3>2. f \notin Etl!Unseen
      BY <2>1, <3>1 DEF Etl!Passed
    <3>3. updatedAt[f] > etlRun.last /\ Ahead(f) /\ found.at[f] = updatedAt[f]
      BY <2>1, <3>1, <3>2 DEF EtlInv, RunInv, FoundInv
    <3>4. f \in Etl!Wanted
      BY <3>1, <3>3 DEF Etl!Wanted, Ahead
    <3> QED BY <2>1, <3>4
  <2> QED BY <1>1, <2>1 DEF EtlInv, MarkInv, Etl!Stale
<1> QED BY <1>4, <1>5, <1>6 DEF EtlInv

LEMMA EtlInvHolds ==
  ASSUME EtlConstants
  PROVE  EtlSpec => []EtlInv
<1>1. Etl!Init => EtlInv
  <2> SUFFICES ASSUME Etl!Init PROVE EtlInv
    OBVIOUS
  <2>1. EtlTypes
    BY DEF EtlConstants, Etl!Init, Etl!NoRun, Etl!Index, EtlTypes, RunRec
  <2>2. FoundInv /\ MarkInv /\ RunInv
    BY DEF Etl!Init, Etl!NoRun, Etl!Index, FoundInv, MarkInv, RunInv, Etl!Stale
  <2> QED BY <2>1, <2>2 DEF EtlInv
<1>2. EtlInv /\ [Etl!Next]_etlVars => EtlInv'
  <2> SUFFICES ASSUME EtlInv, [Etl!Next]_etlVars PROVE EtlInv'
    OBVIOUS
  <2>1. CASE Etl!Start
    <3>1. mark \in Nat /\ etlNow \in Nat \ {0}
      BY DEF EtlInv, EtlTypes
    <3> QED BY <2>1, <3>1, EtlBegin DEF Etl!Start
  <2>2. CASE Etl!StartBlind
    <3>1. etlNow \in Nat \ {0}
      BY DEF EtlInv, EtlTypes
    <3> QED BY <2>2, <3>1, EtlBegin DEF Etl!StartBlind
  <2>3. CASE Etl!EtlTick
    <3>1. /\ etlNow' = etlNow + 1 /\ mark' \in {0, mark}
          /\ UNCHANGED <<text, updatedAt, embedding, found, etlRun, forgiven, edits>>
      BY <2>3 DEF Etl!EtlTick
    <3>2. EtlTypes'
      BY <3>1 DEF EtlInv, EtlTypes, RunRec
    <3>3. FoundInv' /\ MarkInv' /\ RunInv'
      BY <3>1 DEF EtlInv, FoundInv, MarkInv, RunInv, Etl!Stale, Etl!Unseen, Ahead, Etl!After
    <3> QED BY <3>2, <3>3 DEF EtlInv
  <2>4. CASE UNCHANGED etlVars
    BY <2>4 DEF etlVars, EtlInv, EtlTypes, FoundInv, MarkInv, RunInv, Etl!Stale, Etl!Unseen,
                Ahead, Etl!After
  <2> QED BY <2>1, <2>2, <2>3, <2>4, EtlEdit, EtlRefresh, EtlExtract, EtlLoad, EtlEnds DEF Etl!Next
<1> QED BY <1>1, <1>2, PTL DEF EtlSpec

LEMMA EtlOnly == MCSpec => EtlSpec
<1>1. MCInit => Etl!Init
  BY DEF MCInit
<1>2. [MCNext]_mcVars => [Etl!Next]_etlVars
  BY DEF MCNext, Rest, mcVars
<1> QED BY <1>1, <1>2, PTL DEF MCSpec, EtlSpec

\* The embedding pipeline, for any number of films, any size of a page and any number of
\* changes and failed runs: between the runs a film whose embedding is not that of its
\* text is one the next run takes, unless a named gap has lost its change.
THEOREM NothingIsForgotten == MCSpec => []NotForgotten
<1> USE EtlConstants
<1>1. EtlInv => NotForgotten
  BY DEF EtlInv, MarkInv, NotForgotten, Etl!NotForgotten
<1> QED BY <1>1, EtlOnly, EtlInvHolds, PTL

=============================================================================
