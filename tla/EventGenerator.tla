--------------------------- MODULE EventGenerator ---------------------------
(***************************************************************************)
(* event-generator: the weekly mailing of fresh films, the mailings of the  *)
(* managers and their templates.                                            *)
(*                                                                          *)
(* Each of them ends in a write that is repeated when it failed, and also   *)
(* when only the answer did: a POST to notification-service, or the insert  *)
(* of a template, whose key is chosen anew by each attempt.                 *)
(***************************************************************************)
EXTENDS Integers

CONSTANTS
  Order,       \* runs of the job, forms and templates
  MaxTries     \* max_tries of the client, max_attempts of the repository

VARIABLES
  kind,      \* who asked for the write
  stage,     \* what it is at
  tries,     \* the attempts at the present call that failed
  written,   \* mailings or templates that exist because of it
  late       \* attempts that were carried out without an answer

orderVars == <<kind, stage, tries, written, late>>

Kind == {"weekly", "form", "template"}

Init ==
  /\ kind \in [Order -> Kind]
  /\ stage   = [o \in Order |-> "due"]
  /\ tries   = [o \in Order |-> 0]
  /\ written = tries /\ late = tries

To(o, s) == stage' = [stage EXCEPT ![o] = s] /\ tries' = [tries EXCEPT ![o] = 0]

\* Mutation: the attempts are not counted.
Again_ever(o, s) ==
  /\ stage' = stage
  /\ UNCHANGED tries

\* Another attempt, or the call has given up.
Again(o, s) ==
  IF tries[o] + 1 < MaxTries
  THEN tries' = [tries EXCEPT ![o] = @ + 1] /\ UNCHANGED stage
  ELSE To(o, s)

-----------------------------------------------------------------------------

\* The beat of Celery; a manager with a form, or with the text of a template.
Begin(o) ==
  /\ stage[o] = "due"
  /\ To(o, IF kind[o] = "weekly" THEN "films" ELSE "write")
  /\ UNCHANGED <<kind, written, late>>

\* The form has no template_id, or the template is not HTML.
Invalid(o) ==
  /\ stage[o] = "due" /\ kind[o] \in {"form", "template"}
  /\ To(o, "failed")
  /\ UNCHANGED <<kind, written, late>>

GetFilms(o) ==
  /\ stage[o] = "films"
  /\ To(o, "write")
  /\ UNCHANGED <<kind, written, late>>

\* When the client has given up, there is no list to walk through.
GetFilmsFails(o) ==
  /\ stage[o] = "films"
  /\ Again(o, "failed")
  /\ UNCHANGED <<kind, written, late>>

Create(o) == written' = [written EXCEPT ![o] = @ + 1]

Made(o) ==
  /\ stage[o] = "write"
  /\ Create(o) /\ To(o, "made")
  /\ UNCHANGED <<kind, late>>

\* The mailing is in notification-service, and its answer is logged.
SendFilms(o) == kind[o] = "weekly" /\ Made(o)

CreateMassNotify(o) == kind[o] = "form" /\ Made(o)

CreateTemplate(o) == kind[o] = "template" /\ Made(o)

\* The manager gets an error after the last attempt, the log of the job a None.
PostFails(o) ==
  /\ stage[o] = "write"
  /\ Again(o, "failed")
  /\ UNCHANGED <<kind, written, late>>

\* A timeout, or a commit whose answer is lost.
PostLate(o) ==
  /\ stage[o] = "write"
  /\ Create(o) /\ Again(o, "failed")
  /\ late' = [late EXCEPT ![o] = @ + 1]
  /\ UNCHANGED kind

\* The worker or the service stops. Celery has acknowledged the task when it began.
Stop(o) ==
  /\ stage[o] \in {"films", "write"}
  /\ To(o, "failed")
  /\ UNCHANGED <<kind, written, late>>

Next == \E o \in Order :
  \/ Begin(o) \/ Invalid(o)
  \/ GetFilms(o) \/ GetFilmsFails(o)
  \/ SendFilms(o) \/ CreateMassNotify(o) \/ CreateTemplate(o)
  \/ PostFails(o) \/ PostLate(o)
  \/ Stop(o)

-----------------------------------------------------------------------------
(* Properties.                                                              *)

TypeOK ==
  /\ kind \in [Order -> Kind]
  /\ stage \in [Order -> {"due", "films", "write", "made", "failed"}]
  /\ tries \in [Order -> 0 .. MaxTries - 1]
  /\ written \in [Order -> Nat] /\ late \in [Order -> Nat]

\* What the manager or the log is told, against what exists: a success stands for one
\* mailing more than there were late answers, a failure for as many as these, and the
\* attempts bound both. Everybody gets a mailing as often as it exists.
OneOrderOneMailing ==
  \A o \in Order :
    /\ written[o] = late[o] + IF stage[o] = "made" THEN 1 ELSE 0
    /\ written[o] <= MaxTries
=============================================================================
