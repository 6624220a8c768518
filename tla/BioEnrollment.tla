----------------------------- MODULE BioEnrollment -----------------------------
(***************************************************************************)
(* FPBioEnrollment and FPEnrollmentContext (ctap2/bio.py).  A context      *)
(* remembers a template and captures sample after sample; the              *)
(* authenticator has one enrollment, which any begin replaces and any      *)
(* enrollCancel, by whichever platform, drops.                             *)
(***************************************************************************)
EXTENDS ManagedAuthenticator

\* the sample is good, bad, or the user does nothing (a feedback as well);
\* "full": the template cannot be stored and nothing remains to be done
Feedback == {"good", "bad", "full"}

\* the template that has been asked for its last sample is enrolled
Captured(template, left, status) ==
  CASE status = "bad" ->
         /\ enrolling' = [template |-> template, left |-> left]
         /\ UNCHANGED templates
    [] status = "full" ->
         /\ enrolling' = NoEnrollment
         /\ UNCHANGED templates
    [] status = "good" /\ left = 1 ->
         /\ enrolling' = NoEnrollment
         /\ templates' = templates \cup {template}
    [] status = "good" /\ left # 1 ->
         /\ enrolling' = [template |-> template, left |-> left - 1]
         /\ UNCHANGED templates

Remaining(left, status) ==
  CASE status = "bad" -> left [] status = "full" -> 0 [] OTHER -> left - 1

\* what capture makes of the answer: the context is set before the status
\* is looked at
CaptureIf(p, template, remaining, good, complete) ==
  /\ context' = [context EXCEPT ![p] =
                   [template |-> template, remaining |-> remaining]]
  /\ Returns(p, IF good THEN Done ELSE Raised)        \* CaptureError
  /\ claimed' = IF good /\ complete THEN claimed \cup {template} ELSE claimed

CaptureOldRemaining(p, template, remaining, status) ==
  CaptureIf(p, template, remaining, status = "good", context[p].remaining = 0)

Capture(p, template, remaining, status) ==
  CaptureIf(p, template, remaining, status = "good", remaining = 0)

\* the answer arrives, or is lost: then the context is as before
Answered(p, template, left, status) ==
  \/ /\ Capture(p, template, Remaining(left, status), status)
     /\ UNCHANGED <<orphans, lost>>
  \/ /\ lost < MaxLost
     /\ lost' = lost + 1
     /\ Returns(p, Raised)
     /\ orphans' = orphans \cup (templates' \ templates)
     /\ UNCHANGED <<context, claimed>>

Refused(p) ==
  Returns(p, Raised) /\ UNCHANGED <<bioState, context, claimed, orphans, lost>>

Used == templates \cup claimed \cup orphans \cup {enrolling.template}
          \cup {context[p].template : p \in Platforms}

EnrollBegin(p, status) ==
  /\ Starts(p)
  /\ context[p].template = "none"
  /\ Discards
  /\ IF Authorized(p)
     THEN \E t \in Templates \ Used, samples \in Samples :
            /\ Captured(t, samples, status)
            /\ Answered(p, t, samples, status)
     ELSE Refused(p)
  /\ UNCHANGED <<credState, pinState, job>>

EnrollCaptureNext(p, status) ==
  /\ Starts(p)
  /\ context[p].template # "none"
  /\ Discards
  /\ IF Authorized(p) /\ enrolling.template = context[p].template
     THEN /\ Captured(enrolling.template, enrolling.left, status)
          /\ Answered(p, enrolling.template, enrolling.left, status)
     ELSE Refused(p)
  /\ UNCHANGED <<credState, pinState, job>>

\* not authenticated: it drops whatever enrollment there is
EnrollCancel(p) ==
  /\ Starts(p)
  /\ Discards
  /\ enrolling' = NoEnrollment
  /\ context' = [context EXCEPT ![p] = [@ EXCEPT !.template = "none"]]
  /\ Returns(p, Done)
  /\ UNCHANGED <<credState, pinState, templates, job, claimed, orphans, lost>>

RemoveEnrollment(p, t) ==
  /\ Single(p, Authorized(p) /\ t \in templates, templates' = templates \ {t},
            UNCHANGED templates)
  /\ UNCHANGED <<enrolling, credState, pinState>>

\* {} when there is none (INVALID_OPTION); set_name and the sensor info
\* change nothing that is modelled
EnumerateEnrollments(p) == Reads(p, Authorized(p))

BioNext ==
  \E p \in Platforms :
    \/ \E status \in Feedback : EnrollBegin(p, status) \/ EnrollCaptureNext(p, status)
    \/ EnrollCancel(p)
    \/ EnumerateEnrollments(p)
    \/ \E t \in Templates : RemoveEnrollment(p, t)

\* An enrolled template was returned by a capture, unless its answer was
\* lost: then the context cannot go on with it either, and only
\* enumerate_enrollments shows it.
EnrolledIsReturned == templates \subseteq claimed \cup orphans

\* Every step leaves it so, and the step that returns a template ID is the one
\* that enrolls it (bio.py:132-146).
EnrollmentIsReturned == [][EnrolledIsReturned' /\ claimed' \ claimed \subseteq templates']_vars
===============================================================================
