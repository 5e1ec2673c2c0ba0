------------------------------- MODULE MCMass -------------------------------
(* Instances of MassNotification for TLC.                                   *)
EXTENDS MassNotification, TLC

CONSTANTS m1, m2, u1, u2, u3, u4

\* One full page and a short one, two full ones (which need an empty third).
OnePage    == {<<u1, u2, u3>>}
TwoPages   == {<<u1, u2, u3, u4>>}
AllRosters == {<<u1>>} \cup OnePage \cup TwoPages

\* Before and after the start of a mailing.
MCHour == {1, 2}

Symmetry == Permutations({m1, m2})
=============================================================================
