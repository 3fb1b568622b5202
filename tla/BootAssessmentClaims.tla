------------------------ MODULE BootAssessmentClaims ------------------------
(***************************************************************************)
(* What the boot assessment says of itself and does not keep.              *)
(***************************************************************************)
EXTENDS BootAssessment

\* "After upgrade ... we set the boot_assessment_check=yes variable": the active
\* system has passed an assessment, or one is asked for.  The service that still
\* assesses the system an upgrade was started from drops the request the upgrade
\* has just made, and the new system boots without its check.
NewActiveAssessed == env.check \/ active \in proven
=============================================================================
