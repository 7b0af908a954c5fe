--------------------------- MODULE MCJobAdmission ---------------------------
(***************************************************************************)
(* An instance of JobAdmission for TLC: rules on disruptions, on their      *)
(* absence, on another condition and on an exit code.                       *)
(***************************************************************************)
EXTENDS JobAdmission

SomeRules ==
  [action : {"Ignore", "FailJob"}, on : {{Disrupted}, {Undisrupted}, {"other"}}]
    \cup [action : {"Count"}, on : {{"code"}}]
AConfigIssue == {"other"}
AnExitCode == {"code"}
=============================================================================
