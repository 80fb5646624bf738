------------------------------ MODULE ExitCodes ------------------------------
(***************************************************************************)
(* How crates/mdok-cli turns diagnostics into an exit status.  A diagnostic *)
(* code MDOK-Exyz is the number xyz, so a test of its prefix is a division. *)
(* There are two mappings: one for `mdok lint|plan|list|test|run`, one for  *)
(* `mdok call|record|replay`.                                               *)
(***************************************************************************)
EXTENDS Integers

EXIT_OK == 0
EXIT_CHECK_FAILED == 1
EXIT_INPUT == 2
EXIT_POLICY == 3

IsFailure(status) == status \in {"failed", "error"}

(* Codes that make a document whose plan failed an error, not a failure.    *)
PlanErrorCodes == {302, 303, 304, 306, 312, 602, 603, 604}

ReportPolicyCodes == {302, 303, 304, 306, 602, 603, 604}
InputCode(c) == c \in {500, 700, 800} \/ c \div 100 \in 0..4

(* report_exit_code: the codes of the whole report, has_failures of its     *)
(* summary.                                                                 *)
ReportExitCode(codes, hasFailures) ==
    IF codes \cap ReportPolicyCodes # {} THEN EXIT_POLICY
    ELSE IF \E c \in codes : InputCode(c) THEN EXIT_INPUT
    ELSE IF hasFailures THEN EXIT_CHECK_FAILED ELSE EXIT_OK

InvocationPolicyCodes == ReportPolicyCodes \cup {307, 312, 404}

(* The end of run_invocation with report_exit_code_from_document.           *)
InvocationExitCode(codes, status) ==
    IF ~IsFailure(status) THEN EXIT_OK
    ELSE IF codes \cap InvocationPolicyCodes # {} THEN EXIT_POLICY
    ELSE IF status = "error" THEN EXIT_INPUT ELSE EXIT_CHECK_FAILED
=============================================================================
