----------------------------- MODULE RetryPolicy -----------------------------
(***************************************************************************)
(* The retry policy of api/app/jobs.py: which failures are worth trying    *)
(* again and what a row becomes when one is recorded.  Resumes and         *)
(* screenings share it, so it answers in verdicts and each job maps a      *)
(* verdict onto its own statuses.                                          *)
(***************************************************************************)
EXTENDS Naturals

CONSTANT MaxAttempts    \* settings.job_max_attempts

ASSUME MaxAttemptsAssumption == MaxAttempts \in Nat \ {0}

\* What can be raised in a job, up to what the policy tells apart.
\* "unexpected" is every exception that is none of the named classes.
Permanent ==
    {"parse", "object_not_found", "llm_config", "ocr_unavailable", "not_screenable"}

Errors == Permanent \cup {"llm", "ocr", "worker_vanished", "unexpected"}

\* A whitelist of the permanent errors, never of the transient ones.
IsRetryable(error) == error \notin Permanent

\* Mutant of Verdict: a budget that allows one failure too many.
VerdictOffByOne(error, failed) ==
    IF ~IsRetryable(error) THEN "permanent"
    ELSE IF failed > MaxAttempts THEN "exhausted"
    ELSE "retry"

\* `failed` is the count of consecutive failures including this one.
Verdict(error, failed) ==
    IF ~IsRetryable(error) THEN "permanent"
    ELSE IF failed >= MaxAttempts THEN "exhausted"
    ELSE "retry"

\* What _record_failure and _record_screening_failure make of a verdict.
StatusAfter(error, failed) ==
    CASE Verdict(error, failed) = "permanent" -> "failed"
      [] Verdict(error, failed) = "exhausted" -> "dead_lettered"
      [] Verdict(error, failed) = "retry"     -> "pending"
=============================================================================
