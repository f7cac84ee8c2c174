--------------------------- MODULE ApplicationRules ---------------------------
(***************************************************************************)
(* api/app/applications.py: which moves an application may make, and what  *)
(* its log of events says.  Everything a rule needs is an argument;        *)
(* nothing is looked up.                                                   *)
(***************************************************************************)
EXTENDS Naturals, Sequences

\* "none" is Python's None: no application yet, and no move.
States == {"applied", "screening", "screened", "shortlisted", "rejected", "withdrawn"}

TerminalStates == {"rejected", "withdrawn"}

Movers == {"applicant", "job_owner", "system"}

\* The moves the system may make.  A worker following a screening expresses
\* no opinion about anybody.
FollowsScreening ==
    { <<"applied", "screening">>, <<"screening", "screened">>, <<"screening", "applied">>,
      <<"screened", "screening">>, <<"shortlisted", "screening">> }

\* The table _ALLOWED: a decision of the owner's or the applicant's may be
\* made in every state that is not terminal, a shortlist only once screened.
Allowed(from, to, mover) ==
    CASE mover = "system"    -> <<from, to>> \in FollowsScreening
      [] mover = "job_owner" -> to = "rejected" \/ <<from, to>> = <<"screened", "shortlisted">>
      [] mover = "applicant" -> to = "withdrawn"

NeedsEvidence == {"shortlisted"}

\* Mutant of Plan: a state that is not looked at before it is left.
PlanFromAnywhere(current, to, mover, evidence) ==
    IF /\ to # current
       /\ Allowed(current, to, mover)
       /\ to \in NeedsEvidence => evidence
    THEN to ELSE "none"

\* plan_transition, for a request that gives a reason where one is needed:
\* the state to move to, or "none" if the move is refused.
Plan(current, to, mover, evidence) ==
    IF /\ current \notin TerminalStates
       /\ to # current
       /\ Allowed(current, to, mover)
       /\ to \in NeedsEvidence => evidence
    THEN to ELSE "none"

-----------------------------------------------------------------------------
Events == [from: States \cup {"none"}, to: States]

Event(from, to) == [from |-> from, to |-> to]

\* Where a log stands after its first n events, gaps apart.
After(log, n) == IF n = 0 THEN "none" ELSE log[n].to

HasNoGap(log) == \A i \in 1 .. Len(log) : log[i].from = After(log, i - 1)

\* replay: the state the log says the application is in.
Replay(log) == IF HasNoGap(log) THEN After(log, Len(log)) ELSE "none"
=============================================================================
