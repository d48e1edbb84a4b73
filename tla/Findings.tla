------------------------------ MODULE Findings ------------------------------
(***************************************************************************)
(* The findings register.  A run of the checker reads what is broken and   *)
(* then the findings it may touch, locks neither, and writes later; a      *)
(* nightly run and the administrators' button may overlap, and verdicts    *)
(* land in between.                                                        *)
(***************************************************************************)
EXTENDS Naturals, FiniteSets

CONSTANTS
    Subjects,   \* what an invariant can be broken about: one finding id each
    Runs,       \* runs that may be under way at once
    Nightly     \* the one the worker starts every night

ASSUME FindingsAssumption == Nightly \in Runs

VARIABLES
    drifted,   \* the subjects an invariant is broken about
    finding,   \* subject -> "none", "open", "resolved" or "dismissed"
    run        \* run -> [at, violations, existing]

findingVars == <<drifted, finding, run>>

Statuses == {"none", "open", "resolved", "dismissed"}
Idle == [at |-> "idle", violations |-> {}, existing |-> [s \in Subjects |-> "none"]]

FindingsInit ==
    /\ drifted = {}
    /\ finding = [s \in Subjects |-> "none"]
    /\ run = [r \in Runs |-> Idle]

\* The rest of the system breaks an invariant and compensates it.
Drift(s) ==
    /\ drifted' = (drifted \cup {s}) \ (drifted \cap {s})
    /\ UNCHANGED <<finding, run>>

-----------------------------------------------------------------------------
\* _load_checker reads the violations first,
ReadViolations(r) ==
    /\ run[r].at = "idle"
    /\ run' = [run EXCEPT ![r].at = "read", ![r].violations = drifted]
    /\ UNCHANGED <<drifted, finding>>

\* and then, in a later snapshot, their findings and all that are dismissed.
ReadFindings(r) ==
    /\ run[r].at = "read"
    /\ run' = [run EXCEPT ![r].at = "decided",
                          ![r].existing = [s \in Subjects |->
                              IF s \in run[r].violations \/ finding[s] = "dismissed"
                              THEN finding[s] ELSE "none"]]
    /\ UNCHANGED <<drifted, finding>>

\* Findings the run believes are new: their insert fails on one that appeared.
Raised(v) == {s \in v.violations : v.existing[s] = "none"}

\* Mutant: a verdict of resolved is believed, whatever the next run sees.
WrittenOnce(v, s) ==
    IF s \in Raised(v) THEN "open"
    ELSE IF s \notin v.violations /\ v.existing[s] = "dismissed" THEN "resolved"
    ELSE finding[s]

\* _decide_run_consistency_checker, whose updates look at the id only: raise,
\* reopen what was resolved and is broken again, close what was dismissed and
\* has healed.
Written(v, s) ==
    IF s \in Raised(v) \/ (s \in v.violations /\ v.existing[s] = "resolved") THEN "open"
    ELSE IF s \notin v.violations /\ v.existing[s] = "dismissed" THEN "resolved"
    ELSE finding[s]

FinishRun(r) ==
    /\ run[r].at = "decided"
    /\ finding' = IF \E s \in Raised(run[r]) : finding[s] # "none"
                  THEN finding
                  ELSE [s \in Subjects |-> Written(run[r], s)]
    /\ run' = [run EXCEPT ![r] = Idle]
    /\ UNCHANGED drifted

-----------------------------------------------------------------------------
\* resolve_finding and dismiss_finding take open findings only, under lock, and
\* do not look at the invariant.
Verdict(s, status) ==
    /\ finding[s] = "open"
    /\ status \in {"resolved", "dismissed"}
    /\ finding' = [finding EXCEPT ![s] = status]
    /\ UNCHANGED <<drifted, run>>

RunStep(r) == ReadViolations(r) \/ ReadFindings(r) \/ FinishRun(r)

FindingsNext ==
    \/ \E s \in Subjects : Drift(s) \/ \E status \in Statuses : Verdict(s, status)
    \/ \E r \in Runs : RunStep(r)

-----------------------------------------------------------------------------
\* Drift that lasts is listed again and again until it heals or an
\* administrator dismisses it, though runs overlap, one run's insert fails the
\* other's whole plan, and administrators resolve findings without repairing
\* anything.
DriftIsListed ==
    \A s \in Subjects :
        <>[](s \in drifted) => []<>(finding[s] \in {"open", "dismissed"})
=============================================================================
