----------------------------- MODULE Overrides -----------------------------
(***************************************************************************)
(* Scoped overrides of the gates (INT-2): staff grant and deactivate rows, *)
(* time expires them, and a gate asks which one row is in force for its    *)
(* subject.  There is one cycle and one job in it; enrollments differ.     *)
(***************************************************************************)
EXTENDS Naturals, FiniteSets

CONSTANTS
    Rows,           \* ids of overrides, compared like the code's uuids
    Enrollments,
    RuleDomains,
    MaxCreated,     \* bound: the last instant created_at may carry
    NoEnrollment    \* the row names no enrollment

ASSUME OverridesAssumption ==
    /\ Rows \subseteq Nat /\ NoEnrollment \notin Enrollments
    /\ RuleDomains # {} /\ MaxCreated \in Nat

VARIABLE row       \* id -> an override

overrideVars == <<row>>

\* SPECIFICITY_RANK
Rank == [s \in {"cycle", "job", "enrollment", "cycle+enrollment",
                "job+enrollment", "application"} |->
    CASE s = "cycle" -> 1 [] s = "job" -> 2 [] s = "enrollment" -> 3
      [] s = "cycle+enrollment" -> 4 [] s = "job+enrollment" -> 5
      [] s = "application" -> 6]

Specificities == DOMAIN Rank
NamesEnrollment(s) == Rank[s] >= 3

\* DOMAIN_SCOPES, for one domain of each kind.
DomainScopes(domain) ==
    CASE domain = "eligibility"     -> Specificities \ {"application"}
      [] domain = "outcome_gate"    -> Specificities
      [] domain = "cycle_join_rule" -> {"cycle", "enrollment", "cycle+enrollment"}

OverrideRows ==
    [state : {"none", "active", "expired", "inactive"}, domain : RuleDomains,
     allow : BOOLEAN, scope : Specificities, of : Enrollments \cup {NoEnrollment},
     at : 0 .. MaxCreated]

NoRow == [state |-> "none", domain |-> CHOOSE d \in RuleDomains : TRUE,
          allow |-> TRUE, scope |-> "cycle", of |-> NoEnrollment, at |-> 0]

OverridesInit == row = [i \in Rows |-> NoRow]

-----------------------------------------------------------------------------
\* create_override.  created_at is the start of its transaction, and commands
\* commit in another order than they start in: any stamp may follow any other.
CreateOverride(i, new) ==
    /\ row[i].state = "none"
    /\ new.state = "active"
    /\ new.scope \in DomainScopes(new.domain)
    /\ NamesEnrollment(new.scope) <=> new.of # NoEnrollment
    /\ row' = [row EXCEPT ![i] = new]

\* deactivate_override, once; an expired row may still be deactivated.
DeactivateOverride(i) ==
    /\ row[i].state \in {"active", "expired"}
    /\ row' = [row EXCEPT ![i].state = "inactive"]

\* Time passes the row's expires_at, when it has one.
ExpireOverride(i) ==
    /\ row[i].state = "active"
    /\ row' = [row EXCEPT ![i].state = "expired"]

OverridesNext ==
    \E i \in Rows :
        \/ \E new \in OverrideRows : CreateOverride(i, new)
        \/ DeactivateOverride(i)
        \/ ExpireOverride(i)

OverridesSpec == OverridesInit /\ [][OverridesNext]_overrideVars

-----------------------------------------------------------------------------
\* A gate judges an enrollment before it has an application or with one.
GateSubjects == [of : Enrollments, applied : BOOLEAN]

\* _matching_specificity: every target the row names is the subject's.
Matching(rows, i, domain, subject) ==
    /\ rows[i].state = "active"
    /\ rows[i].domain = domain
    /\ NamesEnrollment(rows[i].scope) => rows[i].of = subject.of
    /\ rows[i].scope = "application" => subject.applied

\* Mutant: of rows that are equally specific the latest one wins.
PrecedesByAge(a, i, b, j) ==
    \/ Rank[a.scope] < Rank[b.scope]
    \/ a.scope = b.scope /\ (a.at < b.at \/ (a.at = b.at /\ i < j))

\* The key _select_applicable takes the maximum of.
Precedes(a, i, b, j) ==
    \/ Rank[a.scope] < Rank[b.scope]
    \/ /\ a.scope = b.scope
       /\ \/ a.allow /\ ~b.allow
          \/ a.allow = b.allow /\ (a.at < b.at \/ (a.at = b.at /\ i < j))

\* The rows in force for a subject: one, or none.
InForce(rows, domain, subject) ==
    {i \in Rows :
        /\ Matching(rows, i, domain, subject)
        /\ ~\E j \in Rows :
              /\ Matching(rows, j, domain, subject)
              /\ Precedes(rows[i], i, rows[j], j)}

-----------------------------------------------------------------------------
\* A block in force goes on until it is deactivated, it expires, or staff grant
\* something more specific: no other grant of the same breadth lifts it, in
\* whatever order they were stamped (INT-2).
BlocksHold ==
    [][\A domain \in RuleDomains, subject \in GateSubjects :
          \A i \in InForce(row, domain, subject) :
              ~row[i].allow /\ row'[i] = row[i] =>
                  \A j \in InForce(row', domain, subject) :
                      ~row'[j].allow \/ Rank[row'[j].scope] > Rank[row[i].scope]]_overrideVars
=============================================================================
