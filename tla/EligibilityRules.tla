-------------------------- MODULE EligibilityRules --------------------------
(***************************************************************************)
(* Eligibility rules (ELG-1, ELG-2): three-valued evaluation of a rule     *)
(* tree over a profile, and one application that is re-checked when its    *)
(* student's profile or its job's rule is edited (ELG-4), but not when the *)
(* academic session, a placement or an override changes what a rule sees.  *)
(***************************************************************************)
EXTENDS Naturals, FiniteSets

CONSTANTS
    Rules,         \* rule trees
    Profiles,      \* field -> the values it may take, 0 where it is blank
    Outcome,       \* "placement" or "internship": what the job recruits for
    MaxSession     \* bound on the academic sessions

VARIABLES
    profile,      \* [program, primary, secondary, year, declaredIn, cpi]
    rule,         \* the job's rule
    version,      \* "legacy" or "current": the semantics the rule was saved under
    startYear,    \* settings.academic_session_start_year
    placed,       \* placement_placed_global
    grant,        \* the eligibility override in force: "none", "allow" or "block"
    application   \* "none", "in_progress" or "rejected"

ruleVars == <<profile, rule, version, startYear, placed, grant, application>>

-----------------------------------------------------------------------------
\* pathways.py.  Programs by their structure.
Single == 1
DualMajor == 2
DualDegree == 3
PrimaryDisciplineYear == 3
SecondDisciplineYear == 4

\* A year counts only when it was declared for the session that is configured.
StudyYear(p) == IF p.declaredIn = startYear THEN p.year ELSE 0

Held(branches) == branches \ {0}

\* eligible_disciplines; {} where they cannot be known, or there are none yet.
EligibleDisciplines(p) ==
    CASE p.program = DualDegree -> Held({p.secondary})
      [] p.program = DualMajor ->
            IF p.primary = 0 THEN {}
            ELSE IF Outcome = "placement" THEN Held({p.primary, p.secondary})
            ELSE IF StudyYear(p) < PrimaryDisciplineYear THEN {}
            ELSE IF StudyYear(p) < SecondDisciplineYear THEN {p.primary}
            ELSE Held({p.primary, p.secondary})
      [] p.program = Single -> Held({p.primary})
      [] OTHER -> {}

\* normalize_actual: the CPI in hundredths, rounded half up to a tenth.
RoundedCpi(p) == 10 * ((p.cpi + 5) \div 10)

\* derived_rule_facts and actual_key: the values a field holds, {} for unknown.
Facts(p, field, v) ==
    CASE field = "discipline_id"  -> EligibleDisciplines(p)
      [] field = "study_year"     -> IF v = "legacy" THEN Held({p.year})
                                     ELSE Held({StudyYear(p)})
      [] field = "cpi"            -> Held({RoundedCpi(p)})
      [] field = "is_dual_degree" -> {IF p.program = DualDegree THEN 1 ELSE 0}

-----------------------------------------------------------------------------
\* _compare and _compare_set: a value is a set for the list operators (eq and ne
\* are lists of one) and the bounds of an interval for the ordered ones.
Passes(facts, op, value) ==
    CASE op = "in"      -> facts \cap value # {}
      [] op = "not_in"  -> facts \cap value = {}
      [] op = "between" -> \A f \in facts : value[1] <= f /\ f <= value[2]

\* Mutant: a fact that is missing fails its leaf under both semantics.
MissingFails(v) == "false"

\* A fact that is missing: the first semantics failed the leaf.
Missing(v) == IF v = "legacy" THEN "false" ELSE "unknown"

\* _evaluate_field
Leaf(node, p, v) ==
    LET facts == Facts(p, node.field, v)
    IN  IF facts = {} THEN Missing(v)
        ELSE IF Passes(facts, node.op, node.value) THEN "true" ELSE "false"

Negation == [true |-> "false", false |-> "true", unknown |-> "unknown"]

\* _evaluate_node
RECURSIVE Truth(_, _, _)
Truth(node, p, v) ==
    CASE node.node = "field" -> Leaf(node, p, v)
      [] node.node = "not_placement_placed" -> IF placed THEN "false" ELSE "true"
      [] node.node = "not" -> Negation[Truth(node.of[1], p, v)]
      [] OTHER ->
            LET truths == {Truth(node.of[k], p, v) : k \in DOMAIN node.of}
                decides == IF node.node = "all" THEN "false" ELSE "true"
            IN  IF decides \in truths THEN decides
                ELSE IF "unknown" \in truths THEN "unknown"
                ELSE IF node.node = "all" THEN "true" ELSE "false"

\* apply_eligibility_override: a block decides, an allow excuses a failed rule.
Qualifies(truth) == grant # "block" /\ (truth = "true" \/ grant = "allow")

-----------------------------------------------------------------------------
Blank == [program |-> 0, primary |-> 0, secondary |-> 0, year |-> 0,
          declaredIn |-> 0, cpi |-> 0]

\* A rule saved before the present semantics keeps those it was saved under.
RulesInit ==
    /\ profile = Blank
    /\ rule \in Rules
    /\ version \in {"legacy", "current"}
    /\ startYear = 1
    /\ placed = FALSE
    /\ grant = "none"
    /\ application = "none"

\* apply: the job's own rule; the standing gates are in the other modules.
ApplyToJob ==
    /\ application = "none"
    /\ Qualifies(Truth(rule, profile, version))
    /\ application' = "in_progress"
    /\ UNCHANGED <<profile, rule, version, startYear, placed, grant>>

\* revocations and removal_plan, on the proposed state; an application that was
\* rejected stays so.
Requalified(truth) ==
    IF application = "in_progress" /\ ~Qualifies(truth) THEN "rejected" ELSE application

\* Any edit of the profile; a year is stamped with the session it is declared for.
EditProfile(field, value) ==
    LET edited == [profile EXCEPT ![field] = value,
                                  !.declaredIn = IF field = "year" THEN startYear ELSE @]
    IN  /\ edited # profile
        /\ profile' = edited
        /\ application' = Requalified(Truth(rule, edited, version))
        /\ UNCHANGED <<rule, version, startYear, placed, grant>>

\* update_job_eligibility: the new tree is saved under the present semantics.
UpdateJobEligibility(new) ==
    /\ rule' = new /\ version' = "current"
    /\ application' = Requalified(Truth(new, profile, "current"))
    /\ UNCHANGED <<profile, startYear, placed, grant>>

\* Nothing is re-checked when the facts change under the rule.
ChangeFacts ==
    /\ \/ startYear < MaxSession /\ startYear' = startYear + 1 /\ UNCHANGED <<placed, grant>>
       \/ placed' = ~placed /\ UNCHANGED <<startYear, grant>>
       \/ grant' \in {"none", "allow", "block"} \ {grant} /\ UNCHANGED <<startYear, placed>>
    /\ UNCHANGED <<profile, rule, version, application>>

RulesNext ==
    \/ ApplyToJob
    \/ \E field \in DOMAIN Profiles : \E value \in Profiles[field] : EditProfile(field, value)
    \/ \E new \in Rules : UpdateJobEligibility(new)
    \/ ChangeFacts

-----------------------------------------------------------------------------
\* What a profile has not said yet, a year of another session included.
Unsaid(field) == profile[field] = 0 \/ (field = "year" /\ profile.declaredIn # startYear)

Mentions(node, field) ==
    CASE node.node = "field" -> node.field = field
      [] node.node = "not_placement_placed" -> FALSE
      [] OTHER -> \E k \in DOMAIN node.of :
                      node.of[k].node = "field" /\ node.of[k].field = field

\* A profile that says more of itself never turns a rule's yes or no round, so
\* filling in a blank costs nobody an application the rule admitted (ELG-2).
\* Two facts are exceptions in the code: the second discipline of a dual major
\* joins a set that is compared before it is complete, and is_dual_degree is
\* false, not unknown, of a student with no programme.
KnownVerdictsStand ==
    [][\A field \in DOMAIN Profiles :
          /\ version = "current" /\ UNCHANGED <<rule, startYear, placed>>
          /\ Unsaid(field) /\ profile' # profile
          /\ \A other \in DOMAIN Profiles \ {field} : profile'[other] = profile[other]
          /\ ~(field = "secondary" /\ profile.program = DualMajor)
          /\ ~(field = "program" /\ Mentions(rule, "is_dual_degree"))
          /\ Truth(rule, profile, version) # "unknown"
          => Truth(rule, profile, version)' = Truth(rule, profile, version)]_ruleVars
=============================================================================
