---------------------------- MODULE MCStaffDesks ----------------------------
(***************************************************************************)
(* The desks that do not meet: a behaviour is that of one of them while    *)
(* the others stand still, so one run explores the union of their states.  *)
(***************************************************************************)
EXTENDS Companies, Accounts, SignInStates, ResumeLibrary, Findings, Overrides,
        JobForms, EligibilityRules, Taxonomies, RoundSlots

CONSTANT Desks

Field(field, op, value) == [node |-> "field", field |-> field, op |-> op, value |-> value]
Tree(node, of) == [node |-> node, of |-> of]

\* A floor, a discipline asked for and one shut out, a choice, and a negation
\* under a conjunction: each connective over each kind of fact.
MCRules ==
    LET floor == Field("cpi", "between", <<700, 1000>>)
        asked == Field("discipline_id", "in", {1})
        other == Field("discipline_id", "not_in", {2})
        senior == Field("study_year", "between", <<4, 8>>)
        dual == Field("is_dual_degree", "in", {1})
    IN  {Tree("all", <<floor, other>>),
         Tree("any", <<asked, senior, dual>>),
         Tree("all", <<[node |-> "not_placement_placed"],
                       Tree("not", <<Tree("any", <<senior, floor>>)>>)>>)}

\* 6.94 rounds to 6.9 and 6.95 to 7.0.
MCProfiles == [program |-> 0 .. 3, primary |-> 0 .. 2, secondary |-> 0 .. 2,
               year |-> {0, 2, 4}, cpi |-> {0, 694, 695}]

VARIABLE desk

deskVars == <<desk, companyVars, accountVars, signInVars, libraryVars, findingVars,
              overrideVars, formVars, ruleVars, taxonomyVars, slotVars>>

Init ==
    /\ desk \in Desks
    /\ CompaniesInit /\ AccountsInit /\ SignInInit /\ LibraryInit
    /\ FindingsInit /\ OverridesInit /\ FormInit /\ RulesInit /\ TaxonomiesInit /\ SlotsInit
    /\ desk # "rules" => version = "current" /\ rule = CHOOSE r \in Rules : TRUE
    /\ desk # "slots" => default = NoSlot

At(name, step) == desk = name /\ step /\ UNCHANGED desk

Next ==
    \/ /\ At("companies", CompaniesNext)
       /\ UNCHANGED <<accountVars, signInVars, libraryVars, findingVars,
                      overrideVars, formVars, ruleVars, taxonomyVars, slotVars>>
    \/ /\ At("accounts", AccountsNext)
       /\ UNCHANGED <<companyVars, signInVars, libraryVars, findingVars,
                      overrideVars, formVars, ruleVars, taxonomyVars, slotVars>>
    \/ /\ At("sign_in", SignInNext)
       /\ UNCHANGED <<companyVars, accountVars, libraryVars, findingVars,
                      overrideVars, formVars, ruleVars, taxonomyVars, slotVars>>
    \/ /\ At("resumes", LibraryNext)
       /\ UNCHANGED <<companyVars, accountVars, signInVars, findingVars,
                      overrideVars, formVars, ruleVars, taxonomyVars, slotVars>>
    \/ /\ At("findings", FindingsNext)
       /\ UNCHANGED <<companyVars, accountVars, signInVars, libraryVars,
                      overrideVars, formVars, ruleVars, taxonomyVars, slotVars>>
    \/ /\ At("overrides", OverridesNext)
       /\ UNCHANGED <<companyVars, accountVars, signInVars, libraryVars,
                      findingVars, formVars, ruleVars, taxonomyVars, slotVars>>
    \/ /\ At("forms", FormNext)
       /\ UNCHANGED <<companyVars, accountVars, signInVars, libraryVars,
                      findingVars, overrideVars, ruleVars, taxonomyVars, slotVars>>
    \/ /\ At("rules", RulesNext)
       /\ UNCHANGED <<companyVars, accountVars, signInVars, libraryVars,
                      findingVars, overrideVars, formVars, taxonomyVars, slotVars>>
    \/ /\ At("taxonomies", TaxonomiesNext)
       /\ UNCHANGED <<companyVars, accountVars, signInVars, libraryVars,
                      findingVars, overrideVars, formVars, ruleVars, slotVars>>
    \/ /\ At("slots", SlotsNext)
       /\ UNCHANGED <<companyVars, accountVars, signInVars, libraryVars,
                      findingVars, overrideVars, formVars, ruleVars, taxonomyVars>>

\* The worker starts the checker every night and a run that started ends.
NightlyRun ==
    /\ At("findings", RunStep(Nightly))
    /\ UNCHANGED <<companyVars, accountVars, signInVars, libraryVars,
                   overrideVars, formVars, ruleVars, taxonomyVars, slotVars>>

Spec == Init /\ [][Next]_deskVars /\ WF_deskVars(NightlyRun)
=============================================================================
