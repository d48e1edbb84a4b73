----------------------------- MODULE Taxonomies -----------------------------
(***************************************************************************)
(* The vocabulary of programmes and disciplines (TAX): programmes single   *)
(* or built from two degrees, the disciplines each offers, and a student's *)
(* profile that names them.  A plan checks rows it does not lock, and the  *)
(* foreign keys, all of them RESTRICT, have the last word.                 *)
(***************************************************************************)
EXTENDS Naturals, FiniteSets

CONSTANTS
    Programs, Branches,
    None            \* no item; also "leave it alone" in an edit

ASSUME TaxonomiesAssumption == IsFiniteSet(Programs) /\ IsFiniteSet(Branches)

VARIABLES
    program,    \* id -> [listed, active, first, second]; single: first = None
    branch,     \* id -> [listed, active]
    offered,    \* program_branches
    study,      \* the profile: [program, primary, secondary]
    pending,    \* the command that has decided and not yet written, or None
    stopped     \* commands that a foreign key has stopped

taxonomyVars == <<program, branch, offered, study, pending, stopped>>

Studies == [program : Programs \cup {None}, primary : Branches \cup {None},
            secondary : Branches \cup {None}]

\* A structure: no component degrees for a single programme, two for a dual one.
SingleShape == <<None, None>>
Shapes == {SingleShape} \cup (Programs \X Programs)
Combined(p) == program[p].first # None

ProgramsThere == {p \in Programs : program[p].listed}
BranchesThere == {b \in Branches : branch[b].listed}
Usable(b) == branch[b].listed /\ branch[b].active

TaxonomiesInit ==
    /\ program = [p \in Programs |-> [listed |-> FALSE, active |-> FALSE,
                                      first |-> None, second |-> None]]
    /\ branch = [b \in Branches |-> [listed |-> FALSE, active |-> FALSE]]
    /\ offered = {}
    /\ study = [program |-> None, primary |-> None, secondary |-> None]
    /\ pending = None
    /\ stopped = {}

-----------------------------------------------------------------------------
\* upsert_taxonomy_item of a programme locks its row and those of the branches
\* it names, but only reads the component degrees.
Holds(p) == pending # None /\ pending.kind = "program" /\ pending.id = p
HoldsBranch(b) ==
    /\ pending # None /\ pending.kind = "program"
    /\ pending.branches # None /\ b \in pending.branches

BeginProgram(p, active, shape, branches) ==
    /\ pending = None
    /\ branches # None => \A b \in branches : Usable(b)
    /\ shape \notin {None, SingleShape} =>
          \A i \in {1, 2} : /\ shape[i] # p
                            /\ program[shape[i]].listed
                            /\ ~Combined(shape[i])
    /\ pending' = [kind |-> "program", id |-> p, active |-> active,
                   shape |-> shape, branches |-> branches]
    /\ UNCHANGED <<program, branch, offered, study, stopped>>

\* A structure left out stays as it is, and is single in a new programme.
ShapeAfter(p, shape) ==
    IF shape # None THEN shape
    ELSE IF program[p].listed THEN <<program[p].first, program[p].second>>
    ELSE SingleShape

CommitProgram ==
    /\ pending # None /\ pending.kind = "program"
    /\ LET p == pending.id
           shape == ShapeAfter(p, pending.shape)
       IN  IF {shape[1], shape[2]} \subseteq ProgramsThere \cup {None}
           THEN /\ program' = [program EXCEPT ![p] =
                                  [listed |-> TRUE, active |-> pending.active,
                                   first |-> shape[1], second |-> shape[2]]]
                /\ offered' = IF pending.branches = None THEN offered
                              ELSE {row \in offered : row[1] # p}
                                      \cup ({p} \X pending.branches)
                /\ UNCHANGED stopped
           ELSE stopped' = stopped \cup {"program"} /\ UNCHANGED <<program, offered>>
    /\ pending' = None
    /\ UNCHANGED <<branch, study>>

UpsertBranch(b, active) ==
    /\ ~HoldsBranch(b)
    /\ branch' = [branch EXCEPT ![b] = [listed |-> TRUE, active |-> active]]
    /\ UNCHANGED <<program, offered, study, pending, stopped>>

-----------------------------------------------------------------------------
\* Mutant: a programme that others are built from counts as unused.
ReferencesFromRecords(p) ==
    Cardinality({x \in {study} : x.program = p}) + Cardinality({row \in offered : row[1] = p})

\* _REFERENCE_QUERIES, counted once the item's row is locked.
References(p) ==
    Cardinality({x \in {study} : x.program = p}) + Cardinality({row \in offered : row[1] = p})
        + Cardinality({q \in ProgramsThere : p \in {program[q].first, program[q].second}})

BranchReferences(b) ==
    Cardinality({x \in {study} : b \in {x.primary, x.secondary}})
        + Cardinality({row \in offered : row[2] = b})

\* The foreign keys of the schema over the tables as a delete would leave them.
KeysHold(programs, branches) ==
    /\ study.program \in programs \cup {None}
    /\ {study.primary, study.secondary} \subseteq branches \cup {None}
    /\ offered \subseteq programs \X branches
    /\ \A p \in programs : {program[p].first, program[p].second} \subseteq programs \cup {None}

\* A delete of what is in use deactivates it.
DeleteProgram(p) ==
    /\ program[p].listed
    /\ ~Holds(p)
    /\ IF References(p) > 0
       THEN program' = [program EXCEPT ![p].active = FALSE] /\ UNCHANGED stopped
       ELSE IF KeysHold(ProgramsThere \ {p}, BranchesThere)
       THEN /\ program' = [program EXCEPT ![p] = [listed |-> FALSE, active |-> FALSE,
                                                  first |-> None, second |-> None]]
            /\ UNCHANGED stopped
       ELSE stopped' = stopped \cup {"delete"} /\ UNCHANGED program
    /\ UNCHANGED <<branch, offered, study, pending>>

DeleteBranch(b) ==
    /\ branch[b].listed
    /\ ~HoldsBranch(b)
    /\ IF BranchReferences(b) > 0
       THEN branch' = [branch EXCEPT ![b].active = FALSE] /\ UNCHANGED stopped
       ELSE IF KeysHold(ProgramsThere, BranchesThere \ {b})
       THEN /\ branch' = [branch EXCEPT ![b] = [listed |-> FALSE, active |-> FALSE]]
            /\ UNCHANGED stopped
       ELSE stopped' = stopped \cup {"delete"} /\ UNCHANGED branch
    /\ UNCHANGED <<program, offered, study, pending>>

-----------------------------------------------------------------------------
\* taxonomy_reasons: what an edit names anew exists and is active.
Kept(now, before) == now \in {before, None}

EditNames(e) ==
    /\ ~Kept(e.program, study.program) =>
          program[e.program].listed /\ program[e.program].active
    /\ ~Kept(e.primary, study.primary) => Usable(e.primary)
    /\ ~Kept(e.secondary, study.secondary) => Usable(e.secondary)

\* program_branch_reasons: each discipline is one its degree offers.
DisciplinesFit(e) ==
    LET first == IF Combined(e.program) THEN program[e.program].first ELSE e.program
    IN  e.program # None =>
          /\ e.primary # None => <<first, e.primary>> \in offered
          /\ e.secondary # None =>
                /\ Combined(e.program)
                /\ <<program[e.program].second, e.secondary>> \in offered

\* declare_profile, update_own_profile and update_profile_as_admin read the
\* vocabulary without a lock
BeginEdit(e) ==
    /\ pending = None
    /\ e # study
    /\ EditNames(e)
    /\ DisciplinesFit(e)
    /\ pending' = [kind |-> "edit", study |-> e]
    /\ UNCHANGED <<program, branch, offered, study, stopped>>

\* and write a row whose foreign keys are checked then.
CommitEdit ==
    /\ pending # None /\ pending.kind = "edit"
    /\ LET e == pending.study
       IN  IF /\ e.program \in ProgramsThere \cup {None}
              /\ {e.primary, e.secondary} \subseteq BranchesThere \cup {None}
           THEN study' = e /\ UNCHANGED stopped
           ELSE stopped' = stopped \cup {"edit"} /\ UNCHANGED study
    /\ pending' = None
    /\ UNCHANGED <<program, branch, offered>>

TaxonomiesNext ==
    \/ \E p \in Programs, active \in BOOLEAN, shape \in Shapes \cup {None},
          branches \in (SUBSET Branches) \cup {None} :
             BeginProgram(p, active, shape, branches)
    \/ CommitProgram
    \/ \E b \in Branches, active \in BOOLEAN : UpsertBranch(b, active)
    \/ \E p \in Programs : DeleteProgram(p)
    \/ \E b \in Branches : DeleteBranch(b)
    \/ \E e \in Studies : BeginEdit(e)
    \/ CommitEdit

TaxonomiesSpec == TaxonomiesInit /\ [][TaxonomiesNext]_taxonomyVars

-----------------------------------------------------------------------------
\* A delete never runs into a foreign key: what refers to the item is counted
\* under the lock that keeps new references out.  Only a command that names an
\* item it has merely read can be stopped by another one's delete (TAX).
DeletesApply == "delete" \notin stopped

\* "A component degree must itself be a plain degree: a programme built out of
\* a combined one would describe a shape nothing can evaluate" (TAX, the loader
\* of upsert_taxonomy_item): a degree some programme is built from is single.
ComponentsArePlain ==
    \A p \in ProgramsThere : Combined(p) =>
        ~Combined(program[p].first) /\ ~Combined(program[p].second)
=============================================================================
