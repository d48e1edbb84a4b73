----------------------------- MODULE Companies -----------------------------
(***************************************************************************)
(* The company directory: names, contacts with one primary each, and the   *)
(* merge that moves a duplicate's history onto a survivor.  The history    *)
(* rows (jobs and external offers) are written by commands of other parts  *)
(* that look at the company first and insert later.                        *)
(***************************************************************************)
EXTENDS Naturals, FiniteSets

CONSTANTS
    CompanyIds, Names,    \* names are equal when they are equal case-insensitively
    ContactIds, Emails,
    History,              \* ids of jobs and external offers
    Nobody                \* no company

ASSUME CompaniesAssumption ==
    /\ Nobody \notin CompanyIds /\ Nobody \notin Names
    /\ Emails # {}

VARIABLES
    company,    \* id -> [name, active]; a name of Nobody is no row
    contact,    \* id -> [of, email, primary]; of = Nobody is no row
    history,    \* id -> the company the row names, or Nobody
    authoring,  \* id -> the company its author has looked at, or Nobody
    refused     \* commands whose plan a unique index refused

companyVars == <<company, contact, history, authoring, refused>>

CompanyRows == [name : Names \cup {Nobody}, active : BOOLEAN]
ContactRows == [of : CompanyIds \cup {Nobody}, email : Emails, primary : BOOLEAN]

Listed(c) == company[c].name # Nobody
ContactsOf(rows, c) == {p \in ContactIds : rows[p].of = c}

\* uq_company_contacts_company_id_email and the partial index on is_primary.
Indexed(rows) ==
    \A p, q \in ContactIds :
        p # q /\ rows[p].of = rows[q].of /\ rows[p].of # Nobody
            => /\ rows[p].email # rows[q].email
               /\ ~(rows[p].primary /\ rows[q].primary)

\* The statements of a plan run one by one and the indexes are not deferrable:
\* one state of the table that breaks them rolls the command back.
Apply(command, tables, last) ==
    IF \A rows \in tables \cup {last} : Indexed(rows)
    THEN contact' = last /\ refused' = refused
    ELSE contact' = contact /\ refused' = refused \cup {command}

CompaniesInit ==
    /\ company = [c \in CompanyIds |-> [name |-> Nobody, active |-> FALSE]]
    /\ contact = [p \in ContactIds |->
                    [of |-> Nobody, email |-> CHOOSE e \in Emails : TRUE, primary |-> FALSE]]
    /\ history = [h \in History |-> Nobody]
    /\ authoring = [h \in History |-> Nobody]
    /\ refused = {}

-----------------------------------------------------------------------------
NameTaken(n, c) == \E d \in CompanyIds \ {c} : company[d].name = n

\* create_company
CreateCompany(c, n) ==
    /\ ~Listed(c) /\ ~NameTaken(n, c)
    /\ company' = [company EXCEPT ![c] = [name |-> n, active |-> TRUE]]
    /\ UNCHANGED <<contact, history, authoring, refused>>

\* update_company: the active flag is not its to change.
RenameCompany(c, n) ==
    /\ Listed(c) /\ ~NameTaken(n, c)
    /\ company' = [company EXCEPT ![c].name = n]
    /\ UNCHANGED <<contact, history, authoring, refused>>

\* deactivate_company and reactivate_company
SetCompanyActive(c, active) ==
    /\ Listed(c)
    /\ company' = [company EXCEPT ![c].active = active]
    /\ UNCHANGED <<contact, history, authoring, refused>>

-----------------------------------------------------------------------------
\* _clear_primary_ops
Cleared(c, keep) ==
    [p \in ContactIds |->
        IF contact[p].of = c /\ p # keep THEN [contact[p] EXCEPT !.primary = FALSE]
                                         ELSE contact[p]]

EmailTaken(c, e, p) == \E q \in ContactsOf(contact, c) \ {p} : contact[q].email = e

\* contact_create: the first contact is primary whatever was asked for.
CreateContact(p, c, e, wanted) ==
    LET primary == wanted \/ ContactsOf(contact, c) = {}
        cleared == IF primary THEN Cleared(c, p) ELSE contact
    IN  /\ Listed(c)
        /\ contact[p].of = Nobody
        /\ ~EmailTaken(c, e, p)
        /\ Apply("contact_create", {cleared},
                 [cleared EXCEPT ![p] = [of |-> c, email |-> e, primary |-> primary]])
        /\ UNCHANGED <<company, history, authoring>>

\* contact_update: an email typed with blanks around it is stored without them
\* but looked up with them, so it finds nobody.
UpdateContact(p, e, padded, primary) ==
    LET c == contact[p].of
        cleared == IF primary /\ ~contact[p].primary THEN Cleared(c, p) ELSE contact
    IN  /\ c # Nobody
        /\ padded \/ ~EmailTaken(c, e, p)
        /\ Apply(IF padded THEN "padded_update" ELSE "contact_update", {cleared},
                 [cleared EXCEPT ![p] = [of |-> c, email |-> e, primary |-> primary]])
        /\ UNCHANGED <<company, history, authoring>>

\* contact_delete promotes nobody.
DeleteContact(p) ==
    /\ contact[p].of # Nobody
    /\ contact' = [contact EXCEPT ![p].of = Nobody, ![p].primary = FALSE]
    /\ UNCHANGED <<company, history, authoring, refused>>

-----------------------------------------------------------------------------
\* The duplicate's contacts the survivor already knows by their email.
Known(survivor, duplicate) ==
    {p \in ContactsOf(contact, duplicate) : EmailTaken(survivor, contact[p].email, p)}

HasPrimary(c) == \E p \in ContactsOf(contact, c) : contact[p].primary

\* Mutant: every contact that moves keeps its marker.
MovedAsTheyAre(survivor, duplicate, moved) ==
    [p \in ContactIds |->
        IF p \in Known(survivor, duplicate)
        THEN [contact[p] EXCEPT !.of = Nobody, !.primary = FALSE]
        ELSE IF p \in moved THEN [contact[p] EXCEPT !.of = survivor]
        ELSE contact[p]]

\* The table after the known contacts are deleted and some others repointed:
\* an incoming primary stays one only when the survivor has none.
Moved(survivor, duplicate, moved) ==
    [p \in ContactIds |->
        IF p \in Known(survivor, duplicate)
        THEN [contact[p] EXCEPT !.of = Nobody, !.primary = FALSE]
        ELSE IF p \in moved
        THEN [contact[p] EXCEPT !.of = survivor,
                                !.primary = @ /\ ~HasPrimary(survivor)]
        ELSE contact[p]]

\* merge_companies.  Only the survivor has to be active.
MergeCompanies(survivor, duplicate) ==
    LET repointed == ContactsOf(contact, duplicate) \ Known(survivor, duplicate)
        tables == {Moved(survivor, duplicate, some) : some \in SUBSET repointed}
    IN  /\ survivor # duplicate
        /\ Listed(survivor) /\ company[survivor].active
        /\ Listed(duplicate)
        /\ Apply("merge_companies", tables, Moved(survivor, duplicate, repointed))
        /\ IF refused' = refused
           THEN /\ history' = [h \in History |->
                                  IF history[h] = duplicate THEN survivor ELSE history[h]]
                /\ company' = [company EXCEPT ![duplicate].active = FALSE]
           ELSE UNCHANGED <<history, company>>
        /\ UNCHANGED authoring

-----------------------------------------------------------------------------
\* create_job and record_external_offer look at the company without locking it
LookUpCompany(h, c) ==
    /\ history[h] = Nobody /\ authoring[h] = Nobody
    /\ Listed(c) /\ company[c].active
    /\ authoring' = [authoring EXCEPT ![h] = c]
    /\ UNCHANGED <<company, contact, history, refused>>

\* and insert the row, whose foreign key only asks that the company exist.
InsertHistory(h) ==
    /\ authoring[h] # Nobody
    /\ history' = [history EXCEPT ![h] = authoring[h]]
    /\ authoring' = [authoring EXCEPT ![h] = Nobody]
    /\ UNCHANGED <<company, contact, refused>>

CompaniesNext ==
    \/ \E c \in CompanyIds, n \in Names : CreateCompany(c, n) \/ RenameCompany(c, n)
    \/ \E c \in CompanyIds, active \in BOOLEAN : SetCompanyActive(c, active)
    \/ \E p \in ContactIds, e \in Emails, primary \in BOOLEAN :
          \/ \E c \in CompanyIds : CreateContact(p, c, e, primary)
          \/ \E padded \in BOOLEAN : UpdateContact(p, e, padded, primary)
    \/ \E p \in ContactIds : DeleteContact(p)
    \/ \E survivor, duplicate \in CompanyIds : MergeCompanies(survivor, duplicate)
    \/ \E h \in History : InsertHistory(h) \/ \E c \in CompanyIds : LookUpCompany(h, c)

CompaniesSpec == CompaniesInit /\ [][CompaniesNext]_companyVars

-----------------------------------------------------------------------------
\* No command but an update with a padded email decides on a plan that an index
\* stops half way: the primary marker moves, and contacts change companies, in
\* an order that never shows two primaries or one email twice (CMP).
DirectoryPlansApply == refused \subseteq {"padded_update"}
=============================================================================
