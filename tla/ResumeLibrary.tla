--------------------------- MODULE ResumeLibrary ---------------------------
(***************************************************************************)
(* The resume library of one enrollment (PRO-3): rows in the order they    *)
(* were added, a default marker under a partial unique index, the cycle    *)
(* default a membership points at, and the link an application copies.     *)
(* Every command holds the enrollment's row lock, so commands are atomic;  *)
(* their statements still run one after the other against the index.       *)
(***************************************************************************)
EXTENDS Naturals, FiniteSets

CONSTANTS
    Resumes,    \* 1 .. N, in the order the rows are added
    Links,      \* Drive links that pass the shape check
    NoLink      \* no link, no row

ASSUME ResumesAssumption == Resumes \subseteq Nat /\ NoLink \notin Links

VARIABLES
    link,          \* resume -> its link, NoLink before it is added and once deleted
    spent,         \* resumes whose id has been used
    marked,        \* resumes whose is_default is set
    cycleDefault,  \* {} or the one resume the membership names
    filed,         \* the link the application carries, or NoLink
    halted         \* a plan was stopped half way by uq_resumes_default_enrollment_id

libraryVars == <<link, spent, marked, cycleDefault, filed, halted>>

Library == {r \in Resumes : link[r] # NoLink}

LibraryInit ==
    /\ link = [r \in Resumes |-> NoLink]
    /\ spent = {}
    /\ marked = {}
    /\ cycleDefault = {}
    /\ filed = NoLink
    /\ halted = FALSE

\* The markers after each statement of a plan, the last being the outcome.
Mark(steps, last) ==
    LET broken == \E markers \in steps \cup {last} : Cardinality(markers) > 1
    IN  /\ halted' = (halted \/ broken)
        /\ marked' = IF broken THEN marked ELSE last

-----------------------------------------------------------------------------
\* add_resume: the first entry is the default whatever the student ticked.
AddResume(r, url, wanted) ==
    LET default == wanted \/ Library = {}
    IN  /\ r \notin spent /\ \A s \in Resumes \ spent : r <= s
        /\ spent' = spent \cup {r}
        /\ link' = [link EXCEPT ![r] = url]
        /\ IF default THEN Mark({{}}, {r}) ELSE Mark({}, marked)
        /\ UNCHANGED <<cycleDefault, filed>>

\* update_resume changes the link of the row and of nothing that copied it.
UpdateResume(r, url) ==
    /\ r \in Library
    /\ link' = [link EXCEPT ![r] = url]
    /\ UNCHANGED <<spent, marked, cycleDefault, filed, halted>>

\* set_default_resume clears the old marker before it sets the new one.
SetDefaultResume(r) ==
    /\ r \in Library \ marked
    /\ Mark({{}}, {r})
    /\ UNCHANGED <<link, spent, cycleDefault, filed>>

\* Mutant: the oldest is promoted, before the row that goes is deleted.
PromotedEarly(r) ==
    LET rest == Library \ {r}
    IN  IF r \in marked THEN {CHOOSE s \in rest : \A t \in rest : s <= t} \cup marked
        ELSE marked

\* The markers once r is deleted: a default that goes promotes the newest.
Promoted(r) ==
    LET rest == Library \ {r}
    IN  IF r \in marked THEN {CHOOSE s \in rest : \A t \in rest : s >= t} ELSE marked

\* delete_resume refuses the last one; the membership's pointer is SET NULL.
DeleteResume(r) ==
    /\ r \in Library /\ Library # {r}
    /\ link' = [link EXCEPT ![r] = NoLink]
    /\ cycleDefault' = cycleDefault \ {r}
    /\ Mark({marked \ {r}}, Promoted(r))
    /\ UNCHANGED <<spent, filed>>

-----------------------------------------------------------------------------
\* join_cycle and rerequest_membership name a resume of the library.
NameCycleDefault(r) ==
    /\ r \in Library
    /\ cycleDefault' = {r}
    /\ UNCHANGED <<link, spent, marked, filed, halted>>

\* resolve_resume: a pasted link, a resume of one's own, else the cycle default.
Resolved(pasted, chosen) ==
    IF pasted # NoLink THEN pasted
    ELSE IF chosen # {} THEN link[CHOOSE r \in chosen : TRUE]
    ELSE IF cycleDefault # {} THEN link[CHOOSE r \in cycleDefault : TRUE]
    ELSE NoLink

\* apply copies the link that was resolved.
FileApplication(pasted, chosen) ==
    /\ filed = NoLink
    /\ Resolved(pasted, chosen) # NoLink
    /\ filed' = Resolved(pasted, chosen)
    /\ UNCHANGED <<link, spent, marked, cycleDefault, halted>>

\* edit_application keeps the link the application carries only when nothing
\* was named and nothing was resolved.
EditApplication(pasted, chosen) ==
    /\ filed # NoLink
    /\ chosen \subseteq Library
    /\ filed' = IF Resolved(pasted, chosen) = NoLink THEN filed ELSE Resolved(pasted, chosen)
    /\ UNCHANGED <<link, spent, marked, cycleDefault, halted>>

LibraryNext ==
    \/ \E r \in Resumes, url \in Links :
          \/ \E wanted \in BOOLEAN : AddResume(r, url, wanted)
          \/ UpdateResume(r, url)
    \/ \E r \in Resumes :
          SetDefaultResume(r) \/ DeleteResume(r) \/ NameCycleDefault(r)
    \/ \E pasted \in Links \cup {NoLink}, chosen \in {{}} \cup {{r} : r \in Resumes} :
          FileApplication(pasted, chosen) \/ EditApplication(pasted, chosen)

LibrarySpec == LibraryInit /\ [][LibraryNext]_libraryVars

-----------------------------------------------------------------------------
\* Through every sequence of additions, moves and deletions a library that is
\* not empty has exactly one default, and the index, checked after every
\* statement, never stops a plan on its way there (PRO-3).
OneDefaultResume ==
    /\ ~halted
    /\ Library # {} => \E r \in Library : marked = {r}

\* "An edit that names no resume keeps the one the application was filed with;
\* only apply falls back to the cycle default" (the comment in the loader).
FiledResumeStands == [][EditApplication(NoLink, {}) => filed' = filed]_libraryVars
=============================================================================
