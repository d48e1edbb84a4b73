-------------------------- MODULE StaffDeskProofs --------------------------
(***************************************************************************)
(* Seven desks whose invariants hold for any number of users, sessions,    *)
(* sign-ins, resumes, programmes, disciplines, venues, times, companies,   *)
(* contacts and override rows.                                             *)
(***************************************************************************)
EXTENDS Accounts, ResumeLibrary, SignInStates, Taxonomies, RoundSlots,
        Companies, Overrides, FiniteSetTheorems, TLAPS

(***************************************************************************)
(* Accounts.  A removal that is not refused leaves another administrator:  *)
(* the count is taken under the row locks of all of them.                  *)
(***************************************************************************)
AccountsInv ==
    /\ role \in [Users -> {"student", "admin"}]
    /\ enabled \in [Users -> BOOLEAN]
    /\ AnAdministratorRemains

\* An administrator whose removal is not refused is not the only one.
LEMMA NotTheLastOne ==
    ASSUME NEW r, r.target \in ActiveAdmins, ~AdminRemovalBlocked(r)
    PROVE  ActiveAdmins \ {r.target} # {}
<1>1. CASE ActiveAdmins = {r.target}
  <2>1. Cardinality(ActiveAdmins) = 1
    BY <1>1, FS_Singleton
  <2> QED BY <2>1 DEF AdminRemovalBlocked
<1>2. CASE ActiveAdmins # {r.target}
  BY <1>2
<1> QED BY <1>1, <1>2

LEMMA AccountsStep == AccountsInv /\ [AccountsNext]_accountVars => AccountsInv'
<1> SUFFICES ASSUME AccountsInv, [AccountsNext]_accountVars
             PROVE  AccountsInv'
  OBVIOUS
<1> USE DEF AccountsInv, AnAdministratorRemains
<1>1. ASSUME NEW r \in requests, SetUserRole(r)
      PROVE  AccountsInv'
  <2>1. role' \in [Users -> {"student", "admin"}] /\ enabled' = enabled
    BY <1>1 DEF SetUserRole
  <2>2. CASE role' = role
    BY <2>1, <2>2 DEF ActiveAdmins
  <2>3. CASE role' = [role EXCEPT ![r.target] = "admin"]
    BY <2>1, <2>3 DEF ActiveAdmins
  <2>4. CASE /\ role' = [role EXCEPT ![r.target] = "student"]
             /\ role[r.target] = "student" \/ r.target \notin ActiveAdmins
    BY <2>1, <2>4 DEF ActiveAdmins
  <2>5. CASE /\ role' = [role EXCEPT ![r.target] = "student"]
             /\ r.target \in ActiveAdmins
             /\ ~AdminRemovalBlocked(r)
    <3>1. PICK u \in ActiveAdmins : u # r.target
      BY <2>5, NotTheLastOne
    <3>2. u \in ActiveAdmins'
      BY <2>1, <2>5, <3>1 DEF ActiveAdmins
    <3> QED BY <2>1, <3>2
  <2> QED BY <1>1, <2>2, <2>3, <2>4, <2>5 DEF SetUserRole
<1>2. ASSUME NEW r \in requests, DeactivateUser(r)
      PROVE  AccountsInv'
  <2>1. role' = role /\ enabled' \in [Users -> BOOLEAN]
    BY <1>2 DEF DeactivateUser
  <2>2. CASE enabled' = enabled
    BY <2>1, <2>2 DEF ActiveAdmins
  <2>3. CASE /\ enabled' = [enabled EXCEPT ![r.target] = FALSE]
             /\ r.target \notin ActiveAdmins
    BY <2>1, <2>3 DEF ActiveAdmins
  <2>4. CASE /\ enabled' = [enabled EXCEPT ![r.target] = FALSE]
             /\ r.target \in ActiveAdmins
             /\ ~AdminRemovalBlocked(r)
    <3>1. PICK u \in ActiveAdmins : u # r.target
      BY <2>4, NotTheLastOne
    <3>2. u \in ActiveAdmins'
      BY <2>1, <2>4, <3>1 DEF ActiveAdmins
    <3> QED BY <2>1, <3>2
  <2> QED BY <1>2, <2>2, <2>3, <2>4 DEF DeactivateUser
<1>3. CASE UNCHANGED <<role, enabled>>
  BY <1>3 DEF ActiveAdmins
<1> QED
  BY <1>1, <1>2, <1>3 DEF AccountsNext, accountVars, ReadLogin, Login, Arrive,
     AssignCoordinator, RemoveCoordinator, Logout

\* IDN-3: whatever administrators do to each other at once, for any number of
\* them, an active administrator is left.
THEOREM AnAdministratorRemainsHolds == AccountsSpec => []AnAdministratorRemains
<1>1. AccountsInit => AccountsInv
  BY AccountsAssumption DEF AccountsInit, AccountsInv, AnAdministratorRemains, ActiveAdmins
<1>2. AccountsInv => AnAdministratorRemains
  BY DEF AccountsInv
<1> QED BY <1>1, <1>2, AccountsStep, PTL DEF AccountsSpec

(***************************************************************************)
(* Sign-in states.  A nonce is issued once and its key leaves the table    *)
(* with the one callback that finds it issued.                             *)
(***************************************************************************)
StatesInv ==
    /\ key \in [States -> {"none", "issued", "expired", "deleted"}]
    /\ signedIn \in [States -> {0, 1}]
    /\ \A s \in States : key[s] # "deleted" => signedIn[s] = 0
    /\ \A r \in starting : r.state \in States /\ key[r.state] = "none"
    /\ \A r, q \in starting : r # q => r.state # q.state

LEMMA StatesStep == StatesInv /\ [SignInNext]_signInVars => StatesInv'
<1> SUFFICES ASSUME StatesInv, [SignInNext]_signInVars
             PROVE  StatesInv'
  OBVIOUS
<1> USE DEF StatesInv
<1>1. ASSUME NEW s \in States, StartSignIn(s)
      PROVE  StatesInv'
  BY <1>1 DEF StartSignIn
<1>2. ASSUME NEW s \in States, Expire(s)
      PROVE  StatesInv'
  BY <1>2 DEF Expire
<1>3. ASSUME NEW s \in States, FinishCallback(s)
      PROVE  StatesInv'
  <2>1. starting' = starting
    BY <1>3 DEF FinishCallback
  <2>2. CASE Stored(s)
    <3>1. key' = [key EXCEPT ![s] = "deleted"] /\ key[s] # "none" /\ signedIn[s] = 0
      BY <1>3, <2>2 DEF FinishCallback, ConsumedKey, Stored
    <3>2. signedIn' \in [States -> {0, 1}]
          /\ \A t \in States : t # s => signedIn'[t] = signedIn[t]
      BY <1>3, <3>1 DEF FinishCallback
    <3> QED BY <2>1, <3>1, <3>2
  <2>3. CASE ~Stored(s)
    <3>1. key' = key /\ signedIn' = signedIn
      BY <1>3, <2>3 DEF FinishCallback, ConsumedKey, Stored
    <3> QED BY <2>1, <3>1
  <2> QED BY <2>2, <2>3
<1>4. ASSUME NEW r \in starting,
             NEW purged \in SUBSET {s \in States : key[s] = "expired"}, IssueState(r, purged)
      PROVE  StatesInv'
  <2>1. starting' = starting \ {r} /\ signedIn' = signedIn
    BY <1>4 DEF IssueState
  <2>2. CASE Supersedes(r)
    <3>1. key' = [s \in States |-> IF s = r.state THEN "issued"
                                   ELSE IF s \in r.superseded \cup purged THEN "deleted"
                                   ELSE key[s]]
      BY <1>4, <2>2 DEF IssueState
    <3>2. \A q \in starting' : q.state \in States /\ key'[q.state] = "none"
      BY <2>1, <2>2, <3>1 DEF Supersedes, Stored
    <3> QED BY <2>1, <3>1, <3>2
  <2>3. CASE key' = key
    BY <2>1, <2>3
  <2> QED BY <1>4, <2>2, <2>3 DEF IssueState
<1>5. CASE UNCHANGED <<key, starting, signedIn>>
  BY <1>5
<1> QED
  BY <1>1, <1>2, <1>3, <1>4, <1>5 DEF SignInNext, signInVars, Receive, ReceiveCallback

\* IDN-1: no nonce lets two sign-ins through, for any number of tabs that start,
\* supersede, expire and finish their sign-ins in any order.
THEOREM StateUsedOnceHolds == SignInSpec => []StateUsedOnce
<1>1. SignInInit => StatesInv
  BY DEF SignInInit, StatesInv
<1>2. StatesInv => StateUsedOnce
  BY DEF StatesInv, StateUsedOnce
<1> QED BY <1>1, <1>2, StatesStep, PTL DEF SignInSpec

(***************************************************************************)
(* Resumes.  Promotion needs the newest of what is left to exist, which    *)
(* the library provides as long as every part of it has a newest entry.    *)
(***************************************************************************)
HasNewest(S) == S # {} => \E s \in S : \A t \in S : s >= t

LibraryInv ==
    /\ link \in [Resumes -> Links \cup {NoLink}]
    /\ Library = {} => marked = {}
    /\ OneDefaultResume
    /\ \A S \in SUBSET Library : HasNewest(S)

\* One more resume leaves every part of the library with a newest entry.
LEMMA NewestWithOneMore ==
    ASSUME NEW L \in SUBSET Nat, \A S \in SUBSET L : HasNewest(S), NEW r \in Nat
    PROVE  \A S \in SUBSET (L \cup {r}) : HasNewest(S)
<1> SUFFICES ASSUME NEW S \in SUBSET (L \cup {r}), S # {}
             PROVE  \E s \in S : \A t \in S : s >= t
  BY DEF HasNewest
<1>1. CASE S \ {r} = {}
  <2>1. S = {r}
    BY <1>1
  <2> QED BY <2>1
<1>2. CASE S \ {r} # {}
  <2>1. S \ {r} \in SUBSET L
    OBVIOUS
  <2>2. PICK m \in S \ {r} : \A t \in S \ {r} : m >= t
    BY <1>2, <2>1 DEF HasNewest
  <2>3. CASE r \in S /\ r >= m
    <3>1. \A t \in S : r >= t
      BY <2>2, <2>3
    <3> QED BY <2>3, <3>1
  <2>4. CASE r \notin S \/ ~(r >= m)
    <3>1. \A t \in S : m >= t
      BY <2>2, <2>4
    <3> QED BY <3>1
  <2> QED BY <2>3, <2>4
<1> QED BY <1>1, <1>2

\* A marker that moves through "nobody" to one resume never meets the index.
LEMMA ClearedThenMarked ==
    ASSUME NEW r
    PROVE  ~\E markers \in {{}} \cup {{r}} : Cardinality(markers) > 1
<1>1. Cardinality({}) = 0
  BY FS_EmptySet
<1>2. Cardinality({r}) = 1
  BY FS_Singleton
<1> QED BY <1>1, <1>2

LEMMA LibraryStep == LibraryInv /\ [LibraryNext]_libraryVars => LibraryInv'
<1> SUFFICES ASSUME LibraryInv, [LibraryNext]_libraryVars
             PROVE  LibraryInv'
  OBVIOUS
<1> USE DEF LibraryInv, OneDefaultResume
<1>0. Library \in SUBSET Nat /\ Cardinality({}) = 0
  BY ResumesAssumption, FS_EmptySet DEF Library
<1>1. ASSUME NEW r \in Resumes, NEW url \in Links, NEW wanted \in BOOLEAN,
             AddResume(r, url, wanted)
      PROVE  LibraryInv'
  <2>1. /\ link' \in [Resumes -> Links \cup {NoLink}]
        /\ Library' = Library \cup {r}
    BY <1>1, ResumesAssumption DEF AddResume, Library
  <2>2. \A S \in SUBSET Library' : HasNewest(S)
    BY <1>0, <2>1, NewestWithOneMore, ResumesAssumption
  <2>3. CASE wanted \/ Library = {}
    <3>1. Mark({{}}, {r})
      BY <1>1, <2>3 DEF AddResume
    <3>2. ~\E markers \in {{}} \cup {{r}} : Cardinality(markers) > 1
      BY ClearedThenMarked
    <3>3. marked' = {r} /\ ~halted'
      BY <3>1, <3>2 DEF Mark
    <3> QED BY <2>1, <2>2, <3>3
  <2>4. CASE ~wanted /\ Library # {}
    <3>1. PICK q \in Library : marked = {q}
      BY <2>4
    <3>2. Cardinality(marked) = 1
      BY <3>1, FS_Singleton
    <3>3. marked' = marked /\ ~halted'
      BY <1>1, <2>4, <3>2 DEF AddResume, Mark
    <3> QED BY <2>1, <2>2, <3>1, <3>3
  <2> QED BY <2>3, <2>4
<1>2. ASSUME NEW r \in Resumes, NEW url \in Links, UpdateResume(r, url)
      PROVE  LibraryInv'
  <2>1. /\ link' \in [Resumes -> Links \cup {NoLink}]
        /\ Library' = Library
    BY <1>2, ResumesAssumption DEF UpdateResume, Library
  <2> QED BY <1>2, <2>1 DEF UpdateResume
<1>3. ASSUME NEW r \in Resumes, SetDefaultResume(r)
      PROVE  LibraryInv'
  <2>1. link' = link /\ Library' = Library /\ r \in Library
    BY <1>3 DEF SetDefaultResume, Library
  <2>2. Mark({{}}, {r})
    BY <1>3 DEF SetDefaultResume
  <2>3. ~\E markers \in {{}} \cup {{r}} : Cardinality(markers) > 1
    BY ClearedThenMarked
  <2>4. marked' = {r} /\ ~halted'
    BY <2>2, <2>3 DEF Mark
  <2> QED BY <2>1, <2>4
<1>4. ASSUME NEW r \in Resumes, DeleteResume(r)
      PROVE  LibraryInv'
  <2> DEFINE rest == Library \ {r}
  <2>1. /\ link' \in [Resumes -> Links \cup {NoLink}]
        /\ Library' = rest
        /\ rest # {}
    BY <1>4 DEF DeleteResume, Library
  <2>2. PICK q \in Library : marked = {q}
    BY <1>4 DEF DeleteResume
  <2>3. \E q1 \in rest : Promoted(r) = {q1}
    <3>1. CASE r \in marked
      <4>1. \E s \in rest : \A t \in rest : s >= t
        BY <2>1 DEF HasNewest
      <4>2. (CHOOSE s \in rest : \A t \in rest : s >= t) \in rest
        BY <4>1, Zenon
      <4> QED BY <3>1, <4>2 DEF Promoted
    <3>2. CASE r \notin marked
      BY <2>2, <3>2 DEF Promoted
    <3> QED BY <3>1, <3>2
  <2>4. PICK q1 \in rest : Promoted(r) = {q1}
    BY <2>3
  <2>5. Cardinality(marked \ {r}) \in {0, 1}
    <3>1. marked \ {r} = {} \/ marked \ {r} = {q}
      BY <2>2
    <3>2. Cardinality({q}) = 1
      BY FS_Singleton
    <3> QED BY <1>0, <3>1, <3>2
  <2>6. marked' = {q1} /\ ~halted'
    <3>1. Mark({marked \ {r}}, {q1})
      BY <1>4, <2>4 DEF DeleteResume
    <3>2. Cardinality({q1}) = 1
      BY FS_Singleton
    <3>3. ~(Cardinality(marked \ {r}) > 1) /\ ~(Cardinality({q1}) > 1)
      BY <2>5, <3>2
    <3>4. ~\E markers \in {marked \ {r}} \cup {{q1}} : Cardinality(markers) > 1
      BY ONLY <3>3
    <3> QED BY <3>1, <3>4 DEF Mark
  <2>7. \A S \in SUBSET Library' : HasNewest(S)
    BY <2>1
  <2> QED BY <2>1, <2>6, <2>7
<1>5. CASE UNCHANGED <<link, marked, halted>>
  BY <1>5 DEF Library
<1> QED
  BY <1>1, <1>2, <1>3, <1>4, <1>5 DEF LibraryNext, libraryVars, NameCycleDefault,
     FileApplication, EditApplication

\* PRO-3: a library with entries has one default after every sequence of edits,
\* for libraries of any size, and no statement on the way meets the index.
THEOREM OneDefaultResumeHolds == LibrarySpec => []OneDefaultResume
<1>1. LibraryInit => LibraryInv
  BY DEF LibraryInit, LibraryInv, OneDefaultResume, Library, HasNewest
<1>2. LibraryInv => OneDefaultResume
  BY DEF LibraryInv
<1> QED BY <1>1, <1>2, LibraryStep, PTL DEF LibrarySpec

(***************************************************************************)
(* Taxonomies.  The foreign keys hold, and the command under way keeps the *)
(* rows it has locked, so a count of nothing means nothing to break.       *)
(***************************************************************************)
ProgramRow == [listed : BOOLEAN, active : BOOLEAN,
               first : Programs \cup {None}, second : Programs \cup {None}]
BranchRow == [listed : BOOLEAN, active : BOOLEAN]

TablesTyped ==
    /\ program \in [Programs -> ProgramRow]
    /\ branch \in [Branches -> BranchRow]
    /\ offered \subseteq Programs \X Branches

\* What the command under way has locked or checked stays as it was.
PendingKept ==
    pending # None /\ pending.kind = "program" =>
        /\ pending.id \in Programs
        /\ pending.active \in BOOLEAN
        /\ pending.shape # None => pending.shape \in Shapes
        /\ pending.branches # None => pending.branches \subseteq BranchesThere

TaxonomiesInv ==
    /\ TablesTyped
    /\ KeysHold(ProgramsThere, BranchesThere)
    /\ PendingKept
    /\ DeletesApply

\* The counts of _REFERENCE_QUERIES are numbers, so a sum of zero is all zeros.
LEMMA CountsAreNumbers ==
    ASSUME TablesTyped, NEW p, NEW b
    PROVE  /\ Cardinality({x \in {study} : x.program = p}) \in Nat
           /\ Cardinality({entry \in offered : entry[1] = p}) \in Nat
           /\ Cardinality({q \in ProgramsThere : p \in {program[q].first, program[q].second}}) \in Nat
           /\ Cardinality({x \in {study} : b \in {x.primary, x.secondary}}) \in Nat
           /\ Cardinality({entry \in offered : entry[2] = b}) \in Nat
           /\ IsFiniteSet(offered) /\ IsFiniteSet(ProgramsThere) /\ IsFiniteSet({study})
<1>1. IsFiniteSet({study})
  BY FS_Singleton
<1>2. IsFiniteSet(offered)
  BY TaxonomiesAssumption, FS_Product, FS_Subset DEF TablesTyped
<1>3. IsFiniteSet(ProgramsThere)
  BY TaxonomiesAssumption, FS_Subset DEF ProgramsThere
<1>4. \A S, T : IsFiniteSet(T) /\ S \subseteq T => Cardinality(S) \in Nat
  BY FS_Subset, FS_CardinalityType
<1>5. /\ {x \in {study} : x.program = p} \subseteq {study}
      /\ {x \in {study} : b \in {x.primary, x.secondary}} \subseteq {study}
      /\ {entry \in offered : entry[1] = p} \subseteq offered
      /\ {entry \in offered : entry[2] = b} \subseteq offered
      /\ {q \in ProgramsThere : p \in {program[q].first, program[q].second}} \subseteq ProgramsThere
  OBVIOUS
<1> QED BY <1>1, <1>2, <1>3, <1>4, <1>5

\* Nothing counts, nothing refers: a programme.
LEMMA UnusedProgram ==
    ASSUME TablesTyped, NEW p, ~(References(p) > 0)
    PROVE  /\ study.program # p
           /\ \A entry \in offered : entry[1] # p
           /\ \A q \in ProgramsThere : program[q].first # p /\ program[q].second # p
<1> DEFINE A == {x \in {study} : x.program = p}
           B == {entry \in offered : entry[1] = p}
           C == {q \in ProgramsThere : p \in {program[q].first, program[q].second}}
<1>1. /\ Cardinality(A) \in Nat /\ Cardinality(B) \in Nat /\ Cardinality(C) \in Nat
      /\ IsFiniteSet(offered) /\ IsFiniteSet(ProgramsThere) /\ IsFiniteSet({study})
  BY CountsAreNumbers
<1>2. Cardinality(A) = 0 /\ Cardinality(B) = 0 /\ Cardinality(C) = 0
  <2>1. References(p) = Cardinality(A) + Cardinality(B) + Cardinality(C)
    BY DEF References
  <2> HIDE DEF A, B, C
  <2> QED BY <1>1, <2>1
<1>3. IsFiniteSet(A) /\ IsFiniteSet(B) /\ IsFiniteSet(C)
  <2>1. A \subseteq {study} /\ B \subseteq offered /\ C \subseteq ProgramsThere
    OBVIOUS
  <2> QED BY <1>1, <2>1, FS_Subset
<1>4. A = {} /\ B = {} /\ C = {}
  <2> HIDE DEF A, B, C
  <2> QED BY <1>2, <1>3, FS_EmptySet
<1>5. study.program # p
  BY <1>4
<1>6. \A entry \in offered : entry[1] # p
  BY <1>4
<1>7. \A q \in ProgramsThere : program[q].first # p /\ program[q].second # p
  BY <1>4
<1> QED BY <1>5, <1>6, <1>7

\* Nothing counts, nothing refers: a discipline.
LEMMA UnusedBranch ==
    ASSUME TablesTyped, NEW b, ~(BranchReferences(b) > 0)
    PROVE  /\ study.primary # b /\ study.secondary # b
           /\ \A entry \in offered : entry[2] # b
<1> DEFINE A == {x \in {study} : b \in {x.primary, x.secondary}}
           B == {entry \in offered : entry[2] = b}
<1>1. /\ Cardinality(A) \in Nat /\ Cardinality(B) \in Nat
      /\ IsFiniteSet(offered) /\ IsFiniteSet({study})
  BY CountsAreNumbers
<1>2. Cardinality(A) = 0 /\ Cardinality(B) = 0
  <2>1. BranchReferences(b) = Cardinality(A) + Cardinality(B)
    BY DEF BranchReferences
  <2> HIDE DEF A, B
  <2> QED BY <1>1, <2>1
<1>3. IsFiniteSet(A) /\ IsFiniteSet(B)
  <2>1. A \subseteq {study} /\ B \subseteq offered
    OBVIOUS
  <2> QED BY <1>1, <2>1, FS_Subset
<1>4. A = {} /\ B = {}
  <2> HIDE DEF A, B
  <2> QED BY <1>2, <1>3, FS_EmptySet
<1>5. study.primary # b /\ study.secondary # b
  BY <1>4
<1>6. \A entry \in offered : entry[2] # b
  BY <1>4
<1> QED BY <1>5, <1>6

LEMMA TaxonomiesStep == TaxonomiesInv /\ [TaxonomiesNext]_taxonomyVars => TaxonomiesInv'
<1> SUFFICES ASSUME TaxonomiesInv, [TaxonomiesNext]_taxonomyVars
             PROVE  TaxonomiesInv'
  OBVIOUS
<1> USE DEF TaxonomiesInv, DeletesApply
<1>1. ASSUME NEW p \in Programs, NEW active \in BOOLEAN, NEW shape \in Shapes \cup {None},
             NEW branches \in (SUBSET Branches) \cup {None},
             BeginProgram(p, active, shape, branches)
      PROVE  TaxonomiesInv'
  <2>1. UNCHANGED <<program, branch, offered, study, stopped>>
    BY <1>1 DEF BeginProgram
  <2>2. PendingKept'
    BY <1>1, <2>1 DEF BeginProgram, PendingKept, BranchesThere, Usable
  <2>3. TablesTyped' /\ KeysHold(ProgramsThere, BranchesThere)'
    BY <2>1 DEF TablesTyped, KeysHold, ProgramsThere, BranchesThere
  <2> QED BY <2>1, <2>2, <2>3
<1>2. CASE CommitProgram
  <2>1. pending' = None /\ UNCHANGED <<branch, study>> /\ "delete" \notin stopped'
    BY <1>2 DEF CommitProgram
  <2>2. PendingKept'
    BY <2>1 DEF PendingKept
  <2>3. CASE UNCHANGED <<program, offered>>
    BY <2>1, <2>2, <2>3 DEF TablesTyped, KeysHold, ProgramsThere, BranchesThere
  <2>4. CASE ~UNCHANGED <<program, offered>>
    <3> DEFINE p == pending.id
               shape == ShapeAfter(p, pending.shape)
               entry == [listed |-> TRUE, active |-> pending.active,
                       first |-> shape[1], second |-> shape[2]]
    <3>1. /\ p \in Programs /\ pending.active \in BOOLEAN
          /\ pending.branches # None => pending.branches \subseteq BranchesThere
      BY <1>2 DEF CommitProgram, PendingKept
    <3>2. {shape[1], shape[2]} \subseteq ProgramsThere \cup {None}
      BY <1>2, <2>4 DEF CommitProgram
    <3>3. /\ program' = [program EXCEPT ![p] = entry]
          /\ offered' = IF pending.branches = None THEN offered
                        ELSE {x \in offered : x[1] # p} \cup ({p} \X pending.branches)
      BY <1>2, <2>4 DEF CommitProgram
    <3> HIDE DEF shape
    <3>4. entry \in ProgramRow
      BY <3>1, <3>2 DEF ProgramRow, ProgramsThere
    <3>5. TablesTyped'
      <4>1. program' \in [Programs -> ProgramRow]
        BY <3>1, <3>3, <3>4 DEF TablesTyped
      <4>2. offered' \subseteq Programs \X Branches
        BY <3>1, <3>3 DEF TablesTyped, BranchesThere
      <4> QED BY <2>1, <4>1, <4>2 DEF TablesTyped
    <3>6. ProgramsThere' = ProgramsThere \cup {p} /\ BranchesThere' = BranchesThere
      BY <2>1, <3>1, <3>3 DEF ProgramsThere, BranchesThere, TablesTyped
    <3>7. \A q \in ProgramsThere' :
             {program'[q].first, program'[q].second} \subseteq ProgramsThere' \cup {None}
      BY <3>1, <3>2, <3>3, <3>6 DEF KeysHold, TablesTyped, ProgramsThere
    <3>8. offered' \subseteq ProgramsThere' \X BranchesThere'
      BY <3>1, <3>3, <3>6 DEF KeysHold
    <3>9. KeysHold(ProgramsThere, BranchesThere)'
      BY <2>1, <3>6, <3>7, <3>8 DEF KeysHold
    <3> QED BY <2>1, <2>2, <3>5, <3>9
  <2> QED BY <2>3, <2>4
<1>3. ASSUME NEW b \in Branches, NEW active \in BOOLEAN, UpsertBranch(b, active)
      PROVE  TaxonomiesInv'
  <2>1. /\ branch' = [branch EXCEPT ![b] = [listed |-> TRUE, active |-> active]]
        /\ UNCHANGED <<program, offered, study, pending, stopped>>
    BY <1>3 DEF UpsertBranch
  <2>2. TablesTyped'
    BY <2>1 DEF TablesTyped, BranchRow
  <2>3. ProgramsThere' = ProgramsThere /\ BranchesThere' = BranchesThere \cup {b}
    BY <2>1 DEF ProgramsThere, BranchesThere, TablesTyped
  <2>4. KeysHold(ProgramsThere, BranchesThere)'
    BY <2>1, <2>3 DEF KeysHold
  <2>5. PendingKept'
    BY <2>1, <2>3 DEF PendingKept
  <2> QED BY <2>1, <2>2, <2>4, <2>5
<1>4. ASSUME NEW p \in Programs, DeleteProgram(p)
      PROVE  TaxonomiesInv'
  <2>1. UNCHANGED <<branch, offered, study, pending>> /\ BranchesThere' = BranchesThere
    BY <1>4 DEF DeleteProgram, BranchesThere
  <2>2. PendingKept'
    BY <2>1 DEF PendingKept
  <2>3. CASE References(p) > 0
    <3>1. program' = [program EXCEPT ![p].active = FALSE] /\ stopped' = stopped
      BY <1>4, <2>3 DEF DeleteProgram
    <3>2. TablesTyped'
      BY <2>1, <3>1 DEF TablesTyped, ProgramRow
    <3>3. ProgramsThere' = ProgramsThere
      BY <3>1 DEF ProgramsThere, TablesTyped, ProgramRow
    <3>4. KeysHold(ProgramsThere, BranchesThere)'
      BY <2>1, <3>1, <3>3 DEF KeysHold, TablesTyped, ProgramRow, ProgramsThere
    <3> QED BY <2>2, <3>1, <3>2, <3>4
  <2>4. CASE ~(References(p) > 0)
    <3>1. KeysHold(ProgramsThere \ {p}, BranchesThere)
      <4>1. study.program \in (ProgramsThere \ {p}) \cup {None}
        BY <2>4, UnusedProgram DEF KeysHold
      <4>2. offered \subseteq (ProgramsThere \ {p}) \X BranchesThere
        BY <2>4, UnusedProgram DEF KeysHold
      <4>3. \A q \in ProgramsThere \ {p} :
               {program[q].first, program[q].second} \subseteq (ProgramsThere \ {p}) \cup {None}
        BY <2>4, UnusedProgram DEF KeysHold
      <4> QED BY <4>1, <4>2, <4>3 DEF KeysHold
    <3>2. /\ program' = [program EXCEPT ![p] = [listed |-> FALSE, active |-> FALSE,
                                                first |-> None, second |-> None]]
          /\ stopped' = stopped
      BY <1>4, <2>4, <3>1 DEF DeleteProgram
    <3>3. TablesTyped'
      BY <2>1, <3>2 DEF TablesTyped, ProgramRow
    <3>4. ProgramsThere' = ProgramsThere \ {p}
      BY <3>2 DEF ProgramsThere, TablesTyped
    <3>5. KeysHold(ProgramsThere, BranchesThere)'
      BY <2>1, <3>1, <3>2, <3>4 DEF KeysHold, TablesTyped
    <3> QED BY <2>2, <3>2, <3>3, <3>5
  <2> QED BY <2>3, <2>4
<1>5. ASSUME NEW b \in Branches, DeleteBranch(b)
      PROVE  TaxonomiesInv'
  <2>1. UNCHANGED <<program, offered, study, pending>> /\ ProgramsThere' = ProgramsThere
    BY <1>5 DEF DeleteBranch, ProgramsThere
  <2>2. CASE BranchReferences(b) > 0
    <3>1. branch' = [branch EXCEPT ![b].active = FALSE] /\ stopped' = stopped
      BY <1>5, <2>2 DEF DeleteBranch
    <3>2. TablesTyped'
      BY <2>1, <3>1 DEF TablesTyped, BranchRow
    <3>3. BranchesThere' = BranchesThere
      BY <3>1 DEF BranchesThere, TablesTyped, BranchRow
    <3> QED BY <2>1, <3>1, <3>2, <3>3 DEF KeysHold, PendingKept
  <2>3. CASE ~(BranchReferences(b) > 0)
    <3>1. KeysHold(ProgramsThere, BranchesThere \ {b})
      <4>1. {study.primary, study.secondary} \subseteq (BranchesThere \ {b}) \cup {None}
        BY <2>3, UnusedBranch DEF KeysHold
      <4>2. offered \subseteq ProgramsThere \X (BranchesThere \ {b})
        BY <2>3, UnusedBranch DEF KeysHold
      <4> QED BY <4>1, <4>2 DEF KeysHold
    <3>2. /\ branch' = [branch EXCEPT ![b] = [listed |-> FALSE, active |-> FALSE]]
          /\ stopped' = stopped
      BY <1>5, <2>3, <3>1 DEF DeleteBranch
    <3>3. TablesTyped'
      BY <2>1, <3>2 DEF TablesTyped, BranchRow
    <3>4. BranchesThere' = BranchesThere \ {b}
      BY <3>2 DEF BranchesThere, TablesTyped
    <3>5. KeysHold(ProgramsThere, BranchesThere)'
      BY <2>1, <3>1, <3>4 DEF KeysHold
    <3>6. PendingKept'
      BY <1>5, <2>1, <3>4 DEF DeleteBranch, HoldsBranch, PendingKept
    <3> QED BY <3>2, <3>3, <3>5, <3>6
  <2> QED BY <2>2, <2>3
<1>6. ASSUME NEW e \in Studies, BeginEdit(e)
      PROVE  TaxonomiesInv'
  <2>1. UNCHANGED <<program, branch, offered, study, stopped>> /\ pending'.kind = "edit"
    BY <1>6 DEF BeginEdit
  <2> QED BY <2>1 DEF TablesTyped, KeysHold, ProgramsThere, BranchesThere, PendingKept
<1>7. CASE CommitEdit
  <2>1. UNCHANGED <<program, branch, offered>> /\ pending' = None /\ "delete" \notin stopped'
    BY <1>7 DEF CommitEdit
  <2>2. KeysHold(ProgramsThere, BranchesThere)'
    BY <1>7, <2>1 DEF CommitEdit, KeysHold, ProgramsThere, BranchesThere
  <2> QED BY <2>1, <2>2 DEF TablesTyped, PendingKept
<1>8. CASE UNCHANGED taxonomyVars
  BY <1>8 DEF taxonomyVars, TablesTyped, KeysHold, ProgramsThere, BranchesThere, PendingKept
<1> QED
  BY <1>1, <1>2, <1>3, <1>4, <1>5, <1>6, <1>7, <1>8 DEF TaxonomiesNext

\* TAX: no delete runs into a foreign key, for any finite vocabulary: what the
\* counts leave out cannot refer to the item, nor can it come to while the
\* delete holds the row.
THEOREM DeletesApplyHolds == TaxonomiesSpec => []DeletesApply
<1>1. TaxonomiesInit => TaxonomiesInv
  BY DEF TaxonomiesInit, TaxonomiesInv, TablesTyped, ProgramRow, BranchRow, KeysHold,
     ProgramsThere, BranchesThere, PendingKept, DeletesApply
<1>2. TaxonomiesInv => DeletesApply
  BY DEF TaxonomiesInv
<1> QED BY <1>1, <1>2, TaxonomiesStep, PTL DEF TaxonomiesSpec

-----------------------------------------------------------------------------
(***************************************************************************)
(* The slot of a round.                                                    *)
(***************************************************************************)
SlotsInv ==
    /\ default \in Slots
    /\ seat \in Seated \cup {Unseated}
    /\ ToldWhatTheySee

\* Covering with a covered row is covering twice, and stays within the cells.
LEMMA CoversTwice ==
    ASSUME NEW cells \in Slots, NEW middle \in Slots, NEW bottom \in Slots
    PROVE  /\ Over(cells, middle) \in Slots
           /\ Over(Over(cells, middle), bottom) = Over(cells, Over(middle, bottom))
BY DEF Over, Cover, Slots

\* Telling a student what they see makes up for all that they missed.
LEMMA TellingSettles ==
    ASSUME NEW s \in Seated, NEW slot \in Slots
    PROVE  /\ Told(s, slot) \in Seated
           /\ Told(s, slot).told = {slot}
           /\ Told(s, slot).override = s.override
BY DEF Told, Seated

LEMMA SlotsStep == SlotsInv /\ [SlotsNext]_slotVars => SlotsInv'
<1> SUFFICES ASSUME SlotsInv, [SlotsNext]_slotVars
             PROVE  SlotsInv'
  OBVIOUS
<1> USE DEF SlotsInv, ToldWhatTheySee
<1>1. ASSUME NEW advanced \in BOOLEAN, EnterRound(advanced)
      PROVE  SlotsInv'
  <2>1. Over(NoSlot, default) = default
    BY DEF Over, Cover, NoSlot, Slots
  <2>2. FreshSeat({}) \in Seated /\ FreshSeat({default}) \in Seated
    BY DEF FreshSeat, Seated, NoSlot, Slots
  <2>3. default' = default /\ seat' \in {FreshSeat({}), FreshSeat({default})}
    BY <1>1 DEF EnterRound
  <2>4. CASE seat' = FreshSeat({})
    <3>1. seat'.told = {}
      BY <2>4 DEF FreshSeat
    <3> QED BY <2>2, <2>3, <2>4, <3>1
  <2>5. CASE seat' = FreshSeat({default})
    <3>1. seat'.told = {default} /\ seat'.override = NoSlot
      BY <2>5 DEF FreshSeat
    <3>2. Sees(seat, default)' = default
      BY <2>1, <2>3, <3>1 DEF Sees
    <3> QED BY <2>2, <2>3, <2>5, <3>1, <3>2
  <2> QED BY <2>3, <2>4, <2>5
<1>2. ASSUME NEW rows, NEW uploaded \in BOOLEAN, AssignVenueTiming(rows, uploaded),
             \A i \in DOMAIN rows : rows[i] \in SlotRows
      PROVE  SlotsInv'
  <2> DEFINE cells(i) == [venue |-> rows[i].venue, time |-> rows[i].time]
             slot(i)  == Over(cells(i), Sees(seat, default))
             kept(i)  == [seat EXCEPT !.override = Over(cells(i), @), !.notified = TRUE]
  <2>1. PICK i \in Asked(rows, uploaded) : seat' = Told(kept(i), slot(i))
    BY <1>2 DEF AssignVenueTiming
  <2>2. cells(i) \in Slots
    BY <1>2, <2>1 DEF Asked, Readable, SlotRows, Slots
  <2>3. seat \in Seated /\ default' = default
    BY <1>2 DEF AssignVenueTiming, SlotBlocked
  <2>4. seat.override \in Slots
    BY <2>3 DEF Seated
  <2>5. Over(cells(i), seat.override) \in Slots
    BY <2>2, <2>4, CoversTwice
  <2>6. kept(i) \in Seated /\ kept(i).override = Over(cells(i), seat.override)
    BY <2>3, <2>5 DEF Seated
  <2>7. slot(i) \in Slots /\ slot(i) = Over(kept(i).override, default)
    BY <2>2, <2>4, <2>6, CoversTwice DEF Sees
  <2>8. seat' \in Seated /\ seat'.told = {slot(i)} /\ seat'.override = kept(i).override
    BY <2>1, <2>6, <2>7, TellingSettles
  <2> QED BY <2>3, <2>7, <2>8 DEF Sees
<1>3. ASSUME NEW venue \in Venues \cup {Unset},
             NEW time \in {{}, {Unset}} \cup {{t} : t \in Times},
             UpsertDefaults(venue, time)
      PROVE  SlotsInv'
  <2>1. default' \in Slots
    BY <1>3 DEF UpsertDefaults, Slots
  <2>2. CASE seat = Unseated
    BY <1>3, <2>1, <2>2 DEF UpsertDefaults
  <2>3. CASE seat # Unseated
    <3>1. seat \in Seated /\ seat' = Rescheduled(seat, default')
      BY <1>3, <2>3 DEF UpsertDefaults
    <3>2. seat.override \in Slots
      BY <3>1 DEF Seated
    <3>3. Sees(seat, default') \in Slots
      BY <2>1, <3>2, CoversTwice DEF Sees
    <3>4. CASE Notices(seat, default')
      <4> DEFINE kept == [seat EXCEPT !.notified = TRUE]
      <4>1. kept \in Seated /\ kept.override = seat.override
        BY <3>1 DEF Seated
      <4>2. seat' = Told(kept, Sees(seat, default'))
        BY <3>1, <3>4 DEF Rescheduled
      <4>3. /\ seat' \in Seated
            /\ seat'.told = {Sees(seat, default')}
            /\ seat'.override = seat.override
        BY <3>3, <4>1, <4>2, TellingSettles
      <4> QED BY <2>1, <4>3 DEF Sees
    <3>5. CASE ~Notices(seat, default') /\ bearing = "live"
      <4>1. seat' = seat /\ Sees(seat, default') = Sees(seat, default)
        BY <3>1, <3>5 DEF Rescheduled, Notices
      <4> QED BY <2>1, <2>3, <4>1 DEF Sees
    <3>6. CASE bearing # "live"
      <4>1. CASE Sees(seat, default') = Sees(seat, default)
        <5>1. seat' = seat
          BY <3>1, <3>6, <4>1 DEF Rescheduled, Notices
        <5> QED BY <2>1, <2>3, <4>1, <5>1 DEF Sees
      <4>2. CASE Sees(seat, default') # Sees(seat, default)
        <5>1. seat' = [seat EXCEPT !.missed = TRUE]
          BY <3>1, <3>6, <4>2 DEF Rescheduled, Notices
        <5>2. seat' \in Seated /\ seat'.missed
          BY <3>1, <5>1 DEF Seated
        <5> QED BY <2>1, <5>2
      <4> QED BY <4>1, <4>2
    <3> QED BY <3>4, <3>5, <3>6
  <2> QED BY <2>2, <2>3
<1>4. CASE SendRoundReminder
  <2>1. seat \in Seated /\ default' = default /\ seat' = Told(seat, Sees(seat, default))
    BY <1>4 DEF SendRoundReminder
  <2>2. Sees(seat, default) \in Slots
    BY <2>1, CoversTwice DEF Sees, Seated
  <2> QED BY <2>1, <2>2, TellingSettles DEF Sees
<1>5. CASE PassRound
  <2>1. seat \in Seated /\ default' = default /\ seat' = [seat EXCEPT !.awaiting = FALSE]
    BY <1>5 DEF PassRound
  <2>2. /\ seat' \in Seated /\ seat'.told = seat.told
        /\ seat'.missed = seat.missed /\ seat'.override = seat.override
    BY <2>1 DEF Seated
  <2> QED BY <1>5, <2>1, <2>2 DEF Sees, PassRound
<1>6. ASSUME NEW left \in {"closed", "withdrawn"}, LeaveJob(left)
      PROVE  SlotsInv'
  BY <1>6 DEF LeaveJob, Sees
<1>7. ASSUME NEW target \in {"earlier", "here", "later"}, ReturnTo(target)
      PROVE  SlotsInv'
  <2>1. default' = default
    BY <1>7 DEF ReturnTo
  <2>2. FreshSeat({}) \in Seated /\ FreshSeat({}).told = {}
    BY DEF FreshSeat, Seated, NoSlot, Slots
  <2>3. CASE seat' \in {Unseated, seat, FreshSeat({})}
    BY <2>1, <2>2, <2>3 DEF Sees
  <2>4. ASSUME seat # Unseated, NEW here \in BOOLEAN, seat' = [seat EXCEPT !.awaiting = here]
        PROVE  SlotsInv'
    <3>1. /\ seat' \in Seated /\ seat'.told = seat.told
          /\ seat'.missed = seat.missed /\ seat'.override = seat.override
      BY <2>4 DEF Seated
    <3> QED BY <2>1, <2>4, <3>1 DEF Sees
  <2>5. CASE target = "earlier" \/ seat = Unseated
    BY <1>7, <2>3, <2>5 DEF ReturnTo
  <2>6. CASE target # "earlier" /\ seat # Unseated
    <3>1. seat' \in {[seat EXCEPT !.awaiting = TRUE], [seat EXCEPT !.awaiting = FALSE]}
      BY <1>7, <2>6 DEF ReturnTo
    <3> QED BY <2>4, <2>6, <3>1
  <2> QED BY <2>5, <2>6
<1>8. CASE CancelJob
  BY <1>8 DEF CancelJob, Sees
<1>9. CASE UNCHANGED slotVars
  BY <1>9 DEF slotVars, Sees
<1>10. ASSUME NEW one \in SlotRows, NEW two \in SlotRows, NEW uploaded \in BOOLEAN,
              AssignVenueTiming(<<one>>, uploaded) \/ AssignVenueTiming(<<one, two>>, uploaded)
       PROVE  SlotsInv'
  <2>1. \A i \in DOMAIN <<one>> : <<one>>[i] \in SlotRows
    OBVIOUS
  <2>2. \A i \in DOMAIN <<one, two>> : <<one, two>>[i] \in SlotRows
    OBVIOUS
  <2> QED BY <1>2, <1>10, <2>1, <2>2
<1> QED
  BY <1>1, <1>3, <1>4, <1>5, <1>6, <1>7, <1>8, <1>9, <1>10 DEF SlotsNext

\* RND-4: for any venues and times, a student who has not missed a change while
\* off the job was last told the slot they see.
THEOREM ToldWhatTheySeeHolds == SlotsSpec => []ToldWhatTheySee
<1>1. SlotsInit => SlotsInv
  BY DEF SlotsInit, SlotsInv, ToldWhatTheySee
<1>2. SlotsInv => ToldWhatTheySee
  BY DEF SlotsInv
<1> QED BY <1>1, <1>2, SlotsStep, PTL DEF SlotsSpec

(***************************************************************************)
(* Companies.  Whatever a command decides on, the table satisfies both     *)
(* indexes after each of its statements.                                   *)
(***************************************************************************)
CompaniesInv ==
    /\ contact \in [ContactIds -> ContactRows]
    /\ Indexed(contact)
    /\ DirectoryPlansApply

\* A table whose contacts lost a primary marker, and perhaps their company.
LEMMA FewerMarkers ==
    ASSUME NEW old, NEW new, Indexed(old),
           \A p \in ContactIds :
              \/ new[p].of = Nobody
              \/ /\ new[p].of = old[p].of /\ new[p].email = old[p].email
                 /\ new[p].primary => old[p].primary
    PROVE  Indexed(new)
BY DEF Indexed

LEMMA ClearedRows ==
    ASSUME CompaniesInv, NEW c, NEW keep
    PROVE  /\ Cleared(c, keep) \in [ContactIds -> ContactRows]
           /\ \A p \in ContactIds :
                /\ Cleared(c, keep)[p].of = contact[p].of
                /\ Cleared(c, keep)[p].email = contact[p].email
                /\ Cleared(c, keep)[p].primary => contact[p].primary
                /\ contact[p].of = c /\ p # keep => ~Cleared(c, keep)[p].primary
           /\ Indexed(Cleared(c, keep))
<1>1. \A p \in ContactIds : contact[p] \in ContactRows
  BY DEF CompaniesInv
<1>2. /\ Cleared(c, keep) \in [ContactIds -> ContactRows]
      /\ \A p \in ContactIds :
            /\ Cleared(c, keep)[p].of = contact[p].of
            /\ Cleared(c, keep)[p].email = contact[p].email
            /\ Cleared(c, keep)[p].primary => contact[p].primary
            /\ contact[p].of = c /\ p # keep => ~Cleared(c, keep)[p].primary
  BY <1>1 DEF Cleared, ContactRows
<1>3. Indexed(Cleared(c, keep))
  BY <1>2, FewerMarkers DEF CompaniesInv
<1> QED BY <1>2, <1>3

\* The row a command writes last fits in the table the clearing left.
LEMMA RowFits ==
    ASSUME CompaniesInv, NEW p \in ContactIds, NEW c \in CompanyIds, NEW e \in Emails,
           NEW primary \in BOOLEAN, NEW cleared,
           contact[p].of \in {c, Nobody},
           ~EmailTaken(c, e, p),
           \/ cleared = Cleared(c, p)
           \/ cleared = contact /\ (primary => contact[p].primary /\ contact[p].of = c)
    PROVE  Indexed([cleared EXCEPT ![p] = [of |-> c, email |-> e, primary |-> primary]])
<1> DEFINE entry == [of |-> c, email |-> e, primary |-> primary]
           last == [cleared EXCEPT ![p] = entry]
<1>1. /\ cleared \in [ContactIds -> ContactRows] /\ Indexed(cleared)
      /\ \A q \in ContactIds : cleared[q].of = contact[q].of /\ cleared[q].email = contact[q].email
  BY ClearedRows DEF CompaniesInv
<1>2. last[p] = entry /\ \A q \in ContactIds \ {p} : last[q] = cleared[q]
  BY <1>1
<1>3. ASSUME NEW q \in ContactIds \ {p}, contact[q].of = c
      PROVE  contact[q].email # e /\ ~(cleared[q].primary /\ primary)
  <2>1. contact[q].email # e
    BY <1>3 DEF EmailTaken, ContactsOf
  <2>2. CASE cleared = Cleared(c, p)
    BY <1>3, <2>1, <2>2, ClearedRows
  <2>3. CASE cleared = contact /\ (primary => contact[p].primary /\ contact[p].of = c)
    BY <1>3, <2>1, <2>3, CompaniesAssumption DEF CompaniesInv, Indexed
  <2> QED BY <2>2, <2>3
<1> HIDE DEF last
<1> QED BY <1>1, <1>2, <1>3 DEF Indexed

LEMMA ApplyKeeps ==
    ASSUME CompaniesInv, NEW command, NEW tables, NEW last,
           Apply(command, tables, last), last \in [ContactIds -> ContactRows],
           command = "padded_update" \/ (\A rows \in tables \cup {last} : Indexed(rows))
    PROVE  CompaniesInv'
BY DEF CompaniesInv, Apply, DirectoryPlansApply

\* A merge: contacts the survivor knows go, and of the others any may have
\* been moved already.
LEMMA MergeFits ==
    ASSUME CompaniesInv, NEW survivor \in CompanyIds, NEW duplicate \in CompanyIds,
           survivor # duplicate,
           NEW moved \in SUBSET (ContactsOf(contact, duplicate) \ Known(survivor, duplicate))
    PROVE  /\ Moved(survivor, duplicate, moved) \in [ContactIds -> ContactRows]
           /\ Indexed(Moved(survivor, duplicate, moved))
<1> DEFINE rows == Moved(survivor, duplicate, moved)
           known == Known(survivor, duplicate)
<1>1. \A p \in ContactIds : contact[p] \in ContactRows
  BY DEF CompaniesInv
<1>2. /\ rows \in [ContactIds -> ContactRows]
      /\ \A p \in ContactIds :
           /\ p \in known => rows[p].of = Nobody
           /\ p \notin known => rows[p].email = contact[p].email
           /\ p \in moved => /\ p \notin known
                             /\ rows[p].of = survivor
                             /\ rows[p].primary => contact[p].primary /\ ~HasPrimary(survivor)
           /\ p \notin moved /\ p \notin known => rows[p] = contact[p]
  BY <1>1 DEF Moved, ContactRows
<1> HIDE DEF rows
<1>3. ASSUME NEW p \in moved, NEW q \in ContactIds, q \notin moved, q \notin known,
             rows[q].of = survivor
      PROVE  rows[p].email # rows[q].email /\ ~(rows[p].primary /\ rows[q].primary)
  <2>1. /\ p \in ContactIds /\ contact[p].of = duplicate /\ p \notin known
        /\ rows[q] = contact[q] /\ q \in ContactsOf(contact, survivor) /\ p # q
    BY <1>2, <1>3 DEF ContactsOf
  <2>2. contact[q].email # contact[p].email
    BY <2>1 DEF Known, EmailTaken, ContactsOf
  <2>3. rows[q].primary => HasPrimary(survivor)
    BY <2>1 DEF HasPrimary
  <2> QED BY <1>2, <2>1, <2>2, <2>3
<1>4. ASSUME NEW p \in ContactIds, NEW q \in ContactIds, p # q,
             rows[p].of = rows[q].of, rows[p].of # Nobody
      PROVE  rows[p].email # rows[q].email /\ ~(rows[p].primary /\ rows[q].primary)
  <2>1. p \notin known /\ q \notin known
    BY <1>2, <1>4
  <2>2. CASE p \in moved /\ q \in moved
    <3>1. contact[p].of = duplicate /\ contact[q].of = duplicate
      BY <2>2 DEF ContactsOf
    <3>2. contact[p].email # contact[q].email /\ ~(contact[p].primary /\ contact[q].primary)
      BY <1>4, <3>1, CompaniesAssumption DEF CompaniesInv, Indexed
    <3> QED BY <1>2, <2>1, <2>2, <3>2
  <2>3. CASE p \in moved /\ q \notin moved
    BY <1>2, <1>3, <1>4, <2>1, <2>3
  <2>4. CASE p \notin moved /\ q \in moved
    BY <1>2, <1>3, <1>4, <2>1, <2>4
  <2>5. CASE p \notin moved /\ q \notin moved
    BY <1>2, <1>4, <2>1, <2>5 DEF CompaniesInv, Indexed
  <2> QED BY <2>2, <2>3, <2>4, <2>5
<1>5. Indexed(rows)
  BY <1>4 DEF Indexed
<1> QED BY <1>2, <1>5 DEF rows

LEMMA CompaniesStep == CompaniesInv /\ [CompaniesNext]_companyVars => CompaniesInv'
<1> SUFFICES ASSUME CompaniesInv, [CompaniesNext]_companyVars
             PROVE  CompaniesInv'
  OBVIOUS
<1>1. ASSUME UNCHANGED <<contact, refused>> PROVE CompaniesInv'
  BY <1>1 DEF CompaniesInv, DirectoryPlansApply
<1>2. ASSUME NEW p \in ContactIds, NEW c \in CompanyIds, NEW e \in Emails,
             NEW wanted \in BOOLEAN, CreateContact(p, c, e, wanted)
      PROVE  CompaniesInv'
  <2> DEFINE primary == wanted \/ ContactsOf(contact, c) = {}
             cleared == IF primary THEN Cleared(c, p) ELSE contact
             last == [cleared EXCEPT ![p] = [of |-> c, email |-> e, primary |-> primary]]
  <2>1. /\ contact[p].of = Nobody /\ ~EmailTaken(c, e, p)
        /\ Apply("contact_create", {cleared}, last)
    BY <1>2 DEF CreateContact
  <2>2. primary \in BOOLEAN
    OBVIOUS
  <2>3. cleared \in [ContactIds -> ContactRows] /\ Indexed(cleared)
    BY ClearedRows DEF CompaniesInv
  <2>4. cleared = Cleared(c, p) \/ (cleared = contact /\ ~primary)
    OBVIOUS
  <2> HIDE DEF primary, cleared
  <2>5. Indexed(last)
    BY <2>1, <2>2, <2>4, RowFits
  <2>6. last \in [ContactIds -> ContactRows]
    BY <2>2, <2>3 DEF ContactRows
  <2> HIDE DEF last
  <2> QED BY <2>1, <2>3, <2>5, <2>6, ApplyKeeps
<1>3. ASSUME NEW p \in ContactIds, NEW e \in Emails, NEW padded \in BOOLEAN,
             NEW primary \in BOOLEAN, UpdateContact(p, e, padded, primary)
      PROVE  CompaniesInv'
  <2> DEFINE c == contact[p].of
             cleared == IF primary /\ ~contact[p].primary THEN Cleared(c, p) ELSE contact
             last == [cleared EXCEPT ![p] = [of |-> c, email |-> e, primary |-> primary]]
             command == IF padded THEN "padded_update" ELSE "contact_update"
  <2>1. /\ c # Nobody /\ (padded \/ ~EmailTaken(c, e, p))
        /\ Apply(command, {cleared}, last)
    BY <1>3 DEF UpdateContact
  <2>2. c \in CompanyIds
    BY <2>1 DEF CompaniesInv, ContactRows
  <2>3. cleared \in [ContactIds -> ContactRows] /\ Indexed(cleared)
    BY ClearedRows DEF CompaniesInv
  <2>4. \/ cleared = Cleared(c, p)
        \/ cleared = contact /\ (primary => contact[p].primary)
    OBVIOUS
  <2>5. padded => command = "padded_update"
    OBVIOUS
  <2> HIDE DEF cleared, command
  <2>6. ~padded => Indexed(last)
    BY <2>1, <2>2, <2>4, RowFits
  <2>7. last \in [ContactIds -> ContactRows]
    BY <2>2, <2>3 DEF ContactRows
  <2> HIDE DEF last
  <2> QED BY <2>1, <2>3, <2>5, <2>6, <2>7, ApplyKeeps
<1>4. ASSUME NEW p \in ContactIds, DeleteContact(p)
      PROVE  CompaniesInv'
  <2>1. contact' \in [ContactIds -> ContactRows] /\ refused' = refused
    BY <1>4 DEF DeleteContact, CompaniesInv, ContactRows
  <2>2. \A q \in ContactIds : contact'[q].of = Nobody \/ contact'[q] = contact[q]
    BY <1>4 DEF DeleteContact, CompaniesInv, ContactRows
  <2>3. Indexed(contact')
    BY <2>2, FewerMarkers DEF CompaniesInv
  <2> QED BY <2>1, <2>3 DEF CompaniesInv, DirectoryPlansApply
<1>5. ASSUME NEW survivor \in CompanyIds, NEW duplicate \in CompanyIds,
             MergeCompanies(survivor, duplicate)
      PROVE  CompaniesInv'
  <2> DEFINE repointed == ContactsOf(contact, duplicate) \ Known(survivor, duplicate)
             tables == {Moved(survivor, duplicate, some) : some \in SUBSET repointed}
             last == Moved(survivor, duplicate, repointed)
  <2>1. survivor # duplicate /\ Apply("merge_companies", tables, last)
    BY <1>5 DEF MergeCompanies
  <2>2. \A rows \in tables \cup {last} : Indexed(rows)
    BY <2>1, MergeFits
  <2>3. last \in [ContactIds -> ContactRows]
    BY <2>1, MergeFits
  <2> HIDE DEF tables, last
  <2> QED BY <2>1, <2>2, <2>3, ApplyKeeps
<1>6. ASSUME NEW c \in CompanyIds, NEW n \in Names, CreateCompany(c, n) \/ RenameCompany(c, n)
      PROVE  CompaniesInv'
  BY <1>1, <1>6 DEF CreateCompany, RenameCompany
<1>7. ASSUME NEW c \in CompanyIds, NEW active \in BOOLEAN, SetCompanyActive(c, active)
      PROVE  CompaniesInv'
  BY <1>1, <1>7 DEF SetCompanyActive
<1>8. ASSUME NEW h \in History, InsertHistory(h) \/ \E c \in CompanyIds : LookUpCompany(h, c)
      PROVE  CompaniesInv'
  BY <1>1, <1>8 DEF InsertHistory, LookUpCompany
<1>9. CASE UNCHANGED companyVars
  BY <1>1, <1>9 DEF companyVars
<1> QED BY <1>2, <1>3, <1>4, <1>5, <1>6, <1>7, <1>8, <1>9 DEF CompaniesNext

\* CMP: in a directory of any size, no plan of a command that compared the
\* stored address runs into an index, whatever order its statements run in.
THEOREM DirectoryPlansApplyHolds == CompaniesSpec => []DirectoryPlansApply
<1>1. CompaniesInit => CompaniesInv
  <2>1. (CHOOSE e \in Emails : TRUE) \in Emails
    BY CompaniesAssumption
  <2> QED BY <2>1 DEF CompaniesInit, CompaniesInv, ContactRows, Indexed, DirectoryPlansApply
<1>2. CompaniesInv => DirectoryPlansApply
  BY DEF CompaniesInv
<1> QED BY <1>1, <1>2, CompaniesStep, PTL DEF CompaniesSpec

(***************************************************************************)
(* Overrides.  Specificity is a linear order of the scopes, and of two     *)
(* rows of one scope a block precedes every grant.                         *)
(***************************************************************************)
OverridesInv == row \in [Rows -> OverrideRows]

\* Scopes of one rank are one scope.
LEMMA RankIsInjective ==
    ASSUME NEW s \in Specificities, NEW t \in Specificities
    PROVE  Rank[s] \in Nat /\ (Rank[s] = Rank[t] => s = t)
BY DEF Rank, Specificities

LEMMA OverridesStep == OverridesInv /\ [OverridesNext]_overrideVars => OverridesInv'
<1> SUFFICES ASSUME OverridesInv, [OverridesNext]_overrideVars
             PROVE  OverridesInv'
  OBVIOUS
<1>1. ASSUME NEW i \in Rows, NEW new \in OverrideRows, CreateOverride(i, new)
      PROVE  OverridesInv'
  BY <1>1 DEF OverridesInv, CreateOverride
<1>2. ASSUME NEW i \in Rows, DeactivateOverride(i) \/ ExpireOverride(i)
      PROVE  OverridesInv'
  BY <1>2 DEF OverridesInv, DeactivateOverride, ExpireOverride, OverrideRows
<1>3. CASE UNCHANGED overrideVars
  BY <1>3 DEF OverridesInv, overrideVars
<1> QED BY <1>1, <1>2, <1>3 DEF OverridesNext

\* INT-2: among any number of overrides, a block in force that is left alone
\* yields to more specific rows only.
THEOREM BlocksHoldAlways == OverridesSpec => BlocksHold
<1>1. OverridesInit => OverridesInv
  <2>1. (CHOOSE d \in RuleDomains : TRUE) \in RuleDomains
    BY OverridesAssumption
  <2> QED BY <2>1, OverridesAssumption
       DEF OverridesInit, OverridesInv, OverrideRows, NoRow, Specificities, Rank
<1>2. OverridesInv /\ OverridesInv' =>
        \A domain \in RuleDomains, subject \in GateSubjects :
          \A i \in InForce(row, domain, subject) :
            ~row[i].allow /\ row'[i] = row[i] =>
              \A j \in InForce(row', domain, subject) :
                ~row'[j].allow \/ Rank[row'[j].scope] > Rank[row[i].scope]
  <2> SUFFICES ASSUME OverridesInv, OverridesInv',
                      NEW domain \in RuleDomains, NEW subject \in GateSubjects,
                      NEW i \in InForce(row, domain, subject),
                      ~row[i].allow, row'[i] = row[i],
                      NEW j \in InForce(row', domain, subject), row'[j].allow
               PROVE  Rank[row'[j].scope] > Rank[row[i].scope]
    OBVIOUS
  <2>1. i \in Rows /\ j \in Rows /\ Matching(row', i, domain, subject)
    BY DEF InForce, Matching
  <2>2. ~Precedes(row'[j], j, row'[i], i)
    BY <2>1 DEF InForce
  <2>3. /\ row'[i].scope \in Specificities /\ row'[j].scope \in Specificities
    BY <2>1 DEF OverridesInv, OverrideRows
  <2>4. row'[i].scope # row'[j].scope
    <3>1. ~row'[i].allow
      OBVIOUS
    <3> QED BY <2>2, <3>1, Zenon DEF Precedes
  <2>5. ~(Rank[row'[j].scope] < Rank[row'[i].scope])
    BY <2>2, Zenon DEF Precedes
  <2> QED BY <2>3, <2>4, <2>5, RankIsInjective
<1> QED BY <1>1, <1>2, OverridesStep, PTL DEF OverridesSpec, BlocksHold
=============================================================================
