------------------------------ MODULE Accounts ------------------------------
(***************************************************************************)
(* Roles, deactivation, sessions and the coordinators of a cycle.  What a  *)
(* request may do is decided from the actor read when it arrives; the      *)
(* command runs later, when other administrators may have acted.           *)
(***************************************************************************)
EXTENDS Naturals, FiniteSets

CONSTANTS
    Users,
    Administrator,   \* the user the first administrator's role was given to
    Sessions,
    MaxPending       \* bound on the requests and logins under way

ASSUME AccountsAssumption == Administrator \in Users

VARIABLES
    role,          \* user -> "student" or "admin"
    enabled,       \* user -> users.is_active
    session,       \* session -> [of, live]; a row never issued has live = FALSE
    requests,      \* authenticated requests whose command has not run
    signingIn,     \* logins that have read the user and not inserted the session
    coordinators   \* users that coordinate the cycle

accountVars == <<role, enabled, session, requests, signingIn, coordinators>>

Commands == {"set_student", "set_admin", "deactivate", "assign", "remove", "logout"}
Requests == [by : Users, as : Sessions, kind : Commands, target : Users]

AccountsInit ==
    /\ role = [u \in Users |-> IF u = Administrator THEN "admin" ELSE "student"]
    /\ enabled = [u \in Users |-> TRUE]
    /\ session = [s \in Sessions |-> [of |-> Administrator, live |-> FALSE]]
    /\ requests = {}
    /\ signingIn = {}
    /\ coordinators = {}

ActiveAdmins == {u \in Users : role[u] = "admin" /\ enabled[u]}
FreshSession(s) == ~session[s].live
Room == Cardinality(requests) + Cardinality(signingIn) < MaxPending

-----------------------------------------------------------------------------
\* _load_login reads the user without locking the row,
ReadLogin(u) ==
    /\ Room /\ enabled[u]
    /\ signingIn' = signingIn \cup {u}
    /\ UNCHANGED <<role, enabled, session, requests, coordinators>>

\* and the session is inserted whatever happened to the user since; the
\* session of the browser that signs in again is revoked.
Login(u, s, prior) ==
    /\ u \in signingIn
    /\ FreshSession(s) /\ s \notin prior
    /\ Cardinality(prior) <= 1
    /\ signingIn' = signingIn \ {u}
    /\ session' = [t \in Sessions |->
                      IF t = s THEN [of |-> u, live |-> TRUE]
                      ELSE [session[t] EXCEPT !.live = @ /\ t \notin prior]]
    /\ UNCHANGED <<role, enabled, requests, coordinators>>

\* current_actor: a live session of an active user, read once per request.
Actor(s) == session[s].live /\ enabled[session[s].of]

\* The role a command of this kind asks of its actor.
Authorized(s, kind) == kind = "logout" \/ role[session[s].of] = "admin"

Arrive(s, kind, u) ==
    LET r == [by |-> session[s].of, as |-> s, kind |-> kind, target |-> u]
    IN  /\ Room /\ Actor(s) /\ Authorized(s, kind)
        /\ kind = "logout" => u = session[s].of
        /\ requests' = requests \cup {r}
        /\ UNCHANGED <<role, enabled, session, signingIn, coordinators>>

-----------------------------------------------------------------------------
\* Mutant: an administrator cannot remove himself, which seems enough.
AdminRemovalBlockedForSelf(r) == r.target \in ActiveAdmins /\ r.by = r.target

\* _admin_removal_rejection, on the administrators _load_admin_target locked:
\* one that another command removed while it waited is no longer among them.
AdminRemovalBlocked(r) ==
    /\ r.target \in ActiveAdmins
    /\ Cardinality(ActiveAdmins) <= 1 \/ r.by = r.target

Answered(r) == requests' = requests \ {r}

\* set_user_role
SetUserRole(r) ==
    LET to == IF r.kind = "set_student" THEN "student" ELSE "admin"
    IN  /\ r.kind \in {"set_student", "set_admin"}
        /\ IF to = "student" /\ role[r.target] # to /\ AdminRemovalBlocked(r)
           THEN role' = role
           ELSE role' = [role EXCEPT ![r.target] = to]
        /\ Answered(r)
        /\ UNCHANGED <<enabled, session, signingIn, coordinators>>

\* deactivate_user revokes the sessions it finds.
DeactivateUser(r) ==
    /\ r.kind = "deactivate"
    /\ IF ~enabled[r.target] \/ AdminRemovalBlocked(r)
       THEN UNCHANGED <<enabled, session>>
       ELSE /\ enabled' = [enabled EXCEPT ![r.target] = FALSE]
            /\ session' = [s \in Sessions |->
                              [session[s] EXCEPT !.live = @ /\ session[s].of # r.target]]
    /\ Answered(r)
    /\ UNCHANGED <<role, signingIn, coordinators>>

\* assign_coordinator reads is_active without locking the user.
AssignCoordinator(r) ==
    /\ r.kind = "assign"
    /\ coordinators' = IF enabled[r.target] THEN coordinators \cup {r.target}
                                            ELSE coordinators
    /\ Answered(r)
    /\ UNCHANGED <<role, enabled, session, signingIn>>

\* remove_coordinator
RemoveCoordinator(r) ==
    /\ r.kind = "remove"
    /\ coordinators' = coordinators \ {r.target}
    /\ Answered(r)
    /\ UNCHANGED <<role, enabled, session, signingIn>>

\* logout revokes the session the request came with.
Logout(r) ==
    /\ r.kind = "logout"
    /\ session' = [session EXCEPT ![r.as].live = FALSE]
    /\ Answered(r)
    /\ UNCHANGED <<role, enabled, signingIn, coordinators>>

AccountsNext ==
    \/ \E u \in Users : ReadLogin(u)
    \/ \E u \in Users, s \in Sessions, prior \in SUBSET Sessions : Login(u, s, prior)
    \/ \E s \in Sessions, kind \in Commands, u \in Users : Arrive(s, kind, u)
    \/ \E r \in requests :
          \/ SetUserRole(r)
          \/ DeactivateUser(r)
          \/ AssignCoordinator(r)
          \/ RemoveCoordinator(r)
          \/ Logout(r)

AccountsSpec == AccountsInit /\ [][AccountsNext]_accountVars

-----------------------------------------------------------------------------
\* However many administrators remove each other at once, each authorised
\* before the others acted, one active administrator is left (IDN-3).
AnAdministratorRemains == ActiveAdmins # {}
=============================================================================
