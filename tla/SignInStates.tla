---------------------------- MODULE SignInStates ----------------------------
(***************************************************************************)
(* The OAuth state of a Google sign-in: a key in the database and a marker *)
(* in a cookie of one browser, whose tabs start and finish sign-ins at the *)
(* same time.  A response replaces the cookie when it arrives.             *)
(***************************************************************************)
EXTENDS Naturals, FiniteSets

CONSTANT States      \* the nonces, in the order of no one

VARIABLES
    cookie,    \* the states the browser's cookie has a marker for
    key,       \* state -> "none", "issued", "expired" or "deleted"
    starting,  \* requests to start: the new state and the markers they carried
    callback,  \* callbacks under way
    replies,   \* cookies on their way to the browser
    signedIn   \* state -> sign-ins it let through

signInVars == <<cookie, key, starting, callback, replies, signedIn>>

SignInInit ==
    /\ cookie = {}
    /\ key = [s \in States |-> "none"]
    /\ starting = {}
    /\ callback = {}
    /\ replies = {}
    /\ signedIn = [s \in States |-> 0]

Stored(s) == key[s] \in {"issued", "expired"}

\* google_login: a new nonce, and the markers of the cookie it came with.
StartSignIn(s) ==
    /\ key[s] = "none" /\ \A r \in starting : r.state # s
    /\ starting' = starting \cup {[state |-> s, superseded |-> cookie]}
    /\ UNCHANGED <<cookie, key, callback, replies, signedIn>>

\* Every state the request supersedes must still be there.
Supersedes(r) == \A s \in r.superseded : Stored(s)

\* issue_oauth_state deletes the superseded states, purges some of the expired
\* ones (SKIP LOCKED) and stores the new one; or the start is rejected.
IssueState(r, purged) ==
    /\ r \in starting
    /\ starting' = starting \ {r}
    /\ IF Supersedes(r)
       THEN /\ key' = [s \in States |->
                          IF s = r.state THEN "issued"
                          ELSE IF s \in r.superseded \cup purged THEN "deleted"
                          ELSE key[s]]
            /\ replies' = replies \cup {{r.state}}
       ELSE /\ key' = key
            /\ replies' = replies \cup {{}}
    /\ UNCHANGED <<cookie, callback, signedIn>>

Expire(s) ==
    /\ key[s] = "issued"
    /\ key' = [key EXCEPT ![s] = "expired"]
    /\ UNCHANGED <<cookie, starting, callback, replies, signedIn>>

Receive(markers) ==
    /\ markers \in replies
    /\ cookie' = markers
    /\ replies' = replies \ {markers}
    /\ UNCHANGED <<key, starting, callback, signedIn>>

\* google_callback checks the marker of the cookie the request carries,
ReceiveCallback(s) ==
    /\ s \in cookie
    /\ callback' = callback \cup {s}
    /\ UNCHANGED <<cookie, key, starting, replies, signedIn>>

\* Mutant: the key is read without being locked and survives its reading.
ConsumedKeyKept(s) == key

\* consume_oauth_state deletes the key it read under lock, expired or not,
ConsumedKey(s) == IF Stored(s) THEN [key EXCEPT ![s] = "deleted"] ELSE key

\* and the sign-in goes on when the provider answers; the reply clears the cookie.
FinishCallback(s) ==
    /\ s \in callback
    /\ callback' = callback \ {s}
    /\ key' = ConsumedKey(s)
    /\ \/ signedIn' = [signedIn EXCEPT ![s] = @ + (IF key[s] = "issued" THEN 1 ELSE 0)]
       \/ signedIn' = signedIn
    /\ replies' = replies \cup {{}}
    /\ UNCHANGED <<cookie, starting>>

SignInNext ==
    \/ \E s \in States :
          \/ StartSignIn(s)
          \/ Expire(s)
          \/ ReceiveCallback(s)
          \/ FinishCallback(s)
    \/ \E r \in starting, purged \in SUBSET {s \in States : key[s] = "expired"} :
          IssueState(r, purged)
    \/ \E markers \in replies : Receive(markers)

SignInSpec == SignInInit /\ [][SignInNext]_signInVars

-----------------------------------------------------------------------------
\* A state lets one sign-in through at most, whatever the order in which the
\* browser's tabs start and finish and see each other's cookies (IDN-1).
StateUsedOnce == \A s \in States : signedIn[s] <= 1
=============================================================================
