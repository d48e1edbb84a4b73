--------------------------- MODULE Notifications ---------------------------
(***************************************************************************)
(* The delivery of notifications by the worker: one queue job per attempt, *)
(* a failure scheduling the next one, staff resending what died, and the   *)
(* hourly scan that turns deadlines into reminders.                        *)
(*                                                                         *)
(* All times are distances from now, so the clock runs without a bound.    *)
(***************************************************************************)
EXTENDS Integers, Sequences, FiniteSets

CONSTANTS
    Notices,       \* bound: the notifications that are ever queued
    Targets,       \* pairs of a job and a student with a deadline to remind of
    RetryDelays,   \* RETRY_DELAYS, one wait for each retry
    MaxLeft,       \* bound: the longest distance to a deadline or an expiry
    Lead,          \* deadline_reminder_hours of the cycle policy
    Retention,     \* REMINDER_RETENTION_DAYS
    MaxCrashes     \* bound: how often the worker dies

ASSUME NotificationAssumption ==
    /\ RetryDelays \in Seq(Nat \ {0})
    /\ MaxLeft \in Nat /\ Lead \in 1..MaxLeft /\ Retention \in Nat \ {0}
    /\ MaxCrashes \in Nat
    /\ IsFiniteSet(Notices)

VARIABLES
    log,         \* notice -> its notification_log row ("none": no row yet)
    due,         \* notice -> distance to the expires_at of its context
    jobs,        \* queued deliver_notification jobs
    running,     \* jobs a worker has taken up
    template,    \* enabled flag of the template row of each scope
    left,        \* target -> distance to the application deadline, 0 for passed
    open,        \* targets whose student is eligible and has not applied
    marks,       \* reminder_sends: target -> age of its marker
    scans,       \* ages of the periodic reminder jobs not yet run
    crashes,
    confirmed,   \* notice -> how often the provider said it took the message
    reminds,     \* reminder -> its target and its age
    stranded     \* notices whose job is gone although they are unsettled

deliveryVars == <<log, due, jobs, running, confirmed, stranded>>
reminderVars == <<left, open, marks, scans, reminds>>
noticeVars == <<deliveryVars, reminderVars, template, crashes>>

MaxAttempts == Len(RetryDelays) + 1     \* MAX_DELIVERY_ATTEMPTS
Never == MaxLeft + 1                    \* a context without expires_at
NoMark == -1
Scopes == {"global", "cycle"}
Settled == {"sent", "dead"}
DeliveryStatuses == {"none", "queued", "failed"} \cup Settled

\* resolve_template: the row of the cycle if there is one, else the global row.
TemplateEnabled == IF template["cycle"] = "absent" THEN template["global"] = "on"
                   ELSE template["cycle"] = "on"

Expired(n) == due[n] = 0
Waiting(n) == {j \in jobs : j.note = n}
InHand(n) == {r \in running : r.note = n}
Unused == {n \in Notices : log[n].status = "none" /\ Waiting(n) = {} /\ InHand(n) = {}
                           /\ n \notin stranded}

NoticeTypeOK ==
    /\ log \in [Notices -> [status : DeliveryStatuses, attempts : 0..MaxAttempts]]
    /\ due \in [Notices -> 0..Never]
    /\ jobs \subseteq [note : Notices, wait : Nat]
    /\ running \subseteq [note : Notices, stage : {"sending", "accepted", "refused"}]
    /\ template \in [Scopes -> {"absent", "on", "off"}]
    /\ left \in [Targets -> 0..MaxLeft]
    /\ open \subseteq Targets
    /\ marks \in [Targets -> NoMark..Retention]
    /\ scans \subseteq 0..Lead
    /\ reminds \subseteq [note : Notices, target : Targets, age : 0..Retention]
    /\ crashes \in 0..MaxCrashes
    /\ confirmed \in [Notices -> Nat]
    /\ stranded \subseteq Notices

NoticeInit ==
    /\ log = [n \in Notices |-> [status |-> "none", attempts |-> 0]]
    /\ due = [n \in Notices |-> Never]
    /\ jobs = {} /\ running = {} /\ scans = {} /\ stranded = {} /\ reminds = {}
    /\ template = [s \in Scopes |-> IF s = "global" THEN "on" ELSE "absent"]
    /\ left \in [Targets -> 0..MaxLeft]
    /\ open = Targets
    /\ marks = [t \in Targets |-> NoMark]
    /\ crashes = 0
    /\ confirmed = [n \in Notices |-> 0]

-----------------------------------------------------------------------------
\* A command's plan defers deliver_notification: the job commits with it, and
\* the notice takes its identity from the job.
QueueNotice(n) ==
    /\ n \in Unused
    /\ jobs' = jobs \cup {[note |-> n, wait |-> 0]}
    /\ UNCHANGED <<log, due, running, confirmed, stranded, reminderVars, template, crashes>>

\* `pending` of _decide_delivery.
MaySend(n) ==
    /\ TemplateEnabled
    /\ log[n].status \notin Settled
    /\ log[n].attempts < MaxAttempts

\* deliver_notification, the command that opens an attempt: nothing to send,
\* too late, or a log row and a message for the provider.
BeginDelivery(j) ==
    LET n == j.note IN
    /\ j.wait = 0
    /\ jobs' = jobs \ {j}
    /\ \/ /\ ~MaySend(n)
          /\ stranded' = stranded \cup (IF log[n].status \in Settled THEN {} ELSE {n})
          /\ UNCHANGED <<log, running>>
       \/ /\ MaySend(n) /\ Expired(n)
          /\ log' = [log EXCEPT ![n].status = "dead"]
          /\ UNCHANGED <<running, stranded>>
       \/ /\ MaySend(n) /\ ~Expired(n)
          /\ log' = [log EXCEPT ![n].status = IF @ = "none" THEN "queued" ELSE @]
          /\ running' = running \cup {[note |-> n, stage |-> "sending"]}
          /\ UNCHANGED stranded
    /\ UNCHANGED <<due, confirmed, reminderVars, template, crashes>>

\* EmailBackend.send returned, or raised: an error is data for the next command.
Send(r, stage) ==
    /\ r.stage = "sending"
    /\ running' = (running \ {r}) \cup {[r EXCEPT !.stage = stage]}
    /\ confirmed' = [confirmed EXCEPT ![r.note] = @ + IF stage = "accepted" THEN 1 ELSE 0]
    /\ UNCHANGED <<log, due, jobs, stranded, reminderVars, template, crashes>>

\* Mutant: the failure is recorded and its retry forgotten.
AfterFailureNoRetry(n, attempts) == <<IF attempts >= MaxAttempts THEN "dead" ELSE "failed", {}>>

\* The status a failed attempt leaves, and the retry deferred with it.
AfterFailure(n, attempts) ==
    IF attempts >= MaxAttempts THEN <<"dead", {}>>
    ELSE IF due[n] # Never /\ RetryDelays[attempts] >= due[n] THEN <<"dead", {}>>
    ELSE <<"failed", {[note |-> n, wait |-> RetryDelays[attempts]]}>>

\* record_notification_attempt.
RecordAttempt(r) ==
    LET n == r.note
        attempts == log[n].attempts + 1
        next == IF r.stage = "accepted" THEN <<"sent", {}>> ELSE AfterFailure(n, attempts)
    IN /\ r.stage # "sending"
       /\ running' = running \ {r}
       /\ \/ /\ log[n].status \in Settled
             /\ UNCHANGED <<log, jobs>>
          \/ /\ log[n].status \notin Settled
             /\ log' = [log EXCEPT ![n] = [status |-> next[1], attempts |-> attempts]]
             /\ jobs' = jobs \cup next[2]
       /\ UNCHANGED <<due, confirmed, stranded, reminderVars, template, crashes>>

\* The worker dies with a job in hand.  Nothing in the repository takes such a
\* job up again: the task has no retry strategy.
Crash(r) ==
    /\ crashes < MaxCrashes
    /\ crashes' = crashes + 1
    /\ running' = running \ {r}
    /\ stranded' = stranded \cup {r.note}
    /\ UNCHANGED <<log, due, jobs, confirmed, reminderVars, template>>

\* Mutant: whatever has not been sent may be resent.
ResendableUnsent(n) ==
    /\ log[n].status \in {"queued", "failed", "dead"}
    /\ TemplateEnabled /\ ~Expired(n)

\* The refusals of _decide_resend.
Resendable(n) == log[n].status = "dead" /\ TemplateEnabled /\ ~Expired(n)

\* resend_notification.
Resend(n) ==
    /\ Resendable(n)
    /\ log' = [log EXCEPT ![n] = [status |-> "queued", attempts |-> 0]]
    /\ jobs' = jobs \cup {[note |-> n, wait |-> 0]}
    /\ UNCHANGED <<due, running, confirmed, stranded, reminderVars, template, crashes>>

\* update_template: an existing row is edited, a missing one of a cycle created.
UpdateTemplate(scope, enabled) ==
    /\ template[scope] # enabled
    /\ template' = [template EXCEPT ![scope] = enabled]
    /\ UNCHANGED <<deliveryVars, reminderVars, crashes>>

-----------------------------------------------------------------------------
\* Mutant: the scan trusts its window and never looks for a marker.
RemindableUnmarked(t, age) == left[t] > 0 /\ left[t] + age = Lead /\ t \in open

\* _load_deadline_reminders: the deadline lay `Lead` after the hour the scan
\* was queued for, the student could apply this instant, no marker is there.
Remindable(t, age) ==
    /\ left[t] > 0 /\ left[t] + age = Lead
    /\ t \in open
    /\ marks[t] = NoMark

\* send_deadline_reminders: markers and delivery jobs in one transaction.
SendDeadlineReminders(age) ==
    LET hits == {t \in Targets : Remindable(t, age)} IN
    /\ scans' = scans \ {age}
    /\ marks' = [t \in Targets |-> IF t \in hits THEN 0 ELSE marks[t]]
    /\ \E note \in [hits -> Unused] :
         /\ \A s, t \in hits : note[s] = note[t] => s = t
         /\ jobs' = jobs \cup {[note |-> note[t], wait |-> 0] : t \in hits}
         /\ due' = [n \in Notices |-> IF \E t \in hits : note[t] = n
                                      THEN left[CHOOSE t \in hits : note[t] = n] ELSE due[n]]
         /\ reminds' = reminds \cup {[note |-> note[t], target |-> t, age |-> 0] : t \in hits}
    /\ UNCHANGED <<log, running, confirmed, stranded, left, open, template, crashes>>

\* The student applies, or stops being eligible, or becomes so again.
ChangeInterest(t) ==
    /\ open' = IF t \in open THEN open \ {t} ELSE open \cup {t}
    /\ UNCHANGED <<deliveryVars, left, marks, scans, reminds, template, crashes>>

\* update_job_basics moves the application deadline.
MoveDeadline(t, d) ==
    /\ d # left[t]
    /\ left' = [left EXCEPT ![t] = d]
    /\ UNCHANGED <<deliveryVars, open, marks, scans, reminds, template, crashes>>

\* The purge of run_consistency_checker, which takes a bounded number of rows.
PurgeMarks(old) ==
    /\ old \subseteq {t \in Targets : marks[t] = Retention}
    /\ marks' = [t \in Targets |-> IF t \in old THEN NoMark ELSE marks[t]]
    /\ UNCHANGED <<deliveryVars, left, open, scans, reminds, template, crashes>>

\* An hour passes: every distance shrinks, and the cron queues its next scan.
\* A scan `Lead` hours old can find nothing any more.
Closer(d) == IF d = 0 THEN 0 ELSE d - 1
Tick ==
    /\ due' = [n \in Notices |-> IF due[n] = Never THEN Never ELSE Closer(due[n])]
    /\ jobs' = {[j EXCEPT !.wait = Closer(@)] : j \in jobs}
    /\ left' = [t \in Targets |-> Closer(left[t])]
    /\ marks' = [t \in Targets |-> IF marks[t] \in {NoMark, Retention} THEN marks[t]
                                   ELSE marks[t] + 1]
    /\ reminds' = {[m EXCEPT !.age = IF @ = Retention THEN @ ELSE @ + 1] : m \in reminds}
    /\ scans' = {a + 1 : a \in {s \in scans : s + 1 < Lead}} \cup {0}
    /\ UNCHANGED <<log, running, confirmed, stranded, open, template, crashes>>

-----------------------------------------------------------------------------
WorkOn(n) ==
    \/ \E j \in Waiting(n) : BeginDelivery(j)
    \/ \E r \in InHand(n) : \/ RecordAttempt(r)
                            \/ \E stage \in {"accepted", "refused"} : Send(r, stage)

StaffStep ==
    \/ \E n \in Notices : QueueNotice(n) \/ Resend(n)
    \/ \E scope \in Scopes, enabled \in {"on", "off"} : UpdateTemplate(scope, enabled)
    \/ \E t \in Targets : ChangeInterest(t) \/ \E d \in 0..MaxLeft : MoveDeadline(t, d)

NoticeNext ==
    \/ StaffStep
    \/ \E n \in Notices : WorkOn(n)
    \/ \E r \in running : Crash(r)
    \/ \E age \in scans : SendDeadlineReminders(age)
    \/ \E old \in SUBSET Targets : PurgeMarks(old)
    \/ Tick

NoticeSpec == NoticeInit /\ [][NoticeNext]_noticeVars

\* The clock runs, and the worker takes due jobs oldest first, so it passes
\* none over for ever, and finishes what it took up unless it dies.
FairNoticeSpec ==
    NoticeSpec /\ WF_noticeVars(Tick) /\ \A n \in Notices : WF_noticeVars(WorkOn(n))

-----------------------------------------------------------------------------
\* NTF: an unsettled notice has exactly one job, waiting or in hand, and a
\* settled one has none, whatever retries, resends, expiries and template edits
\* it went through.  A worker that died, or a template switched off, strands it.
OneChainOfJobs ==
    \A n \in Notices \ (stranded \cup Unused) :
        Cardinality(Waiting(n)) + Cardinality(InHand(n))
          = IF log[n].status \in Settled THEN 0 ELSE 1

\* ARCHITECTURE "at least once": a message the provider confirmed is never
\* handed to it again; only an unanswered call may be repeated.
ConfirmedOnce == \A n \in Notices : confirmed[n] <= 1

\* NTF: within the retention of its marker a target is reminded at most once,
\* however often staff move its deadline into the window of another scan.
RemindedOnce ==
    \A m, n \in reminds :
        m.note # n.note /\ m.target = n.target => m.age = Retention \/ n.age = Retention

\* Every notice is sent or dead in the end, as long as its job is not lost.
EveryNoticeSettles ==
    \A n \in Notices :
        (Waiting(n) # {} \/ InHand(n) # {}) ~> (log[n].status \in Settled \/ n \in stranded)
=============================================================================
