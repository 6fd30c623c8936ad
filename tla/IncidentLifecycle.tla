------------------------- MODULE IncidentLifecycle -------------------------
(***************************************************************************)
(* The life of an incident row: the alert dispatcher creates it, the       *)
(* escalation timer raises it when nobody reviews it in time, and review   *)
(* and manual-escalation requests of the API decide it.                    *)
(*                                                                         *)
(* Three kinds of asyncio tasks touch the same row, each through a         *)
(* database session of its own: they read it, suspend, and write it later. *)
(* An action below is the code between two suspension points.  The         *)
(* database is PostgreSQL at READ COMMITTED behind SQLAlchemy's unit of    *)
(* work (operator Merged): an UPDATE carries only the columns whose value  *)
(* differs from the one the session read.                                  *)
(*                                                                         *)
(* A definition named Bug... is a defective variant of the definition that *)
(* follows it.  No specification uses it: it says which mistake a property *)
(* is meant to catch.                                                      *)
(***************************************************************************)
EXTENDS Naturals

CONSTANTS
    Ids,          \* incident ids the database may allocate
    Keys,         \* dedup keys: (camera, event type) pairs
    Requests,     \* API requests (each is made at most once)
    None,         \* "no id", "no key"
    MaxFaults     \* bound on failing database calls and restarts of the worker

ASSUME ConstantsAssumption ==
    /\ None \notin Ids \cup Keys
    /\ MaxFaults \in Nat

-----------------------------------------------------------------------------
(* Columns of an incident row. *)

Severities == {"LOW", "MEDIUM", "HIGH"}
Unreviewed == {"PENDING_REVIEW", "ACTIVE_REVIEW"}
Closed     == {"RESOLVED", "FALSE_POSITIVE"}
Statuses   == Unreviewed \cup Closed \cup {"EMERGENCY"}

ReviewActions  == {"CONFIRM", "DISMISS", "ESCALATE", "FALSE_POSITIVE"}
LockingActions == {"CONFIRM", "ESCALATE"}

\* The four review actions, and the manual escalation of an alert.
RequestActions == ReviewActions \cup {"MANUAL"}

\* "ABSENT" is the status of an id that has no row yet.
Row == [severity : Severities, status : Statuses \cup {"ABSENT"},
        locked : BOOLEAN, review : ReviewActions \cup {"NONE"}]

NoRow == [severity |-> "LOW", status |-> "ABSENT",
          locked |-> FALSE, review |-> "NONE"]

InitialStatus == [LOW |-> "PENDING_REVIEW", MEDIUM |-> "ACTIVE_REVIEW",
                  HIGH |-> "EMERGENCY"]

StatusOf == [CONFIRM |-> "EMERGENCY", ESCALATE |-> "EMERGENCY",
             DISMISS |-> "RESOLVED", FALSE_POSITIVE |-> "FALSE_POSITIVE"]

NewRow(sev, lock) == [severity |-> sev, status |-> InitialStatus[sev],
                      locked |-> lock, review |-> "NONE"]

\* Outbound effects, and the audit rows, that a handler leaves behind.
Effects == {"clip", "clip_locked", "notify", "cooldown", "INCIDENT_CREATED",
            "ALERT_SEVERITY_CHANGED", "INCIDENT_RESOLVED", "emergency",
            "ml_export"}
AuditActions == {"DISPATCHED", "SYSTEM_AUTO_ESCALATED", "INCIDENT_REVIEWED",
                 "ALERT_ESCALATED"}

-----------------------------------------------------------------------------
VARIABLES
    incidents,   \* table incidents: id -> row
    rowsOf,      \* columns camera_id, event_type: key -> ids of its rows
    alerts,      \* table alerts: id -> [auto, manual], number of rows
    audit,       \* table audit_log: set of <<action, id>>
    active,      \* dispatcher: keys in _active_incidents
    disp,        \* dispatcher: the message being handled
    registry,    \* timer: ids in _registry
    overdue,     \* timer: registered ids whose timeout has passed
    timer,       \* timer: the pass over the overdue entries
    req,         \* API requests
    sent,        \* outbound effects so far: set of <<effect, id>>
    faults,
    run,         \* history: rows persisted by the running worker
    forgotten    \* history: ids the worker stopped tracking unescalated

database == <<incidents, rowsOf, alerts, audit>>
worker   == <<active, disp, registry, overdue, timer>>
history  == <<run, forgotten>>
vars     == <<database, worker, req, sent, faults, history>>

IdleDispatcher == [pc |-> "idle", key |-> None, severity |-> "LOW", id |-> None]
IdleTimer == [pc |-> "idle", todo |-> {}, id |-> None, snap |-> NoRow]
NewRequest == [pc |-> "new", action |-> "DISMISS", id |-> None, snap |-> NoRow]

TypeOK ==
    /\ incidents \in [Ids -> Row]
    /\ rowsOf \in [Keys -> SUBSET Ids]
    /\ alerts \in [Ids -> [auto : Nat, manual : Nat]]
    /\ audit \subseteq AuditActions \X Ids
    /\ active \subseteq Keys
    /\ disp \in [pc : {"idle", "persist", "audit", "push"},
                 key : Keys \cup {None}, severity : Severities,
                 id : Ids \cup {None}]
    /\ registry \subseteq Ids
    /\ overdue \subseteq registry
    /\ timer \in [pc : {"idle", "commit", "push"}, todo : SUBSET Ids,
                  id : Ids \cup {None}, snap : Row]
    /\ req \in [Requests -> [pc : {"new", "read", "flushed", "done"},
                             action : RequestActions,
                             id : Ids \cup {None}, snap : Row]]
    /\ sent \subseteq Effects \X Ids
    /\ faults \in 0..MaxFaults
    /\ run \subseteq Ids
    /\ forgotten \subseteq Ids

Init ==
    /\ incidents = [i \in Ids |-> NoRow]
    /\ rowsOf = [k \in Keys |-> {}]
    /\ alerts = [i \in Ids |-> [auto |-> 0, manual |-> 0]]
    /\ audit = {}
    /\ active = {}
    /\ disp = IdleDispatcher
    /\ registry = {}
    /\ overdue = {}
    /\ timer = IdleTimer
    /\ req = [r \in Requests |-> NewRequest]
    /\ sent = {}
    /\ faults = 0
    /\ run = {}
    /\ forgotten = {}

-----------------------------------------------------------------------------
(* The database. *)

Persisted(i) == incidents[i].status # "ABSENT"

\* What an UPDATE leaves in a row that now holds `current`, when the session
\* read `snap` and its handler set the columns to those of `target`.
Column(read, set, current) == IF set # read THEN set ELSE current

BugMergedWholeRow(snap, target, current) == target

BugMergedIfUnchanged(snap, target, current) ==
    IF current = snap THEN target ELSE current

Merged(snap, target, current) ==
    [severity |-> Column(snap.severity, target.severity, current.severity),
     status   |-> Column(snap.status, target.status, current.status),
     locked   |-> Column(snap.locked, target.locked, current.locked),
     review   |-> Column(snap.review, target.review, current.review)]

BugDecidedActionAsStatus(action, row) ==
    [row EXCEPT !.status = action, !.review = IF action = "MANUAL" THEN @ ELSE action]

BugDecidedLocksConfirmOnly(action, row) ==
    IF action = "MANUAL"
    THEN [row EXCEPT !.severity = "HIGH", !.locked = TRUE]
    ELSE [row EXCEPT !.status = StatusOf[action], !.review = action,
                     !.locked = @ \/ action = "CONFIRM"]

\* The row as the handler of a request leaves it in its session.
Decided(action, row) ==
    IF action = "MANUAL"
    THEN [row EXCEPT !.severity = "HIGH", !.locked = TRUE]
    ELSE [row EXCEPT !.status = StatusOf[action], !.review = action,
                     !.locked = @ \/ action \in LockingActions]

\* The row as the escalation timer leaves it in its session.
Escalated(row) ==
    [row EXCEPT !.severity = "HIGH", !.status = "EMERGENCY", !.locked = TRUE]

\* A flushed request holds the row lock of its incident until it commits.  A
\* review always updates the row (reviewed_at); a manual escalation updates it
\* only when a column changes.
HoldsRowLock(r, i) ==
    /\ req[r].pc = "flushed"
    /\ req[r].id = i
    /\ \/ req[r].action # "MANUAL"
       \/ Decided("MANUAL", req[r].snap) # req[r].snap

RowFree(i) == \A r \in Requests : ~HoldsRowLock(r, i)

InsertRow(i, key, row) ==
    /\ ~Persisted(i)
    /\ incidents' = [incidents EXCEPT ![i] = row]
    /\ rowsOf' = [rowsOf EXCEPT ![key] = @ \cup {i}]

Fault == faults < MaxFaults /\ faults' = faults + 1

-----------------------------------------------------------------------------
(* The alert dispatcher: one message at a time (bus.consume awaits dispatch). *)

BugDispatchAnyKey(k, sev) ==
    /\ disp.pc = "idle"
    /\ active' = active \cup {k}
    /\ disp' = [pc |-> "persist", key |-> k, severity |-> sev, id |-> None]
    /\ UNCHANGED <<database, registry, overdue, timer, req, sent, faults, history>>

\* dispatch, up to the first suspension.  A message whose key is registered
\* returns without a state change (duplicate), so only the others are steps.
DispatchNew(k, sev) ==
    /\ disp.pc = "idle"
    /\ k \notin active
    /\ active' = active \cup {k}
    /\ disp' = [pc |-> "persist", key |-> k, severity |-> sev, id |-> None]
    /\ UNCHANGED <<database, registry, overdue, timer, req, sent, faults, history>>

\* _persist_incident succeeds; the handler then schedules the clip, starts the
\* notifications and sets the cooldown without suspending.
PersistIncident(i) ==
    /\ disp.pc = "persist"
    /\ InsertRow(i, disp.key, NewRow(disp.severity, disp.severity = "HIGH"))
    /\ disp' = [disp EXCEPT !.pc = "audit", !.id = i]
    /\ sent' = sent \cup
         CASE disp.severity = "LOW"    -> {<<"clip", i>>}
           [] disp.severity = "MEDIUM" -> {<<"clip", i>>, <<"notify", i>>}
           [] disp.severity = "HIGH"   -> {<<"clip_locked", i>>, <<"notify", i>>,
                                           <<"cooldown", i>>}
    /\ run' = run \cup {i}
    /\ UNCHANGED <<alerts, audit, active, registry, overdue, timer, req, faults,
                   forgotten>>

\* _persist_incident raises before the commit, is caught, and returns None: the
\* handler stops, and the dedup key stays registered.
PersistFails ==
    /\ disp.pc = "persist"
    /\ Fault
    /\ disp' = IdleDispatcher
    /\ UNCHANGED <<database, active, registry, overdue, timer, req, sent,
                   history>>

\* The commit succeeds and db.refresh raises: the row exists, and the handler
\* still sees None.
RefreshFails(i) ==
    /\ disp.pc = "persist"
    /\ Fault
    /\ InsertRow(i, disp.key, NewRow(disp.severity, disp.severity = "HIGH"))
    /\ disp' = IdleDispatcher
    /\ run' = run \cup {i}
    /\ forgotten' = forgotten \cup {i}
    /\ UNCHANGED <<alerts, audit, active, registry, overdue, timer, req, sent>>

\* write_audit, which swallows its own failure.
AuditDispatch ==
    /\ disp.pc = "audit"
    /\ disp' = [disp EXCEPT !.pc = "push"]
    /\ \/ audit' = audit \cup {<<"DISPATCHED", disp.id>>} /\ UNCHANGED faults
       \/ Fault /\ UNCHANGED audit
    /\ UNCHANGED <<incidents, rowsOf, alerts, active, registry, overdue, timer,
                   req, sent, history>>

BugFinishUnregistered ==
    /\ disp.pc = "push"
    /\ sent' = sent \cup {<<"INCIDENT_CREATED", disp.id>>}
    /\ disp' = IdleDispatcher
    /\ UNCHANGED <<database, active, registry, overdue, timer, req, faults, history>>

\* _push_ws_event returns, and a MEDIUM incident is registered with the timer.
FinishDispatch ==
    /\ disp.pc = "push"
    /\ sent' = sent \cup {<<"INCIDENT_CREATED", disp.id>>}
    /\ registry' = IF disp.severity = "MEDIUM" THEN registry \cup {disp.id}
                                               ELSE registry
    /\ disp' = IdleDispatcher
    /\ UNCHANGED <<database, active, overdue, timer, req, faults, history>>

-----------------------------------------------------------------------------
(* The escalation timer. *)

\* The timeout of a registered incident passes (is_overdue).
BecomeOverdue(i) ==
    /\ i \in registry \ overdue
    /\ overdue' = overdue \cup {i}
    /\ UNCHANGED <<database, active, disp, registry, timer, req, sent, faults,
                   history>>

\* _check_overdue snapshots the overdue entries.
StartCheck ==
    /\ timer.pc = "idle"
    /\ timer.todo = {}
    /\ overdue # {}
    /\ timer' = [timer EXCEPT !.todo = overdue]
    /\ UNCHANGED <<database, active, disp, registry, overdue, req, sent, faults,
                   history>>

Deregister(i) == registry' = registry \ {i} /\ overdue' = overdue \ {i}

\* _escalate reads an incident that is still unreviewed.
EscalateRead(i) ==
    /\ timer.pc = "idle"
    /\ i \in timer.todo
    /\ incidents[i].status \in Unreviewed
    /\ timer' = [timer EXCEPT !.pc = "commit", !.id = i, !.snap = incidents[i]]
    /\ UNCHANGED <<database, active, disp, registry, overdue, req, sent, faults,
                   history>>

BugSkipKeepsEntry(i) ==
    /\ timer.pc = "idle"
    /\ i \in timer.todo
    /\ incidents[i].status \notin Unreviewed
    /\ Deregister(i)
    /\ UNCHANGED <<database, active, disp, timer, req, sent, faults, history>>

\* _escalate reads an incident that was reviewed, or is gone: early return.
EscalateSkip(i) ==
    /\ timer.pc = "idle"
    /\ i \in timer.todo
    /\ incidents[i].status \notin Unreviewed
    /\ timer' = [timer EXCEPT !.todo = @ \ {i}]
    /\ Deregister(i)
    /\ UNCHANGED <<database, active, disp, req, sent, faults, history>>

\* The commit of _escalate: it waits for the row lock, then writes the row, the
\* alert and the audit row in one transaction.
EscalationWrite(i) ==
    /\ timer.pc = "commit"
    /\ timer.id = i
    /\ RowFree(i)
    /\ incidents' = [incidents EXCEPT
                       ![i] = Merged(timer.snap, Escalated(timer.snap), @)]
    /\ alerts' = [alerts EXCEPT ![i].auto = @ + 1]
    /\ audit' = audit \cup {<<"SYSTEM_AUTO_ESCALATED", i>>}
    /\ UNCHANGED rowsOf

BugCommitSilent(i) ==
    /\ EscalationWrite(i)
    /\ timer' = [IdleTimer EXCEPT !.todo = timer.todo \ {i}]
    /\ Deregister(i)
    /\ UNCHANGED <<active, disp, req, sent, faults, history>>

EscalateCommit(i) ==
    /\ EscalationWrite(i)
    /\ timer' = [timer EXCEPT !.pc = "push"]
    /\ UNCHANGED <<active, disp, registry, overdue, req, sent, faults, history>>

BugRetryCommit(i) ==
    /\ Fault
    /\ UNCHANGED <<worker, req, sent, history>>

\* A database error in _escalate is logged, and _check_overdue deregisters the
\* entry all the same.
GiveUp(i) ==
    /\ Fault
    /\ timer' = [IdleTimer EXCEPT !.todo = timer.todo \ {i}]
    /\ Deregister(i)
    /\ forgotten' = forgotten \cup {i}
    /\ UNCHANGED <<active, disp, req, sent, run>>

\* The SELECT raises, or the commit raises and nothing was written.
EscalateFails(i) ==
    /\ \/ timer.pc = "idle" /\ i \in timer.todo
       \/ timer.pc = "commit" /\ i = timer.id
    /\ GiveUp(i)
    /\ UNCHANGED database

\* The commit takes effect and its acknowledgement is lost: the incident is
\* escalated, and nothing is announced.
EscalateAckLost(i) == EscalationWrite(i) /\ GiveUp(i)

\* The dashboard push and the notifications, then deregister.
EscalatePush ==
    LET i == timer.id IN
    /\ timer.pc = "push"
    /\ sent' = sent \cup {<<"ALERT_SEVERITY_CHANGED", i>>, <<"emergency", i>>}
    /\ timer' = [IdleTimer EXCEPT !.todo = timer.todo \ {i}]
    /\ Deregister(i)
    /\ UNCHANGED <<database, active, disp, req, faults, history>>

-----------------------------------------------------------------------------
(* Requests of the API: submit_review_action and manual_escalate. *)

\* The SELECT of the handler.  A missing row, or a missing alert, is a 404.
RequestRead(r, i, action) ==
    /\ req[r].pc = "new"
    /\ Persisted(i)
    /\ action = "MANUAL" => alerts[i].auto + alerts[i].manual > 0
    /\ req' = [req EXCEPT ![r] = [pc |-> "read", action |-> action, id |-> i,
                                  snap |-> incidents[i]]]
    /\ UNCHANGED <<database, worker, sent, faults, history>>

BugFlushAudits(r) ==
    /\ req[r].pc = "read"
    /\ RowFree(req[r].id)
    /\ req' = [req EXCEPT ![r].pc = "flushed"]
    /\ audit' = audit \cup {<<"INCIDENT_REVIEWED", req[r].id>>}
    /\ UNCHANGED <<incidents, rowsOf, alerts, worker, sent, faults, history>>

\* db.flush takes the row lock; a review is then announced to the dashboards,
\* before the session of the request commits.
RequestFlush(r) ==
    /\ req[r].pc = "read"
    /\ req[r].action # "MANUAL" \/ Decided("MANUAL", req[r].snap) # req[r].snap
         => RowFree(req[r].id)
    /\ req' = [req EXCEPT ![r].pc = "flushed"]
    /\ sent' = IF req[r].action = "MANUAL" THEN sent
               ELSE sent \cup {<<"INCIDENT_RESOLVED", req[r].id>>}
    /\ UNCHANGED <<database, worker, faults, history>>

\* get_db_session commits after the handler; the background tasks of the
\* response follow.
RequestCommit(r) ==
    LET i == req[r].id
        action == req[r].action
    IN
    /\ req[r].pc = "flushed"
    /\ incidents' = [incidents EXCEPT
                       ![i] = Merged(req[r].snap, Decided(action, req[r].snap), @)]
    /\ IF action = "MANUAL"
       THEN /\ alerts' = [alerts EXCEPT ![i].manual = @ + 1]
            /\ audit' = audit \cup {<<"ALERT_ESCALATED", i>>}
       ELSE /\ audit' = audit \cup {<<"INCIDENT_REVIEWED", i>>}
            /\ UNCHANGED alerts
    /\ sent' = sent \cup
         {e \in {<<"emergency", i>>} : action = "ESCALATE"} \cup
         {e \in {<<"ml_export", i>>} : action \in LockingActions \cup {"FALSE_POSITIVE"}}
    /\ req' = [req EXCEPT ![r].pc = "done"]
    /\ UNCHANGED <<rowsOf, worker, faults, history>>

\* The handler, the broadcast or the commit raises: get_db_session rolls back.
RequestRollback(r) ==
    /\ req[r].pc \in {"read", "flushed"}
    /\ req' = [req EXCEPT ![r].pc = "done"]
    /\ UNCHANGED <<database, worker, sent, faults, history>>

-----------------------------------------------------------------------------
(* Restarts. *)

\* The alert_manager container restarts: everything it held was in memory.
RestartWorker ==
    /\ Fault
    /\ active' = {}
    /\ disp' = IdleDispatcher
    /\ registry' = {}
    /\ overdue' = {}
    /\ timer' = IdleTimer
    /\ run' = {}
    /\ forgotten' = forgotten \cup run
    /\ UNCHANGED <<database, req, sent>>

DispatcherStep ==
    \/ \E i \in Ids : PersistIncident(i)
    \/ PersistFails
    \/ \E i \in Ids : RefreshFails(i)
    \/ AuditDispatch
    \/ FinishDispatch

TimerStep ==
    \/ StartCheck
    \/ \E i \in Ids : EscalateRead(i)
    \/ \E i \in Ids : EscalateSkip(i)
    \/ \E i \in Ids : EscalateCommit(i)
    \/ \E i \in Ids : EscalateFails(i)
    \/ \E i \in Ids : EscalateAckLost(i)
    \/ EscalatePush

Next ==
    \/ \E k \in Keys, sev \in Severities : DispatchNew(k, sev)
    \/ DispatcherStep
    \/ \E i \in Ids : BecomeOverdue(i)
    \/ TimerStep
    \/ \E r \in Requests, i \in Ids, action \in RequestActions :
           RequestRead(r, i, action)
    \/ \E r \in Requests : RequestFlush(r) \/ RequestCommit(r) \/ RequestRollback(r)
    \/ RestartWorker

Spec == Init /\ [][Next]_vars

\* What the event loop guarantees: a task that can run is eventually run, time
\* passes, and a request that was read either commits or rolls back.  Nothing
\* is assumed of new messages, new requests, faults and restarts.
Fairness ==
    /\ WF_vars(DispatcherStep)
    /\ WF_vars(TimerStep)
    /\ \A i \in Ids : WF_vars(BecomeOverdue(i))
    /\ \A r \in Requests :
         WF_vars(RequestFlush(r) \/ RequestCommit(r) \/ RequestRollback(r))

FairSpec == Spec /\ Fairness

-----------------------------------------------------------------------------
(* Properties. *)

\* An incident in EMERGENCY, or whose last recorded decision confirms or
\* escalates it, is locked, whatever sessions wrote the row in between
\* (review.py "Lock evidence on CONFIRM or ESCALATE", escalation_timer.py).
DecisionsLock ==
    \A i \in Ids :
        incidents[i].status = "EMERGENCY" \/ incidents[i].review \in LockingActions
            => incidents[i].locked

\* An incident with an alert row was escalated: it is HIGH and locked, so a
\* manual escalation never writes over a concurrent decision.
AlertedIsHigh ==
    \A i \in Ids :
        alerts[i].auto + alerts[i].manual > 0
            => incidents[i].severity = "HIGH" /\ incidents[i].locked

\* No step releases a lock or takes HIGH back, even when it writes from a row it
\* read before another session locked or escalated it.
LockNeverReleased ==
    [][\A i \in Ids :
         /\ incidents[i].locked => incidents'[i].locked
         /\ incidents[i].severity = "HIGH" => incidents'[i].severity = "HIGH"]_vars

\* The timer escalates an incident at most once, over faults, lost
\* acknowledgements and restarts.
SingleAutoEscalation == \A i \in Ids : alerts[i].auto <= 1

\* One worker process persists at most one incident per (camera, event type).
OneIncidentPerKey ==
    \A k \in Keys : \A i, j \in rowsOf[k] \cap run : i = j

\* A MEDIUM incident that waits for its review is in the timer's registry, or
\* on its way there, unless a fault or a restart took it out.
NothingForgotten ==
    \A i \in Ids :
        incidents[i].status = "ACTIVE_REVIEW" =>
            \/ i \in registry \cup forgotten
            \/ disp.pc \in {"audit", "push"} /\ disp.id = i /\ disp.severity = "MEDIUM"

\* Whoever escalates also notifies: an incident the timer escalated has had its
\* emergency notification, or is about to, unless a fault or a restart cut in.
EscalationNotified ==
    \A i \in Ids :
        alerts[i].auto > 0 =>
            \/ <<"emergency", i>> \in sent
            \/ timer.pc = "push" /\ timer.id = i
            \/ i \in forgotten

\* The audit trail and the tables agree: an automatic escalation, a manual one
\* or a decision is in the rows exactly when it is in audit_log.
AuditMatchesRows ==
    \A i \in Ids :
        /\ (alerts[i].auto > 0)   <=> <<"SYSTEM_AUTO_ESCALATED", i>> \in audit
        /\ (alerts[i].manual > 0) <=> <<"ALERT_ESCALATED", i>> \in audit
        /\ (incidents[i].review # "NONE") <=> <<"INCIDENT_REVIEWED", i>> \in audit

\* A committed decision is the status of the row afterwards, except when the
\* handler read that very status and so did not write it.
ReviewTakesEffect ==
    [][\A r \in Requests :
         /\ req[r].pc = "flushed"
         /\ req[r].action # "MANUAL"
         /\ audit' # audit \/ incidents' # incidents
         /\ req'[r].pc = "done"
         => \/ incidents'[req[r].id].status = StatusOf[req[r].action]
            \/ req[r].snap.status = StatusOf[req[r].action]]_vars

\* Without faults and restarts, every incident in ACTIVE_REVIEW is eventually
\* reviewed or escalated.
EventuallyDecided ==
    \A i \in Ids : incidents[i].status = "ACTIVE_REVIEW"
                       ~> incidents[i].status # "ACTIVE_REVIEW"

\* Without faults and restarts, every escalation reaches the dashboards and
\* the notification channels.
EscalationAnnounced ==
    \A i \in Ids :
        alerts[i].auto > 0 ~>
            {<<"ALERT_SEVERITY_CHANGED", i>>, <<"emergency", i>>} \subseteq sent

\* escalation_timer.py, lines 4-6: a MEDIUM incident registered with the timer
\* and not reviewed in time "is automatically escalated to HIGH".
RegisteredEventuallyDecided ==
    \A i \in Ids : i \in registry ~> incidents[i].status # "ACTIVE_REVIEW"

\* escalation_timer.py, line 141: "Only escalate if still unreviewed".
OnlyUnreviewedEscalated ==
    [][\A i \in Ids : alerts'[i].auto > alerts[i].auto
                          => incidents[i].review = "NONE"]_vars

\* alert_dispatcher.py, line 74: a suppressed message "is a continuation of an
\* already-active" incident, so a registered key has a row that is not closed.
SuppressedHasOpenIncident ==
    \A k \in active :
        \/ disp.pc = "persist" /\ disp.key = k
        \/ \E i \in rowsOf[k] : incidents[i].status \notin Closed
=============================================================================
