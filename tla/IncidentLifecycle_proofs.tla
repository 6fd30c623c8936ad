--------------------- MODULE IncidentLifecycle_proofs ---------------------
(* Theorems about IncidentLifecycle, for every value of its constants. *)
EXTENDS IncidentLifecycle, TLAPS

-----------------------------------------------------------------------------
(* What the unit of work writes is a row again. *)

LEMMA MergedType ==
    ASSUME NEW s \in Row, NEW t \in Row, NEW c \in Row
    PROVE  Merged(s, t, c) \in Row
BY DEF Merged, Column, Row

LEMMA StatusOfType == \A a \in ReviewActions : StatusOf[a] \in Statuses
BY DEF StatusOf, ReviewActions, Statuses, Closed

LEMMA DecidedType ==
    ASSUME NEW a \in RequestActions, NEW s \in Row
    PROVE  Decided(a, s) \in Row
<1>1. CASE a = "MANUAL"
  BY <1>1 DEF Decided, Row, Severities
<1>2. CASE a # "MANUAL"
  <2>1. a \in ReviewActions
    BY <1>2 DEF RequestActions
  <2>2. StatusOf[a] \in Statuses \cup {"ABSENT"}
    BY <2>1, StatusOfType
  <2>3. (s.locked \/ a \in LockingActions) \in BOOLEAN
    OBVIOUS
  <2> QED BY <1>2, <2>1, <2>2, <2>3 DEF Decided, Row
<1> QED BY <1>1, <1>2

LEMMA EscalatedType ==
    ASSUME NEW s \in Row
    PROVE  Escalated(s) \in Row
BY DEF Escalated, Row, Severities, Statuses

LEMMA NewRowType ==
    ASSUME NEW sev \in Severities, NEW lock \in BOOLEAN
    PROVE  NewRow(sev, lock) \in Row
BY DEF NewRow, Row, Severities, InitialStatus, Statuses, Unreviewed

-----------------------------------------------------------------------------
(* Type correctness.  TypeOK is not inductive: a handler writes the row of the *)
(* id it carries, so that id has to be one from the moment it is read.         *)

Carried ==
    /\ disp.pc = "persist" => disp.key \in Keys
    /\ disp.pc \in {"audit", "push"} => disp.id \in Ids
    /\ timer.pc # "idle" => timer.id \in Ids
    /\ \A r \in Requests : req[r].pc \in {"read", "flushed"} => req[r].id \in Ids

Typed == TypeOK /\ Carried

LEMMA TypedInit == Init => Typed
BY ConstantsAssumption DEF Init, Typed, TypeOK, Carried, IdleDispatcher,
   IdleTimer, NewRequest, NoRow, Row, Severities, Statuses, RequestActions,
   ReviewActions

LEMMA FaultType == ASSUME TypeOK, Fault PROVE faults' \in 0..MaxFaults
BY ConstantsAssumption DEF TypeOK, Fault

LEMMA IdleTypes ==
    ASSUME TypeOK
    PROVE  /\ IdleDispatcher \in [pc : {"idle", "persist", "audit", "push"},
                                  key : Keys \cup {None}, severity : Severities,
                                  id : Ids \cup {None}]
           /\ IdleDispatcher.pc = "idle"
           /\ \A todo \in SUBSET Ids :
                /\ [IdleTimer EXCEPT !.todo = todo]
                     \in [pc : {"idle", "commit", "push"}, todo : SUBSET Ids,
                          id : Ids \cup {None}, snap : Row]
                /\ [IdleTimer EXCEPT !.todo = todo].pc = "idle"
BY DEF IdleDispatcher, IdleTimer, NoRow, Row, Severities, Statuses

LEMMA DispatcherTyped ==
    ASSUME Typed,
           \/ \E k \in Keys, sev \in Severities : DispatchNew(k, sev)
           \/ DispatcherStep
    PROVE  Typed'
<1> USE DEF Typed, TypeOK, Carried, database, worker, history
<1>1. ASSUME NEW k \in Keys, NEW sev \in Severities, DispatchNew(k, sev)
      PROVE  Typed'
  BY <1>1 DEF DispatchNew
<1>2. ASSUME NEW i \in Ids, PersistIncident(i)
      PROVE  Typed'
  <2>1. NewRow(disp.severity, disp.severity = "HIGH") \in Row
    BY NewRowType
  <2>2. sent' \subseteq Effects \X Ids
    BY <1>2 DEF PersistIncident, Effects, Severities
  <2> QED BY <1>2, <2>1, <2>2 DEF PersistIncident, InsertRow
<1>3. CASE PersistFails
  BY <1>3, FaultType, IdleTypes DEF PersistFails
<1>4. ASSUME NEW i \in Ids, RefreshFails(i)
      PROVE  Typed'
  <2>1. NewRow(disp.severity, disp.severity = "HIGH") \in Row
    BY NewRowType
  <2> QED BY <1>4, <2>1, FaultType, IdleTypes DEF RefreshFails, InsertRow
<1>5. CASE AuditDispatch
  <2>1. audit' \subseteq AuditActions \X Ids /\ faults' \in 0..MaxFaults
    BY <1>5, FaultType DEF AuditDispatch, AuditActions
  <2> QED BY <1>5, <2>1 DEF AuditDispatch
<1>6. CASE FinishDispatch
  <2>1. sent' \subseteq Effects \X Ids
    BY <1>6 DEF FinishDispatch, Effects
  <2> QED BY <1>6, <2>1, IdleTypes DEF FinishDispatch
<1> QED BY <1>1, <1>2, <1>3, <1>4, <1>5, <1>6 DEF DispatcherStep

LEMMA EscalationWriteTyped ==
    ASSUME Typed, NEW i \in Ids, EscalationWrite(i)
    PROVE  /\ incidents' \in [Ids -> Row]
           /\ alerts' \in [Ids -> [auto : Nat, manual : Nat]]
           /\ audit' \subseteq AuditActions \X Ids
<1> USE DEF Typed, TypeOK
<1>1. timer.snap \in Row /\ Escalated(timer.snap) \in Row
  BY EscalatedType
<1>2. Merged(timer.snap, Escalated(timer.snap), incidents[i]) \in Row
  BY <1>1, MergedType
<1> QED BY <1>2 DEF EscalationWrite, AuditActions

LEMMA GiveUpTyped ==
    ASSUME Typed, NEW i \in Ids, GiveUp(i),
           incidents' \in [Ids -> Row],
           alerts' \in [Ids -> [auto : Nat, manual : Nat]],
           audit' \subseteq AuditActions \X Ids,
           UNCHANGED rowsOf
    PROVE  Typed'
<1>1. timer.todo \ {i} \in SUBSET Ids
  BY DEF Typed, TypeOK
<1> QED BY <1>1, FaultType, IdleTypes
        DEF GiveUp, Deregister, Typed, TypeOK, Carried

LEMMA TimerTyped ==
    ASSUME Typed, (\E i \in Ids : BecomeOverdue(i)) \/ TimerStep
    PROVE  Typed'
<1> USE DEF Typed, TypeOK, Carried, database, worker, history
<1>1. ASSUME NEW i \in Ids, BecomeOverdue(i)
      PROVE  Typed'
  BY <1>1 DEF BecomeOverdue
<1>2. CASE StartCheck
  BY <1>2 DEF StartCheck
<1>3. ASSUME NEW i \in Ids, EscalateRead(i)
      PROVE  Typed'
  BY <1>3 DEF EscalateRead
<1>4. ASSUME NEW i \in Ids, EscalateSkip(i)
      PROVE  Typed'
  BY <1>4 DEF EscalateSkip, Deregister
<1>5. ASSUME NEW i \in Ids, EscalateCommit(i)
      PROVE  Typed'
  <2>1. EscalationWrite(i)
    BY <1>5 DEF EscalateCommit
  <2> QED BY <1>5, <2>1, EscalationWriteTyped DEF EscalateCommit, EscalationWrite
<1>6. ASSUME NEW i \in Ids, EscalateFails(i)
      PROVE  Typed'
  BY <1>6, GiveUpTyped DEF EscalateFails
<1>7. ASSUME NEW i \in Ids, EscalateAckLost(i)
      PROVE  Typed'
  <2>1. EscalationWrite(i) /\ GiveUp(i)
    BY <1>7 DEF EscalateAckLost
  <2> QED BY <2>1, EscalationWriteTyped, GiveUpTyped DEF EscalationWrite
<1>8. CASE EscalatePush
  <2>1. sent' \subseteq Effects \X Ids
    BY <1>8 DEF EscalatePush, Effects
  <2>2. timer.todo \ {timer.id} \in SUBSET Ids
    OBVIOUS
  <2> QED BY <1>8, <2>1, <2>2, IdleTypes DEF EscalatePush, Deregister
<1> QED BY <1>1, <1>2, <1>3, <1>4, <1>5, <1>6, <1>7, <1>8 DEF TimerStep

LEMMA RequestTyped ==
    ASSUME Typed, NEW r \in Requests,
           \/ \E i \in Ids, action \in RequestActions : RequestRead(r, i, action)
           \/ RequestFlush(r) \/ RequestCommit(r) \/ RequestRollback(r)
    PROVE  Typed'
<1> USE DEF Typed, TypeOK, Carried, database, worker, history
<1>1. ASSUME NEW i \in Ids, NEW action \in RequestActions, RequestRead(r, i, action)
      PROVE  Typed'
  BY <1>1 DEF RequestRead
<1>2. CASE RequestFlush(r)
  <2>1. sent' \subseteq Effects \X Ids
    BY <1>2 DEF RequestFlush, Effects
  <2> QED BY <1>2, <2>1 DEF RequestFlush
<1>3. CASE RequestCommit(r)
  <2> DEFINE decided == Decided(req[r].action, req[r].snap)
  <2>1. req[r].id \in Ids /\ req[r].snap \in Row /\ req[r].action \in RequestActions
    BY <1>3 DEF RequestCommit
  <2>2. decided \in Row
    BY <2>1, DecidedType
  <2>3. Merged(req[r].snap, decided, incidents[req[r].id]) \in Row
    BY <2>1, <2>2, MergedType
  <2>4. incidents' \in [Ids -> Row]
    BY <1>3, <2>1, <2>3 DEF RequestCommit
  <2>5. alerts' \in [Ids -> [auto : Nat, manual : Nat]]
    <3>1. CASE req[r].action # "MANUAL"
      BY <1>3, <3>1 DEF RequestCommit
    <3>2. CASE req[r].action = "MANUAL"
      <4>1. alerts' = [alerts EXCEPT ![req[r].id].manual = @ + 1]
        BY <1>3, <3>2 DEF RequestCommit
      <4> QED BY <2>1, <4>1
    <3> QED BY <3>1, <3>2
  <2>6. audit' \subseteq AuditActions \X Ids
    BY <1>3, <2>1 DEF RequestCommit, AuditActions
  <2>7. sent' \subseteq Effects \X Ids
    BY <1>3, <2>1 DEF RequestCommit, Effects
  <2> QED BY <1>3, <2>4, <2>5, <2>6, <2>7 DEF RequestCommit
<1>4. CASE RequestRollback(r)
  BY <1>4 DEF RequestRollback
<1> QED BY <1>1, <1>2, <1>3, <1>4

LEMMA RestartTyped == ASSUME Typed, RestartWorker PROVE Typed'
<1>1. IdleTimer \in [pc : {"idle", "commit", "push"}, todo : SUBSET Ids,
                     id : Ids \cup {None}, snap : Row]
      /\ IdleTimer.pc = "idle"
  BY DEF IdleTimer, NoRow, Row, Severities, Statuses
<1> QED BY <1>1, FaultType, IdleTypes
        DEF RestartWorker, Typed, TypeOK, Carried, database

LEMMA TypedStep == Typed /\ [Next]_vars => Typed'
<1> SUFFICES ASSUME Typed, [Next]_vars PROVE Typed'
  OBVIOUS
<1>1. CASE Next
  BY <1>1, DispatcherTyped, TimerTyped, RequestTyped, RestartTyped DEF Next
<1>2. CASE UNCHANGED vars
  BY <1>2 DEF Typed, TypeOK, Carried, vars, database, worker, history
<1> QED BY <1>1, <1>2

\* TypeOK holds in every reachable state, and a handler that is about to use the
\* id it carries carries one.
THEOREM TypedAlways == Spec => []Typed
BY TypedInit, TypedStep, PTL DEF Spec

\* Every variable has its type in every reachable state.
THEOREM TypeCorrect == Spec => []TypeOK
BY TypedAlways, PTL DEF Typed

-----------------------------------------------------------------------------
(* Rows only move forward.  A session writes from a row it read earlier, so    *)
(* the invariant relates every row that was read to the one now in the table.  *)

\* A row t that the row s may have become: no lock is released, no severity
\* lowered, no decision withdrawn, and no row deleted.
Follows(s, t) ==
    /\ s.status # "ABSENT" => t.status # "ABSENT"
    /\ s.locked => t.locked
    /\ s.severity = "HIGH" => t.severity = "HIGH"
    /\ s.review # "NONE" => t.review # "NONE"

ReadsFollowed ==
    /\ timer.pc = "commit" =>
         /\ timer.snap.status \in Unreviewed
         /\ Follows(timer.snap, incidents[timer.id])
    /\ \A r \in Requests : req[r].pc \in {"read", "flushed"} =>
         /\ req[r].snap.status # "ABSENT"
         /\ Follows(req[r].snap, incidents[req[r].id])
    /\ \A i \in Ids : ~Persisted(i) => incidents[i] = NoRow

\* An id without a row has no alerts and was never escalated; the timer
\* escalates rows that were not.
EscalatedOnce ==
    /\ \A i \in Ids :
         /\ alerts[i].auto > 0 => incidents[i].status \notin Unreviewed \cup {"ABSENT"}
         /\ alerts[i].auto <= 1
         /\ alerts[i].manual > 0 => Persisted(i)
    /\ timer.pc = "commit" => alerts[timer.id].auto = 0
    /\ timer.pc = "push" => alerts[timer.id].auto > 0

\* What the running worker holds in memory is about rows it persisted itself.
Tracked ==
    /\ run \subseteq {i \in Ids : Persisted(i)}
    /\ \A k \in Keys : rowsOf[k] \subseteq {i \in Ids : Persisted(i)}
    /\ registry \cup timer.todo \subseteq run
    /\ timer.pc # "idle" => timer.id \in run
    /\ disp.pc \in {"audit", "push"} => disp.id \in run
    /\ \A k \in Keys : rowsOf[k] \cap run # {} => k \in active
    /\ disp.pc = "persist" => disp.key \in active /\ rowsOf[disp.key] \cap run = {}

\* What the commit of a request makes of the current row.
LEMMA DecisionWritten ==
    ASSUME NEW a \in RequestActions, NEW s \in Row, NEW c \in Row, Follows(s, c),
           s.status # "ABSENT",
           NEW m, m = Merged(s, Decided(a, s), c)
    PROVE  /\ Follows(c, m)
           /\ m.status = c.status \/ m.status \in Closed \cup {"EMERGENCY"}
           /\ a # "MANUAL" => StatusOf[a] \in {m.status, s.status}
           /\ a = "MANUAL" => m.severity = "HIGH" /\ m.locked /\ m.review = c.review
           /\ a # "MANUAL" => m.review # "NONE"
           /\ (c.status = "EMERGENCY" \/ c.review \in LockingActions => c.locked)
                => (m.status = "EMERGENCY" \/ m.review \in LockingActions => m.locked)
<1> DEFINE t == Decided(a, s)
<1> HIDE DEF t
<1>1. CASE a = "MANUAL"
  <2>1. /\ t.severity = "HIGH" /\ t.locked = TRUE
        /\ t.status = s.status /\ t.review = s.review
    BY <1>1 DEF t, Decided, Row
  <2>2. /\ m.status = c.status /\ m.review = c.review
        /\ m.severity = Column(s.severity, "HIGH", c.severity)
    BY <2>1 DEF t, Merged, Column
  <2>3. m.locked = IF s.locked # TRUE THEN TRUE ELSE c.locked
    BY <2>1 DEF t, Merged, Column
  <2>4. m.severity = "HIGH" /\ m.locked
    BY <2>2, <2>3 DEF Column, Follows, Row
  <2>5. Follows(c, m)
    BY <2>2, <2>4 DEF Follows
  <2> QED BY <1>1, <2>2, <2>4, <2>5
<1>2. CASE a # "MANUAL"
  <2>1. a \in ReviewActions /\ StatusOf[a] \in Closed \cup {"EMERGENCY"}
        /\ (StatusOf[a] = "EMERGENCY" <=> a \in LockingActions)
    BY <1>2 DEF RequestActions, ReviewActions, StatusOf, Closed, LockingActions
  <2>2. /\ t.severity = s.severity /\ t.status = StatusOf[a] /\ t.review = a
        /\ t.locked = (s.locked \/ a \in LockingActions)
    BY <1>2 DEF t, Decided, Row
  <2>3. m = [severity |-> c.severity,
             status |-> Column(s.status, StatusOf[a], c.status),
             locked |-> Column(s.locked, s.locked \/ a \in LockingActions, c.locked),
             review |-> Column(s.review, a, c.review)]
    BY <2>2 DEF t, Merged, Column
  <2>4. m.locked = (c.locked \/ a \in LockingActions)
    BY <2>3 DEF Column, Follows, Row
  <2>5. m.review # "NONE" /\ (m.review = c.review \/ m.review = a)
    BY <2>1, <2>3 DEF Column, Follows, ReviewActions
  <2>6. m.severity = c.severity /\ (m.status = c.status \/ m.status = StatusOf[a])
        /\ (StatusOf[a] = m.status \/ StatusOf[a] = s.status)
    BY <2>3 DEF Column
  <2> QED BY <1>2, <2>1, <2>4, <2>5, <2>6 DEF Follows, Closed
<1> QED BY <1>1, <1>2

\* What the commit of the escalation timer makes of it.
LEMMA EscalationWritten ==
    ASSUME NEW s \in Row, NEW c \in Row, Follows(s, c), s.status \in Unreviewed,
           NEW m, m = Merged(s, Escalated(s), c)
    PROVE  /\ Follows(c, m)
           /\ m.status = "EMERGENCY" /\ m.severity = "HIGH" /\ m.locked
           /\ m.review = c.review
<1>1. /\ m.status = "EMERGENCY" /\ m.review = c.review
      /\ m.severity = Column(s.severity, "HIGH", c.severity)
  BY DEF Merged, Escalated, Column, Unreviewed, Row
<1>2. m.locked = IF s.locked # TRUE THEN TRUE ELSE c.locked
  BY DEF Merged, Escalated, Column, Row
<1>3. m.severity = "HIGH" /\ m.locked
  BY <1>1, <1>2 DEF Column, Follows, Row
<1>4. Follows(c, m)
  BY <1>1, <1>3 DEF Follows
<1> QED BY <1>1, <1>3, <1>4

LEMMA RowInserted ==
    ASSUME NEW sev \in Severities, NEW new, new = NewRow(sev, sev = "HIGH")
    PROVE  /\ Follows(NoRow, new)
           /\ new.status # "ABSENT" /\ new.review = "NONE"
           /\ new.status = "EMERGENCY" => new.locked
           /\ new.status = "ACTIVE_REVIEW" => sev = "MEDIUM"
<1>1. /\ new.review = "NONE"
      /\ new.status = InitialStatus[sev]
      /\ sev = "HIGH" => new.locked = TRUE
  BY DEF NewRow
<1>2. /\ InitialStatus[sev] # "ABSENT"
      /\ InitialStatus[sev] = "EMERGENCY" => sev = "HIGH"
      /\ InitialStatus[sev] = "ACTIVE_REVIEW" => sev = "MEDIUM"
  BY DEF InitialStatus, Severities
<1>3. Follows(NoRow, new)
  BY <1>1, <1>2 DEF Follows, NoRow
<1> QED BY <1>1, <1>2, <1>3

-----------------------------------------------------------------------------
(* Every step moves every row forward, so what a session read stays behind.    *)

Inserted(i) ==
    /\ incidents[i] = NoRow
    /\ \E sev \in Severities : incidents'[i] = NewRow(sev, sev = "HIGH")

\* The only steps that write a row.
LEMMA RowWriters ==
    ASSUME Typed, ReadsFollowed, [Next]_vars, NEW i \in Ids
    PROVE  \/ incidents'[i] = incidents[i]
           \/ Inserted(i)
           \/ EscalationWrite(i)
           \/ \E r \in Requests : RequestCommit(r) /\ req[r].id = i
<1> USE DEF Typed, TypeOK, ReadsFollowed, database, worker, history
<1>1. CASE UNCHANGED vars
  BY <1>1 DEF vars
<1>2. ASSUME NEW k \in Keys, NEW sev \in Severities, DispatchNew(k, sev)
      PROVE  incidents' = incidents
  BY <1>2 DEF DispatchNew
<1>3. ASSUME NEW j \in Ids, PersistIncident(j) \/ RefreshFails(j)
      PROVE  incidents'[i] = incidents[i] \/ Inserted(i)
  BY <1>3 DEF PersistIncident, RefreshFails, InsertRow, Inserted
<1>4. ASSUME PersistFails \/ AuditDispatch \/ FinishDispatch
      PROVE  incidents' = incidents
  BY <1>4 DEF PersistFails, AuditDispatch, FinishDispatch
<1>5. ASSUME NEW j \in Ids, BecomeOverdue(j) \/ EscalateRead(j) \/ EscalateSkip(j)
                            \/ EscalateFails(j)
      PROVE  incidents' = incidents
  BY <1>5 DEF BecomeOverdue, EscalateRead, EscalateSkip, EscalateFails
<1>6. ASSUME StartCheck \/ EscalatePush \/ RestartWorker
      PROVE  incidents' = incidents
  BY <1>6 DEF StartCheck, EscalatePush, RestartWorker
<1>7. ASSUME NEW j \in Ids, EscalateCommit(j) \/ EscalateAckLost(j)
      PROVE  incidents'[i] = incidents[i] \/ EscalationWrite(i)
  <2>1. EscalationWrite(j)
    BY <1>7 DEF EscalateCommit, EscalateAckLost
  <2> QED BY <2>1 DEF EscalationWrite
<1>8. ASSUME NEW r \in Requests, NEW j \in Ids, NEW action \in RequestActions,
             RequestRead(r, j, action)
      PROVE  incidents' = incidents
  BY <1>8 DEF RequestRead
<1>9. ASSUME NEW r \in Requests, RequestFlush(r) \/ RequestRollback(r)
      PROVE  incidents' = incidents
  BY <1>9 DEF RequestFlush, RequestRollback
<1>10. ASSUME NEW r \in Requests, RequestCommit(r)
       PROVE  incidents'[i] = incidents[i] \/ req[r].id = i
  BY <1>10 DEF RequestCommit
<1> QED BY <1>1, <1>2, <1>3, <1>4, <1>5, <1>6, <1>7, <1>8, <1>9, <1>10
        DEF Next, DispatcherStep, TimerStep

\* RowWriters, with what each of the writers leaves in the row.
LEMMA EscalationRow ==
    ASSUME Typed, ReadsFollowed, NEW i \in Ids, EscalationWrite(i)
    PROVE  /\ Follows(incidents[i], incidents'[i])
           /\ incidents'[i].status = "EMERGENCY" /\ incidents'[i].severity = "HIGH"
           /\ incidents'[i].locked
           /\ incidents'[i].review = incidents[i].review
<1>1. /\ timer.snap \in Row /\ timer.snap.status \in Unreviewed /\ incidents[i] \in Row
      /\ Follows(timer.snap, incidents[i])
  BY DEF EscalationWrite, Typed, TypeOK, ReadsFollowed
<1>2. incidents'[i] = Merged(timer.snap, Escalated(timer.snap), incidents[i])
  BY DEF EscalationWrite, Typed, TypeOK
<1> QED BY <1>1, <1>2, EscalationWritten

LEMMA CommitRow ==
    ASSUME Typed, ReadsFollowed, NEW r \in Requests, RequestCommit(r),
           NEW i, i = req[r].id, NEW a, a = req[r].action
    PROVE  LET c == incidents[i]  m == incidents'[i] IN
           /\ i \in Ids /\ a \in RequestActions
           /\ Follows(c, m)
           /\ m.status = c.status \/ m.status \in Closed \cup {"EMERGENCY"}
           /\ a # "MANUAL" => StatusOf[a] \in {m.status, req[r].snap.status}
           /\ a = "MANUAL" => m.severity = "HIGH" /\ m.locked /\ m.review = c.review
           /\ a # "MANUAL" => m.review # "NONE"
           /\ (c.status = "EMERGENCY" \/ c.review \in LockingActions => c.locked)
                => (m.status = "EMERGENCY" \/ m.review \in LockingActions => m.locked)
<1>1. /\ i \in Ids /\ a \in RequestActions
      /\ req[r].snap \in Row /\ incidents[i] \in Row /\ req[r].snap.status # "ABSENT"
      /\ Follows(req[r].snap, incidents[i])
  BY DEF RequestCommit, Typed, TypeOK, Carried, ReadsFollowed
<1>2. incidents'[i] = Merged(req[r].snap, Decided(a, req[r].snap), incidents[i])
  BY <1>1 DEF RequestCommit, Typed, TypeOK
<1> QED BY <1>1, <1>2, DecisionWritten

LEMMA RowsFollow ==
    ASSUME Typed, ReadsFollowed, [Next]_vars, NEW i \in Ids
    PROVE  Follows(incidents[i], incidents'[i])
<1>1. CASE incidents'[i] = incidents[i]
  BY <1>1 DEF Follows
<1>2. CASE Inserted(i)
  BY <1>2, RowInserted DEF Inserted
<1>3. CASE EscalationWrite(i)
  BY <1>3, EscalationRow
<1>4. CASE \E r \in Requests : RequestCommit(r) /\ req[r].id = i
  BY <1>4, CommitRow
<1> QED BY <1>1, <1>2, <1>3, <1>4, RowWriters

\* A snapshot is kept as it was read, or has just been read.
LEMMA TimerReads ==
    ASSUME Typed, [Next]_vars, timer'.pc = "commit"
    PROVE  \/ UNCHANGED timer
           \/ /\ timer'.id \in Ids
              /\ timer'.snap = incidents[timer'.id]
              /\ timer'.snap.status \in Unreviewed
              /\ UNCHANGED <<incidents, alerts>>
<1> USE DEF Typed, TypeOK, database, worker, history
<1>1. CASE UNCHANGED vars
  BY <1>1 DEF vars
<1>2. ASSUME NEW k \in Keys, NEW sev \in Severities, DispatchNew(k, sev)
      PROVE  UNCHANGED timer
  BY <1>2 DEF DispatchNew
<1>3. ASSUME DispatcherStep
      PROVE  UNCHANGED timer
  BY <1>3 DEF DispatcherStep, PersistIncident, PersistFails, RefreshFails,
              AuditDispatch, FinishDispatch
<1>4. ASSUME NEW i \in Ids, BecomeOverdue(i)
      PROVE  UNCHANGED timer
  BY <1>4 DEF BecomeOverdue
<1>5. ASSUME NEW i \in Ids, EscalateRead(i)
      PROVE  /\ timer'.id \in Ids
             /\ timer'.snap = incidents[timer'.id]
             /\ timer'.snap.status \in Unreviewed
             /\ UNCHANGED <<incidents, alerts>>
  BY <1>5 DEF EscalateRead
<1>6. ASSUME NEW i \in Ids, EscalateSkip(i) \/ EscalateCommit(i)
      PROVE  FALSE
  BY <1>6 DEF EscalateSkip, EscalateCommit
<1>7. ASSUME NEW i \in Ids, EscalateFails(i) \/ EscalateAckLost(i)
      PROVE  FALSE
  BY <1>7, IdleTypes DEF EscalateFails, EscalateAckLost, GiveUp
<1>8. ASSUME StartCheck
      PROVE  FALSE
  BY <1>8 DEF StartCheck
<1>9. ASSUME EscalatePush
      PROVE  FALSE
  BY <1>9 DEF EscalatePush, IdleTimer
<1>10. ASSUME RestartWorker
       PROVE  FALSE
  BY <1>10 DEF RestartWorker, IdleTimer
<1>11. ASSUME NEW r \in Requests,
              \/ \E i \in Ids, action \in RequestActions : RequestRead(r, i, action)
              \/ RequestFlush(r) \/ RequestCommit(r) \/ RequestRollback(r)
       PROVE  UNCHANGED timer
  BY <1>11 DEF RequestRead, RequestFlush, RequestCommit, RequestRollback
<1> QED BY <1>1, <1>2, <1>3, <1>4, <1>5, <1>6, <1>7, <1>8, <1>9, <1>10, <1>11
        DEF Next, TimerStep

LEMMA RequestReads ==
    ASSUME Typed, [Next]_vars, NEW r \in Requests, req'[r].pc \in {"read", "flushed"}
    PROVE  \/ /\ req[r].pc \in {"read", "flushed"}
              /\ req'[r].id = req[r].id /\ req'[r].snap = req[r].snap
           \/ /\ req'[r].id \in Ids
              /\ req'[r].snap = incidents[req'[r].id]
              /\ req'[r].snap.status # "ABSENT"
              /\ UNCHANGED incidents
<1> USE DEF Typed, TypeOK, database, worker, history
<1>1. CASE UNCHANGED vars
  BY <1>1 DEF vars
<1>2. ASSUME NEW k \in Keys, NEW sev \in Severities, DispatchNew(k, sev)
      PROVE  UNCHANGED req
  BY <1>2 DEF DispatchNew
<1>3. ASSUME DispatcherStep
      PROVE  UNCHANGED req
  BY <1>3 DEF DispatcherStep, PersistIncident, PersistFails, RefreshFails,
              AuditDispatch, FinishDispatch
<1>4. ASSUME TimerStep
      PROVE  UNCHANGED req
  BY <1>4 DEF TimerStep, StartCheck, EscalateRead, EscalateSkip, EscalateCommit,
              EscalateFails, EscalateAckLost, GiveUp, EscalatePush
<1>5. ASSUME (\E i \in Ids : BecomeOverdue(i)) \/ RestartWorker
      PROVE  UNCHANGED req
  BY <1>5 DEF BecomeOverdue, RestartWorker
<1>6. ASSUME NEW q \in Requests, NEW i \in Ids, NEW action \in RequestActions,
             RequestRead(q, i, action), q = r
      PROVE  /\ req'[r].id \in Ids
             /\ req'[r].snap = incidents[req'[r].id]
             /\ req'[r].snap.status # "ABSENT"
             /\ UNCHANGED incidents
  BY <1>6 DEF RequestRead, Persisted
<1>7. ASSUME NEW q \in Requests, q # r,
             \/ \E i \in Ids, action \in RequestActions : RequestRead(q, i, action)
             \/ RequestFlush(q) \/ RequestCommit(q) \/ RequestRollback(q)
      PROVE  req'[r] = req[r]
  BY <1>7 DEF RequestRead, RequestFlush, RequestCommit, RequestRollback
<1>8. ASSUME RequestFlush(r)
      PROVE  /\ req[r].pc \in {"read", "flushed"}
             /\ req'[r].id = req[r].id /\ req'[r].snap = req[r].snap
  BY <1>8 DEF RequestFlush
<1>9. ASSUME RequestCommit(r) \/ RequestRollback(r)
      PROVE  FALSE
  BY <1>9 DEF RequestCommit, RequestRollback
<1> QED BY <1>1, <1>2, <1>3, <1>4, <1>5, <1>6, <1>7, <1>8, <1>9 DEF Next

LEMMA ReadsFollowedInit == Init => ReadsFollowed
BY DEF Init, ReadsFollowed, IdleTimer, NewRequest, Persisted, NoRow

LEMMA ReadsFollowedStep == Typed /\ ReadsFollowed /\ [Next]_vars => ReadsFollowed'
<1> SUFFICES ASSUME Typed, ReadsFollowed, [Next]_vars PROVE ReadsFollowed'
  OBVIOUS
<1>1. ASSUME timer'.pc = "commit"
      PROVE  /\ timer'.snap.status \in Unreviewed
             /\ Follows(timer'.snap, incidents'[timer'.id])
  <2>1. CASE UNCHANGED timer
    <3>1. timer.id \in Ids /\ timer.snap.status \in Unreviewed
          /\ Follows(timer.snap, incidents[timer.id])
      BY <1>1, <2>1 DEF Typed, Carried, ReadsFollowed
    <3>2. Follows(incidents[timer.id], incidents'[timer.id])
      BY <3>1, RowsFollow
    <3> QED BY <2>1, <3>1, <3>2 DEF Follows
  <2>2. CASE ~UNCHANGED timer
    BY <1>1, <2>2, TimerReads DEF Follows
  <2> QED BY <2>1, <2>2
<1>2. ASSUME NEW r \in Requests, req'[r].pc \in {"read", "flushed"}
      PROVE  /\ req'[r].snap.status # "ABSENT"
             /\ Follows(req'[r].snap, incidents'[req'[r].id])
  <2>1. CASE /\ req[r].pc \in {"read", "flushed"}
             /\ req'[r].id = req[r].id /\ req'[r].snap = req[r].snap
    <3>1. req[r].id \in Ids /\ req[r].snap.status # "ABSENT"
          /\ Follows(req[r].snap, incidents[req[r].id])
      BY <2>1 DEF Typed, Carried, ReadsFollowed
    <3>2. Follows(incidents[req[r].id], incidents'[req[r].id])
      BY <3>1, RowsFollow
    <3> QED BY <2>1, <3>1, <3>2 DEF Follows
  <2>2. CASE /\ req'[r].id \in Ids
             /\ req'[r].snap = incidents[req'[r].id]
             /\ req'[r].snap.status # "ABSENT"
             /\ UNCHANGED incidents
    BY <2>2 DEF Follows
  <2> QED BY <1>2, <2>1, <2>2, RequestReads
<1>3. ASSUME NEW i \in Ids, ~Persisted(i)'
      PROVE  incidents'[i] = NoRow
  <2>1. ~Persisted(i) /\ incidents[i] = NoRow
    BY <1>3, RowsFollow DEF ReadsFollowed, Persisted, Follows
  <2>2. ~EscalationWrite(i) /\ ~Inserted(i)
    BY <1>3, EscalationRow, RowInserted DEF Persisted, Inserted
  <2>3. ~ \E r \in Requests : RequestCommit(r) /\ req[r].id = i
    BY <2>1 DEF RequestCommit, ReadsFollowed, Follows, Persisted
  <2> QED BY <2>1, <2>2, <2>3, RowWriters
<1> QED BY <1>1, <1>2, <1>3 DEF ReadsFollowed

\* Every row is forever ahead of what any running handler read of it.
THEOREM ReadsFollowedAlways == Spec => [](Typed /\ ReadsFollowed)
<1>1. Init => Typed /\ ReadsFollowed
  BY TypedInit, ReadsFollowedInit
<1>2. Typed /\ ReadsFollowed /\ [Next]_vars => (Typed /\ ReadsFollowed)'
  BY TypedStep, ReadsFollowedStep
<1> QED BY <1>1, <1>2, PTL DEF Spec

\* No handler, timer pass, fault or restart ever releases the lock of an incident
\* or takes its HIGH back: LockNeverReleased of the specification.
THEOREM LocksKept == Spec => LockNeverReleased
<1>1. Typed /\ ReadsFollowed /\ [Next]_vars
        => [\A i \in Ids :
              /\ incidents[i].locked => incidents'[i].locked
              /\ incidents[i].severity = "HIGH" => incidents'[i].severity = "HIGH"]_vars
  BY RowsFollow DEF Follows
<1> QED BY <1>1, ReadsFollowedAlways, PTL DEF Spec, LockNeverReleased

-----------------------------------------------------------------------------
(* Alerts: the timer's are written once, and only beside a HIGH, locked row.   *)

LEMMA AlertWriters ==
    ASSUME Typed, [Next]_vars, NEW i \in Ids
    PROVE  \/ alerts'[i] = alerts[i]
           \/ /\ EscalationWrite(i) /\ timer'.pc # "commit"
              /\ alerts'[i].auto = alerts[i].auto + 1
              /\ alerts'[i].manual = alerts[i].manual
           \/ \E r \in Requests :
                /\ RequestCommit(r) /\ req[r].id = i /\ req[r].action = "MANUAL"
                /\ alerts'[i].manual = alerts[i].manual + 1
                /\ alerts'[i].auto = alerts[i].auto
<1> USE DEF Typed, TypeOK, database, worker, history
<1>1. CASE UNCHANGED vars
  BY <1>1 DEF vars
<1>2. ASSUME NEW k \in Keys, NEW sev \in Severities, DispatchNew(k, sev)
      PROVE  alerts' = alerts
  BY <1>2 DEF DispatchNew
<1>3. ASSUME DispatcherStep
      PROVE  alerts' = alerts
  BY <1>3 DEF DispatcherStep, PersistIncident, PersistFails, RefreshFails,
              AuditDispatch, FinishDispatch
<1>4. ASSUME NEW j \in Ids, BecomeOverdue(j) \/ EscalateRead(j) \/ EscalateSkip(j)
                            \/ EscalateFails(j)
      PROVE  alerts' = alerts
  BY <1>4 DEF BecomeOverdue, EscalateRead, EscalateSkip, EscalateFails
<1>5. ASSUME StartCheck \/ EscalatePush \/ RestartWorker
      PROVE  alerts' = alerts
  BY <1>5 DEF StartCheck, EscalatePush, RestartWorker
<1>6. ASSUME NEW j \in Ids, EscalateCommit(j) \/ EscalateAckLost(j)
      PROVE  \/ alerts'[i] = alerts[i]
             \/ /\ EscalationWrite(i) /\ timer'.pc # "commit"
                /\ alerts'[i].auto = alerts[i].auto + 1
                /\ alerts'[i].manual = alerts[i].manual
  <2>1. EscalationWrite(j) /\ timer'.pc # "commit"
    BY <1>6, IdleTypes DEF EscalateCommit, EscalateAckLost, GiveUp
  <2>2. alerts' = [alerts EXCEPT ![j].auto = @ + 1]
    BY <2>1 DEF EscalationWrite
  <2> QED BY <2>1, <2>2
<1>7. ASSUME NEW r \in Requests,
             \/ \E j \in Ids, action \in RequestActions : RequestRead(r, j, action)
             \/ RequestFlush(r) \/ RequestRollback(r)
             \/ RequestCommit(r) /\ req[r].action # "MANUAL"
      PROVE  alerts' = alerts
  BY <1>7 DEF RequestRead, RequestFlush, RequestRollback, RequestCommit
<1>8. ASSUME NEW r \in Requests, RequestCommit(r), req[r].action = "MANUAL"
      PROVE  \/ alerts'[i] = alerts[i]
             \/ /\ req[r].id = i
                /\ alerts'[i].manual = alerts[i].manual + 1
                /\ alerts'[i].auto = alerts[i].auto
  <2>1. alerts' = [alerts EXCEPT ![req[r].id].manual = @ + 1]
    BY <1>8 DEF RequestCommit
  <2> QED BY <2>1
<1> QED BY <1>1, <1>2, <1>3, <1>4, <1>5, <1>6, <1>7, <1>8 DEF Next, TimerStep

LockInv == Typed /\ ReadsFollowed /\ DecisionsLock /\ AlertedIsHigh

LEMMA LockInvInit == Init => LockInv
BY TypedInit, ReadsFollowedInit
   DEF LockInv, Init, DecisionsLock, AlertedIsHigh, NoRow, LockingActions

LEMMA LockInvStep == LockInv /\ [Next]_vars => LockInv'
<1> SUFFICES ASSUME LockInv, [Next]_vars PROVE LockInv'
  OBVIOUS
<1> USE DEF LockInv
<1>1. Typed' /\ ReadsFollowed'
  BY TypedStep, ReadsFollowedStep
<1>2. ASSUME NEW i \in Ids,
             incidents'[i].status = "EMERGENCY" \/ incidents'[i].review \in LockingActions
      PROVE  incidents'[i].locked
  <2>1. CASE incidents'[i] = incidents[i]
    BY <1>2, <2>1 DEF DecisionsLock
  <2>2. CASE Inserted(i)
    BY <1>2, <2>2, RowInserted DEF Inserted, LockingActions
  <2>3. CASE EscalationWrite(i)
    BY <2>3, EscalationRow
  <2>4. CASE \E r \in Requests : RequestCommit(r) /\ req[r].id = i
    BY <1>2, <2>4, CommitRow DEF DecisionsLock
  <2> QED BY <2>1, <2>2, <2>3, <2>4, RowWriters
<1>3. ASSUME NEW i \in Ids, alerts'[i].auto + alerts'[i].manual > 0
      PROVE  incidents'[i].severity = "HIGH" /\ incidents'[i].locked
  <2>1. CASE alerts'[i] = alerts[i]
    BY <1>3, <2>1, RowsFollow DEF AlertedIsHigh, Follows
  <2>2. CASE EscalationWrite(i)
    BY <2>2, EscalationRow
  <2>3. CASE \E r \in Requests :
               RequestCommit(r) /\ req[r].id = i /\ req[r].action = "MANUAL"
    BY <2>3, CommitRow
  <2> QED BY <2>1, <2>2, <2>3, AlertWriters
<1> QED BY <1>1, <1>2, <1>3 DEF DecisionsLock, AlertedIsHigh

\* An incident that is in EMERGENCY or was confirmed or escalated is locked, for
\* any number of concurrent reviewers.
THEOREM DecisionsLockAlways == Spec => []DecisionsLock
BY LockInvInit, LockInvStep, PTL DEF Spec, LockInv

\* An incident with an alert row is HIGH and locked.
THEOREM AlertedIsHighAlways == Spec => []AlertedIsHigh
BY LockInvInit, LockInvStep, PTL DEF Spec, LockInv

-----------------------------------------------------------------------------
(* The timer escalates an incident at most once: what it read as unreviewed    *)
(* has no automatic escalation yet, and an escalated incident is never         *)
(* unreviewed again.                                                           *)

LEMMA TimerPushes ==
    ASSUME Typed, [Next]_vars, timer'.pc = "push"
    PROVE  UNCHANGED timer \/ (timer'.id \in Ids /\ EscalationWrite(timer'.id))
<1> USE DEF Typed, TypeOK, database, worker, history
<1>1. CASE UNCHANGED vars
  BY <1>1 DEF vars
<1>2. ASSUME NEW k \in Keys, NEW sev \in Severities, DispatchNew(k, sev)
      PROVE  UNCHANGED timer
  BY <1>2 DEF DispatchNew
<1>3. ASSUME DispatcherStep
      PROVE  UNCHANGED timer
  BY <1>3 DEF DispatcherStep, PersistIncident, PersistFails, RefreshFails,
              AuditDispatch, FinishDispatch
<1>4. ASSUME NEW i \in Ids, BecomeOverdue(i)
      PROVE  UNCHANGED timer
  BY <1>4 DEF BecomeOverdue
<1>5. ASSUME NEW i \in Ids, EscalateRead(i) \/ EscalateSkip(i) \/ StartCheck
      PROVE  FALSE
  BY <1>5 DEF EscalateRead, EscalateSkip, StartCheck
<1>6. ASSUME NEW i \in Ids, EscalateCommit(i)
      PROVE  timer'.id = i /\ EscalationWrite(i)
  BY <1>6 DEF EscalateCommit, EscalationWrite
<1>7. ASSUME NEW i \in Ids, EscalateFails(i) \/ EscalateAckLost(i)
      PROVE  FALSE
  BY <1>7, IdleTypes DEF EscalateFails, EscalateAckLost, GiveUp
<1>8. ASSUME StartCheck
      PROVE  FALSE
  BY <1>8 DEF StartCheck
<1>9. ASSUME EscalatePush \/ RestartWorker
      PROVE  FALSE
  BY <1>9 DEF EscalatePush, RestartWorker, IdleTimer
<1>10. ASSUME NEW r \in Requests,
              \/ \E i \in Ids, action \in RequestActions : RequestRead(r, i, action)
              \/ RequestFlush(r) \/ RequestCommit(r) \/ RequestRollback(r)
       PROVE  UNCHANGED timer
  BY <1>10 DEF RequestRead, RequestFlush, RequestCommit, RequestRollback
<1> QED BY <1>1, <1>2, <1>3, <1>4, <1>5, <1>6, <1>7, <1>8, <1>9, <1>10
        DEF Next, TimerStep

OnceInv == Typed /\ ReadsFollowed /\ EscalatedOnce

LEMMA OnceInvInit == Init => OnceInv
BY TypedInit, ReadsFollowedInit DEF OnceInv, Init, EscalatedOnce, IdleTimer

LEMMA OnceInvStep == OnceInv /\ [Next]_vars => OnceInv'
<1> SUFFICES ASSUME OnceInv, [Next]_vars PROVE OnceInv'
  OBVIOUS
<1> USE DEF OnceInv
<1>1. Typed' /\ ReadsFollowed'
  BY TypedStep, ReadsFollowedStep
<1>2. ASSUME NEW i \in Ids
      PROVE  alerts[i] \in [auto : Nat, manual : Nat] /\ alerts'[i].auto \in Nat
  BY <1>1 DEF Typed, TypeOK
<1>3. ASSUME NEW i \in Ids, EscalationWrite(i), alerts'[i] # alerts[i]
      PROVE  alerts[i].auto = 0 /\ alerts'[i].auto = 1
  <2>1. alerts[i].auto = 0
    BY <1>3 DEF EscalationWrite, EscalatedOnce
  <2>2. alerts' = [alerts EXCEPT ![i].auto = @ + 1]
    BY <1>3 DEF EscalationWrite
  <2> QED BY <1>2, <2>1, <2>2 DEF Typed, TypeOK
<1>4. ASSUME NEW i \in Ids, alerts'[i].auto > 0
      PROVE  incidents'[i].status \notin Unreviewed \cup {"ABSENT"}
  <2>1. CASE EscalationWrite(i)
    BY <2>1, EscalationRow DEF Unreviewed
  <2>2. CASE ~EscalationWrite(i)
    <3>1. alerts'[i].auto = alerts[i].auto
      BY <1>2, <2>2, AlertWriters
    <3>2. incidents[i].status \notin Unreviewed \cup {"ABSENT"}
      BY <1>4, <3>1 DEF EscalatedOnce
    <3>3. ~Inserted(i)
      BY <3>2 DEF Inserted, NoRow
    <3> QED BY <2>2, <3>2, <3>3, RowWriters, CommitRow DEF Closed, Unreviewed
  <2> QED BY <2>1, <2>2
<1>5. ASSUME NEW i \in Ids
      PROVE  alerts'[i].auto <= 1
  <2>1. CASE alerts'[i].auto = alerts[i].auto
    BY <2>1 DEF EscalatedOnce
  <2>2. CASE alerts'[i].auto # alerts[i].auto
    <3>1. EscalationWrite(i)
      BY <1>2, <2>2, AlertWriters
    <3> QED BY <1>3, <2>2, <3>1
  <2> QED BY <2>1, <2>2
<1>6. ASSUME NEW i \in Ids, alerts'[i].manual > 0
      PROVE  Persisted(i)'
  <2>1. CASE \E r \in Requests : RequestCommit(r) /\ req[r].id = i
    <3>1. incidents[i].status # "ABSENT"
      BY <2>1 DEF RequestCommit, ReadsFollowed, Follows
    <3> QED BY <3>1, RowsFollow DEF Persisted, Follows
  <2>2. CASE ~ \E r \in Requests : RequestCommit(r) /\ req[r].id = i
    <3>1. alerts'[i].manual = alerts[i].manual
      BY <1>2, <2>2, AlertWriters
    <3> QED BY <1>6, <3>1, RowsFollow DEF EscalatedOnce, Persisted, Follows
  <2> QED BY <2>1, <2>2
<1>7. ASSUME timer'.pc = "commit"
      PROVE  alerts'[timer'.id].auto = 0
  <2>1. CASE UNCHANGED timer
    <3>1. timer.id \in Ids /\ alerts[timer.id].auto = 0
      BY <1>7, <2>1 DEF Typed, Carried, EscalatedOnce
    <3> QED BY <1>2, <1>7, <2>1, <3>1, AlertWriters
  <2>2. CASE ~UNCHANGED timer
    <3>1. /\ timer'.id \in Ids /\ incidents[timer'.id].status \in Unreviewed
          /\ UNCHANGED alerts
      BY <1>7, <2>2, TimerReads
    <3> QED BY <1>2, <3>1 DEF EscalatedOnce
  <2> QED BY <2>1, <2>2
<1>8. ASSUME timer'.pc = "push"
      PROVE  alerts'[timer'.id].auto > 0
  <2>1. CASE UNCHANGED timer
    <3>1. timer.id \in Ids /\ alerts[timer.id].auto > 0
      BY <1>8, <2>1 DEF Typed, Carried, EscalatedOnce
    <3> QED BY <1>2, <2>1, <3>1, AlertWriters
  <2>2. CASE ~UNCHANGED timer
    <3>1. timer'.id \in Ids /\ EscalationWrite(timer'.id)
      BY <1>8, <2>2, TimerPushes
    <3>2. alerts' = [alerts EXCEPT ![timer'.id].auto = @ + 1]
      BY <3>1 DEF EscalationWrite
    <3> QED BY <1>2, <3>1, <3>2 DEF Typed, TypeOK
  <2> QED BY <2>1, <2>2
<1> QED BY <1>1, <1>4, <1>5, <1>6, <1>7, <1>8 DEF EscalatedOnce

\* The timer escalates an incident at most once, over lost acknowledgements,
\* errors and restarts that register it nowhere or again.
THEOREM SingleAutoEscalationAlways == Spec => []SingleAutoEscalation
<1>1. OnceInv => SingleAutoEscalation
  BY DEF OnceInv, EscalatedOnce, SingleAutoEscalation
<1> QED BY <1>1, OnceInvInit, OnceInvStep, PTL DEF Spec

-----------------------------------------------------------------------------
(* One incident per key and worker: a key in use keeps its place in the set of *)
(* registered keys for as long as the worker runs.                             *)

KeyInv == Typed /\ ReadsFollowed /\ Tracked /\ OneIncidentPerKey

LEMMA KeyInvInit == Init => KeyInv
BY TypedInit, ReadsFollowedInit
   DEF KeyInv, Init, Tracked, OneIncidentPerKey, IdleTimer, IdleDispatcher

\* The part of KeyInv that speaks of the tables and the dedup set.
LEMMA KeysKept ==
    ASSUME KeyInv, UNCHANGED <<rowsOf, active>>, run' \in {run, {}},
           disp'.pc = "persist" => UNCHANGED disp
    PROVE  /\ \A k \in Keys : rowsOf'[k] \cap run' # {} => k \in active'
           /\ disp'.pc = "persist" =>
                disp'.key \in active' /\ rowsOf'[disp'.key] \cap run' = {}
           /\ OneIncidentPerKey'
BY DEF KeyInv, Tracked, OneIncidentPerKey, Typed, Carried

\* InsertRow by the message being handled.
LEMMA KeyInserted ==
    ASSUME KeyInv, NEW i \in Ids, disp.pc = "persist",
           InsertRow(i, disp.key, NewRow(disp.severity, disp.severity = "HIGH")),
           run' = run \cup {i}, UNCHANGED active, disp'.pc # "persist"
    PROVE  /\ Persisted(i)'
           /\ \A k \in Keys : rowsOf'[k] \subseteq rowsOf[k] \cup {i}
           /\ \A k \in Keys : rowsOf'[k] \cap run' # {} => k \in active'
           /\ OneIncidentPerKey'
<1> USE DEF KeyInv, Tracked, Typed, TypeOK, Carried
<1>1. disp.key \in Keys /\ i \notin run /\ \A k \in Keys : i \notin rowsOf[k]
  BY DEF InsertRow
<1>2. rowsOf' = [rowsOf EXCEPT ![disp.key] = @ \cup {i}]
  BY DEF InsertRow
<1>3. incidents'[i] = NewRow(disp.severity, disp.severity = "HIGH")
  BY DEF InsertRow
<1>4. Persisted(i)'
  BY <1>3, RowInserted DEF Persisted
<1>5. \A k \in Keys : k # disp.key => rowsOf'[k] \cap run' = rowsOf[k] \cap run
  BY <1>1, <1>2
<1>6. rowsOf'[disp.key] \cap run' = {i}
  BY <1>1, <1>2
<1>7. OneIncidentPerKey'
  BY <1>5, <1>6 DEF OneIncidentPerKey
<1>8. \A k \in Keys : rowsOf'[k] \cap run' # {} => k \in active'
  BY <1>5, <1>6
<1> QED BY <1>1, <1>2, <1>4, <1>7, <1>8

LEMMA KeyInvStep == KeyInv /\ [Next]_vars => KeyInv'
<1> SUFFICES ASSUME KeyInv, [Next]_vars PROVE KeyInv'
  OBVIOUS
<1>1. Typed /\ Typed' /\ ReadsFollowed'
  BY TypedStep, ReadsFollowedStep DEF KeyInv
<1>2. \A i \in Ids : Persisted(i) => Persisted(i)'
  BY RowsFollow DEF KeyInv, Persisted, Follows
<1> SUFFICES Tracked' /\ OneIncidentPerKey'
  BY <1>1 DEF KeyInv
<1> USE DEF database, worker, history
<1>3. CASE UNCHANGED vars
  BY <1>2, <1>3 DEF vars, KeyInv, Tracked, OneIncidentPerKey
<1>4. ASSUME NEW k \in Keys, NEW sev \in Severities, DispatchNew(k, sev)
      PROVE  Tracked' /\ OneIncidentPerKey'
  BY <1>2, <1>4 DEF DispatchNew, KeyInv, Tracked, OneIncidentPerKey
<1>5. ASSUME NEW i \in Ids, PersistIncident(i) \/ RefreshFails(i)
      PROVE  Tracked' /\ OneIncidentPerKey'
  <2>1. /\ disp.pc = "persist"
        /\ InsertRow(i, disp.key, NewRow(disp.severity, disp.severity = "HIGH"))
        /\ run' = run \cup {i}
        /\ UNCHANGED <<active, registry, timer>>
        /\ disp'.pc # "persist"
        /\ disp'.pc \in {"audit", "push"} => disp'.id = i
    BY <1>1, <1>5, IdleTypes
       DEF PersistIncident, RefreshFails, Typed, TypeOK
  <2>2. /\ Persisted(i)'
        /\ \A k \in Keys : rowsOf'[k] \subseteq rowsOf[k] \cup {i}
        /\ \A k \in Keys : rowsOf'[k] \cap run' # {} => k \in active'
        /\ OneIncidentPerKey'
    BY <2>1, KeyInserted
  <2> QED BY <1>2, <2>1, <2>2 DEF KeyInv, Tracked
<1>6. ASSUME PersistFails \/ AuditDispatch \/ FinishDispatch
      PROVE  Tracked' /\ OneIncidentPerKey'
  <2>1. /\ UNCHANGED <<rowsOf, active, run, timer>>
        /\ disp'.pc # "persist"
        /\ disp'.pc \in {"audit", "push"} => disp'.id \in run
        /\ registry' \subseteq run
    BY <1>1, <1>6, IdleTypes DEF PersistFails, AuditDispatch, FinishDispatch,
       KeyInv, Tracked, Typed, TypeOK
  <2> QED BY <1>2, <2>1, KeysKept DEF KeyInv, Tracked
<1>7. ASSUME (\E i \in Ids : BecomeOverdue(i)) \/ TimerStep
      PROVE  Tracked' /\ OneIncidentPerKey'
  <2>1. /\ UNCHANGED <<rowsOf, active, run, disp>>
        /\ registry' \subseteq registry
    BY <1>7 DEF BecomeOverdue, TimerStep, StartCheck, EscalateRead, EscalateSkip,
       EscalateCommit, EscalateFails, EscalateAckLost, EscalationWrite, GiveUp,
       EscalatePush, Deregister
  <2>2. /\ timer'.todo \subseteq run
        /\ timer'.pc # "idle" => timer'.id \in run
    <3> USE DEF KeyInv, Tracked, Typed, TypeOK
    <3>1. CASE (\E i \in Ids : BecomeOverdue(i)) \/ StartCheck
      BY <3>1 DEF BecomeOverdue, StartCheck
    <3>2. ASSUME NEW i \in Ids, EscalateRead(i)
          PROVE  timer'.todo = timer.todo /\ timer'.id = i /\ i \in run
      BY <3>2 DEF EscalateRead
    <3>6. CASE \E i \in Ids : EscalateSkip(i)
      BY <3>6 DEF EscalateSkip
    <3>3. CASE \E i \in Ids : EscalateCommit(i)
      BY <3>3 DEF EscalateCommit, EscalationWrite
    <3>4. CASE \E i \in Ids : EscalateFails(i) \/ EscalateAckLost(i)
      BY <3>4 DEF EscalateFails, EscalateAckLost, GiveUp, IdleTimer
    <3>5. CASE EscalatePush
      BY <3>5 DEF EscalatePush, IdleTimer
    <3> QED BY <1>7, <3>1, <3>2, <3>3, <3>4, <3>5, <3>6 DEF TimerStep
  <2> QED BY <1>2, <2>1, <2>2, KeysKept DEF KeyInv, Tracked
<1>8. ASSUME NEW r \in Requests,
             \/ \E i \in Ids, action \in RequestActions : RequestRead(r, i, action)
             \/ RequestFlush(r) \/ RequestCommit(r) \/ RequestRollback(r)
      PROVE  Tracked' /\ OneIncidentPerKey'
  <2>1. UNCHANGED <<rowsOf, active, disp, registry, timer, run>>
    BY <1>8 DEF RequestRead, RequestFlush, RequestCommit, RequestRollback
  <2> QED BY <1>2, <2>1, KeysKept DEF KeyInv, Tracked
<1>9. ASSUME RestartWorker
      PROVE  Tracked' /\ OneIncidentPerKey'
  BY <1>2, <1>9 DEF RestartWorker, KeyInv, Tracked, OneIncidentPerKey,
     IdleTimer, IdleDispatcher
<1> QED BY <1>3, <1>4, <1>5, <1>6, <1>7, <1>8, <1>9 DEF Next, DispatcherStep

\* One worker process never persists a second incident for a camera and event
\* type, for any number of messages, faults and restarts.
THEOREM OneIncidentPerKeyAlways == Spec => []OneIncidentPerKey
BY KeyInvInit, KeyInvStep, PTL DEF Spec, KeyInv

-----------------------------------------------------------------------------
(* The audit trail.  Each of the three writers of a row, or of an alert, adds  *)
(* its audit row in the same transaction.                                      *)

Trail == {"SYSTEM_AUTO_ESCALATED", "ALERT_ESCALATED", "INCIDENT_REVIEWED"}

\* Nothing the trail is about changes for incident i.
TrailRests(i) ==
    /\ incidents'[i].review = incidents[i].review
    /\ alerts'[i] = alerts[i]
    /\ \A a \in Trail : <<a, i>> \in audit' <=> <<a, i>> \in audit

LEMMA TrailWriters ==
    ASSUME Typed, ReadsFollowed, [Next]_vars, NEW i \in Ids
    PROVE  \/ TrailRests(i)
           \/ EscalationWrite(i)
           \/ \E r \in Requests : RequestCommit(r) /\ req[r].id = i
<1> USE DEF Typed, TypeOK, database, worker, history
<1>1. ASSUME UNCHANGED <<incidents, alerts, audit>>
      PROVE  TrailRests(i)
  BY <1>1 DEF TrailRests
<1>2. CASE UNCHANGED vars
  BY <1>1, <1>2 DEF vars
<1>3. ASSUME NEW k \in Keys, NEW sev \in Severities, DispatchNew(k, sev)
      PROVE  UNCHANGED <<incidents, alerts, audit>>
  BY <1>3 DEF DispatchNew
<1>4. ASSUME NEW j \in Ids, PersistIncident(j) \/ RefreshFails(j)
      PROVE  TrailRests(i)
  <2>1. UNCHANGED <<alerts, audit>>
    BY <1>4 DEF PersistIncident, RefreshFails
  <2>2. incidents'[i] = incidents[i] \/ Inserted(i)
    BY <1>4 DEF PersistIncident, RefreshFails, InsertRow, Inserted, ReadsFollowed
  <2>3. Inserted(i) => incidents'[i].review = "NONE" /\ incidents[i].review = "NONE"
    BY RowInserted DEF Inserted, NoRow
  <2> QED BY <2>1, <2>2, <2>3 DEF TrailRests
<1>5. CASE PersistFails \/ FinishDispatch \/ StartCheck \/ EscalatePush \/ RestartWorker
  BY <1>1, <1>5
     DEF PersistFails, FinishDispatch, StartCheck, EscalatePush, RestartWorker
<1>6. CASE AuditDispatch
  BY <1>6 DEF AuditDispatch, TrailRests, Trail
<1>7. ASSUME NEW j \in Ids, BecomeOverdue(j) \/ EscalateRead(j) \/ EscalateSkip(j)
                            \/ EscalateFails(j)
      PROVE  UNCHANGED <<incidents, alerts, audit>>
  BY <1>7 DEF BecomeOverdue, EscalateRead, EscalateSkip, EscalateFails
<1>8. ASSUME NEW j \in Ids, EscalateCommit(j) \/ EscalateAckLost(j)
      PROVE  TrailRests(i) \/ EscalationWrite(i)
  <2>1. EscalationWrite(j)
    BY <1>8 DEF EscalateCommit, EscalateAckLost
  <2>2. CASE i # j
    BY <2>1, <2>2 DEF EscalationWrite, TrailRests, Trail
  <2> QED BY <2>1, <2>2
<1>9. ASSUME NEW r \in Requests,
             \/ \E j \in Ids, action \in RequestActions : RequestRead(r, j, action)
             \/ RequestFlush(r) \/ RequestRollback(r)
      PROVE  UNCHANGED <<incidents, alerts, audit>>
  BY <1>9 DEF RequestRead, RequestFlush, RequestRollback
<1>10. ASSUME NEW r \in Requests, RequestCommit(r), req[r].id # i
       PROVE  TrailRests(i)
  BY <1>10 DEF RequestCommit, TrailRests, Trail, Carried
<1> QED BY <1>1, <1>2, <1>3, <1>4, <1>5, <1>6, <1>7, <1>8, <1>9, <1>10
        DEF Next, DispatcherStep, TimerStep

TrailInv == Typed /\ ReadsFollowed /\ AuditMatchesRows

LEMMA TrailInvInit == Init => TrailInv
BY TypedInit, ReadsFollowedInit DEF TrailInv, Init, AuditMatchesRows, NoRow

LEMMA TrailInvStep == TrailInv /\ [Next]_vars => TrailInv'
<1> SUFFICES ASSUME TrailInv, [Next]_vars PROVE TrailInv'
  OBVIOUS
<1> USE DEF TrailInv
<1>1. Typed' /\ ReadsFollowed'
  BY TypedStep, ReadsFollowedStep
<1>2. ASSUME NEW i \in Ids
      PROVE  /\ (alerts'[i].auto > 0)   <=> <<"SYSTEM_AUTO_ESCALATED", i>> \in audit'
             /\ (alerts'[i].manual > 0) <=> <<"ALERT_ESCALATED", i>> \in audit'
             /\ (incidents'[i].review # "NONE") <=> <<"INCIDENT_REVIEWED", i>> \in audit'
  <2>1. /\ (alerts[i].auto > 0)   <=> <<"SYSTEM_AUTO_ESCALATED", i>> \in audit
        /\ (alerts[i].manual > 0) <=> <<"ALERT_ESCALATED", i>> \in audit
        /\ (incidents[i].review # "NONE") <=> <<"INCIDENT_REVIEWED", i>> \in audit
        /\ alerts[i] \in [auto : Nat, manual : Nat]
    BY DEF AuditMatchesRows, Typed, TypeOK
  <2>2. CASE TrailRests(i)
    BY <2>1, <2>2 DEF TrailRests, Trail
  <2>3. CASE EscalationWrite(i)
    <3>1. alerts' = [alerts EXCEPT ![i].auto = @ + 1]
          /\ audit' = audit \cup {<<"SYSTEM_AUTO_ESCALATED", i>>}
      BY <2>3 DEF EscalationWrite
    <3>2. alerts'[i].auto = alerts[i].auto + 1 /\ alerts'[i].manual = alerts[i].manual
      BY <2>1, <3>1 DEF Typed, TypeOK
    <3>3. incidents'[i].review = incidents[i].review
      BY <2>3, EscalationRow
    <3> QED BY <2>1, <3>1, <3>2, <3>3
  <2>4. CASE \E r \in Requests : RequestCommit(r) /\ req[r].id = i
    <3>1. PICK r \in Requests : RequestCommit(r) /\ req[r].id = i
      BY <2>4
    <3>2. CASE req[r].action = "MANUAL"
      <4>1. alerts' = [alerts EXCEPT ![i].manual = @ + 1]
            /\ audit' = audit \cup {<<"ALERT_ESCALATED", i>>}
        BY <3>1, <3>2 DEF RequestCommit
      <4>2. incidents'[i].review = incidents[i].review
        BY <3>1, <3>2, CommitRow
      <4>3. /\ alerts'[i].auto = alerts[i].auto
            /\ alerts'[i].manual = alerts[i].manual + 1
        BY <2>1, <4>1 DEF Typed, TypeOK
      <4> QED BY <2>1, <4>1, <4>2, <4>3
    <3>3. CASE req[r].action # "MANUAL"
      <4>1. alerts' = alerts /\ audit' = audit \cup {<<"INCIDENT_REVIEWED", i>>}
        BY <3>1, <3>3 DEF RequestCommit
      <4>2. incidents'[i].review # "NONE"
        BY <3>1, <3>3, CommitRow
      <4> QED BY <2>1, <4>1, <4>2
    <3> QED BY <3>2, <3>3
  <2> QED BY <2>2, <2>3, <2>4, TrailWriters
<1> QED BY <1>1, <1>2 DEF AuditMatchesRows

\* The audit trail and the tables agree after every step: whoever escalates or
\* decides leaves its audit row, and no audit row speaks of a decision that was
\* rolled back.
THEOREM AuditMatchesRowsAlways == Spec => []AuditMatchesRows
BY TrailInvInit, TrailInvStep, PTL DEF Spec, TrailInv

\* A flushed request ends in its commit, or in a rollback that leaves no trace.
LEMMA RequestEnds ==
    ASSUME Typed, [Next]_vars, NEW r \in Requests,
           req[r].pc = "flushed", req'[r].pc = "done"
    PROVE  RequestCommit(r) \/ UNCHANGED <<incidents, audit>>
<1> USE DEF Typed, TypeOK, database, worker, history
<1>1. CASE UNCHANGED vars
  BY <1>1 DEF vars
<1>2. ASSUME NEW k \in Keys, NEW sev \in Severities, DispatchNew(k, sev)
      PROVE  UNCHANGED req
  BY <1>2 DEF DispatchNew
<1>3. ASSUME DispatcherStep
      PROVE  UNCHANGED req
  BY <1>3 DEF DispatcherStep, PersistIncident, PersistFails, RefreshFails,
              AuditDispatch, FinishDispatch
<1>4. ASSUME TimerStep
      PROVE  UNCHANGED req
  BY <1>4 DEF TimerStep, StartCheck, EscalateRead, EscalateSkip, EscalateCommit,
              EscalateFails, EscalateAckLost, GiveUp, EscalatePush
<1>5. ASSUME (\E i \in Ids : BecomeOverdue(i)) \/ RestartWorker
      PROVE  UNCHANGED req
  BY <1>5 DEF BecomeOverdue, RestartWorker
<1>6. ASSUME NEW q \in Requests, NEW i \in Ids, NEW action \in RequestActions,
             RequestRead(q, i, action)
      PROVE  req'[r].pc = req[r].pc
  BY <1>6 DEF RequestRead
<1>7. ASSUME NEW q \in Requests, RequestFlush(q)
      PROVE  req'[r].pc = req[r].pc
  BY <1>7 DEF RequestFlush
<1>8. ASSUME NEW q \in Requests, RequestCommit(q), q # r
      PROVE  req'[r].pc = req[r].pc
  BY <1>8 DEF RequestCommit
<1>9. ASSUME NEW q \in Requests, RequestRollback(q)
      PROVE  UNCHANGED <<incidents, audit>>
  BY <1>9 DEF RequestRollback
<1> QED BY <1>1, <1>2, <1>3, <1>4, <1>5, <1>6, <1>7, <1>8, <1>9 DEF Next

\* A committed decision is the row's status afterwards, whatever was written
\* since the handler read the row, except when it read that very status.
THEOREM ReviewTakesEffectAlways == Spec => ReviewTakesEffect
<1>1. ASSUME Typed, ReadsFollowed, [Next]_vars, NEW r \in Requests,
             req[r].pc = "flushed", req[r].action # "MANUAL",
             audit' # audit \/ incidents' # incidents, req'[r].pc = "done"
      PROVE  \/ incidents'[req[r].id].status = StatusOf[req[r].action]
             \/ req[r].snap.status = StatusOf[req[r].action]
  <2>1. RequestCommit(r)
    BY <1>1, RequestEnds
  <2> QED BY <1>1, <2>1, CommitRow
<1>2. Typed /\ ReadsFollowed /\ [Next]_vars
        => [\A r \in Requests :
              /\ req[r].pc = "flushed"
              /\ req[r].action # "MANUAL"
              /\ audit' # audit \/ incidents' # incidents
              /\ req'[r].pc = "done"
              => \/ incidents'[req[r].id].status = StatusOf[req[r].action]
                 \/ req[r].snap.status = StatusOf[req[r].action]]_vars
  BY <1>1
<1> QED BY <1>2, ReadsFollowedAlways, PTL DEF Spec, ReviewTakesEffect

-----------------------------------------------------------------------------
(* Nothing the worker holds is dropped without a word: what leaves its memory  *)
(* was notified, reviewed or escalated, or is among the forgotten.             *)

WorkInv == KeyInv /\ OnceInv

LEMMA WorkInvStep == WorkInv /\ [Next]_vars => WorkInv'
BY KeyInvStep, OnceInvStep DEF WorkInv

\* Effects and the record of what was forgotten only grow.
LEMMA RecordsGrow ==
    ASSUME [Next]_vars
    PROVE  sent \subseteq sent' /\ forgotten \subseteq forgotten'
<1> USE DEF database, worker, history
<1>1. CASE UNCHANGED vars
  BY <1>1 DEF vars
<1>2. ASSUME NEW k \in Keys, NEW sev \in Severities, DispatchNew(k, sev)
      PROVE  UNCHANGED <<sent, forgotten>>
  BY <1>2 DEF DispatchNew
<1>3. CASE DispatcherStep
  BY <1>3 DEF DispatcherStep, PersistIncident, PersistFails, RefreshFails,
              AuditDispatch, FinishDispatch
<1>4. CASE TimerStep
  BY <1>4 DEF TimerStep, StartCheck, EscalateRead, EscalateSkip, EscalateCommit,
              EscalateFails, EscalateAckLost, GiveUp, EscalatePush
<1>5. CASE (\E i \in Ids : BecomeOverdue(i)) \/ RestartWorker
  BY <1>5 DEF BecomeOverdue, RestartWorker
<1>6. ASSUME NEW r \in Requests,
             \/ \E i \in Ids, action \in RequestActions : RequestRead(r, i, action)
             \/ RequestFlush(r) \/ RequestCommit(r) \/ RequestRollback(r)
      PROVE  sent \subseteq sent' /\ forgotten \subseteq forgotten'
  BY <1>6 DEF RequestRead, RequestFlush, RequestCommit, RequestRollback
<1> QED BY <1>1, <1>2, <1>3, <1>4, <1>5, <1>6 DEF Next

\* The timer leaves its push by making it, or by the end of the process.
LEMMA PushEnds ==
    ASSUME WorkInv, [Next]_vars, timer.pc = "push", ~UNCHANGED timer
    PROVE  <<"emergency", timer.id>> \in sent' \/ timer.id \in forgotten'
<1> USE DEF database, worker, history
<1>1. CASE UNCHANGED vars
  BY <1>1 DEF vars
<1>2. ASSUME NEW k \in Keys, NEW sev \in Severities, DispatchNew(k, sev)
      PROVE  UNCHANGED timer
  BY <1>2 DEF DispatchNew
<1>3. ASSUME DispatcherStep
      PROVE  UNCHANGED timer
  BY <1>3 DEF DispatcherStep, PersistIncident, PersistFails, RefreshFails,
              AuditDispatch, FinishDispatch
<1>4. ASSUME NEW i \in Ids, BecomeOverdue(i)
      PROVE  UNCHANGED timer
  BY <1>4 DEF BecomeOverdue
<1>5. ASSUME NEW i \in Ids, EscalateRead(i) \/ EscalateSkip(i) \/ EscalateCommit(i)
                            \/ EscalateFails(i) \/ EscalateAckLost(i) \/ StartCheck
      PROVE  FALSE
  BY <1>5 DEF EscalateRead, EscalateSkip, EscalateCommit, EscalateFails,
              EscalateAckLost, EscalationWrite, StartCheck
<1>6. ASSUME StartCheck
      PROVE  FALSE
  BY <1>6 DEF StartCheck
<1>7. CASE EscalatePush
  BY <1>7 DEF EscalatePush
<1>8. CASE RestartWorker
  BY <1>8 DEF RestartWorker, WorkInv, KeyInv, Tracked
<1>9. ASSUME NEW r \in Requests,
             \/ \E i \in Ids, action \in RequestActions : RequestRead(r, i, action)
             \/ RequestFlush(r) \/ RequestCommit(r) \/ RequestRollback(r)
      PROVE  UNCHANGED timer
  BY <1>9 DEF RequestRead, RequestFlush, RequestCommit, RequestRollback
<1> QED BY <1>1, <1>2, <1>3, <1>4, <1>5, <1>6, <1>7, <1>8, <1>9 DEF Next, TimerStep

\* The escalation of an incident leaves the timer at its push, or gives up.
LEMMA EscalationLeads ==
    ASSUME WorkInv, [Next]_vars, NEW i \in Ids, alerts'[i].auto # alerts[i].auto
    PROVE  (timer'.pc = "push" /\ timer'.id = i) \/ i \in forgotten'
<1> USE DEF WorkInv, KeyInv, Typed, TypeOK, database, worker, history
<1>1. CASE UNCHANGED vars
  BY <1>1 DEF vars
<1>2. ASSUME NEW k \in Keys, NEW sev \in Severities, DispatchNew(k, sev)
      PROVE  UNCHANGED alerts
  BY <1>2 DEF DispatchNew
<1>3. ASSUME DispatcherStep
      PROVE  UNCHANGED alerts
  BY <1>3 DEF DispatcherStep, PersistIncident, PersistFails, RefreshFails,
              AuditDispatch, FinishDispatch
<1>4. ASSUME NEW j \in Ids, BecomeOverdue(j) \/ EscalateRead(j) \/ EscalateSkip(j)
                            \/ EscalateFails(j)
      PROVE  UNCHANGED alerts
  BY <1>4 DEF BecomeOverdue, EscalateRead, EscalateSkip, EscalateFails
<1>5. ASSUME StartCheck \/ EscalatePush \/ RestartWorker
      PROVE  UNCHANGED alerts
  BY <1>5 DEF StartCheck, EscalatePush, RestartWorker
<1>6. ASSUME NEW j \in Ids, EscalateCommit(j)
      PROVE  i = j /\ timer'.pc = "push" /\ timer'.id = i
  <2>1. i = j
    BY <1>6 DEF EscalateCommit, EscalationWrite
  <2> QED BY <1>6, <2>1 DEF EscalateCommit, EscalationWrite
<1>7. ASSUME NEW j \in Ids, EscalateAckLost(j)
      PROVE  i \in forgotten'
  <2>1. i = j
    BY <1>7 DEF EscalateAckLost, EscalationWrite
  <2> QED BY <1>7, <2>1 DEF EscalateAckLost, GiveUp
<1>8. ASSUME NEW r \in Requests,
             \/ \E j \in Ids, action \in RequestActions : RequestRead(r, j, action)
             \/ RequestFlush(r) \/ RequestRollback(r)
      PROVE  UNCHANGED alerts
  BY <1>8 DEF RequestRead, RequestFlush, RequestRollback
<1>9. ASSUME NEW r \in Requests, RequestCommit(r)
      PROVE  alerts'[i].auto = alerts[i].auto
  BY <1>9 DEF RequestCommit, Carried
<1> QED BY <1>1, <1>2, <1>3, <1>4, <1>5, <1>6, <1>7, <1>8, <1>9 DEF Next, TimerStep

NotifiedInv == WorkInv /\ EscalationNotified

LEMMA NotifiedInvInit == Init => NotifiedInv
BY KeyInvInit, OnceInvInit DEF NotifiedInv, WorkInv, Init, EscalationNotified

LEMMA NotifiedInvStep == NotifiedInv /\ [Next]_vars => NotifiedInv'
<1> SUFFICES ASSUME NotifiedInv, [Next]_vars PROVE NotifiedInv'
  OBVIOUS
<1> USE DEF NotifiedInv
<1>1. WorkInv'
  BY WorkInvStep
<1>2. ASSUME NEW i \in Ids, alerts'[i].auto > 0
      PROVE  \/ <<"emergency", i>> \in sent'
             \/ timer'.pc = "push" /\ timer'.id = i
             \/ i \in forgotten'
  <2>1. CASE alerts'[i].auto # alerts[i].auto
    BY <2>1, EscalationLeads
  <2>2. CASE alerts'[i].auto = alerts[i].auto
    <3>1. \/ <<"emergency", i>> \in sent
          \/ timer.pc = "push" /\ timer.id = i
          \/ i \in forgotten
      BY <1>2, <2>2 DEF EscalationNotified
    <3> QED BY <3>1, PushEnds, RecordsGrow
  <2> QED BY <2>1, <2>2
<1> QED BY <1>1, <1>2 DEF EscalationNotified

\* Whoever escalates also notifies: no step takes an escalated incident out of
\* the timer's hands without its emergency notification, but a fault or a restart.
THEOREM EscalationNotifiedAlways == Spec => []EscalationNotified
BY NotifiedInvInit, NotifiedInvStep, PTL DEF Spec, NotifiedInv

-----------------------------------------------------------------------------
(* Nor is an incident that waits for its review: what makes it wait hands it   *)
(* to the timer, and the timer lets go of what was reviewed or escalated.      *)

\* Incident i is in the timer's registry, on its way there, or was given up.
Held(i) ==
    \/ i \in registry \cup forgotten
    \/ disp.pc \in {"audit", "push"} /\ disp.id = i /\ disp.severity = "MEDIUM"

LEMMA InsertedHeld ==
    ASSUME WorkInv, [Next]_vars, NEW i \in Ids, ~Persisted(i),
           incidents'[i].status = "ACTIVE_REVIEW"
    PROVE  Held(i)'
<1> USE DEF WorkInv, KeyInv, Typed, TypeOK, database, worker, history
<1>1. incidents'[i] # incidents[i]
  BY DEF Persisted
<1>2. ASSUME NEW j \in Ids, PersistIncident(j)
      PROVE  Held(i)'
  <2>1. /\ incidents' = [incidents EXCEPT ![j] =
                           NewRow(disp.severity, disp.severity = "HIGH")]
        /\ disp' = [disp EXCEPT !.pc = "audit", !.id = j]
    BY <1>2 DEF PersistIncident, InsertRow
  <2>2. i = j /\ incidents'[i] = NewRow(disp.severity, disp.severity = "HIGH")
    BY <1>1, <2>1
  <2>3. disp.severity = "MEDIUM"
    BY <2>2, RowInserted
  <2> QED BY <2>1, <2>2, <2>3 DEF Held
<1>3. ASSUME NEW j \in Ids, RefreshFails(j)
      PROVE  Held(i)'
  <2>1. i = j
    BY <1>1, <1>3 DEF RefreshFails, InsertRow
  <2> QED BY <1>3, <2>1 DEF RefreshFails, Held
<1>4. ASSUME NEW j \in Ids, EscalationWrite(j)
      PROVE  FALSE
  <2>1. i = j
    BY <1>1, <1>4 DEF EscalationWrite
  <2> QED BY <1>4, <2>1, EscalationRow
<1>5. ASSUME NEW r \in Requests, RequestCommit(r)
      PROVE  FALSE
  <2>1. req[r].id = i
    BY <1>1, <1>5 DEF RequestCommit
  <2>2. incidents[i].status # "ABSENT"
    BY <1>5, <2>1 DEF RequestCommit, ReadsFollowed, Follows
  <2> QED BY <2>2 DEF Persisted
<1>6. ASSUME UNCHANGED incidents
      PROVE  FALSE
  BY <1>1, <1>6
<1>7. ASSUME \/ \E k \in Keys, sev \in Severities : DispatchNew(k, sev)
             \/ PersistFails \/ AuditDispatch \/ FinishDispatch
             \/ \E j \in Ids : \/ BecomeOverdue(j) \/ EscalateRead(j)
                               \/ EscalateSkip(j) \/ EscalateFails(j)
             \/ StartCheck \/ EscalatePush \/ RestartWorker \/ UNCHANGED vars
             \/ \E r \in Requests :
                  \/ \E j \in Ids, action \in RequestActions : RequestRead(r, j, action)
                  \/ RequestFlush(r) \/ RequestRollback(r)
      PROVE  UNCHANGED incidents
  BY <1>7 DEF DispatchNew, PersistFails, AuditDispatch, FinishDispatch, BecomeOverdue,
              EscalateRead, EscalateSkip, EscalateFails, StartCheck, EscalatePush,
              RestartWorker, vars, RequestRead, RequestFlush, RequestRollback
<1> QED BY <1>2, <1>3, <1>4, <1>5, <1>6, <1>7
        DEF Next, DispatcherStep, TimerStep, EscalateCommit, EscalateAckLost

LEMMA HeldStays ==
    ASSUME WorkInv, [Next]_vars, NEW i \in Ids, Held(i),
           incidents[i].status = "ACTIVE_REVIEW"
    PROVE  Held(i)'
<1> USE DEF WorkInv, KeyInv, Typed, TypeOK, database, worker, history
<1>1. CASE UNCHANGED vars
  BY <1>1 DEF vars, Held
<1>2. ASSUME NEW k \in Keys, NEW sev \in Severities, DispatchNew(k, sev)
      PROVE  Held(i)'
  BY <1>2 DEF DispatchNew, Held
<1>3. ASSUME NEW j \in Ids, PersistIncident(j) \/ RefreshFails(j)
      PROVE  Held(i)'
  BY <1>3 DEF PersistIncident, RefreshFails, Held
<1>4. CASE PersistFails \/ AuditDispatch
  BY <1>4 DEF PersistFails, AuditDispatch, Held
<1>5. CASE FinishDispatch
  BY <1>5 DEF FinishDispatch, Held
<1>6. ASSUME NEW j \in Ids, BecomeOverdue(j) \/ EscalateRead(j) \/ EscalateCommit(j)
      PROVE  Held(i)'
  BY <1>6 DEF BecomeOverdue, EscalateRead, EscalateCommit, Held
<1>7. ASSUME NEW j \in Ids, EscalateSkip(j)
      PROVE  Held(i)'
  <2>1. i # j
    BY <1>7 DEF EscalateSkip, Unreviewed
  <2> QED BY <1>7, <2>1 DEF EscalateSkip, Deregister, Held
<1>8. ASSUME NEW j \in Ids, EscalateFails(j) \/ EscalateAckLost(j)
      PROVE  Held(i)'
  <2>1. GiveUp(j) /\ UNCHANGED disp
    BY <1>8 DEF EscalateFails, EscalateAckLost, GiveUp
  <2> QED BY <2>1 DEF GiveUp, Deregister, Held
<1>9. CASE EscalatePush
  <2>1. i # timer.id
    BY <1>9 DEF EscalatePush, OnceInv, EscalatedOnce, Unreviewed, Carried
  <2> QED BY <1>9, <2>1 DEF EscalatePush, Deregister, Held
<1>10. CASE StartCheck
  BY <1>10 DEF StartCheck, Held
<1>11. CASE RestartWorker
  BY <1>11 DEF RestartWorker, Held, Tracked
<1>12. ASSUME NEW r \in Requests,
              \/ \E j \in Ids, action \in RequestActions : RequestRead(r, j, action)
              \/ RequestFlush(r) \/ RequestCommit(r) \/ RequestRollback(r)
       PROVE  Held(i)'
  BY <1>12 DEF RequestRead, RequestFlush, RequestCommit, RequestRollback, Held
<1> QED BY <1>1, <1>2, <1>3, <1>4, <1>5, <1>6, <1>7, <1>8, <1>9, <1>10, <1>11, <1>12
        DEF Next, DispatcherStep, TimerStep

HeldInv == WorkInv /\ NothingForgotten

LEMMA HeldInvInit == Init => HeldInv
BY KeyInvInit, OnceInvInit DEF HeldInv, WorkInv, Init, NothingForgotten, NoRow

LEMMA HeldInvStep == HeldInv /\ [Next]_vars => HeldInv'
<1> SUFFICES ASSUME HeldInv, [Next]_vars PROVE HeldInv'
  OBVIOUS
<1> USE DEF HeldInv
<1>1. WorkInv' /\ Typed /\ ReadsFollowed
  BY WorkInvStep DEF WorkInv, OnceInv
<1>2. ASSUME NEW i \in Ids, incidents'[i].status = "ACTIVE_REVIEW"
      PROVE  Held(i)'
  <2>1. CASE ~Persisted(i)
    BY <1>2, <2>1, InsertedHeld
  <2>2. CASE Persisted(i)
    <3>1. incidents[i].status = "ACTIVE_REVIEW"
      <4>1. ~Inserted(i)
        BY <2>2 DEF Inserted, Persisted, NoRow
      <4> QED BY <1>1, <1>2, <4>1, RowWriters, EscalationRow, CommitRow DEF Closed
    <3>2. Held(i)
      BY <3>1 DEF NothingForgotten, Held
    <3> QED BY <3>1, <3>2, HeldStays
  <2> QED BY <2>1, <2>2
<1> QED BY <1>1, <1>2 DEF NothingForgotten, Held

\* A MEDIUM incident that waits for its review never slips out of the timer's
\* hands: it is registered, about to be, or a fault or a restart took it out.
THEOREM NothingForgottenAlways == Spec => []NothingForgotten
BY HeldInvInit, HeldInvStep, PTL DEF Spec, HeldInv
=============================================================================
