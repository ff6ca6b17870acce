--------------------------- MODULE DispatchProofs ---------------------------
(***************************************************************************)
(* Proofs about the job protocol, for any number of agents, workers,       *)
(* previews, faults and requests.                                          *)
(*                                                                         *)
(* Neither property is about messages: whatever the bags hold, what        *)
(* matters is which writes the hub's handlers can make of what they read   *)
(* earlier.  HolderNamed needs to know that a worker that is about to      *)
(* claim still has the agent it will write into the row, and that the      *)
(* table is one; NotRequeuedUnderBuild needs that the reconciler's list is *)
(* of previews and that its write is a CAS.                                *)
(*                                                                         *)
(* Dispatch implements PreviewLifecycle: each write of a handler is one of *)
(* its steps, and everything else a stutter.  LifeInv adds to HolderInv    *)
(* that handlers close and syncOnHello fails only previews that exist.     *)
(*                                                                         *)
(* ClaimedOnce is about messages: ClaimInv says where a preview has none.  *)
(* The types of the bags (BagsTyped) come last.                            *)
(***************************************************************************)
EXTENDS Dispatch, PreviewsTheory

Placed == {"assigned", "building", "running"}
Named(t) == \A i \in Id : t[i].status \in Placed => t[i].agent # NULL

\* A worker about to claim knows for whom.
TaskOK(t) == /\ t \in Task \cup {Idle}
             /\ t # Idle /\ t.op = "claim" => t.agent \in Agent

HolderInv == /\ rows \in Tables
             /\ stales \subseteq Id
             /\ task \in [Worker -> Task \cup {Idle}]
             /\ \A w \in Worker : TaskOK(task[w])
             /\ Named(rows)

-----------------------------------------------------------------------------
(* What the writes do to the name of the holder. *)

LEMMA UpdatedNames ==
    ASSUME NEW t \in Tables, NEW i \in Id, NEW to \in Statuses, NEW f \in Fields,
           Named(t), to \in Placed => f.agent # NULL
    PROVE  /\ Named(Updated(t, i, to, f))
           /\ Updated(t, i, to, f)[i].status = to
           /\ \A j \in Id \ {i} : Updated(t, i, to, f)[j] = t[j]
<1>1. t[i] \in Row
  BY DEF Tables
<1> DEFINE r == [t[i] EXCEPT !.status = to, !.fresh = TRUE, !.urls = f.urls,
                             !.agent = Coalesce(f.agent, t[i].agent),
                             !.sha = Coalesce(t[i].sha, f.sha)]
<1>2. r.status = to /\ r.agent = Coalesce(f.agent, t[i].agent)
  BY <1>1 DEF Row
<1>3. to \in Placed => r.agent # NULL
  BY <1>2 DEF Coalesce
<1>4. Updated(t, i, to, f) = [t EXCEPT ![i] = r]
  BY DEF Updated
<1> HIDE DEF r
<1>5. QED
  BY <1>2, <1>3, <1>4 DEF Named, Tables

LEMMA InsertedNames ==
    ASSUME NEW t \in Tables, NEW i \in Id, NEW d, Named(t)
    PROVE  /\ Named(Inserted(t, i, d))
           /\ \A j \in Id \ {i} : Inserted(t, i, d)[j] = t[j]
BY DEF Inserted, Named, Tables, Placed

LEMMA ClaimedNames ==
    ASSUME NEW t \in Tables, NEW i \in Id, NEW a \in Agent, Named(t)
    PROVE  /\ Named(ClaimedBy(t, i, a))
           /\ ClaimedBy(t, i, a)[i].status = "assigned"
           /\ \A j \in Id \ {i} : ClaimedBy(t, i, a)[j] = t[j]
<1>1. t[i] \in Row
  BY DEF Tables
<1> DEFINE r == [t[i] EXCEPT !.status = "assigned", !.agent = a, !.fresh = TRUE]
<1>2. r.status = "assigned" /\ r.agent # NULL
  BY <1>1, NullIsNoValue DEF Row
<1>3. ClaimedBy(t, i, a) = [t EXCEPT ![i] = r]
  BY DEF ClaimedBy
<1> HIDE DEF r
<1>4. QED
  BY <1>2, <1>3 DEF Named, Tables

LEMMA AgedNames ==
    ASSUME NEW t \in Tables, NEW i \in Id, Named(t)
    PROVE  /\ Named(Aged(t, i))
           /\ \A j \in Id : Aged(t, i)[j].status = t[j].status
<1>1. t[i] \in Row
  BY DEF Tables
<1>2. QED
  BY <1>1 DEF Named, Tables, Row, Aged

LEMMA ResetNames ==
    ASSUME NEW t \in Tables, Named(t)
    PROVE  /\ Named(AssignedReset(t))
           /\ \A j \in Id : t[j].status # "assigned" => AssignedReset(t)[j] = t[j]
<1>1. ASSUME NEW j \in Id
      PROVE  /\ AssignedReset(t)[j].status \in Placed => AssignedReset(t)[j].agent # NULL
             /\ t[j].status # "assigned" => AssignedReset(t)[j] = t[j]
  <2>1. t[j] \in Row
    BY DEF Tables
  <2>2. AssignedReset(t)[j] = IF t[j].status = "assigned"
                              THEN [t[j] EXCEPT !.status = "queued", !.agent = NULL, !.fresh = TRUE]
                              ELSE t[j]
    BY DEF AssignedReset
  <2>3. QED
    BY <2>1, <2>2 DEF Row, Named, Placed
<1>2. QED
  BY <1>1 DEF Named

LEMMA EmptyFields == NoFields \in Fields
BY DEF NoFields, Fields

LEMMA ReportFields ==
    ASSUME NEW a \in Agent, NEW s \in {"building", "running", "failed", "done"}
    PROVE  /\ FieldsFrom(a, s) \in Fields
           /\ s \in Placed => FieldsFrom(a, s).agent # NULL
BY NullIsNoValue DEF FieldsFrom, Fields, Placed

LEMMA DraftOfSubmission ==
    ASSUME NEW i \in Id, NEW adhoc \in BOOLEAN
    PROVE  Submission(i, adhoc) \in Draft
BY SourcesAssumption, LabelsAssumption DEF Submission, Draft

-----------------------------------------------------------------------------
(* What workers take on. *)

LEMMA OfferedOK ==
    ASSUME NEW rest \in SUBSET Agent
    PROVE  TaskOK(Offered(rest))
BY DEF Offered, TaskOK, TaskOf, Task

LEMMA OfferOK ==
    ASSUME NEW a \in Agent, NEW rest \in SUBSET Agent
    PROVE  TaskOK(Offer(a, rest))
<1>1. Candidates(a) \in SUBSET Id
  BY DEF Candidates, ListQueued, WithStatus
<1>2. TaskOK(TaskOf("claim", a, Candidates(a), NULL, rest))
  BY <1>1 DEF TaskOK, TaskOf, Task
<1>3. QED
  BY <1>2, OfferedOK DEF Offer

LEMMA TaskWrite ==
    ASSUME HolderInv, NEW w \in Worker, NEW t, TaskOK(t),
           task' = [task EXCEPT ![w] = t]
    PROVE  /\ task' \in [Worker -> Task \cup {Idle}]
           /\ \A v \in Worker : TaskOK(task'[v])
<1>1. t \in Task \cup {Idle}
  BY DEF TaskOK
<1>2. QED
  BY <1>1 DEF HolderInv

-----------------------------------------------------------------------------
(* Every step keeps HolderInv and requeues nothing that is under build. *)

KeepsBuilds == \A i \in Id : rows[i].status \in {"building", "running", "teardown"}
                                => rows'[i].status # "queued"

LEMMA HubUnchanged ==
    ASSUME HolderInv, UNCHANGED hub
    PROVE  HolderInv' /\ KeepsBuilds
BY DEF HolderInv, hub, Named, TaskOK, KeepsBuilds

\* A write by UpdateStatus, and nothing else of the hub's.
LEMMA StatusWrite ==
    ASSUME HolderInv, NEW i \in Id, NEW to \in Statuses, NEW f \in Fields,
           to \in Placed => f.agent # NULL,
           rows' = Updated(rows, i, to, f),
           to = "queued" => rows[i].status \notin {"building", "running", "teardown"}
    PROVE  rows' \in Tables /\ Named(rows') /\ KeepsBuilds
<1>1. rows' \in Tables
  BY UpdatedType DEF HolderInv
<1>2. /\ Named(rows')
      /\ rows'[i].status = to
      /\ \A j \in Id \ {i} : rows'[j] = rows[j]
  BY UpdatedNames DEF HolderInv
<1>3. KeepsBuilds
  BY <1>2 DEF KeepsBuilds
<1>4. QED
  BY <1>1, <1>2, <1>3

LEMMA NewRow ==
    ASSUME HolderInv, NEW i \in Id, NEW adhoc \in BOOLEAN, ~Exists(rows, i),
           rows' = Inserted(rows, i, Submission(i, adhoc))
    PROVE  rows' \in Tables /\ Named(rows') /\ KeepsBuilds
<1>1. rows' \in Tables
  BY DraftOfSubmission, InsertedType DEF HolderInv
<1>2. /\ Named(rows')
      /\ \A j \in Id \ {i} : rows'[j] = rows[j]
  BY InsertedNames DEF HolderInv
<1>3. rows[i].status = "absent"
  BY DEF Exists
<1>4. KeepsBuilds
  BY <1>2, <1>3 DEF KeepsBuilds
<1>5. QED
  BY <1>1, <1>2, <1>4

LEMMA HolderStep == HolderInv /\ [Next]_vars => HolderInv' /\ [KeepsBuilds]_vars
<1> SUFFICES ASSUME HolderInv, [Next]_vars
             PROVE  HolderInv' /\ KeepsBuilds
  OBVIOUS
<1>1. ASSUME NEW a \in Agent,
             Connect(a) \/ Welcome(a) \/ Disconnect(a) \/ AgentRestart(a) \/ SyncList(a)
      PROVE  HolderInv' /\ KeepsBuilds
  BY <1>1, HubUnchanged
     DEF Connect, Welcome, Disconnect, AgentRestart, SyncList
<1>2. ASSUME NEW a \in Agent, NEW i \in Id,
             \/ StartJob(a, i) \/ ExpireJob(a, i) \/ TeardownJob(a, i)
             \/ \E s \in {"running", "failed"} : FinishJob(a, i, s)
             \/ SyncOrphan(a, i)
      PROVE  HolderInv' /\ KeepsBuilds
  <2>1. UNCHANGED hub
    BY <1>2 DEF StartJob, ExpireJob, TeardownJob, FinishJob, SyncOrphan
  <2>2. QED
    BY <2>1, HubUnchanged
<1>3. ASSUME NEW a \in Agent, NEW i \in Id, NEW s \in {"building", "running", "failed", "done"},
             OnStatusUpdate(a, i, s)
      PROVE  HolderInv' /\ KeepsBuilds
  <2>1. UNCHANGED <<stales, task>>
    BY <1>3 DEF OnStatusUpdate
  <2>2. CASE rows' = rows
    BY <2>1, <2>2, HubUnchanged DEF hub
  <2>3. CASE rows' = Updated(rows, i, s, FieldsFrom(a, s))
    <3>1. s \in Statuses
      BY DEF Statuses
    <3>2. rows' \in Tables /\ Named(rows') /\ KeepsBuilds
      BY <2>3, <3>1, ReportFields, StatusWrite
    <3>3. QED
      BY <2>1, <3>2 DEF HolderInv, TaskOK
  <2>4. QED
    BY <1>3, <2>2, <2>3 DEF OnStatusUpdate
<1>4. ASSUME NEW a \in Agent, NEW i \in Id, SyncLost(a, i)
      PROVE  HolderInv' /\ KeepsBuilds
  <2>1. UNCHANGED <<stales, task>>
    BY <1>4 DEF SyncLost
  <2>2. CASE rows' = rows
    BY <2>1, <2>2, HubUnchanged DEF hub
  <2>3. CASE rows' = Updated(rows, i, "failed", NoFields)
    <3>1. rows' \in Tables /\ Named(rows') /\ KeepsBuilds
      BY <2>3, EmptyFields, StatusWrite DEF Statuses, Placed
    <3>2. QED
      BY <2>1, <3>1 DEF HolderInv, TaskOK
  <2>4. QED
    BY <1>4, <2>2, <2>3 DEF SyncLost
<1>5. ASSUME NEW w \in Worker, NEW a \in Agent, OnReady(w, a) \/ Trigger(w, a)
      PROVE  HolderInv' /\ KeepsBuilds
  <2>1. UNCHANGED <<rows, stales>>
    BY <1>5 DEF OnReady, Trigger
  <2>2. PICK t : TaskOK(t) /\ task' = [task EXCEPT ![w] = t]
    <3>1. CASE OnReady(w, a)
      BY <3>1, OfferOK DEF OnReady
    <3>2. CASE Trigger(w, a)
      <4>1. task[w] \in Task
        BY <3>2 DEF Trigger, HolderInv
      <4>2. task[w].rest \ {a} \in SUBSET Agent
        BY <4>1 DEF Task
      <4>3. QED
        BY <3>2, <4>2, OfferOK DEF Trigger
    <3>3. QED
      BY <1>5, <3>1, <3>2
  <2>3. QED
    BY <2>1, <2>2, TaskWrite DEF HolderInv, Named, KeepsBuilds
<1>6. ASSUME NEW w \in Worker, Claim(w)
      PROVE  HolderInv' /\ KeepsBuilds
  <2>1. /\ task[w] \in Task
        /\ task[w].agent \in Agent
        /\ task[w].rest \in SUBSET Agent
        /\ UNCHANGED stales
    BY <1>6 DEF Claim, HolderInv, TaskOK, Task
  <2>2. ASSUME NEW i \in Id, rows' = ClaimedBy(rows, i, task[w].agent),
               ToClaim(rows, task[w].ids, i),
               task' = [task EXCEPT ![w] = TaskOf("assign", task[w].agent, {i}, NULL, task[w].rest)]
        PROVE  HolderInv' /\ KeepsBuilds
    <3>1. TaskOK(TaskOf("assign", task[w].agent, {i}, NULL, task[w].rest))
      BY <2>1 DEF TaskOK, TaskOf, Task
    <3>2. rows' \in Tables
      BY <2>1, <2>2, ClaimedType DEF HolderInv
    <3>3. /\ Named(rows')
          /\ rows'[i].status = "assigned"
          /\ \A j \in Id \ {i} : rows'[j] = rows[j]
      BY <2>1, <2>2, ClaimedNames DEF HolderInv
    <3>4. QED
      BY <2>1, <2>2, <3>1, <3>2, <3>3, TaskWrite DEF HolderInv, KeepsBuilds
  <2>3. CASE UNCHANGED rows /\ task' = [task EXCEPT ![w] = Offered(task[w].rest)]
    BY <2>1, <2>3, OfferedOK, TaskWrite DEF HolderInv, Named, KeepsBuilds
  <2>4. QED
    BY <1>6, <2>2, <2>3 DEF Claim
<1>7. ASSUME NEW w \in Worker, SendJobAssign(w)
      PROVE  HolderInv' /\ KeepsBuilds
  <2>1. task[w].rest \in SUBSET Agent /\ UNCHANGED <<rows, stales>>
    BY <1>7 DEF SendJobAssign, HolderInv, Task
  <2>2. task' = [task EXCEPT ![w] = Offered(task[w].rest)]
    BY <1>7 DEF SendJobAssign
  <2>3. QED
    BY <2>1, <2>2, OfferedOK, TaskWrite DEF HolderInv, Named, KeepsBuilds
<1>8. ASSUME NEW w \in Worker, Close(w)
      PROVE  HolderInv' /\ KeepsBuilds
  <2>1. /\ task[w] \in Task
        /\ task[w].agent \in Agent \cup {NULL}
        /\ UNCHANGED stales
    BY <1>8 DEF Close, HolderInv, Task
  <2>2. TaskOK(Idle)
    BY DEF TaskOK
  <2>3. ASSUME NEW i \in Id,
               rows' = Updated(rows, i, "teardown", NoFields),
               task' = [task EXCEPT ![w] = IF task[w].agent = NULL THEN Idle
                                           ELSE TaskOf("teardown", task[w].agent, {i}, NULL, {})]
        PROVE  HolderInv' /\ KeepsBuilds
    <3>1. rows' \in Tables /\ Named(rows') /\ KeepsBuilds
      BY <2>3, EmptyFields, StatusWrite DEF Statuses, Placed
    <3>2. TaskOK(TaskOf("teardown", task[w].agent, {i}, NULL, {}))
      BY <2>1 DEF TaskOK, TaskOf, Task
    <3>3. QED
      BY <2>1, <2>2, <2>3, <3>1, <3>2, TaskWrite DEF HolderInv
  <2>4. CASE UNCHANGED rows /\ task' = [task EXCEPT ![w] = Idle]
    BY <2>1, <2>2, <2>4, TaskWrite DEF HolderInv, Named, KeepsBuilds
  <2>5. task[w].ids \subseteq Id
    BY <2>1 DEF Task
  <2>6. QED
    BY <1>8, <2>3, <2>4, <2>5 DEF Close
<1>9. ASSUME NEW w \in Worker, SendTeardown(w)
      PROVE  HolderInv' /\ KeepsBuilds
  <2>1. task' = [task EXCEPT ![w] = Idle] /\ UNCHANGED <<rows, stales>>
    BY <1>9 DEF SendTeardown
  <2>2. TaskOK(Idle)
    BY DEF TaskOK
  <2>3. QED
    BY <2>1, <2>2, TaskWrite DEF HolderInv, Named, KeepsBuilds
<1>10. ASSUME NEW w \in Worker, NEW i \in Id, ReadToClose(w, i) \/ ReadToStop(w, i)
       PROVE  HolderInv' /\ KeepsBuilds
  <2>1. rows[i] \in Row /\ UNCHANGED <<rows, stales>>
    BY <1>10 DEF ReadToClose, ReadToStop, HolderInv, Tables
  <2>2. PICK from \in Statuses \cup {NULL} :
           task' = [task EXCEPT ![w] = TaskOf("close", rows[i].agent, {i}, from, {})]
    BY <1>10 DEF ReadToClose, ReadToStop, Statuses
  <2>3. TaskOK(TaskOf("close", rows[i].agent, {i}, from, {}))
    BY <2>1 DEF TaskOK, TaskOf, Task, Row
  <2>4. QED
    BY <2>1, <2>2, <2>3, TaskWrite DEF HolderInv, Named, KeepsBuilds
<1>11. ASSUME NEW i \in Id, Webhook(i)
       PROVE  HolderInv' /\ KeepsBuilds
  <2>1. rows' \in Tables /\ Named(rows') /\ KeepsBuilds
    BY <1>11, NewRow DEF Webhook
  <2>2. QED
    BY <1>11, <2>1 DEF Webhook, HolderInv, TaskOK
<1>12. ASSUME NEW w \in Worker, NEW i \in Id, TestBuild(w, i)
       PROVE  HolderInv' /\ KeepsBuilds
  <2>1. rows' \in Tables /\ Named(rows') /\ KeepsBuilds
    BY <1>12, NewRow DEF TestBuild
  <2>2. TaskOK(Offered(Registered))
    BY OfferedOK DEF Registered
  <2>3. QED
    BY <1>12, <2>1, <2>2, TaskWrite DEF TestBuild, HolderInv
<1>13. ASSUME NEW i \in Id, Reopen(i)
       PROVE  HolderInv' /\ KeepsBuilds
  <2>1. rows' \in Tables /\ Named(rows') /\ KeepsBuilds
    BY <1>13, EmptyFields, StatusWrite DEF Reopen, Statuses, Placed
  <2>2. QED
    BY <1>13, <2>1 DEF Reopen, HolderInv, TaskOK
<1>14. ASSUME NEW w \in Worker, NEW i \in Id, Rebuild(w, i)
       PROVE  HolderInv' /\ KeepsBuilds
  <2>1. rows' \in Tables /\ Named(rows') /\ KeepsBuilds
    BY <1>14, EmptyFields, StatusWrite DEF Rebuild, Statuses, Placed
  <2>2. TaskOK(Offered(Registered))
    BY OfferedOK DEF Registered
  <2>3. QED
    BY <1>14, <2>1, <2>2, TaskWrite DEF Rebuild, HolderInv
<1>15. ASSUME NEW i \in Id, Age(i)
       PROVE  HolderInv' /\ KeepsBuilds
  <2>1. rows' \in Tables /\ Named(rows') /\ KeepsBuilds
    BY <1>15, AgedType, AgedNames DEF Age, HolderInv, KeepsBuilds
  <2>2. QED
    BY <1>15, <2>1 DEF Age, HolderInv, TaskOK
<1>16. ASSUME ReconcileList
       PROVE  HolderInv' /\ KeepsBuilds
  BY <1>16 DEF ReconcileList, ListStaleAssigned, WithStatus, HolderInv, Named, TaskOK, KeepsBuilds
<1>17. ASSUME NEW i \in Id, ReconcileRow(i)
       PROVE  HolderInv' /\ KeepsBuilds
  <2>1. UNCHANGED task /\ stales' \subseteq Id
    BY <1>17 DEF ReconcileRow, HolderInv
  <2>2. CASE rows' = rows
    BY <2>1, <2>2 DEF HolderInv, Named, TaskOK, KeepsBuilds
  <2>3. CASE rows[i].status = "assigned" /\ rows' = Updated(rows, i, "queued", NoFields)
    <3>1. rows' \in Tables /\ Named(rows') /\ KeepsBuilds
      BY <2>3, EmptyFields, StatusWrite DEF Statuses, Placed
    <3>2. QED
      BY <2>1, <3>1 DEF HolderInv, TaskOK
  <2>4. rows' = rows \/ (rows[i].status = "assigned" /\ rows' = Updated(rows, i, "queued", NoFields))
    <3>1. StaleState(rows, i, "assigned") <=> rows[i].status # "assigned"
      BY NullIsNoValue DEF StaleState, Statuses
    <3>2. QED
      BY <1>17, <3>1 DEF ReconcileRow
  <2>5. QED
    BY <2>2, <2>3, <2>4
<1>18. ASSUME HubRestart
       PROVE  HolderInv' /\ KeepsBuilds
  <2>1. rows' \in Tables /\ Named(rows') /\ KeepsBuilds
    BY <1>18, ResetType, ResetNames DEF HubRestart, HolderInv, KeepsBuilds
  <2>2. stales' = {} /\ task' = [w \in Worker |-> Idle]
    BY <1>18 DEF HubRestart
  <2>3. QED
    BY <2>1, <2>2 DEF HolderInv, TaskOK
<1>19. CASE UNCHANGED vars
  BY <1>19, HubUnchanged DEF vars, hub
<1>20. QED
  BY <1>1, <1>2, <1>3, <1>4, <1>5, <1>6, <1>7, <1>8, <1>9, <1>10, <1>11, <1>12, <1>13,
     <1>14, <1>15, <1>16, <1>17, <1>18, <1>19 DEF Next

LEMMA HolderInit == Init => HolderInv
<1>1. Blank \in Row
  BY DEF Blank, Row
<1>2. QED
  BY <1>1 DEF Init, HolderInv, Tables, Named, Placed, TaskOK, Blank

LEMMA HolderInvariant == Spec => []HolderInv
BY HolderInit, HolderStep, PTL DEF Spec

\* Whatever is lost, late or restarted, a preview that counts as being on an
\* agent names the agent: close, stop and the HELLO synchronisation find it.
THEOREM HolderIsNamed == Spec => []HolderNamed
<1>1. HolderInv => HolderNamed
  BY DEF HolderInv, Named, Placed, HolderNamed
<1>2. QED
  BY <1>1, HolderInvariant, PTL

\* No handler, however old what it read is, puts a preview back into the queue
\* that an agent has reported on and nobody has ended.
THEOREM BuildsStayOffQueue == Spec => NotRequeuedUnderBuild
<1>1. HolderInv /\ [Next]_vars => [KeepsBuilds]_vars
  BY HolderStep
<1>2. QED
  BY <1>1, HolderInvariant, PTL DEF Spec, NotRequeuedUnderBuild, KeepsBuilds

-----------------------------------------------------------------------------
(* The refinement of PreviewLifecycle.  It needs that a handler closes, and *)
(* syncOnHello fails, only previews that are there: a worker about to close *)
(* has read the row, and what syncOnHello lists has a status.               *)

Seen == <<Phases(rows), Holders(rows), Commits(rows)>>

SyncOK == /\ link \in [Agent -> {"down", "registered", "up"}]
          /\ sync \in [Agent -> Sync \cup {NoSync}]
          /\ \A a \in Agent : link[a] = "registered" => sync[a] \in [stage : {"hello"}, ids : SUBSET Id]
CloseOK == \A w \in Worker : task[w] # Idle /\ task[w].op = "close" => task[w].ids \subseteq Existing(rows)
HeldOK == building \in [Agent -> SUBSET Id] /\ jobs \in [Agent -> SUBSET Id]

LifeInv == HolderInv /\ SyncOK /\ CloseOK /\ HeldOK

\* A write that empties, takes back or ends.
LEMMA PlainWrite ==
    ASSUME HolderInv, NEW i \in Id, Exists(rows, i), NEW to \in Statuses,
           rows' = Updated(rows, i, to, NoFields),
           to \in {"teardown", "failed", "done"}
             \/ (to = "queued" /\ rows[i].status \in {"assigned", "done", "failed"})
    PROVE  Lifecycle!Next
<1> DEFINE phase == Phases(rows)
<1>1. rows \in Tables
  BY DEF HolderInv
<1>2. phase' = [phase EXCEPT ![i] = Phase(to)] /\ UNCHANGED <<Holders(rows), Commits(rows)>>
  <2>1. /\ Coalesce(NoFields.agent, rows[i].agent) = rows[i].agent
        /\ Coalesce(rows[i].sha, NoFields.sha) = rows[i].sha
    BY DEF NoFields, Coalesce
  <2>2. /\ [Holders(rows) EXCEPT ![i] = rows[i].agent] = Holders(rows)
        /\ [Commits(rows) EXCEPT ![i] = rows[i].sha] = Commits(rows)
    BY DEF Holders, Commits
  <2>3. QED
    BY <1>1, <2>1, <2>2, UpdatedSeen
<1>3. phase[i] = Phase(rows[i].status) /\ phase[i] # "absent"
  BY DEF Phases, Phase, Exists
<1>4. CASE to = "teardown"
  <2>1. Lifecycle!Close(i)
    BY <1>2, <1>3, <1>4 DEF Lifecycle!Close, Lifecycle!Known, Lifecycle!Into, Phase
  <2>2. QED
    BY <2>1 DEF Lifecycle!Next
<1>5. CASE to \in {"failed", "done"}
  <2>1. Lifecycle!End(i)
    BY <1>2, <1>3, <1>5 DEF Lifecycle!End, Lifecycle!Known, Lifecycle!Into, Phase
  <2>2. QED
    BY <2>1 DEF Lifecycle!Next
<1>6. CASE to = "queued"
  <2>1. Lifecycle!Requeue(i)
    BY <1>2, <1>3, <1>6 DEF Lifecycle!Requeue, Lifecycle!Into, Phase
  <2>2. QED
    BY <2>1 DEF Lifecycle!Next
<1>7. QED
  BY <1>4, <1>5, <1>6

\* building and running, of whatever the row was.
LEMMA ReportWrite ==
    ASSUME HolderInv, NEW i \in Id, Exists(rows, i), NEW a \in Agent, NEW s \in {"building", "running"},
           rows' = Updated(rows, i, s, FieldsFrom(a, s))
    PROVE  Lifecycle!Next
<1>1. rows \in Tables /\ rows[i] \in Row
  BY DEF HolderInv, Tables
<1>2. /\ FieldsFrom(a, s).sha = NULL /\ FieldsFrom(a, s).agent = a
      /\ Coalesce(a, rows[i].agent) = a
      /\ Coalesce(rows[i].sha, NULL) = rows[i].sha
  BY NullIsNoValue DEF FieldsFrom, Coalesce
<1>3. /\ Phases(rows)' = [Phases(rows) EXCEPT ![i] = Phase(s)]
      /\ Holders(rows)' = [Holders(rows) EXCEPT ![i] = a]
      /\ Commits(rows)' = [Commits(rows) EXCEPT ![i] = rows[i].sha]
  BY <1>1, <1>2, UpdatedSeen
<1>4. Phases(rows)[i] # "absent" /\ Phase(s) = "live" /\ Commits(rows)[i] = rows[i].sha
  BY DEF Phases, Commits, Phase, Exists
<1>5. Lifecycle!Report(i, a, rows[i].sha)
  BY <1>3, <1>4 DEF Lifecycle!Report, Lifecycle!Known, Lifecycle!Into
<1>6. rows[i].sha \in Sha \cup {NULL}
  BY <1>1 DEF Row
<1>7. QED
  BY <1>5, <1>6 DEF Lifecycle!Next

LEMMA SubmitWrite ==
    ASSUME HolderInv, NEW i \in Id, NEW adhoc \in BOOLEAN, ~Exists(rows, i),
           rows' = Inserted(rows, i, Submission(i, adhoc))
    PROVE  Lifecycle!Next
<1>1. rows \in Tables /\ Submission(i, adhoc) \in Draft
  BY DraftOfSubmission DEF HolderInv
<1>2. Phases(rows)[i] = "absent"
  BY DEF Phases, Phase, Exists
<1>3. Lifecycle!Submit(i, Submission(i, adhoc).sha)
  BY <1>1, <1>2, InsertedSeen DEF Lifecycle!Submit, Lifecycle!Into
<1>4. QED
  BY <1>1, <1>3 DEF Lifecycle!Next, Draft

LEMMA RowsLife == LifeInv /\ [Next]_vars => Lifecycle!Next \/ UNCHANGED Seen
<1> SUFFICES ASSUME LifeInv, [Next]_vars
             PROVE  Lifecycle!Next \/ UNCHANGED Seen
  OBVIOUS
<1>0. HolderInv /\ rows \in Tables
  BY DEF LifeInv, HolderInv
<1>1. CASE UNCHANGED rows
  BY <1>1 DEF Seen
<1>2. ASSUME NEW a \in Agent, NEW i \in Id, NEW s \in {"building", "running", "failed", "done"},
             OnStatusUpdate(a, i, s), rows' # rows
      PROVE  Lifecycle!Next
  <2>1. Exists(rows, i) /\ rows' = Updated(rows, i, s, FieldsFrom(a, s))
    BY <1>2 DEF OnStatusUpdate, CanUpdate
  <2>2. CASE s \in {"building", "running"}
    BY <1>0, <2>1, <2>2, ReportWrite
  <2>3. CASE s \in {"failed", "done"}
    <3>1. FieldsFrom(a, s) = NoFields
      BY <2>3 DEF FieldsFrom, NoFields
    <3>2. QED
      BY <1>0, <2>1, <2>3, <3>1, PlainWrite DEF Statuses
  <2>4. QED
    BY <2>2, <2>3
<1>3. ASSUME NEW a \in Agent, NEW i \in Id, SyncLost(a, i), rows' # rows
      PROVE  Lifecycle!Next
  <2>1. sync[a].lost[i] \in Statuses
    BY <1>3 DEF SyncLost, LifeInv, SyncOK, Sync
  <2>2. rows[i].status = sync[a].lost[i] /\ rows' = Updated(rows, i, "failed", NoFields)
    BY <1>3, <2>1, NullIsNoValue DEF SyncLost, StaleState
  <2>3. Exists(rows, i)
    BY <2>1, <2>2 DEF Exists, Statuses
  <2>4. QED
    BY <1>0, <2>2, <2>3, PlainWrite DEF Statuses
<1>4. ASSUME NEW w \in Worker, Claim(w), rows' # rows
      PROVE  Lifecycle!Next
  <2>1. task[w].agent \in Agent
    BY <1>0, <1>4 DEF Claim, HolderInv, TaskOK
  <2>2. PICK i \in Id : ToClaim(rows, task[w].ids, i) /\ rows' = ClaimedBy(rows, i, task[w].agent)
    BY <1>4 DEF Claim
  <2>3. Phases(rows)[i] = "waiting"
    BY <2>2 DEF ToClaim, WithStatus, Phases, Phase
  <2>4. Lifecycle!Offer(i, task[w].agent)
    BY <1>0, <2>2, <2>3, ClaimedSeen DEF Lifecycle!Offer, Lifecycle!Into
  <2>5. QED
    BY <2>1, <2>4 DEF Lifecycle!Next
<1>5. ASSUME NEW w \in Worker, Close(w), rows' # rows
      PROVE  Lifecycle!Next
  <2>1. PICK i \in task[w].ids : rows' = Updated(rows, i, "teardown", NoFields)
    BY <1>5 DEF Close
  <2>2. i \in Id /\ Exists(rows, i)
    BY <1>5, <2>1 DEF Close, LifeInv, CloseOK, Existing
  <2>3. QED
    BY <1>0, <2>1, <2>2, PlainWrite DEF Statuses
<1>6. ASSUME NEW i \in Id, \/ Webhook(i)
                           \/ \E w \in Worker : TestBuild(w, i)
      PROVE  Lifecycle!Next
  <2>1. PICK adhoc \in BOOLEAN : ~Exists(rows, i) /\ rows' = Inserted(rows, i, Submission(i, adhoc))
    BY <1>6 DEF Webhook, TestBuild
  <2>2. QED
    BY <1>0, <2>1, SubmitWrite
<1>7. ASSUME NEW i \in Id, \/ Reopen(i)
                           \/ \E w \in Worker : Rebuild(w, i)
      PROVE  Lifecycle!Next
  <2>1. rows[i].status \in {"done", "failed"} /\ rows' = Updated(rows, i, "queued", NoFields)
    BY <1>7 DEF Reopen, Rebuild
  <2>2. QED
    BY <1>0, <2>1, PlainWrite DEF Statuses, Exists
<1>8. ASSUME NEW i \in Id, ReconcileRow(i), rows' # rows
      PROVE  Lifecycle!Next
  <2>1. rows[i].status = "assigned" /\ rows' = Updated(rows, i, "queued", NoFields)
    BY <1>8, NullIsNoValue DEF ReconcileRow, StaleState, Statuses
  <2>2. QED
    BY <1>0, <2>1, PlainWrite DEF Statuses, Exists
<1>9. ASSUME NEW i \in Id, Age(i)
      PROVE  UNCHANGED Seen
  BY <1>0, <1>9, Unseen DEF Age, Seen
<1>10. CASE HubRestart
  <2>1. Lifecycle!Restart
    BY <1>0, <1>10, ResetSeen DEF HubRestart, Lifecycle!Restart
  <2>2. QED
    BY <2>1 DEF Lifecycle!Next
<1>11. ASSUME NEW a \in Agent,
              Connect(a) \/ Welcome(a) \/ Disconnect(a) \/ AgentRestart(a) \/ SyncList(a)
       PROVE  UNCHANGED rows
  BY <1>11 DEF Connect, Welcome, Disconnect, AgentRestart, SyncList, hub
<1>12. ASSUME NEW a \in Agent, NEW i \in Id,
              \/ StartJob(a, i) \/ ExpireJob(a, i) \/ TeardownJob(a, i)
              \/ \E s \in {"running", "failed"} : FinishJob(a, i, s)
              \/ SyncOrphan(a, i)
       PROVE  UNCHANGED rows
  BY <1>12 DEF StartJob, ExpireJob, TeardownJob, FinishJob, SyncOrphan, hub
<1>13. ASSUME NEW w \in Worker, \/ \E a \in Agent : OnReady(w, a) \/ Trigger(w, a)
                                \/ SendJobAssign(w) \/ SendTeardown(w)
                                \/ \E i \in Id : ReadToClose(w, i) \/ ReadToStop(w, i)
       PROVE  UNCHANGED rows
  BY <1>13 DEF OnReady, Trigger, SendJobAssign, SendTeardown, ReadToClose, ReadToStop
<1>14. CASE ReconcileList
  BY <1>14 DEF ReconcileList, Seen
<1>15. CASE UNCHANGED vars
  BY <1>15 DEF vars, Seen
<1>16. QED
  BY <1>1, <1>2, <1>3, <1>4, <1>5, <1>6, <1>7, <1>8, <1>9, <1>10, <1>11, <1>12, <1>13, <1>14, <1>15
  DEF Next

\* What is left of a synchronisation is one, or none.
LEMMA FixingType ==
    ASSUME NEW orphans \in SUBSET Id, NEW lost \in [Id -> Statuses \cup {NULL}]
    PROVE  Fixing(orphans, lost) \in Sync \cup {NoSync}
BY DEF Fixing, Sync

LEMMA SyncStep == LifeInv /\ [Next]_vars => SyncOK'
<1> SUFFICES ASSUME LifeInv, [Next]_vars
             PROVE  SyncOK'
  OBVIOUS
<1>0. /\ link \in [Agent -> {"down", "registered", "up"}]
      /\ sync \in [Agent -> Sync \cup {NoSync}]
      /\ \A a \in Agent : link[a] = "registered" => sync[a] \in [stage : {"hello"}, ids : SUBSET Id]
  BY DEF LifeInv, SyncOK
<1>1. CASE UNCHANGED <<link, sync>>
  BY <1>0, <1>1 DEF SyncOK
\* A send, by a handler that leaves the rest of sync alone.
<1>2. ASSUME NEW a \in Agent, NEW m, SendToAgent(a, m), sync' = SyncAfterSend(a)
      PROVE  SyncOK'
  <2>1. CASE link[a] = "registered"
    BY <1>0, <1>2, <2>1 DEF SendToAgent, SyncAfterSend, SyncOK
  <2>2. CASE link[a] # "registered"
    BY <1>0, <1>2, <2>2 DEF SendToAgent, SyncAfterSend, SyncOK
  <2>3. QED
    BY <2>1, <2>2
\* A connection that ends.
<1>3. ASSUME NEW a \in Agent, link' = [link EXCEPT ![a] = "down"], sync' = [sync EXCEPT ![a] = NoSync]
      PROVE  SyncOK'
  BY <1>0, <1>3 DEF SyncOK
\* A step of syncOnHello itself, after WELCOME.
<1>4. ASSUME NEW a \in Agent, NEW x \in Sync \cup {NoSync}, sync' = [sync EXCEPT ![a] = x],
             link[a] # "registered", UNCHANGED link
      PROVE  SyncOK'
  BY <1>0, <1>4 DEF SyncOK
<1>5. ASSUME NEW a \in Agent, Connect(a)
      PROVE  SyncOK'
  <2>1. Held(a) \subseteq Id
    BY DEF Held, LifeInv, HeldOK
  <2>2. QED
    BY <1>0, <1>5, <2>1 DEF Connect, SyncOK, Sync
<1>6. ASSUME NEW a \in Agent, Welcome(a)
      PROVE  SyncOK'
  <2>1. sync[a] \in [stage : {"hello"}, ids : SUBSET Id]
    BY <1>0, <1>6 DEF Welcome
  <2> DEFINE x == [sync[a] EXCEPT !.stage = "list"]
  <2>2. x \in Sync
    BY <2>1 DEF Sync
  <2>3. sync' = [sync EXCEPT ![a] = x] /\ link' = [link EXCEPT ![a] = "up"]
    BY <1>6 DEF Welcome
  <2> HIDE DEF x
  <2>4. QED
    BY <1>0, <2>2, <2>3 DEF SyncOK
<1>7. ASSUME NEW a \in Agent, SyncList(a)
      PROVE  SyncOK'
  <2>1. sync[a] \in [stage : {"list"}, ids : SUBSET Id] /\ link[a] # "registered"
    BY <1>0, <1>7 DEF SyncList, Sync
  <2>2. PICK lost \in [Id -> Statuses \cup {NULL}], orphans \in SUBSET Id :
           sync' = [sync EXCEPT ![a] = Fixing(orphans, lost)]
    <3> DEFINE listed == ListByAgent(rows, a, {"assigned", "building", "running", "teardown"})
               missing == listed \ sync[a].ids
               lost == [i \in Id |-> IF i \in missing THEN rows[i].status ELSE NULL]
    <3>1. \A i \in missing : rows[i].status \in Statuses
      BY DEF ListByAgent, WithStatus, Statuses
    <3>2. lost \in [Id -> Statuses \cup {NULL}]
      BY <3>1
    <3>3. sync[a].ids \ listed \in SUBSET Id
      BY <2>1
    <3>4. sync' = [sync EXCEPT ![a] = Fixing(sync[a].ids \ listed, lost)]
      BY <1>7 DEF SyncList
    <3> HIDE DEF lost
    <3>5. QED
      BY <3>2, <3>3, <3>4
  <2>3. UNCHANGED link
    BY <1>7 DEF SyncList
  <2>4. QED
    BY <1>4, <2>1, <2>2, <2>3, FixingType
<1>8. ASSUME NEW a \in Agent, NEW i \in Id, SyncOrphan(a, i)
      PROVE  SyncOK'
  <2>1. sync[a] \in [stage : {"fix"}, orphans : SUBSET Id, lost : [Id -> Statuses \cup {NULL}]]
        /\ link[a] # "registered"
    BY <1>0, <1>8 DEF SyncOrphan, Sync
  <2>2. sync' = [sync EXCEPT ![a] = Fixing(sync[a].orphans \ {i}, sync[a].lost)]
    BY <1>8 DEF SyncOrphan
  <2>3. UNCHANGED link
    BY <1>8, <2>1 DEF SyncOrphan, SendToAgent
  <2>4. QED
    BY <1>4, <2>1, <2>2, <2>3, FixingType
<1>9. ASSUME NEW a \in Agent, NEW i \in Id, SyncLost(a, i)
      PROVE  SyncOK'
  <2>1. sync[a] \in [stage : {"fix"}, orphans : SUBSET Id, lost : [Id -> Statuses \cup {NULL}]]
        /\ link[a] # "registered"
    BY <1>0, <1>9 DEF SyncLost, Sync
  <2>2. sync' = [sync EXCEPT ![a] = Fixing({}, [sync[a].lost EXCEPT ![i] = NULL])] /\ UNCHANGED link
    BY <1>9 DEF SyncLost
  <2>3. [sync[a].lost EXCEPT ![i] = NULL] \in [Id -> Statuses \cup {NULL}]
    BY <2>1
  <2>4. QED
    BY <1>4, <2>1, <2>2, <2>3, FixingType
<1>10. ASSUME NEW a \in Agent, Disconnect(a) \/ AgentRestart(a)
       PROVE  SyncOK'
  BY <1>3, <1>10 DEF Disconnect, AgentRestart
<1>11. CASE HubRestart
  BY <1>11 DEF HubRestart, SyncOK
<1>12. ASSUME NEW w \in Worker, SendJobAssign(w)
       PROVE  SyncOK'
  <2>1. task[w].agent \in Agent \cup {NULL}
    BY <1>12 DEF SendJobAssign, LifeInv, HolderInv, Task
  <2>2. PICK i \in task[w].ids : SendToAgent(task[w].agent, JOB_ASSIGN(i))
    BY <1>12 DEF SendJobAssign
  <2>3. sync' = SyncAfterSend(task[w].agent)
    BY <1>12 DEF SendJobAssign
  <2>4. CASE task[w].agent \in Agent
    BY <1>2, <2>2, <2>3, <2>4
  <2>5. CASE task[w].agent = NULL
    BY <1>0, <2>2, <2>3, <2>5, NullIsNoValue DEF SendToAgent, SyncAfterSend, SyncOK
  <2>6. QED
    BY <2>1, <2>4, <2>5
<1>13. ASSUME NEW w \in Worker, SendTeardown(w)
       PROVE  SyncOK'
  <2>1. task[w].agent \in Agent \cup {NULL}
    BY <1>13 DEF SendTeardown, LifeInv, HolderInv, Task
  <2>2. PICK i \in task[w].ids : SendToAgent(task[w].agent, JOB_TEARDOWN(i))
    BY <1>13 DEF SendTeardown
  <2>3. sync' = SyncAfterSend(task[w].agent)
    BY <1>13 DEF SendTeardown
  <2>4. CASE task[w].agent \in Agent
    BY <1>2, <2>2, <2>3, <2>4
  <2>5. CASE task[w].agent = NULL
    BY <1>0, <2>2, <2>3, <2>5, NullIsNoValue DEF SendToAgent, SyncAfterSend, SyncOK
  <2>6. QED
    BY <2>1, <2>4, <2>5
<1>14. ASSUME NEW a \in Agent, NEW i \in Id,
              \/ StartJob(a, i) \/ ExpireJob(a, i) \/ TeardownJob(a, i)
              \/ \E s \in {"running", "failed"} : FinishJob(a, i, s)
              \/ \E s \in {"building", "running", "failed", "done"} : OnStatusUpdate(a, i, s)
       PROVE  UNCHANGED <<link, sync>>
  BY <1>14 DEF StartJob, ExpireJob, TeardownJob, FinishJob, OnStatusUpdate
<1>15. ASSUME NEW w \in Worker, \/ \E a \in Agent : OnReady(w, a) \/ Trigger(w, a)
                                \/ Claim(w) \/ Close(w)
                                \/ \E i \in Id : \/ TestBuild(w, i) \/ Rebuild(w, i)
                                                 \/ ReadToClose(w, i) \/ ReadToStop(w, i)
       PROVE  UNCHANGED <<link, sync>>
  BY <1>15 DEF OnReady, Trigger, Claim, Close, TestBuild, Rebuild, ReadToClose, ReadToStop
<1>16. ASSUME NEW i \in Id, Webhook(i) \/ Reopen(i) \/ Age(i) \/ ReconcileRow(i) \/ ReconcileList
       PROVE  UNCHANGED <<link, sync>>
  BY <1>16 DEF Webhook, Reopen, Age, ReconcileRow, ReconcileList
<1>17. CASE ReconcileList \/ UNCHANGED vars
  BY <1>1, <1>17 DEF ReconcileList, vars
<1>18. QED
  BY <1>1, <1>5, <1>6, <1>7, <1>8, <1>9, <1>10, <1>11, <1>12, <1>13, <1>14, <1>15, <1>16, <1>17
  DEF Next

LEMMA HeldStep == LifeInv /\ [Next]_vars => HeldOK'
<1> SUFFICES ASSUME LifeInv, [Next]_vars
             PROVE  HeldOK'
  OBVIOUS
<1>1. CASE UNCHANGED <<building, jobs>>
  BY <1>1 DEF LifeInv, HeldOK
<1>2. ASSUME NEW a \in Agent, NEW i \in Id,
             \/ StartJob(a, i) \/ ExpireJob(a, i) \/ TeardownJob(a, i)
             \/ \E s \in {"running", "failed"} : FinishJob(a, i, s)
      PROVE  HeldOK'
  <2>1. /\ building' \in {building, [building EXCEPT ![a] = building[a] \cup {i}],
                          [building EXCEPT ![a] = building[a] \ {i}]}
        /\ jobs' \in {jobs, [jobs EXCEPT ![a] = jobs[a] \cup {i}], [jobs EXCEPT ![a] = jobs[a] \ {i}]}
    BY <1>2 DEF StartJob, ExpireJob, TeardownJob, FinishJob
  <2>2. QED
    BY <2>1 DEF LifeInv, HeldOK
<1>3. ASSUME NEW a \in Agent, AgentRestart(a)
      PROVE  HeldOK'
  <2>1. PICK created \in SUBSET Id : jobs' = [jobs EXCEPT ![a] = (jobs[a] \cup created) \cap Dockerfile]
    BY <1>3 DEF AgentRestart
  <2>2. building' = [building EXCEPT ![a] = {}]
    BY <1>3 DEF AgentRestart
  <2>3. QED
    BY <2>1, <2>2 DEF LifeInv, HeldOK
<1>4. ASSUME NEW a \in Agent, Connect(a) \/ Welcome(a) \/ Disconnect(a) \/ SyncList(a)
      PROVE  UNCHANGED <<building, jobs>>
  BY <1>4 DEF Connect, Welcome, Disconnect, SyncList, agent
<1>5. ASSUME NEW a \in Agent, NEW i \in Id,
             \/ SyncOrphan(a, i) \/ SyncLost(a, i)
             \/ \E s \in {"building", "running", "failed", "done"} : OnStatusUpdate(a, i, s)
      PROVE  UNCHANGED <<building, jobs>>
  BY <1>5 DEF SyncOrphan, SyncLost, OnStatusUpdate, agent
<1>6. ASSUME NEW w \in Worker, \/ \E a \in Agent : OnReady(w, a) \/ Trigger(w, a)
                               \/ Claim(w) \/ Close(w) \/ SendJobAssign(w) \/ SendTeardown(w)
                               \/ \E i \in Id : \/ TestBuild(w, i) \/ Rebuild(w, i)
                                                \/ ReadToClose(w, i) \/ ReadToStop(w, i)
      PROVE  UNCHANGED <<building, jobs>>
  BY <1>6 DEF OnReady, Trigger, Claim, Close, SendJobAssign, SendTeardown, TestBuild, Rebuild,
              ReadToClose, ReadToStop, agent
<1>7. ASSUME NEW i \in Id, Webhook(i) \/ Reopen(i) \/ Age(i) \/ ReconcileRow(i)
      PROVE  UNCHANGED <<building, jobs>>
  BY <1>7 DEF Webhook, Reopen, Age, ReconcileRow, agent
<1>8. CASE ReconcileList \/ HubRestart \/ UNCHANGED vars
  BY <1>1, <1>8 DEF ReconcileList, HubRestart, vars, agent
<1>9. QED
  BY <1>1, <1>2, <1>3, <1>4, <1>5, <1>6, <1>7, <1>8 DEF Next

\* A preview that is there stays, so what a worker read to close it can close.
LEMMA CloseStep == LifeInv /\ [Next]_vars => CloseOK'
<1> SUFFICES ASSUME LifeInv, [Next]_vars, NEW w \in Worker,
                    task'[w] # Idle, task'[w].op = "close"
             PROVE  task'[w].ids \subseteq Existing(rows')
  BY DEF CloseOK
<1>1. Existing(rows) \subseteq Existing(rows')
  <2>1. \A i \in Id : Exists(rows, i) <=> Phases(rows)[i] # "absent"
    BY DEF Exists, Phases, Phase
  <2>2. \A i \in Id : Exists(rows', i) <=> Phases(rows')[i] # "absent"
    BY DEF Exists, Phases, Phase
  <2>3. \A i \in Id : Phases(rows)[i] # "absent" => Phases(rows')[i] # "absent"
    <3>1. Lifecycle!Next \/ UNCHANGED Seen
      BY RowsLife
    <3>2. Phases(rows) = [i \in Id |-> Phases(rows)[i]]
      BY DEF Phases
    <3>3. QED
      BY <3>1, <3>2 DEF Seen, Lifecycle!Next, Lifecycle!Submit, Lifecycle!Offer, Lifecycle!Report,
         Lifecycle!Close, Lifecycle!End, Lifecycle!Requeue, Lifecycle!Restart, Lifecycle!Forget,
         Lifecycle!Into
  <2>4. QED
    BY <2>1, <2>2, <2>3 DEF Existing
<1>2. CASE task'[w] = task[w]
  BY <1>1, <1>2 DEF LifeInv, CloseOK
<1>3. ASSUME NEW i \in Id, ReadToClose(w, i) \/ ReadToStop(w, i)
      PROVE  task'[w].ids \subseteq Existing(rows')
  <2>1. i \in Existing(rows) /\ UNCHANGED rows
    BY <1>3 DEF ReadToClose, ReadToStop, Existing, Exists
  <2>2. task'[w].ids = {i}
    BY <1>3 DEF ReadToClose, ReadToStop, TaskOf, LifeInv, HolderInv
  <2>3. QED
    BY <2>1, <2>2
\* No other step gives a worker a preview to close.
<1>4. ASSUME NEW v \in Worker, NEW t, task' = [task EXCEPT ![v] = t], t = Idle \/ t.op # "close"
      PROVE  task'[w] = task[w]
  BY <1>4 DEF LifeInv, HolderInv
<1>5. \A rest : Offered(rest) = Idle \/ Offered(rest).op # "close"
  BY DEF Offered, TaskOf
<1>6. \A a \in Agent : \A rest : Offer(a, rest) = Idle \/ Offer(a, rest).op # "close"
  BY <1>5 DEF Offer, TaskOf
<1>7. ASSUME NEW v \in Worker, \/ \E a \in Agent : OnReady(v, a) \/ Trigger(v, a)
                               \/ SendJobAssign(v) \/ SendTeardown(v)
                               \/ \E i \in Id : TestBuild(v, i) \/ Rebuild(v, i)
      PROVE  task'[w] = task[w]
  <2>1. CASE \E a \in Agent : OnReady(v, a) \/ Trigger(v, a)
    BY <1>4, <1>6, <2>1 DEF OnReady, Trigger
  <2>2. CASE SendJobAssign(v)
    BY <1>4, <1>5, <2>2 DEF SendJobAssign
  <2>3. CASE SendTeardown(v)
    BY <1>4, <2>3 DEF SendTeardown
  <2>4. CASE \E i \in Id : TestBuild(v, i) \/ Rebuild(v, i)
    BY <1>4, <1>5, <2>4 DEF TestBuild, Rebuild
  <2>5. QED
    BY <1>7, <2>1, <2>2, <2>3, <2>4
<1>8. ASSUME NEW v \in Worker, Claim(v)
      PROVE  task'[w] = task[w]
  <2>1. \A a, ids, rest : TaskOf("assign", a, ids, NULL, rest).op # "close"
    BY DEF TaskOf
  <2>2. CASE task' = [task EXCEPT ![v] = Offered(task[v].rest)]
    BY <1>4, <1>5, <2>2
  <2>3. ASSUME NEW i \in Id,
               task' = [task EXCEPT ![v] = TaskOf("assign", task[v].agent, {i}, NULL, task[v].rest)]
        PROVE  task'[w] = task[w]
    BY <1>4, <2>1, <2>3
  <2>4. QED
    BY <1>8, <2>2, <2>3 DEF Claim
<1>9. ASSUME NEW v \in Worker, Close(v)
      PROVE  task'[w] = task[w]
  <2>1. \A a, ids : TaskOf("teardown", a, ids, NULL, {}).op # "close"
    BY DEF TaskOf
  <2>2. QED
    BY <1>4, <1>9, <2>1 DEF Close
<1>10. ASSUME NEW v \in Worker, NEW i \in Id, ReadToClose(v, i) \/ ReadToStop(v, i), v # w
       PROVE  task'[w] = task[w]
  BY <1>10 DEF ReadToClose, ReadToStop, LifeInv, HolderInv
<1>11. ASSUME NEW a \in Agent,
              Connect(a) \/ Welcome(a) \/ Disconnect(a) \/ AgentRestart(a) \/ SyncList(a)
       PROVE  task'[w] = task[w]
  BY <1>11 DEF Connect, Welcome, Disconnect, AgentRestart, SyncList, hub
<1>12. ASSUME NEW a \in Agent, NEW i \in Id,
              \/ StartJob(a, i) \/ ExpireJob(a, i) \/ TeardownJob(a, i)
              \/ \E s \in {"running", "failed"} : FinishJob(a, i, s)
              \/ \E s \in {"building", "running", "failed", "done"} : OnStatusUpdate(a, i, s)
              \/ SyncOrphan(a, i) \/ SyncLost(a, i)
       PROVE  task'[w] = task[w]
  BY <1>12 DEF StartJob, ExpireJob, TeardownJob, FinishJob, OnStatusUpdate, SyncOrphan, SyncLost, hub
<1>13. ASSUME NEW i \in Id, Webhook(i) \/ Reopen(i) \/ Age(i) \/ ReconcileRow(i)
       PROVE  task'[w] = task[w]
  BY <1>13 DEF Webhook, Reopen, Age, ReconcileRow
<1>14. CASE ReconcileList \/ UNCHANGED vars
  BY <1>2, <1>14 DEF ReconcileList, vars
<1>15. CASE HubRestart
  BY <1>15 DEF HubRestart
<1>16. QED
  BY <1>2, <1>3, <1>7, <1>8, <1>9, <1>10, <1>11, <1>12, <1>13, <1>14, <1>15 DEF Next

\* For any sets of agents, workers and previews: whatever the handlers of the hub
\* read before they write, whatever is lost, late or restarted, every preview has
\* a life PreviewLifecycle allows.
THEOREM DispatchImplementsLifecycle == Spec => ImplementsLifecycle
<1>1. Init => LifeInv
  BY HolderInit DEF Init, LifeInv, SyncOK, CloseOK, HeldOK
<1>2. LifeInv /\ [Next]_vars => LifeInv'
  BY HolderStep, SyncStep, CloseStep, HeldStep DEF LifeInv, CloseOK
<1>3. Init => Lifecycle!Init
  BY DEF Init, Lifecycle!Init, Phases, Holders, Commits, Phase, Blank
<1>4. LifeInv /\ [Next]_vars => [Lifecycle!Next]_(Lifecycle!vars)
  BY RowsLife DEF Seen, Lifecycle!vars
<1>5. QED
  BY <1>1, <1>2, <1>3, <1>4, PTL DEF Spec, ImplementsLifecycle, Lifecycle!Spec

-----------------------------------------------------------------------------
(* One claim is one job, as long as nothing fails and nobody asks for       *)
(* anything.  Calm says why: a preview that is queued, that was left        *)
(* assigned for long, or that the reconciler has listed, is Quiet, nothing  *)
(* about it being on its way; and while it is assigned, a Handle that works *)
(* on it has its building still in flight.  So a claim or a requeue never   *)
(* finds a carrier of the claim before.                                     *)

Reports == {"building", "running", "failed", "done"}

Undisturbed == faults = 0 /\ ops = 0

\* Nothing about i is under way.
Quiet(i) == /\ Carriers(i) = {}
            /\ \A a \in Agent : \A s \in Reports : toHub[a][STATUS_UPDATE(i, s)] = 0

\* How many READYs an agent sends is of no concern.
BagsOK == /\ DOMAIN toHub = Agent
          /\ \A a \in Agent : DOMAIN toHub[a] = HubMsg
          /\ \A a \in Agent, i \in Id : \A s \in Reports : toHub[a][STATUS_UPDATE(i, s)] \in Nat
          /\ toAgent \in [Agent -> [AgentMsg -> Nat]]
          /\ handles \in [Agent -> [Id -> Nat]]

\* An agent has nothing before its first connection is up, and HELLO says so.
Early == /\ \A a \in Agent : link[a] # "up" => Held(a) = {} /\ \A i \in Id : InHand(a, i) = 0
         /\ \A a \in Agent : sync[a] # NoSync =>
               IF sync[a].stage = "fix" THEN sync[a].orphans = {} ELSE sync[a].ids = {}

\* Nobody closes anything.
NoEnds == /\ \A a \in Agent, i \in Id : toAgent[a][JOB_TEARDOWN(i)] = 0
          /\ \A w \in Worker : task[w] # Idle =>
                /\ task[w].op \notin {"close", "teardown"}
                /\ task[w].op \in {"claim", "assign"} => task[w].agent \in Agent

Settled(i) ==
    /\ \A x, y \in Carriers(i) : x = y
    /\ \A a \in Agent : InHand(a, i) <= 1
    /\ rows[i].status \in {"absent", "queued"} => Quiet(i)
    /\ rows[i].status = "assigned" /\ ~rows[i].fresh => Quiet(i)
    /\ i \in stales => Quiet(i) /\ rows[i].status \notin {"absent", "queued"}
    /\ \A a \in Agent : rows[i].status = "assigned" /\ handles[a][i] > 0
                           => toHub[a][STATUS_UPDATE(i, "building")] > 0

Calm == BagsOK /\ Early /\ NoEnds /\ \A i \in Id : Settled(i)

ClaimInv == /\ LifeInv
            /\ faults \in Nat /\ ops \in Nat
            /\ Undisturbed => Calm

LEMMA MessagesDiffer ==
    /\ \A i \in Id : /\ JOB_ASSIGN(i) \in AgentMsg /\ JOB_TEARDOWN(i) \in AgentMsg
                     /\ \A s \in Reports : STATUS_UPDATE(i, s) \in HubMsg
                     /\ \A s : STATUS_UPDATE(i, s) # READY
    /\ READY \in HubMsg
    /\ \A i, j : /\ JOB_ASSIGN(i) = JOB_ASSIGN(j) => i = j
                 /\ JOB_ASSIGN(i) # JOB_TEARDOWN(j)
    /\ \A i, j, s, r : STATUS_UPDATE(i, s) = STATUS_UPDATE(j, r) => i = j /\ s = r
<1>1. \A i, s : STATUS_UPDATE(i, s).type = "STATUS_UPDATE" /\ STATUS_UPDATE(i, s).id = i
                /\ STATUS_UPDATE(i, s).status = s
  BY DEF STATUS_UPDATE
<1>2. READY.type = "READY" /\ READY \in HubMsg
  BY DEF READY, HubMsg
<1>3. \A i : /\ JOB_ASSIGN(i).type = "JOB_ASSIGN" /\ JOB_ASSIGN(i).id = i
             /\ JOB_TEARDOWN(i).type = "JOB_TEARDOWN"
  BY DEF JOB_ASSIGN, JOB_TEARDOWN
<1>4. \A i \in Id : /\ JOB_ASSIGN(i) \in AgentMsg /\ JOB_TEARDOWN(i) \in AgentMsg
                    /\ \A s \in Reports : STATUS_UPDATE(i, s) \in HubMsg
  BY DEF AgentMsg, HubMsg, Reports
<1>5. \A i, j, s, r : STATUS_UPDATE(i, s) = STATUS_UPDATE(j, r) => i = j /\ s = r
  BY <1>1
<1>6. \A i, j : JOB_ASSIGN(i) = JOB_ASSIGN(j) => i = j
  BY <1>3
<1>7. \A i, j : JOB_ASSIGN(i) # JOB_TEARDOWN(j)
  <2> SUFFICES ASSUME NEW i, NEW j, JOB_ASSIGN(i) = JOB_TEARDOWN(j)
               PROVE  FALSE
    OBVIOUS
  <2>1. JOB_ASSIGN(i).type = "JOB_ASSIGN" /\ JOB_TEARDOWN(j).type = "JOB_TEARDOWN"
    BY <1>3
  <2>2. QED
    BY <2>1
<1>8. \A i, s : STATUS_UPDATE(i, s) # READY
  BY <1>1, <1>2
<1>9. QED
  BY <1>2, <1>4, <1>5, <1>6, <1>7, <1>8

\* Carriers, without the set.
LEMMA CarriersAre ==
    ASSUME NEW i
    PROVE  /\ Carriers(i) = {} <=> /\ \A a \in Agent : ~(InHand(a, i) > 0)
                                   /\ \A w \in Worker : ~Sending(w, i)
           /\ (\A x, y \in Carriers(i) : x = y) <=>
                 /\ \A a, b \in Agent : InHand(a, i) > 0 /\ InHand(b, i) > 0 => a = b
                 /\ \A v, w \in Worker : Sending(v, i) /\ Sending(w, i) => v = w
                 /\ \A a \in Agent : \A w \in Worker : ~(InHand(a, i) > 0 /\ Sending(w, i))
<1>1. \A x : x \in Carriers(i) <=> \/ \E a \in Agent : InHand(a, i) > 0 /\ x = <<"agent", a>>
                                   \/ \E w \in Worker : Sending(w, i) /\ x = <<"worker", w>>
  BY DEF Carriers
<1>2. /\ \A a, b : <<"agent", a>> = <<"agent", b>> => a = b
      /\ \A v, w : <<"worker", v>> = <<"worker", w>> => v = w
      /\ \A a, w : <<"agent", a>> # <<"worker", w>>
  <2>1. \A x, y : /\ <<x, y>>[1] = x /\ <<x, y>>[2] = y
    OBVIOUS
  <2>2. QED
    BY <2>1
<1>3. Carriers(i) = {} <=> /\ \A a \in Agent : ~(InHand(a, i) > 0)
                           /\ \A w \in Worker : ~Sending(w, i)
  BY <1>1
<1>4. ASSUME \A x, y \in Carriers(i) : x = y
      PROVE  /\ \A a, b \in Agent : InHand(a, i) > 0 /\ InHand(b, i) > 0 => a = b
             /\ \A v, w \in Worker : Sending(v, i) /\ Sending(w, i) => v = w
             /\ \A a \in Agent : \A w \in Worker : ~(InHand(a, i) > 0 /\ Sending(w, i))
  <2>1. /\ \A a \in Agent : InHand(a, i) > 0 => <<"agent", a>> \in Carriers(i)
        /\ \A w \in Worker : Sending(w, i) => <<"worker", w>> \in Carriers(i)
    BY <1>1
  <2>2. QED
    BY <1>2, <1>4, <2>1
<1>5. ASSUME /\ \A a, b \in Agent : InHand(a, i) > 0 /\ InHand(b, i) > 0 => a = b
             /\ \A v, w \in Worker : Sending(v, i) /\ Sending(w, i) => v = w
             /\ \A a \in Agent : \A w \in Worker : ~(InHand(a, i) > 0 /\ Sending(w, i)),
             NEW x \in Carriers(i), NEW y \in Carriers(i)
      PROVE  x = y
  BY <1>1, <1>5
<1>6. QED
  BY <1>3, <1>4, <1>5

\* A preview that a step does not touch stays as it was.
LEMMA Untouched ==
    ASSUME NEW i \in Id, Settled(i),
           rows'[i] = rows[i],
           i \in stales' => i \in stales,
           \A a \in Agent : /\ toAgent'[a][JOB_ASSIGN(i)] = toAgent[a][JOB_ASSIGN(i)]
                            /\ handles'[a][i] = handles[a][i]
                            /\ \A s \in Reports : toHub'[a][STATUS_UPDATE(i, s)] = toHub[a][STATUS_UPDATE(i, s)],
           \A w \in Worker : Sending(w, i)' <=> Sending(w, i)
    PROVE  Settled(i)'
<1>1. \A a \in Agent : InHand(a, i)' = InHand(a, i)
  BY DEF InHand
<1>2. Carriers(i)' = Carriers(i)
  BY <1>1 DEF Carriers
<1>3. Quiet(i)' <=> Quiet(i)
  BY <1>2 DEF Quiet
<1>4. \A a \in Agent : toHub'[a][STATUS_UPDATE(i, "building")] = toHub[a][STATUS_UPDATE(i, "building")]
  BY DEF Reports
<1>5. QED
  BY <1>1, <1>2, <1>3, <1>4 DEF Settled

\* A step that leaves the hub and the jobs in flight alone keeps the previews.
LEMMA AllUntouched ==
    ASSUME Calm, UNCHANGED <<rows, stales, task, handles, toAgent>>,
           \A a \in Agent, i \in Id : \A s \in Reports :
              toHub'[a][STATUS_UPDATE(i, s)] = toHub[a][STATUS_UPDATE(i, s)]
    PROVE  \A i \in Id : Settled(i)'
<1> TAKE i \in Id
<1>1. Settled(i)
  BY DEF Calm
<1>2. \A w \in Worker : Sending(w, i)' <=> Sending(w, i)
  BY DEF Sending
<1>3. QED
  BY <1>1, <1>2, Untouched

\* Connections, and what syncOnHello finds.
LEMMA CalmConnect ==
    ASSUME LifeInv, Calm, NEW a \in Agent, Connect(a)
    PROVE  Calm'
<1>1. UNCHANGED <<rows, stales, task, handles, building, jobs, toHub, toAgent>>
  BY DEF Connect, hub, agent
<1>2. BagsOK' /\ NoEnds'
  BY <1>1 DEF Calm, BagsOK, NoEnds
<1>3. Held(a) = {}
  BY DEF Connect, Calm, Early
<1>4. /\ link' = [link EXCEPT ![a] = "registered"]
      /\ sync' = [sync EXCEPT ![a] = [stage |-> "hello", ids |-> {}]]
  BY <1>3 DEF Connect
<1>5. \A b \in Agent : Held(b)' = Held(b) /\ \A i : InHand(b, i)' = InHand(b, i)
  BY <1>1 DEF Held, InHand
<1>6. Early'
  BY <1>4, <1>5 DEF LifeInv, SyncOK, Connect, Calm, Early
<1>7. \A i \in Id : Settled(i)'
  BY <1>1, AllUntouched
<1>8. QED
  BY <1>2, <1>6, <1>7 DEF Calm

LEMMA CalmWelcome ==
    ASSUME LifeInv, Calm, NEW a \in Agent, Welcome(a)
    PROVE  Calm'
<1>1. UNCHANGED <<rows, stales, task, handles, building, jobs, toAgent>>
  BY DEF Welcome, hub, agent
<1>2. /\ DOMAIN toHub' = Agent
      /\ \A b \in Agent : DOMAIN toHub'[b] = HubMsg
      /\ \A b \in Agent, i \in Id : \A s \in Reports :
            toHub'[b][STATUS_UPDATE(i, s)] = toHub[b][STATUS_UPDATE(i, s)]
  <2>1. DOMAIN toHub = Agent /\ \A b \in Agent : DOMAIN toHub[b] = HubMsg
    BY DEF Calm, BagsOK
  <2>2. PICK k : toHub' = [toHub EXCEPT ![a] = [toHub[a] EXCEPT ![READY] = k]]
    BY DEF Welcome
  <2>3. QED
    BY <2>1, <2>2, MessagesDiffer
<1>3. BagsOK' /\ NoEnds'
  BY <1>1, <1>2 DEF Calm, BagsOK, NoEnds
<1>4. sync[a] \in [stage : {"hello"}, ids : SUBSET Id] /\ sync[a].ids = {}
  <2>1. sync[a] \in [stage : {"hello"}, ids : SUBSET Id]
    BY DEF Welcome, LifeInv, SyncOK
  <2>2. sync[a] # NoSync /\ sync[a].stage = "hello"
    BY <2>1, NoSyncIsNone DEF Sync
  <2>3. QED
    BY <2>1, <2>2 DEF Calm, Early
<1> DEFINE x == [sync[a] EXCEPT !.stage = "list"]
<1>5. /\ link' = [link EXCEPT ![a] = "up"]
      /\ sync' = [sync EXCEPT ![a] = x]
  BY DEF Welcome
<1>6. \A b \in Agent : Held(b)' = Held(b) /\ \A i : InHand(b, i)' = InHand(b, i)
  BY <1>1 DEF Held, InHand
<1>7. x.stage = "list" /\ x.ids = {}
  BY <1>4
<1> HIDE DEF x
<1>8. Early'
  BY <1>5, <1>6, <1>7 DEF LifeInv, SyncOK, Calm, Early
<1>9. \A i \in Id : Settled(i)'
  BY <1>1, <1>2, AllUntouched
<1>10. QED
  BY <1>3, <1>8, <1>9 DEF Calm

LEMMA CalmSyncList ==
    ASSUME LifeInv, Calm, NEW a \in Agent, SyncList(a)
    PROVE  Calm'
<1>1. UNCHANGED <<rows, stales, task, handles, building, jobs, toHub, toAgent, link>>
  BY DEF SyncList, hub, agent
<1>2. BagsOK' /\ NoEnds'
  BY <1>1 DEF Calm, BagsOK, NoEnds
<1>3. sync[a] # NoSync /\ sync[a].stage = "list" /\ sync[a].ids = {}
  BY DEF SyncList, Calm, Early
<1>4. PICK lost : sync' = [sync EXCEPT ![a] = Fixing({}, lost)]
  <2>1. PICK listed, lost : sync' = [sync EXCEPT ![a] = Fixing(sync[a].ids \ listed, lost)]
    BY DEF SyncList
  <2>2. sync[a].ids \ listed = {}
    BY <1>3
  <2>3. QED
    BY <2>1, <2>2
<1>5. Fixing({}, lost) # NoSync => Fixing({}, lost).stage = "fix" /\ Fixing({}, lost).orphans = {}
  BY DEF Fixing
<1>6. \A b \in Agent : Held(b)' = Held(b) /\ \A i : InHand(b, i)' = InHand(b, i)
  BY <1>1 DEF Held, InHand
<1>7. Early'
  BY <1>1, <1>4, <1>5, <1>6 DEF LifeInv, SyncOK, Calm, Early
<1>8. \A i \in Id : Settled(i)'
  BY <1>1, AllUntouched
<1>9. QED
  BY <1>2, <1>7, <1>8 DEF Calm

\* What an agent sends when it has jobs reaches the hub.
LEMMA SentToHub ==
    ASSUME BagsOK, NEW a \in Agent, link[a] = "up", NEW sent, SendToHub(a, sent)
    PROVE  /\ DOMAIN toHub' = Agent
           /\ \A b \in Agent : DOMAIN toHub'[b] = HubMsg
           /\ \A b \in Agent : \A m \in HubMsg :
                 toHub'[b][m] = IF b = a THEN toHub[b][m] + sent[m] ELSE toHub[b][m]
<1>1. toHub' = [toHub EXCEPT ![a] = [m \in HubMsg |-> toHub[a][m] + sent[m]]]
  BY DEF SendToHub
<1>2. QED
  BY <1>1 DEF BagsOK

LEMMA OneOf ==
    ASSUME NEW m \in HubMsg
    PROVE  /\ One(m) \in [HubMsg -> Nat]
           /\ One(m)[m] = 1
           /\ \A n \in HubMsg : n # m => One(m)[n] = 0
BY DEF One, Plus, Empty

\* An agent takes up an assignment: it is in hand as before.
LEMMA CalmStartJob ==
    ASSUME LifeInv, Calm, NEW a \in Agent, NEW i \in Id, StartJob(a, i)
    PROVE  Calm'
<1> DEFINE m == JOB_ASSIGN(i)
           u == STATUS_UPDATE(i, "building")
<1>1. UNCHANGED <<rows, stales, task, jobs, link, sync>>
  BY DEF StartJob, hub
<1>2. /\ toAgent \in [Agent -> [AgentMsg -> Nat]] /\ handles \in [Agent -> [Id -> Nat]]
      /\ building \in [Agent -> SUBSET Id]
      /\ m \in AgentMsg /\ u \in HubMsg
      /\ BagsOK /\ Settled(i)
  BY MessagesDiffer DEF Calm, BagsOK, LifeInv, HeldOK, Reports
<1>3. toAgent[a][m] > 0 /\ toAgent[a][m] \in Nat /\ handles[a][i] \in Nat
  BY <1>2 DEF StartJob
<1>4. link[a] = "up"
  <2>1. InHand(a, i) # 0
    BY <1>3 DEF InHand
  <2>2. QED
    BY <2>1 DEF Calm, Early
<1>5. /\ toAgent' \in [Agent -> [AgentMsg -> Nat]]
      /\ \A b \in Agent : \A n \in AgentMsg :
            toAgent'[b][n] = IF b = a /\ n = m THEN toAgent[a][m] - 1 ELSE toAgent[b][n]
  <2>1. toAgent' = [toAgent EXCEPT ![a] = [toAgent[a] EXCEPT ![m] = toAgent[a][m] - 1]]
    BY DEF StartJob, Minus
  <2>2. toAgent[a][m] - 1 \in Nat
    BY <1>3
  <2>3. QED
    BY <1>2, <2>1, <2>2
<1>6. /\ handles' \in [Agent -> [Id -> Nat]]
      /\ \A b \in Agent : \A j \in Id :
            handles'[b][j] = IF b = a /\ j = i THEN handles[a][i] + 1 ELSE handles[b][j]
  <2>1. handles' = [handles EXCEPT ![a] = [handles[a] EXCEPT ![i] = handles[a][i] + 1]]
    BY DEF StartJob
  <2>2. handles[a][i] + 1 \in Nat
    BY <1>3
  <2>3. QED
    BY <1>2, <2>1, <2>2
<1>7. /\ DOMAIN toHub' = Agent
      /\ \A b \in Agent : DOMAIN toHub'[b] = HubMsg
      /\ \A b \in Agent : \A n \in HubMsg :
            toHub'[b][n] = IF b = a THEN toHub[b][n] + One(u)[n] ELSE toHub[b][n]
  BY <1>2, <1>4, SentToHub DEF StartJob
<1>8. One(u)[u] = 1 /\ \A n \in HubMsg : One(u)[n] \in Nat /\ (n # u => One(u)[n] = 0)
  BY <1>2, OneOf
<1> HIDE DEF m, u
<1>9. /\ JOB_ASSIGN(i) = m
      /\ \A j \in Id : j # i => JOB_ASSIGN(j) \in AgentMsg /\ JOB_ASSIGN(j) # m
      /\ \A j \in Id : JOB_TEARDOWN(j) \in AgentMsg /\ JOB_TEARDOWN(j) # m
      /\ \A j \in Id : \A s \in Reports :
            STATUS_UPDATE(j, s) \in HubMsg /\ (STATUS_UPDATE(j, s) = u <=> j = i /\ s = "building")
  BY MessagesDiffer DEF m, u
<1>10. \A b \in Agent, j \in Id : \A s \in Reports :
          /\ toHub'[b][STATUS_UPDATE(j, s)] \in Nat
          /\ j # i => toHub'[b][STATUS_UPDATE(j, s)] = toHub[b][STATUS_UPDATE(j, s)]
          /\ b # a => toHub'[b][STATUS_UPDATE(j, s)] = toHub[b][STATUS_UPDATE(j, s)]
  <2> TAKE b \in Agent, j \in Id
  <2> TAKE s \in Reports
  <2>1. toHub[b][STATUS_UPDATE(j, s)] \in Nat
    BY <1>2 DEF BagsOK
  <2>2. QED
    BY <1>7, <1>8, <1>9, <2>1
<1>11. toHub'[a][STATUS_UPDATE(i, "building")] > 0
  <2>1. toHub[a][u] \in Nat
    BY <1>2 DEF BagsOK, Reports, u
  <2>2. toHub'[a][u] = toHub[a][u] + 1
    BY <1>2, <1>7, <1>8
  <2>3. QED
    BY <2>1, <2>2 DEF u
<1>12. \A b \in Agent, j \in Id : InHand(b, j)' = InHand(b, j)
  <2> TAKE b \in Agent, j \in Id
  <2>1. CASE b = a /\ j = i
    <3>1. toAgent'[b][JOB_ASSIGN(j)] = toAgent[a][m] - 1 /\ handles'[b][j] = handles[a][i] + 1
      BY <1>2, <1>5, <1>6, <1>9, <2>1
    <3>2. InHand(b, j) = toAgent[a][m] + handles[a][i]
      BY <1>9, <2>1 DEF InHand
    <3>3. QED
      BY <1>3, <3>1, <3>2 DEF InHand
  <2>2. CASE ~(b = a /\ j = i)
    <3>1. toAgent'[b][JOB_ASSIGN(j)] = toAgent[b][JOB_ASSIGN(j)] /\ handles'[b][j] = handles[b][j]
      BY <1>2, <1>5, <1>6, <1>9, <2>2
    <3>2. QED
      BY <3>1 DEF InHand
  <2>3. QED
    BY <2>1, <2>2
<1>13. \A w \in Worker, j \in Id : Sending(w, j)' <=> Sending(w, j)
  BY <1>1 DEF Sending
<1>14. BagsOK'
  BY <1>5, <1>6, <1>7, <1>10 DEF BagsOK
<1>15. Early'
  <2>1. \A b \in Agent : b # a => Held(b)' = Held(b)
    BY <1>1, <1>2 DEF StartJob, Held
  <2>2. QED
    BY <1>1, <1>4, <1>12, <2>1 DEF Calm, Early
<1>16. NoEnds'
  <2>1. \A b \in Agent, j \in Id : toAgent'[b][JOB_TEARDOWN(j)] = toAgent[b][JOB_TEARDOWN(j)]
    BY <1>5, <1>9
  <2>2. QED
    BY <1>1, <2>1 DEF Calm, NoEnds
<1>17. \A j \in Id : j # i => Settled(j)'
  <2> TAKE j \in Id
  <2> HAVE j # i
  <2>1. Settled(j)
    BY DEF Calm
  <2>2. \A b \in Agent : /\ toAgent'[b][JOB_ASSIGN(j)] = toAgent[b][JOB_ASSIGN(j)]
                         /\ handles'[b][j] = handles[b][j]
    BY <1>5, <1>6, <1>9
  <2>3. QED
    BY <1>1, <1>10, <1>13, <2>1, <2>2, Untouched
<1>18. Settled(i)'
  <2>1. Carriers(i)' = Carriers(i)
    BY <1>12, <1>13 DEF Carriers
  <2>2. ~Quiet(i)
    <3>1. InHand(a, i) > 0
      BY <1>3, <1>9 DEF InHand
    <3>2. QED
      BY <3>1, CarriersAre DEF Quiet
  <2>3. /\ rows[i].status \notin {"absent", "queued"}
        /\ ~(rows[i].status = "assigned" /\ ~rows[i].fresh)
        /\ i \notin stales
    BY <1>2, <2>2 DEF Settled
  <2>4. \A b \in Agent : rows[i].status = "assigned" /\ handles'[b][i] > 0
                            => toHub'[b][STATUS_UPDATE(i, "building")] > 0
    <3> TAKE b \in Agent
    <3>1. CASE b = a
      BY <1>11, <3>1
    <3>2. CASE b # a
      BY <1>2, <1>6, <1>10, <3>2 DEF Settled, Reports
    <3>3. QED
      BY <3>1, <3>2
  <2>5. QED
    BY <1>1, <1>2, <1>12, <2>1, <2>3, <2>4 DEF Settled
<1>19. QED
  BY <1>14, <1>15, <1>16, <1>17, <1>18 DEF Calm

\* A Handle ends, which was the only carrier of its preview.
LEMMA CalmFinishJob ==
    ASSUME LifeInv, Calm, NEW a \in Agent, NEW i \in Id, NEW s \in {"running", "failed"},
           FinishJob(a, i, s)
    PROVE  Calm'
<1>1. UNCHANGED <<rows, stales, task, toAgent, link, sync>>
  BY DEF FinishJob, hub
<1>2. /\ toAgent \in [Agent -> [AgentMsg -> Nat]] /\ handles \in [Agent -> [Id -> Nat]]
      /\ building \in [Agent -> SUBSET Id] /\ jobs \in [Agent -> SUBSET Id]
      /\ BagsOK /\ Settled(i)
      /\ JOB_ASSIGN(i) \in AgentMsg
  BY MessagesDiffer DEF Calm, BagsOK, LifeInv, HeldOK
<1>3. /\ handles[a][i] > 0 /\ handles[a][i] \in Nat
      /\ toAgent[a][JOB_ASSIGN(i)] \in Nat
  BY <1>2 DEF FinishJob
<1>4. InHand(a, i) > 0 /\ InHand(a, i) # 0 /\ handles[a][i] = 1
  <2>1. InHand(a, i) <= 1
    BY <1>2 DEF Settled
  <2>2. QED
    BY <1>3, <2>1 DEF InHand
<1>5. link[a] = "up"
  BY <1>4 DEF Calm, Early
<1>6. /\ handles' \in [Agent -> [Id -> Nat]]
      /\ \A b \in Agent : \A j \in Id :
            handles'[b][j] = IF b = a /\ j = i THEN 0 ELSE handles[b][j]
  <2>1. handles' = [handles EXCEPT ![a] = [handles[a] EXCEPT ![i] = handles[a][i] - 1]]
    BY DEF FinishJob
  <2>2. handles[a][i] - 1 = 0
    BY <1>4
  <2>3. QED
    BY <1>2, <2>1, <2>2
<1>7. PICK again \in {0, 1} :
         SendToHub(a, [One(STATUS_UPDATE(i, s)) EXCEPT
                          ![STATUS_UPDATE(i, "building")] = again,
                          ![READY] = FreeSlots([handles[a] EXCEPT ![i] = @ - 1])])
  BY DEF FinishJob
<1> DEFINE k == FreeSlots([handles[a] EXCEPT ![i] = @ - 1])
           sent == [One(STATUS_UPDATE(i, s)) EXCEPT
                       ![STATUS_UPDATE(i, "building")] = again, ![READY] = k]
<1>8. \A j \in Id : \A r \in Reports : /\ sent[STATUS_UPDATE(j, r)] \in Nat
                                       /\ j # i => sent[STATUS_UPDATE(j, r)] = 0
  <2>1. STATUS_UPDATE(i, s) \in HubMsg /\ STATUS_UPDATE(i, "building") \in HubMsg
    BY MessagesDiffer DEF Reports
  <2>2. /\ One(STATUS_UPDATE(i, s)) \in [HubMsg -> Nat]
        /\ \A n \in HubMsg : n # STATUS_UPDATE(i, s) => One(STATUS_UPDATE(i, s))[n] = 0
    BY <2>1, OneOf
  <2> TAKE j \in Id
  <2> TAKE r \in Reports
  <2>3. STATUS_UPDATE(j, r) \in HubMsg /\ STATUS_UPDATE(j, r) # READY
    BY MessagesDiffer
  <2>4. j # i => /\ STATUS_UPDATE(j, r) # STATUS_UPDATE(i, s)
                 /\ STATUS_UPDATE(j, r) # STATUS_UPDATE(i, "building")
    BY MessagesDiffer
  <2>5. sent[STATUS_UPDATE(j, r)] = IF STATUS_UPDATE(j, r) = STATUS_UPDATE(i, "building") THEN again
                                    ELSE One(STATUS_UPDATE(i, s))[STATUS_UPDATE(j, r)]
    BY <2>1, <2>2, <2>3
  <2> HIDE DEF sent
  <2>6. QED
    BY <2>2, <2>3, <2>4, <2>5
<1>9. SendToHub(a, sent)
  BY <1>7
<1> HIDE DEF sent
<1>10. /\ DOMAIN toHub' = Agent
       /\ \A b \in Agent : DOMAIN toHub'[b] = HubMsg
       /\ \A b \in Agent : \A n \in HubMsg :
             toHub'[b][n] = IF b = a THEN toHub[b][n] + sent[n] ELSE toHub[b][n]
  BY <1>2, <1>5, <1>9, SentToHub
<1>11. \A b \in Agent, j \in Id : \A r \in Reports :
          /\ toHub'[b][STATUS_UPDATE(j, r)] \in Nat
          /\ j # i => toHub'[b][STATUS_UPDATE(j, r)] = toHub[b][STATUS_UPDATE(j, r)]
  <2> TAKE b \in Agent, j \in Id
  <2> TAKE r \in Reports
  <2>1. toHub[b][STATUS_UPDATE(j, r)] \in Nat /\ STATUS_UPDATE(j, r) \in HubMsg
    BY <1>2, MessagesDiffer DEF BagsOK
  <2>2. toHub'[b][STATUS_UPDATE(j, r)] =
           IF b = a THEN toHub[b][STATUS_UPDATE(j, r)] + sent[STATUS_UPDATE(j, r)]
           ELSE toHub[b][STATUS_UPDATE(j, r)]
    BY <1>10, <2>1
  <2>3. QED
    BY <1>8, <2>1, <2>2
<1>12. \A w \in Worker, j \in Id : Sending(w, j)' <=> Sending(w, j)
  BY <1>1 DEF Sending
<1>13. BagsOK'
  BY <1>1, <1>2, <1>6, <1>10, <1>11 DEF BagsOK
<1>14. Early'
  <2>1. \A b \in Agent : b # a => Held(b)' = Held(b)
    BY <1>1, <1>2 DEF FinishJob, Held
  <2>2. \A b \in Agent, j \in Id : b # a => InHand(b, j)' = InHand(b, j)
    BY <1>1, <1>6 DEF InHand
  <2>3. QED
    BY <1>1, <1>5, <2>1, <2>2 DEF Calm, Early
<1>15. NoEnds'
  BY <1>1 DEF Calm, NoEnds
<1>16. \A j \in Id : j # i => Settled(j)'
  <2> TAKE j \in Id
  <2> HAVE j # i
  <2>1. Settled(j)
    BY DEF Calm
  <2>2. \A b \in Agent : handles'[b][j] = handles[b][j]
    BY <1>6
  <2>3. QED
    BY <1>1, <1>11, <1>12, <2>1, <2>2, Untouched
<1>17. Settled(i)'
  <2>1. /\ \A b \in Agent : InHand(b, i) > 0 => b = a
        /\ \A w \in Worker : ~Sending(w, i)
    <3>1. \A x, y \in Carriers(i) : x = y
      BY <1>2 DEF Settled
    <3>2. QED
      BY <1>4, <3>1, CarriersAre
  <2>2. \A b \in Agent : InHand(b, i)' = 0 /\ handles'[b][i] = 0
    <3> TAKE b \in Agent
    <3>1. handles[b][i] \in Nat /\ toAgent[b][JOB_ASSIGN(i)] \in Nat
      BY <1>2
    <3>2. CASE b = a
      <4>1. toAgent[a][JOB_ASSIGN(i)] = 0
        <5>1. InHand(a, i) <= 1
          BY <1>2 DEF Settled
        <5>2. QED
          BY <1>3, <1>4, <5>1 DEF InHand
      <4>2. handles'[a][i] = 0
        BY <1>6
      <4>3. QED
        BY <1>1, <3>2, <4>1, <4>2 DEF InHand
    <3>3. CASE b # a
      <4>1. ~(InHand(b, i) > 0)
        BY <2>1, <3>3
      <4>2. handles[b][i] = 0 /\ toAgent[b][JOB_ASSIGN(i)] = 0
        BY <3>1, <4>1 DEF InHand
      <4>3. handles'[b][i] = 0
        BY <1>6, <3>3, <4>2
      <4>4. QED
        BY <1>1, <4>2, <4>3 DEF InHand
    <3>4. QED
      BY <3>2, <3>3
  <2>3. Carriers(i)' = {}
    BY <1>12, <2>1, <2>2 DEF Carriers
  <2>4. ~Quiet(i)
    BY <1>4, CarriersAre DEF Quiet
  <2>5. /\ rows[i].status \notin {"absent", "queued"}
        /\ ~(rows[i].status = "assigned" /\ ~rows[i].fresh)
        /\ i \notin stales
    BY <1>2, <2>4 DEF Settled
  <2>6. QED
    BY <1>1, <2>2, <2>3, <2>5 DEF Settled
<1>18. QED
  BY <1>13, <1>14, <1>15, <1>16, <1>17 DEF Calm

-----------------------------------------------------------------------------
(* Writes of the hub. *)

\* Only a write leaves the bags and the connections alone.
LEMMA OnlyRows ==
    ASSUME LifeInv, Calm, UNCHANGED <<handles, building, jobs, toAgent, link, sync, toHub>>
    PROVE  BagsOK' /\ Early'
<1>1. \A b \in Agent : Held(b)' = Held(b) /\ \A j : InHand(b, j)' = InHand(b, j)
  BY DEF Held, InHand
<1>2. QED
  BY <1>1 DEF Calm, BagsOK, Early

LEMMA CalmStatusUpdate ==
    ASSUME LifeInv, Calm, NEW a \in Agent, NEW i \in Id, NEW s \in Reports, OnStatusUpdate(a, i, s)
    PROVE  Calm'
<1>1. UNCHANGED <<stales, task, handles, building, jobs, toAgent, link, sync>>
  BY DEF OnStatusUpdate, agent
<1> DEFINE u == STATUS_UPDATE(i, s)
<1>2. u \in HubMsg /\ BagsOK /\ Settled(i) /\ toHub[a][u] \in Nat /\ toHub[a][u] > 0
  BY MessagesDiffer DEF Calm, BagsOK, OnStatusUpdate
<1>3. /\ DOMAIN toHub' = Agent
      /\ \A b \in Agent : DOMAIN toHub'[b] = HubMsg
      /\ \A b \in Agent : \A n \in HubMsg :
            toHub'[b][n] = IF b = a /\ n = u THEN toHub[a][u] - 1 ELSE toHub[b][n]
  <2>1. toHub' = [toHub EXCEPT ![a] = [toHub[a] EXCEPT ![u] = toHub[a][u] - 1]]
    BY DEF OnStatusUpdate, Minus
  <2>2. QED
    BY <1>2, <2>1 DEF BagsOK
<1>4. \A b \in Agent, j \in Id : \A r \in Reports :
         /\ toHub'[b][STATUS_UPDATE(j, r)] \in Nat
         /\ j # i => toHub'[b][STATUS_UPDATE(j, r)] = toHub[b][STATUS_UPDATE(j, r)]
  <2> TAKE b \in Agent, j \in Id
  <2> TAKE r \in Reports
  <2>1. toHub[b][STATUS_UPDATE(j, r)] \in Nat /\ STATUS_UPDATE(j, r) \in HubMsg
    BY <1>2, MessagesDiffer DEF BagsOK
  <2>2. STATUS_UPDATE(j, r) = u => j = i
    BY MessagesDiffer
  <2>3. toHub[a][u] - 1 \in Nat
    BY <1>2
  <2> HIDE DEF u
  <2>4. QED
    BY <1>3, <2>1, <2>2, <2>3
<1>5. ~Quiet(i)
  <2>1. toHub[a][STATUS_UPDATE(i, s)] # 0
    BY <1>2
  <2>2. QED
    BY <2>1 DEF Quiet
<1>6. /\ rows[i].status \notin {"absent", "queued"}
      /\ i \notin stales
  BY <1>2, <1>5 DEF Settled
<1>7. /\ rows'[i].status = s
      /\ \A j \in Id : j # i => rows'[j] = rows[j]
  <2>1. /\ FieldsFrom(a, s).sha = NULL /\ FieldsFrom(a, s).agent \in Agent \cup {NULL}
        /\ FieldsFrom(a, s) \in Fields
    BY ReportFields DEF FieldsFrom, Reports
  <2>2. CanUpdate(rows, Agent, i, NULL, FieldsFrom(a, s))
    BY <1>6, <2>1 DEF CanUpdate, Exists, StaleState, ShaConflict, ShaTaken, WithSha, NoSuchAgent
  <2>3. rows' = Updated(rows, i, s, FieldsFrom(a, s))
    BY <2>2 DEF OnStatusUpdate
  <2>4. /\ rows \in Tables /\ Named(rows) /\ s \in Statuses
        /\ s \in Placed => FieldsFrom(a, s).agent # NULL
    BY ReportFields DEF LifeInv, HolderInv, Statuses, Reports
  <2>5. QED
    BY <2>1, <2>3, <2>4, UpdatedNames
<1> HIDE DEF u
<1>8. BagsOK'
  BY <1>1, <1>2, <1>3, <1>4 DEF BagsOK
<1>9. Early' /\ NoEnds'
  <2>1. \A b \in Agent : Held(b)' = Held(b) /\ \A j : InHand(b, j)' = InHand(b, j)
    BY <1>1 DEF Held, InHand
  <2>2. QED
    BY <1>1, <2>1 DEF Calm, Early, NoEnds
<1>10. \A w \in Worker, j \in Id : Sending(w, j)' <=> Sending(w, j)
  BY <1>1 DEF Sending
<1>11. \A j \in Id : j # i => Settled(j)'
  <2> TAKE j \in Id
  <2> HAVE j # i
  <2>1. Settled(j)
    BY DEF Calm
  <2>2. QED
    BY <1>1, <1>4, <1>7, <1>10, <2>1, Untouched
<1>12. Settled(i)'
  <2>1. \A b \in Agent : InHand(b, i)' = InHand(b, i)
    BY <1>1 DEF InHand
  <2>2. Carriers(i)' = Carriers(i)
    BY <1>10, <2>1 DEF Carriers
  <2>3. rows'[i].status \notin {"absent", "queued", "assigned"}
    BY <1>7 DEF Reports
  <2>4. QED
    BY <1>1, <1>2, <1>6, <2>1, <2>2, <2>3 DEF Settled
<1>13. QED
  BY <1>8, <1>9, <1>11, <1>12 DEF Calm

\* A preview that is there and does not become queued or assigned.
LEMMA CalmEnded ==
    ASSUME Calm, NEW i \in Id, UNCHANGED <<task, handles, toAgent, toHub, stales>>,
           rows'[i].status \notin {"absent", "queued", "assigned"},
           \A j \in Id : j # i => rows'[j] = rows[j]
    PROVE  \A j \in Id : Settled(j)'
<1>1. \A w \in Worker, j \in Id : Sending(w, j)' <=> Sending(w, j)
  BY DEF Sending
<1>2. \A j \in Id : j # i => Settled(j)'
  BY <1>1, Untouched DEF Calm
<1>3. Settled(i)'
  <2>1. \A b \in Agent : InHand(b, i)' = InHand(b, i)
    BY DEF InHand
  <2>2. Carriers(i)' = Carriers(i)
    BY <1>1, <2>1 DEF Carriers
  <2>3. Quiet(i)' <=> Quiet(i)
    BY <2>2 DEF Quiet
  <2>4. QED
    BY <2>1, <2>2, <2>3 DEF Calm, Settled
<1>4. QED
  BY <1>2, <1>3

LEMMA CalmSyncLost ==
    ASSUME LifeInv, Calm, NEW a \in Agent, NEW i \in Id, SyncLost(a, i)
    PROVE  Calm'
<1>1. UNCHANGED <<stales, task, handles, building, jobs, toAgent, toHub, link>>
  BY DEF SyncLost, agent
<1>2. BagsOK' /\ NoEnds'
  BY <1>1 DEF Calm, BagsOK, NoEnds
<1>3. Early'
  <2>1. PICK lost : sync' = [sync EXCEPT ![a] = Fixing({}, lost)]
    BY DEF SyncLost
  <2>2. Fixing({}, lost) # NoSync => Fixing({}, lost).stage = "fix" /\ Fixing({}, lost).orphans = {}
    BY DEF Fixing
  <2>3. \A b \in Agent : Held(b)' = Held(b) /\ \A j : InHand(b, j)' = InHand(b, j)
    BY <1>1 DEF Held, InHand
  <2>4. QED
    BY <1>1, <2>1, <2>2, <2>3 DEF LifeInv, SyncOK, Calm, Early
<1>4. CASE rows' = rows
  <2>1. \A j \in Id : Settled(j)'
    BY <1>1, <1>4, AllUntouched
  <2>2. QED
    BY <1>2, <1>3, <2>1 DEF Calm
<1>5. CASE rows' = Updated(rows, i, "failed", NoFields)
  <2>1. rows \in Tables /\ Named(rows) /\ "failed" \in Statuses /\ "failed" \notin Placed
    BY DEF LifeInv, HolderInv, Statuses, Placed
  <2>2. rows'[i].status = "failed" /\ \A j \in Id : j # i => rows'[j] = rows[j]
    BY <1>5, <2>1, EmptyFields, UpdatedNames
  <2>3. \A j \in Id : Settled(j)'
    BY <1>1, <2>2, CalmEnded
  <2>4. QED
    BY <1>2, <1>3, <2>3 DEF Calm
<1>6. QED
  BY <1>4, <1>5 DEF SyncLost

-----------------------------------------------------------------------------
(* What workers do. *)

\* What may be offered to a worker: nothing to close, and an agent to claim for.
Harmless(t) == t # Idle => /\ t.op \notin {"close", "teardown"}
                           /\ t.op \in {"claim", "assign"} => t.agent \in Agent

LEMMA OfferHarmless ==
    /\ \A rest : Harmless(Offered(rest)) /\ (Offered(rest) # Idle => Offered(rest).op # "assign")
    /\ \A a \in Agent : \A rest : Harmless(Offer(a, rest)) /\ (Offer(a, rest) # Idle => Offer(a, rest).op # "assign")
BY DEF Offer, Offered, TaskOf, Harmless

\* A worker takes on t.
LEMMA NoEndsWrite ==
    ASSUME LifeInv, Calm, NEW w \in Worker, NEW t, Harmless(t), task' = [task EXCEPT ![w] = t],
           \A a \in Agent, i \in Id : toAgent'[a][JOB_TEARDOWN(i)] = toAgent[a][JOB_TEARDOWN(i)]
    PROVE  NoEnds'
<1>1. \A v \in Worker : task'[v] = IF v = w THEN t ELSE task[v]
  BY DEF LifeInv, HolderInv
<1>2. QED
  BY <1>1 DEF Calm, NoEnds, Harmless

\* A worker that has sent nothing about a preview takes on t, which sends nothing.
LEMMA SendingWrite ==
    ASSUME LifeInv, NEW w \in Worker, NEW t, task' = [task EXCEPT ![w] = t], NEW i \in Id,
           t # Idle /\ t.op = "assign" => i \notin t.ids
    PROVE  \A v \in Worker : Sending(v, i)' <=> v # w /\ Sending(v, i)
<1>1. \A v \in Worker : task'[v] = IF v = w THEN t ELSE task[v]
  BY DEF LifeInv, HolderInv
<1>2. QED
  BY <1>1 DEF Sending

LEMMA CalmOffered ==
    ASSUME LifeInv, Calm, NEW w \in Worker, NEW a \in Agent, OnReady(w, a) \/ Trigger(w, a)
    PROVE  Calm'
<1>1. UNCHANGED <<rows, stales, handles, building, jobs, toAgent, link, sync>>
  BY DEF OnReady, Trigger, agent
<1>2. /\ DOMAIN toHub' = Agent
      /\ \A b \in Agent : DOMAIN toHub'[b] = HubMsg
      /\ \A b \in Agent, i \in Id : \A s \in Reports :
            toHub'[b][STATUS_UPDATE(i, s)] = toHub[b][STATUS_UPDATE(i, s)]
  <2>1. DOMAIN toHub = Agent /\ \A b \in Agent : DOMAIN toHub[b] = HubMsg
    BY DEF Calm, BagsOK
  <2>2. CASE OnReady(w, a)
    <3>1. PICK k : toHub' = [toHub EXCEPT ![a] = [toHub[a] EXCEPT ![READY] = k]]
      BY <2>2 DEF OnReady, Minus
    <3>2. QED
      BY <2>1, <3>1, MessagesDiffer
  <2>3. CASE Trigger(w, a)
    BY <2>1, <2>3 DEF Trigger
  <2>4. QED
    BY <2>2, <2>3
<1>3. BagsOK' /\ Early'
  <2>1. \A b \in Agent : Held(b)' = Held(b) /\ \A j : InHand(b, j)' = InHand(b, j)
    BY <1>1 DEF Held, InHand
  <2>2. QED
    BY <1>1, <1>2, <2>1 DEF Calm, BagsOK, Early
<1>4. PICK t : /\ Harmless(t) /\ (t # Idle => t.op # "assign") /\ task' = [task EXCEPT ![w] = t]
  BY OfferHarmless DEF OnReady, Trigger
<1>5. \A i \in Id : ~Sending(w, i)
  BY DEF OnReady, Trigger, Sending
<1>6. NoEnds'
  BY <1>1, <1>4, NoEndsWrite
<1>7. \A i \in Id : \A v \in Worker : Sending(v, i)' <=> Sending(v, i)
  BY <1>4, <1>5, SendingWrite
<1>8. \A i \in Id : Settled(i)'
  BY <1>1, <1>2, <1>7, Untouched DEF Calm
<1>9. QED
  BY <1>3, <1>6, <1>8 DEF Calm

\* A claim takes a preview nothing is known of any more.
LEMMA CalmClaim ==
    ASSUME LifeInv, Calm, NEW w \in Worker, Claim(w)
    PROVE  Calm'
<1>1. UNCHANGED <<stales, handles, building, jobs, toAgent, toHub, link, sync>>
  BY DEF Claim, agent
<1>2. BagsOK' /\ Early'
  BY <1>1, OnlyRows
<1>3. /\ task[w].agent \in Agent
      /\ \A i \in Id : ~Sending(w, i)
  BY DEF Claim, Calm, NoEnds, Sending
<1>4. CASE UNCHANGED rows /\ task' = [task EXCEPT ![w] = Offered(task[w].rest)]
  <2> DEFINE t == Offered(task[w].rest)
  <2>1. Harmless(t) /\ (t # Idle => t.op # "assign")
    BY OfferHarmless
  <2> HIDE DEF t
  <2>2. task' = [task EXCEPT ![w] = t]
    BY <1>4 DEF t
  <2>3. NoEnds'
    BY <1>1, <2>1, <2>2, NoEndsWrite
  <2>4. \A i \in Id : \A v \in Worker : Sending(v, i)' <=> Sending(v, i)
    BY <1>3, <2>1, <2>2, SendingWrite
  <2>5. \A i \in Id : Settled(i)'
    BY <1>1, <1>4, <2>4, Untouched DEF Calm
  <2>6. QED
    BY <1>2, <2>3, <2>5 DEF Calm
<1>5. ASSUME NEW i \in Id, ToClaim(rows, task[w].ids, i), rows' = ClaimedBy(rows, i, task[w].agent),
             task' = [task EXCEPT ![w] = TaskOf("assign", task[w].agent, {i}, NULL, task[w].rest)]
      PROVE  Calm'
  <2> DEFINE t == TaskOf("assign", task[w].agent, {i}, NULL, task[w].rest)
  <2>1. t.op = "assign" /\ t.ids = {i} /\ Harmless(t)
    BY <1>3 DEF TaskOf, Harmless
  <2> HIDE DEF t
  <2>2. task' = [task EXCEPT ![w] = t]
    BY <1>5 DEF t
  <2>3. NoEnds'
    BY <1>1, <2>1, <2>2, NoEndsWrite
  <2>4. rows[i].status = "queued"
    BY <1>5 DEF ToClaim, WithStatus
  <2>5. /\ rows'[i].status = "assigned" /\ rows'[i].fresh = TRUE
        /\ \A j \in Id : j # i => rows'[j] = rows[j]
    <3>1. rows \in Tables /\ rows[i] \in Row
      BY DEF LifeInv, HolderInv, Tables
    <3>2. rows' = [rows EXCEPT ![i] = [rows[i] EXCEPT !.status = "assigned", !.agent = task[w].agent,
                                                     !.fresh = TRUE]]
      BY <1>5 DEF ClaimedBy
    <3>3. QED
      BY <3>1, <3>2 DEF Tables, Row
  <2>6. \A j \in Id : j # i => Settled(j)'
    <3> TAKE j \in Id
    <3> HAVE j # i
    <3>1. \A v \in Worker : Sending(v, j)' <=> Sending(v, j)
      BY <1>3, <2>1, <2>2, SendingWrite
    <3>2. QED
      BY <1>1, <2>5, <3>1, Untouched DEF Calm
  <2>7. Settled(i)'
    <3>1. Settled(i) /\ Quiet(i) /\ i \notin stales
      BY <2>4 DEF Calm, Settled
    <3>2. /\ \A a \in Agent : ~(InHand(a, i) > 0)
          /\ \A v \in Worker : ~Sending(v, i)
      BY <3>1, CarriersAre DEF Quiet
    <3>3. \A v \in Worker : Sending(v, i)' => v = w
      <4>1. \A v \in Worker : v # w => task'[v] = task[v]
        BY <2>2 DEF LifeInv, HolderInv
      <4>2. QED
        BY <3>2, <4>1 DEF Sending
    <3>4. \A a \in Agent : InHand(a, i)' = InHand(a, i)
      BY <1>1 DEF InHand
    <3>5. \A x, y \in Carriers(i)' : x = y
      BY <3>2, <3>3, <3>4 DEF Carriers
    <3>6. \A a \in Agent : InHand(a, i)' <= 1
      BY <3>1, <3>4 DEF Settled
    <3>7. \A a \in Agent : ~(handles'[a][i] > 0)
      <4> TAKE a \in Agent
      <4>1. handles[a][i] \in Nat /\ toAgent[a][JOB_ASSIGN(i)] \in Nat
        BY MessagesDiffer DEF Calm, BagsOK
      <4>2. QED
        BY <1>1, <3>2, <4>1 DEF InHand
    <3>8. i \notin stales'
      BY <1>1, <3>1
    <3>9. QED
      BY <2>5, <3>5, <3>6, <3>7, <3>8 DEF Settled
  <2>8. QED
    BY <1>2, <2>3, <2>6, <2>7 DEF Calm
<1>6. QED
  BY <1>4, <1>5 DEF Claim

\* What a worker was to send is in hand of the agent, or lost with its connection.
LEMMA CalmSendJobAssign ==
    ASSUME LifeInv, Calm, NEW w \in Worker, SendJobAssign(w)
    PROVE  Calm'
<1> DEFINE a == task[w].agent
           t == Offered(task[w].rest)
<1>1. UNCHANGED <<rows, stales, handles, building, jobs, toHub>>
  BY DEF SendJobAssign, agent
<1>2. /\ a \in Agent
      /\ task[w] # Idle /\ task[w].op = "assign"
      /\ task[w].ids \subseteq Id
  BY DEF SendJobAssign, Calm, NoEnds, LifeInv, HolderInv, Task
<1>3. PICK i \in task[w].ids : SendToAgent(a, JOB_ASSIGN(i))
  BY DEF SendJobAssign
<1>4. sync' = SyncAfterSend(a) /\ task' = [task EXCEPT ![w] = t]
  BY DEF SendJobAssign
<1>5. Harmless(t) /\ (t # Idle => t.op # "assign")
  BY OfferHarmless
<1>6. /\ i \in Id /\ Sending(w, i)
      /\ toAgent \in [Agent -> [AgentMsg -> Nat]] /\ handles \in [Agent -> [Id -> Nat]]
      /\ link \in [Agent -> {"down", "registered", "up"}] /\ sync \in [Agent -> Sync \cup {NoSync}]
  BY <1>2, <1>3 DEF Sending, Calm, BagsOK, LifeInv, SyncOK
<1> HIDE DEF a, t
<1> DEFINE m == JOB_ASSIGN(i)
<1>7. m \in AgentMsg
  BY <1>6, MessagesDiffer
<1>8. /\ toAgent' \in [Agent -> [AgentMsg -> Nat]]
      /\ \A b \in Agent : \A n \in AgentMsg :
            toAgent'[b][n] = IF b = a /\ n = m /\ link[a] = "up" THEN toAgent[a][m] + 1 ELSE toAgent[b][n]
  <2>1. CASE link[a] = "up"
    <3>1. toAgent' = [toAgent EXCEPT ![a] = [toAgent[a] EXCEPT ![m] = toAgent[a][m] + 1]]
      BY <1>3, <2>1 DEF SendToAgent, Plus
    <3>2. toAgent[a][m] + 1 \in Nat
      BY <1>2, <1>6, <1>7 DEF a
    <3> HIDE DEF m
    <3>3. QED
      BY <1>2, <1>6, <1>7, <2>1, <3>1, <3>2 DEF a
  <2>2. CASE link[a] # "up"
    BY <1>3, <1>6, <2>2 DEF SendToAgent
  <2>3. QED
    BY <2>1, <2>2
<1>9. /\ \A j \in Id : JOB_ASSIGN(j) \in AgentMsg /\ (JOB_ASSIGN(j) = m <=> j = i)
      /\ \A j \in Id : JOB_TEARDOWN(j) \in AgentMsg /\ JOB_TEARDOWN(j) # m
  BY MessagesDiffer
<1> HIDE DEF m
<1>10. a \in Agent
  BY <1>2 DEF a
<1>11. \A b \in Agent, j \in Id :
          InHand(b, j)' = IF b = a /\ j = i /\ link[a] = "up" THEN InHand(b, j) + 1 ELSE InHand(b, j)
  <2> TAKE b \in Agent, j \in Id
  <2>1. toAgent[b][JOB_ASSIGN(j)] \in Nat /\ handles[b][j] \in Nat /\ handles'[b][j] = handles[b][j]
    BY <1>1, <1>6, <1>9
  <2>2. toAgent'[b][JOB_ASSIGN(j)] = IF b = a /\ j = i /\ link[a] = "up" THEN toAgent[b][JOB_ASSIGN(j)] + 1
                                     ELSE toAgent[b][JOB_ASSIGN(j)]
    BY <1>8, <1>9
  <2>3. QED
    BY <2>1, <2>2 DEF InHand
<1>12. BagsOK'
  BY <1>1, <1>8 DEF Calm, BagsOK
<1>13. NoEnds'
  <2>1. \A b \in Agent, j \in Id : toAgent'[b][JOB_TEARDOWN(j)] = toAgent[b][JOB_TEARDOWN(j)]
    BY <1>8, <1>9
  <2>2. QED
    BY <1>4, <1>5, <2>1, NoEndsWrite
<1>14. Early'
  <2>1. \A b \in Agent : Held(b)' = Held(b)
    BY <1>1 DEF Held
  <2>2. \A b \in Agent : /\ link'[b] = "up" <=> link[b] = "up"
                         /\ sync'[b] = sync[b] \/ sync'[b] = NoSync
    <3>1. /\ link' = IF link[a] = "registered" THEN [link EXCEPT ![a] = "down"] ELSE link
          /\ sync' = IF link[a] = "registered" THEN [sync EXCEPT ![a] = NoSync] ELSE sync
      BY <1>3, <1>4 DEF SendToAgent, SyncAfterSend
    <3>2. QED
      BY <1>6, <1>10, <3>1
  <2>3. \A b \in Agent, j \in Id : link[b] # "up" => InHand(b, j)' = InHand(b, j)
    BY <1>11
  <2>4. QED
    BY <2>1, <2>2, <2>3 DEF Calm, Early
<1>15. \A j \in Id : Settled(j)
  BY DEF Calm
<1>16. \A j \in Id : \A v \in Worker : Sending(v, j)' <=> v # w /\ Sending(v, j)
  BY <1>4, <1>5, SendingWrite
<1>17. /\ \A b \in Agent : ~(InHand(b, i) > 0)
       /\ \A v \in Worker : Sending(v, i) => v = w
  <2>1. \A x, y \in Carriers(i) : x = y
    BY <1>6, <1>15 DEF Settled
  <2>2. QED
    BY <1>6, <2>1, CarriersAre
<1>18. \A b \in Agent, j \in Id : InHand(b, j) \in Nat
  BY <1>6, <1>9 DEF InHand
<1>19. ASSUME NEW j \in Id, j # i
       PROVE  Settled(j)'
  <2>1. \A x, y \in Carriers(j) : x = y
    BY <1>15 DEF Settled
  <2>2. \A b \in Agent : InHand(b, j)' = InHand(b, j)
    BY <1>11, <1>19
  <2>3. Carriers(j)' \subseteq Carriers(j)
    BY <1>16, <2>2 DEF Carriers
  <2>4. Quiet(j) => Quiet(j)'
    BY <1>1, <2>3 DEF Quiet
  <2>5. /\ \A x, y \in Carriers(j)' : x = y
        /\ \A b \in Agent : InHand(b, j)' <= 1
    BY <1>15, <2>1, <2>2, <2>3 DEF Settled
  <2>6. QED
    BY <1>1, <1>15, <2>4, <2>5 DEF Settled
<1>20. Settled(i)'
  <2>1. \A b \in Agent : InHand(b, i)' <= 1 /\ (InHand(b, i)' > 0 => b = a)
    BY <1>6, <1>11, <1>17, <1>18
  <2>2. \A v \in Worker : ~Sending(v, i)'
    BY <1>6, <1>16, <1>17
  <2>3. \A x, y \in Carriers(i)' : x = y
    BY <2>1, <2>2 DEF Carriers
  <2>4. ~Quiet(i)
    BY <1>6, CarriersAre DEF Quiet
  <2>5. QED
    BY <1>1, <1>6, <1>15, <2>1, <2>3, <2>4 DEF Settled
<1>21. QED
  BY <1>12, <1>13, <1>14, <1>19, <1>20 DEF Calm

\* A preview that is inserted was nowhere.
LEMMA CalmInserted ==
    ASSUME LifeInv, Calm, NEW i \in Id, NEW adhoc \in BOOLEAN, ~Exists(rows, i),
           rows' = Inserted(rows, i, Submission(i, adhoc)),
           UNCHANGED <<stales, handles, toAgent, toHub>>,
           \A w \in Worker, j \in Id : Sending(w, j)' <=> Sending(w, j)
    PROVE  \A j \in Id : Settled(j)'
<1>1. rows \in Tables
  BY DEF LifeInv, HolderInv
<1>2. rows'[i].status = "queued" /\ \A j \in Id : j # i => rows'[j] = rows[j]
  BY <1>1 DEF Inserted, Tables
<1>3. rows[i].status = "absent"
  BY DEF Exists
<1>4. \A j \in Id : j # i => Settled(j)'
  BY <1>2, Untouched DEF Calm
<1>5. Settled(i)'
  <2>1. Settled(i) /\ Quiet(i) /\ i \notin stales
    BY <1>3 DEF Calm, Settled
  <2>2. \A b \in Agent : InHand(b, i)' = InHand(b, i)
    BY DEF InHand
  <2>3. Carriers(i)' = Carriers(i)
    BY <2>2 DEF Carriers
  <2>4. Quiet(i)'
    BY <2>1, <2>3 DEF Quiet
  <2>5. QED
    BY <1>2, <2>1, <2>2, <2>3, <2>4 DEF Settled
<1>6. QED
  BY <1>4, <1>5

LEMMA CalmSubmitted ==
    ASSUME LifeInv, Calm, NEW i \in Id, Webhook(i) \/ \E w \in Worker : TestBuild(w, i)
    PROVE  Calm'
<1>1. UNCHANGED <<stales, handles, building, jobs, toAgent, toHub, link, sync>>
  BY DEF Webhook, TestBuild, agent
<1>2. BagsOK' /\ Early'
  BY <1>1, OnlyRows
<1>3. PICK adhoc \in BOOLEAN : ~Exists(rows, i) /\ rows' = Inserted(rows, i, Submission(i, adhoc))
  BY DEF Webhook, TestBuild
<1>4. NoEnds' /\ \A w \in Worker, j \in Id : Sending(w, j)' <=> Sending(w, j)
  <2>1. CASE Webhook(i)
    BY <2>1 DEF Webhook, Calm, NoEnds, Sending
  <2>2. ASSUME NEW w \in Worker, TestBuild(w, i)
        PROVE  NoEnds' /\ \A v \in Worker, j \in Id : Sending(v, j)' <=> Sending(v, j)
    <3> DEFINE t == Offered(Registered)
    <3>1. Harmless(t) /\ (t # Idle => t.op # "assign")
      BY OfferHarmless
    <3>2. task' = [task EXCEPT ![w] = t]
      BY <2>2 DEF TestBuild
    <3> HIDE DEF t
    <3>3. \A j \in Id : ~Sending(w, j)
      BY <2>2 DEF TestBuild, Sending
    <3>4. QED
      BY <1>1, <3>1, <3>2, <3>3, NoEndsWrite, SendingWrite
  <2>3. QED
    BY <2>1, <2>2
<1>5. \A j \in Id : Settled(j)'
  BY <1>1, <1>3, <1>4, CalmInserted
<1>6. QED
  BY <1>2, <1>4, <1>5 DEF Calm

-----------------------------------------------------------------------------
(* The reconciler. *)

\* What grows old with nothing of it under way is Quiet: a Handle that worked on
\* it would have its building in flight.
LEMMA CalmAge ==
    ASSUME LifeInv, Calm, NEW i \in Id, Age(i), ~UnderWay(i)
    PROVE  Calm'
<1>1. UNCHANGED <<stales, task, handles, building, jobs, toAgent, toHub, link, sync>>
  BY DEF Age, agent
<1>2. BagsOK' /\ Early' /\ NoEnds'
  BY <1>1, OnlyRows DEF Calm, NoEnds
<1>3. \A w \in Worker, j \in Id : Sending(w, j)' <=> Sending(w, j)
  BY <1>1 DEF Sending
<1>4. Settled(i) /\ rows[i].status = "assigned"
  BY DEF Calm, Age
<1>5. /\ rows'[i].status = "assigned"
      /\ \A j \in Id : j # i => rows'[j] = rows[j]
  <2>1. rows \in Tables /\ rows[i] \in Row
    BY DEF LifeInv, HolderInv, Tables
  <2>2. rows' = [rows EXCEPT ![i] = [rows[i] EXCEPT !.fresh = FALSE]]
    BY DEF Age, Aged
  <2>3. QED
    BY <1>4, <2>1, <2>2 DEF Tables, Row
<1>6. Quiet(i)
  <2>1. \A a \in Agent : \A s \in Reports : toHub[a][STATUS_UPDATE(i, s)] = 0
    <3> TAKE a \in Agent
    <3> TAKE s \in Reports
    <3>1. s \in Statuses /\ STATUS_UPDATE(i, s) \in HubMsg
      BY MessagesDiffer DEF Statuses, Reports
    <3>2. toHub[a][STATUS_UPDATE(i, s)] \in Nat
      BY DEF Calm, BagsOK
    <3>3. ~(toHub[a][STATUS_UPDATE(i, s)] > 0)
      BY <3>1 DEF UnderWay
    <3>4. QED
      BY <3>2, <3>3
  <2>2. \A a \in Agent : ~(InHand(a, i) > 0)
    <3> TAKE a \in Agent
    <3>1. handles[a][i] \in Nat /\ toAgent[a][JOB_ASSIGN(i)] \in Nat
      BY MessagesDiffer DEF Calm, BagsOK
    <3>2. ~(toAgent[a][JOB_ASSIGN(i)] > 0)
      BY DEF UnderWay
    <3>3. ~(handles[a][i] > 0)
      <4>1. toHub[a][STATUS_UPDATE(i, "building")] = 0
        BY <2>1 DEF Reports
      <4>2. QED
        BY <1>4, <4>1 DEF Settled
    <3>4. QED
      BY <3>1, <3>2, <3>3 DEF InHand
  <2>3. \A w \in Worker : ~Sending(w, i)
    BY DEF UnderWay, Sending
  <2>4. QED
    BY <2>1, <2>2, <2>3, CarriersAre DEF Quiet
<1>7. \A j \in Id : j # i => Settled(j)'
  BY <1>1, <1>3, <1>5, Untouched DEF Calm
<1>8. Settled(i)'
  <2>1. \A b \in Agent : InHand(b, i)' = InHand(b, i)
    BY <1>1 DEF InHand
  <2>2. Carriers(i)' = Carriers(i)
    BY <1>3, <2>1 DEF Carriers
  <2>3. Quiet(i)'
    BY <1>1, <1>6, <2>2 DEF Quiet
  <2>4. QED
    BY <1>1, <1>4, <1>5, <2>1, <2>2, <2>3 DEF Settled
<1>9. QED
  BY <1>2, <1>7, <1>8 DEF Calm

LEMMA CalmReconcileList ==
    ASSUME LifeInv, Calm, ReconcileList
    PROVE  Calm'
<1>1. UNCHANGED <<rows, task, handles, building, jobs, toAgent, toHub, link, sync>>
  BY DEF ReconcileList, agent
<1>2. BagsOK' /\ Early' /\ NoEnds'
  BY <1>1, OnlyRows DEF Calm, NoEnds
<1>3. \A i \in Id : Settled(i)'
  <2> TAKE i \in Id
  <2>1. \A b \in Agent : InHand(b, i)' = InHand(b, i)
    BY <1>1 DEF InHand
  <2>2. Carriers(i)' = Carriers(i)
    BY <1>1, <2>1 DEF Carriers, Sending
  <2>3. Quiet(i)' <=> Quiet(i)
    BY <1>1, <2>2 DEF Quiet
  <2>4. i \in stales' => rows[i].status = "assigned" /\ ~rows[i].fresh
    BY DEF ReconcileList, ListStaleAssigned, WithStatus
  <2>5. QED
    BY <1>1, <2>1, <2>2, <2>3, <2>4 DEF Calm, Settled
<1>4. QED
  BY <1>2, <1>3 DEF Calm

\* What the reconciler has listed is Quiet still: it may be queued again.
LEMMA CalmReconcileRow ==
    ASSUME LifeInv, Calm, NEW i \in Id, ReconcileRow(i)
    PROVE  Calm'
<1>1. UNCHANGED <<task, handles, building, jobs, toAgent, toHub, link, sync>> /\ stales' = stales \ {i}
  BY DEF ReconcileRow, agent
<1>2. BagsOK' /\ Early' /\ NoEnds'
  BY <1>1, OnlyRows DEF Calm, NoEnds
<1>3. \A w \in Worker, j \in Id : Sending(w, j)' <=> Sending(w, j)
  BY <1>1 DEF Sending
<1>4. Settled(i) /\ Quiet(i)
  BY DEF ReconcileRow, Calm, Settled
<1>5. CASE rows' = rows
  <2>1. \A j \in Id : Settled(j)'
    BY <1>1, <1>3, <1>5, Untouched DEF Calm
  <2>2. QED
    BY <1>2, <2>1 DEF Calm
<1>6. CASE rows' = Updated(rows, i, "queued", NoFields)
  <2>1. rows \in Tables /\ Named(rows) /\ "queued" \in Statuses /\ "queued" \notin Placed
    BY DEF LifeInv, HolderInv, Statuses, Placed
  <2>2. rows'[i].status = "queued" /\ \A j \in Id : j # i => rows'[j] = rows[j]
    BY <1>6, <2>1, EmptyFields, UpdatedNames
  <2>3. \A j \in Id : j # i => Settled(j)'
    BY <1>1, <1>3, <2>2, Untouched DEF Calm
  <2>4. Settled(i)'
    <3>1. \A b \in Agent : InHand(b, i)' = InHand(b, i)
      BY <1>1 DEF InHand
    <3>2. Carriers(i)' = Carriers(i)
      BY <1>3, <3>1 DEF Carriers
    <3>3. Quiet(i)'
      BY <1>1, <1>4, <3>2 DEF Quiet
    <3>4. QED
      BY <1>1, <1>4, <2>2, <3>1, <3>2, <3>3 DEF Settled
  <2>5. QED
    BY <1>2, <2>3, <2>4 DEF Calm
<1>7. QED
  BY <1>5, <1>6 DEF ReconcileRow

-----------------------------------------------------------------------------
(* The steps together. *)

LEMMA CalmInit == Init => Calm
<1> SUFFICES ASSUME Init
             PROVE  Calm
  OBVIOUS
<1>1. /\ \A a \in Agent : \A m \in HubMsg : toHub[a][m] = 0
      /\ DOMAIN toHub = Agent /\ \A a \in Agent : DOMAIN toHub[a] = HubMsg
      /\ \A a \in Agent : \A m \in AgentMsg : toAgent[a][m] = 0
      /\ toAgent \in [Agent -> [AgentMsg -> Nat]]
      /\ handles \in [Agent -> [Id -> Nat]] /\ \A a \in Agent, i \in Id : handles[a][i] = 0
  BY DEF Init, Empty
<1>2. \A a \in Agent, i \in Id : InHand(a, i) = 0
  BY <1>1, MessagesDiffer DEF InHand
<1>3. BagsOK
  BY <1>1, MessagesDiffer DEF BagsOK
<1>4. Early /\ NoEnds
  BY <1>1, <1>2, MessagesDiffer DEF Init, Early, Held, NoEnds
<1>5. \A i \in Id : Settled(i)
  <2> TAKE i \in Id
  <2>1. Carriers(i) = {}
    BY <1>2, CarriersAre DEF Init, Sending
  <2>2. Quiet(i)
    BY <1>1, <2>1, MessagesDiffer DEF Quiet
  <2>3. rows[i].status = "absent" /\ stales = {}
    BY DEF Init, Blank
  <2>4. QED
    BY <1>2, <2>1, <2>2, <2>3 DEF Settled
<1>6. QED
  BY <1>3, <1>4, <1>5 DEF Calm

\* A fault or a request is counted, and never taken back.
LEMMA Counted == [Next]_vars => (Fault \/ UNCHANGED faults) /\ (Op \/ UNCHANGED ops)
<1> SUFFICES ASSUME [Next]_vars
             PROVE  (Fault \/ UNCHANGED faults) /\ (Op \/ UNCHANGED ops)
  OBVIOUS
<1> DEFINE Counts == (Fault \/ UNCHANGED faults) /\ (Op \/ UNCHANGED ops)
<1>1. ASSUME NEW a \in Agent,
             Connect(a) \/ Welcome(a) \/ Disconnect(a) \/ AgentRestart(a) \/ SyncList(a)
      PROVE  Counts
  BY <1>1 DEF Connect, Welcome, Disconnect, AgentRestart, SyncList
<1>2. ASSUME NEW a \in Agent, NEW i \in Id,
             \/ StartJob(a, i) \/ ExpireJob(a, i) \/ TeardownJob(a, i)
             \/ \E s \in {"running", "failed"} : FinishJob(a, i, s)
             \/ \E s \in {"building", "running", "failed", "done"} : OnStatusUpdate(a, i, s)
             \/ SyncOrphan(a, i) \/ SyncLost(a, i)
      PROVE  Counts
  BY <1>2 DEF StartJob, ExpireJob, TeardownJob, FinishJob, OnStatusUpdate, SyncOrphan, SyncLost
<1>3. ASSUME NEW w \in Worker, \/ \E a \in Agent : OnReady(w, a) \/ Trigger(w, a)
                               \/ Claim(w) \/ SendJobAssign(w) \/ Close(w) \/ SendTeardown(w)
      PROVE  Counts
  BY <1>3 DEF OnReady, Trigger, Claim, SendJobAssign, Close, SendTeardown
<1>4. ASSUME NEW i \in Id,
             \/ \E w \in Worker : TestBuild(w, i) \/ Rebuild(w, i) \/ ReadToClose(w, i) \/ ReadToStop(w, i)
             \/ Webhook(i) \/ Reopen(i) \/ Age(i) \/ ReconcileRow(i)
      PROVE  Counts
  BY <1>4 DEF TestBuild, Rebuild, ReadToClose, ReadToStop, Webhook, Reopen, Age, ReconcileRow
<1>5. ReconcileList => Counts
  BY DEF ReconcileList
<1>6. HubRestart => Counts
  BY DEF HubRestart
<1>7. UNCHANGED vars => Counts
  BY DEF vars
<1> HIDE DEF Counts
<1>8. Counts
  BY <1>1, <1>2, <1>3, <1>4, <1>5, <1>6, <1>7 DEF Next
<1>9. QED
  BY <1>8 DEF Counts

LEMMA CountsStep ==
    ASSUME faults \in Nat, ops \in Nat, [Next]_vars
    PROVE  /\ faults' \in Nat /\ ops' \in Nat
           /\ Undisturbed' => Undisturbed /\ UNCHANGED <<faults, ops>>
<1>1. faults' \in {faults, faults + 1} /\ ops' \in {ops, ops + 1}
  BY Counted DEF Fault, Op
<1>2. QED
  BY <1>1 DEF Undisturbed

LEMMA CalmStep ==
    ASSUME LifeInv, Calm, faults \in Nat, ops \in Nat, UNCHANGED <<faults, ops>>, [Next]_vars
    PROVE  Calm'
\* No fault, no request, and so nothing to tear down.
<1>1. ~Fault /\ ~Op
  BY DEF Fault, Op
<1>2. ASSUME NEW a \in Agent, Disconnect(a) \/ AgentRestart(a)
      PROVE  FALSE
  BY <1>1, <1>2 DEF Disconnect, AgentRestart
<1>3. ASSUME NEW a \in Agent, NEW i \in Id, ExpireJob(a, i) \/ TeardownJob(a, i) \/ SyncOrphan(a, i)
      PROVE  FALSE
  <2>1. CASE ExpireJob(a, i)
    BY <1>1, <2>1 DEF ExpireJob
  <2>2. CASE TeardownJob(a, i)
    BY <2>2 DEF TeardownJob, Calm, NoEnds
  <2>3. CASE SyncOrphan(a, i)
    BY <2>3 DEF SyncOrphan, Calm, Early
  <2>4. QED
    BY <1>3, <2>1, <2>2, <2>3
<1>4. ASSUME NEW w \in Worker, Close(w) \/ SendTeardown(w)
      PROVE  FALSE
  BY <1>4 DEF Close, SendTeardown, Calm, NoEnds
<1>5. ASSUME NEW w \in Worker, NEW i \in Id, Rebuild(w, i) \/ ReadToClose(w, i) \/ ReadToStop(w, i)
      PROVE  FALSE
  BY <1>1, <1>5 DEF Rebuild, ReadToClose, ReadToStop
<1>6. ASSUME NEW i \in Id, Reopen(i)
      PROVE  FALSE
  BY <1>1, <1>6 DEF Reopen
<1>7. ASSUME NEW i \in Id, Age(i)
      PROVE  ~UnderWay(i)
  BY <1>1, <1>7 DEF Age
<1>8. ~HubRestart
  BY <1>1 DEF HubRestart
\* What is left.
<1>9. ASSUME NEW a \in Agent, Connect(a) \/ Welcome(a) \/ SyncList(a)
      PROVE  Calm'
  BY <1>9, CalmConnect, CalmWelcome, CalmSyncList
<1>10. ASSUME NEW a \in Agent, NEW i \in Id,
              \/ StartJob(a, i) \/ SyncLost(a, i)
              \/ \E s \in {"running", "failed"} : FinishJob(a, i, s)
              \/ \E s \in {"building", "running", "failed", "done"} : OnStatusUpdate(a, i, s)
       PROVE  Calm'
  BY <1>10, CalmStartJob, CalmSyncLost, CalmFinishJob, CalmStatusUpdate DEF Reports
<1>11. ASSUME NEW a \in Agent, NEW w \in Worker, OnReady(w, a) \/ Trigger(w, a)
       PROVE  Calm'
  BY <1>11, CalmOffered
<1>12. ASSUME NEW w \in Worker, Claim(w) \/ SendJobAssign(w)
       PROVE  Calm'
  BY <1>12, CalmClaim, CalmSendJobAssign
<1>13. ASSUME NEW i \in Id, \/ Webhook(i) \/ Age(i) \/ ReconcileRow(i)
                            \/ \E w \in Worker : TestBuild(w, i)
       PROVE  Calm'
  BY <1>7, <1>13, CalmSubmitted, CalmAge, CalmReconcileRow
<1>14. CASE ReconcileList
  BY <1>14, CalmReconcileList
<1>15. CASE UNCHANGED vars
  <2>1. UNCHANGED <<rows, stales, task, handles, building, jobs, toAgent, toHub, link, sync>>
    BY <1>15 DEF vars
  <2>2. BagsOK' /\ Early' /\ NoEnds'
    BY <2>1, OnlyRows DEF Calm, NoEnds
  <2>3. \A i \in Id : Settled(i)'
    BY <2>1, AllUntouched
  <2>4. QED
    BY <2>2, <2>3 DEF Calm
<1>16. QED
  BY <1>2, <1>3, <1>4, <1>5, <1>6, <1>8, <1>9, <1>10, <1>11, <1>12, <1>13, <1>14, <1>15 DEF Next

\* For any numbers of agents, workers and previews, and whatever the order of
\* the messages: as long as nothing fails and nobody closes, stops or rebuilds,
\* a claim of a preview is one job, and one that is queued is no job at all.
THEOREM ClaimIsOneJob == Spec => []ClaimedOnce
<1>1. Init => ClaimInv
  <2>1. Init => LifeInv
    BY HolderInit DEF Init, LifeInv, SyncOK, CloseOK, HeldOK
  <2>2. QED
    BY <2>1, CalmInit DEF ClaimInv, Init
<1>2. ClaimInv /\ [Next]_vars => ClaimInv'
  <2> SUFFICES ASSUME ClaimInv, [Next]_vars
               PROVE  ClaimInv'
    OBVIOUS
  <2>1. LifeInv'
    BY HolderStep, SyncStep, CloseStep, HeldStep DEF ClaimInv, LifeInv
  <2>2. faults' \in Nat /\ ops' \in Nat /\ (Undisturbed' => Undisturbed /\ UNCHANGED <<faults, ops>>)
    BY CountsStep DEF ClaimInv
  <2>3. Undisturbed' => Calm'
    BY <2>2, CalmStep DEF ClaimInv
  <2>4. QED
    BY <2>1, <2>2, <2>3 DEF ClaimInv
<1>3. ClaimInv => ClaimedOnce
  BY DEF ClaimInv, Undisturbed, Calm, Settled, Quiet, ClaimedOnce
<1>4. QED
  BY <1>1, <1>2, <1>3, PTL DEF Spec

-----------------------------------------------------------------------------
(* The types of the rest.  The READYs an agent offers are counted with a   *)
(* fold over its Handles, a natural number because previews are finitely   *)
(* many: by induction over sets of previews.                               *)

Pick(s) == CHOOSE i \in s : TRUE

\* c sums b over the sets of previews, the way FoldFunction does.
Sums(c, b) == \A s \in SUBSET Id :
                 c[s] = IF s = {} THEN 0 ELSE b[Pick(s)] + c[s \ {Pick(s)}]

LEMMA PickIs ==
    ASSUME NEW s \in SUBSET Id, s # {}
    PROVE  /\ Pick(s) \in s /\ s \ {Pick(s)} \in SUBSET Id
           /\ Cardinality(s) \in Nat /\ Cardinality(s) # 0
           /\ Cardinality(s \ {Pick(s)}) = Cardinality(s) - 1
<1>1. Pick(s) \in s
  BY DEF Pick
<1>2. IsFiniteSet(s)
  BY IdsFinite, FS_Subset
<1>3. QED
  BY <1>1, <1>2, FS_CardinalityType, FS_EmptySet, FS_RemoveElement

\* Sums over sets of up to k previews, for every k.
LEMMA SumExists ==
    ASSUME NEW b \in [Id -> Nat]
    PROVE  \E c \in [SUBSET Id -> Nat] : Sums(c, b)
<1> DEFINE Right(c, s) == IF s = {} THEN 0 ELSE b[Pick(s)] + c[s \ {Pick(s)}]
           Upto(k) == \E c \in [SUBSET Id -> Nat] :
                         \A s \in SUBSET Id : Cardinality(s) <= k => c[s] = Right(c, s)
           T == {k \in Nat : ~Upto(k)}
<1>1. Upto(0)
  <2> DEFINE c == [s \in SUBSET Id |-> 0]
  <2>1. c \in [SUBSET Id -> Nat]
    OBVIOUS
  <2>2. ASSUME NEW s \in SUBSET Id, Cardinality(s) <= 0
        PROVE  s = {}
    <3> SUFFICES ASSUME s # {}
                 PROVE  FALSE
      OBVIOUS
    <3>1. Cardinality(s) \in Nat /\ Cardinality(s) # 0
      BY PickIs
    <3>2. QED
      BY <2>2, <3>1
  <2>3. QED
    BY <2>1, <2>2
<1>2. ASSUME NEW k \in Nat, Upto(k)
      PROVE  Upto(k + 1)
  <2>1. PICK c \in [SUBSET Id -> Nat] : \A s \in SUBSET Id : Cardinality(s) <= k => c[s] = Right(c, s)
    BY <1>2
  <2> DEFINE d == [s \in SUBSET Id |-> IF Cardinality(s) = k + 1 THEN b[Pick(s)] + c[s \ {Pick(s)}] ELSE c[s]]
  <2>2. ASSUME NEW s \in SUBSET Id, s # {}
        PROVE  b[Pick(s)] + c[s \ {Pick(s)}] \in Nat
    <3>1. b[Pick(s)] \in Nat /\ c[s \ {Pick(s)}] \in Nat
      BY <2>2, PickIs
    <3>2. QED
      BY <3>1
  <2>3. Cardinality({}) = 0
    BY FS_EmptySet
  <2>4. d \in [SUBSET Id -> Nat]
    <3>1. ASSUME NEW s \in SUBSET Id
          PROVE  (IF Cardinality(s) = k + 1 THEN b[Pick(s)] + c[s \ {Pick(s)}] ELSE c[s]) \in Nat
      <4>1. c[s] \in Nat
        OBVIOUS
      <4>2. ASSUME Cardinality(s) = k + 1
            PROVE  s # {}
        <5>1. k + 1 # 0
          OBVIOUS
        <5>2. QED
          BY <2>3, <4>2, <5>1
      <4>3. QED
        BY <2>2, <4>1, <4>2
    <3>2. QED
      BY <3>1
  <2>5. ASSUME NEW s \in SUBSET Id, Cardinality(s) <= k + 1
        PROVE  d[s] = Right(d, s)
    <3>1. CASE s = {}
      BY <2>1, <2>3, <3>1
    <3>2. CASE s # {}
      <4>1. /\ Cardinality(s) \in Nat /\ s \ {Pick(s)} \in SUBSET Id
            /\ Cardinality(s \ {Pick(s)}) = Cardinality(s) - 1
        BY <3>2, PickIs
      <4>2. Cardinality(s \ {Pick(s)}) # k + 1
        BY <2>5, <4>1
      <4>3. d[s \ {Pick(s)}] = c[s \ {Pick(s)}]
        BY <4>1, <4>2
      <4>4. d[s] = b[Pick(s)] + c[s \ {Pick(s)}]
        <5>1. CASE Cardinality(s) = k + 1
          BY <5>1
        <5>2. CASE Cardinality(s) # k + 1
          <6>1. Cardinality(s) <= k
            BY <2>5, <4>1, <5>2
          <6>2. c[s] = Right(c, s)
            BY <2>1, <6>1
          <6>3. QED
            BY <3>2, <5>2, <6>2
        <5>3. QED
          BY <5>1, <5>2
      <4>5. QED
        BY <3>2, <4>3, <4>4
    <3>3. QED
      BY <3>1, <3>2
  <2> HIDE DEF d, Right
  <2>6. QED
    BY <2>4, <2>5
<1>3. \A k \in Nat : Upto(k)
  <2> HIDE DEF Upto
  <2> SUFFICES ASSUME T # {}
               PROVE  FALSE
    OBVIOUS
  <2> DEFINE Less == OpToRel(<, Nat)
  <2>1. IsWellFoundedOn(Less, Nat)
    BY NatLessThanWellFounded
  <2>2. PICK k \in T : \A m \in T : <<m, k>> \notin Less
    <3> HIDE DEF Less
    <3>1. T \subseteq Nat
      OBVIOUS
    <3> HIDE DEF T
    <3>2. QED
      BY <2>1, <3>1, WFMin
  <2>3. k \in Nat /\ k # 0 /\ ~Upto(k)
    BY <1>1
  <2>4. k - 1 \in Nat /\ <<k - 1, k>> \in Less
    BY <2>3 DEF OpToRel
  <2>5. Upto(k - 1)
    BY <2>2, <2>4
  <2>6. Upto((k - 1) + 1)
    BY <1>2, <2>4, <2>5
  <2>7. QED
    BY <2>3, <2>6
<1>4. Cardinality(Id) \in Nat
  BY IdsFinite, FS_CardinalityType
<1>5. PICK c \in [SUBSET Id -> Nat] : \A s \in SUBSET Id : Cardinality(s) <= Cardinality(Id) => c[s] = Right(c, s)
  BY <1>3, <1>4
<1>6. \A s \in SUBSET Id : Cardinality(s) <= Cardinality(Id)
  BY IdsFinite, FS_Subset
<1>7. QED
  BY <1>5, <1>6 DEF Sums

\* So what CHOOSE finds is one of them.
LEMMA SumIsNat ==
    ASSUME NEW b \in [Id -> Nat], NEW c, Sums(c, b), NEW s \in SUBSET Id
    PROVE  c[s] \in Nat
<1> DEFINE T == {r \in SUBSET Id : c[r] \notin Nat}
<1>1. SUFFICES ASSUME T # {}
               PROVE  FALSE
  OBVIOUS
<1>2. IsWellFoundedOn(StrictSubsetOrdering(Id), SUBSET Id)
  BY IdsFinite, FS_FiniteSubsetsOfFinite, FS_StrictSubsetOrderingWellFounded
<1>3. PICK r \in T : \A q \in T : <<q, r>> \notin StrictSubsetOrdering(Id)
  <2>1. T \subseteq SUBSET Id
    OBVIOUS
  <2> HIDE DEF T
  <2>2. QED
    BY <1>1, <1>2, <2>1, WFMin
<1>4. r # {}
  <2>1. c[{}] = 0
    BY DEF Sums
  <2>2. c[r] \notin Nat
    OBVIOUS
  <2>3. QED
    BY <2>1, <2>2
<1>5. Pick(r) \in r /\ r \ {Pick(r)} \in SUBSET Id
  BY <1>4, PickIs
<1>6. <<r \ {Pick(r)}, r>> \in StrictSubsetOrdering(Id)
  BY <1>5 DEF StrictSubsetOrdering
<1>7. c[r \ {Pick(r)}] \in Nat /\ b[Pick(r)] \in Nat
  BY <1>3, <1>5, <1>6
<1>8. c[r] = b[Pick(r)] + c[r \ {Pick(r)}]
  BY <1>4 DEF Sums
<1>9. QED
  BY <1>7, <1>8

\* maxJobs - inFlight.
LEMMA SlotsType ==
    ASSUME NEW b \in [Id -> Nat]
    PROVE  FreeSlots(b) \in Nat
<1> DEFINE H(h) == h = [s \in SUBSET Id |-> IF s = {} THEN 0 ELSE b[CHOOSE i \in s : TRUE] + h[s \ {CHOOSE i \in s : TRUE}]]
           c == CHOOSE h : H(h)
<1>1. DOMAIN b = Id
  OBVIOUS
<1>2. \E h : H(h)
  <2>1. PICK g \in [SUBSET Id -> Nat] : Sums(g, b)
    BY SumExists
  <2>2. H(g)
    BY <2>1 DEF Sums, Pick
  <2> HIDE DEF H
  <2>3. QED
    BY <2>2
<1>3. H(c)
  <2> HIDE DEF H
  <2>1. QED
    BY <1>2
<1>4. FoldFunction(+, 0, b) = c[Id]
  BY <1>1 DEF FoldFunction, FoldFunctionOnSet, MapThenFoldSet
<1> HIDE DEF c
<1>5. Sums(c, b)
  BY <1>3 DEF Sums, Pick
<1>6. c[Id] \in Nat
  BY <1>5, SumIsNat
<1>7. FoldFunction(+, 0, b) \in Nat
  BY <1>4, <1>6
<1>8. MaxJobs \in Nat
  BY SlotsAssumption
<1> DEFINE inFlight == FoldFunction(+, 0, b)
<1>9. FreeSlots(b) = IF inFlight >= MaxJobs THEN 0 ELSE MaxJobs - inFlight
  BY DEF FreeSlots
<1> HIDE DEF inFlight
<1>10. inFlight \in Nat
  BY <1>7 DEF inFlight
<1>11. QED
  BY <1>8, <1>9, <1>10
\* What is in flight and in work is counted, for every message and every preview.
BagsTyped == /\ toHub \in [Agent -> Bag(HubMsg)]
             /\ toAgent \in [Agent -> Bag(AgentMsg)]
             /\ handles \in [Agent -> [Id -> Nat]]

LEMMA RemnantsType ==
    ASSUME NEW M, NEW bag \in Bag(M), NEW left \in Remnants(bag)
    PROVE  left \in Bag(M)
<1> DEFINE sent == {m \in DOMAIN bag : bag[m] > 0}
           top == Max({0} \cup Range(bag))
<1>1. PICK f \in [sent -> 0..top] : left = [m \in DOMAIN bag |-> IF m \in sent THEN f[m] ELSE 0]
  BY DEF Remnants
<1>2. \A m \in sent : f[m] \in Nat
  <2> HIDE DEF sent, top
  <2>1. QED
    OBVIOUS
<1> HIDE DEF sent
<1>3. QED
  BY <1>1, <1>2 DEF Bag

LEMMA PlusType ==
    ASSUME NEW M, NEW bag \in Bag(M), NEW m \in M
    PROVE  Plus(bag, m) \in Bag(M) /\ (bag[m] > 0 => Minus(bag, m) \in Bag(M))
<1>1. bag[m] \in Nat
  BY DEF Bag
<1>2. bag[m] + 1 \in Nat /\ (bag[m] > 0 => bag[m] - 1 \in Nat)
  BY <1>1
<1>3. QED
  BY <1>2 DEF Plus, Minus, Bag

LEMMA EmptyType == ASSUME NEW M PROVE Empty(M) \in Bag(M)
BY DEF Empty, Bag

LEMMA SendToAgentType ==
    ASSUME BagsTyped, NEW a, NEW m \in AgentMsg, SendToAgent(a, m)
    PROVE  toAgent' \in [Agent -> Bag(AgentMsg)]
<1>1. CASE link[a] = "up" /\ a \in Agent
  <2>1. toAgent' = [toAgent EXCEPT ![a] = Plus(toAgent[a], m)]
    BY <1>1 DEF SendToAgent
  <2>2. Plus(toAgent[a], m) \in Bag(AgentMsg)
    BY <1>1, PlusType DEF BagsTyped
  <2>3. QED
    BY <2>1, <2>2 DEF BagsTyped
<1>2. CASE link[a] # "up"
  BY <1>2 DEF SendToAgent, BagsTyped
<1>3. CASE a \notin Agent
  BY <1>3 DEF SendToAgent, BagsTyped
<1>4. QED
  BY <1>1, <1>2, <1>3

LEMMA SendToHubType ==
    ASSUME BagsTyped, NEW a \in Agent, NEW sent \in Bag(HubMsg), SendToHub(a, sent)
    PROVE  toHub' \in [Agent -> Bag(HubMsg)]
<1> DEFINE more == [m \in HubMsg |-> toHub[a][m] + sent[m]]
<1>1. \A m \in HubMsg : toHub[a][m] \in Nat /\ sent[m] \in Nat
  BY DEF BagsTyped, Bag
<1>2. more \in Bag(HubMsg)
  BY <1>1 DEF Bag
<1>3. toHub' \in {toHub, [toHub EXCEPT ![a] = more]}
  BY DEF SendToHub
<1> HIDE DEF more
<1>4. QED
  BY <1>2, <1>3 DEF BagsTyped

LEMMA BagsStep == LifeInv /\ BagsTyped /\ [Next]_vars => BagsTyped'
<1> SUFFICES ASSUME LifeInv, BagsTyped, [Next]_vars
             PROVE  BagsTyped'
  OBVIOUS
<1>0. \A a \in Agent : /\ toHub[a] \in Bag(HubMsg) /\ toAgent[a] \in Bag(AgentMsg)
                       /\ handles[a] \in [Id -> Nat]
  BY DEF BagsTyped
<1>1. CASE UNCHANGED <<toHub, toAgent, handles>>
  BY <1>1 DEF BagsTyped
<1>2. ASSUME NEW a \in Agent, Welcome(a)
      PROVE  BagsTyped'
  <2>1. READY \in HubMsg /\ FreeSlots(handles[a]) \in Nat
    BY <1>0, SlotsType, MessagesDiffer
  <2>2. toHub[a][READY] \in Nat
    BY <1>0, <2>1 DEF Bag
  <2>3. toHub[a][READY] + FreeSlots(handles[a]) \in Nat
    BY <2>1, <2>2
  <2>4. toHub' = [toHub EXCEPT ![a] = [toHub[a] EXCEPT ![READY] = toHub[a][READY] + FreeSlots(handles[a])]]
    BY <1>2 DEF Welcome, BagsTyped
  <2>5. [toHub[a] EXCEPT ![READY] = toHub[a][READY] + FreeSlots(handles[a])] \in Bag(HubMsg)
    BY <1>0, <2>3 DEF Bag
  <2>6. toHub' \in [Agent -> Bag(HubMsg)]
    BY <2>4, <2>5 DEF BagsTyped
  <2>7. UNCHANGED <<toAgent, handles>>
    BY <1>2 DEF Welcome, agent
  <2>8. QED
    BY <2>6, <2>7 DEF BagsTyped
<1>3. ASSUME NEW a \in Agent, Disconnect(a)
      PROVE  BagsTyped'
  <2>1. PICK b \in Remnants(toHub[a]) : toHub' = [toHub EXCEPT ![a] = b]
    BY <1>3 DEF Disconnect
  <2>2. PICK c \in Remnants(toAgent[a]) : toAgent' = [toAgent EXCEPT ![a] = c]
    BY <1>3 DEF Disconnect
  <2>3. b \in Bag(HubMsg) /\ c \in Bag(AgentMsg) /\ handles' = handles
    BY <1>0, <1>3, RemnantsType DEF Disconnect, agent
  <2>4. QED
    BY <2>1, <2>2, <2>3 DEF BagsTyped
<1>4. ASSUME NEW a \in Agent, AgentRestart(a)
      PROVE  BagsTyped'
  <2>1. PICK b \in Remnants(toHub[a]) : toHub' = [toHub EXCEPT ![a] = b]
    BY <1>4 DEF AgentRestart
  <2>2. /\ toAgent' = [toAgent EXCEPT ![a] = Empty(AgentMsg)]
        /\ handles' = [handles EXCEPT ![a] = [i \in Id |-> 0]]
    BY <1>4 DEF AgentRestart
  <2>3. b \in Bag(HubMsg) /\ Empty(AgentMsg) \in Bag(AgentMsg) /\ [i \in Id |-> 0] \in [Id -> Nat]
    BY <1>0, RemnantsType, EmptyType
  <2>4. QED
    BY <2>1, <2>2, <2>3 DEF BagsTyped
<1>5. ASSUME HubRestart
      PROVE  BagsTyped'
  <2>1. toHub' = [a \in Agent |-> Empty(HubMsg)] /\ handles' = handles
    BY <1>5 DEF HubRestart, agent
  <2>2. /\ DOMAIN toAgent' = Agent /\ toAgent' = [a \in Agent |-> toAgent'[a]]
        /\ \A a \in Agent : toAgent'[a] \in Remnants(toAgent[a])
    BY <1>5 DEF HubRestart
  <2>3. \A a \in Agent : toAgent'[a] \in Bag(AgentMsg)
    BY <1>0, <2>2, RemnantsType
  <2>4. QED
    BY <2>1, <2>2, <2>3, EmptyType DEF BagsTyped
<1>6. ASSUME NEW a \in Agent, NEW i \in Id, StartJob(a, i)
      PROVE  BagsTyped'
  <2>1. toAgent' = [toAgent EXCEPT ![a] = Minus(toAgent[a], JOB_ASSIGN(i))] /\ toAgent[a][JOB_ASSIGN(i)] > 0
    BY <1>6 DEF StartJob
  <2>2. Minus(toAgent[a], JOB_ASSIGN(i)) \in Bag(AgentMsg)
    BY <1>0, <2>1, PlusType, MessagesDiffer
  <2>3. toHub' \in [Agent -> Bag(HubMsg)]
    <3>1. STATUS_UPDATE(i, "building") \in HubMsg
      BY MessagesDiffer DEF Reports
    <3>2. One(STATUS_UPDATE(i, "building")) \in Bag(HubMsg)
      BY <3>1, OneOf DEF Bag
    <3>3. QED
      BY <1>6, <3>2, SendToHubType DEF StartJob
  <2>4. handles' = [handles EXCEPT ![a] = [handles[a] EXCEPT ![i] = handles[a][i] + 1]]
    BY <1>6 DEF StartJob, BagsTyped
  <2>5. [handles[a] EXCEPT ![i] = handles[a][i] + 1] \in [Id -> Nat]
    BY <1>0
  <2>6. QED
    BY <2>1, <2>2, <2>3, <2>4, <2>5 DEF BagsTyped
<1>7. ASSUME NEW a \in Agent, NEW i \in Id, handles[a][i] > 0
      PROVE  [handles[a] EXCEPT ![i] = handles[a][i] - 1] \in [Id -> Nat]
  <2>1. handles[a][i] \in Nat
    BY <1>0
  <2>2. handles[a][i] - 1 \in Nat
    BY <1>7, <2>1
  <2>3. QED
    BY <1>0, <2>2
<1>8. ASSUME NEW a \in Agent, NEW i \in Id, NEW s \in {"running", "failed"}, FinishJob(a, i, s)
      PROVE  BagsTyped'
  <2> DEFINE left == [handles[a] EXCEPT ![i] = handles[a][i] - 1]
  <2>1. left \in [Id -> Nat] /\ handles' = [handles EXCEPT ![a] = left] /\ toAgent' = toAgent
    BY <1>7, <1>8 DEF FinishJob
  <2>2. PICK again \in {0, 1} : SendToHub(a, [One(STATUS_UPDATE(i, s)) EXCEPT
                                                 ![STATUS_UPDATE(i, "building")] = again,
                                                 ![READY] = FreeSlots(left)])
    BY <1>8 DEF FinishJob
  <2>3. STATUS_UPDATE(i, s) \in HubMsg
    BY MessagesDiffer DEF Reports
  <2> HIDE DEF left
  <2>4. FreeSlots(left) \in Nat /\ again \in Nat /\ One(STATUS_UPDATE(i, s)) \in [HubMsg -> Nat]
    BY <2>1, <2>3, SlotsType, OneOf
  <2>5. [One(STATUS_UPDATE(i, s)) EXCEPT ![STATUS_UPDATE(i, "building")] = again,
                                         ![READY] = FreeSlots(left)] \in Bag(HubMsg)
    BY <2>4 DEF Bag
  <2>6. toHub' \in [Agent -> Bag(HubMsg)]
    BY <2>2, <2>5, SendToHubType
  <2>7. QED
    BY <2>1, <2>6 DEF BagsTyped
<1>9. ASSUME NEW a \in Agent, NEW i \in Id, ExpireJob(a, i)
      PROVE  BagsTyped'
  <2>1. /\ handles' = [handles EXCEPT ![a] = [handles[a] EXCEPT ![i] = handles[a][i] - 1]]
        /\ handles[a][i] > 0 /\ UNCHANGED <<toHub, toAgent>>
    BY <1>9 DEF ExpireJob, BagsTyped
  <2>2. QED
    BY <1>7, <2>1 DEF BagsTyped
<1>10. ASSUME NEW a \in Agent, NEW i \in Id, TeardownJob(a, i)
       PROVE  BagsTyped'
  <2>1. /\ toAgent' = [toAgent EXCEPT ![a] = Minus(toAgent[a], JOB_TEARDOWN(i))]
        /\ toAgent[a][JOB_TEARDOWN(i)] > 0 /\ handles' = handles
    BY <1>10 DEF TeardownJob
  <2>2. Minus(toAgent[a], JOB_TEARDOWN(i)) \in Bag(AgentMsg)
    BY <1>0, <2>1, PlusType, MessagesDiffer
  <2>3. toHub' \in [Agent -> Bag(HubMsg)]
    <3>1. STATUS_UPDATE(i, "done") \in HubMsg
      BY MessagesDiffer DEF Reports
    <3>2. One(STATUS_UPDATE(i, "done")) \in Bag(HubMsg)
      BY <3>1, OneOf DEF Bag
    <3>3. QED
      BY <1>10, <3>2, SendToHubType DEF TeardownJob
  <2>4. QED
    BY <2>1, <2>2, <2>3 DEF BagsTyped
<1>11. ASSUME NEW a \in Agent, NEW i \in Id, NEW s \in Reports, OnStatusUpdate(a, i, s)
       PROVE  BagsTyped'
  <2>1. /\ toHub' = [toHub EXCEPT ![a] = Minus(toHub[a], STATUS_UPDATE(i, s))]
        /\ toHub[a][STATUS_UPDATE(i, s)] > 0 /\ UNCHANGED <<toAgent, handles>>
    BY <1>11 DEF OnStatusUpdate, agent
  <2>2. Minus(toHub[a], STATUS_UPDATE(i, s)) \in Bag(HubMsg)
    BY <1>0, <2>1, PlusType, MessagesDiffer
  <2>3. QED
    BY <2>1, <2>2 DEF BagsTyped
<1>12. ASSUME NEW a \in Agent, NEW w \in Worker, OnReady(w, a)
       PROVE  BagsTyped'
  <2>1. /\ toHub' = [toHub EXCEPT ![a] = Minus(toHub[a], READY)]
        /\ toHub[a][READY] > 0 /\ UNCHANGED <<toAgent, handles>>
    BY <1>12 DEF OnReady, agent
  <2>2. Minus(toHub[a], READY) \in Bag(HubMsg)
    BY <1>0, <2>1, PlusType, MessagesDiffer
  <2>3. QED
    BY <2>1, <2>2 DEF BagsTyped
<1>13. ASSUME NEW w \in Worker, task[w] # Idle
       PROVE  \A i \in task[w].ids : JOB_ASSIGN(i) \in AgentMsg /\ JOB_TEARDOWN(i) \in AgentMsg
  <2>1. task[w].ids \in SUBSET Id
    BY <1>13 DEF LifeInv, HolderInv, Task
  <2>2. QED
    BY <2>1, MessagesDiffer
<1>14. ASSUME NEW w \in Worker, SendJobAssign(w) \/ SendTeardown(w)
       PROVE  BagsTyped'
  <2>1. PICK m \in AgentMsg : SendToAgent(task[w].agent, m)
    BY <1>13, <1>14 DEF SendJobAssign, SendTeardown
  <2>2. UNCHANGED <<toHub, handles>>
    BY <1>14 DEF SendJobAssign, SendTeardown, agent
  <2>3. QED
    BY <2>1, <2>2, SendToAgentType DEF BagsTyped
<1>15. ASSUME NEW a \in Agent, NEW i \in Id, SyncOrphan(a, i)
       PROVE  BagsTyped'
  <2>1. SendToAgent(a, JOB_TEARDOWN(i)) /\ UNCHANGED <<toHub, handles>>
    BY <1>15 DEF SyncOrphan, agent
  <2>2. QED
    BY <2>1, SendToAgentType, MessagesDiffer DEF BagsTyped
<1>16. ASSUME NEW a \in Agent, \/ Connect(a) \/ SyncList(a)
                               \/ \E i \in Id : SyncLost(a, i)
                               \/ \E w \in Worker : Trigger(w, a)
       PROVE  UNCHANGED <<toHub, toAgent, handles>>
  BY <1>16 DEF Connect, SyncList, SyncLost, Trigger, agent
<1>17. ASSUME NEW w \in Worker, \/ Claim(w) \/ Close(w)
                                \/ \E i \in Id : \/ TestBuild(w, i) \/ Rebuild(w, i)
                                                 \/ ReadToClose(w, i) \/ ReadToStop(w, i)
       PROVE  UNCHANGED <<toHub, toAgent, handles>>
  BY <1>17 DEF Claim, Close, TestBuild, Rebuild, ReadToClose, ReadToStop, agent
<1>18. ASSUME NEW i \in Id, Webhook(i) \/ Reopen(i) \/ Age(i) \/ ReconcileRow(i)
       PROVE  UNCHANGED <<toHub, toAgent, handles>>
  BY <1>18 DEF Webhook, Reopen, Age, ReconcileRow, agent
<1>19. CASE ReconcileList \/ UNCHANGED vars
  BY <1>1, <1>19 DEF ReconcileList, vars, agent
<1>20. QED
  BY <1>1, <1>2, <1>3, <1>4, <1>5, <1>6, <1>8, <1>9, <1>10, <1>11, <1>12, <1>14, <1>15, <1>16, <1>17,
     <1>18, <1>19
  DEF Next, Reports

TypesInv == LifeInv /\ BagsTyped /\ faults \in 0..MaxFaults /\ ops \in 0..MaxOps

\* Every variable keeps its type, whatever is lost: in particular no message is
\* taken that was not sent, and no Handle ends that was not begun.
THEOREM TypeCorrect == Spec => []TypeOK
<1>1. Init => TypesInv
  <2> SUFFICES ASSUME Init
               PROVE  TypesInv
    OBVIOUS
  <2>1. LifeInv
    BY HolderInit DEF Init, LifeInv, SyncOK, CloseOK, HeldOK
  <2>2. BagsTyped
    BY EmptyType DEF Init, BagsTyped
  <2>3. faults \in 0..MaxFaults /\ ops \in 0..MaxOps
    BY DispatchBounds DEF Init
  <2>4. QED
    BY <2>1, <2>2, <2>3 DEF TypesInv
<1>2. TypesInv /\ [Next]_vars => TypesInv'
  <2> SUFFICES ASSUME TypesInv, [Next]_vars
               PROVE  TypesInv'
    OBVIOUS
  <2>1. LifeInv'
    BY HolderStep, SyncStep, CloseStep, HeldStep DEF TypesInv, LifeInv
  <2>2. BagsTyped'
    BY BagsStep DEF TypesInv
  <2>3. (Fault \/ UNCHANGED faults) /\ (Op \/ UNCHANGED ops)
    BY Counted
  <2>4. faults \in 0..MaxFaults /\ ops \in 0..MaxOps /\ MaxFaults \in Nat /\ MaxOps \in Nat
    BY DispatchBounds DEF TypesInv
  <2>5. faults' \in 0..MaxFaults /\ ops' \in 0..MaxOps
    BY <2>3, <2>4 DEF Fault, Op
  <2>6. QED
    BY <2>1, <2>2, <2>5 DEF TypesInv
<1>3. TypesInv => TypeOK
  BY DEF TypesInv, LifeInv, HolderInv, SyncOK, HeldOK, BagsTyped, TypeOK, Tables
<1>4. QED
  BY <1>1, <1>2, <1>3, PTL DEF Spec
=============================================================================
