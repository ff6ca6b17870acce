------------------------------ MODULE Dispatch ------------------------------
(***************************************************************************)
(* The job protocol between the hub and its agents: READY, claim,          *)
(* JOB_ASSIGN, STATUS_UPDATE, JOB_TEARDOWN, the HELLO synchronisation and  *)
(* the reconciler, over the previews table of module Previews.             *)
(*                                                                         *)
(* Both ends hand every message they read to a goroutine of its own, on a  *)
(* background context: messages take effect in any order, and one that was *)
(* read survives the connection it came by.  So the messages in flight to  *)
(* a peer, read or not, are a bag, of which a disconnect loses any part.   *)
(*                                                                         *)
(* The hub's handlers are Workers: each writes the table in transactions   *)
(* of its own and sends after them, so other handlers run between its      *)
(* steps.  An agent is coarse here: its Handles are two steps each (module *)
(* Runner has the inside).                                                 *)
(***************************************************************************)
EXTENDS Previews, Functions, FiniteSetsExt

CONSTANTS Worker,       \* goroutines of the hub that serve READYs and requests
          LabelsOf,     \* labels of each preview of a pull request
          AgentLabels,  \* labels of each agent
          Dockerfile,   \* previews built from a Dockerfile; the others use compose
          MaxJobs,      \* slots of an agent
          Idle, NoSync,
          Hasty,        \* messages may take longer than StaleAssignedAfter
          MaxFaults,    \* bound on disconnects, restarts, expired builds and hasty timeouts
          MaxOps        \* bound on requests to close, stop, rebuild or reopen

ASSUME LabelsAssumption == /\ LabelsOf \in [Id -> SUBSET Label]
                           /\ AgentLabels \in [Agent -> SUBSET Label]
ASSUME SourcesAssumption == Repo # {} /\ PR # {} /\ Branch # {}
ASSUME SlotsAssumption == MaxJobs \in Nat \ {0}
ASSUME DispatchBounds == MaxFaults \in Nat /\ MaxOps \in Nat /\ Dockerfile \subseteq Id /\ Hasty \in BOOLEAN

VARIABLES rows,      \* previews
          link,      \* of each agent; registered: in the registry, WELCOME not written
          toHub, toAgent,   \* bags of messages in flight
          handles,   \* number of Handles of each preview on each agent
          building, jobs,   \* the building and jobs maps of each agent
          sync,      \* syncOnHello of each agent's session
          stales,    \* what the reconciler's tick still has to requeue
          task,      \* of each worker
          faults, ops

hub   == <<rows, stales, task>>
agent == <<handles, building, jobs>>
vars  == <<rows, link, toHub, toAgent, handles, building, jobs, sync, stales, task, faults, ops>>

READY == [type |-> "READY", id |-> NULL, status |-> NULL]
STATUS_UPDATE(i, s) == [type |-> "STATUS_UPDATE", id |-> i, status |-> s]
HubMsg == {READY} \cup {STATUS_UPDATE(i, s) : i \in Id, s \in {"building", "running", "failed", "done"}}

JOB_ASSIGN(i)   == [type |-> "JOB_ASSIGN", id |-> i]
JOB_TEARDOWN(i) == [type |-> "JOB_TEARDOWN", id |-> i]
AgentMsg == {JOB_ASSIGN(i) : i \in Id} \cup {JOB_TEARDOWN(i) : i \in Id}

\* claim: candidates ids, to be claimed for agent; assign, teardown: ids is the
\* preview to send about; close: ids was read with agent, from is the CAS or
\* NULL; trigger: agents of rest are still to be offered the queue.
Task == [op : {"claim", "assign", "trigger", "close", "teardown"}, agent : Agent \cup {NULL},
         ids : SUBSET Id, from : Statuses \cup {NULL}, rest : SUBSET Agent]
TaskOf(op, a, ids, from, rest) ==
    [op |-> op, agent |-> a, ids |-> ids, from |-> from, rest |-> rest]

\* hello: the ids of HELLO, before WELCOME; list: before ListByAgent; fix: what
\* is left to tear down (orphans) and to fail (lost, with the status listed).
Sync == [stage : {"hello", "list"}, ids : SUBSET Id]
          \cup [stage : {"fix"}, orphans : SUBSET Id, lost : [Id -> Statuses \cup {NULL}]]
ASSUME NoSyncIsNone == NoSync \notin Sync

Plus(bag, m)  == [bag EXCEPT ![m] = @ + 1]
Minus(bag, m) == [bag EXCEPT ![m] = @ - 1]
Empty(M) == [m \in M |-> 0]
\* What may be left of a bag when its connection ends.
Remnants(bag) ==
    LET sent == {m \in DOMAIN bag : bag[m] > 0}
        left == {f \in [sent -> 0..Max({0} \cup Range(bag))] : \A m \in sent : f[m] <= bag[m]}
    IN  {[m \in DOMAIN bag |-> IF m \in sent THEN f[m] ELSE 0] : f \in left}

Held(a) == jobs[a] \cup building[a]    \* RunningPreviewIDs

\* maxJobs - inFlight of an agent whose Handles are b.
FreeSlots(b) == LET inFlight == FoldFunction(+, 0, b)
                IN  IF inFlight >= MaxJobs THEN 0 ELSE MaxJobs - inFlight

Fault == faults < MaxFaults /\ faults' = faults + 1
Op    == ops < MaxOps /\ ops' = ops + 1

Init == /\ rows = [i \in Id |-> Blank]
        /\ link = [a \in Agent |-> "down"]
        /\ toHub = [a \in Agent |-> Empty(HubMsg)]
        /\ toAgent = [a \in Agent |-> Empty(AgentMsg)]
        /\ handles = [a \in Agent |-> [i \in Id |-> 0]]
        /\ building = [a \in Agent |-> {}]
        /\ jobs = [a \in Agent |-> {}]
        /\ sync = [a \in Agent |-> NoSync]
        /\ stales = {}
        /\ task = [w \in Worker |-> Idle]
        /\ faults = 0
        /\ ops = 0

-----------------------------------------------------------------------------
(* Sending.  An error is logged, never retried. *)

\* WSJobSender.  What is written before WELCOME is not what once() waits for:
\* the agent closes the connection.
SendToAgent(a, m) ==
    /\ toAgent' = IF link[a] = "up" THEN [toAgent EXCEPT ![a] = Plus(@, m)] ELSE toAgent
    /\ link' = IF link[a] = "registered" THEN [link EXCEPT ![a] = "down"] ELSE link

SyncAfterSend(a) == IF link[a] = "registered" THEN [sync EXCEPT ![a] = NoSync] ELSE sync

\* Client.SendStatusUpdate, Client.SendReady: as many of each message as sent says.
SendToHub(a, sent) ==
    toHub' = IF link[a] = "up"
             THEN [toHub EXCEPT ![a] = [m \in HubMsg |-> @[m] + sent[m]]]
             ELSE toHub
One(m) == Plus(Empty(HubMsg), m)

-----------------------------------------------------------------------------
(* Connections. *)

\* Dial and HELLO, which names what the agent holds, up to Registry.add.
Connect(a) ==
    /\ link[a] = "down"
    /\ link' = [link EXCEPT ![a] = "registered"]
    /\ sync' = [sync EXCEPT ![a] = [stage |-> "hello", ids |-> Held(a)]]
    /\ UNCHANGED <<hub, agent, toHub, toAgent, faults, ops>>

\* WELCOME: the hub starts syncOnHello, the agent offers its slots.
Welcome(a) ==
    /\ link[a] = "registered"
    /\ link' = [link EXCEPT ![a] = "up"]
    /\ sync' = [sync EXCEPT ![a].stage = "list"]
    /\ toHub' = [toHub EXCEPT ![a][READY] = @ + FreeSlots(handles[a])]
    /\ UNCHANGED <<hub, agent, toAgent, faults, ops>>

Disconnect(a) ==
    /\ Fault
    /\ link[a] # "down"
    /\ link' = [link EXCEPT ![a] = "down"]
    /\ sync' = [sync EXCEPT ![a] = NoSync]
    /\ \E b \in Remnants(toHub[a]) : toHub' = [toHub EXCEPT ![a] = b]
    /\ \E b \in Remnants(toAgent[a]) : toAgent' = [toAgent EXCEPT ![a] = b]
    /\ UNCHANGED <<hub, agent, ops>>

\* The agent's process ends and starts again: containers with the label of a
\* preview are restored to the jobs map, compose projects are taken down.
AgentRestart(a) ==
    /\ Fault
    /\ link' = [link EXCEPT ![a] = "down"]
    /\ sync' = [sync EXCEPT ![a] = NoSync]
    /\ \E b \in Remnants(toHub[a]) : toHub' = [toHub EXCEPT ![a] = b]
    /\ toAgent' = [toAgent EXCEPT ![a] = Empty(AgentMsg)]
    /\ \E created \in SUBSET {i \in Id : handles[a][i] > 0} :
          jobs' = [jobs EXCEPT ![a] = (@ \cup created) \cap Dockerfile]
    /\ handles' = [handles EXCEPT ![a] = [i \in Id |-> 0]]
    /\ building' = [building EXCEPT ![a] = {}]
    /\ UNCHANGED <<hub, ops>>

\* The hub's process ends and starts again with ResetAllAssigned.
HubRestart ==
    /\ Fault
    /\ rows' = AssignedReset(rows)
    /\ link' = [a \in Agent |-> "down"]
    /\ sync' = [a \in Agent |-> NoSync]
    /\ toHub' = [a \in Agent |-> Empty(HubMsg)]
    /\ \E f \in [Agent -> UNION {Remnants(toAgent[a]) : a \in Agent}] :
          /\ \A a \in Agent : f[a] \in Remnants(toAgent[a])
          /\ toAgent' = f
    /\ stales' = {}
    /\ task' = [w \in Worker |-> Idle]
    /\ UNCHANGED <<agent, ops>>

-----------------------------------------------------------------------------
(* The agent. *)

\* Handle, up to the first building.
StartJob(a, i) ==
    /\ toAgent[a][JOB_ASSIGN(i)] > 0
    /\ toAgent' = [toAgent EXCEPT ![a] = Minus(@, JOB_ASSIGN(i))]
    /\ handles' = [handles EXCEPT ![a][i] = @ + 1]
    /\ building' = [building EXCEPT ![a] = @ \cup {i}]
    /\ SendToHub(a, One(STATUS_UPDATE(i, "building")))
    /\ UNCHANGED <<hub, jobs, link, sync, faults, ops>>

\* The rest of Handle and its defer.  The building that carries the sha, which a
\* Handle that fails early does not get to, is sent along with the outcome.
FinishJob(a, i, s) ==
    LET left == [handles[a] EXCEPT ![i] = @ - 1] IN
    /\ handles[a][i] > 0
    /\ handles' = [handles EXCEPT ![a] = left]
    /\ building' = [building EXCEPT ![a] = @ \ {i}]
    /\ jobs' = IF s = "running" THEN [jobs EXCEPT ![a] = @ \cup {i}] ELSE jobs
    /\ \E again \in IF s = "running" THEN {1} ELSE {0, 1} :
          SendToHub(a, [One(STATUS_UPDATE(i, s)) EXCEPT
                           ![STATUS_UPDATE(i, "building")] = again,
                           ![READY] = FreeSlots(left)])
    /\ UNCHANGED <<hub, link, sync, toAgent, faults, ops>>

\* The 15 minutes of a Handle are over: its last sends fail on their context.
ExpireJob(a, i) ==
    /\ Fault
    /\ handles[a][i] > 0
    /\ handles' = [handles EXCEPT ![a][i] = @ - 1]
    /\ building' = [building EXCEPT ![a] = @ \ {i}]
    /\ UNCHANGED <<hub, jobs, link, sync, toHub, toAgent, ops>>

TeardownJob(a, i) ==
    /\ toAgent[a][JOB_TEARDOWN(i)] > 0
    /\ toAgent' = [toAgent EXCEPT ![a] = Minus(@, JOB_TEARDOWN(i))]
    /\ jobs' = [jobs EXCEPT ![a] = @ \ {i}]
    /\ SendToHub(a, One(STATUS_UPDATE(i, "done")))
    /\ UNCHANGED <<hub, handles, building, link, sync, faults, ops>>

-----------------------------------------------------------------------------
(* STATUS_UPDATE: OnStatusUpdate, one transaction, no CAS. *)

\* Mutant: a STATUS_UPDATE does not name its agent.
FieldsAnonymous(a, s) == [sha |-> NULL, urls |-> s = "running", agent |-> NULL]

FieldsFrom(a, s) == [sha |-> NULL, urls |-> s = "running",
                     agent |-> IF s \in {"building", "running"} THEN a ELSE NULL]

OnStatusUpdate(a, i, s) ==
    /\ toHub[a][STATUS_UPDATE(i, s)] > 0
    /\ toHub' = [toHub EXCEPT ![a] = Minus(@, STATUS_UPDATE(i, s))]
    /\ rows' = IF CanUpdate(rows, Agent, i, NULL, FieldsFrom(a, s))
               THEN Updated(rows, i, s, FieldsFrom(a, s))
               ELSE rows
    /\ UNCHANGED <<agent, link, sync, toAgent, stales, task, faults, ops>>

-----------------------------------------------------------------------------
(* The dispatcher. *)

Candidates(a) == {i \in ListQueued(rows) : LabelsMatch(rows[i].labels, AgentLabels[a])}
Registered == {a \in Agent : link[a] # "down"}

\* What a worker does next once agent a has been offered the queue.
Offered(rest) == IF rest = {} THEN Idle ELSE TaskOf("trigger", NULL, {}, NULL, rest)
Offer(a, rest) == IF Candidates(a) = {} THEN Offered(rest)
                  ELSE TaskOf("claim", a, Candidates(a), NULL, rest)

\* OnReady up to the list of candidates, for a READY.
OnReady(w, a) ==
    /\ task[w] = Idle
    /\ toHub[a][READY] > 0
    /\ toHub' = [toHub EXCEPT ![a] = Minus(@, READY)]
    /\ task' = [task EXCEPT ![w] = Offer(a, {})]
    /\ UNCHANGED <<rows, stales, agent, link, sync, toAgent, faults, ops>>

\* OnReady for the next agent of triggerDispatch.
Trigger(w, a) ==
    /\ task[w] # Idle
    /\ task[w].op = "trigger"
    /\ a \in task[w].rest
    /\ task' = [task EXCEPT ![w] = Offer(a, task[w].rest \ {a})]
    /\ UNCHANGED <<rows, stales, agent, link, sync, toHub, toAgent, faults, ops>>

Claim(w) ==
    /\ task[w] # Idle
    /\ task[w].op = "claim"
    /\ \/ \E i \in Id :
            /\ ToClaim(rows, task[w].ids, i)
            /\ rows' = ClaimedBy(rows, i, task[w].agent)
            /\ task' = [task EXCEPT ![w] = TaskOf("assign", task[w].agent, {i}, NULL, task[w].rest)]
       \/ /\ \A i \in Id : ~ToClaim(rows, task[w].ids, i)
          /\ task' = [task EXCEPT ![w] = Offered(task[w].rest)]
          /\ UNCHANGED rows
    /\ UNCHANGED <<stales, agent, link, sync, toHub, toAgent, faults, ops>>

SendJobAssign(w) ==
    /\ task[w] # Idle
    /\ task[w].op = "assign"
    /\ \E i \in task[w].ids : SendToAgent(task[w].agent, JOB_ASSIGN(i))
    /\ sync' = SyncAfterSend(task[w].agent)
    /\ task' = [task EXCEPT ![w] = Offered(task[w].rest)]
    /\ UNCHANGED <<rows, stales, agent, toHub, faults, ops>>

-----------------------------------------------------------------------------
(* Requests: what webhooks and the admin pages do to the jobs of previews  *)
(* (not how they find the preview they are about).                         *)

Submission(i, adhoc) ==
    [repo |-> CHOOSE r \in Repo : TRUE, pr |-> CHOOSE p \in PR : TRUE,
     branch |-> CHOOSE b \in Branch : TRUE, labels |-> IF adhoc THEN {} ELSE LabelsOf[i],
     adhoc |-> adhoc, sha |-> NULL]

\* A webhook inserts a preview and leaves it to the next READY.
Webhook(i) ==
    /\ ~Exists(rows, i)
    /\ rows' = Inserted(rows, i, Submission(i, FALSE))
    /\ UNCHANGED <<agent, link, sync, toHub, toAgent, stales, task, faults, ops>>

\* A test build inserts one, without labels, and offers the queue to every agent in the registry.
TestBuild(w, i) ==
    /\ task[w] = Idle
    /\ ~Exists(rows, i)
    /\ rows' = Inserted(rows, i, Submission(i, TRUE))
    /\ task' = [task EXCEPT ![w] = Offered(Registered)]
    /\ UNCHANGED <<agent, link, sync, toHub, toAgent, stales, faults, ops>>

\* reopened, synchronize to a sha that is done: queued again, not offered.
Reopen(i) ==
    /\ Op
    /\ rows[i].status \in {"done", "failed"}
    /\ rows' = Updated(rows, i, "queued", NoFields)
    /\ UNCHANGED <<agent, link, sync, toHub, toAgent, stales, task, faults>>

\* The Rebuild button, or a test build of a branch that is done: offered.
Rebuild(w, i) ==
    /\ Op
    /\ task[w] = Idle
    /\ rows[i].status \in {"done", "failed"}
    /\ rows' = Updated(rows, i, "queued", NoFields)
    /\ task' = [task EXCEPT ![w] = Offered(Registered)]
    /\ UNCHANGED <<agent, link, sync, toHub, toAgent, stales, faults>>

\* closed, superseded or deleted: the row is read, whatever its status.
ReadToClose(w, i) ==
    /\ Op
    /\ task[w] = Idle
    /\ Exists(rows, i)
    /\ task' = [task EXCEPT ![w] = TaskOf("close", rows[i].agent, {i}, NULL, {})]
    /\ UNCHANGED <<rows, stales, agent, link, sync, toHub, toAgent, faults>>

\* The Stop button and the teardown of an agent's previews: CAS on what was read.
ReadToStop(w, i) ==
    /\ Op
    /\ task[w] = Idle
    /\ rows[i].status \in {"assigned", "building", "running"}
    /\ task' = [task EXCEPT ![w] = TaskOf("close", rows[i].agent, {i}, rows[i].status, {})]
    /\ UNCHANGED <<rows, stales, agent, link, sync, toHub, toAgent, faults>>

\* To teardown, and JOB_TEARDOWN next to the agent that was read, if any.
Close(w) ==
    /\ task[w] # Idle
    /\ task[w].op = "close"
    /\ \E i \in task[w].ids :
          IF StaleState(rows, i, task[w].from)
          THEN task' = [task EXCEPT ![w] = Idle] /\ UNCHANGED rows
          ELSE /\ rows' = Updated(rows, i, "teardown", NoFields)
               /\ task' = [task EXCEPT ![w] = IF task[w].agent = NULL THEN Idle
                                              ELSE TaskOf("teardown", task[w].agent, {i}, NULL, {})]
    /\ UNCHANGED <<stales, agent, link, sync, toHub, toAgent, faults, ops>>

SendTeardown(w) ==
    /\ task[w] # Idle
    /\ task[w].op = "teardown"
    /\ \E i \in task[w].ids : SendToAgent(task[w].agent, JOB_TEARDOWN(i))
    /\ sync' = SyncAfterSend(task[w].agent)
    /\ task' = [task EXCEPT ![w] = Idle]
    /\ UNCHANGED <<rows, stales, agent, toHub, faults, ops>>

-----------------------------------------------------------------------------
(* syncOnHello. *)

Fixing(orphans, lost) == IF orphans = {} /\ lost = [i \in Id |-> NULL] THEN NoSync
                         ELSE [stage |-> "fix", orphans |-> orphans, lost |-> lost]

\* Mutant: an ended preview still counts as known to be on the agent.
SyncListOfAll(a) ==
    /\ sync[a] # NoSync
    /\ sync[a].stage = "list"
    /\ LET listed == ListByAgent(rows, a, Statuses)
           lost   == (listed \ sync[a].ids) \ WithStatus(rows, {"queued", "done", "failed"})
       IN  sync' = [sync EXCEPT ![a] =
                      Fixing(@.ids \ listed,
                             [i \in Id |-> IF i \in lost THEN rows[i].status ELSE NULL])]
    /\ UNCHANGED <<hub, agent, link, toHub, toAgent, faults, ops>>

\* Mutant: previews in teardown are not listed.
SyncListOfActive(a) ==
    /\ sync[a] # NoSync
    /\ sync[a].stage = "list"
    /\ LET listed == ListByAgent(rows, a, {"assigned", "building", "running"})
           lost   == listed \ sync[a].ids
       IN  sync' = [sync EXCEPT ![a] =
                      Fixing(@.ids \ listed,
                             [i \in Id |-> IF i \in lost THEN rows[i].status ELSE NULL])]
    /\ UNCHANGED <<hub, agent, link, toHub, toAgent, faults, ops>>

SyncList(a) ==
    /\ sync[a] # NoSync
    /\ sync[a].stage = "list"
    /\ LET listed == ListByAgent(rows, a, {"assigned", "building", "running", "teardown"})
           lost   == listed \ sync[a].ids
       IN  sync' = [sync EXCEPT ![a] =
                      Fixing(@.ids \ listed,
                             [i \in Id |-> IF i \in lost THEN rows[i].status ELSE NULL])]
    /\ UNCHANGED <<hub, agent, link, toHub, toAgent, faults, ops>>

\* Agent - DB: JOB_TEARDOWN.
SyncOrphan(a, i) ==
    /\ sync[a] # NoSync
    /\ sync[a].stage = "fix"
    /\ i \in sync[a].orphans
    /\ SendToAgent(a, JOB_TEARDOWN(i))
    /\ sync' = [sync EXCEPT ![a] = Fixing(@.orphans \ {i}, @.lost)]
    /\ UNCHANGED <<hub, agent, toHub, faults, ops>>

\* DB - Agent: failed, by CAS on the status that was listed.
SyncLost(a, i) ==
    /\ sync[a] # NoSync
    /\ sync[a].stage = "fix"
    /\ sync[a].orphans = {}
    /\ sync[a].lost[i] # NULL
    /\ rows' = IF StaleState(rows, i, sync[a].lost[i]) THEN rows
               ELSE Updated(rows, i, "failed", NoFields)
    /\ sync' = [sync EXCEPT ![a] = Fixing({}, [@.lost EXCEPT ![i] = NULL])]
    /\ UNCHANGED <<agent, link, toHub, toAgent, stales, task, faults, ops>>

-----------------------------------------------------------------------------
(* The reconciler, and the time it measures. *)

\* A message or a handler that is about i is still on its way.  (A Handle may
\* take three times StaleAssignedAfter.)
UnderWay(i) ==
    \/ \E a \in Agent : \/ toAgent[a][JOB_ASSIGN(i)] > 0
                        \/ \E s \in Statuses : STATUS_UPDATE(i, s) \in HubMsg
                                               /\ toHub[a][STATUS_UPDATE(i, s)] > 0
    \/ \E w \in Worker : task[w] # Idle /\ i \in task[w].ids

\* StaleAssignedAfter passes: a fault while something about i is under way.
Age(i) ==
    /\ rows[i].status = "assigned"
    /\ rows[i].fresh
    /\ IF UnderWay(i) THEN Hasty /\ Fault ELSE UNCHANGED faults
    /\ rows' = Aged(rows, i)
    /\ UNCHANGED <<agent, link, sync, toHub, toAgent, stales, task, ops>>

ReconcileList ==
    /\ stales = {}
    /\ ListStaleAssigned(rows) # {}
    /\ stales' = ListStaleAssigned(rows)
    /\ UNCHANGED <<rows, task, agent, link, sync, toHub, toAgent, faults, ops>>

\* Mutant: no CAS on assigned.
ReconcileRowBlindly(i) ==
    /\ i \in stales
    /\ stales' = stales \ {i}
    /\ rows' = Updated(rows, i, "queued", NoFields)
    /\ UNCHANGED <<task, agent, link, sync, toHub, toAgent, faults, ops>>

\* Mutant: an assignment is only taken back from an agent that is offline.
ReconcileRowOfOffline(i) ==
    /\ i \in stales
    /\ stales' = stales \ {i}
    /\ rows' = IF StaleState(rows, i, "assigned") \/ rows[i].agent \in Registered THEN rows
               ELSE Updated(rows, i, "queued", NoFields)
    /\ UNCHANGED <<task, agent, link, sync, toHub, toAgent, faults, ops>>

ReconcileRow(i) ==
    /\ i \in stales
    /\ stales' = stales \ {i}
    /\ rows' = IF StaleState(rows, i, "assigned") THEN rows
               ELSE Updated(rows, i, "queued", NoFields)
    /\ UNCHANGED <<task, agent, link, sync, toHub, toAgent, faults, ops>>

-----------------------------------------------------------------------------

Next ==
    \/ \E a \in Agent :
          \/ Connect(a) \/ Welcome(a) \/ Disconnect(a) \/ AgentRestart(a) \/ SyncList(a)
          \/ \E i \in Id :
                \/ StartJob(a, i) \/ ExpireJob(a, i) \/ TeardownJob(a, i)
                \/ \E s \in {"running", "failed"} : FinishJob(a, i, s)
                \/ \E s \in {"building", "running", "failed", "done"} : OnStatusUpdate(a, i, s)
                \/ SyncOrphan(a, i) \/ SyncLost(a, i)
          \/ \E w \in Worker : OnReady(w, a) \/ Trigger(w, a)
    \/ \E w \in Worker :
          \/ Claim(w) \/ SendJobAssign(w) \/ Close(w) \/ SendTeardown(w)
          \/ \E i \in Id : TestBuild(w, i) \/ Rebuild(w, i) \/ ReadToClose(w, i) \/ ReadToStop(w, i)
    \/ \E i \in Id : Webhook(i) \/ Reopen(i) \/ Age(i) \/ ReconcileRow(i)
    \/ ReconcileList \/ HubRestart

Spec == Init /\ [][Next]_vars

\* Goroutines that were started run, agents reconnect, the ticker ticks, and a
\* row nobody writes grows old.  Nothing obliges a fault or a request.
Fairness ==
    /\ \A a \in Agent :
          /\ WF_vars(Connect(a))
          /\ WF_vars(Welcome(a))
          /\ WF_vars(SyncList(a))
          /\ \A i \in Id :
                /\ WF_vars(StartJob(a, i))
                /\ WF_vars(\E s \in {"running", "failed"} : FinishJob(a, i, s))
                /\ WF_vars(TeardownJob(a, i))
                /\ WF_vars(SyncOrphan(a, i))
                /\ WF_vars(SyncLost(a, i))
                /\ \A s \in {"building", "running", "failed", "done"} :
                      WF_vars(OnStatusUpdate(a, i, s))
          /\ WF_vars(\E w \in Worker : OnReady(w, a))
    /\ \A w \in Worker : WF_vars(\/ \E a \in Agent : Trigger(w, a)
                                 \/ Claim(w) \/ SendJobAssign(w) \/ Close(w) \/ SendTeardown(w))
    /\ \A i \in Id : WF_vars(~UnderWay(i) /\ Age(i)) /\ WF_vars(ReconcileRow(i))
    /\ WF_vars(ReconcileList)

FairSpec == Spec /\ Fairness

-----------------------------------------------------------------------------

Bag(M) == [M -> Nat]

TypeOK == /\ rows \in [Id -> Row]
          /\ link \in [Agent -> {"down", "registered", "up"}]
          /\ toHub \in [Agent -> Bag(HubMsg)]
          /\ toAgent \in [Agent -> Bag(AgentMsg)]
          /\ handles \in [Agent -> [Id -> Nat]]
          /\ building \in [Agent -> SUBSET Id]
          /\ jobs \in [Agent -> SUBSET Id]
          /\ sync \in [Agent -> Sync \cup {NoSync}]
          /\ stales \subseteq Id
          /\ task \in [Worker -> Task \cup {Idle}]
          /\ faults \in 0..MaxFaults
          /\ ops \in 0..MaxOps

\* A preview that is assigned, building or running names the agent it is on,
\* which is where stop, close and the HELLO synchronisation look for it.
HolderNamed ==
    \A i \in Id : rows[i].status \in {"assigned", "building", "running"} => rows[i].agent # NULL

\* A preview an agent has reported on is never put back into the queue under the
\* agent, however late the reconciler's list or a restart is: only an ended or
\* an assigned one is.
NotRequeuedUnderBuild ==
    [][\A i \in Id : rows[i].status \in {"building", "running", "teardown"}
                        => rows'[i].status # "queued"]_vars

\* One claim is one job: whatever READYs, triggers and the reconciler do at the
\* same time, a preview is on its way to one agent at most, or built by it, and
\* by none while it is queued.  (No fault and no request: a lost building, a
\* restart of the hub, and a rebuild of what a close has overtaken, break it.)
InHand(a, i)  == toAgent[a][JOB_ASSIGN(i)] + handles[a][i]
Sending(w, i) == task[w] # Idle /\ task[w].op = "assign" /\ i \in task[w].ids
Carriers(i)   == {<<"agent", a>> : a \in {b \in Agent : InHand(b, i) > 0}}
                   \cup {<<"worker", w>> : w \in {v \in Worker : Sending(v, i)}}
ClaimedOnce ==
    faults = 0 /\ ops = 0 =>
    \A i \in Id : /\ rows[i].status = "queued" => Carriers(i) = {}
                  /\ \A x, y \in Carriers(i) : x = y
                  /\ \A a \in Agent : InHand(a, i) <= 1

\* The handlers of the hub, the messages and the restarts together give every
\* preview a life PreviewLifecycle allows: it is offered to one agent at a time,
\* and offered again only after the offer was taken back or the preview ended.
Lifecycle == INSTANCE PreviewLifecycle
                WITH Preview <- Id, Commit <- Sha, None <- NULL,
                     phase <- Phases(rows), holder <- Holders(rows), commit <- Commits(rows)
ImplementsLifecycle == Lifecycle!Spec

\* An assignment does not hang: whatever is lost, the preview leaves assigned.
AssignedResolves ==
    \A i \in Id : rows[i].status = "assigned" ~> rows[i].status # "assigned"

\* An agent that comes back with the container of a preview that has ended is
\* told to tear it down.
Ended == {"done", "failed"}
OrphansTornDown ==
    \A a \in Agent, i \in Id :
        link[a] = "down" /\ i \in jobs[a] /\ rows[i].status \in Ended
            ~> i \notin jobs[a] \/ rows[i].status \notin Ended

\* A preview whose agent comes back without it does not stay as it was: it
\* fails, or news of it changes it first.
Lost(a, i, s) == rows[i].agent = a /\ rows[i].status = s /\ i \notin Held(a)
LostPreviewsFail ==
    \A a \in Agent, i \in Id : \A s \in {"assigned", "building", "running", "teardown"} :
        link[a] = "down" /\ Lost(a, i, s) ~> ~Lost(a, i, s)

-----------------------------------------------------------------------------
(* What documents and comments say, and the code does not do. *)

\* docs/specs/phase-2, 4-6: the transitions of the status of a preview, with the
\* Rebuild of phase-3, 4-7.
Documented ==
    {<<"absent", "queued">>, <<"queued", "assigned">>, <<"queued", "teardown">>,
     <<"assigned", "building">>, <<"assigned", "queued">>, <<"assigned", "teardown">>,
     <<"building", "running">>, <<"building", "teardown">>, <<"running", "teardown">>,
     <<"teardown", "done">>, <<"done", "queued">>, <<"failed", "queued">>,
     <<"teardown", "queued">>}
DocumentedTransitions ==
    [][\A i \in Id : \/ rows'[i].status \in {rows[i].status, "failed"}
                      \/ <<rows[i].status, rows'[i].status>> \in Documented]_vars

\* webhook_handler.go:356: a JOB_TEARDOWN that could not be sent is followed up
\* by the reconciler.
TornDown(i) == rows[i].status # "teardown" \/ rows[i].agent = NULL
TeardownFollowedUp == \A i \in Id : ~TornDown(i) ~> TornDown(i)

\* README: an opened pull request gets its environment, if an agent that has its
\* labels is connected for good and idle.
Waiting(a, i) == /\ link[a] = "up"
                 /\ Held(a) = {}
                 /\ rows[i].status = "queued"
                 /\ LabelsMatch(rows[i].labels, AgentLabels[a])
OpenedIsStarted == \A a \in Agent, i \in Id : Waiting(a, i) ~> ~Waiting(a, i)

\* runner.go:93: what the agent holds is not failed as lost by syncOnHello.
HeldNotFailed ==
    [][\A a \in Agent, i \in Id :
          i \in Held(a) /\ sync[a] # sync'[a] => ~(/\ rows[i].status # "failed"
                                                 /\ rows'[i].status = "failed")]_vars

\* runner.go:186: the building that Handle sends first keeps the reconciler from
\* putting a preview back into the queue while it is being built.
BuildNotReclaimed ==
    [][\A i \in stales \ stales', a \in Agent :
          handles[a][i] > 0 => ~(rows[i].status = "assigned" /\ rows'[i].status = "queued")]_vars
=============================================================================
