---------------------------- MODULE PreviewStore ----------------------------
(***************************************************************************)
(* The preview store: the previews table, its event log, and the agents    *)
(* table its foreign key points to.  The pool has one connection, so every *)
(* operation is one transaction and one action here; a refused call rolls  *)
(* back and is a stutter.  Requests is what the hub's handlers ask of      *)
(* UpdateStatus; the modules of the handlers say when they ask it.         *)
(***************************************************************************)
EXTENDS Previews, Sequences

CONSTANT MaxEvents     \* bound on the events of one preview

ASSUME MaxEventsAssumption == MaxEvents \in Nat

VARIABLES rows,        \* previews
          events,      \* preview_events of each preview, by created_at
          agents       \* ids in the agents table

vars == <<rows, events, agents>>

\* Calls of UpdateStatus in the hub, from = NULL when CAS is off.
Requests ==
    [from : {NULL}, to : {"building", "running", "done", "failed"}]            \* STATUS_UPDATE
      \cup [from : {NULL}, to : {"teardown"}]                                  \* close, supersede, delete
      \cup [from : {"assigned", "building", "running"}, to : {"teardown"}]     \* stop, agent teardowns
      \cup [from : {"done", "failed", "queued", "assigned"}, to : {"queued"}]  \* reopen, rebuild, reconciler
      \cup [from : {"assigned", "building", "running", "teardown"}, to : {"failed"}]  \* HELLO sync

\* Only a STATUS_UPDATE fills fields: building and running name the agent and
\* may name the sha, running has the urls.
FieldsOf(r) ==
    IF r.from # NULL \/ r.to \notin {"building", "running"} THEN {NoFields}
    ELSE {f \in Fields : f.agent # NULL /\ f.urls = (r.to = "running")}

Event == [from : Statuses \cup {NULL}, to : Statuses]

Log(i, from, to) == events' = [events EXCEPT ![i] = Append(@, [from |-> from, to |-> to])]
LogHasRoom(i) == Len(events[i]) < MaxEvents

Init == /\ rows = [i \in Id |-> Blank]
        /\ events = [i \in Id |-> << >>]
        /\ agents = {}

\* Upsert of a draft no row has the sha of.
UpsertNew(i, d) ==
    /\ ~Exists(rows, i)
    /\ WithSha(rows, d.repo, d.sha) = {}
    /\ LogHasRoom(i)
    /\ rows' = Inserted(rows, i, d)
    /\ Log(i, NULL, "queued")
    /\ UNCHANGED agents

\* Mutant: the row of the pull request is reused for its next commit.
UpsertSamePR(i, d) ==
    /\ i \in OfPR(rows, d.repo, d.pr)
    /\ rows' = [Merged(rows, i, d) EXCEPT ![i].sha = d.sha]
    /\ UNCHANGED <<events, agents>>

\* Upsert of a draft whose (repo, sha) has a row: no event, no status change.
UpsertSame(i, d) ==
    /\ i \in WithSha(rows, d.repo, d.sha)
    /\ rows' = Merged(rows, i, d)
    /\ UNCHANGED <<events, agents>>

\* Mutant: the event says what the caller expected the status to be.
UpdateStatusLoggingFrom(i, r, f) ==
    /\ CanUpdate(rows, agents, i, r.from, f)
    /\ LogHasRoom(i)
    /\ rows' = Updated(rows, i, r.to, f)
    /\ Log(i, r.from, r.to)
    /\ UNCHANGED agents

UpdateStatus(i, r, f) ==
    /\ CanUpdate(rows, agents, i, r.from, f)
    /\ LogHasRoom(i)
    /\ rows' = Updated(rows, i, r.to, f)
    /\ Log(i, rows[i].status, r.to)
    /\ UNCHANGED agents

Claim(i, candidates, a) ==
    /\ ToClaim(rows, candidates, i)
    /\ ~NoSuchAgent(agents, a)
    /\ LogHasRoom(i)
    /\ rows' = ClaimedBy(rows, i, a)
    /\ Log(i, "queued", "assigned")
    /\ UNCHANGED agents

\* Hub start.
ResetAllAssigned ==
    LET assigned == WithStatus(rows, {"assigned"}) IN
    /\ \A i \in assigned : LogHasRoom(i)
    /\ rows' = AssignedReset(rows)
    /\ events' = [i \in Id |-> IF i \in assigned
                               THEN Append(events[i], [from |-> "assigned", to |-> "queued"])
                               ELSE events[i]]
    /\ UNCHANGED agents

CreateAgent(a) == /\ a \notin agents
                  /\ agents' = agents \cup {a}
                  /\ UNCHANGED <<rows, events>>

DeleteAgent(a) == /\ a \in agents
                  /\ agents' = agents \ {a}
                  /\ rows' = AgentCleared(rows, a)
                  /\ UNCHANGED events

\* StaleAssignedAfter passes without a write to the row.
Age(i) == /\ rows[i].fresh
          /\ rows' = Aged(rows, i)
          /\ UNCHANGED <<events, agents>>

Next == \/ \E i \in Id : \/ \E d \in Draft : UpsertNew(i, d) \/ UpsertSame(i, d)
                         \/ \E r \in Requests : \E f \in FieldsOf(r) : UpdateStatus(i, r, f)
                         \/ \E candidates \in SUBSET Id, a \in Agent : Claim(i, candidates, a)
                         \/ Age(i)
        \/ ResetAllAssigned
        \/ \E a \in Agent : CreateAgent(a) \/ DeleteAgent(a)

Spec == Init /\ [][Next]_vars

-----------------------------------------------------------------------------

TypeOK == /\ rows \in [Id -> Row]
          /\ events \in [Id -> Seq(Event)]
          /\ agents \subseteq Agent

\* A preview's event log is its history: it starts with its insertion, each
\* event starts from the status the one before it led to, and the last one led
\* to the status in the table.  (R1, R2: one event per status change, in the
\* transaction of the change.)
TellsHistory(log, status) ==
    /\ log = << >> <=> status = "absent"
    /\ log # << >> =>
         /\ log[1] = [from |-> NULL, to |-> "queued"]
         /\ \A k \in 1..(Len(log) - 1) : log[k + 1].from = log[k].to
         /\ log[Len(log)].to = status
EventsTellHistory == \A i \in Id : TellsHistory(events[i], rows[i].status)

\* No two previews of a repository have the same commit, however the commit got
\* there: from a webhook's draft or from an agent that resolved a branch.
ShaIdentifies ==
    \A i, j \in Existing(rows) :
        /\ rows[i].repo = rows[j].repo
        /\ rows[i].sha = rows[j].sha
        /\ rows[i].sha # NULL
        => i = j

\* A preview never refers to an agent that is not in the agents table.
AgentsReferenced == \A i \in Id : rows[i].agent # NULL => rows[i].agent \in agents

\* A preview has urls as long as it runs, and no other: whatever leads out of
\* running, in whatever order, takes them away.
UrlsOnlyWhileRunning == \A i \in Id : rows[i].urls <=> rows[i].status = "running"

\* Whatever is asked of the store, in any order, is a life of a preview as
\* PreviewLifecycle allows it: no call gives a second agent what is not queued,
\* or puts back into the queue what is built, runs or is being torn down.
Lifecycle == INSTANCE PreviewLifecycle
                WITH Preview <- Id, Commit <- Sha, None <- NULL,
                     phase <- Phases(rows), holder <- Holders(rows), commit <- Commits(rows)
ImplementsLifecycle == Lifecycle!Spec

\* Once a preview has a commit, no call changes it.
ShaWrittenOnce ==
    [][\A i \in Id : rows[i].sha # NULL => rows'[i].sha = rows[i].sha]_vars
=============================================================================
