--------------------------- MODULE PreviewRequests ---------------------------
(***************************************************************************)
(* How requests find the previews they are about: the webhooks GitHub      *)
(* sends on pull requests, and the test builds of the admin UI, each a     *)
(* handler of several transactions on the previews table.  What the        *)
(* requests then do to the jobs of a preview is in module Dispatch.        *)
(*                                                                         *)
(* GitHub sends the events of a pull request in order.  Agents are in      *)
(* order, too: they build what is queued and tear down what they are told, *)
(* and nothing of theirs is late (Dispatch has the late messages).  All is *)
(* in one repository; an event of a pull request and a test build are the  *)
(* only requests (the buttons of the admin UI are in Dispatch).            *)
(***************************************************************************)
EXTENDS Previews, Sequences

CONSTANTS NoPR,       \* pr_number 0, of test builds
          Worker,     \* handlers that run at the same time
          Idle,       \* a handler that has no request
          Reuses,     \* a head, or a test build, may be of a commit seen before
          MaxEvents   \* bound on the events of all pull requests and test builds together

ASSUME RequestsAssumption == /\ NoPR \in PR
                             /\ Repo # {}
                             /\ Branch # {}
                             /\ Reuses \in BOOLEAN
                             /\ MaxEvents \in Nat

VARIABLES rows,        \* previews
          open, head,  \* of each pull request, on GitHub
          deliveries,  \* events GitHub has still to deliver, of each pull request
          task,        \* of each handler
          sent         \* number of events and test builds

vars == <<rows, open, head, deliveries, task, sent>>

PullRequest == PR \ {NoPR}
TheRepo == CHOOSE r \in Repo : TRUE
TheBranch == CHOOSE b \in Branch : TRUE

Action == {"opened", "synchronize", "reopened", "closed", "test build"}
Event == [action : Action, pr : PR, sha : Sha \cup {NULL}]

\* step: the transaction that is next; id, from: the row it is about and the
\* status it was read with.
Task == [step : {"find active", "upsert", "find newest", "find adhoc"}, event : Event]
          \cup [step : {"supersede", "close"}, event : Event, id : Id]
          \cup [step : {"requeue"}, event : Event, id : Id, from : Statuses]

ASSUME IdleIsNoTask == Idle \notin Task

Step(w, step) == task[w] # Idle /\ task[w].step = step
Go(w, step) == task' = [task EXCEPT ![w] = [step |-> step, event |-> task[w].event]]
About(w, step, i) == task' = [task EXCEPT ![w] = [step |-> step, event |-> task[w].event, id |-> i]]
From(w, step, i, s) ==
    task' = [task EXCEPT ![w] = [step |-> step, event |-> task[w].event, id |-> i, from |-> s]]
Done(w) == task' = [task EXCEPT ![w] = Idle]

Init == /\ rows = [i \in Id |-> Blank]
        /\ open \in [PullRequest -> BOOLEAN]   \* opened before the hub was there
        /\ head \in [PullRequest -> Sha \cup {NULL}]
        /\ \A p \in PullRequest : open[p] <=> head[p] # NULL
        /\ Reuses \/ \A p, q \in PullRequest : head[p] = head[q] => p = q \/ head[p] = NULL
        /\ deliveries = [p \in PullRequest |-> << >>]
        /\ task = [w \in Worker |-> Idle]
        /\ sent = 0

-----------------------------------------------------------------------------
(* GitHub, and who clicks Test Build. *)

github == <<open, head, deliveries>>

Send(p, action, sha) ==
    /\ sent < MaxEvents
    /\ sent' = sent + 1
    /\ deliveries' = [deliveries EXCEPT ![p] = Append(@, [action |-> action, pr |-> p, sha |-> sha])]

\* A commit no preview and no event is about yet.
New(sha) == /\ \A p \in PullRequest : /\ head[p] # sha
                                      /\ \A k \in 1..Len(deliveries[p]) : deliveries[p][k].sha # sha
            /\ \A i \in Existing(rows) : rows[i].sha # sha
            /\ \A w \in Worker : task[w] # Idle => task[w].event.sha # sha

OpenPR(p, sha) ==
    /\ head[p] = NULL
    /\ New(sha) \/ Reuses
    /\ open' = [open EXCEPT ![p] = TRUE]
    /\ head' = [head EXCEPT ![p] = sha]
    /\ Send(p, "opened", sha)
    /\ UNCHANGED <<rows, task>>

Push(p, sha) ==
    /\ open[p]
    /\ head[p] # sha
    /\ New(sha) \/ Reuses
    /\ head' = [head EXCEPT ![p] = sha]
    /\ Send(p, "synchronize", sha)
    /\ UNCHANGED <<rows, open, task>>

ClosePR(p) ==
    /\ open[p]
    /\ open' = [open EXCEPT ![p] = FALSE]
    /\ Send(p, "closed", head[p])
    /\ UNCHANGED <<rows, head, task>>

\* With what was pushed to its branch meanwhile.
ReopenPR(p, sha) ==
    /\ ~open[p]
    /\ head[p] # NULL
    /\ sha = head[p] \/ New(sha) \/ Reuses
    /\ open' = [open EXCEPT ![p] = TRUE]
    /\ head' = [head EXCEPT ![p] = sha]
    /\ Send(p, "reopened", sha)
    /\ UNCHANGED <<rows, task>>

\* testBuildSubmit, with or without a commit.
TestBuild(w, sha) ==
    /\ task[w] = Idle
    /\ sent < MaxEvents
    /\ sent' = sent + 1
    /\ sha = NULL \/ New(sha) \/ Reuses
    /\ task' = [task EXCEPT ![w] = [step |-> "find adhoc",
                                    event |-> [action |-> "test build", pr |-> NoPR, sha |-> sha]]]
    /\ UNCHANGED <<rows, github>>

-----------------------------------------------------------------------------
(* handleUpsert. *)

\* handleWebhook, up to the switch on the action.
Receive(w, p) ==
    /\ task[w] = Idle
    /\ deliveries[p] # << >>
    /\ deliveries' = [deliveries EXCEPT ![p] = Tail(@)]
    /\ LET event == Head(deliveries[p])
           step  == CASE event.action = "synchronize" -> "find active"
                      [] event.action = "closed"      -> "find newest"
                      [] OTHER                        -> "upsert"
       IN  task' = [task EXCEPT ![w] = [step |-> step, event |-> event]]
    /\ UNCHANGED <<rows, open, head, sent>>

\* Mutant: what an agent has not built yet does not count as active.
FindRunning(w) ==
    LET i == Newest(rows, OfPR(rows, TheRepo, task[w].event.pr) \cap WithStatus(rows, {"running"}))
    IN  /\ Step(w, "find active")
        /\ IF i # NULL /\ rows[i].sha # task[w].event.sha THEN About(w, "supersede", i)
           ELSE Go(w, "upsert")
        /\ UNCHANGED <<rows, github, sent>>

FindActive(w) ==
    LET i == GetActiveByRepoAndPR(rows, TheRepo, task[w].event.pr)
    IN  /\ Step(w, "find active")
        /\ IF i # NULL /\ rows[i].sha # task[w].event.sha THEN About(w, "supersede", i)
           ELSE Go(w, "upsert")
        /\ UNCHANGED <<rows, github, sent>>

\* Mutant: the new commit waits for the next event.
SupersedeOnly(w) ==
    /\ Step(w, "supersede")
    /\ rows' = Updated(rows, task[w].id, "teardown", NoFields)
    /\ Done(w)
    /\ UNCHANGED <<github, sent>>

\* Case B, no CAS.
Supersede(w) ==
    /\ Step(w, "supersede")
    /\ rows' = Updated(rows, task[w].id, "teardown", NoFields)
    /\ Go(w, "upsert")
    /\ UNCHANGED <<github, sent>>

DraftOf(event) == [repo |-> TheRepo, pr |-> event.pr, branch |-> TheBranch, labels |-> {},
                  adhoc |-> event.action = "test build", sha |-> event.sha]

\* Cases B and D: a new row.  (The event that says what it superseded is left out.)
UpsertNew(w, i) ==
    /\ Step(w, "upsert")
    /\ WithSha(rows, TheRepo, task[w].event.sha) = {}
    /\ ~Exists(rows, i)
    /\ rows' = Inserted(rows, i, DraftOf(task[w].event))
    /\ Done(w)
    /\ UNCHANGED <<github, sent>>

\* Mutant: a preview in teardown is queued again.
UpsertSameClosing(w, i) ==
    /\ Step(w, "upsert")
    /\ i \in WithSha(rows, TheRepo, task[w].event.sha)
    /\ rows' = Merged(rows, i, DraftOf(task[w].event))
    /\ IF task[w].event.action # "test build" /\ rows[i].status \in {"done", "failed", "teardown"}
       THEN From(w, "requeue", i, rows[i].status)
       ELSE Done(w)
    /\ UNCHANGED <<github, sent>>

\* Cases A and C.  A test build did not expect the row: 500.
UpsertSame(w, i) ==
    /\ Step(w, "upsert")
    /\ i \in WithSha(rows, TheRepo, task[w].event.sha)
    /\ rows' = Merged(rows, i, DraftOf(task[w].event))
    /\ IF task[w].event.action # "test build" /\ rows[i].status \in {"done", "failed"}
       THEN From(w, "requeue", i, rows[i].status)
       ELSE Done(w)
    /\ UNCHANGED <<github, sent>>

\* Case C, and a test build of a branch that has ended: CAS.  A webhook that
\* meets another status answers 500, a test build leaves it to who changed it.
Requeue(w) ==
    /\ Step(w, "requeue")
    /\ IF StaleState(rows, task[w].id, task[w].from) THEN UNCHANGED rows
       ELSE rows' = Updated(rows, task[w].id, "queued", NoFields)
    /\ Done(w)
    /\ UNCHANGED <<github, sent>>

-----------------------------------------------------------------------------
(* handleClose. *)

\* Mutant: the first row of the pull request.
FindOldest(w) ==
    LET S == OfPR(rows, TheRepo, task[w].event.pr) IN
    /\ Step(w, "find newest")
    /\ IF S = {} THEN Done(w)
       ELSE \E i \in S : (\A j \in S : rows[i].created <= rows[j].created) /\ About(w, "close", i)
    /\ UNCHANGED <<rows, github, sent>>

\* findPreviewByRepoPR: the first of ListAll, whatever its status.
FindNewest(w) ==
    LET i == Newest(rows, OfPR(rows, TheRepo, task[w].event.pr)) IN
    /\ Step(w, "find newest")
    /\ IF i = NULL THEN Done(w) ELSE About(w, "close", i)
    /\ UNCHANGED <<rows, github, sent>>

Close(w) ==
    /\ Step(w, "close")
    /\ rows' = Updated(rows, task[w].id, "teardown", NoFields)
    /\ Done(w)
    /\ UNCHANGED <<github, sent>>

-----------------------------------------------------------------------------
(* testBuildSubmit. *)

\* Mutant: only a test build that has ended is found.
FindEndedAdhoc(w) ==
    LET i == FindAdhocByBranch(rows, TheRepo, TheBranch) IN
    /\ Step(w, "find adhoc")
    /\ IF i = NULL \/ rows[i].status \notin {"done", "failed"} THEN Go(w, "upsert")
       ELSE From(w, "requeue", i, rows[i].status)
    /\ UNCHANGED <<rows, github, sent>>

FindAdhoc(w) ==
    LET i == FindAdhocByBranch(rows, TheRepo, TheBranch) IN
    /\ Step(w, "find adhoc")
    /\ IF i = NULL THEN Go(w, "upsert")
       ELSE IF rows[i].status \in {"done", "failed"} THEN From(w, "requeue", i, rows[i].status)
       ELSE Done(w)
    /\ UNCHANGED <<rows, github, sent>>

-----------------------------------------------------------------------------
(* The agents: a claim and the STATUS_UPDATEs that follow, in order. *)

Claim(i, a) ==
    /\ rows[i].status = "queued"
    /\ rows' = ClaimedBy(rows, i, a)
    /\ UNCHANGED <<github, task, sent>>

\* The commit of a branch is found out by building; another row may have it.
Report(i) ==
    /\ \E a \in Agent \cup {NULL}, sha \in Sha \cup {NULL}, s \in {"running", "failed", "done"} :
          /\ <<rows[i].status, s>> \in {<<"assigned", "running">>, <<"assigned", "failed">>,
                                        <<"running", "failed">>, <<"teardown", "done">>}
          /\ rows[i].agent # NULL
          /\ a = IF s = "running" THEN rows[i].agent ELSE NULL
          /\ sha # NULL => s = "running" /\ rows[i].sha = NULL /\ (Reuses \/ New(sha))
          /\ LET fields == [sha |-> sha, agent |-> a, urls |-> s = "running"]
             IN  /\ CanUpdate(rows, Agent, i, NULL, fields)
                 /\ rows' = Updated(rows, i, s, fields)
    /\ UNCHANGED <<github, task, sent>>

-----------------------------------------------------------------------------

Next == \/ \E p \in PullRequest :
              \/ \E sha \in Sha : OpenPR(p, sha) \/ Push(p, sha) \/ ReopenPR(p, sha)
              \/ ClosePR(p)
              \/ \E w \in Worker : Receive(w, p)
        \/ \E w \in Worker :
              \/ \E sha \in Sha \cup {NULL} : TestBuild(w, sha)
              \/ FindActive(w) \/ Supersede(w) \/ Requeue(w)
              \/ FindNewest(w) \/ Close(w) \/ FindAdhoc(w)
              \/ \E i \in Id : UpsertNew(w, i) \/ UpsertSame(w, i)
        \/ \E i \in Id : Report(i) \/ \E a \in Agent : Claim(i, a)

Spec == Init /\ [][Next]_vars
-----------------------------------------------------------------------------
(* Properties. *)

TypeOK == /\ rows \in [Id -> Row]
          /\ open \in [PullRequest -> BOOLEAN]
          /\ head \in [PullRequest -> Sha \cup {NULL}]
          /\ deliveries \in [PullRequest -> Seq(Event)]
          /\ task \in [Worker -> Task \cup {Idle}]
          /\ sent \in 0..MaxEvents

Active(p) == OfPR(rows, TheRepo, p) \cap WithStatus(rows, ActiveStatuses)

\* Every event of p has been answered.
Settled(p) == /\ deliveries[p] = << >>
              /\ \A w \in Worker : task[w] # Idle => task[w].event.pr # p

\* A pull request has one active preview at most, at every moment between the
\* transactions of its handlers and of the agents.
OneActivePerPR == \A p \in PullRequest : \A i, j \in Active(p) : i = j

\* Once its last event is answered, a closed pull request has no preview that
\* an agent builds, runs or could still claim.
ClosedTornDown == \A p \in PullRequest : ~open[p] /\ Settled(p) => Active(p) = {}

\* Once its last event is answered, the newest preview of a pull request is
\* for its head, and no preview for an earlier commit is active.
HeadTracked ==
    \A p \in PullRequest : Settled(p) /\ OfPR(rows, TheRepo, p) # {} =>
        LET i == Newest(rows, OfPR(rows, TheRepo, p))
        IN  rows[i].sha = head[p] /\ Active(p) \subseteq {i}

\* Test builds of a branch take turns in one row: however often the button is
\* pressed, there is one ad-hoc preview of a branch.
AdhocOnce == \A i, j \in Existing(rows) :
                rows[i].adhoc /\ rows[j].adhoc /\ rows[i].branch = rows[j].branch => i = j

\* However webhooks and test builds interleave, each row they share lives as
\* PreviewLifecycle says: none of them queues again what another has got going.
Lifecycle == INSTANCE PreviewLifecycle
                WITH Preview <- Id, Commit <- Sha, None <- NULL,
                     phase <- Phases(rows), holder <- Holders(rows), commit <- Commits(rows)
ImplementsLifecycle == Lifecycle!Spec

\* Once its last event is answered, an open pull request that has previews has
\* one that is on its way, runs, or has failed.
HeadShown ==
    \A p \in PullRequest : open[p] /\ Settled(p) /\ OfPR(rows, TheRepo, p) # {} =>
        Active(p) # {} \/ \E i \in OfPR(rows, TheRepo, p) : rows[i].status = "failed"

\* A test build leaves the previews of pull requests as they are.
BuildsLeavePRsAlone ==
    [][\A w \in Worker : task[w] # Idle /\ task[w].event.action = "test build"
                              /\ task'[w] # task[w] =>
          \A i \in Existing(rows) : rows[i].pr # NoPR => rows'[i] = rows[i]]_vars
=============================================================================
