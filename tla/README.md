# A TLA+ model of preview

preview is a self-hosted service that starts a preview environment for every
pull request. A **hub** (one process, SQLite) receives GitHub webhooks and the
clicks of an admin UI, and keeps a table of previews. **Agents** (one process
per machine) connect to the hub by WebSocket, ask for jobs, build a commit with
Docker or docker compose, run it, and tear it down.

This directory models the parts of it that run concurrently, lose messages and
restart, checks them with TLC on small instances, and proves the invariants
that matter most with TLAPS for all instances. Sources are named relative to
the repository; `PROJECT.json` maps every definition to its lines.

## 1. The system

| Component | State | Operations | Talks to |
|---|---|---|---|
| preview store (`internal/db/sqlite/preview_store.go`, `previews.sql.go`) | tables `previews`, `preview_events` | Upsert, UpdateStatus (CAS optional), Claim, ResetAllAssigned, queries | called by every handler of the hub; one connection, so one transaction at a time |
| agent store (`agent_store.go`) | table `agents` (status, labels, token hash) | Create, Delete, UpdateStatus, ResetAllOnline | previews refer to agents (ON DELETE SET NULL) |
| sessions, registry (`hub/ws_handler.go`, `ws_registry.go`, `server.go`) | `ConnRegistry.conns`, one goroutine per connection and one per STATUS_UPDATE | handshake, ping, close, shutdown | agents; dispatcher on READY; status updater |
| dispatcher (`dispatcher.go`, `labels.go`) | none of its own | OnReady: list queue, match labels, claim, JOB_ASSIGN | store, registry |
| status updater (`status_update.go`) | none | STATUS_UPDATE to row, without CAS | store |
| HELLO sync (`ws_handler.go` syncOnHello), reconciler (`reconciler.go`) | a snapshot of rows | fail what an agent lost, tear down what it should not have; requeue stale assignments | store, registry |
| webhooks (`webhook_handler.go`) | none | opened, synchronize, reopened, closed, DELETE | store, JOB_TEARDOWN |
| admin UI (`admin_ui.go`, `admin_handler.go`) | none | Test Build, Rebuild, Stop, agents' CRUD and teardown | store, dispatcher, JOB_TEARDOWN |
| agent client (`agent/client.go`, `ready.go`, `backoff.go`) | connection, in-flight count | reconnect loop, READY, STATUS_UPDATE, a goroutine per message | hub |
| runner (`agent/runner.go`) | maps `jobs` and `building`, `paused`, `inFlight` | Handle (build and run), Teardown, RunningPreviewIDs | Docker, worktrees, client |
| agent start (`cmd/agent/main.go`, `orphan_restore.go`, `compose_orphan.go`, `repocache_multi.go`) | none | restore labelled containers, prune worktrees and compose projects; SIGTERM | Docker, disk, runner |
| repository cache (`repocache.go`, `repocache_multi.go`) | a bare clone per slug of a URL, a mutex per URL, a worktree per preview | Ensure, Checkout, fetch, Remove | git, the remote repositories; called by the runner |
| repository secrets (`admin_ui_repo_secrets.go`, `repo_secret_store.go`, `dispatcher.go` hydrateBuildEnv, `agent/dotenv.go`) | table `repo_secrets` | POST of a text, List, Upsert, Delete; the environment of JOB_ASSIGN and the `.env` of the build | admin UI, dispatcher, agent |
| preview config, Traefik labels, pages, tokens, CLI, migrations, backoff | none | parsing, rendering, CRUD, a schedule of waits | |

What is hard here: the queue is read, matched and claimed in separate
transactions; statuses are written without CAS by one goroutine per message;
READY carries no count and is remembered by neither side; JOB_ASSIGN and
JOB_TEARDOWN are sent once, errors ignored; three mechanisms (HELLO sync,
reconciler, reset at start) repair what was lost, each from a snapshot; a
connection ends at its two ends at different times; the agent rebuilds its maps
from what Docker still has; jobs share a clone that others fetch into between
their own fetch and their look at it; a form of secrets is applied one key at a
time while builds start; and webhook handlers find "the preview of the pull
request" by queries that can disagree. `PROJECT.json` lists 40 such hazards,
each at its line.

What makes each component correct, in short: the store keeps a history that
adds up and commits that identify previews; the registry has one live session
per agent and strands nobody; the dispatcher turns one claim into one job;
repairs never undo a living build and leave nothing hanging; READY forgets no
slot; HELLO is complete and nothing leaks on the agent; a pull request has one
active preview, for its head, and none once closed; a clone has one writer, and a
build the commit it was asked for; a saved text of secrets is what the rows
say, and a build finds no key missing that was never taken away. Above them
all stands what the hub promises of a preview, `PreviewLifecycle`.

## 2. Modules

| Module | Models | EXTENDS |
|---|---|---|
| `PreviewLifecycle` | the abstract specification: phase, holder and commit of each preview | |
| `Previews` | the table: one pure operator per SQL statement and per refusal of the store; the mapping of a table to the lifecycle | |
| `PreviewStore` | the store as a state machine: one action per transaction, with events and the agents table | `Previews` |
| `AgentSession` | both ends of an agent's connections, registry, status column, hub process | |
| `Dispatch` | the job protocol: messages in flight, workers of the hub, HELLO sync, reconciler, restarts of both sides | `Previews` |
| `Slots` | READY and the slots of one agent | |
| `Runner` | the inside of one agent: Handle and Teardown, maps, Docker, worktrees, crashes | |
| `PreviewRequests` | webhooks and test builds, transaction by transaction | `Previews` |
| `RepoCache` | the agent's bare clones and the worktrees its jobs get out of them | |
| `RepoSecrets` | the rows of a repository's secrets, the POSTs that change them, the builds that get them | |
| `SecretText` | a text of secrets as it is typed, what `parseSecretsRaw` makes of it and what the page shows of the rows | |
| `MC*` | symmetry sets, label assignments for TLC | the module of that name |
| `PreviewsTheory` | lemmas on the operators of `Previews`: what each query finds, what each write does to a row and leaves of the others, and to phase, holder and commit | `Previews`, `TLAPS` |
| `PreviewStoreProofs`, `AgentClientProofs` (`AgentSession` and `Slots`), `DispatchProofs`, `RunnerProofs`, `PreviewRequestsProofs`, `RepoCacheProofs`, `RepoSecretsProofs` | theorems | the modules they are about, `PreviewsTheory` for those over the table |

`Previews` is what the modules of the hub have in common. A table is a function
from ids to rows; `Dispatch`, `PreviewStore` and `PreviewRequests` each hold one
in a variable `rows` and apply the same operators, so a statement of SQL is
translated once. `created_at` is the rank of the insertion, `updated_at` one bit
(`fresh`), container, host, port and error message, which no decision depends
on, are left out, and `preview_urls` is empty or not (it is not nullable, so an update
that does not give it empties it: `UrlsOnlyWhileRunning` rests on that).

**PreviewLifecycle** says it without handlers, messages or agents: a preview
waits, is offered to one agent, is live once an agent has reported on it, closes
and ends; what is live or closing waits again only after it has ended; it is
never forgotten and learns its commit once. `Previews` has the mapping:
`Phases` (queued is waiting, assigned is offered, building and running are
live, teardown is closing, done and failed are ended, no row is absent),
`Holders` and `Commits`. `PreviewStore`, `Dispatch` and `PreviewRequests`
instantiate the abstract module with it and state `ImplementsLifecycle`. The
mapping merges building and running because the code lets either follow the
other, and lets a late report make anything live again because it does
(`DocumentedTransitions` below): the abstract specification promises what the
code keeps, not what its documents wish.

**PreviewStore.** Every call is one transaction because the pool has one
connection. A refused call rolls back and is a stutter. `Requests` and
`FieldsOf` list what the handlers ask of UpdateStatus; they ask in any order.

**AgentSession.** `hub[c]` follows `session()` from accepted to closed,
`cli[c]` follows `once()`. The ends learn of each other's end late. The entry is
added before the row is written online and removed after it is written
offline; failed writes, deletion of the agent, a shutdown that does not wait for
sessions, and a crash are all in.

**Dispatch.** Messages are bags (`toHub`, `toAgent`), because each end gives
every message it reads a goroutine on a background context: they take effect in
any order, also after the connection that brought them ended. A disconnect loses
any part. A handler of the hub is a `task` of a worker, one step per
transaction or send. `link` is `registered` between `Registry.add` and WELCOME,
when a JOB_ASSIGN makes the agent close the connection. An agent is coarse here:
`StartJob` and `FinishJob`, with the two maps HELLO is made of.

**Slots** forgets which preview a job is about and counts: READYs unsent, on
their way, unheard; jobs assigned and in flight; Handles that have ended and not
yet looked again.

**Runner** has the steps of Handle and Teardown between which others run, each
call allowed to fail, and the end and start of the process. Containers and
worktrees survive it, maps do not. A docker command that fails half-way (the
compose up that starts some containers, the rm after a failed start, the list of
a restore) leaves a container nobody has a job for: such previews are `strays`.
`Start` is RestoreOrphans, PruneStaleWorktrees and PruneComposeOrphans, in this
order and whether or not the one before has worked. `Overlap` is FALSE where the
hub assigns no preview the agent still has.

**RepoCache** is inside the `checkout` step of `Runner`. `job[p].pc` follows
Ensure and Checkout: the look for the clone before the mutex, git clone under
it, the look for the commit, fetch under the mutex, rev-parse, worktree remove
and add without it. A git command that talks to the remote has a start, when it
reads the heads, and an end, when it writes what it has got; it may fail in
between, be killed when the 15 minutes of Handle are over, or end with the process
and leave a half-made clone. The mutex is of a URL, the directory of a
slug. `answers[p]` remembers which commits were right for a job at some time
since it was assigned, `excused` whose job git has failed.

**RepoSecrets** has a POST as one List and then one statement per changed key in
no transaction, any of them the last; a JOB_ASSIGN reads the rows in one List
and carries them to the `.env`. **SecretText** types a text (`raw`) character by
character, so that its states are all texts, and compares `parseSecretsRaw`, line
by line as the code goes, with the documented rules, said of positions in
the text; and the text the page shows, back from the browser, with the rows it
shows. Letters, digits and characters no key may have (`Other`) are constants: what
the code tells apart.

**PreviewRequests** has the handlers find their preview: GitHub sends the events
of a pull request in order, agents build and tear down in order (what is late is
in `Dispatch`). `Reuses` says whether heads may go back to commits seen before;
when they may not, pull requests also start from heads of their own.

## 3. What TLC checks

Run a configuration with `tlc -workers 2 -config X.cfg M`.

| Run | Instance | Shows |
|---|---|---|
| `preview_store` | 2 previews, 2 commits, 1 agent, 3 events each | all store invariants; `ShaWrittenOnce`; `ImplementsLifecycle` |
| `agent_session` | 3 connections, 6 faults, fair | session invariants; `EventuallyConnected` |
| `dispatch` | 2 agents, 2 workers, 1 preview, 1 fault, no request | `HolderNamed`, `ClaimedOnce`, `NotRequeuedUnderBuild`, `ImplementsLifecycle` |
| `dispatch_live` | 1 agent, 1 worker, 1 preview, 1 fault, 1 request, fair | `AssignedResolves`, `OrphansTornDown`, `LostPreviewsFail` |
| `slots` | 2 slots, 5 jobs, 3 faults | `SlotsAccounted` |
| `runner` | a Dockerfile and a compose preview, 3 goroutines, 2 faults | `HelloComplete`, `NothingLeaked` |
| `preview_requests` | 2 pull requests, 3 commits, 4 previews, 5 events | `OneActivePerPR`, `ClosedTornDown`, `HeadTracked`, `AdhocOnce`, `ImplementsLifecycle` |
| `repo_cache` | 1 URL, 2 previews, 1 branch, 2 commits, 3 jobs, 1 push, 1 fault, fair | `OneWriter`, `AsAsked`, `FailsForCause`, `EveryJobEnds` |
| `repo_secrets` | 2 POSTs at a time, 3 in all, 2 keys, 2 values, 2 spellings of a name, 1 build | `SavedAsPosted`, `KeyByKey` |
| `secret_text` | all texts of up to 7 characters | `ParsedAsWritten`, `ShownIsSaved` |

Bounds. Previews do not interact in `Dispatch` but for the queue's order, which
`PreviewStore` and `PreviewRequests` exercise; what interacts there is agents,
workers and messages about one preview. One fault suffices for each repair to
be needed, two agents and two workers for every race on a claim. In
`AgentSession` three connections let a half-open one, a refused one and a new
one coexist, and six faults let each of them be lost twice. Three goroutines are two Handles or
Teardowns of one preview and one of another; three container ids tell the one
in the map, the one in Docker and a new one apart. Five events are enough for
open, two pushes, close and reopen. In `RepoCache` a third job comes to a clone
that two have raced for, and the one push falls between any two of their steps;
with two URLs and a directory for each, jobs of different URLs share nothing. In
`RepoSecrets` the third POST follows two that overlapped, and two keys make
a text that is half one POST's and half another's. Seven characters hold two
lines with a key, a value and an end of line each. Every bound is a constant, and the proofs
hold for all values of them.

Fairness. `AgentSession`: the agent calls `once()` again, goroutines of a
session run, ping or read finds a lost connection, a stopped hub is started
again. `Dispatch`: goroutines that were started run, agents reconnect, the
ticker ticks, a row nobody writes grows old. All weak fairness, of single
goroutines. `RepoCache`: strong fairness of the steps of each job, because a
`sync.Mutex` starves nobody that waits for it, and every git command ends, at the
latest with the 15 minutes of its Handle. Nothing obliges a fault, a request, or the arrival of a webhook.

The deadlock check is off in the runs in which every bound may be used up, or
nothing is left to do (all previews ended, all texts typed); it is on in `preview_store` and
`runner`.

### Where the code does something else than it says

Two runs expect a violation; the findings quote what is violated.

| Run | Property | What happens |
|---|---|---|
| `dispatch_teardown` | `TeardownFollowedUp` | closed while the agent is away: it returns with the container, and nobody tears it down |
| `repo_cache_ensure` | `EnsureIdempotent` | two first jobs of a repository both find no clone; the second to the mutex clones into the directory of the first, and fails |

More configurations, not among the runs, end in a counterexample too:

| Configuration (module) | Property | Against | Shape of the counterexample |
|---|---|---|---|
| `MCDispatchTransitions.cfg` (`MCDispatch`) | `DocumentedTransitions` | `docs/specs/phase-2-webhook-dispatch-proxy.md:482-497` | running overtakes building: assigned, running, building |
| `MCDispatchOpened.cfg` (`MCDispatch`) | `OpenedIsStarted` | `README.md:3` | the READY of an idle agent was spent on an empty queue; a new preview waits for another build to end |
| `MCRunnerDrain.cfg` (`MCRunner`) | `BuildsDrained` | `docs/specs/phase-3-admin-ui-and-mvp.md:9` | SIGTERM ends the agent's process with builds in flight |
| `MCPreviewRequestsReopened.cfg` (`MCPreviewRequests`) | `HeadShown` | `docs/specs/phase-9-sha-keyed-previews.md:491` | reopened while in teardown: the open pull request has no preview |
| `MCDispatchHello.cfg` (`MCDispatch`) | `HeldNotFailed` | `runner.go:93-95` | a JOB_ASSIGN starts after the HELLO snapshot; the sync fails the preview as lost |
| `MCDispatchReclaim.cfg` (`MCDispatch`) | `BuildNotReclaimed` | `runner.go:186-187` | the only building is lost; after five minutes the reconciler requeues a preview in build |
| `MCSlotsOver.cfg` (`Slots`) | `SlightlyOverSubscribed` | `ready.go:47-48` | Handles that end together each offer all free slots, again and again |
| `MCSlotsAgain.cfg` (`Slots`) | `SlotOfferedAgain` | `ready.go:43-45` | the READY of an expired Handle fails, no other Handle runs, the connection stays up |
| `MCRunnerOverlap.cfg` (`MCRunner`) | `BuildsNamed` | `runner.go:67` | two Handles of a preview; the first to return empties `building` |
| `MCRunnerWorktree.cfg` (`MCRunner`) | `TeardownRemovesWorktree` | `docs/specs/phase-2-webhook-dispatch-proxy.md:43` | a restored job has no repository, so its worktree stays |
| `MCPreviewRequestsForced.cfg` (`MCPreviewRequests`) | `ClosedTornDown` | `README.md:3` | the head goes back to an earlier commit; closed tears down the newest row, not the active one |
| `MCPreviewRequestsShared.cfg` (`MCPreviewRequests`) | `BuildsLeavePRsAlone` | `docs/specs/phase-11-adhoc-branch-dedup.md:30` | a test build of a pull request's commit takes over its row |
| `MCRepoCacheSlug.cfg` (`MCRepoCache`) | `OneWriter`, and with it `AsAsked` and `FailsForCause` | `docs/specs/phase-6-docker-native.md:249` | two URLs with one slug have two mutexes and one clone |
| `MCRepoSecretsMixed.cfg` (`MCRepoSecrets`) | `NeverMixed` | `docs/specs/phase-10-repo-build-secrets.md:135` | a build starts between two statements of a POST and gets half of its text |

## 4. What is proved

For every value of the constants, under the named ASSUMEs of the modules only
(NULL is no value of a sort, `Idle` no task and `NoSync` no synchronisation, `Id`
is finite, there is a repository and a branch, bounds are natural numbers, no letter,
digit or other character of a text is one of `=`, `#`, blank, CR and LF) and
the hypotheses a theorem states.

| Theorems | Argument |
|---|---|
| `PreviewStoreProofs`: `TypeCorrect`, `EventsAreHistory`, `ShaIsUnique`, `ShaIsFinal`, `AgentReferencesHold`, `UrlsFollowStatus` | each invariant is inductive given `TypeOK`; the lemmas of `PreviewsTheory` say what each write of the table does to a row and leaves of the others. `ShaIsUnique` is where the UNIQUE key meets the two ways a commit gets into a row |
| `AgentClientProofs`: `SessionTypes`, `OneSessionHolds`, `ServingShownOnlineHolds`, `EntryHasOwnerHolds`, `OnlineHasSessionHolds` | `OneSession` is not inductive. `SessionInv` says that the registry entry and the session past `add` are the same thing, and what the row says while that session is between its online and its offline |
| `AgentClientProofs`: `SlotTypes`, `NoSlotForgotten` | `TypeOK /\ SlotsAccounted` is inductive: every step that takes one from a term adds one to another, or to `unheard` |
| `DispatchProofs`: `HolderIsNamed`, `BuildsStayOffQueue` | `HolderInv`: the table is well typed, a worker about to claim still has the agent it will write into the row, and the reconciler's list is one of previews. Then each write of the hub's handlers, whatever they read before, leaves a holder named; and each write to queued is a CAS on assigned, or from done, failed or no row |
| `DispatchProofs`: `ClaimIsOneJob` | `ClaimInv`, below |
| `DispatchProofs`: `TypeCorrect` | `LifeInv` and `BagsTyped`: a message is taken only where its count is positive, and so with Handles. The READYs an agent offers are a fold over its Handles: a sum exists for the sets of up to k previews, for every k (`SumExists`), and any sum is of naturals, by induction over sets (`SumIsNat`) |
| `PreviewStoreProofs`: `StoreImplementsLifecycle`; `DispatchProofs`: `DispatchImplementsLifecycle`; `PreviewRequestsProofs`: `RequestsImplementLifecycle` | step by step: each statement on a row is a named step of `PreviewLifecycle` on its phase, holder and commit; what writes no row, or leaves those three as they are, is a stutter. In `Dispatch` that takes `LifeInv`: `HolderInv`, and a worker about to close, or a sync about to fail, has read a row that is there; in `PreviewRequests` that a handler between its query and its write knows a row that is there and, to requeue, a status that has ended |
| `PreviewRequestsProofs`: `TypeCorrect`, `OneActive`, `TornDown`, `Tracked`, `OneAtATime` | `RequestsInv`, below |
| `PreviewRequestsProofs`: `BuildsShareARow` | `BuildsInv`: all rows are of the one branch; a test build about to insert has seen no ad-hoc row, and there is none, because merges leave `is_adhoc` alone and only test builds insert such a row. Under `[]BuildsApart`, no two test builds at work at a time; webhooks may overlap with them as they like, and about any commit |
| `RunnerProofs`: `RunnerTypes`, `HelloIsComplete`, `NothingIsLeaked` | under `~Overlap`. One Handle per preview at a time, entered in `building` from admit to return; the container it starts, the job it stores, and what a Teardown has loaded belong to one another; a worktree belongs to a Handle, a job, a Teardown or a container found at start; when the process is down the maps are empty |
| `RepoCacheProofs`: `CacheTypes`, `OneWriterAlways`, `BuildsWhatWasAsked`, `FailureHasCause` | under `OneDirPerUrl`, no two URLs of one slug (false in general: `MCRepoCacheSlug.cfg`). The invariant says of every job what it relies on while others fetch: once it has fetched, whoever holds the mutex has read heads that are as right for it as those it has read itself; what it will find in the clone is right for it; and nobody can be at a clone any more whose failure would take the directory away (`JobInv`) |
| `RepoSecretsProofs`: `SecretTypes`, `SavedIsPosted`, `EnvKeyByKey` | the text of a POST at work is among the posted ones, and what it has still to delete is what its text leaves out; each row is from before or from a posted text; one that is alone has changed each key it does not owe |
| `RepoSecretsProofs`: `TextIsParsedAsWritten`, `ShownTextIsSaved` | for texts of every length; below |

**One claim, one job.** `ClaimedOnce` counts what carries a preview: JOB_ASSIGNs
in flight, Handles, and workers about to send. A requeue after which a
carrier is left would break it, so `ClaimInv` says when there is none: a
preview is `Quiet` (no carrier, and no STATUS_UPDATE about it under way either)
whenever it is queued or not there, whenever it has been assigned for longer
than StaleAssignedAfter, and for as long as the reconciler has it on its list.
That last set is a snapshot, and stays right because only a claim ends
quiet and a preview that was listed is not queued. A row grows old with nothing
under way, but a Handle is not among the things that keep it young: what
does is the first building, so the invariant has it in flight wherever a
Handle works on a row that is still assigned. Where `StartJob` could not
send it, or a disconnect loses it, the argument ends, as does the property:
hence the condition that no fault has happened. The other conjuncts (`Early`, `NoEnds`) say that
without faults and requests no agent holds anything before its first
connection, no sync finds an orphan, and nobody tears anything down.

**The rows of a pull request.** Which preview is the newest, which one is for
the head, and which ones are active is decided by three queries that look at
different columns. `RequestsInv` ties them together by an order of
commits the code does not have: there are functions `origin`, the pull request
a commit belongs to, and `age`, when it was first seen there, such that
the rows, the event in work, the deliveries and the head of a pull request follow each
other in age (`Ages`); a row is newest by `created_at` exactly when its commit
is, and only the newest may be active (`Topped`); each delivery follows from the one
before it (`InLine`: opened is the first, closed repeats its commit, reopened comes after a
closed); and each handler has come as far as the rows say (`Handling`: the one
about to upsert has superseded what was active). A step that sends a new commit gives it the next
age, one that reports an unknown commit of a test build an origin of its own,
and everything else keeps the two functions. Two hypotheses:

- `~Reuses`: heads, and commits of test builds, are new ones. With a force push
  to an earlier commit, or a test build of a pull request's commit, the upsert
  merges into an old row, and the three properties fail
  (`MCPreviewRequestsForced.cfg`, `MCPreviewRequestsShared.cfg`).
- `[]Apart`: no two handlers are at work on one pull request, or on two test
  builds, at a time. The hub does not see to it; two webhooks of one pull
  request that overlap can each find the same active row. It always holds for
  one worker (`OneAtATime`, the instance of the run), and handlers of
  different pull requests may overlap as they like.

`RequestsImplementLifecycle` and `TypeCorrect` need neither, `BuildsShareARow`
only that test builds do not overlap with each other.

**The text of the secrets.** What `Parsed` makes of a text of any length goes by
induction over the text. Induction is said of a set (`Induct`: a set of naturals
with 0 and each successor is `Nat`; `SeqInduct` likewise), which the
provers can instantiate where they cannot with an operator. A fold of the library is
a CHOOSE over functions, so it is first shown that one exists
(`FoldExists`) and then what each step of it does (`FoldSteps`); `LinesSteps`,
`ParsedSteps` and `FlattenSteps` are its instances.
`TextIsParsedAsWritten`: the lines of a text are its spans, character for character, one for each end
(`TextCut`); a copy of a span has the ink, the first `=`, the key and the
value of the span (`CopyEntry`, `CopyParts`); and the rows of a list of lines are
the answer to what its entries say (`Answers`), kept by each line
(`AnswersNext`). `ShownTextIsSaved`: the browser's CRLFs split where the LFs did
(`SubmittedLines`), the text of the rows splits into the line of each row and an
empty one (`TextOfLines`), and a line made of a key and a value is read as that
key and that value (`RowLineParts`), because no key has blanks or a `=` and no value
an end of line (`RowsKept`).

Only model-checked: liveness (`EventuallyConnected`, `AssignedResolves`,
`OrphansTornDown`, `LostPreviewsFail`, `EveryJobEnds`), because the prover has
no rules for fairness, and the counterexamples. The `TypeOK` of `Dispatch` and of
`PreviewRequests` are in no run; both are proved (`TypeCorrect`).

## 5. Limits

- `ClaimedOnce` is stated for runs without faults and requests: a lost building,
  a restart of the hub, or a rebuild that follows a close which overtook the
  assignment each lead to two builds, and the code does not prevent it.
- `OneActivePerPR`, `ClosedTornDown`, `HeadTracked` and `AdhocOnce` are checked with
  one handler at a time, and proved for handlers that overlap on different pull
  requests (the last: for all but two test builds). With two on the same they
  fail, which `docs/specs/phase-9-sha-keyed-previews.md` (R-4)
  accepts for synchronize.
- `NothingLeaked` excepts the worktrees of restored containers, and
  `HelloComplete` the containers of failed docker commands (`strays`).
- Not in `Dispatch`: Dispatcher.Pause and the "agent shutting down" failure of a
  paused agent (it is in `Slots` and `Runner`), HELLOs without
  `running_previews`, labels other than "matches or not".
- Not in `PreviewRequests`: the self-loop event that records a supersede, and
  answers to GitHub.
- Not in `RepoCache`: jobs with neither commit nor branch (they go by
  FETCH_HEAD), git's garbage collection, lock files a killed git leaves, and
  StartPrefetch, which nothing calls. `Runner` keeps only the worktrees of it.
- Not in `RepoSecrets`: DeleteAllFor, which nothing calls; the list of
  repositories; the escaping of `.env` values. `SecretText` has one kind of
  white space, and its rows are in no particular order.
- Not modelled: backoff, timestamps as text, Traefik, preview config, pages,
  authentication and tokens, migrations, commands. `PROJECT.json` gives the
  reason of each. A hazard without a property has its reason there too.

## 6. Plan

Done: the modules of section 2 in its order, the abstract specification and its
three proved refinements, and eight modules of proofs: every invariant and
action property of a passing run is proved, for every value of the constants
and under the hypotheses section 4 names.

1. `Timestamps` (the order of RFC3339Nano text against the order of time) and
   `Backoff`, as operators checked against reference definitions.
2. A queue longer than its LIMIT with labels no agent has.
3. `Runner` with the checkout of `RepoCache` in it, so that pruning of
   worktrees meets jobs in the middle of git.
4. Proofs: `ClaimedOnce` across faults that lose no building (an agent that
   restarts before its first Handle, a hub that restarts with nothing in flight);
   `RepoCache` with several URLs per slug, for the jobs of which no other shares
   the directory.
