------------------------------- MODULE Runner -------------------------------
(***************************************************************************)
(* The inside of one agent: the goroutines that run Handle and Teardown,   *)
(* the two maps RunningPreviewIDs is made of, and what they leave behind   *)
(* in Docker and on disk, across the end and the start of the process.     *)
(* Docker and the worktrees survive the process; the maps do not.          *)
(*                                                                         *)
(* What the agent says to the hub meanwhile is in Dispatch, how it asks    *)
(* for jobs in Slots.  A Handle that is not told otherwise may fail at     *)
(* every call it makes; .env, the sha, .preview.yml and the routers are    *)
(* part of the step in which they may fail.                                *)
(***************************************************************************)
EXTENDS Naturals, FiniteSets

CONSTANTS Id,
          Compose,    \* previews built with compose; the others have a Dockerfile
          Goroutine,
          NoTask, NoJob,
          Overlap,    \* the hub may assign a preview the agent still has
          MaxCid,     \* container ids of one preview that are told apart
          MaxFaults   \* bound on crashes, signals and drain timeouts

ASSUME RunnerAssumption == /\ Compose \subseteq Id
                           /\ Overlap \in BOOLEAN
                           /\ MaxCid \in Nat \ {0}
                           /\ MaxFaults \in Nat

VARIABLES go,          \* what each goroutine does
          jobs,        \* jobs map: NoJob or a runningJob
          building,    \* building map
          containers,  \* id of the container of each preview, 0 if there is none
          worktrees,   \* previews that have a worktree
          restored,    \* previews RestoreOrphans found when this process started
          strays,      \* previews whose container a failed docker command has left behind
          proc,
          drain,       \* of the goroutine that waits for SIGTERM
          faults

vars == <<go, jobs, building, containers, worktrees, restored, strays, proc, drain, faults>>

\* runningJob: RegisterRestoredJob knows no repo, so Teardown of it no worktree.
Job == [cid : 1..MaxCid, repo : BOOLEAN]

\* pc is what the goroutine does next; job is the one Teardown has loaded, cid
\* the container Handle has started, out whether it has checked a worktree out.
Handling == [op : {"handle"}, id : Id, out : BOOLEAN, cid : 0..MaxCid,
             pc : {"paused?", "admit", "checkout", "expose", "store", "return", "running?", "clean"}]
TearingDown == [op : {"teardown"}, id : Id, job : Job \cup {NoJob},
                pc : {"load", "stop", "clean", "forget"}]

ASSUME NothingAssumption == NoJob \notin Job /\ NoTask \notin Handling \cup TearingDown

On(i) == {g \in Goroutine : go[g] # NoTask /\ go[g].id = i}
At(g, op, pc) == go[g] # NoTask /\ go[g].op = op /\ go[g].pc = pc
Moved(g, pc) == [go EXCEPT ![g].pc = pc]
Ended(g) == [go EXCEPT ![g] = NoTask]

Jobs == {i \in Id : jobs[i] # NoJob}
RunningPreviewIDs == Jobs \cup building
\* Handles between inFlight.Add(1) and inFlight.Add(-1).
InFlight == {g \in Goroutine : \E pc \in {"checkout", "expose", "store", "return"} : At(g, "handle", pc)}

\* A container id of i that nothing refers to.
Unused(i, c) == /\ c # containers[i]
                /\ jobs[i] # NoJob => c # jobs[i].cid
                /\ \A g \in On(i) : c # IF go[g].op = "handle" THEN go[g].cid
                                        ELSE IF go[g].job = NoJob THEN 0 ELSE go[g].job.cid
NewCid(i, c) == c \in 1..MaxCid /\ Unused(i, c) /\ \A d \in 1..(c - 1) : ~Unused(i, d)

Fault == faults < MaxFaults /\ faults' = faults + 1

Init == /\ go = [g \in Goroutine |-> NoTask]
        /\ jobs = [i \in Id |-> NoJob]
        /\ building = {}
        /\ containers = [i \in Id |-> 0]
        /\ worktrees = {}
        /\ restored = {}
        /\ strays = {}
        /\ proc = "up"
        /\ drain = "no"
        /\ faults = 0

-----------------------------------------------------------------------------
(* dispatchMessage: a goroutine per message, as long as the client reads. *)

JobAssign(g, i) ==
    /\ proc = "up"
    /\ go[g] = NoTask
    /\ Overlap \/ (On(i) = {} /\ jobs[i] = NoJob)
    /\ go' = [go EXCEPT ![g] = [op |-> "handle", id |-> i, out |-> FALSE, cid |-> 0, pc |-> "paused?"]]
    /\ UNCHANGED <<jobs, building, containers, worktrees, restored, strays, proc, drain, faults>>

\* At any time, and more than once: also of what is not there, or being built.
JobTeardown(g, i) ==
    /\ proc = "up"
    /\ go[g] = NoTask
    /\ go' = [go EXCEPT ![g] = [op |-> "teardown", id |-> i, job |-> NoJob, pc |-> "load"]]
    /\ UNCHANGED <<jobs, building, containers, worktrees, restored, strays, proc, drain, faults>>

-----------------------------------------------------------------------------
(* Handle. *)

CheckPaused(g) ==
    /\ At(g, "handle", "paused?")
    /\ go' = IF drain = "no" THEN Moved(g, "admit") ELSE Ended(g)
    /\ UNCHANGED <<jobs, building, containers, worktrees, restored, strays, proc, drain, faults>>

\* Mutant: the preview is not entered into building.
AdmitUnnamed(g) ==
    /\ At(g, "handle", "admit")
    /\ go' = Moved(g, "checkout")
    /\ UNCHANGED <<jobs, building, containers, worktrees, restored, strays, proc, drain, faults>>

Admit(g) ==
    /\ At(g, "handle", "admit")
    /\ building' = building \cup {go[g].id}
    /\ go' = Moved(g, "checkout")
    /\ UNCHANGED <<jobs, containers, worktrees, restored, strays, proc, drain, faults>>

\* Ensure and Checkout, which removes a worktree it finds before it adds its own.
Checkout(g) ==
    /\ At(g, "handle", "checkout")
    /\ \/ /\ worktrees' = worktrees \cup {go[g].id}
          /\ go' = [go EXCEPT ![g].pc = "expose", ![g].out = TRUE]
       \/ /\ worktrees' \in {worktrees, worktrees \ {go[g].id}}
          /\ go' = Moved(g, "return")
    /\ UNCHANGED <<jobs, building, containers, restored, strays, proc, drain, faults>>

\* handleCompose, handleDockerfile.  The name of a container is that of its
\* preview: create fails while there is another, up replaces it.
Expose(g) ==
    LET i == go[g].id IN
    /\ At(g, "handle", "expose")
    /\ \/ /\ i \in Compose \/ containers[i] = 0
          /\ \E c \in 1..MaxCid :
                /\ NewCid(i, c)
                /\ containers' = [containers EXCEPT ![i] = c]
                /\ \/ /\ go' = [go EXCEPT ![g].pc = "store", ![g].cid = c]
                      /\ strays' = strays \ {i}
                   \* up -d fails half-way, or start does and then the removal
                   \/ /\ go' = Moved(g, "return")
                      /\ strays' = strays \cup {i}
       \/ /\ go' = Moved(g, "return")
          /\ UNCHANGED <<containers, strays>>
    /\ UNCHANGED <<jobs, building, worktrees, restored, proc, drain, faults>>

StoreJob(g) ==
    /\ At(g, "handle", "store")
    /\ jobs' = [jobs EXCEPT ![go[g].id] = [cid |-> go[g].cid, repo |-> TRUE]]
    /\ go' = Moved(g, "return")
    /\ UNCHANGED <<building, containers, worktrees, restored, strays, proc, drain, faults>>

\* Mutant: no look at the worktree of a job that failed.
ReturnUncleaned(g) ==
    /\ At(g, "handle", "return")
    /\ building' = building \ {go[g].id}
    /\ go' = Ended(g)
    /\ UNCHANGED <<jobs, containers, worktrees, restored, strays, proc, drain, faults>>

\* The deferred function, in steps.
Return(g) ==
    /\ At(g, "handle", "return")
    /\ building' = building \ {go[g].id}
    /\ go' = IF go[g].out THEN Moved(g, "running?") ELSE Ended(g)
    /\ UNCHANGED <<jobs, containers, worktrees, restored, strays, proc, drain, faults>>

CheckRunning(g) ==
    /\ At(g, "handle", "running?")
    /\ go' = IF jobs[go[g].id] = NoJob THEN Moved(g, "clean") ELSE Ended(g)
    /\ UNCHANGED <<jobs, building, containers, worktrees, restored, strays, proc, drain, faults>>

Clean(g) ==
    /\ At(g, "handle", "clean")
    /\ worktrees' = worktrees \ {go[g].id}
    /\ go' = Ended(g)
    /\ UNCHANGED <<jobs, building, containers, restored, strays, proc, drain, faults>>

-----------------------------------------------------------------------------
(* Teardown. *)

Load(g) ==
    /\ At(g, "teardown", "load")
    /\ go' = IF jobs[go[g].id] = NoJob THEN Ended(g)
             ELSE [go EXCEPT ![g].pc = "stop", ![g].job = jobs[go[g].id]]
    /\ UNCHANGED <<jobs, building, containers, worktrees, restored, strays, proc, drain, faults>>

\* compose down goes by the name of the project, the rest by the container's id.
\* That it fails is logged or ignored.
Stop(g) ==
    LET i == go[g].id
        theirs == containers[i] # 0 /\ (i \in Compose \/ containers[i] = go[g].job.cid)
    IN
    /\ At(g, "teardown", "stop")
    /\ IF theirs
       THEN \/ /\ containers' = [containers EXCEPT ![i] = 0]
               /\ strays' = strays \ {i}
            \/ /\ strays' = strays \cup {i}
               /\ UNCHANGED containers
       ELSE UNCHANGED <<containers, strays>>
    /\ go' = Moved(g, "clean")
    /\ UNCHANGED <<jobs, building, worktrees, restored, proc, drain, faults>>

RemoveWorktree(g) ==
    /\ At(g, "teardown", "clean")
    /\ worktrees' = IF go[g].job.repo THEN worktrees \ {go[g].id} ELSE worktrees
    /\ go' = Moved(g, "forget")
    /\ UNCHANGED <<jobs, building, containers, restored, strays, proc, drain, faults>>

Forget(g) ==
    /\ At(g, "teardown", "forget")
    /\ jobs' = [jobs EXCEPT ![go[g].id] = NoJob]
    /\ go' = Ended(g)
    /\ UNCHANGED <<building, containers, worktrees, restored, strays, proc, drain, faults>>

-----------------------------------------------------------------------------
(* The process. *)

\* The context of main is over: the client closes its connection.
Sigterm == /\ Fault
           /\ proc = "up"
           /\ proc' = "stopping"
           /\ UNCHANGED <<go, jobs, building, containers, worktrees, restored, strays, drain>>

\* runner.Pause, and the loop that waits for InFlight, 30 s at most.
Pause == /\ proc = "stopping"
         /\ drain = "no"
         /\ drain' = "waiting"
         /\ UNCHANGED <<go, jobs, building, containers, worktrees, restored, strays, proc, faults>>

Drained == /\ drain = "waiting"
           /\ IF InFlight = {} THEN UNCHANGED faults ELSE Fault
           /\ drain' = "over"
           /\ UNCHANGED <<go, jobs, building, containers, worktrees, restored, strays, proc>>

Exited == /\ proc' = "down"
          /\ go' = [g \in Goroutine |-> NoTask]
          /\ jobs' = [i \in Id |-> NoJob]
          /\ building' = {}
          /\ drain' = "no"
          /\ UNCHANGED <<containers, worktrees, restored, strays>>

\* Client.Run returns, and so does main: nobody waits for the drain.
Exit == /\ proc = "stopping"
        /\ Exited
        /\ UNCHANGED faults

Crash == /\ Fault
         /\ proc = "up"
         /\ Exited

Labelled == {i \in Id \ Compose : containers[i] # 0}

\* Mutant: every Dockerfile preview counts as found.
StartRestoringAll ==
    /\ proc = "down"
    /\ proc' = "up"
    /\ restored' = Id \ Compose
    /\ jobs' = [i \in Id |-> IF i \in Compose THEN NoJob ELSE [cid |-> containers[i], repo |-> FALSE]]
    /\ worktrees' = worktrees \cap (Id \ Compose)
    /\ containers' = [i \in Id |-> IF i \in Compose THEN 0 ELSE containers[i]]
    /\ UNCHANGED <<go, building, strays, drain, faults>>

\* RestoreOrphans, with RegisterRestoredJob for what ContainerList has found: all
\* that carries the label, or nothing if it fails.
RestoreOrphans(found) ==
    /\ restored' = found
    /\ jobs' = [i \in Id |-> IF i \in found THEN [cid |-> containers[i], repo |-> FALSE] ELSE NoJob]

\* Of what RestoreOrphans has returned.  (Removing a directory does not fail.)
PruneStaleWorktrees(found) == worktrees' = worktrees \cap found

\* Only containers of a Dockerfile carry the label: every compose project goes,
\* but for those compose down fails for, which is all if compose ls fails.
PruneComposeOrphans(kept) ==
    containers' = [i \in Id |-> IF i \in Compose \ kept THEN 0 ELSE containers[i]]

Start ==
    /\ proc = "down"
    /\ proc' = "up"
    /\ \E found \in {Labelled, {}}, kept \in SUBSET {i \in Compose : containers[i] # 0} :
          /\ RestoreOrphans(found)
          /\ PruneStaleWorktrees(found)
          /\ PruneComposeOrphans(kept)
          /\ strays' = (Labelled \ found) \cup kept
    /\ UNCHANGED <<go, building, drain, faults>>

-----------------------------------------------------------------------------

Next == \/ \E g \in Goroutine :
              \/ \E i \in Id : JobAssign(g, i) \/ JobTeardown(g, i)
              \/ CheckPaused(g) \/ Admit(g) \/ Checkout(g) \/ Expose(g) \/ StoreJob(g)
              \/ Return(g) \/ CheckRunning(g) \/ Clean(g)
              \/ Load(g) \/ Stop(g) \/ RemoveWorktree(g) \/ Forget(g)
        \/ Sigterm \/ Pause \/ Drained \/ Exit \/ Crash \/ Start

Spec == Init /\ [][Next]_vars

-----------------------------------------------------------------------------

TypeOK == /\ go \in [Goroutine -> Handling \cup TearingDown \cup {NoTask}]
          /\ jobs \in [Id -> Job \cup {NoJob}]
          /\ building \subseteq Id
          /\ containers \in [Id -> 0..MaxCid]
          /\ worktrees \subseteq Id
          /\ restored \subseteq Id
          /\ strays \subseteq Id
          /\ proc \in {"up", "stopping", "down"}
          /\ drain \in {"no", "waiting", "over"}
          /\ faults \in 0..MaxFaults

\* runner.go:67: what an agent builds is in its HELLO at every moment, from
\* the start of Handle until it has returned.
BuildsNamed == \A g \in InFlight : go[g].id \in RunningPreviewIDs

\* The HELLO of an agent names all it builds, and every preview that has a
\* container on it: what the HELLO leaves out the hub fails, and what it never
\* names the hub never tears down.  Only a docker command that failed keeps a
\* container out of it.  (Unless the hub assigns a preview again which the agent
\* has.)
HelloComplete ==
    /\ BuildsNamed
    /\ proc # "down" => \A i \in Id : containers[i] # 0 => i \in RunningPreviewIDs \cup strays

\* When no goroutine runs, the jobs map, Docker and the disk agree: a job has
\* its container, and its worktree if it was built by this process; and no
\* worktree is left without a job, but for those of containers found at start.
NothingLeaked ==
    (proc = "up" /\ \A g \in Goroutine : go[g] = NoTask) =>
        /\ building = {}
        /\ \A i \in Jobs : containers[i] = jobs[i].cid
        /\ \A i \in Jobs : jobs[i].repo => i \in worktrees
        /\ worktrees \ restored \subseteq Jobs

-----------------------------------------------------------------------------
(* What documents say, and the code does not do. *)

\* docs/specs/phase-3, 1: SIGTERM makes the agent wait for its builds (30 s at
\* most) before it ends.
BuildsDrained ==
    [][proc = "stopping" /\ proc' = "down" /\ InFlight # {} => drain = "over"]_vars

\* docs/specs/phase-2, 2: a teardown removes the container and the worktree.
TeardownRemovesWorktree ==
    [][\A g \in Goroutine : At(g, "teardown", "forget") /\ go'[g] = NoTask /\ proc' # "down"
          => go[g].id \notin worktrees']_vars
=============================================================================
