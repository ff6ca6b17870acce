----------------------------- MODULE RepoCache -----------------------------
(***************************************************************************)
(* The bare clones an agent keeps, and how the Handles of its jobs get     *)
(* worktrees out of them: one RepoCache per URL with a mutex of its own,   *)
(* one directory per slug of a URL, one worktree per preview.  Ensure      *)
(* looks whether the clone is there before it takes the mutex; fetch takes *)
(* it for as long as git runs; worktree add and remove never do.  The      *)
(* remote repositories move meanwhile.                                     *)
(*                                                                         *)
(* git reads the heads of the remote when it starts and writes what it has *)
(* got when it ends.  Its garbage collection is left out, and so is a job  *)
(* with neither commit nor branch, which goes by FETCH_HEAD.  Two tasks on *)
(* one preview are the concern of Runner.                                  *)
(***************************************************************************)
EXTENDS Naturals, FiniteSets

CONSTANTS Preview, Url, Dir, Branch, Commit,
          UrlOf,     \* JobAssignData.RepoURL of each preview
          DirOf,     \* repoDir of each RepoCache: repos/<RepoSlug(url)>
          NULL,
          MaxJobs,   \* bound on the jobs assigned
          MaxPushes, \* bound on the changes of the remotes
          MaxFaults  \* bound on failing git commands and on ends of the agent

ASSUME CacheAssumption ==
    /\ UrlOf \in [Preview -> Url] /\ DirOf \in [Url -> Dir]
    /\ NULL \notin Commit \cup Branch \cup Preview
    /\ {MaxJobs, MaxPushes, MaxFaults} \subseteq Nat

VARIABLES remote,    \* heads of the repository behind each URL
          clone,     \* what isInitialized and git find in each directory
          objects,   \* commits in each clone
          refs,      \* its refs/remotes/origin
          lock,      \* mu of each RepoCache: the preview of the job that holds it
          heads,     \* heads the git under that mutex has read
          job,
          worktrees, \* commit checked out for each preview
          answers,   \* history: what was right for a job at some time since it was assigned
          excused,   \* history: previews during whose job git failed in their clone
          spent      \* jobs, pushes and faults so far

vars == <<remote, clone, objects, refs, lock, heads, job, worktrees, answers, excused, spent>>
git == <<clone, objects, refs, lock, heads>>

\* A branch is gone when its tip is NULL; past is what its tip reaches.
Head == [tip : Commit \cup {NULL}, past : SUBSET Commit]
Gone == [tip |-> NULL, past |-> {}]
Heads == [Branch -> Head]
NoHeads == [b \in Branch |-> Gone]
Reached(h) == UNION {h[b].past : b \in Branch}

\* What Handle does next for a preview, or how it has ended: checked out, or
\* with one of the errors it reports before it returns.
Failures == {"unclonable", "missing", "broken"}
Working == {"ensure", "clone", "cloning", "look", "fetch", "fetching", "resolve", "add"}
\* sha or branch is what JOB_ASSIGN names; want is the commit Checkout settles on.
Job == [pc : Working \cup Failures \cup {"idle", "out"}, sha : Commit \cup {NULL},
        branch : Branch \cup {NULL}, want : Commit \cup {NULL}]
Idle == [pc |-> "idle", sha |-> NULL, branch |-> NULL, want |-> NULL]

DirFor(p) == DirOf[UrlOf[p]]
At(p, pc) == job[p].pc = pc
To(p, pc) == job' = [job EXCEPT ![p].pc = pc]
Active(p) == job[p].pc \in Working
Free(u) == lock[u] = NULL
\* Mutant: a git that is under way is not waited for.
TakeAnyway(p) == /\ lock' = [lock EXCEPT ![UrlOf[p]] = p]
                 /\ heads' = [heads EXCEPT ![UrlOf[p]] = remote[UrlOf[p]]]
Take(p) == /\ Free(UrlOf[p])
           /\ lock' = [lock EXCEPT ![UrlOf[p]] = p]
           /\ heads' = [heads EXCEPT ![UrlOf[p]] = remote[UrlOf[p]]]
Release(p) == /\ lock' = [lock EXCEPT ![UrlOf[p]] = NULL]
              /\ heads' = [heads EXCEPT ![UrlOf[p]] = NoHeads]
Spend(what, max) == spent[what] < max /\ spent' = [spent EXCEPT ![what] = @ + 1]

\* What a job for sha or branch should find at heads h; NULL is nothing.
Found(h, sha, branch) == IF sha # NULL THEN IF sha \in Reached(h) THEN sha ELSE NULL
                                       ELSE h[branch].tip

Init ==
    /\ \E first \in [Url -> Commit] :
           remote = [u \in Url |-> [b \in Branch |-> [tip |-> first[u], past |-> {first[u]}]]]
    /\ clone = [d \in Dir |-> "none"] /\ objects = [d \in Dir |-> {}]
    /\ refs = [d \in Dir |-> [b \in Branch |-> NULL]]
    /\ lock = [u \in Url |-> NULL] /\ heads = [u \in Url |-> NoHeads]
    /\ job = [p \in Preview |-> Idle] /\ worktrees = [p \in Preview |-> NULL]
    /\ answers = [p \in Preview |-> {}] /\ excused = {}
    /\ spent = [jobs |-> 0, pushes |-> 0, faults |-> 0]

-----------------------------------------------------------------------------
(* The remote. *)

Moves(u, b, h) ==
    /\ Spend("pushes", MaxPushes)
    /\ remote' = [remote EXCEPT ![u][b] = h]
    /\ answers' = [p \in Preview |->
                     IF Active(p) /\ UrlOf[p] = u
                     THEN answers[p] \cup {Found(remote'[u], job[p].sha, job[p].branch)}
                     ELSE answers[p]]
    /\ UNCHANGED <<git, job, worktrees, excused>>

Push(u, b, c) == Moves(u, b, [tip |-> c, past |-> remote[u][b].past \cup {c}])
ForcePush(u, b, c) == Moves(u, b, [tip |-> c, past |-> {c}])
DeleteBranch(u, b) == remote[u][b] # Gone /\ Moves(u, b, Gone)

-----------------------------------------------------------------------------
(* A job: Handle from JOB_ASSIGN to the worktree. *)

Assign(p, sha, branch) ==
    /\ At(p, "idle") /\ (sha = NULL) # (branch = NULL)
    /\ Spend("jobs", MaxJobs)
    /\ job' = [job EXCEPT ![p] = [pc |-> "ensure", sha |-> sha, branch |-> branch, want |-> NULL]]
    /\ answers' = [answers EXCEPT ![p] = {Found(remote[UrlOf[p]], sha, branch)}
                                           \cup ({sha} \ {NULL})]
    /\ excused' = excused \ {p}
    /\ UNCHANGED <<remote, git, worktrees>>

\* git leaves HEAD and objects behind as soon as a clone has begun.
IsInitialized(p) == clone[DirFor(p)] # "none"

Ensure(p) == /\ At(p, "ensure")
             /\ To(p, IF IsInitialized(p) THEN "look" ELSE "clone")
             /\ UNCHANGED <<remote, git, worktrees, answers, excused, spent>>

\* Mutant: the return on the error does not unlock.
CloneStartHolding(p) ==
    /\ At(p, "clone") /\ Take(p)
    /\ \/ /\ ~IsInitialized(p) /\ To(p, "cloning")
          /\ clone' = [clone EXCEPT ![DirFor(p)] = "cloning"]
       \/ IsInitialized(p) /\ To(p, "unclonable") /\ UNCHANGED clone
    /\ UNCHANGED <<remote, objects, refs, worktrees, answers, excused, spent>>

\* The mutex is taken and nothing looks again: git refuses a directory that
\* is there, and Ensure returns with the mutex unlocked.
CloneStart(p) ==
    /\ At(p, "clone") /\ Free(UrlOf[p])
    /\ \/ /\ ~IsInitialized(p) /\ Take(p) /\ To(p, "cloning")
          /\ clone' = [clone EXCEPT ![DirFor(p)] = "cloning"]
       \/ /\ IsInitialized(p) /\ To(p, "unclonable")
          /\ UNCHANGED <<clone, lock, heads>>
    /\ UNCHANGED <<remote, objects, refs, worktrees, answers, excused, spent>>

\* clone --bare copies the heads to refs/heads: refs/remotes/origin stays empty.
CloneEnd(p) ==
    /\ At(p, "cloning") /\ Release(p) /\ To(p, "look")
    /\ clone' = [clone EXCEPT ![DirFor(p)] = "there"]
    /\ objects' = [objects EXCEPT ![DirFor(p)] = @ \cup Reached(heads[UrlOf[p]])]
    /\ UNCHANGED <<remote, refs, worktrees, answers, excused, spent>>

\* Mutants: a branch an earlier fetch has left is good enough; what is not
\* there is not fetched.
LookInRefs(p) ==
    /\ At(p, "look")
    /\ LET j == job[p]  d == DirFor(p) IN
       IF j.sha # NULL /\ j.sha \in objects[d]
       THEN job' = [job EXCEPT ![p].pc = "add", ![p].want = j.sha]
       ELSE To(p, IF j.sha = NULL /\ refs[d][j.branch] # NULL THEN "resolve" ELSE "fetch")
    /\ UNCHANGED <<remote, git, worktrees, answers, excused, spent>>
LookOnly(p) ==
    /\ At(p, "look")
    /\ IF job[p].sha \in objects[DirFor(p)]
       THEN job' = [job EXCEPT ![p].pc = "add", ![p].want = job[p].sha]
       ELSE To(p, IF job[p].sha = NULL THEN "fetch" ELSE "missing")
    /\ UNCHANGED <<remote, git, worktrees, answers, excused, spent>>

\* rev-parse --verify, when there is a commit to look for.
Look(p) ==
    /\ At(p, "look")
    /\ job' = [job EXCEPT ![p] = IF @.sha \in objects[DirFor(p)]
                                 THEN [@ EXCEPT !.pc = "add", !.want = job[p].sha]
                                 ELSE [@ EXCEPT !.pc = "fetch"]]
    /\ UNCHANGED <<remote, git, worktrees, answers, excused, spent>>

FetchStart(p) == /\ At(p, "fetch") /\ Take(p) /\ To(p, "fetching")
                 /\ UNCHANGED <<remote, clone, objects, refs, worktrees, answers, excused, spent>>

\* +refs/heads/*:refs/remotes/origin/* --prune
FetchEnd(p) ==
    /\ At(p, "fetching") /\ Release(p)
    /\ \/ /\ IsInitialized(p) /\ To(p, "resolve")
          /\ objects' = [objects EXCEPT ![DirFor(p)] = @ \cup Reached(heads[UrlOf[p]])]
          /\ refs' = [refs EXCEPT ![DirFor(p)] = [b \in Branch |-> heads[UrlOf[p]][b].tip]]
       \/ /\ ~IsInitialized(p) /\ To(p, "broken")
          /\ UNCHANGED <<objects, refs>>
    /\ UNCHANGED <<remote, clone, worktrees, answers, excused, spent>>

Resolved(p) == LET j == job[p]  d == DirFor(p) IN
    IF j.sha # NULL THEN IF j.sha \in objects[d] THEN j.sha ELSE NULL
                    ELSE refs[d][j.branch]

Resolve(p) ==
    /\ At(p, "resolve")
    /\ job' = [job EXCEPT ![p].pc = IF Resolved(p) = NULL THEN "missing" ELSE "add",
                          ![p].want = Resolved(p)]
    /\ UNCHANGED <<remote, git, worktrees, answers, excused, spent>>

\* A worktree an earlier job has left is removed first.
Add(p) ==
    /\ At(p, "add") /\ To(p, IF IsInitialized(p) THEN "out" ELSE "broken")
    /\ worktrees' = [worktrees EXCEPT ![p] = IF IsInitialized(p) THEN job[p].want ELSE NULL]
    /\ UNCHANGED <<remote, git, answers, excused, spent>>

-----------------------------------------------------------------------------
(* The end of a job, the end of a preview, and what goes wrong. *)

\* A Handle that fails after Checkout removes the worktree, before it has none to remove.
End(p, kept) ==
    /\ job[p].pc \in Failures \cup {"out"}
    /\ job' = [job EXCEPT ![p] = Idle]
    /\ worktrees' = [worktrees EXCEPT ![p] = IF At(p, "out") /\ ~kept THEN NULL ELSE @]
    /\ answers' = [answers EXCEPT ![p] = {}] /\ excused' = excused \ {p}
    /\ UNCHANGED <<remote, git, spent>>

Remove(p) == /\ At(p, "idle") /\ worktrees[p] # NULL
             /\ worktrees' = [worktrees EXCEPT ![p] = NULL]
             /\ UNCHANGED <<remote, git, job, answers, excused, spent>>

\* The jobs at work in the directory of p: what git leaves undone there is
\* what they may be told of.
Beside(p) == {q \in Preview : DirFor(q) = DirFor(p) /\ Active(q)}

\* Mutant: what is left of it stays.
CloneFailsLeaving(p) ==
    /\ At(p, "cloning") /\ Spend("faults", MaxFaults)
    /\ Release(p) /\ To(p, "unclonable") /\ excused' = excused \cup Beside(p)
    /\ clone' = [clone EXCEPT ![DirFor(p)] = "failed"]
    /\ UNCHANGED <<remote, objects, refs, worktrees, answers>>

\* A clone that fails takes its directory with it.
CloneFails(p) ==
    /\ At(p, "cloning") /\ Spend("faults", MaxFaults)
    /\ Release(p) /\ To(p, "unclonable") /\ excused' = excused \cup Beside(p)
    /\ clone' = [clone EXCEPT ![DirFor(p)] = "none"]
    /\ objects' = [objects EXCEPT ![DirFor(p)] = {}]
    /\ refs' = [refs EXCEPT ![DirFor(p)] = [b \in Branch |-> NULL]]
    /\ worktrees' = [q \in Preview |-> IF DirFor(q) = DirFor(p) THEN NULL ELSE worktrees[q]]
    /\ UNCHANGED <<remote, answers>>

\* The 15 minutes of Handle are over: git is killed and leaves what it has begun.
CloneKilled(p) ==
    /\ At(p, "cloning") /\ Spend("faults", MaxFaults)
    /\ Release(p) /\ To(p, "unclonable") /\ excused' = excused \cup {p}
    /\ UNCHANGED <<remote, clone, objects, refs, worktrees, answers>>

\* git fetch or git worktree add fails: the old worktree is gone by then.
GitFails(p) ==
    /\ Spend("faults", MaxFaults) /\ To(p, "broken") /\ excused' = excused \cup {p}
    /\ \/ At(p, "fetching") /\ Release(p) /\ UNCHANGED worktrees
       \/ /\ At(p, "add") /\ worktrees' = [worktrees EXCEPT ![p] = NULL]
          /\ UNCHANGED <<lock, heads>>
    /\ UNCHANGED <<remote, clone, objects, refs, answers>>

\* The process ends with its git commands and starts again: a clone that was
\* under way stays as it was, PruneStaleWorktrees spares what still runs.
AgentRestart ==
    /\ Spend("faults", MaxFaults)
    /\ \E active \in SUBSET {p \in Preview : worktrees[p] # NULL} :
           worktrees' = [p \in Preview |-> IF p \in active THEN worktrees[p] ELSE NULL]
    /\ job' = [p \in Preview |-> Idle]
    /\ lock' = [u \in Url |-> NULL] /\ heads' = [u \in Url |-> NoHeads]
    /\ answers' = [p \in Preview |-> {}] /\ excused' = {}
    /\ UNCHANGED <<remote, clone, objects, refs>>

-----------------------------------------------------------------------------
Step(p) == \/ Ensure(p) \/ CloneStart(p) \/ CloneEnd(p) \/ Look(p)
           \/ FetchStart(p) \/ FetchEnd(p) \/ Resolve(p) \/ Add(p)

Next ==
    \/ \E p \in Preview : \/ Step(p) \/ Remove(p)
                          \/ CloneFails(p) \/ CloneKilled(p) \/ GitFails(p)
                          \/ \E sha \in Commit \cup {NULL}, branch \in Branch \cup {NULL} :
                                 Assign(p, sha, branch)
                          \/ \E kept \in BOOLEAN : End(p, kept)
    \/ \E u \in Url, b \in Branch : \/ DeleteBranch(u, b)
                                    \/ \E c \in Commit : Push(u, b, c) \/ ForcePush(u, b, c)
    \/ AgentRestart

Spec == Init /\ [][Next]_vars

\* Every git command ends, at the latest with the 15 minutes of its Handle, and
\* a sync.Mutex starves nobody.
Fairness == \A p \in Preview : SF_vars(Step(p))
FairSpec == Spec /\ Fairness

-----------------------------------------------------------------------------
TypeOK ==
    /\ remote \in [Url -> Heads] /\ heads \in [Url -> Heads]
    /\ clone \in [Dir -> {"none", "cloning", "there"}]
    /\ objects \in [Dir -> SUBSET Commit] /\ refs \in [Dir -> [Branch -> Commit \cup {NULL}]]
    /\ lock \in [Url -> Preview \cup {NULL}] /\ job \in [Preview -> Job]
    /\ worktrees \in [Preview -> Commit \cup {NULL}]
    /\ answers \in [Preview -> SUBSET (Commit \cup {NULL})] /\ excused \subseteq Preview
    /\ spent \in [{"jobs", "pushes", "faults"} -> Nat]

\* git clone and git fetch write a clone one at a time (decision 13: concurrent
\* writes to .git/objects corrupt it).  The mutex that sees to it belongs to a
\* URL, the clone to a slug.
Writing(p) == job[p].pc \in {"cloning", "fetching"}
OneWriter == \A p, q \in Preview :
    Writing(p) /\ Writing(q) /\ DirFor(p) = DirFor(q) => p = q

\* What is built is the commit JOB_ASSIGN names, or one that was the tip of its
\* branch after the job was assigned: never one an earlier fetch has left in
\* refs/remotes/origin, whatever other jobs fetch before rev-parse looks.
AsAsked == \A p \in Preview : At(p, "out") => worktrees[p] \in answers[p] \ {NULL}

\* A job is told that its commit or branch is not there only when it was not at
\* some time since it was assigned, however much of the clone there was when
\* it began, and that git has failed only when git has failed it.
FailsForCause == \A p \in Preview : /\ At(p, "missing") => NULL \in answers[p]
                                    /\ At(p, "broken") => p \in excused

\* Ensure makes the clone if there is none, does nothing if there is one, and
\* so fails only when git clone cannot reach or write what it needs.
EnsureIdempotent == \A p \in Preview : At(p, "unclonable") => p \in excused

\* A job gets past the mutex, however many others want it.
EveryJobEnds == \A p \in Preview : Active(p) ~> ~Active(p)
=============================================================================
