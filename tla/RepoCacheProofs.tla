-------------------------- MODULE RepoCacheProofs --------------------------
(***************************************************************************)
(* What RepoCache promises for every set of previews, branches and commits *)
(* when no two URLs share a directory: the mutex of a URL is then the      *)
(* mutex of its clone, a job finds in the clone what was right for it, and *)
(* it fails for a cause.  Without OneDirPerUrl none of it holds.           *)
(*                                                                         *)
(* The invariant says of every job (JobInv) what it relies on while others *)
(* fetch: once it has fetched, whoever holds the mutex has read heads that *)
(* are as right for it as those it has read itself, and nobody can be at a *)
(* clone any more that would take the directory away if it failed.         *)
(***************************************************************************)
EXTENDS RepoCache, TLAPS

OneDirPerUrl == \A u, v \in Url : DirOf[u] = DirOf[v] => u = v

\* Jobs that rely on what is in the clone.
Past(p) == job[p].pc \in {"resolve", "add", "out"}

Held == \A p \in Preview : Writing(p) => lock[UrlOf[p]] = p

Cloned == /\ \A d \in Dir : clone[d] = "none" => objects[d] = {}
          /\ \A p \in Preview : At(p, "cloning") => objects[DirFor(p)] = {}

Settled(p) == Past(p) =>
    /\ clone[DirFor(p)] # "none"
    /\ \A q \in Preview : At(q, "cloning") => DirFor(q) # DirFor(p)

Told(p) == /\ job[p].pc \in {"look", "fetch", "fetching"} /\ clone[DirFor(p)] = "none"
                => p \in excused
           /\ At(p, "broken") => p \in excused

Named(p) == Active(p) =>
    /\ (job[p].sha = NULL) # (job[p].branch = NULL)
    /\ job[p].sha # NULL => job[p].sha \in answers[p]
    /\ Found(remote[UrlOf[p]], job[p].sha, job[p].branch) \in answers[p]

Read(p) == At(p, "fetching") \/ (At(p, "resolve") /\ ~Free(UrlOf[p])) =>
    Found(heads[UrlOf[p]], job[p].sha, job[p].branch) \in answers[p]

Ready(p) == /\ At(p, "resolve") => Resolved(p) \in answers[p]
            /\ At(p, "add") => job[p].want \in answers[p] \ {NULL}
            /\ At(p, "out") => worktrees[p] \in answers[p] \ {NULL}
            /\ At(p, "missing") => NULL \in answers[p]

JobInv(p) == Settled(p) /\ Told(p) /\ Named(p) /\ Read(p) /\ Ready(p)

Inv == TypeOK /\ Held /\ Cloned /\ \A p \in Preview : JobInv(p)

Pcs == Working \cup Failures \cup {"idle", "out"}

-----------------------------------------------------------------------------
(* Facts about the data. *)

LEMMA PreviewTyped ==
    ASSUME TypeOK, NEW p \in Preview
    PROVE  /\ UrlOf[p] \in Url /\ DirFor(p) \in Dir /\ job[p] \in Job
           /\ job[p].pc \in Pcs /\ job[p].sha \in Commit \cup {NULL}
           /\ job[p].branch \in Branch \cup {NULL} /\ job[p].want \in Commit \cup {NULL}
  BY CacheAssumption DEF TypeOK, DirFor, Job, Pcs

LEMMA SameDirSameUrl ==
    ASSUME OneDirPerUrl, NEW p \in Preview, NEW q \in Preview, DirFor(p) = DirFor(q)
    PROVE  UrlOf[p] = UrlOf[q]
  BY CacheAssumption DEF OneDirPerUrl, DirFor

\* The holder of a mutex is the only one that writes under it.
LEMMA OneHolder ==
    ASSUME Held, NEW p \in Preview, NEW q \in Preview, Writing(p), Writing(q),
           UrlOf[p] = UrlOf[q]
    PROVE  p = q
  BY DEF Held

LEMMA ToMoves ==
    ASSUME TypeOK, NEW p \in Preview, NEW pc \in Pcs, To(p, pc)
    PROVE  /\ job' \in [Preview -> Job]
           /\ job'[p].pc = pc /\ job'[p].sha = job[p].sha
           /\ job'[p].branch = job[p].branch /\ job'[p].want = job[p].want
           /\ \A q \in Preview \ {p} : job'[q] = job[q]
  BY DEF TypeOK, To, Job, Pcs

LEMMA SpendTyped ==
    ASSUME TypeOK, NEW what \in {"jobs", "pushes", "faults"}, NEW max, Spend(what, max)
    PROVE  spent' \in [{"jobs", "pushes", "faults"} -> Nat]
  BY DEF TypeOK, Spend

LEMMA TakeTyped ==
    ASSUME TypeOK, NEW p \in Preview, Take(p)
    PROVE  /\ lock' \in [Url -> Preview \cup {NULL}] /\ heads' \in [Url -> Heads]
           /\ lock[UrlOf[p]] = NULL /\ lock'[UrlOf[p]] = p
           /\ heads'[UrlOf[p]] = remote[UrlOf[p]]
           /\ \A u \in Url \ {UrlOf[p]} : lock'[u] = lock[u] /\ heads'[u] = heads[u]
  BY PreviewTyped DEF TypeOK, Take, Free

LEMMA ReleaseTyped ==
    ASSUME TypeOK, NEW p \in Preview, Release(p)
    PROVE  /\ lock' \in [Url -> Preview \cup {NULL}] /\ heads' \in [Url -> Heads]
           /\ lock'[UrlOf[p]] = NULL
           /\ \A u \in Url \ {UrlOf[p]} : lock'[u] = lock[u] /\ heads'[u] = heads[u]
  <1>1. NoHeads \in Heads
    BY DEF NoHeads, Heads, Gone, Head
  <1> QED  BY <1>1, PreviewTyped DEF TypeOK, Release

LEMMA ReachedTyped ==
    ASSUME NEW h \in Heads
    PROVE  Reached(h) \subseteq Commit
  BY DEF Heads, Head, Reached

-----------------------------------------------------------------------------
(* A job moves on by itself: nothing else is about another one. *)

LEMMA MoveInv ==
    ASSUME Inv, NEW p \in Preview,
           job' \in [Preview -> Job], \A q \in Preview \ {p} : job'[q] = job[q],
           worktrees' \in [Preview -> Commit \cup {NULL}],
           \A q \in Preview \ {p} : worktrees'[q] = worktrees[q],
           answers' \in [Preview -> SUBSET (Commit \cup {NULL})],
           \A q \in Preview \ {p} : answers'[q] = answers[q],
           excused' \subseteq Preview,
           \A q \in Preview \ {p} : q \in excused => q \in excused',
           spent' \in [{"jobs", "pushes", "faults"} -> Nat],
           UNCHANGED <<remote, git>>,
           job'[p].pc \notin {"cloning", "fetching"},
           JobInv(p)'
    PROVE  Inv'
  <1>1. UNCHANGED <<remote, clone, objects, refs, lock, heads>>
    BY DEF git
  <1>2. TypeOK'
    BY <1>1 DEF Inv, TypeOK
  <1>3. \A q \in Preview : At(q, "cloning")' => At(q, "cloning") /\ q # p
    BY DEF At
  <1>4. Held'
    BY <1>1 DEF Inv, Held, Writing
  <1>5. Cloned'
    BY <1>1, <1>3 DEF Inv, Cloned, DirFor
  <1>6. ASSUME NEW q \in Preview, q # p PROVE JobInv(q)'
    <2>1. job'[q] = job[q] /\ worktrees'[q] = worktrees[q] /\ answers'[q] = answers[q]
      BY <1>6
    <2>2. JobInv(q)
      BY DEF Inv
    <2>3. Settled(q)'
      BY <2>1, <2>2, <1>1, <1>3 DEF JobInv, Settled, Past, DirFor
    <2>4. Told(q)'
      BY <2>1, <2>2, <1>1, <1>6 DEF JobInv, Told, At, DirFor
    <2>5. Named(q)' /\ Read(q)'
      BY <2>1, <2>2, <1>1 DEF JobInv, Named, Read, Active, At, Free, Found, Reached
    <2>6. Ready(q)'
      BY <2>1, <2>2, <1>1 DEF JobInv, Ready, At, Resolved, DirFor
    <2> QED  BY <2>3, <2>4, <2>5, <2>6 DEF JobInv
  <1> QED  BY <1>2, <1>4, <1>5, <1>6 DEF Inv

\* The frame of the actions that change the state of a job and nothing else.
LEMMA QuietFrame ==
    ASSUME Inv, UNCHANGED <<remote, git, worktrees, answers, excused, spent>>
    PROVE  /\ worktrees' \in [Preview -> Commit \cup {NULL}]
           /\ answers' \in [Preview -> SUBSET (Commit \cup {NULL})]
           /\ excused' \subseteq Preview
           /\ spent' \in [{"jobs", "pushes", "faults"} -> Nat]
           /\ UNCHANGED <<remote, clone, objects, refs, lock, heads>>
  BY DEF Inv, TypeOK, git

LEMMA AssignInv ==
    ASSUME Inv, NEW p \in Preview, NEW sha \in Commit \cup {NULL},
           NEW branch \in Branch \cup {NULL}, Assign(p, sha, branch)
    PROVE  Inv'
  <1> DEFINE j == [pc |-> "ensure", sha |-> sha, branch |-> branch, want |-> NULL]
             found == Found(remote[UrlOf[p]], sha, branch)
  <1>1. j \in Job
    BY DEF Job, Working
  <1>2. found \in Commit \cup {NULL}
    <2>1. remote[UrlOf[p]] \in Heads
      BY PreviewTyped DEF Inv, TypeOK
    <2>2. CASE sha # NULL
      BY <2>2 DEF Found
    <2>3. CASE sha = NULL
      BY <2>1, <2>3 DEF Assign, Found, Heads, Head
    <2> QED  BY <2>2, <2>3
  <1>3. /\ job' = [job EXCEPT ![p] = j]
        /\ answers' = [answers EXCEPT ![p] = {found} \cup ({sha} \ {NULL})]
        /\ excused' = excused \ {p}
        /\ UNCHANGED <<remote, git, worktrees>>
        /\ (sha = NULL) # (branch = NULL)
        /\ spent' \in [{"jobs", "pushes", "faults"} -> Nat]
    BY SpendTyped DEF Assign, Inv
  <1> HIDE DEF j, found
  <1>4. /\ job' \in [Preview -> Job] /\ job'[p] = j
        /\ \A q \in Preview \ {p} : job'[q] = job[q]
        /\ answers' \in [Preview -> SUBSET (Commit \cup {NULL})]
        /\ answers'[p] = {found} \cup ({sha} \ {NULL})
        /\ \A q \in Preview \ {p} : answers'[q] = answers[q]
    BY <1>1, <1>2, <1>3 DEF Inv, TypeOK
  <1>5. j.pc = "ensure" /\ j.sha = sha /\ j.branch = branch
    BY DEF j
  <1>6. JobInv(p)'
    <2>1. Settled(p)' /\ Told(p)' /\ Read(p)' /\ Ready(p)'
      BY <1>4, <1>5 DEF Settled, Past, Told, Read, Ready, At
    <2>2. Named(p)'
      <3>1. Found(remote[UrlOf[p]], sha, branch)' = found
        BY <1>3 DEF found, Found, Reached
      <3> QED  BY <3>1, <1>3, <1>4, <1>5 DEF Named
    <2> QED  BY <2>1, <2>2 DEF JobInv
  <1>7. worktrees' \in [Preview -> Commit \cup {NULL}] /\ excused' \subseteq Preview
    BY <1>3 DEF Inv, TypeOK
  <1> QED  BY <1>3, <1>4, <1>5, <1>6, <1>7, MoveInv

LEMMA EnsureInv ==
    ASSUME Inv, NEW p \in Preview, Ensure(p)
    PROVE  Inv'
  <1> DEFINE pc == IF IsInitialized(p) THEN "look" ELSE "clone"
  <1>1. /\ At(p, "ensure") /\ To(p, pc) /\ pc \in Pcs
        /\ UNCHANGED <<remote, git, worktrees, answers, excused, spent>>
    BY DEF Ensure, Pcs, Working
  <1>2. pc = "look" => clone[DirFor(p)] # "none"
    BY DEF IsInitialized
  <1>3. pc \in {"look", "clone"}
    OBVIOUS
  <1> HIDE DEF pc
  <1>4. /\ job' \in [Preview -> Job]
        /\ job'[p].pc = pc /\ job'[p].sha = job[p].sha /\ job'[p].branch = job[p].branch
        /\ \A q \in Preview \ {p} : job'[q] = job[q]
    BY <1>1, ToMoves DEF Inv
  <1>5. UNCHANGED <<remote, clone, objects, refs, lock, heads>>
    BY <1>1, QuietFrame
  <1>6. JobInv(p)'
    <2>1. Settled(p)' /\ Read(p)' /\ Ready(p)'
      BY <1>3, <1>4 DEF Settled, Past, Read, Ready, At
    <2>2. Told(p)'
      BY <1>2, <1>3, <1>4, <1>5 DEF Told, At, DirFor
    <2>3. Named(p)'
      BY <1>1, <1>4, <1>5 DEF Inv, JobInv, Named, Active, Working, At, Found, Reached
    <2> QED  BY <2>1, <2>2, <2>3 DEF JobInv
  <1> QED  BY <1>1, <1>3, <1>4, <1>6, QuietFrame, MoveInv

\* What is in the clone is there to stay: no clone is under way.
LEMMA ThereToStay ==
    ASSUME Inv, NEW p \in Preview, objects[DirFor(p)] # {}
    PROVE  /\ clone[DirFor(p)] # "none"
           /\ \A q \in Preview : At(q, "cloning") => DirFor(q) # DirFor(p)
  BY PreviewTyped DEF Inv, Cloned

LEMMA LookInv ==
    ASSUME Inv, NEW p \in Preview, Look(p)
    PROVE  Inv'
  <1>1. At(p, "look") /\ UNCHANGED <<remote, git, worktrees, answers, excused, spent>>
    BY DEF Look
  <1>2. UNCHANGED <<remote, clone, objects, refs, lock, heads>>
    BY <1>1, QuietFrame
  <1>3. JobInv(p) /\ Active(p)
    BY <1>1 DEF Inv, At, Active, Working
  <1>4. CASE job[p].sha \in objects[DirFor(p)]
    <2> DEFINE j == [job[p] EXCEPT !.pc = "add", !.want = job[p].sha]
    <2>0. j \in Job /\ j.pc = "add" /\ j.sha = job[p].sha /\ j.branch = job[p].branch
            /\ j.want = job[p].sha
      BY PreviewTyped DEF Inv, Job, Working
    <2>1. job' = [job EXCEPT ![p] = j]
      BY <1>4 DEF Look
    <2> HIDE DEF j
    <2>2. /\ job' \in [Preview -> Job]
          /\ job'[p].pc = "add" /\ job'[p].sha = job[p].sha
          /\ job'[p].branch = job[p].branch /\ job'[p].want = job[p].sha
          /\ \A q \in Preview \ {p} : job'[q] = job[q]
      BY <2>0, <2>1 DEF Inv, TypeOK
    <2>3. job[p].sha # NULL
      BY <1>4, PreviewTyped, CacheAssumption DEF Inv, TypeOK
    <2>4. \A q \in Preview : At(q, "cloning")' => At(q, "cloning")
      BY <2>2 DEF At
    <2>5. Settled(p)'
      BY <2>4, <1>2, <1>4, ThereToStay DEF Settled, DirFor
    <2>6. Told(p)' /\ Read(p)' /\ Ready(p)'
      BY <2>2, <2>3, <1>1, <1>3 DEF JobInv, Named, Told, Read, Ready, At
    <2>7. Named(p)'
      BY <2>2, <1>1, <1>2, <1>3 DEF JobInv, Named, Found, Reached
    <2>8. JobInv(p)'
      BY <2>5, <2>6, <2>7 DEF JobInv
    <2> QED  BY <2>2, <2>8, <1>1, QuietFrame, MoveInv
  <1>5. CASE job[p].sha \notin objects[DirFor(p)]
    <2> DEFINE j == [job[p] EXCEPT !.pc = "fetch"]
    <2>0. j \in Job /\ j.pc = "fetch" /\ j.sha = job[p].sha /\ j.branch = job[p].branch
      BY PreviewTyped DEF Inv, Job, Working
    <2>1. job' = [job EXCEPT ![p] = j]
      BY <1>5 DEF Look
    <2> HIDE DEF j
    <2>2. /\ job' \in [Preview -> Job]
          /\ job'[p].pc = "fetch" /\ job'[p].sha = job[p].sha /\ job'[p].branch = job[p].branch
          /\ \A q \in Preview \ {p} : job'[q] = job[q]
      BY <2>0, <2>1 DEF Inv, TypeOK
    <2>3. Settled(p)' /\ Read(p)' /\ Ready(p)'
      BY <2>2 DEF Settled, Past, Read, Ready, At
    <2>4. Told(p)'
      BY <2>2, <1>1, <1>2, <1>3 DEF JobInv, Told, At, DirFor
    <2>5. Named(p)'
      BY <2>2, <1>1, <1>2, <1>3 DEF JobInv, Named, Found, Reached
    <2>6. JobInv(p)'
      BY <2>3, <2>4, <2>5 DEF JobInv
    <2> QED  BY <2>2, <2>6, <1>1, QuietFrame, MoveInv
  <1> QED  BY <1>4, <1>5

LEMMA ResolveInv ==
    ASSUME Inv, NEW p \in Preview, Resolve(p)
    PROVE  Inv'
  <1> DEFINE pc == IF Resolved(p) = NULL THEN "missing" ELSE "add"
  <1>1. /\ At(p, "resolve") /\ UNCHANGED <<remote, git, worktrees, answers, excused, spent>>
        /\ job' = [job EXCEPT ![p].pc = pc, ![p].want = Resolved(p)]
    BY DEF Resolve
  <1>2. UNCHANGED <<remote, clone, objects, refs, lock, heads>>
    BY <1>1, QuietFrame
  <1>3. JobInv(p) /\ Active(p) /\ Past(p)
    BY <1>1 DEF Inv, At, Active, Working, Past
  <1>4. Resolved(p) \in answers[p]
    BY <1>1, <1>3 DEF JobInv, Ready
  <1>5. Resolved(p) \in Commit \cup {NULL}
    BY <1>4 DEF Inv, TypeOK
  <1>6. pc \in {"missing", "add"} /\ (pc = "missing" <=> Resolved(p) = NULL)
    OBVIOUS
  <1> HIDE DEF pc
  <1>7. /\ job' \in [Preview -> Job]
        /\ job'[p].pc = pc /\ job'[p].sha = job[p].sha
        /\ job'[p].branch = job[p].branch /\ job'[p].want = Resolved(p)
        /\ \A q \in Preview \ {p} : job'[q] = job[q]
    BY <1>1, <1>5, <1>6 DEF Inv, TypeOK, Job, Working, Failures
  <1>8. \A q \in Preview : At(q, "cloning")' => At(q, "cloning")
    BY <1>6, <1>7 DEF At
  <1>9. Settled(p)'
    BY <1>2, <1>3, <1>8 DEF JobInv, Settled, DirFor
  <1>10. Told(p)' /\ Read(p)'
    BY <1>6, <1>7 DEF Told, Read, At
  <1>11. Ready(p)'
    BY <1>1, <1>4, <1>6, <1>7 DEF Ready, At
  <1>12. Named(p)'
    BY <1>1, <1>2, <1>3, <1>7 DEF JobInv, Named, Found, Reached
  <1>13. JobInv(p)'
    BY <1>9, <1>10, <1>11, <1>12 DEF JobInv
  <1> QED  BY <1>1, <1>6, <1>7, <1>13, QuietFrame, MoveInv

LEMMA AddInv ==
    ASSUME Inv, NEW p \in Preview, Add(p)
    PROVE  Inv'
  <1>1. At(p, "add") /\ JobInv(p) /\ Past(p)
    BY DEF Add, Inv, At, Past
  <1>2. clone[DirFor(p)] # "none" /\ job[p].want \in answers[p] \ {NULL}
    BY <1>1 DEF JobInv, Settled, Ready
  <1>3. /\ To(p, "out") /\ worktrees' = [worktrees EXCEPT ![p] = job[p].want]
        /\ UNCHANGED <<remote, git, answers, excused, spent>>
    BY <1>2 DEF Add, IsInitialized
  <1>4. "out" \in Pcs
    BY DEF Pcs
  <1>5. /\ job' \in [Preview -> Job]
        /\ job'[p].pc = "out" /\ \A q \in Preview \ {p} : job'[q] = job[q]
    BY <1>3, <1>4, ToMoves DEF Inv
  <1>6. /\ worktrees' \in [Preview -> Commit \cup {NULL}] /\ worktrees'[p] = job[p].want
        /\ \A q \in Preview \ {p} : worktrees'[q] = worktrees[q]
    BY <1>3, PreviewTyped DEF Inv, TypeOK
  <1>7. \A q \in Preview : At(q, "cloning")' => At(q, "cloning")
    BY <1>5 DEF At
  <1>8. Settled(p)'
    BY <1>1, <1>3, <1>7 DEF JobInv, Settled, DirFor, git
  <1>9. Told(p)' /\ Read(p)' /\ Named(p)' /\ Ready(p)'
    BY <1>2, <1>3, <1>5, <1>6 DEF Told, Read, Named, Active, Working, Ready, At
  <1>10. JobInv(p)'
    BY <1>8, <1>9 DEF JobInv
  <1>11. /\ answers' \in [Preview -> SUBSET (Commit \cup {NULL})] /\ excused' \subseteq Preview
         /\ spent' \in [{"jobs", "pushes", "faults"} -> Nat]
    BY <1>3 DEF Inv, TypeOK
  <1> QED  BY <1>3, <1>5, <1>6, <1>10, <1>11, MoveInv

LEMMA EndInv ==
    ASSUME Inv, NEW p \in Preview, NEW kept \in BOOLEAN, End(p, kept)
    PROVE  Inv'
  <1> DEFINE tree == IF At(p, "out") /\ ~kept THEN NULL ELSE worktrees[p]
  <1>1. /\ job' = [job EXCEPT ![p] = Idle] /\ worktrees' = [worktrees EXCEPT ![p] = tree]
        /\ answers' = [answers EXCEPT ![p] = {}] /\ excused' = excused \ {p}
        /\ UNCHANGED <<remote, git, spent>>
    BY DEF End
  <1>2. Idle \in Job /\ tree \in Commit \cup {NULL}
    BY DEF Idle, Job, Inv, TypeOK
  <1> HIDE DEF tree
  <1>3. /\ job' \in [Preview -> Job] /\ job'[p].pc = "idle"
        /\ \A q \in Preview \ {p} : job'[q] = job[q]
    BY <1>1, <1>2 DEF Inv, TypeOK, Idle
  <1>4. /\ worktrees' \in [Preview -> Commit \cup {NULL}]
        /\ \A q \in Preview \ {p} : worktrees'[q] = worktrees[q]
        /\ answers' \in [Preview -> SUBSET (Commit \cup {NULL})]
        /\ \A q \in Preview \ {p} : answers'[q] = answers[q]
        /\ excused' \subseteq Preview /\ spent' \in [{"jobs", "pushes", "faults"} -> Nat]
    BY <1>1, <1>2 DEF Inv, TypeOK
  <1>5. JobInv(p)'
    BY <1>3 DEF JobInv, Settled, Past, Told, Named, Active, Working, Read, Ready, At
  <1> QED  BY <1>1, <1>3, <1>4, <1>5, MoveInv

LEMMA RemoveInv ==
    ASSUME Inv, NEW p \in Preview, Remove(p)
    PROVE  Inv'
  <1>1. /\ At(p, "idle") /\ worktrees' = [worktrees EXCEPT ![p] = NULL]
        /\ UNCHANGED <<remote, git, job, answers, excused, spent>>
    BY DEF Remove
  <1>2. JobInv(p)'
    BY <1>1 DEF JobInv, Settled, Past, Told, Named, Active, Working, Read, Ready, At
  <1>3. /\ worktrees' \in [Preview -> Commit \cup {NULL}]
        /\ \A q \in Preview \ {p} : worktrees'[q] = worktrees[q]
    BY <1>1 DEF Inv, TypeOK
  <1>4. /\ job' \in [Preview -> Job] /\ answers' \in [Preview -> SUBSET (Commit \cup {NULL})]
        /\ excused' \subseteq Preview /\ spent' \in [{"jobs", "pushes", "faults"} -> Nat]
    BY <1>1 DEF Inv, TypeOK
  <1>5. job'[p].pc \notin {"cloning", "fetching"}
    BY <1>1 DEF At
  <1>6. UNCHANGED <<remote, git>> /\ job' = job /\ answers' = answers /\ excused' = excused
    BY <1>1
  <1> QED  BY <1>2, <1>3, <1>4, <1>5, <1>6, MoveInv

-----------------------------------------------------------------------------
(* The steps that take or release the mutex. *)

\* Who takes the mutex has the heads of now: they are right for every job of the URL.
LEMMA TakeFrame ==
    ASSUME Inv, NEW p \in Preview, NEW pc \in {"cloning", "fetching"},
           Take(p), Active(p), To(p, pc), UNCHANGED <<remote, answers>>
    PROVE  /\ Held'
           /\ \A q \in Preview : Named(q)' /\ Read(q)'
  <1>1. pc \in Pcs /\ pc \in Working
    BY DEF Pcs, Working
  <1>2. /\ job'[p].pc = pc /\ job'[p].sha = job[p].sha /\ job'[p].branch = job[p].branch
        /\ \A q \in Preview \ {p} : job'[q] = job[q]
    BY <1>1, ToMoves DEF Inv
  <1>3. /\ lock[UrlOf[p]] = NULL /\ lock'[UrlOf[p]] = p
        /\ heads'[UrlOf[p]] = remote[UrlOf[p]]
        /\ \A u \in Url \ {UrlOf[p]} : lock'[u] = lock[u] /\ heads'[u] = heads[u]
    BY TakeTyped DEF Inv
  <1>4. \A q \in Preview : Writing(q) => UrlOf[q] # UrlOf[p]
    BY <1>3, CacheAssumption DEF Inv, Held
  <1>5. Held'
    <2> SUFFICES ASSUME NEW q \in Preview, Writing(q)' PROVE lock'[UrlOf[q]] = q
      BY DEF Held
    <2>1. CASE q = p
      BY <2>1, <1>3
    <2>2. CASE q # p
      <3>1. Writing(q)
        BY <2>2, <1>2 DEF Writing
      <3>2. UrlOf[q] \in Url \ {UrlOf[p]}
        BY <3>1, <1>4, CacheAssumption
      <3> QED  BY <3>1, <3>2, <1>3 DEF Inv, Held
    <2> QED  BY <2>1, <2>2
  <1>6. ASSUME NEW q \in Preview PROVE Named(q)' /\ Read(q)'
    <2>1. /\ job'[q].sha = job[q].sha /\ job'[q].branch = job[q].branch
          /\ Active(q)' => Active(q)
      BY <1>2 DEF Active
    <2>2. Named(q)
      BY DEF Inv, JobInv
    <2>3. Named(q)'
      BY <2>1, <2>2 DEF Named, Found, Reached
    <2>4. CASE UrlOf[q] = UrlOf[p]
      <3>1. heads'[UrlOf[q]] = remote'[UrlOf[q]]
        BY <2>4, <1>3
      <3>2. Read(q)' \/ Active(q)'
        BY DEF Read, At, Active, Working
      <3>3. Found(heads[UrlOf[q]], job[q].sha, job[q].branch)'
              = Found(remote[UrlOf[q]], job[q].sha, job[q].branch)'
        BY <3>1 DEF Found, Reached
      <3> QED  BY <2>3, <3>2, <3>3 DEF Named, Read
    <2>5. CASE UrlOf[q] # UrlOf[p]
      <3>1. UrlOf[q] \in Url \ {UrlOf[p]}
        BY <2>5, CacheAssumption
      <3>2. lock'[UrlOf[q]] = lock[UrlOf[q]] /\ heads'[UrlOf[q]] = heads[UrlOf[q]]
        BY <3>1, <1>3
      <3>3. job'[q] = job[q]
        BY <2>5, <1>2
      <3>4. Read(q)
        BY DEF Inv, JobInv
      <3> QED  BY <2>3, <3>2, <3>3, <3>4 DEF Read, At, Free, Found, Reached
    <2> QED  BY <2>4, <2>5
  <1> QED  BY <1>5, <1>6

LEMMA ReleaseFrame ==
    ASSUME Inv, NEW p \in Preview, NEW pc \in Pcs \ {"cloning", "fetching"},
           Release(p), Writing(p), To(p, pc), UNCHANGED <<remote, answers>>
    PROVE  /\ Held'
           /\ \A q \in Preview : Named(q)' /\ Read(q)'
  <1>1. /\ job'[p].pc = pc /\ job'[p].sha = job[p].sha /\ job'[p].branch = job[p].branch
        /\ \A q \in Preview \ {p} : job'[q] = job[q]
    BY ToMoves DEF Inv
  <1>2. /\ lock'[UrlOf[p]] = NULL
        /\ \A u \in Url \ {UrlOf[p]} : lock'[u] = lock[u] /\ heads'[u] = heads[u]
    BY ReleaseTyped DEF Inv
  <1>3. \A q \in Preview \ {p} : Writing(q) => UrlOf[q] # UrlOf[p]
    BY OneHolder DEF Inv
  <1>4. Held'
    <2> SUFFICES ASSUME NEW q \in Preview, Writing(q)' PROVE lock'[UrlOf[q]] = q
      BY DEF Held
    <2>1. q # p /\ Writing(q)
      BY <1>1 DEF Writing
    <2>2. UrlOf[q] \in Url \ {UrlOf[p]}
      BY <2>1, <1>3, CacheAssumption
    <2> QED  BY <2>1, <2>2, <1>2 DEF Inv, Held
  <1>5. ASSUME NEW q \in Preview PROVE Named(q)' /\ Read(q)'
    <2>1. /\ job'[q].sha = job[q].sha /\ job'[q].branch = job[q].branch
          /\ Active(q)' => Active(q)
      BY <1>1 DEF Active, Writing, Working
    <2>2. Named(q) /\ Read(q)
      BY DEF Inv, JobInv
    <2>3. Named(q)'
      BY <2>1, <2>2 DEF Named, Found, Reached
    <2>4. CASE UrlOf[q] = UrlOf[p]
      <3>1. Free(UrlOf[q])'
        BY <2>4, <1>2 DEF Free
      <3>2. ~At(q, "fetching")'
        BY <2>4, <1>1, <1>3 DEF At, Writing
      <3> QED  BY <2>3, <3>1, <3>2 DEF Read
    <2>5. CASE UrlOf[q] # UrlOf[p]
      <3>1. UrlOf[q] \in Url \ {UrlOf[p]}
        BY <2>5, CacheAssumption
      <3>2. lock'[UrlOf[q]] = lock[UrlOf[q]] /\ heads'[UrlOf[q]] = heads[UrlOf[q]]
        BY <3>1, <1>2
      <3>3. job'[q] = job[q]
        BY <2>5, <1>1
      <3> QED  BY <2>2, <2>3, <3>2, <3>3 DEF Read, At, Free, Found, Reached
    <2> QED  BY <2>4, <2>5
  <1> QED  BY <1>4, <1>5

LEMMA CloneStartInv ==
    ASSUME Inv, NEW p \in Preview, CloneStart(p)
    PROVE  Inv'
  <1> DEFINE d == DirFor(p)
  <1>1. At(p, "clone") /\ UNCHANGED <<remote, objects, refs, worktrees, answers, excused, spent>>
    BY DEF CloneStart
  <1>2. CASE /\ ~IsInitialized(p) /\ Take(p) /\ To(p, "cloning")
             /\ clone' = [clone EXCEPT ![d] = "cloning"]
    <2>1. "cloning" \in Pcs /\ Active(p)
      BY <1>1 DEF Pcs, Working, Active, At
    <2>2. /\ job' \in [Preview -> Job] /\ job'[p].pc = "cloning"
          /\ \A q \in Preview \ {p} : job'[q] = job[q]
      BY <2>1, <1>2, ToMoves DEF Inv
    <2>3. Held' /\ \A q \in Preview : Named(q)' /\ Read(q)'
      BY <2>1, <1>1, <1>2, TakeFrame
    <2>4. TypeOK'
      <3>1. lock' \in [Url -> Preview \cup {NULL}] /\ heads' \in [Url -> Heads]
        BY <1>2, TakeTyped DEF Inv
      <3>2. clone' \in [Dir -> {"none", "cloning", "there"}]
        BY <1>2 DEF Inv, TypeOK
      <3> QED  BY <2>2, <3>1, <3>2, <1>1 DEF Inv, TypeOK
    <2>5. /\ clone[d] = "none" /\ objects[d] = {} /\ d \in Dir
          /\ \A x \in Dir : clone'[x] = "none" => clone[x] = "none"
      BY <1>2, PreviewTyped DEF Inv, TypeOK, Cloned, IsInitialized
    <2>6. Cloned'
      <3>1. \A x \in Dir : clone'[x] = "none" => objects'[x] = {}
        BY <2>5, <1>1 DEF Inv, Cloned
      <3>2. ASSUME NEW q \in Preview, At(q, "cloning")' PROVE objects[DirFor(q)] = {}
        BY <2>2, <2>5, <3>2 DEF Inv, Cloned, At
      <3> QED  BY <3>1, <3>2, <1>1 DEF Cloned, DirFor
    <2>7. ASSUME NEW q \in Preview PROVE Settled(q)' /\ Told(q)' /\ Ready(q)'
      <3>1. CASE q = p
        BY <2>2, <3>1 DEF Settled, Past, Told, Ready, At
      <3>2. CASE q # p
        <4>1. job'[q] = job[q] /\ JobInv(q) /\ DirFor(q) \in Dir
          BY <2>2, <3>2, PreviewTyped DEF Inv
        <4>2. Past(q) => DirFor(q) # d /\ clone'[DirFor(q)] # "none"
          BY <2>5, <4>1 DEF JobInv, Settled
        <4>3. \A r \in Preview : At(r, "cloning")' => At(r, "cloning") \/ r = p
          BY <2>2 DEF At
        <4>4. Settled(q)'
          BY <4>1, <4>2, <4>3 DEF JobInv, Settled, Past, DirFor
        <4>5. Told(q)'
          BY <4>1, <2>5, <1>1 DEF JobInv, Told, At, DirFor
        <4>6. Ready(q)'
          BY <4>1, <1>1 DEF JobInv, Ready, At, Resolved, DirFor
        <4> QED  BY <4>4, <4>5, <4>6
      <3> QED  BY <3>1, <3>2
    <2> QED  BY <2>3, <2>4, <2>6, <2>7 DEF Inv, JobInv
  <1>3. CASE IsInitialized(p) /\ To(p, "unclonable") /\ UNCHANGED <<clone, lock, heads>>
    <2>1. "unclonable" \in Pcs
      BY DEF Pcs, Failures
    <2>2. /\ job' \in [Preview -> Job] /\ job'[p].pc = "unclonable"
          /\ \A q \in Preview \ {p} : job'[q] = job[q]
      BY <2>1, <1>3, ToMoves DEF Inv
    <2>3. JobInv(p)'
      BY <2>2 DEF JobInv, Settled, Past, Told, Named, Active, Working, Read, Ready, At
    <2>4. UNCHANGED <<remote, git, worktrees, answers, excused, spent>>
      BY <1>1, <1>3 DEF git
    <2> QED  BY <2>2, <2>3, <2>4, QuietFrame, MoveInv
  <1> QED  BY <1>2, <1>3 DEF CloneStart

LEMMA FetchStartInv ==
    ASSUME Inv, NEW p \in Preview, FetchStart(p)
    PROVE  Inv'
  <1>1. /\ At(p, "fetch") /\ Take(p) /\ To(p, "fetching")
        /\ UNCHANGED <<remote, clone, objects, refs, worktrees, answers, excused, spent>>
    BY DEF FetchStart
  <1>2. "fetching" \in Pcs /\ Active(p)
    BY <1>1 DEF Pcs, Working, Active, At
  <1>3. /\ job' \in [Preview -> Job] /\ job'[p].pc = "fetching"
        /\ \A q \in Preview \ {p} : job'[q] = job[q]
    BY <1>1, <1>2, ToMoves DEF Inv
  <1>4. Held' /\ \A q \in Preview : Named(q)' /\ Read(q)'
    BY <1>1, <1>2, TakeFrame
  <1>5. TypeOK'
    <2>1. lock' \in [Url -> Preview \cup {NULL}] /\ heads' \in [Url -> Heads]
      BY <1>1, TakeTyped DEF Inv
    <2> QED  BY <1>1, <1>3, <2>1 DEF Inv, TypeOK
  <1>6. \A q \in Preview : At(q, "cloning")' => At(q, "cloning")
    BY <1>3 DEF At
  <1>7. Cloned'
    BY <1>1, <1>6 DEF Inv, Cloned, DirFor
  <1>8. ASSUME NEW q \in Preview PROVE Settled(q)' /\ Told(q)' /\ Ready(q)'
    <2>1. JobInv(q)
      BY DEF Inv
    <2>2. Settled(q)'
      BY <2>1, <1>1, <1>3, <1>6 DEF JobInv, Settled, Past, DirFor
    <2>3. Told(q)'
      BY <2>1, <1>1, <1>3 DEF JobInv, Told, At, DirFor
    <2>4. Ready(q)'
      BY <2>1, <1>1, <1>3 DEF JobInv, Ready, At, Resolved, DirFor
    <2> QED  BY <2>2, <2>3, <2>4
  <1> QED  BY <1>4, <1>5, <1>7, <1>8 DEF Inv, JobInv

\* Nobody else writes a clone while its mutex is held.
LEMMA AloneInDir ==
    ASSUME Inv, OneDirPerUrl, NEW p \in Preview, Writing(p)
    PROVE  \A q \in Preview \ {p} : Writing(q) => DirFor(q) # DirFor(p)
  BY SameDirSameUrl, OneHolder DEF Inv

LEMMA CloneEndInv ==
    ASSUME Inv, OneDirPerUrl, NEW p \in Preview, CloneEnd(p)
    PROVE  Inv'
  <1> DEFINE d == DirFor(p)
             got == Reached(heads[UrlOf[p]])
  <1>1. /\ At(p, "cloning") /\ Writing(p) /\ Release(p) /\ To(p, "look")
        /\ clone' = [clone EXCEPT ![d] = "there"]
        /\ objects' = [objects EXCEPT ![d] = objects[d] \cup got]
        /\ UNCHANGED <<remote, refs, worktrees, answers, excused, spent>>
    BY DEF CloneEnd, Writing, At
  <1>2. "look" \in Pcs \ {"cloning", "fetching"} /\ d \in Dir
    BY PreviewTyped DEF Pcs, Working, Inv
  <1>3. /\ job' \in [Preview -> Job] /\ job'[p].pc = "look"
        /\ \A q \in Preview \ {p} : job'[q] = job[q]
    BY <1>1, <1>2, ToMoves DEF Inv
  <1>4. Held' /\ \A q \in Preview : Named(q)' /\ Read(q)'
    BY <1>1, <1>2, ReleaseFrame
  <1>5. got \subseteq Commit
    BY PreviewTyped, ReachedTyped DEF Inv, TypeOK
  <1> HIDE DEF got
  <1>6. TypeOK'
    <2>1. lock' \in [Url -> Preview \cup {NULL}] /\ heads' \in [Url -> Heads]
      BY <1>1, ReleaseTyped DEF Inv
    <2>2. /\ clone' \in [Dir -> {"none", "cloning", "there"}]
          /\ objects' \in [Dir -> SUBSET Commit]
      BY <1>1, <1>2, <1>5 DEF Inv, TypeOK
    <2> QED  BY <1>1, <1>3, <2>1, <2>2 DEF Inv, TypeOK
  <1>7. /\ clone'[d] = "there"
        /\ \A x \in Dir \ {d} : clone'[x] = clone[x] /\ objects'[x] = objects[x]
    BY <1>1, <1>2 DEF Inv, TypeOK
  <1>8. \A q \in Preview : At(q, "cloning")' => At(q, "cloning") /\ DirFor(q) \in Dir \ {d}
    BY <1>1, <1>3, AloneInDir, PreviewTyped DEF Inv, At, Writing
  <1>9. Cloned'
    <2>1. \A x \in Dir : clone'[x] = "none" => objects'[x] = {}
      BY <1>7 DEF Inv, Cloned
    <2>2. \A q \in Preview : At(q, "cloning")' => objects'[DirFor(q)] = {}
      BY <1>7, <1>8 DEF Inv, Cloned
    <2> QED  BY <2>1, <2>2 DEF Cloned, DirFor
  <1>10. ASSUME NEW q \in Preview PROVE Settled(q)' /\ Told(q)' /\ Ready(q)'
    <2>1. CASE q = p
      BY <1>3, <1>7, <2>1 DEF Settled, Past, Told, Ready, At, DirFor
    <2>2. CASE q # p
      <3>1. job'[q] = job[q] /\ JobInv(q) /\ DirFor(q) \in Dir
        BY <1>3, <2>2, PreviewTyped DEF Inv
      <3>2. Past(q) => DirFor(q) # d
        BY <1>1, <3>1 DEF JobInv, Settled
      <3>3. Settled(q)'
        BY <3>1, <3>2, <1>7, <1>8 DEF JobInv, Settled, Past, DirFor
      <3>4. Told(q)'
        BY <3>1, <1>1, <1>7 DEF JobInv, Told, At, DirFor
      <3>5. Ready(q)'
        <4>1. At(q, "resolve") => Resolved(q)' = Resolved(q)
          BY <3>1, <3>2, <1>1, <1>7 DEF Resolved, Past, At, DirFor
        <4> QED  BY <4>1, <3>1, <1>1 DEF JobInv, Ready, At
      <3> QED  BY <3>3, <3>4, <3>5
    <2> QED  BY <2>1, <2>2
  <1> QED  BY <1>4, <1>6, <1>9, <1>10 DEF Inv, JobInv

\* What a fetch writes is right for whoever is about to look for it, be the
\* fetch its own or that of another job.
LEMMA FetchedIsRight ==
    ASSUME Inv, NEW p \in Preview, NEW q \in Preview, NEW h, h = heads[UrlOf[q]],
           DirFor(q) = DirFor(p), Found(h, job[q].sha, job[q].branch) \in answers[q],
           Named(q), Active(q), DirFor(p) \in Dir,
           job'[q].sha = job[q].sha, job'[q].branch = job[q].branch,
           objects' = [objects EXCEPT ![DirFor(p)] = objects[DirFor(p)] \cup Reached(h)],
           refs' = [refs EXCEPT ![DirFor(p)] = [b \in Branch |-> h[b].tip]]
    PROVE  Resolved(q)' \in answers[q]
  <1>1. /\ objects'[DirFor(q)] = objects[DirFor(q)] \cup Reached(h)
        /\ refs'[DirFor(q)] = [b \in Branch |-> h[b].tip]
    BY DEF Inv, TypeOK
  <1>2. CASE job[q].sha # NULL
    <2>1. job[q].sha \in answers[q]
      BY <1>2 DEF Named
    <2>2. job[q].sha \notin Reached(h) => NULL \in answers[q]
      BY <1>2 DEF Found
    <2> QED  BY <1>1, <1>2, <2>1, <2>2 DEF Resolved, DirFor
  <1>3. CASE job[q].sha = NULL
    <2>1. job[q].branch \in Branch
      BY <1>3, PreviewTyped DEF Named, Inv
    <2>2. h[job[q].branch].tip \in answers[q]
      BY <1>3 DEF Found
    <2> QED  BY <1>1, <1>3, <2>1, <2>2 DEF Resolved, DirFor
  <1> QED  BY <1>2, <1>3

LEMMA FetchEndInv ==
    ASSUME Inv, OneDirPerUrl, NEW p \in Preview, FetchEnd(p)
    PROVE  Inv'
  <1> DEFINE d == DirFor(p)
             h == heads[UrlOf[p]]
  <1>1. /\ At(p, "fetching") /\ Writing(p) /\ Release(p)
        /\ UNCHANGED <<remote, clone, worktrees, answers, excused, spent>>
    BY DEF FetchEnd, Writing, At
  <1>2. d \in Dir /\ JobInv(p)
    BY PreviewTyped DEF Inv
  <1>3. /\ lock' \in [Url -> Preview \cup {NULL}] /\ heads' \in [Url -> Heads]
    BY <1>1, ReleaseTyped DEF Inv
  <1>4. CASE /\ IsInitialized(p) /\ To(p, "resolve")
             /\ objects' = [objects EXCEPT ![d] = objects[d] \cup Reached(h)]
             /\ refs' = [refs EXCEPT ![d] = [b \in Branch |-> h[b].tip]]
    <2>1. "resolve" \in Pcs \ {"cloning", "fetching"} /\ h \in Heads /\ Reached(h) \subseteq Commit
      BY PreviewTyped, ReachedTyped DEF Inv, TypeOK, Pcs, Working
    <2>2. /\ job' \in [Preview -> Job] /\ job'[p].pc = "resolve"
          /\ job'[p].sha = job[p].sha /\ job'[p].branch = job[p].branch
          /\ \A q \in Preview \ {p} : job'[q] = job[q]
      BY <1>4, <2>1, ToMoves DEF Inv
    <2>3. Held' /\ \A q \in Preview : Named(q)' /\ Read(q)'
      BY <1>1, <1>4, <2>1, ReleaseFrame
    <2>4. TypeOK'
      <3>1. [b \in Branch |-> h[b].tip] \in [Branch -> Commit \cup {NULL}]
        BY <2>1 DEF Heads, Head
      <3>2. /\ objects' \in [Dir -> SUBSET Commit]
            /\ refs' \in [Dir -> [Branch -> Commit \cup {NULL}]]
        BY <1>2, <1>4, <2>1, <3>1 DEF Inv, TypeOK
      <3> QED  BY <1>1, <1>3, <2>2, <3>2 DEF Inv, TypeOK
    <2>5. \A x \in Dir \ {d} : objects'[x] = objects[x] /\ refs'[x] = refs[x]
      BY <1>2, <1>4 DEF Inv, TypeOK
    <2>6. clone[d] # "none"
      BY <1>4 DEF IsInitialized
    <2>7. \A q \in Preview : At(q, "cloning")' => At(q, "cloning") /\ DirFor(q) \in Dir \ {d}
      BY <1>1, <2>2, AloneInDir, PreviewTyped DEF Inv, At, Writing
    <2>8. Cloned'
      <3>1. \A x \in Dir : clone[x] = "none" => objects'[x] = {}
        BY <2>5, <2>6 DEF Inv, Cloned
      <3>2. \A q \in Preview : At(q, "cloning")' => objects'[DirFor(q)] = {}
        BY <2>5, <2>7 DEF Inv, Cloned
      <3> QED  BY <3>1, <3>2, <1>1 DEF Cloned, DirFor
    <2>9. ASSUME NEW q \in Preview PROVE Settled(q)' /\ Told(q)' /\ Ready(q)'
      <3>1. JobInv(q) /\ DirFor(q) \in Dir
        BY PreviewTyped DEF Inv
      <3>2. Settled(q)'
        <4>1. Past(q)' => clone[DirFor(q)] # "none"
          BY <2>2, <2>6, <3>1 DEF JobInv, Settled, Past
        <4>2. Past(q)' => \A r \in Preview : At(r, "cloning")' => DirFor(r) # DirFor(q)
          <5>1. CASE q = p
            BY <5>1, <2>7
          <5>2. CASE q # p
            BY <5>2, <2>2, <2>7, <3>1 DEF JobInv, Settled, Past
          <5> QED  BY <5>1, <5>2
        <4> QED  BY <4>1, <4>2, <1>1 DEF Settled, DirFor
      <3>3. Told(q)'
        BY <3>1, <2>2, <1>1 DEF JobInv, Told, At, DirFor
      <3>4. At(q, "resolve")' => Resolved(q)' \in answers[q]
        <4>1. CASE DirFor(q) = d
          <5> SUFFICES ASSUME At(q, "resolve")' PROVE Resolved(q)' \in answers[q]
            OBVIOUS
          <5>1. UrlOf[q] = UrlOf[p] /\ h = heads[UrlOf[q]]
            BY <4>1, SameDirSameUrl
          <5>2. lock[UrlOf[q]] = p
            BY <5>1, <1>1 DEF Inv, Held
          <5>3. At(q, "fetching") \/ (At(q, "resolve") /\ ~Free(UrlOf[q]))
            BY <5>2, <2>2, <1>1, CacheAssumption DEF At, Free
          <5>4. Found(h, job[q].sha, job[q].branch) \in answers[q]
            BY <5>1, <5>3, <3>1 DEF JobInv, Read
          <5>5. Named(q) /\ Active(q)
            BY <5>3, <3>1 DEF JobInv, Active, Working, At
          <5>6. job'[q].sha = job[q].sha /\ job'[q].branch = job[q].branch
            BY <2>2
          <5> HIDE DEF h
          <5> QED  BY <5>1, <5>4, <5>5, <5>6, <4>1, <1>2, <1>4, FetchedIsRight
        <4>2. CASE DirFor(q) # d
          <5>1. job'[q] = job[q] /\ Resolved(q)' = Resolved(q)
            BY <4>2, <2>2, <2>5, <3>1 DEF Resolved, DirFor
          <5> QED  BY <5>1, <3>1 DEF JobInv, Ready, At
        <4> QED  BY <4>1, <4>2
      <3>5. Ready(q)'
        BY <3>1, <3>4, <2>2, <1>1 DEF JobInv, Ready, At
      <3> QED  BY <3>2, <3>3, <3>5
    <2> QED  BY <2>3, <2>4, <2>8, <2>9 DEF Inv, JobInv
  <1>5. CASE ~IsInitialized(p) /\ To(p, "broken") /\ UNCHANGED <<objects, refs>>
    <2>1. "broken" \in Pcs \ {"cloning", "fetching"}
      BY DEF Pcs, Failures
    <2>2. /\ job' \in [Preview -> Job] /\ job'[p].pc = "broken"
          /\ \A q \in Preview \ {p} : job'[q] = job[q]
      BY <1>5, <2>1, ToMoves DEF Inv
    <2>3. Held' /\ \A q \in Preview : Named(q)' /\ Read(q)'
      BY <1>1, <1>5, <2>1, ReleaseFrame
    <2>4. TypeOK'
      BY <1>1, <1>3, <1>5, <2>2 DEF Inv, TypeOK
    <2>5. \A q \in Preview : At(q, "cloning")' => At(q, "cloning")
      BY <2>2 DEF At
    <2>6. Cloned'
      BY <1>1, <1>5, <2>5 DEF Inv, Cloned, DirFor
    <2>7. p \in excused
      BY <1>1, <1>2, <1>5 DEF JobInv, Told, IsInitialized, At
    <2>8. ASSUME NEW q \in Preview PROVE Settled(q)' /\ Told(q)' /\ Ready(q)'
      <3>1. JobInv(q)
        BY DEF Inv
      <3>2. Settled(q)'
        BY <3>1, <1>1, <2>2, <2>5 DEF JobInv, Settled, Past, DirFor
      <3>3. Told(q)'
        BY <3>1, <1>1, <2>2, <2>7 DEF JobInv, Told, At, DirFor
      <3>4. Ready(q)'
        BY <3>1, <1>1, <1>5, <2>2 DEF JobInv, Ready, At, Resolved, DirFor
      <3> QED  BY <3>2, <3>3, <3>4
    <2> QED  BY <2>3, <2>4, <2>6, <2>8 DEF Inv, JobInv
  <1> QED  BY <1>4, <1>5 DEF FetchEnd

-----------------------------------------------------------------------------
(* What goes wrong, and what happens outside. *)

LEMMA CloneFailsInv ==
    ASSUME Inv, OneDirPerUrl, NEW p \in Preview, CloneFails(p)
    PROVE  Inv'
  <1> DEFINE d == DirFor(p)
             none == [b \in Branch |-> NULL]
  <1>1. /\ At(p, "cloning") /\ Writing(p) /\ Release(p) /\ To(p, "unclonable")
        /\ excused' = excused \cup Beside(p)
        /\ clone' = [clone EXCEPT ![d] = "none"] /\ objects' = [objects EXCEPT ![d] = {}]
        /\ refs' = [refs EXCEPT ![d] = none]
        /\ worktrees' = [q \in Preview |-> IF DirFor(q) = d THEN NULL ELSE worktrees[q]]
        /\ UNCHANGED <<remote, answers>>
        /\ spent' \in [{"jobs", "pushes", "faults"} -> Nat]
    BY SpendTyped DEF CloneFails, Writing, At, Inv
  <1>2. "unclonable" \in Pcs \ {"cloning", "fetching"} /\ d \in Dir
    BY PreviewTyped DEF Pcs, Failures, Inv
  <1>3. none \in [Branch -> Commit \cup {NULL}]
    OBVIOUS
  <1> HIDE DEF none
  <1>4. /\ job' \in [Preview -> Job] /\ job'[p].pc = "unclonable"
        /\ \A q \in Preview \ {p} : job'[q] = job[q]
    BY <1>1, <1>2, ToMoves DEF Inv
  <1>5. Held' /\ \A q \in Preview : Named(q)' /\ Read(q)'
    BY <1>1, <1>2, ReleaseFrame
  <1>6. /\ \A q \in Preview : DirFor(q) = d /\ Active(q) => q \in excused'
        /\ excused \subseteq excused' /\ excused' \subseteq Preview
    BY <1>1 DEF Beside, Inv, TypeOK
  <1>7. TypeOK'
    <2>1. lock' \in [Url -> Preview \cup {NULL}] /\ heads' \in [Url -> Heads]
      BY <1>1, ReleaseTyped DEF Inv
    <2>2. /\ clone' \in [Dir -> {"none", "cloning", "there"}]
          /\ objects' \in [Dir -> SUBSET Commit]
          /\ refs' \in [Dir -> [Branch -> Commit \cup {NULL}]]
      BY <1>1, <1>3 DEF Inv, TypeOK
    <2>3. worktrees' \in [Preview -> Commit \cup {NULL}]
      BY <1>1 DEF Inv, TypeOK
    <2> QED  BY <1>1, <1>4, <1>6, <2>1, <2>2, <2>3 DEF Inv, TypeOK
  <1>8. /\ objects'[d] = {}
        /\ \A x \in Dir \ {d} : /\ clone'[x] = clone[x] /\ objects'[x] = objects[x]
                              /\ refs'[x] = refs[x]
    BY <1>1, <1>2 DEF Inv, TypeOK
  <1>9. \A q \in Preview : At(q, "cloning")' => At(q, "cloning")
    BY <1>4 DEF At
  <1>10. Cloned'
    <2>1. \A x \in Dir : clone'[x] = "none" => objects'[x] = {}
      BY <1>8 DEF Inv, Cloned
    <2>2. \A q \in Preview : At(q, "cloning")' => objects'[DirFor(q)] = {}
      BY <1>8, <1>9, PreviewTyped DEF Inv, Cloned
    <2> QED  BY <2>1, <2>2 DEF Cloned, DirFor
  <1>11. ASSUME NEW q \in Preview PROVE Settled(q)' /\ Told(q)' /\ Ready(q)'
    <2>1. CASE q = p
      BY <2>1, <1>4 DEF Settled, Past, Told, Ready, At
    <2>2. CASE q # p
      <3>1. job'[q] = job[q] /\ JobInv(q) /\ DirFor(q) \in Dir
        BY <1>4, <2>2, PreviewTyped DEF Inv
      <3>2. Past(q) => DirFor(q) # d
        BY <1>1, <3>1 DEF JobInv, Settled
      <3>3. Settled(q)'
        BY <3>1, <3>2, <1>8, <1>9 DEF JobInv, Settled, Past, DirFor
      <3>4. Told(q)'
        <4>1. CASE DirFor(q) = d
          BY <4>1, <3>1, <1>6 DEF JobInv, Told, At, Active, Working
        <4>2. CASE DirFor(q) # d
          BY <4>2, <3>1, <1>6, <1>8 DEF JobInv, Told, At, DirFor
        <4> QED  BY <4>1, <4>2
      <3>5. Ready(q)'
        <4>1. At(q, "resolve") => Resolved(q)' = Resolved(q)
          BY <3>1, <3>2, <1>8 DEF Resolved, Past, At, DirFor
        <4>2. At(q, "out") => worktrees'[q] = worktrees[q]
          BY <3>2, <1>1 DEF Past, At
        <4> QED  BY <4>1, <4>2, <3>1, <1>1 DEF JobInv, Ready, At
      <3> QED  BY <3>3, <3>4, <3>5
    <2> QED  BY <2>1, <2>2
  <1> QED  BY <1>5, <1>7, <1>10, <1>11 DEF Inv, JobInv

\* A job that gives up what it was writing and leaves the clone as it is.
LEMMA GaveUp ==
    ASSUME Inv, NEW p \in Preview, NEW pc \in {"unclonable", "broken"},
           Writing(p), Release(p), To(p, pc), excused' = excused \cup {p},
           UNCHANGED <<remote, clone, objects, refs, worktrees, answers>>,
           spent' \in [{"jobs", "pushes", "faults"} -> Nat]
    PROVE  Inv'
  <1>1. pc \in Pcs \ {"cloning", "fetching"}
    BY DEF Pcs, Failures
  <1>2. /\ job' \in [Preview -> Job] /\ job'[p].pc = pc
        /\ \A q \in Preview \ {p} : job'[q] = job[q]
    BY <1>1, ToMoves DEF Inv
  <1>3. excused' \subseteq Preview /\ p \in excused'
    BY DEF Inv, TypeOK
  <1>4. Held' /\ \A q \in Preview : Named(q)' /\ Read(q)'
    BY <1>1, ReleaseFrame
  <1>5. TypeOK'
    <2>1. lock' \in [Url -> Preview \cup {NULL}] /\ heads' \in [Url -> Heads]
      BY ReleaseTyped DEF Inv
    <2> QED  BY <1>2, <1>3, <2>1 DEF Inv, TypeOK
  <1>6. \A q \in Preview : At(q, "cloning")' => At(q, "cloning")
    BY <1>2 DEF At
  <1>7. Cloned'
    BY <1>6 DEF Inv, Cloned, DirFor
  <1>8. ASSUME NEW q \in Preview PROVE Settled(q)' /\ Told(q)' /\ Ready(q)'
    <2>1. JobInv(q)
      BY DEF Inv
    <2>2. Settled(q)'
      BY <2>1, <1>2, <1>6 DEF JobInv, Settled, Past, DirFor
    <2>3. Told(q)'
      BY <2>1, <1>2, <1>3 DEF JobInv, Told, At, DirFor
    <2>4. Ready(q)'
      BY <2>1, <1>2 DEF JobInv, Ready, At, Resolved, DirFor
    <2> QED  BY <2>2, <2>3, <2>4
  <1> QED  BY <1>4, <1>5, <1>7, <1>8 DEF Inv, JobInv

LEMMA CloneKilledInv ==
    ASSUME Inv, NEW p \in Preview, CloneKilled(p)
    PROVE  Inv'
  <1>1. /\ Writing(p) /\ Release(p) /\ To(p, "unclonable") /\ excused' = excused \cup {p}
        /\ UNCHANGED <<remote, clone, objects, refs, worktrees, answers>>
        /\ spent' \in [{"jobs", "pushes", "faults"} -> Nat]
    BY SpendTyped DEF CloneKilled, Writing, At, Inv
  <1> QED  BY <1>1, GaveUp

LEMMA GitFailsInv ==
    ASSUME Inv, NEW p \in Preview, GitFails(p)
    PROVE  Inv'
  <1>1. /\ To(p, "broken") /\ excused' = excused \cup {p}
        /\ UNCHANGED <<remote, clone, objects, refs, answers>>
        /\ spent' \in [{"jobs", "pushes", "faults"} -> Nat]
    BY SpendTyped DEF GitFails, Inv
  <1>2. "broken" \in Pcs \ {"cloning", "fetching"}
    BY DEF Pcs, Failures
  <1>3. /\ job' \in [Preview -> Job] /\ job'[p].pc = "broken"
        /\ \A q \in Preview \ {p} : job'[q] = job[q]
    BY <1>1, <1>2, ToMoves DEF Inv
  <1>4. excused' \subseteq Preview /\ p \in excused'
    BY <1>1 DEF Inv, TypeOK
  <1>5. CASE At(p, "fetching") /\ Release(p) /\ UNCHANGED worktrees
    <2>1. Writing(p)
      BY <1>5 DEF Writing, At
    <2> QED  BY <1>1, <1>5, <2>1, GaveUp
  <1>6. CASE /\ At(p, "add") /\ worktrees' = [worktrees EXCEPT ![p] = NULL]
             /\ UNCHANGED <<lock, heads>>
    <2>1. /\ worktrees' \in [Preview -> Commit \cup {NULL}]
          /\ \A q \in Preview \ {p} : worktrees'[q] = worktrees[q]
      BY <1>6 DEF Inv, TypeOK
    <2>2. UNCHANGED <<remote, git>> /\ answers' = answers
      BY <1>1, <1>6 DEF git
    <2>3. answers' \in [Preview -> SUBSET (Commit \cup {NULL})]
      BY <2>2 DEF Inv, TypeOK
    <2>4. JobInv(p)'
      BY <1>3, <1>4
         DEF JobInv, Settled, Past, Told, Named, Active, Working, Read, Ready, At
    <2>5. \A q \in Preview \ {p} : q \in excused => q \in excused'
      BY <1>1
    <2> QED  BY <1>1, <1>3, <1>4, <2>1, <2>2, <2>3, <2>4, <2>5, MoveInv
  <1> QED  BY <1>5, <1>6 DEF GitFails

\* An invariant of what is in the clones when no job is at work.
LEMMA AllIdle ==
    ASSUME TypeOK, \A p \in Preview : job[p] = Idle,
           \A d \in Dir : clone[d] = "none" => objects[d] = {}
    PROVE  Inv
  <1>1. Held /\ Cloned
    BY DEF Held, Cloned, Writing, At, Idle
  <1>2. ASSUME NEW p \in Preview PROVE JobInv(p)
    BY DEF JobInv, Settled, Past, Told, Named, Active, Working, Read, Ready, At, Idle
  <1> QED  BY <1>1, <1>2 DEF Inv

LEMMA NothingTyped ==
    /\ Idle \in Job /\ NoHeads \in Heads
    /\ [p \in Preview |-> Idle] \in [Preview -> Job]
    /\ [u \in Url |-> NULL] \in [Url -> Preview \cup {NULL}]
    /\ [u \in Url |-> NoHeads] \in [Url -> Heads]
    /\ [p \in Preview |-> {}] \in [Preview -> SUBSET (Commit \cup {NULL})]
  <1>1. Idle \in Job /\ NoHeads \in Heads
    BY DEF Idle, Job, NoHeads, Heads, Gone, Head
  <1> QED  BY <1>1

LEMMA AgentRestartInv ==
    ASSUME Inv, AgentRestart
    PROVE  Inv'
  <1>1. TypeOK'
    <2>1. worktrees' \in [Preview -> Commit \cup {NULL}]
      BY DEF AgentRestart, Inv, TypeOK
    <2>2. spent' \in [{"jobs", "pushes", "faults"} -> Nat]
      BY SpendTyped DEF AgentRestart, Inv
    <2> QED  BY <2>1, <2>2, NothingTyped DEF AgentRestart, Inv, TypeOK
  <1>2. (\A p \in Preview : job[p] = Idle)'
    BY DEF AgentRestart
  <1>3. (\A d \in Dir : clone[d] = "none" => objects[d] = {})'
    BY DEF AgentRestart, Inv, Cloned
  <1> QED  BY <1>1, <1>2, <1>3, AllIdle, PTL

LEMMA InitInv ==
    ASSUME Init
    PROVE  Inv
  <1>1. TypeOK
    <2>1. remote \in [Url -> Heads]
      BY DEF Init, Heads, Head
    <2>2. /\ clone \in [Dir -> {"none", "cloning", "there"}]
          /\ objects \in [Dir -> SUBSET Commit]
          /\ refs \in [Dir -> [Branch -> Commit \cup {NULL}]]
          /\ worktrees \in [Preview -> Commit \cup {NULL}] /\ excused \subseteq Preview
          /\ spent \in [{"jobs", "pushes", "faults"} -> Nat]
      BY DEF Init
    <2> QED  BY <2>1, <2>2, NothingTyped DEF Init, TypeOK
  <1>2. /\ \A p \in Preview : job[p] = Idle
        /\ \A d \in Dir : clone[d] = "none" => objects[d] = {}
    BY DEF Init
  <1> QED  BY <1>1, <1>2, AllIdle

\* A change of a remote adds to what is right for the jobs at work on it.
LEMMA MovesInv ==
    ASSUME Inv, NEW u \in Url, NEW b \in Branch, NEW h \in Head, Moves(u, b, h)
    PROVE  Inv'
  <1> DEFINE now == [remote[u] EXCEPT ![b] = h]
  <1>1. /\ remote' = [remote EXCEPT ![u] = now]
        /\ answers' = [p \in Preview |->
                          IF Active(p) /\ UrlOf[p] = u
                          THEN answers[p] \cup {Found(remote'[u], job[p].sha, job[p].branch)}
                          ELSE answers[p]]
        /\ UNCHANGED <<clone, objects, refs, lock, heads, job, worktrees, excused>>
        /\ spent' \in [{"jobs", "pushes", "faults"} -> Nat]
    BY SpendTyped DEF Moves, Inv, git
  <1>2. now \in Heads
    <2>1. remote[u] \in Heads
      BY DEF Inv, TypeOK
    <2> QED  BY <2>1 DEF Heads
  <1> HIDE DEF now
  <1>3. /\ remote' \in [Url -> Heads] /\ remote'[u] = now
        /\ \A v \in Url \ {u} : remote'[v] = remote[v]
    BY <1>1, <1>2 DEF Inv, TypeOK
  <1>4. ASSUME NEW p \in Preview, Active(p)
        PROVE  Found(now, job[p].sha, job[p].branch) \in Commit \cup {NULL}
    <2>1. CASE job[p].sha # NULL
      BY <2>1, PreviewTyped DEF Found, Inv
    <2>2. CASE job[p].sha = NULL
      <3>1. job[p].branch \in Branch
        BY <2>2, <1>4, PreviewTyped DEF Inv, JobInv, Named
      <3> QED  BY <2>2, <3>1, <1>2 DEF Found, Heads, Head
    <2> QED  BY <2>1, <2>2
  <1>5. \A p \in Preview : /\ answers[p] \subseteq answers'[p]
                           /\ answers'[p] \in SUBSET (Commit \cup {NULL})
    BY <1>1, <1>3, <1>4 DEF Inv, TypeOK
  <1>6. TypeOK'
    <2>1. answers' \in [Preview -> SUBSET (Commit \cup {NULL})]
      BY <1>1, <1>5
    <2> QED  BY <1>1, <1>3, <2>1 DEF Inv, TypeOK
  <1>7. Held' /\ Cloned'
    BY <1>1 DEF Inv, Held, Cloned, Writing, At, DirFor
  <1>8. ASSUME NEW p \in Preview PROVE JobInv(p)'
    <2>1. JobInv(p) /\ answers[p] \subseteq answers'[p] /\ UrlOf[p] \in Url
      BY <1>5, CacheAssumption DEF Inv
    <2>2. Settled(p)' /\ Told(p)'
      BY <2>1, <1>1 DEF JobInv, Settled, Past, Told, At, DirFor
    <2>3. Named(p)'
      <3>1. CASE UrlOf[p] = u /\ Active(p)
        BY <3>1, <2>1, <1>1 DEF JobInv, Named, Active, Found, Reached
      <3>2. CASE UrlOf[p] # u
        BY <3>2, <2>1, <1>1, <1>3 DEF JobInv, Named, Active, Found, Reached
      <3>3. CASE ~Active(p)
        BY <3>3, <1>1 DEF Named, Active
      <3> QED  BY <3>1, <3>2, <3>3
    <2>4. Read(p)'
      BY <2>1, <1>1 DEF JobInv, Read, At, Free, Found, Reached
    <2>5. Ready(p)'
      BY <2>1, <1>1 DEF JobInv, Ready, At, Resolved, DirFor
    <2> QED  BY <2>2, <2>3, <2>4, <2>5 DEF JobInv
  <1> QED  BY <1>6, <1>7, <1>8 DEF Inv

-----------------------------------------------------------------------------
(* The invariant, and what follows from it. *)

LEMMA PushInv ==
    ASSUME Inv, NEW u \in Url, NEW b \in Branch,
           \/ DeleteBranch(u, b)
           \/ \E c \in Commit : Push(u, b, c) \/ ForcePush(u, b, c)
    PROVE  Inv'
  <1>1. \E h \in Head : Moves(u, b, h)
    <2>1. CASE DeleteBranch(u, b)
      <3>1. Gone \in Head /\ Moves(u, b, Gone)
        BY <2>1 DEF DeleteBranch, Gone, Head
      <3> QED  BY <3>1
    <2>2. ASSUME NEW c \in Commit, Push(u, b, c) PROVE \E h \in Head : Moves(u, b, h)
      <3> DEFINE past == remote[u][b].past \cup {c}
                 h == [tip |-> c, past |-> past]
      <3>1. remote[u] \in Heads
        BY DEF Inv, TypeOK
      <3>2. past \in SUBSET Commit
        BY <3>1 DEF Heads, Head
      <3>3. h \in Head
        BY <3>2 DEF Head
      <3>4. Moves(u, b, h)
        BY <2>2 DEF Push
      <3> QED  BY <3>3, <3>4
    <2>3. ASSUME NEW c \in Commit, ForcePush(u, b, c) PROVE \E h \in Head : Moves(u, b, h)
      <3>1. [tip |-> c, past |-> {c}] \in Head /\ Moves(u, b, [tip |-> c, past |-> {c}])
        BY <2>3 DEF ForcePush, Head
      <3> QED  BY <3>1
    <2> QED  BY <2>1, <2>2, <2>3
  <1> QED  BY <1>1, MovesInv

LEMMA NextInv ==
    ASSUME Inv, OneDirPerUrl, [Next]_vars
    PROVE  Inv'
  <1>1. ASSUME NEW p \in Preview, Step(p) PROVE Inv'
    BY <1>1, EnsureInv, CloneStartInv, CloneEndInv, LookInv, FetchStartInv, FetchEndInv,
       ResolveInv, AddInv DEF Step
  <1>2. ASSUME NEW p \in Preview,
               Remove(p) \/ CloneFails(p) \/ CloneKilled(p) \/ GitFails(p)
        PROVE  Inv'
    BY <1>2, RemoveInv, CloneFailsInv, CloneKilledInv, GitFailsInv
  <1>3. ASSUME NEW p \in Preview, NEW sha \in Commit \cup {NULL},
               NEW branch \in Branch \cup {NULL}, Assign(p, sha, branch)
        PROVE  Inv'
    BY <1>3, AssignInv
  <1>4. ASSUME NEW p \in Preview, NEW kept \in BOOLEAN, End(p, kept) PROVE Inv'
    BY <1>4, EndInv
  <1>5. ASSUME NEW u \in Url, NEW b \in Branch,
               \/ DeleteBranch(u, b)
               \/ \E c \in Commit : Push(u, b, c) \/ ForcePush(u, b, c)
        PROVE  Inv'
    BY <1>5, PushInv
  <1>6. CASE AgentRestart
    BY <1>6, AgentRestartInv
  <1>7. CASE UNCHANGED vars
    <2>1. UNCHANGED <<remote, clone, objects, refs, lock, heads, job, worktrees, answers,
                      excused, spent>>
      BY <1>7 DEF vars
    <2>2. TypeOK' /\ Held' /\ Cloned'
      BY <2>1 DEF Inv, TypeOK, Held, Cloned, Writing, At, DirFor
    <2>3. ASSUME NEW p \in Preview PROVE JobInv(p)'
      <3>1. JobInv(p)
        BY DEF Inv
      <3>2. Settled(p)' /\ Told(p)' /\ Ready(p)'
        BY <2>1, <3>1 DEF JobInv, Settled, Past, Told, Ready, At, DirFor, Resolved
      <3>3. Named(p)' /\ Read(p)'
        BY <2>1, <3>1 DEF JobInv, Named, Active, Read, At, Free, Found, Reached
      <3> QED  BY <3>2, <3>3 DEF JobInv
    <2> QED  BY <2>2, <2>3 DEF Inv
  <1> QED  BY <1>1, <1>2, <1>3, <1>4, <1>5, <1>6, <1>7 DEF Next

LEMMA SpecInv ==
    ASSUME OneDirPerUrl
    PROVE  Spec => []Inv
  <1>1. Init => Inv
    BY InitInv
  <1>2. Inv /\ [Next]_vars => Inv'
    BY NextInv
  <1> QED  BY <1>1, <1>2, PTL DEF Spec

\* The types of the state, whatever jobs, pushes and faults there are.
THEOREM CacheTypes ==
    ASSUME OneDirPerUrl
    PROVE  Spec => []TypeOK
  <1>1. Inv => TypeOK
    BY DEF Inv
  <1> QED  BY <1>1, SpecInv, PTL

\* The mutex of a URL keeps the writers of its clone apart: no two git commands
\* write one clone at a time, for any number of jobs (RepoCache.mu, decision 13).
THEOREM OneWriterAlways ==
    ASSUME OneDirPerUrl
    PROVE  Spec => []OneWriter
  <1>1. Inv => OneWriter
    BY SameDirSameUrl, OneHolder DEF Inv, OneWriter
  <1> QED  BY <1>1, SpecInv, PTL

\* Checkout puts out what JOB_ASSIGN asked for, whatever other jobs fetch between
\* its own fetch and its rev-parse.
THEOREM BuildsWhatWasAsked ==
    ASSUME OneDirPerUrl
    PROVE  Spec => []AsAsked
  <1>1. Inv => AsAsked
    BY DEF Inv, JobInv, Ready, AsAsked
  <1> QED  BY <1>1, SpecInv, PTL

\* Checkout fails only for want of the commit or because git has failed.
THEOREM FailureHasCause ==
    ASSUME OneDirPerUrl
    PROVE  Spec => []FailsForCause
  <1>1. Inv => FailsForCause
    BY DEF Inv, JobInv, Ready, Told, FailsForCause
  <1> QED  BY <1>1, SpecInv, PTL
=============================================================================
