---------------------------- MODULE RunnerProofs ----------------------------
(***************************************************************************)
(* Proofs about the inside of an agent, for any number of previews,        *)
(* goroutines, containers and faults.                                      *)
(*                                                                         *)
(* That the HELLO is complete and that nothing is leaked needs the whole   *)
(* life of a container and of a worktree: who may write the maps (one      *)
(* Handle of a preview at a time), that a Teardown which has loaded a job  *)
(* meets no Handle that has not stored one, that whoever remembers the id  *)
(* of a container remembers that of the one that is there, and whom a      *)
(* worktree belongs to until its job is in the map.                        *)
(***************************************************************************)
EXTENDS Runner, TLAPS

USE RunnerAssumption, NothingAssumption

Handle(g)   == go[g] # NoTask /\ go[g].op = "handle"
\* A Handle that has not stored its job, a Teardown that has loaded one.
Before(g)   == Handle(g) /\ go[g].pc \in {"paused?", "admit", "checkout", "expose", "store"}
Loaded(g)   == go[g] # NoTask /\ go[g].op = "teardown" /\ go[g].pc \in {"stop", "clean", "forget"}
Known(i, c) == i \in Compose \/ containers[i] \in {0, c}
Quiet(i)    == \A g \in Goroutine : Loaded(g) => go[g].id # i

\* One Handle per preview; building holds exactly those between inFlight's two Adds.
OneHandle == \A g, h \in Goroutine : Handle(g) /\ Handle(h) /\ go[g].id = go[h].id => g = h
Entered   == \A i \in Id : i \in building <=> \E g \in InFlight : go[g].id = i
\* The map has no job of a preview until its Handle stores one, and no Teardown has
\* loaded one meanwhile.
NotYet    == \A g \in Goroutine : Before(g) \/ At(g, "handle", "clean") => jobs[go[g].id] = NoJob
Apart     == \A g, h \in Goroutine : Before(g) /\ Loaded(h) => go[g].id # go[h].id
\* What a Handle has when it gets to a place.
Placed == \A g \in Goroutine :
    /\ \A pc \in {"paused?", "admit", "checkout"} : At(g, "handle", pc) => go[g].out = FALSE
    /\ At(g, "handle", "expose") \/ At(g, "handle", "store") => go[g].out = TRUE /\ go[g].id \in worktrees
    /\ At(g, "handle", "store") => go[g].cid # 0 /\ containers[go[g].id] = go[g].cid
\* A remembered container is the one that is there, or none is.
Remembered ==
    /\ \A i \in Jobs : Known(i, jobs[i].cid)
    /\ \A g \in Goroutine : At(g, "teardown", "stop") => Known(go[g].id, go[g].job.cid)
    /\ \A g \in Goroutine : At(g, "teardown", "clean") \/ At(g, "teardown", "forget")
                               => containers[go[g].id] = 0 \/ go[g].id \in strays
\* A job no Teardown is at has its container and its worktree.
Kept == \A i \in Jobs : Quiet(i) => /\ containers[i] = jobs[i].cid
                                    /\ jobs[i].repo => i \in worktrees
\* A job without a repo is one found at the start.
Found == /\ \A i \in Jobs : jobs[i].repo \/ i \in restored
         /\ \A g \in Goroutine : Loaded(g) => go[g].job # NoJob /\ (go[g].job.repo \/ go[g].id \in restored)
         /\ \A g \in Goroutine : At(g, "teardown", "forget") => go[g].id \notin worktrees \ restored
\* Whose each container, and each worktree, is.
Owned == proc # "down" =>
            \A i \in Id : containers[i] # 0 =>
                \/ i \in strays
                \/ jobs[i] # NoJob
                \/ \E g \in Goroutine : At(g, "handle", "store") /\ go[g].id = i
Tidy == proc # "down" =>
           \A i \in worktrees \ restored :
                \/ jobs[i] # NoJob
                \/ \E g \in Goroutine : Handle(g) /\ go[g].id = i /\ go[g].out = TRUE
Gone == proc = "down" => \A g \in Goroutine : go[g] = NoTask

Inv == /\ TypeOK
       /\ OneHandle /\ Entered /\ NotYet /\ Apart
       /\ Placed /\ Remembered /\ Kept /\ Found
       /\ Owned /\ Tidy /\ Gone

-----------------------------------------------------------------------------
(* What a goroutine's step does to the goroutines. *)

Others(g) == /\ go' \in [Goroutine -> Handling \cup TearingDown \cup {NoTask}]
             /\ \A h \in Goroutine \ {g} : go'[h] = go[h]
Went(g, pc) == /\ Others(g)
               /\ go'[g] # NoTask
               /\ go'[g].op = go[g].op
               /\ go'[g].id = go[g].id
               /\ go'[g].pc = pc
               /\ go[g].op = "handle" => go'[g].cid = go[g].cid /\ go'[g].out = go[g].out
               /\ go[g].op = "teardown" => go'[g].job = go[g].job
Left(g) == Others(g) /\ go'[g] = NoTask

\* Only the goroutine that moves changes, and only its pc.
LEMMA MovedOnly ==
    ASSUME TypeOK, NEW g \in Goroutine, NEW pc, go' = Moved(g, pc), go[g] # NoTask,
           IF go[g].op = "handle"
           THEN pc \in {"admit", "checkout", "expose", "store", "return", "running?", "clean"}
           ELSE pc \in {"stop", "clean", "forget"}
    PROVE  Went(g, pc)
<1> DEFINE r == go[g]
<1>1. r \in Handling \cup TearingDown
  BY DEF TypeOK
<1>2. go' = [go EXCEPT ![g] = [r EXCEPT !.pc = pc]]
  BY DEF TypeOK, Moved
<1>3. CASE r \in Handling
  <2>1. [r EXCEPT !.pc = pc] \in Handling
    BY <1>3 DEF Handling
  <2>2. QED
    BY <1>2, <1>3, <2>1 DEF TypeOK, Handling, Went, Others
<1>4. CASE r \in TearingDown
  <2>1. [r EXCEPT !.pc = pc] \in TearingDown
    BY <1>4 DEF TearingDown
  <2>2. QED
    BY <1>2, <1>4, <2>1 DEF TypeOK, TearingDown, Went, Others
<1>5. QED
  BY <1>1, <1>3, <1>4

LEMMA EndedOnly ==
    ASSUME TypeOK, NEW g \in Goroutine, go' = Ended(g)
    PROVE  Left(g)
BY DEF TypeOK, Ended, Left, Others

\* Every task is of a preview.
LEMMA OfPreviews == ASSUME TypeOK
                    PROVE  \A g \in Goroutine : go[g] # NoTask => go[g].id \in Id
BY DEF TypeOK, Handling, TearingDown

LEMMA InvInit == Init => Inv
BY DEF Init, Inv, TypeOK, OneHandle, Entered, NotYet, Apart, Placed, Remembered, Kept, Found,
       Owned, Tidy, Gone, Handle, Before, Loaded, Known, Quiet, Jobs, InFlight, At

-----------------------------------------------------------------------------
(* One step of every action. *)

LEMMA JobAssignStep ==
    ASSUME Inv, ~Overlap, NEW g \in Goroutine, NEW i \in Id, JobAssign(g, i)
    PROVE  Inv'
<1> DEFINE r == [op |-> "handle", id |-> i, out |-> FALSE, cid |-> 0, pc |-> "paused?"]
<1>1. r \in Handling
  <2>1. r.out \in BOOLEAN /\ r.pc \in {"paused?"} /\ r.cid \in 0..MaxCid
    OBVIOUS
  <2>2. QED
    BY <2>1 DEF Handling
<1>2. Others(g) /\ go'[g] = r /\ r # NoTask /\ go[g] = NoTask
  BY <1>1 DEF JobAssign, Inv, TypeOK, Others
<1>3. \A h \in Goroutine : go[h] # NoTask => go[h].id # i
  BY DEF JobAssign, On
<1>4. TypeOK'
  BY <1>1, <1>2, <1>3
  DEF JobAssign, Others, Inv, TypeOK, At
<1>5. OneHandle'
  BY <1>1, <1>2, <1>3
  DEF JobAssign, Others, Inv, OneHandle, Handle
<1>6. Entered'
  BY <1>1, <1>2, <1>3
  DEF JobAssign, Others, Inv, OneHandle, Entered, Handle, InFlight, At
<1>7. NotYet'
  BY <1>1, <1>2, <1>3
  DEF JobAssign, Others, Inv, OneHandle, NotYet, Handle, Before, At
<1>8. Apart'
  BY <1>1, <1>2, <1>3
  DEF JobAssign, Others, Inv, NotYet, Apart, Handle, Before, Loaded, At
<1>9. Placed'
  BY <1>1, <1>2, <1>3
  DEF JobAssign, Others, Inv, OneHandle, Apart, Placed, Handle, Before, Loaded, At
<1>10. Remembered'
  BY <1>1, <1>2, <1>3
  DEF JobAssign, Others, Inv, NotYet, Apart, Remembered, Known, Jobs, Handle, Before, Loaded, At
<1>11. Kept'
  BY <1>1, <1>2, <1>3
  DEF JobAssign, Others, Inv, OneHandle, NotYet, Apart, Kept, Quiet, Jobs, Handle, Before, Loaded, At
<1>12. Found'
  BY <1>1, <1>2, <1>3
  DEF JobAssign, Others, Inv, NotYet, Apart, Found, Jobs, Handle, Before, Loaded, At
<1>13. Owned'
  BY <1>1, <1>2, <1>3
  DEF JobAssign, Others, Inv, OneHandle, Remembered, Owned, Known, Jobs, Handle, Before, Loaded, At
<1>14. Tidy'
  BY <1>1, <1>2, <1>3
  DEF JobAssign, Others, Inv, OneHandle, Placed, Found, Tidy, Handle, Loaded, At
<1>15. Gone'
  BY <1>1, <1>2, <1>3
  DEF JobAssign, Others, Inv, Gone, At
<1>16. QED
  BY <1>4, <1>5, <1>6, <1>7, <1>8, <1>9, <1>10, <1>11, <1>12, <1>13, <1>14, <1>15 DEF Inv

LEMMA JobTeardownStep ==
    ASSUME Inv, NEW g \in Goroutine, NEW i \in Id, JobTeardown(g, i)
    PROVE  Inv'
<1> DEFINE r == [op |-> "teardown", id |-> i, job |-> NoJob, pc |-> "load"]
<1>1. r \in TearingDown /\ r # NoTask
  BY DEF TearingDown
<1>2. Others(g) /\ go'[g] = r /\ go[g] = NoTask
  BY <1>1 DEF JobTeardown, Inv, TypeOK, Others
<1>3. TypeOK'
  BY <1>1, <1>2
  DEF JobTeardown, Others, Inv, TypeOK, At
<1>4. OneHandle'
  BY <1>1, <1>2
  DEF JobTeardown, Others, Inv, OneHandle, Handle
<1>5. Entered'
  BY <1>1, <1>2
  DEF JobTeardown, Others, Inv, OneHandle, Entered, Handle, InFlight, At
<1>6. NotYet'
  BY <1>1, <1>2
  DEF JobTeardown, Others, Inv, OneHandle, NotYet, Handle, Before, At
<1>7. Apart'
  BY <1>1, <1>2
  DEF JobTeardown, Others, Inv, NotYet, Apart, Handle, Before, Loaded, At
<1>8. Placed'
  BY <1>1, <1>2
  DEF JobTeardown, Others, Inv, OneHandle, Apart, Placed, Handle, Before, Loaded, At
<1>9. Remembered'
  BY <1>1, <1>2
  DEF JobTeardown, Others, Inv, NotYet, Apart, Remembered, Known, Jobs, Handle, Before, Loaded, At
<1>10. Kept'
  BY <1>1, <1>2
  DEF JobTeardown, Others, Inv, OneHandle, NotYet, Apart, Kept, Quiet, Jobs, Handle, Before, Loaded, At
<1>11. Found'
  BY <1>1, <1>2
  DEF JobTeardown, Others, Inv, NotYet, Apart, Found, Jobs, Handle, Before, Loaded, At
<1>12. Owned'
  BY <1>1, <1>2
  DEF JobTeardown, Others, Inv, OneHandle, Remembered, Owned, Known, Jobs, Handle, Before, Loaded, At
<1>13. Tidy'
  BY <1>1, <1>2
  DEF JobTeardown, Others, Inv, OneHandle, Placed, Found, Tidy, Handle, Loaded, At
<1>14. Gone'
  BY <1>1, <1>2
  DEF JobTeardown, Others, Inv, Gone, At
<1>15. QED
  BY <1>3, <1>4, <1>5, <1>6, <1>7, <1>8, <1>9, <1>10, <1>11, <1>12, <1>13, <1>14 DEF Inv

LEMMA CheckPausedStep ==
    ASSUME Inv, NEW g \in Goroutine, CheckPaused(g)
    PROVE  Inv'
<1>1. go[g] # NoTask /\ go[g].op = "handle" /\ go[g].pc = "paused?" /\ TypeOK
  BY DEF CheckPaused, At, Inv
<1>2. go[g].id \in Id /\ go[g].out = FALSE
  BY <1>1 DEF TypeOK, Handling, TearingDown, Inv, Placed, At
<1>3. Went(g, "admit") \/ Left(g)
  BY <1>1, MovedOnly, EndedOnly DEF CheckPaused
<1>4. TypeOK'
  BY <1>1, <1>2, <1>3
  DEF CheckPaused, Went, Left, Others, Inv, TypeOK, At
<1>5. OneHandle'
  BY <1>1, <1>2, <1>3
  DEF CheckPaused, Went, Left, Others, Inv, OneHandle, Handle
<1>6. Entered'
  BY <1>1, <1>2, <1>3
  DEF CheckPaused, Went, Left, Others, Inv, OneHandle, Entered, Handle, InFlight, At
<1>7. NotYet'
  BY <1>1, <1>2, <1>3
  DEF CheckPaused, Went, Left, Others, Inv, OneHandle, NotYet, Handle, Before, At
<1>8. Apart'
  BY <1>1, <1>2, <1>3
  DEF CheckPaused, Went, Left, Others, Inv, NotYet, Apart, Handle, Before, Loaded, At
<1>9. Placed'
  BY <1>1, <1>2, <1>3
  DEF CheckPaused, Went, Left, Others, Inv, OneHandle, Apart, Placed, Handle, Before, Loaded, At
<1>10. Remembered'
  BY <1>1, <1>2, <1>3
  DEF CheckPaused, Went, Left, Others, Inv, NotYet, Apart, Remembered, Known, Jobs, Handle, Before, Loaded, At
<1>11. Kept'
  BY <1>1, <1>2, <1>3
  DEF CheckPaused, Went, Left, Others, Inv, OneHandle, NotYet, Apart, Kept, Quiet, Jobs, Handle, Before, Loaded, At
<1>12. Found'
  BY <1>1, <1>2, <1>3
  DEF CheckPaused, Went, Left, Others, Inv, NotYet, Apart, Found, Jobs, Handle, Before, Loaded, At
<1>13. Owned'
  BY <1>1, <1>2, <1>3
  DEF CheckPaused, Went, Left, Others, Inv, OneHandle, Remembered, Owned, Known, Jobs, Handle, Before, Loaded, At
<1>14. Tidy'
  BY <1>1, <1>2, <1>3
  DEF CheckPaused, Went, Left, Others, Inv, OneHandle, Placed, Found, Tidy, Handle, Loaded, At
<1>15. Gone'
  BY <1>1, <1>2, <1>3
  DEF CheckPaused, Went, Left, Others, Inv, Gone, At
<1>16. QED
  BY <1>4, <1>5, <1>6, <1>7, <1>8, <1>9, <1>10, <1>11, <1>12, <1>13, <1>14, <1>15 DEF Inv

LEMMA AdmitStep ==
    ASSUME Inv, NEW g \in Goroutine, Admit(g)
    PROVE  Inv'
<1>1. go[g] # NoTask /\ go[g].op = "handle" /\ go[g].pc = "admit" /\ TypeOK
  BY DEF Admit, At, Inv
<1>2. go[g].id \in Id
  BY <1>1 DEF TypeOK, Handling, TearingDown
<1>3. Went(g, "checkout")
  BY <1>1, MovedOnly, EndedOnly DEF Admit
<1>4. TypeOK'
  BY <1>1, <1>2, <1>3
  DEF Admit, Went, Others, Inv, TypeOK, At
<1>5. OneHandle'
  BY <1>1, <1>2, <1>3
  DEF Admit, Went, Others, Inv, OneHandle, Handle
<1>6. Entered'
  BY <1>1, <1>2, <1>3
  DEF Admit, Went, Others, Inv, OneHandle, Entered, Handle, InFlight, At
<1>7. NotYet'
  BY <1>1, <1>2, <1>3
  DEF Admit, Went, Others, Inv, OneHandle, NotYet, Handle, Before, At
<1>8. Apart'
  BY <1>1, <1>2, <1>3
  DEF Admit, Went, Others, Inv, NotYet, Apart, Handle, Before, Loaded, At
<1>9. Placed'
  BY <1>1, <1>2, <1>3
  DEF Admit, Went, Others, Inv, OneHandle, Apart, Placed, Handle, Before, Loaded, At
<1>10. Remembered'
  BY <1>1, <1>2, <1>3
  DEF Admit, Went, Others, Inv, NotYet, Apart, Remembered, Known, Jobs, Handle, Before, Loaded, At
<1>11. Kept'
  BY <1>1, <1>2, <1>3
  DEF Admit, Went, Others, Inv, OneHandle, NotYet, Apart, Kept, Quiet, Jobs, Handle, Before, Loaded, At
<1>12. Found'
  BY <1>1, <1>2, <1>3
  DEF Admit, Went, Others, Inv, NotYet, Apart, Found, Jobs, Handle, Before, Loaded, At
<1>13. Owned'
  BY <1>1, <1>2, <1>3
  DEF Admit, Went, Others, Inv, OneHandle, Remembered, Owned, Known, Jobs, Handle, Before, Loaded, At
<1>14. Tidy'
  BY <1>1, <1>2, <1>3
  DEF Admit, Went, Others, Inv, OneHandle, Placed, Found, Tidy, Handle, Loaded, At
<1>15. Gone'
  BY <1>1, <1>2, <1>3
  DEF Admit, Went, Others, Inv, Gone, At
<1>16. QED
  BY <1>4, <1>5, <1>6, <1>7, <1>8, <1>9, <1>10, <1>11, <1>12, <1>13, <1>14, <1>15 DEF Inv

LEMMA StoreJobStep ==
    ASSUME Inv, NEW g \in Goroutine, StoreJob(g)
    PROVE  Inv'
<1> DEFINE j == [cid |-> go[g].cid, repo |-> TRUE]
<1>1. /\ go[g] # NoTask /\ go[g].op = "handle" /\ go[g].pc = "store" /\ TypeOK
      /\ UNCHANGED <<building, containers, worktrees, restored, strays, proc, drain, faults>>
  BY DEF StoreJob, At, Inv
<1>2. /\ go[g].id \in Id /\ go[g].cid \in 1..MaxCid
      /\ containers[go[g].id] = go[g].cid /\ go[g].id \in worktrees
      /\ \A h \in Goroutine : go[h] # NoTask => go[h].id \in Id
  BY <1>1, OfPreviews DEF TypeOK, Handling, TearingDown, Inv, Placed, At
<1>3. Went(g, "return")
  BY <1>1, MovedOnly DEF StoreJob
<1>4. j \in Job /\ j # NoJob /\ j.cid = go[g].cid /\ j.repo = TRUE
  <2>1. j \in Job
    BY <1>2 DEF Job
  <2>2. j.cid = go[g].cid /\ j.repo = TRUE
    OBVIOUS
  <2>3. QED
    BY <2>1, <2>2
<1>5. jobs' = [jobs EXCEPT ![go[g].id] = j]
  BY DEF StoreJob
<1> HIDE DEF j
<1>6. /\ jobs' \in [Id -> Job \cup {NoJob}]
      /\ jobs'[go[g].id] = j
      /\ \A i \in Id \ {go[g].id} : jobs'[i] = jobs[i]
  BY <1>1, <1>2, <1>4, <1>5 DEF TypeOK
<1>7. TypeOK'
  BY <1>1, <1>2, <1>3, <1>4, <1>6
  DEF Went, Others, Inv, TypeOK, At
<1>8. OneHandle'
  BY <1>1, <1>2, <1>3, <1>4, <1>6
  DEF Went, Others, Inv, OneHandle, Handle
<1>9. Entered'
  BY <1>1, <1>2, <1>3, <1>4, <1>6
  DEF Went, Others, Inv, OneHandle, Entered, Handle, InFlight, At
<1>10. NotYet'
  BY <1>1, <1>2, <1>3, <1>4, <1>6
  DEF Went, Others, Inv, OneHandle, NotYet, Handle, Before, At
<1>11. Apart'
  BY <1>1, <1>2, <1>3, <1>4, <1>6
  DEF Went, Others, Inv, NotYet, Apart, Handle, Before, Loaded, At
<1>12. Placed'
  BY <1>1, <1>2, <1>3, <1>4, <1>6
  DEF Went, Others, Inv, OneHandle, Apart, Placed, Handle, Before, Loaded, At
<1>13. Remembered'
  BY <1>1, <1>2, <1>3, <1>4, <1>6
  DEF Went, Others, Inv, NotYet, Apart, Remembered, Known, Jobs, Handle, Before, Loaded, At
<1>14. Kept'
  BY <1>1, <1>2, <1>3, <1>4, <1>6
  DEF Went, Others, Inv, OneHandle, NotYet, Apart, Kept, Quiet, Jobs, Handle, Before, Loaded, At
<1>15. Found'
  BY <1>1, <1>2, <1>3, <1>4, <1>6
  DEF Went, Others, Inv, NotYet, Apart, Found, Jobs, Handle, Before, Loaded, At
<1>16. Owned'
  BY <1>1, <1>2, <1>3, <1>4, <1>6
  DEF Went, Others, Inv, OneHandle, Remembered, Owned, Known, Jobs, Handle, Before, Loaded, At
<1>17. Tidy'
  BY <1>1, <1>2, <1>3, <1>4, <1>6
  DEF Went, Others, Inv, TypeOK, OneHandle, Placed, Found, Tidy, Handle, Loaded, At
<1>18. Gone'
  BY <1>1, <1>2, <1>3, <1>4, <1>6
  DEF Went, Others, Inv, Gone, At
<1>19. QED
  BY <1>7, <1>8, <1>9, <1>10, <1>11, <1>12, <1>13, <1>14, <1>15, <1>16, <1>17, <1>18 DEF Inv

LEMMA ReturnStep ==
    ASSUME Inv, NEW g \in Goroutine, Return(g)
    PROVE  Inv'
<1>1. go[g] # NoTask /\ go[g].op = "handle" /\ go[g].pc = "return" /\ TypeOK
  BY DEF Return, At, Inv
<1>2. go[g].id \in Id
  BY <1>1 DEF TypeOK, Handling, TearingDown
<1>3. Went(g, "running?") \/ (Left(g) /\ go[g].out = FALSE)
  BY <1>1, MovedOnly, EndedOnly DEF Return
<1>4. TypeOK'
  BY <1>1, <1>2, <1>3
  DEF Return, Went, Left, Others, Inv, TypeOK, At
<1>5. OneHandle'
  BY <1>1, <1>2, <1>3
  DEF Return, Went, Left, Others, Inv, OneHandle, Handle
<1>6. Entered'
  BY <1>1, <1>2, <1>3
  DEF Return, Went, Left, Others, Inv, OneHandle, Entered, Handle, InFlight, At
<1>7. NotYet'
  BY <1>1, <1>2, <1>3
  DEF Return, Went, Left, Others, Inv, OneHandle, NotYet, Handle, Before, At
<1>8. Apart'
  BY <1>1, <1>2, <1>3
  DEF Return, Went, Left, Others, Inv, NotYet, Apart, Handle, Before, Loaded, At
<1>9. Placed'
  BY <1>1, <1>2, <1>3
  DEF Return, Went, Left, Others, Inv, OneHandle, Apart, Placed, Handle, Before, Loaded, At
<1>10. Remembered'
  BY <1>1, <1>2, <1>3
  DEF Return, Went, Left, Others, Inv, NotYet, Apart, Remembered, Known, Jobs, Handle, Before, Loaded, At
<1>11. Kept'
  BY <1>1, <1>2, <1>3
  DEF Return, Went, Left, Others, Inv, OneHandle, NotYet, Apart, Kept, Quiet, Jobs, Handle, Before, Loaded, At
<1>12. Found'
  BY <1>1, <1>2, <1>3
  DEF Return, Went, Left, Others, Inv, NotYet, Apart, Found, Jobs, Handle, Before, Loaded, At
<1>13. Owned'
  BY <1>1, <1>2, <1>3
  DEF Return, Went, Left, Others, Inv, OneHandle, Remembered, Owned, Known, Jobs, Handle, Before, Loaded, At
<1>14. Tidy'
  BY <1>1, <1>2, <1>3
  DEF Return, Went, Left, Others, Inv, OneHandle, Placed, Found, Tidy, Handle, Loaded, At
<1>15. Gone'
  BY <1>1, <1>2, <1>3
  DEF Return, Went, Left, Others, Inv, Gone, At
<1>16. QED
  BY <1>4, <1>5, <1>6, <1>7, <1>8, <1>9, <1>10, <1>11, <1>12, <1>13, <1>14, <1>15 DEF Inv

LEMMA CheckRunningStep ==
    ASSUME Inv, NEW g \in Goroutine, CheckRunning(g)
    PROVE  Inv'
<1>1. go[g] # NoTask /\ go[g].op = "handle" /\ go[g].pc = "running?" /\ TypeOK
  BY DEF CheckRunning, At, Inv
<1>2. go[g].id \in Id
  BY <1>1 DEF TypeOK, Handling, TearingDown
<1>3. (Went(g, "clean") /\ jobs[go[g].id] = NoJob) \/ (Left(g) /\ jobs[go[g].id] # NoJob)
  BY <1>1, MovedOnly, EndedOnly DEF CheckRunning
<1>4. TypeOK'
  BY <1>1, <1>2, <1>3
  DEF CheckRunning, Went, Left, Others, Inv, TypeOK, At
<1>5. OneHandle'
  BY <1>1, <1>2, <1>3
  DEF CheckRunning, Went, Left, Others, Inv, OneHandle, Handle
<1>6. Entered'
  BY <1>1, <1>2, <1>3
  DEF CheckRunning, Went, Left, Others, Inv, OneHandle, Entered, Handle, InFlight, At
<1>7. NotYet'
  BY <1>1, <1>2, <1>3
  DEF CheckRunning, Went, Left, Others, Inv, OneHandle, NotYet, Handle, Before, At
<1>8. Apart'
  BY <1>1, <1>2, <1>3
  DEF CheckRunning, Went, Left, Others, Inv, NotYet, Apart, Handle, Before, Loaded, At
<1>9. Placed'
  BY <1>1, <1>2, <1>3
  DEF CheckRunning, Went, Left, Others, Inv, OneHandle, Apart, Placed, Handle, Before, Loaded, At
<1>10. Remembered'
  <2>1. UNCHANGED <<jobs, containers, strays>>
    BY DEF CheckRunning
  <2>2. \A h \in Goroutine : At(h, "teardown", "stop")' \/ At(h, "teardown", "clean")' \/ At(h, "teardown", "forget")'
                              => go'[h] = go[h]
    BY <1>1, <1>3 DEF Went, Left, Others, At
  <2>3. QED
    BY <2>1, <2>2 DEF Inv, Remembered, Known, Jobs, At
<1>11. Kept'
  BY <1>1, <1>2, <1>3
  DEF CheckRunning, Went, Left, Others, Inv, OneHandle, NotYet, Apart, Kept, Quiet, Jobs, Handle, Before, Loaded, At
<1>12. Found'
  BY <1>1, <1>2, <1>3
  DEF CheckRunning, Went, Left, Others, Inv, NotYet, Apart, Found, Jobs, Handle, Before, Loaded, At
<1>13. Owned'
  BY <1>1, <1>2, <1>3
  DEF CheckRunning, Went, Left, Others, Inv, OneHandle, Remembered, Owned, Known, Jobs, Handle, Before, Loaded, At
<1>14. Tidy'
  BY <1>1, <1>2, <1>3
  DEF CheckRunning, Went, Left, Others, Inv, OneHandle, Placed, Found, Tidy, Handle, Loaded, At
<1>15. Gone'
  BY <1>1, <1>2, <1>3
  DEF CheckRunning, Went, Left, Others, Inv, Gone, At
<1>16. QED
  BY <1>4, <1>5, <1>6, <1>7, <1>8, <1>9, <1>10, <1>11, <1>12, <1>13, <1>14, <1>15 DEF Inv

LEMMA CleanStep ==
    ASSUME Inv, NEW g \in Goroutine, Clean(g)
    PROVE  Inv'
<1>1. go[g] # NoTask /\ go[g].op = "handle" /\ go[g].pc = "clean" /\ TypeOK
  BY DEF Clean, At, Inv
<1>2. go[g].id \in Id
  BY <1>1 DEF TypeOK, Handling, TearingDown
<1>3. Left(g)
  BY <1>1, MovedOnly, EndedOnly DEF Clean
<1>4. TypeOK'
  BY <1>1, <1>2, <1>3
  DEF Clean, Left, Others, Inv, TypeOK, At
<1>5. OneHandle'
  BY <1>1, <1>2, <1>3
  DEF Clean, Left, Others, Inv, OneHandle, Handle
<1>6. Entered'
  BY <1>1, <1>2, <1>3
  DEF Clean, Left, Others, Inv, OneHandle, Entered, Handle, InFlight, At
<1>7. NotYet'
  BY <1>1, <1>2, <1>3
  DEF Clean, Left, Others, Inv, OneHandle, NotYet, Handle, Before, At
<1>8. Apart'
  BY <1>1, <1>2, <1>3
  DEF Clean, Left, Others, Inv, NotYet, Apart, Handle, Before, Loaded, At
<1>9. Placed'
  BY <1>1, <1>2, <1>3
  DEF Clean, Left, Others, Inv, OneHandle, Apart, Placed, Handle, Before, Loaded, At
<1>10. Remembered'
  BY <1>1, <1>2, <1>3
  DEF Clean, Left, Others, Inv, NotYet, Apart, Remembered, Known, Jobs, Handle, Before, Loaded, At
<1>11. Kept'
  BY <1>1, <1>2, <1>3
  DEF Clean, Left, Others, Inv, OneHandle, NotYet, Apart, Kept, Quiet, Jobs, Handle, Before, Loaded, At
<1>12. Found'
  BY <1>1, <1>2, <1>3
  DEF Clean, Left, Others, Inv, NotYet, Apart, Found, Jobs, Handle, Before, Loaded, At
<1>13. Owned'
  BY <1>1, <1>2, <1>3
  DEF Clean, Left, Others, Inv, OneHandle, Remembered, Owned, Known, Jobs, Handle, Before, Loaded, At
<1>14. Tidy'
  BY <1>1, <1>2, <1>3
  DEF Clean, Left, Others, Inv, OneHandle, Placed, Found, Tidy, Handle, Loaded, At
<1>15. Gone'
  BY <1>1, <1>2, <1>3
  DEF Clean, Left, Others, Inv, Gone, At
<1>16. QED
  BY <1>4, <1>5, <1>6, <1>7, <1>8, <1>9, <1>10, <1>11, <1>12, <1>13, <1>14, <1>15 DEF Inv

LEMMA StopStep ==
    ASSUME Inv, NEW g \in Goroutine, Stop(g)
    PROVE  Inv'
<1>1. /\ go[g] # NoTask /\ go[g].op = "teardown" /\ go[g].pc = "stop" /\ TypeOK
      /\ UNCHANGED <<jobs, building, worktrees, restored, proc, drain, faults>>
  BY DEF Stop, At, Inv
<1>2. go[g].id \in Id /\ \A h \in Goroutine : go[h] # NoTask => go[h].id \in Id
  BY <1>1, OfPreviews
<1>3. Went(g, "clean")
  BY <1>1, MovedOnly DEF Stop
<1>4. /\ strays' \subseteq Id /\ strays' \ {go[g].id} = strays \ {go[g].id}
      /\ containers' \in [Id -> 0..MaxCid]
      /\ \A i \in Id \ {go[g].id} : containers'[i] = containers[i]
      /\ containers'[go[g].id] \in {0, containers[go[g].id]}
  BY <1>1, <1>2 DEF Stop, TypeOK
<1>5. containers'[go[g].id] = 0 \/ go[g].id \in strays'
  BY <1>1, <1>2 DEF Stop, TypeOK, Inv, Remembered, Known, At
<1>6. TypeOK'
  BY <1>1, <1>2, <1>3, <1>4, <1>5
  DEF Went, Others, Inv, TypeOK, At
<1>7. OneHandle'
  BY <1>1, <1>2, <1>3, <1>4, <1>5
  DEF Went, Others, Inv, OneHandle, Handle
<1>8. Entered'
  BY <1>1, <1>2, <1>3, <1>4, <1>5
  DEF Went, Others, Inv, OneHandle, Entered, Handle, InFlight, At
<1>9. NotYet'
  BY <1>1, <1>2, <1>3, <1>4, <1>5
  DEF Went, Others, Inv, OneHandle, NotYet, Handle, Before, At
<1>10. Apart'
  BY <1>1, <1>2, <1>3, <1>4, <1>5
  DEF Went, Others, Inv, NotYet, Apart, Handle, Before, Loaded, At
<1>11. Placed'
  BY <1>1, <1>2, <1>3, <1>4, <1>5
  DEF Went, Others, Inv, OneHandle, Apart, Placed, Handle, Before, Loaded, At
<1>12. Remembered'
  BY <1>1, <1>2, <1>3, <1>4, <1>5
  DEF Went, Others, Inv, NotYet, Apart, Remembered, Known, Jobs, Handle, Before, Loaded, At
<1>13. Kept'
  BY <1>1, <1>2, <1>3, <1>4, <1>5
  DEF Went, Others, Inv, OneHandle, NotYet, Apart, Kept, Quiet, Jobs, Handle, Before, Loaded, At
<1>14. Found'
  BY <1>1, <1>2, <1>3, <1>4, <1>5
  DEF Went, Others, Inv, NotYet, Apart, Found, Jobs, Handle, Before, Loaded, At
<1>15. Owned'
  BY <1>1, <1>2, <1>3, <1>4, <1>5
  DEF Went, Others, Inv, OneHandle, Remembered, Owned, Known, Jobs, Handle, Before, Loaded, At
<1>16. Tidy'
  BY <1>1, <1>2, <1>3, <1>4, <1>5
  DEF Went, Others, Inv, OneHandle, Placed, Found, Tidy, Handle, Loaded, At
<1>17. Gone'
  BY <1>1, <1>2, <1>3, <1>4, <1>5
  DEF Went, Others, Inv, Gone, At
<1>18. QED
  BY <1>6, <1>7, <1>8, <1>9, <1>10, <1>11, <1>12, <1>13, <1>14, <1>15, <1>16, <1>17 DEF Inv

LEMMA RemoveWorktreeStep ==
    ASSUME Inv, NEW g \in Goroutine, RemoveWorktree(g)
    PROVE  Inv'
<1>1. go[g] # NoTask /\ go[g].op = "teardown" /\ go[g].pc = "clean" /\ TypeOK
  BY DEF RemoveWorktree, At, Inv
<1>2. go[g].id \in Id
  BY <1>1 DEF TypeOK, Handling, TearingDown
<1>3. Went(g, "forget")
  BY <1>1, MovedOnly, EndedOnly DEF RemoveWorktree
<1>4. TypeOK'
  BY <1>1, <1>2, <1>3
  DEF RemoveWorktree, Went, Others, Inv, TypeOK, At
<1>5. OneHandle'
  BY <1>1, <1>2, <1>3
  DEF RemoveWorktree, Went, Others, Inv, OneHandle, Handle
<1>6. Entered'
  BY <1>1, <1>2, <1>3
  DEF RemoveWorktree, Went, Others, Inv, OneHandle, Entered, Handle, InFlight, At
<1>7. NotYet'
  BY <1>1, <1>2, <1>3
  DEF RemoveWorktree, Went, Others, Inv, OneHandle, NotYet, Handle, Before, At
<1>8. Apart'
  BY <1>1, <1>2, <1>3
  DEF RemoveWorktree, Went, Others, Inv, NotYet, Apart, Handle, Before, Loaded, At
<1>9. Placed'
  BY <1>1, <1>2, <1>3
  DEF RemoveWorktree, Went, Others, Inv, OneHandle, Apart, Placed, Handle, Before, Loaded, At
<1>10. Remembered'
  BY <1>1, <1>2, <1>3
  DEF RemoveWorktree, Went, Others, Inv, NotYet, Apart, Remembered, Known, Jobs, Handle, Before, Loaded, At
<1>11. Kept'
  BY <1>1, <1>2, <1>3
  DEF RemoveWorktree, Went, Others, Inv, OneHandle, NotYet, Apart, Kept, Quiet, Jobs, Handle, Before, Loaded, At
<1>12. Found'
  BY <1>1, <1>2, <1>3
  DEF RemoveWorktree, Went, Others, Inv, NotYet, Apart, Found, Jobs, Handle, Before, Loaded, At
<1>13. Owned'
  BY <1>1, <1>2, <1>3
  DEF RemoveWorktree, Went, Others, Inv, OneHandle, Remembered, Owned, Known, Jobs, Handle, Before, Loaded, At
<1>14. Tidy'
  BY <1>1, <1>2, <1>3
  DEF RemoveWorktree, Went, Others, Inv, OneHandle, Placed, Found, Tidy, Handle, Loaded, At
<1>15. Gone'
  BY <1>1, <1>2, <1>3
  DEF RemoveWorktree, Went, Others, Inv, Gone, At
<1>16. QED
  BY <1>4, <1>5, <1>6, <1>7, <1>8, <1>9, <1>10, <1>11, <1>12, <1>13, <1>14, <1>15 DEF Inv

LEMMA ForgetStep ==
    ASSUME Inv, NEW g \in Goroutine, Forget(g)
    PROVE  Inv'
<1>1. /\ go[g] # NoTask /\ go[g].op = "teardown" /\ go[g].pc = "forget" /\ TypeOK
      /\ UNCHANGED <<building, containers, worktrees, restored, strays, proc, drain, faults>>
  BY DEF Forget, At, Inv
<1>2. \A h \in Goroutine : go[h] # NoTask => go[h].id \in Id
  BY <1>1, OfPreviews
<1>3. Left(g)
  BY <1>1, EndedOnly DEF Forget
<1>4. /\ jobs' \in [Id -> Job \cup {NoJob}]
      /\ jobs'[go[g].id] = NoJob
      /\ \A i \in Id \ {go[g].id} : jobs'[i] = jobs[i]
  BY <1>1, <1>2 DEF Forget, TypeOK
<1>5. TypeOK'
  BY <1>1, <1>2, <1>3, <1>4
  DEF Left, Others, Inv, TypeOK, At
<1>6. OneHandle'
  BY <1>1, <1>2, <1>3, <1>4
  DEF Left, Others, Inv, OneHandle, Handle
<1>7. Entered'
  BY <1>1, <1>2, <1>3, <1>4
  DEF Left, Others, Inv, OneHandle, Entered, Handle, InFlight, At
<1>8. NotYet'
  BY <1>1, <1>2, <1>3, <1>4
  DEF Left, Others, Inv, OneHandle, NotYet, Handle, Before, At
<1>9. Apart'
  BY <1>1, <1>2, <1>3, <1>4
  DEF Left, Others, Inv, NotYet, Apart, Handle, Before, Loaded, At
<1>10. Placed'
  BY <1>1, <1>2, <1>3, <1>4
  DEF Left, Others, Inv, OneHandle, Apart, Placed, Handle, Before, Loaded, At
<1>11. Remembered'
  BY <1>1, <1>2, <1>3, <1>4
  DEF Left, Others, Inv, NotYet, Apart, Remembered, Known, Jobs, Handle, Before, Loaded, At
<1>12. Kept'
  BY <1>1, <1>2, <1>3, <1>4
  DEF Left, Others, Inv, OneHandle, NotYet, Apart, Kept, Quiet, Jobs, Handle, Before, Loaded, At
<1>13. Found'
  BY <1>1, <1>2, <1>3, <1>4
  DEF Left, Others, Inv, NotYet, Apart, Found, Jobs, Handle, Before, Loaded, At
<1>14. Owned'
  BY <1>1, <1>2, <1>3, <1>4
  DEF Left, Others, Inv, OneHandle, Remembered, Owned, Known, Jobs, Handle, Before, Loaded, At
<1>15. Tidy'
  BY <1>1, <1>2, <1>3, <1>4
  DEF Left, Others, Inv, TypeOK, OneHandle, Placed, Found, Tidy, Handle, Loaded, At
<1>16. Gone'
  BY <1>1, <1>2, <1>3, <1>4
  DEF Left, Others, Inv, Gone, At
<1>17. QED
  BY <1>5, <1>6, <1>7, <1>8, <1>9, <1>10, <1>11, <1>12, <1>13, <1>14, <1>15, <1>16 DEF Inv

LEMMA CheckoutStep ==
    ASSUME Inv, NEW g \in Goroutine, Checkout(g)
    PROVE  Inv'
<1> DEFINE r == go[g]
           out == [r EXCEPT !.pc = "expose", !.out = TRUE]
<1>1. r \in Handling /\ r # NoTask /\ r.op = "handle" /\ r.pc = "checkout" /\ r.id \in Id /\ TypeOK
      /\ UNCHANGED <<jobs, building, containers, restored, strays, proc, drain, faults>>
  BY DEF Checkout, At, Inv, TypeOK, TearingDown, Handling
<1>2. CASE go' = Moved(g, "return") /\ worktrees' \in {worktrees, worktrees \ {r.id}}
  <2>1. Went(g, "return")
    BY <1>1, <1>2, MovedOnly
  <2>2. TypeOK'
    BY <1>1, <1>2, <2>1
    DEF Went, Others, Inv, TypeOK, At
  <2>3. OneHandle'
    BY <1>1, <1>2, <2>1
    DEF Went, Others, Inv, OneHandle, Handle
  <2>4. Entered'
    BY <1>1, <1>2, <2>1
    DEF Went, Others, Inv, OneHandle, Entered, Handle, InFlight, At
  <2>5. NotYet'
    BY <1>1, <1>2, <2>1
    DEF Went, Others, Inv, OneHandle, NotYet, Handle, Before, At
  <2>6. Apart'
    BY <1>1, <1>2, <2>1
    DEF Went, Others, Inv, NotYet, Apart, Handle, Before, Loaded, At
  <2>7. Placed'
    BY <1>1, <1>2, <2>1
    DEF Went, Others, Inv, OneHandle, Apart, Placed, Handle, Before, Loaded, At
  <2>8. Remembered'
    BY <1>1, <1>2, <2>1
    DEF Went, Others, Inv, NotYet, Apart, Remembered, Known, Jobs, Handle, Before, Loaded, At
  <2>9. Kept'
    BY <1>1, <1>2, <2>1
    DEF Went, Others, Inv, OneHandle, NotYet, Apart, Kept, Quiet, Jobs, Handle, Before, Loaded, At
  <2>10. Found'
    BY <1>1, <1>2, <2>1
    DEF Went, Others, Inv, NotYet, Apart, Found, Jobs, Handle, Before, Loaded, At
  <2>11. Owned'
    BY <1>1, <1>2, <2>1
    DEF Went, Others, Inv, OneHandle, Remembered, Owned, Known, Jobs, Handle, Before, Loaded, At
  <2>12. Tidy'
    BY <1>1, <1>2, <2>1
    DEF Went, Others, Inv, OneHandle, Placed, Found, Tidy, Handle, Loaded, At
  <2>13. Gone'
    BY <1>1, <1>2, <2>1
    DEF Went, Others, Inv, Gone, At
  <2>14. QED
    BY <2>2, <2>3, <2>4, <2>5, <2>6, <2>7, <2>8, <2>9, <2>10, <2>11, <2>12, <2>13 DEF Inv
<1>3. CASE go' = [go EXCEPT ![g].pc = "expose", ![g].out = TRUE] /\ worktrees' = worktrees \cup {r.id}
  <2>1. /\ out \in Handling /\ out.pc = "expose" /\ out.id = r.id /\ out.op = "handle"
        /\ out.out = TRUE /\ out.cid = r.cid
    BY <1>1 DEF Handling
  <2>2. go' = [go EXCEPT ![g] = out]
    BY <1>1, <1>3 DEF TypeOK
  <2>3. Others(g) /\ go'[g] = out /\ out # NoTask
    BY <1>1, <2>1, <2>2 DEF TypeOK, Others
  <2> HIDE DEF out
  <2>4. TypeOK'
    BY <1>1, <1>3, <2>1, <2>3
    DEF Others, Inv, TypeOK, At
  <2>5. OneHandle'
    BY <1>1, <1>3, <2>1, <2>3
    DEF Others, Inv, OneHandle, Handle
  <2>6. Entered'
    <3>1. InFlight' = InFlight /\ g \in InFlight
      BY <1>1, <2>1, <2>3 DEF Others, InFlight, At
    <3>2. \A h \in InFlight : go'[h].id = go[h].id
      BY <1>1, <2>1, <2>3 DEF Others, InFlight
    <3>3. QED
      BY <1>1, <3>1, <3>2 DEF Inv, Entered
  <2>7. NotYet'
    BY <1>1, <1>3, <2>1, <2>3
    DEF Others, Inv, OneHandle, NotYet, Handle, Before, At
  <2>8. Apart'
    BY <1>1, <1>3, <2>1, <2>3
    DEF Others, Inv, NotYet, Apart, Handle, Before, Loaded, At
  <2>9. Placed'
    BY <1>1, <1>3, <2>1, <2>3
    DEF Others, Inv, OneHandle, Apart, Placed, Handle, Before, Loaded, At
  <2>10. Remembered'
    BY <1>1, <1>3, <2>1, <2>3
    DEF Others, Inv, NotYet, Apart, Remembered, Known, Jobs, Handle, Before, Loaded, At
  <2>11. Kept'
    BY <1>1, <1>3, <2>1, <2>3
    DEF Others, Inv, OneHandle, NotYet, Apart, Kept, Quiet, Jobs, Handle, Before, Loaded, At
  <2>12. Found'
    BY <1>1, <1>3, <2>1, <2>3
    DEF Others, Inv, NotYet, Apart, Found, Jobs, Handle, Before, Loaded, At
  <2>13. Owned'
    BY <1>1, <1>3, <2>1, <2>3
    DEF Others, Inv, OneHandle, Remembered, Owned, Known, Jobs, Handle, Before, Loaded, At
  <2>14. Tidy'
    <3>1. \A h \in Goroutine : Handle(h) => /\ Handle(h)' /\ go'[h].id = go[h].id
                                            /\ go[h].out = TRUE => go'[h].out = TRUE
      BY <1>1, <2>1, <2>3 DEF Others, Handle
    <3>2. Handle(g)' /\ go'[g].id = r.id /\ go'[g].out = TRUE
      BY <1>1, <2>1, <2>3 DEF Others, Handle
    <3>3. ASSUME proc' # "down", NEW i \in worktrees' \ restored', jobs'[i] = NoJob
          PROVE  \E h \in Goroutine : (Handle(h))' /\ go'[h].id = i /\ go'[h].out = TRUE
      <4>1. CASE i = r.id
        BY <3>2, <4>1
      <4>2. CASE i # r.id
        <5>1. PICK h \in Goroutine : Handle(h) /\ go[h].id = i /\ go[h].out = TRUE
          BY <1>1, <1>3, <3>3, <4>2 DEF Inv, Tidy
        <5>2. QED
          BY <3>1, <5>1
      <4>3. QED
        BY <4>1, <4>2
    <3>4. QED
      BY <3>3 DEF Tidy
  <2>15. Gone'
    BY <1>1, <1>3, <2>1, <2>3
    DEF Others, Inv, Gone, At
  <2>16. QED
    BY <2>4, <2>5, <2>6, <2>7, <2>8, <2>9, <2>10, <2>11, <2>12, <2>13, <2>14, <2>15 DEF Inv
<1>4. QED
  BY <1>2, <1>3 DEF Checkout

LEMMA LoadStep ==
    ASSUME Inv, NEW g \in Goroutine, Load(g)
    PROVE  Inv'
<1> DEFINE r == go[g]
           in == [r EXCEPT !.pc = "stop", !.job = jobs[r.id]]
<1>1. r \in TearingDown /\ r # NoTask /\ r.op = "teardown" /\ r.pc = "load" /\ r.id \in Id /\ TypeOK
  BY DEF Load, At, Inv, TypeOK, Handling, TearingDown
<1>2. CASE jobs[r.id] = NoJob
  <2>1. Left(g)
    BY <1>1, <1>2, EndedOnly DEF Load
  <2>2. TypeOK'
    BY <1>1, <2>1
    DEF Load, Left, Others, Inv, TypeOK, At
  <2>3. OneHandle'
    BY <1>1, <2>1
    DEF Load, Left, Others, Inv, OneHandle, Handle
  <2>4. Entered'
    BY <1>1, <2>1
    DEF Load, Left, Others, Inv, OneHandle, Entered, Handle, InFlight, At
  <2>5. NotYet'
    BY <1>1, <2>1
    DEF Load, Left, Others, Inv, OneHandle, NotYet, Handle, Before, At
  <2>6. Apart'
    BY <1>1, <2>1
    DEF Load, Left, Others, Inv, NotYet, Apart, Handle, Before, Loaded, At
  <2>7. Placed'
    BY <1>1, <2>1
    DEF Load, Left, Others, Inv, OneHandle, Apart, Placed, Handle, Before, Loaded, At
  <2>8. Remembered'
    <3>1. UNCHANGED <<jobs, containers, strays>>
      BY DEF Load
    <3>2. \A h \in Goroutine : go'[h] # NoTask => go'[h] = go[h]
      BY <1>1, <2>1 DEF Left, Others
    <3>3. QED
      BY <3>1, <3>2 DEF Inv, Remembered, Known, Jobs, At
  <2>9. Kept'
    BY <1>1, <2>1
    DEF Load, Left, Others, Inv, OneHandle, NotYet, Apart, Kept, Quiet, Jobs, Handle, Before, Loaded, At
  <2>10. Found'
    BY <1>1, <2>1
    DEF Load, Left, Others, Inv, NotYet, Apart, Found, Jobs, Handle, Before, Loaded, At
  <2>11. Owned'
    BY <1>1, <2>1
    DEF Load, Left, Others, Inv, OneHandle, Remembered, Owned, Known, Jobs, Handle, Before, Loaded, At
  <2>12. Tidy'
    BY <1>1, <2>1
    DEF Load, Left, Others, Inv, OneHandle, Placed, Found, Tidy, Handle, Loaded, At
  <2>13. Gone'
    BY <1>1, <2>1
    DEF Load, Left, Others, Inv, Gone, At
  <2>14. QED
    BY <2>2, <2>3, <2>4, <2>5, <2>6, <2>7, <2>8, <2>9, <2>10, <2>11, <2>12, <2>13 DEF Inv
<1>3. CASE jobs[r.id] # NoJob
  <2>1. /\ in \in TearingDown /\ in.pc = "stop" /\ in.id = r.id /\ in.op = "teardown"
        /\ in.job = jobs[r.id]
    BY <1>1 DEF TearingDown, TypeOK
  <2>2. go' = [go EXCEPT ![g] = in]
    BY <1>1, <1>3 DEF Load, TypeOK
  <2>3. Others(g) /\ go'[g] = in /\ in # NoTask
    BY <1>1, <2>1, <2>2 DEF TypeOK, Others
  <2> HIDE DEF in
  <2>4. TypeOK'
    BY <1>1, <1>3, <2>1, <2>3
    DEF Load, Others, Inv, TypeOK, At
  <2>5. OneHandle'
    BY <1>1, <1>3, <2>1, <2>3
    DEF Load, Others, Inv, OneHandle, Handle
  <2>6. Entered'
    BY <1>1, <1>3, <2>1, <2>3
    DEF Load, Others, Inv, OneHandle, Entered, Handle, InFlight, At
  <2>7. NotYet'
    BY <1>1, <1>3, <2>1, <2>3
    DEF Load, Others, Inv, OneHandle, NotYet, Handle, Before, At
  <2>8. Apart'
    BY <1>1, <1>3, <2>1, <2>3
    DEF Load, Others, Inv, NotYet, Apart, Handle, Before, Loaded, At
  <2>9. Placed'
    BY <1>1, <1>3, <2>1, <2>3
    DEF Load, Others, Inv, OneHandle, Apart, Placed, Handle, Before, Loaded, At
  <2>10. Remembered'
    BY <1>1, <1>3, <2>1, <2>3
    DEF Load, Others, Inv, NotYet, Apart, Remembered, Known, Jobs, Handle, Before, Loaded, At
  <2>11. Kept'
    BY <1>1, <1>3, <2>1, <2>3
    DEF Load, Others, Inv, OneHandle, NotYet, Apart, Kept, Quiet, Jobs, Handle, Before, Loaded, At
  <2>12. Found'
    BY <1>1, <1>3, <2>1, <2>3
    DEF Load, Others, Inv, NotYet, Apart, Found, Jobs, Handle, Before, Loaded, At
  <2>13. Owned'
    BY <1>1, <1>3, <2>1, <2>3
    DEF Load, Others, Inv, OneHandle, Remembered, Owned, Known, Jobs, Handle, Before, Loaded, At
  <2>14. Tidy'
    BY <1>1, <1>3, <2>1, <2>3
    DEF Load, Others, Inv, OneHandle, Placed, Found, Tidy, Handle, Loaded, At
  <2>15. Gone'
    BY <1>1, <1>3, <2>1, <2>3
    DEF Load, Others, Inv, Gone, At
  <2>16. QED
    BY <2>4, <2>5, <2>6, <2>7, <2>8, <2>9, <2>10, <2>11, <2>12, <2>13, <2>14, <2>15 DEF Inv
<1>4. QED
  BY <1>2, <1>3

LEMMA ExposeStep ==
    ASSUME Inv, NEW g \in Goroutine, Expose(g)
    PROVE  Inv'
<1> DEFINE r == go[g]
<1>1. r \in Handling /\ r # NoTask /\ r.op = "handle" /\ r.pc = "expose" /\ r.id \in Id /\ TypeOK
      /\ r.out = TRUE /\ r.id \in worktrees
      /\ UNCHANGED <<jobs, building, worktrees, restored, proc, drain, faults>>
  BY DEF Placed, Expose, At, Inv, TypeOK, TearingDown, Handling
<1>2. CASE go' = Moved(g, "return") /\ UNCHANGED <<containers, strays>>
  <2>1. Went(g, "return")
    BY <1>1, <1>2, MovedOnly
  <2>2. TypeOK'
    BY <1>1, <1>2, <2>1
    DEF Went, Others, Inv, TypeOK, At
  <2>3. OneHandle'
    BY <1>1, <1>2, <2>1
    DEF Went, Others, Inv, OneHandle, Handle
  <2>4. Entered'
    BY <1>1, <1>2, <2>1
    DEF Went, Others, Inv, OneHandle, Entered, Handle, InFlight, At
  <2>5. NotYet'
    BY <1>1, <1>2, <2>1
    DEF Went, Others, Inv, OneHandle, NotYet, Handle, Before, At
  <2>6. Apart'
    BY <1>1, <1>2, <2>1
    DEF Went, Others, Inv, NotYet, Apart, Handle, Before, Loaded, At
  <2>7. Placed'
    BY <1>1, <1>2, <2>1
    DEF Went, Others, Inv, OneHandle, Apart, Placed, Handle, Before, Loaded, At
  <2>8. Remembered'
    BY <1>1, <1>2, <2>1
    DEF Went, Others, Inv, NotYet, Apart, Remembered, Known, Jobs, Handle, Before, Loaded, At
  <2>9. Kept'
    BY <1>1, <1>2, <2>1
    DEF Went, Others, Inv, OneHandle, NotYet, Apart, Kept, Quiet, Jobs, Handle, Before, Loaded, At
  <2>10. Found'
    BY <1>1, <1>2, <2>1
    DEF Went, Others, Inv, NotYet, Apart, Found, Jobs, Handle, Before, Loaded, At
  <2>11. Owned'
    BY <1>1, <1>2, <2>1
    DEF Went, Others, Inv, OneHandle, Remembered, Owned, Known, Jobs, Handle, Before, Loaded, At
  <2>12. Tidy'
    BY <1>1, <1>2, <2>1
    DEF Went, Others, Inv, OneHandle, Placed, Found, Tidy, Handle, Loaded, At
  <2>13. Gone'
    BY <1>1, <1>2, <2>1
    DEF Went, Others, Inv, Gone, At
  <2>14. QED
    BY <2>2, <2>3, <2>4, <2>5, <2>6, <2>7, <2>8, <2>9, <2>10, <2>11, <2>12, <2>13 DEF Inv
<1>3. ASSUME NEW c \in 1..MaxCid, r.id \in Compose \/ containers[r.id] = 0,
             containers' = [containers EXCEPT ![r.id] = c],
             go' = Moved(g, "return"), strays' = strays \cup {r.id}
      PROVE  Inv'
  <2>1. Went(g, "return")
    BY <1>1, <1>3, MovedOnly
  <2>2. containers' \in [Id -> 0..MaxCid] /\ containers'[r.id] = c
        /\ \A i \in Id \ {r.id} : containers'[i] = containers[i]
    BY <1>1, <1>3 DEF TypeOK
  <2>3. TypeOK'
    BY <1>1, <1>3, <2>1, <2>2
    DEF Went, Others, Inv, TypeOK, At
  <2>4. OneHandle'
    BY <1>1, <1>3, <2>1, <2>2
    DEF Went, Others, Inv, OneHandle, Handle
  <2>5. Entered'
    BY <1>1, <1>3, <2>1, <2>2
    DEF Went, Others, Inv, OneHandle, Entered, Handle, InFlight, At
  <2>6. NotYet'
    BY <1>1, <1>3, <2>1, <2>2
    DEF Went, Others, Inv, OneHandle, NotYet, Handle, Before, At
  <2>7. Apart'
    BY <1>1, <1>3, <2>1, <2>2
    DEF Went, Others, Inv, NotYet, Apart, Handle, Before, Loaded, At
  <2>8. Placed'
    BY <1>1, <1>3, <2>1, <2>2
    DEF Went, Others, Inv, OneHandle, Apart, Placed, Handle, Before, Loaded, At
  <2>9. Remembered'
    BY <1>1, <1>3, <2>1, <2>2
    DEF Went, Others, Inv, NotYet, Apart, Remembered, Known, Jobs, Handle, Before, Loaded, At
  <2>10. Kept'
    BY <1>1, <1>3, <2>1, <2>2
    DEF Went, Others, Inv, OneHandle, NotYet, Apart, Kept, Quiet, Jobs, Handle, Before, Loaded, At
  <2>11. Found'
    BY <1>1, <1>3, <2>1, <2>2
    DEF Went, Others, Inv, NotYet, Apart, Found, Jobs, Handle, Before, Loaded, At
  <2>12. Owned'
    BY <1>1, <1>3, <2>1, <2>2
    DEF Went, Others, Inv, OneHandle, Remembered, Owned, Known, Jobs, Handle, Before, Loaded, At
  <2>13. Tidy'
    BY <1>1, <1>3, <2>1, <2>2
    DEF Went, Others, Inv, OneHandle, Placed, Found, Tidy, Handle, Loaded, At
  <2>14. Gone'
    BY <1>1, <1>3, <2>1, <2>2
    DEF Went, Others, Inv, Gone, At
  <2>15. QED
    BY <2>3, <2>4, <2>5, <2>6, <2>7, <2>8, <2>9, <2>10, <2>11, <2>12, <2>13, <2>14 DEF Inv
<1>4. ASSUME NEW c \in 1..MaxCid,
             containers' = [containers EXCEPT ![r.id] = c],
             go' = [go EXCEPT ![g].pc = "store", ![g].cid = c], strays' = strays \ {r.id}
      PROVE  Inv'
  <2> DEFINE out == [r EXCEPT !.pc = "store", !.cid = c]
  <2>1. /\ out \in Handling /\ out.pc = "store" /\ out.id = r.id /\ out.op = "handle"
        /\ out.cid = c /\ out.out = TRUE
    <3>1. c \in 0..MaxCid
      OBVIOUS
    <3>2. out \in Handling
      BY <1>1, <3>1 DEF Handling
    <3>3. QED
      BY <1>1, <3>2 DEF Handling
  <2>2. go' = [go EXCEPT ![g] = out]
    BY <1>1, <1>4 DEF TypeOK
  <2>3. Others(g) /\ go'[g] = out /\ out # NoTask
    BY <1>1, <2>1, <2>2 DEF TypeOK, Others
  <2>4. c # 0 /\ containers' \in [Id -> 0..MaxCid] /\ containers'[r.id] = c
        /\ \A i \in Id \ {r.id} : containers'[i] = containers[i]
    BY <1>1, <1>4 DEF TypeOK
  <2> HIDE DEF out
  <2>5. TypeOK'
    BY <1>1, <1>4, <2>1, <2>3, <2>4
    DEF Others, Inv, TypeOK, At
  <2>6. OneHandle'
    BY <1>1, <1>4, <2>1, <2>3, <2>4
    DEF Others, Inv, OneHandle, Handle
  <2>7. Entered'
    <3>1. InFlight' = InFlight /\ g \in InFlight
      BY <1>1, <2>1, <2>3 DEF Others, InFlight, At
    <3>2. \A h \in InFlight : go'[h].id = go[h].id
      BY <1>1, <2>1, <2>3 DEF Others, InFlight
    <3>3. QED
      BY <1>1, <3>1, <3>2 DEF Inv, Entered
  <2>8. NotYet'
    BY <1>1, <1>4, <2>1, <2>3, <2>4
    DEF Others, Inv, OneHandle, NotYet, Handle, Before, At
  <2>9. Apart'
    BY <1>1, <1>4, <2>1, <2>3, <2>4
    DEF Others, Inv, NotYet, Apart, Handle, Before, Loaded, At
  <2>10. Placed'
    BY <1>1, <1>4, <2>1, <2>3, <2>4
    DEF Others, Inv, OneHandle, Apart, Placed, Handle, Before, Loaded, At
  <2>11. Remembered'
    BY <1>1, <1>4, <2>1, <2>3, <2>4
    DEF Others, Inv, NotYet, Apart, Remembered, Known, Jobs, Handle, Before, Loaded, At
  <2>12. Kept'
    BY <1>1, <1>4, <2>1, <2>3, <2>4
    DEF Others, Inv, OneHandle, NotYet, Apart, Kept, Quiet, Jobs, Handle, Before, Loaded, At
  <2>13. Found'
    BY <1>1, <1>4, <2>1, <2>3, <2>4
    DEF Others, Inv, NotYet, Apart, Found, Jobs, Handle, Before, Loaded, At
  <2>14. Owned'
    <3>1. At(g, "handle", "store")' /\ go'[g].id = r.id
      BY <2>1, <2>3 DEF At
    <3>2. \A h \in Goroutine : At(h, "handle", "store") => At(h, "handle", "store")' /\ go'[h].id = go[h].id
      BY <1>1, <2>3 DEF Others, At
    <3>3. ASSUME proc' # "down", NEW i \in Id, containers'[i] # 0, i \notin strays', jobs'[i] = NoJob
          PROVE  \E h \in Goroutine : At(h, "handle", "store")' /\ go'[h].id = i
      <4>1. CASE i = r.id
        BY <3>1, <4>1
      <4>2. CASE i # r.id
        <5>1. PICK h \in Goroutine : At(h, "handle", "store") /\ go[h].id = i
          BY <1>1, <1>4, <2>4, <3>3, <4>2 DEF Inv, Owned
        <5>2. QED
          BY <3>2, <5>1
      <4>3. QED
        BY <4>1, <4>2
    <3>4. QED
      BY <3>3 DEF Owned
  <2>15. Tidy'
    <3>1. \A h \in Goroutine : Handle(h) => /\ Handle(h)' /\ go'[h].id = go[h].id
                                            /\ go[h].out = TRUE => go'[h].out = TRUE
      BY <1>1, <2>1, <2>3 DEF Others, Handle
    <3>2. Handle(g)' /\ go'[g].id = r.id /\ go'[g].out = TRUE
      BY <1>1, <2>1, <2>3 DEF Others, Handle
    <3>3. ASSUME proc' # "down", NEW i \in worktrees' \ restored', jobs'[i] = NoJob
          PROVE  \E h \in Goroutine : (Handle(h))' /\ go'[h].id = i /\ go'[h].out = TRUE
      <4>1. CASE i = r.id
        BY <3>2, <4>1
      <4>2. CASE i # r.id
        <5>1. PICK h \in Goroutine : Handle(h) /\ go[h].id = i /\ go[h].out = TRUE
          BY <1>1, <1>4, <3>3, <4>2 DEF Inv, Tidy
        <5>2. QED
          BY <3>1, <5>1
      <4>3. QED
        BY <4>1, <4>2
    <3>4. QED
      BY <3>3 DEF Tidy
  <2>16. Gone'
    BY <1>1, <1>4, <2>1, <2>3, <2>4
    DEF Others, Inv, Gone, At
  <2>17. QED
    BY <2>5, <2>6, <2>7, <2>8, <2>9, <2>10, <2>11, <2>12, <2>13, <2>14, <2>15, <2>16 DEF Inv
<1>5. QED
  BY <1>2, <1>3, <1>4 DEF Expose

LEMMA ProcessStep ==
    ASSUME Inv, Sigterm \/ Pause \/ Drained \/ UNCHANGED vars
    PROVE  Inv'
<1>1. TypeOK'
  BY
  DEF Sigterm, Pause, Drained, Fault, vars, Inv, TypeOK, At
<1>2. OneHandle'
  BY
  DEF Sigterm, Pause, Drained, Fault, vars, Inv, OneHandle, Handle
<1>3. Entered'
  BY
  DEF Sigterm, Pause, Drained, Fault, vars, Inv, OneHandle, Entered, Handle, InFlight, At
<1>4. NotYet'
  BY
  DEF Sigterm, Pause, Drained, Fault, vars, Inv, OneHandle, NotYet, Handle, Before, At
<1>5. Apart'
  BY
  DEF Sigterm, Pause, Drained, Fault, vars, Inv, NotYet, Apart, Handle, Before, Loaded, At
<1>6. Placed'
  BY
  DEF Sigterm, Pause, Drained, Fault, vars, Inv, OneHandle, Apart, Placed, Handle, Before, Loaded, At
<1>7. Remembered'
  BY
  DEF Sigterm, Pause, Drained, Fault, vars, Inv, NotYet, Apart, Remembered, Known, Jobs, Handle, Before, Loaded, At
<1>8. Kept'
  BY
  DEF Sigterm, Pause, Drained, Fault, vars, Inv, OneHandle, NotYet, Apart, Kept, Quiet, Jobs, Handle, Before, Loaded, At
<1>9. Found'
  BY
  DEF Sigterm, Pause, Drained, Fault, vars, Inv, NotYet, Apart, Found, Jobs, Handle, Before, Loaded, At
<1>10. Owned'
  BY
  DEF Sigterm, Pause, Drained, Fault, vars, Inv, OneHandle, Remembered, Owned, Known, Jobs, Handle, Before, Loaded, At
<1>11. Tidy'
  BY
  DEF Sigterm, Pause, Drained, Fault, vars, Inv, OneHandle, Placed, Found, Tidy, Handle, Loaded, At
<1>12. Gone'
  BY
  DEF Sigterm, Pause, Drained, Fault, vars, Inv, Gone, At
<1>13. QED
  BY <1>1, <1>2, <1>3, <1>4, <1>5, <1>6, <1>7, <1>8, <1>9, <1>10, <1>11, <1>12 DEF Inv

LEMMA ExitedStep ==
    ASSUME Inv, Exit \/ Crash
    PROVE  Inv'
<1>1. Exited /\ TypeOK /\ (UNCHANGED faults \/ Fault)
  BY DEF Exit, Crash, Inv
<1>2. TypeOK'
  BY <1>1
  DEF Exited, Fault, Inv, TypeOK, At
<1>3. OneHandle'
  BY <1>1
  DEF Exited, Fault, Inv, OneHandle, Handle
<1>4. Entered'
  BY <1>1
  DEF Exited, Fault, Inv, OneHandle, Entered, Handle, InFlight, At
<1>5. NotYet'
  BY <1>1
  DEF Exited, Fault, Inv, OneHandle, NotYet, Handle, Before, At
<1>6. Apart'
  BY <1>1
  DEF Exited, Fault, Inv, NotYet, Apart, Handle, Before, Loaded, At
<1>7. Placed'
  BY <1>1
  DEF Exited, Fault, Inv, OneHandle, Apart, Placed, Handle, Before, Loaded, At
<1>8. Remembered'
  BY <1>1
  DEF Exited, Fault, Inv, NotYet, Apart, Remembered, Known, Jobs, Handle, Before, Loaded, At
<1>9. Kept'
  BY <1>1
  DEF Exited, Fault, Inv, OneHandle, NotYet, Apart, Kept, Quiet, Jobs, Handle, Before, Loaded, At
<1>10. Found'
  BY <1>1
  DEF Exited, Fault, Inv, NotYet, Apart, Found, Jobs, Handle, Before, Loaded, At
<1>11. Owned'
  BY <1>1
  DEF Exited, Fault, Inv, OneHandle, Remembered, Owned, Known, Jobs, Handle, Before, Loaded, At
<1>12. Tidy'
  BY <1>1
  DEF Exited, Fault, Inv, OneHandle, Placed, Found, Tidy, Handle, Loaded, At
<1>13. Gone'
  BY <1>1
  DEF Exited, Fault, Inv, Gone, At
<1>14. QED
  BY <1>2, <1>3, <1>4, <1>5, <1>6, <1>7, <1>8, <1>9, <1>10, <1>11, <1>12, <1>13 DEF Inv

LEMMA StartStep ==
    ASSUME Inv, Start
    PROVE  Inv'
<1>1. PICK found \in {Labelled, {}}, kept \in SUBSET {i \in Compose : containers[i] # 0} :
        /\ RestoreOrphans(found)
        /\ PruneStaleWorktrees(found)
        /\ PruneComposeOrphans(kept)
        /\ strays' = (Labelled \ found) \cup kept
  BY DEF Start
<1>2. TypeOK /\ found \subseteq Labelled /\ Labelled \subseteq Id \ Compose /\ kept \subseteq Compose
      /\ Compose \subseteq Id
  BY DEF Inv, Labelled
<1>3. \A g \in Goroutine : go'[g] = NoTask
  BY DEF Start, Inv, Gone
<1>4. \A i \in found : /\ jobs'[i] \in Job /\ jobs'[i] # NoJob
                        /\ jobs'[i].cid = containers[i] /\ jobs'[i].repo = FALSE
  <2> SUFFICES ASSUME NEW i \in found
               PROVE  /\ jobs'[i] \in Job /\ jobs'[i] # NoJob
                      /\ jobs'[i].cid = containers[i] /\ jobs'[i].repo = FALSE
    OBVIOUS
  <2>1. containers[i] \in 1..MaxCid /\ i \in Id
    BY <1>2 DEF TypeOK, Labelled
  <2>2. jobs'[i] = [cid |-> containers[i], repo |-> FALSE]
    BY <1>1, <2>1 DEF RestoreOrphans
  <2>3. jobs'[i] \in Job
    BY <2>1, <2>2 DEF Job
  <2>4. jobs'[i].cid = containers[i] /\ jobs'[i].repo = FALSE
    BY <2>2
  <2>5. QED
    BY <2>3, <2>4
<1>5. /\ jobs' \in [Id -> Job \cup {NoJob}]
      /\ \A i \in Id \ found : jobs'[i] = NoJob
  <2>1. \A i \in Id : jobs'[i] = IF i \in found THEN [cid |-> containers[i], repo |-> FALSE] ELSE NoJob
    BY <1>1 DEF RestoreOrphans
  <2>2. \A i \in Id : jobs'[i] \in Job \cup {NoJob}
    BY <1>4, <2>1
  <2>3. QED
    BY <1>1, <2>1, <2>2 DEF RestoreOrphans
<1>6. /\ containers' \in [Id -> 0..MaxCid]
      /\ \A i \in Id : containers'[i] = IF i \in Compose \ kept THEN 0 ELSE containers[i]
  BY <1>1, <1>2 DEF PruneComposeOrphans, TypeOK
<1>7. /\ worktrees' \subseteq found /\ restored' = found /\ strays' \subseteq Id
      /\ proc' = "up" /\ go' = go /\ building' = building /\ drain' = drain /\ faults' = faults
  BY <1>1, <1>2 DEF RestoreOrphans, PruneStaleWorktrees, Start
<1>8. TypeOK'
  BY <1>2, <1>3, <1>4, <1>5, <1>6, <1>7
  DEF Start, Inv, TypeOK, At
<1>9. OneHandle'
  BY <1>2, <1>3, <1>4, <1>5, <1>6, <1>7
  DEF Start, Inv, OneHandle, Handle
<1>10. Entered'
  BY <1>3, <1>7 DEF Start, Inv, Entered, Gone, InFlight, At
<1>11. NotYet'
  BY <1>2, <1>3, <1>4, <1>5, <1>6, <1>7
  DEF Start, Inv, OneHandle, NotYet, Handle, Before, At
<1>12. Apart'
  BY <1>2, <1>3, <1>4, <1>5, <1>6, <1>7
  DEF Start, Inv, NotYet, Apart, Handle, Before, Loaded, At
<1>13. Placed'
  BY <1>2, <1>3, <1>4, <1>5, <1>6, <1>7
  DEF Start, Inv, OneHandle, Apart, Placed, Handle, Before, Loaded, At
<1>14. Remembered'
  BY <1>2, <1>3, <1>4, <1>5, <1>6, <1>7
  DEF Start, Inv, NotYet, Apart, Remembered, Known, Jobs, Handle, Before, Loaded, At
<1>15. Kept'
  BY <1>2, <1>3, <1>4, <1>5, <1>6, <1>7
  DEF Start, Inv, OneHandle, NotYet, Apart, Kept, Quiet, Jobs, Handle, Before, Loaded, At
<1>16. Found'
  BY <1>2, <1>3, <1>4, <1>5, <1>6, <1>7
  DEF Start, Inv, NotYet, Apart, Found, Jobs, Handle, Before, Loaded, At
<1>17. Owned'
  <2>1. ASSUME NEW i \in Id, containers'[i] # 0
        PROVE  i \in strays' \/ jobs'[i] # NoJob
    BY <1>1, <1>2, <1>4, <1>6, <2>1 DEF Labelled
  <2>2. QED
    BY <2>1 DEF Owned
<1>18. Tidy'
  BY <1>4, <1>7 DEF Tidy
<1>19. Gone'
  BY <1>2, <1>3, <1>4, <1>5, <1>6, <1>7
  DEF Start, Inv, Gone, At
<1>20. QED
  BY <1>8, <1>9, <1>10, <1>11, <1>12, <1>13, <1>14, <1>15, <1>16, <1>17, <1>18, <1>19 DEF Inv

-----------------------------------------------------------------------------

LEMMA InvStep == ~Overlap /\ Inv /\ [Next]_vars => Inv'
BY JobAssignStep, JobTeardownStep, CheckPausedStep, AdmitStep, CheckoutStep, ExposeStep,
   StoreJobStep, ReturnStep, CheckRunningStep, CleanStep, LoadStep, StopStep,
   RemoveWorktreeStep, ForgetStep, ProcessStep, ExitedStep, StartStep DEF Next

\* Every step of every goroutine, at any moment of the process, keeps the types.
THEOREM RunnerTypes == ASSUME ~Overlap
                       PROVE  Spec => []TypeOK
<1>1. Inv => TypeOK
  BY DEF Inv
<1>2. ~Overlap /\ Inv /\ [Next]_vars => Inv'
  BY InvStep
<1>3. QED
  BY <1>1, <1>2, InvInit, PTL DEF Spec

\* For any number of previews and goroutines, and whatever docker commands fail:
\* whenever the agent connects, its HELLO names all it builds and every preview
\* that has a container on it, but for those a failed command has left behind.
THEOREM HelloIsComplete == ASSUME ~Overlap
                           PROVE  Spec => []HelloComplete
<1>1. Inv => HelloComplete
  <2> SUFFICES ASSUME Inv
               PROVE  HelloComplete
    OBVIOUS
  <2>1. ASSUME NEW g \in InFlight
        PROVE  go[g].id \in Id /\ go[g].id \in building
    BY <2>1 DEF Inv, TypeOK, Entered, InFlight, At, Handling, TearingDown
  <2>2. BuildsNamed
    BY <2>1 DEF BuildsNamed, RunningPreviewIDs
  <2>3. ASSUME proc # "down", NEW i \in Id, containers[i] # 0
        PROVE  i \in RunningPreviewIDs \cup strays
    <3>1. CASE i \in strays \/ jobs[i] # NoJob
      BY <3>1 DEF RunningPreviewIDs, Jobs
    <3>2. CASE \E g \in Goroutine : At(g, "handle", "store") /\ go[g].id = i
      BY <2>1, <3>2 DEF InFlight, RunningPreviewIDs
    <3>3. QED
      BY <2>3, <3>1, <3>2 DEF Inv, Owned
  <2>4. QED
    BY <2>2, <2>3 DEF HelloComplete
<1>2. ~Overlap /\ Inv /\ [Next]_vars => Inv'
  BY InvStep
<1>3. QED
  BY <1>1, <1>2, InvInit, PTL DEF Spec

\* When all goroutines of an agent are done, whatever failed in whatever order, the
\* jobs map, Docker and the disk agree.
THEOREM NothingIsLeaked == ASSUME ~Overlap
                           PROVE  Spec => []NothingLeaked
<1>1. Inv => NothingLeaked
  <2> SUFFICES ASSUME Inv, proc = "up", \A g \in Goroutine : go[g] = NoTask
               PROVE  /\ building = {}
                      /\ \A i \in Jobs : containers[i] = jobs[i].cid
                      /\ \A i \in Jobs : jobs[i].repo => i \in worktrees
                      /\ worktrees \ restored \subseteq Jobs
    BY DEF NothingLeaked
  <2>1. building = {}
    BY DEF Inv, TypeOK, Entered, InFlight, At
  <2>2. \A i \in Jobs : containers[i] = jobs[i].cid /\ (jobs[i].repo => i \in worktrees)
    BY DEF Inv, Kept, Quiet, Loaded
  <2>3. worktrees \ restored \subseteq Jobs
    BY DEF Inv, TypeOK, Tidy, Handle, Jobs
  <2>4. QED
    BY <2>1, <2>2, <2>3
<1>2. ~Overlap /\ Inv /\ [Next]_vars => Inv'
  BY InvStep
<1>3. QED
  BY <1>1, <1>2, InvInit, PTL DEF Spec
=============================================================================
