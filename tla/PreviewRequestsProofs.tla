------------------------ MODULE PreviewRequestsProofs ------------------------
(***************************************************************************)
(* What holds of PreviewRequests for every set of previews, pull requests  *)
(* and handlers: its types, that the rows live as PreviewLifecycle says,   *)
(* and, when heads are new commits and no two handlers are at work on the  *)
(* same pull request, what the webhooks promise of a pull request.         *)
(***************************************************************************)
EXTENDS PreviewRequests, PreviewsTheory, SequenceTheorems

LEMMA TheOnes == TheRepo \in Repo /\ TheBranch \in Branch
BY RequestsAssumption DEF TheRepo, TheBranch

LEMMA NoFieldsType == NoFields \in Fields
BY DEF NoFields, Fields

LEMMA TaskOf ==
    ASSUME NEW t \in Task
    PROVE  /\ t # Idle
           /\ t.event \in Event
           /\ t.step \in {"supersede", "close", "requeue"} => t.id \in Id
           /\ t.step = "requeue" => t.from \in Statuses
<1>1. t # Idle
  BY IdleIsNoTask
<1>2. QED
  BY <1>1 DEF Task

LEMMA DraftType ==
    ASSUME NEW e \in Event
    PROVE  DraftOf(e) \in Draft
<1>1. (e.action = "test build") \in BOOLEAN
  OBVIOUS
<1> DEFINE b == e.action = "test build"
           r == [repo |-> TheRepo, pr |-> e.pr, branch |-> TheBranch, labels |-> {},
                 adhoc |-> b, sha |-> e.sha]
<1>2. b \in BOOLEAN
  OBVIOUS
<1> HIDE DEF b
<1>3. r \in Draft
  BY <1>2, TheOnes DEF Draft, Event
<1>4. QED
  BY <1>3 DEF DraftOf, b

-----------------------------------------------------------------------------
(* Types. *)

\* The ways a handler goes on.
LEMMA GoesOn ==
    ASSUME TypeOK, NEW w \in Worker, NEW t \in Task \cup {Idle},
           task' = [task EXCEPT ![w] = t]
    PROVE  task' \in [Worker -> Task \cup {Idle}]
BY DEF TypeOK

LEMMA StepType ==
    ASSUME TypeOK, NEW w \in Worker, task[w] # Idle
    PROVE  /\ \A s \in {"find active", "upsert", "find newest", "find adhoc"} :
                 [step |-> s, event |-> task[w].event] \in Task
           /\ \A s \in {"supersede", "close"}, i \in Id :
                 [step |-> s, event |-> task[w].event, id |-> i] \in Task
           /\ \A i \in Id, s \in Statuses :
                 [step |-> "requeue", event |-> task[w].event, id |-> i, from |-> s] \in Task
<1>1. task[w].event \in Event
  BY TaskOf DEF TypeOK
<1>2. QED
  BY <1>1 DEF Task

LEMMA TypeInit == Init => TypeOK
<1> SUFFICES ASSUME Init PROVE TypeOK
  OBVIOUS
<1>1. Blank \in Row
  BY DEF Blank, Row
<1>2. rows \in [Id -> Row]
  BY <1>1 DEF Init
<1>3. deliveries \in [PullRequest -> Seq(Event)]
  BY EmptySeq DEF Init
<1>4. QED
  BY <1>2, <1>3, RequestsAssumption DEF Init, TypeOK

LEMMA TypeStep == TypeOK /\ [Next]_vars => TypeOK'
<1> SUFFICES ASSUME TypeOK, [Next]_vars PROVE TypeOK'
  OBVIOUS
<1> USE DEF github
<1>0. rows \in Tables
  BY DEF TypeOK, Tables
<1>1. ASSUME NEW p \in PullRequest, NEW action \in Action, NEW sha \in Sha,
             Send(p, action, sha)
      PROVE  deliveries' \in [PullRequest -> Seq(Event)] /\ sent' \in 0..MaxEvents
  <2> DEFINE e == [action |-> action, pr |-> p, sha |-> sha]
  <2>1. e \in Event
    BY DEF Event, PullRequest
  <2>2. deliveries[p] \in Seq(Event)
    BY DEF TypeOK
  <2> HIDE DEF e
  <2>3. Append(deliveries[p], e) \in Seq(Event)
    BY <2>1, <2>2, AppendProperties
  <2>4. deliveries' = [deliveries EXCEPT ![p] = Append(deliveries[p], e)]
    BY <1>1 DEF Send, e
  <2>5. deliveries' \in [PullRequest -> Seq(Event)]
    BY <2>3, <2>4 DEF TypeOK
  <2>6. sent' \in 0..MaxEvents
    BY <1>1, RequestsAssumption DEF Send, TypeOK
  <2>7. QED
    BY <2>5, <2>6
<1>2. ASSUME NEW p \in PullRequest, NEW sha \in Sha,
             OpenPR(p, sha) \/ Push(p, sha) \/ ReopenPR(p, sha)
      PROVE  TypeOK'
  <2>1. \E action \in Action : Send(p, action, sha)
    BY <1>2 DEF OpenPR, Push, ReopenPR, Action
  <2>2. deliveries' \in [PullRequest -> Seq(Event)] /\ sent' \in 0..MaxEvents
    BY <1>1, <2>1
  <2>3. /\ rows' = rows /\ task' = task
        /\ open' \in [PullRequest -> BOOLEAN] /\ head' \in [PullRequest -> Sha \cup {NULL}]
    BY <1>2 DEF OpenPR, Push, ReopenPR, TypeOK
  <2>4. QED
    BY <2>2, <2>3 DEF TypeOK
<1>3. ASSUME NEW p \in PullRequest, ClosePR(p)
      PROVE  TypeOK'
  <2> DEFINE e == [action |-> "closed", pr |-> p, sha |-> head[p]]
  <2>1. e \in Event
    BY DEF Event, PullRequest, Action, TypeOK
  <2>2. deliveries[p] \in Seq(Event)
    BY DEF TypeOK
  <2>3. deliveries' = [deliveries EXCEPT ![p] = Append(deliveries[p], e)]
    BY <1>3 DEF ClosePR, Send
  <2> HIDE DEF e
  <2>4. Append(deliveries[p], e) \in Seq(Event)
    BY <2>1, <2>2, AppendProperties
  <2>5. deliveries' \in [PullRequest -> Seq(Event)]
    BY <2>3, <2>4 DEF TypeOK
  <2>6. sent' \in 0..MaxEvents
    BY <1>3, RequestsAssumption DEF ClosePR, Send, TypeOK
  <2>7. QED
    BY <1>3, <2>5, <2>6 DEF ClosePR, TypeOK
<1>4. ASSUME NEW w \in Worker, NEW sha \in Sha \cup {NULL}, TestBuild(w, sha)
      PROVE  TypeOK'
  <2> DEFINE t == [step |-> "find adhoc",
                   event |-> [action |-> "test build", pr |-> NoPR, sha |-> sha]]
  <2>1. t \in Task
    BY RequestsAssumption DEF Task, Event, Action
  <2>2. task' = [task EXCEPT ![w] = t]
    BY <1>4 DEF TestBuild
  <2> HIDE DEF t
  <2>3. task' \in [Worker -> Task \cup {Idle}]
    BY <2>1, <2>2, GoesOn
  <2>4. sent' \in 0..MaxEvents
    <3>1. sent < MaxEvents /\ sent' = sent + 1
      BY <1>4 DEF TestBuild
    <3>2. QED
      BY <3>1, RequestsAssumption DEF TypeOK
  <2>5. QED
    BY <1>4, <2>3, <2>4 DEF TestBuild, TypeOK
<1>5. ASSUME NEW w \in Worker, NEW p \in PullRequest, Receive(w, p)
      PROVE  TypeOK'
  <2> DEFINE e == Head(deliveries[p])
             s == CASE e.action = "synchronize" -> "find active"
                    [] e.action = "closed"      -> "find newest"
                    [] OTHER                    -> "upsert"
             t == [step |-> s, event |-> e]
  <2>1. e \in Event /\ Tail(deliveries[p]) \in Seq(Event)
    BY <1>5, HeadTailProperties DEF Receive, TypeOK
  <2>2. s \in {"find active", "find newest", "upsert"}
    OBVIOUS
  <2>3. task' = [task EXCEPT ![w] = t]
    BY <1>5 DEF Receive
  <2>4. deliveries' = [deliveries EXCEPT ![p] = Tail(deliveries[p])]
    BY <1>5 DEF Receive
  <2>5. t \in Task
    <3> HIDE DEF e, s
    <3>1. QED
      BY <2>1, <2>2 DEF Task
  <2> HIDE DEF t
  <2>6. task' \in [Worker -> Task \cup {Idle}]
    BY <2>3, <2>5, GoesOn
  <2>7. deliveries' \in [PullRequest -> Seq(Event)]
    BY <2>1, <2>4 DEF TypeOK
  <2>8. QED
    BY <1>5, <2>6, <2>7 DEF Receive, TypeOK
<1>6. ASSUME NEW w \in Worker, FindActive(w) \/ FindNewest(w) \/ FindAdhoc(w)
      PROVE  TypeOK'
  <2>1. task[w] # Idle
    BY <1>6 DEF FindActive, FindNewest, FindAdhoc, Step
  <2>2. task' \in [Worker -> Task \cup {Idle}]
    <3>1. CASE FindActive(w)
      <4> DEFINE S == OfPR(rows, TheRepo, task[w].event.pr) \cap WithStatus(rows, ActiveStatuses)
                 i == Newest(rows, S)
      <4>1. i # NULL => i \in Id
        <5>1. S \subseteq Id
          BY DEF WithStatus
        <5> HIDE DEF S
        <5>2. CASE S = {}
          BY <5>2 DEF Newest
        <5>3. CASE S # {}
          BY <1>0, <5>1, <5>3, NewestFound
        <5>4. QED
          BY <5>2, <5>3
      <4>2. (i \in Id /\ About(w, "supersede", i)) \/ Go(w, "upsert")
        BY <3>1, <4>1 DEF FindActive, GetActiveByRepoAndPR
      <4> HIDE DEF i
      <4>3. QED
        BY <2>1, <4>2, StepType, GoesOn DEF Go, About
    <3>2. CASE FindNewest(w)
      <4> DEFINE S == OfPR(rows, TheRepo, task[w].event.pr)
                 i == Newest(rows, S)
      <4>1. i # NULL => i \in Id
        <5>1. S \subseteq Id
          BY DEF OfPR, Existing
        <5> HIDE DEF S
        <5>2. CASE S = {}
          BY <5>2 DEF Newest
        <5>3. CASE S # {}
          BY <1>0, <5>1, <5>3, NewestFound
        <5>4. QED
          BY <5>2, <5>3
      <4>2. (i \in Id /\ About(w, "close", i)) \/ Done(w)
        BY <3>2, <4>1 DEF FindNewest
      <4> HIDE DEF i
      <4>3. QED
        BY <2>1, <4>2, StepType, GoesOn DEF Done, About
    <3>3. CASE FindAdhoc(w)
      <4> DEFINE S == {i \in Existing(rows) : /\ rows[i].adhoc /\ rows[i].repo = TheRepo
                                              /\ rows[i].branch = TheBranch}
                 i == Newest(rows, S)
      <4>1. i # NULL => i \in Id
        <5>1. S \subseteq Id
          BY DEF Existing
        <5> HIDE DEF S
        <5>2. CASE S = {}
          BY <5>2 DEF Newest
        <5>3. CASE S # {}
          BY <1>0, <5>1, <5>3, NewestFound
        <5>4. QED
          BY <5>2, <5>3
      <4>2. \/ i \in Id /\ rows[i].status \in Statuses /\ From(w, "requeue", i, rows[i].status)
            \/ Go(w, "upsert")
            \/ Done(w)
        BY <3>3, <4>1 DEF FindAdhoc, FindAdhocByBranch, Statuses
      <4> HIDE DEF i
      <4>3. QED
        BY <2>1, <4>2, StepType, GoesOn DEF Go, From, Done
    <3>4. QED
      BY <1>6, <3>1, <3>2, <3>3
  <2>3. QED
    BY <1>6, <2>2 DEF FindActive, FindNewest, FindAdhoc, TypeOK
<1>7. ASSUME NEW w \in Worker, Supersede(w) \/ Requeue(w) \/ Close(w)
      PROVE  TypeOK'
  <2>1. task[w] # Idle /\ task[w].id \in Id
    BY <1>7, TaskOf DEF Supersede, Requeue, Close, Step, TypeOK
  <2>2. \A to \in Statuses : Updated(rows, task[w].id, to, NoFields) \in Tables
    BY <1>0, <2>1, NoFieldsType, UpdatedType
  <2>3. rows' \in Tables
    BY <1>0, <1>7, <2>2 DEF Supersede, Requeue, Close, Statuses
  <2>4. Go(w, "upsert") \/ Done(w)
    BY <1>7 DEF Supersede, Requeue, Close
  <2>5. task' \in [Worker -> Task \cup {Idle}]
    BY <2>1, <2>4, StepType, GoesOn DEF Go, Done
  <2>6. QED
    BY <1>7, <2>3, <2>5 DEF Supersede, Requeue, Close, TypeOK, Tables
<1>8. ASSUME NEW w \in Worker, NEW i \in Id, UpsertNew(w, i) \/ UpsertSame(w, i)
      PROVE  TypeOK'
  <2>1. task[w] # Idle /\ DraftOf(task[w].event) \in Draft
    BY <1>8, TaskOf, DraftType DEF UpsertNew, UpsertSame, Step, TypeOK
  <2>2. rows' \in Tables
    BY <1>0, <1>8, <2>1, InsertedType, MergedType DEF UpsertNew, UpsertSame
  <2>3. Done(w) \/ (rows[i].status \in Statuses /\ From(w, "requeue", i, rows[i].status))
    <3>1. CASE UpsertNew(w, i)
      BY <3>1 DEF UpsertNew
    <3>2. CASE UpsertSame(w, i)
      BY <3>2 DEF UpsertSame, Statuses
    <3>3. QED
      BY <1>8, <3>1, <3>2
  <2>4. task' \in [Worker -> Task \cup {Idle}]
    BY <2>1, <2>3, StepType, GoesOn DEF Done, From
  <2>5. QED
    BY <1>8, <2>2, <2>4 DEF UpsertNew, UpsertSame, TypeOK, Tables
<1>9. ASSUME NEW i \in Id, NEW a \in Agent, Claim(i, a)
      PROVE  TypeOK'
  BY <1>0, <1>9, ClaimedType DEF Claim, TypeOK, Tables
<1>10. ASSUME NEW i \in Id, Report(i)
       PROVE  TypeOK'
  <2>1. PICK f \in Fields, s \in Statuses : rows' = Updated(rows, i, s, f)
    <3>1. PICK a \in Agent \cup {NULL}, sha \in Sha \cup {NULL}, s \in {"running", "failed", "done"} :
             rows' = Updated(rows, i, s, [sha |-> sha, agent |-> a, urls |-> s = "running"])
      BY <1>10 DEF Report
    <3> DEFINE u == s = "running"
               f == [sha |-> sha, agent |-> a, urls |-> u]
    <3>2. u \in BOOLEAN
      OBVIOUS
    <3>3. rows' = Updated(rows, i, s, f)
      BY <3>1
    <3> HIDE DEF u
    <3>4. f \in Fields
      BY <3>2 DEF Fields
    <3> HIDE DEF f
    <3>5. QED
      BY <3>3, <3>4 DEF Statuses
  <2>2. rows' \in Tables
    BY <1>0, <2>1, UpdatedType
  <2>3. QED
    BY <1>10, <2>2 DEF Report, TypeOK, Tables
<1>11. ASSUME UNCHANGED vars
       PROVE  TypeOK'
  BY <1>11 DEF vars, TypeOK
<1>12. QED
  BY <1>2, <1>3, <1>4, <1>5, <1>6, <1>7, <1>8, <1>9, <1>10, <1>11 DEF Next

\* The variables of PreviewRequests keep their types: in particular a query that
\* finds a row finds the id of one, whatever order the requests come in.
THEOREM TypeCorrect == Spec => []TypeOK
BY TypeInit, TypeStep, PTL DEF Spec

-----------------------------------------------------------------------------
(* The rows live as PreviewLifecycle says. *)

\* The row a transaction is about exists, and what is queued again had ended
\* when it was read.
TasksKnow == \A w \in Worker :
    /\ Step(w, "supersede") \/ Step(w, "close") \/ Step(w, "requeue") => Exists(rows, task[w].id)
    /\ Step(w, "requeue") => task[w].from \in {"done", "failed"}

\* Rows are never deleted.
LEMMA NeverDeleted ==
    ASSUME TypeOK, [Next]_vars
    PROVE  \A i \in Id : Exists(rows, i) => Exists(rows', i)
<1>0. rows \in Tables
  BY DEF TypeOK, Tables
<1>1. ASSUME NEW i \in Id, NEW to \in Statuses, NEW f, rows' = Updated(rows, i, to, f)
      PROVE  \A j \in Id : Exists(rows, j) => Exists(rows', j)
  BY <1>0, <1>1, UpdatedColumns DEF Exists, Statuses
<1>2. ASSUME NEW p \in PullRequest,
             \/ \E sha \in Sha : OpenPR(p, sha) \/ Push(p, sha) \/ ReopenPR(p, sha)
             \/ ClosePR(p)
             \/ \E w \in Worker : Receive(w, p)
      PROVE  rows' = rows
  BY <1>2 DEF OpenPR, Push, ReopenPR, ClosePR, Receive
<1>3. ASSUME NEW w \in Worker,
             \/ \E sha \in Sha \cup {NULL} : TestBuild(w, sha)
             \/ FindActive(w) \/ FindNewest(w) \/ FindAdhoc(w)
      PROVE  rows' = rows
  BY <1>3 DEF TestBuild, FindActive, FindNewest, FindAdhoc
<1>4. ASSUME NEW w \in Worker, Supersede(w) \/ Requeue(w) \/ Close(w)
      PROVE  \A j \in Id : Exists(rows, j) => Exists(rows', j)
  <2>1. task[w].id \in Id
    BY <1>4, TaskOf DEF Supersede, Requeue, Close, Step, TypeOK
  <2>2. rows' = rows \/ \E to \in Statuses : rows' = Updated(rows, task[w].id, to, NoFields)
    BY <1>4 DEF Supersede, Requeue, Close, Statuses
  <2>3. QED
    BY <1>1, <2>1, <2>2
<1>5. ASSUME NEW w \in Worker, NEW i \in Id, UpsertNew(w, i)
      PROVE  \A j \in Id : Exists(rows, j) => Exists(rows', j)
  BY <1>0, <1>5, InsertedRow DEF UpsertNew, Exists
<1>6. ASSUME NEW w \in Worker, NEW i \in Id, UpsertSame(w, i)
      PROVE  \A j \in Id : Exists(rows, j) => Exists(rows', j)
  <2> DEFINE d == DraftOf(task[w].event)
             r == [rows[i] EXCEPT !.pr = d.pr, !.branch = d.branch, !.labels = d.labels, !.fresh = TRUE]
  <2>1. rows' = [rows EXCEPT ![i] = r]
    BY <1>6 DEF UpsertSame, Merged
  <2>2. r.status = rows[i].status
    BY <1>0 DEF Tables, Row
  <2> HIDE DEF r
  <2>3. QED
    BY <1>0, <2>1, <2>2 DEF Exists, Tables
<1>7. ASSUME NEW i \in Id, Report(i)
      PROVE  \A j \in Id : Exists(rows, j) => Exists(rows', j)
  <2>1. \E to \in Statuses : \E f : rows' = Updated(rows, i, to, f)
    BY <1>7 DEF Report, Statuses
  <2>2. QED
    BY <1>1, <2>1
<1>8. ASSUME NEW i \in Id, NEW a \in Agent, Claim(i, a)
      PROVE  \A j \in Id : Exists(rows, j) => Exists(rows', j)
  BY <1>0, <1>8, ClaimedColumns DEF Claim, Exists
<1>9. QED
  BY <1>2, <1>3, <1>4, <1>5, <1>6, <1>7, <1>8 DEF Next, vars

LEMMA KnowInit == Init => TasksKnow
BY DEF Init, TasksKnow, Step

LEMMA KnowStep == TypeOK /\ TasksKnow /\ [Next]_vars => TasksKnow'
<1> SUFFICES ASSUME TypeOK, TasksKnow, [Next]_vars PROVE TasksKnow'
  OBVIOUS
<1>0. rows \in Tables /\ \A i \in Id : Exists(rows, i) => Exists(rows', i)
  BY NeverDeleted DEF TypeOK, Tables
<1>1. ASSUME task' = task
      PROVE  TasksKnow'
  <2>1. \A w \in Worker : Step(w, "supersede") \/ Step(w, "close") \/ Step(w, "requeue") => task[w].id \in Id
    BY TaskOf DEF Step, TypeOK
  <2>2. QED
    BY <1>0, <1>1, <2>1 DEF TasksKnow, Step
\* Only the task that steps changes.
<1>2. ASSUME NEW w \in Worker, NEW t \in Task \cup {Idle}, task' = [task EXCEPT ![w] = t],
             t # Idle => /\ t.step \in {"supersede", "close", "requeue"} => Exists(rows', t.id)
                         /\ t.step = "requeue" => t.from \in {"done", "failed"}
      PROVE  TasksKnow'
  <2>1. \A v \in Worker : task'[v] = IF v = w THEN t ELSE task[v]
    BY <1>2 DEF TypeOK
  <2>2. \A v \in Worker : Step(v, "supersede") \/ Step(v, "close") \/ Step(v, "requeue") => task[v].id \in Id
    BY TaskOf DEF Step, TypeOK
  <2>3. QED
    BY <1>0, <1>2, <2>1, <2>2 DEF TasksKnow, Step
<1>3. ASSUME NEW w \in Worker, NEW e \in Event,
             NEW s \in {"find active", "upsert", "find newest", "find adhoc"},
             task' = [task EXCEPT ![w] = [step |-> s, event |-> e]]
      PROVE  TasksKnow'
  <2> DEFINE t == [step |-> s, event |-> e]
  <2>1. t \in Task /\ t.step = s
    BY DEF Task
  <2>2. task' = [task EXCEPT ![w] = t]
    BY <1>3
  <2> HIDE DEF t
  <2>3. QED
    BY <1>2, <2>1, <2>2
<1>4. ASSUME NEW w \in Worker, Done(w)
      PROVE  TasksKnow'
  BY <1>2, <1>4 DEF Done
<1>5. ASSUME NEW w \in Worker, task[w] # Idle, Go(w, "upsert")
      PROVE  TasksKnow'
  BY <1>3, <1>5, TaskOf DEF Go, TypeOK
<1>6. ASSUME NEW w \in Worker, task[w] # Idle, NEW s \in {"supersede", "close"}, NEW i \in Id,
             Exists(rows', i), About(w, s, i)
      PROVE  TasksKnow'
  <2> DEFINE t == [step |-> s, event |-> task[w].event, id |-> i]
  <2>1. t \in Task /\ t.step = s /\ t.id = i
    BY <1>6, StepType
  <2>2. task' = [task EXCEPT ![w] = t]
    BY <1>6 DEF About
  <2> HIDE DEF t
  <2>3. QED
    BY <1>2, <1>6, <2>1, <2>2
<1>7. ASSUME NEW w \in Worker, task[w] # Idle, NEW s \in {"done", "failed"}, NEW i \in Id,
             Exists(rows', i), From(w, "requeue", i, s)
      PROVE  TasksKnow'
  <2> DEFINE t == [step |-> "requeue", event |-> task[w].event, id |-> i, from |-> s]
  <2>1. t \in Task /\ t.step = "requeue" /\ t.id = i /\ t.from = s
    BY <1>7, StepType DEF Statuses
  <2>2. task' = [task EXCEPT ![w] = t]
    BY <1>7 DEF From
  <2> HIDE DEF t
  <2>3. QED
    BY <1>2, <1>7, <2>1, <2>2
<1>8. ASSUME NEW p \in PullRequest, NEW w \in Worker, Receive(w, p)
      PROVE  TasksKnow'
  <2> DEFINE e == Head(deliveries[p])
             s == CASE e.action = "synchronize" -> "find active"
                    [] e.action = "closed"      -> "find newest"
                    [] OTHER                    -> "upsert"
  <2>1. e \in Event
    BY <1>8, HeadTailProperties DEF Receive, TypeOK
  <2>2. s \in {"find active", "find newest", "upsert"}
    OBVIOUS
  <2>3. task' = [task EXCEPT ![w] = [step |-> s, event |-> e]]
    BY <1>8 DEF Receive
  <2> HIDE DEF e, s
  <2>4. QED
    BY <1>3, <2>1, <2>2, <2>3
<1>9. ASSUME NEW w \in Worker, NEW sha \in Sha \cup {NULL}, TestBuild(w, sha)
      PROVE  TasksKnow'
  <2> DEFINE e == [action |-> "test build", pr |-> NoPR, sha |-> sha]
  <2>1. e \in Event
    BY RequestsAssumption DEF Event, Action
  <2>2. task' = [task EXCEPT ![w] = [step |-> "find adhoc", event |-> e]]
    BY <1>9 DEF TestBuild
  <2> HIDE DEF e
  <2>3. QED
    BY <1>3, <2>1, <2>2
<1>10. ASSUME NEW w \in Worker, FindActive(w)
       PROVE  TasksKnow'
  <2> DEFINE S == OfPR(rows, TheRepo, task[w].event.pr) \cap WithStatus(rows, ActiveStatuses)
             i == Newest(rows, S)
  <2>1. task[w] # Idle /\ (Go(w, "upsert") \/ (i # NULL /\ About(w, "supersede", i)))
    BY <1>10 DEF FindActive, Step, GetActiveByRepoAndPR
  <2>2. S \subseteq Id /\ \A j \in S : Exists(rows, j)
    BY DEF OfPR, Existing
  <2>3. i # NULL => i \in Id /\ Exists(rows, i)
    <3> HIDE DEF S
    <3>1. S = {} => i = NULL
      BY DEF Newest
    <3>2. S # {} => i \in S
      BY <1>0, <2>2, NewestFound
    <3>3. QED
      BY <2>2, <3>1, <3>2
  <2>4. QED
    BY <1>0, <1>5, <1>6, <2>1, <2>3
<1>11. ASSUME NEW w \in Worker, FindNewest(w)
       PROVE  TasksKnow'
  <2> DEFINE S == OfPR(rows, TheRepo, task[w].event.pr)
             i == Newest(rows, S)
  <2>1. task[w] # Idle /\ (Done(w) \/ (i # NULL /\ About(w, "close", i)))
    BY <1>11 DEF FindNewest, Step
  <2>2. S \subseteq Id /\ \A j \in S : Exists(rows, j)
    BY DEF OfPR, Existing
  <2>3. i # NULL => i \in Id /\ Exists(rows, i)
    <3> HIDE DEF S
    <3>1. S = {} => i = NULL
      BY DEF Newest
    <3>2. S # {} => i \in S
      BY <1>0, <2>2, NewestFound
    <3>3. QED
      BY <2>2, <3>1, <3>2
  <2>4. QED
    BY <1>0, <1>4, <1>6, <2>1, <2>3
<1>12. ASSUME NEW w \in Worker, FindAdhoc(w)
       PROVE  TasksKnow'
  <2> DEFINE S == {i \in Existing(rows) : /\ rows[i].adhoc /\ rows[i].repo = TheRepo
                                          /\ rows[i].branch = TheBranch}
             i == Newest(rows, S)
  <2>1. /\ task[w] # Idle
        /\ \/ Done(w) \/ Go(w, "upsert")
           \/ i # NULL /\ rows[i].status \in {"done", "failed"} /\ From(w, "requeue", i, rows[i].status)
    BY <1>12 DEF FindAdhoc, Step, FindAdhocByBranch
  <2>2. S \subseteq Id /\ \A j \in S : Exists(rows, j)
    BY DEF Existing
  <2>3. i # NULL => i \in Id /\ Exists(rows, i)
    <3> HIDE DEF S
    <3>1. S = {} => i = NULL
      BY DEF Newest
    <3>2. S # {} => i \in S
      BY <1>0, <2>2, NewestFound
    <3>3. QED
      BY <2>2, <3>1, <3>2
  <2> HIDE DEF i
  <2>4. QED
    BY <1>0, <1>4, <1>5, <1>7, <2>1, <2>3
<1>13. ASSUME NEW w \in Worker, Supersede(w) \/ Requeue(w) \/ Close(w)
       PROVE  TasksKnow'
  BY <1>4, <1>5, <1>13 DEF Supersede, Requeue, Close, Step
<1>14. ASSUME NEW w \in Worker, NEW i \in Id, UpsertNew(w, i) \/ UpsertSame(w, i)
       PROVE  TasksKnow'
  <2>1. task[w] # Idle
    BY <1>14 DEF UpsertNew, UpsertSame, Step
  <2>2. CASE UpsertNew(w, i)
    BY <1>4, <2>2 DEF UpsertNew
  <2>3. CASE UpsertSame(w, i)
    <3>1. Exists(rows, i)
      BY <2>3 DEF UpsertSame, WithSha, Existing
    <3>2. Done(w) \/ (rows[i].status \in {"done", "failed"} /\ From(w, "requeue", i, rows[i].status))
      BY <2>3 DEF UpsertSame
    <3>3. QED
      BY <1>0, <1>4, <1>7, <2>1, <3>1, <3>2
  <2>4. QED
    BY <1>14, <2>2, <2>3
<1>15. ASSUME NEW i \in Id, Report(i) \/ \E a \in Agent : Claim(i, a)
       PROVE  task' = task
  BY <1>15 DEF Report, Claim
<1>16. ASSUME NEW p \in PullRequest,
              \/ \E sha \in Sha : OpenPR(p, sha) \/ Push(p, sha) \/ ReopenPR(p, sha)
              \/ ClosePR(p)
       PROVE  task' = task
  BY <1>16 DEF OpenPR, Push, ReopenPR, ClosePR
<1>17. QED
  BY <1>1, <1>8, <1>9, <1>10, <1>11, <1>12, <1>13, <1>14, <1>15, <1>16 DEF Next, vars

Seen == <<Phases(rows), Holders(rows), Commits(rows)>>

\* An UpdateStatus without fields of a row there is.
LEMMA UpdateLife ==
    ASSUME rows \in Tables, NEW i \in Id, Exists(rows, i), NEW to, NEW f,
           f.agent = NULL, f.sha = NULL, rows' = Updated(rows, i, to, f),
           \/ to \in {"teardown", "done", "failed"}
           \/ to = "queued" /\ rows[i].status \in {"done", "failed"}
    PROVE  Lifecycle!Next
<1>1. /\ Coalesce(f.agent, rows[i].agent) = rows[i].agent
      /\ Coalesce(rows[i].sha, f.sha) = rows[i].sha
  BY DEF Coalesce
<1>2. /\ [Holders(rows) EXCEPT ![i] = rows[i].agent] = Holders(rows)
      /\ [Commits(rows) EXCEPT ![i] = rows[i].sha] = Commits(rows)
  BY DEF Holders, Commits
<1>3. /\ Phases(rows') = [Phases(rows) EXCEPT ![i] = Phase(to)]
      /\ Holders(rows') = Holders(rows) /\ Commits(rows') = Commits(rows)
  BY <1>1, <1>2, UpdatedSeen
<1>4. Phases(rows)[i] = Phase(rows[i].status)
  BY DEF Phases
<1>5. Phases(rows)[i] # "absent"
  <2>1. rows[i].status \in Statuses
    BY DEF Exists, Tables, Row
  <2>2. QED
    BY <1>4, <2>1 DEF Phase, Statuses
<1>6. CASE to = "teardown"
  <2>1. Lifecycle!Close(i)
    BY <1>3, <1>5, <1>6 DEF Lifecycle!Close, Lifecycle!Known, Lifecycle!Into, Phase
  <2>2. QED
    BY <2>1 DEF Lifecycle!Next
<1>7. CASE to \in {"done", "failed"}
  <2>1. Lifecycle!End(i)
    BY <1>3, <1>5, <1>7 DEF Lifecycle!End, Lifecycle!Known, Lifecycle!Into, Phase
  <2>2. QED
    BY <2>1 DEF Lifecycle!Next
<1>8. CASE to = "queued" /\ rows[i].status \in {"done", "failed"}
  <2>1. Lifecycle!Requeue(i)
    BY <1>3, <1>4, <1>8 DEF Lifecycle!Requeue, Lifecycle!Into, Phase
  <2>2. QED
    BY <2>1 DEF Lifecycle!Next
<1>9. QED
  BY <1>6, <1>7, <1>8

LEMMA ReportLife ==
    ASSUME TypeOK, NEW i \in Id, Report(i)
    PROVE  Lifecycle!Next
<1>0. rows \in Tables /\ rows[i] \in Row
  BY DEF TypeOK, Tables
<1>1. PICK a \in Agent \cup {NULL}, sha \in Sha \cup {NULL}, s \in {"running", "failed", "done"} :
         /\ <<rows[i].status, s>> \in {<<"assigned", "running">>, <<"assigned", "failed">>,
                                       <<"running", "failed">>, <<"teardown", "done">>}
         /\ rows[i].agent # NULL
         /\ a = IF s = "running" THEN rows[i].agent ELSE NULL
         /\ sha # NULL => s = "running" /\ rows[i].sha = NULL
         /\ rows' = Updated(rows, i, s, [sha |-> sha, agent |-> a, urls |-> s = "running"])
  BY DEF Report
<1> DEFINE f == [sha |-> sha, agent |-> a, urls |-> s = "running"]
<1>2. f.sha = sha /\ f.agent = a /\ rows' = Updated(rows, i, s, f)
  BY <1>1
<1> HIDE DEF f
<1>3. Exists(rows, i)
  BY <1>1 DEF Exists
<1>4. CASE s \in {"failed", "done"}
  <2>1. sha = NULL /\ a = NULL
    BY <1>1, <1>4
  <2>2. QED
    BY <1>0, <1>2, <1>3, <1>4, <2>1, UpdateLife
<1>5. CASE s = "running"
  <2> DEFINE c == Coalesce(rows[i].sha, sha)
  <2>1. a \in Agent /\ Coalesce(a, rows[i].agent) = a
    BY <1>0, <1>1, <1>5 DEF Coalesce, Row
  <2>2. c \in Sha \cup {NULL} /\ rows[i].sha \in {NULL, c}
    BY <1>0 DEF Coalesce, Row
  <2>3. /\ Phases(rows') = [Phases(rows) EXCEPT ![i] = "live"]
        /\ Holders(rows') = [Holders(rows) EXCEPT ![i] = a]
        /\ Commits(rows') = [Commits(rows) EXCEPT ![i] = c]
    BY <1>0, <1>2, <1>5, <2>1, UpdatedSeen DEF Phase
  <2>4. Phases(rows)[i] # "absent" /\ Commits(rows)[i] = rows[i].sha
    BY <1>1, <1>5 DEF Phases, Phase, Commits
  <2> HIDE DEF c
  <2>5. Lifecycle!Report(i, a, c)
    BY <2>2, <2>3, <2>4 DEF Lifecycle!Report, Lifecycle!Known, Lifecycle!Into
  <2>6. QED
    BY <2>1, <2>2, <2>5 DEF Lifecycle!Next
<1>6. QED
  BY <1>4, <1>5

LEMMA RequestsLife == TypeOK /\ TasksKnow /\ [Next]_vars => Lifecycle!Next \/ UNCHANGED Seen
<1> SUFFICES ASSUME TypeOK, TasksKnow, [Next]_vars PROVE Lifecycle!Next \/ UNCHANGED Seen
  OBVIOUS
<1>0. rows \in Tables
  BY DEF TypeOK, Tables
<1>1. ASSUME rows' = rows
      PROVE  UNCHANGED Seen
  BY <1>1 DEF Seen
<1>2. ASSUME NEW p \in PullRequest,
             \/ \E sha \in Sha : OpenPR(p, sha) \/ Push(p, sha) \/ ReopenPR(p, sha)
             \/ ClosePR(p)
             \/ \E w \in Worker : Receive(w, p)
      PROVE  UNCHANGED Seen
  BY <1>1, <1>2 DEF OpenPR, Push, ReopenPR, ClosePR, Receive
<1>3. ASSUME NEW w \in Worker,
             \/ \E sha \in Sha \cup {NULL} : TestBuild(w, sha)
             \/ FindActive(w) \/ FindNewest(w) \/ FindAdhoc(w)
      PROVE  UNCHANGED Seen
  BY <1>1, <1>3 DEF TestBuild, FindActive, FindNewest, FindAdhoc
<1>4. ASSUME NEW w \in Worker, Supersede(w) \/ Requeue(w) \/ Close(w)
      PROVE  Lifecycle!Next \/ UNCHANGED Seen
  <2>1. task[w].id \in Id /\ Exists(rows, task[w].id)
    BY <1>4, TaskOf DEF Supersede, Requeue, Close, Step, TypeOK, TasksKnow
  <2>2. NoFields.agent = NULL /\ NoFields.sha = NULL
    BY DEF NoFields
  <2>3. CASE Supersede(w) \/ Close(w)
    <3>1. rows' = Updated(rows, task[w].id, "teardown", NoFields)
      BY <2>3 DEF Supersede, Close
    <3>2. QED
      BY <1>0, <2>1, <2>2, <3>1, UpdateLife
  <2>4. CASE Requeue(w)
    <3>1. \/ rows' = rows
          \/ /\ rows' = Updated(rows, task[w].id, "queued", NoFields)
             /\ ~StaleState(rows, task[w].id, task[w].from)
      BY <2>4 DEF Requeue
    <3>2. task[w].from \in {"done", "failed"}
      BY <2>4 DEF Requeue, TasksKnow
    <3>3. ASSUME ~StaleState(rows, task[w].id, task[w].from)
          PROVE  rows[task[w].id].status \in {"done", "failed"}
      BY <3>2, <3>3, NullIsNoValue DEF StaleState, Statuses
    <3>4. QED
      BY <1>0, <1>1, <2>1, <2>2, <3>1, <3>3, UpdateLife
  <2>5. QED
    BY <1>4, <2>3, <2>4
<1>5. ASSUME NEW w \in Worker, NEW i \in Id, UpsertNew(w, i)
      PROVE  Lifecycle!Next
  <2> DEFINE d == DraftOf(task[w].event)
  <2>1. d \in Draft
    BY <1>5, TaskOf, DraftType DEF UpsertNew, Step, TypeOK
  <2>2. rows' = Inserted(rows, i, d) /\ Phases(rows)[i] = "absent"
    BY <1>5 DEF UpsertNew, Exists, Phases, Phase
  <2> HIDE DEF d
  <2>3. Lifecycle!Submit(i, d.sha)
    BY <1>0, <2>1, <2>2, InsertedSeen DEF Lifecycle!Submit, Lifecycle!Into
  <2>4. QED
    BY <2>1, <2>3 DEF Lifecycle!Next, Draft
<1>6. ASSUME NEW w \in Worker, NEW i \in Id, UpsertSame(w, i)
      PROVE  UNCHANGED Seen
  <2>1. rows' = Merged(rows, i, DraftOf(task[w].event))
    BY <1>6 DEF UpsertSame
  <2>2. QED
    BY <1>0, <2>1, Unseen DEF Seen
<1>7. ASSUME NEW i \in Id, Report(i)
      PROVE  Lifecycle!Next
  BY <1>7, ReportLife
<1>8. ASSUME NEW i \in Id, NEW a \in Agent, Claim(i, a)
      PROVE  Lifecycle!Next
  <2>1. rows' = ClaimedBy(rows, i, a) /\ Phases(rows)[i] = "waiting"
    BY <1>8 DEF Claim, Phases, Phase
  <2>2. Lifecycle!Offer(i, a)
    BY <1>0, <2>1, ClaimedSeen DEF Lifecycle!Offer, Lifecycle!Into
  <2>3. QED
    BY <2>2 DEF Lifecycle!Next
<1>9. CASE UNCHANGED vars
  BY <1>1, <1>9 DEF vars
<1>10. QED
  BY <1>2, <1>3, <1>4, <1>5, <1>6, <1>7, <1>8, <1>9 DEF Next

\* However many handlers run at once and whatever commits come back, webhooks
\* and test builds write each row as PreviewLifecycle says: a handler that was
\* overtaken between its query and its write cannot queue again what another
\* has got going, because only Requeue queues again and it compares the status.
THEOREM RequestsImplementLifecycle == Spec => ImplementsLifecycle
<1>1. Init => TypeOK /\ TasksKnow
  BY TypeInit, KnowInit
<1>2. TypeOK /\ TasksKnow /\ [Next]_vars => (TypeOK /\ TasksKnow)'
  BY TypeStep, KnowStep
<1>3. Init => Lifecycle!Init
  BY DEF Init, Lifecycle!Init, Phases, Holders, Commits, Phase, Blank
<1>4. TypeOK /\ TasksKnow /\ [Next]_vars => [Lifecycle!Next]_(Lifecycle!vars)
  BY RequestsLife DEF Seen, Lifecycle!vars
<1>5. QED
  BY <1>1, <1>2, <1>3, <1>4, PTL DEF Spec, ImplementsLifecycle, Lifecycle!Spec

-----------------------------------------------------------------------------
(* What is promised of a pull request.                                     *)
(*                                                                         *)
(* The commits of a pull request come in an order: those its rows are for, *)
(* those of the events on their way, its head.  The invariant says that    *)
(* there is such an order (each commit has a pull request it originates    *)
(* from and an age), that rows and events follow it, and how far each      *)
(* handler has come between its transactions.                              *)

\* No two handlers are at work on the same pull request, or on two test builds.
Apart == \A v, w \in Worker :
    task[v] # Idle /\ task[w] # Idle /\ task[v].event.pr = task[w].event.pr => v = w

Of(w, p) == task[w] # Idle /\ task[w].event.pr = p
Free(p) == \A w \in Worker : ~Of(w, p)
Rows(p) == OfPR(rows, TheRepo, p)
IsNewest(i, p) == /\ i \in Rows(p)
                  /\ \A j \in Rows(p) : j # i => rows[j].created < rows[i].created
NewestFor(p, sha) == \A i \in Rows(p) : IsNewest(i, p) => rows[i].sha = sha

\* What comes just before the k-th delivery of p is for this commit, or closes p:
\* a delivery, the event a handler has, or what the handlers have left behind.
AfterCommit(p, k, sha) ==
    IF k > 1 THEN deliveries[p][k - 1].sha = sha
    ELSE /\ \A w \in Worker : Of(w, p) => task[w].event.sha = sha
         /\ Free(p) => NewestFor(p, sha)
AfterClose(p, k) ==
    IF k > 1 THEN deliveries[p][k - 1].action = "closed"
    ELSE /\ \A w \in Worker : Of(w, p) => task[w].event.action = "closed"
         /\ Free(p) => Active(p) = {}

\* The events of a pull request follow from one another, and its head from them.
InLine(p) ==
    /\ \A k \in 1..Len(deliveries[p]) :
          LET e == deliveries[p][k] IN
          /\ e.pr = p /\ e.action # "test build"
          /\ e.action = "opened" => k = 1 /\ Free(p) /\ Rows(p) = {}
          /\ e.action = "closed" => AfterCommit(p, k, e.sha)
          /\ e.action = "reopened" => AfterClose(p, k)
    /\ AfterCommit(p, Len(deliveries[p]) + 1, head[p])
    /\ ~open[p] => AfterClose(p, Len(deliveries[p]) + 1)
    /\ open[p] => head[p] # NULL
    /\ head[p] = NULL => deliveries[p] = << >> /\ Free(p) /\ Rows(p) = {}

\* A commit of p.
Dated(origin, age, p, sha) == sha # NULL /\ origin[sha] = p /\ age[sha] # 0

\* Each row is older than what is still to come, each event than the next, and
\* all are older than the head.
Ages(origin, age, p) ==
    /\ head[p] # NULL => Dated(origin, age, p, head[p])
    /\ \A k \in 1..Len(deliveries[p]) :
          /\ Dated(origin, age, p, deliveries[p][k].sha)
          /\ age[deliveries[p][k].sha] <= age[head[p]]
          /\ \A j \in 1..k : age[deliveries[p][j].sha] <= age[deliveries[p][k].sha]
    /\ \A w \in Worker : Of(w, p) =>
          /\ Dated(origin, age, p, task[w].event.sha)
          /\ age[task[w].event.sha] <= age[head[p]]
          /\ \A k \in 1..Len(deliveries[p]) : age[task[w].event.sha] <= age[deliveries[p][k].sha]
    /\ \A i \in Rows(p) :
          /\ Dated(origin, age, p, rows[i].sha)
          /\ age[rows[i].sha] <= age[head[p]]
          /\ \A w \in Worker : Of(w, p) => age[rows[i].sha] <= age[task[w].event.sha]
          /\ \A k \in 1..Len(deliveries[p]) : age[rows[i].sha] <= age[deliveries[p][k].sha]

\* The newest row is for the latest commit, and no other is active.
Topped(age, p) ==
    Rows(p) # {} => \E n \in Rows(p) :
        /\ IsNewest(n, p)
        /\ \A j \in Rows(p) : j # n => age[rows[j].sha] < age[rows[n].sha]
        /\ Active(p) \subseteq {n}

\* How far the handler of an event of p has come.
Handling(w, p) ==
    LET e == task[w].event
    IN  /\ e.action # "test build"
        /\ ~Step(w, "find adhoc")
        /\ Step(w, "find active") => e.action = "synchronize"
        /\ Step(w, "supersede") => /\ e.action = "synchronize"
                                   /\ task[w].id \in Rows(p) /\ Active(p) \subseteq {task[w].id}
        /\ Step(w, "upsert") => /\ e.action # "closed"
                                /\ \A i \in Active(p) : rows[i].sha = e.sha
        /\ Step(w, "requeue") => /\ e.action # "closed"
                                 /\ IsNewest(task[w].id, p) /\ rows[task[w].id].sha = e.sha
        /\ Step(w, "find newest") => e.action = "closed" /\ NewestFor(p, e.sha)
        /\ Step(w, "close") => /\ e.action = "closed"
                               /\ IsNewest(task[w].id, p) /\ rows[task[w].id].sha = e.sha

Kept(origin, age, p) == /\ InLine(p)
                        /\ Ages(origin, age, p)
                        /\ Topped(age, p)
                        /\ \A w \in Worker : Of(w, p) => Handling(w, p)

\* One row for all test builds, and the handler of one.
Building(origin) ==
    /\ \A i, j \in Rows(NoPR) : i = j
    /\ \A w \in Worker : Of(w, NoPR) =>
          /\ task[w].event.action = "test build"
          /\ task[w].event.sha # NULL => origin[task[w].event.sha] = NoPR
          /\ task[w].step \in {"find adhoc", "upsert", "requeue"}
          /\ Step(w, "upsert") => Rows(NoPR) = {}
          /\ Step(w, "requeue") => task[w].id \in Rows(NoPR)

\* Whose the rows are.
Owned(origin) ==
    \A i \in Existing(rows) :
        /\ rows[i].repo = TheRepo /\ rows[i].branch = TheBranch
        /\ rows[i].adhoc <=> rows[i].pr = NoPR
        /\ rows[i].created <= Cardinality(Existing(rows))
        /\ rows[i].sha = NULL => rows[i].pr = NoPR
        /\ rows[i].sha # NULL => origin[rows[i].sha] = rows[i].pr

\* The ages of the commits of a pull request tell them apart; that of the next
\* commit will be new.
Numbered(origin, age) ==
    /\ \A s \in Sha : age[s] <= sent + 1
    /\ \A s, t \in Sha : origin[s] = origin[t] /\ age[s] = age[t] /\ age[s] # 0 => s = t

Lineage(origin, age) == /\ Owned(origin)
                        /\ Building(origin)
                        /\ Numbered(origin, age)
                        /\ \A p \in PullRequest : Kept(origin, age, p)

RequestsInv == \E origin \in [Sha -> PR], age \in [Sha -> Nat] : Lineage(origin, age)

-----------------------------------------------------------------------------
(* What the writes do to the rows of a pull request. *)

Keeps == /\ Existing(rows') = Existing(rows)
         /\ \A j \in Id : SameColumns(rows'[j], rows[j])
         /\ \A p \in PR : Rows(p)' = Rows(p)

LEMMA KeepsRows ==
    ASSUME \A j \in Id : SameColumns(rows'[j], rows[j]),
           \A j \in Id : rows'[j].status = "absent" <=> rows[j].status = "absent"
    PROVE  Keeps
<1>1. Existing(rows') = Existing(rows)
  BY DEF Existing, Exists
<1>2. ASSUME NEW p \in PR
      PROVE  Rows(p)' = Rows(p)
  <2>1. Existing(rows) \subseteq Id
    BY DEF Existing
  <2>2. \A j \in Existing(rows) : rows'[j].repo = rows[j].repo /\ rows'[j].pr = rows[j].pr
    BY <2>1 DEF SameColumns
  <2>3. QED
    BY <1>1, <2>2 DEF Rows, OfPR
<1>3. QED
  BY <1>1, <1>2 DEF Keeps

LEMMA ActiveRows ==
    ASSUME NEW p
    PROVE  /\ Active(p) \subseteq Id /\ Active(p)' \subseteq Id /\ Active(p) \subseteq Rows(p)
           /\ Rows(p) \subseteq Id /\ Rows(p)' \subseteq Id
           /\ \A j \in Id : /\ j \in Active(p) <=> j \in Rows(p) /\ rows[j].status \in ActiveStatuses
                            /\ j \in Active(p)' <=> j \in Rows(p)' /\ rows'[j].status \in ActiveStatuses
BY DEF Active, Rows, OfPR, Existing, WithStatus

LEMMA UpdateKeeps ==
    ASSUME TypeOK, NEW i \in Id, Exists(rows, i), NEW to \in Statuses, NEW f,
           rows' = Updated(rows, i, to, f)
    PROVE  /\ Keeps
           /\ \A j \in Id : rows'[j].sha = IF j = i THEN Coalesce(rows[i].sha, f.sha) ELSE rows[j].sha
           /\ to \notin ActiveStatuses => \A p \in PR : Active(p)' = Active(p) \ {i}
           /\ to \in ActiveStatuses => \A p \in PR : Active(p)' \subseteq Active(p) \cup {i}
           /\ to \in ActiveStatuses /\ rows[i].status \in ActiveStatuses =>
                 \A p \in PR : Active(p)' = Active(p)
<1>1. \A j \in Id :
         /\ SameColumns(rows'[j], rows[j])
         /\ rows'[j].sha = IF j = i THEN Coalesce(rows[i].sha, f.sha) ELSE rows[j].sha
         /\ rows'[j].status = IF j = i THEN to ELSE rows[j].status
  BY UpdatedColumns DEF TypeOK, Tables
<1>2. Keeps
  BY <1>1, KeepsRows DEF Exists, Statuses
<1>3. \A p \in PR : Rows(p) \subseteq Id
  BY DEF Rows, OfPR, Existing
<1>4. \A p \in PR, j \in Id :
         /\ j \in Active(p) <=> j \in Rows(p) /\ rows[j].status \in ActiveStatuses
         /\ j \in Active(p)' <=> j \in Rows(p) /\ rows'[j].status \in ActiveStatuses
  <2> TAKE p \in PR, j \in Id
  <2>1. Rows(p)' = Rows(p)
    BY <1>2 DEF Keeps
  <2>2. QED
    BY <2>1, ActiveRows
<1>5. \A p \in PR : Active(p) \subseteq Id /\ Active(p)' \subseteq Id
  BY ActiveRows
<1>6. to \notin ActiveStatuses => \A p \in PR : Active(p)' = Active(p) \ {i}
  BY <1>1, <1>4, <1>5
<1>7. to \in ActiveStatuses => \A p \in PR : Active(p)' \subseteq Active(p) \cup {i}
  BY <1>1, <1>4, <1>5
<1>8. to \in ActiveStatuses /\ rows[i].status \in ActiveStatuses =>
         \A p \in PR : Active(p)' = Active(p)
  BY <1>1, <1>4, <1>5
<1>9. QED
  BY <1>1, <1>2, <1>6, <1>7, <1>8

LEMMA ClaimKeeps ==
    ASSUME TypeOK, NEW i \in Id, NEW a \in Agent, Claim(i, a)
    PROVE  /\ Keeps
           /\ \A j \in Id : rows'[j].sha = rows[j].sha
           /\ \A p \in PR : Active(p)' = Active(p)
<1>1. \A j \in Id :
         /\ SameColumns(rows'[j], rows[j])
         /\ rows'[j].sha = rows[j].sha
         /\ rows'[j].status = IF j = i THEN "assigned" ELSE rows[j].status
  BY ClaimedColumns DEF Claim, TypeOK, Tables
<1>2. rows[i].status = "queued"
  BY DEF Claim
<1>3. Keeps
  BY <1>1, <1>2, KeepsRows
<1>4. \A p \in PR, j \in Id : j \in Active(p) <=> j \in Active(p)'
  <2> TAKE p \in PR, j \in Id
  <2>1. Rows(p)' = Rows(p)
    BY <1>3 DEF Keeps
  <2>2. rows[j].status \in ActiveStatuses <=> rows'[j].status \in ActiveStatuses
    BY <1>1, <1>2 DEF ActiveStatuses
  <2>3. QED
    BY <2>1, <2>2, ActiveRows
<1>5. \A p \in PR : Active(p)' = Active(p)
  BY <1>4, ActiveRows
<1>6. QED
  BY <1>1, <1>3, <1>5

\* Upsert of a commit that has a row of the same pull request.
LEMMA MergeKeeps ==
    ASSUME TypeOK, NEW i \in Id, NEW d, rows' = Merged(rows, i, d),
           d.pr = rows[i].pr, d.branch = rows[i].branch
    PROVE  /\ Keeps
           /\ \A j \in Id : rows'[j].sha = rows[j].sha /\ rows'[j].status = rows[j].status
           /\ \A p \in PR : Active(p)' = Active(p)
<1>1. \A j \in Id :
         /\ SameColumns(rows'[j], rows[j])
         /\ rows'[j].sha = rows[j].sha
         /\ rows'[j].status = rows[j].status
  <2>1. rows \in Tables
    BY DEF TypeOK, Tables
  <2>2. QED
    BY <2>1, MergedColumns
<1>2. Keeps
  BY <1>1, KeepsRows
<1>3. \A p \in PR, j \in Id : j \in Active(p) <=> j \in Active(p)'
  <2> TAKE p \in PR, j \in Id
  <2>1. Rows(p)' = Rows(p)
    BY <1>2 DEF Keeps
  <2>2. QED
    BY <1>1, <2>1, ActiveRows
<1>4. \A p \in PR : Active(p)' = Active(p)
  BY <1>3, ActiveRows
<1>5. QED
  BY <1>1, <1>2, <1>4

-----------------------------------------------------------------------------
(* What leaves a pull request as it is. *)

\* The commits a pull request is about.
Uses(p, sha) == \/ head[p] = sha
                \/ \E k \in 1..Len(deliveries[p]) : deliveries[p][k].sha = sha
                \/ \E w \in Worker : Of(w, p) /\ task[w].event.sha = sha
                \/ \E i \in Rows(p) : rows[i].sha = sha

\* Neither GitHub nor a handler does anything about p, and agents at most end
\* what is active of it.
Rests(p) == /\ Rows(p)' = Rows(p)
            /\ \A i \in Rows(p) : rows'[i].sha = rows[i].sha /\ rows'[i].created = rows[i].created
            /\ Active(p)' \subseteq Active(p)
            /\ \A w \in Worker : (Of(w, p)' <=> Of(w, p)) /\ (Of(w, p) => task'[w] = task[w])
            /\ deliveries'[p] = deliveries[p] /\ head'[p] = head[p] /\ open'[p] = open[p]

LEMMA Resting ==
    ASSUME TypeOK, NEW p \in PullRequest,
           NEW origin, NEW age \in [Sha -> Nat], NEW origin2, NEW age2 \in [Sha -> Nat],
           Kept(origin, age, p), Rests(p),
           \A sha \in Sha : Uses(p, sha) => origin2[sha] = origin[sha] /\ age2[sha] = age[sha]
    PROVE  Kept(origin2, age2, p)'
<1> DEFINE d == deliveries[p]
<1>1. /\ Len(d) \in Nat
      /\ \A k \in 1..Len(d) : d[k].sha \in Sha \cup {NULL} /\ d # << >>
      /\ head[p] \in Sha \cup {NULL}
      /\ \A i \in Rows(p) : rows[i].sha \in Sha \cup {NULL}
      /\ \A w \in Worker : Of(w, p) => task[w].event.sha \in Sha \cup {NULL}
  <2>1. d \in Seq(Event)
    BY DEF TypeOK
  <2>2. \A w \in Worker : Of(w, p) => task[w].event.sha \in Sha \cup {NULL}
    BY TaskOf DEF TypeOK, Of, Event
  <2>3. \A i \in Rows(p) : rows[i].sha \in Sha \cup {NULL}
    BY DEF TypeOK, Row, Rows, OfPR, Existing
  <2>4. head[p] \in Sha \cup {NULL}
    BY DEF TypeOK
  <2>5. \A k \in 1..Len(d) : d[k].sha \in Sha \cup {NULL}
    <3>1. \A e \in Event : e.sha \in Sha \cup {NULL}
      BY DEF Event
    <3>2. QED
      BY <2>1, <3>1, ElementOfSeq
  <2>6. ASSUME NEW k \in 1..Len(d)
        PROVE  d # << >>
    BY <2>1, LenProperties, EmptySeq
  <2>7. QED
    BY <2>1, <2>2, <2>3, <2>4, <2>5, <2>6, LenProperties
<1>2. Free(p)' <=> Free(p)
  BY DEF Rests, Free
<1>3. \A i : IsNewest(i, p)' <=> IsNewest(i, p)
  BY DEF Rests, IsNewest
<1>4. \A sha : NewestFor(p, sha)' <=> NewestFor(p, sha)
  BY <1>3 DEF Rests, NewestFor
<1>5. InLine(p)'
  <2>1. /\ deliveries'[p] = d /\ head'[p] = head[p] /\ open'[p] = open[p] /\ Rows(p)' = Rows(p)
        /\ \A w \in Worker : (Of(w, p)' <=> Of(w, p)) /\ (Of(w, p) => task'[w] = task[w])
        /\ Active(p)' \subseteq Active(p)
    BY DEF Rests
  <2>2. \A k, sha : AfterCommit(p, k, sha) => AfterCommit(p, k, sha)'
    BY <1>2, <1>4, <2>1 DEF AfterCommit
  <2>3. \A k : AfterClose(p, k) => AfterClose(p, k)'
    BY <1>2, <2>1 DEF AfterClose
  <2>4. QED
    BY <1>2, <2>1, <2>2, <2>3 DEF Kept, InLine
<1>6. Ages(origin2, age2, p)'
  <2>1. /\ deliveries'[p] = d /\ head'[p] = head[p] /\ Rows(p)' = Rows(p)
        /\ \A w \in Worker : (Of(w, p)' <=> Of(w, p)) /\ (Of(w, p) => task'[w] = task[w])
        /\ \A i \in Rows(p) : rows'[i].sha = rows[i].sha
    BY DEF Rests
  <2>2. \A sha \in Sha : Uses(p, sha) => origin2[sha] = origin[sha] /\ age2[sha] = age[sha]
    OBVIOUS
  <2>3. \A k \in 1..Len(d) : Uses(p, d[k].sha) /\ d[k].sha \in Sha /\ head[p] \in Sha
    BY <1>1 DEF Uses, Kept, Ages, Dated, InLine
  <2>4. \A w \in Worker : Of(w, p) => /\ Uses(p, task[w].event.sha)
                                     /\ task[w].event.sha \in Sha /\ head[p] \in Sha
    BY <1>1 DEF Uses, Kept, Ages, Dated, InLine, Free
  <2>5. \A i \in Rows(p) : Uses(p, rows[i].sha) /\ rows[i].sha \in Sha /\ head[p] \in Sha
    BY <1>1 DEF Uses, Kept, Ages, Dated, InLine
  <2>6. Uses(p, head[p])
    BY DEF Uses
  <2>7. head[p] # NULL => Dated(origin2, age2, p, head[p])
    BY <1>1, <2>2, <2>6 DEF Kept, Ages, Dated
  <2>8. \A k \in 1..Len(d) :
           /\ Dated(origin2, age2, p, d[k].sha)
           /\ age2[d[k].sha] <= age2[head[p]]
           /\ \A j \in 1..k : age2[d[j].sha] <= age2[d[k].sha]
    <3> TAKE k \in 1..Len(d)
    <3>1. d[k].sha \in Sha /\ age2[d[k].sha] = age[d[k].sha] /\ origin2[d[k].sha] = origin[d[k].sha]
      BY <2>2, <2>3
    <3>2. age2[head[p]] = age[head[p]]
      BY <2>2, <2>3, <2>6
    <3>3. \A j \in 1..k : age2[d[j].sha] = age[d[j].sha]
      BY <1>1, <2>2, <2>3
    <3>4. QED
      BY <3>1, <3>2, <3>3 DEF Kept, Ages, Dated
  <2>9. \A w \in Worker : Of(w, p) =>
           /\ Dated(origin2, age2, p, task[w].event.sha)
           /\ age2[task[w].event.sha] <= age2[head[p]]
           /\ \A k \in 1..Len(d) : age2[task[w].event.sha] <= age2[d[k].sha]
    BY <2>2, <2>3, <2>4, <2>6 DEF Kept, Ages, Dated
  <2>10. \A i \in Rows(p) :
            /\ Dated(origin2, age2, p, rows[i].sha)
            /\ age2[rows[i].sha] <= age2[head[p]]
            /\ \A w \in Worker : Of(w, p) => age2[rows[i].sha] <= age2[task[w].event.sha]
            /\ \A k \in 1..Len(d) : age2[rows[i].sha] <= age2[d[k].sha]
    BY <2>2, <2>3, <2>4, <2>5, <2>6 DEF Kept, Ages, Dated
  <2>11. QED
    BY <2>1, <2>7, <2>8, <2>9, <2>10 DEF Ages
<1>7. Topped(age2, p)'
  <2>1. /\ Rows(p)' = Rows(p) /\ Active(p)' \subseteq Active(p)
        /\ \A i \in Rows(p) : rows'[i].sha = rows[i].sha
    BY DEF Rests
  <2>2. \A i \in Rows(p) : age2[rows[i].sha] = age[rows[i].sha]
    BY <1>1 DEF Uses, Kept, Ages, Dated
  <2>3. QED
    BY <1>3, <2>1, <2>2 DEF Kept, Topped
<1>8. ASSUME NEW w \in Worker, Of(w, p)'
      PROVE  Handling(w, p)'
  <2>1. /\ Rows(p)' = Rows(p) /\ Active(p)' \subseteq Active(p) /\ Active(p) \subseteq Rows(p)
        /\ \A i \in Rows(p) : rows'[i].sha = rows[i].sha
        /\ Of(w, p) /\ task'[w] = task[w]
    <3>1. Of(w, p)
      BY <1>8 DEF Rests
    <3>2. Active(p) \subseteq Rows(p)
      BY ActiveRows
    <3>3. QED
      BY <3>1, <3>2 DEF Rests
  <2>2. task[w].event.pr = p
    BY <2>1 DEF Of
  <2>3. Handling(w, p)
    BY <2>1 DEF Kept
  <2>4. \A i \in Active(p)' : i \in Active(p) /\ rows'[i].sha = rows[i].sha
    BY <2>1
  <2>5. /\ \A sha : NewestFor(p, sha) => NewestFor(p, sha)'
        /\ IsNewest(task[w].id, p) => /\ IsNewest(task[w].id, p)' /\ task[w].id \in Rows(p)
                                     /\ rows'[task[w].id].sha = rows[task[w].id].sha
        /\ \A s : Step(w, s)' <=> Step(w, s)
    BY <1>3, <1>4, <2>1 DEF IsNewest, Step
  <2> DEFINE e == task[w].event
  <2>6. task'[w].event = e /\ task'[w].id = task[w].id
    BY <2>1
  <2>7. \A s : Step(w, s)' => Step(w, s)
    BY <2>5
  <2> HIDE DEF e
  <2>8. /\ e.action # "test build"
        /\ ~Step(w, "find adhoc")
        /\ Step(w, "find active") => e.action = "synchronize"
        /\ Step(w, "supersede") => /\ e.action = "synchronize"
                                   /\ task[w].id \in Rows(p)' /\ Active(p)' \subseteq {task[w].id}
        /\ Step(w, "upsert") => /\ e.action # "closed"
                                /\ \A i \in Active(p)' : rows'[i].sha = e.sha
        /\ Step(w, "requeue") => /\ e.action # "closed"
                                 /\ IsNewest(task[w].id, p)' /\ rows'[task[w].id].sha = e.sha
        /\ Step(w, "find newest") => /\ e.action = "closed"
                                     /\ \A sha : sha = e.sha => NewestFor(p, sha)'
        /\ Step(w, "close") => /\ e.action = "closed"
                               /\ IsNewest(task[w].id, p)' /\ rows'[task[w].id].sha = e.sha
    BY <2>1, <2>3, <2>4, <2>5 DEF Handling, e
  <2>9. QED
    BY <2>6, <2>7, <2>8 DEF Handling
<1>9. QED
  BY <1>5, <1>6, <1>7, <1>8 DEF Kept

-----------------------------------------------------------------------------
(* What a handler does to the pull request it is at work on. *)

\* GitHub does nothing about p meanwhile, and no other handler.
Alone(w, p) == /\ deliveries'[p] = deliveries[p] /\ head'[p] = head[p] /\ open'[p] = open[p]
               /\ \A v \in Worker : v # w => ~Of(v, p) /\ ~Of(v, p)'

\* The handler goes on with its event.
GoesOnWith(w, p) == Of(w, p)' /\ task'[w].event = task[w].event

\* The handler has answered its event.
Answers(w, p) == /\ task'[w] = Idle
                 /\ \A sha : sha = task[w].event.sha => NewestFor(p, sha)'
                 /\ task[w].event.action = "closed" => Active(p)' = {}

LEMMA LineKept ==
    ASSUME NEW p \in PullRequest, NEW w \in Worker, InLine(p), Of(w, p), Alone(w, p),
           GoesOnWith(w, p) \/ Answers(w, p)
    PROVE  InLine(p)'
<1>1. ~Free(p)
  BY DEF Free
<1>2. \A k, sha : AfterCommit(p, k, sha) => AfterCommit(p, k, sha)'
  <2> TAKE k, sha
  <2>1. CASE k > 1
    BY <2>1 DEF AfterCommit, Alone
  <2>2. CASE ~(k > 1) /\ GoesOnWith(w, p)
    <3>1. ~Free(p)'
      BY <2>2 DEF Free, GoesOnWith
    <3>2. QED
      BY <2>2, <3>1 DEF AfterCommit, Alone, GoesOnWith
  <2>3. CASE ~(k > 1) /\ Answers(w, p)
    <3>1. ~Of(w, p)'
      BY <2>3 DEF Answers, Of
    <3>2. QED
      BY <2>3, <3>1 DEF AfterCommit, Alone, Answers
  <2>4. QED
    BY <2>1, <2>2, <2>3
<1>3. \A k : AfterClose(p, k) => AfterClose(p, k)'
  <2> TAKE k
  <2>1. CASE k > 1
    BY <2>1 DEF AfterClose, Alone
  <2>2. CASE ~(k > 1) /\ GoesOnWith(w, p)
    <3>1. ~Free(p)'
      BY <2>2 DEF Free, GoesOnWith
    <3>2. QED
      BY <2>2, <3>1 DEF AfterClose, Alone, GoesOnWith
  <2>3. CASE ~(k > 1) /\ Answers(w, p)
    <3>1. ~Of(w, p)'
      BY <2>3 DEF Answers, Of
    <3>2. QED
      BY <2>3, <3>1 DEF AfterClose, Alone, Answers
  <2>4. QED
    BY <2>1, <2>2, <2>3
<1>4. deliveries'[p] = deliveries[p] /\ head'[p] = head[p] /\ open'[p] = open[p]
  BY DEF Alone
<1>5. QED
  BY <1>1, <1>2, <1>3, <1>4 DEF InLine

LEMMA WorkKept ==
    ASSUME TypeOK, NEW p \in PullRequest, NEW w \in Worker, NEW origin, NEW age,
           Kept(origin, age, p), Of(w, p), Alone(w, p),
           Keeps, \A i \in Rows(p) : rows'[i].sha = rows[i].sha,
           \A n \in Rows(p) : IsNewest(n, p) => Active(p)' \subseteq {n},
           \/ GoesOnWith(w, p) /\ Handling(w, p)'
           \/ Answers(w, p)
    PROVE  Kept(origin, age, p)'
<1>1. InLine(p)'
  BY LineKept DEF Kept
<1>2. Rows(p)' = Rows(p) /\ \A i \in Rows(p) : rows'[i].created = rows[i].created
  <2>1. Rows(p) \subseteq Id
    BY ActiveRows
  <2>2. QED
    BY <2>1 DEF Keeps, SameColumns, PullRequest
<1>3. \A v \in Worker : Of(v, p)' => v = w /\ GoesOnWith(w, p) /\ Handling(w, p)'
  BY DEF Alone, Answers, Of
<1>4. Ages(origin, age, p)'
  <2>1. \A v \in Worker : Of(v, p)' => Of(v, p) /\ task'[v].event = task[v].event
    BY <1>3 DEF GoesOnWith
  <2>2. deliveries'[p] = deliveries[p] /\ head'[p] = head[p]
    BY DEF Alone
  <2>3. Ages(origin, age, p)
    BY DEF Kept
  <2>4. QED
    BY <1>2, <2>1, <2>2, <2>3 DEF Ages, Dated
<1>5. \A i : IsNewest(i, p)' <=> IsNewest(i, p)
  BY <1>2 DEF IsNewest
<1>6. Topped(age, p)'
  BY <1>2, <1>5 DEF Kept, Topped
<1>7. QED
  BY <1>1, <1>3, <1>4, <1>6 DEF Kept

\* A step of the handler w of an event of p that inserts no row.
LEMMA WorkStep ==
    ASSUME TypeOK, Apart, NEW p \in PullRequest, NEW w \in Worker,
           NEW origin, NEW age \in [Sha -> Nat], Lineage(origin, age), Of(w, p),
           NEW t, task' = [task EXCEPT ![w] = t],
           t # Idle => t.event = task[w].event /\ Handling(w, p)',
           t = Idle => Answers(w, p),
           UNCHANGED <<github, sent>>,
           Keeps, \A i \in Id : rows'[i].sha = rows[i].sha,
           \A n \in Rows(p) : IsNewest(n, p) => Active(p)' \subseteq {n},
           \A q \in PullRequest : q # p => Active(q)' \subseteq Active(q)
    PROVE  Lineage(origin, age)'
<1>1. \A v \in Worker : task'[v] = IF v = w THEN t ELSE task[v]
  BY DEF TypeOK
<1>2. /\ \A q : Rows(q) \subseteq Id
      /\ Existing(rows) \subseteq Id
      /\ \A q \in PullRequest : q \in PR
      /\ NoPR \in PR /\ NoPR # p
  BY ActiveRows, RequestsAssumption DEF PullRequest, Existing
<1>3. \A v \in Worker : Of(v, p) => v = w
  BY DEF Apart, Of
<1>4. \A q : q # p => ~Of(w, q) /\ ~Of(w, q)'
  BY <1>1 DEF Of
<1>5. \A q, v : q # p /\ v \in Worker => (Of(v, q)' <=> Of(v, q)) /\ (Of(v, q) => task'[v] = task[v])
  BY <1>1, <1>4 DEF Of
<1>6. ASSUME NEW q \in PullRequest, q # p
      PROVE  Kept(origin, age, q)'
  <2>1. \A i \in Rows(q) : rows'[i].sha = rows[i].sha /\ rows'[i].created = rows[i].created
    BY <1>2 DEF Keeps, SameColumns
  <2>2. Rests(q)
    BY <1>2, <1>5, <1>6, <2>1 DEF Rests, Keeps, github
  <2>3. QED
    BY <2>2, Resting DEF Lineage
<1>7. Kept(origin, age, p)'
  <2>1. Alone(w, p)
    <3>1. \A v \in Worker : v # w => ~Of(v, p) /\ ~Of(v, p)'
      BY <1>1, <1>3 DEF Of
    <3>2. QED
      BY <3>1 DEF Alone, github
  <2>2. GoesOnWith(w, p) \/ t = Idle
    BY <1>1 DEF GoesOnWith, Of
  <2>3. \A i \in Rows(p) : rows'[i].sha = rows[i].sha
    BY <1>2
  <2>4. Kept(origin, age, p)
    BY DEF Lineage
  <2>5. QED
    BY <2>1, <2>2, <2>3, <2>4, WorkKept
<1>8. Owned(origin)'
  BY <1>2 DEF Lineage, Owned, Keeps, SameColumns
<1>9. Building(origin)'
  <2>1. /\ Rows(NoPR)' = Rows(NoPR)
        /\ \A v \in Worker : (Of(v, NoPR)' <=> Of(v, NoPR)) /\ (Of(v, NoPR) => task'[v] = task[v])
    BY <1>2, <1>5 DEF Keeps
  <2>2. QED
    BY <2>1 DEF Lineage, Building, Step
<1>10. Numbered(origin, age)'
  BY DEF Lineage, Numbered
<1>11. QED
  BY <1>6, <1>7, <1>8, <1>9, <1>10 DEF Lineage

\* What is known of the rows of p when its handler comes to a query or a write.
LEMMA WorkFacts ==
    ASSUME TypeOK, NEW p \in PullRequest, NEW w \in Worker, Of(w, p),
           NEW origin, NEW age \in [Sha -> Nat], Lineage(origin, age)
    PROVE  /\ task[w] \in Task /\ task[w] # Idle
           /\ task[w].event.pr = p /\ task[w].event.sha \in Sha
           /\ Handling(w, p)
           /\ Active(p) \subseteq Rows(p) /\ Rows(p) \subseteq Id
           /\ Rows(p) # {} => \E n \in Rows(p) : /\ IsNewest(n, p) /\ Active(p) \subseteq {n}
                                                 /\ Newest(rows, Rows(p)) = n
           /\ \A i, j : IsNewest(i, p) /\ IsNewest(j, p) => i = j
           /\ \A i \in Rows(p) : Exists(rows, i)
<1>1. task[w] \in Task /\ task[w] # Idle /\ task[w].event.pr = p
  BY DEF Of, TypeOK
<1>2. task[w].event.sha \in Sha
  <2>1. task[w].event.sha \in Sha \cup {NULL}
    BY <1>1, TaskOf DEF Event
  <2>2. QED
    BY <2>1 DEF Lineage, Kept, Ages, Dated
<1>3. Active(p) \subseteq Rows(p) /\ Rows(p) \subseteq Id
  BY ActiveRows
<1>4. Rows(p) # {} => \E n \in Rows(p) : IsNewest(n, p) /\ Active(p) \subseteq {n}
  BY DEF Lineage, Kept, Topped
<1>5. \A n : IsNewest(n, p) => Newest(rows, Rows(p)) = n
  <2>1. rows \in Tables
    BY DEF TypeOK, Tables
  <2>2. QED
    BY <1>3, <2>1, NewestUnique DEF IsNewest
<1>6. \A i \in Rows(p) : Exists(rows, i)
  BY DEF Rows, OfPR, Existing
<1>7. Handling(w, p)
  BY DEF Lineage, Kept
<1>8. QED
  BY <1>1, <1>2, <1>3, <1>4, <1>5, <1>6, <1>7

\* A query leaves the rows alone.
LEMMA RowsUnchanged ==
    ASSUME rows' = rows
    PROVE  /\ Keeps
           /\ \A q : Active(q)' = Active(q) /\ Rows(q)' = Rows(q)
           /\ \A i, q : IsNewest(i, q)' <=> IsNewest(i, q)
           /\ \A sha, q : NewestFor(q, sha)' <=> NewestFor(q, sha)
<1>1. \A j \in Id : SameColumns(rows[j], rows[j])
  BY DEF SameColumns
<1>2. \A q : Rows(q)' = Rows(q) /\ Active(q)' = Active(q)
  BY DEF Rows, Active
<1>3. Keeps
  BY <1>1, <1>2 DEF Keeps
<1>4. \A i, q : IsNewest(i, q)' <=> IsNewest(i, q)
  BY <1>2 DEF IsNewest
<1>5. \A sha, q : NewestFor(q, sha)' <=> NewestFor(q, sha)
  BY <1>2, <1>4 DEF NewestFor
<1>6. QED
  BY <1>2, <1>3, <1>4, <1>5

LEMMA FindActiveKeeps ==
    ASSUME TypeOK, Apart, NEW p \in PullRequest, NEW w \in Worker, Of(w, p), FindActive(w),
           NEW origin, NEW age \in [Sha -> Nat], Lineage(origin, age)
    PROVE  Lineage(origin, age)'
<1> DEFINE i == Newest(rows, Active(p))
           e == task[w].event
           t1 == [step |-> "supersede", event |-> e, id |-> i]
           t2 == [step |-> "upsert", event |-> e]
           t == IF i # NULL /\ rows[i].sha # e.sha THEN t1 ELSE t2
<1>1. task' = [task EXCEPT ![w] = t]
  BY DEF FindActive, Of, About, Go, GetActiveByRepoAndPR, Active
<1>2. rows' = rows /\ UNCHANGED <<github, sent>> /\ Step(w, "find active")
  BY DEF FindActive
<1>3. e.action = "synchronize" /\ Active(p) \subseteq Rows(p) /\ Rows(p) \subseteq Id
  BY <1>2, WorkFacts DEF Handling
<1>4. \A n \in Rows(p) : IsNewest(n, p) => Active(p) \subseteq {n}
  BY WorkFacts
<1>5. Active(p) # {} => i \in Active(p) /\ Active(p) \subseteq {i}
  <2>1. rows \in Tables
    BY DEF TypeOK, Tables
  <2>2. Active(p) # {} => i \in Active(p)
    BY <1>3, <2>1, NewestFound
  <2>3. \E n : Active(p) \subseteq {n}
    BY <1>3, WorkFacts
  <2>4. QED
    BY <2>2, <2>3
<1>6. Active(p) = {} => i = NULL
  BY DEF Newest
<1>7. i \in Id => i # NULL
  BY NullIsNoValue
<1>8. i # NULL => i \in Active(p) /\ Active(p) \subseteq {i}
  BY <1>5, <1>6
<1>9. t # Idle /\ t.event = e
  <2>1. t1.event = e /\ t2.event = e
    OBVIOUS
  <2>2. task[w] # Idle
    BY <1>2 DEF Step
  <2>3. t2 \in Task
    BY <2>2, StepType
  <2>4. i \in Id => t1 \in Task
    BY <2>2, StepType
  <2> HIDE DEF t1, t2, i
  <2>5. QED
    BY <1>3, <1>8, <2>1, <2>3, <2>4, IdleIsNoTask
<1>10. task'[w] = t
  BY <1>1 DEF TypeOK
<1>11. Handling(w, p)'
  <2>1. CASE i # NULL /\ rows[i].sha # e.sha
    <3>1. task'[w] = t1
      BY <1>10, <2>1
    <3>2. t1.step = "supersede" /\ t1.event = e /\ t1.id = i
      OBVIOUS
    <3> HIDE DEF t1, e, i
    <3>3. task'[w].step = "supersede" /\ task'[w].event.action = "synchronize" /\ task'[w].id = i
      BY <1>3, <3>1, <3>2
    <3>4. i \in Rows(p)' /\ Active(p)' \subseteq {i}
      BY <1>2, <1>3, <1>8, <2>1, RowsUnchanged
    <3>5. QED
      BY <3>3, <3>4 DEF Handling, Step
  <2>2. CASE ~(i # NULL /\ rows[i].sha # e.sha)
    <3>1. task'[w] = t2
      BY <1>10, <2>2
    <3>2. t2.step = "upsert" /\ t2.event = e
      OBVIOUS
    <3> HIDE DEF t2, i
    <3>3. task'[w].step = "upsert" /\ task'[w].event = e
      BY <3>1, <3>2
    <3>4. \A j \in Active(p)' : rows'[j].sha = e.sha
      BY <1>2, <1>5, <1>7, <1>3, <2>2, RowsUnchanged
    <3>5. QED
      BY <1>3, <3>3, <3>4 DEF Handling, Step
  <2>3. QED
    BY <2>1, <2>2
<1> HIDE DEF t, e
<1>12. /\ Keeps /\ \A q : Active(q)' = Active(q)
       /\ \A j \in Id : rows'[j].sha = rows[j].sha
  BY <1>2, RowsUnchanged
<1>13. QED
  BY <1>1, <1>2, <1>4, <1>9, <1>11, <1>12, WorkStep DEF e

LEMMA FindNewestKeeps ==
    ASSUME TypeOK, Apart, NEW p \in PullRequest, NEW w \in Worker, Of(w, p), FindNewest(w),
           NEW origin, NEW age \in [Sha -> Nat], Lineage(origin, age)
    PROVE  Lineage(origin, age)'
<1> DEFINE i == Newest(rows, Rows(p))
           e == task[w].event
           t1 == [step |-> "close", event |-> e, id |-> i]
           t == IF i = NULL THEN Idle ELSE t1
<1>1. task' = [task EXCEPT ![w] = t]
  BY DEF FindNewest, Of, About, Done, Rows
<1>2. rows' = rows /\ UNCHANGED <<github, sent>> /\ Step(w, "find newest")
  BY DEF FindNewest
<1>3. e.action = "closed" /\ NewestFor(p, e.sha) /\ Active(p) \subseteq Rows(p) /\ Rows(p) \subseteq Id
  BY <1>2, WorkFacts DEF Handling
<1>4. \A n \in Rows(p) : IsNewest(n, p) => Active(p) \subseteq {n}
  BY WorkFacts
<1>5. Rows(p) # {} => i \in Rows(p) /\ IsNewest(i, p) /\ rows[i].sha = e.sha
  BY <1>3, WorkFacts DEF NewestFor
<1>6. Rows(p) = {} => i = NULL
  BY DEF Newest
<1>7. i \in Id => i # NULL
  BY NullIsNoValue
<1>8. task'[w] = t
  BY <1>1 DEF TypeOK
<1>9. ASSUME i # NULL
      PROVE  t # Idle /\ t.event = e /\ Handling(w, p)'
  <2>1. i \in Id
    BY <1>3, <1>5, <1>6, <1>9
  <2>2. t1 \in Task /\ t1.step = "close" /\ t1.event = e /\ t1.id = i
    BY <1>2, <2>1, StepType DEF Step
  <2>3. t = t1
    BY <1>9
  <2> HIDE DEF t, t1, i, e
  <2>4. (\A n : n = i => IsNewest(n, p)') /\ rows'[i].sha = e.sha
    BY <1>2, <1>5, <1>6, <1>9, RowsUnchanged
  <2>5. task'[w].step = "close" /\ task'[w].id = i /\ task'[w].event = e
    BY <1>8, <2>2, <2>3
  <2>6. Handling(w, p)'
    BY <1>3, <2>4, <2>5 DEF Handling, Step
  <2>7. QED
    BY <2>2, <2>3, <2>6, IdleIsNoTask
<1>10. ASSUME i = NULL
       PROVE  t = Idle /\ Answers(w, p)
  <2>1. Rows(p) = {} /\ t = Idle
    BY <1>3, <1>5, <1>7, <1>10
  <2>2. Rows(p)' = {} /\ Active(p)' = {}
    BY <1>2, <1>3, <2>1, RowsUnchanged
  <2>3. QED
    BY <1>8, <2>1, <2>2 DEF Answers, NewestFor
<1> HIDE DEF t, e, i
<1>11. /\ Keeps /\ \A q : Active(q)' = Active(q)
       /\ \A j \in Id : rows'[j].sha = rows[j].sha
  BY <1>2, RowsUnchanged
<1>12. QED
  BY <1>1, <1>2, <1>4, <1>9, <1>10, <1>11, WorkStep DEF e

\* An update that names no commit.
LEMMA EndKeeps ==
    ASSUME TypeOK, NEW i \in Id, Exists(rows, i), NEW to \in Statuses,
           rows' = Updated(rows, i, to, NoFields)
    PROVE  /\ Keeps
           /\ \A j \in Id : rows'[j].sha = rows[j].sha
           /\ to \notin ActiveStatuses => \A q \in PR : Active(q)' = Active(q) \ {i}
           /\ to \in ActiveStatuses => \A q \in PR : Active(q)' \subseteq Active(q) \cup {i}
<1>1. /\ Keeps
      /\ \A j \in Id : rows'[j].sha = IF j = i THEN Coalesce(rows[i].sha, NoFields.sha) ELSE rows[j].sha
      /\ to \notin ActiveStatuses => \A q \in PR : Active(q)' = Active(q) \ {i}
      /\ to \in ActiveStatuses => \A q \in PR : Active(q)' \subseteq Active(q) \cup {i}
  BY UpdateKeeps
<1>2. Coalesce(rows[i].sha, NoFields.sha) = rows[i].sha
  BY DEF Coalesce, NoFields
<1>3. QED
  BY <1>1, <1>2

LEMMA NewestStays ==
    ASSUME NEW p \in PullRequest, Keeps, \A i \in Id : rows'[i].sha = rows[i].sha
    PROVE  /\ \A i : IsNewest(i, p)' <=> IsNewest(i, p)
           /\ \A sha : NewestFor(p, sha)' <=> NewestFor(p, sha)
<1>1. Rows(p)' = Rows(p) /\ Rows(p) \subseteq Id
  BY ActiveRows DEF Keeps, PullRequest
<1>2. \A i \in Id : rows'[i].created = rows[i].created
  BY DEF Keeps, SameColumns
<1>3. \A i : IsNewest(i, p)' <=> IsNewest(i, p)
  BY <1>1, <1>2 DEF IsNewest
<1>4. \A sha : NewestFor(p, sha)' <=> NewestFor(p, sha)
  BY <1>1, <1>3 DEF NewestFor
<1>5. QED
  BY <1>3, <1>4

LEMMA SupersedeKeeps ==
    ASSUME TypeOK, Apart, NEW p \in PullRequest, NEW w \in Worker, Of(w, p), Supersede(w),
           NEW origin, NEW age \in [Sha -> Nat], Lineage(origin, age)
    PROVE  Lineage(origin, age)'
<1> DEFINE i == task[w].id
           e == task[w].event
           t == [step |-> "upsert", event |-> e]
<1>1. /\ task' = [task EXCEPT ![w] = t] /\ UNCHANGED <<github, sent>> /\ Step(w, "supersede")
      /\ rows' = Updated(rows, i, "teardown", NoFields)
  BY DEF Supersede, Go
<1>2. /\ e.action = "synchronize" /\ i \in Rows(p) /\ Active(p) \subseteq {i}
      /\ i \in Id /\ Exists(rows, i)
  <2>1. e.action = "synchronize" /\ i \in Rows(p) /\ Active(p) \subseteq {i}
    BY <1>1, WorkFacts DEF Handling
  <2>2. QED
    BY <2>1, WorkFacts
<1>3. /\ Keeps /\ \A j \in Id : rows'[j].sha = rows[j].sha
      /\ \A q \in PR : Active(q)' = Active(q) \ {i}
  BY <1>1, <1>2, EndKeeps DEF Statuses, ActiveStatuses
<1>4. Active(p)' = {} /\ \A q \in PullRequest : Active(q)' \subseteq Active(q)
  BY <1>2, <1>3 DEF PullRequest
<1>5. t # Idle /\ t.event = e /\ t.step = "upsert"
  <2>1. t \in Task
    BY <1>1, StepType DEF Step
  <2>2. QED
    BY <2>1, IdleIsNoTask
<1>6. task'[w] = t
  BY <1>1 DEF TypeOK
<1>7. Handling(w, p)'
  <2> HIDE DEF t, e
  <2>1. task'[w].event.action = "synchronize" /\ task'[w].step = "upsert"
    BY <1>2, <1>5, <1>6
  <2>2. QED
    BY <1>4, <2>1 DEF Handling, Step
<1> HIDE DEF t, i, e
<1>8. \A n \in Rows(p) : IsNewest(n, p) => Active(p)' \subseteq {n}
  BY <1>4
<1>9. QED
  BY <1>1, <1>3, <1>4, <1>5, <1>7, <1>8, WorkStep DEF e

LEMMA CloseKeeps ==
    ASSUME TypeOK, Apart, NEW p \in PullRequest, NEW w \in Worker, Of(w, p), Close(w),
           NEW origin, NEW age \in [Sha -> Nat], Lineage(origin, age)
    PROVE  Lineage(origin, age)'
<1> DEFINE i == task[w].id
           e == task[w].event
<1>1. /\ task' = [task EXCEPT ![w] = Idle] /\ UNCHANGED <<github, sent>> /\ Step(w, "close")
      /\ rows' = Updated(rows, i, "teardown", NoFields)
  BY DEF Close, Done
<1>2. IsNewest(i, p) /\ rows[i].sha = e.sha
  BY <1>1, WorkFacts DEF Handling
<1>3. i \in Rows(p) /\ i \in Id /\ Exists(rows, i) /\ \A j : IsNewest(j, p) => j = i
  BY <1>2, WorkFacts DEF IsNewest
<1>4. /\ Keeps /\ \A j \in Id : rows'[j].sha = rows[j].sha
      /\ \A q \in PR : Active(q)' = Active(q) \ {i}
  BY <1>1, <1>3, EndKeeps DEF Statuses, ActiveStatuses
<1>5. Active(p) \subseteq {i}
  BY <1>3, WorkFacts
<1>6. Active(p)' = {} /\ \A q \in PullRequest : Active(q)' \subseteq Active(q)
  BY <1>4, <1>5 DEF PullRequest
<1>7. NewestFor(p, e.sha)
  BY <1>2, <1>3 DEF NewestFor
<1>8. Answers(w, p)
  <2>1. \A sha : sha = e.sha => NewestFor(p, sha)'
    BY <1>4, <1>7, NewestStays
  <2>2. task'[w] = Idle
    BY <1>1 DEF TypeOK
  <2>3. QED
    BY <1>6, <2>1, <2>2 DEF Answers
<1> HIDE DEF i, e
<1>9. \A n \in Rows(p) : IsNewest(n, p) => Active(p)' \subseteq {n}
  BY <1>6
<1>10. QED
  BY <1>1, <1>4, <1>6, <1>8, <1>9, WorkStep

LEMMA RequeueKeeps ==
    ASSUME TypeOK, Apart, NEW p \in PullRequest, NEW w \in Worker, Of(w, p), Requeue(w),
           NEW origin, NEW age \in [Sha -> Nat], Lineage(origin, age)
    PROVE  Lineage(origin, age)'
<1> DEFINE i == task[w].id
           e == task[w].event
<1>1. /\ task' = [task EXCEPT ![w] = Idle] /\ UNCHANGED <<github, sent>> /\ Step(w, "requeue")
      /\ rows' = rows \/ rows' = Updated(rows, i, "queued", NoFields)
  BY DEF Requeue, Done
<1>2. IsNewest(i, p) /\ rows[i].sha = e.sha /\ e.action # "closed"
  BY <1>1, WorkFacts DEF Handling
<1>3. /\ i \in Rows(p) /\ i \in Id /\ Exists(rows, i) /\ \A j : IsNewest(j, p) => j = i
      /\ Active(p) \subseteq {i}
  BY <1>2, WorkFacts DEF IsNewest
<1>4. /\ Keeps /\ \A j \in Id : rows'[j].sha = rows[j].sha
      /\ \A q \in PR : Active(q)' \subseteq Active(q) \cup {i}
  <2>1. CASE rows' = rows
    BY <2>1, RowsUnchanged
  <2>2. CASE rows' = Updated(rows, i, "queued", NoFields)
    BY <1>3, <2>2, EndKeeps DEF Statuses, ActiveStatuses
  <2>3. QED
    BY <1>1, <2>1, <2>2
<1>5. Active(p)' \subseteq {i}
  BY <1>3, <1>4 DEF PullRequest
<1>6. ASSUME NEW q \in PullRequest, q # p
      PROVE  Active(q)' \subseteq Active(q)
  <2>1. q \in PR
    BY DEF PullRequest
  <2>2. Rows(q)' = Rows(q) /\ Active(q)' \subseteq Rows(q)'
    BY <1>4, <2>1, ActiveRows DEF Keeps
  <2>3. i \notin Rows(q)
    BY <1>3, <1>6 DEF Rows, OfPR
  <2>4. QED
    BY <1>4, <2>1, <2>2, <2>3
<1>7. NewestFor(p, e.sha)
  BY <1>2, <1>3 DEF NewestFor
<1>8. Answers(w, p)
  <2>1. \A sha : sha = e.sha => NewestFor(p, sha)'
    BY <1>4, <1>7, NewestStays
  <2>2. task'[w] = Idle
    BY <1>1 DEF TypeOK
  <2>3. QED
    BY <1>2, <2>1, <2>2 DEF Answers
<1>9. \A n \in Rows(p) : IsNewest(n, p) => Active(p)' \subseteq {n}
  BY <1>3, <1>5
<1> HIDE DEF i, e
<1>10. QED
  BY <1>1, <1>4, <1>6, <1>8, <1>9, WorkStep

LEMMA UpsertSameKeeps ==
    ASSUME TypeOK, Apart, NEW p \in PullRequest, NEW w \in Worker, Of(w, p),
           NEW i \in Id, UpsertSame(w, i),
           NEW origin, NEW age \in [Sha -> Nat], Lineage(origin, age)
    PROVE  Lineage(origin, age)'
<1> DEFINE e == task[w].event
           s == rows[i].status
           t == IF e.action # "test build" /\ s \in {"done", "failed"}
                THEN [step |-> "requeue", event |-> e, id |-> i, from |-> s]
                ELSE Idle
<1>1. /\ task' = [task EXCEPT ![w] = t] /\ UNCHANGED <<github, sent>> /\ Step(w, "upsert")
      /\ rows' = Merged(rows, i, DraftOf(e))
      /\ i \in WithSha(rows, TheRepo, e.sha)
  BY DEF UpsertSame, From, Done
<1>2. /\ i \in Existing(rows) /\ rows[i].sha = e.sha /\ rows[i].repo = TheRepo
      /\ e.sha \in Sha /\ e.pr = p /\ e.action \notin {"closed", "test build"}
      /\ Active(p) \subseteq Rows(p) /\ Rows(p) \subseteq Id
  <2>1. i \in Existing(rows) /\ rows[i].sha = e.sha /\ rows[i].repo = TheRepo
    BY <1>1 DEF WithSha
  <2>2. Handling(w, p) /\ e.sha \in Sha /\ e.pr = p /\ Active(p) \subseteq Rows(p) /\ Rows(p) \subseteq Id
    BY WorkFacts
  <2>3. e.action \notin {"closed", "test build"}
    BY <1>1, <2>2 DEF Handling
  <2>4. QED
    BY <2>1, <2>2, <2>3
<1>3. rows[i].pr = p /\ rows[i].branch = TheBranch /\ i \in Rows(p)
  <2>1. e.sha # NULL
    BY <1>2, NullIsNoValue
  <2>2. origin[e.sha] = p
    BY DEF Lineage, Kept, Ages, Dated
  <2>3. rows[i].pr = p /\ rows[i].branch = TheBranch
    BY <1>2, <2>1, <2>2 DEF Lineage, Owned
  <2>4. QED
    BY <1>2, <2>3 DEF Rows, OfPR
<1>4. IsNewest(i, p) /\ Active(p) \subseteq {i}
  <2>1. PICK n \in Rows(p) : /\ IsNewest(n, p) /\ Active(p) \subseteq {n}
                             /\ \A j \in Rows(p) : j # n => age[rows[j].sha] < age[rows[n].sha]
    BY <1>3 DEF Lineage, Kept, Topped
  <2>2. /\ age[rows[n].sha] <= age[e.sha]
        /\ rows[n].sha \in Sha
    <3>1. Ages(origin, age, p)
      BY DEF Lineage, Kept
    <3>2. rows[n].sha \in Sha \cup {NULL}
      <4>1. n \in Id
        BY <1>2
      <4>2. QED
        BY <4>1 DEF TypeOK, Row
    <3>3. QED
      BY <3>1, <3>2 DEF Ages, Dated
  <2>3. age[rows[n].sha] \in Nat /\ age[e.sha] \in Nat
    BY <1>2, <2>2
  <2>4. i = n
    <3>1. rows[i].sha = e.sha /\ (i # n => age[rows[i].sha] < age[rows[n].sha])
      BY <1>2, <1>3, <2>1
    <3> HIDE DEF e
    <3>2. QED
      BY <2>2, <2>3, <3>1
  <2>5. QED
    BY <2>1, <2>4
<1>5. /\ Keeps
      /\ \A j \in Id : rows'[j].sha = rows[j].sha
      /\ \A q \in PR : Active(q)' = Active(q)
  <2>1. DraftOf(e).pr = rows[i].pr /\ DraftOf(e).branch = rows[i].branch
    BY <1>2, <1>3 DEF DraftOf
  <2>2. QED
    BY <1>1, <2>1, MergeKeeps
<1>6. \A q \in PullRequest : Active(q)' = Active(q)
  BY <1>5 DEF PullRequest
<1>7. /\ \A n : n = i => IsNewest(n, p)'
      /\ NewestFor(p, e.sha)
      /\ \A sha : NewestFor(p, sha) => NewestFor(p, sha)'
      /\ rows'[i].sha = e.sha
  <2>1. \A n : n = i => IsNewest(n, p)'
    BY <1>4, <1>5, NewestStays
  <2>2. NewestFor(p, e.sha)
    BY <1>2, <1>4, WorkFacts DEF NewestFor
  <2>3. \A sha : NewestFor(p, sha) => NewestFor(p, sha)'
    BY <1>5, NewestStays
  <2>4. QED
    BY <1>2, <1>5, <2>1, <2>2, <2>3
<1>8. task'[w] = t
  BY <1>1 DEF TypeOK
<1>9. ASSUME s \in {"done", "failed"}
      PROVE  t # Idle /\ t.event = e /\ Handling(w, p)'
  <2>1. t \in Task /\ t.step = "requeue" /\ t.event = e /\ t.id = i
    <3> DEFINE u == [step |-> "requeue", event |-> e, id |-> i, from |-> s]
    <3>1. u \in Task
      BY <1>1, <1>9, StepType DEF Step, Statuses
    <3>2. u.step = "requeue" /\ u.event = e /\ u.id = i
      OBVIOUS
    <3>3. t = u
      BY <1>2, <1>9
    <3>4. QED
      BY <3>1, <3>2, <3>3
  <2> HIDE DEF t, e
  <2>2. task'[w].step = "requeue" /\ task'[w].event = e /\ task'[w].id = i
    BY <1>8, <2>1
  <2>3. Handling(w, p)'
    BY <1>2, <1>7, <2>2 DEF Handling, Step
  <2>4. QED
    BY <2>1, <2>3, IdleIsNoTask
<1>10. ASSUME s \notin {"done", "failed"}
       PROVE  t = Idle /\ Answers(w, p)
  <2>1. t = Idle
    BY <1>10
  <2>2. QED
    BY <1>2, <1>7, <1>8, <2>1 DEF Answers
<1> HIDE DEF t, e, s
<1>11. \A n \in Rows(p) : IsNewest(n, p) => Active(p)' \subseteq {n}
  BY <1>6, WorkFacts
<1>12. QED
  BY <1>1, <1>5, <1>6, <1>9, <1>10, <1>11, WorkStep DEF e

\* Test builds are of no pull request, and an event is about a commit of its own.
Meant(origin, e) == /\ e.action = "test build" <=> e.pr = NoPR
                    /\ e.sha = NULL => e.pr = NoPR
                    /\ e.sha # NULL => origin[e.sha] = e.pr

\* What a new row changes.
LEMMA InsertKeeps ==
    ASSUME TypeOK, NEW e \in Event, NEW i \in Id, ~Exists(rows, i),
           rows' = Inserted(rows, i, DraftOf(e)),
           NEW origin, Owned(origin), Meant(origin, e)
    PROVE  /\ \A q \in PR : q # e.pr => Rows(q)' = Rows(q) /\ Active(q)' = Active(q)
           /\ \A q : q = e.pr => Rows(q)' = Rows(q) \cup {i} /\ Active(q)' = Active(q) \cup {i}
           /\ \A j \in Existing(rows) : rows'[j] = rows[j] /\ rows[j].created < rows'[i].created
           /\ i \notin Existing(rows)
           /\ rows'[i].sha = e.sha
           /\ Owned(origin)'
<1> DEFINE d == DraftOf(e)
           u == Inserted(rows, i, d)
<1>0. rows \in Tables
  BY DEF TypeOK, Tables
<1>1. PICK n \in Nat :
      /\ \A j \in Id : j # i => u[j] = rows[j]
      /\ u[i].repo = TheRepo /\ u[i].pr = e.pr /\ u[i].branch = TheBranch
      /\ u[i].sha = e.sha /\ u[i].status = "queued"
      /\ n = Cardinality(Existing(rows))
      /\ u[i].created = n + 1
      /\ Existing(u) = Existing(rows) \cup {i}
      /\ Cardinality(Existing(u)) = n + 1
  <2> DEFINE m == Cardinality(Existing(rows))
  <2>1. /\ \A j \in Id : j # i => u[j] = rows[j]
        /\ u[i].repo = d.repo /\ u[i].pr = d.pr /\ u[i].branch = d.branch
        /\ u[i].sha = d.sha /\ u[i].status = "queued"
        /\ m \in Nat
        /\ u[i].created = m + 1
        /\ Existing(u) = Existing(rows) \cup {i}
        /\ Cardinality(Existing(u)) = m + 1
    <3> HIDE DEF d
    <3>1. QED
      BY <1>0, InsertedRow
  <2>2. /\ d.repo = TheRepo /\ d.pr = e.pr /\ d.branch = TheBranch /\ d.sha = e.sha
    BY DEF DraftOf
  <2> HIDE DEF u, d
  <2> HIDE DEF m
  <2>3. /\ \A j \in Id : j # i => u[j] = rows[j]
        /\ u[i].repo = TheRepo /\ u[i].pr = e.pr /\ u[i].branch = TheBranch
        /\ u[i].sha = e.sha /\ u[i].status = "queued"
        /\ u[i].created = m + 1
        /\ Existing(u) = Existing(rows) \cup {i}
        /\ Cardinality(Existing(u)) = m + 1
    BY <2>1, <2>2
  <2>4. m \in Nat /\ m = Cardinality(Existing(rows))
    BY <2>1 DEF m
  <2>5. QED
    BY <2>3, <2>4
<1>2. rows' = u
  OBVIOUS
<1> HIDE DEF d, u
<1>3. i \notin Existing(rows) /\ Existing(rows) \subseteq Id
  BY DEF Existing
<1>4. Existing(rows') = Existing(rows) \cup {i}
  BY <1>1, <1>2
<1>5. n = Cardinality(Existing(rows)) /\ n \in Nat
  BY <1>1
<1>6. rows'[i].created = n + 1
  BY <1>1, <1>2
<1>7. Cardinality(Existing(rows')) = n + 1
  BY <1>1, <1>2
<1>8. /\ rows'[i].repo = TheRepo /\ rows'[i].pr = e.pr /\ rows'[i].branch = TheBranch
       /\ rows'[i].sha = e.sha /\ rows'[i].status = "queued"
  BY <1>1, <1>2
<1>9. rows'[i].adhoc <=> e.pr = NoPR
  <2>1. u[i].adhoc = d.adhoc
    <3> HIDE DEF d
    <3>1. QED
      BY <1>0, InsertedRow DEF u
  <2>2. d.adhoc = (e.action = "test build")
    BY DEF d, DraftOf
  <2>3. QED
    BY <1>2, <2>1, <2>2 DEF Meant
<1>10. \A j \in Id : j # i => rows'[j] = rows[j]
  BY <1>1, <1>2
<1>11. \A j \in Existing(rows) : rows'[j] = rows[j] /\ rows[j].created < rows'[i].created
  <2> TAKE j \in Existing(rows)
  <2>1. rows'[j] = rows[j]
    BY <1>3, <1>10
  <2>2. rows[j].created <= n
    BY <1>5 DEF Owned
  <2>3. rows[j].created \in Nat
    BY <1>0, <1>3 DEF Tables, Row
  <2>4. QED
    BY <1>5, <1>6, <2>1, <2>2, <2>3
<1>12. \A q : Rows(q)' = IF q = e.pr THEN Rows(q) \cup {i} ELSE Rows(q)
  <2> TAKE q
  <2>1. Rows(q)' = {j \in Existing(rows) \cup {i} : rows'[j].repo = TheRepo /\ rows'[j].pr = q}
    BY <1>4 DEF Rows, OfPR
  <2>2. Rows(q) = {j \in Existing(rows) : rows[j].repo = TheRepo /\ rows[j].pr = q}
    BY DEF Rows, OfPR
  <2>3. QED
    <3>1. CASE q = e.pr
      BY <1>3, <1>11, <1>8, <2>1, <2>2, <3>1
    <3>2. CASE q # e.pr
      BY <1>3, <1>11, <1>8, <2>1, <2>2, <3>2
    <3>3. QED
      BY <3>1, <3>2
<1>13. \A q : Active(q)' = IF q = e.pr THEN Active(q) \cup {i} ELSE Active(q)
  <2> TAKE q
  <2>1. \A j \in Id : /\ j \in Active(q) <=> j \in Rows(q) /\ rows[j].status \in ActiveStatuses
                      /\ j \in Active(q)' <=> j \in Rows(q)' /\ rows'[j].status \in ActiveStatuses
    BY ActiveRows
  <2>2. Active(q) \subseteq Id /\ Active(q)' \subseteq Id /\ Rows(q) \subseteq Existing(rows)
    BY ActiveRows DEF Rows, OfPR
  <2>3. rows'[i].status \in ActiveStatuses
    BY <1>8 DEF ActiveStatuses
  <2>4. CASE q = e.pr
    <3>1. \A j \in Id : j \in Active(q)' <=> j \in Active(q) \/ j = i
      BY <1>11, <1>12, <2>1, <2>2, <2>3, <2>4
    <3>2. QED
      BY <2>2, <2>4, <3>1
  <2>5. CASE q # e.pr
    <3>1. \A j \in Id : j \in Active(q)' <=> j \in Active(q)
      BY <1>11, <1>12, <2>1, <2>2, <2>5
    <3>2. QED
      BY <2>2, <2>5, <3>1
  <2>6. QED
    BY <2>4, <2>5
<1>14. Owned(origin)'
  <2> SUFFICES ASSUME NEW j \in Existing(rows')
               PROVE  /\ rows'[j].repo = TheRepo /\ rows'[j].branch = TheBranch
                      /\ rows'[j].adhoc <=> rows'[j].pr = NoPR
                      /\ rows'[j].created <= Cardinality(Existing(rows'))
                      /\ rows'[j].sha = NULL => rows'[j].pr = NoPR
                      /\ rows'[j].sha # NULL => origin[rows'[j].sha] = rows'[j].pr
    BY DEF Owned
  <2>1. CASE j = i
    <3>1. rows'[j].created <= Cardinality(Existing(rows'))
      BY <1>5, <1>6, <1>7, <2>1
    <3>2. QED
      BY <1>8, <1>9, <2>1, <3>1 DEF Meant
  <2>2. CASE j # i
    <3>1. j \in Existing(rows) /\ rows'[j] = rows[j]
      BY <1>11, <1>4, <2>2
    <3>2. rows[j].created \in Nat
      BY <1>0, <1>3, <3>1 DEF Tables, Row
    <3>3. rows'[j].created <= Cardinality(Existing(rows'))
      <4>1. rows[j].created <= n
        BY <1>5, <3>1 DEF Owned
      <4>2. QED
        BY <1>5, <1>7, <3>1, <3>2, <4>1
    <3>4. QED
      BY <3>1, <3>3 DEF Owned
  <2>3. QED
    BY <2>1, <2>2
<1>15. QED
  BY <1>3, <1>11, <1>12, <1>13, <1>14, <1>8

\* Cases B and D: the new row is for a later commit than all the others.
LEMMA UpsertNewKeeps ==
    ASSUME TypeOK, Apart, NEW p \in PullRequest, NEW w \in Worker, Of(w, p),
           NEW i \in Id, UpsertNew(w, i),
           NEW origin, NEW age \in [Sha -> Nat], Lineage(origin, age)
    PROVE  Lineage(origin, age)'
<1> DEFINE e == task[w].event
<1>1. /\ task' = [task EXCEPT ![w] = Idle] /\ UNCHANGED <<github, sent>> /\ Step(w, "upsert")
      /\ rows' = Inserted(rows, i, DraftOf(e)) /\ ~Exists(rows, i)
      /\ WithSha(rows, TheRepo, e.sha) = {}
  BY DEF UpsertNew, Done
<1>2. /\ Handling(w, p) /\ e \in Event /\ e.sha \in Sha /\ e.pr = p
      /\ Active(p) \subseteq Rows(p) /\ Rows(p) \subseteq Id
  BY WorkFacts, TaskOf
<1>3. e.action \notin {"closed", "test build"} /\ \A j \in Active(p) : rows[j].sha = e.sha
  BY <1>1, <1>2 DEF Handling
<1>4. e.sha # NULL /\ p \in PR /\ p # NoPR /\ NoPR \in PR
  BY <1>2, NullIsNoValue, RequestsAssumption DEF PullRequest
<1>5. Ages(origin, age, p) /\ Owned(origin) /\ Building(origin) /\ Numbered(origin, age)
      /\ InLine(p) /\ Topped(age, p)
  BY DEF Lineage, Kept
<1>6. Dated(origin, age, p, e.sha)
  BY <1>5 DEF Ages
<1>7. Meant(origin, e)
  BY <1>2, <1>3, <1>4, <1>6 DEF Meant, Dated
<1>8. /\ \A q \in PR : q # p => Rows(q)' = Rows(q) /\ Active(q)' = Active(q)
      /\ Rows(p)' = Rows(p) \cup {i} /\ Active(p)' = Active(p) \cup {i}
      /\ \A j \in Existing(rows) : rows'[j] = rows[j] /\ rows[j].created < rows'[i].created
      /\ i \notin Existing(rows)
      /\ rows'[i].sha = e.sha
      /\ Owned(origin)'
  BY <1>1, <1>2, <1>5, <1>7, InsertKeeps
<1> HIDE DEF e
<1>9. \A q : Rows(q) \subseteq Existing(rows) /\ Active(q) \subseteq Rows(q)
  BY ActiveRows DEF Rows, OfPR
<1>10. \A j \in Rows(p) : rows[j].sha # e.sha /\ j # i
  BY <1>1, <1>4, <1>8, <1>9 DEF WithSha, Rows, OfPR
<1>11. Active(p)' = {i}
  BY <1>3, <1>8, <1>9, <1>10
<1>12. \A v \in Worker : (v = w => task'[v] = Idle) /\ (v # w => task'[v] = task[v] /\ ~Of(v, p))
  BY <1>1 DEF TypeOK, Apart, Of
<1>13. \A v \in Worker : ~Of(v, p)'
  BY <1>12 DEF Of
<1>14. (\A n : n = i => IsNewest(n, p)') /\ \A n : IsNewest(n, p)' => n = i
  <2>1. \A j \in Rows(p) : rows'[j].created < rows'[i].created /\ i \in Rows(p)'
    BY <1>8, <1>9
  <2>2. \A n : n = i => IsNewest(n, p)'
    BY <1>8, <2>1 DEF IsNewest
  <2>3. ASSUME NEW n, IsNewest(n, p)', n # i
        PROVE  FALSE
    <3>1. n \in Rows(p) /\ rows'[i].created < rows'[n].created /\ rows'[n].created < rows'[i].created
      BY <1>8, <2>1, <2>3 DEF IsNewest
    <3>2. rows'[i].created \in Nat /\ rows'[n].created \in Nat
      <4>1. rows' \in Tables
        <5>1. DraftOf(e) \in Draft
          BY <1>2, DraftType
        <5>2. QED
          BY <1>1, <5>1, InsertedType DEF TypeOK, Tables
      <4>2. n \in Id
        BY <1>2, <3>1
      <4>3. QED
        BY <4>1, <4>2 DEF Tables, Row
    <3>3. QED
      BY <3>1, <3>2
  <2>4. QED
    BY <2>2, <2>3
<1>15. InLine(p)'
  <2>1. Alone(w, p)
    BY <1>1, <1>12, <1>13 DEF Alone, github
  <2>2. Answers(w, p)
    <3>1. \A sha : sha = e.sha => NewestFor(p, sha)'
      BY <1>8, <1>14 DEF NewestFor
    <3>2. QED
      BY <1>3, <1>12, <3>1 DEF Answers, e
  <2>3. QED
    BY <1>5, <2>1, <2>2, LineKept
<1>16. /\ deliveries' = deliveries /\ head' = head /\ open' = open
       /\ \A j \in Rows(p)' : rows'[j].sha = IF j = i THEN e.sha ELSE rows[j].sha
       /\ \A j \in Rows(p)' : j # i => j \in Rows(p)
  BY <1>1, <1>8, <1>9 DEF github
<1>17. Ages(origin, age, p)'
  <2>1. /\ age[e.sha] <= age[head[p]]
        /\ \A k \in 1..Len(deliveries[p]) : age[e.sha] <= age[deliveries[p][k].sha]
    BY <1>5 DEF Ages, e
  <2>2. \A j \in Rows(p)' :
           /\ Dated(origin, age, p, rows'[j].sha)
           /\ age[rows'[j].sha] <= age[head[p]]
           /\ \A k \in 1..Len(deliveries[p]) : age[rows'[j].sha] <= age[deliveries[p][k].sha]
    BY <1>5, <1>6, <1>16, <2>1 DEF Ages
  <2>3. /\ head[p] # NULL => Dated(origin, age, p, head[p])
        /\ \A k \in 1..Len(deliveries[p]) :
              /\ Dated(origin, age, p, deliveries[p][k].sha)
              /\ age[deliveries[p][k].sha] <= age[head[p]]
              /\ \A j \in 1..k : age[deliveries[p][j].sha] <= age[deliveries[p][k].sha]
    BY <1>5 DEF Ages
  <2>4. QED
    BY <1>13, <1>16, <2>2, <2>3 DEF Ages, Dated
<1>18. Topped(age, p)'
  <2>1. \A j \in Rows(p) : age[rows[j].sha] < age[e.sha]
    <3> TAKE j \in Rows(p)
    <3>1. Dated(origin, age, p, rows[j].sha) /\ age[rows[j].sha] <= age[e.sha]
      BY <1>5 DEF Ages, e
    <3>2. rows[j].sha \in Sha
      <4>1. rows[j].sha \in Sha \cup {NULL}
        BY <1>2 DEF TypeOK, Row
      <4>2. QED
        BY <3>1, <4>1 DEF Dated
    <3>3. age[rows[j].sha] # age[e.sha]
      BY <1>2, <1>5, <1>6, <1>10, <3>1, <3>2 DEF Numbered, Dated
    <3>4. age[rows[j].sha] \in Nat /\ age[e.sha] \in Nat
      BY <1>2, <3>2
    <3>5. QED
      BY <3>1, <3>3, <3>4
  <2>2. \A j \in Rows(p)' : j # i => age[rows'[j].sha] < age[rows'[i].sha]
    BY <1>8, <1>16, <2>1
  <2>3. i \in Rows(p)' /\ Active(p)' \subseteq {i}
    BY <1>8, <1>11
  <2>4. QED
    BY <1>14, <2>2, <2>3 DEF Topped
<1>19. Kept(origin, age, p)'
  BY <1>13, <1>15, <1>17, <1>18 DEF Kept
<1>20. \A q : q # p => \A v \in Worker : (Of(v, q)' <=> Of(v, q)) /\ (Of(v, q) => task'[v] = task[v])
  BY <1>2, <1>12 DEF Of, e
<1>21. ASSUME NEW q \in PullRequest, q # p
       PROVE  Kept(origin, age, q)'
  <2>1. q \in PR
    BY DEF PullRequest
  <2>2. Rests(q)
    BY <1>8, <1>9, <1>16, <1>20, <1>21, <2>1 DEF Rests
  <2>3. QED
    BY <2>2, Resting DEF Lineage
<1>22. Building(origin)'
  <2>1. Rows(NoPR)' = Rows(NoPR)
    BY <1>4, <1>8
  <2>2. \A v \in Worker : (Of(v, NoPR)' <=> Of(v, NoPR)) /\ (Of(v, NoPR) => task'[v] = task[v])
    BY <1>4, <1>20
  <2>3. QED
    BY <1>5, <2>1, <2>2 DEF Building, Step
<1>23. Numbered(origin, age)'
  BY <1>1, <1>5 DEF Numbered
<1>24. QED
  BY <1>8, <1>19, <1>21, <1>22, <1>23 DEF Lineage

-----------------------------------------------------------------------------
(* What a test build does. *)

\* A step of the handler w of a test build that inserts no row.
LEMMA BuildStep ==
    ASSUME TypeOK, Apart, NEW w \in Worker, Of(w, NoPR),
           NEW origin, NEW age \in [Sha -> Nat], Lineage(origin, age),
           NEW t, task' = [task EXCEPT ![w] = t],
           t # Idle => /\ t.event = task[w].event /\ t.step \in {"upsert", "requeue"}
                       /\ t.step = "upsert" => Rows(NoPR) = {}
                       /\ t.step = "requeue" => t.id \in Rows(NoPR),
           UNCHANGED <<github, sent>>,
           Keeps, \A i \in Id : rows'[i].sha = rows[i].sha,
           \A q \in PullRequest : Active(q)' \subseteq Active(q)
    PROVE  Lineage(origin, age)'
<1>1. \A v \in Worker : task'[v] = IF v = w THEN t ELSE task[v]
  BY DEF TypeOK
<1>2. /\ \A q : Rows(q) \subseteq Id
      /\ Existing(rows) \subseteq Id
      /\ \A q \in PullRequest : q \in PR /\ q # NoPR
      /\ NoPR \in PR
  BY ActiveRows, RequestsAssumption DEF PullRequest, Existing
<1>3. \A v \in Worker : Of(v, NoPR) => v = w
  BY DEF Apart, Of
<1>4. \A q, v : q # NoPR /\ v \in Worker => (Of(v, q)' <=> Of(v, q)) /\ (Of(v, q) => task'[v] = task[v])
  BY <1>1 DEF Of
<1>5. ASSUME NEW q \in PullRequest
      PROVE  Kept(origin, age, q)'
  <2>1. \A i \in Rows(q) : rows'[i].sha = rows[i].sha /\ rows'[i].created = rows[i].created
    BY <1>2 DEF Keeps, SameColumns
  <2>2. Rests(q)
    BY <1>2, <1>4, <2>1 DEF Rests, Keeps, github
  <2>3. QED
    BY <2>2, Resting DEF Lineage
<1>6. Owned(origin)'
  BY <1>2 DEF Lineage, Owned, Keeps, SameColumns
<1>7. Building(origin)'
  <2>1. Rows(NoPR)' = Rows(NoPR)
    BY <1>2 DEF Keeps
  <2>2. \A v \in Worker : Of(v, NoPR)' => v = w /\ t # Idle /\ task'[v] = t
    BY <1>1, <1>3 DEF Of
  <2>3. /\ task[w].event.action = "test build"
        /\ task[w].event.sha # NULL => origin[task[w].event.sha] = NoPR
        /\ \A i, j \in Rows(NoPR) : i = j
    BY DEF Lineage, Building
  <2>4. QED
    BY <2>1, <2>2, <2>3 DEF Building, Step
<1>8. Numbered(origin, age)'
  BY DEF Lineage, Numbered
<1>9. QED
  BY <1>5, <1>6, <1>7, <1>8 DEF Lineage

\* The ad-hoc rows are those of no pull request.
LEMMA AdhocRows ==
    ASSUME NEW origin, Owned(origin)
    PROVE  {i \in Existing(rows) : rows[i].adhoc /\ rows[i].repo = TheRepo /\ rows[i].branch = TheBranch}
              = Rows(NoPR)
<1>1. \A i \in Existing(rows) : rows[i].adhoc <=> rows[i].pr = NoPR
  BY DEF Owned
<1>2. \A i \in Existing(rows) : rows[i].repo = TheRepo /\ rows[i].branch = TheBranch
  BY DEF Owned
<1>3. QED
  BY <1>1, <1>2, Zenon DEF Rows, OfPR

LEMMA FindAdhocKeeps ==
    ASSUME TypeOK, Apart, NEW w \in Worker, Of(w, NoPR), FindAdhoc(w),
           NEW origin, NEW age \in [Sha -> Nat], Lineage(origin, age)
    PROVE  Lineage(origin, age)'
<1> DEFINE i == Newest(rows, Rows(NoPR))
           e == task[w].event
           t1 == [step |-> "upsert", event |-> e]
           t2 == [step |-> "requeue", event |-> e, id |-> i, from |-> rows[i].status]
<1>1. FindAdhocByBranch(rows, TheRepo, TheBranch) = i
  BY AdhocRows DEF FindAdhocByBranch, Lineage
<1>2. /\ \/ i = NULL /\ task' = [task EXCEPT ![w] = t1]
         \/ i # NULL /\ rows[i].status \in {"done", "failed"} /\ task' = [task EXCEPT ![w] = t2]
         \/ task' = [task EXCEPT ![w] = Idle]
      /\ rows' = rows /\ UNCHANGED <<github, sent>> /\ task[w] # Idle
  BY <1>1 DEF FindAdhoc, Go, From, Done, Step
<1>3. Rows(NoPR) \subseteq Id /\ rows \in Tables
  BY ActiveRows DEF TypeOK, Tables
<1>4. Rows(NoPR) # {} => i \in Rows(NoPR)
  BY <1>3, NewestFound
<1>5. Rows(NoPR) = {} => i = NULL
  BY DEF Newest
<1>6. \A j \in Id : j # NULL
  BY NullIsNoValue
<1>7. /\ Keeps /\ \A q : Active(q)' = Active(q)
      /\ \A j \in Id : rows'[j].sha = rows[j].sha
  BY <1>2, RowsUnchanged
<1>8. CASE i = NULL /\ task' = [task EXCEPT ![w] = t1]
  <2>1. Rows(NoPR) = {}
    BY <1>3, <1>4, <1>6, <1>8
  <2>2. t1.event = e /\ t1.step = "upsert"
    OBVIOUS
  <2> HIDE DEF i, t1
  <2>3. QED
    BY <1>2, <1>7, <1>8, <2>1, <2>2, BuildStep
<1>9. CASE i # NULL /\ rows[i].status \in {"done", "failed"} /\ task' = [task EXCEPT ![w] = t2]
  <2>1. i \in Rows(NoPR)
    BY <1>4, <1>5, <1>9
  <2>2. t2.event = e /\ t2.step = "requeue" /\ t2.id = i
    OBVIOUS
  <2> HIDE DEF i, t2
  <2>3. QED
    BY <1>2, <1>7, <1>9, <2>1, <2>2, BuildStep
<1>10. CASE task' = [task EXCEPT ![w] = Idle]
  BY <1>2, <1>7, <1>10, BuildStep
<1>11. QED
  BY <1>2, <1>8, <1>9, <1>10

LEMMA RequeueBuildKeeps ==
    ASSUME TypeOK, Apart, NEW w \in Worker, Of(w, NoPR), Requeue(w),
           NEW origin, NEW age \in [Sha -> Nat], Lineage(origin, age)
    PROVE  Lineage(origin, age)'
<1> DEFINE i == task[w].id
<1>1. /\ task' = [task EXCEPT ![w] = Idle] /\ UNCHANGED <<github, sent>> /\ Step(w, "requeue")
      /\ rows' = rows \/ rows' = Updated(rows, i, "queued", NoFields)
  BY DEF Requeue, Done
<1>2. i \in Rows(NoPR)
  BY <1>1 DEF Lineage, Building
<1>3. i \in Id /\ Exists(rows, i)
  BY <1>2 DEF Rows, OfPR, Existing
<1>4. /\ Keeps /\ \A j \in Id : rows'[j].sha = rows[j].sha
      /\ \A q \in PR : Active(q)' \subseteq Active(q) \cup {i}
  <2>1. CASE rows' = rows
    BY <2>1, RowsUnchanged
  <2>2. CASE rows' = Updated(rows, i, "queued", NoFields)
    BY <1>3, <2>2, EndKeeps DEF Statuses, ActiveStatuses
  <2>3. QED
    BY <1>1, <2>1, <2>2
<1>5. ASSUME NEW q \in PullRequest
      PROVE  Active(q)' \subseteq Active(q)
  <2>1. q \in PR /\ q # NoPR
    BY DEF PullRequest
  <2>2. Rows(q)' = Rows(q) /\ Active(q)' \subseteq Rows(q)'
    BY <1>4, <2>1, ActiveRows DEF Keeps
  <2>3. i \notin Rows(q)
    BY <1>2, <2>1 DEF Rows, OfPR
  <2>4. QED
    BY <1>4, <2>1, <2>2, <2>3
<1> HIDE DEF i
<1>6. QED
  BY <1>1, <1>4, <1>5, BuildStep

\* A row of the commit of a test build would be one of a test build.
LEMMA UpsertSameBuild ==
    ASSUME TypeOK, NEW w \in Worker, Of(w, NoPR), NEW i \in Id, UpsertSame(w, i),
           NEW origin, NEW age, Lineage(origin, age)
    PROVE  FALSE
<1> DEFINE e == task[w].event
<1>1. i \in Existing(rows) /\ rows[i].sha = e.sha /\ e.sha # NULL /\ rows[i].repo = TheRepo
      /\ Step(w, "upsert")
  BY DEF UpsertSame, WithSha
<1>2. origin[e.sha] = NoPR /\ Rows(NoPR) = {}
  BY <1>1 DEF Lineage, Building
<1>3. rows[i].pr = NoPR
  BY <1>1, <1>2 DEF Lineage, Owned
<1>4. i \in Rows(NoPR)
  BY <1>1, <1>3 DEF Rows, OfPR
<1>5. QED
  BY <1>2, <1>4

LEMMA UpsertNewBuild ==
    ASSUME TypeOK, Apart, NEW w \in Worker, Of(w, NoPR), NEW i \in Id, UpsertNew(w, i),
           NEW origin, NEW age \in [Sha -> Nat], Lineage(origin, age)
    PROVE  Lineage(origin, age)'
<1> DEFINE e == task[w].event
<1>1. /\ task' = [task EXCEPT ![w] = Idle] /\ UNCHANGED <<github, sent>> /\ Step(w, "upsert")
      /\ rows' = Inserted(rows, i, DraftOf(e)) /\ ~Exists(rows, i)
  BY DEF UpsertNew, Done
<1>2. e \in Event /\ e.pr = NoPR
  BY TaskOf DEF Of, TypeOK
<1>3. /\ e.action = "test build" /\ (e.sha # NULL => origin[e.sha] = NoPR)
      /\ Rows(NoPR) = {}
  BY <1>1 DEF Lineage, Building
<1>4. Meant(origin, e) /\ Owned(origin)
  BY <1>2, <1>3 DEF Meant, Lineage
<1>5. /\ \A q \in PR : q # NoPR => Rows(q)' = Rows(q) /\ Active(q)' = Active(q)
      /\ Rows(NoPR)' = Rows(NoPR) \cup {i}
      /\ \A j \in Existing(rows) : rows'[j] = rows[j]
      /\ Owned(origin)'
  BY <1>1, <1>2, <1>4, InsertKeeps
<1>6. \A v \in Worker : (v = w => task'[v] = Idle) /\ (v # w => task'[v] = task[v] /\ ~Of(v, NoPR))
  BY <1>1 DEF TypeOK, Apart, Of
<1>7. \A v \in Worker : ~Of(v, NoPR)'
  BY <1>6 DEF Of
<1>8. ASSUME NEW q \in PullRequest
      PROVE  Kept(origin, age, q)'
  <2>1. q \in PR /\ q # NoPR
    BY DEF PullRequest
  <2>2. \A v \in Worker : (Of(v, q)' <=> Of(v, q)) /\ (Of(v, q) => task'[v] = task[v])
    BY <1>2, <1>6, <2>1 DEF Of
  <2>3. Rows(q) \subseteq Existing(rows)
    BY DEF Rows, OfPR
  <2>4. Rests(q)
    BY <1>1, <1>5, <2>1, <2>2, <2>3 DEF Rests, github
  <2>5. QED
    BY <2>4, Resting DEF Lineage
<1>9. Building(origin)'
  BY <1>3, <1>5, <1>7 DEF Building
<1>10. Numbered(origin, age)'
  BY <1>1 DEF Lineage, Numbered
<1>11. QED
  BY <1>5, <1>8, <1>9, <1>10 DEF Lineage

-----------------------------------------------------------------------------
(* A handler takes the next delivery. *)

LEMMA ReceiveKeeps ==
    ASSUME TypeOK, Apart', NEW p \in PullRequest, NEW w \in Worker, Receive(w, p),
           NEW origin, NEW age \in [Sha -> Nat], Lineage(origin, age)
    PROVE  Lineage(origin, age)'
<1> DEFINE d == deliveries[p]
           e == Head(d)
           s == CASE e.action = "synchronize" -> "find active"
                  [] e.action = "closed"      -> "find newest"
                  [] OTHER                    -> "upsert"
           t == [step |-> s, event |-> e]
<1>1. /\ task[w] = Idle /\ d # << >>
      /\ deliveries' = [deliveries EXCEPT ![p] = Tail(d)]
      /\ task' = [task EXCEPT ![w] = t]
      /\ UNCHANGED <<rows, open, head, sent>>
  BY DEF Receive
<1>2. d \in Seq(Event)
  BY DEF TypeOK
<1>3. /\ e \in Event /\ e = d[1] /\ Len(d) \in Nat /\ Len(d) >= 1
      /\ 1 \in 1..Len(d)
      /\ Len(Tail(d)) = Len(d) - 1
      /\ \A k \in 1..Len(d) - 1 : Tail(d)[k] = d[k + 1]
  <2> HIDE DEF d
  <2>1. e \in Event /\ Len(Tail(d)) = Len(d) - 1 /\ \A k \in 1..Len(d) - 1 : Tail(d)[k] = d[k + 1]
    BY <1>1, <1>2, HeadTailProperties
  <2>2. Len(d) \in Nat /\ Len(d) # 0
    BY <1>1, <1>2, LenProperties, EmptySeq
  <2>3. e = d[1]
    BY <1>2
  <2>4. QED
    BY <2>1, <2>2, <2>3
<1>4. deliveries'[p] = Tail(d) /\ \A q \in PullRequest : q # p => deliveries'[q] = deliveries[q]
  BY <1>1 DEF TypeOK
<1>5. \A v \in Worker : (v = w => task'[v] = t) /\ (v # w => task'[v] = task[v])
  BY <1>1 DEF TypeOK
<1>6. InLine(p) /\ Ages(origin, age, p) /\ Topped(age, p)
  BY DEF Lineage, Kept
<1>7. e.pr = p /\ e.action # "test build"
  BY <1>3, <1>6 DEF InLine
<1>8. t # Idle /\ t.step = s /\ t.event = e
  <2>1. s \in {"find active", "find newest", "upsert"}
    OBVIOUS
  <2> HIDE DEF s, e
  <2>2. t \in Task
    BY <1>3, <2>1 DEF Task
  <2>3. QED
    BY <2>2, IdleIsNoTask
<1>9. (e.action = "synchronize" <=> s = "find active") /\ (e.action = "closed" <=> s = "find newest")
      /\ s \in {"find active", "find newest", "upsert"}
  OBVIOUS
<1> HIDE DEF t, e, s, d
<1>10. Of(w, p)'
  BY <1>5, <1>7, <1>8 DEF Of
<1>11. \A v \in Worker : v # w => ~Of(v, p) /\ ~Of(v, p)'
  BY <1>5, <1>10 DEF Apart, Of
<1>12. Free(p) /\ ~Free(p)'
  BY <1>1, <1>10, <1>11 DEF Free, Of
<1>13. /\ Rows(p)' = Rows(p) /\ Active(p)' = Active(p)
       /\ \A i : IsNewest(i, p)' <=> IsNewest(i, p)
       /\ \A sha : NewestFor(p, sha)' <=> NewestFor(p, sha)
  BY <1>1, RowsUnchanged
<1>14. InLine(p)'
  <2>1. \A k \in 1..Len(d) : \A sha : AfterCommit(p, k + 1, sha) => AfterCommit(p, k, sha)'
    <3> TAKE k \in 1..Len(d)
    <3> TAKE sha
    <3>1. CASE k > 1
      <4>1. deliveries'[p][k - 1] = deliveries[p][(k + 1) - 1] /\ k + 1 > 1
        BY <1>3, <1>4, <3>1 DEF d
      <4>2. QED
        BY <3>1, <4>1 DEF AfterCommit
    <3>2. CASE ~(k > 1)
      <4>1. (k + 1) - 1 = 1 /\ k + 1 > 1
        BY <1>3, <3>2
      <4>2. AfterCommit(p, k + 1, sha) => e.sha = sha
        BY <1>3, <4>1 DEF AfterCommit, d
      <4>3. \A v \in Worker : Of(v, p)' => task'[v].event = e
        BY <1>5, <1>8, <1>11
      <4>4. QED
        BY <1>12, <3>2, <4>2, <4>3 DEF AfterCommit
    <3>3. QED
      BY <3>1, <3>2
  <2>2. \A k \in 1..Len(d) : AfterClose(p, k + 1) => AfterClose(p, k)'
    <3> TAKE k \in 1..Len(d)
    <3>1. CASE k > 1
      <4>1. deliveries'[p][k - 1] = deliveries[p][(k + 1) - 1] /\ k + 1 > 1
        BY <1>3, <1>4, <3>1 DEF d
      <4>2. QED
        BY <3>1, <4>1 DEF AfterClose
    <3>2. CASE ~(k > 1)
      <4>1. (k + 1) - 1 = 1 /\ k + 1 > 1
        BY <1>3, <3>2
      <4>2. AfterClose(p, k + 1) => e.action = "closed"
        BY <1>3, <4>1 DEF AfterClose, d
      <4>3. \A v \in Worker : Of(v, p)' => task'[v].event = e
        BY <1>5, <1>8, <1>11
      <4>4. QED
        BY <1>12, <3>2, <4>2, <4>3 DEF AfterClose
    <3>3. QED
      BY <3>1, <3>2
  <2> DEFINE n == Len(d)
  <2>3. Len(deliveries'[p]) = n - 1 /\ n \in Nat /\ n >= 1 /\ n = Len(deliveries[p])
    BY <1>3, <1>4 DEF d
  <2> HIDE DEF n
  <2>4. AfterCommit(p, n + 1, head[p]) /\ (~open[p] => AfterClose(p, n + 1)) /\ head[p] # NULL
    BY <1>1, <1>6, <2>3 DEF InLine, d
  <2>5. \A k, sha : k = n /\ sha = head[p] => AfterCommit(p, k, sha)'
    BY <2>1, <2>3, <2>4 DEF n
  <2>6. \A k : k = n /\ ~open[p] => AfterClose(p, k)'
    BY <2>2, <2>3, <2>4 DEF n
  <2>7. ASSUME NEW k \in 1..Len(deliveries'[p]), NEW x, x = deliveries'[p][k]
        PROVE  /\ x.pr = p /\ x.action # "test build"
               /\ x.action # "opened"
               /\ x.action = "closed" => \A sha : sha = x.sha => AfterCommit(p, k, sha)'
               /\ x.action = "reopened" => AfterClose(p, k)'
    <3>1. k \in 1..Len(d) /\ k + 1 \in 1..Len(deliveries[p]) /\ k + 1 # 1 /\ x = deliveries[p][k + 1]
      BY <1>3, <1>4, <2>3, <2>7 DEF n, d
    <3>2. /\ x.pr = p /\ x.action # "test build"
          /\ x.action # "opened"
          /\ x.action = "closed" => AfterCommit(p, k + 1, x.sha)
          /\ x.action = "reopened" => AfterClose(p, k + 1)
      BY <1>6, <3>1 DEF InLine
    <3>3. QED
      BY <2>1, <2>2, <3>1, <3>2
  <2>8. head'[p] = head[p] /\ open'[p] = open[p] /\ (Len(deliveries'[p]) + 1 = n)
    BY <1>1, <2>3
  <2>9. /\ \A k, sha : k = Len(deliveries'[p]) + 1 /\ sha = head'[p] => AfterCommit(p, k, sha)'
        /\ \A k : k = Len(deliveries'[p]) + 1 /\ ~open'[p] => AfterClose(p, k)'
    BY <2>5, <2>6, <2>8
  <2>10. QED
    BY <2>4, <2>7, <2>8, <2>9 DEF InLine
<1>15. Ages(origin, age, p)'
  <2>1. \A k \in 1..Len(deliveries'[p]) :
           /\ deliveries'[p][k] = deliveries[p][k + 1]
           /\ k + 1 \in 1..Len(deliveries[p])
           /\ \A j \in 1..k : j + 1 \in 1..k + 1 /\ deliveries'[p][j] = deliveries[p][j + 1]
    BY <1>3, <1>4 DEF d
  <2>2. 1 \in 1..Len(deliveries[p]) /\ e = deliveries[p][1]
    BY <1>3 DEF d
  <2>3. \A v \in Worker : Of(v, p)' => task'[v].event = e
    BY <1>5, <1>8, <1>11
  <2>4. /\ Dated(origin, age, p, e.sha)
        /\ age[e.sha] <= age[head[p]]
        /\ \A i \in Rows(p) : age[rows[i].sha] <= age[e.sha]
    BY <1>6, <2>2 DEF Ages
  <2>5. \A k \in 1..Len(deliveries'[p]) : age[e.sha] <= age[deliveries'[p][k].sha]
    <3> TAKE k \in 1..Len(deliveries'[p])
    <3>1. 1 \in 1..(k + 1)
      BY <1>3
    <3>2. age[deliveries[p][1].sha] <= age[deliveries[p][k + 1].sha]
      BY <1>6, <2>1, <3>1 DEF Ages
    <3>3. QED
      BY <2>1, <2>2, <3>2
  <2>6. \A k \in 1..Len(deliveries'[p]) :
           /\ Dated(origin, age, p, deliveries'[p][k].sha)
           /\ age[deliveries'[p][k].sha] <= age[head[p]]
           /\ \A j \in 1..k : age[deliveries'[p][j].sha] <= age[deliveries'[p][k].sha]
           /\ \A i \in Rows(p) : age[rows[i].sha] <= age[deliveries'[p][k].sha]
    <3> TAKE k \in 1..Len(deliveries'[p])
    <3>1. /\ Dated(origin, age, p, deliveries[p][k + 1].sha)
          /\ age[deliveries[p][k + 1].sha] <= age[head[p]]
          /\ \A j \in 1..k + 1 : age[deliveries[p][j].sha] <= age[deliveries[p][k + 1].sha]
          /\ \A i \in Rows(p) : age[rows[i].sha] <= age[deliveries[p][k + 1].sha]
      BY <1>6, <2>1 DEF Ages
    <3>2. QED
      BY <2>1, <3>1
  <2>7. /\ head[p] # NULL => Dated(origin, age, p, head[p])
        /\ \A i \in Rows(p) : Dated(origin, age, p, rows[i].sha) /\ age[rows[i].sha] <= age[head[p]]
    BY <1>6 DEF Ages
  <2>8. head' = head /\ rows' = rows
    BY <1>1
  <2>9. QED
    BY <1>13, <2>3, <2>4, <2>5, <2>6, <2>7, <2>8 DEF Ages, Dated
<1>16. Topped(age, p)'
  BY <1>1, <1>6, <1>13 DEF Topped
<1>17. Handling(w, p)'
  <2>1. task'[w].event = e /\ task'[w].step = s
    BY <1>5, <1>8
  <2>2. e.action = "closed" => NewestFor(p, e.sha)
    <3>1. e.action = "closed" => AfterCommit(p, 1, e.sha)
      BY <1>3, <1>6 DEF InLine, d
    <3>2. QED
      BY <1>12, <3>1 DEF AfterCommit
  <2>3. e.action \in {"opened", "reopened"} => Active(p) = {}
    <3>1. e.action = "opened" => Rows(p) = {}
      BY <1>3, <1>6 DEF InLine, d
    <3>2. e.action = "reopened" => AfterClose(p, 1)
      BY <1>3, <1>6 DEF InLine, d
    <3>3. Active(p) \subseteq Rows(p)
      BY ActiveRows
    <3>4. QED
      BY <1>12, <3>1, <3>2, <3>3 DEF AfterClose
  <2>4. e.action \in {"opened", "synchronize", "reopened", "closed"}
    BY <1>3, <1>7 DEF Event, Action
  <2>5. \A sha : sha = e.sha /\ e.action = "closed" => NewestFor(p, sha)'
    BY <1>13, <2>2
  <2>6. s = "upsert" => Active(p)' = {}
    BY <1>9, <1>13, <2>3, <2>4
  <2>7. QED
    BY <1>7, <1>9, <2>1, <2>5, <2>6 DEF Handling, Step
<1>18. Kept(origin, age, p)'
  <2>1. \A v \in Worker : Of(v, p)' => v = w
    BY <1>11
  <2>2. QED
    BY <1>14, <1>15, <1>16, <1>17, <2>1 DEF Kept
<1>19. \A q, v : q # p /\ v \in Worker => (Of(v, q)' <=> Of(v, q)) /\ (Of(v, q) => task'[v] = task[v])
  BY <1>1, <1>5, <1>7, <1>8 DEF Of
<1>20. ASSUME NEW q \in PullRequest, q # p
       PROVE  Kept(origin, age, q)'
  <2>1. Rows(q)' = Rows(q) /\ Active(q)' = Active(q)
    BY <1>1, RowsUnchanged
  <2>2. Rests(q)
    BY <1>1, <1>4, <1>19, <1>20, <2>1 DEF Rests
  <2>3. QED
    BY <2>2, Resting DEF Lineage
<1>21. Owned(origin)' /\ Numbered(origin, age)'
  BY <1>1 DEF Lineage, Owned, Numbered
<1>22. Building(origin)'
  <2>1. Rows(NoPR)' = Rows(NoPR) /\ NoPR # p
    BY <1>1, RowsUnchanged DEF PullRequest
  <2>2. \A v \in Worker : (Of(v, NoPR)' <=> Of(v, NoPR)) /\ (Of(v, NoPR) => task'[v] = task[v])
    BY <1>19, <2>1
  <2>3. QED
    BY <2>1, <2>2 DEF Lineage, Building, Step
<1>23. QED
  BY <1>18, <1>20, <1>21, <1>22 DEF Lineage

-----------------------------------------------------------------------------
(* A commit comes up. *)

LEMMA NewIsUnused ==
    ASSUME TypeOK, NEW sha, New(sha)
    PROVE  /\ \A q \in PullRequest : ~Uses(q, sha)
           /\ \A i \in Existing(rows) : rows[i].sha # sha
           /\ \A w \in Worker : task[w] # Idle => task[w].event.sha # sha
<1>1. ASSUME NEW q \in PullRequest
      PROVE  ~Uses(q, sha)
  <2>1. Rows(q) \subseteq Existing(rows)
    BY DEF Rows, OfPR
  <2>2. QED
    BY <2>1 DEF New, Uses, Of
<1>2. QED
  BY <1>1 DEF New

\* At most the commit sha has another origin and age than before.
Learnt(sha, o1, a1, o2, a2) ==
    \A s \in Sha : s = sha \/ (o2[s] = o1[s] /\ a2[s] = a1[s])

\* GitHub sends an event of p.
LEMMA SendKeeps ==
    ASSUME TypeOK, NEW p \in PullRequest, NEW action, NEW sha \in Sha,
           NEW origin, NEW age \in [Sha -> Nat], Lineage(origin, age),
           NEW o2, NEW a2 \in [Sha -> Nat],
           UNCHANGED <<rows, task>>, Send(p, action, sha),
           head' = [head EXCEPT ![p] = sha],
           \A q \in PullRequest : q # p => open'[q] = open[q],
           action \in {"opened", "synchronize", "closed", "reopened"},
           action = "opened" => head[p] = NULL,
           action = "closed" => sha = head[p],
           action = "reopened" => ~open[p],
           ~open'[p] => action = "closed",
           Learnt(sha, origin, age, o2, a2),
           \/ head[p] = sha /\ o2[sha] = origin[sha] /\ a2[sha] = age[sha]
           \/ New(sha) /\ o2[sha] = p /\ a2[sha] = sent + 2
    PROVE  Lineage(o2, a2)'
<1> DEFINE d == deliveries[p]
           e == [action |-> action, pr |-> p, sha |-> sha]
           n == Len(d)
<1>1. deliveries' = [deliveries EXCEPT ![p] = Append(d, e)] /\ sent' = sent + 1
  BY DEF Send
<1>2. d \in Seq(Event) /\ sent \in Nat /\ n \in Nat
  <2>1. d \in Seq(Event)
    BY DEF TypeOK
  <2>2. QED
    BY <2>1, LenProperties, RequestsAssumption DEF TypeOK
<1>3. e \in Event /\ e.action = action /\ e.pr = p /\ e.sha = sha
  BY DEF Event, Action, PullRequest
<1> HIDE DEF e, n
<1>4. /\ deliveries'[p] = Append(d, e)
      /\ \A q \in PullRequest : q # p => deliveries'[q] = deliveries[q] /\ head'[q] = head[q]
      /\ head'[p] = sha
  BY <1>1 DEF TypeOK
<1>5. /\ Len(deliveries'[p]) = n + 1 /\ n = Len(deliveries[p])
      /\ \A k \in 1..n : deliveries'[p][k] = d[k]
      /\ deliveries'[p][n + 1] = e
  <2> HIDE DEF d
  <2>1. QED
    BY <1>2, <1>3, <1>4, AppendProperties DEF n, d
<1> HIDE DEF d
<1>6. /\ InLine(p) /\ Ages(origin, age, p) /\ Topped(age, p)
      /\ \A w \in Worker : Of(w, p) => Handling(w, p)
      /\ Owned(origin) /\ Building(origin) /\ Numbered(origin, age)
  BY DEF Lineage, Kept
<1>7. /\ \A q : Rows(q)' = Rows(q) /\ Active(q)' = Active(q)
      /\ \A i, q : IsNewest(i, q)' <=> IsNewest(i, q)
      /\ \A s, q : NewestFor(q, s)' <=> NewestFor(q, s)
      /\ \A q, w : Of(w, q)' <=> Of(w, q)
      /\ \A q : Free(q)' <=> Free(q)
      /\ rows' = rows /\ task' = task
  <2>1. \A q, w : Of(w, q)' <=> Of(w, q)
    BY DEF Of
  <2>2. \A q : Free(q)' <=> Free(q)
    BY <2>1 DEF Free
  <2>3. QED
    BY <2>1, <2>2, RowsUnchanged
<1>8. \A q \in PullRequest : \A s \in Sha : Uses(q, s) => o2[s] = origin[s] /\ a2[s] = age[s]
  BY NewIsUnused DEF Learnt
<1>9. \A s \in Sha \cup {NULL} : Uses(p, s) => s = NULL \/ (o2[s] = origin[s] /\ a2[s] = age[s])
  BY <1>8
<1>10. Dated(o2, a2, p, sha) /\ \A s \in Sha : Dated(origin, age, p, s) /\ Uses(p, s) /\ age[s] <= age[head[p]]
                                   => Dated(o2, a2, p, s) /\ a2[s] <= a2[sha]
  <2>1. sha # NULL
    BY NullIsNoValue
  <2>2. CASE head[p] = sha
    <3>1. o2[sha] = origin[sha] /\ a2[sha] = age[sha]
      BY <1>8, <2>2 DEF Uses
    <3>2. Dated(origin, age, p, sha)
      BY <1>6, <2>1, <2>2 DEF Ages
    <3>3. QED
      BY <1>8, <2>2, <3>1, <3>2 DEF Dated
  <2>3. CASE New(sha) /\ o2[sha] = p /\ a2[sha] = sent + 2
    <3>1. \A s \in Sha : age[s] \in Nat /\ age[s] <= sent + 1
      BY <1>6 DEF Numbered
    <3>2. \A s \in Sha : age[s] <= a2[sha]
      BY <1>2, <2>3, <3>1
    <3>3. Dated(o2, a2, p, sha)
      BY <1>2, <2>1, <2>3 DEF Dated
    <3>4. QED
      BY <1>8, <3>2, <3>3 DEF Dated
  <2>4. QED
    BY <2>2, <2>3
<1>11. InLine(p)'
  <2>1. \A k \in 1..(n + 1) : \A s : AfterCommit(p, k, s) => AfterCommit(p, k, s)'
    <3> TAKE k \in 1..(n + 1)
    <3> TAKE s
    <3>1. CASE k > 1
      <4>1. k - 1 \in 1..n
        BY <1>2, <3>1
      <4>2. deliveries'[p][k - 1] = deliveries[p][k - 1]
        BY <1>5, <4>1 DEF d
      <4>3. QED
        BY <3>1, <4>2 DEF AfterCommit
    <3>2. CASE ~(k > 1)
      BY <1>7, <3>2 DEF AfterCommit
    <3>3. QED
      BY <3>1, <3>2
  <2>2. \A k \in 1..(n + 1) : AfterClose(p, k) => AfterClose(p, k)'
    <3> TAKE k \in 1..(n + 1)
    <3>1. CASE k > 1
      <4>1. k - 1 \in 1..n
        BY <1>2, <3>1
      <4>2. deliveries'[p][k - 1] = deliveries[p][k - 1]
        BY <1>5, <4>1 DEF d
      <4>3. QED
        BY <3>1, <4>2 DEF AfterClose
    <3>2. CASE ~(k > 1)
      BY <1>7, <3>2 DEF AfterClose
    <3>3. QED
      BY <3>1, <3>2
  <2>3. \A k : k = n + 1 => /\ \A s : s = head[p] => AfterCommit(p, k, s)'
                            /\ ~open[p] => AfterClose(p, k)'
    <3>1. AfterCommit(p, n + 1, head[p]) /\ (~open[p] => AfterClose(p, n + 1))
      BY <1>5, <1>6 DEF InLine
    <3>2. n + 1 \in 1..(n + 1)
      BY <1>2
    <3>3. QED
      BY <2>1, <2>2, <3>1, <3>2
  <2>4. ASSUME NEW k \in 1..Len(deliveries'[p]), NEW x, x = deliveries'[p][k]
        PROVE  /\ x.pr = p /\ x.action # "test build"
               /\ x.action = "opened" => k = 1 /\ Free(p)' /\ Rows(p)' = {}
               /\ x.action = "closed" => \A s : s = x.sha => AfterCommit(p, k, s)'
               /\ x.action = "reopened" => AfterClose(p, k)'
    <3>1. CASE k \in 1..n
      <4>1. x = deliveries[p][k] /\ k \in 1..Len(deliveries[p]) /\ k \in 1..(n + 1)
        BY <1>2, <1>5, <2>4, <3>1 DEF d
      <4>2. /\ x.pr = p /\ x.action # "test build"
            /\ x.action = "opened" => k = 1 /\ Free(p) /\ Rows(p) = {}
            /\ x.action = "closed" => AfterCommit(p, k, x.sha)
            /\ x.action = "reopened" => AfterClose(p, k)
        BY <1>6, <4>1 DEF InLine
      <4>3. QED
        BY <1>7, <2>1, <2>2, <4>1, <4>2
    <3>2. CASE k \notin 1..n
      <4>1. k = n + 1 /\ x = e
        BY <1>2, <1>5, <2>4, <3>2
      <4>2. action = "opened" => n = 0 /\ Free(p) /\ Rows(p) = {}
        <5>1. action = "opened" => deliveries[p] = << >> /\ Free(p) /\ Rows(p) = {}
          BY <1>6 DEF InLine
        <5>2. Len(<< >>) = 0
          OBVIOUS
        <5>3. QED
          BY <1>5, <5>1, <5>2
      <4>3. x.pr = p /\ x.action = action /\ x.sha = sha
        BY <1>3, <4>1
      <4>4. n = 0 => k = 1
        BY <4>1
      <4>5. x.action = "opened" => k = 1 /\ Free(p)' /\ Rows(p)' = {}
        BY <1>7, <4>2, <4>3, <4>4
      <4>6. x.action = "closed" => \A s : s = x.sha => AfterCommit(p, k, s)'
        BY <2>3, <4>1, <4>3
      <4>7. x.action = "reopened" => AfterClose(p, k)'
        BY <2>3, <4>1, <4>3
      <4>8. x.action # "test build"
        BY <4>3
      <4>9. QED
        BY <4>3, <4>5, <4>6, <4>7, <4>8
    <3>3. QED
      BY <3>1, <3>2
  <2>5. \A k : k = n + 2 => /\ \A s : s = sha => AfterCommit(p, k, s)'
                            /\ ~open'[p] => AfterClose(p, k)'
    <3> TAKE k
    <3> SUFFICES ASSUME k = n + 2
                 PROVE  /\ \A s : s = sha => AfterCommit(p, k, s)'
                        /\ ~open'[p] => AfterClose(p, k)'
      OBVIOUS
    <3>1. k > 1 /\ deliveries'[p][k - 1] = e
      <4>1. k - 1 = n + 1 /\ k > 1
        BY <1>2
      <4>2. QED
        BY <1>5, <4>1
    <3>2. QED
      BY <1>3, <3>1 DEF AfterCommit, AfterClose
  <2>6. Len(deliveries'[p]) + 1 = n + 2
    BY <1>2, <1>5
  <2>7. head'[p] = sha /\ sha # NULL
    BY <1>4, NullIsNoValue
  <2>8. /\ \A k, s : k = Len(deliveries'[p]) + 1 /\ s = head'[p] => AfterCommit(p, k, s)'
        /\ \A k : k = Len(deliveries'[p]) + 1 /\ ~open'[p] => AfterClose(p, k)'
    BY <2>5, <2>6, <2>7
  <2>9. QED
    BY <2>4, <2>7, <2>8 DEF InLine
<1>12. Ages(o2, a2, p)'
  <2>1. /\ \A k \in 1..n : Uses(p, d[k].sha) /\ d[k].sha \in Sha /\ Dated(origin, age, p, d[k].sha)
                           /\ age[d[k].sha] <= age[head[p]]
        /\ \A w \in Worker : Of(w, p) =>
              /\ Uses(p, task[w].event.sha) /\ task[w].event.sha \in Sha
              /\ Dated(origin, age, p, task[w].event.sha) /\ age[task[w].event.sha] <= age[head[p]]
        /\ \A i \in Rows(p) : Uses(p, rows[i].sha) /\ rows[i].sha \in Sha
                              /\ Dated(origin, age, p, rows[i].sha) /\ age[rows[i].sha] <= age[head[p]]
    <3>1. \A k \in 1..n : d[k].sha \in Sha \cup {NULL}
      <4>1. \A x \in Event : x.sha \in Sha \cup {NULL}
        BY DEF Event
      <4>2. QED
        BY <1>2, <4>1, ElementOfSeq DEF n
    <3>2. \A w \in Worker : Of(w, p) => task[w].event.sha \in Sha \cup {NULL}
      BY TaskOf DEF TypeOK, Of, Event
    <3>3. \A i \in Rows(p) : rows[i].sha \in Sha \cup {NULL}
      BY DEF TypeOK, Row, Rows, OfPR, Existing
    <3>4. QED
      BY <1>5, <1>6, <3>1, <3>2, <3>3 DEF Ages, Dated, Uses, d
  <2>2. /\ \A k \in 1..n : /\ Dated(o2, a2, p, d[k].sha) /\ a2[d[k].sha] <= a2[sha]
                           /\ a2[d[k].sha] = age[d[k].sha]
        /\ \A w \in Worker : Of(w, p) => /\ Dated(o2, a2, p, task[w].event.sha)
                                         /\ a2[task[w].event.sha] <= a2[sha]
                                         /\ a2[task[w].event.sha] = age[task[w].event.sha]
        /\ \A i \in Rows(p) : /\ Dated(o2, a2, p, rows[i].sha) /\ a2[rows[i].sha] <= a2[sha]
                              /\ a2[rows[i].sha] = age[rows[i].sha]
    BY <1>8, <1>10, <2>1
  <2>3. a2[sha] <= a2[sha]
    <3>1. a2[sha] \in Nat
      OBVIOUS
    <3>2. QED
      BY <3>1
  <2>4. \A k \in 1..Len(deliveries'[p]) : k \in 1..n \/ (k = n + 1 /\ deliveries'[p][k].sha = sha)
    BY <1>2, <1>3, <1>5
  <2>5. \A k \in 1..n : deliveries'[p][k] = d[k] /\ d[k] = deliveries[p][k] /\ k \in 1..Len(deliveries[p])
    BY <1>5 DEF d
  <2>6. \A k \in 1..Len(deliveries'[p]) :
           /\ Dated(o2, a2, p, deliveries'[p][k].sha)
           /\ a2[deliveries'[p][k].sha] <= a2[sha]
    BY <1>10, <2>2, <2>3, <2>4, <2>5
  <2>7. \A k \in 1..Len(deliveries'[p]) : \A j \in 1..k :
           a2[deliveries'[p][j].sha] <= a2[deliveries'[p][k].sha]
    <3> TAKE k \in 1..Len(deliveries'[p])
    <3> TAKE j \in 1..k
    <3>1. CASE k \in 1..n
      <4>1. j \in 1..n
        BY <1>2, <3>1
      <4>2. age[deliveries[p][j].sha] <= age[deliveries[p][k].sha]
        BY <1>6, <2>5, <3>1 DEF Ages
      <4>3. /\ deliveries'[p][j].sha = deliveries[p][j].sha /\ deliveries'[p][j].sha = d[j].sha
            /\ deliveries'[p][k].sha = deliveries[p][k].sha /\ deliveries'[p][k].sha = d[k].sha
        BY <2>5, <3>1, <4>1
      <4>4. a2[d[j].sha] = age[d[j].sha] /\ a2[d[k].sha] = age[d[k].sha]
        BY <2>2, <3>1, <4>1
      <4>5. QED
        BY <4>2, <4>3, <4>4
    <3>2. CASE k = n + 1 /\ deliveries'[p][k].sha = sha
      <4>1. j \in 1..Len(deliveries'[p])
        BY <1>2, <1>5, <3>2
      <4>2. QED
        BY <2>6, <3>2, <4>1
    <3>3. QED
      BY <2>4, <3>1, <3>2
  <2>8. \A w \in Worker : Of(w, p) => \A k \in 1..Len(deliveries'[p]) :
           a2[task[w].event.sha] <= a2[deliveries'[p][k].sha]
    <3> TAKE w \in Worker
    <3> HAVE Of(w, p)
    <3> TAKE k \in 1..Len(deliveries'[p])
    <3>1. k \in 1..n => age[task[w].event.sha] <= age[deliveries[p][k].sha]
      BY <1>6, <2>5 DEF Ages
    <3>2. a2[task[w].event.sha] = age[task[w].event.sha] /\ a2[task[w].event.sha] <= a2[sha]
      BY <2>2
    <3>3. CASE k \in 1..n
      BY <2>2, <2>5, <3>1, <3>2, <3>3
    <3>4. CASE deliveries'[p][k].sha = sha
      BY <3>2, <3>4
    <3>5. QED
      BY <2>4, <3>3, <3>4
  <2>9. \A i \in Rows(p) : \A k \in 1..Len(deliveries'[p]) :
           a2[rows[i].sha] <= a2[deliveries'[p][k].sha]
    <3> TAKE i \in Rows(p)
    <3> TAKE k \in 1..Len(deliveries'[p])
    <3>1. k \in 1..n => age[rows[i].sha] <= age[deliveries[p][k].sha]
      BY <1>6, <2>5 DEF Ages
    <3>2. a2[rows[i].sha] = age[rows[i].sha] /\ a2[rows[i].sha] <= a2[sha]
      BY <2>2
    <3>3. CASE k \in 1..n
      BY <2>2, <2>5, <3>1, <3>2, <3>3
    <3>4. CASE deliveries'[p][k].sha = sha
      BY <3>2, <3>4
    <3>5. QED
      BY <2>4, <3>3, <3>4
  <2>10. \A i \in Rows(p) : \A w \in Worker : Of(w, p) => a2[rows[i].sha] <= a2[task[w].event.sha]
    BY <1>6, <2>2 DEF Ages
  <2>11. QED
    BY <1>4, <1>7, <1>10, <2>2, <2>6, <2>7, <2>8, <2>9, <2>10 DEF Ages, Dated
<1>13. Topped(a2, p)'
  <2>1. \A i \in Rows(p) : a2[rows[i].sha] = age[rows[i].sha]
    <3>1. \A i \in Rows(p) : Uses(p, rows[i].sha) /\ rows[i].sha \in Sha \cup {NULL}
      BY DEF TypeOK, Row, Rows, OfPR, Existing, Uses
    <3>2. \A i \in Rows(p) : rows[i].sha # NULL
      BY <1>6 DEF Ages, Dated
    <3>3. QED
      BY <1>9, <3>1, <3>2
  <2>2. QED
    BY <1>6, <1>7, <2>1 DEF Topped
<1>14. \A w \in Worker : Of(w, p)' => Handling(w, p)'
  <2> TAKE w \in Worker
  <2> HAVE Of(w, p)'
  <2>1. Handling(w, p)
    BY <1>6, <1>7
  <2>2. \A s : Step(w, s)' <=> Step(w, s)
    BY <1>7 DEF Step
  <2> DEFINE x == task[w].event
             i == task[w].id
  <2>3. task'[w].event = x /\ task'[w].id = i
    BY <1>7
  <2>4. (\A j : j = i => (IsNewest(j, p)' <=> IsNewest(j, p))) /\ rows'[i].sha = rows[i].sha
    BY <1>7
  <2>5. \A s : s = x.sha => (NewestFor(p, s)' <=> NewestFor(p, s))
    BY <1>7
  <2> HIDE DEF x, i
  <2>6. /\ x.action # "test build"
        /\ ~Step(w, "find adhoc")
        /\ Step(w, "find active") => x.action = "synchronize"
        /\ Step(w, "supersede") => x.action = "synchronize" /\ i \in Rows(p) /\ Active(p) \subseteq {i}
        /\ Step(w, "upsert") => x.action # "closed" /\ \A j \in Active(p) : rows[j].sha = x.sha
        /\ Step(w, "requeue") => x.action # "closed" /\ IsNewest(i, p) /\ rows[i].sha = x.sha
        /\ Step(w, "find newest") => x.action = "closed" /\ NewestFor(p, x.sha)
        /\ Step(w, "close") => x.action = "closed" /\ IsNewest(i, p) /\ rows[i].sha = x.sha
    BY <2>1 DEF Handling, x, i
  <2>7. /\ ~Step(w, "find adhoc")'
        /\ Step(w, "find active")' => x.action = "synchronize"
        /\ Step(w, "supersede")' => x.action = "synchronize" /\ i \in Rows(p)' /\ Active(p)' \subseteq {i}
        /\ Step(w, "upsert")' => x.action # "closed" /\ \A j \in Active(p)' : rows'[j].sha = x.sha
        /\ Step(w, "requeue")' => /\ x.action # "closed" /\ rows'[i].sha = x.sha
                                  /\ \A j : j = i => IsNewest(j, p)'
        /\ Step(w, "find newest")' => x.action = "closed" /\ \A s : s = x.sha => NewestFor(p, s)'
        /\ Step(w, "close")' => /\ x.action = "closed" /\ rows'[i].sha = x.sha
                                /\ \A j : j = i => IsNewest(j, p)'
    BY <1>7, <2>2, <2>4, <2>5, <2>6
  <2>8. QED
    BY <2>3, <2>6, <2>7 DEF Handling
<1>15. Kept(o2, a2, p)'
  BY <1>11, <1>12, <1>13, <1>14 DEF Kept
<1>16. ASSUME NEW q \in PullRequest, q # p
       PROVE  Kept(o2, a2, q)'
  <2>1. Rests(q)
    BY <1>4, <1>7, <1>16 DEF Rests
  <2>2. QED
    BY <1>8, <2>1, Resting DEF Lineage
<1>17. Numbered(o2, a2)'
  <2>1. /\ \A s \in Sha : age[s] <= sent + 1 /\ age[s] \in Nat /\ a2[s] \in Nat
        /\ \A s, t \in Sha : origin[s] = origin[t] /\ age[s] = age[t] /\ age[s] # 0 => s = t
    BY <1>6 DEF Numbered
  <2>2. CASE head[p] = sha /\ o2[sha] = origin[sha] /\ a2[sha] = age[sha]
    <3>1. \A s \in Sha : o2[s] = origin[s] /\ a2[s] = age[s]
      BY <2>2 DEF Learnt
    <3>2. \A s \in Sha : a2[s] <= sent' + 1
      BY <1>1, <1>2, <2>1, <3>1
    <3>3. QED
      BY <2>1, <3>1, <3>2 DEF Numbered
  <2>3. CASE o2[sha] = p /\ a2[sha] = sent + 2
    <3>1. \A s \in Sha : s # sha => o2[s] = origin[s] /\ a2[s] = age[s]
      BY DEF Learnt
    <3>2. \A s \in Sha : a2[s] <= sent' + 1 /\ (s # sha => a2[s] # a2[sha])
      BY <1>1, <1>2, <2>1, <2>3, <3>1
    <3>3. QED
      BY <2>1, <3>1, <3>2 DEF Numbered
  <2>4. QED
    BY <2>2, <2>3
<1>18. Owned(o2)'
  <2>1. \A i \in Existing(rows) : rows[i].sha # NULL => o2[rows[i].sha] = origin[rows[i].sha]
    <3> TAKE i \in Existing(rows)
    <3>1. rows[i].sha \in Sha \cup {NULL}
      BY DEF TypeOK, Row, Existing
    <3>2. QED
      BY <3>1, NewIsUnused DEF Learnt
  <2>2. QED
    BY <1>6, <1>7, <2>1 DEF Owned
<1>19. Building(o2)'
  <2>1. \A w \in Worker : Of(w, NoPR) /\ task[w].event.sha # NULL =>
           o2[task[w].event.sha] = origin[task[w].event.sha]
    <3> TAKE w \in Worker
    <3>1. Of(w, NoPR) => task[w].event.sha \in Sha \cup {NULL}
      BY TaskOf DEF TypeOK, Of, Event
    <3>2. QED
      BY <3>1, NewIsUnused DEF Learnt, Of
  <2>2. Building(o2)
    BY <1>6, <2>1 DEF Building
  <2>3. QED
    BY <1>7, <2>2 DEF Building, Step
<1>20. QED
  BY <1>15, <1>16, <1>17, <1>18, <1>19 DEF Lineage

LEMMA GitHubKeeps ==
    ASSUME TypeOK, ~Reuses, NEW p \in PullRequest,
           NEW origin \in [Sha -> PR], NEW age \in [Sha -> Nat], Lineage(origin, age),
           \/ \E sha \in Sha : OpenPR(p, sha) \/ Push(p, sha) \/ ReopenPR(p, sha)
           \/ ClosePR(p)
    PROVE  RequestsInv'
<1>1. \A sha \in Sha :
         LET o2 == [origin EXCEPT ![sha] = p]
             a2 == [age EXCEPT ![sha] = sent + 2]
         IN  /\ o2 \in [Sha -> PR] /\ a2 \in [Sha -> Nat]
             /\ o2[sha] = p /\ a2[sha] = sent + 2
             /\ Learnt(sha, origin, age, o2, a2)
  <2>1. p \in PR /\ sent + 2 \in Nat
    BY RequestsAssumption DEF TypeOK, PullRequest
  <2>2. QED
    BY <2>1 DEF Learnt
<1>2. ASSUME NEW sha \in Sha, NEW action, New(sha),
             UNCHANGED <<rows, task>>, Send(p, action, sha),
             head' = [head EXCEPT ![p] = sha],
             \A q \in PullRequest : q # p => open'[q] = open[q],
             action \in {"opened", "synchronize", "reopened"},
             action = "opened" => head[p] = NULL,
             action = "reopened" => ~open[p],
             open'[p]
      PROVE  RequestsInv'
  <2> DEFINE o2 == [origin EXCEPT ![sha] = p]
             a2 == [age EXCEPT ![sha] = sent + 2]
  <2>1. /\ o2 \in [Sha -> PR] /\ a2 \in [Sha -> Nat]
        /\ o2[sha] = p /\ a2[sha] = sent + 2
        /\ Learnt(sha, origin, age, o2, a2)
    BY <1>1
  <2> HIDE DEF o2, a2
  <2>2. \A o, a : o = o2 /\ a = a2 => Lineage(o, a)'
    <3> SUFFICES ASSUME NEW o, NEW a, o = o2, a = a2
                 PROVE  Lineage(o, a)'
      OBVIOUS
    <3>1. /\ a \in [Sha -> Nat] /\ o[sha] = p /\ a[sha] = sent + 2
          /\ Learnt(sha, origin, age, o, a)
      BY <2>1
    <3>2. action # "closed"
      BY <1>2
    <3>3. QED
      BY <1>2, <3>1, <3>2, SendKeeps
  <2>3. \E o \in [Sha -> PR], a \in [Sha -> Nat] : Lineage(o, a)'
    BY <2>1, <2>2
  <2>4. QED
    BY <2>3 DEF RequestsInv
<1>3. ASSUME NEW sha \in Sha, NEW action, head[p] = sha,
             UNCHANGED <<rows, task>>, Send(p, action, sha),
             head' = [head EXCEPT ![p] = sha],
             \A q \in PullRequest : q # p => open'[q] = open[q],
             action \in {"closed", "reopened"},
             action = "reopened" => ~open[p],
             ~open'[p] => action = "closed"
      PROVE  RequestsInv'
  <2>1. Learnt(sha, origin, age, origin, age) /\ action # "opened"
    BY <1>3 DEF Learnt
  <2>2. Lineage(origin, age)'
    BY <1>3, <2>1, SendKeeps
  <2>3. QED
    BY <2>2 DEF RequestsInv
<1>4. ASSUME NEW sha \in Sha, OpenPR(p, sha)
      PROVE  RequestsInv'
  <2>1. /\ New(sha) /\ UNCHANGED <<rows, task>> /\ Send(p, "opened", sha)
        /\ head' = [head EXCEPT ![p] = sha]
        /\ \A q \in PullRequest : q # p => open'[q] = open[q]
        /\ head[p] = NULL /\ open'[p]
    BY <1>4 DEF OpenPR, TypeOK
  <2>2. QED
    BY <1>2, <2>1
<1>5. ASSUME NEW sha \in Sha, Push(p, sha)
      PROVE  RequestsInv'
  <2>1. /\ New(sha) /\ UNCHANGED <<rows, task>> /\ Send(p, "synchronize", sha)
        /\ head' = [head EXCEPT ![p] = sha]
        /\ \A q \in PullRequest : q # p => open'[q] = open[q]
        /\ open'[p]
    BY <1>5 DEF Push, TypeOK
  <2>2. QED
    BY <1>2, <2>1
<1>6. ASSUME NEW sha \in Sha, ReopenPR(p, sha)
      PROVE  RequestsInv'
  <2>1. /\ (sha = head[p] \/ New(sha)) /\ UNCHANGED <<rows, task>> /\ Send(p, "reopened", sha)
        /\ head' = [head EXCEPT ![p] = sha]
        /\ \A q \in PullRequest : q # p => open'[q] = open[q]
        /\ ~open[p] /\ open'[p]
    BY <1>6 DEF ReopenPR, TypeOK
  <2>2. CASE sha = head[p]
    BY <1>3, <2>1, <2>2
  <2>3. CASE New(sha)
    BY <1>2, <2>1, <2>3
  <2>4. QED
    BY <2>1, <2>2, <2>3
<1>7. ASSUME ClosePR(p)
      PROVE  RequestsInv'
  <2>1. /\ UNCHANGED <<rows, task>> /\ Send(p, "closed", head[p])
        /\ head' = [head EXCEPT ![p] = head[p]]
        /\ \A q \in PullRequest : q # p => open'[q] = open[q]
        /\ open[p]
    BY <1>7 DEF ClosePR, TypeOK
  <2>2. head[p] \in Sha
    <3>1. head[p] # NULL
      BY <2>1 DEF Lineage, Kept, InLine
    <3>2. QED
      BY <3>1 DEF TypeOK
  <2>3. QED
    BY <1>3, <2>1, <2>2
<1>8. QED
  BY <1>4, <1>5, <1>6, <1>7

\* A commit of no pull request comes up, or none does.
LEMMA GhostsOf ==
    ASSUME TypeOK, NEW sha \in Sha \cup {NULL}, sha = NULL \/ New(sha), sent' >= sent, sent' \in Nat,
           NEW origin \in [Sha -> PR], NEW age \in [Sha -> Nat], Lineage(origin, age)
    PROVE  \E o2 \in [Sha -> PR], a2 \in [Sha -> Nat] :
              /\ Learnt(sha, origin, age, o2, a2)
              /\ sha # NULL => o2[sha] = NoPR
              /\ \A q \in PullRequest : \A s \in Sha : Uses(q, s) => o2[s] = origin[s] /\ a2[s] = age[s]
              /\ \A i \in Existing(rows) : rows[i].sha # NULL => o2[rows[i].sha] = origin[rows[i].sha]
              /\ \A w \in Worker : task[w] # Idle /\ task[w].event.sha # NULL =>
                    o2[task[w].event.sha] = origin[task[w].event.sha]
              /\ Numbered(o2, a2)'
<1>0. sent \in Nat /\ NoPR \in PR
  BY RequestsAssumption DEF TypeOK
<1>1. /\ \A s \in Sha : age[s] <= sent + 1 /\ age[s] \in Nat
      /\ \A s, t \in Sha : origin[s] = origin[t] /\ age[s] = age[t] /\ age[s] # 0 => s = t
  BY DEF Lineage, Numbered
<1>2. /\ \A i \in Existing(rows) : rows[i].sha \in Sha \cup {NULL}
      /\ \A w \in Worker : task[w] # Idle => task[w].event.sha \in Sha \cup {NULL}
  <2>1. \A i \in Existing(rows) : rows[i].sha \in Sha \cup {NULL}
    BY DEF TypeOK, Row, Existing
  <2>2. \A w \in Worker : task[w] # Idle => task[w].event.sha \in Sha \cup {NULL}
    BY TaskOf DEF TypeOK, Event
  <2>3. QED
    BY <2>1, <2>2
<1>3. CASE sha = NULL
  <2>1. \A s \in Sha : age[s] <= sent' + 1
    BY <1>0, <1>1
  <2>2. Numbered(origin, age)'
    BY <1>1, <2>1 DEF Numbered
  <2>3. Learnt(sha, origin, age, origin, age)
    BY DEF Learnt
  <2>4. QED
    BY <1>3, <2>2, <2>3
<1>4. CASE sha \in Sha /\ New(sha)
  <2> DEFINE o2 == [origin EXCEPT ![sha] = NoPR]
             a2 == [age EXCEPT ![sha] = 0]
  <2>1. /\ o2 \in [Sha -> PR] /\ a2 \in [Sha -> Nat]
        /\ \A s \in Sha : s # sha => o2[s] = origin[s] /\ a2[s] = age[s]
        /\ o2[sha] = NoPR /\ a2[sha] = 0
    BY <1>0, <1>4
  <2> HIDE DEF o2, a2
  <2>2. Learnt(sha, origin, age, o2, a2)
    BY <2>1 DEF Learnt
  <2>3. /\ \A q \in PullRequest : ~Uses(q, sha)
        /\ \A i \in Existing(rows) : rows[i].sha # sha
        /\ \A w \in Worker : task[w] # Idle => task[w].event.sha # sha
    BY <1>4, NewIsUnused
  <2>4. \A q \in PullRequest : \A s \in Sha : Uses(q, s) => o2[s] = origin[s] /\ a2[s] = age[s]
    BY <2>1, <2>3
  <2>5. \A o, a : o = o2 /\ a = a2 => Numbered(o, a)'
    <3>1. \A s \in Sha : a2[s] <= sent' + 1
      BY <1>0, <1>1, <2>1
    <3>2. \A s, t \in Sha : o2[s] = o2[t] /\ a2[s] = a2[t] /\ a2[s] # 0 => s = t
      BY <1>1, <2>1
    <3>3. QED
      BY <3>1, <3>2 DEF Numbered
  <2>6. /\ \A i \in Existing(rows) : rows[i].sha # NULL => o2[rows[i].sha] = origin[rows[i].sha]
        /\ \A w \in Worker : task[w] # Idle /\ task[w].event.sha # NULL =>
              o2[task[w].event.sha] = origin[task[w].event.sha]
    BY <1>2, <2>1, <2>3
  <2>7. QED
    BY <1>4, <2>1, <2>2, <2>4, <2>5, <2>6
<1>5. QED
  BY <1>3, <1>4

LEMMA TestBuildKeeps ==
    ASSUME TypeOK, ~Reuses, Apart', NEW w \in Worker, NEW sha \in Sha \cup {NULL}, TestBuild(w, sha),
           NEW origin \in [Sha -> PR], NEW age \in [Sha -> Nat], Lineage(origin, age)
    PROVE  RequestsInv'
<1> DEFINE e == [action |-> "test build", pr |-> NoPR, sha |-> sha]
           t == [step |-> "find adhoc", event |-> e]
<1>1. /\ task[w] = Idle /\ (sha = NULL \/ New(sha)) /\ sent' = sent + 1
      /\ task' = [task EXCEPT ![w] = t] /\ UNCHANGED <<rows, github>>
  BY DEF TestBuild
<1>2. sent' >= sent /\ sent' \in Nat
  <2>1. sent' = sent + 1
    BY DEF TestBuild
  <2>2. sent \in Nat
    BY RequestsAssumption DEF TypeOK
  <2>3. QED
    BY <2>1, <2>2
<1>3. PICK o2 \in [Sha -> PR], a2 \in [Sha -> Nat] :
         /\ sha # NULL => o2[sha] = NoPR
         /\ \A q \in PullRequest : \A s \in Sha : Uses(q, s) => o2[s] = origin[s] /\ a2[s] = age[s]
         /\ \A i \in Existing(rows) : rows[i].sha # NULL => o2[rows[i].sha] = origin[rows[i].sha]
         /\ Numbered(o2, a2)'
  <2>1. sha = NULL \/ New(sha)
    BY DEF TestBuild
  <2> HIDE DEF t, e
  <2>2. QED
    BY <1>2, <2>1, GhostsOf
<1>4. t # Idle /\ t.event = e /\ t.step = "find adhoc"
  <2>1. t \in Task
    BY RequestsAssumption DEF Task, Event, Action
  <2>2. QED
    BY <2>1, IdleIsNoTask
<1>5. e.action = "test build" /\ e.pr = NoPR /\ e.sha = sha
  OBVIOUS
<1> HIDE DEF t, e
<1>6. \A v \in Worker : (v = w => task'[v] = t) /\ (v # w => task'[v] = task[v])
  BY <1>1 DEF TypeOK
<1>7. \A v \in Worker : Of(v, NoPR)' => v = w
  BY <1>4, <1>5, <1>6 DEF Apart, Of
<1>8. ASSUME NEW q \in PullRequest
      PROVE  Kept(o2, a2, q)'
  <2>1. Rows(q)' = Rows(q) /\ Active(q)' = Active(q) /\ q # NoPR
    BY <1>1, RowsUnchanged DEF PullRequest
  <2>2. \A v \in Worker : (Of(v, q)' <=> Of(v, q)) /\ (Of(v, q) => task'[v] = task[v])
    BY <1>1, <1>4, <1>5, <1>6, <2>1 DEF Of
  <2>3. Rests(q)
    BY <1>1, <2>1, <2>2 DEF Rests, github
  <2>4. QED
    BY <1>3, <2>3, Resting DEF Lineage
<1>9. Owned(o2)'
  BY <1>1, <1>3 DEF Lineage, Owned
<1>10. Building(o2)'
  <2>1. \A i, j \in Rows(NoPR)' : i = j
    <3>1. Rows(NoPR)' = Rows(NoPR)
      BY <1>1, RowsUnchanged
    <3>2. QED
      BY <3>1 DEF Lineage, Building
  <2>2. /\ task'[w].event.action = "test build"
        /\ task'[w].event.sha = sha
        /\ task'[w].step = "find adhoc"
    BY <1>4, <1>5, <1>6
  <2>3. \A v \in Worker : Of(v, NoPR)' => v = w
    BY <1>7
  <2>4. QED
    BY <1>3, <2>1, <2>2, <2>3 DEF Building, Step
<1>11. QED
  BY <1>3, <1>8, <1>9, <1>10 DEF Lineage, RequestsInv

\* What agents do.
LEMMA AgentKeeps ==
    ASSUME TypeOK, ~Reuses, NEW i \in Id, Report(i) \/ \E a \in Agent : Claim(i, a),
           NEW origin \in [Sha -> PR], NEW age \in [Sha -> Nat], Lineage(origin, age)
    PROVE  RequestsInv'
<1>1. UNCHANGED <<github, task, sent>>
  BY DEF Report, Claim
<1>2. PICK sha \in Sha \cup {NULL} :
         /\ sha = NULL \/ New(sha)
         /\ Keeps
         /\ \A q \in PR : Active(q)' \subseteq Active(q)
         /\ \A j \in Id : \/ rows'[j].sha = rows[j].sha
                          \/ sha # NULL /\ rows[j].sha = NULL /\ rows'[j].sha = sha
  <2>1. CASE Report(i)
    <3>1. PICK a \in Agent \cup {NULL}, sha \in Sha \cup {NULL}, s \in {"running", "failed", "done"} :
             /\ <<rows[i].status, s>> \in {<<"assigned", "running">>, <<"assigned", "failed">>,
                                           <<"running", "failed">>, <<"teardown", "done">>}
             /\ sha # NULL => rows[i].sha = NULL /\ New(sha)
             /\ rows' = Updated(rows, i, s, [sha |-> sha, agent |-> a, urls |-> s = "running"])
      BY <2>1 DEF Report
    <3> DEFINE f == [sha |-> sha, agent |-> a, urls |-> s = "running"]
    <3>2. f.sha = sha /\ rows' = Updated(rows, i, s, f)
      BY <3>1
    <3> HIDE DEF f
    <3>3. Exists(rows, i) /\ s \in Statuses
      BY <3>1 DEF Exists, Statuses
    <3>4. /\ Keeps
          /\ \A j \in Id : rows'[j].sha = IF j = i THEN Coalesce(rows[i].sha, sha) ELSE rows[j].sha
          /\ s \notin ActiveStatuses => \A q \in PR : Active(q)' = Active(q) \ {i}
          /\ s \in ActiveStatuses /\ rows[i].status \in ActiveStatuses =>
                \A q \in PR : Active(q)' = Active(q)
      BY <3>2, <3>3, UpdateKeeps
    <3>5. s \notin ActiveStatuses \/ (s \in ActiveStatuses /\ rows[i].status \in ActiveStatuses)
      BY <3>1 DEF ActiveStatuses
    <3>6. \A q \in PR : Active(q)' \subseteq Active(q)
      BY <3>4, <3>5
    <3>7. Coalesce(rows[i].sha, sha) = rows[i].sha \/ (sha # NULL /\ Coalesce(rows[i].sha, sha) = sha)
      BY <3>1 DEF Coalesce
    <3>8. QED
      BY <3>1, <3>4, <3>6, <3>7
  <2>2. CASE \E a \in Agent : Claim(i, a)
    BY <2>2, ClaimKeeps
  <2>3. QED
    BY <2>1, <2>2
<1>3. sent' >= sent /\ sent' \in Nat
  BY <1>1, RequestsAssumption DEF TypeOK
<1>4. PICK o2 \in [Sha -> PR], a2 \in [Sha -> Nat] :
         /\ sha # NULL => o2[sha] = NoPR
         /\ \A q \in PullRequest : \A s \in Sha : Uses(q, s) => o2[s] = origin[s] /\ a2[s] = age[s]
         /\ \A j \in Existing(rows) : rows[j].sha # NULL => o2[rows[j].sha] = origin[rows[j].sha]
         /\ \A w \in Worker : task[w] # Idle /\ task[w].event.sha # NULL =>
               o2[task[w].event.sha] = origin[task[w].event.sha]
         /\ Numbered(o2, a2)'
  BY <1>2, <1>3, GhostsOf
<1>5. \A v \in Worker : \A q : (Of(v, q)' <=> Of(v, q)) /\ task'[v] = task[v]
  BY <1>1 DEF Of
<1>6. /\ Existing(rows) \subseteq Id /\ \A q : Rows(q) \subseteq Existing(rows)
      /\ NoPR \in PR /\ \A q \in PullRequest : q \in PR /\ q # NoPR
  BY RequestsAssumption DEF Existing, Rows, OfPR, PullRequest
<1>7. ASSUME NEW q \in PullRequest
      PROVE  Kept(o2, a2, q)'
  <2>1. \A j \in Rows(q) : rows[j].sha # NULL
    BY DEF Lineage, Kept, Ages, Dated
  <2>2. \A j \in Rows(q) : rows'[j].sha = rows[j].sha /\ rows'[j].created = rows[j].created
    BY <1>2, <1>6, <2>1 DEF Keeps, SameColumns
  <2>3. Rests(q)
    BY <1>1, <1>2, <1>5, <1>6, <2>2 DEF Rests, Keeps, github
  <2>4. QED
    BY <1>4, <2>3, Resting DEF Lineage
<1>8. Owned(o2)'
  <2>1. \A j \in Existing(rows) : SameColumns(rows'[j], rows[j])
    BY <1>2, <1>6 DEF Keeps
  <2>2. \A j \in Existing(rows) :
           /\ rows'[j].sha = NULL => rows[j].pr = NoPR
           /\ rows'[j].sha # NULL => o2[rows'[j].sha] = rows[j].pr
    <3> TAKE j \in Existing(rows)
    <3>1. /\ rows[j].sha = NULL => rows[j].pr = NoPR
          /\ rows[j].sha # NULL => o2[rows[j].sha] = rows[j].pr
      BY <1>4 DEF Lineage, Owned
    <3>2. \/ rows'[j].sha = rows[j].sha
          \/ sha # NULL /\ rows[j].sha = NULL /\ rows'[j].sha = sha
      BY <1>2, <1>6
    <3>3. QED
      BY <1>4, <3>1, <3>2
  <2>3. \A j \in Existing(rows) : /\ rows[j].repo = TheRepo /\ rows[j].branch = TheBranch
                                  /\ rows[j].created <= Cardinality(Existing(rows))
    BY DEF Lineage, Owned
  <2>4. \A j \in Existing(rows) : rows[j].adhoc <=> rows[j].pr = NoPR
    BY DEF Lineage, Owned
  <2>5. Existing(rows') = Existing(rows)
    BY <1>2 DEF Keeps
  <2>6. QED
    BY <2>1, <2>2, <2>3, <2>4, <2>5 DEF Owned, SameColumns
<1>9. Building(o2)'
  <2>1. Rows(NoPR)' = Rows(NoPR)
    BY <1>2, <1>6 DEF Keeps
  <2>2. \A v \in Worker : Of(v, NoPR) /\ task[v].event.sha # NULL =>
           o2[task[v].event.sha] = origin[task[v].event.sha]
    BY <1>4 DEF Of
  <2>3. QED
    BY <1>1, <1>5, <2>1, <2>2 DEF Lineage, Building, Step
<1>10. QED
  BY <1>4, <1>7, <1>8, <1>9 DEF Lineage, RequestsInv

-----------------------------------------------------------------------------
(* The invariant. *)

LEMMA RequestsInit ==
    ASSUME ~Reuses
    PROVE  Init => RequestsInv
<1> SUFFICES ASSUME Init PROVE RequestsInv
  OBVIOUS
<1> DEFINE Heads(s) == {p \in PullRequest : head[p] = s}
           origin == [s \in Sha |-> IF Heads(s) = {} THEN NoPR ELSE CHOOSE p \in Heads(s) : TRUE]
           age == [s \in Sha |-> IF Heads(s) = {} THEN 0 ELSE 1]
<1>1. /\ \A p \in PullRequest : deliveries[p] = << >> /\ (open[p] <=> head[p] # NULL)
      /\ \A w \in Worker : task[w] = Idle
      /\ sent = 0
      /\ head \in [PullRequest -> Sha \cup {NULL}]
      /\ \A p, q \in PullRequest : head[p] = head[q] => p = q \/ head[p] = NULL
  BY DEF Init
<1>2. Existing(rows) = {}
  <2>1. \A i \in Id : rows[i].status = "absent"
    BY DEF Init, Blank
  <2>2. QED
    BY <2>1 DEF Existing, Exists
<1>3. /\ \A q : Rows(q) = {} /\ Active(q) = {} /\ Free(q)
      /\ \A w \in Worker : \A q : ~Of(w, q)
  <2>1. \A q : Rows(q) = {}
    BY <1>2 DEF Rows, OfPR
  <2>2. \A q : Active(q) = {}
    BY <2>1, ActiveRows
  <2>3. QED
    BY <1>1, <2>1, <2>2 DEF Free, Of
<1>4. origin \in [Sha -> PR] /\ age \in [Sha -> Nat]
  BY RequestsAssumption DEF PullRequest
<1>5. \A p \in PullRequest : head[p] # NULL => Dated(origin, age, p, head[p])
  <2> SUFFICES ASSUME NEW p \in PullRequest, head[p] # NULL
               PROVE  Dated(origin, age, p, head[p])
    OBVIOUS
  <2>1. head[p] \in Sha /\ Heads(head[p]) = {p}
    BY <1>1
  <2>2. QED
    BY <2>1 DEF Dated
<1>6. \A s \in Sha : age[s] <= 1 /\ (age[s] # 0 => head[origin[s]] = s)
  <2> TAKE s \in Sha
  <2>1. CASE Heads(s) = {}
    BY <2>1
  <2>2. CASE Heads(s) # {}
    <3>1. origin[s] \in Heads(s)
      BY <2>2
    <3>2. QED
      BY <2>2, <3>1
  <2>3. QED
    BY <2>1, <2>2
<1> HIDE DEF origin, age
<1>7. Numbered(origin, age)
  BY <1>1, <1>6 DEF Numbered
<1>8. ASSUME NEW p \in PullRequest
      PROVE  Kept(origin, age, p)
  <2>1. /\ Len(deliveries[p]) = 0 /\ 1..Len(deliveries[p]) = {}
    BY <1>1
  <2>2. \A k : k = 1 => (\A sha : AfterCommit(p, k, sha)) /\ AfterClose(p, k)
    BY <1>3 DEF AfterCommit, AfterClose, NewestFor
  <2>3. InLine(p)
    BY <1>1, <1>3, <2>1, <2>2 DEF InLine
  <2>4. Ages(origin, age, p)
    BY <1>3, <1>5, <2>1 DEF Ages
  <2>5. QED
    BY <1>3, <2>3, <2>4 DEF Kept, Topped
<1>9. Owned(origin) /\ Building(origin)
  BY <1>2, <1>3 DEF Owned, Building
<1>10. QED
  BY <1>4, <1>7, <1>8, <1>9 DEF Lineage, RequestsInv

LEMMA StutterKeeps ==
    ASSUME TypeOK, UNCHANGED vars,
           NEW origin \in [Sha -> PR], NEW age \in [Sha -> Nat], Lineage(origin, age)
    PROVE  Lineage(origin, age)'
<1>1. /\ rows' = rows /\ open' = open /\ head' = head /\ deliveries' = deliveries
      /\ task' = task /\ sent' = sent
  BY DEF vars
<1>2. \A v \in Worker : \A q : Of(v, q)' <=> Of(v, q)
  BY <1>1 DEF Of
<1>3. ASSUME NEW q \in PullRequest
      PROVE  Kept(origin, age, q)'
  <2>1. Rests(q)
    BY <1>1, <1>2, RowsUnchanged DEF Rests
  <2>2. QED
    BY <2>1, Resting DEF Lineage
<1>4. Rows(NoPR)' = Rows(NoPR)
  BY <1>1, RowsUnchanged
<1>5. Building(origin)'
  BY <1>1, <1>2, <1>4 DEF Lineage, Building, Step
<1>6. Owned(origin)' /\ Numbered(origin, age)'
  BY <1>1 DEF Lineage, Owned, Numbered
<1>7. QED
  BY <1>3, <1>5, <1>6 DEF Lineage

LEMMA RequestsStep ==
    ASSUME ~Reuses
    PROVE  TypeOK /\ RequestsInv /\ Apart /\ Apart' /\ [Next]_vars => RequestsInv'
<1> SUFFICES ASSUME TypeOK, RequestsInv, Apart, Apart', [Next]_vars PROVE RequestsInv'
  OBVIOUS
<1>1. PICK origin \in [Sha -> PR], age \in [Sha -> Nat] : Lineage(origin, age)
  BY DEF RequestsInv
<1>2. Lineage(origin, age)' => RequestsInv'
  BY DEF RequestsInv
<1>3. ASSUME NEW w \in Worker, task[w] # Idle
      PROVE  \/ task[w].event.pr \in PullRequest /\ Of(w, task[w].event.pr)
             \/ Of(w, NoPR) /\ task[w].event.pr = NoPR
  <2>1. task[w].event.pr \in PR
    BY <1>3, TaskOf DEF TypeOK, Event
  <2>2. QED
    BY <1>3, <2>1 DEF PullRequest, Of
<1>4. ASSUME NEW w \in Worker, FindActive(w)
      PROVE  Lineage(origin, age)'
  <2>1. Step(w, "find active") /\ task[w] # Idle
    BY <1>4 DEF FindActive, Step
  <2>2. ~Of(w, NoPR)
    BY <1>1, <2>1 DEF Lineage, Building, Step
  <2>3. QED
    BY <1>1, <1>3, <1>4, <2>1, <2>2, FindActiveKeeps
<1>5. ASSUME NEW w \in Worker, Supersede(w)
      PROVE  Lineage(origin, age)'
  <2>1. Step(w, "supersede") /\ task[w] # Idle
    BY <1>5 DEF Supersede, Step
  <2>2. ~Of(w, NoPR)
    BY <1>1, <2>1 DEF Lineage, Building, Step
  <2>3. QED
    BY <1>1, <1>3, <1>5, <2>1, <2>2, SupersedeKeeps
<1>6. ASSUME NEW w \in Worker, FindNewest(w)
      PROVE  Lineage(origin, age)'
  <2>1. Step(w, "find newest") /\ task[w] # Idle
    BY <1>6 DEF FindNewest, Step
  <2>2. ~Of(w, NoPR)
    BY <1>1, <2>1 DEF Lineage, Building, Step
  <2>3. QED
    BY <1>1, <1>3, <1>6, <2>1, <2>2, FindNewestKeeps
<1>7. ASSUME NEW w \in Worker, Close(w)
      PROVE  Lineage(origin, age)'
  <2>1. Step(w, "close") /\ task[w] # Idle
    BY <1>7 DEF Close, Step
  <2>2. ~Of(w, NoPR)
    BY <1>1, <2>1 DEF Lineage, Building, Step
  <2>3. QED
    BY <1>1, <1>3, <1>7, <2>1, <2>2, CloseKeeps
<1>8. ASSUME NEW w \in Worker, Requeue(w)
      PROVE  Lineage(origin, age)'
  <2>1. task[w] # Idle
    BY <1>8 DEF Requeue, Step
  <2>2. QED
    BY <1>1, <1>3, <1>8, <2>1, RequeueKeeps, RequeueBuildKeeps
<1>9. ASSUME NEW w \in Worker, FindAdhoc(w)
      PROVE  Lineage(origin, age)'
  <2>1. Step(w, "find adhoc") /\ task[w] # Idle
    BY <1>9 DEF FindAdhoc, Step
  <2>2. ASSUME NEW p \in PullRequest, Of(w, p)
        PROVE  FALSE
    BY <1>1, <2>1, <2>2 DEF Lineage, Kept, Handling
  <2>3. QED
    BY <1>1, <1>3, <1>9, <2>1, <2>2, FindAdhocKeeps
<1>10. ASSUME NEW w \in Worker, NEW i \in Id, UpsertNew(w, i)
       PROVE  Lineage(origin, age)'
  <2>1. task[w] # Idle
    BY <1>10 DEF UpsertNew, Step
  <2>2. QED
    BY <1>1, <1>3, <1>10, <2>1, UpsertNewKeeps, UpsertNewBuild
<1>11. ASSUME NEW w \in Worker, NEW i \in Id, UpsertSame(w, i)
       PROVE  Lineage(origin, age)'
  <2>1. task[w] # Idle
    BY <1>11 DEF UpsertSame, Step
  <2>2. QED
    BY <1>1, <1>3, <1>11, <2>1, UpsertSameKeeps, UpsertSameBuild
<1>12. ASSUME NEW p \in PullRequest,
              \/ \E sha \in Sha : OpenPR(p, sha) \/ Push(p, sha) \/ ReopenPR(p, sha)
              \/ ClosePR(p)
       PROVE  RequestsInv'
  BY <1>1, <1>12, GitHubKeeps
<1>13. ASSUME NEW p \in PullRequest, NEW w \in Worker, Receive(w, p)
       PROVE  Lineage(origin, age)'
  BY <1>1, <1>13, ReceiveKeeps
<1>14. ASSUME NEW w \in Worker, NEW sha \in Sha \cup {NULL}, TestBuild(w, sha)
       PROVE  RequestsInv'
  BY <1>1, <1>14, TestBuildKeeps
<1>15. ASSUME NEW i \in Id, Report(i) \/ \E a \in Agent : Claim(i, a)
       PROVE  RequestsInv'
  BY <1>1, <1>15, AgentKeeps
<1>16. ASSUME UNCHANGED vars
       PROVE  Lineage(origin, age)'
  BY <1>1, <1>16, StutterKeeps
<1>17. QED
  BY <1>2, <1>4, <1>5, <1>6, <1>7, <1>8, <1>9, <1>10, <1>11, <1>12, <1>13, <1>14, <1>15, <1>16 DEF Next

\* What the invariant says once and for all of the rows.
LEMMA RequestsKept ==
    TypeOK /\ RequestsInv => OneActivePerPR /\ ClosedTornDown /\ HeadTracked
<1> SUFFICES ASSUME TypeOK, RequestsInv
             PROVE  OneActivePerPR /\ ClosedTornDown /\ HeadTracked
  OBVIOUS
<1>1. PICK origin \in [Sha -> PR], age \in [Sha -> Nat] : Lineage(origin, age)
  BY DEF RequestsInv
<1>2. \A p \in PullRequest : InLine(p) /\ Topped(age, p)
  BY <1>1 DEF Lineage, Kept
<1>3. OneActivePerPR
  <2>1. \A p \in PullRequest : Active(p) # {} => \E n : Active(p) \subseteq {n}
    BY <1>2, ActiveRows DEF Topped
  <2>2. QED
    BY <2>1 DEF OneActivePerPR
<1>4. ASSUME NEW p \in PullRequest, Settled(p)
      PROVE  Free(p) /\ NewestFor(p, head[p]) /\ (~open[p] => Active(p) = {})
  <2>1. deliveries[p] = << >> /\ Free(p)
    BY <1>4 DEF Settled, Free, Of
  <2>2. Len(deliveries[p]) + 1 = 1
    BY <2>1
  <2>3. AfterCommit(p, 1, head[p]) /\ (~open[p] => AfterClose(p, 1))
    <3>1. /\ AfterCommit(p, Len(deliveries[p]) + 1, head[p])
          /\ ~open[p] => AfterClose(p, Len(deliveries[p]) + 1)
      BY <1>2 DEF InLine
    <3>2. QED
      BY <2>2, <3>1
  <2>4. QED
    BY <2>1, <2>3 DEF AfterCommit, AfterClose
<1>5. ClosedTornDown
  BY <1>4 DEF ClosedTornDown
<1>6. HeadTracked
  <2> SUFFICES ASSUME NEW p \in PullRequest, Settled(p), Rows(p) # {}
               PROVE  LET i == Newest(rows, Rows(p))
                      IN  rows[i].sha = head[p] /\ Active(p) \subseteq {i}
    BY DEF HeadTracked, Rows
  <2>1. PICK n \in Rows(p) : IsNewest(n, p) /\ Active(p) \subseteq {n}
    BY <1>2 DEF Topped
  <2>2. Newest(rows, Rows(p)) = n
    <3>1. rows \in Tables /\ Rows(p) \subseteq Id
      BY ActiveRows DEF TypeOK, Tables
    <3>2. QED
      BY <2>1, <3>1, NewestUnique DEF IsNewest
  <2>3. rows[n].sha = head[p]
    BY <1>4, <2>1 DEF NewestFor
  <2>4. QED
    BY <2>1, <2>2, <2>3
<1>7. QED
  BY <1>3, <1>5, <1>6

\* Commits that are new: the events and the rows of a pull request stay in line.
THEOREM RequestsInvariant ==
    ASSUME ~Reuses
    PROVE  Spec /\ []Apart => []RequestsInv
<1>1. Init => RequestsInv
  BY RequestsInit
<1>2. TypeOK /\ RequestsInv /\ Apart /\ Apart' /\ [Next]_vars => RequestsInv'
  BY RequestsStep
<1>3. QED
  BY <1>1, <1>2, TypeCorrect, PTL DEF Spec

\* A pull request has one active preview at most, between any two transactions
\* of a webhook: the one it superseded is in teardown before the new row is
\* there.  The requests of a pull request must come one at a time, and about new
\* commits: the runs Shared and Reopened show what else can happen.
THEOREM OneActive ==
    ASSUME ~Reuses
    PROVE  Spec /\ []Apart => []OneActivePerPR
BY RequestsInvariant, TypeCorrect, RequestsKept, PTL

\* When the last event of a closed pull request is answered, no agent builds,
\* runs or can still claim a preview of it.
THEOREM TornDown ==
    ASSUME ~Reuses
    PROVE  Spec /\ []Apart => []ClosedTornDown
BY RequestsInvariant, TypeCorrect, RequestsKept, PTL

\* When the last event is answered, the newest preview of a pull request is for
\* its head, and no older one is active.
THEOREM Tracked ==
    ASSUME ~Reuses
    PROVE  Spec /\ []Apart => []HeadTracked
BY RequestsInvariant, TypeCorrect, RequestsKept, PTL

-----------------------------------------------------------------------------
(* Test builds.  Here commits need not be new, and webhooks may overlap with *)
(* everything.                                                               *)

Builds(w) == task[w] # Idle /\ task[w].event.action = "test build"
Adhoc == {i \in Existing(rows) :
            rows[i].adhoc /\ rows[i].repo = TheRepo /\ rows[i].branch = TheBranch}

\* One test build is answered at a time.
BuildsApart == \A v, w \in Worker : Builds(v) /\ Builds(w) => v = w

\* No webhook is a test build.
OnlyWebhooks == \A p \in PullRequest : \A k \in 1..Len(deliveries[p]) :
                   deliveries[p][k].action # "test build"

\* A branch has one ad-hoc row, and none that a test build about to insert one
\* did not see.
OneAdhoc == \A i, j \in Adhoc : i = j
AllHere == \A i \in Existing(rows) : rows[i].repo = TheRepo /\ rows[i].branch = TheBranch
AboutToBuild(w) == /\ task[w].step \in {"find adhoc", "upsert", "requeue"}
                   /\ task[w].step = "upsert" => Adhoc = {}
BuildsInv == /\ OnlyWebhooks /\ OneAdhoc /\ AllHere
             /\ \A w \in Worker : Builds(w) => AboutToBuild(w)

LEMMA BuildsInit == Init => BuildsInv
<1> SUFFICES ASSUME Init PROVE BuildsInv
  OBVIOUS
<1>1. Existing(rows) = {}
  <2>1. \A i \in Id : rows[i].status = "absent"
    BY DEF Init, Blank
  <2>2. QED
    BY <2>1 DEF Existing, Exists
<1>2. \A p \in PullRequest : 1..Len(deliveries[p]) = {}
  <2>1. \A p \in PullRequest : Len(deliveries[p]) = 0
    BY DEF Init
  <2>2. QED
    BY <2>1
<1>3. \A w \in Worker : ~Builds(w)
  BY DEF Init, Builds
<1>4. OnlyWebhooks
  BY <1>2 DEF OnlyWebhooks
<1>5. OneAdhoc /\ AllHere
  BY <1>1 DEF OneAdhoc, AllHere, Adhoc
<1>6. QED
  BY <1>3, <1>4, <1>5 DEF BuildsInv

\* All writes but an insert leave rows where they are.
Stay == /\ Existing(rows') = Existing(rows)
        /\ \A j \in Existing(rows) : /\ rows'[j].repo = rows[j].repo
                                     /\ rows'[j].branch = rows[j].branch
                                     /\ rows'[j].adhoc = rows[j].adhoc

LEMMA KeptStay ==
    ASSUME Keeps
    PROVE  Stay
<1>1. Existing(rows) \subseteq Id
  BY DEF Existing
<1>2. QED
  BY <1>1 DEF Keeps, Stay, SameColumns

LEMMA MergedStay ==
    ASSUME TypeOK, AllHere, NEW i \in Existing(rows), NEW d, d.branch = TheBranch,
           rows' = Merged(rows, i, d)
    PROVE  Stay
<1> DEFINE r == [rows[i] EXCEPT !.pr = d.pr, !.branch = d.branch, !.labels = d.labels, !.fresh = TRUE]
<1>1. rows \in [Id -> Row] /\ i \in Id
  BY DEF TypeOK, Existing
<1>2. /\ r.repo = rows[i].repo /\ r.branch = d.branch
      /\ r.adhoc = rows[i].adhoc /\ r.status = rows[i].status
  BY <1>1 DEF Row
<1>3. rows' = [rows EXCEPT ![i] = r]
  BY DEF Merged
<1> HIDE DEF r
<1>4. \A j \in Id : rows'[j] = IF j = i THEN r ELSE rows[j]
  BY <1>1, <1>3
<1>5. rows[i].branch = TheBranch
  BY DEF AllHere
<1>6. Existing(rows') = Existing(rows)
  BY <1>2, <1>4 DEF Existing, Exists
<1>7. Existing(rows) \subseteq Id
  BY DEF Existing
<1>8. QED
  BY <1>2, <1>4, <1>5, <1>6, <1>7 DEF Stay

LEMMA StayAdhoc ==
    ASSUME Stay
    PROVE  Adhoc' = Adhoc /\ (AllHere => AllHere')
BY DEF Stay, Adhoc, AllHere

\* An insert of a webhook is not ad hoc; that of a test build is the first.
LEMMA InsertedAdhoc ==
    ASSUME TypeOK, AllHere, NEW w \in Worker, NEW i \in Id, UpsertNew(w, i)
    PROVE  /\ AllHere'
           /\ Adhoc' \subseteq Adhoc \cup {i}
           /\ ~Builds(w) => Adhoc' = Adhoc
<1> DEFINE d == DraftOf(task[w].event)
<1>1. rows' = Inserted(rows, i, d) /\ ~Exists(rows, i) /\ task[w] # Idle /\ rows \in Tables
  BY DEF UpsertNew, Step, TypeOK, Tables
<1>2. /\ d.repo = TheRepo /\ d.branch = TheBranch
      /\ d.adhoc <=> Builds(w)
  <2>1. d.repo = TheRepo /\ d.branch = TheBranch
    BY DEF DraftOf
  <2>2. d.adhoc <=> Builds(w)
    BY <1>1, Zenon DEF DraftOf, Builds
  <2>3. QED
    BY <2>1, <2>2
<1> HIDE DEF d
<1>3. /\ \A j \in Id : j # i => rows'[j] = rows[j]
      /\ rows'[i].repo = TheRepo /\ rows'[i].branch = TheBranch
      /\ rows'[i].adhoc = d.adhoc
      /\ Existing(rows') = Existing(rows) \cup {i}
  BY <1>1, <1>2, InsertedRow
<1>4. i \notin Existing(rows) /\ Existing(rows) \subseteq Id
  BY <1>1 DEF Existing
<1>5. \A j \in Existing(rows) : rows'[j] = rows[j]
  BY <1>3, <1>4
<1>6. AllHere'
  BY <1>3, <1>5 DEF AllHere
<1>7. Adhoc' \subseteq Adhoc \cup {i}
  BY <1>3, <1>5 DEF Adhoc
<1>8. ASSUME ~Builds(w)
      PROVE  Adhoc' = Adhoc
  <2>1. ~rows'[i].adhoc
    BY <1>2, <1>3, <1>8, Zenon
  <2>2. QED
    BY <1>3, <1>4, <1>5, <2>1 DEF Adhoc
<1>9. QED
  BY <1>6, <1>7, <1>8

LEMMA RowsStay ==
    ASSUME TypeOK, TasksKnow, AllHere, [Next]_vars
    PROVE  Stay \/ \E w \in Worker, i \in Id : UpsertNew(w, i)
<1>1. ASSUME rows' = rows
      PROVE  Stay
  BY <1>1 DEF Stay
<1>2. ASSUME NEW p \in PullRequest,
             \/ \E sha \in Sha : OpenPR(p, sha) \/ Push(p, sha) \/ ReopenPR(p, sha)
             \/ ClosePR(p)
             \/ \E w \in Worker : Receive(w, p)
      PROVE  rows' = rows
  BY <1>2 DEF OpenPR, Push, ReopenPR, ClosePR, Receive
<1>3. ASSUME NEW w \in Worker,
             \/ \E sha \in Sha \cup {NULL} : TestBuild(w, sha)
             \/ FindActive(w) \/ FindNewest(w) \/ FindAdhoc(w)
      PROVE  rows' = rows
  BY <1>3 DEF TestBuild, FindActive, FindNewest, FindAdhoc
<1>4. ASSUME NEW w \in Worker, Supersede(w) \/ Requeue(w) \/ Close(w)
      PROVE  Stay
  <2>1. task[w].id \in Id /\ Exists(rows, task[w].id)
    BY <1>4, TaskOf DEF Supersede, Requeue, Close, Step, TypeOK, TasksKnow
  <2>2. rows' = rows \/ \E to \in Statuses : rows' = Updated(rows, task[w].id, to, NoFields)
    BY <1>4 DEF Supersede, Requeue, Close, Statuses
  <2>3. QED
    BY <1>1, <2>1, <2>2, UpdateKeeps, KeptStay
<1>5. ASSUME NEW w \in Worker, NEW i \in Id, UpsertSame(w, i)
      PROVE  Stay
  <2>1. i \in Existing(rows) /\ rows' = Merged(rows, i, DraftOf(task[w].event))
    BY <1>5 DEF UpsertSame, WithSha
  <2>2. DraftOf(task[w].event).branch = TheBranch
    BY DEF DraftOf
  <2>3. QED
    BY <2>1, <2>2, MergedStay
<1>6. ASSUME NEW i \in Id, Report(i)
      PROVE  Stay
  <2>1. Exists(rows, i) /\ \E to \in Statuses : \E f : rows' = Updated(rows, i, to, f)
    BY <1>6 DEF Report, Statuses, Exists
  <2>2. QED
    BY <2>1, UpdateKeeps, KeptStay
<1>7. ASSUME NEW i \in Id, NEW a \in Agent, Claim(i, a)
      PROVE  Stay
  BY <1>7, ClaimKeeps, KeptStay
<1>8. ASSUME UNCHANGED vars
      PROVE  Stay
  BY <1>1, <1>8 DEF vars
<1>9. QED
  BY <1>1, <1>2, <1>3, <1>4, <1>5, <1>6, <1>7, <1>8 DEF Next

\* What is sent is a webhook, and what is received was one.
LEMMA WebhooksStep == TypeOK /\ OnlyWebhooks /\ [Next]_vars => OnlyWebhooks'
<1> SUFFICES ASSUME TypeOK, OnlyWebhooks, [Next]_vars PROVE OnlyWebhooks'
  OBVIOUS
<1>1. ASSUME NEW p \in PullRequest, NEW action \in Action, NEW sha \in Sha \cup {NULL},
             Send(p, action, sha), action # "test build"
      PROVE  OnlyWebhooks'
  <2> DEFINE e == [action |-> action, pr |-> p, sha |-> sha]
             d == deliveries[p]
  <2>1. d \in Seq(Event) /\ e \in Event /\ e.action # "test build"
    BY <1>1 DEF TypeOK, Event, PullRequest
  <2>2. deliveries'[p] = Append(d, e) /\ \A q \in PullRequest : q # p => deliveries'[q] = deliveries[q]
    BY <1>1 DEF Send, TypeOK
  <2>3. \A k \in 1..Len(d) : d[k].action # "test build"
    BY DEF OnlyWebhooks
  <2> HIDE DEF d, e
  <2>4. /\ Len(d) \in Nat /\ Len(Append(d, e)) = Len(d) + 1
        /\ \A k \in 1..Len(d) : Append(d, e)[k] = d[k]
        /\ Append(d, e)[Len(d) + 1] = e
    <3>1. d \in Seq(Event) /\ e \in Event
      BY <2>1
    <3>2. Len(d) \in Nat
      BY <3>1, LenProperties
    <3>3. QED
      BY <3>1, <3>2, AppendProperties
  <2>5. ASSUME NEW k \in 1..Len(Append(d, e))
        PROVE  Append(d, e)[k].action # "test build"
    <3>1. k \in 1..Len(d) \/ k = Len(d) + 1
      BY <2>4
    <3>2. QED
      BY <2>1, <2>3, <2>4, <3>1
  <2>6. QED
    BY <2>2, <2>5 DEF OnlyWebhooks
<1>2. ASSUME NEW p \in PullRequest, NEW w \in Worker, Receive(w, p)
      PROVE  OnlyWebhooks'
  <2> DEFINE d == deliveries[p]
  <2>1. d \in Seq(Event) /\ d # << >>
    BY <1>2 DEF TypeOK, Receive
  <2>2. deliveries'[p] = Tail(d) /\ \A q \in PullRequest : q # p => deliveries'[q] = deliveries[q]
    BY <1>2 DEF Receive, TypeOK
  <2>3. \A k \in 1..Len(d) : d[k].action # "test build"
    BY DEF OnlyWebhooks
  <2> HIDE DEF d
  <2>4. /\ Len(d) \in Nat /\ Len(Tail(d)) = Len(d) - 1
        /\ \A k \in 1..Len(d) - 1 : Tail(d)[k] = d[k + 1]
    BY <2>1, HeadTailProperties, LenProperties
  <2>5. ASSUME NEW k \in 1..Len(Tail(d))
        PROVE  Tail(d)[k].action # "test build"
    <3>1. k \in 1..Len(d) - 1 /\ k + 1 \in 1..Len(d)
      BY <2>4
    <3>2. QED
      BY <2>3, <2>4, <3>1
  <2>6. QED
    BY <2>2, <2>5 DEF OnlyWebhooks
<1>3. ASSUME NEW p \in PullRequest,
             \/ \E sha \in Sha : OpenPR(p, sha) \/ Push(p, sha) \/ ReopenPR(p, sha)
             \/ ClosePR(p)
      PROVE  \E action \in Action, sha \in Sha \cup {NULL} :
                Send(p, action, sha) /\ action # "test build"
  <2>1. head[p] \in Sha \cup {NULL}
    BY DEF TypeOK
  <2>2. /\ {"opened", "synchronize", "reopened", "closed"} \subseteq Action
        /\ "test build" \notin {"opened", "synchronize", "reopened", "closed"}
    BY DEF Action
  <2>3. \E action \in {"opened", "synchronize", "reopened", "closed"}, sha \in Sha \cup {NULL} :
           Send(p, action, sha)
    BY <1>3, <2>1 DEF OpenPR, Push, ReopenPR, ClosePR
  <2>4. QED
    BY <2>2, <2>3
<1>4. ASSUME deliveries' = deliveries
      PROVE  OnlyWebhooks'
  BY <1>4 DEF OnlyWebhooks
<1>5. ASSUME NEW w \in Worker,
             \/ \E sha \in Sha \cup {NULL} : TestBuild(w, sha)
             \/ FindActive(w) \/ Supersede(w) \/ Requeue(w)
             \/ FindNewest(w) \/ Close(w) \/ FindAdhoc(w)
             \/ \E i \in Id : UpsertNew(w, i) \/ UpsertSame(w, i)
      PROVE  deliveries' = deliveries
  BY <1>5 DEF TestBuild, FindActive, Supersede, Requeue, FindNewest, Close, FindAdhoc,
              UpsertNew, UpsertSame, github
<1>6. ASSUME NEW i \in Id, Report(i) \/ \E a \in Agent : Claim(i, a)
      PROVE  deliveries' = deliveries
  BY <1>6 DEF Report, Claim, github
<1>7. QED
  BY <1>1, <1>2, <1>3, <1>4, <1>5, <1>6 DEF Next, vars

\* A test build that goes on inserts a row only if it found none.
LEMMA BuildGoesOn ==
    ASSUME TypeOK, BuildsInv, [Next]_vars,
           NEW v \in Worker, Builds(v)', task'[v] # task[v]
    PROVE  /\ task'[v].step \in {"find adhoc", "upsert", "requeue"}
           /\ task'[v].step = "upsert" => Adhoc = {}
<1> DEFINE Goal == /\ task'[v].step \in {"find adhoc", "upsert", "requeue"}
                   /\ task'[v].step = "upsert" => Adhoc = {}
<1>1. task'[v] # Idle /\ task'[v].event.action = "test build"
  BY DEF Builds
<1>2. task \in [Worker -> Task \cup {Idle}]
  BY DEF TypeOK
<1>3. ASSUME NEW w \in Worker, NEW t, task' = [task EXCEPT ![w] = t]
      PROVE  v = w /\ task'[v] = t
  BY <1>2, <1>3
<1>4. ASSUME NEW p \in PullRequest, NEW w \in Worker, Receive(w, p)
      PROVE  FALSE
  <2> DEFINE d == deliveries[p]
  <2>1. \E s : task' = [task EXCEPT ![w] = [step |-> s, event |-> Head(d)]]
    BY <1>4 DEF Receive
  <2>2. task'[v].event = Head(d)
    BY <1>3, <2>1
  <2>3. d \in Seq(Event) /\ d # << >> /\ \A k \in 1..Len(d) : d[k].action # "test build"
    BY <1>4 DEF Receive, TypeOK, BuildsInv, OnlyWebhooks
  <2> HIDE DEF d
  <2>4. 1 \in 1..Len(d) /\ Head(d) = d[1]
    <3>1. Len(d) \in Nat /\ Len(d) # 0
      BY <2>3, LenProperties, EmptySeq
    <3>2. 1 \in 1..Len(d)
      BY <3>1
    <3>3. d \in Seq(Event)
      BY <2>3
    <3>4. Head(d) = d[1]
      BY <3>3
    <3>5. QED
      BY <3>2, <3>4
  <2>5. QED
    BY <1>1, <2>2, <2>3, <2>4
<1>5. ASSUME NEW w \in Worker, NEW sha \in Sha \cup {NULL}, TestBuild(w, sha)
      PROVE  Goal
  <2> DEFINE t == [step |-> "find adhoc",
                   event |-> [action |-> "test build", pr |-> NoPR, sha |-> sha]]
  <2>1. task' = [task EXCEPT ![w] = t]
    BY <1>5 DEF TestBuild
  <2>2. t.step = "find adhoc"
    OBVIOUS
  <2> HIDE DEF t
  <2>3. task'[v] = t
    BY <1>3, <2>1
  <2>4. QED
    BY <2>2, <2>3
<1>6. ASSUME NEW w \in Worker, task[w] # Idle,
             \E t : task' = [task EXCEPT ![w] = t] /\ (t = Idle \/ t.event = task[w].event)
      PROVE  v = w /\ Builds(w) /\ AboutToBuild(w)
  <2>1. PICK t : task' = [task EXCEPT ![w] = t] /\ (t = Idle \/ t.event = task[w].event)
    BY <1>6
  <2>2. v = w /\ task'[v] = t
    BY <1>3, <2>1
  <2>3. QED
    BY <1>1, <1>6, <2>1, <2>2 DEF BuildsInv, Builds
<1>7. ASSUME NEW w \in Worker, FindActive(w) \/ Supersede(w) \/ FindNewest(w) \/ Close(w)
      PROVE  FALSE
  <2>1. /\ Step(w, "find active") \/ Step(w, "supersede") \/ Step(w, "find newest") \/ Step(w, "close")
        /\ task[w] # Idle
    BY <1>7 DEF FindActive, Supersede, FindNewest, Close, Step
  <2>2. \E t : task' = [task EXCEPT ![w] = t] /\ (t = Idle \/ t.event = task[w].event)
    <3>1. \/ Done(w)
          \/ Go(w, "upsert")
          \/ \E s, i : About(w, s, i)
      BY <1>7 DEF FindActive, Supersede, FindNewest, Close
    <3>2. QED
      BY <3>1 DEF Done, Go, About
  <2>3. AboutToBuild(w)
    BY <1>6, <2>1, <2>2
  <2>4. QED
    BY <2>1, <2>3 DEF AboutToBuild, Step
<1>8. ASSUME NEW w \in Worker, Requeue(w) \/ \E i \in Id : UpsertNew(w, i)
      PROVE  FALSE
  <2>1. task' = [task EXCEPT ![w] = Idle]
    BY <1>8 DEF Requeue, UpsertNew, Done
  <2>2. QED
    BY <1>1, <1>3, <2>1
<1>9. ASSUME NEW w \in Worker, FindAdhoc(w)
      PROVE  Goal
  <2> DEFINE i == FindAdhocByBranch(rows, TheRepo, TheBranch)
             t1 == [step |-> "upsert", event |-> task[w].event]
             t2 == [step |-> "requeue", event |-> task[w].event, id |-> i, from |-> rows[i].status]
  <2>1. \/ i = NULL /\ task' = [task EXCEPT ![w] = t1]
        \/ task' = [task EXCEPT ![w] = t2]
        \/ task' = [task EXCEPT ![w] = Idle]
    BY <1>9 DEF FindAdhoc, Go, From, Done
  <2>2. t1.step = "upsert" /\ t2.step = "requeue"
    OBVIOUS
  <2>3. i = NULL => Adhoc = {}
    <3>1. i = Newest(rows, Adhoc)
      BY DEF FindAdhocByBranch, Adhoc
    <3>2. Adhoc \subseteq Id /\ rows \in Tables
      BY DEF Adhoc, Existing, TypeOK, Tables
    <3>3. Adhoc # {} => i \in Id
      BY <3>1, <3>2, NewestFound
    <3>4. QED
      BY <3>3, NullIsNoValue
  <2> HIDE DEF t1, t2, i
  <2>4. CASE i = NULL /\ task' = [task EXCEPT ![w] = t1]
    BY <1>3, <2>2, <2>3, <2>4
  <2>5. CASE task' = [task EXCEPT ![w] = t2]
    <3>1. task'[v] = t2
      BY <1>3, <2>5
    <3>2. QED
      BY <2>2, <3>1
  <2>6. CASE task' = [task EXCEPT ![w] = Idle]
    BY <1>1, <1>3, <2>6
  <2>7. QED
    BY <2>1, <2>4, <2>5, <2>6
<1>10. ASSUME NEW w \in Worker, NEW i \in Id, UpsertSame(w, i)
       PROVE  Goal
  <2> DEFINE t == [step |-> "requeue", event |-> task[w].event, id |-> i, from |-> rows[i].status]
  <2>1. task' = [task EXCEPT ![w] = t] \/ task' = [task EXCEPT ![w] = Idle]
    BY <1>10 DEF UpsertSame, From, Done
  <2>2. t.step = "requeue"
    OBVIOUS
  <2> HIDE DEF t
  <2>3. task'[v] = t
    BY <1>1, <1>3, <2>1
  <2>4. QED
    BY <2>2, <2>3
<1>11. task' # task
  OBVIOUS
<1>12. ASSUME NEW p \in PullRequest,
              \/ \E sha \in Sha : OpenPR(p, sha) \/ Push(p, sha) \/ ReopenPR(p, sha)
              \/ ClosePR(p)
       PROVE  FALSE
  BY <1>11, <1>12 DEF OpenPR, Push, ReopenPR, ClosePR
<1>13. ASSUME NEW i \in Id, Report(i) \/ \E a \in Agent : Claim(i, a)
       PROVE  FALSE
  BY <1>11, <1>13 DEF Report, Claim
<1>14. QED
  BY <1>4, <1>5, <1>7, <1>8, <1>9, <1>10, <1>11, <1>12, <1>13 DEF Next, vars

LEMMA BuildsStep ==
    TypeOK /\ TasksKnow /\ BuildsInv /\ BuildsApart /\ [Next]_vars => BuildsInv'
<1> SUFFICES ASSUME TypeOK, TasksKnow, BuildsInv, BuildsApart, [Next]_vars PROVE BuildsInv'
  OBVIOUS
<1>1. OnlyWebhooks' /\ AllHere /\ OneAdhoc
  BY WebhooksStep DEF BuildsInv
<1>2. CASE Stay
  <2>1. Adhoc' = Adhoc /\ AllHere'
    BY <1>1, <1>2, StayAdhoc
  <2>2. OneAdhoc'
    BY <1>1, <2>1 DEF OneAdhoc
  <2>3. ASSUME NEW v \in Worker, Builds(v)'
        PROVE  AboutToBuild(v)'
    <3>1. CASE task'[v] = task[v]
      BY <2>1, <2>3, <3>1 DEF BuildsInv, Builds, AboutToBuild
    <3>2. CASE task'[v] # task[v]
      BY <2>1, <2>3, <3>2, BuildGoesOn DEF AboutToBuild
    <3>3. QED
      BY <3>1, <3>2
  <2>4. QED
    BY <1>1, <2>1, <2>2, <2>3 DEF BuildsInv
<1>3. ASSUME NEW w \in Worker, NEW i \in Id, UpsertNew(w, i)
      PROVE  BuildsInv'
  <2>1. AllHere' /\ Adhoc' \subseteq Adhoc \cup {i} /\ (~Builds(w) => Adhoc' = Adhoc)
    BY <1>1, <1>3, InsertedAdhoc
  <2>2. Step(w, "upsert") /\ task' = [task EXCEPT ![w] = Idle]
    BY <1>3 DEF UpsertNew, Done
  <2>3. Builds(w) => Adhoc = {}
    BY <2>2 DEF BuildsInv, AboutToBuild, Step
  <2>4. OneAdhoc'
    BY <1>1, <2>1, <2>3 DEF OneAdhoc
  <2>5. ASSUME NEW v \in Worker, Builds(v)'
        PROVE  AboutToBuild(v)'
    <3>1. v # w /\ task'[v] = task[v] /\ Builds(v)
      BY <2>2, <2>5 DEF Builds, TypeOK
    <3>2. ~Builds(w) /\ AboutToBuild(v)
      BY <3>1 DEF BuildsApart, BuildsInv
    <3>3. QED
      BY <2>1, <3>1, <3>2 DEF AboutToBuild
  <2>6. QED
    BY <1>1, <2>1, <2>4, <2>5 DEF BuildsInv
<1>4. QED
  BY <1>1, <1>2, <1>3, RowsStay

LEMMA BuildsKept == BuildsInv => AdhocOnce
<1> SUFFICES ASSUME BuildsInv, NEW i \in Existing(rows), NEW j \in Existing(rows),
                    rows[i].adhoc, rows[j].adhoc
             PROVE  i = j
  BY DEF AdhocOnce
<1>1. i \in Adhoc /\ j \in Adhoc
  BY Zenon DEF BuildsInv, AllHere, Adhoc
<1>2. QED
  BY <1>1 DEF BuildsInv, OneAdhoc

\* However often the button is pressed, a branch has one ad-hoc preview, if one
\* press is answered before the next: webhooks of any kind may come in between,
\* and merge into its row.
THEOREM BuildsShareARow == Spec /\ []BuildsApart => []AdhocOnce
<1>1. Init => BuildsInv
  BY BuildsInit
<1>2. TypeOK /\ TasksKnow /\ BuildsInv /\ BuildsApart /\ [Next]_vars => BuildsInv'
  BY BuildsStep
<1>3. Init => TasksKnow
  BY KnowInit
<1>4. TypeOK /\ TasksKnow /\ [Next]_vars => TasksKnow'
  BY KnowStep
<1>5. BuildsInv => AdhocOnce
  BY BuildsKept
<1>6. QED
  BY <1>1, <1>2, <1>3, <1>4, <1>5, TypeCorrect, PTL DEF Spec

\* A hub that answers one request at a time keeps all four promises.
THEOREM OneAtATime ==
    ASSUME ~Reuses, NEW only, Worker = {only}
    PROVE  Spec => [](OneActivePerPR /\ ClosedTornDown /\ HeadTracked /\ AdhocOnce)
<1>1. Apart /\ BuildsApart
  BY DEF Apart, BuildsApart
<1>2. []Apart /\ []BuildsApart
  BY <1>1, PTL
<1>3. QED
  BY <1>2, OneActive, TornDown, Tracked, BuildsShareARow, PTL
=============================================================================
