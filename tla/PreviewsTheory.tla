--------------------------- MODULE PreviewsTheory ---------------------------
(***************************************************************************)
(* What the queries and the writes of the previews table return: the row   *)
(* an ORDER BY ... LIMIT 1 finds, a table again, what a write leaves of    *)
(* the columns that tell whose a row is, and what PreviewLifecycle sees.   *)
(***************************************************************************)
EXTENDS Previews, FiniteSetTheorems, TLAPS

Tables == [Id -> Row]

LEMMA RowWrite ==
    ASSUME NEW t \in Tables, NEW i \in Id, NEW r \in Row
    PROVE  [t EXCEPT ![i] = r] \in Tables
BY DEF Tables

LEMMA InsertedType ==
    ASSUME NEW t \in Tables, NEW i \in Id, NEW d \in Draft
    PROVE  Inserted(t, i, d) \in Tables
<1> DEFINE r == [repo |-> d.repo, pr |-> d.pr, branch |-> d.branch,
                 labels |-> d.labels, adhoc |-> d.adhoc, sha |-> d.sha,
                 status |-> "queued", agent |-> NULL, urls |-> FALSE,
                 created |-> Cardinality(Existing(t)) + 1, fresh |-> TRUE]
<1>1. Cardinality(Existing(t)) \in Nat
  <2>1. Existing(t) \subseteq Id
    BY DEF Existing
  <2>2. QED
    BY <2>1, IdsFinite, FS_Subset, FS_CardinalityType
<1>2. r \in Row
  BY <1>1 DEF Row, Draft, Statuses
<1>3. QED
  BY <1>2, RowWrite DEF Inserted

LEMMA MergedType ==
    ASSUME NEW t \in Tables, NEW i \in Id, NEW d \in Draft
    PROVE  Merged(t, i, d) \in Tables
<1> DEFINE r == [t[i] EXCEPT !.pr = d.pr, !.branch = d.branch,
                           !.labels = d.labels, !.fresh = TRUE]
<1>1. t[i] \in Row
  BY DEF Tables
<1>2. r \in Row
  BY <1>1 DEF Row, Draft
<1>3. QED
  BY <1>2, RowWrite DEF Merged

LEMMA UpdatedType ==
    ASSUME NEW t \in Tables, NEW i \in Id, NEW to \in Statuses, NEW f \in Fields
    PROVE  Updated(t, i, to, f) \in Tables
<1> DEFINE agent == Coalesce(f.agent, t[i].agent)
           sha == Coalesce(t[i].sha, f.sha)
           r == [t[i] EXCEPT !.status = to, !.fresh = TRUE, !.urls = f.urls,
                             !.agent = agent, !.sha = sha]
<1>1. t[i] \in Row
  BY DEF Tables
<1>2. agent \in Agent \cup {NULL} /\ sha \in Sha \cup {NULL}
  BY <1>1 DEF Row, Fields, Coalesce
<1>3. f.urls \in BOOLEAN
  BY DEF Fields
<1> HIDE DEF agent, sha
<1>4. r \in Row
  BY <1>1, <1>2, <1>3 DEF Row
<1>5. Updated(t, i, to, f) = [t EXCEPT ![i] = r]
  BY DEF Updated, agent, sha
<1> HIDE DEF r
<1>6. [t EXCEPT ![i] = r] \in Tables
  BY <1>4, RowWrite
<1>7. QED
  BY <1>5, <1>6

LEMMA ClaimedType ==
    ASSUME NEW t \in Tables, NEW i \in Id, NEW a \in Agent
    PROVE  ClaimedBy(t, i, a) \in Tables
<1> DEFINE r == [t[i] EXCEPT !.status = "assigned", !.agent = a, !.fresh = TRUE]
<1>1. t[i] \in Row
  BY DEF Tables
<1>2. r \in Row
  BY <1>1 DEF Row, Statuses
<1>3. QED
  BY <1>2, RowWrite DEF ClaimedBy

LEMMA AgedType ==
    ASSUME NEW t \in Tables, NEW i \in Id
    PROVE  Aged(t, i) \in Tables
<1> DEFINE r == [t[i] EXCEPT !.fresh = FALSE]
<1>1. t[i] \in Row
  BY DEF Tables
<1>2. r \in Row
  BY <1>1 DEF Row
<1>3. QED
  BY <1>2, RowWrite DEF Aged

LEMMA ResetType ==
    ASSUME NEW t \in Tables
    PROVE  AssignedReset(t) \in Tables
<1>1. ASSUME NEW i \in Id
      PROVE  (IF t[i].status = "assigned"
              THEN [t[i] EXCEPT !.status = "queued", !.agent = NULL, !.fresh = TRUE]
              ELSE t[i]) \in Row
  <2>1. t[i] \in Row
    BY DEF Tables
  <2>2. [t[i] EXCEPT !.status = "queued", !.agent = NULL, !.fresh = TRUE] \in Row
    BY <2>1 DEF Row, Statuses
  <2>3. QED
    BY <2>1, <2>2
<1>2. QED
  BY <1>1 DEF AssignedReset, Tables

LEMMA ClearedType ==
    ASSUME NEW t \in Tables, NEW a \in Agent
    PROVE  AgentCleared(t, a) \in Tables
<1>1. ASSUME NEW i \in Id
      PROVE  (IF t[i].agent = a THEN [t[i] EXCEPT !.agent = NULL] ELSE t[i]) \in Row
  <2>1. t[i] \in Row
    BY DEF Tables
  <2>2. [t[i] EXCEPT !.agent = NULL] \in Row
    BY <2>1 DEF Row
  <2>3. QED
    BY <2>1, <2>2
<1>2. QED
  BY <1>1 DEF AgentCleared, Tables

-----------------------------------------------------------------------------
(* ORDER BY created_at DESC LIMIT 1. *)

\* A row of S such that no other of S is newer: the rows newer than a row, as
\* sets ordered by inclusion, have a minimal one.
LEMMA NewestFound ==
    ASSUME NEW t \in Tables, NEW S \in SUBSET Id, S # {}
    PROVE  /\ Newest(t, S) \in S
           /\ \A j \in S : t[j].created <= t[Newest(t, S)].created
<1> DEFINE Newer(i) == {j \in S : t[i].created < t[j].created}
           T == {Newer(i) : i \in S}
<1>1. \A i \in S : t[i].created \in Nat
  BY DEF Tables, Row
<1>2. IsWellFoundedOn(StrictSubsetOrdering(S), FiniteSubsetsOf(S))
  BY FS_StrictSubsetOrderingWellFounded
<1>3. FiniteSubsetsOf(S) = SUBSET S
  <2>1. IsFiniteSet(S)
    BY IdsFinite, FS_Subset
  <2>2. QED
    BY <2>1, FS_FiniteSubsetsOfFinite
<1>4. T \subseteq FiniteSubsetsOf(S) /\ T # {}
  <2>1. \A i \in S : Newer(i) \in SUBSET S
    OBVIOUS
  <2>2. PICK i : i \in S
    OBVIOUS
  <2>3. Newer(i) \in T
    BY <2>2
  <2> HIDE DEF Newer
  <2>4. QED
    BY <1>3, <2>1, <2>3
<1>5. \E x \in T : \A y \in T : <<y, x>> \notin StrictSubsetOrdering(S)
  <2> HIDE DEF T
  <2>1. QED
    BY <1>2, <1>4, WFMin
<1>6. PICK i \in S : \A j \in S : <<Newer(j), Newer(i)>> \notin StrictSubsetOrdering(S)
  BY <1>5
<1>7. ASSUME NEW j \in S
      PROVE  t[j].created <= t[i].created
  <2>1. SUFFICES ASSUME t[i].created < t[j].created
                 PROVE  FALSE
    BY <1>1
  <2>2. Newer(j) \subseteq Newer(i) /\ j \in Newer(i) /\ j \notin Newer(j)
    BY <1>1, <2>1
  <2>3. <<Newer(j), Newer(i)>> \in StrictSubsetOrdering(S)
    BY <2>2 DEF StrictSubsetOrdering
  <2>4. QED
    BY <1>6, <2>3
<1>8. QED
  BY <1>7 DEF Newest

\* The one row that is newer than every other of S.
LEMMA NewestUnique ==
    ASSUME NEW t \in Tables, NEW S \in SUBSET Id, NEW i \in S,
           \A j \in S : j # i => t[j].created < t[i].created
    PROVE  Newest(t, S) = i
<1>1. \A j \in S : t[j].created \in Nat
  BY DEF Tables, Row
<1>2. Newest(t, S) \in S /\ t[i].created <= t[Newest(t, S)].created
  BY NewestFound
<1>3. QED
  BY <1>1, <1>2

-----------------------------------------------------------------------------
(* What a write leaves of a row. *)

\* Whose row it is and since when.
SameColumns(q, r) == /\ q.repo = r.repo
                     /\ q.pr = r.pr
                     /\ q.branch = r.branch
                     /\ q.adhoc = r.adhoc
                     /\ q.created = r.created

LEMMA UpdatedColumns ==
    ASSUME NEW t \in Tables, NEW i \in Id, NEW to, NEW f
    PROVE  \A j \in Id : LET r == Updated(t, i, to, f)[j] IN
              /\ SameColumns(r, t[j])
              /\ r.sha = IF j = i THEN Coalesce(t[i].sha, f.sha) ELSE t[j].sha
              /\ r.status = IF j = i THEN to ELSE t[j].status
<1> DEFINE agent == Coalesce(f.agent, t[i].agent)
           sha == Coalesce(t[i].sha, f.sha)
           r == [t[i] EXCEPT !.status = to, !.fresh = TRUE, !.urls = f.urls,
                             !.agent = agent, !.sha = sha]
<1>1. t[i] \in Row
  BY DEF Tables
<1> HIDE DEF agent, sha
<1>2. r.status = to /\ r.sha = sha /\ SameColumns(r, t[i])
  BY <1>1 DEF Row, SameColumns
<1>3. \A j \in Id : Updated(t, i, to, f)[j] = IF j = i THEN r ELSE t[j]
  BY DEF Updated, Tables, agent, sha
<1> HIDE DEF r
<1>4. \A j \in Id : SameColumns(t[j], t[j])
  BY DEF SameColumns
<1>5. QED
  BY <1>2, <1>3, <1>4 DEF sha

LEMMA ClaimedColumns ==
    ASSUME NEW t \in Tables, NEW i \in Id, NEW a
    PROVE  \A j \in Id : LET r == ClaimedBy(t, i, a)[j] IN
              /\ SameColumns(r, t[j])
              /\ r.sha = t[j].sha
              /\ r.status = IF j = i THEN "assigned" ELSE t[j].status
<1> DEFINE r == [t[i] EXCEPT !.status = "assigned", !.agent = a, !.fresh = TRUE]
<1>1. t[i] \in Row
  BY DEF Tables
<1>2. r.status = "assigned" /\ r.sha = t[i].sha /\ SameColumns(r, t[i])
  BY <1>1 DEF Row, SameColumns
<1>3. \A j \in Id : ClaimedBy(t, i, a)[j] = IF j = i THEN r ELSE t[j]
  BY DEF ClaimedBy, Tables
<1> HIDE DEF r
<1>4. \A j \in Id : SameColumns(t[j], t[j])
  BY DEF SameColumns
<1>5. QED
  BY <1>2, <1>3, <1>4

\* An Upsert for the pull request and the branch the row is of already.
LEMMA MergedColumns ==
    ASSUME NEW t \in Tables, NEW i \in Id, NEW d,
           d.pr = t[i].pr, d.branch = t[i].branch
    PROVE  \A j \in Id : LET r == Merged(t, i, d)[j] IN
              /\ SameColumns(r, t[j])
              /\ r.sha = t[j].sha
              /\ r.status = t[j].status
<1> DEFINE r == [t[i] EXCEPT !.pr = d.pr, !.branch = d.branch, !.labels = d.labels, !.fresh = TRUE]
<1>1. t[i] \in Row
  BY DEF Tables
<1>2. r.status = t[i].status /\ r.sha = t[i].sha /\ SameColumns(r, t[i])
  BY <1>1 DEF Row, SameColumns
<1>3. \A j \in Id : Merged(t, i, d)[j] = IF j = i THEN r ELSE t[j]
  BY DEF Merged, Tables
<1> HIDE DEF r
<1>4. \A j \in Id : SameColumns(t[j], t[j])
  BY DEF SameColumns
<1>5. QED
  BY <1>2, <1>3, <1>4

\* A new row is newer than all there were.
LEMMA InsertedRow ==
    ASSUME NEW t \in Tables, NEW i \in Id, NEW d, ~Exists(t, i)
    PROVE  LET u == Inserted(t, i, d)
               n == Cardinality(Existing(t))
           IN  /\ \A j \in Id : j # i => u[j] = t[j]
               /\ u[i].repo = d.repo /\ u[i].pr = d.pr /\ u[i].branch = d.branch
               /\ u[i].adhoc = d.adhoc /\ u[i].sha = d.sha /\ u[i].status = "queued"
               /\ n \in Nat
               /\ u[i].created = n + 1
               /\ Existing(u) = Existing(t) \cup {i}
               /\ Cardinality(Existing(u)) = n + 1
<1> DEFINE n == Cardinality(Existing(t))
           r == [repo |-> d.repo, pr |-> d.pr, branch |-> d.branch,
                 labels |-> d.labels, adhoc |-> d.adhoc, sha |-> d.sha,
                 status |-> "queued", agent |-> NULL, urls |-> FALSE,
                 created |-> n + 1, fresh |-> TRUE]
           u == Inserted(t, i, d)
<1>1. \A j \in Id : u[j] = IF j = i THEN r ELSE t[j]
  BY DEF Inserted, Tables
<1>2. IsFiniteSet(Existing(t)) /\ n \in Nat /\ i \notin Existing(t)
  <2>1. Existing(t) \subseteq Id
    BY DEF Existing
  <2>2. QED
    BY <2>1, IdsFinite, FS_Subset, FS_CardinalityType DEF Existing
<1>3. Existing(u) = Existing(t) \cup {i}
  <2>1. r.status = "queued"
    OBVIOUS
  <2> HIDE DEF r, u
  <2>2. QED
    BY <1>1, <2>1 DEF Existing, Exists
<1>4. Cardinality(Existing(u)) = n + 1
  <2> HIDE DEF u
  <2>1. QED
    BY <1>2, <1>3, FS_AddElement
<1>5. QED
  BY <1>1, <1>2, <1>3, <1>4

-----------------------------------------------------------------------------
(* What a write changes of a table as PreviewLifecycle sees it. *)

LEMMA RowSeen ==
    ASSUME NEW t \in Tables, NEW i \in Id, NEW r, NEW u,
           \A j \in Id : u[j] = IF j = i THEN r ELSE t[j]
    PROVE  /\ Phases(u) = [Phases(t) EXCEPT ![i] = Phase(r.status)]
           /\ Holders(u) = [Holders(t) EXCEPT ![i] = r.agent]
           /\ Commits(u) = [Commits(t) EXCEPT ![i] = r.sha]
<1>1. Phases(u) = [Phases(t) EXCEPT ![i] = Phase(r.status)]
  <2> DEFINE P(x) == Phase(x)
  <2>1. \A j \in Id : P(u[j].status) = IF j = i THEN P(r.status) ELSE P(t[j].status)
    OBVIOUS
  <2> HIDE DEF P
  <2>2. [j \in Id |-> P(u[j].status)] = [[j \in Id |-> P(t[j].status)] EXCEPT ![i] = P(r.status)]
    BY <2>1
  <2>3. QED
    BY <2>2 DEF Phases, P
<1>2. Holders(u) = [Holders(t) EXCEPT ![i] = r.agent]
  BY DEF Holders
<1>3. Commits(u) = [Commits(t) EXCEPT ![i] = r.sha]
  BY DEF Commits
<1>4. QED
  BY <1>1, <1>2, <1>3

LEMMA InsertedSeen ==
    ASSUME NEW t \in Tables, NEW i \in Id, NEW d \in Draft
    PROVE  /\ Phases(Inserted(t, i, d)) = [Phases(t) EXCEPT ![i] = "waiting"]
           /\ Holders(Inserted(t, i, d)) = [Holders(t) EXCEPT ![i] = NULL]
           /\ Commits(Inserted(t, i, d)) = [Commits(t) EXCEPT ![i] = d.sha]
<1> DEFINE r == [repo |-> d.repo, pr |-> d.pr, branch |-> d.branch,
                 labels |-> d.labels, adhoc |-> d.adhoc, sha |-> d.sha,
                 status |-> "queued", agent |-> NULL, urls |-> FALSE,
                 created |-> Cardinality(Existing(t)) + 1, fresh |-> TRUE]
<1>1. Phase(r.status) = "waiting" /\ r.agent = NULL /\ r.sha = d.sha
  BY DEF Phase
<1> DEFINE u == Inserted(t, i, d)
<1>2. \A j \in Id : u[j] = IF j = i THEN r ELSE t[j]
  BY DEF Inserted, Tables
<1> HIDE DEF r, u
<1>3. QED
  BY <1>1, <1>2, RowSeen DEF u

LEMMA UpdatedSeen ==
    ASSUME NEW t \in Tables, NEW i \in Id, NEW to, NEW f
    PROVE  /\ Phases(Updated(t, i, to, f)) = [Phases(t) EXCEPT ![i] = Phase(to)]
           /\ Holders(Updated(t, i, to, f)) = [Holders(t) EXCEPT ![i] = Coalesce(f.agent, t[i].agent)]
           /\ Commits(Updated(t, i, to, f)) = [Commits(t) EXCEPT ![i] = Coalesce(t[i].sha, f.sha)]
<1> DEFINE agent == Coalesce(f.agent, t[i].agent)
           sha == Coalesce(t[i].sha, f.sha)
           r == [t[i] EXCEPT !.status = to, !.fresh = TRUE, !.urls = f.urls,
                             !.agent = agent, !.sha = sha]
<1>1. t[i] \in Row
  BY DEF Tables
<1> HIDE DEF agent, sha
<1>2. r.status = to /\ r.agent = agent /\ r.sha = sha
  BY <1>1 DEF Row
<1> DEFINE u == Updated(t, i, to, f)
<1>3. \A j \in Id : u[j] = IF j = i THEN r ELSE t[j]
  BY DEF Updated, Tables, agent, sha
<1> HIDE DEF r, u
<1>4. QED
  BY <1>2, <1>3, RowSeen DEF agent, sha, u

LEMMA ClaimedSeen ==
    ASSUME NEW t \in Tables, NEW i \in Id, NEW a
    PROVE  /\ Phases(ClaimedBy(t, i, a)) = [Phases(t) EXCEPT ![i] = "offered"]
           /\ Holders(ClaimedBy(t, i, a)) = [Holders(t) EXCEPT ![i] = a]
           /\ Commits(ClaimedBy(t, i, a)) = Commits(t)
<1> DEFINE r == [t[i] EXCEPT !.status = "assigned", !.agent = a, !.fresh = TRUE]
<1>1. t[i] \in Row
  BY DEF Tables
<1>2. Phase(r.status) = "offered" /\ r.agent = a /\ r.sha = t[i].sha
  BY <1>1 DEF Row, Phase
<1> DEFINE u == ClaimedBy(t, i, a)
<1>3. \A j \in Id : u[j] = IF j = i THEN r ELSE t[j]
  BY DEF ClaimedBy, Tables
<1> HIDE DEF r, u
<1>4. [Commits(t) EXCEPT ![i] = t[i].sha] = Commits(t)
  BY DEF Commits
<1>5. QED
  BY <1>2, <1>3, <1>4, RowSeen DEF u

\* Age, and an Upsert of a commit that has a row.
LEMMA Unseen ==
    ASSUME NEW t \in Tables, NEW i \in Id, NEW d
    PROVE  /\ Phases(Aged(t, i)) = Phases(t) /\ Phases(Merged(t, i, d)) = Phases(t)
           /\ Holders(Aged(t, i)) = Holders(t) /\ Holders(Merged(t, i, d)) = Holders(t)
           /\ Commits(Aged(t, i)) = Commits(t) /\ Commits(Merged(t, i, d)) = Commits(t)
<1> DEFINE r == [t[i] EXCEPT !.fresh = FALSE]
           q == [t[i] EXCEPT !.pr = d.pr, !.branch = d.branch, !.labels = d.labels, !.fresh = TRUE]
<1>1. t[i] \in Row
  BY DEF Tables
<1>2. /\ r.status = t[i].status /\ r.agent = t[i].agent /\ r.sha = t[i].sha
      /\ q.status = t[i].status /\ q.agent = t[i].agent /\ q.sha = t[i].sha
  BY <1>1 DEF Row
<1> DEFINE aged == Aged(t, i)
           merged == Merged(t, i, d)
<1>3. /\ \A j \in Id : aged[j] = IF j = i THEN r ELSE t[j]
      /\ \A j \in Id : merged[j] = IF j = i THEN q ELSE t[j]
  BY DEF Aged, Merged, Tables
<1> HIDE DEF r, q, aged, merged
<1>4. /\ [Phases(t) EXCEPT ![i] = Phase(t[i].status)] = Phases(t)
      /\ [Holders(t) EXCEPT ![i] = t[i].agent] = Holders(t)
      /\ [Commits(t) EXCEPT ![i] = t[i].sha] = Commits(t)
  BY DEF Phases, Holders, Commits
<1>5. QED
  BY <1>2, <1>3, <1>4, RowSeen DEF aged, merged

LEMMA ResetSeen ==
    ASSUME NEW t \in Tables
    PROVE  /\ Phases(AssignedReset(t)) = [i \in Id |-> IF Phases(t)[i] = "offered" THEN "waiting" ELSE Phases(t)[i]]
           /\ Holders(AssignedReset(t)) = [i \in Id |-> IF Phases(t)[i] = "offered" THEN NULL ELSE Holders(t)[i]]
           /\ Commits(AssignedReset(t)) = Commits(t)
<1> DEFINE u == AssignedReset(t)
<1>1. ASSUME NEW i \in Id
      PROVE  /\ u[i].status = IF t[i].status = "assigned" THEN "queued" ELSE t[i].status
             /\ u[i].agent = IF t[i].status = "assigned" THEN NULL ELSE t[i].agent
             /\ u[i].sha = t[i].sha
  <2>1. t[i] \in Row
    BY DEF Tables
  <2>2. QED
    BY <2>1 DEF AssignedReset, Row
<1>2. \A i \in Id : t[i].status = "assigned" <=> Phase(t[i].status) = "offered"
  BY DEF Phase
<1>3. Phase("queued") = "waiting"
  BY DEF Phase
<1> HIDE DEF u
<1>4. QED
  BY <1>1, <1>2, <1>3 DEF Phases, Holders, Commits, u

LEMMA ClearedSeen ==
    ASSUME NEW t \in Tables, NEW a
    PROVE  /\ Phases(AgentCleared(t, a)) = Phases(t)
           /\ Holders(AgentCleared(t, a)) = [i \in Id |-> IF Holders(t)[i] = a THEN NULL ELSE Holders(t)[i]]
           /\ Commits(AgentCleared(t, a)) = Commits(t)
<1> DEFINE u == AgentCleared(t, a)
<1>1. ASSUME NEW i \in Id
      PROVE  /\ u[i].status = t[i].status
             /\ u[i].agent = IF t[i].agent = a THEN NULL ELSE t[i].agent
             /\ u[i].sha = t[i].sha
  <2>1. t[i] \in Row
    BY DEF Tables
  <2>2. QED
    BY <2>1 DEF AgentCleared, Row
<1> HIDE DEF u
<1>2. QED
  BY <1>1 DEF Phases, Holders, Commits, u
=============================================================================
