------------------------------ MODULE Previews ------------------------------
(***************************************************************************)
(* The previews table of the hub, as pure operators on a table value.      *)
(*                                                                         *)
(* A table is a function from preview ids to rows; an id that was never    *)
(* inserted holds Blank.  There is one operator per SQL statement of the   *)
(* hub (db/queries/previews.sql as compiled into previews.sql.go) and one  *)
(* per conversion preview_store.go wraps around it.  The modules of the    *)
(* hub's handlers apply them to their own table variable.                  *)
(*                                                                         *)
(* Abstracted: created_at is the rank of the insertion (it is stored as    *)
(* text, which a whole second can sort wrongly); updated_at is one bit,    *)
(* fresh, false once the row has not been written for StaleAssignedAfter;  *)
(* container, host, port and error_message, which no decision depends on,  *)
(* are left out; preview_urls is "non-empty or not".                       *)
(***************************************************************************)
EXTENDS Naturals, FiniteSets

CONSTANTS Id,          \* uuids of previews
          Repo, PR, Branch, Label,
          Sha,         \* commit shas
          Agent,       \* ids of agents
          NULL,        \* SQL NULL and Go nil
          QueueLimit   \* LIMIT of ListQueuedPreviewsForLabels (50 in the code)

ASSUME IdsFinite == IsFiniteSet(Id)
Statuses == {"queued", "assigned", "building", "running", "teardown", "done", "failed"}

ASSUME NullIsNoValue == /\ NULL \notin Sha
                        /\ NULL \notin Agent
                        /\ NULL \notin Id
                        /\ NULL \notin Statuses
ASSUME QueueLimitAssumption == QueueLimit \in Nat \ {0}

ActiveStatuses == {"queued", "assigned", "building", "running"}

Blank == [repo |-> NULL, pr |-> NULL, branch |-> NULL, labels |-> {}, adhoc |-> FALSE,
          sha |-> NULL, status |-> "absent", agent |-> NULL, urls |-> FALSE,
          created |-> 0, fresh |-> FALSE]

Row == [repo : Repo \cup {NULL}, pr : PR \cup {NULL}, branch : Branch \cup {NULL},
        labels : SUBSET Label, adhoc : BOOLEAN, sha : Sha \cup {NULL},
        status : Statuses \cup {"absent"}, agent : Agent \cup {NULL}, urls : BOOLEAN,
        created : Nat, fresh : BOOLEAN]

\* What a caller passes to Upsert.
Draft == [repo : Repo, pr : PR, branch : Branch, labels : SUBSET Label,
          adhoc : BOOLEAN, sha : Sha \cup {NULL}]

Exists(rows, i) == rows[i].status # "absent"
Existing(rows)  == {i \in Id : Exists(rows, i)}

Coalesce(x, y) == IF x # NULL THEN x ELSE y

-----------------------------------------------------------------------------
(* Queries.  LIMIT 1 over an ORDER BY created_at; no row is NULL. *)

Newest(rows, S) == IF S = {} THEN NULL
                   ELSE CHOOSE i \in S : \A j \in S : rows[j].created <= rows[i].created

WithStatus(rows, S) == {i \in Id : rows[i].status \in S}
WithSha(rows, repo, sha) ==
    {i \in Existing(rows) : sha # NULL /\ rows[i].repo = repo /\ rows[i].sha = sha}
OfPR(rows, repo, pr) == {i \in Existing(rows) : rows[i].repo = repo /\ rows[i].pr = pr}

GetActiveByRepoAndPR(rows, repo, pr) ==
    Newest(rows, OfPR(rows, repo, pr) \cap WithStatus(rows, ActiveStatuses))
FindAdhocByBranch(rows, repo, branch) ==
    Newest(rows, {i \in Existing(rows) :
                    rows[i].adhoc /\ rows[i].repo = repo /\ rows[i].branch = branch})
ListByAgent(rows, a, S) == {i \in WithStatus(rows, S) : rows[i].agent = a}
ListStaleAssigned(rows) == {i \in WithStatus(rows, {"assigned"}) : ~rows[i].fresh}

\* The QueueLimit oldest queued rows.
ListQueued(rows) ==
    LET queued == WithStatus(rows, {"queued"})
    IN  {i \in queued :
            Cardinality({j \in queued : rows[j].created < rows[i].created}) < QueueLimit}

\* A preview may run on an agent that has all its labels.
LabelsMatch(preview, agent) == preview \subseteq agent

-----------------------------------------------------------------------------
(* Writes. *)

\* INSERT: always queued, whatever the draft.
Inserted(rows, i, d) ==
    [rows EXCEPT ![i] = [repo |-> d.repo, pr |-> d.pr, branch |-> d.branch,
                         labels |-> d.labels, adhoc |-> d.adhoc, sha |-> d.sha,
                         status |-> "queued", agent |-> NULL, urls |-> FALSE,
                         created |-> Cardinality(Existing(rows)) + 1, fresh |-> TRUE]]

\* ON CONFLICT(repo, sha) DO UPDATE: neither status nor is_adhoc nor created_at.
Merged(rows, i, d) ==
    [rows EXCEPT ![i] = [@ EXCEPT !.pr = d.pr, !.branch = d.branch,
                                  !.labels = d.labels, !.fresh = TRUE]]

\* Mutant: preview_urls keeps its value when it is not given.
UpdatedKeepingUrls(rows, i, to, f) ==
    [rows EXCEPT ![i] = [@ EXCEPT !.status = to, !.fresh = TRUE, !.urls = @ \/ f.urls,
                                  !.agent = Coalesce(f.agent, rows[i].agent),
                                  !.sha = Coalesce(rows[i].sha, f.sha)]]

\* UpdatePreviewStatusFields.  A nil field keeps the column, but preview_urls
\* is not nullable and nil reaches SQL as '', which COALESCE does not skip.
Updated(rows, i, to, f) ==
    [rows EXCEPT ![i] = [@ EXCEPT !.status = to, !.fresh = TRUE, !.urls = f.urls,
                                  !.agent = Coalesce(f.agent, rows[i].agent),
                                  !.sha = Coalesce(rows[i].sha, f.sha)]]

\* fields = store.PreviewFields{}.  Those of a rebuild are the same here: urls and
\* an agent that are the empty string, and an empty agent keeps the column.
NoFields == [sha |-> NULL, agent |-> NULL, urls |-> FALSE]
Fields == [sha : Sha \cup {NULL}, agent : Agent \cup {NULL}, urls : BOOLEAN]

ClaimedBy(rows, i, a) ==
    [rows EXCEPT ![i] = [@ EXCEPT !.status = "assigned", !.agent = a, !.fresh = TRUE]]

\* ResetAllAssignedPreviews: the only statement that clears assigned_agent_id.
AssignedReset(rows) ==
    [i \in Id |-> IF rows[i].status = "assigned"
                  THEN [rows[i] EXCEPT !.status = "queued", !.agent = NULL, !.fresh = TRUE]
                  ELSE rows[i]]

\* Mutant: deleting an agent leaves its previews alone.
AgentKept(rows, a) == rows

\* FOREIGN KEY (assigned_agent_id) ... ON DELETE SET NULL.
AgentCleared(rows, a) ==
    [i \in Id |-> IF rows[i].agent = a THEN [rows[i] EXCEPT !.agent = NULL] ELSE rows[i]]

Aged(rows, i) == [rows EXCEPT ![i].fresh = FALSE]

-----------------------------------------------------------------------------
(* A table as PreviewLifecycle sees it. *)

Phase(status) ==
    CASE status = "absent"                  -> "absent"
      [] status = "queued"                  -> "waiting"
      [] status = "assigned"                -> "offered"
      [] status \in {"building", "running"} -> "live"
      [] status = "teardown"                -> "closing"
      [] OTHER                              -> "ended"

Phases(rows)  == [i \in Id |-> Phase(rows[i].status)]
Holders(rows) == [i \in Id |-> rows[i].agent]
Commits(rows) == [i \in Id |-> rows[i].sha]

-----------------------------------------------------------------------------
(* The ways UpdateStatus and Claim refuse, in the order the code meets them. *)

StaleState(rows, i, from) == from # NULL /\ rows[i].status # from
ShaConflict(rows, i, f) ==
    f.sha # NULL /\ rows[i].sha # NULL /\ rows[i].sha # f.sha
\* The sha the UPDATE would write belongs to another row: UNIQUE (repo, commit_sha).
ShaTaken(rows, i, f) ==
    rows[i].sha = NULL /\ WithSha(rows, rows[i].repo, f.sha) \ {i} # {}
\* The agent row is gone: FOREIGN KEY constraint failed.
NoSuchAgent(agents, a) == a # NULL /\ a \notin agents

\* Mutant: a call for an unknown preview is taken.
CanUpdateUnknown(rows, agents, i, from, f) ==
    /\ ~StaleState(rows, i, from)
    /\ ~ShaConflict(rows, i, f)
    /\ ~ShaTaken(rows, i, f)
    /\ ~NoSuchAgent(agents, f.agent)

\* Mutant: the commit is written without a look at the other rows.
CanUpdateAnySha(rows, agents, i, from, f) ==
    /\ Exists(rows, i)
    /\ ~StaleState(rows, i, from)
    /\ ~ShaConflict(rows, i, f)
    /\ ~NoSuchAgent(agents, f.agent)

CanUpdate(rows, agents, i, from, f) ==
    /\ Exists(rows, i)
    /\ ~StaleState(rows, i, from)
    /\ ~ShaConflict(rows, i, f)
    /\ ~ShaTaken(rows, i, f)
    /\ ~NoSuchAgent(agents, f.agent)

\* Mutant: the candidates are claimed as they were listed.
ToClaimListed(rows, candidates, i) ==
    i \in candidates /\ \A j \in candidates : rows[i].created <= rows[j].created

\* Claim takes i out of its candidates: the oldest of those still queued.
ToClaim(rows, candidates, i) ==
    LET queued == candidates \cap WithStatus(rows, {"queued"})
    IN  i \in queued /\ \A j \in queued : rows[i].created <= rows[j].created
=============================================================================
