------------------------- MODULE PreviewStoreProofs -------------------------
(***************************************************************************)
(* Proofs about the preview store, for any sets of previews, commits and   *)
(* agents and any bound on the log.                                        *)
(*                                                                         *)
(* Argument: what each write returns is a table again (PreviewsTheory), so *)
(* TypeOK is inductive by itself; the history, the uniqueness of commits,  *)
(* the foreign key and the urls are inductive together with TypeOK.        *)
(***************************************************************************)
EXTENDS PreviewStore, PreviewsTheory, SequenceTheorems, TLAPS

\* Every call of UpdateStatus the hub makes is well typed.
LEMMA RequestType ==
    ASSUME NEW r \in Requests, NEW f \in FieldsOf(r)
    PROVE  r.to \in Statuses /\ f \in Fields
<1>1. r.to \in Statuses
  BY DEF Requests, Statuses
<1>2. f \in {NoFields} \/ f \in Fields
  BY DEF FieldsOf
<1>3. NoFields \in Fields
  BY DEF NoFields, Fields
<1>4. QED
  BY <1>1, <1>2, <1>3

-----------------------------------------------------------------------------
(* Types. *)

LEMMA LogType ==
    ASSUME TypeOK, NEW i \in Id, NEW from \in Statuses \cup {NULL}, NEW to \in Statuses,
           Log(i, from, to)
    PROVE  events' \in [Id -> Seq(Event)]
<1>1. [from |-> from, to |-> to] \in Event
  BY DEF Event
<1>2. events[i] \in Seq(Event)
  BY DEF TypeOK
<1>3. Append(events[i], [from |-> from, to |-> to]) \in Seq(Event)
  BY <1>1, <1>2
<1>4. QED
  BY <1>3 DEF Log, TypeOK

\* One step of the store leaves its state well typed.
LEMMA TypeStep == TypeOK /\ [Next]_vars => TypeOK'
<1> SUFFICES ASSUME TypeOK, [Next]_vars
             PROVE  TypeOK'
  OBVIOUS
<1> USE DEF Tables
<1>1. ASSUME NEW i \in Id, NEW d \in Draft, UpsertNew(i, d)
      PROVE  TypeOK'
  <2>1. rows' \in Tables
    BY <1>1, InsertedType DEF UpsertNew, TypeOK
  <2>2. events' \in [Id -> Seq(Event)]
    BY <1>1, LogType DEF UpsertNew, Statuses
  <2>3. QED
    BY <1>1, <2>1, <2>2 DEF UpsertNew, TypeOK
<1>2. ASSUME NEW i \in Id, NEW d \in Draft, UpsertSame(i, d)
      PROVE  TypeOK'
  BY <1>2, MergedType DEF UpsertSame, TypeOK
<1>3. ASSUME NEW i \in Id, NEW r \in Requests, NEW f \in FieldsOf(r), UpdateStatus(i, r, f)
      PROVE  TypeOK'
  <2>1. r.to \in Statuses /\ f \in Fields
    BY RequestType
  <2>2. rows' \in Tables
    BY <1>3, <2>1, UpdatedType DEF UpdateStatus, TypeOK
  <2>3. rows[i].status \in Statuses
    BY <1>3 DEF UpdateStatus, CanUpdate, Exists, TypeOK, Row
  <2>4. events' \in [Id -> Seq(Event)]
    BY <1>3, <2>1, <2>3, LogType DEF UpdateStatus
  <2>5. QED
    BY <1>3, <2>2, <2>4 DEF UpdateStatus, TypeOK
<1>4. ASSUME NEW i \in Id, NEW candidates \in SUBSET Id, NEW a \in Agent,
             Claim(i, candidates, a)
      PROVE  TypeOK'
  <2>1. rows' \in Tables
    BY <1>4, ClaimedType DEF Claim, TypeOK
  <2>2. events' \in [Id -> Seq(Event)]
    BY <1>4, LogType DEF Claim, Statuses
  <2>3. QED
    BY <1>4, <2>1, <2>2 DEF Claim, TypeOK
<1>5. ASSUME NEW i \in Id, Age(i)
      PROVE  TypeOK'
  BY <1>5, AgedType DEF Age, TypeOK
<1>6. ASSUME ResetAllAssigned
      PROVE  TypeOK'
  <2>1. rows' \in Tables
    BY <1>6, ResetType DEF ResetAllAssigned, TypeOK
  <2>2. ASSUME NEW i \in Id
        PROVE  Append(events[i], [from |-> "assigned", to |-> "queued"]) \in Seq(Event)
    <3>1. [from |-> "assigned", to |-> "queued"] \in Event
      BY DEF Event, Statuses
    <3>2. events[i] \in Seq(Event)
      BY DEF TypeOK
    <3>3. QED
      BY <3>1, <3>2
  <2>3. events' \in [Id -> Seq(Event)]
    BY <1>6, <2>2 DEF ResetAllAssigned, TypeOK
  <2>4. QED
    BY <1>6, <2>1, <2>3 DEF ResetAllAssigned, TypeOK
<1>7. ASSUME NEW a \in Agent, CreateAgent(a)
      PROVE  TypeOK'
  BY <1>7 DEF CreateAgent, TypeOK
<1>8. ASSUME NEW a \in Agent, DeleteAgent(a)
      PROVE  TypeOK'
  BY <1>8, ClearedType DEF DeleteAgent, TypeOK
<1>9. CASE UNCHANGED vars
  BY <1>9 DEF vars, TypeOK
<1>10. QED
  BY <1>1, <1>2, <1>3, <1>4, <1>5, <1>6, <1>7, <1>8, <1>9 DEF Next

LEMMA TypeInit == Init => TypeOK
<1>1. Blank \in Row
  BY DEF Blank, Row
<1>2. QED
  BY <1>1, EmptySeq DEF Init, TypeOK

\* The store is type-correct in every reachable state.
THEOREM TypeCorrect == Spec => []TypeOK
BY TypeInit, TypeStep, PTL DEF Spec

-----------------------------------------------------------------------------
(* The event log. *)

LEMMA HistoryStarts ==
    TellsHistory(Append(<< >>, [from |-> NULL, to |-> "queued"]), "queued")
BY DEF TellsHistory

LEMMA HistoryGrows ==
    ASSUME NEW log \in Seq(Event), NEW status \in Statuses, NEW to \in Statuses,
           TellsHistory(log, status)
    PROVE  TellsHistory(Append(log, [from |-> status, to |-> to]), to)
<1> DEFINE e == [from |-> status, to |-> to]
           new == Append(log, e)
<1>1. log # << >>
  BY DEF TellsHistory, Statuses
<1>2. e \in Event
  BY DEF Event
<1>3. Len(log) \in Nat /\ Len(log) > 0
  BY <1>1, LenProperties, EmptySeq
<1>4. /\ Len(new) = Len(log) + 1
      /\ new[Len(new)] = e
      /\ \A k \in 1..Len(log) : new[k] = log[k]
  BY <1>2, AppendProperties
<1> HIDE DEF e, new
<1>5. new[1] = [from |-> NULL, to |-> "queued"]
  BY <1>1, <1>3, <1>4 DEF TellsHistory
<1>6. \A k \in 1..(Len(new) - 1) : new[k + 1].from = new[k].to
  <2> SUFFICES ASSUME NEW k \in 1..(Len(new) - 1)
               PROVE  new[k + 1].from = new[k].to
    OBVIOUS
  <2>1. CASE k = Len(log)
    <3>1. new[k + 1] = e /\ new[k] = log[Len(log)]
      BY <2>1, <1>3, <1>4
    <3>2. QED
      BY <3>1, <1>1 DEF TellsHistory, e
  <2>2. CASE k # Len(log)
    <3>1. k \in 1..(Len(log) - 1) /\ new[k] = log[k] /\ new[k + 1] = log[k + 1]
      BY <2>2, <1>3, <1>4
    <3>2. QED
      BY <3>1, <1>1 DEF TellsHistory
  <2>3. QED
    BY <2>1, <2>2
<1>7. new # << >>
  BY <1>3, <1>4
<1>8. TellsHistory(new, to)
  BY <1>4, <1>5, <1>6, <1>7 DEF TellsHistory, Statuses, e
<1>9. QED
  BY <1>8 DEF new, e

\* A write to one row that logs the change it makes keeps the history.
LEMMA LoggedWrite ==
    ASSUME TypeOK, EventsTellHistory, NEW i \in Id, NEW to \in Statuses,
           rows[i].status \in Statuses,
           Log(i, rows[i].status, to),
           rows'[i].status = to,
           \A j \in Id \ {i} : rows'[j].status = rows[j].status
    PROVE  EventsTellHistory'
<1>1. TellsHistory(events'[i], rows'[i].status)
  <2>1. events[i] \in Seq(Event) /\ TellsHistory(events[i], rows[i].status)
    BY DEF TypeOK, EventsTellHistory
  <2>2. events'[i] = Append(events[i], [from |-> rows[i].status, to |-> to])
    BY DEF Log, TypeOK
  <2>3. QED
    BY <2>1, <2>2, HistoryGrows
<1>2. ASSUME NEW j \in Id \ {i}
      PROVE  TellsHistory(events'[j], rows'[j].status)
  BY DEF Log, EventsTellHistory, TypeOK
<1>3. QED
  BY <1>1, <1>2 DEF EventsTellHistory

LEMMA HistoryStep == TypeOK /\ EventsTellHistory /\ [Next]_vars => EventsTellHistory'
<1> SUFFICES ASSUME TypeOK, EventsTellHistory, [Next]_vars
             PROVE  EventsTellHistory'
  OBVIOUS
<1>0. rows \in [Id -> Row]
  BY DEF TypeOK
<1>1. ASSUME NEW i \in Id, NEW d \in Draft, UpsertNew(i, d)
      PROVE  EventsTellHistory'
  <2>1. events[i] = << >>
    BY <1>1 DEF UpsertNew, Exists, EventsTellHistory, TellsHistory
  <2>2. TellsHistory(events'[i], rows'[i].status)
    <3>1. events'[i] = Append(<< >>, [from |-> NULL, to |-> "queued"])
      BY <1>1, <2>1 DEF UpsertNew, Log, TypeOK
    <3>2. rows'[i].status = "queued"
      BY <1>0, <1>1 DEF UpsertNew, Inserted
    <3>3. QED
      BY <3>1, <3>2, HistoryStarts
  <2>3. ASSUME NEW j \in Id \ {i}
        PROVE  TellsHistory(events'[j], rows'[j].status)
    BY <1>0, <1>1 DEF UpsertNew, Inserted, Log, EventsTellHistory, TypeOK
  <2>4. QED
    BY <2>2, <2>3 DEF EventsTellHistory
<1>2. ASSUME NEW i \in Id, NEW d \in Draft, UpsertSame(i, d)
      PROVE  EventsTellHistory'
  <2>1. \A j \in Id : rows'[j].status = rows[j].status
    BY <1>0, <1>2 DEF UpsertSame, Merged, Row
  <2>2. QED
    BY <2>1, <1>2 DEF UpsertSame, EventsTellHistory
<1>3. ASSUME NEW i \in Id, NEW r \in Requests, NEW f \in FieldsOf(r), UpdateStatus(i, r, f)
      PROVE  EventsTellHistory'
  <2>1. r.to \in Statuses
    BY RequestType
  <2>2. rows[i].status \in Statuses
    BY <1>0, <1>3 DEF UpdateStatus, CanUpdate, Exists, Row
  <2>3. rows'[i].status = r.to /\ \A j \in Id \ {i} : rows'[j].status = rows[j].status
    BY <1>0, <1>3 DEF UpdateStatus, Updated, Row
  <2>4. QED
    BY <1>3, <2>1, <2>2, <2>3, LoggedWrite DEF UpdateStatus
<1>4. ASSUME NEW i \in Id, NEW candidates \in SUBSET Id, NEW a \in Agent,
             Claim(i, candidates, a)
      PROVE  EventsTellHistory'
  <2>1. rows[i].status = "queued"
    BY <1>4 DEF Claim, ToClaim, WithStatus
  <2>2. /\ rows'[i].status = "assigned"
        /\ \A j \in Id \ {i} : rows'[j].status = rows[j].status
    BY <1>0, <1>4 DEF Claim, ClaimedBy, Row
  <2>3. QED
    BY <1>4, <2>1, <2>2, LoggedWrite DEF Claim, Statuses
<1>5. ASSUME NEW i \in Id, Age(i)
      PROVE  EventsTellHistory'
  <2>1. \A j \in Id : rows'[j].status = rows[j].status
    BY <1>0, <1>5 DEF Age, Aged, Row
  <2>2. QED
    BY <2>1, <1>5 DEF Age, EventsTellHistory
<1>6. ASSUME ResetAllAssigned
      PROVE  EventsTellHistory'
  <2> SUFFICES ASSUME NEW i \in Id
               PROVE  TellsHistory(events'[i], rows'[i].status)
    BY DEF EventsTellHistory
  <2>1. events[i] \in Seq(Event) /\ TellsHistory(events[i], rows[i].status)
    BY DEF TypeOK, EventsTellHistory
  <2>2. CASE rows[i].status = "assigned"
    <3>1. events'[i] = Append(events[i], [from |-> "assigned", to |-> "queued"])
      BY <1>6, <2>2 DEF ResetAllAssigned, WithStatus
    <3>2. rows'[i].status = "queued"
      BY <1>0, <1>6, <2>2 DEF ResetAllAssigned, AssignedReset, Row
    <3>3. "assigned" \in Statuses /\ "queued" \in Statuses
      BY DEF Statuses
    <3>4. QED
      BY <2>1, <2>2, <3>1, <3>2, <3>3, HistoryGrows
  <2>3. CASE rows[i].status # "assigned"
    <3>1. events'[i] = events[i] /\ rows'[i] = rows[i]
      BY <1>6, <2>3 DEF ResetAllAssigned, WithStatus, AssignedReset
    <3>2. QED
      BY <2>1, <3>1
  <2>4. QED
    BY <2>2, <2>3
<1>7. ASSUME NEW a \in Agent, CreateAgent(a)
      PROVE  EventsTellHistory'
  BY <1>7 DEF CreateAgent, EventsTellHistory
<1>8. ASSUME NEW a \in Agent, DeleteAgent(a)
      PROVE  EventsTellHistory'
  <2>1. \A j \in Id : rows'[j].status = rows[j].status
    BY <1>0, <1>8 DEF DeleteAgent, AgentCleared, Row
  <2>2. QED
    BY <2>1, <1>8 DEF DeleteAgent, EventsTellHistory
<1>9. CASE UNCHANGED vars
  BY <1>9 DEF vars, EventsTellHistory
<1>10. QED
  BY <1>1, <1>2, <1>3, <1>4, <1>5, <1>6, <1>7, <1>8, <1>9 DEF Next

\* In every reachable state the event log of a preview is its history.
THEOREM EventsAreHistory == Spec => []EventsTellHistory
<1>1. Init => EventsTellHistory
  BY DEF Init, EventsTellHistory, TellsHistory, Blank
<1>2. QED
  BY <1>1, HistoryStep, TypeCorrect, PTL DEF Spec

-----------------------------------------------------------------------------
(* Commits and agents. *)

\* What an UpdateStatus that was not refused may do to the commit of a row.
LEMMA ShaOfUpdated ==
    ASSUME NEW i \in Id, NEW r \in Requests, NEW f \in FieldsOf(r), TypeOK,
           UpdateStatus(i, r, f)
    PROVE  /\ rows[i].sha # NULL => rows'[i].sha = rows[i].sha
           /\ rows[i].sha = NULL => rows'[i].sha = f.sha
           /\ rows'[i].repo = rows[i].repo
           /\ \A j \in Id \ {i} : rows'[j] = rows[j]
BY DEF UpdateStatus, Updated, Coalesce, TypeOK, Row

LEMMA ShaStep == TypeOK /\ ShaIdentifies /\ [Next]_vars => ShaIdentifies'
<1> SUFFICES ASSUME TypeOK, ShaIdentifies, [Next]_vars
             PROVE  ShaIdentifies'
  OBVIOUS
<1> DEFINE SameIdentity ==
        \A i \in Id : /\ rows'[i].repo = rows[i].repo
                      /\ rows'[i].sha = rows[i].sha
                      /\ rows'[i].status # "absent" => rows[i].status # "absent"
<1>0. rows \in [Id -> Row]
  BY DEF TypeOK
<1>a. SameIdentity => ShaIdentifies'
  BY DEF ShaIdentifies, Existing, Exists
<1>1. ASSUME NEW i \in Id, NEW d \in Draft, UpsertNew(i, d)
      PROVE  ShaIdentifies'
  <2>1. /\ rows'[i].repo = d.repo /\ rows'[i].sha = d.sha
        /\ \A j \in Id \ {i} : rows'[j] = rows[j]
    BY <1>0, <1>1 DEF UpsertNew, Inserted
  <2>2. \A j \in Existing(rows) : d.sha # NULL => ~(rows[j].repo = d.repo /\ rows[j].sha = d.sha)
    BY <1>1 DEF UpsertNew, WithSha
  <2>3. QED
    BY <2>1, <2>2 DEF ShaIdentifies, Existing, Exists
<1>2. ASSUME NEW i \in Id, NEW d \in Draft, UpsertSame(i, d)
      PROVE  ShaIdentifies'
  <2>1. SameIdentity
    BY <1>0, <1>2 DEF UpsertSame, Merged, Row
  <2>2. QED
    BY <1>a, <2>1
<1>3. ASSUME NEW i \in Id, NEW r \in Requests, NEW f \in FieldsOf(r), UpdateStatus(i, r, f)
      PROVE  ShaIdentifies'
  <2>1. Exists(rows, i)
    BY <1>3 DEF UpdateStatus, CanUpdate
  <2>2. CASE rows[i].sha # NULL
    <3>1. SameIdentity
      BY <1>3, <2>1, <2>2, ShaOfUpdated DEF Exists
    <3>2. QED
      BY <1>a, <3>1
  <2>3. CASE rows[i].sha = NULL
    <3>1. \A j \in Existing(rows) \ {i} :
            f.sha # NULL => ~(rows[j].repo = rows[i].repo /\ rows[j].sha = f.sha)
      BY <1>3, <2>3 DEF UpdateStatus, CanUpdate, ShaTaken, WithSha
    <3>2. /\ rows'[i].sha = f.sha /\ rows'[i].repo = rows[i].repo
          /\ \A j \in Id \ {i} : rows'[j] = rows[j]
      BY <1>3, <2>3, ShaOfUpdated
    <3>3. QED
      BY <2>1, <3>1, <3>2 DEF ShaIdentifies, Existing, Exists
  <2>4. QED
    BY <2>2, <2>3
<1>4. ASSUME NEW i \in Id, NEW candidates \in SUBSET Id, NEW a \in Agent,
             Claim(i, candidates, a)
      PROVE  ShaIdentifies'
  <2>1. rows[i].status = "queued"
    BY <1>4 DEF Claim, ToClaim, WithStatus
  <2>2. SameIdentity
    BY <1>0, <1>4, <2>1 DEF Claim, ClaimedBy, Row
  <2>3. QED
    BY <1>a, <2>2
<1>5. ASSUME NEW i \in Id, Age(i)
      PROVE  ShaIdentifies'
  <2>1. SameIdentity
    BY <1>0, <1>5 DEF Age, Aged, Row
  <2>2. QED
    BY <1>a, <2>1
<1>6. ASSUME ResetAllAssigned
      PROVE  ShaIdentifies'
  <2>1. SameIdentity
    BY <1>0, <1>6 DEF ResetAllAssigned, AssignedReset, Row
  <2>2. QED
    BY <1>a, <2>1
<1>7. ASSUME NEW a \in Agent, CreateAgent(a)
      PROVE  ShaIdentifies'
  BY <1>7 DEF CreateAgent, ShaIdentifies, Existing, Exists
<1>8. ASSUME NEW a \in Agent, DeleteAgent(a)
      PROVE  ShaIdentifies'
  <2>1. SameIdentity
    BY <1>0, <1>8 DEF DeleteAgent, AgentCleared, Row
  <2>2. QED
    BY <1>a, <2>1
<1>9. CASE UNCHANGED vars
  BY <1>9 DEF vars, ShaIdentifies, Existing, Exists
<1>10. QED
  BY <1>1, <1>2, <1>3, <1>4, <1>5, <1>6, <1>7, <1>8, <1>9 DEF Next

\* At most one preview of a repository has a given commit, in every reachable state.
THEOREM ShaIsUnique == Spec => []ShaIdentifies
<1>1. Init => ShaIdentifies
  BY DEF Init, ShaIdentifies, Existing, Exists, Blank
<1>2. QED
  BY <1>1, ShaStep, TypeCorrect, PTL DEF Spec

\* An id that was never inserted holds nothing.
BlankUntilInserted == \A i \in Id : rows[i].status = "absent" => rows[i] = Blank

LEMMA BlankStep == TypeOK /\ BlankUntilInserted /\ [Next]_vars => BlankUntilInserted'
<1> SUFFICES ASSUME TypeOK, BlankUntilInserted, [Next]_vars
             PROVE  BlankUntilInserted'
  OBVIOUS
<1>0. rows \in [Id -> Row]
  BY DEF TypeOK
<1>1. ASSUME NEW i \in Id, NEW d \in Draft, UpsertNew(i, d)
      PROVE  BlankUntilInserted'
  BY <1>0, <1>1 DEF UpsertNew, Inserted, BlankUntilInserted
<1>2. ASSUME NEW i \in Id, NEW d \in Draft, UpsertSame(i, d)
      PROVE  BlankUntilInserted'
  <2>1. i \in Existing(rows)
    BY <1>2 DEF UpsertSame, WithSha
  <2>2. rows'[i].status # "absent" /\ \A j \in Id \ {i} : rows'[j] = rows[j]
    BY <1>0, <1>2, <2>1 DEF UpsertSame, Merged, Existing, Exists, Row
  <2>3. QED
    BY <2>2 DEF BlankUntilInserted
<1>3. ASSUME NEW i \in Id, NEW r \in Requests, NEW f \in FieldsOf(r), UpdateStatus(i, r, f)
      PROVE  BlankUntilInserted'
  <2>1. rows'[i].status = r.to /\ \A j \in Id \ {i} : rows'[j] = rows[j]
    BY <1>0, <1>3 DEF UpdateStatus, Updated, Row
  <2>2. r.to # "absent"
    BY RequestType DEF Statuses
  <2>3. QED
    BY <2>1, <2>2 DEF BlankUntilInserted
<1>4. ASSUME NEW i \in Id, NEW candidates \in SUBSET Id, NEW a \in Agent,
             Claim(i, candidates, a)
      PROVE  BlankUntilInserted'
  BY <1>0, <1>4 DEF Claim, ClaimedBy, Row, BlankUntilInserted
<1>5. ASSUME NEW i \in Id, Age(i)
      PROVE  BlankUntilInserted'
  <2>1. rows[i].status # "absent"
    BY <1>5 DEF Age, BlankUntilInserted, Blank
  <2>2. rows'[i].status = rows[i].status /\ \A j \in Id \ {i} : rows'[j] = rows[j]
    BY <1>0, <1>5 DEF Age, Aged, Row
  <2>3. QED
    BY <2>1, <2>2 DEF BlankUntilInserted
<1>6. ASSUME ResetAllAssigned
      PROVE  BlankUntilInserted'
  BY <1>0, <1>6 DEF ResetAllAssigned, AssignedReset, Row, BlankUntilInserted
<1>7. ASSUME NEW a \in Agent, CreateAgent(a)
      PROVE  BlankUntilInserted'
  BY <1>7 DEF CreateAgent, BlankUntilInserted
<1>8. ASSUME NEW a \in Agent, DeleteAgent(a)
      PROVE  BlankUntilInserted'
  <2> SUFFICES ASSUME NEW i \in Id, rows'[i].status = "absent"
               PROVE  rows'[i] = Blank
    BY DEF BlankUntilInserted
  <2>1. rows[i].status = "absent"
    BY <1>0, <1>8 DEF DeleteAgent, AgentCleared, Row
  <2>2. rows[i].agent # a
    BY <2>1, NullIsNoValue DEF BlankUntilInserted, Blank
  <2>3. QED
    BY <1>8, <2>1, <2>2 DEF DeleteAgent, AgentCleared, BlankUntilInserted
<1>9. CASE UNCHANGED vars
  BY <1>9 DEF vars, BlankUntilInserted
<1>10. QED
  BY <1>1, <1>2, <1>3, <1>4, <1>5, <1>6, <1>7, <1>8, <1>9 DEF Next

LEMMA BlankInvariant == Spec => []BlankUntilInserted
<1>1. Init => BlankUntilInserted
  BY DEF Init, BlankUntilInserted
<1>2. QED
  BY <1>1, BlankStep, TypeCorrect, PTL DEF Spec

LEMMA ShaKept ==
    TypeOK /\ BlankUntilInserted /\ [Next]_vars
      => \A i \in Id : rows[i].sha # NULL => rows'[i].sha = rows[i].sha
<1> SUFFICES ASSUME TypeOK, BlankUntilInserted, [Next]_vars, NEW i \in Id, rows[i].sha # NULL
             PROVE  rows'[i].sha = rows[i].sha
  OBVIOUS
<1>0. rows \in [Id -> Row]
  BY DEF TypeOK
<1>1. ASSUME NEW j \in Id, NEW d \in Draft, UpsertNew(j, d)
      PROVE  rows'[i].sha = rows[i].sha
  <2>1. j # i
    BY <1>1 DEF UpsertNew, Exists, BlankUntilInserted, Blank
  <2>2. QED
    BY <1>0, <1>1, <2>1 DEF UpsertNew, Inserted
<1>2. ASSUME NEW j \in Id, NEW d \in Draft, UpsertSame(j, d)
      PROVE  rows'[i].sha = rows[i].sha
  BY <1>0, <1>2 DEF UpsertSame, Merged, Row
<1>3. ASSUME NEW j \in Id, NEW r \in Requests, NEW f \in FieldsOf(r), UpdateStatus(j, r, f)
      PROVE  rows'[i].sha = rows[i].sha
  BY <1>3, ShaOfUpdated
<1>4. ASSUME NEW j \in Id, NEW candidates \in SUBSET Id, NEW a \in Agent,
             Claim(j, candidates, a)
      PROVE  rows'[i].sha = rows[i].sha
  BY <1>0, <1>4 DEF Claim, ClaimedBy, Row
<1>5. ASSUME NEW j \in Id, Age(j)
      PROVE  rows'[i].sha = rows[i].sha
  BY <1>0, <1>5 DEF Age, Aged, Row
<1>6. CASE ResetAllAssigned
  BY <1>0, <1>6 DEF ResetAllAssigned, AssignedReset, Row
<1>7. ASSUME NEW a \in Agent, CreateAgent(a) \/ DeleteAgent(a)
      PROVE  rows'[i].sha = rows[i].sha
  BY <1>0, <1>7 DEF CreateAgent, DeleteAgent, AgentCleared, Row
<1>8. CASE UNCHANGED vars
  BY <1>8 DEF vars
<1>9. QED
  BY <1>1, <1>2, <1>3, <1>4, <1>5, <1>6, <1>7, <1>8 DEF Next

\* No step changes the commit of a preview that has one.
THEOREM ShaIsFinal == Spec => ShaWrittenOnce
BY ShaKept, TypeCorrect, BlankInvariant, PTL DEF Spec, ShaWrittenOnce

-----------------------------------------------------------------------------
(* The foreign key. *)

LEMMA AgentsStep == TypeOK /\ AgentsReferenced /\ [Next]_vars => AgentsReferenced'
<1> SUFFICES ASSUME TypeOK, AgentsReferenced, [Next]_vars
             PROVE  AgentsReferenced'
  OBVIOUS
<1> DEFINE NoNewReference ==
        \A i \in Id : rows'[i].agent # NULL => rows'[i].agent = rows[i].agent
<1>0. rows \in [Id -> Row]
  BY DEF TypeOK
<1>a. NoNewReference /\ agents' = agents => AgentsReferenced'
  BY DEF AgentsReferenced
<1>1. ASSUME NEW i \in Id, NEW d \in Draft, UpsertNew(i, d)
      PROVE  AgentsReferenced'
  <2>1. NoNewReference
    BY <1>0, <1>1 DEF UpsertNew, Inserted
  <2>2. QED
    BY <1>a, <1>1, <2>1 DEF UpsertNew
<1>2. ASSUME NEW i \in Id, NEW d \in Draft, UpsertSame(i, d)
      PROVE  AgentsReferenced'
  <2>1. NoNewReference
    BY <1>0, <1>2 DEF UpsertSame, Merged, Row
  <2>2. QED
    BY <1>a, <1>2, <2>1 DEF UpsertSame
<1>3. ASSUME NEW i \in Id, NEW r \in Requests, NEW f \in FieldsOf(r), UpdateStatus(i, r, f)
      PROVE  AgentsReferenced'
  <2>1. f.agent # NULL => f.agent \in agents
    BY <1>3 DEF UpdateStatus, CanUpdate, NoSuchAgent
  <2>2. /\ rows'[i].agent = Coalesce(f.agent, rows[i].agent)
        /\ \A j \in Id \ {i} : rows'[j] = rows[j]
    BY <1>0, <1>3 DEF UpdateStatus, Updated, Row
  <2>3. QED
    BY <1>3, <2>1, <2>2 DEF UpdateStatus, AgentsReferenced, Coalesce
<1>4. ASSUME NEW i \in Id, NEW candidates \in SUBSET Id, NEW a \in Agent,
             Claim(i, candidates, a)
      PROVE  AgentsReferenced'
  <2>1. a \in agents
    BY <1>4, NullIsNoValue DEF Claim, NoSuchAgent
  <2>2. rows'[i].agent = a /\ \A j \in Id \ {i} : rows'[j] = rows[j]
    BY <1>0, <1>4 DEF Claim, ClaimedBy, Row
  <2>3. QED
    BY <1>4, <2>1, <2>2 DEF Claim, AgentsReferenced
<1>5. ASSUME NEW i \in Id, Age(i)
      PROVE  AgentsReferenced'
  <2>1. NoNewReference
    BY <1>0, <1>5 DEF Age, Aged, Row
  <2>2. QED
    BY <1>a, <1>5, <2>1 DEF Age
<1>6. ASSUME ResetAllAssigned
      PROVE  AgentsReferenced'
  <2>1. NoNewReference
    BY <1>0, <1>6 DEF ResetAllAssigned, AssignedReset, Row
  <2>2. QED
    BY <1>a, <1>6, <2>1 DEF ResetAllAssigned
<1>7. ASSUME NEW a \in Agent, CreateAgent(a)
      PROVE  AgentsReferenced'
  BY <1>7 DEF CreateAgent, AgentsReferenced
<1>8. ASSUME NEW a \in Agent, DeleteAgent(a)
      PROVE  AgentsReferenced'
  <2>1. ASSUME NEW i \in Id, rows'[i].agent # NULL
        PROVE  rows'[i].agent \in agents \ {a}
    <3>1. rows[i].agent # a /\ rows'[i] = rows[i]
      BY <1>0, <1>8, <2>1 DEF DeleteAgent, AgentCleared, Row
    <3>2. QED
      BY <2>1, <3>1 DEF AgentsReferenced
  <2>2. QED
    BY <1>8, <2>1 DEF DeleteAgent, AgentsReferenced
<1>9. CASE UNCHANGED vars
  BY <1>9 DEF vars, AgentsReferenced
<1>10. QED
  BY <1>1, <1>2, <1>3, <1>4, <1>5, <1>6, <1>7, <1>8, <1>9 DEF Next

\* No preview refers to a deleted agent, in every reachable state.
THEOREM AgentReferencesHold == Spec => []AgentsReferenced
<1>1. Init => AgentsReferenced
  BY DEF Init, AgentsReferenced, Blank
<1>2. QED
  BY <1>1, AgentsStep, TypeCorrect, PTL DEF Spec

-----------------------------------------------------------------------------
(* The urls. *)

LEMMA UrlsStep == TypeOK /\ UrlsOnlyWhileRunning /\ [Next]_vars => UrlsOnlyWhileRunning'
<1> SUFFICES ASSUME TypeOK, UrlsOnlyWhileRunning, [Next]_vars
             PROVE  UrlsOnlyWhileRunning'
  OBVIOUS
<1>0. rows \in Tables
  BY DEF TypeOK, Tables
<1>1. ASSUME NEW i \in Id, NEW d \in Draft, UpsertNew(i, d)
      PROVE  UrlsOnlyWhileRunning'
  BY <1>0, <1>1 DEF UpsertNew, Inserted, Tables, UrlsOnlyWhileRunning
<1>2. ASSUME NEW i \in Id, NEW d \in Draft, UpsertSame(i, d)
      PROVE  UrlsOnlyWhileRunning'
  <2>1. rows[i] \in Row
    BY <1>0 DEF Tables
  <2>2. QED
    BY <1>0, <1>2, <2>1 DEF UpsertSame, Merged, Tables, Row, UrlsOnlyWhileRunning
<1>3. ASSUME NEW i \in Id, NEW r \in Requests, NEW f \in FieldsOf(r), UpdateStatus(i, r, f)
      PROVE  UrlsOnlyWhileRunning'
  <2>1. f.urls <=> r.to = "running"
    <3>1. CASE r.from # NULL \/ r.to \notin {"building", "running"}
      <4>1. r.to # "running"
        BY <3>1 DEF Requests
      <4>2. f = NoFields
        BY <3>1 DEF FieldsOf
      <4>3. QED
        BY <4>1, <4>2 DEF NoFields
    <3>2. CASE ~(r.from # NULL \/ r.to \notin {"building", "running"})
      BY <3>2 DEF FieldsOf
    <3>3. QED
      BY <3>1, <3>2
  <2>2. rows[i] \in Row
    BY <1>0 DEF Tables
  <2>3. /\ rows'[i].status = r.to
        /\ rows'[i].urls = f.urls
        /\ \A j \in Id \ {i} : rows'[j] = rows[j]
    BY <1>0, <1>3, <2>2 DEF UpdateStatus, Updated, Tables, Row
  <2>4. QED
    BY <2>1, <2>3 DEF UrlsOnlyWhileRunning
<1>4. ASSUME NEW i \in Id, NEW candidates \in SUBSET Id, NEW a \in Agent,
             Claim(i, candidates, a)
      PROVE  UrlsOnlyWhileRunning'
  <2>1. rows[i] \in Row /\ rows[i].status = "queued"
    BY <1>0, <1>4 DEF Claim, ToClaim, WithStatus, Tables
  <2>2. ~rows[i].urls
    BY <2>1 DEF UrlsOnlyWhileRunning
  <2>3. /\ rows'[i].status = "assigned"
        /\ rows'[i].urls = rows[i].urls
        /\ \A j \in Id \ {i} : rows'[j] = rows[j]
    BY <1>0, <1>4, <2>1 DEF Claim, ClaimedBy, Tables, Row
  <2>4. QED
    BY <2>2, <2>3 DEF UrlsOnlyWhileRunning
<1>5. ASSUME NEW i \in Id, Age(i)
      PROVE  UrlsOnlyWhileRunning'
  <2>1. rows[i] \in Row
    BY <1>0 DEF Tables
  <2>2. QED
    BY <1>0, <1>5, <2>1 DEF Age, Aged, Tables, Row, UrlsOnlyWhileRunning
<1>6. ASSUME ResetAllAssigned
      PROVE  UrlsOnlyWhileRunning'
  <2>1. ASSUME NEW i \in Id
        PROVE  rows'[i].urls <=> rows'[i].status = "running"
    <3>1. rows[i] \in Row
      BY <1>0 DEF Tables
    <3>2. rows'[i] = IF rows[i].status = "assigned"
                     THEN [rows[i] EXCEPT !.status = "queued", !.agent = NULL, !.fresh = TRUE]
                     ELSE rows[i]
      BY <1>6 DEF ResetAllAssigned, AssignedReset
    <3>3. QED
      BY <3>1, <3>2 DEF Row, UrlsOnlyWhileRunning
  <2>2. QED
    BY <2>1 DEF UrlsOnlyWhileRunning
<1>7. ASSUME NEW a \in Agent, CreateAgent(a)
      PROVE  UrlsOnlyWhileRunning'
  BY <1>7 DEF CreateAgent, UrlsOnlyWhileRunning
<1>8. ASSUME NEW a \in Agent, DeleteAgent(a)
      PROVE  UrlsOnlyWhileRunning'
  <2>1. ASSUME NEW i \in Id
        PROVE  rows'[i].urls <=> rows'[i].status = "running"
    <3>1. rows[i] \in Row
      BY <1>0 DEF Tables
    <3>2. rows'[i] = IF rows[i].agent = a THEN [rows[i] EXCEPT !.agent = NULL] ELSE rows[i]
      BY <1>8 DEF DeleteAgent, AgentCleared
    <3>3. QED
      BY <3>1, <3>2 DEF Row, UrlsOnlyWhileRunning
  <2>2. QED
    BY <2>1 DEF UrlsOnlyWhileRunning
<1>9. CASE UNCHANGED vars
  BY <1>9 DEF vars, UrlsOnlyWhileRunning
<1>10. QED
  BY <1>1, <1>2, <1>3, <1>4, <1>5, <1>6, <1>7, <1>8, <1>9 DEF Next

\* A preview has urls exactly while it is running, although a nil PreviewURLs is
\* documented to keep them: the statement writes '' over them.
THEOREM UrlsFollowStatus == Spec => []UrlsOnlyWhileRunning
<1>1. Init => UrlsOnlyWhileRunning
  BY DEF Init, Blank, UrlsOnlyWhileRunning
<1>2. QED
  BY <1>1, TypeInit, TypeStep, UrlsStep, PTL DEF Spec

-----------------------------------------------------------------------------
(* The refinement of PreviewLifecycle. *)

Seen == <<Phases(rows), Holders(rows), Commits(rows)>>

LEMMA UpdateRefines ==
    ASSUME TypeOK, NEW i \in Id, NEW r \in Requests, NEW f \in FieldsOf(r), UpdateStatus(i, r, f)
    PROVE  Lifecycle!Next \/ UNCHANGED Seen
<1>1. /\ rows \in Tables
      /\ rows[i] \in Row /\ rows[i].status # "absent"
      /\ rows' = Updated(rows, i, r.to, f)
  BY DEF UpdateStatus, CanUpdate, Exists, TypeOK, Tables
<1> DEFINE phase == Phases(rows)
           holder == Holders(rows)
           commit == Commits(rows)
<1>2. /\ phase' = [phase EXCEPT ![i] = Phase(r.to)]
      /\ holder' = [holder EXCEPT ![i] = Coalesce(f.agent, rows[i].agent)]
      /\ commit' = [commit EXCEPT ![i] = Coalesce(rows[i].sha, f.sha)]
  BY <1>1, UpdatedSeen
<1>3. /\ phase[i] = Phase(rows[i].status) /\ phase[i] # "absent"
      /\ phase = [phase EXCEPT ![i] = Phase(rows[i].status)]
      /\ holder[i] = rows[i].agent /\ holder = [holder EXCEPT ![i] = rows[i].agent]
      /\ commit[i] = rows[i].sha /\ commit = [commit EXCEPT ![i] = rows[i].sha]
  BY <1>1 DEF Phases, Holders, Commits, Phase
<1>4. f = NoFields => Coalesce(f.agent, rows[i].agent) = rows[i].agent
                   /\ Coalesce(rows[i].sha, f.sha) = rows[i].sha
  BY DEF NoFields, Coalesce
<1>5. CASE r.to \in {"building", "running"}
  <2>1. f \in Fields /\ f.agent # NULL
    BY <1>5 DEF Requests, FieldsOf
  <2>2. Phase(r.to) = "live"
    BY <1>5 DEF Phase
  <2>3. f.agent \in Agent /\ Coalesce(f.agent, rows[i].agent) = f.agent
    BY <2>1 DEF Fields, Coalesce
  <2>4. /\ Coalesce(rows[i].sha, f.sha) \in Sha \cup {NULL}
        /\ commit[i] \in {NULL, Coalesce(rows[i].sha, f.sha)}
    BY <1>1, <1>3, <2>1 DEF Row, Fields, Coalesce
  <2>5. Lifecycle!Report(i, f.agent, Coalesce(rows[i].sha, f.sha))
    BY <1>2, <1>3, <2>2, <2>3, <2>4 DEF Lifecycle!Report, Lifecycle!Known, Lifecycle!Into
  <2>6. QED
    BY <2>3, <2>4, <2>5 DEF Lifecycle!Next
<1>6. CASE r.to \notin {"building", "running"}
  <2>1. f = NoFields
    BY <1>6 DEF FieldsOf
  <2>2. holder' = holder /\ commit' = commit
    BY <1>2, <1>3, <1>4, <2>1
  <2>3. CASE r.to = "teardown"
    <3>1. Lifecycle!Close(i)
      BY <1>2, <1>3, <2>2, <2>3 DEF Lifecycle!Close, Lifecycle!Known, Lifecycle!Into, Phase
    <3>2. QED
      BY <3>1 DEF Lifecycle!Next
  <2>4. CASE r.to \in {"done", "failed"}
    <3>1. Lifecycle!End(i)
      BY <1>2, <1>3, <2>2, <2>4 DEF Lifecycle!End, Lifecycle!Known, Lifecycle!Into, Phase
    <3>2. QED
      BY <3>1 DEF Lifecycle!Next
  <2>5. CASE r.to = "queued"
    <3>1. rows[i].status = r.from /\ r.from \in {"done", "failed", "queued", "assigned"}
      BY <2>5, NullIsNoValue DEF Requests, UpdateStatus, CanUpdate, StaleState, Statuses
    <3>2. CASE r.from = "queued"
      <4>1. phase' = phase
        BY <1>2, <1>3, <2>5, <3>1, <3>2
      <4>2. QED
        BY <2>2, <4>1 DEF Seen
    <3>3. CASE r.from # "queued"
      <4>1. Lifecycle!Requeue(i)
        BY <1>2, <1>3, <2>2, <2>5, <3>1, <3>3 DEF Lifecycle!Requeue, Lifecycle!Into, Phase
      <4>2. QED
        BY <4>1 DEF Lifecycle!Next
    <3>4. QED
      BY <3>2, <3>3
  <2>6. QED
    BY <1>6, <2>3, <2>4, <2>5 DEF Requests
<1>7. QED
  BY <1>5, <1>6

\* Every step of the store is a step of the lifecycle, or none.
LEMMA LifecycleStep == TypeOK /\ [Next]_vars => [Lifecycle!Next]_(Lifecycle!vars)
<1> SUFFICES ASSUME TypeOK, [Next]_vars
             PROVE  Lifecycle!Next \/ UNCHANGED Seen
  BY DEF Seen, Lifecycle!vars
<1>1. rows \in Tables
  BY DEF TypeOK, Tables
<1>2. ASSUME NEW i \in Id, NEW d \in Draft, UpsertNew(i, d)
      PROVE  Lifecycle!Next
  <2>1. Phases(rows)[i] = "absent"
    BY <1>2 DEF UpsertNew, Exists, Phases, Phase
  <2>2. Lifecycle!Submit(i, d.sha)
    BY <1>1, <1>2, <2>1, InsertedSeen DEF UpsertNew, Lifecycle!Submit, Lifecycle!Into
  <2>3. QED
    BY <2>2 DEF Lifecycle!Next, Draft
<1>3. ASSUME NEW i \in Id, NEW d \in Draft, UpsertSame(i, d)
      PROVE  UNCHANGED Seen
  BY <1>1, <1>3, Unseen DEF UpsertSame, Seen
<1>4. ASSUME NEW i \in Id, NEW candidates \in SUBSET Id, NEW a \in Agent, Claim(i, candidates, a)
      PROVE  Lifecycle!Next
  <2>1. Phases(rows)[i] = "waiting"
    BY <1>4 DEF Claim, ToClaim, WithStatus, Phases, Phase
  <2>2. Lifecycle!Offer(i, a)
    BY <1>1, <1>4, <2>1, ClaimedSeen DEF Claim, Lifecycle!Offer, Lifecycle!Into
  <2>3. QED
    BY <2>2 DEF Lifecycle!Next
<1>5. ASSUME NEW i \in Id, Age(i)
      PROVE  UNCHANGED Seen
  BY <1>1, <1>5, Unseen DEF Age, Seen
<1>6. CASE ResetAllAssigned
  <2>1. Lifecycle!Restart
    BY <1>1, <1>6, ResetSeen DEF ResetAllAssigned, Lifecycle!Restart
  <2>2. QED
    BY <2>1 DEF Lifecycle!Next
<1>7. ASSUME NEW a \in Agent, CreateAgent(a)
      PROVE  UNCHANGED Seen
  BY <1>7 DEF CreateAgent, Seen
<1>8. ASSUME NEW a \in Agent, DeleteAgent(a)
      PROVE  Lifecycle!Next
  <2>1. Lifecycle!Forget(a)
    BY <1>1, <1>8, ClearedSeen DEF DeleteAgent, Lifecycle!Forget
  <2>2. QED
    BY <2>1 DEF Lifecycle!Next
<1>9. CASE UNCHANGED vars
  BY <1>9 DEF vars, Seen
<1>10. QED
  BY <1>2, <1>3, <1>4, <1>5, <1>6, <1>7, <1>8, <1>9, UpdateRefines DEF Next

\* For any sets of previews, agents and commits, whatever is asked of the store in
\* any order is a life PreviewLifecycle allows.
THEOREM StoreImplementsLifecycle == Spec => ImplementsLifecycle
<1>1. Init => Lifecycle!Init
  BY DEF Init, Lifecycle!Init, Phases, Holders, Commits, Phase, Blank
<1>2. TypeOK /\ [Next]_vars => [Lifecycle!Next]_(Lifecycle!vars)
  BY LifecycleStep
<1>3. QED
  BY <1>1, <1>2, TypeCorrect, PTL DEF Spec, ImplementsLifecycle, Lifecycle!Spec
=============================================================================
