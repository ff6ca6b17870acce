------------------------- MODULE AgentClientProofs -------------------------
(***************************************************************************)
(* Proofs about the agent's client: its sessions with the hub, for any     *)
(* number of connections and faults, and its slots, for every MaxJobs.     *)
(*                                                                         *)
(* OneSession is not inductive: a step that adds an entry must know that   *)
(* no session past add is left, and a step that takes one away that it is  *)
(* its own.  SessionInv says that the entry and the session past add are   *)
(* the same thing, and what the row says in between.                       *)
(*                                                                         *)
(* SlotsAccounted is inductive with the types.  A Handle that leaves keeps *)
(* the sum, in leaving; when it looks it either sees a free slot and adds  *)
(* a READY for it, or sees none, and then inFlight alone makes the sum.    *)
(***************************************************************************)
EXTENDS AgentSession, Slots, TLAPS

-----------------------------------------------------------------------------
(* Sessions. *)

\* The session has written online to the row and not yet written it back.
Shown == {"online", "serving", "closing"}

SessionInv ==
    /\ TypeOK
    /\ \A c \in Conn : hub[c] \in Holding => registered = c
    /\ EntryHasOwner
    /\ hubState = "down" => \A c \in Conn : hub[c] \in {"none", "closed"}
    /\ \A c \in Conn : hub[c] \in Shown => status # "offline"
    /\ ~unmarked /\ hubState # "down" /\ status = "online" => \E c \in Conn : hub[c] \in Shown

LEMMA InvInit == Init => SessionInv
<1> SUFFICES ASSUME Init
             PROVE  SessionInv
  OBVIOUS
<1>1. unmarked \in BOOLEAN
  BY DEF Init
<1>2. faults \in 0..MaxFaults
  BY MaxFaultsAssumption DEF Init
<1>3. TypeOK
  BY <1>1, <1>2 DEF Init, TypeOK, HubEnd, CliEnd
<1>4. QED
  BY <1>3 DEF Init, SessionInv, Holding, Shown, EntryHasOwner

LEMMA InvStep == SessionInv /\ [Next]_vars => SessionInv'
<1> SUFFICES ASSUME SessionInv, [Next]_vars
             PROVE  SessionInv'
  OBVIOUS
<1> USE NoConnAssumption, MaxFaultsAssumption
    DEF SessionInv, TypeOK, HubEnd, CliEnd, Holding, Shown, EntryHasOwner, Fault
<1>1. ASSUME NEW c \in Conn, Dial(c)
      PROVE  SessionInv'
  BY <1>1 DEF Dial
<1>2. ASSUME NEW c \in Conn, ReadWelcome(c) \/ SeeClose(c) \/ LoseConn(c)
      PROVE  SessionInv'
  BY <1>2 DEF ReadWelcome, SeeClose, LoseConn
<1>3. ASSUME NEW c \in Conn, HelloFails(c) \/ RejectDuplicate(c)
      PROVE  SessionInv'
  BY <1>3 DEF HelloFails, RejectDuplicate
<1>4. ASSUME NEW c \in Conn, Add(c)
      PROVE  SessionInv'
  BY <1>4 DEF Add
<1>5. ASSUME NEW c \in Conn, GoOnline(c)
      PROVE  SessionInv'
  BY <1>5 DEF GoOnline
<1>6. ASSUME NEW c \in Conn, GoOnlineFails(c)
      PROVE  SessionInv'
  BY <1>6 DEF GoOnlineFails
<1>7. ASSUME NEW c \in Conn, SendWelcome(c)
      PROVE  SessionInv'
  BY <1>7 DEF SendWelcome
<1>8. ASSUME NEW c \in Conn, WelcomeFails(c) \/ NoticeLoss(c) \/ LosePing(c)
      PROVE  SessionInv'
  BY <1>8 DEF WelcomeFails, NoticeLoss, LosePing
<1>9. ASSUME NEW c \in Conn, MarkOffline(c)
      PROVE  SessionInv'
  <2>1. /\ hub' = [hub EXCEPT ![c] = "offline"]
        /\ UNCHANGED <<registered, cli, welcome, hubState>>
        /\ hub[c] = "closing"
        /\ registered = c
    BY <1>9 DEF MarkOffline
  <2>2. \A d \in Conn : d # c => hub[d] \notin Shown
    BY <2>1
  <2>3. TypeOK'
    <3>1. status' \in {"online", "offline", "deleted"} /\ faults' \in 0..MaxFaults
      BY <1>9 DEF MarkOffline
    <3>2. unmarked' \in BOOLEAN
      BY <1>9 DEF MarkOffline
    <3>3. QED
      BY <2>1, <3>1, <3>2
  <2>4. EntryHasOwner' /\ \A d \in Conn : hub'[d] \in Holding => registered' = d
    BY <2>1
  <2>5. hubState' = "down" => \A d \in Conn : hub'[d] \in {"none", "closed"}
    BY <2>1
  <2>6. \A d \in Conn : hub'[d] \notin Shown
    BY <2>1, <2>2
  <2>7. unmarked' \/ status' # "online"
    BY <1>9 DEF MarkOffline
  <2>8. QED
    BY <2>3, <2>4, <2>5, <2>6, <2>7
<1>10. ASSUME NEW c \in Conn, Remove(c)
       PROVE  SessionInv'
  BY <1>10 DEF Remove
<1>11. CASE Shutdown \/ CloseAll
  BY <1>11 DEF Shutdown, CloseAll
<1>12. CASE Exit
  BY <1>12 DEF Exit
<1>13. CASE Start
  BY <1>13 DEF Start
<1>14. CASE Delete
  BY <1>14 DEF Delete
<1>15. CASE UNCHANGED vars
  BY <1>15 DEF vars
<1>16. QED
  BY <1>1, <1>2, <1>3, <1>4, <1>5, <1>6, <1>7, <1>8, <1>9, <1>10, <1>11, <1>12, <1>13, <1>14, <1>15
     DEF Next, Session, Client

LEMMA InvHolds == Spec => []SessionInv
BY InvInit, InvStep, PTL DEF Spec

\* The sessions stay well typed.
THEOREM SessionTypes == Spec => []TypeOK
<1>1. SessionInv => TypeOK
  BY DEF SessionInv
<1>2. QED
  BY <1>1, InvHolds, PTL

\* At most one session of the agent is between its online and its offline.
THEOREM OneSessionHolds == Spec => []OneSession
<1>1. SessionInv => OneSession
  BY DEF SessionInv, OneSession, Holding
<1>2. QED
  BY <1>1, InvHolds, PTL

\* The offline of an earlier session never overwrites the online of the next.
THEOREM ServingShownOnlineHolds == Spec => []ServingShownOnline
<1>1. SessionInv => ServingShownOnline
  BY DEF SessionInv, ServingShownOnline, Shown
<1>2. QED
  BY <1>1, InvHolds, PTL

\* Whoever is registered still has the code that removes the entry ahead of it.
THEOREM EntryHasOwnerHolds == Spec => []EntryHasOwner
<1>1. SessionInv => EntryHasOwner
  BY DEF SessionInv
<1>2. QED
  BY <1>1, InvHolds, PTL

\* While no markOffline fails, a row that says online has a registered session.
THEOREM OnlineHasSessionHolds == Spec => []OnlineHasSession
<1>1. SessionInv => OnlineHasSession
  BY NoConnAssumption DEF SessionInv, OnlineHasSession, Shown, Holding
<1>2. QED
  BY <1>1, InvHolds, PTL

-----------------------------------------------------------------------------
(* Slots. *)

SlotsInv == SlotsTypeOK /\ SlotsAccounted

LEMMA SlotsInvInit == SlotsInit => SlotsInv
<1> SUFFICES ASSUME SlotsInit
             PROVE  SlotsInv
  OBVIOUS
<1>1. paused \in BOOLEAN
  BY Zenon DEF SlotsInit
<1>2. QED
  BY <1>1, SlotBounds DEF SlotsInit, SlotsInv, SlotsTypeOK, SlotsAccounted

LEMMA FreeSlotsCount == ASSUME SlotsTypeOK
                        PROVE  /\ Free \in Nat
                               /\ inFlight + Free >= MaxJobs
                               /\ Free = 0 => inFlight >= MaxJobs
BY MaxJobsAssumption DEF SlotsTypeOK, Free

LEMMA SlotsInvStep == SlotsInv /\ [SlotsNext]_slotVars => SlotsInv'
<1> SUFFICES ASSUME SlotsInv, [SlotsNext]_slotVars
             PROVE  SlotsInv'
  OBVIOUS
<1> USE MaxJobsAssumption, SlotBounds DEF SlotsInv, SlotsTypeOK, SlotsAccounted, Setback
<1>0. Free \in Nat /\ inFlight + Free >= MaxJobs /\ (Free = 0 => inFlight >= MaxJobs)
  BY FreeSlotsCount
<1>1. CASE Connect
  BY <1>1 DEF Connect
<1>2. CASE Greet
  BY <1>0, <1>2 DEF Greet
<1>3. CASE Disconnect
  BY <1>3 DEF Disconnect
<1>4. CASE Give
  BY <1>4 DEF Give
<1>5. CASE NoJob
  BY <1>5 DEF NoJob
<1>6. CASE StartJob
  BY <1>6 DEF StartJob
<1>7. CASE Reject
  BY <1>7 DEF Reject
<1>8. CASE Leave
  BY <1>8 DEF Leave
<1>9. CASE Offer
  BY <1>0, <1>9 DEF Offer
<1>10. CASE OfferExpired
  BY <1>0, <1>10 DEF OfferExpired
<1>11. CASE SendReady
  BY <1>11 DEF SendReady
<1>12. CASE SendReadyFails
  BY <1>12 DEF SendReadyFails
<1>13. CASE Pause
  <2>1. paused' \in BOOLEAN
    BY <1>13, Zenon DEF Pause
  <2>2. QED
    BY <1>13, <2>1 DEF Pause
<1>14. CASE UNCHANGED slotVars
  BY <1>14 DEF slotVars
<1>15. QED
  BY <1>1, <1>2, <1>3, <1>4, <1>5, <1>6, <1>7, <1>8, <1>9, <1>10, <1>11, <1>12, <1>13,
     <1>14 DEF SlotsNext

\* The counters of an agent are never negative, however its goroutines run.
THEOREM SlotTypes == SlotsSpec => []SlotsTypeOK
<1>1. SlotsInv => SlotsTypeOK
  BY DEF SlotsInv
<1>2. QED
  BY <1>1, SlotsInvInit, SlotsInvStep, PTL DEF SlotsSpec

\* For any number of slots: an agent that is connected either uses a slot, or
\* something is under way that will use it, or it has told the hub in vain.
THEOREM NoSlotForgotten == SlotsSpec => []SlotsAccounted
<1>1. SlotsInv => SlotsAccounted
  BY DEF SlotsInv
<1>2. QED
  BY <1>1, SlotsInvInit, SlotsInvStep, PTL DEF SlotsSpec
=============================================================================
