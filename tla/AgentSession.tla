---------------------------- MODULE AgentSession ----------------------------
(***************************************************************************)
(* The WebSocket sessions of one agent with the hub: the handshake, the    *)
(* hub's connection registry, the status column of the agent's row, and    *)
(* the agent's reconnect loop.  Agents do not share registry entries, rows *)
(* or connections, so one agent is enough.                                 *)
(*                                                                         *)
(* A connection lives at both ends: cli[c] is where the agent's once() is  *)
(* with it, hub[c] where the hub's session() is with it.  The ends learn   *)
(* of each other's end late: a connection the agent lost stays in the      *)
(* registry until the hub's ping or read fails, and the reconnect that     *)
(* comes before that is refused as a duplicate.                            *)
(***************************************************************************)
EXTENDS Naturals

CONSTANTS Conn,        \* connection slots, reused when both ends are done
          NoConn,
          MaxFaults    \* bound on network losses, hub crashes and failed writes

ASSUME NoConnAssumption == NoConn \notin Conn
ASSUME MaxFaultsAssumption == MaxFaults \in Nat

VARIABLES registered,  \* ConnRegistry.conns of the agent, or NoConn
          status,      \* status of the agent's row, "deleted" when it has none
          hub, cli,    \* progress of the two ends of each connection
          welcome,     \* WELCOME was written to the connection
          hubState,    \* of the hub process
          unmarked,    \* markOffline has failed since ResetAllOnline
          faults

vars == <<registered, status, hub, cli, welcome, hubState, unmarked, faults>>

\* accepted: reading HELLO; added: in the registry; online: row written,
\* WELCOME next; serving: readLoop and pingTicker run; closing: connection
\* context done; offline: row written back, entry still registered; closed.
HubEnd == {"none", "accepted", "added", "online", "serving", "closing", "offline", "closed"}
CliEnd == {"none", "dialed", "up", "gone"}

\* The session holds the agent's registry entry.
Holding == {"added", "online", "serving", "closing", "offline"}

Init == /\ registered = NoConn
        /\ status = "offline"
        /\ hub = [c \in Conn |-> "none"]
        /\ cli = [c \in Conn |-> "none"]
        /\ welcome = [c \in Conn |-> FALSE]
        /\ hubState = "up"
        /\ unmarked = FALSE
        /\ faults = 0

Fault == faults < MaxFaults /\ faults' = faults + 1

-----------------------------------------------------------------------------
(* The agent: Run calls once() again and again, one connection at a time. *)

Disconnected == \A c \in Conn : cli[c] \in {"none", "gone"}

\* once: dial (findAgentByToken has found the row), write HELLO, wait for WELCOME.
Dial(c) ==
    /\ Disconnected
    /\ hubState = "up"
    /\ status # "deleted"
    /\ hub[c] \in {"none", "closed"}
    /\ cli' = [cli EXCEPT ![c] = "dialed"]
    /\ hub' = [hub EXCEPT ![c] = "accepted"]
    /\ welcome' = [welcome EXCEPT ![c] = FALSE]
    /\ UNCHANGED <<registered, status, hubState, unmarked, faults>>

ReadWelcome(c) ==
    /\ cli[c] = "dialed"
    /\ welcome[c]
    /\ cli' = [cli EXCEPT ![c] = "up"]
    /\ UNCHANGED <<registered, status, hub, welcome, hubState, unmarked, faults>>

\* Mutant: the agent's end takes over the state of the hub's.
SeeCloseAsIs(c) ==
    /\ cli[c] \in {"dialed", "up"}
    /\ hub[c] \in {"closing", "offline", "closed"}
    /\ cli' = [cli EXCEPT ![c] = hub[c]]
    /\ UNCHANGED <<registered, status, hub, welcome, hubState, unmarked, faults>>

\* The read of WELCOME or the read loop sees the hub's close.
SeeClose(c) ==
    /\ cli[c] \in {"dialed", "up"}
    /\ hub[c] \in {"closing", "offline", "closed"}
    /\ cli' = [cli EXCEPT ![c] = "gone"]
    /\ UNCHANGED <<registered, status, hub, welcome, hubState, unmarked, faults>>

\* The agent loses the connection on its side: network error, timeout of the
\* dial or of WELCOME, or the agent process dies.
LoseConn(c) ==
    /\ Fault
    /\ cli[c] \in {"dialed", "up"}
    /\ cli' = [cli EXCEPT ![c] = "gone"]
    /\ UNCHANGED <<registered, status, hub, welcome, hubState, unmarked>>

-----------------------------------------------------------------------------
(* The hub: one session() per accepted connection. *)

\* HELLO does not come within 5 s, or has another protocol version.
HelloFails(c) ==
    /\ hub[c] = "accepted"
    /\ cli[c] = "gone"
    /\ hub' = [hub EXCEPT ![c] = "closed"]
    /\ UNCHANGED <<registered, status, cli, welcome, hubState, unmarked, faults>>

\* Mutant: a second connection replaces the entry of the first.
AddReplacing(c) ==
    /\ hub[c] = "accepted"
    /\ registered' = c
    /\ hub' = [hub EXCEPT ![c] = "added"]
    /\ UNCHANGED <<status, cli, welcome, hubState, unmarked, faults>>

\* HELLO read, Registry.add: refused with 4003 while an entry is there.
Add(c) ==
    /\ hub[c] = "accepted"
    /\ registered = NoConn
    /\ registered' = c
    /\ hub' = [hub EXCEPT ![c] = "added"]
    /\ UNCHANGED <<status, cli, welcome, hubState, unmarked, faults>>

RejectDuplicate(c) ==
    /\ hub[c] = "accepted"
    /\ registered # NoConn
    /\ hub' = [hub EXCEPT ![c] = "closed"]
    /\ UNCHANGED <<registered, status, cli, welcome, hubState, unmarked, faults>>

GoOnline(c) ==
    /\ hub[c] = "added"
    /\ status # "deleted"
    /\ status' = "online"
    /\ hub' = [hub EXCEPT ![c] = "online"]
    /\ UNCHANGED <<registered, cli, welcome, hubState, unmarked, faults>>

\* Mutant: the session returns without the deferred remove.
GoOnlineFailsKeepingEntry(c) ==
    /\ hub[c] = "added"
    /\ IF status = "deleted" THEN UNCHANGED faults ELSE Fault
    /\ hub' = [hub EXCEPT ![c] = "closed"]
    /\ UNCHANGED <<registered, status, cli, welcome, hubState, unmarked>>

\* The write fails or finds no row: close and return, no markOffline.
GoOnlineFails(c) ==
    /\ hub[c] = "added"
    /\ IF status = "deleted" THEN UNCHANGED faults ELSE Fault
    /\ hub' = [hub EXCEPT ![c] = "offline"]
    /\ UNCHANGED <<registered, status, cli, welcome, hubState, unmarked>>

SendWelcome(c) ==
    /\ hub[c] = "online"
    /\ welcome' = [welcome EXCEPT ![c] = TRUE]
    /\ hub' = [hub EXCEPT ![c] = "serving"]
    /\ UNCHANGED <<registered, status, cli, hubState, unmarked, faults>>

WelcomeFails(c) ==
    /\ hub[c] = "online"
    /\ cli[c] = "gone"
    /\ hub' = [hub EXCEPT ![c] = "closing"]
    /\ UNCHANGED <<registered, status, cli, welcome, hubState, unmarked, faults>>

\* Mutant: the entry is removed before the row is written back.
NoticeLossRemovingEntry(c) ==
    /\ hub[c] = "serving"
    /\ cli[c] = "gone"
    /\ hub' = [hub EXCEPT ![c] = "closing"]
    /\ registered' = NoConn
    /\ UNCHANGED <<status, cli, welcome, hubState, unmarked, faults>>

\* readLoop or pingTicker fails and cancels the connection's context.
NoticeLoss(c) ==
    /\ hub[c] = "serving"
    /\ cli[c] = "gone"
    /\ hub' = [hub EXCEPT ![c] = "closing"]
    /\ UNCHANGED <<registered, status, cli, welcome, hubState, unmarked, faults>>

\* The same without the agent having gone: a pong that comes too late.
LosePing(c) ==
    /\ Fault
    /\ hub[c] = "serving"
    /\ hub' = [hub EXCEPT ![c] = "closing"]
    /\ UNCHANGED <<registered, status, cli, welcome, hubState, unmarked>>

\* Close frame, then markOffline; a failed write is only logged.
MarkOffline(c) ==
    /\ hub[c] = "closing"
    /\ \/ /\ status' = IF status = "deleted" THEN "deleted" ELSE "offline"
          /\ UNCHANGED <<unmarked, faults>>
       \/ Fault /\ unmarked' = TRUE /\ UNCHANGED status
    /\ hub' = [hub EXCEPT ![c] = "offline"]
    /\ UNCHANGED <<registered, cli, welcome, hubState>>

\* The deferred Registry.remove, which spares the entry of another connection.
Remove(c) ==
    /\ hub[c] = "offline"
    /\ registered' = IF registered = c THEN NoConn ELSE registered
    /\ hub' = [hub EXCEPT ![c] = "closed"]
    /\ UNCHANGED <<status, cli, welcome, hubState, unmarked, faults>>

-----------------------------------------------------------------------------
(* The hub process and the admin UI. *)

\* SIGTERM: the listener closes and requests drain; sessions are hijacked
\* connections, which http.Shutdown does not wait for.
Shutdown ==
    /\ Fault
    /\ hubState = "up"
    /\ hubState' = "draining"
    /\ UNCHANGED <<registered, status, hub, cli, welcome, unmarked>>

\* closeAll cancels the sessions that are in the registry at that moment.
CloseAll ==
    /\ hubState = "draining"
    /\ hubState' = "leaving"
    /\ hub' = [c \in Conn |-> IF c = registered /\ hub[c] = "serving" THEN "closing" ELSE hub[c]]
    /\ UNCHANGED <<registered, status, cli, welcome, unmarked, faults>>

\* The process ends, after a shutdown at whatever point its sessions are, or
\* by a crash.  Only the row survives.
Exit ==
    /\ hubState # "down"
    /\ IF hubState = "leaving" THEN UNCHANGED faults ELSE Fault
    /\ hubState' = "down"
    /\ registered' = NoConn
    /\ hub' = [c \in Conn |-> IF hub[c] = "none" THEN "none" ELSE "closed"]
    /\ UNCHANGED <<status, cli, welcome, unmarked>>

\* Mutant: no ResetAllOnline.
StartWithoutReset ==
    /\ hubState = "down"
    /\ hubState' = "up"
    /\ unmarked' = FALSE
    /\ UNCHANGED <<registered, status, hub, cli, welcome, faults>>

\* runDaemon: ResetAllOnline before the server listens.
Start ==
    /\ hubState = "down"
    /\ hubState' = "up"
    /\ status' = IF status = "online" THEN "offline" ELSE status
    /\ unmarked' = FALSE
    /\ UNCHANGED <<registered, hub, cli, welcome, faults>>

\* Deleting the agent in the admin UI leaves its session alone.
Delete ==
    /\ Fault
    /\ hubState # "down"
    /\ status # "deleted"
    /\ status' = "deleted"
    /\ UNCHANGED <<registered, hub, cli, welcome, hubState, unmarked>>

-----------------------------------------------------------------------------

Session(c) == \/ HelloFails(c) \/ Add(c) \/ RejectDuplicate(c)
              \/ GoOnline(c) \/ GoOnlineFails(c)
              \/ SendWelcome(c) \/ WelcomeFails(c)
              \/ NoticeLoss(c) \/ LosePing(c)
              \/ MarkOffline(c) \/ Remove(c)

Client(c) == Dial(c) \/ ReadWelcome(c) \/ SeeClose(c) \/ LoseConn(c)

Next == \/ \E c \in Conn : Session(c) \/ Client(c)
        \/ Shutdown \/ CloseAll \/ Exit \/ Start \/ Delete

Spec == Init /\ [][Next]_vars

\* The agent keeps calling once(), the goroutines of a session run, a lost
\* connection is found by the ping (10 s, then 5 s for the pong) or by the read, and the hub is
\* started again after it ended.  Nothing obliges a fault.
Fairness ==
    /\ WF_vars(\E c \in Conn : Dial(c))
    /\ \A c \in Conn : /\ WF_vars(ReadWelcome(c))
                       /\ WF_vars(SeeClose(c))
                       /\ WF_vars(HelloFails(c))
                       /\ WF_vars(Add(c) \/ RejectDuplicate(c))
                       /\ WF_vars(GoOnline(c) \/ GoOnlineFails(c))
                       /\ WF_vars(SendWelcome(c) \/ WelcomeFails(c))
                       /\ WF_vars(NoticeLoss(c))
                       /\ WF_vars(MarkOffline(c))
                       /\ WF_vars(Remove(c))
    /\ WF_vars(CloseAll)
    /\ WF_vars(hubState = "leaving" /\ Exit)
    /\ WF_vars(Start)

FairSpec == Spec /\ Fairness

-----------------------------------------------------------------------------

TypeOK == /\ registered \in Conn \cup {NoConn}
          /\ status \in {"online", "offline", "deleted"}
          /\ hub \in [Conn -> HubEnd]
          /\ cli \in [Conn -> CliEnd]
          /\ welcome \in [Conn -> BOOLEAN]
          /\ hubState \in {"up", "draining", "leaving", "down"}
          /\ unmarked \in BOOLEAN
          /\ faults \in 0..MaxFaults

\* Two sessions of an agent never serve at the same time, and the one that does
\* is the one JOB_ASSIGN and JOB_TEARDOWN are written to.
OneSession == \A c \in Conn : hub[c] \in {"online", "serving", "closing"} => registered = c

\* While a session serves, the row does not say offline: the offline of an
\* earlier session never overwrites the online of the next one.
ServingShownOnline == \A c \in Conn : hub[c] = "serving" => status # "offline"

\* A row that says online while the hub runs has a session behind it, unless a
\* markOffline failed since the hub started.
OnlineHasSession ==
    ~unmarked /\ hubState # "down" /\ status = "online" => registered # NoConn

\* An entry is never left behind: whoever is registered still has the code that
\* removes the entry ahead of it.
EntryHasOwner == registered # NoConn => hub[registered] \in Holding

\* An agent that stays alive gets a session, whatever happened before: half-open
\* connections, refused duplicates, restarts of the hub.
Connected == \E c \in Conn : hub[c] = "serving" /\ cli[c] = "up"
EventuallyConnected == []<>(Connected \/ status = "deleted")
=============================================================================
