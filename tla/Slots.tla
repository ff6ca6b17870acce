------------------------------- MODULE Slots -------------------------------
(***************************************************************************)
(* How an agent of MaxJobs slots asks for jobs.  There is no message that  *)
(* says how many slots are free: maybeSendReady sends one READY for every  *)
(* slot that is free when it looks, at the end of every Handle and once    *)
(* per connection, and each READY the hub has a job for becomes one        *)
(* JOB_ASSIGN.  Neither side remembers a READY: one that meets an empty    *)
(* queue, or that a Handle cannot send, is gone.                           *)
(*                                                                         *)
(* Which preview a job is about does not matter here, so goroutines at the *)
(* same point are a number.  Its sessions are the other half of the client *)
(* (AgentSession), so the names of this half say which they are of.        *)
(***************************************************************************)
EXTENDS Naturals

CONSTANTS MaxJobs,
          MaxGiven,    \* bound on the JOB_ASSIGNs of the hub
          QueueEmpties,  \* the hub may have no job for a READY
          MaxSetbacks  \* bound on disconnects, expired Handles, READYs without a job, Pause

ASSUME MaxJobsAssumption == MaxJobs \in Nat \ {0}
ASSUME SlotBounds == MaxGiven \in Nat /\ MaxSetbacks \in Nat /\ QueueEmpties \in BOOLEAN

VARIABLES
    link,       \* new: Client.conn is set, once() has not called maybeSendReady
    paused,
    assigned,   \* JOB_ASSIGNs on the way to a Handle
    inFlight,
    leaving,    \* Handles past inFlight.Add(-1) that have not read it again
    unsent,     \* READYs maybeSendReady calls have still to send
    readys,     \* READYs on the way to the hub
    unheard,    \* READYs of this connection that led to no job, or could not be sent
    given, setbacks

slotVars == <<link, paused, assigned, inFlight, leaving, unsent, readys,
              unheard, given, setbacks>>

Setback == setbacks < MaxSetbacks /\ setbacks' = setbacks + 1

\* Mutant: no floor at zero.
FreeUnfloored == MaxJobs - inFlight

\* slots := maxJobs - inFlight, none if negative.
Free == IF inFlight < MaxJobs THEN MaxJobs - inFlight ELSE 0

SlotsInit == /\ link = "down"
             /\ paused = FALSE
             /\ assigned = 0
             /\ inFlight = 0
             /\ leaving = 0
             /\ unsent = 0
             /\ readys = 0
             /\ unheard = 0
             /\ given = 0
             /\ setbacks = 0

-----------------------------------------------------------------------------
(* The connection. *)

Connect == /\ link = "down"
           /\ link' = "new"
           /\ unheard' = 0
           /\ UNCHANGED <<paused, assigned, inFlight, leaving, unsent, readys, given, setbacks>>

\* once() calls maybeSendReady.
Greet == /\ link = "new"
         /\ link' = "up"
         /\ unsent' = unsent + Free
         /\ UNCHANGED <<paused, assigned, inFlight, leaving, readys, unheard,
                        given, setbacks>>

\* What was on its way may still arrive, having been read by the other side.
Disconnect == /\ Setback
              /\ link # "down"
              /\ link' = "down"
              /\ \E r \in 0..readys, j \in 0..assigned : readys' = r /\ assigned' = j
              /\ UNCHANGED <<paused, inFlight, leaving, unsent, unheard, given>>

-----------------------------------------------------------------------------
(* The hub: OnReady with a queue that has a job, or has none. *)

Give == /\ readys > 0
        /\ given < MaxGiven
        /\ readys' = readys - 1
        /\ given' = given + 1
        /\ IF link # "down" THEN assigned' = assigned + 1 /\ UNCHANGED unheard
                        ELSE unheard' = unheard + 1 /\ UNCHANGED assigned
        /\ UNCHANGED <<link, paused, inFlight, leaving, unsent, setbacks>>

NoJob == /\ QueueEmpties
         /\ Setback
         /\ readys > 0
         /\ readys' = readys - 1
         /\ unheard' = unheard + 1
         /\ UNCHANGED <<link, paused, assigned, inFlight, leaving, unsent, given>>

-----------------------------------------------------------------------------
(* Handle. *)

StartJob == /\ assigned > 0
            /\ ~paused
            /\ assigned' = assigned - 1
            /\ inFlight' = inFlight + 1
            /\ UNCHANGED <<link, paused, leaving, unsent, readys, unheard,
                           given, setbacks>>

\* agent shutting down
Reject == /\ assigned > 0
          /\ paused
          /\ assigned' = assigned - 1
          /\ UNCHANGED <<link, paused, inFlight, leaving, unsent, readys,
                         unheard, given, setbacks>>

Leave == /\ inFlight > 0
         /\ inFlight' = inFlight - 1
         /\ leaving' = leaving + 1
         /\ UNCHANGED <<link, paused, assigned, unsent, readys, unheard,
                        given, setbacks>>

\* Mutant: READY only when it is the last job that ended.
OfferWhenIdle == /\ leaving > 0
                 /\ leaving' = leaving - 1
                 /\ unsent' = IF inFlight = 0 THEN unsent + Free ELSE unsent
                 /\ UNCHANGED <<link, paused, assigned, inFlight, readys,
                                unheard, given, setbacks>>

\* maybeSendReady reads inFlight, which other Handles may have changed since.
Offer == /\ leaving > 0
         /\ leaving' = leaving - 1
         /\ unsent' = unsent + Free
         /\ UNCHANGED <<link, paused, assigned, inFlight, readys, unheard,
                        given, setbacks>>

\* The context of a Handle that took 15 minutes is over: its first SendReady fails.
OfferExpired == /\ Setback
                /\ leaving > 0
                /\ leaving' = leaving - 1
                /\ unheard' = IF Free > 0 THEN unheard + 1 ELSE unheard
                /\ UNCHANGED <<link, paused, assigned, inFlight, unsent,
                               readys, given>>

SendReady == /\ unsent > 0
             /\ link # "down"
             /\ ~paused
             /\ unsent' = unsent - 1
             /\ readys' = readys + 1
             /\ UNCHANGED <<link, paused, assigned, inFlight, leaving,
                            unheard, given, setbacks>>

\* No connection, or Pause: the loop of maybeSendReady ends.
SendReadyFails == /\ unsent > 0
                  /\ link = "down" \/ paused
                  /\ \E left \in 0..(unsent - 1) : unsent' = left
                  /\ UNCHANGED <<link, paused, assigned, inFlight, leaving,
                                 readys, unheard, given, setbacks>>

\* SIGTERM.
Pause == /\ Setback
         /\ ~paused
         /\ paused' = TRUE
         /\ UNCHANGED <<link, assigned, inFlight, leaving, unsent, readys,
                        unheard, given>>

SlotsNext == \/ Connect \/ Greet \/ Disconnect
             \/ Give \/ NoJob
             \/ StartJob \/ Reject \/ Leave \/ Offer \/ OfferExpired
             \/ SendReady \/ SendReadyFails \/ Pause

SlotsSpec == SlotsInit /\ [][SlotsNext]_slotVars

SlotsFairness == /\ WF_slotVars(Connect)
                 /\ WF_slotVars(Greet)
                 /\ WF_slotVars(Give)
                 /\ WF_slotVars(StartJob \/ Reject)
                 /\ WF_slotVars(Leave)
                 /\ WF_slotVars(Offer)
                 /\ WF_slotVars(SendReady \/ SendReadyFails)

SlotsFairSpec == SlotsSpec /\ SlotsFairness

-----------------------------------------------------------------------------

SlotsTypeOK == /\ link \in {"down", "new", "up"} /\ paused \in BOOLEAN
               /\ assigned \in Nat /\ inFlight \in Nat /\ leaving \in Nat
               /\ unsent \in Nat /\ readys \in Nat /\ unheard \in Nat
               /\ given \in 0..MaxGiven /\ setbacks \in 0..MaxSetbacks

\* No slot is forgotten: every slot of a connected agent works, or a job or a
\* READY for it is on its way or about to be sent, or a READY for it met an
\* empty queue or an expired context since the agent connected.
SlotsAccounted ==
    link = "up" /\ ~paused =>
        inFlight + leaving + unsent + readys + assigned + unheard >= MaxJobs

-----------------------------------------------------------------------------
(* What comments say, and the code does not do. *)

\* ready.go:47: an agent takes one or two jobs more than it has slots, no more.
SlightlyOverSubscribed == inFlight <= MaxJobs + 2

\* ready.go:43: a slot whose READY could not be sent is offered again, by the
\* end of the next Handle or by the next connection.
Forgotten == link = "up" /\ ~paused /\ inFlight + assigned + readys = 0
SlotOfferedAgain == Forgotten ~> ~Forgotten
=============================================================================
