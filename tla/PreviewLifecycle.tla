-------------------------- MODULE PreviewLifecycle --------------------------
(***************************************************************************)
(* What the hub promises of a preview, whatever handlers, agents and       *)
(* messages do to it: the life of its row, its agent and its commit.       *)
(*                                                                         *)
(* A preview waits, is offered to one agent at a time, is live once an     *)
(* agent has reported on it, is closed and ends.  What is live or closing  *)
(* does not wait again before it has ended; a preview is never forgotten;  *)
(* its commit is learned once.  PreviewStore, Dispatch and PreviewRequests *)
(* implement this.                                                         *)
(***************************************************************************)
CONSTANTS Preview, Agent, Commit,
          None      \* no agent, no commit

VARIABLES phase,    \* of each preview
          holder,   \* agent it was offered to, or that reported on it last
          commit

vars == <<phase, holder, commit>>

Init == /\ phase = [p \in Preview |-> "absent"]
        /\ holder = [p \in Preview |-> None]
        /\ commit = [p \in Preview |-> None]

Known(p) == phase[p] # "absent"
Into(p, to) == phase' = [phase EXCEPT ![p] = to]

Submit(p, c) ==
    /\ phase[p] = "absent"
    /\ Into(p, "waiting")
    /\ holder' = [holder EXCEPT ![p] = None]
    /\ commit' = [commit EXCEPT ![p] = c]

Offer(p, a) ==
    /\ phase[p] = "waiting"
    /\ Into(p, "offered")
    /\ holder' = [holder EXCEPT ![p] = a]
    /\ UNCHANGED commit

\* News of a build, from whichever agent and however late: it names the commit
\* of a preview that has none.
Report(p, a, c) ==
    /\ Known(p)
    /\ Into(p, "live")
    /\ holder' = [holder EXCEPT ![p] = a]
    /\ commit' = [commit EXCEPT ![p] = c]
    /\ commit[p] \in {None, c}

Close(p) == /\ Known(p)
            /\ Into(p, "closing")
            /\ UNCHANGED <<holder, commit>>

End(p) == /\ Known(p)
          /\ Into(p, "ended")
          /\ UNCHANGED <<holder, commit>>

\* A rebuild of what has ended, or the offer is taken back.
Requeue(p) ==
    /\ phase[p] \in {"offered", "ended"}
    /\ Into(p, "waiting")
    /\ UNCHANGED <<holder, commit>>

\* A new hub process takes every offer back.
Restart ==
    /\ phase' = [p \in Preview |-> IF phase[p] = "offered" THEN "waiting" ELSE phase[p]]
    /\ holder' = [p \in Preview |-> IF phase[p] = "offered" THEN None ELSE holder[p]]
    /\ UNCHANGED commit

Forget(a) ==
    /\ holder' = [p \in Preview |-> IF holder[p] = a THEN None ELSE holder[p]]
    /\ UNCHANGED <<phase, commit>>

Next == \/ \E p \in Preview : \/ \E c \in Commit \cup {None} : Submit(p, c)
                              \/ \E a \in Agent : Offer(p, a)
                              \/ \E a \in Agent, c \in Commit \cup {None} : Report(p, a, c)
                              \/ Close(p) \/ End(p) \/ Requeue(p)
        \/ Restart
        \/ \E a \in Agent : Forget(a)

Spec == Init /\ [][Next]_vars
=============================================================================
