----------------------------- MODULE TaskRunner -----------------------------
(***************************************************************************)
(* What a metadata backend relies on when it hands I/O to its worker       *)
(* (src/core/nixl_metadata_worker.h:34-51): every task that is accepted    *)
(* runs, at most once, and no two of them run at the same time, whichever  *)
(* thread runs them.  The order of the queue and the shutdown protocol are *)
(* details of the implementation, MetadataWorker.                          *)
(***************************************************************************)
CONSTANTS Tasks, None

VARIABLES
    accepted,   \* submitted and not begun
    running,    \* the task that runs now, or None
    finished

vars == <<accepted, running, finished>>

Init ==
    /\ accepted = {}
    /\ running = None
    /\ finished = {}

Accept(t) ==
    /\ t \notin accepted \cup {running} \cup finished
    /\ accepted' = accepted \cup {t}
    /\ UNCHANGED <<running, finished>>

Begin(t) ==
    /\ running = None
    /\ t \in accepted
    /\ accepted' = accepted \ {t}
    /\ running' = t
    /\ UNCHANGED finished

End ==
    /\ running # None
    /\ finished' = finished \cup {running}
    /\ running' = None
    /\ UNCHANGED accepted

Next == End \/ \E t \in Tasks : Accept(t) \/ Begin(t)

Spec == Init /\ [][Next]_vars
=============================================================================
