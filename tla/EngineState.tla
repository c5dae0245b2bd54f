----------------------------- MODULE EngineState -----------------------------
(***************************************************************************)
(* What the models of the backend engines share (src/api/cpp/backend): the *)
(* request handles an engine keeps, its own state and, external, the       *)
(* device or service that carries out the operations of a transfer.        *)
(*                                                                         *)
(* An operation is one descriptor of one post of one handle.  It is        *)
(* outstanding while the device may still touch the memory it names.  Each *)
(* engine gives the shape of req[h] and of eng, its calls                  *)
(*     PrepXfer(h, rc)  PostXfer(h, rc)  CheckXfer(h, rc)                  *)
(*     ReleaseReqH(h, rc)                                                  *)
(* with the status they return, and in Works what happens besides calls.   *)
(***************************************************************************)
EXTENDS Integers, Sequences, FiniteSets, SequencesExt, Functions

CONSTANTS
    Handles,    \* request handles
    N,          \* descriptors of a request
    MaxPosts,   \* bound on posts, of all handles
    None

VARIABLES
    gen,        \* ghost: posts of each handle so far
    req,        \* the engine's request handle, or None
    dev,        \* external: operations outstanding, and those that succeeded
    eng         \* the engine's own state

Descs == 1..N
Op(h, g, i) == <<h, g, i>>
NewOps(h, I) == {Op(h, gen[h] + 1, i) : i \in I}

NoRequests ==
    /\ gen = [h \in Handles |-> 0]
    /\ req = [h \in Handles |-> None]
    /\ dev = [out |-> {}, ok |-> {}]

(* nixlBackendEngine::postXfer of a handle made by prepXfer.               *)
Posting(h) ==
    /\ req[h] # None /\ FoldFunction(+, 0, gen) < MaxPosts
    /\ gen' = [gen EXCEPT ![h] = @ + 1]

(* Operations handed to the device; the successes of the handle's last     *)
(* post no longer count.                                                   *)
Started(h, ops) == [out |-> dev.out \cup ops, ok |-> {o \in dev.ok : o[1] # h}]

(* The device is done with an operation.                                   *)
Finished(o, ok) ==
    [out |-> dev.out \ {o},
     ok |-> IF ok /\ o[2] = gen[o[1]] THEN dev.ok \cup {o} ELSE dev.ok]

(* A step F of a computation from the state v the steps before it led to.  *)
Then(v, F(_)) == CHOOSE r \in {F(s) : s \in {v}} : TRUE

(* What is outstanding for a handle, and what of its last post has not     *)
(* been carried out.                                                       *)
Work(h) == Cardinality({o \in dev.out : o[1] = h})
Left(h) == Cardinality({i \in Descs : Op(h, gen[h], i) \notin dev.ok})
=============================================================================
