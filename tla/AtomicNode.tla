----------------------------- MODULE AtomicNode -----------------------------
(***************************************************************************)
(* What the node promises its clients about mutations: each request takes  *)
(* effect on the whole configuration at one instant, or leaves no trace    *)
(* and says so.  README "Atomic mutations", without files, containers,     *)
(* locks or threads.  After an event the implementation does not recover   *)
(* from (a failed rollback, a crash or a cancellation inside a commit)     *)
(* nothing is promised any more.                                           *)
(***************************************************************************)
CONSTANTS Tasks, Ops, InitialConfig, Refuses(_, _), Skips(_, _), Apply(_, _),
          None

VARIABLES
    config,     \* the configuration clients may rely on
    request,    \* the operation each task is asked to perform
    answer,     \* how its last request ended
    exposed     \* the promise has lapsed

vars == <<config, request, answer, exposed>>

Init ==
    /\ config = InitialConfig
    /\ request = [t \in Tasks |-> None]
    /\ answer = [t \in Tasks |-> "none"]
    /\ exposed = FALSE

Ask(t) ==
    /\ request[t] = None
    /\ \E o \in Ops : request' = [request EXCEPT ![t] = o]
    /\ answer' = [answer EXCEPT ![t] = "none"]
    /\ UNCHANGED <<config, exposed>>

Answers(t, a) ==
    /\ request[t] # None
    /\ request' = [request EXCEPT ![t] = None]
    /\ answer' = [answer EXCEPT ![t] = a]
    /\ UNCHANGED exposed

Commit(t) ==
    /\ Answers(t, "ok")
    /\ ~Refuses(request[t], config) /\ ~Skips(request[t], config)
    /\ config' = Apply(request[t], config)

Refuse(t) ==
    /\ Answers(t, "refused")
    /\ Refuses(request[t], config)
    /\ UNCHANGED config

LeaveUnchanged(t) ==
    /\ Answers(t, "unchanged")
    /\ ~Refuses(request[t], config) /\ Skips(request[t], config)
    /\ UNCHANGED config

Fail(t) ==
    /\ \E a \in {"failed", "cancelled"} : Answers(t, a)
    /\ UNCHANGED config

LoseRequests ==
    /\ request' = [t \in Tasks |-> None]
    /\ answer' = [t \in Tasks |-> IF request[t] = None THEN answer[t] ELSE "lost"]
    /\ UNCHANGED <<config, exposed>>

PromiseLapses == exposed' = TRUE

Next ==
    \/ PromiseLapses
    \/ \E t \in Tasks : Ask(t) \/ Commit(t) \/ Refuse(t) \/ LeaveUnchanged(t) \/ Fail(t)
    \/ LoseRequests

Spec == Init /\ [][Next]_vars
=============================================================================
