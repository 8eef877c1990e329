------------------------------ MODULE LeasePool ------------------------------
(***************************************************************************)
(* What the callers of the model registry rely on, without its counters,   *)
(* circuits and wake-ups: a pool of endpoints that is known only by who    *)
(* holds a lease where.  A lease is given where the requests already held  *)
(* leave room for one more, and a caller is made to wait only when some    *)
(* endpoint has no room for it.                                            *)
(***************************************************************************)
EXTENDS Naturals, FiniteSets

CONSTANTS
    Endpoints, Callers,
    Prompt, Total,                         \* size of each caller's request
    MaxConcurrency, MaxPrompt, MaxTotal    \* capacity of each endpoint

VARIABLES
    held,      \* held[c]: the set of endpoints c has a lease on
    blocked    \* callers that sleep until something is given back

poolVars == <<held, blocked>>

Holders(e) == {c \in Callers : e \in held[c]}

\* The tokens that the requests of some callers take, each token by itself.
Tokens(size, callers) == UNION {{c} \X (1..size[c]) : c \in callers}

HasRoom(e, c) ==
    /\ Cardinality(Holders(e)) < MaxConcurrency[e]
    /\ Cardinality(Tokens(Prompt, Holders(e))) + Prompt[c] <= MaxPrompt[e]
    /\ Cardinality(Tokens(Total, Holders(e))) + Total[c] <= MaxTotal[e]

PoolInit ==
    /\ held = [c \in Callers |-> {}]
    /\ blocked = {}

Take(c) ==
    /\ held[c] = {} /\ c \notin blocked
    /\ \E e \in Endpoints : HasRoom(e, c) /\ held' = [held EXCEPT ![c] = {e}]
    /\ UNCHANGED blocked

Block(c) ==
    /\ held[c] = {} /\ c \notin blocked
    /\ \E e \in Endpoints : ~HasRoom(e, c)
    /\ blocked' = blocked \cup {c}
    /\ UNCHANGED held

\* Whatever is given back wakes every sleeper.
GiveBack(c) ==
    /\ held[c] # {}
    /\ held' = [held EXCEPT ![c] = {}]
    /\ blocked' = {}

GiveUp(c) ==
    /\ c \in blocked
    /\ blocked' = blocked \ {c}
    /\ UNCHANGED held

PoolNext == \E c \in Callers : Take(c) \/ Block(c) \/ GiveBack(c) \/ GiveUp(c)

PoolSpec == PoolInit /\ [][PoolNext]_poolVars

=============================================================================
