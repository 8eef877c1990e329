-------------------------- MODULE MCInstanceRegistry --------------------------
(* A small registry: two endpoints of different capacity and requests of      *)
(* different sizes, so that each limit is the one that binds in some state.   *)
EXTENDS InstanceRegistry

MCPrompt == [c \in Callers |-> IF c = 2 THEN 2 ELSE 1]
MCTotal == [c \in Callers |-> c + 1]
MCMaxConcurrency == [e \in Endpoints |-> IF e = 1 THEN 2 ELSE 1]
MCMaxPrompt == [e \in Endpoints |-> e + 1]
MCMaxTotal == [e \in Endpoints |-> 5]

=============================================================================
