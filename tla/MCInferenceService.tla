-------------------------- MODULE MCInferenceService --------------------------
(* Two endpoints, each with room for one of the two callers: when the circuit  *)
(* of one is open they compete for the other.                                  *)
EXTENDS InferenceService

MCPrompt == [c \in Callers |-> 1]
MCTotal == [c \in Callers |-> c + 1]
MCMaxConcurrency == [e \in Endpoints |-> 1]
MCMaxPrompt == [e \in Endpoints |-> 2]
MCMaxTotal == [e \in Endpoints |-> 4]

=============================================================================
