--------------------------- MODULE MCWebSocketHandler ---------------------------
(***************************************************************************)
(* Model checking WebSocketHandler.                                        *)
(***************************************************************************)
EXTENDS WebSocketHandler

\* Without, which is written out for the proofs, is SelectSeq: on all sequences
\* that can be in the writer's commands, with repetitions too.
ASSUME WithoutSelects ==
    \A s \in SeqOf(Requests, NumRequests), bad \in SUBSET Requests :
        Without(s, bad) = SelectSeq(s, LAMBDA r : r \notin bad)

=============================================================================
