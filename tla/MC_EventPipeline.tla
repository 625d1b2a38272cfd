-------------------------- MODULE MC_EventPipeline --------------------------
(* The pipeline for TLC: the messages that occur within the bounds. *)
EXTENDS EventPipeline

MCMessages ==
    [from : {"chain"}, type : Types, id : 1 .. MaxBlocks]
        \cup [from : {"api"}, type : {"rfq_created"}, id : 1 .. MaxRequests]
=============================================================================
