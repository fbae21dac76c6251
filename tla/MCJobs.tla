------------------------------- MODULE MCJobs -------------------------------
(***************************************************************************)
(* Instances of Jobs for TLC: an ingest and a graph_rebuild job of one     *)
(* domain (one lock, two jobs); a format and a reindex job of two domains  *)
(* (two domain locks, one chat model); one image ingest by itself, which   *)
(* takes all three locks; and one lint job.                                *)
(***************************************************************************)
EXTENDS Jobs, TLC

CONSTANTS j1, j2, d1, d2

OneDomainKind == (j1 :> "ingest" @@ j2 :> "graph_rebuild")
OneDomain     == (j1 :> d1 @@ j2 :> d1)

OneModelKind  == (j1 :> "format" @@ j2 :> "reindex")
TwoDomains    == (j1 :> d1 @@ j2 :> d2)

OneIngest     == (j1 :> "ingest")
OneLint       == (j1 :> "lint")
OneJobDomain  == (j1 :> d1)
=============================================================================
