----------------------------- MODULE MCArticles -----------------------------
(***************************************************************************)
(* Instances of Articles for TLC: two articles, users who create, edit and *)
(* roll back, and the three kinds of job.                                  *)
(***************************************************************************)
EXTENDS Articles, TLC

CONSTANTS s1, s2, new, edit, undo, draft, format, fix

Everybody ==
    (new :> "create" @@ edit :> "update" @@ undo :> "rollback"
     @@ draft :> "ingest" @@ format :> "format" @@ fix :> "fix")

KindOf == [w \in Writers |-> Everybody[w]]

\* No action and no property tells one slug from another.
SlugSymmetry == Permutations(Slugs)
=============================================================================
