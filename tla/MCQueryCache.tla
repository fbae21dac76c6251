---------------------------- MODULE MCQueryCache ----------------------------
(***************************************************************************)
(* Instances of QueryCache for TLC: two queries that ask different         *)
(* questions, beside two ingests, a fix and a user's edit of one article,  *)
(* and up to two runs of gc.                                               *)
(***************************************************************************)
EXTENDS QueryCache, TLC

CONSTANTS s1, edit, draft, redraft, fix, r1, r2, q1, q2, g1, g2

Everybody == (edit :> "update" @@ draft :> "ingest" @@ redraft :> "ingest" @@ fix :> "fix")

KindOf == [w \in Writers |-> Everybody[w]]

AsksOf == [r \in Readers |-> IF r = r2 THEN q2 ELSE q1]

\* The two ingests are alike, the two runs of gc, and the two queries with their
\* questions.
Likes ==
    Permutations({draft, redraft}) \cup Permutations({g1, g2})
      \cup {p \in Permutations({r1, r2, q1, q2}) :
              \A r \in {r1, r2} : p[r] \in {r1, r2} /\ p[AsksOf[r]] = AsksOf[p[r]]}
=============================================================================
