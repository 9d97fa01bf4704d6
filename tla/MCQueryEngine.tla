--------------------------- MODULE MCQueryEngine ---------------------------
(* Small instances of QueryEngine for TLC: a pipeline and its sink, fed by one source or by two. *)
EXTENDS QueryEngine, TLC

CONSTANTS w1, w2, s1, s2

TwoWorkers == {w1, w2}
OneSource == {s1}
TwoSources == {s1, s2}

ChainSucc == <<{2}, {}>>
ChainSources == (s1 :> {1})
TwoSourcesIn == (s1 :> {1}) @@ (s2 :> {1})

WorkerSymmetry == Permutations(TwoWorkers)
=============================================================================
