----------------------------- MODULE MCNullSets -----------------------------
(* Rels up to 3 (a tail), one tag, two masks: sets of up to three runs,    *)
(* extended at both ends, shifted, and shifted again once materialised.    *)
EXTENDS NullSets

MCMask == {Always, {"end"}}
MCRuns == {Run(Always, 2, 2), Run({"end"}, 1, MaxRel)}
=============================================================================
