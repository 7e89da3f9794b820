------------------------- MODULE MCMirrorReconciler -------------------------
(* Small sets of sources for the model checker.                            *)
EXTENDS MirrorReconciler

CONSTANTS c1, c2, w1

MCLabels(cs) == {[cluster |-> c, workload |-> w1] : c \in cs}

MCReleases ==
  {[cluster |-> c1, workload |-> w1, chart |-> None, version |-> None],
   [cluster |-> c1, workload |-> w1, chart |-> "x", version |-> "1"],
   [cluster |-> c2, workload |-> w1, chart |-> "x", version |-> "2"]}

MCWorktrees ==
  {[url |-> None, ref |-> "main", commit |-> None],
   [url |-> "u", ref |-> "main", commit |-> None],
   [url |-> "u", ref |-> "main", commit |-> "a"]}

MCBodies ==
  [k \in Kinds |-> CASE k = "HelmRelease" -> MCReleases
                     [] k = "Worktree" -> MCWorktrees
                     [] k = "Kustomization" -> MCLabels({c1, c2, None})
                     [] k = "HelmRepository" -> MCLabels({c1})
                     [] k = "OCIRepository" -> MCLabels({c1, c2})]
=============================================================================
