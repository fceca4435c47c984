------------------------------- MODULE MCGitCache ------------------------------
(* GitCache on two tags and three commits, of which two have a submodule. *)
EXTENDS GitCache, TLC

CONSTANTS c1, c2, c3, s1, s2

MCCommits == {c1, c2, c3}
MCForward == {<<c1, c2>>, <<c1, c3>>, <<c2, c3>>}
MCSubs == (c1 :> s1) @@ (c2 :> s2) @@ (c3 :> None)
MCRemote == [n \in Names |-> IF n = "v1" THEN c1 ELSE c2]
MCMissing == [n \in Names |-> IF n = "v1" THEN c1 ELSE None]

================================================================================
