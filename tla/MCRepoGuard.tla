---------------------------- MODULE MCRepoGuard ----------------------------
(* A small instance of RepoGuard for TLC: j1 and j2 work for one review,   *)
(* j3 for a review of another repo that is mapped to the same checkout.    *)
EXTENDS RepoGuard, TLC

CONSTANTS j1, j2, j3

TheJobs == {j1, j2, j3}
TheKeys == {"review:1", "review:2", "repo:a", "repo:b", "checkout:x"}
TheReviewKey == [j \in TheJobs |-> IF j = j3 THEN "review:2" ELSE "review:1"]
TheRepoKey == [j \in TheJobs |-> IF j = j3 THEN "repo:b" ELSE "repo:a"]
TheCheckoutKey == [j \in TheJobs |-> "checkout:x"]
=============================================================================
