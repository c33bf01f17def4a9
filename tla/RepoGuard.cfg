SPECIFICATION FairSpec
CONSTANTS
    j1 = j1
    j2 = j2
    j3 = j3
    Jobs <- TheJobs
    Key <- TheKeys
    ReviewKey <- TheReviewKey
    RepoKey <- TheRepoKey
    CheckoutKey <- TheCheckoutKey
    Policy = "mutex"
    Copies = {1, 2}
    None = None
INVARIANT MutualExclusion
INVARIANT TableExact
INVARIANT UnlockNeverBlocks
PROPERTY Served
PROPERTY CancelledGivesUp
