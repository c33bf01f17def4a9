# Saturnus: verification models

Saturnus is a Go server that runs code reviews of GitHub pull requests, asked
for in Lark chats. It executes review tools itself or on remote workers, posts
the results back, and keeps tasks, approvals and CI monitors beside them. This
directory holds TLA+ models of the parts that decide something, the TLC instances
that check them and the proofs TLAPS checks.

## The system

| Part | State it keeps | Operations | What is hard | What makes it correct |
|---|---|---|---|---|
| Review lifecycle (`internal/review/service.go`, `remote.go`, `refresh.go`, `internal/store`) | rows of `review_requests` and `review_runs`; per-review lock `syncLocks` | submit, retry, reset context, start (local, remote), result callback, completion, requeue, archive, recovery | late callbacks and completions of superseded runs; operations of two SQL statements and crashes between them | a reviewing review has exactly one running run, the newest, at its worker; only that run decides; verdict and session belong to the right run and context |
| Scheduler (`cmd/saturnus-server/scheduler.go`) | backoffs, a notification queue | dispatch, 30 s sweep, reconcile a hello, handle worker frames | decides from rows and in-flight sets that other goroutines change | every pending review is eventually served; what is bound to a worker is executing there or comes back |
| Hub (`internal/worker/hub.go`) | connections, time last heard, in-flight set per worker | accept, replace, send, read loop, close | dead connections that look alive, the old and the new connection of a worker | in-flight covers what the worker has; a lost connection is noticed |
| Worker client and executor (`internal/worker/client.go`, `internal/reviewworker`) | its connection, a job table keyed by review | hello, claim, run, complete, busy, heartbeat | completions sent while disconnected are dropped; reconnects with jobs running | one job per review; never over capacity |
| Checkout guard (`internal/keylock`, `internal/repopolicy`) | reference-counted keyed locks | lock up to three keys in turn, cancel, release | entry removal against a new locker; cancellation while a lock is handed over | mutual exclusion per checkout, no leaked key, no deadlock |
| Reactions (`service.go`, `remote.go`, `scheduler.go`) | rows of `review_reactions` | act, start, complete, requeue, execute locally | unlocked and unconditional writes; claims share frames and the job table with reviews | a reaction runs once at a time, where its session is, and its reviewer is told one outcome |
| Findings and inline comments (`internal/store`, `service.go`, `github.go`) | findings with the id of their comment, the mark `comments_posted_at`, requester notices | save, carry over, post, resolve, mark, notify | the comment exists before it is remembered; two attempts at once; a mark set long after its findings were read | each finding is posted once, and what is marked as posted is |
| Agent sessions and approvals (`internal/store`, `cmd/saturnus-agent`, `internal/policy`) | sessions, approval requests, decisions, auto-pass | register, ask, decide, decide by policy, poll, give up | a person, the policy and the agent's bounded wait at once | one decision per request, and every hook answers |
| Task synchronisation with Lark (`internal/tasks/lark.go`) | the task's link: reservation, remote id, group | create, join, update, link, reset | creation with an unknown outcome; edits and syncs in any order | no duplicate remote task; what a caller was told is shown, and in the end everything is |
| Task refresh (`internal/tasks`) | snapshots of a task's issue and PRs | sweep, refresh, bind, add, edit, close | long remote calls between a read and a write | operators' fields are kept; snapshots are of the bound issue and do not go back |
| PR CI monitor (`internal/prs`) | PR snapshots, checks, a monitoring switch | refresh, sweep, switch, collect, evaluate the policy | heads moving under a collection; a stale snapshot against a newer switch; reruns and missing jobs | the snapshot is of one head and catches up; the switch stays; a failure is never hidden |
| Token alerts (`internal/workermonitor`) | time of the last alert | check, send, mark | send, then mark | at least one alert |
| Lark messages and cards, Lark bridge, CloudOps, ghinfo, repoconfig, reviewlog, web console, chat commands and formatting | none that outlives a call | HTTP, parsing, rendering | - | not modelled |

How they interact: chat commands and HTTP handlers call the review service; the
service announces new work to the scheduler (`SetJobSink`); the scheduler picks
a worker and writes a claim through the hub, or hands the review to the
service's own worker pool; workers answer with frames that the hub's read loop,
one goroutine per connection, gives to `scheduler.OnEvent`, which calls back
into the service. The tool a worker runs posts its structured result to the
HTTP API on its own, at any time. A completed review is posted to the PR by the
goroutine that completes it, and by whoever asks for it again. The task and PR
services have a sweep each and share nothing with reviews but the tables. All
durable state is one SQLite database with a single connection, so a statement or
a transaction is atomic; the modules have one action for each, and one for each
call to GitHub or Lark, because everybody else may run while such a call waits.

## Modules

### ReviewLifecycle

The two tables, with one action per service operation. Each operation takes the
review's `syncLocks` key before its first read and holds it through its last
write, so it is a single step; callers are unconstrained. Operations made of
two SQL statements may be cut by a crash: `TornStart`, `TornRequeue` and
`TornRecovery` are the half-done operation followed by the restart, and the
history variable `torn` remembers which reviews it hit.

| Variable | Code |
|---|---|
| `mode` | `"distributed"` when `SetJobSink` installed a scheduler before `Start` (what the server does), `"local"` otherwise (what the service's tests do) |
| `row` | `review_requests`: status, worker_id, verdict, context, session_id |
| `runs` | `review_runs` in order of `seq`: status, worker_id, own verdict, context |
| `reports` | executors that will yet report: claims, running jobs, completions on their way |

`verdict` is the number of the run that submitted the recorded verdict and
`session` the number of the context the recorded tool session was made in, so
that the properties can tell whose they are; the code stores only the text.

Left out: callbacks and completions without a run id, which only workers of
earlier versions send; text columns; `process`'s whole-row `UpdateReview`, which
rewrites modelled columns with the values it has just read under the same lock;
the finish of a local run when no run is current, which no reachable state has;
whether a succeeded review's PR head has moved, which GitHub decides (a retry is
always allowed).

### Dispatch

Who really calls those operations. The scheduler goroutine is a program counter
(`sched`): `Pick` reads the row and the in-flight sets, `StartRemote`,
`AddInFlight` and `SendClaim` follow as separate steps, and connections, hellos
and completions may come in between. `RequeueOffline` is the sweep's orphan
recovery. The hub is `link` (its table of connections), `fresh` (heard from
within `onlineWindow`) and `inFlight`. Both directions of a websocket are
sequences, `up` and `down`. The worker is its end of the connection (`conn`,
with the job list of a hello read before the hello is sent), and its job table.
The lifecycle's `reports` is not a variable here; it is defined from the claims
held and sent, the jobs running and the completions on their way, and
`ImplementsLifecycle` says that with it `Dispatch` implements
`ReviewLifecycle!Spec`.

Handling a completion and clearing its in-flight entry are one step, although
comments and notices are sent between them: see "Other behaviour" for what that
hides. `Reactions` takes the two apart. Other steps are one although the code takes
several, each because nothing else reads or writes between them what they touch, or
because it only reads what the step leaves alone: requeueing an unsent claim and
clearing it (the scheduler goroutine alone reads the sets); `SetInFlight` and the listing of bound reviews in a hello's handler
(the requeues that follow are steps of their own, and hold up that connection's
next frame). Notifications are not modelled: they only bring a dispatch forward
that the sweep does anyway. `Connect` waits for reported jobs to have left the
table, because a client waits at least a second before it dials again. A worker
with a free slot that waits for its own checkout lock counts as running. Ties
between equally loaded workers are broken either way. Cancel frames are absent
because the server never sends one. Verdicts, sessions and contexts stay in the
lifecycle (`ResultRequired` is FALSE). The torn operations are only in the
lifecycle, too; the local pool's size is not modelled.

### RepoGuard

`repopolicy.Guard` on top of `keylock.Map`, for the jobs of one executor. An
entry is a heap object with a reference count and a one-slot channel, the gate;
the map forgets it with its last reference, so `table` (the map), `have` (the
pointers the goroutines keep) and `refs` are separate variables, and the model
can tell a stale pointer from the entry of the same key. What `Map.Lock` does
under its mutex (`Find`, `Create`, `Unref`), each channel operation (`Take`,
`PutToken`) and the outcome of the select are steps; `Cancel` may come between
any two. `Keys` is the guard's order: review, then repo and checkout under the
mutex policy. Entries are named after the key they are made for, with a number
that tells copies apart; an object nobody refers to may be handed out again.

### Reactions

What `Dispatch` is for reviews, for the reactions of one review. `row` has a
reaction's status, worker and the host of the session `Act` copied into it;
`home` is the review's `worker_id`, which `ReviewMoves` changes when a retry is
executed elsewhere (one step, from claim to outcome, under the conditions of the
scheduler's affinity). `Assign`, `AddInFlight`, `Send` and `RequeueUnsent` are
`dispatchReaction`; `EnqueueLocal`, `Begin`, `Start` and `Finish` are the server's
own executor, which rewrites the row whole; `TakeClaim`, `Complete` and `Remove`
are the worker; `Handle...` are `OnEvent`. A reaction is settled first and told of
afterwards: `HandleComplete` and `Finish` save the outcome, and the goroutine, one of
`telling`, sends the message in `Tell` and only then clears the in-flight entry, reads
its next frame or leaves the review's lock. In between the connection may be replaced
(`Outlives`), the server may die or the message may fail, which is only logged
(`missed`); a write of the executor's may fail, too, and the message still goes out
(`unsaved`). The message to the chat and the reply in its thread count as one; that
Lark is configured and the reviewer has a chat is assumed, for otherwise nobody is
told at all. The grain of the network is coarser
than in `Dispatch`: both ends of a connection break together. A worker's refusal
for capacity is answered like its refusal of a second job of the review. Left out is
a review whose row cannot be read, which fails its reactions before the lock.

Two more history variables name what the code does not recover. `reopened` has the
reactions the server's executor started after it had read them as pending and
the scheduler had given them away. `lost` has those left with a worker that will
not report them: a busy reply requeues the review, which is finished, and not
the reaction; a hello lists reviews, so that one reaction hides the loss of
another; a claim that arrives between a job's report and its removal from the
table is ignored as a duplicate.

### InlinePosting

From a run's result to the comments on its PR. A poster is a goroutine inside
`PostPRInlineComments`: `Complete` starts one for a run that succeeded,
`PostComments` one for a caller. `List` reads the findings, `Post`, `Reject`,
`AnswerLost` and `Resolve` are the calls to GitHub, `Save` is
`SetFindingCommentID`, and `SetCommentsPosted` the mark that stops later attempts.
`IngestRunResult` saves findings and carries old ones over, in whatever way the
tool names them. Only the completion of a remote run holds the review's lock
(`lock`) while it posts. `RecordNotice` and `FinishNotice` are the requester's
notice.

`excused` counts, per finding, the comments the code cannot know of: an attempt
that listed the finding while another one had it to post, a lost answer, a failed
save, a crash between the two. `results` and `marked` say which result the
attempt that set the mark had read.

Left out: archiving and context resets, which move the same columns a retry does;
a finished review is one status; how entries are matched by fingerprint; GitHub's
own view of a thread. A local run lost in a restart stays reviewing, as in the
code, and a notice that is pending when the server dies is never sent again.

### Approvals

The session's row, the approvals, the decisions, and two processes per request:
`handler` is `createApproval`, which evaluates the policy, creates the row and
decides it in three transactions, `hook` the codex hook (or `saturnus-agent
approval`) that asks, polls and gives up. `Decide` is any person at any time,
`Register` and `UpdateAutoPass` change auto-pass in between. Registering again
resets auto-pass to the agent's environment, and `expires_at` of an approval is
enforced nowhere; both are as in the code. A hook told `auto` in the reply itself
allows even if somebody denied first; that is why `DecidedOnce` binds only what a
polling hook was told.

### TaskRefresh

Two tasks, the issues they may be bound to and one PR. `proc` is the sweep or a
user inside `refresh`: `Enter` takes the task's lock and reads the row,
`FetchIssue`, `ReadLinks`, `BeginLookup`/`EndLookup` and `UseScope` are the remote
calls, with the PR's lock and the sweep's cache, `SavePR` and `SaveTask` the
guarded writes, `OutOfTime` the deadline. `AddPR` and `BindIssue` are under the
task's lock only, `Patch`, `Close` and `RemovePR` under none. GitHub's states are
numbered in the order they appear, and `clock` counts the lookups that have
ended, which is what `UpdatedAt` orders.

### LarkTaskSync

One task and its mirror in Lark. `Begin` is `SyncLark` under its lock up to the
first call; `Create`, `JoinGroup` and `Update` are the calls, each with the ways
it fails; `Link`, `LinkBinds` and `Reset` are the operator's recovery. Of Lark it
is assumed that one client token makes one task for longer than the four minutes
in which it is sent plus the time of a call, that a call given up on was carried
out before or never is, that an empty summary is rejected and that nobody edits
the task there. Of the operators it is assumed that one recovers at a time and
looks before resetting, which is what the message they get asks for, and that a
doubt ends with the reservation it is about: nobody deletes a reservation because of
one that is already gone (`Recover`, `Reset`). The code cannot tell the two apart,
see "Other behaviour". A completed Lark task is never opened again, as in the code.

### PRMonitor, PRChecks

`PRMonitor` is the service: `Enter`, `ReadMetadata`, `Collect`, `Recheck`, `Save`
are one refresh under the PR's lock; `Discover`, `HandOut`, `Cut`, `SweepEnds` the
periodic sweep over its pollers; `Switch` is `SetMonitoring`; `Look` is `Get`,
which reads the row and its checks without a lock. A head stands for the pair of
head and test-merge commit, and how far its checks got is a number. Attempts are
ordered as they are saved. `Cut` comes after one refresh at the earliest, because
the sweep has several times the time of a refresh. A PR that is neither by the
configured author nor open when last seen is not polled again; the code does the
same, so `Converges` says so in `Watched`.

`PRChecks` is what a collection means. GitHub's executions, the jobs of their
attempts and the statuses evolve freely on both commits of one PR, before and between
the calls of `Fetch`: `Begin`, `ListRuns` and, commit by commit, `ListJobs` and
`ListStatuses`, then `RecheckCommits`. An execution of the head may have its jobs on
the test-merge commit, as in `src/internal/prs/workflows_test.go:59-65`, so that the
jobs of two executions may share a key there. `Collected` and `Verdict` are
the functions `checks`, `Fetch`, `addUnrepresentedWorkflows` and `Policy.Evaluate` of
the lists. The properties are about GitHub's executions and jobs when the collection
ends, and about those that have stood since it began (`since` and `steady` are
history), so they are a definition of the right answer that does not mention items.
Left out: executions of a test-merge commit whose jobs are on the head, which no test
or comment speaks of, and a test-merge commit replaced by another, for which, as for
another head, `RecheckCommits` returns nothing.

### The modules of proofs

`DispatchProofs`, `TaskRefreshProofs`, `LarkTaskSyncProofs`, `InlinePostingProofs`,
`ReactionsProofs` and `ApprovalsProofs` hold the theorems about the modules they are
named after, `ReviewProofs` those about `ReviewLifecycle` and `RepoGuard`, and `PRProofs`
those about `PRMonitor` and `PRChecks`. The two of a pair share no variable; so that one
module can extend both, `RepoGuard`'s specification is called `GuardSpec` and that of
`PRChecks` `ChecksSpec`, with `Init`, `Next` and `vars` alike. See "Proofs".

### MC modules

`MCRepoGuard` adds the jobs and their keys, the others at most a symmetry set and
model values; the other constants are given values in the configurations.

## Runs

| Run | Instance | Shows |
|---|---|---|
| `lifecycle` | 1 review, 2 workers, 3 runs, 2 contexts, both modes, results required | type invariant, `Ownership`, `VerdictOfLatestRun`, `SessionInContext`, `PublishesOwnRun`, `SettledRunsKept`, `SuccessHasResult` |
| `dispatch_safety` | 1 review, 2 workers of capacity 2, local fallback, 2 runs, 2 faults | `UnspoiltIsExecuting`, `AwaitedIsCounted`, `ImplementsLifecycle` |
| `dispatch_live` | 2 reviews of one checkout, 1 worker of capacity 2, 2 runs each, 1 fault | `Settles`, `ServedUnlessPhantom` |
| `repo_guard` | 3 jobs, two of one review, the third of another repo in the same checkout; mutex policy | `MutualExclusion`, `TableExact`, `UnlockNeverBlocks`, `Served`, `CancelledGivesUp` |
| `pr_monitor` | 2 PRs, one of them the author's, 1 poller, 1 user, 2 changes at GitHub, 1 fault, 1 request | `SwitchKept`, `SnapshotOfOneMoment`, `ViewNotOlder`, `NeverRegresses`, `Converges` |
| `pr_checks` | 1 workflow, 2 jobs of which 1 is bypassed, 1 status, 2 executions, 2 jobs or reports, 2 events during the collection | `FailureIsVisible`, `BypassExcuses`, `SupersededNeverCounts`, `PassIsComplete` |
| `task_refresh` | 2 tasks, 2 issues, 1 sweep, 1 user, 1 change, 3 edits | `SeenIsOfBoundIssue`, `OperatorFieldsKept`, `RegressesOnlyByOverlap`, `ArchivedKeepsSnapshots` |
| `lark_task_sync` | 2 users and the refresh, 1 edit, 2 faults, 4 requests | `OneRemoteTask`, `ToldIsShown`, `OpenTaskConverges` |
| `approvals` | 2 requests, 1 of low risk, 3 switches of auto-pass, 2 faults | `DecidedOnce`, `HooksAnswer` |
| `reactions` | 2 reactions, 1 worker and the server, 1 move of the review, 1 fault | `AnsweredOnce`, `ReactionsSettle` |
| `inline_posting` | 2 posters, 2 findings, 2 runs, 1 call of `PostComments`, 1 fault | `OneCommentEach`, `MarkedArePosted` |
| `reaction_host` | violated: `RunsWhereItsSessionIs`, with 1 reaction | a waiting reaction follows its review to a host that does not have its session |

Why the bounds are enough to be of interest: reviews do not share rows, so one
review shows every interleaving of the lifecycle, and three runs give a settled
run, a superseded run whose worker still reports, and a newest run; two contexts
allow one reset between them. Two workers are the old and the new owner. In
`Dispatch` two faults allow a lost completion followed by a lost claim, or a
server restart around a broken connection; `MaxQueued` lets the local queue hold
a copy of a review that has been started remotely in the meantime. Two reviews
are needed where reviews meet, at a worker's capacity and at a checkout: that is
the liveness run. `MaxRuns`, `MaxContexts`, `MaxQueued` and `MaxFaults` are
bounds of the models only; the code has none of them. In
`RepoGuard` jobs loop for ever, so nothing is bounded but the number of jobs;
three of them contend for a first key and for a last one, and the copies of an
entry are two because a second one is the error to look for. The passing dispatch
properties were also explored with three runs of the review and two faults.
In `PRMonitor` the second change can undo or overtake the first while a refresh
of it is under way, and with two PRs of which the sweep may reach only one, the
other must get its turn. In `PRChecks` two executions are one that is superseded and
one that replaces it, or one of each commit with jobs of one key; two jobs are an
attempt and its rerun, a job and the one that shadows it, or a bypassed job beside
another; and two events are a rerun and its first job, between any two calls. Two
tasks share the sweep's cached lookup in `TaskRefresh`, and three edits are an
AddPR that overlaps it, a close and a restart or a rebinding. Four requests in
`LarkTaskSync` are a sync that fails, one that is told the outcome is uncertain,
the recovery and one more sync, with a fault to lose each of two answers; two
recoveries in a row take six and were explored with nine requests and three
faults, and `OneRemoteTaskHolds` covers every number. In
`Reactions` and `InlinePosting` one fault is one loss at any point (in `Reactions` of
a connection, a worker, the server, a write or a message), and two
posters are a completion and a caller, or the completions of two runs. All
`Max...` constants of these modules are bounds of the models only.
Where `CHECK_DEADLOCK FALSE` appears, a behaviour may end: no user has to ask
for another review once `MaxRuns` is used up.

Fairness (`Dispatch!Fairness`): goroutines that can run do; the 30 second sweep
dispatches every pending review it can and recovers orphans; a backoff lasts at
most half a minute; a job ends, by its timeout at the latest; frames on a live
connection are read in order; a lease that is not renewed expires. Nothing makes
a user ask, a worker connect, or a fault happen. Safety runs assume no fairness.
In `RepoGuard` each goroutine runs, and receiving the token is strongly fair,
because a Go channel serves waiting receivers first in, first out; nothing makes
a job inside leave, and `Served` says so in its premise.

`PRMonitor!FairSpec`: `Start` sweeps again after every interval, its pollers take
what they are handed, a refresh that nothing fails ends, and a waiting switch gets
its lock; requests, changes and faults need not happen and are bounded, so that
GitHub is quiet in the end. `LarkTaskSync!FairSpec`: handlers run on, and the
refresh comes round again. `Approvals!FairSpec`: handlers run on, replies arrive,
polls and the deadline come. `Reactions!Fairness` is `Dispatch!Fairness` for
reactions; a call to Lark ends, by its timeout of ten seconds at the latest;
assignment is strongly fair, because every sweep tries again while
the worker's connection may come and go. `TaskRefresh`, `PRChecks` and
`InlinePosting` are checked for safety only.

`Settles` and `UnspoiltIsExecuting` speak of reviews of which no earlier run
failed at the same worker: without that restriction a job of the failed run may
still be in the worker's table, and the hello, which names reviews, cannot tell
the two apart. `ServedUnlessPhantom` excepts workers for which the hub counts a
job that neither they nor the channel know. Both are under "Other behaviour".

## Findings

**A waiting reaction follows its review, not its session.** The comment in
`dispatchReaction` and `src/README.md` say that a reaction runs on the host that
produced the session it resumes. `dispatchReaction` takes the review's `worker_id`
of the moment, and the session from the reaction's row. When the review is
retried on another host before the reaction is dispatched, the reaction is
executed there, with a session that is a file of the first host (run
`reaction_host`).

Other behaviour worth a reviewer's time, visible in the models and behind the
exceptions their properties name:

- The server always installs a scheduler, so `Service.Start` does not fail
  interrupted reviews, and the sweep skips rows without a `worker_id`: a review
  the server was executing when it died stays reviewing, and a reaction running.
- `OnConnect` triggers a dispatch before the hello of the new connection is
  handled; the hello may then requeue a claim sent on that same connection.
- A hello names reviews, not runs: a worker that still executes a superseded run
  vouches for the newer one.
- A rejected completion, of a review or a reaction, is not cleared from the
  in-flight set, and its worker looks busy until it reconnects.
- An accepted completion is cleared only after its comments and notices have been
  sent. If the worker reconnects meanwhile, and the review is retried and claimed to it
  again, the old connection's goroutine clears the entry of the new run. `Dispatch`
  does not have this interleaving, and `AwaitedIsCounted` is not claimed for it.
- A settled reaction need not be told: the message follows the save, its failure is
  only logged, and a crash between the two is not made up for. And when the server's
  executor cannot save the end of a reaction, its reviewer is told of an outcome while
  the reaction stays running for ever (`AnsweredOnce` names both).
- A job of the head's execution that is reported on the test-merge commit has the key
  of the same job of the test-merge commit's own execution; the newer of the two is
  kept. A failure that counts may thus be shown as pending or not at all, and a
  bypassed job's as its execution's (`Shadowed`).
- An execution that is run again between the calls of a collection may be listed as
  failed and its bypassed job as pending: the PR is shown as FAIL for a bypassed
  failure until the next refresh (`BypassExcuses`).
- A failed review that was archived comes back as succeeded when its PR is
  reopened; a review whose requeue was torn by a crash keeps a running run, which
  refuses every context reset from then on.
- A `PostComments` that ends after the review was retried sets
  `comments_posted_at` for the new round: its completion then skips posting and a
  caller is told that everything is posted, although the new findings are not on
  the PR (`MarkedArePosted` says exactly when the mark can be trusted).
- A finding is commented twice when two attempts overlap, or when the comment's id
  is lost to a failed call, a failed write or a crash (`OneCommentEach`).
- A handler that approves by policy answers `auto` even if somebody denied the
  request in between (`DecidedOnce` leaves that answer out).
- A crash inside `LinkLark` leaves a reservation with an empty request, which no
  later sync can create.
- `reset-lark-create` deletes whichever unbound reservation it finds. An operator who
  was told that an earlier creation is uncertain, when another operator has reset
  that one and a new sync has reserved again, can delete the new reservation; if its
  creation's answer was lost, the next sync makes a second Lark task. It takes six
  requests and two lost answers, and was found as the step at which the proof of
  `OneRemoteTask` fails when the model allows it.

## Proofs

`ReviewProofs` proves of `ReviewLifecycle`, for any sets of reviews and workers and any
bounds, `TypeCorrect`, `OwnershipHolds`, `VerdictHolds`, `SessionHolds`,
`SettledRunsKeptHolds`, `PublishesOwnRunHolds` and `SuccessHasResultHolds`, each
`Spec => [](...)` or `Spec => [][...]_vars`, the same formulas the run
`lifecycle` checks. The assumptions are those of `ReviewLifecycle`: the empty
worker id is not a worker's, and the bounds are naturals.

The safety invariants are not inductive alone. `IInv` is the type invariant and,
for every review: an executor reports only a run that exists; in local mode no
run has a remote worker; a local executor that will yet report works on the
newest run of a review that is still its own; outside `torn`, ownership and the
fact that the row of a reviewing review has a verdict exactly when its newest
run has; the verdict fence and the session fence everywhere. Ownership needs the type invariant for the sequence updates;
`SessionInContext` needs the fence on running runs, because a session is only
captured later; `SuccessHasResult` needs ownership, because it is about the
newest run and the code publishes for the current one. Induction: one lemma per
action shows that the review it moves keeps its conjuncts and that every other
review is untouched; crashes change all reviews at once and have lemmas of their
own. The action properties follow from `IInv` and the same case split.

Of `RepoGuard` it proves `GuardTypeCorrect`, `GuardExcludes` (`MutualExclusion`),
`TableExactHolds` and `UnlockNeverBlocksHolds` for any finite set of jobs, any
keys and either policy. Assumed are that set's finiteness, which the reference
counts need, and that the prefixes keep review, repo and checkout keys apart.
`GuardInv` says that every entry a goroutine has is the one the
table has for its key, that different keys have different entries, that an
entry's count is the number of jobs that refer to its key, that the token is in
the gate exactly when nobody holds the key, and that at most one job does. Exclusion
alone is not inductive: it is the exact count that keeps the table from dropping
an entry under a waiter, and thus from making a second one.

`InlinePostingProofs` proves `OneCommentEachHolds` and `MarkedArePostedHolds`, for any finite set of posters and any number of findings, runs,
retries, calls of `PostComments` and faults. The posters are goroutines of one server
at a time, so that they are finitely many (`PostersAssumption`) is no restriction.
The number of comments is not inductive: whether one more may come depends on who has
listed the finding. `IInv` says:

- of each finding, the comments made and those that posters may still make are at most
  one and the excuses (`Accounted`, with the posters `Having` it on their list and
  those `Owing` its comment); and while no comment of it is remembered and nobody has
  it on the list, it has no more comments than excuses, so that the next attempt to
  list it is still free to make one;
- an attempt without an error that read the newest result has on its list whatever
  still wants a comment (`MissedNothing`), so the mark it sets is true of that result
  (`Marks`), and a starting local run that writes its row back does not set a mark that
  was cleared meanwhile (`Starting`);
- what a poster works on are findings there are, it goes through them from the first
  one, and it goes on to mark only when no error was recorded (`Working`, `Holder`).

`ReactionsProofs` proves `AnsweredOnceHolds`, for any reactions and workers and any
number of copies, moves and faults; that the empty `worker_id` is no worker's is an
assumption of `Reactions`. The property is not inductive: a reaction that was told, and
is still to be told by somebody, would be told twice. `IInv` has instead that an ended
reaction is exactly one of the three, told once, being told by one goroutine, or missed
(`Accounted`); and that a reaction the server's executor runs, or could not save, is
running at the server (`Executed`), whoever else has seen its row, since whatever a
worker's frame or loss changes is guarded by that worker's id. So whoever ends a
reaction finds it running and untold, and nobody ends it again; only the executor's own
first write is not guarded, and the reactions it opens again by that are the ones the
property excepts.

`ApprovalsProofs` proves `DecidedOnceHolds`, for any requests, any choice of those the
policy finds low, and either environment. It is about what is stored and what polls
read; the handler's own reply `auto` is left out. Its `IInv` relates, request by request,
the row to the decisions that were ever made and to what the hook heard: a pending
row has none, a decided row exactly its own, and the hook's answer is that one
(`Created`, `Recorded`, `Heard`).

`PRProofs` proves of `PRMonitor` `SwitchKeptHolds`, `SnapshotOfOneMomentHolds`,
`ViewNotOlderHolds` and `NeverRegressesHolds` for any finite set of PRs, any
pollers and users, and any number of changes at GitHub. Saved rows alone are not
inductive, because what a process writes was read long before. `IInv` adds that at
most one process is inside a PR (`Exclusive`, from its lock); that until it saves, the
row is what it read, and what it found at GitHub is of one moment and no older
than the row and its checks (`Relies`); that the sweep hands out tracked PRs only
(`Handing`); and that the row a viewer read named no newer checks than there are
when it reads them (`Seen`). GitHub only moves on, and a head's checks with it. The
action property is proved from `IInv` with one step for each writer.

Of `PRChecks` it proves `FailureIsVisibleHolds`, `BypassExcusesHolds`,
`SupersededNeverCountsHolds` and `PassIsCompleteHolds` for any workflows, jobs and
statuses, any bypass, any number of executions and attempts, and anything that happens
between the calls. The invariant (`ChecksInv`) has two parts. Of GitHub: ids are
unique and grow, every job is of an execution, on the commit that execution reports to,
and nothing is on a test-merge commit before there is one. Of the collection: a list
that has been taken holds everything of its commit that was there when the collection
began, as it is if it has stood since, and nothing that is gone by now; a job listed as
it no longer is has ended since. The work is in the functions: what is newest of its
key exists and is one, because ids are finite and unique; the items are exactly the
newest attempts, the newest statuses and the unrepresented conclusions; and the
verdict is the first of their results in the order of precedence, so one failing
item decides it.

`TaskRefreshProofs` proves `SeenIsOfBoundIssueHolds`, `OperatorFieldsKeptHolds`,
`RegressesOnlyByOverlapHolds` and `ArchivedKeepsSnapshotsHolds` for any finite set
of tasks, any issues and users. Its `IInv` says that a process inside a task is alone
there, so that the issue and the PR row it read are those still stored or gone
(`Exclusive`, `Relies`), and orders the lookups in time (`Times`): of all lookups
stored, cached, found or under way, one that began after another's end saw no less,
and two of refreshes never overlap, because they hold the PR's lock. A merge that
takes the later end can then go back only to a lookup that overlapped the one it
replaces, and one of the two is `AddPR`'s.

`DispatchProofs` proves `ImplementsLifecycleHolds`, `AwaitedIsCountedHolds`,
`UnspoiltIsExecutingHolds` and the lifecycle's `Ownership` (`OwnershipHolds`) for any
reviews and workers, any capacity, with and without a checkout of the server's own,
and any number of runs and faults. It assumes that the empty `worker_id` is no
worker's (`LocalAssumption`), which registration ensures. None of the three is
inductive, because every frame was written from a state that is gone when it is
read. `IInv` says:

- no operation is ever torn, and `Ownership` holds (`Rows`, `OwnershipKept`);
- a claim is in one place, once: held by the scheduler, on its way, a job, or a
  completion on its way (`Places`);
- who will yet report a run is the worker of that run, and nobody has published it;
  a local copy is of the newest run of a review that is still the server's (`Home`);
  if the review the scheduler holds is under way, it is the scheduler's own newest
  run (`HoldsNewest`);
- a review bound to a worker is in the in-flight set, or among those a hello is about
  to requeue, or the connection has not settled, or the scheduler is about to add it
  (`Counted`); and, unless a run of it failed there, its newest run is somewhere
  between the scheduler and the worker, or the next hello will not list it
  (`Covered`), so that it is requeued.

The two properties are `Counted` and `Covered` of a connection with no hello and no
requeue outstanding. In the refinement `Reports` is the set of runs whose claim is in
one of those places (`Meaning`). Requests are `Submit` and `Retry`; the scheduler
starts with `StartRemote`, the local pool uses `StartLocal` and `FinishLocal`; a
completion that is accepted is `CompleteRemoteRun`; a hello, a busy frame, a claim
that cannot be sent and a worker that is gone are `RequeueForOrphan`; stale
completions, lost frames and lost jobs are `LoseReports`; the server's restart is the
lifecycle's; and a step that only moves a claim is a stutter. That the review the
scheduler has picked is still its to start (`PickedFits`) is needed for `StartRemote`
only, and kept beside `IInv`.

`LarkTaskSyncProofs` proves `OneRemoteTaskHolds`, `ToldIsShownHolds` and `TypeCorrect`
for any users and groups, and any number of edits, faults and requests, from the
assumptions about Lark and the operators given above. The count of tasks is not
inductive: whether a second is made depends on what Lark remembers and on how old
the reservation is. `IInv` says that our task is the one the row's token stands for
or that no call can create one any more (`OnceOnly`), because one is bound or
because the reservation is too old and nobody who began in time is still at it
(`Stuck`); an operator's doubt and a reset under way imply `Stuck`, and the reset that
none of our tasks is in Lark (`Recovery`). With the lock, a call inside has loaded
the task no earlier than anything a caller was told (`Relies`).

Every safety invariant and action property that a run checks is also proved. Only
model-checked is liveness under fairness (`Settles`, `ServedUnlessPhantom`, `Served`,
`CancelledGivesUp`, `Converges`, `OpenTaskConverges`, `HooksAnswer`,
`ReactionsSettle`), which is out of reach of the prover. The type invariant of
`RepoGuard` and that of `LarkTaskSync` are proved and in no run; the definition
`TypeOK` of each other module is a statement of the shape of its state.

## Plan

Done: `ReviewLifecycle`, `Dispatch`, `RepoGuard`, `Reactions`, `InlinePosting`,
`Approvals`, `LarkTaskSync`, `TaskRefresh`, `PRMonitor`, `PRChecks`, and the
proofs about all of them. Next: resubmission (`submit`, `headChanged`) with the
columns `retryFinished` overwrites, and token alerts.

## Not modelled

- Token alerts (`workermonitor`): one goroutine, a send and a mark; a crash between
  them sends the alert again, which nothing promises to avoid.
- The lookup or creation of a PR's review by `submit`, the columns for names, threads
  and links, and the PR head that decides whether a succeeded review may be
  retried: the models start from a review id and let any retry happen.
- Findings' fingerprints and matching, prompts and the history they quote, task
  references, documents and sessions, events of agent sessions: rows written and
  shown, read by no decision the properties are about.
- HTTP and chat front ends, cards, rendering, the web console, the Lark bridge,
  CloudOps, configuration, logs: no state outlives a call.
- Tools, GitHub and Lark themselves: external, with every outcome left open.
