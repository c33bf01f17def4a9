-------------------------- MODULE ReviewLifecycle --------------------------
(***************************************************************************)
(* The durable life of PR reviews: the rows of review_requests and         *)
(* review_runs, and the service operations that move them.                 *)
(*                                                                         *)
(* Every operation below takes the review's syncLocks key before it reads  *)
(* and holds it until its last write, so it is one step here.  Some        *)
(* operations write in two SQL statements outside a transaction; the       *)
(* server may die between the two, and the Torn... actions are exactly     *)
(* those half-done operations followed by the restart.                     *)
(*                                                                         *)
(* Who calls the operations (scheduler, workers, chat users) is left open: *)
(* any caller may come at any time.  Dispatch.tla says who really does.    *)
(***************************************************************************)
EXTENDS Integers, Sequences

CONSTANTS
    Reviews,        \* review ids
    Workers,        \* ids of the remote workers
    Local,          \* the empty worker_id: a local run, or no run yet
    Modes,          \* ways the server may be set up, see mode
    ResultRequired, \* a result callback URL is configured (ResultAPIURL)
    MaxRuns,        \* bound on the runs of one review
    MaxContexts     \* bound on the tool-session contexts of one review

ASSUME LocalAssumption   == Local \notin Workers
ASSUME ModesAssumption   == Modes \subseteq {"distributed", "local"}
ASSUME ResultAssumption  == ResultRequired \in BOOLEAN
ASSUME BoundsAssumption  == MaxRuns \in Nat /\ MaxContexts \in Nat

VARIABLES
    mode,    \* "distributed" once a scheduler is installed (SetJobSink)
    row,     \* review id -> its review_requests row
    runs,    \* review id -> its review_runs rows, in order of seq
    reports, \* review id -> seqs of the runs whose executor will yet report
    torn     \* history: reviews with an operation cut in two by a crash

vars == <<mode, row, runs, reports, torn>>

Owners    == Workers \cup {Local}
RowStatus == {"absent", "pending", "reviewing", "succeeded", "failed", "archived"}
RunStatus == {"running", "succeeded", "failed"}

(***************************************************************************)
(* verdict is the seq of the run that submitted the recorded verdict, 0    *)
(* when there is none.  context numbers the tool-session namespaces of the *)
(* review (a reset opens the next one) and session is the namespace of the *)
(* recorded tool session, 0 when there is none.                            *)
(***************************************************************************)
Row == [status: RowStatus, worker: Owners, verdict: Nat, context: Nat \ {0}, session: Nat]

\* verdict: this run has submitted a structured result of its own.
Run == [status: RunStatus, worker: Owners, verdict: BOOLEAN, context: Nat \ {0}]

TypeOK ==
    /\ mode \in {"distributed", "local"}
    /\ row \in [Reviews -> Row]
    /\ runs \in [Reviews -> Seq(Run)]
    /\ reports \in [Reviews -> SUBSET Nat]
    /\ torn \subseteq Reviews

----------------------------------------------------------------------------
(* What the operations read. *)

Latest(r)  == Len(runs[r])
Running(r) == {k \in 1..Latest(r) : runs[r][k].status = "running"}

\* The running run with the highest seq.
IsCurrent(r, k) == k \in Running(r) /\ \A j \in Running(r) : j <= k

Finished(r) == row[r].status \in {"succeeded", "failed"}

\* Mutant of Outcome: forgets that a configured callback requires a result.
OutcomeByExit(r, k, ok) == IF ok THEN "succeeded" ELSE "failed"

(* Process exit zero is a success only with this run's own result. *)
Outcome(r, k, ok) ==
    IF ok /\ (ResultRequired => runs[r][k].verdict) THEN "succeeded" ELSE "failed"

----------------------------------------------------------------------------
(* What they write. *)

\* Mutant of Assigned: AssignReview forgets to clear the verdict.
AssignedKeepingVerdict(r, w) == [row[r] EXCEPT !.status = "reviewing", !.worker = w]

Requeued(r) == [row[r] EXCEPT !.status = "pending", !.verdict = 0]
Assigned(r, w) == [row[r] EXCEPT !.status = "reviewing", !.worker = w, !.verdict = 0]
Released(r) == [row[r] EXCEPT !.status = "pending", !.worker = Local]
NewRun(r, w) == [status |-> "running", worker |-> w, verdict |-> FALSE, context |-> row[r].context]

RemoteReports == UNION {{r} \X {k \in reports[r] : runs[r][k].worker # Local} : r \in Reviews}

Without(lost) == [r \in Reviews |-> {k \in reports[r] : <<r, k>> \notin lost}]

\* The executors that die with the server process are those of local runs.
SurvivingReports == [r \in Reviews |-> {k \in reports[r] : runs[r][k].worker # Local}]

----------------------------------------------------------------------------
Init ==
    /\ mode \in Modes
    /\ row = [r \in Reviews |-> [status |-> "absent", worker |-> Local, verdict |-> 0,
                                 context |-> 1, session |-> 0]]
    /\ runs = [r \in Reviews |-> <<>>]
    /\ reports = [r \in Reviews |-> {}]
    /\ torn = {}

\* submit, for a PR that has no review yet.
Submit(r) ==
    /\ row[r].status = "absent"
    /\ row' = [row EXCEPT ![r] = Requeued(r)]
    /\ UNCHANGED <<mode, runs, reports, torn>>

(* Retry, RetryOnReply, and submit for a PR already reviewed.  The worker  *)
(* of the last run stays on the row.  Whether a succeeded review may run   *)
(* again (its PR head moved) is decided outside, by GitHub.                *)
Retry(r) ==
    /\ Finished(r)
    /\ row' = [row EXCEPT ![r] = Requeued(r)]
    /\ UNCHANGED <<mode, runs, reports, torn>>

\* Mutant of ResetContext: does not look at the review's runs.
ResetContextUnguarded(r) ==
    /\ Finished(r)
    /\ row[r].context < MaxContexts
    /\ row' = [row EXCEPT ![r] = [Requeued(r) EXCEPT !.context = @ + 1, !.session = 0]]
    /\ UNCHANGED <<mode, runs, reports, torn>>

(* ResetContext: refused while any run of the review is marked running.    *)
ResetContext(r) ==
    /\ Finished(r)
    /\ Running(r) = {}
    /\ row[r].context < MaxContexts
    /\ row' = [row EXCEPT ![r] = [Requeued(r) EXCEPT !.context = @ + 1, !.session = 0]]
    /\ UNCHANGED <<mode, runs, reports, torn>>

\* AssignReview, then CreateReviewRun.
Start(r, w) ==
    /\ row[r].status = "pending"
    /\ Latest(r) < MaxRuns
    /\ row' = [row EXCEPT ![r] = Assigned(r, w)]
    /\ runs' = [runs EXCEPT ![r] = Append(@, NewRun(r, w))]
    /\ reports' = [reports EXCEPT ![r] = @ \cup {Latest(r) + 1}]
    /\ UNCHANGED <<mode, torn>>

StartRemote(r, w) == mode = "distributed" /\ w \in Workers /\ Start(r, w)

StartLocal(r) == Start(r, Local)

\* CreateReviewRun fails: a remote start hands the review back to the queue.
StartRemoteFails(r) ==
    /\ mode = "distributed"
    /\ row[r].status = "pending"
    /\ row' = [row EXCEPT ![r] = [Released(r) EXCEPT !.verdict = 0]]
    /\ UNCHANGED <<mode, runs, reports, torn>>

\* CreateReviewRun fails: a local start gives up on the review.
StartLocalFails(r) ==
    /\ row[r].status = "pending"
    /\ row' = [row EXCEPT ![r] = [Assigned(r, Local) EXCEPT !.status = "failed"]]
    /\ UNCHANGED <<mode, runs, reports, torn>>

(* IngestRunResult: the tool of run k posts its result.  The tool outlives *)
(* its run, its worker's ownership and even the server, so any run may     *)
(* post at any time; this is the post that is accepted.                    *)
IngestRunResult(r, k) ==
    /\ k = Latest(r) /\ k > 0
    /\ runs[r][k].status \in {"running", "succeeded"}
    /\ ~runs[r][k].verdict
    /\ \/ row[r].status = "reviewing"
       \/ row[r].status = "succeeded" /\ row[r].verdict = 0
    /\ runs' = [runs EXCEPT ![r][k].verdict = TRUE]
    /\ row' = [row EXCEPT ![r].verdict = k]
    /\ UNCHANGED <<mode, reports, torn>>

\* CompleteReviewRun: review and run get their outcome in one transaction.
Publish(r, k, outcome, session) ==
    /\ row' = [row EXCEPT ![r].status = outcome, ![r].session = session]
    /\ runs' = [runs EXCEPT ![r][k].status = outcome, ![r][k].verdict = row[r].verdict # 0]

\* The tool may have captured a session, in the namespace its run was given.
CapturedSession(r, k) == {row[r].session, runs[r][k].context}

\* Mutant of Accepts: any run of the worker that owns the review will do.
AcceptsAnyRunOfOwner(r, k) ==
    row[r].status = "reviewing" /\ row[r].worker = runs[r][k].worker

(* CompleteRemoteRun: run k's worker reports.  Accepted for the current    *)
(* run of a review that its worker still owns, dropped otherwise.          *)
Accepts(r, k) ==
    /\ IsCurrent(r, k)
    /\ row[r].status = "reviewing"
    /\ row[r].worker = runs[r][k].worker

CompleteRemoteRun(r, k, ok) ==
    /\ k \in reports[r] /\ runs[r][k].worker # Local
    /\ Accepts(r, k)
    /\ \E s \in CapturedSession(r, k) : Publish(r, k, Outcome(r, k, ok), s)
    /\ reports' = [reports EXCEPT ![r] = @ \ {k}]
    /\ UNCHANGED <<mode, torn>>

DropStaleCompletion(r, k) ==
    /\ k \in reports[r] /\ runs[r][k].worker # Local
    /\ ~Accepts(r, k)
    /\ reports' = [reports EXCEPT ![r] = @ \ {k}]
    /\ UNCHANGED <<mode, row, runs, torn>>

\* Workers die, claims never reach them, or their reports are lost.
LoseReports(lost) ==
    /\ lost \subseteq RemoteReports
    /\ reports' = Without(lost)
    /\ UNCHANGED <<mode, row, runs, torn>>

\* process: the local tool's session is recorded as soon as it exits.
SetReviewSession(r, k) ==
    /\ k \in reports[r] /\ runs[r][k].worker = Local
    /\ row[r].status = "reviewing"
    /\ row' = [row EXCEPT ![r].session = runs[r][k].context]
    /\ UNCHANGED <<mode, runs, reports, torn>>

(* finish: a local executor is not fenced by its run.  It publishes for    *)
(* whatever run c is current, on a row that is still bound to no worker.   *)
FinishLocal(r, k, ok) ==
    /\ k \in reports[r] /\ runs[r][k].worker = Local
    /\ row[r].status = "reviewing" /\ row[r].worker = Local
    /\ \E c \in Running(r) :
          /\ IsCurrent(r, c) /\ runs[r][c].worker = Local
          /\ Publish(r, c, Outcome(r, c, ok), row[r].session)
    /\ reports' = [reports EXCEPT ![r] = @ \ {k}]
    /\ UNCHANGED <<mode, torn>>

\* Mutants of FailCurrentRun: only requeues the row; queues the run, too.
KeepCurrentRun(r) == runs' = [runs EXCEPT ![r] = @]

RequeueCurrentRun(r) ==
    runs' = [runs EXCEPT ![r] = [k \in 1..Latest(r) |->
                IF IsCurrent(r, k) THEN [@[k] EXCEPT !.status = "pending"] ELSE @[k]]]

(* RequeueForOrphan: the row goes back to the queue, then its current run  *)
(* is marked failed.  The worker that ran it may well go on running it.    *)
FailCurrentRun(r) ==
    runs' = [runs EXCEPT ![r] = [k \in 1..Latest(r) |->
                IF IsCurrent(r, k) THEN [@[k] EXCEPT !.status = "failed"] ELSE @[k]]]

RequeueForOrphan(r, w) ==
    /\ row[r].status = "reviewing" /\ row[r].worker = w
    /\ row' = [row EXCEPT ![r] = Released(r)]
    /\ FailCurrentRun(r)
    /\ UNCHANGED <<mode, reports, torn>>

\* syncReview: GitHub says merged or closed.
Archive(r) ==
    /\ Finished(r)
    /\ row' = [row EXCEPT ![r].status = "archived"]
    /\ UNCHANGED <<mode, runs, reports, torn>>

\* syncReview: GitHub says the PR is open again.
Unarchive(r) ==
    /\ row[r].status = "archived"
    /\ row' = [row EXCEPT ![r].status = "succeeded"]
    /\ UNCHANGED <<mode, runs, reports, torn>>

----------------------------------------------------------------------------
(* The server dies and starts again. *)

\* FailInterruptedReviews, which Start calls only when no scheduler is installed.
Recovered(rows) ==
    [r \in Reviews |-> IF mode = "local" /\ rows[r].status = "reviewing"
                       THEN [rows[r] EXCEPT !.status = "failed"] ELSE rows[r]]

\* Mutant of RecoveredRuns: fails every run of an interrupted review.
RecoveredAllRuns(rows) ==
    [r \in Reviews |-> [k \in 1..Latest(r) |->
        IF mode = "local" /\ rows[r].status = "reviewing"
        THEN [runs[r][k] EXCEPT !.status = "failed"] ELSE runs[r][k]]]

RecoveredRuns(rows) ==
    [r \in Reviews |-> IF mode = "local" /\ rows[r].status = "reviewing"
                       THEN [k \in 1..Latest(r) |->
                               IF k \in Running(r) THEN [runs[r][k] EXCEPT !.status = "failed"]
                                                   ELSE runs[r][k]]
                       ELSE runs[r]]

\* The restart of a server that left these rows behind, and lost its connections.
RestartWith(rows) ==
    /\ row' = Recovered(rows)
    /\ runs' = RecoveredRuns(rows)
    /\ \E lost \in SUBSET RemoteReports :
          reports' = [r \in Reviews |-> SurvivingReports[r] \cap Without(lost)[r]]
    /\ UNCHANGED mode

Restart ==
    /\ RestartWith(row)
    /\ UNCHANGED torn

\* Dies between AssignReview and CreateReviewRun.
TornStart(r, w) ==
    /\ row[r].status = "pending"
    /\ w # Local => mode = "distributed"
    /\ RestartWith([row EXCEPT ![r] = Assigned(r, w)])
    /\ torn' = torn \cup {r}

\* Dies between RequeueReview and UpdateReviewRun.
TornRequeue(r, w) ==
    /\ row[r].status = "reviewing" /\ row[r].worker = w
    /\ RestartWith([row EXCEPT ![r] = Released(r)])
    /\ torn' = torn \cup {r}

\* Dies in FailInterruptedReviews, between its two statements for r.
TornRecovery(r) ==
    /\ mode = "local"
    /\ row[r].status = "reviewing"
    /\ RestartWith([row EXCEPT ![r].status = "failed"])
    /\ torn' = torn \cup {r}

----------------------------------------------------------------------------
Operation(r) ==
    \/ Submit(r)
    \/ Retry(r)
    \/ ResetContext(r)
    \/ \E w \in Workers : StartRemote(r, w)
    \/ StartLocal(r)
    \/ StartRemoteFails(r)
    \/ StartLocalFails(r)
    \/ \E k \in 1..Latest(r) : IngestRunResult(r, k)
    \/ \E k \in reports[r], ok \in BOOLEAN : CompleteRemoteRun(r, k, ok)
    \/ \E k \in reports[r] : DropStaleCompletion(r, k)
    \/ \E k \in reports[r] : SetReviewSession(r, k)
    \/ \E k \in reports[r], ok \in BOOLEAN : FinishLocal(r, k, ok)
    \/ \E w \in Workers : RequeueForOrphan(r, w)
    \/ Archive(r)
    \/ Unarchive(r)

Torn(r) ==
    \/ \E w \in Owners : TornStart(r, w)
    \/ \E w \in Workers : TornRequeue(r, w)
    \/ TornRecovery(r)

Next ==
    \/ \E r \in Reviews : Operation(r)
    \/ \E lost \in SUBSET RemoteReports : LoseReports(lost)
    \/ Restart
    \/ \E r \in Reviews : Torn(r)

Spec == Init /\ [][Next]_vars

----------------------------------------------------------------------------
(* Properties. *)

(* A review is "reviewing" exactly while one of its runs is running; that  *)
(* run is its newest one and belongs to the worker the row is bound to.    *)
(* A crash between the two statements of an operation is the one way out:  *)
(* StartRemote, CompleteRemoteRun and RequeueForOrphan each write the row  *)
(* and the run separately from what another caller reads.                  *)
OwnershipOf(r) ==
    IF row[r].status = "reviewing"
    THEN /\ Latest(r) > 0
         /\ Running(r) = {Latest(r)}
         /\ runs[r][Latest(r)].worker = row[r].worker
    ELSE Running(r) = {}

Ownership == \A r \in Reviews \ torn : OwnershipOf(r)

(* The verdict on the row was submitted by the newest run, whatever was    *)
(* requeued, retried, reset or cut in two since: IngestRunResult's fence   *)
(* and AssignReview's clearing of verdict together.                        *)
VerdictFence(r) ==
    row[r].verdict # 0 => row[r].verdict = Latest(r) /\ runs[r][Latest(r)].verdict

VerdictOfLatestRun == \A r \in Reviews : VerdictFence(r)

(* The recorded tool session belongs to the current context, and so will   *)
(* any session a running run still captures: a reset really detaches the   *)
(* old conversation (ResetReviewContext refuses while a run is running).   *)
SessionFence(r) ==
    /\ row[r].session \in {0, row[r].context}
    /\ \A k \in Running(r) : runs[r][k].context = row[r].context

SessionInContext == \A r \in Reviews : SessionFence(r)

(* A worker's report that settles a review is the report of its current    *)
(* run, and settles that run with the same outcome: a superseded worker's  *)
(* late completion never decides a review handed to someone else since.    *)
PublishesOwnRun ==
    [][\A r \in Reviews : \A k \in reports[r] \ reports'[r] :
          /\ runs[r][k].worker # Local
          /\ row[r].status = "reviewing" /\ row'[r].status \in {"succeeded", "failed"}
          => IsCurrent(r, k) /\ runs'[r][k].status = row'[r].status]_vars

(* Once a run has ended nothing rewrites its outcome, its worker or its    *)
(* context, nor takes its verdict away, and no run is ever removed: the    *)
(* history a retry or an affinity lookup reads is append-only.             *)
SettledRunsKept ==
    [][\A r \in Reviews : \A k \in 1..Latest(r) :
          /\ Latest(r)' >= Latest(r)
          /\ k \notin Running(r) =>
                runs'[r][k] \in {runs[r][k], [runs[r][k] EXCEPT !.verdict = TRUE]}]_vars

(* When a result callback is configured, a review only becomes succeeded   *)
(* on a verdict its own newest run submitted: exit zero, or the verdict of *)
(* an earlier round, is not enough (completionResult).                     *)
SuccessHasResult ==
    [][\A r \in Reviews \ torn :
          ResultRequired /\ row[r].status = "reviewing" /\ row'[r].status = "succeeded"
          => row'[r].verdict = Latest(r) /\ runs'[r][Latest(r)].verdict]_vars
=============================================================================
