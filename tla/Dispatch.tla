------------------------------ MODULE Dispatch ------------------------------
(***************************************************************************)
(* How reviews reach remote workers and how their outcome comes back: the  *)
(* scheduler goroutine, the hub's connections and in-flight sets, the two  *)
(* directions of a worker's websocket, and the worker's own job table.     *)
(*                                                                         *)
(* ReviewLifecycle lets any caller do any operation at any time.  Here the *)
(* callers are the real ones, and the whole is shown to be a lifecycle: an *)
(* executor that will yet report is a claim the scheduler still holds, a   *)
(* claim on its way, a running job, or a completion on its way.            *)
(*                                                                         *)
(* Verdicts, sessions and contexts are the lifecycle's business: here no   *)
(* result callback is configured.  Cancel frames are not modelled because  *)
(* no code sends one.                                                      *)
(***************************************************************************)
EXTENDS Integers, Sequences, FiniteSets

CONSTANTS
    Reviews,       \* review ids
    Workers,       \* ids of the registered workers, all of which serve every repo
    Local,         \* the empty worker_id
    Collisions,    \* pairs {q, r} of reviews of one checkout, under policy mutex
    MaxConcurrent, \* jobs a worker runs at once
    LocalFallback, \* the server has a checkout of its own (LocalAvailable)
    MaxRuns,       \* bound on the runs of one review
    MaxQueued,     \* bound on the copies of one review in the local queue
    MaxFaults      \* bound on the faults of a behaviour, see Fault

ASSUME LocalAssumption    == Local \notin Workers
ASSUME CapacityAssumption == MaxConcurrent \in Nat \ {0} /\ LocalFallback \in BOOLEAN
ASSUME CollisionsAssumption == Collisions \subseteq SUBSET Reviews
ASSUME FaultsAssumption   == MaxQueued \in Nat /\ MaxFaults \in Nat

VARIABLES
    mode, row, runs, torn, \* the tables, as in ReviewLifecycle
    sched,      \* where the scheduler goroutine stands, and on which job
    inFlight,   \* hub: worker -> review ids it counts as dispatched there
    link,       \* hub: workers with an entry in the table of connections
    fresh,      \* hub: workers heard from within the lease (onlineWindow)
    backoff,    \* scheduler: workers not to be claimed for a while
    todo,       \* worker -> reviews its hello's handler has yet to requeue
    conn,       \* worker's end: "closed", "open", "listed" or "ready"
    listed,     \* worker -> the job list it puts in its next hello
    up,         \* worker -> frames on their way to the server
    down,       \* worker -> claims on their way to the worker
    jobs,       \* worker -> its job table: at most one entry per review
    queue,      \* review -> copies of it in the local pool's queue
    locals,     \* runs the local pool is executing
    faults      \* how many faults there have been

tables  == <<mode, row, runs, torn>>
hub     == <<inFlight, link, fresh, backoff, todo>>
channel == <<up, down>>
worker  == <<conn, listed, jobs>>
pool    == <<queue, locals>>
vars    == <<tables, sched, hub, channel, worker, pool, faults>>

----------------------------------------------------------------------------
(* The lifecycle this implements. *)

RunsOf(r) == 1..Len(runs[r])

\* JobPayload, of which the scheduler later asks only whose run it is.
Claims == [review: Reviews, run: Nat \ {0}]

\* Claims the scheduler has made and not sent yet.
Held == IF sched.pc \in {"started", "added"} THEN {[review |-> sched.review, run |-> sched.run]}
                                              ELSE {}

Elements(s) == {s[i] : i \in 1..Len(s)}

Completions(w) == {f \in Elements(up[w]) : f.type = "complete"}

Executing(w, r, k) == [review |-> r, run |-> k, phase |-> "running"] \in jobs[w]

Reports == [r \in Reviews |-> {k \in RunsOf(r) :
    \/ [review |-> r, run |-> k] \in Held
    \/ [review |-> r, run |-> k] \in locals
    \/ \E w \in Workers :
          \/ [review |-> r, run |-> k] \in Elements(down[w])
          \/ Executing(w, r, k)
          \/ \E f \in Completions(w) : f.review = r /\ f.run = k}]

Life == INSTANCE ReviewLifecycle
            WITH reports <- Reports, Modes <- {"distributed"}, ResultRequired <- FALSE,
                 MaxContexts <- 1

----------------------------------------------------------------------------
TypeOK ==
    /\ mode = "distributed"
    /\ row \in [Reviews -> Life!Row]
    /\ \A r \in Reviews : Elements(runs[r]) \subseteq Life!Run
    /\ sched \in [pc: {"idle"}] \cup [pc: {"picked"}, review: Reviews, worker: Workers]
                 \cup [pc: {"started", "added", "failed"}, review: Reviews, worker: Workers,
                       run: Nat \ {0}]
    /\ inFlight \in [Workers -> SUBSET Reviews]
    /\ link \subseteq Workers /\ fresh \subseteq Workers /\ backoff \subseteq Workers
    /\ todo \in [Workers -> SUBSET Reviews]
    /\ conn \in [Workers -> {"closed", "open", "listed", "ready"}]
    /\ listed \in [Workers -> SUBSET Reviews]
    /\ \A w \in Workers :
          /\ Elements(up[w]) \subseteq [type: {"hello"}, list: SUBSET Reviews]
                \cup [type: {"complete"}, review: Reviews, run: Nat] \cup [type: {"busy"}, review: Reviews]
          /\ Elements(down[w]) \subseteq Claims
          /\ jobs[w] \subseteq [review: Reviews, run: Nat, phase: {"running", "reported"}]
          /\ Cardinality(jobs[w]) <= MaxConcurrent
          /\ \A i, j \in jobs[w] : i.review = j.review => i = j
    /\ queue \in [Reviews -> 0..MaxQueued]
    /\ locals \subseteq Claims
    /\ faults \in 0..MaxFaults

Idle == [pc |-> "idle"]

Init ==
    /\ Life!Init
    /\ sched = Idle
    /\ inFlight = [w \in Workers |-> {}]
    /\ link = {} /\ fresh = {} /\ backoff = {}
    /\ todo = [w \in Workers |-> {}]
    /\ conn = [w \in Workers |-> "closed"]
    /\ listed = [w \in Workers |-> {}]
    /\ up = [w \in Workers |-> <<>>] /\ down = [w \in Workers |-> <<>>]
    /\ jobs = [w \in Workers |-> {}]
    /\ queue = [r \in Reviews |-> 0]
    /\ locals = {}
    /\ faults = 0

\* A fault: something the environment does, and need not do.
Fault == faults < MaxFaults /\ faults' = faults + 1

----------------------------------------------------------------------------
(* The chat users and GitHub. *)

Request(r) ==
    /\ row[r].status \in {"absent", "succeeded", "failed"}
    /\ Len(runs[r]) < MaxRuns
    /\ row' = [row EXCEPT ![r] = Life!Requeued(r)]
    /\ UNCHANGED <<mode, runs, torn, sched, hub, channel, worker, pool, faults>>

----------------------------------------------------------------------------
(* The scheduler goroutine: dispatchReview, called by the sweep or for a   *)
(* notification, and the sweep's recovery of orphans.  Only this goroutine *)
(* reads the in-flight sets; events and connections change them meanwhile. *)

Bound(r, w) == row[r].status = "reviewing" /\ row[r].worker = w

\* Mutant of Healthy: a connection is enough.
HealthyIfLinked(w) == w \in link

\* workerHealthy.
Healthy(w) == w \in link /\ w \in fresh

\* workerHasCapacity.
HasCapacity(w, r) ==
    /\ Cardinality(inFlight[w]) < MaxConcurrent
    /\ \A q \in inFlight[w] : q # r /\ {q, r} \notin Collisions

Candidates(r) == {w \in Workers : Healthy(w) /\ w \notin backoff /\ HasCapacity(w, r)}

RemoteRuns(r) == {k \in RunsOf(r) : runs[r][k].worker # Local}

\* LastRunWorkerID.
Affinity(r) == {runs[r][k].worker : k \in {j \in RemoteRuns(r) : \A i \in RemoteRuns(r) : i <= j}}

\* The host of the last run when it is a candidate, else one of the least loaded.
Preferred(r) ==
    IF Affinity(r) \cap Candidates(r) # {} THEN Affinity(r) \cap Candidates(r)
    ELSE {w \in Candidates(r) :
             \A v \in Candidates(r) : Cardinality(inFlight[w]) <= Cardinality(inFlight[v])}

\* pickReviewWorker, for a review just read as pending.
Pick(r, w) ==
    /\ sched = Idle
    /\ row[r].status = "pending"
    /\ Len(runs[r]) < MaxRuns
    /\ w \in Preferred(r)
    /\ sched' = [pc |-> "picked", review |-> r, worker |-> w]
    /\ UNCHANGED <<tables, hub, channel, worker, pool, faults>>

\* StartRemote.
StartRemote ==
    /\ sched.pc = "picked"
    /\ LET r == sched.review
           w == sched.worker
       IN  IF row[r].status = "pending"
           THEN /\ row' = [row EXCEPT ![r] = Life!Assigned(r, w)]
                /\ runs' = [runs EXCEPT ![r] = Append(@, Life!NewRun(r, w))]
                /\ sched' = [pc |-> "started", review |-> r, worker |-> w, run |-> Len(runs[r]) + 1]
           ELSE /\ sched' = Idle
                /\ UNCHANGED <<row, runs>>
    /\ UNCHANGED <<mode, torn, hub, channel, worker, pool, faults>>

AddInFlight ==
    /\ sched.pc = "started"
    /\ inFlight' = [inFlight EXCEPT ![sched.worker] = @ \cup {sched.review}]
    /\ sched' = [sched EXCEPT !.pc = "added"]
    /\ UNCHANGED <<tables, link, fresh, backoff, todo, channel, worker, pool, faults>>

\* The claim is written; on a connection the worker has left it goes nowhere.
SendClaim ==
    /\ sched.pc = "added"
    /\ sched.worker \in link
    /\ down' = IF conn[sched.worker] = "closed" THEN down
               ELSE [down EXCEPT ![sched.worker] =
                        Append(@, [review |-> sched.review, run |-> sched.run])]
    /\ sched' = Idle
    /\ UNCHANGED <<tables, hub, up, worker, pool, faults>>

SendFails ==
    /\ sched.pc = "added"
    /\ sched.worker \notin link \/ conn[sched.worker] = "closed"
    /\ sched' = [sched EXCEPT !.pc = "failed"]
    /\ UNCHANGED <<tables, hub, channel, worker, pool, faults>>

\* RequeueForOrphan, the whole of it.
Requeue(r) ==
    /\ row' = [row EXCEPT ![r] = Life!Released(r)]
    /\ Life!FailCurrentRun(r)

\* RequeueForOrphan does nothing unless the review is still bound to w.
RequeueIfBound(r, w) == IF Bound(r, w) THEN Requeue(r) ELSE UNCHANGED <<row, runs>>

RequeueUnsent ==
    /\ sched.pc = "failed"
    /\ backoff' = backoff \cup {sched.worker}
    /\ inFlight' = [inFlight EXCEPT ![sched.worker] = @ \ {sched.review}]
    /\ RequeueIfBound(sched.review, sched.worker)
    /\ sched' = Idle
    /\ UNCHANGED <<mode, torn, link, fresh, todo, channel, worker, pool, faults>>

\* reconcile: a review of a worker that is gone goes back to the queue.
RequeueOffline(r, w) ==
    /\ sched = Idle
    /\ Bound(r, w)
    /\ ~Healthy(w)
    /\ Requeue(r)
    /\ UNCHANGED <<mode, torn, sched, hub, channel, worker, pool, faults>>

\* Mutant of BackoffEnds: only a new connection ends a backoff.
BackoffNeverEnds(w) == w \in backoff /\ UNCHANGED vars

BackoffEnds(w) ==
    /\ w \in backoff
    /\ backoff' = backoff \ {w}
    /\ UNCHANGED <<tables, sched, inFlight, link, fresh, todo, channel, worker, pool, faults>>

----------------------------------------------------------------------------
(* The server's own executor, when no healthy worker serves the repo. *)

EnqueueLocal(r) ==
    /\ LocalFallback
    /\ sched = Idle
    /\ row[r].status = "pending"
    /\ \A w \in Workers : ~Healthy(w)
    /\ queue[r] < MaxQueued
    /\ queue' = [queue EXCEPT ![r] = @ + 1]
    /\ UNCHANGED <<tables, sched, hub, channel, worker, locals, faults>>

\* process, up to the start of the tool: a copy may find the review taken.
StartLocal(r) ==
    /\ queue[r] > 0
    /\ queue' = [queue EXCEPT ![r] = @ - 1]
    /\ IF row[r].status = "pending"
       THEN /\ Len(runs[r]) < MaxRuns
            /\ row' = [row EXCEPT ![r] = Life!Assigned(r, Local)]
            /\ runs' = [runs EXCEPT ![r] = Append(@, Life!NewRun(r, Local))]
            /\ locals' = locals \cup {[review |-> r, run |-> Len(runs[r]) + 1]}
       ELSE UNCHANGED <<row, runs, locals>>
    /\ UNCHANGED <<mode, torn, sched, hub, channel, worker, faults>>

FinishLocal(r, k, ok) ==
    /\ [review |-> r, run |-> k] \in locals
    /\ Bound(r, Local)
    /\ \E c \in RunsOf(r) :
          /\ Life!IsCurrent(r, c) /\ runs[r][c].worker = Local
          /\ Life!Publish(r, c, Life!Outcome(r, c, ok), row[r].session)
    /\ locals' = locals \ {[review |-> r, run |-> k]}
    /\ UNCHANGED <<mode, torn, sched, hub, channel, worker, queue, faults>>

----------------------------------------------------------------------------
(* The worker: its connection, its job table and its jobs. *)

Reviewed(w) == {j.review : j \in jobs[w]}

\* Client.Send: without a connection the frame is dropped.
Reply(w, f) == up' = IF conn[w] = "closed" THEN up ELSE [up EXCEPT ![w] = Append(@, f)]

(* ServeWS and OnConnect.  The client has waited a second or more since    *)
(* its last connection broke, a job that has reported leaves the table at  *)
(* once.  Frames the old connection still had are gone.                    *)
Connect(w) ==
    /\ conn[w] = "closed"
    /\ \A j \in jobs[w] : j.phase = "running"
    /\ conn' = [conn EXCEPT ![w] = "open"]
    /\ link' = link \cup {w}
    /\ fresh' = fresh \cup {w}
    /\ backoff' = backoff \ {w}
    /\ up' = [up EXCEPT ![w] = <<>>]
    /\ UNCHANGED <<tables, sched, inFlight, todo, down, listed, jobs, pool, faults>>

\* connectOnce reads the job table for its hello, then sends it.
ListJobs(w) ==
    /\ conn[w] = "open"
    /\ conn' = [conn EXCEPT ![w] = "listed"]
    /\ listed' = [listed EXCEPT ![w] = Reviewed(w)]
    /\ UNCHANGED <<tables, sched, hub, channel, jobs, pool, faults>>

SendHello(w) ==
    /\ conn[w] = "listed"
    /\ conn' = [conn EXCEPT ![w] = "ready"]
    /\ listed' = [listed EXCEPT ![w] = {}]
    /\ Reply(w, [type |-> "hello", list |-> listed[w]])
    /\ UNCHANGED <<tables, sched, hub, down, jobs, pool, faults>>

\* dispatch refuses a claim for a review it still has a job of, or any when full.
Refuses(w, c) == c.review \in Reviewed(w) \/ Cardinality(jobs[w]) >= MaxConcurrent

\* A claim of a run the worker has already is dropped without a word.
Redelivered(w, c) == \E j \in jobs[w] : j.review = c.review /\ j.run = c.run

TakeClaim(w) ==
    /\ conn[w] = "ready" /\ down[w] # <<>>
    /\ down' = [down EXCEPT ![w] = Tail(@)]
    /\ LET c == Head(down[w])
       IN  \/ /\ Redelivered(w, c)
              /\ UNCHANGED <<up, jobs>>
           \/ /\ ~Redelivered(w, c) /\ Refuses(w, c)
              /\ Reply(w, [type |-> "busy", review |-> c.review])
              /\ UNCHANGED jobs
           \/ /\ ~Redelivered(w, c) /\ ~Refuses(w, c)
              /\ jobs' = [jobs EXCEPT ![w] = @ \cup
                            {[review |-> c.review, run |-> c.run, phase |-> "running"]}]
              /\ UNCHANGED up
    /\ UNCHANGED <<tables, sched, hub, conn, listed, pool, faults>>

\* complete.
FinishJob(w, j) ==
    /\ j \in jobs[w] /\ j.phase = "running"
    /\ jobs' = [jobs EXCEPT ![w] = (@ \ {j}) \cup {[j EXCEPT !.phase = "reported"]}]
    /\ Reply(w, [type |-> "complete", review |-> j.review, run |-> j.run])
    /\ UNCHANGED <<tables, sched, hub, down, conn, listed, pool, faults>>

\* The deferred removal from the job table, after the report.
RemoveJob(w, j) ==
    /\ j \in jobs[w] /\ j.phase = "reported"
    /\ jobs' = [jobs EXCEPT ![w] = @ \ {j}]
    /\ UNCHANGED <<tables, sched, hub, channel, conn, listed, pool, faults>>

----------------------------------------------------------------------------
(* The hub's readLoop and the scheduler's OnEvent, frame by frame. *)

NextFrame(w, type) == up[w] # <<>> /\ todo[w] = {} /\ Head(up[w]).type = type

Receive(w) ==
    /\ up' = [up EXCEPT ![w] = Tail(@)]
    /\ fresh' = IF w \in link THEN fresh \cup {w} ELSE fresh

\* Mutants of HandleHello: it trusts its own rows; it does not reset the set.
HelloKeepingBound(w) ==
    /\ NextFrame(w, "hello")
    /\ Receive(w)
    /\ inFlight' = [inFlight EXCEPT ![w] = Head(up[w]).list]
    /\ UNCHANGED <<tables, sched, link, backoff, todo, down, worker, pool, faults>>

HelloKeepingCount(w) ==
    /\ NextFrame(w, "hello")
    /\ Receive(w)
    /\ todo' = [todo EXCEPT ![w] = {r \in Reviews : Bound(r, w)} \ Head(up[w]).list]
    /\ UNCHANGED <<tables, sched, inFlight, link, backoff, down, worker, pool, faults>>

\* SetInFlight, then the list of bound reviews that reconcileWorker goes through.
HandleHello(w) ==
    /\ NextFrame(w, "hello")
    /\ Receive(w)
    /\ inFlight' = [inFlight EXCEPT ![w] = Head(up[w]).list]
    /\ todo' = [todo EXCEPT ![w] = {r \in Reviews : Bound(r, w)} \ Head(up[w]).list]
    /\ UNCHANGED <<tables, sched, link, backoff, down, worker, pool, faults>>

HelloRequeue(w, r) ==
    /\ r \in todo[w]
    /\ todo' = [todo EXCEPT ![w] = @ \ {r}]
    /\ RequeueIfBound(r, w)
    /\ UNCHANGED <<mode, torn, sched, inFlight, link, fresh, backoff, channel, worker, pool, faults>>

\* Mutant of Accepted: the owner of the review is enough.
AcceptedFromOwner(w, f) == Bound(f.review, w)

\* CompleteRemoteRun's fence.
Accepted(w, f) == runs[f.review][f.run].worker = w /\ Life!Accepts(f.review, f.run)

(* CompleteRemoteRun and the ClearInFlight after it, as if comments and    *)
(* notices, which are sent between the two, took no time.                  *)
HandleComplete(w, ok) ==
    /\ NextFrame(w, "complete")
    /\ Receive(w)
    /\ LET f == Head(up[w])
       IN  IF Accepted(w, f)
           THEN /\ Life!Publish(f.review, f.run, Life!Outcome(f.review, f.run, ok),
                                row[f.review].session)
                /\ inFlight' = [inFlight EXCEPT ![w] = @ \ {f.review}]
           ELSE UNCHANGED <<row, runs, inFlight>>
    /\ UNCHANGED <<mode, torn, sched, link, backoff, todo, down, worker, pool, faults>>

HandleBusy(w) ==
    /\ NextFrame(w, "busy")
    /\ Receive(w)
    /\ inFlight' = [inFlight EXCEPT ![w] = @ \ {Head(up[w]).review}]
    /\ backoff' = backoff \cup {w}
    /\ RequeueIfBound(Head(up[w]).review, w)
    /\ UNCHANGED <<mode, torn, sched, link, todo, down, worker, pool, faults>>

\* A heartbeat, read by a loop that has nothing else to read.
Heartbeat(w) ==
    /\ w \in link \ fresh
    /\ conn[w] # "closed" /\ up[w] = <<>> /\ todo[w] = {}
    /\ fresh' = fresh \cup {w}
    /\ UNCHANGED <<tables, sched, inFlight, link, backoff, todo, channel, worker, pool, faults>>
----------------------------------------------------------------------------
(* What goes wrong.  Once a connection breaks, the worker's end is closed; *)
(* the server's end stays until its read fails or the worker is back, and  *)
(* meanwhile only the lease tells.                                         *)

\* A prefix of the frames on their way may still be read by the server.
Cut(w) ==
    /\ conn' = [conn EXCEPT ![w] = "closed"]
    /\ listed' = [listed EXCEPT ![w] = {}]
    /\ down' = [down EXCEPT ![w] = <<>>]
    /\ \E n \in 0..Len(up[w]) : up' = [up EXCEPT ![w] = SubSeq(@, 1, n)]

Break(w) ==
    /\ conn[w] # "closed"
    /\ Cut(w) /\ Fault
    /\ UNCHANGED <<tables, sched, hub, jobs, pool>>

WorkerDies(w) ==
    /\ jobs[w] # {}
    /\ Cut(w) /\ Fault
    /\ jobs' = [jobs EXCEPT ![w] = {}]
    /\ UNCHANGED <<tables, sched, hub, pool>>

\* readLoop's read fails.
Disconnect(w) ==
    /\ w \in link /\ conn[w] = "closed"
    /\ link' = link \ {w}
    /\ fresh' = fresh \ {w}
    /\ up' = [up EXCEPT ![w] = <<>>]
    /\ UNCHANGED <<tables, sched, inFlight, backoff, todo, down, worker, pool, faults>>

\* onlineWindow passes without a frame from a worker that has gone.
LeaseExpires(w) ==
    /\ w \in fresh /\ conn[w] = "closed" /\ up[w] = <<>>
    /\ fresh' = fresh \ {w}
    /\ UNCHANGED <<tables, sched, inFlight, link, backoff, todo, channel, worker, pool, faults>>

\* It passes while the readLoop is held up by a handler, and frames wait.
HandlerStalls(w) ==
    /\ w \in fresh /\ conn[w] # "closed" /\ (up[w] # <<>> \/ todo[w] # {})
    /\ Fault
    /\ fresh' = fresh \ {w}
    /\ UNCHANGED <<tables, sched, inFlight, link, backoff, todo, channel, worker, pool>>

\* The server process is replaced; the workers run on.
Restart ==
    /\ Fault
    /\ sched' = Idle
    /\ inFlight' = [w \in Workers |-> {}]
    /\ link' = {} /\ fresh' = {} /\ backoff' = {}
    /\ todo' = [w \in Workers |-> {}]
    /\ conn' = [w \in Workers |-> "closed"]
    /\ listed' = [w \in Workers |-> {}]
    /\ up' = [w \in Workers |-> <<>>] /\ down' = [w \in Workers |-> <<>>]
    /\ queue' = [r \in Reviews |-> 0]
    /\ locals' = {}
    /\ UNCHANGED <<tables, jobs>>

----------------------------------------------------------------------------
Scheduler ==
    \/ \E r \in Reviews, w \in Workers : Pick(r, w) \/ RequeueOffline(r, w)
    \/ StartRemote
    \/ AddInFlight
    \/ SendClaim
    \/ SendFails
    \/ RequeueUnsent
    \/ \E w \in Workers : BackoffEnds(w)

LocalPool ==
    \E r \in Reviews :
        \/ EnqueueLocal(r)
        \/ StartLocal(r)
        \/ \E k \in RunsOf(r), ok \in BOOLEAN : FinishLocal(r, k, ok)

WorkerStep(w) ==
    \/ Connect(w)
    \/ ListJobs(w)
    \/ SendHello(w)
    \/ TakeClaim(w)
    \/ \E j \in jobs[w] : FinishJob(w, j) \/ RemoveJob(w, j)

ReadLoop(w) ==
    \/ HandleHello(w)
    \/ \E r \in Reviews : HelloRequeue(w, r)
    \/ \E ok \in BOOLEAN : HandleComplete(w, ok)
    \/ HandleBusy(w)
    \/ Heartbeat(w)

Trouble(w) == Break(w) \/ WorkerDies(w) \/ Disconnect(w) \/ LeaseExpires(w) \/ HandlerStalls(w)

Next ==
    \/ \E r \in Reviews : Request(r)
    \/ Scheduler
    \/ LocalPool
    \/ \E w \in Workers : WorkerStep(w) \/ ReadLoop(w) \/ Trouble(w)
    \/ Restart

Spec == Init /\ [][Next]_vars

(* Goroutines run, a sweep comes every 30 seconds, a backoff is at most    *)
(* half a minute, a job ends by its timeout, a frame sent on a live        *)
(* connection is read, and a lease that is not renewed expires.  Nobody    *)
(* has to ask for a review, to connect, or to break anything.              *)
Fairness ==
    /\ WF_vars(StartRemote) /\ WF_vars(AddInFlight) /\ WF_vars(SendClaim \/ SendFails)
    /\ WF_vars(RequeueUnsent)
    /\ \A r \in Reviews :
          /\ WF_vars(\E w \in Workers : Pick(r, w))
          /\ \A w \in Workers : WF_vars(RequeueOffline(r, w)) /\ WF_vars(HelloRequeue(w, r))
          /\ WF_vars(EnqueueLocal(r)) /\ WF_vars(StartLocal(r))
          /\ WF_vars(\E k \in RunsOf(r), ok \in BOOLEAN : FinishLocal(r, k, ok))
    /\ \A w \in Workers :
          /\ WF_vars(BackoffEnds(w)) /\ WF_vars(LeaseExpires(w)) /\ WF_vars(Heartbeat(w))
          /\ WF_vars(ListJobs(w)) /\ WF_vars(SendHello(w)) /\ WF_vars(TakeClaim(w))
          /\ WF_vars(\E j \in jobs[w] : FinishJob(w, j))
          /\ WF_vars(\E j \in jobs[w] : RemoveJob(w, j))
          /\ WF_vars(HandleHello(w)) /\ WF_vars(HandleBusy(w))
          /\ WF_vars(\E ok \in BOOLEAN : HandleComplete(w, ok))

FairSpec == Spec /\ Fairness

----------------------------------------------------------------------------
(* Properties. *)

(* Everything the scheduler, the hub, the channel and the workers do to    *)
(* the tables is one of the lifecycle's operations, done by a caller the   *)
(* lifecycle allows: no report is used twice, none is accepted from a      *)
(* superseded run, and a crash loses only what lives in memory.            *)
ImplementsLifecycle == Life!Spec

\* Nothing is on its way between the server and w, or about to be.
Settled(w) ==
    /\ w \in link /\ conn[w] = "ready"
    /\ up[w] = <<>> /\ down[w] = <<>> /\ todo[w] = {}
    /\ sched.pc \in {"idle", "picked"} \/ sched.worker # w

\* No earlier run of r at w failed, so none can still be going on there.
Unspoilt(r, w) ==
    \A k \in RunsOf(r) : k < Len(runs[r]) /\ runs[r][k].worker = w => runs[r][k].status = "succeeded"

(* What HelloPayload is for (protocol.go): after a reconnect the server    *)
(* knows which jobs the worker still runs.  So a review it believes to be  *)
(* executed by a connected worker is being executed there, for its newest  *)
(* run: no claim, hello or completion is lost in a way that leaves it      *)
(* waiting for nobody.  A hello names reviews and not runs, so this holds  *)
(* only where no earlier run of the review failed at that worker.          *)
UnspoiltIsExecuting ==
    \A r \in Reviews, w \in Workers :
        Bound(r, w) /\ Unspoilt(r, w) /\ Settled(w) => Executing(w, r, Len(runs[r]))

(* A review the server awaits counts against its worker's capacity: across *)
(* reconnects and server restarts the hub never forgets it.  A completion  *)
(* still being posted when its worker, on a new connection, gets the same  *)
(* review again is not in the model: ending, it would uncount the new run. *)
AwaitedIsCounted ==
    \A r \in Reviews, w \in Workers : Bound(r, w) /\ Settled(w) => r \in inFlight[w]

(* No review stays bound to such a worker: its run ends, or the lease, a   *)
(* hello or a busy reply gives the review back to the queue.               *)
Settles ==
    \A r \in Reviews, w \in Workers :
        Bound(r, w) /\ Unspoilt(r, w) ~> ~(Bound(r, w) /\ Unspoilt(r, w))

Waiting(r) == row[r].status = "pending" /\ Len(runs[r]) < MaxRuns

Reachable(w) == Healthy(w) /\ conn[w] = "ready"

\* The hub counts a job that no frame or job table knows of.
Phantom(w) ==
    \E q \in inFlight[w] :
        /\ q \notin Reviewed(w)
        /\ \A i \in 1..Len(down[w]) : down[w][i].review # q

(* A review does not wait for ever beside a worker that could take it,     *)
(* unless the hub counts a job that worker does not have.                  *)
ServedUnlessPhantom ==
    \A r \in Reviews :
        []<>(Waiting(r) => \A w \in Workers : Reachable(w) => Phantom(w))
=============================================================================
