----------------------------- MODULE Reactions -----------------------------
(***************************************************************************)
(* What a reviewer asks for after a review (/sat act): a row per reaction, *)
(* executed by the host the review is bound to, a worker or the server     *)
(* itself, and answered in the chat.                                       *)
(*                                                                         *)
(* All reactions are of one review, so a worker has one entry for all of   *)
(* them in its job table, the scheduler counts them as one in flight, and  *)
(* on the server the review's lock lets one of them run at a time.  The    *)
(* two ends of a connection break together: Dispatch has the finer grain.  *)
(* A review whose row cannot be read, which fails its reactions before the *)
(* lock, is left out.                                                      *)
(***************************************************************************)
EXTENDS Integers, Sequences, FiniteSets

CONSTANTS
    Reactions, \* reaction ids
    Workers,   \* registered workers that serve the review's repository
    Local,     \* the empty worker_id: the server
    MaxQueued, \* bound on the copies of a reaction in the local queue
    MaxMoves,  \* bound on the retries of the review that another host carries out
    MaxFaults  \* bound on broken connections, dead workers, restarts, failed writes
               \* and failed messages

ASSUME HostsAssumption == Local \notin Workers
ASSUME BoundsAssumption == MaxQueued \in Nat /\ MaxMoves \in Nat /\ MaxFaults \in Nat

VARIABLES
    home,      \* worker_id of the review's row
    row,       \* reaction -> its row: status, worker_id, and the host of its session
    told,      \* reaction -> how often its outcome was sent to the reviewer
    telling,   \* goroutines inside notifyReaction: a worker's connection, live or
               \* replaced, or the server's executor
    sched,     \* the claim the scheduler goroutine is making
    inFlight,  \* hub: workers at which the review counts as in flight
    connected, \* workers with a connection
    up, down,  \* worker -> frames to the server, claims to the worker
    job,       \* worker -> the review's entry in its job table
    queue,     \* reaction -> copies of it in the local queue
    local,     \* the server's executor, inside the checkout's lock
    reopened,  \* history: reactions the executor started on a stale read
    lost,      \* history: reactions left with a worker that will not report
               \* them, by a busy reply, a hello or a claim ignored as a
               \* duplicate, until they are requeued
    missed,    \* history: reactions whose message failed or died with the server
    unsaved,   \* history: reactions whose end the server's executor could not save
    moves, faults

hub     == <<sched, inFlight>>
net     == <<connected, up, down>>
pool    == <<queue, local>>
notes   == <<reopened, lost>>
notices == <<told, telling, missed, unsaved>>
vars    == <<home, row, notices, hub, net, job, pool, notes, moves, faults>>

Hosts == Workers \cup {Local}
Idle  == [pc |-> "idle"]

Tellers == [worker: Hosts, reaction: Reactions, connection: {"live", "replaced"}]

Row == [status: {"none", "pending", "running", "settled"}, worker: Hosts, session: Hosts]

TypeOK ==
    /\ home \in Hosts
    /\ row \in [Reactions -> Row]
    /\ told \in [Reactions -> Nat]
    /\ telling \subseteq Tellers
    /\ sched \in {Idle} \cup [pc: {"assigned", "counted", "failed"}, reaction: Reactions, worker: Workers]
    /\ inFlight \subseteq Workers /\ connected \subseteq Workers
    /\ \A w \in Workers :
          /\ \A i \in DOMAIN up[w] : up[w][i] \in [type: {"hello"}, lists: BOOLEAN]
                                        \cup [type: {"complete", "busy"}, reaction: Reactions]
          /\ \A i \in DOMAIN down[w] : down[w][i] \in Reactions
    /\ job \in [Workers -> {Idle} \cup [pc: {"running", "reported"}, reaction: Reactions]]
    /\ queue \in [Reactions -> 0..MaxQueued]
    /\ local \in {Idle} \cup [pc: {"read", "running"}, reaction: Reactions]
    /\ reopened \subseteq Reactions /\ lost \subseteq Reactions
    /\ missed \subseteq Reactions /\ unsaved \subseteq Reactions
    /\ moves \in 0..MaxMoves /\ faults \in 0..MaxFaults

Init ==
    /\ home \in Hosts
    /\ row = [r \in Reactions |-> [status |-> "none", worker |-> Local, session |-> Local]]
    /\ told = [r \in Reactions |-> 0] /\ telling = {}
    /\ sched = Idle /\ inFlight = {} /\ connected = {}
    /\ up = [w \in Workers |-> <<>>] /\ down = [w \in Workers |-> <<>>]
    /\ job = [w \in Workers |-> Idle]
    /\ queue = [r \in Reactions |-> 0] /\ local = Idle
    /\ reopened = {} /\ lost = {} /\ missed = {} /\ unsaved = {}
    /\ moves = 0 /\ faults = 0

Fault == faults < MaxFaults /\ faults' = faults + 1

----------------------------------------------------------------------------
(* The store. *)

RunningAt(r, w) == row[r].status = "running" /\ row[r].worker = w

Running(r, w) == [row EXCEPT ![r].status = "running", ![r].worker = w]
Settled(r)    == [row EXCEPT ![r].status = "settled"]

\* RequeueReaction, guarded by the owner.
Requeue(rs, w) ==
    LET owned == {r \in rs : RunningAt(r, w)}
    IN  /\ row' = [r \in Reactions |-> IF r \in owned
                       THEN [row[r] EXCEPT !.status = "pending", !.worker = Local] ELSE row[r]]
        /\ lost' = lost \ owned

\* Mutant of Owned: the update is of the id alone.
OwnedByAnyone(r, w) == TRUE

\* The WHERE of UpdateReactionOutcomeByWorker.
Owned(r, w) == RunningAt(r, w)

----------------------------------------------------------------------------
(* The reviewer is told: notifyReaction, after the row is settled. *)

BeingTold(r) == \E t \in telling : t.reaction = r

\* The goroutine that reads w's frames, or the executor when w is Local, goes on to tell r.
StartTelling(w, r) ==
    /\ telling' = telling \cup {[worker |-> w, reaction |-> r, connection |-> "live"]}
    /\ UNCHANGED <<told, missed>>

\* It goes on to nothing else before.
IsTelling(w) == \E t \in telling : t.worker = w /\ t.connection = "live"

(* A message that fails is only logged.  Then OnEvent clears what it has   *)
(* counted for the worker, whatever that is by now.                        *)
Tell(t) ==
    /\ telling' = telling \ {t}
    /\ \/ told' = [told EXCEPT ![t.reaction] = @ + 1] /\ UNCHANGED <<missed, faults>>
       \/ missed' = missed \cup {t.reaction} /\ Fault /\ UNCHANGED told
    /\ inFlight' = inFlight \ {t.worker}
    /\ UNCHANGED <<home, row, unsaved, sched, net, job, pool, notes, moves>>

----------------------------------------------------------------------------
(* The review and its reviewer. *)

\* The server's executor has left the review's lock.
ExecutorFree == local = Idle /\ ~IsTelling(Local)

\* Act, on a finished review: the row keeps the session the review has now.
Act(r) ==
    /\ row[r].status = "none"
    /\ row' = [row EXCEPT ![r] = [status |-> "pending", worker |-> Local, session |-> home]]
    /\ UNCHANGED <<home, notices, hub, net, job, pool, notes, moves, faults>>

(* The review is retried and another host runs it, from claim to outcome:  *)
(* the host it was at is gone or counted as busy (affinity), and the       *)
(* server runs it itself only when no worker is connected.                 *)
ReviewMoves(h) ==
    /\ h # home /\ moves < MaxMoves
    /\ home \in Workers => home \notin connected \/ home \in inFlight
    /\ IF h = Local THEN connected = {} /\ ExecutorFree
                    ELSE h \in connected \ inFlight /\ job[h] = Idle
    /\ home' = h
    /\ moves' = moves + 1
    /\ UNCHANGED <<row, notices, hub, net, job, pool, notes, faults>>

----------------------------------------------------------------------------
(* The scheduler goroutine. *)

\* dispatchReaction and StartRemoteReaction, for a review bound to a worker.
Assign(r, w) ==
    /\ sched = Idle
    /\ row[r].status = "pending"
    /\ home = w /\ w \in connected \ inFlight
    /\ row' = Running(r, w)
    /\ sched' = [pc |-> "assigned", reaction |-> r, worker |-> w]
    /\ UNCHANGED <<home, notices, inFlight, net, job, pool, notes, moves, faults>>

AddInFlight ==
    /\ sched.pc = "assigned"
    /\ sched' = [sched EXCEPT !.pc = "counted"]
    /\ inFlight' = inFlight \cup {sched.worker}
    /\ UNCHANGED <<home, row, notices, net, job, pool, notes, moves, faults>>

\* hub.Send; when the write fails the claim is taken back.
Send ==
    /\ sched.pc = "counted"
    /\ IF sched.worker \in connected
       THEN /\ sched' = Idle
            /\ down' = [down EXCEPT ![sched.worker] = Append(@, sched.reaction)]
            /\ UNCHANGED inFlight
       ELSE /\ sched' = [sched EXCEPT !.pc = "failed"]
            /\ inFlight' = inFlight \ {sched.worker}
            /\ UNCHANGED down
    /\ UNCHANGED <<home, row, notices, connected, up, job, pool, notes, moves, faults>>

RequeueUnsent ==
    /\ sched.pc = "failed"
    /\ sched' = Idle
    /\ Requeue({sched.reaction}, sched.worker)
    /\ UNCHANGED <<home, notices, inFlight, net, job, pool, reopened, moves, faults>>

\* reconcile: the reaction's worker is gone.
RequeueOffline(r, w) ==
    /\ sched = Idle
    /\ RunningAt(r, w) /\ w \notin connected
    /\ Requeue({r}, w)
    /\ UNCHANGED <<home, notices, hub, net, job, pool, reopened, moves, faults>>

\* dispatchReaction for a review the server ran: every sweep adds a copy.
EnqueueLocal(r) ==
    /\ sched = Idle
    /\ row[r].status = "pending" /\ home = Local
    /\ queue[r] < MaxQueued
    /\ queue' = [queue EXCEPT ![r] = @ + 1]
    /\ UNCHANGED <<home, row, notices, hub, net, job, local, notes, moves, faults>>

----------------------------------------------------------------------------
(* processReaction: the server's executor. *)

\* The second read, inside the lock: another copy may have been there first.
StillPending(r) == row[r].status = "pending"

Begin(r) ==
    /\ ExecutorFree
    /\ queue[r] > 0
    /\ queue' = [queue EXCEPT ![r] = @ - 1]
    /\ local' = IF StillPending(r) THEN [pc |-> "read", reaction |-> r] ELSE local
    /\ UNCHANGED <<home, row, notices, hub, net, job, notes, moves, faults>>

\* The row is written whole, whatever has become of it since the read, or not at all.
Start ==
    /\ local.pc = "read"
    /\ LET r == local.reaction
       IN  \/ /\ row' = Running(r, Local)
              /\ reopened' = IF StillPending(r) THEN reopened ELSE reopened \cup {r}
              /\ lost' = lost \ {r}
              /\ local' = [local EXCEPT !.pc = "running"]
              /\ UNCHANGED faults
           \/ Fault /\ local' = Idle /\ UNCHANGED <<row, notes>>
    /\ UNCHANGED <<home, notices, hub, net, job, queue, moves>>

\* finishReaction, after the tool or instead of it: the reviewer is told even when the
\* write fails.
Finish ==
    /\ local.pc = "running"
    /\ LET r == local.reaction
       IN  /\ \/ row' = Settled(r) /\ UNCHANGED <<unsaved, faults>>
              \/ unsaved' = unsaved \cup {r} /\ Fault /\ UNCHANGED row
           /\ StartTelling(Local, r)
    /\ local' = Idle
    /\ UNCHANGED <<home, hub, net, job, queue, notes, moves>>

----------------------------------------------------------------------------
(* The worker. *)

\* The client connects and sends a hello with the reviews of its job table.
Connect(w) ==
    /\ w \notin connected
    /\ job[w].pc # "reported"
    /\ connected' = connected \cup {w}
    /\ up' = [up EXCEPT ![w] = <<[type |-> "hello", lists |-> job[w] # Idle]>>]
    /\ UNCHANGED <<home, row, notices, hub, down, job, pool, notes, moves, faults>>

\* Without a connection the frame is lost.
Reply(w, f) == up' = IF w \in connected THEN [up EXCEPT ![w] = Append(@, f)] ELSE up

\* Of the history: a report of r is on its way from w, or w is executing r.
WillReport(w, r) ==
    \/ job[w] = [pc |-> "running", reaction |-> r]
    \/ \E i \in DOMAIN up[w] : up[w][i] = [type |-> "complete", reaction |-> r]

(* dispatch: a claim of the reaction in the table is ignored, even one that *)
(* comes after its report, and a claim of another one is refused.           *)
TakeClaim(w) ==
    /\ down[w] # <<>>
    /\ down' = [down EXCEPT ![w] = Tail(@)]
    /\ LET r == Head(down[w])
       IN  \/ /\ job[w] = Idle
              /\ job' = [job EXCEPT ![w] = [pc |-> "running", reaction |-> r]]
              /\ UNCHANGED <<up, lost>>
           \/ /\ job[w] # Idle /\ job[w].reaction = r
              /\ lost' = IF WillReport(w, r) THEN lost ELSE lost \cup {r}
              /\ UNCHANGED <<up, job>>
           \/ /\ job[w] # Idle /\ job[w].reaction # r
              /\ Reply(w, [type |-> "busy", reaction |-> r])
              /\ UNCHANGED <<job, lost>>
    /\ UNCHANGED <<home, row, notices, hub, connected, pool, reopened, moves, faults>>

\* runReaction ends, in one way or another, with complete.
Complete(w) ==
    /\ job[w].pc = "running"
    /\ job' = [job EXCEPT ![w].pc = "reported"]
    /\ Reply(w, [type |-> "complete", reaction |-> job[w].reaction])
    /\ UNCHANGED <<home, row, notices, hub, connected, down, pool, notes, moves, faults>>

\* The deferred removal from the job table.
Remove(w) ==
    /\ job[w].pc = "reported"
    /\ job' = [job EXCEPT ![w] = Idle]
    /\ UNCHANGED <<home, row, notices, hub, net, pool, notes, moves, faults>>

----------------------------------------------------------------------------
(* OnEvent, one frame at a time. *)

NextFrame(w, type) ==
    /\ ~IsTelling(w)
    /\ up[w] # <<>> /\ Head(up[w]).type = type
    /\ up' = [up EXCEPT ![w] = Tail(@)]

\* Mutant of Unlisted: a hello only requeues reviews.
UnlistedNever(w) == {}

\* The reactions reconcileWorker requeues when a hello does not list the review.
Unlisted(w) == {r \in Reactions : RunningAt(r, w)}

\* A claim of r to w is being made or on its way.
Sending(w, r) ==
    \/ sched # Idle /\ sched.reaction = r
    \/ \E i \in DOMAIN down[w] : down[w][i] = r

\* A hello lists reviews, so one reaction of a review hides the loss of another.
HandleHello(w) ==
    /\ NextFrame(w, "hello")
    /\ LET lists == Head(up[w]).lists
       IN  /\ inFlight' = IF lists THEN inFlight \cup {w} ELSE inFlight \ {w}
           /\ IF lists
              THEN /\ lost' = lost \cup {r \in Reactions : RunningAt(r, w) /\ ~WillReport(w, r) /\ ~Sending(w, r)}
                   /\ UNCHANGED row
              ELSE Requeue(Unlisted(w), w)
    /\ UNCHANGED <<home, notices, sched, connected, down, job, pool, reopened, moves, faults>>

\* CompleteRemoteReaction: a stale completion is dropped, like one whose write fails,
\* and still counted as in flight.
HandleComplete(w) ==
    /\ NextFrame(w, "complete")
    /\ \E r \in Reactions :
          /\ Head(up[w]).reaction = r
          /\ \/ Owned(r, w) /\ row' = Settled(r) /\ StartTelling(w, r) /\ UNCHANGED <<lost, faults>>
             \/ Owned(r, w) /\ Fault /\ lost' = lost \cup {r} /\ UNCHANGED <<row, told, telling, missed>>
             \/ ~Owned(r, w) /\ UNCHANGED <<row, told, telling, missed, lost, faults>>
    /\ UNCHANGED <<home, unsaved, hub, connected, down, job, pool, reopened, moves>>

(* A busy reply names the review, and the review is what RequeueForOrphan  *)
(* would requeue: it is finished, so nothing is.                           *)
HandleBusy(w) ==
    /\ NextFrame(w, "busy")
    /\ inFlight' = inFlight \ {w}
    /\ lost' = lost \cup {r \in {Head(up[w]).reaction} : RunningAt(r, w)}
    /\ UNCHANGED <<home, row, notices, sched, connected, down, job, pool, reopened, moves, faults>>

----------------------------------------------------------------------------
(* What goes wrong. *)

Cut(ws) ==
    /\ connected' = connected \ ws
    /\ up' = [w \in Workers |-> IF w \in ws THEN <<>> ELSE up[w]]
    /\ down' = [w \in Workers |-> IF w \in ws THEN <<>> ELSE down[w]]

\* A goroutine that is telling goes on when its connection is gone.
Outlives(w) ==
    telling' = {IF t.worker = w THEN [t EXCEPT !.connection = "replaced"] ELSE t : t \in telling}

Break(w) ==
    /\ w \in connected
    /\ Fault /\ Cut({w}) /\ Outlives(w)
    /\ UNCHANGED <<home, row, told, missed, unsaved, hub, job, pool, notes, moves>>

WorkerDies(w) ==
    /\ job[w] # Idle
    /\ Fault /\ Cut({w}) /\ Outlives(w)
    /\ job' = [job EXCEPT ![w] = Idle]
    /\ UNCHANGED <<home, row, told, missed, unsaved, hub, pool, notes, moves>>

\* The server's memory goes; Start recovers no reaction beside a scheduler, and nobody
\* is told later of what was settled.
Restart ==
    /\ Fault /\ Cut(Workers)
    /\ sched' = Idle /\ inFlight' = {}
    /\ queue' = [r \in Reactions |-> 0] /\ local' = Idle
    /\ telling' = {} /\ missed' = missed \cup {t.reaction : t \in telling}
    /\ UNCHANGED <<home, row, told, unsaved, job, notes, moves>>

Next ==
    \/ \E r \in Reactions : Act(r) \/ EnqueueLocal(r) \/ Begin(r)
    \/ \E r \in Reactions, w \in Workers : Assign(r, w) \/ RequeueOffline(r, w)
    \/ AddInFlight \/ Send \/ RequeueUnsent
    \/ Start \/ Finish
    \/ \E t \in telling : Tell(t)
    \/ \E w \in Workers :
          \/ Connect(w) \/ TakeClaim(w) \/ Complete(w) \/ Remove(w)
          \/ HandleHello(w) \/ HandleComplete(w) \/ HandleBusy(w)
          \/ Break(w) \/ WorkerDies(w)
    \/ \E h \in Hosts : ReviewMoves(h)
    \/ Restart

Spec == Init /\ [][Next]_vars

(* Goroutines run, a sweep comes every 30 seconds, a tool ends by its      *)
(* timeout, so does a call to Lark, and a frame on a live connection is    *)
(* read.  Nobody has to ask, to connect or to retry the review.            *)
Fairness ==
    /\ WF_vars(AddInFlight) /\ WF_vars(Send) /\ WF_vars(RequeueUnsent)
    /\ WF_vars(Start) /\ WF_vars(Finish)
    /\ \A r \in Reactions :
          /\ WF_vars(EnqueueLocal(r)) /\ WF_vars(Begin(r))
          /\ WF_vars(\E t \in telling : t.reaction = r /\ Tell(t))
          /\ SF_vars(\E w \in Workers : Assign(r, w))
          /\ \A w \in Workers : WF_vars(RequeueOffline(r, w))
    /\ \A w \in Workers :
          /\ WF_vars(TakeClaim(w)) /\ WF_vars(Complete(w)) /\ WF_vars(Remove(w))
          /\ WF_vars(HandleHello(w)) /\ WF_vars(HandleComplete(w)) /\ WF_vars(HandleBusy(w))

FairSpec == Spec /\ Fairness

----------------------------------------------------------------------------
(* Properties. *)

\* Its executor is done with it: the row says so, or should.
Ended(r) == row[r].status = "settled" \/ r \in unsaved

(* However often a reaction is requeued, claimed again and completed late, *)
(* the reviewer is told at most one outcome, and not before it is saved or *)
(* its save has failed.  One that has ended is told, or is being told, or  *)
(* its one message failed or died with the server: nothing repeats it.     *)
(* The exception is a reaction that the server's executor read as pending  *)
(* just before the scheduler gave it to a worker: the row is then written  *)
(* whole, and it is executed a second time.                                *)
AnsweredOnce ==
    \A r \in Reactions \ reopened :
        /\ told[r] <= 1
        /\ told[r] = 1 => Ended(r)
        /\ Ended(r) => told[r] = 1 \/ BeingTold(r) \/ r \in missed

(* The states in which a reaction may wait for ever: its host is away, or  *)
(* is wrongly counted as busy with the review; its claim was refused, or   *)
(* lost, and what the worker said of the review did not requeue it; or the *)
(* server died executing it or could not save its end.                     *)
Abandoned(r) ==
    \/ row[r].status = "pending" /\ home \in Workers
       /\ (home \notin connected \/ (home \in inFlight /\ job[home] = Idle))
    \/ row[r].status = "running" /\ r \in lost
    \/ RunningAt(r, Local) /\ (local = Idle \/ local.reaction # r)

(* Every other reaction is settled and the attempt to tell of it ends: a   *)
(* claim lost with its connection or its worker, a write that fails or a   *)
(* local copy that found the row taken leaves no reaction behind.          *)
ReactionsSettle ==
    \A r \in Reactions :
        []<>(\/ row[r].status = "none"
             \/ row[r].status = "settled" /\ ~BeingTold(r)
             \/ Abandoned(r))

(* Said of dispatchReaction: a reaction runs on the host that produced the *)
(* session it resumes.                                                     *)
RunsWhereItsSessionIs ==
    \A r \in Reactions : row[r].status = "running" => row[r].worker = row[r].session
=============================================================================
