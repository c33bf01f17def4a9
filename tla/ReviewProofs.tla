---------------------------- MODULE ReviewProofs ---------------------------
(***************************************************************************)
(* What the life of a review and the locks around its checkout promise.    *)
(* ReviewLifecycle: for every set of reviews and workers, any number of    *)
(* runs, and every interleaving of operations and crashes.  RepoGuard: for *)
(* any number of jobs and keys, under either policy.                       *)
(*                                                                         *)
(* The two are separate specifications with no variable in common.         *)
(***************************************************************************)
EXTENDS ReviewLifecycle, RepoGuard, FiniteSetTheorems, SequenceTheorems, TLAPS

----------------------------------------------------------------------------
(* Sequences of runs. *)

LEMMA RunAppended ==
    ASSUME NEW s \in Seq(Run), NEW e \in Run
    PROVE  /\ Append(s, e) \in Seq(Run)
           /\ Len(Append(s, e)) = Len(s) + 1
           /\ \A i \in 1..Len(s) : Append(s, e)[i] = s[i]
           /\ Append(s, e)[Len(s) + 1] = e
  OBVIOUS

LEMMA RunReplaced ==
    ASSUME NEW s \in Seq(Run), NEW k \in 1..Len(s), NEW e \in Run
    PROVE  /\ [s EXCEPT ![k] = e] \in Seq(Run)
           /\ Len([s EXCEPT ![k] = e]) = Len(s)
           /\ \A i \in 1..Len(s) : [s EXCEPT ![k] = e][i] = IF i = k THEN e ELSE s[i]
  OBVIOUS

LEMMA RunsMapped ==
    ASSUME NEW n \in Nat, NEW f, f = [i \in 1..n |-> f[i]], \A i \in 1..n : f[i] \in Run
    PROVE  f \in Seq(Run) /\ Len(f) = n
  OBVIOUS

----------------------------------------------------------------------------
(* The inductive invariant.  Ownership, VerdictOfLatestRun and             *)
(* SessionInContext need two facts that no run's cfg names: only existing  *)
(* runs have executors, and a local executor works on the newest run of a  *)
(* review that is still its own.  SuccessHasResult needs a third: row and  *)
(* run agree on whether there is a result.                                 *)

ReportsExist(r) == reports[r] \subseteq 1..Latest(r)

LocalExecutor(r) ==
    \A k \in reports[r] : runs[r][k].worker = Local =>
        /\ row[r].status = "reviewing" /\ row[r].worker = Local
        /\ k = Latest(r) /\ runs[r][k].status = "running"

ResultRecorded(r) ==
    row[r].status = "reviewing" => (runs[r][Latest(r)].verdict <=> row[r].verdict # 0)

\* Without a scheduler nothing is ever run by a worker.
LocalMode(r) == mode = "local" => \A k \in 1..Latest(r) : runs[r][k].worker = Local

InvOf(r) ==
    /\ ReportsExist(r)
    /\ LocalMode(r)
    /\ LocalExecutor(r)
    /\ r \notin torn => OwnershipOf(r) /\ ResultRecorded(r)
    /\ VerdictFence(r)
    /\ SessionFence(r)

IInv == TypeOK /\ \A r \in Reviews : InvOf(r)

----------------------------------------------------------------------------
(* What each kind of write does to the rows and runs of one review. *)

LEMMA FinishedIsIdle ==
    ASSUME NEW r \in Reviews, row[r].status # "reviewing", OwnershipOf(r)
    PROVE  Running(r) = {}
  BY DEF OwnershipOf

LEMMA RunFacts ==
    ASSUME TypeOK, NEW r \in Reviews
    PROVE  /\ row[r] \in Row /\ runs[r] \in Seq(Run) /\ Latest(r) \in Nat
           /\ \A k \in 1..Latest(r) : runs[r][k] \in Run
           /\ Running(r) \subseteq 1..Latest(r)
  BY DEF TypeOK, Latest, Running

LEMMA StartEffect ==
    ASSUME TypeOK, NEW r \in Reviews, NEW w \in Owners, Start(r, w)
    PROVE  /\ row'[r] \in Row /\ runs'[r] \in Seq(Run)
           /\ row'[r].status = "reviewing" /\ row'[r].worker = w /\ row'[r].verdict = 0
           /\ row'[r].context = row[r].context /\ row'[r].session = row[r].session
           /\ Len(runs'[r]) = Len(runs[r]) + 1
           /\ \A k \in 1..Len(runs[r]) : runs'[r][k] = runs[r][k]
           /\ runs'[r][Len(runs[r]) + 1] = NewRun(r, w)
           /\ reports'[r] = reports[r] \cup {Len(runs[r]) + 1}
  <1>1. row[r] \in Row /\ runs[r] \in Seq(Run)
    BY RunFacts
  <1>2. NewRun(r, w) \in Run
    BY <1>1 DEF NewRun, Run, Row, RunStatus
  <1>3. Assigned(r, w) \in Row
    BY <1>1 DEF Assigned, Row, RowStatus
  <1>4. runs'[r] = Append(runs[r], NewRun(r, w)) /\ row'[r] = Assigned(r, w)
    BY DEF Start, TypeOK
  <1>5. reports'[r] = reports[r] \cup {Len(runs[r]) + 1}
    BY DEF Start, TypeOK, Latest
  <1>6. /\ Assigned(r, w).status = "reviewing" /\ Assigned(r, w).worker = w
        /\ Assigned(r, w).verdict = 0 /\ Assigned(r, w).context = row[r].context
        /\ Assigned(r, w).session = row[r].session
    BY <1>1 DEF Assigned, Row
  <1> QED
    BY <1>1, <1>2, <1>3, <1>4, <1>5, <1>6, RunAppended

LEMMA IngestEffect ==
    ASSUME TypeOK, NEW r \in Reviews, NEW k \in 1..Latest(r), IngestRunResult(r, k)
    PROVE  /\ row'[r] \in Row /\ runs'[r] \in Seq(Run)
           /\ row'[r] = [row[r] EXCEPT !.verdict = k]
           /\ Len(runs'[r]) = Len(runs[r])
           /\ \A j \in 1..Len(runs[r]) :
                 runs'[r][j] = IF j = k THEN [runs[r][j] EXCEPT !.verdict = TRUE] ELSE runs[r][j]
  <1> DEFINE run == [runs[r][k] EXCEPT !.verdict = TRUE]
  <1>1. row[r] \in Row /\ runs[r] \in Seq(Run) /\ runs[r][k] \in Run /\ k \in 1..Len(runs[r])
    BY RunFacts DEF Latest
  <1>2. run \in Run
    BY <1>1 DEF Run
  <1>3. [row[r] EXCEPT !.verdict = k] \in Row
    BY <1>1 DEF Row
  <1>4. /\ row'[r] = [row[r] EXCEPT !.verdict = k]
        /\ runs'[r] = [runs[r] EXCEPT ![k] = run]
    BY <1>1 DEF IngestRunResult, TypeOK
  <1> HIDE DEF run
  <1>5. /\ runs'[r] \in Seq(Run) /\ Len(runs'[r]) = Len(runs[r])
        /\ \A j \in 1..Len(runs[r]) : runs'[r][j] = IF j = k THEN run ELSE runs[r][j]
    BY <1>1, <1>2, <1>4, RunReplaced
  <1> QED
    BY <1>3, <1>4, <1>5 DEF run

LEMMA PublishEffect ==
    ASSUME TypeOK, NEW r \in Reviews, NEW k \in 1..Latest(r), NEW s \in Nat,
           NEW out \in {"succeeded", "failed"}, Publish(r, k, out, s)
    PROVE  /\ row'[r] \in Row /\ runs'[r] \in Seq(Run)
           /\ row'[r].status = out /\ row'[r].session = s /\ row'[r].worker = row[r].worker
           /\ row'[r].verdict = row[r].verdict /\ row'[r].context = row[r].context
           /\ Len(runs'[r]) = Len(runs[r])
           /\ \A j \in 1..Len(runs[r]) \ {k} : runs'[r][j] = runs[r][j]
           /\ runs'[r][k].status = out
           /\ runs'[r][k].verdict <=> row[r].verdict # 0
           /\ runs'[r][k].worker = runs[r][k].worker
           /\ runs'[r][k].context = runs[r][k].context
  <1> DEFINE run == [runs[r][k] EXCEPT !.status = out, !.verdict = row[r].verdict # 0]
  <1>1. row[r] \in Row /\ runs[r] \in Seq(Run) /\ runs[r][k] \in Run /\ k \in 1..Len(runs[r])
    BY RunFacts DEF Latest
  <1>2. /\ row'[r] = [row[r] EXCEPT !.status = out, !.session = s]
        /\ runs'[r] = [runs[r] EXCEPT ![k] = run]
    BY <1>1 DEF Publish, TypeOK
  <1>3. /\ row'[r] \in Row
        /\ row'[r].status = out /\ row'[r].session = s /\ row'[r].worker = row[r].worker
        /\ row'[r].verdict = row[r].verdict /\ row'[r].context = row[r].context
    BY <1>1, <1>2 DEF Row, RowStatus
  <1>4. /\ run \in Run /\ run.status = out /\ (run.verdict <=> row[r].verdict # 0)
        /\ run.worker = runs[r][k].worker /\ run.context = runs[r][k].context
    BY <1>1 DEF Run, RunStatus
  <1> HIDE DEF run
  <1>5. /\ runs'[r] \in Seq(Run) /\ Len(runs'[r]) = Len(runs[r])
        /\ \A j \in 1..Len(runs[r]) : runs'[r][j] = IF j = k THEN run ELSE runs[r][j]
    BY <1>1, <1>2, <1>4, RunReplaced
  <1>6. /\ \A j \in 1..Len(runs[r]) \ {k} : runs'[r][j] = runs[r][j]
        /\ runs'[r][k] = run
    BY <1>1, <1>5
  <1> QED
    BY <1>3, <1>4, <1>5, <1>6

LEMMA RequeueEffect ==
    ASSUME TypeOK, NEW r \in Reviews, NEW w \in Workers, RequeueForOrphan(r, w)
    PROVE  /\ row'[r] \in Row /\ runs'[r] \in Seq(Run)
           /\ row'[r] = Released(r)
           /\ Len(runs'[r]) = Len(runs[r])
           /\ \A j \in 1..Len(runs[r]) :
                 /\ IsCurrent(r, j) => runs'[r][j] = [runs[r][j] EXCEPT !.status = "failed"]
                 /\ ~IsCurrent(r, j) => runs'[r][j] = runs[r][j]
  <1> DEFINE run(j) == IF IsCurrent(r, j) THEN [runs[r][j] EXCEPT !.status = "failed"]
                                          ELSE runs[r][j]
  <1>1. row[r] \in Row /\ runs[r] \in Seq(Run) /\ Len(runs[r]) \in Nat
    BY RunFacts DEF Latest
  <1>2. \A j \in 1..Len(runs[r]) : run(j) \in Run
    BY RunFacts DEF Latest, Run, RunStatus
  <1>3. Released(r) \in Row
    BY <1>1 DEF Released, Row, RowStatus, Owners
  <1>4. row'[r] = Released(r) /\ runs'[r] = [j \in 1..Len(runs[r]) |-> run(j)]
    BY <1>1 DEF RequeueForOrphan, FailCurrentRun, TypeOK, Latest
  <1> HIDE DEF run
  <1>5. runs'[r] \in Seq(Run) /\ Len(runs'[r]) = Len(runs[r])
    BY <1>1, <1>2, <1>4, RunsMapped
  <1>6. \A j \in 1..Len(runs[r]) : runs'[r][j] = run(j)
    BY <1>4
  <1> QED
    BY <1>3, <1>4, <1>5, <1>6 DEF run

(* A restart only ever turns reviewing rows and running runs into failed   *)
(* ones, and takes the local executors away.                               *)
LEMMA RestartEffect ==
    ASSUME TypeOK, NEW rows \in [Reviews -> Row], RestartWith(rows), NEW r \in Reviews
    PROVE  /\ row'[r] \in Row /\ runs'[r] \in Seq(Run)
           /\ mode = "local" /\ rows[r].status = "reviewing"
                => row'[r] = [rows[r] EXCEPT !.status = "failed"]
           /\ ~(mode = "local" /\ rows[r].status = "reviewing") => row'[r] = rows[r]
           /\ Len(runs'[r]) = Len(runs[r])
           /\ \A k \in 1..Len(runs[r]) :
                IF mode = "local" /\ rows[r].status = "reviewing" /\ k \in Running(r)
                THEN runs'[r][k] = [runs[r][k] EXCEPT !.status = "failed"]
                ELSE runs'[r][k] = runs[r][k]
           /\ \A k \in reports'[r] : k \in reports[r] /\ runs[r][k].worker # Local
  <1> DEFINE run(k) == IF k \in Running(r) THEN [runs[r][k] EXCEPT !.status = "failed"]
                                           ELSE runs[r][k]
  <1>1. runs[r] \in Seq(Run) /\ Len(runs[r]) \in Nat
    BY RunFacts DEF Latest
  <1>2. \A k \in 1..Len(runs[r]) : run(k) \in Run
    BY RunFacts DEF Latest, Run, RunStatus
  <1>3. [rows[r] EXCEPT !.status = "failed"] \in Row
    BY DEF Row, RowStatus
  <1>4. /\ mode = "local" /\ rows[r].status = "reviewing"
             => row'[r] = [rows[r] EXCEPT !.status = "failed"]
        /\ ~(mode = "local" /\ rows[r].status = "reviewing") => row'[r] = rows[r]
    BY DEF RestartWith, Recovered
  <1>5. \A k \in reports'[r] : k \in reports[r] /\ runs[r][k].worker # Local
    BY DEF RestartWith, SurvivingReports
  <1>6. CASE mode = "local" /\ rows[r].status = "reviewing"
    <2>1. runs'[r] = [k \in 1..Len(runs[r]) |-> run(k)]
      BY <1>6 DEF RestartWith, RecoveredRuns, Latest
    <2> HIDE DEF run
    <2>2. runs'[r] \in Seq(Run) /\ Len(runs'[r]) = Len(runs[r])
      BY <1>1, <1>2, <2>1, RunsMapped
    <2>3. \A k \in 1..Len(runs[r]) : runs'[r][k] = run(k)
      BY <2>1
    <2> QED
      BY <1>3, <1>4, <1>6, <1>5, <2>2, <2>3 DEF run
  <1>7. CASE ~(mode = "local" /\ rows[r].status = "reviewing")
    <2>1. runs'[r] = runs[r]
      BY <1>7 DEF RestartWith, RecoveredRuns
    <2> QED
      BY <1>1, <1>4, <1>7, <1>5, <2>1
  <1> QED
    BY <1>6, <1>7

----------------------------------------------------------------------------
(* Type correctness. *)

LEMMA OperationTypes ==
    ASSUME TypeOK, NEW r \in Reviews, ReportsExist(r), Operation(r)
    PROVE  TypeOK'
  <1>0. /\ row[r] \in Row /\ Latest(r) \in Nat /\ \A k \in 1..Latest(r) : runs[r][k] \in Run
        /\ reports[r] \subseteq Nat /\ Local \in Owners
    BY RunFacts DEF TypeOK, Owners
  <1>1. ASSUME NEW new \in Row, row' = [row EXCEPT ![r] = new],
               UNCHANGED <<mode, runs, reports, torn>>
        PROVE  TypeOK'
    BY <1>1 DEF TypeOK
  <1>2. Requeued(r) \in Row /\ Released(r) \in Row /\ Assigned(r, Local) \in Row
    BY <1>0 DEF Requeued, Released, Assigned, Row, RowStatus
  <1>3. CASE Submit(r) \/ Retry(r)
    BY <1>1, <1>2, <1>3 DEF Submit, Retry
  <1>4. CASE ResetContext(r)
    <2>1. Requeued(r).context + 1 \in Nat \ {0}
      BY <1>2 DEF Row
    <2>2. \A c \in Nat \ {0} : [Requeued(r) EXCEPT !.context = c, !.session = 0] \in Row
      BY <1>2 DEF Row
    <2> QED
      BY <1>1, <1>4, <2>1, <2>2 DEF ResetContext
  <1>5. ASSUME NEW w \in Owners, Start(r, w)
        PROVE  TypeOK'
    <2>1. row'[r] \in Row /\ runs'[r] \in Seq(Run)
      BY <1>5, StartEffect
    <2>2. reports'[r] \in SUBSET Nat
      BY <1>0, <1>5, StartEffect DEF Latest
    <2> QED
      BY <1>5, <2>1, <2>2 DEF Start, TypeOK
  <1>6. CASE \E w \in Workers : StartRemote(r, w)
    BY <1>5, <1>6 DEF StartRemote, Owners
  <1>7. CASE StartLocal(r)
    BY <1>0, <1>5, <1>7 DEF StartLocal
  <1>8. CASE StartRemoteFails(r)
    <2>1. [Released(r) EXCEPT !.verdict = 0] \in Row
      BY <1>2 DEF Row
    <2> QED
      BY <1>1, <1>8, <2>1 DEF StartRemoteFails
  <1>9. CASE StartLocalFails(r)
    <2>1. [Assigned(r, Local) EXCEPT !.status = "failed"] \in Row
      BY <1>2 DEF Row, RowStatus
    <2> QED
      BY <1>1, <1>9, <2>1 DEF StartLocalFails
  <1>10. ASSUME NEW k \in 1..Latest(r), IngestRunResult(r, k)
         PROVE  TypeOK'
    <2>1. row'[r] \in Row /\ runs'[r] \in Seq(Run)
      BY <1>10, IngestEffect
    <2> QED
      BY <1>10, <2>1 DEF IngestRunResult, TypeOK
  <1>11. ASSUME NEW k \in 1..Latest(r), NEW s \in Nat, NEW out \in {"succeeded", "failed"},
                Publish(r, k, out, s),
                \E j \in reports[r] : reports' = [reports EXCEPT ![r] = @ \ {j}],
                UNCHANGED <<mode, torn>>
         PROVE  TypeOK'
    <2>1. row'[r] \in Row /\ runs'[r] \in Seq(Run)
      BY <1>11, PublishEffect
    <2> QED
      BY <1>11, <2>1 DEF Publish, TypeOK
  <1>12. ASSUME NEW k \in reports[r], NEW ok \in BOOLEAN, CompleteRemoteRun(r, k, ok)
         PROVE  TypeOK'
    <2>1. k \in 1..Latest(r)
      BY <1>12 DEF CompleteRemoteRun, Accepts, IsCurrent, Running
    <2>2. CapturedSession(r, k) \subseteq Nat
      BY <1>0, <2>1 DEF CapturedSession, Row, Run
    <2>3. Outcome(r, k, ok) \in {"succeeded", "failed"}
      BY DEF Outcome
    <2>4. PICK s \in CapturedSession(r, k) : Publish(r, k, Outcome(r, k, ok), s)
      BY <1>12 DEF CompleteRemoteRun
    <2> QED
      BY <1>11, <1>12, <2>1, <2>2, <2>3, <2>4 DEF CompleteRemoteRun
  <1>13. CASE \E k \in reports[r] : DropStaleCompletion(r, k)
    BY <1>13 DEF DropStaleCompletion, TypeOK
  <1>14. ASSUME NEW k \in reports[r], SetReviewSession(r, k)
         PROVE  TypeOK'
    <2>1. runs[r][k].context \in Nat
      BY <1>0 DEF ReportsExist, Run
    <2>2. [row[r] EXCEPT !.session = runs[r][k].context] \in Row
      BY <1>0, <2>1 DEF Row
    <2> QED
      BY <1>1, <1>14, <2>2 DEF SetReviewSession
  <1>15. ASSUME NEW k \in reports[r], NEW ok \in BOOLEAN, FinishLocal(r, k, ok)
         PROVE  TypeOK'
    <2>1. row[r].session \in Nat /\ Running(r) \subseteq 1..Latest(r)
      BY <1>0 DEF Row, Running
    <2>2. PICK c \in Running(r) : Publish(r, c, Outcome(r, c, ok), row[r].session)
      BY <1>15 DEF FinishLocal
    <2>3. Outcome(r, c, ok) \in {"succeeded", "failed"}
      BY DEF Outcome
    <2> QED
      BY <1>11, <1>15, <2>1, <2>2, <2>3 DEF FinishLocal
  <1>16. ASSUME NEW w \in Workers, RequeueForOrphan(r, w)
         PROVE  TypeOK'
    <2>1. row'[r] \in Row /\ runs'[r] \in Seq(Run)
      BY <1>16, RequeueEffect
    <2> QED
      BY <1>16, <2>1 DEF RequeueForOrphan, FailCurrentRun, TypeOK
  <1>17. CASE Archive(r) \/ Unarchive(r)
    <2>1. \A st \in {"archived", "succeeded"} : [row[r] EXCEPT !.status = st] \in Row
      BY <1>0 DEF Row, RowStatus
    <2> QED
      BY <1>1, <1>17, <2>1 DEF Archive, Unarchive
  <1> QED
    BY <1>3, <1>4, <1>6, <1>7, <1>8, <1>9, <1>10, <1>12, <1>13, <1>14, <1>15, <1>16, <1>17
    DEF Operation

LEMMA RestartTypes ==
    ASSUME TypeOK, NEW rows \in [Reviews -> Row], RestartWith(rows)
    PROVE  /\ row' \in [Reviews -> Row] /\ runs' \in [Reviews -> Seq(Run)]
           /\ reports' \in [Reviews -> SUBSET Nat] /\ mode' = mode
  <1>1. \A r \in Reviews : row'[r] \in Row /\ runs'[r] \in Seq(Run)
    BY RestartEffect
  <1>2. \A r \in Reviews : reports'[r] \in SUBSET Nat
    BY RestartEffect DEF TypeOK
  <1>3. /\ row' = [r \in Reviews |-> row'[r]] /\ runs' = [r \in Reviews |-> runs'[r]]
        /\ reports' = [r \in Reviews |-> reports'[r]]
    BY DEF RestartWith, Recovered, RecoveredRuns
  <1> QED
    BY <1>1, <1>2, <1>3 DEF RestartWith

----------------------------------------------------------------------------
(* Each operation preserves the invariant of its own review. *)

\* Writes to the row of a review at rest, that leave it at rest.
LEMMA RestKept ==
    ASSUME TypeOK, NEW r \in Reviews, InvOf(r),
           row[r].status # "reviewing", row'[r].status # "reviewing",
           runs'[r] = runs[r], reports'[r] = reports[r], torn' = torn, mode' = mode,
           row'[r].verdict \in {0, row[r].verdict},
           \/ row'[r].context = row[r].context /\ row'[r].session = row[r].session
           \/ row'[r].session = 0 /\ Running(r) = {}
    PROVE  InvOf(r)'
  <1>1. ReportsExist(r)' /\ Latest(r)' = Latest(r) /\ Running(r)' = Running(r)
    BY DEF InvOf, ReportsExist, Latest, Running
  <1>2. LocalExecutor(r)'
    BY <1>1 DEF InvOf, LocalExecutor
  <1>3. r \notin torn' => OwnershipOf(r)' /\ ResultRecorded(r)'
    BY <1>1 DEF InvOf, OwnershipOf, ResultRecorded
  <1>4. VerdictFence(r)'
    BY <1>1 DEF InvOf, VerdictFence
  <1>5. SessionFence(r)'
    BY <1>1 DEF InvOf, SessionFence
  <1>6. LocalMode(r)'
    BY <1>1 DEF InvOf, LocalMode
  <1> QED
    BY <1>1, <1>2, <1>3, <1>4, <1>5, <1>6 DEF InvOf

LEMMA RestSteps ==
    ASSUME TypeOK, NEW r \in Reviews, InvOf(r),
           \/ Submit(r) \/ Retry(r) \/ ResetContext(r) \/ StartRemoteFails(r)
           \/ StartLocalFails(r) \/ Archive(r) \/ Unarchive(r)
    PROVE  InvOf(r)'
  <1>1. row[r] \in Row /\ row \in [Reviews -> Row]
    BY DEF TypeOK
  <1>2. ASSUME NEW new \in Row, row' = [row EXCEPT ![r] = new],
               UNCHANGED <<mode, runs, reports, torn>>,
               row[r].status # "reviewing", new.status # "reviewing",
               new.verdict \in {0, row[r].verdict},
               \/ new.context = row[r].context /\ new.session = row[r].session
               \/ new.session = 0 /\ Running(r) = {}
        PROVE  InvOf(r)'
    <2>1. row'[r] = new
      BY <1>1, <1>2
    <2> QED
      BY <1>2, <2>1, RestKept
  <1>3. /\ Requeued(r) \in Row /\ Requeued(r).status = "pending" /\ Requeued(r).verdict = 0
        /\ Requeued(r).context = row[r].context /\ Requeued(r).session = row[r].session
    BY <1>1 DEF Requeued, Row, RowStatus
  <1>4. /\ Released(r) \in Row /\ Released(r).status = "pending"
        /\ Released(r).context = row[r].context /\ Released(r).session = row[r].session
    BY <1>1 DEF Released, Row, RowStatus, Owners
  <1>5. /\ Assigned(r, Local) \in Row /\ Assigned(r, Local).verdict = 0
        /\ Assigned(r, Local).context = row[r].context /\ Assigned(r, Local).session = row[r].session
    BY <1>1 DEF Assigned, Row, RowStatus, Owners
  <1>6. CASE Submit(r) \/ Retry(r)
    BY <1>2, <1>3, <1>6 DEF Submit, Retry, Finished
  <1>7. CASE ResetContext(r)
    <2> DEFINE new == [Requeued(r) EXCEPT !.context = Requeued(r).context + 1, !.session = 0]
    <2>1. Requeued(r).context + 1 \in Nat \ {0}
      BY <1>3 DEF Row
    <2>2. \A c \in Nat \ {0} :
             LET reset == [Requeued(r) EXCEPT !.context = c, !.session = 0]
             IN  reset \in Row /\ reset.session = 0 /\ reset.verdict = 0 /\ reset.status = "pending"
      BY <1>3 DEF Row
    <2>3. new \in Row /\ new.session = 0 /\ new.verdict = 0 /\ new.status = "pending"
      BY <2>1, <2>2
    <2>4. row' = [row EXCEPT ![r] = new]
      BY <1>7 DEF ResetContext
    <2> HIDE DEF new
    <2> QED
      BY <1>2, <1>7, <2>3, <2>4 DEF ResetContext, Finished
  <1>8. CASE StartRemoteFails(r)
    <2> DEFINE new == [Released(r) EXCEPT !.verdict = 0]
    <2>1. /\ new \in Row /\ new.status = "pending" /\ new.verdict = 0
          /\ new.context = row[r].context /\ new.session = row[r].session
      BY <1>4 DEF Row
    <2>2. row' = [row EXCEPT ![r] = new]
      BY <1>8 DEF StartRemoteFails
    <2> HIDE DEF new
    <2> QED
      BY <1>2, <1>8, <2>1, <2>2 DEF StartRemoteFails
  <1>9. CASE StartLocalFails(r)
    <2> DEFINE new == [Assigned(r, Local) EXCEPT !.status = "failed"]
    <2>1. /\ new \in Row /\ new.status = "failed" /\ new.verdict = 0
          /\ new.context = row[r].context /\ new.session = row[r].session
      BY <1>5 DEF Row, RowStatus
    <2>2. row' = [row EXCEPT ![r] = new]
      BY <1>9 DEF StartLocalFails
    <2> HIDE DEF new
    <2> QED
      BY <1>2, <1>9, <2>1, <2>2 DEF StartLocalFails
  <1>10. CASE Archive(r) \/ Unarchive(r)
    <2>1. PICK st \in {"archived", "succeeded"} : row' = [row EXCEPT ![r] = [row[r] EXCEPT !.status = st]]
      BY <1>1, <1>10 DEF Archive, Unarchive
    <2> DEFINE new == [row[r] EXCEPT !.status = st]
    <2>2. /\ new \in Row /\ new.status = st /\ new.verdict = row[r].verdict
          /\ new.context = row[r].context /\ new.session = row[r].session
      BY <1>1 DEF Row, RowStatus
    <2>3. row' = [row EXCEPT ![r] = new]
      BY <2>1
    <2> HIDE DEF new
    <2> QED
      BY <1>2, <1>10, <2>2, <2>3 DEF Archive, Unarchive, Finished
  <1> QED
    BY <1>6, <1>7, <1>8, <1>9, <1>10

LEMMA StartKeepsInv ==
    ASSUME TypeOK, NEW r \in Reviews, InvOf(r), NEW w \in Owners, Start(r, w),
           mode = "local" => w = Local
    PROVE  InvOf(r)'
  <1> DEFINE n == Len(runs[r])
  <1>1. /\ n \in Nat /\ Len(runs'[r]) = n + 1
        /\ \A k \in 1..n : runs'[r][k] = runs[r][k]
        /\ runs'[r][n + 1] = NewRun(r, w)
        /\ reports'[r] = reports[r] \cup {n + 1}
    BY RunFacts, StartEffect DEF Latest
  <1>2. /\ row'[r].status = "reviewing" /\ row'[r].worker = w /\ row'[r].verdict = 0
        /\ row'[r].context = row[r].context /\ row'[r].session = row[r].session
    BY StartEffect
  <1>3. /\ NewRun(r, w).status = "running" /\ NewRun(r, w).worker = w
        /\ NewRun(r, w).verdict = FALSE /\ NewRun(r, w).context = row[r].context
    BY DEF NewRun
  <1>4. row[r].status = "pending" /\ torn' = torn
    BY DEF Start
  <1>5. ReportsExist(r)'
    BY <1>1 DEF InvOf, ReportsExist, Latest
  <1>6. LocalExecutor(r)'
    BY <1>1, <1>2, <1>3, <1>4 DEF InvOf, LocalExecutor, ReportsExist, Latest
  <1>7. Running(r)' = Running(r) \cup {n + 1}
    BY <1>1, <1>3 DEF Running, Latest
  <1>8. r \notin torn' => OwnershipOf(r)' /\ ResultRecorded(r)'
    <2>1. ResultRecorded(r)'
      BY <1>1, <1>2, <1>3 DEF ResultRecorded, Latest
    <2> QED
      BY <1>1, <1>2, <1>3, <1>4, <1>7, <2>1 DEF InvOf, OwnershipOf, Latest
  <1>9. VerdictFence(r)'
    BY <1>2 DEF VerdictFence
  <1>10. SessionFence(r)'
    BY <1>1, <1>2, <1>3, <1>7 DEF InvOf, SessionFence, Running, Latest
  <1>11. LocalMode(r)'
    BY <1>1, <1>3 DEF InvOf, LocalMode, Latest, Start
  <1> QED
    BY <1>5, <1>6, <1>8, <1>9, <1>10, <1>11 DEF InvOf

LEMMA IngestKeepsInv ==
    ASSUME TypeOK, NEW r \in Reviews, InvOf(r), NEW k \in 1..Latest(r), IngestRunResult(r, k)
    PROVE  InvOf(r)'
  <1>1. /\ row[r] \in Row /\ Latest(r) \in Nat
        /\ \A j \in 1..Latest(r) : runs[r][j] \in Run
    BY RunFacts
  <1>2. /\ row'[r] = [row[r] EXCEPT !.verdict = k]
        /\ Latest(r)' = Latest(r) /\ k = Latest(r)
        /\ \A j \in 1..Latest(r) :
             runs'[r][j] = IF j = k THEN [runs[r][j] EXCEPT !.verdict = TRUE] ELSE runs[r][j]
    BY IngestEffect DEF Latest, IngestRunResult
  <1>3. reports' = reports /\ torn' = torn /\ mode' = mode
    BY DEF IngestRunResult
  <1>4. /\ row'[r].status = row[r].status /\ row'[r].worker = row[r].worker
        /\ row'[r].verdict = k /\ row'[r].context = row[r].context
        /\ row'[r].session = row[r].session
    BY <1>1, <1>2 DEF Row
  <1>5. \A j \in 1..Latest(r) : /\ runs'[r][j].status = runs[r][j].status
                               /\ runs'[r][j].worker = runs[r][j].worker
                               /\ runs'[r][j].context = runs[r][j].context
    BY <1>1, <1>2 DEF Run
  <1>6. runs'[r][k].verdict = TRUE
    BY <1>1, <1>2 DEF Run
  <1>7. Running(r)' = Running(r)
    BY <1>2, <1>5 DEF Running
  <1>8. ReportsExist(r)' /\ LocalExecutor(r)'
    BY <1>2, <1>3, <1>4, <1>5 DEF InvOf, ReportsExist, LocalExecutor
  <1>9. r \notin torn' => OwnershipOf(r)'
    BY <1>2, <1>3, <1>4, <1>5, <1>7 DEF InvOf, OwnershipOf
  <1>10. ResultRecorded(r)' /\ VerdictFence(r)'
    BY <1>1, <1>2, <1>4, <1>6 DEF ResultRecorded, VerdictFence
  <1>11. SessionFence(r)'
    BY <1>2, <1>4, <1>5, <1>7 DEF InvOf, SessionFence, Running
  <1>12. LocalMode(r)'
    BY <1>2, <1>3, <1>5 DEF InvOf, LocalMode
  <1> QED
    BY <1>8, <1>9, <1>10, <1>11, <1>12 DEF InvOf

(* Publishing the outcome of the current run of a review, by an executor   *)
(* after which no local one is left.                                       *)
LEMMA PublishKeepsInv ==
    ASSUME TypeOK, NEW r \in Reviews, InvOf(r), row[r].status = "reviewing",
           NEW k \in Running(r), IsCurrent(r, k), NEW s \in {0, row[r].context},
           NEW out \in {"succeeded", "failed"}, Publish(r, k, out, s),
           torn' = torn, mode' = mode,
           reports'[r] \subseteq reports[r], \A j \in reports'[r] : runs[r][j].worker # Local
    PROVE  InvOf(r)'
  <1>1. /\ row[r] \in Row /\ Latest(r) \in Nat /\ k \in 1..Latest(r) /\ s \in Nat
        /\ \A j \in 1..Latest(r) : runs[r][j] \in Run
    BY RunFacts DEF Row
  <1>2. /\ row'[r].status = out /\ row'[r].session = s /\ row'[r].worker = row[r].worker
        /\ row'[r].verdict = row[r].verdict /\ row'[r].context = row[r].context
    BY <1>1, PublishEffect
  <1>3. /\ Latest(r)' = Latest(r)
        /\ \A j \in 1..Latest(r) \ {k} : runs'[r][j] = runs[r][j]
        /\ runs'[r][k].status = out
        /\ runs'[r][k].verdict <=> row[r].verdict # 0
        /\ runs'[r][k].worker = runs[r][k].worker
        /\ runs'[r][k].context = runs[r][k].context
    BY <1>1, PublishEffect DEF Latest
  <1>4. Running(r)' = Running(r) \ {k}
    BY <1>1, <1>3 DEF Running
  <1>5. ReportsExist(r)'
    BY <1>3 DEF InvOf, ReportsExist
  <1>6. LocalExecutor(r)'
    <2>1. \A j \in reports'[r] : runs'[r][j].worker = runs[r][j].worker
      BY <1>3, <1>5 DEF ReportsExist
    <2> QED
      BY <2>1 DEF LocalExecutor
  <1>7. r \notin torn' => OwnershipOf(r)' /\ ResultRecorded(r)'
    BY <1>2, <1>4 DEF InvOf, OwnershipOf, ResultRecorded, IsCurrent
  <1>8. VerdictFence(r)'
    BY <1>1, <1>2, <1>3 DEF InvOf, VerdictFence
  <1>9. SessionFence(r)'
    BY <1>1, <1>2, <1>3, <1>4 DEF InvOf, SessionFence, Running
  <1>10. LocalMode(r)'
    BY <1>3 DEF InvOf, LocalMode
  <1> QED
    BY <1>5, <1>6, <1>7, <1>8, <1>9, <1>10 DEF InvOf

LEMMA CompleteKeepsInv ==
    ASSUME TypeOK, NEW r \in Reviews, InvOf(r), NEW k \in reports[r], NEW ok \in BOOLEAN,
           CompleteRemoteRun(r, k, ok)
    PROVE  InvOf(r)'
  <1>1. IsCurrent(r, k) /\ k \in Running(r) /\ row[r].status = "reviewing"
    BY DEF CompleteRemoteRun, Accepts, IsCurrent
  <1>2. CapturedSession(r, k) \subseteq {0, row[r].context}
    BY <1>1 DEF CapturedSession, InvOf, SessionFence
  <1>3. PICK s \in CapturedSession(r, k) : Publish(r, k, Outcome(r, k, ok), s)
    BY DEF CompleteRemoteRun
  <1>4. Outcome(r, k, ok) \in {"succeeded", "failed"}
    BY DEF Outcome
  <1>5. torn' = torn /\ mode' = mode /\ reports'[r] = reports[r] \ {k}
    BY DEF CompleteRemoteRun, TypeOK
  <1>6. \A j \in reports'[r] : runs[r][j].worker # Local
    BY <1>5 DEF InvOf, LocalExecutor, CompleteRemoteRun, Accepts
  <1> QED
    BY <1>1, <1>2, <1>3, <1>4, <1>5, <1>6, PublishKeepsInv

LEMMA FinishKeepsInv ==
    ASSUME TypeOK, NEW r \in Reviews, InvOf(r), NEW k \in reports[r], NEW ok \in BOOLEAN,
           FinishLocal(r, k, ok)
    PROVE  InvOf(r)'
  <1>1. PICK c \in Running(r) : IsCurrent(r, c) /\ Publish(r, c, Outcome(r, c, ok), row[r].session)
    BY DEF FinishLocal
  <1>2. row[r].status = "reviewing" /\ row[r].session \in {0, row[r].context}
    BY DEF FinishLocal, InvOf, SessionFence
  <1>3. Outcome(r, c, ok) \in {"succeeded", "failed"}
    BY DEF Outcome
  <1>4. torn' = torn /\ mode' = mode /\ reports'[r] = reports[r] \ {k}
    BY DEF FinishLocal, TypeOK
  <1>5. \A j \in reports'[r] : runs[r][j].worker # Local
    BY <1>4 DEF InvOf, LocalExecutor, FinishLocal
  <1> QED
    BY <1>1, <1>2, <1>3, <1>4, <1>5, PublishKeepsInv

LEMMA SessionKeepsInv ==
    ASSUME TypeOK, NEW r \in Reviews, InvOf(r), NEW k \in reports[r], SetReviewSession(r, k)
    PROVE  InvOf(r)'
  <1>1. row[r] \in Row /\ runs' = runs /\ reports' = reports /\ torn' = torn /\ mode' = mode
    BY RunFacts DEF SetReviewSession
  <1>2. row'[r] = [row[r] EXCEPT !.session = runs[r][k].context]
    BY DEF SetReviewSession, TypeOK
  <1>3. k \in Running(r)
    BY DEF SetReviewSession, InvOf, LocalExecutor, ReportsExist, Running
  <1>4. /\ row'[r].status = row[r].status /\ row'[r].worker = row[r].worker
        /\ row'[r].verdict = row[r].verdict /\ row'[r].context = row[r].context
        /\ row'[r].session = row[r].context
    BY <1>1, <1>2, <1>3 DEF Row, InvOf, SessionFence
  <1>5. Latest(r)' = Latest(r) /\ Running(r)' = Running(r)
    BY <1>1 DEF Latest, Running
  <1>6. ReportsExist(r)' /\ LocalExecutor(r)'
    BY <1>1, <1>4, <1>5 DEF InvOf, ReportsExist, LocalExecutor
  <1>7. r \notin torn' => OwnershipOf(r)' /\ ResultRecorded(r)'
    BY <1>1, <1>4, <1>5 DEF InvOf, OwnershipOf, ResultRecorded
  <1>8. VerdictFence(r)' /\ SessionFence(r)'
    BY <1>1, <1>4, <1>5 DEF InvOf, VerdictFence, SessionFence
  <1>9. LocalMode(r)'
    BY <1>1, <1>5 DEF InvOf, LocalMode
  <1> QED
    BY <1>6, <1>7, <1>8, <1>9 DEF InvOf

LEMMA DropKeepsInv ==
    ASSUME TypeOK, NEW r \in Reviews, InvOf(r), NEW k \in reports[r],
           DropStaleCompletion(r, k)
    PROVE  InvOf(r)'
  <1>1. /\ row' = row /\ runs' = runs /\ torn' = torn /\ mode' = mode
        /\ reports'[r] \subseteq reports[r]
    BY DEF DropStaleCompletion, TypeOK
  <1> QED
    BY <1>1 DEF InvOf, ReportsExist, LocalMode, LocalExecutor, OwnershipOf, ResultRecorded, VerdictFence,
                SessionFence, Latest, Running

LEMMA RequeueKeepsInv ==
    ASSUME TypeOK, NEW r \in Reviews, InvOf(r), NEW w \in Workers, RequeueForOrphan(r, w)
    PROVE  InvOf(r)'
  <1>1. /\ row[r] \in Row /\ Latest(r) \in Nat
        /\ \A j \in 1..Latest(r) : runs[r][j] \in Run
    BY RunFacts
  <1>2. /\ row'[r].status = "pending" /\ row'[r].verdict = row[r].verdict
        /\ row'[r].context = row[r].context /\ row'[r].session = row[r].session
    <2>1. row'[r] = Released(r)
      BY RequeueEffect
    <2> QED
      BY <1>1, <2>1 DEF Released, Row
  <1>3. /\ Latest(r)' = Latest(r)
        /\ \A j \in 1..Latest(r) :
             /\ IsCurrent(r, j) => runs'[r][j] = [runs[r][j] EXCEPT !.status = "failed"]
             /\ ~IsCurrent(r, j) => runs'[r][j] = runs[r][j]
    BY RequeueEffect DEF Latest
  <1>4. \A j \in 1..Latest(r) :
             /\ runs'[r][j].status = IF IsCurrent(r, j) THEN "failed" ELSE runs[r][j].status
             /\ runs'[r][j].worker = runs[r][j].worker
             /\ runs'[r][j].verdict = runs[r][j].verdict
             /\ runs'[r][j].context = runs[r][j].context
    BY <1>1, <1>3 DEF Run
  <1>5. Running(r)' = {j \in Running(r) : ~IsCurrent(r, j)}
    BY <1>3, <1>4 DEF Running
  <1>6. reports' = reports /\ torn' = torn /\ mode' = mode /\ row[r].worker # Local
    BY LocalAssumption DEF RequeueForOrphan
  <1>7. ReportsExist(r)' /\ LocalExecutor(r)'
    BY <1>3, <1>4, <1>6 DEF InvOf, ReportsExist, LocalExecutor
  <1>8. r \notin torn' => OwnershipOf(r)' /\ ResultRecorded(r)'
    <2>1. r \notin torn => Running(r) = {Latest(r)}
      BY DEF RequeueForOrphan, InvOf, OwnershipOf
    <2>2. r \notin torn => \A j \in Running(r) : IsCurrent(r, j)
      BY <1>1, <2>1 DEF IsCurrent
    <2> QED
      BY <1>2, <1>5, <1>6, <2>2 DEF OwnershipOf, ResultRecorded
  <1>9. VerdictFence(r)'
    BY <1>1, <1>2, <1>3, <1>4 DEF InvOf, VerdictFence, Row
  <1>10. SessionFence(r)'
    BY <1>2, <1>4, <1>5 DEF InvOf, SessionFence, Running
  <1>11. LocalMode(r)'
    BY <1>3, <1>4, <1>6 DEF InvOf, LocalMode
  <1> QED
    BY <1>7, <1>8, <1>9, <1>10, <1>11 DEF InvOf

(* A restart, after a crash that may have cut an operation on r in two.    *)
LEMMA RestartKeepsInv ==
    ASSUME TypeOK, NEW r \in Reviews, InvOf(r), NEW rows \in [Reviews -> Row], RestartWith(rows),
           torn \subseteq torn', r \notin torn' => rows[r] = row[r],
           rows[r].verdict \in {0, row[r].verdict},
           rows[r].context = row[r].context, rows[r].session = row[r].session
    PROVE  InvOf(r)'
  <1> DEFINE interrupted == mode = "local" /\ rows[r].status = "reviewing"
  <1>1. /\ rows[r] \in Row /\ Latest(r) \in Nat
        /\ \A j \in 1..Latest(r) : runs[r][j] \in Run
    BY RunFacts
  <1>2. /\ interrupted => row'[r] = [rows[r] EXCEPT !.status = "failed"]
        /\ ~interrupted => row'[r] = rows[r]
    BY RestartEffect
  <1>3. /\ Latest(r)' = Latest(r)
        /\ \A k \in 1..Latest(r) :
             /\ interrupted /\ k \in Running(r) => runs'[r][k] = [runs[r][k] EXCEPT !.status = "failed"]
             /\ ~(interrupted /\ k \in Running(r)) => runs'[r][k] = runs[r][k]
    BY RestartEffect DEF Latest
  <1>4. /\ row'[r].verdict = rows[r].verdict /\ row'[r].context = row[r].context
        /\ row'[r].session = row[r].session /\ row'[r].worker = rows[r].worker
        /\ row'[r].status = IF interrupted THEN "failed" ELSE rows[r].status
    BY <1>1, <1>2 DEF Row
  <1> HIDE DEF interrupted
  <1>5. \A k \in 1..Latest(r) :
             /\ runs'[r][k].status = IF interrupted /\ k \in Running(r) THEN "failed" ELSE runs[r][k].status
             /\ runs'[r][k].worker = runs[r][k].worker
             /\ runs'[r][k].verdict = runs[r][k].verdict
             /\ runs'[r][k].context = runs[r][k].context
    BY <1>1, <1>3 DEF Run
  <1>6. Running(r)' = IF interrupted THEN {} ELSE Running(r)
    BY <1>3, <1>5 DEF Running
  <1>7. \A k \in reports'[r] : k \in 1..Latest(r) /\ runs[r][k].worker # Local
    BY RestartEffect DEF InvOf, ReportsExist
  <1>8. ReportsExist(r)' /\ LocalExecutor(r)'
    BY <1>3, <1>5, <1>7 DEF ReportsExist, LocalExecutor
  <1>9. r \notin torn' => OwnershipOf(r)' /\ ResultRecorded(r)'
    <2>1. CASE interrupted
      BY <1>4, <1>6, <2>1 DEF OwnershipOf, ResultRecorded
    <2>2. CASE ~interrupted
      BY <1>1, <1>3, <1>4, <1>5, <1>6, <2>2 DEF InvOf, OwnershipOf, ResultRecorded
    <2> QED
      BY <2>1, <2>2
  <1>10. VerdictFence(r)'
    BY <1>1, <1>3, <1>4, <1>5 DEF InvOf, VerdictFence, Row
  <1>11. SessionFence(r)'
    BY <1>3, <1>4, <1>5, <1>6 DEF InvOf, SessionFence, Running
  <1>12. LocalMode(r)'
    BY <1>3, <1>5 DEF InvOf, LocalMode, RestartWith
  <1> QED
    BY <1>8, <1>9, <1>10, <1>11, <1>12 DEF InvOf

----------------------------------------------------------------------------
(* The whole step. *)

LEMMA OperationKeepsInv ==
    ASSUME TypeOK, NEW r \in Reviews, InvOf(r), Operation(r)
    PROVE  InvOf(r)'
  <1>1. CASE \/ Submit(r) \/ Retry(r) \/ ResetContext(r) \/ StartRemoteFails(r)
             \/ StartLocalFails(r) \/ Archive(r) \/ Unarchive(r)
    BY <1>1, RestSteps
  <1>2. CASE StartLocal(r) \/ \E w \in Workers : StartRemote(r, w)
    BY <1>2, StartKeepsInv DEF StartLocal, StartRemote, Owners
  <1>3. CASE \E k \in 1..Latest(r) : IngestRunResult(r, k)
    BY <1>3, IngestKeepsInv
  <1>4. CASE \E k \in reports[r], ok \in BOOLEAN : CompleteRemoteRun(r, k, ok)
    BY <1>4, CompleteKeepsInv
  <1>5. CASE \E k \in reports[r] : DropStaleCompletion(r, k)
    BY <1>5, DropKeepsInv
  <1>6. CASE \E k \in reports[r] : SetReviewSession(r, k)
    BY <1>6, SessionKeepsInv
  <1>7. CASE \E k \in reports[r], ok \in BOOLEAN : FinishLocal(r, k, ok)
    BY <1>7, FinishKeepsInv
  <1>8. CASE \E w \in Workers : RequeueForOrphan(r, w)
    BY <1>8, RequeueKeepsInv
  <1> QED
    BY <1>1, <1>2, <1>3, <1>4, <1>5, <1>6, <1>7, <1>8 DEF Operation

(* An operation on one review writes nothing of another.                   *)
LEMMA OperationFrame ==
    ASSUME TypeOK, NEW r \in Reviews, Operation(r), NEW q \in Reviews, q # r
    PROVE  /\ row'[q] = row[q] /\ runs'[q] = runs[q] /\ reports'[q] = reports[q]
           /\ torn' = torn /\ mode' = mode
  <1>1. CASE \/ Submit(r) \/ Retry(r) \/ ResetContext(r) \/ StartRemoteFails(r)
             \/ StartLocalFails(r) \/ Archive(r) \/ Unarchive(r)
    BY <1>1 DEF TypeOK, Submit, Retry, ResetContext, StartRemoteFails, StartLocalFails,
                Archive, Unarchive
  <1>2. CASE StartLocal(r) \/ \E w \in Workers : StartRemote(r, w)
    BY <1>2 DEF TypeOK, StartLocal, StartRemote, Start
  <1>3. CASE \E k \in 1..Latest(r) : IngestRunResult(r, k)
    BY <1>3 DEF TypeOK, IngestRunResult
  <1>4. CASE \E k \in reports[r], ok \in BOOLEAN : CompleteRemoteRun(r, k, ok)
    BY <1>4 DEF TypeOK, CompleteRemoteRun, Publish
  <1>5. CASE \E k \in reports[r] : DropStaleCompletion(r, k)
    BY <1>5 DEF TypeOK, DropStaleCompletion
  <1>6. CASE \E k \in reports[r] : SetReviewSession(r, k)
    BY <1>6 DEF TypeOK, SetReviewSession
  <1>7. CASE \E k \in reports[r], ok \in BOOLEAN : FinishLocal(r, k, ok)
    BY <1>7 DEF TypeOK, FinishLocal, Publish
  <1>8. CASE \E w \in Workers : RequeueForOrphan(r, w)
    BY <1>8 DEF TypeOK, RequeueForOrphan, FailCurrentRun
  <1> QED
    BY <1>1, <1>2, <1>3, <1>4, <1>5, <1>6, <1>7, <1>8 DEF Operation

(* Every crash restarts the server on some rows it left behind: the ones   *)
(* it had, or those with the first half of one operation written.          *)
LEMMA CrashRows ==
    ASSUME TypeOK, Restart \/ \E t \in Reviews : Torn(t)
    PROVE  \E rows \in [Reviews -> Row] :
              /\ RestartWith(rows)
              /\ torn \subseteq torn' /\ torn' \subseteq Reviews
              /\ \A r \in Reviews :
                    /\ r \notin torn' => rows[r] = row[r]
                    /\ mode # "local" /\ rows[r].status \in {"succeeded", "failed"}
                         => rows[r].status = row[r].status
                    /\ rows[r].status = "succeeded" => row[r].status = "succeeded"
                    /\ rows[r].verdict \in {0, row[r].verdict}
                    /\ rows[r].context = row[r].context /\ rows[r].session = row[r].session
  <1>0. row \in [Reviews -> Row] /\ torn \subseteq Reviews /\ Local \in Owners /\ Workers \subseteq Owners
    BY DEF TypeOK, Owners
  <1>1. CASE Restart
    BY <1>0, <1>1 DEF Restart
  <1>2. ASSUME NEW t \in Reviews, NEW new \in Row, RestartWith([row EXCEPT ![t] = new]),
               torn' = torn \cup {t}, new.status # "succeeded",
               mode = "local" \/ new.status # "failed", new.verdict \in {0, row[t].verdict},
               new.context = row[t].context, new.session = row[t].session
        PROVE  \E rows \in [Reviews -> Row] :
                 /\ RestartWith(rows)
                 /\ torn \subseteq torn' /\ torn' \subseteq Reviews
                 /\ \A r \in Reviews :
                       /\ r \notin torn' => rows[r] = row[r]
                       /\ mode # "local" /\ rows[r].status \in {"succeeded", "failed"}
                            => rows[r].status = row[r].status
                       /\ rows[r].status = "succeeded" => row[r].status = "succeeded"
                       /\ rows[r].verdict \in {0, row[r].verdict}
                       /\ rows[r].context = row[r].context /\ rows[r].session = row[r].session
    <2> DEFINE left == [row EXCEPT ![t] = new]
    <2>1. left \in [Reviews -> Row]
      BY <1>0, <1>2
    <2>2. \A r \in Reviews : left[r] = IF r = t THEN new ELSE row[r]
      BY <1>0
    <2>3. RestartWith(left)
      BY <1>2
    <2> HIDE DEF left
    <2> QED
      BY <1>0, <1>2, <2>1, <2>2, <2>3
  <1>3. ASSUME NEW t \in Reviews, NEW w \in Owners, TornStart(t, w)
        PROVE  /\ Assigned(t, w) \in Row /\ Assigned(t, w).verdict = 0
               /\ Assigned(t, w).status = "reviewing"
               /\ Assigned(t, w).context = row[t].context /\ Assigned(t, w).session = row[t].session
    BY <1>0, <1>3 DEF Assigned, Row, RowStatus
  <1>4. ASSUME NEW t \in Reviews
        PROVE  /\ Released(t) \in Row /\ Released(t).verdict = row[t].verdict
               /\ Released(t).status = "pending"
               /\ Released(t).context = row[t].context /\ Released(t).session = row[t].session
    BY <1>0, <1>4 DEF Released, Row, RowStatus
  <1>5. ASSUME NEW t \in Reviews, TornRecovery(t)
        PROVE  \E new \in Row :
                 /\ RestartWith([row EXCEPT ![t] = new]) /\ torn' = torn \cup {t} /\ mode = "local"
                 /\ new.status = "failed" /\ new.verdict = row[t].verdict
                 /\ new.context = row[t].context /\ new.session = row[t].session
    <2> DEFINE new == [row[t] EXCEPT !.status = "failed"]
    <2>1. /\ new \in Row /\ new.status = "failed" /\ new.verdict = row[t].verdict
          /\ new.context = row[t].context /\ new.session = row[t].session
      BY <1>0 DEF Row, RowStatus
    <2>2. [row EXCEPT ![t].status = "failed"] = [row EXCEPT ![t] = new]
      BY <1>0
    <2>3. RestartWith([row EXCEPT ![t] = new]) /\ torn' = torn \cup {t} /\ mode = "local"
      BY <1>5, <2>2 DEF TornRecovery
    <2> HIDE DEF new
    <2> QED
      BY <2>1, <2>3
  <1>6. CASE \E t \in Reviews : \E w \in Owners : TornStart(t, w)
    BY <1>2, <1>3, <1>6 DEF TornStart
  <1>7. CASE \E t \in Reviews : \E w \in Workers : TornRequeue(t, w)
    BY <1>2, <1>4, <1>7 DEF TornRequeue
  <1>8. CASE \E t \in Reviews : TornRecovery(t)
    BY <1>2, <1>5, <1>8
  <1> QED
    BY <1>1, <1>6, <1>7, <1>8 DEF Torn

LEMMA InitInv == Init => IInv
  <1> SUFFICES ASSUME Init PROVE IInv
    OBVIOUS
  <1>1. TypeOK
    BY ModesAssumption DEF Init, TypeOK, Row, RowStatus, Owners
  <1>2. ASSUME NEW r \in Reviews
        PROVE  InvOf(r)
    BY DEF Init, InvOf, LocalMode, ReportsExist, LocalExecutor, OwnershipOf, ResultRecorded,
           VerdictFence, SessionFence, Running, Latest
  <1> QED
    BY <1>1, <1>2 DEF IInv

LEMMA StepInv == IInv /\ [Next]_vars => IInv'
  <1> SUFFICES ASSUME IInv, [Next]_vars PROVE IInv'
    OBVIOUS
  <1>0. TypeOK /\ \A r \in Reviews : InvOf(r)
    BY DEF IInv
  <1>1. ASSUME NEW r \in Reviews, Operation(r)
        PROVE  IInv'
    <2>1. TypeOK'
      BY <1>0, <1>1, OperationTypes DEF InvOf
    <2>2. ASSUME NEW q \in Reviews, q # r
          PROVE  InvOf(q)'
      <3>1. /\ row'[q] = row[q] /\ runs'[q] = runs[q] /\ reports'[q] = reports[q]
            /\ torn' = torn /\ mode' = mode
        BY <1>0, <1>1, <2>2, OperationFrame
      <3> QED
        BY <1>0, <3>1 DEF InvOf, ReportsExist, LocalMode, LocalExecutor, OwnershipOf, ResultRecorded,
                          VerdictFence, SessionFence, Running, Latest
    <2>3. InvOf(r)'
      BY <1>0, <1>1, OperationKeepsInv
    <2> QED
      BY <2>1, <2>2, <2>3 DEF IInv
  <1>2. CASE Restart \/ \E t \in Reviews : Torn(t)
    <2>1. PICK rows \in [Reviews -> Row] :
              /\ RestartWith(rows)
              /\ torn \subseteq torn' /\ torn' \subseteq Reviews
              /\ \A r \in Reviews :
                    /\ r \notin torn' => rows[r] = row[r]
                    /\ rows[r].verdict \in {0, row[r].verdict}
                    /\ rows[r].context = row[r].context /\ rows[r].session = row[r].session
      BY <1>0, <1>2, CrashRows
    <2>2. TypeOK'
      BY <1>0, <2>1, RestartTypes DEF TypeOK
    <2>3. \A r \in Reviews : InvOf(r)'
      BY <1>0, <2>1, RestartKeepsInv
    <2> QED
      BY <2>2, <2>3 DEF IInv
  <1>3. CASE \E lost \in SUBSET RemoteReports : LoseReports(lost)
    <2>1. /\ row' = row /\ runs' = runs /\ torn' = torn /\ mode' = mode
          /\ reports' \in [Reviews -> SUBSET Nat]
          /\ \A r \in Reviews : reports'[r] \subseteq reports[r]
      BY <1>0, <1>3 DEF LoseReports, Without, TypeOK
    <2> QED
      BY <1>0, <2>1 DEF IInv, TypeOK, InvOf, ReportsExist, LocalMode, LocalExecutor, OwnershipOf,
                        ResultRecorded, VerdictFence, SessionFence, Running, Latest
  <1>4. CASE UNCHANGED vars
    BY <1>0, <1>4 DEF vars, IInv, TypeOK, InvOf, ReportsExist, LocalMode, LocalExecutor, OwnershipOf,
                      ResultRecorded, VerdictFence, SessionFence, Running, Latest
  <1> QED
    BY <1>1, <1>2, <1>3, <1>4 DEF Next

LEMMA InvHolds == Spec => []IInv
  BY InitInv, StepInv, PTL DEF Spec

----------------------------------------------------------------------------
(* The invariants, for every number of reviews, workers and runs. *)

(* Every reachable state is well typed.                                    *)
THEOREM TypeCorrect == Spec => []TypeOK
  BY InvHolds, PTL DEF IInv

(* Outside a crash, a review is reviewing exactly while its newest run is  *)
(* running, for the worker the row is bound to.                            *)
THEOREM OwnershipHolds == Spec => []Ownership
  <1>1. IInv => Ownership
    BY DEF IInv, InvOf, Ownership
  <1> QED
    BY <1>1, InvHolds, PTL

(* The verdict on a row is always one its newest run submitted.            *)
THEOREM VerdictHolds == Spec => []VerdictOfLatestRun
  <1>1. IInv => VerdictOfLatestRun
    BY DEF IInv, InvOf, VerdictOfLatestRun
  <1> QED
    BY <1>1, InvHolds, PTL

(* A reset really detaches the old tool session.                           *)
THEOREM SessionHolds == Spec => []SessionInContext
  <1>1. IInv => SessionInContext
    BY DEF IInv, InvOf, SessionInContext
  <1> QED
    BY <1>1, InvHolds, PTL

----------------------------------------------------------------------------
(* What a step may never do. *)

\* How publishing the outcome of a running run leaves the other runs.
LEMMA PublishSettled ==
    ASSUME TypeOK, NEW r \in Reviews, NEW c \in Running(r), NEW s \in Nat,
           NEW ok \in BOOLEAN, Publish(r, c, Outcome(r, c, ok), s)
    PROVE  /\ Latest(r)' = Latest(r)
           /\ \A k \in 1..Latest(r) : k \notin Running(r) => runs'[r][k] = runs[r][k]
  <1>1. c \in 1..Latest(r)
    BY DEF Running
  <1>2. Outcome(r, c, ok) \in {"succeeded", "failed"}
    BY DEF Outcome
  <1> QED
    BY <1>1, <1>2, PublishEffect DEF Latest

LEMMA OperationSettled ==
    ASSUME TypeOK, NEW r \in Reviews, InvOf(r), Operation(r), NEW k \in 1..Latest(r)
    PROVE  /\ Latest(r)' >= Latest(r)
           /\ k \notin Running(r) =>
                 runs'[r][k] \in {runs[r][k], [runs[r][k] EXCEPT !.verdict = TRUE]}
  <1>0. row[r] \in Row /\ Latest(r) \in Nat /\ Running(r) \subseteq 1..Latest(r)
    BY RunFacts
  <1>1. CASE runs' = runs
    BY <1>0, <1>1 DEF Latest
  <1>2. ASSUME NEW w \in Owners, Start(r, w)
        PROVE  Latest(r)' >= Latest(r) /\ runs'[r][k] = runs[r][k]
    BY <1>0, <1>2, StartEffect DEF Latest
  <1>3. CASE StartLocal(r) \/ \E w \in Workers : StartRemote(r, w)
    BY <1>2, <1>3 DEF StartLocal, StartRemote, Owners
  <1>4. CASE \E j \in 1..Latest(r) : IngestRunResult(r, j)
    <2> DEFINE posted == [runs[r][k] EXCEPT !.verdict = TRUE]
    <2>1. Latest(r)' = Latest(r) /\ runs'[r][k] \in {runs[r][k], posted}
      BY <1>0, <1>4, IngestEffect DEF Latest
    <2> HIDE DEF posted
    <2>2. Latest(r)' >= Latest(r) /\ runs'[r][k] \in {runs[r][k], posted}
      BY <1>0, <2>1
    <2> QED
      BY <2>2 DEF posted
  <1>5. CASE \E j \in reports[r], ok \in BOOLEAN : CompleteRemoteRun(r, j, ok)
    <2>1. PICK j \in reports[r], ok \in BOOLEAN : CompleteRemoteRun(r, j, ok)
      BY <1>5
    <2>2. j \in Running(r)
      BY <2>1 DEF CompleteRemoteRun, Accepts, IsCurrent
    <2>3. PICK s \in CapturedSession(r, j) : Publish(r, j, Outcome(r, j, ok), s)
      BY <2>1 DEF CompleteRemoteRun
    <2>4. s \in Nat
      BY <1>0, <2>2, RunFacts DEF CapturedSession, Row, Run
    <2> QED
      BY <1>0, <2>2, <2>3, <2>4, PublishSettled
  <1>6. CASE \E j \in reports[r], ok \in BOOLEAN : FinishLocal(r, j, ok)
    <2>1. PICK ok \in BOOLEAN, c \in Running(r) : Publish(r, c, Outcome(r, c, ok), row[r].session)
      BY <1>6 DEF FinishLocal
    <2>2. row[r].session \in Nat
      BY <1>0 DEF Row
    <2> QED
      BY <1>0, <2>1, <2>2, PublishSettled
  <1>7. CASE \E w \in Workers : RequeueForOrphan(r, w)
    <2>1. Latest(r)' = Latest(r) /\ (k \notin Running(r) => runs'[r][k] = runs[r][k])
      BY <1>0, <1>7, RequeueEffect DEF Latest, IsCurrent
    <2> QED
      BY <1>0, <2>1
  <1> QED
    BY <1>1, <1>3, <1>4, <1>5, <1>6, <1>7
    DEF Operation, Submit, Retry, ResetContext, StartRemoteFails, StartLocalFails, Archive,
        Unarchive, DropStaleCompletion, SetReviewSession

LEMMA CrashSettled ==
    ASSUME TypeOK, NEW rows \in [Reviews -> Row], RestartWith(rows), NEW r \in Reviews,
           NEW k \in 1..Latest(r)
    PROVE  Latest(r)' = Latest(r) /\ (k \notin Running(r) => runs'[r][k] = runs[r][k])
  BY RestartEffect DEF Latest

(* No run is ever removed, and one that has ended keeps its outcome, its   *)
(* worker and its context.                                                 *)
THEOREM SettledRunsKeptHolds == Spec => SettledRunsKept
  <1> DEFINE Kept(r, k) ==
        /\ Latest(r)' >= Latest(r)
        /\ k \notin Running(r) =>
              runs'[r][k] \in {runs[r][k], [runs[r][k] EXCEPT !.verdict = TRUE]}
  <1>1. ASSUME IInv, [Next]_vars, NEW r \in Reviews, NEW k \in 1..Latest(r)
        PROVE  Kept(r, k)
    <2>0. TypeOK /\ InvOf(r) /\ Latest(r) \in Nat
      BY <1>1, RunFacts DEF IInv
    <2>1. CASE Operation(r)
      BY <1>1, <2>0, <2>1, OperationSettled
    <2>2. CASE \E q \in Reviews : q # r /\ Operation(q)
      <3>1. runs'[r] = runs[r]
        BY <2>0, <2>2, OperationFrame
      <3> QED
        BY <2>0, <3>1 DEF Latest
    <2>3. CASE Restart \/ \E t \in Reviews : Torn(t)
      <3>1. PICK rows \in [Reviews -> Row] : RestartWith(rows)
        BY <2>0, <2>3, CrashRows
      <3> QED
        BY <1>1, <2>0, <3>1, CrashSettled
    <2>4. CASE UNCHANGED vars \/ \E lost \in SUBSET RemoteReports : LoseReports(lost)
      BY <2>0, <2>4 DEF vars, Latest, LoseReports
    <2> QED
      BY <1>1, <2>1, <2>2, <2>3, <2>4 DEF Next
  <1>2. IInv /\ [Next]_vars => [\A r \in Reviews : \A k \in 1..Latest(r) : Kept(r, k)]_vars
    BY <1>1
  <1> QED
    BY <1>2, InvHolds, PTL DEF Spec, SettledRunsKept

\* The steps that settle a review that was reviewing, and how they settle it.
LEMMA OperationSettles ==
    ASSUME TypeOK, NEW r \in Reviews, InvOf(r), Operation(r),
           row[r].status = "reviewing", row'[r].status \in {"succeeded", "failed"}
    PROVE  \E k \in reports[r], c \in Running(r), ok \in BOOLEAN, s \in Nat :
              /\ IsCurrent(r, c) /\ Publish(r, c, Outcome(r, c, ok), s)
              /\ reports'[r] = reports[r] \ {k}
              /\ runs[r][k].worker # Local => k = c
  <1>0. row[r] \in Row
    BY RunFacts
  <1>1. CASE \E k \in reports[r], ok \in BOOLEAN : CompleteRemoteRun(r, k, ok)
    <2>1. PICK k \in reports[r], ok \in BOOLEAN : CompleteRemoteRun(r, k, ok)
      BY <1>1
    <2>2. k \in Running(r) /\ IsCurrent(r, k)
      BY <2>1 DEF CompleteRemoteRun, Accepts, IsCurrent
    <2>3. PICK s \in CapturedSession(r, k) : Publish(r, k, Outcome(r, k, ok), s)
      BY <2>1 DEF CompleteRemoteRun
    <2>4. s \in Nat
      BY <1>0, <2>2, RunFacts DEF CapturedSession, Row, Run
    <2>5. reports'[r] = reports[r] \ {k}
      BY <2>1 DEF CompleteRemoteRun, TypeOK
    <2> QED
      BY <2>2, <2>3, <2>4, <2>5
  <1>2. CASE \E k \in reports[r], ok \in BOOLEAN : FinishLocal(r, k, ok)
    <2>1. PICK k \in reports[r], ok \in BOOLEAN : FinishLocal(r, k, ok)
      BY <1>2
    <2>2. PICK c \in Running(r) : IsCurrent(r, c) /\ Publish(r, c, Outcome(r, c, ok), row[r].session)
      BY <2>1 DEF FinishLocal
    <2>3. row[r].session \in Nat
      BY <1>0 DEF Row
    <2>4. reports'[r] = reports[r] \ {k} /\ runs[r][k].worker = Local
      BY <2>1 DEF FinishLocal, TypeOK
    <2> QED
      BY <2>2, <2>3, <2>4
  <1>3. ~(\/ Submit(r) \/ Retry(r) \/ ResetContext(r) \/ StartRemoteFails(r)
          \/ StartLocalFails(r) \/ Archive(r) \/ Unarchive(r)
          \/ StartLocal(r) \/ \E w \in Workers : StartRemote(r, w))
    BY DEF Submit, Retry, ResetContext, StartRemoteFails, StartLocalFails, Archive, Unarchive,
           StartLocal, StartRemote, Start, Finished
  <1>4. ASSUME \/ \E k \in 1..Latest(r) : IngestRunResult(r, k)
               \/ \E k \in reports[r] : DropStaleCompletion(r, k)
               \/ \E k \in reports[r] : SetReviewSession(r, k)
               \/ \E w \in Workers : RequeueForOrphan(r, w)
        PROVE  row'[r].status \in {"reviewing", "pending"}
    <2>1. CASE \E k \in 1..Latest(r) : IngestRunResult(r, k)
      <3>1. PICK k \in 1..Latest(r) : row' = [row EXCEPT ![r].verdict = k]
        BY <2>1 DEF IngestRunResult
      <3>2. row'[r] = [row[r] EXCEPT !.verdict = k]
        BY <3>1 DEF TypeOK
      <3> QED
        BY <1>0, <3>2 DEF Row
    <2>2. CASE \E k \in reports[r] : DropStaleCompletion(r, k)
      BY <2>2 DEF DropStaleCompletion
    <2>3. CASE \E k \in reports[r] : SetReviewSession(r, k)
      <3>1. PICK k \in reports[r] : row' = [row EXCEPT ![r].session = runs[r][k].context]
        BY <2>3 DEF SetReviewSession
      <3>2. row'[r] = [row[r] EXCEPT !.session = runs[r][k].context]
        BY <3>1 DEF TypeOK
      <3> QED
        BY <1>0, <3>2 DEF Row
    <2>4. CASE \E w \in Workers : RequeueForOrphan(r, w)
      <3>1. row'[r] = Released(r)
        BY <2>4, RequeueEffect
      <3> QED
        BY <1>0, <3>1 DEF Released, Row
    <2> QED
      BY <1>4, <2>1, <2>2, <2>3, <2>4
  <1> QED
    BY <1>1, <1>2, <1>3, <1>4 DEF Operation

(* A worker's report that settles a review is the report of its current    *)
(* run, and settles that run with the same outcome.                        *)
THEOREM PublishesOwnRunHolds == Spec => PublishesOwnRun
  <1> DEFINE Own(r, k) ==
        /\ runs[r][k].worker # Local
        /\ row[r].status = "reviewing" /\ row'[r].status \in {"succeeded", "failed"}
        => IsCurrent(r, k) /\ runs'[r][k].status = row'[r].status
  <1>1. ASSUME IInv, [Next]_vars, NEW r \in Reviews, NEW k \in reports[r] \ reports'[r]
        PROVE  Own(r, k)
    <2>0. TypeOK /\ InvOf(r)
      BY <1>1 DEF IInv
    <2>1. ASSUME Operation(r), runs[r][k].worker # Local, row[r].status = "reviewing",
                 row'[r].status \in {"succeeded", "failed"}
          PROVE  IsCurrent(r, k) /\ runs'[r][k].status = row'[r].status
      <3>1. PICK j \in reports[r], c \in Running(r), ok \in BOOLEAN, s \in Nat :
               /\ IsCurrent(r, c) /\ Publish(r, c, Outcome(r, c, ok), s)
               /\ reports'[r] = reports[r] \ {j}
               /\ runs[r][j].worker # Local => j = c
        BY <2>0, <2>1, OperationSettles
      <3>2. k = c
        BY <1>1, <2>1, <3>1
      <3>3. Outcome(r, c, ok) \in {"succeeded", "failed"} /\ c \in 1..Latest(r)
        BY DEF Outcome, Running
      <3>4. runs'[r][c].status = row'[r].status
        BY <2>0, <3>1, <3>3, PublishEffect
      <3> QED
        BY <3>1, <3>2, <3>4
    <2>2. CASE \E q \in Reviews : q # r /\ Operation(q)
      BY <1>1, <2>0, <2>2, OperationFrame
    <2>3. CASE Restart \/ \E t \in Reviews : Torn(t)
      <3>1. PICK rows \in [Reviews -> Row] :
               /\ RestartWith(rows)
               /\ mode # "local" /\ rows[r].status \in {"succeeded", "failed"}
                    => rows[r].status = row[r].status
        BY <2>0, <2>3, CrashRows
      <3>2. CASE mode = "local"
        BY <1>1, <2>0, <3>2 DEF InvOf, LocalMode, ReportsExist
      <3>3. CASE mode # "local"
        BY <2>0, <3>1, <3>3, RestartEffect
      <3> QED
        BY <3>2, <3>3
    <2>4. CASE UNCHANGED vars \/ \E lost \in SUBSET RemoteReports : LoseReports(lost)
      BY <1>1, <2>4 DEF vars, LoseReports
    <2> QED
      BY <1>1, <2>1, <2>2, <2>3, <2>4 DEF Next
  <1>2. IInv /\ [Next]_vars => [\A r \in Reviews : \A k \in reports[r] \ reports'[r] : Own(r, k)]_vars
    BY <1>1
  <1> QED
    BY <1>2, InvHolds, PTL DEF Spec, PublishesOwnRun

(* When a result is required, a review only becomes succeeded on a verdict *)
(* its own newest run submitted.                                           *)
THEOREM SuccessHasResultHolds == Spec => SuccessHasResult
  <1> DEFINE Backed(r) ==
        ResultRequired /\ row[r].status = "reviewing" /\ row'[r].status = "succeeded"
        => row'[r].verdict = Latest(r) /\ runs'[r][Latest(r)].verdict
  <1>1. ASSUME IInv, [Next]_vars, NEW r \in Reviews \ torn
        PROVE  Backed(r)
    <2>0. TypeOK /\ InvOf(r) /\ r \in Reviews
      BY <1>1 DEF IInv
    <2>1. ASSUME Operation(r), ResultRequired, row[r].status = "reviewing",
                 row'[r].status = "succeeded"
          PROVE  row'[r].verdict = Latest(r) /\ runs'[r][Latest(r)].verdict
      <3>1. PICK c \in Running(r), ok \in BOOLEAN, s \in Nat :
               IsCurrent(r, c) /\ Publish(r, c, Outcome(r, c, ok), s)
        BY <2>0, <2>1, OperationSettles
      <3>2. c = Latest(r) /\ c \in 1..Latest(r)
        BY <1>1, <2>0, <2>1 DEF InvOf, OwnershipOf, Running
      <3>3. Outcome(r, c, ok) \in {"succeeded", "failed"}
        BY DEF Outcome
      <3>4. /\ row'[r].status = Outcome(r, c, ok) /\ row'[r].verdict = row[r].verdict
            /\ runs'[r][c].verdict <=> row[r].verdict # 0
        BY <2>0, <3>1, <3>2, <3>3, PublishEffect
      <3>5. runs[r][c].verdict
        BY <2>1, <3>4 DEF Outcome
      <3>6. row[r].verdict = Latest(r) /\ row[r].verdict # 0
        BY <1>1, <2>0, <2>1, <3>2, <3>5 DEF InvOf, ResultRecorded, VerdictFence
      <3> QED
        BY <3>2, <3>4, <3>6
    <2>2. CASE \E q \in Reviews : q # r /\ Operation(q)
      BY <2>0, <2>2, OperationFrame
    <2>3. CASE Restart \/ \E t \in Reviews : Torn(t)
      <3>1. PICK rows \in [Reviews -> Row] :
               /\ RestartWith(rows)
               /\ rows[r].status = "succeeded" => row[r].status = "succeeded"
        BY <2>0, <2>3, CrashRows
      <3>2. row'[r].status = "succeeded" => rows[r].status = "succeeded"
        <4>1. \/ row'[r] = [rows[r] EXCEPT !.status = "failed"]
              \/ row'[r] = rows[r]
          BY <2>0, <3>1, RestartEffect
        <4>2. rows[r] \in Row
          BY <2>0
        <4> QED
          BY <4>1, <4>2 DEF Row
      <3> QED
        BY <3>1, <3>2
    <2>4. CASE UNCHANGED vars \/ \E lost \in SUBSET RemoteReports : LoseReports(lost)
      BY <2>4 DEF vars, LoseReports
    <2> QED
      BY <1>1, <2>1, <2>2, <2>3, <2>4 DEF Next
  <1>2. IInv /\ [Next]_vars => [\A r \in Reviews \ torn : Backed(r)]_vars
    BY <1>1
  <1> QED
    BY <1>2, InvHolds, PTL DEF Spec, SuccessHasResult

----------------------------------------------------------------------------
(* RepoGuard: who holds a checkout.                                         *)

----------------------------------------------------------------------------
(* The keys of a job, and its sequence of entries. *)

LEMMA KeysFacts ==
    ASSUME NEW j \in Jobs
    PROVE  /\ Keys(j) \in Seq(Key) /\ Len(Keys(j)) \in Nat
           /\ \A m, n \in 1..Len(Keys(j)) : Keys(j)[m] = Keys(j)[n] => m = n
  BY KeysAssumption, PrefixAssumption DEF Keys

LEMMA KeysOf ==
    ASSUME NEW j \in Jobs
    PROVE  /\ 1 \in 1..Len(Keys(j)) /\ Keys(j)[1] = ReviewKey[j]
           /\ Policy = "mutex" => /\ 2 \in 1..Len(Keys(j)) /\ Keys(j)[2] = RepoKey[j]
                                  /\ 3 \in 1..Len(Keys(j)) /\ Keys(j)[3] = CheckoutKey[j]
  BY KeysAssumption DEF Keys

LEMMA EntryAppended ==
    ASSUME NEW S, NEW s \in Seq(S), NEW e \in S
    PROVE  /\ Append(s, e) \in Seq(S)
           /\ Len(Append(s, e)) = Len(s) + 1
           /\ \A i \in 1..Len(s) : Append(s, e)[i] = s[i]
           /\ Append(s, e)[Len(s) + 1] = e
  OBVIOUS

LEMMA EntryDropped ==
    ASSUME NEW S, NEW s \in Seq(S), s # <<>>
    PROVE  /\ SubSeq(s, 1, Len(s) - 1) \in Seq(S)
           /\ Len(SubSeq(s, 1, Len(s) - 1)) = Len(s) - 1
           /\ Len(s) \in Nat \ {0}
           /\ \A i \in 1..(Len(s) - 1) : SubSeq(s, 1, Len(s) - 1)[i] = s[i]
  <1>1. Len(s) \in Nat \ {0} /\ \A i \in 1..(Len(s) - 1) : s[i] \in S
    OBVIOUS
  <1> DEFINE n == Len(s) - 1
  <1>2. n \in Nat /\ 1 \in Int /\ n \in Int /\ n - 1 + 1 = n
    BY <1>1
  <1>3. \A i \in 1..n : s[i] \in S
    BY <1>1
  <1> HIDE DEF n
  <1>4. /\ SubSeq(s, 1, n) \in Seq(S)
        /\ Len(SubSeq(s, 1, n)) = IF 1 <= n THEN n - 1 + 1 ELSE 0
        /\ \A i \in 1..(n - 1 + 1) : SubSeq(s, 1, n)[i] = s[1 + i - 1]
    BY <1>2, <1>3, SubSeqProperties
  <1>5. Len(SubSeq(s, 1, n)) = n /\ \A i \in 1..n : SubSeq(s, 1, n)[i] = s[i]
    BY <1>2, <1>4
  <1> QED
    BY <1>1, <1>4, <1>5 DEF n

----------------------------------------------------------------------------
(* The inductive invariant. *)

Users(k) == {j \in Jobs : Refers(j, k)}

Holding == {"lock", "took", "inside", "release"}

\* j has the token of k: the key it looked up last it may not have yet, or no more.
Holds(j, k) == \E i \in 1..Len(have[j]) :
    Keys(j)[i] = k /\ (i < Len(have[j]) \/ pc[j] \in Holding)

\* No goroutine keeps an entry the table has dropped.
EntriesCurrent == \A j \in Jobs : \A i \in 1..Len(have[j]) : table[Keys(j)[i]] = have[j][i]

\* Two keys never share an entry.
EntriesNamed == \A k \in Key : table[k] # None => table[k] \in {k} \X Copies

RefsExact == \A k \in Key : table[k] # None =>
    refs[table[k]] = Cardinality(Users(k)) /\ Users(k) # {}

TokenFree == \A k \in Key : table[k] # None =>
    (gate[table[k]] <=> \A j \in Jobs : ~Holds(j, k))

OneHolder == \A k \in Key : \A i, j \in Jobs : Holds(i, k) /\ Holds(j, k) => i = j

GuardInv ==
    /\ GuardTypeOK
    /\ EntriesCurrent /\ EntriesNamed /\ RefsExact
    /\ TokenFree /\ OneHolder

LEMMA UsersFinite ==
    ASSUME NEW k
    PROVE  IsFiniteSet(Users(k)) /\ Cardinality(Users(k)) \in Nat
  BY JobsAssumption, FS_Subset, FS_CardinalityType DEF Users

LEMMA HaveFacts ==
    ASSUME GuardInv, NEW j \in Jobs
    PROVE  /\ have[j] \in Seq(Entry) /\ Len(have[j]) \in Nat
           /\ Len(have[j]) <= Len(Keys(j))
           /\ \A i \in 1..Len(have[j]) : i \in 1..Len(Keys(j)) /\ Keys(j)[i] \in Key
  <1>1. have[j] \in Seq(Entry) /\ Len(have[j]) <= Len(Keys(j))
    BY DEF GuardInv, GuardTypeOK
  <1>2. Keys(j) \in Seq(Key)
    BY KeysFacts
  <1> QED
    BY <1>1, <1>2

LEMMA LastFacts ==
    ASSUME GuardInv, NEW j \in Jobs, have[j] # <<>>
    PROVE  /\ Len(have[j]) \in 1..Len(Keys(j))
           /\ LastKey(j) \in Key
           /\ Last(j) \in Entry
           /\ table[LastKey(j)] = Last(j) /\ table[LastKey(j)] # None
           /\ Refers(j, LastKey(j))
           /\ Holds(j, LastKey(j)) <=> pc[j] \in Holding
  <1>1. have[j] \in Seq(Entry) /\ Len(have[j]) <= Len(Keys(j)) /\ Keys(j) \in Seq(Key)
    BY HaveFacts, KeysFacts
  <1>2. Len(have[j]) \in 1..Len(have[j]) /\ Len(have[j]) \in 1..Len(Keys(j))
    BY <1>1
  <1>3. LastKey(j) \in Key /\ Last(j) \in Entry
    BY <1>1, <1>2 DEF LastKey, Last
  <1>4. table[LastKey(j)] = Last(j)
    BY <1>2 DEF GuardInv, EntriesCurrent, LastKey, Last
  <1>5. Refers(j, LastKey(j))
    BY <1>2 DEF Refers, LastKey
  <1>6. ASSUME NEW i \in 1..Len(have[j]), Keys(j)[i] = LastKey(j)
        PROVE  i = Len(have[j])
    BY <1>1, <1>2, <1>6, KeysFacts DEF LastKey
  <1>7. Holds(j, LastKey(j)) <=> pc[j] \in Holding
    BY <1>2, <1>6 DEF Holds, LastKey
  <1> QED
    BY <1>2, <1>3, <1>4, <1>5, <1>7, NoneAssumption

LEMMA NoSharing ==
    ASSUME GuardInv, NEW p \in Key, NEW q \in Key, p # q, table[p] # None
    PROVE  table[p] # table[q]
  BY DEF GuardInv, EntriesNamed

----------------------------------------------------------------------------
(* What the steps do to who refers to a key and who holds it. *)

LEMMA Grown ==
    ASSUME GuardInv, NEW j \in Jobs, NEW e \in Entry,
           pc[j] = "lock", pc' = [pc EXCEPT ![j] = "wait"],
           have' = [have EXCEPT ![j] = Append(@, e)]
    PROVE  /\ NextKey(j) \in Key /\ ~Refers(j, NextKey(j))
           /\ \A i \in Jobs : \A q : Refers(i, q)' <=> Refers(i, q) \/ (i = j /\ q = NextKey(j))
           /\ \A i \in Jobs : \A q : Holds(i, q)' <=> Holds(i, q)
           /\ \A i \in Jobs : have'[i] \in Seq(Entry) /\ Len(have'[i]) <= Len(Keys(i))
           /\ have'[j] # <<>>
           /\ \A i \in Jobs \ {j} : have'[i] = have[i]
           /\ \A n \in 1..Len(have'[j]) :
                 \/ n \in 1..Len(have[j]) /\ have'[j][n] = have[j][n]
                 \/ have'[j][n] = e /\ Keys(j)[n] = NextKey(j)
  <1> DEFINE L == Len(have[j])
  <1>1. /\ have[j] \in Seq(Entry) /\ L \in Nat /\ L < Len(Keys(j))
        /\ \A i \in Jobs : have[i] \in Seq(Entry) /\ Len(have[i]) <= Len(Keys(i))
        /\ have \in [Jobs -> Seq(Entry)] /\ pc[j] = "lock"
        /\ Keys(j) \in Seq(Key) /\ Len(Keys(j)) \in Nat
        /\ pc'[j] = "wait" /\ \A i \in Jobs \ {j} : pc'[i] = pc[i]
    BY HaveFacts, KeysFacts DEF GuardInv, GuardTypeOK
  <1>2. L + 1 \in 1..Len(Keys(j)) /\ NextKey(j) \in Key /\ NextKey(j) = Keys(j)[L + 1]
    BY <1>1 DEF NextKey
  <1>3. \A n \in 1..L : Keys(j)[n] # NextKey(j)
    BY <1>1, <1>2, KeysFacts
  <1>4. /\ have'[j] = Append(have[j], e) /\ Len(have'[j]) = L + 1
        /\ have'[j] \in Seq(Entry) /\ have'[j][L + 1] = e
        /\ \A n \in 1..L : have'[j][n] = have[j][n]
        /\ \A i \in Jobs \ {j} : have'[i] = have[i]
    BY <1>1, EntryAppended
  <1>5. ~Refers(j, NextKey(j))
    BY <1>3 DEF Refers
  <1>6. ASSUME NEW i \in Jobs, NEW q
        PROVE  /\ Refers(i, q)' <=> Refers(i, q) \/ (i = j /\ q = NextKey(j))
               /\ Holds(i, q)' <=> Holds(i, q)
    <2>1. CASE i # j
      BY <1>1, <1>4, <2>1 DEF Refers, Holds, Keys
    <2>2. CASE i = j
      <3>1. Refers(j, q)' <=> \E n \in 1..(L + 1) : Keys(j)[n] = q
        BY <1>4 DEF Refers, Keys
      <3>2. Refers(j, q) <=> \E n \in 1..L : Keys(j)[n] = q
        BY DEF Refers
      <3>3. Holds(j, q)' <=> \E n \in 1..L : Keys(j)[n] = q
        BY <1>1, <1>4 DEF Holds, Keys, Holding
      <3>4. Holds(j, q) <=> \E n \in 1..L : Keys(j)[n] = q
        BY <1>1 DEF Holds, Holding
      <3> QED
        BY <1>1, <1>2, <2>2, <3>1, <3>2, <3>3, <3>4
    <2> QED
      BY <2>1, <2>2
  <1>7. have'[j] # <<>>
    BY <1>1, <1>4
  <1>8. \A i \in Jobs : have'[i] \in Seq(Entry) /\ Len(have'[i]) <= Len(Keys(i))
    BY <1>1, <1>4
  <1>9. \A n \in 1..Len(have'[j]) :
            \/ n \in 1..Len(have[j]) /\ have'[j][n] = have[j][n]
            \/ have'[j][n] = e /\ Keys(j)[n] = NextKey(j)
    BY <1>1, <1>2, <1>4
  <1> QED
    BY <1>2, <1>4, <1>5, <1>6, <1>7, <1>8, <1>9

LEMMA Shrunk ==
    ASSUME GuardInv, NEW j \in Jobs, pc[j] = "unref",
           have' = [have EXCEPT ![j] = SubSeq(@, 1, Len(@) - 1)],
           pc' = [pc EXCEPT ![j] = GivenUp(have'[j])]
    PROVE  /\ \A i \in Jobs : \A q : Refers(i, q)' <=> Refers(i, q) /\ ~(i = j /\ q = LastKey(j))
           /\ \A i \in Jobs : \A q : Holds(i, q)' <=> Holds(i, q)
           /\ \A i \in Jobs : have'[i] \in Seq(Entry) /\ Len(have'[i]) <= Len(Keys(i))
           /\ \A i \in Jobs : \A n \in 1..Len(have'[i]) :
                 n \in 1..Len(have[i]) /\ have'[i][n] = have[i][n]
  <1> DEFINE L == Len(have[j])
  <1>1. /\ have[j] \in Seq(Entry) /\ L \in Nat \ {0} /\ L <= Len(Keys(j)) /\ have[j] # <<>>
        /\ \A i \in Jobs : have[i] \in Seq(Entry) /\ Len(have[i]) <= Len(Keys(i))
        /\ have \in [Jobs -> Seq(Entry)]
        /\ Keys(j) \in Seq(Key) /\ Len(Keys(j)) \in Nat
        /\ \A i \in Jobs \ {j} : pc'[i] = pc[i]
        /\ pc'[j] = GivenUp(have'[j])
    BY HaveFacts, KeysFacts DEF GuardInv, GuardTypeOK
  <1>2. /\ Len(have'[j]) = L - 1
        /\ have'[j] \in Seq(Entry)
        /\ \A n \in 1..(L - 1) : have'[j][n] = have[j][n]
        /\ \A i \in Jobs \ {j} : have'[i] = have[i]
    BY <1>1, EntryDropped
  <1>3. L \in 1..Len(Keys(j)) /\ \A n \in 1..(L - 1) : Keys(j)[n] # LastKey(j)
    BY <1>1, KeysFacts DEF LastKey
  <1>4. L - 1 # 0 => pc'[j] \in Holding
    BY <1>1, <1>2 DEF GivenUp, Holding
  <1>5. ASSUME NEW i \in Jobs, NEW q
        PROVE  /\ Refers(i, q)' <=> Refers(i, q) /\ ~(i = j /\ q = LastKey(j))
               /\ Holds(i, q)' <=> Holds(i, q)
    <2>1. CASE i # j
      BY <1>1, <1>2, <2>1 DEF Refers, Holds, Keys
    <2>2. CASE i = j
      <3>1. Refers(j, q)' <=> \E n \in 1..(L - 1) : Keys(j)[n] = q
        BY <1>2 DEF Refers, Keys
      <3>2. Refers(j, q) <=> \E n \in 1..L : Keys(j)[n] = q
        BY DEF Refers
      <3>3. Holds(j, q)' <=> \E n \in 1..(L - 1) : Keys(j)[n] = q
        BY <1>1, <1>2, <1>4 DEF Holds, Keys
      <3>4. Holds(j, q) <=> \E n \in 1..(L - 1) : Keys(j)[n] = q
        <4>1. pc[j] \notin Holding
          BY DEF Holding
        <4>2. Holds(j, q) <=> \E n \in 1..L : Keys(j)[n] = q /\ n < L
          BY <4>1 DEF Holds
        <4>3. \A n : n \in 1..L /\ n < L <=> n \in 1..(L - 1)
          BY <1>1
        <4> QED
          BY <4>2, <4>3
      <3>5. LastKey(j) = Keys(j)[L]
        BY DEF LastKey
      <3>6. \A n : n \in 1..L <=> n \in 1..(L - 1) \/ n = L
        BY <1>1
      <3>7. (\E n \in 1..L : Keys(j)[n] = q) <=> (\E n \in 1..(L - 1) : Keys(j)[n] = q) \/ q = LastKey(j)
        BY <3>5, <3>6
      <3>8. (\E n \in 1..(L - 1) : Keys(j)[n] = q) => q # LastKey(j)
        BY <1>3
      <3> HIDE DEF L
      <3> QED
        BY <2>2, <3>1, <3>2, <3>3, <3>4, <3>7, <3>8
    <2> QED
      BY <2>1, <2>2
  <1>6. \A i \in Jobs : have'[i] \in Seq(Entry) /\ Len(have'[i]) <= Len(Keys(i))
    BY <1>1, <1>2
  <1>7. \A i \in Jobs : \A n \in 1..Len(have'[i]) :
            n \in 1..Len(have[i]) /\ have'[i][n] = have[i][n]
    BY <1>1, <1>2
  <1> QED
    BY <1>5, <1>6, <1>7

----------------------------------------------------------------------------
(* Every step keeps the invariant.                                         *)

LEMMA Counted ==
    ASSUME \A j \in Jobs : \A k : Refers(j, k)' <=> Refers(j, k)
    PROVE  \A k : Users(k)' = Users(k)
  BY DEF Users

(* A step that moves no entry, and changes where a job stands only in ways *)
(* that do not matter to what it holds.                                    *)
LEMMA Unmoved ==
    ASSUME GuardInv, GuardTypeOK', UNCHANGED <<table, refs, gate, have>>,
           \A j \in Jobs : have[j] # <<>> => (pc'[j] \in Holding <=> pc[j] \in Holding)
    PROVE  GuardInv'
  <1>1. \A j \in Jobs : \A k : Refers(j, k)' <=> Refers(j, k)
    BY DEF Refers, Keys
  <1>2. ASSUME NEW j \in Jobs, NEW k
        PROVE  Holds(j, k)' <=> Holds(j, k)
    <2>1. CASE have[j] = <<>>
      BY <2>1 DEF Holds
    <2>2. CASE have[j] # <<>>
      BY <2>2 DEF Holds, Keys
    <2> QED
      BY <2>1, <2>2
  <1>3. EntriesCurrent' /\ EntriesNamed'
    BY DEF GuardInv, EntriesCurrent, EntriesNamed, Keys
  <1>4. RefsExact'
    BY <1>1, Counted DEF GuardInv, RefsExact
  <1>5. TokenFree' /\ OneHolder'
    BY <1>2 DEF GuardInv, TokenFree, OneHolder
  <1> QED
    BY <1>3, <1>4, <1>5 DEF GuardInv

LEMMA FindKeeps ==
    ASSUME GuardInv, NEW j \in Jobs, Find(j)
    PROVE  GuardInv'
  <1> DEFINE k == NextKey(j)
             e == table[k]
  <1>0. pc[j] = "lock" /\ e # None
    BY DEF Find
  <1>1. pc \in [Jobs -> {"idle", "lock", "wait", "took", "inside", "release", "unref"}]
        /\ have \in [Jobs -> Seq(Entry)] /\ table \in [Key -> Entry \cup {None}]
        /\ refs \in [Entry -> Nat]
    BY DEF GuardInv, GuardTypeOK
  <1>2. k \in Key
    BY <1>0, <1>1, KeysFacts DEF GuardInv, GuardTypeOK, NextKey
  <1>3. e \in Entry
    BY <1>0, <1>1, <1>2
  <1>4. /\ have' = [have EXCEPT ![j] = Append(@, e)] /\ pc' = [pc EXCEPT ![j] = "wait"]
        /\ refs' = [refs EXCEPT ![e] = @ + 1] /\ UNCHANGED <<table, gate, cancelled>>
    BY DEF Find
  <1> HIDE DEF e
  <1>5. /\ k \in Key /\ ~Refers(j, k)
        /\ \A i \in Jobs : \A q : Refers(i, q)' <=> Refers(i, q) \/ (i = j /\ q = k)
        /\ \A i \in Jobs : \A q : Holds(i, q)' <=> Holds(i, q)
        /\ \A i \in Jobs : have'[i] \in Seq(Entry) /\ Len(have'[i]) <= Len(Keys(i))
        /\ have'[j] # <<>>
        /\ \A i \in Jobs \ {j} : have'[i] = have[i]
        /\ \A n \in 1..Len(have'[j]) :
               \/ n \in 1..Len(have[j]) /\ have'[j][n] = have[j][n]
               \/ have'[j][n] = e /\ Keys(j)[n] = k
    BY <1>0, <1>3, <1>4, Grown
  <1> HIDE DEF k
  <1>e. e = table[k]
    BY DEF e, k
  <1>6. GuardTypeOK'
    BY <1>1, <1>3, <1>4, <1>5 DEF GuardInv, GuardTypeOK, Keys
  <1>7. EntriesCurrent'
    BY <1>4, <1>5, <1>e DEF GuardInv, EntriesCurrent, Keys
  <1>8. EntriesNamed'
    BY <1>4 DEF GuardInv, EntriesNamed
  <1>9. RefsExact'
    <2>1. ASSUME NEW q \in Key, table'[q] # None
          PROVE  refs'[table'[q]] = Cardinality(Users(q)') /\ Users(q)' # {}
      <3>1. refs[table[q]] = Cardinality(Users(q)) /\ Users(q) # {} /\ table[q] \in Entry
        BY <2>1, <1>4, <1>1 DEF GuardInv, RefsExact
      <3>2. CASE q = k
        <4>1. Users(q)' = Users(q) \cup {j} /\ j \notin Users(q)
          BY <1>5, <3>2 DEF Users
        <4>2. Cardinality(Users(q)') = Cardinality(Users(q)) + 1
          BY <4>1, UsersFinite, FS_AddElement
        <4>3. refs'[table'[q]] = refs[table[q]] + 1
          BY <1>1, <1>3, <1>4, <1>e, <3>2
        <4> QED
          BY <3>1, <4>1, <4>2, <4>3
      <3>3. CASE q # k
        <4>1. Users(q)' = Users(q)
          BY <1>5, <3>3 DEF Users
        <4>2. table[q] # e
          BY <2>1, <1>4, <1>5, <1>e, <3>3, NoSharing
        <4> QED
          BY <3>1, <4>1, <4>2, <1>1, <1>4
      <3> QED
        BY <3>2, <3>3
    <2> QED
      BY <2>1 DEF RefsExact
  <1>10. TokenFree' /\ OneHolder'
    BY <1>4, <1>5 DEF GuardInv, TokenFree, OneHolder
  <1> QED
    BY <1>6, <1>7, <1>8, <1>9, <1>10 DEF GuardInv

LEMMA CreateKeeps ==
    ASSUME GuardInv, NEW j \in Jobs, Create(j)
    PROVE  GuardInv'
  <1> DEFINE k == NextKey(j)
             e == CHOOSE e \in Free(k) : TRUE
  <1>0. pc[j] = "lock" /\ table[k] = None /\ Free(k) # {}
    BY DEF Create
  <1>1. pc \in [Jobs -> {"idle", "lock", "wait", "took", "inside", "release", "unref"}]
        /\ have \in [Jobs -> Seq(Entry)] /\ table \in [Key -> Entry \cup {None}]
        /\ refs \in [Entry -> Nat] /\ gate \in [Entry -> BOOLEAN]
    BY DEF GuardInv, GuardTypeOK
  <1>2. k \in Key
    BY <1>0, <1>1, KeysFacts DEF GuardInv, GuardTypeOK, NextKey
  <1>3. e \in Free(k)
    BY <1>0
  <1>3a. e \in Entry /\ e \in {k} \X Copies
    BY <1>2, <1>3 DEF Free, Entry
  <1>4. /\ have' = [have EXCEPT ![j] = Append(@, e)] /\ pc' = [pc EXCEPT ![j] = "wait"]
        /\ refs' = [refs EXCEPT ![e] = 1] /\ table' = [table EXCEPT ![k] = e]
        /\ gate' = [gate EXCEPT ![e] = TRUE] /\ UNCHANGED cancelled
    BY DEF Create
  <1> HIDE DEF e
  <1>5. /\ k \in Key /\ ~Refers(j, k)
        /\ \A i \in Jobs : \A q : Refers(i, q)' <=> Refers(i, q) \/ (i = j /\ q = k)
        /\ \A i \in Jobs : \A q : Holds(i, q)' <=> Holds(i, q)
        /\ \A i \in Jobs : have'[i] \in Seq(Entry) /\ Len(have'[i]) <= Len(Keys(i))
        /\ have'[j] # <<>>
        /\ \A i \in Jobs \ {j} : have'[i] = have[i]
        /\ \A n \in 1..Len(have'[j]) :
               \/ n \in 1..Len(have[j]) /\ have'[j][n] = have[j][n]
               \/ have'[j][n] = e /\ Keys(j)[n] = k
    BY <1>0, <1>3a, <1>4, Grown
  <1> HIDE DEF k
  <1>5a. \A i \in Jobs : ~Refers(i, k) /\ ~Holds(i, k)
    <2>1. ASSUME NEW i \in Jobs, NEW n \in 1..Len(have[i]), Keys(i)[n] = k
          PROVE  FALSE
      <3>1. table[k] = have[i][n]
        BY <2>1 DEF GuardInv, EntriesCurrent
      <3>2. have[i] \in Seq(Entry)
        BY <1>1
      <3>3. have[i][n] \in Entry
        BY <3>2
      <3> QED
        BY <1>0, <3>1, <3>3, NoneAssumption
    <2> QED
      BY <2>1 DEF Refers, Holds
  <1>5b. ASSUME NEW q \in Key \ {k}
         PROVE  table'[q] = table[q] /\ table[q] # e
    <2>1. table'[q] = table[q]
      BY <1>1, <1>4
    <2>2. CASE table[q] = None
      BY <2>1, <2>2, <1>3a, NoneAssumption
    <2>3. CASE table[q] # None
      <3>1. table[q] \in {q} \X Copies
        BY <2>3 DEF GuardInv, EntriesNamed
      <3> QED
        BY <2>1, <3>1, <1>3a
    <2> QED
      BY <2>2, <2>3
  <1>5c. table'[k] = e
    BY <1>1, <1>2, <1>4
  <1>6. GuardTypeOK'
    BY <1>1, <1>2, <1>3a, <1>4, <1>5 DEF GuardInv, GuardTypeOK, Keys
  <1>7. EntriesCurrent'
    <2>1. ASSUME NEW i \in Jobs, NEW n \in 1..Len(have'[i])
          PROVE  table'[Keys(i)[n]] = have'[i][n]
      <3>1. CASE i = j /\ have'[j][n] = e /\ Keys(j)[n] = k
        BY <3>1, <1>5c
      <3>2. CASE n \in 1..Len(have[i]) /\ have'[i][n] = have[i][n]
        <4>1. Keys(i)[n] \in Key /\ Keys(i)[n] # k
          BY <3>2, <1>5a, HaveFacts DEF Refers
        <4> QED
          BY <3>2, <4>1, <1>5b DEF GuardInv, EntriesCurrent
      <3> QED
        BY <1>5, <3>1, <3>2, <2>1
    <2> QED
      BY <2>1 DEF EntriesCurrent, Keys
  <1>8. EntriesNamed'
    BY <1>3a, <1>5b, <1>5c DEF GuardInv, EntriesNamed
  <1>9. RefsExact'
    <2>1. ASSUME NEW q \in Key, table'[q] # None
          PROVE  refs'[table'[q]] = Cardinality(Users(q)') /\ Users(q)' # {}
      <3>2. CASE q = k
        <4>1. Users(q) = {} /\ Users(q)' = {} \cup {j}
          BY <1>5, <1>5a, <3>2 DEF Users
        <4>2. Cardinality(Users(q)') = 1
          BY <4>1, FS_EmptySet, FS_AddElement
        <4> QED
          BY <1>1, <1>3a, <1>4, <1>5c, <3>2, <4>1, <4>2
      <3>3. CASE q # k
        <4>1. Users(q)' = Users(q)
          BY <1>5, <3>3 DEF Users
        <4>2. table'[q] = table[q] /\ table[q] # e /\ table[q] \in Entry
          BY <1>1, <1>5b, <2>1, <3>3
        <4>3. refs'[table'[q]] = refs[table[q]]
          BY <1>1, <1>4, <4>2
        <4> QED
          BY <2>1, <4>1, <4>2, <4>3 DEF GuardInv, RefsExact
      <3> QED
        BY <3>2, <3>3
    <2> QED
      BY <2>1 DEF RefsExact
  <1>10. TokenFree'
    <2>1. ASSUME NEW q \in Key, table'[q] # None
          PROVE  gate'[table'[q]] <=> \A i \in Jobs : ~Holds(i, q)'
      <3>1. CASE q = k
        BY <3>1, <1>1, <1>3a, <1>4, <1>5, <1>5a, <1>5c
      <3>2. CASE q # k
        <4>1. gate'[table'[q]] = gate[table[q]] /\ table[q] # None
          BY <1>1, <1>4, <1>5b, <2>1, <3>2
        <4> QED
          BY <1>5, <4>1 DEF GuardInv, TokenFree
      <3> QED
        BY <3>1, <3>2
    <2> QED
      BY <2>1 DEF TokenFree
  <1>11. OneHolder'
    BY <1>5 DEF GuardInv, OneHolder
  <1> QED
    BY <1>6, <1>7, <1>8, <1>9, <1>10, <1>11 DEF GuardInv

LEMMA TakeKeeps ==
    ASSUME GuardInv, NEW j \in Jobs, Take(j)
    PROVE  GuardInv'
  <1> DEFINE k == LastKey(j)
             e == Last(j)
  <1>1. /\ pc \in [Jobs -> {"idle", "lock", "wait", "took", "inside", "release", "unref"}]
        /\ gate \in [Entry -> BOOLEAN] /\ table \in [Key -> Entry \cup {None}]
        /\ have[j] # <<>>
    BY DEF GuardInv, GuardTypeOK, Take
  <1>2. /\ pc[j] = "wait" /\ gate[e] /\ gate' = [gate EXCEPT ![e] = FALSE]
        /\ pc' = [pc EXCEPT ![j] = "took"] /\ UNCHANGED <<table, refs, have, cancelled>>
    BY DEF Take
  <1>3. /\ k \in Key /\ e \in Entry /\ table[k] = e /\ e # None
        /\ Len(have[j]) \in 1..Len(Keys(j))
    BY <1>1, LastFacts
  <1>4. \A i \in Jobs : ~Holds(i, k)
    BY <1>2, <1>3 DEF GuardInv, TokenFree
  <1>5. ASSUME NEW i \in Jobs, NEW q
        PROVE  Holds(i, q)' <=> Holds(i, q) \/ (i = j /\ q = k)
    <2>1. CASE i # j
      BY <1>1, <1>2, <2>1 DEF Holds, Keys
    <2>2. CASE i = j
      <3>1. \A n \in 1..Len(have[j]) : Keys(j)[n] = k => n = Len(have[j])
        BY <1>3, HaveFacts, KeysFacts DEF LastKey
      <3>2. Len(have[j]) \in 1..Len(have[j]) /\ Keys(j)[Len(have[j])] = k
        BY <1>3, HaveFacts DEF LastKey
      <3>3. Holds(j, q)' <=> \E n \in 1..Len(have[j]) : Keys(j)[n] = q
        BY <1>1, <1>2 DEF Holds, Keys, Holding
      <3>4. Holds(j, q) <=> \E n \in 1..Len(have[j]) : Keys(j)[n] = q /\ n < Len(have[j])
        BY <1>2 DEF Holds, Holding
      <3>5. \A n \in 1..Len(have[j]) : n < Len(have[j]) \/ n = Len(have[j])
        BY HaveFacts
      <3> QED
        BY <2>2, <3>1, <3>2, <3>3, <3>4, <3>5
    <2> QED
      BY <2>1, <2>2
  <1> HIDE DEF k, e
  <1>6. GuardTypeOK'
    BY <1>1, <1>2, <1>3 DEF GuardInv, GuardTypeOK, Keys
  <1>7. EntriesCurrent' /\ EntriesNamed'
    BY <1>2 DEF GuardInv, EntriesCurrent, EntriesNamed, Keys
  <1>8. RefsExact'
    BY <1>2, Counted DEF GuardInv, RefsExact, Refers, Keys
  <1>9. TokenFree'
    <2>1. ASSUME NEW q \in Key, table[q] # None
          PROVE  gate'[table[q]] <=> \A i \in Jobs : ~Holds(i, q)'
      <3>1. CASE q = k
        BY <1>1, <1>2, <1>3, <1>5, <3>1
      <3>2. CASE q # k
        <4>1. table[q] \in Entry /\ table[q] # e
          BY <1>1, <1>3, <2>1, <3>2, NoSharing
        <4>2. gate'[table[q]] = gate[table[q]]
          BY <1>1, <1>2, <4>1
        <4> QED
          BY <1>5, <2>1, <3>2, <4>2 DEF GuardInv, TokenFree
      <3> QED
        BY <3>1, <3>2
    <2> QED
      BY <1>2, <2>1 DEF TokenFree
  <1>10. OneHolder'
    BY <1>4, <1>5 DEF GuardInv, OneHolder
  <1> QED
    BY <1>6, <1>7, <1>8, <1>9, <1>10 DEF GuardInv

LEMMA PutTokenKeeps ==
    ASSUME GuardInv, NEW j \in Jobs, PutToken(j), pc[j] \in {"took", "inside", "release"}
    PROVE  GuardInv'
  <1> DEFINE k == LastKey(j)
             e == Last(j)
  <1>1. /\ pc \in [Jobs -> {"idle", "lock", "wait", "took", "inside", "release", "unref"}]
        /\ gate \in [Entry -> BOOLEAN] /\ table \in [Key -> Entry \cup {None}]
        /\ have[j] # <<>>
    BY DEF GuardInv, GuardTypeOK
  <1>2. /\ gate' = [gate EXCEPT ![e] = TRUE]
        /\ pc' = [pc EXCEPT ![j] = "unref"] /\ UNCHANGED <<table, refs, have, cancelled>>
    BY DEF PutToken
  <1>3. /\ k \in Key /\ e \in Entry /\ table[k] = e /\ e # None
        /\ Len(have[j]) \in 1..Len(Keys(j))
    BY <1>1, LastFacts
  <1>4. Holds(j, k)
    BY <1>1, LastFacts DEF Holding
  <1>5. ASSUME NEW i \in Jobs, NEW q
        PROVE  Holds(i, q)' <=> Holds(i, q) /\ ~(i = j /\ q = k)
    <2>1. CASE i # j
      BY <1>1, <1>2, <2>1 DEF Holds, Keys
    <2>2. CASE i = j
      <3>1. \A n \in 1..Len(have[j]) : Keys(j)[n] = k => n = Len(have[j])
        BY <1>3, HaveFacts, KeysFacts DEF LastKey
      <3>2. Len(have[j]) \in 1..Len(have[j]) /\ Keys(j)[Len(have[j])] = k
        BY <1>3, HaveFacts DEF LastKey
      <3>3. Holds(j, q)' <=> \E n \in 1..Len(have[j]) : Keys(j)[n] = q /\ n < Len(have[j])
        BY <1>1, <1>2 DEF Holds, Keys, Holding
      <3>4. Holds(j, q) <=> \E n \in 1..Len(have[j]) : Keys(j)[n] = q
        BY DEF Holds, Holding
      <3>5. \A n \in 1..Len(have[j]) : n < Len(have[j]) <=> n # Len(have[j])
        BY HaveFacts
      <3> QED
        BY <2>2, <3>1, <3>2, <3>3, <3>4, <3>5
    <2> QED
      BY <2>1, <2>2
  <1> HIDE DEF k, e
  <1>6. GuardTypeOK'
    BY <1>1, <1>2, <1>3 DEF GuardInv, GuardTypeOK, Keys
  <1>7. EntriesCurrent' /\ EntriesNamed'
    BY <1>2 DEF GuardInv, EntriesCurrent, EntriesNamed, Keys
  <1>8. RefsExact'
    BY <1>2, Counted DEF GuardInv, RefsExact, Refers, Keys
  <1>9. TokenFree'
    <2>1. ASSUME NEW q \in Key, table[q] # None
          PROVE  gate'[table[q]] <=> \A i \in Jobs : ~Holds(i, q)'
      <3>1. CASE q = k
        <4>1. \A i \in Jobs : Holds(i, k) => i = j
          BY <1>3, <1>4 DEF GuardInv, OneHolder
        <4> QED
          BY <1>1, <1>2, <1>3, <1>5, <3>1, <4>1
      <3>2. CASE q # k
        <4>1. table[q] \in Entry /\ table[q] # e
          BY <1>1, <1>3, <2>1, <3>2, NoSharing
        <4>2. gate'[table[q]] = gate[table[q]]
          BY <1>1, <1>2, <4>1
        <4> QED
          BY <1>5, <2>1, <3>2, <4>2 DEF GuardInv, TokenFree
      <3> QED
        BY <3>1, <3>2
    <2> QED
      BY <1>2, <2>1 DEF TokenFree
  <1>10. OneHolder'
    BY <1>5 DEF GuardInv, OneHolder
  <1> QED
    BY <1>6, <1>7, <1>8, <1>9, <1>10 DEF GuardInv

LEMMA UnrefKeeps ==
    ASSUME GuardInv, NEW j \in Jobs, Unref(j)
    PROVE  GuardInv'
  <1> SUFFICES ASSUME NEW k, NEW e, k = LastKey(j), e = Last(j)
               PROVE  GuardInv'
    OBVIOUS
  <1>1. /\ pc \in [Jobs -> {"idle", "lock", "wait", "took", "inside", "release", "unref"}]
        /\ have \in [Jobs -> Seq(Entry)] /\ table \in [Key -> Entry \cup {None}]
        /\ refs \in [Entry -> Nat] /\ have[j] # <<>> /\ pc[j] = "unref"
    BY DEF GuardInv, GuardTypeOK, Unref
  <1>2. /\ refs' = [refs EXCEPT ![e] = @ - 1]
        /\ table' = IF refs[e] = 1 THEN [table EXCEPT ![k] = None] ELSE table
        /\ have' = [have EXCEPT ![j] = SubSeq(@, 1, Len(@) - 1)]
        /\ pc' = [pc EXCEPT ![j] = GivenUp(have'[j])] /\ UNCHANGED <<gate, cancelled>>
    BY DEF Unref
  <1>3. k \in Key /\ e \in Entry /\ table[k] = e /\ e # None /\ Refers(j, k)
    BY <1>1, LastFacts
  <1>4. /\ \A i \in Jobs : \A q : Refers(i, q)' <=> Refers(i, q) /\ ~(i = j /\ q = k)
        /\ \A i \in Jobs : \A q : Holds(i, q)' <=> Holds(i, q)
        /\ \A i \in Jobs : have'[i] \in Seq(Entry) /\ Len(have'[i]) <= Len(Keys(i))
        /\ \A i \in Jobs : \A n \in 1..Len(have'[i]) :
               n \in 1..Len(have[i]) /\ have'[i][n] = have[i][n]
    BY <1>1, <1>2, Shrunk
  <1>5. /\ refs[e] = Cardinality(Users(k)) /\ refs[e] \in Nat \ {0}
        /\ Users(k)' = Users(k) \ {j} /\ Cardinality(Users(k)') = refs[e] - 1
    <2>1. refs[e] = Cardinality(Users(k)) /\ j \in Users(k)
      BY <1>3 DEF GuardInv, RefsExact, Users
    <2>2. Users(k)' = Users(k) \ {j}
      BY <1>4 DEF Users
    <2>3. Cardinality(Users(k)) # 0
      BY <2>1, UsersFinite, FS_EmptySet
    <2>4. Cardinality(Users(k) \ {j}) = Cardinality(Users(k)) - 1
      BY <2>1, UsersFinite, FS_RemoveElement
    <2> QED
      BY <2>1, <2>2, <2>3, <2>4, UsersFinite
  <1>6. refs[e] = 1 <=> Users(k)' = {}
    <2>1. IsFiniteSet(Users(k)')
      BY <1>5, UsersFinite, FS_RemoveElement
    <2> QED
      BY <1>5, <2>1, FS_EmptySet
  <1>7. \A q \in Key \ {k} : table'[q] = table[q] /\ (table[q] # None => table[q] # e)
    BY <1>1, <1>2, <1>3, NoSharing
  <1>8. table'[k] = IF refs[e] = 1 THEN None ELSE e
    BY <1>1, <1>2, <1>3
  <1>9. GuardTypeOK'
    <2>1. /\ table' \in [Key -> Entry \cup {None}]
          /\ refs' \in [Entry -> Nat]
          /\ gate' \in [Entry -> BOOLEAN]
          /\ pc' \in [Jobs -> {"idle", "lock", "wait", "took", "inside", "release", "unref"}]
          /\ have' \in [Jobs -> Seq(Entry)]
          /\ cancelled' \subseteq Jobs
      <3>1. table' \in [Key -> Entry \cup {None}]
        BY <1>1, <1>2
      <3>2. refs' \in [Entry -> Nat]
        BY <1>1, <1>2, <1>3, <1>5
      <3>3. GivenUp(have'[j]) \in {"idle", "release"}
        BY DEF GivenUp
      <3>4. pc' \in [Jobs -> {"idle", "lock", "wait", "took", "inside", "release", "unref"}]
        BY <1>1, <1>2, <3>3
      <3>5. have' \in [Jobs -> Seq(Entry)]
        BY <1>1, <1>2, <1>4
      <3> QED
        BY <1>2, <3>1, <3>2, <3>4, <3>5 DEF GuardInv, GuardTypeOK
    <2>2. ASSUME NEW i \in Jobs
          PROVE  /\ Len(have'[i]) <= Len(Keys(i))
                 /\ pc'[i] = "idle" => have'[i] = <<>>
                 /\ pc'[i] = "lock" => Len(have'[i]) < Len(Keys(i))
                 /\ pc'[i] \in {"wait", "took", "inside", "release", "unref"} => have'[i] # <<>>
                 /\ pc'[i] = "inside" => Len(have'[i]) = Len(Keys(i))
      <3>1. CASE i = j
        BY <1>1, <1>2, <1>4, <3>1 DEF GivenUp
      <3>2. CASE i # j
        BY <1>1, <1>2, <3>2 DEF GuardInv, GuardTypeOK
      <3> QED
        BY <3>1, <3>2
    <2> QED
      BY <2>1, <2>2 DEF GuardTypeOK, Keys
  <1>10. EntriesCurrent'
    <2>1. ASSUME NEW i \in Jobs, NEW n \in 1..Len(have'[i])
          PROVE  table'[Keys(i)[n]] = have'[i][n]
      <3>1. /\ n \in 1..Len(have[i]) /\ have'[i][n] = have[i][n]
            /\ table[Keys(i)[n]] = have[i][n] /\ Keys(i)[n] \in Key
        BY <1>4, HaveFacts DEF GuardInv, EntriesCurrent
      <3>2. CASE Keys(i)[n] = k
        <4>1. Refers(i, k)'
          BY <3>2 DEF Refers, Keys
        <4>2. refs[e] # 1
          BY <4>1, <1>6 DEF Users
        <4> QED
          BY <1>3, <1>8, <3>1, <3>2, <4>2
      <3>3. CASE Keys(i)[n] # k
        BY <1>7, <3>1, <3>3
      <3> QED
        BY <3>2, <3>3
    <2> QED
      BY <2>1 DEF EntriesCurrent, Keys
  <1>11. EntriesNamed'
    BY <1>3, <1>7, <1>8 DEF GuardInv, EntriesNamed
  <1>12. RefsExact'
    <2>1. ASSUME NEW q \in Key, table'[q] # None
          PROVE  refs'[table'[q]] = Cardinality(Users(q)') /\ Users(q)' # {}
      <3>1. CASE q = k
        <4>1. table'[q] = e /\ refs[e] # 1
          BY <1>8, <2>1, <3>1
        <4>2. refs'[e] = refs[e] - 1
          BY <1>1, <1>2, <1>3
        <4> QED
          BY <1>5, <1>6, <3>1, <4>1, <4>2
      <3>2. CASE q # k
        <4>1. table'[q] = table[q] /\ table[q] # e /\ table[q] \in Entry /\ table[q] # None
          BY <1>1, <1>7, <2>1, <3>2
        <4>2. refs'[table'[q]] = refs[table[q]]
          BY <1>1, <1>2, <4>1
        <4>3. Users(q)' = Users(q)
          BY <1>4, <3>2 DEF Users
        <4> QED
          BY <4>1, <4>2, <4>3 DEF GuardInv, RefsExact
      <3> QED
        BY <3>1, <3>2
    <2> QED
      BY <2>1 DEF RefsExact
  <1>13. TokenFree'
    <2>1. ASSUME NEW q \in Key, table'[q] # None
          PROVE  table'[q] = table[q] /\ table[q] # None
      BY <1>3, <1>7, <1>8, <2>1
    <2> QED
      BY <1>2, <1>4, <2>1 DEF GuardInv, TokenFree
  <1>14. OneHolder'
    BY <1>4 DEF GuardInv, OneHolder
  <1> QED
    BY <1>9, <1>10, <1>11, <1>12, <1>13, <1>14 DEF GuardInv

LEMMA GuardInitInv == GuardInit => GuardInv
  <1> SUFFICES ASSUME GuardInit PROVE GuardInv
    OBVIOUS
  <1>1. \A j \in Jobs : have[j] = <<>> /\ pc[j] = "idle"
    BY DEF GuardInit
  <1>2. GuardTypeOK
    BY <1>1, KeysFacts DEF GuardInit, GuardTypeOK
  <1>3. \A j \in Jobs : \A k : ~Holds(j, k)
    BY <1>1 DEF Holds
  <1> QED
    BY <1>1, <1>2, <1>3 DEF GuardInit, GuardInv, EntriesCurrent, EntriesNamed, RefsExact, TokenFree, OneHolder

LEMMA GuardNextInv == GuardInv /\ [GuardNext]_guardVars => GuardInv'
  <1> SUFFICES ASSUME GuardInv, [GuardNext]_guardVars PROVE GuardInv'
    OBVIOUS
  <1>t. GuardTypeOK
    BY DEF GuardInv
  <1>1. CASE UNCHANGED guardVars
    <2>1. GuardTypeOK'
      BY <1>t, <1>1 DEF GuardTypeOK, Keys, guardVars
    <2> QED
      BY <1>1, <2>1, Unmoved DEF guardVars
  <1>2. ASSUME NEW j \in Jobs, Begin(j) PROVE GuardInv'
    <2>1. have[j] = <<>>
      BY <1>t, <1>2 DEF GuardTypeOK, Begin
    <2>2. Len(have[j]) < Len(Keys(j))
      BY <2>1, KeysOf, KeysFacts
    <2>3. GuardTypeOK'
      BY <1>t, <1>2, <2>1, <2>2 DEF GuardTypeOK, Begin, Keys
    <2> QED
      BY <1>t, <1>2, <2>1, <2>3, Unmoved DEF Begin, GuardTypeOK
  <1>3. ASSUME NEW j \in Jobs, Cancel(j) PROVE GuardInv'
    <2>1. GuardTypeOK'
      BY <1>t, <1>3 DEF GuardTypeOK, Cancel, Keys
    <2> QED
      BY <1>3, <2>1, Unmoved DEF Cancel
  <1>4. ASSUME NEW j \in Jobs, Refuse(j) PROVE GuardInv'
    <2>1. GuardTypeOK'
      BY <1>t, <1>4 DEF GuardTypeOK, Refuse, GivenUp, Keys
    <2>2. \A i \in Jobs : have[i] # <<>> => (pc'[i] \in Holding <=> pc[i] \in Holding)
      BY <1>t, <1>4 DEF GuardTypeOK, Refuse, GivenUp, Holding
    <2> QED
      BY <1>4, <2>1, <2>2, Unmoved DEF Refuse
  <1>5. ASSUME NEW j \in Jobs, GiveUp(j) PROVE GuardInv'
    <2>1. GuardTypeOK'
      BY <1>t, <1>5 DEF GuardTypeOK, GiveUp, Keys
    <2>2. \A i \in Jobs : pc'[i] \in Holding <=> pc[i] \in Holding
      BY <1>t, <1>5 DEF GuardTypeOK, GiveUp, Holding
    <2> QED
      BY <1>5, <2>1, <2>2, Unmoved DEF GiveUp
  <1>6. ASSUME NEW j \in Jobs, Proceed(j) PROVE GuardInv'
    <2>1. GuardTypeOK'
      <3>1. Len(have[j]) \in Nat /\ Len(Keys(j)) \in Nat /\ Len(have[j]) <= Len(Keys(j))
        BY HaveFacts, KeysFacts
      <3>2. /\ pc[j] = "took" /\ have[j] # <<>>
            /\ pc' = [pc EXCEPT ![j] = IF Len(have[j]) = Len(Keys(j)) THEN "inside" ELSE "lock"]
            /\ UNCHANGED <<table, refs, gate, have, cancelled>>
        BY <1>t, <1>6 DEF GuardTypeOK, Proceed
      <3>3. /\ pc' \in [Jobs -> {"idle", "lock", "wait", "took", "inside", "release", "unref"}]
            /\ pc'[j] \in {"inside", "lock"}
            /\ pc'[j] = "inside" <=> Len(have[j]) = Len(Keys(j))
            /\ \A i \in Jobs \ {j} : pc'[i] = pc[i]
        BY <1>t, <3>2 DEF GuardTypeOK
      <3>4. pc'[j] = "lock" => Len(have[j]) < Len(Keys(j))
        BY <3>1, <3>3
      <3> QED
        BY <1>t, <3>2, <3>3, <3>4 DEF GuardTypeOK, Keys
    <2>2. \A i \in Jobs : pc'[i] \in Holding <=> pc[i] \in Holding
      BY <1>t, <1>6 DEF GuardTypeOK, Proceed, Holding
    <2> QED
      BY <1>6, <2>1, <2>2, Unmoved DEF Proceed
  <1>7. ASSUME NEW j \in Jobs, PutBack(j) \/ Leave(j) \/ Release(j) PROVE GuardInv'
    BY <1>7, PutTokenKeeps DEF PutBack, Leave, Release
  <1> QED
    BY <1>1, <1>2, <1>3, <1>4, <1>5, <1>6, <1>7, FindKeeps, CreateKeeps, TakeKeeps, UnrefKeeps
       DEF GuardNext, Step

----------------------------------------------------------------------------
(* What follows from it. *)

(* The invariant is inductive: jobs come, wait, are cancelled and leave in *)
(* any order.                                                              *)
THEOREM GuardInvariance == GuardSpec => []GuardInv
  BY GuardInitInv, GuardNextInv, PTL DEF GuardSpec

(* The tables, counts and sequences keep their shape, for any number of    *)
(* jobs and keys.                                                          *)
THEOREM GuardTypeCorrect == GuardSpec => []GuardTypeOK
  <1>1. GuardInv => GuardTypeOK
    BY DEF GuardInv
  <1> QED
    BY <1>1, GuardInvariance, PTL

(* No two jobs of one review are inside, nor, under the mutex policy, of   *)
(* one repo or checkout: Guard.Lock's promise, whatever is cancelled when. *)
THEOREM GuardExcludes == GuardSpec => []MutualExclusion
  <1>1. GuardInv => MutualExclusion
    <2> SUFFICES ASSUME GuardInv, NEW i \in Jobs, NEW j \in Jobs, i # j,
                        pc[i] = "inside", pc[j] = "inside"
                 PROVE  ~Collide(i, j)
      BY DEF MutualExclusion
    <2>1. ASSUME NEW m \in Jobs, pc[m] = "inside", NEW n \in 1..Len(Keys(m))
          PROVE  Keys(m)[n] \in Key /\ Holds(m, Keys(m)[n])
      <3>1. Len(have[m]) = Len(Keys(m))
        BY <2>1 DEF GuardInv, GuardTypeOK
      <3> QED
        BY <2>1, <3>1, HaveFacts DEF Holds, Holding
    <2>2. ReviewKey[i] # ReviewKey[j]
      BY <2>1, KeysOf DEF GuardInv, OneHolder
    <2>3. Policy = "mutex" => RepoKey[i] # RepoKey[j] /\ CheckoutKey[i] # CheckoutKey[j]
      BY <2>1, KeysOf DEF GuardInv, OneHolder
    <2> QED
      BY <2>2, <2>3 DEF Collide
  <1> QED
    BY <1>1, GuardInvariance, PTL

(* The table has an entry for exactly the keys in use: none leaks, and     *)
(* none is dropped under a goroutine that still has it.                    *)
THEOREM TableExactHolds == GuardSpec => []TableExact
  <1>1. GuardInv => TableExact
    <2> SUFFICES ASSUME GuardInv, NEW k \in Key
                 PROVE  table[k] # None <=> \E j \in Jobs : Refers(j, k)
      BY DEF TableExact
    <2>1. table[k] # None => \E j \in Jobs : Refers(j, k)
      BY DEF GuardInv, RefsExact, Users
    <2>2. ASSUME NEW j \in Jobs, NEW i \in 1..Len(have[j]), Keys(j)[i] = k
          PROVE  table[k] # None
      <3>1. table[k] = have[j][i] /\ have[j] \in Seq(Entry)
        BY <2>2, HaveFacts DEF GuardInv, EntriesCurrent
      <3>2. have[j][i] \in Entry
        BY <3>1
      <3> QED
        BY <3>1, <3>2, NoneAssumption
    <2> QED
      BY <2>1, <2>2 DEF Refers
  <1> QED
    BY <1>1, GuardInvariance, PTL

(* The gate's buffer is empty whenever a job is about to put the token in. *)
THEOREM UnlockNeverBlocksHolds == GuardSpec => []UnlockNeverBlocks
  <1>1. GuardInv => UnlockNeverBlocks
    <2> SUFFICES ASSUME GuardInv, NEW j \in Jobs, pc[j] \in {"took", "inside", "release"}
                 PROVE  ~gate[Last(j)]
      BY DEF UnlockNeverBlocks
    <2>1. have[j] # <<>>
      BY DEF GuardInv, GuardTypeOK
    <2>2. /\ LastKey(j) \in Key /\ table[LastKey(j)] = Last(j) /\ table[LastKey(j)] # None
          /\ Holds(j, LastKey(j))
      BY <2>1, LastFacts DEF Holding
    <2> QED
      BY <2>2 DEF GuardInv, TokenFree
  <1> QED
    BY <1>1, GuardInvariance, PTL

============================================================================
