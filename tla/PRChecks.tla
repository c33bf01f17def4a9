------------------------------- MODULE PRChecks ------------------------------
(***************************************************************************)
(* What one PR's CI state is, for everything that GitHub Actions and       *)
(* external reporters may have left on its head and on its test-merge      *)
(* commit: executions that are superseded or run again, jobs on another    *)
(* commit than their execution's, failures of jobs that a local rule       *)
(* bypasses.  GitHub goes on while Fetch lists executions, jobs and        *)
(* statuses of the two commits, one call after the other.                  *)
(*                                                                         *)
(* Collected and Verdict are what Fetch and Policy.Evaluate make of the    *)
(* lists.  Events are part of a workflow here, a check is named by its     *)
(* bucket, and every repository rule is a global one.  The head stays; a   *)
(* call that fails ends a collection like a step that never comes.         *)
(***************************************************************************)
EXTENDS Integers, FiniteSets

CONSTANTS
    Workflows,  \* workflow ids, with the event that starts them
    Jobs,       \* names of jobs
    Contexts,   \* names of commit statuses
    Results,    \* buckets an ended job, execution or status may have
    Bypass,     \* names the policy bypasses
    MaxRuns,    \* bound on executions
    MaxIds,     \* bound on the ids of jobs and statuses
    MaxEvents   \* bound on what happens on GitHub during the collection

ASSUME NamesAssumption == Jobs \cap Contexts = {} /\ Workflows \cap (Jobs \cup Contexts) = {}
ASSUME ResultsAssumption == Results \subseteq {"pass", "fail", "cancel", "skip", "unknown"}
ASSUME BypassAssumption == Bypass \subseteq Workflows \cup Jobs \cup Contexts
ASSUME ChecksBoundsAssumption == MaxRuns \in Nat /\ MaxIds \in Nat /\ MaxEvents \in Nat

VARIABLES
    runs,     \* workflow runs: one per execution, with its latest attempt's bucket,
              \* its commit, and the commit its jobs are reported on
    jobs,     \* check runs of Actions, of every attempt (filter=all)
    statuses, \* commit statuses
    merge,    \* the PR has a test-merge commit of its own
    collect,  \* Fetch: its next call, what it has listed
    since,    \* history: the newest execution and the newest job or status when
              \* the collection began, and how much has happened since
    steady    \* history: executions and jobs that have not changed since

gitHub     == <<runs, jobs, statuses, merge>>
checksVars == <<gitHub, collect, since, steady>>

Shas == {"head", "merge"}

LastId == Cardinality(jobs) + Cardinality(statuses)

ChecksInit ==
    /\ runs = {} /\ jobs = {} /\ statuses = {} /\ merge = FALSE
    /\ collect = [step |-> "idle", sha |-> "head", merge |-> FALSE, runs |-> {}, jobs |-> {}, statuses |-> {}]
    /\ since = [run |-> 0, id |-> 0, events |-> 0]
    /\ steady = [runs |-> {}, jobs |-> {}]

Done == collect.step = "done"

----------------------------------------------------------------------------
(* GitHub. *)

\* Something happens, and what is gone by it does not stand any longer.
Event(gone) ==
    /\ collect.step \notin {"done", "failed"}
    /\ collect.step = "idle" \/ since.events < MaxEvents
    /\ since' = IF collect.step = "idle" THEN since ELSE [since EXCEPT !.events = @ + 1]
    /\ steady' = [runs |-> steady.runs \ gone, jobs |-> steady.jobs \ gone]
    /\ UNCHANGED collect

\* The jobs are on the execution's commit, or on the test-merge commit.
StartRun(w, sha, at) ==
    /\ Cardinality(runs) < MaxRuns
    /\ at = sha \/ at = "merge"
    /\ at = "merge" => merge
    /\ Event({})
    /\ runs' = runs \cup {[id |-> Cardinality(runs) + 1, workflow |-> w, sha |-> sha, at |-> at, bucket |-> "pending"]}
    /\ UNCHANGED <<jobs, statuses, merge>>

\* A job of an unfinished execution is queued; a later attempt of it is a new
\* check run of the same suite.
QueueJob(r, name) ==
    /\ LastId < MaxIds /\ r.bucket = "pending"
    /\ \A j \in jobs : (j.run = r.id /\ j.name = name) => j.bucket # "pending"
    /\ Event({})
    /\ jobs' = jobs \cup {[id |-> LastId + 1, run |-> r.id, name |-> name, sha |-> r.at, bucket |-> "pending"]}
    /\ UNCHANGED <<runs, statuses, merge>>

FinishJob(j, result) ==
    /\ j.bucket = "pending"
    /\ Event({j})
    /\ jobs' = (jobs \ {j}) \cup {[j EXCEPT !.bucket = result]}
    /\ UNCHANGED <<runs, statuses, merge>>

\* An execution ends once its jobs have.  Its conclusion need not be theirs: it
\* may have failed to start, or go on despite an optional job.
FinishRun(r, result) ==
    /\ r.bucket = "pending"
    /\ \A j \in jobs : j.run = r.id => j.bucket # "pending"
    /\ Event({r})
    /\ runs' = (runs \ {r}) \cup {[r EXCEPT !.bucket = result]}
    /\ UNCHANGED <<jobs, statuses, merge>>

RunAgain(r) ==
    /\ r.bucket # "pending"
    /\ Event({r})
    /\ runs' = (runs \ {r}) \cup {[r EXCEPT !.bucket = "pending"]}
    /\ UNCHANGED <<jobs, statuses, merge>>

Report(context, sha, bucket) ==
    /\ LastId < MaxIds
    /\ sha = "merge" => merge
    /\ Event({})
    /\ statuses' = statuses \cup {[id |-> LastId + 1, name |-> context, sha |-> sha, bucket |-> bucket]}
    /\ UNCHANGED <<runs, jobs, merge>>

MergeCommit ==
    /\ ~merge /\ merge' = TRUE
    /\ Event({})
    /\ UNCHANGED <<runs, jobs, statuses>>

GitHubMoves ==
    \/ \E w \in Workflows, sha, at \in Shas : StartRun(w, sha, at)
    \/ \E r \in runs : RunAgain(r) \/ (\E n \in Jobs : QueueJob(r, n)) \/ \E b \in Results : FinishRun(r, b)
    \/ \E j \in jobs, b \in Results : FinishJob(j, b)
    \/ \E c \in Contexts, sha \in Shas, b \in Results \cup {"pending"} : Report(c, sha, b)
    \/ MergeCommit

----------------------------------------------------------------------------
(* Fetch, call by call. *)

Then(step, sha) == [collect EXCEPT !.step = step, !.sha = sha]

\* The first metadata call.
Begin ==
    /\ collect.step = "idle"
    /\ collect' = [Then("runs", "head") EXCEPT !.merge = merge]
    /\ since' = [run |-> Cardinality(runs), id |-> LastId, events |-> 0]
    /\ steady' = [runs |-> runs, jobs |-> jobs]
    /\ UNCHANGED gitHub

\* workflowRuns, of one commit and of the other.
ListRuns ==
    /\ collect.step = "runs"
    /\ collect' = [(IF collect.sha = "head" /\ collect.merge THEN Then("runs", "merge") ELSE Then("jobs", "head"))
                     EXCEPT !.runs = @ \cup {r \in runs : r.sha = collect.sha}]
    /\ UNCHANGED <<gitHub, since, steady>>

\* checks: the jobs of a commit, then its statuses.
ListJobs ==
    /\ collect.step = "jobs"
    /\ collect' = [Then("statuses", collect.sha) EXCEPT !.jobs = @ \cup {j \in jobs : j.sha = collect.sha}]
    /\ UNCHANGED <<gitHub, since, steady>>

ListStatuses ==
    /\ collect.step = "statuses"
    /\ collect' = [(IF collect.sha = "head" /\ collect.merge THEN Then("jobs", "merge") ELSE Then("metadata", "head"))
                     EXCEPT !.statuses = @ \cup {s \in statuses : s.sha = collect.sha}]
    /\ UNCHANGED <<gitHub, since, steady>>

\* The second metadata call: nothing is returned if the commits have changed.
RecheckCommits ==
    /\ collect.step = "metadata"
    /\ collect' = Then(IF merge = collect.merge THEN "done" ELSE "failed", "head")
    /\ UNCHANGED <<gitHub, since, steady>>

Fetch == Begin \/ ListRuns \/ ListJobs \/ ListStatuses \/ RecheckCommits

ChecksNext == GitHubMoves \/ Fetch

ChecksSpec == ChecksInit /\ [][ChecksNext]_checksVars

----------------------------------------------------------------------------
(* checks: the items of one commit. *)

\* The newest execution of a workflow on a commit replaces all the jobs of the
\* older ones.
Superseded(r, rs) == \E q \in rs : q.workflow = r.workflow /\ q.sha = r.sha /\ q.id > r.id

Check(key, id, name, run, bucket) ==
    [key |-> key, id |-> id, name |-> name, run |-> run, bucket |-> bucket]

\* A mutant: a replaced execution's jobs are listed too.
JobItemsOfAnyRun(j) ==
    LET own == {r \in collect.runs : r.id = j.run}
    IN  IF own = {} THEN {Check(<<"suite", j.run, j.name>>, j.id, j.name, 0, j.bucket)}
                    ELSE {Check(<<"job", r.workflow, j.name>>, j.id, j.name, r.id, j.bucket) : r \in own}

\* Executions of both commits are matched with the jobs of each; a job of one that
\* was not listed is kept by its suite.
JobItems(j) ==
    LET own == {r \in collect.runs : r.id = j.run}
    IN  IF own = {} THEN {Check(<<"suite", j.run, j.name>>, j.id, j.name, 0, j.bucket)}
                    ELSE {Check(<<"job", r.workflow, j.name>>, j.id, j.name, r.id, j.bucket) :
                             r \in {q \in own : ~Superseded(q, collect.runs)}}

Items(sha) ==
    (UNION {JobItems(j) : j \in {k \in collect.jobs : k.sha = sha}})
        \cup {Check(<<"status", s.name>>, s.id, s.name, 0, s.bucket) : s \in {t \in collect.statuses : t.sha = sha}}

\* add: of the items of one key the newest counts.
Newest(items) == {c \in items : \A d \in items : d.key = c.key => d.id <= c.id}

ChecksOf(sha) == Newest(Items(sha))

(* Fetch: the test-merge commit's result is preferred, key by key. *)

Reported ==
    LET head   == ChecksOf("head")
        merged == ChecksOf("merge")
    IN  merged \cup {c \in head : \A d \in merged : d.key # c.key}

Preferred == IF collect.merge THEN "merge" ELSE "head"

(* addUnrepresentedWorkflows. *)

Before(r, q) == \/ r.sha # Preferred /\ q.sha = Preferred
                \/ r.sha = q.sha /\ r.id < q.id

LatestRuns == {r \in collect.runs : \A q \in collect.runs : q.workflow = r.workflow => ~Before(r, q)}

BucketsOf(r) == {c.bucket : c \in {d \in Reported : d.run = r.id}}

\* Mutants: any job stands for its execution, or only those of a good one do, or a
\* job stands for an execution that is under way.
RepresentedByAnyJob(r)      == BucketsOf(r) # {}
RepresentedIfGood(r)        == BucketsOf(r) # {} /\ r.bucket \in {"pass", "skip"}
RepresentedWhileUnderWay(r) == BucketsOf(r) # {} /\ (r.bucket # "fail" \/ "fail" \in BucketsOf(r))

Represented(r) ==
    LET buckets == BucketsOf(r)
    IN  buckets # {} /\ (r.bucket \in {"pass", "skip"} \/ r.bucket \in buckets)

Collected ==
    Reported \cup {Check(<<"run", r.workflow>>, r.id, r.workflow, r.id, r.bucket) :
                     r \in {q \in LatestRuns : ~Represented(q)}}

(* Policy.Evaluate, on the buckets that checkBucket yields. *)

Precedence == <<"fail", "unknown", "pending", "cancel", "pass", "skip">>

\* Rule: the name is in the policy's list.
Bypassed(c) == c.name \in Bypass

Verdict ==
    LET checks    == Collected
        effective == {c.bucket : c \in {d \in checks : ~Bypassed(d)}}
    IN  IF checks = {} THEN "no checks"
        ELSE IF effective = {} THEN "bypass"
        ELSE Precedence[CHOOSE i \in DOMAIN Precedence :
                           /\ Precedence[i] \in effective
                           /\ \A k \in 1..(i - 1) : Precedence[k] \notin effective]

----------------------------------------------------------------------------
(* Properties, of GitHub's executions and jobs when a collection ends, and *)
(* of those of them that have stood since it began.                        *)

\* The outcome of every job of an execution: its newest attempt.
Outcomes(r) == {j \in jobs : j.run = r.id /\ \A k \in jobs : (k.run = r.id /\ k.name = j.name) => k.id <= j.id}

\* The execution of a workflow that counts: the newest on the test-merge commit,
\* or on the head if there is none there.
Counts(r) == \A q \in runs : (q.workflow = r.workflow /\ q # r) =>
                                IF q.sha = r.sha THEN q.id < r.id ELSE r.sha = "merge"

\* What was there when the collection began.
Known == [runs |-> {r \in runs : r.id <= since.run}, jobs |-> {j \in jobs : j.id <= since.id}]

\* A job of r, on the test-merge commit, has the name of a newer job that is
\* reported there too, by the workflow's execution on the head: the two have one
\* key, and the code keeps the newer.
Shadowed(r, j) ==
    \E q \in runs, k \in jobs :
        /\ r.sha = "merge" /\ q.sha = "head" /\ q.workflow = r.workflow
        /\ ~Superseded(q, Known.runs)
        /\ k.run = q.id /\ k.sha = "merge" /\ k.name = j.name /\ k.id > j.id

BypassedFailure(r) == {j \in Outcomes(r) : j.bucket = "fail" /\ j.name \in Bypass /\ ~Shadowed(r, j)}

(* A failure that has stood since the collection began is not hidden,      *)
(* whatever moved meanwhile: neither that of a job, unless it is shadowed, *)
(* nor that of an execution that failed without one, unless a bypassed job *)
(* of it is what failed.                                                   *)
FailureIsVisible ==
    (Done /\ \E r \in runs :
        /\ Counts(r)
        /\ \/ \E j \in Outcomes(r) \cap steady.jobs :
                 j.bucket = "fail" /\ j.name \notin Bypass /\ ~Shadowed(r, j)
           \/ r \in steady.runs /\ r.bucket = "fail" /\ r.workflow \notin Bypass
                 /\ ~\E j \in Outcomes(r) : j.bucket = "fail" /\ j.name \in Bypass)
      => Verdict = "fail"

(* FAIL takes the failure of a job or a status that is not bypassed, and   *)
(* that nothing had replaced when the collection began; or that of an      *)
(* execution.  A bypassed job's failure does not come back as that of its  *)
(* execution, unless it is shadowed, or the execution changed while it was *)
(* collected: it may be listed as failed, be run again, and its job listed *)
(* as pending, so that none stands for the failure.                        *)
BypassExcuses ==
    (Done /\ Verdict = "fail") =>
        \/ \E j \in jobs : /\ j.bucket = "fail" /\ j.name \notin Bypass
                           /\ \A k \in Known.jobs : (k.run = j.run /\ k.name = j.name) => k.id <= j.id
                           /\ \A r \in runs : r.id = j.run => ~Superseded(r, Known.runs)
        \/ \E s \in statuses : s.bucket = "fail" /\ s.name \notin Bypass
        \/ \E r \in collect.runs :
              /\ r.bucket = "fail" /\ r.workflow \notin Bypass /\ ~Superseded(r, Known.runs)
              /\ r \in steady.runs => BypassedFailure(r) = {}

(* Nothing of an execution, and no attempt of a job, that had been         *)
(* replaced when the collection began is returned; a job is shown as it is *)
(* or, if it has ended meanwhile, as pending; and no two items have one    *)
(* key, which would make the save of them all fail.                        *)
SupersededNeverCounts ==
    Done =>
        /\ \A c \in Collected : \A r \in runs : r.id = c.run => ~Superseded(r, Known.runs)
        /\ \A c \in Collected : c.key[1] \in {"job", "suite"} =>
              \E j \in jobs : /\ j.id = c.id
                              /\ c.bucket = j.bucket \/ (c.bucket = "pending" /\ j \notin steady.jobs)
                              /\ \A k \in Known.jobs : (k.run = j.run /\ k.name = j.name) => k.id <= j.id
        /\ \A c, d \in Collected : c.key = d.key => c = d

(* PASS is not shown for an execution that counts and has been under way   *)
(* all the time, unless all it waited for, as far as is known, is bypassed.*)
PassIsComplete ==
    (Done /\ Verdict = "pass") =>
        \A r \in steady.runs : (Counts(r) /\ r.bucket = "pending" /\ r.workflow \notin Bypass) =>
            \E j \in jobs : /\ j.run = r.id /\ j.name \in Bypass
                            /\ j.bucket = "pending" \/ j \notin steady.jobs
=============================================================================
