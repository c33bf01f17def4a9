--------------------------- MODULE InlinePosting ---------------------------
(***************************************************************************)
(* What a review says on GitHub: the findings its runs submit, the inline  *)
(* comments posted for them, and the mark that they have been posted.      *)
(*                                                                         *)
(* A poster is a goroutine inside PostPRInlineComments: that of the run    *)
(* which has just finished, or one of POST /comments and /sat post.  Only  *)
(* the completion of a remote run holds the review's lock while it posts.  *)
(* A finding's comment is created on GitHub first and remembered second.   *)
(*                                                                         *)
(* One review, whose PR stays open: archiving is in ReviewLifecycle, and a *)
(* context reset changes what is kept here just as a retry does.           *)
(***************************************************************************)
EXTENDS Integers, Sequences, FiniteSets, FiniteSetsExt

CONSTANTS
    Posters,     \* goroutines that may post at a time
    PostInline,  \* SATURNUS_REVIEW_POST_INLINE_COMMENTS
    MaxFindings, \* bound on the findings of the review
    MaxRuns,     \* bound on its runs
    MaxCalls,    \* bound on calls of PostComments
    MaxFaults    \* bound on lost answers, failed writes, requeues and restarts

ASSUME PostersAssumption == IsFiniteSet(Posters)
ASSUME PostInlineAssumption == PostInline \in BOOLEAN
ASSUME BoundsAssumption == {MaxFindings, MaxRuns, MaxCalls, MaxFaults} \subseteq Nat

VARIABLES
    row,      \* of review_requests: status, posted (comments_posted_at is set), verdict (there is one)
    run,      \* its newest run: number, local, stage, and posted as AssignReview returned it
    findings, \* review_findings, in order
    github,   \* finding -> comments the PR has for it
    lock,     \* syncLocks of the review: the poster that has it, or "free"
    poster,   \* poster -> where it is in PostPRInlineComments
    notice,   \* run -> its row of review_requester_notifications
    results,  \* history: results submitted so far
    marked,   \* history: how many of them the attempt that set comments_posted_at had read
    excused,  \* history: finding -> comments that may have gone unremembered
    calls, faults

vars == <<row, run, findings, github, lock, poster, notice, results, marked, excused, calls, faults>>

Free == "free"

Idle == [at |-> "idle", auto |-> FALSE, post |-> {}, resolve |-> {}, failed |-> FALSE, read |-> 0, number |-> 0]

Index == 1..MaxFindings

Init ==
    /\ row = [status |-> "pending", posted |-> FALSE, verdict |-> FALSE]
    /\ run = [number |-> 0, local |-> FALSE, stage |-> "none", posted |-> FALSE]
    /\ findings = <<>>
    /\ github = [i \in Index |-> 0]
    /\ lock = Free
    /\ poster = [p \in Posters |-> Idle]
    /\ notice = [n \in 1..MaxRuns |-> "none"]
    /\ results = 0 /\ marked = 0
    /\ excused = [i \in Index |-> 0]
    /\ calls = 0 /\ faults = 0

Fault == faults < MaxFaults /\ faults' = faults + 1

----------------------------------------------------------------------------
(* The review's runs. *)

posting == <<github, poster, notice, marked, excused>>

\* StartRemote and startLocal: AssignReview clears the last verdict, not the mark.
Start ==
    /\ row.status = "pending" /\ lock = Free /\ run.number < MaxRuns
    /\ row' = [row EXCEPT !.status = "reviewing", !.verdict = FALSE]
    /\ \E local \in BOOLEAN :
          run' = [number |-> run.number + 1, local |-> local,
                  stage |-> IF local THEN "starting" ELSE "running", posted |-> row.posted]
    /\ UNCHANGED <<findings, lock, results, calls, faults, posting>>

\* A local run writes back the whole row it was assigned, with the PR's title and
\* head, unless gh knows neither.
StorePRInfo ==
    /\ run.stage = "starting"
    /\ row' \in {row, [row EXCEPT !.posted = run.posted]}
    /\ run' = [run EXCEPT !.stage = "running"]
    /\ UNCHANGED <<findings, lock, results, calls, faults, posting>>

\* saveFindingsTx keeps a finding no entry names, and the comment of one that is named.
Updates(f) == {f} \cup [eligible : BOOLEAN, status : {"open", "addressed"}, comment : {f.comment}]

New == [eligible : BOOLEAN, status : {"open"}, comment : {FALSE}]

\* IngestRunResult: the verdict and the findings in one transaction, once per run.
\* With a callback configured a review without a verdict does not succeed, so only
\* a run under way can still submit one.
IngestRunResult ==
    /\ row.status = "reviewing" /\ run.stage = "running" /\ ~row.verdict /\ lock = Free
    /\ row' = [row EXCEPT !.verdict = TRUE]
    /\ \E old \in [1..Len(findings) -> UNION {Updates(findings[i]) : i \in 1..Len(findings)}],
          k \in 0..(MaxFindings - Len(findings)) :
          /\ \A i \in 1..Len(findings) : old[i] \in Updates(findings[i])
          /\ \E more \in [1..k -> New] : findings' = old \o more
    /\ results' = results + 1
    /\ UNCHANGED <<run, lock, calls, faults, posting>>

\* RequeueForOrphan, when the worker is lost.
Requeue ==
    /\ row.status = "reviewing" /\ ~run.local /\ lock = Free /\ Fault
    /\ row' = [row EXCEPT !.status = "pending"]
    /\ UNCHANGED <<run, findings, lock, results, calls, posting>>

\* retryFinished: the mark is cleared with the rest of the result.
Retry ==
    /\ row.status = "finished" /\ lock = Free
    /\ row' = [status |-> "pending", posted |-> FALSE, verdict |-> FALSE]
    /\ UNCHANGED <<run, findings, lock, results, calls, faults, posting>>

----------------------------------------------------------------------------
(* Who posts. *)

Begin(p, at, auto) ==
    poster' = [poster EXCEPT ![p] = [Idle EXCEPT !.at = at, !.auto = auto, !.number = run.number]]

\* CompleteRemoteRun looks at the row's mark and goes on under the lock; a local run
\* looks at the mark of its start, and releases the lock when its outcome is saved.
Complete(p) ==
    /\ row.status = "reviewing" /\ run.stage = "running"
    /\ poster[p].at = "idle" /\ lock = Free
    /\ row' = [row EXCEPT !.status = "finished"]
    /\ \/ row.verdict \* and the tool succeeded
          /\ LET posted == IF run.local THEN run.posted ELSE row.posted
             IN  Begin(p, IF PostInline /\ ~posted THEN "list" ELSE "record", TRUE)
          /\ lock' = IF run.local THEN Free ELSE p
       \/ UNCHANGED <<poster, lock>>
    /\ run' = [run EXCEPT !.stage = "ended"]
    /\ UNCHANGED <<findings, github, notice, results, marked, excused, calls, faults>>

\* PostComments takes no lock and asks for no status: a run may be under way.
PostComments(p) ==
    /\ poster[p].at = "idle" /\ calls < MaxCalls
    /\ row.verdict /\ ~row.posted
    /\ Begin(p, "list", FALSE)
    /\ calls' = calls + 1
    /\ UNCHANGED <<row, run, findings, github, lock, notice, results, marked, excused, faults>>

----------------------------------------------------------------------------
(* PostPRInlineComments. *)

reviews == <<row, run, findings, results, calls>>

\* A mutant: posts what it finds, remembered or not.
WantsAnyway(f) == f.eligible

\* Severe enough, with a path and a line, and no comment yet.
Wants(f) == f.eligible /\ ~f.comment

Resolves(f) == f.comment /\ f.status = "addressed"

\* ListFindings: everything that follows goes by what was read here.
List(p) ==
    /\ poster[p].at = "list"
    /\ LET due == {i \in 1..Len(findings) : Wants(findings[i])}
           settled == {i \in 1..Len(findings) : Resolves(findings[i])}
       IN  /\ poster' = [poster EXCEPT ![p].at = "post", ![p].post = due, ![p].read = results,
                                        ![p].resolve = settled \ due]
           /\ excused' = [i \in Index |->
                 excused[i] + Cardinality({q \in Posters \ {p} : i \in poster[q].post \cap due})]
    /\ UNCHANGED <<reviews, github, lock, notice, marked, faults>>

Work(p) == poster[p].post \cup poster[p].resolve

\* Findings are dealt with in the order they were submitted.
Turn(p, i) == poster[p].at = "post" /\ Work(p) # {} /\ i = Min(Work(p))

Skipped(p, i, failed) ==
    poster' = [poster EXCEPT ![p].at = "post", ![p].post = @ \ {i}, ![p].resolve = @ \ {i},
                             ![p].failed = @ \/ failed]

Commented(i) == github' = [github EXCEPT ![i] = @ + 1]

Forgotten(i) == excused' = [excused EXCEPT ![i] = @ + 1]

\* PostInlineComment answers with the comment's id.
Post(p, i) ==
    /\ Turn(p, i) /\ i \in poster[p].post
    /\ Commented(i)
    /\ poster' = [poster EXCEPT ![p].at = "save"]
    /\ UNCHANGED <<reviews, lock, notice, marked, excused, faults>>

\* GitHub refuses: the line is not part of the diff, or the two minutes are over.
Reject(p, i) ==
    /\ Turn(p, i)
    /\ Skipped(p, i, TRUE)
    /\ UNCHANGED <<reviews, github, lock, notice, marked, excused, faults>>

\* GitHub creates the comment and gh fails all the same.
AnswerLost(p, i) ==
    /\ Turn(p, i) /\ i \in poster[p].post /\ Fault
    /\ Commented(i) /\ Forgotten(i)
    /\ Skipped(p, i, TRUE)
    /\ UNCHANGED <<reviews, lock, notice, marked>>

\* SetFindingCommentID.
Save(p) ==
    /\ poster[p].at = "save"
    /\ LET i == Min(Work(p))
       IN  \/ /\ findings' = [findings EXCEPT ![i].comment = TRUE]
              /\ Skipped(p, i, FALSE)
              /\ UNCHANGED <<excused, faults>>
           \/ Fault /\ Forgotten(i) /\ Skipped(p, i, TRUE) /\ UNCHANGED findings
    /\ UNCHANGED <<row, run, results, calls, github, lock, notice, marked>>

\* The thread is resolved on GitHub and the status follows, whatever it is by now.
Resolve(p, i) ==
    /\ Turn(p, i) /\ i \in poster[p].resolve
    /\ findings' = [findings EXCEPT ![i].status = "resolved"]
    /\ Skipped(p, i, FALSE)
    /\ UNCHANGED <<row, run, results, calls, github, lock, notice, marked, excused, faults>>

----------------------------------------------------------------------------
(* After the findings. *)

Ended(p) == IF poster[p].auto THEN [poster EXCEPT ![p].at = "record"] ELSE [poster EXCEPT ![p] = Idle]

\* A mutant: an attempt with errors counts as well.
WholeAnyway(p) == TRUE

Whole(p) == ~poster[p].failed

\* PostPRReview, which GitHub may refuse too.  Only an attempt without an error goes
\* on to set the mark.
PostPRReview(p) ==
    /\ poster[p].at = "post" /\ Work(p) = {}
    /\ \/ Whole(p) /\ poster' = [poster EXCEPT ![p].at = "mark"]
       \/ poster' = Ended(p)
    /\ UNCHANGED <<reviews, github, lock, notice, marked, excused, faults>>

\* SetCommentsPosted writes one column, whatever has become of the review.
SetCommentsPosted(p) ==
    /\ poster[p].at = "mark"
    /\ poster' = Ended(p)
    /\ \/ row' = [row EXCEPT !.posted = TRUE] /\ marked' = poster[p].read /\ UNCHANGED faults
       \/ Fault /\ UNCHANGED <<row, marked>>
    /\ UNCHANGED <<run, findings, results, calls, github, lock, notice, excused>>

\* notifyRequesterResult: a pending row, the message, its outcome.
RecordNotice(p) ==
    /\ poster[p].at = "record"
    /\ poster' = [poster EXCEPT ![p].at = "send"]
    /\ \/ notice' = [notice EXCEPT ![poster[p].number] = "pending"] /\ UNCHANGED faults
       \/ Fault /\ UNCHANGED notice
    /\ UNCHANGED <<reviews, github, lock, marked, excused>>

FinishNotice(p) ==
    /\ poster[p].at = "send"
    /\ \E outcome \in {"sent", "failed"} :
          notice' = [notice EXCEPT ![poster[p].number] = IF @ = "pending" THEN outcome ELSE @]
    /\ poster' = [poster EXCEPT ![p] = Idle]
    /\ lock' = IF lock = p THEN Free ELSE lock
    /\ UNCHANGED <<reviews, github, marked, excused, faults>>

\* The server dies.  What was posted and not yet remembered is forgotten; a local
\* run stays reviewing without an executor.
Restart ==
    /\ Fault
    /\ poster' = [p \in Posters |-> Idle]
    /\ lock' = Free
    /\ excused' = [i \in Index |->
          excused[i] + Cardinality({p \in Posters : poster[p].at = "save" /\ i = Min(Work(p))})]
    /\ run' = IF run.local /\ row.status = "reviewing" THEN [run EXCEPT !.stage = "ended"] ELSE run
    /\ UNCHANGED <<row, findings, results, calls, github, notice, marked>>

Next ==
    \/ Start \/ StorePRInfo \/ IngestRunResult \/ Requeue \/ Retry \/ Restart
    \/ \E p \in Posters :
          \/ Complete(p) \/ PostComments(p) \/ List(p) \/ Save(p)
          \/ PostPRReview(p) \/ SetCommentsPosted(p) \/ RecordNotice(p) \/ FinishNotice(p)
          \/ \E i \in Index : Post(p, i) \/ Reject(p, i) \/ AnswerLost(p, i) \/ Resolve(p, i)

Spec == Init /\ [][Next]_vars

----------------------------------------------------------------------------
(* Properties. *)

\* The lock's holder is a poster at work, and a mark was set by an attempt that read
\* results already submitted.
TypeOK ==
    /\ lock = Free \/ (lock \in Posters /\ poster[lock].auto)
    /\ marked <= results
    /\ \A p \in Posters : Work(p) \subseteq 1..Len(findings)

\* "A repeat trigger does not duplicate comments": over any number of runs, retries
\* and attempts, a finding has one comment on the PR, and one more only for each time
\* two attempts listed it together or the id of its comment was lost.
OneCommentEach == \A i \in Index : github[i] <= 1 + excused[i]

\* comments_posted_at is what makes both PostComments and the next completion refuse:
\* while it is set, and no result came after the marking attempt read the findings,
\* every finding that is to be posted has its comment.
MarkedArePosted ==
    row.posted /\ marked = results => \A i \in 1..Len(findings) : ~Wants(findings[i])
=============================================================================
