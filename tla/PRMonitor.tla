------------------------------ MODULE PRMonitor -----------------------------
(***************************************************************************)
(* The CI snapshots of pull requests: what is saved of GitHub while heads  *)
(* move, checks finish, users pause a PR or ask for a refresh, and the     *)
(* periodic sweep runs into its time limit.                                *)
(*                                                                         *)
(* GitHub is the environment.  A head stands for the pair of head and      *)
(* test-merge commit, numbered in the order they appear and never reused;  *)
(* the check results of a head are numbered likewise.  What the checks say *)
(* is PRChecks' business.  Every repository is one of the configured ones. *)
(***************************************************************************)
EXTENDS Integers, Sequences, FiniteSets, SequencesExt

CONSTANTS
    PRs,        \* pull requests
    Mine,       \* those by the configured author, which discovery finds
    Pollers,    \* the goroutines of a sweep
    Users,      \* callers of Refresh, SetMonitoring and Get
    MaxChanges, \* bound on the changes at GitHub
    MaxFaults,  \* bound on failed calls, failed saves and restarts
    MaxAsks     \* bound on the refreshes, switches and details users ask for

ASSUME PRsAssumption    == IsFiniteSet(PRs)
ASSUME MineAssumption   == Mine \subseteq PRs
ASSUME PollersAssumption == Pollers # {} /\ Pollers \cap Users = {}
ASSUME BoundsAssumption == {MaxChanges, MaxFaults, MaxAsks} \subseteq Nat

VARIABLES
    github,  \* pr -> its head, its state and how far the checks of that head got
    row,     \* pull_requests: pr -> row, or NoRow
    checks,  \* pr_checks: pr -> the snapshot collected last
    proc,    \* process -> the refresh it is in, or waits for the lock of
    sweep,   \* the sweep: where it is and what it still has to hand out
    order,   \* the tracked PRs by SyncAttemptedAt, oldest first
    view,    \* user -> what its last Get has read so far
    asked,   \* pr -> the last monitoring switch a user was told is set
    changes, faults, asks

vars == <<github, row, checks, proc, sweep, order, view, asked, changes, faults, asks>>

Procs    == Pollers \cup Users
NoRow    == [state |-> "none"]
NoChecks == [head |-> 0, ci |-> 0, live |-> TRUE]
Idle     == [pc |-> "idle"]
Asleep   == [pc |-> "asleep", todo |-> <<>>, done |-> FALSE]
NoView   == [pc |-> "none"]

Tracked(p) == row[p] # NoRow

\* PullRequest: the fields the properties need.  checked is CheckedHeadSHA.
Row(state, head, checked, monitoring, err) ==
    [state |-> state, head |-> head, checked |-> checked, monitoring |-> monitoring, err |-> err]

\* snapshot's ChecksStale.
Stale(r) == r.err \/ r.checked = 0 \/ r.checked # r.head

----------------------------------------------------------------------------
Init ==
    /\ github = [p \in PRs |-> [head |-> 1, state |-> "OPEN", ci |-> 1]]
    /\ row = [p \in PRs |-> NoRow]
    /\ checks = [p \in PRs |-> NoChecks]
    /\ proc = [q \in Procs |-> Idle]
    /\ sweep = Asleep
    /\ order = <<>>
    /\ view = [u \in Users |-> NoView]
    /\ asked = [p \in PRs |-> TRUE]
    /\ changes = 0 /\ faults = 0 /\ asks = 0

monitor == <<row, checks, proc, sweep, order, view, asked, asks>>

(* GitHub. *)

Push(p) ==
    github' = [github EXCEPT ![p] = [head |-> @.head + 1, state |-> @.state, ci |-> 1]]

ChecksProgress(p) ==
    github' = [github EXCEPT ![p].ci = @ + 1]

CloseOrReopen(p) ==
    github' = [github EXCEPT ![p].state = IF @ = "OPEN" THEN "CLOSED" ELSE "OPEN"]

GitHubChanges ==
    /\ changes < MaxChanges
    /\ changes' = changes + 1
    /\ \E p \in PRs : Push(p) \/ ChecksProgress(p) \/ CloseOrReopen(p)
    /\ UNCHANGED <<monitor, faults>>

Fault == faults < MaxFaults /\ faults' = faults + 1

----------------------------------------------------------------------------
(* One refresh.  Every step that waits for GitHub leaves the others free.  *)

\* TrackPullRequest inserts a row or leaves the one there is.  A row without
\* an attempt is the oldest of all.
TrackedRows(ps) ==
    [p \in PRs |-> IF p \in ps /\ ~Tracked(p) THEN Row("UNKNOWN", 0, 0, TRUE, FALSE) ELSE row[p]]

Inside(q) == proc[q].pc \in {"metadata", "collect", "recheck", "save"}

\* A mutant: the lock is held to save only.
UnlockedWhileFetching(p) == \A q \in Procs : ~(proc[q].pc = "save" /\ proc[q].pr = p)

\* The lock of a PR is held from the reading of its row to the save.
Unlocked(p) == \A q \in Procs : ~(Inside(q) /\ proc[q].pr = p)

Enter(q) ==
    /\ proc[q].pc = "wait" /\ Unlocked(proc[q].pr)
    /\ proc' = [proc EXCEPT ![q] = [pc |-> "metadata", pr |-> @.pr, old |-> row[@.pr]]]
    /\ UNCHANGED <<github, row, checks, sweep, order, view, asked, changes, faults, asks>>

Metadata(p) == [head |-> github[p].head, state |-> github[p].state]

\* The row refresh saves: what was there, under the metadata that came, and
\* what became of the checks.
Observed(old, meta, err) ==
    Row(meta.state, meta.head, IF err THEN old.checked ELSE meta.head, old.monitoring, err)

Unobserved(old) == [old EXCEPT !.err = TRUE]

Saving(q, new, found) ==
    proc' = [proc EXCEPT ![q] = [pc |-> "save", pr |-> @.pr, row |-> new, found |-> found]]

ReadMetadata(q) ==
    /\ proc[q].pc = "metadata"
    /\ proc' = [proc EXCEPT ![q] = [pc |-> "collect", pr |-> @.pr, old |-> @.old, meta |-> Metadata(@.pr)]]
    /\ UNCHANGED <<github, row, checks, sweep, order, view, asked, changes, faults, asks>>

\* The first call fails, or the context has ended: no metadata at all.
MetadataFails(q) ==
    /\ proc[q].pc = "metadata"
    /\ Fault
    /\ Saving(q, Unobserved(proc[q].old), NoChecks)
    /\ UNCHANGED <<github, row, checks, sweep, order, view, asked, changes, asks>>

\* The workflow runs, check runs and statuses of the head that was read.
\* live records whether it was still the head then; the results of a head that
\* is gone do not matter.
Collect(q) ==
    /\ proc[q].pc = "collect"
    /\ LET p == proc[q].pr
           current == github[p].head = proc[q].meta.head
           found == [head |-> proc[q].meta.head, ci |-> IF current THEN github[p].ci ELSE 1, live |-> current]
       IN  proc' = [proc EXCEPT ![q] = [pc |-> "recheck", pr |-> p, old |-> @.old, meta |-> @.meta, found |-> found]]
    /\ UNCHANGED <<github, row, checks, sweep, order, view, asked, changes, faults, asks>>

\* Any later call fails: the metadata read first is kept.
CollectFails(q) ==
    /\ proc[q].pc \in {"collect", "recheck"}
    /\ Fault
    /\ Saving(q, Observed(proc[q].old, proc[q].meta, TRUE), NoChecks)
    /\ UNCHANGED <<github, row, checks, sweep, order, view, asked, changes, asks>>

\* A mutant: what was read first is not compared.
MovedNever(meta, latest) == FALSE

\* The metadata is read again; if it moved, the new one is kept with an error.
Moved(meta, latest) == latest # meta

Recheck(q) ==
    /\ proc[q].pc = "recheck"
    /\ LET latest == Metadata(proc[q].pr)
           moved  == Moved(proc[q].meta, latest)
       IN  Saving(q, Observed(proc[q].old, latest, moved), IF moved THEN NoChecks ELSE proc[q].found)
    /\ UNCHANGED <<github, row, checks, sweep, order, view, asked, changes, faults, asks>>

Leave(q) == proc' = [proc EXCEPT ![q] = Idle]

\* SavePullRequestSnapshot, one transaction: the row, and the checks only if
\* they were collected.  The attempt's time is part of the row; attempts that
\* overlap are ordered as they are saved.
Save(q) ==
    /\ proc[q].pc = "save"
    /\ LET p == proc[q].pr
           new == proc[q].row
       IN  /\ row' = [row EXCEPT ![p] = new]
           /\ checks' = IF new.err THEN checks ELSE [checks EXCEPT ![p] = proc[q].found]
           /\ order' = Append(SelectSeq(order, LAMBDA x : x # p), p)
           /\ sweep' = IF q \in Pollers THEN [sweep EXCEPT !.done = TRUE] ELSE sweep
    /\ Leave(q)
    /\ UNCHANGED <<github, view, asked, changes, faults, asks>>

\* The transaction fails or its one second is over.
SaveFails(q) ==
    /\ proc[q].pc = "save"
    /\ Fault
    /\ Leave(q)
    /\ UNCHANGED <<github, row, checks, sweep, order, view, asked, changes, asks>>

----------------------------------------------------------------------------
(* The sweep: Start's loop, or a caller of Sweep; one at a time, by the    *)
(* lock "sweep".                                                           *)

\* Discovery finds the open PRs of the author, or fails; seeds come from the
\* tasks and reviews, and here every other PR is one.
Discoverable == {p \in Mine : github[p].state = "OPEN"}
Seeds        == PRs \ Mine

Polled(r, forced) == r.monitoring /\ (forced \/ r.state \in {"OPEN", "UNKNOWN"})

\* A mutant without the sort: always in the same order.
InFixedTurn(ps) == {CHOOSE s \in SetToSeqs(ps) : TRUE}

\* The place of a PR's last attempt among those of all; 0 if there was none.
Attempt(p) == IF \E i \in DOMAIN order : order[i] = p THEN CHOOSE i \in DOMAIN order : order[i] = p ELSE 0

\* The rows to hand out by their last attempt, those never attempted first and
\* in any order.
InTurn(ps) == {s \in SetToSeqs(ps) : \A i, j \in DOMAIN s : i < j => Attempt(s[i]) <= Attempt(s[j])}

SweepWith(found) ==
    LET rows == TrackedRows(found \cup Seeds)
        due  == {p \in PRs : rows[p] # NoRow /\ Polled(rows[p], p \in found)} IN
    /\ sweep.pc = "asleep"
    /\ row' = rows
    /\ \E s \in InTurn(due) : sweep' = [pc |-> "handing", todo |-> s, done |-> FALSE]
    /\ UNCHANGED <<github, checks, proc, order, view, asked, changes, asks>>

Discover      == SweepWith(Discoverable) /\ UNCHANGED faults
DiscoverFails == SweepWith({}) /\ Fault

HandOut(q) ==
    /\ q \in Pollers /\ proc[q] = Idle
    /\ sweep.pc = "handing" /\ sweep.todo # <<>>
    /\ proc' = [proc EXCEPT ![q] = [pc |-> "wait", pr |-> Head(sweep.todo)]]
    /\ sweep' = [sweep EXCEPT !.todo = Tail(@)]
    /\ UNCHANGED <<github, row, checks, order, view, asked, changes, faults, asks>>

\* The sweep's time is over: nothing more is handed out, and what waits for a
\* lock gives up; a refresh under way sees its calls fail.  Something has been
\* refreshed by then: RefreshTimeout is several times what one refresh may take.
Cut ==
    /\ sweep.pc = "handing" /\ sweep.done /\ sweep.todo # <<>>
    /\ sweep' = [sweep EXCEPT !.todo = <<>>]
    /\ proc' = [q \in Procs |-> IF q \in Pollers /\ proc[q].pc = "wait" THEN Idle ELSE proc[q]]
    /\ UNCHANGED <<github, row, checks, order, view, asked, changes, faults, asks>>

SweepEnds ==
    /\ sweep.pc = "handing" /\ sweep.todo = <<>>
    /\ \A q \in Pollers : proc[q] = Idle
    /\ sweep' = Asleep
    /\ UNCHANGED <<github, row, checks, proc, order, view, asked, changes, faults, asks>>

----------------------------------------------------------------------------
(* Users. *)

Ask(u, p, request) ==
    /\ u \in Users /\ proc[u] = Idle
    /\ asks < MaxAsks /\ asks' = asks + 1
    /\ row' = TrackedRows({p})
    /\ proc' = [proc EXCEPT ![u] = request]
    /\ UNCHANGED <<github, checks, sweep, order, view, asked, changes, faults>>

AskRefresh(u, p)    == Ask(u, p, [pc |-> "wait", pr |-> p])
AskSwitch(u, p, on) == Ask(u, p, [pc |-> "switch", pr |-> p, on |-> on])

\* The caller's context ends while it waits for the lock.
GiveUp(u) ==
    /\ u \in Users /\ proc[u].pc \in {"wait", "switch"}
    /\ proc' = [proc EXCEPT ![u] = Idle]
    /\ UNCHANGED <<github, row, checks, sweep, order, view, asked, changes, faults, asks>>

\* SetMonitoring, from its lock to its unlock: the row is read again and saved.
SwitchTo(u, p) ==
    /\ row' = [row EXCEPT ![p].monitoring = proc[u].on]
    /\ asked' = [asked EXCEPT ![p] = proc[u].on]
    /\ proc' = [proc EXCEPT ![u] = Idle]
    /\ UNCHANGED <<github, checks, sweep, order, view, changes, faults, asks>>

\* A mutant: the switch takes no lock.
SwitchUnlocked(u) == proc[u].pc = "switch" /\ SwitchTo(u, proc[u].pr)

Switch(u) == proc[u].pc = "switch" /\ Unlocked(proc[u].pr) /\ SwitchTo(u, proc[u].pr)

\* A mutant: the checks are read before the row.
LookChecksFirst(u) ==
    /\ \/ /\ view[u].pc = "none" /\ asks < MaxAsks /\ asks' = asks + 1
          /\ \E p \in PRs : Tracked(p) /\ view' = [view EXCEPT ![u] = [pc |-> "half", pr |-> p, checks |-> checks[p]]]
       \/ /\ view[u].pc = "half" /\ UNCHANGED asks
          /\ view' = [view EXCEPT ![u] = [pc |-> "full", row |-> row[@.pr], checks |-> @.checks]]
    /\ UNCHANGED <<github, row, checks, proc, sweep, order, asked, changes, faults>>

\* Get and List take no lock and read the row first and its checks after.
Look(u) ==
    /\ \/ /\ view[u].pc = "none" /\ asks < MaxAsks /\ asks' = asks + 1
          /\ \E p \in PRs : Tracked(p) /\ view' = [view EXCEPT ![u] = [pc |-> "half", pr |-> p, row |-> row[p]]]
       \/ /\ view[u].pc = "half" /\ UNCHANGED asks
          /\ view' = [view EXCEPT ![u] = [pc |-> "full", row |-> @.row, checks |-> checks[@.pr]]]
    /\ UNCHANGED <<github, row, checks, proc, sweep, order, asked, changes, faults>>

LookAway(u) ==
    /\ view[u].pc = "full"
    /\ view' = [view EXCEPT ![u] = NoView]
    /\ UNCHANGED <<github, row, checks, proc, sweep, order, asked, changes, faults, asks>>

----------------------------------------------------------------------------
\* The server dies and starts: the tables stay, nobody holds or awaits a lock.
Restart ==
    /\ Fault
    /\ proc' = [q \in Procs |-> Idle]
    /\ sweep' = Asleep
    /\ view' = [u \in Users |-> NoView]
    /\ UNCHANGED <<github, row, checks, order, asked, changes, asks>>

Refreshing(q) == Enter(q) \/ ReadMetadata(q) \/ Collect(q) \/ Recheck(q) \/ Save(q)
Failing(q)    == MetadataFails(q) \/ CollectFails(q) \/ SaveFails(q)

Next ==
    \/ GitHubChanges
    \/ \E q \in Procs : Refreshing(q) \/ Failing(q) \/ HandOut(q)
    \/ Discover \/ DiscoverFails \/ Cut \/ SweepEnds
    \/ \E u \in Users, p \in PRs : AskRefresh(u, p) \/ \E on \in BOOLEAN : AskSwitch(u, p, on)
    \/ \E u \in Users : GiveUp(u) \/ Switch(u) \/ Look(u) \/ LookAway(u)
    \/ Restart

Spec == Init /\ [][Next]_vars

\* Start's loop sweeps again after every interval, its goroutines take what is
\* handed to them, and a refresh that nothing fails ends.
FairSpec ==
    /\ Spec
    /\ WF_vars(Discover) /\ WF_vars(SweepEnds)
    /\ \A q \in Procs : WF_vars(Refreshing(q)) /\ WF_vars(HandOut(q))
    /\ \A u \in Users : WF_vars(Switch(u))

----------------------------------------------------------------------------
(* Properties. *)

Rows == [state: {"OPEN", "CLOSED", "UNKNOWN"}, head: Nat, checked: Nat, monitoring: BOOLEAN, err: BOOLEAN]

\* The tables keep their shape, at most one process is inside a refresh of a PR,
\* and a row has its place in the order once it was attempted.
TypeOK ==
    /\ \A p \in PRs : row[p] \in Rows \cup {NoRow}
    /\ \A p \in PRs : Cardinality({q \in Procs : Inside(q) /\ proc[q].pr = p}) <= 1
    /\ \A p \in PRs : (Tracked(p) /\ row[p].head # 0) => \E i \in DOMAIN order : order[i] = p

\* A PR stays paused, or polled, as a user was last told: no refresh, sweep or
\* discovery that read the row before puts the old switch back.
SwitchKept == \A p \in PRs : Tracked(p) => row[p].monitoring = asked[p]

\* The saved checks belong to the head the row names as checked, and were
\* collected while it was the head: a push during the collection publishes
\* nothing, and a failed collection discards nothing.
SnapshotOfOneMoment ==
    \A p \in PRs : Tracked(p) => checks[p].head = row[p].checked /\ checks[p].live

AtLeast(a, b) == a.head > b.head \/ (a.head = b.head /\ a.ci >= b.ci)

Forward(p) == AtLeast(checks'[p], checks[p]) /\ (Tracked(p) => row'[p].head >= row[p].head)

\* Of two refreshes of a PR the one that looked first never overwrites what the
\* other one saved: neither the checks nor the head go back in time.
NeverRegresses == [][\A p \in PRs : Forward(p)]_vars

\* A detail that is not marked stale never shows checks of a head before the one
\* it names, although its two halves are read without a lock.
ViewNotOlder ==
    \A u \in Users : (view[u].pc = "full" /\ ~Stale(view[u].row)) => view[u].checks.head >= view[u].row.head

\* What should be watched: a switched-on PR that was open when last seen, or is
\* the author's and open.
Watched(p) == asked[p] /\ \/ Tracked(p) /\ row[p].state \in {"OPEN", "UNKNOWN"}
                          \/ p \in Discoverable
                          \/ ~Tracked(p) /\ p \in Seeds

Matches(p) ==
    /\ Tracked(p) /\ ~Stale(row[p])
    /\ row[p].state = github[p].state /\ row[p].head = github[p].head
    /\ checks[p] = [head |-> github[p].head, ci |-> github[p].ci, live |-> TRUE]

\* Once GitHub is quiet every watched PR's snapshot catches up with it, although
\* every sweep may be cut short after its first refresh.
Converges == \A p \in PRs : <>[](Watched(p) => Matches(p))
=============================================================================
