----------------------------- MODULE TaskRefresh ----------------------------
(***************************************************************************)
(* The snapshots that tasks keep of their GitHub issue and of a pull       *)
(* request they share: a sweep that looks the PR up once for all tasks,    *)
(* refreshes users ask for, and users who bind issues, add and remove the  *)
(* PR, edit and close tasks meanwhile.                                     *)
(*                                                                         *)
(* GitHub's states are numbered in the order they appear.  A lookup reads  *)
(* its number when it begins and gets its time when it ends; the clock     *)
(* counts such ends.  One PR is enough, since rows of different PRs only   *)
(* meet in the refresh that saves them one by one.                         *)
(***************************************************************************)
EXTENDS Integers, Sequences, FiniteSets, SequencesExt

CONSTANTS
    Tasks,        \* task ids
    Issues,       \* issues a task may be bound to
    Linked,       \* those whose timeline names the PR
    Sweeper,      \* the goroutine of the periodic sweep
    Users,        \* callers of everything else
    MaxChanges,   \* bound on the changes at GitHub
    MaxEdits,     \* bound on what users do
    MaxSweeps     \* bound on the sweeps

ASSUME TasksAssumption == IsFiniteSet(Tasks)
ASSUME LinkedAssumption == Linked \subseteq Issues
ASSUME SweeperAssumption == Sweeper \notin Users
ASSUME BoundsAssumption == {MaxChanges, MaxEdits, MaxSweeps} \subseteq Nat

VARIABLES
    github,  \* what GitHub shows of the PR and of each issue
    task,    \* tasks: status, title, the issue bound and what was seen of it
    link,    \* task_prs: task -> its row for the PR, or NoLink
    told,    \* task -> status and title as the users last left them
    clock,   \* lookups of the PR that have ended
    proc,    \* process -> where it stands
    sweep,   \* the sweep's tasks to come and its cached lookup (refreshScope)
    changes, edits, sweeps

vars == <<github, task, link, told, clock, proc, sweep, changes, edits, sweeps>>

Procs  == Users \cup {Sweeper}
Idle   == [pc |-> "idle"]
NoLink == [by |-> "none"]
Failed == [by |-> "failed"]
NoScope == [by |-> "nobody"]

\* What a lookup of the PR found: the state it saw, and when it began and ended.
Lookup(by, seen, began, ended) == [by |-> by, seen |-> seen, began |-> began, ended |-> ended]

\* A row attached from a timeline, before its first lookup.
Blank == Lookup("timeline", 0, 0, 0)

Inside(q) == proc[q].pc \notin {"idle", "wait"}

\* keylock: "task:" covers everything from Enter to the end of the call,
\* "pr:" a refresh's lookup.
TaskUnlocked(t) == \A q \in Procs : ~(Inside(q) /\ proc[q].task = t)
PRUnlocked      == \A q \in Procs : proc[q].pc # "looking"

Init ==
    /\ github = [pr |-> 1, issue |-> [i \in Issues |-> 1]]
    /\ \E i \in Issues :
          task = [t \in Tasks |-> [status |-> "open", title |-> 0, issue |-> i, seen |-> [issue |-> i, state |-> 1]]]
    /\ link = [t \in Tasks |-> NoLink]
    /\ told = [t \in Tasks |-> [status |-> "open", title |-> 0]]
    /\ clock = 0
    /\ proc = [q \in Procs |-> Idle]
    /\ sweep = [todo |-> <<>>, scope |-> NoScope]
    /\ changes = 0 /\ edits = 0 /\ sweeps = 0

GitHubChanges ==
    /\ changes < MaxChanges /\ changes' = changes + 1
    /\ \/ github' = [github EXCEPT !.pr = @ + 1]
       \/ \E i \in Issues : github' = [github EXCEPT !.issue[i] = @ + 1]
    /\ UNCHANGED <<task, link, told, clock, proc, sweep, edits, sweeps>>

Goto(q, state) == proc' = [proc EXCEPT ![q] = state]

At(q, pc) == proc[q].pc = pc

----------------------------------------------------------------------------
(* refresh.  activeOnly is what tells the sweep from a user's refresh.     *)

ActiveOnly(q) == q = Sweeper

\* A mutant: writes do not look at the status again.
WritableAnyway(q, t) == TRUE

\* The WHERE clause of every write of a refresh.
Writable(q, t) == task[t].status = "open" \/ (~ActiveOnly(q) /\ task[t].status # "archived")

Enter(q) ==
    /\ At(q, "wait") /\ proc[q].what = "refresh"
    /\ TaskUnlocked(proc[q].task)
    /\ LET t == proc[q].task IN
       IF task[t].status = "open" \/ (~ActiveOnly(q) /\ task[t].status # "archived")
       THEN Goto(q, [pc |-> "issue", task |-> t, row |-> task[t]])
       ELSE Goto(q, Idle)
    /\ UNCHANGED <<github, task, link, told, clock, sweep, changes, edits, sweeps>>

\* FetchIssueInfo answers or fails; what was seen before is kept if it fails.
FetchIssue(q) ==
    /\ At(q, "issue")
    /\ \E seen \in {proc[q].row.seen, [issue |-> proc[q].row.issue, state |-> github.issue[proc[q].row.issue]]} :
          Goto(q, [pc |-> "links", task |-> proc[q].task, row |-> [proc[q].row EXCEPT !.seen = seen]])
    /\ UNCHANGED <<github, task, link, told, clock, sweep, changes, edits, sweeps>>

\* The task's PRs are read, and looked up one after another.
Reread(q, t, row) ==
    IF row = NoLink THEN Goto(q, [pc |-> "save", task |-> t, row |-> proc[q].row])
                    ELSE Goto(q, [pc |-> "look", task |-> t, row |-> proc[q].row, pr |-> row])

\* FetchLinkedPRs answers or fails; a PR it names that the task lacks is attached.
ReadLinks(q) ==
    /\ At(q, "links")
    /\ LET t == proc[q].task
           attach == link[t] = NoLink /\ proc[q].row.issue \in Linked /\ Writable(q, t) IN
       \E answered \in BOOLEAN :
          LET row == IF answered /\ attach THEN Blank ELSE link[t] IN
          /\ link' = [link EXCEPT ![t] = row]
          /\ Reread(q, t, row)
    /\ UNCHANGED <<github, task, told, clock, sweep, changes, edits, sweeps>>

Found(q, found) ==
    Goto(q, [pc |-> "savePR", task |-> proc[q].task, row |-> proc[q].row, pr |-> proc[q].pr, found |-> found])

\* fetchPR: the sweep's cache, or a lookup under the PR's lock.
UseScope(q) ==
    /\ At(q, "look") /\ q = Sweeper /\ sweep.scope # NoScope
    /\ Found(q, sweep.scope)
    /\ UNCHANGED <<github, task, link, told, clock, sweep, changes, edits, sweeps>>

BeginLookup(q) ==
    /\ At(q, "look") /\ PRUnlocked
    /\ q = Sweeper => sweep.scope = NoScope
    /\ Goto(q, [pc |-> "looking", task |-> proc[q].task, row |-> proc[q].row, pr |-> proc[q].pr,
                seen |-> github.pr, began |-> clock])
    /\ UNCHANGED <<github, task, link, told, clock, sweep, changes, edits, sweeps>>

\* A failure is cached too, unless it is the caller's own deadline.
EndLookup(q) ==
    /\ At(q, "looking")
    /\ \/ /\ clock' = clock + 1
          /\ LET found == Lookup("refresh", proc[q].seen, proc[q].began, clock + 1) IN
             /\ Found(q, found)
             /\ sweep' = IF q = Sweeper THEN [sweep EXCEPT !.scope = found] ELSE sweep
       \/ /\ Found(q, Failed)
          /\ \/ sweep' = IF q = Sweeper THEN [sweep EXCEPT !.scope = Failed] ELSE sweep
             \/ UNCHANGED sweep
          /\ UNCHANGED clock
    /\ UNCHANGED <<github, task, link, told, changes, edits, sweeps>>

\* A mutant: whatever was looked up is saved.
MergedAlways(old, found) == IF found = Failed THEN old ELSE found

\* Never regress the newer snapshot.
Merged(old, found) == IF found # Failed /\ found.ended >= old.ended THEN found ELSE old

\* UpdateTaskPRContext; if the row is gone or the task closed, refresh returns.
SavePR(q) ==
    /\ At(q, "savePR")
    /\ LET t == proc[q].task IN
       IF link[t] # NoLink /\ Writable(q, t)
       THEN /\ link' = [link EXCEPT ![t] = Merged(proc[q].pr, proc[q].found)]
            /\ Goto(q, [pc |-> "save", task |-> t, row |-> proc[q].row])
       ELSE Goto(q, Idle) /\ UNCHANGED link
    /\ UNCHANGED <<github, task, told, clock, sweep, changes, edits, sweeps>>

\* A mutant: the whole row is written back, as UpdateTask does.
RefreshedWhole(row, new) == new

\* SaveTaskRefresh: the issue's snapshot only.
Refreshed(row, new) == [row EXCEPT !.seen = new.seen]

SaveTask(q) ==
    /\ At(q, "save")
    /\ LET t == proc[q].task IN
       task' = IF Writable(q, t) THEN [task EXCEPT ![t] = Refreshed(@, proc[q].row)] ELSE task
    /\ Goto(q, Idle)
    /\ UNCHANGED <<github, link, told, clock, sweep, changes, edits, sweeps>>

\* The refresh's time is over, at any of its remote calls: checkpoints still
\* happen, further remote work does not.
OutOfTime(q) ==
    /\ proc[q].pc \in {"issue", "links", "look"}
    /\ Goto(q, [pc |-> "save", task |-> proc[q].task, row |-> proc[q].row])
    /\ UNCHANGED <<github, task, link, told, clock, sweep, changes, edits, sweeps>>

----------------------------------------------------------------------------
(* The sweep: ListTasksForRefresh, then one refresh after another.         *)

BeginSweep ==
    /\ At(Sweeper, "idle") /\ sweep.todo = <<>>
    /\ sweeps < MaxSweeps /\ sweeps' = sweeps + 1
    /\ \E s \in SetToSeqs({t \in Tasks : task[t].status = "open"}) :
          sweep' = [todo |-> s, scope |-> NoScope]
    /\ UNCHANGED <<github, task, link, told, clock, proc, changes, edits>>

SweepNext ==
    /\ At(Sweeper, "idle") /\ sweep.todo # <<>>
    /\ Goto(Sweeper, [pc |-> "wait", what |-> "refresh", task |-> Head(sweep.todo)])
    /\ sweep' = [sweep EXCEPT !.todo = Tail(@)]
    /\ UNCHANGED <<github, task, link, told, clock, changes, edits, sweeps>>

----------------------------------------------------------------------------
(* Users. *)

Edit == edits < MaxEdits /\ edits' = edits + 1

Ask(u, t) ==
    /\ u \in Users /\ At(u, "idle") /\ Edit
    /\ \/ \E w \in {"refresh", "add"} : Goto(u, [pc |-> "wait", what |-> w, task |-> t])
       \/ \E i \in Issues : Goto(u, [pc |-> "wait", what |-> "bind", task |-> t, issue |-> i])
    /\ UNCHANGED <<github, task, link, told, clock, sweep, changes, sweeps>>

\* AddPR: its lookup is not under the PR's lock.
EnterAdd(u) ==
    /\ At(u, "wait") /\ proc[u].what = "add"
    /\ TaskUnlocked(proc[u].task)
    /\ IF task[proc[u].task].status = "archived" THEN Goto(u, Idle)
       ELSE Goto(u, [pc |-> "adding", task |-> proc[u].task, seen |-> github.pr, began |-> clock])
    /\ UNCHANGED <<github, task, link, told, clock, sweep, changes, edits, sweeps>>

\* The lookup ends and the row is inserted or replaced; if the lookup failed an
\* old row keeps what it had.
AddPR(u) ==
    /\ At(u, "adding")
    /\ LET t   == proc[u].task
           old == IF link[t] = NoLink THEN Blank ELSE link[t] IN
       \E answered \in BOOLEAN :
          /\ clock' = IF answered THEN clock + 1 ELSE clock
          /\ link' = IF task[t].status = "archived" THEN link
                     ELSE [link EXCEPT ![t] = IF answered THEN Lookup("add", proc[u].seen, proc[u].began, clock + 1)
                                                          ELSE old]
    /\ Goto(u, Idle)
    /\ UNCHANGED <<github, task, told, sweep, changes, edits, sweeps>>

\* A mutant: binding does not wait for a refresh of the task.
MayBindAnyway(t) == TRUE

MayBind(t) == TaskUnlocked(t)

\* BindIssue looks the new issue up and binds it; a failed lookup leaves its
\* title and state empty.
BindIssue(u) ==
    /\ At(u, "wait") /\ proc[u].what = "bind"
    /\ MayBind(proc[u].task)
    /\ LET t == proc[u].task
           i == proc[u].issue IN
       \E state \in {0, github.issue[i]} :
          task' = IF task[t].status = "archived" THEN task
                  ELSE [task EXCEPT ![t] = [status |-> @.status, title |-> @.title, issue |-> i,
                                             seen |-> [issue |-> i, state |-> state]]]
    /\ Goto(u, Idle)
    /\ UNCHANGED <<github, link, told, clock, sweep, changes, edits, sweeps>>

\* PatchTask, CloseTask and RemoveTaskPR take no lock.
SetTask(t, status, title) ==
    /\ task' = [task EXCEPT ![t] = [status |-> status, title |-> title, issue |-> @.issue, seen |-> @.seen]]
    /\ told' = [told EXCEPT ![t] = [status |-> status, title |-> title]]

Patch(t) ==
    /\ Edit
    /\ \/ \E s \in {"open", "done"} : SetTask(t, s, task[t].title)
       \/ SetTask(t, task[t].status, task[t].title + 1)
    /\ UNCHANGED <<github, link, clock, proc, sweep, changes, sweeps>>

Close(t) ==
    /\ task[t].status # "archived" /\ Edit
    /\ SetTask(t, "archived", task[t].title)
    /\ UNCHANGED <<github, link, clock, proc, sweep, changes, sweeps>>

RemovePR(t) ==
    /\ link[t] # NoLink /\ Edit
    /\ link' = [link EXCEPT ![t] = NoLink]
    /\ UNCHANGED <<github, task, told, clock, proc, sweep, changes, sweeps>>

----------------------------------------------------------------------------
\* The server dies and starts: calls and caches are gone, the tables stay.
Restart ==
    /\ Edit
    /\ proc' = [q \in Procs |-> Idle]
    /\ sweep' = [todo |-> <<>>, scope |-> NoScope]
    /\ UNCHANGED <<github, task, link, told, clock, changes, sweeps>>

Step(q) ==
    \/ Enter(q) \/ FetchIssue(q) \/ ReadLinks(q) \/ UseScope(q) \/ BeginLookup(q)
    \/ EndLookup(q) \/ SavePR(q) \/ SaveTask(q) \/ OutOfTime(q)

Next ==
    \/ GitHubChanges \/ BeginSweep \/ SweepNext \/ Restart
    \/ \E q \in Procs : Step(q)
    \/ \E u \in Users : EnterAdd(u) \/ AddPR(u) \/ BindIssue(u) \/ \E t \in Tasks : Ask(u, t)
    \/ \E t \in Tasks : Patch(t) \/ Close(t) \/ RemovePR(t)

Spec == Init /\ [][Next]_vars

----------------------------------------------------------------------------
(* Properties. *)

\* A task's issue title and state are of the issue it is bound to, although a
\* refresh may have looked up the issue bound before.
SeenIsOfBoundIssue == \A t \in Tasks : task[t].seen.issue = task[t].issue

\* No refresh undoes what an operator set, however long ago it read the task:
\* closing stays closed and a new title stays.
OperatorFieldsKept == \A t \in Tasks : told[t] = [status |-> task[t].status, title |-> task[t].title]

Overlapped(a, b) == a.began < b.ended /\ b.began < a.ended

ByOverlap(t) ==
    (link[t] # NoLink /\ link'[t] # NoLink /\ link'[t].seen < link[t].seen)
      => /\ Overlapped(link[t], link'[t])
         /\ "add" \in {link[t].by, link'[t].by}

\* A task's view of the PR goes back only where AddPR, which looks up without
\* the PR's lock, and another lookup were under way together.  In particular the
\* sweep's cache, however old, replaces nothing newer.
RegressesOnlyByOverlap == [][\A t \in Tasks : ByOverlap(t)]_vars

KeepsSnapshots(t) ==
    (task[t].status = "archived" /\ task'[t].status = "archived")
      => task'[t].seen = task[t].seen /\ (link'[t] = link[t] \/ link'[t] = NoLink)

\* A task that is closed, and stays closed, keeps the snapshots it was closed with:
\* a refresh that began before may finish but changes nothing, and only an
\* explicit removal takes its PR away.
ArchivedKeepsSnapshots == [][\A t \in Tasks : KeepsSnapshots(t)]_vars
=============================================================================
