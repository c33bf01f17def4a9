---------------------------- MODULE LarkTaskSync ----------------------------
(***************************************************************************)
(* One task and the task in Lark that mirrors it: created at most once     *)
(* although the answer of the creation may be lost, recovered by an        *)
(* operator when it stays uncertain, and kept up to date by the handlers   *)
(* that edit the task and by the periodic refresh.                         *)
(*                                                                         *)
(* Lark is the environment.  It creates one task for all requests with the *)
(* same client token, for longer than the four minutes in which SyncLark   *)
(* sends them plus the time of a call; it rejects an empty summary; a call *)
(* given up on was carried out before, or never is; nobody edits the Lark  *)
(* task there.  The title stands for everything that is mirrored but       *)
(* completion.                                                             *)
(***************************************************************************)
EXTENDS Integers, Sequences, FiniteSets

CONSTANTS
    Users,        \* goroutines of HTTP and chat handlers
    Sweeper,      \* the goroutine of the task refresh
    Groups,       \* Lark task lists callers may ask for
    DefaultGroup, \* the configured one, or NoGroup
    NoGroup,
    MaxEdits,     \* bound on edits of the task
    MaxFaults,    \* bound on failed calls and restarts
    MaxAsks       \* bound on syncs, links and recoveries that users ask for

ASSUME SweeperAssumption == Sweeper \notin Users
ASSUME GroupAssumption == NoGroup \notin Groups /\ DefaultGroup \in Groups \cup {NoGroup}
ASSUME BoundsAssumption == {MaxEdits, MaxFaults, MaxAsks} \subseteq Nat

VARIABLES
    task,    \* tasks: title, status, and how often it was edited
    link,    \* task_lark_links: the row, or NoLink
    remotes, \* Lark's tasks; a guid is a place in this sequence
    token,   \* what Lark remembers of the client token
    proc,    \* process -> where it stands
    doubt,   \* a caller was told that the outcome of the creation is uncertain
    acked,   \* the newest edit that a caller was told is in Lark
    edits, faults, asks

vars == <<task, link, remotes, token, proc, doubt, acked, edits, faults, asks>>

Procs   == Users \cup {Sweeper}
Idle    == [pc |-> "idle"]
NoLink  == [guid |-> 0]
NoToken == [guid |-> 0]

\* RequestJSON carries the title of the moment of the reservation; "{}" has none.
Empty == -1

\* A task in Lark; ours: Saturnus created it.  Someone made one before.
Remote(ours, title) == [ours |-> ours, title |-> title, completed |-> FALSE, lists |-> {}]

Bound == link # NoLink /\ link.guid # 0

Init ==
    /\ task = [title |-> 0, status |-> "open", version |-> 0]
    /\ link = NoLink
    /\ remotes = <<Remote(FALSE, 0)>>
    /\ token = NoToken
    /\ proc = [q \in Procs |-> Idle]
    /\ doubt = FALSE
    /\ acked = -1
    /\ edits = 0 /\ faults = 0 /\ asks = 0

Fault == faults < MaxFaults /\ faults' = faults + 1

Goto(q, state) == proc' = [proc EXCEPT ![q] = state]

\* A mutant: the lock covers the creation only.
UnlockedOnceBound == \A q \in Procs : proc[q].pc \notin {"create", "linking"}

\* keylock "lark:<id>", held from the first step after "wait" to the end.
Unlocked == \A q \in Procs : proc[q].pc \in {"idle", "edited", "wait"}

Waits(q, what) == proc[q].pc = "wait" /\ proc[q].what = what

----------------------------------------------------------------------------
(* SyncLark. *)

\* A mutant: an old reservation is sent again.
NeverLate(l) == FALSE

Late(l) == l.guid = 0 /\ l.late

\* ReserveTaskLarkCreation: a row that is there stays.
Reserved(request) ==
    IF link # NoLink THEN link
    ELSE [guid |-> 0, request |-> request, late |-> FALSE, group |-> NoGroup, err |-> FALSE]

GroupOf(l, requested) ==
    IF requested # NoGroup THEN requested
    ELSE IF l.group # NoGroup THEN l.group ELSE DefaultGroup

\* The deferred SetTaskLarkSync of a call that fails.
Fail(q) == link' = [link EXCEPT !.err = TRUE] /\ Goto(q, Idle)

\* Under the lock: the task and the link are loaded and a missing link reserved.
Begin(q) ==
    /\ Waits(q, "sync") /\ Unlocked
    /\ LET l == Reserved(task.title) IN
       IF Late(l)
       THEN /\ link' = [l EXCEPT !.err = TRUE]
            /\ doubt' = TRUE
            /\ Goto(q, Idle)
       ELSE /\ link' = l
            /\ Goto(q, [pc |-> IF l.guid = 0 THEN "create" ELSE "group", task |-> task,
                        group |-> GroupOf(l, proc[q].group)])
            /\ UNCHANGED doubt
    /\ UNCHANGED <<task, remotes, token, acked, edits, faults, asks>>

\* Lark's side of the creation: the task of the token, or a new one.
Creates(guid) ==
    IF token.guid # 0
    THEN guid = token.guid /\ UNCHANGED <<remotes, token>>
    ELSE /\ guid = Len(remotes) + 1
         /\ remotes' = Append(remotes, Remote(TRUE, link.request))
         /\ token' = [guid |-> guid, byRow |-> TRUE]

\* SetTaskLarkRemote.
Bind(guid) == link' = [link EXCEPT !.guid = guid, !.err = FALSE]

Create(q) ==
    /\ proc[q].pc = "create" /\ link.request # Empty
    /\ \E guid \in 1..(Len(remotes) + 1) : Creates(guid) /\ Bind(guid)
    /\ Goto(q, [proc[q] EXCEPT !.pc = "group"])
    /\ UNCHANGED <<task, doubt, acked, edits, faults, asks>>

\* The answer is lost, or the guid cannot be saved.
CreateUnanswered(q) ==
    /\ proc[q].pc = "create" /\ link.request # Empty /\ Fault
    /\ \E guid \in 1..(Len(remotes) + 1) : Creates(guid)
    /\ Fail(q)
    /\ UNCHANGED <<task, doubt, acked, edits, asks>>

\* The request never arrives.
CreateFails(q) ==
    /\ proc[q].pc = "create" /\ link.request # Empty /\ Fault
    /\ Fail(q)
    /\ UNCHANGED <<task, remotes, token, doubt, acked, edits, asks>>

CreateRejected(q) ==
    /\ proc[q].pc = "create" /\ link.request = Empty
    /\ Fail(q)
    /\ UNCHANGED <<task, remotes, token, doubt, acked, edits, faults, asks>>

\* AddTaskToList, then SetTaskLarkGroup; nothing if the group is recorded.
JoinGroup(q) ==
    /\ proc[q].pc = "group"
    /\ LET g == proc[q].group IN
       IF g \in {NoGroup, link.group} THEN UNCHANGED <<remotes, link>>
       ELSE /\ remotes' = [remotes EXCEPT ![link.guid].lists = @ \cup {g}]
            /\ link' = [link EXCEPT !.group = g]
    /\ Goto(q, [proc[q] EXCEPT !.pc = "update"])
    /\ UNCHANGED <<task, token, doubt, acked, edits, faults, asks>>

JoinGroupFails(q) ==
    /\ proc[q].pc = "group" /\ proc[q].group \notin {NoGroup, link.group} /\ Fault
    /\ remotes' \in {remotes, [remotes EXCEPT ![link.guid].lists = @ \cup {proc[q].group}]}
    /\ Fail(q)
    /\ UNCHANGED <<task, token, doubt, acked, edits, asks>>

\* GetTaskContext and UpdateTaskContext: what differs is written; a completed
\* Lark task is never opened again.
Updated(remote, t) ==
    [remote EXCEPT !.title = t.title, !.completed = @ \/ t.status = "done"]

Update(q) ==
    /\ proc[q].pc = "update"
    /\ remotes' = [remotes EXCEPT ![link.guid] = Updated(@, proc[q].task)]
    /\ link' = [link EXCEPT !.err = FALSE]
    /\ acked' = IF proc[q].task.version > acked THEN proc[q].task.version ELSE acked
    /\ Goto(q, Idle)
    /\ UNCHANGED <<task, token, doubt, edits, faults, asks>>

UpdateFails(q) ==
    /\ proc[q].pc = "update" /\ Fault
    /\ remotes' \in {remotes, [remotes EXCEPT ![link.guid] = Updated(@, proc[q].task)]}
    /\ Fail(q)
    /\ UNCHANGED <<task, token, doubt, acked, edits, asks>>

----------------------------------------------------------------------------
(* Handlers. *)

\* PatchTask and CloseTask take no lock; the handler then syncs.
Edit(u) ==
    /\ u \in Users /\ proc[u] = Idle
    /\ edits < MaxEdits /\ edits' = edits + 1
    /\ \E title \in {task.title, task.title + 1}, status \in {"open", "done"} :
          task' = [title |-> title, status |-> status, version |-> task.version + 1]
    /\ Goto(u, [pc |-> "edited"])
    /\ UNCHANGED <<link, remotes, token, doubt, acked, faults, asks>>

WaitToSync(q, group) == Goto(q, [pc |-> "wait", what |-> "sync", group |-> group])

\* syncExistingTaskLark: without a bound Lark task the caller is told nothing,
\* or that the creation is pending.
SyncExisting(u) ==
    /\ proc[u].pc = "edited"
    /\ IF Bound THEN WaitToSync(u, NoGroup) ELSE Goto(u, Idle)
    /\ UNCHANGED <<task, link, remotes, token, doubt, acked, edits, faults, asks>>

Ask == asks < MaxAsks /\ asks' = asks + 1

\* createTask and its reply, syncTaskLark, /sat task re-sync.
AskSync(u) ==
    /\ u \in Users /\ proc[u] = Idle /\ Ask
    /\ \E g \in Groups \cup {NoGroup} : WaitToSync(u, g)
    /\ UNCHANGED <<task, link, remotes, token, doubt, acked, edits, faults>>

\* A mutant: the refresh leaves the Lark task alone.
SweepNever == FALSE

\* refresh's last step, for the tasks ListTasksForRefresh selects.
Sweeps == Bound /\ task.status = "open"

Refresh ==
    /\ proc[Sweeper] = Idle /\ Sweeps
    /\ WaitToSync(Sweeper, NoGroup)
    /\ UNCHANGED <<task, link, remotes, token, doubt, acked, edits, faults, asks>>

\* /sat task link-lark for a task that someone created in Lark.
AskLink(u) ==
    /\ u \in Users /\ proc[u] = Idle /\ Ask
    /\ \E guid \in DOMAIN remotes :
          /\ ~remotes[guid].ours
          /\ Goto(u, [pc |-> "wait", what |-> "link", guid |-> guid])
    /\ UNCHANGED <<task, link, remotes, token, doubt, acked, edits, faults>>

Recovering(q) == proc[q].pc = "linking" \/ Waits(q, "link") \/ Waits(q, "reset")

Looks(guid) == guid \in DOMAIN remotes /\ remotes[guid].ours

\* The operator who was told that the outcome is uncertain looks for the task in
\* Lark: link-lark if it is there, reset-lark-create if not.  One recovery at a
\* time.
Recover(u) ==
    /\ u \in Users /\ proc[u] = Idle /\ Ask
    /\ doubt /\ \A q \in Procs : ~Recovering(q)
    /\ doubt' = FALSE
    /\ IF \E guid \in DOMAIN remotes : Looks(guid)
       THEN \E guid \in DOMAIN remotes : Looks(guid) /\ Goto(u, [pc |-> "wait", what |-> "link", guid |-> guid])
       ELSE Goto(u, [pc |-> "wait", what |-> "reset"])
    /\ UNCHANGED <<task, link, remotes, token, acked, edits, faults>>

\* LinkLark: get the remote task, reserve, bind.
Link(q) ==
    /\ Waits(q, "link") /\ Unlocked
    /\ link' = Reserved(Empty)
    /\ Goto(q, [pc |-> "linking", guid |-> proc[q].guid])
    /\ UNCHANGED <<task, remotes, token, doubt, acked, edits, faults, asks>>

LinkBinds(q) ==
    /\ proc[q].pc = "linking"
    /\ IF link.guid \in {0, proc[q].guid} THEN Bind(proc[q].guid) ELSE UNCHANGED link
    /\ Goto(q, Idle)
    /\ UNCHANGED <<task, remotes, token, doubt, acked, edits, faults, asks>>

\* ResetTaskLarkCreation deletes an unbound row only, and what was uncertain of it
\* is so no more: nobody resets for a reservation that is gone.
Reset(q) ==
    /\ Waits(q, "reset") /\ Unlocked
    /\ IF Bound \/ link = NoLink THEN UNCHANGED <<link, token, doubt>>
       ELSE /\ link' = NoLink
            /\ token' = IF token = NoToken THEN token ELSE [token EXCEPT !.byRow = FALSE]
            /\ doubt' = FALSE
    /\ Goto(q, Idle)
    /\ UNCHANGED <<task, remotes, acked, edits, faults, asks>>

----------------------------------------------------------------------------
(* Time and failures. *)

\* Four minutes have passed since started_at.
GrowsLate ==
    /\ link # NoLink /\ link.guid = 0 /\ ~link.late
    /\ link' = [link EXCEPT !.late = TRUE]
    /\ UNCHANGED <<task, remotes, token, proc, doubt, acked, edits, faults, asks>>

\* Lark forgets the token, when the row whose reservation used it first allows no
\* further call (byRow: that row is still there).
TokenExpires ==
    /\ token.guid # 0
    /\ (token.byRow /\ ~Bound) => link.late /\ \A q \in Procs : proc[q].pc # "create"
    /\ token' = NoToken
    /\ UNCHANGED <<task, link, remotes, proc, doubt, acked, edits, faults, asks>>

\* The server dies and starts; what its callers were told stays told.
Restart ==
    /\ Fault
    /\ proc' = [q \in Procs |-> Idle]
    /\ UNCHANGED <<task, link, remotes, token, doubt, acked, edits, asks>>

Serve(q) ==
    \/ Begin(q) \/ Create(q) \/ CreateRejected(q) \/ JoinGroup(q) \/ Update(q)
    \/ Link(q) \/ LinkBinds(q) \/ Reset(q)

FailAt(q) == CreateUnanswered(q) \/ CreateFails(q) \/ JoinGroupFails(q) \/ UpdateFails(q)

Next ==
    \/ \E q \in Procs : Serve(q) \/ FailAt(q)
    \/ \E u \in Users : Edit(u) \/ SyncExisting(u) \/ AskSync(u) \/ AskLink(u) \/ Recover(u)
    \/ Refresh \/ GrowsLate \/ TokenExpires \/ Restart

Spec == Init /\ [][Next]_vars

\* Handlers run on, and the refresh comes round again after every interval.
FairSpec ==
    /\ Spec
    /\ WF_vars(Refresh)
    /\ \A q \in Procs : WF_vars(Serve(q)) /\ WF_vars(SyncExisting(q))

----------------------------------------------------------------------------
(* Properties. *)

\* Titles and versions grow together, at most one call holds the lock, and a
\* call past the creation works on a bound task.  A recorded group has the task.
TypeOK ==
    /\ task.title \in 0..task.version /\ task.version = edits
    /\ Cardinality({q \in Procs : proc[q].pc \notin {"idle", "edited", "wait"}}) <= 1
    /\ \A q \in Procs : proc[q].pc \in {"group", "update"} => Bound
    /\ Bound => /\ link.guid \in DOMAIN remotes
                /\ link.group # NoGroup => link.group \in remotes[link.guid].lists

\* However often a creation is retried, its answers lost, the server restarted and
\* the reservation reset, Saturnus creates one task in Lark.  It holds for operators who
\* recover one at a time, and reset the reservation their doubt is about and no later
\* one (Recover, Reset): the code asks for that and cannot enforce it.
OneRemoteTask == Cardinality({guid \in DOMAIN remotes : remotes[guid].ours}) <= 1

\* Once a caller was told that the task is in Lark as it is now, Lark shows it
\* until the next edit: no call that loaded the task before writes after.
ToldIsShown ==
    acked = task.version =>
        /\ Bound
        /\ remotes[link.guid].title = task.title
        /\ task.status = "done" => remotes[link.guid].completed

\* The title of an open task reaches Lark in the end, although its handler's sync
\* failed, was skipped or died with the server.
OpenTaskConverges ==
    <>[](Bound /\ task.status = "open" => remotes[link.guid].title = task.title)
=============================================================================
