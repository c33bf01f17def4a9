------------------------- MODULE TaskRefreshProofs -------------------------
(***************************************************************************)
(* What TaskRefresh promises for any tasks, issues and users, however      *)
(* often GitHub changes and tasks are edited.                              *)
(***************************************************************************)
EXTENDS TaskRefresh, FiniteSetTheorems, TLAPS

----------------------------------------------------------------------------
(* The inductive invariant.                                                *)

Snapshots == [issue: Issues, state: Nat]
TaskRows  == [status: {"open", "done", "archived"}, title: Nat, issue: Issues, seen: Snapshots]
Lookups   == [by: {"timeline", "refresh", "add"}, seen: Nat, began: Nat, ended: Nat]

Refreshes == {"issue", "links", "look", "looking", "savePR", "save"}
Holding   == {"look", "looking", "savePR"}
States    == {"idle", "wait", "adding"} \cup Refreshes

Shape ==
    /\ github \in [pr: Nat, issue: [Issues -> Nat]]
    /\ task \in [Tasks -> TaskRows]
    /\ link \in [Tasks -> Lookups \cup {NoLink}]
    /\ told = [t \in Tasks |-> told[t]]
    /\ clock \in Nat
    /\ proc = [q \in Procs |-> proc[q]]

Sweeping ==
    /\ sweep = [todo |-> sweep.todo, scope |-> sweep.scope]
    /\ sweep.todo \in Seq(Tasks)
    /\ sweep.scope \in Lookups \cup {NoScope, Failed}

Looking(q) == proc[q].pc \in {"looking", "adding"}

\* What a process inside a task relies on: nobody binds another issue, or saves
\* another lookup of the PR, before it is done.
Relies(q) ==
    /\ proc[q].pc \in States
    /\ proc[q].pc # "idle" => proc[q].task \in Tasks
    /\ (proc[q].pc = "wait" /\ proc[q].what = "bind") => proc[q].issue \in Issues
    /\ proc[q].pc \in Refreshes => /\ proc[q].row \in TaskRows
                                   /\ proc[q].row.seen.issue = proc[q].row.issue
                                   /\ proc[q].row.issue = task[proc[q].task].issue
    /\ proc[q].pc \in Holding => /\ proc[q].pr \in Lookups
                                 /\ link[proc[q].task] \in {proc[q].pr, NoLink}
    /\ proc[q].pc = "savePR" => proc[q].found \in Lookups \cup {Failed}
    /\ Looking(q) => proc[q].seen \in Nat /\ proc[q].began \in Nat

Exclusive ==
    \A q, s \in Procs : (Inside(q) /\ Inside(s) /\ proc[q].task = proc[s].task) => q = s

\* The lookups that are stored, cached or about to be saved.
InPlay(a) ==
    \/ \E t \in Tasks : link[t] = a
    \/ sweep.scope = a
    \/ \E q \in Procs : \/ proc[q].pc \in Holding /\ proc[q].pr = a
                        \/ proc[q].pc = "savePR" /\ proc[q].found = a

Past(a) ==
    /\ a.seen <= github.pr /\ a.ended <= clock
    /\ IF a.by = "timeline" THEN a = Blank ELSE a.began < a.ended

\* A lookup that began when another had ended saw no less; two lookups of
\* refreshes never overlap.
Ordered(a, b) == a.ended <= b.began => a.seen <= b.seen
Apart(a, b) ==
    (a.by = "refresh" /\ b.by = "refresh") => a = b \/ a.ended <= b.began \/ b.ended <= a.began

\* The same of a lookup that is under way.
Follows(q, a) ==
    /\ a.ended <= proc[q].began => a.seen <= proc[q].seen
    /\ (proc[q].pc = "looking" /\ a.by = "refresh") => a.ended <= proc[q].began

Times ==
    /\ \A a \in Lookups : InPlay(a) => Past(a)
    /\ \A a, b \in Lookups : InPlay(a) /\ InPlay(b) => Ordered(a, b) /\ Apart(a, b)
    /\ \A q \in Procs : Looking(q) => proc[q].began <= clock /\ proc[q].seen <= github.pr
    /\ \A q \in Procs, a \in Lookups : Looking(q) /\ InPlay(a) => Follows(q, a)
    /\ \A q, s \in Procs : proc[q].pc = "looking" /\ proc[s].pc = "looking" => q = s

IInv ==
    /\ Shape /\ Sweeping
    /\ SeenIsOfBoundIssue /\ OperatorFieldsKept
    /\ \A q \in Procs : Relies(q)
    /\ Exclusive
    /\ Times

----------------------------------------------------------------------------
(* Where it starts.                                                        *)

LEMMA Constants ==
    /\ Blank \in Lookups
    /\ NoLink \notin Lookups /\ NoScope \notin Lookups /\ Failed \notin Lookups
  <1>1. Blank = [by |-> "timeline", seen |-> 0, began |-> 0, ended |-> 0]
    BY DEF Blank, Lookup
  <1>2. Blank \in Lookups
    BY <1>1 DEF Lookups
  <1>3. \A a \in Lookups : a.by \in {"timeline", "refresh", "add"}
    BY DEF Lookups
  <1>4. NoLink.by = "none" /\ NoScope.by = "nobody" /\ Failed.by = "failed"
    BY DEF NoLink, NoScope, Failed
  <1> QED
    BY <1>2, <1>3, <1>4

LEMMA Initial == Init => IInv
  <1> SUFFICES ASSUME Init
               PROVE  IInv
    OBVIOUS
  <1>1. PICK i \in Issues :
           task = [t \in Tasks |-> [status |-> "open", title |-> 0, issue |-> i, seen |-> [issue |-> i, state |-> 1]]]
    BY DEF Init
  <1>2. Shape
    BY <1>1 DEF Init, Shape, TaskRows, Snapshots
  <1>3. Sweeping
    BY DEF Init, Sweeping
  <1>4. SeenIsOfBoundIssue /\ OperatorFieldsKept
    BY <1>1 DEF Init, SeenIsOfBoundIssue, OperatorFieldsKept
  <1>5. \A q \in Procs : proc[q].pc = "idle"
    BY DEF Init, Idle
  <1>6. (\A q \in Procs : Relies(q)) /\ Exclusive
    BY <1>5 DEF Relies, Exclusive, Inside, States, Refreshes, Holding, Looking
  <1>7. \A a \in Lookups : ~InPlay(a)
    BY <1>5, Constants DEF Init, InPlay, Holding
  <1>8. Times
    BY <1>5, <1>7 DEF Times, Looking
  <1> QED
    BY <1>2, <1>3, <1>4, <1>6, <1>8 DEF IInv

----------------------------------------------------------------------------
(* Processes and their locks.                                              *)

\* A process that stays where it is, while nobody touches its task.
LEMMA StaysKept ==
    ASSUME IInv, NEW s \in Procs, proc'[s] = proc[s],
           Inside(s) => /\ task'[proc[s].task].issue = task[proc[s].task].issue
                        /\ link'[proc[s].task] \in {link[proc[s].task], NoLink}
    PROVE  Relies(s)'
  <1>1. Relies(s)
    BY DEF IInv
  <1>2. CASE ~Inside(s)
    BY <1>1, <1>2 DEF Relies, Inside, Refreshes, Holding, Looking
  <1>3. CASE Inside(s)
    BY <1>1, <1>3 DEF Relies, Inside, Refreshes, Holding, Looking
  <1> QED
    BY <1>2, <1>3

\* A process moves within its task, into it or out of it.
LEMMA ProcessMoves ==
    ASSUME IInv, NEW q \in Procs, NEW state,
           proc' = [proc EXCEPT ![q] = state],
           \A s \in Procs \ {q} : ~(Inside(s) /\ proc[s].task = proc[q].task),
           state.pc \notin {"idle", "wait"} => state.task = proc[q].task,
           \A t \in Tasks : t # proc[q].task => task'[t] = task[t] /\ link'[t] = link[t],
           Relies(q)'
    PROVE  (\A s \in Procs : Relies(s)') /\ Exclusive'
  <1>1. proc'[q] = state /\ \A s \in Procs \ {q} : proc'[s] = proc[s]
    BY DEF IInv, Shape
  <1>2. ASSUME NEW s \in Procs \ {q} PROVE Relies(s)'
    <2>1. Inside(s) => proc[s].task \in Tasks /\ proc[s].task # proc[q].task
      BY DEF IInv, Relies, Inside
    <2> QED
      BY <1>1, <2>1, StaysKept
  <1>3. Exclusive'
    BY <1>1 DEF IInv, Exclusive, Inside
  <1> QED
    BY <1>2, <1>3

\* A process outside of any task moves, or nobody does.
LEMMA OutsideMoves ==
    ASSUME IInv, proc' = [q \in Procs |-> proc'[q]],
           \A q \in Procs : proc'[q] = proc[q] \/ (proc'[q].pc \in {"idle", "wait"} /\ Relies(q)'),
           \A t \in Tasks : task'[t].issue = task[t].issue /\ link'[t] \in {link[t], NoLink}
    PROVE  (\A s \in Procs : Relies(s)') /\ Exclusive'
  <1>1. ASSUME NEW s \in Procs PROVE Relies(s)'
    <2>1. Inside(s) => proc[s].task \in Tasks
      BY DEF IInv, Relies, Inside
    <2> QED
      BY <2>1, StaysKept
  <1>2. \A s \in Procs : Inside(s)' => Inside(s) /\ proc'[s] = proc[s]
    BY DEF Inside
  <1>3. Exclusive'
    BY <1>2 DEF IInv, Exclusive
  <1> QED
    BY <1>1, <1>3

----------------------------------------------------------------------------
(* Lookups and their times.                                                *)

\* Nothing new comes into play; a lookup may begin.
LEMMA TimesKept ==
    ASSUME IInv, Shape', \A q \in Procs : Relies(q)',
           \A a \in Lookups : InPlay(a)' => InPlay(a) \/ a = Blank,
           clock' = clock, github.pr <= github'.pr,
           \A q \in Procs : Looking(q)' =>
              \/ proc'[q] = proc[q]
              \/ /\ proc'[q].began = clock /\ proc'[q].seen = github.pr
                 /\ proc'[q].pc = "looking" => PRUnlocked,
           \A q, s \in Procs : (Looking(q)' /\ proc'[q] # proc[q] /\ Looking(s)' /\ proc'[s] # proc[s]) => q = s
    PROVE  Times'
  <1>1. Blank = [by |-> "timeline", seen |-> 0, began |-> 0, ended |-> 0]
    BY DEF Blank, Lookup
  <1>2. Shape /\ Times /\ github.pr \in Nat /\ github'.pr \in Nat /\ clock \in Nat
    BY DEF IInv, Shape
  <1>3. \A a \in Lookups : InPlay(a) => Past(a) /\ Past(a)'
    BY <1>2 DEF Times, Past, Lookups
  <1>4. Past(Blank) /\ Past(Blank)'
    BY <1>1, <1>2 DEF Past
  <1>5. ASSUME NEW a \in Lookups, NEW b \in Lookups, InPlay(a)', InPlay(b)'
        PROVE  Ordered(a, b) /\ Apart(a, b)
    <2>1. CASE InPlay(a) /\ InPlay(b)
      BY <1>2, <2>1 DEF Times
    <2>2. CASE a = Blank
      BY <1>1, <2>2 DEF Ordered, Apart, Lookups
    <2>3. CASE InPlay(a) /\ b = Blank
      <3>1. Past(a)
        BY <1>3, <2>3
      <3> QED
        BY <1>1, <2>3, <3>1 DEF Past, Ordered, Apart, Lookups
    <2> QED
      BY <1>5, <2>1, <2>2, <2>3
  <1>6. ASSUME NEW q \in Procs, Looking(q)'
        PROVE  /\ proc'[q].began <= clock /\ proc'[q].seen <= github'.pr
               /\ proc'[q].began \in Nat /\ proc'[q].seen \in Nat
    <2>1. proc'[q].began \in Nat /\ proc'[q].seen \in Nat
      BY <1>6 DEF Relies
    <2>2. CASE proc'[q] = proc[q]
      BY <1>2, <1>6, <2>1, <2>2 DEF Times, Looking
    <2>3. CASE proc'[q] # proc[q]
      BY <1>2, <1>6, <2>1, <2>3
    <2> QED
      BY <2>1, <2>2, <2>3
  <1>7. ASSUME NEW q \in Procs, NEW a \in Lookups, Looking(q)', InPlay(a)'
        PROVE  Follows(q, a)'
    <2>1. CASE a = Blank
      BY <1>1, <1>6, <1>7, <2>1 DEF Follows
    <2>2. CASE InPlay(a) /\ proc'[q] = proc[q]
      BY <1>2, <1>7, <2>2 DEF Times, Looking, Follows
    <2>3. CASE InPlay(a) /\ proc'[q] # proc[q]
      BY <1>3, <1>7, <2>3 DEF Follows, Past
    <2> QED
      BY <1>7, <2>1, <2>2, <2>3
  <1>8. ASSUME NEW q \in Procs, NEW s \in Procs, proc'[q].pc = "looking", proc'[s].pc = "looking"
        PROVE  q = s
    <2>1. CASE proc'[q] = proc[q] /\ proc'[s] = proc[s]
      BY <1>2, <1>8, <2>1 DEF Times
    <2>2. CASE proc'[q] # proc[q] \/ proc'[s] # proc[s]
      BY <1>8, <2>2 DEF Looking, PRUnlocked
    <2> QED
      BY <2>1, <2>2
  <1>9. \A a, b \in Lookups : Ordered(a, b)' = Ordered(a, b) /\ Apart(a, b)' = Apart(a, b)
    BY DEF Ordered, Apart
  <1> QED
    BY <1>3, <1>4, <1>5, <1>6, <1>7, <1>8 DEF Times, Ordered, Apart

\* A lookup ends, at the next tick of the clock.
LEMMA LookupEnds ==
    ASSUME IInv, Shape', \A s \in Procs : Relies(s)',
           NEW q \in Procs, Looking(q), NEW n \in Lookups,
           n.seen = proc[q].seen, n.began = proc[q].began, n.ended = clock + 1,
           n.by = IF proc[q].pc = "looking" THEN "refresh" ELSE "add",
           \A a \in Lookups : InPlay(a)' => InPlay(a) \/ a = n,
           clock' = clock + 1, github' = github,
           ~Looking(q)', \A s \in Procs \ {q} : proc'[s] = proc[s]
    PROVE  Times'
  <1>1. Shape /\ Times /\ github.pr \in Nat /\ clock \in Nat
    BY DEF IInv, Shape
  <1>2. /\ n.seen \in Nat /\ n.began \in Nat /\ n.ended \in Nat
        /\ n.began <= clock /\ n.seen <= github.pr
    BY <1>1 DEF Times, Lookups
  <1>3. \A a \in Lookups : InPlay(a) => Past(a) /\ Past(a)' /\ Follows(q, a)
    BY <1>1 DEF Times, Past, Lookups
  <1>4. Past(n)'
    BY <1>1, <1>2 DEF Past
  <1>5. ASSUME NEW a \in Lookups, NEW b \in Lookups, InPlay(a)', InPlay(b)'
        PROVE  Ordered(a, b) /\ Apart(a, b)
    <2>1. CASE InPlay(a) /\ InPlay(b)
      BY <1>1, <2>1 DEF Times
    <2>2. CASE a = n /\ b = n
      BY <1>2, <2>2 DEF Ordered, Apart
    <2>3. CASE InPlay(a) /\ b = n
      <3>1. Past(a) /\ Follows(q, a)
        BY <1>3, <2>3
      <3> QED
        BY <1>2, <2>3, <3>1 DEF Follows, Ordered, Apart, Looking
    <2>4. CASE a = n /\ InPlay(b)
      <3>1. Past(b) /\ Follows(q, b) /\ b.began \in Nat /\ b.ended \in Nat
        BY <1>3, <2>4 DEF Lookups
      <3>2. b.began <= clock
        BY <1>1, <3>1 DEF Past, Blank, Lookup
      <3> QED
        BY <1>1, <1>2, <2>4, <3>1, <3>2 DEF Follows, Ordered, Apart, Looking
    <2> QED
      BY <1>5, <2>1, <2>2, <2>3, <2>4
  <1>6. ASSUME NEW s \in Procs, Looking(s)'
        PROVE  /\ Looking(s) /\ proc'[s] = proc[s]
               /\ proc[s].began <= clock /\ proc[s].seen <= github.pr
               /\ proc[s].began \in Nat /\ proc[s].seen \in Nat
    BY <1>1, <1>6 DEF Times, Looking, IInv, Relies
  <1>7. ASSUME NEW s \in Procs, NEW a \in Lookups, Looking(s)', InPlay(a)'
        PROVE  Follows(s, a)'
    <2>1. CASE InPlay(a)
      BY <1>1, <1>6, <1>7, <2>1 DEF Times, Follows
    <2>2. CASE a = n
      <3>1. ~(n.ended <= proc[s].began)
        BY <1>1, <1>6, <1>7
      <3>2. ~(proc[s].pc = "looking" /\ n.by = "refresh")
        BY <1>1, <1>6, <1>7 DEF Times
      <3> QED
        BY <1>6, <1>7, <2>2, <3>1, <3>2 DEF Follows
    <2> QED
      BY <1>7, <2>1, <2>2
  <1>8. ASSUME NEW r \in Procs, NEW s \in Procs, proc'[r].pc = "looking", proc'[s].pc = "looking"
        PROVE  r = s
    BY <1>1, <1>8 DEF Times, Looking
  <1> QED
    BY <1>1, <1>3, <1>4, <1>5, <1>6, <1>7, <1>8 DEF Times, Ordered, Apart

----------------------------------------------------------------------------
(* Steps of a process within its task.                                     *)

AloneIn(q) == \A s \in Procs \ {q} : ~(Inside(s) /\ proc[s].task = proc[q].task)

LEMMA InsideIsAlone ==
    ASSUME IInv, NEW q \in Procs, Inside(q)
    PROVE  AloneIn(q)
  BY DEF IInv, Exclusive, AloneIn

\* All of the invariant but the times.
LEMMA InTaskMoves ==
    ASSUME IInv, NEW q \in Procs, NEW state,
           proc' = [proc EXCEPT ![q] = state], AloneIn(q),
           state.pc \notin {"idle", "wait"} => state.task = proc[q].task,
           UNCHANGED <<github, told>>, clock' \in Nat, Sweeping',
           task' \in [Tasks -> TaskRows], SeenIsOfBoundIssue', OperatorFieldsKept',
           link' \in [Tasks -> Lookups \cup {NoLink}],
           \A t \in Tasks : t # proc[q].task => task'[t] = task[t] /\ link'[t] = link[t],
           Relies(q)'
    PROVE  /\ Shape' /\ Sweeping' /\ SeenIsOfBoundIssue' /\ OperatorFieldsKept'
           /\ (\A s \in Procs : Relies(s)') /\ Exclusive'
           /\ proc'[q] = state /\ \A s \in Procs \ {q} : proc'[s] = proc[s]
  <1>1. Shape'
    BY DEF IInv, Shape
  <1>2. (\A s \in Procs : Relies(s)') /\ Exclusive'
    BY ProcessMoves DEF AloneIn
  <1>3. proc'[q] = state /\ \A s \in Procs \ {q} : proc'[s] = proc[s]
    BY DEF IInv, Shape
  <1> QED
    BY <1>1, <1>2, <1>3

\* The times too, if the step ends no lookup.
LEMMA InTaskKeeps ==
    ASSUME IInv, NEW q \in Procs, NEW state,
           proc' = [proc EXCEPT ![q] = state], AloneIn(q),
           state.pc \notin {"idle", "wait"} => state.task = proc[q].task,
           UNCHANGED <<github, told, clock>>, Sweeping',
           task' \in [Tasks -> TaskRows], SeenIsOfBoundIssue', OperatorFieldsKept',
           link' \in [Tasks -> Lookups \cup {NoLink}],
           \A t \in Tasks : t # proc[q].task => task'[t] = task[t] /\ link'[t] = link[t],
           Relies(q)',
           \A a \in Lookups : InPlay(a)' => InPlay(a) \/ a = Blank,
           state.pc \in {"looking", "adding"} =>
              /\ state.began = clock /\ state.seen = github.pr
              /\ state.pc = "looking" => PRUnlocked
    PROVE  IInv'
  <1>1. clock' \in Nat /\ github.pr <= github'.pr
    BY DEF IInv, Shape
  <1>2. /\ Shape' /\ Sweeping' /\ SeenIsOfBoundIssue' /\ OperatorFieldsKept'
        /\ (\A s \in Procs : Relies(s)') /\ Exclusive'
        /\ proc'[q] = state /\ \A s \in Procs \ {q} : proc'[s] = proc[s]
    BY <1>1, InTaskMoves
  <1>3. Times'
    <2>1. \A s \in Procs : Looking(s)' =>
              \/ proc'[s] = proc[s]
              \/ /\ proc'[s].began = clock /\ proc'[s].seen = github.pr
                 /\ proc'[s].pc = "looking" => PRUnlocked
      BY <1>2 DEF Looking
    <2> QED
      BY <1>1, <1>2, <2>1, TimesKept
  <1> QED
    BY <1>2, <1>3 DEF IInv

\* What a step can bring into play.
LEMMA PlayMoves ==
    ASSUME IInv, NEW q \in Procs, NEW state, proc' = [proc EXCEPT ![q] = state],
           NEW a \in Lookups, InPlay(a)'
    PROVE  \/ InPlay(a)
           \/ \E t \in Tasks : link'[t] = a /\ link'[t] # link[t]
           \/ sweep'.scope = a /\ sweep'.scope # sweep.scope
           \/ state.pc \in Holding /\ state.pr = a
           \/ state.pc = "savePR" /\ state.found = a
  <1>1. proc'[q] = state /\ \A s \in Procs \ {q} : proc'[s] = proc[s]
    BY DEF IInv, Shape
  <1> QED
    BY <1>1 DEF InPlay

LEMMA PlayEnds ==
    ASSUME IInv, NEW q \in Procs, proc' = [proc EXCEPT ![q] = Idle], sweep' = sweep,
           NEW a \in Lookups, InPlay(a)'
    PROVE  InPlay(a) \/ \E t \in Tasks : link'[t] = a /\ link'[t] # link[t]
  <1>1. PICK state : state = Idle /\ proc' = [proc EXCEPT ![q] = state]
    OBVIOUS
  <1>2. state.pc = "idle"
    BY <1>1 DEF Idle
  <1> QED
    BY <1>1, <1>2, PlayMoves DEF Holding

\* The facts of a state that most steps use.
LEMMA Facts ==
    ASSUME IInv, NEW q \in Procs, proc[q].pc # "idle"
    PROVE  /\ Relies(q) /\ proc[q].task \in Tasks /\ task[proc[q].task] \in TaskRows
           /\ task[proc[q].task].seen.issue = task[proc[q].task].issue
           /\ github.pr \in Nat /\ clock \in Nat
           /\ \A i \in Issues : github.issue[i] \in Nat
           /\ task \in [Tasks -> TaskRows] /\ link \in [Tasks -> Lookups \cup {NoLink}]
  BY DEF IInv, Relies, Shape, SeenIsOfBoundIssue

LEMMA EnterKeeps ==
    ASSUME IInv, NEW q \in Procs, Enter(q)
    PROVE  IInv'
  <1>1. PICK t \in Tasks : t = proc[q].task /\ proc[q].pc = "wait" /\ task[t] \in TaskRows
    BY Facts DEF Enter, At
  <1>2. PICK state :
           /\ proc' = [proc EXCEPT ![q] = state]
           /\ state \in {Idle, [pc |-> "issue", task |-> t, row |-> task[t]]}
    BY <1>1 DEF Enter, Goto
  <1>3. UNCHANGED <<github, task, link, told, clock, sweep>> /\ AloneIn(q)
    BY DEF Enter, TaskUnlocked, AloneIn
  <1>4. /\ Sweeping' /\ SeenIsOfBoundIssue' /\ OperatorFieldsKept'
        /\ task' \in [Tasks -> TaskRows] /\ link' \in [Tasks -> Lookups \cup {NoLink}]
    BY <1>3 DEF IInv, Shape, Sweeping, SeenIsOfBoundIssue, OperatorFieldsKept
  <1>5. proc'[q] = state
    BY <1>2 DEF IInv, Shape
  <1>6. Relies(q)'
    <2>1. CASE state = Idle
      BY <1>5, <2>1 DEF Relies, Idle, States, Refreshes, Holding, Looking
    <2>2. CASE state = [pc |-> "issue", task |-> t, row |-> task[t]]
      <3>1. task[t].seen.issue = task[t].issue /\ task' = task
        BY <1>3 DEF IInv, SeenIsOfBoundIssue
      <3> QED
        BY <1>1, <1>5, <2>2, <3>1 DEF Relies, States, Refreshes, Holding, Looking
    <2> QED
      BY <1>2, <2>1, <2>2
  <1>7. state.pc \in {"idle", "issue"} /\ (state.pc = "issue" => state.task = t)
    BY <1>2 DEF Idle
  <1>8. \A a \in Lookups : InPlay(a)' => InPlay(a)
    BY <1>2, <1>3, <1>7, PlayMoves DEF Holding
  <1> QED
    BY <1>1, <1>2, <1>3, <1>4, <1>6, <1>7, <1>8, InTaskKeeps

\* A step of a refresh that leaves the tables alone.
LEMMA RefreshMoves ==
    ASSUME IInv, NEW q \in Procs, Inside(q), NEW state,
           proc' = [proc EXCEPT ![q] = state],
           state.pc # "idle" => state.task = proc[q].task,
           UNCHANGED <<github, task, link, told, clock>>, Sweeping', Relies(q)',
           \A a \in Lookups : InPlay(a)' => InPlay(a) \/ a = Blank,
           state.pc \in {"looking", "adding"} =>
              /\ state.began = clock /\ state.seen = github.pr
              /\ state.pc = "looking" => PRUnlocked
    PROVE  IInv'
  <1>1. AloneIn(q)
    BY InsideIsAlone
  <1>2. /\ SeenIsOfBoundIssue' /\ OperatorFieldsKept'
        /\ task' \in [Tasks -> TaskRows] /\ link' \in [Tasks -> Lookups \cup {NoLink}]
    BY DEF IInv, Shape, SeenIsOfBoundIssue, OperatorFieldsKept
  <1> QED
    BY <1>1, <1>2, InTaskKeeps

LEMMA FetchIssueKeeps ==
    ASSUME IInv, NEW q \in Procs, FetchIssue(q)
    PROVE  IInv'
  <1>1. proc[q].pc = "issue" /\ UNCHANGED <<github, task, link, told, clock, sweep>>
    BY DEF FetchIssue, At
  <1>2. PICK t \in Tasks, old \in TaskRows : t = proc[q].task /\ old = proc[q].row
    BY <1>1, Facts DEF Relies, Refreshes
  <1>3. old.seen.issue = old.issue /\ old.issue = task[t].issue
    BY <1>1, <1>2, Facts DEF Relies, Refreshes
  <1>4. PICK seen : /\ seen \in {old.seen, [issue |-> old.issue, state |-> github.issue[old.issue]]}
                    /\ proc' = [proc EXCEPT ![q] = [pc |-> "links", task |-> t, row |-> [old EXCEPT !.seen = seen]]]
    BY <1>2 DEF FetchIssue, Goto
  <1>5. seen \in Snapshots /\ seen.issue = old.issue
    <2>1. github.issue[old.issue] \in Nat /\ old.issue \in Issues /\ old.seen \in Snapshots
      BY <1>1, <1>2, Facts DEF TaskRows
    <2> QED
      BY <1>3, <1>4, <2>1 DEF Snapshots
  <1>6. PICK row : row = [old EXCEPT !.seen = seen]
    OBVIOUS
  <1>7. row \in TaskRows /\ row.seen.issue = row.issue /\ row.issue = old.issue
    <2>1. row = [status |-> old.status, title |-> old.title, issue |-> old.issue, seen |-> seen]
      BY <1>6 DEF TaskRows
    <2> QED
      BY <1>5, <2>1 DEF TaskRows
  <1>8. PICK state : state = [pc |-> "links", task |-> t, row |-> row]
    OBVIOUS
  <1>9. proc' = [proc EXCEPT ![q] = state] /\ proc'[q] = state
    BY <1>4, <1>6, <1>8 DEF IInv, Shape
  <1>10. state.pc = "links" /\ state.task = t /\ state.row = row
    BY <1>8
  <1>11. Relies(q)'
    BY <1>1, <1>3, <1>7, <1>9, <1>10 DEF Relies, States, Refreshes, Holding, Looking
  <1>12. \A a \in Lookups : InPlay(a)' => InPlay(a)
    BY <1>1, <1>9, <1>10, PlayMoves DEF Holding
  <1>13. Inside(q) /\ Sweeping'
    BY <1>1 DEF Inside, IInv, Sweeping
  <1> QED
    BY <1>1, <1>2, <1>9, <1>10, <1>11, <1>12, <1>13, RefreshMoves

LEMMA Working ==
    ASSUME IInv, NEW q \in Procs, proc[q].pc \in Refreshes
    PROVE  /\ Inside(q) /\ proc[q].task \in Tasks
           /\ proc[q].row \in TaskRows /\ proc[q].row.seen.issue = proc[q].row.issue
           /\ proc[q].row.issue = task[proc[q].task].issue
           /\ link[proc[q].task] \in Lookups \cup {NoLink}
           /\ proc[q].pc \in Holding => /\ proc[q].pr \in Lookups
                                        /\ link[proc[q].task] \in {proc[q].pr, NoLink}
                                        /\ InPlay(proc[q].pr)
           /\ proc[q].pc = "savePR" => proc[q].found \in Lookups \cup {Failed} /\ InPlay(proc[q].found)
  <1>1. Relies(q)
    BY DEF IInv
  <1>2. Inside(q) /\ proc[q].task \in Tasks
    BY <1>1 DEF Relies, Refreshes, Inside
  <1>3. link[proc[q].task] \in Lookups \cup {NoLink}
    BY <1>2 DEF IInv, Shape
  <1>4. /\ proc[q].pc \in Holding => InPlay(proc[q].pr)
        /\ proc[q].pc = "savePR" => InPlay(proc[q].found)
    BY DEF InPlay
  <1> QED
    BY <1>1, <1>2, <1>3, <1>4 DEF Relies

\* The row that was read is still of the issue bound.
LEMMA WorksOn ==
    ASSUME IInv, NEW q \in Procs, proc[q].pc \in Refreshes, NEW state,
           proc'[q] = state, state.pc \in Refreshes,
           state.task = proc[q].task, state.row = proc[q].row, task' = task,
           state.pc \in Holding => state.pr \in Lookups /\ link'[state.task] \in {state.pr, NoLink},
           state.pc = "savePR" => state.found \in Lookups \cup {Failed},
           state.pc = "looking" => state.seen \in Nat /\ state.began \in Nat
    PROVE  Relies(q)'
  BY Working DEF Relies, States, Refreshes, Looking

LEMMA ReadLinksKeeps ==
    ASSUME IInv, NEW q \in Procs, ReadLinks(q)
    PROVE  IInv'
  <1>1. proc[q].pc = "links" /\ UNCHANGED <<github, task, told, clock, sweep>>
    BY DEF ReadLinks, At
  <1>2. PICK t \in Tasks, old \in TaskRows : t = proc[q].task /\ old = proc[q].row
    BY <1>1, Working DEF Refreshes
  <1>3. link[t] \in Lookups \cup {NoLink} /\ Inside(q) /\ AloneIn(q)
    BY <1>1, <1>2, Working, InsideIsAlone DEF Refreshes
  <1>4. PICK row \in {Blank, link[t]} : link' = [link EXCEPT ![t] = row] /\ Reread(q, t, row)
    BY <1>2 DEF ReadLinks
  <1>5. row \in Lookups \cup {NoLink}
    BY <1>3, <1>4, Constants
  <1>6. PICK state : /\ proc' = [proc EXCEPT ![q] = state]
                     /\ IF row = NoLink THEN state = [pc |-> "save", task |-> t, row |-> old]
                                        ELSE state = [pc |-> "look", task |-> t, row |-> old, pr |-> row]
    BY <1>2, <1>4 DEF Reread, Goto
  <1>7. /\ state.task = t /\ state.row = old /\ state.pc \in {"save", "look"}
        /\ state.pc = "look" => row \in Lookups /\ state.pr = row
    BY <1>5, <1>6
  <1>8. /\ proc'[q] = state /\ link'[t] = row
        /\ \A x \in Tasks : x # t => link'[x] = link[x] /\ task'[x] = task[x]
        /\ link' \in [Tasks -> Lookups \cup {NoLink}]
        /\ task' \in [Tasks -> TaskRows] /\ SeenIsOfBoundIssue' /\ OperatorFieldsKept' /\ Sweeping'
    BY <1>1, <1>4, <1>5, <1>6 DEF IInv, Shape, SeenIsOfBoundIssue, OperatorFieldsKept, Sweeping
  <1>9. Relies(q)'
    BY <1>1, <1>2, <1>7, <1>8, WorksOn DEF Refreshes, Holding
  <1>10. ASSUME NEW a \in Lookups, InPlay(a)' PROVE InPlay(a) \/ a = Blank
    <2>1. row = a => InPlay(a) \/ a = Blank
      BY <1>4 DEF InPlay
    <2>2. \A x \in Tasks : (link'[x] = a /\ link'[x] # link[x]) => row = a
      BY <1>8
    <2> QED
      BY <1>1, <1>6, <1>7, <1>10, <2>1, <2>2, PlayMoves DEF Holding
  <1> QED
    BY <1>1, <1>2, <1>3, <1>6, <1>7, <1>8, <1>9, <1>10, InTaskKeeps

LEMMA UseScopeKeeps ==
    ASSUME IInv, NEW q \in Procs, UseScope(q)
    PROVE  IInv'
  <1>1. /\ proc[q].pc = "look" /\ UNCHANGED <<github, task, link, told, clock, sweep>>
        /\ sweep.scope # NoScope
    BY DEF UseScope, At
  <1>2. PICK t \in Tasks, old \in TaskRows, pr \in Lookups :
           t = proc[q].task /\ old = proc[q].row /\ pr = proc[q].pr /\ link[t] \in {pr, NoLink}
    BY <1>1, Working DEF Refreshes, Holding
  <1>3. PICK found \in Lookups \cup {Failed} : found = sweep.scope
    BY <1>1 DEF IInv, Sweeping
  <1>4. PICK state : /\ proc' = [proc EXCEPT ![q] = state]
                     /\ state = [pc |-> "savePR", task |-> t, row |-> old, pr |-> pr, found |-> found]
    BY <1>2, <1>3 DEF UseScope, Found, Goto
  <1>5. state.pc = "savePR" /\ state.task = t /\ state.row = old /\ state.pr = pr /\ state.found = found
    BY <1>4
  <1>6. proc'[q] = state /\ Sweeping' /\ Inside(q)
    BY <1>1, <1>4 DEF IInv, Shape, Sweeping, Inside
  <1>7. Relies(q)'
    BY <1>1, <1>2, <1>5, <1>6, WorksOn DEF Refreshes, Holding
  <1>8. ASSUME NEW a \in Lookups, InPlay(a)' PROVE InPlay(a)
    <2>1. InPlay(pr)
      BY <1>1, <1>2, Working DEF Refreshes, Holding
    <2>2. found = a => InPlay(a)
      BY <1>3 DEF InPlay
    <2>3. \/ InPlay(a)
          \/ state.pc \in Holding /\ state.pr = a
          \/ state.pc = "savePR" /\ state.found = a
      <3>1. proc' = [proc EXCEPT ![q] = state] /\ link' = link /\ sweep' = sweep
        BY <1>1, <1>4
      <3> QED
        BY <1>8, <3>1, PlayMoves
    <2> QED
      BY <1>5, <2>1, <2>2, <2>3
  <1> QED
    BY <1>1, <1>2, <1>4, <1>5, <1>6, <1>7, <1>8, RefreshMoves

LEMMA BeginLookupKeeps ==
    ASSUME IInv, NEW q \in Procs, BeginLookup(q)
    PROVE  IInv'
  <1>1. /\ proc[q].pc = "look" /\ UNCHANGED <<github, task, link, told, clock, sweep>>
        /\ PRUnlocked
    BY DEF BeginLookup, At
  <1>2. PICK t \in Tasks, old \in TaskRows, pr \in Lookups :
           t = proc[q].task /\ old = proc[q].row /\ pr = proc[q].pr /\ link[t] \in {pr, NoLink}
    BY <1>1, Working DEF Refreshes, Holding
  <1>3. PICK state : /\ proc' = [proc EXCEPT ![q] = state]
                     /\ state = [pc |-> "looking", task |-> t, row |-> old, pr |-> pr,
                                 seen |-> github.pr, began |-> clock]
    BY <1>2 DEF BeginLookup, Goto
  <1>4. /\ state.pc = "looking" /\ state.task = t /\ state.row = old /\ state.pr = pr
        /\ state.seen = github.pr /\ state.began = clock
        /\ state.seen \in Nat /\ state.began \in Nat
    BY <1>3 DEF IInv, Shape
  <1>5. proc'[q] = state /\ Sweeping' /\ Inside(q)
    BY <1>1, <1>3 DEF IInv, Shape, Sweeping, Inside
  <1>6. Relies(q)'
    BY <1>1, <1>2, <1>4, <1>5, WorksOn DEF Refreshes, Holding
  <1>7. ASSUME NEW a \in Lookups, InPlay(a)' PROVE InPlay(a)
    <2>1. InPlay(pr)
      BY <1>1, <1>2, Working DEF Refreshes, Holding
    <2> QED
      BY <1>1, <1>3, <1>4, <1>7, <2>1, PlayMoves
  <1> QED
    BY <1>1, <1>2, <1>3, <1>4, <1>5, <1>6, <1>7, RefreshMoves

LEMMA EndLookupKeeps ==
    ASSUME IInv, NEW q \in Procs, EndLookup(q)
    PROVE  IInv'
  <1>1. proc[q].pc = "looking" /\ UNCHANGED <<github, task, link, told>>
    BY DEF EndLookup, At
  <1>2. PICK t \in Tasks, old \in TaskRows, pr \in Lookups :
           t = proc[q].task /\ old = proc[q].row /\ pr = proc[q].pr /\ link[t] \in {pr, NoLink}
    BY <1>1, Working DEF Refreshes, Holding
  <1>3. InPlay(pr) /\ Inside(q) /\ Looking(q) /\ AloneIn(q)
    BY <1>1, <1>2, Working, InsideIsAlone DEF Refreshes, Holding, Looking
  <1>4. proc[q].seen \in Nat /\ proc[q].began \in Nat /\ clock \in Nat
    BY <1>3 DEF IInv, Relies, Shape
  <1>5. PICK found :
           /\ Found(q, found)
           /\ \/ /\ clock' = clock + 1 /\ found = Lookup("refresh", proc[q].seen, proc[q].began, clock + 1)
                 /\ sweep' = IF q = Sweeper THEN [sweep EXCEPT !.scope = found] ELSE sweep
              \/ /\ clock' = clock /\ found = Failed
                 /\ sweep' \in {sweep, [sweep EXCEPT !.scope = Failed]}
    BY DEF EndLookup
  <1>6. /\ found \in Lookups \cup {Failed}
        /\ clock' # clock => /\ found \in Lookups
                             /\ found.by = "refresh" /\ found.seen = proc[q].seen
                             /\ found.began = proc[q].began /\ found.ended = clock + 1
    BY <1>4, <1>5 DEF Lookup, Lookups
  <1>7. PICK state : /\ proc' = [proc EXCEPT ![q] = state]
                     /\ state = [pc |-> "savePR", task |-> t, row |-> old, pr |-> pr, found |-> found]
    BY <1>2, <1>5 DEF Found, Goto
  <1>8. state.pc = "savePR" /\ state.task = t /\ state.row = old /\ state.pr = pr /\ state.found = found
    BY <1>7
  <1>9. /\ proc'[q] = state
        /\ task' \in [Tasks -> TaskRows] /\ SeenIsOfBoundIssue' /\ OperatorFieldsKept'
        /\ link' \in [Tasks -> Lookups \cup {NoLink}]
    BY <1>1, <1>7 DEF IInv, Shape, SeenIsOfBoundIssue, OperatorFieldsKept
  <1>10. Sweeping' /\ sweep'.scope \in {sweep.scope, found}
    BY <1>5, <1>6 DEF IInv, Sweeping
  <1>11. Relies(q)'
    BY <1>1, <1>2, <1>6, <1>8, <1>9, WorksOn DEF Refreshes, Holding
  <1>12. ASSUME NEW a \in Lookups, InPlay(a)' PROVE InPlay(a) \/ a = found
    <2>1. \/ InPlay(a)
          \/ sweep'.scope = a /\ sweep'.scope # sweep.scope
          \/ state.pc \in Holding /\ state.pr = a
          \/ state.pc = "savePR" /\ state.found = a
      <3>1. proc' = [proc EXCEPT ![q] = state] /\ link' = link
        BY <1>1, <1>7
      <3> QED
        BY <1>12, <3>1, PlayMoves
    <2> QED
      BY <1>3, <1>8, <1>10, <2>1
  <1>13. CASE clock' = clock
    <2>1. found \notin Lookups
      BY <1>4, <1>5, <1>13, Constants
    <2>2. \A a \in Lookups : InPlay(a)' => InPlay(a)
      BY <1>12, <2>1
    <2> QED
      BY <1>1, <1>2, <1>3, <1>7, <1>8, <1>10, <1>11, <1>13, <2>2, RefreshMoves
  <1>14. CASE clock' # clock
    <2>1. clock' = clock + 1 /\ clock' \in Nat
      BY <1>4, <1>5, <1>14
    <2>2. /\ Shape' /\ Sweeping' /\ SeenIsOfBoundIssue' /\ OperatorFieldsKept'
          /\ (\A s \in Procs : Relies(s)') /\ Exclusive'
          /\ proc'[q] = state /\ \A s \in Procs \ {q} : proc'[s] = proc[s]
      BY <1>1, <1>2, <1>3, <1>7, <1>8, <1>9, <1>10, <1>11, <2>1, InTaskMoves
    <2>3. ~Looking(q)'
      BY <1>8, <1>9 DEF Looking
    <2>4. Times'
      BY <1>1, <1>3, <1>6, <1>12, <1>14, <2>1, <2>2, <2>3, LookupEnds
    <2> QED
      BY <2>2, <2>4 DEF IInv
  <1> QED
    BY <1>13, <1>14

\* What a task has of the PR was read under its lock: the newer one is saved.
LEMMA SavePRMoves ==
    ASSUME IInv, NEW q \in Procs, SavePR(q)
    PROVE  \E t \in Tasks, pr \in Lookups, found \in Lookups \cup {Failed} :
              /\ t = proc[q].task /\ pr = proc[q].pr /\ found = proc[q].found
              /\ InPlay(pr) /\ InPlay(found)
              /\ link' = link \/ (link[t] = pr /\ link' = [link EXCEPT ![t] = Merged(pr, found)])
              /\ Merged(pr, found) \in Lookups /\ Merged(pr, found) \in {pr, found}
  <1>1. proc[q].pc = "savePR"
    BY DEF SavePR, At
  <1>2. PICK t \in Tasks, pr \in Lookups, found \in Lookups \cup {Failed} :
           /\ t = proc[q].task /\ pr = proc[q].pr /\ found = proc[q].found
           /\ link[t] \in {pr, NoLink} /\ InPlay(pr) /\ InPlay(found)
    BY <1>1, Working DEF Refreshes, Holding
  <1>3. Merged(pr, found) \in Lookups /\ Merged(pr, found) \in {pr, found}
    BY <1>2 DEF Merged
  <1>4. link' = link \/ (link[t] = pr /\ link' = [link EXCEPT ![t] = Merged(pr, found)])
    BY <1>2 DEF SavePR
  <1> QED
    BY <1>2, <1>3, <1>4

LEMMA SavePRKeeps ==
    ASSUME IInv, NEW q \in Procs, SavePR(q)
    PROVE  IInv'
  <1>1. proc[q].pc = "savePR" /\ UNCHANGED <<github, task, told, clock, sweep>>
    BY DEF SavePR, At
  <1>2. PICK t \in Tasks, pr \in Lookups, found \in Lookups \cup {Failed}, new \in Lookups :
           /\ t = proc[q].task /\ InPlay(pr) /\ InPlay(found) /\ new \in {pr, found}
           /\ link' = link \/ link' = [link EXCEPT ![t] = new]
    BY SavePRMoves
  <1>3. PICK old \in TaskRows : old = proc[q].row
    BY <1>1, Working DEF Refreshes
  <1>4. Inside(q) /\ AloneIn(q)
    BY <1>1, InsideIsAlone DEF Inside
  <1>5. PICK state : /\ proc' = [proc EXCEPT ![q] = state]
                     /\ state \in {Idle, [pc |-> "save", task |-> t, row |-> old]}
    BY <1>2, <1>3 DEF SavePR, Goto
  <1>6. state.pc \in {"idle", "save"} /\ (state.pc = "save" => state.task = t /\ state.row = old)
    BY <1>5 DEF Idle
  <1>7. /\ proc'[q] = state
        /\ \A x \in Tasks : link'[x] # link[x] => x = t /\ link'[x] = new
        /\ link' \in [Tasks -> Lookups \cup {NoLink}]
        /\ task' \in [Tasks -> TaskRows] /\ SeenIsOfBoundIssue' /\ OperatorFieldsKept' /\ Sweeping'
    <2>1. link' \in [Tasks -> Lookups \cup {NoLink}] /\ \A x \in Tasks : link'[x] # link[x] => x = t /\ link'[x] = new
      BY <1>2 DEF IInv, Shape
    <2>2. proc'[q] = state
      BY <1>5 DEF IInv, Shape
    <2> QED
      BY <1>1, <2>1, <2>2 DEF IInv, Shape, SeenIsOfBoundIssue, OperatorFieldsKept, Sweeping
  <1>8. Relies(q)'
    <2>1. CASE state.pc = "idle"
      BY <1>7, <2>1 DEF Relies, States, Refreshes, Holding, Looking
    <2>2. CASE state.pc = "save"
      BY <1>1, <1>2, <1>3, <1>6, <1>7, <2>2, WorksOn DEF Refreshes, Holding
    <2> QED
      BY <1>6, <2>1, <2>2
  <1>9. ASSUME NEW a \in Lookups, InPlay(a)' PROVE InPlay(a)
    <2>1. InPlay(new)
      BY <1>2
    <2>2. \/ InPlay(a)
          \/ \E x \in Tasks : link'[x] = a /\ link'[x] # link[x]
          \/ state.pc \in Holding /\ state.pr = a
          \/ state.pc = "savePR" /\ state.found = a
      BY <1>1, <1>5, <1>9, PlayMoves
    <2> QED
      BY <1>6, <1>7, <2>1, <2>2 DEF Holding
  <1> QED
    BY <1>1, <1>2, <1>4, <1>5, <1>6, <1>7, <1>8, <1>9, InTaskKeeps

\* Only what was seen of the issue is written, and that issue is still bound.
LEMMA SaveTaskKeeps ==
    ASSUME IInv, NEW q \in Procs, SaveTask(q)
    PROVE  IInv'
  <1>1. proc[q].pc = "save" /\ UNCHANGED <<github, link, told, clock, sweep>>
    BY DEF SaveTask, At
  <1>2. PICK t \in Tasks, new \in TaskRows :
           /\ t = proc[q].task /\ new = proc[q].row
           /\ new.seen.issue = new.issue /\ new.issue = task[t].issue
    BY <1>1, Working DEF Refreshes
  <1>3. Inside(q) /\ AloneIn(q)
    BY <1>1, InsideIsAlone DEF Inside
  <1>4. task[t] \in TaskRows /\ task[t].seen.issue = task[t].issue
    BY DEF IInv, Shape, SeenIsOfBoundIssue
  <1>5. PICK row \in TaskRows :
           /\ task' = [task EXCEPT ![t] = row]
           /\ row.status = task[t].status /\ row.title = task[t].title
           /\ row.issue = task[t].issue /\ row.seen.issue = row.issue
    <2>1. CASE Writable(q, t)
      <3>1. PICK row : row = [task[t] EXCEPT !.seen = new.seen]
        OBVIOUS
      <3>2. row = [status |-> task[t].status, title |-> task[t].title, issue |-> task[t].issue, seen |-> new.seen]
        BY <1>4, <3>1 DEF TaskRows
      <3>3. row \in TaskRows /\ row.seen.issue = row.issue
        BY <1>2, <1>4, <3>2 DEF TaskRows
      <3>4. task' = [task EXCEPT ![t] = row]
        BY <1>2, <2>1, <3>1 DEF SaveTask, Refreshed
      <3> QED
        BY <3>2, <3>3, <3>4
    <2>2. CASE ~Writable(q, t)
      <3>1. task' = task
        BY <1>2, <2>2 DEF SaveTask
      <3>2. task' = [task EXCEPT ![t] = task[t]]
        BY <3>1 DEF IInv, Shape
      <3> QED
        BY <1>4, <3>2
    <2> QED
      BY <2>1, <2>2
  <1>6. /\ task'[t] = row /\ \A x \in Tasks : x # t => task'[x] = task[x]
        /\ task' \in [Tasks -> TaskRows]
    BY <1>5 DEF IInv, Shape
  <1>7. SeenIsOfBoundIssue' /\ OperatorFieldsKept'
    BY <1>1, <1>5, <1>6 DEF IInv, SeenIsOfBoundIssue, OperatorFieldsKept
  <1>8. /\ proc' = [proc EXCEPT ![q] = Idle] /\ proc'[q] = Idle
        /\ Sweeping' /\ link' \in [Tasks -> Lookups \cup {NoLink}]
    BY <1>1 DEF SaveTask, Goto, IInv, Shape, Sweeping
  <1>9. Relies(q)'
    BY <1>8 DEF Relies, Idle, States, Refreshes, Holding, Looking
  <1>10. \A a \in Lookups : InPlay(a)' => InPlay(a)
    BY <1>1, <1>8, PlayEnds
  <1> QED
    BY <1>1, <1>2, <1>3, <1>6, <1>7, <1>8, <1>9, <1>10, InTaskKeeps DEF Idle

LEMMA OutOfTimeKeeps ==
    ASSUME IInv, NEW q \in Procs, OutOfTime(q)
    PROVE  IInv'
  <1>1. proc[q].pc \in {"issue", "links", "look"} /\ UNCHANGED <<github, task, link, told, clock, sweep>>
    BY DEF OutOfTime
  <1>2. PICK state : /\ proc' = [proc EXCEPT ![q] = state]
                     /\ state = [pc |-> "save", task |-> proc[q].task, row |-> proc[q].row]
    BY DEF OutOfTime, Goto
  <1>3. state.pc = "save" /\ state.task = proc[q].task /\ state.row = proc[q].row
    BY <1>2
  <1>4. proc'[q] = state /\ Sweeping' /\ Inside(q)
    BY <1>1, <1>2 DEF IInv, Shape, Sweeping, Inside
  <1>5. Relies(q)'
    BY <1>1, <1>3, <1>4, WorksOn DEF Refreshes, Holding
  <1>6. \A a \in Lookups : InPlay(a)' => InPlay(a)
    BY <1>1, <1>2, <1>3, PlayMoves DEF Holding
  <1> QED
    BY <1>1, <1>2, <1>3, <1>4, <1>5, <1>6, RefreshMoves

----------------------------------------------------------------------------
(* AddPR and BindIssue.                                                    *)

LEMMA EnterAddKeeps ==
    ASSUME IInv, NEW u \in Users, EnterAdd(u)
    PROVE  IInv'
  <1>1. /\ u \in Procs /\ proc[u].pc = "wait" /\ AloneIn(u)
        /\ UNCHANGED <<github, task, link, told, clock, sweep>>
    BY DEF EnterAdd, At, TaskUnlocked, AloneIn, Procs
  <1>2. PICK t \in Tasks : t = proc[u].task
    BY <1>1, Facts
  <1>3. PICK state : /\ proc' = [proc EXCEPT ![u] = state]
                     /\ state \in {Idle, [pc |-> "adding", task |-> t, seen |-> github.pr, began |-> clock]}
    BY <1>2 DEF EnterAdd, Goto
  <1>4. /\ state.pc \in {"idle", "adding"}
        /\ state.pc = "adding" => state.task = t /\ state.seen = github.pr /\ state.began = clock
    BY <1>3 DEF Idle
  <1>5. /\ proc'[u] = state /\ Sweeping' /\ SeenIsOfBoundIssue' /\ OperatorFieldsKept'
        /\ task' \in [Tasks -> TaskRows] /\ link' \in [Tasks -> Lookups \cup {NoLink}]
    BY <1>1, <1>3 DEF IInv, Shape, Sweeping, SeenIsOfBoundIssue, OperatorFieldsKept
  <1>6. Relies(u)'
    <2>1. github.pr \in Nat /\ clock \in Nat
      BY DEF IInv, Shape
    <2> QED
      BY <1>4, <1>5, <2>1 DEF Relies, States, Refreshes, Holding, Looking
  <1>7. \A a \in Lookups : InPlay(a)' => InPlay(a)
    BY <1>1, <1>3, <1>4, PlayMoves DEF Holding
  <1> QED
    BY <1>1, <1>2, <1>3, <1>4, <1>5, <1>6, <1>7, InTaskKeeps

\* What AddPR leaves of the row: the old one, a blank one or its own lookup.
LEMMA AddPRMoves ==
    ASSUME IInv, NEW u \in Users, AddPR(u)
    PROVE  \E t \in Tasks, n \in Lookups, new \in Lookups \cup {NoLink} :
              /\ t = proc[u].task /\ link' = [link EXCEPT ![t] = new]
              /\ n = Lookup("add", proc[u].seen, proc[u].began, clock + 1)
              /\ \/ clock' = clock /\ (new = link[t] \/ (link[t] = NoLink /\ new = Blank))
                 \/ clock' = clock + 1 /\ new \in {link[t], n}
              /\ task[t].status = "archived" => new = link[t]
  <1>1. u \in Procs /\ proc[u].pc = "adding"
    BY DEF AddPR, At, Procs
  <1>2. PICK t \in Tasks : t = proc[u].task
    BY <1>1, Facts
  <1>3. proc[u].seen \in Nat /\ proc[u].began \in Nat /\ clock \in Nat
    BY <1>1 DEF IInv, Relies, Looking, Shape
  <1>4. PICK n \in Lookups : n = Lookup("add", proc[u].seen, proc[u].began, clock + 1)
    <2>1. clock + 1 \in Nat
      BY <1>3
    <2>2. Lookup("add", proc[u].seen, proc[u].began, clock + 1) \in Lookups
      BY <1>3, <2>1 DEF Lookup, Lookups
    <2> QED
      BY <2>2
  <1>5. link[t] \in Lookups \cup {NoLink} /\ link = [link EXCEPT ![t] = link[t]] /\ Blank \in Lookups
    BY Constants DEF IInv, Shape
  <1>6. PICK answered \in BOOLEAN :
           /\ clock' = IF answered THEN clock + 1 ELSE clock
           /\ link' = IF task[t].status = "archived" THEN link
                      ELSE [link EXCEPT ![t] = IF answered THEN n ELSE IF link[t] = NoLink THEN Blank ELSE link[t]]
    BY <1>2, <1>4 DEF AddPR
  <1>7. CASE task[t].status = "archived"
    BY <1>2, <1>4, <1>5, <1>6, <1>7
  <1>8. CASE task[t].status # "archived" /\ answered
    BY <1>2, <1>4, <1>5, <1>6, <1>8
  <1>9. CASE task[t].status # "archived" /\ ~answered
    BY <1>2, <1>4, <1>5, <1>6, <1>9
  <1> QED
    BY <1>7, <1>8, <1>9

LEMMA AddPRKeeps ==
    ASSUME IInv, NEW u \in Users, AddPR(u)
    PROVE  IInv'
  <1>1. /\ u \in Procs /\ proc[u].pc = "adding" /\ Inside(u) /\ Looking(u)
        /\ UNCHANGED <<github, task, told, sweep>>
        /\ proc' = [proc EXCEPT ![u] = Idle]
    BY DEF AddPR, At, Procs, Inside, Looking, Goto
  <1>2. PICK t \in Tasks, n \in Lookups, new \in Lookups \cup {NoLink} :
           /\ t = proc[u].task /\ link' = [link EXCEPT ![t] = new]
           /\ n = Lookup("add", proc[u].seen, proc[u].began, clock + 1)
           /\ \/ clock' = clock /\ (new = link[t] \/ new = Blank)
              \/ clock' = clock + 1 /\ new \in {link[t], n}
    BY AddPRMoves
  <1>3. AloneIn(u) /\ clock \in Nat
    BY <1>1, InsideIsAlone DEF IInv, Shape
  <1>4. /\ proc'[u] = Idle /\ Sweeping' /\ SeenIsOfBoundIssue' /\ OperatorFieldsKept'
        /\ task' \in [Tasks -> TaskRows] /\ link' \in [Tasks -> Lookups \cup {NoLink}]
        /\ \A x \in Tasks : link'[x] # link[x] => x = t /\ link'[x] = new
    BY <1>1, <1>2 DEF IInv, Shape, Sweeping, SeenIsOfBoundIssue, OperatorFieldsKept
  <1>5. Relies(u)'
    BY <1>4 DEF Relies, Idle, States, Refreshes, Holding, Looking
  <1>6. ASSUME NEW a \in Lookups, InPlay(a)' PROVE InPlay(a) \/ (a = new /\ new # link[t])
    <2>1. InPlay(a) \/ \E x \in Tasks : link'[x] = a /\ link'[x] # link[x]
      BY <1>1, <1>6, PlayEnds
    <2> QED
      BY <1>4, <2>1
  <1>7. CASE clock' = clock
    <2>1. \A a \in Lookups : InPlay(a)' => InPlay(a) \/ a = Blank
      BY <1>2, <1>3, <1>6, <1>7
    <2> QED
      BY <1>1, <1>2, <1>3, <1>4, <1>5, <1>7, <2>1, InTaskKeeps DEF Idle
  <1>8. CASE clock' = clock + 1
    <2>1. \A a \in Lookups : InPlay(a)' => InPlay(a) \/ a = n
      BY <1>2, <1>3, <1>6, <1>8
    <2>2. clock' \in Nat
      BY <1>3, <1>8
    <2>3. /\ Shape' /\ Sweeping' /\ SeenIsOfBoundIssue' /\ OperatorFieldsKept'
          /\ (\A s \in Procs : Relies(s)') /\ Exclusive'
          /\ \A s \in Procs \ {u} : proc'[s] = proc[s]
      BY <1>1, <1>2, <1>3, <1>4, <1>5, <2>2, InTaskMoves DEF Idle
    <2>4. ~Looking(u)'
      BY <1>4 DEF Looking, Idle
    <2>5. n.by = "add" /\ n.seen = proc[u].seen /\ n.began = proc[u].began /\ n.ended = clock + 1
      BY <1>2 DEF Lookup
    <2>6. Times'
      BY <1>1, <1>8, <2>1, <2>3, <2>4, <2>5, LookupEnds
    <2> QED
      BY <2>3, <2>6 DEF IInv
  <1> QED
    BY <1>2, <1>7, <1>8

LEMMA BindIssueKeeps ==
    ASSUME IInv, NEW u \in Users, BindIssue(u)
    PROVE  IInv'
  <1>1. /\ u \in Procs /\ proc[u].pc = "wait" /\ proc[u].what = "bind" /\ AloneIn(u)
        /\ UNCHANGED <<github, link, told, clock, sweep>>
        /\ proc' = [proc EXCEPT ![u] = Idle]
    BY DEF BindIssue, At, MayBind, TaskUnlocked, AloneIn, Procs, Goto
  <1>2. PICK t \in Tasks, i \in Issues : t = proc[u].task /\ i = proc[u].issue
    BY <1>1, Facts DEF Relies
  <1>3. task[t] \in TaskRows /\ task[t].seen.issue = task[t].issue /\ github.issue[i] \in Nat
    BY DEF IInv, Shape, SeenIsOfBoundIssue
  <1>4. PICK state \in {0, github.issue[i]} :
           task' = IF task[t].status = "archived" THEN task
                   ELSE [task EXCEPT ![t] = [status |-> task[t].status, title |-> task[t].title, issue |-> i,
                                              seen |-> [issue |-> i, state |-> state]]]
    BY <1>2 DEF BindIssue
  <1>5. PICK row \in TaskRows :
           /\ task' = [task EXCEPT ![t] = row]
           /\ row.status = task[t].status /\ row.title = task[t].title
           /\ row.seen.issue = row.issue
    <2>1. CASE task[t].status = "archived"
      <3>1. task' = [task EXCEPT ![t] = task[t]]
        BY <1>4, <2>1 DEF IInv, Shape
      <3> QED
        BY <1>3, <3>1
    <2>2. CASE task[t].status # "archived"
      <3>1. PICK row : row = [status |-> task[t].status, title |-> task[t].title, issue |-> i,
                              seen |-> [issue |-> i, state |-> state]]
        OBVIOUS
      <3>2. /\ row \in TaskRows /\ row.seen.issue = row.issue
            /\ row.status = task[t].status /\ row.title = task[t].title
        BY <1>3, <1>4, <3>1 DEF TaskRows, Snapshots
      <3>3. task' = [task EXCEPT ![t] = row]
        BY <1>4, <2>2, <3>1
      <3> QED
        BY <3>2, <3>3
    <2> QED
      BY <2>1, <2>2
  <1>6. /\ task'[t] = row /\ \A x \in Tasks : x # t => task'[x] = task[x]
        /\ task' \in [Tasks -> TaskRows]
    BY <1>5 DEF IInv, Shape
  <1>7. SeenIsOfBoundIssue' /\ OperatorFieldsKept'
    BY <1>1, <1>5, <1>6 DEF IInv, SeenIsOfBoundIssue, OperatorFieldsKept
  <1>8. proc'[u] = Idle /\ Sweeping' /\ link' \in [Tasks -> Lookups \cup {NoLink}]
    BY <1>1 DEF IInv, Shape, Sweeping
  <1>9. Relies(u)'
    BY <1>8 DEF Relies, Idle, States, Refreshes, Holding, Looking
  <1>10. \A a \in Lookups : InPlay(a)' => InPlay(a)
    BY <1>1, PlayEnds
  <1> QED
    BY <1>1, <1>2, <1>6, <1>7, <1>8, <1>9, <1>10, InTaskKeeps DEF Idle

----------------------------------------------------------------------------
(* Everything outside of a task's lock.                                    *)

LEMMA OutsideKeeps ==
    ASSUME IInv, Shape', Sweeping', SeenIsOfBoundIssue', OperatorFieldsKept',
           \A q \in Procs : proc'[q] = proc[q] \/ (proc'[q].pc \in {"idle", "wait"} /\ Relies(q)'),
           \A t \in Tasks : task'[t].issue = task[t].issue /\ link'[t] \in {link[t], NoLink},
           sweep'.scope \in {sweep.scope, NoScope},
           clock' = clock, github.pr <= github'.pr
    PROVE  IInv'
  <1>1. (\A s \in Procs : Relies(s)') /\ Exclusive'
    BY OutsideMoves DEF Shape
  <1>2. \A a \in Lookups : InPlay(a)' => InPlay(a)
    BY Constants DEF InPlay, Holding
  <1>3. \A q \in Procs : Looking(q)' => proc'[q] = proc[q]
    BY DEF Looking
  <1>4. Times'
    BY <1>1, <1>2, <1>3, TimesKept
  <1> QED
    BY <1>1, <1>4 DEF IInv

LEMMA GitHubKeeps ==
    ASSUME IInv, GitHubChanges
    PROVE  IInv'
  <1>1. UNCHANGED <<task, link, told, clock, proc, sweep>>
    BY DEF GitHubChanges
  <1>2. github' \in [pr: Nat, issue: [Issues -> Nat]] /\ github.pr <= github'.pr
    <2>1. github \in [pr: Nat, issue: [Issues -> Nat]]
      BY DEF IInv, Shape
    <2>2. CASE github' = [github EXCEPT !.pr = @ + 1]
      BY <2>1, <2>2
    <2>3. ASSUME NEW i \in Issues, github' = [github EXCEPT !.issue[i] = @ + 1]
          PROVE  github' \in [pr: Nat, issue: [Issues -> Nat]] /\ github.pr <= github'.pr
      BY <2>1, <2>3
    <2> QED
      BY <2>2, <2>3 DEF GitHubChanges
  <1>3. Shape' /\ Sweeping' /\ SeenIsOfBoundIssue' /\ OperatorFieldsKept'
    BY <1>1, <1>2 DEF IInv, Shape, Sweeping, SeenIsOfBoundIssue, OperatorFieldsKept
  <1> QED
    BY <1>1, <1>2, <1>3, OutsideKeeps

\* Steps that leave the tables, GitHub and the clock alone.
LEMMA WaitingKeeps ==
    ASSUME IInv, UNCHANGED <<github, task, link, told, clock>>, Sweeping',
           proc' = [q \in Procs |-> proc'[q]],
           \A q \in Procs : proc'[q] = proc[q] \/ (proc'[q].pc \in {"idle", "wait"} /\ Relies(q)'),
           sweep'.scope \in {sweep.scope, NoScope}
    PROVE  IInv'
  <1>1. Shape' /\ SeenIsOfBoundIssue' /\ OperatorFieldsKept' /\ github.pr <= github'.pr
    BY DEF IInv, Shape, SeenIsOfBoundIssue, OperatorFieldsKept
  <1> QED
    BY <1>1, OutsideKeeps

LEMMA BeginSweepKeeps ==
    ASSUME IInv, BeginSweep
    PROVE  IInv'
  <1> DEFINE open == {t \in Tasks : task[t].status = "open"}
  <1>1. UNCHANGED <<github, task, link, told, clock, proc>>
    BY DEF BeginSweep
  <1>2. PICK s \in SetToSeqs(open) : sweep' = [todo |-> s, scope |-> NoScope]
    BY DEF BeginSweep
  <1>3. s \in Seq(Tasks)
    <2>1. PICK n \in Nat : n = Cardinality(open)
      BY TasksAssumption, FS_Subset, FS_CardinalityType
    <2>2. s \in [1..n -> Tasks]
      BY <2>1 DEF SetToSeqs
    <2> QED
      BY <2>2
  <1>4. Sweeping' /\ sweep'.scope = NoScope
    BY <1>2, <1>3 DEF Sweeping
  <1>5. proc' = [q \in Procs |-> proc'[q]]
    BY <1>1 DEF IInv, Shape
  <1> QED
    BY <1>1, <1>4, <1>5, WaitingKeeps

LEMMA SweepNextKeeps ==
    ASSUME IInv, SweepNext
    PROVE  IInv'
  <1>1. PICK todo \in Seq(Tasks) : todo = sweep.todo
    BY DEF IInv, Sweeping
  <1>2. todo # <<>> /\ UNCHANGED <<github, task, link, told, clock>>
    BY <1>1 DEF SweepNext
  <1>3. PICK t \in Tasks, rest \in Seq(Tasks) : t = Head(todo) /\ rest = Tail(todo)
    <2>1. Len(todo) \in Nat /\ Len(todo) > 0 /\ \A i \in 1..Len(todo) : todo[i] \in Tasks
      BY <1>2
    <2>2. Head(todo) \in Tasks
      BY <1>2, <2>1
    <2>3. Tail(todo) \in Seq(Tasks)
      BY <1>2
    <2> QED
      BY <2>2, <2>3
  <1>4. PICK state : /\ state = [pc |-> "wait", what |-> "refresh", task |-> t]
                     /\ proc' = [proc EXCEPT ![Sweeper] = state]
                     /\ sweep' = [sweep EXCEPT !.todo = rest]
    BY <1>1, <1>3 DEF SweepNext, Goto
  <1>5. state.pc = "wait" /\ state.what = "refresh" /\ state.task = t
    BY <1>4
  <1>6. Sweeper \in Procs /\ proc'[Sweeper] = state /\ \A q \in Procs \ {Sweeper} : proc'[q] = proc[q]
    BY <1>4 DEF IInv, Shape, Procs
  <1>7. Relies(Sweeper)'
    BY <1>5, <1>6 DEF Relies, States, Refreshes, Holding, Looking
  <1>8. sweep' = [todo |-> rest, scope |-> sweep.scope] /\ sweep.scope \in Lookups \cup {NoScope, Failed}
    BY <1>4 DEF IInv, Sweeping
  <1>9. Sweeping' /\ sweep'.scope = sweep.scope /\ proc' = [q \in Procs |-> proc'[q]]
    BY <1>4, <1>8 DEF IInv, Shape, Sweeping
  <1> QED
    BY <1>2, <1>5, <1>6, <1>7, <1>9, WaitingKeeps

LEMMA AskKeeps ==
    ASSUME IInv, NEW u \in Users, NEW t \in Tasks, Ask(u, t)
    PROVE  IInv'
  <1>1. UNCHANGED <<github, task, link, told, clock, sweep>> /\ u \in Procs
    BY DEF Ask, Procs
  <1>2. PICK state : /\ proc' = [proc EXCEPT ![u] = state]
                     /\ \/ state \in {[pc |-> "wait", what |-> w, task |-> t] : w \in {"refresh", "add"}}
                        \/ state \in {[pc |-> "wait", what |-> "bind", task |-> t, issue |-> i] : i \in Issues}
    BY DEF Ask, Goto
  <1>3. state.pc = "wait" /\ state.task = t /\ (state.what = "bind" => state.issue \in Issues)
    BY <1>2
  <1>4. proc'[u] = state /\ \A q \in Procs \ {u} : proc'[q] = proc[q]
    BY <1>1, <1>2 DEF IInv, Shape
  <1>5. Relies(u)'
    BY <1>3, <1>4 DEF Relies, States, Refreshes, Holding, Looking
  <1>6. Sweeping' /\ proc' = [q \in Procs |-> proc'[q]]
    BY <1>1, <1>2 DEF IInv, Shape, Sweeping
  <1> QED
    BY <1>1, <1>3, <1>4, <1>5, <1>6, WaitingKeeps

LEMMA RestartKeeps ==
    ASSUME IInv, Restart
    PROVE  IInv'
  <1>1. /\ UNCHANGED <<github, task, link, told, clock>>
        /\ proc' = [q \in Procs |-> Idle] /\ sweep' = [todo |-> <<>>, scope |-> NoScope]
    BY DEF Restart
  <1>2. Sweeping'
    BY <1>1 DEF Sweeping
  <1>3. \A q \in Procs : proc'[q].pc = "idle"
    BY <1>1 DEF Idle
  <1>4. \A q \in Procs : Relies(q)'
    BY <1>3 DEF Relies, States, Refreshes, Holding, Looking
  <1> QED
    BY <1>1, <1>2, <1>3, <1>4, WaitingKeeps

\* An operator's edit reaches the row and what operators were told alike.
LEMMA SetTaskKeeps ==
    ASSUME IInv, NEW t \in Tasks, NEW status \in {"open", "done", "archived"}, NEW title \in Nat,
           SetTask(t, status, title), UNCHANGED <<github, link, clock, proc, sweep>>
    PROVE  IInv'
  <1>1. PICK old \in TaskRows : old = task[t]
    BY DEF IInv, Shape
  <1>2. PICK row : row = [status |-> status, title |-> title, issue |-> old.issue, seen |-> old.seen]
    OBVIOUS
  <1>3. row \in TaskRows
    BY <1>1, <1>2 DEF TaskRows
  <1>4. task' = [task EXCEPT ![t] = row]
    BY <1>1, <1>2 DEF SetTask
  <1>5. /\ task' \in [Tasks -> TaskRows] /\ task'[t] = row
        /\ \A x \in Tasks : x # t => task'[x] = task[x]
    BY <1>3, <1>4 DEF IInv, Shape
  <1>6. /\ told' = [x \in Tasks |-> told'[x]] /\ told'[t] = [status |-> status, title |-> title]
        /\ \A x \in Tasks : x # t => told'[x] = told[x]
    BY DEF SetTask, IInv, Shape
  <1>7. row.status = status /\ row.title = title /\ row.issue = old.issue /\ row.seen = old.seen
    BY <1>2
  <1>8. SeenIsOfBoundIssue' /\ OperatorFieldsKept' /\ \A x \in Tasks : task'[x].issue = task[x].issue
    <2>1. \A x \in Tasks : /\ task[x].seen.issue = task[x].issue
                            /\ told[x] = [status |-> task[x].status, title |-> task[x].title]
      BY DEF IInv, SeenIsOfBoundIssue, OperatorFieldsKept
    <2>2. SeenIsOfBoundIssue' /\ \A x \in Tasks : task'[x].issue = task[x].issue
      BY <1>1, <1>5, <1>7, <2>1 DEF SeenIsOfBoundIssue
    <2>3. OperatorFieldsKept'
      BY <1>5, <1>6, <1>7, <2>1 DEF OperatorFieldsKept
    <2> QED
      BY <2>2, <2>3
  <1>9. Shape' /\ Sweeping' /\ github.pr <= github'.pr
    BY <1>5, <1>6 DEF IInv, Shape, Sweeping
  <1> QED
    BY <1>8, <1>9, OutsideKeeps

LEMMA EditKeeps ==
    ASSUME IInv, NEW t \in Tasks, Patch(t) \/ Close(t)
    PROVE  IInv'
  <1>1. PICK old \in TaskRows : old = task[t] /\ old.title \in Nat /\ old.title + 1 \in Nat /\ old.status \in {"open", "done", "archived"}
    BY DEF IInv, Shape, TaskRows
  <1> QED
    BY <1>1, SetTaskKeeps DEF Patch, Close

LEMMA RemovePRKeeps ==
    ASSUME IInv, NEW t \in Tasks, RemovePR(t)
    PROVE  IInv'
  <1>1. UNCHANGED <<github, task, told, clock, proc, sweep>> /\ link' = [link EXCEPT ![t] = NoLink]
    BY DEF RemovePR
  <1>2. Shape' /\ Sweeping' /\ SeenIsOfBoundIssue' /\ OperatorFieldsKept' /\ github.pr <= github'.pr
    BY <1>1 DEF IInv, Shape, Sweeping, SeenIsOfBoundIssue, OperatorFieldsKept
  <1>3. \A x \in Tasks : link'[x] \in {link[x], NoLink}
    BY <1>1 DEF IInv, Shape
  <1> QED
    BY <1>1, <1>2, <1>3, OutsideKeeps

LEMMA Inductive == IInv /\ [Next]_vars => IInv'
  <1> SUFFICES ASSUME IInv, [Next]_vars
               PROVE  IInv'
    OBVIOUS
  <1>1. CASE GitHubChanges \/ BeginSweep \/ SweepNext \/ Restart
    BY <1>1, GitHubKeeps, BeginSweepKeeps, SweepNextKeeps, RestartKeeps
  <1>2. ASSUME NEW q \in Procs, Step(q) PROVE IInv'
    BY <1>2, EnterKeeps, FetchIssueKeeps, ReadLinksKeeps, UseScopeKeeps, BeginLookupKeeps,
       EndLookupKeeps, SavePRKeeps, SaveTaskKeeps, OutOfTimeKeeps DEF Step
  <1>3. ASSUME NEW u \in Users, EnterAdd(u) \/ AddPR(u) \/ BindIssue(u) PROVE IInv'
    BY <1>3, EnterAddKeeps, AddPRKeeps, BindIssueKeeps
  <1>4. ASSUME NEW u \in Users, NEW t \in Tasks, Ask(u, t) PROVE IInv'
    BY <1>4, AskKeeps
  <1>5. ASSUME NEW t \in Tasks, Patch(t) \/ Close(t) \/ RemovePR(t) PROVE IInv'
    BY <1>5, EditKeeps, RemovePRKeeps
  <1>6. CASE UNCHANGED vars
    <2>1. UNCHANGED <<github, task, link, told, clock, proc, sweep>>
      BY <1>6 DEF vars
    <2>2. Sweeping' /\ proc' = [q \in Procs |-> proc'[q]]
      BY <2>1 DEF IInv, Shape, Sweeping
    <2> QED
      BY <2>1, <2>2, WaitingKeeps
  <1> QED
    BY <1>1, <1>2, <1>3, <1>4, <1>5, <1>6 DEF Next

----------------------------------------------------------------------------
(* The theorems.                                                           *)

\* Every reachable state satisfies the inductive invariant: a process inside a task
\* is alone there and works on the issue bound, and of the lookups of the PR that
\* are stored, cached or under way a later one never saw less.
THEOREM InvariantHolds == Spec => []IInv
  <1>1. Init => IInv
    BY Initial
  <1>2. IInv /\ [Next]_vars => IInv'
    BY Inductive
  <1> QED
    BY <1>1, <1>2, PTL DEF Spec

\* What is saved of an issue is of the issue the task is bound to: refresh and
\* BindIssue hold the task's lock from reading the row to writing it.
THEOREM SeenIsOfBoundIssueHolds == Spec => []SeenIsOfBoundIssue
  <1>1. IInv => SeenIsOfBoundIssue
    BY DEF IInv
  <1> QED
    BY <1>1, InvariantHolds, PTL

\* Status and title are as the last PatchTask or CloseTask set them, although these
\* take no lock: SaveTaskRefresh writes other columns only.
THEOREM OperatorFieldsKeptHolds == Spec => []OperatorFieldsKept
  <1>1. IInv => OperatorFieldsKept
    BY DEF IInv
  <1> QED
    BY <1>1, InvariantHolds, PTL

\* The steps that change what a task has of the PR.
LEMMA LinkMoves ==
    ASSUME IInv, [Next]_vars, NEW t \in Tasks, link'[t] # link[t]
    PROVE  \/ \E q \in Procs : ReadLinks(q) \/ SavePR(q)
           \/ \E u \in Users : AddPR(u)
           \/ link'[t] = NoLink
  <1>1. CASE GitHubChanges \/ BeginSweep \/ SweepNext \/ Restart \/ UNCHANGED vars
    BY <1>1 DEF GitHubChanges, BeginSweep, SweepNext, Restart, vars
  <1>2. ASSUME NEW q \in Procs, Step(q) PROVE ReadLinks(q) \/ SavePR(q)
    BY <1>2 DEF Step, Enter, FetchIssue, UseScope, BeginLookup, EndLookup, SaveTask, OutOfTime
  <1>3. ASSUME NEW u \in Users, EnterAdd(u) \/ BindIssue(u) \/ \E x \in Tasks : Ask(u, x) PROVE FALSE
    BY <1>3 DEF EnterAdd, BindIssue, Ask
  <1>4. ASSUME NEW x \in Tasks, Patch(x) \/ Close(x) PROVE FALSE
    BY <1>4 DEF Patch, Close
  <1>5. ASSUME NEW x \in Tasks, RemovePR(x) PROVE link'[t] = NoLink
    BY <1>5 DEF RemovePR, IInv, Shape
  <1> QED
    BY <1>1, <1>2, <1>3, <1>4, <1>5 DEF Next

LEMMA StepByOverlap ==
    ASSUME IInv, [Next]_vars, NEW t \in Tasks
    PROVE  ByOverlap(t)
  <1> SUFFICES ASSUME link[t] # NoLink, link'[t] # NoLink, link'[t].seen < link[t].seen
               PROVE  Overlapped(link[t], link'[t]) /\ "add" \in {link[t].by, link'[t].by}
    BY DEF ByOverlap
  <1>1. PICK a \in Lookups : a = link[t] /\ InPlay(a) /\ Past(a)
    BY DEF IInv, Shape, InPlay, Times
  <1>2. /\ a.seen \in Nat /\ a.began \in Nat /\ a.ended \in Nat /\ clock \in Nat
        /\ a.by \in {"timeline", "refresh", "add"}
    BY DEF Lookups, IInv, Shape
  <1>3. Blank = [by |-> "timeline", seen |-> 0, began |-> 0, ended |-> 0]
    BY DEF Blank, Lookup
  <1>4. ASSUME NEW q \in Procs, ReadLinks(q) PROVE FALSE
    <2>1. PICK x, row : /\ link' = [link EXCEPT ![x] = row]
                        /\ row = link[x] \/ (row = Blank /\ link[x] = NoLink)
      BY <1>4 DEF ReadLinks
    <2>2. link'[t] = link[t]
      BY <2>1 DEF IInv, Shape
    <2> QED
      BY <1>1, <1>2, <2>2
  <1>5. ASSUME NEW q \in Procs, SavePR(q)
        PROVE  Overlapped(link[t], link'[t]) /\ "add" \in {link[t].by, link'[t].by}
    <2>1. PICK x \in Tasks, pr \in Lookups, found \in Lookups \cup {Failed} :
              /\ InPlay(found)
              /\ link' = link \/ (link[x] = pr /\ link' = [link EXCEPT ![x] = Merged(pr, found)])
              /\ Merged(pr, found) \in Lookups
      BY <1>5, SavePRMoves
    <2>2. link[x] = pr /\ link' = [link EXCEPT ![x] = Merged(pr, found)]
      BY <1>1, <1>2, <2>1
    <2>3. link[t] = pr /\ link'[t] = Merged(pr, found)
      BY <1>1, <1>2, <2>2 DEF IInv, Shape
    <2>4. Merged(pr, found) # pr
      BY <1>1, <1>2, <2>3
    <2>5. Merged(pr, found) = found /\ found.ended >= pr.ended
      BY <2>4 DEF Merged
    <2>6. PICK b \in Lookups : b = link'[t] /\ b = found /\ b.ended >= a.ended
      BY <1>1, <2>1, <2>3, <2>5
    <2>7. InPlay(b)
      BY <2>1, <2>6
    <2>8. Past(b) /\ Ordered(a, b) /\ Apart(a, b)
      BY <1>1, <2>7 DEF IInv, Times
    <2>9. b.seen \in Nat /\ b.began \in Nat /\ b.ended \in Nat /\ b.by \in {"timeline", "refresh", "add"}
      BY DEF Lookups
    <2>10. b.seen < a.seen
      BY <1>1, <2>6
    <2>11. b.began < a.ended
      BY <1>2, <2>8, <2>9, <2>10 DEF Ordered
    <2>12. a.by # "timeline"
      <3> SUFFICES ASSUME a.by = "timeline" PROVE FALSE
        OBVIOUS
      <3> QED
        BY <1>1, <1>2, <1>3, <2>9, <2>10 DEF Past
    <2>13. b.by # "timeline" /\ a.began < a.ended
      <3>1. a.began < a.ended
        BY <1>1, <2>12 DEF Past
      <3>2. b.by # "timeline"
        <4> SUFFICES ASSUME b = Blank PROVE FALSE
          BY <2>8 DEF Past
        <4>1. b.ended = 0
          BY <1>3
        <4> QED
          BY <1>2, <2>6, <3>1, <4>1
      <3> QED
        BY <3>1, <3>2
    <2>14. a.began < b.ended
      BY <1>2, <2>6, <2>9, <2>13
    <2>15. "add" \in {a.by, b.by}
      <3> SUFFICES ASSUME a.by = "refresh", b.by = "refresh" PROVE FALSE
        BY <1>2, <2>9, <2>12, <2>13
      <3>1. a # b /\ ~(a.ended <= b.began)
        BY <1>2, <2>9, <2>10, <2>11
      <3>2. ~(b.ended <= a.began)
        BY <1>2, <2>9, <2>14
      <3> QED
        BY <2>8, <3>1, <3>2 DEF Apart
    <2> QED
      BY <1>1, <2>6, <2>11, <2>14, <2>15 DEF Overlapped
  <1>6. ASSUME NEW u \in Users, AddPR(u)
        PROVE  Overlapped(link[t], link'[t]) /\ "add" \in {link[t].by, link'[t].by}
    <2>1. PICK x \in Tasks, b \in Lookups, new \in Lookups \cup {NoLink} :
              /\ link' = [link EXCEPT ![x] = new]
              /\ b = Lookup("add", proc[u].seen, proc[u].began, clock + 1)
              /\ new = link[x] \/ (link[x] = NoLink /\ new = Blank) \/ new = b
      BY <1>6, AddPRMoves
    <2>2. link'[t] = b
      <3>1. link'[t] = link[t] \/ (x = t /\ link'[t] = new)
        BY <2>1 DEF IInv, Shape
      <3> QED
        BY <1>1, <1>2, <2>1, <3>1
    <2>3. b.by = "add" /\ b.seen = proc[u].seen /\ b.began = proc[u].began /\ b.ended = clock + 1
      BY <2>1 DEF Lookup
    <2>4. Follows(u, a)
      BY <1>1, <1>6 DEF AddPR, At, Looking, Procs, IInv, Times
    <2>5. b.seen \in Nat /\ b.began \in Nat
      BY DEF Lookups
    <2>6. b.began < a.ended
      BY <1>1, <1>2, <2>2, <2>3, <2>4, <2>5 DEF Follows
    <2>7. a.began <= clock
      BY <1>1, <1>2, <1>3 DEF Past
    <2> QED
      BY <1>1, <1>2, <2>2, <2>3, <2>6, <2>7 DEF Overlapped
  <1>7. link'[t] # link[t]
    BY <1>1, <1>2
  <1> QED
    BY <1>4, <1>5, <1>6, <1>7, LinkMoves

\* A task's view of the PR never goes back, unless AddPR's lookup, which is made
\* without the PR's lock, and another one overlapped: refreshes look a PR up one
\* after another, and save a cached lookup only over an older one.
THEOREM RegressesOnlyByOverlapHolds == Spec => RegressesOnlyByOverlap
  <1>1. IInv /\ [Next]_vars => [\A t \in Tasks : ByOverlap(t)]_vars
    BY StepByOverlap
  <1> QED
    BY <1>1, InvariantHolds, PTL DEF Spec, RegressesOnlyByOverlap

LEMMA StepKeepsSnapshots ==
    ASSUME IInv, [Next]_vars, NEW t \in Tasks
    PROVE  KeepsSnapshots(t)
  <1> SUFFICES ASSUME task[t].status = "archived", task'[t].status = "archived"
               PROVE  task'[t].seen = task[t].seen /\ (link'[t] = link[t] \/ link'[t] = NoLink)
    BY DEF KeepsSnapshots
  <1>1. /\ task \in [Tasks -> TaskRows] /\ link \in [Tasks -> Lookups \cup {NoLink}]
        /\ \A q \in Procs : ~Writable(q, t)
    BY DEF IInv, Shape, Writable
  <1>2. link'[t] = link[t] \/ link'[t] = NoLink
    <2>1. ASSUME NEW q \in Procs, ReadLinks(q) PROVE link'[t] = link[t]
      BY <1>1, <2>1 DEF ReadLinks
    <2>2. ASSUME NEW q \in Procs, SavePR(q) PROVE link'[t] = link[t]
      BY <1>1, <2>2 DEF SavePR
    <2>3. ASSUME NEW u \in Users, AddPR(u) PROVE link'[t] = link[t]
      BY <1>1, <2>3 DEF AddPR
    <2> QED
      BY <2>1, <2>2, <2>3, LinkMoves
  <1>3. task'[t].seen = task[t].seen
    <2>1. CASE GitHubChanges \/ BeginSweep \/ SweepNext \/ Restart \/ UNCHANGED vars
      BY <2>1 DEF GitHubChanges, BeginSweep, SweepNext, Restart, vars
    <2>2. ASSUME NEW q \in Procs, Step(q) PROVE task'[t].seen = task[t].seen
      <3>1. CASE SaveTask(q)
        BY <1>1, <3>1 DEF SaveTask
      <3>2. CASE ~SaveTask(q)
        BY <2>2, <3>2 DEF Step, Enter, FetchIssue, ReadLinks, UseScope, BeginLookup, EndLookup, SavePR, OutOfTime
      <3> QED
        BY <3>1, <3>2
    <2>3. ASSUME NEW u \in Users, EnterAdd(u) \/ AddPR(u) \/ \E x \in Tasks : Ask(u, x)
          PROVE  task'[t].seen = task[t].seen
      BY <2>3 DEF EnterAdd, AddPR, Ask
    <2>4. ASSUME NEW u \in Users, BindIssue(u) PROVE task'[t].seen = task[t].seen
      BY <1>1, <2>4 DEF BindIssue
    <2>5. ASSUME NEW x \in Tasks, NEW status, NEW title, SetTask(x, status, title)
          PROVE  task'[t].seen = task[t].seen
      BY <1>1, <2>5 DEF SetTask
    <2>6. ASSUME NEW x \in Tasks, Patch(x) \/ Close(x) \/ RemovePR(x) PROVE task'[t].seen = task[t].seen
      BY <2>5, <2>6 DEF Patch, Close, RemovePR
    <2> QED
      BY <2>1, <2>2, <2>3, <2>4, <2>6 DEF Next
  <1> QED
    BY <1>2, <1>3

\* A refresh that began before a task was closed changes none of its snapshots:
\* every write of a refresh looks at the status again.
THEOREM ArchivedKeepsSnapshotsHolds == Spec => ArchivedKeepsSnapshots
  <1>1. IInv /\ [Next]_vars => [\A t \in Tasks : KeepsSnapshots(t)]_vars
    BY StepKeepsSnapshots
  <1> QED
    BY <1>1, InvariantHolds, PTL DEF Spec, ArchivedKeepsSnapshots
=============================================================================
