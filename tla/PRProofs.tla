------------------------------ MODULE PRProofs -----------------------------
(***************************************************************************)
(* What the PR CI monitor promises. PRMonitor: for any number of PRs,      *)
(* pollers and users, and however often GitHub changes and calls fail.     *)
(* PRChecks: for any workflows, jobs, statuses and policy, and for any     *)
(* number of executions and attempts of them before and during a           *)
(* collection, that the state shown for a PR hides no failure that has     *)
(* stood, excuses what is bypassed and nothing else, and counts nothing    *)
(* that had been replaced.                                                 *)
(*                                                                         *)
(* The two are separate specifications with no variable in common.         *)
(***************************************************************************)
EXTENDS PRMonitor, PRChecks, FiniteSetTheorems, TLAPS

----------------------------------------------------------------------------
(* The inductive invariant.                                                *)

States == {"idle", "wait", "switch", "metadata", "collect", "recheck", "save"}
Heads  == [head: Nat, state: {"OPEN", "CLOSED"}]
GitHub == [head: Nat, state: {"OPEN", "CLOSED"}, ci: Nat]
Snaps  == [head: Nat, ci: Nat, live: BOOLEAN]

Shape ==
    /\ github \in [PRs -> GitHub]
    /\ row \in [PRs -> Rows \cup {NoRow}]
    /\ checks \in [PRs -> Snaps]
    /\ asked \in [PRs -> BOOLEAN]
    /\ proc = [q \in Procs |-> proc[q]]
    /\ view = [u \in Users |-> view[u]]

\* A row and its checks are one snapshot, not newer than GitHub, under the switch
\* a user asked for.
Sound(p) ==
    /\ AtLeast(github[p], checks[p])
    /\ ~Tracked(p) => asked[p] = TRUE /\ checks[p] = NoChecks
    /\ Tracked(p) => /\ row[p].monitoring = asked[p]
                     /\ row[p].head <= github[p].head
                     /\ checks[p].head = row[p].checked
                     /\ checks[p].live

\* Metadata that was read later than what is saved.
Read(p, meta) ==
    /\ meta \in Heads
    /\ row[p].head <= meta.head
    /\ checks[p].head <= meta.head
    /\ meta.head <= github[p].head

\* Results collected later than those saved; while the head was still there, or
\* GitHub has moved on since.
Found(p, meta, found) ==
    /\ found \in Snaps
    /\ found.head = meta.head
    /\ found.live => AtLeast(found, checks[p]) /\ AtLeast(github[p], found)
    /\ ~found.live => meta.head < github[p].head

\* What may be saved.
Due(p, new, found) ==
    /\ new \in Rows
    /\ new.monitoring = row[p].monitoring
    /\ row[p].head <= new.head /\ new.head <= github[p].head
    /\ new.err => new.checked = row[p].checked
    /\ ~new.err => /\ found \in Snaps /\ found.live
                   /\ found.head = new.checked
                   /\ AtLeast(found, checks[p]) /\ AtLeast(github[p], found)

\* What a process inside a refresh relies on, because nobody else writes the row
\* or the checks of its PR.
Relies(q) ==
    /\ proc[q].pc \in States
    /\ proc[q].pc # "idle" => proc[q].pr \in PRs /\ Tracked(proc[q].pr)
    /\ proc[q].pc = "switch" => proc[q].on \in BOOLEAN
    /\ proc[q].pc \in {"metadata", "collect", "recheck"} => proc[q].old = row[proc[q].pr]
    /\ proc[q].pc \in {"collect", "recheck"} => Read(proc[q].pr, proc[q].meta)
    /\ proc[q].pc = "recheck" => Found(proc[q].pr, proc[q].meta, proc[q].found)
    /\ proc[q].pc = "save" => Due(proc[q].pr, proc[q].row, proc[q].found)

Exclusive ==
    \A q, s \in Procs : (Inside(q) /\ Inside(s) /\ proc[q].pr = proc[s].pr) => q = s

\* What is handed out are tracked PRs.
Handing ==
    /\ sweep.pc \in {"asleep", "handing"}
    /\ sweep.todo \in Seq(PRs)
    /\ \A i \in 1..Len(sweep.todo) : Tracked(sweep.todo[i])
    /\ sweep = [pc |-> sweep.pc, todo |-> sweep.todo, done |-> sweep.done]

\* The half of a view that is read first is not newer than the checks by then.
Seen(u) ==
    /\ view[u].pc \in {"none", "half", "full"}
    /\ view[u].pc = "half" => /\ view[u].pr \in PRs
                              /\ view[u].row \in Rows
                              /\ view[u].row.checked <= checks[view[u].pr].head
    /\ view[u].pc = "full" => /\ view[u].row \in Rows
                              /\ view[u].checks \in Snaps
                              /\ view[u].row.checked <= view[u].checks.head

IInv ==
    /\ Shape
    /\ \A p \in PRs : Sound(p)
    /\ \A q \in Procs : Relies(q)
    /\ Exclusive
    /\ Handing
    /\ \A u \in Users : Seen(u)

----------------------------------------------------------------------------
(* What it gives, and where it starts.                                     *)

LEMMA TrackedRow ==
    ASSUME Shape, NEW p \in PRs
    PROVE  Tracked(p) <=> row[p] \in Rows
  BY DEF Shape, Tracked, Rows, NoRow

LEMMA Implied == IInv => SwitchKept /\ SnapshotOfOneMoment /\ ViewNotOlder
  <1> SUFFICES ASSUME IInv
               PROVE  SwitchKept /\ SnapshotOfOneMoment /\ ViewNotOlder
    OBVIOUS
  <1>1. SwitchKept /\ SnapshotOfOneMoment
    BY DEF IInv, Sound, SwitchKept, SnapshotOfOneMoment
  <1>2. ViewNotOlder
    BY DEF IInv, Seen, ViewNotOlder, Stale, Rows, Snaps
  <1> QED
    BY <1>1, <1>2

LEMMA Initial == Init => IInv
  <1> SUFFICES ASSUME Init
               PROVE  IInv
    OBVIOUS
  <1> USE DEF Init
  <1>1. Shape
    BY DEF Shape, GitHub, Snaps, NoChecks
  <1>2. \A p \in PRs : ~Tracked(p) /\ Sound(p)
    BY DEF Sound, Tracked, AtLeast, NoChecks
  <1>3. \A q \in Procs : proc[q] = Idle
    OBVIOUS
  <1>4. (\A q \in Procs : Relies(q)) /\ Exclusive
    BY <1>3 DEF Relies, Exclusive, Inside, Idle, States
  <1>5. Handing
    BY DEF Handing, Asleep
  <1>6. \A u \in Users : Seen(u)
    BY DEF Seen, NoView
  <1> QED
    BY <1>1, <1>2, <1>4, <1>5, <1>6 DEF IInv

----------------------------------------------------------------------------
(* What a step leaves alone stays true.                                    *)

LEMMA AtLeastOrders ==
    ASSUME NEW a, NEW b, NEW c,
           a.head \in Nat, a.ci \in Nat, b.head \in Nat, b.ci \in Nat, c.head \in Nat, c.ci \in Nat
    PROVE  /\ AtLeast(a, a)
           /\ AtLeast(a, b) => b.head <= a.head
           /\ AtLeast(a, b) /\ AtLeast(b, c) => AtLeast(a, c)
  BY DEF AtLeast

\* GitHub only moves on.
Onward(p) == AtLeast(github'[p], github[p])

LEMMA RowKept ==
    ASSUME IInv, Shape', NEW p \in PRs, row'[p] = row[p], checks'[p] = checks[p], asked'[p] = asked[p], Onward(p)
    PROVE  Sound(p)' /\ (Tracked(p)' <=> Tracked(p))
  <1>1. Sound(p) /\ github[p] \in GitHub /\ github'[p] \in GitHub /\ checks[p] \in Snaps /\ checks'[p] \in Snaps
    BY DEF IInv, Shape
  <1>2. AtLeast(github'[p], checks'[p]) /\ github[p].head <= github'[p].head
    BY <1>1, AtLeastOrders DEF Sound, Onward, GitHub, Snaps
  <1>3. Tracked(p)' <=> Tracked(p)
    BY DEF Tracked
  <1>4. Tracked(p) => row[p].head \in Nat
    BY TrackedRow DEF IInv, Rows
  <1> QED
    BY <1>1, <1>2, <1>3, <1>4 DEF Sound, GitHub

LEMMA ProcKept ==
    ASSUME IInv, Shape', NEW q \in Procs, proc'[q] = proc[q],
           proc[q].pc # "idle" => Tracked(proc[q].pr)',
           Inside(q) => /\ row'[proc[q].pr] = row[proc[q].pr]
                        /\ checks'[proc[q].pr] = checks[proc[q].pr]
                        /\ Onward(proc[q].pr)
    PROVE  Relies(q)'
  <1>1. Relies(q)
    BY DEF IInv
  <1>2. CASE ~Inside(q)
    BY <1>1, <1>2 DEF Relies, Inside
  <1>3. CASE Inside(q)
    <2> DEFINE p == proc[q].pr
    <2>1. /\ p \in PRs /\ row'[p] = row[p] /\ checks'[p] = checks[p] /\ Onward(p)
          /\ proc[q].pc \in {"metadata", "collect", "recheck", "save"}
      BY <1>1, <1>3 DEF Relies, Inside
    <2>2. github[p] \in GitHub /\ github'[p] \in GitHub /\ checks[p] \in Snaps
      BY <2>1 DEF IInv, Shape
    <2>3. github[p].head <= github'[p].head
      BY <2>1, <2>2, AtLeastOrders DEF Onward, GitHub
    <2>4. ASSUME NEW meta, Read(p, meta) PROVE Read(p, meta)'
      BY <2>1, <2>2, <2>3, <2>4 DEF Read, Heads, GitHub
    <2>5. ASSUME NEW found \in Snaps, AtLeast(github[p], found) PROVE AtLeast(github'[p], found)
      BY <2>1, <2>2, <2>5, AtLeastOrders DEF Onward, GitHub, Snaps
    <2>6. ASSUME NEW meta, NEW found, Read(p, meta), Found(p, meta, found) PROVE Found(p, meta, found)'
      BY <2>1, <2>2, <2>3, <2>5, <2>6 DEF Found, Read, Heads, GitHub
    <2>7. ASSUME NEW new, NEW found, Due(p, new, found) PROVE Due(p, new, found)'
      BY <2>1, <2>2, <2>3, <2>5, <2>7 DEF Due, Rows, GitHub
    <2> QED
      BY <1>1, <1>3, <2>1, <2>4, <2>6, <2>7 DEF Relies
  <1> QED
    BY <1>2, <1>3

LEMMA ViewKept ==
    ASSUME IInv, Shape', NEW u \in Users, view'[u] = view[u], \A p \in PRs : AtLeast(checks'[p], checks[p])
    PROVE  Seen(u)'
  <1>1. Seen(u) /\ checks \in [PRs -> Snaps] /\ checks' \in [PRs -> Snaps]
    BY DEF IInv, Shape
  <1>2. \A p \in PRs : /\ checks[p].head \in Nat /\ checks'[p].head \in Nat
                       /\ checks[p].head <= checks'[p].head
    BY <1>1, AtLeastOrders DEF Snaps
  <1> QED
    BY <1>1, <1>2 DEF Seen, Rows, Snaps

LEMMA SweepKept ==
    ASSUME IInv, sweep' = sweep, \A p \in PRs : Tracked(p) => Tracked(p)'
    PROVE  Handing'
  <1>1. \A i \in 1..Len(sweep.todo) : sweep.todo[i] \in PRs
    BY DEF IInv, Handing
  <1> QED
    BY <1>1 DEF IInv, Handing

\* A step that leaves the tables and GitHub alone.
LEMMA TablesKept ==
    ASSUME IInv, UNCHANGED <<github, row, checks, asked>>
    PROVE  /\ \A p \in PRs : Sound(p)' /\ (Tracked(p)' <=> Tracked(p)) /\ Onward(p)
           /\ \A p \in PRs : AtLeast(checks'[p], checks[p])
  <1>1. \A p \in PRs : github[p] \in GitHub /\ checks[p] \in Snaps
    BY DEF IInv, Shape
  <1> QED
    BY <1>1, AtLeastOrders DEF IInv, Sound, Tracked, Onward, GitHub, Snaps

\* Such a step of one process that stays where it is or enters nothing new.
LEMMA OneProcMoves ==
    ASSUME IInv, NEW q \in Procs, NEW state,
           proc' = [proc EXCEPT ![q] = state],
           UNCHANGED <<github, row, checks, asked, view>>,
           state.pc \in {"metadata", "collect", "recheck", "save"} =>
              \A s \in Procs \ {q} : ~(Inside(s) /\ proc[s].pr = state.pr),
           Relies(q)'
    PROVE  /\ Shape' /\ Exclusive'
           /\ \A p \in PRs : Sound(p)'
           /\ \A s \in Procs : Relies(s)'
           /\ \A u \in Users : Seen(u)'
  <1>1. Shape' /\ proc'[q] = state /\ \A s \in Procs \ {q} : proc'[s] = proc[s]
    BY DEF IInv, Shape
  <1>2. /\ \A p \in PRs : Sound(p)' /\ (Tracked(p)' <=> Tracked(p)) /\ Onward(p)
        /\ \A p \in PRs : AtLeast(checks'[p], checks[p])
    BY TablesKept
  <1>3. ASSUME NEW s \in Procs \ {q} PROVE Relies(s)'
    <2>1. Relies(s)
      BY DEF IInv
    <2> QED
      BY <1>1, <1>2, <2>1, ProcKept DEF Relies, Inside
  <1>4. Exclusive'
    BY <1>1 DEF IInv, Exclusive, Inside
  <1>5. \A u \in Users : Seen(u)'
    BY <1>1, <1>2, ViewKept
  <1> QED
    BY <1>1, <1>2, <1>3, <1>4, <1>5

----------------------------------------------------------------------------
(* GitHub changes.                                                         *)

LEMMA GitHubKeeps ==
    ASSUME IInv, GitHubChanges
    PROVE  IInv'
  <1>1. UNCHANGED <<row, checks, proc, sweep, view, asked>>
    BY DEF GitHubChanges, monitor
  <1>2. Shape
    BY DEF IInv
  <1>3. github' \in [PRs -> GitHub] /\ \A p \in PRs : Onward(p)
    <2>1. PICK p \in PRs : Push(p) \/ ChecksProgress(p) \/ CloseOrReopen(p)
      BY DEF GitHubChanges
    <2>2. \A x \in PRs : github[x] \in GitHub
      BY <1>2 DEF Shape
    <2>3. CASE Push(p)
      BY <1>2, <2>2, <2>3 DEF Push, Onward, AtLeast, Shape, GitHub
    <2>4. CASE ChecksProgress(p)
      BY <1>2, <2>2, <2>4 DEF ChecksProgress, Onward, AtLeast, Shape, GitHub
    <2>5. CASE CloseOrReopen(p)
      BY <1>2, <2>2, <2>5 DEF CloseOrReopen, Onward, AtLeast, Shape, GitHub
    <2> QED
      BY <2>1, <2>3, <2>4, <2>5
  <1>4. Shape'
    BY <1>1, <1>2, <1>3 DEF Shape
  <1>5. \A p \in PRs : Sound(p)' /\ (Tracked(p)' <=> Tracked(p))
    BY <1>1, <1>3, <1>4, RowKept
  <1>6. \A q \in Procs : Relies(q)'
    <2> SUFFICES ASSUME NEW q \in Procs PROVE Relies(q)'
      OBVIOUS
    <2>1. Relies(q)
      BY DEF IInv
    <2> QED
      BY <1>1, <1>3, <1>4, <1>5, <2>1, ProcKept DEF Relies, Inside
  <1>7. Exclusive' /\ Handing'
    BY <1>1, <1>5, SweepKept DEF IInv, Exclusive, Inside
  <1>8. \A u \in Users : Seen(u)'
    <2>1. \A p \in PRs : AtLeast(checks'[p], checks[p])
      BY <1>1, <1>2, AtLeastOrders DEF Shape, Snaps
    <2> QED
      BY <1>1, <1>4, <2>1, ViewKept
  <1> QED
    BY <1>4, <1>5, <1>6, <1>7, <1>8 DEF IInv

----------------------------------------------------------------------------
(* One refresh.                                                            *)

\* A step within a refresh touches nothing but its process.
LEMMA RefreshMoves ==
    ASSUME IInv, NEW q \in Procs, NEW state,
           proc' = [proc EXCEPT ![q] = state],
           UNCHANGED <<github, row, checks, asked, view, sweep>>,
           Inside(q), state.pr = proc[q].pr,
           Relies(q)'
    PROVE  IInv'
  <1>1. \A s \in Procs \ {q} : ~(Inside(s) /\ proc[s].pr = state.pr)
    BY DEF IInv, Exclusive
  <1>2. /\ Shape' /\ Exclusive'
        /\ \A p \in PRs : Sound(p)'
        /\ \A s \in Procs : Relies(s)'
        /\ \A u \in Users : Seen(u)'
    BY <1>1, OneProcMoves
  <1>3. Handing'
    BY SweepKept DEF Tracked
  <1> QED
    BY <1>2, <1>3 DEF IInv

LEMMA EnterKeeps ==
    ASSUME IInv, NEW q \in Procs, Enter(q)
    PROVE  IInv'
  <1> DEFINE state == [pc |-> "metadata", pr |-> proc[q].pr, old |-> row[proc[q].pr]]
  <1>1. /\ proc[q].pc = "wait" /\ Unlocked(proc[q].pr)
        /\ proc' = [proc EXCEPT ![q] = state]
        /\ UNCHANGED <<github, row, checks, asked, view, sweep>>
    BY DEF Enter
  <1>2. Relies(q) /\ proc'[q] = state
    BY <1>1 DEF IInv, Shape
  <1>3. Relies(q)'
    BY <1>1, <1>2 DEF Relies, States, Tracked
  <1>4. \A s \in Procs \ {q} : ~(Inside(s) /\ proc[s].pr = state.pr)
    BY <1>1 DEF Unlocked
  <1>5. /\ Shape' /\ Exclusive'
        /\ \A p \in PRs : Sound(p)'
        /\ \A s \in Procs : Relies(s)'
        /\ \A u \in Users : Seen(u)'
    BY <1>1, <1>3, <1>4, OneProcMoves
  <1>6. Handing'
    BY <1>1, SweepKept DEF Tracked
  <1> QED
    BY <1>5, <1>6 DEF IInv

LEMMA MetadataFacts ==
    ASSUME IInv, NEW p \in PRs, Tracked(p)
    PROVE  Read(p, Metadata(p))
  <1>1. Sound(p) /\ github[p] \in GitHub /\ checks[p] \in Snaps /\ row[p] \in Rows
    BY TrackedRow DEF IInv, Shape
  <1>2. checks[p].head <= github[p].head
    BY <1>1, AtLeastOrders DEF Sound, GitHub, Snaps
  <1> QED
    BY <1>1, <1>2 DEF Read, Metadata, Heads, GitHub, Sound

LEMMA ReadMetadataKeeps ==
    ASSUME IInv, NEW q \in Procs, ReadMetadata(q)
    PROVE  IInv'
  <1> DEFINE p == proc[q].pr
             state == [pc |-> "collect", pr |-> p, old |-> proc[q].old, meta |-> Metadata(p)]
  <1>1. /\ proc[q].pc = "metadata"
        /\ proc' = [proc EXCEPT ![q] = state]
        /\ UNCHANGED <<github, row, checks, asked, view, sweep>>
    BY DEF ReadMetadata
  <1>2. Relies(q) /\ proc'[q] = state /\ Inside(q)
    BY <1>1 DEF IInv, Shape, Inside
  <1>3. p \in PRs /\ Tracked(p) /\ proc[q].old = row[p]
    BY <1>1, <1>2 DEF Relies
  <1>4. Read(p, Metadata(p))'
    BY <1>1, <1>3, MetadataFacts DEF Read, Metadata
  <1>5. Metadata(p)' = Metadata(p)
    BY <1>1 DEF Metadata
  <1>6. Relies(q)'
    BY <1>1, <1>2, <1>3, <1>4, <1>5 DEF Relies, States, Tracked, Read
  <1> QED
    BY <1>1, <1>2, <1>6, RefreshMoves

\* A call fails: the row is saved with an error, over the checks that were there.
LEMMA DueWithError ==
    ASSUME IInv, NEW p \in PRs, Tracked(p), NEW meta, Read(p, meta), NEW found
    PROVE  /\ Due(p, Unobserved(row[p]), found)
           /\ Due(p, Observed(row[p], meta, TRUE), found)
  <1>1. row[p] \in Rows /\ Sound(p) /\ github[p] \in GitHub
    BY TrackedRow DEF IInv, Shape
  <1>2. Due(p, Unobserved(row[p]), found)
    <2> DEFINE new == Unobserved(row[p])
    <2>1. /\ new \in Rows /\ new.monitoring = row[p].monitoring /\ new.head = row[p].head
          /\ new.checked = row[p].checked /\ new.err
      BY <1>1 DEF Unobserved, Rows
    <2> HIDE DEF new
    <2>2. Due(p, new, found)
      BY <1>1, <2>1 DEF Due, Sound, Rows
    <2> QED
      BY <2>2 DEF new
  <1>3. Due(p, Observed(row[p], meta, TRUE), found)
    <2> DEFINE new == [state |-> meta.state, head |-> meta.head, checked |-> row[p].checked,
                       monitoring |-> row[p].monitoring, err |-> TRUE]
    <2>1. Observed(row[p], meta, TRUE) = new
      BY DEF Observed, Row
    <2>2. new \in Rows
      BY <1>1 DEF Rows, Read, Heads
    <2>3. Due(p, new, found)
      BY <1>1, <2>2 DEF Due, Read
    <2> QED
      BY <2>1, <2>3
  <1> QED
    BY <1>2, <1>3

LEMMA SavingKeeps ==
    ASSUME IInv, NEW q \in Procs, NEW new, NEW found,
           proc[q].pc \in {"metadata", "collect", "recheck"},
           Saving(q, new, found), Due(proc[q].pr, new, found),
           UNCHANGED <<github, row, checks, asked, view, sweep>>
    PROVE  IInv'
  <1> DEFINE state == [pc |-> "save", pr |-> proc[q].pr, row |-> new, found |-> found]
  <1>1. proc' = [proc EXCEPT ![q] = state] /\ Inside(q)
    BY DEF Saving, Inside
  <1>2. Relies(q) /\ proc'[q] = state
    BY <1>1 DEF IInv, Shape
  <1>3. Due(proc[q].pr, new, found)'
    BY <1>2 DEF Due
  <1>4. Relies(q)'
    BY <1>2, <1>3 DEF Relies, States, Tracked, Due
  <1> QED
    BY <1>1, <1>4, RefreshMoves

LEMMA FailingKeeps ==
    ASSUME IInv, NEW q \in Procs, MetadataFails(q) \/ CollectFails(q)
    PROVE  IInv'
  <1> DEFINE p == proc[q].pr
  <1>1. /\ proc[q].pc \in {"metadata", "collect", "recheck"}
        /\ UNCHANGED <<github, row, checks, asked, view, sweep>>
        /\ Relies(q)
    BY DEF MetadataFails, CollectFails, IInv
  <1>2. p \in PRs /\ Tracked(p) /\ proc[q].old = row[p]
    BY <1>1 DEF Relies
  <1>3. CASE MetadataFails(q)
    <2>1. Due(p, Unobserved(row[p]), NoChecks)
      BY <1>2, MetadataFacts, DueWithError
    <2>2. Saving(q, Unobserved(row[p]), NoChecks)
      BY <1>2, <1>3 DEF MetadataFails
    <2> QED
      BY <1>1, <2>1, <2>2, SavingKeeps
  <1>4. CASE CollectFails(q)
    <2>1. Read(p, proc[q].meta)
      BY <1>1, <1>4 DEF CollectFails, Relies
    <2>2. PICK new : new = Observed(row[p], proc[q].meta, TRUE)
      OBVIOUS
    <2>3. Due(p, new, NoChecks)
      BY <1>2, <2>1, <2>2, DueWithError
    <2>4. Saving(q, new, NoChecks)
      BY <1>2, <1>4, <2>2 DEF CollectFails
    <2> QED
      BY <1>1, <2>3, <2>4, SavingKeeps
  <1> QED
    BY <1>3, <1>4

LEMMA CollectKeeps ==
    ASSUME IInv, NEW q \in Procs, Collect(q)
    PROVE  IInv'
  <1>1. Relies(q) /\ proc[q].pc = "collect" /\ Inside(q)
    BY DEF Collect, IInv, Inside
  <1>2. PICK p \in PRs, meta \in Heads : p = proc[q].pr /\ meta = proc[q].meta
    BY <1>1 DEF Relies, Read
  <1>3. Tracked(p) /\ proc[q].old = row[p] /\ Read(p, meta)
    BY <1>1, <1>2 DEF Relies
  <1> DEFINE current == github[p].head = meta.head
  <1>4. PICK found : found = [head |-> meta.head, ci |-> IF current THEN github[p].ci ELSE 1, live |-> current]
    OBVIOUS
  <1> DEFINE state == [pc |-> "recheck", pr |-> p, old |-> proc[q].old, meta |-> meta, found |-> found]
  <1>5. /\ proc' = [proc EXCEPT ![q] = state]
        /\ UNCHANGED <<github, row, checks, asked, view, sweep>>
    BY <1>2, <1>4 DEF Collect
  <1>6. Sound(p) /\ github[p] \in GitHub /\ checks[p] \in Snaps
    BY DEF IInv, Shape
  <1>7. Found(p, meta, found)
    <2>1. CASE current
      <3>1. found = [head |-> meta.head, ci |-> github[p].ci, live |-> TRUE]
        BY <1>4, <2>1
      <3> QED
        BY <1>3, <1>6, <2>1, <3>1 DEF Found, Read, Sound, AtLeast, GitHub, Snaps, Heads
    <2>2. CASE ~current
      <3>1. found = [head |-> meta.head, ci |-> 1, live |-> FALSE]
        BY <1>4, <2>2
      <3> QED
        BY <1>3, <1>6, <2>2, <3>1 DEF Found, Read, GitHub, Snaps, Heads
    <2> QED
      BY <2>1, <2>2
  <1>8. Found(p, meta, found)' /\ Read(p, meta)' /\ (Tracked(p) <=> Tracked(p)')
    BY <1>3, <1>5, <1>7 DEF Found, Read, Tracked
  <1>9. proc'[q] = state
    BY <1>5 DEF IInv, Shape
  <1>10. Relies(q)'
    BY <1>3, <1>5, <1>8, <1>9 DEF Relies, States
  <1> QED
    BY <1>1, <1>2, <1>5, <1>10, RefreshMoves

LEMMA RecheckKeeps ==
    ASSUME IInv, NEW q \in Procs, Recheck(q)
    PROVE  IInv'
  <1>1. Relies(q) /\ proc[q].pc = "recheck" /\ UNCHANGED <<github, row, checks, asked, view, sweep>>
    BY DEF Recheck, IInv
  <1>2. PICK p \in PRs, meta \in Heads, found \in Snaps :
            p = proc[q].pr /\ meta = proc[q].meta /\ found = proc[q].found
    BY <1>1 DEF Relies, Read, Found
  <1>3. Tracked(p) /\ proc[q].old = row[p] /\ Read(p, meta) /\ Found(p, meta, found)
    BY <1>1, <1>2 DEF Relies
  <1>4. Read(p, Metadata(p)) /\ github[p] \in GitHub /\ row[p] \in Rows
    BY <1>3, MetadataFacts, TrackedRow DEF IInv, Shape
  <1>5. CASE Metadata(p) # meta
    <2>1. PICK new : new = Observed(row[p], Metadata(p), TRUE)
      OBVIOUS
    <2>2. Saving(q, new, NoChecks)
      BY <1>2, <1>3, <1>5, <2>1 DEF Recheck, Moved, Saving, Observed, Row
    <2>3. Due(p, new, NoChecks)
      BY <1>3, <1>4, <2>1, DueWithError
    <2> QED
      BY <1>1, <1>2, <2>2, <2>3, SavingKeeps
  <1>6. CASE Metadata(p) = meta
    <2> DEFINE new == [state |-> meta.state, head |-> meta.head, checked |-> meta.head,
                       monitoring |-> row[p].monitoring, err |-> FALSE]
    <2>1. Saving(q, new, found)
      BY <1>2, <1>3, <1>6 DEF Recheck, Moved, Saving, Observed, Row
    <2>2. new \in Rows
      BY <1>4 DEF Rows, Heads
    <2>3. meta.head = github[p].head /\ meta.head \in Nat
      BY <1>6 DEF Metadata, Heads
    <2>4. Due(p, new, found)
      BY <1>3, <1>4, <2>2, <2>3 DEF Due, Read, Found
    <2> HIDE DEF new
    <2> QED
      BY <1>1, <1>2, <2>1, <2>4, SavingKeeps
  <1> QED
    BY <1>5, <1>6

LEMMA SaveFailsKeeps ==
    ASSUME IInv, NEW q \in Procs, SaveFails(q)
    PROVE  IInv'
  <1>1. proc' = [proc EXCEPT ![q] = Idle] /\ UNCHANGED <<github, row, checks, asked, view, sweep>>
    BY DEF SaveFails, Leave
  <1>2. Relies(q)'
    BY <1>1 DEF IInv, Shape, Relies, Idle, States
  <1>3. /\ Shape' /\ Exclusive'
        /\ \A p \in PRs : Sound(p)'
        /\ \A s \in Procs : Relies(s)'
        /\ \A u \in Users : Seen(u)'
    BY <1>1, <1>2, OneProcMoves DEF Idle
  <1>4. Handing'
    BY <1>1, SweepKept DEF Tracked
  <1> QED
    BY <1>3, <1>4 DEF IInv

\* What a save does to the tables.
LEMMA SaveMoves ==
    ASSUME IInv, NEW q \in Procs, Save(q)
    PROVE  /\ Shape'
           /\ \A p \in PRs : Sound(p)' /\ (Tracked(p)' <=> Tracked(p)) /\ Onward(p)
           /\ \A p \in PRs : AtLeast(checks'[p], checks[p])
           /\ \A p \in PRs : Tracked(p) => row[p].head <= row'[p].head
           /\ \A p \in PRs : p # proc[q].pr => row'[p] = row[p] /\ checks'[p] = checks[p]
  <1>1. Relies(q) /\ proc[q].pc = "save" /\ Shape
    BY DEF Save, IInv
  <1>2. PICK p \in PRs, new \in Rows, found \in {proc[q].found} :
           p = proc[q].pr /\ new = proc[q].row /\ found = proc[q].found
    BY <1>1 DEF Relies, Due
  <1>3. Tracked(p) /\ Due(p, new, found) /\ Sound(p) /\ row[p] \in Rows /\ github[p] \in GitHub /\ checks[p] \in Snaps
    BY <1>1, <1>2, TrackedRow DEF Relies, IInv, Shape
  <1>4. /\ row' = [row EXCEPT ![p] = new]
        /\ checks' = IF new.err THEN checks ELSE [checks EXCEPT ![p] = found]
        /\ UNCHANGED <<github, view, asked>>
        /\ proc' = [proc EXCEPT ![q] = Idle]
    BY <1>2 DEF Save, Leave
  <1>5. /\ row'[p] = new
        /\ checks'[p] = IF new.err THEN checks[p] ELSE found
        /\ \A x \in PRs : x # p => row'[x] = row[x] /\ checks'[x] = checks[x]
    BY <1>1, <1>4 DEF Shape
  <1>6. Shape'
    BY <1>1, <1>3, <1>4 DEF Shape, Due
  <1>7. AtLeast(checks'[p], checks[p]) /\ Tracked(p)'
    BY <1>2, <1>3, <1>5, AtLeastOrders DEF Due, Snaps, Tracked, Rows, NoRow
  <1>8. Sound(p)'
    BY <1>3, <1>4, <1>5, <1>7 DEF Sound, Due
  <1>9. ASSUME NEW x \in PRs PROVE Onward(x)
    BY <1>1, <1>4, AtLeastOrders DEF Shape, Onward, GitHub
  <1>10. ASSUME NEW x \in PRs, x # p
         PROVE  Sound(x)' /\ (Tracked(x)' <=> Tracked(x)) /\ AtLeast(checks'[x], checks[x])
    BY <1>1, <1>4, <1>5, <1>6, <1>9, <1>10, RowKept, AtLeastOrders DEF Shape, Snaps
  <1>11. \A x \in PRs : Tracked(x) => row[x].head <= row'[x].head
    <2> SUFFICES ASSUME NEW x \in PRs, Tracked(x) PROVE row[x].head <= row'[x].head
      OBVIOUS
    <2>1. row[x].head \in Nat
      BY <1>1, TrackedRow DEF Rows
    <2> QED
      BY <1>3, <1>5, <2>1 DEF Due
  <1> QED
    BY <1>2, <1>3, <1>5, <1>6, <1>7, <1>8, <1>9, <1>10, <1>11

LEMMA SaveKeeps ==
    ASSUME IInv, NEW q \in Procs, Save(q)
    PROVE  IInv'
  <1>1. /\ Shape'
        /\ \A p \in PRs : Sound(p)' /\ (Tracked(p)' <=> Tracked(p)) /\ Onward(p)
        /\ \A p \in PRs : AtLeast(checks'[p], checks[p])
        /\ \A p \in PRs : p # proc[q].pr => row'[p] = row[p] /\ checks'[p] = checks[p]
    BY SaveMoves
  <1>2. proc[q].pc = "save" /\ Inside(q) /\ proc' = [proc EXCEPT ![q] = Idle] /\ view' = view
    BY DEF Save, Leave, Inside
  <1>3. proc'[q] = Idle /\ \A s \in Procs \ {q} : proc'[s] = proc[s]
    BY <1>2 DEF IInv, Shape
  <1>4. Relies(q)'
    BY <1>3 DEF Relies, Idle, States
  <1>5. ASSUME NEW s \in Procs \ {q} PROVE Relies(s)'
    <2>1. Relies(s) /\ (Inside(s) => proc[s].pr # proc[q].pr)
      BY <1>2 DEF IInv, Exclusive
    <2> QED
      BY <1>1, <1>3, <2>1, ProcKept DEF Relies, Inside
  <1>6. Exclusive'
    BY <1>3 DEF IInv, Exclusive, Inside, Idle
  <1>7. Handing'
    <2>1. sweep' = IF q \in Pollers THEN [sweep EXCEPT !.done = TRUE] ELSE sweep
      BY DEF Save
    <2>2. /\ sweep'.pc = sweep.pc /\ sweep'.todo = sweep.todo
          /\ sweep' = [pc |-> sweep'.pc, todo |-> sweep'.todo, done |-> sweep'.done]
      BY <2>1 DEF IInv, Handing
    <2>3. \A i \in 1..Len(sweep.todo) : sweep.todo[i] \in PRs
      BY DEF IInv, Handing
    <2> QED
      BY <1>1, <2>2, <2>3 DEF IInv, Handing
  <1>8. \A u \in Users : Seen(u)'
    BY <1>1, <1>2, ViewKept
  <1> QED
    BY <1>1, <1>4, <1>5, <1>6, <1>7, <1>8 DEF IInv

----------------------------------------------------------------------------
(* The sweep.                                                              *)

LEMMA HeadAndTail ==
    ASSUME NEW S, NEW s \in Seq(S), s # <<>>
    PROVE  /\ 1 \in 1..Len(s) /\ Head(s) = s[1] /\ Head(s) \in S
           /\ Tail(s) \in Seq(S)
           /\ \A i \in 1..Len(Tail(s)) : i + 1 \in 1..Len(s) /\ Tail(s)[i] = s[i + 1]
  <1>1. Len(s) \in Nat /\ Len(s) > 0 /\ \A i \in 1..Len(s) : s[i] \in S
    OBVIOUS
  <1>2. Head(s) = s[1] /\ Tail(s) \in Seq(S) /\ Len(Tail(s)) = Len(s) - 1
    BY <1>1
  <1> QED
    BY <1>1, <1>2

LEMMA HandOutKeeps ==
    ASSUME IInv, NEW q \in Procs, HandOut(q)
    PROVE  IInv'
  <1>1. PICK todo \in Seq(PRs) : sweep.todo = todo
    BY DEF IInv, Handing
  <1>2. /\ \A i \in 1..Len(todo) : todo[i] \in PRs /\ Tracked(todo[i])
        /\ sweep.pc \in {"asleep", "handing"}
        /\ sweep = [pc |-> sweep.pc, todo |-> sweep.todo, done |-> sweep.done]
    BY <1>1 DEF IInv, Handing
  <1>3. /\ todo # <<>>
        /\ UNCHANGED <<github, row, checks, asked, view>>
    BY <1>1 DEF HandOut
  <1>4. PICK p \in PRs : p = Head(todo) /\ Tracked(p)
    BY <1>2, <1>3, HeadAndTail
  <1>5. PICK rest \in Seq(PRs) : rest = Tail(todo)
    BY <1>3, HeadAndTail
  <1> DEFINE state == [pc |-> "wait", pr |-> p]
  <1>6. proc' = [proc EXCEPT ![q] = state] /\ sweep' = [sweep EXCEPT !.todo = rest]
    BY <1>1, <1>4, <1>5 DEF HandOut
  <1>7. \A x \in PRs : Tracked(x)' <=> Tracked(x)
    BY <1>3 DEF Tracked
  <1>8. Relies(q)'
    <2>1. proc'[q] = state
      BY <1>6 DEF IInv, Shape
    <2> QED
      BY <1>4, <1>7, <2>1 DEF Relies, States, Tracked
  <1>9. /\ Shape' /\ Exclusive'
        /\ \A x \in PRs : Sound(x)'
        /\ \A s \in Procs : Relies(s)'
        /\ \A u \in Users : Seen(u)'
    BY <1>3, <1>6, <1>8, OneProcMoves
  <1>10. Handing'
    <2>1. /\ sweep'.pc = sweep.pc /\ sweep'.todo = rest
          /\ sweep' = [pc |-> sweep'.pc, todo |-> sweep'.todo, done |-> sweep'.done]
      BY <1>2, <1>6
    <2>2. \A i \in 1..Len(rest) : rest[i] \in PRs /\ Tracked(rest[i])
      <3> SUFFICES ASSUME NEW i \in 1..Len(rest) PROVE rest[i] \in PRs /\ Tracked(rest[i])
        OBVIOUS
      <3>1. i + 1 \in 1..Len(todo) /\ rest[i] = todo[i + 1]
        BY <1>3, <1>5, HeadAndTail
      <3> QED
        BY <1>2, <3>1
    <2> QED
      BY <1>2, <1>3, <2>1, <2>2 DEF Handing, Tracked
  <1> QED
    BY <1>9, <1>10 DEF IInv

\* Rows that are inserted start from nothing; those there are left as they are.
LEMMA TrackKeeps ==
    ASSUME IInv, NEW ps, row' = TrackedRows(ps), UNCHANGED <<github, checks, asked>>
    PROVE  /\ row' \in [PRs -> Rows \cup {NoRow}]
           /\ \A p \in PRs : Tracked(p) => row'[p] = row[p] /\ Tracked(p)'
           /\ \A p \in PRs : p \in ps => Tracked(p)'
           /\ \A p \in PRs : Sound(p)' /\ Onward(p) /\ AtLeast(checks'[p], checks[p])
  <1> DEFINE new == Row("UNKNOWN", 0, 0, TRUE, FALSE)
  <1>1. new \in Rows /\ new # NoRow
    BY DEF Rows, Row, NoRow
  <1>2. /\ \A p \in PRs : row'[p] = IF p \in ps /\ ~Tracked(p) THEN new ELSE row[p]
        /\ row' = [p \in PRs |-> row'[p]]
    BY DEF TrackedRows
  <1>3. Shape
    BY DEF IInv
  <1>4. row' \in [PRs -> Rows \cup {NoRow}]
    BY <1>1, <1>2, <1>3 DEF Shape
  <1>5. \A p \in PRs : /\ Tracked(p) => row'[p] = row[p] /\ Tracked(p)'
                       /\ p \in ps => Tracked(p)'
    BY <1>1, <1>2 DEF Tracked
  <1>6. ASSUME NEW p \in PRs PROVE Sound(p)' /\ Onward(p) /\ AtLeast(checks'[p], checks[p])
    <2>1. Onward(p) /\ AtLeast(checks'[p], checks[p])
      BY <1>3, AtLeastOrders DEF Shape, Onward, GitHub, Snaps
    <2>2. Sound(p) /\ github[p] \in GitHub
      BY <1>3 DEF IInv, Shape
    <2>3. AtLeast(github[p], checks[p])' /\ github' = github /\ checks' = checks /\ asked' = asked
      BY <2>2 DEF Sound
    <2>4. CASE row'[p] = row[p]
      <3>1. Sound(p)'
        BY <2>2, <2>3, <2>4 DEF Sound, Tracked
      <3> QED
        BY <2>1, <3>1
    <2>5. CASE row'[p] # row[p]
      <3>1. row'[p] = new /\ ~Tracked(p)
        BY <1>2, <2>5
      <3>2. /\ row'[p].monitoring = TRUE /\ row'[p].head = 0 /\ row'[p].checked = 0
            /\ Tracked(p)'
        BY <1>1, <3>1 DEF Row, Tracked
      <3>3. asked[p] = TRUE /\ checks[p].head = 0 /\ checks[p].live = TRUE
        BY <2>2, <3>1 DEF Sound, NoChecks
      <3>4. AtLeast(github'[p], checks'[p]) /\ row'[p].head <= github'[p].head
        BY <2>2, <2>3, <3>2 DEF GitHub
      <3>5. Sound(p)'
        BY <2>3, <3>2, <3>3, <3>4 DEF Sound
      <3> QED
        BY <2>1, <3>5
    <2> QED
      BY <2>4, <2>5
  <1> QED
    BY <1>4, <1>5, <1>6

\* So do they with everything else that the step leaves alone.
LEMMA TrackingKeeps ==
    ASSUME IInv, NEW ps, row' = TrackedRows(ps), UNCHANGED <<github, checks, asked>>,
           proc' = [q \in Procs |-> proc'[q]]
    PROVE  /\ UNCHANGED view => Shape' /\ \A u \in Users : Seen(u)'
           /\ \A q \in Procs : proc'[q] = proc[q] => (UNCHANGED view => Relies(q)')
           /\ UNCHANGED sweep => Handing'
  <1>1. /\ row' \in [PRs -> Rows \cup {NoRow}]
        /\ \A p \in PRs : Tracked(p) => row'[p] = row[p] /\ Tracked(p)'
        /\ \A p \in PRs : Onward(p) /\ AtLeast(checks'[p], checks[p])
    BY TrackKeeps
  <1>2. UNCHANGED view => Shape'
    BY <1>1 DEF IInv, Shape
  <1>3. UNCHANGED view => \A u \in Users : Seen(u)'
    BY <1>1, <1>2, ViewKept
  <1>4. ASSUME NEW q \in Procs, proc'[q] = proc[q], UNCHANGED view PROVE Relies(q)'
    <2>1. Relies(q)
      BY DEF IInv
    <2>2. ASSUME NEW p \in PRs, Tracked(p) PROVE Tracked(p)' /\ row'[p] = row[p]
      BY <1>1, <2>2
    <2>3. proc[q].pc # "idle" => proc[q].pr \in PRs /\ Tracked(proc[q].pr)
      BY <2>1 DEF Relies
    <2>4. proc[q].pc # "idle" => Tracked(proc[q].pr)' /\ row'[proc[q].pr] = row[proc[q].pr]
      <3> SUFFICES ASSUME proc[q].pc # "idle" PROVE Tracked(proc[q].pr)' /\ row'[proc[q].pr] = row[proc[q].pr]
        OBVIOUS
      <3>1. PICK p \in PRs : p = proc[q].pr /\ Tracked(p)
        BY <2>3
      <3> QED
        BY <1>4, <2>2, <3>1 DEF Tracked
    <2> QED
      BY <1>1, <1>2, <1>4, <2>3, <2>4, ProcKept DEF Inside
  <1>5. UNCHANGED sweep => Handing'
    BY <1>1, SweepKept
  <1> QED
    BY <1>2, <1>3, <1>4, <1>5

LEMMA InTurnIsSeq ==
    ASSUME NEW ps \in SUBSET PRs, NEW s \in InTurn(ps)
    PROVE  /\ s \in Seq(PRs)
           /\ \A i \in 1..Len(s) : s[i] \in ps
  <1>1. Cardinality(ps) \in Nat
    BY PRsAssumption, FS_Subset, FS_CardinalityType
  <1>2. s \in [1..Cardinality(ps) -> ps]
    BY DEF InTurn, SetToSeqs
  <1>3. s \in Seq(ps) /\ Len(s) = Cardinality(ps)
    BY <1>1, <1>2
  <1> QED
    BY <1>1, <1>2, <1>3

LEMMA SweepKeeps ==
    ASSUME IInv, NEW found, SweepWith(found)
    PROVE  IInv'
  <1> DEFINE due == {p \in PRs : row'[p] # NoRow /\ Polled(row'[p], p \in found)}
  <1>1. /\ row' = TrackedRows(found \cup Seeds)
        /\ UNCHANGED <<github, checks, asked, proc, view>>
    BY DEF SweepWith
  <1>2. PICK s \in InTurn(due) : sweep' = [pc |-> "handing", todo |-> s, done |-> FALSE]
    BY <1>1 DEF SweepWith
  <1>3. /\ s \in Seq(PRs)
        /\ \A i \in 1..Len(s) : s[i] \in due
    BY InTurnIsSeq
  <1>4. Handing'
    BY <1>2, <1>3 DEF Handing, Tracked
  <1>5. \A p \in PRs : Sound(p)'
    BY <1>1, TrackKeeps
  <1>6. /\ Shape' /\ \A u \in Users : Seen(u)'
        /\ \A q \in Procs : Relies(q)'
    <2>1. proc' = [q \in Procs |-> proc'[q]]
      BY <1>1 DEF IInv, Shape
    <2> QED
      BY <1>1, <2>1, TrackingKeeps
  <1>7. Exclusive'
    BY <1>1 DEF IInv, Exclusive, Inside
  <1> QED
    BY <1>4, <1>5, <1>6, <1>7 DEF IInv

\* Processes that stop, and a sweep that has nothing left.
LEMMA StoppingKeeps ==
    ASSUME IInv, UNCHANGED <<github, row, checks, asked>>,
           view' = [u \in Users |-> view'[u]],
           \A u \in Users : view'[u] \in {view[u], NoView},
           proc' = [q \in Procs |-> proc'[q]],
           \A q \in Procs : proc'[q] \in {proc[q], Idle},
           Handing'
    PROVE  IInv'
  <1>1. Shape'
    BY DEF IInv, Shape
  <1>2. /\ \A p \in PRs : Sound(p)' /\ (Tracked(p)' <=> Tracked(p)) /\ Onward(p)
        /\ \A p \in PRs : AtLeast(checks'[p], checks[p])
    BY TablesKept
  <1>3. ASSUME NEW q \in Procs PROVE Relies(q)'
    <2>1. CASE proc'[q] = Idle
      BY <2>1 DEF Relies, Idle, States
    <2>2. CASE proc'[q] = proc[q]
      <3>1. Relies(q)
        BY DEF IInv
      <3> QED
        BY <1>1, <1>2, <2>2, <3>1, ProcKept DEF Relies, Inside
    <2> QED
      BY <2>1, <2>2
  <1>4. Exclusive'
    <2>1. \A q \in Procs : Inside(q)' => Inside(q) /\ proc'[q] = proc[q]
      BY DEF Inside, Idle
    <2> QED
      BY <2>1 DEF IInv, Exclusive
  <1>5. ASSUME NEW u \in Users PROVE Seen(u)'
    <2>1. CASE view'[u] = NoView
      BY <2>1 DEF Seen, NoView
    <2>2. CASE view'[u] = view[u]
      BY <1>1, <1>2, <2>2, ViewKept
    <2> QED
      BY <2>1, <2>2
  <1> QED
    BY <1>1, <1>2, <1>3, <1>4, <1>5 DEF IInv

LEMMA CutKeeps ==
    ASSUME IInv, Cut
    PROVE  IInv'
  <1>1. /\ UNCHANGED <<github, row, checks, asked, view>>
        /\ proc' = [q \in Procs |-> IF q \in Pollers /\ proc[q].pc = "wait" THEN Idle ELSE proc[q]]
    BY DEF Cut
  <1>2. sweep' = [pc |-> sweep.pc, todo |-> <<>>, done |-> sweep.done]
    BY DEF Cut, IInv, Handing
  <1>3. Handing'
    BY <1>2 DEF IInv, Handing
  <1>4. /\ proc' = [q \in Procs |-> proc'[q]]
        /\ \A q \in Procs : proc'[q] \in {proc[q], Idle}
        /\ view' = [u \in Users |-> view'[u]]
    BY <1>1 DEF IInv, Shape
  <1> QED
    BY <1>1, <1>3, <1>4, StoppingKeeps

LEMMA SweepEndsKeeps ==
    ASSUME IInv, SweepEnds
    PROVE  IInv'
  <1>1. UNCHANGED <<github, row, checks, asked, view, proc>> /\ sweep' = Asleep
    BY DEF SweepEnds
  <1>2. Handing'
    BY <1>1 DEF Handing, Asleep
  <1>3. proc' = [q \in Procs |-> proc'[q]] /\ view' = [u \in Users |-> view'[u]]
    BY <1>1 DEF IInv, Shape
  <1> QED
    BY <1>1, <1>2, <1>3, StoppingKeeps

LEMMA RestartKeeps ==
    ASSUME IInv, Restart
    PROVE  IInv'
  <1>1. /\ UNCHANGED <<github, row, checks, asked>> /\ sweep' = Asleep
        /\ proc' = [q \in Procs |-> Idle] /\ view' = [u \in Users |-> NoView]
    BY DEF Restart
  <1>2. Handing'
    BY <1>1 DEF Handing, Asleep
  <1> QED
    BY <1>1, <1>2, StoppingKeeps

----------------------------------------------------------------------------
(* Users.                                                                  *)

LEMMA AskKeeps ==
    ASSUME IInv, NEW u \in Users, NEW p \in PRs, NEW request, Ask(u, p, request),
           request.pc \in {"wait", "switch"}, request.pr = p,
           request.pc = "switch" => request.on \in BOOLEAN
    PROVE  IInv'
  <1>1. /\ row' = TrackedRows({p}) /\ proc' = [proc EXCEPT ![u] = request]
        /\ UNCHANGED <<github, checks, asked, view, sweep>>
    BY DEF Ask
  <1>2. /\ u \in Procs /\ proc'[u] = request
        /\ \A s \in Procs \ {u} : proc'[s] = proc[s]
        /\ proc' = [q \in Procs |-> proc'[q]]
    BY <1>1 DEF Procs, IInv, Shape
  <1>3. \A x \in PRs : Sound(x)'
    BY <1>1, TrackKeeps
  <1>4. Tracked(p)'
    BY <1>1, TrackKeeps
  <1>5. /\ Shape' /\ \A v \in Users : Seen(v)'
        /\ \A s \in Procs \ {u} : Relies(s)'
        /\ Handing'
    BY <1>1, <1>2, TrackingKeeps
  <1>6. Relies(u)'
    BY <1>2, <1>4 DEF Relies, States, Tracked
  <1>7. Exclusive'
    BY <1>2 DEF IInv, Exclusive, Inside
  <1> QED
    BY <1>2, <1>3, <1>5, <1>6, <1>7 DEF IInv

LEMMA GiveUpKeeps ==
    ASSUME IInv, NEW u \in Users, GiveUp(u)
    PROVE  IInv'
  <1>1. UNCHANGED <<github, row, checks, asked, view, sweep>> /\ proc' = [proc EXCEPT ![u] = Idle]
    BY DEF GiveUp
  <1>2. Handing'
    BY <1>1, SweepKept DEF Tracked
  <1>3. /\ proc' = [q \in Procs |-> proc'[q]] /\ view' = [v \in Users |-> view'[v]]
        /\ \A q \in Procs : proc'[q] \in {proc[q], Idle}
    BY <1>1 DEF IInv, Shape
  <1> QED
    BY <1>1, <1>2, <1>3, StoppingKeeps

\* Nobody is inside a refresh of the PR, so nobody will put the old switch back.
LEMMA SwitchKeeps ==
    ASSUME IInv, NEW u \in Users, Switch(u)
    PROVE  IInv'
  <1>1. u \in Procs /\ Relies(u) /\ proc[u].pc = "switch" /\ Shape
    BY DEF Switch, IInv, Procs
  <1>2. PICK p \in PRs, on \in BOOLEAN : p = proc[u].pr /\ on = proc[u].on
    BY <1>1 DEF Relies
  <1>3. Tracked(p) /\ row[p] \in Rows /\ Sound(p)
    BY <1>1, <1>2, TrackedRow DEF Relies, IInv
  <1>4. /\ \A s \in Procs : ~(Inside(s) /\ proc[s].pr = p)
        /\ row' = [row EXCEPT ![p].monitoring = on] /\ asked' = [asked EXCEPT ![p] = on]
        /\ proc' = [proc EXCEPT ![u] = Idle]
        /\ UNCHANGED <<github, checks, view, sweep>>
    BY <1>2 DEF Switch, SwitchTo, Unlocked
  <1>5. PICK new : new = [row[p] EXCEPT !.monitoring = on]
    OBVIOUS
  <1>6. /\ new \in Rows /\ new.monitoring = on
        /\ new.head = row[p].head /\ new.checked = row[p].checked
    BY <1>3, <1>5 DEF Rows
  <1>7. /\ row' = [row EXCEPT ![p] = new]
        /\ row'[p] = new /\ asked'[p] = on
        /\ \A x \in PRs \ {p} : row'[x] = row[x] /\ asked'[x] = asked[x]
    BY <1>1, <1>4, <1>5 DEF Shape
  <1>8. Shape'
    BY <1>1, <1>4, <1>6, <1>7 DEF Shape
  <1>9. \A x \in PRs : Onward(x) /\ AtLeast(checks'[x], checks[x])
    BY <1>1, <1>4, AtLeastOrders DEF Shape, Onward, GitHub, Snaps
  <1>10. Sound(p)' /\ Tracked(p)'
    <2>1. Tracked(p)'
      BY <1>6, <1>7 DEF Tracked, Rows, NoRow
    <2> QED
      BY <1>3, <1>4, <1>6, <1>7, <2>1 DEF Sound
  <1>11. ASSUME NEW x \in PRs PROVE Sound(x)' /\ (Tracked(x)' <=> Tracked(x))
    BY <1>3, <1>4, <1>7, <1>8, <1>9, <1>10, RowKept
  <1>12. proc'[u] = Idle /\ \A s \in Procs \ {u} : proc'[s] = proc[s]
    BY <1>1, <1>4 DEF Shape
  <1>13. ASSUME NEW s \in Procs PROVE Relies(s)'
    <2>1. CASE s = u
      BY <1>12, <2>1 DEF Relies, Idle, States
    <2>2. CASE s # u
      <3>1. Relies(s) /\ (Inside(s) => proc[s].pr # p)
        BY <1>4 DEF IInv
      <3> QED
        BY <1>4, <1>7, <1>8, <1>9, <1>11, <1>12, <2>2, <3>1, ProcKept DEF Relies, Inside
    <2> QED
      BY <2>1, <2>2
  <1>14. Exclusive'
    BY <1>12 DEF IInv, Exclusive, Inside, Idle
  <1>15. Handing'
    BY <1>4, <1>11, SweepKept
  <1>16. \A v \in Users : Seen(v)'
    BY <1>4, <1>8, <1>9, ViewKept
  <1> QED
    BY <1>8, <1>11, <1>13, <1>14, <1>15, <1>16 DEF IInv

\* The row first and the checks, which can only have moved on, after.
LEMMA LookKeeps ==
    ASSUME IInv, NEW u \in Users, Look(u) \/ LookAway(u)
    PROVE  IInv'
  <1>1. UNCHANGED <<github, row, checks, proc, sweep, asked>>
    BY DEF Look, LookAway
  <1>2. Shape /\ Seen(u)
    BY DEF IInv
  <1>3. PICK new : view' = [view EXCEPT ![u] = new] /\ Seen(u)'
    <2>1. CASE LookAway(u)
      <3>1. view' = [view EXCEPT ![u] = NoView]
        BY <2>1 DEF LookAway
      <3>2. view'[u] = NoView
        BY <1>2, <3>1 DEF Shape
      <3>3. Seen(u)'
        BY <3>2 DEF Seen, NoView
      <3> QED
        BY <3>1, <3>3
    <2>2. CASE Look(u) /\ view[u].pc = "none"
      <3>1. PICK p \in PRs : /\ Tracked(p)
                             /\ view' = [view EXCEPT ![u] = [pc |-> "half", pr |-> p, row |-> row[p]]]
        BY <2>2 DEF Look
      <3>2. PICK half : half = [pc |-> "half", pr |-> p, row |-> row[p]] /\ view' = [view EXCEPT ![u] = half]
        BY <3>1
      <3>3. view'[u] = [pc |-> "half", pr |-> p, row |-> row[p]]
        BY <1>2, <3>2 DEF Shape
      <3>4. row[p] \in Rows /\ row[p].checked = checks[p].head
        BY <3>1, TrackedRow DEF IInv, Sound
      <3>5. row[p].checked <= checks[p].head
        BY <1>2, <3>4 DEF Shape, Snaps
      <3>6. Seen(u)'
        BY <1>1, <3>3, <3>4, <3>5 DEF Seen
      <3> QED
        BY <3>2, <3>6
    <2>3. CASE Look(u) /\ view[u].pc = "half"
      <3>1. PICK p \in PRs, seen \in Rows : p = view[u].pr /\ seen = view[u].row /\ seen.checked <= checks[p].head
        BY <1>2, <2>3 DEF Seen
      <3>2. view' = [view EXCEPT ![u] = [pc |-> "full", row |-> seen, checks |-> checks[p]]]
        BY <2>3, <3>1 DEF Look
      <3>3. view'[u] = [pc |-> "full", row |-> seen, checks |-> checks[p]]
        BY <1>2, <3>2 DEF Shape
      <3>4. checks[p] \in Snaps
        BY <1>2 DEF Shape
      <3>5. Seen(u)'
        BY <3>1, <3>3, <3>4 DEF Seen
      <3> QED
        BY <3>2, <3>5
    <2> QED
      BY <2>1, <2>2, <2>3 DEF Look
  <1>4. /\ \A p \in PRs : Sound(p)' /\ (Tracked(p)' <=> Tracked(p)) /\ Onward(p)
        /\ \A p \in PRs : AtLeast(checks'[p], checks[p])
    BY <1>1, TablesKept
  <1>5. Shape' /\ \A v \in Users \ {u} : view'[v] = view[v]
    BY <1>1, <1>2, <1>3 DEF Shape
  <1>6. \A v \in Users : Seen(v)'
    BY <1>3, <1>4, <1>5, ViewKept
  <1>7. ASSUME NEW q \in Procs PROVE Relies(q)'
    <2>1. Relies(q)
      BY DEF IInv
    <2> QED
      BY <1>1, <1>4, <1>5, <2>1, ProcKept DEF Relies, Inside
  <1>8. Exclusive' /\ Handing'
    BY <1>1, <1>4, SweepKept DEF IInv, Exclusive, Inside
  <1> QED
    BY <1>4, <1>5, <1>6, <1>7, <1>8 DEF IInv

----------------------------------------------------------------------------
(* The theorems.                                                           *)

LEMMA Inductive == IInv /\ [Next]_vars => IInv'
  <1> SUFFICES ASSUME IInv, [Next]_vars
               PROVE  IInv'
    OBVIOUS
  <1>1. CASE GitHubChanges
    BY <1>1, GitHubKeeps
  <1>2. ASSUME NEW q \in Procs, Refreshing(q) PROVE IInv'
    BY <1>2, EnterKeeps, ReadMetadataKeeps, CollectKeeps, RecheckKeeps, SaveKeeps DEF Refreshing
  <1>3. ASSUME NEW q \in Procs, Failing(q) PROVE IInv'
    BY <1>3, FailingKeeps, SaveFailsKeeps DEF Failing
  <1>4. ASSUME NEW q \in Procs, HandOut(q) PROVE IInv'
    BY <1>4, HandOutKeeps
  <1>5. CASE Discover \/ DiscoverFails
    BY <1>5, SweepKeeps DEF Discover, DiscoverFails
  <1>6. CASE Cut \/ SweepEnds
    BY <1>6, CutKeeps, SweepEndsKeeps
  <1>7. ASSUME NEW u \in Users, NEW p \in PRs, AskRefresh(u, p) PROVE IInv'
    BY <1>7, AskKeeps DEF AskRefresh
  <1>8. ASSUME NEW u \in Users, NEW p \in PRs, NEW on \in BOOLEAN, AskSwitch(u, p, on) PROVE IInv'
    <2>1. PICK request : request = [pc |-> "switch", pr |-> p, on |-> on]
      OBVIOUS
    <2>2. Ask(u, p, request)
      BY <1>8, <2>1 DEF AskSwitch
    <2>3. request.pc = "switch" /\ request.pr = p /\ request.on \in BOOLEAN
      BY <2>1
    <2> QED
      BY <2>2, <2>3, AskKeeps
  <1>9. ASSUME NEW u \in Users, GiveUp(u) \/ Switch(u) \/ Look(u) \/ LookAway(u) PROVE IInv'
    BY <1>9, GiveUpKeeps, SwitchKeeps, LookKeeps
  <1>10. CASE Restart
    BY <1>10, RestartKeeps
  <1>11. CASE UNCHANGED vars
    <2>1. /\ UNCHANGED <<github, row, checks, asked, proc, view, sweep>>
          /\ proc' = [q \in Procs |-> proc'[q]] /\ view' = [u \in Users |-> view'[u]]
      BY <1>11 DEF vars, IInv, Shape
    <2>2. Handing'
      BY <2>1, SweepKept DEF Tracked
    <2> QED
      BY <2>1, <2>2, StoppingKeeps
  <1> QED
    BY <1>1, <1>2, <1>3, <1>4, <1>5, <1>6, <1>7, <1>8, <1>9, <1>10, <1>11 DEF Next

\* Every reachable state satisfies the inductive invariant: whoever is inside a
\* refresh of a PR is alone there, and what it read and found is still newer than
\* what is saved.
THEOREM InvariantHolds == Spec => []IInv
  <1>1. Init => IInv
    BY Initial
  <1>2. IInv /\ [Next]_vars => IInv'
    BY Inductive
  <1> QED
    BY <1>1, <1>2, PTL DEF Spec

\* SetMonitoring's switch survives every refresh that read the row before it was
\* set, since both hold the PR's lock from their reading to their saving.
THEOREM SwitchKeptHolds == Spec => []SwitchKept
  <1>1. IInv => SwitchKept
    BY Implied
  <1> QED
    BY <1>1, InvariantHolds, PTL

\* The checks that are saved were collected while the head the row names as
\* checked was still the head, because collectRemoteSnapshot reads it twice.
THEOREM SnapshotOfOneMomentHolds == Spec => []SnapshotOfOneMoment
  <1>1. IInv => SnapshotOfOneMoment
    BY Implied
  <1> QED
    BY <1>1, InvariantHolds, PTL

\* A detail is assembled of a row and of checks that are read after it, and the
\* checks only move on: one that is not marked stale shows none of an older head.
THEOREM ViewNotOlderHolds == Spec => []ViewNotOlder
  <1>1. IInv => ViewNotOlder
    BY Implied
  <1> QED
    BY <1>1, InvariantHolds, PTL

\* No step takes a PR's head or its checks back.
LEMMA StepOnward ==
    ASSUME IInv, [Next]_vars, NEW p \in PRs
    PROVE  Forward(p)
  <1> USE DEF Forward
  <1>1. Shape /\ checks[p] \in Snaps /\ (Tracked(p) => row[p].head \in Nat)
    BY TrackedRow DEF IInv, Shape, Rows
  <1>2. CASE row'[p] = row[p] /\ checks' = checks
    BY <1>1, <1>2, AtLeastOrders DEF Snaps
  <1>3. ASSUME NEW q \in Procs, Save(q)
        PROVE  Forward(p)
    <2>1. /\ AtLeast(checks'[p], checks[p]) /\ (Tracked(p) => row[p].head <= row'[p].head)
          /\ Shape' /\ (Tracked(p)' <=> Tracked(p))
      BY <1>3, SaveMoves
    <2>2. Tracked(p) => row'[p].head \in Nat
      BY <2>1 DEF Shape, Tracked, Rows
    <2> QED
      BY <1>1, <2>1, <2>2
  <1>4. ASSUME NEW q \in Procs, Enter(q) \/ ReadMetadata(q) \/ Collect(q) \/ Recheck(q) \/ Failing(q) \/ HandOut(q)
        PROVE  UNCHANGED <<row, checks>>
    BY <1>4 DEF Enter, ReadMetadata, Collect, Recheck, Failing, MetadataFails, CollectFails, SaveFails, HandOut
  <1>5. CASE GitHubChanges \/ Cut \/ SweepEnds \/ Restart \/ UNCHANGED vars
    <2>1. UNCHANGED <<row, checks>>
      BY <1>5 DEF GitHubChanges, monitor, Cut, SweepEnds, Restart, vars
    <2> QED
      BY <1>2, <2>1
  <1>6. ASSUME NEW ps, row' = TrackedRows(ps), checks' = checks
        PROVE  Forward(p)
    <2>1. Tracked(p) => row'[p] = row[p]
      BY <1>6 DEF TrackedRows
    <2>2. AtLeast(checks'[p], checks[p])
      BY <1>1, <1>6, AtLeastOrders DEF Snaps
    <2> QED
      BY <1>1, <2>1, <2>2
  <1>7. CASE Discover \/ DiscoverFails
    BY <1>6, <1>7 DEF Discover, DiscoverFails, SweepWith
  <1>8. ASSUME NEW u \in Users, NEW x \in PRs, AskRefresh(u, x) \/ \E on \in BOOLEAN : AskSwitch(u, x, on)
        PROVE  row' = TrackedRows({x}) /\ checks' = checks
    BY <1>8 DEF AskRefresh, AskSwitch, Ask
  <1>9. ASSUME NEW u \in Users, GiveUp(u) \/ Look(u) \/ LookAway(u)
        PROVE  UNCHANGED <<row, checks>>
    BY <1>9 DEF GiveUp, Look, LookAway
  <1>10. ASSUME NEW u \in Users, Switch(u)
         PROVE  checks' = checks /\ (Tracked(p) => row'[p].head = row[p].head)
    <2>1. PICK x, on : row' = [row EXCEPT ![x].monitoring = on] /\ checks' = checks
      BY <1>10 DEF Switch, SwitchTo
    <2>2. CASE x = p /\ Tracked(p)
      <3>1. row'[p] = [row[p] EXCEPT !.monitoring = on]
        BY <1>1, <2>1, <2>2 DEF Shape
      <3>2. row[p] \in Rows
        BY <1>1, <2>2, TrackedRow
      <3> QED
        BY <2>1, <3>1, <3>2 DEF Rows
    <2>3. CASE ~(x = p /\ Tracked(p))
      BY <1>1, <2>1, <2>3 DEF Shape
    <2> QED
      BY <2>2, <2>3
  <1>11. ASSUME NEW u \in Users, Switch(u)
         PROVE  Forward(p)
    BY <1>1, <1>10, <1>11, AtLeastOrders DEF Snaps
  <1> QED
    BY <1>2, <1>3, <1>4, <1>5, <1>6, <1>7, <1>8, <1>9, <1>11 DEF Next, Refreshing

\* Of two refreshes the one that looked first never overwrites what the other one
\* saved: the lock is held from reading the row to saving it.
THEOREM NeverRegressesHolds == Spec => NeverRegresses
  <1>1. IInv /\ [Next]_vars => [\A p \in PRs : Forward(p)]_vars
    BY StepOnward
  <1> QED
    BY <1>1, InvariantHolds, PTL DEF Spec, NeverRegresses

----------------------------------------------------------------------------
(* PRChecks: what a collection means.                                       *)

----------------------------------------------------------------------------
(* The inductive invariant: what is on GitHub. *)

Buckets == Results \cup {"pending"}

Runs     == [id: Nat \ {0}, workflow: Workflows, sha: Shas, at: Shas, bucket: Buckets]
JobsRun  == [id: Nat, run: Nat, name: Jobs, sha: Shas, bucket: Buckets]
Reports  == [id: Nat, name: Contexts, sha: Shas, bucket: Buckets]

ChecksShape ==
    /\ runs \subseteq Runs /\ IsFiniteSet(runs)
    /\ jobs \subseteq JobsRun /\ IsFiniteSet(jobs)
    /\ statuses \subseteq Reports /\ IsFiniteSet(statuses)
    /\ merge \in BOOLEAN

\* An id is one thing's.
Named(things) == \A x, y \in things : x.id = y.id => x = y

\* An id that is handed out next is nobody's.
Fresh ==
    /\ \A r \in runs : r.id <= Cardinality(runs)
    /\ \A j \in jobs : j.id <= LastId
    /\ \A s \in statuses : s.id <= LastId

\* A job is of an execution, and on the commit that one reports on.
Owned == \A j \in jobs : \E r \in runs : r.id = j.run /\ j.sha = r.at

\* Nothing runs on a test-merge commit that is not there.
Placed == \A r \in runs : /\ r.at = r.sha \/ r.at = "merge"
                          /\ r.at = "merge" => merge

Ended == \A r \in runs, j \in jobs : (j.run = r.id /\ r.bucket # "pending") => j.bucket # "pending"

GitHubInv ==
    /\ ChecksShape
    /\ Named(runs) /\ Named(jobs) /\ Named(statuses)
    /\ Fresh /\ Owned /\ Placed /\ Ended

(* And what Fetch has of it. *)

Collections ==
    [step: {"idle", "runs", "jobs", "statuses", "metadata", "done", "failed"},
     sha: Shas, merge: BOOLEAN, runs: SUBSET Runs, jobs: SUBSET JobsRun, statuses: SUBSET Reports]

ListsShape ==
    /\ collect \in Collections
    /\ since \in [run: Nat, id: Nat, events: Nat]
    /\ since.run <= Cardinality(runs) /\ since.id <= LastId
    /\ collect.sha = "merge" => collect.merge
    /\ collect.merge => merge
    /\ Done => collect.merge = merge
    /\ collect.step \in {"idle", "metadata", "done", "failed"} => collect.sha = "head"

\* The commits a collection has listed the executions of, and the jobs of.
RunsListed(c, sha) ==
    \/ c.step = "runs" /\ c.sha = "merge" /\ sha = "head"
    \/ c.step \in {"jobs", "statuses", "metadata", "done"} /\ (sha = "head" \/ c.merge)

JobsListed(c, sha) ==
    \/ c.step = "statuses" /\ c.sha = sha
    \/ c.step \in {"jobs", "statuses"} /\ c.sha = "merge" /\ sha = "head"
    \/ c.step \in {"metadata", "done"} /\ (sha = "head" \/ c.merge)

SameRun(r, q) == r.id = q.id /\ r.workflow = q.workflow /\ r.sha = q.sha /\ r.at = q.at
SameJob(j, k) == j.id = k.id /\ j.run = k.run /\ j.name = k.name /\ j.sha = k.sha

\* Everything listed is still there; what has stood since the collection began, as
\* it was listed; and a job can only have ended since.
Listed ==
    /\ \A r \in collect.runs : \E q \in runs : SameRun(r, q) /\ (q \in steady.runs => q = r)
    /\ \A j \in collect.jobs : \E k \in jobs :
          /\ SameJob(j, k)
          /\ j.bucket = k.bucket \/ (j.bucket = "pending" /\ k \notin steady.jobs)
    /\ collect.statuses \subseteq statuses
    /\ Named(collect.runs) /\ Named(collect.jobs)

\* Nothing but what is listed is there, ...
OnlyListed ==
    collect.step # "failed" =>
        /\ \A r \in collect.runs : RunsListed(collect, r.sha)
        /\ \A j \in collect.jobs : JobsListed(collect, j.sha)

\* ... and everything that was there when the collection began is listed.
Complete ==
    /\ \A r \in runs : (r.id <= since.run /\ RunsListed(collect, r.sha)) => \E q \in collect.runs : q.id = r.id
    /\ \A j \in jobs : (j.id <= since.id /\ JobsListed(collect, j.sha)) => \E k \in collect.jobs : k.id = j.id

\* What has stood since the collection began was there then, and an execution that
\* had ended then and was not run again has no other jobs now.
Standing ==
    /\ \A r \in steady.runs : r \in runs /\ r.id <= since.run
    /\ \A j \in steady.jobs : j \in jobs /\ j.id <= since.id
    /\ \A j \in jobs : j.id <= since.id => j.run <= since.run
    /\ \A r \in steady.runs, j \in jobs : (j.run = r.id /\ r.bucket # "pending") => j \in steady.jobs

ListsInv == ListsShape /\ Listed /\ OnlyListed /\ Complete /\ Standing

ChecksInv == GitHubInv /\ ListsInv

----------------------------------------------------------------------------
(* What happens on GitHub keeps it. *)

LEMMA Counted ==
    ChecksShape => /\ Cardinality(runs) \in Nat /\ Cardinality(jobs) \in Nat
                   /\ Cardinality(statuses) \in Nat
                   /\ LastId \in Nat /\ LastId = Cardinality(jobs) + Cardinality(statuses)
  BY FS_CardinalityType DEF ChecksShape, LastId

\* Something new, and something that has changed.
LEMMA Added ==
    ASSUME NEW S, IsFiniteSet(S), NEW x, x \notin S
    PROVE  IsFiniteSet(S \cup {x}) /\ Cardinality(S \cup {x}) = Cardinality(S) + 1
  BY FS_AddElement

LEMMA Changed ==
    ASSUME NEW S, IsFiniteSet(S), Named(S), NEW x \in S, NEW y, y.id = x.id
    PROVE  /\ IsFiniteSet((S \ {x}) \cup {y})
           /\ Cardinality((S \ {x}) \cup {y}) = Cardinality(S)
           /\ Named((S \ {x}) \cup {y})
<1> DEFINE R == S \ {x}
<1>1. IsFiniteSet(R) /\ Cardinality(R) = Cardinality(S) - 1
  BY FS_RemoveElement
<1>2. y \notin R
  BY DEF Named
<1>3. Cardinality(S) \in Nat
  BY FS_CardinalityType
<1>4. Named(R \cup {y})
  BY DEF Named
<1> HIDE DEF R
<1>5. IsFiniteSet(R \cup {y}) /\ Cardinality(R \cup {y}) = Cardinality(R) + 1
  BY <1>1, <1>2, FS_AddElement
<1>6. Cardinality(R \cup {y}) = Cardinality(S)
  BY <1>1, <1>3, <1>5
<1> QED
  BY <1>4, <1>5, <1>6 DEF R

\* What an event leaves of the collection and of what has stood.
LEMMA EventIs ==
    ASSUME ListsShape, NEW gone, Event(gone)
    PROVE  /\ UNCHANGED collect /\ ~Done
           /\ since' \in [run: Nat, id: Nat, events: Nat]
           /\ since'.run = since.run /\ since'.id = since.id
           /\ steady'.runs = steady.runs \ gone /\ steady'.jobs = steady.jobs \ gone
  BY DEF Event, Done, ListsShape

\* The lists still fit when executions and jobs have been added, or have changed
\* without having stood.
LEMMA ListsStillFit ==
    ASSUME ChecksInv, NEW gone, Event(gone), ChecksShape',
           merge => merge', statuses \subseteq statuses',
           Cardinality(runs) <= Cardinality(runs)', LastId <= LastId',
           \A q \in runs : \E p \in runs' : SameRun(p, q) /\ (p = q \/ p \notin steady.runs \ gone),
           \A k \in jobs : \E m \in jobs' : SameJob(m, k) /\ (m = k \/ (k.bucket = "pending" /\ m \notin steady.jobs \ gone)),
           \A p \in runs' : p.id <= since.run => \E q \in runs : SameRun(p, q),
           \A m \in jobs' : m.id <= since.id => \E k \in jobs : SameJob(m, k),
           \A r \in steady.runs \ gone : r \in runs',
           \A j \in steady.jobs \ gone : j \in jobs',
           \A r \in steady.runs \ gone, j \in jobs' :
               (j.run = r.id /\ r.bucket # "pending") => j \in steady.jobs \ gone
    PROVE  ListsInv'
<1>0. /\ UNCHANGED collect /\ ~Done
      /\ since' \in [run: Nat, id: Nat, events: Nat]
      /\ since'.run = since.run /\ since'.id = since.id
      /\ steady'.runs = steady.runs \ gone /\ steady'.jobs = steady.jobs \ gone
  BY EventIs DEF ChecksInv, ListsInv
<1>c. /\ Cardinality(runs) \in Nat /\ LastId \in Nat
      /\ Cardinality(runs)' \in Nat /\ LastId' \in Nat
  <2>1. Cardinality(runs) \in Nat /\ LastId \in Nat
    BY Counted DEF ChecksInv, GitHubInv
  <2>2. Cardinality(runs)' \in Nat /\ LastId' \in Nat
    BY FS_CardinalityType DEF ChecksShape, LastId
  <2> QED
    BY <2>1, <2>2
<1>1. ListsShape'
  <2>1. since.run \in Nat /\ since.id \in Nat /\ since.run <= Cardinality(runs) /\ since.id <= LastId
    BY DEF ChecksInv, ListsInv, ListsShape
  <2>2. since'.run <= Cardinality(runs)' /\ since'.id <= LastId'
    BY <1>0, <1>c, <2>1
  <2> QED
    BY <1>0, <2>2 DEF ChecksInv, ListsInv, ListsShape, Done
<1>2. Listed'
  <2>1. ASSUME NEW r \in collect.runs PROVE \E p \in runs' : SameRun(r, p) /\ (p \in steady'.runs => p = r)
    <3>1. PICK q \in runs : SameRun(r, q) /\ (q \in steady.runs => q = r)
      BY DEF ChecksInv, ListsInv, Listed
    <3>2. PICK p \in runs' : SameRun(p, q) /\ (p = q \/ p \notin steady.runs \ gone)
      OBVIOUS
    <3>3. SameRun(r, p)
      BY <3>1, <3>2 DEF SameRun
    <3> QED
      BY <1>0, <3>1, <3>2, <3>3
  <2>2. ASSUME NEW j \in collect.jobs
        PROVE  \E m \in jobs' : SameJob(j, m) /\ (j.bucket = m.bucket \/ (j.bucket = "pending" /\ m \notin steady'.jobs))
    <3>1. PICK k \in jobs : SameJob(j, k) /\ (j.bucket = k.bucket \/ (j.bucket = "pending" /\ k \notin steady.jobs))
      BY DEF ChecksInv, ListsInv, Listed
    <3>2. PICK m \in jobs' : SameJob(m, k) /\ (m = k \/ (k.bucket = "pending" /\ m \notin steady.jobs \ gone))
      OBVIOUS
    <3>3. SameJob(j, m)
      BY <3>1, <3>2 DEF SameJob
    <3> QED
      BY <1>0, <3>1, <3>2, <3>3
  <2> QED
    BY <1>0, <2>1, <2>2 DEF ChecksInv, ListsInv, Listed, Named
<1>3. OnlyListed'
  BY <1>0 DEF ChecksInv, ListsInv, OnlyListed, RunsListed, JobsListed
<1>4. Complete'
  <2>1. ASSUME NEW p \in runs', p.id <= since.run, RunsListed(collect, p.sha) PROVE \E q \in collect.runs : q.id = p.id
    <3>1. PICK q \in runs : SameRun(p, q)
      BY <2>1
    <3> QED
      BY <2>1, <3>1 DEF ChecksInv, ListsInv, Complete, SameRun
  <2>2. ASSUME NEW m \in jobs', m.id <= since.id, JobsListed(collect, m.sha) PROVE \E k \in collect.jobs : k.id = m.id
    <3>1. PICK k \in jobs : SameJob(m, k)
      BY <2>2
    <3> QED
      BY <2>2, <3>1 DEF ChecksInv, ListsInv, Complete, SameJob
  <2> QED
    BY <1>0, <2>1, <2>2 DEF Complete, RunsListed, JobsListed
<1>5. Standing'
  <2>1. \A m \in jobs' : m.id <= since.id => m.run <= since.run
    BY DEF ChecksInv, ListsInv, Standing, SameJob
  <2> QED
    BY <1>0, <2>1 DEF ChecksInv, ListsInv, Standing
<1> QED
  BY <1>1, <1>2, <1>3, <1>4, <1>5 DEF ListsInv

LEMMA StartRunKeeps ==
    ASSUME ChecksInv, NEW w \in Workflows, NEW sha \in Shas, NEW at \in Shas, StartRun(w, sha, at)
    PROVE  ChecksInv'
<1> DEFINE r == [id |-> Cardinality(runs) + 1, workflow |-> w, sha |-> sha, at |-> at, bucket |-> "pending"]
<1>0. ChecksShape /\ Cardinality(runs) \in Nat /\ LastId \in Nat /\ Event({})
  BY Counted DEF ChecksInv, GitHubInv, StartRun
<1>1. /\ runs' = runs \cup {r} /\ UNCHANGED <<jobs, statuses, merge>>
      /\ at = sha \/ at = "merge"
      /\ at = "merge" => merge
  BY DEF StartRun
<1>2. r \in Runs /\ r.id = Cardinality(runs) + 1 /\ r.sha = sha /\ r.at = at /\ r.bucket = "pending"
  BY <1>0 DEF Runs, Buckets
<1> HIDE DEF r
<1>3. r \notin runs /\ \A q \in runs : q.id \in Nat /\ q.id < r.id
  BY <1>0, <1>2 DEF ChecksInv, GitHubInv, Fresh, ChecksShape, Runs
<1>4. IsFiniteSet(runs') /\ Cardinality(runs') = Cardinality(runs) + 1
  BY <1>0, <1>1, <1>3, Added DEF ChecksShape
<1>5. ChecksShape' /\ LastId' = LastId
  BY <1>0, <1>1, <1>2, <1>4 DEF ChecksShape, LastId
<1>6. Named(runs)' /\ Named(jobs)' /\ Named(statuses)'
  BY <1>0, <1>1, <1>2, <1>3 DEF ChecksInv, GitHubInv, Named, Runs
<1>7. Fresh'
  BY <1>0, <1>1, <1>2, <1>3, <1>4, <1>5 DEF ChecksInv, GitHubInv, Fresh
<1>8. Owned' /\ Placed' /\ Ended'
  BY <1>1, <1>2 DEF ChecksInv, GitHubInv, Owned, Placed, Ended
<1>9. ListsInv'
  <2>1. \A x : SameRun(x, x) /\ SameJob(x, x)
    BY DEF SameRun, SameJob
  <2>2. since.run \in Nat /\ since.run < r.id
    BY <1>0, <1>2 DEF ChecksInv, ListsInv, ListsShape
  <2>3. \A p \in runs' : p.id <= since.run => p \in runs
    BY <1>1, <2>2, <1>0, <1>2
  <2>4. Cardinality(runs) <= Cardinality(runs)' /\ LastId <= LastId'
    BY <1>0, <1>4, <1>5
  <2>5. /\ \A q \in steady.runs : q \in runs'
        /\ \A j \in steady.jobs : j \in jobs'
        /\ \A q \in steady.runs, j \in jobs' : (j.run = q.id /\ q.bucket # "pending") => j \in steady.jobs
    BY <1>1 DEF ChecksInv, ListsInv, Standing
  <2>6. \A q \in runs : \E p \in runs' : SameRun(p, q) /\ p = q
    BY <1>1, <2>1
  <2>7. \A k \in jobs : \E m \in jobs' : SameJob(m, k) /\ m = k
    BY <1>1, <2>1
  <2>8. \A p \in runs' : p.id <= since.run => \E q \in runs : SameRun(p, q)
    BY <2>1, <2>3
  <2>9. \A m \in jobs' : m.id <= since.id => \E k \in jobs : SameJob(m, k)
    BY <1>1, <2>1
  <2> QED
    BY <1>0, <1>1, <1>5, <2>4, <2>5, <2>6, <2>7, <2>8, <2>9, ListsStillFit
<1> QED
  BY <1>5, <1>6, <1>7, <1>8, <1>9 DEF ChecksInv, GitHubInv

LEMMA QueueJobKeeps ==
    ASSUME ChecksInv, NEW r \in runs, NEW n \in Jobs, QueueJob(r, n)
    PROVE  ChecksInv'
<1> DEFINE j == [id |-> LastId + 1, run |-> r.id, name |-> n, sha |-> r.at, bucket |-> "pending"]
<1>0. /\ ChecksShape /\ Cardinality(runs) \in Nat /\ Cardinality(jobs) \in Nat /\ Cardinality(statuses) \in Nat
      /\ LastId = Cardinality(jobs) + Cardinality(statuses) /\ LastId \in Nat
      /\ r \in Runs /\ Event({}) /\ r.bucket = "pending"
  BY Counted DEF ChecksInv, GitHubInv, ChecksShape, QueueJob
<1>1. jobs' = jobs \cup {j} /\ UNCHANGED <<runs, statuses, merge>>
  BY DEF QueueJob
<1>2. j \in JobsRun /\ j.id = LastId + 1 /\ j.run = r.id /\ j.sha = r.at /\ j.bucket = "pending"
  BY <1>0 DEF Runs, JobsRun, Buckets
<1> HIDE DEF j
<1>3. j \notin jobs /\ \A k \in jobs : k.id \in Nat /\ k.id < j.id
  BY <1>0, <1>2 DEF ChecksInv, GitHubInv, Fresh, ChecksShape, JobsRun
<1>4. IsFiniteSet(jobs') /\ Cardinality(jobs') = Cardinality(jobs) + 1
  BY <1>0, <1>1, <1>3, Added DEF ChecksShape
<1>5. ChecksShape' /\ LastId' = LastId + 1
  BY <1>0, <1>1, <1>2, <1>4 DEF ChecksShape, LastId
<1>6. Named(runs)' /\ Named(jobs)' /\ Named(statuses)'
  BY <1>0, <1>1, <1>2, <1>3 DEF ChecksInv, GitHubInv, Named
<1>7. Fresh'
  <2>1. \A s \in statuses : s.id \in Nat
    BY <1>0 DEF ChecksShape, Reports
  <2> QED
    BY <1>0, <1>1, <1>2, <1>3, <1>5, <2>1 DEF ChecksInv, GitHubInv, Fresh
<1>8. Owned' /\ Placed'
  BY <1>1, <1>2 DEF ChecksInv, GitHubInv, Owned, Placed
<1>9. Ended'
  <2>1. \A q \in runs : q.id = r.id => q.bucket = "pending"
    BY <1>0 DEF ChecksInv, GitHubInv, Named
  <2> QED
    BY <1>1, <1>2, <2>1 DEF ChecksInv, GitHubInv, Ended
<1>10. ListsInv'
  <2>1. \A x : SameRun(x, x) /\ SameJob(x, x)
    BY DEF SameRun, SameJob
  <2>2. since.id \in Nat /\ since.id < j.id
    BY <1>0, <1>2 DEF ChecksInv, ListsInv, ListsShape
  <2>3. \A m \in jobs' : m.id <= since.id => m \in jobs
    BY <1>1, <2>2, <1>0, <1>2
  <2>4. Cardinality(runs) <= Cardinality(runs)' /\ LastId <= LastId'
    BY <1>0, <1>1, <1>5
  <2>5. \A q \in steady.runs : q.id = r.id => q.bucket = "pending"
    BY <1>0 DEF ChecksInv, GitHubInv, ListsInv, Standing, Named
  <2>6. /\ \A q \in steady.runs : q \in runs'
        /\ \A k \in steady.jobs : k \in jobs'
        /\ \A q \in steady.runs, k \in jobs' : (k.run = q.id /\ q.bucket # "pending") => k \in steady.jobs
    BY <1>1, <1>2, <2>5 DEF ChecksInv, ListsInv, Standing
  <2>7. \A q \in runs : \E p \in runs' : SameRun(p, q) /\ p = q
    BY <1>1, <2>1
  <2>8. \A k \in jobs : \E m \in jobs' : SameJob(m, k) /\ m = k
    BY <1>1, <2>1
  <2>9. \A p \in runs' : p.id <= since.run => \E q \in runs : SameRun(p, q)
    BY <1>1, <2>1
  <2>10. \A m \in jobs' : m.id <= since.id => \E k \in jobs : SameJob(m, k)
    BY <2>1, <2>3
  <2> QED
    BY <1>0, <1>1, <1>5, <2>4, <2>6, <2>7, <2>8, <2>9, <2>10, ListsStillFit
<1> QED
  BY <1>5, <1>6, <1>7, <1>8, <1>9, <1>10 DEF ChecksInv, GitHubInv

LEMMA ReportKeeps ==
    ASSUME ChecksInv, NEW c \in Contexts, NEW sha \in Shas, NEW b \in Buckets, Report(c, sha, b)
    PROVE  ChecksInv'
<1> DEFINE s == [id |-> LastId + 1, name |-> c, sha |-> sha, bucket |-> b]
<1>0. /\ ChecksShape /\ Cardinality(runs) \in Nat /\ Cardinality(jobs) \in Nat /\ Cardinality(statuses) \in Nat
      /\ LastId = Cardinality(jobs) + Cardinality(statuses) /\ LastId \in Nat /\ Event({})
  BY Counted DEF ChecksInv, GitHubInv, Report
<1>1. statuses' = statuses \cup {s} /\ UNCHANGED <<runs, jobs, merge>>
  BY DEF Report
<1>2. s \in Reports /\ s.id = LastId + 1
  BY <1>0 DEF Reports
<1> HIDE DEF s
<1>3. s \notin statuses /\ \A t \in statuses : t.id \in Nat /\ t.id < s.id
  BY <1>0, <1>2 DEF ChecksInv, GitHubInv, Fresh, ChecksShape, Reports
<1>4. IsFiniteSet(statuses') /\ Cardinality(statuses') = Cardinality(statuses) + 1
  BY <1>0, <1>1, <1>3, Added DEF ChecksShape
<1>5. ChecksShape' /\ LastId' = LastId + 1
  BY <1>0, <1>1, <1>2, <1>4 DEF ChecksShape, LastId
<1>6. Named(runs)' /\ Named(jobs)' /\ Named(statuses)'
  BY <1>0, <1>1, <1>2, <1>3 DEF ChecksInv, GitHubInv, Named
<1>7. Fresh'
  <2>1. \A j \in jobs : j.id \in Nat
    BY <1>0 DEF ChecksShape, JobsRun
  <2> QED
    BY <1>0, <1>1, <1>2, <1>3, <1>5, <2>1 DEF ChecksInv, GitHubInv, Fresh
<1>8. Owned' /\ Placed' /\ Ended'
  BY <1>1 DEF ChecksInv, GitHubInv, Owned, Placed, Ended
<1>9. ListsInv'
  <2>1. \A x : SameRun(x, x) /\ SameJob(x, x)
    BY DEF SameRun, SameJob
  <2>2. Cardinality(runs) <= Cardinality(runs)' /\ LastId <= LastId' /\ statuses \subseteq statuses'
    BY <1>0, <1>1, <1>5
  <2>3. /\ \A q \in steady.runs : q \in runs'
        /\ \A k \in steady.jobs : k \in jobs'
        /\ \A q \in steady.runs, k \in jobs' : (k.run = q.id /\ q.bucket # "pending") => k \in steady.jobs
    BY <1>1 DEF ChecksInv, ListsInv, Standing
  <2>4. \A q \in runs : \E p \in runs' : SameRun(p, q) /\ p = q
    BY <1>1, <2>1
  <2>5. \A k \in jobs : \E m \in jobs' : SameJob(m, k) /\ m = k
    BY <1>1, <2>1
  <2>6. \A p \in runs' : p.id <= since.run => \E q \in runs : SameRun(p, q)
    BY <1>1, <2>1
  <2>7. \A m \in jobs' : m.id <= since.id => \E k \in jobs : SameJob(m, k)
    BY <1>1, <2>1
  <2> QED
    BY <1>0, <1>1, <1>5, <2>2, <2>3, <2>4, <2>5, <2>6, <2>7, ListsStillFit
<1> QED
  BY <1>5, <1>6, <1>7, <1>8, <1>9 DEF ChecksInv, GitHubInv

LEMMA FinishJobKeeps ==
    ASSUME ChecksInv, NEW j \in jobs, NEW b \in Results, FinishJob(j, b)
    PROVE  ChecksInv'
<1> DEFINE k == [j EXCEPT !.bucket = b]
<1>0. ChecksShape /\ j \in JobsRun /\ Event({j}) /\ j.bucket = "pending" /\ LastId \in Nat /\ Cardinality(runs) \in Nat
  BY Counted DEF ChecksInv, GitHubInv, ChecksShape, FinishJob
<1>1. jobs' = (jobs \ {j}) \cup {k} /\ UNCHANGED <<runs, statuses, merge>>
  BY DEF FinishJob
<1>2. k \in JobsRun /\ SameJob(k, j) /\ k.bucket = b /\ b # "pending"
  BY <1>0, ResultsAssumption DEF JobsRun, Buckets, SameJob
<1> HIDE DEF k
<1>3. IsFiniteSet(jobs') /\ Cardinality(jobs') = Cardinality(jobs) /\ Named(jobs')
  BY <1>0, <1>1, <1>2, Changed DEF ChecksInv, GitHubInv, ChecksShape, SameJob
<1>4. ChecksShape' /\ LastId' = LastId
  BY <1>0, <1>1, <1>2, <1>3 DEF ChecksShape, LastId
<1>5. Fresh' /\ Owned' /\ Placed' /\ Ended'
  BY <1>1, <1>2, <1>4 DEF ChecksInv, GitHubInv, Fresh, Owned, Placed, Ended, SameJob
<1>6. ListsInv'
  <2>1. \A x : SameRun(x, x) /\ SameJob(x, x)
    BY DEF SameRun, SameJob
  <2>2. Cardinality(runs) <= Cardinality(runs)' /\ LastId <= LastId'
    BY <1>0, <1>1, <1>4
  <2>3. k \notin steady.jobs
    <3>1. k \in jobs => k = j
      BY <1>2 DEF ChecksInv, GitHubInv, Named, SameJob
    <3> QED
      BY <1>0, <1>2, <3>1 DEF ChecksInv, ListsInv, Standing
  <2>4. \A q \in steady.runs : q.id = j.run => q.bucket = "pending"
    BY <1>0 DEF ChecksInv, GitHubInv, ListsInv, Standing, Ended
  <2>5. /\ \A q \in steady.runs \ {j} : q \in runs'
        /\ \A m \in steady.jobs \ {j} : m \in jobs'
    BY <1>1 DEF ChecksInv, ListsInv, Standing
  <2>6. \A q \in steady.runs \ {j}, m \in jobs' : (m.run = q.id /\ q.bucket # "pending") => m \in steady.jobs \ {j}
    <3> SUFFICES ASSUME NEW q \in steady.runs, NEW m \in jobs', m.run = q.id, q.bucket # "pending"
                 PROVE  m \in steady.jobs \ {j}
      OBVIOUS
    <3>1. m # j /\ m # k
      BY <2>4 , <1>2 DEF SameJob
    <3> QED
      BY <1>1, <3>1 DEF ChecksInv, ListsInv, Standing
  <2>7. \A q \in runs : \E p \in runs' : SameRun(p, q) /\ p = q
    BY <1>1, <2>1
  <2>8. \A x \in jobs : \E m \in jobs' : SameJob(m, x) /\ (m = x \/ (x.bucket = "pending" /\ m \notin steady.jobs \ {j}))
    BY <1>0, <1>1, <1>2, <2>1, <2>3
  <2>9. \A p \in runs' : p.id <= since.run => \E q \in runs : SameRun(p, q)
    BY <1>1, <2>1
  <2>10. \A m \in jobs' : m.id <= since.id => \E x \in jobs : SameJob(m, x)
    BY <1>1, <1>2, <2>1
  <2> QED
    BY <1>0, <1>1, <1>4, <2>2, <2>5, <2>6, <2>7, <2>8, <2>9, <2>10, ListsStillFit
<1> QED
  BY <1>1, <1>3, <1>4, <1>5, <1>6 DEF ChecksInv, GitHubInv

\* An execution ends, or is run again.
LEMMA ChangedRunKeeps ==
    ASSUME ChecksInv, NEW r \in runs, NEW q \in Runs, Event({r}), SameRun(q, r), q.bucket # r.bucket,
           q.bucket # "pending" => \A j \in jobs : j.run = r.id => j.bucket # "pending",
           runs' = (runs \ {r}) \cup {q}, UNCHANGED <<jobs, statuses, merge>>
    PROVE  ChecksInv'
<1>0. ChecksShape /\ r \in Runs /\ LastId \in Nat /\ Cardinality(runs) \in Nat
  BY Counted DEF ChecksInv, GitHubInv, ChecksShape
<1>1. runs' = (runs \ {r}) \cup {q}
  OBVIOUS
<1>2. q \in Runs /\ SameRun(q, r)
  OBVIOUS
<1>3. IsFiniteSet(runs') /\ Cardinality(runs') = Cardinality(runs) /\ Named(runs')
  BY <1>0, <1>1, <1>2, Changed DEF ChecksInv, GitHubInv, ChecksShape, SameRun
<1>4. ChecksShape' /\ LastId' = LastId
  BY <1>0, <1>1, <1>2, <1>3 DEF ChecksShape, LastId
<1>5. Fresh'
  BY <1>1, <1>2, <1>3, <1>4 DEF ChecksInv, GitHubInv, Fresh, SameRun
<1>6. Owned'
  BY <1>1, <1>2 DEF ChecksInv, GitHubInv, Owned, SameRun
<1>7. Placed' /\ Ended'
  BY <1>1, <1>2 DEF ChecksInv, GitHubInv, Placed, Ended, SameRun
<1>8. ListsInv'
  <2>1. \A x : SameRun(x, x) /\ SameJob(x, x)
    BY DEF SameRun, SameJob
  <2>2. Cardinality(runs) <= Cardinality(runs)' /\ LastId <= LastId'
    BY <1>0, <1>3, <1>4
  <2>3. q \notin steady.runs
    <3>1. q \in runs => q = r
      BY <1>2 DEF ChecksInv, GitHubInv, Named, SameRun
    <3> QED
      BY <1>2, <3>1 DEF ChecksInv, ListsInv, Standing
  <2>5. \A x \in steady.runs \ {r} : x \in runs'
    BY <1>1 DEF ChecksInv, ListsInv, Standing
  <2>6. r \notin steady.jobs
    <3> SUFFICES ASSUME r \in jobs PROVE FALSE
      BY DEF ChecksInv, ListsInv, Standing
    <3>1. DOMAIN r = {"id", "workflow", "sha", "at", "bucket"}
      BY <1>0 DEF Runs
    <3>2. r \in JobsRun
      BY <1>0 DEF ChecksShape
    <3>3. DOMAIN r = {"id", "run", "name", "sha", "bucket"}
      BY <3>2 DEF JobsRun
    <3> QED
      BY <3>1, <3>3
  <2>7. \A j \in steady.jobs \ {r} : j \in jobs'
    BY DEF ChecksInv, ListsInv, Standing
  <2>8. \A x \in steady.runs \ {r}, j \in jobs' : (j.run = x.id /\ x.bucket # "pending") => j \in steady.jobs \ {r}
    BY <2>6 DEF ChecksInv, ListsInv, Standing
  <2>9. \A x \in runs : \E p \in runs' : SameRun(p, x) /\ (p = x \/ p \notin steady.runs \ {r})
    BY <1>1, <1>2, <2>1, <2>3
  <2>10. \A k \in jobs : \E m \in jobs' : SameJob(m, k) /\ (m = k \/ (k.bucket = "pending" /\ m \notin steady.jobs \ {r}))
    BY <2>1
  <2>11. \A p \in runs' : p.id <= since.run => \E x \in runs : SameRun(p, x)
    BY <1>1, <1>2, <2>1
  <2>12. \A m \in jobs' : m.id <= since.id => \E k \in jobs : SameJob(m, k)
    BY <2>1
  <2>13. (merge => merge') /\ statuses \subseteq statuses'
    OBVIOUS
  <2> QED
    BY <1>4, <2>2, <2>13, <2>5, <2>7, <2>8, <2>9, <2>10, <2>11, <2>12, ListsStillFit
<1> QED
  BY <1>3, <1>4, <1>5, <1>6, <1>7, <1>8 DEF ChecksInv, GitHubInv

LEMMA MergeCommitKeeps == ASSUME ChecksInv, MergeCommit PROVE ChecksInv'
<1>1. merge' = TRUE /\ UNCHANGED <<runs, jobs, statuses>> /\ Event({})
  BY DEF MergeCommit
<1>2. ChecksShape' /\ LastId' = LastId /\ Cardinality(runs) \in Nat /\ LastId \in Nat
  BY <1>1, Counted DEF ChecksInv, GitHubInv, ChecksShape, LastId
<1>3. Fresh' /\ Owned' /\ Placed' /\ Ended'
  BY <1>1, <1>2 DEF ChecksInv, GitHubInv, Fresh, Owned, Placed, Ended
<1>4. ListsInv'
  <2>1. \A x : SameRun(x, x) /\ SameJob(x, x)
    BY DEF SameRun, SameJob
  <2>2. Cardinality(runs) <= Cardinality(runs)' /\ LastId <= LastId'
    BY <1>1, <1>2
  <2>3. /\ \A q \in steady.runs : q \in runs'
        /\ \A k \in steady.jobs : k \in jobs'
        /\ \A q \in steady.runs, k \in jobs' : (k.run = q.id /\ q.bucket # "pending") => k \in steady.jobs
    BY <1>1 DEF ChecksInv, ListsInv, Standing
  <2>4. \A q \in runs : \E p \in runs' : SameRun(p, q) /\ p = q
    BY <1>1, <2>1
  <2>5. \A k \in jobs : \E m \in jobs' : SameJob(m, k) /\ m = k
    BY <1>1, <2>1
  <2>6. \A p \in runs' : p.id <= since.run => \E q \in runs : SameRun(p, q)
    BY <1>1, <2>1
  <2>7. \A m \in jobs' : m.id <= since.id => \E k \in jobs : SameJob(m, k)
    BY <1>1, <2>1
  <2> QED
    BY <1>1, <1>2, <2>2, <2>3, <2>4, <2>5, <2>6, <2>7, ListsStillFit
<1> QED
  BY <1>1, <1>2, <1>3, <1>4 DEF ChecksInv, GitHubInv

----------------------------------------------------------------------------
(* So do Fetch's calls. *)

LEMMA SameOnGitHub == ASSUME GitHubInv, UNCHANGED gitHub PROVE GitHubInv' /\ LastId' = LastId
  BY DEF gitHub, GitHubInv, ChecksShape, Fresh, Owned, Placed, Ended, LastId

LEMMA BeginKeeps == ASSUME ChecksInv, Begin PROVE ChecksInv'
<1>1. /\ collect.step = "idle" /\ collect \in Collections
      /\ collect.runs = {} /\ collect.jobs = {} /\ collect.statuses \subseteq statuses /\ collect.sha = "head"
  BY DEF Begin, ChecksInv, ListsInv, ListsShape, Listed, OnlyListed, RunsListed, JobsListed
<1>2. /\ collect' = [collect EXCEPT !.step = "runs", !.sha = "head", !.merge = merge]
      /\ since' = [run |-> Cardinality(runs), id |-> LastId, events |-> 0]
      /\ steady' = [runs |-> runs, jobs |-> jobs] /\ UNCHANGED gitHub
  BY DEF Begin, Then
<1>3. /\ collect'.step = "runs" /\ collect'.sha = "head" /\ collect'.merge = merge
      /\ collect'.runs = {} /\ collect'.jobs = {} /\ collect'.statuses = collect.statuses
      /\ collect' \in Collections
  BY <1>1, <1>2 DEF Collections, Shas, ChecksInv, GitHubInv, ChecksShape
<1>4. GitHubInv' /\ LastId' = LastId /\ UNCHANGED <<runs, jobs, statuses, merge>>
  BY <1>2, SameOnGitHub DEF ChecksInv, gitHub
<1>5. ChecksShape /\ Fresh /\ Owned /\ LastId \in Nat /\ Cardinality(runs) \in Nat
  BY Counted DEF ChecksInv, GitHubInv
<1>6. ListsShape'
  BY <1>2, <1>3, <1>4, <1>5 DEF ListsShape, Done
<1>7. Listed'
  BY <1>1, <1>3, <1>4 DEF Listed, Named
<1>8. OnlyListed' /\ Complete'
  BY <1>3 DEF OnlyListed, Complete, RunsListed, JobsListed
<1>9. Standing'
  BY <1>2, <1>4, <1>5 DEF Standing, Fresh, Owned
<1> QED
  BY <1>4, <1>6, <1>7, <1>8, <1>9 DEF ChecksInv, ListsInv

\* Fetch's next call when the commits' executions, or their jobs, have been listed.
LEMMA ListRunsKeeps == ASSUME ChecksInv, ListRuns PROVE ChecksInv'
<1> DEFINE here == {r \in runs : r.sha = collect.sha}
<1> DEFINE more == collect.sha = "head" /\ collect.merge
<1>1. /\ collect.step = "runs" /\ collect \in Collections /\ collect.sha \in {"head", "merge"}
      /\ \A r \in collect.runs : r.sha # collect.sha
      /\ collect.jobs = {}
  BY DEF ListRuns, ChecksInv, ListsInv, ListsShape, OnlyListed, RunsListed, JobsListed, Collections, Shas
<1>2. /\ collect'.step = IF more THEN "runs" ELSE "jobs"
      /\ collect'.sha = IF more THEN "merge" ELSE "head"
      /\ collect'.runs = collect.runs \cup here
      /\ collect'.merge = collect.merge /\ collect'.jobs = {} /\ collect'.statuses = collect.statuses
      /\ UNCHANGED <<since, steady, gitHub>>
  BY <1>1 DEF ListRuns, Then, Collections
<1>3. GitHubInv' /\ LastId' = LastId /\ UNCHANGED <<runs, jobs, statuses, merge>>
  BY <1>2, SameOnGitHub DEF ChecksInv, gitHub
<1>4. collect' \in Collections
  <2>1. here \subseteq Runs
    BY DEF ChecksInv, GitHubInv, ChecksShape
  <2> QED
    BY <1>1, <2>1 DEF ListRuns, Then, Collections, Shas
<1>5. ListsShape'
  BY <1>2, <1>3, <1>4 DEF ChecksInv, ListsInv, ListsShape, Done
<1>6. Listed'
  <2>1. \A r \in here : SameRun(r, r)
    BY DEF SameRun
  <2>2. \A r \in collect'.runs : \E q \in runs : SameRun(r, q) /\ (q \in steady.runs => q = r)
    BY <1>2, <2>1 DEF ChecksInv, ListsInv, Listed
  <2>3. Named(collect'.runs)
    <3> SUFFICES ASSUME NEW x \in collect'.runs, NEW y \in collect'.runs, x.id = y.id PROVE x = y
      BY DEF Named
    <3>1. x.sha = y.sha
      BY <2>2 DEF ChecksInv, GitHubInv, Named, SameRun
    <3> QED
      BY <1>1, <1>2, <3>1 DEF ChecksInv, GitHubInv, ListsInv, Listed, Named
  <2> QED
    BY <1>2, <1>3, <2>2, <2>3 DEF ChecksInv, ListsInv, Listed, Named
<1>7. OnlyListed'
  <2>1. ASSUME NEW r \in collect'.runs PROVE RunsListed(collect', r.sha)
    <3>1. RunsListed(collect, r.sha) \/ r.sha = collect.sha
      BY <1>1, <1>2 DEF ChecksInv, ListsInv, OnlyListed
    <3>2. collect.sha = "merge" => collect.merge
      BY DEF ChecksInv, ListsInv, ListsShape
    <3> QED
      BY <1>1, <1>2, <3>1, <3>2 DEF RunsListed
  <2> QED
    BY <1>2, <2>1 DEF OnlyListed
<1>8. Complete'
  <2>1. ASSUME NEW r \in runs, r.id <= since.run, RunsListed(collect', r.sha) PROVE \E q \in collect'.runs : q.id = r.id
    <3>1. r.sha \in {"head", "merge"}
      BY DEF ChecksInv, GitHubInv, ChecksShape, Runs, Shas
    <3>2. CASE r.sha = collect.sha
      BY <1>2, <3>2
    <3>3. CASE r.sha # collect.sha
      <4>1. RunsListed(collect, r.sha)
        BY <1>1, <1>2, <2>1, <3>1, <3>3 DEF RunsListed
      <4> QED
        BY <1>2, <2>1, <4>1 DEF ChecksInv, ListsInv, Complete
    <3> QED
      BY <3>2, <3>3
  <2>2. \A sha : ~JobsListed(collect', sha)
    <3>1. collect.sha = "merge" => collect'.sha = "head"
      BY <1>2
    <3> QED
      BY <1>2, <3>1 DEF JobsListed
  <2> QED
    BY <1>2, <1>3, <2>1, <2>2 DEF Complete
<1>9. Standing'
  BY <1>2, <1>3 DEF ChecksInv, ListsInv, Standing
<1> QED
  BY <1>3, <1>5, <1>6, <1>7, <1>8, <1>9 DEF ChecksInv, ListsInv

LEMMA ListJobsKeeps == ASSUME ChecksInv, ListJobs PROVE ChecksInv'
<1> DEFINE here == {j \in jobs : j.sha = collect.sha}
<1>1. /\ collect.step = "jobs" /\ collect \in Collections /\ collect.sha \in {"head", "merge"}
      /\ \A j \in collect.jobs : j.sha # collect.sha
  BY DEF ListJobs, ChecksInv, ListsInv, ListsShape, OnlyListed, JobsListed, Collections, Shas
<1>2. /\ collect'.step = "statuses" /\ collect'.sha = collect.sha
      /\ collect'.jobs = collect.jobs \cup here
      /\ collect'.merge = collect.merge /\ collect'.runs = collect.runs /\ collect'.statuses = collect.statuses
      /\ UNCHANGED <<since, steady, gitHub>>
  BY <1>1 DEF ListJobs, Then, Collections
<1>3. GitHubInv' /\ LastId' = LastId /\ UNCHANGED <<runs, jobs, statuses, merge>>
  BY <1>2, SameOnGitHub DEF ChecksInv, gitHub
<1>4. collect' \in Collections
  <2>1. here \subseteq JobsRun
    BY DEF ChecksInv, GitHubInv, ChecksShape
  <2> QED
    BY <1>1, <2>1 DEF ListJobs, Then, Collections, Shas
<1>5. ListsShape'
  BY <1>2, <1>3, <1>4 DEF ChecksInv, ListsInv, ListsShape, Done
<1>6. Listed'
  <2>1. \A j \in here : SameJob(j, j)
    BY DEF SameJob
  <2>2. \A j \in collect'.jobs : \E k \in jobs :
           SameJob(j, k) /\ (j.bucket = k.bucket \/ (j.bucket = "pending" /\ k \notin steady.jobs))
    BY <1>2, <2>1 DEF ChecksInv, ListsInv, Listed
  <2>3. Named(collect'.jobs)
    <3> SUFFICES ASSUME NEW x \in collect'.jobs, NEW y \in collect'.jobs, x.id = y.id PROVE x = y
      BY DEF Named
    <3>1. x.sha = y.sha
      BY <2>2 DEF ChecksInv, GitHubInv, Named, SameJob
    <3> QED
      BY <1>1, <1>2, <3>1 DEF ChecksInv, GitHubInv, ListsInv, Listed, Named
  <2> QED
    BY <1>2, <1>3, <2>2, <2>3 DEF ChecksInv, ListsInv, Listed, Named
<1>7. OnlyListed'
  BY <1>1, <1>2 DEF ChecksInv, ListsInv, OnlyListed, RunsListed, JobsListed
<1>8. Complete'
  <2>1. ASSUME NEW j \in jobs, j.id <= since.id, JobsListed(collect', j.sha) PROVE \E k \in collect'.jobs : k.id = j.id
    <3>1. CASE j.sha = collect.sha
      BY <1>2, <3>1
    <3>2. CASE j.sha # collect.sha
      <4>1. JobsListed(collect, j.sha)
        BY <1>1, <1>2, <2>1, <3>2 DEF JobsListed
      <4> QED
        BY <1>2, <2>1, <4>1 DEF ChecksInv, ListsInv, Complete
    <3> QED
      BY <3>1, <3>2
  <2>2. \A sha : RunsListed(collect', sha) => RunsListed(collect, sha)
    BY <1>1, <1>2 DEF RunsListed
  <2>3. \A r \in runs : (r.id <= since.run /\ RunsListed(collect', r.sha)) => \E q \in collect'.runs : q.id = r.id
    BY <1>2, <2>2 DEF ChecksInv, ListsInv, Complete
  <2> QED
    BY <1>2, <1>3, <2>1, <2>3 DEF Complete
<1>9. Standing'
  BY <1>2, <1>3 DEF ChecksInv, ListsInv, Standing
<1> QED
  BY <1>3, <1>5, <1>6, <1>7, <1>8, <1>9 DEF ChecksInv, ListsInv

LEMMA ListStatusesKeeps == ASSUME ChecksInv, ListStatuses PROVE ChecksInv'
<1> DEFINE here == {s \in statuses : s.sha = collect.sha}
<1> DEFINE more == collect.sha = "head" /\ collect.merge
<1>1. collect.step = "statuses" /\ collect \in Collections /\ collect.sha \in {"head", "merge"}
  BY DEF ListStatuses, ChecksInv, ListsInv, ListsShape, Collections, Shas
<1>2. /\ collect'.step = IF more THEN "jobs" ELSE "metadata"
      /\ collect'.sha = IF more THEN "merge" ELSE "head"
      /\ collect'.statuses = collect.statuses \cup here
      /\ collect'.merge = collect.merge /\ collect'.runs = collect.runs /\ collect'.jobs = collect.jobs
      /\ UNCHANGED <<since, steady, gitHub>>
  BY <1>1 DEF ListStatuses, Then, Collections
<1>3. GitHubInv' /\ LastId' = LastId /\ UNCHANGED <<runs, jobs, statuses, merge>>
  BY <1>2, SameOnGitHub DEF ChecksInv, gitHub
<1>4. collect' \in Collections
  <2>1. here \subseteq Reports
    BY DEF ChecksInv, GitHubInv, ChecksShape
  <2> QED
    BY <1>1, <2>1 DEF ListStatuses, Then, Collections, Shas
<1>5. ListsShape'
  BY <1>2, <1>3, <1>4 DEF ChecksInv, ListsInv, ListsShape, Done
<1>6. Listed'
  BY <1>2, <1>3 DEF ChecksInv, ListsInv, Listed, Named
<1>7. OnlyListed' /\ Complete'
  <2>1. \A sha \in Shas : RunsListed(collect', sha) = RunsListed(collect, sha)
    BY <1>1, <1>2 DEF RunsListed, Shas
  <2>3. /\ \A r \in runs : r.sha \in Shas
        /\ \A r \in collect.runs : r.sha \in Shas
        /\ \A j \in jobs : j.sha \in Shas
        /\ \A j \in collect.jobs : j.sha \in Shas
    BY <1>1 DEF ChecksInv, GitHubInv, ChecksShape, Collections, Runs, JobsRun
  <2>4. \A sha \in Shas : JobsListed(collect, sha) => JobsListed(collect', sha)
    BY <1>1, <1>2 DEF JobsListed, Shas, ChecksInv, ListsInv, ListsShape
  <2>6. \A sha \in Shas : JobsListed(collect', sha) => JobsListed(collect, sha)
    <3>1. CASE more
      BY <1>1, <1>2, <3>1 DEF JobsListed, Shas
    <3>2. CASE ~more
      BY <1>1, <1>2, <3>2 DEF JobsListed, Shas
    <3> QED
      BY <3>1, <3>2
  <2>7. OnlyListed'
    BY <1>1, <1>2, <2>1, <2>3, <2>4 DEF ChecksInv, ListsInv, OnlyListed
  <2>8. Complete'
    BY <1>2, <1>3, <2>1, <2>3, <2>6 DEF ChecksInv, ListsInv, Complete
  <2> QED
    BY <2>7, <2>8
<1>8. Standing'
  BY <1>2, <1>3 DEF ChecksInv, ListsInv, Standing
<1> QED
  BY <1>3, <1>5, <1>6, <1>7, <1>8 DEF ChecksInv, ListsInv

LEMMA RecheckCommitsKeeps == ASSUME ChecksInv, RecheckCommits PROVE ChecksInv'
<1>1. collect.step = "metadata" /\ collect \in Collections
  BY DEF RecheckCommits, ChecksInv, ListsInv, ListsShape
<1>2. /\ collect'.step = IF merge = collect.merge THEN "done" ELSE "failed"
      /\ collect'.sha = "head" /\ collect' \in Collections
      /\ collect'.merge = collect.merge /\ collect'.runs = collect.runs /\ collect'.jobs = collect.jobs
      /\ collect'.statuses = collect.statuses /\ UNCHANGED <<since, steady, gitHub>>
  BY <1>1 DEF RecheckCommits, Then, Collections, Shas
<1>3. GitHubInv' /\ LastId' = LastId /\ UNCHANGED <<runs, jobs, statuses, merge>>
  BY <1>2, SameOnGitHub DEF ChecksInv, gitHub
<1>4. ListsShape'
  BY <1>2, <1>3 DEF ChecksInv, ListsInv, ListsShape, Done
<1>5. Listed'
  BY <1>2, <1>3 DEF ChecksInv, ListsInv, Listed, Named
<1>6. OnlyListed'
  BY <1>1, <1>2 DEF ChecksInv, ListsInv, OnlyListed, RunsListed, JobsListed
<1>7. Complete'
  BY <1>1, <1>2, <1>3 DEF ChecksInv, ListsInv, Complete, RunsListed, JobsListed
<1>8. Standing'
  BY <1>2, <1>3 DEF ChecksInv, ListsInv, Standing
<1> QED
  BY <1>3, <1>4, <1>5, <1>6, <1>7, <1>8 DEF ChecksInv, ListsInv

LEMMA ChecksInductive == ChecksInv /\ [ChecksNext]_checksVars => ChecksInv'
<1> SUFFICES ASSUME ChecksInv, [ChecksNext]_checksVars PROVE ChecksInv'
  OBVIOUS
<1>1. CASE UNCHANGED checksVars
  <2>1. UNCHANGED <<runs, jobs, statuses, merge, collect, since, steady>>
    BY <1>1 DEF checksVars, gitHub
  <2> QED
    BY <2>1 DEF ChecksInv, GitHubInv, ChecksShape, Fresh, Owned, Placed, Ended, LastId,
                ListsInv, ListsShape, Listed, OnlyListed, Complete, Standing, Done
<1>2. ASSUME NEW w \in Workflows, NEW sha \in Shas, NEW at \in Shas, StartRun(w, sha, at) PROVE ChecksInv'
  BY <1>2, StartRunKeeps
<1>3. ASSUME NEW r \in runs, RunAgain(r) PROVE ChecksInv'
  <2> DEFINE q == [r EXCEPT !.bucket = "pending"]
  <2>1. q \in Runs /\ SameRun(q, r) /\ q.bucket = "pending"
    BY DEF Runs, SameRun, Buckets, ChecksInv, GitHubInv, ChecksShape
  <2>2. /\ Event({r}) /\ r.bucket # "pending" /\ UNCHANGED <<jobs, statuses, merge>>
        /\ runs' = (runs \ {r}) \cup {q}
    BY <1>3 DEF RunAgain
  <2> HIDE DEF q
  <2> QED
    BY <2>1, <2>2, ChangedRunKeeps
<1>4. ASSUME NEW r \in runs, NEW n \in Jobs, QueueJob(r, n) PROVE ChecksInv'
  BY <1>4, QueueJobKeeps
<1>5. ASSUME NEW r \in runs, NEW b \in Results, FinishRun(r, b) PROVE ChecksInv'
  <2> DEFINE q == [r EXCEPT !.bucket = b]
  <2>1. q \in Runs /\ SameRun(q, r) /\ q.bucket = b
    BY DEF Runs, SameRun, Buckets, ChecksInv, GitHubInv, ChecksShape
  <2>2. /\ Event({r}) /\ UNCHANGED <<jobs, statuses, merge>>
        /\ runs' = (runs \ {r}) \cup {q}
        /\ r.bucket = "pending" /\ \A j \in jobs : j.run = r.id => j.bucket # "pending"
    BY <1>5 DEF FinishRun
  <2>3. q.bucket # r.bucket
    BY <2>1, <2>2, ResultsAssumption
  <2> HIDE DEF q
  <2> QED
    BY <2>1, <2>2, <2>3, ChangedRunKeeps
<1>6. ASSUME NEW j \in jobs, NEW b \in Results, FinishJob(j, b) PROVE ChecksInv'
  BY <1>6, FinishJobKeeps
<1>7. ASSUME NEW c \in Contexts, NEW sha \in Shas, NEW b \in Buckets, Report(c, sha, b) PROVE ChecksInv'
  BY <1>7, ReportKeeps
<1>8. CASE MergeCommit
  BY <1>8, MergeCommitKeeps
<1>9. CASE Fetch
  BY <1>9, BeginKeeps, ListRunsKeeps, ListJobsKeeps, ListStatusesKeeps, RecheckCommitsKeeps DEF Fetch
<1> QED
  BY <1>1, <1>2, <1>3, <1>4, <1>5, <1>6, <1>7, <1>8, <1>9 DEF ChecksNext, GitHubMoves, Buckets

(* The inductive invariant: an id is one thing's, a job is of an execution *)
(* and on the commit that one reports on, nothing is on a test-merge       *)
(* commit before there is one; and the lists Fetch has made hold what was  *)
(* there when it began, of every commit it has asked about, with what has  *)
(* stood since as it is.                                                   *)
THEOREM ChecksInvariantHolds == ChecksSpec => []ChecksInv
<1>1. ChecksInit => ChecksInv
  <2> SUFFICES ASSUME ChecksInit PROVE ChecksInv
    OBVIOUS
  <2>1. /\ runs = {} /\ jobs = {} /\ statuses = {} /\ merge = FALSE
        /\ collect = [step |-> "idle", sha |-> "head", merge |-> FALSE, runs |-> {}, jobs |-> {}, statuses |-> {}]
        /\ since = [run |-> 0, id |-> 0, events |-> 0]
        /\ steady = [runs |-> {}, jobs |-> {}]
    BY DEF ChecksInit
  <2>2. ChecksShape
    BY <2>1, FS_EmptySet DEF ChecksShape
  <2>3. GitHubInv
    BY <2>1, <2>2 DEF GitHubInv, Named, Fresh, Owned, Placed, Ended
  <2>4. Cardinality(runs) \in Nat /\ LastId \in Nat
    BY <2>2, Counted
  <2>5. ListsShape
    BY <2>1, <2>4 DEF ListsShape, Collections, Shas, Done
  <2>6. Listed /\ OnlyListed /\ Complete /\ Standing
    BY <2>1 DEF Listed, OnlyListed, Complete, Standing, Named
  <2> QED
    BY <2>3, <2>5, <2>6 DEF ChecksInv, ListsInv
<1>2. ChecksInv /\ [ChecksNext]_checksVars => ChecksInv'
  BY ChecksInductive
<1> QED
  BY <1>1, <1>2, PTL DEF ChecksSpec

----------------------------------------------------------------------------
(* What Fetch has when it is done. *)

LEMMA Typed ==
    ASSUME ChecksInv
    PROVE  /\ runs \subseteq Runs /\ jobs \subseteq JobsRun /\ statuses \subseteq Reports
           /\ collect.runs \subseteq Runs /\ collect.jobs \subseteq JobsRun /\ collect.statuses \subseteq Reports
  BY DEF ChecksInv, GitHubInv, ChecksShape, ListsInv, ListsShape, Collections

\* Both commits have been asked about, if there are two.
LEMMA AllListed ==
    ASSUME ChecksInv, Done
    PROVE  /\ collect.merge = merge
           /\ \A r \in runs : RunsListed(collect, r.sha)
           /\ \A j \in jobs : JobsListed(collect, j.sha)
<1>1. collect.step = "done" /\ collect.merge = merge
  BY DEF Done, ChecksInv, ListsInv, ListsShape
<1>2. ASSUME NEW r \in runs PROVE r.sha \in {"head", "merge"} /\ r.at \in {"head", "merge"}
                                  /\ (r.sha = "merge" => merge) /\ (r.at = "merge" => merge)
  BY Typed DEF Runs, Shas, ChecksInv, GitHubInv, Placed
<1>3. ASSUME NEW j \in jobs PROVE j.sha \in {"head", "merge"} /\ (j.sha = "merge" => merge)
  BY <1>2 DEF ChecksInv, GitHubInv, Owned
<1> QED
  BY <1>1, <1>2, <1>3 DEF RunsListed, JobsListed

\* What was there when the collection began is listed; as it is, if it has stood.
LEMMA KnownIsListed ==
    ASSUME ChecksInv, Done
    PROVE  /\ \A r \in Known.runs : \E q \in collect.runs : SameRun(q, r)
           /\ \A j \in Known.jobs : \E k \in collect.jobs : SameJob(k, j)
           /\ \A r \in steady.runs : r \in collect.runs /\ r \in Known.runs
           /\ \A j \in steady.jobs : j \in collect.jobs /\ j \in Known.jobs
<1>1. ASSUME NEW r \in Known.runs PROVE \E q \in collect.runs : SameRun(q, r) /\ (r \in steady.runs => q = r)
  <2>1. r \in runs /\ r.id <= since.run
    BY DEF Known
  <2>2. PICK q \in collect.runs : q.id = r.id
    BY <2>1, AllListed DEF ChecksInv, ListsInv, Complete
  <2>3. PICK p \in runs : SameRun(q, p) /\ (p \in steady.runs => p = q)
    BY DEF ChecksInv, ListsInv, Listed
  <2>4. p = r
    BY <2>1, <2>2, <2>3 DEF ChecksInv, GitHubInv, Named, SameRun
  <2> QED
    BY <2>3, <2>4
<1>2. ASSUME NEW j \in Known.jobs PROVE \E k \in collect.jobs : SameJob(k, j) /\ (j \in steady.jobs => k.bucket = j.bucket)
  <2>1. j \in jobs /\ j.id <= since.id
    BY DEF Known
  <2>2. PICK k \in collect.jobs : k.id = j.id
    BY <2>1, AllListed DEF ChecksInv, ListsInv, Complete
  <2>3. PICK m \in jobs : SameJob(k, m) /\ (k.bucket = m.bucket \/ (k.bucket = "pending" /\ m \notin steady.jobs))
    BY DEF ChecksInv, ListsInv, Listed
  <2>4. m = j
    BY <2>1, <2>2, <2>3 DEF ChecksInv, GitHubInv, Named, SameJob
  <2> QED
    BY <2>3, <2>4
<1>3. ASSUME NEW r \in steady.runs PROVE r \in Known.runs /\ r \in collect.runs
  <2>1. r \in Known.runs
    BY DEF Known, ChecksInv, ListsInv, Standing
  <2> QED
    BY <1>1, <2>1
<1>4. ASSUME NEW j \in steady.jobs PROVE j \in Known.jobs /\ j \in collect.jobs
  <2>1. j \in Known.jobs /\ j \in JobsRun
    BY Typed DEF Known, ChecksInv, ListsInv, Standing
  <2>2. PICK k \in collect.jobs : SameJob(k, j) /\ k.bucket = j.bucket
    BY <1>2, <2>1
  <2>3. k \in JobsRun
    BY Typed
  <2>4. k = j
    BY <2>1, <2>2, <2>3 DEF JobsRun, SameJob
  <2> QED
    BY <2>1, <2>4
<1> QED
  BY <1>1, <1>2, <1>3, <1>4

\* What is listed is there; a job may have ended since.
LEMMA ListedIsThere ==
    ASSUME ChecksInv
    PROVE  /\ \A q \in collect.runs : \E r \in runs : SameRun(q, r)
           /\ \A k \in collect.jobs : \E j \in jobs :
                 SameJob(k, j) /\ (k.bucket = j.bucket \/ (k.bucket = "pending" /\ j \notin steady.jobs))
  BY DEF ChecksInv, ListsInv, Listed

\* An execution that has ended and has stood has no jobs but those that were listed.
LEMMA EndedStands ==
    ASSUME ChecksInv, NEW r \in steady.runs, r.bucket # "pending", NEW j \in jobs, j.run = r.id
    PROVE  j \in steady.jobs
  BY DEF ChecksInv, ListsInv, Standing

----------------------------------------------------------------------------
(* Items, and the jobs and statuses they stand for. *)

JobItem(j, r) == Check(<<"job", r.workflow, j.name>>, j.id, j.name, r.id, j.bucket)
SuiteItem(j)  == Check(<<"suite", j.run, j.name>>, j.id, j.name, 0, j.bucket)
StatusItem(s) == Check(<<"status", s.name>>, s.id, s.name, 0, s.bucket)
RunItem(r)    == Check(<<"run", r.workflow>>, r.id, r.workflow, r.id, r.bucket)

LEMMA Fields ==
    /\ \A j, r : /\ JobItem(j, r).key = <<"job", r.workflow, j.name>> /\ JobItem(j, r).id = j.id
                 /\ JobItem(j, r).name = j.name /\ JobItem(j, r).run = r.id /\ JobItem(j, r).bucket = j.bucket
    /\ \A j : /\ SuiteItem(j).key = <<"suite", j.run, j.name>> /\ SuiteItem(j).id = j.id
              /\ SuiteItem(j).name = j.name /\ SuiteItem(j).run = 0 /\ SuiteItem(j).bucket = j.bucket
    /\ \A s : /\ StatusItem(s).key = <<"status", s.name>> /\ StatusItem(s).id = s.id
              /\ StatusItem(s).name = s.name /\ StatusItem(s).run = 0 /\ StatusItem(s).bucket = s.bucket
    /\ \A r : /\ RunItem(r).key = <<"run", r.workflow>> /\ RunItem(r).id = r.id
              /\ RunItem(r).name = r.workflow /\ RunItem(r).run = r.id /\ RunItem(r).bucket = r.bucket
  BY DEF JobItem, SuiteItem, StatusItem, RunItem, Check

\* Items of different sorts have different keys, and those of a sort by what they name.
LEMMA Triples ==
    ASSUME NEW x, NEW a, NEW b, NEW c, NEW d
    PROVE  <<x, a, b>> = <<x, c, d>> <=> a = c /\ b = d
<1>1. <<x, a, b>>[2] = a /\ <<x, c, d>>[2] = c
  OBVIOUS
<1>2. <<x, a, b>>[3] = b /\ <<x, c, d>>[3] = d
  OBVIOUS
<1> QED
  BY <1>1, <1>2

LEMMA Keys ==
    /\ \A j, r : JobItem(j, r).key[1] = "job"
    /\ \A j : SuiteItem(j).key[1] = "suite"
    /\ \A s : StatusItem(s).key[1] = "status"
    /\ \A r : RunItem(r).key[1] = "run"
    /\ \A j, r, k, q : JobItem(j, r).key = JobItem(k, q).key <=> r.workflow = q.workflow /\ j.name = k.name
    /\ \A j, k : SuiteItem(j).key = SuiteItem(k).key <=> j.run = k.run /\ j.name = k.name
    /\ \A s, t : StatusItem(s).key = StatusItem(t).key <=> s.name = t.name
    /\ \A r, q : RunItem(r).key = RunItem(q).key <=> r.workflow = q.workflow
<1>1. ASSUME NEW j, NEW r PROVE JobItem(j, r).key[1] = "job"
  <2>1. JobItem(j, r).key = <<"job", r.workflow, j.name>>
    BY Fields
  <2> QED
    BY <2>1
<1>2. ASSUME NEW j PROVE SuiteItem(j).key[1] = "suite"
  <2>1. SuiteItem(j).key = <<"suite", j.run, j.name>>
    BY Fields
  <2> QED
    BY <2>1
<1>3. ASSUME NEW s PROVE StatusItem(s).key[1] = "status"
  <2>1. StatusItem(s).key = <<"status", s.name>>
    BY Fields
  <2> QED
    BY <2>1
<1>4. ASSUME NEW r PROVE RunItem(r).key[1] = "run"
  <2>1. RunItem(r).key = <<"run", r.workflow>>
    BY Fields
  <2> QED
    BY <2>1
<1>5. ASSUME NEW j, NEW r, NEW k, NEW q
      PROVE  JobItem(j, r).key = JobItem(k, q).key <=> r.workflow = q.workflow /\ j.name = k.name
  <2>1. JobItem(j, r).key = <<"job", r.workflow, j.name>> /\ JobItem(k, q).key = <<"job", q.workflow, k.name>>
    BY Fields
  <2>2. <<"job", r.workflow, j.name>> = <<"job", q.workflow, k.name>> <=> r.workflow = q.workflow /\ j.name = k.name
    BY Triples
  <2> QED
    BY <2>1, <2>2
<1>6. ASSUME NEW j, NEW k PROVE SuiteItem(j).key = SuiteItem(k).key <=> j.run = k.run /\ j.name = k.name
  <2>1. SuiteItem(j).key = <<"suite", j.run, j.name>> /\ SuiteItem(k).key = <<"suite", k.run, k.name>>
    BY Fields
  <2>2. <<"suite", j.run, j.name>> = <<"suite", k.run, k.name>> <=> j.run = k.run /\ j.name = k.name
    BY Triples
  <2> QED
    BY <2>1, <2>2
<1>7. ASSUME NEW s, NEW t PROVE StatusItem(s).key = StatusItem(t).key <=> s.name = t.name
  <2>1. StatusItem(s).key = <<"status", s.name>> /\ StatusItem(t).key = <<"status", t.name>>
    BY Fields
  <2>2. <<"status", s.name>> = <<"status", t.name>> <=> s.name = t.name
    OBVIOUS
  <2> QED
    BY <2>1, <2>2
<1>8. ASSUME NEW r, NEW q PROVE RunItem(r).key = RunItem(q).key <=> r.workflow = q.workflow
  <2>1. RunItem(r).key = <<"run", r.workflow>> /\ RunItem(q).key = <<"run", q.workflow>>
    BY Fields
  <2>2. <<"run", r.workflow>> = <<"run", q.workflow>> <=> r.workflow = q.workflow
    OBVIOUS
  <2> QED
    BY <2>1, <2>2
<1> QED
  BY <1>1, <1>2, <1>3, <1>4, <1>5, <1>6, <1>7, <1>8

\* An execution that was listed and is the newest of its workflow and commit there.
Current(r) == r \in collect.runs /\ ~Superseded(r, collect.runs)

\* The execution of a job was not listed.
Unknown(j) == \A r \in collect.runs : r.id # j.run

IsJobItem(c, j, r) == j \in collect.jobs /\ Current(r) /\ r.id = j.run /\ c = JobItem(j, r)
IsSuiteItem(c, j)  == j \in collect.jobs /\ Unknown(j) /\ c = SuiteItem(j)
IsStatusItem(c, s) == s \in collect.statuses /\ c = StatusItem(s)

LEMMA ItemsAre ==
    ASSUME NEW sha
    PROVE  /\ \A c \in Items(sha) :
                 \/ \E j, r : IsJobItem(c, j, r) /\ j.sha = sha
                 \/ \E j : IsSuiteItem(c, j) /\ j.sha = sha
                 \/ \E s : IsStatusItem(c, s) /\ s.sha = sha
           /\ \A c, j, r : IsJobItem(c, j, r) /\ j.sha = sha => c \in Items(sha)
           /\ \A c, j : IsSuiteItem(c, j) /\ j.sha = sha => c \in Items(sha)
           /\ \A c, s : IsStatusItem(c, s) /\ s.sha = sha => c \in Items(sha)
<1> DEFINE own(j) == {r \in collect.runs : r.id = j.run}
<1>1. ASSUME NEW j
      PROVE  JobItems(j) = IF own(j) = {} THEN {SuiteItem(j)}
                           ELSE {JobItem(j, r) : r \in {q \in own(j) : ~Superseded(q, collect.runs)}}
  BY DEF JobItems, JobItem, SuiteItem
<1>2. ASSUME NEW c, NEW j \in collect.jobs
      PROVE  c \in JobItems(j) <=> (\E r : IsJobItem(c, j, r)) \/ IsSuiteItem(c, j)
  <2>1. CASE own(j) = {}
    <3>1. JobItems(j) = {SuiteItem(j)}
      BY <1>1, <2>1
    <3> QED
      BY <2>1, <3>1 DEF IsJobItem, IsSuiteItem, Current, Unknown
  <2>2. CASE own(j) # {}
    <3>1. JobItems(j) = {JobItem(j, r) : r \in {q \in own(j) : ~Superseded(q, collect.runs)}}
      BY <1>1, <2>2
    <3>2. ~Unknown(j)
      BY <2>2 DEF Unknown
    <3>3. c \in JobItems(j) <=> \E r \in collect.runs : r.id = j.run /\ ~Superseded(r, collect.runs) /\ c = JobItem(j, r)
      BY <3>1
    <3> QED
      BY <3>2, <3>3 DEF IsJobItem, IsSuiteItem, Current
  <2> QED
    BY <2>1, <2>2
<1>3. ASSUME NEW c
      PROVE  c \in Items(sha) <=> \/ \E j \in collect.jobs : j.sha = sha /\ c \in JobItems(j)
                                  \/ \E s \in collect.statuses : s.sha = sha /\ c = StatusItem(s)
  <2> DEFINE A == UNION {JobItems(j) : j \in {k \in collect.jobs : k.sha = sha}}
  <2> DEFINE B == {StatusItem(s) : s \in {t \in collect.statuses : t.sha = sha}}
  <2>1. Items(sha) = A \cup B
    BY DEF Items, StatusItem
  <2>2. c \in A <=> \E j \in collect.jobs : j.sha = sha /\ c \in JobItems(j)
    OBVIOUS
  <2>3. c \in B <=> \E s \in collect.statuses : s.sha = sha /\ c = StatusItem(s)
    OBVIOUS
  <2> HIDE DEF A, B
  <2> QED
    BY <2>1, <2>2, <2>3
<1> QED
  BY <1>2, <1>3 DEF IsJobItem, IsSuiteItem, IsStatusItem

\* Of the listed executions of a workflow on a commit, one is not replaced.
LEMMA CurrentIsOne ==
    ASSUME ChecksInv, NEW r, NEW q, Current(r), Current(q), q.workflow = r.workflow, q.sha = r.sha
    PROVE  q = r
<1>1. ~(q.id > r.id) /\ ~(r.id > q.id)
  BY DEF Superseded, Current
<1>2. q.id \in Nat /\ r.id \in Nat
  BY Typed DEF Current, Runs
<1>3. q.id = r.id
  BY <1>1, <1>2
<1> QED
  BY <1>3 DEF ChecksInv, ListsInv, Listed, Named, Current

\* What was not replaced in the list had not been replaced when the collection began.
LEMMA NotReplaced ==
    ASSUME ChecksInv, Done, NEW q, Current(q), NEW r \in runs, r.id = q.id
    PROVE  SameRun(q, r) /\ ~Superseded(r, Known.runs)
<1>1. PICK p \in runs : SameRun(q, p)
  BY ListedIsThere DEF Current
<1>2. SameRun(q, r)
  BY <1>1 DEF ChecksInv, GitHubInv, Named, SameRun
<1>3. ASSUME NEW x \in Known.runs, x.workflow = r.workflow, x.sha = r.sha, x.id > r.id PROVE FALSE
  <2>1. PICK y \in collect.runs : SameRun(y, x)
    BY KnownIsListed
  <2> QED
    BY <1>2, <1>3, <2>1 DEF Current, Superseded, SameRun
<1> QED
  BY <1>2, <1>3 DEF Superseded

\* Nor had an execution been that came later.
LEMMA UnknownIsLater ==
    ASSUME ChecksInv, Done, NEW j, Unknown(j), NEW r \in runs, r.id = j.run
    PROVE  ~Superseded(r, Known.runs)
<1>1. r.id > since.run
  <2>1. r \notin Known.runs
    BY KnownIsListed DEF Unknown, SameRun
  <2>2. r.id \in Nat /\ since.run \in Nat
    BY Typed DEF Runs, ChecksInv, ListsInv, ListsShape
  <2> QED
    BY <2>1, <2>2 DEF Known
<1>2. ASSUME NEW x \in Known.runs, x.id > r.id PROVE FALSE
  <2>1. x.id <= since.run /\ x.id \in Nat /\ r.id \in Nat /\ since.run \in Nat
    BY Typed DEF Known, Runs, ChecksInv, ListsInv, ListsShape
  <2> QED
    BY <1>1, <1>2, <2>1
<1> QED
  BY <1>2 DEF Superseded

----------------------------------------------------------------------------
(* What is reported. *)

\* No attempt of the job that was there when the collection began is newer.
StillNewest(j) == \A m \in Known.jobs : (m.run = j.run /\ m.name = j.name) => m.id <= j.id

LEMMA JobsCommit ==
    ASSUME ChecksInv, NEW j \in jobs, NEW r \in runs, r.id = j.run
    PROVE  j.sha = r.at
  BY DEF ChecksInv, GitHubInv, Owned, Named

LEMMA SameRunsCommit ==
    ASSUME ChecksInv, NEW j \in jobs, NEW k \in jobs, j.run = k.run
    PROVE  j.sha = k.sha
  BY DEF ChecksInv, GitHubInv, Owned, Named

LEMMA ReportedAre ==
    ASSUME ChecksInv, Done, NEW c \in Reported
    PROVE  \/ \E j, r : IsJobItem(c, j, r) /\ StillNewest(j)
           \/ \E j : IsSuiteItem(c, j) /\ StillNewest(j)
           \/ \E s : IsStatusItem(c, s)
<1>1. PICK sha \in Shas : c \in ChecksOf(sha)
  BY DEF Reported, Shas
<1>2. c \in Items(sha) /\ \A d \in Items(sha) : d.key = c.key => d.id <= c.id
  BY <1>1 DEF ChecksOf, Newest
<1>3. ASSUME NEW j \in collect.jobs, j.sha = sha, NEW m \in Known.jobs, m.run = j.run, m.name = j.name
      PROVE  \E k \in collect.jobs : SameJob(k, m) /\ k.run = j.run /\ k.name = j.name /\ k.sha = sha
  <2>1. PICK k \in collect.jobs : SameJob(k, m)
    BY KnownIsListed
  <2>2. PICK i \in jobs : SameJob(j, i)
    BY ListedIsThere
  <2>3. m \in jobs
    BY DEF Known
  <2>4. m.sha = j.sha
    BY <1>3, <2>2, <2>3, SameRunsCommit DEF SameJob
  <2> QED
    BY <1>3, <2>1, <2>4 DEF SameJob
<1>4. ASSUME NEW j, NEW r, IsJobItem(c, j, r), j.sha = sha PROVE StillNewest(j)
  <2> SUFFICES ASSUME NEW m \in Known.jobs, m.run = j.run, m.name = j.name PROVE m.id <= j.id
    BY DEF StillNewest
  <2>1. PICK k \in collect.jobs : SameJob(k, m) /\ k.run = j.run /\ k.name = j.name /\ k.sha = sha
    BY <1>3, <1>4 DEF IsJobItem
  <2>2. JobItem(k, r) \in Items(sha)
    BY <1>4, <2>1, ItemsAre DEF IsJobItem
  <2>3. JobItem(k, r).id <= c.id
    BY <1>2, <1>4, <2>1, <2>2, Keys DEF IsJobItem
  <2>4. JobItem(k, r).id = k.id /\ JobItem(j, r).id = j.id
    BY Fields
  <2> QED
    BY <1>4, <2>1, <2>3, <2>4 DEF IsJobItem, SameJob
<1>5. ASSUME NEW j, IsSuiteItem(c, j), j.sha = sha PROVE StillNewest(j)
  <2> SUFFICES ASSUME NEW m \in Known.jobs, m.run = j.run, m.name = j.name PROVE m.id <= j.id
    BY DEF StillNewest
  <2>1. PICK k \in collect.jobs : SameJob(k, m) /\ k.run = j.run /\ k.name = j.name /\ k.sha = sha
    BY <1>3, <1>5 DEF IsSuiteItem
  <2>2. SuiteItem(k) \in Items(sha)
    <3>1. IsSuiteItem(SuiteItem(k), k)
      BY <1>5, <2>1 DEF IsSuiteItem, Unknown
    <3> QED
      BY <2>1, <3>1, ItemsAre
  <2>3. SuiteItem(k).id <= c.id
    BY <1>2, <1>5, <2>1, <2>2, Keys DEF IsSuiteItem
  <2>4. SuiteItem(k).id = k.id /\ SuiteItem(j).id = j.id
    BY Fields
  <2> QED
    BY <1>5, <2>1, <2>3, <2>4 DEF IsSuiteItem, SameJob
<1> QED
  BY <1>2, <1>4, <1>5, ItemsAre

\* Two reported items of one key are one.
LEMMA ReportedIsOne ==
    ASSUME ChecksInv, NEW c \in Reported, NEW d \in Reported, c.key = d.key
    PROVE  c = d
<1>1. PICK sha \in Shas : c \in ChecksOf(sha) /\ d \in ChecksOf(sha)
  BY DEF Reported, Shas
<1>2. c \in Items(sha) /\ d \in Items(sha) /\ c.id <= d.id /\ d.id <= c.id
  BY <1>1 DEF ChecksOf, Newest
<1>3. CASE \E j, r : IsJobItem(c, j, r)
  <2>1. PICK j, r : IsJobItem(c, j, r)
    BY <1>3
  <2>2. PICK k, q : IsJobItem(d, k, q)
    BY <1>2, <2>1, ItemsAre, Keys DEF IsJobItem, IsSuiteItem, IsStatusItem
  <2>3. j.id <= k.id /\ k.id <= j.id /\ j.id \in Nat /\ k.id \in Nat
    BY <1>2, <2>1, <2>2, Fields, Typed DEF IsJobItem, JobsRun
  <2>4. j = k
    BY <2>1, <2>2, <2>3 DEF ChecksInv, ListsInv, Listed, Named, IsJobItem
  <2>5. r = q
    BY <2>1, <2>2, <2>4 DEF ChecksInv, ListsInv, Listed, Named, IsJobItem, Current
  <2> QED
    BY <2>1, <2>2, <2>4, <2>5 DEF IsJobItem
<1>4. CASE \E j : IsSuiteItem(c, j)
  <2>1. PICK j : IsSuiteItem(c, j)
    BY <1>4
  <2>2. PICK k : IsSuiteItem(d, k)
    BY <1>2, <2>1, ItemsAre, Keys DEF IsJobItem, IsSuiteItem, IsStatusItem
  <2>3. j.id <= k.id /\ k.id <= j.id /\ j.id \in Nat /\ k.id \in Nat
    BY <1>2, <2>1, <2>2, Fields, Typed DEF IsSuiteItem, JobsRun
  <2>4. j = k
    BY <2>1, <2>2, <2>3 DEF ChecksInv, ListsInv, Listed, Named, IsSuiteItem
  <2> QED
    BY <2>1, <2>2, <2>4 DEF IsSuiteItem
<1>5. CASE \E s : IsStatusItem(c, s)
  <2>1. PICK s : IsStatusItem(c, s)
    BY <1>5
  <2>2. PICK t : IsStatusItem(d, t)
    BY <1>2, <2>1, ItemsAre, Keys DEF IsJobItem, IsSuiteItem, IsStatusItem
  <2>3. s.id <= t.id /\ t.id <= s.id /\ s.id \in Nat /\ t.id \in Nat
    BY <1>2, <2>1, <2>2, Fields, Typed DEF IsStatusItem, Reports
  <2>4. s \in statuses /\ t \in statuses
    BY <2>1, <2>2 DEF ChecksInv, ListsInv, Listed, IsStatusItem
  <2>5. s = t
    BY <2>3, <2>4 DEF ChecksInv, GitHubInv, Named
  <2> QED
    BY <2>1, <2>2, <2>5 DEF IsStatusItem
<1> QED
  BY <1>2, <1>3, <1>4, <1>5, ItemsAre

LEMMA CountsIsLatest ==
    ASSUME ChecksInv, Done, NEW r \in runs, Counts(r), NEW q \in collect.runs, q.id = r.id
    PROVE  q \in LatestRuns
<1>1. ASSUME NEW x \in collect.runs PROVE \E y \in runs : SameRun(x, y)
  BY ListedIsThere
<1>2. SameRun(q, r)
  BY <1>1 DEF ChecksInv, GitHubInv, Named, SameRun
<1>3. ASSUME NEW x \in collect.runs, x.workflow = q.workflow PROVE ~Before(q, x)
  <2>1. PICK y \in runs : SameRun(x, y)
    BY <1>1
  <2>2. r \in Runs /\ y \in Runs /\ collect.merge = merge /\ (r.sha = "merge" => merge)
    BY Typed, AllListed DEF ChecksInv, GitHubInv, Placed
  <2>3. CASE y = r
    BY <1>2, <2>1, <2>2, <2>3 DEF Before, Runs, SameRun
  <2>4. CASE y # r /\ y.sha = r.sha
    <3>1. y.id < r.id
      BY <1>2, <1>3, <2>1, <2>4 DEF Counts, SameRun
    <3> QED
      BY <1>2, <2>1, <2>2, <2>4, <3>1 DEF Before, Runs, SameRun
  <2>5. CASE y.sha # r.sha
    <3>1. r.sha = "merge"
      BY <1>2, <1>3, <2>1, <2>5 DEF Counts, SameRun
    <3> QED
      BY <1>2, <2>1, <2>2, <2>5, <3>1 DEF Before, Preferred, SameRun
  <2> QED
    BY <2>3, <2>4, <2>5
<1> QED
  BY <1>3 DEF LatestRuns

\* The execution that counts has not been replaced; and if it is on the head, its
\* workflow has none on the test-merge commit.
LEMMA LatestFits ==
    ASSUME ChecksInv, Done, NEW r \in LatestRuns
    PROVE  /\ Current(r) /\ r \in Runs /\ r.sha \in {"head", "merge"}
           /\ \A q \in collect.runs : (q.workflow = r.workflow /\ q.sha = "merge") => r.sha = "merge"
<1>1. r \in collect.runs /\ \A q \in collect.runs : q.workflow = r.workflow => ~Before(r, q)
  BY DEF LatestRuns
<1>2. r \in Runs /\ r.sha \in {"head", "merge"}
  BY <1>1, Typed DEF Runs, Shas
<1>3. ~Superseded(r, collect.runs)
  <2>1. ASSUME NEW q \in collect.runs, q.workflow = r.workflow, q.sha = r.sha PROVE ~(q.id > r.id)
    <3>1. ~(r.id < q.id)
      BY <1>1, <2>1 DEF Before
    <3>2. r.id \in Nat /\ q.id \in Nat
      BY <1>2, Typed DEF Runs
    <3> QED
      BY <3>1, <3>2
  <2> QED
    BY <2>1 DEF Superseded
<1>4. ASSUME NEW q \in collect.runs, q.workflow = r.workflow, q.sha = "merge" PROVE r.sha = "merge"
  <2>1. PICK y \in runs : SameRun(q, y)
    BY ListedIsThere
  <2>2. collect.merge
    BY <1>4, <2>1, AllListed DEF ChecksInv, GitHubInv, Placed, SameRun
  <2> QED
    BY <1>1, <1>4, <2>2 DEF Before, Preferred
<1> QED
  BY <1>1, <1>2, <1>3, <1>4 DEF Current

\* The outcome of a job that has stood, of the execution that counts, is reported,
\* unless it is shadowed.
LEMMA OutcomeIsReported ==
    ASSUME ChecksInv, Done, NEW r \in LatestRuns, NEW j \in steady.jobs, j \in Outcomes(r), ~Shadowed(r, j)
    PROVE  JobItem(j, r) \in Reported
<1> DEFINE c == JobItem(j, r)
<1>1. /\ Current(r) /\ r \in Runs /\ r.sha \in {"head", "merge"}
      /\ \A q \in collect.runs : (q.workflow = r.workflow /\ q.sha = "merge") => r.sha = "merge"
  BY LatestFits
<1>2. j \in jobs /\ j.run = r.id /\ j \in collect.jobs
  BY KnownIsListed DEF Outcomes
<1>3. PICK p \in runs : SameRun(r, p)
  BY <1>1, ListedIsThere DEF Current
<1>4. j.sha = r.at /\ (r.at = r.sha \/ r.at = "merge")
  BY <1>2, <1>3, JobsCommit DEF SameRun, ChecksInv, GitHubInv, Placed
<1>5. IsJobItem(c, j, r) /\ c \in Items(j.sha) /\ c.id = j.id
  <2>1. IsJobItem(c, j, r)
    BY <1>1, <1>2 DEF IsJobItem
  <2> QED
    BY <2>1, ItemsAre, Fields
\* Another execution of the workflow, if it reports under the same key, is on the head.
<1>6. ASSUME NEW sha, NEW d \in Items(sha), d.key = c.key
      PROVE  \E k, q : /\ IsJobItem(d, k, q) /\ k.sha = sha
                       /\ q.workflow = r.workflow /\ k.name = j.name
                       /\ q = r \/ (q.sha = "head" /\ r.sha = "merge")
  <2>1. PICK k, q : IsJobItem(d, k, q) /\ k.sha = sha
    BY <1>6, ItemsAre, Keys DEF IsJobItem, IsSuiteItem, IsStatusItem
  <2>2. q.workflow = r.workflow /\ k.name = j.name
    BY <1>5, <1>6, <2>1, Keys DEF IsJobItem
  <2>3. Current(q) /\ q \in collect.runs /\ q.sha \in {"head", "merge"}
    BY <2>1, Typed DEF IsJobItem, Current, Runs, Shas
  <2>4. q.sha = r.sha => q = r
    BY <1>1, <2>2, <2>3, CurrentIsOne
  <2> QED
    BY <1>1, <2>1, <2>2, <2>3, <2>4
<1>7. ASSUME NEW d, NEW k, IsJobItem(d, k, r)
      PROVE  k.sha = j.sha /\ (k.name = j.name => k.id <= j.id)
  <2>1. PICK m \in jobs : SameJob(k, m)
    BY <1>7, ListedIsThere DEF IsJobItem
  <2>2. m.run = j.run
    BY <1>2, <1>7, <2>1 DEF IsJobItem, SameJob
  <2> QED
    BY <1>2, <2>1, <2>2, SameRunsCommit DEF Outcomes, SameJob
<1>8. c \in ChecksOf(j.sha)
  <2> SUFFICES ASSUME NEW d \in Items(j.sha), d.key = c.key PROVE d.id <= c.id
    BY <1>5 DEF ChecksOf, Newest
  <2>1. PICK k, q : /\ IsJobItem(d, k, q) /\ k.sha = j.sha
                    /\ q.workflow = r.workflow /\ k.name = j.name
                    /\ q = r \/ (q.sha = "head" /\ r.sha = "merge")
    BY <1>6
  <2>2. d.id = k.id
    BY <2>1, Fields DEF IsJobItem
  <2>3. CASE q = r
    BY <1>5, <1>7, <2>1, <2>2, <2>3
  <2>4. CASE q.sha = "head" /\ r.sha = "merge"
    <3>1. PICK x \in runs : SameRun(q, x)
      BY <2>1, ListedIsThere DEF IsJobItem, Current
    <3>2. PICK m \in jobs : SameJob(k, m)
      BY <2>1, ListedIsThere DEF IsJobItem
    <3>3. ~Superseded(x, Known.runs)
      BY <2>1, <3>1, NotReplaced DEF IsJobItem, SameRun
    <3>4. m.run = x.id /\ m.sha = "merge" /\ m.name = j.name /\ x.sha = "head" /\ x.workflow = r.workflow
      BY <1>4, <2>1, <2>4, <3>1, <3>2 DEF IsJobItem, SameRun, SameJob
    <3>5. ~(m.id > j.id)
      BY <2>4, <3>1, <3>2, <3>3, <3>4 DEF Shadowed
    <3>6. m.id \in Nat /\ j.id \in Nat
      BY <1>2, Typed DEF JobsRun
    <3> QED
      BY <1>5, <2>2, <3>2, <3>5, <3>6 DEF SameJob
  <2> QED
    BY <2>1, <2>3, <2>4
<1>9. CASE j.sha = "merge"
  BY <1>8, <1>9 DEF Reported
<1>10. CASE j.sha = "head"
  <2>1. r.sha = "head"
    BY <1>1, <1>4, <1>10
  <2>2. ASSUME NEW d \in ChecksOf("merge"), d.key = c.key PROVE FALSE
    <3>1. d \in Items("merge")
      BY DEF ChecksOf, Newest
    <3>2. PICK k, q : /\ IsJobItem(d, k, q) /\ k.sha = "merge"
                      /\ q = r \/ (q.sha = "head" /\ r.sha = "merge")
      BY <1>6, <2>2, <3>1
    <3>3. q = r
      BY <2>1, <3>2
    <3> QED
      BY <1>7, <1>10, <3>2, <3>3
  <2> QED
    BY <1>8, <1>10, <2>2 DEF Reported
<1> QED
  BY <1>1, <1>4, <1>9, <1>10

\* What is reported of a listed execution is the last attempt of a job of it.
LEMMA BucketIsJobs ==
    ASSUME ChecksInv, Done, NEW r \in collect.runs, NEW b \in BucketsOf(r)
    PROVE  \E j : IsJobItem(JobItem(j, r), j, r) /\ JobItem(j, r) \in Reported /\ StillNewest(j) /\ j.bucket = b
<1>1. PICK d \in Reported : d.run = r.id /\ d.bucket = b
  BY DEF BucketsOf
<1>2. r.id \in Nat \ {0}
  BY Typed DEF Runs
<1>3. CASE \E j, q : IsJobItem(d, j, q) /\ StillNewest(j)
  <2>1. PICK j, q : IsJobItem(d, j, q) /\ StillNewest(j)
    BY <1>3
  <2>2. q.id = r.id /\ j.bucket = b
    <3>1. JobItem(j, q).run = q.id /\ JobItem(j, q).bucket = j.bucket
      BY DEF JobItem, Check
    <3> QED
      BY <1>1, <2>1, <3>1 DEF IsJobItem
  <2>3. q = r
    BY <2>1, <2>2 DEF ChecksInv, ListsInv, Listed, Named, IsJobItem, Current
  <2> QED
    BY <2>1, <2>2, <2>3 DEF IsJobItem
<1>4. CASE \E j : IsSuiteItem(d, j) \/ IsStatusItem(d, j)
  <2>1. \A j : SuiteItem(j).run = 0 /\ StatusItem(j).run = 0
    BY Fields
  <2>2. d.run = 0
    BY <1>4, <2>1 DEF IsSuiteItem, IsStatusItem
  <2> QED
    BY <1>1, <1>2, <2>2
<1> QED
  BY <1>3, <1>4, ReportedAre

----------------------------------------------------------------------------
(* The verdict. *)

Effective == {c.bucket : c \in {d \in Collected : ~Bypassed(d)}}

Worst(E) == CHOOSE i \in DOMAIN Precedence :
               /\ Precedence[i] \in E
               /\ \A k \in 1..(i - 1) : Precedence[k] \notin E

LEMMA CollectedAre ==
    ASSUME NEW c
    PROVE  c \in Collected <=> c \in Reported \/ \E r \in LatestRuns : ~Represented(r) /\ c = RunItem(r)
  BY DEF Collected, RunItem

LEMMA BucketsAre ==
    ASSUME ChecksInv, Done
    PROVE  Effective \subseteq {"fail", "unknown", "pending", "cancel", "pass", "skip"}
<1> SUFFICES ASSUME NEW c \in Collected PROVE c.bucket \in Buckets
  BY ResultsAssumption DEF Effective, Buckets
<1>1. ASSUME NEW j, NEW r, IsJobItem(c, j, r) PROVE c.bucket \in Buckets
  <2>1. JobItem(j, r).bucket = j.bucket
    BY DEF JobItem, Check
  <2> QED
    BY <1>1, <2>1, Typed DEF IsJobItem, JobsRun
<1>2. ASSUME NEW j, IsSuiteItem(c, j) PROVE c.bucket \in Buckets
  BY <1>2, Fields, Typed DEF IsSuiteItem, JobsRun
<1>3. ASSUME NEW s, IsStatusItem(c, s) PROVE c.bucket \in Buckets
  BY <1>3, Fields, Typed DEF IsStatusItem, Reports
<1>4. ASSUME NEW r \in LatestRuns, c = RunItem(r) PROVE c.bucket \in Buckets
  BY <1>4, Fields, LatestFits DEF Runs
<1> QED
  BY <1>1, <1>2, <1>3, <1>4, CollectedAre, ReportedAre

LEMMA Chosen ==
    ASSUME NEW E, E # {}, E \subseteq {"fail", "unknown", "pending", "cancel", "pass", "skip"}
    PROVE  /\ Worst(E) \in 1..6 /\ Precedence[Worst(E)] \in E
           /\ \A k \in 1..(Worst(E) - 1) : Precedence[k] \notin E
<1> DEFINE P(i) == Precedence[i] \in E /\ \A k \in 1..(i - 1) : Precedence[k] \notin E
<1>1. /\ DOMAIN Precedence = 1..6
      /\ Precedence[1] = "fail" /\ Precedence[2] = "unknown" /\ Precedence[3] = "pending"
      /\ Precedence[4] = "cancel" /\ Precedence[5] = "pass" /\ Precedence[6] = "skip"
  BY DEF Precedence
<1>2. \E i \in 1..6 : P(i)
  <2>1. CASE "fail" \in E
    BY <1>1, <2>1
  <2>2. CASE "fail" \notin E /\ "unknown" \in E
    <3>1. P(2)
      BY <1>1, <2>2
    <3> QED
      BY <3>1
  <2>3. CASE "fail" \notin E /\ "unknown" \notin E /\ "pending" \in E
    <3>1. P(3)
      BY <1>1, <2>3
    <3> QED
      BY <3>1
  <2>4. CASE E \cap {"fail", "unknown", "pending"} = {} /\ "cancel" \in E
    <3>1. P(4)
      BY <1>1, <2>4
    <3> QED
      BY <3>1
  <2>5. CASE E \cap {"fail", "unknown", "pending", "cancel"} = {} /\ "pass" \in E
    <3>1. P(5)
      BY <1>1, <2>5
    <3> QED
      BY <3>1
  <2>6. CASE E \cap {"fail", "unknown", "pending", "cancel", "pass"} = {} /\ "skip" \in E
    <3>1. P(6)
      BY <1>1, <2>6
    <3> QED
      BY <3>1
  <2> QED
    BY <2>1, <2>2, <2>3, <2>4, <2>5, <2>6
<1>3. Worst(E) = CHOOSE i \in 1..6 : P(i)
  BY <1>1 DEF Worst
<1> HIDE DEF P
<1>4. Worst(E) \in 1..6 /\ P(Worst(E))
  BY <1>2, <1>3
<1> QED
  BY <1>4 DEF P

\* FAIL is the verdict exactly when something that is not bypassed failed, and
\* nothing that is waited for passes.
LEMMA VerdictMeans ==
    ASSUME ChecksInv, Done
    PROVE  /\ "fail" \in Effective <=> Verdict = "fail"
           /\ Verdict = "pass" => "pending" \notin Effective
<1> DEFINE w == Worst(Effective)
<1>1. /\ Precedence[1] = "fail" /\ Precedence[2] = "unknown" /\ Precedence[3] = "pending"
      /\ Precedence[4] = "cancel" /\ Precedence[5] = "pass" /\ Precedence[6] = "skip"
  BY DEF Precedence
<1>2. Verdict = IF Collected = {} THEN "no checks"
                ELSE IF Effective = {} THEN "bypass" ELSE Precedence[w]
  BY DEF Verdict, Effective, Worst
<1>3. Collected = {} => Effective = {}
  BY DEF Effective
<1>4. CASE Effective = {}
  BY <1>2, <1>4
<1>5. CASE Effective # {}
  <2>1. /\ w \in 1..6 /\ Precedence[w] \in Effective
        /\ \A k \in 1..(w - 1) : Precedence[k] \notin Effective
    BY <1>5, BucketsAre, Chosen
  <2>2. Verdict = Precedence[w]
    BY <1>2, <1>3, <1>5
  <2> HIDE DEF w
  <2>3. "fail" \in Effective => w = 1
    BY <1>1, <2>1
  <2>4. w # 1 => Precedence[w] # "fail"
    BY <1>1, <2>1
  <2>5. Precedence[w] = "pass" => w = 5
    BY <1>1, <2>1
  <2>6. w = 5 => "pending" \notin Effective
    BY <1>1, <2>1
  <2> QED
    BY <1>1, <2>1, <2>2, <2>3, <2>4, <2>5, <2>6
<1> QED
  BY <1>4, <1>5

LEMMA InEffective ==
    ASSUME NEW c \in Collected, c.name \notin Bypass
    PROVE  c.bucket \in Effective
  BY DEF Effective, Bypassed

\* What is reported of a job and is not bypassed takes part in the verdict, ...
LEMMA ReportedTakesPart ==
    ASSUME NEW j, NEW r, JobItem(j, r) \in Reported, j.name \notin Bypass
    PROVE  j.bucket \in Effective
<1>1. JobItem(j, r) \in Collected
  BY CollectedAre
<1>2. JobItem(j, r).name = j.name /\ JobItem(j, r).bucket = j.bucket
  BY Fields
<1> QED
  BY <1>1, <1>2, InEffective

\* ... and so does the conclusion of the execution that counts, unless it is good or
\* is that of a bypassed job.
LEMMA ConclusionTakesPart ==
    ASSUME ChecksInv, Done, NEW r \in LatestRuns, r.workflow \notin Bypass, r.bucket \notin {"pass", "skip"}
    PROVE  \/ r.bucket \in Effective
           \/ \E j : IsJobItem(JobItem(j, r), j, r) /\ StillNewest(j) /\ j.bucket = r.bucket /\ j.name \in Bypass
<1>1. CASE Represented(r)
  <2>1. r.bucket \in BucketsOf(r)
    BY <1>1 DEF Represented
  <2>2. PICK j : IsJobItem(JobItem(j, r), j, r) /\ JobItem(j, r) \in Reported /\ StillNewest(j) /\ j.bucket = r.bucket
    BY <2>1, BucketIsJobs DEF LatestRuns
  <2> QED
    BY <2>2, ReportedTakesPart
<1>2. CASE ~Represented(r)
  <2>1. RunItem(r) \in Collected
    BY <1>2, CollectedAre
  <2>2. RunItem(r).name = r.workflow /\ RunItem(r).bucket = r.bucket
    BY Fields
  <2> QED
    BY <2>1, <2>2, InEffective
<1> QED
  BY <1>1, <1>2

----------------------------------------------------------------------------
(* The theorems. *)

(* FailureIsVisible: whatever else is on the PR's two commits, and however *)
(* GitHub moves between the calls of Fetch, a failure that has stood since *)
(* the first of them, of a job of an execution that counts or of such an   *)
(* execution itself, makes Policy.Evaluate's verdict FAIL, unless it is    *)
(* bypassed, or a newer job of the execution on the head has its key.      *)
THEOREM FailureIsVisibleHolds == ChecksSpec => []FailureIsVisible
<1>1. ChecksInv => FailureIsVisible
  <2> SUFFICES ASSUME ChecksInv, Done, NEW r \in runs, Counts(r),
                      \/ \E j \in Outcomes(r) \cap steady.jobs :
                            j.bucket = "fail" /\ j.name \notin Bypass /\ ~Shadowed(r, j)
                      \/ r \in steady.runs /\ r.bucket = "fail" /\ r.workflow \notin Bypass
                            /\ ~\E j \in Outcomes(r) : j.bucket = "fail" /\ j.name \in Bypass
               PROVE  Verdict = "fail"
    BY DEF FailureIsVisible
  <2>1. ASSUME NEW j \in Outcomes(r) \cap steady.jobs, j.bucket = "fail", j.name \notin Bypass, ~Shadowed(r, j)
        PROVE  "fail" \in Effective
    <3>1. j \in jobs /\ j.run = r.id /\ j.id <= since.id
      BY DEF Outcomes, ChecksInv, ListsInv, Standing
    <3>2. r \in Known.runs
      BY <3>1 DEF Known, ChecksInv, ListsInv, Standing
    <3>3. PICK q \in collect.runs : SameRun(q, r)
      BY <3>2, KnownIsListed
    <3>4. q \in LatestRuns
      BY <3>3, CountsIsLatest DEF SameRun
    <3>5. j \in Outcomes(q) /\ ~Shadowed(q, j)
      BY <2>1, <3>3 DEF Outcomes, Shadowed, SameRun
    <3>6. JobItem(j, q) \in Reported
      BY <3>4, <3>5, OutcomeIsReported
    <3> QED
      BY <2>1, <3>6, ReportedTakesPart
  <2>2. ASSUME r \in steady.runs, r.bucket = "fail", r.workflow \notin Bypass,
               ~\E j \in Outcomes(r) : j.bucket = "fail" /\ j.name \in Bypass
        PROVE  "fail" \in Effective
    <3>1. r \in LatestRuns
      BY <2>2, KnownIsListed, CountsIsLatest
    <3>2. ASSUME NEW j, IsJobItem(JobItem(j, r), j, r), StillNewest(j), j.bucket = "fail", j.name \in Bypass
          PROVE  FALSE
      <4>1. PICK m \in jobs : SameJob(j, m) /\ (j.bucket = m.bucket \/ (j.bucket = "pending" /\ m \notin steady.jobs))
        BY <3>2, ListedIsThere DEF IsJobItem
      <4>2. m.bucket = "fail" /\ m.name \in Bypass /\ m.run = r.id /\ m.id = j.id
        BY <3>2, <4>1 DEF IsJobItem, SameJob
      <4>3. ASSUME NEW k \in jobs, k.run = r.id, k.name = m.name PROVE k.id <= m.id
        <5>1. k \in Known.jobs
          BY <2>2, <4>3, EndedStands, KnownIsListed
        <5> QED
          BY <3>2, <4>1, <4>2, <4>3, <5>1 DEF StillNewest, SameJob, IsJobItem
      <4> QED
        BY <2>2, <4>2, <4>3 DEF Outcomes
    <3> QED
      BY <2>2, <3>1, <3>2, ConclusionTakesPart
  <2> QED
    BY <2>1, <2>2, VerdictMeans
<1> QED
  BY <1>1, ChecksInvariantHolds, PTL

\* The listed job of an item, as it is now.
LEMMA ItemsJob ==
    ASSUME ChecksInv, Done, NEW j \in collect.jobs, StillNewest(j)
    PROVE  \E m \in jobs : /\ SameJob(j, m)
                           /\ j.bucket = m.bucket \/ (j.bucket = "pending" /\ m \notin steady.jobs)
                           /\ \A k \in Known.jobs : (k.run = m.run /\ k.name = m.name) => k.id <= m.id
  BY ListedIsThere DEF StillNewest, SameJob

(* BypassExcuses: whatever happens on GitHub between the calls of Fetch,   *)
(* FAIL takes a failed job or status that is not bypassed, or a failed     *)
(* execution which, unless it has changed meanwhile, has no bypassed job   *)
(* that failed and is not shadowed.                                        *)
THEOREM BypassExcusesHolds == ChecksSpec => []BypassExcuses
<1>1. ChecksInv => BypassExcuses
  <2> SUFFICES ASSUME ChecksInv, Done, Verdict = "fail" PROVE BypassExcuses
    BY DEF BypassExcuses
  <2>1. "fail" \in Effective
    BY VerdictMeans
  <2>2. PICK c \in Collected : c.bucket = "fail" /\ c.name \notin Bypass
    BY <2>1 DEF Effective, Bypassed
  <2>3. ASSUME NEW j \in collect.jobs, StillNewest(j), j.bucket = "fail", j.name \notin Bypass,
               \A r \in runs : r.id = j.run => ~Superseded(r, Known.runs)
        PROVE  BypassExcuses
    <3>1. PICK m \in jobs : /\ SameJob(j, m)
                            /\ j.bucket = m.bucket \/ (j.bucket = "pending" /\ m \notin steady.jobs)
                            /\ \A k \in Known.jobs : (k.run = m.run /\ k.name = m.name) => k.id <= m.id
      BY <2>3, ItemsJob
    <3>2. m.bucket = "fail" /\ m.name \notin Bypass /\ m.run = j.run
      BY <2>3, <3>1 DEF SameJob
    <3> QED
      BY <2>3, <3>1, <3>2 DEF BypassExcuses
  <2>4. ASSUME NEW j, NEW r, IsJobItem(c, j, r), StillNewest(j) PROVE BypassExcuses
    <3>1. j.bucket = "fail" /\ j.name \notin Bypass
      BY <2>2, <2>4, Fields DEF IsJobItem
    <3>2. \A q \in runs : q.id = j.run => ~Superseded(q, Known.runs)
      BY <2>4, NotReplaced DEF IsJobItem
    <3> QED
      BY <2>3, <2>4, <3>1, <3>2 DEF IsJobItem
  <2>5. ASSUME NEW j, IsSuiteItem(c, j), StillNewest(j) PROVE BypassExcuses
    <3>1. j.bucket = "fail" /\ j.name \notin Bypass
      BY <2>2, <2>5, Fields DEF IsSuiteItem
    <3>2. \A q \in runs : q.id = j.run => ~Superseded(q, Known.runs)
      BY <2>5, UnknownIsLater DEF IsSuiteItem
    <3> QED
      BY <2>3, <2>5, <3>1, <3>2 DEF IsSuiteItem
  <2>6. ASSUME NEW s, IsStatusItem(c, s) PROVE BypassExcuses
    <3>1. s.bucket = "fail" /\ s.name \notin Bypass
      BY <2>2, <2>6, Fields DEF IsStatusItem
    <3>2. s \in statuses
      BY <2>6 DEF IsStatusItem, ChecksInv, ListsInv, Listed
    <3> QED
      BY <3>1, <3>2 DEF BypassExcuses
  <2>7. ASSUME NEW r \in LatestRuns, ~Represented(r), c = RunItem(r) PROVE BypassExcuses
    <3>1. r.bucket = "fail" /\ r.workflow \notin Bypass
      BY <2>2, <2>7, Fields
    <3>2. Current(r) /\ r \in collect.runs
      BY LatestFits DEF LatestRuns
    <3>3. ~Superseded(r, Known.runs)
      <4>1. PICK p \in runs : SameRun(r, p)
        BY <3>2, ListedIsThere
      <4>2. ~Superseded(p, Known.runs)
        BY <3>2, <4>1, NotReplaced DEF SameRun
      <4> QED
        BY <4>1, <4>2 DEF Superseded, SameRun
    <3>4. ASSUME r \in steady.runs, NEW j \in BypassedFailure(r) PROVE FALSE
      <4>1. j \in Outcomes(r) /\ j \in jobs /\ j.run = r.id /\ j.bucket = "fail" /\ ~Shadowed(r, j)
        BY <3>4 DEF BypassedFailure, Outcomes
      <4>2. j \in steady.jobs
        BY <3>1, <3>4, <4>1, EndedStands
      <4>3. JobItem(j, r) \in Reported
        BY <4>1, <4>2, OutcomeIsReported
      <4>4. JobItem(j, r).run = r.id /\ JobItem(j, r).bucket = "fail"
        <5>1. JobItem(j, r).run = r.id /\ JobItem(j, r).bucket = j.bucket
          BY DEF JobItem, Check
        <5> QED
          BY <4>1, <5>1
      <4>5. "fail" \in BucketsOf(r)
        BY <4>3, <4>4 DEF BucketsOf
      <4> QED
        BY <2>7, <3>1, <4>5 DEF Represented
    <3> QED
      BY <3>1, <3>2, <3>3, <3>4 DEF BypassExcuses
  <2> QED
    BY <2>4, <2>5, <2>6, <2>7, CollectedAre, ReportedAre
<1> QED
  BY <1>1, ChecksInvariantHolds, PTL

\* Two executions of one workflow cannot both be the latest.
LEMMA LatestIsOne ==
    ASSUME ChecksInv, Done, NEW r \in LatestRuns, NEW q \in LatestRuns, r.workflow = q.workflow
    PROVE  r = q
<1>1. /\ Current(r) /\ r.sha \in {"head", "merge"} /\ r \in collect.runs
      /\ Current(q) /\ q.sha \in {"head", "merge"} /\ q \in collect.runs
  BY LatestFits DEF Current
<1>2. r.sha = q.sha
  BY <1>1, LatestFits
<1> QED
  BY <1>1, <1>2, CurrentIsOne

(* SupersededNeverCounts: nothing of an execution, and no attempt of a     *)
(* job, that had been replaced when the collection began is returned, a    *)
(* job is returned as it is now or as it was when it was under way, and no *)
(* two items have one key; however GitHub moves between the calls.         *)
THEOREM SupersededNeverCountsHolds == ChecksSpec => []SupersededNeverCounts
<1>1. ChecksInv => SupersededNeverCounts
  <2> SUFFICES ASSUME ChecksInv, Done PROVE SupersededNeverCounts
    BY DEF SupersededNeverCounts
  <2>1. ASSUME NEW c \in Collected, NEW r \in runs, r.id = c.run PROVE ~Superseded(r, Known.runs)
    <3>1. CASE \E j, q : IsJobItem(c, j, q) /\ StillNewest(j)
      <4>1. PICK j, q : IsJobItem(c, j, q)
        BY <3>1
      <4>2. JobItem(j, q).run = q.id
        BY DEF JobItem, Check
      <4>3. Current(q) /\ r.id = q.id
        BY <2>1, <4>1, <4>2 DEF IsJobItem
      <4> QED
        BY <4>3, NotReplaced
    <3>2. CASE \E x : IsSuiteItem(c, x) \/ IsStatusItem(c, x)
      <4>1. c.run = 0
        <5>1. \A x : SuiteItem(x).run = 0 /\ StatusItem(x).run = 0
          BY Fields
        <5> QED
          BY <3>2, <5>1 DEF IsSuiteItem, IsStatusItem
      <4> QED
        BY <2>1, <4>1, Typed DEF Runs
    <3>3. CASE \E q \in LatestRuns : c = RunItem(q)
      <4>1. PICK q \in LatestRuns : c = RunItem(q)
        BY <3>3
      <4>2. Current(q) /\ r.id = q.id
        BY <2>1, <4>1, Fields, LatestFits
      <4> QED
        BY <4>2, NotReplaced
    <3> QED
      BY <3>1, <3>2, <3>3, CollectedAre, ReportedAre
  <2>2. ASSUME NEW c \in Collected, c.key[1] \in {"job", "suite"}
        PROVE  \E m \in jobs : /\ m.id = c.id
                               /\ c.bucket = m.bucket \/ (c.bucket = "pending" /\ m \notin steady.jobs)
                               /\ \A k \in Known.jobs : (k.run = m.run /\ k.name = m.name) => k.id <= m.id
    <3>1. PICK j \in collect.jobs : StillNewest(j) /\ c.id = j.id /\ c.bucket = j.bucket
      <4>1. ASSUME NEW j, NEW r, IsJobItem(c, j, r), StillNewest(j)
            PROVE  j \in collect.jobs /\ c.id = j.id /\ c.bucket = j.bucket
        BY <4>1, Fields DEF IsJobItem
      <4>2. ASSUME NEW j, IsSuiteItem(c, j), StillNewest(j)
            PROVE  j \in collect.jobs /\ c.id = j.id /\ c.bucket = j.bucket
        BY <4>2, Fields DEF IsSuiteItem
      <4>3. ASSUME NEW s, IsStatusItem(c, s) PROVE FALSE
        BY <2>2, <4>3, Keys DEF IsStatusItem
      <4>4. ASSUME NEW r, c = RunItem(r) PROVE FALSE
        BY <2>2, <4>4, Keys
      <4> QED
        BY <4>1, <4>2, <4>3, <4>4, CollectedAre, ReportedAre
    <3>2. PICK m \in jobs : /\ SameJob(j, m)
                            /\ j.bucket = m.bucket \/ (j.bucket = "pending" /\ m \notin steady.jobs)
                            /\ \A k \in Known.jobs : (k.run = m.run /\ k.name = m.name) => k.id <= m.id
      BY <3>1, ItemsJob
    <3> QED
      BY <3>1, <3>2 DEF SameJob
  <2>3. ASSUME NEW c \in Collected, NEW d \in Collected, c.key = d.key PROVE c = d
    <3>1. CASE c \in Reported /\ d \in Reported
      BY <2>3, <3>1, ReportedIsOne
    <3>2. ASSUME NEW r \in LatestRuns, NEW x \in Collected, x.key = RunItem(r).key PROVE x = RunItem(r)
      <4>1. x.key[1] = "run"
        BY <3>2, Keys
      <4>2. x \notin Reported
        BY <4>1, ReportedAre, Keys DEF IsJobItem, IsSuiteItem, IsStatusItem
      <4>3. PICK q \in LatestRuns : x = RunItem(q)
        BY <4>2, CollectedAre
      <4>4. q = r
        BY <3>2, <4>3, Keys, LatestIsOne
      <4> QED
        BY <4>3, <4>4
    <3> QED
      BY <2>3, <3>1, <3>2, CollectedAre
  <2> QED
    BY <2>1, <2>2, <2>3 DEF SupersededNeverCounts
<1> QED
  BY <1>1, ChecksInvariantHolds, PTL

(* PassIsComplete: PASS is never shown for an execution that counts and    *)
(* has been under way since the collection began, unless a job that is     *)
(* bypassed is, or was when it was listed, still pending.                  *)
THEOREM PassIsCompleteHolds == ChecksSpec => []PassIsComplete
<1>1. ChecksInv => PassIsComplete
  <2> SUFFICES ASSUME ChecksInv, Done, Verdict = "pass",
                      NEW r \in steady.runs, Counts(r), r.bucket = "pending", r.workflow \notin Bypass
               PROVE  \E j \in jobs : /\ j.run = r.id /\ j.name \in Bypass
                                      /\ j.bucket = "pending" \/ j \notin steady.jobs
    BY DEF PassIsComplete
  <2>1. r \in LatestRuns
    <3>1. r \in runs /\ r \in collect.runs
      BY KnownIsListed DEF ChecksInv, ListsInv, Standing
    <3> QED
      BY <3>1, CountsIsLatest
  <2>2. "pending" \notin Effective
    BY VerdictMeans
  <2>3. PICK j : IsJobItem(JobItem(j, r), j, r) /\ StillNewest(j) /\ j.bucket = "pending" /\ j.name \in Bypass
    BY <2>1, <2>2, ConclusionTakesPart
  <2>4. PICK m \in jobs : SameJob(j, m) /\ (j.bucket = m.bucket \/ (j.bucket = "pending" /\ m \notin steady.jobs))
    BY <2>3, ListedIsThere DEF IsJobItem
  <2> QED
    BY <2>3, <2>4 DEF SameJob, IsJobItem
<1> QED
  BY <1>1, ChecksInvariantHolds, PTL

=============================================================================
