-------------------------- MODULE ReactionsProofs --------------------------
(***************************************************************************)
(* What Reactions promises for any number of reactions and workers, and    *)
(* however often connections break, workers die, the server restarts and   *)
(* writes or messages fail.                                                *)
(***************************************************************************)
EXTENDS Reactions, TLAPS

----------------------------------------------------------------------------
(* The inductive invariant. *)

Claims == [pc: {"assigned", "counted", "failed"}, reaction: Reactions, worker: Workers]

ExecutorIsAt(r) == local # Idle /\ local.reaction = r

\* What the server's executor runs is running at the server, whoever else looks at the
\* row, and so is what it could not save the end of.  The scheduler's claim is one for
\* a worker.
Executed ==
    /\ row \in [Reactions -> Row] /\ told \in [Reactions -> Nat]
    /\ telling \subseteq Tellers
    /\ sched \in {Idle} \cup Claims
    /\ \/ local = Idle
       \/ local.pc = "read" /\ local.reaction \in Reactions
       \/ local.pc = "running" /\ local.reaction \in Reactions /\ RunningAt(local.reaction, Local)
    /\ \A r \in Reactions \cap unsaved : RunningAt(r, Local) /\ ~ExecutorIsAt(r)

\* r is told once when it has ended, or still to be told by one goroutine, or missed.
Accounted(r) ==
    /\ told[r] = (IF Ended(r) /\ ~BeingTold(r) /\ r \notin missed THEN 1 ELSE 0)
    /\ BeingTold(r) => Ended(r)
    /\ r \in missed => Ended(r) /\ ~BeingTold(r)
    /\ \A t, u \in telling : t.reaction = r /\ u.reaction = r => t = u

Answering == Executed /\ \A r \in Reactions \ reopened : Accounted(r)

LEMMA RowTypes ==
    ASSUME Answering, NEW r \in Reactions
    PROVE  /\ row[r] \in Row /\ told[r] \in Nat
           /\ row[r].status \in {"none", "pending", "running", "settled"}
  BY DEF Answering, Executed, Row

\* No reaction ends and nobody is told.
LEMMA NothingSaid ==
    ASSUME Answering, Executed', UNCHANGED <<told, telling, missed, unsaved>>,
           reopened \subseteq reopened',
           \A r \in Reactions \ reopened' :
               row'[r].status = "settled" <=> row[r].status = "settled"
    PROVE  Answering'
  BY DEF Answering, Accounted, Ended, BeingTold

\* The scheduler goes on with the claim it has, or drops it.
ClaimKept ==
    \/ sched' = sched \/ sched' = Idle
    \/ sched # Idle /\ \E pc \in {"counted", "failed"} : sched' = [sched EXCEPT !.pc = pc]

LEMMA ClaimStays ==
    ASSUME Answering, ClaimKept
    PROVE  sched' \in {Idle} \cup Claims
  BY DEF ClaimKept, Answering, Executed, Claims

\* A step that no row and no answer is part of.
LEMMA NoRowMoves ==
    ASSUME Answering, UNCHANGED <<row, told, telling, missed, unsaved, local, reopened>>, ClaimKept
    PROVE  Answering'
  <1>1. Executed'
    BY ClaimStays DEF Answering, Executed, RunningAt, ExecutorIsAt
  <1> QED
    BY <1>1, NothingSaid

\* The rows of other reactions stay; that of r changes and is settled before as after,
\* unless r has been executed twice already; and the executor is not at r.
LEMMA RowMoves ==
    ASSUME Answering, NEW r \in Reactions, NEW new \in Row,
           row' = [row EXCEPT ![r] = new],
           UNCHANGED <<told, telling, missed, unsaved, local, reopened>>,
           row[r].status # "settled", new.status # "settled",
           ~RunningAt(r, Local),
           sched' = sched \/ sched' \in Claims
    PROVE  Answering'
  <1>1. /\ row' \in [Reactions -> Row] /\ row'[r] = new
        /\ \A s \in Reactions \ {r} : row'[s] = row[s]
    BY DEF Answering, Executed
  <1>2. Executed'
    BY <1>1 DEF Answering, Executed, RunningAt, ExecutorIsAt
  <1> QED
    BY <1>1, <1>2, NothingSaid

\* RequeueReaction takes back only what runs at a worker.
LEMMA RequeueKeepsAnswers ==
    ASSUME Answering, Local \notin Workers, NEW w \in Workers, NEW rs, Requeue(rs, w),
           UNCHANGED <<told, telling, missed, unsaved, local, reopened>>, ClaimKept
    PROVE  Answering'
  <1>1. \A r \in Reactions :
           /\ row'[r] = row[r]
              \/ /\ RunningAt(r, w)
                 /\ row'[r] = [row[r] EXCEPT !.status = "pending", !.worker = Local]
           /\ row[r] \in Row
    BY RowTypes DEF Requeue
  <1>2. DOMAIN row' = Reactions /\ row' = [r \in Reactions |-> row'[r]]
    BY DEF Requeue
  <1>3. ASSUME NEW r \in Reactions
        PROVE  /\ row'[r] \in Row
               /\ row'[r].status = "settled" <=> row[r].status = "settled"
               /\ RunningAt(r, Local) => row'[r] = row[r]
    BY <1>1 DEF Row, Hosts, RunningAt
  <1>4. row' \in [Reactions -> Row]
    BY <1>2, <1>3
  <1>5. Executed'
    BY <1>3, <1>4, ClaimStays DEF Answering, Executed, RunningAt, ExecutorIsAt
  <1> QED
    BY <1>3, <1>5, NothingSaid

\* A reaction ends, and the goroutine that ended it goes on to tell of it.
LEMMA EndingKeepsAnswers ==
    ASSUME Answering, Executed', NEW r \in Reactions, NEW w \in Hosts,
           ~Ended(r), Ended(r)', StartTelling(w, r), UNCHANGED reopened,
           \A s \in Reactions \ {r} : Ended(s)' <=> Ended(s)
    PROVE  Answering'
  <1> DEFINE new == [worker |-> w, reaction |-> r, connection |-> "live"]
  <1>1. /\ telling' = telling \cup {new} /\ new.reaction = r
        /\ UNCHANGED <<told, missed>>
    BY DEF StartTelling
  <1> HIDE DEF new
  <1>2. ASSUME NEW s \in Reactions \ reopened
        PROVE  Accounted(s)'
    <2>1. Accounted(s)
      BY DEF Answering
    <2>2. CASE s = r
      <3>1. told[s] = 0 /\ s \notin missed /\ \A t \in telling : t.reaction # s
        BY <2>1, <2>2 DEF Accounted, BeingTold
      <3> QED
        BY <1>1, <2>2, <3>1 DEF Accounted, BeingTold
    <2>3. CASE s # r
      BY <1>1, <2>1, <2>3 DEF Accounted, BeingTold
    <2> QED
      BY <2>2, <2>3
  <1> QED
    BY <1>2 DEF Answering

\* One goroutine's attempt ends, and it was the only one to tell of that reaction.
LEMMA TellKeepsAnswers ==
    ASSUME Answering, NEW t \in telling, Tell(t)
    PROVE  Answering'
  <1>1. /\ telling' = telling \ {t} /\ t.reaction \in Reactions
        /\ UNCHANGED <<row, unsaved, sched, local, reopened>>
    BY DEF Tell, pool, notes, Answering, Executed, Tellers
  <1>2. \/ told' = [told EXCEPT ![t.reaction] = @ + 1] /\ missed' = missed
        \/ missed' = missed \cup {t.reaction} /\ told' = told
    BY DEF Tell
  <1>3. /\ told' \in [Reactions -> Nat]
        /\ \A s \in Reactions \ {t.reaction} : told'[s] = told[s]
        /\ told' # told => told'[t.reaction] = told[t.reaction] + 1
    BY <1>1, <1>2 DEF Answering, Executed
  <1>4. Executed'
    BY <1>1, <1>3 DEF Answering, Executed, RunningAt, ExecutorIsAt
  <1>5. ASSUME NEW s \in Reactions \ reopened
        PROVE  Accounted(s)'
    <2>1. Accounted(s) /\ (Ended(s)' <=> Ended(s))
      BY <1>1 DEF Answering, Ended
    <2>2. CASE s = t.reaction
      <3>1. BeingTold(s) /\ Ended(s) /\ told[s] = 0 /\ s \notin missed
        BY <2>1, <2>2 DEF Accounted, BeingTold
      <3>2. ~BeingTold(s)'
        BY <1>1, <2>1, <2>2 DEF Accounted, BeingTold
      <3>3. \/ told'[s] = 1 /\ s \notin missed'
            \/ told'[s] = 0 /\ s \in missed'
        <4>1. CASE told' = [told EXCEPT ![t.reaction] = @ + 1] /\ missed' = missed
          BY <2>2, <3>1, <4>1 DEF Answering, Executed
        <4>2. CASE missed' = missed \cup {t.reaction} /\ told' = told
          BY <2>2, <3>1, <4>2
        <4> QED
          BY <1>2, <4>1, <4>2
      <3> QED
        BY <1>1, <2>1, <3>1, <3>2, <3>3 DEF Accounted, BeingTold
    <2>3. CASE s # t.reaction
      <3>1. (BeingTold(s)' <=> BeingTold(s)) /\ told'[s] = told[s]
            /\ (s \in missed' <=> s \in missed)
        BY <1>1, <1>2, <1>3, <2>3 DEF BeingTold
      <3> QED
        BY <1>1, <2>1, <3>1 DEF Accounted
    <2> QED
      BY <2>2, <2>3
  <1> QED
    BY <1>1, <1>4, <1>5 DEF Answering

\* Goroutines that tell outlive their connections.
LEMMA OutlivesKeepsAnswers ==
    ASSUME Answering, NEW w \in Workers, Outlives(w),
           UNCHANGED <<row, told, missed, unsaved, local, sched, reopened>>
    PROVE  Answering'
  <1> DEFINE Old(t) == IF t.worker = w THEN [t EXCEPT !.connection = "replaced"] ELSE t
  <1>1. telling' = {Old(t) : t \in telling}
    BY DEF Outlives
  <1>2. ASSUME NEW t \in telling
        PROVE  Old(t) \in Tellers /\ Old(t).reaction = t.reaction
    BY DEF Answering, Executed, Tellers
  <1> HIDE DEF Old
  <1>3. telling' \subseteq Tellers
    BY <1>1, <1>2
  <1>4. Executed'
    BY <1>3 DEF Answering, Executed, RunningAt, ExecutorIsAt
  <1>5. ASSUME NEW s \in Reactions \ reopened
        PROVE  Accounted(s)'
    <2>1. Accounted(s) /\ (Ended(s)' <=> Ended(s))
      BY DEF Answering, Ended
    <2>2. BeingTold(s)' <=> BeingTold(s)
      BY <1>1, <1>2 DEF BeingTold
    <2>3. ASSUME NEW t \in telling', NEW u \in telling', t.reaction = s, u.reaction = s
          PROVE  t = u
      <3>1. PICK x \in telling, y \in telling : t = Old(x) /\ u = Old(y)
        BY <1>1, <2>3
      <3>2. x.reaction = s /\ y.reaction = s
        BY <1>2, <2>3, <3>1
      <3>3. x = y
        BY <2>1, <3>2 DEF Accounted
      <3> QED
        BY <3>1, <3>3
    <2> QED
      BY <2>1, <2>2, <2>3 DEF Accounted
  <1> QED
    BY <1>4, <1>5 DEF Answering

\* A restart leaves the reactions that were being told as missed.
LEMMA RestartKeepsAnswers ==
    ASSUME Answering, Restart
    PROVE  Answering'
  <1>1. /\ UNCHANGED <<row, told, unsaved, reopened>> /\ sched' = Idle /\ local' = Idle
        /\ telling' = {} /\ missed' = missed \cup {t.reaction : t \in telling}
    BY DEF Restart, notes
  <1>2. Executed'
    BY <1>1 DEF Answering, Executed, RunningAt, ExecutorIsAt
  <1>3. ASSUME NEW s \in Reactions \ reopened
        PROVE  Accounted(s)'
    <2>1. Accounted(s) /\ (Ended(s)' <=> Ended(s))
      BY <1>1 DEF Answering, Ended
    <2>2. ~BeingTold(s)' /\ (s \in missed' <=> s \in missed \/ BeingTold(s))
      BY <1>1 DEF BeingTold
    <2> QED
      BY <1>1, <2>1, <2>2 DEF Accounted
  <1> QED
    BY <1>1, <1>2, <1>3 DEF Answering

LEMMA ActKeepsAnswers ==
    ASSUME Answering, NEW r \in Reactions, home \in Hosts, Act(r)
    PROVE  Answering'
  <1> DEFINE new == [status |-> "pending", worker |-> Local, session |-> home]
  <1>1. /\ row[r].status = "none" /\ row' = [row EXCEPT ![r] = new]
        /\ UNCHANGED <<told, telling, missed, unsaved, local, reopened, sched>>
    BY DEF Act, hub, pool, notes, notices
  <1>2. new \in Row /\ new.status = "pending"
    BY DEF Row, Hosts
  <1>3. ~RunningAt(r, Local)
    BY <1>1 DEF RunningAt
  <1> HIDE DEF new
  <1> QED
    BY <1>1, <1>2, <1>3, RowMoves

LEMMA AssignKeepsAnswers ==
    ASSUME Answering, NEW r \in Reactions, NEW w \in Workers, Assign(r, w)
    PROVE  Answering'
  <1> DEFINE new == [row[r] EXCEPT !.status = "running", !.worker = w]
  <1>1. /\ row[r].status = "pending" /\ row[r] \in Row
        /\ UNCHANGED <<told, telling, missed, unsaved, local, reopened>> /\ sched' \in Claims
    BY RowTypes DEF Assign, pool, notes, notices, Claims
  <1>2. row' = [row EXCEPT ![r] = new]
    BY DEF Answering, Executed, Assign, Running
  <1>3. new \in Row /\ new.status = "running" /\ ~RunningAt(r, Local)
    BY <1>1 DEF Row, Hosts, RunningAt
  <1> HIDE DEF new
  <1> QED
    BY <1>1, <1>2, <1>3, RowMoves

\* The executor takes a copy of a reaction that is pending, or skips it.
LEMMA BeginKeepsAnswers ==
    ASSUME Answering, NEW r \in Reactions, Begin(r)
    PROVE  Answering'
  <1>1. /\ UNCHANGED <<row, told, telling, missed, unsaved, reopened, sched>>
        /\ \/ local' = local
           \/ /\ row[r].status = "pending"
              /\ local' = [pc |-> "read", reaction |-> r]
    BY DEF Begin, StillPending, hub, notes, notices
  <1>2. Executed'
    BY <1>1 DEF Answering, Executed, RunningAt, ExecutorIsAt
  <1> QED
    BY <1>1, <1>2, NothingSaid

\* The executor's write may find the row a worker's by now: then it is no longer said
\* of the reaction that it is answered once.
LEMMA StartKeepsAnswers ==
    ASSUME Answering, Start
    PROVE  Answering'
  <1>1. PICK r \in Reactions : r = local.reaction /\ local # Idle /\ local.pc = "read"
    BY DEF Answering, Executed, Start, Idle
  <1>2. UNCHANGED <<told, telling, missed, unsaved, sched>>
    BY DEF Start, hub, notices
  <1>3. CASE local' = Idle /\ UNCHANGED <<row, notes>>
    <2>1. Executed' /\ reopened' = reopened
      BY <1>2, <1>3 DEF Answering, Executed, RunningAt, ExecutorIsAt, notes
    <2> QED
      BY <1>2, <1>3, <2>1, NothingSaid
  <1>4. CASE /\ row' = Running(r, Local)
             /\ reopened' = IF StillPending(r) THEN reopened ELSE reopened \cup {r}
             /\ local' = [local EXCEPT !.pc = "running"]
    <2>1. /\ row'[r] = [row[r] EXCEPT !.status = "running", !.worker = Local]
          /\ \A s \in Reactions \ {r} : row'[s] = row[s]
          /\ row[r] \in Row
      BY <1>4, RowTypes DEF Answering, Executed, Running
    <2>2. /\ row'[r] \in Row /\ row'[r].status = "running"
          /\ row'[r].worker = Local
      BY <2>1 DEF Row, Hosts
    <2>3. row' \in [Reactions -> Row]
      BY <1>4, <2>1, <2>2 DEF Answering, Executed, Running
    <2>4. local'.pc = "running" /\ local'.reaction = r
      BY <1>1, <1>4 DEF Answering, Executed
    <2>5. r \notin unsaved
      BY <1>1 DEF Answering, Executed, ExecutorIsAt
    <2>6. Executed'
      <3>1. RunningAt(r, Local)'
        BY <2>2, <2>4 DEF RunningAt
      <3>2. \A s \in Reactions \cap unsaved : RunningAt(s, Local)' /\ ~ExecutorIsAt(s)'
        BY <2>1, <2>4, <2>5 DEF Answering, Executed, RunningAt, ExecutorIsAt
      <3> QED
        BY <1>2, <2>3, <2>4, <3>1, <3>2 DEF Answering, Executed
    <2>7. /\ reopened \subseteq reopened'
          /\ \A s \in Reactions \ reopened' :
                row'[s].status = "settled" <=> row[s].status = "settled"
      BY <1>4, <2>1, <2>2 DEF StillPending
    <2> QED
      BY <1>2, <2>6, <2>7, NothingSaid
  <1> QED
    BY <1>1, <1>3, <1>4 DEF Start

LEMMA SettledRow ==
    ASSUME Answering, NEW r \in Reactions, row' = Settled(r)
    PROVE  /\ row' \in [Reactions -> Row] /\ row'[r].status = "settled"
           /\ \A s \in Reactions \ {r} : row'[s] = row[s]
  <1>1. /\ row'[r] = [row[r] EXCEPT !.status = "settled"]
        /\ \A s \in Reactions \ {r} : row'[s] = row[s]
        /\ row[r] \in Row
    BY RowTypes DEF Answering, Executed, Settled
  <1>2. row'[r] \in Row /\ row'[r].status = "settled"
    BY <1>1 DEF Row
  <1>3. row' \in [Reactions -> Row]
    BY <1>1, <1>2 DEF Answering, Executed, Settled
  <1> QED
    BY <1>1, <1>2, <1>3

LEMMA TellersGrow ==
    ASSUME Answering, NEW r \in Reactions, NEW w \in Hosts, StartTelling(w, r)
    PROVE  telling' \subseteq Tellers /\ told' = told
  BY DEF Answering, Executed, StartTelling, Tellers

\* Saved or not, the executor goes on to tell.
LEMMA FinishKeepsAnswers ==
    ASSUME Answering, Finish
    PROVE  Answering'
  <1>1. PICK r \in Reactions :
           r = local.reaction /\ local # Idle /\ RunningAt(r, Local) /\ r \notin unsaved
    BY DEF Answering, Executed, Finish, Idle, ExecutorIsAt
  <1>2. /\ StartTelling(Local, r) /\ UNCHANGED <<sched, reopened>>
        /\ local' = Idle /\ row[r].status = "running" /\ Local \in Hosts
        /\ \/ row' = Settled(r) /\ unsaved' = unsaved
           \/ unsaved' = unsaved \cup {r} /\ row' = row
    BY <1>1 DEF Finish, hub, notes, RunningAt, Hosts
  <1>3. telling' \subseteq Tellers /\ told' = told
    BY <1>2, TellersGrow
  <1>4. ~Ended(r)
    BY <1>1, <1>2 DEF Ended
  <1>5. CASE row' = Settled(r) /\ unsaved' = unsaved
    <2>1. /\ row' \in [Reactions -> Row] /\ row'[r].status = "settled"
          /\ \A s \in Reactions \ {r} : row'[s] = row[s]
      BY <1>5, SettledRow
    <2>2. Executed'
      BY <1>1, <1>2, <1>3, <1>5, <2>1 DEF Answering, Executed, RunningAt, ExecutorIsAt
    <2>3. Ended(r)' /\ \A s \in Reactions \ {r} : Ended(s)' <=> Ended(s)
      BY <1>5, <2>1 DEF Ended
    <2> QED
      BY <1>2, <1>4, <2>2, <2>3, EndingKeepsAnswers
  <1>6. CASE unsaved' = unsaved \cup {r} /\ row' = row
    <2>1. Executed'
      BY <1>1, <1>2, <1>3, <1>6 DEF Answering, Executed, RunningAt, ExecutorIsAt
    <2>2. Ended(r)' /\ \A s \in Reactions \ {r} : Ended(s)' <=> Ended(s)
      BY <1>6 DEF Ended
    <2> QED
      BY <1>2, <1>4, <2>1, <2>2, EndingKeepsAnswers
  <1> QED
    BY <1>2, <1>5, <1>6

\* A completion settles what runs at the worker it comes from.
LEMMA CompleteKeepsAnswers ==
    ASSUME Answering, Local \notin Workers, NEW w \in Workers, HandleComplete(w)
    PROVE  Answering'
  <1>1. /\ UNCHANGED <<sched, local, reopened, unsaved>>
        /\ \E r \in Reactions :
              \/ RunningAt(r, w) /\ row' = Settled(r) /\ StartTelling(w, r)
              \/ UNCHANGED <<row, told, telling, missed>>
    BY DEF HandleComplete, Owned, pool, hub
  <1>2. CASE UNCHANGED <<row, told, telling, missed>>
    BY <1>1, <1>2, NoRowMoves DEF ClaimKept
  <1>3. CASE \E r \in Reactions : RunningAt(r, w) /\ row' = Settled(r) /\ StartTelling(w, r)
    <2>1. PICK r \in Reactions : RunningAt(r, w) /\ row' = Settled(r) /\ StartTelling(w, r)
      BY <1>3
    <2>2. /\ row' \in [Reactions -> Row] /\ row'[r].status = "settled"
          /\ \A s \in Reactions \ {r} : row'[s] = row[s]
      BY <2>1, SettledRow
    <2>3. w \in Hosts
      BY DEF Hosts
    <2>4. telling' \subseteq Tellers /\ told' = told
      BY <2>1, <2>3, TellersGrow
    <2>5. row[r].status = "running" /\ ~RunningAt(r, Local)
      BY <2>1 DEF RunningAt
    <2>6. r \notin unsaved /\ Executed'
      BY <1>1, <2>2, <2>4, <2>5 DEF Answering, Executed, RunningAt, ExecutorIsAt
    <2>7. /\ ~Ended(r) /\ Ended(r)'
          /\ \A s \in Reactions \ {r} : Ended(s)' <=> Ended(s)
      BY <1>1, <2>2, <2>5, <2>6 DEF Ended
    <2> QED
      BY <1>1, <2>1, <2>3, <2>6, <2>7, EndingKeepsAnswers
  <1> QED
    BY <1>1, <1>2, <1>3

LEMMA HelloKeepsAnswers ==
    ASSUME Answering, Local \notin Workers, NEW w \in Workers, HandleHello(w)
    PROVE  Answering'
  <1>1. /\ UNCHANGED <<sched, local, reopened, told, telling, missed, unsaved>>
        /\ row' = row \/ Requeue(Unlisted(w), w)
    BY DEF HandleHello, pool, notices
  <1> QED
    BY <1>1, NoRowMoves, RequeueKeepsAnswers DEF ClaimKept

\* What the network, the workers and the queues do leaves the rows alone.
ElsewhereSteps ==
    \/ \E r \in Reactions : EnqueueLocal(r)
    \/ AddInFlight \/ Send
    \/ \E w \in Workers :
          \/ Connect(w) \/ TakeClaim(w) \/ Complete(w) \/ Remove(w)
          \/ HandleBusy(w)
    \/ \E h \in Hosts : ReviewMoves(h)

LEMMA ElsewhereKeepsAnswers ==
    ASSUME Answering, ElsewhereSteps
    PROVE  Answering'
  <1>1. UNCHANGED <<row, told, telling, missed, unsaved, local, reopened>>
    BY DEF ElsewhereSteps, EnqueueLocal, AddInFlight, Send, Connect, TakeClaim,
           Complete, Remove, HandleBusy, ReviewMoves, pool, notes, notices
  <1>2. ClaimKept
    <2>1. CASE AddInFlight \/ Send
      BY <2>1 DEF AddInFlight, Send, Idle, ClaimKept
    <2>2. CASE ~(AddInFlight \/ Send)
      BY <2>2 DEF ElsewhereSteps, EnqueueLocal, Connect, TakeClaim, Complete,
                  Remove, HandleBusy, ReviewMoves, hub, ClaimKept
    <2> QED
      BY <2>1, <2>2
  <1> QED
    BY <1>1, <1>2, NoRowMoves

IInv == Answering /\ home \in Hosts

LEMMA Inductive == IInv /\ [Next]_vars => IInv'
  <1> SUFFICES ASSUME IInv, [Next]_vars PROVE IInv'
    OBVIOUS
  <1>0. Answering /\ home \in Hosts /\ Local \notin Workers
    BY HostsAssumption DEF IInv
  <1>1. home' \in Hosts
    BY <1>0 DEF Next, vars, Act, EnqueueLocal, Begin, Assign,
       RequeueOffline, AddInFlight, Send, RequeueUnsent, Start,
       Finish, Tell, Connect, TakeClaim, Complete, Remove,
       HandleHello, HandleComplete, HandleBusy, Break, WorkerDies,
       ReviewMoves, Restart, Hosts
  <1>2. ASSUME NEW r \in Reactions, Act(r) \/ Begin(r) PROVE Answering'
    BY <1>0, <1>2, ActKeepsAnswers, BeginKeepsAnswers
  <1>3. ASSUME NEW r \in Reactions, NEW w \in Workers, Assign(r, w) PROVE Answering'
    BY <1>0, <1>3, AssignKeepsAnswers
  <1>4. ASSUME NEW r \in Reactions, NEW w \in Workers, RequeueOffline(r, w) PROVE Answering'
    <2>1. /\ Requeue({r}, w)
          /\ UNCHANGED <<told, telling, missed, unsaved, local, reopened, sched>>
      BY <1>4 DEF RequeueOffline, hub, pool, notices
    <2> QED
      BY <1>0, <2>1, RequeueKeepsAnswers DEF ClaimKept
  <1>5. ASSUME RequeueUnsent PROVE Answering'
    <2>1. /\ Requeue({sched.reaction}, sched.worker) /\ sched.worker \in Workers
          /\ sched' = Idle /\ UNCHANGED <<told, telling, missed, unsaved, local, reopened>>
      BY <1>0, <1>5 DEF RequeueUnsent, pool, notices, Answering, Executed, Claims, Idle
    <2> QED
      BY <1>0, <2>1, RequeueKeepsAnswers DEF ClaimKept
  <1>6. ASSUME Start \/ Finish PROVE Answering'
    BY <1>0, <1>6, StartKeepsAnswers, FinishKeepsAnswers
  <1>7. ASSUME NEW w \in Workers, HandleHello(w) \/ HandleComplete(w) PROVE Answering'
    BY <1>0, <1>7, HelloKeepsAnswers, CompleteKeepsAnswers
  <1>8. ASSUME NEW t \in telling, Tell(t) PROVE Answering'
    BY <1>0, <1>8, TellKeepsAnswers
  <1>9. ASSUME NEW w \in Workers, Break(w) \/ WorkerDies(w) PROVE Answering'
    <2>1. /\ Outlives(w)
          /\ UNCHANGED <<row, told, missed, unsaved, local, sched, reopened>>
      BY <1>9 DEF Break, WorkerDies, hub, pool, notes
    <2> QED
      BY <1>0, <2>1, OutlivesKeepsAnswers
  <1>10. ASSUME Restart PROVE Answering'
    BY <1>0, <1>10, RestartKeepsAnswers
  <1>11. ASSUME ElsewhereSteps PROVE Answering'
    BY <1>0, <1>11, ElsewhereKeepsAnswers
  <1>12. ASSUME UNCHANGED vars PROVE Answering'
    BY <1>0, <1>12, NoRowMoves DEF ClaimKept, vars, hub, pool, notes, notices
  <1>13. Answering'
    BY <1>2, <1>3, <1>4, <1>5, <1>6, <1>7, <1>8, <1>9, <1>10, <1>11, <1>12 DEF Next, ElsewhereSteps
  <1> QED
    BY <1>1, <1>13 DEF IInv

LEMMA Initially == Init => IInv
  <1> SUFFICES ASSUME Init PROVE IInv
    OBVIOUS
  <1>1. /\ row = [r \in Reactions |-> [status |-> "none", worker |-> Local, session |-> Local]]
        /\ told = [r \in Reactions |-> 0] /\ sched = Idle /\ local = Idle
        /\ telling = {} /\ missed = {} /\ unsaved = {} /\ home \in Hosts
    BY DEF Init
  <1>2. [status |-> "none", worker |-> Local, session |-> Local] \in Row
    BY DEF Row, Hosts
  <1>3. Executed
    BY <1>1, <1>2 DEF Executed
  <1>4. \A r \in Reactions : Accounted(r)
    BY <1>1 DEF Accounted, Ended, BeingTold
  <1> QED
    BY <1>1, <1>3, <1>4 DEF IInv, Answering

\* However often a reaction is requeued, claimed again and completed late, by any
\* number of workers: the reviewer is told at most one outcome of it, never before it
\* has ended; and when it has ended he is told, or about to be, or the one message
\* failed or died with the server.  Excepted are the reactions that the server's
\* executor started on a stale read.
THEOREM AnsweredOnceHolds == Spec => []AnsweredOnce
  <1>1. IInv /\ [Next]_vars => IInv'
    BY Inductive
  <1>2. IInv => AnsweredOnce
    BY DEF IInv, Answering, Accounted, AnsweredOnce
  <1> QED
    BY <1>1, <1>2, Initially, PTL DEF Spec

============================================================================
