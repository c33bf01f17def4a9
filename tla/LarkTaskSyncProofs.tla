------------------------- MODULE LarkTaskSyncProofs -------------------------
(***************************************************************************)
(* What LarkTaskSync promises for any handlers and groups, however many    *)
(* edits, syncs and recoveries are asked for and whatever fails: Saturnus  *)
(* creates one task in Lark, and what a caller was told is there is shown. *)
(***************************************************************************)
EXTENDS LarkTaskSync, FiniteSetTheorems, TLAPS

----------------------------------------------------------------------------
(* The shape of the state. *)

Tasks  == [title: Nat, status: {"open", "done"}, version: Nat]
Lists  == Groups \cup {NoGroup}
Links  == [guid: Nat, request: Int, late: BOOLEAN, group: Lists, err: BOOLEAN]
InLark == [ours: BOOLEAN, title: Int, completed: BOOLEAN, lists: SUBSET Groups]
Tokens == [guid: Nat \ {0}, byRow: BOOLEAN]

Loading   == [pc: {"create", "group", "update"}, task: Tasks, group: Lists]
Linking   == [pc: {"linking"}, guid: Nat]
ToSync    == [pc: {"wait"}, what: {"sync"}, group: Lists]
ToLink    == [pc: {"wait"}, what: {"link"}, guid: Nat]
ToReset   == [pc: {"wait"}, what: {"reset"}]
Resting   == [pc: {"idle", "edited"}]
Standings == Loading \cup Linking \cup ToSync \cup ToLink \cup ToReset \cup Resting

Shape ==
    /\ task \in Tasks /\ task.title \in 0..task.version /\ task.version = edits
    /\ link \in Links \cup {NoLink}
    /\ remotes \in Seq(InLark)
    /\ token \in Tokens \cup {NoToken}
    /\ proc \in [Procs -> Standings]
    /\ doubt \in BOOLEAN /\ acked \in Int

----------------------------------------------------------------------------
(* The inductive invariant. *)

Holds(q) == proc[q].pc \in {"create", "group", "update", "linking"}
Loads(q) == proc[q].pc \in {"create", "group", "update"}
Ours     == {guid \in DOMAIN remotes : remotes[guid].ours}

\* At most one call is inside the lock.
Exclusive == \A p, q \in Procs : Holds(p) /\ Holds(q) => p = q

\* What a call inside the lock may rely on: the row that it reserved or found
\* bound, the Lark task it was given, and a task no older than what was shown.
Relies(q) ==
    /\ proc[q].pc = "create" => link # NoLink /\ link.guid = 0
    /\ proc[q].pc \in {"group", "update"} => Bound
    /\ proc[q].pc = "linking" => link # NoLink
    /\ proc[q].pc = "linking" \/ Waits(q, "link") => proc[q].guid \in DOMAIN remotes
    /\ Loads(q) => /\ acked <= proc[q].task.version
                   /\ proc[q].task.version <= task.version
                   /\ proc[q].task.version = task.version => proc[q].task = task

LinkSound ==
    /\ Bound => /\ link.guid \in DOMAIN remotes
                /\ link.group # NoGroup => link.group \in remotes[link.guid].lists
    /\ link # NoLink /\ link.guid = 0 => link.group = NoGroup

\* No call will create a task: one is bound, or the reservation is too old and
\* nobody began with it in time.
Stuck ==
    \/ Bound
    \/ link # NoLink /\ link.late /\ \A q \in Procs : proc[q].pc # "create"

\* A token stands for our task and for a reservation that is still there; once
\* Lark has forgotten it, nothing will create a task again.
OnceOnly ==
    /\ \A g, h \in Ours : g = h
    /\ token # NoToken => token.byRow /\ token.guid \in Ours
    /\ Ours # {} => link # NoLink
    /\ Ours # {} /\ token = NoToken => Stuck

\* Whoever resets looked while nothing could be created, and saw no task of ours.
Recovery ==
    /\ doubt => Stuck
    /\ \A q \in Procs : Waits(q, "reset") => Bound \/ (Stuck /\ Ours = {})
    /\ \A p, q \in Procs : Waits(p, "reset") /\ Waits(q, "reset") => p = q

Shown == acked <= task.version /\ ToldIsShown

IInv ==
    /\ Shape
    /\ Exclusive
    /\ \A q \in Procs : Relies(q)
    /\ LinkSound
    /\ OnceOnly
    /\ Recovery
    /\ Shown

----------------------------------------------------------------------------
(* Shapes, and what follows of them. *)

LEMMA Standing ==
    ASSUME Shape, NEW q \in Procs
    PROVE  /\ Loads(q) => proc[q] \in Loading
           /\ proc[q].pc = "linking" => proc[q] \in Linking
           /\ Waits(q, "sync") => proc[q] \in ToSync
           /\ Waits(q, "link") => proc[q] \in ToLink
  BY DEF Shape, Standings, Loading, Linking, ToSync, ToLink, ToReset, Resting, Loads, Waits

LEMMA RowIsNoRow == \A l \in Links : l # NoLink
<1> SUFFICES ASSUME NEW l \in Links, l = NoLink PROVE FALSE
  OBVIOUS
<1>1. DOMAIN l = {"guid", "request", "late", "group", "err"}
  BY DEF Links
<1>2. DOMAIN NoLink = {"guid"}
  BY DEF NoLink
<1> QED
  BY <1>1, <1>2

LEMMA TokenIsKnown == \A t \in Tokens : t # NoToken /\ t.guid # 0
  BY DEF Tokens, NoToken

LEMMA TokenGuid == Shape => (token.guid = 0 <=> token = NoToken)
  BY TokenIsKnown DEF Shape, NoToken

LEMMA Row == Shape /\ link # NoLink => link \in Links
  BY DEF Shape

LEMMA BoundByGuid == Bound <=> link.guid # 0
  BY DEF Bound, NoLink

LEMMA OursAreTasks == Ours \subseteq DOMAIN remotes
  BY DEF Ours

----------------------------------------------------------------------------
(* Steps that touch neither the row nor Lark. *)

LEMMA QuietKeeps ==
    ASSUME IInv, UNCHANGED <<task, link, remotes, token, acked, edits>>,
           proc' \in [Procs -> Standings], doubt' \in BOOLEAN, doubt' => doubt,
           \A p \in Procs :
              \/ proc'[p] = proc[p]
              \/ ~Holds(p)' /\ (Waits(p, "link")' => proc'[p].guid \in DOMAIN remotes),
           \A p \in Procs : Waits(p, "reset")' /\ ~Waits(p, "reset") => doubt /\ Ours = {},
           \A p, q \in Procs : Waits(p, "reset")' /\ Waits(q, "reset")' => p = q
    PROVE  IInv'
<1>1. Shape'
  BY DEF IInv, Shape
<1>2. Exclusive'
  BY DEF IInv, Exclusive, Holds
<1>3. ASSUME NEW p \in Procs PROVE Relies(p)'
  <2>1. CASE proc'[p] = proc[p]
    BY <2>1 DEF IInv, Relies, Bound, Loads, Waits
  <2>2. CASE ~Holds(p)' /\ (Waits(p, "link")' => proc'[p].guid \in DOMAIN remotes)
    BY <2>2 DEF Holds, Relies, Loads
  <2> QED
    BY <2>1, <2>2
<1>4. LinkSound'
  BY DEF IInv, LinkSound, Bound
<1>5. Stuck => Stuck'
  BY DEF Stuck, Bound, Holds
<1>6. Ours' = Ours
  BY DEF Ours
<1>7. OnceOnly'
  BY <1>5, <1>6 DEF IInv, OnceOnly
<1>8. Recovery'
  <2>1. doubt' => Stuck'
    BY <1>5 DEF IInv, Recovery
  <2>2. ASSUME NEW p \in Procs, Waits(p, "reset")' PROVE Bound' \/ (Stuck' /\ Ours' = {})
    BY <1>5, <1>6, <2>2 DEF IInv, Recovery, Bound
  <2> QED
    BY <2>1, <2>2 DEF Recovery
<1>9. Shown'
  BY DEF IInv, Shown, ToldIsShown, Bound
<1> QED
  BY <1>1, <1>2, <1>3, <1>4, <1>7, <1>8, <1>9 DEF IInv

LEMMA GotoShape ==
    ASSUME Shape, NEW q \in Procs, NEW s \in Standings, Goto(q, s)
    PROVE  proc' \in [Procs -> Standings] /\ proc'[q] = s /\ \A p \in Procs \ {q} : proc'[p] = proc[p]
  BY DEF Shape, Goto

\* A step of that kind that sends one goroutine to rest or to wait.
LEMMA QuietGoto ==
    ASSUME IInv, UNCHANGED <<task, link, remotes, token, acked, edits>>,
           NEW q \in Procs, NEW s \in ToSync \cup ToLink \cup ToReset \cup Resting, Goto(q, s),
           doubt' \in BOOLEAN, doubt' => doubt,
           s \in ToLink => s.guid \in DOMAIN remotes,
           s \in ToReset => doubt /\ Ours = {} /\ \A p \in Procs : ~Waits(p, "reset")
    PROVE  IInv'
<1>1. s \in Standings
  BY DEF Standings
<1>2. proc' \in [Procs -> Standings] /\ proc'[q] = s /\ \A p \in Procs \ {q} : proc'[p] = proc[p]
  BY <1>1, GotoShape DEF IInv
<1>3. ~Holds(q)'
  BY <1>2 DEF Holds, ToSync, ToLink, ToReset, Resting
<1>4. Waits(q, "link")' => proc'[q].guid \in DOMAIN remotes
  BY <1>2 DEF Waits, ToSync, ToLink, ToReset, Resting
<1>5. Waits(q, "reset")' => s \in ToReset
  BY <1>2 DEF Waits, ToSync, ToLink, ToReset, Resting
<1>6. \A p \in Procs \ {q} : Waits(p, "reset")' <=> Waits(p, "reset")
  BY <1>2 DEF Waits
<1>7. \A p \in Procs :
         \/ proc'[p] = proc[p]
         \/ ~Holds(p)' /\ (Waits(p, "link")' => proc'[p].guid \in DOMAIN remotes)
  BY <1>2, <1>3, <1>4
<1>8. \A p \in Procs : Waits(p, "reset")' /\ ~Waits(p, "reset") => doubt /\ Ours = {}
  BY <1>5, <1>6
<1>9. \A p, o \in Procs : Waits(p, "reset")' /\ Waits(o, "reset")' => p = o
  BY <1>5, <1>6 DEF IInv, Recovery
<1> QED
  BY <1>2, <1>7, <1>8, <1>9, QuietKeeps

LEMMA WaitToSyncKeeps ==
    ASSUME IInv, UNCHANGED <<task, link, remotes, token, doubt, acked, edits>>,
           NEW q \in Procs, NEW g \in Lists, WaitToSync(q, g)
    PROVE  IInv'
<1> DEFINE s == [pc |-> "wait", what |-> "sync", group |-> g]
<1>1. s \in ToSync
  BY DEF ToSync
<1>2. Goto(q, s)
  BY DEF WaitToSync
<1>3. s \notin ToLink /\ s \notin ToReset
  BY DEF ToLink, ToReset
<1>4. doubt' \in BOOLEAN /\ doubt' = doubt
  BY DEF IInv, Shape
<1> HIDE DEF s
<1> QED
  BY <1>1, <1>2, <1>3, <1>4, QuietGoto

LEMMA RestingStates ==
    /\ Idle \in Resting /\ [pc |-> "edited"] \in Resting
    /\ \A s \in Resting : s \notin ToLink /\ s \notin ToReset
  BY DEF Idle, Resting, ToLink, ToReset

LEMMA SyncExistingKeeps == ASSUME IInv, NEW q \in Procs, SyncExisting(q) PROVE IInv'
<1>1. CASE Bound
  BY <1>1, WaitToSyncKeeps DEF SyncExisting, Lists
<1>2. CASE ~Bound
  <2>1. Goto(q, Idle) /\ UNCHANGED <<task, link, remotes, token, acked, edits>> /\ doubt' = doubt
    BY <1>2 DEF SyncExisting
  <2>2. doubt' \in BOOLEAN
    BY <2>1 DEF IInv, Shape
  <2> QED
    BY <2>1, <2>2, RestingStates, QuietGoto
<1> QED
  BY <1>1, <1>2

LEMMA AskSyncKeeps == ASSUME IInv, NEW q \in Procs, AskSync(q) PROVE IInv'
<1>1. PICK g \in Lists : WaitToSync(q, g)
  BY DEF AskSync, Lists
<1> QED
  BY <1>1, WaitToSyncKeeps DEF AskSync

LEMMA RefreshKeeps == ASSUME IInv, Refresh PROVE IInv'
  BY WaitToSyncKeeps DEF Refresh, Lists, Procs

LEMMA GuidIsNat == ASSUME Shape, NEW g \in DOMAIN remotes PROVE g \in Nat /\ g # 0
  BY DEF Shape

LEMMA AskLinkKeeps == ASSUME IInv, NEW q \in Procs, AskLink(q) PROVE IInv'
<1>1. PICK g \in DOMAIN remotes : Goto(q, [pc |-> "wait", what |-> "link", guid |-> g])
  BY DEF AskLink
<1> DEFINE s == [pc |-> "wait", what |-> "link", guid |-> g]
<1>2. s \in ToLink /\ s \notin ToReset /\ s.guid \in DOMAIN remotes
  BY GuidIsNat DEF ToLink, ToReset, IInv
<1>3. Goto(q, s)
  BY <1>1
<1>4. /\ UNCHANGED <<task, link, remotes, token, acked, edits>>
      /\ doubt' \in BOOLEAN /\ doubt' = doubt
  BY DEF AskLink, IInv, Shape
<1> HIDE DEF s
<1> QED
  BY <1>2, <1>3, <1>4, QuietGoto

LEMMA RecoverKeeps == ASSUME IInv, NEW q \in Procs, Recover(q) PROVE IInv'
<1>1. /\ UNCHANGED <<task, link, remotes, token, acked, edits>>
      /\ doubt' \in BOOLEAN /\ doubt' = FALSE /\ doubt
      /\ \A p \in Procs : ~Waits(p, "reset")
  BY DEF Recover, Recovering
<1>2. CASE Ours # {}
  <2>1. \E g \in DOMAIN remotes : Looks(g)
    BY <1>2 DEF Ours, Looks
  <2>2. PICK g \in DOMAIN remotes : Goto(q, [pc |-> "wait", what |-> "link", guid |-> g])
    BY <2>1 DEF Recover
  <2> DEFINE s == [pc |-> "wait", what |-> "link", guid |-> g]
  <2>3. s \in ToLink /\ s \notin ToReset /\ s.guid \in DOMAIN remotes
    BY GuidIsNat DEF ToLink, ToReset, IInv
  <2>4. Goto(q, s)
    BY <2>2
  <2> HIDE DEF s
  <2> QED
    BY <1>1, <2>3, <2>4, QuietGoto
<1>3. CASE Ours = {}
  <2> DEFINE s == [pc |-> "wait", what |-> "reset"]
  <2>1. ~ \E g \in DOMAIN remotes : Looks(g)
    BY <1>3 DEF Ours, Looks
  <2>2. Goto(q, s)
    BY <2>1 DEF Recover
  <2>3. s \in ToReset /\ s \notin ToLink
    BY DEF ToLink, ToReset
  <2> HIDE DEF s
  <2> QED
    BY <1>1, <1>3, <2>2, <2>3, QuietGoto
<1> QED
  BY <1>2, <1>3

LEMMA RestartKeeps == ASSUME IInv, Restart PROVE IInv'
<1>1. UNCHANGED <<task, link, remotes, token, acked, edits>> /\ doubt' = doubt
  BY DEF Restart
<1>2. \A p \in Procs : proc'[p] = Idle
  BY DEF Restart
<1>3. proc' \in [Procs -> Standings]
  BY RestingStates DEF Restart, Standings
<1>4. \A p \in Procs : ~Holds(p)' /\ ~Waits(p, "link")' /\ ~Waits(p, "reset")'
  BY <1>2 DEF Holds, Waits, Idle
<1>5. doubt' \in BOOLEAN /\ (doubt' => doubt)
  BY <1>1 DEF IInv, Shape
<1> QED
  BY <1>1, <1>3, <1>4, <1>5, QuietKeeps

LEMMA EditKeeps == ASSUME IInv, NEW q \in Procs, Edit(q) PROVE IInv'
<1> DEFINE s == [pc |-> "edited"]
<1>0. Shape
  BY DEF IInv
<1>1. /\ UNCHANGED <<link, remotes, token, doubt, acked>> /\ edits' = edits + 1
      /\ Goto(q, s) /\ proc[q] = Idle
  BY DEF Edit
<1>2. s \in Standings
  BY RestingStates DEF Standings
<1>3. proc' \in [Procs -> Standings] /\ proc'[q] = s /\ \A p \in Procs \ {q} : proc'[p] = proc[p]
  BY <1>0, <1>1, <1>2, GotoShape
<1>4. PICK title \in {task.title, task.title + 1}, status \in {"open", "done"} :
         task' = [title |-> title, status |-> status, version |-> task.version + 1]
  BY DEF Edit
<1>5. task.title \in Nat /\ task.version \in Nat /\ task.title <= task.version
  BY <1>0 DEF Shape, Tasks
<1>6. task' \in Tasks /\ task'.title \in 0..task'.version /\ task'.version = task.version + 1
  BY <1>4, <1>5 DEF Tasks
<1>7. Shape'
  BY <1>0, <1>1, <1>3, <1>6 DEF Shape
<1>8. ~Holds(q)' /\ ~Loads(q)' /\ ~Waits(q, "link")' /\ ~Waits(q, "reset")' /\ proc'[q].pc # "create"
  BY <1>3 DEF Holds, Loads, Waits
<1>9. Exclusive'
  BY <1>3, <1>8 DEF IInv, Exclusive, Holds
<1>10. ASSUME NEW p \in Procs PROVE Relies(p)'
  <2>1. CASE p = q
    BY <2>1, <1>8 DEF Relies, Loads, Holds
  <2>2. CASE p # q
    <3>1. proc'[p] = proc[p] /\ Relies(p)
      BY <1>3, <2>2 DEF IInv
    <3>2. Loads(p) => proc[p].task.version \in Nat
      BY <1>0, Standing DEF Loading, Tasks
    <3> QED
      BY <1>1, <1>5, <1>6, <3>1, <3>2 DEF Relies, Bound, Loads, Waits
  <2> QED
    BY <2>1, <2>2
<1>11. LinkSound'
  BY <1>1 DEF IInv, LinkSound, Bound
<1>12. Stuck => Stuck'
  BY <1>1, <1>3, <1>8 DEF Stuck, Bound
<1>13. Ours' = Ours
  BY <1>1 DEF Ours
<1>14. OnceOnly'
  BY <1>1, <1>12, <1>13 DEF IInv, OnceOnly
<1>15. Recovery'
  <2>1. \A p \in Procs : Waits(p, "reset")' => Waits(p, "reset")
    BY <1>3, <1>8 DEF Waits
  <2>2. Bound' <=> Bound
    BY <1>1 DEF Bound
  <2> QED
    BY <1>1, <1>12, <1>13, <2>1, <2>2 DEF IInv, Recovery
<1>16. Shown'
  BY <1>0, <1>1, <1>5, <1>6 DEF IInv, Shown, ToldIsShown, Shape
<1> QED
  BY <1>7, <1>9, <1>10, <1>11, <1>14, <1>15, <1>16 DEF IInv

----------------------------------------------------------------------------
(* Steps inside the lock. *)

LEMMA InsideKeeps ==
    ASSUME IInv, NEW q \in Procs, NEW s \in Standings, Goto(q, s),
           Holds(q) \/ Unlocked, DOMAIN remotes \subseteq DOMAIN remotes'
    PROVE  /\ Exclusive'
           /\ \A p \in Procs \ {q} : /\ proc'[p] = proc[p] /\ ~Holds(p)
                                     /\ ~Holds(p)' /\ Relies(p)'
<1>1. proc' \in [Procs -> Standings] /\ proc'[q] = s /\ \A p \in Procs \ {q} : proc'[p] = proc[p]
  BY GotoShape DEF IInv
<1>2. \A p \in Procs \ {q} : ~Holds(p)
  BY DEF IInv, Exclusive, Holds, Unlocked
<1>3. \A p \in Procs \ {q} : ~Holds(p)'
  BY <1>1, <1>2 DEF Holds
<1>4. Exclusive'
  BY <1>3 DEF Exclusive
<1>5. ASSUME NEW p \in Procs \ {q} PROVE Relies(p)'
  <2>1. Relies(p) /\ ~Holds(p) /\ ~Holds(p)' /\ proc'[p] = proc[p]
    BY <1>1, <1>2, <1>3 DEF IInv
  <2>2. Waits(p, "link")' => proc'[p].guid \in DOMAIN remotes'
    BY <2>1 DEF Relies, Waits
  <2> QED
    BY <2>1, <2>2 DEF Relies, Holds, Loads
<1> QED
  BY <1>1, <1>2, <1>3, <1>4, <1>5

\* One that ends there without touching Lark: the row stays what it was, but for
\* its note of an error.
LEMMA FailKeeps ==
    ASSUME IInv, NEW q \in Procs, Fail(q), Holds(q), link # NoLink,
           UNCHANGED <<task, remotes, token, doubt, acked, edits>>
    PROVE  IInv'
<1>0. Shape /\ Idle \in Standings
  BY RestingStates DEF IInv, Standings
<1>1. Goto(q, Idle) /\ link' = [link EXCEPT !.err = TRUE]
  BY DEF Fail
<1>2. link \in Links
  BY <1>0, Row
<1>3. /\ link' \in Links /\ link'.guid = link.guid /\ link'.late = link.late
      /\ link'.group = link.group
  BY <1>1, <1>2 DEF Links
<1>4. link' # NoLink
  BY <1>3, RowIsNoRow
<1>5. proc' \in [Procs -> Standings] /\ proc'[q] = Idle
  BY <1>0, <1>1, GotoShape
<1>6. Exclusive' /\ \A p \in Procs \ {q} : proc'[p] = proc[p] /\ Relies(p)'
  BY <1>0, <1>1, InsideKeeps
<1>7. Relies(q)'
  BY <1>5 DEF Relies, Loads, Waits, Idle
<1>8. Shape'
  BY <1>0, <1>3, <1>5 DEF Shape
<1>9. Bound' <=> Bound
  BY <1>3, <1>4 DEF Bound
<1>10. LinkSound'
  BY <1>3, <1>9 DEF IInv, LinkSound
<1>11. \A p \in Procs : proc'[p].pc = "create" => proc[p].pc = "create"
  BY <1>5, <1>6 DEF Idle
<1>12. Stuck => Stuck'
  BY <1>3, <1>4, <1>9, <1>11 DEF Stuck
<1>13. Ours' = Ours
  BY DEF Ours
<1>14. OnceOnly'
  BY <1>4, <1>12, <1>13 DEF IInv, OnceOnly
<1>15. \A p \in Procs : Waits(p, "reset")' => Waits(p, "reset")
  BY <1>5, <1>6 DEF Waits, Idle
<1>16. Recovery'
  BY <1>9, <1>12, <1>13, <1>15 DEF IInv, Recovery
<1>17. Shown'
  BY <1>3, <1>9 DEF IInv, Shown, ToldIsShown
<1> QED
  BY <1>6, <1>7, <1>8, <1>10, <1>14, <1>16, <1>17 DEF IInv

LEMMA CreateRejectedKeeps == ASSUME IInv, NEW q \in Procs, CreateRejected(q) PROVE IInv'
  BY FailKeeps DEF CreateRejected, IInv, Relies, Holds

LEMMA CreateFailsKeeps == ASSUME IInv, NEW q \in Procs, CreateFails(q) PROVE IInv'
  BY FailKeeps DEF CreateFails, IInv, Relies, Holds

LEMMA Appended ==
    ASSUME NEW S, NEW s \in Seq(S), NEW e \in S
    PROVE  /\ Append(s, e) \in Seq(S) /\ DOMAIN Append(s, e) = 1..(Len(s) + 1)
           /\ \A i \in DOMAIN s : Append(s, e)[i] = s[i]
           /\ Append(s, e)[Len(s) + 1] = e
<1>1. Append(s, e) \in Seq(S)
  OBVIOUS
<1>2. Len(s) \in Nat /\ Len(Append(s, e)) = Len(s) + 1 /\ DOMAIN s = 1..Len(s)
  OBVIOUS
<1>3. DOMAIN Append(s, e) = 1..(Len(s) + 1)
  BY <1>1, <1>2
<1>4. (\A i \in DOMAIN s : Append(s, e)[i] = s[i]) /\ Append(s, e)[Len(s) + 1] = e
  BY <1>2
<1> QED
  BY <1>1, <1>3, <1>4

\* The creation: there is no task of ours, or it is the token's.
LEMMA CreationFits ==
    ASSUME IInv, NEW q \in Procs, proc[q].pc = "create", link.request # Empty,
           NEW g \in 1..(Len(remotes) + 1), Creates(g)
    PROVE  /\ remotes' \in Seq(InLark) /\ DOMAIN remotes \subseteq DOMAIN remotes'
           /\ \A i \in DOMAIN remotes : remotes'[i] = remotes[i]
           /\ token' \in Tokens /\ token'.byRow /\ token'.guid = g
           /\ Ours' = {g} /\ g \in DOMAIN remotes' /\ g \in Nat \ {0}
           /\ link \in Links /\ ~Bound /\ ~Stuck
<1>0. Shape
  BY DEF IInv
<1>1. link # NoLink /\ link.guid = 0
  BY DEF IInv, Relies
<1>2. link \in Links /\ ~Bound /\ ~Stuck
  BY <1>0, <1>1, Row DEF Bound, Stuck
<1>3. remotes \in Seq(InLark) /\ Len(remotes) \in Nat /\ DOMAIN remotes = 1..Len(remotes)
  BY <1>0 DEF Shape
<1>4. CASE token.guid # 0
  <2>1. token # NoToken /\ token.guid \in Ours /\ token.byRow
    BY <1>4, <1>0, TokenGuid DEF IInv, OnceOnly
  <2>2. g = token.guid /\ UNCHANGED <<remotes, token>>
    BY <1>4 DEF Creates
  <2>3. Ours' = {g}
    BY <2>1, <2>2 DEF IInv, OnceOnly, Ours
  <2> QED
    BY <1>0, <1>2, <1>3, <2>1, <2>2, <2>3, OursAreTasks DEF Shape
<1>5. CASE token.guid = 0
  <2>1. Ours = {}
    BY <1>0, <1>2, <1>5, TokenGuid DEF IInv, OnceOnly
  <2>2. /\ g = Len(remotes) + 1
        /\ remotes' = Append(remotes, Remote(TRUE, link.request))
        /\ token' = [guid |-> g, byRow |-> TRUE]
    BY <1>5 DEF Creates
  <2>3. Remote(TRUE, link.request) \in InLark /\ Remote(TRUE, link.request).ours
    BY <1>2 DEF Remote, InLark, Links
  <2>4. /\ remotes' \in Seq(InLark) /\ DOMAIN remotes' = 1..(Len(remotes) + 1)
        /\ \A i \in DOMAIN remotes : remotes'[i] = remotes[i]
        /\ remotes'[g] = Remote(TRUE, link.request)
    <3> DEFINE e == Remote(TRUE, link.request)
    <3>1. e \in InLark
      BY <2>3
    <3> HIDE DEF e
    <3>2. remotes \in Seq(InLark)
      BY <1>3
    <3>3. /\ Append(remotes, e) \in Seq(InLark) /\ DOMAIN Append(remotes, e) = 1..(Len(remotes) + 1)
          /\ \A i \in DOMAIN remotes : Append(remotes, e)[i] = remotes[i]
          /\ Append(remotes, e)[Len(remotes) + 1] = e
      BY ONLY <3>1, <3>2, Appended
    <3>4. remotes' = Append(remotes, e) /\ g = Len(remotes) + 1
      BY <2>2 DEF e
    <3>5. remotes'[g] = e
      BY <3>3, <3>4
    <3>6. remotes'[g] = Remote(TRUE, link.request)
      BY <3>5 DEF e
    <3> QED
      BY <3>3, <3>4, <3>6
  <2>5. Ours' = {g}
    <3>1. g \in Ours'
      BY <1>3, <2>2, <2>3, <2>4 DEF Ours
    <3>2. ASSUME NEW i \in Ours' PROVE i = g
      <4>1. i \in 1..(Len(remotes) + 1) /\ remotes'[i].ours
        BY <2>4 DEF Ours
      <4>2. i \in DOMAIN remotes => i \in Ours
        BY <2>4, <4>1 DEF Ours
      <4> QED
        BY <1>3, <2>1, <2>2, <4>1, <4>2
    <3> QED
      BY <3>1, <3>2
  <2>6. token' \in Tokens /\ token'.byRow /\ token'.guid = g
    BY <1>3, <2>2 DEF Tokens
  <2>7. g \in DOMAIN remotes' /\ g \in Nat \ {0} /\ DOMAIN remotes \subseteq DOMAIN remotes'
    BY <1>3, <2>2, <2>4
  <2> QED
    BY <1>2, <2>4, <2>5, <2>6, <2>7
<1> QED
  BY <1>4, <1>5

LEMMA CreateKeeps == ASSUME IInv, NEW q \in Procs, Create(q) PROVE IInv'
<1> DEFINE s == [proc[q] EXCEPT !.pc = "group"]
<1>0. Shape /\ Holds(q) /\ proc[q].pc = "create"
  BY DEF Create, Holds, IInv
<1>1. PICK g \in 1..(Len(remotes) + 1) : Creates(g) /\ Bind(g)
  BY DEF Create
<1>2. /\ remotes' \in Seq(InLark) /\ DOMAIN remotes \subseteq DOMAIN remotes'
      /\ \A i \in DOMAIN remotes : remotes'[i] = remotes[i]
      /\ token' \in Tokens /\ token'.byRow /\ token'.guid = g
      /\ Ours' = {g} /\ g \in DOMAIN remotes' /\ g \in Nat \ {0}
      /\ link \in Links /\ ~Bound /\ ~Stuck
  BY <1>0, <1>1, CreationFits DEF Create
<1>3. link' = [link EXCEPT !.guid = g, !.err = FALSE]
  BY <1>1 DEF Bind
<1>4. link' \in Links /\ link'.guid = g /\ link'.group = link.group
  BY <1>2, <1>3 DEF Links
<1>5. link' # NoLink /\ Bound'
  BY <1>2, <1>4, RowIsNoRow DEF Bound
<1>6. proc[q] \in Loading
  BY <1>0, Standing DEF Loads
<1>7. s \in Loading /\ s.pc = "group" /\ s.task = proc[q].task
  BY <1>6 DEF Loading
<1>8. Goto(q, s) /\ UNCHANGED <<task, doubt, acked, edits>>
  BY DEF Create
<1> HIDE DEF s
<1>9. s \in Standings
  BY <1>7 DEF Standings
<1>10. proc' \in [Procs -> Standings] /\ proc'[q] = s
  BY <1>0, <1>8, <1>9, GotoShape
<1>11. Exclusive' /\ \A p \in Procs \ {q} : Relies(p)'
  BY <1>0, <1>2, <1>8, <1>9, InsideKeeps
<1>12. Relies(q)'
  <2>1. /\ acked <= proc[q].task.version
        /\ proc[q].task.version <= task.version
        /\ proc[q].task.version = task.version => proc[q].task = task
    BY <1>0 DEF IInv, Relies, Loads
  <2> QED
    BY <1>5, <1>7, <1>8, <1>10, <2>1 DEF Relies, Waits
<1>13. Shape'
  BY <1>0, <1>2, <1>4, <1>8, <1>10 DEF Shape
<1>14. LinkSound'
  <2>1. link.group = NoGroup
    BY <1>0 DEF IInv, Relies, LinkSound
  <2> QED
    BY <1>2, <1>4, <2>1 DEF LinkSound
<1>15. OnceOnly'
  BY <1>2, <1>5, TokenIsKnown DEF OnceOnly, Stuck
<1>16. Recovery'
  <2>1. ASSUME NEW p \in Procs, Waits(p, "reset")' PROVE Waits(p, "reset")
    BY <1>0, <1>2, <1>8, <1>9, <1>7, <1>10, <2>1, InsideKeeps DEF Waits
  <2> QED
    BY <1>5, <2>1 DEF IInv, Recovery, Stuck
<1>17. Shown'
  BY <1>2, <1>8 DEF IInv, Shown, ToldIsShown
<1> QED
  BY <1>11, <1>12, <1>13, <1>14, <1>15, <1>16, <1>17 DEF IInv

LEMMA CreateUnansweredKeeps == ASSUME IInv, NEW q \in Procs, CreateUnanswered(q) PROVE IInv'
<1>0. Shape /\ Holds(q) /\ proc[q].pc = "create" /\ Idle \in Standings
  BY RestingStates DEF CreateUnanswered, Holds, IInv, Standings
<1>1. PICK g \in 1..(Len(remotes) + 1) : Creates(g)
  BY DEF CreateUnanswered
<1>2. /\ remotes' \in Seq(InLark) /\ DOMAIN remotes \subseteq DOMAIN remotes'
      /\ \A i \in DOMAIN remotes : remotes'[i] = remotes[i]
      /\ token' \in Tokens /\ token'.byRow /\ token'.guid = g
      /\ Ours' = {g} /\ g \in DOMAIN remotes' /\ g \in Nat \ {0}
      /\ link \in Links /\ ~Bound /\ ~Stuck
  BY <1>0, <1>1, CreationFits DEF CreateUnanswered
<1>3. link' = [link EXCEPT !.err = TRUE] /\ Goto(q, Idle) /\ UNCHANGED <<task, doubt, acked, edits>>
  BY DEF CreateUnanswered, Fail
<1>4. link' \in Links /\ link'.guid = link.guid /\ link'.group = link.group
  BY <1>2, <1>3 DEF Links
<1>5. link' # NoLink /\ ~Bound' /\ link.guid = 0 /\ link # NoLink
  BY <1>0, <1>4, RowIsNoRow DEF Bound, IInv, Relies
<1>6. proc' \in [Procs -> Standings] /\ proc'[q] = Idle
  BY <1>0, <1>3, GotoShape
<1>7. Exclusive' /\ \A p \in Procs \ {q} : proc'[p] = proc[p] /\ Relies(p)'
  BY <1>0, <1>2, <1>3, InsideKeeps
<1>8. Relies(q)'
  BY <1>6 DEF Relies, Loads, Waits, Idle
<1>9. Shape'
  BY <1>0, <1>2, <1>3, <1>4, <1>6 DEF Shape
<1>10. LinkSound'
  BY <1>4, <1>5 DEF IInv, LinkSound
<1>11. OnceOnly'
  BY <1>2, <1>5, TokenIsKnown DEF OnceOnly
<1>12. ~doubt /\ \A p \in Procs : ~Waits(p, "reset")
  BY <1>2 DEF IInv, Recovery
<1>13. \A p \in Procs : ~Waits(p, "reset")'
  BY <1>6, <1>7, <1>12 DEF Waits, Idle
<1>14. Recovery'
  BY <1>3, <1>12, <1>13 DEF Recovery
<1>15. Shown'
  BY <1>2, <1>3 DEF IInv, Shown, ToldIsShown
<1> QED
  BY <1>7, <1>8, <1>9, <1>10, <1>11, <1>14, <1>15 DEF IInv

\* What is done to the bound task, and recorded of it, by the call that holds the
\* lock: it rests afterwards, or goes on with the task that it has loaded.
LEMMA BoundKeeps ==
    ASSUME IInv, Bound, NEW q \in Procs, Holds(q),
           NEW s \in Standings, Goto(q, s),
           s = Idle \/ (s.pc = "update" /\ Loads(q) /\ s.task = proc[q].task /\ acked' = acked),
           link' \in Links, link'.guid = link.guid,
           NEW t \in InLark, remotes' = [remotes EXCEPT ![link.guid] = t],
           t.ours = remotes[link.guid].ours,
           link'.group # NoGroup => link'.group \in t.lists,
           UNCHANGED <<task, token, doubt, edits>>,
           acked' \in Int, acked' <= task.version,
           acked' = task.version => t.title = task.title /\ (task.status = "done" => t.completed)
    PROVE  IInv'
<1>0. Shape
  BY DEF IInv
<1>1. link.guid \in DOMAIN remotes /\ remotes \in Seq(InLark)
  BY <1>0 DEF IInv, LinkSound, Shape
<1>2. remotes' \in Seq(InLark) /\ DOMAIN remotes' = DOMAIN remotes
  BY <1>1
<1>3. remotes'[link.guid] = t /\ \A i \in DOMAIN remotes : remotes'[i].ours = remotes[i].ours
  BY <1>1
<1>4. Ours' = Ours
  BY <1>2, <1>3 DEF Ours
<1>5. Bound'
  BY RowIsNoRow DEF Bound
<1>6. proc' \in [Procs -> Standings] /\ proc'[q] = s
  BY <1>0, GotoShape
<1>7. Exclusive' /\ \A p \in Procs \ {q} : proc'[p] = proc[p] /\ Relies(p)'
  BY <1>0, <1>2, InsideKeeps
<1>8. Relies(q)'
  <2>1. CASE s = Idle
    BY <1>6, <2>1 DEF Relies, Loads, Waits, Idle
  <2>2. CASE s.pc = "update" /\ Loads(q) /\ s.task = proc[q].task /\ acked' = acked
    <3>1. /\ acked <= proc[q].task.version
          /\ proc[q].task.version <= task.version
          /\ proc[q].task.version = task.version => proc[q].task = task
      BY <2>2 DEF IInv, Relies
    <3> QED
      BY <1>5, <1>6, <2>2, <3>1 DEF Relies, Waits
  <2> QED
    BY <2>1, <2>2
<1>9. Shape'
  BY <1>0, <1>2, <1>6 DEF Shape
<1>10. LinkSound'
  BY <1>1, <1>2, <1>3, <1>5 DEF LinkSound, Bound
<1>11. Stuck'
  BY <1>5 DEF Stuck
<1>12. OnceOnly'
  BY <1>4, <1>5, <1>11 DEF IInv, OnceOnly, Bound
<1>13. Recovery'
  <2>1. ASSUME NEW p \in Procs, Waits(p, "reset")' PROVE Waits(p, "reset")
    BY <1>6, <1>7, <2>1 DEF Waits, Idle
  <2> QED
    BY <1>5, <1>11, <2>1 DEF IInv, Recovery
<1>14. Shown'
  BY <1>3, <1>5 DEF Shown, ToldIsShown
<1> QED
  BY <1>7, <1>8, <1>9, <1>10, <1>12, <1>13, <1>14 DEF IInv

\* What such a call finds.
LEMMA AtBound ==
    ASSUME IInv, NEW q \in Procs, proc[q].pc \in {"group", "update"}
    PROVE  /\ Shape /\ Bound /\ Holds(q) /\ Loads(q) /\ proc[q] \in Loading
           /\ link \in Links /\ link.guid \in DOMAIN remotes
           /\ remotes[link.guid] \in InLark
           /\ remotes \in Seq(InLark) /\ task \in Tasks /\ acked \in Int
           /\ link.group # NoGroup => link.group \in remotes[link.guid].lists
           /\ acked <= task.version
           /\ acked = task.version => /\ remotes[link.guid].title = task.title
                                      /\ task.status = "done" => remotes[link.guid].completed
           /\ acked <= proc[q].task.version /\ proc[q].task.version <= task.version
           /\ proc[q].task.version = task.version => proc[q].task = task
<1>1. Shape /\ Bound /\ Holds(q) /\ Loads(q)
  BY DEF IInv, Relies, Holds, Loads
<1>2. proc[q] \in Loading
  BY <1>1, Standing
<1>3. link \in Links
  BY <1>1, Row DEF Bound
<1>4. /\ link.guid \in DOMAIN remotes
      /\ link.group # NoGroup => link.group \in remotes[link.guid].lists
  BY <1>1 DEF IInv, LinkSound
<1>5. remotes \in Seq(InLark) /\ task \in Tasks /\ acked \in Int
  BY <1>1 DEF Shape
<1>6. remotes[link.guid] \in InLark
  BY <1>4, <1>5
<1>7. /\ acked <= task.version
      /\ acked = task.version => /\ remotes[link.guid].title = task.title
                                 /\ task.status = "done" => remotes[link.guid].completed
  BY DEF IInv, Shown, ToldIsShown
<1>8. /\ acked <= proc[q].task.version /\ proc[q].task.version <= task.version
      /\ proc[q].task.version = task.version => proc[q].task = task
  BY <1>1 DEF IInv, Relies
<1> QED
  BY <1>1, <1>2, <1>3, <1>4, <1>5, <1>6, <1>7, <1>8

LEMMA IdleStands == Idle \in Standings
  BY RestingStates DEF Standings

LEMMA JoinGroupKeeps == ASSUME IInv, NEW q \in Procs, JoinGroup(q) PROVE IInv'
<1> DEFINE s == [proc[q] EXCEPT !.pc = "update"]
           b == link.guid
           g == proc[q].group
<1>1. /\ Shape /\ Bound /\ Holds(q) /\ Loads(q) /\ proc[q] \in Loading
      /\ link \in Links /\ b \in DOMAIN remotes
      /\ remotes[b] \in InLark
      /\ remotes \in Seq(InLark) /\ task \in Tasks /\ acked \in Int
      /\ link.group # NoGroup => link.group \in remotes[b].lists
      /\ acked <= task.version
      /\ acked = task.version => remotes[b].title = task.title /\ (task.status = "done" => remotes[b].completed)
  BY AtBound DEF JoinGroup
<1>2. s \in Standings /\ s.pc = "update" /\ s.task = proc[q].task
  BY <1>1 DEF Loading, Standings
<1>3. Goto(q, s) /\ UNCHANGED <<task, token, doubt, acked, edits>>
  BY DEF JoinGroup
<1> HIDE DEF s
<1>4. CASE g \in {NoGroup, link.group}
  <2>1. UNCHANGED <<remotes, link>>
    BY <1>4 DEF JoinGroup
  <2>2. remotes' = [remotes EXCEPT ![b] = remotes[b]]
    BY <1>1, <2>1
  <2> QED
    BY <1>1, <1>2, <1>3, <2>1, <2>2, BoundKeeps
<1>5. CASE g \notin {NoGroup, link.group}
  <2> DEFINE t == [remotes[b] EXCEPT !.lists = @ \cup {g}]
  <2>1. remotes' = [remotes EXCEPT ![b].lists = @ \cup {g}] /\ link' = [link EXCEPT !.group = g]
    BY <1>5 DEF JoinGroup
  <2>2. g \in Groups
    BY <1>1, <1>5 DEF Loading, Lists
  <2>3. /\ t \in InLark /\ t.ours = remotes[b].ours /\ g \in t.lists
        /\ t.title = remotes[b].title /\ t.completed = remotes[b].completed
    BY <1>1, <2>2 DEF InLark
  <2>4. remotes' = [remotes EXCEPT ![b] = t]
    BY <1>1, <2>1
  <2>5. link' \in Links /\ link'.guid = link.guid /\ link'.group = g
    BY <1>1, <2>1, <2>2 DEF Links, Lists
  <2> HIDE DEF t
  <2> QED
    BY <1>1, <1>2, <1>3, <2>3, <2>4, <2>5, BoundKeeps
<1> QED
  BY <1>4, <1>5

LEMMA JoinGroupFailsKeeps == ASSUME IInv, NEW q \in Procs, JoinGroupFails(q) PROVE IInv'
<1> DEFINE b == link.guid
           g == proc[q].group
           t == [remotes[b] EXCEPT !.lists = @ \cup {g}]
<1>1. /\ Shape /\ Bound /\ Holds(q) /\ Loads(q) /\ proc[q] \in Loading
      /\ link \in Links /\ b \in DOMAIN remotes
      /\ remotes[b] \in InLark
      /\ remotes \in Seq(InLark) /\ task \in Tasks /\ acked \in Int
      /\ link.group # NoGroup => link.group \in remotes[b].lists
      /\ acked <= task.version
      /\ acked = task.version => remotes[b].title = task.title /\ (task.status = "done" => remotes[b].completed)
  BY AtBound DEF JoinGroupFails
<1>2. /\ Goto(q, Idle) /\ link' = [link EXCEPT !.err = TRUE]
      /\ UNCHANGED <<task, token, doubt, acked, edits>>
      /\ g \notin {NoGroup, link.group}
  BY DEF JoinGroupFails, Fail
<1>3. link' \in Links /\ link'.guid = link.guid /\ link'.group = link.group
  BY <1>1, <1>2 DEF Links
<1>4. CASE remotes' = remotes
  <2>1. remotes' = [remotes EXCEPT ![b] = remotes[b]]
    BY <1>1, <1>4
  <2> QED
    BY <1>1, <1>2, <1>3, <2>1, IdleStands, BoundKeeps
<1>5. CASE remotes' = [remotes EXCEPT ![b].lists = @ \cup {g}]
  <2>1. g \in Groups
    BY <1>1, <1>2 DEF Loading, Lists
  <2>2. /\ t \in InLark /\ t.ours = remotes[b].ours /\ remotes[b].lists \subseteq t.lists
        /\ t.title = remotes[b].title /\ t.completed = remotes[b].completed
    BY <1>1, <2>1 DEF InLark
  <2>3. remotes' = [remotes EXCEPT ![b] = t]
    BY <1>1, <1>5
  <2> HIDE DEF t
  <2> QED
    BY <1>1, <1>2, <1>3, <2>2, <2>3, IdleStands, BoundKeeps
<1> QED
  BY <1>4, <1>5 DEF JoinGroupFails

\* Writing a task to Lark keeps it shown, or makes it so.
LEMMA UpdatedShows ==
    ASSUME NEW u \in InLark, NEW t \in Tasks
    PROVE  /\ Updated(u, t) \in InLark /\ Updated(u, t).ours = u.ours
           /\ Updated(u, t).lists = u.lists /\ Updated(u, t).title = t.title
           /\ t.status = "done" => Updated(u, t).completed
<1> DEFINE c == u.completed \/ t.status = "done"
<1>1. c \in BOOLEAN /\ (t.status = "done" => c)
  OBVIOUS
<1>2. Updated(u, t) = [u EXCEPT !.title = t.title, !.completed = c]
  BY Zenon DEF Updated
<1> HIDE DEF c
<1>3. t.title \in Int
  BY DEF Tasks
<1>4. /\ [u EXCEPT !.title = t.title, !.completed = c] \in InLark
      /\ [u EXCEPT !.title = t.title, !.completed = c].ours = u.ours
      /\ [u EXCEPT !.title = t.title, !.completed = c].lists = u.lists
      /\ [u EXCEPT !.title = t.title, !.completed = c].title = t.title
  BY <1>1, <1>3 DEF InLark
<1>5. [u EXCEPT !.title = t.title, !.completed = c].completed = c
  BY <1>1, <1>3 DEF InLark
<1> QED
  BY <1>1, <1>2, <1>4, <1>5

LEMMA UpdateKeeps == ASSUME IInv, NEW q \in Procs, Update(q) PROVE IInv'
<1> DEFINE b == link.guid
           u == proc[q].task
           t == Updated(remotes[b], u)
<1>1. /\ Shape /\ Bound /\ Holds(q) /\ proc[q] \in Loading
      /\ link \in Links /\ b \in DOMAIN remotes /\ remotes[b] \in InLark
      /\ remotes \in Seq(InLark) /\ task \in Tasks /\ acked \in Int
      /\ link.group # NoGroup => link.group \in remotes[b].lists
      /\ acked <= u.version /\ u.version <= task.version
      /\ u.version = task.version => u = task
  BY AtBound DEF Update
<1>2. /\ Goto(q, Idle) /\ link' = [link EXCEPT !.err = FALSE]
      /\ UNCHANGED <<task, token, doubt, edits>>
      /\ remotes' = [remotes EXCEPT ![b] = Updated(@, u)]
      /\ acked' = IF u.version > acked THEN u.version ELSE acked
  BY DEF Update
<1>3. link' \in Links /\ link'.guid = link.guid /\ link'.group = link.group
  BY <1>1, <1>2 DEF Links
<1>4. u \in Tasks /\ u.version \in Nat /\ task.version \in Nat
  BY <1>1 DEF Loading, Tasks
<1>5. /\ t \in InLark /\ t.ours = remotes[b].ours /\ t.lists = remotes[b].lists
      /\ t.title = u.title /\ (u.status = "done" => t.completed)
  BY <1>1, <1>4, UpdatedShows
<1>6. remotes' = [remotes EXCEPT ![b] = t]
  BY <1>1, <1>2
<1>7. acked' = u.version
  BY <1>1, <1>2, <1>4
<1>8. /\ acked' \in Int /\ acked' <= task.version
      /\ acked' = task.version => t.title = task.title /\ (task.status = "done" => t.completed)
  BY <1>1, <1>4, <1>5, <1>7
<1> HIDE DEF t
<1> QED
  BY <1>1, <1>2, <1>3, <1>5, <1>6, <1>8, IdleStands, BoundKeeps

LEMMA UpdateFailsKeeps == ASSUME IInv, NEW q \in Procs, UpdateFails(q) PROVE IInv'
<1> DEFINE b == link.guid
           u == proc[q].task
           t == Updated(remotes[b], u)
<1>1. /\ Shape /\ Bound /\ Holds(q) /\ proc[q] \in Loading
      /\ link \in Links /\ b \in DOMAIN remotes /\ remotes[b] \in InLark
      /\ remotes \in Seq(InLark) /\ task \in Tasks /\ acked \in Int
      /\ link.group # NoGroup => link.group \in remotes[b].lists
      /\ acked <= task.version
      /\ acked = task.version => remotes[b].title = task.title /\ (task.status = "done" => remotes[b].completed)
      /\ acked <= u.version /\ u.version <= task.version
      /\ u.version = task.version => u = task
  BY AtBound DEF UpdateFails
<1>2. /\ Goto(q, Idle) /\ link' = [link EXCEPT !.err = TRUE]
      /\ UNCHANGED <<task, token, doubt, acked, edits>>
  BY DEF UpdateFails, Fail
<1>3. link' \in Links /\ link'.guid = link.guid /\ link'.group = link.group
  BY <1>1, <1>2 DEF Links
<1>4. u \in Tasks /\ u.version \in Nat /\ task.version \in Nat
  BY <1>1 DEF Loading, Tasks
<1>5. CASE remotes' = remotes
  <2>1. remotes' = [remotes EXCEPT ![b] = remotes[b]]
    BY <1>1, <1>5
  <2> QED
    BY <1>1, <1>2, <1>3, <2>1, IdleStands, BoundKeeps
<1>6. CASE remotes' = [remotes EXCEPT ![b] = Updated(@, u)]
  <2>1. /\ t \in InLark /\ t.ours = remotes[b].ours /\ t.lists = remotes[b].lists
        /\ t.title = u.title /\ (u.status = "done" => t.completed)
    BY <1>1, <1>4, UpdatedShows
  <2>2. remotes' = [remotes EXCEPT ![b] = t]
    BY <1>1, <1>6
  <2>3. acked = task.version => t.title = task.title /\ (task.status = "done" => t.completed)
    BY <1>1, <1>4, <2>1
  <2> HIDE DEF t
  <2> QED
    BY <1>1, <1>2, <1>3, <2>1, <2>2, <2>3, IdleStands, BoundKeeps
<1> QED
  BY <1>5, <1>6 DEF UpdateFails

----------------------------------------------------------------------------
(* Taking the lock, recovering, and time. *)

LEMMA ReservedFits ==
    ASSUME Shape, NEW r \in Int
    PROVE  /\ Reserved(r) \in Links /\ Reserved(r) # NoLink
           /\ link # NoLink => Reserved(r) = link
           /\ link = NoLink => Reserved(r).guid = 0 /\ ~Reserved(r).late /\ Reserved(r).group = NoGroup
<1>1. CASE link # NoLink
  BY <1>1, Row DEF Reserved
<1>2. CASE link = NoLink
  <2> DEFINE n == [guid |-> 0, request |-> r, late |-> FALSE, group |-> NoGroup, err |-> FALSE]
  <2>1. Reserved(r) = n
    BY <1>2 DEF Reserved
  <2>2. n \in Links
    BY DEF Links, Lists
  <2>3. n.guid = 0 /\ ~n.late /\ n.group = NoGroup
    OBVIOUS
  <2> HIDE DEF n
  <2> QED
    BY <1>2, <2>1, <2>2, <2>3, RowIsNoRow
<1> QED
  BY <1>1, <1>2

LEMMA ReserveKeeps ==
    ASSUME IInv, Unlocked, NEW q \in Procs, NEW r \in Int,
           NEW s \in Standings, Goto(q, s), s.pc # "wait",
           link' \in Links, link'.guid = Reserved(r).guid, link'.late = Reserved(r).late,
           link'.group = Reserved(r).group,
           s.pc = "create" => ~link'.late /\ link'.guid = 0,
           UNCHANGED <<task, remotes, token, acked, edits>>, doubt' \in BOOLEAN,
           doubt' => doubt \/ (link'.late /\ s.pc # "create"),
           Relies(q)'
    PROVE  IInv'
<1>0. Shape
  BY DEF IInv
<1>1. /\ Reserved(r) \in Links
      /\ link # NoLink => Reserved(r) = link
      /\ link = NoLink => Reserved(r).guid = 0 /\ ~Reserved(r).late /\ Reserved(r).group = NoGroup
  BY <1>0, ReservedFits
<1>2. link' # NoLink
  BY RowIsNoRow
<1>3. link # NoLink => link'.guid = link.guid /\ link'.late = link.late /\ link'.group = link.group
  BY <1>1
<1>4. Bound' <=> Bound
  BY <1>1, <1>2, <1>3 DEF Bound
<1>5. proc' \in [Procs -> Standings] /\ proc'[q] = s
  BY <1>0, GotoShape
<1>6. Exclusive' /\ \A p \in Procs \ {q} : proc'[p] = proc[p] /\ ~Holds(p)' /\ Relies(p)'
  BY <1>0, InsideKeeps
<1>7. Shape'
  BY <1>0, <1>5 DEF Shape
<1>8. LinkSound'
  BY <1>1, <1>2, <1>3, <1>4 DEF IInv, LinkSound, Bound
<1>9. \A p \in Procs \ {q} : proc'[p].pc # "create"
  BY <1>6 DEF Holds
<1>10. Stuck => Stuck'
  <2>1. CASE Bound
    BY <1>4, <2>1 DEF Stuck
  <2>2. CASE link # NoLink /\ link.late
    BY <1>2, <1>3, <1>5, <1>9, <2>2 DEF Stuck
  <2> QED
    BY <2>1, <2>2 DEF Stuck
<1>11. doubt' => Stuck'
  BY <1>2, <1>5, <1>9, <1>10 DEF IInv, Recovery, Stuck
<1>12. Ours' = Ours
  BY DEF Ours
<1>13. OnceOnly'
  BY <1>2, <1>10, <1>12 DEF IInv, OnceOnly
<1>14. Recovery'
  <2>1. ASSUME NEW p \in Procs, Waits(p, "reset")' PROVE Waits(p, "reset")
    BY <1>5, <1>6, <2>1 DEF Waits
  <2> QED
    BY <1>4, <1>10, <1>11, <1>12, <2>1 DEF IInv, Recovery
<1>15. Shown'
  <2>1. Bound => link'.guid = link.guid
    BY <1>3 DEF Bound
  <2> QED
    BY <1>4, <2>1 DEF IInv, Shown, ToldIsShown
<1> QED
  BY <1>6, <1>7, <1>8, <1>13, <1>14, <1>15 DEF IInv

LEMMA BeginKeeps == ASSUME IInv, NEW q \in Procs, Begin(q) PROVE IInv'
<1> DEFINE r == task.title
           l == Reserved(r)
<1>0. /\ Shape /\ Waits(q, "sync") /\ Unlocked
      /\ UNCHANGED <<task, remotes, token, acked, edits>>
  BY DEF Begin, IInv
<1>1. r \in Int /\ task \in Tasks /\ task.version \in Nat
  BY <1>0 DEF Shape, Tasks
<1>2. l \in Links /\ l # NoLink
  BY <1>0, <1>1, ReservedFits
<1> HIDE DEF l
<1>3. CASE Late(l)
  <2>1. link' = [l EXCEPT !.err = TRUE] /\ doubt' = TRUE /\ Goto(q, Idle)
    BY <1>3 DEF Begin, l
  <2>2. /\ link' \in Links /\ link'.guid = l.guid /\ link'.late = l.late
        /\ link'.group = l.group /\ l.late
    BY <1>2, <1>3, <2>1 DEF Links, Late
  <2>3. proc'[q] = Idle
    BY <1>0, <2>1, IdleStands, GotoShape
  <2>4. Relies(q)'
    BY <2>3 DEF Relies, Loads, Waits, Idle
  <2>5. Idle.pc # "create" /\ Idle.pc # "wait"
    BY DEF Idle
  <2>6. doubt' \in BOOLEAN
    BY <2>1
  <2> QED
    BY <1>0, <1>1, <2>1, <2>2, <2>4, <2>5, <2>6, IdleStands, ReserveKeeps DEF l
<1>4. CASE ~Late(l)
  <2> DEFINE g == GroupOf(l, proc[q].group)
             s == [pc |-> IF l.guid = 0 THEN "create" ELSE "group", task |-> task, group |-> g]
  <2>1. link' = l /\ Goto(q, s) /\ doubt' = doubt
    BY <1>4 DEF Begin, l
  <2>2. g \in Lists
    <3>1. proc[q].group \in Lists
      BY <1>0, Standing DEF ToSync
    <3> QED
      BY <1>2, <3>1, GroupAssumption DEF GroupOf, Links, Lists
  <2> HIDE DEF g
  <2>3. /\ s \in Loading /\ s.pc # "wait" /\ s.task = task
        /\ s.pc = "create" => l.guid = 0
        /\ s.pc = "group" => l.guid # 0
        /\ s.pc \in {"create", "group"}
    BY <1>1, <2>2 DEF Loading
  <2> HIDE DEF s
  <2>4. s \in Standings
    BY <2>3 DEF Standings
  <2>5. proc'[q] = s
    BY <1>0, <2>1, <2>4, GotoShape
  <2>6. s.pc = "create" => ~link'.late /\ link'.guid = 0
    BY <1>2, <1>4, <2>1, <2>3 DEF Late, Links
  <2>7. Relies(q)'
    <3>1. acked <= task.version
      BY DEF IInv, Shown
    <3> QED
      BY <1>0, <1>1, <1>2, <2>1, <2>3, <2>5, <3>1 DEF Relies, Waits, Bound
  <2>8. doubt' \in BOOLEAN
    BY <1>0, <2>1 DEF Shape
  <2> QED
    BY <1>0, <1>1, <1>2, <2>1, <2>3, <2>4, <2>6, <2>7, <2>8, ReserveKeeps DEF l
<1> QED
  BY <1>3, <1>4

LEMMA LinkKeeps == ASSUME IInv, NEW q \in Procs, Link(q) PROVE IInv'
<1> DEFINE s == [pc |-> "linking", guid |-> proc[q].guid]
<1>0. /\ Shape /\ Waits(q, "link") /\ Unlocked /\ link' = Reserved(Empty) /\ Goto(q, s)
      /\ UNCHANGED <<task, remotes, token, doubt, acked, edits>>
  BY DEF Link, IInv
<1>1. Empty \in Int
  BY DEF Empty
<1>2. link' \in Links /\ link' # NoLink
  BY <1>0, <1>1, ReservedFits
<1>3. proc[q].guid \in DOMAIN remotes /\ proc[q].guid \in Nat
  BY <1>0, GuidIsNat DEF IInv, Relies
<1>4. s \in Linking /\ s.pc = "linking" /\ s.guid = proc[q].guid
  BY <1>3 DEF Linking
<1> HIDE DEF s
<1>5. s \in Standings
  BY <1>4 DEF Standings
<1>6. proc'[q] = s
  BY <1>0, <1>5, GotoShape
<1>7. Relies(q)'
  BY <1>0, <1>2, <1>3, <1>4, <1>6 DEF Relies, Loads, Waits
<1>8. doubt' \in BOOLEAN
  BY <1>0 DEF Shape
<1> QED
  BY <1>0, <1>1, <1>2, <1>4, <1>5, <1>7, <1>8, ReserveKeeps

LEMMA LinkBindsKeeps == ASSUME IInv, NEW q \in Procs, LinkBinds(q) PROVE IInv'
<1> DEFINE g == proc[q].guid
           b == link.guid
<1>0. /\ Shape /\ Holds(q) /\ proc[q].pc = "linking" /\ Goto(q, Idle)
      /\ UNCHANGED <<task, remotes, token, doubt, acked, edits>>
      /\ link # NoLink /\ g \in DOMAIN remotes
  BY DEF LinkBinds, IInv, Holds, Relies
<1>1. link \in Links /\ g \in Nat /\ g # 0
  BY <1>0, Row, GuidIsNat
<1>2. CASE Bound
  <2>1. b \in DOMAIN remotes /\ (link.group # NoGroup => link.group \in remotes[b].lists)
    BY <1>2 DEF IInv, LinkSound
  <2>2. remotes[b] \in InLark /\ remotes' = [remotes EXCEPT ![b] = remotes[b]]
    BY <1>0, <2>1 DEF Shape
  <2>3. link' \in Links /\ link'.guid = link.guid /\ link'.group = link.group
    BY <1>1, <1>2 DEF LinkBinds, Bind, Links, Bound
  <2>4. /\ acked' \in Int /\ acked' <= task.version
        /\ acked' = task.version => /\ remotes[b].title = task.title
                                    /\ task.status = "done" => remotes[b].completed
    BY <1>0 DEF IInv, Shape, Shown, ToldIsShown
  <2> QED
    BY <1>0, <1>2, <2>1, <2>2, <2>3, <2>4, IdleStands, BoundKeeps
<1>3. CASE ~Bound
  <2>1. link' = [link EXCEPT !.guid = g, !.err = FALSE] /\ link.guid = 0
    BY <1>0, <1>3 DEF LinkBinds, Bind, Bound
  <2>2. link' \in Links /\ link'.guid = g /\ link'.group = NoGroup
    BY <1>0, <1>1, <2>1 DEF Links, IInv, LinkSound
  <2>3. Bound' /\ link' # NoLink /\ Stuck'
    BY <1>1, <2>2, RowIsNoRow DEF Bound, Stuck
  <2>4. proc' \in [Procs -> Standings] /\ proc'[q] = Idle
    BY <1>0, IdleStands, GotoShape
  <2>5. Exclusive' /\ \A p \in Procs \ {q} : proc'[p] = proc[p] /\ Relies(p)'
    BY <1>0, IdleStands, InsideKeeps
  <2>6. Relies(q)'
    BY <2>4 DEF Relies, Loads, Waits, Idle
  <2>7. Shape'
    BY <1>0, <2>2, <2>4 DEF Shape
  <2>8. LinkSound'
    BY <1>0, <1>1, <2>2 DEF LinkSound
  <2>9. Ours' = Ours
    BY <1>0 DEF Ours
  <2>10. OnceOnly'
    BY <1>0, <2>3, <2>9 DEF IInv, OnceOnly
  <2>11. Recovery'
    <3>1. ASSUME NEW p \in Procs, Waits(p, "reset")' PROVE Waits(p, "reset")
      BY <2>4, <2>5, <3>1 DEF Waits, Idle
    <3> QED
      BY <2>3, <3>1 DEF IInv, Recovery
  <2>12. Shown'
    BY <1>0, <1>3 DEF IInv, Shown, ToldIsShown
  <2> QED
    BY <2>5, <2>6, <2>7, <2>8, <2>10, <2>11, <2>12 DEF IInv
<1> QED
  BY <1>2, <1>3

LEMMA ResetKeeps == ASSUME IInv, NEW q \in Procs, Reset(q) PROVE IInv'
<1>0. /\ Shape /\ Waits(q, "reset") /\ Unlocked /\ Goto(q, Idle)
      /\ UNCHANGED <<task, remotes, acked, edits>>
  BY DEF Reset, IInv
<1>1. CASE Bound \/ link = NoLink
  <2>1. UNCHANGED <<link, token, doubt>>
    BY <1>1 DEF Reset
  <2>2. doubt' \in BOOLEAN
    BY <1>0, <2>1 DEF Shape
  <2> QED
    BY <1>0, <2>1, <2>2, RestingStates, QuietGoto
<1>2. CASE ~(Bound \/ link = NoLink)
  <2>1. Ours = {} /\ ~Bound
    BY <1>0, <1>2 DEF IInv, Recovery
  <2>2. token = NoToken
    BY <2>1 DEF IInv, OnceOnly
  <2>3. link' = NoLink /\ token' = NoToken /\ doubt' = FALSE
    BY <1>2, <2>2 DEF Reset
  <2>4. proc' \in [Procs -> Standings] /\ proc'[q] = Idle
    BY <1>0, IdleStands, GotoShape
  <2>5. Exclusive' /\ \A p \in Procs \ {q} : proc'[p] = proc[p] /\ Relies(p)'
    <3>1. DOMAIN remotes \subseteq DOMAIN remotes'
      BY <1>0
    <3> QED
      BY <1>0, <3>1, IdleStands, InsideKeeps
  <2>6. Relies(q)'
    BY <2>4 DEF Relies, Loads, Waits, Idle
  <2>7. Shape'
    BY <1>0, <2>3, <2>4 DEF Shape
  <2>8. ~Bound' /\ LinkSound'
    BY <2>3 DEF LinkSound, Bound
  <2>9. Ours' = {}
    BY <1>0, <2>1 DEF Ours
  <2>10. OnceOnly'
    BY <2>3, <2>9 DEF OnceOnly
  <2>11. \A p \in Procs : ~Waits(p, "reset")'
    <3>1. \A p \in Procs \ {q} : ~Waits(p, "reset")
      BY <1>0 DEF IInv, Recovery
    <3> QED
      BY <2>4, <2>5, <3>1 DEF Waits, Idle
  <2>12. Recovery'
    BY <2>3, <2>11 DEF Recovery
  <2>13. Shown'
    BY <1>0, <2>1 DEF IInv, Shown, ToldIsShown
  <2> QED
    BY <2>5, <2>6, <2>7, <2>8, <2>10, <2>12, <2>13 DEF IInv
<1> QED
  BY <1>1, <1>2

LEMMA GrowsLateKeeps == ASSUME IInv, GrowsLate PROVE IInv'
<1>0. /\ Shape /\ link # NoLink /\ link.guid = 0 /\ link' = [link EXCEPT !.late = TRUE]
      /\ UNCHANGED <<task, remotes, token, proc, doubt, acked, edits>>
  BY DEF GrowsLate, IInv
<1>1. link \in Links
  BY <1>0, Row
<1>2. link' \in Links /\ link'.guid = link.guid /\ link'.late = TRUE /\ link'.group = link.group
  BY <1>0, <1>1 DEF Links
<1>3. link' # NoLink /\ ~Bound /\ ~Bound'
  BY <1>0, <1>2, RowIsNoRow DEF Bound
<1>4. Shape'
  BY <1>0, <1>2 DEF Shape
<1>5. Exclusive'
  BY <1>0 DEF IInv, Exclusive, Holds
<1>6. ASSUME NEW p \in Procs PROVE Relies(p)'
  BY <1>0, <1>2, <1>3 DEF IInv, Relies, Loads, Waits
<1>7. LinkSound'
  BY <1>0, <1>2, <1>3 DEF IInv, LinkSound
<1>8. Stuck => Stuck'
  BY <1>0, <1>2, <1>3 DEF Stuck
<1>9. Ours' = Ours
  BY <1>0 DEF Ours
<1>10. OnceOnly'
  BY <1>0, <1>3, <1>8, <1>9 DEF IInv, OnceOnly
<1>11. \A p \in Procs : Waits(p, "reset")' => Waits(p, "reset")
  BY <1>0 DEF Waits
<1>12. Recovery'
  BY <1>0, <1>3, <1>8, <1>9, <1>11 DEF IInv, Recovery
<1>13. Shown'
  BY <1>0, <1>3 DEF IInv, Shown, ToldIsShown
<1> QED
  BY <1>4, <1>5, <1>6, <1>7, <1>10, <1>12, <1>13 DEF IInv

LEMMA TokenExpiresKeeps == ASSUME IInv, TokenExpires PROVE IInv'
<1>0. /\ Shape /\ token' = NoToken /\ token # NoToken
      /\ UNCHANGED <<task, link, remotes, proc, doubt, acked, edits>>
  BY TokenGuid DEF TokenExpires, IInv
<1>1. Stuck
  <2>1. token.byRow /\ link # NoLink
    BY <1>0 DEF IInv, OnceOnly
  <2> QED
    BY <2>1 DEF TokenExpires, Stuck
<1>2. Stuck' /\ (Bound' <=> Bound)
  BY <1>0, <1>1 DEF Stuck, Bound
<1>3. Shape'
  BY <1>0 DEF Shape
<1>4. Exclusive'
  BY <1>0 DEF IInv, Exclusive, Holds
<1>5. ASSUME NEW p \in Procs PROVE Relies(p)'
  BY <1>0, <1>2 DEF IInv, Relies, Loads, Waits
<1>6. LinkSound'
  BY <1>0, <1>2 DEF IInv, LinkSound
<1>7. Ours' = Ours
  BY <1>0 DEF Ours
<1>8. OnceOnly'
  BY <1>0, <1>2, <1>7 DEF IInv, OnceOnly
<1>9. \A p \in Procs : Waits(p, "reset")' <=> Waits(p, "reset")
  BY <1>0 DEF Waits
<1>10. Recovery'
  BY <1>0, <1>2, <1>7, <1>9 DEF IInv, Recovery
<1>11. Shown'
  BY <1>0, <1>2 DEF IInv, Shown, ToldIsShown
<1> QED
  BY <1>3, <1>4, <1>5, <1>6, <1>8, <1>10, <1>11 DEF IInv

----------------------------------------------------------------------------
(* The invariant holds. *)

LEMMA InitIInv == Init => IInv
<1> SUFFICES ASSUME Init PROVE IInv
  OBVIOUS
<1>1. /\ task = [title |-> 0, status |-> "open", version |-> 0]
      /\ link = NoLink /\ remotes = <<Remote(FALSE, 0)>> /\ token = NoToken
      /\ proc = [q \in Procs |-> Idle] /\ doubt = FALSE /\ acked = -1 /\ edits = 0
  BY DEF Init
<1>2. \A q \in Procs : proc[q].pc = "idle"
  BY <1>1 DEF Idle
<1>3. Remote(FALSE, 0) \in InLark /\ ~Remote(FALSE, 0).ours
  BY DEF Remote, InLark
<1>4. remotes \in Seq(InLark) /\ Ours = {}
  <2> DEFINE e == Remote(FALSE, 0)
  <2>1. e \in InLark /\ ~e.ours /\ remotes = <<e>>
    BY <1>1, <1>3
  <2> HIDE DEF e
  <2>2. remotes \in Seq(InLark) /\ DOMAIN remotes = 1..1 /\ remotes[1] = e
    BY <2>1
  <2>3. \A i \in DOMAIN remotes : ~remotes[i].ours
    BY <2>1, <2>2
  <2> QED
    BY <2>2, <2>3 DEF Ours
<1>5. task \in Tasks /\ task.title \in 0..task.version /\ task.version = edits
  BY <1>1 DEF Tasks
<1>6. proc \in [Procs -> Standings]
  BY <1>1, IdleStands
<1>7. Shape
  <2>1. link \in Links \cup {NoLink} /\ token \in Tokens \cup {NoToken}
    BY <1>1
  <2>2. doubt \in BOOLEAN
    BY <1>1
  <2>3. acked \in Int
    BY <1>1
  <2> QED
    BY <1>4, <1>5, <1>6, <2>1, <2>2, <2>3 DEF Shape
<1>8. Exclusive /\ \A q \in Procs : Relies(q)
  BY <1>2 DEF Exclusive, Holds, Relies, Loads, Waits
<1>9. LinkSound /\ OnceOnly
  BY <1>1, <1>4 DEF LinkSound, OnceOnly, Bound
<1>10. Recovery
  BY <1>1, <1>2 DEF Recovery, Waits
<1>11. Shown
  BY <1>1 DEF Shown, ToldIsShown
<1> QED
  BY <1>7, <1>8, <1>9, <1>10, <1>11 DEF IInv

LEMMA StutterKeeps == ASSUME IInv, UNCHANGED vars PROVE IInv'
<1>1. UNCHANGED <<task, link, remotes, token, proc, doubt, acked, edits>>
  BY DEF vars
<1>2. proc' \in [Procs -> Standings] /\ doubt' \in BOOLEAN
  BY <1>1 DEF IInv, Shape
<1>3. \A p \in Procs : proc'[p] = proc[p] /\ (Waits(p, "reset")' <=> Waits(p, "reset"))
  BY <1>1 DEF Waits
<1>4. \A p, q \in Procs : Waits(p, "reset")' /\ Waits(q, "reset")' => p = q
  BY <1>3 DEF IInv, Recovery
<1> QED
  BY <1>1, <1>2, <1>3, <1>4, QuietKeeps

LEMMA Inductive == IInv /\ [Next]_vars => IInv'
<1> SUFFICES ASSUME IInv, [Next]_vars PROVE IInv'
  OBVIOUS
<1>1. CASE UNCHANGED vars
  BY <1>1, StutterKeeps
<1>2. ASSUME NEW q \in Procs, Serve(q) PROVE IInv'
  BY <1>2, BeginKeeps, CreateKeeps, CreateRejectedKeeps, JoinGroupKeeps, UpdateKeeps,
     LinkKeeps, LinkBindsKeeps, ResetKeeps DEF Serve
<1>3. ASSUME NEW q \in Procs, FailAt(q) PROVE IInv'
  BY <1>3, CreateUnansweredKeeps, CreateFailsKeeps, JoinGroupFailsKeeps, UpdateFailsKeeps DEF FailAt
<1>4. ASSUME NEW u \in Users, Edit(u) \/ SyncExisting(u) \/ AskSync(u) \/ AskLink(u) \/ Recover(u)
      PROVE  IInv'
  <2>1. u \in Procs
    BY DEF Procs
  <2> QED
    BY <1>4, <2>1, EditKeeps, SyncExistingKeeps, AskSyncKeeps, AskLinkKeeps, RecoverKeeps
<1>5. CASE Refresh \/ GrowsLate \/ TokenExpires \/ Restart
  BY <1>5, RefreshKeeps, GrowsLateKeeps, TokenExpiresKeeps, RestartKeeps
<1> QED
  BY <1>1, <1>2, <1>3, <1>4, <1>5 DEF Next

(* The inductive invariant: the lock is one call's, the row and Lark's     *)
(* memory of the token account for the task that Saturnus made, and who    *)
(* recovers does so when no call can create one.                           *)
THEOREM InvariantHolds == Spec => []IInv
<1>1. Init => IInv
  BY InitIInv
<1>2. IInv /\ [Next]_vars => IInv'
  BY Inductive
<1> QED
  BY <1>1, <1>2, PTL DEF Spec

LEMMA AtMostOne ==
    ASSUME NEW S, \A x, y \in S : x = y
    PROVE  Cardinality(S) <= 1
<1>1. CASE S = {}
  BY <1>1, FS_EmptySet
<1>2. CASE S # {}
  <2>1. PICK x \in S : TRUE
    BY <1>2
  <2>2. S = {x}
    BY <2>1
  <2>3. Cardinality({x}) = 1
    BY FS_Singleton
  <2> QED
    BY <2>2, <2>3
<1> QED
  BY <1>1, <1>2

(* TypeOK, for any number of handlers: titles follow versions, one call is *)
(* inside the lock, a call past the creation works on a bound task, and    *)
(* the group that a row records is one the Lark task is in.                *)
THEOREM TypeCorrect == Spec => []TypeOK
<1>1. IInv => TypeOK
  <2> SUFFICES ASSUME IInv PROVE TypeOK
    OBVIOUS
  <2>1. task.title \in 0..task.version /\ task.version = edits
    BY DEF IInv, Shape
  <2>2. \A q \in Procs : proc[q].pc \notin {"idle", "edited", "wait"} => Holds(q)
    <3>1. ASSUME NEW q \in Procs PROVE proc[q] \in Standings
      BY DEF IInv, Shape
    <3> QED
      BY <3>1 DEF Standings, Loading, Linking, ToSync, ToLink, ToReset, Resting, Holds
  <2> DEFINE inside == {q \in Procs : proc[q].pc \notin {"idle", "edited", "wait"}}
  <2>3. \A p, q \in inside : p = q
    BY <2>2 DEF IInv, Exclusive
  <2> HIDE DEF inside
  <2>4. Cardinality(inside) <= 1
    BY <2>3, AtMostOne
  <2>5. \A q \in Procs : proc[q].pc \in {"group", "update"} => Bound
    BY DEF IInv, Relies
  <2>6. Bound => /\ link.guid \in DOMAIN remotes
                 /\ link.group # NoGroup => link.group \in remotes[link.guid].lists
    BY DEF IInv, LinkSound
  <2> QED
    BY <2>1, <2>4, <2>5, <2>6 DEF TypeOK, inside
<1> QED
  BY <1>1, InvariantHolds, PTL

(* OneRemoteTask: whatever answers are lost, however often the server      *)
(* restarts and however many callers sync, link and recover, SyncLark has  *)
(* created at most one task in Lark; if one operator recovers at a time,   *)
(* looks first, and resets the reservation his doubt is about, which the   *)
(* code does not enforce.                                                  *)
THEOREM OneRemoteTaskHolds == Spec => []OneRemoteTask
<1>1. IInv => OneRemoteTask
  <2> SUFFICES ASSUME IInv PROVE OneRemoteTask
    OBVIOUS
  <2>1. \A g, h \in Ours : g = h
    BY DEF IInv, OnceOnly
  <2>2. Cardinality(Ours) <= 1
    BY <2>1, AtMostOne
  <2> QED
    BY <2>2 DEF OneRemoteTask, Ours
<1> QED
  BY <1>1, InvariantHolds, PTL

(* ToldIsShown: no call that loaded an older task writes to Lark after a   *)
(* caller was told that the newest one is there, for any interleaving of   *)
(* handlers, refreshes, failures and recoveries.                           *)
THEOREM ToldIsShownHolds == Spec => []ToldIsShown
<1>1. IInv => ToldIsShown
  BY DEF IInv, Shown
<1> QED
  BY <1>1, InvariantHolds, PTL
=============================================================================
