--------------------------- MODULE DispatchProofs ---------------------------
(***************************************************************************)
(* What Dispatch promises for any reviews and workers, however often       *)
(* connections break, workers die and the server is replaced: it is a      *)
(* lifecycle, what is bound to a connected worker counts there, and is     *)
(* executed there.                                                         *)
(***************************************************************************)
EXTENDS Dispatch, TLAPS

----------------------------------------------------------------------------
(* Claims, and where they may be. *)

Claim(r, k) == [review |-> r, run |-> k]
Done(c)     == [type |-> "complete", review |-> c.review, run |-> c.run]

Hellos == [type: {"hello"}, list: SUBSET Reviews]
Dones  == [type: {"complete"}, review: Reviews, run: Nat \ {0}]
Busies == [type: {"busy"}, review: Reviews]
Frames == Hellos \cup Dones \cup Busies
Jobs   == [review: Reviews, run: Nat \ {0}, phase: {"running", "reported"}]

Holding == {"started", "added", "failed"}

Sent(w, c)  == c \in Elements(down[w])
Runs(w, c)  == Executing(w, c.review, c.run)
Tells(w, c) == Done(c) \in Elements(up[w])

\* The executors that will yet report, by their claims.
Out(w)  == {c \in Claims : Sent(w, c) \/ Runs(w, c) \/ Tells(w, c)}
Pending == Held \cup locals \cup UNION {Out(w) : w \in Workers}

Rows ==
    /\ mode = "distributed" /\ torn = {}
    /\ row \in [Reviews -> Life!Row]
    /\ runs \in [Reviews -> Seq(Life!Run)]

SchedShape ==
    \/ sched = Idle
    \/ \E r \in Reviews, w \in Workers : sched = [pc |-> "picked", review |-> r, worker |-> w]
    \/ \E pc \in Holding, r \in Reviews, w \in Workers, k \in Nat \ {0} :
          sched = [pc |-> pc, review |-> r, worker |-> w, run |-> k]

Shape ==
    /\ SchedShape
    /\ inFlight \in [Workers -> SUBSET Reviews]
    /\ todo \in [Workers -> SUBSET Reviews]
    /\ conn \in [Workers -> {"closed", "open", "listed", "ready"}]
    /\ listed \in [Workers -> SUBSET Reviews]
    /\ up \in [Workers -> Seq(Frames)]
    /\ down \in [Workers -> Seq(Claims)]
    /\ jobs \in [Workers -> SUBSET Jobs]
    /\ locals \subseteq Claims

Distinct(s, D) == \A i, j \in 1..Len(s) : s[i] = s[j] /\ s[i] \in D => i = j

\* A claim is in one place, once.
Places(w) ==
    /\ Distinct(down[w], Claims) /\ Distinct(up[w], Dones)
    /\ \A c \in Claims :
          /\ c \in Held => ~Sent(w, c) /\ ~Redelivered(w, c) /\ ~Tells(w, c)
          /\ Sent(w, c) => ~Redelivered(w, c) /\ ~Tells(w, c)
          /\ Runs(w, c) => ~Tells(w, c)

\* A run that may still be reported is its worker's, and was not published.
Unpublished(w, c) ==
    /\ c.run <= Len(runs[c.review])
    /\ runs[c.review][c.run].worker = w
    /\ runs[c.review][c.run].status # "succeeded"

\* Nobody takes a review from the local pool while it works on it.
InProgress(c) == Bound(c.review, Local) /\ c.run = Len(runs[c.review])

Home ==
    /\ \A c \in Held : Unpublished(sched.worker, c)
    /\ \A c \in locals : InProgress(c)
    /\ \A w \in Workers : \A c \in Out(w) : Unpublished(w, c)
    /\ \A w \in Workers : \A j \in jobs[w] : j.run <= Len(runs[j.review])

HoldsNewest ==
    sched.pc \in Holding =>
        \A w \in Workers : Bound(sched.review, w) => w = sched.worker /\ sched.run = Len(runs[sched.review])

Holds(r, w) == sched.pc \in Holding /\ sched.review = r /\ sched.worker = w

HelloOnItsWay(w) == \E f \in Hellos : f \in Elements(up[w])

Counted(r, w) ==
    Bound(r, w) =>
        \/ r \in inFlight[w] \/ r \in todo[w]
        \/ conn[w] # "ready" \/ HelloOnItsWay(w)
        \/ Holds(r, w) /\ sched.pc = "started"

\* The next hello of w will not, or does not, list r.
Missing(r, w) ==
    \/ conn[w] = "open" /\ r \notin Reviewed(w)
    \/ conn[w] = "listed" /\ r \notin listed[w]
    \/ \E f \in Hellos : f \in Elements(up[w]) /\ r \notin f.list

Covered(r, w) ==
    Bound(r, w) /\ Unspoilt(r, w) =>
        LET c == Claim(r, Len(runs[r])) IN
        \/ conn[w] = "closed" \/ Holds(r, w) \/ r \in todo[w] \/ Missing(r, w)
        \/ Sent(w, c) \/ Runs(w, c) \/ Tells(w, c)
        \/ [type |-> "busy", review |-> r] \in Elements(up[w])

OwnershipKept == \A r \in Reviews : Life!OwnershipOf(r)

IInv ==
    /\ Rows /\ Shape /\ OwnershipKept
    /\ \A w \in Workers : Places(w)
    /\ Home /\ HoldsNewest
    /\ \A r \in Reviews, w \in Workers : Counted(r, w) /\ Covered(r, w)

----------------------------------------------------------------------------
(* Sequences of frames and claims. *)

LEMMA NothingSent == Elements(<<>>) = {} /\ \A D : Distinct(<<>>, D)
  BY DEF Elements, Distinct

LEMMA Appended ==
    ASSUME NEW S, NEW s \in Seq(S), NEW e \in S
    PROVE  /\ Append(s, e) \in Seq(S)
           /\ Elements(Append(s, e)) = Elements(s) \cup {e}
           /\ \A D : Distinct(s, D) /\ (e \in D => e \notin Elements(s)) => Distinct(Append(s, e), D)
  <1> DEFINE t == Append(s, e)
  <1>1. /\ t \in Seq(S) /\ Len(t) = Len(s) + 1 /\ Len(s) \in Nat
        /\ \A i \in 1..Len(s) : t[i] = s[i]
        /\ t[Len(s) + 1] = e
    OBVIOUS
  <1> HIDE DEF t
  <1>2. 1..Len(t) = 1..Len(s) \cup {Len(s) + 1}
    BY <1>1
  <1>3. Elements(t) = Elements(s) \cup {e}
    BY <1>1, <1>2 DEF Elements
  <1>4. ASSUME NEW D, Distinct(s, D), e \in D => e \notin Elements(s) PROVE Distinct(t, D)
    BY <1>1, <1>2, <1>4 DEF Distinct, Elements
  <1> QED
    BY <1>1, <1>3, <1>4 DEF t

LEMMA Tailed ==
    ASSUME NEW S, NEW s \in Seq(S), s # <<>>
    PROVE  /\ Tail(s) \in Seq(S) /\ Head(s) \in S
           /\ Elements(s) = Elements(Tail(s)) \cup {Head(s)}
           /\ \A D : Distinct(s, D) =>
                 Distinct(Tail(s), D) /\ (Head(s) \in D => Head(s) \notin Elements(Tail(s)))
  <1> DEFINE t == Tail(s)
  <1>1. /\ t \in Seq(S) /\ Len(s) \in Nat \ {0} /\ Len(t) = Len(s) - 1
        /\ \A i \in 1..Len(t) : t[i] = s[i + 1]
        /\ Head(s) = s[1] /\ s[1] \in S
    OBVIOUS
  <1> HIDE DEF t
  <1>2. \A i \in 1..Len(t) : i + 1 \in 1..Len(s) /\ i + 1 # 1
    BY <1>1
  <1>3. \A j \in 1..Len(s) : j = 1 \/ (j - 1 \in 1..Len(t) /\ s[j] = t[j - 1])
    BY <1>1
  <1>4. 1 \in 1..Len(s)
    BY <1>1
  <1>5. Elements(s) = Elements(t) \cup {s[1]}
    <2>1. \A x : x \in Elements(t) => x \in Elements(s)
      BY <1>1, <1>2 DEF Elements
    <2>2. s[1] \in Elements(s)
      BY <1>4 DEF Elements
    <2>3. \A x : x \in Elements(s) => x = s[1] \/ x \in Elements(t)
      BY <1>3 DEF Elements
    <2> QED
      BY <2>1, <2>2, <2>3
  <1>6. ASSUME NEW D, Distinct(s, D) PROVE Distinct(t, D) /\ (s[1] \in D => s[1] \notin Elements(t))
    <2>1. Distinct(t, D)
      <3> SUFFICES ASSUME NEW i \in 1..Len(t), NEW j \in 1..Len(t), t[i] = t[j], t[i] \in D
                   PROVE  i = j
        BY DEF Distinct
      <3>1. s[i + 1] = s[j + 1] /\ s[i + 1] \in D
        BY <1>1
      <3>2. i + 1 = j + 1
        BY <1>2, <1>6, <3>1 DEF Distinct
      <3> QED
        BY <3>2
    <2>2. s[1] \in D => s[1] \notin Elements(t)
      BY <1>1, <1>2, <1>4, <1>6 DEF Distinct, Elements
    <2> QED
      BY <2>1, <2>2
  <1> QED
    BY <1>1, <1>5, <1>6 DEF t

LEMMA Shortened ==
    ASSUME NEW S, NEW s \in Seq(S), NEW n \in 0..Len(s)
    PROVE  /\ SubSeq(s, 1, n) \in Seq(S)
           /\ Elements(SubSeq(s, 1, n)) \subseteq Elements(s)
           /\ \A D : Distinct(s, D) => Distinct(SubSeq(s, 1, n), D)
  <1> DEFINE t == SubSeq(s, 1, n)
  <1>1. /\ t \in Seq(S) /\ Len(t) = n /\ Len(s) \in Nat
        /\ \A i \in 1..n : t[i] = s[i]
    OBVIOUS
  <1> HIDE DEF t
  <1>2. 1..n \subseteq 1..Len(s)
    BY <1>1
  <1>3. Elements(t) \subseteq Elements(s) /\ \A D : Distinct(s, D) => Distinct(t, D)
    BY <1>1, <1>2 DEF Elements, Distinct
  <1> QED
    BY <1>1, <1>3 DEF t

----------------------------------------------------------------------------
(* The frames. *)

LEMMA Kinds ==
    /\ \A f \in Frames : \/ f.type = "hello" /\ f \in Hellos /\ f.list \subseteq Reviews
                         \/ f.type = "complete" /\ f \in Dones
                         \/ f.type = "busy" /\ f \in Busies /\ f.review \in Reviews
    /\ \A f \in Hellos : f.type = "hello" /\ f \notin Dones
    /\ \A f \in Busies : f.type = "busy" /\ f \notin Dones
    /\ \A f \in Dones : /\ f.type = "complete" /\ f.review \in Reviews /\ f.run \in Nat \ {0}
                        /\ Claim(f.review, f.run) \in Claims /\ Done(Claim(f.review, f.run)) = f
    /\ \A r \in Reviews : [type |-> "busy", review |-> r] \in Busies
    /\ \A c \in Claims : Done(c) \in Dones
    /\ \A l \in SUBSET Reviews : [type |-> "hello", list |-> l] \in Hellos
  BY DEF Frames, Hellos, Dones, Busies, Claims, Claim, Done

LEMMA ClaimFacts ==
    /\ \A r \in Reviews, k \in Nat \ {0} :
          Claim(r, k) \in Claims /\ Claim(r, k).review = r /\ Claim(r, k).run = k
    /\ \A c \in Claims : /\ c.review \in Reviews /\ c.run \in Nat \ {0}
                         /\ Claim(c.review, c.run) = c
                         /\ c = [review |-> c.review, run |-> c.run]
    /\ \A c, d \in Claims : c.review = d.review /\ c.run = d.run => c = d
    /\ \A c, d \in Claims : Done(c) = Done(d) => c = d
  BY DEF Claims, Claim, Done

(* Sent on the wire, received, and lost with it. *)

LEMMA ReplyEffect ==
    ASSUME Shape, NEW w \in Workers, NEW f \in Frames, Reply(w, f)
    PROVE  /\ up' \in [Workers -> Seq(Frames)]
           /\ \A v \in Workers : v # w => up'[v] = up[v]
           /\ conn[w] = "closed" => up' = up
           /\ conn[w] # "closed" => Elements(up'[w]) = Elements(up[w]) \cup {f}
           /\ Distinct(up[w], Dones) /\ (f \in Dones => f \notin Elements(up[w])) => Distinct(up'[w], Dones)
  <1>1. up \in [Workers -> Seq(Frames)] /\ up[w] \in Seq(Frames)
    BY DEF Shape
  <1>2. CASE conn[w] = "closed"
    BY <1>1, <1>2 DEF Reply
  <1>3. CASE conn[w] # "closed"
    <2>1. up' = [up EXCEPT ![w] = Append(up[w], f)]
      BY <1>3 DEF Reply
    <2>2. up'[w] = Append(up[w], f) /\ up'[w] \in Seq(Frames)
      BY <1>1, <2>1, Appended
    <2>3. up' \in [Workers -> Seq(Frames)] /\ \A v \in Workers : v # w => up'[v] = up[v]
      BY <1>1, <2>1, <2>2
    <2> QED
      BY <1>1, <1>3, <2>2, <2>3, Appended
  <1> QED
    BY <1>2, <1>3

LEMMA ReceiveEffect ==
    ASSUME Shape, NEW w \in Workers, up[w] # <<>>, Receive(w)
    PROVE  /\ up' \in [Workers -> Seq(Frames)] /\ Head(up[w]) \in Frames
           /\ \A v \in Workers : v # w => up'[v] = up[v]
           /\ Elements(up[w]) = Elements(up'[w]) \cup {Head(up[w])}
           /\ Distinct(up[w], Dones) =>
                 Distinct(up'[w], Dones) /\ (Head(up[w]) \in Dones => Head(up[w]) \notin Elements(up'[w]))
  <1>1. up \in [Workers -> Seq(Frames)] /\ up[w] \in Seq(Frames)
    BY DEF Shape
  <1>2. up' = [up EXCEPT ![w] = Tail(up[w])]
    BY DEF Receive
  <1>3. up'[w] = Tail(up[w]) /\ up'[w] \in Seq(Frames)
    BY <1>1, <1>2, Tailed
  <1>4. up' \in [Workers -> Seq(Frames)] /\ \A v \in Workers : v # w => up'[v] = up[v]
    BY <1>1, <1>2, <1>3
  <1> QED
    BY <1>1, <1>3, <1>4, Tailed

LEMMA CutEffect ==
    ASSUME Shape, NEW w \in Workers, Cut(w)
    PROVE  /\ up' \in [Workers -> Seq(Frames)] /\ down' \in [Workers -> Seq(Claims)]
           /\ conn' \in [Workers -> {"closed", "open", "listed", "ready"}]
           /\ listed' \in [Workers -> SUBSET Reviews]
           /\ \A v \in Workers : v # w =>
                 up'[v] = up[v] /\ down'[v] = down[v] /\ conn'[v] = conn[v] /\ listed'[v] = listed[v]
           /\ conn'[w] = "closed"
           /\ Elements(down'[w]) = {} /\ Distinct(down'[w], Claims)
           /\ Elements(up'[w]) \subseteq Elements(up[w])
           /\ Distinct(up[w], Dones) => Distinct(up'[w], Dones)
  <1>1. /\ up \in [Workers -> Seq(Frames)] /\ up[w] \in Seq(Frames)
        /\ down \in [Workers -> Seq(Claims)]
        /\ conn \in [Workers -> {"closed", "open", "listed", "ready"}]
        /\ listed \in [Workers -> SUBSET Reviews]
    BY DEF Shape
  <1>2. PICK n \in 0..Len(up[w]) : up' = [up EXCEPT ![w] = SubSeq(up[w], 1, n)]
    BY DEF Cut
  <1>3. up'[w] = SubSeq(up[w], 1, n) /\ up'[w] \in Seq(Frames)
    BY <1>1, <1>2, Shortened
  <1>4. up' \in [Workers -> Seq(Frames)] /\ \A v \in Workers : v # w => up'[v] = up[v]
    BY <1>1, <1>2, <1>3
  <1>5. /\ down' \in [Workers -> Seq(Claims)] /\ down'[w] = <<>>
        /\ \A v \in Workers : v # w => down'[v] = down[v]
    BY <1>1 DEF Cut
  <1>6. /\ conn' \in [Workers -> {"closed", "open", "listed", "ready"}] /\ conn'[w] = "closed"
        /\ listed' \in [Workers -> SUBSET Reviews]
        /\ \A v \in Workers : v # w => conn'[v] = conn[v] /\ listed'[v] = listed[v]
    BY <1>1 DEF Cut
  <1> QED
    BY <1>1, <1>3, <1>4, <1>5, <1>6, Shortened, NothingSent

----------------------------------------------------------------------------
(* The tables. *)

\* What a step that settles r or gives it back does to the tables; k is the run that
\* it may publish as succeeded, 0 if none.
Frees(r, k) ==
    /\ Rows' /\ OwnershipKept'
    /\ \A q \in Reviews \ {r} : row'[q] = row[q] /\ runs'[q] = runs[q]
    /\ \A w \in Workers : ~Bound(r, w)'
    /\ Len(runs'[r]) = Len(runs[r])
    /\ \A i \in 1..Len(runs[r]) :
          /\ runs'[r][i].worker = runs[r][i].worker
          /\ i # k /\ runs'[r][i].status = "succeeded" => runs[r][i].status = "succeeded"

\* What a step that starts r at w does to them.
Begins(r, w) ==
    /\ Rows' /\ OwnershipKept'
    /\ \A q \in Reviews \ {r} : row'[q] = row[q] /\ runs'[q] = runs[q]
    /\ \A v \in Workers : Bound(r, v)' => v = w
    /\ Len(runs'[r]) = Len(runs[r]) + 1
    /\ \A i \in 1..Len(runs[r]) : runs'[r][i] = runs[r][i]
    /\ runs'[r][Len(runs[r]) + 1].worker = w
    /\ runs'[r][Len(runs[r]) + 1].status = "running"

LEMMA RunFacts ==
    ASSUME Rows, NEW r \in Reviews
    PROVE  /\ row[r] \in Life!Row /\ runs[r] \in Seq(Life!Run) /\ Len(runs[r]) \in Nat
           /\ \A k \in 1..Len(runs[r]) : runs[r][k] \in Life!Run
  BY DEF Rows

LEMMA Mapped ==
    ASSUME NEW n \in Nat, NEW f, f = [i \in 1..n |-> f[i]], \A i \in 1..n : f[i] \in Life!Run
    PROVE  f \in Seq(Life!Run) /\ Len(f) = n
  OBVIOUS

LEMMA RunAdded ==
    ASSUME NEW s \in Seq(Life!Run), NEW e \in Life!Run
    PROVE  /\ Append(s, e) \in Seq(Life!Run)
           /\ Len(Append(s, e)) = Len(s) + 1
           /\ \A i \in 1..Len(s) : Append(s, e)[i] = s[i]
           /\ Append(s, e)[Len(s) + 1] = e
  OBVIOUS

LEMMA RunReplaced ==
    ASSUME NEW s \in Seq(Life!Run), NEW k \in 1..Len(s), NEW e \in Life!Run
    PROVE  /\ [s EXCEPT ![k] = e] \in Seq(Life!Run)
           /\ Len([s EXCEPT ![k] = e]) = Len(s)
           /\ \A i \in 1..Len(s) : [s EXCEPT ![k] = e][i] = IF i = k THEN e ELSE s[i]
  OBVIOUS

\* The current run is the newest one of a review that is being reviewed.
LEMMA CurrentIsNewest ==
    ASSUME Rows, OwnershipKept, NEW r \in Reviews
    PROVE  /\ \A k \in 1..Len(runs[r]) : Life!IsCurrent(r, k) =>
                 /\ row[r].status = "reviewing" /\ k = Len(runs[r])
                 /\ runs[r][k].worker = row[r].worker
           /\ row[r].status = "reviewing" => /\ Len(runs[r]) \in Nat \ {0}
                                             /\ Life!IsCurrent(r, Len(runs[r]))
                                             /\ runs[r][Len(runs[r])].worker = row[r].worker
           /\ \A k \in 1..Len(runs[r]) : k # Len(runs[r]) => runs[r][k].status # "running"
           /\ row[r].status # "reviewing" => \A k \in 1..Len(runs[r]) : runs[r][k].status # "running"
  <1>1. Len(runs[r]) \in Nat
    BY RunFacts
  <1>2. IF row[r].status = "reviewing"
        THEN /\ Len(runs[r]) > 0 /\ Life!Running(r) = {Len(runs[r])}
             /\ runs[r][Len(runs[r])].worker = row[r].worker
        ELSE Life!Running(r) = {}
    BY DEF OwnershipKept, Life!OwnershipOf, Life!Latest
  <1>3. Life!Running(r) = {k \in 1..Len(runs[r]) : runs[r][k].status = "running"}
    BY DEF Life!Running, Life!Latest
  <1> QED
    BY <1>1, <1>2, <1>3 DEF Life!IsCurrent

LEMMA OthersOwned ==
    ASSUME OwnershipKept, NEW r \in Reviews,
           \A q \in Reviews \ {r} : row'[q] = row[q] /\ runs'[q] = runs[q],
           Life!OwnershipOf(r)'
    PROVE  OwnershipKept'
  BY DEF OwnershipKept, Life!OwnershipOf, Life!Running, Life!Latest

\* A finished or new review is asked for again.
LEMMA RequestEffect ==
    ASSUME Rows, OwnershipKept, NEW r \in Reviews, Request(r)
    PROVE  Frees(r, 0)
  <1>1. row[r] \in Life!Row /\ row \in [Reviews -> Life!Row]
    BY RunFacts DEF Rows
  <1>2. Life!Requeued(r) \in Life!Row /\ Life!Requeued(r).status = "pending"
    BY <1>1 DEF Life!Requeued, Life!Row, Life!RowStatus
  <1>3. /\ row' \in [Reviews -> Life!Row] /\ row'[r].status = "pending"
        /\ \A q \in Reviews \ {r} : row'[q] = row[q]
        /\ runs' = runs /\ mode' = mode /\ torn' = torn
    BY <1>1, <1>2 DEF Request
  <1>4. Rows'
    BY <1>3 DEF Rows
  <1>5. row[r].status # "reviewing"
    BY DEF Request
  <1>6. Life!OwnershipOf(r)'
    BY <1>3, <1>5 DEF OwnershipKept, Life!OwnershipOf, Life!Running, Life!Latest
  <1> QED
    BY <1>3, <1>4, <1>6, OthersOwned DEF Frees, Bound

\* RequeueForOrphan.
LEMMA RequeueEffect ==
    ASSUME Rows, OwnershipKept, NEW r \in Reviews, row[r].status = "reviewing",
           Requeue(r), UNCHANGED <<mode, torn>>
    PROVE  Frees(r, 0)
  <1> DEFINE n == Len(runs[r])
             new == [k \in 1..n |-> IF Life!IsCurrent(r, k) THEN [runs[r][k] EXCEPT !.status = "failed"]
                                                            ELSE runs[r][k]]
  <1>1. /\ row[r] \in Life!Row /\ row \in [Reviews -> Life!Row] /\ n \in Nat
        /\ runs \in [Reviews -> Seq(Life!Run)] /\ \A k \in 1..n : runs[r][k] \in Life!Run
    BY RunFacts DEF Rows
  <1>2. Life!Released(r) \in Life!Row /\ Life!Released(r).status = "pending"
    BY <1>1 DEF Life!Released, Life!Row, Life!RowStatus, Life!Owners
  <1>3. \A k \in 1..n : [runs[r][k] EXCEPT !.status = "failed"] \in Life!Run
    BY <1>1 DEF Life!Run, Life!RunStatus
  <1>4. new \in Seq(Life!Run) /\ Len(new) = n
    <2>1. \A k \in 1..n : new[k] \in Life!Run
      BY <1>1, <1>3
    <2> HIDE DEF n
    <2>2. new = [k \in 1..n |-> new[k]]
      OBVIOUS
    <2> HIDE DEF new
    <2> QED
      BY <1>1, <2>1, <2>2, Mapped
  <1>5. row' = [row EXCEPT ![r] = Life!Released(r)] /\ runs' = [runs EXCEPT ![r] = new]
    BY DEF Requeue, Life!FailCurrentRun, Life!Latest
  <1>6. \A k \in 1..n : Life!IsCurrent(r, k) <=> k = n
    BY CurrentIsNewest
  <1>7. \A k \in 1..n : /\ new[k].worker = runs[r][k].worker
                        /\ new[k].status # "running"
                        /\ new[k].status = "succeeded" => runs[r][k].status = "succeeded"
    <2> SUFFICES ASSUME NEW k \in 1..n
                 PROVE  /\ new[k].worker = runs[r][k].worker
                        /\ new[k].status # "running"
                        /\ new[k].status = "succeeded" => runs[r][k].status = "succeeded"
      OBVIOUS
    <2>1. CASE k = n
      <3>1. new[k] = [runs[r][k] EXCEPT !.status = "failed"]
        BY <1>6, <2>1
      <3> QED
        BY <1>1, <3>1 DEF Life!Run
    <2>2. CASE k # n
      <3>1. new[k] = runs[r][k]
        BY <1>6, <2>2
      <3> QED
        BY <2>2, <3>1, CurrentIsNewest
    <2> QED
      BY <2>1, <2>2
  <1> HIDE DEF new
  <1>8. /\ row' \in [Reviews -> Life!Row] /\ row'[r].status = "pending"
        /\ runs' \in [Reviews -> Seq(Life!Run)] /\ runs'[r] = new
        /\ \A q \in Reviews \ {r} : row'[q] = row[q] /\ runs'[q] = runs[q]
    BY <1>1, <1>2, <1>4, <1>5
  <1>9. Rows'
    BY <1>8 DEF Rows
  <1>10. Life!OwnershipOf(r)'
    BY <1>4, <1>7, <1>8 DEF Life!OwnershipOf, Life!Running, Life!Latest
  <1> QED
    BY <1>4, <1>7, <1>8, <1>9, <1>10, OthersOwned DEF Frees, Bound

\* CompleteReviewRun, for the current run.
LEMMA PublishEffect ==
    ASSUME Rows, OwnershipKept, NEW r \in Reviews, NEW k \in 1..Len(runs[r]), Life!IsCurrent(r, k),
           NEW ok \in BOOLEAN, Life!Publish(r, k, Life!Outcome(r, k, ok), row[r].session),
           UNCHANGED <<mode, torn>>
    PROVE  Frees(r, k) /\ k = Len(runs[r])
  <1> DEFINE n == Len(runs[r])
             out == Life!Outcome(r, k, ok)
  <1>1. /\ row[r] \in Life!Row /\ row \in [Reviews -> Life!Row] /\ n \in Nat
        /\ runs \in [Reviews -> Seq(Life!Run)] /\ runs[r] \in Seq(Life!Run)
        /\ \A i \in 1..n : runs[r][i] \in Life!Run
    BY RunFacts DEF Rows
  <1>2. out \in {"succeeded", "failed"}
    BY DEF Life!Outcome
  <1> HIDE DEF out
  <1>3. k = n
    BY CurrentIsNewest
  <1>4. PICK old \in Life!Row : old = row[r]
    BY <1>1
  <1>5. PICK new \in Life!Row : new = [old EXCEPT !.status = out, !.session = old.session]
    BY <1>2, <1>4 DEF Life!Row, Life!RowStatus
  <1>6. row' = [row EXCEPT ![r] = new] /\ new.status = out
    <2>1. row' = [row EXCEPT ![r].status = out, ![r].session = row[r].session]
      BY DEF Life!Publish, out
    <2>2. row' = [row EXCEPT ![r] = [row[r] EXCEPT !.status = out, !.session = row[r].session]]
      BY <1>1, <2>1
    <2>3. new.status = out
      BY <1>5 DEF Life!Row
    <2> QED
      BY <1>4, <1>5, <2>2, <2>3
  <1>7. PICK run \in Life!Run : run = [runs[r][k] EXCEPT !.status = out, !.verdict = row[r].verdict # 0]
    BY <1>1, <1>2, <1>3 DEF Life!Run, Life!RunStatus
  <1>8. runs' = [runs EXCEPT ![r] = [runs[r] EXCEPT ![k] = run]]
    BY <1>1, <1>7 DEF Life!Publish, out
  <1>9. /\ [runs[r] EXCEPT ![k] = run] \in Seq(Life!Run) /\ Len([runs[r] EXCEPT ![k] = run]) = n
        /\ \A i \in 1..n : [runs[r] EXCEPT ![k] = run][i] = IF i = k THEN run ELSE runs[r][i]
    BY <1>1, RunReplaced
  <1>10. run.status = out /\ run.worker = runs[r][k].worker
    BY <1>1, <1>7 DEF Life!Run
  <1>11. /\ row' \in [Reviews -> Life!Row] /\ row'[r].status = out
         /\ runs' \in [Reviews -> Seq(Life!Run)] /\ Len(runs'[r]) = n
         /\ \A i \in 1..n : runs'[r][i] = IF i = k THEN run ELSE runs[r][i]
         /\ \A q \in Reviews \ {r} : row'[q] = row[q] /\ runs'[q] = runs[q]
    BY <1>1, <1>6, <1>8, <1>9
  <1>12. Rows'
    BY <1>11 DEF Rows
  <1>13. Life!OwnershipOf(r)'
    <2>1. \A i \in 1..n : runs'[r][i].status # "running"
      BY <1>2, <1>3, <1>10, <1>11, CurrentIsNewest
    <2> QED
      BY <1>2, <1>11, <2>1 DEF Life!OwnershipOf, Life!Running, Life!Latest
  <1>14. OwnershipKept'
    BY <1>11, <1>13, OthersOwned
  <1> QED
    BY <1>2, <1>3, <1>10, <1>11, <1>12, <1>14 DEF Frees, Bound

\* AssignReview and CreateReviewRun.
LEMMA StartEffect ==
    ASSUME Rows, OwnershipKept, NEW r \in Reviews, NEW w \in Workers \cup {Local},
           row[r].status = "pending",
           row' = [row EXCEPT ![r] = Life!Assigned(r, w)],
           runs' = [runs EXCEPT ![r] = Append(@, Life!NewRun(r, w))],
           UNCHANGED <<mode, torn>>
    PROVE  Begins(r, w) /\ Bound(r, w)'
  <1> DEFINE n == Len(runs[r])
  <1>1. /\ row[r] \in Life!Row /\ row \in [Reviews -> Life!Row] /\ n \in Nat
        /\ runs \in [Reviews -> Seq(Life!Run)] /\ runs[r] \in Seq(Life!Run)
    BY RunFacts DEF Rows
  <1>2. PICK new \in Life!Row : new = Life!Assigned(r, w) /\ new.status = "reviewing" /\ new.worker = w
    <2>1. Life!Assigned(r, w) \in Life!Row
      BY <1>1 DEF Life!Assigned, Life!Row, Life!RowStatus, Life!Owners
    <2>2. Life!Assigned(r, w).status = "reviewing" /\ Life!Assigned(r, w).worker = w
      BY <1>1 DEF Life!Assigned, Life!Row
    <2> QED
      BY <2>1, <2>2
  <1>3. PICK run \in Life!Run : run = Life!NewRun(r, w) /\ run.status = "running" /\ run.worker = w
    <2>1. Life!NewRun(r, w) \in Life!Run
      BY <1>1 DEF Life!NewRun, Life!Run, Life!Row, Life!RunStatus, Life!Owners
    <2>2. Life!NewRun(r, w).status = "running" /\ Life!NewRun(r, w).worker = w
      BY DEF Life!NewRun
    <2> QED
      BY <2>1, <2>2
  <1>4. /\ Append(runs[r], run) \in Seq(Life!Run) /\ Len(Append(runs[r], run)) = n + 1
        /\ \A i \in 1..n : Append(runs[r], run)[i] = runs[r][i]
        /\ Append(runs[r], run)[n + 1] = run
    BY <1>1, RunAdded
  <1>5. row' = [row EXCEPT ![r] = new] /\ runs' = [runs EXCEPT ![r] = Append(runs[r], run)]
    BY <1>2, <1>3
  <1>6. /\ row' \in [Reviews -> Life!Row] /\ row'[r] = new
        /\ runs' \in [Reviews -> Seq(Life!Run)] /\ Len(runs'[r]) = n + 1
        /\ \A i \in 1..n : runs'[r][i] = runs[r][i]
        /\ runs'[r][n + 1] = run
        /\ \A q \in Reviews \ {r} : row'[q] = row[q] /\ runs'[q] = runs[q]
    BY <1>1, <1>4, <1>5
  <1>7. Rows'
    BY <1>6 DEF Rows
  <1>8. Life!OwnershipOf(r)'
    <2>1. \A i \in 1..n : runs'[r][i].status # "running"
      BY <1>6, CurrentIsNewest
    <2>2. 1..(n + 1) = 1..n \cup {n + 1}
      BY <1>1
    <2> HIDE DEF n
    <2>3. \A i \in 1..(n + 1) : runs'[r][i].status = "running" <=> i = n + 1
      BY <1>1, <1>3, <1>6, <2>1, <2>2
    <2>4. (Life!Running(r))' = {n + 1}
      BY <1>1, <1>6, <2>3 DEF Life!Running, Life!Latest
    <2> QED
      BY <1>1, <1>2, <1>3, <1>6, <2>4 DEF Life!OwnershipOf, Life!Latest
  <1>9. OwnershipKept'
    BY <1>6, <1>8, OthersOwned
  <1> QED
    BY <1>2, <1>3, <1>6, <1>7, <1>9 DEF Begins, Bound

LEMMA SameTables ==
    ASSUME Rows, OwnershipKept, UNCHANGED tables
    PROVE  Rows' /\ OwnershipKept'
  BY DEF tables, Rows, OwnershipKept, Life!OwnershipOf, Life!Running, Life!Latest

----------------------------------------------------------------------------
(* What most steps have in common: they touch one worker, w, move no claim *)
(* to a new place, and settle or give back at most one review.             *)

SameAt(v) ==
    /\ up'[v] = up[v] /\ down'[v] = down[v] /\ jobs'[v] = jobs[v]
    /\ conn'[v] = conn[v] /\ listed'[v] = listed[v]
    /\ todo'[v] = todo[v] /\ inFlight'[v] = inFlight[v]

SameReview(r) == row'[r] = row[r] /\ runs'[r] = runs[r]

SameOrFree == \A r \in Reviews : SameReview(r) \/ \A v \in Workers : ~Bound(r, v)'

\* Every run but those of the claims D stays as it is for who may yet report it.
Keeps(D) ==
    /\ \A w \in Workers \cup {Local} : \A c \in Claims \ D : Unpublished(w, c) => Unpublished(w, c)'
    /\ \A r \in Reviews : Len(runs[r]) \in Nat /\ Len(runs'[r]) \in Nat /\ Len(runs[r]) <= Len(runs'[r])

SameHolder(r, v) == Holds(r, v) => Holds(r, v)' /\ sched'.pc = sched.pc

LEMMA SameTablesKeep ==
    ASSUME Rows, UNCHANGED tables
    PROVE  Keeps({}) /\ SameOrFree
  <1>1. row' = row /\ runs' = runs
    BY DEF tables
  <1>2. \A r \in Reviews : Len(runs[r]) \in Nat
    BY RunFacts
  <1> QED
    BY <1>1, <1>2 DEF Keeps, SameOrFree, SameReview, Unpublished

LEMMA FreesKeep ==
    ASSUME Rows, NEW r \in Reviews, NEW k \in Nat, Frees(r, k)
    PROVE  Keeps({Claim(r, k)}) /\ SameOrFree
  <1>1. \A q \in Reviews : Len(runs[q]) \in Nat /\ Len(runs'[q]) = Len(runs[q])
    BY RunFacts DEF Frees
  <1>2. ASSUME NEW w \in Workers \cup {Local}, NEW c \in Claims \ {Claim(r, k)}, Unpublished(w, c)
        PROVE  Unpublished(w, c)'
    <2>1. c.review \in Reviews /\ c.run \in Nat \ {0} /\ (c.review = r => c.run # k)
      BY <1>2, ClaimFacts DEF Claim
    <2>2. c.run \in 1..Len(runs[c.review])
      BY <1>1, <1>2, <2>1 DEF Unpublished
    <2>3. CASE c.review = r
      BY <1>1, <1>2, <2>1, <2>2, <2>3 DEF Unpublished, Frees
    <2>4. CASE c.review # r
      BY <1>2, <2>1, <2>4 DEF Unpublished, Frees
    <2> QED
      BY <2>3, <2>4
  <1>3. SameOrFree
    BY DEF SameOrFree, SameReview, Frees
  <1> QED
    BY <1>1, <1>2, <1>3 DEF Keeps

LEMMA BeginsKeep ==
    ASSUME Rows, NEW r \in Reviews, NEW w \in Workers \cup {Local}, Begins(r, w)
    PROVE  Keeps({}) /\ \E c \in Claims : c = Claim(r, Len(runs[r]) + 1) /\ Unpublished(w, c)'
  <1>1. \A q \in Reviews : Len(runs[q]) \in Nat
    BY RunFacts
  <1>2. Claim(r, Len(runs[r]) + 1) \in Claims
    BY <1>1, ClaimFacts
  <1>3. \E c \in Claims : c = Claim(r, Len(runs[r]) + 1) /\ Unpublished(w, c)'
    <2>1. PICK c \in Claims : c = Claim(r, Len(runs[r]) + 1)
      BY <1>2
    <2>2. c.review = r /\ c.run = Len(runs[r]) + 1
      BY <1>1, <2>1, ClaimFacts
    <2>3. Unpublished(w, c)'
      BY <1>1, <2>2 DEF Begins, Unpublished
    <2> QED
      BY <2>1, <2>3
  <1>4. ASSUME NEW v \in Workers \cup {Local}, NEW c \in Claims, Unpublished(v, c)
        PROVE  Unpublished(v, c)'
    <2>1. c.review \in Reviews /\ c.run \in Nat \ {0}
      BY ClaimFacts
    <2>2. c.run \in 1..Len(runs[c.review])
      BY <1>1, <1>4, <2>1 DEF Unpublished
    <2>3. CASE c.review = r
      BY <1>1, <1>4, <2>1, <2>2, <2>3 DEF Unpublished, Begins
    <2>4. CASE c.review # r
      BY <1>4, <2>1, <2>4 DEF Unpublished, Begins
    <2> QED
      BY <2>3, <2>4
  <1>5. \A q \in Reviews : Len(runs'[q]) \in Nat /\ Len(runs[q]) <= Len(runs'[q])
    BY <1>1 DEF Begins
  <1> QED
    BY <1>1, <1>2, <1>3, <1>4, <1>5 DEF Keeps

LEMMA UntouchedOut ==
    ASSUME NEW v \in Workers, SameAt(v)
    PROVE  /\ Out(v)' = Out(v)
           /\ \A c \in Claims : /\ Sent(v, c)' = Sent(v, c) /\ Runs(v, c)' = Runs(v, c)
                                /\ Tells(v, c)' = Tells(v, c) /\ Redelivered(v, c)' = Redelivered(v, c)
  BY DEF SameAt, Out, Sent, Runs, Tells, Redelivered, Executing

LEMMA UntouchedPlaces ==
    ASSUME NEW v \in Workers, SameAt(v), Places(v), Held' \subseteq Held
    PROVE  Places(v)'
  <1>1. Distinct(down[v], Claims)' /\ Distinct(up[v], Dones)'
    BY DEF SameAt, Places, Distinct
  <1> QED
    BY <1>1, UntouchedOut DEF Places

LEMMA Untouched ==
    ASSUME NEW v \in Workers, NEW r \in Reviews, SameAt(v), SameReview(r), SameHolder(r, v),
           Counted(r, v), Covered(r, v)
    PROVE  Counted(r, v)' /\ Covered(r, v)'
  <1>1. Bound(r, v)' = Bound(r, v) /\ Unspoilt(r, v)' = Unspoilt(r, v)
    BY DEF SameReview, Bound, Unspoilt, RunsOf
  <1>2. Missing(r, v)' = Missing(r, v) /\ HelloOnItsWay(v)' = HelloOnItsWay(v)
    BY DEF SameAt, Missing, HelloOnItsWay, Reviewed
  <1>3. Counted(r, v)'
    BY <1>1, <1>2 DEF Counted, SameAt, SameHolder
  <1>4. ASSUME Bound(r, v), Unspoilt(r, v) PROVE Covered(r, v)'
    <2> DEFINE c == Claim(r, Len(runs[r]))
    <2>1. c' = c
      BY DEF SameReview
    <2>2. Sent(v, c)' = Sent(v, c) /\ Runs(v, c)' = Runs(v, c) /\ Tells(v, c)' = Tells(v, c)
      BY <2>1 DEF SameAt, Sent, Runs, Tells, Executing
    <2> QED
      BY <1>2, <1>4, <2>2 DEF Covered, SameAt, SameHolder
  <1>5. Covered(r, v)'
    BY <1>1, <1>4 DEF Covered
  <1> QED
    BY <1>3, <1>5

LEMMA Unbound ==
    ASSUME NEW v \in Workers, NEW r \in Reviews, ~Bound(r, v)'
    PROVE  Counted(r, v)' /\ Covered(r, v)'
  BY DEF Counted, Covered

\* W: the workers a step touches; D: the run it may publish.
LEMMA StepKeeps ==
    ASSUME IInv, Shape', Rows', OwnershipKept', HoldsNewest',
           NEW W \in SUBSET Workers, NEW D, Keeps(D), SameOrFree,
           \A v \in Workers \ W : SameAt(v),
           \A c \in Held' : c \in Held /\ c \notin D /\ sched'.worker = sched.worker,
           \A c \in locals' : (c \in locals /\ SameReview(c.review)) \/ InProgress(c)',
           \A v \in Workers \ W : Out(v) \cap D = {},
           \A r \in Reviews, v \in Workers \ W : SameHolder(r, v),
           \A w \in W : /\ Places(w)'
                        /\ \A c \in Out(w)' : c \notin D /\ Unpublished(w, c)
                        /\ \A j \in jobs'[w] : j.run <= Len(runs[j.review])
                        /\ \A r \in Reviews : Counted(r, w)' /\ Covered(r, w)'
    PROVE  IInv'
  <1>1. \A v \in Workers : Places(v)'
    BY UntouchedPlaces DEF IInv
  <1>2. Home'
    <2>1. \A c \in Held' : Unpublished(sched'.worker, c)
      BY DEF IInv, Home
    <2>2. ASSUME NEW c \in Held' PROVE (c \in Claims /\ sched.worker \in Workers)'
      BY <2>2, ClaimFacts DEF Held, Shape, SchedShape, Holding, Idle, Claims
    <2>3. (\A c \in Held : Unpublished(sched.worker, c))'
      <3> SUFFICES ASSUME NEW c \in Held' PROVE Unpublished(sched.worker, c)'
        OBVIOUS
      <3>1. PICK v \in Workers : v = sched'.worker /\ Unpublished(v, c) /\ c \in Claims \ D
        BY <2>1, <2>2
      <3>2. Unpublished(v, c)'
        BY <3>1 DEF Keeps
      <3> QED
        BY <3>1, <3>2 DEF Unpublished
    <2>4. (\A c \in locals : InProgress(c))'
      BY DEF IInv, Home, InProgress, SameReview, Bound
    <2>5. ASSUME NEW v \in Workers, NEW c \in Out(v)' PROVE Unpublished(v, c)'
      <3>1. c \in Claims
        BY DEF Out
      <3>2. c \notin D /\ Unpublished(v, c)
        <4>1. CASE v \in W
          BY <4>1
        <4>2. CASE v \notin W
          BY <4>2, UntouchedOut DEF IInv, Home
        <4> QED
          BY <4>1, <4>2
      <3> QED
        BY <3>1, <3>2 DEF Keeps
    <2>6. ASSUME NEW v \in Workers, NEW j \in jobs'[v] PROVE j.run <= Len(runs'[j.review])
      <3>1. j \in Jobs /\ j.review \in Reviews /\ j.run \in Nat
        BY DEF Shape, Jobs
      <3>2. j.run <= Len(runs[j.review])
        BY DEF SameAt, IInv, Home
      <3> QED
        BY <3>1, <3>2 DEF Keeps
    <2> QED
      BY <2>3, <2>4, <2>5, <2>6 DEF Home
  <1>3. ASSUME NEW r \in Reviews, NEW v \in Workers PROVE Counted(r, v)' /\ Covered(r, v)'
    <2>1. CASE v \in W
      BY <2>1
    <2>2. CASE v \notin W
      BY <2>2, Untouched, Unbound DEF IInv, SameOrFree
    <2> QED
      BY <2>1, <2>2
  <1> QED
    BY <1>1, <1>2, <1>3 DEF IInv

\* Only the scheduler changes what it holds, and nothing but a start adds a run.
LEMMA NewestKept ==
    ASSUME IInv, SameOrFree, sched' = sched
    PROVE  HoldsNewest' /\ Held' = Held
  <1>1. Held' = Held
    BY DEF Held
  <1>2. ASSUME sched.pc \in Holding, NEW w \in Workers, Bound(sched.review, w)'
        PROVE  w = sched.worker /\ sched.run = Len(runs'[sched.review])
    <2>1. sched.review \in Reviews
      BY <1>2 DEF IInv, Shape, SchedShape, Holding, Idle
    <2>2. SameReview(sched.review)
      BY <1>2, <2>1 DEF SameOrFree, Bound
    <2> QED
      BY <1>2, <2>2 DEF IInv, HoldsNewest, SameReview, Bound
  <1>3. HoldsNewest'
    BY <1>2 DEF HoldsNewest
  <1> QED
    BY <1>1, <1>3

\* Claims may be lost, but none is made.
Loses == UNCHANGED tables /\ locals' = locals /\ Pending' \subseteq Pending

LEMMA NoneMade ==
    ASSUME UNCHANGED tables, locals' = locals, Held' \subseteq Pending,
           \A v \in Workers : Out(v)' \subseteq Pending
    PROVE  Loses
  BY DEF Loses, Pending

LEMMA AlreadyPending ==
    Held \subseteq Pending /\ \A v \in Workers : Out(v) \subseteq Pending
  BY DEF Pending

LEMMA PendingKept ==
    ASSUME UNCHANGED <<up, down, jobs>>
    PROVE  /\ \A w \in Workers : Out(w)' = Out(w)
           /\ Held' = Held /\ locals' = locals => Pending' = Pending
           /\ Held' \subseteq Held /\ locals' = locals /\ UNCHANGED tables => Loses
  <1>1. \A w \in Workers : Out(w)' = Out(w)
    BY DEF Out, Sent, Runs, Tells, Executing
  <1> QED
    BY <1>1, NoneMade, AlreadyPending DEF Pending

\* A step of w's, or of its connection, that leaves the tables and the scheduler alone.
LEMMA WorkerMoves ==
    ASSUME IInv, Shape', UNCHANGED <<tables, sched, locals>>,
           NEW w \in Workers, \A v \in Workers \ {w} : SameAt(v),
           Places(w)', Out(w)' \subseteq Out(w),
           \A j \in jobs'[w] : j.run <= Len(runs[j.review]),
           \A r \in Reviews : Counted(r, w)' /\ Covered(r, w)'
    PROVE  IInv' /\ Loses
  <1>1. Rows' /\ OwnershipKept' /\ Keeps({}) /\ SameOrFree
    BY SameTables, SameTablesKeep DEF IInv
  <1>2. HoldsNewest' /\ Held' = Held
    BY <1>1, NewestKept
  <1>3. \A r \in Reviews, v \in Workers : SameHolder(r, v)
    BY DEF SameHolder, Holds
  <1>4. \A c \in locals' : c \in locals /\ SameReview(c.review)
    BY DEF SameReview, tables
  <1>5. \A c \in Out(w)' : Unpublished(w, c)
    BY DEF IInv, Home
  <1>6. {w} \in SUBSET Workers /\ sched' = sched
    OBVIOUS
  <1>7. IInv'
    BY <1>1, <1>2, <1>3, <1>4, <1>5, <1>6, StepKeeps
  <1>8. \A v \in Workers : Out(v)' \subseteq Out(v)
    BY UntouchedOut
  <1>9. Loses
    BY <1>2, <1>8, NoneMade, AlreadyPending
  <1> QED
    BY <1>7, <1>9

\* What such a step leaves as it is.
LEMMA TablesKept ==
    ASSUME UNCHANGED <<tables, sched>>, NEW r \in Reviews, NEW w \in Workers
    PROVE  /\ Bound(r, w)' = Bound(r, w) /\ Unspoilt(r, w)' = Unspoilt(r, w)
           /\ Holds(r, w)' = Holds(r, w) /\ Held' = Held
           /\ Len(runs[r])' = Len(runs[r])
  BY DEF tables, Bound, Unspoilt, Holds, RunsOf, Held

----------------------------------------------------------------------------
(* Steps of the workers, and of their connections. *)

LEMMA ClosedIsCovered ==
    ASSUME NEW w \in Workers, conn'[w] = "closed"
    PROVE  \A r \in Reviews : Counted(r, w)' /\ Covered(r, w)'
  BY DEF Counted, Covered

LEMMA HelloIsSeen ==
    ASSUME NEW w \in Workers, NEW f \in Hellos, f \in Elements(up[w])
    PROVE  HelloOnItsWay(w)
  BY DEF HelloOnItsWay

LEMMA ShapeAt ==
    ASSUME Shape, NEW w \in Workers
    PROVE  /\ up \in [Workers -> Seq(Frames)] /\ down \in [Workers -> Seq(Claims)]
           /\ conn \in [Workers -> {"closed", "open", "listed", "ready"}]
           /\ listed \in [Workers -> SUBSET Reviews] /\ jobs \in [Workers -> SUBSET Jobs]
           /\ todo \in [Workers -> SUBSET Reviews] /\ inFlight \in [Workers -> SUBSET Reviews]
           /\ up[w] \in Seq(Frames) /\ down[w] \in Seq(Claims) /\ jobs[w] \in SUBSET Jobs
           /\ listed[w] \in SUBSET Reviews /\ todo[w] \in SUBSET Reviews
           /\ inFlight[w] \in SUBSET Reviews
  BY DEF Shape

LEMMA ElsewhereKept ==
    ASSUME IInv, UNCHANGED <<tables, sched, inFlight, todo, channel, worker, locals>>
    PROVE  IInv' /\ Loses
  <1>1. Rows' /\ OwnershipKept' /\ Keeps({}) /\ SameOrFree
    BY SameTables, SameTablesKeep DEF IInv
  <1>2. HoldsNewest' /\ Held' = Held
    BY <1>1, NewestKept
  <1>3. Shape'
    BY DEF IInv, Shape, SchedShape, channel, worker
  <1>4. /\ \A v \in Workers : SameAt(v)
        /\ \A c \in locals' : c \in locals /\ SameReview(c.review)
        /\ \A r \in Reviews, v \in Workers : SameHolder(r, v)
    BY DEF SameAt, SameReview, SameHolder, Holds, tables, channel, worker
  <1>5. {} \in SUBSET Workers /\ sched' = sched
    OBVIOUS
  <1>6. IInv'
    BY <1>1, <1>2, <1>3, <1>4, <1>5, StepKeeps
  <1>7. Loses
    BY <1>2, <1>4, UntouchedOut, NoneMade, AlreadyPending
  <1> QED
    BY <1>6, <1>7

\* A job listed at w is of a run that can be found, and is the newest where no run failed.
LEMMA RunningIsNewest ==
    ASSUME IInv, NEW w \in Workers, NEW r \in Reviews, Bound(r, w), Unspoilt(r, w),
           NEW j \in jobs[w], j.review = r, j.phase = "running"
    PROVE  Runs(w, Claim(r, Len(runs[r])))
  <1>1. j \in Jobs /\ j = [review |-> r, run |-> j.run, phase |-> "running"] /\ j.run \in Nat \ {0}
    BY ShapeAt DEF IInv, Jobs
  <1>2. PICK c \in Claims : c = Claim(r, j.run)
    BY <1>1, ClaimFacts
  <1>3. c.review = r /\ c.run = j.run
    BY <1>1, <1>2, ClaimFacts
  <1>4. Runs(w, c)
    BY <1>1, <1>3 DEF Runs, Executing
  <1>5. Unpublished(w, c)
    BY <1>4 DEF Out, IInv, Home
  <1>6. Len(runs[r]) \in Nat
    BY RunFacts DEF IInv
  <1>7. j.run = Len(runs[r])
    BY <1>1, <1>3, <1>5, <1>6 DEF Unpublished, Unspoilt, RunsOf
  <1> QED
    BY <1>2, <1>4, <1>7

LEMMA ConnectKeeps ==
    ASSUME IInv, NEW w \in Workers, Connect(w)
    PROVE  IInv' /\ Loses
  <1>1. /\ Shape /\ up \in [Workers -> Seq(Frames)]
        /\ conn \in [Workers -> {"closed", "open", "listed", "ready"}]
    BY DEF IInv, Shape
  <1>2. /\ up' \in [Workers -> Seq(Frames)] /\ up'[w] = <<>>
        /\ conn' \in [Workers -> {"closed", "open", "listed", "ready"}] /\ conn'[w] = "open"
        /\ \A v \in Workers \ {w} : SameAt(v)
    BY <1>1 DEF Connect, SameAt
  <1>3. /\ UNCHANGED <<tables, sched, locals>> /\ jobs' = jobs /\ down' = down /\ todo' = todo
        /\ inFlight' = inFlight /\ listed' = listed
    BY DEF Connect, pool
  <1>4. Shape'
    BY <1>1, <1>2, <1>3 DEF Shape, SchedShape
  <1>5. /\ \A c \in Claims : /\ Sent(w, c)' = Sent(w, c) /\ Runs(w, c)' = Runs(w, c)
                             /\ ~Tells(w, c)' /\ Redelivered(w, c)' = Redelivered(w, c)
        /\ Held' = Held /\ Reviewed(w)' = Reviewed(w)
    BY <1>2, <1>3, NothingSent DEF Sent, Runs, Executing, Tells, Redelivered, Held, Reviewed
  <1>6. Distinct(down[w], Claims)' /\ Distinct(up[w], Dones)'
    BY <1>2, <1>3, NothingSent DEF IInv, Places
  <1>7. Places(w)' /\ Out(w)' \subseteq Out(w)
    BY <1>5, <1>6 DEF IInv, Places, Out
  <1>8. \A j \in jobs'[w] : j.run <= Len(runs[j.review])
    BY <1>3 DEF IInv, Home
  <1>9. ASSUME NEW r \in Reviews PROVE Counted(r, w)' /\ Covered(r, w)'
    <2>1. Counted(r, w)'
      BY <1>2 DEF Counted
    <2>2. ASSUME Bound(r, w), Unspoilt(r, w), ~Missing(r, w)' PROVE Runs(w, Claim(r, Len(runs[r])))
      <3>1. r \in Reviewed(w)
        BY <1>2, <1>5, <2>2 DEF Missing
      <3>2. PICK j \in jobs[w] : j.review = r
        BY <3>1 DEF Reviewed
      <3>3. j.phase = "running"
        BY DEF Connect
      <3> QED
        BY <2>2, <3>2, <3>3, RunningIsNewest
    <2> QED
      BY <1>3, <1>5, <2>1, <2>2, TablesKept DEF Covered, Runs, Executing, Claim
  <1> QED
    BY <1>2, <1>3, <1>4, <1>7, <1>8, <1>9, WorkerMoves

LEMMA ListJobsKeeps ==
    ASSUME IInv, NEW w \in Workers, ListJobs(w)
    PROVE  IInv' /\ Loses
  <1>1. /\ Shape /\ listed \in [Workers -> SUBSET Reviews] /\ jobs[w] \in SUBSET Jobs
        /\ conn \in [Workers -> {"closed", "open", "listed", "ready"}]
    BY ShapeAt DEF IInv
  <1>2. Reviewed(w) \in SUBSET Reviews
    BY <1>1 DEF Reviewed, Jobs
  <1>3. /\ listed' \in [Workers -> SUBSET Reviews] /\ listed'[w] = Reviewed(w)
        /\ conn' \in [Workers -> {"closed", "open", "listed", "ready"}] /\ conn'[w] = "listed"
        /\ \A v \in Workers \ {w} : SameAt(v)
    BY <1>1, <1>2 DEF ListJobs, SameAt, hub, channel
  <1>4. /\ UNCHANGED <<tables, sched, locals>> /\ jobs' = jobs /\ down' = down /\ up' = up
        /\ todo' = todo /\ inFlight' = inFlight
    BY DEF ListJobs, pool, hub, channel
  <1>5. Shape'
    BY <1>1, <1>3, <1>4 DEF Shape, SchedShape
  <1>6. /\ \A c \in Claims : /\ Sent(w, c)' = Sent(w, c) /\ Runs(w, c)' = Runs(w, c)
                             /\ Tells(w, c)' = Tells(w, c) /\ Redelivered(w, c)' = Redelivered(w, c)
        /\ Held' = Held
    BY <1>4 DEF Sent, Runs, Executing, Tells, Redelivered, Held
  <1>7. Distinct(down[w], Claims)' /\ Distinct(up[w], Dones)'
    BY <1>4 DEF IInv, Places, Distinct
  <1>8. Places(w)' /\ Out(w)' \subseteq Out(w)
    BY <1>6, <1>7 DEF IInv, Places, Out
  <1>9. \A j \in jobs'[w] : j.run <= Len(runs[j.review])
    BY <1>4 DEF IInv, Home
  <1>10. ASSUME NEW r \in Reviews PROVE Counted(r, w)' /\ Covered(r, w)'
    <2>1. Counted(r, w)'
      BY <1>3 DEF Counted
    <2>2. Missing(r, w) => Missing(r, w)'
      BY <1>3, <1>4 DEF Missing, ListJobs
    <2>3. conn[w] # "closed" /\ Covered(r, w)
      BY DEF ListJobs, IInv
    <2> QED
      BY <1>4, <2>1, <2>2, <2>3, TablesKept DEF Covered, Sent, Runs, Tells, Executing, Claim
  <1> QED
    BY <1>3, <1>4, <1>5, <1>8, <1>9, <1>10, WorkerMoves

LEMMA SendHelloKeeps ==
    ASSUME IInv, NEW w \in Workers, SendHello(w)
    PROVE  IInv' /\ Loses
  <1> DEFINE f == [type |-> "hello", list |-> listed[w]]
  <1>1. /\ Shape /\ listed \in [Workers -> SUBSET Reviews] /\ listed[w] \in SUBSET Reviews
        /\ conn \in [Workers -> {"closed", "open", "listed", "ready"}]
    BY ShapeAt DEF IInv
  <1>2. f \in Hellos /\ f \in Frames /\ f \notin Dones /\ f.list = listed[w]
    BY <1>1, Kinds DEF Frames
  <1>3. conn[w] = "listed" /\ Reply(w, f)
    BY DEF SendHello
  <1> HIDE DEF f
  <1>4. /\ up' \in [Workers -> Seq(Frames)] /\ \A v \in Workers : v # w => up'[v] = up[v]
        /\ Elements(up'[w]) = Elements(up[w]) \cup {f} /\ Distinct(up'[w], Dones)
    BY <1>1, <1>2, <1>3, ReplyEffect DEF IInv, Places
  <1>5. /\ listed' \in [Workers -> SUBSET Reviews]
        /\ conn' \in [Workers -> {"closed", "open", "listed", "ready"}] /\ conn'[w] = "ready"
        /\ \A v \in Workers \ {w} : SameAt(v)
    BY <1>1, <1>4 DEF SendHello, SameAt, hub
  <1>6. /\ UNCHANGED <<tables, sched, locals>> /\ jobs' = jobs /\ down' = down
        /\ todo' = todo /\ inFlight' = inFlight
    BY DEF SendHello, pool, hub
  <1>7. Shape'
    BY <1>1, <1>4, <1>5, <1>6 DEF Shape, SchedShape
  <1>8. /\ \A c \in Claims : /\ Sent(w, c)' = Sent(w, c) /\ Runs(w, c)' = Runs(w, c)
                             /\ Tells(w, c)' = Tells(w, c) /\ Redelivered(w, c)' = Redelivered(w, c)
        /\ Held' = Held
    BY <1>2, <1>4, <1>6, Kinds DEF Sent, Runs, Executing, Tells, Redelivered, Held
  <1>9. Distinct(down[w], Claims)' /\ Distinct(up[w], Dones)'
    BY <1>4, <1>6 DEF IInv, Places, Distinct
  <1>10. Places(w)' /\ Out(w)' \subseteq Out(w)
    BY <1>8, <1>9 DEF IInv, Places, Out
  <1>11. \A j \in jobs'[w] : j.run <= Len(runs[j.review])
    BY <1>6 DEF IInv, Home
  <1>12. ASSUME NEW r \in Reviews PROVE Counted(r, w)' /\ Covered(r, w)'
    <2>1. Counted(r, w)'
      BY <1>2, <1>4 DEF Counted, HelloOnItsWay
    <2>2. Missing(r, w) => Missing(r, w)'
      BY <1>2, <1>3, <1>4 DEF Missing
    <2>3. conn[w] # "closed" /\ Covered(r, w)
      BY <1>3 DEF IInv
    <2> QED
      BY <1>4, <1>6, <2>1, <2>2, <2>3, TablesKept DEF Covered, Sent, Runs, Tells, Executing, Claim
  <1> QED
    BY <1>5, <1>6, <1>7, <1>10, <1>11, <1>12, WorkerMoves

\* The worker takes the claim at the head of the queue, refuses it, or knows it already.
LEMMA TakeClaimKeeps ==
    ASSUME IInv, NEW w \in Workers, TakeClaim(w)
    PROVE  IInv' /\ Loses
  <1> DEFINE c == Head(down[w])
             b == [type |-> "busy", review |-> c.review]
             j == [review |-> c.review, run |-> c.run, phase |-> "running"]
  <1>1. /\ Shape /\ down \in [Workers -> Seq(Claims)] /\ down[w] \in Seq(Claims)
        /\ up \in [Workers -> Seq(Frames)] /\ jobs \in [Workers -> SUBSET Jobs]
        /\ Places(w) /\ down[w] # <<>> /\ conn[w] = "ready"
    BY ShapeAt DEF IInv, TakeClaim
  <1>2. /\ c \in Claims /\ Tail(down[w]) \in Seq(Claims)
        /\ Elements(down[w]) = Elements(Tail(down[w])) \cup {c}
        /\ Distinct(Tail(down[w]), Claims) /\ c \notin Elements(Tail(down[w]))
    BY <1>1, Tailed DEF Places
  <1>3. down' = [down EXCEPT ![w] = Tail(down[w])]
    BY DEF TakeClaim
  <1>4. /\ down' \in [Workers -> Seq(Claims)] /\ down'[w] = Tail(down[w])
        /\ \A v \in Workers \ {w} : down'[v] = down[v]
    BY <1>1, <1>2, <1>3
  <1>5. Sent(w, c) /\ ~Redelivered(w, c) /\ ~Tells(w, c) /\ c \notin Held
    BY <1>1, <1>2 DEF Places, Sent
  <1>6. /\ UNCHANGED <<tables, sched, locals>> /\ conn' = conn /\ listed' = listed
        /\ todo' = todo /\ inFlight' = inFlight
    BY DEF TakeClaim, pool, hub
  <1>7. c.review \in Reviews /\ c.run \in Nat \ {0} /\ b \in Busies /\ b \in Frames /\ b \notin Dones
    BY <1>2, ClaimFacts, Kinds DEF Frames
  <1>8. \/ Reply(w, b) /\ jobs' = jobs
        \/ jobs' = [jobs EXCEPT ![w] = jobs[w] \cup {j}] /\ up' = up
    BY <1>5 DEF TakeClaim
  <1> HIDE DEF b, c
  <1>9. /\ up' \in [Workers -> Seq(Frames)] /\ \A v \in Workers \ {w} : up'[v] = up[v]
        /\ Elements(up[w]) \subseteq Elements(up'[w]) /\ Elements(up'[w]) \subseteq Elements(up[w]) \cup {b}
        /\ Distinct(up'[w], Dones)
    BY <1>1, <1>7, <1>8, ReplyEffect DEF Places
  <1>10. /\ jobs' \in [Workers -> SUBSET Jobs] /\ \A v \in Workers \ {w} : jobs'[v] = jobs[v]
         /\ jobs[w] \subseteq jobs'[w] /\ jobs'[w] \subseteq jobs[w] \cup {j}
         /\ j \in Jobs
    <2>1. j \in Jobs
      BY <1>7 DEF Jobs
    <2> HIDE DEF j
    <2> QED
      BY <1>1, <1>8, <2>1
  <1>11. b \in Elements(up'[w]) \/ j \in jobs'[w]
    <2>1. CASE Reply(w, b)
      <3>1. Shape /\ b \in Frames /\ conn[w] # "closed"
        BY <1>1, <1>7
      <3>2. Elements(up'[w]) = Elements(up[w]) \cup {b}
        BY <2>1, <3>1, ReplyEffect
      <3> QED
        BY <3>2
    <2>2. CASE jobs' = [jobs EXCEPT ![w] = jobs[w] \cup {j}]
      BY <1>1, <2>2
    <2> QED
      BY <1>8, <2>1, <2>2
  <1>12. \A v \in Workers \ {w} : SameAt(v)
    BY <1>4, <1>6, <1>9, <1>10 DEF SameAt
  <1>13. Shape'
    BY <1>1, <1>4, <1>6, <1>9, <1>10 DEF Shape, SchedShape
  <1>14. Held' = Held /\ \A d \in Claims :
            /\ Sent(w, d)' => Sent(w, d) /\ d # c
            /\ Runs(w, d)' => Runs(w, d) \/ d = c
            /\ Redelivered(w, d)' => Redelivered(w, d) \/ d = c
            /\ Tells(w, d)' = Tells(w, d)
    <2>1. Held' = Held
      BY <1>6 DEF Held
    <2>2. ASSUME NEW d \in Claims PROVE /\ Sent(w, d)' => Sent(w, d) /\ d # c
                                        /\ Tells(w, d)' = Tells(w, d)
      BY <1>2, <1>4, <1>7, <1>9, Kinds DEF Sent, Tells
    <2>3. ASSUME NEW d \in Claims PROVE /\ Runs(w, d)' => Runs(w, d) \/ d = c
                                        /\ Redelivered(w, d)' => Redelivered(w, d) \/ d = c
      BY <1>2, <1>10, ClaimFacts DEF Runs, Executing, Redelivered
    <2> QED
      BY <2>1, <2>2, <2>3
  <1>15. Places(w)' /\ Out(w)' \subseteq Out(w)
    <2>1. Distinct(down[w], Claims)' /\ Distinct(up[w], Dones)'
      BY <1>2, <1>4, <1>9 DEF Distinct
    <2> QED
      BY <1>1, <1>2, <1>5, <1>14, <2>1 DEF Places, Out
  <1>16. \A i \in jobs'[w] : i.run <= Len(runs[i.review])
    <2>1. Unpublished(w, c)
      BY <1>2, <1>5 DEF IInv, Home, Out
    <2> QED
      BY <1>10, <2>1 DEF IInv, Home, Unpublished
  <1>17. ASSUME NEW r \in Reviews PROVE Counted(r, w)' /\ Covered(r, w)'
    <2>1. Counted(r, w)'
      BY <1>1, <1>6, <1>9, TablesKept DEF Counted, IInv, HelloOnItsWay
    <2>2. Missing(r, w) => Missing(r, w)'
      BY <1>1, <1>6, <1>9 DEF Missing
    <2>3. ASSUME NEW d \in Claims, d.review = r
          PROVE  /\ Runs(w, d) => Runs(w, d)' 
                 /\ Tells(w, d) => Tells(w, d)'
                 /\ Sent(w, d) => \/ Sent(w, d)' \/ Runs(w, d)'
                                  \/ [type |-> "busy", review |-> r] \in Elements(up'[w])
      BY <1>2, <1>4, <1>9, <1>10, <1>11, <2>3 DEF Runs, Tells, Sent, Executing, b
    <2>4. Bound(r, w) => \E d \in Claims : d = Claim(r, Len(runs[r])) /\ d.review = r
      BY CurrentIsNewest, ClaimFacts DEF IInv, Bound
    <2>5. ASSUME Bound(r, w), Unspoilt(r, w) PROVE Covered(r, w)'
      <3>1. PICK d \in Claims : d = Claim(r, Len(runs[r])) /\ d.review = r
        BY <2>4, <2>5
      <3>2. (d = Claim(r, Len(runs[r])))'
        BY <1>6, <3>1, TablesKept DEF tables
      <3>3. \/ Holds(r, w) \/ r \in todo[w] \/ Missing(r, w) \/ Sent(w, d) \/ Runs(w, d) \/ Tells(w, d)
            \/ [type |-> "busy", review |-> r] \in Elements(up[w])
        BY <1>1, <2>5, <3>1 DEF IInv, Covered
      <3>4. \/ Holds(r, w)' \/ r \in todo'[w] \/ Missing(r, w)' \/ Sent(w, d)' \/ Runs(w, d)' \/ Tells(w, d)'
            \/ [type |-> "busy", review |-> r] \in Elements(up'[w])
        BY <1>6, <1>9, <2>2, <2>3, <3>1, <3>3, TablesKept
      <3> QED
        BY <3>2, <3>4 DEF Covered
    <2> QED
      BY <1>6, <2>1, <2>5, TablesKept DEF Covered
  <1> QED
    BY <1>6, <1>12, <1>13, <1>15, <1>16, <1>17, WorkerMoves

LEMMA FinishJobKeeps ==
    ASSUME IInv, NEW w \in Workers, NEW j \in jobs[w], FinishJob(w, j)
    PROVE  IInv' /\ Loses
  <1>1. /\ Shape /\ up \in [Workers -> Seq(Frames)] /\ jobs \in [Workers -> SUBSET Jobs]
        /\ Places(w) /\ j \in Jobs /\ jobs[w] \subseteq Jobs
        /\ conn[w] \in {"closed", "open", "listed", "ready"}
    BY ShapeAt DEF IInv
  <1>2. PICK c \in Claims : c = Claim(j.review, j.run)
    BY <1>1, ClaimFacts DEF Jobs
  <1>3. /\ c.review = j.review /\ c.run = j.run /\ c.review \in Reviews /\ c.run \in Nat \ {0}
        /\ j = [review |-> c.review, run |-> c.run, phase |-> "running"]
    BY <1>1, <1>2, ClaimFacts DEF Jobs, FinishJob
  <1>4. PICK i \in Jobs : i = [review |-> c.review, run |-> c.run, phase |-> "reported"]
    BY <1>3 DEF Jobs
  <1>5. jobs' = [jobs EXCEPT ![w] = (jobs[w] \ {j}) \cup {i}]
    <2>1. [j EXCEPT !.phase = "reported"] = i
      BY <1>1, <1>3, <1>4 DEF Jobs
    <2> QED
      BY <2>1 DEF FinishJob
  <1>6. PICK f \in Frames : f = Done(c) /\ f \in Dones
    BY Kinds DEF Frames
  <1>7. Reply(w, f)
    BY <1>3, <1>6 DEF FinishJob, Done
  <1>8. Runs(w, c) /\ Redelivered(w, c) /\ ~Sent(w, c) /\ ~Tells(w, c) /\ c \notin Held
    BY <1>1, <1>3 DEF Runs, Executing, Redelivered, Places
  <1>9. /\ up' \in [Workers -> Seq(Frames)] /\ \A v \in Workers : v # w => up'[v] = up[v]
        /\ Elements(up[w]) \subseteq Elements(up'[w]) /\ Elements(up'[w]) \subseteq Elements(up[w]) \cup {f}
        /\ conn[w] = "closed" \/ f \in Elements(up'[w])
        /\ Distinct(up'[w], Dones)
    BY <1>1, <1>6, <1>7, <1>8, ReplyEffect DEF Places, Tells
  <1>10. /\ jobs' \in [Workers -> SUBSET Jobs] /\ \A v \in Workers : v # w => jobs'[v] = jobs[v]
         /\ jobs'[w] = (jobs[w] \ {j}) \cup {i}
    BY <1>1, <1>4, <1>5
  <1>11. /\ UNCHANGED <<tables, sched, locals>> /\ conn' = conn /\ listed' = listed /\ down' = down
         /\ todo' = todo /\ inFlight' = inFlight
    BY DEF FinishJob, pool, hub
  <1>12. \A v \in Workers \ {w} : SameAt(v)
    BY <1>9, <1>10, <1>11 DEF SameAt
  <1>13. Shape'
    BY <1>1, <1>9, <1>10, <1>11 DEF Shape, SchedShape
  <1>14. Held' = Held /\ \A d \in Claims :
            /\ Sent(w, d)' = Sent(w, d)
            /\ Runs(w, d)' <=> Runs(w, d) /\ d # c
            /\ Redelivered(w, d)' => Redelivered(w, d)
            /\ Tells(w, d)' => Tells(w, d) \/ d = c
            /\ Tells(w, d) => Tells(w, d)'
    <2>1. Held' = Held
      BY <1>11 DEF Held
    <2>2. ASSUME NEW d \in Claims PROVE /\ Sent(w, d)' = Sent(w, d)
                                        /\ Tells(w, d)' => Tells(w, d) \/ d = c
                                        /\ Tells(w, d) => Tells(w, d)'
      BY <1>6, <1>9, <1>11, ClaimFacts DEF Sent, Tells
    <2>3. ASSUME NEW d \in Claims PROVE /\ Runs(w, d)' <=> Runs(w, d) /\ d # c
                                        /\ Redelivered(w, d)' => Redelivered(w, d)
      <3>1. d = c <=> d.review = c.review /\ d.run = c.run
        BY ClaimFacts
      <3> QED
        BY <1>3, <1>4, <1>10, <3>1 DEF Runs, Executing, Redelivered
    <2> QED
      BY <2>1, <2>2, <2>3
  <1>15. Places(w)' /\ Out(w)' \subseteq Out(w)
    <2>1. Distinct(down[w], Claims)' /\ Distinct(up[w], Dones)'
      BY <1>1, <1>9, <1>11 DEF Distinct, Places
    <2> QED
      BY <1>1, <1>8, <1>14, <2>1 DEF Places, Out
  <1>16. \A q \in jobs'[w] : q.run <= Len(runs[q.review])
    BY <1>3, <1>4, <1>10 DEF IInv, Home
  <1>17. ASSUME NEW r \in Reviews PROVE Counted(r, w)' /\ Covered(r, w)'
    <2>1. Counted(r, w)'
      BY <1>9, <1>11, TablesKept DEF Counted, IInv, HelloOnItsWay
    <2>2. Reviewed(w)' = Reviewed(w)
      BY <1>3, <1>4, <1>10 DEF Reviewed
    <2>3. Missing(r, w) => Missing(r, w)'
      BY <1>9, <1>11, <2>2 DEF Missing
    <2>4. Bound(r, w) => \E d \in Claims : d = Claim(r, Len(runs[r])) /\ d.review = r
      BY CurrentIsNewest, ClaimFacts DEF IInv, Bound
    <2>5. ASSUME Bound(r, w), Unspoilt(r, w) PROVE Covered(r, w)'
      <3>1. PICK d \in Claims : d = Claim(r, Len(runs[r])) /\ d.review = r
        BY <2>4, <2>5
      <3>2. (d = Claim(r, Len(runs[r])))'
        BY <1>11, <3>1, TablesKept DEF tables
      <3>3. \/ conn[w] = "closed"
            \/ Holds(r, w) \/ r \in todo[w] \/ Missing(r, w) \/ Sent(w, d) \/ Runs(w, d) \/ Tells(w, d)
            \/ [type |-> "busy", review |-> r] \in Elements(up[w])
        BY <1>1, <2>5, <3>1 DEF IInv, Covered
      <3>4. Runs(w, d) => conn[w] = "closed" \/ Runs(w, d)' \/ Tells(w, d)'
        BY <1>6, <1>9, <1>14 DEF Tells
      <3>5. \/ conn'[w] = "closed"
            \/ Holds(r, w)' \/ r \in todo'[w] \/ Missing(r, w)' \/ Sent(w, d)' \/ Runs(w, d)' \/ Tells(w, d)'
            \/ [type |-> "busy", review |-> r] \in Elements(up'[w])
        BY <1>9, <1>11, <1>14, <2>3, <3>1, <3>3, <3>4, TablesKept
      <3> QED
        BY <3>2, <3>5 DEF Covered
    <2> QED
      BY <1>11, <2>1, <2>5, TablesKept DEF Covered
  <1> QED
    BY <1>11, <1>12, <1>13, <1>15, <1>16, <1>17, WorkerMoves

LEMMA RemoveJobKeeps ==
    ASSUME IInv, NEW w \in Workers, NEW j \in jobs[w], RemoveJob(w, j)
    PROVE  IInv' /\ Loses
  <1>1. Shape /\ jobs \in [Workers -> SUBSET Jobs] /\ Places(w)
    BY ShapeAt DEF IInv
  <1>2. /\ jobs' \in [Workers -> SUBSET Jobs] /\ jobs'[w] = jobs[w] \ {j}
        /\ \A v \in Workers : v # w => jobs'[v] = jobs[v]
    BY <1>1 DEF RemoveJob
  <1>3. /\ UNCHANGED <<tables, sched, locals>> /\ conn' = conn /\ listed' = listed /\ down' = down
        /\ up' = up /\ todo' = todo /\ inFlight' = inFlight
    BY DEF RemoveJob, pool, hub, channel
  <1>4. \A v \in Workers \ {w} : SameAt(v)
    BY <1>2, <1>3 DEF SameAt
  <1>5. Shape'
    BY <1>1, <1>2, <1>3 DEF Shape, SchedShape
  <1>6. /\ Held' = Held
        /\ \A d \in Claims : /\ Sent(w, d)' = Sent(w, d) /\ Tells(w, d)' = Tells(w, d)
                             /\ Redelivered(w, d)' => Redelivered(w, d)
                             /\ Runs(w, d)' = Runs(w, d)
    BY <1>2, <1>3 DEF Held, Sent, Tells, Redelivered, Runs, Executing, RemoveJob
  <1>7. Distinct(down[w], Claims)' /\ Distinct(up[w], Dones)'
    BY <1>1, <1>3 DEF Distinct, Places
  <1>8. Places(w)' /\ Out(w)' \subseteq Out(w)
    BY <1>1, <1>6, <1>7 DEF Places, Out
  <1>9. \A q \in jobs'[w] : q.run <= Len(runs[q.review])
    BY <1>2 DEF IInv, Home
  <1>10. ASSUME NEW r \in Reviews PROVE Counted(r, w)' /\ Covered(r, w)'
    <2>1. Counted(r, w)'
      BY <1>3, TablesKept DEF Counted, IInv, HelloOnItsWay
    <2>2. Missing(r, w) => Missing(r, w)'
      BY <1>2, <1>3 DEF Missing, Reviewed
    <2>3. Runs(w, Claim(r, Len(runs[r]))) => Runs(w, Claim(r, Len(runs[r])))'
      BY <1>2, <1>3 DEF Runs, Executing, Claim, tables, RemoveJob
    <2> QED
      BY <1>3, <2>1, <2>2, <2>3, TablesKept DEF Covered, Sent, Tells, Claim, IInv
  <1> QED
    BY <1>3, <1>4, <1>5, <1>8, <1>9, <1>10, WorkerMoves

----------------------------------------------------------------------------
(* Connections break, workers die, and the server's end notices. *)

\* The worker's end is closed after the step, and nothing new is on its way.
LEMMA ClosedKeeps ==
    ASSUME IInv, NEW w \in Workers, UNCHANGED <<tables, sched, locals, inFlight, todo>>,
           /\ up' \in [Workers -> Seq(Frames)] /\ down' \in [Workers -> Seq(Claims)]
           /\ conn' \in [Workers -> {"closed", "open", "listed", "ready"}]
           /\ listed' \in [Workers -> SUBSET Reviews] /\ jobs' \in [Workers -> SUBSET Jobs]
           /\ conn'[w] = "closed"
           /\ Elements(up'[w]) \subseteq Elements(up[w]) /\ Distinct(up'[w], Dones)
           /\ Elements(down'[w]) \subseteq Elements(down[w]) /\ Distinct(down'[w], Claims)
           /\ jobs'[w] \subseteq jobs[w],
           \A v \in Workers : v # w =>
              /\ up'[v] = up[v] /\ down'[v] = down[v] /\ conn'[v] = conn[v]
              /\ listed'[v] = listed[v] /\ jobs'[v] = jobs[v]
    PROVE  IInv' /\ Loses
  <1>1. Shape'
    BY DEF IInv, Shape, SchedShape
  <1>2. \A v \in Workers \ {w} : SameAt(v)
    BY DEF SameAt
  <1>3. /\ Held' = Held
        /\ \A d \in Claims : /\ Sent(w, d)' => Sent(w, d)
                             /\ Tells(w, d)' => Tells(w, d)
                             /\ Redelivered(w, d)' => Redelivered(w, d)
                             /\ Runs(w, d)' => Runs(w, d)
    BY DEF Held, Sent, Tells, Redelivered, Runs, Executing
  <1>4. Places(w)' /\ Out(w)' \subseteq Out(w)
    BY <1>3 DEF Places, Out, IInv
  <1>5. \A q \in jobs'[w] : q.run <= Len(runs[q.review])
    BY DEF IInv, Home
  <1>6. \A r \in Reviews : Counted(r, w)' /\ Covered(r, w)'
    BY ClosedIsCovered
  <1> QED
    BY <1>1, <1>2, <1>4, <1>5, <1>6, WorkerMoves

LEMMA TroubleKeeps ==
    ASSUME IInv, NEW w \in Workers, Trouble(w)
    PROVE  IInv' /\ Loses
  <1>1. Shape /\ jobs \in [Workers -> SUBSET Jobs] /\ up \in [Workers -> Seq(Frames)] /\ Places(w)
        /\ down \in [Workers -> Seq(Claims)] /\ listed \in [Workers -> SUBSET Reviews]
        /\ conn \in [Workers -> {"closed", "open", "listed", "ready"}]
    BY ShapeAt DEF IInv
  <1>2. CASE Break(w)
    <2>1. /\ UNCHANGED <<tables, sched, locals, inFlight, todo>> /\ jobs' = jobs
          /\ Cut(w)
      BY <1>2 DEF Break, hub, pool
    <2>2. /\ up' \in [Workers -> Seq(Frames)] /\ down' \in [Workers -> Seq(Claims)]
          /\ conn' \in [Workers -> {"closed", "open", "listed", "ready"}]
          /\ listed' \in [Workers -> SUBSET Reviews] /\ conn'[w] = "closed"
          /\ Elements(up'[w]) \subseteq Elements(up[w]) /\ Distinct(up'[w], Dones)
          /\ Elements(down'[w]) \subseteq Elements(down[w]) /\ Distinct(down'[w], Claims)
          /\ \A v \in Workers : v # w =>
                up'[v] = up[v] /\ down'[v] = down[v] /\ conn'[v] = conn[v] /\ listed'[v] = listed[v]
      BY <1>1, <2>1, CutEffect DEF Places
    <2>3. /\ jobs' \in [Workers -> SUBSET Jobs] /\ jobs'[w] \subseteq jobs[w]
          /\ \A v \in Workers : v # w => jobs'[v] = jobs[v]
      BY <1>1, <2>1
    <2> QED
      BY <2>1, <2>2, <2>3, ClosedKeeps
  <1>3. CASE WorkerDies(w)
    <2>1. /\ UNCHANGED <<tables, sched, locals, inFlight, todo>> /\ Cut(w)
          /\ jobs' \in [Workers -> SUBSET Jobs] /\ jobs'[w] = {}
          /\ \A v \in Workers : v # w => jobs'[v] = jobs[v]
      BY <1>1, <1>3 DEF WorkerDies, hub, pool
    <2>2. /\ up' \in [Workers -> Seq(Frames)] /\ down' \in [Workers -> Seq(Claims)]
          /\ conn' \in [Workers -> {"closed", "open", "listed", "ready"}]
          /\ listed' \in [Workers -> SUBSET Reviews] /\ conn'[w] = "closed"
          /\ Elements(up'[w]) \subseteq Elements(up[w]) /\ Distinct(up'[w], Dones)
          /\ Elements(down'[w]) \subseteq Elements(down[w]) /\ Distinct(down'[w], Claims)
          /\ \A v \in Workers : v # w =>
                up'[v] = up[v] /\ down'[v] = down[v] /\ conn'[v] = conn[v] /\ listed'[v] = listed[v]
      BY <1>1, <2>1, CutEffect DEF Places
    <2>3. jobs'[w] \subseteq jobs[w]
      BY <2>1
    <2> QED
      BY <2>1, <2>2, <2>3, ClosedKeeps
  <1>4. CASE Disconnect(w)
    <2>1. /\ UNCHANGED <<tables, sched, locals, inFlight, todo>> /\ jobs' = jobs /\ down' = down
          /\ conn' = conn /\ listed' = listed /\ conn'[w] = "closed"
          /\ up' \in [Workers -> Seq(Frames)] /\ up'[w] = <<>>
          /\ \A v \in Workers : v # w => up'[v] = up[v]
      BY <1>1, <1>4 DEF Disconnect, worker, pool
    <2>2. Elements(up'[w]) \subseteq Elements(up[w]) /\ Distinct(up'[w], Dones)
      BY <2>1, NothingSent
    <2> QED
      BY <1>1, <2>1, <2>2, ClosedKeeps DEF Places
  <1>5. CASE LeaseExpires(w) \/ HandlerStalls(w)
    BY <1>5, ElsewhereKept DEF LeaseExpires, HandlerStalls, pool
  <1> QED
    BY <1>2, <1>3, <1>4, <1>5 DEF Trouble

----------------------------------------------------------------------------
(* The server reads a frame. *)

LEMMA FrameRead ==
    ASSUME IInv, NEW w \in Workers, NEW type, NextFrame(w, type), Receive(w)
    PROVE  /\ up' \in [Workers -> Seq(Frames)] /\ Head(up[w]) \in Frames /\ Head(up[w]).type = type
           /\ \A v \in Workers : v # w => up'[v] = up[v]
           /\ Elements(up[w]) = Elements(up'[w]) \cup {Head(up[w])} /\ Distinct(up'[w], Dones)
           /\ Head(up[w]) \in Dones => Head(up[w]) \notin Elements(up'[w])
           /\ todo[w] = {} /\ Shape /\ Places(w)
           /\ todo \in [Workers -> SUBSET Reviews] /\ inFlight \in [Workers -> SUBSET Reviews]
  BY ReceiveEffect, ShapeAt DEF NextFrame, IInv, Places

LEMMA HandleHelloKeeps ==
    ASSUME IInv, NEW w \in Workers, HandleHello(w)
    PROVE  IInv' /\ Loses
  <1> DEFINE f == Head(up[w])
             B == {r \in Reviews : Bound(r, w)} \ f.list
  <1>1. NextFrame(w, "hello") /\ Receive(w)
    BY DEF HandleHello
  <1>2. /\ up' \in [Workers -> Seq(Frames)] /\ f \in Frames /\ f.type = "hello"
        /\ \A v \in Workers : v # w => up'[v] = up[v]
        /\ Elements(up[w]) = Elements(up'[w]) \cup {f} /\ Distinct(up'[w], Dones)
        /\ todo[w] = {} /\ Shape /\ Places(w)
        /\ todo \in [Workers -> SUBSET Reviews] /\ inFlight \in [Workers -> SUBSET Reviews]
    BY <1>1, FrameRead
  <1>3. f \in Hellos /\ f.list \in SUBSET Reviews /\ f \notin Dones /\ B \in SUBSET Reviews
    BY <1>2, Kinds
  <1>4. inFlight' = [inFlight EXCEPT ![w] = f.list] /\ todo' = [todo EXCEPT ![w] = B]
    BY DEF HandleHello
  <1>5. \A r \in Reviews : Bound(r, w) /\ r \notin f.list => r \in B
    OBVIOUS
  <1> HIDE DEF f, B
  <1>6. /\ inFlight' \in [Workers -> SUBSET Reviews] /\ inFlight'[w] = f.list
        /\ todo' \in [Workers -> SUBSET Reviews] /\ todo'[w] = B
        /\ \A v \in Workers : v # w => inFlight'[v] = inFlight[v] /\ todo'[v] = todo[v]
    BY <1>2, <1>3, <1>4
  <1>7. /\ UNCHANGED <<tables, sched, locals>> /\ conn' = conn /\ listed' = listed /\ down' = down
        /\ jobs' = jobs
    BY DEF HandleHello, pool, worker
  <1>8. \A v \in Workers \ {w} : SameAt(v)
    BY <1>2, <1>6, <1>7 DEF SameAt
  <1>9. Shape'
    BY <1>2, <1>6, <1>7 DEF Shape, SchedShape
  <1>10. /\ Held' = Held
         /\ \A d \in Claims : /\ Sent(w, d)' = Sent(w, d) /\ Runs(w, d)' = Runs(w, d)
                              /\ Redelivered(w, d)' = Redelivered(w, d)
                              /\ Tells(w, d)' = Tells(w, d)
    BY <1>2, <1>3, <1>7, Kinds DEF Held, Sent, Tells, Redelivered, Runs, Executing
  <1>11. Distinct(down[w], Claims)' /\ Distinct(up[w], Dones)'
    BY <1>2, <1>7 DEF Distinct, Places
  <1>12. Places(w)' /\ Out(w)' \subseteq Out(w)
    BY <1>2, <1>10, <1>11 DEF Places, Out
  <1>13. \A q \in jobs'[w] : q.run <= Len(runs[q.review])
    BY <1>7 DEF IInv, Home
  <1>14. ASSUME NEW r \in Reviews PROVE Counted(r, w)' /\ Covered(r, w)'
    <2>1. Counted(r, w)'
      BY <1>5, <1>6, <1>7, TablesKept DEF Counted
    <2>2. Bound(r, w) /\ Missing(r, w) => Missing(r, w)' \/ r \in todo'[w]
      BY <1>2, <1>5, <1>6, <1>7 DEF Missing, Reviewed
    <2>3. Covered(r, w)
      BY DEF IInv
    <2>4. Bound(r, w) => \E d \in Claims : d = Claim(r, Len(runs[r])) /\ d.review = r
      BY CurrentIsNewest, ClaimFacts DEF IInv, Bound
    <2>5. ASSUME Bound(r, w), Unspoilt(r, w) PROVE Covered(r, w)'
      <3>1. PICK d \in Claims : d = Claim(r, Len(runs[r])) /\ d.review = r
        BY <2>4, <2>5
      <3>2. (d = Claim(r, Len(runs[r])))'
        BY <1>7, <3>1, TablesKept DEF tables
      <3>3. \/ conn[w] = "closed"
            \/ Holds(r, w) \/ Missing(r, w) \/ Sent(w, d) \/ Runs(w, d) \/ Tells(w, d)
            \/ [type |-> "busy", review |-> r] \in Elements(up[w])
        BY <1>2, <2>3, <2>5, <3>1 DEF Covered
      <3>4. [type |-> "busy", review |-> r] \in Elements(up[w]) =>
               [type |-> "busy", review |-> r] \in Elements(up'[w])
        BY <1>2, Kinds
      <3>5. \/ conn'[w] = "closed"
            \/ Holds(r, w)' \/ r \in todo'[w] \/ Missing(r, w)' \/ Sent(w, d)' \/ Runs(w, d)' \/ Tells(w, d)'
            \/ [type |-> "busy", review |-> r] \in Elements(up'[w])
        BY <1>7, <1>10, <2>2, <2>5, <3>1, <3>3, <3>4, TablesKept
      <3> QED
        BY <3>2, <3>5 DEF Covered
    <2> QED
      BY <1>7, <2>1, <2>5, TablesKept DEF Covered
  <1> QED
    BY <1>7, <1>8, <1>9, <1>12, <1>13, <1>14, WorkerMoves

\* What a guarded requeue does to the tables.
LEMMA RequeueIfBoundEffect ==
    ASSUME IInv, NEW r \in Reviews, NEW w \in Workers, RequeueIfBound(r, w), UNCHANGED <<mode, torn>>
    PROVE  /\ Rows' /\ OwnershipKept' /\ Keeps({}) /\ SameOrFree /\ ~Bound(r, w)'
           /\ \A q \in Reviews \ {r} : SameReview(q)
           /\ \A c \in locals : SameReview(c.review)
  <1>1. CASE Bound(r, w)
    <2>1. Requeue(r) /\ row[r].status = "reviewing" /\ row[r].worker = w
      BY <1>1 DEF RequeueIfBound, Bound
    <2>2. Frees(r, 0)
      BY <2>1, RequeueEffect DEF IInv
    <2>3. Keeps({Claim(r, 0)}) /\ SameOrFree
      BY <2>2, FreesKeep DEF IInv
    <2>4. Claim(r, 0) \notin Claims
      BY DEF Claims, Claim
    <2>5. Keeps({})
      BY <2>3, <2>4 DEF Keeps
    <2>6. ASSUME NEW c \in locals PROVE SameReview(c.review)
      <3>1. c \in Claims /\ InProgress(c)
        BY DEF IInv, Shape, Home
      <3>2. c.review # r /\ c.review \in Reviews
        BY <2>1, <3>1, LocalAssumption, ClaimFacts DEF InProgress, Bound
      <3> QED
        BY <2>2, <3>2 DEF Frees, SameReview
    <2> QED
      BY <2>2, <2>3, <2>5, <2>6 DEF Frees, SameReview
  <1>2. CASE ~Bound(r, w)
    <2>1. UNCHANGED tables
      BY <1>2 DEF RequeueIfBound, tables
    <2> QED
      BY <1>2, <2>1, SameTables, SameTablesKeep DEF IInv, tables, SameReview, Bound
  <1> QED
    BY <1>1, <1>2

LEMMA HelloRequeueKeeps ==
    ASSUME IInv, NEW w \in Workers, NEW r \in Reviews, HelloRequeue(w, r)
    PROVE  IInv'
  <1>1. Shape /\ todo \in [Workers -> SUBSET Reviews] /\ Places(w)
    BY ShapeAt DEF IInv
  <1>2. /\ todo' \in [Workers -> SUBSET Reviews] /\ todo'[w] = todo[w] \ {r}
        /\ \A v \in Workers : v # w => todo'[v] = todo[v]
    BY <1>1 DEF HelloRequeue
  <1>3. /\ Rows' /\ OwnershipKept' /\ Keeps({}) /\ SameOrFree /\ ~Bound(r, w)'
        /\ \A q \in Reviews \ {r} : SameReview(q)
        /\ \A c \in locals : SameReview(c.review)
    BY RequeueIfBoundEffect DEF HelloRequeue
  <1>4. /\ sched' = sched /\ locals' = locals /\ conn' = conn /\ listed' = listed /\ down' = down
        /\ up' = up /\ jobs' = jobs /\ inFlight' = inFlight
    BY DEF HelloRequeue, pool, worker, channel
  <1>5. HoldsNewest' /\ Held' = Held
    BY <1>3, <1>4, NewestKept
  <1>6. Shape'
    BY <1>1, <1>2, <1>4 DEF Shape, SchedShape
  <1>7. \A v \in Workers \ {w} : SameAt(v)
    BY <1>2, <1>4 DEF SameAt
  <1>8. \A q \in Reviews, v \in Workers : SameHolder(q, v) /\ Holds(q, v)' = Holds(q, v)
    BY <1>4 DEF SameHolder, Holds
  <1>9. Places(w)' /\ Out(w)' = Out(w)
    BY <1>1, <1>4, <1>5 DEF Places, Out, Sent, Runs, Executing, Tells, Redelivered, Distinct
  <1>10. /\ \A c \in Out(w)' : Unpublished(w, c)
         /\ \A j \in jobs'[w] : j.run <= Len(runs[j.review])
    BY <1>4, <1>9 DEF IInv, Home
  <1>11. ASSUME NEW q \in Reviews PROVE Counted(q, w)' /\ Covered(q, w)'
    <2>1. CASE q = r
      BY <1>3, <2>1, Unbound
    <2>2. CASE q # r
      <3>1. SameReview(q) /\ Counted(q, w) /\ Covered(q, w)
        BY <1>3, <2>2 DEF IInv
      <3>2. Bound(q, w)' = Bound(q, w) /\ Unspoilt(q, w)' = Unspoilt(q, w)
        BY <3>1 DEF SameReview, Bound, Unspoilt, RunsOf
      <3>3. /\ Missing(q, w)' = Missing(q, w) /\ HelloOnItsWay(w)' = HelloOnItsWay(w)
            /\ (q \in todo[w])' = (q \in todo[w])
        BY <1>2, <1>4, <2>2 DEF Missing, HelloOnItsWay, Reviewed
      <3>4. Counted(q, w)'
        BY <1>4, <1>8, <3>1, <3>2, <3>3 DEF Counted
      <3>5. Covered(q, w)'
        BY <1>4, <1>8, <3>1, <3>2, <3>3
        DEF Covered, SameReview, Sent, Runs, Executing, Tells, Claim
      <3> QED
        BY <3>4, <3>5
    <2> QED
      BY <2>1, <2>2
  <1>12. {w} \in SUBSET Workers
    OBVIOUS
  <1> QED
    BY <1>3, <1>4, <1>5, <1>6, <1>7, <1>8, <1>9, <1>10, <1>11, <1>12, StepKeeps

\* What the frame f at the head was not about stays as it was.
LEMMA OthersWhenRead ==
    ASSUME NEW w \in Workers, NEW q \in Reviews, SameReview(q), sched' = sched,
           UNCHANGED <<down, jobs, conn, listed, todo>>,
           NEW f, Elements(up[w]) = Elements(up'[w]) \cup {f}, f \notin Hellos,
           f # [type |-> "busy", review |-> q],
           Bound(q, w) => f # Done(Claim(q, Len(runs[q]))),
           (q \in inFlight[w]) => (q \in inFlight'[w]),
           Counted(q, w), Covered(q, w)
    PROVE  Counted(q, w)' /\ Covered(q, w)'
  <1>1. /\ Bound(q, w)' = Bound(q, w) /\ Unspoilt(q, w)' = Unspoilt(q, w)
        /\ Holds(q, w)' = Holds(q, w)
    BY DEF SameReview, Bound, Unspoilt, RunsOf, Holds
  <1>2. /\ Missing(q, w)' = Missing(q, w) /\ HelloOnItsWay(w)' = HelloOnItsWay(w)
    BY DEF Missing, HelloOnItsWay, Reviewed
  <1>3. Counted(q, w)'
    BY <1>1, <1>2 DEF Counted
  <1>4. ASSUME Bound(q, w), Unspoilt(q, w) PROVE Covered(q, w)'
    <2> DEFINE c == Claim(q, Len(runs[q]))
    <2>1. c' = c
      BY DEF SameReview
    <2>2. Sent(w, c)' = Sent(w, c) /\ Runs(w, c)' = Runs(w, c)
      BY <2>1 DEF Sent, Runs, Executing
    <2>3. Tells(w, c) => Tells(w, c)'
      BY <1>4, <2>1 DEF Tells
    <2>4. Covered(q, w)
      OBVIOUS
    <2> QED
      BY <1>1, <1>2, <1>4, <2>2, <2>3, <2>4 DEF Covered
  <1>5. Covered(q, w)'
    BY <1>1, <1>4 DEF Covered
  <1> QED
    BY <1>3, <1>5

LEMMA HandleBusyKeeps ==
    ASSUME IInv, NEW w \in Workers, HandleBusy(w)
    PROVE  IInv' /\ Pending' = Pending
  <1>1. NextFrame(w, "busy") /\ Receive(w)
    BY DEF HandleBusy
  <1>01. PICK f \in Frames : f = Head(up[w])
    BY <1>1, FrameRead
  <1>02. PICK r \in Reviews : r = f.review
    BY <1>1, <1>01, FrameRead, Kinds
  <1>2. /\ up' \in [Workers -> Seq(Frames)] /\ f \in Frames /\ f.type = "busy"
        /\ \A v \in Workers : v # w => up'[v] = up[v]
        /\ Elements(up[w]) = Elements(up'[w]) \cup {f} /\ Distinct(up'[w], Dones)
        /\ todo[w] = {} /\ Shape /\ Places(w)
        /\ inFlight \in [Workers -> SUBSET Reviews]
    BY <1>1, <1>01, FrameRead
  <1>3. f \in Busies /\ r \in Reviews /\ f \notin Dones /\ f \notin Hellos
    BY <1>2, <1>02, Kinds
  <1>4. inFlight' = [inFlight EXCEPT ![w] = inFlight[w] \ {r}] /\ RequeueIfBound(r, w)
        /\ UNCHANGED <<mode, torn>>
    BY <1>01, <1>02 DEF HandleBusy
  <1>5. \A q \in Reviews : q # r => f # [type |-> "busy", review |-> q]
    BY <1>02 DEF Busies
  <1>6. /\ inFlight' \in [Workers -> SUBSET Reviews] /\ inFlight'[w] = inFlight[w] \ {r}
        /\ \A v \in Workers : v # w => inFlight'[v] = inFlight[v]
    BY <1>2, <1>4
  <1>7. /\ Rows' /\ OwnershipKept' /\ Keeps({}) /\ SameOrFree /\ ~Bound(r, w)'
        /\ \A q \in Reviews \ {r} : SameReview(q)
        /\ \A c \in locals : SameReview(c.review)
    BY <1>3, <1>4, RequeueIfBoundEffect
  <1>8. /\ sched' = sched /\ locals' = locals /\ conn' = conn /\ listed' = listed /\ down' = down
        /\ jobs' = jobs /\ todo' = todo
    BY DEF HandleBusy, pool, worker
  <1>9. HoldsNewest' /\ Held' = Held
    BY <1>7, <1>8, NewestKept
  <1>10. Shape'
    BY <1>2, <1>6, <1>8 DEF Shape, SchedShape
  <1>11. \A v \in Workers \ {w} : SameAt(v)
    BY <1>2, <1>6, <1>8 DEF SameAt
  <1>12. \A q \in Reviews, v \in Workers : SameHolder(q, v)
    BY <1>8 DEF SameHolder, Holds
  <1>13. \A d \in Claims : /\ Sent(w, d)' = Sent(w, d) /\ Runs(w, d)' = Runs(w, d)
                           /\ Redelivered(w, d)' = Redelivered(w, d)
                           /\ Tells(w, d)' = Tells(w, d)
    BY <1>2, <1>3, <1>8, Kinds DEF Sent, Tells, Redelivered, Runs, Executing
  <1>14. Distinct(down[w], Claims)' /\ Distinct(up[w], Dones)'
    BY <1>2, <1>8 DEF Distinct, Places
  <1>15. Places(w)' /\ Out(w)' \subseteq Out(w)
    BY <1>2, <1>9, <1>13, <1>14 DEF Places, Out
  <1>16. /\ \A c \in Out(w)' : Unpublished(w, c)
         /\ \A j \in jobs'[w] : j.run <= Len(runs[j.review])
    BY <1>8, <1>15 DEF IInv, Home
  <1>17. ASSUME NEW q \in Reviews PROVE Counted(q, w)' /\ Covered(q, w)'
    <2>1. CASE q = r
      BY <1>7, <2>1, Unbound
    <2>2. CASE q # r
      <3>1. SameReview(q) /\ Counted(q, w) /\ Covered(q, w)
        BY <1>7, <2>2 DEF IInv
      <3>2. f # [type |-> "busy", review |-> q]
        BY <1>5, <2>2
      <3>3. f # Done(Claim(q, Len(runs[q])))
        BY <1>2 DEF Done
      <3>4. (q \in inFlight[w]) => (q \in inFlight'[w])
        BY <1>6, <2>2
      <3> QED
        BY <1>2, <1>3, <1>8, <3>1, <3>2, <3>3, <3>4, OthersWhenRead
    <2> QED
      BY <2>1, <2>2
  <1>18. {w} \in SUBSET Workers
    OBVIOUS
  <1>19. Pending' = Pending
    <2>1. Out(w)' = Out(w)
      BY <1>13 DEF Out
    <2>2. \A v \in Workers : Out(v)' = Out(v)
      BY <1>11, <2>1, UntouchedOut
    <2> QED
      BY <1>8, <1>9, <2>2 DEF Pending
  <1> QED
    BY <1>19, <1>7, <1>8, <1>9, <1>10, <1>11, <1>12, <1>15, <1>16, <1>17, <1>18, StepKeeps

\* A completion that is not accepted is of no newest run.
LEMMA CompletionDropped ==
    ASSUME IInv, NEW w \in Workers, NEW ok \in BOOLEAN, HandleComplete(w, ok),
           ~Accepted(w, Head(up[w]))
    PROVE  IInv' /\ Loses
  <1> DEFINE f == Head(up[w])
  <1>1. NextFrame(w, "complete") /\ Receive(w)
    BY DEF HandleComplete
  <1>2. /\ up' \in [Workers -> Seq(Frames)] /\ f \in Frames /\ f.type = "complete"
        /\ \A v \in Workers : v # w => up'[v] = up[v]
        /\ Elements(up[w]) = Elements(up'[w]) \cup {f} /\ Distinct(up'[w], Dones)
        /\ todo[w] = {} /\ Shape /\ Places(w)
    BY <1>1, FrameRead
  <1>3. f \in Dones /\ f \notin Hellos /\ f.review \in Reviews /\ f.run \in Nat \ {0}
    BY <1>2, Kinds
  <1>4. /\ UNCHANGED <<tables, sched, locals>> /\ conn' = conn /\ listed' = listed /\ down' = down
        /\ jobs' = jobs /\ todo' = todo /\ inFlight' = inFlight
    BY DEF HandleComplete, pool, worker, tables
  <1>5. ASSUME NEW r \in Reviews, Bound(r, w) PROVE f # Done(Claim(r, Len(runs[r])))
    <2>1. SUFFICES ASSUME f = Done(Claim(r, Len(runs[r]))) PROVE FALSE
      OBVIOUS
    <2>2. f.review = r /\ f.run = Len(runs[r])
      BY <2>1 DEF Done, Claim
    <2>3. /\ row[r].status = "reviewing" /\ row[r].worker = w
          /\ Life!IsCurrent(r, Len(runs[r])) /\ runs[r][Len(runs[r])].worker = w
      BY <1>5, CurrentIsNewest DEF IInv, Bound
    <2> QED
      BY <2>2, <2>3 DEF Accepted, Life!Accepts
  <1> HIDE DEF f
  <1>6. \A v \in Workers \ {w} : SameAt(v)
    BY <1>2, <1>4 DEF SameAt
  <1>7. Shape'
    BY <1>2, <1>4 DEF Shape, SchedShape
  <1>8. /\ Held' = Held
        /\ \A d \in Claims : /\ Sent(w, d)' = Sent(w, d) /\ Runs(w, d)' = Runs(w, d)
                             /\ Redelivered(w, d)' = Redelivered(w, d)
                             /\ Tells(w, d)' => Tells(w, d)
    BY <1>2, <1>4 DEF Held, Sent, Tells, Redelivered, Runs, Executing
  <1>9. Distinct(down[w], Claims)' /\ Distinct(up[w], Dones)'
    BY <1>2, <1>4 DEF Distinct, Places
  <1>10. Places(w)' /\ Out(w)' \subseteq Out(w)
    BY <1>2, <1>8, <1>9 DEF Places, Out
  <1>11. \A j \in jobs'[w] : j.run <= Len(runs[j.review])
    BY <1>4 DEF IInv, Home
  <1>12. ASSUME NEW q \in Reviews PROVE Counted(q, w)' /\ Covered(q, w)'
    <2>1. SameReview(q) /\ Counted(q, w) /\ Covered(q, w)
      BY <1>4 DEF IInv, SameReview, tables
    <2>2. f # [type |-> "busy", review |-> q]
      BY <1>2
    <2> QED
      BY <1>2, <1>3, <1>4, <1>5, <2>1, <2>2, OthersWhenRead
  <1> QED
    BY <1>4, <1>6, <1>7, <1>10, <1>11, <1>12, WorkerMoves

\* An accepted completion is of the newest run, and nobody else will report that run.
LEMMA CompletionAccepted ==
    ASSUME IInv, NEW w \in Workers, NEW ok \in BOOLEAN, HandleComplete(w, ok),
           Accepted(w, Head(up[w]))
    PROVE  IInv' /\ \E c \in Claims : /\ c = Claim(Head(up[w]).review, Head(up[w]).run)
                                    /\ c \in Pending /\ Pending' = Pending \ {c}
  <1>1. NextFrame(w, "complete") /\ Receive(w)
    BY DEF HandleComplete
  <1>01. PICK f \in Frames : f = Head(up[w])
    BY <1>1, FrameRead
  <1>02. PICK r \in Reviews : r = f.review
    BY <1>1, <1>01, FrameRead, Kinds
  <1>03. PICK k \in Nat \ {0} : k = f.run
    BY <1>1, <1>01, FrameRead, Kinds
  <1>2. /\ up' \in [Workers -> Seq(Frames)] /\ f \in Frames /\ f.type = "complete"
        /\ \A v \in Workers : v # w => up'[v] = up[v]
        /\ Elements(up[w]) = Elements(up'[w]) \cup {f} /\ Distinct(up'[w], Dones)
        /\ f \in Dones => f \notin Elements(up'[w])
        /\ todo[w] = {} /\ Shape /\ Places(w)
        /\ inFlight \in [Workers -> SUBSET Reviews]
    BY <1>1, <1>01, FrameRead
  <1>3. f \in Dones /\ f \notin Hellos /\ r \in Reviews /\ k \in Nat \ {0}
        /\ Done(Claim(r, k)) = f
    BY <1>2, <1>02, <1>03, Kinds
  <1>4. PICK c \in Claims : c = Claim(r, k) /\ c.review = r /\ c.run = k /\ Done(c) = f
    BY <1>3, ClaimFacts
  <1>5. /\ Life!Publish(r, k, Life!Outcome(r, k, ok), row[r].session)
        /\ inFlight' = [inFlight EXCEPT ![w] = inFlight[w] \ {r}]
        /\ UNCHANGED <<mode, torn>>
    BY <1>01, <1>02, <1>03 DEF HandleComplete
  <1>6. /\ runs[r][k].worker = w /\ Life!IsCurrent(r, k)
        /\ row[r].status = "reviewing" /\ row[r].worker = w
    BY <1>01, <1>02, <1>03 DEF Accepted, Life!Accepts
  <1>7. k \in 1..Len(runs[r])
    BY <1>6 DEF Life!IsCurrent, Life!Running, Life!Latest
  <1>8. Frees(r, k)
    BY <1>3, <1>5, <1>6, <1>7, PublishEffect DEF IInv
  <1>9. Keeps({c}) /\ SameOrFree
    BY <1>3, <1>4, <1>8, FreesKeep DEF IInv
  <1>10. /\ Rows' /\ OwnershipKept' /\ ~Bound(r, w)'
         /\ \A q \in Reviews \ {r} : SameReview(q)
    BY <1>8 DEF Frees, SameReview
  <1>11. /\ inFlight' \in [Workers -> SUBSET Reviews] /\ inFlight'[w] = inFlight[w] \ {r}
         /\ \A v \in Workers : v # w => inFlight'[v] = inFlight[v]
    BY <1>2, <1>5
  <1>12. /\ sched' = sched /\ locals' = locals /\ conn' = conn /\ listed' = listed /\ down' = down
         /\ jobs' = jobs /\ todo' = todo
    BY DEF HandleComplete, pool, worker
  <1>13. HoldsNewest' /\ Held' = Held
    BY <1>9, <1>12, NewestKept
  <1>14. Shape'
    BY <1>2, <1>11, <1>12 DEF Shape, SchedShape
  <1>15. \A v \in Workers \ {w} : SameAt(v)
    BY <1>2, <1>11, <1>12 DEF SameAt
  <1>16. \A q \in Reviews, v \in Workers : SameHolder(q, v)
    BY <1>12 DEF SameHolder, Holds
  <1>17. \A d \in Claims : /\ Sent(w, d)' = Sent(w, d) /\ Runs(w, d)' = Runs(w, d)
                           /\ Redelivered(w, d)' = Redelivered(w, d)
                           /\ Tells(w, d)' => Tells(w, d) /\ d # c
    BY <1>2, <1>3, <1>4, <1>12 DEF Sent, Tells, Redelivered, Runs, Executing
  <1>18. Distinct(down[w], Claims)' /\ Distinct(up[w], Dones)'
    BY <1>2, <1>12 DEF Distinct, Places
  <1>19. Places(w)' /\ Out(w)' \subseteq Out(w)
    BY <1>2, <1>13, <1>17, <1>18 DEF Places, Out
  <1>20. Tells(w, c)
    BY <1>2, <1>4 DEF Tells
  <1>21. ~Sent(w, c) /\ ~Runs(w, c) /\ c \notin Held
    BY <1>2, <1>20 DEF Places
  <1>22. c \notin Out(w)'
    BY <1>17, <1>21 DEF Out
  <1>23. ASSUME NEW v \in Workers \ {w} PROVE Out(v) \cap {c} = {}
    BY <1>4, <1>6 DEF IInv, Home, Unpublished
  <1>24. \A d \in locals : SameReview(d.review)
    <2> SUFFICES ASSUME NEW d \in locals PROVE SameReview(d.review)
      OBVIOUS
    <2>1. d \in Claims /\ InProgress(d)
      BY DEF IInv, Shape, Home
    <2>2. d.review # r /\ d.review \in Reviews
      BY <1>6, <2>1, LocalAssumption, ClaimFacts DEF InProgress, Bound
    <2> QED
      BY <1>10, <2>2
  <1>25. /\ \A d \in Out(w)' : d # c /\ Unpublished(w, d)
         /\ \A j \in jobs'[w] : j.run <= Len(runs[j.review])
    BY <1>12, <1>19, <1>22 DEF IInv, Home
  <1>26. ASSUME NEW q \in Reviews PROVE Counted(q, w)' /\ Covered(q, w)'
    <2>1. CASE q = r
      BY <1>10, <2>1, Unbound
    <2>2. CASE q # r
      <3>1. SameReview(q) /\ Counted(q, w) /\ Covered(q, w)
        BY <1>10, <2>2 DEF IInv
      <3>2. f # [type |-> "busy", review |-> q]
        BY <1>2
      <3>3. f # Done(Claim(q, Len(runs[q])))
        BY <1>02, <2>2 DEF Done, Claim
      <3>4. (q \in inFlight[w]) => (q \in inFlight'[w])
        BY <1>11, <2>2
      <3> QED
        BY <1>2, <1>3, <1>12, <3>1, <3>2, <3>3, <3>4, OthersWhenRead
    <2> QED
      BY <2>1, <2>2
  <1>27. /\ {w} \in SUBSET Workers
         /\ \A d \in Held' : d \in Held /\ d \notin {c} /\ sched'.worker = sched.worker
    BY <1>12, <1>13, <1>21
  <1>28. /\ \A d \in locals' : (d \in locals /\ SameReview(d.review)) \/ InProgress(d)'
         /\ \A v \in Workers \ {w} : Out(v) \cap {c} = {}
         /\ \A q \in Reviews, v \in Workers \ {w} : SameHolder(q, v)
    BY <1>12, <1>16, <1>23, <1>24
  <1>29. \A v \in {w} : /\ Places(v)'
                        /\ \A d \in Out(v)' : d \notin {c} /\ Unpublished(v, d)
                        /\ \A j \in jobs'[v] : j.run <= Len(runs[j.review])
                        /\ \A q \in Reviews : Counted(q, v)' /\ Covered(q, v)'
    BY <1>19, <1>25, <1>26
  <1>30. IInv'
    BY <1>9, <1>10, <1>13, <1>14, <1>15, <1>27, <1>28, <1>29, StepKeeps
  <1>31. c \in Pending /\ Pending' = Pending \ {c}
    <2>1. \A d \in Claims : Tells(w, d) /\ d # c => Tells(w, d)'
      BY <1>2, <1>4, ClaimFacts DEF Tells
    <2>2. Out(w)' = Out(w) \ {c}
      BY <1>17, <1>22, <2>1 DEF Out
    <2>3. \A v \in Workers \ {w} : Out(v)' = Out(v)
      BY <1>15, UntouchedOut
    <2>4. c \notin locals
      BY <1>4, <1>6, LocalAssumption DEF IInv, Home, InProgress, Bound
    <2>5. c \in Out(w)
      BY <1>20 DEF Out
    <2> QED
      BY <1>12, <1>13, <1>21, <1>23, <2>2, <2>3, <2>4, <2>5 DEF Pending
  <1> QED
    BY <1>01, <1>02, <1>03, <1>4, <1>30, <1>31

LEMMA ReadLoopKeeps ==
    ASSUME IInv, NEW w \in Workers, ReadLoop(w)
    PROVE  IInv'
  <1>1. CASE Heartbeat(w)
    <2>1. UNCHANGED <<tables, sched, inFlight, todo, channel, worker, locals>>
      BY <1>1 DEF Heartbeat, pool
    <2> QED
      BY <2>1, ElsewhereKept
  <1>2. CASE HandleHello(w)
    BY <1>2, HandleHelloKeeps
  <1>3. CASE \E r \in Reviews : HelloRequeue(w, r)
    BY <1>3, HelloRequeueKeeps
  <1>4. CASE \E ok \in BOOLEAN : HandleComplete(w, ok)
    BY <1>4, CompletionDropped, CompletionAccepted
  <1>5. CASE HandleBusy(w)
    BY <1>5, HandleBusyKeeps
  <1> QED
    BY <1>1, <1>2, <1>3, <1>4, <1>5 DEF ReadLoop

----------------------------------------------------------------------------
(* Steps of the scheduler, of the local pool, of the users; a restart. *)

LEMMA Stand ==
    ASSUME Shape
    PROVE  /\ sched.pc = "picked" => sched.review \in Reviews /\ sched.worker \in Workers
           /\ sched.pc \in Holding =>
                 /\ sched.review \in Reviews /\ sched.worker \in Workers /\ sched.run \in Nat \ {0}
                 /\ sched = [pc |-> sched.pc, review |-> sched.review, worker |-> sched.worker,
                             run |-> sched.run]
           /\ sched = Idle => sched.pc = "idle"
           /\ sched.pc \in {"idle", "picked"} \cup Holding
  BY DEF Shape, SchedShape, Idle, Holding

\* A step in which the scheduler holds no claim before or after, and nothing else moves.
LEMMA IdleMoves ==
    ASSUME IInv, sched.pc \notin Holding, sched'.pc \notin Holding, SchedShape',
           Rows', OwnershipKept', SameOrFree, NEW D, Keeps(D),
           UNCHANGED <<inFlight, todo, channel, worker>>,
           locals' \subseteq Claims,
           \A c \in locals' : (c \in locals /\ SameReview(c.review)) \/ InProgress(c)',
           \A v \in Workers : Out(v) \cap D = {}
    PROVE  IInv'
  <1>1. Shape'
    BY DEF IInv, Shape, channel, worker
  <1>2. Held' = {} /\ HoldsNewest'
    BY DEF Held, HoldsNewest, Holding
  <1>3. \A v \in Workers : SameAt(v)
    BY DEF SameAt, channel, worker
  <1>4. \A r \in Reviews, v \in Workers : SameHolder(r, v)
    BY DEF SameHolder, Holds
  <1>5. {} \in SUBSET Workers
    OBVIOUS
  <1> QED
    BY <1>1, <1>2, <1>3, <1>4, <1>5, StepKeeps

LEMMA PickKeeps ==
    ASSUME IInv, NEW r \in Reviews, NEW w \in Workers, Pick(r, w)
    PROVE  IInv'
  <1>1. sched.pc \notin Holding /\ sched'.pc \notin Holding /\ SchedShape'
    BY DEF Pick, Idle, Holding, SchedShape
  <1>2. UNCHANGED <<tables, inFlight, todo, channel, worker, locals>>
    BY DEF Pick, hub, pool
  <1>3. Rows' /\ OwnershipKept' /\ SameOrFree /\ Keeps({})
    BY <1>2, SameTables, SameTablesKeep DEF IInv
  <1>4. locals' \subseteq Claims /\ \A c \in locals' : c \in locals /\ SameReview(c.review)
    BY <1>2 DEF tables, SameReview, IInv, Shape
  <1> QED
    BY <1>1, <1>2, <1>3, <1>4, IdleMoves

LEMMA RequestKeeps ==
    ASSUME IInv, NEW r \in Reviews, Request(r)
    PROVE  IInv'
  <1>1. Frees(r, 0)
    BY RequestEffect DEF IInv
  <1>2. Keeps({Claim(r, 0)}) /\ SameOrFree
    BY <1>1, FreesKeep DEF IInv
  <1>3. Claim(r, 0) \notin Claims
    BY DEF Claims, Claim
  <1>4. Keeps({}) /\ Rows' /\ OwnershipKept'
    BY <1>1, <1>2, <1>3 DEF Keeps, Frees
  <1>5. UNCHANGED <<sched, inFlight, todo, channel, worker, locals>>
    BY DEF Request, hub, pool
  <1>6. HoldsNewest' /\ Held' = Held
    BY <1>2, <1>5, NewestKept
  <1>7. Shape'
    BY <1>5 DEF IInv, Shape, SchedShape, channel, worker
  <1>8. ASSUME NEW c \in locals' PROVE c \in locals /\ SameReview(c.review)
    <2>1. c \in locals /\ c \in Claims /\ InProgress(c)
      BY <1>5 DEF IInv, Shape, Home
    <2>2. c.review # r /\ c.review \in Reviews
      BY <2>1, ClaimFacts DEF InProgress, Bound, Request
    <2> QED
      BY <1>1, <2>1, <2>2 DEF Frees, SameReview
  <1>9. /\ \A v \in Workers : SameAt(v)
        /\ \A q \in Reviews, v \in Workers : SameHolder(q, v)
    BY <1>5 DEF SameAt, SameHolder, Holds, channel, worker
  <1>10. {} \in SUBSET Workers
    OBVIOUS
  <1> QED
    BY <1>2, <1>4, <1>5, <1>6, <1>7, <1>8, <1>9, <1>10, StepKeeps

LEMMA RequeueOfflineKeeps ==
    ASSUME IInv, NEW r \in Reviews, NEW w \in Workers, RequeueOffline(r, w)
    PROVE  IInv'
  <1>1. sched' = sched /\ sched = Idle /\ UNCHANGED <<inFlight, todo, channel, worker, locals>>
    BY DEF RequeueOffline, hub, pool
  <1>2. sched.pc \notin Holding /\ sched'.pc \notin Holding /\ SchedShape'
    BY <1>1 DEF Idle, Holding, SchedShape
  <1>3. RequeueIfBound(r, w) /\ UNCHANGED <<mode, torn>>
    BY DEF RequeueIfBound, RequeueOffline
  <1>4. Rows' /\ OwnershipKept' /\ Keeps({}) /\ SameOrFree /\ \A c \in locals : SameReview(c.review)
    BY <1>3, RequeueIfBoundEffect
  <1>5. locals' \subseteq Claims /\ \A c \in locals' : c \in locals /\ SameReview(c.review)
    BY <1>1, <1>4 DEF IInv, Shape
  <1> QED
    BY <1>1, <1>2, <1>4, <1>5, IdleMoves

LEMMA StartLocalKeeps ==
    ASSUME IInv, NEW r \in Reviews, StartLocal(r)
    PROVE  IInv'
  <1>1. UNCHANGED <<sched, mode, torn, inFlight, todo, channel, worker>>
    BY DEF StartLocal, hub
  <1>2. CASE row[r].status = "pending"
    <2>1. /\ row' = [row EXCEPT ![r] = Life!Assigned(r, Local)]
          /\ runs' = [runs EXCEPT ![r] = Append(@, Life!NewRun(r, Local))]
          /\ locals' = locals \cup {Claim(r, Len(runs[r]) + 1)}
      BY <1>2 DEF StartLocal, Claim
    <2>2. Begins(r, Local) /\ Bound(r, Local)'
      BY <1>1, <1>2, <2>1, StartEffect DEF IInv
    <2>3. PICK c \in Claims : c = Claim(r, Len(runs[r]) + 1)
      BY <2>2, BeginsKeep DEF IInv
    <2>4. c.review = r /\ c.run = Len(runs[r]) + 1
      BY <2>3 DEF Claim
    <2>5. Keeps({}) /\ Rows' /\ OwnershipKept'
      BY <2>2, BeginsKeep DEF Begins, IInv
    <2>6. \A v \in Workers : ~Bound(r, v)'
      BY <2>2, LocalAssumption DEF Begins
    <2>7. SameOrFree
      BY <2>2, <2>6 DEF Begins, SameOrFree, SameReview
    <2>8. HoldsNewest' /\ Held' = Held
      BY <1>1, <2>7, NewestKept
    <2>9. Shape'
      BY <1>1, <2>1, <2>3 DEF IInv, Shape, SchedShape, channel, worker
    <2>10. ASSUME NEW d \in locals' PROVE (d \in locals /\ SameReview(d.review)) \/ InProgress(d)'
      <3>1. CASE d = c
        BY <2>2, <2>4, <3>1 DEF InProgress, Begins
      <3>2. CASE d # c
        <4>1. d \in locals /\ d \in Claims /\ InProgress(d)
          BY <2>1, <2>3, <3>2 DEF IInv, Home, Shape
        <4>2. d.review # r /\ d.review \in Reviews
          BY <1>2, <4>1, ClaimFacts DEF InProgress, Bound
        <4> QED
          BY <2>2, <4>1, <4>2 DEF Begins, SameReview
      <3> QED
        BY <3>1, <3>2
    <2>11. /\ \A v \in Workers : SameAt(v)
           /\ \A q \in Reviews, v \in Workers : SameHolder(q, v)
      BY <1>1 DEF SameAt, SameHolder, Holds, channel, worker
    <2>12. {} \in SUBSET Workers
      OBVIOUS
    <2> QED
      BY <1>1, <2>5, <2>7, <2>8, <2>9, <2>10, <2>11, <2>12, StepKeeps
  <1>3. CASE row[r].status # "pending"
    <2>1. UNCHANGED <<tables, sched, inFlight, todo, channel, worker, locals>>
      BY <1>1, <1>3 DEF StartLocal, tables
    <2> QED
      BY <2>1, ElsewhereKept
  <1> QED
    BY <1>2, <1>3

LEMMA FinishLocalKeeps ==
    ASSUME IInv, NEW r \in Reviews, NEW k \in RunsOf(r), NEW ok \in BOOLEAN, FinishLocal(r, k, ok)
    PROVE  IInv' /\ Claim(r, k) \in Pending /\ Pending' = Pending \ {Claim(r, k)}
  <1>1. UNCHANGED <<sched, mode, torn, inFlight, todo, channel, worker>>
    BY DEF FinishLocal, hub
  <1>2. PICK n \in RunsOf(r) :
           /\ Life!IsCurrent(r, n) /\ runs[r][n].worker = Local
           /\ Life!Publish(r, n, Life!Outcome(r, n, ok), row[r].session)
    BY DEF FinishLocal
  <1>3. n \in 1..Len(runs[r]) /\ n \in Nat \ {0}
    BY <1>2 DEF RunsOf
  <1>4. Frees(r, n) /\ n = Len(runs[r])
    BY <1>1, <1>2, <1>3, PublishEffect DEF IInv
  <1>5. Keeps({Claim(r, n)}) /\ SameOrFree /\ Rows' /\ OwnershipKept'
    BY <1>3, <1>4, FreesKeep DEF Frees, IInv
  <1>6. PICK c \in Claims : c = Claim(r, n) /\ c.review = r /\ c.run = n
    BY <1>3, ClaimFacts
  <1>7. runs[c.review][c.run].worker \notin Workers
    BY <1>2, <1>6, LocalAssumption
  <1>8. c \notin Held /\ \A v \in Workers : Out(v) \cap {c} = {}
    <2>1. c \in Held => sched.worker \in Workers
      BY Stand DEF Held, IInv, Holding
    <2> QED
      BY <1>7, <2>1 DEF IInv, Home, Unpublished
  <1>9. HoldsNewest' /\ Held' = Held
    BY <1>1, <1>5, NewestKept
  <1>10. locals' = locals \ {Claim(r, k)}
    BY DEF FinishLocal, Claim
  <1>11. Shape'
    BY <1>1, <1>10 DEF IInv, Shape, SchedShape, channel, worker
  <1>12. ASSUME NEW d \in locals' PROVE d \in locals /\ SameReview(d.review)
    <2>1. d \in locals /\ d \in Claims /\ InProgress(d)
      BY <1>10 DEF IInv, Home, Shape
    <2>2. Claim(r, k) \in locals /\ k \in Nat \ {0}
      BY DEF FinishLocal, Claim, RunsOf
    <2>3. k = n
      <3>1. PICK e \in locals : e = Claim(r, k)
        BY <2>2
      <3>2. e.review = r /\ e.run = k /\ InProgress(e)
        BY <3>1 DEF Claim, IInv, Home
      <3> QED
        BY <1>4, <3>2 DEF InProgress
    <2>4. d.review # r
      BY <1>4, <1>10, <2>1, <2>3, ClaimFacts DEF InProgress
    <2> QED
      BY <1>4, <2>1, <2>4, ClaimFacts DEF Frees, SameReview
  <1>13. /\ \A v \in Workers : SameAt(v)
         /\ \A q \in Reviews, v \in Workers : SameHolder(q, v)
    BY <1>1 DEF SameAt, SameHolder, Holds, channel, worker
  <1>14. /\ {} \in SUBSET Workers
         /\ \A d \in Held' : d \in Held /\ d \notin {c} /\ sched'.worker = sched.worker
         /\ \A v \in Workers \ {} : Out(v) \cap {c} = {}
    BY <1>1, <1>8, <1>9
  <1>15. IInv'
    BY <1>5, <1>6, <1>9, <1>11, <1>12, <1>13, <1>14, StepKeeps
  <1>16. Claim(r, k) = c /\ c \in locals
    <2>1. PICK d \in locals : d = Claim(r, k)
      BY DEF FinishLocal, Claim
    <2>2. d.review = r /\ d.run = k /\ InProgress(d)
      BY <2>1 DEF Claim, IInv, Home
    <2> QED
      BY <1>4, <1>6, <2>1, <2>2 DEF InProgress
  <1>17. \A v \in Workers : Out(v)' = Out(v)
    BY <1>13, UntouchedOut
  <1>18. c \in Pending /\ Pending' = Pending \ {c}
    BY <1>8, <1>9, <1>10, <1>16, <1>17 DEF Pending
  <1> QED
    BY <1>15, <1>16, <1>18

LEMMA StartRemoteKeeps ==
    ASSUME IInv, StartRemote
    PROVE  IInv'
  <1>1. PICK r \in Reviews, w \in Workers :
           /\ r = sched.review /\ w = sched.worker /\ sched.pc = "picked"
    BY Stand DEF IInv, StartRemote
  <1>2. UNCHANGED <<mode, torn, inFlight, todo, channel, worker, locals>>
    BY DEF StartRemote, hub, pool
  <1>3. CASE row[r].status # "pending"
    <2>1. sched' = Idle /\ UNCHANGED tables
      BY <1>1, <1>2, <1>3 DEF StartRemote, tables
    <2>2. sched.pc \notin Holding /\ sched'.pc \notin Holding /\ SchedShape'
      BY <1>1, <2>1 DEF Idle, Holding, SchedShape
    <2>3. Rows' /\ OwnershipKept' /\ SameOrFree /\ Keeps({})
      BY <2>1, SameTables, SameTablesKeep DEF IInv
    <2>4. locals' \subseteq Claims /\ \A c \in locals' : c \in locals /\ SameReview(c.review)
      BY <1>2, <2>1 DEF tables, SameReview, IInv, Shape
    <2> QED
      BY <1>2, <2>2, <2>3, <2>4, IdleMoves
  <1>4. CASE row[r].status = "pending"
    <2>1. /\ row' = [row EXCEPT ![r] = Life!Assigned(r, w)]
          /\ runs' = [runs EXCEPT ![r] = Append(@, Life!NewRun(r, w))]
          /\ sched' = [pc |-> "started", review |-> r, worker |-> w, run |-> Len(runs[r]) + 1]
      BY <1>1, <1>4 DEF StartRemote
    <2>2. Begins(r, w) /\ Bound(r, w)'
      BY <1>2, <1>4, <2>1, StartEffect DEF IInv
    <2>3. PICK c \in Claims : c = Claim(r, Len(runs[r]) + 1) /\ Unpublished(w, c)'
      BY <2>2, BeginsKeep DEF IInv
    <2>4. c.review = r /\ c.run = Len(runs[r]) + 1 /\ Len(runs[r]) \in Nat
      BY <2>3, RunFacts DEF Claim, IInv
    <2>5. Keeps({}) /\ Rows' /\ OwnershipKept'
      BY <2>2, BeginsKeep DEF Begins, IInv
    <2>6. /\ sched'.pc = "started" /\ sched'.review = r /\ sched'.worker = w /\ sched'.run = c.run
          /\ Held' = {c}
      BY <2>1, <2>4, ClaimFacts DEF Held
    <2>7. Shape'
      <3>1. SchedShape'
        BY <2>1, <2>4, ClaimFacts DEF SchedShape, Holding
      <3> QED
        BY <1>2, <3>1 DEF IInv, Shape, channel, worker
    <2>8. /\ \A v \in Workers : SameAt(v)
          /\ \A v \in Workers : Out(v)' = Out(v)
      BY <1>2, UntouchedOut DEF SameAt, channel, worker
    <2>9. HoldsNewest'
      BY <2>2, <2>4, <2>6 DEF HoldsNewest, Begins
    <2>10. ASSUME NEW v \in Workers PROVE Places(v)'
      <3>1. ~Sent(v, c) /\ ~Tells(v, c) /\ ~Redelivered(v, c)
        <4>1. Sent(v, c) \/ Tells(v, c) => Unpublished(v, c)
          BY DEF IInv, Home, Out
        <4>2. Redelivered(v, c) => c.run <= Len(runs[c.review])
          BY DEF Redelivered, IInv, Home
        <4> QED
          BY <2>4, <4>1, <4>2 DEF Unpublished
      <3>2. Distinct(down[v], Claims)' /\ Distinct(up[v], Dones)'
        BY <1>2 DEF IInv, Places, Distinct, channel
      <3> QED
        BY <2>6, <2>8, <3>1, <3>2, UntouchedOut DEF Places, IInv
    <2>11. Home'
      <3>1. (\A d \in Held : Unpublished(sched.worker, d))'
        BY <2>3, <2>6 DEF Unpublished
      <3>2. ASSUME NEW d \in locals' PROVE InProgress(d)'
        <4>1. d \in Claims /\ InProgress(d)
          BY <1>2 DEF IInv, Home, Shape
        <4>2. d.review # r /\ d.review \in Reviews
          BY <1>4, <4>1, ClaimFacts DEF InProgress, Bound
        <4> QED
          BY <2>2, <4>1, <4>2 DEF Begins, InProgress, Bound
      <3>3. ASSUME NEW v \in Workers, NEW d \in Out(v)' PROVE Unpublished(v, d)'
        BY <2>5, <2>8 DEF Keeps, IInv, Home, Out
      <3>4. ASSUME NEW v \in Workers, NEW j \in jobs'[v] PROVE j.run <= Len(runs'[j.review])
        <4>1. j \in Jobs /\ j.review \in Reviews /\ j.run \in Nat /\ j.run <= Len(runs[j.review])
          BY <1>2 DEF IInv, Home, Shape, Jobs, worker
        <4> QED
          BY <2>5, <4>1 DEF Keeps
      <3> QED
        BY <3>1, <3>2, <3>3, <3>4 DEF Home
    <2>12. ASSUME NEW q \in Reviews, NEW v \in Workers PROVE Counted(q, v)' /\ Covered(q, v)'
      <3>1. CASE q # r
        <4>1. SameReview(q) /\ SameHolder(q, v)
          BY <1>1, <2>2, <3>1 DEF Begins, SameReview, SameHolder, Holds, Holding
        <4> QED
          BY <2>8, <4>1, Untouched DEF IInv
      <3>2. CASE q = r /\ v = w
        BY <2>6, <3>2 DEF Counted, Covered, Holds, Holding
      <3>3. CASE q = r /\ v # w
        BY <2>2, <3>3, Unbound DEF Begins
      <3> QED
        BY <3>1, <3>2, <3>3
    <2> QED
      BY <2>5, <2>7, <2>9, <2>10, <2>11, <2>12 DEF IInv
  <1> QED
    BY <1>3, <1>4

LEMMA AddInFlightKeeps ==
    ASSUME IInv, AddInFlight
    PROVE  IInv'
  <1>1. PICK r \in Reviews, w \in Workers, k \in Nat \ {0} :
           sched = [pc |-> "started", review |-> r, worker |-> w, run |-> k]
    BY Stand DEF IInv, AddInFlight, Holding
  <1>2. sched' = [pc |-> "added", review |-> r, worker |-> w, run |-> k]
    BY <1>1 DEF AddInFlight
  <1>3. UNCHANGED <<tables, todo, up, down, conn, listed, jobs, locals>>
    BY DEF AddInFlight, channel, worker, pool
  <1>4. inFlight \in [Workers -> SUBSET Reviews] /\ Shape
    BY DEF IInv, Shape
  <1>5. /\ inFlight' \in [Workers -> SUBSET Reviews] /\ inFlight'[w] = inFlight[w] \cup {r}
        /\ \A v \in Workers : v # w => inFlight'[v] = inFlight[v]
    BY <1>1, <1>4 DEF AddInFlight
  <1>6. Rows' /\ OwnershipKept' /\ SameOrFree /\ Keeps({})
    BY <1>3, SameTables, SameTablesKeep DEF IInv
  <1>7. SchedShape'
    BY <1>2 DEF SchedShape, Holding
  <1>8. Shape'
    BY <1>3, <1>4, <1>5, <1>7 DEF Shape
  <1>9. Held' = Held /\ \A q \in Reviews, v \in Workers : Holds(q, v)' = Holds(q, v)
    BY <1>1, <1>2 DEF Held, Holds, Holding
  <1>10. HoldsNewest'
    BY <1>1, <1>2, <1>3 DEF IInv, HoldsNewest, Holding, Bound, tables
  <1>11. \A v \in Workers \ {w} : SameAt(v)
    BY <1>3, <1>5 DEF SameAt
  <1>12. \A q \in Reviews, v \in Workers \ {w} : SameHolder(q, v)
    BY <1>1 DEF SameHolder, Holds
  <1>13. Places(w)' /\ Out(w)' = Out(w)
    BY <1>3, <1>9 DEF IInv, Places, Out, Sent, Runs, Executing, Tells, Redelivered, Distinct
  <1>14. ASSUME NEW q \in Reviews PROVE Counted(q, w)' /\ Covered(q, w)'
    <2>1. SameReview(q) /\ Counted(q, w) /\ Covered(q, w)
      BY <1>3 DEF IInv, SameReview, tables
    <2>2. Bound(q, w)' = Bound(q, w) /\ Unspoilt(q, w)' = Unspoilt(q, w)
      BY <2>1 DEF SameReview, Bound, Unspoilt, RunsOf
    <2>3. /\ Missing(q, w)' = Missing(q, w) /\ HelloOnItsWay(w)' = HelloOnItsWay(w)
      BY <1>3 DEF Missing, HelloOnItsWay, Reviewed
    <2>4. Counted(q, w)'
      BY <1>1, <1>3, <1>5, <2>1, <2>2, <2>3 DEF Counted, Holds
    <2>5. Covered(q, w)'
      BY <1>3, <1>9, <2>1, <2>2, <2>3
      DEF Covered, SameReview, Sent, Runs, Executing, Tells, Claim
    <2> QED
      BY <2>4, <2>5
  <1>15. /\ {w} \in SUBSET Workers
         /\ \A c \in Held' : c \in Held /\ c \notin {} /\ sched'.worker = sched.worker
         /\ \A c \in locals' : c \in locals /\ SameReview(c.review)
    BY <1>1, <1>2, <1>3, <1>9 DEF SameReview, tables
  <1>16. /\ \A c \in Out(w)' : Unpublished(w, c)
         /\ \A j \in jobs'[w] : j.run <= Len(runs[j.review])
    BY <1>3, <1>13 DEF IInv, Home
  <1> QED
    BY <1>6, <1>8, <1>10, <1>11, <1>12, <1>13, <1>14, <1>15, <1>16, StepKeeps

LEMMA SendClaimKeeps ==
    ASSUME IInv, SendClaim
    PROVE  IInv' /\ Loses
  <1>1. PICK r \in Reviews, w \in Workers, k \in Nat \ {0} :
           sched = [pc |-> "added", review |-> r, worker |-> w, run |-> k]
    BY Stand DEF IInv, SendClaim, Holding
  <1>2. PICK c \in Claims : c = Claim(r, k) /\ c.review = r /\ c.run = k
    BY ClaimFacts
  <1>3. Held = {c} /\ sched' = Idle /\ Held' = {} /\ sched'.pc \notin Holding
    BY <1>1, <1>2 DEF Held, SendClaim, Idle, Claim, Holding
  <1>4. UNCHANGED <<tables, todo, inFlight, up, conn, listed, jobs, locals>>
    BY DEF SendClaim, hub, worker, pool
  <1>5. Shape /\ down \in [Workers -> Seq(Claims)] /\ down[w] \in Seq(Claims) /\ Places(w)
    BY ShapeAt DEF IInv
  <1>6. down' = IF conn[w] = "closed" THEN down ELSE [down EXCEPT ![w] = Append(down[w], c)]
    BY <1>1, <1>2 DEF SendClaim, Claim
  <1>7. ~Sent(w, c) /\ ~Redelivered(w, c) /\ ~Tells(w, c) /\ Unpublished(w, c)
    BY <1>1, <1>3, <1>5 DEF Places, IInv, Home
  <1>8. /\ down' \in [Workers -> Seq(Claims)] /\ \A v \in Workers : v # w => down'[v] = down[v]
        /\ Elements(down[w]) \subseteq Elements(down'[w])
        /\ Elements(down'[w]) \subseteq Elements(down[w]) \cup {c}
        /\ conn[w] = "closed" \/ c \in Elements(down'[w])
        /\ Distinct(down'[w], Claims)
    <2>1. CASE conn[w] = "closed"
      BY <1>5, <1>6, <2>1 DEF Places
    <2>2. CASE conn[w] # "closed"
      <3>1. down' = [down EXCEPT ![w] = Append(down[w], c)]
        BY <1>6, <2>2
      <3>2. down'[w] = Append(down[w], c) /\ down'[w] \in Seq(Claims)
        BY <1>5, <3>1, Appended
      <3>3. down' \in [Workers -> Seq(Claims)] /\ \A v \in Workers : v # w => down'[v] = down[v]
        BY <1>5, <3>1, <3>2
      <3> QED
        BY <1>5, <1>7, <3>2, <3>3, Appended DEF Places, Sent
    <2> QED
      BY <2>1, <2>2
  <1>9. Rows' /\ OwnershipKept' /\ SameOrFree /\ Keeps({})
    BY <1>4, SameTables, SameTablesKeep DEF IInv
  <1>10. SchedShape' /\ HoldsNewest'
    BY <1>3 DEF SchedShape, HoldsNewest
  <1>11. Shape'
    BY <1>4, <1>5, <1>8, <1>10 DEF Shape
  <1>12. \A v \in Workers \ {w} : SameAt(v)
    BY <1>4, <1>8 DEF SameAt
  <1>13. \A q \in Reviews, v \in Workers \ {w} : SameHolder(q, v)
    BY <1>1 DEF SameHolder, Holds
  <1>14. \A d \in Claims : /\ Sent(w, d)' => Sent(w, d) \/ d = c
                           /\ Sent(w, d) => Sent(w, d)'
                           /\ Runs(w, d)' = Runs(w, d) /\ Tells(w, d)' = Tells(w, d)
                           /\ Redelivered(w, d)' = Redelivered(w, d)
    BY <1>4, <1>8 DEF Sent, Runs, Executing, Tells, Redelivered
  <1>15. Places(w)'
    <2>1. Distinct(up[w], Dones)'
      BY <1>4, <1>5 DEF Places, Distinct
    <2> QED
      BY <1>3, <1>5, <1>7, <1>8, <1>14, <2>1 DEF Places
  <1>16. ASSUME NEW d \in Out(w)' PROVE Unpublished(w, d)
    BY <1>7, <1>14 DEF IInv, Home, Out
  <1>17. ASSUME NEW q \in Reviews PROVE Counted(q, w)' /\ Covered(q, w)'
    <2>1. SameReview(q) /\ Counted(q, w) /\ Covered(q, w)
      BY <1>4 DEF IInv, SameReview, tables
    <2>2. Bound(q, w)' = Bound(q, w) /\ Unspoilt(q, w)' = Unspoilt(q, w)
      BY <2>1 DEF SameReview, Bound, Unspoilt, RunsOf
    <2>3. /\ Missing(q, w)' = Missing(q, w) /\ HelloOnItsWay(w)' = HelloOnItsWay(w)
      BY <1>4 DEF Missing, HelloOnItsWay, Reviewed
    <2>4. Counted(q, w)'
      BY <1>1, <1>4, <2>1, <2>2, <2>3 DEF Counted
    <2>5. ASSUME Bound(q, w), Unspoilt(q, w) PROVE Covered(q, w)'
      <3>1. PICK d \in Claims : d = Claim(q, Len(runs[q])) /\ d.review = q
        BY <2>5, CurrentIsNewest, ClaimFacts DEF IInv, Bound
      <3>2. (d = Claim(q, Len(runs[q])))'
        BY <2>1, <3>1 DEF SameReview
      <3>3. Holds(q, w) => d = c
        BY <1>1, <1>2, <2>5, <3>1 DEF Holds, IInv, HoldsNewest
      <3>4. \/ conn[w] = "closed"
            \/ Holds(q, w) \/ q \in todo[w] \/ Missing(q, w) \/ Sent(w, d) \/ Runs(w, d) \/ Tells(w, d)
            \/ [type |-> "busy", review |-> q] \in Elements(up[w])
        BY <2>1, <2>5, <3>1 DEF Covered
      <3>5. \/ conn'[w] = "closed"
            \/ q \in todo'[w] \/ Missing(q, w)' \/ Sent(w, d)' \/ Runs(w, d)' \/ Tells(w, d)'
            \/ [type |-> "busy", review |-> q] \in Elements(up'[w])
        BY <1>4, <1>8, <1>14, <2>3, <3>3, <3>4 DEF Sent
      <3> QED
        BY <3>2, <3>5 DEF Covered
    <2>6. Covered(q, w)'
      BY <2>2, <2>5 DEF Covered
    <2> QED
      BY <2>4, <2>6
  <1>18. /\ {w} \in SUBSET Workers
         /\ \A d \in locals' : d \in locals /\ SameReview(d.review)
         /\ \A j \in jobs'[w] : j.run <= Len(runs[j.review])
    BY <1>4 DEF SameReview, tables, IInv, Home
  <1>19. Loses
    <2>1. Out(w)' \subseteq Pending
      BY <1>3, <1>14, AlreadyPending DEF Out
    <2>2. \A v \in Workers \ {w} : Out(v)' \subseteq Pending
      BY <1>12, UntouchedOut, AlreadyPending
    <2> QED
      BY <1>3, <1>4, <2>1, <2>2, NoneMade
  <1> QED
    BY <1>19, <1>3, <1>9, <1>10, <1>11, <1>12, <1>13, <1>15, <1>16, <1>17, <1>18, StepKeeps

LEMMA SendFailsKeeps ==
    ASSUME IInv, SendFails
    PROVE  IInv'
  <1>1. PICK r \in Reviews, w \in Workers, k \in Nat \ {0} :
           sched = [pc |-> "added", review |-> r, worker |-> w, run |-> k]
    BY Stand DEF IInv, SendFails, Holding
  <1>2. sched' = [pc |-> "failed", review |-> r, worker |-> w, run |-> k]
    BY <1>1 DEF SendFails
  <1>3. UNCHANGED <<tables, inFlight, todo, up, down, conn, listed, jobs, locals>>
    BY DEF SendFails, hub, channel, worker, pool
  <1>4. Rows' /\ OwnershipKept' /\ SameOrFree /\ Keeps({})
    BY <1>3, SameTables, SameTablesKeep DEF IInv
  <1>5. SchedShape'
    BY <1>2 DEF SchedShape, Holding
  <1>6. Shape'
    BY <1>3, <1>5 DEF Shape, IInv
  <1>7. Held' = {} /\ \A q \in Reviews, v \in Workers : Holds(q, v)' = Holds(q, v)
    BY <1>1, <1>2 DEF Held, Holds, Holding
  <1>8. HoldsNewest'
    BY <1>1, <1>2, <1>3 DEF IInv, HoldsNewest, Holding, Bound, tables
  <1>9. \A v \in Workers : SameAt(v)
    BY <1>3 DEF SameAt
  <1>10. \A q \in Reviews, v \in Workers \ {w} : SameHolder(q, v)
    BY <1>1 DEF SameHolder, Holds
  <1>11. Places(w)' /\ Out(w)' = Out(w)
    BY <1>3, <1>7, <1>9, UntouchedPlaces, UntouchedOut DEF IInv
  <1>12. ASSUME NEW q \in Reviews PROVE Counted(q, w)' /\ Covered(q, w)'
    <2>1. SameReview(q) /\ Counted(q, w) /\ Covered(q, w)
      BY <1>3 DEF IInv, SameReview, tables
    <2>2. Bound(q, w)' = Bound(q, w) /\ Unspoilt(q, w)' = Unspoilt(q, w)
      BY <2>1 DEF SameReview, Bound, Unspoilt, RunsOf
    <2>3. /\ Missing(q, w)' = Missing(q, w) /\ HelloOnItsWay(w)' = HelloOnItsWay(w)
      BY <1>3 DEF Missing, HelloOnItsWay, Reviewed
    <2>4. Counted(q, w)'
      BY <1>1, <1>3, <2>1, <2>2, <2>3 DEF Counted
    <2>5. Covered(q, w)'
      BY <1>3, <1>7, <2>1, <2>2, <2>3
      DEF Covered, SameReview, Sent, Runs, Executing, Tells, Claim
    <2> QED
      BY <2>4, <2>5
  <1>13. /\ {w} \in SUBSET Workers
         /\ \A c \in locals' : c \in locals /\ SameReview(c.review)
    BY <1>3 DEF SameReview, tables
  <1>14. /\ \A c \in Out(w)' : Unpublished(w, c)
         /\ \A j \in jobs'[w] : j.run <= Len(runs[j.review])
    BY <1>3, <1>11 DEF IInv, Home
  <1> QED
    BY <1>4, <1>6, <1>7, <1>8, <1>9, <1>10, <1>11, <1>12, <1>13, <1>14, StepKeeps

LEMMA RequeueUnsentKeeps ==
    ASSUME IInv, RequeueUnsent
    PROVE  IInv'
  <1>1. PICK r \in Reviews, w \in Workers, k \in Nat \ {0} :
           sched = [pc |-> "failed", review |-> r, worker |-> w, run |-> k]
    BY Stand DEF IInv, RequeueUnsent, Holding
  <1>2. Held = {} /\ sched' = Idle /\ Held' = {} /\ sched'.pc \notin Holding
    BY <1>1 DEF Held, RequeueUnsent, Idle, Holding
  <1>3. UNCHANGED <<todo, up, down, conn, listed, jobs, locals>>
    BY DEF RequeueUnsent, channel, worker, pool
  <1>4. inFlight \in [Workers -> SUBSET Reviews] /\ Shape
    BY DEF IInv, Shape
  <1>5. inFlight' = [inFlight EXCEPT ![w] = inFlight[w] \ {r}] /\ RequeueIfBound(r, w)
        /\ UNCHANGED <<mode, torn>>
    BY <1>1 DEF RequeueUnsent
  <1>6. /\ inFlight' \in [Workers -> SUBSET Reviews] /\ inFlight'[w] = inFlight[w] \ {r}
        /\ \A v \in Workers : v # w => inFlight'[v] = inFlight[v]
    BY <1>4, <1>5
  <1>7. /\ Rows' /\ OwnershipKept' /\ Keeps({}) /\ SameOrFree /\ ~Bound(r, w)'
        /\ \A q \in Reviews \ {r} : SameReview(q)
        /\ \A c \in locals : SameReview(c.review)
    BY <1>5, RequeueIfBoundEffect
  <1>8. SchedShape' /\ HoldsNewest'
    BY <1>2 DEF SchedShape, HoldsNewest
  <1>9. Shape'
    BY <1>3, <1>4, <1>6, <1>8 DEF Shape
  <1>10. \A v \in Workers \ {w} : SameAt(v)
    BY <1>3, <1>6 DEF SameAt
  <1>11. \A q \in Reviews, v \in Workers \ {w} : SameHolder(q, v)
    BY <1>1 DEF SameHolder, Holds
  <1>12. Places(w)' /\ Out(w)' = Out(w)
    BY <1>2, <1>3 DEF IInv, Places, Out, Sent, Runs, Executing, Tells, Redelivered, Distinct
  <1>13. ASSUME NEW q \in Reviews PROVE Counted(q, w)' /\ Covered(q, w)'
    <2>1. CASE q = r
      BY <1>7, <2>1, Unbound
    <2>2. CASE q # r
      <3>1. SameReview(q) /\ Counted(q, w) /\ Covered(q, w) /\ ~Holds(q, w)
        BY <1>1, <1>7, <2>2 DEF IInv, Holds
      <3>2. Bound(q, w)' = Bound(q, w) /\ Unspoilt(q, w)' = Unspoilt(q, w)
        BY <3>1 DEF SameReview, Bound, Unspoilt, RunsOf
      <3>3. /\ Missing(q, w)' = Missing(q, w) /\ HelloOnItsWay(w)' = HelloOnItsWay(w)
        BY <1>3 DEF Missing, HelloOnItsWay, Reviewed
      <3>4. Counted(q, w)'
        BY <1>3, <1>6, <2>2, <3>1, <3>2, <3>3 DEF Counted
      <3>5. Covered(q, w)'
        BY <1>3, <3>1, <3>2, <3>3
        DEF Covered, SameReview, Sent, Runs, Executing, Tells, Claim
      <3> QED
        BY <3>4, <3>5
    <2> QED
      BY <2>1, <2>2
  <1>14. {w} \in SUBSET Workers /\ \A c \in locals' : c \in locals /\ SameReview(c.review)
    BY <1>3, <1>7
  <1>15. /\ \A c \in Out(w)' : Unpublished(w, c)
         /\ \A j \in jobs'[w] : j.run <= Len(runs[j.review])
    BY <1>3, <1>12 DEF IInv, Home
  <1> QED
    BY <1>2, <1>7, <1>8, <1>9, <1>10, <1>11, <1>12, <1>13, <1>14, <1>15, StepKeeps

\* The server starts with nothing on the wire and nothing connected.
LEMMA RestartKeeps ==
    ASSUME IInv, Restart
    PROVE  IInv'
  <1>1. Rows' /\ OwnershipKept' /\ SameOrFree /\ Keeps({})
    BY SameTables, SameTablesKeep DEF IInv, Restart
  <1>2. /\ sched' = Idle /\ sched'.pc \notin Holding /\ Held' = {} /\ SchedShape' /\ HoldsNewest'
    BY DEF Restart, Idle, Holding, Held, SchedShape, HoldsNewest
  <1>3. Shape'
    BY <1>2 DEF Restart, Shape, IInv
  <1>4. ASSUME NEW w \in Workers
        PROVE  /\ conn'[w] = "closed" /\ up'[w] = <<>> /\ down'[w] = <<>> /\ jobs'[w] = jobs[w]
               /\ Elements(<<>>) = {} /\ Distinct(<<>>, Dones) /\ Distinct(<<>>, Claims)
    BY NothingSent DEF Restart
  <1>5. ASSUME NEW w \in Workers PROVE Places(w)' /\ Out(w)' \subseteq Out(w)
    <2>1. \A c \in Claims : /\ ~Sent(w, c)' /\ ~Tells(w, c)' /\ Runs(w, c)' = Runs(w, c)
                            /\ Redelivered(w, c)' = Redelivered(w, c)
      BY <1>4 DEF Sent, Tells, Runs, Executing, Redelivered
    <2> QED
      BY <1>2, <1>4, <2>1 DEF Places, Out
  <1>6. ASSUME NEW w \in Workers
        PROVE  /\ \A c \in Out(w)' : c \notin {} /\ Unpublished(w, c)
               /\ \A j \in jobs'[w] : j.run <= Len(runs[j.review])
               /\ \A r \in Reviews : Counted(r, w)' /\ Covered(r, w)'
    BY <1>4, <1>5, ClosedIsCovered DEF IInv, Home
  <1>7. locals' = {} /\ Workers \in SUBSET Workers
    BY DEF Restart
  <1> QED
    BY <1>1, <1>2, <1>3, <1>5, <1>6, <1>7, StepKeeps

----------------------------------------------------------------------------
(* The invariant. *)

LEMMA Initial == Init => IInv
  <1> SUFFICES ASSUME Init PROVE IInv
    OBVIOUS
  <1>1. /\ mode = "distributed" /\ torn = {}
        /\ row = [r \in Reviews |-> [status |-> "absent", worker |-> Local, verdict |-> 0,
                                     context |-> 1, session |-> 0]]
        /\ runs = [r \in Reviews |-> <<>>]
    BY DEF Init, Life!Init
  <1>2. Rows
    BY <1>1 DEF Rows, Life!Row, Life!RowStatus, Life!Owners
  <1>3. OwnershipKept
    BY <1>1 DEF OwnershipKept, Life!OwnershipOf, Life!Running, Life!Latest
  <1>4. sched = Idle /\ sched.pc \notin Holding /\ Held = {} /\ SchedShape /\ HoldsNewest
    BY DEF Init, Idle, Holding, Held, SchedShape, HoldsNewest
  <1>5. Shape
    BY <1>4 DEF Init, Shape
  <1>6. ASSUME NEW w \in Workers
        PROVE  /\ conn[w] = "closed" /\ up[w] = <<>> /\ down[w] = <<>> /\ jobs[w] = {}
               /\ Elements(<<>>) = {} /\ Distinct(<<>>, Dones) /\ Distinct(<<>>, Claims)
    BY NothingSent DEF Init
  <1>7. ASSUME NEW w \in Workers PROVE Places(w) /\ Out(w) = {}
    <2>1. \A c \in Claims : ~Sent(w, c) /\ ~Tells(w, c) /\ ~Runs(w, c) /\ ~Redelivered(w, c)
      BY <1>6 DEF Sent, Tells, Runs, Executing, Redelivered
    <2> QED
      BY <1>4, <1>6, <2>1 DEF Places, Out
  <1>8. Home
    BY <1>4, <1>6, <1>7 DEF Home, Init
  <1>9. \A r \in Reviews, w \in Workers : Counted(r, w) /\ Covered(r, w)
    BY <1>6 DEF Counted, Covered
  <1> QED
    BY <1>2, <1>3, <1>4, <1>5, <1>7, <1>8, <1>9 DEF IInv

LEMMA SchedulerKeeps ==
    ASSUME IInv, Scheduler
    PROVE  IInv'
  <1>1. CASE \E w \in Workers : BackoffEnds(w)
    <2>1. UNCHANGED <<tables, sched, inFlight, todo, channel, worker, locals>>
      BY <1>1 DEF BackoffEnds, pool
    <2> QED
      BY <2>1, ElsewhereKept
  <1>2. CASE \E r \in Reviews, w \in Workers : Pick(r, w) \/ RequeueOffline(r, w)
    BY <1>2, PickKeeps, RequeueOfflineKeeps
  <1> QED
    BY <1>1, <1>2, StartRemoteKeeps, AddInFlightKeeps, SendClaimKeeps, SendFailsKeeps,
       RequeueUnsentKeeps
    DEF Scheduler

LEMMA LocalPoolKeeps ==
    ASSUME IInv, LocalPool
    PROVE  IInv'
  <1>1. PICK r \in Reviews : \/ EnqueueLocal(r)
                             \/ StartLocal(r)
                             \/ \E k \in RunsOf(r), ok \in BOOLEAN : FinishLocal(r, k, ok)
    BY DEF LocalPool
  <1>2. CASE EnqueueLocal(r)
    <2>1. UNCHANGED <<tables, sched, inFlight, todo, channel, worker, locals>>
      BY <1>2 DEF EnqueueLocal, hub
    <2> QED
      BY <2>1, ElsewhereKept
  <1>3. CASE StartLocal(r)
    BY <1>3, StartLocalKeeps
  <1>4. CASE \E k \in RunsOf(r), ok \in BOOLEAN : FinishLocal(r, k, ok)
    BY <1>4, FinishLocalKeeps
  <1> QED
    BY <1>1, <1>2, <1>3, <1>4

LEMMA WorkerStepKeeps ==
    ASSUME IInv, NEW w \in Workers, WorkerStep(w)
    PROVE  IInv' /\ Loses
  <1>1. CASE Connect(w) \/ ListJobs(w) \/ SendHello(w) \/ TakeClaim(w)
    BY <1>1, ConnectKeeps, ListJobsKeeps, SendHelloKeeps, TakeClaimKeeps
  <1>2. CASE \E j \in jobs[w] : FinishJob(w, j) \/ RemoveJob(w, j)
    BY <1>2, FinishJobKeeps, RemoveJobKeeps
  <1> QED
    BY <1>1, <1>2 DEF WorkerStep

LEMMA Inductive == IInv /\ [Next]_vars => IInv'
  <1> SUFFICES ASSUME IInv, [Next]_vars PROVE IInv'
    OBVIOUS
  <1>1. CASE \E r \in Reviews : Request(r)
    BY <1>1, RequestKeeps
  <1>2. CASE \E w \in Workers : WorkerStep(w) \/ ReadLoop(w) \/ Trouble(w)
    BY <1>2, WorkerStepKeeps, ReadLoopKeeps, TroubleKeeps
  <1>3. CASE UNCHANGED vars
    <2>1. UNCHANGED <<tables, sched, inFlight, todo, channel, worker, locals>>
      BY <1>3 DEF vars, hub, pool
    <2> QED
      BY <2>1, ElsewhereKept
  <1> QED
    BY <1>1, <1>2, <1>3, SchedulerKeeps, LocalPoolKeeps, RestartKeeps DEF Next

(* The inductive invariant: a claim is in one place, once; whoever will yet *)
(* report a run is its worker; the scheduler holds the newest run; what is  *)
(* bound to a worker is counted by the hub, or a hello that does not list   *)
(* it is still to come.                                                     *)
THEOREM InvariantHolds == Spec => []IInv
  BY Initial, Inductive, PTL DEF Spec

(* AwaitedIsCounted: the hub's in-flight set of a settled connection holds *)
(* every review the tables bind to that worker, whatever reconnects, lost  *)
(* frames and server restarts came before; so capacity is never overrun by *)
(* reviews the server has forgotten that it waits for.  A completion is    *)
(* handled in one step, the posting of its comments included.              *)
THEOREM AwaitedIsCountedHolds == Spec => []AwaitedIsCounted
  <1>1. IInv => AwaitedIsCounted
    <2> SUFFICES ASSUME IInv, NEW r \in Reviews, NEW w \in Workers, Bound(r, w), Settled(w)
                 PROVE  r \in inFlight[w]
      BY DEF AwaitedIsCounted
    <2>1. Counted(r, w)
      BY DEF IInv
    <2>2. ~HelloOnItsWay(w)
      BY NothingSent DEF Settled, HelloOnItsWay
    <2>3. ~(Holds(r, w) /\ sched.pc = "started")
      BY DEF Settled, Holds
    <2> QED
      BY <2>1, <2>2, <2>3 DEF Counted, Settled
  <1> QED
    BY <1>1, InvariantHolds, PTL

(* UnspoiltIsExecuting: a review bound to a worker whose connection has    *)
(* settled, and at which no run of it failed, is being executed there for  *)
(* its newest run.  HelloPayload's promise, for any number of workers,     *)
(* reviews, runs and faults.                                               *)
THEOREM UnspoiltIsExecutingHolds == Spec => []UnspoiltIsExecuting
  <1>1. IInv => UnspoiltIsExecuting
    <2> SUFFICES ASSUME IInv, NEW r \in Reviews, NEW w \in Workers,
                        Bound(r, w), Unspoilt(r, w), Settled(w)
                 PROVE  Executing(w, r, Len(runs[r]))
      BY DEF UnspoiltIsExecuting
    <2> DEFINE c == Claim(r, Len(runs[r]))
    <2>1. Covered(r, w)
      BY DEF IInv
    <2>2. Elements(up[w]) = {} /\ Elements(down[w]) = {} /\ conn[w] = "ready" /\ todo[w] = {}
      BY NothingSent DEF Settled
    <2>3. ~Holds(r, w) /\ ~Missing(r, w)
      BY <2>2 DEF Settled, Holds, Holding, Missing
    <2>4. Runs(w, c)
      BY <2>1, <2>2, <2>3 DEF Covered, Sent, Tells
    <2> QED
      BY <2>4 DEF Runs, Claim
  <1> QED
    BY <1>1, InvariantHolds, PTL

(* Ownership, of the lifecycle that Dispatch implements: with the callers  *)
(* it really has, no operation is ever cut in two by a restart, and every  *)
(* review under way has exactly one running run, its newest, at the worker *)
(* its row names.                                                          *)
THEOREM OwnershipHolds == Spec => []Life!Ownership
  <1>1. IInv => Life!Ownership
    BY DEF IInv, OwnershipKept, Life!Ownership
  <1> QED
    BY <1>1, InvariantHolds, PTL

----------------------------------------------------------------------------
(* Dispatch is a lifecycle: what each step is there. *)

\* The runs of r whose claims are in P.
ReportedIn(P, r) == {k \in RunsOf(r) : Claim(r, k) \in P}
ReportsPending   == Reports = [r \in Reviews |-> ReportedIn(Pending, r)]

LEMMA Meaning == Shape => ReportsPending
  <1> SUFFICES ASSUME Shape PROVE ReportsPending
    OBVIOUS
  <1>1. ASSUME NEW r \in Reviews, NEW k \in RunsOf(r)
        PROVE  Claim(r, k) \in Pending <=>
                  \/ [review |-> r, run |-> k] \in Held
                  \/ [review |-> r, run |-> k] \in locals
                  \/ \E w \in Workers :
                        \/ [review |-> r, run |-> k] \in Elements(down[w])
                        \/ Executing(w, r, k)
                        \/ \E f \in Completions(w) : f.review = r /\ f.run = k
    <2>1. PICK c \in Claims : c = Claim(r, k) /\ c.review = r /\ c.run = k
      BY ClaimFacts DEF RunsOf
    <2>2. ASSUME NEW w \in Workers
          PROVE  Tells(w, c) <=> \E f \in Completions(w) : f.review = r /\ f.run = k
      <3>1. Elements(up[w]) \subseteq Frames
        <4>1. up[w] \in Seq(Frames)
          BY ShapeAt
        <4> QED
          BY <4>1 DEF Elements
      <3>2. ASSUME NEW f \in Elements(up[w]), f.type = "complete"
            PROVE  f \in Dones /\ f = Done(Claim(f.review, f.run))
        BY <3>1, <3>2, Kinds
      <3>3. Done(c).type = "complete" /\ Done(c).review = r /\ Done(c).run = k
        BY <2>1 DEF Done
      <3> QED
        BY <2>1, <3>2, <3>3 DEF Completions, Tells
    <2>3. c \in Pending <=> c \in Held \/ c \in locals
             \/ \E w \in Workers : Sent(w, c) \/ Runs(w, c) \/ Tells(w, c)
      BY <2>1 DEF Pending, Out
    <2> QED
      BY <2>1, <2>2, <2>3 DEF Sent, Runs, Claim
  <1> QED
    BY <1>1 DEF ReportsPending, ReportedIn, Reports

LEMMA MeaningKept ==
    ASSUME IInv, IInv'
    PROVE  /\ Reports = [r \in Reviews |-> ReportedIn(Pending, r)]
           /\ Reports' = [r \in Reviews |-> ReportedIn(Pending, r)']
  <1>1. Shape /\ Shape'
    BY DEF IInv
  <1>2. ReportsPending /\ ReportsPending'
    BY <1>1, Meaning, PTL
  <1> QED
    BY <1>2 DEF ReportsPending

\* Whose run a claim is tells the local ones from the rest.
LEMMA WhosePending ==
    ASSUME IInv, NEW c \in Pending
    PROVE  /\ c \in Claims /\ c.review \in Reviews /\ c.run \in RunsOf(c.review)
           /\ c \in locals <=> runs[c.review][c.run].worker = Local
  <1>1. CASE c \in locals
    <2>1. c \in Claims /\ InProgress(c)
      BY <1>1 DEF IInv, Shape, Home
    <2>2. /\ row[c.review].status = "reviewing" /\ row[c.review].worker = Local
          /\ c.run = Len(runs[c.review]) /\ c.review \in Reviews
      BY <2>1, ClaimFacts DEF InProgress, Bound
    <2> QED
      BY <1>1, <2>1, <2>2, CurrentIsNewest DEF IInv, RunsOf
  <1>2. CASE c \notin locals
    <2>1. PICK w \in Workers : c \in Claims /\ Unpublished(w, c)
      <3>1. CASE c \in Held
        <4>1. sched.worker \in Workers /\ c \in Claims
          BY <3>1, Stand DEF Held, Claims, IInv, Holding
        <4> QED
          BY <3>1, <4>1 DEF IInv, Home
      <3>2. CASE c \notin Held
        BY <1>2, <3>2 DEF Pending, IInv, Home, Out
      <3> QED
        BY <3>1, <3>2
    <2>2. c.review \in Reviews /\ c.run \in Nat \ {0} /\ Len(runs[c.review]) \in Nat
      BY <2>1, ClaimFacts, RunFacts DEF IInv
    <2> QED
      BY <1>2, <2>1, <2>2, LocalAssumption DEF Unpublished, RunsOf
  <1> QED
    BY <1>1, <1>2

LEMMA LosesImplements ==
    ASSUME IInv, IInv', Loses
    PROVE  \E lost \in SUBSET Life!RemoteReports : Life!LoseReports(lost)
  <1>1. /\ Reports = [r \in Reviews |-> ReportedIn(Pending, r)]
        /\ Reports' = [r \in Reviews |-> ReportedIn(Pending, r)']
    BY MeaningKept
  <1> DEFINE lost == {p \in Life!RemoteReports : p[2] \notin Reports'[p[1]]}
  <1>2. runs' = runs /\ row' = row /\ mode' = mode /\ torn' = torn
    BY DEF Loses, tables
  <1>3. ASSUME NEW r \in Reviews
        PROVE  Reports'[r] = {k \in Reports[r] : <<r, k>> \notin lost}
    <2>1. /\ Reports[r] = {k \in RunsOf(r) : Claim(r, k) \in Pending}
          /\ Reports'[r] = {k \in RunsOf(r) : Claim(r, k) \in Pending'}
      BY <1>1, <1>2 DEF ReportedIn, RunsOf, Claim
    <2>2. Reports'[r] \subseteq Reports[r]
      BY <2>1 DEF Loses
    <2>3. ASSUME NEW k \in Reports[r], k \notin Reports'[r] PROVE <<r, k>> \in lost
      <3>1. Claim(r, k) \in Pending /\ Claim(r, k) \notin Pending' /\ k \in Nat \ {0}
        BY <2>1, <2>3 DEF RunsOf
      <3>2. PICK c \in Pending : c = Claim(r, k) /\ c.review = r /\ c.run = k
        BY <3>1, ClaimFacts
      <3>3. c \notin locals
        BY <3>1, <3>2 DEF Loses, Pending
      <3>4. runs[r][k].worker # Local
        BY <3>2, <3>3, WhosePending
      <3>5. <<r, k>> \in Life!RemoteReports
        BY <2>3, <3>4 DEF Life!RemoteReports
      <3> QED
        BY <2>3, <3>5
    <2>4. ASSUME NEW k \in Reports'[r] PROVE <<r, k>> \notin lost
      BY <2>4
    <2> HIDE DEF lost
    <2> QED
      BY <2>2, <2>3, <2>4
  <1>4. lost \in SUBSET Life!RemoteReports
    OBVIOUS
  <1> HIDE DEF lost
  <1>5. Reports' = Life!Without(lost)
    BY <1>1, <1>3 DEF Life!Without
  <1>6. PICK l \in SUBSET Life!RemoteReports : l = lost
    BY <1>4
  <1> QED
    BY <1>2, <1>5, <1>6 DEF Life!LoseReports

LEMMA RestartImplements ==
    ASSUME IInv, IInv', Restart
    PROVE  Life!Restart
  <1>1. /\ Reports = [r \in Reviews |-> ReportedIn(Pending, r)]
        /\ Reports' = [r \in Reviews |-> ReportedIn(Pending, r)']
    BY MeaningKept
  <1>2. runs' = runs /\ row' = row /\ mode' = mode /\ torn' = torn /\ mode = "distributed"
        /\ row \in [Reviews -> Life!Row] /\ runs \in [Reviews -> Seq(Life!Run)]
    BY DEF Restart, tables, IInv, Rows
  <1>3. row' = Life!Recovered(row) /\ runs' = Life!RecoveredRuns(row)
    BY <1>2 DEF Life!Recovered, Life!RecoveredRuns
  <1> DEFINE lost == {p \in Life!RemoteReports : p[2] \notin Reports'[p[1]]}
  <1>4. Pending' \subseteq Pending /\ Pending' \cap locals = {}
    <2>1. Held' = {} /\ locals' = {}
      BY DEF Restart, Held, Idle
    <2>2. ASSUME NEW w \in Workers, NEW c \in Out(w)' PROVE c \in Pending /\ c \notin locals
      <3>1. c \in Claims /\ Runs(w, c)
        BY <2>2, NothingSent DEF Restart, Out, Sent, Tells, Runs, Executing
      <3>2. c \in Out(w) /\ Unpublished(w, c)
        BY <3>1 DEF Out, IInv, Home
      <3> QED
        BY <3>2, LocalAssumption, WhosePending DEF Pending, Unpublished
    <2> QED
      BY <2>1, <2>2 DEF Pending
  <1>5. ASSUME NEW r \in Reviews
        PROVE  Reports'[r] = {k \in Reports[r] : runs[r][k].worker # Local}
                             \cap {k \in Reports[r] : <<r, k>> \notin lost}
    <2>1. /\ Reports[r] = {k \in RunsOf(r) : Claim(r, k) \in Pending}
          /\ Reports'[r] = {k \in RunsOf(r) : Claim(r, k) \in Pending'}
      BY <1>1, <1>2 DEF ReportedIn, RunsOf, Claim
    <2>2. ASSUME NEW k \in Reports'[r]
          PROVE  k \in Reports[r] /\ runs[r][k].worker # Local /\ <<r, k>> \notin lost
      <3>1. k \in RunsOf(r) /\ Claim(r, k) \in Pending' /\ k \in Nat \ {0}
        BY <2>1, <2>2 DEF RunsOf
      <3>2. PICK c \in Pending : c = Claim(r, k) /\ c.review = r /\ c.run = k /\ c \notin locals
        BY <1>4, <3>1, ClaimFacts
      <3> QED
        BY <2>1, <2>2, <3>1, <3>2, WhosePending
    <2>3. ASSUME NEW k \in Reports[r], k \notin Reports'[r], runs[r][k].worker # Local
          PROVE  <<r, k>> \in lost
      <3>1. <<r, k>> \in Life!RemoteReports
        BY <2>3 DEF Life!RemoteReports
      <3> QED
        BY <2>3, <3>1
    <2> HIDE DEF lost
    <2> QED
      BY <2>2, <2>3
  <1>6. lost \in SUBSET Life!RemoteReports
    OBVIOUS
  <1> HIDE DEF lost
  <1>7. Reports' = [r \in Reviews |-> Life!SurvivingReports[r] \cap Life!Without(lost)[r]]
    BY <1>1, <1>5 DEF Life!SurvivingReports, Life!Without
  <1>8. PICK l \in SUBSET Life!RemoteReports : l = lost
    BY <1>6
  <1> QED
    BY <1>2, <1>3, <1>7, <1>8 DEF Life!Restart, Life!RestartWith

\* Nothing about the reports changes when no claim does and no run is added.
LEMMA SamePending ==
    ASSUME IInv, IInv', Pending' = Pending, \A r \in Reviews : Len(runs'[r]) = Len(runs[r])
    PROVE  Reports' = Reports
  BY MeaningKept DEF ReportedIn, RunsOf, Claim

LEMMA RequestImplements ==
    ASSUME IInv, NEW r \in Reviews, Request(r)
    PROVE  Life!Submit(r) \/ Life!Retry(r)
  <1>1. Reports' = Reports
    BY DEF Request, hub, channel, worker, pool, Reports, Held, RunsOf, Executing, Completions
  <1>2. UNCHANGED <<mode, runs, torn>> /\ row' = [row EXCEPT ![r] = Life!Requeued(r)]
        /\ row[r].status \in {"absent", "succeeded", "failed"}
    BY DEF Request
  <1> QED
    BY <1>1, <1>2 DEF Life!Submit, Life!Retry, Life!Finished

LEMMA RequeueImplements ==
    ASSUME IInv, IInv', NEW r \in Reviews, NEW w \in Workers, RequeueIfBound(r, w),
           UNCHANGED <<mode, torn, locals>>, Pending' = Pending
    PROVE  Life!Next
  <1>1. CASE Bound(r, w)
    <2>1. Requeue(r) /\ row[r].status = "reviewing" /\ row[r].worker = w
      BY <1>1 DEF RequeueIfBound, Bound
    <2>2. Frees(r, 0)
      BY <2>1, RequeueEffect DEF IInv
    <2>3. \A q \in Reviews : Len(runs'[q]) = Len(runs[q])
      BY <2>2 DEF Frees
    <2>4. Reports' = Reports
      BY <2>3, SamePending
    <2>5. Life!RequeueForOrphan(r, w)
      BY <2>1, <2>4 DEF Life!RequeueForOrphan, Requeue
    <2> QED
      BY <2>5 DEF Life!Next, Life!Operation
  <1>2. CASE ~Bound(r, w)
    <2>1. Loses
      BY <1>2 DEF RequeueIfBound, Loses, tables
    <2> QED
      BY <2>1, LosesImplements DEF Life!Next
  <1> QED
    BY <1>1, <1>2

LEMMA StartImplements ==
    ASSUME IInv, IInv', NEW r \in Reviews, NEW w \in Workers \cup {Local},
           row[r].status = "pending", Len(runs[r]) < MaxRuns,
           row' = [row EXCEPT ![r] = Life!Assigned(r, w)],
           runs' = [runs EXCEPT ![r] = Append(@, Life!NewRun(r, w))],
           UNCHANGED <<mode, torn>>,
           NEW c \in Claims, c = Claim(r, Len(runs[r]) + 1), Pending' = Pending \cup {c}
    PROVE  Life!Start(r, w)
  <1>1. Begins(r, w)
    BY StartEffect DEF IInv
  <1>2. /\ Reports = [q \in Reviews |-> ReportedIn(Pending, q)]
        /\ Reports' = [q \in Reviews |-> ReportedIn(Pending, q)']
    BY MeaningKept
  <1>3. c.review = r /\ c.run = Len(runs[r]) + 1 /\ Len(runs[r]) \in Nat
    BY RunFacts DEF Claim, IInv
  <1>4. ASSUME NEW q \in Reviews, q # r PROVE Reports'[q] = Reports[q]
    <2>1. RunsOf(q)' = RunsOf(q)
      BY <1>1, <1>4 DEF Begins, RunsOf
    <2>2. \A k \in RunsOf(q) : Claim(q, k) # c
      BY <1>3, <1>4 DEF Claim
    <2> QED
      BY <1>2, <2>1, <2>2 DEF ReportedIn, Claim
  <1>5. Reports'[r] = Reports[r] \cup {Len(runs[r]) + 1}
    <2>1. RunsOf(r)' = RunsOf(r) \cup {Len(runs[r]) + 1}
      BY <1>1, <1>3 DEF Begins, RunsOf
    <2>2. Reports[r] = {k \in RunsOf(r) : Claim(r, k) \in Pending}
      BY <1>2 DEF ReportedIn
    <2>3. Reports'[r] = {k \in RunsOf(r)' : Claim(r, k) \in Pending'}
      BY <1>2 DEF ReportedIn, Claim
    <2>4. \A k \in RunsOf(r) : Claim(r, k) # c
      BY <1>3 DEF Claim, RunsOf
    <2> QED
      BY <2>1, <2>2, <2>3, <2>4
  <1>6. Reports' = [Reports EXCEPT ![r] = Reports[r] \cup {Len(runs[r]) + 1}]
    BY <1>2, <1>4, <1>5
  <1> QED
    BY <1>6 DEF Life!Start, Life!Latest

LEMMA SettledImplements ==
    ASSUME IInv, IInv', NEW r \in Reviews, NEW k \in RunsOf(r),
           NEW c \in Pending, c = Claim(r, k), Pending' = Pending \ {c},
           \A q \in Reviews : Len(runs'[q]) = Len(runs[q])
    PROVE  k \in Reports[r] /\ Reports' = [Reports EXCEPT ![r] = Reports[r] \ {k}]
  <1>1. /\ Reports = [q \in Reviews |-> ReportedIn(Pending, q)]
        /\ Reports' = [q \in Reviews |-> ReportedIn(Pending, q)']
    BY MeaningKept
  <1>2. ASSUME NEW q \in Reviews
        PROVE  /\ Reports[q] = {i \in RunsOf(q) : Claim(q, i) \in Pending}
               /\ Reports'[q] = {i \in RunsOf(q) : Claim(q, i) \in Pending'}
    BY <1>1 DEF ReportedIn, RunsOf, Claim
  <1>3. c.review = r /\ c.run = k
    BY DEF Claim
  <1>4. \A q \in Reviews : \A i \in RunsOf(q) : Claim(q, i) = c <=> q = r /\ i = k
    BY <1>3 DEF Claim
  <1>5. \A q \in Reviews : Reports'[q] = IF q = r THEN Reports[r] \ {k} ELSE Reports[q]
    BY <1>2, <1>4
  <1> QED
    BY <1>1, <1>2, <1>5

\* A review the scheduler has picked is nobody's yet, and may have a further run.
PickedFits ==
    sched.pc = "picked" =>
        /\ row[sched.review].status = "pending" => Len(runs[sched.review]) < MaxRuns
        /\ \A w \in Workers : ~Bound(sched.review, w)

\* What a step is to the lifecycle, and leaves to the scheduler.
Simulates == Life!Next /\ PickedFits'

LEMMA QuietSimulates ==
    ASSUME IInv, IInv', PickedFits, Loses, sched' = sched \/ sched'.pc # "picked"
    PROVE  Simulates
  <1>1. row' = row /\ runs' = runs
    BY DEF Loses, tables
  <1>2. PickedFits'
    BY <1>1 DEF PickedFits, Bound
  <1> QED
    BY <1>2, LosesImplements DEF Simulates, Life!Next

LEMMA RequeueSimulates ==
    ASSUME IInv, IInv', PickedFits, NEW r \in Reviews, NEW w \in Workers, RequeueIfBound(r, w),
           UNCHANGED <<mode, torn, locals>>, Pending' = Pending,
           sched' = sched \/ sched'.pc # "picked"
    PROVE  Simulates
  <1>1. ASSUME sched.pc = "picked" PROVE SameReview(sched.review)
    <2>1. sched.review \in Reviews
      BY <1>1, Stand DEF IInv
    <2>2. CASE Bound(r, w)
      <3>1. sched.review # r
        BY <1>1, <2>2 DEF PickedFits
      <3> QED
        BY <2>1, <3>1, RequeueIfBoundEffect
    <2>3. CASE ~Bound(r, w)
      BY <2>3 DEF RequeueIfBound, SameReview
    <2> QED
      BY <2>2, <2>3
  <1>2. PickedFits'
    BY <1>1 DEF PickedFits, SameReview, Bound
  <1> QED
    BY <1>2, RequeueImplements DEF Simulates

LEMMA RequestSimulates ==
    ASSUME IInv, IInv', PickedFits, NEW r \in Reviews, Request(r)
    PROVE  Simulates
  <1>1. Life!Next
    BY RequestImplements DEF Life!Next, Life!Operation
  <1>2. /\ sched' = sched /\ runs' = runs /\ Len(runs[r]) < MaxRuns
        /\ \A q \in Reviews \ {r} : row'[q] = row[q]
        /\ \A w \in Workers : ~Bound(r, w)'
    BY RequestEffect DEF Request, Frees, IInv
  <1>3. sched.pc = "picked" => sched.review \in Reviews
    BY Stand DEF IInv
  <1>4. PickedFits'
    BY <1>2, <1>3 DEF PickedFits, Bound
  <1> QED
    BY <1>1, <1>4 DEF Simulates

LEMMA SchedulerSimulates ==
    ASSUME IInv, IInv', PickedFits, Scheduler
    PROVE  Simulates
  <1>1. ASSUME NEW r \in Reviews, NEW w \in Workers, Pick(r, w) PROVE Simulates
    <2>1. /\ UNCHANGED <<tables, up, down, jobs, locals>> /\ row[r].status = "pending"
          /\ sched' = [pc |-> "picked", review |-> r, worker |-> w] /\ Len(runs[r]) < MaxRuns
          /\ sched = Idle
      BY <1>1 DEF Pick, channel, worker, pool
    <2>2. Held = {} /\ Held' = {}
      BY <2>1 DEF Held, Idle
    <2>3. Loses
      BY <2>1, <2>2, PendingKept
    <2>4. PickedFits'
      BY <2>1 DEF PickedFits, Bound, tables
    <2> QED
      BY <2>3, <2>4, LosesImplements DEF Simulates, Life!Next
  <1>2. ASSUME NEW r \in Reviews, NEW w \in Workers, RequeueOffline(r, w) PROVE Simulates
    <2>1. /\ UNCHANGED <<up, down, jobs, locals, mode, torn>> /\ sched' = sched
          /\ RequeueIfBound(r, w)
      BY <1>2 DEF RequeueOffline, RequeueIfBound, channel, worker, pool
    <2>2. Pending' = Pending
      BY <2>1, PendingKept DEF Held
    <2> QED
      BY <2>1, <2>2, RequeueSimulates
  <1>3. CASE StartRemote
    <2>1. PICK r \in Reviews, w \in Workers :
             /\ r = sched.review /\ w = sched.worker /\ sched.pc = "picked"
      BY <1>3, Stand DEF IInv, StartRemote
    <2>2. UNCHANGED <<up, down, jobs, locals, mode, torn>> /\ Held = {}
      BY <1>3, <2>1 DEF StartRemote, channel, worker, pool, Held
    <2>3. PickedFits'
      BY <1>3 DEF StartRemote, PickedFits, Idle
    <2>4. CASE row[r].status = "pending"
      <3>1. /\ row' = [row EXCEPT ![r] = Life!Assigned(r, w)]
            /\ runs' = [runs EXCEPT ![r] = Append(@, Life!NewRun(r, w))]
            /\ sched' = [pc |-> "started", review |-> r, worker |-> w, run |-> Len(runs[r]) + 1]
        BY <1>3, <2>1, <2>4 DEF StartRemote
      <3>2. PICK c \in Claims : c = Claim(r, Len(runs[r]) + 1)
        <4>1. Begins(r, w)
          BY <2>2, <2>4, <3>1, StartEffect DEF IInv
        <4> QED
          BY <4>1, BeginsKeep DEF IInv
      <3>3. Held' = {c}
        BY <3>1, <3>2 DEF Held, Claim
      <3>4. Pending' = Pending \cup {c}
        BY <2>2, <3>3, PendingKept DEF Pending
      <3>5. Life!Start(r, w)
        BY <2>1, <2>2, <2>4, <3>1, <3>2, <3>4, StartImplements DEF PickedFits
      <3>6. Life!StartRemote(r, w)
        BY <3>5 DEF Life!StartRemote, IInv, Rows
      <3> QED
        BY <2>3, <3>6 DEF Simulates, Life!Next, Life!Operation
    <2>5. CASE row[r].status # "pending"
      <3>1. sched' = Idle /\ UNCHANGED tables /\ Held' = {} /\ sched'.pc # "picked"
        BY <1>3, <2>1, <2>2, <2>5 DEF StartRemote, tables, Held, Idle
      <3>2. Loses
        BY <2>2, <3>1, PendingKept
      <3> QED
        BY <3>1, <3>2, QuietSimulates
    <2> QED
      BY <2>4, <2>5
  <1>4. CASE AddInFlight \/ SendFails
    <2>1. UNCHANGED <<tables, up, down, jobs, locals>>
      BY <1>4 DEF AddInFlight, SendFails, channel, worker, pool
    <2>2. Held' \subseteq Held /\ sched'.pc # "picked"
      <3>1. PICK pc \in Holding, r \in Reviews, w \in Workers, k \in Nat \ {0} :
               sched = [pc |-> pc, review |-> r, worker |-> w, run |-> k] /\ pc \in {"started", "added"}
        BY <1>4, Stand DEF IInv, AddInFlight, SendFails, Holding
      <3> QED
        BY <1>4, <3>1 DEF AddInFlight, SendFails, Held
    <2> QED
      BY <2>1, <2>2, PendingKept, QuietSimulates
  <1>5. CASE SendClaim
    BY <1>5, SendClaimKeeps, QuietSimulates DEF SendClaim, Idle
  <1>6. CASE RequeueUnsent
    <2>1. PICK r \in Reviews, w \in Workers :
             r = sched.review /\ w = sched.worker /\ sched.pc = "failed"
      BY <1>6, Stand DEF IInv, RequeueUnsent, Holding
    <2>2. /\ UNCHANGED <<up, down, jobs, locals, mode, torn>> /\ sched' = Idle
          /\ RequeueIfBound(r, w) /\ sched'.pc # "picked"
      BY <1>6, <2>1 DEF RequeueUnsent, channel, worker, pool, Idle
    <2>3. Held' = Held
      BY <2>1, <2>2 DEF Held, Idle
    <2> QED
      BY <2>2, <2>3, PendingKept, RequeueSimulates
  <1>7. ASSUME NEW w \in Workers, BackoffEnds(w) PROVE Simulates
    <2>1. UNCHANGED <<tables, sched, up, down, jobs, locals>>
      BY <1>7 DEF BackoffEnds, channel, worker, pool
    <2> QED
      BY <2>1, PendingKept, QuietSimulates DEF Held
  <1> QED
    BY <1>1, <1>2, <1>3, <1>4, <1>5, <1>6, <1>7 DEF Scheduler

LEMMA LocalPoolSimulates ==
    ASSUME IInv, IInv', PickedFits, LocalPool
    PROVE  Simulates
  <1>1. PICK r \in Reviews : \/ EnqueueLocal(r)
                             \/ StartLocal(r)
                             \/ \E k \in RunsOf(r), ok \in BOOLEAN : FinishLocal(r, k, ok)
    BY DEF LocalPool
  <1>2. sched.pc = "picked" => sched.review \in Reviews
    BY Stand DEF IInv
  <1>3. CASE EnqueueLocal(r)
    <2>1. UNCHANGED <<tables, sched, up, down, jobs, locals>>
      BY <1>3 DEF EnqueueLocal, channel, worker
    <2> QED
      BY <2>1, PendingKept, QuietSimulates DEF Held
  <1>4. CASE StartLocal(r)
    <2>1. UNCHANGED <<sched, up, down, jobs, mode, torn>>
      BY <1>4 DEF StartLocal, channel, worker
    <2>2. CASE row[r].status = "pending"
      <3>1. /\ row' = [row EXCEPT ![r] = Life!Assigned(r, Local)]
            /\ runs' = [runs EXCEPT ![r] = Append(@, Life!NewRun(r, Local))]
            /\ locals' = locals \cup {Claim(r, Len(runs[r]) + 1)}
            /\ Len(runs[r]) < MaxRuns
        BY <1>4, <2>2 DEF StartLocal, Claim
      <3>2. Begins(r, Local) /\ Bound(r, Local)'
        BY <2>1, <2>2, <3>1, StartEffect DEF IInv
      <3>3. PICK c \in Claims : c = Claim(r, Len(runs[r]) + 1)
        BY <3>2, BeginsKeep DEF IInv
      <3>4. Pending' = Pending \cup {c}
        BY <2>1, <3>1, <3>3, PendingKept DEF Pending, Held
      <3>5. Life!StartLocal(r)
        BY <2>1, <2>2, <3>1, <3>3, <3>4, StartImplements DEF Life!StartLocal
      <3>6. PickedFits'
        BY <1>2, <2>1, <3>2, LocalAssumption DEF PickedFits, Begins, Bound
      <3> QED
        BY <3>5, <3>6 DEF Simulates, Life!Next, Life!Operation
    <2>3. CASE row[r].status # "pending"
      <3>1. UNCHANGED <<tables, sched, up, down, jobs, locals>>
        BY <1>4, <2>1, <2>3 DEF StartLocal, tables
      <3> QED
        BY <3>1, PendingKept, QuietSimulates DEF Held
    <2> QED
      BY <2>2, <2>3
  <1>5. ASSUME NEW k \in RunsOf(r), NEW ok \in BOOLEAN, FinishLocal(r, k, ok) PROVE Simulates
    <2>1. UNCHANGED <<sched, mode, torn>>
      BY <1>5 DEF FinishLocal
    <2>2. PICK n \in RunsOf(r) :
             /\ Life!IsCurrent(r, n) /\ runs[r][n].worker = Local
             /\ Life!Publish(r, n, Life!Outcome(r, n, ok), row[r].session)
      BY <1>5 DEF FinishLocal
    <2>3. Frees(r, n)
      BY <2>1, <2>2, PublishEffect DEF IInv, RunsOf
    <2>4. PICK c \in Pending : c = Claim(r, k) /\ c \in locals /\ Pending' = Pending \ {c}
      BY <1>5, FinishLocalKeeps DEF FinishLocal, Claim
    <2>5. k \in Reports[r] /\ Reports' = [Reports EXCEPT ![r] = Reports[r] \ {k}]
      BY <2>3, <2>4, SettledImplements DEF Frees
    <2>6. runs[r][k].worker = Local
      <3>1. c.review = r /\ c.run = k
        BY <2>4 DEF Claim
      <3> QED
        BY <2>4, <3>1, WhosePending
    <2>7. Life!FinishLocal(r, k, ok)
      <3>1. row[r].status = "reviewing" /\ row[r].worker = Local
        BY <1>5 DEF FinishLocal, Bound
      <3>2. n \in Life!Running(r)
        BY <2>2 DEF Life!IsCurrent
      <3> QED
        BY <2>1, <2>2, <2>5, <2>6, <3>1, <3>2 DEF Life!FinishLocal
    <2>8. Life!Next
      BY <2>5, <2>7 DEF Life!Next, Life!Operation
    <2>9. sched.pc = "picked" /\ sched.review = r => row'[r].status # "pending"
      <3>1. Life!Outcome(r, n, ok) # "pending"
        BY DEF Life!Outcome
      <3>2. row'[r].status = Life!Outcome(r, n, ok)
        <4>1. row[r] \in Life!Row /\ row \in [Reviews -> Life!Row]
          BY RunFacts DEF IInv, Rows
        <4>2. row' = [row EXCEPT ![r] = [row[r] EXCEPT !.status = Life!Outcome(r, n, ok),
                                                       !.session = row[r].session]]
          BY <2>2, <4>1 DEF Life!Publish
        <4> HIDE DEF Life!Outcome
        <4> QED
          BY <4>1, <4>2 DEF Life!Row
      <3> QED
        BY <3>1, <3>2
    <2>10. PickedFits'
      <3>1. ASSUME sched.pc = "picked", sched.review # r PROVE SameReview(sched.review)
        BY <1>2, <2>3, <3>1 DEF Frees, SameReview
      <3>2. \A w \in Workers : ~Bound(r, w)'
        BY <2>3 DEF Frees
      <3> QED
        BY <2>1, <2>9, <3>1, <3>2 DEF PickedFits, SameReview, Bound
    <2> QED
      BY <2>8, <2>10 DEF Simulates
  <1> QED
    BY <1>1, <1>3, <1>4, <1>5

LEMMA CompleteSimulates ==
    ASSUME IInv, IInv', PickedFits, NEW w \in Workers, NEW ok \in BOOLEAN, HandleComplete(w, ok)
    PROVE  Simulates
  <1>1. sched' = sched /\ mode' = mode /\ torn' = torn
    BY DEF HandleComplete
  <1>2. CASE ~Accepted(w, Head(up[w]))
    BY <1>1, <1>2, CompletionDropped, QuietSimulates
  <1>3. CASE Accepted(w, Head(up[w]))
    <2>1. PICK c \in Claims : /\ c = Claim(Head(up[w]).review, Head(up[w]).run)
                              /\ c \in Pending /\ Pending' = Pending \ {c}
      BY <1>3, CompletionAccepted
    <2>2. PICK r \in Reviews : \E k \in RunsOf(r) : c = Claim(r, k)
      BY <2>1, WhosePending, ClaimFacts
    <2>02. PICK k \in RunsOf(r) : c = Claim(r, k)
      BY <2>2
    <2>3. Head(up[w]).review = r /\ Head(up[w]).run = k
      BY <2>1, <2>02 DEF Claim
    <2>4. /\ runs[r][k].worker = w /\ Life!Accepts(r, k) /\ Life!IsCurrent(r, k)
          /\ Bound(r, w)
          /\ Life!Publish(r, k, Life!Outcome(r, k, ok), row[r].session)
      BY <1>3, <2>3 DEF HandleComplete, Accepted, Life!Accepts, Bound
    <2>5. Frees(r, k)
      BY <1>1, <2>4, PublishEffect DEF IInv, RunsOf
    <2>6. k \in Reports[r] /\ Reports' = [Reports EXCEPT ![r] = Reports[r] \ {k}]
      BY <2>1, <2>02, <2>5, SettledImplements DEF Frees
    <2>7. Life!CompleteRemoteRun(r, k, ok)
      <3>1. row[r].session \in Life!CapturedSession(r, k)
        BY DEF Life!CapturedSession
      <3> QED
        BY <1>1, <2>4, <2>6, <3>1, LocalAssumption DEF Life!CompleteRemoteRun
    <2>8. Life!Next
      BY <2>6, <2>7 DEF Life!Next, Life!Operation
    <2>9. ASSUME sched.pc = "picked" PROVE SameReview(sched.review)
      <3>1. sched.review \in Reviews /\ sched.review # r
        BY <2>4, <2>9, Stand DEF IInv, PickedFits
      <3> QED
        BY <2>5, <3>1 DEF Frees, SameReview
    <2>10. PickedFits'
      BY <1>1, <2>9 DEF PickedFits, SameReview, Bound
    <2> QED
      BY <2>8, <2>10 DEF Simulates
  <1> QED
    BY <1>2, <1>3

LEMMA ReadLoopSimulates ==
    ASSUME IInv, IInv', PickedFits, NEW w \in Workers, ReadLoop(w)
    PROVE  Simulates
  <1>1. CASE HandleHello(w)
    BY <1>1, HandleHelloKeeps, QuietSimulates DEF HandleHello
  <1>2. ASSUME NEW r \in Reviews, HelloRequeue(w, r) PROVE Simulates
    <2>1. UNCHANGED <<sched, up, down, jobs, locals, mode, torn>> /\ RequeueIfBound(r, w)
      BY <1>2 DEF HelloRequeue, channel, worker, pool
    <2> QED
      BY <2>1, PendingKept, RequeueSimulates DEF Held
  <1>3. CASE HandleBusy(w)
    <2>1. NextFrame(w, "busy") /\ Receive(w)
      BY <1>3 DEF HandleBusy
    <2>2. PICK r \in Reviews : r = Head(up[w]).review
      BY <2>1, FrameRead, Kinds
    <2>3. UNCHANGED <<sched, locals, mode, torn>> /\ RequeueIfBound(r, w)
      BY <1>3, <2>2 DEF HandleBusy, pool
    <2> QED
      BY <1>3, <2>3, HandleBusyKeeps, RequeueSimulates
  <1>4. CASE Heartbeat(w)
    <2>1. UNCHANGED <<tables, sched, up, down, jobs, locals>>
      BY <1>4 DEF Heartbeat, channel, worker, pool
    <2> QED
      BY <2>1, PendingKept, QuietSimulates DEF Held
  <1> QED
    BY <1>1, <1>2, <1>3, <1>4, CompleteSimulates DEF ReadLoop

LEMMA WorkersSimulate ==
    ASSUME IInv, IInv', PickedFits, NEW w \in Workers, WorkerStep(w) \/ Trouble(w)
    PROVE  Simulates
  <1>1. Loses
    BY WorkerStepKeeps, TroubleKeeps
  <1>2. sched' = sched
    <2>1. CASE WorkerStep(w)
      BY <2>1 DEF WorkerStep, Connect, ListJobs, SendHello, TakeClaim, FinishJob, RemoveJob
    <2>2. CASE Trouble(w)
      BY <2>2 DEF Trouble, Break, WorkerDies, Disconnect, LeaseExpires, HandlerStalls
    <2> QED
      BY <2>1, <2>2
  <1> QED
    BY <1>1, <1>2, QuietSimulates

LEMMA StepSimulates ==
    ASSUME IInv, IInv', PickedFits, [Next]_vars
    PROVE  [Life!Next]_(Life!vars) /\ PickedFits'
  <1>1. CASE \E r \in Reviews : Request(r)
    BY <1>1, RequestSimulates DEF Simulates
  <1>2. CASE Scheduler \/ LocalPool
    BY <1>2, SchedulerSimulates, LocalPoolSimulates DEF Simulates
  <1>3. CASE \E w \in Workers : WorkerStep(w) \/ ReadLoop(w) \/ Trouble(w)
    BY <1>3, ReadLoopSimulates, WorkersSimulate DEF Simulates
  <1>4. CASE Restart
    <2>1. PickedFits'
      BY <1>4 DEF Restart, PickedFits, Idle
    <2> QED
      BY <1>4, <2>1, RestartImplements DEF Life!Next
  <1>5. CASE UNCHANGED vars
    <2>1. UNCHANGED <<tables, sched, up, down, jobs, locals>>
      BY <1>5 DEF vars, channel, worker, pool
    <2> QED
      BY <2>1, PendingKept, QuietSimulates DEF Held, Simulates
  <1> QED
    BY <1>1, <1>2, <1>3, <1>4, <1>5 DEF Next

(* ImplementsLifecycle: whatever the scheduler, the hub, the connections   *)
(* and the workers do to the tables, for any number of them, is a step of  *)
(* the lifecycle; an executor that will yet report is a claim the          *)
(* scheduler holds, one on its way, a running job or a completion on its   *)
(* way.  So every theorem about the lifecycle holds of the whole server.   *)
THEOREM ImplementsLifecycleHolds == Spec => ImplementsLifecycle
  <1>1. Init => Life!Init /\ PickedFits
    <2> SUFFICES ASSUME Init PROVE Life!Init /\ PickedFits
      OBVIOUS
    <2>1. PickedFits
      BY DEF Init, PickedFits, Idle
    <2> QED
      BY <2>1 DEF Init
  <1>2. IInv /\ IInv' /\ PickedFits /\ [Next]_vars => [Life!Next]_(Life!vars) /\ PickedFits'
    BY StepSimulates
  <1> QED
    BY <1>1, <1>2, InvariantHolds, PTL DEF Spec, ImplementsLifecycle, Life!Spec
=============================================================================
