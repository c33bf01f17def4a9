------------------------ MODULE InlinePostingProofs ------------------------
(***************************************************************************)
(* What InlinePosting promises for any number of findings, attempts and runs, *)
(* and however often calls fail, answers are lost and the server stops.    *)
(***************************************************************************)
EXTENDS InlinePosting, FiniteSetTheorems, WellFoundedInduction, TLAPS

----------------------------------------------------------------------------
(* The inductive invariant: *)

Finding == [eligible: BOOLEAN, status: {"open", "addressed", "resolved"}, comment: BOOLEAN]

Stations == {"idle", "list", "post", "save", "mark", "record", "send"}

Standing == [at: Stations, auto: BOOLEAN, post: SUBSET Index, resolve: SUBSET Index,
             failed: BOOLEAN, read: Nat, number: Nat]

Shape ==
    /\ row \in [status: {"pending", "reviewing", "finished"}, posted: BOOLEAN, verdict: BOOLEAN]
    /\ run \in [number: Nat, local: BOOLEAN, stage: {"none", "starting", "running", "ended"}, posted: BOOLEAN]
    /\ findings \in Seq(Finding) /\ Len(findings) <= MaxFindings
    /\ github \in [Index -> Nat] /\ excused \in [Index -> Nat]
    /\ poster \in [Posters -> Standing]
    /\ results \in Nat /\ marked \in Nat

\* What a poster works on are findings that exist, each once; it has posted the
\* comment that it is about to remember, and marks only after no error.
Working(p) ==
    /\ poster[p].at \notin {"post", "save"} => Work(p) = {}
    /\ Work(p) \subseteq 1..Len(findings)
    /\ poster[p].post \cap poster[p].resolve = {}
    /\ poster[p].at = "save" => Min(Work(p)) \in poster[p].post
    /\ poster[p].at = "mark" => ~poster[p].failed
    /\ poster[p].read <= results

\* The posters that read finding i without a comment and are not done with it, and
\* those of them that may still create one.
Has(p, i)   == i \in poster[p].post
Owes(p, i)  == Has(p, i) /\ ~(poster[p].at = "save" /\ i = Min(Work(p)))
Having(i)   == {p \in Posters : Has(p, i)}
Owing(i)    == {p \in Posters : Owes(p, i)}

Bare(i) == i > Len(findings) \/ ~findings[i].comment

\* Comments made and still to come are one, and one for each excuse; while nobody
\* is at it, a finding without a remembered comment has none but those excused.
Accounted(i) ==
    /\ github[i] + Cardinality(Owing(i)) <= 1 + excused[i]
    /\ Bare(i) /\ Having(i) = {} => github[i] <= excused[i]

\* An attempt without an error, of which no newer result is there, has listed
\* whatever still wants a comment.
MissedNothing(p) ==
    poster[p].at \in {"post", "save", "mark"} /\ ~poster[p].failed /\ poster[p].read = results =>
        \A i \in 1..Len(findings) : Wants(findings[i]) => i \in poster[p].post

Marks == marked <= results /\ MarkedArePosted

\* The row that a starting run may write back has not been marked less than now.
Starting ==
    run.stage = "starting" => row.status = "reviewing" /\ run.local /\ (run.posted => row.posted)

Holder == lock = Free \/ (lock \in Posters /\ poster[lock].auto /\ poster[lock].at # "idle")

IInv ==
    /\ Shape /\ Starting /\ Holder /\ Marks
    /\ \A p \in Posters : Working(p) /\ MissedNothing(p)
    /\ \A i \in Index : Accounted(i)

----------------------------------------------------------------------------
(* What a poster is, and how a step may leave it. *)

LEMMA Posting ==
    ASSUME Shape, NEW p \in Posters
    PROVE  /\ poster[p] \in Standing
           /\ DOMAIN poster = Posters
           /\ Work(p) = poster[p].post \cup poster[p].resolve
  BY DEF Shape, Work

LEMMA IdleStands == Idle \in Standing /\ Idle.post = {} /\ Idle.resolve = {}
  BY DEF Idle, Standing, Stations

\* What the accounts of the comments read of a poster.
SameWork(q) == /\ poster'[q].post = poster[q].post /\ poster'[q].resolve = poster[q].resolve
               /\ poster'[q].at = poster[q].at

\* A poster that had nothing to do and has nothing to do.
Rests(q) == /\ poster[q].post = {} /\ poster'[q].post = {}
            /\ poster[q].at # "save" /\ poster'[q].at # "save"

LEMMA SameAccounts ==
    ASSUME NEW i, \A q \in Posters : SameWork(q) \/ Rests(q)
    PROVE  Having(i)' = Having(i) /\ Owing(i)' = Owing(i)
  <1>1. ASSUME NEW q \in Posters, SameWork(q) PROVE (Has(q, i)' <=> Has(q, i)) /\ (Owes(q, i)' <=> Owes(q, i))
    BY <1>1 DEF SameWork, Has, Owes, Work
  <1>2. ASSUME NEW q \in Posters, Rests(q) PROVE (Has(q, i)' <=> Has(q, i)) /\ (Owes(q, i)' <=> Owes(q, i))
    BY <1>2 DEF Rests, Has, Owes
  <1> QED
    BY <1>1, <1>2 DEF Having, Owing

LEMMA StillAccounted ==
    ASSUME NEW i \in Index, Accounted(i), github'[i] = github[i], excused'[i] = excused[i],
           Bare(i)' => Bare(i), Having(i)' = Having(i), Owing(i)' = Owing(i)
    PROVE  Accounted(i)'
  BY DEF Accounted

\* What a step wants of the findings and the results to leave the marks alone.
NoNewWants ==
    /\ results' = results
    /\ \A i \in 1..Len(findings)' : Wants(findings'[i]) => i \in 1..Len(findings) /\ Wants(findings[i])

LEMMA StillMissedNothing ==
    ASSUME NEW p, MissedNothing(p), NoNewWants, poster'[p] = poster[p]
    PROVE  MissedNothing(p)'
  BY DEF MissedNothing, NoNewWants

LEMMA StillMarks ==
    ASSUME Marks, NoNewWants, marked' = marked, row'.posted => row.posted
    PROVE  Marks'
  BY DEF Marks, MarkedArePosted, NoNewWants

LEMMA SameFindings ==
    ASSUME findings' = findings, results' = results
    PROVE  NoNewWants /\ \A i : Bare(i)' <=> Bare(i)
  BY DEF NoNewWants, Bare

\* One poster moves, with nothing in hand before and after.
LEMMA OneMoves ==
    ASSUME IInv, NEW p \in Posters, NEW new \in Standing,
           poster' = [poster EXCEPT ![p] = new],
           new.at \notin {"post", "save"}, new.post = {}, new.resolve = {}, new.read <= results,
           poster[p].post = {}, poster[p].at # "save",
           new.at = "mark" => ~new.failed /\ MissedNothing(p)',
           UNCHANGED <<findings, results, github, excused>>
    PROVE  /\ poster' \in [Posters -> Standing] /\ poster'[p] = new
           /\ \A q \in Posters \ {p} : poster'[q] = poster[q]
           /\ \A q \in Posters : Working(q)' /\ MissedNothing(q)'
           /\ \A i \in Index : Accounted(i)'
           /\ NoNewWants
  <1>1. poster' \in [Posters -> Standing] /\ poster'[p] = new /\ \A q \in Posters \ {p} : poster'[q] = poster[q]
    BY DEF IInv, Shape
  <1>2. NoNewWants /\ \A i : Bare(i)' <=> Bare(i)
    BY SameFindings
  <1>3. ASSUME NEW q \in Posters PROVE Working(q)' /\ MissedNothing(q)'
    <2>1. CASE q = p
      <3>1. Working(q)'
        BY <1>1, <2>1 DEF Working, Work
      <3>2. MissedNothing(q)'
        BY <1>1, <2>1 DEF MissedNothing
      <3> QED
        BY <3>1, <3>2
    <2>2. CASE q # p
      <3>1. poster'[q] = poster[q] /\ Working(q) /\ MissedNothing(q)
        BY <1>1, <2>2 DEF IInv
      <3>2. Working(q)'
        BY <3>1 DEF Working, Work
      <3> QED
        BY <3>1, <3>2, <1>2, StillMissedNothing
    <2> QED
      BY <2>1, <2>2
  <1>4. ASSUME NEW i \in Index PROVE Accounted(i)'
    <2>1. \A q \in Posters : SameWork(q) \/ Rests(q)
      BY <1>1 DEF SameWork, Rests
    <2>2. Having(i)' = Having(i) /\ Owing(i)' = Owing(i)
      BY <2>1, SameAccounts
    <2> QED
      BY <1>2, <2>2, StillAccounted DEF IInv
  <1> QED
    BY <1>1, <1>2, <1>3, <1>4
----------------------------------------------------------------------------
(* The review's runs. *)

\* Nobody posts, and the findings stay.
LEMMA NobodyMoves ==
    ASSUME IInv, UNCHANGED <<findings, results, github, excused, poster, lock>>
    PROVE  /\ \A q \in Posters : Working(q)' /\ MissedNothing(q)'
           /\ \A i \in Index : Accounted(i)'
           /\ NoNewWants /\ Holder'
  <1>1. NoNewWants /\ \A i : Bare(i)' <=> Bare(i)
    BY SameFindings
  <1>2. ASSUME NEW q \in Posters PROVE Working(q)' /\ MissedNothing(q)'
    <2>1. Working(q)'
      BY DEF IInv, Working, Work
    <2> QED
      BY <1>1, <2>1, StillMissedNothing DEF IInv
  <1>3. ASSUME NEW i \in Index PROVE Accounted(i)'
    <2>1. Having(i)' = Having(i) /\ Owing(i)' = Owing(i)
      BY SameAccounts DEF SameWork
    <2> QED
      BY <1>1, <2>1, StillAccounted DEF IInv
  <1> QED
    BY <1>1, <1>2, <1>3 DEF IInv, Holder

LEMMA StartKeeps == IInv /\ Start => IInv'
  <1> SUFFICES ASSUME IInv, Start PROVE IInv'
    OBVIOUS
  <1>1. UNCHANGED <<findings, results, github, excused, poster, lock, marked>>
    BY DEF Start, posting
  <1>0. PICK atServer \in BOOLEAN :
          run' = [number |-> run.number + 1, local |-> atServer,
                  stage |-> IF atServer THEN "starting" ELSE "running", posted |-> row.posted]
    BY DEF Start
  <1>2. Shape'
    <2>1. row.posted \in BOOLEAN /\ run.number + 1 \in Nat
      BY DEF IInv, Shape
    <2>2. run' \in [number: Nat, local: BOOLEAN, stage: {"none", "starting", "running", "ended"}, posted: BOOLEAN]
      BY <1>0, <2>1
    <2>3. row' \in [status: {"pending", "reviewing", "finished"}, posted: BOOLEAN, verdict: BOOLEAN]
      BY DEF Start, IInv, Shape
    <2> QED
      BY <1>1, <2>2, <2>3 DEF IInv, Shape
  <1>3. Starting' /\ row'.posted = row.posted
    BY DEF Start, Starting, IInv, Shape
  <1>4. Marks'
    BY <1>1, <1>3, NobodyMoves, StillMarks DEF IInv
  <1> QED
    BY <1>1, <1>2, <1>3, <1>4, NobodyMoves DEF IInv

LEMMA StorePRInfoKeeps == IInv /\ StorePRInfo => IInv'
  <1> SUFFICES ASSUME IInv, StorePRInfo PROVE IInv'
    OBVIOUS
  <1>1. UNCHANGED <<findings, results, github, excused, poster, lock, marked>>
    BY DEF StorePRInfo, posting
  <1>2. Shape'
    BY <1>1 DEF StorePRInfo, IInv, Shape
  <1>3. Starting' /\ (row'.posted => row.posted)
    BY DEF StorePRInfo, Starting, IInv, Shape
  <1>4. Marks'
    BY <1>1, <1>3, NobodyMoves, StillMarks DEF IInv
  <1> QED
    BY <1>1, <1>2, <1>3, <1>4, NobodyMoves DEF IInv

LEMMA RequeueKeeps == IInv /\ Requeue => IInv'
  <1> SUFFICES ASSUME IInv, Requeue PROVE IInv'
    OBVIOUS
  <1>1. UNCHANGED <<findings, results, github, excused, poster, lock, marked, run>>
    BY DEF Requeue, posting
  <1>2. Shape'
    BY <1>1 DEF Requeue, IInv, Shape
  <1>3. Starting' /\ row'.posted = row.posted
    BY <1>1 DEF Requeue, Starting, IInv, Shape
  <1>4. Marks'
    BY <1>1, <1>3, NobodyMoves, StillMarks DEF IInv
  <1> QED
    BY <1>1, <1>2, <1>3, <1>4, NobodyMoves DEF IInv

LEMMA RetryKeeps == IInv /\ Retry => IInv'
  <1> SUFFICES ASSUME IInv, Retry PROVE IInv'
    OBVIOUS
  <1>1. UNCHANGED <<findings, results, github, excused, poster, lock, marked, run>>
    BY DEF Retry, posting
  <1>2. Shape'
    BY <1>1 DEF Retry, IInv, Shape
  <1>3. Starting' /\ ~row'.posted
    BY <1>1 DEF Retry, Starting, IInv, Shape
  <1>4. Marks'
    BY <1>1, <1>3, NobodyMoves, StillMarks DEF IInv
  <1> QED
    BY <1>1, <1>2, <1>3, <1>4, NobodyMoves DEF IInv

\* A result keeps the comments of the findings there are, and adds some without.
LEMMA ResultKeepsComments ==
    ASSUME IInv, IngestRunResult
    PROVE  /\ findings' \in Seq(Finding)
           /\ Len(findings) <= Len(findings') /\ Len(findings') <= MaxFindings
           /\ \A i \in 1..Len(findings) : findings'[i].comment = findings[i].comment
  <1>1. PICK old \in [1..Len(findings) -> UNION {Updates(findings[i]) : i \in 1..Len(findings)}],
             k \in 0..(MaxFindings - Len(findings)) :
             /\ \A i \in 1..Len(findings) : old[i] \in Updates(findings[i])
             /\ \E more \in [1..k -> New] : findings' = old \o more
    BY DEF IngestRunResult
  <1>2. PICK more \in [1..k -> New] : findings' = old \o more
    BY <1>1
  <1>3. findings \in Seq(Finding) /\ Len(findings) \in Nat /\ MaxFindings \in Nat /\ Len(findings) <= MaxFindings
    BY BoundsAssumption DEF IInv, Shape
  <1>4. \A i \in 1..Len(findings) : old[i] \in Finding /\ old[i].comment = findings[i].comment
    <2> SUFFICES ASSUME NEW i \in 1..Len(findings)
                 PROVE  old[i] \in Finding /\ old[i].comment = findings[i].comment
      OBVIOUS
    <2>1. findings[i] \in Finding /\ old[i] \in Updates(findings[i])
      BY <1>1, <1>3
    <2> QED
      BY <2>1 DEF Updates, Finding
  <1>5. old \in Seq(Finding) /\ Len(old) = Len(findings)
    BY <1>3, <1>4
  <1>6. more \in Seq(Finding) /\ Len(more) = k
    <2>1. New \subseteq Finding
      BY DEF New, Finding
    <2> QED
      BY <1>2, <1>3, <2>1
  <1>7. /\ findings' \in Seq(Finding) /\ Len(findings') = Len(findings) + k
        /\ \A i \in 1..Len(findings) : findings'[i] = old[i]
    <2>1. old \o more \in Seq(Finding) /\ Len(old \o more) = Len(old) + Len(more)
      BY <1>5, <1>6
    <2>2. \A i \in 1..Len(old) : (old \o more)[i] = old[i]
      BY <1>5, <1>6
    <2> QED
      BY <1>2, <1>5, <1>6, <2>1, <2>2
  <1> QED
    BY <1>3, <1>4, <1>7

LEMMA IngestKeeps == IInv /\ IngestRunResult => IInv'
  <1> SUFFICES ASSUME IInv, IngestRunResult PROVE IInv'
    OBVIOUS
  <1>1. /\ findings' \in Seq(Finding)
        /\ Len(findings) <= Len(findings') /\ Len(findings') <= MaxFindings
        /\ \A i \in 1..Len(findings) : findings'[i].comment = findings[i].comment
    BY ResultKeepsComments
  <1>2. /\ UNCHANGED <<github, excused, poster, lock, marked, run>>
        /\ results' = results + 1 /\ results \in Nat
        /\ row' = [row EXCEPT !.verdict = TRUE]
        /\ Len(findings) \in Nat /\ Len(findings') \in Nat
    BY <1>1 DEF IngestRunResult, posting, IInv, Shape
  <1>3. Shape' /\ Starting' /\ Holder'
    <2>1. /\ row'.status = row.status /\ row'.posted = row.posted
          /\ row' \in [status: {"pending", "reviewing", "finished"}, posted: BOOLEAN, verdict: BOOLEAN]
      BY <1>2 DEF IInv, Shape
    <2>2. Shape'
      BY <1>1, <1>2, <2>1 DEF IInv, Shape
    <2>3. Starting' /\ Holder'
      BY <1>2, <2>1 DEF IInv, Starting, Holder
    <2> QED
      BY <2>2, <2>3
  <1>4. Marks'
    <2>1. marked \in Nat /\ marked <= results
      BY DEF IInv, Shape, Marks
    <2>2. marked' # results' /\ marked' <= results'
      BY <1>2, <2>1
    <2> QED
      BY <2>2 DEF Marks, MarkedArePosted
  <1>5. ASSUME NEW q \in Posters PROVE Working(q)' /\ MissedNothing(q)'
    <2>1. poster'[q] = poster[q] /\ Working(q) /\ poster[q].read \in Nat
      BY <1>2, Posting DEF IInv, Standing
    <2>2. Working(q)'
      BY <1>1, <1>2, <2>1 DEF Working, Work
    <2>3. poster'[q].read # results'
      BY <1>2, <2>1 DEF Working
    <2> QED
      BY <2>2, <2>3 DEF MissedNothing
  <1>6. ASSUME NEW i \in Index PROVE Accounted(i)'
    <2>1. Having(i)' = Having(i) /\ Owing(i)' = Owing(i)
      BY <1>2, SameAccounts DEF SameWork
    <2>2. Bare(i)' => Bare(i)
      BY <1>1, <1>2, BoundsAssumption DEF Bare, Index
    <2> QED
      BY <1>2, <2>1, <2>2, StillAccounted DEF IInv
  <1> QED
    BY <1>3, <1>4, <1>5, <1>6 DEF IInv

----------------------------------------------------------------------------
(* Who posts, and what comes after the findings. *)

\* Whoever has nothing to do has listed nothing.
LEMMA NothingInHand ==
    ASSUME IInv, NEW p \in Posters, Work(p) = {}
    PROVE  poster[p].post = {} /\ poster[p].resolve = {} /\ poster[p].at # "save"
  BY Posting DEF IInv, Working

LEMMA CompleteKeeps ==
    ASSUME IInv, NEW p \in Posters, Complete(p)
    PROVE  IInv'
  <1>1. /\ UNCHANGED <<findings, results, github, excused, marked>>
        /\ row' = [row EXCEPT !.status = "finished"] /\ run' = [run EXCEPT !.stage = "ended"]
        /\ poster[p].at = "idle" /\ lock = Free
    BY DEF Complete
  <1>2. Starting' /\ row'.posted = row.posted
    BY <1>1 DEF Starting, IInv, Shape
  <1>3. CASE UNCHANGED <<poster, lock>>
    <2>1. Shape'
      BY <1>1, <1>3 DEF IInv, Shape
    <2>2. Marks'
      BY <1>1, <1>2, <1>3, NobodyMoves, StillMarks DEF IInv
    <2> QED
      BY <1>1, <1>2, <1>3, <2>1, <2>2, NobodyMoves DEF IInv
  <1>4. CASE ~UNCHANGED <<poster, lock>>
    <2>1. PICK at \in {"list", "record"} :
             /\ poster' = [poster EXCEPT ![p] = [Idle EXCEPT !.at = at, !.auto = TRUE, !.number = run.number]]
             /\ lock' \in {Free, p}
      BY <1>4 DEF Complete, Begin
    <2> DEFINE new == [Idle EXCEPT !.at = at, !.auto = TRUE, !.number = run.number]
    <2>2. /\ new \in Standing /\ new.post = {} /\ new.resolve = {} /\ new.read <= results
          /\ new.at \notin {"post", "save", "mark", "idle"} /\ new.auto
      <3>1. run.number \in Nat /\ results \in Nat /\ Idle.read = 0
        BY DEF IInv, Shape, Idle
      <3>2. new \in Standing
        BY <3>1, IdleStands DEF Standing, Stations
      <3>3. new.post = Idle.post /\ new.resolve = Idle.resolve /\ new.read = Idle.read
            /\ new.at = at /\ new.auto
        BY IdleStands DEF Standing
      <3> QED
        BY <3>1, <3>2, <3>3, IdleStands
    <2>3. poster[p].post = {} /\ poster[p].at # "save"
      BY <1>1, NothingInHand DEF IInv, Working
    <2> HIDE DEF new
    <2>4. /\ poster' \in [Posters -> Standing] /\ poster'[p] = new
          /\ \A q \in Posters : Working(q)' /\ MissedNothing(q)'
          /\ \A i \in Index : Accounted(i)'
          /\ NoNewWants
      BY <1>1, <2>1, <2>2, <2>3, OneMoves DEF new
    <2>5. Shape'
      BY <1>1, <2>4 DEF IInv, Shape
    <2>6. Marks'
      BY <1>1, <1>2, <2>4, StillMarks DEF IInv
    <2>7. Holder'
      BY <2>1, <2>2, <2>4 DEF Holder
    <2> QED
      BY <1>2, <2>4, <2>5, <2>6, <2>7 DEF IInv
  <1> QED
    BY <1>3, <1>4

LEMMA PostCommentsKeeps ==
    ASSUME IInv, NEW p \in Posters, PostComments(p)
    PROVE  IInv'
  <1> DEFINE new == [Idle EXCEPT !.at = "list", !.auto = FALSE, !.number = run.number]
  <1>1. /\ UNCHANGED <<findings, results, github, excused, marked, row, run, lock>>
        /\ poster' = [poster EXCEPT ![p] = new] /\ poster[p].at = "idle"
    BY DEF PostComments, Begin
  <1>2. new \in Standing /\ new.post = {} /\ new.resolve = {} /\ new.read <= results /\ new.at = "list"
    <2>1. run.number \in Nat /\ results \in Nat /\ Idle.read = 0
      BY DEF IInv, Shape, Idle
    <2>2. new \in Standing
      BY <2>1, IdleStands DEF Standing, Stations
    <2>3. new.post = Idle.post /\ new.resolve = Idle.resolve /\ new.read = Idle.read /\ new.at = "list"
      BY IdleStands DEF Standing
    <2> QED
      BY <2>1, <2>2, <2>3, IdleStands
  <1>3. poster[p].post = {} /\ poster[p].at # "save"
    BY <1>1, NothingInHand DEF IInv, Working
  <1> HIDE DEF new
  <1>4. /\ poster' \in [Posters -> Standing]
        /\ \A q \in Posters \ {p} : poster'[q] = poster[q]
        /\ \A q \in Posters : Working(q)' /\ MissedNothing(q)'
        /\ \A i \in Index : Accounted(i)'
        /\ NoNewWants
    BY <1>1, <1>2, <1>3, OneMoves
  <1>5. Shape' /\ Starting'
    BY <1>1, <1>4 DEF IInv, Shape, Starting
  <1>6. Marks'
    BY <1>1, <1>4, StillMarks DEF IInv
  <1>7. Holder'
    <2>1. lock # p \/ lock = Free
      BY <1>1 DEF IInv, Holder
    <2> QED
      BY <1>1, <1>4, <2>1 DEF IInv, Holder
  <1> QED
    BY <1>4, <1>5, <1>6, <1>7 DEF IInv

\* A poster that goes on, to its next stage or to its end, whose attempt may have
\* set the mark.
MarkMoves(p) ==
    \/ row' = row /\ marked' = marked
    \/ /\ poster[p].at = "mark" /\ ~poster[p].failed
       /\ row' = [row EXCEPT !.posted = TRUE] /\ marked' = poster[p].read

GoesOn(p) ==
    /\ \E at \in {"mark", "record", "send"} :
          poster' = [poster EXCEPT ![p].at = at] /\ (at = "mark" => poster[p].at = "post" /\ ~poster[p].failed)
    /\ lock' = lock

Leaves(p) ==
    /\ poster' = [poster EXCEPT ![p] = Idle]
    /\ lock' = IF lock = p THEN Free ELSE lock

LEMMA NextStageKeeps ==
    ASSUME IInv, NEW p \in Posters, Work(p) = {},
           UNCHANGED <<findings, results, github, excused, run>>,
           MarkMoves(p), GoesOn(p) \/ Leaves(p)
    PROVE  IInv'
  <1>1. poster[p].post = {} /\ poster[p].resolve = {} /\ poster[p].at # "save"
    BY NothingInHand
  <1>2. /\ poster[p] \in Standing /\ results \in Nat /\ marked \in Nat /\ poster[p].read \in Nat
        /\ poster[p].read <= results /\ poster \in [Posters -> Standing]
    BY Posting DEF IInv, Shape, Working, Standing
  <1>3. PICK new \in Standing :
           /\ poster' = [poster EXCEPT ![p] = new]
           /\ new.at \notin {"post", "save"} /\ new.post = {} /\ new.resolve = {} /\ new.read <= results
           /\ new.at = "mark" => poster[p].at = "post" /\ ~poster[p].failed /\ new.failed = poster[p].failed /\ new.read = poster[p].read
           /\ lock' = (IF lock = p /\ new.at = "idle" THEN Free ELSE lock)
           /\ new.at # "idle" => new.auto = poster[p].auto
    <2>1. CASE GoesOn(p)
      <3>1. PICK at \in {"mark", "record", "send"} : /\ poster' = [poster EXCEPT ![p].at = at]
                                                     /\ at = "mark" => poster[p].at = "post" /\ ~poster[p].failed
                                                     /\ lock' = lock
        BY <2>1 DEF GoesOn
      <3> DEFINE new == [poster[p] EXCEPT !.at = at]
      <3>2. /\ new \in Standing /\ new.at = at /\ new.post = {} /\ new.resolve = {} /\ new.read = poster[p].read
            /\ new.failed = poster[p].failed /\ new.auto = poster[p].auto
        BY <1>1, <1>2 DEF Standing, Stations
      <3>3. poster' = [poster EXCEPT ![p] = new]
        BY <1>2, <3>1
      <3> HIDE DEF new
      <3> QED
        BY <1>2, <3>1, <3>2, <3>3
    <2>2. CASE Leaves(p)
      <3>1. Idle \in Standing /\ Idle.at = "idle" /\ Idle.post = {} /\ Idle.resolve = {} /\ Idle.read = 0
        BY IdleStands DEF Idle
      <3>2. Idle.read <= results /\ lock' = (IF lock = p /\ Idle.at = "idle" THEN Free ELSE lock)
        BY <1>2, <2>2, <3>1 DEF Leaves
      <3>3. poster' = [poster EXCEPT ![p] = Idle]
        BY <2>2 DEF Leaves
      <3> HIDE DEF Idle
      <3> QED
        BY <3>1, <3>2, <3>3
    <2> QED
      BY <2>1, <2>2
  <1>4. /\ poster' \in [Posters -> Standing] /\ poster'[p] = new
        /\ \A q \in Posters \ {p} : poster'[q] = poster[q]
    BY <1>2, <1>3
  <1>5. new.at = "mark" => MissedNothing(p)'
    <2>1. MissedNothing(p)
      BY DEF IInv
    <2>2. ASSUME new.at = "mark", ~new.failed, new.read = results PROVE \A i \in 1..Len(findings) : ~Wants(findings[i])
      BY <1>1, <1>3, <2>1, <2>2 DEF MissedNothing
    <2> QED
      BY <1>4, <2>2 DEF MissedNothing
  <1>6. /\ \A q \in Posters : Working(q)' /\ MissedNothing(q)'
        /\ \A i \in Index : Accounted(i)'
        /\ NoNewWants
    BY <1>1, <1>3, <1>5, OneMoves
  <1>7. Shape' /\ Starting'
    <2>1. row'.status = row.status /\ (row.posted => row'.posted) /\ marked' \in Nat
          /\ row' \in [status: {"pending", "reviewing", "finished"}, posted: BOOLEAN, verdict: BOOLEAN]
      BY <1>2 DEF IInv, Shape, MarkMoves
    <2> QED
      BY <1>4, <2>1 DEF IInv, Shape, Starting
  <1>8. Marks'
    <2>1. CASE row' = row /\ marked' = marked
      BY <1>6, <2>1, StillMarks DEF IInv
    <2>2. CASE marked' = poster[p].read /\ poster[p].at = "mark" /\ ~poster[p].failed
      <3>1. poster[p].read = results => \A i \in 1..Len(findings) : ~Wants(findings[i])
        BY <1>1, <2>2 DEF IInv, MissedNothing
      <3> QED
        BY <1>2, <2>2, <3>1 DEF Marks, MarkedArePosted
    <2> QED
      BY <2>1, <2>2 DEF MarkMoves
  <1>9. Holder'
    BY <1>3, <1>4 DEF IInv, Holder
  <1> QED
    BY <1>6, <1>7, <1>8, <1>9 DEF IInv

LEMMA EndingKeeps ==
    ASSUME IInv, NEW p \in Posters,
           PostPRReview(p) \/ SetCommentsPosted(p) \/ RecordNotice(p) \/ FinishNotice(p)
    PROVE  IInv'
  <1>1. poster \in [Posters -> Standing] /\ Working(p) /\ Holder /\ MissedNothing(p)
    BY DEF IInv, Shape
  \* A poster that came from PostComments has not got the lock.
  <1>2. ASSUME poster' = Ended(p), lock' = lock
        PROVE  GoesOn(p) \/ Leaves(p)
    <2>1. CASE poster[p].auto
      BY <1>2, <2>1 DEF Ended, GoesOn
    <2>2. CASE ~poster[p].auto
      <3>1. lock # p \/ lock = Free
        BY <1>1, <2>2 DEF Holder
      <3> QED
        BY <1>2, <2>2, <3>1 DEF Ended, Leaves
    <2> QED
      BY <2>1, <2>2
  <1>3. CASE PostPRReview(p)
    <2>1. /\ Work(p) = {} /\ poster[p].at = "post" /\ lock' = lock
          /\ UNCHANGED <<findings, results, github, excused, run, row, marked>>
          /\ \/ poster' = [poster EXCEPT ![p].at = "mark"] /\ ~poster[p].failed
             \/ poster' = Ended(p)
      BY <1>3 DEF PostPRReview, reviews, Whole
    <2>2. GoesOn(p) \/ Leaves(p)
      BY <1>2, <2>1 DEF GoesOn
    <2>3. MarkMoves(p)
      BY <2>1 DEF MarkMoves
    <2> QED
      BY <2>1, <2>2, <2>3, NextStageKeeps
  <1>4. CASE SetCommentsPosted(p)
    <2>1. /\ Work(p) = {} /\ poster[p].at = "mark" /\ ~poster[p].failed /\ lock' = lock
          /\ UNCHANGED <<findings, results, github, excused, run>>
          /\ poster' = Ended(p)
      BY <1>1, <1>4 DEF SetCommentsPosted, Working
    <2>2. GoesOn(p) \/ Leaves(p)
      BY <1>2, <2>1
    <2>3. MarkMoves(p)
      BY <1>4, <2>1 DEF SetCommentsPosted, MarkMoves
    <2> QED
      BY <2>1, <2>2, <2>3, NextStageKeeps
  <1>5. CASE RecordNotice(p)
    <2>1. /\ Work(p) = {} /\ UNCHANGED <<findings, results, github, excused, run>>
          /\ GoesOn(p) /\ MarkMoves(p)
      BY <1>1, <1>5 DEF RecordNotice, reviews, Working, GoesOn, MarkMoves
    <2> QED
      BY <2>1, NextStageKeeps
  <1>6. CASE FinishNotice(p)
    <2>1. /\ Work(p) = {} /\ UNCHANGED <<findings, results, github, excused, run>>
          /\ Leaves(p) /\ MarkMoves(p)
      BY <1>1, <1>6 DEF FinishNotice, reviews, Working, Leaves, MarkMoves
    <2> QED
      BY <2>1, NextStageKeeps
  <1> QED
    BY <1>3, <1>4, <1>5, <1>6
----------------------------------------------------------------------------
(* The findings, one after the other. *)

\* The posters at a finding can be counted.
LEMMA Counts ==
    ASSUME NEW i
    PROVE  /\ IsFiniteSet(Having(i)) /\ IsFiniteSet(Owing(i)) /\ Owing(i) \subseteq Having(i)
           /\ Cardinality(Having(i)) \in Nat /\ Cardinality(Owing(i)) \in Nat
           /\ Cardinality({}) = 0 /\ IsFiniteSet({})
  <1>1. Having(i) \subseteq Posters /\ Owing(i) \subseteq Having(i)
    BY DEF Having, Owing, Owes
  <1>2. IsFiniteSet(Having(i)) /\ IsFiniteSet(Owing(i))
    BY <1>1, FS_Subset, PostersAssumption
  <1> QED
    BY <1>1, <1>2, FS_CardinalityType, FS_EmptySet

LEMMA OnlyEmptyCountsNothing ==
    ASSUME NEW S, IsFiniteSet(S)
    PROVE  Cardinality(S) = 0 <=> S = {}
  BY FS_EmptySet

\* A poster that will not create a comment any more, of those at a finding.
LEMMA OneFewer ==
    ASSUME NEW i, NEW p \in Owing(i), Owing(i)' = Owing(i) \ {p}
    PROVE  /\ Cardinality(Owing(i)') = Cardinality(Owing(i)) - 1
           /\ Having(i) \ {p} = {} => Cardinality(Owing(i)) = 1
  <1>1. IsFiniteSet(Owing(i)) /\ Owing(i) \subseteq Having(i)
    BY Counts
  <1>2. Cardinality(Owing(i) \ {p}) = Cardinality(Owing(i)) - 1
    BY <1>1, FS_RemoveElement
  <1>3. ASSUME Having(i) \ {p} = {} PROVE Cardinality(Owing(i)) = 1
    <2>1. Owing(i) = {p}
      BY <1>1, <1>3
    <2> QED
      BY <2>1, FS_Singleton
  <1> QED
    BY <1>2, <1>3

\* What a step at finding i leaves of the others.
Elsewhere(i) ==
    /\ github' \in [Index -> Nat] /\ excused' \in [Index -> Nat]
    /\ \A j \in Index \ {i} : github'[j] = github[j] /\ excused'[j] = excused[j]
    /\ findings' \in Seq(Finding) /\ Len(findings') = Len(findings)
    /\ \A j \in 1..Len(findings) :
          /\ findings'[j].eligible = findings[j].eligible
          /\ findings'[j].comment = findings[j].comment \/ (j = i /\ findings'[j].comment)
    /\ UNCHANGED <<row, run, lock, results, marked>>

\* How a poster leaves finding i, or stays at it for the comment's id.
Handles(p, i, new) ==
    /\ poster[p].at = "post" \/ (poster[p].at = "save" /\ i = Min(Work(p)))
    /\ new.at = "post" \/ (new.at = "save" /\ i = Min(new.post \cup new.resolve) /\ i \in new.post)
    /\ new.post \subseteq poster[p].post /\ poster[p].post \ {i} \subseteq new.post
    /\ new.resolve \subseteq poster[p].resolve
    /\ new.read = poster[p].read /\ new.auto = poster[p].auto
    /\ poster[p].failed => new.failed
    /\ new.failed \/ i \in new.post \/ i \notin poster[p].post \/ findings'[i].comment

LEMMA HandlingKeeps ==
    ASSUME IInv, NEW p \in Posters, NEW i \in Index, NEW new \in Standing,
           poster' = [poster EXCEPT ![p] = new], Handles(p, i, new), Elsewhere(i), Accounted(i)'
    PROVE  IInv'
  <1>1. /\ poster' \in [Posters -> Standing] /\ poster'[p] = new
        /\ \A q \in Posters \ {p} : poster'[q] = poster[q]
    BY DEF IInv, Shape
  <1>2. Shape' /\ Starting'
    BY <1>1 DEF IInv, Shape, Starting, Elsewhere
  <1>3. NoNewWants /\ \A j \in Index : Bare(j)' => Bare(j)
    <2>1. Len(findings) \in Nat /\ Len(findings') = Len(findings)
      BY DEF IInv, Shape, Elsewhere
    <2>2. NoNewWants
      BY <2>1 DEF NoNewWants, Wants, Elsewhere
    <2>3. ASSUME NEW j \in Index, Bare(j)' PROVE Bare(j)
      <3>1. CASE j > Len(findings)
        BY <3>1 DEF Bare
      <3>2. CASE ~(j > Len(findings))
        <4>1. j \in 1..Len(findings) /\ ~findings'[j].comment
          BY <2>1, <2>3, <3>2, BoundsAssumption DEF Bare, Index
        <4>2. findings'[j].comment = findings[j].comment
          BY <4>1 DEF Elsewhere
        <4> QED
          BY <4>1, <4>2 DEF Bare
      <3> QED
        BY <3>1, <3>2
    <2> QED
      BY <2>2, <2>3
  <1>4. Marks'
    BY <1>3, StillMarks DEF IInv, Elsewhere
  <1>5. Holder'
    BY <1>1 DEF IInv, Holder, Handles, Elsewhere
  <1>6. ASSUME NEW q \in Posters PROVE Working(q)' /\ MissedNothing(q)'
    <2>1. CASE q # p
      <3>1. poster'[q] = poster[q] /\ Working(q) /\ MissedNothing(q)
        BY <1>1, <2>1 DEF IInv
      <3>2. Working(q)'
        BY <3>1 DEF Working, Work, Elsewhere
      <3> QED
        BY <3>1, <3>2, <1>3, StillMissedNothing
    <2>2. CASE q = p
      <3>1. /\ Working(p) /\ MissedNothing(p) /\ poster'[p] = new
            /\ Work(p)' = new.post \cup new.resolve /\ Work(p) = poster[p].post \cup poster[p].resolve
        BY <1>1 DEF IInv, Work
      <3>2. Working(p)'
        <4>1. Work(p)' \subseteq Work(p) /\ new.post \cap new.resolve = {}
          BY <3>1 DEF Handles, Working
        <4> QED
          BY <3>1, <4>1 DEF Working, Handles, Elsewhere
      <3>3. ASSUME ~new.failed, new.read = results,
                   NEW j \in 1..Len(findings)', Wants(findings'[j])
            PROVE  j \in new.post
        <4>1. j \in 1..Len(findings) /\ Wants(findings[j])
          BY <1>3, <3>3 DEF NoNewWants
        <4>2. j \in poster[p].post
          BY <3>1, <3>3, <4>1 DEF MissedNothing, Handles
        <4> QED
          BY <3>3, <4>2 DEF Handles, Wants
      <3>4. MissedNothing(p)'
        BY <3>1, <3>3 DEF MissedNothing, Elsewhere
      <3> QED
        BY <2>2, <3>2, <3>4
    <2> QED
      BY <2>1, <2>2
  <1>7. ASSUME NEW j \in Index PROVE Accounted(j)'
    <2>1. CASE j = i
      BY <2>1
    <2>2. CASE j # i
      <3>1. ASSUME NEW q \in Posters
            PROVE  (Has(q, j)' <=> Has(q, j)) /\ (Owes(q, j)' <=> Owes(q, j))
        <4>1. CASE q # p
          BY <1>1, <4>1 DEF Has, Owes, Work
        <4>2. CASE q = p
          BY <1>1, <2>2, <4>2 DEF Has, Owes, Work, Handles
        <4> QED
          BY <4>1, <4>2
      <3>2. Having(j)' = Having(j) /\ Owing(j)' = Owing(j)
        BY <3>1 DEF Having, Owing
      <3> QED
        BY <1>3, <2>2, <3>2, StillAccounted DEF IInv, Elsewhere
    <2> QED
      BY <2>1, <2>2
  <1> QED
    BY <1>2, <1>4, <1>5, <1>6, <1>7 DEF IInv

\* Findings are numbers, so a poster with work has a first one.
LEMMA LeastOfNumbers ==
    ASSUME NEW S, S \subseteq Nat, S # {}
    PROVE  Min(S) \in S
  <1>1. \E x \in S : \A y \in S : ~(<<y, x>> \in OpToRel(<, Nat))
    BY WFMin, NatLessThanWellFounded
  <1>2. PICK x \in S : \A y \in S : ~(<<y, x>> \in OpToRel(<, Nat))
    BY <1>1
  <1>3. ASSUME NEW y \in S PROVE x <= y
    <2>1. <<y, x>> \in Nat \X Nat /\ x \in Nat /\ y \in Nat
      OBVIOUS
    <2>2. OpToRel(<, Nat) = {ss \in Nat \X Nat : ss[1] < ss[2]}
      BY DEF OpToRel
    <2>3. <<y, x>> \notin {ss \in Nat \X Nat : ss[1] < ss[2]}
      BY <1>2, <2>2
    <2> QED
      BY <2>1, <2>3
  <1> QED
    BY <1>3 DEF Min

\* A poster at a finding, and what it may do to its record.
LEMMA AtTurn ==
    ASSUME IInv, NEW p \in Posters, NEW i \in Index, Turn(p, i)
    PROVE  /\ i \in 1..Len(findings) /\ poster[p].at = "post" /\ i \in Work(p) /\ i = Min(Work(p))
           /\ Has(p, i) <=> i \in poster[p].post
           /\ Owes(p, i) <=> i \in poster[p].post
  <1>1. i \in Work(p)
    <2>1. Work(p) \subseteq 1..Len(findings) /\ Work(p) # {} /\ Len(findings) \in Nat
      BY DEF IInv, Working, Turn, Shape
    <2> QED
      BY <2>1, LeastOfNumbers DEF Turn
  <1> QED
    BY <1>1 DEF Turn, IInv, Working, Has, Owes

\* Leaving a finding, p is no longer one of those at it.
LEMMA SkippedLeaves ==
    ASSUME IInv, NEW p \in Posters, NEW i \in Index, NEW failed \in BOOLEAN, Skipped(p, i, failed),
           poster[p].at = "post" \/ (poster[p].at = "save" /\ i = Min(Work(p))),
           i \in poster[p].post => failed \/ findings'[i].comment
    PROVE  /\ \E new \in Standing : poster' = [poster EXCEPT ![p] = new] /\ Handles(p, i, new)
           /\ Having(i)' = Having(i) \ {p} /\ Owing(i)' = Owing(i) \ {p}
  <1> DEFINE new == poster'[p]
  <1>1. poster[p] \in Standing /\ poster \in [Posters -> Standing]
    BY Posting DEF IInv, Shape
  <1>2. /\ new \in Standing
        /\ new.at = "post" /\ new.post = poster[p].post \ {i} /\ new.resolve = poster[p].resolve \ {i}
        /\ (new.failed <=> poster[p].failed \/ failed) /\ new.read = poster[p].read /\ new.auto = poster[p].auto
    <2>1. /\ new.at = "post" /\ new.post = poster[p].post \ {i} /\ new.resolve = poster[p].resolve \ {i}
          /\ new.read = poster[p].read /\ new.auto = poster[p].auto
      BY <1>1 DEF Skipped, Standing
    <2>2. new.failed <=> poster[p].failed \/ failed
      BY <1>1 DEF Skipped, Standing
    <2>3. new \in Standing
      BY <1>1 DEF Skipped, Standing, Stations
    <2> QED
      BY <2>1, <2>2, <2>3
  <1>3. poster' = [poster EXCEPT ![p] = new]
    BY <1>1 DEF Skipped
  <1> HIDE DEF new
  <1>4. Handles(p, i, new)
    BY <1>2 DEF Handles
  <1>5. poster'[p] = new /\ \A q \in Posters \ {p} : poster'[q] = poster[q]
    BY <1>1, <1>3 DEF new
  <1>6. ~Has(p, i)' /\ ~Owes(p, i)'
    BY <1>2, <1>5 DEF Has, Owes
  <1>7. ASSUME NEW q \in Posters \ {p} PROVE (Has(q, i)' <=> Has(q, i)) /\ (Owes(q, i)' <=> Owes(q, i))
    BY <1>5 DEF Has, Owes, Work
  <1>8. Having(i)' = Having(i) \ {p} /\ Owing(i)' = Owing(i) \ {p}
    BY <1>6, <1>7 DEF Having, Owing
  <1> QED
    BY <1>2, <1>3, <1>4, <1>8

LEMMA RejectKeeps ==
    ASSUME IInv, NEW p \in Posters, NEW i \in Index, Reject(p, i)
    PROVE  IInv'
  <1>1. /\ Turn(p, i) /\ Skipped(p, i, TRUE) /\ github' = github /\ excused' = excused
        /\ UNCHANGED <<row, run, findings, results, lock, marked>>
    BY DEF Reject, reviews
  <1>2. Elsewhere(i) /\ github[i] \in Nat /\ excused[i] \in Nat
    BY <1>1 DEF Elsewhere, IInv, Shape
  <1>3. /\ \E new \in Standing : poster' = [poster EXCEPT ![p] = new] /\ Handles(p, i, new)
        /\ Having(i)' = Having(i) \ {p} /\ Owing(i)' = Owing(i) \ {p}
    BY <1>1, AtTurn, SkippedLeaves
  <1>4. Accounted(i)'
    <2>1. Accounted(i) /\ (Bare(i)' <=> Bare(i)) /\ Cardinality(Owing(i)) \in Nat
      BY <1>1, Counts DEF IInv, Bare
    <2>2. CASE p \in Owing(i)
      <3>1. /\ Cardinality(Owing(i)') = Cardinality(Owing(i)) - 1
            /\ Having(i)' = {} => Cardinality(Owing(i)) = 1
        BY <1>3, <2>2, OneFewer
      <3> QED
        BY <1>1, <1>2, <2>1, <3>1 DEF Accounted
    <2>3. CASE p \notin Owing(i)
      <3>1. Having(i)' = Having(i) /\ Owing(i)' = Owing(i)
        BY <1>1, <1>3, <2>3, AtTurn DEF Having, Owing
      <3> QED
        BY <1>1, <2>1, <3>1, StillAccounted
    <2> QED
      BY <2>2, <2>3
  <1> QED
    BY <1>2, <1>3, <1>4, HandlingKeeps

LEMMA ResolveKeeps ==
    ASSUME IInv, NEW p \in Posters, NEW i \in Index, Resolve(p, i)
    PROVE  IInv'
  <1>1. /\ Turn(p, i) /\ Skipped(p, i, FALSE) /\ github' = github /\ excused' = excused
        /\ UNCHANGED <<row, run, results, lock, marked>>
        /\ findings' = [findings EXCEPT ![i].status = "resolved"] /\ i \in poster[p].resolve
    BY DEF Resolve
  <1>2. i \in 1..Len(findings) /\ i \notin poster[p].post /\ findings \in Seq(Finding)
    BY <1>1, AtTurn DEF IInv, Working, Shape
  <1>3. /\ findings' \in Seq(Finding) /\ Len(findings') = Len(findings)
        /\ \A j \in 1..Len(findings) : findings'[j].eligible = findings[j].eligible
                                       /\ findings'[j].comment = findings[j].comment
    <2>1. findings[i] \in Finding
      BY <1>2
    <2>2. [findings[i] EXCEPT !.status = "resolved"] \in Finding
      BY <2>1 DEF Finding
    <2> QED
      BY <1>1, <1>2, <2>1, <2>2 DEF Finding
  <1>4. Elsewhere(i)
    BY <1>1, <1>3 DEF Elsewhere, IInv, Shape
  <1>5. /\ \E new \in Standing : poster' = [poster EXCEPT ![p] = new] /\ Handles(p, i, new)
        /\ Having(i)' = Having(i) \ {p} /\ Owing(i)' = Owing(i) \ {p}
    BY <1>1, <1>2, AtTurn, SkippedLeaves
  <1>6. Accounted(i)'
    <2>1. Having(i)' = Having(i) /\ Owing(i)' = Owing(i)
      BY <1>1, <1>2, <1>5, AtTurn DEF Having, Owing
    <2>2. Bare(i)' => Bare(i)
      BY <1>2, <1>3 DEF Bare
    <2> QED
      BY <1>1, <2>1, <2>2, StillAccounted DEF IInv
  <1> QED
    BY <1>4, <1>5, <1>6, HandlingKeeps

LEMMA AnswerLostKeeps ==
    ASSUME IInv, NEW p \in Posters, NEW i \in Index, AnswerLost(p, i)
    PROVE  IInv'
  <1>1. /\ Turn(p, i) /\ Skipped(p, i, TRUE) /\ i \in poster[p].post
        /\ github' = [github EXCEPT ![i] = @ + 1] /\ excused' = [excused EXCEPT ![i] = @ + 1]
        /\ UNCHANGED <<row, run, findings, results, lock, marked>>
    BY DEF AnswerLost, reviews, Commented, Forgotten
  <1>2. /\ Elsewhere(i) /\ github[i] \in Nat /\ excused[i] \in Nat
        /\ github'[i] = github[i] + 1 /\ excused'[i] = excused[i] + 1
    BY <1>1 DEF Elsewhere, IInv, Shape
  <1>3. /\ \E new \in Standing : poster' = [poster EXCEPT ![p] = new] /\ Handles(p, i, new)
        /\ Having(i)' = Having(i) \ {p} /\ Owing(i)' = Owing(i) \ {p}
    BY <1>1, AtTurn, SkippedLeaves
  <1>4. Accounted(i)'
    <2>1. Accounted(i) /\ Cardinality(Owing(i)) \in Nat /\ p \in Owing(i)
      BY <1>1, AtTurn, Counts DEF IInv, Owing
    <2>2. /\ Cardinality(Owing(i)') = Cardinality(Owing(i)) - 1
          /\ Having(i)' = {} => Cardinality(Owing(i)) = 1
      BY <1>3, <2>1, OneFewer
    <2> QED
      BY <1>2, <2>1, <2>2 DEF Accounted
  <1> QED
    BY <1>2, <1>3, <1>4, HandlingKeeps

\* The poster stays at the finding, which has its comment, but creates none any more.
LEMMA PostKeeps ==
    ASSUME IInv, NEW p \in Posters, NEW i \in Index, Post(p, i)
    PROVE  IInv'
  <1> DEFINE new == [poster[p] EXCEPT !.at = "save"]
  <1>1. /\ Turn(p, i) /\ i \in poster[p].post
        /\ github' = [github EXCEPT ![i] = @ + 1] /\ excused' = excused
        /\ UNCHANGED <<row, run, findings, results, lock, marked>>
        /\ poster' = [poster EXCEPT ![p].at = "save"]
    BY DEF Post, reviews, Commented
  <1>2. /\ Elsewhere(i) /\ github[i] \in Nat /\ excused[i] \in Nat /\ github'[i] = github[i] + 1
    BY <1>1 DEF Elsewhere, IInv, Shape
  <1>3. /\ new \in Standing /\ poster' = [poster EXCEPT ![p] = new]
        /\ new.at = "save" /\ new.post = poster[p].post /\ new.resolve = poster[p].resolve
        /\ new.failed = poster[p].failed /\ new.read = poster[p].read /\ new.auto = poster[p].auto
    BY <1>1, Posting DEF IInv, Shape, Standing, Stations
  <1> HIDE DEF new
  <1>4. Handles(p, i, new)
    BY <1>1, <1>3, AtTurn DEF Handles, Work
  <1>5. poster'[p] = new /\ \A q \in Posters \ {p} : poster'[q] = poster[q]
    BY <1>3 DEF IInv, Shape
  <1>6. Having(i)' = Having(i) /\ Owing(i)' = Owing(i) \ {p} /\ p \in Having(i) /\ p \in Owing(i)
    <2>1. Has(p, i) /\ Has(p, i)' /\ Owes(p, i) /\ ~Owes(p, i)'
      BY <1>1, <1>3, <1>5, AtTurn DEF Has, Owes, Work
    <2>2. ASSUME NEW q \in Posters \ {p} PROVE (Has(q, i)' <=> Has(q, i)) /\ (Owes(q, i)' <=> Owes(q, i))
      BY <1>5 DEF Has, Owes, Work
    <2> QED
      BY <2>1, <2>2 DEF Having, Owing
  <1>7. Accounted(i)'
    <2>1. Accounted(i) /\ Cardinality(Owing(i)) \in Nat
      BY Counts DEF IInv
    <2>2. Cardinality(Owing(i)') = Cardinality(Owing(i)) - 1
      BY <1>6, OneFewer
    <2>3. Having(i)' # {}
      BY <1>6
    <2> QED
      BY <1>1, <1>2, <2>1, <2>2, <2>3 DEF Accounted
  <1> QED
    BY <1>2, <1>3, <1>4, <1>7, HandlingKeeps

LEMMA SaveKeeps ==
    ASSUME IInv, NEW p \in Posters, Save(p)
    PROVE  IInv'
  <1>0. PICK i \in Index : /\ i = Min(Work(p)) /\ i \in poster[p].post /\ i \in 1..Len(findings)
    <2>1. /\ Min(Work(p)) \in poster[p].post /\ poster[p].post \subseteq 1..Len(findings)
          /\ Len(findings) \in Nat /\ Len(findings) <= MaxFindings
      BY DEF Save, IInv, Working, Work, Shape
    <2> QED
      BY <2>1, BoundsAssumption DEF Index
  <1>1. /\ poster[p].at = "save" /\ i \in poster[p].post /\ i \in 1..Len(findings)
        /\ findings \in Seq(Finding) /\ Len(findings) \in Nat
    BY <1>0 DEF Save, IInv, Shape
  <1>2. i \in Index /\ Has(p, i) /\ ~Owes(p, i)
    BY <1>0, <1>1 DEF Has, Owes
  <1>3. github[i] \in Nat /\ excused[i] \in Nat /\ Accounted(i) /\ Cardinality(Owing(i)) \in Nat
    BY <1>2, Counts DEF IInv, Shape
  <1>4. UNCHANGED <<row, run, results, github, lock, marked>>
    BY DEF Save
  <1>5. CASE findings' = [findings EXCEPT ![i].comment = TRUE] /\ Skipped(p, i, FALSE) /\ excused' = excused
    <2>1. /\ findings' \in Seq(Finding) /\ Len(findings') = Len(findings) /\ findings'[i].comment
          /\ \A j \in 1..Len(findings) : findings'[j].eligible = findings[j].eligible
                                         /\ (j # i => findings'[j].comment = findings[j].comment)
      <3>1. findings[i] \in Finding
        BY <1>1
      <3>2. [findings[i] EXCEPT !.comment = TRUE] \in Finding
        BY <3>1 DEF Finding
      <3>3. findings' \in Seq(Finding) /\ Len(findings') = Len(findings)
        BY <1>1, <1>5, <3>2
      <3>4. \A j \in 1..Len(findings) \ {i} : findings'[j] = findings[j]
        BY <1>1, <1>5
      <3>5. findings'[i].comment /\ findings'[i].eligible = findings[i].eligible
        BY <1>1, <1>5, <3>1 DEF Finding
      <3> QED
        BY <3>3, <3>4, <3>5
    <2>2. Elsewhere(i)
      BY <1>4, <1>5, <2>1 DEF Elsewhere, IInv, Shape
    <2>3. /\ \E new \in Standing : poster' = [poster EXCEPT ![p] = new] /\ Handles(p, i, new)
          /\ Having(i)' = Having(i) \ {p} /\ Owing(i)' = Owing(i) \ {p}
      BY <1>0, <1>1, <1>5, <2>1, SkippedLeaves
    <2>4. Accounted(i)'
      <3>1. Owing(i)' = Owing(i)
        BY <1>2, <2>3 DEF Owing
      <3>2. ~Bare(i)'
        BY <1>1, <2>1 DEF Bare
      <3> QED
        BY <1>3, <1>4, <1>5, <3>1, <3>2 DEF Accounted
    <2> QED
      BY <1>2, <2>2, <2>3, <2>4, HandlingKeeps
  <1>6. CASE Skipped(p, i, TRUE) /\ excused' = [excused EXCEPT ![i] = @ + 1] /\ findings' = findings
    <2>1. Elsewhere(i) /\ excused'[i] = excused[i] + 1
      BY <1>2, <1>4, <1>6 DEF Elsewhere, IInv, Shape
    <2>2. /\ \E new \in Standing : poster' = [poster EXCEPT ![p] = new] /\ Handles(p, i, new)
          /\ Having(i)' = Having(i) \ {p} /\ Owing(i)' = Owing(i) \ {p}
      BY <1>0, <1>1, <1>6, SkippedLeaves
    <2>3. Accounted(i)'
      <3>1. Owing(i)' = Owing(i) /\ Owing(i) \subseteq Having(i) \ {p}
        BY <1>2, <2>2, Counts DEF Owing
      <3>2. Having(i)' = {} => Cardinality(Owing(i)) = 0
        BY <2>2, <3>1, Counts, OnlyEmptyCountsNothing
      <3> QED
        BY <1>3, <1>4, <2>1, <3>1, <3>2 DEF Accounted
    <2> QED
      BY <1>2, <2>1, <2>2, <2>3, HandlingKeeps
  <1> QED
    BY <1>0, <1>5, <1>6 DEF Save, Forgotten
----------------------------------------------------------------------------
(* Where the posters read the findings, and where they are all gone. *)

LEMMA ListKeeps ==
    ASSUME IInv, NEW p \in Posters, List(p)
    PROVE  IInv'
  <1> DEFINE due == {i \in 1..Len(findings) : Wants(findings[i])}
             settled == {i \in 1..Len(findings) : Resolves(findings[i])}
             new == poster'[p]
  <1>1. /\ UNCHANGED <<row, run, findings, results, github, lock, marked>>
        /\ poster[p].at = "list"
        /\ poster' = [poster EXCEPT ![p].at = "post", ![p].post = due, ![p].read = results,
                                    ![p].resolve = settled \ due]
        /\ excused' = [i \in Index |->
              excused[i] + Cardinality({q \in Posters \ {p} : i \in poster[q].post \cap due})]
    BY DEF List, reviews
  <1>2. /\ poster \in [Posters -> Standing] /\ results \in Nat
        /\ poster[p].post = {} /\ poster[p].resolve = {} /\ Len(findings) \in Nat
        /\ due \subseteq 1..Len(findings) /\ settled \subseteq 1..Len(findings)
        /\ 1..Len(findings) \subseteq Index
    <2>1. due \subseteq 1..Len(findings) /\ settled \subseteq 1..Len(findings)
      OBVIOUS
    <2> HIDE DEF due, settled, new
    <2>2. poster[p].post = {} /\ poster[p].resolve = {}
      BY <1>1, NothingInHand DEF IInv, Working
    <2>3. 1..Len(findings) \subseteq Index /\ Len(findings) \in Nat
      BY BoundsAssumption DEF IInv, Shape, Index
    <2> QED
      BY <2>1, <2>2, <2>3 DEF IInv, Shape
  <1>3. /\ new.at = "post" /\ new.post = due /\ new.resolve = settled \ due /\ new.read = results
        /\ new.auto = poster[p].auto /\ new \in Standing
        /\ poster' \in [Posters -> Standing] /\ \A q \in Posters \ {p} : poster'[q] = poster[q]
    <2>1. due \subseteq Index /\ settled \subseteq Index
      BY <1>2
    <2> HIDE DEF due, settled
    <2>2. /\ new.at = "post" /\ new.post = due /\ new.resolve = settled \ due /\ new.read = results
          /\ new.auto = poster[p].auto /\ \A q \in Posters \ {p} : poster'[q] = poster[q]
      BY <1>1, <1>2 DEF Standing
    <2>3. new \in Standing
      <3>1. PICK post \in SUBSET Index, resolve \in SUBSET Index : post = due /\ resolve = settled \ due
        BY <2>1
      <3>2. poster' = [poster EXCEPT ![p].at = "post", ![p].post = post, ![p].read = results,
                                     ![p].resolve = resolve]
        BY <1>1, <3>1
      <3>3. poster \in [Posters -> Standing] /\ results \in Nat
        BY <1>2
      <3> DEFINE listed == [[poster[p] EXCEPT !.at = "post"] EXCEPT !.post = post]
      <3>4. listed \in Standing
        <4>1. poster[p] \in Standing
          BY <3>3
        <4> QED
          BY <4>1 DEF Standing, Stations
      <3>5. [[listed EXCEPT !.read = results] EXCEPT !.resolve = resolve] \in Standing
        <4> HIDE DEF listed
        <4> QED
          BY <3>3, <3>4 DEF Standing
      <3>6. new = [[listed EXCEPT !.read = results] EXCEPT !.resolve = resolve]
        BY <3>2, <3>3
      <3> QED
        BY <3>5, <3>6
    <2>4. poster' = [poster EXCEPT ![p] = new]
      BY <1>1, <1>2
    <2>5. poster' \in [Posters -> Standing]
      <3> HIDE DEF new
      <3> QED
        BY <1>2, <2>3, <2>4
    <2> QED
      BY <2>2, <2>3, <2>5
  <1>4. \A i \in Index : Cardinality({q \in Posters \ {p} : i \in poster[q].post \cap due}) \in Nat
    <2> SUFFICES ASSUME NEW i \in Index
                 PROVE  Cardinality({q \in Posters \ {p} : i \in poster[q].post \cap due}) \in Nat
      OBVIOUS
    <2>1. IsFiniteSet({q \in Posters \ {p} : i \in poster[q].post \cap due})
      BY PostersAssumption, FS_Subset
    <2> QED
      BY <2>1, FS_CardinalityType
  <1>5. Shape' /\ Starting' /\ Holder'
    <2>1. excused' \in [Index -> Nat]
      <3>1. \A i \in Index : excused[i] \in Nat
        BY DEF IInv, Shape
      <3> HIDE DEF due
      <3> QED
        BY <1>1, <1>4, <3>1
    <2> HIDE DEF new, due, settled
    <2> QED
      BY <1>1, <1>3, <2>1 DEF IInv, Shape, Starting, Holder, new
  <1>6. NoNewWants /\ \A i : Bare(i)' <=> Bare(i)
    BY <1>1, SameFindings
  <1>7. Marks'
    BY <1>1, <1>6, StillMarks DEF IInv
  <1>8. ASSUME NEW q \in Posters PROVE Working(q)' /\ MissedNothing(q)'
    <2>1. CASE q # p
      <3>1. poster'[q] = poster[q] /\ Working(q) /\ MissedNothing(q)
        BY <1>3, <2>1 DEF IInv
      <3>2. Working(q)'
        BY <1>1, <3>1 DEF Working, Work
      <3> QED
        BY <3>1, <3>2, <1>6, StillMissedNothing
    <2>2. CASE q = p
      <3>1. Working(p)'
        <4> HIDE DEF due, settled
        <4>1. /\ poster'[p].at = "post" /\ poster'[p].post = due /\ poster'[p].resolve = settled \ due
              /\ poster'[p].read = results /\ results' = results /\ findings' = findings
          BY <1>1, <1>3
        <4>2. Work(p)' = due \cup settled
          BY <4>1 DEF Work
        <4> QED
          BY <1>2, <4>1, <4>2 DEF Working
      <3>2. MissedNothing(p)'
        BY <1>1, <1>3 DEF MissedNothing
      <3> QED
        BY <2>2, <3>1, <3>2
    <2> QED
      BY <2>1, <2>2
  <1>9. ASSUME NEW i \in Index PROVE Accounted(i)'
    <2>1. /\ Accounted(i) /\ github[i] \in Nat /\ excused[i] \in Nat /\ github' = github
          /\ excused'[i] = excused[i] + Cardinality({q \in Posters \ {p} : i \in poster[q].post \cap due})
      <3> HIDE DEF due
      <3> QED
        BY <1>1 DEF IInv, Shape
    <2>2. ASSUME NEW q \in Posters \ {p} PROVE (Has(q, i)' <=> Has(q, i)) /\ (Owes(q, i)' <=> Owes(q, i))
      BY <1>3 DEF Has, Owes, Work
    <2>3. /\ ~Has(p, i) /\ ~Owes(p, i)
          /\ Has(p, i)' <=> i \in due
          /\ Owes(p, i)' <=> i \in due
      <3> HIDE DEF due, settled
      <3> QED
        BY <1>2, <1>3 DEF Has, Owes
    <2>4. CASE i \notin due
      <3>1. Having(i)' = Having(i) /\ Owing(i)' = Owing(i)
        BY <2>2, <2>3, <2>4 DEF Having, Owing
      <3>2. {q \in Posters \ {p} : i \in poster[q].post \cap due} = {}
        BY <2>4
      <3>3. excused'[i] = excused[i]
        <4> HIDE DEF due
        <4> QED
          BY <2>1, <3>2, Counts
      <3> QED
        BY <1>6, <2>1, <3>1, <3>3, StillAccounted
    <2>5. CASE i \in due
      <3>1. Having(i)' = Having(i) \cup {p} /\ Owing(i)' = Owing(i) \cup {p} /\ p \notin Owing(i)
        BY <2>2, <2>3, <2>5 DEF Having, Owing
      <3>2. {q \in Posters \ {p} : i \in poster[q].post \cap due} = Having(i)
        BY <2>3, <2>5 DEF Having, Has
      <3>3. /\ Cardinality(Owing(i)') = Cardinality(Owing(i)) + 1
            /\ Cardinality(Owing(i)) \in Nat /\ Cardinality(Having(i)) \in Nat
        BY <3>1, Counts, FS_AddElement
      <3>4. Bare(i)
        BY <2>5 DEF Bare, Wants
      <3>5. Having(i) = {} => Cardinality(Owing(i)) = 0
        BY Counts, OnlyEmptyCountsNothing
      <3>6. Having(i) # {} => Cardinality(Having(i)) # 0
        BY Counts, OnlyEmptyCountsNothing
      <3>7. excused'[i] = excused[i] + Cardinality(Having(i)) /\ Having(i)' # {}
        <4> HIDE DEF due
        <4> QED
          BY <2>1, <3>1, <3>2
      <3> HIDE DEF due
      <3>8. github[i] + Cardinality(Owing(i)') <= 1 + excused'[i]
        BY <2>1, <3>3, <3>4, <3>5, <3>6, <3>7 DEF Accounted
      <3> QED
        BY <2>1, <3>7, <3>8 DEF Accounted
    <2> QED
      BY <2>4, <2>5
  <1> QED
    BY <1>5, <1>7, <1>8, <1>9 DEF IInv

LEMMA RestartKeeps == IInv /\ Restart => IInv'
  <1> SUFFICES ASSUME IInv, Restart PROVE IInv'
    OBVIOUS
  <1> DEFINE gone(i) == {p \in Posters : poster[p].at = "save" /\ i = Min(Work(p))}
  <1>1. /\ UNCHANGED <<row, findings, results, github, marked>>
        /\ poster' = [p \in Posters |-> Idle] /\ lock' = Free
        /\ excused' = [i \in Index |-> excused[i] + Cardinality(gone(i))]
        /\ run' = run \/ run' = [run EXCEPT !.stage = "ended"]
    BY DEF Restart
  <1>2. \A i : IsFiniteSet(gone(i)) /\ Cardinality(gone(i)) \in Nat
    <2> SUFFICES ASSUME NEW i PROVE IsFiniteSet(gone(i)) /\ Cardinality(gone(i)) \in Nat
      OBVIOUS
    <2>1. gone(i) \subseteq Posters
      OBVIOUS
    <2> HIDE DEF gone
    <2> QED
      BY <2>1, PostersAssumption, FS_Subset, FS_CardinalityType
  <1>3. Shape' /\ Starting' /\ Holder'
    <2> HIDE DEF gone
    <2>1. excused' \in [Index -> Nat]
      BY <1>1, <1>2 DEF IInv, Shape
    <2>2. poster' \in [Posters -> Standing]
      BY <1>1, IdleStands
    <2>3. run' \in [number: Nat, local: BOOLEAN, stage: {"none", "starting", "running", "ended"}, posted: BOOLEAN]
      BY <1>1 DEF IInv, Shape
    <2>4. Starting'
      BY <1>1 DEF IInv, Shape, Starting
    <2> QED
      BY <1>1, <2>1, <2>2, <2>3, <2>4 DEF IInv, Shape, Holder
  <1>4. NoNewWants /\ \A i : Bare(i)' <=> Bare(i)
    BY <1>1, SameFindings
  <1>5. Marks'
    BY <1>1, <1>4, StillMarks DEF IInv
  <1>6. ASSUME NEW q \in Posters PROVE Working(q)' /\ MissedNothing(q)'
    <2>1. /\ poster'[q].at = "idle" /\ poster'[q].post = {} /\ poster'[q].resolve = {}
          /\ poster'[q].read = 0 /\ results' \in Nat
      BY <1>1 DEF Idle, IInv, Shape
    <2> QED
      BY <2>1 DEF Working, MissedNothing, Work
  <1>7. ASSUME NEW i \in Index PROVE Accounted(i)'
    <2>1. /\ Accounted(i) /\ github[i] \in Nat /\ excused[i] \in Nat /\ github' = github
          /\ excused'[i] = excused[i] + Cardinality(gone(i)) /\ Cardinality(gone(i)) \in Nat
      <3> HIDE DEF gone
      <3> QED
        BY <1>1, <1>2 DEF IInv, Shape
    <2>2. Cardinality(Owing(i)) \in Nat /\ Cardinality(Having(i)) \in Nat /\ Owing(i) \subseteq Having(i)
      BY Counts
    <2>3. Having(i)' = {} /\ Owing(i)' = {} /\ Cardinality(Owing(i)') = 0
      <3>1. Having(i)' = {}
        BY <1>1 DEF Having, Has, Idle
      <3>2. Owing(i)' = {}
        BY <3>1 DEF Having, Owing, Owes
      <3> QED
        BY <3>1, <3>2, Counts
    <2>4. ASSUME Bare(i), Cardinality(gone(i)) = 0 PROVE github[i] <= excused[i]
      <3>1. gone(i) = {}
        <4> HIDE DEF gone
        <4> QED
          BY <1>2, <2>4, OnlyEmptyCountsNothing
      <3>2. Owing(i) = Having(i)
        BY <3>1 DEF Owing, Having, Owes
      <3>3. CASE Having(i) = {}
        BY <2>1, <2>4, <3>3 DEF Accounted
      <3>4. CASE Having(i) # {}
        <4>1. Cardinality(Owing(i)) # 0
          BY <3>2, <3>4, Counts, OnlyEmptyCountsNothing
        <4> HIDE DEF gone
        <4> QED
          BY <2>1, <2>2, <4>1 DEF Accounted
      <3> QED
        BY <3>3, <3>4
    <2> HIDE DEF gone
    <2> QED
      BY <1>4, <2>1, <2>2, <2>3, <2>4 DEF Accounted
  <1> QED
    BY <1>3, <1>5, <1>6, <1>7 DEF IInv

----------------------------------------------------------------------------
(* The theorems about comments. *)

LEMMA Initially == Init => IInv
  <1> SUFFICES ASSUME Init PROVE IInv
    OBVIOUS
  <1>1. Shape /\ Starting /\ Holder /\ Marks
    <2>1. poster \in [Posters -> Standing]
      BY IdleStands DEF Init
    <2>2. findings \in Seq(Finding) /\ Len(findings) = 0 /\ 0 <= MaxFindings
      BY BoundsAssumption DEF Init
    <2>3. Shape
      BY <2>1, <2>2 DEF Init, Shape
    <2> QED
      BY <2>3 DEF Init, Starting, Holder, Marks, MarkedArePosted
  <1>2. ASSUME NEW p \in Posters PROVE Working(p) /\ MissedNothing(p)
    BY DEF Init, Idle, Working, MissedNothing, Work
  <1>3. ASSUME NEW i \in Index PROVE Accounted(i)
    <2>1. Having(i) = {} /\ github[i] = 0 /\ excused[i] = 0
      BY DEF Init, Idle, Having, Has
    <2>2. Owing(i) = {}
      BY <2>1, Counts
    <2> QED
      BY <2>1, <2>2, Counts DEF Accounted
  <1> QED
    BY <1>1, <1>2, <1>3 DEF IInv

LEMMA Stuttering == IInv /\ UNCHANGED vars => IInv'
  <1> SUFFICES ASSUME IInv, UNCHANGED vars PROVE IInv'
    OBVIOUS
  <1>1. UNCHANGED <<row, run, findings, results, github, excused, poster, lock, marked>>
    BY DEF vars
  <1>2. Shape' /\ Starting' /\ Marks'
    BY <1>1 DEF IInv, Shape, Starting, Marks, MarkedArePosted
  <1> QED
    BY <1>1, <1>2, NobodyMoves DEF IInv

LEMMA Inductive == IInv /\ [Next]_vars => IInv'
  <1> SUFFICES ASSUME IInv, [Next]_vars PROVE IInv'
    OBVIOUS
  <1>1. CASE Start \/ StorePRInfo \/ IngestRunResult \/ Requeue \/ Retry \/ Restart
    BY <1>1, StartKeeps, StorePRInfoKeeps, IngestKeeps, RequeueKeeps, RetryKeeps, RestartKeeps
  <1>2. ASSUME NEW p \in Posters, Complete(p) \/ PostComments(p) \/ List(p) \/ Save(p)
        PROVE  IInv'
    BY <1>2, CompleteKeeps, PostCommentsKeeps, ListKeeps, SaveKeeps
  <1>3. ASSUME NEW p \in Posters,
               PostPRReview(p) \/ SetCommentsPosted(p) \/ RecordNotice(p) \/ FinishNotice(p)
        PROVE  IInv'
    BY <1>3, EndingKeeps
  <1>4. ASSUME NEW p \in Posters, NEW i \in Index,
               Post(p, i) \/ Reject(p, i) \/ AnswerLost(p, i) \/ Resolve(p, i)
        PROVE  IInv'
    BY <1>4, PostKeeps, RejectKeeps, AnswerLostKeeps, ResolveKeeps
  <1> QED
    BY <1>1, <1>2, <1>3, <1>4, Stuttering DEF Next

LEMMA InvariantHolds == Spec => []IInv
  BY Initially, Inductive, PTL DEF Spec

\* However many runs, retries, calls of PostComments, gone answers and restarts there
\* are: PostPRInlineComments gives a finding one comment on GitHub, and one more at
\* most for each time two attempts listed it together or its comment's id was gone.
THEOREM OneCommentEachHolds == Spec => []OneCommentEach
  <1>1. IInv => OneCommentEach
    <2> SUFFICES ASSUME IInv, NEW i \in Index PROVE github[i] <= 1 + excused[i]
      BY DEF OneCommentEach
    <2>1. /\ Accounted(i) /\ Cardinality(Owing(i)) \in Nat
          /\ github[i] \in Nat /\ excused[i] \in Nat
      BY Counts DEF IInv, Shape
    <2> QED
      BY <2>1 DEF Accounted
  <1> QED
    BY <1>1, InvariantHolds, PTL

\* comments_posted_at is true: while it is set, and no result came after the marking
\* attempt read the findings, each that is to be posted has its comment remembered.
THEOREM MarkedArePostedHolds == Spec => []MarkedArePosted
  <1>1. IInv => MarkedArePosted
    BY DEF IInv, Marks
  <1> QED
    BY <1>1, InvariantHolds, PTL

============================================================================
