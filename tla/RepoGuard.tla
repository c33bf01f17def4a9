----------------------------- MODULE RepoGuard -----------------------------
(***************************************************************************)
(* The checkout guard of one executor (a worker, or the server's pool) and *)
(* the reference-counted keyed locks under it.  A job takes the key of its *)
(* review and, under the mutex policy, those of its repo and its checkout, *)
(* one after the other; its context may end at any time.                   *)
(*                                                                         *)
(* A lock's entry is an object on the heap: the table may drop it while a  *)
(* goroutine still has it, and give its key a new one.  What Map.Lock does *)
(* under its mutex is one step, and so is each operation on the gate.      *)
(***************************************************************************)
EXTENDS Integers, Sequences, FiniteSets

CONSTANTS
    Jobs,        \* goroutines that run one job after another
    Key,         \* lock keys
    ReviewKey,   \* job -> "review:" key of its review
    RepoKey,     \* job -> "repo:" key of its repo
    CheckoutKey, \* job -> "checkout:" key of its directory
    Policy,      \* the executor's collision policy
    Copies,      \* tells apart the heap objects made for one key
    None         \* no entry

ASSUME JobsAssumption == IsFiniteSet(Jobs)
ASSUME PolicyAssumption == Policy \in {"mutex", "worktree"}
ASSUME KeysAssumption ==
    ReviewKey \in [Jobs -> Key] /\ RepoKey \in [Jobs -> Key] /\ CheckoutKey \in [Jobs -> Key]
\* The prefixes keep the three kinds of keys apart.
ASSUME PrefixAssumption ==
    \A i, j \in Jobs : /\ ReviewKey[i] # RepoKey[j]
                       /\ ReviewKey[i] # CheckoutKey[j]
                       /\ RepoKey[i] # CheckoutKey[j]

\* Entries, named after the key they are made for.
Entry == Key \X Copies

ASSUME NoneAssumption == None \notin Entry

VARIABLES
    table,     \* key -> its entry, or None
    refs,      \* entry -> goroutines that have it, by its own count
    gate,      \* entry -> the token is in its channel
    pc,        \* job -> where it stands
    have,      \* job -> entries it has, in the order of its keys
    cancelled  \* jobs whose context has ended

guardVars == <<table, refs, gate, pc, have, cancelled>>

\* Guard.Lock's keys, in the order it locks them.
Keys(j) == IF Policy = "mutex" THEN <<ReviewKey[j], RepoKey[j], CheckoutKey[j]>>
                               ELSE <<ReviewKey[j]>>

GuardTypeOK ==
    /\ table \in [Key -> Entry \cup {None}]
    /\ refs \in [Entry -> Nat]
    /\ gate \in [Entry -> BOOLEAN]
    /\ pc \in [Jobs -> {"idle", "lock", "wait", "took", "inside", "release", "unref"}]
    /\ have \in [Jobs -> Seq(Entry)]
    /\ cancelled \subseteq Jobs
    /\ \A j \in Jobs :
          /\ Len(have[j]) <= Len(Keys(j))
          /\ pc[j] = "idle" => have[j] = <<>>
          /\ pc[j] = "lock" => Len(have[j]) < Len(Keys(j))
          /\ pc[j] \in {"wait", "took", "inside", "release", "unref"} => have[j] # <<>>
          /\ pc[j] = "inside" => Len(have[j]) = Len(Keys(j))

GuardInit ==
    /\ table = [k \in Key |-> None]
    /\ refs = [e \in Entry |-> 0]
    /\ gate = [e \in Entry |-> FALSE]
    /\ pc = [j \in Jobs |-> "idle"]
    /\ have = [j \in Jobs |-> <<>>]
    /\ cancelled = {}

----------------------------------------------------------------------------
Last(j) == have[j][Len(have[j])]

\* The key a job is about to lock, and the one it has locked or looked up last.
NextKey(j) == Keys(j)[Len(have[j]) + 1]
LastKey(j) == Keys(j)[Len(have[j])]

\* Objects for key k that nobody has: new, or reclaimed.
Free(k) == {e \in {k} \X Copies : /\ table[k] # e
                                 /\ \A j \in Jobs : \A i \in 1..Len(have[j]) : have[j][i] # e}

\* A job arrives, with a context of its own.
Begin(j) ==
    /\ pc[j] = "idle"
    /\ pc' = [pc EXCEPT ![j] = "lock"]
    /\ cancelled' = cancelled \ {j}
    /\ UNCHANGED <<table, refs, gate, have>>

\* A cancel, a timeout or the shutdown of the executor.
Cancel(j) ==
    /\ pc[j] # "idle" /\ j \notin cancelled
    /\ cancelled' = cancelled \cup {j}
    /\ UNCHANGED <<table, refs, gate, pc, have>>

\* Mutant of GivenUp: it always unlocks another key.
GivenUpUnlocking(s) == "release"

\* Where Guard.Lock goes on when it gives up with these entries in hand.
GivenUp(s) == IF s = <<>> THEN "idle" ELSE "release"

\* Mutant of Refuse: the keys locked so far are not given back.
RefuseKeepingKeys(j) ==
    /\ pc[j] = "lock" /\ j \in cancelled
    /\ pc' = [pc EXCEPT ![j] = "idle"]
    /\ have' = [have EXCEPT ![j] = <<>>]
    /\ UNCHANGED <<table, refs, gate, cancelled>>

\* Map.Lock finds the context ended before it looks its key up.
Refuse(j) ==
    /\ pc[j] = "lock" /\ j \in cancelled
    /\ pc' = [pc EXCEPT ![j] = GivenUp(have[j])]
    /\ UNCHANGED <<table, refs, gate, have, cancelled>>

(* It looks its key up, in a table guarded by a mutex.  The context may    *)
(* have ended since it was tested.                                         *)
Find(j) ==
    /\ pc[j] = "lock"
    /\ table[NextKey(j)] # None
    /\ refs' = [refs EXCEPT ![table[NextKey(j)]] = @ + 1]
    /\ have' = [have EXCEPT ![j] = Append(@, table[NextKey(j)])]
    /\ pc' = [pc EXCEPT ![j] = "wait"]
    /\ UNCHANGED <<table, gate, cancelled>>

Create(j) ==
    /\ pc[j] = "lock"
    /\ table[NextKey(j)] = None
    /\ Free(NextKey(j)) # {}
    /\ LET e == CHOOSE e \in Free(NextKey(j)) : TRUE
       IN  /\ table' = [table EXCEPT ![NextKey(j)] = e]
           /\ refs' = [refs EXCEPT ![e] = 1]
           /\ gate' = [gate EXCEPT ![e] = TRUE]
           /\ have' = [have EXCEPT ![j] = Append(@, e)]
    /\ pc' = [pc EXCEPT ![j] = "wait"]
    /\ UNCHANGED cancelled

\* The select: one of its two cases, at random when both are ready.
Take(j) ==
    /\ pc[j] = "wait" /\ gate[Last(j)]
    /\ gate' = [gate EXCEPT ![Last(j)] = FALSE]
    /\ pc' = [pc EXCEPT ![j] = "took"]
    /\ UNCHANGED <<table, refs, have, cancelled>>

\* Mutants of GiveUp: without a reference to give back, with a token to give
\* back, and a wait that cannot be cancelled.
GiveUpKeepingRef(j) ==
    /\ pc[j] = "wait" /\ j \in cancelled
    /\ have' = [have EXCEPT ![j] = SubSeq(@, 1, Len(@) - 1)]
    /\ pc' = [pc EXCEPT ![j] = GivenUp(have'[j])]
    /\ UNCHANGED <<table, refs, gate, cancelled>>

GiveUpWithToken(j) ==
    /\ pc[j] = "wait" /\ j \in cancelled
    /\ pc' = [pc EXCEPT ![j] = "release"]
    /\ UNCHANGED <<table, refs, gate, have, cancelled>>

GiveUpNever(j) == pc[j] = "wait" /\ j \in cancelled /\ UNCHANGED guardVars

GiveUp(j) ==
    /\ pc[j] = "wait" /\ j \in cancelled
    /\ pc' = [pc EXCEPT ![j] = "unref"]
    /\ UNCHANGED <<table, refs, gate, have, cancelled>>

\* The token came, and the context has not ended: on to the next key, or in.
Proceed(j) ==
    /\ pc[j] = "took" /\ j \notin cancelled
    /\ pc' = [pc EXCEPT ![j] = IF Len(have[j]) = Len(Keys(j)) THEN "inside" ELSE "lock"]
    /\ UNCHANGED <<table, refs, gate, have, cancelled>>

\* A send on the gate blocks while the token is in it.
PutToken(j) ==
    /\ ~gate[Last(j)]
    /\ gate' = [gate EXCEPT ![Last(j)] = TRUE]
    /\ pc' = [pc EXCEPT ![j] = "unref"]
    /\ UNCHANGED <<table, refs, have, cancelled>>

\* It came, but the context has ended meanwhile.
PutBack(j) == pc[j] = "took" /\ j \in cancelled /\ PutToken(j)

\* The job is done, and unlocks its last key; or it unlocks the one before.
Leave(j) == pc[j] = "inside" /\ PutToken(j)
Release(j) == pc[j] = "release" /\ PutToken(j)

\* Mutant of Unref: the entry goes with its first reference.
UnrefDeleting(j) ==
    /\ pc[j] = "unref"
    /\ refs' = [refs EXCEPT ![Last(j)] = @ - 1]
    /\ table' = [table EXCEPT ![LastKey(j)] = None]
    /\ have' = [have EXCEPT ![j] = SubSeq(@, 1, Len(@) - 1)]
    /\ pc' = [pc EXCEPT ![j] = GivenUp(have'[j])]
    /\ UNCHANGED <<gate, cancelled>>

\* releaseRef deletes what the table has under the key, whichever entry it is.
Unref(j) ==
    /\ pc[j] = "unref"
    /\ refs' = [refs EXCEPT ![Last(j)] = @ - 1]
    /\ table' = IF refs[Last(j)] = 1 THEN [table EXCEPT ![LastKey(j)] = None] ELSE table
    /\ have' = [have EXCEPT ![j] = SubSeq(@, 1, Len(@) - 1)]
    /\ pc' = [pc EXCEPT ![j] = GivenUp(have'[j])]
    /\ UNCHANGED <<gate, cancelled>>

Step(j) ==
    \/ Refuse(j) \/ Find(j) \/ Create(j)
    \/ GiveUp(j) \/ Proceed(j) \/ PutBack(j) \/ Release(j) \/ Unref(j)

GuardNext == \E j \in Jobs : Begin(j) \/ Cancel(j) \/ Step(j) \/ Take(j) \/ Leave(j)

GuardSpec == GuardInit /\ [][GuardNext]_guardVars

(* Goroutines run, and a channel serves its receivers in order of arrival. *)
(* Nothing makes a job inside leave, arrive, or be cancelled.              *)
Fairness == \A j \in Jobs : WF_guardVars(Step(j)) /\ SF_guardVars(Take(j))

FairSpec == GuardSpec /\ Fairness

----------------------------------------------------------------------------
(* Properties. *)

\* Two jobs that must not run at once (the Guard's comment in policy.go).
Collide(i, j) ==
    \/ ReviewKey[i] = ReviewKey[j]
    \/ Policy = "mutex" /\ (RepoKey[i] = RepoKey[j] \/ CheckoutKey[i] = CheckoutKey[j])

(* No two jobs of one review run at once, nor, under the mutex policy, of  *)
(* one repo or one checkout: entries come and go, and are never two for a  *)
(* key that someone holds.                                                 *)
MutualExclusion ==
    \A i, j \in Jobs : i # j /\ pc[i] = "inside" /\ pc[j] = "inside" => ~Collide(i, j)

Refers(j, k) == \E i \in 1..Len(have[j]) : Keys(j)[i] = k

(* "Idle entries are removed" (keylock.go), and no others: the table has   *)
(* an entry for exactly the keys some job has looked up and not given      *)
(* back, whoever was cancelled on the way.                                 *)
TableExact == \A k \in Key : table[k] # None <=> \E j \in Jobs : Refers(j, k)

(* Whoever unlocks finds the gate empty: an unlock never blocks, and never *)
(* lets two in.                                                            *)
UnlockNeverBlocks ==
    \A j \in Jobs : pc[j] \in {"took", "inside", "release"} => ~gate[Last(j)]

(* A job gets its keys or gives up, unless some job stays inside for ever: *)
(* jobs that hold some of their keys never wait for each other in a circle,*)
(* and one that gives up leaves no key locked.                             *)
Served ==
    (\A i \in Jobs : []<>(pc[i] # "inside"))
    => \A j \in Jobs : pc[j] = "lock" ~> pc[j] \in {"inside", "idle"}

(* "Waiting is cancellable" (policy.go): a job whose context ends before   *)
(* it is in gives up, even if the jobs inside never leave.                 *)
CancelledGivesUp ==
    \A j \in Jobs : j \in cancelled /\ pc[j] # "inside" ~> pc[j] = "idle"
=============================================================================
