-------------------------- MODULE ApprovalsProofs --------------------------
(***************************************************************************)
(* What Approvals promises for any number of requests of agents' hooks, and *)
(* however often the server stops, people answer and the switch is moved.  *)
(***************************************************************************)
EXTENDS Approvals, FiniteSetTheorems, TLAPS

----------------------------------------------------------------------------
(* The inductive invariant. *)

HandlerStates == {"idle", "evaluate", "create", "createAuto", "decide", "auto", "pending", "failed"}
HookStates    == {"idle", "asks", "waits"} \cup Answers

Shape ==
    /\ approval \in [Requests -> Statuses]
    /\ handler \in [Requests -> HandlerStates]
    /\ hook \in [Requests -> HookStates]

\* A request's row is created by its one handler, and only there.
Created(r) ==
    /\ handler[r] = "idle" <=> hook[r] = "idle"
    /\ handler[r] \in {"idle", "evaluate", "create", "createAuto"} => approval[r] = "none"
    /\ handler[r] \in {"decide", "auto", "pending"} => approval[r] # "none"

\* The decisions of a request are none until its row is decided, then the row's.
Recorded(r) ==
    /\ approval[r] \in {"none", "pending"} => \A d \in decisions : d.request # r
    /\ approval[r] \in {"approved", "denied"} =>
          \E d \in decisions : /\ d.request = r /\ d.decision = approval[r]
                               /\ \A e \in decisions : e.request = r => e = d

\* What a polling hook was told is what the row says.
Heard(r) ==
    /\ hook[r] = "deny" => approval[r] = "denied"
    /\ hook[r] = "allow" => approval[r] = "approved"

Kept(r) == Created(r) /\ Recorded(r) /\ Heard(r)

IInv == Shape /\ \A r \in Requests : Kept(r)

----------------------------------------------------------------------------
(* What it gives, and where it starts. *)

LEMMA Implied == IInv => DecidedOnce
  <1> SUFFICES ASSUME IInv, NEW r \in Requests
               PROVE  /\ {d.decision : d \in {e \in decisions : e.request = r}} = {approval[r]} \ {"none", "pending"}
                      /\ Cardinality({d \in decisions : d.request = r}) <= 1
                      /\ Heard(r)
    BY DEF DecidedOnce, Heard
  <1> DEFINE own == {d \in decisions : d.request = r}
  <1>1. Recorded(r) /\ Heard(r) /\ approval[r] \in Statuses
    BY DEF IInv, Kept, Shape
  <1>2. CASE approval[r] \in {"none", "pending"}
    <2>1. own = {}
      BY <1>1, <1>2 DEF Recorded
    <2>2. Cardinality(own) = 0
      BY <2>1, FS_EmptySet
    <2> QED
      BY <1>1, <1>2, <2>1, <2>2
  <1>3. CASE approval[r] \in {"approved", "denied"}
    <2>1. PICK d \in decisions : own = {d} /\ d.decision = approval[r]
      BY <1>1, <1>3 DEF Recorded
    <2>2. Cardinality(own) = 1
      BY <2>1, FS_Singleton
    <2>3. {e.decision : e \in own} = {approval[r]}
      BY <2>1
    <2> QED
      BY <1>1, <1>3, <2>2, <2>3
  <1> QED
    BY <1>1, <1>2, <1>3 DEF Statuses

LEMMA Initially == Init => IInv
  BY DEF Init, IInv, Shape, Kept, Created, Recorded, Heard, Statuses, HandlerStates, HookStates

----------------------------------------------------------------------------
(* Every step keeps it.  A request that a step leaves alone keeps what was  *)
(* said of it, even if a decision of another one is added.                  *)

LEMMA RequestUntouched ==
    ASSUME NEW r, Kept(r),
           approval'[r] = approval[r], handler'[r] = handler[r], hook'[r] = hook[r],
           \A d : d.request = r => (d \in decisions' <=> d \in decisions)
    PROVE  Kept(r)'
  <1>1. Created(r)'
    BY DEF Kept, Created
  <1>2. Heard(r)'
    BY DEF Kept, Heard
  <1>3. Recorded(r)'
    BY DEF Kept, Recorded
  <1> QED
    BY <1>1, <1>2, <1>3 DEF Kept

LEMMA DecisionRecorded ==
    ASSUME NEW r \in Requests, NEW what \in {"approved", "denied"}, NEW source,
           IInv, Decidable(r), Decided(r, what, source)
    PROVE  /\ approval' \in [Requests -> Statuses]
           /\ Recorded(r)' /\ approval'[r] = what
           /\ \A s \in Requests \ {r} : approval'[s] = approval[s]
           /\ \A d : d.request # r => (d \in decisions' <=> d \in decisions)
  <1> DEFINE new == Decision(r, what, source)
  <1>1. /\ approval' = [approval EXCEPT ![r] = what]
        /\ decisions' = decisions \cup {new}
        /\ new.request = r /\ new.decision = what
    BY DEF Decided, Decision
  <1>2. approval \in [Requests -> Statuses] /\ \A d \in decisions : d.request # r
    BY DEF IInv, Shape, Kept, Recorded, Decidable
  <1> HIDE DEF new
  <1> QED
    BY <1>1, <1>2 DEF Statuses, Recorded

LEMMA DecideKeepsRequests ==
    ASSUME IInv, NEW r \in Requests, Decide(r)
    PROVE  IInv'
  <1>1. PICK what \in {"approved", "denied"} : Decided(r, what, "user")
    BY DEF Decide
  <1>2. /\ Decidable(r)
        /\ UNCHANGED <<handler, hook>>
    BY DEF Decide
  <1>3. /\ approval' \in [Requests -> Statuses]
        /\ Recorded(r)' /\ approval'[r] = what
        /\ \A s \in Requests \ {r} : approval'[s] = approval[s]
        /\ \A d : d.request # r => (d \in decisions' <=> d \in decisions)
    BY <1>1, <1>2, DecisionRecorded
  <1>4. Created(r)' /\ Heard(r)'
    BY <1>2, <1>3 DEF IInv, Kept, Created, Heard, Decidable
  <1>5. \A s \in Requests \ {r} : Kept(s)'
    BY <1>2, <1>3, RequestUntouched DEF IInv
  <1> QED
    BY <1>2, <1>3, <1>4, <1>5 DEF IInv, Shape, Kept

LEMMA EvaluateKeepsRequests ==
    ASSUME IInv, NEW r \in Requests, Evaluate(r)
    PROVE  IInv'
  <1>1. /\ handler[r] = "evaluate" /\ approval[r] = "none" /\ hook[r] # "idle"
        /\ handler'[r] \in {"failed", "createAuto", "create"}
        /\ handler' \in [Requests -> HandlerStates]
        /\ \A s \in Requests \ {r} : handler'[s] = handler[s]
        /\ UNCHANGED <<approval, decisions, hook>>
    BY DEF Evaluate, IInv, Kept, Created, Shape, HandlerStates
  <1>2. Kept(r)'
    BY <1>1 DEF IInv, Kept, Created, Recorded, Heard
  <1>3. \A s \in Requests \ {r} : Kept(s)'
    BY <1>1, RequestUntouched DEF IInv
  <1> QED
    BY <1>1, <1>2, <1>3 DEF IInv, Shape

LEMMA CreateKeepsRequests ==
    ASSUME IInv, NEW r \in Requests, CreateApproval(r)
    PROVE  IInv'
  <1>1. /\ approval[r] = "none" /\ approval'[r] = "pending" /\ hook[r] # "idle"
        /\ handler'[r] \in {"pending", "decide"}
        /\ approval' \in [Requests -> Statuses]
        /\ handler' \in [Requests -> HandlerStates]
        /\ \A s \in Requests \ {r} : handler'[s] = handler[s] /\ approval'[s] = approval[s]
        /\ UNCHANGED <<decisions, hook>>
    BY DEF CreateApproval, IInv, Kept, Created, Shape, HandlerStates, Statuses
  <1>2. Kept(r)'
    BY <1>1 DEF IInv, Kept, Created, Recorded, Heard
  <1>3. \A s \in Requests \ {r} : Kept(s)'
    BY <1>1, RequestUntouched DEF IInv
  <1> QED
    BY <1>1, <1>2, <1>3 DEF IInv, Shape

LEMMA DecideAutoKeepsRequests ==
    ASSUME IInv, NEW r \in Requests, DecideAuto(r)
    PROVE  IInv'
  <1>1. /\ handler[r] = "decide" /\ handler'[r] = "auto"
        /\ handler' \in [Requests -> HandlerStates]
        /\ \A s \in Requests \ {r} : handler'[s] = handler[s]
        /\ hook' = hook /\ hook[r] # "idle" /\ approval[r] # "none"
    BY DEF DecideAuto, IInv, Kept, Created, Shape, HandlerStates
  <1>2. CASE Decidable(r)
    <2>1. Decided(r, "approved", "auto")
      BY <1>2 DEF DecideAuto
    <2>2. /\ approval' \in [Requests -> Statuses]
          /\ Recorded(r)' /\ approval'[r] = "approved"
          /\ \A s \in Requests \ {r} : approval'[s] = approval[s]
          /\ \A d : d.request # r => (d \in decisions' <=> d \in decisions)
      BY <1>2, <2>1, DecisionRecorded
    <2>3. Created(r)' /\ Heard(r)'
      BY <1>1, <1>2, <2>2 DEF IInv, Kept, Created, Heard, Decidable
    <2>4. \A s \in Requests \ {r} : Kept(s)'
      BY <1>1, <2>2, RequestUntouched DEF IInv
    <2> QED
      BY <1>1, <2>2, <2>3, <2>4 DEF IInv, Shape, Kept
  <1>3. CASE ~Decidable(r)
    <2>1. UNCHANGED <<approval, decisions>>
      BY <1>3 DEF DecideAuto
    <2>2. Kept(r)'
      BY <1>1, <2>1 DEF IInv, Kept, Created, Recorded, Heard
    <2>3. \A s \in Requests \ {r} : Kept(s)'
      BY <1>1, <2>1, RequestUntouched DEF IInv
    <2> QED
      BY <1>1, <2>1, <2>2, <2>3 DEF IInv, Shape
  <1> QED
    BY <1>2, <1>3

LEMMA AskKeepsRequests ==
    ASSUME IInv, NEW r \in Requests, Ask(r)
    PROVE  IInv'
  <1>1. /\ approval[r] = "none" /\ hook'[r] = "asks" /\ handler'[r] = "evaluate"
        /\ hook' \in [Requests -> HookStates]
        /\ handler' \in [Requests -> HandlerStates]
        /\ \A s \in Requests \ {r} : handler'[s] = handler[s] /\ hook'[s] = hook[s]
        /\ UNCHANGED <<approval, decisions>>
    BY DEF Ask, IInv, Kept, Created, Shape, HandlerStates, HookStates
  <1>2. Kept(r)'
    BY <1>1 DEF IInv, Kept, Created, Recorded, Heard
  <1>3. \A s \in Requests \ {r} : Kept(s)'
    BY <1>1, RequestUntouched DEF IInv
  <1> QED
    BY <1>1, <1>2, <1>3 DEF IInv, Shape

\* Hear, NotHeard, Poll and GiveUp only move the hook, past "idle".
LEMMA AnswerKeepsRequests ==
    ASSUME IInv, NEW r \in Requests, NEW what \in HookStates \ {"idle"}, Answer(r, what),
           hook[r] # "idle", UNCHANGED <<approval, decisions, handler>>,
           what = "deny" => approval[r] = "denied",
           what = "allow" => approval[r] = "approved"
    PROVE  IInv'
  <1>1. /\ hook'[r] = what
        /\ hook' \in [Requests -> HookStates]
        /\ \A s \in Requests \ {r} : hook'[s] = hook[s]
    BY DEF Answer, IInv, Shape
  <1>2. Kept(r)'
    BY <1>1 DEF IInv, Kept, Created, Recorded, Heard
  <1>3. \A s \in Requests \ {r} : Kept(s)'
    BY <1>1, RequestUntouched DEF IInv
  <1> QED
    BY <1>1, <1>2, <1>3 DEF IInv, Shape

LEMMA HookKeepsRequests ==
    ASSUME IInv, NEW r \in Requests, Hear(r) \/ NotHeard(r) \/ Poll(r) \/ GiveUp(r)
    PROVE  IInv'
  <1>1. CASE Hear(r)
    <2> DEFINE what == CASE handler[r] = "auto" -> "allowAuto" [] handler[r] = "pending" -> "waits" [] OTHER -> "native"
    <2>1. what \in {"allowAuto", "waits", "native"}
      OBVIOUS
    <2>2. Answer(r, what) /\ hook[r] = "asks" /\ UNCHANGED <<approval, decisions, handler>>
      BY <1>1 DEF Hear
    <2> HIDE DEF what
    <2> QED
      BY <2>1, <2>2, AnswerKeepsRequests DEF HookStates, Answers
  <1>2. CASE NotHeard(r) \/ GiveUp(r)
    BY <1>2, AnswerKeepsRequests DEF NotHeard, GiveUp, AtDeadline, HookStates, Answers
  <1>3. CASE Poll(r)
    <2> DEFINE what == IF approval[r] = "approved" THEN "allow" ELSE "deny"
    <2>1. /\ what \in {"allow", "deny"}
          /\ what = "deny" => approval[r] = "denied"
          /\ what = "allow" => approval[r] = "approved"
      BY <1>3 DEF Poll
    <2>2. Answer(r, what) /\ hook[r] = "waits" /\ UNCHANGED <<approval, decisions, handler>>
      BY <1>3 DEF Poll
    <2> HIDE DEF what
    <2> QED
      BY <2>1, <2>2, AnswerKeepsRequests DEF HookStates, Answers
  <1> QED
    BY <1>1, <1>2, <1>3

LEMMA RestartKeepsRequests ==
    ASSUME IInv, Restart
    PROVE  IInv'
  <1>1. /\ UNCHANGED <<approval, decisions, hook>>
        /\ handler' \in [Requests -> HandlerStates]
        /\ \A r \in Requests : handler'[r] = handler[r] \/ (handler'[r] = "failed" /\ handler[r] # "idle")
    BY DEF Restart, IInv, Shape, Kept, Created, HandlerStates, Busy
  <1>2. ASSUME NEW r \in Requests PROVE Kept(r)'
    BY <1>1 DEF IInv, Kept, Created, Recorded, Heard
  <1> QED
    BY <1>1, <1>2 DEF IInv, Shape

LEMMA Inductive == IInv /\ [Next]_vars => IInv'
  <1> SUFFICES ASSUME IInv, [Next]_vars
               PROVE  IInv'
    OBVIOUS
  <1>1. CASE Register \/ UpdateAutoPass \/ AutoPassEnds \/ Stop \/ UNCHANGED vars
    <2>1. UNCHANGED <<approval, decisions, handler, hook>>
      BY <1>1 DEF Register, UpdateAutoPass, AutoPassEnds, Stop, vars
    <2> QED
      BY <2>1 DEF IInv, Shape, Kept, Created, Recorded, Heard
  <1>2. CASE Restart
    BY <1>2, RestartKeepsRequests
  <1>3. ASSUME NEW r \in Requests, Serve(r) \/ Decide(r) \/ Ask(r)
        PROVE  IInv'
    BY <1>3, EvaluateKeepsRequests, CreateKeepsRequests, DecideAutoKeepsRequests, DecideKeepsRequests, AskKeepsRequests DEF Serve
  <1>4. ASSUME NEW r \in Requests, Hear(r) \/ NotHeard(r) \/ Poll(r) \/ GiveUp(r)
        PROVE  IInv'
    BY <1>4, HookKeepsRequests
  <1> QED
    BY <1>1, <1>2, <1>3, <1>4 DEF Next

\* Each approval is decided once, whoever decides at the same time and wherever the
\* server stops, and its hook hears only that decision: DecideApproval looks at the
\* status in its transaction, and a row is only created by the one handler of its request.
THEOREM DecidedOnceHolds == Spec => []DecidedOnce
  BY Initially, Inductive, Implied, PTL DEF Spec

============================================================================
