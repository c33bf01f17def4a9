------------------------------ MODULE Approvals ------------------------------
(***************************************************************************)
(* The permission requests of one agent session: the hook that asks and    *)
(* waits, the handler that approves low-risk requests by itself while      *)
(* auto-pass is on, and people who decide at the same time.                *)
(*                                                                         *)
(* A hook is a codex hook, or saturnus-agent approval, which asks, waits   *)
(* and gives up in the same way.                                           *)
(*                                                                         *)
(* The database has one connection, so every transaction is one step.  A   *)
(* request is its hook call, its handler and its row at once.              *)
(***************************************************************************)
EXTENDS Integers, FiniteSets

CONSTANTS
    Requests,    \* permission requests the agent makes
    Low,         \* those policy.Risk finds to be of low risk
    EnvAutoPass, \* SATURNUS_AUTO_PASS of the agent
    MaxSwitches, \* bound on registrations and switches of auto-pass
    MaxFaults    \* bound on lost calls and restarts

ASSUME LowAssumption == Low \subseteq Requests
ASSUME EnvAssumption == EnvAutoPass \in BOOLEAN
ASSUME BoundsAssumption == MaxSwitches \in Nat /\ MaxFaults \in Nat

VARIABLES
    session,   \* the row of sessions, or NoSession
    approval,  \* approvals: request -> status, or "none"
    decisions, \* the rows of decisions
    handler,   \* request -> where createApproval is
    hook,      \* request -> where the agent's hook is
    switches, faults

vars == <<session, approval, decisions, handler, hook, switches, faults>>

NoSession == [status |-> "none"]

\* GetSession finds it.
Known == session # NoSession

Session(autoPass) == [status |-> "active", autoPass |-> autoPass, expired |-> FALSE]

Decision(r, what, source) == [request |-> r, decision |-> what, source |-> source]

\* allowAuto is an allow that came with the reply to the request itself.
Answers == {"allow", "allowAuto", "deny", "native"}

Answered(r) == hook[r] \in Answers

Init ==
    /\ session = NoSession
    /\ approval = [r \in Requests |-> "none"]
    /\ decisions = {}
    /\ handler = [r \in Requests |-> "idle"]
    /\ hook = [r \in Requests |-> "idle"]
    /\ switches = 0 /\ faults = 0

Fault == faults < MaxFaults /\ faults' = faults + 1

----------------------------------------------------------------------------
(* The session. *)

\* registerCodexSession: auto_pass is what the agent's environment says.
Registers == session' = Session(EnvAutoPass)

Switching == switches < MaxSwitches /\ switches' = switches + 1

\* RegisterAgentSession, from a SessionStart hook, which also runs when a session
\* resumes: the whole row is set, auto-pass included.
Register ==
    /\ Switching
    /\ Registers
    /\ UNCHANGED <<approval, decisions, handler, hook, faults>>

UpdateAutoPass ==
    /\ Known /\ Switching
    /\ \E on \in BOOLEAN : session' = [session EXCEPT !.autoPass = on, !.expired = FALSE]
    /\ UNCHANGED <<approval, decisions, handler, hook, faults>>

\* auto_pass_until passes.
AutoPassEnds ==
    /\ Known /\ session.autoPass /\ ~session.expired
    /\ session' = [session EXCEPT !.expired = TRUE]
    /\ UNCHANGED <<approval, decisions, handler, hook, switches, faults>>

\* AddEvent of a stop.  Nothing asks for the status.
Stop ==
    /\ Known /\ session.status = "active"
    /\ session' = [session EXCEPT !.status = "stopped"]
    /\ UNCHANGED <<approval, decisions, handler, hook, switches, faults>>

----------------------------------------------------------------------------
(* DecideApproval: one transaction. *)

\* A mutant: the status is not looked at.
DecidableAnyway(r) == approval[r] # "none"

Decidable(r) == approval[r] = "pending"

Decided(r, what, source) ==
    /\ approval' = [approval EXCEPT ![r] = what]
    /\ decisions' = decisions \cup {Decision(r, what, source)}

\* decideApproval, /sat approve and /sat deny, whether or not the request has
\* expired or its hook still waits.
Decide(r) ==
    /\ Decidable(r)
    /\ \E what \in {"approved", "denied"} : Decided(r, what, "user")
    /\ UNCHANGED <<session, handler, hook, switches, faults>>

----------------------------------------------------------------------------
(* createApproval. *)

\* policy.Risk reads the tool's name and input, which say the same at every call.
LowRisk(r) == r \in Low

\* policy.Evaluate.
AutoApproves(r) == session.autoPass /\ ~session.expired /\ LowRisk(r)

Evaluate(r) ==
    /\ handler[r] = "evaluate"
    /\ handler' = [handler EXCEPT ![r] = IF ~Known THEN "failed"
                                         ELSE IF AutoApproves(r) THEN "createAuto" ELSE "create"]
    /\ UNCHANGED <<session, approval, decisions, hook, switches, faults>>

\* The agent leaves the row's status to the server.
CreateApproval(r) ==
    /\ handler[r] \in {"create", "createAuto"}
    /\ approval' = [approval EXCEPT ![r] = "pending"]
    /\ handler' = [handler EXCEPT ![r] = IF @ = "create" THEN "pending" ELSE "decide"]
    /\ UNCHANGED <<session, decisions, hook, switches, faults>>

\* The policy's own decision, in a transaction of its own.  If somebody was
\* quicker the handler says "auto" all the same.
DecideAuto(r) ==
    /\ handler[r] = "decide"
    /\ IF Decidable(r) THEN Decided(r, "approved", "auto") ELSE UNCHANGED <<approval, decisions>>
    /\ handler' = [handler EXCEPT ![r] = "auto"]
    /\ UNCHANGED <<session, hook, switches, faults>>

----------------------------------------------------------------------------
(* The hook. *)

\* ensureCodexSession registers a session that is not found, or not answered for.
Ask(r) ==
    /\ hook[r] = "idle"
    /\ hook' = [hook EXCEPT ![r] = "asks"]
    /\ handler' = [handler EXCEPT ![r] = "evaluate"]
    /\ \/ Known /\ UNCHANGED <<session, faults>>
       \/ ~Known /\ Registers /\ UNCHANGED faults
       \/ Fault /\ (Registers \/ UNCHANGED session)
    /\ UNCHANGED <<approval, decisions, switches>>

Answer(r, what) == hook' = [hook EXCEPT ![r] = what]

\* The reply to createApproval.
Hear(r) ==
    /\ hook[r] = "asks" /\ handler[r] \in {"auto", "pending", "failed"}
    /\ Answer(r, CASE handler[r] = "auto" -> "allowAuto" [] handler[r] = "pending" -> "waits" [] OTHER -> "native")
    /\ UNCHANGED <<session, approval, decisions, handler, switches, faults>>

\* The call times out or breaks; the handler goes on.
NotHeard(r) ==
    /\ hook[r] = "asks" /\ Fault
    /\ Answer(r, "native")
    /\ UNCHANGED <<session, approval, decisions, handler, switches>>

\* A poll that finds a decision; others change nothing.
Poll(r) ==
    /\ hook[r] = "waits" /\ approval[r] \in {"approved", "denied"}
    /\ Answer(r, IF approval[r] = "approved" THEN "allow" ELSE "deny")
    /\ UNCHANGED <<session, approval, decisions, handler, switches, faults>>

\* A mutant: no deadline.
AtDeadlineNever(r) == FALSE

AtDeadline(r) == hook[r] = "waits"

\* The wait window is over: the agent falls back to its own approval flow.
GiveUp(r) ==
    /\ AtDeadline(r)
    /\ Answer(r, "native")
    /\ UNCHANGED <<session, approval, decisions, handler, switches, faults>>

Busy == {"evaluate", "create", "createAuto", "decide"}

\* The server dies and starts: handlers end, and their callers see an error.
Restart ==
    /\ Fault
    /\ handler' = [r \in Requests |-> IF hook[r] = "asks" \/ handler[r] \in Busy THEN "failed" ELSE handler[r]]
    /\ UNCHANGED <<session, approval, decisions, hook, switches>>

Serve(r) == Evaluate(r) \/ CreateApproval(r) \/ DecideAuto(r)

Next ==
    \/ Register \/ UpdateAutoPass \/ AutoPassEnds \/ Stop \/ Restart
    \/ \E r \in Requests :
          Serve(r) \/ Decide(r) \/ Ask(r) \/ Hear(r) \/ NotHeard(r) \/ Poll(r) \/ GiveUp(r)

Spec == Init /\ [][Next]_vars

\* Handlers run on, replies arrive, polls and the deadline come.
FairSpec ==
    /\ Spec
    /\ \A r \in Requests : WF_vars(Serve(r)) /\ WF_vars(Hear(r)) /\ WF_vars(Poll(r)) /\ WF_vars(GiveUp(r))

----------------------------------------------------------------------------
(* Properties. *)

Statuses == {"none", "pending", "approved", "denied"}

\* Rows exist for requests that were asked, and only handlers of asked requests
\* are under way.
TypeOK ==
    /\ approval \in [Requests -> Statuses]
    /\ \A r \in Requests : handler[r] # "idle" <=> hook[r] # "idle"
    /\ \A r \in Requests : handler[r] \in {"decide", "auto", "pending"} => approval[r] # "none"

\* Each approval is decided once: its row, and what a waiting hook was told, is the
\* one decision recorded for it, whoever else decided at the same time.
DecidedOnce ==
    \A r \in Requests :
        /\ {d.decision : d \in {e \in decisions : e.request = r}} = {approval[r]} \ {"none", "pending"}
        /\ Cardinality({d \in decisions : d.request = r}) <= 1
        /\ hook[r] = "deny" => approval[r] = "denied"
        /\ hook[r] = "allow" => approval[r] = "approved"

\* A hook never hangs: it answers, or leaves the question to its tool, whatever
\* becomes of the server and the people asked.
HooksAnswer == \A r \in Requests : hook[r] = "asks" ~> Answered(r)
=============================================================================
