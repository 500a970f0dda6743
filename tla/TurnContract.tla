---------------------------- MODULE TurnContract ----------------------------
(***************************************************************************)
(* What one user request promises, whatever happens inside it: a workspace *)
(* change or a risky command happens only under an approval the user gave  *)
(* during this very turn, and the turn ends as finished only when its Task *)
(* State is complete.  A turn may instead stop: denied, failed, exhausted  *)
(* or cancelled; then only operations already given up may still take      *)
(* effect.  Module AgentTurn implements this contract.                     *)
(***************************************************************************)
CONSTANT Keys  \* what an approval is about

VARIABLES
    phase,     \* where the turn is
    planDone,  \* the Task State is complete
    approvals, \* granted by the user in this turn
    effects,   \* approved operations carried out in this turn
    flying     \* approved operations in threads nobody waits for any more

contractVars == <<phase, planDone, approvals, effects, flying>>

Stopped == {"denied", "failed", "exhausted", "cancelled"}
Over == Stopped \cup {"idle", "finished"}
Phases == Over \cup {"working"}

Init ==
    /\ phase = "idle"
    /\ planDone = FALSE
    /\ approvals = {}
    /\ effects = {}
    /\ flying = {}

\* A new request starts with no approval and nothing done.  It keeps or drops
\* the Task State of the previous one: that is for the caller to say.
Begin ==
    /\ phase \in Over
    /\ phase' = "working"
    /\ planDone' \in {FALSE, planDone}
    /\ approvals' = {}
    /\ effects' = {}
    /\ flying' = {}

Plan ==
    /\ phase = "working"
    /\ planDone' \in BOOLEAN
    /\ UNCHANGED <<phase, approvals, effects, flying>>

Approve(k) ==
    /\ phase = "working"
    /\ approvals' = approvals \cup {k}
    /\ UNCHANGED <<phase, planDone, effects, flying>>

Perform(k) ==
    /\ phase = "working"
    /\ k \in approvals
    /\ effects' = effects \cup {k}
    /\ UNCHANGED <<phase, planDone, approvals, flying>>

Finish ==
    /\ phase = "working"
    /\ planDone
    /\ phase' = "finished"
    /\ UNCHANGED <<planDone, approvals, effects, flying>>

\* An operation is given up, but not the thread that carries it out.
Abandon(k) ==
    /\ phase = "working"
    /\ k \in approvals
    /\ flying' = flying \cup {k}
    /\ UNCHANGED <<phase, planDone, approvals, effects>>

\* The turn is cut short, and operations under way with it.
Stop ==
    /\ phase = "working"
    /\ phase' \in Stopped
    /\ \E given \in SUBSET approvals : flying' = flying \cup given
    /\ UNCHANGED <<planDone, approvals, effects>>

\* An abandoned operation takes effect, whether or not the turn is over.
Land(k) ==
    /\ k \in flying
    /\ flying' = flying \ {k}
    /\ effects' = effects \cup {k}
    /\ UNCHANGED <<phase, planDone, approvals>>

Next ==
    \/ Begin
    \/ Plan
    \/ \E k \in Keys : Approve(k) \/ Perform(k) \/ Abandon(k) \/ Land(k)
    \/ Finish
    \/ Stop

Spec == Init /\ [][Next]_contractVars

=============================================================================
