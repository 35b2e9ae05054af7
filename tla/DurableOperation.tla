-------------------------- MODULE DurableOperation --------------------------
(***************************************************************************)
(* What one AgentLane promises about operations, whatever their kind: at   *)
(* most one operation is open, an operation is accepted once, its durable  *)
(* cancellation marker is never withdrawn, and the terminal transaction    *)
(* records exactly one result that nothing revises.                        *)
(*                                                                         *)
(* Nothing here says how an operation is executed.  RunLane, SummaryTask   *)
(* and DriveOwnership implement this module.                               *)
(***************************************************************************)
CONSTANTS
    Ops,      \* operation ids
    None      \* "no operation", not one of Ops

VARIABLES
    current,    \* LaneState.current_operation_id
    cancelled,  \* the open operation carries CancelRequestedControl
    result      \* operation_result(id), "none" while there is no record

opVars == <<current, cancelled, result>>

Statuses == {"completed", "declined", "failed", "aborted"}

TypeOK ==
    /\ current \in Ops \union {None}
    /\ cancelled \in BOOLEAN
    /\ result \in [Ops -> Statuses \union {"none"}]

Init ==
    /\ current = None
    /\ cancelled = FALSE
    /\ result = [o \in Ops |-> "none"]

(* AgentLane.accept and its navigation and compaction variants: an idle    *)
(* lane takes an operation that never ran before.                          *)
Accept(o) ==
    /\ current = None
    /\ result[o] = "none"
    /\ current' = o
    /\ UNCHANGED <<cancelled, result>>

(* AgentLane.request_abort: the marker is set once for the open operation. *)
RequestAbort ==
    /\ current # None
    /\ ~cancelled
    /\ cancelled' = TRUE
    /\ UNCHANGED <<current, result>>

(* terminal_writes: the result appears, the operation state disappears and *)
(* the lane becomes idle in one transaction.  "aborted" needs the marker;  *)
(* a marked operation may still end otherwise, when its last transition    *)
(* was already on its way.                                                 *)
Settle(status) ==
    /\ current # None
    /\ status = "aborted" => cancelled
    /\ result' = [result EXCEPT ![current] = status]
    /\ current' = None
    /\ cancelled' = FALSE

Next ==
    \/ \E o \in Ops : Accept(o)
    \/ RequestAbort
    \/ \E status \in Statuses : Settle(status)

Spec == Init /\ [][Next]_opVars

=============================================================================
