--------------------------- MODULE RequestContract ---------------------------
(***************************************************************************)
(* What sendSystemRequest promises its callers, whatever the ids and slots *)
(* it uses: a call is rejected or ends at most once; it ends with what the *)
(* peer's handler did with this very call, with an error of its own send,  *)
(* or as cancelled if the caller withdrew it.  A call whose send failed    *)
(* was not executed by the peer.                                           *)
(***************************************************************************)
CONSTANT Calls

VARIABLES result,     \* what each caller has
          work,       \* what the peer's handler does with the call
          produced,   \* the calls for which the handler sent a value
          withdrawn   \* the calls whose caller gave up

cvars == <<result, work, produced, withdrawn>>

Init ==
    /\ result = [c \in Calls |-> "idle"]
    /\ work = [c \in Calls |-> "none"]
    /\ produced = {}
    /\ withdrawn = {}

Ask(c) ==
    /\ result[c] = "idle"
    /\ \E answer \in {"pending", "rejected"} : result' = [result EXCEPT ![c] = answer]
    /\ UNCHANGED <<work, produced, withdrawn>>

(* The results a pending call may end with. *)
Justified(c, answer) ==
    \/ answer = "value" /\ c \in produced
    \/ answer = "void" /\ work[c] = "completed" /\ c \notin produced
    \/ answer = "error" /\ work[c] = "failed"
    \/ answer = "sendError" /\ work[c] = "none"
    \/ answer = "cancelled" /\ c \in withdrawn

End(c) ==
    /\ result[c] = "pending"
    /\ \E answer \in {"value", "void", "error", "sendError", "cancelled"} :
         /\ Justified(c, answer)
         /\ result' = [result EXCEPT ![c] = answer]
    /\ UNCHANGED <<work, produced, withdrawn>>

(* The caller withdraws the call, which may end it at once. *)
Withdraw(c) ==
    /\ c \notin withdrawn
    /\ withdrawn' = withdrawn \cup {c}
    /\ \/ UNCHANGED result
       \/ result[c] = "pending" /\ result' = [result EXCEPT ![c] = "cancelled"]
    /\ UNCHANGED <<work, produced>>

(* The peer executes the call at most once, and never one whose send failed. *)
Execute(c) ==
    /\ result[c] \notin {"idle", "rejected", "sendError"}
    /\ \/ /\ work[c] = "none"
          /\ work' = [work EXCEPT ![c] = "running"]
          /\ UNCHANGED produced
       \/ /\ work[c] = "none"
          /\ work' = [work EXCEPT ![c] = "failed"]
          /\ UNCHANGED produced
       \/ /\ work[c] = "running"
          /\ produced' = produced \cup {c}
          /\ UNCHANGED work
       \/ /\ work[c] = "running"
          /\ \E end \in {"completed", "failed"} : work' = [work EXCEPT ![c] = end]
          /\ UNCHANGED produced
    /\ UNCHANGED <<result, withdrawn>>

Next == \E c \in Calls : Ask(c) \/ End(c) \/ Withdraw(c) \/ Execute(c)

Spec == Init /\ [][Next]_cvars
=============================================================================
