--------------------------- MODULE DispatchHandler ---------------------------
(***************************************************************************)
(* What the router relies on when it hands a decision to its dispatch      *)
(* handler (DispatchHandler::handoff, router_dispatch.cpp): the target     *)
(* incarnation takes the work of one call at most once, nobody else takes  *)
(* it, and a call is reported as handed off only after the target took it. *)
(* A call that is reported as failed may still be executed later: the      *)
(* handler promises nothing about that.                                    *)
(***************************************************************************)
EXTENDS Naturals

CONSTANTS Callers,       \* threads that call handoff()
          Incarnations   \* backend boots a call may be aimed at

VARIABLES called,   \* called[c]: the call of c has not returned
          target,   \* target[c]: the incarnation of c's latest call
          ran,      \* ran[c]: how often the target executed that call
          handed    \* handed[c]: the handed_off flag of the latest return

vars == <<called, target, ran, handed>>

Init ==
    /\ called = [c \in Callers |-> FALSE]
    /\ target = [c \in Callers |-> 0]
    /\ ran = [c \in Callers |-> 0]
    /\ handed = [c \in Callers |-> FALSE]

Call(c, b) ==
    /\ ~called[c]
    /\ called' = [called EXCEPT ![c] = TRUE]
    /\ target' = [target EXCEPT ![c] = b]
    /\ ran' = [ran EXCEPT ![c] = 0]
    /\ handed' = [handed EXCEPT ![c] = FALSE]

Execute(c) ==
    /\ target[c] # 0
    /\ ran[c] = 0
    /\ ~handed[c]
    /\ ran' = [ran EXCEPT ![c] = 1]
    /\ UNCHANGED <<called, target, handed>>

Return(c, ok) ==
    /\ called[c]
    /\ ok => ran[c] = 1
    /\ called' = [called EXCEPT ![c] = FALSE]
    /\ handed' = [handed EXCEPT ![c] = ok]
    /\ UNCHANGED <<target, ran>>

Next == \E c \in Callers : \/ \E b \in Incarnations : Call(c, b)
                           \/ Execute(c)
                           \/ \E ok \in BOOLEAN : Return(c, ok)

Spec == Init /\ [][Next]_vars

=============================================================================
