----------------------------- MODULE RpcService -----------------------------
(***************************************************************************)
(* What a web handler may rely on when it asks the core, with no queue,      *)
(* connection, thread or process: a request is carried out at most once,     *)
(* unless its delivery has been broken off; it is answered at most once, as  *)
(* done only when it has been carried out, and as refused (for want of a     *)
(* session) only when it has not. An answer that it failed says neither.     *)
(***************************************************************************)
EXTENDS Naturals

CONSTANT Calls

VARIABLES
    call,   \* what the caller sees
    ran,    \* how often the request has been carried out
    broken  \* requests whose delivery has been broken off

vars == <<call, ran, broken>>

Init ==
    /\ call = [c \in Calls |-> "idle"]
    /\ ran = [c \in Calls |-> 0]
    /\ broken = {}

Ask(c) ==
    /\ call[c] = "idle"
    /\ call' = [call EXCEPT ![c] = "waiting"]
    /\ UNCHANGED <<ran, broken>>

\* Its caller may have gone, or been answered before the delivery broke off.
Run(c) ==
    /\ \/ ran[c] = 0 /\ call[c] \in {"waiting", "gone"}
       \/ c \in broken /\ call[c] # "idle"
    /\ ran' = [ran EXCEPT ![c] = @ + 1]
    /\ UNCHANGED <<call, broken>>

Break(c) ==
    /\ call[c] # "idle"
    /\ broken' = broken \cup {c}
    /\ UNCHANGED <<call, ran>>

Answer(c) ==
    /\ call[c] = "waiting"
    /\ \/ call' = [call EXCEPT ![c] = "done"] /\ ran[c] > 0
       \/ call' = [call EXCEPT ![c] = "refused"] /\ (ran[c] = 0 \/ c \in broken)
       \/ call' = [call EXCEPT ![c] = "failed"]
    /\ UNCHANGED <<ran, broken>>

TurnDown(c) ==
    /\ call[c] = "idle"
    /\ call' = [call EXCEPT ![c] = "refused"]
    /\ UNCHANGED <<ran, broken>>

GiveUp(c) ==
    /\ call[c] = "waiting"
    /\ call' = [call EXCEPT ![c] = "gone"]
    /\ UNCHANGED <<ran, broken>>

Next ==
    \E c \in Calls :
        Ask(c) \/ Run(c) \/ Break(c) \/ Answer(c) \/ TurnDown(c) \/ GiveUp(c)

Spec == Init /\ [][Next]_vars
=============================================================================
