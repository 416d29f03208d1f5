-------------------------- MODULE CheckoutPromise --------------------------
(***************************************************************************)
(* What FirebaseController.checkOutCart promises its caller, without       *)
(* carts, lists or messages: of a set of parts that are saved in any       *)
(* order, each once, the caller hears once, after the last of them, and    *)
(* hears "true" only when every part was saved.  A check-out whose process *)
(* ends is never heard of again.                                           *)
(***************************************************************************)
CONSTANTS Jobs, Branches

VARIABLES
    state,  \* what is known of each check-out
    left,   \* the parts that are over with
    saved   \* those of them that were saved

vars == << state, left, saved >>

Init ==
    /\ state = [j \in Jobs |-> "idle"]
    /\ left = [j \in Jobs |-> {}]
    /\ saved = [j \in Jobs |-> {}]

Start(j) ==
    /\ state[j] = "idle"
    /\ state' = [state EXCEPT ![j] = "running"]
    /\ UNCHANGED << left, saved >>

Leave(j, b, ok) ==
    /\ state[j] = "running"
    /\ b \notin left[j]
    /\ left' = [left EXCEPT ![j] = @ \cup {b}]
    /\ saved' = [saved EXCEPT ![j] = IF ok THEN @ \cup {b} ELSE @]
    /\ UNCHANGED state

Complete(j) ==
    /\ state[j] = "running"
    /\ left[j] = Branches
    /\ state' = [state EXCEPT ![j] = IF saved[j] = Branches THEN "succeeded" ELSE "failed"]
    /\ UNCHANGED << left, saved >>

\* The check-outs of one process end with it.
Abandon(lost) ==
    /\ \A j \in lost : state[j] = "running"
    /\ state' = [j \in Jobs |-> IF j \in lost THEN "dead" ELSE state[j]]
    /\ UNCHANGED << left, saved >>

Next ==
    \/ \E j \in Jobs :
          \/ Start(j)
          \/ \E b \in Branches : \E ok \in BOOLEAN : Leave(j, b, ok)
          \/ Complete(j)
    \/ \E lost \in SUBSET Jobs : Abandon(lost)

Spec == Init /\ [][Next]_vars
=============================================================================
