--------------------------- MODULE FreshCheckout ---------------------------
(***************************************************************************)
(* Checkout with a history variable: whether every callback of a read so   *)
(* far has merged with the list its device would find at that moment.      *)
(*     External/FirebaseController.swift    getOrders, getListings,        *)
(*                                          checkOutCart                   *)
(*                                                                         *)
(* A callback is overtaken when another check-out of the same device has   *)
(* written the list since the read was answered, and also when the read    *)
(* was refused and found nothing in a list that is not empty.  Its write   *)
(* then drops orders that were saved.  Nothing in the code prevents it;    *)
(* the properties say that on one device this is the only way to lose one. *)
(***************************************************************************)
EXTENDS Checkout

VARIABLE fresh

freshVars == << vars, fresh >>

\* The next callback of d would merge with another list than is there now.
Overtaken(d) ==
    LET answer == Head(answers[d])
        key == Path(answer.branch, job[answer.job].orders)
    IN  answer.found # LocalView(d, answer.branch, key)

FreshInit == Init /\ fresh = TRUE

FreshNext ==
    /\ Next
    /\ fresh' = (fresh /\ \A d \in Devices : ReadCallback(d) => ~Overtaken(d))

FreshSpec == FreshInit /\ [][FreshNext]_freshVars

FairFreshSpec == FreshSpec /\ Fairness

-----------------------------------------------------------------------------
\* On one device, and while no callback has been overtaken, what a branch has saved
\* is in its list and stays there: over overlapping check-outs that read what the
\* others have not been answered yet, refused writes and ends of the process.
SavedWhileFresh == fresh => SavedIsStored

\* ... and no list is ever cut short or reordered.
GrowsWhileFresh ==
    [][fresh => \A b \in Branches : \A k \in Keys :
                    IsSuffix(database[b][k], database'[b][k])]_freshVars
=============================================================================
