----------------------------- MODULE Checkout ------------------------------
(***************************************************************************)
(* The shopping cart of each device, the Orders screen that shows it and   *)
(* the check-out that stores it in the Firebase database:                  *)
(*     Controllers/OrderController.swift    addOrder .. checkOutCart       *)
(*     External/FirebaseController.swift    getOrders, getListings,        *)
(*                                          checkOutCart                   *)
(*     Views/Orders/OrdersTableViewController.swift                        *)
(*     Views/Category/CategoryCollectionViewController.swift  (cart tap)   *)
(*                                                                         *)
(* One tap on Check Out is a job.  A job reads a list, prepends the orders *)
(* it submitted and writes the list back, twice and concurrently: once     *)
(* under the consumer ("orders") and once under the vendor ("listings").   *)
(* A DispatchGroup joins the two branches.                                 *)
(*                                                                         *)
(* Every handler and every Firebase callback of a device runs on its main  *)
(* thread, so each is one step.  That Firebase has the answer to a read is *)
(* a step before the callback: what was found waits in the main queue with *)
(* it.  The handlers, the answers, the callbacks, the main-queue block and *)
(* the other devices interleave freely.                                    *)
(***************************************************************************)
EXTENDS OrderController

CONSTANTS
    Devices,        \* installations of the app
    UserIds,        \* the ids of logged-in users, none of them empty
    FirstUser,      \* the user each device starts with
    Products,
    VendorIds,
    Vendor,         \* product.vendorId
    BlankId,        \* the " " that stands for a missing first order
    Jobs,           \* bound: the check-out taps of a behaviour
    DeviceOf,       \* the device a job is tapped on
    MaxOrders,      \* bound: how many order ids are generated
    MaxLogins,      \* bound: how often a user signs out and the next one in
    ReadsMayFail,   \* whether a Firebase read may be refused
    WritesMayFail   \* whether a Firebase write may be refused

ASSUME CheckoutAssumption ==
    /\ FirstUser \in [Devices -> UserIds]
    /\ Vendor \in [Products -> VendorIds]
    /\ DeviceOf \in [Jobs -> Devices]
    /\ BlankId \notin UserIds \cup VendorIds
    /\ MaxOrders \in Nat
    /\ MaxLogins \in Nat
    /\ ReadsMayFail \in BOOLEAN
    /\ WritesMayFail \in BOOLEAN

VARIABLES
    user,          \* the cached user id of each device
    cart,          \* the orders in UserDefaults
    orders,        \* OrdersTableViewController.orders
    rows,          \* the number of rows the table view has been told of
    canCheckOut,   \* whether the Check Out button is enabled
    onScreen,      \* whether the Orders screen is in front
    refreshQueued, \* whether the main queue holds the refresh of a check-out
    job,           \* the check-outs
    branch,        \* how far each of the two branches of a job is
    answers,       \* the callbacks of reads in the main queue, with the list found
    outbox,        \* the writes of a device the server has not answered yet
    database,      \* the lists the server holds
    nextId,        \* the order id generateOrderId returns next
    logins         \* how many times the user of some device has changed

screen == << orders, rows, canCheckOut, onScreen, refreshQueued >>
account == << user, logins >>
vars == << user, cart, orders, rows, canCheckOut, onScreen, refreshQueued,
           job, branch, answers, outbox, database, nextId, logins >>

Branches == {"orders", "listings"}
Keys == UserIds \cup VendorIds \cup {BlankId}
Order == [id : 1..MaxOrders, product : Products,
          quantity : 1..MaxQuantity, consumerId : UserIds]
Answer == [job : Jobs, branch : Branches, found : Seq(Order)]
Write == [job : Jobs, branch : Branches, value : Seq(Order)]
Statuses == {"idle", "running", "succeeded", "failed", "dead"}
Progress == {"none", "reading", "answered", "writing", "saved", "rejected"}
Job == [status : Statuses, orders : Seq(Order), attached : BOOLEAN]

-----------------------------------------------------------------------------
(***************************************************************************)
(* Where a job stores its orders: under the consumer and the vendor of the *)
(* FIRST order, whatever the other orders say.                             *)
(***************************************************************************)
\* Wrong version: the consumer's list is filed under the vendor.
SwappedPath(b, submitted) ==
    IF submitted = << >> THEN BlankId
    ELSE Vendor[Head(submitted).product]

Path(b, submitted) ==
    IF submitted = << >> THEN BlankId
    ELSE IF b = "orders" THEN Head(submitted).consumerId
                         ELSE Vendor[Head(submitted).product]

\* Wrong version: the orders already stored are forgotten.
MergeForgets(submitted, existing) == submitted

\* Wrong version: the orders submitted now are merged twice.
MergeTwice(submitted, existing) == submitted \o submitted \o existing

Merge(submitted, existing) == submitted \o existing

\* The writes waiting in d's outbox that end up in list b of key k.
PendingWrites(d, b, k) ==
    {i \in DOMAIN outbox[d] : /\ outbox[d][i].branch = b
                              /\ Path(b, job[outbox[d][i].job].orders) = k}

\* Firebase answers a read from the device's own unanswered write to that very
\* path when there is one, and otherwise with what the server holds.
LocalView(d, b, k) ==
    IF PendingWrites(d, b, k) = {} THEN database[b][k]
    ELSE outbox[d][Max(PendingWrites(d, b, k))].value

-----------------------------------------------------------------------------
Init ==
    /\ user = FirstUser
    /\ cart = [d \in Devices |-> EmptyCart]
    /\ orders = [d \in Devices |-> << >>]
    /\ rows = [d \in Devices |-> 0]
    /\ canCheckOut = [d \in Devices |-> FALSE]
    /\ onScreen = [d \in Devices |-> FALSE]
    /\ refreshQueued = [d \in Devices |-> FALSE]
    /\ job = [j \in Jobs |-> [status |-> "idle", orders |-> << >>, attached |-> FALSE]]
    /\ branch = [j \in Jobs |-> [b \in Branches |-> "none"]]
    /\ answers = [d \in Devices |-> << >>]
    /\ outbox = [d \in Devices |-> << >>]
    /\ database = [b \in Branches |-> [k \in Keys |-> << >>]]
    /\ nextId = 1
    /\ logins = 0

\* The cart button of a product cell, on the Category screen.
AddToCart(d, p) ==
    /\ ~onScreen[d]
    /\ IF IsProductInCart(cart[d], p)
       THEN nextId' = nextId
       ELSE /\ nextId <= MaxOrders
            /\ nextId' = nextId + 1
    /\ cart' = [cart EXCEPT ![d] = AddOrder(@, nextId, p, user[d])]
    /\ UNCHANGED << screen, job, branch, answers, outbox, database, account >>

\* viewWillAppear
ShowOrders(d) ==
    /\ ~onScreen[d]
    /\ onScreen' = [onScreen EXCEPT ![d] = TRUE]
    /\ orders' = [orders EXCEPT ![d] = cart[d]]
    /\ rows' = [rows EXCEPT ![d] = Len(cart[d])]
    /\ canCheckOut' = [canCheckOut EXCEPT ![d] = cart[d] # << >>]
    /\ UNCHANGED << refreshQueued, cart,
                    job, branch, answers, outbox, database, nextId, account >>

\* Another tab, or the Apple Pay screen the Check Out button also opens.
HideOrders(d) ==
    /\ onScreen[d]
    /\ onScreen' = [onScreen EXCEPT ![d] = FALSE]
    /\ UNCHANGED << orders, rows, canCheckOut, refreshQueued,
                    cart, job, branch, answers, outbox, database, nextId, account >>

\* The process of d is gone: its screen, its callbacks and the writes the
\* server has not taken.  What UserDefaults holds survives.
ProcessEnds(d) ==
    /\ orders' = [orders EXCEPT ![d] = << >>]
    /\ rows' = [rows EXCEPT ![d] = 0]
    /\ canCheckOut' = [canCheckOut EXCEPT ![d] = FALSE]
    /\ onScreen' = [onScreen EXCEPT ![d] = FALSE]
    /\ refreshQueued' = [refreshQueued EXCEPT ![d] = FALSE]
    /\ answers' = [answers EXCEPT ![d] = << >>]
    /\ outbox' = [outbox EXCEPT ![d] = << >>]
    /\ job' = [j \in Jobs |-> IF DeviceOf[j] = d /\ job[j].status = "running"
                              THEN [job[j] EXCEPT !.status = "dead"] ELSE job[j]]

\* The user quits the app, or iOS ends it.
Terminate(d) ==
    /\ ProcessEnds(d)
    /\ UNCHANGED << cart, branch, database, nextId, account >>

\* Deleting the order behind a row and what is then left in the cart.
CartWithoutRow(d, row) == RemoveOrder(cart[d], orders[d][row].id)

\* tableView(_:commit:forRowAt:)
DeleteRow(d, row) ==
    /\ onScreen[d]
    /\ row <= rows[d]
    /\ row <= Len(orders[d])
    /\ Len(CartWithoutRow(d, row)) = rows[d] - 1
    /\ cart' = [cart EXCEPT ![d] = CartWithoutRow(d, row)]
    /\ orders' = [orders EXCEPT ![d] = cart'[d]]
    /\ rows' = [rows EXCEPT ![d] = Len(cart'[d])]
    /\ canCheckOut' = [canCheckOut EXCEPT ![d] = cart'[d] # << >>]
    /\ UNCHANGED << onScreen, refreshQueued,
                    job, branch, answers, outbox, database, nextId, account >>

\* The same handler when the table shows a row the array no longer has (the
\* subscript traps), or when the rows left do not add up for deleteRows (UIKit
\* raises after the cart was written).  Either ends the process.
DeleteRowRaises(d, row) ==
    /\ onScreen[d]
    /\ row <= rows[d]
    /\ \/ /\ row > Len(orders[d])
          /\ UNCHANGED cart
       \/ /\ row <= Len(orders[d])
          /\ Len(CartWithoutRow(d, row)) # rows[d] - 1
          /\ cart' = [cart EXCEPT ![d] = CartWithoutRow(d, row)]
    /\ ProcessEnds(d)
    /\ UNCHANGED << branch, database, nextId, account >>

\* Sign out on the Browse screen and a login that leads back to the consumer
\* screens.  signOut clears the cached user and nothing else.  The new screens
\* are new controllers: the jobs under way keep a hold of the old ones.
Relogin(d, u) ==
    /\ ~onScreen[d]
    /\ logins < MaxLogins
    /\ logins' = logins + 1
    /\ user' = [user EXCEPT ![d] = u]
    /\ orders' = [orders EXCEPT ![d] = << >>]
    /\ rows' = [rows EXCEPT ![d] = 0]
    /\ canCheckOut' = [canCheckOut EXCEPT ![d] = FALSE]
    /\ refreshQueued' = [refreshQueued EXCEPT ![d] = FALSE]
    /\ job' = [j \in Jobs |-> IF DeviceOf[j] = d
                              THEN [job[j] EXCEPT !.attached = FALSE] ELSE job[j]]
    /\ UNCHANGED << onScreen, cart, branch, answers, outbox, database, nextId >>

-----------------------------------------------------------------------------
(***************************************************************************)
(* Check-out.                                                              *)
(***************************************************************************)
\* checkOutButtonItemDidTap: the orders on screen are submitted, not the cart,
\* and nothing keeps the button from being tapped again.
CheckOutTap(d, j) ==
    /\ onScreen[d]
    /\ canCheckOut[d]
    /\ DeviceOf[j] = d
    /\ job[j].status = "idle"
    /\ job' = [job EXCEPT ![j] = [status |-> "running", orders |-> orders[d], attached |-> TRUE]]
    /\ branch' = [branch EXCEPT ![j] = [b \in Branches |-> "reading"]]
    /\ UNCHANGED << screen, cart, answers, outbox, database, nextId, account >>

\* Firebase has the answer to a read: its callback, with the list found, waits for
\* the main thread.
Reply(j, b, list) ==
    /\ job[j].status = "running"
    /\ branch[j][b] = "reading"
    /\ branch' = [branch EXCEPT ![j][b] = "answered"]
    /\ answers' = [answers EXCEPT ![DeviceOf[j]] =
                      Append(@, [job |-> j, branch |-> b, found |-> list])]
    /\ UNCHANGED << screen, cart, job, outbox, database, nextId, account >>

\* getOrders and getListings find a list.
ReadReply(j, b) == Reply(j, b, LocalView(DeviceOf[j], b, Path(b, job[j].orders)))

\* They find nil after an error, and the check-out carries on with no list.
ReadError(j, b) ==
    /\ ReadsMayFail
    /\ PendingWrites(DeviceOf[j], b, Path(b, job[j].orders)) = {}
    /\ Reply(j, b, << >>)

\* setValue: the write joins the outbox of the device.
SetValue(j, b, value) ==
    /\ job[j].status = "running"
    /\ branch[j][b] = "answered"
    /\ branch' = [branch EXCEPT ![j][b] = "writing"]
    /\ outbox' = [outbox EXCEPT ![DeviceOf[j]] =
                     Append(@, [job |-> j, branch |-> b, value |-> value])]
    /\ UNCHANGED << screen, cart, job, database, nextId, account >>

\* The oldest callback runs: what was found when the read was answered, not what
\* is stored by now, is merged and written.
ReadCallback(d) ==
    /\ answers[d] # << >>
    /\ LET answer == Head(answers[d])
       IN  SetValue(answer.job, answer.branch,
                    Merge(job[answer.job].orders, answer.found))
    /\ answers' = [answers EXCEPT ![d] = Tail(@)]

\* The server answers the oldest write of d: its completion block runs.
Answered(d, result) ==
    LET write == Head(outbox[d])
    IN  /\ outbox[d] # << >>
        /\ outbox' = [outbox EXCEPT ![d] = Tail(@)]
        /\ branch' = [branch EXCEPT ![write.job][write.branch] = result]
        /\ UNCHANGED << screen, cart, job, answers, nextId, account >>

WriteSaved(d) ==
    LET write == Head(outbox[d])
        key == Path(write.branch, job[write.job].orders)
    IN  /\ Answered(d, "saved")
        /\ database' = [database EXCEPT ![write.branch][key] = write.value]

\* Wrong version: a branch leaves the group only when its list was saved.
RejectedWithoutLeave(d) ==
    /\ WritesMayFail
    /\ outbox[d] # << >>
    /\ outbox' = [outbox EXCEPT ![d] = Tail(@)]
    /\ UNCHANGED << screen, cart, job, branch, answers, database, nextId, account >>

WriteRejected(d) ==
    /\ WritesMayFail
    /\ Answered(d, "rejected")
    /\ UNCHANGED database

\* Both branches have left the DispatchGroup.
Joined(j) == \A b \in Branches : branch[j][b] \in {"saved", "rejected"}

\* Wrong version: one saved list is taken for two.
EitherSaved(j) == \E b \in Branches : branch[j][b] = "saved"

BothSaved(j) == \A b \in Branches : branch[j][b] = "saved"

\* dispatchGroup.notify: completion(true) empties the whole cart, and the
\* screen that started the check-out reads it back and queues a refresh.
NotifySuccess(j) ==
    LET d == DeviceOf[j]
    IN  /\ job[j].status = "running"
        /\ Joined(j)
        /\ BothSaved(j)
        /\ job' = [job EXCEPT ![j].status = "succeeded"]
        /\ cart' = [cart EXCEPT ![d] = EmptyCart]
        /\ IF job[j].attached
           THEN /\ orders' = [orders EXCEPT ![d] = cart'[d]]
                /\ refreshQueued' = [refreshQueued EXCEPT ![d] = TRUE]
           ELSE UNCHANGED << orders, refreshQueued >>
        /\ UNCHANGED << rows, canCheckOut, onScreen,
                        branch, answers, outbox, database, nextId, account >>

\* completion(false): the cart and the screen stay as they are.
NotifyFailure(j) ==
    /\ job[j].status = "running"
    /\ Joined(j)
    /\ ~BothSaved(j)
    /\ job' = [job EXCEPT ![j].status = "failed"]
    /\ UNCHANGED << screen, cart, branch, answers, outbox, database, nextId, account >>

\* Wrong version: the buttons are refreshed and the rows are not.
RefreshWithoutReload(d) ==
    /\ refreshQueued[d]
    /\ refreshQueued' = [refreshQueued EXCEPT ![d] = FALSE]
    /\ canCheckOut' = [canCheckOut EXCEPT ![d] = orders[d] # << >>]
    /\ UNCHANGED << orders, rows, onScreen, cart,
                    job, branch, answers, outbox, database, nextId, account >>

\* The block given to DispatchQueue.main.async after a success.
Refresh(d) ==
    /\ refreshQueued[d]
    /\ refreshQueued' = [refreshQueued EXCEPT ![d] = FALSE]
    /\ rows' = [rows EXCEPT ![d] = Len(orders[d])]
    /\ canCheckOut' = [canCheckOut EXCEPT ![d] = orders[d] # << >>]
    /\ UNCHANGED << orders, onScreen, cart,
                    job, branch, answers, outbox, database, nextId, account >>

-----------------------------------------------------------------------------
Next ==
    \/ \E d \in Devices :
          \/ \E p \in Products : AddToCart(d, p)
          \/ ShowOrders(d)
          \/ HideOrders(d)
          \/ \E row \in 1..MaxOrders : DeleteRow(d, row) \/ DeleteRowRaises(d, row)
          \/ \E u \in UserIds : Relogin(d, u)
          \/ \E j \in Jobs : CheckOutTap(d, j)
          \/ Terminate(d)
          \/ ReadCallback(d)
          \/ WriteSaved(d)
          \/ WriteRejected(d)
          \/ Refresh(d)
    \/ \E j \in Jobs :
          \/ \E b \in Branches : ReadReply(j, b) \/ ReadError(j, b)
          \/ NotifySuccess(j)
          \/ NotifyFailure(j)

Spec == Init /\ [][Next]_vars

(***************************************************************************)
(* Fairness.  Firebase answers every read and every write that is          *)
(* outstanding, and the main queue runs the blocks given to it.  Nobody    *)
(* has to tap anything.                                                    *)
(***************************************************************************)
Fairness ==
    /\ \A j \in Jobs :
          /\ \A b \in Branches : WF_vars(ReadReply(j, b) \/ ReadError(j, b))
          /\ WF_vars(NotifySuccess(j) \/ NotifyFailure(j))
    /\ \A d \in Devices :
          /\ WF_vars(ReadCallback(d))
          /\ WF_vars(WriteSaved(d) \/ WriteRejected(d))
          /\ WF_vars(Refresh(d))

FairSpec == Spec /\ Fairness

-----------------------------------------------------------------------------
TypeOK ==
    /\ user \in [Devices -> UserIds]
    /\ cart \in [Devices -> Seq(Order)]
    /\ orders \in [Devices -> Seq(Order)]
    /\ rows \in [Devices -> Nat]
    /\ canCheckOut \in [Devices -> BOOLEAN]
    /\ onScreen \in [Devices -> BOOLEAN]
    /\ refreshQueued \in [Devices -> BOOLEAN]
    /\ job \in [Jobs -> Job]
    /\ branch \in [Jobs -> [Branches -> Progress]]
    /\ answers \in [Devices -> Seq(Answer)]
    /\ outbox \in [Devices -> Seq(Write)]
    /\ database \in [Branches -> [Keys -> Seq(Order)]]
    /\ nextId \in 1..(MaxOrders + 1)
    /\ logins \in 0..MaxLogins

\* Ids in a cart have been given out, so the next one is new to every cart.
IdsIssued ==
    \A d \in Devices : \A n \in DOMAIN cart[d] : cart[d][n].id < nextId

\* A check-out that has not been tapped has no branch under way.
IdleJobsUntouched ==
    \A j \in Jobs : job[j].status = "idle" => branch[j] = [b \in Branches |-> "none"]

(***************************************************************************)
(* What should never be seen, whatever the interleaving.                   *)
(***************************************************************************)
\* addOrder's search keeps one row per product and generateOrderId one id per
\* row; removeOrder and the merge rely on it, across any sequence of adds,
\* deletes, check-outs and restarts.
CartOneRowPerProduct ==
    \A d \in Devices : OneRowPerProduct(cart[d])

\* A callback waits in the queue of the device its check-out was tapped on.
AnswersAreExpected ==
    \A d \in Devices : \A n \in DOMAIN answers[d] :
        /\ DeviceOf[answers[d][n].job] = d
        /\ job[answers[d][n].job].status # "idle"

\* What is in an outbox belongs to a check-out of that device that is still
\* running and still waits for it.
OutboxIsLive ==
    \A d \in Devices : \A n \in DOMAIN outbox[d] :
        LET write == outbox[d][n]
        IN  /\ DeviceOf[write.job] = d
            /\ job[write.job].status = "running"
            /\ branch[write.job][write.branch] = "writing"

OutboxHasNoRepeats ==
    \A d \in Devices : \A m, n \in DOMAIN outbox[d] :
        m # n => \/ outbox[d][m].job # outbox[d][n].job
                 \/ outbox[d][m].branch # outbox[d][n].branch

WritesAreQueued ==
    \A j \in Jobs : \A b \in Branches :
        job[j].status = "running" /\ branch[j][b] = "writing"
        => \E n \in DOMAIN outbox[DeviceOf[j]] :
              /\ outbox[DeviceOf[j]][n].job = j
              /\ outbox[DeviceOf[j]][n].branch = b

\* Every branch that waits for a completion block has exactly one write in the
\* outbox of its own, living, process, so each DispatchGroup enter is matched by
\* one leave.
BranchesMatchOutbox == OutboxIsLive /\ OutboxHasNoRepeats /\ WritesAreQueued

\* Unless the refresh after a check-out is still queued, deleting any row on
\* screen takes exactly one order out of the cart, so that deleteRows adds up.
\* It needs the array, the stored cart and the rows told to the table to agree.
SettledDeleteIsSafe ==
    \A d \in Devices :
        onScreen[d] /\ ~refreshQueued[d] =>
            \A row \in 1..rows[d] :
                /\ row <= Len(orders[d])
                /\ Len(CartWithoutRow(d, row)) = rows[d] - 1

\* Every order submitted is somewhere in the list.
Holds(list, submitted) ==
    \A n \in DOMAIN submitted : \E m \in DOMAIN list : list[m] = submitted[n]

\* All orders submitted are in the list their branch is said to have saved.
\* It lasts: nothing that is saved later may overwrite it.  The code does not
\* keep to it when a list changes between a read and its callback, which is
\* why FreshCheckout says when it holds.
SavedIsStored ==
    \A j \in Jobs : \A b \in Branches :
        branch[j][b] = "saved" =>
            Holds(database[b][Path(b, job[j].orders)], job[j].orders)

\* No order is stored more often than the check-outs that sent it: a read
\* that sees unanswered writes must not count them twice.
NoExtraCopies ==
    \A b \in Branches : \A k \in Keys : \A id \in 1..MaxOrders :
        Cardinality({n \in DOMAIN database[b][k] : database[b][k][n].id = id})
          <= Cardinality({j \in Jobs : /\ branch[j][b] \in {"writing", "saved", "rejected"}
                                       /\ IsOrderInCart(job[j].orders, id)})

\* A consumer's list holds the orders of that consumer.
ConsumersGetTheirOwn ==
    \A k \in Keys : \A n \in DOMAIN database["orders"][k] :
        database["orders"][k][n].consumerId = k

\* Until another user logs in on a device, which keeps the cart.
OwnUntilRelogin == logins = 0 => ConsumersGetTheirOwn

\* The inductive invariant behind the safety theorems of Checkout_proofs.
CheckoutInv ==
    /\ TypeOK
    /\ IdsIssued
    /\ CartOneRowPerProduct
    /\ IdleJobsUntouched
    /\ AnswersAreExpected
    /\ BranchesMatchOutbox

\* The strengthening behind SettledDeleteIsSafe while nobody logs out: the screen
\* in front holds the stored cart, and the table was told of it.
ScreenInv ==
    /\ \A j \in Jobs : job[j].status = "running" => job[j].attached
    /\ \A d \in Devices : onScreen[d] =>
          /\ orders[d] = cart[d]
          /\ ~refreshQueued[d] => rows[d] = Len(orders[d])

\* The strengthening behind SavedIsStored on one device while no callback has been
\* overtaken (module FreshCheckout): the lists that lead to one path, the server's
\* first and then those in the outbox, each end with the one before.
KeyOf(write) == Path(write.branch, job[write.job].orders)

SamePath(v, w) == v.branch = w.branch /\ KeyOf(v) = KeyOf(w)

EndsWith(list, tail) ==
    /\ Len(tail) <= Len(list)
    /\ \A n \in 1..Len(tail) : list[(Len(list) - Len(tail)) + n] = tail[n]

HistoryInv ==
    /\ SavedIsStored
    /\ \A d \in Devices : \A n \in DOMAIN outbox[d] :
          LET write == outbox[d][n]
          IN  /\ Holds(write.value, job[write.job].orders)
              /\ EndsWith(write.value, database[write.branch][KeyOf(write)])
              /\ \A m \in 1..(n - 1) :
                    SamePath(outbox[d][m], write) => EndsWith(write.value, outbox[d][m].value)

(***************************************************************************)
(* What a step may never do.                                               *)
(***************************************************************************)
\* The lists only grow: a check-out merges its orders with what is stored.
\* Neither does the code keep to this, with two devices or with one.
HistoryAppendOnly ==
    [][\A b \in Branches : \A k \in Keys :
          IsSuffix(database[b][k], database'[b][k])]_vars

\* The step of d is the success of one of its check-outs.
CheckedOut(d, j) ==
    /\ DeviceOf[j] = d
    /\ job[j].status = "running"
    /\ job'[j].status = "succeeded"

\* An order leaves the cart because the user deleted a row of it, or because
\* some check-out has both its lists saved: never because a write failed, a
\* process died or somebody else logged in.
CartKeptUntilSaved ==
    [][\A d \in Devices : \A n \in DOMAIN cart[d] :
          ~ IsOrderInCart(cart'[d], cart[d][n].id) =>
              \/ /\ onScreen[d]
                 /\ IsOrderInCart(orders[d], cart[d][n].id)
                 /\ Len(cart'[d]) = Len(cart[d]) - 1
              \/ \E j \in Jobs : /\ CheckedOut(d, j)
                                 /\ \A b \in Branches : branch[j][b] = "saved"]_vars

(***************************************************************************)
(* The check-out implements CheckoutPromise: the status a job ends with is *)
(* the one both its branches account for.                                  *)
(***************************************************************************)
Promise == INSTANCE CheckoutPromise WITH
    state <- [j \in Jobs |-> job[j].status],
    left  <- [j \in Jobs |-> {b \in Branches : branch[j][b] \in {"saved", "rejected"}}],
    saved <- [j \in Jobs |-> {b \in Branches : branch[j][b] = "saved"}]

\* checkOutCart calls back once, after both lists are dealt with, and reports
\* success exactly when both were saved, with several check-outs interleaved.
KeepsPromise == Promise!Spec

(***************************************************************************)
(* What must come about.                                                   *)
(***************************************************************************)
\* Every check-out comes to an end: no branch is left waiting in the group.
CheckOutEnds ==
    \A j \in Jobs : job[j].status = "running" ~> job[j].status # "running"

\* After a success the table catches up with the cleared array.
RefreshRuns ==
    \A d \in Devices : refreshQueued[d] ~> rows[d] = Len(orders[d])
=============================================================================
