-------------------------- MODULE Checkout_proofs --------------------------
(***************************************************************************)
(* Proofs about Checkout for any number of devices, users, products,       *)
(* vendors and check-outs.                                                 *)
(***************************************************************************)
EXTENDS FreshCheckout, SequenceLemmas, FiniteSetTheorems

-----------------------------------------------------------------------------
(***************************************************************************)
(* The search of orders.index(where:).                                     *)
(***************************************************************************)
LEMMA IndexOfProductFinds ==
    ASSUME NEW S, NEW list \in Seq(S), NEW product,
           IsProductInCart(list, product)
    PROVE  /\ IndexOfProduct(list, product) \in 1..Len(list)
           /\ list[IndexOfProduct(list, product)].product = product
<1> DEFINE I == {i \in 1..Len(list) : list[i].product = product}
<1>1. DOMAIN list = 1..Len(list) /\ Len(list) \in Nat
  BY LenProperties
<1>2. I \in SUBSET Nat /\ I # {}
  BY <1>1 DEF IsProductInCart
<1>3. Min(I) \in I
  BY <1>2, MinOfNats, Zenon
<1>4. IndexOfProduct(list, product) = Min(I)
  BY <1>2 DEF IndexOfProduct, SelectInSeq
<1> QED BY <1>3, <1>4

LEMMA IndexOfOrderFinds ==
    ASSUME NEW S, NEW list \in Seq(S), NEW id,
           IsOrderInCart(list, id)
    PROVE  /\ IndexOfOrder(list, id) \in 1..Len(list)
           /\ list[IndexOfOrder(list, id)].id = id
<1> DEFINE I == {i \in 1..Len(list) : list[i].id = id}
<1>1. DOMAIN list = 1..Len(list) /\ Len(list) \in Nat
  BY LenProperties
<1>2. I \in SUBSET Nat /\ I # {}
  BY <1>1 DEF IsOrderInCart
<1>3. Min(I) \in I
  BY <1>2, MinOfNats, Zenon
<1>4. IndexOfOrder(list, id) = Min(I)
  BY <1>2 DEF IndexOfOrder, SelectInSeq
<1> QED BY <1>3, <1>4

-----------------------------------------------------------------------------
(***************************************************************************)
(* Removing a row.                                                         *)
(***************************************************************************)
\* A cart without one order is a cart with one row less whose rows still differ.
LEMMA RemoveOrderProperties ==
    ASSUME NEW S, NEW list \in Seq(S), NEW id
    PROVE  /\ RemoveOrder(list, id) \in Seq(S)
           /\ IsOrderInCart(list, id) => Len(RemoveOrder(list, id)) = Len(list) - 1
           /\ \A n \in DOMAIN RemoveOrder(list, id) :
                 \E m \in DOMAIN list : list[m] = RemoveOrder(list, id)[n]
           /\ OneRowPerProduct(list) => OneRowPerProduct(RemoveOrder(list, id))
<1>1. CASE ~IsOrderInCart(list, id)
  BY <1>1 DEF RemoveOrder
<1>2. CASE IsOrderInCart(list, id)
  <2> DEFINE i == IndexOfOrder(list, id)
             rest == RemoveAt(list, i)
             from(k) == IF k < i THEN k ELSE k + 1
  <2>1. i \in 1..Len(list)
    BY <1>2, IndexOfOrderFinds
  <2>2. Len(list) \in Nat /\ DOMAIN list = 1..Len(list)
    BY LenProperties
  <2> HIDE DEF i
  <2>3. /\ rest \in Seq(S)
        /\ Len(rest) = Len(list) - 1
        /\ \A k \in 1..(Len(list) - 1) : rest[k] = IF k < i THEN list[k] ELSE list[k + 1]
    BY <2>1, RemoveAtShifts
  <2> HIDE DEF rest
  <2>4. DOMAIN rest = 1..(Len(list) - 1)
    BY <2>3, LenProperties
  <2>5. \A k \in DOMAIN rest : from(k) \in DOMAIN list /\ rest[k] = list[from(k)]
    BY <2>1, <2>2, <2>3, <2>4
  <2>6. \A k, l \in DOMAIN rest : k # l => from(k) # from(l)
    BY <2>1, <2>2, <2>4
  <2> HIDE DEF from
  <2>7. OneRowPerProduct(list) => OneRowPerProduct(rest)
    <3>1. SUFFICES ASSUME OneRowPerProduct(list),
                          NEW k \in DOMAIN rest, NEW l \in DOMAIN rest, k # l
                   PROVE  rest[k].product # rest[l].product /\ rest[k].id # rest[l].id
      BY DEF OneRowPerProduct
    <3>2. /\ from(k) \in DOMAIN list /\ rest[k] = list[from(k)]
          /\ from(l) \in DOMAIN list /\ rest[l] = list[from(l)]
          /\ from(k) # from(l)
      BY <2>5, <2>6, <3>1
    <3> QED BY <3>1, <3>2 DEF OneRowPerProduct
  <2>8. \A n \in DOMAIN rest : \E m \in DOMAIN list : list[m] = rest[n]
    BY <2>5
  <2>9. RemoveOrder(list, id) = rest
    BY <1>2 DEF RemoveOrder, rest, i
  <2> QED BY <2>3, <2>7, <2>8, <2>9
<1> QED BY <1>1, <1>2
-----------------------------------------------------------------------------
(***************************************************************************)
(* Adding a product.                                                       *)
(***************************************************************************)
\* A product that is in the cart raises the quantity of its row and nothing else.
LEMMA AddOrderRaises ==
    ASSUME NEW S, NEW list \in Seq(S), NEW id, NEW product, NEW userId,
           IsProductInCart(list, product),
           NEW i, i = IndexOfProduct(list, product),
           [list[i] EXCEPT !.quantity = OneMore(@)] \in S
    PROVE  /\ AddOrder(list, id, product, userId) \in Seq(S)
           /\ Len(AddOrder(list, id, product, userId)) = Len(list)
           /\ \A k \in 1..Len(list) :
                 AddOrder(list, id, product, userId)[k] =
                    IF k = i THEN [list[i] EXCEPT !.quantity = OneMore(@)] ELSE list[k]
<1>1. i \in 1..Len(list)
  BY IndexOfProductFinds
<1> DEFINE row == [list[i] EXCEPT !.quantity = OneMore(@)]
<1>2. AddOrder(list, id, product, userId) = [list EXCEPT ![i] = row]
  BY DEF AddOrder
<1> HIDE DEF row
<1>3. row \in S
  BY DEF row
<1>4. /\ [list EXCEPT ![i] = row] \in Seq(S)
      /\ Len([list EXCEPT ![i] = row]) = Len(list)
      /\ \A k \in 1..Len(list) :
            [list EXCEPT ![i] = row][k] = IF k = i THEN row ELSE list[k]
  BY <1>1, <1>3, ExceptSeq
<1> QED BY <1>2, <1>4 DEF row

\* Adding keeps one row per product, provided the id is not in use.
LEMMA AddOrderKeepsRows ==
    ASSUME NEW S, NEW list \in Seq(S), NEW id, NEW product, NEW userId,
           OneRowPerProduct(list),
           \A k \in DOMAIN list : list[k].id # id,
           \A o \in S : DOMAIN o = {"id", "product", "quantity", "consumerId"},
           \/ ~IsProductInCart(list, product) /\ CreateOrder(id, product, userId) \in S
           \/ IsProductInCart(list, product)
              /\ [list[IndexOfProduct(list, product)] EXCEPT !.quantity = OneMore(@)] \in S
    PROVE  OneRowPerProduct(AddOrder(list, id, product, userId))
<1> DEFINE new == AddOrder(list, id, product, userId)
<1>1. DOMAIN list = 1..Len(list) /\ Len(list) \in Nat
  BY LenProperties
<1>2. CASE IsProductInCart(list, product)
  <2> DEFINE i == IndexOfProduct(list, product)
  <2>1. i \in 1..Len(list)
    BY <1>2, IndexOfProductFinds
  <2>2. /\ new \in Seq(S)
        /\ Len(new) = Len(list)
        /\ \A k \in 1..Len(list) :
              new[k] = IF k = i THEN [list[i] EXCEPT !.quantity = OneMore(@)] ELSE list[k]
    BY <1>2, AddOrderRaises
  <2> HIDE DEF i, new
  <2>3. DOMAIN new = 1..Len(list)
    BY <2>2, LenProperties
  <2>4. ASSUME NEW k \in 1..Len(list)
        PROVE  new[k].product = list[k].product /\ new[k].id = list[k].id
    <3>1. list[k] \in S /\ list[i] \in S
      BY <2>1, <2>4, ElementOfSeq
    <3>2. {"id", "product"} \subseteq DOMAIN list[i]
      BY <3>1
    <3> QED BY <2>2, <2>4, <3>1, <3>2
  <2>5. OneRowPerProduct(new)
    BY <1>1, <2>3, <2>4 DEF OneRowPerProduct
  <2> QED BY <2>5 DEF new
<1>3. CASE ~IsProductInCart(list, product)
  <2> DEFINE row == CreateOrder(id, product, userId)
  <2>1. new = Append(list, row)
    BY <1>3 DEF AddOrder
  <2>2. row \in S /\ row.id = id /\ row.product = product
    BY <1>3 DEF CreateOrder
  <2> HIDE DEF new, row
  <2>3. /\ new \in Seq(S)
        /\ Len(new) = Len(list) + 1
        /\ \A k \in 1..Len(list) : new[k] = list[k]
        /\ new[Len(list) + 1] = row
    BY <2>1, <2>2, AppendProperties
  <2>4. DOMAIN new = 1..(Len(list) + 1)
    BY <2>3, LenProperties
  <2>5. \A k \in 1..Len(list) : list[k].product # product /\ list[k].id # id
    BY <1>1, <1>3 DEF IsProductInCart
  <2>6. ASSUME NEW m \in DOMAIN new, NEW n \in DOMAIN new, m # n
        PROVE  new[m].product # new[n].product /\ new[m].id # new[n].id
    <3>1. m \in 1..Len(list) \/ m = Len(list) + 1
      BY <1>1, <2>4
    <3>2. n \in 1..Len(list) \/ n = Len(list) + 1
      BY <1>1, <2>4
    <3>3. CASE m \in 1..Len(list) /\ n \in 1..Len(list)
      BY <1>1, <2>3, <2>6, <3>3 DEF OneRowPerProduct
    <3>4. CASE m \in 1..Len(list) /\ n = Len(list) + 1
      BY <2>2, <2>3, <2>5, <3>4
    <3>5. CASE m = Len(list) + 1 /\ n \in 1..Len(list)
      BY <2>2, <2>3, <2>5, <3>5
    <3> QED BY <2>6, <3>1, <3>2, <3>3, <3>4, <3>5
  <2>7. OneRowPerProduct(new)
    BY <2>6 DEF OneRowPerProduct
  <2> QED BY <2>7 DEF new
<1> QED BY <1>2, <1>3

USE CheckoutAssumption

-----------------------------------------------------------------------------
(***************************************************************************)
(* The places and values a check-out writes.                               *)
(***************************************************************************)
LEMMA OrderFields ==
    \A o \in Order : /\ DOMAIN o = {"id", "product", "quantity", "consumerId"}
                     /\ o.id \in 1..MaxOrders
                     /\ o.product \in Products
                     /\ o.quantity \in 1..MaxQuantity
                     /\ o.consumerId \in UserIds
BY DEF Order

LEMMA PathIsKey ==
    ASSUME NEW b \in Branches, NEW submitted \in Seq(Order)
    PROVE  Path(b, submitted) \in Keys
<1>1. CASE submitted = << >>
  BY <1>1 DEF Path, Keys
<1>2. CASE submitted # << >>
  <2>1. Head(submitted) \in Order
    BY <1>2, HeadTailProperties
  <2>2. /\ Head(submitted).consumerId \in UserIds
        /\ Vendor[Head(submitted).product] \in VendorIds
    BY <2>1, OrderFields
  <2> QED BY <1>2, <2>2 DEF Path, Keys
<1> QED BY <1>1, <1>2

\* What a device reads back is a list of orders, its own pending one or the
\* server's.
LEMMA LocalViewIsList ==
    ASSUME TypeOK, NEW d \in Devices, NEW b \in Branches, NEW k \in Keys
    PROVE  LocalView(d, b, k) \in Seq(Order)
<1> DEFINE P == PendingWrites(d, b, k)
<1>1. database[b][k] \in Seq(Order)
  BY DEF TypeOK
<1>2. /\ outbox[d] \in Seq(Write)
      /\ Len(outbox[d]) \in Nat
      /\ DOMAIN outbox[d] = 1..Len(outbox[d])
  <2>1. outbox[d] \in Seq(Write)
    BY DEF TypeOK
  <2> QED BY <2>1, LenProperties
<1>3. CASE P # {}
  <2>1. P \in SUBSET (1..Len(outbox[d]))
    BY <1>2 DEF PendingWrites
  <2>2. Max(P) \in P
    BY <1>2, <1>3, <2>1, MaxOfNats
  <2>3. outbox[d][Max(P)] \in Write
    BY <1>2, <2>1, <2>2, ElementOfSeq
  <2> QED BY <1>3, <2>3 DEF LocalView, Write
<1> QED BY <1>1, <1>3 DEF LocalView
-----------------------------------------------------------------------------
(***************************************************************************)
(* The carts: types, ids below nextId and one row per product.             *)
(***************************************************************************)
CartsOK == TypeOK /\ IdsIssued /\ CartOneRowPerProduct

LEMMA CartOfDevice ==
    ASSUME TypeOK, NEW d \in Devices
    PROVE  /\ cart[d] \in Seq(Order)
           /\ Len(cart[d]) \in Nat
           /\ DOMAIN cart[d] = 1..Len(cart[d])
           /\ \A n \in DOMAIN cart[d] : cart[d][n] \in Order
<1>1. cart[d] \in Seq(Order)
  BY DEF TypeOK
<1> QED BY <1>1, LenProperties, ElementOfSeq

LEMMA CartAfterAdd ==
    ASSUME CartsOK, NEW d \in Devices, NEW p \in Products, AddToCart(d, p)
    PROVE  /\ cart'[d] \in Seq(Order)
           /\ OneRowPerProduct(cart'[d])
           /\ \A n \in DOMAIN cart'[d] : cart'[d][n].id < nextId'
           /\ nextId' \in 1..(MaxOrders + 1)
           /\ nextId <= nextId'
<1> DEFINE old == cart[d]
           new == AddOrder(old, nextId, p, user[d])
<1>1. /\ old \in Seq(Order)
      /\ Len(old) \in Nat
      /\ DOMAIN old = 1..Len(old)
      /\ \A n \in 1..Len(old) : old[n] \in Order /\ old[n].id < nextId
      /\ OneRowPerProduct(old)
  BY CartOfDevice DEF CartsOK, IdsIssued, CartOneRowPerProduct
<1>2. cart'[d] = new
  BY DEF AddToCart, CartsOK, TypeOK
<1>3. nextId \in 1..(MaxOrders + 1) /\ user[d] \in UserIds
  BY DEF CartsOK, TypeOK
<1>4. \A n \in DOMAIN old : old[n].id # nextId
  <2>1. \A n \in DOMAIN old : old[n].id \in Nat /\ old[n].id < nextId
    BY <1>1, OrderFields
  <2> QED BY <2>1, <1>3
<1>5. \A o \in Order : DOMAIN o = {"id", "product", "quantity", "consumerId"}
  BY OrderFields
<1> HIDE DEF old
<1>6. CASE IsProductInCart(old, p)
  <2> DEFINE i == IndexOfProduct(old, p)
             row == [old[i] EXCEPT !.quantity = OneMore(@)]
  <2>1. i \in 1..Len(old) /\ old[i] \in Order
    BY <1>1, <1>6, IndexOfProductFinds
  <2>2. nextId' = nextId
    BY <1>6 DEF AddToCart, old
  <2> HIDE DEF i
  <2>3. row \in Order /\ row.id = old[i].id
    <3>1. old[i].quantity \in 1..MaxQuantity
      BY <2>1, OrderFields
    <3>2. OneMore(old[i].quantity) \in 1..MaxQuantity
      BY <3>1, QuantityAssumption DEF OneMore
    <3> QED BY <2>1, <3>2 DEF Order
  <2>4. /\ new \in Seq(Order)
        /\ Len(new) = Len(old)
        /\ \A k \in 1..Len(old) : new[k] = IF k = i THEN row ELSE old[k]
    BY <1>1, <1>6, <2>3, AddOrderRaises DEF i
  <2>5. OneRowPerProduct(new)
    BY <1>1, <1>4, <1>5, <1>6, <2>3, AddOrderKeepsRows DEF i
  <2> HIDE DEF new, row
  <2>6. \A n \in DOMAIN new : new[n].id < nextId'
    <3>1. DOMAIN new = 1..Len(old)
      BY <2>4, LenProperties
    <3> QED BY <1>1, <2>1, <2>2, <2>3, <2>4, <3>1
  <2> QED BY <1>2, <1>3, <2>2, <2>4, <2>5, <2>6
<1>7. CASE ~IsProductInCart(old, p)
  <2> DEFINE row == CreateOrder(nextId, p, user[d])
  <2>1. nextId <= MaxOrders /\ nextId' = nextId + 1
    BY <1>7 DEF AddToCart, old
  <2>2. row \in Order /\ row.id = nextId
    BY <1>3, <2>1, QuantityAssumption DEF CreateOrder, Order
  <2>3. new = Append(old, row)
    BY <1>7 DEF AddOrder
  <2>4. OneRowPerProduct(new)
    BY <1>1, <1>4, <1>5, <1>7, <2>2, AddOrderKeepsRows
  <2> HIDE DEF new, row
  <2>5. /\ new \in Seq(Order)
        /\ Len(new) = Len(old) + 1
        /\ \A k \in 1..Len(old) : new[k] = old[k]
        /\ new[Len(old) + 1] = row
    BY <1>1, <2>2, <2>3, AppendProperties
  <2>6. \A n \in DOMAIN new : new[n].id < nextId'
    <3>1. DOMAIN new = 1..(Len(old) + 1)
      BY <2>5, LenProperties
    <3>2. ASSUME NEW n \in 1..Len(old) PROVE new[n].id < nextId'
      <4>1. old[n].id \in 1..MaxOrders
        BY <1>1, OrderFields
      <4> QED BY <1>1, <1>3, <2>1, <2>5, <4>1
    <3>3. new[Len(old) + 1].id < nextId'
      BY <1>3, <2>1, <2>2, <2>5
    <3> QED BY <1>1, <3>1, <3>2, <3>3
  <2> QED BY <1>2, <1>3, <2>1, <2>4, <2>5, <2>6
<1> QED BY <1>6, <1>7

LEMMA CartAfterRemove ==
    ASSUME CartsOK, NEW d \in Devices, NEW id
    PROVE  /\ RemoveOrder(cart[d], id) \in Seq(Order)
           /\ OneRowPerProduct(RemoveOrder(cart[d], id))
           /\ \A n \in DOMAIN RemoveOrder(cart[d], id) :
                 RemoveOrder(cart[d], id)[n].id < nextId
<1>1. cart[d] \in Seq(Order) /\ OneRowPerProduct(cart[d])
  BY CartOfDevice DEF CartsOK, CartOneRowPerProduct
<1>2. /\ RemoveOrder(cart[d], id) \in Seq(Order)
      /\ OneRowPerProduct(RemoveOrder(cart[d], id))
      /\ \A n \in DOMAIN RemoveOrder(cart[d], id) :
            \E m \in DOMAIN cart[d] : cart[d][m] = RemoveOrder(cart[d], id)[n]
  BY <1>1, RemoveOrderProperties
<1> QED BY <1>2 DEF CartsOK, IdsIssued
-----------------------------------------------------------------------------
(***************************************************************************)
(* Type correctness, one step per action.                                  *)
(***************************************************************************)
LEMMA TypeInit == Init => TypeOK
<1> SUFFICES ASSUME Init PROVE TypeOK
  OBVIOUS
<1>1. << >> \in Seq(Order) /\ << >> \in Seq(Write) /\ << >> \in Seq(Answer)
  BY EmptySeq
<1>2. job \in [Jobs -> Job]
  BY <1>1 DEF Init, Job, Statuses
<1>3. branch \in [Jobs -> [Branches -> Progress]]
  BY DEF Init, Progress
<1>4. database \in [Branches -> [Keys -> Seq(Order)]]
  BY <1>1 DEF Init
<1>5. nextId \in 1..(MaxOrders + 1) /\ logins \in 0..MaxLogins
  BY DEF Init
<1> QED BY <1>1, <1>2, <1>3, <1>4, <1>5 DEF Init, TypeOK, EmptyCart

LEMMA JobWithStatus ==
    ASSUME NEW x \in Job, NEW status \in Statuses
    PROVE  [x EXCEPT !.status = status] \in Job
BY DEF Job

LEMMA ProcessEndsType ==
    ASSUME TypeOK, NEW d \in Devices, ProcessEnds(d)
    PROVE  /\ orders' \in [Devices -> Seq(Order)]
           /\ rows' \in [Devices -> Nat]
           /\ canCheckOut' \in [Devices -> BOOLEAN]
           /\ onScreen' \in [Devices -> BOOLEAN]
           /\ refreshQueued' \in [Devices -> BOOLEAN]
           /\ answers' \in [Devices -> Seq(Answer)]
           /\ outbox' \in [Devices -> Seq(Write)]
           /\ job' \in [Jobs -> Job]
<1>1. << >> \in Seq(Order) /\ << >> \in Seq(Write) /\ << >> \in Seq(Answer)
  BY EmptySeq
<1>2. job' \in [Jobs -> Job]
  <2>1. \A j \in Jobs : job[j] \in Job
    BY DEF TypeOK
  <2>2. \A j \in Jobs : [job[j] EXCEPT !.status = "dead"] \in Job
    BY <2>1, JobWithStatus DEF Statuses
  <2> QED BY <2>1, <2>2 DEF ProcessEnds
<1> QED BY <1>1, <1>2 DEF ProcessEnds, TypeOK

\* Both kinds of answer leave a list of orders in the main queue.
LEMMA AnswerIsList ==
    ASSUME TypeOK, NEW j \in Jobs, NEW b \in Branches, ReadReply(j, b) \/ ReadError(j, b)
    PROVE  \E list \in Seq(Order) : Reply(j, b, list)
<1>1. CASE ReadReply(j, b)
  <2> DEFINE list == LocalView(DeviceOf[j], b, Path(b, job[j].orders))
  <2>1. job[j].orders \in Seq(Order) /\ DeviceOf[j] \in Devices
    BY DEF TypeOK, Job
  <2>2. list \in Seq(Order)
    BY <2>1, PathIsKey, LocalViewIsList
  <2>3. Reply(j, b, list)
    BY <1>1 DEF ReadReply
  <2> QED BY <2>2, <2>3
<1>2. CASE ReadError(j, b)
  <2>1. << >> \in Seq(Order)
    BY EmptySeq
  <2> QED BY <1>2, <2>1 DEF ReadError
<1> QED BY <1>1, <1>2

LEMMA ReplyType ==
    ASSUME TypeOK, NEW j \in Jobs, NEW b \in Branches, NEW list \in Seq(Order),
           Reply(j, b, list)
    PROVE  TypeOK'
<1> DEFINE answer == [job |-> j, branch |-> b, found |-> list]
           d == DeviceOf[j]
<1>1. answer \in Answer /\ d \in Devices /\ answers[d] \in Seq(Answer)
  BY DEF Answer, TypeOK
<1>2. Append(answers[d], answer) \in Seq(Answer)
  BY <1>1, AppendProperties
<1>3. answers' = [answers EXCEPT ![d] = Append(answers[d], answer)]
  BY DEF Reply
<1> HIDE DEF answer, d
<1>4. answers' \in [Devices -> Seq(Answer)]
  BY <1>2, <1>3 DEF TypeOK
<1>5. branch' \in [Jobs -> [Branches -> Progress]]
  BY DEF Reply, TypeOK, Progress
<1> QED BY <1>4, <1>5 DEF Reply, TypeOK, screen, account

\* A callback of d merges the list that waited with it and sets the value.
LEMMA CallbackSets ==
    ASSUME TypeOK, NEW d \in Devices, ReadCallback(d),
           NEW answer, answer = Head(answers[d])
    PROVE  /\ answer \in Answer
           /\ answer.job \in Jobs /\ answer.branch \in Branches
           /\ answer.found \in Seq(Order)
           /\ Merge(job[answer.job].orders, answer.found) \in Seq(Order)
           /\ SetValue(answer.job, answer.branch,
                       Merge(job[answer.job].orders, answer.found))
           /\ answers[d] \in Seq(Answer) /\ answers[d] # << >>
           /\ Tail(answers[d]) \in Seq(Answer)
           /\ answers' = [answers EXCEPT ![d] = Tail(answers[d])]
           /\ answers' \in [Devices -> Seq(Answer)]
<1>1. /\ answers[d] \in Seq(Answer) /\ answers[d] # << >>
      /\ answers' = [answers EXCEPT ![d] = Tail(answers[d])]
  BY DEF TypeOK, ReadCallback
<1>2. answer \in Answer /\ Tail(answers[d]) \in Seq(Answer)
  BY <1>1, HeadTailProperties
<1>3. /\ answer.job \in Jobs /\ answer.branch \in Branches
      /\ answer.found \in Seq(Order)
  BY <1>2 DEF Answer
<1>4. job[answer.job].orders \in Seq(Order)
  BY <1>3 DEF TypeOK, Job
<1>5. Merge(job[answer.job].orders, answer.found) \in Seq(Order)
  BY <1>3, <1>4, ConcatProperties DEF Merge
<1>6. SetValue(answer.job, answer.branch, Merge(job[answer.job].orders, answer.found))
  BY DEF ReadCallback
<1>7. answers' \in [Devices -> Seq(Answer)]
  BY <1>1, <1>2 DEF TypeOK
<1> QED BY <1>1, <1>2, <1>3, <1>5, <1>6, <1>7

LEMMA SetValueType ==
    ASSUME TypeOK, NEW j \in Jobs, NEW b \in Branches,
           NEW value \in Seq(Order), SetValue(j, b, value),
           answers' \in [Devices -> Seq(Answer)]
    PROVE  TypeOK'
<1> DEFINE write == [job |-> j, branch |-> b, value |-> value]
           d == DeviceOf[j]
<1>1. write \in Write /\ d \in Devices
  BY DEF Write
<1>2. outbox[d] \in Seq(Write)
  BY <1>1 DEF TypeOK
<1>3. Append(outbox[d], write) \in Seq(Write)
  BY <1>1, <1>2, AppendProperties
<1>4. outbox' = [outbox EXCEPT ![d] = Append(outbox[d], write)]
  BY DEF SetValue
<1> HIDE DEF write, d
<1>5. outbox' \in [Devices -> Seq(Write)]
  BY <1>3, <1>4 DEF TypeOK
<1>6. branch' \in [Jobs -> [Branches -> Progress]]
  BY DEF SetValue, TypeOK, Progress
<1> QED BY <1>5, <1>6 DEF SetValue, TypeOK, screen, account

LEMMA AnsweredType ==
    ASSUME TypeOK, NEW d \in Devices, NEW result \in {"saved", "rejected"},
           Answered(d, result)
    PROVE  /\ Head(outbox[d]) \in Write
           /\ outbox' \in [Devices -> Seq(Write)]
           /\ branch' \in [Jobs -> [Branches -> Progress]]
<1>1. outbox[d] \in Seq(Write) /\ outbox[d] # << >>
  BY DEF TypeOK, Answered
<1>2. Head(outbox[d]) \in Write /\ Tail(outbox[d]) \in Seq(Write)
  BY <1>1, HeadTailProperties
<1>3. outbox' = [outbox EXCEPT ![d] = Tail(outbox[d])]
  BY DEF Answered
<1>4. branch' = [branch EXCEPT ![Head(outbox[d]).job][Head(outbox[d]).branch] = result]
  BY DEF Answered
<1>5. outbox' \in [Devices -> Seq(Write)]
  BY <1>2, <1>3 DEF TypeOK
<1>6. branch' \in [Jobs -> [Branches -> Progress]]
  BY <1>2, <1>4 DEF TypeOK, Write, Progress
<1> QED BY <1>2, <1>5, <1>6

LEMMA TypeStep ==
    ASSUME CartsOK, [Next]_vars
    PROVE  TypeOK'
<1> USE DEF CartsOK
<1>1. ASSUME NEW d \in Devices, NEW p \in Products, AddToCart(d, p)
      PROVE  TypeOK'
  <2>1. cart'[d] \in Seq(Order) /\ nextId' \in 1..(MaxOrders + 1)
    BY <1>1, CartAfterAdd
  <2>2. cart' \in [Devices -> Seq(Order)]
    BY <1>1, <2>1 DEF AddToCart, TypeOK
  <2> QED BY <1>1, <2>1, <2>2 DEF AddToCart, TypeOK, screen, account
<1>2. ASSUME NEW d \in Devices, ShowOrders(d)
      PROVE  TypeOK'
  <2>1. cart[d] \in Seq(Order) /\ Len(cart[d]) \in Nat
    BY CartOfDevice
  <2>2. (cart[d] # << >>) \in BOOLEAN
    OBVIOUS
  <2> QED BY <1>2, <2>1, <2>2 DEF ShowOrders, TypeOK, account
<1>3. ASSUME NEW d \in Devices, HideOrders(d)
      PROVE  TypeOK'
  BY <1>3 DEF HideOrders, TypeOK, account
<1>4. ASSUME NEW d \in Devices, NEW row \in 1..MaxOrders, DeleteRow(d, row)
      PROVE  TypeOK'
  <2>1. CartWithoutRow(d, row) \in Seq(Order)
    BY CartAfterRemove DEF CartWithoutRow
  <2>2. cart' \in [Devices -> Seq(Order)] /\ cart'[d] = CartWithoutRow(d, row)
    BY <1>4, <2>1 DEF DeleteRow, TypeOK
  <2>3. Len(cart'[d]) \in Nat
    BY <2>1, <2>2, LenProperties
  <2>4. orders' \in [Devices -> Seq(Order)] /\ rows' \in [Devices -> Nat]
    BY <1>4, <2>1, <2>2, <2>3 DEF DeleteRow, TypeOK
  <2>5. canCheckOut' \in [Devices -> BOOLEAN]
    BY <1>4 DEF DeleteRow, TypeOK
  <2> QED BY <1>4, <2>2, <2>4, <2>5 DEF DeleteRow, TypeOK, account
<1>5. ASSUME NEW d \in Devices, NEW row \in 1..MaxOrders, DeleteRowRaises(d, row)
      PROVE  TypeOK'
  <2>1. CartWithoutRow(d, row) \in Seq(Order)
    BY CartAfterRemove DEF CartWithoutRow
  <2>2. cart' \in [Devices -> Seq(Order)]
    BY <1>5, <2>1 DEF DeleteRowRaises, TypeOK
  <2>3. ProcessEnds(d)
    BY <1>5 DEF DeleteRowRaises
  <2> QED BY <1>5, <2>2, <2>3, ProcessEndsType DEF DeleteRowRaises, TypeOK, account
<1>6. ASSUME NEW d \in Devices, NEW u \in UserIds, Relogin(d, u)
      PROVE  TypeOK'
  <2>1. << >> \in Seq(Order)
    BY EmptySeq
  <2>2. job' \in [Jobs -> Job]
    <3>1. \A j \in Jobs : job[j] \in Job
      BY DEF TypeOK
    <3>2. \A j \in Jobs : [job[j] EXCEPT !.attached = FALSE] \in Job
      BY <3>1 DEF Job
    <3> QED BY <1>6, <3>1, <3>2 DEF Relogin
  <2>3. logins' \in 0..MaxLogins
    BY <1>6 DEF Relogin, TypeOK
  <2> QED BY <1>6, <2>1, <2>2, <2>3 DEF Relogin, TypeOK
<1>7. ASSUME NEW d \in Devices, NEW j \in Jobs, CheckOutTap(d, j)
      PROVE  TypeOK'
  <2>1. job' \in [Jobs -> Job]
    BY <1>7 DEF CheckOutTap, TypeOK, Job, Statuses
  <2>2. branch' \in [Jobs -> [Branches -> Progress]]
    BY <1>7 DEF CheckOutTap, TypeOK, Progress
  <2> QED BY <1>7, <2>1, <2>2 DEF CheckOutTap, TypeOK, screen, account
<1>8. ASSUME NEW d \in Devices, Terminate(d)
      PROVE  TypeOK'
  <2>1. ProcessEnds(d)
    BY <1>8 DEF Terminate
  <2> QED BY <1>8, <2>1, ProcessEndsType DEF Terminate, TypeOK, account
<1>9. ASSUME NEW d \in Devices, WriteSaved(d)
      PROVE  TypeOK'
  <2> DEFINE write == Head(outbox[d])
             key == Path(write.branch, job[write.job].orders)
  <2>1. /\ write \in Write
        /\ outbox' \in [Devices -> Seq(Write)]
        /\ branch' \in [Jobs -> [Branches -> Progress]]
    BY <1>9, AnsweredType DEF WriteSaved
  <2>2. database' = [database EXCEPT ![write.branch][key] = write.value]
    BY <1>9 DEF WriteSaved
  <2>3. /\ write.branch \in Branches /\ write.value \in Seq(Order)
        /\ job[write.job].orders \in Seq(Order)
    BY <2>1 DEF Write, TypeOK, Job
  <2>4. key \in Keys
    BY <2>3, PathIsKey
  <2> HIDE DEF write, key
  <2>5. database' \in [Branches -> [Keys -> Seq(Order)]]
    BY <2>2, <2>3, <2>4 DEF TypeOK
  <2> QED BY <1>9, <2>1, <2>5 DEF WriteSaved, Answered, TypeOK, screen, account
<1>10. ASSUME NEW d \in Devices, WriteRejected(d)
       PROVE  TypeOK'
  <2>1. /\ outbox' \in [Devices -> Seq(Write)]
        /\ branch' \in [Jobs -> [Branches -> Progress]]
    BY <1>10, AnsweredType DEF WriteRejected
  <2> QED BY <1>10, <2>1 DEF WriteRejected, Answered, TypeOK, screen, account
<1>11. ASSUME NEW d \in Devices, Refresh(d)
       PROVE  TypeOK'
  <2>1. Len(orders[d]) \in Nat
    BY LenProperties DEF TypeOK
  <2>2. canCheckOut' \in [Devices -> BOOLEAN]
    BY <1>11 DEF Refresh, TypeOK
  <2> QED BY <1>11, <2>1, <2>2 DEF Refresh, TypeOK, account
<1>12. ASSUME NEW j \in Jobs, NEW b \in Branches, ReadReply(j, b) \/ ReadError(j, b)
       PROVE  TypeOK'
  BY <1>12, AnswerIsList, ReplyType
<1>13. ASSUME NEW d \in Devices, ReadCallback(d)
       PROVE  TypeOK'
  <2> DEFINE answer == Head(answers[d])
             value == Merge(job[answer.job].orders, answer.found)
  <2>1. /\ answer.job \in Jobs /\ answer.branch \in Branches
        /\ value \in Seq(Order)
        /\ SetValue(answer.job, answer.branch, value)
        /\ answers' \in [Devices -> Seq(Answer)]
    BY <1>13, CallbackSets
  <2> HIDE DEF answer, value
  <2> QED BY <2>1, SetValueType
<1>14. ASSUME NEW j \in Jobs, NotifySuccess(j)
       PROVE  TypeOK'
  <2>1. << >> \in Seq(Order) /\ DeviceOf[j] \in Devices
    BY EmptySeq
  <2>2. job' \in [Jobs -> Job]
    <3>1. [job[j] EXCEPT !.status = "succeeded"] \in Job
      BY JobWithStatus DEF TypeOK, Statuses
    <3>2. job' = [job EXCEPT ![j] = [job[j] EXCEPT !.status = "succeeded"]]
      BY <1>14 DEF NotifySuccess, TypeOK
    <3> QED BY <3>1, <3>2 DEF TypeOK
  <2>3. cart' \in [Devices -> Seq(Order)] /\ cart'[DeviceOf[j]] = << >>
    BY <1>14, <2>1 DEF NotifySuccess, TypeOK, EmptyCart
  <2>4. orders' \in [Devices -> Seq(Order)] /\ refreshQueued' \in [Devices -> BOOLEAN]
    <3>1. orders \in [Devices -> Seq(Order)] /\ refreshQueued \in [Devices -> BOOLEAN]
      BY DEF TypeOK
    <3> QED BY <1>14, <2>1, <2>3, <3>1 DEF NotifySuccess
  <2> QED BY <1>14, <2>2, <2>3, <2>4 DEF NotifySuccess, TypeOK, account
<1>15. ASSUME NEW j \in Jobs, NotifyFailure(j)
       PROVE  TypeOK'
  <2>1. job' \in [Jobs -> Job]
    <3>1. [job[j] EXCEPT !.status = "failed"] \in Job
      BY JobWithStatus DEF TypeOK, Statuses
    <3>2. job' = [job EXCEPT ![j] = [job[j] EXCEPT !.status = "failed"]]
      BY <1>15 DEF NotifyFailure, TypeOK
    <3> QED BY <3>1, <3>2 DEF TypeOK
  <2> QED BY <1>15, <2>1 DEF NotifyFailure, TypeOK, screen, account
<1>16. CASE UNCHANGED vars
  BY <1>16 DEF vars, TypeOK
<1> HIDE DEF CartsOK
<1> QED
  BY <1>1, <1>2, <1>3, <1>4, <1>5, <1>6, <1>7, <1>8, <1>9, <1>10, <1>11, <1>12,
     <1>13, <1>14, <1>15, <1>16 DEF Next
-----------------------------------------------------------------------------
(***************************************************************************)
(* One row per product.  Only four steps touch a cart.                     *)
(***************************************************************************)
LEMMA RowsOfOneCart ==
    ASSUME CartsOK, NEW d \in Devices,
           \A e \in Devices : e # d => cart'[e] = cart[e],
           OneRowPerProduct(cart'[d]),
           \A n \in DOMAIN cart'[d] : cart'[d][n].id < nextId',
           nextId' \in Nat, nextId <= nextId'
    PROVE  IdsIssued' /\ CartOneRowPerProduct'
<1>1. CartOneRowPerProduct'
  BY DEF CartsOK, CartOneRowPerProduct
<1>2. ASSUME NEW e \in Devices, NEW n \in DOMAIN cart'[e]
      PROVE  cart'[e][n].id < nextId'
  <2>1. CASE e = d
    BY <2>1
  <2>2. CASE e # d
    <3>1. cart'[e] = cart[e] /\ n \in DOMAIN cart[e]
      BY <2>2
    <3>2. cart[e][n].id < nextId
      BY <3>1 DEF CartsOK, IdsIssued
    <3>3. cart[e][n].id \in Nat /\ nextId \in Nat
      <4>1. cart[e][n] \in Order
        BY <3>1, CartOfDevice DEF CartsOK
      <4>2. nextId \in Nat
        BY DEF CartsOK, TypeOK
      <4> QED BY <4>1, <4>2, OrderFields
    <3> QED BY <3>1, <3>2, <3>3
  <2> QED BY <2>1, <2>2
<1> QED BY <1>1, <1>2 DEF IdsIssued

LEMMA CartsStep ==
    ASSUME CartsOK, [Next]_vars
    PROVE  CartsOK'
<1>1. TypeOK'
  BY TypeStep
<1>2. nextId \in Nat
  BY DEF CartsOK, TypeOK
<1>3. ASSUME NEW d \in Devices, NEW p \in Products, AddToCart(d, p)
      PROVE  IdsIssued' /\ CartOneRowPerProduct'
  <2>1. \A e \in Devices : e # d => cart'[e] = cart[e]
    BY <1>3 DEF AddToCart, CartsOK, TypeOK
  <2>2. nextId' \in Nat
    BY <1>1 DEF TypeOK
  <2> QED BY <1>3, <2>1, <2>2, CartAfterAdd, RowsOfOneCart
<1>4. ASSUME NEW d \in Devices, NEW row, nextId' = nextId,
             cart' = [cart EXCEPT ![d] = CartWithoutRow(d, row)]
      PROVE  IdsIssued' /\ CartOneRowPerProduct'
  <2>1. \A e \in Devices : e # d => cart'[e] = cart[e]
    BY <1>4 DEF CartsOK, TypeOK
  <2>2. cart'[d] = RemoveOrder(cart[d], orders[d][row].id)
    BY <1>4 DEF CartsOK, TypeOK, CartWithoutRow
  <2>3. /\ OneRowPerProduct(cart'[d])
        /\ \A n \in DOMAIN cart'[d] : cart'[d][n].id < nextId'
    <3> DEFINE new == RemoveOrder(cart[d], orders[d][row].id)
    <3>1. OneRowPerProduct(new) /\ \A n \in DOMAIN new : new[n].id < nextId
      BY CartAfterRemove
    <3> HIDE DEF new
    <3> QED BY <1>4, <2>2, <3>1 DEF new
  <2> QED BY <1>2, <1>4, <2>1, <2>3, RowsOfOneCart
<1>5. ASSUME NEW d \in Devices, NEW row \in 1..MaxOrders, DeleteRow(d, row)
      PROVE  IdsIssued' /\ CartOneRowPerProduct'
  BY <1>4, <1>5 DEF DeleteRow
<1>6. ASSUME cart' = cart, nextId' = nextId
      PROVE  IdsIssued' /\ CartOneRowPerProduct'
  BY <1>6 DEF CartsOK, IdsIssued, CartOneRowPerProduct
<1>7. ASSUME NEW d \in Devices, NEW row \in 1..MaxOrders, DeleteRowRaises(d, row)
      PROVE  IdsIssued' /\ CartOneRowPerProduct'
  BY <1>4, <1>6, <1>7 DEF DeleteRowRaises
<1>8. ASSUME NEW j \in Jobs, NotifySuccess(j)
      PROVE  IdsIssued' /\ CartOneRowPerProduct'
  <2>1. DeviceOf[j] \in Devices
    OBVIOUS
  <2>2. \A e \in Devices : e # DeviceOf[j] => cart'[e] = cart[e]
    BY <1>8 DEF NotifySuccess, CartsOK, TypeOK
  <2>3. cart'[DeviceOf[j]] = << >> /\ nextId' = nextId
    BY <1>8, <2>1 DEF NotifySuccess, CartsOK, TypeOK, EmptyCart
  <2>4. DOMAIN cart'[DeviceOf[j]] = {}
    BY <2>3
  <2> QED BY <1>2, <2>1, <2>2, <2>3, <2>4, RowsOfOneCart DEF OneRowPerProduct
<1>9. ASSUME NEW d \in Devices,
             \/ ShowOrders(d) \/ HideOrders(d) \/ Terminate(d)
             \/ WriteSaved(d) \/ WriteRejected(d) \/ Refresh(d) \/ ReadCallback(d)
             \/ \E u \in UserIds : Relogin(d, u)
             \/ \E j \in Jobs : CheckOutTap(d, j)
      PROVE  cart' = cart /\ nextId' = nextId
  BY <1>9 DEF ShowOrders, HideOrders, Terminate, WriteSaved, WriteRejected, Answered,
              Refresh, ReadCallback, SetValue, Relogin, CheckOutTap
<1>10. ASSUME NEW j \in Jobs,
              \/ \E b \in Branches : ReadReply(j, b) \/ ReadError(j, b)
              \/ NotifyFailure(j)
       PROVE  cart' = cart /\ nextId' = nextId
  BY <1>10 DEF ReadReply, ReadError, Reply, NotifyFailure
<1>11. ASSUME UNCHANGED vars
       PROVE  IdsIssued' /\ CartOneRowPerProduct'
  BY <1>6, <1>11 DEF vars
<1>12. IdsIssued' /\ CartOneRowPerProduct'
  BY <1>3, <1>5, <1>6, <1>7, <1>8, <1>9, <1>10, <1>11 DEF Next
<1> QED BY <1>1, <1>12 DEF CartsOK

-----------------------------------------------------------------------------
(***************************************************************************)
(* Each branch that waits has one write in the outbox of its device.       *)
(***************************************************************************)
GroupInv == IdleJobsUntouched /\ OutboxIsLive /\ OutboxHasNoRepeats /\ WritesAreQueued

LEMMA OutboxOfDevice ==
    ASSUME TypeOK, NEW d \in Devices
    PROVE  /\ outbox[d] \in Seq(Write)
           /\ Len(outbox[d]) \in Nat
           /\ DOMAIN outbox[d] = 1..Len(outbox[d])
           /\ \A n \in DOMAIN outbox[d] :
                 /\ outbox[d][n] \in Write
                 /\ outbox[d][n].job \in Jobs
                 /\ outbox[d][n].branch \in Branches
<1>1. outbox[d] \in Seq(Write)
  BY DEF TypeOK
<1>2. Len(outbox[d]) \in Nat /\ DOMAIN outbox[d] = 1..Len(outbox[d])
  BY <1>1, LenProperties
<1>3. \A n \in DOMAIN outbox[d] : outbox[d][n] \in Write
  BY <1>1, <1>2, ElementOfSeq
<1>4. \A w \in Write : w.job \in Jobs /\ w.branch \in Branches
  BY DEF Write
<1> QED BY <1>1, <1>2, <1>3, <1>4

\* Steps that change neither a status, a branch nor an outbox.
LEMMA GroupUntouched ==
    ASSUME GroupInv, TypeOK, outbox' = outbox, branch' = branch,
           \A j \in Jobs : job'[j].status = job[j].status
    PROVE  GroupInv'
<1>1. IdleJobsUntouched'
  BY DEF GroupInv, IdleJobsUntouched
<1>2. OutboxIsLive'
  BY OutboxOfDevice DEF GroupInv, OutboxIsLive
<1>3. OutboxHasNoRepeats'
  BY DEF GroupInv, OutboxHasNoRepeats
<1>4. WritesAreQueued'
  BY DEF GroupInv, WritesAreQueued
<1> QED BY <1>1, <1>2, <1>3, <1>4 DEF GroupInv

\* A process that ends takes its check-outs and its outbox with it.
LEMMA GroupAfterProcessEnds ==
    ASSUME GroupInv, TypeOK, NEW d \in Devices, ProcessEnds(d), branch' = branch
    PROVE  GroupInv'
<1>1. /\ outbox'[d] = << >>
      /\ \A e \in Devices : e # d => outbox'[e] = outbox[e]
  BY DEF ProcessEnds, TypeOK
<1>2. \A j \in Jobs :
         job'[j].status = IF DeviceOf[j] = d /\ job[j].status = "running"
                          THEN "dead" ELSE job[j].status
  BY DEF ProcessEnds, TypeOK, Job
<1>3. IdleJobsUntouched'
  BY <1>2 DEF GroupInv, IdleJobsUntouched
<1>4. OutboxIsLive'
  <2>1. SUFFICES ASSUME NEW e \in Devices, NEW n \in DOMAIN outbox'[e]
                 PROVE  /\ DeviceOf[outbox'[e][n].job] = e
                        /\ job'[outbox'[e][n].job].status = "running"
                        /\ branch'[outbox'[e][n].job][outbox'[e][n].branch] = "writing"
    BY DEF OutboxIsLive
  <2>2. e # d
    BY <1>1
  <2>3. outbox'[e][n] = outbox[e][n] /\ n \in DOMAIN outbox[e]
    BY <1>1, <2>2
  <2>4. /\ DeviceOf[outbox[e][n].job] = e
        /\ job[outbox[e][n].job].status = "running"
        /\ branch[outbox[e][n].job][outbox[e][n].branch] = "writing"
        /\ outbox[e][n].job \in Jobs
    BY <2>3, OutboxOfDevice DEF GroupInv, OutboxIsLive
  <2> QED BY <1>2, <2>2, <2>3, <2>4
<1>5. OutboxHasNoRepeats'
  <2>1. ASSUME NEW e \in Devices
        PROVE  \A m, n \in DOMAIN outbox'[e] :
                 m # n => \/ outbox'[e][m].job # outbox'[e][n].job
                          \/ outbox'[e][m].branch # outbox'[e][n].branch
    <3>1. CASE e = d
      BY <1>1, <3>1
    <3>2. CASE e # d
      BY <1>1, <3>2 DEF GroupInv, OutboxHasNoRepeats
    <3> QED BY <3>1, <3>2
  <2> QED BY <2>1 DEF OutboxHasNoRepeats
<1>6. WritesAreQueued'
  BY <1>1, <1>2 DEF GroupInv, WritesAreQueued
<1> QED BY <1>3, <1>4, <1>5, <1>6 DEF GroupInv

\* A new check-out starts with nothing in the outbox.
LEMMA GroupAfterTap ==
    ASSUME GroupInv, TypeOK, NEW d \in Devices, NEW j \in Jobs, CheckOutTap(d, j)
    PROVE  GroupInv'
<1>1. /\ outbox' = outbox
      /\ job[j].status = "idle" /\ job'[j].status = "running"
      /\ branch'[j] = [b \in Branches |-> "reading"]
      /\ \A i \in Jobs : i # j => job'[i] = job[i] /\ branch'[i] = branch[i]
  BY DEF CheckOutTap, TypeOK
<1>2. IdleJobsUntouched'
  BY <1>1 DEF GroupInv, IdleJobsUntouched
<1>3. OutboxIsLive'
  <2>1. \A e \in Devices : \A n \in DOMAIN outbox[e] :
           outbox[e][n].job \in Jobs /\ outbox[e][n].job # j
    BY <1>1, OutboxOfDevice DEF GroupInv, OutboxIsLive
  <2> QED BY <1>1, <2>1 DEF GroupInv, OutboxIsLive
<1>4. OutboxHasNoRepeats'
  BY <1>1 DEF GroupInv, OutboxHasNoRepeats
<1>5. WritesAreQueued'
  BY <1>1 DEF GroupInv, WritesAreQueued
<1> QED BY <1>2, <1>3, <1>4, <1>5 DEF GroupInv

\* A write that joins an outbox is the only one of its branch.
LEMMA GroupAfterSetValue ==
    ASSUME GroupInv, TypeOK, NEW j \in Jobs, NEW b \in Branches,
           NEW value \in Seq(Order), SetValue(j, b, value)
    PROVE  GroupInv'
<1> DEFINE d == DeviceOf[j]
           write == [job |-> j, branch |-> b, value |-> value]
           L == Len(outbox[d])
<1>1. d \in Devices /\ write \in Write /\ write.job = j /\ write.branch = b
  BY DEF Write
<1>2. L \in Nat /\ outbox[d] \in Seq(Write) /\ DOMAIN outbox[d] = 1..L
  BY <1>1, OutboxOfDevice
<1>3. /\ outbox'[d] = Append(outbox[d], write)
      /\ \A e \in Devices : e # d => outbox'[e] = outbox[e]
  BY <1>1 DEF SetValue, TypeOK
<1>4. /\ DOMAIN outbox'[d] = 1..(L + 1)
      /\ \A n \in 1..L : outbox'[d][n] = outbox[d][n]
      /\ outbox'[d][L + 1] = write
  <2>1. /\ Append(outbox[d], write) \in Seq(Write)
        /\ Len(Append(outbox[d], write)) = L + 1
        /\ \A n \in 1..L : Append(outbox[d], write)[n] = outbox[d][n]
        /\ Append(outbox[d], write)[L + 1] = write
    BY <1>1, <1>2, AppendProperties
  <2> QED BY <1>3, <2>1, LenProperties
<1>5. /\ job' = job /\ job[j].status = "running"
      /\ branch[j][b] = "answered" /\ branch'[j][b] = "writing"
      /\ \A i \in Jobs : \A c \in Branches :
            i # j \/ c # b => branch'[i][c] = branch[i][c]
      /\ \A i \in Jobs : i # j => branch'[i] = branch[i]
  BY DEF SetValue, TypeOK
\* No write of this branch was queued before.
<1>6. \A e \in Devices : \A n \in DOMAIN outbox[e] :
         /\ outbox[e][n].job \in Jobs
         /\ outbox[e][n].branch \in Branches
         /\ outbox[e][n].job # j \/ outbox[e][n].branch # b
  BY <1>5, OutboxOfDevice DEF GroupInv, OutboxIsLive
<1> HIDE DEF write, L
<1>7. \A n \in DOMAIN outbox'[d] : n \in DOMAIN outbox[d] \/ n = L + 1
  BY <1>2, <1>4
<1>8. IdleJobsUntouched'
  BY <1>5 DEF GroupInv, IdleJobsUntouched
<1>9. OutboxIsLive'
  <2>1. SUFFICES ASSUME NEW e \in Devices, NEW n \in DOMAIN outbox'[e]
                 PROVE  /\ DeviceOf[outbox'[e][n].job] = e
                        /\ job'[outbox'[e][n].job].status = "running"
                        /\ branch'[outbox'[e][n].job][outbox'[e][n].branch] = "writing"
    BY DEF OutboxIsLive
  <2>2. CASE n \in DOMAIN outbox[e] /\ outbox'[e][n] = outbox[e][n]
    BY <1>5, <1>6, <2>2 DEF GroupInv, OutboxIsLive
  <2>3. CASE e = d /\ n = L + 1
    BY <1>1, <1>4, <1>5, <2>3
  <2> QED BY <1>2, <1>3, <1>4, <1>7, <2>1, <2>2, <2>3
<1>10. OutboxHasNoRepeats'
  <2>1. SUFFICES ASSUME NEW e \in Devices,
                        NEW m \in DOMAIN outbox'[e], NEW n \in DOMAIN outbox'[e], m # n
                 PROVE  \/ outbox'[e][m].job # outbox'[e][n].job
                        \/ outbox'[e][m].branch # outbox'[e][n].branch
    BY DEF OutboxHasNoRepeats
  <2>2. CASE e # d
    <3>1. outbox'[e] = outbox[e]
      BY <1>3, <2>2
    <3> QED BY <2>1, <3>1 DEF GroupInv, OutboxHasNoRepeats
  <2>3. CASE e = d /\ m \in DOMAIN outbox[d] /\ n \in DOMAIN outbox[d]
    BY <1>2, <1>4, <2>1, <2>3 DEF GroupInv, OutboxHasNoRepeats
  <2>4. CASE e = d /\ m \in DOMAIN outbox[d] /\ n = L + 1
    BY <1>1, <1>2, <1>4, <1>6, <2>4
  <2>5. CASE e = d /\ m = L + 1 /\ n \in DOMAIN outbox[d]
    BY <1>1, <1>2, <1>4, <1>6, <2>5
  <2> QED BY <1>7, <2>1, <2>2, <2>3, <2>4, <2>5
<1>11. WritesAreQueued'
  <2>1. SUFFICES ASSUME NEW i \in Jobs, NEW c \in Branches,
                        job'[i].status = "running", branch'[i][c] = "writing"
                 PROVE  \E n \in DOMAIN outbox'[DeviceOf[i]] :
                           /\ outbox'[DeviceOf[i]][n].job = i
                           /\ outbox'[DeviceOf[i]][n].branch = c
    BY DEF WritesAreQueued
  <2>2. CASE i = j /\ c = b
    <3>1. L + 1 \in DOMAIN outbox'[d]
      BY <1>2, <1>4
    <3> QED BY <1>1, <1>4, <2>2, <3>1
  <2>3. CASE i # j \/ c # b
    <3>1. PICK n \in DOMAIN outbox[DeviceOf[i]] :
             /\ outbox[DeviceOf[i]][n].job = i
             /\ outbox[DeviceOf[i]][n].branch = c
      BY <1>5, <2>1, <2>3 DEF GroupInv, WritesAreQueued
    <3>2. n \in DOMAIN outbox'[DeviceOf[i]] /\ outbox'[DeviceOf[i]][n] = outbox[DeviceOf[i]][n]
      <4>1. CASE DeviceOf[i] = d
        BY <1>2, <1>4, <3>1, <4>1
      <4>2. CASE DeviceOf[i] # d
        BY <1>3, <3>1, <4>2
      <4> QED BY <4>1, <4>2
    <3> QED BY <3>1, <3>2
  <2> QED BY <2>2, <2>3
<1> QED BY <1>8, <1>9, <1>10, <1>11 DEF GroupInv

\* An answer takes the oldest write away, and its branch no longer waits.
LEMMA GroupAfterAnswer ==
    ASSUME GroupInv, TypeOK, NEW d \in Devices,
           NEW result \in {"saved", "rejected"}, Answered(d, result)
    PROVE  GroupInv'
<1> DEFINE write == Head(outbox[d])
           L == Len(outbox[d])
<1>1. /\ outbox[d] \in Seq(Write) /\ outbox[d] # << >>
      /\ L \in Nat \ {0} /\ DOMAIN outbox[d] = 1..L
  <2>1. outbox[d] # << >>
    BY DEF Answered
  <2> QED BY <2>1, OutboxOfDevice, EmptySeq
<1>2. write = outbox[d][1]
  BY <1>1
<1>3. write.job \in Jobs /\ write.branch \in Branches
  BY <1>1, <1>2, OutboxOfDevice
<1>4. /\ outbox'[d] = Tail(outbox[d])
      /\ \A e \in Devices : e # d => outbox'[e] = outbox[e]
  BY DEF Answered, TypeOK
<1>5. /\ DOMAIN outbox'[d] = 1..(L - 1)
      /\ \A n \in 1..(L - 1) : outbox'[d][n] = outbox[d][n + 1]
  <2>1. /\ Tail(outbox[d]) \in Seq(Write)
        /\ Len(Tail(outbox[d])) = L - 1
        /\ \A n \in 1..(L - 1) : Tail(outbox[d])[n] = outbox[d][n + 1]
    BY <1>1, HeadTailProperties
  <2> QED BY <1>4, <2>1, LenProperties
<1>6. /\ job' = job
      /\ branch'[write.job][write.branch] = result
      /\ \A i \in Jobs : \A c \in Branches :
            i # write.job \/ c # write.branch => branch'[i][c] = branch[i][c]
      /\ \A i \in Jobs : i # write.job => branch'[i] = branch[i]
  BY <1>3 DEF Answered, TypeOK
<1>7. /\ job[write.job].status = "running"
      /\ branch[write.job][write.branch] = "writing"
      /\ DeviceOf[write.job] = d
  BY <1>1, <1>2 DEF GroupInv, OutboxIsLive
<1> HIDE DEF write, L
<1>8. IdleJobsUntouched'
  BY <1>6, <1>7 DEF GroupInv, IdleJobsUntouched
\* The writes that stay belong to other branches.
<1>9. ASSUME NEW e \in Devices, NEW n \in DOMAIN outbox'[e]
      PROVE  \E m \in DOMAIN outbox[e] :
                /\ outbox'[e][n] = outbox[e][m]
                /\ outbox[e][m].job # write.job \/ outbox[e][m].branch # write.branch
  <2>1. CASE e = d
    <3>1. n + 1 \in DOMAIN outbox[d] /\ n + 1 # 1 /\ 1 \in DOMAIN outbox[d]
      BY <1>1, <1>5, <2>1
    <3>2. outbox'[d][n] = outbox[d][n + 1]
      BY <1>5, <2>1
    <3>3. outbox[d][n + 1].job # write.job \/ outbox[d][n + 1].branch # write.branch
      BY <1>2, <3>1 DEF GroupInv, OutboxHasNoRepeats
    <3> QED BY <2>1, <3>1, <3>2, <3>3
  <2>2. CASE e # d
    <3>1. outbox'[e] = outbox[e]
      BY <1>4, <2>2
    <3>2. outbox[e][n].job # write.job
      BY <1>7, <2>2, <3>1 DEF GroupInv, OutboxIsLive
    <3> QED BY <3>1, <3>2
  <2> QED BY <2>1, <2>2
<1>10. OutboxIsLive'
  <2>1. SUFFICES ASSUME NEW e \in Devices, NEW n \in DOMAIN outbox'[e]
                 PROVE  /\ DeviceOf[outbox'[e][n].job] = e
                        /\ job'[outbox'[e][n].job].status = "running"
                        /\ branch'[outbox'[e][n].job][outbox'[e][n].branch] = "writing"
    BY DEF OutboxIsLive
  <2>2. PICK m \in DOMAIN outbox[e] :
           /\ outbox'[e][n] = outbox[e][m]
           /\ outbox[e][m].job # write.job \/ outbox[e][m].branch # write.branch
    BY <1>9
  <2>3. outbox[e][m].job \in Jobs /\ outbox[e][m].branch \in Branches
    BY OutboxOfDevice
  <2> QED BY <1>6, <2>2, <2>3 DEF GroupInv, OutboxIsLive
<1>11. OutboxHasNoRepeats'
  <2>1. SUFFICES ASSUME NEW e \in Devices,
                        NEW m \in DOMAIN outbox'[e], NEW n \in DOMAIN outbox'[e], m # n
                 PROVE  \/ outbox'[e][m].job # outbox'[e][n].job
                        \/ outbox'[e][m].branch # outbox'[e][n].branch
    BY DEF OutboxHasNoRepeats
  <2>2. CASE e # d
    BY <1>4, <2>1, <2>2 DEF GroupInv, OutboxHasNoRepeats
  <2>3. CASE e = d
    <3>1. m \in 1..(L - 1) /\ n \in 1..(L - 1)
      BY <1>5, <2>1, <2>3
    <3>2. m + 1 \in DOMAIN outbox[d] /\ n + 1 \in DOMAIN outbox[d] /\ m + 1 # n + 1
      BY <1>1, <2>1, <3>1
    <3>3. outbox'[d][m] = outbox[d][m + 1] /\ outbox'[d][n] = outbox[d][n + 1]
      BY <1>5, <3>1
    <3> QED BY <2>3, <3>2, <3>3 DEF GroupInv, OutboxHasNoRepeats
  <2> QED BY <2>2, <2>3
<1>12. WritesAreQueued'
  <2>1. SUFFICES ASSUME NEW i \in Jobs, NEW c \in Branches,
                        job'[i].status = "running", branch'[i][c] = "writing"
                 PROVE  \E n \in DOMAIN outbox'[DeviceOf[i]] :
                           /\ outbox'[DeviceOf[i]][n].job = i
                           /\ outbox'[DeviceOf[i]][n].branch = c
    BY DEF WritesAreQueued
  <2>2. i # write.job \/ c # write.branch
    BY <1>6, <2>1
  <2>3. PICK n \in DOMAIN outbox[DeviceOf[i]] :
           /\ outbox[DeviceOf[i]][n].job = i
           /\ outbox[DeviceOf[i]][n].branch = c
    BY <1>6, <2>1, <2>2 DEF GroupInv, WritesAreQueued
  <2>4. CASE DeviceOf[i] = d
    <3>1. n \in 1..L /\ n # 1
      BY <1>1, <1>2, <2>2, <2>3, <2>4
    <3>2. n - 1 \in 1..(L - 1) /\ (n - 1) + 1 = n
      BY <1>1, <3>1
    <3>3. n - 1 \in DOMAIN outbox'[d] /\ outbox'[d][n - 1] = outbox[d][n]
      BY <1>5, <3>2
    <3> QED BY <2>3, <2>4, <3>3
  <2>5. CASE DeviceOf[i] # d
    <3>1. outbox'[DeviceOf[i]] = outbox[DeviceOf[i]]
      BY <1>4, <2>5
    <3> QED BY <2>3, <3>1
  <2> QED BY <2>4, <2>5
<1> QED BY <1>8, <1>10, <1>11, <1>12 DEF GroupInv

\* A check-out ends when no branch of it waits any more.
LEMMA GroupAfterNotify ==
    ASSUME GroupInv, TypeOK, NEW j \in Jobs, NEW status \in Statuses \ {"idle", "running"},
           job[j].status = "running", Joined(j),
           job' = [job EXCEPT ![j].status = status],
           outbox' = outbox, branch' = branch
    PROVE  GroupInv'
<1>1. /\ job'[j].status = status
      /\ \A i \in Jobs : i # j => job'[i] = job[i]
  BY DEF TypeOK, Job
<1>2. \A e \in Devices : \A n \in DOMAIN outbox[e] :
         outbox[e][n].job \in Jobs /\ outbox[e][n].job # j
  <2>1. \A b \in Branches : branch[j][b] # "writing"
    BY DEF Joined
  <2>2. ASSUME NEW e \in Devices, NEW n \in DOMAIN outbox[e]
        PROVE  outbox[e][n].job \in Jobs /\ outbox[e][n].job # j
    <3>1. outbox[e][n].job \in Jobs /\ outbox[e][n].branch \in Branches
      BY OutboxOfDevice
    <3>2. branch[outbox[e][n].job][outbox[e][n].branch] = "writing"
      BY DEF GroupInv, OutboxIsLive
    <3> QED BY <2>1, <3>1, <3>2
  <2> QED BY <2>2
<1>3. IdleJobsUntouched'
  BY <1>1 DEF GroupInv, IdleJobsUntouched
<1>4. OutboxIsLive'
  BY <1>1, <1>2 DEF GroupInv, OutboxIsLive
<1>5. OutboxHasNoRepeats'
  BY DEF GroupInv, OutboxHasNoRepeats
<1>6. WritesAreQueued'
  BY <1>1 DEF GroupInv, WritesAreQueued
<1> QED BY <1>3, <1>4, <1>5, <1>6 DEF GroupInv

\* A branch whose read is answered has no write in the outbox, before or after.
LEMMA GroupAfterReply ==
    ASSUME GroupInv, TypeOK, NEW j \in Jobs, NEW b \in Branches, NEW list, Reply(j, b, list)
    PROVE  GroupInv'
<1>1. /\ job' = job /\ outbox' = outbox /\ job[j].status = "running"
      /\ branch[j][b] = "reading" /\ branch'[j][b] = "answered"
      /\ \A i \in Jobs : \A c \in Branches :
            i # j \/ c # b => branch'[i][c] = branch[i][c]
      /\ \A i \in Jobs : i # j => branch'[i] = branch[i]
  BY DEF Reply, TypeOK
<1>2. IdleJobsUntouched'
  BY <1>1 DEF GroupInv, IdleJobsUntouched
<1>3. OutboxIsLive'
  <2>1. \A e \in Devices : \A n \in DOMAIN outbox[e] :
           /\ outbox[e][n].job \in Jobs
           /\ outbox[e][n].branch \in Branches
           /\ outbox[e][n].job # j \/ outbox[e][n].branch # b
    BY <1>1, OutboxOfDevice DEF GroupInv, OutboxIsLive
  <2> QED BY <1>1, <2>1 DEF GroupInv, OutboxIsLive
<1>4. OutboxHasNoRepeats'
  BY <1>1 DEF GroupInv, OutboxHasNoRepeats
<1>5. WritesAreQueued'
  <2>1. \A i \in Jobs : \A c \in Branches :
           branch'[i][c] = "writing" => branch[i][c] = "writing"
    BY <1>1
  <2> QED BY <1>1, <2>1 DEF GroupInv, WritesAreQueued
<1> QED BY <1>2, <1>3, <1>4, <1>5 DEF GroupInv

LEMMA GroupStep ==
    ASSUME GroupInv, TypeOK, [Next]_vars
    PROVE  GroupInv'
<1>1. ASSUME outbox' = outbox, branch' = branch, job' = job
      PROVE  GroupInv'
  BY <1>1, GroupUntouched
<1>2. ASSUME NEW d \in Devices,
             \/ \E p \in Products : AddToCart(d, p)
             \/ ShowOrders(d) \/ HideOrders(d) \/ Refresh(d)
             \/ \E row \in 1..MaxOrders : DeleteRow(d, row)
      PROVE  GroupInv'
  BY <1>1, <1>2 DEF AddToCart, ShowOrders, HideOrders, Refresh, DeleteRow
<1>3. ASSUME NEW d \in Devices, NEW u \in UserIds, Relogin(d, u)
      PROVE  GroupInv'
  <2>1. outbox' = outbox /\ branch' = branch
    BY <1>3 DEF Relogin
  <2>2. \A j \in Jobs : job'[j].status = job[j].status
    BY <1>3 DEF Relogin, TypeOK, Job
  <2> QED BY <2>1, <2>2, GroupUntouched
<1>4. ASSUME NEW d \in Devices,
             \/ Terminate(d)
             \/ \E row \in 1..MaxOrders : DeleteRowRaises(d, row)
      PROVE  GroupInv'
  BY <1>4, GroupAfterProcessEnds DEF Terminate, DeleteRowRaises
<1>5. ASSUME NEW d \in Devices, NEW j \in Jobs, CheckOutTap(d, j)
      PROVE  GroupInv'
  BY <1>5, GroupAfterTap
<1>6. ASSUME NEW d \in Devices, WriteSaved(d) \/ WriteRejected(d)
      PROVE  GroupInv'
  BY <1>6, GroupAfterAnswer DEF WriteSaved, WriteRejected
<1>7. ASSUME NEW j \in Jobs, NEW b \in Branches, ReadReply(j, b) \/ ReadError(j, b)
      PROVE  GroupInv'
  BY <1>7, AnswerIsList, GroupAfterReply
<1>8. ASSUME NEW d \in Devices, ReadCallback(d)
      PROVE  GroupInv'
  <2> DEFINE answer == Head(answers[d])
             value == Merge(job[answer.job].orders, answer.found)
  <2>1. /\ answer.job \in Jobs /\ answer.branch \in Branches
        /\ value \in Seq(Order)
        /\ SetValue(answer.job, answer.branch, value)
    BY <1>8, CallbackSets
  <2> HIDE DEF answer, value
  <2> QED BY <2>1, GroupAfterSetValue
<1>9. ASSUME NEW j \in Jobs, NotifySuccess(j)
      PROVE  GroupInv'
  <2>1. "succeeded" \in Statuses \ {"idle", "running"}
    BY DEF Statuses
  <2> QED BY <1>9, <2>1, GroupAfterNotify DEF NotifySuccess
<1>10. ASSUME NEW j \in Jobs, NotifyFailure(j)
       PROVE  GroupInv'
  <2>1. "failed" \in Statuses \ {"idle", "running"}
    BY DEF Statuses
  <2> QED BY <1>10, <2>1, GroupAfterNotify DEF NotifyFailure
<1>11. ASSUME UNCHANGED vars
       PROVE  GroupInv'
  BY <1>1, <1>11 DEF vars
<1> QED
  BY <1>2, <1>3, <1>4, <1>5, <1>6, <1>7, <1>8, <1>9, <1>10, <1>11 DEF Next

LEMMA GroupInit == Init => GroupInv
<1> SUFFICES ASSUME Init PROVE GroupInv
  OBVIOUS
<1>1. \A d \in Devices : DOMAIN outbox[d] = {}
  BY DEF Init
<1>2. \A j \in Jobs : job[j].status = "idle" /\ branch[j] = [b \in Branches |-> "none"]
  BY DEF Init
<1> QED BY <1>1, <1>2 DEF GroupInv, IdleJobsUntouched, OutboxIsLive, OutboxHasNoRepeats,
                          WritesAreQueued

-----------------------------------------------------------------------------
(***************************************************************************)
(* The queue of callbacks: a step leaves one as it is, drops it, takes its *)
(* first or adds one for a read that was outstanding.                      *)
(***************************************************************************)
LEMMA AnswersOfDevice ==
    ASSUME TypeOK, NEW d \in Devices
    PROVE  /\ answers[d] \in Seq(Answer)
           /\ Len(answers[d]) \in Nat
           /\ DOMAIN answers[d] = 1..Len(answers[d])
           /\ \A n \in DOMAIN answers[d] :
                 /\ answers[d][n] \in Answer
                 /\ answers[d][n].job \in Jobs
                 /\ answers[d][n].branch \in Branches
                 /\ answers[d][n].found \in Seq(Order)
<1>1. answers[d] \in Seq(Answer)
  BY DEF TypeOK
<1>2. Len(answers[d]) \in Nat /\ DOMAIN answers[d] = 1..Len(answers[d])
  BY <1>1, LenProperties
<1>3. \A n \in DOMAIN answers[d] : answers[d][n] \in Answer
  BY <1>1, <1>2, ElementOfSeq
<1>4. \A a \in Answer : a.job \in Jobs /\ a.branch \in Branches /\ a.found \in Seq(Order)
  BY DEF Answer
<1> QED BY <1>1, <1>2, <1>3, <1>4

FoundBefore(d, a) == \E m \in DOMAIN answers[d] : a = answers[d][m]

LEMMA AnswersAfterReply ==
    ASSUME TypeOK, NEW j \in Jobs, NEW b \in Branches, NEW list \in Seq(Order),
           Reply(j, b, list), NEW d \in Devices, NEW n \in DOMAIN answers'[d]
    PROVE  \/ FoundBefore(d, answers'[d][n])
           \/ /\ d = DeviceOf[j]
              /\ answers'[d][n] = [job |-> j, branch |-> b, found |-> list]
<1> DEFINE a == [job |-> j, branch |-> b, found |-> list]
<1>1. answers[d] \in Seq(Answer) /\ Len(answers[d]) \in Nat /\ DOMAIN answers[d] = 1..Len(answers[d])
  BY AnswersOfDevice
<1>2. a \in Answer
  BY DEF Answer
<1>3. CASE d # DeviceOf[j]
  <2>1. answers'[d] = answers[d]
    BY <1>3 DEF Reply, TypeOK
  <2> QED BY <2>1 DEF FoundBefore
<1>4. CASE d = DeviceOf[j]
  <2>1. answers'[d] = Append(answers[d], a)
    BY <1>4 DEF Reply, TypeOK
  <2> HIDE DEF a
  <2>2. /\ Append(answers[d], a) \in Seq(Answer)
        /\ Len(Append(answers[d], a)) = Len(answers[d]) + 1
        /\ \A m \in 1..Len(answers[d]) : Append(answers[d], a)[m] = answers[d][m]
        /\ Append(answers[d], a)[Len(answers[d]) + 1] = a
    BY <1>1, <1>2, AppendProperties
  <2>3. DOMAIN Append(answers[d], a) = 1..(Len(answers[d]) + 1)
    BY <2>2, LenProperties
  <2>4. n \in 1..Len(answers[d]) \/ n = Len(answers[d]) + 1
    BY <1>1, <2>1, <2>3
  <2>5. FoundBefore(d, answers'[d][n]) \/ answers'[d][n] = a
    BY <1>1, <2>1, <2>2, <2>4 DEF FoundBefore
  <2> QED BY <1>4, <2>5 DEF a
<1> QED BY <1>3, <1>4

LEMMA AnswersAfterCallback ==
    ASSUME TypeOK, NEW e \in Devices, ReadCallback(e),
           NEW d \in Devices, NEW n \in DOMAIN answers'[d]
    PROVE  FoundBefore(d, answers'[d][n])
<1>1. CASE d # e
  <2>1. answers'[d] = answers[d]
    BY <1>1 DEF ReadCallback, TypeOK
  <2> QED BY <2>1 DEF FoundBefore
<1>2. CASE d = e
  <2> DEFINE L == Len(answers[d])
  <2>1. /\ answers[d] \in Seq(Answer) /\ answers[d] # << >>
        /\ answers'[d] = Tail(answers[d])
    BY <1>2 DEF ReadCallback, TypeOK
  <2>2. L \in Nat /\ DOMAIN answers[d] = 1..L
    BY <2>1, LenProperties
  <2>3. /\ Tail(answers[d]) \in Seq(Answer)
        /\ Len(Tail(answers[d])) = L - 1
        /\ \A m \in 1..(L - 1) : Tail(answers[d])[m] = answers[d][m + 1]
    BY <2>1, HeadTailProperties
  <2>4. DOMAIN answers'[d] = 1..(L - 1)
    BY <2>1, <2>3, LenProperties
  <2> HIDE DEF L
  <2>5. n + 1 \in 1..L /\ answers'[d][n] = answers[d][n + 1]
    BY <2>1, <2>2, <2>3, <2>4
  <2> QED BY <2>2, <2>5 DEF FoundBefore
<1> QED BY <1>1, <1>2

LEMMA ExpectedStep ==
    ASSUME TypeOK, AnswersAreExpected, [Next]_vars
    PROVE  AnswersAreExpected'
<1>1. ASSUME \A j \in Jobs : job[j].status # "idle" => job'[j].status # "idle",
             \A d \in Devices : \A n \in DOMAIN answers'[d] : FoundBefore(d, answers'[d][n])
      PROVE  AnswersAreExpected'
  BY <1>1, AnswersOfDevice DEF AnswersAreExpected, FoundBefore
<1>2. ASSUME answers' = answers, job' = job
      PROVE  AnswersAreExpected'
  BY <1>2 DEF AnswersAreExpected
<1>3. ASSUME NEW d \in Devices,
             \/ \E p \in Products : AddToCart(d, p)
             \/ ShowOrders(d) \/ HideOrders(d) \/ Refresh(d)
             \/ WriteSaved(d) \/ WriteRejected(d)
             \/ \E row \in 1..MaxOrders : DeleteRow(d, row)
      PROVE  AnswersAreExpected'
  BY <1>2, <1>3 DEF AddToCart, ShowOrders, HideOrders, Refresh, WriteSaved, WriteRejected,
                    Answered, DeleteRow
<1>4. ASSUME answers' = answers,
             \A j \in Jobs : job[j].status # "idle" => job'[j].status # "idle"
      PROVE  AnswersAreExpected'
  BY <1>1, <1>4 DEF FoundBefore
<1>5. ASSUME NEW d \in Devices,
             \/ \E u \in UserIds : Relogin(d, u)
             \/ \E j \in Jobs : CheckOutTap(d, j)
      PROVE  AnswersAreExpected'
  <2>1. answers' = answers
    BY <1>5 DEF Relogin, CheckOutTap
  <2>2. ASSUME NEW u \in UserIds, Relogin(d, u)
        PROVE  \A i \in Jobs : job[i].status # "idle" => job'[i].status # "idle"
    BY <2>2 DEF Relogin, TypeOK, Job
  <2>3. ASSUME NEW j \in Jobs, CheckOutTap(d, j)
        PROVE  \A i \in Jobs : job[i].status # "idle" => job'[i].status # "idle"
    BY <2>3 DEF CheckOutTap, TypeOK
  <2> QED BY <1>4, <1>5, <2>1, <2>2, <2>3
<1>6. ASSUME NEW d \in Devices,
             Terminate(d) \/ \E row \in 1..MaxOrders : DeleteRowRaises(d, row)
      PROVE  AnswersAreExpected'
  <2>1. ProcessEnds(d)
    BY <1>6 DEF Terminate, DeleteRowRaises
  <2>2. \A j \in Jobs : job[j].status # "idle" => job'[j].status # "idle"
    BY <2>1 DEF ProcessEnds, TypeOK, Job
  <2>3. \A e \in Devices : answers'[e] \in {answers[e], << >>}
    BY <2>1 DEF ProcessEnds, TypeOK
  <2>4. \A e \in Devices : \A n \in DOMAIN answers'[e] : FoundBefore(e, answers'[e][n])
    BY <2>3 DEF FoundBefore
  <2> QED BY <1>1, <2>2, <2>4
<1>7. ASSUME NEW j \in Jobs, NEW b \in Branches, ReadReply(j, b) \/ ReadError(j, b)
      PROVE  AnswersAreExpected'
  <2>1. PICK list \in Seq(Order) : Reply(j, b, list)
    BY <1>7, AnswerIsList
  <2>2. job' = job /\ job[j].status # "idle"
    BY <2>1 DEF Reply
  <2> SUFFICES ASSUME NEW d \in Devices, NEW n \in DOMAIN answers'[d]
               PROVE  /\ DeviceOf[answers'[d][n].job] = d
                      /\ job[answers'[d][n].job].status # "idle"
    BY <2>2 DEF AnswersAreExpected
  <2>3. CASE FoundBefore(d, answers'[d][n])
    BY <2>3 DEF FoundBefore, AnswersAreExpected
  <2>4. CASE d = DeviceOf[j] /\ answers'[d][n] = [job |-> j, branch |-> b, found |-> list]
    BY <2>2, <2>4
  <2> QED BY <2>1, <2>3, <2>4, AnswersAfterReply
<1>8. ASSUME NEW d \in Devices, ReadCallback(d)
      PROVE  AnswersAreExpected'
  <2>1. job' = job
    BY <1>8 DEF ReadCallback, SetValue
  <2> QED BY <1>1, <1>8, <2>1, AnswersAfterCallback
<1>9. ASSUME NEW j \in Jobs, NotifySuccess(j) \/ NotifyFailure(j)
      PROVE  AnswersAreExpected'
  <2>1. answers' = answers
    BY <1>9 DEF NotifySuccess, NotifyFailure
  <2>2. \A i \in Jobs : job[i].status # "idle" => job'[i].status # "idle"
    <3>1. PICK status \in {"succeeded", "failed"} : job' = [job EXCEPT ![j].status = status]
      BY <1>9 DEF NotifySuccess, NotifyFailure
    <3> QED BY <3>1 DEF TypeOK, Job
  <2> QED BY <1>4, <2>1, <2>2
<1>10. ASSUME UNCHANGED vars
       PROVE  AnswersAreExpected'
  BY <1>2, <1>10 DEF vars
<1> QED
  BY <1>3, <1>5, <1>6, <1>7, <1>8, <1>9, <1>10 DEF Next

\* The invariant of Checkout is inductive and holds initially.
LEMMA InvInit == Init => CheckoutInv
<1> SUFFICES ASSUME Init PROVE CheckoutInv
  OBVIOUS
<1>1. IdsIssued /\ CartOneRowPerProduct
  BY DEF Init, IdsIssued, CartOneRowPerProduct, OneRowPerProduct, EmptyCart
<1>2. AnswersAreExpected
  BY DEF Init, AnswersAreExpected
<1> QED BY <1>1, <1>2, TypeInit, GroupInit DEF CheckoutInv, GroupInv, BranchesMatchOutbox

LEMMA InvStep == CheckoutInv /\ [Next]_vars => CheckoutInv'
BY CartsStep, GroupStep, ExpectedStep DEF CheckoutInv, CartsOK, GroupInv, BranchesMatchOutbox

THEOREM InvariantHolds == Spec => []CheckoutInv
BY InvInit, InvStep, PTL DEF Spec

\* Every variable keeps its type, for any number of devices and check-outs.
THEOREM TypeCorrect == Spec => []TypeOK
<1>1. CheckoutInv => TypeOK
  BY DEF CheckoutInv
<1> QED BY <1>1, InvariantHolds, PTL

\* No interleaving of adds, deletes, check-outs, restarts and logins leaves a
\* cart with two rows for a product or for an order id.
THEOREM OneRowPerProductAlways == Spec => []CartOneRowPerProduct
<1>1. CheckoutInv => CartOneRowPerProduct
  BY DEF CheckoutInv
<1> QED BY <1>1, InvariantHolds, PTL

\* Whatever dies, fails or overlaps, a branch that waits has its one write on
\* the way, and no write outlives its check-out.
THEOREM BranchesMatchOutboxAlways == Spec => []BranchesMatchOutbox
<1>1. CheckoutInv => BranchesMatchOutbox
  BY DEF CheckoutInv
<1> QED BY <1>1, InvariantHolds, PTL
-----------------------------------------------------------------------------
(***************************************************************************)
(* Checkout implements CheckoutPromise: every step is a step of the        *)
(* promise or leaves it as it was.                                         *)
(***************************************************************************)
LeftOf(j) == {b \in Branches : branch[j][b] \in {"saved", "rejected"}}
SavedOf(j) == {b \in Branches : branch[j][b] = "saved"}

LEMMA PromiseInit == Init => Promise!Init
<1> SUFFICES ASSUME Init PROVE Promise!Init
  OBVIOUS
<1>1. \A j \in Jobs : /\ job[j].status = "idle"
                      /\ LeftOf(j) = {} /\ SavedOf(j) = {}
  BY DEF Init, LeftOf, SavedOf
<1> QED BY <1>1 DEF Promise!Init, LeftOf, SavedOf

LEMMA PromiseKeptSame ==
    ASSUME \A j \in Jobs : /\ job'[j].status = job[j].status
                           /\ LeftOf(j)' = LeftOf(j)
                           /\ SavedOf(j)' = SavedOf(j)
    PROVE  UNCHANGED Promise!vars
BY DEF Promise!vars, LeftOf, SavedOf

LEMMA PromiseAbandon ==
    ASSUME TypeOK, NEW d \in Devices, ProcessEnds(d), branch' = branch
    PROVE  Promise!Next
<1>1. PICK lost \in SUBSET Jobs :
         lost = {j \in Jobs : DeviceOf[j] = d /\ job[j].status = "running"}
  OBVIOUS
<1>2. \A j \in Jobs : job'[j].status = IF j \in lost THEN "dead" ELSE job[j].status
  BY <1>1 DEF ProcessEnds, TypeOK, Job
<1>3. Promise!Abandon(lost)
  BY <1>1, <1>2 DEF Promise!Abandon
<1> QED BY <1>3 DEF Promise!Next

LEMMA PromiseStart ==
    ASSUME CheckoutInv, NEW d \in Devices, NEW j \in Jobs, CheckOutTap(d, j)
    PROVE  Promise!Start(j)
<1>1. /\ job[j].status = "idle" /\ job'[j].status = "running"
      /\ branch'[j] = [b \in Branches |-> "reading"]
      /\ \A i \in Jobs : i # j => job'[i] = job[i] /\ branch'[i] = branch[i]
  BY DEF CheckOutTap, CheckoutInv, TypeOK
<1>2. branch[j] = [b \in Branches |-> "none"]
  BY <1>1 DEF CheckoutInv, IdleJobsUntouched
<1>3. \A i \in Jobs : LeftOf(i)' = LeftOf(i) /\ SavedOf(i)' = SavedOf(i)
  BY <1>1, <1>2 DEF LeftOf, SavedOf
<1>4. [i \in Jobs |-> job'[i].status]
        = [[i \in Jobs |-> job[i].status] EXCEPT ![j] = "running"]
  BY <1>1
<1> QED BY <1>1, <1>3, <1>4 DEF Promise!Start, LeftOf, SavedOf

\* A read that is answered and a value that is set are no news to the promise.
LEMMA PromiseWaits ==
    ASSUME TypeOK, NEW j \in Jobs, NEW b \in Branches,
           \/ \E list : Reply(j, b, list)
           \/ \E value : SetValue(j, b, value)
    PROVE  UNCHANGED Promise!vars
<1>1. PICK progress \in {"answered", "writing"} :
          /\ job' = job
          /\ branch[j][b] \in {"reading", "answered"}
          /\ branch' = [branch EXCEPT ![j][b] = progress]
  BY DEF Reply, SetValue
<1>3. /\ branch[j][b] \notin {"saved", "rejected"} /\ branch'[j][b] \notin {"saved", "rejected"}
      /\ \A i \in Jobs : \A c \in Branches :
            i # j \/ c # b => branch'[i][c] = branch[i][c]
  BY <1>1 DEF TypeOK
<1>2. \A i \in Jobs : LeftOf(i)' = LeftOf(i) /\ SavedOf(i)' = SavedOf(i)
  BY <1>3 DEF LeftOf, SavedOf
<1> QED BY <1>1, <1>2, PromiseKeptSame

LEMMA PromiseLeave ==
    ASSUME CheckoutInv, NEW d \in Devices,
           NEW result \in {"saved", "rejected"}, Answered(d, result)
    PROVE  Promise!Next
<1>1. TypeOK /\ OutboxIsLive
  BY DEF CheckoutInv, BranchesMatchOutbox
<1>2. outbox[d] # << >> /\ outbox[d] \in Seq(Write)
  BY <1>1, OutboxOfDevice DEF Answered
<1>3. Head(outbox[d]) = outbox[d][1] /\ 1 \in DOMAIN outbox[d]
  BY <1>1, <1>2, OutboxOfDevice, EmptySeq
<1>4. PICK j \in Jobs, b \in Branches :
         j = Head(outbox[d]).job /\ b = Head(outbox[d]).branch
  BY <1>1, <1>3, OutboxOfDevice
<1>5. job[j].status = "running" /\ branch[j][b] = "writing"
  BY <1>1, <1>3, <1>4 DEF OutboxIsLive
<1>6. /\ job' = job
      /\ branch'[j][b] = result
      /\ \A i \in Jobs : \A c \in Branches :
            i # j \/ c # b => branch'[i][c] = branch[i][c]
  BY <1>1, <1>4 DEF Answered, TypeOK
<1>7. ASSUME NEW i \in Jobs, i # j
      PROVE  LeftOf(i)' = LeftOf(i) /\ SavedOf(i)' = SavedOf(i)
  BY <1>6, <1>7 DEF LeftOf, SavedOf
<1>8. b \notin LeftOf(j) /\ LeftOf(j)' = LeftOf(j) \cup {b}
  <2>1. b \notin LeftOf(j)
    BY <1>5 DEF LeftOf
  <2>2. ASSUME NEW c \in Branches
        PROVE  branch'[j][c] \in {"saved", "rejected"}
                 <=> branch[j][c] \in {"saved", "rejected"} \/ c = b
    BY <1>4, <1>6, <2>2
  <2> QED BY <1>4, <2>1, <2>2 DEF LeftOf
<1>9. [i \in Jobs |-> LeftOf(i)'] = [[i \in Jobs |-> LeftOf(i)] EXCEPT ![j] = @ \cup {b}]
  BY <1>4, <1>7, <1>8
<1>10. [i \in Jobs |-> job'[i].status] = [i \in Jobs |-> job[i].status]
  BY <1>6
<1>11. CASE result = "saved"
  <2>1. SavedOf(j)' = SavedOf(j) \cup {b}
    BY <1>4, <1>6, <1>11 DEF SavedOf
  <2>2. [i \in Jobs |-> SavedOf(i)'] = [[i \in Jobs |-> SavedOf(i)] EXCEPT ![j] = @ \cup {b}]
    BY <1>4, <1>7, <2>1
  <2>3. Promise!Leave(j, b, TRUE)
    BY <1>4, <1>5, <1>8, <1>9, <1>10, <2>2 DEF Promise!Leave, LeftOf, SavedOf
  <2> QED BY <1>4, <2>3 DEF Promise!Next
<1>12. CASE result = "rejected"
  <2>1. SavedOf(j)' = SavedOf(j)
    BY <1>4, <1>5, <1>6, <1>12 DEF SavedOf
  <2>2. [i \in Jobs |-> SavedOf(i)'] = [[i \in Jobs |-> SavedOf(i)] EXCEPT ![j] = @]
    BY <1>4, <1>7, <2>1
  <2>3. Promise!Leave(j, b, FALSE)
    BY <1>4, <1>5, <1>8, <1>9, <1>10, <2>2 DEF Promise!Leave, LeftOf, SavedOf
  <2> QED BY <1>4, <2>3 DEF Promise!Next
<1> QED BY <1>11, <1>12

LEMMA PromiseComplete ==
    ASSUME TypeOK, NEW j \in Jobs, NotifySuccess(j) \/ NotifyFailure(j)
    PROVE  Promise!Complete(j)
<1>1. /\ job[j].status = "running" /\ branch' = branch
      /\ job'[j].status = IF BothSaved(j) THEN "succeeded" ELSE "failed"
      /\ \A i \in Jobs : i # j => job'[i] = job[i]
  BY DEF NotifySuccess, NotifyFailure, TypeOK, Job
<1>2. LeftOf(j) = Branches /\ (SavedOf(j) = Branches <=> BothSaved(j))
  BY DEF NotifySuccess, NotifyFailure, Joined, BothSaved, LeftOf, SavedOf
<1>3. \A i \in Jobs : LeftOf(i)' = LeftOf(i) /\ SavedOf(i)' = SavedOf(i)
  BY <1>1 DEF LeftOf, SavedOf
<1>4. [i \in Jobs |-> job'[i].status]
        = [[i \in Jobs |-> job[i].status] EXCEPT
              ![j] = IF SavedOf(j) = Branches THEN "succeeded" ELSE "failed"]
  BY <1>1, <1>2
<1> QED BY <1>1, <1>2, <1>3, <1>4 DEF Promise!Complete, LeftOf, SavedOf

LEMMA PromiseStep == CheckoutInv /\ [Next]_vars => [Promise!Next]_(Promise!vars)
<1> SUFFICES ASSUME CheckoutInv, [Next]_vars
             PROVE  Promise!Next \/ UNCHANGED Promise!vars
  OBVIOUS
<1>1. TypeOK
  BY DEF CheckoutInv
<1>2. ASSUME branch' = branch, \A j \in Jobs : job'[j].status = job[j].status
      PROVE  UNCHANGED Promise!vars
  BY <1>2, PromiseKeptSame DEF LeftOf, SavedOf
<1>3. ASSUME NEW d \in Devices,
             \/ \E p \in Products : AddToCart(d, p)
             \/ ShowOrders(d) \/ HideOrders(d) \/ Refresh(d)
             \/ \E row \in 1..MaxOrders : DeleteRow(d, row)
      PROVE  UNCHANGED Promise!vars
  BY <1>2, <1>3 DEF AddToCart, ShowOrders, HideOrders, Refresh, DeleteRow
<1>4. ASSUME NEW d \in Devices, NEW u \in UserIds, Relogin(d, u)
      PROVE  UNCHANGED Promise!vars
  <2>1. \A j \in Jobs : job'[j].status = job[j].status
    BY <1>1, <1>4 DEF Relogin, TypeOK, Job
  <2>2. branch' = branch
    BY <1>4 DEF Relogin
  <2> QED BY <1>2, <2>1, <2>2
<1>5. ASSUME NEW d \in Devices,
             \/ Terminate(d)
             \/ \E row \in 1..MaxOrders : DeleteRowRaises(d, row)
      PROVE  Promise!Next
  BY <1>1, <1>5, PromiseAbandon DEF Terminate, DeleteRowRaises
<1>6. ASSUME NEW d \in Devices, NEW j \in Jobs, CheckOutTap(d, j)
      PROVE  Promise!Next
  BY <1>6, PromiseStart DEF Promise!Next
<1>7. ASSUME NEW d \in Devices, WriteSaved(d) \/ WriteRejected(d)
      PROVE  Promise!Next
  BY <1>7, PromiseLeave DEF WriteSaved, WriteRejected
<1>8. ASSUME NEW j \in Jobs, NEW b \in Branches, ReadReply(j, b) \/ ReadError(j, b)
      PROVE  UNCHANGED Promise!vars
  BY <1>1, <1>8, AnswerIsList, PromiseWaits
<1>11. ASSUME NEW d \in Devices, ReadCallback(d)
       PROVE  UNCHANGED Promise!vars
  <2> DEFINE answer == Head(answers[d])
  <2>1. /\ answer.job \in Jobs /\ answer.branch \in Branches
        /\ \E value : SetValue(answer.job, answer.branch, value)
    BY <1>1, <1>11, CallbackSets
  <2> HIDE DEF answer
  <2> QED BY <1>1, <2>1, PromiseWaits
<1>9. ASSUME NEW j \in Jobs, NotifySuccess(j) \/ NotifyFailure(j)
      PROVE  Promise!Next
  BY <1>1, <1>9, PromiseComplete DEF Promise!Next
<1>10. ASSUME UNCHANGED vars
       PROVE  UNCHANGED Promise!vars
  BY <1>2, <1>10 DEF vars
<1> QED
  BY <1>3, <1>4, <1>5, <1>6, <1>7, <1>8, <1>9, <1>10, <1>11 DEF Next

\* checkOutCart reports once, after both lists, and reports success exactly
\* when both were saved, for any number of check-outs that interleave or die.
THEOREM CheckoutKeepsPromise == Spec => KeepsPromise
<1>1. Spec => []CheckoutInv
  BY InvariantHolds
<1>2. CheckoutInv /\ [Next]_vars => [Promise!Next]_(Promise!vars)
  BY PromiseStep
<1> QED
  BY PromiseInit, <1>1, <1>2, PTL DEF Spec, KeepsPromise, Promise!Spec
-----------------------------------------------------------------------------
(***************************************************************************)
(* The Orders screen of a device nobody logs out of.                       *)
(***************************************************************************)
LEMMA ScreenInit == Init => ScreenInv
BY DEF Init, ScreenInv

LEMMA ScreenAfterProcessEnds ==
    ASSUME ScreenInv, TypeOK, NEW d \in Devices, ProcessEnds(d),
           \A e \in Devices : e # d => cart'[e] = cart[e]
    PROVE  ScreenInv'
<1>1. \A j \in Jobs : job'[j].status = "running" => job'[j] = job[j]
  BY DEF ProcessEnds, TypeOK, Job
<1>2. /\ ~onScreen'[d]
      /\ \A e \in Devices : e # d =>
            /\ onScreen'[e] = onScreen[e] /\ orders'[e] = orders[e]
            /\ rows'[e] = rows[e] /\ refreshQueued'[e] = refreshQueued[e]
  BY DEF ProcessEnds, TypeOK
<1> QED BY <1>1, <1>2 DEF ScreenInv

LEMMA ScreenStep ==
    ASSUME MaxLogins = 0, ScreenInv, TypeOK, [Next]_vars
    PROVE  ScreenInv'
<1>1. ASSUME UNCHANGED << screen, cart >>, job' = job
      PROVE  ScreenInv'
  BY <1>1 DEF ScreenInv, screen
<1>2. ASSUME NEW d \in Devices, NEW p \in Products, AddToCart(d, p)
      PROVE  ScreenInv'
  <2>1. /\ ~onScreen[d] /\ UNCHANGED << screen, job >>
        /\ \A e \in Devices : e # d => cart'[e] = cart[e]
    BY <1>2 DEF AddToCart, TypeOK
  <2> QED BY <2>1 DEF ScreenInv, screen
<1>3. ASSUME NEW d \in Devices, ShowOrders(d)
      PROVE  ScreenInv'
  BY <1>3 DEF ShowOrders, ScreenInv, TypeOK
<1>4. ASSUME NEW d \in Devices, HideOrders(d)
      PROVE  ScreenInv'
  BY <1>4 DEF HideOrders, ScreenInv, TypeOK
<1>5. ASSUME NEW d \in Devices, NEW row \in 1..MaxOrders, DeleteRow(d, row)
      PROVE  ScreenInv'
  <2>1. /\ orders'[d] = cart'[d] /\ rows'[d] = Len(cart'[d])
        /\ UNCHANGED << onScreen, refreshQueued, job >>
        /\ \A e \in Devices : e # d =>
              cart'[e] = cart[e] /\ orders'[e] = orders[e] /\ rows'[e] = rows[e]
    BY <1>5 DEF DeleteRow, TypeOK
  <2> QED BY <2>1 DEF ScreenInv
<1>6. ASSUME NEW d \in Devices, NEW row \in 1..MaxOrders, DeleteRowRaises(d, row)
      PROVE  ScreenInv'
  <2>1. ProcessEnds(d) /\ \A e \in Devices : e # d => cart'[e] = cart[e]
    BY <1>6 DEF DeleteRowRaises, TypeOK
  <2> QED BY <2>1, ScreenAfterProcessEnds
<1>7. ASSUME NEW d \in Devices, NEW u \in UserIds, Relogin(d, u)
      PROVE  FALSE
  BY <1>7 DEF Relogin, TypeOK
<1>8. ASSUME NEW d \in Devices, NEW j \in Jobs, CheckOutTap(d, j)
      PROVE  ScreenInv'
  <2>1. UNCHANGED << screen, cart >>
    BY <1>8 DEF CheckOutTap
  <2>2. job'[j].attached /\ \A i \in Jobs : i # j => job'[i] = job[i]
    BY <1>8 DEF CheckOutTap, TypeOK
  <2> QED BY <2>1, <2>2 DEF ScreenInv, screen
<1>9. ASSUME NEW d \in Devices, Terminate(d)
      PROVE  ScreenInv'
  BY <1>9, ScreenAfterProcessEnds DEF Terminate
<1>10. ASSUME NEW d \in Devices, WriteSaved(d) \/ WriteRejected(d)
       PROVE  ScreenInv'
  BY <1>1, <1>10 DEF WriteSaved, WriteRejected, Answered
<1>11. ASSUME NEW d \in Devices, Refresh(d)
       PROVE  ScreenInv'
  BY <1>11 DEF Refresh, ScreenInv, TypeOK
<1>12. ASSUME NEW j \in Jobs, NEW b \in Branches, ReadReply(j, b) \/ ReadError(j, b)
       PROVE  ScreenInv'
  BY <1>1, <1>12 DEF ReadReply, ReadError, Reply
<1>16. ASSUME NEW d \in Devices, ReadCallback(d)
       PROVE  ScreenInv'
  BY <1>1, <1>16 DEF ReadCallback, SetValue
<1>13. ASSUME NEW j \in Jobs, NotifySuccess(j)
       PROVE  ScreenInv'
  <2> DEFINE d == DeviceOf[j]
  <2>1. d \in Devices /\ job[j].attached
    BY <1>13 DEF NotifySuccess, ScreenInv
  <2>2. /\ cart'[d] = orders'[d] /\ refreshQueued'[d]
        /\ UNCHANGED << rows, onScreen >>
        /\ \A e \in Devices : e # d =>
              /\ cart'[e] = cart[e] /\ orders'[e] = orders[e]
              /\ refreshQueued'[e] = refreshQueued[e]
    BY <1>13, <2>1 DEF NotifySuccess, TypeOK
  <2>3. \A i \in Jobs : job'[i].status = "running" => job'[i] = job[i]
    BY <1>13 DEF NotifySuccess, TypeOK, Job
  <2> HIDE DEF d
  <2> QED BY <2>1, <2>2, <2>3 DEF ScreenInv
<1>14. ASSUME NEW j \in Jobs, NotifyFailure(j)
       PROVE  ScreenInv'
  <2>1. \A i \in Jobs : job'[i].status = "running" => job'[i] = job[i]
    BY <1>14 DEF NotifyFailure, TypeOK, Job
  <2>2. UNCHANGED << screen, cart >>
    BY <1>14 DEF NotifyFailure
  <2> QED BY <2>1, <2>2 DEF ScreenInv, screen
<1>15. ASSUME UNCHANGED vars
       PROVE  ScreenInv'
  BY <1>1, <1>15 DEF vars, screen
<1> QED
  BY <1>2, <1>3, <1>4, <1>5, <1>6, <1>7, <1>8, <1>9, <1>10, <1>11, <1>12, <1>13,
     <1>14, <1>15, <1>16 DEF Next

\* While nobody logs out and no refresh is queued, the delete handler finds its
\* order and deleteRows adds up, whatever check-outs are under way.
THEOREM DeleteIsSafe ==
    ASSUME MaxLogins = 0
    PROVE  Spec => []SettledDeleteIsSafe
<1>1. Init => ScreenInv
  BY ScreenInit
<1>2. CheckoutInv /\ ScreenInv /\ [Next]_vars => ScreenInv'
  BY ScreenStep DEF CheckoutInv
<1>3. CheckoutInv /\ ScreenInv => SettledDeleteIsSafe
  <2> SUFFICES ASSUME CheckoutInv, ScreenInv, NEW d \in Devices,
                      onScreen[d], ~refreshQueued[d], NEW row \in 1..rows[d]
               PROVE  /\ row <= Len(orders[d])
                      /\ Len(CartWithoutRow(d, row)) = rows[d] - 1
    BY DEF SettledDeleteIsSafe
  <2>1. rows[d] = Len(orders[d]) /\ orders[d] = cart[d]
    BY DEF ScreenInv
  <2>2. cart[d] \in Seq(Order) /\ row \in DOMAIN cart[d]
    BY <2>1, CartOfDevice DEF CheckoutInv
  <2>3. IsOrderInCart(cart[d], orders[d][row].id)
    BY <2>1, <2>2 DEF IsOrderInCart
  <2>4. Len(CartWithoutRow(d, row)) = Len(cart[d]) - 1
    BY <2>2, <2>3, RemoveOrderProperties DEF CartWithoutRow
  <2>5. row <= rows[d]
    BY <2>1, <2>2, CartOfDevice DEF CheckoutInv
  <2> QED BY <2>1, <2>4, <2>5
<1>4. Spec => []CheckoutInv
  BY InvariantHolds
<1> QED BY <1>1, <1>2, <1>3, <1>4, PTL DEF Spec

-----------------------------------------------------------------------------
(***************************************************************************)
(* What one device stores is not lost while no callback of a read has been *)
(* overtaken, for any number of its check-outs, users, vendors, restarts   *)
(* and refused writes.  The argument is about the callback: what it merges *)
(* with ends with every list that leads to the same path, because it is    *)
(* what the device would read at that moment.                              *)
(***************************************************************************)

(***************************************************************************)
(* Lists that end with a list.                                             *)
(***************************************************************************)
LEMMA EndsWithItself ==
    ASSUME NEW S, NEW s \in Seq(S)
    PROVE  EndsWith(s, s)
BY LenProperties DEF EndsWith

LEMMA EndsWithTransitive ==
    ASSUME NEW S, NEW r \in Seq(S), NEW s \in Seq(S), NEW t \in Seq(S),
           EndsWith(r, s), EndsWith(s, t)
    PROVE  EndsWith(r, t)
<1>1. Len(r) \in Nat /\ Len(s) \in Nat /\ Len(t) \in Nat
  BY LenProperties
<1>2. Len(t) <= Len(s) /\ Len(s) <= Len(r)
  BY DEF EndsWith
<1>3. ASSUME NEW n \in 1..Len(t)
      PROVE  r[(Len(r) - Len(t)) + n] = t[n]
  <2>1. s[(Len(s) - Len(t)) + n] = t[n]
    BY DEF EndsWith
  <2>2. (Len(s) - Len(t)) + n \in 1..Len(s)
    BY <1>1, <1>2
  <2>3. r[(Len(r) - Len(s)) + ((Len(s) - Len(t)) + n)] = s[(Len(s) - Len(t)) + n]
    BY <2>2 DEF EndsWith
  <2>4. (Len(r) - Len(s)) + ((Len(s) - Len(t)) + n) = (Len(r) - Len(t)) + n
    BY <1>1
  <2> QED BY <2>1, <2>3, <2>4
<1> QED BY <1>1, <1>2, <1>3 DEF EndsWith

LEMMA ConcatEndsWith ==
    ASSUME NEW S, NEW s \in Seq(S), NEW t \in Seq(S)
    PROVE  EndsWith(s \o t, t) /\ Holds(s \o t, s)
<1>1. Len(s) \in Nat /\ Len(t) \in Nat /\ DOMAIN s = 1..Len(s)
  BY LenProperties
<1>2. /\ s \o t \in Seq(S)
      /\ Len(s \o t) = Len(s) + Len(t)
      /\ \A i \in 1..(Len(s) + Len(t)) :
            (s \o t)[i] = IF i <= Len(s) THEN s[i] ELSE t[i - Len(s)]
  BY ConcatProperties
<1>3. DOMAIN (s \o t) = 1..(Len(s) + Len(t))
  BY <1>2, LenProperties
<1>4. ASSUME NEW n \in 1..Len(t)
      PROVE  (s \o t)[(Len(s \o t) - Len(t)) + n] = t[n]
  <2>1. /\ (Len(s \o t) - Len(t)) + n = Len(s) + n
        /\ Len(s) + n \in 1..(Len(s) + Len(t))
        /\ ~(Len(s) + n <= Len(s))
        /\ (Len(s) + n) - Len(s) = n
    BY <1>1, <1>2
  <2> QED BY <1>2, <2>1
<1>5. EndsWith(s \o t, t)
  BY <1>1, <1>2, <1>4 DEF EndsWith
<1>6. Holds(s \o t, s)
  BY <1>1, <1>2, <1>3 DEF Holds
<1> QED BY <1>5, <1>6

LEMMA LongerListHolds ==
    ASSUME NEW S, NEW list \in Seq(S), NEW tail \in Seq(S), NEW submitted,
           EndsWith(list, tail), Holds(tail, submitted)
    PROVE  Holds(list, submitted)
<1>1. /\ Len(list) \in Nat /\ DOMAIN list = 1..Len(list)
      /\ Len(tail) \in Nat /\ DOMAIN tail = 1..Len(tail)
  BY LenProperties
<1>2. \A m \in DOMAIN tail : /\ (Len(list) - Len(tail)) + m \in DOMAIN list
                             /\ list[(Len(list) - Len(tail)) + m] = tail[m]
  BY <1>1 DEF EndsWith
<1> QED BY <1>2 DEF Holds

\* EndsWith is the suffix relation of the community modules.
LEMMA EndsWithIsSuffix ==
    ASSUME NEW S, NEW list \in Seq(S), NEW tail \in Seq(S), EndsWith(list, tail)
    PROVE  IsSuffix(tail, list)
<1> DEFINE L == Len(list)
           T == Len(tail)
           rl == Reverse(list)
           rt == Reverse(tail)
<1>1. L \in Nat /\ T \in Nat /\ T <= L
  BY LenProperties DEF EndsWith
<1>2. /\ rl \in Seq(S) /\ Len(rl) = L
      /\ \A i \in 1..L : rl[i] = list[(L - i) + 1]
  <2>1. rl = [i \in 1..L |-> list[(L - i) + 1]]
    BY DEF Reverse
  <2>2. \A i \in 1..L : list[(L - i) + 1] \in S
    BY <1>1, ElementOfSeq
  <2> HIDE DEF rl
  <2> QED BY <1>1, <2>1, <2>2
<1>3. /\ rt \in Seq(S) /\ Len(rt) = T
      /\ \A i \in 1..T : rt[i] = tail[(T - i) + 1]
  <2>1. rt = [i \in 1..T |-> tail[(T - i) + 1]]
    BY DEF Reverse
  <2>2. \A i \in 1..T : tail[(T - i) + 1] \in S
    BY <1>1, ElementOfSeq
  <2> HIDE DEF rt
  <2> QED BY <1>1, <2>1, <2>2
<1> HIDE DEF rl, rt
<1>4. ASSUME NEW i \in 1..T PROVE rl[i] = rt[i]
  <2>1. (T - i) + 1 \in 1..T /\ i \in 1..L
    BY <1>1
  <2>2. list[(L - T) + ((T - i) + 1)] = tail[(T - i) + 1]
    BY <2>1 DEF EndsWith
  <2>3. (L - T) + ((T - i) + 1) = (L - i) + 1
    BY <1>1
  <2> QED BY <1>2, <1>3, <2>1, <2>2, <2>3
<1>5. /\ SubSeq(rt, 1, T) \in Seq(S) /\ Len(SubSeq(rt, 1, T)) = T
      /\ \A i \in 1..T : SubSeq(rt, 1, T)[i] = rt[i]
  <2>1. \A i \in 1..T : rt[i] \in S
    BY <1>3, ElementOfSeq
  <2> QED BY <1>1, <2>1, SubSeqProperties
<1>6. /\ SubSeq(rl, 1, T) \in Seq(S) /\ Len(SubSeq(rl, 1, T)) = T
      /\ \A i \in 1..T : SubSeq(rl, 1, T)[i] = rl[i]
  <2>1. \A i \in 1..T : rl[i] \in S
    BY <1>1, <1>2, ElementOfSeq
  <2> QED BY <1>1, <2>1, SubSeqProperties
<1>7. SubSeq(rt, 1, T) = SubSeq(rl, 1, T)
  BY <1>4, <1>5, <1>6, SeqEqual
<1>8. IsPrefix(rt, rl)
  BY <1>1, <1>2, <1>3, <1>7 DEF IsPrefix
<1> QED BY <1>8 DEF IsSuffix, rl, rt
-----------------------------------------------------------------------------
(***************************************************************************)
(* An outbox, apart from the state it is found in: the lists q waiting for *)
(* the server, what the server holds (db) and what each check-out          *)
(* submitted (sub).                                                        *)
(***************************************************************************)
At(w, sub) == Path(w.branch, sub[w.job])

QueueOK(q, db, sub) ==
    \A n \in DOMAIN q :
        /\ Holds(q[n].value, sub[q[n].job])
        /\ EndsWith(q[n].value, db[q[n].branch][At(q[n], sub)])
        /\ \A m \in 1..(n - 1) :
              q[m].branch = q[n].branch /\ At(q[m], sub) = At(q[n], sub)
              => EndsWith(q[n].value, q[m].value)

Submitted == [j \in Jobs |-> job[j].orders]
Lists == [Branches -> [Keys -> Seq(Order)]]

\* A list that ends with all the lists of its path may join the outbox.
LEMMA QueueAppend ==
    ASSUME NEW q \in Seq(Write), NEW db, NEW sub, NEW w \in Write,
           QueueOK(q, db, sub),
           Holds(w.value, sub[w.job]),
           EndsWith(w.value, db[w.branch][At(w, sub)]),
           \A m \in DOMAIN q : q[m].branch = w.branch /\ At(q[m], sub) = At(w, sub)
                               => EndsWith(w.value, q[m].value)
    PROVE  QueueOK(Append(q, w), db, sub)
<1> DEFINE r == Append(q, w)
           L == Len(q)
<1>1. L \in Nat /\ DOMAIN q = 1..L
  BY LenProperties
<1>2. /\ DOMAIN r = 1..(L + 1)
      /\ \A n \in 1..L : r[n] = q[n]
      /\ r[L + 1] = w
  <2>1. r \in Seq(Write) /\ Len(r) = L + 1
    BY AppendProperties
  <2> QED BY <2>1, AppendProperties, LenProperties
<1> HIDE DEF r, L
<1>3. SUFFICES ASSUME NEW n \in DOMAIN r
               PROVE  /\ Holds(r[n].value, sub[r[n].job])
                      /\ EndsWith(r[n].value, db[r[n].branch][At(r[n], sub)])
                      /\ \A m \in 1..(n - 1) :
                            r[m].branch = r[n].branch /\ At(r[m], sub) = At(r[n], sub)
                            => EndsWith(r[n].value, r[m].value)
  BY DEF QueueOK, r
<1>4. CASE n \in 1..L
  <2>1. r[n] = q[n] /\ n \in DOMAIN q /\ \A m \in 1..(n - 1) : r[m] = q[m]
    BY <1>1, <1>2, <1>4
  <2> QED BY <2>1 DEF QueueOK
<1>5. CASE n = L + 1
  <2>1. r[n] = w /\ \A m \in 1..(n - 1) : r[m] = q[m] /\ m \in DOMAIN q
    BY <1>1, <1>2, <1>5
  <2> QED BY <2>1
<1> QED BY <1>1, <1>2, <1>3, <1>4, <1>5

\* When the server takes the oldest list, those behind it end with it.
LEMMA QueueSaved ==
    ASSUME NEW q \in Seq(Write), NEW db \in Lists, NEW sub \in [Jobs -> Seq(Order)],
           q # << >>, QueueOK(q, db, sub)
    PROVE  QueueOK(Tail(q),
                   [db EXCEPT ![Head(q).branch][At(Head(q), sub)] = Head(q).value], sub)
<1>1. /\ Tail(q) \in Seq(Write)
      /\ Len(q) \in Nat \ {0} /\ DOMAIN q = 1..Len(q)
      /\ DOMAIN Tail(q) = 1..(Len(q) - 1)
      /\ \A n \in 1..(Len(q) - 1) : Tail(q)[n] = q[n + 1]
  BY HeadTailProperties, LenProperties, EmptySeq
<1>2. Head(q) = q[1]
  BY <1>1
<1> DEFINE new == [db EXCEPT ![Head(q).branch][At(Head(q), sub)] = Head(q).value]
           r == Tail(q)
<1>3. ASSUME NEW n \in DOMAIN q
      PROVE  /\ q[n].branch \in Branches /\ At(q[n], sub) \in Keys
             /\ new[q[n].branch][At(q[n], sub)] =
                  IF q[1].branch = q[n].branch /\ At(q[1], sub) = At(q[n], sub)
                  THEN q[1].value ELSE db[q[n].branch][At(q[n], sub)]
  <2>1. ASSUME NEW m \in DOMAIN q PROVE q[m].branch \in Branches /\ At(q[m], sub) \in Keys
    <3>1. q[m] \in Write
      BY <1>1, ElementOfSeq
    <3>2. q[m].branch \in Branches /\ q[m].job \in Jobs
      BY <3>1 DEF Write
    <3>3. sub[q[m].job] \in Seq(Order)
      BY <3>2
    <3> QED BY <3>2, <3>3, PathIsKey DEF At
  <2>2. 1 \in DOMAIN q
    BY <1>1
  <2> QED BY <1>2, <2>1, <2>2 DEF Lists
<1> HIDE DEF new, r
<1>4. SUFFICES ASSUME NEW n \in DOMAIN r
               PROVE  /\ Holds(r[n].value, sub[r[n].job])
                      /\ EndsWith(r[n].value, new[r[n].branch][At(r[n], sub)])
                      /\ \A m \in 1..(n - 1) :
                            r[m].branch = r[n].branch /\ At(r[m], sub) = At(r[n], sub)
                            => EndsWith(r[n].value, r[m].value)
  BY DEF QueueOK, r, new
<1>5. /\ r[n] = q[n + 1] /\ n + 1 \in DOMAIN q /\ 1 \in 1..((n + 1) - 1)
      /\ \A m \in 1..(n - 1) : r[m] = q[m + 1] /\ m + 1 \in 1..((n + 1) - 1)
  BY <1>1, <1>4 DEF r
<1>6. EndsWith(r[n].value, new[r[n].branch][At(r[n], sub)])
  BY <1>3, <1>5 DEF QueueOK
<1> QED BY <1>5, <1>6 DEF QueueOK

\* A refused list changes nothing for those behind it.
LEMMA QueueRejected ==
    ASSUME NEW q \in Seq(Write), NEW db, NEW sub, q # << >>, QueueOK(q, db, sub)
    PROVE  QueueOK(Tail(q), db, sub)
<1>1. /\ Len(q) \in Nat \ {0} /\ DOMAIN q = 1..Len(q)
      /\ DOMAIN Tail(q) = 1..(Len(q) - 1)
      /\ \A n \in 1..(Len(q) - 1) : Tail(q)[n] = q[n + 1]
  BY HeadTailProperties, LenProperties, EmptySeq
<1>2. \A n \in DOMAIN Tail(q) :
         /\ Tail(q)[n] = q[n + 1] /\ n + 1 \in DOMAIN q
         /\ \A m \in 1..(n - 1) : Tail(q)[m] = q[m + 1] /\ m + 1 \in 1..((n + 1) - 1)
  BY <1>1
<1> QED BY <1>2 DEF QueueOK
-----------------------------------------------------------------------------
(***************************************************************************)
(* HistoryInv in terms of the outboxes, and the steps that keep it.        *)
(***************************************************************************)
LEMMA HistoryIsQueues ==
    TypeOK => (HistoryInv <=> /\ SavedIsStored
                              /\ \A d \in Devices : QueueOK(outbox[d], database, Submitted))
<1> SUFFICES ASSUME TypeOK
             PROVE  HistoryInv <=> /\ SavedIsStored
                                   /\ \A d \in Devices : QueueOK(outbox[d], database, Submitted)
  OBVIOUS
<1>1. \A d \in Devices : DOMAIN outbox[d] = 1..Len(outbox[d]) /\ Len(outbox[d]) \in Nat
  BY OutboxOfDevice
<1>2. \A d \in Devices : \A n \in DOMAIN outbox[d] :
         /\ outbox[d][n].job \in Jobs
         /\ Submitted[outbox[d][n].job] = job[outbox[d][n].job].orders
         /\ At(outbox[d][n], Submitted) = KeyOf(outbox[d][n])
  BY OutboxOfDevice DEF Submitted, At, KeyOf
<1>3. \A d \in Devices : \A n \in DOMAIN outbox[d] : \A m \in 1..(n - 1) : m \in DOMAIN outbox[d]
  BY <1>1
<1>4. ASSUME NEW d \in Devices, NEW n \in DOMAIN outbox[d]
      PROVE  (\A m \in 1..(n - 1) :
                SamePath(outbox[d][m], outbox[d][n])
                => EndsWith(outbox[d][n].value, outbox[d][m].value))
             <=> (\A m \in 1..(n - 1) :
                    outbox[d][m].branch = outbox[d][n].branch
                    /\ At(outbox[d][m], Submitted) = At(outbox[d][n], Submitted)
                    => EndsWith(outbox[d][n].value, outbox[d][m].value))
  BY <1>2, <1>3 DEF SamePath
<1> QED BY <1>2, <1>4 DEF HistoryInv, QueueOK

\* What a device reads ends with every list that leads to the same path.
LEMMA ViewEndsWithAll ==
    ASSUME TypeOK, NEW d \in Devices, NEW b \in Branches, NEW k \in Keys,
           QueueOK(outbox[d], database, Submitted)
    PROVE  /\ EndsWith(LocalView(d, b, k), database[b][k])
           /\ \A m \in DOMAIN outbox[d] :
                 outbox[d][m].branch = b /\ At(outbox[d][m], Submitted) = k
                 => EndsWith(LocalView(d, b, k), outbox[d][m].value)
<1> DEFINE P == PendingWrites(d, b, k)
<1>1. /\ outbox[d] \in Seq(Write)
      /\ Len(outbox[d]) \in Nat
      /\ DOMAIN outbox[d] = 1..Len(outbox[d])
      /\ database[b][k] \in Seq(Order)
  BY OutboxOfDevice DEF TypeOK
<1>2. P = {m \in DOMAIN outbox[d] : outbox[d][m].branch = b /\ At(outbox[d][m], Submitted) = k}
  <2>1. \A m \in DOMAIN outbox[d] :
           outbox[d][m].branch = b =>
              At(outbox[d][m], Submitted) = Path(b, job[outbox[d][m].job].orders)
    BY OutboxOfDevice DEF At, Submitted
  <2> QED BY <2>1 DEF PendingWrites
<1>3. CASE P = {}
  <2>1. LocalView(d, b, k) = database[b][k]
    BY <1>3 DEF LocalView
  <2> QED BY <1>1, <1>2, <1>3, <2>1, EndsWithItself
<1>4. CASE P # {}
  <2>1. Max(P) \in P /\ \A m \in P : Max(P) >= m
    BY <1>1, <1>2, <1>4, MaxOfNats
  <2>2. LocalView(d, b, k) = outbox[d][Max(P)].value
    BY <1>4 DEF LocalView
  <2>3. PICK n \in P : n = Max(P)
    BY <2>1
  <2> HIDE DEF P
  <2>4. n \in DOMAIN outbox[d] /\ outbox[d][n].branch = b /\ At(outbox[d][n], Submitted) = k
    BY <1>2, <2>3
  <2>5. outbox[d][n].value \in Seq(Order)
    BY <2>4, OutboxOfDevice DEF Write
  <2>6. EndsWith(outbox[d][n].value, database[b][k])
    BY <2>4 DEF QueueOK
  <2>7. ASSUME NEW m \in P PROVE EndsWith(outbox[d][n].value, outbox[d][m].value)
    <3>1. CASE m = n
      BY <2>5, <3>1, EndsWithItself
    <3>2. CASE m # n
      <4>1. n >= m
        BY <2>1, <2>3
      <4>2. m \in DOMAIN outbox[d] /\ outbox[d][m].branch = b /\ At(outbox[d][m], Submitted) = k
        BY <1>2
      <4>3. m \in 1..(n - 1)
        BY <1>1, <2>4, <3>2, <4>1, <4>2
      <4> QED BY <2>4, <4>2, <4>3 DEF QueueOK
    <3> QED BY <3>1, <3>2
  <2> QED BY <1>2, <2>2, <2>3, <2>6, <2>7
<1> QED BY <1>3, <1>4

\* A callback that merges with what its device would read, and the write it adds.
LEMMA QueueAfterCallback ==
    ASSUME TypeOK, NEW e \in Devices, ReadCallback(e), ~Overtaken(e),
           \A d \in Devices : d = e,
           \A d \in Devices : QueueOK(outbox[d], database, Submitted)
    PROVE  /\ Submitted' = Submitted /\ database' = database
           /\ \A d \in Devices : QueueOK(outbox'[d], database, Submitted)
<1>1. PICK d \in Devices, j \in Jobs, b \in Branches, k \in Keys,
           existing \in Seq(Order), submitted \in Seq(Order) :
         /\ d = DeviceOf[j] /\ submitted = job[j].orders
         /\ k = Path(b, submitted) /\ existing = LocalView(d, b, k)
         /\ SetValue(j, b, submitted \o existing)
  <2>1. PICK answer \in Answer : answer = Head(answers[e])
    BY CallbackSets
  <2>2. /\ answer.job \in Jobs /\ answer.branch \in Branches
        /\ answer.found \in Seq(Order)
        /\ SetValue(answer.job, answer.branch, job[answer.job].orders \o answer.found)
    BY <2>1, CallbackSets DEF Merge
  <2>3. job[answer.job].orders \in Seq(Order) /\ DeviceOf[answer.job] \in Devices
    BY <2>2 DEF TypeOK, Job
  <2>4. Path(answer.branch, job[answer.job].orders) \in Keys
    BY <2>2, <2>3, PathIsKey
  <2>5. answer.found
          = LocalView(e, answer.branch, Path(answer.branch, job[answer.job].orders))
    BY <2>1 DEF Overtaken
  <2>6. DeviceOf[answer.job] = e
    BY <2>3
  <2> QED BY <2>2, <2>3, <2>4, <2>5, <2>6
<1>2. PICK value \in Seq(Order) : value = submitted \o existing
  BY ConcatProperties
<1>3. PICK w \in Write : w = [job |-> j, branch |-> b, value |-> value]
  BY DEF Write
<1>4. /\ job' = job /\ database' = database
      /\ outbox'[d] = Append(outbox[d], w)
      /\ \A o \in Devices : o # d => outbox'[o] = outbox[o]
  BY <1>1, <1>2, <1>3 DEF SetValue, TypeOK
<1>5. Submitted' = Submitted
  BY <1>4 DEF Submitted
<1>6. /\ w.branch = b /\ w.value = value
      /\ Submitted[w.job] = submitted /\ At(w, Submitted) = k
  BY <1>1, <1>3 DEF At, Submitted
<1>7. /\ EndsWith(value, existing)
      /\ Holds(value, submitted)
  BY <1>2, ConcatEndsWith
<1>8. /\ EndsWith(existing, database[b][k])
      /\ \A m \in DOMAIN outbox[d] :
            outbox[d][m].branch = b /\ At(outbox[d][m], Submitted) = k
            => EndsWith(existing, outbox[d][m].value)
  BY <1>1, ViewEndsWithAll
<1>9. EndsWith(value, database[b][k])
  <2>1. database[b][k] \in Seq(Order)
    BY DEF TypeOK
  <2> QED BY <1>7, <1>8, <2>1, EndsWithTransitive
<1>10. ASSUME NEW m \in DOMAIN outbox[d],
              outbox[d][m].branch = b, At(outbox[d][m], Submitted) = k
       PROVE  EndsWith(value, outbox[d][m].value)
  <2>1. outbox[d][m].value \in Seq(Order)
    BY OutboxOfDevice DEF Write
  <2>2. EndsWith(existing, outbox[d][m].value)
    BY <1>8, <1>10
  <2> QED BY <1>7, <2>1, <2>2, EndsWithTransitive
<1>11. QueueOK(Append(outbox[d], w), database, Submitted)
  BY <1>6, <1>7, <1>9, <1>10, OutboxOfDevice, QueueAppend
<1>12. \A o \in Devices : QueueOK(outbox'[o], database, Submitted)
  BY <1>4, <1>11
<1> QED BY <1>4, <1>5, <1>12
-----------------------------------------------------------------------------
(***************************************************************************)
(* The history of the only device, one step per action.                    *)
(***************************************************************************)
Stored == SavedIsStored /\ \A d \in Devices : QueueOK(outbox[d], database, Submitted)

ListsGrow == \A b \in Branches : \A k \in Keys : EndsWith(database'[b][k], database[b][k])

LEMMA ListsUntouched ==
    ASSUME TypeOK, database' = database
    PROVE  ListsGrow
<1>1. \A b \in Branches : \A k \in Keys : database[b][k] \in Seq(Order)
  BY DEF TypeOK
<1> QED BY <1>1, EndsWithItself DEF ListsGrow

\* Steps that change no list, no outbox and not what a check-out submitted.
LEMMA StoredUntouched ==
    ASSUME Stored, database' = database, Submitted' = Submitted,
           \A d \in Devices : QueueOK(outbox'[d], database, Submitted),
           \A j \in Jobs : \A b \in Branches :
              branch'[j][b] = "saved" => branch[j][b] = "saved"
    PROVE  Stored'
<1>1. \A j \in Jobs : Submitted[j] = job[j].orders /\ Submitted'[j] = job'[j].orders
  BY DEF Submitted
<1>2. \A j \in Jobs : job'[j].orders = job[j].orders
  BY <1>1
<1>3. SavedIsStored'
  BY <1>2 DEF Stored, SavedIsStored
<1> QED BY <1>3 DEF Stored

LEMMA StoredAfterSave ==
    ASSUME CheckoutInv, Stored, NEW d \in Devices, WriteSaved(d), \A e \in Devices : e = d
    PROVE  Stored' /\ ListsGrow
<1>1. /\ outbox[d] # << >> /\ outbox[d] \in Seq(Write)
      /\ 1 \in DOMAIN outbox[d] /\ Head(outbox[d]) = outbox[d][1]
  <2>1. outbox[d] # << >> /\ TypeOK
    BY DEF WriteSaved, Answered, CheckoutInv
  <2> QED BY <2>1, OutboxOfDevice, EmptySeq
<1>2. PICK w \in Write : w = Head(outbox[d])
  BY <1>1, ElementOfSeq, OutboxOfDevice DEF CheckoutInv
<1>3. PICK j \in Jobs, b \in Branches, value \in Seq(Order) :
         j = w.job /\ b = w.branch /\ value = w.value
  BY DEF Write
<1>4. PICK k \in Keys : k = Path(b, job[j].orders)
  <2>1. job[j].orders \in Seq(Order)
    BY DEF CheckoutInv, TypeOK, Job
  <2> QED BY <2>1, PathIsKey
<1>5. k = At(w, Submitted) /\ Submitted[j] = job[j].orders
  BY <1>3, <1>4 DEF At, Submitted
<1>6. /\ job' = job /\ Submitted' = Submitted
      /\ outbox'[d] = Tail(outbox[d])
      /\ database' = [database EXCEPT ![b][k] = value]
      /\ branch' = [branch EXCEPT ![j][b] = "saved"]
  BY <1>2, <1>3, <1>4 DEF WriteSaved, Answered, CheckoutInv, TypeOK, Submitted
<1>7. database \in Lists /\ Submitted \in [Jobs -> Seq(Order)]
  BY DEF CheckoutInv, TypeOK, Lists, Job, Submitted
<1>8. QueueOK(Tail(outbox[d]), database', Submitted)
  <2>1. QueueOK(outbox[d], database, Submitted)
    BY DEF Stored
  <2> QED BY <1>1, <1>2, <1>3, <1>5, <1>6, <1>7, <2>1, QueueSaved
<1>9. Holds(value, job[j].orders) /\ EndsWith(value, database[b][k])
  BY <1>1, <1>2, <1>3, <1>5 DEF Stored, QueueOK
<1>10. ASSUME NEW c \in Branches, NEW l \in Keys
       PROVE  /\ database[c][l] \in Seq(Order) /\ database'[c][l] \in Seq(Order)
              /\ EndsWith(database'[c][l], database[c][l])
              /\ c = b /\ l = k => database'[c][l] = value
  <2>1. database[c][l] \in Seq(Order) /\ value \in Seq(Order)
    BY <1>7 DEF Lists
  <2>2. database'[c][l] = IF c = b /\ l = k THEN value ELSE database[c][l]
    BY <1>6, <1>7 DEF Lists
  <2>3. EndsWith(database[c][l], database[c][l])
    BY <2>1, EndsWithItself
  <2> QED BY <1>9, <2>1, <2>2, <2>3
<1>11. SavedIsStored'
  <2>1. SUFFICES ASSUME NEW i \in Jobs, NEW c \in Branches, branch'[i][c] = "saved"
                 PROVE  Holds(database'[c][Path(c, job[i].orders)], job[i].orders)
    BY <1>6 DEF SavedIsStored
  <2>2. CASE i = j /\ c = b
    BY <1>4, <1>9, <1>10, <2>2
  <2>3. CASE i # j \/ c # b
    <3>1. branch[i][c] = "saved"
      BY <1>6, <2>1, <2>3 DEF CheckoutInv, TypeOK
    <3>2. PICK l \in Keys : l = Path(c, job[i].orders)
      <4>1. job[i].orders \in Seq(Order)
        BY DEF CheckoutInv, TypeOK, Job
      <4> QED BY <4>1, PathIsKey
    <3>3. Holds(database[c][l], job[i].orders)
      BY <3>1, <3>2 DEF Stored, SavedIsStored
    <3>4. Holds(database'[c][l], job[i].orders)
      BY <1>10, <3>3, LongerListHolds
    <3> QED BY <3>2, <3>4
  <2> QED BY <2>2, <2>3
<1>12. \A e \in Devices : QueueOK(outbox'[e], database', Submitted')
  BY <1>6, <1>8
<1> QED BY <1>10, <1>11, <1>12 DEF Stored, ListsGrow

LEMMA StoredAfterTap ==
    ASSUME CheckoutInv, Stored, NEW d \in Devices, NEW j \in Jobs, CheckOutTap(d, j)
    PROVE  Stored'
<1>1. /\ outbox' = outbox /\ database' = database
      /\ job[j].status = "idle"
      /\ branch'[j] = [b \in Branches |-> "reading"]
      /\ \A i \in Jobs : i # j => job'[i] = job[i] /\ branch'[i] = branch[i]
  BY DEF CheckOutTap, CheckoutInv, TypeOK
<1>2. SavedIsStored'
  BY <1>1 DEF Stored, SavedIsStored
<1>3. \A i \in Jobs : i # j => Submitted'[i] = Submitted[i]
  BY <1>1 DEF Submitted
<1>4. ASSUME NEW e \in Devices
      PROVE  QueueOK(outbox[e], database, Submitted')
  <2>1. \A n \in DOMAIN outbox[e] :
           /\ outbox[e][n].job \in Jobs /\ outbox[e][n].job # j
           /\ Submitted'[outbox[e][n].job] = Submitted[outbox[e][n].job]
    BY <1>1, <1>3, OutboxOfDevice DEF CheckoutInv, BranchesMatchOutbox, OutboxIsLive
  <2>2. \A n \in DOMAIN outbox[e] : \A m \in 1..(n - 1) : m \in DOMAIN outbox[e]
    BY OutboxOfDevice DEF CheckoutInv
  <2>3. \A n \in DOMAIN outbox[e] : At(outbox[e][n], Submitted') = At(outbox[e][n], Submitted)
    BY <2>1 DEF At
  <2> QED BY <2>1, <2>2, <2>3 DEF Stored, QueueOK
<1> QED BY <1>1, <1>2, <1>4 DEF Stored

LEMMA SubmittedUntouched ==
    ASSUME \A j \in Jobs : job'[j].orders = job[j].orders
    PROVE  Submitted' = Submitted
BY DEF Submitted

LEMMA EmptyQueueOK ==
    ASSUME NEW db, NEW sub
    PROVE  QueueOK(<< >>, db, sub)
BY DEF QueueOK

LEMMA StoredAfterAnswer ==
    ASSUME CheckoutInv, Stored, NEW d \in Devices, WriteRejected(d), \A e \in Devices : e = d
    PROVE  Stored' /\ database' = database
<1>1. outbox[d] # << >> /\ outbox[d] \in Seq(Write)
  BY OutboxOfDevice DEF WriteRejected, Answered, CheckoutInv
<1>2. /\ job' = job /\ database' = database
      /\ outbox'[d] = Tail(outbox[d])
      /\ branch' = [branch EXCEPT ![Head(outbox[d]).job][Head(outbox[d]).branch] = "rejected"]
  BY DEF WriteRejected, Answered, CheckoutInv, TypeOK
<1>3. QueueOK(Tail(outbox[d]), database, Submitted)
  BY <1>1, QueueRejected DEF Stored
<1>4. Submitted' = Submitted
  BY <1>2 DEF Submitted
<1>5. \A j \in Jobs : \A b \in Branches : branch'[j][b] = "saved" => branch[j][b] = "saved"
  BY <1>2 DEF CheckoutInv, TypeOK
<1>6. \A e \in Devices : QueueOK(outbox'[e], database, Submitted)
  BY <1>2, <1>3
<1> QED BY <1>2, <1>4, <1>5, <1>6, StoredUntouched

\* From a state of a device that is alone in which the strengthened invariant
\* holds, every step appends to the lists or leaves them, and every step but a
\* callback that was overtaken keeps the invariant.
LEMMA StoredStep ==
    ASSUME \A d, e \in Devices : d = e,
           CheckoutInv, Stored, [Next]_vars
    PROVE  /\ ListsGrow
           /\ (\A d \in Devices : ReadCallback(d) => ~Overtaken(d)) => Stored'
<1>1. TypeOK
  BY DEF CheckoutInv
<1>2. ASSUME database' = database, outbox' = outbox, branch' = branch,
             \A j \in Jobs : job'[j].orders = job[j].orders
      PROVE  Stored' /\ ListsGrow
  BY <1>1, <1>2, SubmittedUntouched, StoredUntouched, ListsUntouched DEF Stored
<1>3. ASSUME NEW d \in Devices,
             \/ \E p \in Products : AddToCart(d, p)
             \/ ShowOrders(d) \/ HideOrders(d) \/ Refresh(d)
             \/ \E row \in 1..MaxOrders : DeleteRow(d, row)
      PROVE  Stored' /\ ListsGrow
  BY <1>2, <1>3 DEF AddToCart, ShowOrders, HideOrders, Refresh, DeleteRow
<1>4. ASSUME NEW d \in Devices, NEW u \in UserIds, Relogin(d, u)
      PROVE  Stored' /\ ListsGrow
  <2>1. \A j \in Jobs : job'[j].orders = job[j].orders
    BY <1>1, <1>4 DEF Relogin, TypeOK, Job
  <2>2. database' = database /\ outbox' = outbox /\ branch' = branch
    BY <1>4 DEF Relogin
  <2> QED BY <1>2, <2>1, <2>2
<1>5. ASSUME NEW d \in Devices, ProcessEnds(d), branch' = branch, database' = database
      PROVE  Stored' /\ ListsGrow
  <2>1. \A j \in Jobs : job'[j].orders = job[j].orders
    BY <1>1, <1>5 DEF ProcessEnds, TypeOK, Job
  <2>2. \A e \in Devices : outbox'[e] = << >>
    BY <1>1, <1>5 DEF ProcessEnds, TypeOK
  <2>3. \A e \in Devices : QueueOK(outbox'[e], database, Submitted)
    BY <2>2, EmptyQueueOK
  <2> QED BY <1>1, <1>5, <2>1, <2>3, SubmittedUntouched, StoredUntouched, ListsUntouched
<1>6. ASSUME NEW d \in Devices,
             Terminate(d) \/ \E row \in 1..MaxOrders : DeleteRowRaises(d, row)
      PROVE  Stored' /\ ListsGrow
  BY <1>5, <1>6 DEF Terminate, DeleteRowRaises
<1>7. ASSUME NEW d \in Devices, NEW j \in Jobs, CheckOutTap(d, j)
      PROVE  Stored' /\ ListsGrow
  <2>1. database' = database
    BY <1>7 DEF CheckOutTap
  <2> QED BY <1>1, <1>7, <2>1, StoredAfterTap, ListsUntouched
<1>8. ASSUME NEW d \in Devices, WriteSaved(d)
      PROVE  Stored' /\ ListsGrow
  BY <1>8, StoredAfterSave
<1>9. ASSUME NEW d \in Devices, WriteRejected(d)
      PROVE  Stored' /\ ListsGrow
  BY <1>1, <1>9, StoredAfterAnswer, ListsUntouched
<1>10. ASSUME NEW d \in Devices, ReadCallback(d)
       PROVE  ListsGrow /\ (~Overtaken(d) => Stored')
  <2> DEFINE answer == Head(answers[d])
             value == Merge(job[answer.job].orders, answer.found)
  <2>1. answer.job \in Jobs /\ answer.branch \in Branches
        /\ SetValue(answer.job, answer.branch, value)
    BY <1>1, <1>10, CallbackSets
  <2> HIDE DEF answer, value
  <2>2. database' = database
    BY <2>1 DEF SetValue
  <2>3. \A i \in Jobs : \A c \in Branches : branch'[i][c] = "saved" => branch[i][c] = "saved"
    BY <1>1, <2>1 DEF SetValue, TypeOK
  <2>4. ASSUME ~Overtaken(d) PROVE Stored'
    <3>1. /\ Submitted' = Submitted
          /\ \A e \in Devices : QueueOK(outbox'[e], database, Submitted)
      BY <1>1, <1>10, <2>4, QueueAfterCallback DEF Stored
    <3> QED BY <2>2, <2>3, <3>1, StoredUntouched
  <2> QED BY <1>1, <2>2, <2>4, ListsUntouched
<1>11. ASSUME NEW j \in Jobs, NEW b \in Branches, ReadReply(j, b) \/ ReadError(j, b)
       PROVE  Stored' /\ ListsGrow
  <2>1. PICK list : Reply(j, b, list)
    BY <1>11 DEF ReadReply, ReadError
  <2>2. /\ job' = job /\ database' = database /\ outbox' = outbox
        /\ \A i \in Jobs : \A c \in Branches :
              branch'[i][c] = "saved" => branch[i][c] = "saved"
    BY <1>1, <2>1 DEF Reply, TypeOK
  <2>3. \A d \in Devices : QueueOK(outbox'[d], database, Submitted)
    BY <2>2 DEF Stored
  <2> QED BY <1>1, <2>2, <2>3, SubmittedUntouched, StoredUntouched, ListsUntouched
<1>12. ASSUME NEW j \in Jobs, NotifySuccess(j) \/ NotifyFailure(j)
       PROVE  Stored' /\ ListsGrow
  <2>1. \A i \in Jobs : job'[i].orders = job[i].orders
    <3>1. PICK s \in Statuses : job' = [job EXCEPT ![j].status = s]
      BY <1>12 DEF NotifySuccess, NotifyFailure, Statuses
    <3> QED BY <1>1, <3>1 DEF TypeOK, Job
  <2>2. database' = database /\ outbox' = outbox /\ branch' = branch
    BY <1>12 DEF NotifySuccess, NotifyFailure
  <2> QED BY <1>2, <2>1, <2>2
<1>13. ASSUME UNCHANGED vars
       PROVE  Stored' /\ ListsGrow
  BY <1>2, <1>13 DEF vars
<1> QED
  BY <1>3, <1>4, <1>6, <1>7, <1>8, <1>9, <1>10, <1>11, <1>12, <1>13 DEF Next

LEMMA StoredInit == Init => Stored
<1> SUFFICES ASSUME Init PROVE Stored
  OBVIOUS
<1>1. SavedIsStored
  BY DEF Init, SavedIsStored
<1>2. \A d \in Devices : outbox[d] = << >>
  BY DEF Init
<1> QED BY <1>1, <1>2, EmptyQueueOK DEF Stored

\* The history variable watches the check-out and does not interfere with it.
LEMMA FreshStep == [FreshNext]_freshVars => [Next]_vars
BY DEF FreshNext, freshVars

THEOREM FreshIsCheckout == FreshSpec => Spec
BY FreshStep, PTL DEF FreshSpec, FreshInit, Spec

\* While no callback is overtaken the lists of a path, the stored one and those on
\* their way, each end with the one before, on a device that is alone.
LEMMA FreshStored ==
    ASSUME \A d, e \in Devices : d = e
    PROVE  FreshSpec => [](CheckoutInv /\ (fresh => Stored))
<1>1. FreshInit => Stored
  BY StoredInit DEF FreshInit
<1>2. CheckoutInv /\ (fresh => Stored) /\ [FreshNext]_freshVars => (fresh => Stored)'
  <2> SUFFICES ASSUME CheckoutInv, fresh => Stored, [FreshNext]_freshVars, fresh'
               PROVE  Stored'
    OBVIOUS
  <2>1. CASE FreshNext
    <3>1. fresh /\ \A d \in Devices : ReadCallback(d) => ~Overtaken(d)
      BY <2>1 DEF FreshNext
    <3> QED BY <3>1, FreshStep, StoredStep
  <2>2. CASE UNCHANGED freshVars
    <3>1. fresh' = fresh /\ UNCHANGED vars
      BY <2>2 DEF freshVars
    <3>2. \A d \in Devices : ReadCallback(d) => answers'[d] # answers[d]
      <4>1. SUFFICES ASSUME NEW d \in Devices, ReadCallback(d)
                     PROVE  answers'[d] # answers[d]
        OBVIOUS
      <4>2. /\ answers[d] \in Seq(Answer) /\ answers[d] # << >>
            /\ answers'[d] = Tail(answers[d])
        BY <4>1 DEF ReadCallback, CheckoutInv, TypeOK
      <4>3. Len(Tail(answers[d])) # Len(answers[d])
        <5>1. Len(answers[d]) \in Nat /\ Len(Tail(answers[d])) = Len(answers[d]) - 1
          BY <4>2, HeadTailProperties, LenProperties
        <5> QED BY <5>1
      <4>4. Tail(answers[d]) # answers[d]
        BY <4>3, Zenon
      <4> QED BY <4>2, <4>4, Zenon
    <3> QED BY <3>1, <3>2, StoredStep DEF vars
  <2> QED BY <2>1, <2>2
<1>3. Spec => []CheckoutInv
  BY InvariantHolds
<1> QED BY <1>1, <1>2, <1>3, FreshIsCheckout, PTL DEF FreshSpec

\* HistoryInv, its form in the terms of Checkout.
THEOREM HistoryHolds ==
    ASSUME \A d, e \in Devices : d = e
    PROVE  FreshSpec => [](fresh => HistoryInv)
<1>1. CheckoutInv /\ (fresh => Stored) => (fresh => HistoryInv)
  BY HistoryIsQueues DEF Stored, CheckoutInv
<1> QED BY <1>1, FreshStored, PTL

\* On a device that is alone, what a check-out was told is saved is stored, and stays
\* so until a callback is overtaken: with any number of overlapping check-outs,
\* users, vendors, refused reads and writes and restarts.
THEOREM SavedStaysStored ==
    ASSUME \A d, e \in Devices : d = e
    PROVE  FreshSpec => []SavedWhileFresh
<1>1. (fresh => HistoryInv) => SavedWhileFresh
  BY DEF HistoryInv, SavedWhileFresh
<1> QED BY <1>1, HistoryHolds, PTL

\* Under the same conditions no step takes anything out of a stored list.
THEOREM HistoryGrows ==
    ASSUME \A d, e \in Devices : d = e
    PROVE  FreshSpec => GrowsWhileFresh
<1> DEFINE Grown == \A b \in Branches : \A k \in Keys :
                       IsSuffix(database[b][k], database'[b][k])
<1>1. /\ CheckoutInv /\ (fresh => Stored)
      /\ (CheckoutInv /\ (fresh => Stored))'
      /\ [FreshNext]_freshVars
      => [fresh => Grown]_freshVars
  <2> SUFFICES ASSUME CheckoutInv, CheckoutInv', Stored, [FreshNext]_freshVars,
                      NEW b \in Branches, NEW k \in Keys
               PROVE  IsSuffix(database[b][k], database'[b][k])
    OBVIOUS
  <2>1. database[b][k] \in Seq(Order) /\ database'[b][k] \in Seq(Order)
    BY DEF CheckoutInv, TypeOK
  <2>2. EndsWith(database'[b][k], database[b][k])
    BY FreshStep, StoredStep DEF ListsGrow
  <2> QED BY <2>1, <2>2, EndsWithIsSuffix
<1> QED BY <1>1, FreshStored, PTL DEF FreshSpec, GrowsWhileFresh

-----------------------------------------------------------------------------
(***************************************************************************)
(* Orders leave the cart by the user's hand or when they are stored.       *)
(***************************************************************************)
\* Removing an order takes no other out.
LEMMA RemoveOrderKeepsOthers ==
    ASSUME NEW S, NEW list \in Seq(S), NEW id, NEW n \in DOMAIN list, list[n].id # id
    PROVE  IsOrderInCart(RemoveOrder(list, id), list[n].id)
<1>1. CASE ~IsOrderInCart(list, id)
  BY <1>1 DEF RemoveOrder, IsOrderInCart
<1>2. CASE IsOrderInCart(list, id)
  <2> DEFINE i == IndexOfOrder(list, id)
             rest == RemoveAt(list, i)
  <2>1. i \in 1..Len(list) /\ list[i].id = id
    BY <1>2, IndexOfOrderFinds
  <2>2. Len(list) \in Nat /\ DOMAIN list = 1..Len(list)
    BY LenProperties
  <2> HIDE DEF i
  <2>3. /\ rest \in Seq(S)
        /\ Len(rest) = Len(list) - 1
        /\ \A k \in 1..(Len(list) - 1) : rest[k] = IF k < i THEN list[k] ELSE list[k + 1]
    BY <2>1, RemoveAtShifts
  <2>4. RemoveOrder(list, id) = rest
    BY <1>2 DEF RemoveOrder, i
  <2> HIDE DEF rest
  <2>5. DOMAIN rest = 1..(Len(list) - 1)
    BY <2>3, LenProperties
  <2>6. n # i
    BY <2>1
  <2>7. CASE n < i
    <3>1. n \in DOMAIN rest /\ rest[n] = list[n]
      BY <2>1, <2>2, <2>3, <2>5, <2>7
    <3> QED BY <2>4, <3>1 DEF IsOrderInCart
  <2>8. CASE n > i
    <3>1. n - 1 \in DOMAIN rest /\ ~(n - 1 < i) /\ (n - 1) + 1 = n
      BY <2>1, <2>2, <2>5, <2>8
    <3>2. rest[n - 1] = list[n]
      BY <2>3, <2>5, <3>1
    <3> QED BY <2>4, <3>1, <3>2 DEF IsOrderInCart
  <2> QED BY <2>1, <2>2, <2>6, <2>7, <2>8
<1> QED BY <1>1, <1>2

\* Adding a product leaves the orders that are there to whom they belong, and a new one
\* belongs to the user.
LEMMA OrdersAfterAdd ==
    ASSUME CartsOK, NEW d \in Devices, NEW p \in Products, AddToCart(d, p)
    PROVE  /\ \A n \in DOMAIN cart[d] : /\ n \in DOMAIN cart'[d]
                                       /\ cart'[d][n].id = cart[d][n].id
                                       /\ cart'[d][n].consumerId = cart[d][n].consumerId
           /\ \A n \in DOMAIN cart'[d] :
                 n \in DOMAIN cart[d] \/ cart'[d][n].consumerId = user[d]
<1> DEFINE old == cart[d]
           new == AddOrder(old, nextId, p, user[d])
<1>1. cart'[d] = new
  BY DEF AddToCart, CartsOK, TypeOK
<1>2. /\ old \in Seq(Order) /\ Len(old) \in Nat /\ DOMAIN old = 1..Len(old)
      /\ \A k \in DOMAIN old : old[k] \in Order
      /\ nextId \in 1..(MaxOrders + 1) /\ user[d] \in UserIds
  BY CartOfDevice DEF CartsOK, TypeOK
<1>3. CASE IsProductInCart(old, p)
  <2> HIDE DEF old
  <2> DEFINE i == IndexOfProduct(old, p)
             row == [old[i] EXCEPT !.quantity = OneMore(@)]
  <2>1. i \in 1..Len(old) /\ old[i] \in Order
    BY <1>2, <1>3, IndexOfProductFinds
  <2> HIDE DEF i
  <2>3. row \in Order /\ row.id = old[i].id /\ row.consumerId = old[i].consumerId
    <3>1. old[i].quantity \in 1..MaxQuantity
      BY <2>1, OrderFields
    <3>2. OneMore(old[i].quantity) \in 1..MaxQuantity
      BY <3>1, QuantityAssumption DEF OneMore
    <3> QED BY <2>1, <3>2 DEF Order
  <2>4. /\ new \in Seq(Order)
        /\ Len(new) = Len(old)
        /\ \A k \in 1..Len(old) : new[k] = IF k = i THEN row ELSE old[k]
    BY <1>2, <1>3, <2>3, AddOrderRaises DEF i
  <2> HIDE DEF new, row
  <2>5. DOMAIN new = DOMAIN old
    BY <1>2, <2>4, LenProperties
  <2>6. \A n \in DOMAIN old : new[n].id = old[n].id /\ new[n].consumerId = old[n].consumerId
    BY <1>2, <2>3, <2>4
  <2>7. /\ \A n \in DOMAIN old : /\ n \in DOMAIN new
                                /\ new[n].id = old[n].id
                                /\ new[n].consumerId = old[n].consumerId
        /\ \A n \in DOMAIN new : n \in DOMAIN old
    BY <2>5, <2>6
  <2> QED BY <1>1, <2>7 DEF old
<1>4. CASE ~IsProductInCart(old, p)
  <2> HIDE DEF old
  <2> DEFINE o == CreateOrder(nextId, p, user[d])
  <2>1. new = Append(old, o)
    BY <1>4 DEF AddOrder
  <2>2. o.consumerId = user[d] /\ o \in Order
    <3>1. nextId <= MaxOrders
      BY <1>4 DEF AddToCart, old
    <3> QED BY <1>2, <3>1, CheckoutAssumption, QuantityAssumption DEF CreateOrder, Order
  <2> HIDE DEF o, new
  <2>3. /\ new \in Seq(Order) /\ Len(new) = Len(old) + 1
        /\ \A k \in 1..Len(old) : new[k] = old[k]
        /\ new[Len(old) + 1] = o
    BY <1>2, <2>1, <2>2, AppendProperties
  <2>4. DOMAIN new = 1..(Len(old) + 1)
    BY <2>3, LenProperties
  <2>5. /\ \A n \in DOMAIN old : n \in DOMAIN new /\ new[n] = old[n]
        /\ \A n \in DOMAIN new : n \in DOMAIN old \/ n = Len(old) + 1
    BY <1>2, <2>3, <2>4
  <2> QED BY <1>1, <2>2, <2>3, <2>5 DEF old
<1> QED BY <1>3, <1>4

\* An order leaves the cart because the user deleted it, or because both lists of a
\* check-out of that device are saved; never because a write failed, a process died or
\* somebody logged in (OrderController.swift removeOrder, checkOutCart).
THEOREM CartKeptAlways == Spec => CartKeptUntilSaved
<1> DEFINE Kept == \A d \in Devices : \A n \in DOMAIN cart[d] :
              ~ IsOrderInCart(cart'[d], cart[d][n].id) =>
                  \/ /\ onScreen[d]
                     /\ IsOrderInCart(orders[d], cart[d][n].id)
                     /\ Len(cart'[d]) = Len(cart[d]) - 1
                  \/ \E j \in Jobs : /\ CheckedOut(d, j)
                                     /\ \A b \in Branches : branch[j][b] = "saved"
<1>1. CheckoutInv /\ [Next]_vars => [Kept]_vars
  <2> SUFFICES ASSUME CheckoutInv, Next, NEW d \in Devices, NEW n \in DOMAIN cart[d],
                      ~ IsOrderInCart(cart'[d], cart[d][n].id)
               PROVE  \/ /\ onScreen[d]
                         /\ IsOrderInCart(orders[d], cart[d][n].id)
                         /\ Len(cart'[d]) = Len(cart[d]) - 1
                      \/ \E j \in Jobs : /\ CheckedOut(d, j)
                                         /\ \A b \in Branches : branch[j][b] = "saved"
    OBVIOUS
  <2> DEFINE Left == \/ /\ onScreen[d]
                        /\ IsOrderInCart(orders[d], cart[d][n].id)
                        /\ Len(cart'[d]) = Len(cart[d]) - 1
                     \/ \E j \in Jobs : /\ CheckedOut(d, j)
                                        /\ \A b \in Branches : branch[j][b] = "saved"
  <2>0. TypeOK /\ CartsOK
    BY DEF CheckoutInv, CartsOK
  <2>1. cart'[d] # cart[d]
    BY DEF IsOrderInCart
  <2>2. ASSUME NEW e \in Devices, NEW p \in Products, AddToCart(e, p) PROVE Left
    <3>1. e = d
      BY <2>0, <2>1, <2>2 DEF AddToCart, TypeOK
    <3>2. IsOrderInCart(cart'[d], cart[d][n].id)
      BY <2>0, <2>2, <3>1, OrdersAfterAdd DEF IsOrderInCart
    <3> QED BY <3>2
  <2>3. ASSUME NEW e \in Devices, NEW row \in 1..MaxOrders,
               DeleteRow(e, row) \/ DeleteRowRaises(e, row)
        PROVE  Left
    <3>1. /\ e = d /\ onScreen[d] /\ row <= Len(orders[d])
          /\ cart'[d] = CartWithoutRow(d, row)
      BY <2>0, <2>1, <2>3 DEF DeleteRow, DeleteRowRaises, TypeOK
    <3> DEFINE id == orders[d][row].id
    <3>2. cart[d] \in Seq(Order) /\ orders[d] \in Seq(Order) /\ cart'[d] = RemoveOrder(cart[d], id)
      BY <2>0, <3>1 DEF CartWithoutRow, TypeOK
    <3>3. row \in DOMAIN orders[d]
      BY <3>1, <3>2, CheckoutAssumption
    <3> HIDE DEF id
    <3>4. cart[d][n].id = id
      BY <3>2, RemoveOrderKeepsOthers
    <3>5. IsOrderInCart(orders[d], cart[d][n].id) /\ IsOrderInCart(cart[d], id)
      BY <3>3, <3>4 DEF IsOrderInCart, id
    <3> QED BY <3>1, <3>2, <3>5, RemoveOrderProperties
  <2>4. ASSUME NEW j \in Jobs, NotifySuccess(j) PROVE Left
    <3>1. /\ DeviceOf[j] = d /\ job[j].status = "running" /\ job'[j].status = "succeeded"
      BY <2>0, <2>1, <2>4 DEF NotifySuccess, TypeOK, Job
    <3> QED BY <2>4, <3>1 DEF NotifySuccess, CheckedOut, BothSaved
  <2>5. ASSUME cart' = cart PROVE Left
    BY <2>1, <2>5
  <2>6. ASSUME NEW e \in Devices,
               \/ ShowOrders(e) \/ HideOrders(e) \/ Terminate(e) \/ Refresh(e)
               \/ WriteSaved(e) \/ WriteRejected(e) \/ ReadCallback(e)
               \/ \E u \in UserIds : Relogin(e, u)
               \/ \E j \in Jobs : CheckOutTap(e, j)
        PROVE  Left
    BY <2>5, <2>6 DEF ShowOrders, HideOrders, Terminate, Refresh, WriteSaved, WriteRejected,
                      Answered, ReadCallback, SetValue, Relogin, CheckOutTap
  <2>7. ASSUME NEW j \in Jobs,
               NotifyFailure(j) \/ \E b \in Branches : ReadReply(j, b) \/ ReadError(j, b)
        PROVE  Left
    BY <2>5, <2>7 DEF NotifyFailure, ReadReply, ReadError, Reply
  <2> HIDE DEF Left
  <2>8. Left
    BY <2>2, <2>3, <2>4, <2>6, <2>7 DEF Next
  <2> QED BY <2>8 DEF Left
<1> QED BY <1>1, InvariantHolds, PTL DEF Spec, CartKeptUntilSaved

-----------------------------------------------------------------------------
(***************************************************************************)
(* Where the lists of a step come from: the screen's from the cart, what a *)
(* check-out submits from the screen, what is sent from both the orders    *)
(* submitted and the list read, what the server holds from what was sent.  *)
(***************************************************************************)
\* A list found by a read that is answered now.
FoundNow(d, a) ==
    \E j \in Jobs : \E b \in Branches :
        /\ DeviceOf[j] = d /\ a.job = j /\ a.branch = b
        /\ branch[j][b] = "reading" /\ branch'[j][b] = "answered"
        /\ a.found \in {<< >>, LocalView(d, b, Path(b, job[j].orders))}

\* A list sent now by a branch whose read was answered.
SentNow(d, w) ==
    \E m \in DOMAIN answers[d] :
        LET a == answers[d][m]
        IN  /\ w.job = a.job /\ w.branch = a.branch
            /\ branch[a.job][a.branch] = "answered" /\ branch'[a.job][a.branch] = "writing"
            /\ w.value = Merge(job[a.job].orders, a.found)

SentBefore(d, w) == \E m \in DOMAIN outbox[d] : w = outbox[d][m]

SavedNow(b, k) ==
    \E d \in Devices : \E m \in DOMAIN outbox[d] :
        LET w == outbox[d][m]
        IN  w.branch = b /\ KeyOf(w) = k /\ database'[b][k] = w.value

\* Branches go on from reading to writing to an end, and only idle check-outs start.
Onward(j, b) ==
    \/ branch'[j][b] = branch[j][b]
    \/ job[j].status = "idle" /\ branch'[j][b] = "reading"
    \/ branch[j][b] = "reading" /\ branch'[j][b] = "answered"
    \/ branch[j][b] = "answered" /\ branch'[j][b] = "writing"
    \/ branch[j][b] = "writing" /\ branch'[j][b] \in {"saved", "rejected"}

Flow ==
    /\ \A d \in Devices : orders'[d] \in {orders[d], cart[d], cart'[d], << >>}
    /\ \A j \in Jobs : \/ job'[j].orders = job[j].orders
                       \/ job[j].status = "idle" /\ job'[j].orders = orders[DeviceOf[j]]
    /\ \A d \in Devices : \A n \in DOMAIN answers'[d] :
          FoundBefore(d, answers'[d][n]) \/ FoundNow(d, answers'[d][n])
    /\ \A d \in Devices : \A n \in DOMAIN outbox'[d] :
          SentBefore(d, outbox'[d][n]) \/ SentNow(d, outbox'[d][n])
    /\ \A b \in Branches : \A k \in Keys :
          database'[b][k] = database[b][k] \/ SavedNow(b, k)
    /\ \A j \in Jobs : \A b \in Branches : Onward(j, b)
    /\ \E i : \A j \in Jobs : j # i => branch'[j] = branch[j]

\* A step that changes nothing but what is on screen, and ends of processes.
LEMMA QuietFlow ==
    ASSUME TypeOK,
           \A d \in Devices : orders'[d] \in {orders[d], cart[d], cart'[d], << >>},
           \A j \in Jobs : job'[j].orders = job[j].orders,
           \A d \in Devices : answers'[d] \in {answers[d], << >>},
           \A d \in Devices : outbox'[d] \in {outbox[d], << >>},
           branch' = branch, database' = database
    PROVE  Flow
<1>0. \A d \in Devices : \A n \in DOMAIN answers'[d] :
          FoundBefore(d, answers'[d][n]) \/ FoundNow(d, answers'[d][n])
  BY DEF FoundBefore
<1>1. \A d \in Devices : \A n \in DOMAIN outbox'[d] :
          SentBefore(d, outbox'[d][n]) \/ SentNow(d, outbox'[d][n])
  BY DEF SentBefore
<1>2. \A j \in Jobs : \A b \in Branches : Onward(j, b)
  BY DEF Onward
<1> QED BY <1>0, <1>1, <1>2 DEF Flow

\* An answer takes the first list off an outbox.
LEMMA AnsweredFlow ==
    ASSUME TypeOK, GroupInv, NEW d \in Devices, NEW result \in {"saved", "rejected"},
           Answered(d, result),
           \A b \in Branches : \A k \in Keys :
              database'[b][k] = database[b][k] \/ SavedNow(b, k)
    PROVE  Flow
<1> DEFINE write == Head(outbox[d])
           L == Len(outbox[d])
<1>1. /\ outbox[d] \in Seq(Write) /\ outbox[d] # << >>
      /\ L \in Nat \ {0} /\ DOMAIN outbox[d] = 1..L
  <2>1. outbox[d] # << >>
    BY DEF Answered
  <2> QED BY <2>1, OutboxOfDevice, EmptySeq
<1>2. write = outbox[d][1]
  BY <1>1
<1>3. write.job \in Jobs /\ write.branch \in Branches
  BY <1>1, <1>2, OutboxOfDevice
<1>4. /\ outbox'[d] = Tail(outbox[d])
      /\ \A e \in Devices : e # d => outbox'[e] = outbox[e]
      /\ job' = job /\ orders' = orders /\ answers' = answers
  BY DEF Answered, TypeOK, screen
<1>5. \A e \in Devices : \A n \in DOMAIN outbox'[e] : SentBefore(e, outbox'[e][n])
  <2>1. /\ Tail(outbox[d]) \in Seq(Write)
        /\ Len(Tail(outbox[d])) = L - 1
        /\ \A n \in 1..(L - 1) : Tail(outbox[d])[n] = outbox[d][n + 1]
    BY <1>1, HeadTailProperties
  <2>2. DOMAIN outbox'[d] = 1..(L - 1)
    BY <1>4, <2>1, LenProperties
  <2> HIDE DEF L
  <2>3. \A n \in 1..(L - 1) : n + 1 \in 1..L
    BY <1>1
  <2>4. \A n \in DOMAIN outbox'[d] : SentBefore(d, outbox'[d][n])
    BY <1>1, <1>4, <2>1, <2>2, <2>3 DEF SentBefore
  <2>5. \A e \in Devices : e # d => \A n \in DOMAIN outbox'[e] : SentBefore(e, outbox'[e][n])
    BY <1>4 DEF SentBefore
  <2> QED BY <2>4, <2>5
<1>6. branch[write.job][write.branch] = "writing"
  BY <1>1, <1>2 DEF GroupInv, OutboxIsLive
<1>7. branch' = [branch EXCEPT ![write.job][write.branch] = result]
  BY DEF Answered
<1> HIDE DEF write
<1>8. /\ \A j \in Jobs : \A b \in Branches : Onward(j, b)
      /\ \A j \in Jobs : j # write.job => branch'[j] = branch[j]
  BY <1>3, <1>6, <1>7 DEF Onward, TypeOK
<1>9. \A e \in Devices : \A n \in DOMAIN answers'[e] : FoundBefore(e, answers'[e][n])
  BY <1>4 DEF FoundBefore
<1> QED BY <1>4, <1>5, <1>8, <1>9 DEF Flow

\* An answer adds a list to the callbacks of the device.
LEMMA ReplyFlow ==
    ASSUME TypeOK, NEW j \in Jobs, NEW b \in Branches, ReadReply(j, b) \/ ReadError(j, b)
    PROVE  Flow
<1> DEFINE d == DeviceOf[j]
           view == LocalView(d, b, Path(b, job[j].orders))
<1>1. PICK list \in Seq(Order) : list \in {<< >>, view} /\ Reply(j, b, list)
  <2>1. job[j].orders \in Seq(Order) /\ d \in Devices
    BY DEF TypeOK, Job
  <2>2. view \in Seq(Order)
    BY <2>1, PathIsKey, LocalViewIsList
  <2>3. << >> \in Seq(Order)
    BY EmptySeq
  <2> QED BY <2>2, <2>3 DEF ReadReply, ReadError
<1>2. /\ branch[j][b] = "reading" /\ branch'[j][b] = "answered"
      /\ \A i \in Jobs : \A c \in Branches : i # j \/ c # b => branch'[i][c] = branch[i][c]
      /\ \A i \in Jobs : i # j => branch'[i] = branch[i]
      /\ job' = job /\ orders' = orders /\ database' = database /\ outbox' = outbox
  BY <1>1 DEF Reply, TypeOK, screen
<1>3. \A e \in Devices : \A n \in DOMAIN answers'[e] :
          FoundBefore(e, answers'[e][n]) \/ FoundNow(e, answers'[e][n])
  <2> SUFFICES ASSUME NEW e \in Devices, NEW n \in DOMAIN answers'[e],
                      e = d, answers'[e][n] = [job |-> j, branch |-> b, found |-> list]
               PROVE  FoundNow(e, answers'[e][n])
    BY <1>1, AnswersAfterReply
  <2> HIDE DEF view
  <2>1. list \in {<< >>, view}
    BY <1>1
  <2> QED BY <1>2, <2>1 DEF FoundNow, view
<1>4. \A e \in Devices : \A n \in DOMAIN outbox'[e] : SentBefore(e, outbox'[e][n])
  BY <1>2 DEF SentBefore
<1>5. \A i \in Jobs : \A c \in Branches : Onward(i, c)
  BY <1>2 DEF Onward
<1> QED BY <1>2, <1>3, <1>4, <1>5 DEF Flow

\* The callback takes it and adds the merged list to the outbox.
LEMMA CallbackFlow ==
    ASSUME TypeOK, AnswersAreExpected, NEW d \in Devices, ReadCallback(d)
    PROVE  Flow
<1> DEFINE a == Head(answers[d])
           j == a.job
           b == a.branch
           value == Merge(job[j].orders, a.found)
           w == [job |-> j, branch |-> b, value |-> value]
<1>1. /\ j \in Jobs /\ b \in Branches /\ value \in Seq(Order)
      /\ SetValue(j, b, value) /\ answers[d] \in Seq(Answer) /\ answers[d] # << >>
  BY CallbackSets
<1>2. 1 \in DOMAIN answers[d] /\ a = answers[d][1]
  <2>1. Len(answers[d]) \in Nat /\ DOMAIN answers[d] = 1..Len(answers[d])
    BY <1>1, LenProperties
  <2>2. Len(answers[d]) # 0
    BY <1>1, EmptySeq
  <2> QED BY <2>1, <2>2
<1>3. DeviceOf[j] = d
  BY <1>2 DEF AnswersAreExpected
<1>4. w \in Write /\ w.job = j /\ w.branch = b /\ w.value = value
  BY <1>1 DEF Write
<1>5. SetValue(j, b, value) => outbox' = [outbox EXCEPT ![DeviceOf[j]] = Append(@, w)]
  BY DEF SetValue
<1> HIDE DEF w
<1>6. value = Merge(job[j].orders, answers[d][1].found)
  BY <1>2
<1>7. j = answers[d][1].job /\ b = answers[d][1].branch
  BY <1>2
<1> HIDE DEF a, j, b, value
<1>8. /\ branch[j][b] = "answered" /\ branch'[j][b] = "writing"
      /\ outbox'[d] = Append(outbox[d], w)
      /\ \A e \in Devices : e # d => outbox'[e] = outbox[e]
      /\ \A i \in Jobs : \A c \in Branches : i # j \/ c # b => branch'[i][c] = branch[i][c]
      /\ \A i \in Jobs : i # j => branch'[i] = branch[i]
      /\ job' = job /\ orders' = orders /\ database' = database
  BY <1>1, <1>3, <1>5 DEF SetValue, TypeOK, screen
<1>9. SentNow(d, w)
  BY <1>2, <1>4, <1>6, <1>7, <1>8 DEF SentNow
<1>10. \A e \in Devices : \A n \in DOMAIN outbox'[e] :
          SentBefore(e, outbox'[e][n]) \/ SentNow(e, outbox'[e][n])
  <2>1. \A e \in Devices : e # d => \A n \in DOMAIN outbox'[e] : SentBefore(e, outbox'[e][n])
    BY <1>8 DEF SentBefore
  <2>2. outbox[d] \in Seq(Write) /\ Len(outbox[d]) \in Nat /\ DOMAIN outbox[d] = 1..Len(outbox[d])
    BY OutboxOfDevice
  <2>3. /\ Append(outbox[d], w) \in Seq(Write)
        /\ Len(Append(outbox[d], w)) = Len(outbox[d]) + 1
        /\ \A n \in 1..Len(outbox[d]) : Append(outbox[d], w)[n] = outbox[d][n]
        /\ Append(outbox[d], w)[Len(outbox[d]) + 1] = w
    BY <1>4, <2>2, AppendProperties
  <2>4. DOMAIN Append(outbox[d], w) = 1..(Len(outbox[d]) + 1)
    BY <2>3, LenProperties
  <2>5. \A n \in DOMAIN outbox'[d] : SentBefore(d, outbox'[d][n]) \/ outbox'[d][n] = w
    BY <1>8, <2>2, <2>3, <2>4 DEF SentBefore
  <2> QED BY <1>9, <2>1, <2>5
<1>11. \A i \in Jobs : \A c \in Branches : Onward(i, c)
  BY <1>8 DEF Onward
<1>12. \A e \in Devices : \A n \in DOMAIN answers'[e] : FoundBefore(e, answers'[e][n])
  BY AnswersAfterCallback
<1> QED BY <1>8, <1>10, <1>11, <1>12 DEF Flow

\* Every step.
LEMMA FlowStep ==
    ASSUME CheckoutInv, [Next]_vars
    PROVE  Flow
<1>0. TypeOK /\ GroupInv /\ AnswersAreExpected
  BY DEF CheckoutInv, GroupInv, BranchesMatchOutbox
<1>1. ASSUME NEW d \in Devices,
             \/ \E p \in Products : AddToCart(d, p)
             \/ ShowOrders(d) \/ HideOrders(d) \/ Refresh(d)
             \/ \E row \in 1..MaxOrders : DeleteRow(d, row)
      PROVE  Flow
  <2>1. \A e \in Devices : orders'[e] \in {orders[e], cart[e], cart'[e], << >>}
    BY <1>0, <1>1 DEF AddToCart, ShowOrders, HideOrders, Refresh, DeleteRow, TypeOK, screen
  <2>2. /\ job' = job /\ outbox' = outbox /\ branch' = branch /\ database' = database
        /\ answers' = answers
    BY <1>1 DEF AddToCart, ShowOrders, HideOrders, Refresh, DeleteRow, screen
  <2> QED BY <1>0, <2>1, <2>2, QuietFlow
<1>2. ASSUME NEW d \in Devices, NEW u \in UserIds, Relogin(d, u)
      PROVE  Flow
  <2>1. \A e \in Devices : orders'[e] \in {orders[e], << >>}
    BY <1>0, <1>2 DEF Relogin, TypeOK
  <2>2. \A j \in Jobs : job'[j].orders = job[j].orders
    BY <1>0, <1>2 DEF Relogin, TypeOK, Job
  <2>3. /\ outbox' = outbox /\ branch' = branch /\ database' = database
        /\ answers' = answers
    BY <1>2 DEF Relogin
  <2> QED BY <1>0, <2>1, <2>2, <2>3, QuietFlow
<1>3. ASSUME NEW d \in Devices,
             Terminate(d) \/ \E row \in 1..MaxOrders : DeleteRowRaises(d, row)
      PROVE  Flow
  <2>1. ProcessEnds(d) /\ branch' = branch /\ database' = database
    BY <1>3 DEF Terminate, DeleteRowRaises
  <2>2. \A e \in Devices : /\ orders'[e] \in {orders[e], << >>}
                            /\ answers'[e] \in {answers[e], << >>}
                            /\ outbox'[e] \in {outbox[e], << >>}
    BY <1>0, <2>1 DEF ProcessEnds, TypeOK
  <2>3. \A j \in Jobs : job'[j].orders = job[j].orders
    BY <1>0, <2>1 DEF ProcessEnds, TypeOK, Job
  <2> QED BY <1>0, <2>1, <2>2, <2>3, QuietFlow
<1>4. ASSUME NEW d \in Devices, NEW j \in Jobs, CheckOutTap(d, j)
      PROVE  Flow
  <2>1. /\ outbox' = outbox /\ database' = database /\ orders' = orders
        /\ answers' = answers
        /\ job[j].status = "idle" /\ job'[j].orders = orders[DeviceOf[j]]
        /\ branch'[j] = [b \in Branches |-> "reading"]
        /\ \A i \in Jobs : i # j => job'[i] = job[i] /\ branch'[i] = branch[i]
    BY <1>0, <1>4 DEF CheckOutTap, TypeOK, screen
  <2>2. \A d1 \in Devices : \A n \in DOMAIN outbox'[d1] : SentBefore(d1, outbox'[d1][n])
    BY <2>1 DEF SentBefore
  <2>3. \A i \in Jobs : \A b \in Branches : Onward(i, b)
    BY <2>1 DEF Onward
  <2>4. \A d1 \in Devices : \A n \in DOMAIN answers'[d1] : FoundBefore(d1, answers'[d1][n])
    BY <2>1 DEF FoundBefore
  <2> QED BY <2>1, <2>2, <2>3, <2>4 DEF Flow
<1>5. ASSUME NEW d \in Devices, WriteSaved(d)
      PROVE  Flow
  <2> DEFINE write == Head(outbox[d])
             key == Path(write.branch, job[write.job].orders)
  <2>1. Answered(d, "saved") /\ database' = [database EXCEPT ![write.branch][key] = write.value]
    BY <1>5 DEF WriteSaved
  <2>2. 1 \in DOMAIN outbox[d] /\ write = outbox[d][1]
    <3>1. outbox[d] # << >>
      BY <2>1 DEF Answered
    <3> QED BY <1>0, <3>1, OutboxOfDevice, EmptySeq
  <2>3. write.job \in Jobs /\ write.branch \in Branches /\ job[write.job].orders \in Seq(Order)
    BY <1>0, <2>2, OutboxOfDevice DEF TypeOK, Job
  <2>4. key \in Keys
    BY <2>3, PathIsKey
  <2>5. key = KeyOf(outbox[d][1])
    BY <2>2 DEF KeyOf
  <2> HIDE DEF key
  <2>6. \A b \in Branches : \A k \in Keys : database'[b][k] = database[b][k] \/ SavedNow(b, k)
    <3>1. ASSUME NEW b \in Branches, NEW k \in Keys, b # write.branch \/ k # key
          PROVE  database'[b][k] = database[b][k]
      BY <1>0, <2>1, <2>3, <2>4, <3>1 DEF TypeOK
    <3>2. database'[write.branch][key] = write.value
      BY <1>0, <2>1, <2>3, <2>4 DEF TypeOK
    <3>3. SavedNow(write.branch, key)
      BY <2>2, <2>5, <3>2 DEF SavedNow
    <3> HIDE DEF write
    <3> QED BY <3>1, <3>3
  <2> QED BY <1>0, <2>1, <2>6, AnsweredFlow
<1>6. ASSUME NEW d \in Devices, WriteRejected(d)
      PROVE  Flow
  BY <1>0, <1>6, AnsweredFlow DEF WriteRejected
<1>7. ASSUME NEW j \in Jobs, NEW b \in Branches, ReadReply(j, b) \/ ReadError(j, b)
      PROVE  Flow
  BY <1>0, <1>7, ReplyFlow
<1>8. ASSUME NEW j \in Jobs, NotifySuccess(j) \/ NotifyFailure(j)
      PROVE  Flow
  <2>1. \A i \in Jobs : job'[i].orders = job[i].orders
    <3>1. PICK s \in Statuses : job' = [job EXCEPT ![j].status = s]
      BY <1>8 DEF NotifySuccess, NotifyFailure, Statuses
    <3> QED BY <1>0, <3>1 DEF TypeOK, Job
  <2>2. /\ database' = database /\ outbox' = outbox /\ branch' = branch
        /\ answers' = answers
    BY <1>8 DEF NotifySuccess, NotifyFailure
  <2>3. \A e \in Devices : orders'[e] \in {orders[e], cart'[e]}
    BY <1>0, <1>8 DEF NotifySuccess, NotifyFailure, TypeOK, screen
  <2> QED BY <1>0, <2>1, <2>2, <2>3, QuietFlow
<1>9. ASSUME NEW d \in Devices, ReadCallback(d)
      PROVE  Flow
  BY <1>0, <1>9, CallbackFlow
<1>10. CASE UNCHANGED vars
  BY <1>0, <1>10, QuietFlow DEF vars
<1> QED
  BY <1>1, <1>2, <1>3, <1>4, <1>5, <1>6, <1>7, <1>8, <1>9, <1>10 DEF Next

-----------------------------------------------------------------------------
(***************************************************************************)
(* Until somebody logs in, everything on the way from the cart to the      *)
(* consumer's list belongs to the user of the device.                      *)
(***************************************************************************)
Own(list, u) == \A n \in DOMAIN list : list[n].consumerId = u

OwnInv ==
    logins = 0 =>
        /\ \A d \in Devices : Own(cart[d], user[d]) /\ Own(orders[d], user[d])
        /\ \A j \in Jobs : Own(job[j].orders, user[DeviceOf[j]])
        /\ \A d \in Devices : \A n \in DOMAIN answers[d] :
              answers[d][n].branch = "orders" => Own(answers[d][n].found, KeyOf(answers[d][n]))
        /\ \A d \in Devices : \A n \in DOMAIN outbox[d] :
              outbox[d][n].branch = "orders" => Own(outbox[d][n].value, KeyOf(outbox[d][n]))
        /\ ConsumersGetTheirOwn

\* What a read sees is the server's list or one that waits in the outbox.
LEMMA LocalViewIsOne ==
    ASSUME TypeOK, NEW d \in Devices, NEW b \in Branches, NEW k \in Keys
    PROVE  \/ LocalView(d, b, k) = database[b][k]
           \/ \E m \in DOMAIN outbox[d] : /\ LocalView(d, b, k) = outbox[d][m].value
                                          /\ outbox[d][m].branch = b
                                          /\ KeyOf(outbox[d][m]) = k
<1> DEFINE waiting == PendingWrites(d, b, k)
<1>1. CASE waiting = {}
  BY <1>1 DEF LocalView
<1>2. CASE waiting # {}
  <2>1. Len(outbox[d]) \in Nat /\ waiting \in SUBSET (1..Len(outbox[d]))
    BY OutboxOfDevice DEF PendingWrites
  <2>2. Max(waiting) \in waiting
    BY <1>2, <2>1, MaxOfNats
  <2>3. LocalView(d, b, k) = outbox[d][Max(waiting)].value
    BY <1>2 DEF LocalView
  <2> QED BY <2>2, <2>3 DEF PendingWrites, KeyOf
<1> QED BY <1>1, <1>2

\* The orders of a check-out under way stay what they were when it was tapped.
LEMMA SubmittedStays ==
    ASSUME CheckoutInv, Flow
    PROVE  /\ \A j \in Jobs : \A b \in Branches :
                 branch[j][b] # "none" => job'[j].orders = job[j].orders
           /\ \A d \in Devices : \A n \in DOMAIN outbox[d] :
                 job'[outbox[d][n].job].orders = job[outbox[d][n].job].orders
           /\ \A d \in Devices : \A n \in DOMAIN answers[d] :
                 job'[answers[d][n].job].orders = job[answers[d][n].job].orders
<1>1. ASSUME NEW j \in Jobs, NEW b \in Branches, branch[j][b] # "none"
      PROVE  job'[j].orders = job[j].orders
  BY <1>1 DEF CheckoutInv, IdleJobsUntouched, Flow
<1>2. ASSUME NEW d \in Devices, NEW n \in DOMAIN outbox[d]
      PROVE  job'[outbox[d][n].job].orders = job[outbox[d][n].job].orders
  <2>1. outbox[d][n].job \in Jobs /\ job[outbox[d][n].job].status = "running"
    BY OutboxOfDevice DEF CheckoutInv, BranchesMatchOutbox, OutboxIsLive
  <2> QED BY <2>1 DEF Flow
<1>3. ASSUME NEW d \in Devices, NEW n \in DOMAIN answers[d]
      PROVE  job'[answers[d][n].job].orders = job[answers[d][n].job].orders
  <2>1. answers[d][n].job \in Jobs /\ job[answers[d][n].job].status # "idle"
    BY AnswersOfDevice DEF CheckoutInv, AnswersAreExpected
  <2> QED BY <2>1 DEF Flow
<1> QED BY <1>1, <1>2, <1>3

\* A step leaves the user as it is or counts a login.
LEMMA UserStep ==
    ASSUME TypeOK, [Next]_vars, logins' = 0
    PROVE  logins = 0 /\ user' = user
<1>1. ASSUME NEW d \in Devices, NEW u \in UserIds, Relogin(d, u)
      PROVE  FALSE
  BY <1>1 DEF Relogin, TypeOK
<1>2. ASSUME NEW d \in Devices,
             \/ \E p \in Products : AddToCart(d, p)
             \/ ShowOrders(d) \/ HideOrders(d) \/ Terminate(d) \/ Refresh(d)
             \/ WriteSaved(d) \/ WriteRejected(d) \/ ReadCallback(d)
             \/ \E row \in 1..MaxOrders : DeleteRow(d, row) \/ DeleteRowRaises(d, row)
             \/ \E j \in Jobs : CheckOutTap(d, j)
      PROVE  logins = 0 /\ user' = user
  BY <1>2 DEF AddToCart, ShowOrders, HideOrders, Terminate, Refresh, WriteSaved, WriteRejected,
              Answered, ReadCallback, SetValue, DeleteRow, DeleteRowRaises, CheckOutTap, account
<1>3. ASSUME NEW j \in Jobs,
             \/ NotifySuccess(j) \/ NotifyFailure(j)
             \/ \E b \in Branches : ReadReply(j, b) \/ ReadError(j, b)
      PROVE  logins = 0 /\ user' = user
  BY <1>3 DEF NotifySuccess, NotifyFailure, ReadReply, ReadError, Reply, account
<1>4. CASE UNCHANGED vars
  BY <1>4 DEF vars
<1> QED BY <1>1, <1>2, <1>3, <1>4 DEF Next

\* A cart of the user's own orders stays one.
LEMMA CartStaysOwn ==
    ASSUME CartsOK, [Next]_vars, logins' = 0,
           \A d \in Devices : Own(cart[d], user[d])
    PROVE  \A d \in Devices : Own(cart'[d], user[d])
<1>0. TypeOK
  BY DEF CartsOK
<1> SUFFICES ASSUME NEW d \in Devices PROVE Own(cart'[d], user[d])
  OBVIOUS
<1>1. ASSUME cart'[d] = cart[d] PROVE Own(cart'[d], user[d])
  BY <1>1
<1>2. ASSUME NEW e \in Devices, NEW p \in Products, AddToCart(e, p)
      PROVE  Own(cart'[d], user[d])
  <2>1. CASE e = d
    BY <1>2, <2>1, OrdersAfterAdd DEF Own
  <2>2. CASE e # d
    BY <1>0, <1>1, <1>2, <2>2 DEF AddToCart, TypeOK
  <2> QED BY <2>1, <2>2
<1>3. ASSUME NEW e \in Devices, NEW row \in 1..MaxOrders,
             DeleteRow(e, row) \/ DeleteRowRaises(e, row)
      PROVE  Own(cart'[d], user[d])
  <2>1. cart'[d] \in {cart[d], CartWithoutRow(d, row)}
    BY <1>0, <1>3 DEF DeleteRow, DeleteRowRaises, TypeOK
  <2>2. cart[d] \in Seq(Order)
    BY <1>0 DEF TypeOK
  <2>3. Own(CartWithoutRow(d, row), user[d])
    BY <2>2, RemoveOrderProperties DEF CartWithoutRow, Own
  <2> QED BY <1>1, <2>1, <2>3
<1>4. ASSUME NEW j \in Jobs, NotifySuccess(j)
      PROVE  Own(cart'[d], user[d])
  <2>1. cart'[d] \in {cart[d], << >>}
    BY <1>0, <1>4 DEF NotifySuccess, TypeOK, EmptyCart
  <2> QED BY <1>1, <2>1 DEF Own
<1>5. ASSUME NEW e \in Devices,
             \/ ShowOrders(e) \/ HideOrders(e) \/ Terminate(e) \/ Refresh(e)
             \/ WriteSaved(e) \/ WriteRejected(e) \/ ReadCallback(e)
             \/ \E u \in UserIds : Relogin(e, u)
             \/ \E j \in Jobs : CheckOutTap(e, j)
      PROVE  Own(cart'[d], user[d])
  BY <1>1, <1>5 DEF ShowOrders, HideOrders, Terminate, Refresh, WriteSaved, WriteRejected,
                    Answered, ReadCallback, SetValue, Relogin, CheckOutTap
<1>6. ASSUME NEW j \in Jobs,
             NotifyFailure(j) \/ \E b \in Branches : ReadReply(j, b) \/ ReadError(j, b)
      PROVE  Own(cart'[d], user[d])
  BY <1>1, <1>6 DEF NotifyFailure, ReadReply, ReadError, Reply
<1>7. CASE UNCHANGED vars
  BY <1>1, <1>7 DEF vars
<1> QED BY <1>2, <1>3, <1>4, <1>5, <1>6, <1>7 DEF Next

\* What a read finds in the consumer's list is the consumer's own.
LEMMA FoundIsOwn ==
    ASSUME CheckoutInv, OwnInv, logins = 0, NEW d \in Devices, NEW a, FoundNow(d, a),
           a.branch = "orders"
    PROVE  /\ branch[a.job]["orders"] = "reading" /\ a.job \in Jobs
           /\ Own(a.found, KeyOf(a))
<1>0. TypeOK
  BY DEF CheckoutInv
<1>1. PICK j \in Jobs : /\ DeviceOf[j] = d /\ a.job = j
                        /\ branch[j]["orders"] = "reading"
                        /\ a.found \in {<< >>, LocalView(d, "orders", Path("orders", job[j].orders))}
  BY DEF FoundNow
<1> DEFINE key  == Path("orders", job[j].orders)
           view == LocalView(d, "orders", key)
<1>2. "orders" \in Branches /\ job[j].orders \in Seq(Order)
  BY <1>0 DEF Branches, TypeOK, Job
<1>3. key \in Keys
  BY <1>2, PathIsKey
<1>4. KeyOf(a) = key
  BY <1>1 DEF KeyOf
<1>5. Own(<< >>, key)
  BY DEF Own
<1> HIDE DEF key
<1>6. Own(view, key)
  <2>1. Own(database["orders"][key], key)
    BY <1>3 DEF OwnInv, ConsumersGetTheirOwn, Own
  <2>2. \/ view = database["orders"][key]
        \/ \E m \in DOMAIN outbox[d] : /\ view = outbox[d][m].value
                                       /\ outbox[d][m].branch = "orders"
                                       /\ KeyOf(outbox[d][m]) = key
    BY <1>0, <1>2, <1>3, LocalViewIsOne
  <2> HIDE DEF view
  <2>3. ASSUME NEW m \in DOMAIN outbox[d], outbox[d][m].branch = "orders",
               view = outbox[d][m].value, KeyOf(outbox[d][m]) = key
        PROVE  Own(view, key)
    BY <2>3 DEF OwnInv
  <2> QED BY <2>1, <2>2, <2>3
<1>7. a.found \in {<< >>, view}
  BY <1>1 DEF key
<1> HIDE DEF view
<1> QED BY <1>1, <1>4, <1>5, <1>6, <1>7

\* What a check-out sends to its consumer's list is the consumer's own.
LEMMA SentIsOwn ==
    ASSUME CheckoutInv, OwnInv, logins = 0, NEW d \in Devices, NEW w, SentNow(d, w),
           w.branch = "orders"
    PROVE  /\ branch[w.job]["orders"] = "answered" /\ w.job \in Jobs
           /\ Own(w.value, KeyOf(w))
<1>0. TypeOK /\ AnswersAreExpected
  BY DEF CheckoutInv
<1>1. PICK m \in DOMAIN answers[d] :
          /\ w.job = answers[d][m].job /\ answers[d][m].branch = "orders"
          /\ branch[w.job]["orders"] = "answered"
          /\ w.value = Merge(job[w.job].orders, answers[d][m].found)
  BY DEF SentNow
<1> DEFINE j == w.job
           mine == job[j].orders
           found == answers[d][m].found
           key  == Path("orders", mine)
<1>2. j \in Jobs /\ DeviceOf[j] = d /\ found \in Seq(Order)
  BY <1>0, <1>1, AnswersOfDevice DEF AnswersAreExpected
<1>3. mine \in Seq(Order)
  BY <1>0, <1>2 DEF TypeOK, Job
<1>4. KeyOf(w) = key /\ KeyOf(answers[d][m]) = key
  BY <1>1 DEF KeyOf
<1>5. Own(found, key)
  BY <1>1, <1>4 DEF OwnInv
<1> HIDE DEF mine, key, found
<1>6. Own(mine, key)
  <2>1. Own(mine, user[d])
    BY <1>2 DEF OwnInv, mine
  <2>2. CASE mine = << >>
    BY <2>2 DEF Own
  <2>3. CASE mine # << >>
    <3>1. 1 \in DOMAIN mine /\ Head(mine) = mine[1]
      BY <1>3, <2>3, EmptySeq, LenProperties
    <3>2. key = Head(mine).consumerId
      BY <2>3 DEF key, Path
    <3>3. key = user[d]
      BY <2>1, <3>1, <3>2 DEF Own
    <3> QED BY <2>1, <3>3
  <2> QED BY <2>2, <2>3
<1>7. Own(mine \o found, key)
  <2>1. /\ Len(mine) \in Nat /\ DOMAIN mine = 1..Len(mine)
        /\ Len(found) \in Nat /\ DOMAIN found = 1..Len(found)
        /\ mine \o found \in Seq(Order)
        /\ Len(mine \o found) = Len(mine) + Len(found)
        /\ \A n \in 1..(Len(mine) + Len(found)) :
              (mine \o found)[n] = IF n <= Len(mine) THEN mine[n] ELSE found[n - Len(mine)]
    BY <1>2, <1>3, LenProperties, ConcatProperties
  <2>2. DOMAIN (mine \o found) = 1..(Len(mine) + Len(found))
    BY <2>1, LenProperties
  <2>3. ASSUME NEW n \in 1..(Len(mine) + Len(found))
        PROVE  \/ \E i \in DOMAIN mine : (mine \o found)[n] = mine[i]
               \/ \E i \in DOMAIN found : (mine \o found)[n] = found[i]
    <3>1. CASE n <= Len(mine)
      BY <2>1, <3>1
    <3>2. CASE ~(n <= Len(mine))
      <4>1. n - Len(mine) \in DOMAIN found
        BY <2>1, <3>2
      <4> QED BY <2>1, <3>2, <4>1
    <3> QED BY <3>1, <3>2
  <2> QED BY <1>5, <1>6, <2>2, <2>3 DEF Own
<1>8. w.value = mine \o found
  BY <1>1 DEF Merge, mine, found
<1> QED BY <1>1, <1>2, <1>4, <1>7, <1>8

LEMMA OwnStep ==
    ASSUME CheckoutInv, OwnInv, [Next]_vars
    PROVE  OwnInv'
<1>0. TypeOK /\ CartsOK /\ Flow
  BY FlowStep DEF CheckoutInv, CartsOK
<1> SUFFICES ASSUME logins' = 0
    PROVE  /\ \A d \in Devices : Own(cart'[d], user'[d]) /\ Own(orders'[d], user'[d])
           /\ \A j \in Jobs : Own(job'[j].orders, user'[DeviceOf[j]])
           /\ \A d \in Devices : \A n \in DOMAIN answers'[d] :
                 answers'[d][n].branch = "orders"
                 => Own(answers'[d][n].found, Path(answers'[d][n].branch, job'[answers'[d][n].job].orders))
           /\ \A d \in Devices : \A n \in DOMAIN outbox'[d] :
                 outbox'[d][n].branch = "orders"
                 => Own(outbox'[d][n].value, Path(outbox'[d][n].branch, job'[outbox'[d][n].job].orders))
           /\ \A k \in Keys : Own(database'["orders"][k], k)
  BY DEF OwnInv, ConsumersGetTheirOwn, KeyOf, Own
<1>1. logins = 0 /\ user' = user
  BY <1>0, UserStep
<1>2. \A d \in Devices : Own(cart'[d], user[d])
  BY <1>0, <1>1, CartStaysOwn DEF OwnInv
<1>3. \A d \in Devices : Own(orders'[d], user[d])
  <2>1. \A d \in Devices : Own(<< >>, user[d])
    BY DEF Own
  <2> QED BY <1>0, <1>1, <1>2, <2>1 DEF Flow, OwnInv
<1>4. \A j \in Jobs : Own(job'[j].orders, user[DeviceOf[j]])
  <2>1. \A j \in Jobs : DeviceOf[j] \in Devices
    BY CheckoutAssumption
  <2> QED BY <1>0, <1>1, <2>1 DEF Flow, OwnInv
<1>5. ASSUME NEW d \in Devices, NEW n \in DOMAIN outbox'[d], outbox'[d][n].branch = "orders"
      PROVE  Own(outbox'[d][n].value, Path(outbox'[d][n].branch, job'[outbox'[d][n].job].orders))
  <2> DEFINE w == outbox'[d][n]
  <2>1. CASE SentBefore(d, w)
    <3>1. PICK m \in DOMAIN outbox[d] : w = outbox[d][m]
      BY <2>1 DEF SentBefore
    <3>2. Own(outbox[d][m].value, KeyOf(outbox[d][m]))
      BY <1>1, <1>5, <3>1 DEF OwnInv
    <3>3. job'[outbox[d][m].job].orders = job[outbox[d][m].job].orders
      BY <1>0, SubmittedStays
    <3> QED BY <3>1, <3>2, <3>3 DEF KeyOf
  <2>2. CASE SentNow(d, w)
    <3> HIDE DEF w
    <3>1. w.branch = "orders"
      BY <1>5 DEF w
    <3>2. branch[w.job]["orders"] = "answered" /\ w.job \in Jobs /\ Own(w.value, KeyOf(w))
      BY <1>1, <2>2, <3>1, SentIsOwn
    <3>3. job'[w.job].orders = job[w.job].orders
      BY <1>0, <3>2, SubmittedStays DEF Branches
    <3> QED BY <3>2, <3>3 DEF KeyOf, w
  <2> QED BY <1>0, <2>1, <2>2 DEF Flow
<1>6. ASSUME NEW k \in Keys PROVE Own(database'["orders"][k], k)
  <2>1. Own(database["orders"][k], k)
    BY <1>1 DEF OwnInv, ConsumersGetTheirOwn, Own
  <2>2. ASSUME SavedNow("orders", k) PROVE Own(database'["orders"][k], k)
    BY <1>1, <2>2 DEF SavedNow, OwnInv
  <2> QED BY <1>0, <2>1, <2>2 DEF Flow, Branches
<1>7. ASSUME NEW d \in Devices, NEW n \in DOMAIN answers'[d], answers'[d][n].branch = "orders"
      PROVE  Own(answers'[d][n].found, Path(answers'[d][n].branch, job'[answers'[d][n].job].orders))
  <2> DEFINE a == answers'[d][n]
  <2>1. CASE FoundBefore(d, a)
    <3>1. PICK m \in DOMAIN answers[d] : a = answers[d][m]
      BY <2>1 DEF FoundBefore
    <3>2. Own(answers[d][m].found, KeyOf(answers[d][m]))
      BY <1>1, <1>7, <3>1 DEF OwnInv
    <3>3. job'[answers[d][m].job].orders = job[answers[d][m].job].orders
      BY <1>0, SubmittedStays
    <3> QED BY <3>1, <3>2, <3>3 DEF KeyOf
  <2>2. CASE FoundNow(d, a)
    <3> HIDE DEF a
    <3>1. a.branch = "orders"
      BY <1>7 DEF a
    <3>2. branch[a.job]["orders"] = "reading" /\ a.job \in Jobs /\ Own(a.found, KeyOf(a))
      BY <1>1, <2>2, <3>1, FoundIsOwn
    <3>3. job'[a.job].orders = job[a.job].orders
      BY <1>0, <3>2, SubmittedStays DEF Branches
    <3> QED BY <3>2, <3>3 DEF KeyOf, a
  <2> QED BY <1>0, <2>1, <2>2 DEF Flow
<1> QED BY <1>1, <1>2, <1>3, <1>4, <1>5, <1>6, <1>7

\* Until another user logs in on a device, a consumer's list holds that consumer's
\* orders and nobody else's, whatever check-outs of whatever devices overlap.
THEOREM OwnUntilReloginAlways == Spec => []OwnUntilRelogin
<1>1. Init => OwnInv
  <2> SUFFICES ASSUME Init PROVE OwnInv
    OBVIOUS
  <2>1. \A u : Own(<< >>, u)
    BY DEF Own
  <2>2. \A j \in Jobs : DeviceOf[j] \in Devices
    BY CheckoutAssumption
  <2>3. \A k \in Keys : database["orders"][k] = << >>
    BY DEF Init, Branches
  <2> QED BY <2>1, <2>2, <2>3 DEF Init, OwnInv, ConsumersGetTheirOwn, EmptyCart
<1>2. CheckoutInv /\ OwnInv /\ [Next]_vars => OwnInv'
  BY OwnStep
<1>3. OwnInv => OwnUntilRelogin
  BY DEF OwnInv, OwnUntilRelogin
<1> QED BY <1>1, <1>2, <1>3, InvariantHolds, PTL DEF Spec

-----------------------------------------------------------------------------
(***************************************************************************)
(* How often an order is in a list, and by how many check-outs it was sent.*)
(***************************************************************************)
Places(list, id) == {n \in DOMAIN list : list[n].id = id}

Copies(list, id) == Cardinality(Places(list, id))

LEMMA CopiesAreCounted ==
    ASSUME NEW S, NEW list \in Seq(S), NEW id
    PROVE  IsFiniteSet(Places(list, id)) /\ Copies(list, id) \in Nat
<1>1. Len(list) \in Nat /\ Places(list, id) \in SUBSET (1..Len(list))
  BY LenProperties DEF Places
<1>2. IsFiniteSet(1..Len(list))
  BY <1>1, FS_Interval
<1> QED BY <1>1, <1>2, FS_Subset, FS_CardinalityType DEF Copies

\* A list without repeats holds an order once or not at all.
LEMMA CopiesOfUnique ==
    ASSUME NEW S, NEW list \in Seq(S), NEW id, OneRowPerProduct(list)
    PROVE  Copies(list, id) <= IF IsOrderInCart(list, id) THEN 1 ELSE 0
<1>1. CASE IsOrderInCart(list, id)
  <2>1. PICK n \in DOMAIN list : list[n].id = id
    BY <1>1 DEF IsOrderInCart
  <2>2. Places(list, id) = {n}
    BY <2>1 DEF Places, OneRowPerProduct
  <2>3. Cardinality({n}) = 1
    BY FS_Singleton
  <2> QED BY <1>1, <2>2, <2>3 DEF Copies
<1>2. CASE ~IsOrderInCart(list, id)
  <2>1. Places(list, id) = {}
    BY <1>2 DEF Places, IsOrderInCart
  <2> QED BY <1>2, <2>1, FS_EmptySet DEF Copies
<1> QED BY <1>1, <1>2

\* Two lists together hold an order no more often than one and the other.
LEMMA CopiesOfConcat ==
    ASSUME NEW S, NEW s \in Seq(S), NEW t \in Seq(S), NEW id
    PROVE  Copies(s \o t, id) <= Copies(s, id) + Copies(t, id)
<1> DEFINE A == Places(s, id)
           B == Places(t, id)
           shift == [n \in B |-> Len(s) + n]
           C == {shift[n] : n \in B}
<1>1. /\ Len(s) \in Nat /\ DOMAIN s = 1..Len(s)
      /\ Len(t) \in Nat /\ DOMAIN t = 1..Len(t)
      /\ s \o t \in Seq(S)
      /\ Len(s \o t) = Len(s) + Len(t)
      /\ \A n \in 1..(Len(s) + Len(t)) :
            (s \o t)[n] = IF n <= Len(s) THEN s[n] ELSE t[n - Len(s)]
  BY LenProperties, ConcatProperties
<1>2. DOMAIN (s \o t) = 1..(Len(s) + Len(t))
  BY <1>1, LenProperties
<1>3. /\ IsFiniteSet(A) /\ IsFiniteSet(B)
      /\ Cardinality(A) \in Nat /\ Cardinality(B) \in Nat
  BY CopiesAreCounted DEF Copies
<1>4. Places(s \o t, id) \subseteq A \cup C
  <2> SUFFICES ASSUME NEW n \in 1..(Len(s) + Len(t)), (s \o t)[n].id = id
               PROVE  n \in A \cup C
    BY <1>2 DEF Places
  <2>1. CASE n <= Len(s)
    BY <1>1, <2>1 DEF Places
  <2>2. CASE ~(n <= Len(s))
    <3>1. n - Len(s) \in B /\ Len(s) + (n - Len(s)) = n
      BY <1>1, <2>2 DEF Places
    <3>2. shift[n - Len(s)] = n
      BY <3>1
    <3> QED BY <3>1, <3>2
  <2> QED BY <2>1, <2>2
<1>5. IsFiniteSet(C) /\ Cardinality(C) \in Nat /\ Cardinality(C) <= Cardinality(B)
  <2>1. shift \in Surjection(B, C)
    BY DEF Surjection
  <2> HIDE DEF shift, C, B
  <2>2. IsFiniteSet(C) /\ Cardinality(C) <= Cardinality(B)
    BY <1>3, <2>1, FS_Surjection
  <2> QED BY <2>2, FS_CardinalityType
<1> HIDE DEF A, B, C
<1>6. /\ IsFiniteSet(A \cup C) /\ Cardinality(A \cup C) \in Nat
      /\ Cardinality(A \cup C) <= Cardinality(A) + Cardinality(C)
  <2>1. /\ IsFiniteSet(A \cup C) /\ IsFiniteSet(A \cap C)
        /\ Cardinality(A \cup C) = Cardinality(A) + Cardinality(C) - Cardinality(A \cap C)
    BY <1>3, <1>5, FS_Union, FS_Intersection
  <2>2. Cardinality(A \cap C) \in Nat /\ Cardinality(A \cup C) \in Nat
    BY <2>1, FS_CardinalityType
  <2> QED BY <1>3, <1>5, <2>1, <2>2
<1>7. Copies(s \o t, id) \in Nat /\ Copies(s \o t, id) <= Cardinality(A \cup C)
  BY <1>4, <1>6, FS_Subset, FS_CardinalityType DEF Copies
<1>8. Copies(s, id) = Cardinality(A) /\ Copies(t, id) = Cardinality(B)
  BY DEF A, B, Copies
<1> QED BY <1>3, <1>5, <1>6, <1>7, <1>8

Writers(b) == {j \in Jobs : branch[j][b] \in {"writing", "saved", "rejected"}}

Sent(b, id) == {j \in Jobs : /\ branch[j][b] \in {"writing", "saved", "rejected"}
                             /\ IsOrderInCart(job[j].orders, id)}

SentOf == [b \in Branches |-> [id \in 1..MaxOrders |-> Sent(b, id)]]

Within(list, sent) == \A id \in 1..MaxOrders : Copies(list, id) <= Cardinality(sent[id])

CopiesInv ==
    /\ \A d \in Devices : OneRowPerProduct(orders[d])
    /\ \A j \in Jobs : OneRowPerProduct(job[j].orders)
    /\ \A b \in Branches : IsFiniteSet(Writers(b))
    /\ \A d \in Devices : \A n \in DOMAIN answers[d] :
          Within(answers[d][n].found, SentOf[answers[d][n].branch])
    /\ \A d \in Devices : \A n \in DOMAIN outbox[d] :
          Within(outbox[d][n].value, SentOf[outbox[d][n].branch])
    /\ \A b \in Branches : \A k \in Keys : Within(database[b][k], SentOf[b])

\* The check-outs that sent an order are finitely many.
LEMMA SentIsFinite ==
    ASSUME CopiesInv, NEW b \in Branches, NEW id
    PROVE  IsFiniteSet(Sent(b, id)) /\ Cardinality(Sent(b, id)) \in Nat
<1>1. Sent(b, id) \subseteq Writers(b) /\ IsFiniteSet(Writers(b))
  BY DEF Sent, Writers, CopiesInv
<1> QED BY <1>1, FS_Subset, FS_CardinalityType

\* They stay finitely many and none of them is taken back.
LEMMA SentGrows ==
    ASSUME CheckoutInv, CopiesInv, Flow, NEW b \in Branches
    PROVE  /\ IsFiniteSet(Writers(b)')
           /\ \A id : /\ Sent(b, id) \subseteq Sent(b, id)'
                      /\ IsFiniteSet(Sent(b, id)')
                      /\ Cardinality(Sent(b, id)') \in Nat
                      /\ Cardinality(Sent(b, id)) <= Cardinality(Sent(b, id)')
<1>1. IsFiniteSet(Writers(b)')
  <2>1. PICK i : \A j \in Jobs : j # i => branch'[j] = branch[j]
    BY DEF Flow
  <2>2. Writers(b)' \subseteq Writers(b) \cup {i}
    BY <2>1 DEF Writers
  <2>3. IsFiniteSet(Writers(b) \cup {i})
    BY FS_AddElement DEF CopiesInv
  <2> QED BY <2>2, <2>3, FS_Subset
<1>2. ASSUME NEW id
      PROVE  /\ Sent(b, id) \subseteq Sent(b, id)'
             /\ IsFiniteSet(Sent(b, id)')
             /\ Cardinality(Sent(b, id)') \in Nat
             /\ Cardinality(Sent(b, id)) <= Cardinality(Sent(b, id)')
  <2>1. ASSUME NEW j \in Sent(b, id) PROVE j \in Sent(b, id)'
    <3>1. j \in Jobs /\ branch[j][b] \in {"writing", "saved", "rejected"} /\ IsOrderInCart(job[j].orders, id)
      BY <2>1 DEF Sent
    <3>2. job'[j].orders = job[j].orders
      BY <3>1, SubmittedStays
    <3>3. job[j].status # "idle"
      BY <3>1 DEF CheckoutInv, IdleJobsUntouched
    <3>4. Onward(j, b)
      BY <3>1 DEF Flow
    <3>5. branch'[j][b] \in {"writing", "saved", "rejected"}
      BY <3>1, <3>3, <3>4 DEF Onward
    <3> QED BY <3>1, <3>2, <3>5 DEF Sent
  <2>2. Sent(b, id)' \subseteq Writers(b)'
    BY DEF Sent, Writers
  <2>3. IsFiniteSet(Sent(b, id)')
    BY <1>1, <2>2, FS_Subset
  <2> QED BY <2>1, <2>3, FS_Subset, FS_CardinalityType
<1> QED BY <1>1, <1>2

\* What a read finds holds no order more often than it was sent.
LEMMA FoundIsCounted ==
    ASSUME CheckoutInv, CopiesInv, NEW d \in Devices, NEW a, FoundNow(d, a)
    PROVE  /\ a.branch \in Branches /\ a.found \in Seq(Order)
           /\ Within(a.found, SentOf[a.branch])
<1>0. TypeOK
  BY DEF CheckoutInv
<1>1. PICK j \in Jobs, b \in Branches :
          /\ a.branch = b
          /\ a.found \in {<< >>, LocalView(d, b, Path(b, job[j].orders))}
  BY DEF FoundNow
<1> DEFINE key  == Path(b, job[j].orders)
           view == LocalView(d, b, key)
<1>2. key \in Keys
  BY <1>0, PathIsKey DEF TypeOK, Job
<1> HIDE DEF key
<1>3. view \in Seq(Order) /\ << >> \in Seq(Order)
  BY <1>0, <1>2, LocalViewIsList, EmptySeq
<1>4. Within(view, SentOf[b])
  <2>1. Within(database[b][key], SentOf[b])
    BY <1>2 DEF CopiesInv
  <2>2. \/ view = database[b][key]
        \/ \E m \in DOMAIN outbox[d] : view = outbox[d][m].value /\ outbox[d][m].branch = b
    BY <1>0, <1>2, LocalViewIsOne
  <2> HIDE DEF view
  <2> QED BY <2>1, <2>2 DEF CopiesInv
<1>5. Within(<< >>, SentOf[b])
  <2>1. \A id : Copies(<< >>, id) = 0
    BY FS_EmptySet DEF Copies, Places
  <2>2. \A id \in 1..MaxOrders : SentOf[b][id] = Sent(b, id) /\ Cardinality(Sent(b, id)) \in Nat
    BY SentIsFinite DEF SentOf
  <2> QED BY <2>1, <2>2 DEF Within
<1>6. a.found \in {<< >>, view}
  BY <1>1 DEF key
<1> HIDE DEF view
<1> QED BY <1>1, <1>3, <1>4, <1>5, <1>6

\* One check-out more counts for a list that holds the order once more.
LEMMA SentNowIsCounted ==
    ASSUME CheckoutInv, CopiesInv, Flow, NEW d \in Devices, NEW w, SentNow(d, w)
    PROVE  w.branch \in Branches /\ Within(w.value, SentOf'[w.branch])
<1>0. TypeOK
  BY DEF CheckoutInv
<1>1. PICK m \in DOMAIN answers[d] :
          /\ w.job = answers[d][m].job /\ w.branch = answers[d][m].branch
          /\ branch[w.job][w.branch] = "answered" /\ branch'[w.job][w.branch] = "writing"
          /\ w.value = Merge(job[w.job].orders, answers[d][m].found)
  BY DEF SentNow
<1> DEFINE j == w.job
           b == w.branch
           mine == job[j].orders
           view == answers[d][m].found
<1>2. j \in Jobs /\ b \in Branches /\ view \in Seq(Order)
  BY <1>0, <1>1, AnswersOfDevice
<1>3. mine \in Seq(Order) /\ OneRowPerProduct(mine)
  BY <1>0, <1>2 DEF TypeOK, Job, CopiesInv
<1>5. w.value = mine \o view
  BY <1>1 DEF Merge
<1>6. Within(view, SentOf[b])
  BY <1>1 DEF CopiesInv
<1>7. job'[j].orders = mine
  BY <1>0, <1>1, SubmittedStays
<1> HIDE DEF mine, view
<1>8. ASSUME NEW id \in 1..MaxOrders
      PROVE  Copies(w.value, id) <= Cardinality(Sent(b, id)')
  <2> DEFINE old == Cardinality(Sent(b, id))
             new == Cardinality(Sent(b, id)')
             once == IF IsOrderInCart(mine, id) THEN 1 ELSE 0
  <2>1. /\ old \in Nat /\ new \in Nat /\ old <= new
        /\ Sent(b, id) \subseteq Sent(b, id)' /\ IsFiniteSet(Sent(b, id)')
        /\ IsFiniteSet(Sent(b, id))
    BY <1>2, SentIsFinite, SentGrows
  <2>2. old + once <= new
    <3>1. CASE IsOrderInCart(mine, id)
      <4>1. j \notin Sent(b, id) /\ j \in Sent(b, id)'
        BY <1>1, <1>2, <1>7, <3>1 DEF Sent
      <4>2. Cardinality(Sent(b, id) \cup {j}) = old + 1
        BY <2>1, <4>1, FS_AddElement
      <4>3. Cardinality(Sent(b, id) \cup {j}) <= new
        BY <2>1, <4>1, FS_Subset
      <4> QED BY <3>1, <4>2, <4>3
    <3>2. CASE ~IsOrderInCart(mine, id)
      BY <2>1, <3>2
    <3> QED BY <3>1, <3>2
  <2>3. /\ Copies(mine, id) \in Nat /\ Copies(view, id) \in Nat /\ Copies(w.value, id) \in Nat
        /\ Copies(mine, id) <= once
        /\ Copies(mine \o view, id) <= Copies(mine, id) + Copies(view, id)
        /\ Copies(view, id) <= old
    <3>1. mine \o view \in Seq(Order)
      BY <1>2, <1>3, ConcatProperties
    <3>2. Copies(mine, id) \in Nat /\ Copies(view, id) \in Nat /\ Copies(w.value, id) \in Nat
      BY <1>2, <1>3, <1>5, <3>1, CopiesAreCounted
    <3> QED BY <1>2, <1>3, <1>6, <3>2, CopiesOfUnique, CopiesOfConcat DEF Within, SentOf
  <2> HIDE DEF old, new, once
  <2>4. once \in Nat
    BY DEF once
  <2>5. Copies(w.value, id) <= once + old
    BY <1>5, <2>1, <2>3, <2>4
  <2> QED BY <2>1, <2>2, <2>3, <2>4, <2>5 DEF new
<1> QED BY <1>2, <1>8 DEF Within, SentOf

LEMMA CopiesStep ==
    ASSUME CheckoutInv, CheckoutInv', CopiesInv, [Next]_vars
    PROVE  CopiesInv'
<1>0. Flow
  BY FlowStep
<1>1. \A d \in Devices : OneRowPerProduct(orders'[d])
  <2>1. \A d \in Devices : OneRowPerProduct(cart[d]) /\ OneRowPerProduct(cart'[d])
    BY DEF CheckoutInv, CartOneRowPerProduct
  <2>2. OneRowPerProduct(<< >>)
    BY DEF OneRowPerProduct
  <2> QED BY <1>0, <2>1, <2>2 DEF Flow, CopiesInv
<1>2. \A j \in Jobs : OneRowPerProduct(job'[j].orders)
  BY <1>0, CheckoutAssumption DEF Flow, CopiesInv
<1>3. \A b \in Branches : IsFiniteSet(Writers(b)')
  BY <1>0, SentGrows
<1>4. ASSUME NEW b \in Branches, NEW list, Within(list, SentOf[b]), NEW S, list \in Seq(S)
      PROVE  Within(list, SentOf'[b])
  <2> SUFFICES ASSUME NEW id \in 1..MaxOrders
               PROVE  Copies(list, id) <= Cardinality(Sent(b, id)')
    BY DEF Within, SentOf
  <2>1. /\ Cardinality(Sent(b, id)) \in Nat /\ Cardinality(Sent(b, id)') \in Nat
        /\ Cardinality(Sent(b, id)) <= Cardinality(Sent(b, id)')
    BY <1>0, SentIsFinite, SentGrows
  <2>2. Copies(list, id) \in Nat /\ Copies(list, id) <= Cardinality(Sent(b, id))
    BY <1>4, CopiesAreCounted DEF Within, SentOf
  <2> QED BY <2>1, <2>2
<1>5. \A d \in Devices : \A m \in DOMAIN outbox[d] :
          /\ outbox[d][m].branch \in Branches
          /\ Within(outbox[d][m].value, SentOf'[outbox[d][m].branch])
  <2> SUFFICES ASSUME NEW d \in Devices, NEW m \in DOMAIN outbox[d]
               PROVE  /\ outbox[d][m].branch \in Branches
                      /\ Within(outbox[d][m].value, SentOf'[outbox[d][m].branch])
    OBVIOUS
  <2>1. outbox[d][m] \in Write
    BY ElementOfSeq DEF CheckoutInv, TypeOK
  <2>2. outbox[d][m].branch \in Branches /\ outbox[d][m].value \in Seq(Order)
    BY <2>1 DEF Write
  <2>3. Within(outbox[d][m].value, SentOf[outbox[d][m].branch])
    BY DEF CopiesInv
  <2> QED BY <1>4, <2>2, <2>3
<1>6. \A d \in Devices : \A n \in DOMAIN outbox'[d] :
          Within(outbox'[d][n].value, SentOf'[outbox'[d][n].branch])
  <2> SUFFICES ASSUME NEW d \in Devices, NEW n \in DOMAIN outbox'[d]
               PROVE  Within(outbox'[d][n].value, SentOf'[outbox'[d][n].branch])
    OBVIOUS
  <2>1. CASE SentBefore(d, outbox'[d][n])
    BY <1>5, <2>1 DEF SentBefore
  <2>2. CASE SentNow(d, outbox'[d][n])
    BY <1>0, <2>2, SentNowIsCounted
  <2> QED BY <1>0, <2>1, <2>2 DEF Flow
<1>7. \A b \in Branches : \A k \in Keys : Within(database'[b][k], SentOf'[b])
  <2> SUFFICES ASSUME NEW b \in Branches, NEW k \in Keys
               PROVE  Within(database'[b][k], SentOf'[b])
    OBVIOUS
  <2>1. CASE database'[b][k] = database[b][k]
    <3>1. database[b][k] \in Seq(Order) /\ Within(database[b][k], SentOf[b])
      BY DEF CheckoutInv, TypeOK, CopiesInv
    <3> QED BY <1>4, <2>1, <3>1
  <2>2. CASE SavedNow(b, k)
    BY <1>5, <2>2 DEF SavedNow
  <2> QED BY <1>0, <2>1, <2>2 DEF Flow
<1>8. \A d \in Devices : \A n \in DOMAIN answers'[d] :
          Within(answers'[d][n].found, SentOf'[answers'[d][n].branch])
  <2> SUFFICES ASSUME NEW d \in Devices, NEW n \in DOMAIN answers'[d]
               PROVE  Within(answers'[d][n].found, SentOf'[answers'[d][n].branch])
    OBVIOUS
  <2> DEFINE a == answers'[d][n]
  <2>1. CASE FoundBefore(d, a)
    <3>1. PICK m \in DOMAIN answers[d] : a = answers[d][m]
      BY <2>1 DEF FoundBefore
    <3>2. a.branch \in Branches /\ a.found \in Seq(Order) /\ Within(a.found, SentOf[a.branch])
      BY <3>1, AnswersOfDevice DEF CheckoutInv, CopiesInv
    <3> QED BY <1>4, <3>2
  <2>2. CASE FoundNow(d, a)
    <3>1. a.branch \in Branches /\ a.found \in Seq(Order) /\ Within(a.found, SentOf[a.branch])
      BY <2>2, FoundIsCounted
    <3> QED BY <1>4, <3>1
  <2> QED BY <1>0, <2>1, <2>2 DEF Flow
<1> QED BY <1>1, <1>2, <1>3, <1>6, <1>7, <1>8 DEF CopiesInv

\* No list holds an order more often than check-outs sent it, whatever reads see of
\* the writes that wait: an order is not doubled by a read of the device's own write.
THEOREM NoExtraCopiesAlways == Spec => []NoExtraCopies
<1>1. Init => CopiesInv
  <2> SUFFICES ASSUME Init PROVE CopiesInv
    OBVIOUS
  <2>1. OneRowPerProduct(<< >>)
    BY DEF OneRowPerProduct
  <2>2. \A b \in Branches : \A id : Writers(b) = {} /\ Sent(b, id) = {}
    BY DEF Init, Writers, Sent
  <2>3. \A b \in Branches : Within(<< >>, SentOf[b])
    <3>1. \A id : Copies(<< >>, id) = 0
      BY FS_EmptySet DEF Copies, Places
    <3>2. \A b \in Branches : \A id : Cardinality(Sent(b, id)) = 0
      BY <2>2, FS_EmptySet
    <3> QED BY <3>1, <3>2 DEF Within, SentOf
  <2>4. \A b \in Branches : \A k \in Keys : database[b][k] = << >>
    BY DEF Init
  <2>5. \A b \in Branches : IsFiniteSet(Writers(b))
    BY <2>2, FS_EmptySet
  <2>6. \A d \in Devices : DOMAIN outbox[d] = {} /\ DOMAIN answers[d] = {}
    BY DEF Init
  <2> QED BY <2>1, <2>3, <2>4, <2>5, <2>6 DEF Init, CopiesInv
<1>2. CheckoutInv /\ CheckoutInv' /\ CopiesInv /\ [Next]_vars => CopiesInv'
  BY CopiesStep
<1>3. CopiesInv => NoExtraCopies
  BY DEF CopiesInv, Within, SentOf, Copies, Places, Sent, NoExtraCopies
<1> QED BY <1>1, <1>2, <1>3, InvariantHolds, PTL DEF Spec
=============================================================================
