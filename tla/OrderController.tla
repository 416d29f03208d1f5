-------------------------- MODULE OrderController --------------------------
(***************************************************************************)
(* The cart rules of Controllers/OrderController.swift as operators on a   *)
(* cart, a sequence of orders.  An order is a record                       *)
(*     [id, product, quantity, consumerId]                                 *)
(* the four stored fields of Models/Order.swift.  The product stands for   *)
(* its id, the only field the cart compares.                               *)
(*                                                                         *)
(* CacheController.readOrders decodes a fresh copy and writeOrders stores  *)
(* the whole array, all on the main thread, so one call of an operation is *)
(* one function from the stored cart to the stored cart.                   *)
(***************************************************************************)
EXTENDS Naturals, SequencesExt

CONSTANT MaxQuantity    \* bound: as a quantity, this many or any number above

ASSUME QuantityAssumption == MaxQuantity \in Nat \ {0}

\* A cart as CacheController.readOrders finds it when nothing is stored, and
\* what writeOrders(nil) leaves behind.
EmptyCart == << >>

IsProductInCart(orders, product) == \E i \in DOMAIN orders : orders[i].product = product

IsOrderInCart(orders, id) == \E i \in DOMAIN orders : orders[i].id = id

\* orders.index(where:): the first position that matches.
IndexOfProduct(orders, product) == SelectInSeq(orders, LAMBDA o : o.product = product)

IndexOfOrder(orders, id) == SelectInSeq(orders, LAMBDA o : o.id = id)

\* No product has two rows, and no two rows have one id.
OneRowPerProduct(orders) ==
    \A m, n \in DOMAIN orders :
        m # n => orders[m].product # orders[n].product /\ orders[m].id # orders[n].id

\* generateOrderId is a parameter: 8 characters out of 32 are taken to be new.
CreateOrder(id, product, userId) ==
    [id |-> id, product |-> product, quantity |-> 1, consumerId |-> userId]

\* Wrong version: the cart is not searched for the product.
AddOrderAlwaysAppends(orders, id, product, userId) ==
    Append(orders, CreateOrder(id, product, userId))

OneMore(quantity) == IF quantity < MaxQuantity THEN quantity + 1 ELSE quantity

AddOrder(orders, id, product, userId) ==
    IF IsProductInCart(orders, product)
    THEN [orders EXCEPT ![IndexOfProduct(orders, product)].quantity = OneMore(@)]
    ELSE Append(orders, CreateOrder(id, product, userId))

\* Wrong version: the order after the matching one is removed.
RemoveOrderOffByOne(orders, id) ==
    IF IsOrderInCart(orders, id) /\ IndexOfOrder(orders, id) < Len(orders)
    THEN RemoveAt(orders, IndexOfOrder(orders, id) + 1)
    ELSE orders

RemoveOrder(orders, id) ==
    IF IsOrderInCart(orders, id)
    THEN RemoveAt(orders, IndexOfOrder(orders, id))
    ELSE orders

UpdateQuantity(orders, quantity, id) ==
    IF IsOrderInCart(orders, id)
    THEN [orders EXCEPT ![IndexOfOrder(orders, id)].quantity = quantity]
    ELSE orders
=============================================================================
