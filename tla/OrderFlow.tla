------------------------------ MODULE OrderFlow ------------------------------
(***************************************************************************)
(* The life of an order between three parties that share no lock but one:  *)
(*   - the placing threads (delta-hedge engine, RPC server), inside          *)
(*     OrderManager.place_order / cancel_order and IB.place_order;          *)
(*   - the reader thread, which runs the ibapi callbacks of class IB one    *)
(*     message at a time (openOrder, orderStatus, completedOrder, error,    *)
(*     nextValidId) and writes to the database through the order-update     *)
(*     callback;                                                            *)
(*   - the broker (TWS and what lies behind it), external to src/.          *)
(* A client order id c identifies the order at the broker, and its permId   *)
(* as well (permIds are unique per client id and never small integers, so   *)
(* the code never confuses the two): a row's broker_order_id is c or NoId.  *)
(***************************************************************************)
EXTENDS Naturals, Sequences

CONSTANTS
    Orders,     \* BaseOrder objects, one per place_order call
    Placers,    \* threads that call OrderManager.place_order
    PlacerOf,   \* which thread places which order
    Rpc,        \* the thread that also serves cancel requests
    MaxId,      \* bound: largest client order id
    RequestIds, \* ids below MaxId that make_request has also given out
    Budget,     \* bound: how often each environment event may happen
    NoOrder,    \* no member of Orders
    EarlyAck,         \* may the first report overtake the rest of place_order?
    RejectShowsOrder, \* does a rejection come with an openOrder message?
    StatusAlone       \* may an orderStatus come without an openOrder before it?

Events == {"cancel", "clash", "drop", "dbFault", "restart", "warning"}

ASSUME OrderAssumption ==
    /\ PlacerOf \in [Orders -> Placers]
    /\ Rpc \in Placers
    /\ NoOrder \notin Orders
    /\ MaxId \in Nat \ {0}
    /\ RequestIds \subseteq 1 .. MaxId
    /\ Budget \in [Events -> Nat]
    /\ {EarlyAck, RejectShowsOrder, StatusAlone} \subseteq BOOLEAN

NoId == 0
ClientId == 1 .. MaxId

\* The statuses IB reports; ApiPending, PreSubmitted and ApiCancelled are to
\* IB_STATUS_MAP what PendingSubmit, Submitted and Cancelled are.
IBStatus == {"PendingSubmit", "Submitted", "PendingCancel",
             "Filled", "Cancelled", "Inactive"}
\* OrderStatus, and the None of a status that IB_STATUS_MAP does not have.
OrderStatus ==
    {"INIT", "SUBMITTING", "SUBMITTED", "FILLED", "CANCELLED", "REJECTED", "None"}
\* Mutant: the status is kept as IB spells it.
RawStatus == [s \in IBStatus |-> s]
\* IB_STATUS_MAP.get: PendingCancel is not one of its keys.
IB_STATUS_MAP ==
    [PendingSubmit |-> "SUBMITTING", Submitted |-> "SUBMITTED",
     PendingCancel |-> "None", Filled |-> "FILLED", Cancelled |-> "CANCELLED", Inactive |-> "REJECTED"]

VARIABLES
    pc,         \* where the place_order call of each order is
    cid,        \* client id allocated to each order, NoId before
    saw,        \* status and broker id place_order read last
    obj,        \* the IBOrder whose order.permId place_order is waiting for
    next,       \* IB.next_valid_order_id, NoId for None
    lock,       \* IB.order_lock: the order inside it, or NoOrder
    open,       \* IB.open_orders
    db,         \* rows of equity_order / spread_order
    cancelling, \* the broker id cancel_order has just sent a cancel for
    connected,  \* IB.isConnected()
    reader,     \* is the thread that runs IB.run alive?
    clash,      \* has an insertion met its loop over open_orders?
    inbox,      \* messages from the broker not yet processed
    broker,     \* the broker's state of each client id
    budget      \* environment events left

place == <<pc, cid, saw, obj>>
client == <<next, lock, open>>
session == <<connected, reader, clash>>
vars == <<pc, cid, saw, obj, next, lock, open, db, cancelling,
          connected, reader, clash, inbox, broker, budget>>

-----------------------------------------------------------------------------
Inside == {"send", "reqIds", "register"}
Active == {"bump", "read", "wait", "save"} \cup Inside
Done == {"recorded", "failed", "lost"}
Callback == {"openOrder", "orderStatus"}

\* An IBOrder: made by place_order (no subscriber is ever added to it) or by
\* a callback (subscribed); heard tells order_id, perm_id and order.permId.
Entry == [placed : BOOLEAN, status : OrderStatus, heard : SUBSET Callback]
NoEntry == [placed |-> FALSE, status |-> "INIT", heard |-> {}]
Placed == [placed |-> TRUE, status |-> "INIT", heard |-> {}]
Present(c) == open[c] # NoEntry

\* ib_order_data of place_order: "bound" while it is the entry of open_orders
\* and has no permId, "known" once an openOrder gave it one, "none" before it is
\* read and after the entry was replaced or popped (it can never get one then).
Object == {"none", "bound", "known"}

Row == [status : OrderStatus, perm : ClientId \cup {NoId}]
NoRow == [status |-> "INIT", perm |-> NoId]
Recorded(o) == db[o] # NoRow

Message ==
    [type : {"nextValidId"}, id : 1 .. MaxId + 1]
        \cup [type : Callback \cup {"completedOrder"}, id : ClientId,
              status : IBStatus]
        \cup [type : {"error"}, id : ClientId, code : {"202", "399", "other"}]

BrokerState == {"none", "new"} \cup IBStatus
Terminal == {"Filled", "Cancelled", "Inactive"}
Live == {"PendingSubmit", "Submitted", "PendingCancel"}

TypeOK ==
    /\ pc \in [Orders -> {"idle"} \cup Active \cup Done]
    /\ cid \in [Orders -> ClientId \cup {NoId}]
    /\ saw \in [Orders -> Row]
    /\ obj \in [Orders -> Object]
    /\ next \in 0 .. MaxId + 1
    /\ lock \in Orders \cup {NoOrder}
    /\ open \in [ClientId -> Entry]
    /\ db \in [Orders -> Row]
    /\ cancelling \in ClientId \cup {NoId}
    /\ connected \in BOOLEAN /\ reader \in BOOLEAN /\ clash \in BOOLEAN
    /\ inbox \in Seq(Message)
    /\ broker \in [ClientId -> BrokerState]
    /\ budget \in [Events -> Nat]

-----------------------------------------------------------------------------
(* Helpers.                                                                *)

Msg(type, c, s) == [type |-> type, id |-> c, status |-> s]
Both(c, s) == <<Msg("openOrder", c, s), Msg("orderStatus", c, s)>>
Status(c, s) == IF StatusAlone THEN <<Msg("orderStatus", c, s)>> ELSE Both(c, s)
NextId(n) == [type |-> "nextValidId", id |-> n]
Error(c, code) == [type |-> "error", id |-> c, code |-> code]

\* What the broker sends is lost while the API connection is down.
Deliver(ms) == inbox' = IF connected THEN inbox \o ms ELSE inbox

\* The id TWS reports: one more than the largest it has been given.
NextFree(n) ==
    LET Given == {c \in ClientId : broker[c] # "none"} IN
    n - 1 \in Given \cup {0} /\ \A c \in Given : c < n

Spend(e) == /\ budget[e] > 0
            /\ budget' = [budget EXCEPT ![e] = @ - 1]

\* Mutant: the WHERE clause is lost.
UpdateAllRows(c, s) ==
    [o \in Orders |-> IF Recorded(o) THEN [db[o] EXCEPT !.status = s]
                      ELSE db[o]]

\* UPDATE ... SET status = s WHERE broker_order_id = c
UpdateRows(c, s) ==
    [o \in Orders |-> IF db[o].perm = c THEN [db[o] EXCEPT !.status = s]
                      ELSE db[o]]

Detach(c) == [o \in Orders |->
    IF cid[o] = c /\ obj[o] = "bound" THEN "none" ELSE obj[o]]

Goto(o, l) == pc' = [pc EXCEPT ![o] = l]

Busy(t) == \/ \E o \in Orders : PlacerOf[o] = t /\ pc[o] \in Active
           \/ t = Rpc /\ cancelling # NoId

Init ==
    /\ pc = [o \in Orders |-> "idle"]
    /\ cid = [o \in Orders |-> NoId]
    /\ saw = [o \in Orders |-> NoRow]
    /\ obj = [o \in Orders |-> "none"]
    /\ next = NoId
    /\ lock = NoOrder
    /\ open = [c \in ClientId |-> NoEntry]
    /\ db = [o \in Orders |-> NoRow]
    /\ cancelling = NoId
    /\ connected = TRUE /\ reader = TRUE /\ clash = FALSE
    /\ inbox = <<NextId(1)>>
    /\ broker = [c \in ClientId |-> "none"]
    /\ budget = Budget

-----------------------------------------------------------------------------
(* OrderManager.place_order and IB.place_order, in the order's thread.     *)

PlaceCall(o) ==
    /\ pc[o] = "idle" /\ ~Busy(PlacerOf[o])
    /\ Goto(o, IF connected THEN "bump" ELSE "failed")
    /\ UNCHANGED <<cid, saw, obj, client, db, cancelling, session, inbox,
                   broker, budget>>

\* Mutant: the id is used before it is incremented, and never is.
BumpForgotten(o) ==
    /\ pc[o] = "bump" /\ lock = NoOrder /\ next # NoId
    /\ Goto(o, "send") /\ lock' = o
    /\ cid' = [cid EXCEPT ![o] = next]
    /\ UNCHANGED <<saw, obj, next, open, db, cancelling, session, inbox,
                   broker, budget>>

\* with order_lock: next_valid_order_id += 1, a TypeError while it is None,
\* and order_id = next_valid_order_id (no thread switch point in between).
Bump(o) ==
    /\ pc[o] = "bump" /\ lock = NoOrder
    /\ IF next = NoId
       THEN /\ Goto(o, "failed")
            /\ UNCHANGED <<cid, client>>
       ELSE /\ next < MaxId
            /\ Goto(o, "send")
            /\ next' = next + 1
            /\ cid' = [cid EXCEPT ![o] = next + 1]
            /\ lock' = o
            /\ UNCHANGED open
    /\ UNCHANGED <<saw, obj, db, cancelling, session, inbox, broker, budget>>

\* ibapi sends nothing while disconnected; to TWS an id it knows is a change.
Send(o) ==
    /\ pc[o] = "send"
    /\ Goto(o, "reqIds")
    /\ broker' = IF connected /\ broker[cid[o]] = "none"
                 THEN [broker EXCEPT ![cid[o]] = "new"] ELSE broker
    /\ UNCHANGED <<cid, saw, obj, client, db, cancelling, session, inbox,
                   budget>>

ReqIds(o) ==
    /\ pc[o] = "reqIds"
    /\ Goto(o, "register")
    /\ \E n \in 1 .. MaxId + 1 : NextFree(n) /\ Deliver(<<NextId(n)>>)
    /\ UNCHANGED <<cid, saw, obj, client, db, cancelling, session, broker,
                   budget>>

\* A new key comes while the reader is inside the loop of contractDetails.
Clashes(c) == /\ reader /\ ~clash /\ ~Present(c) /\ \E d \in ClientId : Present(d)
              /\ Spend("clash")
              /\ clash' = TRUE

\* open_orders[order_id] = order, replacing an entry a callback made first
Register(o) ==
    /\ pc[o] = "register"
    /\ Goto(o, "read")
    /\ open' = [open EXCEPT ![cid[o]] = Placed]
    /\ obj' = Detach(cid[o])
    /\ lock' = NoOrder
    /\ Clashes(cid[o]) \/ UNCHANGED <<clash, budget>>
    /\ UNCHANGED <<cid, saw, next, db, cancelling, connected, reader, inbox,
                   broker>>

\* Mutant: a rejected order is saved like any other.
JudgeUnchecked(o, status, perm) ==
    /\ Goto(o, "save")
    /\ saw' = [saw EXCEPT ![o] = [status |-> status, perm |-> perm]]

Judge(o, status, perm) ==
    IF status = "REJECTED"
    THEN Goto(o, "failed") /\ UNCHANGED saw
    ELSE /\ Goto(o, "save")
         /\ saw' = [saw EXCEPT ![o] = [status |-> status, perm |-> perm]]

\* get_order_data, then status, then perm_id, which is None until the first
\* orderStatus; None == 0 is False, so only INIT enters the waiting loop.
Read(o) ==
    /\ pc[o] = "read"
    /\ LET e == open[cid[o]] IN
       /\ \/ /\ e = NoEntry
             /\ Goto(o, "failed") /\ UNCHANGED <<saw, obj>>
          \/ /\ e # NoEntry /\ e.status = "INIT"
             /\ Goto(o, "wait") /\ UNCHANGED saw
             /\ obj' = [obj EXCEPT ![o] = "bound"]
          \/ /\ e.status # "INIT"
             /\ Judge(o, e.status,
                      IF "orderStatus" \in e.heard THEN cid[o] ELSE NoId)
             /\ UNCHANGED obj
    /\ UNCHANGED <<cid, client, db, cancelling, session, inbox, broker,
                   budget>>

\* Mutant: the loop gives up before the broker has answered.
WaitTimesOut(o) ==
    /\ pc[o] = "wait" /\ Goto(o, "failed")
    /\ UNCHANGED <<cid, saw, obj, client, db, cancelling, session, inbox,
                   broker, budget>>

\* Mutant: the loop gives up when the session is lost.
WaitConnected(o) == ~connected /\ WaitTimesOut(o)

\* One turn of the loop that ends it: OrderNotFound, or a status and a permId.
Wait(o) ==
    /\ pc[o] = "wait"
    /\ LET e == open[cid[o]] IN
       \/ /\ e = NoEntry
          /\ Goto(o, "failed") /\ UNCHANGED saw
       \/ /\ e.status # "INIT" /\ obj[o] = "known"
          /\ Judge(o, e.status, cid[o])
    /\ UNCHANGED <<cid, obj, client, db, cancelling, session, inbox, broker,
                   budget>>

\* add_equity_order / add_spread_order
Save(o) ==
    /\ pc[o] = "save"
    /\ \/ /\ Goto(o, "recorded")
          /\ db' = [db EXCEPT ![o] = saw[o]]
          /\ UNCHANGED budget
       \/ Spend("dbFault") /\ Goto(o, "failed") /\ UNCHANGED db
    /\ UNCHANGED <<cid, saw, obj, client, cancelling, session, inbox, broker>>

-----------------------------------------------------------------------------
(* OrderManager.cancel_order, in the RPC server's thread.                  *)

\* The two messages that an order is cancelled come in either order.
Cancelled(c) ==
    /\ broker' = [broker EXCEPT ![c] = "Cancelled"]
    /\ LET m == Status(c, "Cancelled") IN
       \/ Deliver(<<Error(c, "202")>> \o m)
       \/ Deliver(Append(m, Error(c, "202")))

\* The broker cancels a live order, at once or after it has taken note of the
\* request, or answers that it is too late.
CancelSend(o) ==
    /\ ~Busy(Rpc) /\ connected
    /\ LET c == db[o].perm IN
       /\ c # NoId /\ open[c].heard # {}
       /\ cancelling' = c
       /\ Spend("cancel")
       /\ IF broker[c] \in Terminal
          THEN Deliver(<<Error(c, "other")>>) /\ UNCHANGED broker
          ELSE \/ Cancelled(c)
               \/ /\ broker' = [broker EXCEPT ![c] = "PendingCancel"]
                  /\ Deliver(Status(c, "PendingCancel"))
    /\ UNCHANGED <<place, client, db, session>>

CancelWrite ==
    /\ cancelling # NoId
    /\ cancelling' = NoId
    /\ \/ /\ db' = UpdateRows(cancelling, "CANCELLED")
          /\ UNCHANGED budget
       \/ Spend("dbFault") /\ UNCHANGED db
    /\ UNCHANGED <<place, client, session, inbox, broker>>

-----------------------------------------------------------------------------
(* The callbacks of class IB, in the reader thread.                        *)

Receive(type) == /\ reader /\ ~clash /\ inbox # <<>>
                 /\ Head(inbox).type = type
                 /\ inbox' = Tail(inbox)

\* An exception leaves EClient.run, whose finally clause disconnects.
Die == reader' = FALSE /\ connected' = FALSE /\ clash' = FALSE

\* update_order_data, the callback every subscribed IBOrder notifies
Notify(c, status) ==
    \/ /\ db' = UpdateRows(c, status)
       /\ UNCHANGED <<session, budget>>
    \/ Spend("dbFault") /\ Die /\ UNCHANGED db

Hear(c, callback, status) ==
    open' = [open EXCEPT ![c] = [placed |-> @.placed, status |-> status,
                                 heard |-> @.heard \cup {callback}]]

nextValidId ==
    /\ Receive("nextValidId")
    /\ next' = Head(inbox).id
    /\ UNCHANGED <<place, lock, open, db, cancelling, session, broker, budget>>

\* Mutant: the callback drops the Order object, and its permId with it.
openOrderWithoutOrder ==
    /\ Receive("openOrder")
    /\ Hear(Head(inbox).id, "openOrder", IB_STATUS_MAP[Head(inbox).status])
    /\ UNCHANGED <<place, next, lock, db, cancelling, session, broker, budget>>

openOrder ==
    /\ Receive("openOrder")
    /\ LET c == Head(inbox).id
           status == IB_STATUS_MAP[Head(inbox).status] IN
       /\ Hear(c, "openOrder", status)
       /\ obj' = [o \in Orders |-> IF cid[o] = c /\ obj[o] = "bound"
                                   THEN "known" ELSE obj[o]]
       /\ \/ open[c].placed /\ UNCHANGED <<db, session, budget>>
          \/ ~open[c].placed /\ Notify(c, status)
    /\ UNCHANGED <<pc, cid, saw, next, lock, cancelling, broker>>

\* contract.secType is read before anything is notified: contract is None in
\* an entry this callback has just made.
orderStatus ==
    /\ Receive("orderStatus")
    /\ LET c == Head(inbox).id
           status == IB_STATUS_MAP[Head(inbox).status] IN
       /\ Hear(c, "orderStatus", status)
       /\ \/ open[c].placed /\ UNCHANGED <<db, session, budget>>
          \/ /\ ~open[c].placed /\ "openOrder" \in open[c].heard
             /\ Notify(c, status)
          \/ /\ ~open[c].placed /\ "openOrder" \notin open[c].heard
             /\ Die /\ UNCHANGED <<db, budget>>
    /\ UNCHANGED <<place, next, lock, cancelling, broker>>

\* Mutants: completed means filled; the status is taken from open_orders;
\* nobody subscribes to the completed order.
CompletedFilled ==
    /\ Receive("completedOrder")
    /\ Notify(Head(inbox).id, "FILLED")
    /\ UNCHANGED <<place, client, cancelling, broker>>
CompletedStale ==
    /\ Receive("completedOrder")
    /\ Notify(Head(inbox).id, open[Head(inbox).id].status)
    /\ UNCHANGED <<place, client, cancelling, broker>>
CompletedUnheard ==
    /\ Receive("completedOrder")
    /\ UNCHANGED <<place, client, db, session, cancelling, broker, budget>>

\* open_orders is keyed by client id, so the pop by permId removes nothing.
completedOrder ==
    /\ Receive("completedOrder")
    /\ Notify(Head(inbox).id, IB_STATUS_MAP[Head(inbox).status])
    /\ UNCHANGED <<place, client, cancelling, broker>>

\* error and _handle_error; an id make_request has used is taken for a request
error ==
    /\ Receive("error")
    /\ LET c == Head(inbox).id IN
       \/ /\ c \in RequestIds \/ ~Present(c)
          /\ UNCHANGED <<open, obj>>
       \/ /\ c \notin RequestIds /\ Present(c)
          /\ Head(inbox).code = "202"
          /\ open' = [open EXCEPT ![c] = NoEntry]
          /\ obj' = Detach(c)
       \/ /\ c \notin RequestIds /\ Present(c)
          /\ Head(inbox).code # "202"
          /\ open' = [open EXCEPT ![c].status =
                IF Head(inbox).code = "399" THEN "SUBMITTED" ELSE "REJECTED"]
          /\ UNCHANGED obj
    /\ UNCHANGED <<pc, cid, saw, next, lock, db, cancelling, session, broker,
                   budget>>

\* The answers to contract requests come to the same thread. It looks for their
\* contract in open_orders, without order_lock: once place_order has added a key
\* to what it goes through, the loop raises.
contractDetails ==
    /\ clash /\ Die
    /\ UNCHANGED <<place, client, db, cancelling, inbox, broker, budget>>

-----------------------------------------------------------------------------
(* The broker, external to src/: what it may do to an order, and tell.     *)

Client == <<place, client, db, cancelling, session>>

\* Has IB.place_order finished with c? A report takes a round trip to the
\* broker, two statements of Python do not.
Acked(c) == \A o \in Orders : cid[o] = c => pc[o] \notin Inside

Report(c) ==
    /\ \/ broker[c] = "new" /\ (EarlyAck \/ Acked(c))
          /\ \E s \in {"PendingSubmit", "Submitted"} :
                /\ broker' = [broker EXCEPT ![c] = s]
                /\ Deliver(Both(c, s))
       \/ broker[c] = "PendingSubmit"
          /\ broker' = [broker EXCEPT ![c] = "Submitted"]
          /\ Deliver(Status(c, "Submitted"))
    /\ UNCHANGED <<Client, budget>>

Confirm(c) ==
    /\ broker[c] = "PendingCancel"
    /\ Cancelled(c)
    /\ UNCHANGED <<Client, budget>>

Fill(c) ==
    /\ broker[c] \in {"Submitted", "PendingCancel"}
    /\ broker' = [broker EXCEPT ![c] = "Filled"]
    /\ Deliver(Status(c, "Filled"))
    /\ UNCHANGED <<Client, budget>>

Reject(c) ==
    /\ broker[c] = "new" /\ (EarlyAck \/ Acked(c))
    /\ broker' = [broker EXCEPT ![c] = "Inactive"]
    /\ Deliver(IF RejectShowsOrder
               THEN <<Msg("openOrder", c, "Inactive"), Error(c, "other")>>
               ELSE <<Error(c, "other")>>)
    /\ UNCHANGED <<Client, budget>>

\* A message about a live order that TWS sends as an error, code 399 or another.
Warn(c) ==
    /\ broker[c] \in Live
    /\ Spend("warning")
    /\ \E code \in {"399", "other"} : Deliver(<<Error(c, code)>>)
    /\ UNCHANGED <<Client, broker>>

\* The answer to reqAllOpenOrders and reqCompletedOrders of Core.main_loop, as
\* far as it is about order c, read before the next: the loop waits 5 seconds.
Poll(c) ==
    /\ connected /\ inbox = <<>>
    /\ \/ /\ broker[c] \in Live
          /\ inbox' = inbox \o Both(c, broker[c])
       \/ /\ broker[c] \in {"Filled", "Cancelled"}
          /\ inbox' = Append(inbox, Msg("completedOrder", c, broker[c]))
    /\ UNCHANGED <<Client, broker, budget>>

-----------------------------------------------------------------------------
(* The API session and the process.                                        *)

Drop ==
    /\ connected /\ Spend("drop")
    /\ connected' = FALSE
    /\ UNCHANGED <<place, client, db, cancelling, reader, clash, inbox, broker>>

\* EClient.run ends once it is disconnected and its queue is empty.
ReaderExit ==
    /\ reader /\ ~clash /\ ~connected /\ inbox = <<>>
    /\ reader' = FALSE
    /\ UNCHANGED <<place, client, db, cancelling, connected, clash, inbox, broker,
                   budget>>

\* main_loop calls connect_ib again, and nothing starts IB.run again.
Reconnect ==
    /\ ~connected
    /\ connected' = TRUE
    /\ \E n \in 1 .. MaxId + 1 :
          NextFree(n) /\ inbox' = Append(inbox, NextId(n))
    /\ UNCHANGED <<place, client, db, cancelling, reader, clash, broker, budget>>

\* Where an order stands in the market.
Standing(o) == IF cid[o] = NoId THEN "none" ELSE broker[cid[o]]

\* The core process dies and a new one connects: the rows and the orders at
\* the broker are what is left. An id never sent was only ever a local variable.
Restart ==
    /\ Spend("restart")
    /\ pc' = [o \in Orders |-> IF pc[o] \in Active THEN "lost" ELSE pc[o]]
    /\ cid' = [o \in Orders |-> IF pc[o] \in Active /\ Standing(o) = "none"
                               THEN NoId ELSE cid[o]]
    /\ obj' = [o \in Orders |-> "none"]
    /\ next' = NoId /\ lock' = NoOrder
    /\ open' = [c \in ClientId |-> NoEntry]
    /\ cancelling' = NoId
    /\ connected' = TRUE /\ reader' = TRUE /\ clash' = FALSE
    /\ \E n \in 1 .. MaxId + 1 : NextFree(n) /\ inbox' = <<NextId(n)>>
    /\ UNCHANGED <<saw, db, broker>>

-----------------------------------------------------------------------------
PlaceStep(o) == \/ Bump(o) \/ Send(o) \/ ReqIds(o) \/ Register(o)
                \/ Read(o) \/ Wait(o) \/ Save(o)
ReaderStep == \/ nextValidId \/ openOrder \/ orderStatus
              \/ completedOrder \/ error \/ contractDetails \/ ReaderExit
Broker(c) == Report(c) \/ Confirm(c) \/ Fill(c) \/ Reject(c) \/ Warn(c)

Next ==
    \/ \E o \in Orders : PlaceCall(o) \/ PlaceStep(o) \/ CancelSend(o)
    \/ CancelWrite
    \/ ReaderStep
    \/ \E c \in ClientId : Broker(c) \/ Poll(c)
    \/ Drop \/ Reconnect \/ Restart

Spec == Init /\ [][Next]_vars

\* The threads run, main_loop keeps polling and reconnecting, and the broker
\* answers a new order. Nobody has to place, cancel or fill anything.
Fairness ==
    /\ \A o \in Orders : WF_vars(PlaceStep(o))
    /\ WF_vars(CancelWrite)
    /\ WF_vars(ReaderStep)
    /\ \A c \in ClientId : /\ SF_vars(Poll(c))
                           /\ WF_vars(Report(c) \/ Reject(c))
    /\ WF_vars(Reconnect)

FairSpec == Spec /\ Fairness

-----------------------------------------------------------------------------
(* What a caller of the OMS sees: the abstract specification OrderLedger.  *)

MarketOf ==
    [none |-> "none", new |-> "working", PendingSubmit |-> "working",
     Submitted |-> "working", PendingCancel |-> "working", Filled |-> "filled",
     Cancelled |-> "dead", Inactive |-> "dead"]
Market(o) == MarketOf[Standing(o)]

RowSeen(o) ==
    IF ~Recorded(o) THEN "none"
    ELSE IF db[o].status = "FILLED" THEN "filled"
    ELSE IF db[o].status = "CANCELLED" THEN "cancelled" ELSE "open"

Ledger == INSTANCE OrderLedger WITH
    call <- [o \in Orders |-> IF pc[o] \in Active THEN "busy" ELSE pc[o]],
    market <- [o \in Orders |-> Market(o)],
    row <- [o \in Orders |-> RowSeen(o)]

\* The machinery of threads, callbacks and statuses is an OrderLedger.
ImplementsLedger == Ledger!Spec

-----------------------------------------------------------------------------
(* Safety.                                                                 *)

\* No two calls of IB.place_order use one client order id, whatever the reply
\* to reqIds of one does to the counter of the other.
UniqueIds ==
    \A o1, o2 \in Orders : o1 # o2 /\ cid[o1] # NoId => cid[o1] # cid[o2]

\* Of an event that has not happened yet the budget is whole.
Unspent(e) == budget[e] = Budget[e]

\* No UPDATE or INSERT has failed so far, and no warning has carried the id of
\* an order: after either, a call may raise while its order works.
Calm == Unspent("warning") /\ Unspent("dbFault")

\* A place_order that raises leaves nothing behind that trades: whoever called
\* it may try again. No lost session, cancellation, restart or late report
\* changes that; only the two faults of Calm do.
NoOrphans ==
    Calm => \A o \in Orders :
                pc[o] = "failed" => Standing(o) \in {"none", "Cancelled", "Inactive"}

\* A row exists only for an order the broker has taken; a rejection never
\* leaves one.
RowsAcknowledged ==
    \A o \in Orders : Recorded(o) =>
        Standing(o) \in Live \cup {"Filled", "Cancelled"}

\* A row says Filled only of an order that traded, whatever was lost, reported
\* twice, restarted or given to two callers.
FilledIsReal ==
    \A o \in Orders : db[o].status = "FILLED" => Standing(o) = "Filled"

\* A row that says Filled keeps saying so, unless cancel_order overwrites it:
\* no report of an earlier state reaches it after the last one.
FilledRowsStay ==
    [][\A o \in Orders :
          db[o].status = "FILLED" /\ db'[o].status # "FILLED" =>
              cancelling = db[o].perm /\ cancelling' = NoId]_vars

-----------------------------------------------------------------------------
(* Liveness.                                                               *)

\* A row with a broker id comes to say how the order ended, and to stay so,
\* through lost races with cancel_order and restarts.
Settles ==
    \A o \in Orders : \A s \in {"Filled", "Cancelled"} :
        db[o].perm # NoId /\ Standing(o) = s
            ~> [](db[o].status = IB_STATUS_MAP[s])

\* place_order comes back.
PlaceReturns == \A o \in Orders : pc[o] \in Active ~> pc[o] \in Done

\* A row of a working order comes to say Submitted, the status by which
\* get_open_equity_orders and get_open_spread_orders find it.
WorkingRowsFound ==
    \A o \in Orders : db[o].perm # NoId /\ Standing(o) = "Submitted"
        ~> db[o].status = "SUBMITTED" \/ Standing(o) # "Submitted"

=============================================================================
