-------------------------- MODULE OrderFlow_proofs --------------------------
(***************************************************************************)
(* Theorems about OrderFlow for any orders, threads, ids and any number of  *)
(* faults, with their TLAPS proofs.                                         *)
(***************************************************************************)
EXTENDS OrderFlow, SequenceTheorems, TLAPS

-----------------------------------------------------------------------------
(* The messages, and what sending and receiving them does to the queue.    *)

\* Every status IB reports has an OrderStatus.
LEMMA StatusMapped ==
    ASSUME NEW s \in IBStatus
    PROVE  /\ IB_STATUS_MAP[s] \in OrderStatus
           /\ IB_STATUS_MAP[s] = "FILLED" => s = "Filled"
BY DEF IBStatus, OrderStatus, IB_STATUS_MAP

\* What the model's constructors build are messages.
LEMMA Messages ==
    /\ \A n \in 1 .. MaxId + 1 : NextId(n) \in Message
    /\ \A t \in Callback \cup {"completedOrder"} :
          \A c \in ClientId, s \in IBStatus : Msg(t, c, s) \in Message
    /\ \A c \in ClientId, code \in {"202", "399", "other"} :
          Error(c, code) \in Message
BY DEF Message, NextId, Msg, Error, Callback

\* The reports of a status are sequences of messages.
LEMMA Reports ==
    ASSUME NEW c \in ClientId, NEW s \in IBStatus
    PROVE  Both(c, s) \in Seq(Message) /\ Status(c, s) \in Seq(Message)
BY Messages DEF Both, Status, Callback

\* Delivering messages leaves a queue of messages.
LEMMA Delivered ==
    ASSUME TypeOK, NEW ms \in Seq(Message), Deliver(ms)
    PROVE  inbox' \in Seq(Message)
BY DEF TypeOK, Deliver

\* So does receiving one, and the one received is a message.
LEMMA Received ==
    ASSUME TypeOK, NEW t, Receive(t)
    PROVE  inbox' \in Seq(Message) /\ Head(inbox) \in Message
BY DEF TypeOK, Receive

\* A message of one of the callbacks names an order and a status.
LEMMA Fields ==
    ASSUME NEW m \in Message
    PROVE  /\ m.type = "nextValidId" => m.id \in 1 .. MaxId + 1
           /\ m.type # "nextValidId" => m.id \in ClientId
           /\ m.type \in Callback \cup {"completedOrder"} => m.status \in IBStatus
           /\ m.type = "error" => m.code \in {"202", "399", "other"}
BY DEF Message, Callback

-----------------------------------------------------------------------------
(* Type correctness.                                                       *)

\* What a changed row, or all rows of a broker id, may hold stays a row.
LEMMA RowsUpdated ==
    ASSUME TypeOK, NEW c, NEW s \in OrderStatus
    PROVE  UpdateRows(c, s) \in [Orders -> Row]
BY DEF TypeOK, UpdateRows, Row

\* Spending an event of the environment leaves a budget.
LEMMA Spent ==
    ASSUME TypeOK, NEW e \in Events, Spend(e)
    PROVE  budget' \in [Events -> Nat]
BY DEF TypeOK, Spend

\* A callback that notifies the database keeps its types, or ends the reader.
LEMMA Notified ==
    ASSUME TypeOK, NEW c, NEW s \in OrderStatus, Notify(c, s)
    PROVE  /\ db' \in [Orders -> Row]
           /\ connected' \in BOOLEAN /\ reader' \in BOOLEAN /\ clash' \in BOOLEAN
           /\ budget' \in [Events -> Nat]
<1>1. CASE db' = UpdateRows(c, s) /\ UNCHANGED <<session, budget>>
  BY <1>1, RowsUpdated DEF TypeOK, session
<1>2. CASE Spend("dbFault") /\ Die /\ UNCHANGED db
  BY <1>2, Spent DEF TypeOK, Die, Events
<1> QED BY <1>1, <1>2 DEF Notify

\* So does an entry that heard a callback.
LEMMA Heard ==
    ASSUME TypeOK, NEW c, NEW t \in Callback, NEW s \in OrderStatus,
           Hear(c, t, s)
    PROVE  open' \in [ClientId -> Entry]
BY DEF TypeOK, Hear, Entry

\* A call of place_order that has left "bump" has its client id: without this
\* it would look up an entry of open_orders that does not exist.
IdsAllocated ==
    \A o \in Orders : pc[o] \in Inside \cup {"read", "wait", "save"} =>
        cid[o] \in ClientId
TypeInv == TypeOK /\ IdsAllocated

LEMMA InitType == Init => TypeInv
<1> SUFFICES ASSUME Init PROVE TypeInv
  OBVIOUS
<1>1. inbox \in Seq(Message)
  <2>1. MaxId + 1 \in Nat /\ 1 \in 1 .. MaxId + 1
    BY OrderAssumption
  <2> QED BY <2>1, Messages DEF Init
<1>2. open \in [ClientId -> Entry]
  BY DEF Init, Entry, NoEntry, OrderStatus
<1>3. saw \in [Orders -> Row] /\ db \in [Orders -> Row]
  BY DEF Init, NoRow, Row, OrderStatus, NoId
<1>4. broker \in [ClientId -> BrokerState]
  BY DEF Init, BrokerState
<1>5. cid \in [Orders -> ClientId \cup {NoId}] /\ next \in 0 .. MaxId + 1
  BY OrderAssumption DEF Init, NoId
<1>6. pc \in [Orders -> {"idle"} \cup Active \cup Done] /\ IdsAllocated
  BY DEF Init, IdsAllocated, Inside
<1>7. obj \in [Orders -> Object] /\ budget \in [Events -> Nat]
  BY OrderAssumption DEF Init, Object
<1> QED BY <1>1, <1>2, <1>3, <1>4, <1>5, <1>6, <1>7 DEF Init, TypeInv, TypeOK

\* Every step of place_order keeps the types.
LEMMA PlaceType ==
    ASSUME TypeInv, NEW o \in Orders, PlaceCall(o) \/ PlaceStep(o)
    PROVE  TypeOK'
<1> USE DEF client, session, Goto, Active, Done, Inside
<1>0. TypeOK /\ IdsAllocated
  BY DEF TypeInv
<1>1. CASE PlaceCall(o)
  <2>1. pc' \in [Orders -> {"idle"} \cup Active \cup Done]
    <3>1. pc' = [pc EXCEPT ![o] = "bump"] \/ pc' = [pc EXCEPT ![o] = "failed"]
      BY <1>1 DEF PlaceCall
    <3> QED BY <1>0, <3>1 DEF TypeOK
  <2> QED BY <1>0, <1>1, <2>1 DEF TypeOK, PlaceCall
<1>2. CASE Bump(o)
  <2>1. next # NoId /\ next < MaxId => next + 1 \in ClientId
    BY <1>0, OrderAssumption DEF TypeOK, ClientId, NoId
  <2>2. next # NoId /\ next < MaxId => next + 1 \in 0 .. MaxId + 1
    BY <1>0, OrderAssumption DEF TypeOK, NoId
  <2> QED BY <1>0, <1>2, <2>1, <2>2 DEF TypeOK, Bump
<1>3. CASE Send(o)
  BY <1>0, <1>3 DEF TypeOK, Send, BrokerState
<1>4. CASE ReqIds(o)
  <2>1. PICK n \in 1 .. MaxId + 1 : Deliver(<<NextId(n)>>)
    BY <1>4 DEF ReqIds
  <2>2. inbox' \in Seq(Message)
    <3>1. <<NextId(n)>> \in Seq(Message)
      BY <2>1, Messages
    <3> QED BY <1>0, <2>1, <3>1, Delivered
  <2> QED BY <1>0, <1>4, <2>2 DEF TypeOK, ReqIds
<1>5. CASE Register(o)
  <2>1. open' \in [ClientId -> Entry]
    BY <1>0, <1>5 DEF TypeOK, Register, Entry, Placed, OrderStatus
  <2>2. obj' \in [Orders -> Object]
    BY <1>0, <1>5 DEF TypeOK, Register, Detach, Object
  <2>3. clash' \in BOOLEAN /\ budget' \in [Events -> Nat]
    <3>1. CASE UNCHANGED <<clash, budget>>
      BY <1>0, <3>1 DEF TypeOK
    <3>2. CASE Clashes(cid[o])
      BY <1>0, <3>2, Spent DEF Clashes, Events
    <3> QED BY <1>5, <3>1, <3>2 DEF Register
  <2> QED BY <1>0, <1>5, <2>1, <2>2, <2>3 DEF TypeOK, Register
<1>6. ASSUME NEW s \in OrderStatus, NEW p \in ClientId \cup {NoId},
             Judge(o, s, p)
      PROVE  /\ saw' \in [Orders -> Row]
             /\ pc' \in [Orders -> {"idle"} \cup Active \cup Done]
  <2>1. [status |-> s, perm |-> p] \in Row
    BY <1>6 DEF Row
  <2> QED BY <1>0, <1>6, <2>1 DEF TypeOK, Judge
<1>7. CASE Read(o)
  <2> DEFINE e == open[cid[o]]
  <2>1. CASE e = NoEntry
    <3>1. Goto(o, "failed") /\ UNCHANGED <<saw, obj>>
      BY <1>7, <2>1 DEF Read, NoEntry
    <3> QED BY <1>0, <1>7, <3>1 DEF TypeOK, Read
  <2>2. CASE e # NoEntry /\ e.status = "INIT"
    BY <1>0, <1>7, <2>2 DEF TypeOK, Read, Object
  <2>3. CASE e.status # "INIT" /\ e # NoEntry
    <3>1. cid[o] \in ClientId /\ e.status \in OrderStatus
      BY <1>0, <1>7 DEF IdsAllocated, Read, TypeOK, Entry
    <3>2. UNCHANGED obj
      BY <1>7, <2>3 DEF Read, NoEntry
    <3>3. /\ saw' \in [Orders -> Row]
          /\ pc' \in [Orders -> {"idle"} \cup Active \cup Done]
      BY <1>6, <1>7, <2>3, <3>1 DEF Read, NoEntry
    <3> QED BY <1>0, <1>7, <3>2, <3>3 DEF TypeOK, Read
  <2> QED BY <2>1, <2>2, <2>3
<1>8. CASE Wait(o)
  <2> DEFINE e == open[cid[o]]
  <2>1. cid[o] \in ClientId /\ e.status \in OrderStatus
    BY <1>0, <1>8 DEF IdsAllocated, Wait, TypeOK, Entry
  <2>2. /\ saw' \in [Orders -> Row]
        /\ pc' \in [Orders -> {"idle"} \cup Active \cup Done]
    <3>1. CASE Goto(o, "failed") /\ UNCHANGED saw
      BY <1>0, <3>1 DEF TypeOK
    <3>2. CASE Judge(o, e.status, cid[o])
      BY <1>6, <2>1, <3>2
    <3> QED BY <1>8, <3>1, <3>2 DEF Wait
  <2> QED BY <1>0, <1>8, <2>2 DEF TypeOK, Wait
<1>9. CASE Save(o)
  <2>1. db' \in [Orders -> Row]
    BY <1>0, <1>9 DEF Save, TypeOK
  <2>2. budget' \in [Events -> Nat]
    BY <1>0, <1>9, Spent DEF Save, Events, TypeOK
  <2>3. pc' \in [Orders -> {"idle"} \cup Active \cup Done]
    BY <1>0, <1>9 DEF Save, TypeOK
  <2> QED BY <1>0, <1>9, <2>1, <2>2, <2>3 DEF TypeOK, Save
<1> QED BY <1>1, <1>2, <1>3, <1>4, <1>5, <1>7, <1>8, <1>9 DEF PlaceStep

\* So does cancel_order.
LEMMA CancelType ==
    ASSUME TypeInv, CancelWrite \/ \E o \in Orders : CancelSend(o)
    PROVE  TypeOK'
<1> USE DEF place, client, session
<1>0. TypeOK
  BY DEF TypeInv
<1>1. ASSUME NEW o \in Orders, CancelSend(o) PROVE TypeOK'
  <2> DEFINE c == db[o].perm
  <2>1. c \in ClientId
    BY <1>0, <1>1 DEF CancelSend, TypeOK, Row
  <2>2. inbox' \in Seq(Message)
    <3>1. <<Error(c, "other")>> \in Seq(Message)
      BY <2>1, Messages
    <3>2. /\ <<Error(c, "202")>> \o Status(c, "Cancelled") \in Seq(Message)
          /\ Append(Status(c, "Cancelled"), Error(c, "202")) \in Seq(Message)
      <4>1. Error(c, "202") \in Message
        BY <2>1, Messages
      <4>2. Status(c, "Cancelled") \in Seq(Message)
        BY <2>1, Reports DEF IBStatus
      <4> QED BY <4>1, <4>2
    <3>3. Status(c, "PendingCancel") \in Seq(Message)
      BY <2>1, Reports DEF IBStatus
    <3>4. PICK ms \in Seq(Message) : Deliver(ms)
      BY <1>1, <3>1, <3>2, <3>3 DEF CancelSend, Cancelled
    <3> QED BY <1>0, <3>4, Delivered
  <2>3. broker' \in [ClientId -> BrokerState]
    BY <1>0, <1>1, <2>1 DEF CancelSend, Cancelled, TypeOK, BrokerState, IBStatus
  <2>4. budget' \in [Events -> Nat]
    BY <1>0, <1>1, Spent DEF CancelSend, Events
  <2> QED BY <1>0, <1>1, <2>1, <2>2, <2>3, <2>4 DEF CancelSend, TypeOK
<1>2. CASE CancelWrite
  <2>1. UpdateRows(cancelling, "CANCELLED") \in [Orders -> Row]
    BY <1>0, RowsUpdated DEF OrderStatus
  <2>2. db' \in [Orders -> Row]
    BY <1>0, <1>2, <2>1 DEF CancelWrite, TypeOK
  <2>3. budget' \in [Events -> Nat]
    BY <1>0, <1>2, Spent DEF CancelWrite, Events, TypeOK
  <2> QED BY <1>0, <1>2, <2>2, <2>3 DEF CancelWrite, TypeOK
<1> QED BY <1>1, <1>2

\* So does each callback, and the end of the reader.
LEMMA ReaderType ==
    ASSUME TypeInv, ReaderStep
    PROVE  TypeOK'
<1> USE DEF place, client, session
<1> DEFINE m == Head(inbox)
<1>0. TypeOK
  BY DEF TypeInv
<1>1. CASE nextValidId
  <2>1. inbox' \in Seq(Message) /\ m \in Message /\ m.type = "nextValidId"
    BY <1>0, <1>1, Received DEF nextValidId, Receive
  <2>2. m.id \in 0 .. MaxId + 1
    BY <2>1, Fields, OrderAssumption
  <2> QED BY <1>0, <1>1, <2>1, <2>2 DEF nextValidId, TypeOK
<1>2. CASE openOrder
  <2>1. inbox' \in Seq(Message) /\ m \in Message /\ m.type = "openOrder"
    BY <1>0, <1>2, Received DEF openOrder, Receive
  <2>2. m.id \in ClientId /\ IB_STATUS_MAP[m.status] \in OrderStatus
    BY <2>1, Fields, StatusMapped DEF Callback
  <2>3. open' \in [ClientId -> Entry]
    BY <1>0, <1>2, <2>2, Heard DEF openOrder, Callback
  <2>4. obj' \in [Orders -> Object]
    BY <1>0, <1>2 DEF openOrder, TypeOK, Object
  <2>5. /\ db' \in [Orders -> Row]
        /\ connected' \in BOOLEAN /\ reader' \in BOOLEAN /\ clash' \in BOOLEAN
        /\ budget' \in [Events -> Nat]
    <3>1. CASE UNCHANGED <<db, session, budget>>
      BY <1>0, <3>1 DEF TypeOK
    <3>2. CASE Notify(m.id, IB_STATUS_MAP[m.status])
      BY <1>0, <2>2, <3>2, Notified
    <3> QED BY <1>2, <3>1, <3>2 DEF openOrder
  <2> QED BY <1>0, <1>2, <2>1, <2>3, <2>4, <2>5 DEF openOrder, TypeOK
<1>3. CASE orderStatus
  <2>1. inbox' \in Seq(Message) /\ m \in Message /\ m.type = "orderStatus"
    BY <1>0, <1>3, Received DEF orderStatus, Receive
  <2>2. m.id \in ClientId /\ IB_STATUS_MAP[m.status] \in OrderStatus
    BY <2>1, Fields, StatusMapped DEF Callback
  <2>3. open' \in [ClientId -> Entry]
    BY <1>0, <1>3, <2>2, Heard DEF orderStatus, Callback
  <2>5. /\ db' \in [Orders -> Row]
        /\ connected' \in BOOLEAN /\ reader' \in BOOLEAN /\ clash' \in BOOLEAN
        /\ budget' \in [Events -> Nat]
    <3>1. CASE UNCHANGED <<db, session, budget>>
      BY <1>0, <3>1 DEF TypeOK
    <3>2. CASE Notify(m.id, IB_STATUS_MAP[m.status])
      BY <1>0, <2>2, <3>2, Notified
    <3>3. CASE Die /\ UNCHANGED <<db, budget>>
      BY <1>0, <3>3 DEF Die, TypeOK
    <3> QED BY <1>3, <3>1, <3>2, <3>3 DEF orderStatus
  <2> QED BY <1>0, <1>3, <2>1, <2>3, <2>5 DEF orderStatus, TypeOK
<1>4. CASE completedOrder
  <2>1. inbox' \in Seq(Message) /\ m \in Message /\ m.type = "completedOrder"
    BY <1>0, <1>4, Received DEF completedOrder, Receive
  <2>2. IB_STATUS_MAP[m.status] \in OrderStatus
    BY <2>1, Fields, StatusMapped
  <2>3. /\ db' \in [Orders -> Row]
        /\ connected' \in BOOLEAN /\ reader' \in BOOLEAN /\ clash' \in BOOLEAN
        /\ budget' \in [Events -> Nat]
    BY <1>0, <1>4, <2>2, Notified DEF completedOrder
  <2> QED BY <1>0, <1>4, <2>1, <2>3 DEF completedOrder, TypeOK
<1>5. CASE error
  <2>1. inbox' \in Seq(Message) /\ m \in Message
    BY <1>0, <1>5, Received DEF error
  <2>2. open' \in [ClientId -> Entry]
    <3>1. \/ UNCHANGED open
          \/ open' = [open EXCEPT ![m.id] = NoEntry]
          \/ \E s \in {"SUBMITTED", "REJECTED"} :
                open' = [open EXCEPT ![m.id].status = s]
      BY <1>5 DEF error
    <3>2. NoEntry \in Entry
      BY DEF NoEntry, Entry, OrderStatus
    <3>3. ASSUME NEW s \in {"SUBMITTED", "REJECTED"},
                 open' = [open EXCEPT ![m.id].status = s]
          PROVE  open' \in [ClientId -> Entry]
      <4>1. \A e \in Entry : [e EXCEPT !.status = s] \in Entry
        BY DEF Entry, OrderStatus
      <4>2. open \in [ClientId -> Entry]
        BY <1>0 DEF TypeOK
      <4>3. open' = [c \in ClientId |-> IF c = m.id THEN [open[c] EXCEPT !.status = s]
                                         ELSE open[c]]
        BY <3>3, <4>2
      <4> QED BY <4>1, <4>2, <4>3
    <3>4. open \in [ClientId -> Entry]
      BY <1>0 DEF TypeOK
    <3>5. CASE open' = [open EXCEPT ![m.id] = NoEntry]
      BY <3>2, <3>4, <3>5
    <3> QED BY <3>1, <3>3, <3>4, <3>5
  <2>3. obj' \in [Orders -> Object]
    BY <1>0, <1>5 DEF error, TypeOK, Detach, Object
  <2> QED BY <1>0, <1>5, <2>1, <2>2, <2>3 DEF error, TypeOK
<1>6. CASE ReaderExit \/ contractDetails
  BY <1>0, <1>6 DEF ReaderExit, contractDetails, Die, TypeOK
<1> QED BY <1>1, <1>2, <1>3, <1>4, <1>5, <1>6 DEF ReaderStep

\* So does whatever the broker does, and what it answers to a poll.
LEMMA BrokerType ==
    ASSUME TypeInv, NEW c \in ClientId, Broker(c) \/ Poll(c)
    PROVE  TypeOK'
<1> USE DEF Client, place, client, session
<1>0. TypeOK /\ \A s \in IBStatus : s \in BrokerState
  BY DEF TypeInv, BrokerState
<1>1. CASE Report(c)
  <2>1. PICK s \in IBStatus :
           /\ broker' = [broker EXCEPT ![c] = s]
           /\ Deliver(Both(c, s)) \/ Deliver(Status(c, s))
    BY <1>1 DEF Report, IBStatus
  <2>2. inbox' \in Seq(Message)
    BY <1>0, <2>1, Reports, Delivered
  <2> QED BY <1>0, <1>1, <2>1, <2>2 DEF Report, TypeOK
<1>2. CASE Fill(c)
  <2>1. inbox' \in Seq(Message) /\ "Filled" \in IBStatus
    BY <1>0, <1>2, Reports, Delivered DEF Fill, IBStatus
  <2> QED BY <1>0, <1>2, <2>1 DEF Fill, TypeOK
<1>3. CASE Reject(c)
  <2>1. /\ <<Msg("openOrder", c, "Inactive"), Error(c, "other")>> \in Seq(Message)
        /\ <<Error(c, "other")>> \in Seq(Message)
    <3>1. Msg("openOrder", c, "Inactive") \in Message /\ Error(c, "other") \in Message
      BY Messages DEF Callback, IBStatus
    <3> QED BY <3>1
  <2>2. inbox' \in Seq(Message) /\ "Inactive" \in IBStatus
    <3>1. \/ Deliver(<<Msg("openOrder", c, "Inactive"), Error(c, "other")>>)
          \/ Deliver(<<Error(c, "other")>>)
      BY <1>3 DEF Reject
    <3>2. inbox' \in Seq(Message)
      BY <1>0, <2>1, <3>1, Delivered
    <3> QED BY <3>2 DEF IBStatus
  <2> QED BY <1>0, <1>3, <2>2 DEF Reject, TypeOK
<1>4. CASE Warn(c)
  <2>1. inbox' \in Seq(Message)
    <3>1. PICK code \in {"399", "other"} : Deliver(<<Error(c, code)>>)
      BY <1>4 DEF Warn
    <3>2. <<Error(c, code)>> \in Seq(Message)
      BY Messages
    <3> QED BY <1>0, <3>1, <3>2, Delivered
  <2>2. budget' \in [Events -> Nat]
    BY <1>0, <1>4, Spent DEF Warn, Events
  <2> QED BY <1>0, <1>4, <2>1, <2>2 DEF Warn, TypeOK
<1>5. CASE Poll(c)
  <2>1. inbox' \in Seq(Message)
    <3>1. CASE /\ broker[c] \in Live
               /\ inbox' = inbox \o Both(c, broker[c])
      <4>1. Both(c, broker[c]) \in Seq(Message)
        BY <3>1, Reports DEF Live, IBStatus
      <4> QED BY <1>0, <3>1, <4>1 DEF TypeOK
    <3>2. CASE /\ broker[c] \in {"Filled", "Cancelled"}
               /\ inbox' = Append(inbox, Msg("completedOrder", c, broker[c]))
      <4>1. Msg("completedOrder", c, broker[c]) \in Message
        BY <3>2, Messages DEF IBStatus
      <4> QED BY <1>0, <3>2, <4>1 DEF TypeOK
    <3> QED BY <1>5, <3>1, <3>2 DEF Poll
  <2> QED BY <1>0, <1>5, <2>1 DEF Poll, TypeOK
<1>6. CASE Confirm(c)
  <2>1. /\ <<Error(c, "202")>> \o Status(c, "Cancelled") \in Seq(Message)
        /\ Append(Status(c, "Cancelled"), Error(c, "202")) \in Seq(Message)
    <3>1. Status(c, "Cancelled") \in Seq(Message) /\ Error(c, "202") \in Message
      BY Reports, Messages DEF IBStatus
    <3> QED BY <3>1
  <2>2. PICK ms \in Seq(Message) : Deliver(ms)
    BY <1>6, <2>1 DEF Confirm, Cancelled
  <2>3. inbox' \in Seq(Message) /\ "Cancelled" \in IBStatus
    BY <1>0, <2>2, Delivered DEF IBStatus
  <2> QED BY <1>0, <1>6, <2>3 DEF Confirm, Cancelled, TypeOK
<1> QED BY <1>1, <1>2, <1>3, <1>4, <1>5, <1>6 DEF Broker

\* So do the loss of the session, its return and the death of the process.
LEMMA SessionType ==
    ASSUME TypeInv, Drop \/ Reconnect \/ Restart
    PROVE  TypeOK'
<1> USE DEF place, client, session
<1>0. TypeOK
  BY DEF TypeInv
<1>1. CASE Drop
  <2>1. budget' \in [Events -> Nat]
    BY <1>0, <1>1, Spent DEF Drop, Events
  <2> QED BY <1>0, <1>1, <2>1 DEF Drop, TypeOK
<1>2. CASE Reconnect
  <2>1. PICK n \in 1 .. MaxId + 1 : inbox' = Append(inbox, NextId(n))
    BY <1>2 DEF Reconnect
  <2>2. inbox' \in Seq(Message)
    BY <1>0, <2>1, Messages DEF TypeOK
  <2> QED BY <1>0, <1>2, <2>2 DEF Reconnect, TypeOK
<1>3. CASE Restart
  <2>1. PICK n \in 1 .. MaxId + 1 : inbox' = <<NextId(n)>>
    BY <1>3 DEF Restart
  <2>2. inbox' \in Seq(Message)
    BY <2>1, Messages
  <2>3. /\ budget' \in [Events -> Nat]
        /\ open' \in [ClientId -> Entry]
        /\ obj' \in [Orders -> Object]
    BY <1>0, <1>3, Spent DEF Restart, Events, Entry, NoEntry, OrderStatus, Object
  <2>4. /\ pc' \in [Orders -> {"idle"} \cup Active \cup Done]
        /\ cid' \in [Orders -> ClientId \cup {NoId}]
    BY <1>0, <1>3 DEF Restart, TypeOK, Done
  <2>5. next' \in 0 .. MaxId + 1
    BY <1>3, OrderAssumption DEF Restart, NoId
  <2> QED BY <1>0, <1>3, <2>2, <2>3, <2>4, <2>5 DEF Restart, TypeOK
<1> QED BY <1>1, <1>2, <1>3

LEMMA AllocatedKept == TypeInv /\ [Next]_vars => IdsAllocated'
<1> SUFFICES ASSUME TypeInv, [Next]_vars PROVE IdsAllocated'
  OBVIOUS
<1> USE DEF Inside, Client, place, client, session, Goto
<1>0. TypeOK /\ IdsAllocated
  BY DEF TypeInv
<1>1. ASSUME NEW o \in Orders, PlaceCall(o) PROVE IdsAllocated'
  <2>1. \A p \in Orders : p # o => pc'[p] = pc[p]
    BY <1>0, <1>1 DEF PlaceCall, TypeOK
  <2>2. pc'[o] \in {"bump", "failed"} /\ UNCHANGED cid
    BY <1>0, <1>1 DEF PlaceCall, TypeOK
  <2> QED BY <1>0, <2>1, <2>2 DEF IdsAllocated
<1>2. ASSUME NEW o \in Orders, PlaceStep(o) PROVE IdsAllocated'
  <2>1. CASE Bump(o)
    <3>1. next # NoId /\ next < MaxId => next + 1 \in ClientId
      BY <1>0, OrderAssumption DEF TypeOK, ClientId, NoId
    <3> QED BY <1>0, <2>1, <3>1 DEF Bump, TypeOK, IdsAllocated
  <2>2. CASE Send(o) \/ ReqIds(o) \/ Register(o) \/ Save(o)
    BY <1>0, <2>2 DEF Send, ReqIds, Register, Save, TypeOK, IdsAllocated
  <2>3. CASE Read(o) \/ Wait(o)
    BY <1>0, <2>3 DEF Read, Wait, Judge, TypeOK, IdsAllocated
  <2> QED BY <1>2, <2>1, <2>2, <2>3 DEF PlaceStep
<1>3. ASSUME UNCHANGED <<pc, cid>> PROVE IdsAllocated'
  BY <1>0, <1>3 DEF IdsAllocated
<1>4. ASSUME NEW o \in Orders, CancelSend(o) PROVE UNCHANGED <<pc, cid>>
  BY <1>4 DEF CancelSend
<1>5. ASSUME ReaderStep PROVE UNCHANGED <<pc, cid>>
  BY <1>5 DEF ReaderStep, nextValidId, openOrder, orderStatus, completedOrder,
              error, contractDetails, Die, ReaderExit
<1>6. ASSUME NEW c \in ClientId, Broker(c) \/ Poll(c) PROVE UNCHANGED <<pc, cid>>
  BY <1>6 DEF Broker, Report, Confirm, Cancelled, Fill, Reject, Warn, Poll
<1>7. ASSUME Restart PROVE IdsAllocated'
  <2>1. \A o \in Orders : pc'[o] \notin Active /\ pc'[o] \notin {"send"}
    BY <1>0, <1>7 DEF Restart, TypeOK, Active
  <2> QED BY <2>1 DEF IdsAllocated, Active
<1>8. CASE Drop \/ Reconnect \/ UNCHANGED vars
  BY <1>3, <1>8 DEF Drop, Reconnect, vars
<1>9. CancelWrite => UNCHANGED <<pc, cid>>
  BY DEF CancelWrite
<1> QED BY <1>1, <1>2, <1>3, <1>4, <1>5, <1>6, <1>7, <1>8, <1>9 DEF Next

LEMMA TypeKept == TypeInv /\ [Next]_vars => TypeInv'
<1> SUFFICES ASSUME TypeInv, [Next]_vars PROVE TypeOK'
  BY AllocatedKept DEF TypeInv
<1>1. CASE UNCHANGED vars
  BY <1>1 DEF vars, TypeInv, TypeOK
<1>2. CASE Next
  BY <1>2, PlaceType, CancelType, ReaderType, BrokerType, SessionType DEF Next
<1> QED BY <1>1, <1>2

\* Every variable keeps its type: no callback, fault or restart leaves an order
\* id or a queue that the other parties could not read. A status is one of
\* OrderStatus or, of an order IB calls PendingCancel, the None that
\* IB_STATUS_MAP.get returns.
THEOREM TypeCorrect == Spec => []TypeOK
<1>1. Init => TypeInv
  BY InitType
<1>2. TypeInv /\ [Next]_vars => TypeInv'
  BY TypeKept
<1>3. TypeInv => TypeOK
  BY DEF TypeInv
<1> QED BY <1>1, <1>2, <1>3, PTL DEF Spec

-----------------------------------------------------------------------------
(* A row says Filled only of an order that traded. FilledIsReal is not      *)
(* inductive: the status travels from the broker through the queue, the     *)
(* entries of open_orders and the local variables of place_order to the row.*)

Reported == Callback \cup {"completedOrder"}
Honest(m, b) == m.type \in Reported /\ m.status = "Filled" => b[m.id] = "Filled"
AllHonest(ms, b) == \A i \in 1 .. Len(ms) : Honest(ms[i], b)

\* Every message under way and every entry that says filled is right.
ReportsReal ==
    /\ AllHonest(inbox, broker)
    /\ \A c \in ClientId : open[c].status = "FILLED" => broker[c] = "Filled"

\* So is what place_order is about to save, under the order's own id or none,
\* and so is the row, which exists only once the call is over.
OrderReal(o) ==
    /\ pc[o] \in {"idle"} \cup Active => db[o] = NoRow
    /\ pc[o] = "save" => /\ saw[o].perm \in {NoId, cid[o]}
                         /\ saw[o].status = "FILLED" => broker[cid[o]] = "Filled"
    /\ db[o].perm \in {NoId, cid[o]}
    /\ db[o].status = "FILLED" => Standing(o) = "Filled"
OrdersReal == \A o \in Orders : OrderReal(o)

FilledInv == TypeInv /\ ReportsReal /\ OrdersReal

LEMMA InitFilled == Init => FilledInv
<1> SUFFICES ASSUME Init PROVE FilledInv
  OBVIOUS
<1>1. ReportsReal
  BY DEF Init, ReportsReal, AllHonest, Honest, Reported, Callback, NextId, NoEntry
<1>2. OrdersReal
  BY DEF Init, OrdersReal, OrderReal, NoRow
<1> QED BY <1>1, <1>2, InitType DEF FilledInv

\* A fill is final: no step of any party takes it back.
LEMMA FillStays ==
    ASSUME TypeInv, [Next]_vars, NEW c \in ClientId, broker[c] = "Filled"
    PROVE  broker'[c] = "Filled"
<1> USE DEF TypeInv, TypeOK, Client, place, client, session
<1>1. ASSUME NEW o \in Orders, PlaceCall(o) \/ PlaceStep(o) PROVE broker'[c] = "Filled"
  BY <1>1 DEF PlaceCall, PlaceStep, Bump, Send, ReqIds, Register, Read, Wait, Save
<1>2. ASSUME NEW o \in Orders, CancelSend(o) PROVE broker'[c] = "Filled"
  BY <1>2 DEF CancelSend, Cancelled, Terminal
<1>3. CASE CancelWrite \/ ReaderStep
  BY <1>3 DEF CancelWrite, ReaderStep, nextValidId, openOrder, orderStatus,
              completedOrder, error, contractDetails, Die, ReaderExit
<1>4. ASSUME NEW d \in ClientId, Broker(d) \/ Poll(d) PROVE broker'[c] = "Filled"
  BY <1>4 DEF Broker, Report, Confirm, Cancelled, Fill, Reject, Warn, Poll
<1>5. CASE Drop \/ Reconnect \/ Restart \/ UNCHANGED vars
  BY <1>5 DEF Drop, Reconnect, Restart, vars
<1> QED BY <1>1, <1>2, <1>3, <1>4, <1>5 DEF Next

\* So a message that was honest when it was sent still is.
LEMMA HonestStays ==
    ASSUME TypeInv, [Next]_vars, NEW ms \in Seq(Message), AllHonest(ms, broker)
    PROVE  AllHonest(ms, broker')
<1> SUFFICES ASSUME NEW i \in 1 .. Len(ms), ms[i].type \in Reported,
                    ms[i].status = "Filled"
             PROVE  broker'[ms[i].id] = "Filled"
  BY DEF AllHonest, Honest
<1>1. ms[i] \in Message
  OBVIOUS
<1>2. ms[i].id \in ClientId
  BY <1>1, Fields DEF Reported, Callback
<1> QED BY <1>2, FillStays DEF AllHonest, Honest

\* The queue stays honest when honest messages join it or its head leaves.
LEMMA QueueHonest ==
    ASSUME TypeInv, AllHonest(inbox, broker), [Next]_vars,
           NEW ms \in Seq(Message), AllHonest(ms, broker'),
           inbox' \in {inbox, inbox \o ms, ms} \/ (inbox # <<>> /\ inbox' = Tail(inbox))
    PROVE  AllHonest(inbox', broker')
<1>1. inbox \in Seq(Message) /\ AllHonest(inbox, broker')
  BY HonestStays DEF TypeInv, TypeOK
<1>2. CASE inbox' \in {inbox, ms}
  BY <1>1, <1>2
<1>3. CASE inbox' = inbox \o ms
  BY <1>1, <1>3 DEF AllHonest
<1>4. CASE inbox # <<>> /\ inbox' = Tail(inbox)
  BY <1>1, <1>4 DEF AllHonest
<1> QED BY <1>2, <1>3, <1>4

\* The broker has taken the order and shown it.
Ack == Live \cup {"Filled", "Cancelled"}

\* An error other than 202 is about an order that is dead, or is the answer to the
\* cancellation of one that has a row, or a warning.
Other(c, b) == \/ b[c] \in {"Cancelled", "Inactive"}
               \/ \E p \in Orders : db[p].perm = c
               \/ Spend("warning")

\* A report says where the order stands when it is sent, 202 that it is cancelled,
\* and the warning 399 is about an order the broker has taken.
Fresh(m, b) ==
    /\ m.type \in Reported => m.status = b[m.id]
    /\ m.type = "error" => /\ m.code = "202" => b[m.id] = "Cancelled"
                           /\ m.code = "399" => b[m.id] \in Ack
                           /\ m.code = "other" => Other(m.id, b)
AllFresh(ms, b) == \A i \in 1 .. Len(ms) : Fresh(ms[i], b)

\* Each orderStatus comes right after the openOrder that shows its order.
Paired(ms) ==
    \A i \in 1 .. Len(ms) : ms[i].type = "orderStatus" =>
        i > 1 /\ ms[i - 1].type = "openOrder" /\ ms[i - 1].id = ms[i].id

\* What a step does to the queue: the reader takes its head, or fresh messages join it.
Queue ==
    \/ ReaderStep /\ inbox # <<>> /\ inbox' = Tail(inbox)
    \/ \E ms \in Seq(Message) :
          /\ AllFresh(ms, broker') /\ (StatusAlone \/ Paired(ms))
          /\ inbox' = inbox \o ms \/ inbox' = ms

\* No step does anything else to it.
LEMMA Queued ==
    ASSUME TypeInv, [Next]_vars
    PROVE  Queue
<1> USE DEF Client, place, client, session
<1>0. TypeOK /\ inbox \in Seq(Message)
  BY DEF TypeInv, TypeOK
<1>1. ASSUME UNCHANGED inbox PROVE Queue
  <2>1. <<>> \in Seq(Message) /\ AllFresh(<<>>, broker') /\ Paired(<<>>)
    BY DEF AllFresh, Paired
  <2>2. inbox' = inbox \o <<>>
    BY <1>0, <1>1
  <2> QED BY <2>1, <2>2 DEF Queue
<1>2. ASSUME NEW ms \in Seq(Message), AllFresh(ms, broker'),
             StatusAlone \/ Paired(ms),
             Deliver(ms) \/ inbox' = inbox \o ms \/ inbox' = ms
      PROVE  Queue
  BY <1>1, <1>2 DEF Deliver, Queue
<1>3. ASSUME NEW m \in Message, Fresh(m, broker')
      PROVE  /\ <<m>> \in Seq(Message) /\ AllFresh(<<m>>, broker')
             /\ m.type # "orderStatus" => Paired(<<m>>)
  BY <1>3 DEF AllFresh, Paired
<1>4. ASSUME NEW n \in 1 .. MaxId + 1
      PROVE  /\ <<NextId(n)>> \in Seq(Message) /\ AllFresh(<<NextId(n)>>, broker')
             /\ Paired(<<NextId(n)>>)
  <2>1. NextId(n) \in Message /\ Fresh(NextId(n), broker')
        /\ NextId(n).type # "orderStatus"
    BY Messages DEF Fresh, NextId, Reported, Callback
  <2> QED BY <1>3, <2>1
<1>5. ASSUME NEW c \in ClientId, NEW code \in {"202", "399", "other"},
             code = "202" => broker'[c] = "Cancelled",
             code = "399" => broker'[c] \in Ack,
             code = "other" => Other(c, broker')
      PROVE  /\ Error(c, code) \in Message /\ Fresh(Error(c, code), broker')
             /\ Error(c, code).type # "orderStatus"
  BY <1>5, Messages DEF Fresh, Error, Reported, Callback
<1>6. ASSUME NEW c \in ClientId, NEW t \in Reported, NEW s \in IBStatus,
             s = broker'[c]
      PROVE  /\ Msg(t, c, s) \in Message /\ Fresh(Msg(t, c, s), broker')
             /\ Msg(t, c, s).type = t
  BY <1>6, Messages DEF Fresh, Msg, Reported, Callback
<1>7. ASSUME NEW c \in ClientId, NEW s \in IBStatus, s = broker'[c]
      PROVE  /\ Both(c, s) \in Seq(Message) /\ AllFresh(Both(c, s), broker')
             /\ Paired(Both(c, s))
             /\ Status(c, s) \in Seq(Message) /\ AllFresh(Status(c, s), broker')
             /\ StatusAlone \/ Paired(Status(c, s))
  <2>1. /\ Fresh(Msg("openOrder", c, s), broker')
        /\ Fresh(Msg("orderStatus", c, s), broker')
    BY <1>6, <1>7 DEF Reported, Callback
  <2>2. Paired(Both(c, s))
    BY DEF Paired, Both, Msg
  <2>3. AllFresh(Both(c, s), broker') /\ AllFresh(Status(c, s), broker')
    BY <2>1 DEF Both, Status, AllFresh
  <2>4. Status(c, s) = Both(c, s) \/ StatusAlone
    BY DEF Status
  <2> QED BY <2>2, <2>3, <2>4, Reports
<1>8. ASSUME NEW o \in Orders, PlaceCall(o) \/ PlaceStep(o) PROVE Queue
  <2>1. CASE ReqIds(o)
    <3>1. PICK n \in 1 .. MaxId + 1 : Deliver(<<NextId(n)>>)
      BY <2>1 DEF ReqIds
    <3> QED BY <1>2, <1>4, <3>1
  <2>2. CASE UNCHANGED inbox
    BY <1>1, <2>2
  <2> QED BY <1>8, <2>1, <2>2 DEF PlaceStep, PlaceCall, Bump, Send, Register,
                                 Read, Wait, Save
<1>9. ASSUME NEW c \in ClientId, Cancelled(c) PROVE Queue
  <2>1. PICK e \in Message, w \in Seq(Message) :
           /\ e = Error(c, "202") /\ w = Status(c, "Cancelled")
           /\ Deliver(<<e>> \o w) \/ Deliver(Append(w, e))
    BY <1>9, Messages, Reports DEF Cancelled, IBStatus
  <2>2. broker'[c] = "Cancelled"
    BY <1>0, <1>9 DEF Cancelled, TypeOK
  <2>3. /\ Fresh(e, broker') /\ AllFresh(w, broker')
        /\ e.type # "orderStatus" /\ (StatusAlone \/ Paired(w))
    BY <1>5, <1>7, <2>1, <2>2 DEF IBStatus
  <2>4. /\ <<e>> \o w \in Seq(Message) /\ AllFresh(<<e>> \o w, broker')
        /\ Paired(w) => Paired(<<e>> \o w)
    <3>1. /\ <<e>> \o w \in Seq(Message) /\ AllFresh(<<e>> \o w, broker')
          /\ Len(<<e>> \o w) = Len(w) + 1 /\ (<<e>> \o w)[1] = e
          /\ \A i \in 2 .. Len(w) + 1 : (<<e>> \o w)[i] = w[i - 1]
      BY <2>3 DEF AllFresh
    <3> DEFINE q == <<e>> \o w
    <3> HIDE DEF q
    <3>2. Paired(w) => Paired(q)
      BY <2>3, <3>1 DEF Paired, q
    <3> QED BY <3>1, <3>2 DEF q
  <2>5. /\ Append(w, e) \in Seq(Message) /\ AllFresh(Append(w, e), broker')
        /\ Paired(w) => Paired(Append(w, e))
    BY <2>3 DEF AllFresh, Paired
  <2> QED BY <1>2, <2>1, <2>3, <2>4, <2>5
<1>10. ASSUME NEW o \in Orders, CancelSend(o) PROVE Queue
  <2> DEFINE c == db[o].perm
  <2>0. c \in ClientId
    BY <1>0, <1>10 DEF CancelSend, TypeOK, Row
  <2>1. CASE broker[c] \in Terminal
    <3>1. Deliver(<<Error(c, "other")>>) /\ Other(c, broker')
      BY <1>10, <2>1 DEF CancelSend, Other
    <3> QED BY <1>2, <1>3, <1>5, <2>0, <3>1
  <2>2. CASE Cancelled(c)
    BY <1>9, <2>0, <2>2
  <2>3. CASE /\ broker' = [broker EXCEPT ![c] = "PendingCancel"]
             /\ Deliver(Status(c, "PendingCancel"))
    <3>1. broker'[c] = "PendingCancel" /\ "PendingCancel" \in IBStatus
      BY <1>0, <2>0, <2>3 DEF TypeOK, IBStatus
    <3> QED BY <1>2, <1>7, <2>0, <2>3, <3>1
  <2> QED BY <1>10, <2>1, <2>2, <2>3 DEF CancelSend
<1>11. CASE CancelWrite \/ contractDetails \/ ReaderExit \/ Drop \/ UNCHANGED vars
  BY <1>1, <1>11 DEF CancelWrite, contractDetails, ReaderExit, Drop, vars
<1>12. CASE ReaderStep
  BY <1>11, <1>12 DEF ReaderStep, nextValidId, openOrder, orderStatus,
                      completedOrder, error, Receive, Queue
<1>13. ASSUME NEW c \in ClientId, Broker(c) \/ Poll(c) PROVE Queue
  <2>1. CASE Report(c) \/ Fill(c)
    <3>1. PICK s \in IBStatus :
             /\ broker' = [broker EXCEPT ![c] = s]
             /\ Deliver(Both(c, s)) \/ Deliver(Status(c, s))
      BY <2>1 DEF Report, Fill, IBStatus
    <3>2. broker'[c] = s
      BY <1>0, <3>1 DEF TypeOK
    <3> QED BY <1>2, <1>7, <3>1, <3>2
  <2>2. CASE Reject(c)
    <3> DEFINE m == Msg("openOrder", c, "Inactive")
    <3>0. broker'[c] = "Inactive"
      BY <1>0, <2>2 DEF Reject, TypeOK
    <3>1. /\ m \in Message /\ Fresh(m, broker') /\ m.type # "orderStatus"
          /\ Error(c, "other") \in Message /\ Fresh(Error(c, "other"), broker')
          /\ Error(c, "other").type # "orderStatus"
      BY <1>5, <1>6, <3>0 DEF IBStatus, Reported, Callback, Other
    <3>2. /\ <<m, Error(c, "other")>> \in Seq(Message)
          /\ AllFresh(<<m, Error(c, "other")>>, broker')
          /\ Paired(<<m, Error(c, "other")>>)
          /\ <<Error(c, "other")>> \in Seq(Message)
          /\ AllFresh(<<Error(c, "other")>>, broker') /\ Paired(<<Error(c, "other")>>)
      BY <3>1 DEF AllFresh, Paired
    <3>3. Deliver(<<m, Error(c, "other")>>) \/ Deliver(<<Error(c, "other")>>)
      BY <2>2 DEF Reject
    <3> QED BY <1>2, <3>2, <3>3
  <2>3. CASE Warn(c)
    <3>1. PICK code \in {"399", "other"} : Deliver(<<Error(c, code)>>)
      BY <2>3 DEF Warn
    <3>2. broker'[c] \in Ack /\ Other(c, broker')
      BY <2>3 DEF Warn, Ack, Spend, Other
    <3> QED BY <1>2, <1>3, <1>5, <3>1, <3>2
  <2>4. CASE Poll(c)
    <3>1. PICK s \in IBStatus :
             /\ s = broker'[c]
             /\ \/ inbox' = inbox \o Both(c, s)
                \/ inbox' = Append(inbox, Msg("completedOrder", c, s))
      BY <2>4 DEF Poll, Live, IBStatus
    <3>2. CASE inbox' = inbox \o Both(c, s)
      BY <1>2, <1>7, <3>1, <3>2
    <3>3. CASE inbox' = Append(inbox, Msg("completedOrder", c, s))
      <4>1. PICK m \in Message : /\ Fresh(m, broker') /\ m.type # "orderStatus"
                                 /\ inbox' = Append(inbox, m)
        BY <1>6, <3>1, <3>3 DEF Reported
      <4>2. inbox' = inbox \o <<m>>
        BY <1>0, <4>1
      <4> QED BY <1>2, <1>3, <4>1, <4>2
    <3> QED BY <3>1, <3>2, <3>3
  <2>5. CASE Confirm(c)
    BY <1>9, <2>5 DEF Confirm
  <2> QED BY <1>13, <2>1, <2>2, <2>3, <2>4, <2>5 DEF Broker
<1>14. CASE Reconnect
  <2>1. PICK n \in 1 .. MaxId + 1 : inbox' = Append(inbox, NextId(n))
    BY <1>14 DEF Reconnect
  <2>2. inbox' = inbox \o <<NextId(n)>>
    BY <1>0, <2>1, Messages
  <2> QED BY <1>2, <1>4, <2>2
<1>15. CASE Restart
  <2>1. PICK n \in 1 .. MaxId + 1 : inbox' = <<NextId(n)>>
    BY <1>15 DEF Restart
  <2> QED BY <1>2, <1>4, <2>1
<1> QED BY <1>8, <1>10, <1>11, <1>12, <1>13, <1>14, <1>15 DEF Next

\* So a step keeps the queue honest: only the broker speaks of a fill, of its own.
LEMMA QueueKept ==
    ASSUME FilledInv, [Next]_vars
    PROVE  AllHonest(inbox', broker')
<1>1. TypeInv /\ AllHonest(inbox, broker)
  BY DEF FilledInv, ReportsReal
<1>2. <<>> \in Seq(Message) /\ AllHonest(<<>>, broker')
  BY DEF AllHonest
<1>3. CASE inbox # <<>> /\ inbox' = Tail(inbox)
  BY <1>1, <1>2, <1>3, QueueHonest
<1>4. ASSUME NEW ms \in Seq(Message), AllFresh(ms, broker'),
             inbox' = inbox \o ms \/ inbox' = ms
      PROVE  AllHonest(inbox', broker')
  <2>1. AllHonest(ms, broker')
    BY <1>4 DEF AllFresh, Fresh, AllHonest, Honest
  <2> QED BY <1>1, <1>4, <2>1, QueueHonest
<1> QED BY <1>1, <1>3, <1>4, Queued DEF Queue

\* The message a callback receives has a true status.
LEMMA ReceivedHonest ==
    ASSUME FilledInv, NEW t \in Reported, Receive(t)
    PROVE  LET m == Head(inbox) IN
           /\ m.id \in ClientId
           /\ IB_STATUS_MAP[m.status] = "FILLED" => broker[m.id] = "Filled"
<1> DEFINE m == Head(inbox)
<1>1. inbox \in Seq(Message) /\ inbox # <<>> /\ m = inbox[1] /\ 1 \in 1 .. Len(inbox)
  BY DEF FilledInv, TypeInv, TypeOK, Receive
<1>2. m \in Message /\ m.type = t /\ Honest(m, broker)
  BY <1>1 DEF Receive, FilledInv, ReportsReal, AllHonest
<1>3. m.id \in ClientId /\ m.status \in IBStatus
  BY <1>2, Fields DEF Reported, Callback
<1> QED BY <1>2, <1>3, StatusMapped DEF Honest

\* A step keeps the entries of open_orders true: they fill only when told so.
LEMMA EntriesKept ==
    ASSUME FilledInv, [Next]_vars, NEW c \in ClientId, open'[c].status = "FILLED"
    PROVE  broker'[c] = "Filled"
<1> USE DEF Client, place, client, session
<1>0. TypeInv /\ TypeOK /\ (open[c].status = "FILLED" => broker[c] = "Filled")
  BY DEF FilledInv, TypeInv, ReportsReal
<1>1. ASSUME UNCHANGED open PROVE broker'[c] = "Filled"
  BY <1>0, <1>1, FillStays
<1>2. ASSUME NEW o \in Orders, Register(o) PROVE broker'[c] = "Filled"
  BY <1>0, <1>2, FillStays DEF Register, Placed, TypeOK
<1>3. ASSUME NEW t \in Callback, Receive(t), UNCHANGED broker,
             Hear(Head(inbox).id, t, IB_STATUS_MAP[Head(inbox).status])
      PROVE  broker'[c] = "Filled"
  <2>1. Head(inbox).id = c => open'[c].status = IB_STATUS_MAP[Head(inbox).status]
    BY <1>0, <1>3 DEF Hear, TypeOK
  <2>2. Head(inbox).id # c => open'[c] = open[c]
    BY <1>0, <1>3 DEF Hear, TypeOK
  <2> QED BY <1>0, <1>3, <2>1, <2>2, ReceivedHonest DEF Reported
<1>4. CASE openOrder \/ orderStatus
  BY <1>3, <1>4 DEF openOrder, orderStatus, Callback
<1>5. CASE error
  <2>1. open'[c] = open[c] \/ open'[c].status # "FILLED"
    BY <1>0, <1>5 DEF error, TypeOK, NoEntry, Entry
  <2> QED BY <1>0, <2>1, FillStays
<1>6. CASE Restart
  BY <1>6 DEF Restart, NoEntry
<1>7. CASE nextValidId \/ completedOrder \/ contractDetails \/ ReaderExit
           \/ CancelWrite \/ Drop
           \/ Reconnect \/ UNCHANGED vars
  BY <1>1, <1>7 DEF nextValidId, completedOrder, contractDetails,
                    ReaderExit, CancelWrite, Drop,
                    Reconnect, vars
<1>8. ASSUME NEW d \in ClientId, Broker(d) \/ Poll(d) PROVE broker'[c] = "Filled"
  BY <1>1, <1>8 DEF Broker, Report, Confirm, Cancelled, Fill, Reject, Warn, Poll
<1>9. ASSUME NEW o \in Orders, PlaceCall(o) \/ PlaceStep(o) \/ CancelSend(o)
      PROVE  broker'[c] = "Filled"
  BY <1>1, <1>2, <1>9 DEF PlaceCall, PlaceStep, Bump, Send, ReqIds, Read, Wait,
                          Save, CancelSend
<1> QED BY <1>4, <1>5, <1>6, <1>7, <1>8, <1>9 DEF Next, ReaderStep

\* An order nothing happened to stays true.
LEMMA Untouched ==
    ASSUME FilledInv, [Next]_vars, NEW o \in Orders,
           UNCHANGED <<pc[o], cid[o], saw[o], db[o]>>
    PROVE  OrderReal(o)'
<1>1. TypeInv /\ OrderReal(o) /\ cid[o] \in ClientId \cup {NoId}
  BY DEF FilledInv, OrdersReal, TypeInv, TypeOK
<1>2. pc[o] = "save" => cid[o] \in ClientId
  BY <1>1 DEF TypeInv, IdsAllocated
<1> QED BY <1>1, <1>2, FillStays DEF OrderReal, Standing

\* A notification writes a true status into the rows of one broker id.
LEMMA RowsNotified ==
    ASSUME FilledInv, UNCHANGED <<pc, cid, saw, broker>>, NEW c \in ClientId,
           NEW s \in OrderStatus, s = "FILLED" => broker[c] = "Filled",
           db' \in {db, UpdateRows(c, s)}
    PROVE  OrdersReal'
<1> SUFFICES ASSUME NEW o \in Orders PROVE OrderReal(o)'
  BY DEF OrdersReal
<1>1. TypeOK /\ OrderReal(o) /\ NoId \notin ClientId
  BY DEF FilledInv, OrdersReal, TypeInv, NoId, ClientId
<1>2. CASE UNCHANGED db[o]
  BY <1>1, <1>2 DEF OrderReal, Standing
<1>3. CASE db' = UpdateRows(c, s) /\ db[o].perm = c
  <2>1. db'[o].perm = c /\ db'[o].status = s
    BY <1>1, <1>3 DEF UpdateRows, TypeOK, Row
  <2>2. cid[o] = c /\ db[o] # NoRow
    BY <1>1, <1>3 DEF OrderReal, NoRow
  <2> QED BY <1>1, <2>1, <2>2 DEF OrderReal, Standing
<1> QED BY <1>1, <1>2, <1>3 DEF UpdateRows, TypeOK

\* A step of place_order keeps every order true: it saves what it has read.
LEMMA PlaceKept ==
    ASSUME FilledInv, [Next]_vars, NEW o \in Orders, PlaceCall(o) \/ PlaceStep(o)
    PROVE  OrdersReal'
<1> USE DEF client, session, Goto, Active, Inside
<1>0. /\ TypeOK /\ IdsAllocated /\ OrderReal(o) /\ NoId \notin ClientId
      /\ \A c \in ClientId : open[c].status = "FILLED" => broker[c] = "Filled"
      /\ \A c \in ClientId : broker[c] = "Filled" => broker'[c] = "Filled"
  BY FillStays DEF FilledInv, OrdersReal, TypeInv, ReportsReal, NoId, ClientId
<1>1. ASSUME NEW p \in Orders, p # o PROVE OrderReal(p)'
  <2>1. UNCHANGED <<pc[p], cid[p], saw[p], db[p]>>
    BY <1>0, <1>1 DEF PlaceCall, PlaceStep, Bump, Send, ReqIds, Register, Read,
                      Wait, Save, Judge, TypeOK
  <2> QED BY <2>1, Untouched
<1>2. CASE PlaceCall(o) \/ Bump(o) \/ Send(o) \/ ReqIds(o) \/ Register(o)
  <2>1. db[o] = NoRow /\ UNCHANGED db /\ pc'[o] # "save"
    BY <1>0, <1>2 DEF OrderReal, PlaceCall, Bump, Send, ReqIds, Register, TypeOK
  <2>2. OrderReal(o)'
    BY <2>1 DEF OrderReal, NoRow
  <2> QED BY <1>1, <2>2 DEF OrdersReal
<1>3. ASSUME cid[o] \in ClientId, db[o] = NoRow, UNCHANGED <<cid, db, broker>>,
             NEW s \in OrderStatus, NEW p \in {NoId, cid[o]}, Judge(o, s, p),
             s = "FILLED" => broker[cid[o]] = "Filled"
      PROVE  OrderReal(o)'
  <2>1. CASE pc' = [pc EXCEPT ![o] = "failed"]
    <3>1. pc'[o] = "failed"
      BY <1>0, <2>1 DEF TypeOK
    <3> QED BY <1>3, <3>1 DEF OrderReal, NoRow
  <2>2. CASE /\ pc' = [pc EXCEPT ![o] = "save"]
             /\ saw' = [saw EXCEPT ![o] = [status |-> s, perm |-> p]]
    <3>1. saw'[o] = [status |-> s, perm |-> p]
      BY <1>0, <2>2 DEF TypeOK
    <3> QED BY <1>3, <3>1 DEF OrderReal, NoRow
  <2> QED BY <1>3, <2>1, <2>2 DEF Judge
<1>4. CASE Read(o)
  <2> DEFINE e == open[cid[o]]
  <2>1. /\ cid[o] \in ClientId /\ db[o] = NoRow /\ UNCHANGED <<cid, db, broker>>
        /\ e.status \in OrderStatus
        /\ e.status = "FILLED" => broker[cid[o]] = "Filled"
    BY <1>0, <1>4 DEF Read, IdsAllocated, OrderReal, TypeOK, Entry
  <2>2. CASE Goto(o, "failed") \/ Goto(o, "wait")
    <3>1. pc'[o] # "save"
      BY <1>0, <2>2 DEF TypeOK
    <3>2. OrderReal(o)'
      BY <2>1, <3>1 DEF OrderReal, NoRow
    <3> QED BY <1>1, <3>2 DEF OrdersReal
  <2>3. CASE Judge(o, e.status, IF "orderStatus" \in e.heard THEN cid[o] ELSE NoId)
    BY <1>1, <1>3, <2>1, <2>3 DEF OrdersReal
  <2> QED BY <1>4, <2>2, <2>3 DEF Read
<1>5. CASE Wait(o)
  <2> DEFINE e == open[cid[o]]
  <2>1. /\ cid[o] \in ClientId /\ db[o] = NoRow /\ UNCHANGED <<cid, db, broker>>
        /\ e.status \in OrderStatus
        /\ e.status = "FILLED" => broker[cid[o]] = "Filled"
    BY <1>0, <1>5 DEF Wait, IdsAllocated, OrderReal, TypeOK, Entry
  <2>2. CASE Goto(o, "failed")
    <3>1. pc'[o] # "save"
      BY <1>0, <2>2 DEF TypeOK
    <3>2. OrderReal(o)'
      BY <2>1, <3>1 DEF OrderReal, NoRow
    <3> QED BY <1>1, <3>2 DEF OrdersReal
  <2>3. CASE Judge(o, e.status, cid[o])
    BY <1>1, <1>3, <2>1, <2>3 DEF OrdersReal
  <2> QED BY <1>5, <2>2, <2>3 DEF Wait
<1>6. CASE Save(o)
  <2>1. pc[o] = "save" /\ pc'[o] \in {"recorded", "failed"} /\ UNCHANGED <<cid, broker>>
    BY <1>0, <1>6 DEF Save, TypeOK
  <2>2. db'[o] = saw[o] \/ (db'[o] = db[o] /\ db[o] = NoRow)
    BY <1>0, <1>6, <2>1 DEF Save, OrderReal, TypeOK
  <2>3. cid[o] \in ClientId
    BY <1>0, <2>1 DEF IdsAllocated
  <2>4. OrderReal(o)'
    BY <1>0, <2>1, <2>2, <2>3 DEF OrderReal, NoRow, Standing
  <2> QED BY <1>1, <2>4 DEF OrdersReal
<1> QED BY <1>2, <1>4, <1>5, <1>6 DEF PlaceStep

\* So does every step of the other parties.
LEMMA OthersKept ==
    ASSUME FilledInv, [Next]_vars,
           \A o \in Orders : ~PlaceCall(o) /\ ~PlaceStep(o)
    PROVE  OrdersReal'
<1> USE DEF Client, place, client, session
<1>0. TypeOK
  BY DEF FilledInv, TypeInv
<1>1. ASSUME UNCHANGED <<pc, cid, saw, db>> PROVE OrdersReal'
  BY <1>1, Untouched DEF OrdersReal
<1>2. ASSUME NEW t \in Reported, Receive(t), UNCHANGED <<pc, cid, saw, broker>>,
             Notify(Head(inbox).id, IB_STATUS_MAP[Head(inbox).status])
      PROVE  OrdersReal'
  <2> DEFINE m == Head(inbox)
  <2>1. /\ m.id \in ClientId /\ IB_STATUS_MAP[m.status] \in OrderStatus
        /\ IB_STATUS_MAP[m.status] = "FILLED" => broker[m.id] = "Filled"
    <3>1. m \in Message /\ m.type = t
      BY <1>0, <1>2, Received DEF Receive
    <3> QED BY <1>2, <3>1, Fields, StatusMapped, ReceivedHonest DEF Reported, Callback
  <2>2. db' \in {db, UpdateRows(m.id, IB_STATUS_MAP[m.status])}
    BY <1>2 DEF Notify
  <2> QED BY <1>2, <2>1, <2>2, RowsNotified
<1>3. CASE ReaderStep
  BY <1>1, <1>2, <1>3 DEF ReaderStep, nextValidId, openOrder, orderStatus,
                          completedOrder, error, contractDetails, Die,
                          ReaderExit, Reported, Callback
<1>4. CASE CancelWrite
  <2>1. CASE db' = UpdateRows(cancelling, "CANCELLED")
    <3> SUFFICES ASSUME NEW o \in Orders PROVE OrderReal(o)'
      BY DEF OrdersReal
    <3>1. OrderReal(o) /\ UNCHANGED <<pc, cid, saw, broker>>
      BY <1>4 DEF FilledInv, OrdersReal, CancelWrite
    <3>2. \/ db'[o] = db[o]
          \/ db'[o].perm = db[o].perm /\ db'[o].status = "CANCELLED" /\ db[o] # NoRow
      BY <1>0, <1>4, <2>1 DEF CancelWrite, UpdateRows, TypeOK, Row, NoRow
    <3> QED BY <3>1, <3>2 DEF OrderReal, Standing
  <2>2. CASE UNCHANGED db
    BY <1>1, <1>4, <2>2 DEF CancelWrite
  <2> QED BY <1>4, <2>1, <2>2 DEF CancelWrite
<1>5. ASSUME NEW o \in Orders, CancelSend(o) PROVE OrdersReal'
  BY <1>1, <1>5 DEF CancelSend
<1>6. ASSUME NEW c \in ClientId, Broker(c) \/ Poll(c) PROVE OrdersReal'
  BY <1>1, <1>6 DEF Broker, Report, Confirm, Cancelled, Fill, Reject, Warn, Poll
<1>7. CASE Drop \/ Reconnect \/ UNCHANGED vars
  BY <1>1, <1>7 DEF Drop, Reconnect, vars
<1>8. CASE Restart
  <2> SUFFICES ASSUME NEW o \in Orders PROVE OrderReal(o)'
    BY DEF OrdersReal
  <2>1. OrderReal(o) /\ UNCHANGED <<saw, db, broker>>
    BY <1>8 DEF FilledInv, OrdersReal, Restart
  <2>2. CASE pc[o] \in Active
    <3>1. pc'[o] = "lost" /\ db[o] = NoRow
      BY <1>0, <1>8, <2>1, <2>2 DEF Restart, OrderReal, TypeOK
    <3> QED BY <2>1, <3>1 DEF OrderReal, NoRow, Active, Inside
  <2>3. CASE pc[o] \notin Active
    <3>1. UNCHANGED <<pc[o], cid[o]>>
      BY <1>0, <1>8, <2>3 DEF Restart, TypeOK
    <3> QED BY <2>1, <3>1, Untouched
  <2> QED BY <2>2, <2>3
<1> QED BY <1>3, <1>4, <1>5, <1>6, <1>7, <1>8 DEF Next

LEMMA FilledKept == FilledInv /\ [Next]_vars => FilledInv'
<1> SUFFICES ASSUME FilledInv, [Next]_vars PROVE FilledInv'
  OBVIOUS
<1>1. TypeInv'
  BY TypeKept DEF FilledInv
<1>2. ReportsReal'
  BY QueueKept, EntriesKept DEF ReportsReal
<1>3. OrdersReal'
  BY PlaceKept, OthersKept
<1> QED BY <1>1, <1>2, <1>3 DEF FilledInv

\* A row says Filled only of an order that traded: for any number of orders,
\* threads, lost sessions, restarts, faults and cancellations, and even when
\* two calls share a client id.
THEOREM FilledRowsAreReal == Spec => []FilledIsReal
<1>1. Init => FilledInv
  BY InitFilled
<1>2. FilledInv /\ [Next]_vars => FilledInv'
  BY FilledKept
<1>3. FilledInv => FilledIsReal
  BY DEF FilledInv, OrdersReal, OrderReal, FilledIsReal
<1> QED BY <1>1, <1>2, <1>3, PTL DEF Spec

=============================================================================
