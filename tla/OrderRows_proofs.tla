-------------------------- MODULE OrderRows_proofs --------------------------
(***************************************************************************)
(* What the rows of OrderFlow say, proved for any orders, threads, ids and  *)
(* any number of faults: only an order that the broker has taken has a row, *)
(* and no report of an earlier state reaches a row that says Filled. And    *)
(* where calls do not share client ids, as long as no UPDATE has failed and *)
(* no warning has come: a call that raises leaves nothing that trades, and  *)
(* OrderFlow implements OrderLedger. Last, why they do not share them while *)
(* the session stays up, and what keeps it up.                              *)
(***************************************************************************)
EXTENDS OrderFlow_proofs

-----------------------------------------------------------------------------
(* The way of a status: from the broker through the queue, the entries of   *)
(* open_orders and what place_order has read, to the row.                   *)

\* A report of another status than Inactive, and the warning 399, are about
\* orders the broker has taken.
Told(m, b) ==
    /\ m.type \in Reported /\ m.status # "Inactive" => b[m.id] \in Ack
    /\ m.type = "error" /\ m.code = "399" => b[m.id] \in Ack
AllTold(ms, b) == \A i \in 1 .. Len(ms) : Told(ms[i], b)

\* All that is still to be heard of order c is that it was filled.
Final(m, c) == m.type \in Reported /\ m.id = c => m.status = "Filled"
Late(c, q) == \A i \in 1 .. Len(q) : Final(q[i], c)

\* After the fill of an order no earlier status of it comes.
Ordered(q) ==
    \A i, j \in 1 .. Len(q) :
        i < j /\ q[i].type \in Reported /\ q[i].status = "Filled"
            => Final(q[j], q[i].id)

\* What open_orders says of order c.
EntryTrue(c) ==
    /\ open[c].status \notin {"INIT", "REJECTED"} => broker[c] \in Ack
    /\ open[c].status = "FILLED" => Late(c, inbox)

\* What place_order has read and is about to save, and what it has saved.
OrderTrue(o) ==
    /\ pc[o] = "save" => /\ saw[o].status \notin {"INIT", "REJECTED"}
                         /\ broker[cid[o]] \in Ack
                         /\ saw[o].status = "FILLED" => Late(cid[o], inbox)
    /\ Recorded(o) => cid[o] # NoId /\ broker[cid[o]] \in Ack
    /\ db[o].status = "FILLED" => Late(cid[o], inbox)

RowsInv == /\ FilledInv
           /\ AllTold(inbox, broker) /\ Ordered(inbox)
           /\ \A c \in ClientId : EntryTrue(c)
           /\ \A o \in Orders : OrderTrue(o)

LEMMA InitRows == Init => RowsInv
<1> SUFFICES ASSUME Init PROVE RowsInv
  OBVIOUS
<1>1. Len(inbox) = 1 /\ inbox[1] = NextId(1)
  BY DEF Init
<1>2. AllTold(inbox, broker) /\ Ordered(inbox)
  BY <1>1 DEF AllTold, Told, Ordered, Reported, Callback, NextId
<1>3. ASSUME NEW c \in ClientId PROVE EntryTrue(c)
  BY DEF Init, EntryTrue, NoEntry
<1>4. ASSUME NEW o \in Orders PROVE OrderTrue(o)
  BY DEF Init, OrderTrue, NoRow, Recorded
<1> QED BY <1>2, <1>3, <1>4, InitFilled DEF RowsInv

\* An order the broker has taken may be filled or cancelled, no more.
LEMMA AckStays ==
    ASSUME TypeInv, [Next]_vars, NEW c \in ClientId, broker[c] \in Ack
    PROVE  broker'[c] \in Ack
<1> USE DEF TypeInv, TypeOK, Client, place, client, session, Ack, Live
<1>1. ASSUME NEW o \in Orders, PlaceCall(o) \/ PlaceStep(o) PROVE broker'[c] \in Ack
  BY <1>1 DEF PlaceCall, PlaceStep, Bump, Send, ReqIds, Register, Read, Wait, Save
<1>2. ASSUME NEW o \in Orders, CancelSend(o) PROVE broker'[c] \in Ack
  BY <1>2 DEF CancelSend, Cancelled, Terminal
<1>3. CASE CancelWrite \/ ReaderStep
  BY <1>3 DEF CancelWrite, ReaderStep, nextValidId, openOrder, orderStatus,
              completedOrder, error, contractDetails, Die, ReaderExit
<1>4. ASSUME NEW d \in ClientId, Broker(d) \/ Poll(d) PROVE broker'[c] \in Ack
  BY <1>4 DEF Broker, Report, Confirm, Cancelled, Fill, Reject, Warn, Poll
<1>5. CASE Drop \/ Reconnect \/ Restart \/ UNCHANGED vars
  BY <1>5 DEF Drop, Reconnect, Restart, vars
<1> QED BY <1>1, <1>2, <1>3, <1>4, <1>5 DEF Next

\* What is fresh is true.
LEMMA FreshTold ==
    ASSUME NEW ms \in Seq(Message), NEW b \in [ClientId -> BrokerState],
           AllFresh(ms, b)
    PROVE  AllTold(ms, b)
<1> SUFFICES ASSUME NEW i \in 1 .. Len(ms) PROVE Told(ms[i], b)
  BY DEF AllTold
<1>1. Fresh(ms[i], b) /\ ms[i] \in Message
  BY DEF AllFresh
<1>2. ms[i].type \in Reported => ms[i].status \in IBStatus
  BY <1>1, Fields DEF Reported, Callback
<1> QED BY <1>1, <1>2 DEF Told, Fresh, IBStatus, Ack, Live

\* The queue stays true.
LEMMA ToldKept ==
    ASSUME RowsInv, [Next]_vars
    PROVE  AllTold(inbox', broker')
<1>0. TypeInv /\ TypeOK /\ inbox \in Seq(Message) /\ AllTold(inbox, broker)
  BY DEF RowsInv, FilledInv, TypeInv, TypeOK
<1>1. broker' \in [ClientId -> BrokerState]
  BY <1>0, TypeKept DEF TypeInv, TypeOK
<1>2. AllTold(inbox, broker')
  <2> SUFFICES ASSUME NEW i \in 1 .. Len(inbox) PROVE Told(inbox[i], broker')
    BY DEF AllTold
  <2>1. inbox[i] \in Message /\ Told(inbox[i], broker)
    BY <1>0 DEF AllTold
  <2>2. inbox[i].type \in Reported \cup {"error"} => inbox[i].id \in ClientId
    BY <2>1, Fields DEF Reported, Callback
  <2> QED BY <1>0, <2>1, <2>2, AckStays DEF Told
<1>3. CASE inbox # <<>> /\ inbox' = Tail(inbox)
  BY <1>0, <1>2, <1>3 DEF AllTold
<1>4. ASSUME NEW ms \in Seq(Message), AllFresh(ms, broker'),
             inbox' = inbox \o ms \/ inbox' = ms
      PROVE  AllTold(inbox', broker')
  <2>1. AllTold(ms, broker')
    BY <1>1, <1>4, FreshTold
  <2>2. CASE inbox' = inbox \o ms
    BY <1>0, <1>2, <2>1, <2>2 DEF AllTold
  <2>3. CASE inbox' = ms
    BY <2>1, <2>3
  <2> QED BY <1>4, <2>2, <2>3
<1> QED BY <1>0, <1>3, <1>4, Queued DEF Queue

\* Nothing but its fill is said of a filled order from now on.
LEMMA FreshFinal ==
    ASSUME NEW ms \in Seq(Message), NEW b, AllFresh(ms, b), NEW c,
           b[c] = "Filled"
    PROVE  Late(c, ms)
BY DEF AllFresh, Fresh, Late, Final

LEMMA LateStays ==
    ASSUME TypeInv, [Next]_vars, NEW c \in ClientId, Late(c, inbox),
           broker[c] = "Filled"
    PROVE  Late(c, inbox')
<1>0. inbox \in Seq(Message) /\ broker'[c] = "Filled"
  BY FillStays DEF TypeInv, TypeOK
<1>1. CASE inbox # <<>> /\ inbox' = Tail(inbox)
  BY <1>0, <1>1 DEF Late
<1>2. ASSUME NEW ms \in Seq(Message), AllFresh(ms, broker'),
             inbox' = inbox \o ms \/ inbox' = ms
      PROVE  Late(c, inbox')
  <2>1. Late(c, ms)
    BY <1>0, <1>2, FreshFinal
  <2>2. CASE inbox' = inbox \o ms
    BY <1>0, <2>1, <2>2 DEF Late
  <2>3. CASE inbox' = ms
    BY <2>1, <2>3
  <2> QED BY <1>2, <2>2, <2>3
<1> QED BY <1>1, <1>2, Queued DEF Queue

\* The queue stays in order.
LEMMA OrderedKept ==
    ASSUME RowsInv, [Next]_vars
    PROVE  Ordered(inbox')
<1>0. TypeInv /\ inbox \in Seq(Message) /\ Ordered(inbox) /\ AllHonest(inbox, broker')
  BY HonestStays DEF RowsInv, FilledInv, ReportsReal, TypeInv, TypeOK
<1>1. CASE inbox # <<>> /\ inbox' = Tail(inbox)
  BY <1>0, <1>1 DEF Ordered
<1>2. ASSUME NEW ms \in Seq(Message), AllFresh(ms, broker'),
             inbox' = inbox \o ms \/ inbox' = ms
      PROVE  Ordered(inbox')
  <2>1. ASSUME NEW m, m.type \in Reported, m.status = "Filled",
               Honest(m, broker') \/ Fresh(m, broker')
        PROVE  Late(m.id, ms)
    <3>1. broker'[m.id] = "Filled"
      BY <2>1 DEF Honest, Fresh
    <3> QED BY <1>2, <3>1, FreshFinal
  <2>2. Ordered(ms)
    BY <1>2, <2>1 DEF Ordered, AllFresh, Late
  <2>3. ASSUME inbox' = inbox \o ms,
               NEW i \in 1 .. Len(inbox'), NEW j \in 1 .. Len(inbox'), i < j,
               inbox'[i].type \in Reported, inbox'[i].status = "Filled"
        PROVE  Final(inbox'[j], inbox'[i].id)
    <3>0. /\ Len(inbox') = Len(inbox) + Len(ms)
          /\ \A k \in 1 .. Len(inbox) : inbox'[k] = inbox[k]
          /\ \A k \in 1 .. Len(inbox') : k > Len(inbox) =>
                k - Len(inbox) \in 1 .. Len(ms) /\ inbox'[k] = ms[k - Len(inbox)]
      BY <1>0, <2>3
    <3>1. CASE j <= Len(inbox)
      <4>1. i \in 1 .. Len(inbox) /\ j \in 1 .. Len(inbox)
        BY <1>0, <2>3, <3>1
      <4> QED BY <1>0, <2>3, <3>0, <4>1 DEF Ordered
    <3>2. CASE j > Len(inbox) /\ i <= Len(inbox)
      <4>1. i \in 1 .. Len(inbox) /\ inbox'[i] = inbox[i]
        BY <1>0, <2>3, <3>0, <3>2
      <4>2. Honest(inbox'[i], broker')
        BY <1>0, <4>1 DEF AllHonest
      <4>3. Late(inbox'[i].id, ms)
        BY <2>1, <2>3, <4>2
      <4> QED BY <3>0, <3>2, <4>3 DEF Late
    <3>3. CASE j > Len(inbox) /\ i > Len(inbox)
      <4> DEFINE k == i - Len(inbox)  l == j - Len(inbox)
      <4>1. k \in 1 .. Len(ms) /\ l \in 1 .. Len(ms) /\ k < l
        BY <1>0, <2>3, <3>0, <3>3
      <4>2. inbox'[i] = ms[k] /\ inbox'[j] = ms[l]
        BY <3>0, <3>3
      <4> HIDE DEF k, l
      <4> QED BY <2>2, <2>3, <4>1, <4>2 DEF Ordered
    <3> QED BY <1>0, <3>1, <3>2, <3>3
  <2> QED BY <1>2, <2>2, <2>3 DEF Ordered
<1> QED BY <1>0, <1>1, <1>2, Queued DEF Queue

\* What a callback has just received is true, and its fill is final.
LEMMA ReceivedTold ==
    ASSUME RowsInv, NEW t \in Reported, Receive(t)
    PROVE  LET m == Head(inbox) IN
           /\ m.id \in ClientId /\ IB_STATUS_MAP[m.status] \in OrderStatus
           /\ IB_STATUS_MAP[m.status] \notin {"INIT", "REJECTED"} => broker[m.id] \in Ack
           /\ IB_STATUS_MAP[m.status] = "FILLED" => Late(m.id, inbox')
           /\ \A c : Late(c, inbox) /\ m.id = c => IB_STATUS_MAP[m.status] = "FILLED"
           /\ \A c : Late(c, inbox) => Late(c, inbox')
<1> DEFINE m == Head(inbox)
<1>1. /\ inbox \in Seq(Message) /\ inbox # <<>> /\ m = inbox[1]
      /\ 1 \in 1 .. Len(inbox) /\ inbox' = Tail(inbox)
  BY DEF RowsInv, FilledInv, TypeInv, TypeOK, Receive
<1>2. m \in Message /\ m.type = t /\ Told(m, broker)
  BY <1>1 DEF Receive, RowsInv, AllTold
<1>3. m.id \in ClientId /\ m.status \in IBStatus
  BY <1>2, Fields DEF Reported, Callback
<1>4. /\ IB_STATUS_MAP[m.status] \in OrderStatus
      /\ IB_STATUS_MAP[m.status] = "FILLED" <=> m.status = "Filled"
      /\ IB_STATUS_MAP[m.status] = "REJECTED" <=> m.status = "Inactive"
  BY <1>3 DEF IBStatus, OrderStatus, IB_STATUS_MAP
<1>5. m.status = "Filled" => Late(m.id, inbox')
  <2> SUFFICES ASSUME m.status = "Filled", NEW i \in 1 .. Len(inbox')
               PROVE  Final(inbox'[i], m.id)
    BY DEF Late
  <2>1. i + 1 \in 1 .. Len(inbox) /\ inbox'[i] = inbox[i + 1] /\ 1 < i + 1
    BY <1>1
  <2> QED BY <1>1, <1>2, <2>1 DEF RowsInv, Ordered
<1>6. ASSUME NEW c, Late(c, inbox) PROVE m.id = c => m.status = "Filled"
  BY <1>1, <1>2, <1>6 DEF Late, Final
<1>7. ASSUME NEW c, Late(c, inbox) PROVE Late(c, inbox')
  BY <1>1, <1>7 DEF Late
<1> QED BY <1>2, <1>3, <1>4, <1>5, <1>6, <1>7 DEF Told

-----------------------------------------------------------------------------
(* The entries and the rows.                                               *)

\* An entry that nothing happened to stays true.
LEMMA EntryStays ==
    ASSUME RowsInv, [Next]_vars, NEW c \in ClientId,
           open'[c].status \in {open[c].status, "INIT", "REJECTED"}
    PROVE  EntryTrue(c)'
<1>1. TypeInv /\ EntryTrue(c) /\ (open[c].status = "FILLED" => broker[c] = "Filled")
  BY DEF RowsInv, FilledInv, ReportsReal
<1> QED BY <1>1, AckStays, LateStays DEF EntryTrue

\* A step keeps the entries of open_orders true.
LEMMA EntriesTrue ==
    ASSUME RowsInv, [Next]_vars, NEW c \in ClientId
    PROVE  EntryTrue(c)'
<1> USE DEF Client, place, client, session
<1>0. TypeOK
  BY DEF RowsInv, FilledInv, TypeInv
<1>1. ASSUME UNCHANGED open PROVE EntryTrue(c)'
  BY <1>1, EntryStays
<1>2. ASSUME NEW o \in Orders, Register(o) PROVE EntryTrue(c)'
  <2>1. open'[c].status \in {open[c].status, "INIT"}
    BY <1>0, <1>2 DEF Register, Placed, TypeOK
  <2> QED BY <2>1, EntryStays
<1>3. ASSUME NEW t \in Callback, Receive(t), UNCHANGED broker,
             Hear(Head(inbox).id, t, IB_STATUS_MAP[Head(inbox).status])
      PROVE  EntryTrue(c)'
  <2>1. CASE Head(inbox).id = c
    <3>1. open'[c].status = IB_STATUS_MAP[Head(inbox).status]
      BY <1>0, <1>3, <2>1 DEF Hear, TypeOK
    <3> QED BY <1>3, <2>1, <3>1, ReceivedTold DEF EntryTrue, Reported
  <2>2. CASE Head(inbox).id # c
    <3>1. open'[c] = open[c]
      BY <1>0, <1>3, <2>2 DEF Hear, TypeOK
    <3> QED BY <3>1, EntryStays
  <2> QED BY <2>1, <2>2
<1>4. CASE openOrder \/ orderStatus
  BY <1>3, <1>4 DEF openOrder, orderStatus, Callback
<1>5. CASE error
  <2> DEFINE m == Head(inbox)
  <2>0. /\ inbox \in Seq(Message) /\ inbox # <<>> /\ m = inbox[1]
        /\ 1 \in 1 .. Len(inbox) /\ m.type = "error" /\ Told(m, broker)
    BY <1>0, <1>5 DEF error, Receive, TypeOK, RowsInv, AllTold
  <2>1. CASE m.id = c /\ m.code = "399" /\ open'[c].status = "SUBMITTED"
    <3>1. broker[c] \in Ack /\ UNCHANGED broker
      BY <1>5, <2>0, <2>1 DEF Told, error
    <3> QED BY <2>1, <3>1 DEF EntryTrue
  <2>2. CASE open'[c].status \in {open[c].status, "INIT", "REJECTED"}
    BY <2>2, EntryStays
  <2>3. \/ UNCHANGED open
        \/ open' = [open EXCEPT ![m.id] = NoEntry]
        \/ m.code = "399" /\ open' = [open EXCEPT ![m.id].status = "SUBMITTED"]
        \/ open' = [open EXCEPT ![m.id].status = "REJECTED"]
    BY <1>5 DEF error
  <2>4. \/ open'[c].status \in {open[c].status, "INIT", "REJECTED"}
        \/ m.id = c /\ m.code = "399" /\ open'[c].status = "SUBMITTED"
    BY <1>0, <2>3 DEF TypeOK, NoEntry, Entry
  <2> QED BY <2>1, <2>2, <2>4
<1>6. CASE Restart
  BY <1>6 DEF Restart, NoEntry, EntryTrue
<1>7. CASE nextValidId \/ completedOrder \/ contractDetails \/ ReaderExit
           \/ CancelWrite \/ Drop \/ Reconnect \/ UNCHANGED vars
  BY <1>1, <1>7 DEF nextValidId, completedOrder, contractDetails,
                    ReaderExit, CancelWrite, Drop, Reconnect, vars
<1>8. ASSUME NEW d \in ClientId, Broker(d) \/ Poll(d) PROVE EntryTrue(c)'
  BY <1>1, <1>8 DEF Broker, Report, Confirm, Cancelled, Fill, Reject, Warn, Poll
<1>9. ASSUME NEW o \in Orders, PlaceCall(o) \/ PlaceStep(o) \/ CancelSend(o)
      PROVE  EntryTrue(c)'
  BY <1>1, <1>2, <1>9 DEF PlaceCall, PlaceStep, Bump, Send, ReqIds, Read, Wait,
                          Save, CancelSend
<1> QED BY <1>4, <1>5, <1>6, <1>7, <1>8, <1>9 DEF Next, ReaderStep

\* What the invariant says of one order, with the types.
LEMMA OrderFacts ==
    ASSUME RowsInv, NEW o \in Orders
    PROVE  /\ TypeInv /\ TypeOK /\ OrderReal(o) /\ OrderTrue(o)
           /\ cid[o] \in ClientId \cup {NoId} /\ NoId \notin ClientId
           /\ pc[o] \in {"read", "wait", "save"} => cid[o] \in ClientId
           /\ pc[o] \in {"idle"} \cup Active => db[o] = NoRow
           /\ db[o] # NoRow => cid[o] \in ClientId
BY DEF RowsInv, FilledInv, OrdersReal, OrderReal, TypeInv, TypeOK, IdsAllocated,
       NoId, ClientId, OrderTrue, Recorded

\* An order that nothing happened to stays true.
LEMMA OrderStays ==
    ASSUME RowsInv, [Next]_vars, NEW o \in Orders,
           UNCHANGED <<pc[o], cid[o], saw[o], db[o]>>
    PROVE  OrderTrue(o)'
<1>1. /\ TypeInv /\ OrderReal(o) /\ OrderTrue(o)
      /\ pc[o] = "save" => cid[o] \in ClientId
      /\ db[o] # NoRow => cid[o] \in ClientId
  BY OrderFacts
<1>2. pc[o] = "save" /\ saw[o].status = "FILLED" => Late(cid[o], inbox')
  BY <1>1, LateStays DEF OrderTrue, OrderReal
<1>3. db[o].status = "FILLED" => Late(cid[o], inbox')
  <2>1. db[o].status = "FILLED" => db[o] # NoRow /\ broker[cid[o]] = "Filled"
    BY <1>1 DEF OrderReal, Standing, NoRow
  <2> QED BY <1>1, <2>1, LateStays DEF OrderTrue
<1>4. pc[o] = "save" => broker'[cid[o]] \in Ack
  BY <1>1, AckStays DEF OrderTrue
<1>5. db[o] # NoRow => broker'[cid[o]] \in Ack
  BY <1>1, AckStays DEF OrderTrue, Recorded
<1> QED BY <1>1, <1>2, <1>3, <1>4, <1>5 DEF OrderTrue, Recorded

\* A call that has not saved anything and is not about to is true of nothing.
LEMMA OrderUnsaved ==
    ASSUME NEW o, db'[o] = NoRow, pc'[o] # "save"
    PROVE  OrderTrue(o)'
BY DEF OrderTrue, Recorded, NoRow

\* place_order saves what it has read, and has read what is true.
LEMMA PlaceTrue ==
    ASSUME RowsInv, [Next]_vars, NEW o \in Orders, PlaceCall(o) \/ PlaceStep(o),
           NEW p \in Orders
    PROVE  OrderTrue(p)'
<1> USE DEF client, session, Goto, Active, Inside
<1>0. TypeOK
  BY OrderFacts
<1>1. CASE p # o
  <2>1. UNCHANGED <<pc[p], cid[p], saw[p], db[p]>>
    BY <1>0, <1>1 DEF PlaceCall, PlaceStep, Bump, Send, ReqIds, Register, Read,
                      Wait, Save, Judge, TypeOK
  <2> QED BY <2>1, OrderStays
<1>2. CASE PlaceCall(o) \/ Bump(o) \/ Send(o) \/ ReqIds(o) \/ Register(o)
  <2>1. db[o] = NoRow /\ UNCHANGED db /\ pc'[o] # "save"
    BY <1>0, <1>2, OrderFacts DEF PlaceCall, Bump, Send, ReqIds, Register, TypeOK
  <2> QED BY <1>1, <2>1, OrderUnsaved
<1>3. ASSUME pc[o] \in {"read", "wait"}, UNCHANGED <<cid, db, broker, inbox>>,
             open[cid[o]].status # "INIT",
             NEW q \in {NoId, cid[o]}, Judge(o, open[cid[o]].status, q)
      PROVE  OrderTrue(o)'
  <2>0. db[o] = NoRow /\ cid[o] \in ClientId /\ EntryTrue(cid[o])
    BY <1>3, OrderFacts DEF RowsInv
  <2>1. CASE pc' = [pc EXCEPT ![o] = "failed"]
    BY <1>0, <1>3, <2>0, <2>1, OrderUnsaved DEF TypeOK
  <2>2. CASE /\ open[cid[o]].status # "REJECTED"
             /\ saw' = [saw EXCEPT ![o] = [status |-> open[cid[o]].status, perm |-> q]]
    <3>1. saw'[o].status = open[cid[o]].status
      BY <1>0, <2>2 DEF TypeOK
    <3> QED BY <1>3, <2>0, <2>2, <3>1 DEF EntryTrue, OrderTrue, Recorded, NoRow
  <2> QED BY <1>3, <2>1, <2>2 DEF Judge
<1>4. CASE Read(o)
  <2>1. CASE Goto(o, "failed") \/ Goto(o, "wait")
    <3>1. pc'[o] # "save" /\ db' = db /\ db[o] = NoRow
      BY <1>0, <1>4, <2>1, OrderFacts DEF TypeOK, Read
    <3> QED BY <1>1, <3>1, OrderUnsaved
  <2>2. CASE /\ open[cid[o]].status # "INIT"
             /\ Judge(o, open[cid[o]].status,
                      IF "orderStatus" \in open[cid[o]].heard THEN cid[o] ELSE NoId)
    <3>1. pc[o] = "read" /\ UNCHANGED <<cid, db, broker, inbox>>
      BY <1>4 DEF Read
    <3> QED BY <1>1, <1>3, <2>2, <3>1
  <2> QED BY <1>4, <2>1, <2>2 DEF Read
<1>5. CASE Wait(o)
  <2>1. CASE Goto(o, "failed")
    <3>1. pc'[o] # "save" /\ db' = db /\ db[o] = NoRow
      BY <1>0, <1>5, <2>1, OrderFacts DEF TypeOK, Wait
    <3> QED BY <1>1, <3>1, OrderUnsaved
  <2>2. CASE /\ open[cid[o]].status # "INIT"
             /\ Judge(o, open[cid[o]].status, cid[o])
    <3>1. pc[o] = "wait" /\ UNCHANGED <<cid, db, broker, inbox>>
      BY <1>5 DEF Wait
    <3> QED BY <1>1, <1>3, <2>2, <3>1
  <2> QED BY <1>5, <2>1, <2>2 DEF Wait
<1>6. CASE Save(o)
  <2>1. /\ pc[o] = "save" /\ pc'[o] \in {"recorded", "failed"}
        /\ UNCHANGED <<cid, broker, inbox>> /\ OrderTrue(o)
        /\ cid[o] \in ClientId /\ NoId \notin ClientId /\ db[o] = NoRow
    BY <1>0, <1>6, OrderFacts DEF Save, TypeOK
  <2>2. db'[o] = saw[o] \/ db'[o] = NoRow
    BY <1>0, <1>6, <2>1 DEF Save, TypeOK
  <2>3. OrderTrue(o)'
    BY <2>1, <2>2 DEF OrderTrue, Recorded, NoRow
  <2> QED BY <1>1, <2>3
<1> QED BY <1>2, <1>4, <1>5, <1>6 DEF PlaceStep

\* A notification brings a true status into the rows of one broker id.
LEMMA NotifiedTrue ==
    ASSUME RowsInv, [Next]_vars, UNCHANGED <<pc, cid, saw, broker>>,
           NEW t \in Reported, Receive(t),
           Notify(Head(inbox).id, IB_STATUS_MAP[Head(inbox).status]),
           NEW o \in Orders
    PROVE  OrderTrue(o)'
<1> DEFINE c == Head(inbox).id  s == IB_STATUS_MAP[Head(inbox).status]
<1>0. /\ TypeOK /\ OrderReal(o) /\ OrderTrue(o) /\ NoId \notin ClientId
      /\ db[o] # NoRow => cid[o] \in ClientId
      /\ pc[o] \in {"idle"} \cup Active => db[o] = NoRow
  BY OrderFacts
<1>1. CASE UNCHANGED db[o]
  BY <1>1, OrderStays
<1>2. CASE db' = UpdateRows(c, s) /\ db[o].perm = c
  <2>1. c \in ClientId /\ (s = "FILLED" => Late(c, inbox'))
    BY ReceivedTold
  <2>2. db[o] # NoRow /\ cid[o] = c /\ broker[cid[o]] \in Ack
    BY <1>0, <1>2, <2>1 DEF OrderReal, NoRow, OrderTrue, Recorded
  <2>3. db'[o].status = s
    BY <1>0, <1>2 DEF UpdateRows, TypeOK, Row
  <2>4. pc'[o] # "save"
    BY <1>0, <2>2 DEF Active
  <2> QED BY <1>0, <2>1, <2>2, <2>3, <2>4 DEF OrderTrue
<1>3. CASE db' = UpdateRows(c, s) /\ db[o].perm # c
  <2>1. UNCHANGED db[o]
    BY <1>0, <1>3 DEF UpdateRows, TypeOK
  <2> QED BY <2>1, OrderStays
<1> QED BY <1>1, <1>2, <1>3 DEF Notify

\* So does every step of the other parties.
LEMMA OthersTrue ==
    ASSUME RowsInv, [Next]_vars, \A p \in Orders : ~PlaceCall(p) /\ ~PlaceStep(p),
           NEW o \in Orders
    PROVE  OrderTrue(o)'
<1> USE DEF Client, place, client, session
<1>0. /\ TypeOK /\ NoId \notin ClientId
      /\ pc[o] \in {"idle"} \cup Active => db[o] = NoRow
  BY OrderFacts
<1>1. ASSUME UNCHANGED <<pc, cid, saw, db>> PROVE OrderTrue(o)'
  BY <1>1, OrderStays
<1>2. CASE ReaderStep
  BY <1>1, <1>2, NotifiedTrue
     DEF ReaderStep, nextValidId, openOrder, orderStatus, completedOrder, error,
         contractDetails, ReaderExit, Reported, Callback
<1>3. CASE CancelWrite
  <2>1. CASE UNCHANGED db[o]
    BY <1>3, <2>1, OrderStays DEF CancelWrite
  <2>2. CASE db' = UpdateRows(cancelling, "CANCELLED") /\ db[o].perm = cancelling
    <3>1. db'[o].status = "CANCELLED" /\ db[o] # NoRow
      BY <1>0, <1>3, <2>2 DEF UpdateRows, TypeOK, Row, CancelWrite, NoRow
    <3>2. UNCHANGED <<pc, cid, broker>> /\ OrderTrue(o) /\ pc[o] # "save"
      BY <1>0, <1>3, <3>1, OrderFacts DEF CancelWrite, Active
    <3> QED BY <3>1, <3>2 DEF OrderTrue, Recorded
  <2> QED BY <1>0, <1>3, <2>1, <2>2 DEF CancelWrite, UpdateRows, TypeOK
<1>4. ASSUME NEW p \in Orders, CancelSend(p) PROVE OrderTrue(o)'
  BY <1>1, <1>4 DEF CancelSend
<1>5. ASSUME NEW c \in ClientId, Broker(c) \/ Poll(c) PROVE OrderTrue(o)'
  BY <1>1, <1>5 DEF Broker, Report, Confirm, Cancelled, Fill, Reject, Warn, Poll
<1>6. CASE Drop \/ Reconnect \/ UNCHANGED vars
  BY <1>1, <1>6 DEF Drop, Reconnect, vars
<1>7. CASE Restart
  <2>1. CASE pc[o] \in Active
    <3>1. pc'[o] = "lost" /\ db'[o] = NoRow
      BY <1>0, <1>7, <2>1 DEF Restart, TypeOK
    <3> QED BY <3>1, OrderUnsaved
  <2>2. CASE pc[o] \notin Active
    <3>1. UNCHANGED <<pc[o], cid[o], saw[o], db[o]>>
      BY <1>0, <1>7, <2>2 DEF Restart, TypeOK
    <3> QED BY <3>1, OrderStays
  <2> QED BY <2>1, <2>2
<1> QED BY <1>2, <1>3, <1>4, <1>5, <1>6, <1>7 DEF Next

LEMMA RowsKept == RowsInv /\ [Next]_vars => RowsInv'
<1> SUFFICES ASSUME RowsInv, [Next]_vars PROVE RowsInv'
  OBVIOUS
<1>1. FilledInv'
  BY FilledKept DEF RowsInv
<1>2. AllTold(inbox', broker') /\ Ordered(inbox')
  BY ToldKept, OrderedKept
<1>3. \A c \in ClientId : EntryTrue(c)'
  BY EntriesTrue
<1>4. \A o \in Orders : OrderTrue(o)'
  BY PlaceTrue, OthersTrue
<1> QED BY <1>1, <1>2, <1>3, <1>4 DEF RowsInv

LEMMA RowsAlways == Spec => []RowsInv
BY InitRows, RowsKept, PTL DEF Spec

\* Only cancel_order takes back that a row is filled.
LEMMA OnlyCancelled ==
    ASSUME RowsInv, [Next]_vars, NEW o \in Orders,
           db[o].status = "FILLED", db'[o].status # "FILLED"
    PROVE  CancelWrite /\ db[o].perm = cancelling
<1> USE DEF Client, place, client, session
<1>0. TypeOK /\ OrderTrue(o) /\ OrderReal(o) /\ db[o] # NoRow
      /\ NoId \notin ClientId
  BY OrderFacts DEF NoRow
<1>1. ~UNCHANGED db[o]
  OBVIOUS
<1>2. ASSUME NEW p \in Orders, PlaceCall(p) \/ PlaceStep(p) PROVE FALSE
  <2>1. p # o \/ pc[o] \notin {"idle"} \cup Active
    BY <1>0, OrderFacts
  <2> QED BY <1>0, <1>1, <1>2, <2>1
          DEF PlaceCall, PlaceStep, Bump, Send, ReqIds, Register, Read, Wait,
              Save, TypeOK, Active, Inside
<1>3. ASSUME NEW t \in Reported, Receive(t),
             Notify(Head(inbox).id, IB_STATUS_MAP[Head(inbox).status])
      PROVE  FALSE
  <2> DEFINE m == Head(inbox)
  <2>1. db'[o] = [db[o] EXCEPT !.status = IB_STATUS_MAP[m.status]] /\ db[o].perm = m.id
    BY <1>0, <1>1, <1>3 DEF Notify, UpdateRows, TypeOK
  <2>2. m.id \in ClientId /\ (Late(m.id, inbox) => IB_STATUS_MAP[m.status] = "FILLED")
    BY <1>3, ReceivedTold
  <2>3. cid[o] = m.id
    BY <1>0, <2>1, <2>2 DEF OrderReal
  <2>4. db'[o].status = IB_STATUS_MAP[m.status]
    BY <1>0, <2>1 DEF TypeOK, Row
  <2> QED BY <1>0, <2>2, <2>3, <2>4 DEF OrderTrue
<1>4. ASSUME ReaderStep PROVE FALSE
  BY <1>1, <1>3, <1>4
     DEF ReaderStep, nextValidId, openOrder, orderStatus, completedOrder,
         error, contractDetails, Die, ReaderExit, Reported, Callback
<1>5. ASSUME CancelWrite PROVE db[o].perm = cancelling
  BY <1>0, <1>1, <1>5 DEF CancelWrite, UpdateRows, TypeOK
<1>6. ASSUME \/ \E p \in Orders : CancelSend(p)
             \/ \E c \in ClientId : Broker(c) \/ Poll(c)
             \/ Drop \/ Reconnect \/ Restart \/ UNCHANGED vars
      PROVE  FALSE
  BY <1>1, <1>6 DEF CancelSend, Broker, Report, Confirm, Cancelled, Fill, Reject, Warn, Poll,
                    Drop, Reconnect, Restart, vars
<1> QED BY <1>2, <1>4, <1>5, <1>6 DEF Next

-----------------------------------------------------------------------------
(* The theorems.                                                           *)

\* A row exists only for an order that the broker has taken, and a rejected
\* order never gets one: for any number of orders, threads and faults, even
\* when two calls share a client id or the session is lost between the send
\* and the row (OrderManager.place_order).
THEOREM RowsAreAcknowledged == Spec => []RowsAcknowledged
<1>1. RowsInv => RowsAcknowledged
  BY DEF RowsInv, OrderTrue, RowsAcknowledged, Standing, Ack
<1> QED BY <1>1, RowsAlways, PTL

\* A row that says Filled keeps saying so through every report that is late or
\* repeated, every poll, reconnection and restart; cancel_order alone
\* overwrites it.
THEOREM FilledRowsKept == Spec => FilledRowsStay
<1>1. RowsInv /\ [Next]_vars
        => [\A o \in Orders :
              db[o].status = "FILLED" /\ db'[o].status # "FILLED" =>
                  cancelling = db[o].perm /\ cancelling' = NoId]_vars
  BY OnlyCancelled DEF CancelWrite
<1> QED BY <1>1, RowsAlways, PTL DEF Spec, FilledRowsStay

-----------------------------------------------------------------------------
(* A call that fails leaves nothing that trades. The calls must not share   *)
(* client ids, the database must not have failed between an order and its    *)
(* row, and no warning may have carried the id of an order.                 *)

Dead(c) == broker[c] \in {"Cancelled", "Inactive"}
Rowed(c) == \E p \in Orders : db[p].perm = c

\* Bad news is of orders that are dead, or that some row names, of which a
\* cancellation came too late.
NewsTrue(m) ==
    /\ m.type \in Reported /\ m.status = "Inactive" => Dead(m.id)
    /\ m.type = "error" => /\ m.code = "202" => broker[m.id] = "Cancelled"
                           /\ m.code = "other" => Dead(m.id) \/ Rowed(m.id)

\* place_order looks for the entry it has made, which only 202 takes away; what
\* it does not find, or finds rejected, is dead.
CallTrue(o) ==
    /\ pc[o] \in {"idle", "bump"} => cid[o] = NoId
    /\ pc[o] \in {"read", "wait"} =>
          open[cid[o]].placed \/ broker[cid[o]] = "Cancelled"
    /\ pc[o] = "failed" => cid[o] = NoId \/ Dead(cid[o])

OrphanInv ==
    /\ RowsInv
    /\ Calm
    /\ \A i \in 1 .. Len(inbox) : NewsTrue(inbox[i])
    /\ \A c \in ClientId : open[c].status = "REJECTED" => Dead(c) \/ Rowed(c)
    /\ \A o \in Orders : CallTrue(o)

LEMMA InitOrphans == Init => OrphanInv
<1> SUFFICES ASSUME Init PROVE OrphanInv
  OBVIOUS
<1>1. Len(inbox) = 1 /\ inbox[1] = NextId(1)
  BY DEF Init
<1>2. \A i \in 1 .. Len(inbox) : NewsTrue(inbox[i])
  BY <1>1 DEF NewsTrue, Reported, Callback, NextId
<1>3. \A c \in ClientId : open[c].status # "REJECTED"
  BY DEF Init, NoEntry
<1>4. \A o \in Orders : CallTrue(o)
  BY DEF Init, CallTrue
<1>5. Calm
  BY DEF Init, Calm, Unspent
<1> QED BY <1>2, <1>3, <1>4, <1>5, InitRows DEF OrphanInv

\* No connection has been lost so far, no UPDATE or INSERT has failed, and no
\* order was registered inside the loop of contractDetails over open_orders.
Undisturbed == Unspent("drop") /\ Unspent("dbFault") /\ Unspent("clash")

\* A budget is never raised.
BudgetInv == \A e \in Events : budget[e] <= Budget[e]

\* A step spends from one budget, or from none.
LEMMA Spending ==
    ASSUME TypeOK, [Next]_vars
    PROVE  UNCHANGED budget \/ \E e \in Events : Spend(e)
<1> USE DEF Client, place, client, session, Events
<1>1. ASSUME NEW o \in Orders, PlaceCall(o) \/ PlaceStep(o)
      PROVE  UNCHANGED budget \/ Spend("dbFault") \/ Spend("clash")
  BY <1>1 DEF PlaceCall, PlaceStep, Bump, Send, ReqIds, Register, Clashes, Read,
              Wait, Save
<1>2. ASSUME NEW o \in Orders, CancelSend(o) PROVE Spend("cancel")
  BY <1>2 DEF CancelSend
<1>3. CASE CancelWrite \/ ReaderStep
  BY <1>3 DEF CancelWrite, ReaderStep, nextValidId, openOrder, orderStatus,
              completedOrder, error, contractDetails, Die, ReaderExit, Notify
<1>4. ASSUME NEW c \in ClientId, Broker(c) \/ Poll(c)
      PROVE  UNCHANGED budget \/ Spend("warning")
  BY <1>4 DEF Broker, Report, Confirm, Cancelled, Fill, Reject, Warn, Poll
<1>5. CASE Drop \/ Restart
  BY <1>5 DEF Drop, Restart
<1>6. CASE Reconnect \/ UNCHANGED vars
  BY <1>6 DEF Reconnect, vars
<1> QED BY <1>1, <1>2, <1>3, <1>4, <1>5, <1>6 DEF Next

\* What is not whole stays so.
LEMMA SpentStays ==
    ASSUME TypeOK, BudgetInv, [Next]_vars
    PROVE  /\ BudgetInv'
           /\ Calm' => Calm
           /\ Undisturbed' => Undisturbed
<1>1. /\ budget \in [Events -> Nat] /\ \A e \in Events : Budget[e] \in Nat
      /\ \A e \in Events : budget[e] <= Budget[e]
  BY OrderAssumption DEF TypeOK, BudgetInv
<1>2. ASSUME NEW e \in Events, Spend(e)
      PROVE  /\ budget'[e] = budget[e] - 1
             /\ \A f \in Events : f # e => budget'[f] = budget[f]
  BY <1>1, <1>2 DEF Spend
<1>3. \A e \in Events : budget'[e] \in Int /\ budget'[e] <= budget[e]
  BY <1>1, <1>2, Spending
<1>4. \A e \in Events : budget'[e] = Budget[e] => budget[e] = Budget[e]
  BY <1>1, <1>3
<1> QED BY <1>1, <1>3, <1>4 DEF BudgetInv, Calm, Undisturbed, Unspent, Events

\* A step that leaves it calm has neither of the two faults.
LEMMA CalmStep ==
    ASSUME TypeOK, Calm, Calm'
    PROVE  ~Spend("dbFault") /\ ~Spend("warning")
BY OrderAssumption DEF TypeOK, Calm, Unspent, Spend, Events

\* A dead order stays dead, and a row keeps its broker id.
LEMMA DeadStays ==
    ASSUME RowsInv, [Next]_vars, NEW c \in ClientId
    PROVE  /\ broker[c] = "Cancelled" => broker'[c] = "Cancelled"
           /\ Dead(c) => Dead(c)'
           /\ Rowed(c) => Rowed(c)'
<1> USE DEF Client, place, client, session
<1>0. TypeOK /\ NoId \notin ClientId
  BY DEF RowsInv, FilledInv, TypeInv, NoId, ClientId
<1>1. ASSUME broker[c] \in {"Cancelled", "Inactive"} PROVE broker'[c] = broker[c]
  <2>1. ASSUME NEW o \in Orders, PlaceCall(o) \/ PlaceStep(o) PROVE broker'[c] = broker[c]
    BY <1>0, <1>1, <2>1 DEF PlaceCall, PlaceStep, Bump, Send, ReqIds, Register, Read,
                            Wait, Save, TypeOK
  <2>2. ASSUME NEW o \in Orders, CancelSend(o) PROVE broker'[c] = broker[c]
    BY <1>0, <1>1, <2>2 DEF CancelSend, Cancelled, Terminal, TypeOK
  <2>3. CASE CancelWrite \/ ReaderStep
    BY <2>3 DEF CancelWrite, ReaderStep, nextValidId, openOrder, orderStatus,
                completedOrder, error, contractDetails, Die, ReaderExit
  <2>4. ASSUME NEW d \in ClientId, Broker(d) \/ Poll(d) PROVE broker'[c] = broker[c]
    BY <1>0, <1>1, <2>4 DEF Broker, Report, Confirm, Cancelled, Fill, Reject, Warn, Poll, TypeOK
  <2>5. CASE Drop \/ Reconnect \/ Restart \/ UNCHANGED vars
    BY <2>5 DEF Drop, Reconnect, Restart, vars
  <2> QED BY <2>1, <2>2, <2>3, <2>4, <2>5 DEF Next
<1>2. ASSUME NEW p \in Orders, db[p].perm = c PROVE db'[p].perm = c
  <2>0. db[p] # NoRow /\ pc[p] \notin {"idle"} \cup Active
    BY <1>0, <1>2, OrderFacts DEF NoRow
  <2>1. ASSUME NEW d, NEW s, db' = UpdateRows(d, s) PROVE db'[p].perm = c
    BY <1>0, <1>2, <2>1 DEF UpdateRows, TypeOK, Row
  <2>2. ASSUME NEW o \in Orders, PlaceCall(o) \/ PlaceStep(o) PROVE db'[p].perm = c
    BY <1>0, <1>2, <2>0, <2>2
       DEF PlaceCall, PlaceStep, Bump, Send, ReqIds, Register, Read, Wait, Save,
           Active, TypeOK
  <2>3. CASE CancelWrite \/ ReaderStep
    BY <1>2, <2>1, <2>3
       DEF CancelWrite, ReaderStep, nextValidId, openOrder, orderStatus,
           completedOrder, error, contractDetails, Die, ReaderExit, Notify
  <2>4. ASSUME \/ \E o \in Orders : CancelSend(o)
               \/ \E d \in ClientId : Broker(d) \/ Poll(d)
               \/ Drop \/ Reconnect \/ Restart \/ UNCHANGED vars
        PROVE  db'[p].perm = c
    BY <1>2, <2>4 DEF CancelSend, Broker, Report, Confirm, Cancelled, Fill, Reject,
                      Warn, Poll, Drop, Reconnect, Restart, vars
  <2> QED BY <2>2, <2>3, <2>4 DEF Next
<1> QED BY <1>1, <1>2 DEF Dead, Rowed

\* Only true news joins the queue.
LEMMA NewsKept ==
    ASSUME OrphanInv, Calm', [Next]_vars
    PROVE  \A i \in 1 .. Len(inbox') : NewsTrue(inbox[i])'
<1>0. /\ RowsInv /\ TypeInv /\ inbox \in Seq(Message) /\ ~Spend("warning")
      /\ \A i \in 1 .. Len(inbox) : NewsTrue(inbox[i])
  BY CalmStep DEF OrphanInv, RowsInv, FilledInv, TypeInv, TypeOK
<1>1. ASSUME NEW m \in Message, NewsTrue(m) PROVE NewsTrue(m)'
  <2>1. m.type \in Reported \cup {"error"} => m.id \in ClientId
    BY Fields DEF Reported, Callback
  <2> QED BY <1>0, <1>1, <2>1, DeadStays DEF NewsTrue
<1>2. ASSUME NEW m \in Message, Fresh(m, broker') PROVE NewsTrue(m)'
  <2>1. m.type \in Reported \cup {"error"} => m.id \in ClientId
    BY Fields DEF Reported, Callback
  <2>2. m.type = "error" /\ m.code = "other" => Dead(m.id)' \/ Rowed(m.id)
    BY <1>0, <1>2 DEF Fresh, Other, Dead, Rowed
  <2>3. m.type \in Reported /\ m.status = "Inactive" => Dead(m.id)'
    BY <1>2 DEF Fresh, Dead
  <2>4. m.type = "error" /\ m.code = "202" => broker'[m.id] = "Cancelled"
    BY <1>2 DEF Fresh
  <2> QED BY <1>0, <2>1, <2>2, <2>3, <2>4, DeadStays DEF NewsTrue
<1>3. CASE inbox # <<>> /\ inbox' = Tail(inbox)
  <2> SUFFICES ASSUME NEW i \in 1 .. Len(inbox') PROVE NewsTrue(inbox[i])'
    OBVIOUS
  <2>1. PICK m \in Message : m = inbox'[i] /\ NewsTrue(m)
    <3>1. i + 1 \in 1 .. Len(inbox) /\ inbox'[i] = inbox[i + 1]
      BY <1>0, <1>3
    <3> QED BY <1>0, <3>1
  <2>2. NewsTrue(m)'
    BY <1>1, <2>1
  <2> QED BY <2>1, <2>2 DEF NewsTrue, Dead, Rowed
<1>4. ASSUME NEW ms \in Seq(Message), AllFresh(ms, broker'),
             inbox' = inbox \o ms \/ inbox' = ms
      PROVE  \A i \in 1 .. Len(inbox') : NewsTrue(inbox[i])'
  <2> SUFFICES ASSUME NEW i \in 1 .. Len(inbox') PROVE NewsTrue(inbox[i])'
    OBVIOUS
  <2>1. \/ i \in 1 .. Len(inbox) /\ inbox'[i] = inbox[i]
        \/ \E k \in 1 .. Len(ms) : inbox'[i] = ms[k]
    <3>1. CASE inbox' = inbox \o ms
      <4>1. CASE i <= Len(inbox)
        BY <1>0, <3>1, <4>1
      <4>2. CASE i > Len(inbox)
        <5>1. i - Len(inbox) \in 1 .. Len(ms) /\ inbox'[i] = ms[i - Len(inbox)]
          BY <1>0, <3>1, <4>2
        <5> QED BY <5>1
      <4> QED BY <1>0, <4>1, <4>2
    <3> QED BY <1>4, <3>1
  <2>2. PICK m \in Message : m = inbox'[i] /\ (NewsTrue(m) \/ Fresh(m, broker'))
    BY <1>0, <1>4, <2>1 DEF AllFresh
  <2>3. NewsTrue(m)'
    BY <1>1, <1>2, <2>2
  <2> QED BY <2>2, <2>3 DEF NewsTrue, Dead, Rowed
<1> QED BY <1>0, <1>3, <1>4, Queued DEF Queue

\* An error message that is handled is true.
LEMMA ErrorHeard ==
    ASSUME OrphanInv, error
    PROVE  Head(inbox) \in Message /\ NewsTrue(Head(inbox)) /\ Head(inbox).type = "error"
<1>1. inbox \in Seq(Message) /\ inbox # <<>> /\ Head(inbox).type = "error"
  BY DEF OrphanInv, RowsInv, FilledInv, TypeInv, TypeOK, error, Receive
<1>2. 1 \in 1 .. Len(inbox) /\ Head(inbox) = inbox[1] /\ inbox[1] \in Message
  BY <1>1
<1>3. NewsTrue(inbox[1])
  BY <1>2 DEF OrphanInv
<1> QED BY <1>1, <1>2, <1>3

\* open_orders says rejected of nothing that works.
LEMMA RejectedTrue ==
    ASSUME OrphanInv, [Next]_vars, NEW c \in ClientId,
           open'[c].status = "REJECTED"
    PROVE  Dead(c)' \/ Rowed(c)'
<1> USE DEF Client, place, client, session
<1>0. /\ RowsInv /\ TypeOK /\ (open[c].status = "REJECTED" => Dead(c) \/ Rowed(c))
      /\ (Dead(c) => Dead(c)') /\ (Rowed(c) => Rowed(c)')
  BY DeadStays DEF OrphanInv, RowsInv, FilledInv, TypeInv
<1>1. ASSUME open'[c].status = open[c].status PROVE Dead(c)' \/ Rowed(c)'
  BY <1>0, <1>1
<1>2. ASSUME NEW o \in Orders, Register(o) PROVE Dead(c)' \/ Rowed(c)'
  <2>1. open'[c].status \in {open[c].status, "INIT"}
    BY <1>0, <1>2 DEF Register, Placed, TypeOK
  <2> QED BY <1>1, <2>1
<1>3. ASSUME NEW t \in Callback, Receive(t),
             Hear(Head(inbox).id, t, IB_STATUS_MAP[Head(inbox).status])
      PROVE  Dead(c)' \/ Rowed(c)'
  <2> DEFINE m == Head(inbox)
  <2>0. m \in Message /\ NewsTrue(m) /\ m.type = t
    <3>1. inbox \in Seq(Message) /\ inbox # <<>> /\ m.type = t
      BY <1>0, <1>3 DEF Receive, TypeOK
    <3>2. 1 \in 1 .. Len(inbox) /\ m = inbox[1] /\ inbox[1] \in Message
      BY <3>1
    <3>3. NewsTrue(inbox[1])
      BY <3>2 DEF OrphanInv
    <3> QED BY <3>1, <3>2, <3>3
  <2>1. m.id \in ClientId /\ m.status \in IBStatus
    BY <2>0, Fields DEF Callback
  <2>2. CASE m.id = c
    <3>1. open'[c].status = IB_STATUS_MAP[m.status]
      BY <1>0, <1>3, <2>2 DEF Hear, TypeOK
    <3>2. m.status = "Inactive"
      BY <2>1, <3>1 DEF IB_STATUS_MAP, IBStatus
    <3> QED BY <1>0, <2>0, <2>2, <3>2 DEF NewsTrue, Reported
  <2>3. CASE m.id # c
    BY <1>0, <1>1, <1>3, <2>3 DEF Hear, TypeOK
  <2> QED BY <2>2, <2>3
<1>4. CASE openOrder \/ orderStatus
  BY <1>3, <1>4 DEF openOrder, orderStatus, Callback
<1>5. CASE error
  <2> DEFINE m == Head(inbox)
  <2>0. m \in Message /\ NewsTrue(m) /\ m.type = "error"
    BY <1>5, ErrorHeard
  <2>1. m.code \in {"202", "399", "other"}
    BY <2>0, Fields
  <2>2. CASE m.id = c /\ m.code = "other"
    BY <1>0, <2>0, <2>2 DEF NewsTrue
  <2>3. CASE ~(m.id = c /\ m.code = "other")
    <3>1. open'[c].status \in {open[c].status, "INIT", "SUBMITTED"}
      BY <1>0, <1>5, <2>1, <2>3 DEF error, TypeOK, NoEntry, Entry
    <3> QED BY <1>1, <3>1
  <2> QED BY <2>2, <2>3
<1>6. CASE Restart
  BY <1>6 DEF Restart, NoEntry
<1>7. CASE nextValidId \/ completedOrder \/ contractDetails \/ ReaderExit
           \/ CancelWrite \/ Drop \/ Reconnect \/ UNCHANGED vars
  BY <1>1, <1>7 DEF nextValidId, completedOrder, contractDetails,
                    ReaderExit, CancelWrite, Drop, Reconnect, vars
<1>8. ASSUME NEW d \in ClientId, Broker(d) \/ Poll(d) PROVE Dead(c)' \/ Rowed(c)'
  BY <1>1, <1>8 DEF Broker, Report, Confirm, Cancelled, Fill, Reject, Warn, Poll
<1>9. ASSUME NEW o \in Orders, PlaceCall(o) \/ PlaceStep(o) \/ CancelSend(o)
      PROVE  Dead(c)' \/ Rowed(c)'
  BY <1>1, <1>2, <1>9 DEF PlaceCall, PlaceStep, Bump, Send, ReqIds, Read, Wait,
                          Save, CancelSend
<1> QED BY <1>4, <1>5, <1>6, <1>7, <1>8, <1>9 DEF Next, ReaderStep

\* An entry that place_order made stays, or its order is cancelled.
LEMMA EntryKept ==
    ASSUME OrphanInv, [Next]_vars, ~Restart, NEW c \in ClientId,
           open[c].placed \/ broker[c] = "Cancelled"
    PROVE  open'[c].placed \/ broker'[c] = "Cancelled"
<1> USE DEF Client, place, client, session
<1>0. RowsInv /\ TypeOK /\ (broker[c] = "Cancelled" => broker'[c] = "Cancelled")
  BY DeadStays DEF OrphanInv, RowsInv, FilledInv, TypeInv
<1>1. ASSUME UNCHANGED open PROVE open'[c].placed \/ broker'[c] = "Cancelled"
  BY <1>0, <1>1
<1>2. ASSUME NEW o \in Orders, PlaceCall(o) \/ PlaceStep(o) \/ CancelSend(o)
      PROVE  open'[c].placed \/ broker'[c] = "Cancelled"
  <2>1. CASE Register(o)
    <3>1. open'[c] = open[c] \/ open'[c] = Placed
      BY <1>0, <2>1 DEF Register, TypeOK
    <3> QED BY <1>0, <3>1 DEF Placed
  <2>2. CASE UNCHANGED open
    BY <1>1, <2>2
  <2> QED BY <1>2, <2>1, <2>2 DEF PlaceCall, PlaceStep, Bump, Send, ReqIds, Read,
                                  Wait, Save, CancelSend
<1>3. CASE openOrder \/ orderStatus
  <2>1. PICK d, t, s : Hear(d, t, s)
    BY <1>3 DEF openOrder, orderStatus
  <2>2. open'[c].placed = open[c].placed
    BY <1>0, <2>1 DEF Hear, TypeOK
  <2> QED BY <1>0, <2>2, Zenon
<1>4. CASE error
  <2> DEFINE m == Head(inbox)
  <2>0. NewsTrue(m) /\ m.type = "error"
    BY <1>4, ErrorHeard
  <2>1. CASE m.id = c /\ m.code = "202"
    <3>1. broker[c] = "Cancelled"
      BY <2>0, <2>1 DEF NewsTrue
    <3> QED BY <1>0, <3>1
  <2>2. CASE ~(m.id = c /\ m.code = "202")
    <3>1. \/ open' = open
          \/ m.id # c /\ open' = [open EXCEPT ![m.id] = NoEntry]
          \/ \E s : open' = [open EXCEPT ![m.id].status = s]
      BY <1>4, <2>2 DEF error
    <3>2. \A e \in Entry : \A s : [e EXCEPT !.status = s].placed = e.placed
      BY DEF Entry
    <3>3. open \in [ClientId -> Entry] /\ open[c] \in Entry
      BY <1>0 DEF TypeOK
    <3>4. \A s : [open EXCEPT ![m.id].status = s][c]
                    \in {open[c], [open[c] EXCEPT !.status = s]}
      BY <3>3
    <3>5. open' = open => open'[c].placed = open[c].placed
      OBVIOUS
    <3>6. m.id # c /\ open' = [open EXCEPT ![m.id] = NoEntry]
             => open'[c].placed = open[c].placed
      BY <3>3
    <3>7. ASSUME NEW s, open' = [open EXCEPT ![m.id].status = s]
          PROVE  open'[c].placed = open[c].placed
      <4>1. open'[c] \in {open[c], [open[c] EXCEPT !.status = s]}
        BY <3>4, <3>7, Zenon
      <4>2. [open[c] EXCEPT !.status = s].placed = open[c].placed
        BY <3>2, <3>3, Zenon
      <4> QED BY <4>1, <4>2
    <3>8. open'[c].placed = open[c].placed
      BY <3>1, <3>5, <3>6, <3>7, Zenon
    <3> QED BY <1>0, <3>8, Zenon
  <2> QED BY <2>1, <2>2
<1>5. CASE nextValidId \/ completedOrder \/ contractDetails \/ ReaderExit
           \/ CancelWrite \/ Drop \/ Reconnect \/ UNCHANGED vars
  BY <1>1, <1>5 DEF nextValidId, completedOrder, contractDetails,
                    ReaderExit, CancelWrite, Drop, Reconnect, vars
<1>6. ASSUME NEW d \in ClientId, Broker(d) \/ Poll(d)
      PROVE  open'[c].placed \/ broker'[c] = "Cancelled"
  BY <1>1, <1>6 DEF Broker, Report, Confirm, Cancelled, Fill, Reject, Warn, Poll
<1> QED BY <1>2, <1>3, <1>4, <1>5, <1>6 DEF Next, ReaderStep

\* What place_order finds rejected or gone is dead: the row that could name its
\* client id would be its own, and it has none yet.
LEMMA GivenUp ==
    ASSUME OrphanInv, UniqueIds, NEW o \in Orders, pc[o] \in {"read", "wait"},
           open[cid[o]] = NoEntry \/ open[cid[o]].status = "REJECTED"
    PROVE  Dead(cid[o])
<1>0. /\ RowsInv /\ CallTrue(o) /\ cid[o] \in ClientId /\ NoId \notin ClientId
      /\ db[o] = NoRow
  BY OrderFacts DEF OrphanInv, Active
<1>1. CASE open[cid[o]] = NoEntry
  BY <1>0, <1>1 DEF CallTrue, NoEntry, Dead
<1>2. ASSUME NEW p \in Orders, db[p].perm = cid[o] PROVE FALSE
  <2>1. cid[p] = cid[o]
    BY <1>0, <1>2, OrderFacts DEF OrderReal
  <2>2. p = o
    BY <1>0, <2>1 DEF UniqueIds
  <2> QED BY <1>0, <1>2, <2>2 DEF NoRow
<1> QED BY <1>0, <1>1, <1>2 DEF OrphanInv, Rowed

\* The calls stay true.
LEMMA CallsTrue ==
    ASSUME OrphanInv, Calm', UniqueIds, [Next]_vars, NEW o \in Orders
    PROVE  CallTrue(o)'
<1> USE DEF Client, place, client, session, Goto, Inside
<1>0. /\ RowsInv /\ TypeOK /\ CallTrue(o)
      /\ cid[o] \in ClientId \cup {NoId} /\ NoId \notin ClientId
      /\ pc[o] \in {"read", "wait", "register"} => cid[o] \in ClientId
  BY OrderFacts DEF OrphanInv, TypeInv, IdsAllocated, RowsInv, FilledInv
<1>1. ASSUME UNCHANGED <<pc[o], cid[o]>>, ~Restart PROVE CallTrue(o)'
  BY <1>0, <1>1, DeadStays, EntryKept DEF CallTrue
<1>2. ASSUME NEW p \in Orders, PlaceCall(p) \/ PlaceStep(p), p # o
      PROVE  UNCHANGED <<pc[o], cid[o]>>
  BY <1>0, <1>2 DEF PlaceCall, PlaceStep, Bump, Send, ReqIds, Register, Read,
                    Wait, Save, Judge, TypeOK
<1>3. CASE PlaceCall(o) \/ PlaceStep(o)
  <2>1. CASE PlaceCall(o) \/ Bump(o) \/ Send(o) \/ ReqIds(o)
    <3>1. \/ pc'[o] = "bump" /\ cid'[o] = NoId
          \/ pc'[o] = "failed" /\ cid'[o] = NoId
          \/ pc'[o] \in {"send", "reqIds", "register"}
      BY <1>0, <2>1 DEF PlaceCall, Bump, Send, ReqIds, CallTrue, TypeOK
    <3> QED BY <3>1 DEF CallTrue
  <2>2. CASE Register(o)
    BY <1>0, <2>2 DEF Register, CallTrue, Placed, TypeOK
  <2>3. CASE Read(o) \/ Wait(o)
    <3>1. UNCHANGED <<cid, open, broker>> /\ pc[o] \in {"read", "wait"}
      BY <2>3 DEF Read, Wait
    <3>2. \/ pc'[o] \in {"wait", "save"}
          \/ /\ pc'[o] = "failed"
             /\ open[cid[o]] = NoEntry \/ open[cid[o]].status = "REJECTED"
      BY <1>0, <2>3 DEF Read, Wait, Judge, TypeOK
    <3>3. pc'[o] = "failed" => Dead(cid[o])
      BY <3>1, <3>2, GivenUp
    <3> QED BY <1>0, <3>1, <3>2, <3>3 DEF CallTrue, Dead
  <2>4. CASE Save(o)
    <3>1. pc'[o] = "recorded"
      BY <1>0, <2>4, CalmStep DEF Save, TypeOK, OrphanInv
    <3> QED BY <3>1 DEF CallTrue
  <2> QED BY <1>3, <2>1, <2>2, <2>3, <2>4 DEF PlaceStep
<1>4. CASE Restart
  <2>1. pc'[o] = "lost" \/ (pc'[o] = pc[o] /\ cid'[o] = cid[o] /\ pc[o] \notin Active)
    BY <1>0, <1>4 DEF Restart, TypeOK
  <2>2. UNCHANGED broker
    BY <1>4 DEF Restart
  <2> QED BY <1>0, <2>1, <2>2 DEF CallTrue, Active, Dead
<1>5. ASSUME \/ \E p \in Orders : CancelSend(p)
             \/ CancelWrite \/ ReaderStep \/ Drop \/ Reconnect \/ UNCHANGED vars
             \/ \E c \in ClientId : Broker(c) \/ Poll(c)
      PROVE  UNCHANGED <<pc, cid>>
  BY <1>5 DEF CancelSend, CancelWrite, ReaderStep, nextValidId, openOrder,
              orderStatus, completedOrder, error, contractDetails, Die, ReaderExit,
              Drop, Reconnect, vars, Broker, Report, Confirm, Cancelled, Fill, Reject,
              Warn, Poll
<1>6. CASE ~Restart
  BY <1>1, <1>2, <1>3, <1>5, <1>6 DEF Next
<1> QED BY <1>4, <1>6

LEMMA OrphansKept == OrphanInv /\ UniqueIds /\ Calm' /\ [Next]_vars => OrphanInv'
<1> SUFFICES ASSUME OrphanInv, UniqueIds, Calm', [Next]_vars PROVE OrphanInv'
  OBVIOUS
<1>1. RowsInv'
  BY RowsKept DEF OrphanInv
<1>2. \A i \in 1 .. Len(inbox') : NewsTrue(inbox[i])'
  BY NewsKept
<1>3. \A c \in ClientId : open'[c].status = "REJECTED" => Dead(c)' \/ Rowed(c)'
  BY RejectedTrue
<1>4. \A o \in Orders : CallTrue(o)'
  BY CallsTrue
<1> QED BY <1>1, <1>2, <1>3, <1>4 DEF OrphanInv

\* As long as it has been calm.
OrphansUnlessFaults == BudgetInv /\ (Calm => OrphanInv)

LEMMA UnlessFaultsKept ==
    RowsInv /\ UniqueIds /\ OrphansUnlessFaults /\ [Next]_vars => OrphansUnlessFaults'
<1> SUFFICES ASSUME RowsInv, UniqueIds, OrphansUnlessFaults, [Next]_vars
             PROVE  OrphansUnlessFaults'
  OBVIOUS
<1>1. TypeOK /\ BudgetInv
  BY DEF OrphansUnlessFaults, RowsInv, FilledInv, TypeInv
<1>2. BudgetInv' /\ (Calm' => Calm)
  BY <1>1, SpentStays
<1> QED BY <1>2, OrphansKept DEF OrphansUnlessFaults

LEMMA InitUnlessFaults == Init => OrphansUnlessFaults
BY InitOrphans, OrderAssumption DEF OrphansUnlessFaults, BudgetInv, Init

\* Where no two calls share a client id, a place_order that raises leaves
\* nothing that trades, until a statement fails or a warning comes: it raises
\* before the send, after TWS has rejected the order, or after a cancellation
\* took the entry away that it looks for.
THEOREM NothingOrphaned == Spec /\ []UniqueIds => []NoOrphans
<1>1. OrphansUnlessFaults => NoOrphans
  BY DEF OrphansUnlessFaults, OrphanInv, CallTrue, Dead, NoOrphans, Standing
<1> QED BY <1>1, InitUnlessFaults, UnlessFaultsKept, RowsAlways, PTL DEF Spec

-----------------------------------------------------------------------------
(* OrderFlow implements OrderLedger, under the same conditions.             *)

\* What the ledger sees of the call of one order.
CallSeen(o) == IF pc[o] \in Active THEN "busy" ELSE pc[o]

\* The steps of the ledger, as far as order o is in them.
BeginMoves(o) ==
    /\ CallSeen(o) = "idle" /\ CallSeen(o)' = "busy"
    /\ UNCHANGED <<Market(o), RowSeen(o)>>
TakeMoves(o) ==
    /\ CallSeen(o) = "busy" /\ Market(o) = "none" /\ Market(o)' = "working"
    /\ UNCHANGED <<CallSeen(o), RowSeen(o)>>
EndMoves(o) ==
    /\ Market(o) = "working" /\ Market(o)' \in {"filled", "dead"}
    /\ UNCHANGED <<CallSeen(o), RowSeen(o)>>
RecordMoves(o) ==
    /\ CallSeen(o) = "busy" /\ Market(o) # "none" /\ CallSeen(o)' = "recorded"
    /\ RowSeen(o)' # "none" /\ (RowSeen(o)' = "filled" => Market(o) = "filled")
    /\ UNCHANGED Market(o)
FailMoves(o) ==
    /\ CallSeen(o) \in {"idle", "busy"} /\ Market(o) \in {"none", "dead"}
    /\ CallSeen(o)' = "failed"
    /\ UNCHANGED <<Market(o), RowSeen(o)>>
UpdateMoves(o) ==
    /\ RowSeen(o) # "none" /\ RowSeen(o)' # "none"
    /\ RowSeen(o)' = "filled" => Market(o) = "filled"
    /\ ~(RowSeen(o) = "filled" /\ RowSeen(o)' = "open")
    /\ UNCHANGED <<CallSeen(o), Market(o)>>
Moves(o) == \/ BeginMoves(o) \/ TakeMoves(o) \/ EndMoves(o) \/ RecordMoves(o)
            \/ FailMoves(o) \/ UpdateMoves(o)
Rests(o) == UNCHANGED <<CallSeen(o), Market(o), RowSeen(o)>>

LedgerStep == Ledger!Next \/ UNCHANGED Ledger!vars

LEMMA AllRest ==
    ASSUME \A o \in Orders : Rests(o) PROVE LedgerStep
BY DEF Rests, LedgerStep, Ledger!vars, CallSeen

\* One order moves, the others rest: a step of the ledger.
LEMMA OneMoves ==
    ASSUME NEW o \in Orders, Moves(o),
           \A p \in Orders : p # o => Rests(p)
    PROVE  LedgerStep
<1> DEFINE call == [p \in Orders |-> CallSeen(p)]
           market == [p \in Orders |-> Market(p)]
           row == [p \in Orders |-> RowSeen(p)]
<1>1. /\ CallSeen(o)' # CallSeen(o) =>
            call' = [call EXCEPT ![o] = CallSeen(o)']
      /\ CallSeen(o)' = CallSeen(o) => call' = call
  BY DEF Rests
<1>2. /\ market' = [market EXCEPT ![o] = Market(o)']
      /\ Market(o)' = Market(o) => market' = market
  BY DEF Rests
<1>3. /\ row' = [row EXCEPT ![o] = RowSeen(o)']
      /\ RowSeen(o)' = RowSeen(o) => row' = row
  BY DEF Rests
<1>4. RowSeen(o)' \in {"none", "open", "filled", "cancelled"}
  BY DEF RowSeen
<1> QED BY <1>1, <1>2, <1>3, <1>4
        DEF Moves, BeginMoves, TakeMoves, EndMoves, RecordMoves, FailMoves,
            UpdateMoves, LedgerStep, CallSeen,
            Ledger!Next, Ledger!Call, Ledger!Take, Ledger!End, Ledger!Record,
            Ledger!Fail, Ledger!Update, Ledger!May

\* The broker knows no id that no call has. An id that the counter reaches is
\* therefore new to the broker where no two calls share one.
OwnersInv == \A c \in ClientId : broker[c] # "none" => \E o \in Orders : cid[o] = c
LedgerInv == OrphanInv /\ OwnersInv

LEMMA LedgerFacts ==
    ASSUME LedgerInv
    PROVE  /\ RowsInv /\ TypeInv /\ TypeOK /\ OwnersInv /\ NoId \notin ClientId
           /\ \A o \in Orders : /\ CallTrue(o) /\ OrderTrue(o) /\ OrderReal(o)
                                /\ Standing(o) \in BrokerState
BY DEF LedgerInv, OrphanInv, RowsInv, FilledInv, OrdersReal, TypeInv, TypeOK,
       NoId, ClientId, Standing, BrokerState

LEMMA OwnersKept ==
    ASSUME LedgerInv, [Next]_vars PROVE OwnersInv'
<1> SUFFICES ASSUME NEW c \in ClientId, broker'[c] # "none"
             PROVE  \E o \in Orders : cid'[o] = c
  BY DEF OwnersInv
<1> USE DEF Client, place, client, session
<1>0. RowsInv /\ TypeOK /\ NoId \notin ClientId
      /\ (broker[c] # "none" => \E o \in Orders : cid[o] = c)
  BY LedgerFacts DEF OwnersInv
<1>1. ASSUME UNCHANGED cid, broker[c] # "none" PROVE \E o \in Orders : cid'[o] = c
  BY <1>0, <1>1
<1>2. ASSUME NEW o \in Orders, Bump(o) PROVE \E p \in Orders : cid'[p] = c
  <2>1. cid[o] = NoId /\ UNCHANGED broker
    BY <1>2, LedgerFacts DEF Bump, CallTrue
  <2>2. PICK p \in Orders : cid[p] = c
    BY <1>0, <2>1
  <2>3. cid'[p] = c
    BY <1>0, <1>2, <2>1, <2>2 DEF Bump, TypeOK
  <2> QED BY <2>3
<1>3. ASSUME NEW o \in Orders, Send(o) PROVE \E p \in Orders : cid'[p] = c
  <2>1. UNCHANGED cid /\ (broker[c] # "none" \/ cid[o] = c)
    BY <1>0, <1>3 DEF Send, TypeOK
  <2> QED BY <1>1, <2>1
<1>4. ASSUME NEW o \in Orders, PlaceCall(o) \/ PlaceStep(o) PROVE \E p \in Orders : cid'[p] = c
  <2>1. CASE UNCHANGED <<cid, broker>>
    BY <1>1, <2>1
  <2> QED BY <1>2, <1>3, <1>4, <2>1
          DEF PlaceCall, PlaceStep, ReqIds, Register, Read, Wait, Save
<1>5. ASSUME NEW o \in Orders, CancelSend(o) PROVE \E p \in Orders : cid'[p] = c
  <2>1. db[o].perm # NoId /\ UNCHANGED cid
    BY <1>5 DEF CancelSend
  <2>2. broker[db[o].perm] \in Ack
    BY <2>1, LedgerFacts DEF OrderReal, OrderTrue, Recorded, NoRow
  <2>3. broker[c] # "none"
    BY <1>0, <1>5, <2>2 DEF CancelSend, Cancelled, TypeOK, Ack, Live
  <2> QED BY <1>1, <2>1, <2>3
<1>6. ASSUME NEW d \in ClientId, Broker(d) \/ Poll(d) PROVE \E p \in Orders : cid'[p] = c
  <2>1. UNCHANGED cid /\ broker[c] # "none"
    BY <1>0, <1>6 DEF Broker, Report, Confirm, Cancelled, Fill, Reject, Warn, Poll, TypeOK
  <2> QED BY <1>1, <2>1
<1>7. CASE Restart
  <2>1. UNCHANGED broker
    BY <1>7 DEF Restart
  <2>2. PICK o \in Orders : cid[o] = c
    BY <1>0, <2>1
  <2>3. cid'[o] = c
    BY <1>0, <1>7, <2>1, <2>2 DEF Restart, Standing
  <2> QED BY <2>3
<1>8. CASE CancelWrite \/ ReaderStep \/ Drop \/ Reconnect \/ UNCHANGED vars
  <2>1. UNCHANGED <<cid, broker>>
    BY <1>8 DEF CancelWrite, ReaderStep, nextValidId, openOrder, orderStatus,
                completedOrder, error, contractDetails, Die, ReaderExit, Drop, Reconnect, vars
  <2> QED BY <1>1, <2>1
<1> QED BY <1>4, <1>5, <1>6, <1>7, <1>8 DEF Next

\* What each state of the broker is in the ledger.
LEMMA Marketed ==
    ASSUME NEW s \in BrokerState
    PROVE  /\ MarketOf[s] = "none" <=> s = "none"
           /\ MarketOf[s] = "working" <=> s \in {"new"} \cup Live
           /\ MarketOf[s] = "filled" <=> s = "Filled"
           /\ MarketOf[s] = "dead" <=> s \in {"Cancelled", "Inactive"}
BY DEF MarketOf, BrokerState, IBStatus, Live

\* An order of which nothing changed rests.
LEMMA Untouching ==
    ASSUME NEW p,
           pc'[p] = pc[p] \/ (pc[p] \in Active /\ pc'[p] \in Active),
           Standing(p)' = Standing(p), db'[p] = db[p]
    PROVE  Rests(p)
BY DEF Rests, CallSeen, Market, RowSeen, Recorded

\* The broker's state of one id is that of one order, or of none.
LEMMA OthersRest ==
    ASSUME LedgerInv, UniqueIds, NEW c \in ClientId, NEW s,
           broker' = [broker EXCEPT ![c] = s], UNCHANGED <<cid, db>>,
           NEW p \in Orders, cid[p] # c, UNCHANGED pc[p]
    PROVE  Rests(p)
<1>1. Standing(p)' = Standing(p)
  BY LedgerFacts DEF Standing, TypeOK
<1> QED BY <1>1, Untouching

\* The market ends an order or goes on with it.
LEMMA MarketMoves ==
    ASSUME LedgerInv, UniqueIds, NEW c \in ClientId, NEW s \in BrokerState,
           broker' = [broker EXCEPT ![c] = s], UNCHANGED <<pc, cid, db>>,
           broker[c] \in {"new"} \cup Live, s # "none"
    PROVE  LedgerStep
<1>1. CASE \A p \in Orders : cid[p] # c
  BY <1>1, OthersRest, AllRest
<1>2. ASSUME NEW o \in Orders, cid[o] = c PROVE LedgerStep
  <2>1. \A p \in Orders : p # o => Rests(p)
    <3>1. \A p \in Orders : p # o => cid[p] # c
      BY <1>2, LedgerFacts DEF UniqueIds
    <3> QED BY <3>1, OthersRest
  <2>2. Standing(o) = broker[c] /\ Standing(o)' = s
    BY <1>2, LedgerFacts DEF Standing, TypeOK
  <2>3. UNCHANGED <<CallSeen(o), RowSeen(o)>>
    BY DEF CallSeen, RowSeen, Recorded
  <2>4. Market(o) = "working" /\ Market(o)' \in {"working", "filled", "dead"}
    <3>1. broker[c] \in BrokerState
      BY LedgerFacts DEF TypeOK
    <3>2. s \in {"new", "Filled", "Cancelled", "Inactive"} \cup Live
      BY DEF BrokerState, IBStatus, Live
    <3>3. Market(o) = MarketOf[broker[c]] /\ Market(o)' = MarketOf[s]
      BY <2>2 DEF Market
    <3> QED BY <3>1, <3>2, <3>3, Marketed
  <2> QED BY <2>1, <2>3, <2>4, OneMoves, AllRest DEF Moves, EndMoves, Rests
<1> QED BY <1>1, <1>2

\* An UPDATE of the rows of one broker id is an update of one order's row, and
\* says what is true.
LEMMA RowMoves ==
    ASSUME LedgerInv, RowsInv', UniqueIds, [Next]_vars,
           UNCHANGED <<pc, cid, broker>>,
           NEW c \in ClientId, NEW s \in OrderStatus, db' = UpdateRows(c, s),
           CancelWrite => s = "CANCELLED"
    PROVE  LedgerStep
<1>0. \A p \in Orders : Standing(p)' = Standing(p)
  BY DEF Standing
<1>1. ASSUME NEW p \in Orders, db[p].perm # c PROVE Rests(p)
  <2>1. db'[p] = db[p]
    BY <1>1 DEF UpdateRows
  <2> QED BY <1>0, <2>1, Untouching
<1>2. CASE \A p \in Orders : db[p].perm # c
  BY <1>1, <1>2, AllRest
<1>3. ASSUME NEW o \in Orders, db[o].perm = c PROVE LedgerStep
  <2>0. /\ TypeOK /\ RowsInv /\ NoId \notin ClientId
        /\ \A p \in Orders : db[p].perm \in {NoId, cid[p]}
    BY LedgerFacts DEF OrderReal
  <2>1. \A p \in Orders : p # o => Rests(p)
    <3>1. \A p \in Orders : p # o => db[p].perm # c
      BY <1>3, <2>0 DEF UniqueIds
    <3> QED BY <1>1, <3>1
  <2>2. db'[o] = [db[o] EXCEPT !.status = s]
    BY <1>3 DEF UpdateRows
  <2>3. db'[o].status = s /\ db'[o].perm = c /\ db[o] # NoRow /\ db'[o] # NoRow
    BY <1>3, <2>0, <2>2 DEF TypeOK, Row, NoRow
  <2>4. s = "FILLED" => Market(o) = "filled"
    <3>1. s = "FILLED" => Standing(o)' = "Filled"
      BY <2>3 DEF RowsInv, FilledInv, OrdersReal, OrderReal
    <3> QED BY <1>0, <3>1, Marketed, LedgerFacts DEF Market
  <2>5. ~(db[o].status = "FILLED" /\ s \notin {"FILLED", "CANCELLED"})
    BY <2>0, <2>3, OnlyCancelled
  <2>6. UNCHANGED <<CallSeen(o), Market(o)>>
    BY <1>0 DEF CallSeen, Market
  <2>7. UpdateMoves(o)
    BY <2>3, <2>4, <2>5, <2>6 DEF UpdateMoves, RowSeen, Recorded
  <2> QED BY <2>1, <2>7, OneMoves DEF Moves
<1> QED BY <1>2, <1>3

\* A step of place_order.
LEMMA PlaceMoves ==
    ASSUME LedgerInv, Calm', UniqueIds, UniqueIds', RowsInv', [Next]_vars,
           NEW o \in Orders, PlaceCall(o) \/ PlaceStep(o)
    PROVE  LedgerStep
<1> USE DEF client, session, Goto
<1>0. /\ TypeOK /\ NoId \notin ClientId
      /\ CallTrue(o) /\ OrderTrue(o) /\ OrderReal(o)
      /\ Standing(o) \in BrokerState
  BY LedgerFacts
<1>1. ASSUME UNCHANGED <<cid, db, broker>>,
             \A p \in Orders : p # o => pc'[p] = pc[p]
      PROVE  \A p \in Orders : /\ Standing(p)' = Standing(p)
                               /\ UNCHANGED <<Market(p), RowSeen(p)>>
                               /\ p # o => Rests(p)
  <2>1. \A p \in Orders : Standing(p)' = Standing(p)
    BY <1>1 DEF Standing
  <2> QED BY <1>1, <2>1, Untouching DEF Market, RowSeen, Recorded
<1>2. ASSUME \A p \in Orders : UNCHANGED <<Standing(p), db[p]>>,
             \A p \in Orders : p # o => pc'[p] = pc[p],
             pc[o] \in Active, pc'[o] \in Active
      PROVE  LedgerStep
  BY <1>2, Untouching, AllRest
<1>3. CASE PlaceCall(o)
  <2>1. /\ pc[o] = "idle" /\ pc'[o] \in {"bump", "failed"}
        /\ UNCHANGED <<cid, db, broker>> /\ \A p \in Orders : p # o => pc'[p] = pc[p]
    BY <1>0, <1>3 DEF PlaceCall, TypeOK
  <2>2. Market(o) = "none"
    BY <1>0, <2>1, Marketed DEF CallTrue, Standing, Market
  <2>3. CallSeen(o) = "idle" /\ CallSeen(o)' \in {"busy", "failed"}
    BY <2>1 DEF CallSeen, Active, Inside
  <2>4. BeginMoves(o) \/ FailMoves(o)
    BY <1>1, <2>1, <2>2, <2>3 DEF BeginMoves, FailMoves
  <2> QED BY <1>1, <2>1, <2>4, OneMoves DEF Moves
<1>4. CASE Bump(o) /\ next = NoId
  <2>1. /\ pc[o] = "bump" /\ pc'[o] = "failed"
        /\ UNCHANGED <<cid, db, broker>> /\ \A p \in Orders : p # o => pc'[p] = pc[p]
    BY <1>0, <1>4 DEF Bump, TypeOK
  <2>2. Market(o) = "none"
    BY <1>0, <2>1, Marketed DEF CallTrue, Standing, Market
  <2>3. CallSeen(o) = "busy" /\ CallSeen(o)' = "failed"
    BY <2>1 DEF CallSeen, Active, Inside
  <2>4. FailMoves(o)
    BY <1>1, <2>1, <2>2, <2>3 DEF FailMoves
  <2> QED BY <1>1, <2>1, <2>4, OneMoves DEF Moves
<1>5. CASE Bump(o) /\ next # NoId
  <2>1. /\ pc[o] = "bump" /\ pc'[o] = "send" /\ UNCHANGED <<db, broker>>
        /\ \A p \in Orders : p # o => pc'[p] = pc[p] /\ cid'[p] = cid[p]
        /\ cid[o] = NoId /\ cid'[o] \in ClientId
    <3>1. cid'[o] = next + 1 /\ next \in 0 .. MaxId + 1 /\ next < MaxId
      BY <1>0, <1>5 DEF Bump, TypeOK
    <3>2. cid'[o] \in ClientId
      BY <3>1, OrderAssumption DEF ClientId
    <3> QED BY <1>0, <1>5, <3>2 DEF Bump, TypeOK, CallTrue
  <2>2. broker[cid'[o]] = "none"
    <3>1. \A p \in Orders : cid[p] # cid'[o]
      BY <1>0, <2>1 DEF UniqueIds
    <3> QED BY <2>1, <3>1, LedgerFacts DEF OwnersInv
  <2>3. \A p \in Orders : Standing(p)' = Standing(p)
    BY <1>0, <2>1, <2>2 DEF Standing
  <2> QED BY <1>2, <2>1, <2>3 DEF Active, Inside
<1>6. CASE Send(o)
  <2>1. /\ pc[o] = "send" /\ pc'[o] = "reqIds" /\ UNCHANGED <<cid, db>>
        /\ \A p \in Orders : p # o => pc'[p] = pc[p]
        /\ cid[o] \in ClientId
    BY <1>0, <1>6, LedgerFacts DEF Send, TypeOK, TypeInv, IdsAllocated, Inside
  <2>2. CASE UNCHANGED broker
    BY <1>2, <2>1, <2>2 DEF Standing, Active, Inside
  <2>3. CASE broker[cid[o]] = "none" /\ broker' = [broker EXCEPT ![cid[o]] = "new"]
    <3>1. \A p \in Orders : p # o => Rests(p)
      <4>1. \A p \in Orders : p # o => cid[p] # cid[o]
        BY <1>0, <2>1 DEF UniqueIds
      <4> QED BY <2>1, <2>3, <4>1, OthersRest
    <3>2. Standing(o) = "none" /\ Standing(o)' = "new"
      BY <1>0, <2>1, <2>3 DEF Standing, TypeOK
    <3>3. Market(o) = "none" /\ Market(o)' = "working"
      BY <3>2, Marketed DEF Market, BrokerState
    <3>4. TakeMoves(o)
      BY <2>1, <3>3 DEF TakeMoves, CallSeen, RowSeen, Recorded, Active, Inside
    <3> QED BY <3>1, <3>4, OneMoves DEF Moves
  <2> QED BY <1>6, <2>2, <2>3 DEF Send
<1>7. CASE ReqIds(o) \/ Register(o)
  <2>1. /\ pc[o] \in Active /\ pc'[o] \in Active /\ UNCHANGED <<cid, db, broker>>
        /\ \A p \in Orders : p # o => pc'[p] = pc[p]
    BY <1>0, <1>7 DEF ReqIds, Register, TypeOK, Active, Inside
  <2> QED BY <1>1, <1>2, <2>1
<1>8. CASE Read(o) \/ Wait(o)
  <2>1. /\ pc[o] \in {"read", "wait"} /\ UNCHANGED <<cid, db, open, broker>>
        /\ \A p \in Orders : p # o => pc'[p] = pc[p]
    BY <1>0, <1>8 DEF Read, Wait, Judge, TypeOK
  <2>2. \/ pc'[o] \in {"wait", "save"}
        \/ /\ pc'[o] = "failed"
           /\ open[cid[o]] = NoEntry \/ open[cid[o]].status = "REJECTED"
    BY <1>0, <1>8 DEF Read, Wait, Judge, TypeOK
  <2>3. CASE pc'[o] \in {"wait", "save"}
    BY <1>1, <1>2, <2>1, <2>3 DEF Active
  <2>4. CASE pc'[o] = "failed"
    <3>1. Dead(cid[o]) /\ cid[o] \in ClientId
      BY <2>1, <2>2, <2>4, GivenUp, LedgerFacts
         DEF LedgerInv, TypeInv, IdsAllocated
    <3>2. Market(o) = "dead"
      BY <1>0, <3>1, Marketed DEF Dead, Standing, Market
    <3>3. CallSeen(o) = "busy" /\ CallSeen(o)' = "failed"
      BY <2>1, <2>4 DEF CallSeen, Active, Inside
    <3>4. FailMoves(o)
      BY <1>1, <2>1, <3>2, <3>3 DEF FailMoves
    <3> QED BY <1>1, <2>1, <3>4, OneMoves DEF Moves
  <2> QED BY <2>2, <2>3, <2>4
<1>9. CASE Save(o)
  <2>1. /\ pc[o] = "save" /\ pc'[o] = "recorded" /\ UNCHANGED <<cid, broker>>
        /\ db'[o] = saw[o] /\ \A p \in Orders : p # o => pc'[p] = pc[p] /\ db'[p] = db[p]
    BY <1>0, <1>9, CalmStep DEF Save, TypeOK, LedgerInv, OrphanInv
  <2>2. \A p \in Orders : Standing(p)' = Standing(p)
    BY <2>1 DEF Standing
  <2>3. \A p \in Orders : p # o => Rests(p)
    BY <2>1, <2>2, Untouching
  <2>4. Standing(o) \in Ack
    BY <1>0, <2>1, LedgerFacts DEF OrderTrue, Standing, TypeInv, IdsAllocated
  <2>5. Market(o) # "none" /\ Market(o)' = Market(o)
    BY <1>0, <2>2, <2>4, Marketed DEF Market, Ack, Live
  <2>6. RowSeen(o)' # "none"
    BY <1>0, <2>1 DEF OrderTrue, RowSeen, Recorded, NoRow
  <2>7. RowSeen(o)' = "filled" => Market(o) = "filled"
    <3>1. db'[o].status = "FILLED" => Standing(o)' = "Filled"
      BY DEF RowsInv, FilledInv, OrdersReal, OrderReal
    <3> QED BY <1>0, <2>2, <3>1, Marketed DEF RowSeen, Market
  <2>8. RecordMoves(o)
    BY <2>1, <2>5, <2>6, <2>7 DEF RecordMoves, CallSeen, Active, Inside
  <2> QED BY <2>3, <2>8, OneMoves DEF Moves
<1> QED BY <1>3, <1>4, <1>5, <1>6, <1>7, <1>8, <1>9 DEF PlaceStep

\* Every step of OrderFlow is one of the ledger, or none.
LEMMA LedgerMoves ==
    ASSUME LedgerInv, LedgerInv', UniqueIds, UniqueIds', [Next]_vars
    PROVE  LedgerStep
<1> USE DEF Client, place, client, session
<1>0. /\ TypeOK /\ RowsInv /\ RowsInv' /\ NoId \notin ClientId
      /\ ~Spend("dbFault") /\ ~Spend("warning")
  BY LedgerFacts, CalmStep DEF LedgerInv, OrphanInv
<1>1. ASSUME UNCHANGED <<pc, cid, broker, db>> PROVE LedgerStep
  BY <1>1, Untouching, AllRest DEF Standing
<1>2. ASSUME NEW o \in Orders, CancelSend(o) PROVE LedgerStep
  <2> DEFINE c == db[o].perm
  <2>1. /\ c \in ClientId /\ UNCHANGED <<pc, cid, db>>
        /\ \/ UNCHANGED broker
           \/ /\ broker[c] \notin Terminal
              /\ \E s \in {"Cancelled", "PendingCancel"} : broker' = [broker EXCEPT ![c] = s]
    BY <1>0, <1>2 DEF CancelSend, Cancelled, TypeOK, Row
  <2>2. broker[c] \in Ack
    BY <1>0, <2>1, LedgerFacts DEF OrderReal, OrderTrue, Recorded, NoRow
  <2>3. CASE UNCHANGED broker
    BY <1>1, <2>1, <2>3
  <2>4. ASSUME NEW s \in {"Cancelled", "PendingCancel"}, broker[c] \notin Terminal,
               broker' = [broker EXCEPT ![c] = s]
        PROVE  LedgerStep
    <3>1. broker[c] \in Live /\ s \in BrokerState
      BY <2>2, <2>4 DEF Ack, Terminal, BrokerState, IBStatus
    <3> HIDE DEF c
    <3> QED BY <2>1, <2>4, <3>1, MarketMoves
  <2> QED BY <2>1, <2>3, <2>4
<1>3. CASE CancelWrite
  <2>1. /\ UNCHANGED <<pc, cid, broker>> /\ cancelling \in ClientId
        /\ db' = UpdateRows(cancelling, "CANCELLED")
    BY <1>0, <1>3 DEF CancelWrite, TypeOK
  <2> QED BY <1>0, <2>1, RowMoves DEF OrderStatus
<1>4. ASSUME NEW t \in Reported, Receive(t), UNCHANGED <<pc, cid, broker>>, ~CancelWrite,
             Notify(Head(inbox).id, IB_STATUS_MAP[Head(inbox).status])
      PROVE  LedgerStep
  <2> DEFINE c == Head(inbox).id  s == IB_STATUS_MAP[Head(inbox).status]
  <2>1. c \in ClientId /\ s \in OrderStatus /\ db' = UpdateRows(c, s)
    BY <1>0, <1>4, ReceivedTold DEF Notify
  <2> HIDE DEF c, s
  <2> QED BY <1>0, <1>4, <2>1, RowMoves
<1>5. CASE ReaderStep
  <2>1. UNCHANGED <<pc, cid, broker, cancelling>> /\ ~CancelWrite
    BY <1>5 DEF ReaderStep, nextValidId, openOrder, orderStatus, completedOrder,
                error, contractDetails, Die, ReaderExit, CancelWrite
  <2>2. CASE UNCHANGED db
    BY <1>1, <2>1, <2>2
  <2> QED BY <1>4, <1>5, <2>1, <2>2
          DEF ReaderStep, nextValidId, openOrder, orderStatus, completedOrder,
              error, contractDetails, Die, ReaderExit, Reported, Callback
<1>6. ASSUME NEW c \in ClientId, Broker(c) \/ Poll(c) PROVE LedgerStep
  <2>1. CASE UNCHANGED broker
    BY <1>1, <1>6, <2>1 DEF Broker, Report, Confirm, Cancelled, Fill, Reject, Warn, Poll
  <2>2. CASE Report(c) \/ Confirm(c) \/ Fill(c) \/ Reject(c)
    <3>1. PICK s \in IBStatus : broker' = [broker EXCEPT ![c] = s]
      BY <2>2 DEF Report, Confirm, Cancelled, Fill, Reject, IBStatus
    <3>2. /\ broker[c] \in {"new"} \cup Live
          /\ UNCHANGED <<pc, cid, db>>
      BY <2>2 DEF Report, Confirm, Fill, Reject, Live
    <3>3. s \in BrokerState /\ s # "none"
      BY DEF BrokerState, IBStatus
    <3> QED BY <3>1, <3>2, <3>3, MarketMoves
  <2> QED BY <1>6, <2>1, <2>2 DEF Broker, Warn, Poll
<1>7. CASE Drop \/ Reconnect \/ UNCHANGED vars
  BY <1>1, <1>7 DEF Drop, Reconnect, vars
<1>8. CASE Restart
  <2>1. /\ UNCHANGED <<db, broker>>
        /\ \A o \in Orders : /\ pc'[o] = IF pc[o] \in Active THEN "lost" ELSE pc[o]
                             /\ cid'[o] = cid[o] \/ (cid'[o] = NoId /\ Standing(o) = "none")
    BY <1>0, <1>8 DEF Restart, TypeOK
  <2>2. \A o \in Orders : Standing(o)' = Standing(o)
    BY <2>1 DEF Standing
  <2>3. \A o \in Orders : UNCHANGED <<Market(o), RowSeen(o)>>
    BY <2>1, <2>2 DEF Market, RowSeen, Recorded
  <2>4. \A o \in Orders : CallSeen(o)' = IF CallSeen(o) = "busy" THEN "lost" ELSE CallSeen(o)
    BY <1>0, <2>1 DEF CallSeen, TypeOK, Active, Inside, Done
  <2> QED BY <2>3, <2>4 DEF LedgerStep, Ledger!Next, Ledger!Crash, CallSeen
<1> QED BY <1>2, <1>3, <1>5, <1>6, <1>7, <1>8, PlaceMoves, <1>0 DEF Next, LedgerInv, OrphanInv

\* In a behaviour that stays calm, too, OrderFlow implements OrderLedger: with all its
\* threads, callbacks and faults the order manager offers an order to the market
\* once, records only what has been there, and a call that fails leaves nothing.
THEOREM LedgerImplemented ==
    Spec /\ []UniqueIds /\ []Calm => ImplementsLedger
<1>1. Init => LedgerInv /\ Ledger!Init
  <2> SUFFICES ASSUME Init PROVE LedgerInv /\ Ledger!Init
    OBVIOUS
  <2>1. OrphanInv /\ OwnersInv
    BY InitOrphans DEF OwnersInv, Init
  <2>2. \A o \in Orders : /\ pc[o] = "idle" /\ pc[o] \notin Active
                          /\ Standing(o) = "none" /\ ~Recorded(o)
    BY DEF Init, Active, Inside, Standing, Recorded
  <2>3. \A o \in Orders : Market(o) = "none" /\ RowSeen(o) = "none"
    BY <2>2, Marketed DEF Market, RowSeen, BrokerState
  <2> QED BY <2>1, <2>2, <2>3 DEF LedgerInv, Ledger!Init
<1>2. LedgerInv /\ UniqueIds /\ Calm' /\ [Next]_vars => LedgerInv'
  BY OrphansKept, OwnersKept DEF LedgerInv
<1>3. LedgerInv /\ LedgerInv' /\ UniqueIds /\ UniqueIds' /\ [Next]_vars
        => [Ledger!Next]_(Ledger!vars)
  BY LedgerMoves DEF LedgerStep
<1> QED BY <1>1, <1>2, <1>3, PTL DEF Spec, ImplementsLedger, Ledger!Spec

-----------------------------------------------------------------------------
(***************************************************************************)
(* Client order ids: while the session stays up, no two calls of            *)
(* IB.place_order get the same one, although the reader thread overwrites   *)
(* the counter with what TWS answered to an earlier reqIds without holding  *)
(* order_lock. Two things make it so. Core has two threads that place       *)
(* orders, and TWS reports on an order after it has answered the reqIds     *)
(* that follows it, so that the thread that waits for the report is still   *)
(* busy while that answer is under way. Then, when the session stays up, and *)
(* with it what was shown above under the condition that ids are unique.     *)
(***************************************************************************)


-----------------------------------------------------------------------------
(* The inductive invariant.                                                *)

\* An answer to reqIds that the reader has not handled.
Pending(i) == inbox[i].type = "nextValidId"

\* The calls a message about their order could not be for yet.
Waiting == {"register", "read", "wait"}

\* Order p is the one whose reqIds message i answers: its id is the one before,
\* nothing about it comes earlier, so that its call still waits.
Owns(p, i) ==
    /\ cid[p] # NoId /\ inbox[i].id = cid[p] + 1
    /\ pc[p] \in Waiting
    /\ pc[p] # "register" => open[cid[p]] = Placed
    /\ \A j \in 1 .. i : ~Pending(j) => inbox[j].id # cid[p]

\* One call at a time in each thread, and one inside order_lock.
ThreadsInv ==
    /\ \A o1, o2 \in Orders :
          pc[o1] \in Active /\ pc[o2] \in Active /\ o1 # o2
              => PlacerOf[o1] # PlacerOf[o2]
    /\ \A o \in Orders : pc[o] \in Inside <=> lock = o

\* The ids given out, and those the broker knows.
GivenInv ==
    /\ UniqueIds
    /\ \A o \in Orders : pc[o] \in {"idle", "bump"} => cid[o] = NoId
    /\ \A o \in Orders : cid[o] # NoId /\ pc[o] # "send" => Standing(o) # "none"
    /\ \A o \in Orders : pc[o] \in Inside => Standing(o) \in {"none", "new"}
    /\ \A c \in ClientId : broker[c] # "none" => \E o \in Orders : cid[o] = c
    /\ \A i \in 1 .. Len(inbox) :
          ~Pending(i) => broker[inbox[i].id] \notin {"none", "new"}

\* No id was given out that is above the counter, or above what the answers
\* under way will set it to.
AboveInv ==
    /\ \A o \in Orders :
          /\ next # NoId => cid[o] <= next
          /\ \A i \in 1 .. Len(inbox) : Pending(i) => cid[o] <= inbox[i].id
    /\ \A q \in Orders : pc[q] \in {"send", "reqIds"} =>
          next = cid[q] /\ \A o \in Orders : cid[o] <= cid[q]

\* The answers to reqIds that are under way.
PendingInv ==
    /\ \A i, j \in 1 .. Len(inbox) :
          Pending(i) /\ Pending(j) /\ i < j => inbox[i].id < inbox[j].id
    /\ next # NoId => \A i \in 1 .. Len(inbox) : Pending(i) =>
          /\ \E p \in Orders : Owns(p, i)
          /\ next <= inbox[i].id
          /\ next = inbox[i].id =>
                \/ \E q \in Orders : pc[q] \in {"send", "reqIds"}
                \/ \E j \in 1 .. Len(inbox) :
                      Pending(j) /\ inbox[j].id = inbox[i].id + 1

\* A session that has just begun has not told its first id: nobody has got one.
FreshInv ==
    next = NoId =>
        /\ \A o \in Orders : pc[o] \notin Inside \cup {"read", "wait", "save"}
        /\ \A i, j \in 1 .. Len(inbox) : Pending(i) /\ Pending(j) => i = j
        /\ \A o \in Orders, i \in 1 .. Len(inbox) : Pending(i) => cid[o] < inbox[i].id

IdsInv == ThreadsInv /\ GivenInv /\ AboveInv /\ PendingInv /\ FreshInv

\* TWS reports on an order only when place_order has left order_lock, and two
\* threads place orders: the hedge engine's and the RPC server's.
Desk == /\ EarlyAck = FALSE
        /\ \A s, t, u \in Placers : s = t \/ t = u \/ s = u

LEMMA InitIds == Init => IdsInv
<1> SUFFICES ASSUME Init PROVE IdsInv
  OBVIOUS
<1>1. Len(inbox) = 1 /\ inbox[1] = NextId(1) /\ next = NoId
  BY DEF Init
<1>2. \A o \in Orders : pc[o] = "idle" /\ cid[o] = NoId /\ lock = NoOrder
  BY DEF Init
<1>3. ThreadsInv
  BY <1>2, OrderAssumption DEF ThreadsInv, Active, Inside
<1>4. \A i \in 1 .. Len(inbox) : i = 1 /\ Pending(i) /\ inbox[i].id = 1
  BY <1>1 DEF Pending, NextId
<1>5. GivenInv
  BY <1>2, <1>4 DEF GivenInv, UniqueIds, Inside, Init
<1>6. AboveInv /\ PendingInv /\ FreshInv
  BY <1>1, <1>2, <1>4 DEF AboveInv, PendingInv, FreshInv, NoId, Inside
<1> QED BY <1>3, <1>5, <1>6 DEF IdsInv

-----------------------------------------------------------------------------
(* What happens to the queue, by position.                                 *)

\* Messages have joined, all of them about orders that the broker knows.
Joined ==
    /\ Len(inbox) <= Len(inbox')
    /\ \A k \in 1 .. Len(inbox) : inbox'[k] = inbox[k]
    /\ \A k \in 1 .. Len(inbox') : k > Len(inbox) =>
          ~Pending(k)' /\ broker'[inbox'[k].id] \notin {"none", "new"}

\* The first message has left.
Left ==
    /\ inbox # <<>> /\ Len(inbox') = Len(inbox) - 1
    /\ \A k \in 1 .. Len(inbox') : inbox'[k] = inbox[k + 1]

LEMMA AppendedJoin ==
    ASSUME TypeInv, NEW ms \in Seq(Message), inbox' = inbox \o ms,
           \A k \in 1 .. Len(ms) :
              /\ ms[k].type # "nextValidId"
              /\ broker'[ms[k].id] \notin {"none", "new"}
    PROVE  Joined
<1>1. inbox \in Seq(Message)
  BY DEF TypeInv, TypeOK
<1>2. /\ Len(inbox') = Len(inbox) + Len(ms)
      /\ \A k \in 1 .. Len(inbox) : inbox'[k] = inbox[k]
      /\ \A k \in 1 .. Len(inbox') : k > Len(inbox) =>
            k - Len(inbox) \in 1 .. Len(ms) /\ inbox'[k] = ms[k - Len(inbox)]
  BY <1>1
<1> QED BY <1>1, <1>2 DEF Joined, Pending

LEMMA ReceivedLeft ==
    ASSUME TypeInv, NEW t, Receive(t)
    PROVE  Left /\ Head(inbox) = inbox[1] /\ 1 \in 1 .. Len(inbox)
BY DEF TypeInv, TypeOK, Receive, Left

\* The numbers that the invariant compares.
LEMMA Numbers ==
    ASSUME TypeInv
    PROVE  /\ Len(inbox) \in Nat /\ next \in Nat /\ NoId = 0
           /\ \A o \in Orders : cid[o] \in Nat /\ (cid[o] # NoId => cid[o] \in ClientId)
           /\ \A i \in 1 .. Len(inbox) : inbox[i].id \in Nat \ {0}
           /\ \A i \in 1 .. Len(inbox) : ~Pending(i) => inbox[i].id \in ClientId
           /\ ClientId \subseteq Nat \ {0}
           /\ \A c \in ClientId : broker[c] \in BrokerState
<1>1. TypeOK /\ inbox \in Seq(Message) /\ MaxId \in Nat
  BY OrderAssumption DEF TypeInv, TypeOK
<1>2. \A m \in Message : /\ m.id \in Nat \ {0}
                         /\ m.type # "nextValidId" => m.id \in ClientId
  BY <1>1, Fields DEF ClientId
<1> QED BY <1>1, <1>2 DEF TypeOK, NoId, ClientId, Pending

-----------------------------------------------------------------------------
(* Steps of the broker and of cancel_order.                                *)

\* An order stays unknown or known, and the first report of it waits for the
\* end of its IB.place_order.
Reporting ==
    \A c \in ClientId :
        /\ broker'[c] = "none" <=> broker[c] = "none"
        /\ broker[c] \notin {"none", "new"} => broker'[c] \notin {"none", "new"}
        /\ broker[c] = "new" /\ broker'[c] # "new" => Acked(c)

\* Messages that join the queue are no answers, nor earlier than any.
LEMMA MessagesJoin ==
    ASSUME TypeInv, IdsInv, UNCHANGED <<pc, cid, next, lock, open>>, Joined, Reporting
    PROVE  IdsInv'
<1> USE Numbers
<1>1. ThreadsInv'
  BY DEF IdsInv, ThreadsInv
<1>2. GivenInv'
  <2>1. UniqueIds' /\ \A o \in Orders : pc'[o] \in {"idle", "bump"} => cid'[o] = NoId
    BY DEF IdsInv, GivenInv, UniqueIds
  <2>2. \A o \in Orders : cid[o] # NoId /\ pc[o] # "send" => broker'[cid[o]] # "none"
    BY DEF IdsInv, GivenInv, Standing, Reporting
  <2>3. \A o \in Orders : pc[o] \in Inside /\ cid[o] # NoId => broker'[cid[o]] \in {"none", "new"}
    <3> SUFFICES ASSUME NEW o \in Orders, pc[o] \in Inside, cid[o] # NoId
                 PROVE  broker'[cid[o]] \in {"none", "new"}
      OBVIOUS
    <3>1. cid[o] \in ClientId /\ broker[cid[o]] \in {"none", "new"}
      BY DEF IdsInv, GivenInv, Standing
    <3>2. ~Acked(cid[o])
      BY DEF Acked
    <3> QED BY <3>1, <3>2 DEF Reporting
  <2>4. \A c \in ClientId : broker'[c] # "none" => \E o \in Orders : cid[o] = c
    BY DEF IdsInv, GivenInv, Reporting
  <2>5. ASSUME NEW i \in 1 .. Len(inbox'), ~Pending(i)'
        PROVE  broker'[inbox'[i].id] \notin {"none", "new"}
    <3>1. CASE i <= Len(inbox)
      <4>1. i \in 1 .. Len(inbox) /\ inbox'[i] = inbox[i]
        BY <2>5, <3>1 DEF Joined
      <4>2. ~Pending(i) /\ inbox[i].id \in ClientId
        BY <2>5, <4>1 DEF Pending
      <4> QED BY <4>1, <4>2 DEF IdsInv, GivenInv, Reporting
    <3>2. CASE i > Len(inbox)
      BY <2>5, <3>2 DEF Joined
    <3> QED BY <3>1, <3>2, <2>5 DEF Joined
  <2> QED BY <2>1, <2>2, <2>3, <2>4, <2>5 DEF GivenInv, Standing
<1>3. \A i \in 1 .. Len(inbox') : Pending(i)' =>
        i \in 1 .. Len(inbox) /\ Pending(i) /\ inbox'[i] = inbox[i]
  BY DEF Joined, Pending
<1>4. AboveInv'
  BY <1>3 DEF IdsInv, AboveInv
<1>5. PendingInv'
  <2>1. ASSUME NEW i \in 1 .. Len(inbox), Pending(i), NEW p \in Orders, Owns(p, i)
        PROVE  Owns(p, i)'
    <3>1. \A j \in 1 .. i : j \in 1 .. Len(inbox) /\ inbox'[j] = inbox[j]
      BY DEF Joined
    <3>2. \A j \in 1 .. i : ~Pending(j)' => inbox'[j].id # cid[p]
      BY <2>1, <3>1 DEF Owns, Pending
    <3>3. inbox'[i].id = inbox[i].id
      BY DEF Joined
    <3> QED BY <2>1, <3>2, <3>3 DEF Owns
  <2>2. ASSUME NEW i \in 1 .. Len(inbox), NEW j \in 1 .. Len(inbox), Pending(j),
               inbox[j].id = inbox[i].id + 1
        PROVE  \E k \in 1 .. Len(inbox') :
                  Pending(k)' /\ inbox'[k].id = inbox'[i].id + 1
    <3>1. j \in 1 .. Len(inbox') /\ inbox'[j] = inbox[j] /\ inbox'[i] = inbox[i]
      BY DEF Joined
    <3> QED BY <2>2, <3>1 DEF Pending
  <2>3. \A i, j \in 1 .. Len(inbox') :
           Pending(i)' /\ Pending(j)' /\ i < j => inbox'[i].id < inbox'[j].id
    BY <1>3 DEF IdsInv, PendingInv
  <2>4. ASSUME NEW i \in 1 .. Len(inbox'), Pending(i)', next # NoId
        PROVE  /\ \E p \in Orders : Owns(p, i)'
               /\ next <= inbox'[i].id
               /\ next = inbox'[i].id =>
                     \/ \E q \in Orders : pc[q] \in {"send", "reqIds"}
                     \/ \E j \in 1 .. Len(inbox') :
                           Pending(j)' /\ inbox'[j].id = inbox'[i].id + 1
    <3>1. i \in 1 .. Len(inbox) /\ Pending(i) /\ inbox'[i] = inbox[i]
      BY <1>3, <2>4
    <3>2. \E p \in Orders : Owns(p, i)'
      BY <2>1, <2>4, <3>1 DEF IdsInv, PendingInv
    <3> QED BY <2>2, <2>4, <3>1, <3>2 DEF IdsInv, PendingInv
  <2> QED BY <2>3, <2>4 DEF PendingInv
<1>6. FreshInv'
  BY <1>3 DEF IdsInv, FreshInv
<1> QED BY <1>1, <1>2, <1>4, <1>5, <1>6 DEF IdsInv

\* A message that the reader handles tells the order's entry, and no waiting
\* call owns an answer behind it.
LEMMA MessageHandled ==
    ASSUME TypeInv, TypeInv', IdsInv, UNCHANGED <<pc, cid, next, lock, broker>>,
           Left, ~Pending(1),
           \A c \in ClientId : c # inbox[1].id => open'[c] = open[c]
    PROVE  IdsInv'
<1> USE Numbers
<1>0. 1 \in 1 .. Len(inbox) /\ Len(inbox') \in Nat
  BY DEF Left, TypeInv, TypeOK
<1>1. ThreadsInv'
  BY DEF IdsInv, ThreadsInv
<1>2. \A i \in 1 .. Len(inbox') :
        /\ i + 1 \in 1 .. Len(inbox) /\ inbox'[i] = inbox[i + 1]
        /\ Pending(i)' <=> Pending(i + 1)
  BY <1>0 DEF Left, Pending
<1>3. GivenInv'
  BY <1>2 DEF IdsInv, GivenInv, UniqueIds, Standing
<1>4. AboveInv'
  BY <1>2 DEF IdsInv, AboveInv
<1>5. PendingInv'
  <2>1. ASSUME NEW i \in 1 .. Len(inbox'), NEW p \in Orders, Owns(p, i + 1)
        PROVE  Owns(p, i)'
    <3>1. i + 1 \in 1 .. Len(inbox) /\ 1 \in 1 .. i + 1
      BY <1>2
    <3>2. inbox[1].id # cid[p]
      BY <2>1, <3>1 DEF Owns
    <3>3. open'[cid[p]] = open[cid[p]]
      BY <2>1, <3>2 DEF Owns
    <3>4. \A j \in 1 .. i : j \in 1 .. Len(inbox') /\ j + 1 \in 1 .. i + 1
      BY <1>0
    <3>5. \A j \in 1 .. i : ~Pending(j)' => inbox'[j].id # cid[p]
      BY <1>2, <2>1, <3>4 DEF Owns
    <3> QED BY <1>2, <2>1, <3>3, <3>5 DEF Owns
  <2>2. ASSUME NEW i \in 1 .. Len(inbox'), NEW j \in 1 .. Len(inbox), Pending(j),
               inbox[j].id = inbox[i + 1].id + 1
        PROVE  \E k \in 1 .. Len(inbox') :
                  Pending(k)' /\ inbox'[k].id = inbox'[i].id + 1
    <3>1. j - 1 \in 1 .. Len(inbox') /\ j = (j - 1) + 1
      <4>1. j # 1
        BY <2>2
      <4>2. Len(inbox') + 1 = Len(inbox)
        BY DEF Left, TypeInv, TypeOK
      <4> QED BY <1>0, <4>1, <4>2
    <3>2. PICK k \in 1 .. Len(inbox') : j = k + 1
      BY <3>1
    <3>3. /\ inbox'[k] = inbox[j] /\ (Pending(k)' <=> Pending(j))
          /\ inbox'[i] = inbox[i + 1]
      BY <1>2, <3>2
    <3> QED BY <2>2, <3>3
  <2>3. \A i, j \in 1 .. Len(inbox') :
           Pending(i)' /\ Pending(j)' /\ i < j => inbox'[i].id < inbox'[j].id
    <3> SUFFICES ASSUME NEW i \in 1 .. Len(inbox'), NEW j \in 1 .. Len(inbox'),
                        Pending(i)', Pending(j)', i < j
                 PROVE  inbox'[i].id < inbox'[j].id
      OBVIOUS
    <3>1. i + 1 < j + 1
      BY <1>0
    <3> QED BY <1>2, <3>1 DEF IdsInv, PendingInv
  <2>4. ASSUME NEW i \in 1 .. Len(inbox'), Pending(i)', next # NoId
        PROVE  /\ \E p \in Orders : Owns(p, i)'
               /\ next <= inbox'[i].id
               /\ next = inbox'[i].id =>
                     \/ \E q \in Orders : pc[q] \in {"send", "reqIds"}
                     \/ \E j \in 1 .. Len(inbox') :
                           Pending(j)' /\ inbox'[j].id = inbox'[i].id + 1
    <3>1. i + 1 \in 1 .. Len(inbox) /\ Pending(i + 1) /\ inbox'[i] = inbox[i + 1]
      BY <1>2, <2>4
    <3>2. \E p \in Orders : Owns(p, i)'
      BY <2>1, <2>4, <3>1 DEF IdsInv, PendingInv
    <3> QED BY <2>2, <2>4, <3>1, <3>2 DEF IdsInv, PendingInv
  <2> QED BY <2>3, <2>4 DEF PendingInv
<1>6. FreshInv'
  <2>1. ASSUME next = NoId
        PROVE  /\ \A o \in Orders : pc[o] \notin Inside \cup {"read", "wait", "save"}
               /\ \A o \in Orders, i \in 1 .. Len(inbox') :
                     Pending(i)' => cid[o] < inbox'[i].id
    BY <1>2, <2>1 DEF IdsInv, FreshInv
  <2>2. ASSUME next = NoId, NEW i \in 1 .. Len(inbox'), NEW j \in 1 .. Len(inbox'),
               Pending(i)', Pending(j)'
        PROVE  i = j
    <3>1. i + 1 = j + 1
      BY <1>2, <2>2 DEF IdsInv, FreshInv
    <3> QED BY <1>0, <3>1
  <2> QED BY <2>1, <2>2 DEF FreshInv
<1> QED BY <1>1, <1>3, <1>4, <1>5, <1>6 DEF IdsInv

-----------------------------------------------------------------------------
(* The counter is set, and the calls go on.                                *)

\* nextValidId sets the counter to its answer, never below an id given out.
LEMMA CounterSet ==
    ASSUME TypeInv, TypeInv', IdsInv, UNCHANGED <<pc, cid, lock, open, broker>>,
           Left, Pending(1), next' = inbox[1].id
    PROVE  IdsInv'
<1> USE Numbers
<1> DEFINE n == inbox[1].id
<1>0. 1 \in 1 .. Len(inbox) /\ Len(inbox') \in Nat /\ n \in Nat \ {0}
  BY DEF Left, TypeInv, TypeOK
<1>1. ThreadsInv'
  BY DEF IdsInv, ThreadsInv
<1>2. \A i \in 1 .. Len(inbox') :
        /\ i + 1 \in 1 .. Len(inbox) /\ inbox'[i] = inbox[i + 1] /\ 1 < i + 1
        /\ Pending(i)' <=> Pending(i + 1)
  BY <1>0 DEF Left, Pending
<1>3. GivenInv'
  BY <1>2 DEF IdsInv, GivenInv, UniqueIds, Standing
<1>4. \A o \in Orders : cid[o] <= n
  BY <1>0 DEF IdsInv, AboveInv
<1>5. AboveInv'
  <2>1. ASSUME NEW q \in Orders, pc[q] \in {"send", "reqIds"} PROVE n = cid[q]
    <3>1. next # NoId
      BY <2>1 DEF IdsInv, FreshInv, Inside
    <3>2. PICK p \in Orders : Owns(p, 1)
      BY <1>0, <3>1 DEF IdsInv, PendingInv
    <3>3. p # q /\ cid[p] <= cid[q] /\ cid[p] # cid[q]
      BY <2>1, <3>2 DEF IdsInv, AboveInv, GivenInv, UniqueIds, Owns, Waiting
    <3>4. n = cid[p] + 1
      BY <3>2 DEF Owns
    <3> HIDE DEF n
    <3> QED BY <1>0, <1>4, <3>3, <3>4
  <2>2. \A q \in Orders : pc[q] \in {"send", "reqIds"} =>
           \A o \in Orders : cid[o] <= cid[q]
    BY DEF IdsInv, AboveInv
  <2>3. \A o \in Orders, i \in 1 .. Len(inbox') :
           Pending(i)' => cid[o] <= inbox'[i].id
    BY <1>2 DEF IdsInv, AboveInv
  <2> QED BY <1>4, <2>1, <2>2, <2>3 DEF AboveInv
<1>6. PendingInv'
  <2>1. ASSUME NEW i \in 1 .. Len(inbox'), NEW p \in Orders, Owns(p, i + 1)
        PROVE  Owns(p, i)'
    <3>1. \A j \in 1 .. i : j \in 1 .. Len(inbox') /\ j + 1 \in 1 .. i + 1
      BY <1>0
    <3>2. \A j \in 1 .. i : ~Pending(j)' => inbox'[j].id # cid[p]
      BY <1>2, <2>1, <3>1 DEF Owns
    <3> QED BY <1>2, <2>1, <3>2 DEF Owns
  <2>2. ASSUME NEW i \in 1 .. Len(inbox'), NEW j \in 1 .. Len(inbox'),
               Pending(i)', Pending(j)', i < j
        PROVE  inbox'[i].id < inbox'[j].id
    <3>1. i + 1 < j + 1
      BY <1>0, <2>2
    <3> QED BY <1>2, <2>2, <3>1 DEF IdsInv, PendingInv
  <2>3. ASSUME NEW i \in 1 .. Len(inbox'), Pending(i)'
        PROVE  (\E p \in Orders : Owns(p, i)') /\ n < inbox'[i].id
    <3>1. i + 1 \in 1 .. Len(inbox) /\ Pending(i + 1) /\ inbox'[i] = inbox[i + 1]
      BY <1>2, <2>3
    <3>2. next # NoId
      BY <1>0, <1>2, <3>1 DEF IdsInv, FreshInv
    <3>3. \E p \in Orders : Owns(p, i)'
      BY <2>1, <3>1, <3>2 DEF IdsInv, PendingInv
    <3>4. n < inbox'[i].id
      BY <1>0, <1>2, <3>1 DEF IdsInv, PendingInv
    <3> QED BY <3>3, <3>4
  <2>4. \A i \in 1 .. Len(inbox') : inbox'[i].id \in Nat
    BY <1>2
  <2> HIDE DEF n
  <2>5. next' = n
    BY DEF n
  <2>6. ASSUME NEW i \in 1 .. Len(inbox'), Pending(i)'
        PROVE  next' <= inbox'[i].id /\ next' # inbox'[i].id
    BY <1>0, <2>3, <2>4, <2>5, <2>6
  <2> QED BY <2>2, <2>3, <2>6 DEF PendingInv
<1>7. FreshInv'
  BY <1>0 DEF FreshInv
<1> QED BY <1>1, <1>3, <1>5, <1>6, <1>7 DEF IdsInv

\* A call begins, waits or ends. It does not end while the answer to its reqIds
\* is under way, for nothing has been said of its order.
LEMMA CallMoves ==
    ASSUME TypeInv, IdsInv, UNCHANGED <<cid, next, lock, open, inbox, broker>>,
           NEW o \in Orders, NEW l, pc' = [pc EXCEPT ![o] = l],
           \/ pc[o] = "idle" /\ l \in {"bump", "failed"} /\ ~Busy(PlacerOf[o])
           \/ pc[o] = "read" /\ l = "wait"
           \/ pc[o] \in {"bump", "save"} /\ l \in {"recorded", "failed"}
           \/ /\ pc[o] \in {"read", "wait"} /\ l \in {"save", "failed"}
              /\ open[cid[o]] # Placed
    PROVE  IdsInv'
<1> USE Numbers
<1>0. /\ \A p \in Orders : p # o => pc'[p] = pc[p]
      /\ pc'[o] = l
  BY DEF TypeInv, TypeOK
<1>1. pc[o] \notin Inside /\ l \notin Inside
  BY DEF Inside
<1>2. ThreadsInv'
  <2>1. \A p \in Orders : pc'[p] \in Inside <=> lock' = p
    BY <1>0, <1>1 DEF IdsInv, ThreadsInv
  <2>2. pc[o] # "idle" => pc[o] \in Active
    BY DEF Active
  <2>3. pc[o] = "idle" => \A p \in Orders : pc[p] \in Active => PlacerOf[p] # PlacerOf[o]
    BY DEF Busy
  <2>4. \A p \in Orders : pc'[p] \in Active /\ p # o => pc[p] \in Active
    BY <1>0
  <2> QED BY <1>0, <2>1, <2>2, <2>3, <2>4 DEF IdsInv, ThreadsInv, Active, Inside
<1>3. GivenInv'
  <2>1. UniqueIds'
    BY DEF IdsInv, GivenInv, UniqueIds
  <2>2. \A p \in Orders : pc'[p] \in {"idle", "bump"} => cid'[p] = NoId
    BY <1>0 DEF IdsInv, GivenInv
  <2>3. \A p \in Orders : cid'[p] # NoId /\ pc'[p] # "send" => Standing(p)' # "none"
    BY <1>0 DEF IdsInv, GivenInv, Standing
  <2>4. \A p \in Orders : pc'[p] \in Inside => Standing(p)' \in {"none", "new"}
    BY <1>0, <1>1 DEF IdsInv, GivenInv, Standing
  <2>5. /\ \A c \in ClientId : broker'[c] # "none" => \E p \in Orders : cid'[p] = c
        /\ \A i \in 1 .. Len(inbox') :
              ~Pending(i)' => broker'[inbox'[i].id] \notin {"none", "new"}
    BY DEF IdsInv, GivenInv, Pending
  <2> QED BY <2>1, <2>2, <2>3, <2>4, <2>5 DEF GivenInv
<1>4. \A i \in 1 .. Len(inbox) : Pending(i)' <=> Pending(i)
  BY DEF Pending
<1>5. AboveInv'
  BY <1>0, <1>1, <1>4 DEF IdsInv, AboveInv, Inside
<1>6. PendingInv'
  <2>1. ASSUME NEW i \in 1 .. Len(inbox), NEW p \in Orders, Owns(p, i)
        PROVE  Owns(p, i)'
    <3>1. pc'[p] \in Waiting /\ (pc'[p] # "register" => pc[p] # "register")
      BY <1>0, <2>1 DEF Owns, Waiting
    <3> QED BY <2>1, <3>1 DEF Owns, Pending
  <2>2. \A q \in Orders : pc[q] \in {"send", "reqIds"} => pc'[q] = pc[q]
    BY <1>0, <1>1 DEF Inside
  <2> QED BY <1>4, <2>1, <2>2 DEF IdsInv, PendingInv
<1>7. FreshInv'
  <2>1. next = NoId => \A p \in Orders : pc'[p] \notin Inside \cup {"read", "wait", "save"}
    BY <1>0, <1>1 DEF IdsInv, FreshInv
  <2> QED BY <1>4, <2>1 DEF IdsInv, FreshInv
<1> QED BY <1>2, <1>3, <1>5, <1>6, <1>7 DEF IdsInv

-----------------------------------------------------------------------------
(* IB.place_order, under order_lock, and the death of the process.         *)

\* The id given out is new: two answers under way would belong to two calls in
\* two threads, and the thread of this one is a third.
LEMMA IdGiven ==
    ASSUME TypeInv, IdsInv, Desk, NEW o \in Orders, Bump(o), next # NoId
    PROVE  IdsInv'
<1> USE Numbers
<1>0. /\ next \in Nat \ {0} /\ pc[o] = "bump" /\ lock = NoOrder /\ lock' = o
      /\ next' = next + 1 /\ pc' = [pc EXCEPT ![o] = "send"]
      /\ cid' = [cid EXCEPT ![o] = next + 1] /\ cid[o] = NoId
      /\ UNCHANGED <<open, inbox, broker>>
  BY DEF Bump, Goto, IdsInv, GivenInv
<1>1. /\ pc'[o] = "send" /\ cid'[o] = next + 1
      /\ \A p \in Orders : p # o => pc'[p] = pc[p] /\ cid'[p] = cid[p]
  BY <1>0 DEF TypeInv, TypeOK
<1>2. \A p \in Orders : pc[p] \notin Inside
  BY <1>0, OrderAssumption DEF IdsInv, ThreadsInv
<1>3. \A p \in Orders : cid[p] <= next
  BY <1>0 DEF IdsInv, AboveInv
<1>4. ASSUME NEW i \in 1 .. Len(inbox), Pending(i) PROVE next < inbox[i].id
  <2> SUFFICES ASSUME next = inbox[i].id PROVE FALSE
    BY <1>0, <1>4 DEF IdsInv, PendingInv
  <2>1. PICK p \in Orders : Owns(p, i)
    BY <1>0, <1>4 DEF IdsInv, PendingInv
  <2>2. PICK j \in 1 .. Len(inbox) : Pending(j) /\ inbox[j].id = inbox[i].id + 1
    BY <1>0, <1>2, <1>4 DEF IdsInv, PendingInv, Inside
  <2>3. PICK r \in Orders : Owns(r, j)
    BY <1>0, <2>2 DEF IdsInv, PendingInv
  <2>4. p # r /\ p # o /\ r # o
    <3>1. /\ inbox[i].id = cid[p] + 1 /\ pc[p] \in Waiting
          /\ inbox[j].id = cid[r] + 1 /\ pc[r] \in Waiting
      BY <2>1, <2>3 DEF Owns
    <3>2. p # o /\ r # o
      BY <1>0, <3>1 DEF Waiting
    <3>3. cid[p] \in Nat
      OBVIOUS
    <3>4. cid[r] # cid[p]
      BY <2>2, <3>1, <3>3
    <3> QED BY <3>2, <3>4
  <2>5. pc[p] \in Active /\ pc[r] \in Active /\ pc[o] \in Active
    BY <1>0, <2>1, <2>3 DEF Owns, Waiting, Active, Inside
  <2>6. /\ PlacerOf[p] # PlacerOf[r] /\ PlacerOf[p] # PlacerOf[o]
        /\ PlacerOf[r] # PlacerOf[o]
    BY <2>4, <2>5 DEF IdsInv, ThreadsInv
  <2> QED BY <2>6, OrderAssumption DEF Desk
<1>5. ThreadsInv'
  <2>1. \A p \in Orders : pc'[p] \in Active <=> pc[p] \in Active
    BY <1>0, <1>1 DEF Active, Inside
  <2>2. \A p \in Orders : pc'[p] \in Inside <=> lock' = p
    BY <1>0, <1>1, <1>2 DEF Inside
  <2> QED BY <2>1, <2>2 DEF IdsInv, ThreadsInv
<1>6. GivenInv'
  <2>1. UniqueIds'
    BY <1>0, <1>1, <1>3 DEF IdsInv, GivenInv, UniqueIds
  <2>2. \A p \in Orders : pc'[p] \in {"idle", "bump"} => cid'[p] = NoId
    BY <1>1 DEF IdsInv, GivenInv
  <2>3. \A p \in Orders : cid'[p] # NoId /\ pc'[p] # "send" => Standing(p)' # "none"
    BY <1>0, <1>1 DEF IdsInv, GivenInv, Standing
  <2>4. Standing(o)' = "none"
    <3>1. cid'[o] \in ClientId
      BY <1>0, <1>1, OrderAssumption DEF Bump, ClientId
    <3>2. broker[cid'[o]] = "none"
      BY <1>0, <1>1, <1>3, <3>1 DEF IdsInv, GivenInv
    <3> QED BY <1>0, <3>2 DEF Standing
  <2>5. \A p \in Orders : pc'[p] \in Inside => p = o
    BY <1>1, <1>2
  <2>6. \A c \in ClientId : broker'[c] # "none" => \E p \in Orders : cid'[p] = c
    BY <1>0, <1>1 DEF IdsInv, GivenInv
  <2>7. \A i \in 1 .. Len(inbox') :
           ~Pending(i)' => broker'[inbox'[i].id] \notin {"none", "new"}
    BY <1>0 DEF IdsInv, GivenInv, Pending
  <2> QED BY <2>1, <2>2, <2>3, <2>4, <2>5, <2>6, <2>7 DEF GivenInv
<1>7. AboveInv'
  <2>1. \A p \in Orders : cid'[p] <= next'
    BY <1>0, <1>1, <1>3
  <2>2. \A p \in Orders, i \in 1 .. Len(inbox') : Pending(i)' => cid'[p] <= inbox'[i].id
    <3> SUFFICES ASSUME NEW p \in Orders, NEW i \in 1 .. Len(inbox), Pending(i)
                 PROVE  cid'[p] <= inbox[i].id
      BY <1>0 DEF Pending
    <3>1. cid'[p] <= next + 1 /\ cid'[p] \in Nat /\ next < inbox[i].id
      BY <1>0, <1>1, <1>3, <1>4
    <3> QED BY <1>0, <3>1
  <2>3. \A q \in Orders : pc'[q] \in {"send", "reqIds"} => q = o
    BY <1>1, <1>2 DEF Inside
  <2> QED BY <1>0, <1>1, <2>1, <2>2, <2>3 DEF AboveInv
<1>8. PendingInv'
  <2>1. ASSUME NEW i \in 1 .. Len(inbox), NEW p \in Orders, Owns(p, i)
        PROVE  Owns(p, i)'
    <3>1. p # o
      BY <1>0, <2>1 DEF Owns, Waiting
    <3>2. pc'[p] = pc[p] /\ cid'[p] = cid[p] /\ open' = open /\ inbox' = inbox
      BY <1>0, <1>1, <3>1
    <3> QED BY <2>1, <3>2 DEF Owns, Pending
  <2>2. \A i, j \in 1 .. Len(inbox') :
           Pending(i)' /\ Pending(j)' /\ i < j => inbox'[i].id < inbox'[j].id
    BY <1>0 DEF IdsInv, PendingInv, Pending
  <2>3. \A i \in 1 .. Len(inbox') : Pending(i)' =>
           (\E p \in Orders : Owns(p, i)') /\ next' <= inbox'[i].id
    BY <1>0, <1>4, <2>1 DEF IdsInv, PendingInv, Pending
  <2>4. \E q \in Orders : pc'[q] \in {"send", "reqIds"}
    BY <1>1
  <2> QED BY <2>2, <2>3, <2>4 DEF PendingInv
<1>9. FreshInv'
  BY <1>0 DEF FreshInv
<1> QED BY <1>5, <1>6, <1>7, <1>8, <1>9 DEF IdsInv

\* The order inside order_lock.
LEMMA InLock ==
    ASSUME TypeInv, IdsInv, NEW o \in Orders, pc[o] \in Inside
    PROVE  /\ lock = o /\ next # NoId /\ cid[o] \in ClientId
           /\ \A p \in Orders : p # o => pc[p] \notin Inside
           /\ \A p \in Orders : p # o => cid[p] # cid[o]
           /\ broker[cid[o]] \in {"none", "new"}
<1>1. cid[o] \in ClientId
  BY DEF TypeInv, IdsAllocated
<1> QED BY <1>1, Numbers
        DEF IdsInv, ThreadsInv, FreshInv, GivenInv, UniqueIds, Standing

\* The order reaches the broker.
LEMMA OrderSent ==
    ASSUME TypeInv, IdsInv, connected, NEW o \in Orders, Send(o)
    PROVE  IdsInv'
<1> USE Numbers
<1>0. /\ pc[o] = "send" /\ pc' = [pc EXCEPT ![o] = "reqIds"]
      /\ broker' = [broker EXCEPT ![cid[o]] = "new"]
      /\ UNCHANGED <<cid, lock, next, open, inbox>>
  <2>1. pc[o] = "send" /\ UNCHANGED <<cid, client, inbox>>
    BY DEF Send
  <2>2. broker[cid[o]] = "new" => broker = [broker EXCEPT ![cid[o]] = "new"]
    BY DEF TypeInv, TypeOK
  <2> QED BY <2>1, <2>2, InLock DEF Send, Goto, client, Inside
<1>1. /\ lock = o /\ next # NoId /\ cid[o] \in ClientId
      /\ \A p \in Orders : p # o => pc[p] \notin Inside /\ cid[p] # cid[o]
      /\ broker[cid[o]] \in {"none", "new"}
  BY <1>0, InLock DEF Inside
<1>2. /\ pc'[o] = "reqIds" /\ \A p \in Orders : p # o => pc'[p] = pc[p]
      /\ broker'[cid[o]] = "new"
      /\ \A c \in ClientId : c # cid[o] => broker'[c] = broker[c]
  BY <1>0, <1>1 DEF TypeInv, TypeOK
<1>3. ThreadsInv'
  <2>1. \A p \in Orders : /\ pc'[p] \in Active <=> pc[p] \in Active
                          /\ pc'[p] \in Inside <=> pc[p] \in Inside
    BY <1>0, <1>2 DEF Active, Inside
  <2>2. \A p \in Orders : pc'[p] \in Inside <=> lock' = p
    BY <1>0, <2>1 DEF IdsInv, ThreadsInv
  <2>3. \A p, r \in Orders : pc'[p] \in Active /\ pc'[r] \in Active /\ p # r
           => PlacerOf[p] # PlacerOf[r]
    BY <2>1 DEF IdsInv, ThreadsInv
  <2> QED BY <2>2, <2>3 DEF ThreadsInv
<1>4. GivenInv'
  <2>1. UniqueIds' /\ \A p \in Orders : pc'[p] \in {"idle", "bump"} => cid'[p] = NoId
    BY <1>0, <1>2 DEF IdsInv, GivenInv, UniqueIds
  <2>2. \A p \in Orders : p # o => Standing(p)' = Standing(p)
    BY <1>0, <1>1, <1>2 DEF Standing
  <2>3. Standing(o)' = "new"
    BY <1>0, <1>1, <1>2 DEF Standing
  <2>4. \A p \in Orders :
           /\ cid'[p] # NoId /\ pc'[p] # "send" => Standing(p)' # "none"
           /\ pc'[p] \in Inside => Standing(p)' \in {"none", "new"}
    BY <1>0, <1>1, <1>2, <2>2, <2>3 DEF IdsInv, GivenInv
  <2>5. \A c \in ClientId : broker'[c] # "none" => \E p \in Orders : cid'[p] = c
    BY <1>0, <1>1, <1>2 DEF IdsInv, GivenInv
  <2>6. \A i \in 1 .. Len(inbox') :
           ~Pending(i)' => broker'[inbox'[i].id] \notin {"none", "new"}
    <3> SUFFICES ASSUME NEW i \in 1 .. Len(inbox), ~Pending(i)
                 PROVE  broker'[inbox[i].id] \notin {"none", "new"}
      BY <1>0 DEF Pending
    <3>1. broker[inbox[i].id] \notin {"none", "new"} /\ inbox[i].id \in ClientId
      BY DEF IdsInv, GivenInv
    <3> QED BY <1>1, <1>2, <3>1
  <2> QED BY <2>1, <2>4, <2>5, <2>6 DEF GivenInv
<1>5. \A i \in 1 .. Len(inbox) : Pending(i)' <=> Pending(i)
  BY <1>0 DEF Pending
<1>6. AboveInv'
  BY <1>0, <1>2, <1>5 DEF IdsInv, AboveInv
<1>7. PendingInv'
  <2>1. ASSUME NEW i \in 1 .. Len(inbox), NEW p \in Orders, Owns(p, i)
        PROVE  Owns(p, i)'
    <3>1. p # o
      BY <1>0, <2>1 DEF Owns, Waiting
    <3>2. pc'[p] = pc[p] /\ cid'[p] = cid[p] /\ open' = open /\ inbox' = inbox
      BY <1>0, <1>2, <3>1
    <3> QED BY <2>1, <3>2 DEF Owns, Pending
  <2>2. \E q \in Orders : pc'[q] \in {"send", "reqIds"}
    BY <1>2
  <2> QED BY <1>0, <1>5, <2>1, <2>2 DEF IdsInv, PendingInv
<1>8. FreshInv'
  BY <1>0, <1>1 DEF FreshInv
<1> QED BY <1>3, <1>4, <1>6, <1>7, <1>8 DEF IdsInv

\* reqIds asks again, and TWS answers with the id after this one.
LEMMA NextAsked ==
    ASSUME TypeInv, TypeInv', IdsInv, connected, NEW o \in Orders, ReqIds(o)
    PROVE  IdsInv'
<1> USE Numbers
<1>0. /\ pc[o] = "reqIds" /\ pc' = [pc EXCEPT ![o] = "register"]
      /\ UNCHANGED <<cid, lock, next, open, broker>>
  BY DEF ReqIds, Goto, client
<1>1. /\ lock = o /\ next # NoId /\ cid[o] \in ClientId
      /\ \A p \in Orders : p # o => pc[p] \notin Inside /\ cid[p] # cid[o]
      /\ broker[cid[o]] \in {"none", "new"}
  BY <1>0, InLock DEF Inside
<1>2. pc'[o] = "register" /\ \A p \in Orders : p # o => pc'[p] = pc[p]
  BY <1>0 DEF TypeInv, TypeOK
<1>3. next = cid[o] /\ \A p \in Orders : cid[p] <= cid[o]
  BY <1>0 DEF IdsInv, AboveInv
<1>a. PICK k \in Nat : k = Len(inbox) + 1
  OBVIOUS
<1>4. /\ Len(inbox') = k
      /\ \A i \in 1 .. Len(inbox) : /\ inbox'[i] = inbox[i]
                                    /\ Pending(i)' <=> Pending(i)
      /\ Pending(k)' /\ inbox'[k].id = cid[o] + 1
  <2>1. PICK n \in 1 .. MaxId + 1 : NextFree(n) /\ inbox' = inbox \o <<NextId(n)>>
    BY DEF ReqIds, Deliver
  <2>2. n = cid[o] + 1
    <3> DEFINE Given == {c \in ClientId : broker[c] # "none"}
    <3>1. cid[o] \in Given
      BY <1>0, <1>1 DEF IdsInv, GivenInv, Standing
    <3>2. \A c \in Given : c <= cid[o]
      BY <1>3 DEF IdsInv, GivenInv
    <3>3. n - 1 \in Given \cup {0} /\ \A c \in Given : c < n
      BY <2>1 DEF NextFree, NoId
    <3>4. n \in Nat /\ cid[o] < n /\ n - 1 <= cid[o]
      BY <3>1, <3>2, <3>3, <2>1, OrderAssumption
    <3> QED BY <3>4
  <2>3. inbox \in Seq(Message) /\ NextId(n) = [type |-> "nextValidId", id |-> n]
    BY DEF TypeInv, TypeOK, NextId
  <2>4. /\ Len(inbox') = k
        /\ \A i \in 1 .. Len(inbox) : inbox'[i] = inbox[i]
        /\ inbox'[k] = [type |-> "nextValidId", id |-> n]
    BY <1>a, <2>1, <2>3
  <2>5. \A i \in 1 .. Len(inbox) : Pending(i)' <=> Pending(i)
    BY <2>4 DEF Pending
  <2>6. Pending(k)' /\ inbox'[k].id = n
    BY <2>4 DEF Pending
  <2> QED BY <2>2, <2>4, <2>5, <2>6
<1>5. \A i \in 1 .. Len(inbox') : i \in 1 .. Len(inbox) \/ i = k
  BY <1>a, <1>4
<1>6. ThreadsInv'
  <2>1. \A p \in Orders : /\ pc'[p] \in Active <=> pc[p] \in Active
                          /\ pc'[p] \in Inside <=> pc[p] \in Inside
    BY <1>0, <1>2 DEF Active, Inside
  <2>2. \A p \in Orders : pc'[p] \in Inside <=> lock' = p
    BY <1>0, <2>1 DEF IdsInv, ThreadsInv
  <2>3. \A p, r \in Orders : pc'[p] \in Active /\ pc'[r] \in Active /\ p # r
           => PlacerOf[p] # PlacerOf[r]
    BY <2>1 DEF IdsInv, ThreadsInv
  <2> QED BY <2>2, <2>3 DEF ThreadsInv
<1>7. GivenInv'
  <2>1. UniqueIds' /\ \A p \in Orders : pc'[p] \in {"idle", "bump"} => cid'[p] = NoId
    BY <1>0, <1>2 DEF IdsInv, GivenInv, UniqueIds
  <2>2. \A p \in Orders : Standing(p)' = Standing(p)
    BY <1>0 DEF Standing
  <2>3. \A p \in Orders :
           /\ cid'[p] # NoId /\ pc'[p] # "send" => Standing(p)' # "none"
           /\ pc'[p] \in Inside => Standing(p)' \in {"none", "new"}
    BY <1>0, <1>2, <2>2 DEF IdsInv, GivenInv, Inside
  <2>4. \A c \in ClientId : broker'[c] # "none" => \E p \in Orders : cid'[p] = c
    BY <1>0 DEF IdsInv, GivenInv
  <2>5. \A i \in 1 .. Len(inbox') :
           ~Pending(i)' => broker'[inbox'[i].id] \notin {"none", "new"}
    <3>1. \A i \in 1 .. Len(inbox) : ~Pending(i) => broker[inbox[i].id] \notin {"none", "new"}
      BY DEF IdsInv, GivenInv
    <3> QED BY <1>0, <1>4, <1>5, <3>1
  <2> QED BY <2>1, <2>3, <2>4, <2>5 DEF GivenInv
<1>8. AboveInv'
  <2>1. \A p \in Orders : cid'[p] <= next'
    BY <1>0, <1>3
  <2>2. \A p \in Orders, i \in 1 .. Len(inbox') : Pending(i)' => cid'[p] <= inbox'[i].id
    <3>1. \A p \in Orders, i \in 1 .. Len(inbox) : Pending(i)' => cid'[p] <= inbox'[i].id
      BY <1>0, <1>4 DEF IdsInv, AboveInv
    <3>2. \A p \in Orders : cid'[p] <= cid[o] + 1
      BY <1>0, <1>3
    <3> QED BY <1>4, <1>5, <3>1, <3>2
  <2>3. \A q \in Orders : pc'[q] \notin {"send", "reqIds"}
    BY <1>1, <1>2 DEF Inside
  <2> QED BY <2>1, <2>2, <2>3 DEF AboveInv
<1>9. PendingInv'
  <2>1. ASSUME NEW i \in 1 .. Len(inbox), NEW p \in Orders, Owns(p, i)
        PROVE  Owns(p, i)' /\ inbox[i].id <= cid[o]
    <3>1. p # o
      BY <1>0, <2>1 DEF Owns, Waiting
    <3>2. pc'[p] = pc[p] /\ cid'[p] = cid[p] /\ open' = open
      BY <1>0, <1>2, <3>1
    <3>3. \A j \in 1 .. i : j \in 1 .. Len(inbox)
      OBVIOUS
    <3>4. \A j \in 1 .. i : ~Pending(j)' => inbox'[j].id # cid[p]
      BY <1>4, <2>1, <3>3 DEF Owns
    <3>5. Owns(p, i)'
      BY <1>4, <2>1, <3>2, <3>4 DEF Owns
    <3>6. cid[p] # cid[o] /\ cid[p] <= cid[o] /\ inbox[i].id = cid[p] + 1
      BY <1>1, <1>3, <2>1, <3>1 DEF Owns
    <3>7. inbox[i].id <= cid[o]
      BY <3>6
    <3> QED BY <3>5, <3>7
  <2>2. Owns(o, k)'
    <3>1. \A j \in 1 .. Len(inbox) : ~Pending(j) => inbox[j].id # cid[o]
      BY <1>1 DEF IdsInv, GivenInv
    <3>2. \A j \in 1 .. k : ~Pending(j)' => inbox'[j].id # cid[o]
      BY <1>4, <1>5, <3>1
    <3>3. cid[o] # NoId
      BY <1>1
    <3> QED BY <1>0, <1>2, <1>4, <3>2, <3>3 DEF Owns, Waiting
  <2>3. \A i \in 1 .. Len(inbox) : Pending(i) =>
           (\E p \in Orders : Owns(p, i)') /\ inbox[i].id <= cid[o] /\ next <= inbox[i].id
    BY <1>1, <2>1 DEF IdsInv, PendingInv
  <2>4. ASSUME NEW i \in 1 .. Len(inbox'), NEW j \in 1 .. Len(inbox'),
               Pending(i)', Pending(j)', i < j
        PROVE  inbox'[i].id < inbox'[j].id
    <3>1. i \in 1 .. Len(inbox)
      BY <1>a, <1>4, <2>4
    <3>2. CASE j \in 1 .. Len(inbox)
      BY <1>4, <2>4, <3>1, <3>2 DEF IdsInv, PendingInv
    <3>3. CASE j = k
      <4>1. inbox'[i].id <= cid[o] /\ inbox'[i].id \in Nat
        BY <1>4, <2>3, <2>4, <3>1
      <4> QED BY <1>1, <1>4, <3>3, <4>1
    <3> QED BY <1>5, <3>2, <3>3
  <2>5. ASSUME NEW i \in 1 .. Len(inbox'), Pending(i)'
        PROVE  /\ \E p \in Orders : Owns(p, i)'
               /\ next <= inbox'[i].id
               /\ next = inbox'[i].id =>
                     \E j \in 1 .. Len(inbox') :
                           Pending(j)' /\ inbox'[j].id = inbox'[i].id + 1
    <3>0. k \in 1 .. Len(inbox')
      BY <1>a, <1>4
    <3>1. CASE i \in 1 .. Len(inbox)
      BY <1>3, <1>4, <2>3, <2>5, <3>0, <3>1
    <3>2. CASE i = k
      <4>1. inbox'[i].id = cid[o] + 1 /\ next = cid[o] /\ cid[o] \in Nat
        BY <1>1, <1>3, <1>4, <3>2
      <4>2. next <= inbox'[i].id /\ next # inbox'[i].id
        BY <4>1
      <4> QED BY <2>2, <3>2, <4>2
    <3> QED BY <1>5, <3>1, <3>2
  <2> QED BY <1>0, <2>4, <2>5 DEF PendingInv
<1>10. FreshInv'
  BY <1>0, <1>1 DEF FreshInv
<1> QED BY <1>6, <1>7, <1>8, <1>9, <1>10 DEF IdsInv

\* The order gets its entry, and order_lock is free.
LEMMA OrderRegistered ==
    ASSUME TypeInv, IdsInv, NEW o \in Orders, Register(o)
    PROVE  IdsInv'
<1> USE Numbers
<1>0. /\ pc[o] = "register" /\ pc' = [pc EXCEPT ![o] = "read"] /\ lock' = NoOrder
      /\ open' = [open EXCEPT ![cid[o]] = Placed]
      /\ UNCHANGED <<cid, next, inbox, broker>>
  BY DEF Register, Goto
<1>1. /\ lock = o /\ next # NoId /\ cid[o] \in ClientId
      /\ \A p \in Orders : p # o => pc[p] \notin Inside /\ cid[p] # cid[o]
  BY <1>0, InLock DEF Inside
<1>2. /\ pc'[o] = "read" /\ \A p \in Orders : p # o => pc'[p] = pc[p]
      /\ open'[cid[o]] = Placed
      /\ \A c \in ClientId : c # cid[o] => open'[c] = open[c]
  BY <1>0, <1>1 DEF TypeInv, TypeOK
<1>3. \A i \in 1 .. Len(inbox) : Pending(i)' <=> Pending(i)
  BY <1>0 DEF Pending
<1>4. ThreadsInv'
  <2>1. \A p \in Orders : pc'[p] \in Active <=> pc[p] \in Active
    BY <1>0, <1>2 DEF Active, Inside
  <2>2. \A p \in Orders : pc'[p] \notin Inside
    BY <1>1, <1>2 DEF Inside
  <2>3. \A p \in Orders : lock' # p
    BY <1>0, OrderAssumption
  <2> QED BY <2>1, <2>2, <2>3 DEF IdsInv, ThreadsInv
<1>5. GivenInv'
  <2>1. UniqueIds' /\ \A p \in Orders : pc'[p] \in {"idle", "bump"} => cid'[p] = NoId
    BY <1>0, <1>2 DEF IdsInv, GivenInv, UniqueIds
  <2>2. \A p \in Orders :
           /\ cid'[p] # NoId /\ pc'[p] # "send" => Standing(p)' # "none"
           /\ pc'[p] \in Inside => Standing(p)' \in {"none", "new"}
    BY <1>0, <1>2 DEF IdsInv, GivenInv, Inside, Standing
  <2>3. \A c \in ClientId : broker'[c] # "none" => \E p \in Orders : cid'[p] = c
    BY <1>0 DEF IdsInv, GivenInv
  <2>4. \A i \in 1 .. Len(inbox') :
           ~Pending(i)' => broker'[inbox'[i].id] \notin {"none", "new"}
    BY <1>0, <1>3 DEF IdsInv, GivenInv
  <2> QED BY <2>1, <2>2, <2>3, <2>4 DEF GivenInv
<1>6. AboveInv'
  <2>1. \A q \in Orders : pc'[q] \notin {"send", "reqIds"}
    BY <1>1, <1>2 DEF Inside
  <2> QED BY <1>0, <1>3, <2>1 DEF IdsInv, AboveInv
<1>7. PendingInv'
  <2>1. ASSUME NEW i \in 1 .. Len(inbox), NEW p \in Orders, Owns(p, i)
        PROVE  Owns(p, i)'
    <3>0. /\ cid' = cid /\ inbox' = inbox /\ cid[p] # NoId /\ pc[p] \in Waiting
          /\ inbox[i].id = cid[p] + 1
          /\ \A j \in 1 .. i : ~Pending(j) => inbox[j].id # cid[p]
      BY <1>0, <2>1 DEF Owns
    <3>1. \A j \in 1 .. i : ~Pending(j)' => inbox'[j].id # cid'[p]
      BY <3>0 DEF Pending
    <3>2. pc'[p] \in Waiting
      BY <1>2, <3>0 DEF Waiting
    <3>3. pc'[p] # "register" => open'[cid[p]] = Placed
      BY <1>1, <1>2, <2>1 DEF Owns
    <3> QED BY <3>0, <3>1, <3>2, <3>3 DEF Owns
  <2>2. \A q \in Orders : pc[q] \notin {"send", "reqIds"}
    BY <1>0, <1>1 DEF Inside
  <2> QED BY <1>0, <1>3, <2>1, <2>2 DEF IdsInv, PendingInv
<1>8. FreshInv'
  BY <1>0, <1>1 DEF FreshInv
<1> QED BY <1>4, <1>5, <1>6, <1>7, <1>8 DEF IdsInv

\* After a restart TWS tells an id above all that it has been given.
LEMMA BeginAgain ==
    ASSUME TypeInv, TypeInv', IdsInv, Restart
    PROVE  IdsInv'
<1> USE Numbers
<1>0. PICK n \in 1 .. MaxId + 1 : NextFree(n) /\ inbox' = <<NextId(n)>>
  BY DEF Restart
<1>1. /\ next' = NoId /\ lock' = NoOrder /\ broker' = broker /\ n \in Nat
      /\ \A c \in ClientId : broker[c] # "none" => c < n
  BY <1>0, OrderAssumption DEF Restart, NextFree
<1>2. \A i \in 1 .. Len(inbox') : i = 1 /\ Pending(i)' /\ inbox'[i].id = n
  BY <1>0 DEF Pending, NextId
<1>3. \A p \in Orders :
        /\ pc[p] \in Active => pc'[p] = "lost"
        /\ pc[p] \notin Active => pc'[p] = pc[p] /\ cid'[p] = cid[p]
        /\ cid'[p] \in {cid[p], NoId}
        /\ Standing(p) # "none" => cid'[p] = cid[p]
        /\ pc[p] \in Active /\ Standing(p) = "none" => cid'[p] = NoId
  BY DEF Restart, TypeInv, TypeOK
<1>4. \A p \in Orders : pc'[p] \notin Active
  BY <1>3 DEF Active, Inside
<1>5. ThreadsInv'
  BY <1>1, <1>4, OrderAssumption DEF ThreadsInv, Active
<1>6. \A p \in Orders : cid'[p] # NoId => broker[cid'[p]] # "none"
  <2> SUFFICES ASSUME NEW p \in Orders, cid'[p] # NoId PROVE broker[cid'[p]] # "none"
    OBVIOUS
  <2>1. cid'[p] = cid[p]
    BY <1>3
  <2>2. Standing(p) # "none"
    BY <1>3, <2>1 DEF IdsInv, GivenInv, Active, Inside
  <2> QED BY <2>1, <2>2 DEF Standing
<1>7. GivenInv'
  <2>1. UniqueIds'
    BY <1>3 DEF IdsInv, GivenInv, UniqueIds
  <2>2. \A p \in Orders : pc'[p] \in {"idle", "bump"} => cid'[p] = NoId
    BY <1>3, <1>4 DEF IdsInv, GivenInv
  <2>3. \A p \in Orders : cid'[p] # NoId => Standing(p)' # "none"
    BY <1>1, <1>6 DEF Standing
  <2>4. ASSUME NEW c \in ClientId, broker[c] # "none"
        PROVE  \E p \in Orders : cid'[p] = c
    <3>1. PICK p \in Orders : cid[p] = c
      BY <2>4 DEF IdsInv, GivenInv
    <3>2. Standing(p) # "none"
      BY <2>4, <3>1 DEF Standing
    <3> QED BY <1>3, <3>1, <3>2
  <2> QED BY <1>1, <1>2, <1>4, <2>1, <2>2, <2>3, <2>4 DEF GivenInv, Active
<1>8. \A p \in Orders : cid'[p] \in Nat /\ cid'[p] < n
  <2> SUFFICES ASSUME NEW p \in Orders PROVE cid'[p] \in Nat /\ cid'[p] < n
    OBVIOUS
  <2>1. CASE cid'[p] = NoId
    BY <1>0, <1>1, <2>1
  <2>2. CASE cid'[p] # NoId
    <3>1. cid'[p] = cid[p] /\ cid[p] \in ClientId
      BY <1>3, <2>2
    <3> QED BY <1>1, <1>6, <2>2, <3>1
  <2> QED BY <2>1, <2>2
<1>9. AboveInv'
  BY <1>1, <1>2, <1>4, <1>8 DEF AboveInv, Active, Inside
<1>10. PendingInv'
  <2>1. \A i, j \in 1 .. Len(inbox') : i = 1 /\ j = 1
    BY <1>2
  <2> QED BY <1>1, <2>1 DEF PendingInv
<1>11. FreshInv'
  BY <1>1, <1>2, <1>4, <1>8 DEF FreshInv, Active
<1> QED BY <1>5, <1>7, <1>9, <1>10, <1>11 DEF IdsInv

-----------------------------------------------------------------------------
(* The steps together.                                                     *)

\* Messages about one order.
About(ms, c) == \A k \in 1 .. Len(ms) : ms[k].type # "nextValidId" /\ ms[k].id = c

LEMMA Reported1 ==
    ASSUME NEW c \in ClientId, NEW s \in IBStatus
    PROVE  /\ Both(c, s) \in Seq(Message) /\ About(Both(c, s), c)
           /\ Status(c, s) \in Seq(Message) /\ About(Status(c, s), c)
           /\ \A code \in {"202", "399", "other"} :
                 /\ <<Error(c, code)>> \in Seq(Message)
                 /\ About(<<Error(c, code)>>, c)
           /\ \A t \in Reported : /\ <<Msg(t, c, s)>> \in Seq(Message)
                                  /\ About(<<Msg(t, c, s)>>, c)
<1>1. \A code \in {"202", "399", "other"} :
         /\ Error(c, code) \in Message /\ Error(c, code).id = c
         /\ Error(c, code).type # "nextValidId"
  BY Messages DEF Error
<1>2. \A t \in Reported :
         /\ Msg(t, c, s) \in Message /\ Msg(t, c, s).id = c
         /\ Msg(t, c, s).type # "nextValidId"
  BY Messages DEF Msg, Reported, Callback
<1>3. \A m \in Message : m.id = c /\ m.type # "nextValidId" =>
         <<m>> \in Seq(Message) /\ About(<<m>>, c)
  BY DEF About
<1>4. \A m1, m2 \in Message :
         m1.id = c /\ m1.type # "nextValidId" /\ m2.id = c /\ m2.type # "nextValidId"
            => <<m1, m2>> \in Seq(Message) /\ About(<<m1, m2>>, c)
  BY DEF About
<1>5. "openOrder" \in Reported /\ "orderStatus" \in Reported
  BY DEF Reported, Callback
<1>6. Both(c, s) \in Seq(Message) /\ About(Both(c, s), c)
  BY <1>2, <1>4, <1>5 DEF Both
<1>7. Status(c, s) \in Seq(Message) /\ About(Status(c, s), c)
  BY <1>2, <1>3, <1>5, <1>6 DEF Status
<1> QED BY <1>1, <1>2, <1>3, <1>6, <1>7

\* The broker says something of one order, which place_order has let go of.
LEMMA Said ==
    ASSUME TypeInv, IdsInv, connected, UNCHANGED <<pc, cid, next, lock, open>>,
           NEW c \in ClientId, NEW ms \in Seq(Message), About(ms, c),
           Deliver(ms) \/ inbox' = inbox \o ms,
           NEW s \in IBStatus, broker' = [broker EXCEPT ![c] = s],
           broker[c] # "none", broker[c] = "new" => Acked(c)
    PROVE  IdsInv'
<1>1. broker'[c] = s /\ \A d \in ClientId : d # c => broker'[d] = broker[d]
  BY DEF TypeInv, TypeOK
<1>2. Reporting
  BY <1>1 DEF Reporting, IBStatus
<1>3. Joined
  <2>1. inbox' = inbox \o ms
    BY DEF Deliver
  <2> QED BY <1>1, <2>1, AppendedJoin DEF About, IBStatus
<1> QED BY <1>2, <1>3, MessagesJoin

LEMMA PlaceIds ==
    ASSUME RowsInv, IdsInv, Desk, connected, [Next]_vars, NEW o \in Orders,
           PlaceCall(o) \/ PlaceStep(o)
    PROVE  IdsInv'
<1> USE DEF Goto, client
<1>0. TypeInv /\ TypeInv' /\ TypeOK
  BY TypeKept DEF RowsInv, FilledInv, TypeInv
<1>1. CASE PlaceCall(o)
  <2>1. /\ pc[o] = "idle" /\ ~Busy(PlacerOf[o]) /\ pc' = [pc EXCEPT ![o] = "bump"]
        /\ UNCHANGED <<cid, next, lock, open, inbox, broker>>
    BY <1>1 DEF PlaceCall
  <2> QED BY <1>0, <2>1, CallMoves
<1>2. CASE Bump(o) /\ next = NoId
  <2>1. /\ pc[o] = "bump" /\ pc' = [pc EXCEPT ![o] = "failed"]
        /\ UNCHANGED <<cid, next, lock, open, inbox, broker>>
    BY <1>2 DEF Bump
  <2> QED BY <1>0, <2>1, CallMoves
<1>3. CASE Bump(o) /\ next # NoId
  BY <1>0, <1>3, IdGiven
<1>4. CASE Send(o) \/ ReqIds(o) \/ Register(o)
  BY <1>0, <1>4, OrderSent, NextAsked, OrderRegistered
<1>5. Placed # NoEntry /\ Placed.status = "INIT"
  BY DEF Placed, NoEntry
<1>6. CASE Read(o)
  <2>1. pc[o] = "read" /\ UNCHANGED <<cid, next, lock, open, inbox, broker>>
    BY <1>6 DEF Read
  <2>2. \/ pc' = [pc EXCEPT ![o] = "wait"]
        \/ \E l \in {"save", "failed"} :
              pc' = [pc EXCEPT ![o] = l] /\ open[cid[o]] # Placed
    BY <1>5, <1>6 DEF Read, Judge
  <2>3. CASE pc' = [pc EXCEPT ![o] = "wait"]
    BY <1>0, <2>1, <2>3, CallMoves
  <2>4. ASSUME NEW l \in {"save", "failed"}, pc' = [pc EXCEPT ![o] = l],
               open[cid[o]] # Placed
        PROVE  IdsInv'
    BY <1>0, <2>1, <2>4, CallMoves
  <2> QED BY <2>2, <2>3, <2>4
<1>7. CASE Wait(o)
  <2>1. pc[o] = "wait" /\ UNCHANGED <<cid, next, lock, open, inbox, broker>>
    BY <1>7 DEF Wait
  <2>2. PICK l \in {"save", "failed"} :
              pc' = [pc EXCEPT ![o] = l] /\ open[cid[o]] # Placed
    BY <1>5, <1>7 DEF Wait, Judge
  <2> QED BY <1>0, <2>1, <2>2, CallMoves
<1>8. CASE Save(o)
  <2>1. pc[o] = "save" /\ UNCHANGED <<cid, next, lock, open, inbox, broker>>
    BY <1>8 DEF Save
  <2>2. PICK l \in {"recorded", "failed"} : pc' = [pc EXCEPT ![o] = l]
    BY <1>8 DEF Save
  <2> QED BY <1>0, <2>1, <2>2, CallMoves
<1> QED BY <1>1, <1>2, <1>3, <1>4, <1>6, <1>7, <1>8 DEF PlaceStep

\* What the broker says as it cancels an order keeps them, and so do its other
\* reports.
LEMMA CancelledIds ==
    ASSUME TypeInv, IdsInv, connected, UNCHANGED <<pc, cid, next, lock, open>>,
           NEW c \in ClientId, Cancelled(c), broker[c] # "none", broker[c] # "new"
    PROVE  IdsInv'
<1>1. PICK e \in Message, w \in Seq(Message) :
         /\ e = Error(c, "202") /\ w = Status(c, "Cancelled")
         /\ Deliver(<<e>> \o w) \/ Deliver(Append(w, e))
  BY Messages, Reports DEF Cancelled, IBStatus
<1>2. broker' = [broker EXCEPT ![c] = "Cancelled"] /\ "Cancelled" \in IBStatus
  BY DEF Cancelled, IBStatus
<1>3. About(w, c) /\ e.id = c /\ e.type # "nextValidId"
  BY <1>1, <1>2, Reported1 DEF Error
<1>4. <<e>> \o w \in Seq(Message) /\ About(<<e>> \o w, c)
  BY <1>3 DEF About
<1>5. Append(w, e) \in Seq(Message) /\ About(Append(w, e), c)
  BY <1>3 DEF About
<1>6. CASE Deliver(<<e>> \o w)
  BY <1>2, <1>4, <1>6, Said
<1>7. CASE Deliver(Append(w, e))
  BY <1>2, <1>5, <1>7, Said
<1> QED BY <1>1, <1>6, <1>7

LEMMA CancelIds ==
    ASSUME RowsInv, IdsInv, connected, [Next]_vars, NEW o \in Orders, CancelSend(o)
    PROVE  IdsInv'
<1> DEFINE c == db[o].perm
<1>0. /\ TypeInv /\ TypeOK /\ OrderReal(o) /\ OrderTrue(o) /\ c \in ClientId
      /\ NoId \notin ClientId
  BY OrderFacts DEF CancelSend, TypeOK, Row
<1>1. UNCHANGED <<pc, cid, next, lock, open>>
  BY DEF CancelSend, place, client
<1>2. broker[c] # "none" /\ broker[c] # "new"
  BY <1>0 DEF OrderReal, OrderTrue, Recorded, NoRow, Ack, Live
<1>3. CASE broker[c] \in Terminal
  <2>1. Deliver(<<Error(c, "other")>>) /\ UNCHANGED broker
    BY <1>3 DEF CancelSend
  <2>2. PICK s \in IBStatus : s = broker[c]
    BY <1>3 DEF Terminal, IBStatus
  <2>3. broker' = [broker EXCEPT ![c] = s]
    BY <1>0, <2>1, <2>2 DEF TypeOK
  <2>4. <<Error(c, "other")>> \in Seq(Message) /\ About(<<Error(c, "other")>>, c)
    BY <1>0, <2>2, Reported1
  <2> QED BY <1>0, <1>1, <1>2, <2>1, <2>3, <2>4, Said
<1>4. CASE Cancelled(c)
  BY <1>0, <1>1, <1>2, <1>4, CancelledIds
<1>5. CASE /\ broker' = [broker EXCEPT ![c] = "PendingCancel"]
           /\ Deliver(Status(c, "PendingCancel"))
  <2> DEFINE s == "PendingCancel"
  <2>1. s \in IBStatus
    BY DEF IBStatus
  <2>2. Status(c, s) \in Seq(Message) /\ About(Status(c, s), c)
    BY <1>0, <2>1, Reported1
  <2> QED BY <1>0, <1>1, <1>2, <1>5, <2>1, <2>2, Said
<1> QED BY <1>3, <1>4, <1>5 DEF CancelSend

LEMMA ReaderIds ==
    ASSUME TypeInv, TypeInv', IdsInv, ReaderStep
    PROVE  IdsInv'
<1> USE DEF place, client
<1>1. ASSUME NEW t, Receive(t), t # "nextValidId",
             UNCHANGED <<pc, cid, next, lock, broker>>,
             \A c \in ClientId : c # Head(inbox).id => open'[c] = open[c]
      PROVE  IdsInv'
  <2>1. Left /\ Head(inbox) = inbox[1] /\ ~Pending(1)
    BY <1>1, ReceivedLeft DEF Receive, Pending
  <2> QED BY <1>1, <2>1, MessageHandled
<1>2. ASSUME NEW c, NEW t, NEW s, Hear(c, t, s)
      PROVE  \A d \in ClientId : d # c => open'[d] = open[d]
  BY <1>2 DEF Hear, TypeInv, TypeOK
<1>3. CASE nextValidId
  <2>1. Left /\ Head(inbox) = inbox[1] /\ Pending(1)
    BY <1>3, ReceivedLeft DEF nextValidId, Receive, Pending
  <2> QED BY <1>3, <2>1, CounterSet DEF nextValidId
<1>4. CASE openOrder
  <2>1. /\ Receive("openOrder") /\ UNCHANGED <<pc, cid, next, lock, broker>>
        /\ Hear(Head(inbox).id, "openOrder", IB_STATUS_MAP[Head(inbox).status])
    BY <1>4 DEF openOrder
  <2> QED BY <1>1, <1>2, <2>1
<1>5. CASE orderStatus
  <2>1. /\ Receive("orderStatus") /\ UNCHANGED <<pc, cid, next, lock, broker>>
        /\ Hear(Head(inbox).id, "orderStatus", IB_STATUS_MAP[Head(inbox).status])
    BY <1>5 DEF orderStatus
  <2> QED BY <1>1, <1>2, <2>1
<1>6. CASE completedOrder
  <2>1. Receive("completedOrder") /\ UNCHANGED <<pc, cid, next, lock, broker, open>>
    BY <1>6 DEF completedOrder
  <2> QED BY <1>1, <2>1
<1>7. CASE error
  <2>1. Receive("error") /\ UNCHANGED <<pc, cid, next, lock, broker>>
    BY <1>7 DEF error
  <2>2. \A c \in ClientId : c # Head(inbox).id => open'[c] = open[c]
    BY <1>7 DEF error, TypeInv, TypeOK
  <2> QED BY <1>1, <2>1, <2>2
<1>8. CASE ReaderExit \/ contractDetails
  <2>1. UNCHANGED <<pc, cid, next, lock, open, inbox, broker>>
    BY <1>8 DEF ReaderExit, contractDetails
  <2>2. Joined /\ Reporting
    BY <2>1, Numbers DEF Joined, Reporting
  <2> QED BY <2>1, <2>2, MessagesJoin
<1> QED BY <1>3, <1>4, <1>5, <1>6, <1>7, <1>8 DEF ReaderStep

LEMMA BrokerIds ==
    ASSUME TypeInv, IdsInv, Desk, connected, NEW c \in ClientId, Broker(c) \/ Poll(c)
    PROVE  IdsInv'
<1> USE DEF Client, place, client
<1>0. UNCHANGED <<pc, cid, next, lock, open>> /\ broker \in [ClientId -> BrokerState]
  BY DEF Broker, Report, Confirm, Cancelled, Fill, Reject, Warn, Poll, TypeInv, TypeOK
<1>1. CASE Report(c) \/ Fill(c)
  <2>1. PICK s \in IBStatus :
           /\ broker' = [broker EXCEPT ![c] = s]
           /\ Deliver(Both(c, s)) \/ Deliver(Status(c, s))
    BY <1>1 DEF Report, Fill, IBStatus
  <2>2. broker[c] # "none" /\ (broker[c] = "new" => Acked(c))
    BY <1>1 DEF Report, Fill, Desk
  <2>3. /\ Both(c, s) \in Seq(Message) /\ About(Both(c, s), c)
        /\ Status(c, s) \in Seq(Message) /\ About(Status(c, s), c)
    BY Reported1
  <2>4. CASE Deliver(Both(c, s))
    BY <1>0, <2>1, <2>2, <2>3, <2>4, Said
  <2>5. CASE Deliver(Status(c, s))
    BY <1>0, <2>1, <2>2, <2>3, <2>5, Said
  <2> QED BY <2>1, <2>4, <2>5
<1>2. CASE Reject(c)
  <2>1. /\ broker' = [broker EXCEPT ![c] = "Inactive"] /\ "Inactive" \in IBStatus
        /\ broker[c] = "new" /\ Acked(c)
    BY <1>2 DEF Reject, IBStatus, Desk
  <2>2. PICK m \in Message, e \in Message :
           /\ m = Msg("openOrder", c, "Inactive") /\ e = Error(c, "other")
           /\ Deliver(<<m, e>>) \/ Deliver(<<e>>)
    BY <1>2, <2>1, Messages DEF Reject, Callback
  <2>3. /\ <<m, e>> \in Seq(Message) /\ <<e>> \in Seq(Message)
        /\ About(<<m, e>>, c) /\ About(<<e>>, c)
    BY <2>2 DEF About, Msg, Error
  <2>4. CASE Deliver(<<m, e>>)
    BY <1>0, <2>1, <2>3, <2>4, Said
  <2>5. CASE Deliver(<<e>>)
    BY <1>0, <2>1, <2>3, <2>5, Said
  <2> QED BY <2>2, <2>4, <2>5
<1>3. CASE Warn(c)
  <2>1. PICK code \in {"399", "other"}, s \in IBStatus :
           s = broker[c] /\ Deliver(<<Error(c, code)>>)
    BY <1>3 DEF Warn, Live, IBStatus
  <2>2. broker' = [broker EXCEPT ![c] = s] /\ broker[c] # "none" /\ broker[c] # "new"
    BY <1>0, <1>3, <2>1 DEF Warn, Live
  <2>3. <<Error(c, code)>> \in Seq(Message) /\ About(<<Error(c, code)>>, c)
    BY <2>1, Reported1
  <2> QED BY <1>0, <2>1, <2>2, <2>3, Said
<1>4. CASE Poll(c)
  <2>1. PICK s \in IBStatus :
           /\ s = broker[c]
           /\ \/ inbox' = inbox \o Both(c, s)
              \/ inbox' = Append(inbox, Msg("completedOrder", c, s))
    BY <1>4 DEF Poll, Live, IBStatus
  <2>2. broker' = [broker EXCEPT ![c] = s] /\ broker[c] # "none" /\ broker[c] # "new"
    BY <1>0, <1>4, <2>1 DEF Poll, Live
  <2>3. /\ Both(c, s) \in Seq(Message) /\ About(Both(c, s), c)
        /\ <<Msg("completedOrder", c, s)>> \in Seq(Message)
        /\ About(<<Msg("completedOrder", c, s)>>, c)
    BY Reported1 DEF Reported
  <2>4. CASE inbox' = inbox \o Both(c, s)
    BY <1>0, <2>2, <2>3, <2>4, Said
  <2>5. CASE inbox' = Append(inbox, Msg("completedOrder", c, s))
    <3>1. PICK m \in Message : m = Msg("completedOrder", c, s)
      BY Messages
    <3>2. inbox' = inbox \o <<m>>
      BY <2>5, <3>1 DEF TypeInv, TypeOK
    <3> QED BY <1>0, <2>2, <2>3, <3>1, <3>2, Said
  <2> QED BY <2>1, <2>4, <2>5
<1>5. CASE Confirm(c)
  BY <1>0, <1>5, CancelledIds DEF Confirm
<1> QED BY <1>1, <1>2, <1>3, <1>4, <1>5 DEF Broker

LEMMA IdsKept ==
    ASSUME RowsInv, IdsInv, Desk, connected, connected', [Next]_vars
    PROVE  IdsInv'
<1>0. TypeInv /\ TypeInv'
  BY TypeKept DEF RowsInv, FilledInv
<1>1. ASSUME UNCHANGED <<pc, cid, next, lock, open, inbox, broker>> PROVE IdsInv'
  <2>1. Joined /\ Reporting
    BY <1>0, <1>1, Numbers DEF Joined, Reporting
  <2> QED BY <1>0, <1>1, <2>1, MessagesJoin
<1>2. CASE CancelWrite \/ UNCHANGED vars
  BY <1>1, <1>2 DEF CancelWrite, vars, place, client
<1>3. CASE Restart
  BY <1>0, <1>3, BeginAgain
<1>4. ~Drop /\ ~Reconnect
  BY DEF Drop, Reconnect
<1> QED BY <1>0, <1>2, <1>3, <1>4, PlaceIds, CancelIds, ReaderIds, BrokerIds DEF Next

-----------------------------------------------------------------------------
(* The theorem.                                                            *)

\* Where two threads place orders and TWS reports on an order after IB.place_order
\* has left order_lock, no two calls get one client order id for as long as the
\* session stays up: through cancellations, rejections, warnings, failing
\* statements of the database and restarts, whenever the reader sets the counter.
\* With the session lost between two calls it is not so: the second may get the
\* id of the first, which TWS has never seen.
THEOREM IdsAreUnique ==
    ASSUME Desk PROVE Spec /\ []connected => []UniqueIds
<1>1. Init => RowsInv /\ IdsInv
  BY InitRows, InitIds
<1>2. IdsInv /\ RowsInv /\ connected /\ connected' /\ [Next]_vars => IdsInv'
  BY IdsKept
<1>3. IdsInv => UniqueIds
  BY DEF IdsInv, GivenInv
<1> QED BY <1>1, <1>2, <1>3, RowsAlways, PTL DEF Spec

-----------------------------------------------------------------------------
(* The session. Besides a lost connection only the reader's own exceptions   *)
(* end it: of those a failing UPDATE and a clash over open_orders are left   *)
(* where each orderStatus follows the openOrder of its order.                *)

\* An orderStatus for order c finds an entry with a contract.
Shown(c) == open[c].placed \/ "openOrder" \in open[c].heard

SessionInv ==
    /\ TypeInv /\ connected /\ ~clash
    /\ \A i \in 1 .. Len(inbox) : inbox[i].type = "orderStatus" =>
          IF i = 1 THEN Shown(inbox[1].id)
          ELSE inbox[i - 1].type = "openOrder" /\ inbox[i - 1].id = inbox[i].id

LEMMA StaysUp ==
    ASSUME SessionInv, Undisturbed, Undisturbed', [Next]_vars
    PROVE  connected' /\ ~clash'
<1> USE DEF Client, place, client, session
<1>0. /\ TypeOK /\ connected = TRUE /\ clash = FALSE
      /\ ~Spend("clash") /\ ~Spend("dbFault") /\ ~Spend("drop")
  <2>1. TypeOK /\ connected = TRUE /\ clash = FALSE
    BY DEF SessionInv, TypeInv, TypeOK
  <2> QED BY <2>1, OrderAssumption DEF TypeOK, Undisturbed, Unspent, Spend, Events
<1>1. ASSUME NEW o \in Orders, PlaceCall(o) \/ PlaceStep(o) \/ CancelSend(o)
      PROVE  connected' = TRUE /\ clash' = FALSE
  BY <1>0, <1>1 DEF PlaceCall, PlaceStep, Bump, Send, ReqIds, Register, Clashes,
                    Read, Wait, Save, CancelSend
<1>2. CASE CancelWrite
  BY <1>0, <1>2 DEF CancelWrite
<1>3. CASE orderStatus
  <2>1. /\ inbox # <<>> /\ inbox \in Seq(Message) /\ Head(inbox) = inbox[1]
        /\ 1 \in 1 .. Len(inbox) /\ inbox[1].type = "orderStatus"
    BY <1>0, <1>3 DEF orderStatus, Receive, TypeOK
  <2>2. Shown(Head(inbox).id)
    BY <2>1 DEF SessionInv
  <2> QED BY <1>0, <1>3, <2>2 DEF orderStatus, Notify, Shown
<1>4. CASE nextValidId \/ openOrder \/ completedOrder \/ error
           \/ contractDetails \/ ReaderExit
  BY <1>0, <1>4 DEF nextValidId, openOrder, completedOrder, error,
                    contractDetails, Die, ReaderExit, Notify
<1>5. ASSUME NEW c \in ClientId, Broker(c) \/ Poll(c)
      PROVE  connected' = TRUE /\ clash' = FALSE
  BY <1>0, <1>5 DEF Broker, Report, Confirm, Cancelled, Fill, Reject, Warn, Poll
<1>6. CASE Drop \/ Reconnect
  BY <1>0, <1>6 DEF Drop, Reconnect
<1>7. CASE Restart \/ UNCHANGED vars
  BY <1>0, <1>7 DEF Restart, vars
<1>8. ReaderStep => connected' = TRUE /\ clash' = FALSE
  BY <1>3, <1>4 DEF ReaderStep
<1>9. CASE UNCHANGED vars
  BY <1>7, <1>9
<1>10. CASE Next
  BY <1>1, <1>2, <1>5, <1>6, <1>7, <1>8, <1>10, Zenon DEF Next
<1> QED BY <1>9, <1>10, Zenon

LEMMA StaysShown ==
    ASSUME SessionInv, StatusAlone = FALSE, [Next]_vars,
           NEW i \in 1 .. Len(inbox'), inbox'[i].type = "orderStatus"
    PROVE  IF i = 1 THEN Shown(inbox[1].id)'
           ELSE inbox'[i - 1].type = "openOrder" /\ inbox'[i - 1].id = inbox'[i].id
<1> USE DEF Client, place, client, session
<1>0. TypeInv /\ TypeOK /\ inbox \in Seq(Message) /\ connected /\ ~clash
  BY DEF SessionInv, TypeInv, TypeOK
<1>1. CASE ReaderStep
  <2>1. /\ inbox # <<>> /\ inbox' = Tail(inbox) /\ Head(inbox) = inbox[1]
        /\ 1 \in 1 .. Len(inbox)
    <3>1. PICK t \in Reported \cup {"nextValidId", "error"} : Receive(t)
      BY <1>0, <1>1 DEF ReaderStep, nextValidId, openOrder, orderStatus,
                        completedOrder, error, contractDetails, ReaderExit,
                        Reported, Callback
    <3>2. inbox # <<>> /\ inbox' = Tail(inbox)
      BY <3>1 DEF Receive
    <3> QED BY <1>0, <3>2
  <2>2. i + 1 \in 1 .. Len(inbox) /\ i + 1 # 1 /\ inbox'[i] = inbox[i + 1]
    BY <1>0, <2>1
  <2>3. inbox[i].type = "openOrder" /\ inbox[i].id = inbox[i + 1].id
    BY <2>2 DEF SessionInv
  <2>4. CASE i = 1
    <3>1. openOrder
      BY <1>0, <1>1, <2>1, <2>3, <2>4
         DEF ReaderStep, nextValidId, orderStatus, completedOrder, error,
             contractDetails, ReaderExit, Receive
    <3>2. inbox[1] \in Message /\ inbox[1].id \in ClientId
      BY <1>0, <2>1, <2>3, <2>4, Fields
    <3>3. "openOrder" \in open'[inbox[1].id].heard
      BY <1>0, <2>1, <3>1, <3>2 DEF openOrder, Hear, TypeOK
    <3>4. inbox'[1].id = inbox[1].id
      BY <2>2, <2>3, <2>4
    <3> QED BY <2>4, <3>3, <3>4 DEF Shown
  <2>5. CASE i # 1
    <3>1. inbox'[i - 1] = inbox[i]
      BY <1>0, <2>1, <2>5
    <3> QED BY <2>2, <2>3, <2>5, <3>1
  <2> QED BY <2>4, <2>5
<1>2. CASE ~ReaderStep
  <2>1. PICK ms \in Seq(Message) : Paired(ms) /\ (inbox' = inbox \o ms \/ inbox' = ms)
    BY <1>0, <1>2, Queued DEF Queue
  <2>2. CASE inbox' = ms
    BY <2>1, <2>2 DEF Paired
  <2>3. CASE inbox' = inbox \o ms /\ i > Len(inbox)
    <3>1. i - Len(inbox) \in 1 .. Len(ms) /\ inbox'[i] = ms[i - Len(inbox)]
      BY <1>0, <2>3
    <3>2. /\ i - Len(inbox) > 1 /\ ms[i - Len(inbox) - 1].type = "openOrder"
          /\ ms[i - Len(inbox) - 1].id = inbox'[i].id
      BY <2>1, <3>1 DEF Paired
    <3>3. i - 1 > Len(inbox) /\ inbox'[i - 1] = ms[i - Len(inbox) - 1] /\ i # 1
      BY <1>0, <2>3, <3>1, <3>2
    <3> QED BY <3>2, <3>3
  <2>4. CASE inbox' = inbox \o ms /\ i <= Len(inbox)
    <3>1. i \in 1 .. Len(inbox) /\ inbox'[i] = inbox[i] /\ inbox'[1] = inbox[1]
      BY <1>0, <2>4
    <3>2. CASE i # 1
      <4>1. inbox'[i - 1] = inbox[i - 1]
        BY <1>0, <2>4, <3>2
      <4> QED BY <3>1, <3>2, <4>1 DEF SessionInv
    <3>3. CASE i = 1
      <4>1. inbox[1].type = "orderStatus" /\ Shown(inbox[1].id)
        BY <3>1, <3>3 DEF SessionInv
      <4>2. inbox[1].id \in ClientId
        BY <1>0, <3>1, <3>3, <4>1, Fields
      <4>3. ~Restart
        BY <3>1, <4>1, <3>3 DEF Restart, NextId
      <4>4. \/ UNCHANGED open
            \/ \E o \in Orders : open' = [open EXCEPT ![cid[o]] = Placed]
        BY <1>2, <4>3
           DEF Next, PlaceCall, PlaceStep, Bump, Send, ReqIds, Register, Read, Wait,
               Save, CancelSend, CancelWrite, Broker, Report, Confirm, Cancelled, Fill,
               Reject, Warn, Poll, Drop, Reconnect, vars
      <4>5. open'[inbox[1].id] \in {open[inbox[1].id], Placed}
        BY <1>0, <4>2, <4>4 DEF TypeOK
      <4> QED BY <3>1, <3>3, <4>1, <4>5 DEF Shown, Placed
    <3> QED BY <3>2, <3>3
  <2> QED BY <1>0, <2>1, <2>2, <2>3, <2>4
<1> QED BY <1>1, <1>2

\* As long as nothing has disturbed it.
SessionUndisturbed == BudgetInv /\ (Undisturbed => SessionInv)

LEMMA SessionKept ==
    ASSUME StatusAlone = FALSE
    PROVE  RowsInv /\ SessionUndisturbed /\ [Next]_vars => SessionUndisturbed'
<1> SUFFICES ASSUME RowsInv, SessionUndisturbed, [Next]_vars PROVE SessionUndisturbed'
  OBVIOUS
<1>1. TypeOK /\ BudgetInv
  BY DEF SessionUndisturbed, RowsInv, FilledInv, TypeInv
<1>2. BudgetInv' /\ (Undisturbed' => Undisturbed)
  BY <1>1, SpentStays
<1>3. ASSUME SessionInv, Undisturbed, Undisturbed' PROVE SessionInv'
  <2>1. TypeInv'
    BY <1>3, TypeKept DEF SessionInv
  <2>2. \A i \in 1 .. Len(inbox') : inbox'[i].type = "orderStatus" =>
          IF i = 1 THEN Shown(inbox[1].id)'
          ELSE inbox'[i - 1].type = "openOrder" /\ inbox'[i - 1].id = inbox'[i].id
    BY <1>3, StaysShown
  <2> QED BY <1>3, <2>1, <2>2, StaysUp DEF SessionInv
<1> QED BY <1>2, <1>3 DEF SessionUndisturbed

LEMMA InitSession == Init => SessionUndisturbed
<1> SUFFICES ASSUME Init PROVE SessionUndisturbed
  OBVIOUS
<1>1. Len(inbox) = 1 /\ inbox[1].type # "orderStatus"
  BY DEF Init, NextId
<1>2. BudgetInv
  BY OrderAssumption DEF BudgetInv, Init
<1> QED BY <1>1, <1>2, InitType DEF SessionUndisturbed, SessionInv, Init

\* Where statuses come in pairs, the session stays up until the connection is
\* lost, the database fails, or a new order enters open_orders while
\* contractDetails goes through it: nothing else that place_order and the
\* callbacks do to open_orders, in any order, makes a callback raise.
THEOREM SessionLasts ==
    ASSUME StatusAlone = FALSE PROVE Spec => [](Undisturbed => connected)
<1>1. SessionUndisturbed => (Undisturbed => connected)
  BY DEF SessionUndisturbed, SessionInv
<1> QED BY <1>1, InitSession, SessionKept, RowsAlways, PTL DEF Spec

-----------------------------------------------------------------------------
(* All together, for two threads that place orders.                         *)

\* On a desk, then, a place_order that raises leaves nothing that trades until a
\* warning comes or the database fails, for as long as the session stays up.
THEOREM NothingOrphanedOnline ==
    ASSUME Desk PROVE Spec /\ []connected => []NoOrphans
BY IdsAreUnique, NothingOrphaned, PTL

\* The refinement on such a desk: the call, market and row of each order are those
\* of OrderLedger.
THEOREM LedgerImplementedOnline ==
    ASSUME Desk PROVE Spec /\ []connected /\ []Calm => ImplementsLedger
BY IdsAreUnique, LedgerImplemented, PTL

\* What holds on a desk as long as nothing has disturbed it, and of orphans as
\* long as no warning has come either.
DeskInv ==
    /\ Undisturbed => IdsInv
    /\ Undisturbed /\ Calm => OrphanInv

LEMMA DeskKept ==
    ASSUME Desk
    PROVE  /\ RowsInv /\ SessionUndisturbed /\ SessionUndisturbed' /\ DeskInv
           /\ [Next]_vars
           => DeskInv'
<1> SUFFICES ASSUME RowsInv, SessionUndisturbed, SessionUndisturbed', DeskInv,
                    [Next]_vars
             PROVE  DeskInv'
  OBVIOUS
<1>1. TypeOK /\ BudgetInv
  BY DEF SessionUndisturbed, RowsInv, FilledInv, TypeInv
<1>2. (Undisturbed' => Undisturbed) /\ (Calm' => Calm)
  BY <1>1, SpentStays
<1>3. ASSUME Undisturbed' PROVE IdsInv'
  <2>1. connected /\ connected'
    BY <1>2, <1>3 DEF SessionUndisturbed, SessionInv
  <2> QED BY <1>2, <1>3, <2>1, IdsKept DEF DeskInv
<1>4. ASSUME Undisturbed', Calm' PROVE OrphanInv'
  <2>1. OrphanInv /\ UniqueIds
    BY <1>2, <1>4 DEF DeskInv, IdsInv, GivenInv
  <2> QED BY <1>4, <2>1, OrphansKept
<1> QED BY <1>3, <1>4 DEF DeskInv

\* From conditions on the constants alone: two threads place orders, reports take
\* longer than IB.place_order and statuses come in pairs. Until the connection is
\* lost, the database fails or an order clashes with contractDetails, no two calls
\* share an id; until then, or until a warning comes, a call that raises leaves
\* nothing that trades; and in a behaviour without the four OrderFlow implements
\* OrderLedger.
THEOREM DeskIsSafe ==
    ASSUME Desk, StatusAlone = FALSE
    PROVE  Spec => /\ [](Undisturbed => UniqueIds)
                   /\ [](Undisturbed => NoOrphans)
                   /\ [](Undisturbed /\ Calm) => ImplementsLedger
<1>1. Init => DeskInv
  BY InitIds, InitOrphans DEF DeskInv
<1>2. /\ RowsInv /\ SessionUndisturbed /\ SessionUndisturbed' /\ DeskInv
      /\ [Next]_vars
      => DeskInv'
  BY DeskKept
<1>3. Spec => []SessionUndisturbed
  BY InitSession, SessionKept, RowsAlways, PTL DEF Spec
<1>4. DeskInv => /\ Undisturbed => UniqueIds
                 /\ Undisturbed => NoOrphans
  BY DEF DeskInv, IdsInv, GivenInv, OrphanInv, CallTrue, Dead, NoOrphans,
         Standing
<1> QED BY <1>1, <1>2, <1>3, <1>4, RowsAlways, LedgerImplemented, PTL DEF Spec

=============================================================================
