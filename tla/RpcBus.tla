------------------------------- MODULE RpcBus -------------------------------
(***************************************************************************)
(* The desk: web handlers ask the core for things through a RabbitMQ queue   *)
(* (RPCClient.call), and one consumer in the core takes the requests one at  *)
(* a time (prefetch 1), answers each and acknowledges it afterwards          *)
(* (RPCServer.on_request). A message that was not acknowledged when its      *)
(* connection goes is delivered again, to a later process.                   *)
(* RabbitMQ is external. So is what the handlers look up: each kind of       *)
(* request needs some of it, and raises without it.                          *)
(***************************************************************************)
EXTENDS CoreSession, SequencesExt

CONSTANTS
    Calls,    \* RPCClient objects, each of which makes one call
    KindOf,   \* RPCRequestType of each
    NoCall

RPCRequestType ==
    {"ACCOUNT", "ACCOUNT_VALUES", "PORTFOLIO", "OPEN_ORDERS", "COMPLETED_ORDERS",
     "OPTION_CHAIN", "TICKS", "ORDER", "CANCEL_ORDER", "PROFITABLE_SPREADS",
     "TERM_STRUCTURE", "GEX", "VOLATILITY_FORECAST", "VOLATILITY_HISTORY",
     "VOLATILITY_SURFACE", "OPTION_CHAIN_IV"}
Resources == {"greeks", "database", "account", "moneyness", "prices", "expiry"}

\* What a caller is told: what it asked for, that there is no session, or another
\* error, which says nothing of what was done before it.
Answers == {"done", "refused", "failed"}

ASSUME BusAssumption ==
    /\ KindOf \in [Calls -> RPCRequestType]
    /\ NoCall \notin Calls

VARIABLES
    call,      \* what the web handler sees: waiting, then an answer
    queue,     \* RABBITMQ_QUEUE
    replies,   \* on their way to the callback queues
    consumer,  \* the thread of RPCServer.start
    hand,      \* the request on_request is busy with
    response,
    link,      \* its connection, as the broker sees it
    unacked,   \* the delivery the broker waits to see acknowledged
    lacking,   \* what the handlers would not find
    unread,    \* calls with a body that their handler cannot read
    stuck,     \* the wait that the consumer is in has no end
    ran,       \* how often the handler has done what it was asked
    broken     \* calls whose delivery was broken off

bus == <<call, queue, replies, consumer, hand, response, link, unacked, lacking,
         unread, stuck, ran, broken>>
client == <<call, replies, unread>>
worker == <<consumer, hand, response, stuck>>
broker == <<queue, link, unacked, broken>>
vars == <<session, bus>>

-----------------------------------------------------------------------------
\* What a handler takes for granted: without it an exception that it does not
\* catch leaves on_request. "account" is a make_request that goes through (the
\* account is ready, no thread adds to handled_requests meanwhile), "moneyness" a
\* round of the screener since the last option was added to a chain, "expiry" that
\* no position, or no chain, has passed its own.
Needs(kind) ==
    CASE kind = "ACCOUNT" -> {"greeks"}
      [] kind \in {"ACCOUNT_VALUES", "OPEN_ORDERS", "COMPLETED_ORDERS"} -> {"database"}
      [] kind \in {"OPTION_CHAIN", "TICKS"} -> {"account"}
      [] kind \in {"PORTFOLIO", "GEX"} -> {"expiry"}
      [] kind = "TERM_STRUCTURE" -> {"moneyness", "expiry"}
      [] kind \in {"VOLATILITY_FORECAST", "VOLATILITY_HISTORY"} -> {"prices"}
      [] OTHER -> {}

\* Handlers that wait for the contracts TWS has.
Searches == {"ORDER", "OPTION_CHAIN"}

\* Handlers that look at the session themselves, and those that answer with an
\* error of another kind.
Checks == Searches \cup {"ACCOUNT", "PORTFOLIO", "OPEN_ORDERS", "COMPLETED_ORDERS",
                        "CANCEL_ORDER"}
MayFail == Searches \cup {"CANCEL_ORDER", "OPTION_CHAIN_IV", "TICKS"}

\* Handlers that convert what the body holds without catching what that raises.
Convert == {"ORDER", "TICKS", "VOLATILITY_FORECAST", "VOLATILITY_HISTORY"}

TypeOK ==
    /\ SessionTypeOK
    /\ call \in [Calls -> {"idle", "waiting", "gone"} \cup Answers]
    /\ queue \in Seq(Calls) /\ IsInjective(queue)
    /\ replies \subseteq Calls \X Answers
    /\ consumer \in {"off", "idle", "handling", "searching", "sending", "placing",
                     "replying", "acking", "dead", "closed"}
    /\ hand \in Calls \cup {NoCall}
    /\ consumer \in {"off", "idle", "closed"} => hand = NoCall
    /\ response \in {"none"} \cup Answers
    /\ link \in BOOLEAN
    /\ unacked \in {NoCall, hand}
    /\ lacking \subseteq Resources
    /\ unread \subseteq Calls /\ stuck \in BOOLEAN
    /\ ran \in [Calls -> Nat]
    /\ broken \subseteq Calls

Init ==
    /\ SessionInit
    /\ call = [c \in Calls |-> "idle"]
    /\ queue = <<>> /\ replies = {}
    /\ consumer = "off" /\ hand = NoCall /\ response = "none"
    /\ link = TRUE /\ unacked = NoCall
    /\ lacking = {} /\ unread = {} /\ stuck = FALSE
    /\ ran = [c \in Calls |-> 0]
    /\ broken = {}

-----------------------------------------------------------------------------
(* The web handlers.                                                         *)

Call(c) ==
    /\ call[c] = "idle"
    /\ call' = [call EXCEPT ![c] = "waiting"]
    /\ queue' = Append(queue, c)
    /\ \/ UNCHANGED <<unread, budget>>
       \/ KindOf[c] \in Convert /\ Spend("body") /\ unread' = unread \cup {c}
    /\ UNCHANGED <<process, replies, worker, link, unacked, lacking, ran, broken>>

\* Routes that check parameters: one that is missing is answered without a call.
Parameterised == RPCRequestType \
    {"ACCOUNT", "ACCOUNT_VALUES", "PORTFOLIO", "OPEN_ORDERS", "COMPLETED_ORDERS",
     "PROFITABLE_SPREADS", "TERM_STRUCTURE", "GEX", "VOLATILITY_HISTORY",
     "VOLATILITY_SURFACE"}
BadRequest(c) ==
    /\ call[c] = "idle" /\ KindOf[c] \in Parameterised
    /\ call' = [call EXCEPT ![c] = "refused"]
    /\ UNCHANGED <<session, queue, replies, unread, worker, link, unacked, lacking,
                   ran, broken>>

\* on_response. A caller that has gone has taken its callback queue with it.
on_response(c, r) ==
    /\ <<c, r>> \in replies
    /\ replies' = replies \ {<<c, r>>}
    /\ call' = IF call[c] = "waiting" THEN [call EXCEPT ![c] = r] ELSE call
    /\ UNCHANGED <<session, unread, worker, broker, lacking, ran>>

Leave(c) ==
    /\ call[c] = "waiting" /\ Spend("leave")
    /\ call' = [call EXCEPT ![c] = "gone"]
    /\ UNCHANGED <<process, replies, unread, worker, broker, lacking, ran>>

-----------------------------------------------------------------------------
(* The consumer.                                                             *)

\* start(): basic_qos raises on a connection that was closed in the meantime.
StartAll ==
    /\ Start
    /\ consumer' = IF link THEN "idle" ELSE "dead"
    /\ UNCHANGED <<client, hand, response, stuck, broker, lacking, ran>>

\* For a mutant: delivered with auto_ack.
DeliverAndForget ==
    /\ consumer = "idle" /\ link /\ unacked = NoCall /\ queue # <<>>
    /\ hand' = Head(queue) /\ UNCHANGED unacked
    /\ queue' = Tail(queue)
    /\ IF connected
       THEN consumer' = "handling" /\ UNCHANGED response
       ELSE consumer' = "replying" /\ response' = "refused"
    /\ UNCHANGED <<session, client, stuck, link, lacking, ran, broken>>

\* on_request up to the match: the connection check. prefetch_count is 1.
Deliver ==
    /\ consumer = "idle" /\ link /\ unacked = NoCall /\ queue # <<>>
    /\ hand' = Head(queue) /\ unacked' = Head(queue)
    /\ queue' = Tail(queue)
    /\ IF connected
       THEN consumer' = "handling" /\ UNCHANGED response
       ELSE consumer' = "replying" /\ response' = "refused"
    /\ UNCHANGED <<session, client, stuck, link, lacking, ran, broken>>

\* Without a session these handlers answer that there is none. An equity order
\* finds out when it is sent.
Refuses(c) == KindOf[c] \in Checks /\ ~connected

\* An uncaught exception ends the thread; the connection stays.
Raises(c) ==
    \/ c \in unread
    \/ Needs(KindOf[c]) \cap lacking # {} /\ ~Refuses(c)
    \/ KindOf[c] = "TICKS" /\ ~connected
HandleRaises ==
    /\ consumer = "handling" /\ Raises(hand)
    /\ consumer' = "dead"
    /\ UNCHANGED <<session, client, hand, response, stuck, broker, lacking, ran>>

Reply(r) == consumer' = "replying" /\ response' = r
Carry == ran' = [ran EXCEPT ![hand] = @ + 1]

\* A wait for what TWS says. It has no end when a strike is missing, a request
\* failed or was never answered, or nothing but an error rejected the order.
Await(wait) ==
    /\ consumer' = wait /\ UNCHANGED response
    /\ \/ UNCHANGED <<stuck, budget>>
       \/ Spend("stuck") /\ stuck' = TRUE

\* For a mutant: the connection looked at after the request was carried out.
HandleFirst ==
    /\ consumer = "handling" /\ ~Raises(hand)
    /\ Carry /\ Reply(IF Refuses(hand) THEN "refused" ELSE "done")
    /\ UNCHANGED <<session, stuck, client, hand, broker, lacking>>

Handle ==
    /\ consumer = "handling" /\ ~Raises(hand)
    /\ LET kind == KindOf[hand] IN
       \/ /\ Refuses(hand) /\ Reply("refused")
          /\ UNCHANGED <<ran, stuck, budget>>
       \/ /\ ~Refuses(hand) /\ kind \in Searches /\ Await("searching")
          /\ UNCHANGED ran
       \/ /\ kind = "ORDER" /\ consumer' = "sending"
          /\ UNCHANGED <<response, ran, stuck, budget>>
       \/ /\ ~Refuses(hand) /\ kind \in MayFail /\ Reply("failed")
          /\ UNCHANGED <<ran, stuck, budget>>
       \/ /\ ~Refuses(hand) /\ kind \notin Searches
          /\ Carry /\ Reply("done") /\ UNCHANGED <<stuck, budget>>
       \/ /\ ~Refuses(hand) /\ kind = "CANCEL_ORDER"    \* the UPDATE failed
          /\ Carry /\ Reply("failed") /\ UNCHANGED <<stuck, budget>>
    /\ UNCHANGED <<process, client, hand, broker, lacking>>

\* The contracts are there, or (for the option chain) an error in their place.
Found ==
    /\ consumer = "searching" /\ ~stuck
    /\ IF KindOf[hand] = "ORDER"
       THEN consumer' = "sending" /\ UNCHANGED <<response, ran>>
       ELSE \/ Carry /\ Reply("done")
            \/ Reply("failed") /\ UNCHANGED ran
    /\ UNCHANGED <<session, stuck, client, hand, broker, lacking>>

\* place_order up to the send: an exception, no session, or an order that is out.
Send ==
    /\ consumer = "sending"
    /\ \/ Reply("failed") /\ UNCHANGED <<ran, stuck, budget>>
       \/ ~connected /\ Reply("refused") /\ UNCHANGED <<ran, stuck, budget>>
       \/ connected /\ Carry /\ Await("placing")
    /\ UNCHANGED <<process, client, hand, broker, lacking>>

\* For a mutant: whether the session is there is looked at after the work.
AnsweredIfConnected ==
    /\ consumer = "placing" /\ ~stuck
    /\ Reply(IF connected THEN "done" ELSE "refused")
    /\ UNCHANGED <<session, stuck, client, hand, broker, lacking, ran>>

\* The order has a status and a permId. What comes after may fail, although the
\* order is out: it was rejected, a warning was taken for that, or the INSERT failed.
Answered ==
    /\ consumer = "placing" /\ ~stuck
    /\ \E r \in {"done", "failed"} : Reply(r)
    /\ UNCHANGED <<session, stuck, client, hand, broker, lacking, ran>>

Publish ==
    /\ consumer = "replying"
    /\ IF link
       THEN /\ replies' = replies \cup {<<hand, response>>}
            /\ consumer' = "acking"
       ELSE consumer' = "dead" /\ UNCHANGED replies
    /\ response' = "none"
    /\ UNCHANGED <<session, call, unread, hand, stuck, broker, lacking, ran>>

\* For a mutant: the acknowledgement forgotten.
AckForgotten ==
    /\ consumer = "acking"
    /\ IF link
       THEN consumer' = "idle" /\ hand' = NoCall
       ELSE consumer' = "dead" /\ UNCHANGED hand
    /\ UNCHANGED <<session, client, response, stuck, broker, lacking, ran>>

Ack ==
    /\ consumer = "acking"
    /\ IF link
       THEN consumer' = "idle" /\ hand' = NoCall /\ unacked' = NoCall
       ELSE consumer' = "dead" /\ UNCHANGED <<hand, unacked>>
    /\ UNCHANGED <<session, client, response, stuck, queue, link, lacking, ran, broken>>

\* start_consuming raises; only ChannelClosed is caught, and that ends it too.
Notice ==
    /\ consumer = "idle" /\ ~link
    /\ consumer' = "dead"
    /\ UNCHANGED <<session, client, hand, response, stuck, broker, lacking, ran>>

-----------------------------------------------------------------------------
(* The broker, the process and what the handlers need.                       *)

\* The connection goes: what was not acknowledged is at the head again.
Requeue ==
    /\ unacked' = NoCall
    /\ queue' = (IF unacked = NoCall THEN <<>> ELSE <<unacked>>) \o queue
    /\ broken' = broken \cup ({unacked} \ {NoCall})

\* No thread answers heartbeats while a handler runs, before start() or after
\* an exception; and a network may fail.
LinkLost ==
    /\ link /\ link' = FALSE
    /\ Requeue
    /\ IF consumer = "dead" THEN UNCHANGED budget ELSE Spend("link")
    /\ UNCHANGED <<process, client, worker, lacking, ran>>

\* shutdown() to its end. A handler that is running finds the channel closed
\* when it has something to publish.
Shutdown ==
    /\ Disconnect
    /\ link' = FALSE
    /\ Requeue
    /\ consumer' = IF consumer = "idle" THEN "closed" ELSE consumer
    /\ UNCHANGED <<client, hand, response, stuck, lacking, ran>>

Restart ==
    /\ Reborn
    /\ link' = TRUE
    /\ Requeue
    /\ consumer' = "off" /\ hand' = NoCall /\ response' = "none" /\ stuck' = FALSE
    /\ UNCHANGED <<client, lacking, ran>>

\* Greeks of a new position, a database connection, ...: they may come back. Only
\* what some call needs is told apart.
Lack(r) ==
    /\ r \in UNION {Needs(KindOf[c]) : c \in Calls} \ lacking
    /\ Spend("lack")
    /\ lacking' = lacking \cup {r}
    /\ UNCHANGED <<process, client, worker, broker, ran>>
Regain(r) ==
    /\ r \in lacking
    /\ lacking' = lacking \ {r}
    /\ UNCHANGED <<session, client, worker, broker, ran>>

-----------------------------------------------------------------------------
Serve == \/ Deliver \/ HandleRaises \/ Handle \/ Found \/ Send \/ Answered
         \/ Publish \/ Ack \/ Notice

Next ==
    \/ SessionStep /\ UNCHANGED bus
    \/ StartAll \/ Shutdown \/ Restart
    \/ \E c \in Calls : Call(c) \/ BadRequest(c) \/ Leave(c)
    \/ \E c \in Calls, r \in Answers : on_response(c, r)
    \/ Serve
    \/ LinkLost
    \/ \E r \in Resources : Lack(r) \/ Regain(r)

Spec == Init /\ [][Next]_vars

\* Threads run, the broker delivers, and connect_ib gets through in the end.
\* A wait for TWS is over once somebody hears it; it may have been over before.
\* No caller has to call, nothing has to fail or to come back, and no wait of the
\* hedge has to end.
Waits == consumer \in {"searching", "placing"}
Fairness ==
    /\ \A t \in {"starter", "main"} :
          WF_vars(Dial(t) /\ UNCHANGED bus) /\ WF_vars(Dialled(t) /\ UNCHANGED bus)
    /\ WF_vars(ReaderExit /\ UNCHANGED bus) /\ WF_vars(InitIb /\ UNCHANGED bus)
    /\ WF_vars(MainLoopEnds /\ UNCHANGED bus) /\ WF_vars(HedgeEnds /\ UNCHANGED bus)
    /\ WF_vars(ScreenerEnds /\ UNCHANGED bus)
    /\ WF_vars(StartAll) /\ WF_vars(Shutdown)
    /\ WF_vars(Serve /\ (Waits => Heard))
    /\ \A c \in Calls : WF_vars(\E r \in Answers : on_response(c, r))

FairSpec == Spec /\ Fairness

-----------------------------------------------------------------------------
(* Properties.                                                               *)

\* A request whose caller waits is in the queue, unacknowledged, or answered and
\* on its way: no death of the consumer, of its connection or of the process
\* between any two steps of on_request loses it.
NothingLost ==
    \A c \in Calls : call[c] = "waiting" =>
        \/ c \in ToSet(queue) \cup {unacked}
        \/ \E r \in Answers : <<c, r>> \in replies

\* What a caller is told is so: an order whose caller was told that there is
\* no session was not sent, one reported as done was sent, and none is sent
\* twice; unless its delivery was broken off, when the second delivery knows
\* nothing of the first. Any other error says nothing: the order may be out.
AnswersTrue ==
    \A c \in Calls :
        /\ call[c] = "done" => ran[c] > 0
        /\ call[c] = "refused" => ran[c] = 0 \/ c \in broken
        /\ ran[c] > 1 => c \in broken

\* RpcBus does what RpcService says, whatever happens to the queue, the
\* connections, the threads and the process.
Service == INSTANCE RpcService
ImplementsService == Service!Spec

\* Nobody listens: the consumer has not started, has ended, or waits for TWS where
\* the wait has no end, the session is gone or no thread reads it.
Deaf ==
    \/ consumer \in {"off", "dead", "closed"}
    \/ Waits /\ (stuck \/ ~Heard)

\* A caller is answered while somebody listens, however many are before it and
\* whatever happens to the session.
Served == \A c \in Calls : call[c] = "waiting" ~> call[c] # "waiting" \/ Deaf

\* After a signal the loops end, in whatever state of the start-up or of a
\* reconnection it comes, and the reader with them, unless a thread waits inside
\* place_order or IB.connect was under way and the session has come up again.
Stops ==
    handler = "flagged" ~>
        \/ handler = "none"
        \/ /\ \A t \in {"main", "screener"} : thread[t] = "ended"
           /\ thread["hedge"] \in {"ended", "placing"}
           /\ connected \/ thread["reader"] = "ended"
=============================================================================
