---------------------------- MODULE RpcBus_proofs ----------------------------
(***************************************************************************)
(* Theorems about RpcBus for any callers and requests, and any number of     *)
(* lost sessions, connections and processes, with their TLAPS proofs.        *)
(***************************************************************************)
EXTENDS RpcBus, DataLemmas, TLAPS

-----------------------------------------------------------------------------
(* The inductive invariant.                                                  *)

\* The consumer has a request that it has not carried out.
Handling == {"handling", "searching", "sending"}
Busy == Handling \cup {"placing", "replying", "acking"}

\* A delivery is of a request that is in the queue no more, a consumer that is
\* busy is busy with one, and a process that has not started its threads has none.
QueueInv ==
    /\ unacked \notin ToSet(queue)
    /\ consumer \in Busy => hand # NoCall
    /\ starter = "connecting" => consumer = "off"

\* Nobody has heard of a request whose caller has not called.
Asked(c) == call[c] # "idle"
AskedInv ==
    /\ \A c \in ToSet(queue) : Asked(c)
    /\ hand # NoCall => Asked(hand)
    /\ \A c \in Calls, r \in Answers : <<c, r>> \in replies => Asked(c)

\* A request that was published is on its way until its caller has it; and
\* where there is something to publish there is an answer.
RepliedInv ==
    /\ consumer = "replying" => response # "none"
    /\ consumer = "acking" /\ call[hand] = "waiting" =>
          \E r \in Answers : <<hand, r>> \in replies

BusInv == TypeOK /\ QueueInv /\ AskedInv /\ RepliedInv /\ NothingLost

\* Nobody has touched the request, nor said anything of it.
Untouched(c) ==
    /\ ran[c] = 0
    /\ call[c] \notin Answers
    /\ \A r \in Answers : <<c, r>> \notin replies

\* What will be said of a request is so, unless its delivery was broken off.
TruthInv ==
    /\ \A c \in Calls : call[c] = "idle" => Untouched(c)
    /\ \A c \in ToSet(queue) : Untouched(c) \/ c \in broken
    /\ hand \in ToSet(queue) => hand \in broken
    /\ consumer \in Handling => Untouched(hand) \/ hand \in broken
    /\ consumer = "placing" => ran[hand] > 0
    /\ consumer = "replying" =>
          /\ response = "done" => ran[hand] > 0
          /\ response = "refused" => ran[hand] = 0 \/ hand \in broken
    /\ \A c \in Calls :
          /\ <<c, "done">> \in replies => ran[c] > 0
          /\ <<c, "refused">> \in replies => ran[c] = 0 \/ c \in broken

-----------------------------------------------------------------------------
(* What the parts of an action do.                                           *)

\* Spending an event of the environment leaves a budget.
LEMMA Spent ==
    ASSUME SessionTypeOK, NEW e \in Events, Spend(e)
    PROVE  budget' \in [Events -> Nat]
BY DEF SessionTypeOK, Spend

\* No step of the session moves the main thread on.
LEMMA SessionSteps ==
    ASSUME SessionTypeOK, SessionStep
    PROVE  SessionTypeOK' /\ starter' = starter
<1> USE DEF SessionTypeOK
<1>1. CASE \E t \in {"starter", "main"} : Dial(t)
  BY <1>1 DEF Dial
<1>2. CASE \E t \in {"starter", "main"} : Dialled(t)
  <2>1. budget' \in [Events -> Nat]
    BY <1>2, Spent DEF Dialled, Events
  <2> QED BY <1>2, <2>1 DEF Dialled
<1>3. CASE \/ ReaderExit \/ InitIb \/ MainLoopEnds \/ HedgeEnds \/ ScreenerEnds
  BY <1>3 DEF ReaderExit, InitIb, MainLoopEnds, HedgeEnds, ScreenerEnds, Ends
<1>4. CASE HedgePlaces \/ HedgePlaced
  <2>1. budget' \in [Events -> Nat]
    BY <1>4, Spent DEF HedgePlaces, HedgePlaced, Events
  <2> QED BY <1>4, <2>1 DEF HedgePlaces, HedgePlaced
<1>5. CASE Drop \/ Signal
  <2>1. budget' \in [Events -> Nat]
    BY <1>5, Spent DEF Drop, Signal, Events
  <2> QED BY <1>5, <2>1 DEF Drop, Signal, Flags
<1> QED BY <1>1, <1>2, <1>3, <1>4, <1>5 DEF SessionStep

\* A connection that goes puts back what was not acknowledged, and nothing else.
LEMMA Requeued ==
    ASSUME TypeOK, QueueInv, Requeue
    PROVE  /\ queue' \in Seq(Calls) /\ IsInjective(queue')
           /\ ToSet(queue') = ToSet(queue) \cup ({unacked} \ {NoCall})
           /\ unacked' = NoCall /\ NoCall \notin ToSet(queue')
           /\ broken' = broken \cup ({unacked} \ {NoCall})
           /\ broken' \subseteq Calls
<1>1. unacked \in Calls \cup {NoCall} /\ NoCall \notin Calls
  BY BusAssumption DEF TypeOK
<1>2. /\ queue \in Seq(Calls) /\ IsInjective(queue)
      /\ broken \subseteq Calls /\ ToSet(queue) \subseteq Calls
  BY QueueMembers DEF TypeOK
<1>3. CASE unacked = NoCall
  <2>1. queue' = queue
    BY <1>2, <1>3, ConcatEmptySeq DEF Requeue
  <2> QED BY <1>1, <1>2, <1>3, <2>1 DEF Requeue
<1>4. CASE unacked # NoCall
  <2>1. queue' = <<unacked>> \o queue /\ unacked \in Calls
    BY <1>1, <1>4 DEF Requeue
  <2>2. /\ queue' \in Seq(Calls) /\ IsInjective(queue')
        /\ ToSet(queue') = ToSet(queue) \cup {unacked}
    BY <1>2, <2>1, QueuePutBack DEF QueueInv
  <2> QED BY <1>1, <1>2, <1>4, <2>1, <2>2 DEF Requeue
<1> QED BY <1>3, <1>4

-----------------------------------------------------------------------------
(* BusInv holds of every state.                                              *)

LEMMA InitBus == Init => BusInv
<1> SUFFICES ASSUME Init PROVE BusInv
  OBVIOUS
<1>1. queue \in Seq(Calls) /\ ToSet(queue) = {} /\ IsInjective(queue)
  BY QueueEmpty, EmptySeq DEF Init
<1>2. SessionTypeOK
  BY SessionAssumption DEF Init, SessionInit, SessionTypeOK, Unstarted
<1>3. TypeOK
  BY <1>1, <1>2 DEF Init, TypeOK
<1> QED BY <1>1, <1>3 DEF Init, SessionInit, BusInv, QueueInv, AskedInv, RepliedInv,
           NothingLost, Busy, Handling, Answers

\* The web handlers keep it.
LEMMA CallersBus ==
    ASSUME BusInv, NEW c \in Calls,
           \/ Call(c) \/ BadRequest(c) \/ Leave(c)
           \/ \E r \in Answers : on_response(c, r)
    PROVE  BusInv'
<1> USE DEF BusInv, session, process, worker, client, Answers
<1>1. CASE Call(c)
  <2>1. c \notin ToSet(queue) /\ c # unacked
    BY <1>1, BusAssumption DEF Call, AskedInv, Asked, TypeOK
  <2>2. /\ queue' \in Seq(Calls) /\ IsInjective(queue')
        /\ ToSet(queue') = ToSet(queue) \cup {c}
    BY <1>1, <2>1, QueueAppend DEF Call, TypeOK
  <2>3. TypeOK'
    <3>1. budget' \in [Events -> Nat] /\ unread' \subseteq Calls
      BY <1>1, Spent DEF Call, TypeOK, SessionTypeOK, Events
    <3> QED BY <1>1, <2>2, <3>1 DEF Call, TypeOK, SessionTypeOK
  <2>4. QueueInv' /\ AskedInv' /\ RepliedInv'
    BY <1>1, <2>1, <2>2 DEF Call, TypeOK, QueueInv, AskedInv, Asked, RepliedInv
  <2>5. NothingLost'
    BY <1>1, <2>2 DEF Call, TypeOK, NothingLost
  <2> QED BY <2>3, <2>4, <2>5
<1>2. CASE BadRequest(c)
  BY <1>2 DEF BadRequest, TypeOK, SessionTypeOK, QueueInv, AskedInv, Asked, RepliedInv,
     NothingLost
<1>3. CASE Leave(c)
  <2>1. budget' \in [Events -> Nat]
    BY <1>3, Spent DEF Leave, TypeOK, Events
  <2> QED BY <1>3, <2>1 DEF Leave, broker, TypeOK, SessionTypeOK, QueueInv, AskedInv,
             Asked, RepliedInv, NothingLost
<1>4. CASE \E r \in Answers : on_response(c, r)
  <2>1. PICK r \in Answers : on_response(c, r)
    BY <1>4
  <2> QED BY <2>1 DEF on_response, broker, TypeOK, SessionTypeOK, QueueInv, AskedInv,
             Asked, RepliedInv, NothingLost
<1> QED BY <1>1, <1>2, <1>3, <1>4

\* What the steps of a handler have in common: they leave the callers and the broker
\* alone, and carry a request out only while nothing was done about it, or with an
\* answer that says so.
WorkStep ==
    /\ hand \in Calls
    /\ UNCHANGED <<process, client, hand, broker, lacking>>
    /\ budget' = budget \/ Spend("stuck")
    /\ stuck' \in BOOLEAN
    /\ \/ /\ consumer \in Handling /\ ran' = ran
          /\ consumer' \in {"searching", "sending"} /\ response' = response
       \/ /\ consumer \in Handling /\ ran' = ran
          /\ consumer' = "replying" /\ response' \in {"refused", "failed"}
       \/ /\ consumer \in Handling /\ ran' = [ran EXCEPT ![hand] = @ + 1]
          /\ \/ consumer' = "placing" /\ response' = response
             \/ consumer' = "replying" /\ response' \in {"done", "failed"}
       \/ /\ consumer = "placing" /\ ran' = ran
          /\ consumer' = "replying" /\ response' \in {"done", "failed"}

LEMMA Work ==
    ASSUME TypeOK, QueueInv, Handle \/ Found \/ Send \/ Answered
    PROVE  WorkStep
<1> USE DEF session, process, Reply, Carry, Await, Handling
<1>1. hand \in Calls /\ stuck \in BOOLEAN
  BY DEF TypeOK, QueueInv, Busy, Handle, Found, Send, Answered
<1>2. CASE Handle
  <2> DEFINE kind == KindOf[hand]
  <2>1. CASE Refuses(hand) /\ Reply("refused") /\ UNCHANGED <<ran, stuck, budget>>
    BY <1>1, <1>2, <2>1 DEF Handle, WorkStep
  <2>2. CASE Await("searching") /\ UNCHANGED ran
    BY <1>1, <1>2, <2>2 DEF Handle, WorkStep
  <2>3. CASE consumer' = "sending" /\ UNCHANGED <<response, ran, stuck, budget>>
    BY <1>1, <1>2, <2>3 DEF Handle, WorkStep
  <2>4. CASE Reply("failed") /\ UNCHANGED <<ran, stuck, budget>>
    BY <1>1, <1>2, <2>4 DEF Handle, WorkStep
  <2>5. CASE Carry /\ (Reply("done") \/ Reply("failed")) /\ UNCHANGED <<stuck, budget>>
    BY <1>1, <1>2, <2>5 DEF Handle, WorkStep
  <2> HIDE DEF Reply, Carry, Await
  <2> QED BY <1>2, <2>1, <2>2, <2>3, <2>4, <2>5 DEF Handle
<1>3. CASE Found
  BY <1>1, <1>3 DEF Found, WorkStep
<1>4. CASE Send
  BY <1>1, <1>4 DEF Send, WorkStep
<1>5. CASE Answered
  BY <1>1, <1>5 DEF Answered, WorkStep
<1> QED BY <1>2, <1>3, <1>4, <1>5

\* So does the consumer.
LEMMA ServeBus ==
    ASSUME BusInv, Serve
    PROVE  BusInv'
<1> USE DEF BusInv, session, process, client, broker, Answers, Handling, Busy
<1>1. CASE Deliver
  <2> DEFINE c == Head(queue)
  <2>1. /\ c \in Calls /\ queue' \in Seq(Calls) /\ IsInjective(queue')
        /\ ToSet(queue) = ToSet(queue') \cup {c} /\ c \notin ToSet(queue')
    BY <1>1, QueueTake DEF Deliver, TypeOK
  <2>2. hand' = c /\ unacked' = c /\ consumer' \in {"handling", "replying"}
    BY <1>1 DEF Deliver
  <2> HIDE DEF c
  <2>3. TypeOK'
    BY <1>1, <2>1, <2>2 DEF Deliver, TypeOK, SessionTypeOK
  <2>4. QueueInv' /\ AskedInv' /\ RepliedInv'
    BY <1>1, <2>1, <2>2, BusAssumption DEF Deliver, QueueInv, AskedInv, Asked, RepliedInv
  <2>5. NothingLost'
    BY <1>1, <2>1, <2>2, BusAssumption DEF Deliver, NothingLost
  <2> QED BY <2>3, <2>4, <2>5
<1>2. CASE HandleRaises
  BY <1>2 DEF HandleRaises, TypeOK, SessionTypeOK, QueueInv, AskedInv, Asked,
     RepliedInv, NothingLost
<1>3. CASE Handle \/ Found \/ Send \/ Answered
  <2>1. WorkStep
    BY <1>3, Work
  <2>2. budget' \in [Events -> Nat]
    BY <2>1, Spent DEF WorkStep, TypeOK, SessionTypeOK, Events
  <2>3. SessionTypeOK'
    BY <2>1, <2>2 DEF WorkStep, TypeOK, SessionTypeOK
  <2>4. /\ consumer' \in {"searching", "sending", "placing", "replying"}
        /\ response' \in {"none"} \cup Answers
        /\ ran' \in [Calls -> Nat] /\ stuck' \in BOOLEAN
        /\ consumer' = "replying" => response' # "none"
        /\ hand \in Calls /\ hand # NoCall
    <3>1. ran' = ran \/ ran' = [ran EXCEPT ![hand] = @ + 1]
      BY <2>1 DEF WorkStep
    <3>2. hand \in Calls /\ hand # NoCall /\ ran' \in [Calls -> Nat]
      BY <2>1, <3>1, BusAssumption DEF WorkStep, TypeOK
    <3>3. response \in {"none"} \cup Answers
      BY DEF TypeOK
    <3>4. /\ consumer' \in {"searching", "sending", "placing", "replying"}
          /\ response' \in {"none"} \cup Answers
          /\ consumer' = "replying" => response' # "none"
          /\ stuck' \in BOOLEAN
      BY <2>1, <3>3 DEF WorkStep
    <3> QED BY <3>2, <3>4
  <2>5. UNCHANGED <<call, replies, unread, hand, queue, link, unacked, broken, lacking,
                    starter>>
    BY <2>1 DEF WorkStep
  <2>6. TypeOK'
    BY <2>3, <2>4, <2>5 DEF TypeOK
  <2>7. QueueInv' /\ RepliedInv' /\ NothingLost'
    BY <2>1, <2>4, <2>5 DEF WorkStep, QueueInv, RepliedInv, NothingLost
  <2>8. AskedInv'
    BY <2>5 DEF AskedInv, Asked
  <2> QED BY <2>6, <2>7, <2>8
<1>5. CASE Publish
  <2>1. hand \in Calls /\ response \in Answers /\ Asked(hand)
    BY <1>5 DEF Publish, TypeOK, QueueInv, AskedInv, RepliedInv
  <2>2. \/ replies' = replies \cup {<<hand, response>>} /\ consumer' = "acking"
        \/ replies' = replies /\ consumer' = "dead"
    BY <1>5 DEF Publish
  <2>3. TypeOK'
    BY <1>5, <2>1, <2>2 DEF Publish, TypeOK, SessionTypeOK
  <2>4. QueueInv' /\ RepliedInv' /\ NothingLost'
    BY <1>5, <2>1, <2>2 DEF Publish, QueueInv, RepliedInv, NothingLost
  <2>5. AskedInv'
    <3>1. UNCHANGED <<queue, hand, call>>
      BY <1>5 DEF Publish
    <3> QED BY <2>1, <2>2, <3>1 DEF AskedInv, Asked
  <2> QED BY <2>3, <2>4, <2>5
<1>6. CASE Ack
  <2>1. \/ consumer' = "idle" /\ hand' = NoCall /\ unacked' = NoCall
        \/ consumer' = "dead" /\ hand' = hand /\ unacked' = unacked
    BY <1>6 DEF Ack
  <2>2. NoCall \notin ToSet(queue)
    BY BusAssumption, QueueMembers DEF TypeOK
  <2>3. TypeOK'
    BY <1>6, <2>1 DEF Ack, TypeOK, SessionTypeOK
  <2>4. QueueInv' /\ AskedInv' /\ RepliedInv'
    BY <1>6, <2>1, <2>2 DEF Ack, QueueInv, AskedInv, Asked, RepliedInv
  <2>5. ASSUME NEW c \in Calls, call[c] = "waiting", c = unacked
        PROVE  \E r \in Answers : <<c, r>> \in replies
    BY <1>6, <2>5, BusAssumption DEF Ack, RepliedInv, TypeOK
  <2>6. NothingLost'
    BY <1>6, <2>1, <2>5 DEF Ack, NothingLost
  <2> QED BY <2>3, <2>4, <2>6
<1>7. CASE Notice
  BY <1>7 DEF Notice, TypeOK, SessionTypeOK, QueueInv, AskedInv, Asked, RepliedInv,
     NothingLost
<1> QED BY <1>1, <1>2, <1>3, <1>5, <1>6, <1>7 DEF Serve

\* So do the process and what is around it.
LEMMA ProcessBus ==
    ASSUME BusInv,
           \/ StartAll \/ Shutdown \/ Restart \/ LinkLost
           \/ \E r \in Resources : Lack(r) \/ Regain(r)
           \/ SessionStep /\ UNCHANGED bus
    PROVE  BusInv'
<1> USE DEF BusInv, process, client, worker, Answers, Handling, Busy
<1>1. CASE StartAll
  <2>1. starter = "connecting" /\ starter' = "up" /\ SessionTypeOK'
    BY <1>1 DEF StartAll, Start, TypeOK, SessionTypeOK
  <2>2. consumer = "off" /\ hand = NoCall /\ consumer' \in {"idle", "dead"}
    BY <1>1, <2>1 DEF StartAll, QueueInv, TypeOK
  <2> QED BY <1>1, <2>1, <2>2 DEF StartAll, broker, TypeOK, QueueInv, AskedInv, Asked,
             RepliedInv, NothingLost
<1>2. ASSUME Requeue, UNCHANGED <<client, lacking, ran>>, SessionTypeOK', link' \in BOOLEAN,
             \/ /\ UNCHANGED <<hand, response, starter>>
                /\ consumer' \in {consumer, IF consumer = "idle" THEN "closed" ELSE consumer}
             \/ consumer' = "off" /\ hand' = NoCall /\ response' = "none",
             stuck' \in BOOLEAN
      PROVE  BusInv'
  <2>1. /\ queue' \in Seq(Calls) /\ IsInjective(queue')
        /\ ToSet(queue') = ToSet(queue) \cup ({unacked} \ {NoCall})
        /\ unacked' = NoCall /\ NoCall \notin ToSet(queue') /\ broken' \subseteq Calls
    BY <1>2, Requeued
  <2>2. NoCall \notin Calls
    BY BusAssumption
  <2>3. TypeOK'
    BY <1>2, <2>1 DEF TypeOK
  <2>4. QueueInv' /\ RepliedInv'
    BY <1>2, <2>1 DEF QueueInv, RepliedInv
  <2>5. AskedInv'
    BY <1>2, <2>1 DEF AskedInv, Asked, TypeOK
  <2>6. NothingLost'
    BY <1>2, <2>1, <2>2 DEF NothingLost
  <2> QED BY <2>3, <2>4, <2>5, <2>6
<1>3. CASE Shutdown
  <2>1. SessionTypeOK' /\ starter' = starter
    BY <1>3 DEF Shutdown, Disconnect, TypeOK, SessionTypeOK
  <2>2. stuck' \in BOOLEAN
    BY <1>3 DEF Shutdown, TypeOK
  <2> QED BY <1>2, <1>3, <2>1, <2>2 DEF Shutdown
<1>4. CASE Restart
  <2>1. SessionTypeOK'
    BY <1>4, Spent DEF Restart, Reborn, Unstarted, TypeOK, SessionTypeOK, Events
  <2>2. stuck' \in BOOLEAN
    BY <1>4 DEF Restart
  <2> QED BY <1>2, <1>4, <2>1, <2>2 DEF Restart
<1>5. CASE LinkLost
  <2>1. budget' \in [Events -> Nat]
    BY <1>5, Spent DEF LinkLost, TypeOK, SessionTypeOK, Events
  <2>2. SessionTypeOK' /\ starter' = starter
    BY <1>5, <2>1 DEF LinkLost, TypeOK, SessionTypeOK
  <2>3. stuck' \in BOOLEAN
    BY <1>5 DEF LinkLost, TypeOK
  <2> QED BY <1>2, <1>5, <2>2, <2>3 DEF LinkLost
<1>6. CASE \E r \in Resources : Lack(r) \/ Regain(r)
  <2>1. SessionTypeOK' /\ starter' = starter
    BY <1>6, Spent DEF Lack, Regain, session, TypeOK, SessionTypeOK, Events
  <2>2. lacking' \subseteq Resources
    BY <1>6 DEF Lack, Regain, TypeOK
  <2> QED BY <1>6, <2>1, <2>2 DEF Lack, Regain, broker, TypeOK, QueueInv, AskedInv, Asked,
             RepliedInv, NothingLost
<1>7. CASE SessionStep /\ UNCHANGED bus
  <2>1. SessionTypeOK' /\ starter' = starter
    BY <1>7, SessionSteps DEF TypeOK
  <2> QED BY <1>7, <2>1 DEF bus, TypeOK, QueueInv, AskedInv, Asked, RepliedInv, NothingLost
<1> QED BY <1>1, <1>3, <1>4, <1>5, <1>6, <1>7

LEMMA NextBus == BusInv /\ [Next]_vars => BusInv'
<1> SUFFICES ASSUME BusInv, [Next]_vars PROVE BusInv'
  OBVIOUS
<1>1. CASE UNCHANGED vars
  <2>1. SessionTypeOK' /\ UNCHANGED <<bus, starter>>
    BY <1>1 DEF vars, session, BusInv, TypeOK, SessionTypeOK
  <2>2. TypeOK'
    BY <2>1 DEF bus, BusInv, TypeOK
  <2>3. QueueInv' /\ AskedInv' /\ RepliedInv' /\ NothingLost'
    BY <2>1 DEF bus, BusInv, QueueInv, AskedInv, Asked, RepliedInv, NothingLost, Busy,
       Handling
  <2> QED BY <2>2, <2>3 DEF BusInv
<1>2. CASE Next
  BY <1>2, CallersBus, ServeBus, ProcessBus DEF Next
<1> QED BY <1>1, <1>2

LEMMA BusInvariant == Spec => []BusInv
BY InitBus, NextBus, PTL DEF Spec

\* The types, and the queue without a request twice, whatever is delivered again.
THEOREM TypeCorrect == Spec => []TypeOK
BY BusInvariant, PTL DEF BusInv

\* NothingLost: no step of on_request, no failure of a connection between any two,
\* and no restart loses the request of a caller that waits. That the request is in
\* the queue once, and not while it is delivered (QueueInv), and that a reply is on
\* its way before the request is acknowledged (RepliedInv), is what it rests on.
THEOREM NoRequestLost == Spec => []NothingLost
BY BusInvariant, PTL DEF BusInv

-----------------------------------------------------------------------------
(* TruthInv holds of every state.                                            *)

LEMMA InitTruth == Init => TruthInv
<1> SUFFICES ASSUME Init PROVE TruthInv
  OBVIOUS
<1>1. ToSet(queue) = {} /\ consumer = "off" /\ replies = {}
  BY QueueEmpty DEF Init
<1>2. \A c \in Calls : Untouched(c)
  BY DEF Init, Untouched, Answers
<1> QED BY <1>1, <1>2, BusAssumption DEF Init, TruthInv, Handling

LEMMA CallersTruth ==
    ASSUME BusInv, TruthInv, NEW c \in Calls,
           \/ Call(c) \/ BadRequest(c) \/ Leave(c)
           \/ \E r \in Answers : on_response(c, r)
    PROVE  TruthInv'
<1> USE DEF worker, client, process, BusInv, TypeOK, Handling, Busy, Answers
<1>1. CASE Call(c)
  <2>1. ToSet(queue') = ToSet(queue) \cup {c} /\ hand # c
    BY <1>1, QueueAppend, BusAssumption DEF Call, AskedInv, Asked
  <2>2. Untouched(c) /\ UNCHANGED <<consumer, hand, response, ran, replies, broken>>
    BY <1>1 DEF Call, TruthInv
  <2>3. \A d \in Calls : /\ Untouched(d) => Untouched(d)'
                         /\ call'[d] = "idle" => call[d] = "idle"
    BY <1>1, <2>2 DEF Call, Untouched
  <2>4. ToSet(queue) \subseteq Calls /\ (consumer \in Handling => hand \in Calls)
    BY QueueMembers DEF QueueInv
  <2> QED BY <2>1, <2>2, <2>3, <2>4 DEF TruthInv
<1>2. CASE BadRequest(c)
  <2>1. /\ UNCHANGED <<queue, consumer, hand, response, ran, replies, broken>>
        /\ c \notin ToSet(queue) /\ (consumer \in Handling => c # hand)
    BY <1>2 DEF BadRequest, AskedInv, Asked, QueueInv
  <2>2. \A d \in Calls \ {c} : /\ Untouched(d) => Untouched(d)'
                               /\ call'[d] = "idle" => call[d] = "idle"
    BY <1>2, <2>1 DEF BadRequest, Untouched
  <2>3. call'[c] # "idle"
    BY <1>2 DEF BadRequest
  <2>4. ToSet(queue) \subseteq Calls /\ (consumer \in Handling => hand \in Calls)
    BY QueueMembers DEF QueueInv
  <2> QED BY <2>1, <2>2, <2>3, <2>4 DEF TruthInv
<1>3. CASE Leave(c)
  <2>1. UNCHANGED <<queue, consumer, hand, response, ran, replies, broken>>
    BY <1>3 DEF Leave, broker
  <2>2. \A d \in Calls : /\ Untouched(d) => Untouched(d)'
                         /\ call'[d] = "idle" => call[d] = "idle"
    BY <1>3, <2>1 DEF Leave, Untouched
  <2>3. ToSet(queue) \subseteq Calls /\ (consumer \in Handling => hand \in Calls)
    BY QueueMembers DEF QueueInv
  <2> QED BY <2>1, <2>2, <2>3 DEF TruthInv
<1>4. ASSUME NEW r \in Answers, on_response(c, r)
      PROVE  TruthInv'
  <2>1. /\ UNCHANGED <<queue, consumer, hand, response, ran, broken>>
        /\ <<c, r>> \in replies /\ replies' \subseteq replies
    BY <1>4 DEF on_response, broker
  <2>2. ~Untouched(c)
    BY <2>1 DEF Untouched
  <2>3. \A d \in Calls : /\ Untouched(d) => Untouched(d)'
                         /\ call'[d] = "idle" => call[d] = "idle"
    BY <1>4, <2>1, <2>2 DEF on_response, Untouched
  <2>4. ToSet(queue) \subseteq Calls /\ (consumer \in Handling => hand \in Calls)
    BY QueueMembers DEF QueueInv
  <2> QED BY <2>1, <2>3, <2>4 DEF TruthInv
<1> QED BY <1>1, <1>2, <1>3, <1>4

LEMMA ServeTruth ==
    ASSUME BusInv, TruthInv, Serve
    PROVE  TruthInv'
<1> USE DEF client, broker, BusInv, TypeOK, Handling, Busy, Answers
<1>1. /\ ToSet(queue) \subseteq Calls
      /\ consumer \in Busy => hand \in Calls
  BY QueueMembers DEF QueueInv
<1>2. CASE Deliver
  <2> DEFINE c == Head(queue)
  <2>1. /\ c \in Calls /\ c \notin ToSet(queue')
        /\ ToSet(queue) = ToSet(queue') \cup {c}
    BY <1>2, QueueTake DEF Deliver
  <2>2. /\ hand' = c /\ UNCHANGED <<call, replies, ran, broken>>
        /\ \/ consumer' = "handling"
           \/ consumer' = "replying" /\ response' = "refused"
    BY <1>2 DEF Deliver
  <2> HIDE DEF c
  <2>3. \A d \in Calls : Untouched(d)' <=> Untouched(d)
    BY <2>2 DEF Untouched
  <2>4. Untouched(c) \/ c \in broken
    BY <2>1 DEF TruthInv
  <2> QED BY <1>1, <2>1, <2>2, <2>3, <2>4 DEF TruthInv, Untouched
<1>3. CASE HandleRaises
  BY <1>3 DEF HandleRaises, TruthInv, Untouched
<1>4. CASE Handle \/ Found \/ Send \/ Answered
  <2>0. WorkStep
    BY <1>4, Work
  <2>1. hand \in Calls /\ UNCHANGED <<call, queue, replies, hand, broken>>
    BY <2>0 DEF WorkStep
  <2>2. consumer \in Handling => Untouched(hand) \/ hand \in broken
    BY DEF TruthInv
  <2>3. \A d \in Calls \ {hand} : ran'[d] = ran[d] /\ (Untouched(d)' <=> Untouched(d))
    BY <2>0, <2>1 DEF WorkStep, Untouched
  <2>4. call[hand] # "idle"
    BY <2>1, BusAssumption DEF AskedInv, Asked
  <2>5. /\ \/ ran' = ran /\ consumer' \in {"searching", "sending"} /\ consumer \in Handling
           \/ /\ ran' = ran /\ consumer \in Handling
              /\ consumer' = "replying" /\ response' \in {"refused", "failed"}
           \/ /\ ran'[hand] > 0 /\ consumer' \in {"placing", "replying"}
              /\ consumer' = "replying" => response' \in {"done", "failed"}
              /\ ran' = ran \/ consumer \in Handling
        /\ ran[hand] > 0 => ran'[hand] > 0
        /\ ran'[hand] = 0 => ran[hand] = 0
    BY <2>0, <2>1 DEF WorkStep, TruthInv
  <2>6. \A c \in Calls : call'[c] = "idle" => Untouched(c)'
    BY <2>1, <2>3, <2>4 DEF TruthInv
  <2>7. \A c \in ToSet(queue') : Untouched(c)' \/ c \in broken'
    <3>1. hand \in ToSet(queue) => hand \in broken
      BY DEF TruthInv
    <3> QED BY <1>1, <2>1, <2>3, <3>1 DEF TruthInv
  <2>8. /\ consumer' = "placing" => ran'[hand'] > 0
        /\ consumer' = "replying" =>
              /\ response' = "done" => ran'[hand'] > 0
              /\ response' = "refused" => ran'[hand'] = 0 \/ hand' \in broken'
        /\ consumer' \in Handling => Untouched(hand)' \/ hand \in broken'
    BY <2>1, <2>2, <2>5 DEF Untouched
  <2>9. \A c \in Calls :
          /\ <<c, "done">> \in replies' => ran'[c] > 0
          /\ <<c, "refused">> \in replies' => ran'[c] = 0 \/ c \in broken'
    <3>1. /\ <<hand, "done">> \in replies => ran'[hand] > 0
          /\ <<hand, "refused">> \in replies => ran'[hand] = 0 \/ hand \in broken
      BY <2>1, <2>2, <2>5 DEF TruthInv, Untouched
    <3> QED BY <2>1, <2>3, <3>1 DEF TruthInv
  <2>10. hand' \in ToSet(queue') => hand' \in broken'
    BY <2>1 DEF TruthInv
  <2> QED BY <2>1, <2>6, <2>7, <2>8, <2>9, <2>10 DEF TruthInv
<1>6. CASE Publish
  <2>1. /\ hand \in Calls /\ UNCHANGED <<call, queue, hand, ran, broken>>
        /\ replies' \in {replies, replies \cup {<<hand, response>>}}
        /\ consumer' \in {"acking", "dead"}
    BY <1>1, <1>6 DEF Publish
  <2>2. \A d \in Calls \ {hand} : Untouched(d)' <=> Untouched(d)
    BY <2>1 DEF Untouched
  <2>3. call[hand] # "idle"
    BY <2>1, BusAssumption DEF AskedInv, Asked
  <2>4. \A d \in Calls : /\ <<d, "done">> \in replies' => ran[d] > 0
                         /\ <<d, "refused">> \in replies' => ran[d] = 0 \/ d \in broken
    <3>1. /\ response = "done" => ran[hand] > 0
          /\ response = "refused" => ran[hand] = 0 \/ hand \in broken
      BY <1>6 DEF Publish, TruthInv
    <3>2. \A d \in Calls, r \in Answers :
             <<d, r>> \in replies' => <<d, r>> \in replies \/ (d = hand /\ r = response)
      BY <2>1
    <3> QED BY <3>1, <3>2 DEF TruthInv
  <2>5. \A d \in Calls : call'[d] = "idle" => Untouched(d)'
    BY <2>1, <2>2, <2>3 DEF TruthInv
  <2>6. \A d \in ToSet(queue') : Untouched(d)' \/ d \in broken'
    BY <1>1, <2>1, <2>2 DEF TruthInv
  <2> QED BY <2>1, <2>4, <2>5, <2>6 DEF TruthInv
<1>7. CASE Ack
  BY <1>1, <1>7, BusAssumption DEF Ack, TruthInv, Untouched
<1>8. CASE Notice
  BY <1>8 DEF Notice, TruthInv, Untouched
<1> QED BY <1>2, <1>3, <1>4, <1>6, <1>7, <1>8 DEF Serve

LEMMA ProcessTruth ==
    ASSUME BusInv, TruthInv,
           \/ StartAll \/ Shutdown \/ Restart \/ LinkLost
           \/ \E r \in Resources : Lack(r) \/ Regain(r)
           \/ SessionStep /\ UNCHANGED bus
    PROVE  TruthInv'
<1> USE DEF client, worker, BusInv, TypeOK, Handling, Busy, Answers
<1>1. /\ ToSet(queue) \subseteq Calls
      /\ consumer \in Busy => hand \in Calls
  BY QueueMembers DEF QueueInv
<1>2. CASE StartAll
  BY <1>2 DEF StartAll, broker, TruthInv, Untouched
<1>3. ASSUME Requeue, UNCHANGED <<call, replies, ran>>,
             \/ /\ UNCHANGED <<hand, response>>
                /\ consumer' \in {consumer, "closed"}
             \/ consumer' = "off" /\ hand' = NoCall
      PROVE  TruthInv'
  <2>1. /\ ToSet(queue') = ToSet(queue) \cup ({unacked} \ {NoCall})
        /\ broken' = broken \cup ({unacked} \ {NoCall})
        /\ unacked \in {NoCall, hand}
        /\ NoCall \notin ToSet(queue')
    BY <1>3, Requeued
  <2>2. \A d \in Calls : Untouched(d)' <=> Untouched(d)
    BY <1>3 DEF Untouched
  <2> QED BY <1>1, <1>3, <2>1, <2>2 DEF TruthInv
<1>4. CASE Shutdown \/ Restart \/ LinkLost
  BY <1>3, <1>4 DEF Shutdown, Restart, LinkLost
<1>5. CASE \E r \in Resources : Lack(r) \/ Regain(r)
  BY <1>5 DEF Lack, Regain, broker, TruthInv, Untouched
<1>6. CASE SessionStep /\ UNCHANGED bus
  BY <1>6 DEF bus, TruthInv, Untouched
<1> QED BY <1>2, <1>4, <1>5, <1>6

LEMMA NextTruth == BusInv /\ TruthInv /\ [Next]_vars => TruthInv'
<1> SUFFICES ASSUME BusInv, TruthInv, [Next]_vars PROVE TruthInv'
  OBVIOUS
<1>1. CASE UNCHANGED vars
  BY <1>1 DEF vars, bus, TruthInv, Untouched
<1>2. CASE Next
  BY <1>2, CallersTruth, ServeTruth, ProcessTruth DEF Next
<1> QED BY <1>1, <1>2

LEMMA TruthInvariant == Spec => [](BusInv /\ TruthInv)
BY InitBus, NextBus, InitTruth, NextTruth, PTL DEF Spec

-----------------------------------------------------------------------------
(* RpcBus implements RpcService, and what its callers are told is so.        *)

\* Each step of the desk is one of the service, or none.
LEMMA Steps ==
    ASSUME BusInv, TruthInv, [Next]_vars
    PROVE  [Service!Next]_(Service!vars)
<1> USE DEF client, worker, broker, Handling, Busy
<1>1. ASSUME NEW c \in Calls, Call(c)
      PROVE  Service!Ask(c)
  BY <1>1 DEF Call, Service!Ask
<1>2. ASSUME NEW c \in Calls, BadRequest(c)
      PROVE  Service!TurnDown(c)
  BY <1>2 DEF BadRequest, Service!TurnDown
<1>3. ASSUME NEW c \in Calls, Leave(c)
      PROVE  Service!GiveUp(c)
  BY <1>3 DEF Leave, Service!GiveUp
<1>4. ASSUME NEW c \in Calls, NEW r \in Answers, on_response(c, r)
      PROVE  Service!Answer(c) \/ UNCHANGED <<call, ran, broken>>
  <2>1. /\ r = "done" => ran[c] > 0
        /\ r = "refused" => ran[c] = 0 \/ c \in broken
    BY <1>4 DEF on_response, TruthInv
  <2> QED BY <1>4, <2>1 DEF on_response, Service!Answer, Answers
<1>5. CASE Handle \/ Found \/ Send \/ Answered
  <2>0. WorkStep
    BY <1>5, Work DEF BusInv
  <2>1. hand \in Calls /\ call[hand] # "idle"
    BY <2>0, BusAssumption DEF WorkStep, BusInv, TypeOK, AskedInv, Asked
  <2>2. consumer \in Handling => \/ ran[hand] = 0 /\ call[hand] \in {"waiting", "gone"}
                                 \/ hand \in broken
    BY <2>1 DEF TruthInv, Untouched, BusInv, TypeOK
  <2>3. Service!Run(hand) \/ UNCHANGED <<call, ran, broken>>
    BY <2>0, <2>1, <2>2 DEF WorkStep, Service!Run
  <2> QED BY <2>1, <2>3 DEF Service!Next, Service!vars
<1>6. CASE Deliver \/ HandleRaises \/ Publish \/ Ack \/ Notice
  BY <1>6 DEF Deliver, HandleRaises, Publish, Ack, Notice, Service!vars
<1>7. ASSUME Requeue, UNCHANGED <<call, ran>>
      PROVE  (\E c \in Calls : Service!Break(c)) \/ UNCHANGED <<call, ran, broken>>
  <2>1. CASE unacked = NoCall
    BY <1>7, <2>1 DEF Requeue
  <2>2. CASE unacked # NoCall
    <3>1. unacked \in Calls /\ call[unacked] # "idle"
      BY <2>2 DEF BusInv, TypeOK, AskedInv, Asked
    <3>2. Service!Break(unacked)
      BY <1>7, <2>2, <3>1 DEF Requeue, Service!Break
    <3> QED BY <3>1, <3>2
  <2> QED BY <2>1, <2>2
<1>8. CASE Shutdown \/ Restart \/ LinkLost
  BY <1>7, <1>8 DEF Shutdown, Restart, LinkLost, Service!Next, Service!vars
<1>9. CASE StartAll \/ \E r \in Resources : Lack(r) \/ Regain(r)
  BY <1>9 DEF StartAll, Lack, Regain, Service!vars
<1>10. CASE (SessionStep /\ UNCHANGED bus) \/ UNCHANGED vars
  BY <1>10 DEF bus, vars, Service!vars
<1>11. CASE \E c \in Calls : \/ Call(c) \/ BadRequest(c) \/ Leave(c)
                            \/ \E r \in Answers : on_response(c, r)
  BY <1>1, <1>2, <1>3, <1>4, <1>11 DEF Service!Next, Service!vars
<1> QED BY <1>5, <1>6, <1>8, <1>9, <1>10, <1>11 DEF Next, Serve

\* ImplementsService: with queue, acknowledgement, redelivery, threads and
\* processes left out, the desk does what RpcService says.
THEOREM Implements == Spec => ImplementsService
<1>1. Init => Service!Init
  BY DEF Init, Service!Init
<1>2. BusInv /\ TruthInv /\ [Next]_vars => [Service!Next]_(Service!vars)
  BY Steps
<1> QED BY <1>1, <1>2, TruthInvariant, PTL DEF Spec, ImplementsService, Service!Spec

\* A request that nobody has made was not carried out.
NotBefore == \A c \in Calls : call[c] = "idle" => ran[c] = 0

\* That answers are true follows from RpcService, whatever implements it.
LEMMA AnswersKept ==
    ASSUME /\ ran \in [Calls -> Nat]
           /\ call \in [Calls -> {"idle", "waiting", "gone"} \cup Answers],
           AnswersTrue, NotBefore, [Service!Next]_(Service!vars)
    PROVE  AnswersTrue' /\ NotBefore'
<1> USE DEF AnswersTrue, NotBefore
<1>1. ASSUME NEW c \in Calls, Service!Ask(c) \/ Service!GiveUp(c) \/ Service!Break(c)
      PROVE  AnswersTrue' /\ NotBefore'
  BY <1>1 DEF Service!Ask, Service!GiveUp, Service!Break
<1>2. ASSUME NEW c \in Calls, Service!Run(c)
      PROVE  AnswersTrue' /\ NotBefore'
  BY <1>2 DEF Service!Run
<1>3. ASSUME NEW c \in Calls, Service!Answer(c) \/ Service!TurnDown(c)
      PROVE  AnswersTrue' /\ NotBefore'
  BY <1>3 DEF Service!Answer, Service!TurnDown
<1>4. CASE UNCHANGED Service!vars
  BY <1>4 DEF Service!vars
<1> QED BY <1>1, <1>2, <1>3, <1>4 DEF Service!Next

\* AnswersTrue: what a caller is told is so, and no order goes out twice, unless its
\* delivery was broken off; through every death of consumer, connection and process.
THEOREM AnswersAreTrue == Spec => []AnswersTrue
<1>1. Init => AnswersTrue /\ NotBefore
  BY DEF Init, AnswersTrue, NotBefore
<1>2. ASSUME BusInv, TruthInv, AnswersTrue, NotBefore, [Next]_vars
      PROVE  AnswersTrue' /\ NotBefore'
  BY <1>2, Steps, AnswersKept DEF BusInv, TypeOK
<1> QED BY <1>1, <1>2, TruthInvariant, PTL DEF Spec
=============================================================================
