----------------------------- MODULE IBRequests -----------------------------
(***************************************************************************)
(* Everything asked of TWS other than orders: IB.make_request, the registry  *)
(* of requests (handled_requests, contract_details, ticks), the callbacks    *)
(* that fill it in the reader thread, and the callers that read it:          *)
(*   - the RPC thread: quotes of a spread's legs, option chains, and the     *)
(*     search of OrderManager for the contract ids of a spread order's legs; *)
(*   - init_ib, which subscribes to the account and tries again on failure;  *)
(*   - main_loop, whose requests are not registered;                         *)
(*   - IB.place_order, for the entries it adds to open_orders, which the       *)
(*     answer to a contract request goes through.                            *)
(* A key is what a request asks for: two requests are equal (__eq__) when    *)
(* they have the same key. Keys are external names, ids are the code's.      *)
(* TWS sends its answers in order and the reader handles them in order, and  *)
(* nothing but the reader sees them in between: a callback here is both the  *)
(* sending and the handling of a message.                                    *)
(***************************************************************************)
EXTENDS Naturals, Sequences, FiniteSets

CONSTANTS
    Calls,      \* calls of a handler or of a loop's body
    Threads,
    ThreadOf,   \* which thread makes each call
    KindOf,     \* what the call is, one of CallKind
    Asks,       \* the keys it asks for, in order
    Keys,
    TypeOf,     \* RequestType of each key, one of RequestType
    Answers,    \* what TWS has to say of each key: con ids, or quotes
    StrikeOf,   \* right and strike of each con id, or what is quoted
    Legs,       \* rights and strikes that a "legs" call looks for
    FirstId,    \* first id of each RequestType (nextMarketDataId = 1000, ...)
    MaxId,      \* bound: largest request id
    Budget,     \* bound: how often each environment event may happen
    NoKey, NoCall

CallKind == {"ticks", "chain", "legs", "init", "poll"}
RequestType == {"MARKET_DATA", "CONTRACT_DETAIL", "ACCOUNT_SUMMARY", "PNL",
                "EXECUTION_DETAILS"}
Events == {"drop", "notReady", "failed", "order"}
Ids == 1 .. MaxId

ASSUME RequestsAssumption ==
    /\ ThreadOf \in [Calls -> Threads]
    /\ KindOf \in [Calls -> CallKind]
    /\ Asks \in [Calls -> Seq(Keys)]
    /\ \A c \in Calls : Asks[c] # <<>>
    /\ \A c \in Calls : \A j \in DOMAIN Asks[c] :    \* main_loop's body alone
          TypeOf[Asks[c][j]] = "EXECUTION_DETAILS" =>
              KindOf[c] = "poll" /\ Len(Asks[c]) = 1
    /\ TypeOf \in [Keys -> RequestType]
    /\ NoKey \notin Keys /\ NoCall \notin Calls
    /\ MaxId \in Nat \ {0}
    /\ FirstId \in [RequestType -> Ids]
    /\ Budget \in [Events -> Nat]

\* isSubscription
Registers(k) == TypeOf[k] # "EXECUTION_DETAILS"

\* The threads ask for different things.
ASSUME KeysAssumption ==
    \A c, d \in Calls : ThreadOf[c] # ThreadOf[d] =>
        {Asks[c][j] : j \in DOMAIN Asks[c]}
            \cap {Asks[d][j] : j \in DOMAIN Asks[d]} = {}

\* The id ranges hold: the ids of a type, one for each key and one for each
\* request that is not registered, end before those of the next. (In the code
\* market data has room for 1100 contracts, executions for 6999 polls.)
Takes(t) == IF t = "EXECUTION_DETAILS"
            THEN {c \in Calls : \E j \in DOMAIN Asks[c] : TypeOf[Asks[c][j]] = t}
            ELSE {k \in Keys : TypeOf[k] = t}
ASSUME RangesAssumption ==
    /\ \A t \in RequestType : IsFiniteSet(Takes(t))
    /\ \A t, u \in RequestType : t # u /\ FirstId[t] <= FirstId[u] =>
          FirstId[t] + Cardinality(Takes(t)) <= FirstId[u]

Answer == UNION {Answers[k] : k \in Keys}

VARIABLES
    pc,         \* where each call is
    ids,        \* the request ids it has been given, in the order of Asks
    size,       \* in the loop over handled_requests: its length at the start
    mine,       \* the id it has taken and not yet registered, 0 for none
    result,     \* what it has found: con ids, or quotes
    lock,       \* IB.request_lock: the call inside it, or NoCall
    next,       \* nextMarketDataId, nextContractDetailId, ...
    handled,    \* IB.handled_requests, NoKey where there is no entry
    status,     \* its requests' RequestStatus
    heard,      \* contract_details[id] or ticks[id]
    ready,      \* account_data.account_ready
    connected, reader,
    search,     \* the reader's loop over open_orders in contractDetails
    asked,      \* what TWS has been asked: pairs of an id and a key
    ended,      \* those of them it has given its last answer to
    budget

caller == <<pc, ids, size, mine, result>>
registry == <<next, handled, status, heard>>
session == <<ready, connected, reader, search>>
tws == <<asked, ended>>
vars == <<pc, ids, size, mine, result, lock, next, handled, status, heard,
          ready, connected, reader, search, asked, ended, budget>>

-----------------------------------------------------------------------------
Status == {"PROCESSED", "RESPONDED", "ERROR", "FINISHED"}
Answered == Status \ {"PROCESSED"}
Inside == {"number", "store"}
Active == {"ask", "scan", "lock", "read", "place"} \cup Inside
Done == {"data", "pending", "error", "raised"}

\* Of the loop: not in it, in it, or in it when open_orders got another entry.
Search == {"none", "on", "changed"}

TypeOK ==
    /\ pc \in [Calls -> {"idle"} \cup Active \cup Done]
    /\ ids \in [Calls -> Seq(Ids)]
    /\ size \in [Calls -> Nat]
    /\ mine \in [Calls -> Ids \cup {0}]
    /\ result \in [Calls -> SUBSET Answer]
    /\ lock \in Calls \cup {NoCall}
    /\ next \in [RequestType -> 1 .. MaxId + 1]
    /\ handled \in [Ids -> Keys \cup {NoKey}]
    /\ status \in [Ids -> Status \cup {"INIT"}]
    /\ heard \in [Ids -> SUBSET Answer]
    /\ {ready, connected, reader} \subseteq BOOLEAN
    /\ search \in Search
    /\ asked \subseteq Ids \X Keys
    /\ ended \subseteq Ids \X Keys
    /\ budget \in [Events -> Nat]

Spend(e) == budget[e] > 0 /\ budget' = [budget EXCEPT ![e] = @ - 1]
Goto(c, l) == pc' = [pc EXCEPT ![c] = l]
Registered == {i \in Ids : handled[i] # NoKey}
Strikes(answers) == {StrikeOf[a] : a \in answers}
Key(c) == Asks[c][Len(ids[c]) + 1]

Init ==
    /\ pc = [c \in Calls |-> "idle"]
    /\ ids = [c \in Calls |-> <<>>]
    /\ size = [c \in Calls |-> 0]
    /\ mine = [c \in Calls |-> 0]
    /\ result = [c \in Calls |-> {}]
    /\ lock = NoCall
    /\ next = FirstId
    /\ handled = [i \in Ids |-> NoKey]
    /\ status = [i \in Ids |-> "INIT"]
    /\ heard = [i \in Ids |-> {}]
    /\ ready = TRUE /\ connected = TRUE /\ reader = TRUE /\ search = "none"
    /\ asked = {} /\ ended = {}
    /\ budget = Budget

-----------------------------------------------------------------------------
(* IB.make_request, in the thread of the call.                             *)

Begin(c) ==
    /\ pc[c] = "idle"
    /\ \A d \in Calls : ThreadOf[d] = ThreadOf[c] => pc[d] \notin Active
    /\ Goto(c, "ask")
    /\ UNCHANGED <<ids, size, mine, result, lock, registry, session, tws,
                   budget>>

\* init_ib catches every exception and starts again; nobody else asks again.
Raise(c) ==
    IF KindOf[c] = "init" THEN /\ Goto(c, "idle")
                               /\ ids' = [ids EXCEPT ![c] = <<>>]
    ELSE Goto(c, "raised") /\ UNCHANGED ids

\* The call has an id for Key(c): it goes on to its next key, or reads.
Given(c, i) ==
    /\ ids' = [ids EXCEPT ![c] = Append(@, i)]
    /\ mine' = [mine EXCEPT ![c] = 0]
    /\ Goto(c, IF Len(ids[c]) + 1 = Len(Asks[c]) THEN "read" ELSE "ask")

\* IBDisconnectedException, IBAccountNotReadyException
Ask(c) ==
    /\ pc[c] = "ask"
    /\ IF connected /\ (ready \/ TypeOf[Key(c)] = "ACCOUNT_SUMMARY")
       THEN /\ Goto(c, "scan")
            /\ size' = [size EXCEPT ![c] = Cardinality(Registered)]
            /\ UNCHANGED ids
       ELSE Raise(c) /\ UNCHANGED size
    /\ UNCHANGED <<mine, result, lock, registry, session, tws, budget>>

\* Mutant: identical requests are not looked for.
ScanForgotten(c) ==
    /\ pc[c] = "scan" /\ Goto(c, "lock")
    /\ UNCHANGED <<ids, size, mine, result, lock, registry, session, tws,
                   budget>>

\* The loop over handled_requests ends: with an identical request, with none,
\* or with a RuntimeError when another thread has added an entry meanwhile.
Scan(c) ==
    /\ pc[c] = "scan"
    /\ \/ \E i \in Registered : handled[i] = Key(c) /\ Given(c, i)
       \/ /\ Cardinality(Registered) = size[c]
          /\ \A i \in Registered : handled[i] # Key(c)
          /\ Goto(c, "lock") /\ UNCHANGED <<ids, mine>>
       \/ Cardinality(Registered) # size[c] /\ Raise(c) /\ UNCHANGED mine
    /\ size' = [size EXCEPT ![c] = 0]
    /\ UNCHANGED <<result, lock, registry, session, tws, budget>>

\* with request_lock: reqId = the counter; ibapi sends nothing while
\* disconnected.
Send(c) ==
    /\ pc[c] = "lock" /\ lock = NoCall
    /\ LET i == next[TypeOf[Key(c)]] IN
       /\ i <= MaxId
       /\ mine' = [mine EXCEPT ![c] = i]
       /\ asked' = IF connected THEN asked \cup {<<i, Key(c)>>} ELSE asked
    /\ lock' = c
    /\ Goto(c, "number")
    /\ UNCHANGED <<ids, size, result, registry, session, ended, budget>>

\* Mutant: the counter stays where it is.
NumberForgotten(c) ==
    /\ pc[c] = "number" /\ lock' = NoCall
    /\ IF Registers(Key(c)) THEN Goto(c, "store") /\ UNCHANGED <<ids, mine>>
       ELSE Given(c, mine[c])
    /\ UNCHANGED <<size, result, registry, session, tws, budget>>

\* contract_details[reqId] = [] or ticks[reqId] = Tick(...), the counter, and
\* the end of the lock
Number(c) ==
    /\ pc[c] = "number"
    /\ next' = [next EXCEPT ![TypeOf[Key(c)]] = @ + 1]
    /\ heard' = [heard EXCEPT ![mine[c]] = {}]
    /\ lock' = NoCall
    /\ IF Registers(Key(c)) THEN Goto(c, "store") /\ UNCHANGED <<ids, mine>>
       ELSE Given(c, mine[c])
    /\ UNCHANGED <<size, result, handled, status, session, tws, budget>>

\* Mutant: the entry is made under the counter, which has moved on.
StoreShifted(c) ==
    /\ pc[c] = "store" /\ mine[c] < MaxId
    /\ handled' = [handled EXCEPT ![mine[c] + 1] = Key(c)]
    /\ status' = [status EXCEPT ![mine[c] + 1] = "PROCESSED"]
    /\ Given(c, mine[c])
    /\ UNCHANGED <<size, result, lock, next, heard, session, tws, budget>>

\* status PROCESSED and handled_requests[reqId], outside the lock
Store(c) ==
    /\ pc[c] = "store"
    /\ handled' = [handled EXCEPT ![mine[c]] = Key(c)]
    /\ status' = [status EXCEPT ![mine[c]] = "PROCESSED"]
    /\ Given(c, mine[c])
    /\ UNCHANGED <<size, result, lock, next, heard, session, tws, budget>>

-----------------------------------------------------------------------------
(* What the callers do with the ids.                                       *)

Id(c) == ids[c][1]
Reads(c, kinds) == pc[c] = "read" /\ KindOf[c] \in kinds
Unread == <<ids, size, mine, lock, registry, session, tws, budget>>

\* get_ticks_json and handle_ticks_request: the first leg that has no data decides.
ReadTicks(c) ==
    /\ Reads(c, {"ticks"})
    /\ LET said == [j \in DOMAIN ids[c] |-> status[ids[c][j]]]
           Bad == {j \in DOMAIN said : said[j] \in {"PROCESSED", "ERROR"}} IN
       \/ /\ Bad = {} /\ Goto(c, "data")
          /\ result' = [result EXCEPT ![c] =
                            UNION {heard[ids[c][j]] : j \in DOMAIN ids[c]}]
       \/ \E j \in Bad :
             /\ \A h \in Bad : j <= h
             /\ Goto(c, IF said[j] = "ERROR" THEN "error" ELSE "pending")
             /\ UNCHANGED result
    /\ UNCHANGED Unread

\* handle_option_chain_request: waits for an answer, then lists what there is.
ReadChain(c) ==
    /\ Reads(c, {"chain"})
    /\ \/ status[Id(c)] = "ERROR" /\ Goto(c, "error") /\ UNCHANGED result
       \/ /\ status[Id(c)] \in {"RESPONDED", "FINISHED"}
          /\ Goto(c, "data")
          /\ result' = [result EXCEPT ![c] = heard[Id(c)]]
    /\ UNCHANGED Unread

\* _get_con_id: what there is of the legs in contract_details
Matching(c) == {a \in heard[Id(c)] : StrikeOf[a] \in Legs[c]}

\* Mutant: one look is enough.
ReadLegsOnce(c) ==
    /\ Reads(c, {"legs"})
    /\ status[Id(c)] \in Answered
    /\ result' = [result EXCEPT ![c] = Matching(c)]
    /\ Goto(c, "place")
    /\ UNCHANGED Unread

\* The loop of _generate_ib_spread_contract: con_id_dict after a turn that
\* finds something new or ends. Only a complete set of legs ends the loop.
ReadLegs(c) ==
    /\ Reads(c, {"legs"})
    /\ status[Id(c)] \in Answered
    /\ result' = [result EXCEPT ![c] = Matching(c)]
    /\ \/ Strikes(Matching(c)) = Legs[c] /\ Goto(c, "place")
       \/ /\ Strikes(Matching(c)) # Legs[c]
          /\ Matching(c) # result[c]
          /\ UNCHANGED pc
    /\ UNCHANGED Unread

\* IB.place_order for the spread order; OrderFlow has its steps. The entry it
\* adds to open_orders may come while the reader goes through them.
Place(c) ==
    /\ pc[c] = "place"
    /\ \/ ~connected /\ Goto(c, "raised") /\ UNCHANGED search
       \/ /\ connected /\ Goto(c, "data")
          /\ search' = IF search = "on" THEN "changed" ELSE search
    /\ UNCHANGED <<ids, size, mine, result, lock, registry, ready, connected,
                   reader, tws, budget>>

\* An order of another thread, or of this one later, does the same.
PlaceOther ==
    /\ search = "on" /\ Spend("order")
    /\ search' = "changed"
    /\ UNCHANGED <<caller, lock, registry, ready, connected, reader, tws>>

\* init_ib leaves its loop; main_loop goes on.
ReadNothing(c) ==
    /\ Reads(c, {"init", "poll"})
    /\ Goto(c, "data")
    /\ UNCHANGED <<result, Unread>>

-----------------------------------------------------------------------------
(* The callbacks of class IB, in the reader thread, and TWS behind them.    *)

Caller == <<caller, lock, next>>

\* TWS answers a request it has been asked and has not ended, be it before
\* make_request has registered it. The reader handles one message at a time.
Hears == reader /\ search = "none"
Due(i, k) == Hears /\ <<i, k>> \in asked \ ended

\* An exception leaves EClient.run, whose finally clause disconnects.
Die == reader' = FALSE /\ connected' = FALSE

\* handled_requests.get(reqId).set_status(...): an AttributeError when there is
\* no such request
SetStatus(i, s) ==
    /\ \/ /\ handled[i] # NoKey
          /\ status' = [status EXCEPT ![i] = s]
          /\ UNCHANGED <<connected, reader>>
       \/ handled[i] = NoKey /\ Die /\ UNCHANGED status
    /\ UNCHANGED ready

\* Mutant: the request id is kept in place of the answer.
HearId(i, a) == heard' = [heard EXCEPT ![i] = @ \cup {i}]

Hear(i, a) == heard' = IF handled[i] # NoKey
                       THEN [heard EXCEPT ![i] = @ \cup {a}] ELSE heard

\* The status, the answer, and then the loop over open_orders for its con id.
contractDetails(i, k) ==
    /\ Due(i, k) /\ TypeOf[k] = "CONTRACT_DETAIL"
    /\ \E a \in Answers[k] \ heard[i] :
          Hear(i, a) /\ SetStatus(i, "RESPONDED")
    /\ search' = IF handled[i] # NoKey THEN "on" ELSE search
    /\ UNCHANGED <<Caller, handled, tws, budget>>

\* The end of that loop: a RuntimeError if it met a new entry.
Searched ==
    /\ reader /\ search # "none"
    /\ search' = "none"
    /\ \/ search = "on" /\ UNCHANGED <<connected, reader>>
       \/ search = "changed" /\ Die
    /\ UNCHANGED <<Caller, handled, status, heard, ready, tws, budget>>

contractDetailsEnd(i, k) ==
    /\ Due(i, k) /\ TypeOf[k] = "CONTRACT_DETAIL"
    /\ Answers[k] \subseteq heard[i]
    /\ SetStatus(i, "FINISHED")
    /\ ended' = ended \cup {<<i, k>>}
    /\ UNCHANGED <<Caller, handled, heard, search, asked, budget>>

\* marketDataType comes without a quote, tickPrice with one; quotes go on.
marketDataType(i, k) ==
    /\ Due(i, k) /\ TypeOf[k] = "MARKET_DATA"
    /\ status[i] # "RESPONDED"
    /\ SetStatus(i, "RESPONDED")
    /\ UNCHANGED <<Caller, handled, heard, search, tws, budget>>

tickPrice(i, k) ==
    /\ Due(i, k) /\ TypeOf[k] = "MARKET_DATA"
    /\ \E a \in Answers[k] : Hear(i, a) /\ SetStatus(i, "RESPONDED")
    /\ UNCHANGED <<Caller, handled, search, tws, budget>>

accountSummaryEnd(i, k) ==
    /\ Due(i, k) /\ TypeOf[k] = "ACCOUNT_SUMMARY"
    /\ SetStatus(i, "FINISHED")
    /\ ended' = ended \cup {<<i, k>>}
    /\ UNCHANGED <<Caller, handled, heard, search, asked, budget>>

\* error and _handle_error for an id of a request, other than the codes of
\* EXEMPTED_ERROR_CODE, which change nothing. It ends a contract-detail request.
error(i, k) ==
    /\ Due(i, k) /\ (TypeOf[k] = "CONTRACT_DETAIL" => heard[i] = {})
    /\ Spend("failed")
    /\ status' = IF handled[i] # NoKey THEN [status EXCEPT ![i] = "ERROR"]
                 ELSE status
    /\ ended' = IF TypeOf[k] = "CONTRACT_DETAIL" THEN ended \cup {<<i, k>>}
                ELSE ended
    /\ UNCHANGED <<Caller, handled, heard, session, asked>>

\* updateAccountValue with the tag AccountReady
updateAccountValue ==
    /\ Hears
    /\ \/ ~ready /\ ready' = TRUE /\ UNCHANGED budget
       \/ ready /\ Spend("notReady") /\ ready' = FALSE
    /\ UNCHANGED <<Caller, handled, status, heard, connected, reader, search, tws>>

\* What TWS sent before the connection was lost is still handled, then EClient.run
\* ends. main_loop connects again seconds later, nothing starts IB.run again, and
\* TWS knows nothing of what the last session asked.
Drop ==
    /\ connected /\ Spend("drop")
    /\ connected' = FALSE
    /\ UNCHANGED <<Caller, handled, status, heard, ready, reader, search, tws>>

ReaderExit ==
    /\ Hears /\ ~connected
    /\ reader' = FALSE
    /\ UNCHANGED <<Caller, handled, status, heard, ready, connected, search, tws,
                   budget>>

Reconnect ==
    /\ ~connected /\ ~reader
    /\ connected' = TRUE
    /\ asked' = {}
    /\ UNCHANGED <<Caller, handled, status, heard, ready, reader, search, ended,
                   budget>>

-----------------------------------------------------------------------------
Step(c) == \/ Ask(c) \/ Scan(c) \/ Send(c) \/ Number(c) \/ Store(c)
           \/ ReadTicks(c) \/ ReadChain(c) \/ ReadLegs(c) \/ Place(c)
           \/ ReadNothing(c)
Reply(i, k) == \/ contractDetails(i, k) \/ contractDetailsEnd(i, k)
               \/ marketDataType(i, k) \/ tickPrice(i, k)
               \/ accountSummaryEnd(i, k)

Next == \/ \E c \in Calls : Begin(c) \/ Step(c)
        \/ \E i \in Ids, k \in Keys : Reply(i, k) \/ error(i, k)
        \/ Searched \/ PlaceOther
        \/ updateAccountValue \/ Drop \/ ReaderExit \/ Reconnect

Spec == Init /\ [][Next]_vars

-----------------------------------------------------------------------------
(* Properties.                                                             *)

\* An id that make_request has returned goes on standing for what was asked,
\* whatever else is asked, fails or is lost: no two requests share one.
IdsStand ==
    \A c \in Calls : \A j \in DOMAIN ids[c] :
        Registers(Asks[c][j]) => handled[ids[c][j]] = Asks[c][j]

\* TWS is never asked twice for the same data in one session, though init_ib
\* starts again from its first request and calls ask for what others asked.
OneSubscription ==
    \A p, q \in asked : p[2] = q[2] /\ Registers(p[2]) => p = q

\* A spread order is sent with a contract for each of its legs, all of the expiry
\* that was asked for: neither a search that begins while the chain is still
\* arriving nor another chain with the same strikes changes that.
LegsFound ==
    \A c \in Calls : KindOf[c] = "legs" /\ pc[c] \in {"place", "data"} =>
        /\ result[c] \subseteq Answers[Asks[c][1]]
        /\ Strikes(result[c]) = Legs[c]

\* An id that a call of make_request has sent and not registered yet.
Unregistered(i) == \E c \in Calls : mine[c] = i /\ pc[c] \in Inside

\* Apart from a lost session two things only end the reader thread: an answer
\* that overtakes the registration of its own request, and an order that enters
\* open_orders while contractDetails goes through it. Every other answer, to a
\* call that gave up, of another session, or after a failure, finds its request.
ReaderSurvives ==
    [][reader /\ ~reader' =>
          \/ ~connected
          \/ search = "changed"
          \/ \E p \in asked \ ended : Unregistered(p[1])]_vars

\* The option chain a caller gets is the whole chain TWS has for it.
ChainWhole ==
    \A c \in Calls : KindOf[c] = "chain" /\ pc[c] = "data" =>
        result[c] = Answers[Asks[c][1]]
=============================================================================
