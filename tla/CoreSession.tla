----------------------------- MODULE CoreSession -----------------------------
(***************************************************************************)
(* The life of the core process: Core.connect waits for TWS, Core.start      *)
(* starts the threads, main_loop brings a lost session back, and a signal    *)
(* runs Core.shutdown in the main thread, between any two of its steps.      *)
(* RpcBus adds the thread of the RPC server.                                 *)
(***************************************************************************)
EXTENDS Integers, Sequences, FiniteSetsExt

CONSTANTS
    Budget,    \* bound: how often each environment event may happen
    MaxEvents  \* bound: how many of them in all

Events == {"drop", "refuse", "signal", "order", "crash", "link", "lack", "leave",
           "body", "stuck"}
ASSUME SessionAssumption == Budget \in [Events -> Nat] /\ MaxEvents \in Nat

VARIABLES
    starter,    \* the main thread: in connect_ib, or through start()
    dialling,   \* who is inside IB.connect
    connected,  \* IB.isConnected()
    flags,      \* the shut_down_flags that are set
    handler,    \* graceful_shutdown: not run, flags set, done
    thread,     \* the threads that start() starts, the RPC server's aside
    budget

process == <<starter, dialling, connected, flags, handler, thread>>
session == <<starter, dialling, connected, flags, handler, thread, budget>>

Threads == {"reader", "main", "init", "hedge", "screener"}
Flags == {"core", "hedge", "screener"}

SessionTypeOK ==
    /\ starter \in {"connecting", "up"}
    /\ dialling \subseteq {"starter", "main"}
    /\ connected \in BOOLEAN
    /\ flags \subseteq Flags
    /\ handler \in {"none", "flagged", "done"}
    /\ thread \in [Threads -> {"off", "running", "placing", "ended"}]
    /\ budget \in [Events -> Nat]

Happened == MapThenSumSet(LAMBDA f : Budget[f] - budget[f], Events)
Spend(e) ==
    /\ budget[e] > 0 /\ Happened < MaxEvents
    /\ budget' = [budget EXCEPT ![e] = @ - 1]

\* A process that has just been started: __init__ and db.connect are done.
Unstarted == [t \in Threads |-> "off"]
SessionInit ==
    /\ starter = "connecting" /\ dialling = {}
    /\ connected = FALSE
    /\ flags = {} /\ handler = "none"
    /\ thread = Unstarted
    /\ budget = Budget

-----------------------------------------------------------------------------
\* The signal handler runs in the main thread, which does nothing else then.
Free == handler # "flagged"

\* connect_ib: the test and the wait, then IB.connect.
Dials(t) ==
    \/ t = "starter" /\ starter = "connecting" /\ Free
    \/ t = "main" /\ thread["main"] = "running"
Dial(t) ==
    /\ Dials(t) /\ t \notin dialling
    /\ ~connected /\ "core" \notin flags
    /\ dialling' = dialling \cup {t}
    /\ UNCHANGED <<starter, connected, flags, handler, thread, budget>>

Dialled(t) ==
    /\ Dials(t) /\ t \in dialling
    /\ dialling' = dialling \ {t}
    /\ \/ connected' = TRUE /\ UNCHANGED budget
       \/ connected' = connected /\ Spend("refuse")
    /\ UNCHANGED <<starter, flags, handler, thread>>

\* start() runs whether the loop has ended with a session or with a signal.
Start ==
    /\ starter = "connecting" /\ Free /\ "starter" \notin dialling
    /\ connected \/ "core" \in flags
    /\ starter' = "up"
    /\ thread' = [t \in Threads |-> "running"]
    /\ UNCHANGED <<dialling, connected, flags, handler, budget>>

Ends(t) ==
    /\ thread[t] = "running"
    /\ thread' = [thread EXCEPT ![t] = "ended"]
    /\ UNCHANGED <<starter, dialling, connected, flags, handler, budget>>

\* EClient.run ends with the session; nothing starts another.
ReaderExit == ~connected /\ Ends("reader")

\* init_ib looks at no flag: it goes on until it has found a session.
InitIb == connected /\ Ends("init")

MainLoopEnds == "core" \in flags /\ "main" \notin dialling /\ Ends("main")
HedgeEnds == "hedge" \in flags /\ Ends("hedge")
ScreenerEnds == "screener" \in flags /\ Ends("screener")

\* Somebody hears what place_order and the search for contracts wait for.
Heard == connected /\ thread["reader"] = "running"

HedgePlaces ==
    /\ thread["hedge"] = "running" /\ connected
    /\ Spend("order")
    /\ thread' = [thread EXCEPT !["hedge"] = "placing"]
    /\ UNCHANGED <<starter, dialling, connected, flags, handler>>

\* The wait for a status and a permId is over: what the reader hears ends it, or
\* has ended it before the reader went. It may have no end, as when only an error
\* rejected the order.
HedgePlaced ==
    /\ thread["hedge"] = "placing"
    /\ thread' = [thread EXCEPT !["hedge"] = "running"]
    /\ UNCHANGED <<starter, dialling, connected, flags, handler, budget>>

Drop ==
    /\ connected /\ Spend("drop")
    /\ connected' = FALSE
    /\ UNCHANGED <<starter, dialling, flags, handler, thread>>

\* For a mutant: the engines' own flags forgotten.
SignalCoreOnly ==
    /\ handler = "none" /\ Spend("signal")
    /\ flags' = {"core"}
    /\ handler' = "flagged"
    /\ UNCHANGED <<starter, dialling, connected, thread>>

\* shutdown(): the flags first,
Signal ==
    /\ handler = "none" /\ Spend("signal")
    /\ flags' = Flags
    /\ handler' = "flagged"
    /\ UNCHANGED <<starter, dialling, connected, thread>>

\* then the sessions. RpcBus closes its own with it.
Disconnect ==
    /\ handler = "flagged"
    /\ connected' = FALSE
    /\ handler' = "done"
    /\ UNCHANGED <<starter, dialling, flags, thread, budget>>

\* The process ends, or is ended, and is started again.
Reborn ==
    /\ Spend("crash")
    /\ starter' = "connecting" /\ dialling' = {}
    /\ connected' = FALSE
    /\ flags' = {} /\ handler' = "none"
    /\ thread' = Unstarted

SessionStep ==
    \/ \E t \in {"starter", "main"} : Dial(t) \/ Dialled(t)
    \/ ReaderExit \/ InitIb
    \/ MainLoopEnds \/ HedgeEnds \/ ScreenerEnds
    \/ HedgePlaces \/ HedgePlaced
    \/ Drop \/ Signal
=============================================================================
