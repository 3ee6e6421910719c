---------------------------- MODULE DataCollector ----------------------------
(***************************************************************************)
(* The data collector (datacollector.py): jobs of an APScheduler scheduler   *)
(* that run in threads of its pool. One turns a queue of symbol-expiry pairs *)
(* over while the market is open and empties it afterwards, one walks the    *)
(* symbols, one walks the dates of the earnings calendar; every morning       *)
(* reset() throws all of it away and builds it again.                        *)
(***************************************************************************)
EXTENDS MarketClock, Sequences, SequencesExt, FiniteSets

CONSTANTS
    Symbols,
    Expiries,    \* how many expiries within option_expiry_depth each symbol has
    BATCH_SIZE,
    Back,        \* the earnings window starts this many days ago (5)
    ResetBack,   \* and this many after a reset (10)
    Ahead,       \* lookahead_earning_date, in days from today (60)
    MaxMissed    \* bound: cron runs that are missed

ASSUME CollectorAssumption ==
    /\ IsFiniteSet(Symbols) /\ Symbols # {}
    /\ Expiries \in [Symbols -> Nat]
    /\ BATCH_SIZE \in Nat \ {0}
    /\ Back \in Nat /\ ResetBack \in Nat /\ Ahead \in Nat
    /\ MaxMissed \in Nat

VARIABLES
    jobs,       \* in the scheduler, the resetter aside
    cron,       \* what the cron job that has fired is doing
    todo,       \* expiries that the threads of _put_job_queue have to put
    queue,      \* option_queue
    order,      \* in which it was filled
    batch,      \* job_batch of the running update_option
    run,        \* how far that is
    closing,    \* jobs fetched since the market closed
    symbols_curr,
    curr_earning_date,
    lookahead_earning_date,
    asking,     \* update_earnings waits for nasdaq.get_earnings
    missed,     \* today's cron runs that did not happen
    misses

options == <<todo, queue, order, batch, run, closing>>
walks == <<symbols_curr, curr_earning_date, lookahead_earning_date, asking>>
faults == <<missed, misses>>
vars == <<clock, jobs, cron, options, walks, faults>>

JobNames == {"market_open", "ohlc", "option", "info", "earnings"}
Dates == (-Back - ResetBack)..(LastDay + Ahead + 1)

TypeOK ==
    /\ ClockTypeOK
    /\ jobs \subseteq JobNames
    /\ cron \in {"idle", "reset", "filling", "opening"}
    /\ todo \in [Symbols -> Nat]
    /\ IsInjective(order) /\ ToSet(queue) \subseteq ToSet(order)
    /\ \A i \in DOMAIN order : order[i][1] \in Symbols /\ order[i][2] \in 1..Expiries[order[i][1]]
    /\ Len(batch) <= BATCH_SIZE
    /\ run \in {"idle", "taking", "fetching"}
    /\ closing \subseteq ToSet(order)
    /\ symbols_curr \in 0..Cardinality(Symbols) - 1
    /\ curr_earning_date \in Dates /\ lookahead_earning_date \in Dates
    /\ asking \in BOOLEAN
    /\ missed \subseteq {"reset", "opening"} /\ misses \in 0..MaxMissed

\* connect_and_init has come to init_option_job_queue, at any time of a day.
Init ==
    /\ day = 0 /\ phase \in Phases
    /\ jobs = {} /\ cron = "filling"
    /\ todo = Expiries /\ queue = <<>> /\ order = <<>>
    /\ batch = <<>> /\ run = "idle" /\ closing = {}
    /\ symbols_curr = 0
    /\ curr_earning_date = -Back /\ lookahead_earning_date = Ahead
    /\ asking = FALSE
    /\ missed = {} /\ misses = 0

-----------------------------------------------------------------------------
(* Starting and resetting.                                                   *)

\* One thread per symbol. One whose list of expiries fails puts nothing.
_put_job_queue(s) ==
    /\ cron = "filling" /\ todo[s] > 0
    /\ \/ /\ todo' = [todo EXCEPT ![s] = @ - 1]
          /\ queue' = Append(queue, <<s, Expiries[s] - todo'[s]>>)
          /\ order' = Append(order, <<s, Expiries[s] - todo'[s]>>)
       \/ /\ todo[s] = Expiries[s]
          /\ todo' = [todo EXCEPT ![s] = 0]
          /\ UNCHANGED <<queue, order>>
    /\ UNCHANGED <<clock, jobs, cron, batch, run, closing, walks, faults>>

\* For a mutant: the option job left to the market-open job alone.
InitNoUpdater ==
    /\ cron = "filling" /\ \A s \in Symbols : todo[s] = 0
    /\ cron' = "idle"
    /\ jobs' = {"market_open", "ohlc"} \cup
               (IF Uncovered THEN {} ELSE {"info", "earnings"})
    /\ UNCHANGED <<clock, options, walks, faults>>

\* The jobs that are added before check_open raises are all there are then.
init_jobs ==
    /\ cron = "filling" /\ \A s \in Symbols : todo[s] = 0
    /\ cron' = "idle"
    /\ jobs' = {"market_open", "ohlc"} \cup
               (IF Uncovered THEN {} ELSE {"info", "earnings"}) \cup
               (IF ~Uncovered /\ Open THEN {"option"} ELSE {})
    /\ UNCHANGED <<clock, options, walks, faults>>

\* reset() up to the threads of init_option_job_queue. symbols_curr, which
\* update_general_info reads, is left where it is.
reset ==
    /\ cron = "reset"
    /\ jobs' = {} /\ cron' = "filling"
    /\ queue' = <<>> /\ order' = <<>> /\ todo' = Expiries
    /\ closing' = {}
    /\ curr_earning_date' = day - ResetBack
    /\ lookahead_earning_date' = day + Ahead
    /\ UNCHANGED <<clock, batch, run, symbols_curr, asking, faults>>

handle_market_open ==
    /\ cron = "opening" /\ cron' = "idle"
    /\ jobs' = jobs \cup (IF ~Uncovered /\ Open THEN {"option"} ELSE {})
    /\ UNCHANGED <<clock, options, walks, faults>>

-----------------------------------------------------------------------------
(* update_option. A job runs once at a time (max_instances is 1).            *)

UpdateOption ==
    /\ "option" \in jobs /\ run = "idle" /\ queue # <<>>
    /\ run' = "taking"
    /\ UNCHANGED <<clock, jobs, cron, todo, queue, order, batch, closing, walks, faults>>

\* For mutants: the loop left before the job is put back; put back always;
\* forgotten when not put back.
TakeBreakFirst ==
    /\ run = "taking"
    /\ queue' = (IF Open /\ Len(batch) + 1 < BATCH_SIZE
                 THEN Append(Tail(queue), Head(queue)) ELSE Tail(queue))
    /\ batch' = Append(batch, Head(queue))
    /\ run' = IF Len(batch') = BATCH_SIZE \/ queue' = <<>> THEN "fetching" ELSE "taking"
    /\ UNCHANGED <<clock, jobs, cron, todo, order, closing, walks, faults>>
TakeAndPut ==
    /\ run = "taking"
    /\ queue' = Append(Tail(queue), Head(queue))
    /\ batch' = Append(batch, Head(queue))
    /\ run' = IF Len(batch') = BATCH_SIZE THEN "fetching" ELSE "taking"
    /\ UNCHANGED <<clock, jobs, cron, todo, order, closing, walks, faults>>
TakeOrDrop ==
    /\ run = "taking"
    /\ queue' = (IF Open THEN Append(Tail(queue), Head(queue)) ELSE Tail(queue))
    /\ batch' = (IF Open THEN Append(batch, Head(queue)) ELSE batch)
    /\ run' = IF Len(batch') = BATCH_SIZE \/ queue' = <<>> THEN "fetching" ELSE "taking"
    /\ UNCHANGED <<clock, jobs, cron, todo, order, closing, walks, faults>>

\* One turn of the loop. Where check_open raises, the job that was taken is lost
\* and the batch with it.
Take ==
    /\ run = "taking"
    /\ IF Uncovered
       THEN queue' = Tail(queue) /\ batch' = <<>> /\ run' = "idle"
       ELSE /\ queue' = (IF Open THEN Append(Tail(queue), Head(queue)) ELSE Tail(queue))
            /\ batch' = Append(batch, Head(queue))
            /\ run' = IF Len(batch') = BATCH_SIZE \/ queue' = <<>>
                      THEN "fetching" ELSE "taking"
    /\ UNCHANGED <<clock, jobs, cron, todo, order, closing, walks, faults>>

\* Asked for and, unless that fails, inserted; a failure is logged.
Fetch ==
    /\ run = "fetching"
    /\ run' = "idle" /\ batch' = <<>>
    /\ closing' = IF Closed THEN closing \cup ToSet(batch) ELSE closing
    /\ UNCHANGED <<clock, jobs, cron, todo, queue, order, walks, faults>>

-----------------------------------------------------------------------------
(* The other jobs.                                                           *)

\* For a mutant: the next symbol without the remainder.
InfoPastEnd ==
    /\ "info" \in jobs
    /\ symbols_curr' = symbols_curr + 1
    /\ UNCHANGED <<clock, jobs, cron, options, curr_earning_date,
                   lookahead_earning_date, asking, faults>>

\* The finally clause moves on, whether the symbol's data came or not.
update_general_info ==
    /\ "info" \in jobs
    /\ symbols_curr' = (symbols_curr + 1) % Cardinality(Symbols)
    /\ UNCHANGED <<clock, jobs, cron, options, curr_earning_date,
                   lookahead_earning_date, asking, faults>>

update_earnings ==
    /\ "earnings" \in jobs /\ ~asking
    /\ asking' = TRUE
    /\ UNCHANGED <<clock, jobs, cron, options, symbols_curr, curr_earning_date,
                   lookahead_earning_date, faults>>

\* For a mutant: the last date taken for one past the window.
NextDateShort ==
    /\ asking /\ asking' = FALSE
    /\ curr_earning_date' =
          IF curr_earning_date + 1 >= lookahead_earning_date THEN day - Back
          ELSE curr_earning_date + 1
    /\ UNCHANGED <<clock, jobs, cron, options, symbols_curr,
                   lookahead_earning_date, faults>>

\* The finally clause; a reset may have come since the date was read.
NextDate ==
    /\ asking /\ asking' = FALSE
    /\ curr_earning_date' =
          IF curr_earning_date + 1 > lookahead_earning_date THEN day - Back
          ELSE curr_earning_date + 1
    /\ UNCHANGED <<clock, jobs, cron, options, symbols_curr,
                   lookahead_earning_date, faults>>

-----------------------------------------------------------------------------
(* Time. Cron jobs are done, and a closed queue is empty, before the next     *)
(* moment of the day comes. A run that starts more than a second late is      *)
(* missed (misfire_grace_time), and not made up for.                          *)

Fires(name) ==
    \/ cron' = name /\ UNCHANGED misses /\ missed' = missed
    \/ /\ misses < MaxMissed /\ misses' = misses + 1
       /\ missed' = missed \cup {name} /\ UNCHANGED cron

Six ==
    /\ cron = "idle" /\ run = "idle" /\ NextMorning
    /\ "option" \in jobs => queue = <<>>
    /\ \/ cron' = "reset" /\ missed' = {} /\ UNCHANGED misses
       \/ /\ misses < MaxMissed /\ misses' = misses + 1
          /\ missed' = {"reset"} /\ UNCHANGED cron
    /\ UNCHANGED <<jobs, options, walks>>

MarketOpens ==
    /\ cron = "idle" /\ Advance("early", "opening")
    /\ UNCHANGED <<jobs, cron, options, walks, faults>>

HalfPastNine ==
    /\ cron = "idle" /\ Advance("opening", "session") /\ "market_open" \in jobs
    /\ Fires("opening")
    /\ UNCHANGED <<jobs, options, walks>>

MarketCloses ==
    /\ cron = "idle" /\ Advance("session", "closed")
    /\ UNCHANGED <<jobs, cron, options, walks, faults>>

-----------------------------------------------------------------------------
Next ==
    \/ \E s \in Symbols : _put_job_queue(s)
    \/ init_jobs \/ reset \/ handle_market_open
    \/ UpdateOption \/ Take \/ Fetch
    \/ update_general_info \/ update_earnings \/ NextDate
    \/ Six \/ MarketOpens \/ HalfPastNine \/ MarketCloses

Spec == Init /\ [][Next]_vars

\* The scheduler runs its jobs and what they call returns. Time owes nothing.
Fairness ==
    /\ \A s \in Symbols : WF_vars(_put_job_queue(s))
    /\ WF_vars(init_jobs) /\ WF_vars(reset) /\ WF_vars(handle_market_open)
    /\ WF_vars(UpdateOption) /\ WF_vars(Take) /\ WF_vars(Fetch)
    /\ WF_vars(update_general_info)
    /\ WF_vars(update_earnings) /\ WF_vars(NextDate)

FairSpec == Spec /\ Fairness

-----------------------------------------------------------------------------
(* Properties.                                                               *)

\* Through holidays, failed symbols and yesterday's missed jobs: once 9:31 has
\* passed on a trading day the option updater runs, whatever was there before;
\* as long as the schedule of the first day covers it.
Collects ==
    /\ Open /\ phase = "session" /\ cron = "idle" /\ missed = {} /\ ~Uncovered
    => "option" \in jobs

\* While the market is open the queue is today's list turned round: update_option
\* loses no pair, doubles none and keeps them in turn, however its batches fall.
InTurn ==
    /\ Open /\ cron = "idle" /\ "reset" \notin missed /\ ~Uncovered
    => \E i \in 0..Len(order) : queue = SubSeq(order, i + 1, Len(order)) \o SubSeq(order, 1, i)

\* When the queue has run empty after the close, every pair of the day has been
\* asked for once more: the snapshots that a screener started at night reads.
ClosingSnapshot ==
    /\ Closed /\ "option" \in jobs /\ ~Uncovered
    /\ queue = <<>> /\ run = "idle"
    => closing = ToSet(order)

\* After the close the queue runs empty: update_option stops asking Yahoo.
Drains == (Closed /\ "option" \in jobs) ~> (queue = <<>> \/ ~Closed)

\* Every pair in the queue, every symbol and every date from today to the end of
\* the window gets its turn, whichever of them fail, and though a reset moves the
\* window under a run.
EveryoneSeen ==
    /\ \A s \in Symbols : \A e \in 1..Expiries[s] :
          (<<s, e>> \in ToSet(queue) /\ "option" \in jobs)
          ~> \/ queue # <<>> /\ Head(queue) = <<s, e>>
             \/ <<s, e>> \notin ToSet(queue) \/ "option" \notin jobs
    /\ \A i \in 0..Cardinality(Symbols) - 1 :
          "info" \in jobs ~> symbols_curr = i \/ "info" \notin jobs
    /\ \A d \in Dates :
          ("earnings" \in jobs /\ d \in day..lookahead_earning_date)
          ~> \/ curr_earning_date = d \/ "earnings" \notin jobs
             \/ d \notin day..lookahead_earning_date
=============================================================================
