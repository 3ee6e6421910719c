------------------------------- MODULE Screener -------------------------------
(***************************************************************************)
(* The screener's thread (Screener.run): it builds one option chain per       *)
(* expiry, from Yahoo or, at night, from the data collector's last snapshot,  *)
(* then computes each chain again and again, builds an iron condor where      *)
(* volatility looks dear and publishes the profitable ones. Requests of the   *)
(* web read its chains and spreads at any moment, in the RPC server's thread. *)
(* Yahoo, the table, implied volatilities and the simulation are external:    *)
(* what they may answer is chosen.                                            *)
(***************************************************************************)
EXTENDS MarketClock, Sequences, SequencesExt

CONSTANTS
    Expiries,   \* the expiries listed at the start, in order, as days
    Strikes,
    Snapshots,  \* what a download may bring: a tick for each of some options
    Smiles,     \* call deltas, in hundredths: decreasing in the strike
    ShortTarget, LongTarget,  \* IC_SHORT_ and IC_LONG_STRIKE_DELTA_TARGET
    MaxPrice,    \* bound: the highest price at expiry that is looked at
    NoQuote, NoChain

Options == Strikes \X {"c", "p"}
Ticks == [bid : Nat \cup {NoQuote}, ask : Nat \cup {NoQuote}, last : Nat \cup {NoQuote}]

ASSUME ScreenerAssumption ==
    /\ Expiries \in Seq(Nat) /\ IsInjective(Expiries)
    /\ Strikes \subseteq Nat
    /\ \A f \in Snapshots : DOMAIN f \subseteq Options /\ f \in [DOMAIN f -> Ticks]
    /\ \A f \in Smiles : /\ f \in [Strikes -> 0..100]
                         /\ \A s, t \in Strikes : s < t => f[s] > f[t]
    /\ ShortTarget \in 0..100 /\ LongTarget \in 0..100
    /\ MaxPrice \in Nat

VARIABLES
    thread,   \* where run() is
    next,     \* index of the expiry that is computed next
    chains,   \* option_chains: per expiry the last tick of each option
    moneyed,  \* per expiry the options whose moneyness has been computed
    draft,    \* profitable_spreads of this round
    profitable_spreads,
    batch,    \* whether the list of pairs to ask Yahoo for was ever built
    rounds,   \* whether a round has been completed
    shut_down_flag

vars == <<clock, thread, next, chains, moneyed, draft, profitable_spreads, batch,
          rounds, shut_down_flag>>

Index == DOMAIN Expiries
Nothing == [k \in {} |-> NoQuote]

TypeOK ==
    /\ ClockTypeOK
    /\ thread \in {"new", "waiting", "scanning", "ended", "dead"}
    /\ next \in 1..Len(Expiries) + 1
    /\ \A i \in Index : /\ chains[i] # NoChain => DOMAIN chains[i] \subseteq Options
                        /\ moneyed[i] \subseteq Options
    /\ \A sp \in draft \cup profitable_spreads :
          sp.expiry \in ToSet(Expiries) /\ Len(sp.legs) = 4
    /\ batch \in BOOLEAN /\ rounds \in BOOLEAN /\ shut_down_flag \in BOOLEAN

\* Yahoo lists expiries that have not passed; the process starts on a day
\* that its schedule covers.
Init ==
    /\ day = 0 /\ phase \in Phases
    /\ thread = "new" /\ next = 1
    /\ chains = [i \in Index |-> NoChain] /\ moneyed = [i \in Index |-> {}]
    /\ draft = {} /\ profitable_spreads = {}
    /\ batch = FALSE /\ rounds = FALSE /\ shut_down_flag = FALSE

-----------------------------------------------------------------------------
(* Option data.                                                              *)

HasQuote(tick) == tick.bid # NoQuote /\ tick.ask # NoQuote

\* OptionData.get_mid_price; get_premium's second look at last changes nothing.
Price(tick) ==
    IF tick.bid = 0 /\ tick.ask = 0 THEN tick.last ELSE (tick.bid + tick.ask) \div 2

\* _process_yf_data: new options are added, and every tick is updated.
Merge(chain, data) ==
    [k \in DOMAIN chain \cup DOMAIN data |-> IF k \in DOMAIN data THEN data[k] ELSE chain[k]]

\* A download that fails, as that of a passed expiry does, brings nothing.
Downloads == [Index -> Snapshots \cup {Nothing}]
Sensible(data) == \A i \in Index : Expiries[i] < day => data[i] = Nothing

-----------------------------------------------------------------------------
(* Strategies.                                                               *)

Distance(x, y) == IF x < y THEN y - x ELSE x - y
Delta(smile, k) == IF k[2] = "c" THEN smile[k[1]] ELSE 100 - smile[k[1]]

\* How far |delta| is from the target.
Miss(smile, k, target) == Distance(Delta(smile, k), target)

\* The option of one right whose delta is nearest to the target.
Nearest(chain, smile, right, target) ==
    LET those == {k \in DOMAIN chain : k[2] = right}
    IN  {k \in those : \A j \in those : Miss(smile, k, target) <= Miss(smile, j, target)}

Leg(chain, k, position) ==
    [position |-> position, right |-> k[2], strike |-> k[1], price |-> Price(chain[k])]

\* The spreads construct_iron_condor may build: where two options are equally
\* near, the one that came first into the chain, which is not modelled.
construct_iron_condor(chain, smile) ==
    {<<Leg(chain, sc, -1), Leg(chain, sp, -1), Leg(chain, lc, 1), Leg(chain, lp, 1)>> :
        sc \in Nearest(chain, smile, "c", ShortTarget),
        sp \in Nearest(chain, smile, "p", ShortTarget),
        lc \in Nearest(chain, smile, "c", LongTarget),
        lp \in Nearest(chain, smile, "p", LongTarget)}

\* The short legs' prices less the long ones'.
get_premium(legs) ==
    100 * (legs[1].price + legs[2].price - legs[3].price - legs[4].price)

\* For a mutant: a short leg taken for a long one in the money.
PnLUnsigned(leg, price) ==
    LET paid == leg.position * leg.price
        worth == IF leg.right = "c" THEN price - leg.strike ELSE leg.strike - price
    IN  100 * (IF worth <= 0 THEN -paid ELSE worth - paid)

\* At expiry, of one leg.
get_PnL(leg, price) ==
    LET worth == IF leg.right = "c" THEN price - leg.strike ELSE leg.strike - price
    IN  100 * (IF worth <= 0 THEN -leg.position * leg.price
               ELSE leg.position * (worth - leg.price))

get_total_PnL(legs, price) ==
    get_PnL(legs[1], price) + get_PnL(legs[2], price)
    + get_PnL(legs[3], price) + get_PnL(legs[4], price)

\* get_atm_iv takes the volatility of a side without options for 0, which is not
\* dear.
BothSides(chain) == \A right \in {"c", "p"} : \E k \in DOMAIN chain : k[2] = right

-----------------------------------------------------------------------------
(* run().                                                                    *)

\* Up to the loop: from Yahoo, or from the collector's table, the expiries up to
\* the first for which it has nothing. Then the price history, which may fail.
StartOpen ==
    /\ thread = "new" /\ Open /\ ~Uncovered
    /\ \E data \in Downloads :
          /\ Sensible(data)
          /\ chains' = data
    /\ batch' = TRUE
    /\ thread' \in {"waiting", "dead"}
    /\ UNCHANGED <<clock, next, moneyed, draft, profitable_spreads, rounds, shut_down_flag>>

StartClosed ==
    /\ thread = "new" /\ ~Open /\ ~Uncovered
    /\ \E n \in 0..Len(Expiries), data \in [Index -> Snapshots] :
          chains' = [i \in Index |-> IF i <= n THEN data[i] ELSE NoChain]
    /\ thread' \in {"waiting", "dead"}
    /\ UNCHANGED <<clock, next, moneyed, draft, profitable_spreads, batch, rounds,
                   shut_down_flag>>

\* The exchange's schedule, Yahoo or the table may fail; run() catches nothing.
Dies == thread' = "dead" /\ UNCHANGED <<next, draft, profitable_spreads, batch, rounds>>
StartFails ==
    /\ thread = "new" /\ Dies
    /\ UNCHANGED <<clock, chains, moneyed, shut_down_flag>>

\* For a mutant: the first expiry counted as number 0.
WakeFromZero ==
    /\ thread = "waiting" /\ ~shut_down_flag
    /\ ~Uncovered /\ (Open => batch)
    /\ thread' = "scanning" /\ next' = 0 /\ draft' = {}
    /\ UNCHANGED <<clock, chains, moneyed, profitable_spreads, batch, rounds, shut_down_flag>>

\* For a mutant: the flag looked at between rounds only when the market is closed.
WakeHeedless ==
    /\ thread = "waiting" /\ (Open \/ ~shut_down_flag)
    /\ ~Uncovered /\ (Open => batch)
    /\ IF Open
       THEN \E data \in Downloads :
               /\ Sensible(data)
               /\ chains' = [i \in Index |-> Merge(chains[i], data[i])]
       ELSE UNCHANGED chains
    /\ thread' = "scanning" /\ next' = 1 /\ draft' = {}
    /\ UNCHANGED <<clock, moneyed, profitable_spreads, batch, rounds, shut_down_flag>>

\* A round begins; new options have no moneyness yet.
Wake ==
    /\ thread = "waiting" /\ ~shut_down_flag
    /\ ~Uncovered /\ (Open => batch)
    /\ IF Open
       THEN \E data \in Downloads :
               /\ Sensible(data)
               /\ chains' = [i \in Index |-> Merge(chains[i], data[i])]
       ELSE UNCHANGED chains
    /\ thread' = "scanning" /\ next' = 1 /\ draft' = {}
    /\ UNCHANGED <<clock, moneyed, profitable_spreads, batch, rounds, shut_down_flag>>

\* Where the thread started with the market closed, the list of pairs is an
\* unbound name when it opens; and the schedule ends after a week.
WakeFails ==
    /\ thread = "waiting" /\ ~shut_down_flag
    /\ Uncovered \/ (Open /\ ~batch)
    /\ Dies
    /\ UNCHANGED <<clock, chains, moneyed, shut_down_flag>>

\* The date is that of UTC, where the next day begins in New York's evening.
Passed(i) == Expiries[i] < day \/ (Expiries[i] = day /\ phase = "evening")

Scanning == thread = "scanning" /\ next <= Len(Expiries)
Skip ==
    /\ Scanning
    /\ chains[next] = NoChain \/ Passed(next)
    /\ next' = next + 1
    /\ UNCHANGED <<clock, thread, chains, moneyed, draft, profitable_spreads, batch,
                   rounds, shut_down_flag>>

Computable == Scanning /\ chains[next] # NoChain /\ ~Passed(next)
Quoted(chain) == chain # Nothing /\ \A k \in DOMAIN chain : HasQuote(chain[k])

\* For a mutant: the moneyness not computed again.
ScanOnce ==
    /\ Computable /\ Quoted(chains[next])
    /\ moneyed' = [moneyed EXCEPT ![next] = IF @ = {} THEN DOMAIN chains[next] ELSE @]
    /\ next' = next + 1
    /\ UNCHANGED <<clock, thread, chains, draft, profitable_spreads, batch, rounds,
                   shut_down_flag>>

\* One expiry: analytics, premium over the forecast, condor, expected value.
Scan ==
    /\ Computable /\ Quoted(chains[next])
    /\ moneyed' = [moneyed EXCEPT ![next] = DOMAIN chains[next]]
    /\ next' = next + 1
    /\ \/ UNCHANGED draft
       \/ /\ BothSides(chains[next])
          /\ \E smile \in Smiles :
                \E legs \in construct_iron_condor(chains[next], smile) :
                   /\ \A i \in DOMAIN legs : legs[i].price # NoQuote
                   /\ draft' = draft \cup {[expiry |-> Expiries[next], legs |-> legs,
                                            premium |-> get_premium(legs)]}
    /\ UNCHANGED <<clock, thread, chains, profitable_spreads, batch, rounds, shut_down_flag>>

\* A chain without options, an option without a quote (get_data_tuple), or a
\* price or forecast that cannot be had; the moneyness comes before the quotes.
ScanFails ==
    /\ Computable
    /\ Dies
    /\ moneyed' \in {moneyed, [moneyed EXCEPT ![next] = DOMAIN chains[next]]}
    /\ UNCHANGED <<clock, chains, shut_down_flag>>

Publish ==
    /\ thread = "scanning" /\ next > Len(Expiries)
    /\ profitable_spreads' = draft
    /\ thread' = "waiting" /\ next' = 1 /\ draft' = {}
    /\ rounds' = TRUE
    /\ UNCHANGED <<clock, chains, moneyed, batch, shut_down_flag>>

Stop ==
    /\ thread = "waiting" /\ shut_down_flag
    /\ thread' = "ended"
    /\ UNCHANGED <<clock, next, chains, moneyed, draft, profitable_spreads, batch, rounds,
                   shut_down_flag>>

\* Core.shutdown.
ShutDown ==
    /\ ~shut_down_flag /\ shut_down_flag' = TRUE
    /\ UNCHANGED <<clock, thread, next, chains, moneyed, draft, profitable_spreads, batch,
                   rounds>>

\* A round is over before the evening, and before the night is.
Time ==
    /\ \/ Advance("early", "opening") \/ Advance("opening", "session")
       \/ Advance("session", "closed")
       \/ Advance("closed", "evening") /\ thread # "scanning" /\ (batch => rounds)
       \/ phase = "evening" /\ NextMorning /\ thread # "scanning"
    /\ UNCHANGED <<thread, next, chains, moneyed, draft, profitable_spreads, batch, rounds,
                   shut_down_flag>>

-----------------------------------------------------------------------------
(* What requests read, in the RPC server's thread: TRUE where it is there,    *)
(* FALSE where the code raises.                                               *)

option_chains == {i \in Index : chains[i] # NoChain}

\* An option that came with the last update has no moneyness.
get_atm_iv(i) == moneyed[i] = DOMAIN chains[i]

\* get_time_to_expiry asks for a schedule that ends before it begins.
get_dte(i) == ~Passed(i)

get_term_structure == \A i \in option_chains : get_atm_iv(i) /\ get_dte(i)

\* An option's gex is 0 until it is computed.
get_gex == \A i \in option_chains : get_dte(i)

\* For a leg the price is looked up.
Readable(leg, chain) ==
    LET k == <<leg.strike, leg.right>>
    IN  k \in DOMAIN chain /\ HasQuote(chain[k]) /\ Price(chain[k]) # NoQuote
get_profitable_spread_json ==
    \A sp \in profitable_spreads, i \in option_chains : sp.expiry = Expiries[i] =>
        \A leg \in ToSet(sp.legs) : Readable(leg, chains[i])

-----------------------------------------------------------------------------
Start == StartOpen \/ StartClosed \/ StartFails
Round == Wake \/ WakeFails \/ Skip \/ Scan \/ ScanFails \/ Publish
Next == Start \/ Round \/ Stop \/ ShutDown \/ Time

Spec == Init /\ [][Next]_vars

\* The thread runs, and whatever it asks for answers or fails.
FairSpec == Spec /\ WF_vars(Start) /\ WF_vars(Round) /\ WF_vars(Stop)

-----------------------------------------------------------------------------
(* Properties.                                                               *)

\* The long legs lie outside the short ones, and at no price does the condor earn
\* more than its premium or lose more than both its wings together, less the premium:
\* on a chain with gaps the short put may lie above the short call, and both lose.
Bounded(sp) ==
    LET wings == (sp.legs[3].strike - sp.legs[1].strike)
                 + (sp.legs[2].strike - sp.legs[4].strike)
    IN  /\ sp.legs[1].strike <= sp.legs[3].strike
        /\ sp.legs[4].strike <= sp.legs[2].strike
        /\ \A price \in 0..MaxPrice :
              get_total_PnL(sp.legs, price) \in sp.premium - 100 * wings .. sp.premium

\* What is published can be lived with, on chains with gaps, after strikes came
\* and prices moved.
LossBounded == \A sp \in profitable_spreads : Bounded(sp)

\* Between rounds a screener that was started in a session can be read, until an
\* expiry passes: for every option get_atm_iv finds a moneyness and for every published
\* leg get_profitable_spread_json a price, so that get_dte is all that fails. It does
\* from the day on which the first expiry has passed: its chain stays, and neither
\* get_term_structure nor get_gex answers again.
ReadersServed ==
    thread = "waiting" /\ rounds /\ batch =>
        /\ get_profitable_spread_json
        /\ \A i \in option_chains : get_atm_iv(i)
        /\ get_term_structure <=> \A i \in option_chains : ~Passed(i)
        /\ get_gex <=> \A i \in option_chains : ~Passed(i)

\* core.py's shutdown relies on it: after the flag is set the thread ends, out
\* of whatever round it is in.
Stops == shut_down_flag ~> thread \in {"ended", "dead"}
=============================================================================
