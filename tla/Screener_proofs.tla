---------------------------- MODULE Screener_proofs ----------------------------
(***************************************************************************)
(* What the screener publishes and what its readers find, for any expiries,   *)
(* strikes, chains, volatility smiles, prices and calendar. That a condor's   *)
(* loss is bounded is arithmetic: the two legs nearest to the targets lie in  *)
(* the order of the targets, so each leg lost is covered by its wing, and     *)
(* both may be lost at once. That readers are served, as long as no expiry    *)
(* has passed, rests on the moneyness of one that has: no download brings new *)
(* options for it, and the round before it passed computed those it has.     *)
(***************************************************************************)
EXTENDS Screener, TLAPS

-----------------------------------------------------------------------------
(* Condors.                                                                 *)

\* An option chain as Yahoo or the collector's table brings it.
ChainTyped(chain) ==
    /\ DOMAIN chain \subseteq Options
    /\ chain \in [DOMAIN chain -> Ticks]

\* The price of a quoted option is a number, or there is none.
LEMMA PriceTyped ==
    ASSUME NEW tick \in Ticks, HasQuote(tick)
    PROVE  Price(tick) \in Nat \cup {NoQuote}
<1>1. /\ tick.bid \in Nat /\ tick.ask \in Nat
      /\ tick.last \in Nat \cup {NoQuote}
  BY DEF Ticks, HasQuote
<1>2. (tick.bid + tick.ask) \div 2 \in Nat
  BY <1>1
<1> QED BY <1>1, <1>2 DEF Price

\* What is gained beyond a strike.
Gain(n) == IF n <= 0 THEN 0 ELSE n

\* Of two prices of a share the wing between them pays the difference.
LEMMA WingsPay ==
    ASSUME NEW m \in Int, NEW n \in Int, n <= m
    PROVE  /\ Gain(m) \in Nat /\ Gain(n) \in Nat
           /\ Gain(n) <= Gain(m) /\ Gain(m) - Gain(n) <= m - n
BY DEF Gain

\* What a leg gains and costs, by the side of its strike on which the price is.
LEMMA LegPnL ==
    ASSUME NEW leg, NEW price \in Nat, leg.strike \in Nat, leg.price \in Nat,
           leg.position \in {-1, 1}, leg.right \in {"c", "p"}
    PROVE  LET worth == IF leg.right = "c" THEN price - leg.strike ELSE leg.strike - price
           IN  get_PnL(leg, price) = IF leg.position = 1
                                     THEN 100 * (Gain(worth) - leg.price)
                                     ELSE 100 * (leg.price - Gain(worth))
<1>1. CASE leg.position = 1
  BY <1>1 DEF get_PnL, Gain
<1>2. CASE leg.position = -1
  BY <1>2 DEF get_PnL, Gain
<1> QED BY <1>1, <1>2

\* Of two calls, or two puts, the one nearest to the lower target is further out
\* of the money.
LEMMA TargetsInOrder ==
    ASSUME NEW x \in 0 .. 100, NEW y \in 0 .. 100,
           NEW high \in 0 .. 100, NEW low \in 0 .. 100, low < high,
           Distance(x, high) <= Distance(y, high), Distance(y, low) <= Distance(x, low)
    PROVE  y <= x
BY DEF Distance

LEMMA Ordered ==
    ASSUME NEW m \in Nat, NEW n \in Nat, NEW v \in 0 .. 100, NEW w \in 0 .. 100,
           n < m => w > v, w <= v
    PROVE  m <= n
OBVIOUS

LEMMA Flipped ==
    ASSUME NEW v \in 0 .. 100, NEW w \in 0 .. 100, 100 - w <= 100 - v
    PROVE  v <= w
OBVIOUS

LEMMA LegsInOrder ==
    ASSUME LongTarget < ShortTarget,
           NEW chain, DOMAIN chain \subseteq Options, NEW smile \in Smiles,
           NEW right \in {"c", "p"},
           NEW short \in Nearest(chain, smile, right, ShortTarget),
           NEW long \in Nearest(chain, smile, right, LongTarget)
    PROVE  /\ short \in DOMAIN chain /\ short[2] = right /\ short[1] \in Strikes
           /\ long \in DOMAIN chain /\ long[2] = right /\ long[1] \in Strikes
           /\ right = "c" => short[1] <= long[1]
           /\ right = "p" => long[1] <= short[1]
<1>1. /\ short \in DOMAIN chain /\ short[2] = right
      /\ long \in DOMAIN chain /\ long[2] = right
      /\ Miss(smile, short, ShortTarget) <= Miss(smile, long, ShortTarget)
      /\ Miss(smile, long, LongTarget) <= Miss(smile, short, LongTarget)
  BY DEF Nearest
<1>2. short[1] \in Strikes /\ long[1] \in Strikes /\ Strikes \subseteq Nat
  BY <1>1, ScreenerAssumption DEF Options
<1>3. /\ smile[short[1]] \in 0 .. 100 /\ smile[long[1]] \in 0 .. 100
      /\ short[1] < long[1] => smile[short[1]] > smile[long[1]]
      /\ long[1] < short[1] => smile[long[1]] > smile[short[1]]
  BY <1>2, ScreenerAssumption
<1>4. Delta(smile, short) \in 0 .. 100 /\ Delta(smile, long) \in 0 .. 100
  BY <1>3 DEF Delta
<1>5. Delta(smile, long) <= Delta(smile, short)
  BY <1>1, <1>4, TargetsInOrder, ScreenerAssumption DEF Miss
<1>6. PICK x \in Strikes, y \in Strikes, f \in [Strikes -> 0 .. 100] :
         x = short[1] /\ y = long[1] /\ f = smile
  BY <1>2, ScreenerAssumption
<1>7. /\ x \in Nat /\ y \in Nat /\ f[x] \in 0 .. 100 /\ f[y] \in 0 .. 100
      /\ x < y => f[x] > f[y]
      /\ y < x => f[y] > f[x]
  BY <1>2, <1>3, <1>6
<1>8. CASE right = "c"
  <2>1. f[y] <= f[x]
    BY <1>1, <1>5, <1>6, <1>8 DEF Delta
  <2>2. x <= y
    BY <1>7, <2>1, Ordered
  <2>3. short[1] <= long[1] /\ right # "p"
    BY <1>6, <1>8, <2>2
  <2> QED BY <1>1, <1>2, <2>3
<1>9. CASE right = "p"
  <2>1. 100 - f[y] <= 100 - f[x]
    BY <1>1, <1>5, <1>6, <1>9 DEF Delta
  <2>2. y <= x
    <3>1. f[x] <= f[y]
      BY <1>7, <2>1, Flipped
    <3> QED BY <1>7, <3>1, Ordered
  <2>3. long[1] <= short[1] /\ right # "c"
    BY <1>6, <1>9, <2>2
  <2> QED BY <1>1, <1>2, <2>3
<1> QED BY <1>8, <1>9

\* Whatever construct_iron_condor builds out of priced options can be lived with.
LEMMA CondorBounded ==
    ASSUME LongTarget < ShortTarget,
           NEW chain, ChainTyped(chain), Quoted(chain), NEW smile \in Smiles,
           NEW legs \in construct_iron_condor(chain, smile),
           \A i \in DOMAIN legs : legs[i].price # NoQuote,
           NEW e
    PROVE  Bounded([expiry |-> e, legs |-> legs, premium |-> get_premium(legs)])
<1>1. PICK sc \in Nearest(chain, smile, "c", ShortTarget),
           sp \in Nearest(chain, smile, "p", ShortTarget),
           lc \in Nearest(chain, smile, "c", LongTarget),
           lp \in Nearest(chain, smile, "p", LongTarget) :
         legs = <<Leg(chain, sc, -1), Leg(chain, sp, -1), Leg(chain, lc, 1), Leg(chain, lp, 1)>>
  BY DEF construct_iron_condor
<1>2. /\ sc \in DOMAIN chain /\ sc[2] = "c" /\ sc[1] \in Strikes
      /\ lc \in DOMAIN chain /\ lc[2] = "c" /\ lc[1] \in Strikes /\ sc[1] <= lc[1]
  BY LegsInOrder DEF ChainTyped
<1>3. /\ sp \in DOMAIN chain /\ sp[2] = "p" /\ sp[1] \in Strikes
      /\ lp \in DOMAIN chain /\ lp[2] = "p" /\ lp[1] \in Strikes /\ lp[1] <= sp[1]
  BY LegsInOrder DEF ChainTyped
<1>4. PICK l1, l2, l3, l4 : /\ l1 = Leg(chain, sc, -1) /\ l2 = Leg(chain, sp, -1)
                            /\ l3 = Leg(chain, lc, 1) /\ l4 = Leg(chain, lp, 1)
  OBVIOUS
<1>5. /\ legs = <<l1, l2, l3, l4>> /\ DOMAIN legs = 1 .. 4
      /\ legs[1] = l1 /\ legs[2] = l2 /\ legs[3] = l3 /\ legs[4] = l4
  BY <1>1, <1>4
<1>6. /\ l1.position = -1 /\ l1.right = "c" /\ l1.strike = sc[1] /\ l1.price = Price(chain[sc])
      /\ l2.position = -1 /\ l2.right = "p" /\ l2.strike = sp[1] /\ l2.price = Price(chain[sp])
      /\ l3.position = 1 /\ l3.right = "c" /\ l3.strike = lc[1] /\ l3.price = Price(chain[lc])
      /\ l4.position = 1 /\ l4.right = "p" /\ l4.strike = lp[1] /\ l4.price = Price(chain[lp])
  BY <1>2, <1>3, <1>4 DEF Leg
<1>7. /\ l1.strike \in Nat /\ l2.strike \in Nat /\ l3.strike \in Nat /\ l4.strike \in Nat
      /\ l1.strike <= l3.strike /\ l4.strike <= l2.strike
  BY <1>2, <1>3, <1>6, ScreenerAssumption
<1>8. \A k \in DOMAIN chain : Price(chain[k]) \in Nat \cup {NoQuote}
  BY PriceTyped DEF ChainTyped, Quoted
<1>9. l1.price \in Nat /\ l2.price \in Nat /\ l3.price \in Nat /\ l4.price \in Nat
  <2>1. l1.price # NoQuote /\ l2.price # NoQuote /\ l3.price # NoQuote /\ l4.price # NoQuote
    BY <1>5
  <2> QED BY <2>1, <1>2, <1>3, <1>6, <1>8
<1> DEFINE premium == 100 * (l1.price + l2.price - l3.price - l4.price)
           wings == (l3.strike - l1.strike) + (l2.strike - l4.strike)
           total(price) == get_PnL(l1, price) + get_PnL(l2, price)
                           + get_PnL(l3, price) + get_PnL(l4, price)
<1>10. ASSUME NEW price \in Nat
       PROVE  total(price) \in premium - 100 * wings .. premium
  <2> DEFINE g1 == Gain(price - l1.strike)
             g2 == Gain(l2.strike - price)
             g3 == Gain(price - l3.strike)
             g4 == Gain(l4.strike - price)
  <2>1. get_PnL(l1, price) = 100 * (l1.price - g1)
    BY <1>6, <1>7, <1>9, LegPnL
  <2>2. get_PnL(l2, price) = 100 * (l2.price - g2)
    BY <1>6, <1>7, <1>9, LegPnL
  <2>3. get_PnL(l3, price) = 100 * (g3 - l3.price)
    BY <1>6, <1>7, <1>9, LegPnL
  <2>4. get_PnL(l4, price) = 100 * (g4 - l4.price)
    BY <1>6, <1>7, <1>9, LegPnL
  <2>5. /\ g1 \in Nat /\ g3 \in Nat /\ g3 <= g1 /\ g1 - g3 <= l3.strike - l1.strike
    <3>1. /\ price - l1.strike \in Int /\ price - l3.strike \in Int
          /\ price - l3.strike <= price - l1.strike
          /\ (price - l1.strike) - (price - l3.strike) = l3.strike - l1.strike
      BY <1>7
    <3> QED BY <3>1, WingsPay
  <2>6. /\ g2 \in Nat /\ g4 \in Nat /\ g4 <= g2 /\ g2 - g4 <= l2.strike - l4.strike
    <3>1. /\ l2.strike - price \in Int /\ l4.strike - price \in Int
          /\ l4.strike - price <= l2.strike - price
          /\ (l2.strike - price) - (l4.strike - price) = l2.strike - l4.strike
      BY <1>7
    <3> QED BY <3>1, WingsPay
  <2> HIDE DEF g1, g2, g3, g4
  <2>7. total(price) = premium + 100 * (g3 + g4 - g1 - g2) /\ premium \in Int
    BY <2>1, <2>2, <2>3, <2>4, <2>5, <2>6, <1>9
  <2>8. wings \in Int /\ g3 + g4 - g1 - g2 <= 0 /\ g1 + g2 - g3 - g4 <= wings
    BY <2>5, <2>6, <1>7
  <2> HIDE DEF wings, premium, total
  <2> QED BY <2>5, <2>6, <2>7, <2>8
<1> HIDE DEF premium, wings, total
<1>11. /\ get_premium(legs) = premium
       /\ \A price : get_total_PnL(legs, price) = total(price)
  BY <1>5 DEF get_premium, get_total_PnL, premium, total
<1>12. \A price \in 0 .. MaxPrice : price \in Nat
  BY ScreenerAssumption
<1> QED BY <1>5, <1>7, <1>10, <1>11, <1>12 DEF Bounded, wings
\* And can be read.
LEMMA LegsReadable ==
    ASSUME NEW chain, ChainTyped(chain), Quoted(chain), NEW smile \in Smiles,
           NEW legs \in construct_iron_condor(chain, smile),
           \A i \in DOMAIN legs : legs[i].price # NoQuote
    PROVE  /\ Len(legs) = 4
           /\ \A leg \in ToSet(legs) : Readable(leg, chain)
<1>1. PICK sc \in Nearest(chain, smile, "c", ShortTarget),
           sp \in Nearest(chain, smile, "p", ShortTarget),
           lc \in Nearest(chain, smile, "c", LongTarget),
           lp \in Nearest(chain, smile, "p", LongTarget) :
         legs = <<Leg(chain, sc, -1), Leg(chain, sp, -1), Leg(chain, lc, 1), Leg(chain, lp, 1)>>
  BY DEF construct_iron_condor
<1>2. sc \in DOMAIN chain /\ sp \in DOMAIN chain /\ lc \in DOMAIN chain /\ lp \in DOMAIN chain
  BY DEF Nearest
<1>3. Len(legs) = 4 /\ DOMAIN legs = 1 .. 4
  BY <1>1
<1>4. ASSUME NEW i \in 1 .. 4 PROVE Readable(legs[i], chain)
  <2>1. PICK k \in DOMAIN chain, p \in {-1, 1} : legs[i] = Leg(chain, k, p)
    BY <1>1, <1>2
  <2>2. k = <<k[1], k[2]>>
    BY DEF ChainTyped, Options
  <2>3. legs[i].strike = k[1] /\ legs[i].right = k[2] /\ legs[i].price = Price(chain[k])
    BY <2>1 DEF Leg
  <2>4. legs[i].price # NoQuote /\ HasQuote(chain[k])
    BY <1>3 DEF Quoted
  <2> QED BY <2>2, <2>3, <2>4 DEF Readable
<1> QED BY <1>3, <1>4 DEF ToSet

-----------------------------------------------------------------------------
(* The thread.                                                              *)

SpreadsTyped(spreads) ==
    \A sp \in spreads : sp.expiry \in ToSet(Expiries) /\ Len(sp.legs) = 4

\* Chains hold options; what has been downloaded is a chain for every expiry.
ChainsInv ==
    /\ moneyed \in [Index -> SUBSET Options]
    /\ \A i \in Index : batch \/ chains[i] # NoChain => ChainTyped(chains[i])
    /\ thread = "new" => ~batch /\ ~rounds /\ \A i \in Index : moneyed[i] = {}

\* An expiry that has passed has had the moneyness of its options computed.
PassedInv ==
    batch /\ thread \in {"waiting", "scanning"} =>
        \A i \in Index : Passed(i) /\ chains[i] # NoChain => moneyed[i] = DOMAIN chains[i]

\* Those behind the loop have, and what will be published can be read.
Legible(spreads, i) ==
    \A sp \in spreads : sp.expiry = Expiries[i] =>
        \A leg \in ToSet(sp.legs) : Readable(leg, chains[i])

ScannedInv ==
    batch /\ thread = "scanning" =>
        \A i \in Index : /\ i < next /\ chains[i] # NoChain => moneyed[i] = DOMAIN chains[i]
                         /\ Legible(draft, i)

\* What readers look up in a chain is there, whichever expiries have passed.
Served ==
    thread = "waiting" /\ rounds /\ batch =>
        \A i \in Index : chains[i] # NoChain =>
            moneyed[i] = DOMAIN chains[i] /\ Legible(profitable_spreads, i)

ReadersInv == TypeOK /\ ChainsInv /\ PassedInv /\ ScannedInv /\ Served

LEMMA Places ==
    /\ Len(Expiries) \in Nat /\ Index = 1 .. Len(Expiries)
    /\ \A i, j \in Index : Expiries[i] = Expiries[j] => i = j
    /\ \A i \in Index : Expiries[i] \in Nat /\ Expiries[i] \in ToSet(Expiries)
BY ScreenerAssumption DEF Index, IsInjective, ToSet

LEMMA Brought ==
    ASSUME NEW data \in Snapshots \cup {Nothing}
    PROVE  ChainTyped(data)
BY ScreenerAssumption DEF ChainTyped, Nothing

LEMMA Merged ==
    ASSUME NEW chain, ChainTyped(chain), NEW data, ChainTyped(data)
    PROVE  /\ ChainTyped(Merge(chain, data))
           /\ data = Nothing => Merge(chain, data) = chain
<1>1. CASE data = Nothing
  <2>1. DOMAIN Nothing = {} /\ chain = [k \in DOMAIN chain |-> chain[k]]
    BY DEF ChainTyped, Nothing
  <2>2. Merge(chain, Nothing) = [k \in DOMAIN chain |-> chain[k]]
    BY <2>1 DEF Merge
  <2> QED BY <1>1, <2>1, <2>2
<1>2. CASE data # Nothing
  <2> DEFINE all == DOMAIN chain \cup DOMAIN data
             m == Merge(chain, data)
  <2>1. /\ all \subseteq Options
        /\ \A k \in all : (IF k \in DOMAIN data THEN data[k] ELSE chain[k]) \in Ticks
    BY DEF ChainTyped
  <2>2. DOMAIN m = all /\ m \in [all -> Ticks]
    BY <2>1 DEF Merge
  <2> QED BY <1>2, <2>1, <2>2 DEF ChainTyped
<1> QED BY <1>1, <1>2

LEMMA DayTyped ==
    ASSUME ClockTypeOK
    PROVE  day \in Nat /\ phase \in Phases
BY ClockAssumption DEF ClockTypeOK

LEMMA StartOpenKeeps ==
    ASSUME ReadersInv, StartOpen
    PROVE  ReadersInv'
<1> USE DEF ReadersInv
<1>1. PICK data \in Downloads : Sensible(data) /\ chains' = data
  BY DEF StartOpen
<1>2. /\ thread = "new" /\ Open /\ thread' \in {"waiting", "dead"} /\ batch' = TRUE
      /\ ~rounds /\ \A i \in Index : moneyed[i] = {}
      /\ UNCHANGED <<day, phase, next, moneyed, draft, profitable_spreads, rounds, shut_down_flag>>
  BY DEF StartOpen, ChainsInv, clock
<1>3. \A i \in Index : ChainTyped(chains'[i])
  BY <1>1, Brought DEF Downloads
<1>4. TypeOK'
  BY <1>2, <1>3 DEF TypeOK, ClockTypeOK, ChainTyped
<1>5. ChainsInv' /\ ScannedInv'
  BY <1>2, <1>3 DEF ChainsInv, ScannedInv
<1>6. PassedInv'
  <2> SUFFICES ASSUME NEW i \in Index, Passed(i)' PROVE moneyed'[i] = DOMAIN chains'[i]
    BY DEF PassedInv
  <2>1. Expiries[i] < day
    BY <1>2 DEF Passed, Open
  <2>2. data[i] = Nothing
    BY <1>1, <2>1 DEF Sensible
  <2> QED BY <1>1, <1>2, <2>2 DEF Nothing
<1>7. Served'
  BY <1>2 DEF Served
<1> QED BY <1>4, <1>5, <1>6, <1>7

\* Without a list of pairs nothing is promised.
LEMMA StartClosedKeeps ==
    ASSUME ReadersInv, StartClosed
    PROVE  ReadersInv'
<1> USE DEF ReadersInv
<1>1. PICK n \in 0 .. Len(Expiries), data \in [Index -> Snapshots] :
         chains' = [i \in Index |-> IF i <= n THEN data[i] ELSE NoChain]
  BY DEF StartClosed
<1>2. /\ ~batch' /\ thread' \in {"waiting", "dead"}
      /\ UNCHANGED <<day, phase, next, moneyed, draft, profitable_spreads, batch, rounds,
                     shut_down_flag>>
  BY DEF StartClosed, ChainsInv, clock
<1>3. \A i \in Index : chains'[i] # NoChain => ChainTyped(chains'[i])
  BY <1>1, Brought
<1>4. TypeOK'
  BY <1>2, <1>3 DEF TypeOK, ClockTypeOK, ChainTyped
<1> QED BY <1>2, <1>3, <1>4 DEF ChainsInv, ScannedInv, PassedInv, Served

\* Nothing is promised of a thread that has died, or goes out of its loop.
LEMMA EndKeeps ==
    ASSUME ReadersInv, thread' \in {"ended", "dead"},
           moneyed' \in [Index -> SUBSET Options],
           UNCHANGED <<clock, next, chains, draft, profitable_spreads, batch, rounds>>,
           shut_down_flag' \in BOOLEAN
    PROVE  ReadersInv'
<1> USE DEF ReadersInv
<1>1. TypeOK'
  BY DEF TypeOK, ClockTypeOK, clock, ChainsInv
<1> QED BY <1>1 DEF ChainsInv, ScannedInv, PassedInv, Served

LEMMA FailsKeep ==
    ASSUME ReadersInv, StartFails \/ WakeFails \/ ScanFails \/ Stop
    PROVE  ReadersInv'
<1>1. /\ moneyed \in [Index -> SUBSET Options] /\ shut_down_flag \in BOOLEAN
      /\ \A i \in Index : batch \/ chains[i] # NoChain => DOMAIN chains[i] \subseteq Options
  BY DEF ReadersInv, ChainsInv, TypeOK, ChainTyped
<1>2. CASE StartFails \/ WakeFails \/ Stop
  <2>1. /\ thread' \in {"ended", "dead"} /\ UNCHANGED <<moneyed, shut_down_flag>>
        /\ UNCHANGED <<clock, next, chains, draft, profitable_spreads, batch, rounds>>
    BY <1>2 DEF StartFails, WakeFails, Stop, Dies
  <2> QED BY <2>1, <1>1, EndKeeps
<1>3. CASE ScanFails
  <2>1. /\ thread' \in {"ended", "dead"} /\ UNCHANGED shut_down_flag
        /\ UNCHANGED <<clock, next, chains, draft, profitable_spreads, batch, rounds>>
        /\ next \in Index /\ chains[next] # NoChain
        /\ moneyed' \in {moneyed, [moneyed EXCEPT ![next] = DOMAIN chains[next]]}
    BY <1>3, Places DEF ScanFails, Dies, Computable, Scanning, ReadersInv, TypeOK
  <2>2. moneyed' \in [Index -> SUBSET Options]
    BY <2>1, <1>1
  <2> QED BY <2>1, <2>2, <1>1, EndKeeps
<1> QED BY <1>2, <1>3

\* A round begins: no new options for an expiry that has passed.
LEMMA WakeKeeps ==
    ASSUME ReadersInv, Wake
    PROVE  ReadersInv'
<1> USE DEF ReadersInv
<1>1. /\ thread = "waiting" /\ thread' = "scanning" /\ next' = 1 /\ draft' = {}
      /\ Open => batch
      /\ UNCHANGED <<day, phase, moneyed, profitable_spreads, batch, rounds, shut_down_flag>>
  BY DEF Wake, clock
<1>2. /\ \A i \in Index : batch \/ chains[i] # NoChain =>
             ChainTyped(chains'[i]) \/ (chains'[i] = chains[i] /\ chains[i] = NoChain)
      /\ \A i \in Index : batch /\ Passed(i) => chains'[i] = chains[i]
      /\ Open \/ chains' = chains
  <2>1. CASE Open
    <3>1. PICK data \in Downloads :
             Sensible(data) /\ chains' = [i \in Index |-> Merge(chains[i], data[i])]
      BY <2>1 DEF Wake
    <3>2. ASSUME NEW i \in Index
          PROVE  /\ ChainTyped(chains'[i])
                 /\ Passed(i) => chains'[i] = chains[i]
      <4>1. ChainTyped(chains[i]) /\ ChainTyped(data[i])
        BY <1>1, <2>1, Brought DEF ChainsInv, Downloads
      <4>2. Passed(i) => data[i] = Nothing
        BY <2>1, <3>1 DEF Passed, Open, Sensible
      <4>3. chains'[i] = Merge(chains[i], data[i])
        BY <3>1
      <4> QED BY <4>1, <4>2, <4>3, Merged
    <3> QED BY <3>2, <2>1
  <2>2. CASE ~Open
    <3>1. chains' = chains
      BY <2>2 DEF Wake
    <3> QED BY <3>1 DEF ChainsInv
  <2> QED BY <2>1, <2>2
<1>3. \A i \in Index : batch' \/ chains'[i] # NoChain => ChainTyped(chains'[i])
  <2> SUFFICES ASSUME NEW i \in Index, batch' \/ chains'[i] # NoChain
               PROVE  ChainTyped(chains'[i])
    OBVIOUS
  <2>1. batch \/ chains[i] # NoChain
    BY <1>1, <1>2
  <2>2. ChainTyped(chains[i])
    BY <2>1 DEF ChainsInv
  <2> QED BY <1>2, <2>1, <2>2
<1>4. 1 \in 1 .. Len(Expiries) + 1
  BY Places
<1>5. TypeOK'
  BY <1>1, <1>3, <1>4 DEF TypeOK, ClockTypeOK, ChainTyped
<1>6. ChainsInv'
  BY <1>1, <1>3 DEF ChainsInv
<1>7. PassedInv'
  <2>1. \A i \in Index : Passed(i)' <=> Passed(i)
    BY <1>1 DEF Passed
  <2> QED BY <1>1, <1>2, <2>1 DEF PassedInv
<1>8. ScannedInv' /\ Served'
  BY <1>1, Places DEF ScannedInv, Legible, Served
<1> QED BY <1>5, <1>6, <1>7, <1>8

LEMMA SkipKeeps ==
    ASSUME ReadersInv, Skip
    PROVE  ReadersInv'
<1> USE DEF ReadersInv
<1>1. /\ thread = "scanning" /\ next \in Index /\ next' = next + 1
      /\ chains[next] = NoChain \/ Passed(next)
      /\ UNCHANGED <<day, phase, thread, chains, moneyed, draft, profitable_spreads, batch,
                     rounds, shut_down_flag>>
  BY Places DEF Skip, Scanning, clock, TypeOK
<1>2. TypeOK'
  BY <1>1, Places DEF TypeOK, ClockTypeOK
<1>3. ChainsInv' /\ Served'
  BY <1>1 DEF ChainsInv, Served
<1>4. PassedInv'
  BY <1>1 DEF PassedInv, Passed
<1>5. ScannedInv'
  <2> SUFFICES ASSUME batch, NEW i \in Index
               PROVE  /\ i < next + 1 /\ chains[i] # NoChain => moneyed[i] = DOMAIN chains[i]
                      /\ Legible(draft, i)
    BY <1>1 DEF ScannedInv, Legible
  <2>1. i < next \/ i = next \/ ~(i < next + 1)
    BY <1>1, Places
  <2> QED BY <2>1, <1>1 DEF ScannedInv, PassedInv
<1> QED BY <1>2, <1>3, <1>4, <1>5

\* One expiry computed: its options have a moneyness, and all have a quote, the
\* legs of its condor a price.
LEMMA ScanKeeps ==
    ASSUME ReadersInv, Scan
    PROVE  ReadersInv'
<1> USE DEF ReadersInv
<1> DEFINE chain == chains[next]
<1>1. /\ thread = "scanning" /\ next \in Index /\ next' = next + 1
      /\ chain # NoChain /\ Quoted(chain)
      /\ moneyed' = [moneyed EXCEPT ![next] = DOMAIN chain]
      /\ UNCHANGED <<day, phase, thread, chains, profitable_spreads, batch, rounds,
                     shut_down_flag>>
  BY Places DEF Scan, Computable, Scanning, clock, TypeOK
<1>2. ChainTyped(chain)
  BY <1>1 DEF ChainsInv
<1>3. /\ moneyed' \in [Index -> SUBSET Options] /\ moneyed'[next] = DOMAIN chain
      /\ \A i \in Index : i # next => moneyed'[i] = moneyed[i]
  BY <1>1, <1>2 DEF ChainsInv, ChainTyped
<1>4. \A sp \in draft' : \/ sp \in draft
                         \/ /\ sp.expiry = Expiries[next] /\ Len(sp.legs) = 4
                            /\ \A leg \in ToSet(sp.legs) : Readable(leg, chain)
  <2>1. CASE UNCHANGED draft
    BY <2>1
  <2>2. ASSUME NEW smile \in Smiles, NEW legs \in construct_iron_condor(chain, smile),
               \A i \in DOMAIN legs : legs[i].price # NoQuote,
               draft' = draft \cup {[expiry |-> Expiries[next], legs |-> legs,
                                     premium |-> get_premium(legs)]}
        PROVE  \A sp \in draft' : \/ sp \in draft
                         \/ /\ sp.expiry = Expiries[next] /\ Len(sp.legs) = 4
                            /\ \A leg \in ToSet(sp.legs) : Readable(leg, chain)
    <3>1. Len(legs) = 4 /\ \A leg \in ToSet(legs) : Readable(leg, chain)
      BY <1>1, <1>2, <2>2, LegsReadable
    <3> QED BY <2>2, <3>1
  <2> QED BY <2>1, <2>2 DEF Scan
<1>5. TypeOK'
  <2>1. next' \in 1 .. Len(Expiries) + 1
    BY <1>1, Places
  <2>2. \A i \in Index : moneyed'[i] \subseteq Options
    BY <1>3
  <2>3. \A sp \in draft' \cup profitable_spreads' :
           sp.expiry \in ToSet(Expiries) /\ Len(sp.legs) = 4
    BY <1>1, <1>4, Places DEF TypeOK
  <2> QED BY <1>1, <2>1, <2>2, <2>3 DEF TypeOK, ClockTypeOK
<1>6. ChainsInv'
  BY <1>1, <1>3 DEF ChainsInv
<1>7. PassedInv'
  BY <1>1, <1>3 DEF PassedInv, Passed
<1>8. ScannedInv'
  <2> SUFFICES ASSUME batch, NEW i \in Index
               PROVE  /\ i < next + 1 /\ chains[i] # NoChain => moneyed'[i] = DOMAIN chains[i]
                      /\ Legible(draft, i)'
    BY <1>1 DEF ScannedInv
  <2>1. i < next \/ i = next \/ ~(i < next + 1)
    BY <1>1, Places
  <2>2. i < next + 1 /\ chains[i] # NoChain => moneyed'[i] = DOMAIN chains[i]
    BY <2>1, <1>1, <1>3 DEF ScannedInv
  <2>3. ASSUME NEW sp \in draft', sp.expiry = Expiries[i]
        PROVE  \A leg \in ToSet(sp.legs) : Readable(leg, chains[i])
    <3>1. CASE sp \in draft
      BY <3>1, <2>3, <1>1 DEF ScannedInv, Legible
    <3>2. CASE sp \notin draft
      <4>1. i = next
        BY <3>2, <2>3, <1>1, <1>4, Places
      <4> QED BY <3>2, <4>1, <1>4
    <3> QED BY <3>1, <3>2
  <2>4. Legible(draft, i)'
    BY <2>3, <1>1 DEF Legible
  <2> QED BY <2>2, <2>4
<1>9. Served'
  BY <1>1 DEF Served
<1> QED BY <1>5, <1>6, <1>7, <1>8, <1>9

\* The round is over.
LEMMA PublishKeeps ==
    ASSUME ReadersInv, Publish
    PROVE  ReadersInv'
<1> USE DEF ReadersInv
<1>1. /\ thread = "scanning" /\ next > Len(Expiries) /\ thread' = "waiting" /\ next' = 1
      /\ profitable_spreads' = draft /\ draft' = {} /\ rounds' = TRUE
      /\ UNCHANGED <<day, phase, chains, moneyed, batch, shut_down_flag>>
  BY DEF Publish, clock
<1>2. TypeOK'
  <2>1. 1 \in 1 .. Len(Expiries) + 1
    BY Places
  <2> QED BY <1>1, <2>1 DEF TypeOK, ClockTypeOK
<1>3. ChainsInv' /\ ScannedInv'
  BY <1>1 DEF ChainsInv, ScannedInv
<1>4. PassedInv'
  BY <1>1 DEF PassedInv, Passed
<1>5. Served'
  <2> SUFFICES ASSUME batch, NEW i \in Index, chains[i] # NoChain
               PROVE  moneyed[i] = DOMAIN chains[i] /\ Legible(draft, i)
    BY <1>1 DEF Served, Legible
  <2>1. i < next
    BY <1>1, Places DEF TypeOK
  <2> QED BY <2>1, <1>1 DEF ScannedInv
<1> QED BY <1>2, <1>3, <1>4, <1>5

\* An expiry passes with the evening, when a round has computed its moneyness,
\* and none that has not passed then passes before the next.
LEMMA TimeKeeps ==
    ASSUME ReadersInv, Time
    PROVE  ReadersInv'
<1> USE DEF ReadersInv
<1>1. /\ UNCHANGED <<thread, next, chains, moneyed, draft, profitable_spreads, batch, rounds,
                     shut_down_flag>>
      /\ day \in Nat /\ LastDay \in Nat /\ day <= LastDay
  BY ClockAssumption DEF Time, TypeOK, ClockTypeOK
<1>2. ClockTypeOK'
  BY <1>1 DEF Time, Advance, NextMorning, TypeOK, ClockTypeOK, Phases
<1>3. TypeOK' /\ ChainsInv' /\ ScannedInv' /\ Served'
  BY <1>1, <1>2 DEF TypeOK, ChainsInv, ScannedInv, Legible, Served
<1>4. PassedInv'
  <2>1. CASE phase = "closed" /\ phase' = "evening"
    <3>1. thread # "scanning" /\ (batch => rounds)
      BY <2>1 DEF Time, Advance, NextMorning
    <3> QED BY <1>1, <3>1 DEF PassedInv, Served
  <2>2. CASE ~(phase = "closed" /\ phase' = "evening")
    <3>1. \A i \in Index : Passed(i)' => Passed(i)
      <4>1. CASE phase = "evening"
        <5>1. day' = day + 1 /\ phase' = "early"
          BY <4>1 DEF Time, Advance, NextMorning
        <5> QED BY <4>1, <5>1, <1>1, Places DEF Passed
      <4>2. CASE phase # "evening"
        <5>1. day' = day /\ phase' # "evening"
          BY <4>2, <2>2 DEF Time, Advance
        <5> QED BY <5>1 DEF Passed
      <4> QED BY <4>1, <4>2
    <3> QED BY <1>1, <3>1 DEF PassedInv
  <2> QED BY <2>1, <2>2
<1> QED BY <1>3, <1>4

LEMMA ReadersAlways == Spec => []ReadersInv
<1>1. ASSUME Init PROVE ReadersInv
  <2>1. 1 \in 1 .. Len(Expiries) + 1 /\ 0 \in 0 .. LastDay
    BY Places, ClockAssumption
  <2>2. moneyed \in [Index -> SUBSET Options] /\ \A i \in Index : chains[i] = NoChain
    BY <1>1 DEF Init
  <2>3. TypeOK
    BY <1>1, <2>1, <2>2 DEF Init, TypeOK, ClockTypeOK
  <2> QED BY <1>1, <2>2, <2>3 DEF Init, ReadersInv, ChainsInv, PassedInv, ScannedInv, Served
<1>2. ASSUME ReadersInv, [Next]_vars PROVE ReadersInv'
  <2>1. CASE UNCHANGED vars \/ ShutDown
    <3>1. /\ UNCHANGED <<day, phase, thread, next, chains, moneyed, draft, profitable_spreads,
                         batch, rounds>>
          /\ shut_down_flag' \in BOOLEAN
      BY <1>2, <2>1 DEF vars, ShutDown, clock, ReadersInv, TypeOK
    <3>2. TypeOK'
      BY <1>2, <3>1 DEF ReadersInv, TypeOK, ClockTypeOK
    <3>3. ChainsInv' /\ ScannedInv' /\ Served'
      BY <1>2, <3>1 DEF ReadersInv, ChainsInv, ScannedInv, Legible, Served
    <3>4. PassedInv'
      BY <1>2, <3>1 DEF ReadersInv, PassedInv, Passed
    <3> QED BY <3>2, <3>3, <3>4 DEF ReadersInv
  <2>2. CASE Start \/ Stop
    BY <1>2, <2>2, StartOpenKeeps, StartClosedKeeps, FailsKeep DEF Start
  <2>3. CASE Round
    BY <1>2, <2>3, WakeKeeps, SkipKeeps, ScanKeeps, PublishKeeps, FailsKeep DEF Round
  <2>4. CASE Time
    BY <1>2, <2>4, TimeKeeps
  <2> QED BY <1>2, <2>1, <2>2, <2>3, <2>4 DEF Next
<1> QED BY <1>1, <1>2, PTL DEF Spec

\* The chains hold the options of the expiries, and every spread that the screener
\* drafts or publishes is one of four legs for one of the expiries
\* (screener.py:106-197).
THEOREM TypeCorrect == Spec => []TypeOK
<1>1. ReadersInv => TypeOK
  BY DEF ReadersInv
<1> QED BY <1>1, ReadersAlways, PTL

\* Between rounds a screener that was started in a session finds a moneyness for every
\* option and a price for every published leg, whatever chains and updates Yahoo
\* brought: get_profitable_spread_json always answers, get_term_structure and get_gex
\* as long as no expiry has passed, and from then on never again.
THEOREM ReadersFind == Spec => []ReadersServed
<1>1. ReadersInv => ReadersServed
  <2> SUFFICES ASSUME Served, thread = "waiting", rounds, batch
               PROVE  /\ get_profitable_spread_json
                      /\ \A i \in option_chains : get_atm_iv(i)
                      /\ get_term_structure <=> \A i \in option_chains : ~Passed(i)
                      /\ get_gex <=> \A i \in option_chains : ~Passed(i)
    BY DEF ReadersInv, ReadersServed
  <2>1. \A i \in option_chains : moneyed[i] = DOMAIN chains[i] /\ Legible(profitable_spreads, i)
    BY DEF Served, option_chains
  <2>2. \A i \in option_chains : get_atm_iv(i)
    BY <2>1 DEF get_atm_iv
  <2>3. get_profitable_spread_json
    BY <2>1 DEF get_profitable_spread_json, Legible
  <2>4. /\ get_term_structure <=> \A i \in option_chains : ~Passed(i)
        /\ get_gex <=> \A i \in option_chains : ~Passed(i)
    BY <2>2 DEF get_term_structure, get_gex, get_dte
  <2> QED BY <2>2, <2>3, <2>4
<1> QED BY <1>1, ReadersAlways, PTL

\* Every spread that is drafted or published can be lived with.
Livable == \A sp \in draft \cup profitable_spreads : Bounded(sp)

\* Where the long target is the lower one, as IC_LONG_STRIKE_DELTA_TARGET is, a spread
\* that is published loses at no price more than both its wings less the premium.
THEOREM LossesBounded ==
    ASSUME LongTarget < ShortTarget
    PROVE  Spec => []LossBounded
<1>1. Init => Livable
  BY DEF Init, Livable
<1>2. ReadersInv /\ Livable /\ [Next]_vars => Livable'
  <2> SUFFICES ASSUME ReadersInv, Livable, [Next]_vars
               PROVE  \A sp \in draft' \cup profitable_spreads' : Bounded(sp)
    BY DEF Livable
  <2>1. CASE Scan
    <3>1. next \in Index /\ ChainTyped(chains[next]) /\ Quoted(chains[next])
      BY <2>1, Places DEF Scan, Computable, Scanning, ReadersInv, TypeOK, ChainsInv
    <3>2. CASE UNCHANGED draft
      BY <2>1, <3>2 DEF Scan, Livable
    <3>3. ASSUME NEW smile \in Smiles, NEW legs \in construct_iron_condor(chains[next], smile),
                 \A i \in DOMAIN legs : legs[i].price # NoQuote,
                 draft' = draft \cup {[expiry |-> Expiries[next], legs |-> legs,
                                       premium |-> get_premium(legs)]}
          PROVE  \A sp \in draft' \cup profitable_spreads' : Bounded(sp)
      <4>1. Bounded([expiry |-> Expiries[next], legs |-> legs, premium |-> get_premium(legs)])
        BY <3>1, <3>3, CondorBounded
      <4> QED BY <2>1, <3>3, <4>1 DEF Scan, Livable
    <3> QED BY <2>1, <3>2, <3>3 DEF Scan
  <2>2. CASE ~Scan
    <3>1. draft' \cup profitable_spreads' \subseteq draft \cup profitable_spreads
      BY <2>2 DEF Next, Start, Round, StartOpen, StartClosed, StartFails, Wake, WakeFails,
                        Skip, ScanFails, Publish, Stop, ShutDown, Time, Dies, vars
    <3> QED BY <3>1 DEF Livable
  <2> QED BY <2>1, <2>2
<1>3. Livable => LossBounded
  BY DEF Livable, LossBounded
<1> QED BY <1>1, <1>2, <1>3, ReadersAlways, PTL DEF Spec
=============================================================================
