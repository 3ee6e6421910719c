-------------------------- MODULE DeltaHedge_proofs --------------------------
(***************************************************************************)
(* The turnover of the hedge, proved for any options, stocks, deltas and    *)
(* orders and any number of events. The argument is a potential: what the   *)
(* hedge and users have traded, plus what the hedge would trade if it went  *)
(* by what main_loop and the reader have written, plus by how much the      *)
(* greeks lag behind. It grows by no more than the exposure moves without   *)
(* the hedge (an order of a user counts twice: in what was traded and in    *)
(* what it moves), a hedge order moves it from the second part to the       *)
(* first, and a late report at most trebles it.                             *)
(***************************************************************************)
EXTENDS DeltaHedge, DataLemmas

-----------------------------------------------------------------------------
(* Arithmetic.                                                               *)

\* A sign times a number is the number or its opposite.
LEMMA SignTimes ==
    \A s, n \in Int : Sign(s) * n = IF s < 0 THEN -n ELSE n
<1> SUFFICES ASSUME NEW s \in Int, NEW n \in Int
             PROVE  Sign(s) * n = IF s < 0 THEN -n ELSE n
  OBVIOUS
<1>1. CASE s < 0
  BY <1>1 DEF Sign
<1>2. CASE ~(s < 0)
  BY <1>2 DEF Sign
<1> QED BY <1>1, <1>2

LEMMA AbsNat == \A n \in Int : Abs(n) \in Nat /\ -Abs(n) <= n /\ n <= Abs(n)
BY DEF Abs

\* What is d away has an absolute value that is no more than d away.
LEMMA AbsMoves ==
    \A a, b, d \in Int : -d <= b - a /\ b - a <= d => Abs(b) <= Abs(a) + d
BY DEF Abs

LEMMA AbsApart ==
    \A n, a, b, d \in Int :
        -d <= b - a /\ b - a <= d
            => Abs(n - b) <= Abs(n - a) + d /\ Abs(b - n) <= Abs(a - n) + d
BY DEF Abs

LEMMA AbsSum == \A a, b \in Int : Abs(a + b) <= Abs(a) + Abs(b)
BY DEF Abs

LEMMA SignAbs == \A n \in Int : Sign(n) * Abs(n) = n
BY SignTimes, AbsNat DEF Abs

\* A bound that is a multiple stays one when both sides grow.
LEMMA BoundGrows ==
    \A a, b, k, d \in Nat : k >= 1 /\ a <= b * k => a + d <= (b + d) * k
<1> SUFFICES ASSUME NEW a \in Nat, NEW b \in Nat, NEW k \in Nat, NEW d \in Nat,
                    k >= 1, a <= b * k
             PROVE  a + d <= (b + d) * k
  OBVIOUS
<1>1. (b + d) * k = b * k + d * k
  OBVIOUS
<1>2. d <= d * k
  <2>1. d * k = d * (k - 1) + d
    OBVIOUS
  <2>2. d * (k - 1) \in Nat
    <3>1. k - 1 \in Nat
      OBVIOUS
    <3> QED BY <3>1
  <2> QED BY <2>1, <2>2
<1>3. b * k \in Nat /\ d * k \in Nat
  OBVIOUS
<1> QED BY <1>1, <1>2, <1>3

LEMMA BoundTrebles ==
    \A a, b, k \in Nat : a <= b * k => 3 * a <= b * (3 * k)
<1> SUFFICES ASSUME NEW a \in Nat, NEW b \in Nat, NEW k \in Nat, a <= b * k
             PROVE  3 * a <= b * (3 * k)
  OBVIOUS
<1>1. b * (3 * k) = 3 * (b * k) /\ b * k \in Nat
  OBVIOUS
<1> QED BY <1>1

\* The powers of three, up to n.
PowersUpTo(g, n) ==
    /\ g \in [0 .. n -> Nat]
    /\ g[0] = 1
    /\ \A i \in 1 .. n : g[i] = 3 * g[i - 1]

LEMMA PowersExist == \A n \in Nat : \E g : PowersUpTo(g, n)
<1> DEFINE T == {n \in Nat : \E g : PowersUpTo(g, n)}
<1>1. 0 \in T
  <2>1. PowersUpTo([i \in 0 .. 0 |-> 1], 0)
    BY DEF PowersUpTo
  <2> QED BY <2>1
<1>2. ASSUME NEW n \in Nat, n \in T PROVE n + 1 \in T
  <2>1. PICK g : PowersUpTo(g, n)
    BY <1>2
  <2> DEFINE h == [i \in 0 .. n + 1 |-> IF i = n + 1 THEN 3 * g[n] ELSE g[i]]
  <2>2. g[n] \in Nat /\ \A i \in 0 .. n : g[i] \in Nat
    BY <2>1 DEF PowersUpTo
  <2>3. h \in [0 .. n + 1 -> Nat] /\ h[0] = 1
    BY <2>1, <2>2 DEF PowersUpTo
  <2>4. ASSUME NEW i \in 1 .. n + 1 PROVE h[i] = 3 * h[i - 1]
    <3>1. CASE i = n + 1
      BY <3>1
    <3>2. CASE i # n + 1
      <4>1. i \in 1 .. n /\ i - 1 \in 0 .. n /\ i - 1 # n + 1
        BY <3>2
      <4> QED BY <4>1, <2>1, <3>2 DEF PowersUpTo
    <3> QED BY <3>1, <3>2
  <2>5. PowersUpTo(h, n + 1)
    BY <2>3, <2>4 DEF PowersUpTo
  <2> QED BY <2>5
<1>3. Nat \subseteq T
  <2> HIDE DEF T
  <2> QED BY <1>1, <1>2, NatInductionSet
<1> QED BY <1>3

LEMMA PowersUnique ==
    \A m, n \in Nat : \A g, h :
        PowersUpTo(g, m) /\ PowersUpTo(h, n) /\ m <= n => g[m] = h[m]
<1> SUFFICES ASSUME NEW m \in Nat, NEW n \in Nat, NEW g, NEW h,
                    PowersUpTo(g, m), PowersUpTo(h, n), m <= n
             PROVE  g[m] = h[m]
  OBVIOUS
<1> DEFINE T == {i \in Nat : i <= m => g[i] = h[i]}
<1>1. 0 \in T
  BY DEF PowersUpTo
<1>2. ASSUME NEW i \in Nat, i \in T PROVE i + 1 \in T
  <2> SUFFICES ASSUME i + 1 <= m PROVE g[i + 1] = h[i + 1]
    OBVIOUS
  <2> DEFINE j == i + 1
  <2>1. j \in 1 .. m /\ j \in 1 .. n /\ j - 1 = i /\ g[i] = h[i]
    BY <1>2
  <2> HIDE DEF j
  <2>2. g[j] = 3 * g[i] /\ h[j] = 3 * h[i]
    BY <2>1 DEF PowersUpTo
  <2> QED BY <2>1, <2>2 DEF j
<1>3. Nat \subseteq T
  <2> HIDE DEF T
  <2> QED BY <1>1, <1>2, NatInductionSet
<1> QED BY <1>3

\* PowerOfThree is what its definition says.
LEMMA Powers ==
    /\ PowerOfThree[0] = 1
    /\ \A n \in Nat : /\ PowerOfThree[n] \in Nat /\ PowerOfThree[n] >= 1
                      /\ PowerOfThree[n + 1] = 3 * PowerOfThree[n]
<1> DEFINE rec(f) == [n \in Nat |-> IF n = 0 THEN 1 ELSE 3 * f[n - 1]]
           upTo(n) == CHOOSE g : PowersUpTo(g, n)
           p == [n \in Nat |-> upTo(n)[n]]
<1>1. \A n \in Nat : PowersUpTo(upTo(n), n)
  BY PowersExist
<1>2. p[0] = 1
  BY <1>1 DEF PowersUpTo
<1>3. ASSUME NEW n \in Nat, n # 0 PROVE p[n] = 3 * p[n - 1]
  <2>1. n - 1 \in Nat /\ n - 1 <= n /\ n \in 1 .. n
    BY <1>3
  <2>2. PowersUpTo(upTo(n), n) /\ PowersUpTo(upTo(n - 1), n - 1)
    BY <1>1, <2>1
  <2> HIDE DEF upTo
  <2>3. upTo(n)[n] = 3 * upTo(n)[n - 1]
    BY <2>1, <2>2 DEF PowersUpTo
  <2>4. upTo(n - 1)[n - 1] = upTo(n)[n - 1]
    BY <2>1, <2>2, PowersUnique
  <2> QED BY <2>1, <2>3, <2>4
<1> HIDE DEF upTo
<1>4. p = rec(p)
  <2> DEFINE r == rec(p)
  <2>1. \A n \in Nat : p[n] = r[n]
    <3> HIDE DEF p
    <3> QED BY <1>2, <1>3
  <2>2. p = [n \in Nat |-> p[n]]
    OBVIOUS
  <2> HIDE DEF p
  <2> QED BY <2>1, <2>2
<1>5. PowerOfThree = rec(PowerOfThree)
  <2> HIDE DEF p
  <2>1. PowerOfThree = CHOOSE f : f = rec(f)
    BY DEF PowerOfThree
  <2> HIDE DEF rec
  <2> QED BY <1>4, <2>1
<1>6. PowerOfThree[0] = 1
  BY <1>5
<1>7. \A n \in Nat : PowerOfThree[n + 1] = 3 * PowerOfThree[n]
  <2> SUFFICES ASSUME NEW n \in Nat
               PROVE  PowerOfThree[n + 1] = 3 * PowerOfThree[n]
    OBVIOUS
  <2> DEFINE m == n + 1
  <2>1. m \in Nat /\ m # 0 /\ m - 1 = n
    OBVIOUS
  <2> HIDE DEF m
  <2>2. PowerOfThree[m] = 3 * PowerOfThree[m - 1]
    BY <2>1, <1>5
  <2> QED BY <2>1, <2>2 DEF m
<1> DEFINE T == {n \in Nat : PowerOfThree[n] \in Nat /\ PowerOfThree[n] >= 1}
<1>8. Nat \subseteq T
  <2>1. 0 \in T
    BY <1>6
  <2>2. \A n \in Nat : n \in T => n + 1 \in T
    BY <1>7
  <2> HIDE DEF T
  <2> QED BY <2>1, <2>2, NatInductionSet
<1> QED BY <1>6, <1>7, <1>8

-----------------------------------------------------------------------------
(* Stock orders, and the types.                                              *)

\* How the broker's order, what is left of it as far as TWS has said, and the
\* hedge thread that waits for its own go together.
OrderKept(o) ==
    /\ life[o] = "unused" => size[o] = 0 /\ filled[o] = 0 /\ remaining[o] = Absent
    /\ life[o] = "sent" => filled[o] = 0 /\ remaining[o] = None
    /\ life[o] = "rejected" => filled[o] = 0 /\ remaining[o] \in {None, Abs(size[o])}
    /\ life[o] = "working" => remaining[o] # Absent
    /\ remaining[o] \notin {None, Absent}
           => Left(o) <= remaining[o] /\ remaining[o] <= Abs(size[o])
OrdersInv == \A o \in Orders : OrderKept(o)

\* The numbers of a contract, and of an order.
LEMMA ContractTypes ==
    ASSUME HedgeAssumption, TypeOK
    PROVE  /\ Stocks \subseteq Contracts /\ Options \subseteq Contracts
           /\ \A o \in Orders : StockOf[o] \in Stocks
           /\ \A c \in Options : c \in Contracts /\ c \notin Stocks
           /\ \A c \in Contracts : held[c] \in Int
           /\ \A c \in Options : unit[c] \in Int
           /\ \A d \in UnitDeltas : d \in Int
BY DEF HedgeAssumption, Contracts, Stocks, TypeOK

\* Orders are finitely many, and so are their stocks.
LEMMA StocksFinite == IsFiniteSet(Stocks)
<1> DEFINE k == [o \in Orders |-> StockOf[o]]
<1>1. k \in Surjection(Orders, Stocks)
  BY DEF Surjection, Stocks
<1>2. IsFiniteSet(Orders)
  BY HedgeAssumption DEF HedgeAssumption
<1> QED BY <1>1, <1>2, FS_Surjection

LEMMA LeftNat == TypeOK => \A o \in Orders : Left(o) \in Nat /\ Left(o) <= Abs(size[o])
BY AbsNat DEF TypeOK, Left

\* The sums are integers.
LEMMA NetIsInt ==
    ASSUME TypeOK, HedgeAssumption, GreeksKnown
    PROVE  get_net_greeks \in Int
<1> DEFINE f == [c \in Held |-> delta[c]]
<1>1. IsFiniteSet(Held)
  BY FS_Subset DEF HedgeAssumption, Held
<1>2. f \in [Held -> Int]
  BY DEF GreeksKnown, TypeOK, Held
<1>3. SumFunction(f) \in Int
  <2> HIDE DEF f
  <2> QED BY <1>1, <1>2, SumInt
<1> DEFINE g == [x \in StocksKnown |-> position[x]]
<1>4. IsFiniteSet(StocksKnown)
  BY StocksFinite, FS_Subset DEF StocksKnown
<1>5. g \in [StocksKnown -> Int]
  BY ContractTypes DEF StocksKnown, Known, TypeOK
<1>6. SumFunction(g) \in Int
  <2> HIDE DEF g
  <2> QED BY <1>4, <1>5, SumInt
<1> QED BY <1>3, <1>6 DEF get_net_greeks

LEMMA OrderDeltaInt ==
    ASSUME TypeOK, HedgeAssumption
    PROVE  get_order_delta \in Int
<1> DEFINE known == {o \in Entries : remaining[o] # None}
           f == [o \in known |-> Sign(size[o]) * remaining[o]]
<1>1. IsFiniteSet(known)
  BY FS_Subset DEF HedgeAssumption, Entries
<1>2. f \in [known -> Int]
  <2>1. \A o \in known : size[o] \in Int /\ remaining[o] \in Int
    BY DEF Entries, TypeOK
  <2>2. \A o \in known : Sign(size[o]) * remaining[o] \in Int
    BY <2>1, SignTimes
  <2> HIDE DEF known
  <2> QED BY <2>2
<1>3. SumFunction(f) \in Int
  <2> HIDE DEF f, known
  <2> QED BY <1>1, <1>2, SumInt
<1> QED BY <1>3 DEF get_order_delta

LEMMA MisreadingNat ==
    ASSUME TypeOK, HedgeAssumption, NEW new \in [Options -> Int \cup {None}]
    PROVE  Misreading(new) \in Nat
<1> DEFINE f == [c \in Options |-> IF new[c] = delta[c] THEN 0
                                  ELSE Abs(Greeks(new[c]) - held[c] * unit[c])]
           z == [c \in Options |-> 0]
<1>1. f \in [Options -> Nat]
  <2> SUFFICES ASSUME NEW c \in Options
               PROVE  Abs(Greeks(new[c]) - held[c] * unit[c]) \in Nat
    OBVIOUS
  <2>1. held[c] \in Int /\ unit[c] \in Int /\ Greeks(new[c]) \in Int
    <3>1. held[c] \in Int /\ unit[c] \in Int
      BY DEF TypeOK, HedgeAssumption, Contracts
    <3>2. new[c] \in Int \cup {None}
      OBVIOUS
    <3> QED BY <3>1, <3>2 DEF Greeks
  <2>2. held[c] * unit[c] \in Int
    BY <2>1
  <2>3. Greeks(new[c]) - held[c] * unit[c] \in Int
    BY <2>1, <2>2
  <2> QED BY <2>3, AbsNat
<1>2. IsFiniteSet(Options)
  BY DEF HedgeAssumption
<1>3. f \in [Options -> Int] /\ z \in [Options -> Int] /\ \A c \in Options : z[c] <= f[c]
  <2> HIDE DEF f
  <2> QED BY <1>1
<1>4. SumFunction(z) <= SumFunction(f) /\ SumFunction(f) \in Int
  <2> HIDE DEF f, z
  <2> QED BY <1>2, <1>3, SumBound, SumInt
<1>5. SumFunction(z) = 0
  <2>1. \A c \in Options : z[c] = 0
    OBVIOUS
  <2> HIDE DEF f, z
  <2> QED BY <2>1, <1>2, <1>3, SumZero
<1>6. Misreading(new) = SumFunction(f)
  BY DEF Misreading
<1> HIDE DEF f, z
<1> QED BY <1>4, <1>5, <1>6

\* The names of what Next consists of.
LEMMA Actions ==
    ASSUME Next
    PROVE  \/ \E c \in Options, n \in {-1, 1} : Trade(c, n)
           \/ \E c \in Options, d \in UnitDeltas : Move(c, d)
           \/ \E c \in Options : Expire(c)
           \/ \E o \in Orders : \/ Fill(o) \/ Cancel(o) \/ openOrder(o) \/ Reject(o)
                                \/ orderStatus(o) \/ error(o)
           \/ \E o \in UserOrders, n \in {-1, 1} : UserOrder(o, n)
           \/ \E c \in Contracts : updatePortfolio(c)
           \/ MainLoop \/ Hedge
BY DEF Next, Environment, Reader

LEMMA EventTypes ==
    ASSUME TypeOK
    PROVE  /\ \A e \in Events : Happens(e) => happened' \in [Events -> Nat]
           /\ InTime \/ Overtakes => happened' \in [Events -> Nat]
<1>1. ASSUME NEW e \in Events, Happens(e) PROVE happened' \in [Events -> Nat]
  BY <1>1 DEF TypeOK, Happens
<1>2. "late" \in Events
  BY DEF Events
<1> QED BY <1>1, <1>2 DEF InTime, Overtakes, TypeOK

\* Types, and orders, step by step.
LEMMA TypeStep ==
    ASSUME HedgeAssumption, TypeOK, OrdersInv, Next
    PROVE  TypeOK'
<1> USE DEF market, orders, account, mainLoop, engine
<1>0. /\ Stocks \subseteq Contracts /\ Options \subseteq Contracts
      /\ UserOrders \subseteq Orders
      /\ \A o \in Orders : StockOf[o] \in Stocks
      /\ \A c \in Contracts : held[c] \in Int
      /\ \A c \in Options : unit[c] \in Int
      /\ \A d \in UnitDeltas : d \in Int
  BY ContractTypes DEF HedgeAssumption
<1>1. ASSUME NEW c \in Options, NEW n \in {-1, 1}, Trade(c, n) PROVE TypeOK'
  <2>1. happened' \in [Events -> Nat]
    BY <1>1, EventTypes DEF Trade, Events
  <2>2. shock' \in Nat
    <3>1. n \in Int /\ unit[c] \in Int
      BY <1>0
    <3>2. n * unit[c] \in Int
      BY <3>1
    <3> QED BY <3>2, <1>1, AbsNat DEF Trade, TypeOK
  <2>3. held' \in [Contracts -> Int]
    BY <1>0, <1>1 DEF Trade, TypeOK
  <2> QED BY <2>1, <2>2, <2>3, <1>1 DEF Trade, TypeOK
<1>2. ASSUME NEW c \in Options, NEW d \in UnitDeltas, Move(c, d) PROVE TypeOK'
  <2>1. happened' \in [Events -> Nat]
    BY <1>2, EventTypes DEF Move, Events
  <2>2. shock' \in Nat
    <3>1. held[c] \in Int /\ d - unit[c] \in Int
      BY <1>0
    <3>2. held[c] * (d - unit[c]) \in Int
      BY <3>1
    <3> QED BY <3>2, <1>2, AbsNat DEF Move, TypeOK
  <2>3. unit' \in [Options -> UnitDeltas]
    BY <1>2 DEF Move, TypeOK
  <2> QED BY <2>1, <2>2, <2>3, <1>2 DEF Move, TypeOK
<1>3. ASSUME NEW c \in Options, Expire(c) PROVE TypeOK'
  <2>1. happened' \in [Events -> Nat]
    BY <1>3, EventTypes DEF Expire, Events
  <2>2. shock' \in Nat
    <3>1. held[c] \in Int /\ unit[c] \in Int
      BY <1>0
    <3>2. held[c] * unit[c] \in Int
      BY <3>1
    <3> QED BY <3>2, <1>3, AbsNat DEF Expire, TypeOK
  <2>3. held' \in [Contracts -> Int]
    <3>1. held \in [Contracts -> Int] /\ held' = [held EXCEPT ![c] = 0]
      BY <1>3 DEF Expire, TypeOK
    <3>2. 0 \in Int
      OBVIOUS
    <3> QED BY <3>1, <3>2, Zenon
  <2>4. expired' \subseteq Options
    BY <1>3 DEF Expire, TypeOK
  <2> QED BY <2>1, <2>2, <2>3, <2>4, <1>3 DEF Expire, TypeOK
<1>4. ASSUME NEW o \in Orders, Fill(o) PROVE TypeOK'
  <2>1. PICK n \in {1, Left(o)} :
            /\ filled' = [filled EXCEPT ![o] = @ + n]
            /\ held' = [held EXCEPT ![StockOf[o]] = @ + Sign(size[o]) * n]
    BY <1>4 DEF Fill
  <2>2. Left(o) \in Nat /\ Left(o) > 0
    BY <1>4, LeftNat DEF Fill
  <2>3. n \in Nat /\ n <= Left(o)
    BY <2>2
  <2>4. Sign(size[o]) * n \in Int
    <3>1. size[o] \in Int /\ n \in Int
      BY <2>3 DEF TypeOK
    <3> QED BY <3>1, SignTimes
  <2>5. held' \in [Contracts -> Int]
    BY <2>1, <2>4, <1>0 DEF TypeOK
  <2>6. filled' \in [Orders -> Nat] /\ \A p \in Orders : filled'[p] <= Abs(size[p])
    <3>1. filled[o] + n <= Abs(size[o])
      BY <2>2, <2>3, AbsNat DEF Left, TypeOK
    <3> QED BY <3>1, <2>1, <2>3 DEF TypeOK
  <2> QED BY <2>5, <2>6, <1>4 DEF Fill, TypeOK
<1>5. ASSUME NEW o \in Orders, Cancel(o) PROVE TypeOK'
  <2>1. happened' \in [Events -> Nat]
    BY <1>5, EventTypes DEF Cancel, Events
  <2>2. shock' \in Nat
    BY <1>5, LeftNat DEF Cancel, TypeOK
  <2> QED BY <2>1, <2>2, <1>5 DEF Cancel, TypeOK
<1>6. ASSUME NEW o \in Orders, openOrder(o) PROVE TypeOK'
  BY <1>6 DEF openOrder, TypeOK
<1>7. ASSUME NEW o \in Orders, Reject(o) PROVE TypeOK'
  <2>1. happened' \in [Events -> Nat]
    BY <1>7, EventTypes DEF Reject, Events
  <2>2. shock' \in Nat
    BY <1>7, LeftNat DEF Reject, TypeOK
  <2> QED BY <2>1, <2>2, <1>7 DEF Reject, TypeOK
<1>8. ASSUME NEW o \in Orders, orderStatus(o) PROVE TypeOK'
  <2>1. happened' \in [Events -> Nat]
    BY <1>8, EventTypes DEF orderStatus
  <2>2. remaining' \in [Orders -> Nat \cup {None, Absent}]
    BY <1>8, LeftNat DEF orderStatus, TypeOK
  <2> QED BY <2>1, <2>2, <1>8 DEF orderStatus, TypeOK
<1>9. ASSUME NEW o \in Orders, error(o) PROVE TypeOK'
  <2>1. happened' \in [Events -> Nat]
    BY <1>9, EventTypes DEF error
  <2>2. remaining' \in [Orders -> Nat \cup {None, Absent}]
    BY <1>9 DEF error, TypeOK
  <2> QED BY <2>1, <2>2, <1>9 DEF error, TypeOK
<1>10. ASSUME NEW c \in Contracts, updatePortfolio(c) PROVE TypeOK'
  <2>1. happened' \in [Events -> Nat]
    BY <1>10, EventTypes DEF updatePortfolio
  <2>2. position' \in [Contracts -> Int \cup {Absent}]
    BY <1>10 DEF updatePortfolio, TypeOK
  <2> QED BY <2>1, <2>2, <1>10 DEF updatePortfolio, TypeOK
<1>11. CASE get_option_expiries
  BY <1>11 DEF get_option_expiries, TypeOK, Held
<1>12. CASE compute_option_position_greeks
  <2>1. delta' \in [Options -> Int \cup {None}]
    <3>1. ASSUME NEW c \in Options, Known(c) PROVE position[c] * unit[c] \in Int
      <4>1. position[c] \in Int /\ unit[c] \in Int
        BY <3>1, <1>0 DEF TypeOK, Known
      <4> QED BY <4>1
    <3> QED BY <3>1, <1>12 DEF compute_option_position_greeks
  <2>2. misread' \in Nat
    <3>1. misread' = misread + Misreading(delta')
      BY <1>12 DEF compute_option_position_greeks
    <3>2. Misreading(delta') \in Nat
      BY <2>1, MisreadingNat
    <3> QED BY <3>1, <3>2 DEF TypeOK
  <2> QED BY <2>1, <2>2, <1>12 DEF compute_option_position_greeks, TypeOK
<1>13. CASE ComputeRaises
  <2>1. happened' \in [Events -> Nat]
    BY <1>13, EventTypes DEF ComputeRaises, Events, TypeOK
  <2> QED BY <2>1, <1>13 DEF ComputeRaises, TypeOK
<1>14. CASE get_position_greeks
  <2>1. happened' \in [Events -> Nat]
    BY <1>14, EventTypes DEF get_position_greeks, Events, TypeOK
  <2>2. seen' \in Int
    BY <1>14, NetIsInt DEF get_position_greeks
  <2> QED BY <2>1, <2>2, <1>14 DEF get_position_greeks, TypeOK
<1>15. CASE NoHedge
  BY <1>15 DEF NoHedge, TypeOK
<1>16. CASE hedge
  <2>1. happened' \in [Events -> Nat]
    BY <1>16, EventTypes DEF hedge, Events, TypeOK
  <2>2. CASE UNCHANGED <<size, life, remaining>>
    BY <2>1, <2>2, <1>16 DEF hedge, TypeOK
  <2>3. CASE ~UNCHANGED <<size, life, remaining>>
    <3> DEFINE net == seen + get_order_delta
    <3>1. PICK o \in Orders : /\ life[o] = "unused"
                              /\ size' = [size EXCEPT ![o] = -net]
                              /\ life' = [life EXCEPT ![o] = "sent"]
                              /\ remaining' = [remaining EXCEPT ![o] = None]
                              /\ hedger' = "placing"
      BY <2>3, <1>16 DEF hedge, HedgeOrders
    <3>2. net \in Int
      BY OrderDeltaInt DEF TypeOK
    <3> HIDE DEF net
    <3>3. -net \in Int /\ Abs(-net) \in Nat /\ filled[o] = 0
      BY <3>1, <3>2, AbsNat DEF OrdersInv, OrderKept
    <3>4. size' \in [Orders -> Int]
          /\ \A p \in Orders : filled[p] <= Abs(size'[p])
      BY <3>1, <3>3 DEF TypeOK
    <3>5. seen' = 0 /\ UNCHANGED <<market, filled, account, mainLoop, shock>>
      BY <1>16 DEF hedge
    <3> QED BY <3>1, <3>4, <3>5, <2>1 DEF TypeOK
  <2> QED BY <2>2, <2>3
<1>17. CASE Placed
  BY <1>17 DEF Placed, TypeOK
<1>18. ASSUME NEW o \in UserOrders, NEW n \in {-1, 1}, UserOrder(o, n) PROVE TypeOK'
  <2>1. happened' \in [Events -> Nat]
    BY <1>18, EventTypes DEF UserOrder, Events
  <2>2. o \in Orders /\ n \in Int /\ Abs(n) \in Nat
    BY <1>0, AbsNat
  <2>3. /\ size' = [size EXCEPT ![o] = n] /\ life' = [life EXCEPT ![o] = "sent"]
        /\ remaining' = [remaining EXCEPT ![o] = None]
        /\ shock' = shock + 2 * Abs(n)
        /\ UNCHANGED <<market, filled, account, mainLoop, engine>>
        /\ life[o] = "unused"
    BY <1>18 DEF UserOrder
  <2>4. filled[o] = 0
    BY <2>2, <2>3 DEF OrdersInv, OrderKept
  <2>5. size' \in [Orders -> Int] /\ \A p \in Orders : filled[p] <= Abs(size'[p])
    BY <2>2, <2>3, <2>4 DEF TypeOK
  <2>6. shock' \in Nat
    BY <2>2, <2>3 DEF TypeOK
  <2> QED BY <2>1, <2>3, <2>5, <2>6 DEF TypeOK
<1> QED
  BY <1>1, <1>2, <1>3, <1>4, <1>5, <1>6, <1>7, <1>8, <1>9, <1>10, <1>11, <1>12,
     <1>13, <1>14, <1>15, <1>16, <1>17, <1>18, Actions DEF MainLoop, Hedge

LEMMA OrdersStep ==
    ASSUME HedgeAssumption, TypeOK, OrdersInv, Next
    PROVE  OrdersInv'
<1> SUFFICES ASSUME NEW p \in Orders
             PROVE  OrderKept(p)'
  BY DEF OrdersInv
<1> USE DEF market, orders, account, mainLoop, engine
<1>0. OrderKept(p) /\ Left(p) \in Nat /\ Left(p) <= Abs(size[p])
  BY LeftNat DEF OrdersInv
<1> DEFINE kept == UNCHANGED <<size[p], filled[p], life[p], remaining[p]>>
<1>f. ASSUME kept
      PROVE  OrderKept(p)'
  BY <1>f, <1>0 DEF OrderKept, Left
<1>1. ASSUME NEW c \in Options, NEW n \in {-1, 1}, Trade(c, n) PROVE OrderKept(p)'
  BY <1>1, <1>f DEF Trade
<1>2. ASSUME NEW c \in Options, NEW d \in UnitDeltas, Move(c, d) PROVE OrderKept(p)'
  BY <1>2, <1>f DEF Move
<1>3. ASSUME NEW c \in Options, Expire(c) PROVE OrderKept(p)'
  BY <1>3, <1>f DEF Expire
<1>4. ASSUME NEW o \in Orders, Fill(o) PROVE OrderKept(p)'
  <2>1. CASE o # p
    <3>1. kept
      BY <1>4, <2>1 DEF Fill, TypeOK
    <3> QED BY <3>1, <1>f
  <2>2. CASE o = p
    <3>1. PICK n \in {1, Left(o)} : filled' = [filled EXCEPT ![o] = @ + n]
      BY <1>4 DEF Fill
    <3>2. n \in Nat /\ filled'[p] = filled[p] + n /\ filled[p] \in Nat
      BY <3>1, <2>2, <1>0 DEF TypeOK
    <3>3. life[p] = "working" /\ UNCHANGED <<size, life, remaining>>
      BY <1>4, <2>2 DEF Fill
    <3>4. Left(p)' = Left(p) - n /\ Abs(size[p])' = Abs(size[p])
      <4>1. Abs(size[p])' = Abs(size[p]) /\ Abs(size[p]) \in Nat
        BY <3>3, AbsNat DEF TypeOK
      <4> QED BY <4>1, <3>2 DEF Left
    <3>5. remaining[p] \in Nat \cup {None, Absent} /\ Abs(size[p]) \in Nat
      BY AbsNat DEF TypeOK
    <3> QED BY <3>2, <3>3, <3>4, <3>5, <1>0 DEF OrderKept, HedgeAssumption
  <2> QED BY <2>1, <2>2
<1>5. ASSUME NEW o \in Orders, Cancel(o) PROVE OrderKept(p)'
  <2>1. CASE o # p
    <3>1. kept
      BY <1>5, <2>1 DEF Cancel, TypeOK
    <3> QED BY <3>1, <1>f
  <2>2. CASE o = p
    <3>1. life'[p] = "cancelled" /\ UNCHANGED <<size, filled, remaining>>
      BY <1>5, <2>2 DEF Cancel, TypeOK
    <3> QED BY <3>1, <1>0 DEF OrderKept, Left
  <2> QED BY <2>1, <2>2
<1>6. ASSUME NEW o \in Orders, openOrder(o) PROVE OrderKept(p)'
  <2>1. CASE o # p
    <3>1. kept
      BY <1>6, <2>1 DEF openOrder, TypeOK
    <3> QED BY <3>1, <1>f
  <2>2. CASE o = p
    <3>1. life[p] = "sent" /\ life'[p] = "working"
          /\ UNCHANGED <<size, filled, remaining>>
      BY <1>6, <2>2 DEF openOrder, TypeOK
    <3> QED BY <3>1, <1>0 DEF OrderKept, Left, HedgeAssumption
  <2> QED BY <2>1, <2>2
<1>7. ASSUME NEW o \in Orders, Reject(o) PROVE OrderKept(p)'
  <2>1. CASE o # p
    <3>1. kept
      BY <1>7, <2>1 DEF Reject, TypeOK
    <3> QED BY <3>1, <1>f
  <2>2. CASE o = p
    <3>1. life[p] = "sent" /\ life'[p] = "rejected"
          /\ UNCHANGED <<size, filled, remaining>>
      BY <1>7, <2>2 DEF Reject, TypeOK
    <3> QED BY <3>1, <1>0 DEF OrderKept, Left
  <2> QED BY <2>1, <2>2
<1>8. ASSUME NEW o \in Orders, orderStatus(o) PROVE OrderKept(p)'
  <2>1. CASE o # p
    <3>1. kept
      BY <1>8, <2>1 DEF orderStatus, TypeOK
    <3> QED BY <3>1, <1>f
  <2>2. CASE o = p
    <3>1. /\ life[p] \in {"working", "cancelled", "rejected"}
          /\ remaining[p] # Absent
          /\ remaining'[p] = Left(p)
          /\ UNCHANGED <<size, filled, life>>
      BY <1>8, <2>2 DEF orderStatus, TypeOK
    <3>2. Left(p)' = Left(p) /\ Abs(size[p])' = Abs(size[p])
      BY <3>1 DEF Left
    <3>3. Left(p) \notin {None, Absent}
      BY <1>0 DEF HedgeAssumption
    <3>4. life[p] = "rejected" => Left(p) = Abs(size[p])
      BY <1>0, AbsNat DEF OrderKept, Left, TypeOK
    <3> QED BY <3>1, <3>2, <3>3, <3>4, <1>0 DEF OrderKept
  <2> QED BY <2>1, <2>2
<1>9. ASSUME NEW o \in Orders, error(o) PROVE OrderKept(p)'
  <2>1. CASE o # p
    <3>1. kept
      BY <1>9, <2>1 DEF error, TypeOK
    <3> QED BY <3>1, <1>f
  <2>2. CASE o = p
    <3>1. life[p] = "cancelled" /\ remaining'[p] = Absent
          /\ UNCHANGED <<size, filled, life>>
      BY <1>9, <2>2 DEF error, TypeOK
    <3> QED BY <3>1, <1>0 DEF OrderKept, Left
  <2> QED BY <2>1, <2>2
<1>10. ASSUME NEW c \in Contracts, updatePortfolio(c) PROVE OrderKept(p)'
  BY <1>10, <1>f DEF updatePortfolio
<1>11. CASE get_option_expiries
  BY <1>11, <1>f DEF get_option_expiries
<1>12. CASE compute_option_position_greeks
  BY <1>12, <1>f DEF compute_option_position_greeks
<1>13. CASE ComputeRaises
  BY <1>13, <1>f DEF ComputeRaises
<1>14. CASE get_position_greeks
  BY <1>14, <1>f DEF get_position_greeks
<1>15. CASE NoHedge
  BY <1>15, <1>f DEF NoHedge
<1>16. CASE hedge
  <2>0. filled' = filled
    BY <1>16 DEF hedge
  <2>1. CASE UNCHANGED <<size, life, remaining>>
    BY <2>0, <2>1, <1>f
  <2>2. CASE ~UNCHANGED <<size, life, remaining>>
    <3> DEFINE net == seen + get_order_delta
    <3>1. PICK o \in Orders : /\ life[o] = "unused"
                              /\ size' = [size EXCEPT ![o] = -net]
                              /\ life' = [life EXCEPT ![o] = "sent"]
                              /\ remaining' = [remaining EXCEPT ![o] = None]
      BY <2>2, <1>16 DEF hedge, HedgeOrders
    <3> HIDE DEF net
    <3>2. CASE o # p
      BY <2>0, <3>1, <3>2, <1>f DEF TypeOK
    <3>3. CASE o = p
      <4>1. life'[p] = "sent" /\ remaining'[p] = None /\ filled'[p] = 0
        BY <2>0, <3>1, <3>3, <1>0 DEF TypeOK, OrderKept
      <4> QED BY <4>1, <3>1 DEF OrderKept
    <3> QED BY <3>2, <3>3
  <2> QED BY <2>1, <2>2
<1>17. CASE Placed
  BY <1>17, <1>f DEF Placed
<1>18. ASSUME NEW o \in UserOrders, NEW n \in {-1, 1}, UserOrder(o, n)
       PROVE  OrderKept(p)'
  <2>1. /\ life[o] = "unused" /\ filled' = filled
        /\ size' = [size EXCEPT ![o] = n] /\ life' = [life EXCEPT ![o] = "sent"]
        /\ remaining' = [remaining EXCEPT ![o] = None]
    BY <1>18 DEF UserOrder
  <2>2. CASE o # p
    BY <2>1, <2>2, <1>f DEF TypeOK
  <2>3. CASE o = p
    <3>1. life'[p] = "sent" /\ remaining'[p] = None /\ filled'[p] = 0
      BY <2>1, <2>3, <1>0 DEF TypeOK, OrderKept
    <3> QED BY <3>1 DEF OrderKept
  <2> QED BY <2>2, <2>3
<1> QED
  BY <1>1, <1>2, <1>3, <1>4, <1>5, <1>6, <1>7, <1>8, <1>9, <1>10, <1>11, <1>12,
     <1>13, <1>14, <1>15, <1>16, <1>17, <1>18, Actions DEF MainLoop, Hedge

-----------------------------------------------------------------------------
(* The potential.                                                            *)

\* What main_loop has written of an option, and how far it is from the truth.
Value(c) == Greeks(delta[c])
Lag(c) == Abs(Value(c) - held[c] * unit[c])

\* What an order brings: all of it, unless it was cancelled. That of a rejected
\* one is forgone for good: the hedge does not place it again, be it that it
\* stays blind or that it takes the order for one that works.
Effect(o) == IF life[o] = "cancelled" THEN Sign(size[o]) * filled[o] ELSE size[o]

\* What get_order_delta counts of it; of one of which TWS has not said what
\* remains, for which it counts nothing that is a number, all of it.
CountedLeft(o) ==
    IF remaining[o] = Absent THEN 0
    ELSE IF remaining[o] # None THEN remaining[o] ELSE Abs(size[o])
Counted(o) == Sign(size[o]) * CountedLeft(o)

Values == [c \in Options |-> Value(c)]
Lags == [c \in Options |-> Lag(c)]
Effects == [o \in Orders |-> Effect(o)]
Counts == [o \in Orders |-> Counted(o)]
Trades == [o \in Orders |-> Abs(size[o])]

\* Where the portfolio stands by the greeks once the orders have filled, and
\* where the hedge believes it does while it is between its two sums.
Stands == SumFunction(Values) + SumFunction(Effects)
Net == seen + SumFunction(Counts)

\* What the hedge is yet to trade: in a round, what it is about to and what it
\* will then find.
Owed == IF hedger = "orders" THEN Abs(Net) + Abs(Net - Stands) ELSE Abs(Stands)
Volume == SumFunction(Trades)
Potential == Volume + SumFunction(Lags) + Owed

\* All of it is integers.
PartsTyped ==
    /\ Values \in [Options -> Int] /\ Lags \in [Options -> Int]
    /\ Effects \in [Orders -> Int] /\ Counts \in [Orders -> Int]
    /\ Trades \in [Orders -> Int]
    /\ \A c \in Options : Value(c) \in Int /\ Lag(c) \in Nat
    /\ \A o \in Orders : Effect(o) \in Int /\ Counted(o) \in Int /\ Abs(size[o]) \in Nat
    /\ SumFunction(Values) \in Int /\ SumFunction(Lags) \in Nat
    /\ SumFunction(Effects) \in Int /\ SumFunction(Counts) \in Int
    /\ SumFunction(Trades) \in Nat
    /\ Stands \in Int /\ Net \in Int /\ Owed \in Nat /\ Potential \in Nat

\* A sum of natural numbers is one.
LEMMA SumNat ==
    ASSUME NEW S, IsFiniteSet(S), NEW f \in [S -> Int], \A x \in S : f[x] \in Nat
    PROVE  SumFunction(f) \in Nat
<1> DEFINE z == [x \in S |-> 0]
<1>1. z \in [S -> Int] /\ (\A x \in S : z[x] = 0) /\ \A x \in S : z[x] <= f[x]
  OBVIOUS
<1> HIDE DEF z
<1>2. SumFunction(z) = 0
  BY <1>1, SumZero
<1>3. SumFunction(z) <= SumFunction(f)
  BY <1>1, SumBound
<1>4. SumFunction(f) \in Int
  BY SumInt
<1> QED BY <1>2, <1>3, <1>4

LEMMA Parts == TypeOK => PartsTyped
<1> SUFFICES ASSUME TypeOK PROVE PartsTyped
  OBVIOUS
<1>0. IsFiniteSet(Options) /\ IsFiniteSet(Orders)
  BY HedgeAssumption DEF HedgeAssumption
<1>1. ASSUME NEW c \in Options PROVE Value(c) \in Int /\ Lag(c) \in Nat
  <2>1. held[c] \in Int /\ unit[c] \in Int
    BY ContractTypes, HedgeAssumption
  <2>2. held[c] * unit[c] \in Int
    BY <2>1
  <2>3. delta[c] \in Int \cup {None}
    BY DEF TypeOK
  <2>4. Value(c) \in Int
    BY <2>3 DEF Value, Greeks
  <2>5. Value(c) - held[c] * unit[c] \in Int
    BY <2>2, <2>4
  <2> QED BY <2>4, <2>5, AbsNat DEF Lag
<1>2. ASSUME NEW o \in Orders
      PROVE  Effect(o) \in Int /\ Counted(o) \in Int /\ Abs(size[o]) \in Nat
  <2>1. size[o] \in Int /\ filled[o] \in Int /\ Left(o) \in Nat
    BY LeftNat DEF TypeOK
  <2>2. Effect(o) \in Int
    BY <2>1, SignTimes DEF Effect
  <2>3. CountedLeft(o) \in Int
    BY <2>1, AbsNat DEF CountedLeft, TypeOK
  <2>4. Counted(o) \in Int
    BY <2>1, <2>3, SignTimes DEF Counted
  <2> QED BY <2>1, <2>2, <2>4, AbsNat
<1>3. /\ Values \in [Options -> Int]
      /\ Lags \in [Options -> Int] /\ \A c \in Options : Lags[c] \in Nat
  BY <1>1 DEF Values, Lags
<1>4. /\ Effects \in [Orders -> Int] /\ Counts \in [Orders -> Int]
      /\ Trades \in [Orders -> Int] /\ \A o \in Orders : Trades[o] \in Nat
  BY <1>2 DEF Effects, Counts, Trades
<1>5. SumFunction(Values) \in Int
  BY <1>0, <1>3, SumInt
<1>6. SumFunction(Lags) \in Nat
  BY <1>0, <1>3, SumNat
<1>7. SumFunction(Effects) \in Int /\ SumFunction(Counts) \in Int
  BY <1>0, <1>4, SumInt
<1>8. SumFunction(Trades) \in Nat
  BY <1>0, <1>4, SumNat
<1>9. Stands \in Int /\ Net \in Int
  BY <1>5, <1>7 DEF Stands, Net, TypeOK
<1>10. Owed \in Nat
  <2>1. Net - Stands \in Int
    BY <1>9
  <2> QED BY <2>1, <1>9, AbsNat DEF Owed
<1>11. Potential \in Nat
  <2>1. Volume = SumFunction(Trades)
    BY DEF Volume
  <2> QED BY <2>1, <1>6, <1>8, <1>10 DEF Potential
<1> QED BY <1>1, <1>2, <1>3, <1>4, <1>5, <1>6, <1>7, <1>8, <1>9, <1>10, <1>11
       DEF PartsTyped

\* After a step too.
LEMMA PartsNext == TypeOK' => PartsTyped'
BY Parts, PTL

-----------------------------------------------------------------------------
(* How the sums change.                                                      *)

OrderSame(o) == UNCHANGED <<size[o], filled[o], life[o], remaining[o]>>
OptionSame(c) == UNCHANGED <<held[c], unit[c], delta[c]>>

LEMMA SameOrder ==
    ASSUME NEW o \in Orders, OrderSame(o)
    PROVE  /\ Effect(o)' = Effect(o) /\ Counted(o)' = Counted(o)
           /\ Abs(size[o])' = Abs(size[o])
BY DEF OrderSame, Effect, Counted, CountedLeft, Left

LEMMA SameOption ==
    ASSUME NEW c \in Options, OptionSame(c)
    PROVE  Value(c)' = Value(c) /\ Lag(c)' = Lag(c)
BY DEF OptionSame, Value, Lag

LEMMA NoOrderChanges ==
    ASSUME \A o \in Orders : OrderSame(o)
    PROVE  Effects' = Effects /\ Counts' = Counts /\ Trades' = Trades
BY SameOrder DEF Effects, Counts, Trades

LEMMA NoOptionChanges ==
    ASSUME \A c \in Options : OptionSame(c)
    PROVE  Values' = Values /\ Lags' = Lags
BY SameOption DEF Values, Lags

\* The sums change by what one order's terms do,
LEMMA OneOrderChanges ==
    ASSUME TypeOK, TypeOK', NEW p \in Orders,
           \A o \in Orders : o # p => OrderSame(o)
    PROVE  /\ SumFunction(Effects)' = SumFunction(Effects) + Effect(p)' - Effect(p)
           /\ SumFunction(Counts)' = SumFunction(Counts) + Counted(p)' - Counted(p)
           /\ SumFunction(Trades)'
                  = SumFunction(Trades) + Abs(size[p])' - Abs(size[p])
<1>0. IsFiniteSet(Orders)
  BY HedgeAssumption DEF HedgeAssumption
<1>1. PartsTyped /\ PartsTyped'
  BY Parts, PartsNext
<1>2. \A o \in Orders : o # p => /\ Effects'[o] = Effects[o]
                                 /\ Counts'[o] = Counts[o]
                                 /\ Trades'[o] = Trades[o]
  BY SameOrder DEF Effects, Counts, Trades
<1>3. SumFunction(Effects') = SumFunction(Effects) + Effects'[p] - Effects[p]
  BY <1>0, <1>1, <1>2, SumChange DEF PartsTyped
<1>4. SumFunction(Counts') = SumFunction(Counts) + Counts'[p] - Counts[p]
  BY <1>0, <1>1, <1>2, SumChange DEF PartsTyped
<1>5. SumFunction(Trades') = SumFunction(Trades) + Trades'[p] - Trades[p]
  BY <1>0, <1>1, <1>2, SumChange DEF PartsTyped
<1>6. /\ Effects'[p] = Effect(p)' /\ Effects[p] = Effect(p)
      /\ Counts'[p] = Counted(p)' /\ Counts[p] = Counted(p)
      /\ Trades'[p] = Abs(size[p])' /\ Trades[p] = Abs(size[p])
  BY DEF Effects, Counts, Trades
<1> QED BY <1>3, <1>4, <1>5, <1>6

\* or one option's.
LEMMA OneOptionChanges ==
    ASSUME TypeOK, TypeOK', NEW p \in Options,
           \A c \in Options : c # p => OptionSame(c)
    PROVE  /\ SumFunction(Values)' = SumFunction(Values) + Value(p)' - Value(p)
           /\ SumFunction(Lags)' = SumFunction(Lags) + Lag(p)' - Lag(p)
<1>0. IsFiniteSet(Options)
  BY HedgeAssumption DEF HedgeAssumption
<1>1. PartsTyped /\ PartsTyped'
  BY Parts, PartsNext
<1>2. \A c \in Options : c # p => Values'[c] = Values[c] /\ Lags'[c] = Lags[c]
  BY SameOption DEF Values, Lags
<1>3. SumFunction(Values') = SumFunction(Values) + Values'[p] - Values[p]
  BY <1>0, <1>1, <1>2, SumChange DEF PartsTyped
<1>4. SumFunction(Lags') = SumFunction(Lags) + Lags'[p] - Lags[p]
  BY <1>0, <1>1, <1>2, SumChange DEF PartsTyped
<1>5. /\ Values'[p] = Value(p)' /\ Values[p] = Value(p)
      /\ Lags'[p] = Lag(p)' /\ Lags[p] = Lag(p)
  BY DEF Values, Lags
<1> QED BY <1>3, <1>4, <1>5

-----------------------------------------------------------------------------
(* The positions in stocks.                                                  *)

\* Only options that are in the portfolio have greeks.
GreeksInv == \A c \in Options : delta[c] # None => Known(c)

\* What orders have brought when g of each is filled, and those of one stock.
BoughtBy(g) == [o \in Orders |-> Sign(size[o]) * g[o]]
BoughtOf(g, s) == [o \in Orders |-> IF StockOf[o] = s THEN Sign(size[o]) * g[o] ELSE 0]

\* A position is what orders have filled, and what TWS has reported of the
\* positions is what they had filled at some time.
HeldInv == \A s \in Stocks : held[s] = SumFunction(BoughtOf(filled, s))
Report(s) == IF Known(s) THEN position[s] ELSE 0
ReportedAs(g) == \A s \in Stocks : Report(s) = SumFunction(BoughtOf(g, s))
ReportedInv ==
    \E g \in [Orders -> Nat] : /\ \A o \in Orders : g[o] <= filled[o]
                               /\ ReportedAs(g)

StockInv == GreeksInv /\ HeldInv /\ ReportedInv

Reported == SumFunction([s \in Stocks |-> Report(s)])

\* A new order.
Places(o, n) ==
    /\ life[o] = "unused"
    /\ size' = [size EXCEPT ![o] = n]
    /\ life' = [life EXCEPT ![o] = "sent"]
    /\ remaining' = [remaining EXCEPT ![o] = None]

\* What a step may do to the positions in stocks and to what was filled.
StockMove ==
    /\ \/ (\A s \in Stocks : held'[s] = held[s]) /\ UNCHANGED <<size, filled>>
       \/ \E o \in Orders : Fill(o)
       \/ /\ \E o \in Orders, n \in Int : Places(o, n)
          /\ UNCHANGED <<held, filled>>
    /\ \/ \A s \in Stocks : position'[s] = position[s]
       \/ /\ \E c \in Stocks : \A s \in Stocks :
                 position'[s] = IF s = c THEN held[s] ELSE position[s]
          /\ UNCHANGED <<held, size, filled>>
    /\ \A c \in Options : delta'[c] # None => delta[c] # None \/ Known(c)
    /\ \A c \in Contracts : Known(c) => Known(c)'

LEMMA StockMoves ==
    ASSUME HedgeAssumption, TypeOK, OrdersInv, Next
    PROVE  StockMove
<1> USE DEF market, orders, account, mainLoop, engine
<1>0. /\ Stocks \subseteq Contracts
      /\ \A c \in Options : c \in Contracts /\ c \notin Stocks
      /\ \A c \in Contracts : held[c] \in Int
      /\ UserOrders \subseteq Orders
  BY ContractTypes DEF HedgeAssumption
<1>1. ASSUME \A s \in Stocks : held'[s] = held[s], UNCHANGED <<size, filled, account>>
      PROVE  StockMove
  BY <1>1 DEF Known, StockMove
<1>2. ASSUME NEW c \in Options, NEW n \in {-1, 1}, Trade(c, n) PROVE StockMove
  <2>1. \A s \in Stocks : held'[s] = held[s]
    BY <1>0, <1>2 DEF Trade, TypeOK
  <2> QED BY <2>1, <1>1, <1>2 DEF Trade
<1>3. ASSUME NEW c \in Options, NEW d \in UnitDeltas, Move(c, d) PROVE StockMove
  BY <1>1, <1>3 DEF Move
<1>4. ASSUME NEW c \in Options, Expire(c) PROVE StockMove
  <2>1. \A s \in Stocks : held'[s] = held[s]
    BY <1>0, <1>4 DEF Expire, TypeOK
  <2> QED BY <2>1, <1>1, <1>4 DEF Expire
<1>5. ASSUME NEW o \in Orders, Fill(o) PROVE StockMove
  <2>1. UNCHANGED account
    BY <1>5 DEF Fill
  <2> QED BY <2>1, <1>5 DEF Known, StockMove
<1>6. ASSUME NEW o \in Orders, Cancel(o) \/ openOrder(o) \/ Reject(o) PROVE StockMove
  BY <1>1, <1>6 DEF Cancel, openOrder, Reject
<1>7. ASSUME NEW o \in Orders, orderStatus(o) \/ error(o) PROVE StockMove
  BY <1>1, <1>7 DEF orderStatus, error
<1>8. ASSUME NEW c \in Contracts, updatePortfolio(c) PROVE StockMove
  <2>1. /\ position' = [position EXCEPT ![c] = held[c]]
        /\ UNCHANGED <<market, orders, delta>>
    BY <1>8 DEF updatePortfolio
  <2>2. held[c] # Absent
    BY <1>0 DEF HedgeAssumption
  <2>3. \A d \in Contracts : position'[d] = IF d = c THEN held[d] ELSE position[d]
    BY <2>1 DEF TypeOK
  <2>4. \A d \in Contracts : Known(d) => Known(d)'
    BY <2>2, <2>3 DEF Known
  <2>5. CASE c \in Stocks
    <3>1. \A s \in Stocks : position'[s] = IF s = c THEN held[s] ELSE position[s]
      BY <2>3, <1>0
    <3>2. /\ UNCHANGED <<held, size, filled, delta>>
          /\ \A b \in Contracts : Known(b) => Known(b)'
      BY <2>1, <2>4
    <3> QED BY <2>5, <3>1, <3>2 DEF StockMove
  <2>6. CASE c \notin Stocks
    <3>1. \A s \in Stocks : position'[s] = position[s]
      BY <2>3, <2>6, <1>0
    <3>2. /\ UNCHANGED <<held, size, filled, delta>>
          /\ \A b \in Contracts : Known(b) => Known(b)'
      BY <2>1, <2>4
    <3> QED BY <3>1, <3>2 DEF StockMove
  <2> QED BY <2>5, <2>6
<1>9. CASE get_option_expiries \/ ComputeRaises
  BY <1>1, <1>9 DEF get_option_expiries, ComputeRaises
<1>10. CASE compute_option_position_greeks
  <2>1. UNCHANGED <<market, orders, position>>
        /\ \A c \in Options : delta'[c] # None => Known(c)
    BY <1>10 DEF compute_option_position_greeks
  <2> QED BY <2>1 DEF Known, StockMove
<1>11. CASE get_position_greeks \/ NoHedge \/ Placed
  BY <1>1, <1>11 DEF get_position_greeks, NoHedge, Placed
<1>12. CASE hedge
  <2>1. UNCHANGED <<held, filled, account>>
    BY <1>12 DEF hedge
  <2>2. CASE UNCHANGED <<size, life, remaining>>
    BY <2>1, <2>2, <1>1
  <2>3. CASE ~UNCHANGED <<size, life, remaining>>
    <3>1. PICK o \in Orders : Places(o, -(seen + get_order_delta))
      BY <2>3, <1>12 DEF hedge, Places, HedgeOrders
    <3>2. -(seen + get_order_delta) \in Int
      BY OrderDeltaInt DEF TypeOK
    <3> QED BY <2>1, <3>1, <3>2 DEF Known, StockMove
  <2> QED BY <2>2, <2>3
<1>13. ASSUME NEW o \in UserOrders, NEW n \in {-1, 1}, UserOrder(o, n)
       PROVE  StockMove
  <2>1. o \in Orders /\ n \in Int
    BY <1>0
  <2>2. Places(o, n) /\ UNCHANGED <<held, filled, account>>
    BY <1>13 DEF UserOrder, Places
  <2> QED BY <2>1, <2>2 DEF Known, StockMove
<1>14. StockMove
  <2>1. CASE MainLoop \/ Hedge
    BY <2>1, <1>9, <1>10, <1>11, <1>12 DEF MainLoop, Hedge
  <2>2. ASSUME NEW o \in Orders, \/ Fill(o) \/ Cancel(o) \/ openOrder(o) \/ Reject(o)
                                 \/ orderStatus(o) \/ error(o)
        PROVE  StockMove
    BY <2>2, <1>5, <1>6, <1>7
  <2> QED BY <2>1, <2>2, <1>2, <1>3, <1>4, <1>8, <1>13, Actions
<1> QED BY <1>14

\* SumChange, for orders.
LEMMA OrderSumChanges ==
    \A f, g \in [Orders -> Int], p \in Orders :
        (\A o \in Orders : o # p => g[o] = f[o])
            => SumFunction(g) = SumFunction(f) + g[p] - f[p]
<1> SUFFICES ASSUME NEW f \in [Orders -> Int], NEW g \in [Orders -> Int],
                    NEW p \in Orders, \A o \in Orders : o # p => g[o] = f[o]
             PROVE  SumFunction(g) = SumFunction(f) + g[p] - f[p]
  OBVIOUS
<1>1. IsFiniteSet(Orders)
  BY HedgeAssumption DEF HedgeAssumption
<1> QED BY <1>1, SumChange

\* A fill, number by number.
LEMMA Fills ==
    ASSUME HedgeAssumption, TypeOK, NEW p \in Orders, Fill(p)
    PROVE  \E n \in Nat :
              /\ filled'[p] = filled[p] + n
              /\ \A s \in Stocks :
                     held'[s] = IF s = StockOf[p] THEN held[s] + Sign(size[p]) * n
                                                  ELSE held[s]
              /\ \A o \in Orders : o # p => filled'[o] = filled[o]
              /\ \A c \in Options : held'[c] = held[c]
              /\ UNCHANGED size
<1>1. PICK n \in {1, Left(p)} :
          /\ filled' = [filled EXCEPT ![p] = @ + n]
          /\ held' = [held EXCEPT ![StockOf[p]] = @ + Sign(size[p]) * n]
  BY DEF Fill
<1>2. n \in Nat
  BY <1>1, LeftNat
<1>3. /\ Stocks \subseteq Contracts /\ StockOf[p] \in Stocks
      /\ \A c \in Options : c \in Contracts /\ c \notin Stocks
  BY ContractTypes
<1>4. /\ filled'[p] = filled[p] + n
      /\ \A o \in Orders : o # p => filled'[o] = filled[o]
  BY <1>1, <1>2 DEF TypeOK
<1>5. /\ \A s \in Stocks :
             held'[s] = IF s = StockOf[p] THEN held[s] + Sign(size[p]) * n ELSE held[s]
      /\ \A c \in Options : held'[c] = held[c]
  BY <1>1, <1>3 DEF TypeOK
<1>6. UNCHANGED size
  BY DEF Fill, orders
<1> QED BY <1>2, <1>4, <1>5, <1>6

LEMMA BoughtTyped ==
    ASSUME TypeOK, NEW g \in [Orders -> Nat]
    PROVE  /\ BoughtBy(g) \in [Orders -> Int]
           /\ \A o \in Orders : BoughtBy(g)[o] = IF size[o] < 0 THEN -g[o] ELSE g[o]
           /\ \A s : BoughtOf(g, s) \in [Orders -> Int]
           /\ \A s : \A o \in Orders :
                 BoughtOf(g, s)[o] = IF StockOf[o] = s THEN BoughtBy(g)[o] ELSE 0
<1>1. \A o \in Orders : Sign(size[o]) * g[o] = IF size[o] < 0 THEN -g[o] ELSE g[o]
  BY SignTimes DEF TypeOK
<1>2. \A o \in Orders : Sign(size[o]) * g[o] \in Int
  BY <1>1
<1>3. /\ BoughtBy(g) \in [Orders -> Int]
      /\ \A o \in Orders : BoughtBy(g)[o] = Sign(size[o]) * g[o]
  BY <1>2 DEF BoughtBy
<1>4. ASSUME NEW s
      PROVE  /\ BoughtOf(g, s) \in [Orders -> Int]
             /\ \A o \in Orders :
                   BoughtOf(g, s)[o] = IF StockOf[o] = s THEN BoughtBy(g)[o] ELSE 0
  BY <1>2, <1>3 DEF BoughtOf
<1> QED BY <1>1, <1>3, <1>4

\* The sign of an order of which nothing was filled is of no account.
LEMMA BoughtSame ==
    ASSUME OrdersInv, TypeOK, TypeOK', NEW p \in Orders, NEW n \in Int, Places(p, n),
           NEW g \in [Orders -> Nat], \A o \in Orders : g[o] <= filled[o], NEW s
    PROVE  [o \in Orders |-> IF StockOf[o] = s THEN Sign(size'[o]) * g[o] ELSE 0]
               = BoughtOf(g, s)
<1>1. filled[p] = 0
  BY DEF OrdersInv, OrderKept, Places
<1>2. g[p] = 0
  BY <1>1 DEF TypeOK
<1>3. \A o \in Orders : o # p => size'[o] = size[o]
  BY DEF Places, TypeOK
<1>4. Sign(size'[p]) * g[p] = 0 /\ Sign(size[p]) * g[p] = 0
  <2>1. size'[p] \in Int /\ size[p] \in Int
    BY DEF TypeOK
  <2> QED BY <2>1, <1>2, SignTimes
<1>5. \A o \in Orders : Sign(size'[o]) * g[o] = Sign(size[o]) * g[o]
  BY <1>3, <1>4
<1> QED BY <1>5 DEF BoughtOf

\* What is reported of all stocks is what the orders had filled.
LEMMA ReportedSum ==
    ASSUME TypeOK, NEW g \in [Orders -> Nat], ReportedAs(g)
    PROVE  Reported = SumFunction(BoughtBy(g))
<1> DEFINE k == [o \in Orders |-> StockOf[o]]
           f == BoughtBy(g)
           h == [s \in Stocks |-> Report(s)]
<1>0. IsFiniteSet(Orders) /\ IsFiniteSet(Stocks)
  BY StocksFinite, HedgeAssumption DEF HedgeAssumption
<1>1. k \in [Orders -> Stocks] /\ \A o \in Orders : k[o] = StockOf[o]
  BY DEF Stocks
<1>2. f \in [Orders -> Int]
  BY BoughtTyped
<1>3. h \in [Stocks -> Int] /\ \A s \in Stocks : h[s] = Report(s)
  BY ContractTypes, HedgeAssumption DEF Report, Known, TypeOK
<1>4. \A s \in Stocks :
         BoughtOf(g, s) = [o \in Orders |-> IF k[o] = s THEN f[o] ELSE 0]
  BY <1>1 DEF BoughtOf, BoughtBy
<1> HIDE DEF k, f, h
<1>5. \A s \in Stocks :
         h[s] = SumFunction([o \in Orders |-> IF k[o] = s THEN f[o] ELSE 0])
  BY <1>3, <1>4 DEF ReportedAs
<1>6. SumFunction(h) = SumFunction(f)
  BY <1>0, <1>1, <1>2, <1>3, <1>5, SumByKind
<1> QED BY <1>6 DEF Reported, f, h

LEMMA StockStep ==
    ASSUME HedgeAssumption, TypeOK, TypeOK', OrdersInv, StockInv, Next
    PROVE  StockInv'
<1>0. IsFiniteSet(Orders)
  BY DEF HedgeAssumption
<1>1. GreeksInv'
  <2>1. \A c \in Options : c \in Contracts
    BY ContractTypes
  <2> QED BY <2>1, StockMoves DEF StockInv, GreeksInv, StockMove
<1>2. HeldInv'
  <2>1. CASE (\A s \in Stocks : held'[s] = held[s]) /\ UNCHANGED <<size, filled>>
    BY <2>1 DEF StockInv, HeldInv, BoughtOf
  <2>2. ASSUME NEW p \in Orders, Fill(p) PROVE HeldInv'
    <3> SUFFICES ASSUME NEW s \in Stocks
                 PROVE  held'[s] = SumFunction([o \in Orders |->
                            IF StockOf[o] = s THEN Sign(size'[o]) * filled'[o] ELSE 0])
      BY DEF HeldInv, BoughtOf
    <3>1. PICK n \in Nat :
              /\ filled'[p] = filled[p] + n
              /\ held'[s] = IF s = StockOf[p] THEN held[s] + Sign(size[p]) * n ELSE held[s]
              /\ \A o \in Orders : o # p => filled'[o] = filled[o]
              /\ UNCHANGED size
      BY <2>2, Fills
    <3> DEFINE f == BoughtOf(filled, s)
               g == [o \in Orders |->
                        IF StockOf[o] = s THEN Sign(size'[o]) * filled'[o] ELSE 0]
               bought(o, n1) == IF StockOf[o] # s THEN 0
                                ELSE IF size[o] < 0 THEN -n1 ELSE n1
    <3>2. f \in [Orders -> Int] /\ \A o \in Orders : f[o] = bought(o, filled[o])
      <4>1. filled \in [Orders -> Nat]
        BY DEF TypeOK
      <4> QED BY <4>1, BoughtTyped
    <3>3. g \in [Orders -> Int] /\ \A o \in Orders : g[o] = bought(o, filled'[o])
      <4>1. \A o \in Orders :
               Sign(size'[o]) * filled'[o] = IF size[o] < 0 THEN -filled'[o] ELSE filled'[o]
        BY <3>1, SignTimes DEF TypeOK
      <4>2. \A o \in Orders : filled'[o] \in Int
        BY DEF TypeOK
      <4> QED BY <4>1, <4>2
    <3>4. Sign(size[p]) * n = IF size[p] < 0 THEN -n ELSE n
      BY SignTimes DEF TypeOK
    <3> HIDE DEF f, g
    <3>5. SumFunction(g) = SumFunction(f) + g[p] - f[p]
      <4>1. \A o \in Orders : o # p => g[o] = f[o]
        BY <3>1, <3>2, <3>3
      <4>2. f \in [Orders -> Int] /\ g \in [Orders -> Int]
        BY <3>2, <3>3
      <4> QED BY <4>1, <4>2, OrderSumChanges
    <3>6. SumFunction(f) \in Int /\ filled[p] \in Nat
      BY <3>2, <1>0, SumInt DEF TypeOK
    <3>7. g[p] - f[p] = IF s = StockOf[p] THEN Sign(size[p]) * n ELSE 0
      BY <3>1, <3>2, <3>3, <3>4, <3>6
    <3>8. held[s] = SumFunction(f)
      BY DEF StockInv, HeldInv, f
    <3>9. held'[s] = SumFunction(g)
      BY <3>1, <3>2, <3>3, <3>5, <3>6, <3>7, <3>8
    <3> QED BY <3>9 DEF g
  <2>3. ASSUME NEW p \in Orders, NEW n \in Int, Places(p, n), UNCHANGED <<held, filled>>
        PROVE  HeldInv'
    <3> SUFFICES ASSUME NEW s \in Stocks
                 PROVE  held'[s] = SumFunction([o \in Orders |->
                            IF StockOf[o] = s THEN Sign(size'[o]) * filled'[o] ELSE 0])
      BY DEF HeldInv, BoughtOf
    <3>1. filled \in [Orders -> Nat] /\ \A o \in Orders : filled[o] <= filled[o]
      BY DEF TypeOK
    <3>2. [o \in Orders |-> IF StockOf[o] = s THEN Sign(size'[o]) * filled[o] ELSE 0]
              = BoughtOf(filled, s)
      BY <2>3, <3>1, BoughtSame
    <3> QED BY <2>3, <3>2 DEF StockInv, HeldInv
  <2> QED BY <2>1, <2>2, <2>3, StockMoves DEF StockMove
<1>3. ReportedInv'
  <2>0. PICK g \in [Orders -> Nat] : /\ \A o \in Orders : g[o] <= filled[o]
                                     /\ ReportedAs(g)
    BY DEF StockInv, ReportedInv
  <2>1. ASSUME NEW c \in Stocks,
               \A s \in Stocks : position'[s] = IF s = c THEN held[s] ELSE position[s],
               UNCHANGED <<held, size, filled>>
        PROVE  ReportedInv'
    <3> DEFINE h == [o \in Orders |-> IF StockOf[o] = c THEN filled[o] ELSE g[o]]
    <3>1. /\ h \in [Orders -> Nat]
          /\ \A o \in Orders : h[o] <= filled'[o]
      BY <2>0, <2>1 DEF TypeOK
    <3>2. ASSUME NEW s \in Stocks
          PROVE  Report(s)' = SumFunction([o \in Orders |->
                                  IF StockOf[o] = s THEN Sign(size'[o]) * h[o] ELSE 0])
      <4>1. held[s] \in Int /\ held[s] # Absent
        BY ContractTypes DEF HedgeAssumption
      <4>2. CASE s = c
        <5>1. Report(s)' = held[s]
          BY <4>1, <4>2, <2>1 DEF Report, Known
        <5>2. [o \in Orders |-> IF StockOf[o] = s THEN Sign(size'[o]) * h[o] ELSE 0]
                  = BoughtOf(filled, s)
          BY <4>2, <2>1 DEF BoughtOf
        <5> QED BY <5>1, <5>2 DEF StockInv, HeldInv
      <4>3. CASE s # c
        <5>1. Report(s)' = Report(s)
          BY <4>3, <2>1 DEF Report, Known
        <5>2. [o \in Orders |-> IF StockOf[o] = s THEN Sign(size'[o]) * h[o] ELSE 0]
                  = BoughtOf(g, s)
          BY <4>3, <2>1 DEF BoughtOf
        <5> QED BY <5>1, <5>2, <2>0 DEF ReportedAs
      <4> QED BY <4>2, <4>3
    <3> HIDE DEF h
    <3> QED BY <3>1, <3>2 DEF ReportedInv, ReportedAs, BoughtOf
  <2>2. CASE \A s \in Stocks : position'[s] = position[s]
    <3>1. \A o \in Orders : filled[o] <= filled'[o]
      <4>1. CASE UNCHANGED filled
        BY <4>1 DEF TypeOK
      <4>2. ASSUME NEW p \in Orders, Fill(p), NEW o \in Orders
            PROVE  filled[o] <= filled'[o]
        <5>1. PICK n \in Nat : /\ filled'[p] = filled[p] + n
                               /\ \A q \in Orders : q # p => filled'[q] = filled[q]
          BY <4>2, Fills
        <5>2. filled[o] \in Nat /\ filled[p] \in Nat
          BY DEF TypeOK
        <5> QED BY <5>1, <5>2
      <4> QED BY <4>1, <4>2, StockMoves DEF StockMove
    <3>2. \A o \in Orders : g[o] <= filled'[o]
      BY <2>0, <3>1 DEF TypeOK
    <3>3. ASSUME NEW s \in Stocks
          PROVE  Report(s)' = SumFunction([o \in Orders |->
                                  IF StockOf[o] = s THEN Sign(size'[o]) * g[o] ELSE 0])
      <4>1. Report(s)' = Report(s)
        BY <2>2 DEF Report, Known
      <4>2. [o \in Orders |-> IF StockOf[o] = s THEN Sign(size'[o]) * g[o] ELSE 0]
                = BoughtOf(g, s)
        <5>1. CASE UNCHANGED size
          BY <5>1 DEF BoughtOf
        <5>2. ASSUME NEW p \in Orders, NEW n \in Int, Places(p, n)
              PROVE  [o \in Orders |-> IF StockOf[o] = s THEN Sign(size'[o]) * g[o] ELSE 0]
                         = BoughtOf(g, s)
          BY <5>2, <2>0, BoughtSame
        <5> QED BY <5>1, <5>2, StockMoves, Fills DEF StockMove
      <4> QED BY <4>1, <4>2, <2>0 DEF ReportedAs
    <3> QED BY <3>2, <3>3 DEF ReportedInv, ReportedAs, BoughtOf
  <2> QED BY <2>1, <2>2, StockMoves DEF StockMove
<1> QED BY <1>1, <1>2, <1>3 DEF StockInv

-----------------------------------------------------------------------------
(* What a step does to the potential.                                        *)

\* It grows by no more than what bounds the turnover does, or a late report
\* trebles it.
Grows ==
    \E d \in Nat : /\ (shock + 2 * misread)' = shock + 2 * misread + d
                   /\ Lates' = Lates
                   /\ Potential' <= Potential + d
Trebles ==
    /\ UNCHANGED <<shock, misread>>
    /\ Lates' = Lates + 1
    /\ Potential' <= 3 * Potential
PotentialMove == Grows \/ Trebles

LEMMA LatesCounted ==
    ASSUME TypeOK
    PROVE  /\ UNCHANGED happened => Lates' = Lates
           /\ \A e \in Events : Happens(e) /\ e # "late" => Lates' = Lates
           /\ Happens("late") => Lates' = Lates + 1
           /\ Lates \in Nat
<1>1. "late" \in Events
  BY DEF Events
<1> QED BY <1>1 DEF Lates, Happens, TypeOK

\* Nothing of a sum changes.
LEMMA NothingMoves ==
    ASSUME \A o \in Orders : OrderSame(o), \A c \in Options : OptionSame(c)
    PROVE  /\ Volume' = Volume /\ SumFunction(Lags)' = SumFunction(Lags)
           /\ Stands' = Stands /\ SumFunction(Counts)' = SumFunction(Counts)
<1>1. Effects' = Effects /\ Counts' = Counts /\ Trades' = Trades
  BY NoOrderChanges
<1>2. Values' = Values /\ Lags' = Lags
  BY NoOptionChanges
<1>3. Volume = SumFunction(Trades) /\ Volume' = SumFunction(Trades)'
  BY DEF Volume
<1> QED BY <1>1, <1>2, <1>3 DEF Stands

LEMMA SameVolume == Volume = SumFunction(Trades) /\ Volume' = SumFunction(Trades)'
BY DEF Volume

\* No order is larger than all of them.
LEMMA SizeBelowVolume ==
    ASSUME TypeOK, NEW p \in Orders
    PROVE  Abs(size[p]) <= Volume
<1> DEFINE g == [o \in Orders |-> IF o = p THEN 0 ELSE Abs(size[o])]
<1>0. IsFiniteSet(Orders)
  BY HedgeAssumption DEF HedgeAssumption
<1>1. PartsTyped
  BY Parts
<1>2. /\ g \in [Orders -> Int] /\ \A o \in Orders : g[o] \in Nat
      /\ g[p] = 0 /\ \A o \in Orders : o # p => g[o] = Trades[o]
  BY <1>1 DEF PartsTyped, Trades
<1> HIDE DEF g
<1>3. SumFunction(g) = SumFunction(Trades) + g[p] - Trades[p]
  <2>1. Trades \in [Orders -> Int]
    BY <1>1 DEF PartsTyped
  <2> QED BY <2>1, <1>2, OrderSumChanges
<1>4. SumFunction(g) \in Nat
  BY <1>0, <1>2, SumNat
<1>5. Trades[p] = Abs(size[p]) /\ Abs(size[p]) \in Nat /\ SumFunction(Trades) \in Nat
  BY <1>1 DEF PartsTyped, Trades
<1> QED BY <1>2, <1>3, <1>4, <1>5, SameVolume

\* What an option is worth changes, by d.
LEMMA MarketGrows ==
    ASSUME TypeOK, TypeOK', NEW c \in Options, NEW d \in Int,
           held'[c] * unit'[c] = held[c] * unit[c] + d,
           \A b \in Options : b # c => OptionSame(b),
           \A o \in Orders : OrderSame(o),
           UNCHANGED <<delta, hedger, seen, misread>>,
           shock' = shock + Abs(d), Lates' = Lates
    PROVE  Grows
<1>1. PartsTyped /\ PartsTyped'
  BY Parts, PartsNext
<1>2. Effects' = Effects /\ Counts' = Counts /\ Trades' = Trades
  BY NoOrderChanges
<1>3. Value(c)' = Value(c)
  BY DEF Value
<1>4. Lag(c)' <= Lag(c) + Abs(d)
  <2>1. held[c] * unit[c] \in Int
    <3>1. held[c] \in Int /\ unit[c] \in Int
      BY ContractTypes, HedgeAssumption
    <3> QED BY <3>1
  <2>2. Lag(c)' = Abs(Value(c) - (held[c] * unit[c] + d))
    BY <1>3 DEF Lag
  <2>3. Value(c) \in Int
    BY <1>1 DEF PartsTyped
  <2>4. \A v, w \in Int : Abs(v - (w + d)) <= Abs(v - w) + Abs(d)
    BY DEF Abs
  <2> QED BY <2>1, <2>2, <2>3, <2>4 DEF Lag
<1>5. /\ SumFunction(Values)' = SumFunction(Values)
      /\ SumFunction(Lags)' <= SumFunction(Lags) + Abs(d)
  <2>1. /\ SumFunction(Values)' = SumFunction(Values) + Value(c)' - Value(c)
        /\ SumFunction(Lags)' = SumFunction(Lags) + Lag(c)' - Lag(c)
    BY OneOptionChanges
  <2>2. Value(c) \in Int /\ Lag(c) \in Nat /\ Lag(c)' \in Nat
    BY <1>1 DEF PartsTyped
  <2> QED BY <2>1, <2>2, <1>1, <1>3, <1>4, AbsNat DEF PartsTyped
<1>6. Stands' = Stands /\ Net' = Net
  BY <1>2, <1>5 DEF Stands, Net
<1>7. Owed' = Owed
  BY <1>6 DEF Owed
<1>8. Volume' = Volume
  BY <1>2, SameVolume
<1>9. Volume \in Nat /\ SumFunction(Lags) \in Nat /\ SumFunction(Lags)' \in Nat
      /\ Owed \in Nat
  BY <1>1, SameVolume DEF PartsTyped
<1>10. Potential' <= Potential + Abs(d)
  BY <1>5, <1>7, <1>8, <1>9, AbsNat DEF Potential
<1>11. (shock + 2 * misread)' = shock + 2 * misread + Abs(d) /\ Abs(d) \in Nat
  BY AbsNat DEF TypeOK
<1> QED BY <1>10, <1>11 DEF Grows

LEMMA TradeGrows ==
    ASSUME TypeOK, TypeOK', NEW c \in Options, NEW n \in {-1, 1}, Trade(c, n)
    PROVE  Grows
<1> USE DEF market, orders, account, mainLoop, engine
<1>1. /\ \A b \in Options : b \in Contracts
      /\ held[c] \in Int /\ unit[c] \in Int /\ n \in Int
  BY ContractTypes, HedgeAssumption
<1>2. held'[c] = held[c] + n /\ \A b \in Options : b # c => held'[b] = held[b]
  BY <1>1 DEF Trade, TypeOK
<1>3. UNCHANGED <<unit, delta, hedger, seen, misread, size, filled, life, remaining>>
  BY DEF Trade
<1>4. (\A b \in Options : b # c => OptionSame(b)) /\ \A o \in Orders : OrderSame(o)
  BY <1>2, <1>3 DEF OptionSame, OrderSame
<1>5. n * unit[c] \in Int /\ (held[c] + n) * unit[c] = held[c] * unit[c] + n * unit[c]
  BY <1>1
<1>6. held'[c] * unit'[c] = held[c] * unit[c] + n * unit[c]
  BY <1>2, <1>3, <1>5
<1>7. Lates' = Lates
  BY LatesCounted DEF Trade, Events
<1>8. shock' = shock + Abs(n * unit[c])
  BY DEF Trade
<1> QED BY <1>3, <1>4, <1>5, <1>6, <1>7, <1>8, MarketGrows

LEMMA MoveGrows ==
    ASSUME TypeOK, TypeOK', NEW c \in Options, NEW d \in UnitDeltas, Move(c, d)
    PROVE  Grows
<1> USE DEF market, orders, account, mainLoop, engine
<1>1. held[c] \in Int /\ unit[c] \in Int /\ d \in Int
  BY ContractTypes, HedgeAssumption
<1>2. unit'[c] = d /\ \A b \in Options : b # c => unit'[b] = unit[b]
  BY DEF Move, TypeOK
<1>3. UNCHANGED <<held, delta, hedger, seen, misread, size, filled, life, remaining>>
  BY DEF Move
<1>4. (\A b \in Options : b # c => OptionSame(b)) /\ \A o \in Orders : OrderSame(o)
  BY <1>2, <1>3 DEF OptionSame, OrderSame
<1>5. /\ held[c] * (d - unit[c]) \in Int
      /\ held[c] * d = held[c] * unit[c] + held[c] * (d - unit[c])
  <2>1. d - unit[c] \in Int
    BY <1>1
  <2>2. held[c] * (d - unit[c]) = held[c] * d - held[c] * unit[c]
    BY <1>1
  <2>3. held[c] * d \in Int /\ held[c] * unit[c] \in Int
    BY <1>1
  <2> QED BY <2>1, <2>2, <2>3
<1>6. held'[c] * unit'[c] = held[c] * unit[c] + held[c] * (d - unit[c])
  BY <1>2, <1>3, <1>5
<1>7. Lates' = Lates
  BY LatesCounted DEF Move, Events
<1>8. shock' = shock + Abs(held[c] * (d - unit[c]))
  BY DEF Move
<1> QED BY <1>3, <1>4, <1>5, <1>6, <1>7, <1>8, MarketGrows

LEMMA ExpireGrows ==
    ASSUME TypeOK, TypeOK', NEW c \in Options, Expire(c)
    PROVE  Grows
<1> USE DEF market, orders, account, mainLoop, engine
<1>1. /\ \A b \in Options : b \in Contracts
      /\ held[c] \in Int /\ unit[c] \in Int
  BY ContractTypes, HedgeAssumption
<1>2. held'[c] = 0 /\ \A b \in Options : b # c => held'[b] = held[b]
  BY <1>1 DEF Expire, TypeOK
<1>3. UNCHANGED <<unit, delta, hedger, seen, misread, size, filled, life, remaining>>
  BY DEF Expire
<1>4. (\A b \in Options : b # c => OptionSame(b)) /\ \A o \in Orders : OrderSame(o)
  BY <1>2, <1>3 DEF OptionSame, OrderSame
<1> DEFINE w == held[c] * unit[c]
<1>5. w \in Int
  BY <1>1
<1>6. held'[c] * unit'[c] = w + (-w)
  <2>1. 0 * unit[c] = 0
    BY <1>1
  <2> HIDE DEF w
  <2> QED BY <2>1, <1>2, <1>3, <1>5
<1>7. Lates' = Lates
  BY LatesCounted DEF Expire, Events
<1>8. shock' = shock + Abs(-w)
  <2>1. shock' = shock + Abs(w)
    BY DEF Expire
  <2> HIDE DEF w
  <2>2. Abs(-w) = Abs(w)
    BY <1>5 DEF Abs
  <2> QED BY <2>1, <2>2
<1>9. -w \in Int
  <2> HIDE DEF w
  <2> QED BY <1>5
<1> QED BY <1>3, <1>4, <1>6, <1>7, <1>8, <1>9, MarketGrows

\* What an order brings changes, by no more than d.
LEMMA EffectGrows ==
    ASSUME TypeOK, TypeOK', NEW p \in Orders, NEW d \in Nat,
           \A o \in Orders : o # p => OrderSame(o),
           \A c \in Options : OptionSame(c),
           UNCHANGED <<size[p], hedger, seen, misread>>,
           -d <= Effect(p)' - Effect(p), Effect(p)' - Effect(p) <= d,
           hedger = "orders" => Counted(p)' = Counted(p),
           shock' = shock + d, Lates' = Lates
    PROVE  Grows
<1>1. PartsTyped /\ PartsTyped'
  BY Parts, PartsNext
<1>2. Values' = Values /\ Lags' = Lags
  BY NoOptionChanges
<1>3. /\ SumFunction(Effects)' = SumFunction(Effects) + Effect(p)' - Effect(p)
      /\ SumFunction(Counts)' = SumFunction(Counts) + Counted(p)' - Counted(p)
      /\ SumFunction(Trades)' = SumFunction(Trades) + Abs(size[p])' - Abs(size[p])
  BY OneOrderChanges
<1>4. /\ Effect(p) \in Int /\ Effect(p)' \in Int /\ Counted(p) \in Int
      /\ Abs(size[p]) \in Nat /\ Abs(size[p])' = Abs(size[p])
      /\ SumFunction(Values) \in Int /\ SumFunction(Effects) \in Int
      /\ SumFunction(Counts) \in Int
      /\ Stands \in Int /\ Stands' \in Int /\ Net \in Int /\ seen \in Int
      /\ SumFunction(Trades) \in Nat /\ SumFunction(Lags) \in Nat
      /\ Owed \in Nat /\ Owed' \in Nat
  BY <1>1 DEF PartsTyped, TypeOK
<1>5. Volume' = Volume /\ Volume \in Nat
  BY <1>3, <1>4, SameVolume
<1>6. -d <= Stands' - Stands /\ Stands' - Stands <= d
  BY <1>2, <1>3, <1>4 DEF Stands
<1>i. Stands \in Int /\ Stands' \in Int /\ Net \in Int /\ d \in Int
  BY <1>4
<1>7. Owed' <= Owed + d
  <2>1. CASE hedger = "orders"
    <3>1. Net' = Net
      BY <2>1, <1>3, <1>4 DEF Net
    <3>2. Owed = Abs(Net) + Abs(Net - Stands) /\ Owed' = Abs(Net) + Abs(Net - Stands')
      BY <2>1, <3>1 DEF Owed
    <3>3. Net - Stands \in Int /\ Net - Stands' \in Int
      BY <1>i
    <3>4. Abs(Net - Stands') <= Abs(Net - Stands) + d
      BY <1>i, <1>6, AbsApart, Zenon
    <3>5. Abs(Net) \in Nat /\ Abs(Net - Stands) \in Nat /\ Abs(Net - Stands') \in Nat
      BY <3>3, <1>i, AbsNat
    <3> QED BY <3>2, <3>4, <3>5
  <2>2. CASE hedger # "orders"
    <3>1. Owed = Abs(Stands) /\ Owed' = Abs(Stands')
      BY <2>2 DEF Owed
    <3>2. Abs(Stands') <= Abs(Stands) + d
      BY <1>i, <1>6, AbsMoves, Zenon
    <3> QED BY <3>1, <3>2
  <2> QED BY <2>1, <2>2
<1>8. Potential' <= Potential + d
  BY <1>2, <1>4, <1>5, <1>7 DEF Potential
<1>9. (shock + 2 * misread)' = shock + 2 * misread + d
  BY DEF TypeOK
<1> QED BY <1>8, <1>9 DEF Grows

\* What the hedge counts of an order changes between its two sums.
LEMMA CountTrebles ==
    ASSUME TypeOK, TypeOK', NEW p \in Orders, hedger = "orders",
           \A o \in Orders : o # p => OrderSame(o),
           \A c \in Options : OptionSame(c),
           UNCHANGED <<size[p], hedger, seen, shock, misread>>,
           Effect(p)' = Effect(p),
           -Abs(size[p]) <= Counted(p)' - Counted(p),
           Counted(p)' - Counted(p) <= Abs(size[p]),
           Lates' = Lates + 1
    PROVE  Trebles
<1> DEFINE d == Abs(size[p])
<1>1. PartsTyped /\ PartsTyped'
  BY Parts, PartsNext
<1>2. Values' = Values /\ Lags' = Lags
  BY NoOptionChanges
<1>3. /\ SumFunction(Effects)' = SumFunction(Effects) + Effect(p)' - Effect(p)
      /\ SumFunction(Counts)' = SumFunction(Counts) + Counted(p)' - Counted(p)
      /\ SumFunction(Trades)' = SumFunction(Trades) + Abs(size[p])' - Abs(size[p])
  BY OneOrderChanges
<1>4. /\ Effect(p) \in Int /\ Counted(p)' \in Int /\ Counted(p) \in Int
      /\ d \in Nat /\ Abs(size[p])' = d
      /\ SumFunction(Values) \in Int /\ SumFunction(Effects) \in Int
      /\ SumFunction(Counts) \in Int
      /\ Stands \in Int /\ Net \in Int /\ Net' \in Int /\ seen \in Int
      /\ SumFunction(Trades) \in Nat /\ SumFunction(Lags) \in Nat
      /\ Owed \in Nat /\ Owed' \in Nat
  BY <1>1 DEF PartsTyped, TypeOK
<1>5. d <= Volume
  BY SizeBelowVolume
<1>f. -d <= Counted(p)' - Counted(p) /\ Counted(p)' - Counted(p) <= d
  OBVIOUS
<1> HIDE DEF d
<1>6. Volume' = Volume /\ Volume \in Nat
  <2>1. SumFunction(Trades)' = SumFunction(Trades) + d - d
    BY <1>3, <1>4 DEF d
  <2> QED BY <2>1, <1>4, SameVolume
<1>7. Stands' = Stands
  BY <1>2, <1>3, <1>4 DEF Stands
<1>8. -d <= Net' - Net /\ Net' - Net <= d
  BY <1>3, <1>4, <1>f DEF Net
<1>i. Stands \in Int /\ Net \in Int /\ Net' \in Int /\ d \in Int
  BY <1>4
<1>9. Owed' <= Owed + 2 * d
  <2>1. Owed = Abs(Net) + Abs(Net - Stands) /\ Owed' = Abs(Net') + Abs(Net' - Stands)
    BY <1>7 DEF Owed
  <2>2. Abs(Net') <= Abs(Net) + d
    BY <1>i, <1>8, AbsMoves, Zenon
  <2>3. Net - Stands \in Int /\ Net' - Stands \in Int
    BY <1>i
  <2>4. Abs(Net' - Stands) <= Abs(Net - Stands) + d
    BY <1>i, <1>8, AbsApart, Zenon
  <2>5. /\ Abs(Net) \in Nat /\ Abs(Net') \in Nat
        /\ Abs(Net - Stands) \in Nat /\ Abs(Net' - Stands) \in Nat
    BY <2>3, <1>i, AbsNat
  <2> QED BY <2>1, <2>2, <2>4, <2>5, <1>i
<1>10. Potential' <= 3 * Potential
  BY <1>2, <1>4, <1>5, <1>6, <1>9 DEF Potential
<1> QED BY <1>10 DEF Trebles

\* Nothing changes that the potential is made of.
LEMMA IdleMoves ==
    ASSUME TypeOK, TypeOK',
           \A o \in Orders : OrderSame(o), \A c \in Options : OptionSame(c),
           UNCHANGED <<seen, shock, misread>>,
           hedger' = hedger \/ (hedger # "orders" /\ hedger' # "orders"),
           Lates' \in {Lates, Lates + 1}
    PROVE  PotentialMove
<1>1. PartsTyped
  BY Parts
<1>2. /\ Volume' = Volume /\ SumFunction(Lags)' = SumFunction(Lags)
      /\ Stands' = Stands /\ SumFunction(Counts)' = SumFunction(Counts)
  BY NothingMoves
<1>3. Owed' = Owed
  BY <1>2 DEF Owed, Net
<1>4. Potential' = Potential /\ Potential \in Nat
  BY <1>1, <1>2, <1>3 DEF Potential, PartsTyped
<1>5. (shock + 2 * misread)' = shock + 2 * misread + 0
  BY DEF TypeOK
<1>6. CASE Lates' = Lates
  <2>1. 0 \in Nat /\ Potential' <= Potential + 0
    BY <1>4
  <2> QED BY <2>1, <1>5, <1>6 DEF PotentialMove, Grows
<1>7. CASE Lates' = Lates + 1
  <2>1. Potential' <= 3 * Potential
    BY <1>4
  <2> QED BY <2>1, <1>7 DEF PotentialMove, Trebles
<1> QED BY <1>6, <1>7

-----------------------------------------------------------------------------
(* Action by action.                                                         *)

\* What is counted of an order is no more than its size.
CountedBounded ==
    \A o \in Orders : /\ CountedLeft(o) \in Nat /\ CountedLeft(o) <= Abs(size[o])
                      /\ Counted(o) = IF size[o] < 0 THEN -CountedLeft(o)
                                                     ELSE CountedLeft(o)

LEMMA CountedWithin == TypeOK /\ OrdersInv => CountedBounded
<1> SUFFICES ASSUME TypeOK, OrdersInv, NEW o \in Orders
             PROVE  /\ CountedLeft(o) \in Nat /\ CountedLeft(o) <= Abs(size[o])
                    /\ Counted(o) = IF size[o] < 0 THEN -CountedLeft(o)
                                                   ELSE CountedLeft(o)
  BY DEF CountedBounded
<1>1. size[o] \in Int /\ Abs(size[o]) \in Nat /\ Left(o) \in Nat /\ Left(o) <= Abs(size[o])
  BY LeftNat, AbsNat DEF TypeOK
<1>2. CountedLeft(o) \in Nat /\ CountedLeft(o) <= Abs(size[o])
  <2>1. remaining[o] \in Nat \cup {None, Absent} /\ OrderKept(o)
    BY DEF TypeOK, OrdersInv
  <2>2. CASE remaining[o] = Absent
    BY <2>2, <1>1 DEF CountedLeft
  <2>3. CASE remaining[o] = None
    BY <2>3, <1>1 DEF CountedLeft
  <2>4. CASE remaining[o] \notin {None, Absent}
    BY <2>1, <2>4 DEF CountedLeft, OrderKept
  <2> QED BY <2>2, <2>3, <2>4
<1>3. CountedLeft(o) \in Int
  BY <1>2
<1> QED BY <1>1, <1>2, <1>3, SignTimes DEF Counted

LEMMA FillMoves ==
    ASSUME TypeOK, TypeOK', NEW p \in Orders, Fill(p)
    PROVE  Grows
<1>1. PICK n \in Nat : /\ \A o \in Orders : o # p => filled'[o] = filled[o]
                       /\ \A c \in Options : held'[c] = held[c]
  BY HedgeAssumption, Fills
<1>2. UNCHANGED <<unit, delta, size, life, remaining, hedger, seen, misread, shock, happened>>
  BY DEF Fill, account, mainLoop, engine
<1>3. \A o \in Orders : o # p => OrderSame(o)
  BY <1>1, <1>2 DEF OrderSame
<1>4. \A c \in Options : OptionSame(c)
  BY <1>1, <1>2 DEF OptionSame
<1>5. life[p] = "working"
  BY DEF Fill
<1>6. Effect(p)' = Effect(p) /\ Counted(p)' = Counted(p)
  BY <1>2, <1>5 DEF Effect, Counted, CountedLeft
<1>7. Effect(p) \in Int
  BY Parts DEF PartsTyped
<1>8. -0 <= Effect(p)' - Effect(p) /\ Effect(p)' - Effect(p) <= 0
  BY <1>6, <1>7
<1>9. shock' = shock + 0 /\ Lates' = Lates
  BY <1>2, LatesCounted DEF TypeOK
<1> QED BY <1>2, <1>3, <1>4, <1>6, <1>8, <1>9, EffectGrows

LEMMA CancelMoves ==
    ASSUME TypeOK, TypeOK', NEW p \in Orders, Cancel(p)
    PROVE  Grows
<1>1. /\ UNCHANGED <<held, unit, delta, size, filled, remaining, hedger, seen, misread>>
      /\ life[p] = "working" /\ life'[p] = "cancelled"
      /\ \A o \in Orders : o # p => life'[o] = life[o]
      /\ shock' = shock + Left(p)
  BY DEF Cancel, market, account, mainLoop, engine, TypeOK
<1>2. \A o \in Orders : o # p => OrderSame(o)
  BY <1>1 DEF OrderSame
<1>3. \A c \in Options : OptionSame(c)
  BY <1>1 DEF OptionSame
<1>4. Counted(p)' = Counted(p)
  BY <1>1 DEF Counted, CountedLeft
<1>5. Left(p) \in Nat /\ size[p] \in Int /\ filled[p] \in Int
  BY LeftNat DEF TypeOK
<1>6. Effect(p) = size[p] /\ Effect(p)' = IF size[p] < 0 THEN -filled[p] ELSE filled[p]
  BY <1>1, <1>5, SignTimes DEF Effect
<1>7. Left(p) = (IF size[p] < 0 THEN -size[p] ELSE size[p]) - filled[p]
  BY DEF Left, Abs
<1>8. -Left(p) <= Effect(p)' - Effect(p) /\ Effect(p)' - Effect(p) <= Left(p)
  BY <1>5, <1>6, <1>7
<1>9. Lates' = Lates
  BY LatesCounted DEF Cancel, Events
<1> QED BY <1>1, <1>2, <1>3, <1>4, <1>5, <1>8, <1>9, EffectGrows

LEMMA AnswerMoves ==
    ASSUME TypeOK, TypeOK', OrdersInv, NEW p \in Orders, openOrder(p) \/ Reject(p)
    PROVE  Grows
<1>1. /\ UNCHANGED <<held, unit, delta, size, filled, remaining, hedger, seen, misread>>
      /\ life[p] = "sent" /\ life'[p] # "cancelled"
      /\ \A o \in Orders : o # p => life'[o] = life[o]
  BY DEF openOrder, Reject, market, account, mainLoop, engine, TypeOK
<1>2. \A o \in Orders : o # p => OrderSame(o)
  BY <1>1 DEF OrderSame
<1>3. \A c \in Options : OptionSame(c)
  BY <1>1 DEF OptionSame
<1>4. Counted(p)' = Counted(p)
  BY <1>1 DEF Counted, CountedLeft
<1>5. Effect(p)' = Effect(p)
  BY <1>1 DEF Effect
<1>6. Effect(p) \in Int /\ Left(p) \in Nat
  BY Parts, LeftNat DEF PartsTyped
<1>7. PICK d \in {0, Left(p)} : shock' = shock + d
  BY DEF openOrder, Reject, TypeOK
<1>8. d \in Nat
  BY <1>6
<1>9. -d <= Effect(p)' - Effect(p) /\ Effect(p)' - Effect(p) <= d
  BY <1>5, <1>6, <1>8
<1>10. Lates' = Lates
  BY LatesCounted DEF openOrder, Reject, Events
<1> QED BY <1>1, <1>2, <1>3, <1>4, <1>7, <1>8, <1>9, <1>10, EffectGrows

\* An order of a user: it is of the volume, and may be of what the hedge counts
\* as well as of where it stands.
LEMMA UserMoves ==
    ASSUME TypeOK, TypeOK', OrdersInv,
           NEW p \in UserOrders, NEW n \in {-1, 1}, UserOrder(p, n)
    PROVE  Grows
<1> DEFINE a == Abs(n)
<1>1. /\ UNCHANGED <<held, unit, delta, filled, hedger, seen, misread>>
      /\ life[p] = "unused" /\ life' = [life EXCEPT ![p] = "sent"]
      /\ size' = [size EXCEPT ![p] = n] /\ remaining' = [remaining EXCEPT ![p] = None]
      /\ shock' = shock + 2 * a
  BY DEF UserOrder, market, account, mainLoop, engine
<1>2. p \in Orders /\ n \in Int
  BY HedgeAssumption DEF HedgeAssumption
<1>3. /\ \A o \in Orders : o # p => OrderSame(o)
      /\ size'[p] = n /\ life'[p] = "sent" /\ remaining'[p] = None
  BY <1>1, <1>2 DEF OrderSame, TypeOK
<1>4. \A c \in Options : OptionSame(c)
  BY <1>1 DEF OptionSame
<1>5. size[p] = 0 /\ remaining[p] = Absent
  BY <1>1, <1>2 DEF OrdersInv, OrderKept
<1>6. a \in Nat /\ (\A i \in Int : Abs(0) = 0 /\ Sign(i) * 0 = 0 /\ Sign(i) * Abs(i) = i)
  BY <1>2, AbsNat, SignAbs, SignTimes DEF Abs
<1>7. /\ Effect(p) = 0 /\ Effect(p)' = n
      /\ Abs(size[p]) = 0 /\ Abs(size[p])' = a
  BY <1>1, <1>3, <1>5, <1>6 DEF Effect
<1>8. Counted(p) = 0 /\ Counted(p)' = n
  <2>1. CountedLeft(p) = 0 /\ CountedLeft(p)' = a
    BY <1>3, <1>5, HedgeAssumption DEF CountedLeft, HedgeAssumption
  <2> QED BY <2>1, <1>2, <1>3, <1>5, <1>6 DEF Counted
<1>9. /\ SumFunction(Effects)' = SumFunction(Effects) + Effect(p)' - Effect(p)
      /\ SumFunction(Counts)' = SumFunction(Counts) + Counted(p)' - Counted(p)
      /\ SumFunction(Trades)' = SumFunction(Trades) + Abs(size[p])' - Abs(size[p])
  BY <1>2, <1>3, OneOrderChanges
<1>10. Values' = Values /\ Lags' = Lags
  BY <1>4, NoOptionChanges
<1>11. /\ SumFunction(Values) \in Int /\ SumFunction(Effects) \in Int
       /\ SumFunction(Counts) \in Int /\ SumFunction(Trades) \in Nat
       /\ SumFunction(Lags) \in Nat
       /\ Stands \in Int /\ Net \in Int /\ seen \in Int
  BY Parts DEF PartsTyped, TypeOK
<1> HIDE DEF a
<1>12. Stands' = Stands + n
  BY <1>2, <1>7, <1>9, <1>10, <1>11 DEF Stands
<1>13. Net' = Net + n
  BY <1>1, <1>2, <1>8, <1>9, <1>11 DEF Net
<1>14. Volume' = Volume + a /\ Volume \in Nat
  BY <1>6, <1>7, <1>9, <1>11, SameVolume
<1>15. \A i \in Int : Abs(i + n) <= Abs(i) + a
  BY <1>2, AbsSum DEF a
<1>16. Owed' <= Owed + a
  <2>1. CASE hedger = "orders"
    <3>1. Owed = Abs(Net) + Abs(Net - Stands) /\ Owed' = Abs(Net') + Abs(Net' - Stands')
      BY <2>1, <1>1 DEF Owed
    <3>2. Net' - Stands' = Net - Stands /\ Net - Stands \in Int
      BY <1>2, <1>11, <1>12, <1>13
    <3>3. Abs(Net') <= Abs(Net) + a
      BY <1>11, <1>13, <1>15
    <3>4. Abs(Net) \in Nat /\ Abs(Net') \in Nat /\ Abs(Net - Stands) \in Nat
      BY <3>2, <1>11, PartsNext, AbsNat DEF PartsTyped
    <3> QED BY <3>1, <3>2, <3>3, <3>4, <1>6
  <2>2. CASE hedger # "orders"
    <3>1. Owed = Abs(Stands) /\ Owed' = Abs(Stands')
      BY <2>2, <1>1 DEF Owed
    <3> QED BY <3>1, <1>11, <1>12, <1>15
  <2> QED BY <2>1, <2>2
<1>17. Potential' <= Potential + 2 * a
  <2>1. Owed \in Int /\ Owed' \in Int
    BY Parts, PartsNext DEF PartsTyped
  <2> QED BY <2>1, <1>6, <1>10, <1>11, <1>14, <1>16 DEF Potential
<1>18. (shock + 2 * misread)' = shock + 2 * misread + 2 * a /\ 2 * a \in Nat
  BY <1>1, <1>6 DEF TypeOK
<1>19. Lates' = Lates
  BY LatesCounted DEF UserOrder, Events
<1> QED BY <1>17, <1>18, <1>19 DEF Grows

LEMMA StatusMoves ==
    ASSUME TypeOK, TypeOK', OrdersInv, OrdersInv',
           NEW p \in Orders, orderStatus(p) \/ error(p)
    PROVE  PotentialMove
<1>1. /\ UNCHANGED <<held, unit, delta, size, filled, life, hedger, seen, misread, shock>>
      /\ \A o \in Orders : o # p => remaining'[o] = remaining[o]
      /\ InTime \/ Overtakes
  BY DEF orderStatus, error, market, orders, account, mainLoop, engine, TypeOK
<1>2. \A o \in Orders : o # p => OrderSame(o)
  BY <1>1 DEF OrderSame
<1>3. \A c \in Options : OptionSame(c)
  BY <1>1 DEF OptionSame
<1>4. Effect(p)' = Effect(p) /\ Effect(p) \in Int
  BY <1>1, Parts DEF Effect, PartsTyped
<1>5. CASE InTime
  <2>1. hedger # "orders" /\ Lates' = Lates
    BY <1>5, LatesCounted DEF InTime
  <2>2. shock' = shock + 0
    BY <1>1 DEF TypeOK
  <2>3. -0 <= Effect(p)' - Effect(p) /\ Effect(p)' - Effect(p) <= 0
    BY <1>4
  <2>4. Grows
    BY <1>1, <1>2, <1>3, <2>1, <2>2, <2>3, EffectGrows
  <2> QED BY <2>4 DEF PotentialMove
<1>6. CASE Overtakes
  <2>1. hedger = "orders" /\ Lates' = Lates + 1
    BY <1>6, LatesCounted DEF Overtakes
  <2>2. /\ CountedLeft(p) \in Nat /\ CountedLeft(p) <= Abs(size[p])
        /\ Counted(p) = IF size[p] < 0 THEN -CountedLeft(p) ELSE CountedLeft(p)
    BY CountedWithin DEF CountedBounded
  <2>3. /\ CountedLeft(p)' \in Nat /\ CountedLeft(p)' <= Abs(size[p])'
        /\ Counted(p)' = IF size'[p] < 0 THEN -CountedLeft(p)' ELSE CountedLeft(p)'
    <3>1. CountedBounded'
      BY CountedWithin, PTL
    <3> QED BY <3>1 DEF CountedBounded
  <2>4. size' = size /\ Abs(size[p])' = Abs(size[p]) /\ Abs(size[p]) \in Nat
    BY <1>1, AbsNat DEF TypeOK
  <2>5. /\ -Abs(size[p]) <= Counted(p)' - Counted(p)
        /\ Counted(p)' - Counted(p) <= Abs(size[p])
    BY <2>2, <2>3, <2>4
  <2>6. Trebles
    BY <1>1, <1>2, <1>3, <1>4, <2>1, <2>5, CountTrebles
  <2> QED BY <2>6 DEF PotentialMove
<1> QED BY <1>1, <1>5, <1>6

\* Steps that change neither a sum's terms nor what the hedge is about to do.
LEMMA OtherMoves ==
    ASSUME TypeOK, TypeOK',
           \/ \E c \in Contracts : updatePortfolio(c)
           \/ get_option_expiries \/ ComputeRaises \/ Placed
    PROVE  PotentialMove
<1>1. /\ UNCHANGED <<held, unit, delta, size, filled, life, remaining, seen, shock, misread>>
      /\ hedger' = hedger \/ (hedger # "orders" /\ hedger' # "orders")
  BY DEF updatePortfolio, get_option_expiries, ComputeRaises, Placed,
         market, orders, account, mainLoop, engine
<1>2. Lates' \in {Lates, Lates + 1}
  BY LatesCounted DEF updatePortfolio, InTime, Overtakes, get_option_expiries,
                      ComputeRaises, Placed, Events
<1>3. \A o \in Orders : OrderSame(o)
  BY <1>1 DEF OrderSame
<1>4. \A c \in Options : OptionSame(c)
  BY <1>1 DEF OptionSame
<1> QED BY <1>1, <1>2, <1>3, <1>4, IdleMoves

\* Where the hedge stands changes, by no more than d, and with it what it owes.
LEMMA OwedMoves ==
    ASSUME TypeOK, TypeOK', NEW d \in Int, hedger' = hedger, Net' = Net,
           -d <= Stands' - Stands, Stands' - Stands <= d
    PROVE  Owed' <= Owed + d
<1>1. Stands \in Int /\ Stands' \in Int /\ Net \in Int
  BY Parts, PartsNext DEF PartsTyped
<1>2. CASE hedger = "orders"
  <2>1. Owed = Abs(Net) + Abs(Net - Stands) /\ Owed' = Abs(Net) + Abs(Net - Stands')
    BY <1>2 DEF Owed
  <2>2. Abs(Net - Stands') <= Abs(Net - Stands) + d
    BY <1>1, AbsApart, Zenon
  <2>3. Net - Stands \in Int /\ Net - Stands' \in Int
    BY <1>1
  <2>4. Abs(Net) \in Nat /\ Abs(Net - Stands) \in Nat /\ Abs(Net - Stands') \in Nat
    BY <1>1, <2>3, AbsNat
  <2> QED BY <2>1, <2>2, <2>4
<1>3. CASE hedger # "orders"
  <2>1. Owed = Abs(Stands) /\ Owed' = Abs(Stands')
    BY <1>3 DEF Owed
  <2>2. Abs(Stands') <= Abs(Stands) + d
    BY <1>1, AbsMoves, Zenon
  <2> QED BY <2>1, <2>2
<1> QED BY <1>2, <1>3

\* New greeks: an option whose lag goes has changed what the hedge owes by as
\* much, and by twice as much as they are off.
LEMMA ComputeGrows ==
    ASSUME TypeOK, TypeOK', compute_option_position_greeks
    PROVE  Grows
<1> DEFINE M == [c \in Options |-> IF delta'[c] = delta[c] THEN 0
                                  ELSE Abs(Greeks(delta'[c]) - held[c] * unit[c])]
           V == Values
           W == Values'
           L == Lags
           K == Lags'
           E == [c \in Options |-> W[c] - V[c]]
           D == [c \in Options |-> Abs(W[c] - V[c])]
           N == [c \in Options |-> M[c] + M[c]]
           X == [c \in Options |-> D[c] + K[c]]
           Y == [c \in Options |-> L[c] + N[c]]
<1>0. IsFiniteSet(Options)
  BY HedgeAssumption DEF HedgeAssumption
<1>1. /\ UNCHANGED <<held, unit, hedger, seen, shock, happened>>
      /\ UNCHANGED <<size, filled, life, remaining>>
      /\ misread' = misread + Misreading(delta')
  BY DEF compute_option_position_greeks, market, orders, engine
<1>2. /\ V \in [Options -> Int] /\ L \in [Options -> Int]
      /\ \A c \in Options : V[c] \in Int /\ L[c] \in Nat
  BY Parts DEF PartsTyped, Values, Lags
<1>3. /\ W \in [Options -> Int] /\ K \in [Options -> Int]
      /\ \A c \in Options : W[c] \in Int /\ K[c] \in Nat
  BY PartsNext DEF PartsTyped, Values, Lags
<1>4. \A c \in Options : held[c] * unit[c] \in Int
  <2>1. ASSUME NEW c \in Options PROVE held[c] * unit[c] \in Int
    <3>1. held[c] \in Int /\ unit[c] \in Int
      BY ContractTypes, HedgeAssumption
    <3> QED BY <3>1
  <2> QED BY <2>1
<1>5. \A c \in Options : /\ L[c] = Abs(V[c] - held[c] * unit[c])
                         /\ K[c] = Abs(W[c] - held[c] * unit[c])
                         /\ delta'[c] = delta[c] => W[c] = V[c]
                         /\ M[c] = IF delta'[c] = delta[c] THEN 0
                                   ELSE Abs(W[c] - held[c] * unit[c])
  BY <1>1 DEF Values, Lags, Value, Lag
<1>6. SumFunction(M) = Misreading(delta')
  BY DEF Misreading
<1>7. SumFunction(V) = SumFunction(Values) /\ SumFunction(W) = SumFunction(Values)'
      /\ SumFunction(L) = SumFunction(Lags) /\ SumFunction(K) = SumFunction(Lags)'
  OBVIOUS
<1>8. DOMAIN M = Options /\ M = [c \in Options |-> M[c]]
  OBVIOUS
<1> HIDE DEF M, V, W, L, K
<1>9. \A c \in Options :
        /\ M[c] \in Nat
        /\ Abs(W[c] - V[c]) \in Nat
        /\ Abs(W[c] - V[c]) + K[c] <= L[c] + (M[c] + M[c])
  <2>1. \A v, w, h \in Int : Abs(w - v) + Abs(w - h)
                                <= Abs(v - h) + (Abs(w - h) + Abs(w - h))
    BY DEF Abs
  <2>2. \A v, w \in Int : Abs(w - v) \in Nat
    BY DEF Abs
  <2>3. \A v \in Int : Abs(v - v) = 0
    BY DEF Abs
  <2> SUFFICES ASSUME NEW c \in Options
               PROVE  /\ M[c] \in Nat
                      /\ Abs(W[c] - V[c]) \in Nat
                      /\ Abs(W[c] - V[c]) + K[c] <= L[c] + (M[c] + M[c])
    OBVIOUS
  <2> DEFINE v == V[c]
             w == W[c]
             h == held[c] * unit[c]
  <2>4. v \in Int /\ w \in Int /\ h \in Int /\ K[c] \in Nat /\ L[c] \in Nat
    BY <1>2, <1>3, <1>4
  <2>5. /\ L[c] = Abs(v - h) /\ K[c] = Abs(w - h)
        /\ delta'[c] = delta[c] => w = v
        /\ M[c] = IF delta'[c] = delta[c] THEN 0 ELSE Abs(w - h)
    BY <1>5
  <2> HIDE DEF v, w, h
  <2>6. M[c] \in Nat /\ Abs(w - v) \in Nat
    BY <2>2, <2>4, <2>5
  <2>7. Abs(w - v) + K[c] <= L[c] + (M[c] + M[c])
    <3>1. CASE delta'[c] = delta[c]
      <4>1. w = v /\ M[c] = 0 /\ K[c] = L[c]
        BY <3>1, <2>5
      <4>2. Abs(w - v) = 0
        BY <4>1, <2>3, <2>4
      <4> QED BY <4>1, <4>2, <2>4
    <3>2. CASE delta'[c] # delta[c]
      BY <3>2, <2>1, <2>4, <2>5
    <3> QED BY <3>1, <3>2
  <2> QED BY <2>6, <2>7 DEF v, w
<1>10. /\ M \in [Options -> Int] /\ E \in [Options -> Int] /\ D \in [Options -> Int]
       /\ \A c \in Options : /\ W[c] = V[c] + E[c]
                             /\ -D[c] <= E[c] /\ E[c] <= D[c]
  <2>1. M \in [Options -> Int] /\ E \in [Options -> Int] /\ D \in [Options -> Int]
    BY <1>2, <1>3, <1>8, <1>9
  <2>2. \A v, w \in Int : w = v + (w - v) /\ -Abs(w - v) <= w - v /\ w - v <= Abs(w - v)
    BY DEF Abs
  <2>3. \A c \in Options : E[c] = W[c] - V[c] /\ D[c] = Abs(W[c] - V[c])
    OBVIOUS
  <2> HIDE DEF E, D
  <2> QED BY <2>1, <2>2, <2>3, <1>2, <1>3
<1>11. /\ N \in [Options -> Int] /\ X \in [Options -> Int] /\ Y \in [Options -> Int]
       /\ \A c \in Options : /\ N[c] = M[c] + M[c] /\ X[c] = D[c] + K[c]
                             /\ Y[c] = L[c] + N[c] /\ X[c] <= Y[c]
  <2>1. \A c \in Options : M[c] \in Int /\ D[c] \in Int /\ K[c] \in Int /\ L[c] \in Int
    BY <1>2, <1>3, <1>9
  <2>2. N \in [Options -> Int]
    BY <2>1
  <2>3. X \in [Options -> Int]
    <3> HIDE DEF D
    <3> QED BY <2>1
  <2>4. \A c \in Options : N[c] \in Int
    BY <2>1
  <2>5. Y \in [Options -> Int]
    <3> HIDE DEF N
    <3> QED BY <2>1, <2>4
  <2>6. \A c \in Options : X[c] <= Y[c]
    BY <1>9
  <2> QED BY <2>2, <2>3, <2>5, <2>6
<1> HIDE DEF E, D, N, X, Y
<1>12. SumFunction(W) = SumFunction(V) + SumFunction(E)
  BY <1>0, <1>2, <1>3, <1>10, SumPlus
<1>13. -SumFunction(D) <= SumFunction(E) /\ SumFunction(E) <= SumFunction(D)
  BY <1>0, <1>10, SumWithin
<1>14. SumFunction(N) = SumFunction(M) + SumFunction(M)
  BY <1>0, <1>10, <1>11, SumPlus
<1>15. SumFunction(X) = SumFunction(D) + SumFunction(K)
  <2>1. /\ X \in [Options -> Int] /\ D \in [Options -> Int] /\ K \in [Options -> Int]
        /\ \A c \in Options : X[c] = D[c] + K[c]
    BY <1>3, <1>10, <1>11
  <2> QED BY <1>0, <2>1, SumPlus
<1>16. SumFunction(Y) = SumFunction(L) + SumFunction(N)
  BY <1>0, <1>2, <1>11, SumPlus
<1>17. SumFunction(X) <= SumFunction(Y)
  BY <1>0, <1>11, SumBound
<1>18. /\ SumFunction(V) \in Int /\ SumFunction(W) \in Int /\ SumFunction(E) \in Int
       /\ SumFunction(D) \in Int /\ SumFunction(K) \in Int /\ SumFunction(L) \in Int
  BY <1>0, <1>2, <1>3, <1>10, SumInt
<1>19. SumFunction(M) \in Nat
  BY <1>0, <1>9, <1>10, SumNat
<1> DEFINE m == SumFunction(M)
           s == SumFunction(D)
<1>20. s + SumFunction(Lags)' <= SumFunction(Lags) + 2 * m
  BY <1>7, <1>14, <1>15, <1>16, <1>17, <1>18, <1>19
<1>21. \A o \in Orders : OrderSame(o)
  BY <1>1 DEF OrderSame
<1>22. Effects' = Effects /\ Counts' = Counts /\ Trades' = Trades
  BY <1>21, NoOrderChanges
<1>23. Net' = Net
  BY <1>1, <1>22 DEF Net
<1>24. -s <= Stands' - Stands /\ Stands' - Stands <= s
  <2>1. /\ Stands = SumFunction(V) + SumFunction(Effects)
        /\ Stands' = SumFunction(W) + SumFunction(Effects)
    BY <1>7, <1>22 DEF Stands
  <2>2. SumFunction(Effects) \in Int
    BY Parts DEF PartsTyped
  <2> QED BY <2>1, <2>2, <1>12, <1>13, <1>18
<1>25. s \in Int
  BY <1>18
<1> HIDE DEF s
<1>26. Owed' <= Owed + s
  BY <1>1, <1>23, <1>24, <1>25, OwedMoves
<1>27. Potential' <= Potential + 2 * m
  <2>1. /\ Owed \in Int /\ Owed' \in Int /\ Volume \in Int
        /\ SumFunction(Lags) \in Int /\ SumFunction(Lags)' \in Int
    BY Parts, PartsNext, SameVolume DEF PartsTyped
  <2>2. Volume' = Volume
    BY <1>22, SameVolume
  <2>3. m \in Int
    BY <1>19
  <2> HIDE DEF m
  <2> QED BY <2>1, <2>2, <2>3, <1>20, <1>25, <1>26 DEF Potential
<1>28. (shock + 2 * misread)' = shock + 2 * misread + 2 * m /\ 2 * m \in Nat
  BY <1>1, <1>6, <1>19 DEF TypeOK
<1>29. Lates' = Lates
  BY <1>1, LatesCounted
<1> QED BY <1>27, <1>28, <1>29 DEF Grows

\* What get_net_greeks returns.
LEMMA NetGreeks ==
    ASSUME TypeOK, GreeksInv, GreeksKnown
    PROVE  get_net_greeks = SumFunction(Values) + Reported
<1> DEFINE g == [c \in Held |-> delta[c]]
<1>0. IsFiniteSet(Options)
  BY HedgeAssumption DEF HedgeAssumption
<1>1. Held \in SUBSET Options
  BY DEF Held
<1>2. g \in [Held -> Int]
  BY DEF GreeksKnown, TypeOK, Held
<1>3. Values \in [Options -> Int]
  BY Parts DEF PartsTyped
<1>4. \A c \in Options : Values[c] = IF c \in Held THEN g[c] ELSE 0
  BY DEF Values, Value, Greeks, GreeksKnown, GreeksInv, Held
<1> DEFINE h == [x \in StocksKnown |-> position[x]]
           f == [x \in Stocks |-> Report(x)]
<1>5. get_net_greeks = SumFunction(g) + SumFunction(h)
  BY DEF get_net_greeks
<1>6. StocksKnown \in SUBSET Stocks /\ IsFiniteSet(Stocks)
  BY StocksFinite DEF StocksKnown
<1>7. h \in [StocksKnown -> Int]
  BY ContractTypes, HedgeAssumption DEF StocksKnown, Known, TypeOK
<1>8. f \in [Stocks -> Int]
  BY ContractTypes, HedgeAssumption DEF Report, Known, TypeOK
<1>9. \A x \in Stocks : f[x] = IF x \in StocksKnown THEN h[x] ELSE 0
  BY DEF Report, StocksKnown
<1>10. SumFunction(f) = Reported
  BY DEF Reported
<1> HIDE DEF f, g, h
<1>11. SumFunction(Values) = SumFunction(g)
  BY <1>0, <1>1, <1>2, <1>3, <1>4, SumOfPart
<1>12. SumFunction(f) = SumFunction(h)
  BY <1>6, <1>7, <1>8, <1>9, SumOfPart
<1> QED BY <1>5, <1>10, <1>11, <1>12

\* The parts of an order, by the direction it trades in: what it brings, what
\* is counted of it and what of g it has filled.
LEMMA OrderParts ==
    ASSUME TypeOK, OrdersInv,
           NEW g \in [Orders -> Nat], \A o \in Orders : g[o] <= filled[o],
           NEW o \in Orders
    PROVE  /\ BoughtBy(g)[o] + Counted(o) - Effect(o) \in Int
           /\ -Abs(size[o]) <= BoughtBy(g)[o] + Counted(o) - Effect(o)
           /\ BoughtBy(g)[o] + Counted(o) - Effect(o) <= Abs(size[o])
           /\ Settled /\ g[o] = filled[o]
                  => BoughtBy(g)[o] + Counted(o) = Effect(o)
<1> DEFINE brings == IF life[o] = "cancelled" THEN filled[o] ELSE Abs(size[o])
           n == CountedLeft(o)
           a == Abs(size[o])
<1>1. /\ size[o] \in Int /\ filled[o] \in Nat /\ g[o] \in Nat /\ g[o] <= filled[o]
      /\ a \in Nat /\ filled[o] <= a
  BY AbsNat DEF TypeOK
<1>2. /\ n \in Nat /\ n <= a
      /\ Counted(o) = IF size[o] < 0 THEN -n ELSE n
  BY CountedWithin DEF CountedBounded
<1>3. BoughtBy(g)[o] = IF size[o] < 0 THEN -g[o] ELSE g[o]
  BY BoughtTyped
<1>4. Effect(o) = IF size[o] < 0 THEN -brings ELSE brings
  <2>1. CASE life[o] = "cancelled"
    BY <2>1, <1>1, SignTimes DEF Effect
  <2>2. CASE life[o] # "cancelled"
    BY <2>2, <1>1 DEF Effect, Abs
  <2> QED BY <2>1, <2>2
<1>5. brings \in Nat /\ brings <= a /\ filled[o] <= brings
  BY <1>1
<1>6. g[o] + n - brings <= a
  <2>1. CASE life[o] = "cancelled"
    BY <2>1, <1>1, <1>2
  <2>2. CASE life[o] # "cancelled"
    BY <2>2, <1>1, <1>2
  <2> QED BY <2>1, <2>2
<1>7. ASSUME Settled PROVE filled[o] + n = brings
  <2>1. OrderKept(o) /\ Left(o) = a - filled[o] /\ Left(o) \in Nat
    BY LeftNat DEF OrdersInv, Left
  <2>2. CASE life[o] = "unused"
    <3>1. size[o] = 0 /\ filled[o] = 0 /\ remaining[o] = Absent
      BY <2>1, <2>2 DEF OrderKept
    <3>2. n = 0 /\ a = 0
      BY <3>1 DEF CountedLeft, Abs
    <3> QED BY <2>2, <3>1, <3>2
  <2>3. CASE life[o] = "sent"
    <3>1. filled[o] = 0 /\ remaining[o] = None
      BY <2>1, <2>3 DEF OrderKept
    <3>2. n = a
      BY <3>1, HedgeAssumption DEF CountedLeft, HedgeAssumption
    <3> QED BY <2>3, <3>1, <3>2, <1>1
  <2>4. CASE life[o] = "working"
    <3>1. remaining[o] = Left(o)
      BY <1>7, <2>4 DEF Settled
    <3>2. Left(o) \notin {None, Absent}
      BY <2>1, HedgeAssumption DEF HedgeAssumption
    <3>3. n = Left(o)
      BY <3>1, <3>2 DEF CountedLeft
    <3> QED BY <2>1, <2>4, <3>3, <1>1
  <2>5. CASE life[o] = "cancelled"
    <3>1. remaining[o] = Absent
      BY <1>7, <2>5 DEF Settled
    <3>2. n = 0
      BY <3>1 DEF CountedLeft
    <3> QED BY <2>5, <3>2, <1>1
  <2>6. CASE life[o] = "rejected"
    <3>1. filled[o] = 0 /\ remaining[o] \in {None, a}
      BY <2>1, <2>6 DEF OrderKept
    <3>2. None # Absent /\ a # Absent
      BY <1>1, HedgeAssumption DEF HedgeAssumption
    <3>3. n = a
      <4>1. CASE remaining[o] = None
        BY <4>1, <3>2 DEF CountedLeft
      <4>2. CASE remaining[o] # None
        BY <4>2, <3>1, <3>2 DEF CountedLeft
      <4> QED BY <4>1, <4>2
    <3> QED BY <2>6, <3>1, <3>3, <1>1
  <2>7. life[o] \in {"unused", "sent", "working", "cancelled", "rejected"}
    BY DEF TypeOK
  <2> QED BY <2>2, <2>3, <2>4, <2>5, <2>6, <2>7
<1> HIDE DEF brings, n, a
<1>8. -a <= g[o] + n - brings
  BY <1>1, <1>2, <1>5
<1>9. a = Abs(size[o])
  BY DEF a
<1>10. BoughtBy(g)[o] + Counted(o) - Effect(o)
           = IF size[o] < 0 THEN -(g[o] + n - brings) ELSE g[o] + n - brings
  BY <1>1, <1>2, <1>3, <1>4, <1>5
<1>11. /\ BoughtBy(g)[o] + Counted(o) - Effect(o) \in Int
       /\ -a <= BoughtBy(g)[o] + Counted(o) - Effect(o)
       /\ BoughtBy(g)[o] + Counted(o) - Effect(o) <= a
  BY <1>1, <1>2, <1>5, <1>6, <1>8, <1>10
<1>12. ASSUME Settled, g[o] = filled[o]
       PROVE  BoughtBy(g)[o] + Counted(o) = Effect(o)
  BY <1>7, <1>12, <1>1, <1>2, <1>3, <1>4, <1>5
<1> QED BY <1>9, <1>11, <1>12

\* How far the hedge's view of orders and reports can be from where it stands.
LEMMA ViewWithin ==
    ASSUME TypeOK, OrdersInv,
           NEW g \in [Orders -> Nat], \A o \in Orders : g[o] <= filled[o]
    PROVE  /\ SumFunction(BoughtBy(g)) \in Int
           /\ -Volume <= SumFunction(BoughtBy(g)) + SumFunction(Counts)
                              - SumFunction(Effects)
           /\ SumFunction(BoughtBy(g)) + SumFunction(Counts)
                              - SumFunction(Effects) <= Volume
           /\ Settled /\ g = filled
                  => SumFunction(BoughtBy(g)) + SumFunction(Counts)
                         = SumFunction(Effects)
<1> DEFINE B == BoughtBy(g)
           D == [o \in Orders |-> B[o] + Counted(o) - Effect(o)]
           S == [o \in Orders |-> B[o] + Counted(o)]
<1>0. IsFiniteSet(Orders)
  BY HedgeAssumption DEF HedgeAssumption
<1>1. /\ Counts \in [Orders -> Int] /\ Effects \in [Orders -> Int]
      /\ Trades \in [Orders -> Int]
      /\ \A o \in Orders : /\ Counts[o] = Counted(o) /\ Counted(o) \in Int
                           /\ Effects[o] = Effect(o) /\ Effect(o) \in Int
                           /\ Trades[o] = Abs(size[o])
  BY Parts DEF PartsTyped, Counts, Effects, Trades
<1>2. B \in [Orders -> Int]
  BY BoughtTyped
<1> HIDE DEF B
<1>3. /\ D \in [Orders -> Int] /\ S \in [Orders -> Int]
      /\ \A o \in Orders : /\ S[o] = B[o] + Counts[o] /\ S[o] = D[o] + Effects[o]
                           /\ D[o] = B[o] + Counted(o) - Effect(o)
  <2>1. \A o \in Orders : B[o] \in Int
    BY <1>2
  <2> QED BY <2>1, <1>1
<1> HIDE DEF D, S
<1>4. SumFunction(S) = SumFunction(B) + SumFunction(Counts)
  <2>1. \A o \in Orders : S[o] = B[o] + Counts[o]
    BY <1>3
  <2>2. S \in [Orders -> Int] /\ Counts \in [Orders -> Int]
    BY <1>1, <1>3
  <2> QED BY <2>1, <2>2, <1>0, <1>2, SumPlus
<1>5. SumFunction(S) = SumFunction(D) + SumFunction(Effects)
  <2>1. \A o \in Orders : S[o] = D[o] + Effects[o]
    BY <1>3
  <2>2. S \in [Orders -> Int] /\ D \in [Orders -> Int] /\ Effects \in [Orders -> Int]
    BY <1>1, <1>3
  <2> QED BY <2>1, <2>2, <1>0, SumPlus
<1>6. -SumFunction(Trades) <= SumFunction(D) /\ SumFunction(D) <= SumFunction(Trades)
  <2>1. \A o \in Orders : -Trades[o] <= D[o] /\ D[o] <= Trades[o]
    BY <1>1, <1>3, OrderParts DEF B
  <2>2. D \in [Orders -> Int] /\ Trades \in [Orders -> Int]
    BY <1>1, <1>3
  <2> QED BY <2>1, <2>2, <1>0, SumWithin
<1>7. /\ SumFunction(B) \in Int /\ SumFunction(D) \in Int /\ SumFunction(Effects) \in Int
      /\ SumFunction(Counts) \in Int /\ SumFunction(Trades) \in Int
  BY <1>0, <1>1, <1>2, <1>3, SumInt
<1>8. ASSUME Settled, g = filled
      PROVE  SumFunction(B) + SumFunction(Counts) = SumFunction(Effects)
  <2>1. \A o \in Orders : D[o] = 0
    <3> SUFFICES ASSUME NEW o \in Orders PROVE D[o] = 0
      OBVIOUS
    <3>1. B[o] + Counted(o) = Effect(o)
      BY <1>8, OrderParts DEF B
    <3> QED BY <3>1, <1>1, <1>3
  <2>2. SumFunction(D) = 0
    BY <2>1, <1>0, <1>3, SumZero
  <2> QED BY <2>2, <1>4, <1>5, <1>7
<1>9. /\ -Volume <= SumFunction(B) + SumFunction(Counts) - SumFunction(Effects)
      /\ SumFunction(B) + SumFunction(Counts) - SumFunction(Effects) <= Volume
  BY <1>4, <1>5, <1>6, <1>7, SameVolume
<1> QED BY <1>7, <1>8, <1>9 DEF B

\* A round begins: on reports that are up to date it finds what it is to trade,
\* on others at most what was ever traded more or less.
LEMMA RoundMoves ==
    ASSUME TypeOK, TypeOK', OrdersInv, StockInv, get_position_greeks
    PROVE  PotentialMove
<1>1. /\ UNCHANGED <<held, unit, delta, size, filled, life, remaining, shock, misread>>
      /\ hedger = "sleep" /\ hedger' = "orders"
      /\ seen' = SumFunction(Values) + Reported
  BY NetGreeks DEF get_position_greeks, StockInv, market, orders, account, mainLoop
<1>2. \A o \in Orders : OrderSame(o)
  BY <1>1 DEF OrderSame
<1>3. \A c \in Options : OptionSame(c)
  BY <1>1 DEF OptionSame
<1>4. /\ Volume' = Volume /\ SumFunction(Lags)' = SumFunction(Lags)
      /\ Stands' = Stands /\ SumFunction(Counts)' = SumFunction(Counts)
  BY <1>2, <1>3, NothingMoves
<1>5. /\ Owed = Abs(Stands) /\ Owed' = Abs(Net') + Abs(Net' - Stands)
      /\ Net' = SumFunction(Values) + Reported + SumFunction(Counts)
      /\ Stands = SumFunction(Values) + SumFunction(Effects)
  BY <1>1, <1>4 DEF Owed, Net, Stands
<1>6. /\ SumFunction(Values) \in Int /\ SumFunction(Effects) \in Int
      /\ SumFunction(Counts) \in Int /\ Stands \in Int /\ Net' \in Int
      /\ SumFunction(Lags) \in Nat /\ Volume \in Nat
  BY Parts, PartsNext, SameVolume DEF PartsTyped
<1>7. CASE Settled
  <2>1. ReportedAs(filled)
    <3> SUFFICES ASSUME NEW x \in Stocks
                 PROVE  Report(x) = SumFunction(BoughtOf(filled, x))
      BY DEF ReportedAs
    <3>1. x \in Contracts /\ InLine(x)
      BY <1>7 DEF Settled, Contracts
    <3>2. held[x] # Absent
      BY <3>1, ContractTypes, HedgeAssumption DEF HedgeAssumption
    <3>3. Report(x) = held[x]
      BY <3>1, <3>2 DEF InLine, Report, Known
    <3> QED BY <3>3 DEF StockInv, HeldInv
  <2>2. filled \in [Orders -> Nat] /\ \A o \in Orders : filled[o] <= filled[o]
    BY DEF TypeOK
  <2>3. /\ SumFunction(BoughtBy(filled)) \in Int
        /\ SumFunction(BoughtBy(filled)) + SumFunction(Counts) = SumFunction(Effects)
    BY <2>2, <1>1, <1>7, ViewWithin
  <2>4. Reported = SumFunction(BoughtBy(filled))
    BY <2>1, <2>2, ReportedSum
  <2>5. Net' = Stands
    BY <2>3, <2>4, <1>5, <1>6
  <2>6. Abs(Net' - Stands) = 0
    BY <2>5, <1>6 DEF Abs
  <2>7. Owed' = Owed
    <3>1. Abs(Stands) \in Nat
      BY <1>6, AbsNat
    <3> QED BY <3>1, <2>5, <2>6, <1>5
  <2>8. Potential' = Potential /\ Potential \in Nat
    BY <2>7, <1>4, Parts DEF Potential, PartsTyped
  <2>9. Lates' \in {Lates, Lates + 1}
    BY LatesCounted DEF get_position_greeks
  <2>10. CASE Lates' = Lates
    <3>1. 0 \in Nat /\ Potential' <= Potential + 0
      BY <2>8
    <3>2. (shock + 2 * misread)' = shock + 2 * misread + 0
      BY <1>1 DEF TypeOK
    <3> QED BY <3>1, <3>2, <2>10 DEF PotentialMove, Grows
  <2>11. CASE Lates' = Lates + 1
    <3>1. Potential' <= 3 * Potential
      BY <2>8
    <3> QED BY <3>1, <1>1, <2>11 DEF PotentialMove, Trebles
  <2> QED BY <2>9, <2>10, <2>11
<1>8. CASE ~Settled
  <2>0. PICK g \in [Orders -> Nat] : /\ \A o \in Orders : g[o] <= filled[o]
                                     /\ ReportedAs(g)
    BY DEF StockInv, ReportedInv
  <2>1. /\ \A o \in Orders : g[o] <= filled[o]
        /\ Reported = SumFunction(BoughtBy(g))
    BY <2>0, ReportedSum
  <2>2. /\ Reported \in Int
        /\ -Volume <= Reported + SumFunction(Counts) - SumFunction(Effects)
        /\ Reported + SumFunction(Counts) - SumFunction(Effects) <= Volume
    BY <2>1, <1>1, ViewWithin
  <2>3. -Volume <= Net' - Stands /\ Net' - Stands <= Volume
    BY <2>2, <1>5, <1>6
  <2>4. /\ Abs(Net') <= Abs(Stands) + Volume
        /\ Abs(Net' - Stands) <= Volume
        /\ Abs(Net') \in Nat /\ Abs(Stands) \in Nat /\ Abs(Net' - Stands) \in Nat
    <3>1. \A n, s, t \in Int : -t <= n - s /\ n - s <= t =>
             /\ Abs(n) <= Abs(s) + t /\ Abs(n - s) <= t
             /\ Abs(n) \in Nat /\ Abs(s) \in Nat /\ Abs(n - s) \in Nat
      BY DEF Abs
    <3>2. Net' \in Int /\ Stands \in Int /\ Volume \in Int
      BY <1>6
    <3> QED BY <3>1, <3>2, <2>3, Zenon
  <2>5. Potential' <= 3 * Potential
    <3>1. Potential = Volume + SumFunction(Lags) + Abs(Stands)
      BY <1>5 DEF Potential
    <3>2. Potential' = Volume + SumFunction(Lags) + (Abs(Net') + Abs(Net' - Stands))
      BY <1>4, <1>5 DEF Potential
    <3>3. SumFunction(Lags) \in Nat /\ Volume \in Nat
      BY <1>6
    <3> QED BY <3>1, <3>2, <3>3, <2>4
  <2>6. Lates' = Lates + 1
    BY <1>8, LatesCounted DEF get_position_greeks
  <2> QED BY <2>5, <2>6, <1>1 DEF PotentialMove, Trebles
<1> QED BY <1>7, <1>8

\* What get_order_delta returns.
LEMMA OrderDelta ==
    ASSUME TypeOK, OrderDeltaKnown
    PROVE  get_order_delta = SumFunction(Counts)
<1> DEFINE known == {o \in Entries : remaining[o] # None}
           g == [o \in known |-> Sign(size[o]) * remaining[o]]
<1>0. IsFiniteSet(Orders)
  BY HedgeAssumption DEF HedgeAssumption
<1>1. known \in SUBSET Orders
  BY DEF Entries
<1>2. g \in [known -> Int]
  <2>1. \A o \in known : size[o] \in Int /\ remaining[o] \in Int
    BY DEF Entries, TypeOK
  <2>2. \A o \in known : Sign(size[o]) * remaining[o] \in Int
    BY <2>1, SignTimes
  <2> HIDE DEF known
  <2> QED BY <2>2
<1>3. Counts \in [Orders -> Int]
  BY Parts DEF PartsTyped
<1>4. \A o \in Orders : Counts[o] = IF o \in known THEN g[o] ELSE 0
  <2> SUFFICES ASSUME NEW o \in Orders
               PROVE  Counts[o] = IF o \in known THEN g[o] ELSE 0
    OBVIOUS
  <2>1. Counts[o] = Counted(o)
    BY DEF Counts
  <2>2. CASE o \in known
    <3>1. remaining[o] # Absent /\ remaining[o] # None
      BY <2>2 DEF Entries
    <3> QED BY <2>1, <2>2, <3>1 DEF Counted, CountedLeft
  <2>3. CASE o \notin known
    <3>1. remaining[o] = Absent
      BY <2>3 DEF Entries, OrderDeltaKnown
    <3>2. CountedLeft(o) = 0
      BY <3>1 DEF CountedLeft
    <3>3. Sign(size[o]) * 0 = 0
      BY SignTimes DEF TypeOK
    <3> QED BY <2>1, <2>3, <3>2, <3>3 DEF Counted
  <2> QED BY <2>2, <2>3
<1>5. get_order_delta = SumFunction(g)
  BY DEF get_order_delta
<1> HIDE DEF g, known
<1>6. SumFunction(Counts) = SumFunction(g)
  BY <1>0, <1>1, <1>2, <1>3, <1>4, SumOfPart
<1> QED BY <1>5, <1>6

\* A round that trades nothing.
LEMMA RoundEnds ==
    ASSUME TypeOK, TypeOK', hedger = "orders", hedger' # "orders",
           UNCHANGED <<market, account, shock, misread>>,
           UNCHANGED <<orders, remaining>>, Lates' = Lates
    PROVE  Grows
<1>1. \A o \in Orders : OrderSame(o)
  BY DEF OrderSame, orders
<1>2. \A c \in Options : OptionSame(c)
  BY DEF OptionSame, market, account
<1>3. /\ Volume' = Volume /\ SumFunction(Lags)' = SumFunction(Lags)
      /\ Stands' = Stands
  BY <1>1, <1>2, NothingMoves
<1>4. Owed = Abs(Net) + Abs(Net - Stands) /\ Owed' = Abs(Stands)
  BY <1>3 DEF Owed
<1>5. /\ Net \in Int /\ Stands \in Int
      /\ Volume \in Int /\ SumFunction(Lags) \in Int /\ Owed \in Int
  BY Parts, SameVolume DEF PartsTyped
<1>6. Abs(Stands) <= Abs(Net) + Abs(Net - Stands)
  <2>1. \A n, s \in Int : Abs(s) <= Abs(n) + Abs(n - s)
    BY DEF Abs
  <2> QED BY <2>1, <1>5, Zenon
<1>7. Owed' \in Int /\ Owed' <= Owed
  BY <1>4, <1>6, PartsNext DEF PartsTyped
<1>8. Potential' <= Potential + 0
  BY <1>3, <1>5, <1>7 DEF Potential
<1>9. (shock + 2 * misread)' = shock + 2 * misread + 0
  BY DEF TypeOK
<1> QED BY <1>8, <1>9 DEF Grows

\* A round that places an order: what it owed to it is traded.
LEMMA HedgeMoves ==
    ASSUME TypeOK, TypeOK', OrdersInv, hedge
    PROVE  Grows
<1>1. /\ UNCHANGED <<market, filled, account, mainLoop, shock>>
      /\ hedger = "orders" /\ OrderDeltaKnown
  BY DEF hedge
<1>2. CASE UNCHANGED <<size, life, remaining>>
  <2>1. hedger' # "orders"
    BY DEF hedge
  <2>2. Lates' = Lates
    BY LatesCounted DEF hedge, Events
  <2> QED BY <1>1, <1>2, <2>1, <2>2, RoundEnds DEF orders, mainLoop
<1>3. CASE ~UNCHANGED <<size, life, remaining>>
  <2> DEFINE net == seen + get_order_delta
  <2>1. PICK p \in Orders : Places(p, -net) /\ UNCHANGED happened /\ hedger' = "placing"
    BY <1>3 DEF hedge, Places, HedgeOrders
  <2>2. net = Net
    BY <1>1, OrderDelta DEF Net
  <2> HIDE DEF net
  <2>3. net \in Int /\ Stands \in Int /\ Stands' \in Int
    BY <2>2, Parts, PartsNext DEF PartsTyped
  <2>4. /\ \A o \in Orders : o # p => OrderSame(o)
        /\ size'[p] = -net /\ life'[p] = "sent"
    BY <1>1, <2>1 DEF Places, OrderSame, TypeOK
  <2>5. \A c \in Options : OptionSame(c)
    BY <1>1 DEF OptionSame, market, account
  <2>6. life[p] = "unused" /\ size[p] = 0
    BY <2>1 DEF Places, OrdersInv, OrderKept
  <2>7. /\ Effect(p) = 0 /\ Effect(p)' = -net
        /\ Abs(size[p]) = 0 /\ Abs(size[p])' = Abs(net)
    <3>1. Effect(p) = 0 /\ Effect(p)' = -net
      BY <2>4, <2>6 DEF Effect
    <3>2. \A n \in Int : Abs(-n) = Abs(n)
      BY DEF Abs
    <3>3. Abs(size[p]) = 0
      BY <2>6 DEF Abs
    <3>4. Abs(size[p])' = Abs(-net)
      BY <2>4
    <3> QED BY <3>1, <3>2, <3>3, <3>4, <2>3
  <2>8. /\ SumFunction(Effects)' = SumFunction(Effects) + Effect(p)' - Effect(p)
        /\ SumFunction(Trades)'
               = SumFunction(Trades) + Abs(size[p])' - Abs(size[p])
    BY <2>4, OneOrderChanges
  <2>9. Values' = Values /\ Lags' = Lags
    BY <2>5, NoOptionChanges
  <2>10. /\ SumFunction(Values) \in Int /\ SumFunction(Effects) \in Int
         /\ SumFunction(Trades) \in Int /\ SumFunction(Lags) \in Int
    BY Parts DEF PartsTyped
  <2>11. Stands' = Stands - net
    BY <2>7, <2>8, <2>9, <2>10, <2>3 DEF Stands
  <2>12. Abs(net) \in Nat /\ Abs(net - Stands) \in Nat /\ Abs(Stands - net) = Abs(net - Stands)
    <3>1. \A n, s \in Int : Abs(n) \in Nat /\ Abs(n - s) \in Nat /\ Abs(s - n) = Abs(n - s)
      BY DEF Abs
    <3> QED BY <3>1, <2>3, Zenon
  <2>13. Volume' = Volume + Abs(net) /\ Volume \in Int
    <3>1. SumFunction(Trades)' = SumFunction(Trades) + Abs(net) - 0
      BY <2>7, <2>8
    <3> QED BY <3>1, <2>10, <2>12, SameVolume
  <2>14. Owed = Abs(net) + Abs(net - Stands) /\ Owed' = Abs(net - Stands)
    <3>1. Owed = Abs(net) + Abs(net - Stands)
      BY <1>1, <2>2 DEF Owed
    <3>2. hedger' = "placing"
      BY <2>1
    <3>3. Owed' = Abs(Stands')
      BY <3>2 DEF Owed
    <3> QED BY <3>1, <3>3, <2>11, <2>12
  <2>15. Potential' <= Potential + 0
    <3>1. Potential = Volume + SumFunction(Lags) + (Abs(net) + Abs(net - Stands))
      BY <2>14 DEF Potential
    <3>2. Potential' = Volume + Abs(net) + SumFunction(Lags) + Abs(net - Stands)
      BY <2>9, <2>13, <2>14 DEF Potential
    <3>3. SumFunction(Lags) \in Int
      BY <2>10
    <3> QED BY <3>1, <3>2, <3>3, <2>12, <2>13
  <2>16. (shock + 2 * misread)' = shock + 2 * misread + 0
    BY <1>1 DEF TypeOK, mainLoop
  <2>17. Lates' = Lates
    BY <2>1, LatesCounted
  <2> QED BY <2>15, <2>16, <2>17 DEF Grows
<1> QED BY <1>2, <1>3

-----------------------------------------------------------------------------
(* The theorems.                                                             *)

LEMMA EveryMove ==
    ASSUME TypeOK, TypeOK', OrdersInv, OrdersInv', StockInv, Next
    PROVE  PotentialMove
<1>1. ASSUME NEW c \in Options,
             \/ \E n \in {-1, 1} : Trade(c, n)
             \/ \E d \in UnitDeltas : Move(c, d)
             \/ Expire(c)
      PROVE  PotentialMove
  BY <1>1, TradeGrows, MoveGrows, ExpireGrows DEF PotentialMove
<1>2. ASSUME NEW o \in Orders, Fill(o) \/ Cancel(o) \/ openOrder(o) \/ Reject(o)
      PROVE  PotentialMove
  BY <1>2, FillMoves, CancelMoves, AnswerMoves DEF PotentialMove
<1>3. ASSUME NEW o \in Orders, orderStatus(o) \/ error(o)
      PROVE  PotentialMove
  BY <1>3, StatusMoves
<1>4. CASE \/ \E c \in Contracts : updatePortfolio(c)
           \/ get_option_expiries \/ ComputeRaises \/ Placed
  BY <1>4, OtherMoves
<1>5. CASE compute_option_position_greeks
  BY <1>5, ComputeGrows DEF PotentialMove
<1>6. CASE get_position_greeks
  BY <1>6, RoundMoves
<1>7. CASE NoHedge
  <2>1. Lates' = Lates
    BY <1>7, LatesCounted DEF NoHedge
  <2>2. Grows
    BY <1>7, <2>1, RoundEnds DEF NoHedge, mainLoop
  <2> QED BY <2>2 DEF PotentialMove
<1>8. CASE hedge
  BY <1>8, HedgeMoves DEF PotentialMove
<1>9. ASSUME NEW o \in UserOrders, NEW n \in {-1, 1}, UserOrder(o, n)
      PROVE  PotentialMove
  BY <1>9, UserMoves DEF PotentialMove
<1> QED BY <1>1, <1>2, <1>3, <1>4, <1>5, <1>6, <1>7, <1>8, <1>9, Actions
        DEF MainLoop, Hedge

PotentialInv == Potential <= (shock + 2 * misread) * PowerOfThree[Lates]

LEMMA PotentialStep ==
    ASSUME TypeOK, TypeOK', PotentialInv, PotentialMove
    PROVE  PotentialInv'
<1> DEFINE a == Potential
           b == shock + 2 * misread
           l == Lates
           k == PowerOfThree[l]
<1>1. a \in Nat /\ b \in Nat /\ l \in Nat
  BY Parts, LatesCounted DEF PartsTyped, TypeOK
<1>2. a' \in Nat
  BY PartsNext DEF PartsTyped
<1>3. k \in Nat /\ k >= 1 /\ PowerOfThree[l + 1] = 3 * k
  <2> HIDE DEF l
  <2> QED BY <1>1, Powers
<1>4. a <= b * k
  BY DEF PotentialInv
<1>5. PotentialInv' = (a' <= b' * PowerOfThree[l'])
  BY DEF PotentialInv
<1>6. CASE Grows
  <2>1. PICK d \in Nat : b' = b + d /\ l' = l /\ a' <= a + d
    BY <1>6 DEF Grows
  <2> HIDE DEF a, b, l
  <2>2. PowerOfThree[l'] = k
    BY <2>1
  <2> HIDE DEF k
  <2>3. a + d <= (b + d) * k
    BY <1>1, <1>3, <1>4, BoundGrows
  <2>4. (b + d) * k \in Nat
    BY <1>1, <1>3
  <2>5. a' <= (b + d) * k
    BY <1>1, <1>2, <2>1, <2>3, <2>4
  <2> QED BY <1>5, <2>1, <2>2, <2>5
<1>7. CASE Trebles
  <2>1. b' = b /\ l' = l + 1 /\ a' <= 3 * a
    BY <1>7 DEF Trebles
  <2> HIDE DEF a, b, l
  <2>2. PowerOfThree[l'] = 3 * k
    BY <1>3, <2>1
  <2> HIDE DEF k
  <2>3. 3 * a <= b * (3 * k)
    BY <1>1, <1>3, <1>4, BoundTrebles
  <2>4. b * (3 * k) \in Nat
    BY <1>1, <1>3
  <2>5. a' <= b * (3 * k)
    BY <1>1, <1>2, <2>1, <2>3, <2>4
  <2> QED BY <1>5, <2>1, <2>2, <2>5
<1> QED BY <1>6, <1>7 DEF PotentialMove

\* The invariant of both theorems.
IInv == TypeOK /\ OrdersInv /\ StockInv /\ PotentialInv

LEMMA InitIInv == Init => IInv
<1> SUFFICES ASSUME Init PROVE IInv
  OBVIOUS
<1>0. IsFiniteSet(Options) /\ IsFiniteSet(Orders)
  BY HedgeAssumption DEF HedgeAssumption
<1>1. TypeOK
  <2>1. /\ held \in [Contracts -> Int] /\ unit \in [Options -> UnitDeltas]
        /\ expired \subseteq Options
        /\ size \in [Orders -> Int] /\ filled \in [Orders -> Nat]
        /\ life \in [Orders -> {"unused", "sent", "working", "cancelled", "rejected"}]
    BY DEF Init
  <2>2. \A o \in Orders : filled[o] <= Abs(size[o])
    BY DEF Init, Abs
  <2>3. /\ position \in [Contracts -> Int \cup {Absent}]
        /\ delta \in [Options -> Int \cup {None}]
        /\ remaining \in [Orders -> Nat \cup {None, Absent}]
    BY DEF Init
  <2>4. /\ main \in {"loop", "greeks"} /\ exps \subseteq {ExpiryOf[c] : c \in Options}
        /\ hedger \in {"sleep", "orders", "placing"} /\ seen \in Int
        /\ shock \in Nat /\ misread \in Nat /\ happened \in [Events -> Nat]
    BY DEF Init
  <2> QED BY <2>1, <2>2, <2>3, <2>4 DEF TypeOK
<1>2. OrdersInv
  BY HedgeAssumption DEF Init, OrdersInv, OrderKept, HedgeAssumption
<1>3. Stocks \subseteq Contracts /\ \A c \in Options : c \in Contracts
  BY DEF Contracts
<1>4. ASSUME NEW x \in Stocks
      PROVE  SumFunction(BoughtOf(filled, x)) = 0
  <2>1. filled \in [Orders -> Nat] /\ \A o \in Orders : filled[o] = 0
    BY <1>1 DEF Init, TypeOK
  <2>2. /\ BoughtOf(filled, x) \in [Orders -> Int]
        /\ \A o \in Orders : BoughtOf(filled, x)[o] = 0
    BY <1>1, <2>1, BoughtTyped
  <2> QED BY <1>0, <2>2, SumZero
<1>6. StockInv
  <2>1. GreeksInv
    BY DEF Init, GreeksInv
  <2>2. HeldInv
    BY <1>3, <1>4 DEF Init, HeldInv
  <2>3. ReportedAs(filled)
    BY <1>3, <1>4 DEF Init, ReportedAs, Report, Known
  <2>4. filled \in [Orders -> Nat] /\ \A o \in Orders : filled[o] <= filled[o]
    BY <1>1 DEF TypeOK
  <2>5. ReportedInv
    BY <2>3, <2>4 DEF ReportedInv
  <2> QED BY <2>1, <2>2, <2>5 DEF StockInv
<1>7. PotentialInv
  <2>1. PartsTyped
    BY <1>1, Parts
  <2>2. ASSUME NEW c \in Options PROVE Value(c) = 0 /\ Lag(c) = 0
    <3>1. held[c] = 0 /\ delta[c] = None /\ unit[c] \in Int
      BY <1>1, <1>3, ContractTypes, HedgeAssumption DEF Init
    <3>2. Value(c) = 0
      BY <3>1 DEF Value, Greeks
    <3>3. held[c] * unit[c] = 0
      BY <3>1
    <3>4. Abs(0 - 0) = 0
      BY DEF Abs
    <3> QED BY <3>2, <3>3, <3>4 DEF Lag
  <2>3. ASSUME NEW o \in Orders PROVE Effect(o) = 0 /\ Abs(size[o]) = 0
    BY DEF Init, Effect, Abs
  <2>4. /\ \A c \in Options : Values[c] = 0 /\ Lags[c] = 0
        /\ \A o \in Orders : Effects[o] = 0 /\ Trades[o] = 0
    BY <2>2, <2>3 DEF Values, Lags, Effects, Trades
  <2>5. SumFunction(Values) = 0 /\ SumFunction(Lags) = 0
    BY <1>0, <2>1, <2>4, SumZero DEF PartsTyped
  <2>6. SumFunction(Effects) = 0 /\ SumFunction(Trades) = 0
    BY <1>0, <2>1, <2>4, SumZero DEF PartsTyped
  <2>7. Owed = 0
    <3>1. Stands = 0
      BY <2>5, <2>6 DEF Stands
    <3>2. Owed = Abs(0)
      BY <3>1 DEF Init, Owed
    <3> QED BY <3>2 DEF Abs
  <2>8. Potential = 0
    BY <2>5, <2>6, <2>7, SameVolume DEF Potential
  <2>9. shock + 2 * misread = 0 /\ Lates \in Nat
    BY <1>1, LatesCounted DEF Init
  <2>10. PowerOfThree[Lates] \in Nat
    BY <2>9, Powers
  <2>11. 0 * PowerOfThree[Lates] = 0
    BY <2>10
  <2> QED BY <2>8, <2>9, <2>11 DEF PotentialInv
<1> QED BY <1>1, <1>2, <1>6, <1>7 DEF IInv

LEMMA StepIInv == IInv /\ [Next]_vars => IInv'
<1> SUFFICES ASSUME IInv, [Next]_vars PROVE IInv'
  OBVIOUS
<1>1. CASE Next
  <2>1. TypeOK /\ OrdersInv /\ StockInv /\ PotentialInv
    BY DEF IInv
  <2>2. TypeOK'
    BY <1>1, <2>1, HedgeAssumption, TypeStep
  <2>3. OrdersInv'
    BY <1>1, <2>1, HedgeAssumption, OrdersStep
  <2>4. StockInv'
    BY <1>1, <2>1, <2>2, HedgeAssumption, StockStep
  <2>5. PotentialMove
    BY <1>1, <2>1, <2>2, <2>3, EveryMove
  <2>6. PotentialInv'
    BY <2>1, <2>2, <2>5, PotentialStep
  <2> QED BY <2>2, <2>3, <2>4, <2>6 DEF IInv
<1>2. CASE UNCHANGED vars
  <2>1. TypeOK'
    BY <1>2 DEF IInv, TypeOK, vars
  <2>2. OrdersInv'
    BY <1>2 DEF IInv, OrdersInv, OrderKept, Left, vars
  <2>3. StockInv'
    <3>1. UNCHANGED <<held, size, filled, position, delta>>
      BY <1>2 DEF vars
    <3>2. GreeksInv' /\ HeldInv'
      BY <3>1 DEF IInv, StockInv, GreeksInv, HeldInv, Known, BoughtOf
    <3>3. PICK g \in [Orders -> Nat] : /\ \A o \in Orders : g[o] <= filled[o]
                                       /\ ReportedAs(g)
      BY DEF IInv, StockInv, ReportedInv
    <3>4. \A x \in Stocks :
             Report(x)' = SumFunction([o \in Orders |->
                              IF StockOf[o] = x THEN Sign(size'[o]) * g[o] ELSE 0])
      BY <3>1, <3>3 DEF ReportedAs, Report, Known, BoughtOf
    <3>5. \A o \in Orders : g[o] <= filled'[o]
      BY <3>1, <3>3
    <3>6. ReportedInv'
      BY <3>4, <3>5 DEF ReportedInv, ReportedAs, BoughtOf
    <3> QED BY <3>2, <3>6 DEF StockInv
  <2>4. PotentialMove
    <3>1. (\A o \in Orders : OrderSame(o)) /\ \A c \in Options : OptionSame(c)
      BY <1>2 DEF OrderSame, OptionSame, vars
    <3>2. UNCHANGED <<seen, shock, misread, hedger>> /\ Lates' = Lates
      BY <1>2 DEF Lates, vars
    <3> QED BY <2>1, <3>1, <3>2, IdleMoves DEF IInv
  <2>5. PotentialInv'
    BY <2>1, <2>4, PotentialStep DEF IInv
  <2> QED BY <2>1, <2>2, <2>3, <2>5 DEF IInv
<1> QED BY <1>1, <1>2 DEF vars

\* What the hedge trades is a part of what is traded.
LEMMA TurnoverInVolume ==
    ASSUME TypeOK
    PROVE  Turnover \in Int /\ Turnover <= Volume
<1> DEFINE f == [o \in Orders |-> IF o \in HedgeOrders THEN Abs(size[o]) ELSE 0]
           g == [o \in HedgeOrders |-> Abs(size[o])]
<1>0. IsFiniteSet(Orders) /\ HedgeOrders \in SUBSET Orders
  BY HedgeAssumption DEF HedgeAssumption, HedgeOrders
<1>1. \A o \in Orders : Abs(size[o]) \in Nat /\ Trades[o] = Abs(size[o])
  BY Parts DEF PartsTyped, Trades
<1>2. Trades \in [Orders -> Int]
  BY Parts DEF PartsTyped
<1>3. /\ f \in [Orders -> Int] /\ g \in [HedgeOrders -> Int]
      /\ \A o \in Orders : f[o] = IF o \in HedgeOrders THEN g[o] ELSE 0
      /\ \A o \in Orders : f[o] <= Trades[o]
  BY <1>0, <1>1
<1>4. Turnover = SumFunction(g)
  BY DEF Turnover
<1> HIDE DEF f, g
<1>5. SumFunction(f) = SumFunction(g) /\ SumFunction(f) \in Int
  BY <1>0, <1>3, SumOfPart, SumInt
<1>6. SumFunction(f) <= SumFunction(Trades)
  BY <1>0, <1>2, <1>3, SumBound
<1> QED BY <1>4, <1>5, <1>6, SameVolume

LEMMA IInvAlways == Spec => []IInv
BY InitIInv, StepIInv, PTL DEF Spec

\* What DeltaHedgeEngine adds up is a number whenever it does: an option's delta
\* is one or is None, and get_net_greeks, which a None would fail, only runs
\* once there is none; no order fills beyond its size, so that remaining is
\* never negative.
THEOREM TypeCorrect == Spec => []TypeOK
<1>1. IInv => TypeOK
  BY DEF IInv
<1> QED BY <1>1, IInvAlways, PTL

\* What DeltaHedgeEngine trades is bounded by what the exposure has moved
\* without it, a user's stock order counting twice, and twice by what main_loop was
\* wrong about when it computed greeks, trebled by every report that overtakes the
\* hedge.
THEOREM TurnoverIsBounded == Spec => []TurnoverBounded
<1>1. IInv => TurnoverBounded
  <2> SUFFICES ASSUME IInv PROVE TurnoverBounded
    OBVIOUS
  <2> DEFINE bound == (shock + 2 * misread) * PowerOfThree[Lates]
  <2>1. /\ SumFunction(Lags) \in Nat /\ Owed \in Nat /\ Volume \in Nat
        /\ Potential = Volume + SumFunction(Lags) + Owed
    BY Parts, SameVolume DEF IInv, PartsTyped, Potential
  <2>2. bound \in Nat
    <3>1. /\ shock + 2 * misread \in Nat /\ Lates \in Nat
      BY LatesCounted DEF IInv, TypeOK
    <3>2. PowerOfThree[Lates] \in Nat
      BY <3>1, Powers
    <3> QED BY <3>1, <3>2
  <2>3. Potential <= bound
    BY DEF IInv, PotentialInv
  <2>4. Turnover \in Int /\ Turnover <= Volume
    BY TurnoverInVolume DEF IInv
  <2> HIDE DEF bound
  <2>5. Turnover <= bound
    BY <2>1, <2>2, <2>3, <2>4
  <2> QED BY <2>5 DEF bound, TurnoverBounded
<1> QED BY <1>1, IInvAlways, PTL
=============================================================================
