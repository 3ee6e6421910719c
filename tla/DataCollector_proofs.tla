------------------------- MODULE DataCollector_proofs -------------------------
(***************************************************************************)
(* What the collector's jobs keep true of option_queue, for any symbols,      *)
(* expiries, batches and calendar: while the market is open the queue is the  *)
(* day's list turned round, after the close every pair is asked for once      *)
(* more, and the updater is there in every session. It rests on when "option" *)
(* is in the scheduler: as long as it is not, nothing has touched the queue   *)
(* since it was filled; once it is, the market is open, or it was left over   *)
(* from a day whose queue ran empty because the morning's reset was missed.   *)
(***************************************************************************)
EXTENDS DataCollector, DataLemmas, FiniteSetTheorems

Pairs == Symbols \X Nat

\* The queues hold pairs, and the batch pairs of the day.
QueuesOK ==
    /\ order \in Seq(Pairs) /\ queue \in Seq(Pairs) /\ batch \in Seq(Pairs)
    /\ ToSet(batch) \subseteq ToSet(order)
    /\ run = "idle" => batch = <<>>
    /\ run = "taking" => queue # <<>> /\ Len(batch) < BATCH_SIZE

\* Filling: a thread puts its expiries in turn, each once.
FillingInv ==
    cron = "filling" =>
        /\ jobs = {}
        /\ \A s \in Symbols : todo[s] <= Expiries[s]
        /\ \A p \in ToSet(order) : p[2] <= Expiries[p[1]] - todo[p[1]]

\* A reset finds no run going on, and none begins before it is done.
ResetInv ==
    cron = "reset" => /\ run = "idle" /\ ~Closed
                      /\ "option" \in jobs => queue = <<>>

\* Nothing but the option job takes from the queue.
UntouchedInv == "option" \notin jobs => queue = order /\ run = "idle"

\* The day's list turned round.
Turned == TurnedRound(queue, order, Pairs)

\* Left over from a day that is done, because the reset has not come.
LeftOver ==
    /\ cron = "reset" \/ "reset" \in missed
    /\ queue = <<>> /\ run = "idle"

SnapshotInv ==
    "option" \in jobs /\ ~Uncovered =>
        /\ ToSet(order) \subseteq ToSet(queue) \cup ToSet(batch) \cup closing
        /\ ~Closed => (Open /\ Turned) \/ LeftOver

CollectorInv ==
    /\ TypeOK /\ QueuesOK /\ FillingInv /\ ResetInv /\ UntouchedInv /\ SnapshotInv
    /\ Collects

-----------------------------------------------------------------------------
(* Time, as the clock module has it.                                       *)

\* What the schedule covered earlier that it covers now.
LEMMA Covered ==
    ASSUME ClockTypeOK,
           \/ UNCHANGED clock \/ NextMorning \/ Advance("early", "opening")
           \/ Advance("opening", "session") \/ Advance("session", "closed")
    PROVE  ClockTypeOK' /\ (~Uncovered' => ~Uncovered)
<1>1. day \in Int /\ day' \in Int /\ LastDay \in Int
      /\ TradingDays \subseteq Int /\ ClockTypeOK'
  BY ClockAssumption DEF ClockTypeOK, clock, NextMorning, Advance, Phases
<1>2. day' = day + 1 \/ (day' = day /\ (Closed => Closed'))
  BY DEF clock, NextMorning, Advance, Closed
<1>3. Uncovered => Uncovered'
  BY <1>1, <1>2 DEF Uncovered
<1> QED BY <1>1, <1>3

-----------------------------------------------------------------------------
(* Each step keeps CollectorInv.                                           *)

\* Steps that touch neither the queue, nor its list, nor the jobs, nor time.
LEMMA WalkKeeps ==
    ASSUME CollectorInv, TypeOK', UNCHANGED <<clock, jobs, cron, options, faults>>
    PROVE  CollectorInv'
<1> USE DEF CollectorInv, options, clock, faults
<1>1. Open' = Open /\ Closed' = Closed /\ Uncovered' = Uncovered
  BY DEF Open, Closed, Uncovered
<1>2. QueuesOK' /\ FillingInv' /\ ResetInv' /\ UntouchedInv'
  BY <1>1 DEF QueuesOK, FillingInv, ResetInv, UntouchedInv
<1>3. Turned' = Turned /\ LeftOver' = LeftOver
  BY DEF Turned, LeftOver
<1>4. SnapshotInv' /\ Collects'
  BY <1>1, <1>3 DEF SnapshotInv, Collects
<1> QED BY <1>2, <1>4

LEMMA DatesInRange ==
    ASSUME TypeOK
    PROVE  /\ day \in Int /\ Back \in Int /\ ResetBack \in Int /\ Ahead \in Int
           /\ day - ResetBack \in Dates /\ day + Ahead \in Dates /\ day - Back \in Dates
           /\ Dates \subseteq Int
BY ClockAssumption, CollectorAssumption DEF TypeOK, ClockTypeOK, Dates

LEMMA WalksKeep ==
    ASSUME CollectorInv, update_general_info \/ update_earnings \/ NextDate
    PROVE  CollectorInv'
<1> USE DEF CollectorInv
<1>1. TypeOK'
  <2>1. CASE update_general_info
    <3>1. Cardinality(Symbols) \in Nat /\ Cardinality(Symbols) # 0
      BY CollectorAssumption, FS_CardinalityType, FS_EmptySet
    <3>2. symbols_curr' \in 0 .. Cardinality(Symbols) - 1
      BY <2>1, <3>1 DEF update_general_info, TypeOK
    <3> QED BY <2>1, <3>2 DEF update_general_info, TypeOK, ClockTypeOK, clock, options, faults
  <2>2. CASE update_earnings
    BY <2>2 DEF update_earnings, TypeOK, ClockTypeOK, clock, options, faults
  <2>3. CASE NextDate
    <3>1. curr_earning_date' \in Dates
      <4>1. curr_earning_date \in Dates /\ lookahead_earning_date \in Dates
        BY DEF TypeOK
      <4>2. curr_earning_date + 1 <= lookahead_earning_date => curr_earning_date + 1 \in Dates
        BY <4>1, ClockAssumption, CollectorAssumption DEF Dates
      <4> QED BY <2>3, <4>1, <4>2, DatesInRange DEF NextDate
    <3> QED BY <2>3, <3>1 DEF NextDate, TypeOK, ClockTypeOK, clock, options, faults
  <2> QED BY <2>1, <2>2, <2>3
<1>2. UNCHANGED <<clock, jobs, cron, options, faults>>
  BY DEF update_general_info, update_earnings, NextDate
<1> QED BY <1>1, <1>2, WalkKeeps

\* A thread of _put_job_queue puts what is not there yet.
LEMMA PutKeeps ==
    ASSUME CollectorInv, NEW s \in Symbols, _put_job_queue(s)
    PROVE  CollectorInv'
<1> USE DEF CollectorInv
<1>1. /\ cron = "filling" /\ jobs = {} /\ todo[s] > 0 /\ todo[s] <= Expiries[s]
      /\ todo[s] \in Nat /\ Expiries[s] \in Nat /\ queue = order /\ run = "idle"
      /\ order \in Seq(Pairs) /\ batch = <<>>
      /\ UNCHANGED <<clock, jobs, cron, batch, run, closing, walks, faults>>
  BY CollectorAssumption DEF _put_job_queue, FillingInv, UntouchedInv, QueuesOK, TypeOK
<1>2. Open' = Open /\ Closed' = Closed /\ Uncovered' = Uncovered
  BY <1>1 DEF Open, Closed, Uncovered, clock
<1>3. /\ todo' \in [Symbols -> Nat] /\ \A t \in Symbols : todo'[t] <= todo[t]
      /\ order' = queue' /\ order' \in Seq(Pairs) /\ IsInjective(order')
      /\ ToSet(order) \subseteq ToSet(order')
      /\ \A p \in ToSet(order') : /\ p[1] \in Symbols /\ p[2] \in 1 .. Expiries[p[1]]
                                  /\ p[2] <= Expiries[p[1]] - todo'[p[1]]
  <2>1. \A p \in ToSet(order) : /\ p[1] \in Symbols /\ p[2] \in 1 .. Expiries[p[1]]
                                /\ p[2] <= Expiries[p[1]] - todo[p[1]]
    BY <1>1 DEF TypeOK, FillingInv, ToSet
  <2>2. CASE /\ todo' = [todo EXCEPT ![s] = @ - 1]
             /\ queue' = Append(queue, <<s, Expiries[s] - todo'[s]>>)
             /\ order' = Append(order, <<s, Expiries[s] - todo'[s]>>)
    <3>1. PICK e : e = Expiries[s] - todo[s] + 1
      OBVIOUS
    <3>2. /\ todo' \in [Symbols -> Nat] /\ todo'[s] = todo[s] - 1
          /\ \A t \in Symbols : t # s => todo'[t] = todo[t]
          /\ e \in 1 .. Expiries[s] /\ e = Expiries[s] - todo'[s]
      <4>1. todo \in [Symbols -> Nat]
        BY DEF TypeOK
      <4>2. /\ todo'[s] = todo[s] - 1 /\ DOMAIN todo' = Symbols
            /\ todo' = [t \in Symbols |-> IF t = s THEN todo[s] - 1 ELSE todo[t]]
        BY <2>2, <4>1
      <4>3. todo[s] - 1 \in Nat
        BY <1>1
      <4>4. todo' \in [Symbols -> Nat]
        BY <4>1, <4>2, <4>3
      <4>5. \A t \in Symbols : t # s => todo'[t] = todo[t]
        BY <4>2
      <4>6. e \in 1 .. Expiries[s] /\ e = Expiries[s] - (todo[s] - 1)
        BY <3>1, <1>1
      <4> QED BY <4>2, <4>4, <4>5, <4>6
    <3>3. <<s, e>> \in Pairs /\ order' = Append(order, <<s, e>>)
      BY <2>2, <3>2 DEF Pairs
    <3>4. <<s, e>> \notin ToSet(order)
      BY <2>1, <3>1, <1>1
    <3>5. /\ order' \in Seq(Pairs) /\ ToSet(order') = ToSet(order) \cup {<<s, e>>}
          /\ IsInjective(order')
      <4>1. IsInjective(order)
        BY DEF TypeOK
      <4>2. PICK p : p = <<s, e>>
        OBVIOUS
      <4>3. p \in Pairs /\ p \notin ToSet(order) /\ order' = Append(order, p)
        BY <3>3, <3>4, <4>2
      <4>4. /\ Append(order, p) \in Seq(Pairs)
            /\ ToSet(Append(order, p)) = ToSet(order) \cup {p}
            /\ IsInjective(order) /\ p \notin ToSet(order) => IsInjective(Append(order, p))
        BY <4>3, <1>1, QueueAppend
      <4> QED BY <4>1, <4>2, <4>3, <4>4
    <3>6. queue' = order'
      BY <2>2, <1>1
    <3>7. \A t \in Symbols : todo'[t] <= todo[t] /\ todo'[t] \in Nat /\ todo[t] \in Nat
                             /\ Expiries[t] \in Nat
      <4>1. todo \in [Symbols -> Nat] /\ Expiries \in [Symbols -> Nat]
        BY CollectorAssumption DEF TypeOK
      <4>2. todo[s] - 1 <= todo[s]
        BY <1>1
      <4>3. \A t \in Symbols : todo[t] \in Nat /\ Expiries[t] \in Nat /\ todo'[t] \in Nat
        BY <4>1, <3>2
      <4>4. \A t \in Symbols : todo'[t] = todo[t] \/ t = s
        BY <3>2
      <4> HIDE DEF CollectorInv
      <4> QED BY <4>2, <4>3, <4>4, <3>2
    <3> HIDE DEF CollectorInv
    <3>8. ASSUME NEW p \in ToSet(order')
          PROVE  /\ p[1] \in Symbols /\ p[2] \in 1 .. Expiries[p[1]]
                 /\ p[2] <= Expiries[p[1]] - todo'[p[1]]
      <4>1. CASE p = <<s, e>>
        <5>1. p[1] = s /\ p[2] = e
          BY <4>1
        <5>2. e <= Expiries[s] - todo'[s]
          BY <3>2, <3>7
        <5> QED BY <5>1, <5>2, <3>2
      <4>2. CASE p \in ToSet(order)
        <5>1. PICK u, k : u = p[1] /\ k = p[2]
          OBVIOUS
        <5>2. u \in Symbols /\ k \in 1 .. Expiries[u] /\ k <= Expiries[u] - todo[u]
          BY <2>1, <4>2, <5>1
        <5>3. k <= Expiries[u] - todo'[u]
          BY <5>2, <3>7
        <5> QED BY <5>1, <5>2, <5>3
      <4> QED BY <4>1, <4>2, <3>5
    <3>9. ToSet(order) \subseteq ToSet(order')
      BY <3>5
    <3> QED BY <3>2, <3>5, <3>6, <3>7, <3>8, <3>9
  <2>3. CASE /\ todo[s] = Expiries[s]
             /\ todo' = [todo EXCEPT ![s] = 0]
             /\ UNCHANGED <<queue, order>>
    <3>1. todo \in [Symbols -> Nat] /\ Expiries \in [Symbols -> Nat]
      BY CollectorAssumption DEF TypeOK
    <3>2. todo' \in [Symbols -> Nat]
      BY <2>3, <3>1
    <3>3. todo'[s] = 0 /\ \A t \in Symbols : t # s => todo'[t] = todo[t]
      BY <2>3, <3>1
    <3>4. ASSUME NEW t \in Symbols
          PROVE  todo'[t] <= todo[t] /\ todo'[t] \in Nat /\ todo[t] \in Nat /\ Expiries[t] \in Nat
      <4>1. todo'[t] \in Nat /\ todo[t] \in Nat /\ Expiries[t] \in Nat
        BY <3>1, <3>2
      <4>2. todo'[t] = 0 \/ todo'[t] = todo[t]
        BY <3>3
      <4> QED BY <4>1, <4>2
    <3>5. ASSUME NEW p \in ToSet(order)
          PROVE  /\ p[1] \in Symbols /\ p[2] \in 1 .. Expiries[p[1]]
                 /\ p[2] <= Expiries[p[1]] - todo'[p[1]]
      <4>1. PICK u, k : u = p[1] /\ k = p[2]
        OBVIOUS
      <4>2. u \in Symbols /\ k \in 1 .. Expiries[u] /\ k <= Expiries[u] - todo[u]
        BY <2>1, <4>1
      <4>3. k <= Expiries[u] - todo'[u]
        BY <4>2, <3>4
      <4> QED BY <4>1, <4>2, <4>3
    <3>6. IsInjective(order)
      BY DEF TypeOK
    <3> QED BY <2>3, <3>2, <3>4, <3>5, <3>6, <1>1
  <2> QED BY <2>2, <2>3 DEF _put_job_queue
<1>4. TypeOK'
  <2>1. \A i \in DOMAIN order' :
           order'[i][1] \in Symbols /\ order'[i][2] \in 1 .. Expiries[order'[i][1]]
    BY <1>3 DEF ToSet
  <2> QED BY <2>1, <1>1, <1>3 DEF TypeOK, ClockTypeOK, clock, walks, faults
<1>5. QueuesOK'
  BY <1>1, <1>3 DEF QueuesOK
<1>6. FillingInv'
  <2>1. \A t \in Symbols : todo'[t] <= Expiries[t]
    BY <1>1, <1>3, CollectorAssumption DEF FillingInv, TypeOK
  <2> QED BY <2>1, <1>1, <1>3 DEF FillingInv
<1>7. ResetInv' /\ UntouchedInv' /\ SnapshotInv' /\ Collects'
  BY <1>1, <1>3 DEF ResetInv, UntouchedInv, SnapshotInv, Collects
<1> QED BY <1>4, <1>5, <1>6, <1>7

\* Filled, and the option job added where the market is open.
LEMMA InitJobsKeep ==
    ASSUME CollectorInv, init_jobs
    PROVE  CollectorInv'
<1> USE DEF CollectorInv
<1>1. /\ cron = "filling" /\ jobs = {} /\ queue = order /\ run = "idle" /\ batch = <<>>
      /\ cron' = "idle" /\ UNCHANGED <<clock, options, walks, faults>>
      /\ jobs' \subseteq JobNames
      /\ "option" \in jobs' <=> ~Uncovered /\ Open
      /\ order \in Seq(Pairs)
  BY DEF init_jobs, FillingInv, UntouchedInv, QueuesOK, JobNames
<1>2. Open' = Open /\ Closed' = Closed /\ Uncovered' = Uncovered
  BY <1>1 DEF Open, Closed, Uncovered, clock
<1>3. TypeOK'
  BY <1>1 DEF TypeOK, ClockTypeOK, clock, options, walks, faults
<1>4. QueuesOK' /\ FillingInv' /\ ResetInv' /\ UntouchedInv'
  BY <1>1 DEF QueuesOK, FillingInv, ResetInv, UntouchedInv, options
<1>5. Turned'
  BY <1>1, QueueNotTurned DEF Turned, options
<1>6. SnapshotInv'
  BY <1>1, <1>2, <1>5 DEF SnapshotInv, options
<1>7. Collects'
  BY <1>1, <1>2 DEF Collects, clock
<1> QED BY <1>3, <1>4, <1>6, <1>7

LEMMA ResetKeeps ==
    ASSUME CollectorInv, reset
    PROVE  CollectorInv'
<1> USE DEF CollectorInv
<1>1. /\ cron = "reset" /\ run = "idle" /\ batch = <<>>
      /\ jobs' = {} /\ cron' = "filling" /\ queue' = <<>> /\ order' = <<>>
      /\ todo' = Expiries /\ closing' = {}
      /\ curr_earning_date' \in Dates /\ lookahead_earning_date' \in Dates
      /\ UNCHANGED <<clock, batch, run, symbols_curr, asking, faults>>
  BY DatesInRange DEF reset, ResetInv, QueuesOK
<1>2. ToSet(<<>>) = {} /\ IsInjective(<<>>) /\ <<>> \in Seq(Pairs) /\ DOMAIN <<>> = {}
  BY QueueEmpty, EmptySeq, LenProperties
<1>3. TypeOK'
  BY <1>1, <1>2, CollectorAssumption DEF TypeOK, ClockTypeOK, clock, faults
<1>4. QueuesOK' /\ ResetInv' /\ UntouchedInv' /\ SnapshotInv' /\ Collects'
  BY <1>1, <1>2 DEF QueuesOK, ResetInv, UntouchedInv, SnapshotInv, Collects
<1>5. FillingInv'
  BY <1>1, <1>2, CollectorAssumption DEF FillingInv
<1> QED BY <1>3, <1>4, <1>5

LEMMA HandleMarketOpenKeeps ==
    ASSUME CollectorInv, handle_market_open
    PROVE  CollectorInv'
<1> USE DEF CollectorInv
<1>1. /\ cron = "opening" /\ cron' = "idle" /\ UNCHANGED <<clock, options, walks, faults>>
      /\ jobs' \subseteq JobNames /\ jobs \subseteq jobs'
      /\ "option" \in jobs' <=> "option" \in jobs \/ (~Uncovered /\ Open)
  BY DEF handle_market_open, TypeOK, JobNames
<1>2. Open' = Open /\ Closed' = Closed /\ Uncovered' = Uncovered
  BY <1>1 DEF Open, Closed, Uncovered, clock
<1>3. TypeOK'
  BY <1>1 DEF TypeOK, ClockTypeOK, clock, options, walks, faults
<1>4. QueuesOK' /\ FillingInv' /\ ResetInv' /\ UntouchedInv'
  BY <1>1 DEF QueuesOK, FillingInv, ResetInv, UntouchedInv, options
<1>5. SnapshotInv'
  <2>1. CASE "option" \in jobs
    <3>1. Turned' = Turned /\ (LeftOver => LeftOver')
      BY <1>1 DEF Turned, LeftOver, options, faults
    <3> QED BY <2>1, <3>1, <1>1, <1>2 DEF SnapshotInv, options
  <2>2. CASE "option" \notin jobs
    <3>1. queue = order /\ order \in Seq(Pairs)
      BY <2>2 DEF UntouchedInv, QueuesOK
    <3>2. Turned'
      BY <3>1, <1>1, QueueNotTurned DEF Turned, options
    <3> QED BY <2>2, <3>1, <3>2, <1>1, <1>2 DEF SnapshotInv, options
  <2> QED BY <2>1, <2>2
<1>6. Collects'
  BY <1>1, <1>2 DEF Collects
<1> QED BY <1>3, <1>4, <1>5, <1>6

LEMMA UpdateOptionKeeps ==
    ASSUME CollectorInv, UpdateOption
    PROVE  CollectorInv'
<1> USE DEF CollectorInv
<1>1. /\ "option" \in jobs /\ run = "idle" /\ queue # <<>> /\ run' = "taking"
      /\ UNCHANGED <<clock, jobs, cron, todo, queue, order, batch, closing, walks, faults>>
  BY DEF UpdateOption
<1>2. Open' = Open /\ Closed' = Closed /\ Uncovered' = Uncovered
  BY <1>1 DEF Open, Closed, Uncovered, clock
<1>3. TypeOK'
  BY <1>1 DEF TypeOK, ClockTypeOK, clock, walks, faults
<1>4. batch = <<>> /\ Len(<<>>) = 0
  BY <1>1, EmptySeq DEF QueuesOK
<1>5. QueuesOK'
  BY <1>1, <1>4, CollectorAssumption DEF QueuesOK
<1>6. FillingInv' /\ ResetInv' /\ UntouchedInv'
  BY <1>1 DEF FillingInv, ResetInv, UntouchedInv
<1>7. SnapshotInv'
  BY <1>1, <1>2 DEF SnapshotInv, Turned, LeftOver
<1>8. Collects'
  BY <1>1, <1>2 DEF Collects, clock
<1> QED BY <1>3, <1>5, <1>6, <1>7, <1>8

\* One turn: behind the others while the market is open, out of the queue and
\* into the batch when it is not.
LEMMA TakeKeeps ==
    ASSUME CollectorInv, Take
    PROVE  CollectorInv'
<1> USE DEF CollectorInv
<1>0. PICK h, t : h = Head(queue) /\ t = Tail(queue)
  OBVIOUS
<1>1. /\ run = "taking" /\ queue # <<>> /\ Len(batch) < BATCH_SIZE
      /\ queue \in Seq(Pairs) /\ batch \in Seq(Pairs) /\ order \in Seq(Pairs)
      /\ "option" \in jobs /\ cron # "filling" /\ cron # "reset"
      /\ UNCHANGED <<clock, jobs, cron, todo, order, closing, walks, faults>>
  BY DEF Take, QueuesOK, UntouchedInv, FillingInv, ResetInv
<1>2. h \in Pairs /\ t \in Seq(Pairs) /\ ToSet(queue) = ToSet(t) \cup {h}
  BY <1>0, <1>1, QueueTake
<1>3. /\ Append(t, h) \in Seq(Pairs) /\ ToSet(Append(t, h)) = ToSet(t) \cup {h}
      /\ Append(batch, h) \in Seq(Pairs) /\ ToSet(Append(batch, h)) = ToSet(batch) \cup {h}
      /\ Len(Append(batch, h)) = Len(batch) + 1 /\ Append(t, h) # <<>>
      /\ Len(batch) \in Nat /\ <<>> \in Seq(Pairs) /\ Len(<<>>) = 0 /\ ToSet(<<>>) = {}
  <2>1. Append(t, h) \in Seq(Pairs) /\ ToSet(Append(t, h)) = ToSet(t) \cup {h}
    BY <1>2, QueueAppend
  <2>2. Append(batch, h) \in Seq(Pairs) /\ ToSet(Append(batch, h)) = ToSet(batch) \cup {h}
    BY <1>1, <1>2, QueueAppend
  <2>3. Len(Append(batch, h)) = Len(batch) + 1 /\ Len(batch) \in Nat
    BY <1>1, <1>2, AppendProperties, LenProperties
  <2>4. Append(t, h) # <<>>
    BY <1>2, AppendProperties
  <2>5. <<>> \in Seq(Pairs) /\ Len(<<>>) = 0 /\ ToSet(<<>>) = {}
    BY EmptySeq, QueueEmpty
  <2> QED BY <2>1, <2>2, <2>3, <2>4, <2>5
<1>4. Open' = Open /\ Closed' = Closed /\ Uncovered' = Uncovered
  BY <1>1 DEF Open, Closed, Uncovered, clock
<1>5. /\ queue' = IF ~Uncovered /\ Open THEN Append(t, h) ELSE t
      /\ batch' = IF Uncovered THEN <<>> ELSE Append(batch, h)
      /\ run' = IF Uncovered THEN "idle"
                ELSE IF Len(batch') = BATCH_SIZE \/ queue' = <<>> THEN "fetching" ELSE "taking"
  BY <1>0 DEF Take
<1> HIDE DEF CollectorInv
<1>6. QueuesOK'
  <2>1. ToSet(queue) \subseteq ToSet(order) /\ ToSet(batch) \subseteq ToSet(order)
    BY DEF CollectorInv, TypeOK, QueuesOK
  <2>2. queue' \in Seq(Pairs) /\ batch' \in Seq(Pairs) /\ ToSet(batch') \subseteq ToSet(order')
    BY <2>1, <1>1, <1>2, <1>3, <1>5
  <2>3. run' = "idle" => batch' = <<>>
    BY <1>5
  <2>4. run' = "taking" => queue' # <<>> /\ Len(batch') < BATCH_SIZE
    BY <1>1, <1>3, <1>5, CollectorAssumption
  <2> QED BY <2>2, <2>3, <2>4, <1>1 DEF QueuesOK
<1>7. TypeOK'
  <2>1. Len(batch') <= BATCH_SIZE /\ ToSet(queue') \subseteq ToSet(order)
    BY <1>1, <1>2, <1>3, <1>5, CollectorAssumption DEF CollectorInv, TypeOK
  <2>2. run' \in {"idle", "taking", "fetching"}
    BY <1>5
  <2> QED BY <2>1, <2>2, <1>1 DEF CollectorInv, TypeOK, ClockTypeOK, clock, walks, faults
<1>8. FillingInv' /\ ResetInv' /\ UntouchedInv'
  BY <1>1 DEF FillingInv, ResetInv, UntouchedInv
<1>9. SnapshotInv'
  <2> SUFFICES ASSUME ~Uncovered
               PROVE  /\ ToSet(order) \subseteq ToSet(queue') \cup ToSet(batch') \cup closing
                      /\ ~Closed => (Open /\ Turned')
    BY <1>1, <1>4 DEF SnapshotInv
  <2>1. /\ ToSet(order) \subseteq ToSet(queue) \cup ToSet(batch) \cup closing
        /\ ~Closed => Open /\ Turned
    BY <1>1 DEF CollectorInv, SnapshotInv, LeftOver
  <2>2. Open => queue' = Append(Tail(queue), Head(queue))
    BY <1>0, <1>5
  <2>3. ~Closed => Turned'
    BY <2>1, <2>2, <1>1, QueueTurn DEF Turned
  <2>4. ToSet(queue) \cup ToSet(batch) \subseteq ToSet(queue') \cup ToSet(batch')
    BY <1>2, <1>3, <1>5
  <2> QED BY <2>1, <2>3, <2>4
<1>10. Collects'
  BY <1>1, <1>4 DEF CollectorInv, Collects, clock
<1> QED BY <1>6, <1>7, <1>8, <1>9, <1>10 DEF CollectorInv

\* What was fetched after the close needs no fetching again; before it, it is
\* still in the queue.
LEMMA FetchKeeps ==
    ASSUME CollectorInv, Fetch
    PROVE  CollectorInv'
<1> USE DEF CollectorInv
<1>1. /\ run = "fetching" /\ run' = "idle" /\ batch' = <<>>
      /\ closing' = IF Closed THEN closing \cup ToSet(batch) ELSE closing
      /\ "option" \in jobs /\ cron # "filling" /\ cron # "reset"
      /\ ToSet(batch) \subseteq ToSet(order)
      /\ UNCHANGED <<clock, jobs, cron, todo, queue, order, walks, faults>>
  BY DEF Fetch, QueuesOK, UntouchedInv, FillingInv, ResetInv
<1>2. Open' = Open /\ Closed' = Closed /\ Uncovered' = Uncovered
  BY <1>1 DEF Open, Closed, Uncovered, clock
<1>3. ToSet(batch') = {} /\ batch' \in Seq(Pairs) /\ Len(batch') <= BATCH_SIZE
  BY <1>1, QueueEmpty, EmptySeq, LenProperties, CollectorAssumption
<1>4. TypeOK'
  <2>1. closing' \subseteq ToSet(order)
    BY <1>1 DEF TypeOK
  <2> QED BY <2>1, <1>1, <1>3 DEF TypeOK, ClockTypeOK, clock, walks, faults
<1>5. QueuesOK'
  BY <1>1, <1>3 DEF QueuesOK
<1>6. FillingInv' /\ ResetInv' /\ UntouchedInv'
  BY <1>1 DEF FillingInv, ResetInv, UntouchedInv
<1>7. SnapshotInv'
  <2> SUFFICES ASSUME ~Uncovered
               PROVE  /\ ToSet(order) \subseteq ToSet(queue) \cup ToSet(batch') \cup closing'
                      /\ ~Closed => (Open /\ Turned')
    BY <1>1, <1>2 DEF SnapshotInv
  <2>1. /\ ToSet(order) \subseteq ToSet(queue) \cup ToSet(batch) \cup closing
        /\ ~Closed => Open /\ Turned
    BY <1>1 DEF SnapshotInv, LeftOver
  <2>2. ~Closed => Turned' /\ ToSet(queue) = ToSet(order)
    BY <2>1, <1>1, QueueTurned DEF Turned
  <2> QED BY <2>1, <2>2, <1>1
<1>8. Collects'
  BY <1>1, <1>2 DEF Collects, clock
<1> QED BY <1>4, <1>5, <1>6, <1>7, <1>8

\* Six o'clock: what a day left, which is an empty queue where there was a run.
LEMMA SixKeeps ==
    ASSUME CollectorInv, Six
    PROVE  CollectorInv'
<1> USE DEF CollectorInv
<1>1. /\ cron = "idle" /\ run = "idle" /\ Closed /\ batch = <<>>
      /\ "option" \in jobs => queue = <<>>
      /\ phase' = "early"
      /\ cron' = "reset" \/ (cron' = "idle" /\ "reset" \in missed')
      /\ missed' \subseteq {"reset", "opening"}
      /\ UNCHANGED <<jobs, options, walks>>
  BY DEF Six, NextMorning, QueuesOK
<1>2. misses' \in 0 .. MaxMissed
  BY CollectorAssumption DEF Six, TypeOK
<1>3. ~Closed' /\ ClockTypeOK' /\ (~Uncovered' => ~Uncovered)
  <2>1. ClockTypeOK /\ NextMorning
    BY DEF Six, TypeOK
  <2> QED BY <1>1, <2>1, Covered DEF Closed
<1>4. TypeOK'
  BY <1>1, <1>2, <1>3 DEF TypeOK, options, walks
<1>5. QueuesOK' /\ FillingInv' /\ ResetInv' /\ UntouchedInv' /\ Collects'
  BY <1>1, <1>3 DEF QueuesOK, FillingInv, ResetInv, UntouchedInv, Collects, options
<1>6. SnapshotInv'
  <2>1. "option" \in jobs => LeftOver'
    BY <1>1 DEF LeftOver, options
  <2> QED BY <2>1, <1>1, <1>3 DEF SnapshotInv, options
<1> QED BY <1>4, <1>5, <1>6

\* Half past nine and the close, and the bell before it.
LEMMA DayKeeps ==
    ASSUME CollectorInv, MarketOpens \/ HalfPastNine \/ MarketCloses
    PROVE  CollectorInv'
<1> USE DEF CollectorInv
<1>1. /\ cron = "idle" /\ cron' \in {"idle", "opening"}
      /\ missed \subseteq missed' /\ missed' \subseteq {"reset", "opening"}
      /\ misses' \in 0 .. MaxMissed
      /\ UNCHANGED <<jobs, options, walks>>
  <2>1. /\ missed \subseteq {"reset", "opening"} /\ misses \in 0 .. MaxMissed
        /\ MaxMissed \in Nat
    BY CollectorAssumption DEF TypeOK
  <2>2. CASE MarketOpens \/ MarketCloses
    BY <2>1, <2>2 DEF MarketOpens, MarketCloses, faults
  <2>3. CASE HalfPastNine
    <3>1. /\ cron = "idle" /\ UNCHANGED <<jobs, options, walks>>
          /\ Fires("opening")
      BY <2>3 DEF HalfPastNine
    <3>2. CASE cron' = "opening" /\ UNCHANGED misses /\ missed' = missed
      BY <2>1, <3>1, <3>2
    <3>3. CASE /\ misses < MaxMissed /\ misses' = misses + 1
               /\ missed' = missed \cup {"opening"} /\ UNCHANGED cron
      BY <2>1, <3>1, <3>3
    <3> QED BY <3>1, <3>2, <3>3 DEF Fires
  <2> QED BY <2>2, <2>3
<1>2. /\ ClockTypeOK' /\ (~Uncovered' => ~Uncovered)
      /\ ~Closed' => ~Closed
      /\ ~Closed' /\ Open => Open'
  <2>1. \/ Advance("early", "opening") \/ Advance("opening", "session")
        \/ Advance("session", "closed")
    BY DEF MarketOpens, HalfPastNine, MarketCloses
  <2>2. ClockTypeOK
    BY DEF TypeOK
  <2>3. ClockTypeOK' /\ (~Uncovered' => ~Uncovered)
    BY <2>1, <2>2, Covered
  <2> QED BY <2>1, <2>3 DEF Advance, Closed, Open
<1>3. TypeOK'
  BY <1>1, <1>2 DEF TypeOK, options, walks
<1>4. QueuesOK' /\ FillingInv' /\ ResetInv' /\ UntouchedInv'
  BY <1>1 DEF QueuesOK, FillingInv, ResetInv, UntouchedInv, options
<1>5. SnapshotInv'
  <2>1. Turned' = Turned /\ (LeftOver => LeftOver')
    BY <1>1 DEF Turned, LeftOver, options
  <2> QED BY <2>1, <1>1, <1>2 DEF SnapshotInv, options
<1>6. Collects'
  BY DEF MarketOpens, HalfPastNine, MarketCloses, Advance, Fires, Collects
<1> QED BY <1>3, <1>4, <1>5, <1>6

-----------------------------------------------------------------------------
(* The invariant, and what it says of the collector.                       *)

LEMMA Start ==
    ASSUME Init
    PROVE  CollectorInv
<1>1. ToSet(<<>>) = {} /\ IsInjective(<<>>) /\ <<>> \in Seq(Pairs) /\ DOMAIN <<>> = {}
      /\ Len(<<>>) = 0
  BY QueueEmpty, EmptySeq, LenProperties
<1>2. ClockTypeOK
  BY ClockAssumption DEF Init, ClockTypeOK
<1>3. -Back \in Dates /\ Ahead \in Dates
  BY ClockAssumption, CollectorAssumption DEF Dates
<1>4. 0 \in 0 .. Cardinality(Symbols) - 1
  <2>1. Cardinality(Symbols) \in Nat /\ Cardinality(Symbols) # 0
    BY CollectorAssumption, FS_CardinalityType, FS_EmptySet
  <2> QED BY <2>1
<1>5. TypeOK
  <2>1. ToSet(queue) \subseteq ToSet(order) /\ IsInjective(order) /\ closing \subseteq ToSet(order)
    BY <1>1 DEF Init
  <2>2. \A i \in DOMAIN order : order[i][1] \in Symbols /\ order[i][2] \in 1 .. Expiries[order[i][1]]
    BY <1>1 DEF Init
  <2>3. Len(batch) <= BATCH_SIZE
    BY <1>1, CollectorAssumption DEF Init
  <2>4. todo \in [Symbols -> Nat] /\ misses \in 0 .. MaxMissed
    BY CollectorAssumption DEF Init
  <2> QED BY <2>1, <2>2, <2>3, <2>4, <1>2, <1>3, <1>4 DEF Init, TypeOK
<1>6. QueuesOK /\ ResetInv /\ UntouchedInv /\ SnapshotInv /\ Collects
  BY <1>1 DEF Init, QueuesOK, ResetInv, UntouchedInv, SnapshotInv, Collects
<1>7. FillingInv
  BY <1>1, CollectorAssumption DEF Init, FillingInv
<1> QED BY <1>5, <1>6, <1>7 DEF CollectorInv

LEMMA Step ==
    ASSUME CollectorInv, [Next]_vars
    PROVE  CollectorInv'
<1>1. CASE UNCHANGED vars
  <2>1. UNCHANGED <<clock, jobs, cron, options, walks, faults>>
    BY <1>1 DEF vars
  <2>2. TypeOK'
    BY <2>1 DEF CollectorInv, TypeOK, ClockTypeOK, clock, options, walks, faults
  <2> QED BY <2>1, <2>2, WalkKeeps
<1>2. CASE \E s \in Symbols : _put_job_queue(s)
  BY <1>2, PutKeeps
<1>3. CASE init_jobs
  BY <1>3, InitJobsKeep
<1>4. CASE reset
  BY <1>4, ResetKeeps
<1>5. CASE handle_market_open
  BY <1>5, HandleMarketOpenKeeps
<1>6. CASE UpdateOption
  BY <1>6, UpdateOptionKeeps
<1>7. CASE Take
  BY <1>7, TakeKeeps
<1>8. CASE Fetch
  BY <1>8, FetchKeeps
<1>9. CASE update_general_info \/ update_earnings \/ NextDate
  BY <1>9, WalksKeep
<1>10. CASE Six
  BY <1>10, SixKeeps
<1>11. CASE MarketOpens \/ HalfPastNine \/ MarketCloses
  BY <1>11, DayKeeps
<1> QED BY <1>1, <1>2, <1>3, <1>4, <1>5, <1>6, <1>7, <1>8, <1>9, <1>10, <1>11 DEF Next

LEMMA Always == Spec => []CollectorInv
BY Start, Step, PTL DEF Spec

\* The queue holds pairs of today's list and no batch is above BATCH_SIZE, the
\* walks stay inside the symbols and the window of dates (datacollector.py:62).
THEOREM TypeCorrect == Spec => []TypeOK
<1>1. CollectorInv => TypeOK
  BY DEF CollectorInv
<1> QED BY <1>1, Always, PTL

\* Once 9:31 has passed on a trading day the option updater is in the scheduler,
\* whichever days are holidays, whatever failed and whatever was missed before
\* today (handle_market_open and init_jobs).
THEOREM Collecting == Spec => []Collects
<1>1. CollectorInv => Collects
  BY DEF CollectorInv
<1> QED BY <1>1, Always, PTL

\* update_option turns today's list round and changes nothing else about it while
\* the market is open, for any number of symbols and expiries, any BATCH_SIZE and
\* any calendar.
THEOREM QueueInTurn == Spec => []InTurn
<1>1. CollectorInv => InTurn
  <2> SUFFICES ASSUME CollectorInv, Open, cron = "idle", "reset" \notin missed, ~Uncovered
               PROVE  \E i \in 0 .. Len(order) :
                         queue = SubSeq(order, i + 1, Len(order)) \o SubSeq(order, 1, i)
    BY DEF InTurn
  <2>0. ASSUME TurnedRound(queue, order, Pairs)
        PROVE  \E i \in 0 .. Len(order) :
                  queue = SubSeq(order, i + 1, Len(order)) \o SubSeq(order, 1, i)
    <3>1. PICK i \in 0 .. Len(order) : TurnedAt(queue, order, i)
      BY <2>0, QueueTurned
    <3> QED BY <3>1 DEF TurnedAt
  <2>1. ~Closed
    BY DEF Open, Closed
  <2>2. CASE "option" \in jobs
    <3>1. Turned
      BY <2>1, <2>2 DEF CollectorInv, SnapshotInv, LeftOver
    <3>2. TurnedRound(queue, order, Pairs)
      BY <3>1 DEF Turned
    <3> QED BY <3>2, <2>0
  <2>3. CASE "option" \notin jobs
    <3>1. queue = order /\ order \in Seq(Pairs)
      BY <2>3 DEF CollectorInv, UntouchedInv, QueuesOK
    <3>2. TurnedRound(queue, order, Pairs)
      BY <3>1, QueueNotTurned
    <3> QED BY <3>2, <2>0
  <2> QED BY <2>2, <2>3
<1> QED BY <1>1, Always, PTL

\* When the queue has run empty after the close, every pair of the day has been
\* asked for once more, however the batches fell and whenever the close came.
THEOREM SnapshotComplete == Spec => []ClosingSnapshot
<1>1. CollectorInv => ClosingSnapshot
  <2> SUFFICES ASSUME CollectorInv, "option" \in jobs, ~Uncovered, queue = <<>>, run = "idle"
               PROVE  closing = ToSet(order)
    BY DEF ClosingSnapshot
  <2>1. ToSet(order) \subseteq ToSet(queue) \cup ToSet(batch) \cup closing
    BY DEF CollectorInv, SnapshotInv
  <2>2. ToSet(queue) = {} /\ ToSet(batch) = {}
    BY QueueEmpty DEF CollectorInv, QueuesOK
  <2>3. closing \subseteq ToSet(order)
    BY DEF CollectorInv, TypeOK
  <2> QED BY <2>1, <2>2, <2>3
<1> QED BY <1>1, Always, PTL
=============================================================================
