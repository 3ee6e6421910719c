-------------------------- MODULE IBRequests_proofs --------------------------
(***************************************************************************)
(* What IB.make_request and the callbacks keep true of the registry of        *)
(* requests, for any callers, any keys and any session: an id stands for one  *)
(* request for good, nothing is subscribed to twice, and what can end the     *)
(* reader thread is known. Two things carry it: a number is taken under       *)
(* request_lock and belongs to one call until that call has registered it;    *)
(* and a range of ids never runs into the next, because every id that was     *)
(* taken belongs to a key (or, for executions, to a call) of its own.         *)
(***************************************************************************)
EXTENDS IBRequests, SequenceTheorems, FiniteSetTheorems, TLAPS

Asking == {"ask", "scan", "lock"} \cup Inside
Type(c) == TypeOf[Key(c)]
Issued(t) == FirstId[t] .. next[t] - 1

\* A call asks for its keys one after the other, and starts again with none.
CallsInv ==
    \A c \in Calls :
        /\ Len(ids[c]) <= Len(Asks[c])
        /\ pc[c] = "idle" => ids[c] = <<>>
        /\ pc[c] \in Asking => Len(ids[c]) < Len(Asks[c])
        /\ pc[c] \in {"read", "place", "data"} => Len(ids[c]) = Len(Asks[c])

\* A thread is in one call at a time.
OneAtATime ==
    \A c, d \in Calls :
        pc[c] \in Active /\ pc[d] \in Active /\ ThreadOf[c] = ThreadOf[d] => c = d

\* The lock is that of the counters; the number taken is the caller's own, and
\* nobody's entry, until it is registered.
NumbersInv ==
    /\ \A c \in Calls : pc[c] = "number" <=> lock = c
    /\ \A c \in Calls : pc[c] \in Inside => mine[c] \in Ids /\ handled[mine[c]] = NoKey
    /\ \A c \in Calls : pc[c] = "number" => mine[c] = next[Type(c)]
    /\ \A c \in Calls : pc[c] = "store" => Registers(Key(c)) /\ mine[c] \in Issued(Type(c))
    /\ \A c, d \in Calls :
          pc[c] \in Inside /\ pc[d] \in Inside /\ mine[c] = mine[d] => c = d

\* What a call is about to register is not registered: the scan is not stale,
\* although it is made outside the lock.
NewKeysInv ==
    \A c \in Calls : pc[c] \in {"lock"} \cup Inside =>
        \A i \in Ids : handled[i] # Key(c)

\* One entry for each key, in the range of its type, with its answers alone.
TableInv ==
    /\ \A i \in Ids : handled[i] # NoKey =>
          /\ Registers(handled[i])
          /\ i \in Issued(TypeOf[handled[i]])
          /\ heard[i] \subseteq Answers[handled[i]]
    /\ \A i \in Ids : handled[i] = NoKey => heard[i] = {}
    /\ \A i, j \in Ids : handled[i] = handled[j] /\ handled[i] # NoKey => i = j

\* Id i was taken for key k.
TakenFor(i, k) ==
    \/ i \in Ids /\ handled[i] = k
    \/ \E c \in Calls : pc[c] = "store" /\ mine[c] = i /\ Key(c) = k

\* Every id that was taken has an owner, which is what bounds their number.
OwnersInv ==
    /\ \A t \in RequestType : FirstId[t] <= next[t]
    /\ \A t \in RequestType \ {"EXECUTION_DETAILS"} : \A i \in Issued(t) :
          \E k \in Keys : TypeOf[k] = t /\ TakenFor(i, k)
    /\ \A i \in Issued("EXECUTION_DETAILS") :
          \E c \in Calls : TypeOf[Asks[c][1]] = "EXECUTION_DETAILS" /\ ids[c] = <<i>>

\* What TWS was asked for is registered, or its call is about to do so.
AskedInv ==
    \A i \in Ids, k \in Keys : <<i, k>> \in asked /\ Registers(k) =>
        \/ handled[i] = k
        \/ \E c \in Calls : pc[c] \in Inside /\ mine[c] = i /\ Key(c) = k

RegistryInv ==
    /\ TypeOK /\ CallsInv /\ OneAtATime /\ NumbersInv /\ NewKeysInv
    /\ TableInv /\ OwnersInv /\ AskedInv /\ IdsStand /\ LegsFound

-----------------------------------------------------------------------------
(* Facts about the operators.                                              *)

\* The key a call is at, while it asks.
LEMMA Keyed ==
    ASSUME TypeOK, CallsInv, NEW c \in Calls, pc[c] \in Asking
    PROVE  /\ Len(ids[c]) \in Nat /\ Len(ids[c]) + 1 \in DOMAIN Asks[c]
           /\ Key(c) \in Keys /\ Type(c) \in RequestType
<1>1. ids[c] \in Seq(Ids) /\ Asks[c] \in Seq(Keys) /\ Len(ids[c]) < Len(Asks[c])
  BY RequestsAssumption DEF TypeOK, CallsInv
<1>2. Len(ids[c]) \in Nat /\ Len(Asks[c]) \in Nat /\ DOMAIN Asks[c] = 1 .. Len(Asks[c])
  BY <1>1, LenProperties
<1>3. Len(ids[c]) + 1 \in DOMAIN Asks[c]
  BY <1>1, <1>2
<1>4. Asks[c][Len(ids[c]) + 1] \in Keys
  BY <1>1, <1>3, ElementOfSeq, <1>2
<1> QED BY <1>2, <1>3, <1>4, RequestsAssumption DEF Key, Type

\* main_loop asks for executions once in a call, and for nothing else.
LEMMA PollsAlone ==
    ASSUME TypeOK, CallsInv, NEW c \in Calls, TypeOf[Asks[c][1]] = "EXECUTION_DETAILS"
    PROVE  /\ KindOf[c] = "poll" /\ Len(Asks[c]) = 1
           /\ pc[c] \in Asking => ids[c] = <<>>
<1>1. Asks[c] \in Seq(Keys) /\ Asks[c] # <<>> /\ ids[c] \in Seq(Ids)
  BY RequestsAssumption DEF TypeOK
<1>2. 1 \in DOMAIN Asks[c]
  BY <1>1, LenProperties, EmptySeq
<1>3. KindOf[c] = "poll" /\ Len(Asks[c]) = 1
  BY <1>2, RequestsAssumption
<1>4. ASSUME pc[c] \in Asking PROVE ids[c] = <<>>
  <2>1. Len(ids[c]) < 1
    BY <1>3, <1>4 DEF CallsInv
  <2> QED BY <1>1, <2>1, LenProperties, EmptySeq
<1> QED BY <1>3, <1>4

\* Where each id of a range has something of its own, the range is no longer
\* than there are such things.
LEMMA EachItsOwn ==
    ASSUME NEW a \in Nat, NEW b \in Nat, a <= b, NEW S, IsFiniteSet(S), NEW R,
           \A i \in a .. b - 1 : \E s \in S : <<i, s>> \in R,
           \A i, j \in a .. b - 1 : \A s \in S : <<i, s>> \in R /\ <<j, s>> \in R => i = j
    PROVE  Cardinality(S) \in Nat /\ b <= a + Cardinality(S)
<1> DEFINE I == a .. b - 1
           f == [i \in I |-> CHOOSE s \in S : <<i, s>> \in R]
<1>1. \A i \in I : f[i] \in S /\ <<i, f[i]>> \in R
  OBVIOUS
<1>2. f \in [I -> S]
  BY <1>1
<1>3. \A i, j \in I : f[i] = f[j] => i = j
  BY <1>1
<1> HIDE DEF f
<1>4. f \in Injection(I, S)
  BY <1>2, <1>3 DEF Injection, IsInjective
<1>5. IsFiniteSet(I) /\ Cardinality(I) <= Cardinality(S)
  BY <1>4, FS_Injection
<1>6. a \in Int /\ b - 1 \in Int
  OBVIOUS
<1>7. Cardinality(I) = IF a > b - 1 THEN 0 ELSE b - 1 - a + 1
  BY <1>6, FS_Interval
<1>8. Cardinality(S) \in Nat
  BY FS_CardinalityType
<1> QED BY <1>5, <1>7, <1>8

\* No two calls ask for the same key at a time.
LEMMA KeysDiffer ==
    ASSUME RegistryInv, NEW c \in Calls, NEW d \in Calls,
           pc[c] \in Asking, pc[d] \in Asking, Key(c) = Key(d)
    PROVE  c = d
<1> USE DEF RegistryInv
<1>1. pc[c] \in Active /\ pc[d] \in Active
  BY DEF Asking, Inside, Active
<1>2. Key(c) \in {Asks[c][j] : j \in DOMAIN Asks[c]}
      /\ Key(d) \in {Asks[d][j] : j \in DOMAIN Asks[d]}
  BY Keyed DEF Key
<1>3. ThreadOf[c] = ThreadOf[d]
  BY <1>2, KeysAssumption
<1> QED BY <1>1, <1>3 DEF OneAtATime

\* The ids taken for a key are one; a call about to ask for it has none.
LEMMA TakenOnce ==
    ASSUME RegistryInv, NEW k \in Keys
    PROVE  /\ \A i, j : TakenFor(i, k) /\ TakenFor(j, k) => i = j
           /\ \A i, c : c \in Calls /\ pc[c] = "lock" /\ TakenFor(i, k) => Key(c) # k
<1> USE DEF RegistryInv
<1>0. k # NoKey
  BY RequestsAssumption
<1>1. \A c, d \in Calls : pc[c] \in {"lock", "store"} /\ pc[d] \in {"lock", "store"}
                             /\ Key(c) = Key(d) => c = d
  BY KeysDiffer DEF Asking, Inside
<1>2. \A i \in Ids, c \in Calls : pc[c] \in {"lock", "store"} /\ handled[i] = k => Key(c) # k
  BY DEF NewKeysInv, Inside
<1> QED BY <1>0, <1>1, <1>2 DEF TakenFor, TableInv

\* So a range of ids ends where it should, and before that while one of its
\* callers has still to take an id.
LEMMA RangesHold ==
    ASSUME RegistryInv, NEW t \in RequestType
    PROVE  /\ Cardinality(Takes(t)) \in Nat
           /\ next[t] <= FirstId[t] + Cardinality(Takes(t))
           /\ \A c \in Calls : pc[c] = "lock" /\ Type(c) = t
                  => next[t] < FirstId[t] + Cardinality(Takes(t))
<1> USE DEF RegistryInv
<1>1. /\ FirstId[t] \in Nat /\ next[t] \in Nat /\ FirstId[t] <= next[t]
      /\ IsFiniteSet(Takes(t))
  BY RequestsAssumption, RangesAssumption DEF TypeOK, OwnersInv, Ids
<1> SUFFICES ASSUME NEW S, S \subseteq Takes(t),
                    S = Takes(t) \/ \E c \in Calls : /\ pc[c] = "lock" /\ Type(c) = t
                                                     /\ S = Takes(t) \ {IF Registers(Key(c)) THEN Key(c) ELSE c}
             PROVE  next[t] <= FirstId[t] + Cardinality(S)
  <2>1. Cardinality(Takes(t)) \in Nat
    BY <1>1, FS_CardinalityType
  <2>2. ASSUME NEW c \in Calls, pc[c] = "lock", Type(c) = t
        PROVE  next[t] < FirstId[t] + Cardinality(Takes(t))
    <3> DEFINE e == IF Registers(Key(c)) THEN Key(c) ELSE c
    <3>1. Key(c) \in Keys /\ Len(ids[c]) + 1 \in DOMAIN Asks[c]
      BY <2>2, Keyed DEF Asking
    <3>2. e \in Takes(t)
      BY <3>1, <2>2 DEF Takes, Type, Registers, Key
    <3> HIDE DEF e
    <3>3. Cardinality(Takes(t) \ {e}) = Cardinality(Takes(t)) - 1
      BY <3>2, <1>1, FS_RemoveElement
    <3>4. next[t] <= FirstId[t] + Cardinality(Takes(t) \ {e})
      BY <2>2 DEF e
    <3> QED BY <3>3, <3>4, <2>1, <1>1
  <2> QED BY <2>1, <2>2
<1>2. IsFiniteSet(S)
  BY <1>1, FS_Subset
<1>3. CASE t # "EXECUTION_DETAILS"
  <2> DEFINE R == {p \in Issued(t) \X Keys : TakenFor(p[1], p[2])}
  <2>1. \A i \in Issued(t) : \E k \in S : <<i, k>> \in R
    <3> SUFFICES ASSUME NEW i \in Issued(t) PROVE \E k \in S : <<i, k>> \in R
      OBVIOUS
    <3>1. PICK k \in Keys : TypeOf[k] = t /\ TakenFor(i, k)
      BY <1>3 DEF OwnersInv
    <3>2. k \in Takes(t)
      BY <3>1, <1>3 DEF Takes
    <3>3. \A c \in Calls : pc[c] = "lock" /\ Type(c) = t
             => k # IF Registers(Key(c)) THEN Key(c) ELSE c
      BY <3>1, <1>3, TakenOnce DEF Registers, Type
    <3> QED BY <3>1, <3>2, <3>3
  <2>2. \A i, j \in Issued(t) : \A k \in S : <<i, k>> \in R /\ <<j, k>> \in R => i = j
    BY TakenOnce
  <2> HIDE DEF R
  <2> QED BY <2>1, <2>2, <1>1, <1>2, EachItsOwn DEF Issued
<1>4. CASE t = "EXECUTION_DETAILS"
  <2> DEFINE R == {p \in Issued(t) \X Calls : ids[p[2]] = <<p[1]>>}
  <2>1. \A i \in Issued(t) : \E c \in S : <<i, c>> \in R
    <3> SUFFICES ASSUME NEW i \in Issued(t) PROVE \E c \in S : <<i, c>> \in R
      OBVIOUS
    <3>1. PICK c \in Calls : TypeOf[Asks[c][1]] = t /\ ids[c] = <<i>>
      BY <1>4 DEF OwnersInv
    <3>2. KindOf[c] = "poll" /\ Len(Asks[c]) = 1
      BY <3>1, <1>4, PollsAlone
    <3>3. 1 \in DOMAIN Asks[c]
      BY <3>2, RequestsAssumption, LenProperties
    <3>4. c \in Takes(t)
      BY <3>1, <3>3, <1>4 DEF Takes
    <3>5. Len(ids[c]) = 1
      BY <3>1
    <3>6. pc[c] # "lock"
      BY <3>2, <3>5 DEF CallsInv, Asking
    <3>7. \A d \in Calls : pc[d] = "lock" /\ Type(d) = t => ~Registers(Key(d))
      BY <1>4 DEF Type, Registers
    <3> QED BY <3>1, <3>4, <3>6, <3>7
  <2>2. \A i, j \in Issued(t) : \A c \in S : <<i, c>> \in R /\ <<j, c>> \in R => i = j
    OBVIOUS
  <2> HIDE DEF R
  <2> QED BY <2>1, <2>2, <1>1, <1>2, EachItsOwn DEF Issued
<1> QED BY <1>3, <1>4

LEMMA CountersRise ==
    ASSUME TypeOK, OwnersInv, NEW v \in RequestType
    PROVE  FirstId[v] \in Nat /\ next[v] \in Nat /\ FirstId[v] <= next[v]
<1>1. FirstId \in [RequestType -> Ids] /\ MaxId \in Nat
  BY RequestsAssumption
<1>2. next \in [RequestType -> 1 .. MaxId + 1]
  BY DEF TypeOK
<1>3. FirstId[v] <= next[v]
  BY DEF OwnersInv
<1> QED BY <1>1, <1>2, <1>3 DEF Ids

\* The number a call takes is nobody's.
LEMMA NumberIsNew ==
    ASSUME RegistryInv, NEW c \in Calls, pc[c] = "lock"
    PROVE  \A t \in RequestType : next[Type(c)] \notin Issued(t)
<1> USE DEF RegistryInv
<1> SUFFICES ASSUME NEW t \in RequestType PROVE next[Type(c)] \notin Issued(t)
  OBVIOUS
<1> DEFINE u == Type(c)
<1>1. u \in RequestType
  BY Keyed DEF Asking
<1> HIDE DEF u
<1>2. \A v \in RequestType :
         FirstId[v] \in Nat /\ next[v] \in Nat /\ FirstId[v] <= next[v]
  BY CountersRise
<1>3. /\ Cardinality(Takes(u)) \in Nat /\ Cardinality(Takes(t)) \in Nat
      /\ next[u] < FirstId[u] + Cardinality(Takes(u))
      /\ next[t] <= FirstId[t] + Cardinality(Takes(t))
  BY <1>1, RangesHold DEF u
<1>4. CASE t = u
  BY <1>1, <1>4, <1>2 DEF Issued, u
<1>5. CASE t # u /\ FirstId[u] <= FirstId[t]
  <2>1. FirstId[u] + Cardinality(Takes(u)) <= FirstId[t]
    BY <1>1, <1>5, RangesAssumption
  <2> QED BY <2>1, <1>1, <1>2, <1>3 DEF Issued, u
<1>6. CASE t # u /\ FirstId[t] <= FirstId[u]
  <2>1. FirstId[t] + Cardinality(Takes(t)) <= FirstId[u]
    BY <1>1, <1>6, RangesAssumption
  <2> QED BY <2>1, <1>1, <1>2, <1>3 DEF Issued, u
<1> QED BY <1>1, <1>2, <1>4, <1>5, <1>6

-----------------------------------------------------------------------------
(* Steps that leave the table and the counters alone.                      *)

\* The reader's: answers come into the entry of what was asked.
LEMMA CallbackKeeps ==
    ASSUME RegistryInv, TypeOK', UNCHANGED <<caller, lock, next, handled>>,
           asked' \subseteq asked,
           \A i \in Ids : heard'[i] \subseteq
               IF handled[i] = NoKey THEN heard[i] ELSE heard[i] \cup Answers[handled[i]]
    PROVE  RegistryInv'
<1> USE DEF RegistryInv, caller
<1>1. CallsInv' /\ OneAtATime'
  BY DEF CallsInv, OneAtATime
<1>2. \A c \in Calls : Key(c)' = Key(c) /\ Type(c)' = Type(c)
  BY DEF Key, Type
<1>3. NumbersInv' /\ NewKeysInv'
  BY <1>2 DEF NumbersInv, NewKeysInv, Issued
<1>4. TableInv'
  BY DEF TableInv, Issued
<1>5. \A i, k : TakenFor(i, k) => TakenFor(i, k)'
  BY <1>2 DEF TakenFor
<1>6. OwnersInv'
  BY <1>5 DEF OwnersInv, Issued
<1>7. AskedInv'
  BY <1>2 DEF AskedInv
<1>8. IdsStand' /\ LegsFound'
  BY DEF IdsStand, LegsFound
<1> QED BY <1>1, <1>3, <1>4, <1>6, <1>7, <1>8

\* A call's, outside the lock: it may look at the table, and move on.
LEMMA CallKeeps ==
    ASSUME RegistryInv, TypeOK', CallsInv', NEW c \in Calls,
           UNCHANGED <<lock, next, handled, heard, asked>>,
           \A d \in Calls \ {c} : /\ pc'[d] = pc[d] /\ ids'[d] = ids[d]
                                  /\ mine'[d] = mine[d] /\ result'[d] = result[d],
           pc[c] \notin Inside, pc'[c] \notin Inside,
           pc'[c] \in Active =>
               \/ pc[c] \in Active
               \/ \A d \in Calls : ThreadOf[d] = ThreadOf[c] => pc[d] \notin Active,
           pc'[c] = "lock" => \A i \in Ids : handled[i] # Key(c)',
           \A j \in DOMAIN ids'[c] :
               Registers(Asks[c][j]) => handled[ids'[c][j]] = Asks[c][j],
           KindOf[c] = "legs" /\ pc'[c] \in {"place", "data"} =>
               /\ result'[c] \subseteq Answers[Asks[c][1]]
               /\ Strikes(result'[c]) = Legs[c],
           TypeOf[Asks[c][1]] = "EXECUTION_DETAILS" => ids'[c] = ids[c] \/ ids[c] = <<>>
    PROVE  RegistryInv'
<1> USE DEF RegistryInv
<1>1. OneAtATime'
  BY DEF OneAtATime
<1>2. \A d \in Calls \ {c} : Key(d)' = Key(d) /\ Type(d)' = Type(d)
  BY DEF Key, Type
<1>3. "number" \in Inside /\ "store" \in Inside
  BY DEF Inside
<1>4. NumbersInv'
  BY <1>2, <1>3 DEF NumbersInv, Issued
<1>5. NewKeysInv'
  BY <1>2 DEF NewKeysInv
<1>6. TableInv'
  BY DEF TableInv, Issued
<1>7. \A i, k : TakenFor(i, k) => TakenFor(i, k)'
  BY <1>2, <1>3 DEF TakenFor
<1>8. OwnersInv'
  <2>1. \A d \in Calls : \A i :
           TypeOf[Asks[d][1]] = "EXECUTION_DETAILS" /\ ids[d] = <<i>> => ids'[d] = <<i>>
    <3> SUFFICES ASSUME NEW d \in Calls, NEW i, TypeOf[Asks[d][1]] = "EXECUTION_DETAILS",
                        ids[d] = <<i>>
                 PROVE  ids'[d] = <<i>>
      OBVIOUS
    <3>1. ids[d] # <<>>
      OBVIOUS
    <3> QED BY <3>1
  <2> HIDE DEF RegistryInv
  <2>0. OwnersInv
    BY DEF RegistryInv
  <2>2. \A i \in Issued("EXECUTION_DETAILS") : \E d \in Calls :
           TypeOf[Asks[d][1]] = "EXECUTION_DETAILS" /\ ids'[d] = <<i>>
    <3> SUFFICES ASSUME NEW i \in Issued("EXECUTION_DETAILS")
                 PROVE  \E d \in Calls :
                           TypeOf[Asks[d][1]] = "EXECUTION_DETAILS" /\ ids'[d] = <<i>>
      OBVIOUS
    <3>1. PICK d \in Calls : TypeOf[Asks[d][1]] = "EXECUTION_DETAILS" /\ ids[d] = <<i>>
      BY <2>0 DEF OwnersInv
    <3>2. ids'[d] = <<i>>
      BY <3>1, <2>1
    <3> QED BY <3>1, <3>2
  <2>3. \A t \in RequestType \ {"EXECUTION_DETAILS"} : \A i \in Issued(t) :
           \E k \in Keys : TypeOf[k] = t /\ TakenFor(i, k)'
    BY <1>7, <2>0 DEF OwnersInv
  <2> QED BY <2>0, <2>2, <2>3 DEF OwnersInv, Issued
<1>9. AskedInv'
  BY <1>2 DEF AskedInv
<1>10. IdsStand'
  BY DEF IdsStand
<1>11. LegsFound'
  BY DEF LegsFound
<1> QED BY <1>1, <1>4, <1>5, <1>6, <1>8, <1>9, <1>10, <1>11

\* A call that goes on with id i for its key, of any kind.
LEMMA GivenMoves ==
    ASSUME TypeOK, CallsInv, NEW c \in Calls, pc[c] \in Asking, NEW i \in Ids, Given(c, i)
    PROVE  /\ ids' \in [Calls -> Seq(Ids)] /\ mine' \in [Calls -> Ids \cup {0}]
           /\ pc' \in [Calls -> {"idle"} \cup Active \cup Done]
           /\ pc'[c] \in {"read", "ask"} /\ ids'[c] = Append(ids[c], i)
           /\ DOMAIN ids[c] = 1 .. Len(ids[c])
           /\ DOMAIN ids'[c] = 1 .. Len(ids[c]) + 1
           /\ \A j \in DOMAIN ids[c] : ids'[c][j] = ids[c][j]
           /\ ids'[c][Len(ids[c]) + 1] = i
           /\ \A d \in Calls \ {c} : /\ pc'[d] = pc[d] /\ ids'[d] = ids[d]
                                     /\ mine'[d] = mine[d]
           /\ CallsInv'
<1>1. ids[c] \in Seq(Ids) /\ Len(ids[c]) \in Nat /\ Len(Asks[c]) \in Nat
  BY RequestsAssumption, LenProperties DEF TypeOK
<1>2. /\ Append(ids[c], i) \in Seq(Ids)
      /\ Len(Append(ids[c], i)) = Len(ids[c]) + 1
      /\ \A j \in 1 .. Len(ids[c]) : Append(ids[c], i)[j] = ids[c][j]
      /\ Append(ids[c], i)[Len(ids[c]) + 1] = i
  BY <1>1, AppendProperties
<1>3. ids' = [ids EXCEPT ![c] = Append(ids[c], i)]
      /\ mine' = [mine EXCEPT ![c] = 0]
      /\ pc' = [pc EXCEPT ![c] = IF Len(ids[c]) + 1 = Len(Asks[c]) THEN "read" ELSE "ask"]
  BY DEF Given, Goto
<1>4. /\ ids' \in [Calls -> Seq(Ids)] /\ mine' \in [Calls -> Ids \cup {0}]
      /\ pc' \in [Calls -> {"idle"} \cup Active \cup Done]
      /\ pc'[c] = IF Len(ids[c]) + 1 = Len(Asks[c]) THEN "read" ELSE "ask"
      /\ ids'[c] = Append(ids[c], i)
      /\ \A d \in Calls \ {c} : /\ pc'[d] = pc[d] /\ ids'[d] = ids[d]
                                /\ mine'[d] = mine[d]
  BY <1>2, <1>3 DEF TypeOK, Active
<1>5. DOMAIN ids[c] = 1 .. Len(ids[c]) /\ DOMAIN ids'[c] = 1 .. Len(ids[c]) + 1
  BY <1>1, <1>2, <1>4, LenProperties
<1>6. Len(ids[c]) < Len(Asks[c])
  BY DEF CallsInv
<1>7. CallsInv'
  <2> SUFFICES ASSUME NEW d \in Calls
               PROVE  /\ Len(ids'[d]) <= Len(Asks[d])
                      /\ pc'[d] = "idle" => ids'[d] = <<>>
                      /\ pc'[d] \in Asking => Len(ids'[d]) < Len(Asks[d])
                      /\ pc'[d] \in {"read", "place", "data"} => Len(ids'[d]) = Len(Asks[d])
    BY DEF CallsInv
  <2>1. CASE d = c
    <3>1. Len(ids'[c]) = Len(ids[c]) + 1
      BY <1>2, <1>4
    <3> HIDE DEF Given
    <3> QED BY <2>1, <3>1, <1>1, <1>4, <1>6 DEF Asking, Inside
  <2>2. CASE d # c
    BY <2>2, <1>4 DEF CallsInv
  <2> QED BY <2>1, <2>2
<1> QED BY <1>2, <1>4, <1>5, <1>7

-----------------------------------------------------------------------------
(* Each step keeps RegistryInv.                                            *)

LEMMA BeginKeeps ==
    ASSUME RegistryInv, NEW c \in Calls, Begin(c)
    PROVE  RegistryInv'
<1> USE DEF RegistryInv
<1>1. Asks[c] \in Seq(Keys) /\ Asks[c] # <<>> /\ ids[c] = <<>>
  BY RequestsAssumption DEF Begin, CallsInv
<1>2. Len(Asks[c]) > 0
  BY <1>1, EmptySeq, LenProperties
<1>3. /\ pc' = [pc EXCEPT ![c] = "ask"]
      /\ UNCHANGED <<ids, size, mine, result, lock, registry, session, tws, budget>>
      /\ pc[c] = "idle"
      /\ \A d \in Calls : ThreadOf[d] = ThreadOf[c] => pc[d] \notin Active
  BY DEF Begin, Goto
<1>4. pc' \in [Calls -> {"idle"} \cup Active \cup Done] /\ pc'[c] = "ask"
      /\ \A d \in Calls \ {c} : pc'[d] = pc[d]
  BY <1>3 DEF TypeOK, Active
<1>5. TypeOK'
  BY <1>3, <1>4 DEF TypeOK, registry, session, tws
<1>6. CallsInv'
  BY <1>1, <1>2, <1>3, <1>4 DEF CallsInv, Asking, Inside
<1>7. \A j \in DOMAIN ids[c] : Registers(Asks[c][j]) => handled[ids[c][j]] = Asks[c][j]
  BY DEF IdsStand
<1> QED BY <1>3, <1>4, <1>5, <1>6, <1>7, CallKeeps DEF registry, tws, Inside

\* What Raise does to a call that asks.
LEMMA RaiseMoves ==
    ASSUME TypeOK, CallsInv, NEW c \in Calls, pc[c] \in Asking, Raise(c)
    PROVE  /\ ids' \in [Calls -> Seq(Ids)]
           /\ pc' \in [Calls -> {"idle"} \cup Active \cup Done]
           /\ pc'[c] \in {"idle", "raised"}
           /\ ids'[c] \in {ids[c], <<>>}
           /\ KindOf[c] # "init" => ids'[c] = ids[c]
           /\ \A d \in Calls \ {c} : pc'[d] = pc[d] /\ ids'[d] = ids[d]
           /\ CallsInv'
<1>1. <<>> \in Seq(Ids) /\ Len(<<>>) = 0 /\ Len(Asks[c]) \in Nat
  BY EmptySeq, RequestsAssumption, LenProperties
<1>2. \/ /\ pc' = [pc EXCEPT ![c] = "idle"] /\ ids' = [ids EXCEPT ![c] = <<>>]
         /\ KindOf[c] = "init"
      \/ pc' = [pc EXCEPT ![c] = "raised"] /\ ids' = ids /\ KindOf[c] # "init"
  BY DEF Raise, Goto
<1>3. /\ ids' \in [Calls -> Seq(Ids)]
      /\ pc' \in [Calls -> {"idle"} \cup Active \cup Done]
      /\ \/ pc'[c] = "idle" /\ ids'[c] = <<>>
         \/ pc'[c] = "raised" /\ ids'[c] = ids[c]
      /\ KindOf[c] # "init" => ids'[c] = ids[c]
      /\ \A d \in Calls \ {c} : pc'[d] = pc[d] /\ ids'[d] = ids[d]
  BY <1>1, <1>2 DEF TypeOK, Done
<1>4. CallsInv'
  <2> SUFFICES ASSUME NEW d \in Calls
               PROVE  /\ Len(ids'[d]) <= Len(Asks[d])
                      /\ pc'[d] = "idle" => ids'[d] = <<>>
                      /\ pc'[d] \in Asking => Len(ids'[d]) < Len(Asks[d])
                      /\ pc'[d] \in {"read", "place", "data"} => Len(ids'[d]) = Len(Asks[d])
    BY DEF CallsInv
  <2>1. CASE d = c
    BY <2>1, <1>1, <1>3 DEF CallsInv, Asking, Inside
  <2>2. CASE d # c
    BY <2>2, <1>3 DEF CallsInv
  <2> QED BY <2>1, <2>2
<1> QED BY <1>3, <1>4

LEMMA AskKeeps ==
    ASSUME RegistryInv, NEW c \in Calls, Ask(c)
    PROVE  RegistryInv'
<1> USE DEF RegistryInv
<1>1. /\ pc[c] = "ask" /\ pc[c] \in Asking
      /\ UNCHANGED <<mine, result, lock, registry, session, tws, budget>>
  BY DEF Ask, Asking
<1>2. CASE Raise(c) /\ UNCHANGED size
  <2>1. TypeOK'
    BY <1>1, <1>2, RaiseMoves DEF TypeOK, registry, session, tws
  <2>2. \A j \in DOMAIN ids'[c] :
           Registers(Asks[c][j]) => handled[ids'[c][j]] = Asks[c][j]
    BY <1>1, <1>2, RaiseMoves DEF IdsStand
  <2>3. pc'[c] \notin Active /\ pc'[c] \notin {"place", "data"}
    BY <1>1, <1>2, RaiseMoves DEF Active, Inside
  <2> QED BY <1>1, <1>2, <2>1, <2>2, <2>3, RaiseMoves, PollsAlone, CallKeeps
          DEF registry, tws, Inside, Active
<1>3. CASE /\ pc' = [pc EXCEPT ![c] = "scan"] /\ UNCHANGED ids
           /\ size' = [size EXCEPT ![c] = Cardinality(Registered)]
  <2>1. Cardinality(Registered) \in Nat
    <3>1. IsFiniteSet(Ids)
      BY RequestsAssumption, FS_Interval DEF Ids
    <3> QED BY <3>1, FS_Subset, FS_CardinalityType DEF Registered
  <2>2. pc' \in [Calls -> {"idle"} \cup Active \cup Done] /\ pc'[c] = "scan"
        /\ \A d \in Calls \ {c} : pc'[d] = pc[d]
    BY <1>3 DEF TypeOK, Active
  <2>3. TypeOK'
    BY <1>1, <1>3, <2>1, <2>2 DEF TypeOK, registry, session, tws
  <2>4. CallsInv'
    BY <1>1, <1>3, <2>2 DEF CallsInv, Asking, Inside
  <2>5. \A j \in DOMAIN ids[c] :
           Registers(Asks[c][j]) => handled[ids[c][j]] = Asks[c][j]
    BY DEF IdsStand
  <2> QED BY <1>1, <1>3, <2>2, <2>3, <2>4, <2>5, CallKeeps
          DEF registry, tws, Inside, Active
<1> QED BY <1>2, <1>3 DEF Ask, Goto

LEMMA ScanKeeps ==
    ASSUME RegistryInv, NEW c \in Calls, Scan(c)
    PROVE  RegistryInv'
<1> USE DEF RegistryInv
<1>1. /\ pc[c] = "scan" /\ pc[c] \in Asking /\ pc[c] \in Active /\ pc[c] \notin Inside
      /\ size' = [size EXCEPT ![c] = 0]
      /\ UNCHANGED <<result, lock, registry, session, tws, budget>>
  BY DEF Scan, Asking, Active, Inside
<1>2. size' \in [Calls -> Nat]
  BY <1>1 DEF TypeOK
<1>3. CASE Raise(c) /\ UNCHANGED mine
  <2>1. TypeOK'
    BY <1>1, <1>2, <1>3, RaiseMoves DEF TypeOK, registry, session, tws
  <2>2. \A j \in DOMAIN ids'[c] :
           Registers(Asks[c][j]) => handled[ids'[c][j]] = Asks[c][j]
    BY <1>1, <1>3, RaiseMoves DEF IdsStand
  <2>3. pc'[c] \notin Active /\ pc'[c] \notin {"place", "data"}
    BY <1>1, <1>3, RaiseMoves DEF Active, Inside
  <2> QED BY <1>1, <1>3, <2>1, <2>2, <2>3, RaiseMoves, PollsAlone, CallKeeps
          DEF registry, tws, Inside, Active
<1>4. CASE /\ \A i \in Registered : handled[i] # Key(c)
           /\ pc' = [pc EXCEPT ![c] = "lock"] /\ UNCHANGED <<ids, mine>>
  <2>1. pc' \in [Calls -> {"idle"} \cup Active \cup Done] /\ pc'[c] = "lock"
        /\ \A d \in Calls \ {c} : pc'[d] = pc[d]
    BY <1>4 DEF TypeOK, Active
  <2>2. TypeOK'
    BY <1>1, <1>2, <1>4, <2>1 DEF TypeOK, registry, session, tws
  <2>3. CallsInv'
    BY <1>1, <1>4, <2>1 DEF CallsInv, Asking, Inside
  <2>4. \A j \in DOMAIN ids[c] :
           Registers(Asks[c][j]) => handled[ids[c][j]] = Asks[c][j]
    BY DEF IdsStand
  <2>5. \A i \in Ids : handled[i] # Key(c)'
    <3>1. Key(c)' = Key(c) /\ Key(c) # NoKey
      BY <1>1, <1>4, Keyed, RequestsAssumption DEF Key
    <3> QED BY <3>1, <1>4 DEF Registered
  <2> QED BY <1>1, <1>4, <2>1, <2>2, <2>3, <2>4, <2>5, CallKeeps
          DEF registry, tws, Inside
<1>5. ASSUME NEW i \in Registered, handled[i] = Key(c), Given(c, i) PROVE RegistryInv'
  <2>1. i \in Ids
    BY DEF Registered
  <2>2. TypeOK'
    BY <1>1, <1>2, <1>5, <2>1, GivenMoves DEF TypeOK, registry, session, tws
  <2>3. \A j \in DOMAIN ids'[c] :
           Registers(Asks[c][j]) => handled[ids'[c][j]] = Asks[c][j]
    <3> SUFFICES ASSUME NEW j \in DOMAIN ids'[c], Registers(Asks[c][j])
                 PROVE  handled[ids'[c][j]] = Asks[c][j]
      OBVIOUS
    <3>1. CASE j \in DOMAIN ids[c]
      <4>1. ids'[c][j] = ids[c][j]
        BY <3>1, <1>1, <1>5, <2>1, GivenMoves
      <4> QED BY <3>1, <4>1 DEF IdsStand
    <3>2. CASE j = Len(ids[c]) + 1
      <4>1. ids'[c][j] = i
        BY <3>2, <1>1, <1>5, <2>1, GivenMoves
      <4> QED BY <3>2, <4>1, <1>5 DEF Key
    <3> QED
      <4>1. Len(ids[c]) \in Nat
        BY <1>1, Keyed
      <4>2. DOMAIN ids[c] = 1 .. Len(ids[c]) /\ DOMAIN ids'[c] = 1 .. Len(ids[c]) + 1
        BY <1>1, <1>5, <2>1, GivenMoves
      <4> HIDE DEF RegistryInv
      <4>3. j \in 1 .. Len(ids[c]) \/ j = Len(ids[c]) + 1
        BY <4>1, <4>2
      <4> QED BY <4>2, <4>3, <3>1, <3>2
  <2>4. /\ CallsInv' /\ pc[c] \in Active /\ pc[c] \notin Inside
        /\ pc'[c] \in {"read", "ask"} /\ pc'[c] \notin Inside
        /\ pc'[c] # "lock" /\ pc'[c] \notin {"place", "data"}
        /\ \A d \in Calls \ {c} : pc'[d] = pc[d] /\ ids'[d] = ids[d] /\ mine'[d] = mine[d]
    BY <1>1, <1>5, <2>1, GivenMoves DEF Inside, Active
  <2>5. UNCHANGED <<lock, next, handled, heard, asked, result>>
    BY <1>1, <1>5 DEF registry, tws, Given
  <2>6. TypeOf[Asks[c][1]] = "EXECUTION_DETAILS" => ids[c] = <<>>
    BY <1>1, PollsAlone
  <2>7. RegistryInv
    OBVIOUS
  <2> HIDE DEF RegistryInv
  <2> QED BY <2>2, <2>3, <2>4, <2>5, <2>6, <2>7, CallKeeps
<1> QED BY <1>3, <1>4, <1>5 DEF Scan, Goto

\* Reading: what the legs' search finds comes from one entry, that of the
\* chain it asked for.
LEMMA ReadKeeps ==
    ASSUME RegistryInv, NEW c \in Calls,
           ReadTicks(c) \/ ReadChain(c) \/ ReadLegs(c) \/ ReadNothing(c)
    PROVE  RegistryInv'
<1> USE DEF RegistryInv
<1>1. pc[c] = "read" /\ pc[c] \notin Inside /\ pc[c] \in Active
      /\ UNCHANGED <<ids, size, mine, lock, registry, session, tws, budget>>
  BY DEF ReadTicks, ReadChain, ReadLegs, ReadNothing, Reads, Unread, Inside, Active
<1>2. Len(ids[c]) = Len(Asks[c]) /\ Asks[c] \in Seq(Keys) /\ Asks[c] # <<>>
      /\ ids[c] \in Seq(Ids)
  BY <1>1, RequestsAssumption DEF CallsInv, TypeOK
<1>3. 1 \in DOMAIN ids[c] /\ 1 \in DOMAIN Asks[c] /\ Id(c) \in Ids
  BY <1>2, LenProperties, EmptySeq, ElementOfSeq DEF Id
<1>4. /\ \/ \E l \in Done \cup {"place"} : pc' = [pc EXCEPT ![c] = l]
         \/ pc' = pc
      /\ result' = result \/ \E r \in SUBSET Answer : result' = [result EXCEPT ![c] = r]
      /\ KindOf[c] = "legs" /\ pc'[c] \in {"place", "data"} =>
            result'[c] = Matching(c) /\ Strikes(Matching(c)) = Legs[c]
  <2>1. CASE ReadTicks(c)
    <3>1. UNION {heard[ids[c][j]] : j \in DOMAIN ids[c]} \in SUBSET Answer
      <4>1. \A j \in DOMAIN ids[c] : heard[ids[c][j]] \in SUBSET Answer
        BY <1>2, LenProperties, ElementOfSeq DEF TypeOK
      <4> QED BY <4>1
    <3>2. KindOf[c] = "ticks"
      BY <2>1 DEF ReadTicks, Reads
    <3>3. \E l \in Done : pc' = [pc EXCEPT ![c] = l]
      BY <2>1 DEF ReadTicks, Goto, Done
    <3>4. \/ result' = result
          \/ result' = [result EXCEPT ![c] = UNION {heard[ids[c][j]] : j \in DOMAIN ids[c]}]
      BY <2>1 DEF ReadTicks
    <3> QED BY <3>1, <3>2, <3>3, <3>4
  <2>2. CASE ReadChain(c)
    BY <2>2, <1>3 DEF ReadChain, Reads, Goto, Done, TypeOK
  <2>3. CASE ReadLegs(c)
    <3>1. Matching(c) \in SUBSET Answer
      BY <1>3 DEF Matching, TypeOK
    <3>2. \/ pc' = [pc EXCEPT ![c] = "place"] /\ Strikes(Matching(c)) = Legs[c]
          \/ pc' = pc
      BY <2>3 DEF ReadLegs, Goto
    <3>3. result' = [result EXCEPT ![c] = Matching(c)]
      BY <2>3 DEF ReadLegs
    <3>4. result'[c] = Matching(c)
      BY <3>3 DEF TypeOK
    <3>5. pc' = pc => pc'[c] \notin {"place", "data"}
      BY <1>1
    <3> HIDE DEF RegistryInv
    <3> QED BY <3>1, <3>2, <3>3, <3>4, <3>5 DEF Done
  <2>4. CASE ReadNothing(c)
    BY <2>4 DEF ReadNothing, Reads, Goto, Done
  <2> QED BY <2>1, <2>2, <2>3, <2>4
<1>5. /\ pc' \in [Calls -> {"idle"} \cup Active \cup Done]
      /\ pc'[c] = "read" \/ pc'[c] \in Done \cup {"place"}
      /\ result' \in [Calls -> SUBSET Answer]
      /\ \A d \in Calls \ {c} : pc'[d] = pc[d] /\ result'[d] = result[d]
  <2>1. "place" \in Active
    BY DEF Active
  <2>2. pc \in [Calls -> {"idle"} \cup Active \cup Done] /\ result \in [Calls -> SUBSET Answer]
    BY DEF TypeOK
  <2> HIDE DEF RegistryInv
  <2> QED BY <1>1, <1>4, <2>1, <2>2
<1>6. TypeOK'
  BY <1>1, <1>5 DEF TypeOK, registry, session, tws
<1>7. CallsInv'
  BY <1>1, <1>5 DEF CallsInv, Asking, Inside, Done
<1>8. \A j \in DOMAIN ids[c] : Registers(Asks[c][j]) => handled[ids[c][j]] = Asks[c][j]
  BY DEF IdsStand
<1>9. KindOf[c] = "legs" /\ pc'[c] \in {"place", "data"} =>
        /\ result'[c] \subseteq Answers[Asks[c][1]]
        /\ Strikes(result'[c]) = Legs[c]
  <2> SUFFICES ASSUME KindOf[c] = "legs"
               PROVE  Matching(c) \subseteq Answers[Asks[c][1]]
    BY <1>4
  <2>1. Registers(Asks[c][1])
    BY <1>3, PollsAlone DEF Registers
  <2>2. handled[Id(c)] = Asks[c][1]
    BY <2>1, <1>3, <1>8 DEF Id
  <2>3. Asks[c][1] # NoKey
    BY <1>2, <1>3, LenProperties, ElementOfSeq, RequestsAssumption
  <2>4. heard[Id(c)] \subseteq Answers[Asks[c][1]]
    BY <2>2, <2>3, <1>3 DEF TableInv
  <2> QED BY <2>4 DEF Matching
<1>10. pc'[c] \notin Inside /\ pc'[c] # "lock"
  BY <1>5 DEF Done, Inside
<1> QED BY <1>1, <1>5, <1>6, <1>7, <1>8, <1>9, <1>10, CallKeeps DEF registry, tws

\* Placing: the order goes out with the legs that were found.
LEMMA PlaceKeeps ==
    ASSUME RegistryInv, NEW c \in Calls, Place(c)
    PROVE  RegistryInv'
<1> USE DEF RegistryInv
<1>1. /\ pc[c] = "place" /\ pc[c] \notin Inside /\ pc[c] \in Active
      /\ UNCHANGED <<ids, size, mine, result, lock, registry, ready, connected, reader>>
      /\ UNCHANGED <<tws, budget>>
  BY DEF Place, Inside, Active
<1>2. \E l \in {"data", "raised"} : pc' = [pc EXCEPT ![c] = l]
  BY DEF Place, Goto
<1>3. search' \in Search
  BY DEF Place, TypeOK, Search
<1>4. /\ pc' \in [Calls -> {"idle"} \cup Active \cup Done]
      /\ pc'[c] \in {"data", "raised"}
      /\ \A d \in Calls \ {c} : pc'[d] = pc[d]
  BY <1>2 DEF TypeOK, Done
<1>5. TypeOK'
  BY <1>1, <1>3, <1>4 DEF TypeOK, registry, tws
<1>6. CallsInv'
  BY <1>1, <1>4 DEF CallsInv, Asking, Inside
<1>7. \A j \in DOMAIN ids[c] : Registers(Asks[c][j]) => handled[ids[c][j]] = Asks[c][j]
  BY DEF IdsStand
<1>8. KindOf[c] = "legs" => /\ result[c] \subseteq Answers[Asks[c][1]]
                            /\ Strikes(result[c]) = Legs[c]
  BY <1>1 DEF LegsFound
<1>9. pc'[c] \notin Inside /\ pc'[c] \notin Active /\ pc'[c] # "lock"
  BY <1>4 DEF Inside, Active
<1> QED BY <1>1, <1>4, <1>5, <1>6, <1>7, <1>8, <1>9, CallKeeps DEF registry, tws

\* The number is taken inside the lock, and sent.
LEMMA SendKeeps ==
    ASSUME RegistryInv, NEW c \in Calls, Send(c)
    PROVE  RegistryInv'
<1> USE DEF RegistryInv
<1> DEFINE n == next[Type(c)]
<1>1. /\ pc[c] = "lock" /\ lock = NoCall /\ n <= MaxId
      /\ mine' = [mine EXCEPT ![c] = n]
      /\ asked' \in {asked, asked \cup {<<n, Key(c)>>}}
      /\ lock' = c
      /\ pc' = [pc EXCEPT ![c] = "number"]
      /\ UNCHANGED <<ids, size, result, registry, session, ended, budget>>
  BY DEF Send, Goto, Type
<1>2. Key(c) \in Keys /\ Type(c) \in RequestType /\ pc[c] \in Asking
  BY <1>1, Keyed DEF Asking
<1>3. n \in Ids
  BY <1>1, <1>2, RequestsAssumption DEF TypeOK, Ids
<1>4. \A t \in RequestType : n \notin Issued(t)
  BY <1>1, NumberIsNew
<1>6. \A d \in Calls : pc[d] # "number"
  BY <1>1, RequestsAssumption DEF NumbersInv
<1>7. /\ pc' \in [Calls -> {"idle"} \cup Active \cup Done] /\ pc'[c] = "number"
      /\ mine' \in [Calls -> Ids \cup {0}] /\ mine'[c] = n
      /\ \A d \in Calls \ {c} : pc'[d] = pc[d] /\ mine'[d] = mine[d]
  BY <1>1, <1>3 DEF TypeOK, Active, Inside
<1>8. TypeOK'
  BY <1>1, <1>2, <1>3, <1>7 DEF TypeOK, registry, session
<1>9. CallsInv' /\ OneAtATime'
  BY <1>1, <1>7 DEF CallsInv, OneAtATime, Asking, Active, Inside
<1>10. \A d \in Calls : Key(d)' = Key(d) /\ Type(d)' = Type(d)
  BY <1>1 DEF Key, Type
<1>11. handled[n] = NoKey
  BY <1>3, <1>4, RequestsAssumption DEF TableInv, TypeOK
<1> HIDE DEF n
<1>12. \A d \in Calls : pc[d] = "store" => mine[d] # n
  BY <1>4, Keyed DEF NumbersInv, Asking, Inside
<1>13. NumbersInv'
  <2>1. \A d \in Calls : pc'[d] = "number" <=> lock' = d
    BY <1>1, <1>6, <1>7
  <2>2. \A d \in Calls : pc'[d] \in Inside => mine'[d] \in Ids /\ handled'[mine'[d]] = NoKey
    BY <1>1, <1>3, <1>7, <1>11 DEF NumbersInv, registry
  <2>3. \A d \in Calls : pc'[d] = "number" => mine'[d] = next[Type(d)]
    BY <1>1, <1>6, <1>7 DEF n
  <2>4. \A d \in Calls : pc'[d] = "store" =>
           Registers(Key(d)) /\ mine'[d] \in Issued(Type(d))
    BY <1>1, <1>7 DEF NumbersInv
  <2>5. \A d, e \in Calls :
           pc'[d] \in Inside /\ pc'[e] \in Inside /\ mine'[d] = mine'[e] => d = e
    BY <1>6, <1>7, <1>12 DEF NumbersInv, Inside
  <2> QED BY <1>1, <1>10, <2>1, <2>2, <2>3, <2>4, <2>5 DEF NumbersInv, Issued, registry
<1>14. NewKeysInv'
  BY <1>1, <1>7, <1>10 DEF NewKeysInv, registry
<1>15. TableInv'
  BY <1>1 DEF TableInv, registry, Issued
<1>16. \A i, k : TakenFor(i, k) => TakenFor(i, k)'
  BY <1>1, <1>7, <1>10 DEF TakenFor, registry
<1>17. OwnersInv'
  BY <1>1, <1>16 DEF OwnersInv, Issued, registry
<1>18. AskedInv'
  <2> SUFFICES ASSUME NEW i \in Ids, NEW k \in Keys, <<i, k>> \in asked', Registers(k)
               PROVE  \/ handled'[i] = k
                      \/ \E d \in Calls : pc'[d] \in Inside /\ mine'[d] = i /\ Key(d)' = k
    BY DEF AskedInv
  <2>1. CASE <<i, k>> = <<n, Key(c)>>
    BY <2>1, <1>7, <1>10 DEF Inside
  <2>2. CASE <<i, k>> \in asked
    BY <2>2, <1>1, <1>7, <1>10 DEF AskedInv, registry, Inside
  <2> QED BY <2>1, <2>2, <1>1
<1>19. IdsStand' /\ LegsFound'
  BY <1>1, <1>7 DEF IdsStand, LegsFound, registry
<1> QED BY <1>8, <1>9, <1>13, <1>14, <1>15, <1>17, <1>18, <1>19

\* The counter moves past the number, which is now the call's, or the poll's.
LEMMA NumberKeeps ==
    ASSUME RegistryInv, NEW c \in Calls, Number(c)
    PROVE  RegistryInv'
<1> USE DEF RegistryInv
<1>0. PICK n, t : n = mine[c] /\ t = Type(c)
  OBVIOUS
<1>1. /\ pc[c] = "number" /\ pc[c] \in Asking /\ pc[c] \in Inside
      /\ next' = [next EXCEPT ![t] = @ + 1]
      /\ heard' = [heard EXCEPT ![n] = {}]
      /\ lock' = NoCall
      /\ UNCHANGED <<size, result, handled, status, session, tws, budget>>
  BY <1>0 DEF Number, Asking, Inside, Type
<1>2. Key(c) \in Keys /\ t \in RequestType /\ Key(c) # NoKey
  BY <1>0, <1>1, Keyed, RequestsAssumption
<1>3. n \in Ids /\ handled[n] = NoKey /\ n = next[t] /\ lock = c
  BY <1>0, <1>1 DEF NumbersInv
<1>4. \A d \in Calls : pc[d] = "number" => d = c
  BY <1>3 DEF NumbersInv
<1>5. /\ pc' \in [Calls -> {"idle"} \cup Active \cup Done]
      /\ ids' \in [Calls -> Seq(Ids)] /\ mine' \in [Calls -> Ids \cup {0}]
      /\ \A d \in Calls \ {c} : pc'[d] = pc[d] /\ ids'[d] = ids[d] /\ mine'[d] = mine[d]
      /\ CallsInv'
      /\ \/ /\ Registers(Key(c)) /\ pc'[c] = "store"
            /\ ids' = ids /\ mine' = mine
         \/ ~Registers(Key(c)) /\ pc'[c] \in {"read", "ask"} /\ Given(c, n)
  <2>1. CASE Registers(Key(c)) /\ Goto(c, "store") /\ UNCHANGED <<ids, mine>>
    <3>1. pc' \in [Calls -> {"idle"} \cup Active \cup Done] /\ pc'[c] = "store"
          /\ \A d \in Calls \ {c} : pc'[d] = pc[d]
      BY <2>1 DEF Goto, TypeOK, Active, Inside
    <3>2. CallsInv'
      BY <2>1, <3>1, <1>1 DEF CallsInv, Asking, Inside
    <3> QED BY <2>1, <3>1, <3>2 DEF TypeOK
  <2>2. CASE ~Registers(Key(c)) /\ Given(c, n)
    BY <2>2, <1>1, <1>3, GivenMoves
  <2> QED BY <1>0, <2>1, <2>2 DEF Number
<1>6. TypeOK'
  <2>1. next' \in [RequestType -> 1 .. MaxId + 1]
    <3>1. next \in [RequestType -> 1 .. MaxId + 1] /\ MaxId \in Nat
      BY RequestsAssumption DEF TypeOK
    <3>2. next[t] + 1 \in 1 .. MaxId + 1
      BY <1>3, <3>1 DEF Ids
    <3> QED BY <1>1, <3>1, <3>2
  <2> QED BY <1>1, <1>3, <1>5, <2>1 DEF TypeOK, session, tws
<1>7. \A d \in Calls \ {c} : Key(d)' = Key(d) /\ Type(d)' = Type(d)
  BY <1>5 DEF Key, Type
<1>8. pc'[c] = "store" => Key(c)' = Key(c) /\ Type(c)' = t
  BY <1>0, <1>5 DEF Key, Type
<1>9. OneAtATime'
  BY <1>1, <1>5 DEF OneAtATime, Active, Inside
<1>10. /\ \A u \in RequestType : Issued(u) \subseteq Issued(u)'
       /\ \A u \in RequestType : u # t => Issued(u)' = Issued(u)
       /\ n \in Issued(t)' /\ Issued(t)' \subseteq Issued(t) \cup {n}
  <2>1. next[t] \in Nat /\ FirstId[t] \in Nat /\ FirstId[t] <= next[t]
        /\ next'[t] = next[t] + 1 /\ \A u \in RequestType : u # t => next'[u] = next[u]
    <3>1. \A v \in RequestType : next[v] \in Nat /\ FirstId[v] \in Nat /\ FirstId[v] <= next[v]
      BY CountersRise
    <3>2. next'[t] = next[t] + 1 /\ \A u \in RequestType : u # t => next'[u] = next[u]
      BY <1>1, <1>2 DEF TypeOK
    <3> QED BY <3>1, <3>2, <1>2
  <2> QED BY <2>1, <1>3 DEF Issued
<1>11. NumbersInv'
  <2>1. \A d \in Calls : pc'[d] = "number" <=> lock' = d
    BY <1>1, <1>4, <1>5, RequestsAssumption
  <2>2. \A d \in Calls : pc'[d] \in Inside => mine'[d] \in Ids /\ handled'[mine'[d]] = NoKey
    <3>1. \A d \in Calls \ {c} : pc'[d] \in Inside =>
             mine'[d] \in Ids /\ handled[mine'[d]] = NoKey
      BY <1>5 DEF NumbersInv
    <3>2. pc'[c] \in Inside => mine'[c] \in Ids /\ handled[mine'[c]] = NoKey
      BY <1>0, <1>3, <1>5 DEF Inside
    <3> QED BY <3>1, <3>2, <1>1
  <2>3. \A d \in Calls \ {c} : pc[d] = "store" =>
           Registers(Key(d)) /\ mine'[d] \in FirstId[Type(d)] .. next'[Type(d)] - 1
    <3>1. \A d \in Calls : pc[d] = "store" => Type(d) \in RequestType
      BY Keyed DEF Asking, Inside
    <3> QED BY <3>1, <1>5, <1>10 DEF NumbersInv, Issued
  <2>4. \A d, e \in Calls :
           pc'[d] \in Inside /\ pc'[e] \in Inside /\ mine'[d] = mine'[e] => d = e
    <3>1. ASSUME NEW d \in Calls, pc'[d] \in Inside
          PROVE  pc[d] \in Inside /\ mine'[d] = mine[d]
      BY <1>1, <1>5, <3>1 DEF Inside
    <3>2. \A d, e \in Calls : pc[d] \in Inside /\ pc[e] \in Inside /\ mine[d] = mine[e] => d = e
      BY DEF NumbersInv
    <3> HIDE DEF RegistryInv
    <3> QED BY <3>1, <3>2
  <2>5. \A d \in Calls : pc'[d] = "store" =>
           Registers(Key(d))' /\ (mine[d] \in Issued(Type(d)))'
    <3> SUFFICES ASSUME NEW d \in Calls, pc'[d] = "store"
                 PROVE  Registers(Key(d))' /\ (mine[d] \in Issued(Type(d)))'
      OBVIOUS
    <3>1. CASE d = c
      <4>1. Key(c)' = Key(c) /\ Type(c)' = t /\ Registers(Key(c)) /\ mine'[c] = n
        BY <3>1, <1>0, <1>5, <1>8
      <4>2. n \in FirstId[t] .. next'[t] - 1
        BY <1>10 DEF Issued
      <4> QED BY <3>1, <4>1, <4>2 DEF Registers, Issued
    <3>2. CASE d # c
      <4>1. Key(d)' = Key(d) /\ Type(d)' = Type(d) /\ Registers(Key(d))
            /\ mine'[d] \in FirstId[Type(d)] .. next'[Type(d)] - 1
        BY <3>2, <1>5, <1>7, <2>3
      <4> QED BY <4>1 DEF Registers, Issued
    <3> QED BY <3>1, <3>2
  <2>6. \A d \in Calls : pc'[d] # "number"
    BY <1>4, <1>5
  <2> HIDE DEF RegistryInv
  <2> QED BY <2>1, <2>2, <2>4, <2>5, <2>6 DEF NumbersInv
<1>12. NewKeysInv'
  BY <1>1, <1>5, <1>7, <1>8 DEF NewKeysInv, Inside
<1>13. TableInv'
  <2>1. \A i \in Ids : handled[i] # NoKey => i # n
    BY <1>3
  <2>2. \A i \in Ids : handled[i] # NoKey =>
           /\ heard'[i] = heard[i] /\ Registers(handled[i])
           /\ i \in Issued(TypeOf[handled[i]])'
    BY <2>1, <1>1, <1>10, RequestsAssumption DEF TypeOK, TableInv
  <2>3. \A i \in Ids : handled[i] = NoKey => heard'[i] = {}
    BY <1>1, <1>3 DEF TableInv, TypeOK
  <2> QED BY <2>2, <2>3, <1>1 DEF TableInv, Registers
<1>14. \A i, k : TakenFor(i, k) => TakenFor(i, k)'
  BY <1>1, <1>5, <1>7 DEF TakenFor
<1>15. OwnersInv'
  <2>1. \A u \in RequestType : FirstId[u] <= next'[u]
    <3>1. \A u \in RequestType : next[u] \in Nat /\ FirstId[u] \in Nat /\ FirstId[u] <= next[u]
      BY CountersRise
    <3> QED BY <3>1, <1>1, <1>2 DEF TypeOK
  <2>2. \A u \in RequestType \ {"EXECUTION_DETAILS"} : \A i \in Issued(u)' :
           \E k \in Keys : TypeOf[k] = u /\ TakenFor(i, k)'
    <3> SUFFICES ASSUME NEW u \in RequestType \ {"EXECUTION_DETAILS"}, NEW i \in Issued(u)'
                 PROVE  \E k \in Keys : TypeOf[k] = u /\ TakenFor(i, k)'
      OBVIOUS
    <3>1. CASE i \in Issued(u)
      BY <3>1, <1>14 DEF OwnersInv
    <3>2. CASE i = n /\ u = t
      <4>1. pc'[c] = "store" /\ mine'[c] = n /\ TypeOf[Key(c)] = u
        BY <1>0, <3>2, <1>5 DEF Registers, Type
      <4> QED BY <4>1, <3>2, <1>2, <1>8 DEF TakenFor
    <3> QED BY <3>1, <3>2, <1>10
  <2>3. \A i \in Issued("EXECUTION_DETAILS")' : \E d \in Calls :
           TypeOf[Asks[d][1]] = "EXECUTION_DETAILS" /\ ids'[d] = <<i>>
    <3> DEFINE poll(d) == TypeOf[Asks[d][1]] = "EXECUTION_DETAILS"
    <3>1. ASSUME ~Registers(Key(c))
          PROVE  poll(c) /\ ids'[c] = <<n>>
      <4>1. TypeOf[Asks[c][Len(ids[c]) + 1]] = "EXECUTION_DETAILS"
            /\ Len(ids[c]) + 1 \in DOMAIN Asks[c]
        BY <3>1, <1>1, Keyed DEF Registers, Key
      <4>2. Len(Asks[c]) = 1
        BY <4>1, RequestsAssumption
      <4>3. ids[c] \in Seq(Ids) /\ Len(ids[c]) \in Nat /\ Len(ids[c]) < 1
        BY <4>2, <1>1, LenProperties DEF CallsInv, TypeOK
      <4>4. ids[c] = <<>>
        BY <4>3, EmptySeq
      <4>5. ids'[c] = Append(ids[c], n)
        BY <3>1, <1>1, <1>3, <1>5, GivenMoves
      <4> QED BY <4>1, <4>3, <4>4, <4>5
    <3>2. \A d \in Calls, i \in Issued("EXECUTION_DETAILS") :
             poll(d) /\ ids[d] = <<i>> => ids'[d] = <<i>>
      <4>1. \A i \in Issued("EXECUTION_DETAILS") : poll(c) => ids[c] # <<i>>
        BY <1>1, PollsAlone
      <4> QED BY <4>1, <1>5
    <3>3. t = "EXECUTION_DETAILS" <=> ~Registers(Key(c))
      BY <1>0 DEF Registers, Type
    <3> HIDE DEF poll
    <3>4. \A i \in Issued("EXECUTION_DETAILS") : \E d \in Calls : poll(d) /\ ids[d] = <<i>>
      BY DEF OwnersInv, poll
    <3>5. \A i \in Issued("EXECUTION_DETAILS")' : \E d \in Calls : poll(d) /\ ids'[d] = <<i>>
      <4> SUFFICES ASSUME NEW i \in Issued("EXECUTION_DETAILS")'
                   PROVE  \E d \in Calls : poll(d) /\ ids'[d] = <<i>>
        OBVIOUS
      <4>0. "EXECUTION_DETAILS" \in RequestType
        BY DEF RequestType
      <4>1. i \in Issued("EXECUTION_DETAILS") \/ (i = n /\ t = "EXECUTION_DETAILS")
        BY <1>10, <4>0
      <4> QED BY <4>1, <3>1, <3>2, <3>3, <3>4
    <3> QED BY <3>5 DEF poll
  <2> QED BY <2>1, <2>2, <2>3 DEF OwnersInv
<1>16. AskedInv'
  <2> SUFFICES ASSUME NEW i \in Ids, NEW k \in Keys, <<i, k>> \in asked, Registers(k),
                      handled[i] # k
               PROVE  \E d \in Calls : pc'[d] \in Inside /\ mine'[d] = i /\ Key(d)' = k
    BY <1>1 DEF AskedInv, tws
  <2>1. PICK d \in Calls : pc[d] \in Inside /\ mine[d] = i /\ Key(d) = k
    BY DEF AskedInv
  <2>2. CASE d = c
    BY <2>1, <2>2, <1>5, <1>8 DEF Inside
  <2>3. CASE d # c
    BY <2>1, <2>3, <1>5, <1>7
  <2> QED BY <2>2, <2>3
<1>17. IdsStand'
  <2> SUFFICES ASSUME NEW d \in Calls, NEW j \in DOMAIN ids'[d], Registers(Asks[d][j])
               PROVE  handled[ids'[d][j]] = Asks[d][j]
    BY <1>1 DEF IdsStand
  <2>1. CASE d # c \/ Registers(Key(c))
    <3>1. ids'[d] = ids[d]
      BY <2>1, <1>5
    <3> QED BY <3>1 DEF IdsStand
  <2>2. CASE d = c /\ ~Registers(Key(c))
    <3>1. Given(c, n)
      BY <2>2, <1>5
    <3>2. j # Len(ids[c]) + 1
      BY <2>2 DEF Key
    <3>3. j \in DOMAIN ids[c] /\ ids'[c][j] = ids[c][j]
      <4>1. Len(ids[c]) \in Nat
        BY <1>1, Keyed
      <4> QED BY <4>1, <2>2, <3>1, <3>2, <1>1, <1>3, GivenMoves
    <3> QED BY <2>2, <3>3 DEF IdsStand
  <2> QED BY <2>1, <2>2
<1>18. LegsFound'
  BY <1>1, <1>5 DEF LegsFound
<1> QED BY <1>5, <1>6, <1>9, <1>11, <1>12, <1>13, <1>15, <1>16, <1>17, <1>18

\* The entry is made outside the lock, and is still the only one for its key.
LEMMA StoreKeeps ==
    ASSUME RegistryInv, NEW c \in Calls, Store(c)
    PROVE  RegistryInv'
<1> USE DEF RegistryInv
<1>0. PICK n, k : n = mine[c] /\ k = Key(c)
  OBVIOUS
<1>1. /\ pc[c] = "store" /\ pc[c] \in Asking /\ pc[c] \in Inside /\ pc[c] \in Active
      /\ handled' = [handled EXCEPT ![n] = k]
      /\ status' = [status EXCEPT ![n] = "PROCESSED"]
      /\ Given(c, n)
      /\ UNCHANGED <<size, result, lock, next, heard, session, tws, budget>>
  BY <1>0 DEF Store, Asking, Active, Inside
<1>2. k \in Keys /\ k # NoKey /\ Registers(k)
  BY <1>0, <1>1, Keyed, RequestsAssumption DEF NumbersInv
<1>3. n \in Ids /\ handled[n] = NoKey /\ n \in Issued(TypeOf[k])
  BY <1>0, <1>1 DEF NumbersInv, Type
<1>4. /\ handled'[n] = k
      /\ \A i \in Ids : i # n => handled'[i] = handled[i]
      /\ \A i \in Ids : handled[i] # NoKey => handled'[i] = handled[i]
  BY <1>1, <1>3 DEF TypeOK
<1>5. /\ pc' \in [Calls -> {"idle"} \cup Active \cup Done]
      /\ ids' \in [Calls -> Seq(Ids)] /\ mine' \in [Calls -> Ids \cup {0}]
      /\ \A d \in Calls \ {c} : pc'[d] = pc[d] /\ ids'[d] = ids[d] /\ mine'[d] = mine[d]
      /\ CallsInv'
      /\ pc'[c] \in {"read", "ask"}
  BY <1>1, <1>3, GivenMoves
<1>6. TypeOK'
  BY <1>1, <1>2, <1>3, <1>5 DEF TypeOK, session, tws, Status
<1>7. \A d \in Calls \ {c} : Key(d)' = Key(d) /\ Type(d)' = Type(d)
  BY <1>5 DEF Key, Type
<1>8. OneAtATime'
  BY <1>1, <1>5 DEF OneAtATime
<1>9. \A u : Issued(u)' = Issued(u)
  BY <1>1 DEF Issued
<1>10. \A d \in Calls \ {c} : pc[d] \in Inside => mine[d] # n
  BY <1>0, <1>1 DEF NumbersInv
<1>11. NumbersInv'
  <2>1. \A d \in Calls : pc'[d] = "number" <=> lock' = d
    BY <1>1, <1>5 DEF NumbersInv
  <2>2. \A d \in Calls : pc'[d] \in Inside => mine'[d] \in Ids /\ handled'[mine'[d]] = NoKey
    <3> SUFFICES ASSUME NEW d \in Calls, pc'[d] \in Inside
                 PROVE  mine'[d] \in Ids /\ handled'[mine'[d]] = NoKey
      OBVIOUS
    <3>1. d # c
      BY <1>5 DEF Inside
    <3>2. mine'[d] = mine[d] /\ pc[d] \in Inside /\ mine[d] # n
      BY <3>1, <1>5, <1>10
    <3>3. mine[d] \in Ids /\ handled[mine[d]] = NoKey
      BY <3>2 DEF NumbersInv
    <3> HIDE DEF RegistryInv
    <3> QED BY <3>2, <3>3, <1>4
  <2>3. \A d \in Calls : pc'[d] = "number" => mine'[d] = next'[Type(d)']
    BY <1>1, <1>5, <1>7 DEF NumbersInv
  <2>4. \A d \in Calls : pc'[d] = "store" =>
           Registers(Key(d))' /\ (mine[d] \in Issued(Type(d)))'
    <3> SUFFICES ASSUME NEW d \in Calls, pc'[d] = "store"
                 PROVE  Registers(Key(d))' /\ (mine[d] \in Issued(Type(d)))'
      OBVIOUS
    <3>1. d # c
      BY <1>5
    <3>2. pc[d] = "store" /\ mine'[d] = mine[d] /\ Key(d)' = Key(d) /\ Type(d)' = Type(d)
      BY <3>1, <1>5, <1>7
    <3>3. Registers(Key(d)) /\ mine[d] \in Issued(Type(d))
      BY <3>2 DEF NumbersInv
    <3> HIDE DEF RegistryInv
    <3> QED BY <3>2, <3>3, <1>9 DEF Registers, Issued
  <2>5. \A d, e \in Calls :
           pc'[d] \in Inside /\ pc'[e] \in Inside /\ mine'[d] = mine'[e] => d = e
    <3>1. pc'[c] \notin Inside
      BY <1>5 DEF Inside
    <3> QED BY <3>1, <1>5 DEF NumbersInv
  <2> HIDE DEF RegistryInv
  <2> QED BY <2>1, <2>2, <2>3, <2>4, <2>5 DEF NumbersInv
<1>12. NewKeysInv'
  <2> SUFFICES ASSUME NEW d \in Calls, pc'[d] \in {"lock"} \cup Inside, NEW i \in Ids
               PROVE  handled'[i] # Key(d)'
    BY DEF NewKeysInv
  <2>1. d # c /\ pc[d] \in {"lock"} \cup Inside /\ Key(d)' = Key(d) /\ pc[d] \in Asking
    BY <1>5, <1>7 DEF Inside, Asking
  <2>2. Key(d) # k
    BY <2>1, <1>0, <1>1, KeysDiffer
  <2> QED BY <2>1, <2>2, <1>4 DEF NewKeysInv
<1>13. TableInv'
  <2>1. \A i \in Ids : handled[i] # k
    BY <1>0, <1>1 DEF NewKeysInv
  <2>2. heard'[n] = {}
    BY <1>1, <1>3 DEF TableInv
  <2>3. \A i \in Ids : handled'[i] # NoKey =>
           /\ Registers(handled'[i]) /\ i \in Issued(TypeOf[handled'[i]])
           /\ heard'[i] \subseteq Answers[handled'[i]]
    BY <1>1, <1>2, <1>3, <1>4, <2>2 DEF TableInv
  <2>4. \A i \in Ids : handled'[i] = NoKey => heard'[i] = {}
    BY <1>1, <1>2, <1>4 DEF TableInv
  <2>5. \A i, j \in Ids : handled'[i] = handled'[j] /\ handled'[i] # NoKey => i = j
    BY <2>1, <1>4 DEF TableInv
  <2> HIDE DEF RegistryInv
  <2> QED BY <2>3, <2>4, <2>5, <1>1 DEF TableInv, Registers, Issued
<1>14. \A i, l : l \in Keys /\ TakenFor(i, l) => TakenFor(i, l)'
  <2> SUFFICES ASSUME NEW i, NEW l \in Keys, TakenFor(i, l) PROVE TakenFor(i, l)'
    OBVIOUS
  <2>1. CASE i \in Ids /\ handled[i] = l
    <3>1. handled'[i] = l
      BY <2>1, <1>4, RequestsAssumption
    <3> QED BY <2>1, <3>1 DEF TakenFor
  <2>2. ASSUME NEW d \in Calls, pc[d] = "store", mine[d] = i, Key(d) = l
        PROVE  TakenFor(i, l)'
    <3>1. CASE d = c
      BY <2>2, <3>1, <1>0, <1>3, <1>4 DEF TakenFor
    <3>2. CASE d # c
      BY <2>2, <3>2, <1>5, <1>7 DEF TakenFor
    <3> QED BY <3>1, <3>2
  <2> QED BY <2>1, <2>2 DEF TakenFor
<1>15. OwnersInv'
  <2>1. \A u \in RequestType \ {"EXECUTION_DETAILS"} : \A i \in Issued(u) :
           \E l \in Keys : TypeOf[l] = u /\ TakenFor(i, l)'
    BY <1>14 DEF OwnersInv
  <2>2. \A i \in Issued("EXECUTION_DETAILS") : \E d \in Calls :
           TypeOf[Asks[d][1]] = "EXECUTION_DETAILS" /\ ids'[d] = <<i>>
    <3> SUFFICES ASSUME NEW i \in Issued("EXECUTION_DETAILS")
                 PROVE  \E d \in Calls :
                           TypeOf[Asks[d][1]] = "EXECUTION_DETAILS" /\ ids'[d] = <<i>>
      OBVIOUS
    <3>1. PICK d \in Calls : TypeOf[Asks[d][1]] = "EXECUTION_DETAILS" /\ ids[d] = <<i>>
      BY DEF OwnersInv
    <3>2. d # c
      BY <3>1, <1>1, PollsAlone
    <3> QED BY <3>1, <3>2, <1>5
  <2> QED BY <2>1, <2>2, <1>1, <1>9 DEF OwnersInv
<1>16. AskedInv'
  <2> SUFFICES ASSUME NEW i \in Ids, NEW l \in Keys, <<i, l>> \in asked, Registers(l),
                      handled'[i] # l
               PROVE  \E d \in Calls : pc'[d] \in Inside /\ mine'[d] = i /\ Key(d)' = l
    BY <1>1 DEF AskedInv, tws
  <2>1. handled[i] # l
    BY <1>4, RequestsAssumption
  <2>2. PICK d \in Calls : pc[d] \in Inside /\ mine[d] = i /\ Key(d) = l
    BY <2>1 DEF AskedInv
  <2>3. d # c
    BY <2>2, <1>0, <1>4
  <2> QED BY <2>2, <2>3, <1>5, <1>7
<1>17. IdsStand'
  <2> SUFFICES ASSUME NEW d \in Calls, NEW j \in DOMAIN ids'[d], Registers(Asks[d][j])
               PROVE  handled'[ids'[d][j]] = Asks[d][j]
    BY DEF IdsStand
  <2>1. CASE d = c /\ j = Len(ids[c]) + 1
    <3>1. ids'[c][j] = n /\ Asks[c][j] = k
      BY <2>1, <1>0, <1>1, <1>3, GivenMoves DEF Key
    <3> QED BY <2>1, <3>1, <1>4
  <2>2. CASE j \in DOMAIN ids[d] /\ ids'[d][j] = ids[d][j]
    <3>1. handled[ids[d][j]] = Asks[d][j]
      BY <2>2 DEF IdsStand
    <3>2. /\ ids[d] \in Seq(Ids) /\ Asks[d] \in Seq(Keys) /\ Len(ids[d]) <= Len(Asks[d])
          /\ Len(ids[d]) \in Nat /\ Len(Asks[d]) \in Nat
      BY RequestsAssumption, LenProperties DEF TypeOK, CallsInv
    <3>3. j \in 1 .. Len(ids[d]) /\ j \in 1 .. Len(Asks[d])
      BY <2>2, <3>2, LenProperties
    <3>4. ids[d][j] \in Ids /\ Asks[d][j] \in Keys
      BY <3>2, <3>3, ElementOfSeq
    <3> QED BY <2>2, <3>1, <3>4, <1>4, RequestsAssumption
  <2> QED
    <3>1. Len(ids[c]) \in Nat
      BY <1>1, Keyed
    <3>2. d = c => \/ j = Len(ids[c]) + 1
                   \/ j \in DOMAIN ids[d] /\ ids'[d][j] = ids[d][j]
      BY <3>1, <1>1, <1>3, GivenMoves
    <3> QED BY <3>2, <2>1, <2>2, <1>5
<1>18. LegsFound'
  BY <1>1, <1>5 DEF LegsFound
<1> QED BY <1>5, <1>6, <1>8, <1>11, <1>12, <1>13, <1>15, <1>16, <1>17, <1>18

\* What TWS answers is registered, unless its call is still under the lock or
\* on its way out of it.
LEMMA Answerable ==
    ASSUME RegistryInv, NEW i \in Ids, NEW k \in Keys, <<i, k>> \in asked, Registers(k)
    PROVE  /\ handled[i] \in {k, NoKey}
           /\ handled[i] = NoKey => \E c \in Calls : mine[c] = i /\ pc[c] \in Inside
<1>1. handled[i] = k \/ \E c \in Calls : pc[c] \in Inside /\ mine[c] = i
  BY DEF RegistryInv, AskedInv
<1>2. \A c \in Calls : pc[c] \in Inside => handled[mine[c]] = NoKey
  BY DEF RegistryInv, NumbersInv
<1> QED BY <1>1, <1>2, RequestsAssumption

LEMMA EventKeeps ==
    ASSUME RegistryInv,
           \/ \E i \in Ids, k \in Keys : Reply(i, k) \/ error(i, k)
           \/ Searched \/ PlaceOther
           \/ updateAccountValue \/ Drop \/ ReaderExit \/ Reconnect
    PROVE  RegistryInv'
<1>1. TypeOK
  BY DEF RegistryInv
<1> DEFINE Quiet ==
        /\ UNCHANGED <<caller, lock, next, handled>> /\ asked' \subseteq asked /\ TypeOK'
        /\ \A j \in Ids : heard'[j] \subseteq
               IF handled[j] = NoKey THEN heard[j] ELSE heard[j] \cup Answers[handled[j]]
<1>2. Quiet
  <2>1. ASSUME NEW i \in Ids, NEW k \in Keys,
               contractDetails(i, k) \/ tickPrice(i, k)
        PROVE  Quiet
    <3>1. /\ UNCHANGED <<Caller, handled, tws, budget>> /\ <<i, k>> \in asked
          /\ Registers(k)
      BY <2>1 DEF contractDetails, tickPrice, Due, Registers
    <3>2. PICK a \in Answers[k] :
             /\ Hear(i, a)
             /\ SetStatus(i, "RESPONDED")
      BY <2>1 DEF contractDetails, tickPrice
    <3>3. a \in Answer
      BY <3>2 DEF Answer
    <3>4. handled[i] \in {k, NoKey}
      BY <3>1, Answerable
    <3>5. /\ heard' \in [Ids -> SUBSET Answer]
          /\ \A j \in Ids : heard'[j] \subseteq
             IF handled[j] = NoKey THEN heard[j] ELSE heard[j] \cup Answers[handled[j]]
      BY <3>2, <3>3, <3>4, <1>1 DEF Hear, TypeOK
    <3>6. /\ status' \in [Ids -> Status \cup {"INIT"}]
          /\ {ready', connected', reader'} \subseteq BOOLEAN
      BY <3>2, <1>1 DEF SetStatus, Die, TypeOK, Status
    <3>8. search' \in Search
      BY <2>1, <1>1 DEF contractDetails, tickPrice, TypeOK, Search
    <3>7. TypeOK'
      BY <3>1, <3>5, <3>6, <3>8, <1>1 DEF TypeOK, Caller, caller, tws
    <3> QED BY <3>1, <3>5, <3>7 DEF Caller, caller, tws
  <2>2. ASSUME NEW i \in Ids, NEW k \in Keys,
               \/ contractDetailsEnd(i, k) \/ marketDataType(i, k)
               \/ accountSummaryEnd(i, k)
        PROVE  Quiet
    <3>1. /\ UNCHANGED <<Caller, handled, heard, search, asked, budget>>
          /\ ended' = ended \/ ended' = ended \cup {<<i, k>>}
          /\ \E s \in Status : SetStatus(i, s)
      BY <2>2 DEF contractDetailsEnd, marketDataType, accountSummaryEnd, tws, Status
    <3>2. /\ status' \in [Ids -> Status \cup {"INIT"}]
          /\ {ready', connected', reader'} \subseteq BOOLEAN
      BY <3>1, <1>1 DEF SetStatus, Die, TypeOK
    <3> QED BY <3>1, <3>2, <1>1 DEF TypeOK, Caller, caller
  <2>3. ASSUME NEW i \in Ids, NEW k \in Keys, error(i, k)
        PROVE  Quiet
    <3>1. /\ UNCHANGED <<Caller, handled, heard, session, asked>>
          /\ ended' = ended \/ ended' = ended \cup {<<i, k>>}
          /\ status' = status \/ status' = [status EXCEPT ![i] = "ERROR"]
          /\ budget["failed"] > 0 /\ budget' = [budget EXCEPT !["failed"] = @ - 1]
      BY <2>3 DEF error, Spend
    <3>2. budget' \in [Events -> Nat]
      BY <3>1, <1>1 DEF TypeOK, Events
    <3>3. status' \in [Ids -> Status \cup {"INIT"}]
      <4>1. "ERROR" \in Status \cup {"INIT"}
        BY DEF Status
      <4> QED BY <3>1, <4>1, <1>1 DEF TypeOK
    <3>4. ended' \subseteq Ids \X Keys
      BY <3>1, <1>1 DEF TypeOK
    <3>5. UNCHANGED <<caller, lock, next, handled, heard, ready, connected, reader, asked>>
          /\ search' = search
      BY <3>1 DEF Caller, session
    <3> QED BY <3>2, <3>3, <3>4, <3>5, <1>1 DEF TypeOK, caller
  <2>4. CASE updateAccountValue
    <3>1. /\ UNCHANGED <<Caller, handled, status, heard, connected, reader, search, tws>>
          /\ ready' \in BOOLEAN
          /\ \/ budget' = budget
             \/ /\ budget["notReady"] > 0
                /\ budget' = [budget EXCEPT !["notReady"] = @ - 1]
      BY <2>4 DEF updateAccountValue, Spend
    <3>2. budget' \in [Events -> Nat]
      BY <3>1, <1>1 DEF TypeOK, Events
    <3> QED BY <3>1, <3>2, <1>1 DEF TypeOK, Caller, caller, tws
  <2>5. CASE Drop
    <3>1. budget' \in [Events -> Nat]
      BY <2>5, <1>1 DEF Drop, Spend, TypeOK, Events
    <3> QED BY <2>5, <3>1, <1>1 DEF Drop, TypeOK, Caller, caller, tws
  <2>6. CASE ReaderExit \/ Reconnect
    BY <2>6, <1>1 DEF ReaderExit, Reconnect, TypeOK, Caller, caller, tws
  <2>7. CASE Searched
    <3>1. /\ UNCHANGED <<Caller, handled, status, heard, ready, tws, budget>>
          /\ search' \in Search /\ {connected', reader'} \subseteq BOOLEAN
      BY <2>7, <1>1 DEF Searched, Die, Search, TypeOK
    <3> QED BY <3>1, <1>1 DEF TypeOK, Caller, caller, tws
  <2>8. CASE PlaceOther
    <3>1. /\ UNCHANGED <<caller, lock, registry, ready, connected, reader, tws>>
          /\ search' \in Search /\ budget' \in [Events -> Nat]
      BY <2>8, <1>1 DEF PlaceOther, Spend, Search, Events, TypeOK
    <3> QED BY <3>1, <1>1 DEF TypeOK, registry, caller, tws
  <2>9. ASSUME NEW i \in Ids, NEW k \in Keys, Reply(i, k) \/ error(i, k) PROVE Quiet
    <3> HIDE DEF Quiet
    <3> QED BY <2>9, <2>1, <2>2, <2>3 DEF Reply
  <2> HIDE DEF Quiet
  <2> QED BY <2>4, <2>5, <2>6, <2>7, <2>8, <2>9
<1> HIDE DEF Quiet
<1> QED BY <1>2, CallbackKeeps DEF Quiet

LEMMA RegistryInit == Init => RegistryInv
<1> SUFFICES ASSUME Init PROVE RegistryInv
  OBVIOUS
<1>1. <<>> \in Seq(Ids) /\ Len(<<>>) = 0 /\ DOMAIN <<>> = {}
  BY EmptySeq, LenProperties
<1>2. \A c \in Calls : Asks[c] \in Seq(Keys) /\ Len(Asks[c]) \in Nat
  BY RequestsAssumption, LenProperties
<1>3. TypeOK
  BY <1>1, RequestsAssumption DEF Init, TypeOK, Ids, Search
<1>4. CallsInv /\ OneAtATime /\ NewKeysInv /\ NumbersInv
  BY <1>1, <1>2, RequestsAssumption
     DEF Init, CallsInv, OneAtATime, NewKeysInv, NumbersInv, Asking, Active, Inside
<1>5. TableInv /\ AskedInv /\ IdsStand /\ LegsFound
  BY <1>1 DEF Init, TableInv, AskedInv, IdsStand, LegsFound
<1>6. OwnersInv
  <2>1. \A t \in RequestType : next[t] = FirstId[t] /\ FirstId[t] \in Nat
    BY RequestsAssumption DEF Init, Ids
  <2>2. "EXECUTION_DETAILS" \in RequestType
    BY DEF RequestType
  <2> QED BY <2>1, <2>2 DEF OwnersInv, Issued
<1> QED BY <1>3, <1>4, <1>5, <1>6 DEF RegistryInv

LEMMA RegistryStep == RegistryInv /\ [Next]_vars => RegistryInv'
<1> SUFFICES ASSUME RegistryInv, [Next]_vars PROVE RegistryInv'
  OBVIOUS
<1>1. ASSUME NEW c \in Calls, Begin(c) \/ Step(c) PROVE RegistryInv'
  BY <1>1, BeginKeeps, AskKeeps, ScanKeeps, SendKeeps, NumberKeeps, StoreKeeps, ReadKeeps,
     PlaceKeeps DEF Step
<1>2. CASE \/ \E i \in Ids, k \in Keys : Reply(i, k) \/ error(i, k)
           \/ Searched \/ PlaceOther
           \/ updateAccountValue \/ Drop \/ ReaderExit \/ Reconnect
  BY <1>2, EventKeeps
<1>3. CASE UNCHANGED vars
  <2>1. TypeOK'
    BY <1>3 DEF vars, RegistryInv, TypeOK
  <2> QED BY <1>3, <2>1, CallbackKeeps DEF vars, caller
<1> QED BY <1>1, <1>2, <1>3 DEF Next

LEMMA RegistryAlways == Spec => []RegistryInv
BY RegistryInit, RegistryStep, PTL DEF Spec

-----------------------------------------------------------------------------
(* The theorems.                                                           *)

\* make_request and the callbacks keep the state in its types, the bound on ids
\* apart from which nothing is assumed.
THEOREM TypeCorrect == Spec => []TypeOK
<1>1. RegistryInv => TypeOK
  BY DEF RegistryInv
<1> QED BY <1>1, RegistryAlways, PTL

\* An id that make_request returned stands for what was asked, for good: through
\* the other threads' requests, errors, lost sessions and new ones.
THEOREM IdsStandForRequests == Spec => []IdsStand
<1>1. RegistryInv => IdsStand
  BY DEF RegistryInv
<1> QED BY <1>1, RegistryAlways, PTL

\* In one session TWS is not asked twice for the same data, although the scan of
\* handled_requests and the entry it looks for are made outside request_lock.
THEOREM AskedOnce == Spec => []OneSubscription
<1>1. RegistryInv => OneSubscription
  <2> SUFFICES ASSUME RegistryInv, NEW p \in asked, NEW q \in asked, p[2] = q[2],
                      Registers(p[2])
               PROVE  p = q
    BY DEF OneSubscription
  <2> USE DEF RegistryInv
  <2>1. PICK i \in Ids, j \in Ids, k \in Keys : p = <<i, k>> /\ q = <<j, k>>
    BY DEF TypeOK
  <2>2. k # NoKey /\ Registers(k)
    BY <2>1, RequestsAssumption
  <2>3. handled[i] = k \/ \E c \in Calls : pc[c] \in Inside /\ mine[c] = i /\ Key(c) = k
    BY <2>1, <2>2 DEF AskedInv
  <2>4. handled[j] = k \/ \E c \in Calls : pc[c] \in Inside /\ mine[c] = j /\ Key(c) = k
    BY <2>1, <2>2 DEF AskedInv
  <2>5. \A c, d \in Calls : pc[c] \in Inside /\ pc[d] \in Inside /\ Key(c) = Key(d) => c = d
    BY KeysDiffer DEF Asking
  <2>6. i = j
    BY <2>2, <2>3, <2>4, <2>5 DEF NewKeysInv, TableInv
  <2> QED BY <2>1, <2>6
<1> QED BY <1>1, RegistryAlways, PTL

\* The legs that a spread order is sent with are those it has, from the chain of
\* its own expiry, whenever the search for them began.
THEOREM LegsAreFound == Spec => []LegsFound
<1>1. RegistryInv => LegsFound
  BY DEF RegistryInv
<1> QED BY <1>1, RegistryAlways, PTL

\* Three things and no other end the reader thread: a lost session, an answer
\* to a request whose make_request has not registered it yet, and an order that
\* place_order enters into open_orders while contractDetails goes through it.
\* That holds for every number of calls, threads and failures in between.
THEOREM ReaderGoesOn == Spec => ReaderSurvives
<1> DEFINE Known == \/ ~connected \/ search = "changed"
                    \/ \E p \in asked \ ended : Unregistered(p[1])
<1>1. RegistryInv /\ [Next]_vars => (reader /\ ~reader' => Known)
  <2> SUFFICES ASSUME RegistryInv, [Next]_vars, reader, ~reader' PROVE Known
    OBVIOUS
  <2>1. ASSUME NEW i \in Ids, NEW k \in Keys, Reply(i, k) PROVE Known
    <3>1. Due(i, k) /\ Registers(k) /\ \E s \in Status : SetStatus(i, s)
      BY <2>1 DEF Reply, contractDetails, contractDetailsEnd, marketDataType, tickPrice,
                  accountSummaryEnd, Registers, Status
    <3>2. handled[i] = NoKey
      BY <3>1 DEF SetStatus
    <3>3. <<i, k>> \in asked \ ended
      BY <3>1 DEF Due
    <3>4. Unregistered(i)
      BY <3>1, <3>2, <3>3, Answerable DEF Unregistered
    <3> QED BY <3>3, <3>4
  <2>2. ASSUME NEW c \in Calls, Begin(c) \/ Step(c) PROVE Known
    BY <2>2 DEF Begin, Step, Ask, Scan, Send, Number, Store, ReadTicks, ReadChain, ReadLegs,
                Place, ReadNothing, Unread, session
  <2>3. ASSUME NEW i \in Ids, NEW k \in Keys, error(i, k) PROVE Known
    BY <2>3 DEF error, session
  <2>4. CASE updateAccountValue \/ Drop \/ ReaderExit \/ Reconnect \/ PlaceOther
    BY <2>4 DEF updateAccountValue, Drop, ReaderExit, Reconnect, PlaceOther
  <2>5. CASE Searched
    BY <2>5 DEF Searched
  <2>6. CASE UNCHANGED vars
    BY <2>6 DEF vars
  <2> HIDE DEF Known
  <2> QED BY <2>1, <2>2, <2>3, <2>4, <2>5, <2>6 DEF Next
<1>2. RegistryInv /\ [Next]_vars => [reader /\ ~reader' => Known]_vars
  BY <1>1
<1> QED BY <1>2, RegistryAlways, PTL DEF Spec, ReaderSurvives
=============================================================================
