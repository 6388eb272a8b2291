----------------------- MODULE TrafficAccounting_proofs -----------------------
(***************************************************************************)
(* The accounts of TrafficAccounting, for any users, counters, restarts,    *)
(* crashes and failures.                                                   *)
(*                                                                         *)
(* Counter by counter: the worker implements Ledger, and no byte is billed  *)
(* twice.  Both follow from one fact about every step but Carry: what it    *)
(* bills was pending and is not pending any more (Settles).                *)
(*                                                                         *)
(* User by user: the totals, the charts and the hints, about sums over the  *)
(* user's counters and rows (FiniteSums).  Each has an invariant that also  *)
(* covers the tick half-way through a user and the PATCH requests that hold *)
(* an old total.                                                           *)
(***************************************************************************)
EXTENDS TrafficAccounting, FiniteSums

USE TrafficAccountingAssumption

(* The part of TypeOK about single counters.                               *)
CounterTypes ==
  /\ counter \in [Counters -> {Unseen} \cup Nat]
  /\ lastTotals \in [Counters -> {Unseen} \cup Nat]
  /\ stats \in [Counters -> {Unseen} \cup Nat]
  /\ delta \in [Counters -> Nat]
  /\ carried \in [Counters -> Nat]
  /\ billed \in [Counters -> Nat]

(* Bytes are only moved from pending to billed, or lost.                   *)
Settles ==
  /\ carried' = carried
  /\ \A n \in Counters :
       /\ billed[n] <= billed'[n]
       /\ billed'[n] + Pending(n)' <= billed[n] + Pending(n)

Solvent == \A n \in Counters : billed[n] + Pending(n) <= carried[n]

-----------------------------------------------------------------------------
(* Growth is a natural number, and growing by way of a value in between      *)
(* counts at least as much as growing at once.                             *)
LEMMA GrowthTriangle ==
  ASSUME NEW a \in {Unseen} \cup Nat, NEW b \in {Unseen} \cup Nat,
         NEW c \in {Unseen} \cup Nat
  PROVE  /\ SeenGrowth(a, b) \in Nat
         /\ b # Unseen => SeenGrowth(a, c) <= SeenGrowth(a, b) + SeenGrowth(b, c)
BY DEF SeenGrowth, Growth

(* What the loop over the counters takes is at most what the query showed.  *)
LEMMA BillableBounds ==
  ASSUME CounterTypes, NEW n \in Counters
  PROVE  /\ Billable(n) \in Nat
         /\ Billable(n) <= SeenGrowth(lastTotals[n], stats[n])
BY DEF CounterTypes, Billable, SeenGrowth, Growth

LEMMA PendingType ==
  ASSUME CounterTypes, NEW n \in Counters
  PROVE  Pending(n) \in Nat
<1>1. /\ SeenGrowth(lastTotals[n], stats[n]) \in Nat
      /\ SeenGrowth(stats[n], counter[n]) \in Nat
      /\ SeenGrowth(lastTotals[n], counter[n]) \in Nat
  BY GrowthTriangle DEF CounterTypes
<1>2. delta[n] \in Nat
  BY DEF CounterTypes
<1> QED
  BY <1>1, <1>2 DEF Pending

LEMMA PendingTypeNext ==
  ASSUME CounterTypes', NEW n \in Counters
  PROVE  Pending(n)' \in Nat
<1>1. /\ SeenGrowth(lastTotals'[n], stats'[n]) \in Nat
      /\ SeenGrowth(stats'[n], counter'[n]) \in Nat
      /\ SeenGrowth(lastTotals'[n], counter'[n]) \in Nat
  BY GrowthTriangle DEF CounterTypes
<1>2. delta'[n] \in Nat
  BY DEF CounterTypes
<1> QED
  BY <1>1, <1>2 DEF Pending

(* A byte carried adds at most one to the growth over what was seen before. *)
LEMMA GrowthByOne ==
  ASSUME NEW v \in {Unseen} \cup Nat, NEW c \in {Unseen} \cup Nat
  PROVE  LET d == IF c = Unseen THEN 1 ELSE c + 1
         IN  SeenGrowth(v, d) \in {SeenGrowth(v, c), SeenGrowth(v, c) + 1}
BY DEF SeenGrowth, Growth

-----------------------------------------------------------------------------
(* Every step keeps the types of the counters.                             *)
LEMMA TypesNext == CounterTypes /\ [Next]_vars => CounterTypes'
<1> SUFFICES ASSUME CounterTypes, [Next]_vars PROVE CounterTypes'
  OBVIOUS
<1> USE DEF CounterTypes
<1>1. ASSUME NEW n \in Counters, Carry(n) PROVE CounterTypes'
  BY <1>1 DEF Carry, tickLocals
<1>2. CASE XrayRestart
  BY <1>2 DEF XrayRestart, NoStats, tickLocals, history
<1>3. CASE QueryStats
  BY <1>3 DEF QueryStats, history
<1>4. CASE ListUsers
  <2>1. delta' \in [Counters -> Nat]
    BY <1>4, BillableBounds DEF ListUsers
  <2>2. lastTotals' \in [Counters -> {Unseen} \cup Nat]
    BY <1>4 DEF ListUsers
  <2> QED
    BY <1>4, <2>1, <2>2 DEF ListUsers, NoStats
<1>5. CASE ListUsersFails
  BY <1>5 DEF ListUsersFails, NoStats, history
<1>6. ASSUME NEW u \in Users, NextUser(u) PROVE CounterTypes'
  BY <1>6 DEF NextUser, history
<1>7. CASE TickDone
  BY <1>7 DEF TickDone, NoDelta, history
<1>8. ASSUME NEW l \in Labels, RecordUsage(l) PROVE CounterTypes'
  BY <1>8 DEF RecordUsage, history
<1>9. CASE InsertSnapshot
  BY <1>9 DEF InsertSnapshot
<1>10. CASE AddTrafficUsed
  <2>1. delta' \in [Counters -> Nat]
    BY <1>10 DEF AddTrafficUsed
  <2>2. billed' \in [Counters -> Nat]
    BY <1>10 DEF AddTrafficUsed
  <2> QED
    BY <1>10, <2>1, <2>2 DEF AddTrafficUsed
<1>11. CASE AddTrafficFails
  BY <1>11 DEF AddTrafficFails, NoDelta, history
<1>12. CASE AgentCrash
  BY <1>12 DEF AgentCrash, NoDelta, NoStats, history
<1>13. ASSUME NEW s \in Slots, NEW r \in Patches, GetUser(s, r) PROVE CounterTypes'
  BY <1>13 DEF GetUser, tickLocals, history
<1>14. ASSUME NEW s \in Slots, UpdateUser(s) PROVE CounterTypes'
  BY <1>14 DEF UpdateUser, tickLocals, history
<1>15. ASSUME NEW u \in Users, DeleteUser(u) PROVE CounterTypes'
  BY <1>15 DEF DeleteUser, tickLocals, history
<1>16. CASE UNCHANGED vars
  BY <1>16 DEF vars
<1> QED
  BY <1>1, <1>2, <1>3, <1>4, <1>5, <1>6, <1>7, <1>8, <1>9, <1>10, <1>11, <1>12,
     <1>13, <1>14, <1>15, <1>16 DEF Next, Tick

(* A carried byte becomes pending or not, counter by counter.              *)
LEMMA CarryStep ==
  ASSUME CounterTypes, NEW n \in Counters, Carry(n)
  PROVE  /\ \A m \in Counters \ {n} : Pending(m)' = Pending(m)
         /\ Pending(n)' \in {Pending(n), Pending(n) + 1}
<1>1. /\ UNCHANGED <<lastTotals, stats, delta, tick>>
      /\ counter' = [counter EXCEPT ![n] = IF @ = Unseen THEN 1 ELSE @ + 1]
  BY DEF Carry, tickLocals
<1>2. \A m \in Counters \ {n} : Pending(m)' = Pending(m)
  BY <1>1 DEF Pending, CounterTypes
<1>3. DEFINE d == IF counter[n] = Unseen THEN 1 ELSE counter[n] + 1
<1>4. counter'[n] = d
  BY <1>1 DEF CounterTypes
<1>5. ASSUME NEW v \in {Unseen} \cup Nat
      PROVE  SeenGrowth(v, counter'[n]) \in
               {SeenGrowth(v, counter[n]), SeenGrowth(v, counter[n]) + 1}
  BY <1>4, GrowthByOne DEF CounterTypes
<1>6. /\ SeenGrowth(stats[n], counter'[n]) \in
           {SeenGrowth(stats[n], counter[n]), SeenGrowth(stats[n], counter[n]) + 1}
      /\ SeenGrowth(lastTotals[n], counter'[n]) \in
           {SeenGrowth(lastTotals[n], counter[n]),
            SeenGrowth(lastTotals[n], counter[n]) + 1}
  BY <1>5 DEF CounterTypes
<1>7. /\ SeenGrowth(lastTotals[n], stats[n]) \in Nat
      /\ SeenGrowth(stats[n], counter[n]) \in Nat
      /\ SeenGrowth(lastTotals[n], counter[n]) \in Nat
      /\ delta[n] \in Nat
  BY GrowthTriangle DEF CounterTypes
<1>8. ASSUME tick = "queried" /\ stats[n] # Unseen
      PROVE  Pending(n)' \in {Pending(n), Pending(n) + 1}
  <2>1. Pending(n) = delta[n]
         + (SeenGrowth(lastTotals[n], stats[n]) + SeenGrowth(stats[n], counter[n]))
    BY <1>8 DEF Pending
  <2>2. Pending(n)' = delta[n]
         + (SeenGrowth(lastTotals[n], stats[n]) + SeenGrowth(stats[n], counter'[n]))
    BY <1>1, <1>8 DEF Pending
  <2> QED
    BY <1>6, <1>7, <2>1, <2>2
<1>9. ASSUME ~(tick = "queried" /\ stats[n] # Unseen)
      PROVE  Pending(n)' \in {Pending(n), Pending(n) + 1}
  <2>1. Pending(n) = delta[n] + SeenGrowth(lastTotals[n], counter[n])
    BY <1>9 DEF Pending
  <2>2. Pending(n)' = delta[n] + SeenGrowth(lastTotals[n], counter'[n])
    BY <1>1, <1>9 DEF Pending
  <2> QED
    BY <1>6, <1>7, <2>1, <2>2
<1> QED
  BY <1>2, <1>8, <1>9

(* Steps that leave the worker and the counters alone settle nothing.      *)
LEMMA IdleStep ==
  ASSUME CounterTypes,
         UNCHANGED <<counter, lastTotals, stats, delta, carried, billed>>,
         tick = "queried" <=> tick' = "queried"
  PROVE  Settles
<1>1. \A n \in Counters : Pending(n)' = Pending(n)
  BY DEF Pending
<1>2. \A n \in Counters : Pending(n) \in Nat
  BY PendingType
<1> QED
  BY <1>1, <1>2 DEF Settles, CounterTypes

(* The steps of tick, a restart of Xray and the end of the agent move bytes *)
(* from pending to billed, or lose them.                                   *)
LEMMA SettlingStep ==
  ASSUME CounterTypes, CounterTypes',
         QueryStats \/ ListUsers \/ ListUsersFails \/ TickDone \/ AddTrafficUsed
           \/ AddTrafficFails \/ XrayRestart \/ AgentCrash
  PROVE  Settles
<1>1. carried' = carried
  BY DEF QueryStats, ListUsers, ListUsersFails, TickDone, AddTrafficUsed,
         AddTrafficFails, XrayRestart, AgentCrash, history
<1> SUFFICES ASSUME NEW n \in Counters
             PROVE  /\ billed[n] <= billed'[n]
                    /\ billed'[n] + Pending(n)' <= billed[n] + Pending(n)
  BY <1>1 DEF Settles
<1>2. /\ Pending(n) \in Nat /\ Pending(n)' \in Nat
      /\ delta[n] \in Nat /\ delta'[n] \in Nat
      /\ billed[n] \in Nat /\ billed'[n] \in Nat
  BY PendingType, PendingTypeNext DEF CounterTypes
<1> DEFINE behind == SeenGrowth(lastTotals[n], counter[n])
<1>3. /\ SeenGrowth(lastTotals[n], stats[n]) \in Nat
      /\ SeenGrowth(stats[n], counter[n]) \in Nat
      /\ behind \in Nat
      /\ stats[n] # Unseen =>
           behind <= SeenGrowth(lastTotals[n], stats[n])
                       + SeenGrowth(stats[n], counter[n])
  BY GrowthTriangle DEF CounterTypes
<1>4. CASE QueryStats
  <2>1. Pending(n) = delta[n] + behind
    BY <1>4 DEF QueryStats, Pending
  <2>2. SeenGrowth(counter[n], counter[n]) = 0
    BY DEF SeenGrowth, Growth, CounterTypes
  <2>3. Pending(n)' = delta[n] + behind
    <3>1. CASE counter[n] # Unseen
      <4>1. Pending(n)' = delta[n] + (behind + SeenGrowth(counter[n], counter[n]))
        BY <1>4, <3>1 DEF QueryStats, Pending
      <4> QED
        BY <4>1, <2>2, <1>2, <1>3
    <3>2. CASE counter[n] = Unseen
      BY <1>4, <3>2 DEF QueryStats, Pending
    <3> QED
      BY <3>1, <3>2
  <2> QED
    BY <2>1, <2>3, <1>2, <1>4 DEF QueryStats, history
<1>5. CASE ListUsers
  <2>1. /\ delta'[n] = Billable(n) /\ tick' # "queried" /\ billed' = billed
        /\ counter' = counter
        /\ lastTotals'[n] = IF stats[n] = Unseen THEN lastTotals[n] ELSE stats[n]
    BY <1>5 DEF ListUsers
  <2>2. /\ Billable(n) \in Nat
        /\ Billable(n) <= SeenGrowth(lastTotals[n], stats[n])
    BY BillableBounds
  <2>3. Pending(n)' = Billable(n) + SeenGrowth(lastTotals'[n], counter[n])
    BY <2>1 DEF Pending
  <2>4. CASE stats[n] # Unseen
    <3>1. Pending(n) = delta[n]
            + (SeenGrowth(lastTotals[n], stats[n]) + SeenGrowth(stats[n], counter[n]))
      BY <1>5, <2>4 DEF ListUsers, Pending
    <3>2. lastTotals'[n] = stats[n]
      BY <2>1, <2>4
    <3> QED
      BY <2>1, <2>2, <2>3, <3>1, <3>2, <1>2, <1>3
  <2>5. CASE stats[n] = Unseen
    <3>1. Pending(n) = delta[n] + behind
      BY <2>5 DEF Pending
    <3>2. Billable(n) = 0
      BY <2>5 DEF Billable
    <3>3. lastTotals'[n] = lastTotals[n]
      BY <2>1, <2>5
    <3> QED
      BY <2>1, <2>3, <3>1, <3>2, <3>3, <1>2, <1>3
  <2> QED
    BY <2>4, <2>5
<1>6. CASE ListUsersFails
  <2>1. Pending(n)' = delta[n] + behind
    BY <1>6 DEF ListUsersFails, Pending
  <2>2. Pending(n) >= delta[n] + behind
    <3>1. CASE stats[n] # Unseen
      <4>1. Pending(n) = delta[n]
              + (SeenGrowth(lastTotals[n], stats[n]) + SeenGrowth(stats[n], counter[n]))
        BY <1>6, <3>1 DEF ListUsersFails, Pending
      <4> QED
        BY <3>1, <4>1, <1>2, <1>3
    <3>2. CASE stats[n] = Unseen
      <4>1. Pending(n) = delta[n] + behind
        BY <3>2 DEF Pending
      <4> QED
        BY <4>1, <1>2, <1>3
    <3> QED
      BY <3>1, <3>2
  <2> QED
    BY <2>1, <2>2, <1>2, <1>3, <1>6 DEF ListUsersFails, history
<1>7. ASSUME tick # "queried", tick' # "queried", counter' = counter,
             lastTotals' = lastTotals,
             billed[n] <= billed'[n], billed'[n] + delta'[n] <= billed[n] + delta[n]
      PROVE  /\ billed[n] <= billed'[n]
             /\ billed'[n] + Pending(n)' <= billed[n] + Pending(n)
  <2>1. Pending(n) = delta[n] + behind /\ Pending(n)' = delta'[n] + behind
    BY <1>7 DEF Pending
  <2> QED
    BY <2>1, <1>2, <1>3, <1>7
<1>8. CASE TickDone
  <2>1. delta'[n] = 0 /\ billed' = billed /\ counter' = counter
        /\ lastTotals' = lastTotals /\ tick = "users" /\ tick' = "idle"
    BY <1>8 DEF TickDone, NoDelta, history
  <2> QED
    BY <2>1, <1>2, <1>7
<1>9. CASE AddTrafficUsed
  <2>1. /\ counter' = counter /\ lastTotals' = lastTotals
        /\ tick = "protocols" /\ tick' = "users"
        /\ delta'[n] = IF n.user = who THEN 0 ELSE delta[n]
    BY <1>9 DEF AddTrafficUsed
  <2>2. \/ billed'[n] = billed[n]
        \/ n.user = who /\ billed'[n] = billed[n] + delta[n]
    BY <1>9 DEF AddTrafficUsed
  <2>3. billed[n] <= billed'[n] /\ billed'[n] + delta'[n] <= billed[n] + delta[n]
    BY <2>1, <2>2, <1>2
  <2> QED
    BY <2>1, <2>3, <1>7
<1>10. CASE AddTrafficFails
  <2>1. delta'[n] = 0 /\ billed' = billed /\ counter' = counter
        /\ lastTotals' = lastTotals /\ tick = "protocols" /\ tick' = "idle"
    BY <1>10 DEF AddTrafficFails, NoDelta, history
  <2> QED
    BY <2>1, <1>2, <1>7
<1>11. CASE XrayRestart
  <2>1. /\ UNCHANGED <<lastTotals, stats, delta, tick, billed>>
        /\ counter'[n] = Unseen
    BY <1>11 DEF XrayRestart, NoStats, tickLocals, history
  <2>2. /\ SeenGrowth(stats[n], counter'[n]) = 0
        /\ SeenGrowth(lastTotals[n], counter'[n]) = 0
    BY <2>1 DEF SeenGrowth
  <2>3. CASE tick = "queried" /\ stats[n] # Unseen
    <3>1. Pending(n) = delta[n]
            + (SeenGrowth(lastTotals[n], stats[n]) + SeenGrowth(stats[n], counter[n]))
      BY <2>3 DEF Pending
    <3>2. Pending(n)' = delta[n] + (SeenGrowth(lastTotals[n], stats[n]) + 0)
      BY <2>1, <2>2, <2>3 DEF Pending
    <3> QED
      BY <3>1, <3>2, <2>1, <1>2, <1>3
  <2>4. CASE ~(tick = "queried" /\ stats[n] # Unseen)
    <3>1. Pending(n) = delta[n] + behind
      BY <2>4 DEF Pending
    <3>2. Pending(n)' = delta[n] + 0
      BY <2>1, <2>2, <2>4 DEF Pending
    <3> QED
      BY <3>1, <3>2, <2>1, <1>2, <1>3
  <2> QED
    BY <2>3, <2>4
<1>12. CASE AgentCrash
  <2>1. /\ lastTotals'[n] = Unseen /\ delta'[n] = 0 /\ tick' = "idle"
        /\ billed' = billed
    BY <1>12 DEF AgentCrash, NoStats, NoDelta, history
  <2>2. Pending(n)' = 0
    BY <2>1 DEF Pending, SeenGrowth
  <2> QED
    BY <2>1, <2>2, <1>2
<1> QED
  BY <1>4, <1>5, <1>6, <1>8, <1>9, <1>10, <1>11, <1>12

(* Every step carries one byte or settles.                                 *)
LEMMA StepsSettle ==
  ASSUME CounterTypes, CounterTypes', [Next]_vars
  PROVE  (\E n \in Counters : Carry(n)) \/ Settles
<1>1. ASSUME NEW u \in Users, NextUser(u) PROVE Settles
  BY <1>1, IdleStep DEF NextUser, history
<1>2. ASSUME NEW l \in Labels, RecordUsage(l) PROVE Settles
  BY <1>2, IdleStep DEF RecordUsage, history
<1>3. CASE InsertSnapshot
  BY <1>3, IdleStep DEF InsertSnapshot
<1>4. ASSUME NEW s \in Slots, NEW r \in Patches, GetUser(s, r) PROVE Settles
  BY <1>4, IdleStep DEF GetUser, tickLocals, history
<1>5. ASSUME NEW s \in Slots, UpdateUser(s) PROVE Settles
  BY <1>5, IdleStep DEF UpdateUser, tickLocals, history
<1>6. ASSUME NEW u \in Users, DeleteUser(u) PROVE Settles
  BY <1>6, IdleStep DEF DeleteUser, tickLocals, history
<1>7. CASE UNCHANGED vars
  BY <1>7, IdleStep DEF vars
<1>8. CASE QueryStats \/ ListUsers \/ ListUsersFails \/ TickDone \/ AddTrafficUsed
             \/ AddTrafficFails \/ XrayRestart \/ AgentCrash
  BY <1>8, SettlingStep
<1> QED
  BY <1>1, <1>2, <1>3, <1>4, <1>5, <1>6, <1>7, <1>8 DEF Next, Tick

-----------------------------------------------------------------------------
LEMMA InitTypes == Init => CounterTypes
BY DEF Init, CounterTypes, NoDelta, NoStats

LEMMA InitPending == Init => \A n \in Counters : Pending(n) = 0
BY DEF Init, Pending, SeenGrowth, NoDelta, NoStats

(* The types of the counters in every reachable state.                     *)
LEMMA CountersCorrect == Spec => []CounterTypes
<1>1. CounterTypes /\ [Next]_vars => CounterTypes'
  BY TypesNext
<1> QED
  BY <1>1, InitTypes, PTL DEF Spec

(* A step of the worker, of Xray or of a request is a step of Ledger.       *)
LEMMA LedgerStep ==
  CounterTypes /\ CounterTypes' /\ [Next]_vars => [Books!Next]_(Books!ledger)
<1> SUFFICES ASSUME CounterTypes, CounterTypes', [Next]_vars
             PROVE  Books!Next
  OBVIOUS
<1> DEFINE pending == [n \in Counters |-> Pending(n)]
<1>1. ASSUME NEW n \in Counters, Carry(n) PROVE Books!Carry(n)
  <2>1. /\ carried' = [carried EXCEPT ![n] = @ + 1]
        /\ billed' = billed
    BY <1>1 DEF Carry
  <2>2. pending' = [pending EXCEPT ![n] = @ + 1] \/ pending' = pending
    <3>1. /\ \A m \in Counters \ {n} : Pending(m)' = Pending(m)
          /\ Pending(n)' \in {Pending(n), Pending(n) + 1}
      BY <1>1, CarryStep
    <3>2. CASE Pending(n)' = Pending(n)
      <4>1. \A m \in Counters : Pending(m)' = Pending(m)
        BY <3>1, <3>2
      <4> QED
        BY <4>1
    <3>3. CASE Pending(n)' = Pending(n) + 1
      <4>1. \A m \in Counters :
              Pending(m)' = IF m = n THEN Pending(n) + 1 ELSE Pending(m)
        BY <3>1, <3>3
      <4>2. pending' = [m \in Counters |->
                         IF m = n THEN Pending(n) + 1 ELSE Pending(m)]
        BY <4>1
      <4> QED
        BY <4>2
    <3> QED
      BY <3>1, <3>2, <3>3
  <2> QED
    BY <2>1, <2>2 DEF Books!Carry
<1>2. CASE Settles
  <2>1. pending' \in [Counters -> Nat]
    BY PendingTypeNext
  <2>2. billed' \in [Counters -> Nat]
    BY DEF CounterTypes
  <2>3. /\ carried' = carried
        /\ \A n \in Counters :
             /\ billed[n] <= billed'[n]
             /\ billed'[n] + pending'[n] <= billed[n] + pending[n]
    BY <1>2 DEF Settles
  <2>4. Books!Settle
    BY <2>1, <2>2, <2>3 DEF Books!Settle
  <2> QED
    BY <2>4 DEF Books!Next
<1> QED
  BY <1>1, <1>2, StepsSettle DEF Books!Next

(* TrafficAccounting implements Ledger: whatever restarts, fails, crashes,  *)
(* is edited or deleted, the worker bills only growth that was pending, and *)
(* bills it once (tick, AddUserTrafficUsed).                                *)
THEOREM WorkerKeepsBooks == Spec => KeepsBooks
<1>1. Init => Books!Init
  BY InitPending DEF Init, Books!Init, NoDelta
<1> QED
  BY <1>1, LedgerStep, CountersCorrect, PTL DEF Spec, KeepsBooks, Books!Spec

(* What is billed and pending never exceeds what was carried.              *)
LEMMA SolventStep ==
  CounterTypes /\ CounterTypes' /\ Solvent /\ [Next]_vars => Solvent'
<1> SUFFICES ASSUME CounterTypes, CounterTypes', Solvent, [Next]_vars,
                    NEW m \in Counters
             PROVE  billed'[m] + Pending(m)' <= carried'[m]
  BY DEF Solvent
<1>1. /\ billed[m] + Pending(m) <= carried[m]
      /\ Pending(m) \in Nat /\ Pending(m)' \in Nat
      /\ billed[m] \in Nat /\ billed'[m] \in Nat /\ carried[m] \in Nat
  BY PendingType, PendingTypeNext DEF Solvent, CounterTypes
<1>2. ASSUME NEW n \in Counters, Carry(n)
      PROVE  billed'[m] + Pending(m)' <= carried'[m]
  <2>1. /\ carried'[m] = IF m = n THEN carried[m] + 1 ELSE carried[m]
        /\ billed' = billed
    BY <1>2 DEF Carry, CounterTypes
  <2>2. /\ m # n => Pending(m)' = Pending(m)
        /\ m = n => Pending(m)' \in {Pending(m), Pending(m) + 1}
    BY <1>2, CarryStep
  <2> QED
    BY <1>1, <2>1, <2>2
<1>3. CASE Settles
  BY <1>1, <1>3 DEF Settles
<1> QED
  BY <1>2, <1>3, StepsSettle

(* No byte is billed twice: counter by counter, the bytes billed are at     *)
(* most the bytes carried, across restarts of Xray and of the agent and     *)
(* ticks that failed half-way (Worker.lastTotals).                          *)
THEOREM NoByteTwice == Spec => []BilledAtMostCarried
<1>1. Init => Solvent
  BY InitPending DEF Init, Solvent, NoDelta
<1>2. CounterTypes /\ Solvent => BilledAtMostCarried
  BY PendingType DEF Solvent, BilledAtMostCarried, CounterTypes
<1> QED
  BY <1>1, <1>2, CountersCorrect, SolventStep, PTL DEF Spec

-----------------------------------------------------------------------------
(* Every counter is a user's and has a label, and each user has finitely    *)
(* many of them.                                                           *)
LEMMA CounterParts ==
  ASSUME NEW n \in Counters
  PROVE  n.user \in Users /\ Label(n) \in Labels /\ <<n.user, Label(n)>> \in Rows
<1>1. n \in CounterNames
  OBVIOUS
<1>2. n.user \in Users /\ n.tag \in (Labels \ {"vless_reality"}) \cup {"legacy"}
  BY <1>1 DEF CounterNames
<1> QED
  BY <1>2 DEF Label, Labels, Rows

LEMMA CountersFinite ==
  \A S \in SUBSET Counters : IsFiniteSet(S)
BY FS_Subset

(* The sums that a tick writes are natural numbers.                        *)
LEMMA DeltaSums ==
  ASSUME CounterTypes, NEW u, NEW l
  PROVE  UserDelta(u) \in Nat /\ LabelDelta(u, l) \in Nat
<1>1. /\ IsFiniteSet(CountersOf(u))
      /\ IsFiniteSet({n \in CountersOf(u) : Label(n) = l})
  BY CountersFinite DEF CountersOf
<1>2. \A n \in CountersOf(u) : delta[n] \in Nat
  BY DEF CounterTypes, CountersOf
<1> QED
  BY <1>1, <1>2, SumType DEF UserDelta, LabelDelta

LEMMA CounterPart == TypeOK => CounterTypes
BY DEF TypeOK, CounterTypes

(* Every step keeps the types, those of the sums in the tables included.    *)
LEMMA TypeNext == TypeOK /\ [Next]_vars => TypeOK'
<1> SUFFICES ASSUME TypeOK, [Next]_vars PROVE TypeOK'
  OBVIOUS
<1>1. CounterTypes /\ CounterTypes'
  BY CounterPart, TypesNext
<1> DEFINE Others ==
      /\ tick \in TickStages
      /\ todo \in SUBSET Users /\ who \in {Keep} \cup Users
      /\ labels \in SUBSET Labels /\ label \in {Keep} \cup Labels
      /\ now \in Nat
      /\ known \in SUBSET Users
      /\ used \in [Users -> Nat] /\ lastSeen \in [Users -> Nat]
      /\ charted \in [Rows -> Nat]
      /\ lastBytes \in [Rows -> Nat]
      /\ patch \in [Slots -> {Keep} \cup Patches]
      /\ loadedUsed \in [Slots -> Nat] /\ loadedSeen \in [Slots -> Nat]
      /\ restarts \in Nat /\ crashes \in Nat /\ faults \in Nat
      /\ patches \in Nat /\ deletes \in Nat
      /\ firstTotal \in [Counters -> Nat]
      /\ lastCharted \in [Rows -> Nat]
<1>2. Others
  BY DEF TypeOK
<1>3. SUFFICES Others'
  BY <1>1 DEF TypeOK, CounterTypes
<1> USE DEF TickStages
<1>4. ASSUME NEW n \in Counters, Carry(n) PROVE Others'
  BY <1>2, <1>4 DEF Carry, tickLocals, userTable, charts, requests, bounds
<1>5. CASE XrayRestart
  BY <1>2, <1>5 DEF XrayRestart, tickLocals, userTable, charts, requests, history
<1>6. CASE QueryStats
  BY <1>2, <1>6 DEF QueryStats, userTable, charts, requests, bounds, history
<1>7. CASE ListUsers
  <2>1. firstTotal' \in [Counters -> Nat]
    BY <1>2, <1>1, <1>7 DEF ListUsers, CounterTypes
  <2> QED
    BY <1>2, <1>7, <2>1 DEF ListUsers, userTable, charts, requests, bounds
<1>8. CASE ListUsersFails
  BY <1>2, <1>8 DEF ListUsersFails, Fault, userTable, charts, requests, history
<1>9. ASSUME NEW u \in Users, NextUser(u) PROVE Others'
  <2>1. labels' \in SUBSET Labels
    BY <1>9, CounterParts DEF NextUser, CountersOf
  <2> QED
    BY <1>2, <1>9, <2>1 DEF NextUser, userTable, charts, requests, bounds, history
<1>10. CASE TickDone
  BY <1>2, <1>10 DEF TickDone, userTable, charts, requests, bounds, history
<1>11. ASSUME NEW l \in Labels, RecordUsage(l) PROVE Others'
  BY <1>2, <1>11 DEF RecordUsage, Fault, userTable, requests, history
<1>12. CASE InsertSnapshot
  <2>1. LabelDelta(who, label) \in Nat
    BY <1>1, DeltaSums
  <2>2. \/ charted' = [charted EXCEPT ![<<who, label>>] = @ + LabelDelta(who, label)]
        \/ charted' = charted
    BY <1>12 DEF InsertSnapshot
  <2>3. charted' \in [Rows -> Nat]
    BY <1>2, <2>1, <2>2
  <2>4. lastCharted' \in [Rows -> Nat] /\ faults' \in Nat
    BY <1>2, <1>12 DEF InsertSnapshot, Fault
  <2> QED
    BY <1>2, <1>12, <2>3, <2>4 DEF InsertSnapshot, userTable, requests
<1>13. CASE AddTrafficUsed
  <2>1. UserDelta(who) \in Nat
    BY <1>1, DeltaSums
  <2>2. used' \in [Users -> Nat]
    BY <1>2, <1>13, <2>1 DEF AddTrafficUsed
  <2>3. lastSeen' \in [Users -> Nat]
    BY <1>2, <1>13 DEF AddTrafficUsed
  <2> QED
    BY <1>2, <1>13, <2>2, <2>3 DEF AddTrafficUsed, charts, requests, bounds
<1>14. CASE AddTrafficFails
  BY <1>2, <1>14 DEF AddTrafficFails, Fault, userTable, charts, requests, history
<1>15. CASE AgentCrash
  BY <1>2, <1>15 DEF AgentCrash, userTable, charts, history
<1>16. ASSUME NEW s \in Slots, NEW r \in Patches, GetUser(s, r) PROVE Others'
  BY <1>2, <1>16 DEF GetUser, tickLocals, userTable, charts, history
<1>17. ASSUME NEW s \in Slots, UpdateUser(s) PROVE Others'
  <2>1. patch[s] \in Patches
    BY <1>2, <1>17 DEF UpdateUser
  <2>2. patch[s].user \in Users /\ patch[s].used \in {Keep} \cup Nat
    BY <2>1
  <2>3. used' \in [Users -> Nat]
    BY <1>2, <1>17, <2>2 DEF UpdateUser
  <2>4. lastSeen' \in [Users -> Nat]
    BY <1>2, <1>17, <2>2 DEF UpdateUser
  <2> QED
    BY <1>2, <1>17, <2>3, <2>4
    DEF UpdateUser, tickLocals, charts, bounds, history
<1>18. ASSUME NEW u \in Users, DeleteUser(u) PROVE Others'
  BY <1>2, <1>18 DEF DeleteUser, tickLocals, charts, requests, history
<1>19. CASE UNCHANGED vars
  BY <1>2, <1>19 DEF vars
<1> QED
  BY <1>4, <1>5, <1>6, <1>7, <1>8, <1>9, <1>10, <1>11, <1>12, <1>13, <1>14, <1>15,
     <1>16, <1>17, <1>18, <1>19 DEF Next, Tick

(* The tables, the worker's locals and the requests always have their types: *)
(* no total and no chart row is ever negative, whatever was lost or retried. *)
THEOREM TypeCorrect == Spec => []TypeOK
<1>1. Init => TypeOK
  BY DEF Init, TypeOK, NoDelta, NoStats, TickStages
<1> QED
  BY <1>1, TypeNext, PTL DEF Spec

-----------------------------------------------------------------------------
ForUser == tick \in {"protocols", "snapshot"}

(* What a tick's locals hold: whoever has growth left to write is still to   *)
(* come or in hand, and the labels in hand are that user's.                 *)
TickOK ==
  /\ ForUser => /\ who \in Users \ todo
                /\ labels \subseteq {Label(n) : n \in CountersOf(who)}
  /\ tick = "snapshot" => label \in labels
  /\ \A n \in Counters : delta[n] > 0 =>
       \/ tick = "users" /\ n.user \in todo
       \/ ForUser /\ n.user \in todo \cup {who}

LEMMA TickNext == TypeOK /\ TickOK /\ [Next]_vars => TickOK'
<1> SUFFICES ASSUME TypeOK, TickOK, [Next]_vars PROVE TickOK'
  OBVIOUS
<1>1. CounterTypes
  BY CounterPart
<1>2. ASSUME UNCHANGED <<tick, delta, todo, who, labels, label>> PROVE TickOK'
  BY <1>2 DEF TickOK, ForUser
<1>3. ASSUME NEW n \in Counters, Carry(n) PROVE TickOK'
  BY <1>2, <1>3 DEF Carry, tickLocals
<1>4. CASE XrayRestart
  BY <1>2, <1>4 DEF XrayRestart, tickLocals
<1>5. ASSUME tick' \notin {"users", "protocols", "snapshot"},
             \A n \in Counters : delta'[n] = 0
      PROVE  TickOK'
  BY <1>5 DEF TickOK, ForUser
<1>6. \A n \in Counters : delta[n] \in Nat
  BY <1>1 DEF CounterTypes
<1>7. CASE QueryStats \/ ListUsersFails
  <2>1. \A n \in Counters : delta[n] = 0
    BY <1>6, <1>7 DEF QueryStats, ListUsersFails, TickOK, ForUser
  <2> QED
    BY <1>5, <1>7, <2>1 DEF QueryStats, ListUsersFails
<1>8. CASE ListUsers
  <2>1. \A n \in Counters : Billable(n) > 0 => n.user \in todo'
    BY <1>8, CounterParts DEF ListUsers, CountersOf
  <2>2. /\ tick' = "users"
        /\ \A n \in Counters : delta'[n] = Billable(n)
    BY <1>8 DEF ListUsers
  <2> QED
    BY <2>1, <2>2 DEF TickOK, ForUser
<1>9. ASSUME NEW u \in Users, NextUser(u) PROVE TickOK'
  <2>1. /\ tick = "users" /\ tick' = "protocols" /\ u \in todo
        /\ todo' = todo \ {u} /\ who' = u /\ delta' = delta
        /\ labels' = {Label(n) : n \in {m \in CountersOf(u) : delta[m] > 0}}
    BY <1>9 DEF NextUser
  <2>2. labels' \subseteq {Label(n) : n \in CountersOf(u)}
    BY <2>1
  <2>3. \A n \in Counters : delta[n] > 0 => n.user \in todo
    BY <2>1 DEF TickOK, ForUser
  <2> QED
    BY <2>1, <2>2, <2>3 DEF TickOK, ForUser
<1>10. CASE TickDone
  BY <1>5, <1>10 DEF TickDone, NoDelta
<1>11. ASSUME NEW l \in Labels, RecordUsage(l) PROVE TickOK'
  BY <1>11 DEF RecordUsage, TickOK, ForUser
<1>12. CASE InsertSnapshot
  BY <1>12 DEF InsertSnapshot, TickOK, ForUser
<1>13. CASE AddTrafficUsed
  <2>1. /\ tick = "protocols" /\ tick' = "users" /\ todo' = todo
        /\ \A n \in Counters : delta'[n] = IF n.user = who THEN 0 ELSE delta[n]
    BY <1>13 DEF AddTrafficUsed
  <2> QED
    BY <2>1 DEF TickOK, ForUser
<1>14. CASE AddTrafficFails
  BY <1>5, <1>14 DEF AddTrafficFails, NoDelta
<1>15. CASE AgentCrash
  BY <1>5, <1>15 DEF AgentCrash, NoDelta
<1>16. ASSUME NEW s \in Slots, NEW r \in Patches, GetUser(s, r) PROVE TickOK'
  BY <1>2, <1>16 DEF GetUser, tickLocals
<1>17. ASSUME NEW s \in Slots, UpdateUser(s) PROVE TickOK'
  BY <1>2, <1>17 DEF UpdateUser, tickLocals
<1>18. ASSUME NEW u \in Users, DeleteUser(u) PROVE TickOK'
  BY <1>2, <1>18 DEF DeleteUser, tickLocals
<1>19. CASE UNCHANGED vars
  BY <1>2, <1>19 DEF vars
<1> QED
  BY <1>3, <1>4, <1>7, <1>8, <1>9, <1>10, <1>11, <1>12, <1>13, <1>14, <1>15,
     <1>16, <1>17, <1>18, <1>19 DEF Next, Tick

LEMMA TickCorrect == Spec => [](TypeOK /\ TickOK)
<1>1. Init => TickOK
  BY DEF Init, TickOK, ForUser, NoDelta
<1> QED
  BY <1>1, TypeCorrect, TickNext, PTL DEF Spec

-----------------------------------------------------------------------------
(* The bytes billed to a user, and the totals they explain: the one in the   *)
(* row and those that PATCH requests have read and may write back.          *)
BilledTo(u) == SumFunctionOnSet(billed, CountersOf(u))

Explained(v, u) == \E base \in Bases(u) : v <= base + BilledTo(u)

TotalsExplained ==
  \A u \in Users :
    /\ Explained(used[u], u)
    /\ \A s \in Slots :
         patch[s] # Keep /\ patch[s].user = u => Explained(loadedUsed[s], u)

LEMMA BasesType ==
  \A u \in Users : Bases(u) \subseteq Nat /\ InitialUsed[u] \in Bases(u)
BY DEF Bases

LEMMA BilledToType ==
  ASSUME CounterTypes, NEW u
  PROVE  BilledTo(u) \in Nat
<1>1. IsFiniteSet(CountersOf(u))
  BY CountersFinite DEF CountersOf
<1>2. \A n \in CountersOf(u) : billed[n] \in Nat
  BY DEF CounterTypes, CountersOf
<1> QED
  BY <1>1, <1>2, SumType DEF BilledTo

LEMMA BilledToTypeNext ==
  ASSUME CounterTypes', NEW u
  PROVE  BilledTo(u)' \in Nat
<1>1. IsFiniteSet(CountersOf(u))
  BY CountersFinite DEF CountersOf
<1>2. \A n \in CountersOf(u) : billed'[n] \in Nat
  BY DEF CounterTypes, CountersOf
<1>3. SumFunctionOnSet(billed', CountersOf(u)) \in Nat
  BY <1>1, <1>2, SumType
<1> QED
  BY <1>3 DEF BilledTo, CountersOf

(* Nothing that was billed is ever taken back.                             *)
LEMMA BilledToGrows ==
  ASSUME CounterTypes, CounterTypes', [Next]_vars, NEW u
  PROVE  BilledTo(u) <= BilledTo(u)'
<1>1. \A n \in Counters : billed[n] <= billed'[n]
  <2>1. ASSUME NEW m \in Counters, Carry(m)
        PROVE  \A n \in Counters : billed[n] <= billed'[n]
    BY <2>1 DEF Carry, CounterTypes
  <2>2. CASE Settles
    BY <2>2 DEF Settles
  <2> QED
    BY <2>1, <2>2, StepsSettle
<1>2. IsFiniteSet(CountersOf(u))
  BY CountersFinite DEF CountersOf
<1>3. \A n \in CountersOf(u) :
        billed[n] \in Nat /\ billed'[n] \in Nat /\ billed[n] <= billed'[n]
  BY <1>1 DEF CounterTypes, CountersOf
<1>4. SumFunctionOnSet(billed, CountersOf(u)) <=
        SumFunctionOnSet(billed', CountersOf(u))
  BY <1>2, <1>3, SumMonotone
<1> QED
  BY <1>4 DEF BilledTo, CountersOf

(* AddUserTrafficUsed adds to the total of a user what it bills.            *)
LEMMA BilledToAdds ==
  ASSUME CounterTypes, AddTrafficUsed, who \in known, NEW u, u = who
  PROVE  BilledTo(u)' = BilledTo(u) + UserDelta(u)
<1>1. IsFiniteSet(CountersOf(u))
  BY CountersFinite DEF CountersOf
<1>2. billed' = [n \in Counters |->
         IF n.user = who THEN billed[n] + delta[n] ELSE billed[n]]
  BY DEF AddTrafficUsed
<1>3. \A n \in CountersOf(u) :
        /\ billed[n] \in Nat /\ delta[n] \in Nat
        /\ billed'[n] = billed[n] + delta[n]
  BY <1>2 DEF CounterTypes, CountersOf
<1>4. SumFunctionOnSet(billed', CountersOf(u)) =
        SumFunctionOnSet(billed, CountersOf(u))
          + SumFunctionOnSet(delta, CountersOf(u))
  BY <1>1, <1>3, SumPlus
<1> QED
  BY <1>4 DEF BilledTo, UserDelta, CountersOf

LEMMA ExplainedStays ==
  ASSUME CounterTypes, CounterTypes', [Next]_vars, NEW u \in Users, NEW v \in Nat,
         Explained(v, u)
  PROVE  \E base \in Bases(u) : v <= base + BilledTo(u)'
<1>1. PICK base \in Bases(u) : v <= base + BilledTo(u)
  BY DEF Explained
<1>2. base \in Nat /\ BilledTo(u) \in Nat /\ BilledTo(u)' \in Nat
  BY BasesType, BilledToType, BilledToTypeNext
<1>3. v <= base + BilledTo(u)'
  BY <1>1, <1>2, BilledToGrows
<1> QED
  BY <1>3

LEMMA PatchType ==
  ASSUME TypeOK, NEW s \in Slots, patch[s] # Keep
  PROVE  /\ patch[s] \in Patches /\ patch[s].user \in Users
         /\ patch[s].used \in {Keep} \cup Nat
         /\ patch[s].used # Keep => patch[s].used \in Bases(patch[s].user)
<1>1. patch[s] \in Patches
  BY DEF TypeOK
<1>2. patch[s] \in [user : Users, used : {Keep} \cup Nat]
  BY <1>1
<1> QED
  BY <1>1, <1>2 DEF Bases

(* A value that a request wrote or read stays explained.                    *)
LEMMA TotalsNext ==
  TypeOK /\ TypeOK' /\ TickOK /\ TotalsExplained /\ [Next]_vars => TotalsExplained'
<1> SUFFICES ASSUME TypeOK, TypeOK', TickOK, TotalsExplained, [Next]_vars
             PROVE  TotalsExplained'
  OBVIOUS
<1> DEFINE ExplainedNext(v, u) == \E base \in Bases(u) : v <= base + BilledTo(u)'
<1>1. CounterTypes /\ CounterTypes'
  BY CounterPart, TypesNext
<1>2. \A u \in Users : \A v \in Nat : Explained(v, u) => ExplainedNext(v, u)
  BY <1>1, ExplainedStays
<1>3. \A u \in Users : \A base \in Bases(u) : ExplainedNext(base, u)
  BY <1>1, BasesType, BilledToTypeNext
<1> HIDE DEF ExplainedNext
<1>4. \A u \in Users :
        /\ used[u] \in Nat /\ ExplainedNext(used[u], u)
        /\ \A s \in Slots :
             patch[s] # Keep /\ patch[s].user = u => ExplainedNext(loadedUsed[s], u)
  BY <1>2 DEF TypeOK, TotalsExplained
<1>5. SUFFICES
        \A u \in Users :
          /\ ExplainedNext(used'[u], u)
          /\ \A s \in Slots :
               patch'[s] # Keep /\ patch'[s].user = u
                 => ExplainedNext(loadedUsed'[s], u)
  BY DEF TotalsExplained, Explained, ExplainedNext, Bases
<1>6. CASE UNCHANGED <<used, patch, loadedUsed>>
  BY <1>4, <1>6
<1>7. ASSUME NEW n \in Counters, Carry(n) PROVE UNCHANGED <<used, patch, loadedUsed>>
  BY <1>7 DEF Carry, userTable, requests
<1>8. ASSUME NEW u \in Users, NextUser(u) \/ DeleteUser(u)
      PROVE  UNCHANGED <<used, patch, loadedUsed>>
  BY <1>8 DEF NextUser, DeleteUser, userTable, requests
<1>9. ASSUME NEW l \in Labels, RecordUsage(l)
      PROVE  UNCHANGED <<used, patch, loadedUsed>>
  BY <1>9 DEF RecordUsage, userTable, requests
<1>10. CASE XrayRestart \/ QueryStats \/ ListUsers \/ ListUsersFails \/ TickDone
              \/ InsertSnapshot \/ AddTrafficFails \/ UNCHANGED vars
  <2>1. UNCHANGED <<used, patch, loadedUsed>>
    BY <1>10 DEF XrayRestart, QueryStats, ListUsers, ListUsersFails, TickDone,
         InsertSnapshot, AddTrafficFails, vars, userTable, requests
  <2> QED
    BY <1>6, <2>1
<1>11. CASE AddTrafficUsed
  <2>1. UNCHANGED <<patch, loadedUsed>>
    BY <1>11 DEF AddTrafficUsed, requests
  <2>2. who \in Users
    BY <1>11 DEF AddTrafficUsed, TickOK, ForUser
  <2>3. ASSUME NEW u \in Users PROVE ExplainedNext(used'[u], u)
    <3>1. CASE u = who /\ who \in known
      <4>1. PICK base \in Bases(u) : used[u] <= base + BilledTo(u)
        BY DEF TotalsExplained, Explained
      <4>2. used'[u] = used[u] + UserDelta(u)
        BY <1>11, <3>1 DEF AddTrafficUsed, TypeOK
      <4>3. BilledTo(u)' = BilledTo(u) + UserDelta(u)
        BY <1>1, <1>11, <3>1, BilledToAdds
      <4>4. /\ base \in Nat /\ BilledTo(u) \in Nat /\ UserDelta(u) \in Nat
            /\ used[u] \in Nat
        BY <1>1, <1>4, BasesType, BilledToType, DeltaSums
      <4>5. used'[u] <= base + BilledTo(u)'
        BY <4>1, <4>2, <4>3, <4>4
      <4> QED
        BY <4>5 DEF ExplainedNext
    <3>2. CASE ~(u = who /\ who \in known)
      <4>1. used'[u] = used[u]
        BY <1>11, <3>2 DEF AddTrafficUsed, TypeOK
      <4> QED
        BY <1>4, <4>1
    <3> QED
      BY <3>1, <3>2
  <2> QED
    BY <1>4, <2>1, <2>3
<1>12. CASE AgentCrash
  BY <1>4, <1>12 DEF AgentCrash, userTable
<1>13. ASSUME NEW s \in Slots, NEW r \in Patches, GetUser(s, r)
       PROVE  \A u \in Users :
                /\ ExplainedNext(used'[u], u)
                /\ \A t \in Slots :
                     patch'[t] # Keep /\ patch'[t].user = u
                       => ExplainedNext(loadedUsed'[t], u)
  <2>1. /\ patch' = [patch EXCEPT ![s] = r] /\ used' = used
        /\ loadedUsed' = [loadedUsed EXCEPT ![s] = used[r.user]]
        /\ r.user \in Users
    BY <1>13 DEF GetUser, userTable, TypeOK
  <2> QED
    BY <1>4, <2>1 DEF TypeOK
<1>14. ASSUME NEW s \in Slots, UpdateUser(s)
       PROVE  \A u \in Users :
                /\ ExplainedNext(used'[u], u)
                /\ \A t \in Slots :
                     patch'[t] # Keep /\ patch'[t].user = u
                       => ExplainedNext(loadedUsed'[t], u)
  <2>1. /\ patch[s] # Keep
        /\ patch' = [patch EXCEPT ![s] = Keep]
        /\ loadedUsed' = [loadedUsed EXCEPT ![s] = 0]
    BY <1>14 DEF UpdateUser
  <2>2. \/ used' = used
        \/ used' = [used EXCEPT ![patch[s].user] =
                      IF patch[s].used = Keep THEN loadedUsed[s] ELSE patch[s].used]
    BY <1>14 DEF UpdateUser
  <2>3. ASSUME NEW u \in Users, u = patch[s].user, patch[s].used # Keep
        PROVE  ExplainedNext(patch[s].used, u)
    BY <1>3, <2>1, <2>3, PatchType
  <2> QED
    BY <1>4, <2>1, <2>2, <2>3 DEF TypeOK
<1> QED
  BY <1>5, <1>6, <1>7, <1>8, <1>9, <1>10, <1>11, <1>12, <1>13, <1>14 DEF Next, Tick

(* A user's total exceeds what it was set to by no more than the bytes      *)
(* carried, although PATCH writes back totals it read earlier, rows vanish  *)
(* between statements and ticks start over (AddUserTrafficUsed, UpdateUser).*)
THEOREM TotalsBounded == Spec => []NeverOverbilled
<1>1. Init => TotalsExplained
  <2> SUFFICES ASSUME Init PROVE TotalsExplained
    OBVIOUS
  <2>1. CounterTypes
    BY InitTypes
  <2>2. ASSUME NEW u \in Users PROVE Explained(used[u], u)
    <3>1. /\ used[u] = InitialUsed[u] /\ InitialUsed[u] \in Nat
          /\ InitialUsed[u] \in Bases(u)
      BY BasesType DEF Init
    <3>2. BilledTo(u) \in Nat
      BY <2>1, BilledToType
    <3>3. used[u] <= InitialUsed[u] + BilledTo(u)
      BY <3>1, <3>2
    <3> QED
      BY <3>1, <3>3 DEF Explained
  <2> QED
    BY <2>2 DEF TotalsExplained, Init
<1>2. TypeOK /\ TotalsExplained /\ BilledAtMostCarried => NeverOverbilled
  <2> SUFFICES ASSUME TypeOK, TotalsExplained, BilledAtMostCarried, NEW u \in Users
               PROVE  \E base \in Bases(u) : used[u] <= base + CarriedBy(u)
    BY DEF NeverOverbilled
  <2>1. PICK base \in Bases(u) : used[u] <= base + BilledTo(u)
    BY DEF TotalsExplained, Explained
  <2>2. IsFiniteSet(CountersOf(u))
    BY CountersFinite DEF CountersOf
  <2>3. \A n \in CountersOf(u) :
          billed[n] \in Nat /\ carried[n] \in Nat /\ billed[n] <= carried[n]
    BY DEF TypeOK, BilledAtMostCarried, CountersOf
  <2>4. BilledTo(u) <= CarriedBy(u)
    BY <2>2, <2>3, SumMonotone DEF BilledTo, CarriedBy
  <2>5. BilledTo(u) \in Nat /\ CarriedBy(u) \in Nat
    BY <2>2, <2>3, SumType DEF BilledTo, CarriedBy
  <2>6. base \in Nat /\ used[u] \in Nat
    BY BasesType DEF TypeOK
  <2> QED
    BY <2>1, <2>4, <2>5, <2>6
<1> QED
  BY <1>1, <1>2, TickCorrect, NoByteTwice, TotalsNext, PTL DEF Spec

-----------------------------------------------------------------------------
(* What the tick has charted for the user in hand and not yet added to the   *)
(* total, and the totals that the charts cover.                             *)
Drawn(u) ==
  SumFunctionOnSet(delta, {n \in CountersOf(u) : Label(n) \notin labels})

InHand(u) == IF ForUser /\ u = who THEN Drawn(u) ELSE 0

Covered(v, u) == \E base \in Bases(u) : v + InHand(u) <= base + ChartedFor(u)

TotalsCovered ==
  \A u \in Users :
    /\ InHand(u) <= ChartedFor(u)
    /\ Covered(used[u], u)
    /\ \A s \in Slots :
         patch[s] # Keep /\ patch[s].user = u => Covered(loadedUsed[s], u)

LEMMA RowsFinite == \A S \in SUBSET Rows : IsFiniteSet(S)
<1> DEFINE f == [n \in Counters |-> <<n.user, Label(n)>>]
<1>1. f \in Surjection(Counters, Rows)
  BY DEF Surjection, Rows
<1> HIDE DEF f
<1>2. IsFiniteSet(Rows)
  BY <1>1, FS_Surjection
<1> QED
  BY <1>2, FS_Subset

LEMMA ChartedForType ==
  ASSUME TypeOK, NEW u
  PROVE  ChartedFor(u) \in Nat
<1>1. IsFiniteSet({x \in Rows : x[1] = u})
  BY RowsFinite
<1>2. \A x \in {y \in Rows : y[1] = u} : charted[x] \in Nat
  BY DEF TypeOK
<1> QED
  BY <1>1, <1>2, SumType DEF ChartedFor

LEMMA InHandType ==
  ASSUME TypeOK, NEW u
  PROVE  InHand(u) \in Nat /\ Drawn(u) \in Nat
<1> DEFINE S == {n \in CountersOf(u) : Label(n) \notin labels}
<1>1. IsFiniteSet(S)
  BY CountersFinite DEF CountersOf
<1>2. \A n \in S : delta[n] \in Nat
  BY DEF TypeOK, CountersOf
<1>3. Drawn(u) \in Nat
  BY <1>1, <1>2, SumType DEF Drawn
<1> QED
  BY <1>3 DEF InHand

(* A chart row adds to the charts of its user what it adds to what the tick  *)
(* has drawn for that user.                                                *)
LEMMA SnapshotAdds ==
  ASSUME TypeOK, TickOK, InsertSnapshot, faults' = faults, NEW u \in Users
  PROVE  /\ u # who => ChartedFor(u)' = ChartedFor(u)
         /\ u = who => /\ ChartedFor(u)' = ChartedFor(u) + LabelDelta(u, label)
                       /\ Drawn(u)' = Drawn(u) + LabelDelta(u, label)
<1> DEFINE mine == {x \in Rows : x[1] = u}
<1>1. /\ tick = "snapshot" /\ delta' = delta /\ labels' = labels \ {label}
      /\ charted' = [charted EXCEPT ![<<who, label>>] = @ + LabelDelta(who, label)]
  BY DEF InsertSnapshot, Fault, TypeOK
<1>2. /\ LabelDelta(who, label) \in Nat
      /\ \A x \in Rows : charted[x] \in Nat
  BY CounterPart, DeltaSums DEF TypeOK
<1>3. IsFiniteSet(mine)
  BY RowsFinite
<1>4. CASE u # who
  <2>1. \A x \in mine : charted[x] \in Nat /\ charted'[x] = charted[x]
    BY <1>1, <1>2, <1>4 DEF TypeOK
  <2>2. SumFunctionOnSet(charted, mine) = SumFunctionOnSet(charted', mine)
    BY <1>3, <2>1, SumEqual
  <2> QED
    BY <1>4, <2>2 DEF ChartedFor, Rows, CounterNames
<1>5. CASE u = who
  <2>1. /\ label \in labels
        /\ \E n \in CountersOf(u) : Label(n) = label
    BY <1>1, <1>5 DEF TickOK, ForUser
  <2>2. <<u, label>> \in mine
    BY <2>1 DEF CountersOf, Rows
  <2>3. \A x \in mine : charted'[x] =
          IF x = <<u, label>> THEN charted[x] + LabelDelta(u, label) ELSE charted[x]
    BY <1>1, <1>5 DEF TypeOK
  <2>4. LabelDelta(u, label) \in Nat /\ \A x \in mine : charted[x] \in Nat
    BY <1>2, <1>5
  <2>5. SumFunctionOnSet(charted', mine) =
          SumFunctionOnSet(charted, mine) + LabelDelta(u, label)
    <3> DEFINE row == <<u, label>>
               more == LabelDelta(u, label)
    <3>1. /\ row \in mine /\ more \in Nat
          /\ \A x \in mine : charted[x] \in Nat
          /\ \A x \in mine :
               charted'[x] = IF x = row THEN charted[x] + more ELSE charted[x]
      BY <2>2, <2>3, <2>4
    <3> HIDE DEF mine, row, more
    <3>2. SumFunctionOnSet(charted', mine) = SumFunctionOnSet(charted, mine) + more
      BY <1>3, <3>1, SumRaise
    <3> QED
      BY <3>2 DEF more
  <2>6. ChartedFor(u)' = ChartedFor(u) + LabelDelta(u, label)
    BY <2>5 DEF ChartedFor, Rows, CounterNames
  <2> DEFINE old == {n \in CountersOf(u) : Label(n) \notin labels}
             new == {n \in CountersOf(u) : Label(n) = label}
  <2>7. {n \in CountersOf(u) : Label(n) \notin labels'} = old \cup new
    BY <1>1, <2>1
  <2>8. /\ IsFiniteSet(old) /\ IsFiniteSet(new) /\ old \cap new = {}
        /\ \A n \in old \cup new : delta[n] \in Nat
    BY <2>1, CountersFinite DEF CountersOf, TypeOK
  <2>9. SumFunctionOnSet(delta, old \cup new) =
          SumFunctionOnSet(delta, old) + SumFunctionOnSet(delta, new)
    BY <2>8, SumDisjoint
  <2>10. Drawn(u)' = SumFunctionOnSet(delta',
                       {n \in CountersOf(u) : Label(n) \notin labels'})
    BY DEF Drawn, CountersOf
  <2>11. Drawn(u)' = Drawn(u) + LabelDelta(u, label)
    BY <1>1, <2>7, <2>9, <2>10 DEF Drawn, LabelDelta
  <2> QED
    BY <1>5, <2>6, <2>11
<1> QED
  BY <1>4, <1>5

(* In the other steps the charts stay, and what is in hand shrinks or stays, *)
(* but for what AddUserTrafficUsed moves to the total.                      *)
LEMMA InHandShrinks ==
  ASSUME TypeOK, TickOK, [Next]_vars, ~ InsertSnapshot, NEW u \in Users
  PROVE  /\ ChartedFor(u)' = ChartedFor(u)
         /\ InHand(u)' \in {0, InHand(u)}
<1>1. charted' = charted
  BY DEF Next, Tick, Carry, XrayRestart, QueryStats, ListUsers, ListUsersFails,
         NextUser, TickDone, RecordUsage, AddTrafficUsed, AddTrafficFails,
         AgentCrash, GetUser, UpdateUser, DeleteUser, vars, charts
<1>2. ChartedFor(u)' = ChartedFor(u)
  BY <1>1 DEF ChartedFor
<1>3. ASSUME ~ ForUser' PROVE InHand(u)' = 0
  BY <1>3 DEF InHand
<1>4. ASSUME UNCHANGED <<delta, labels, who>>, ForUser' = ForUser
      PROVE  InHand(u)' = InHand(u)
  BY <1>4 DEF InHand, Drawn
<1>5. ASSUME NEW v \in Users, NextUser(v) PROVE InHand(u)' = 0
  <2> DEFINE S == {n \in CountersOf(u) : Label(n) \notin labels'}
  <2>1. /\ who' = v /\ delta' = delta
        /\ labels' = {Label(n) : n \in {m \in CountersOf(v) : delta[m] > 0}}
    BY <1>5 DEF NextUser
  <2>2. ASSUME u = v PROVE Drawn(u)' = 0
    <3>1. \A n \in S : delta'[n] = 0
      BY <2>1, <2>2 DEF TypeOK, CountersOf
    <3>2. IsFiniteSet(S)
      BY CountersFinite DEF CountersOf
    <3>3. SumFunctionOnSet(delta', S) = 0
      BY <3>1, <3>2, SumZero
    <3> QED
      BY <3>3 DEF Drawn, CountersOf
  <2> QED
    BY <2>1, <2>2 DEF InHand
<1>6. CASE QueryStats \/ ListUsers \/ ListUsersFails \/ TickDone \/ AddTrafficUsed
             \/ AddTrafficFails \/ AgentCrash
  BY <1>2, <1>3, <1>6
  DEF QueryStats, ListUsers, ListUsersFails, TickDone, AddTrafficUsed,
      AddTrafficFails, AgentCrash, ForUser
<1>7. ASSUME NEW n \in Counters, Carry(n) PROVE InHand(u)' = InHand(u)
  BY <1>4, <1>7 DEF Carry, tickLocals, ForUser
<1>8. ASSUME NEW l \in Labels, RecordUsage(l) PROVE InHand(u)' = InHand(u)
  BY <1>4, <1>8 DEF RecordUsage, ForUser
<1>9. ASSUME NEW s \in Slots, (\E r \in Patches : GetUser(s, r)) \/ UpdateUser(s)
      PROVE  InHand(u)' = InHand(u)
  BY <1>4, <1>9 DEF GetUser, UpdateUser, tickLocals, ForUser
<1>10. ASSUME NEW v \in Users, DeleteUser(v) PROVE InHand(u)' = InHand(u)
  BY <1>4, <1>10 DEF DeleteUser, tickLocals, ForUser
<1>11. CASE XrayRestart \/ UNCHANGED vars
  BY <1>2, <1>4, <1>11 DEF XrayRestart, vars, tickLocals, ForUser
<1>12. InHand(u)' \in {0, InHand(u)}
  BY <1>5, <1>6, <1>7, <1>8, <1>9, <1>10, <1>11 DEF Next, Tick
<1> QED
  BY <1>2, <1>12

LEMMA FaultsGrow == TypeOK /\ [Next]_vars => faults' \in {faults, faults + 1}
BY DEF Next, Tick, Carry, XrayRestart, QueryStats, ListUsers, ListUsersFails,
   NextUser, TickDone, RecordUsage, InsertSnapshot, AddTrafficUsed, AddTrafficFails,
   AgentCrash, GetUser, UpdateUser, DeleteUser, vars, bounds, Fault, TypeOK

(* A value that the charts cover stays covered, also by what is drawn next.  *)
LEMMA CoveredStays ==
  ASSUME TypeOK, TypeOK', TickOK, [Next]_vars, faults' = faults,
         NEW u \in Users
  PROVE  /\ InHand(u) <= ChartedFor(u) => InHand(u)' <= ChartedFor(u)'
         /\ \A v \in Nat :
              Covered(v, u) =>
                \E base \in Bases(u) : v + InHand(u)' <= base + ChartedFor(u)'
<1>1. \E k \in Nat : /\ ChartedFor(u)' = ChartedFor(u) + k
                     /\ InHand(u)' <= InHand(u) + k
                     /\ InHand(u)' \in Nat
  <2>1. InHand(u) \in Nat /\ Drawn(u) \in Nat /\ ChartedFor(u) \in Nat
    BY InHandType, ChartedForType
  <2>2. CASE InsertSnapshot
    <3>1. u # who => ChartedFor(u)' = ChartedFor(u) /\ InHand(u)' = 0
      BY <2>2, SnapshotAdds DEF InsertSnapshot, InHand
    <3>2. u = who => /\ ChartedFor(u)' = ChartedFor(u) + LabelDelta(u, label)
                     /\ InHand(u)' = InHand(u) + LabelDelta(u, label)
      BY <2>2, SnapshotAdds DEF InsertSnapshot, InHand, ForUser
    <3>3. LabelDelta(u, label) \in Nat
      BY CounterPart, DeltaSums
    <3> QED
      BY <2>1, <3>1, <3>2, <3>3
  <2>3. CASE ~ InsertSnapshot
    <3>1. ChartedFor(u)' = ChartedFor(u) /\ InHand(u)' \in {0, InHand(u)}
      BY <2>3, InHandShrinks
    <3> QED
      BY <2>1, <3>1
  <2> QED
    BY <2>2, <2>3
<1>2. PICK k \in Nat : /\ ChartedFor(u)' = ChartedFor(u) + k
                       /\ InHand(u)' <= InHand(u) + k
                       /\ InHand(u)' \in Nat
  BY <1>1
<1>3. InHand(u) \in Nat /\ ChartedFor(u) \in Nat
  BY InHandType, ChartedForType
<1>4. ASSUME NEW v \in Nat, Covered(v, u)
      PROVE  \E base \in Bases(u) : v + InHand(u)' <= base + ChartedFor(u)'
  <2>1. PICK base \in Bases(u) : v + InHand(u) <= base + ChartedFor(u)
    BY <1>4 DEF Covered
  <2>2. base \in Nat
    BY BasesType
  <2>3. v + InHand(u)' <= base + ChartedFor(u)'
    BY <1>2, <1>3, <2>1, <2>2
  <2> QED
    BY <2>3
<1> QED
  BY <1>2, <1>3, <1>4

LEMMA CoveredNext ==
  TypeOK /\ TypeOK' /\ TickOK /\ TotalsCovered /\ [Next]_vars /\ faults' = faults
    => TotalsCovered'
<1> SUFFICES ASSUME TypeOK, TypeOK', TickOK, TotalsCovered, [Next]_vars,
                    faults' = faults, NEW u \in Users
             PROVE  /\ InHand(u)' <= ChartedFor(u)'
                    /\ Covered(used[u], u)'
                    /\ \A s \in Slots :
                         patch'[s] # Keep /\ patch'[s].user = u
                           => Covered(loadedUsed[s], u)'
  BY DEF TotalsCovered
<1> DEFINE CoveredNow(v) ==
      \E base \in Bases(u) : v + InHand(u)' <= base + ChartedFor(u)'
<1>1. InHand(u)' <= ChartedFor(u)'
  BY CoveredStays DEF TotalsCovered
<1>2. \A v \in Nat : Covered(v, u) => CoveredNow(v)
  BY CoveredStays
<1>3. \A base \in Bases(u) : CoveredNow(base)
  <2>1. Bases(u) \subseteq Nat
    BY BasesType
  <2>2. InHand(u)' \in Nat /\ ChartedFor(u)' \in Nat
    <3>1. InHand(u) \in Nat /\ ChartedFor(u) \in Nat /\ Drawn(u) \in Nat
      BY InHandType, ChartedForType
    <3>2. LabelDelta(u, label) \in Nat
      BY CounterPart, DeltaSums
    <3>3. CASE InsertSnapshot
      BY <3>1, <3>2, <3>3, SnapshotAdds DEF InsertSnapshot, InHand, ForUser
    <3>4. CASE ~ InsertSnapshot
      BY <3>1, <3>4, InHandShrinks
    <3> QED
      BY <3>3, <3>4
  <2> QED
    BY <1>1, <2>1, <2>2
<1> HIDE DEF CoveredNow
<1>4. /\ used[u] \in Nat /\ CoveredNow(used[u])
      /\ \A s \in Slots :
           patch[s] # Keep /\ patch[s].user = u => CoveredNow(loadedUsed[s])
  BY <1>2 DEF TypeOK, TotalsCovered
<1>5. SUFFICES
        /\ CoveredNow(used'[u])
        /\ \A s \in Slots : patch'[s] # Keep /\ patch'[s].user = u
             => CoveredNow(loadedUsed'[s])
  BY <1>1 DEF Covered, CoveredNow, Bases
<1>6. CASE UNCHANGED <<used, patch, loadedUsed>>
  BY <1>4, <1>6
<1>7. ASSUME NEW n \in Counters, Carry(n) PROVE UNCHANGED <<used, patch, loadedUsed>>
  BY <1>7 DEF Carry, userTable, requests
<1>8. ASSUME NEW v \in Users, NextUser(v) \/ DeleteUser(v)
      PROVE  UNCHANGED <<used, patch, loadedUsed>>
  BY <1>8 DEF NextUser, DeleteUser, userTable, requests
<1>9. ASSUME NEW l \in Labels, RecordUsage(l)
      PROVE  UNCHANGED <<used, patch, loadedUsed>>
  BY <1>9 DEF RecordUsage, userTable, requests
<1>10. CASE XrayRestart \/ QueryStats \/ ListUsers \/ ListUsersFails \/ TickDone
              \/ InsertSnapshot \/ AddTrafficFails \/ UNCHANGED vars
  <2>1. UNCHANGED <<used, patch, loadedUsed>>
    BY <1>10 DEF XrayRestart, QueryStats, ListUsers, ListUsersFails, TickDone,
         InsertSnapshot, AddTrafficFails, vars, userTable, requests
  <2> QED
    BY <1>6, <2>1
<1>11. CASE AddTrafficUsed
  <2>1. UNCHANGED <<patch, loadedUsed>>
    BY <1>11 DEF AddTrafficUsed, requests
  <2>2. CASE u = who /\ who \in known
    <3>1. used'[u] = used[u] + UserDelta(u)
      BY <1>11, <2>2 DEF AddTrafficUsed, TypeOK
    <3>2. {n \in CountersOf(u) : Label(n) \notin labels} = CountersOf(u)
      BY <1>11 DEF AddTrafficUsed
    <3>3. InHand(u) = UserDelta(u)
      BY <1>11, <2>2, <3>2 DEF AddTrafficUsed, InHand, ForUser, Drawn, UserDelta
    <3>4. InHand(u)' = 0 /\ ChartedFor(u)' = ChartedFor(u)
      BY <1>11 DEF AddTrafficUsed, InHand, ForUser, ChartedFor, charts
    <3>5. PICK base \in Bases(u) : used[u] + InHand(u) <= base + ChartedFor(u)
      BY DEF TotalsCovered, Covered
    <3>6. UserDelta(u) \in Nat
      BY CounterPart, DeltaSums
    <3>7. used'[u] + InHand(u)' <= base + ChartedFor(u)'
      BY <1>4, <3>1, <3>3, <3>4, <3>5, <3>6
    <3>8. CoveredNow(used'[u])
      BY <3>7 DEF CoveredNow
    <3> QED
      BY <1>4, <2>1, <3>8
  <2>3. CASE ~(u = who /\ who \in known)
    <3>1. used'[u] = used[u]
      BY <1>11, <2>3 DEF AddTrafficUsed, TypeOK
    <3> QED
      BY <1>4, <2>1, <3>1
  <2> QED
    BY <2>2, <2>3
<1>12. CASE AgentCrash
  BY <1>4, <1>12 DEF AgentCrash, userTable
<1>13. ASSUME NEW s \in Slots, NEW r \in Patches, GetUser(s, r)
       PROVE  /\ CoveredNow(used'[u])
              /\ \A t \in Slots : patch'[t] # Keep /\ patch'[t].user = u
                   => CoveredNow(loadedUsed'[t])
  <2>1. /\ patch' = [patch EXCEPT ![s] = r] /\ used' = used
        /\ loadedUsed' = [loadedUsed EXCEPT ![s] = used[r.user]]
    BY <1>13 DEF GetUser, userTable
  <2> QED
    BY <1>4, <2>1 DEF TypeOK
<1>14. ASSUME NEW s \in Slots, UpdateUser(s)
       PROVE  /\ CoveredNow(used'[u])
              /\ \A t \in Slots : patch'[t] # Keep /\ patch'[t].user = u
                   => CoveredNow(loadedUsed'[t])
  <2>1. /\ patch[s] # Keep
        /\ patch' = [patch EXCEPT ![s] = Keep]
        /\ loadedUsed' = [loadedUsed EXCEPT ![s] = 0]
    BY <1>14 DEF UpdateUser
  <2>2. \/ used' = used
        \/ used' = [used EXCEPT ![patch[s].user] =
                      IF patch[s].used = Keep THEN loadedUsed[s] ELSE patch[s].used]
    BY <1>14 DEF UpdateUser
  <2>3. ASSUME u = patch[s].user, patch[s].used # Keep
        PROVE  CoveredNow(patch[s].used)
    BY <1>3, <2>1, <2>3, PatchType
  <2> QED
    BY <1>4, <2>1, <2>2, <2>3 DEF TypeOK
<1> QED
  BY <1>5, <1>6, <1>7, <1>8, <1>9, <1>10, <1>11, <1>12, <1>13, <1>14 DEF Next, Tick

(* As long as no statement fails, the charts account for every byte in a     *)
(* user's total, also when the agent dies between the chart rows and the     *)
(* total and when a PATCH writes an old total back (tick's order of writes). *)
THEOREM ChartsComplete == Spec => []ChartsCoverBill
<1>1. Init => TypeOK /\ TotalsCovered
  <2> SUFFICES ASSUME Init PROVE TypeOK /\ TotalsCovered
    OBVIOUS
  <2>1. TypeOK
    BY DEF Init, TypeOK, NoDelta, NoStats, TickStages
  <2>2. ASSUME NEW u \in Users
        PROVE  InHand(u) <= ChartedFor(u) /\ Covered(used[u], u)
    <3>1. InHand(u) = 0
      BY DEF Init, InHand, ForUser
    <3>2. ChartedFor(u) \in Nat
      BY <2>1, ChartedForType
    <3>3. /\ used[u] = InitialUsed[u] /\ InitialUsed[u] \in Nat
          /\ InitialUsed[u] \in Bases(u)
      BY BasesType DEF Init
    <3>4. used[u] + InHand(u) <= InitialUsed[u] + ChartedFor(u)
      BY <3>1, <3>2, <3>3
    <3> QED
      BY <3>1, <3>2, <3>3, <3>4 DEF Covered
  <2> QED
    BY <2>1, <2>2 DEF TotalsCovered, Init
<1> DEFINE Inv == faults = 0 => TotalsCovered
<1>2. TypeOK /\ TypeOK' /\ TickOK /\ Inv /\ [Next]_vars => Inv'
  <2> SUFFICES ASSUME TypeOK, TypeOK', TickOK, Inv, [Next]_vars, faults' = 0
               PROVE  TotalsCovered'
    OBVIOUS
  <2>1. faults = 0
    BY FaultsGrow DEF TypeOK
  <2> QED
    BY <2>1, CoveredNext
<1>3. TypeOK /\ Inv => ChartsCoverBill
  <2> SUFFICES ASSUME TypeOK, TotalsCovered, NEW u \in Users
               PROVE  \E base \in Bases(u) : used[u] <= base + ChartedFor(u)
    BY DEF ChartsCoverBill
  <2>1. PICK base \in Bases(u) : used[u] + InHand(u) <= base + ChartedFor(u)
    BY DEF TotalsCovered, Covered
  <2>2. /\ InHand(u) \in Nat /\ ChartedFor(u) \in Nat
        /\ base \in Nat /\ used[u] \in Nat
    BY InHandType, ChartedForType, BasesType DEF TypeOK
  <2> QED
    BY <2>1, <2>2
<1>4. Init => Inv
  BY <1>1
<1> HIDE DEF Inv
<1> QED
  BY <1>2, <1>3, <1>4, TickCorrect, PTL DEF Spec

-----------------------------------------------------------------------------
(* The chart of a user and preset is never ahead of the recorded usage.     *)
ChartsLag ==
  /\ \A x \in Rows : lastCharted[x] <= lastBytes[x] /\ lastBytes[x] <= now
  /\ tick = "snapshot" => lastBytes[<<who, label>>] = now

LEMMA ChartsLagNext ==
  TypeOK /\ TypeOK' /\ TickOK /\ ChartsLag /\ [Next]_vars /\ faults' = faults
    => ChartsLag'
<1> SUFFICES ASSUME TypeOK, TypeOK', TickOK, ChartsLag, [Next]_vars, faults' = faults
             PROVE  ChartsLag'
  OBVIOUS
<1>1. /\ \A x \in Rows : /\ lastCharted[x] \in Nat /\ lastBytes[x] \in Nat
                         /\ lastCharted[x] <= lastBytes[x] /\ lastBytes[x] <= now
      /\ now \in Nat /\ faults \in Nat
  BY DEF TypeOK, ChartsLag
<1>2. ASSUME UNCHANGED <<lastCharted, lastBytes>>, now <= now', tick' # "snapshot"
      PROVE  ChartsLag'
  BY <1>1, <1>2 DEF ChartsLag, TypeOK
<1>3. ASSUME UNCHANGED <<lastCharted, lastBytes, now, tick, who, label>>
      PROVE  ChartsLag'
  BY <1>3 DEF ChartsLag
<1>4. ASSUME NEW n \in Counters, Carry(n) PROVE ChartsLag'
  BY <1>3, <1>4 DEF Carry, tickLocals, charts
<1>5. CASE XrayRestart \/ UNCHANGED vars
  BY <1>3, <1>5 DEF XrayRestart, tickLocals, charts, history, vars
<1>6. CASE QueryStats \/ ListUsers \/ ListUsersFails \/ TickDone \/ AddTrafficUsed
             \/ AddTrafficFails \/ AgentCrash
  <2>1. UNCHANGED <<lastCharted, lastBytes>> /\ tick' # "snapshot"
    BY <1>6 DEF QueryStats, ListUsers, ListUsersFails, TickDone, AddTrafficUsed,
         AddTrafficFails, AgentCrash, charts, history
  <2>2. now <= now'
    BY <1>1, <1>6 DEF QueryStats, ListUsers, ListUsersFails, TickDone,
         AddTrafficUsed, AddTrafficFails, AgentCrash
  <2> QED
    BY <1>2, <2>1, <2>2
<1>7. ASSUME NEW u \in Users, NextUser(u) PROVE ChartsLag'
  BY <1>1, <1>2, <1>7 DEF NextUser, charts, history
<1>8. ASSUME NEW l \in Labels, RecordUsage(l) PROVE ChartsLag'
  <2>1. /\ lastBytes' = [lastBytes EXCEPT ![<<who, l>>] = now]
        /\ label' = l /\ who' = who /\ now' = now /\ lastCharted' = lastCharted
        /\ l \in labels /\ ForUser
    BY <1>1, <1>8 DEF RecordUsage, Fault, history, ForUser
  <2>2. \E n \in CountersOf(who) : Label(n) = l
    BY <2>1 DEF TickOK
  <2>3. <<who, l>> \in Rows
    BY <2>2 DEF CountersOf, Rows
  <2>4. \A x \in Rows : lastBytes'[x] = IF x = <<who, l>> THEN now ELSE lastBytes[x]
    BY <2>1 DEF TypeOK
  <2>5. \A x \in Rows : lastCharted'[x] <= lastBytes'[x] /\ lastBytes'[x] <= now'
    BY <1>1, <2>1, <2>4
  <2>6. lastBytes'[<<who', label'>>] = now'
    BY <2>1, <2>3, <2>4
  <2> QED
    BY <2>5, <2>6 DEF ChartsLag
<1>9. CASE InsertSnapshot
  <2>1. /\ lastCharted' = [lastCharted EXCEPT ![<<who, label>>] = now]
        /\ tick = "snapshot" /\ tick' = "protocols"
        /\ lastBytes' = lastBytes /\ now' = now
    BY <1>1, <1>9 DEF InsertSnapshot, Fault
  <2>2. \A x \in Rows :
          lastCharted'[x] = IF x = <<who, label>> THEN now ELSE lastCharted[x]
    BY <2>1 DEF TypeOK
  <2>3. lastBytes[<<who, label>>] = now
    BY <2>1 DEF ChartsLag
  <2>4. \A x \in Rows : lastCharted'[x] <= lastBytes'[x] /\ lastBytes'[x] <= now'
    BY <1>1, <2>1, <2>2, <2>3
  <2> QED
    BY <2>1, <2>4 DEF ChartsLag
<1>10. ASSUME NEW s \in Slots, (\E r \in Patches : GetUser(s, r)) \/ UpdateUser(s)
       PROVE  ChartsLag'
  BY <1>3, <1>10 DEF GetUser, UpdateUser, tickLocals, charts, history
<1>11. ASSUME NEW u \in Users, DeleteUser(u) PROVE ChartsLag'
  BY <1>3, <1>11 DEF DeleteUser, tickLocals, charts, history
<1> QED
  BY <1>4, <1>5, <1>6, <1>7, <1>8, <1>9, <1>10, <1>11 DEF Next, Tick

(* Whoever is idle by the recorded usage is idle by the charts, so that a    *)
(* share that is large enough for a hint is large enough by the charts.      *)
LEMMA HintFromUsage ==
  ASSUME TypeOK, ChartsLag, NEW l, NEW t \in Nat, StaleHint(l, t, lastBytes)
  PROVE  StaleHint(l, t, lastCharted)
<1> DEFINE A == IdleUsers(l, t, lastBytes)
           B == IdleUsers(l, t, lastCharted)
           E == Eligible(l)
<1>1. A \subseteq B
  <2> SUFFICES ASSUME NEW u \in A PROVE u \in B
    OBVIOUS
  <2>1. <<u, l>> \in Rows =>
          /\ lastCharted[<<u, l>>] \in Nat /\ lastBytes[<<u, l>>] \in Nat
          /\ lastCharted[<<u, l>>] <= lastBytes[<<u, l>>]
    BY DEF TypeOK, ChartsLag
  <2>2. t - IdleTicks \in Int
    OBVIOUS
  <2>3. /\ u \in Eligible(l)
        /\ <<u, l>> \in Rows =>
             lastBytes[<<u, l>>] = 0 \/ lastBytes[<<u, l>>] < t - IdleTicks
    BY DEF IdleUsers
  <2>4. <<u, l>> \in Rows =>
          lastCharted[<<u, l>>] = 0 \/ lastCharted[<<u, l>>] < t - IdleTicks
    BY <2>1, <2>2, <2>3
  <2> QED
    BY <2>3, <2>4 DEF IdleUsers
<1>2. B \subseteq E /\ E \subseteq Users
  BY DEF IdleUsers, Eligible, TypeOK
<1>3. IsFiniteSet(E)
  BY <1>2, FS_Subset
<1>4. IsFiniteSet(B)
  BY <1>2, <1>3, FS_Subset
<1>5. IsFiniteSet(A) /\ Cardinality(A) <= Cardinality(B)
  BY <1>1, <1>4, FS_Subset
<1>6. Cardinality(A) \in Nat /\ Cardinality(B) \in Nat /\ Cardinality(E) \in Nat
  BY <1>3, <1>4, <1>5, FS_CardinalityType
<1>7. E # {} /\ 100 * Cardinality(A) >= 60 * Cardinality(E)
  BY DEF StaleHint
<1>8. 100 * Cardinality(B) >= 60 * Cardinality(E)
  <2> HIDE DEF A, B, E
  <2> QED
    BY <1>5, <1>6, <1>7
<1> QED
  BY <1>7, <1>8 DEF StaleHint

(* As long as no statement fails, the panel is told that a preset is idle    *)
(* only if the charts agree (tick records the usage before the chart row).  *)
THEOREM HintsTrue == Spec => []HintsAreIdle
<1> DEFINE Inv == faults = 0 => ChartsLag
<1>1. Init => Inv
  BY DEF Init, ChartsLag
<1>2. TypeOK /\ TypeOK' /\ TickOK /\ Inv /\ [Next]_vars => Inv'
  <2> SUFFICES ASSUME TypeOK, TypeOK', TickOK, Inv, [Next]_vars, faults' = 0
               PROVE  ChartsLag'
    OBVIOUS
  <2>1. faults = 0
    BY FaultsGrow DEF TypeOK
  <2> QED
    BY <2>1, ChartsLagNext
<1>3. TypeOK /\ Inv => HintsAreIdle
  <2> SUFFICES ASSUME TypeOK, ChartsLag,
                      NEW l \in UNION {Granted[u] : u \in known},
                      NEW t \in now .. now + IdleTicks + 1,
                      StaleHint(l, t, lastBytes)
               PROVE  StaleHint(l, t, lastCharted)
    BY DEF HintsAreIdle
  <2>1. t \in Nat
    BY DEF TypeOK
  <2> QED
    BY <2>1, HintFromUsage
<1> HIDE DEF Inv
<1> QED
  BY <1>1, <1>2, <1>3, TickCorrect, PTL DEF Spec

-----------------------------------------------------------------------------
(* Without disturbances Xray's counter is all that was carried, and the      *)
(* worker has split what it saw of it into the part from before the first    *)
(* sight, the part that is billed, and the part it is about to bill.        *)
Accounted(n) ==
  /\ counter[n] = IF carried[n] = 0 THEN Unseen ELSE carried[n]
  /\ IF lastTotals[n] = Unseen
     THEN firstTotal[n] = 0 /\ billed[n] = 0 /\ delta[n] = 0
     ELSE /\ firstTotal[n] + billed[n] + delta[n] = lastTotals[n]
          /\ 0 < lastTotals[n] /\ lastTotals[n] <= carried[n]
  /\ tick = "queried" =>
       /\ stats[n] = Unseen => lastTotals[n] = Unseen
       /\ stats[n] # Unseen => 0 < stats[n] /\ stats[n] <= carried[n]
       /\ stats[n] # Unseen /\ lastTotals[n] # Unseen => lastTotals[n] <= stats[n]

FullyAccounted ==
  /\ known = Users
  /\ \A s \in Slots : patch[s] = Keep
  /\ \A u \in Users : used[u] = InitialUsed[u] + BilledTo(u)
  /\ \A n \in Counters : Accounted(n)

LEMMA CountersTyped ==
  ASSUME TypeOK, NEW n \in Counters
  PROVE  /\ carried[n] \in Nat /\ billed[n] \in Nat /\ delta[n] \in Nat
         /\ firstTotal[n] \in Nat
         /\ counter[n] \in {Unseen} \cup Nat /\ stats[n] \in {Unseen} \cup Nat
         /\ lastTotals[n] \in {Unseen} \cup Nat
BY DEF TypeOK

(* Undisturbed, only traffic and the steps of a tick that succeed are left.  *)
LEMMA UndisturbedSteps ==
  ASSUME TypeOK, TypeOK', [Next]_vars, Undisturbed'
  PROVE  /\ Undisturbed
         /\ \/ \E n \in Counters : Carry(n)
            \/ QueryStats \/ ListUsers
            \/ \E u \in Users : NextUser(u)
            \/ TickDone
            \/ \E l \in Labels : RecordUsage(l)
            \/ InsertSnapshot \/ AddTrafficUsed
            \/ \E s \in Slots : UpdateUser(s)
            \/ UNCHANGED vars
<1>1. /\ restarts \in Nat /\ crashes \in Nat /\ faults \in Nat /\ patches \in Nat
      /\ deletes \in Nat
      /\ restarts' = 0 /\ crashes' = 0 /\ faults' = 0 /\ patches' = 0 /\ deletes' = 0
  <2>1. /\ restarts' \in Nat /\ crashes' \in Nat /\ faults' \in Nat
        /\ patches' \in Nat /\ deletes' \in Nat
    BY DEF TypeOK
  <2>2. restarts' + crashes' + faults' + patches' + deletes' = 0
    BY DEF Undisturbed, Disturbances
  <2>3. /\ restarts \in Nat /\ crashes \in Nat /\ faults \in Nat /\ patches \in Nat
        /\ deletes \in Nat
    BY DEF TypeOK
  <2>4. \A a, b, c, d, e \in Nat :
          a + b + c + d + e = 0 => a = 0 /\ b = 0 /\ c = 0 /\ d = 0 /\ e = 0
    OBVIOUS
  <2> QED
    BY <2>1, <2>2, <2>3, <2>4
<1>2. ~ XrayRestart /\ ~ ListUsersFails /\ ~ AddTrafficFails /\ ~ AgentCrash
  BY <1>1 DEF XrayRestart, ListUsersFails, AddTrafficFails, AgentCrash, Fault
<1>3. /\ \A s \in Slots : ~ \E r \in Patches : GetUser(s, r)
      /\ \A u \in Users : ~ DeleteUser(u)
  BY <1>1 DEF GetUser, DeleteUser
<1>4. \/ \E n \in Counters : Carry(n)
      \/ QueryStats \/ ListUsers
      \/ \E u \in Users : NextUser(u)
      \/ TickDone
      \/ \E l \in Labels : RecordUsage(l)
      \/ InsertSnapshot \/ AddTrafficUsed
      \/ \E s \in Slots : UpdateUser(s)
      \/ UNCHANGED vars
  BY <1>2, <1>3 DEF Next, Tick
<1>5. /\ UNCHANGED <<restarts, crashes, patches, deletes>>
      /\ faults' \in {faults, faults + 1}
  BY <1>1, <1>4 DEF Carry, QueryStats, ListUsers, NextUser, TickDone, RecordUsage,
     InsertSnapshot, AddTrafficUsed, UpdateUser, vars, bounds, Fault
<1>6. Undisturbed
  BY <1>1, <1>5 DEF Undisturbed, Disturbances
<1> QED
  BY <1>4, <1>6

(* The books of every counter, step by step.                               *)
LEMMA AccountedNext ==
  ASSUME TypeOK, TypeOK', TickOK, FullyAccounted, [Next]_vars, Undisturbed',
         NEW n \in Counters
  PROVE  Accounted(n)'
<1>1. /\ Accounted(n) /\ n.user \in known
      /\ \A s \in Slots : patch[s] = Keep
  BY CounterParts DEF FullyAccounted
<1>2. /\ carried[n] \in Nat /\ billed[n] \in Nat /\ delta[n] \in Nat
      /\ firstTotal[n] \in Nat
      /\ counter[n] \in {Unseen} \cup Nat /\ stats[n] \in {Unseen} \cup Nat
      /\ lastTotals[n] \in {Unseen} \cup Nat
  BY CountersTyped
<1>3. ASSUME UNCHANGED <<counter, carried, lastTotals, firstTotal, billed>>,
             delta'[n] = delta[n], tick' # "queried"
      PROVE  Accounted(n)'
  BY <1>1, <1>3 DEF Accounted
<1>4. ASSUME NEW m \in Counters, Carry(m) PROVE Accounted(n)'
  <2>1. /\ UNCHANGED <<lastTotals, firstTotal, billed, delta, tick, stats>>
        /\ carried'[n] = IF n = m THEN carried[n] + 1 ELSE carried[n]
        /\ counter'[n] = IF n # m THEN counter[n]
                         ELSE IF counter[n] = Unseen THEN 1 ELSE counter[n] + 1
    BY <1>4 DEF Carry, tickLocals, TypeOK
  <2>2. /\ counter[n] = IF carried[n] = 0 THEN Unseen ELSE carried[n]
        /\ Unseen \notin Nat
    BY <1>1 DEF Accounted
  <2>3. counter'[n] = IF carried'[n] = 0 THEN Unseen ELSE carried'[n]
    BY <1>2, <2>1, <2>2
  <2>4. carried[n] <= carried'[n] /\ carried'[n] \in Nat
    BY <1>2, <2>1
  <2> QED
    BY <1>1, <1>2, <2>1, <2>3, <2>4 DEF Accounted
<1>5. CASE QueryStats
  <2>1. /\ UNCHANGED <<counter, carried, lastTotals, firstTotal, billed, delta>>
        /\ stats' = counter
    BY <1>5 DEF QueryStats, history
  <2> QED
    BY <1>1, <1>2, <2>1 DEF Accounted
<1>6. CASE ListUsers
  <2>1. /\ UNCHANGED <<counter, carried, billed>> /\ tick' = "users" /\ tick = "queried"
        /\ delta'[n] = Billable(n)
        /\ lastTotals'[n] = IF stats[n] = Unseen THEN lastTotals[n] ELSE stats[n]
        /\ firstTotal'[n] = IF lastTotals[n] = Unseen /\ stats[n] # Unseen
                            THEN stats[n] ELSE firstTotal[n]
    BY <1>6 DEF ListUsers
  <2>2. delta[n] = 0
    BY <1>2, <2>1 DEF TickOK, ForUser
  <2>3. CASE stats[n] = Unseen
    <3>1. delta'[n] = 0
      BY <2>1, <2>3 DEF Billable
    <3> QED
      BY <1>1, <2>1, <2>2, <2>3, <3>1 DEF Accounted
  <2>4. CASE stats[n] # Unseen /\ lastTotals[n] = Unseen
    <3>1. delta'[n] = 0
      BY <2>1, <2>4 DEF Billable
    <3> QED
      BY <1>1, <1>2, <2>1, <2>2, <2>4, <3>1 DEF Accounted
  <2>5. CASE stats[n] # Unseen /\ lastTotals[n] # Unseen
    <3>1. lastTotals[n] <= stats[n]
      BY <1>1, <2>1, <2>5 DEF Accounted
    <3>2. delta'[n] = stats[n] - lastTotals[n]
      BY <1>1, <1>2, <2>1, <2>5, <3>1 DEF Billable, Growth
    <3> QED
      BY <1>1, <1>2, <2>1, <2>2, <2>5, <3>1, <3>2 DEF Accounted
  <2> QED
    BY <2>3, <2>4, <2>5
<1>7. ASSUME NEW u \in Users, NextUser(u) PROVE Accounted(n)'
  BY <1>3, <1>7 DEF NextUser, history
<1>8. CASE TickDone
  <2>1. delta[n] = 0
    BY <1>2, <1>8 DEF TickDone, TickOK, ForUser
  <2>2. delta'[n] = 0
    BY <1>8 DEF TickDone, NoDelta
  <2> QED
    BY <1>3, <1>8, <2>1, <2>2 DEF TickDone, history
<1>9. ASSUME NEW l \in Labels, RecordUsage(l) PROVE Accounted(n)'
  BY <1>3, <1>9 DEF RecordUsage, history
<1>10. CASE InsertSnapshot
  BY <1>3, <1>10 DEF InsertSnapshot
<1>11. CASE AddTrafficUsed
  <2>1. /\ UNCHANGED <<counter, carried, lastTotals, firstTotal>> /\ tick' = "users"
        /\ delta'[n] = IF n.user = who THEN 0 ELSE delta[n]
    BY <1>11 DEF AddTrafficUsed
  <2>2. billed'[n] = IF n.user = who THEN billed[n] + delta[n] ELSE billed[n]
    BY <1>1, <1>11 DEF AddTrafficUsed, TypeOK
  <2>3. billed'[n] + delta'[n] = billed[n] + delta[n]
    BY <1>2, <2>1, <2>2
  <2>4. billed'[n] \in Nat /\ delta'[n] \in Nat
    BY <1>2, <2>1, <2>2
  <2>5. CASE lastTotals[n] = Unseen
    <3>1. billed'[n] = 0 /\ delta'[n] = 0
      BY <1>1, <1>2, <2>1, <2>2, <2>5 DEF Accounted
    <3> QED
      BY <1>1, <2>1, <2>5, <3>1 DEF Accounted
  <2>6. CASE lastTotals[n] # Unseen
    <3>1. firstTotal[n] + billed'[n] + delta'[n] = lastTotals[n]
      BY <1>1, <1>2, <2>3, <2>4, <2>6 DEF Accounted
    <3> QED
      BY <1>1, <2>1, <2>6, <3>1 DEF Accounted
  <2> QED
    BY <2>5, <2>6
<1>12. ASSUME NEW s \in Slots, UpdateUser(s) PROVE Accounted(n)'
  BY <1>1, <1>12 DEF UpdateUser
<1>13. CASE UNCHANGED vars
  BY <1>1, <1>13 DEF vars, Accounted
<1> QED
  BY <1>4, <1>5, <1>6, <1>7, <1>8, <1>9, <1>10, <1>11, <1>12, <1>13,
     UndisturbedSteps

LEMMA FullyAccountedNext ==
  ASSUME TypeOK, TypeOK', TickOK, FullyAccounted, [Next]_vars, Undisturbed'
  PROVE  FullyAccounted'
<1>1. \A n \in Counters : Accounted(n)'
  BY AccountedNext
<1>2. /\ known = Users /\ \A s \in Slots : patch[s] = Keep
      /\ \A u \in Users : used[u] = InitialUsed[u] + BilledTo(u)
  BY DEF FullyAccounted
<1>3. known' = known /\ patch' = patch
  BY <1>2, UndisturbedSteps DEF Carry, QueryStats, ListUsers, NextUser, TickDone,
     RecordUsage, InsertSnapshot, AddTrafficUsed, UpdateUser, vars, userTable, requests
<1>4. CASE AddTrafficUsed
  <2>1. ASSUME NEW u \in Users PROVE used'[u] = InitialUsed[u] + BilledTo(u)'
    <3>1. who \in known
      BY <1>2, <1>4 DEF AddTrafficUsed, TickOK, ForUser
    <3>2. CASE u = who
      <4>1. used'[u] = used[u] + UserDelta(u)
        BY <1>4, <3>1, <3>2 DEF AddTrafficUsed, TypeOK
      <4>2. BilledTo(u)' = BilledTo(u) + UserDelta(u)
        BY <1>4, <3>1, <3>2, CounterPart, BilledToAdds
      <4>3. BilledTo(u) \in Nat /\ UserDelta(u) \in Nat /\ InitialUsed[u] \in Nat
        BY CounterPart, BilledToType, DeltaSums
      <4> QED
        BY <1>2, <4>1, <4>2, <4>3
    <3>3. CASE u # who
      <4>1. used'[u] = used[u]
        BY <1>4, <3>3 DEF AddTrafficUsed, TypeOK
      <4>2. /\ IsFiniteSet(CountersOf(u))
            /\ \A n \in CountersOf(u) : billed[n] \in Nat /\ billed[n] = billed'[n]
        BY <1>4, <3>1, <3>3, CountersFinite DEF AddTrafficUsed, TypeOK, CountersOf
      <4>3. SumFunctionOnSet(billed, CountersOf(u)) =
              SumFunctionOnSet(billed', CountersOf(u))
        BY <4>2, SumEqual
      <4> QED
        BY <1>2, <4>1, <4>3 DEF BilledTo, CountersOf
    <3> QED
      BY <3>2, <3>3
  <2> QED
    BY <1>1, <1>2, <1>3, <2>1 DEF FullyAccounted
<1>5. CASE ~ AddTrafficUsed
  <2>1. used' = used /\ billed' = billed
    BY <1>2, <1>5, UndisturbedSteps DEF Carry, QueryStats, ListUsers, NextUser,
       TickDone, RecordUsage, InsertSnapshot, UpdateUser, vars, userTable, history
  <2>2. \A u \in Users : used'[u] = InitialUsed[u] + BilledTo(u)'
    BY <1>2, <2>1 DEF BilledTo
  <2> QED
    BY <1>1, <1>2, <1>3, <2>2 DEF FullyAccounted
<1> QED
  BY <1>4, <1>5

(* Between undisturbed ticks no byte is lost: each is billed, unbilled, or   *)
(* older than the worker's first sight of its counter (Worker.tick).        *)
THEOREM NoByteLost == Spec => []Conserved
<1> DEFINE Inv == Undisturbed => FullyAccounted
<1>1. Init => Inv
  <2> SUFFICES ASSUME Init PROVE FullyAccounted
    OBVIOUS
  <2>1. ASSUME NEW u \in Users PROVE used[u] = InitialUsed[u] + BilledTo(u)
    <3>1. /\ IsFiniteSet(CountersOf(u))
          /\ \A n \in CountersOf(u) : billed[n] = 0
      BY CountersFinite DEF Init, NoDelta, CountersOf
    <3>2. BilledTo(u) = 0
      BY <3>1, SumZero DEF BilledTo
    <3>3. InitialUsed[u] \in Nat /\ used[u] = InitialUsed[u]
      BY DEF Init
    <3> QED
      BY <3>2, <3>3
  <2>2. \A n \in Counters : Accounted(n)
    BY DEF Init, Accounted, NoDelta, NoStats
  <2> QED
    BY <2>1, <2>2 DEF Init, FullyAccounted
<1>2. TypeOK /\ TypeOK' /\ TickOK /\ Inv /\ [Next]_vars => Inv'
  BY UndisturbedSteps, FullyAccountedNext
<1>3. TypeOK /\ TickOK /\ Inv => Conserved
  <2> SUFFICES ASSUME TypeOK, TickOK, FullyAccounted, tick = "idle", NEW u \in Users
               PROVE  InitialUsed[u] + CarriedBy(u) =
                        used[u] + SumFunctionOnSet(
                          [n \in Counters |-> firstTotal[n] + Unbilled(n)],
                          CountersOf(u))
    BY DEF Conserved
  <2> DEFINE rest == [n \in Counters |-> firstTotal[n] + Unbilled(n)]
             mine == CountersOf(u)
  <2>1. ASSUME NEW n \in Counters
        PROVE  rest[n] \in Nat /\ carried[n] = billed[n] + rest[n]
    <3>1. /\ carried[n] \in Nat /\ billed[n] \in Nat /\ delta[n] \in Nat
          /\ firstTotal[n] \in Nat
          /\ lastTotals[n] \in {Unseen} \cup Nat
      BY CountersTyped
    <3>2. Accounted(n) /\ delta[n] = 0
      BY <3>1 DEF FullyAccounted, TickOK, ForUser
    <3>3. rest[n] = firstTotal[n] + Unbilled(n)
      OBVIOUS
    <3> HIDE DEF rest
    <3>4. CASE carried[n] = 0
      BY <3>1, <3>2, <3>3, <3>4 DEF Accounted, Unbilled
    <3>5. CASE carried[n] # 0 /\ lastTotals[n] = Unseen
      BY <3>1, <3>2, <3>3, <3>5 DEF Accounted, Unbilled
    <3>6. CASE carried[n] # 0 /\ lastTotals[n] # Unseen
      BY <3>1, <3>2, <3>3, <3>6 DEF Accounted, Unbilled
    <3> QED
      BY <3>4, <3>5, <3>6
  <2>2. /\ IsFiniteSet(mine)
        /\ \A n \in mine : /\ billed[n] \in Nat /\ rest[n] \in Nat
                           /\ carried[n] = billed[n] + rest[n]
    BY <2>1, CountersFinite DEF CountersOf, TypeOK
  <2>3. used[u] = InitialUsed[u] + BilledTo(u) /\ InitialUsed[u] \in Nat
    BY DEF FullyAccounted
  <2> HIDE DEF rest, mine
  <2>4. /\ SumFunctionOnSet(carried, mine) =
             SumFunctionOnSet(billed, mine) + SumFunctionOnSet(rest, mine)
        /\ SumFunctionOnSet(billed, mine) \in Nat
        /\ SumFunctionOnSet(rest, mine) \in Nat
    BY <2>2, SumPlus, SumType
  <2>5. InitialUsed[u] + SumFunctionOnSet(carried, mine) =
          InitialUsed[u] + SumFunctionOnSet(billed, mine)
            + SumFunctionOnSet(rest, mine)
    BY <2>3, <2>4
  <2> QED
    BY <2>3, <2>5 DEF BilledTo, CarriedBy, rest, mine
<1> HIDE DEF Inv
<1> QED
  BY <1>1, <1>2, <1>3, TickCorrect, PTL DEF Spec
=============================================================================
