-------------------------- MODULE TrafficAccounting --------------------------
(***************************************************************************)
(* How the bytes Xray carries become traffic_used_bytes and chart points.   *)
(*                                                                         *)
(* statsync.Worker (internal/statsync/xray.go) ticks every two minutes on   *)
(* one goroutine: it queries Xray's cumulative counters, lists the users,   *)
(* takes the growth since its last tick and writes it user by user with     *)
(* one statement each (internal/db/db.go).  Its memory of the last totals   *)
(* dies with the agent; Xray's counters die with Xray; PATCH and DELETE of  *)
(* users run at any time between its statements; any statement may fail.    *)
(*                                                                         *)
(* A counter is named by the account's email and a direction.  The email    *)
(* is StatsEmail(uuid, protocol), or the user's own email in a config that  *)
(* an earlier version generated: tag "legacy" below.                        *)
(***************************************************************************)
EXTENDS Integers, FiniteSets, Functions

CONSTANTS
  Users,        \* user ids
  Counters,     \* the counter names Xray may report
  InitialUsed,  \* [Users -> Nat]: traffic_used_bytes at the outset
  Slots,        \* PATCH requests in flight at once
  Patches,      \* the PATCH bodies: a user and a new value, or Keep
  Keep,         \* the body has no traffic_used_bytes
  Unseen,       \* no entry in lastTotals, no counter in Xray
  Granted,      \* [Users -> SUBSET Labels]: their enabled, installed presets
  IdleTicks,    \* how long without bytes makes a user idle
  MaxCarried, MaxCarriedInAll, MaxTicks, MaxRestarts, MaxCrashes, MaxFaults, MaxPatches,
  MaxDeletes,
  MaxDisturbances    \* bounds for model checking: of each kind, and in all

Labels == {"vless", "vmess", "trojan", "shadowsocks", "vless_reality"}

CounterNames ==
  [user : Users, tag : (Labels \ {"vless_reality"}) \cup {"legacy"},
   direction : {"uplink", "downlink"}]

ASSUME TrafficAccountingAssumption ==
  /\ IsFiniteSet(Users)
  /\ Counters \subseteq CounterNames /\ IsFiniteSet(Counters)
  /\ InitialUsed \in [Users -> Nat]
  /\ Patches \subseteq [user : Users, used : {Keep} \cup Nat]
  /\ Granted \in [Users -> SUBSET Labels]
  /\ Keep \notin Nat /\ Unseen \notin Nat
  /\ \A b \in {MaxCarried, MaxCarriedInAll, MaxTicks, MaxRestarts, MaxCrashes, MaxFaults,
               MaxPatches, MaxDeletes, MaxDisturbances, IdleTicks} : b \in Nat

(* resolveUserAndProtocol: traffic under a legacy email is the old preset's. *)
Label(n) == IF n.tag = "legacy" THEN "vless_reality" ELSE n.tag

(* The rows user_traffic_snapshots and protocol_usage may get.              *)
Rows == {<<n.user, Label(n)>> : n \in Counters}

CountersOf(u) == {n \in Counters : n.user = u}

Growth(v, w) == IF w > v THEN w - v ELSE 0

VARIABLES
  counter, lastTotals,             \* Xray's counters; Worker.lastTotals
  tick, stats, delta, todo,        \* where a tick stands, and its locals
  who, labels, label, now,
  known, used, lastSeen,           \* table vpn_users
  charted, lastBytes,              \* user_traffic_snapshots, protocol_usage
  patch, loadedUsed, loadedSeen,   \* PATCH requests in flight
  restarts, crashes, faults, patches, deletes,     \* bounds
  carried, billed, firstTotal,     \* history, read by no guard but bounds
  lastCharted

tickLocals == <<stats, delta, todo, who, labels, label>>
userTable  == <<known, used, lastSeen>>
charts     == <<charted, lastBytes>>
requests   == <<patch, loadedUsed, loadedSeen>>
bounds     == <<restarts, crashes, faults, patches, deletes>>
history    == <<carried, billed, firstTotal, lastCharted>>

vars == <<counter, lastTotals, tick, stats, delta, todo, who, labels, label, now,
          known, used, lastSeen, charted, lastBytes, patch, loadedUsed,
          loadedSeen, restarts, crashes, faults, patches, deletes,
          carried, billed, firstTotal, lastCharted>>

NoDelta == [n \in Counters |-> 0]
NoStats == [n \in Counters |-> Unseen]

Init ==
  /\ counter = NoStats /\ lastTotals = NoStats
  /\ tick = "idle" /\ stats = NoStats /\ delta = NoDelta
  /\ todo = {} /\ who = Keep /\ labels = {} /\ label = Keep
  /\ now = 0
  /\ known = Users /\ used = InitialUsed /\ lastSeen = [u \in Users |-> 0]
  /\ charted = [x \in Rows |-> 0]
  /\ lastBytes = [x \in Rows |-> 0]
  /\ patch = [s \in Slots |-> Keep]
  /\ loadedUsed = [s \in Slots |-> 0] /\ loadedSeen = [s \in Slots |-> 0]
  /\ restarts = 0 /\ crashes = 0 /\ faults = 0 /\ patches = 0 /\ deletes = 0
  /\ carried = NoDelta /\ billed = NoDelta /\ firstTotal = NoDelta
  /\ lastCharted = [x \in Rows |-> 0]

(* How often something other than traffic and ticks has happened.          *)
Disturbances == restarts + crashes + faults + patches + deletes

MayDisturb == Disturbances < MaxDisturbances

Fault == faults < MaxFaults /\ MayDisturb /\ faults' = faults + 1

-----------------------------------------------------------------------------
CarriedInAll == SumFunctionOnSet(carried, Counters)

(* Xray: a counter appears with its first byte and restarts from nothing.  *)
Carry(n) ==
  /\ carried[n] < MaxCarried /\ CarriedInAll < MaxCarriedInAll
  /\ carried' = [carried EXCEPT ![n] = @ + 1]
  /\ counter' = [counter EXCEPT ![n] = IF @ = Unseen THEN 1 ELSE @ + 1]
  /\ UNCHANGED <<lastTotals, tick, tickLocals, now, userTable, charts, requests,
                 bounds, billed, firstTotal, lastCharted>>

XrayRestart ==
  /\ restarts < MaxRestarts /\ MayDisturb
  /\ restarts' = restarts + 1
  /\ counter' = NoStats
  /\ UNCHANGED <<lastTotals, tick, tickLocals, now, userTable, charts, requests,
                 crashes, faults, patches, deletes, history>>

-----------------------------------------------------------------------------
(* Worker.tick.                                                            *)
QueryStats ==
  /\ tick = "idle"
  /\ stats' = counter
  /\ tick' = "queried"
  /\ UNCHANGED <<counter, lastTotals, delta, todo, who, labels, label, now,
                 userTable, charts, requests, bounds, history>>

(* Mutant: no `delta <= 0` test.                                           *)
BillableSigned(n) ==
  IF stats[n] = Unseen \/ lastTotals[n] = Unseen \/ n.user \notin known THEN 0
  ELSE stats[n] - lastTotals[n]

(* Mutant: a total seen for the first time counts from zero.               *)
BillableFromZero(n) ==
  IF stats[n] = Unseen \/ n.user \notin known THEN 0
  ELSE Growth(IF lastTotals[n] = Unseen THEN 0 ELSE lastTotals[n], stats[n])

(* Mutant: the test is `delta <= 1`.                                       *)
BillableAboveOne(n) ==
  IF stats[n] = Unseen \/ lastTotals[n] = Unseen \/ n.user \notin known THEN 0
  ELSE IF Growth(lastTotals[n], stats[n]) <= 1 THEN 0
  ELSE Growth(lastTotals[n], stats[n])

(* What a counter grew by since the last tick that saw it.  One seen for    *)
(* the first time is only remembered, one that fell back is not counted.   *)
Billable(n) ==
  IF stats[n] = Unseen \/ lastTotals[n] = Unseen \/ n.user \notin known THEN 0
  ELSE Growth(lastTotals[n], stats[n])

(* ListUsers, then the loop over the counters, whose result is local: every *)
(* total is remembered before any of its growth is in the database.        *)
ListUsers ==
  /\ tick = "queried"
  /\ now' = IF now < MaxTicks THEN now + 1 ELSE now
  /\ delta' = [n \in Counters |-> Billable(n)]
  /\ lastTotals' = [n \in Counters |->
       IF stats[n] = Unseen THEN lastTotals[n] ELSE stats[n]]
  /\ firstTotal' = [n \in Counters |->
       IF lastTotals[n] = Unseen /\ stats[n] # Unseen THEN stats[n]
       ELSE firstTotal[n]]
  /\ todo' = {u \in Users : \E n \in CountersOf(u) : Billable(n) > 0}
  /\ stats' = NoStats
  /\ tick' = "users"
  /\ UNCHANGED <<counter, who, labels, label, userTable, charts, requests, bounds,
                 carried, billed, lastCharted>>

ListUsersFails ==
  /\ tick = "queried"
  /\ Fault
  /\ stats' = NoStats
  /\ tick' = "idle"
  /\ UNCHANGED <<counter, lastTotals, delta, todo, who, labels, label, now,
                 userTable, charts, requests, restarts, crashes, patches, deletes,
                 history>>

(* Go iterates over the users, and over each one's protocols, in any order. *)
NextUser(u) ==
  /\ tick = "users"
  /\ u \in todo
  /\ todo' = todo \ {u}
  /\ who' = u
  /\ labels' = {Label(n) : n \in {m \in CountersOf(u) : delta[m] > 0}}
  /\ tick' = "protocols"
  /\ UNCHANGED <<counter, lastTotals, stats, delta, label, now, userTable, charts,
                 requests, bounds, history>>

TickDone ==
  /\ tick = "users"
  /\ todo = {}
  /\ tick' = "idle"
  /\ delta' = NoDelta
  /\ UNCHANGED <<counter, lastTotals, stats, todo, who, labels, label, now,
                 userTable, charts, requests, bounds, history>>

(* Mutant: only a download counts as use.                                  *)
RecordUsageDown(l) ==
  /\ tick = "protocols"
  /\ l \in labels
  /\ label' = l
  /\ tick' = "snapshot"
  /\ lastBytes' = [lastBytes EXCEPT ![<<who, l>>] =
       IF \E n \in CountersOf(who) : Label(n) = l /\ n.direction = "downlink"
            /\ delta[n] > 0
       THEN now ELSE @]
  /\ UNCHANGED <<counter, lastTotals, stats, delta, todo, who, labels, now,
                 userTable, charted, requests, bounds, history>>

(* RecordProtocolUsage; its error is ignored.                              *)
RecordUsage(l) ==
  /\ tick = "protocols"
  /\ l \in labels
  /\ label' = l
  /\ tick' = "snapshot"
  /\ \/ lastBytes' = [lastBytes EXCEPT ![<<who, l>>] = now] /\ UNCHANGED faults
     \/ Fault /\ UNCHANGED lastBytes
  /\ UNCHANGED <<counter, lastTotals, stats, delta, todo, who, labels, now,
                 userTable, charted, requests, restarts, crashes, patches, deletes,
                 history>>

(* Mutant: the chart leaves the downlink out.                              *)
LabelDeltaUp(u, l) ==
  SumFunctionOnSet(delta,
    {n \in CountersOf(u) : Label(n) = l /\ n.direction = "uplink"})

LabelDelta(u, l) ==
  SumFunctionOnSet(delta, {n \in CountersOf(u) : Label(n) = l})

(* InsertUserTrafficSnapshot; its error is ignored.  Ticks are minutes      *)
(* apart, so a row's time stamp is its own and no row replaces another: the *)
(* rows of a user and protocol are kept as their sum.                      *)
InsertSnapshot ==
  /\ tick = "snapshot"
  /\ \/ charted' = [charted EXCEPT ![<<who, label>>] = @ + LabelDelta(who, label)]
        /\ lastCharted' = [lastCharted EXCEPT ![<<who, label>>] = now]
        /\ UNCHANGED faults
     \/ Fault /\ UNCHANGED <<charted, lastCharted>>
  /\ labels' = labels \ {label}
  /\ label' = Keep
  /\ tick' = "protocols"
  /\ UNCHANGED <<counter, lastTotals, stats, delta, todo, who, now, userTable,
                 lastBytes, requests, restarts, crashes, patches, deletes, carried,
                 billed, firstTotal>>

UserDelta(u) == SumFunctionOnSet(delta, CountersOf(u))

(* AddUserTrafficUsed, the last statement for a user; without the row it    *)
(* changes nothing.                                                        *)
AddTrafficUsed ==
  /\ tick = "protocols"
  /\ labels = {}
  /\ IF who \in known
     THEN /\ used' = [used EXCEPT ![who] = @ + UserDelta(who)]
          /\ lastSeen' = [lastSeen EXCEPT ![who] = now]
          /\ billed' = [n \in Counters |->
               IF n.user = who THEN billed[n] + delta[n] ELSE billed[n]]
     ELSE UNCHANGED <<used, lastSeen, billed>>
  /\ delta' = [n \in Counters |-> IF n.user = who THEN 0 ELSE delta[n]]
  /\ who' = Keep
  /\ tick' = "users"
  /\ UNCHANGED <<counter, lastTotals, stats, todo, labels, label, now, known,
                 charts, requests, bounds, carried, firstTotal, lastCharted>>

(* An error here ends the tick: the users still to come are not billed for  *)
(* growth that lastTotals already remembers.                               *)
AddTrafficFails ==
  /\ tick = "protocols"
  /\ labels = {}
  /\ Fault
  /\ tick' = "idle"
  /\ delta' = NoDelta /\ todo' = {} /\ who' = Keep
  /\ UNCHANGED <<counter, lastTotals, stats, labels, label, now, userTable, charts,
                 requests, restarts, crashes, patches, deletes, history>>

AgentCrash ==
  /\ crashes < MaxCrashes /\ MayDisturb
  /\ crashes' = crashes + 1
  /\ lastTotals' = NoStats
  /\ tick' = "idle" /\ stats' = NoStats /\ delta' = NoDelta
  /\ todo' = {} /\ who' = Keep /\ labels' = {} /\ label' = Keep
  /\ patch' = [s \in Slots |-> Keep]
  /\ loadedUsed' = [s \in Slots |-> 0] /\ loadedSeen' = [s \in Slots |-> 0]
  /\ UNCHANGED <<counter, now, userTable, charts, restarts, faults, patches,
                 deletes, history>>

-----------------------------------------------------------------------------
(* PatchUser reads the whole row, reads the request body, and writes the   *)
(* whole row back, traffic_used_bytes and last_seen_unix included.         *)
GetUser(s, r) ==
  /\ patch[s] = Keep
  /\ r.user \in known
  /\ patches < MaxPatches /\ MayDisturb
  /\ patches' = patches + 1
  /\ patch' = [patch EXCEPT ![s] = r]
  /\ loadedUsed' = [loadedUsed EXCEPT ![s] = used[r.user]]
  /\ loadedSeen' = [loadedSeen EXCEPT ![s] = lastSeen[r.user]]
  /\ UNCHANGED <<counter, lastTotals, tick, tickLocals, now, userTable, charts,
                 restarts, crashes, faults, deletes, history>>

UpdateUser(s) ==
  /\ patch[s] # Keep
  /\ LET u == patch[s].user
     IN  IF u \in known
         THEN /\ used' = [used EXCEPT ![u] =
                   IF patch[s].used = Keep THEN loadedUsed[s] ELSE patch[s].used]
              /\ lastSeen' = [lastSeen EXCEPT ![u] = loadedSeen[s]]
         ELSE UNCHANGED <<used, lastSeen>>
  /\ patch' = [patch EXCEPT ![s] = Keep]
  /\ loadedUsed' = [loadedUsed EXCEPT ![s] = 0]
  /\ loadedSeen' = [loadedSeen EXCEPT ![s] = 0]
  /\ UNCHANGED <<counter, lastTotals, tick, tickLocals, now, known, charts, bounds,
                 history>>

(* DeleteUser removes the row and leaves charts and usage behind.          *)
DeleteUser(u) ==
  /\ u \in known
  /\ deletes < MaxDeletes /\ MayDisturb
  /\ deletes' = deletes + 1
  /\ known' = known \ {u}
  /\ UNCHANGED <<counter, lastTotals, tick, tickLocals, now, used, lastSeen, charts,
                 requests, restarts, crashes, faults, patches, history>>

-----------------------------------------------------------------------------
Tick ==
  \/ QueryStats \/ ListUsers \/ ListUsersFails
  \/ \E u \in Users : NextUser(u)
  \/ TickDone
  \/ \E l \in Labels : RecordUsage(l)
  \/ InsertSnapshot \/ AddTrafficUsed \/ AddTrafficFails

Next ==
  \/ \E n \in Counters : Carry(n)
  \/ XrayRestart
  \/ Tick
  \/ AgentCrash
  \/ \E s \in Slots : (\E r \in Patches : GetUser(s, r)) \/ UpdateUser(s)
  \/ \E u \in Users : DeleteUser(u)

Spec == Init /\ [][Next]_vars

(* The ticker goroutine keeps running.                                     *)
FairSpec == Spec /\ WF_vars(Tick)

-----------------------------------------------------------------------------
(* StaleProtocolStats at time t, given when each user's last bytes were: the *)
(* panel is told about a preset most of whose users are idle.               *)
Eligible(l) == {u \in known : l \in Granted[u]}

IdleUsers(l, t, seen) ==
  {u \in Eligible(l) :
    <<u, l>> \in Rows => seen[<<u, l>>] = 0 \/ seen[<<u, l>>] < t - IdleTicks}

StaleHint(l, t, seen) ==
  Eligible(l) # {} /\
    100 * Cardinality(IdleUsers(l, t, seen)) >= 60 * Cardinality(Eligible(l))

(* The growth of a counter the worker can still bill: what this tick has     *)
(* taken, what its query has seen, and what the next query will see.        *)
SeenGrowth(v, w) == IF v = Unseen \/ w = Unseen THEN 0 ELSE Growth(v, w)

Pending(n) ==
  delta[n] +
  IF tick = "queried" /\ stats[n] # Unseen
  THEN SeenGrowth(lastTotals[n], stats[n]) + SeenGrowth(stats[n], counter[n])
  ELSE SeenGrowth(lastTotals[n], counter[n])

Books == INSTANCE Ledger WITH pending <- [n \in Counters |-> Pending(n)]

-----------------------------------------------------------------------------
TickStages == {"idle", "queried", "users", "protocols", "snapshot"}

(* Type correctness; in particular no growth and no row is ever negative.   *)
TypeOK ==
  /\ counter \in [Counters -> {Unseen} \cup Nat]
  /\ lastTotals \in [Counters -> {Unseen} \cup Nat]
  /\ stats \in [Counters -> {Unseen} \cup Nat]
  /\ tick \in TickStages
  /\ delta \in [Counters -> Nat]
  /\ todo \in SUBSET Users /\ who \in {Keep} \cup Users
  /\ labels \in SUBSET Labels /\ label \in {Keep} \cup Labels
  /\ now \in Nat
  /\ known \in SUBSET Users
  /\ used \in [Users -> Nat] /\ lastSeen \in [Users -> Nat]
  /\ charted \in [Rows -> Nat]
  /\ lastBytes \in [Rows -> Nat]
  /\ patch \in [Slots -> {Keep} \cup Patches]
  /\ loadedUsed \in [Slots -> Nat] /\ loadedSeen \in [Slots -> Nat]
  /\ restarts \in Nat /\ crashes \in Nat /\ faults \in Nat
  /\ patches \in Nat /\ deletes \in Nat
  /\ carried \in [Counters -> Nat] /\ billed \in [Counters -> Nat]
  /\ firstTotal \in [Counters -> Nat]
  /\ lastCharted \in [Rows -> Nat]

CarriedBy(u) == SumFunctionOnSet(carried, CountersOf(u))
ChartedFor(u) == SumFunctionOnSet(charted, {x \in Rows : x[1] = u})

(* What traffic_used_bytes may have been set to: at the outset, by a PATCH. *)
Bases(u) ==
  {InitialUsed[u]} \cup {r.used : r \in {q \in Patches : q.user = u /\ q.used # Keep}}

(* No byte is billed twice: not after Xray or the agent restarted, not      *)
(* when a tick failed half-way and the next one starts over (tick's         *)
(* lastTotals), counter by counter ...                                      *)
BilledAtMostCarried == \A n \in Counters : billed[n] <= carried[n]

(* ... and in the user's row, where PATCHes write back what they read: a    *)
(* total exceeds the one it began with, or one an administrator may set, by *)
(* no more than the bytes carried.                                          *)
NeverOverbilled ==
  \A u \in Users : \E base \in Bases(u) : used[u] <= base + CarriedBy(u)

(* If no statement fails, every byte in the user's total is on a chart,     *)
(* also when the agent dies between the chart rows and the total: tick      *)
(* writes the charts first.                                                 *)
ChartsCoverBill ==
  faults = 0 =>
    \A u \in Users : \E base \in Bases(u) : used[u] <= base + ChartedFor(u)

(* What Xray reports and the worker has not billed.                         *)
Unbilled(n) ==
  IF counter[n] = Unseen THEN 0
  ELSE IF lastTotals[n] = Unseen THEN counter[n]
  ELSE counter[n] - lastTotals[n]

Undisturbed == Disturbances = 0

(* Between ticks, and as long as nothing restarted, failed or was edited,   *)
(* every byte is billed, still unbilled, or was there before the worker     *)
(* first saw the counter.                                                   *)
Conserved ==
  tick = "idle" /\ Undisturbed =>
    \A u \in Users :
      InitialUsed[u] + CarriedBy(u) =
        used[u] + SumFunctionOnSet([n \in Counters |-> firstTotal[n] + Unbilled(n)],
                                   CountersOf(u))

(* As long as nothing restarts, fails or is edited, all of a user's bytes   *)
(* are billed in the end, but for those before the worker first saw their   *)
(* counter (Run, tick).                                                     *)
EventuallyBilled ==
  <>[](Undisturbed =>
         \A u \in Users :
           used[u] + SumFunctionOnSet(firstTotal, CountersOf(u))
             = InitialUsed[u] + CarriedBy(u))

(* The worker keeps the books of Ledger: it bills only growth that was       *)
(* pending, once, whatever restarts, fails or is deleted in between.        *)
KeepsBooks == Books!Spec

(* If no statement fails, a preset is called idle only if its users have no  *)
(* chart rows in the window: tick records the usage before it draws the     *)
(* chart (StaleProtocolStats).                                             *)
HintsAreIdle ==
  faults = 0 =>
    \A l \in UNION {Granted[u] : u \in known}, t \in now .. now + IdleTicks + 1 :
      StaleHint(l, t, lastBytes) => StaleHint(l, t, lastCharted)

(* db.go:494, "AddUserTrafficUsed increases traffic_used_bytes": a total    *)
(* falls only when an administrator sets it.                                *)
BilledStays ==
  [][\A u \in Users : used'[u] < used[u] =>
       \E s \in Slots : patch[s] # Keep /\ patch[s].used # Keep]_vars
=============================================================================
