--------------------------- MODULE MetricsCollector ---------------------------
(***************************************************************************)
(* The network rate of the dashboard (internal/metrics/collector.go).       *)
(*                                                                         *)
(* Snapshot is called by the background loop once a minute and by every     *)
(* GET /v1/metrics, on goroutines of their own, and takes no lock: each     *)
(* reads the clock, then the interface's counter, then the Collector's last *)
(* time stamp and counter, and stores its own, one field after the other.   *)
(* The counter is an unsigned machine word; it starts again from zero when  *)
(* the interface does.  Up- and downlink go the same way; one is modelled.  *)
(***************************************************************************)
EXTENDS Integers

CONSTANTS
  Callers,    \* the background loop and the requests
  Word,       \* 2^64
  MaxSent, MaxClock, MaxFalls       \* bounds for model checking

ASSUME MetricsCollectorAssumption ==
  /\ MaxSent \in Nat /\ MaxClock \in Nat \ {0} /\ MaxFalls \in Nat
  /\ Word \in Nat /\ Word > 2 * MaxSent

(* lastNetTS: zero, a time, or some of the words of the first time stored. *)
Zero == 0
Half == MaxClock + 1

VARIABLES
  sent, clock, falls,            \* the interface's counter, the clock
  lastUp, lastTS,                \* the Collector's fields
  pc, at, up, rate,              \* per caller: where it is, and its locals
  calm, fell                     \* history, read by no guard

host   == <<sent, clock, falls>>
memory == <<lastUp, lastTS, pc, at, up, rate, calm, fell>>
collectorVars == <<sent, clock, falls, lastUp, lastTS, pc, at, up, rate, calm, fell>>

Init ==
  /\ sent = 0 /\ clock = 1 /\ falls = 0
  /\ lastUp = 0 /\ lastTS = Zero
  /\ pc = [c \in Callers |-> "idle"]
  /\ at = [c \in Callers |-> 0] /\ up = [c \in Callers |-> 0]
  /\ rate = [c \in Callers |-> 0]
  /\ calm = [c \in Callers |-> FALSE] /\ fell = FALSE

Send ==
  /\ sent < MaxSent
  /\ sent' = sent + 1
  /\ UNCHANGED <<clock, falls, memory>>

Fall ==
  /\ falls < MaxFalls
  /\ falls' = falls + 1
  /\ sent' = 0
  /\ calm' = [c \in Callers |-> FALSE]
  /\ fell' = TRUE
  /\ UNCHANGED <<clock, lastUp, lastTS, pc, at, up, rate>>

Pass ==
  /\ clock < MaxClock
  /\ clock' = clock + 1
  /\ UNCHANGED <<sent, falls, memory>>

Running(c) == pc[c] \notin {"idle", "done"}

Goto(c, l) == pc' = [pc EXCEPT ![c] = l]

(* now := time.Now()                                                       *)
Now(c) ==
  /\ pc[c] = "idle"
  /\ Goto(c, "read")
  /\ at' = [at EXCEPT ![c] = clock]
  /\ calm' = [d \in Callers |->
       IF d = c THEN \A e \in Callers : ~Running(e) ELSE calm[d] /\ ~Running(d)]
  /\ UNCHANGED <<host, lastUp, lastTS, up, rate, fell>>

(* net.IOCounters, which may fail.                                         *)
Read(c) ==
  /\ pc[c] = "read"
  /\ \/ Goto(c, "check") /\ up' = [up EXCEPT ![c] = sent]
     \/ Goto(c, "failed") /\ UNCHANGED up
  /\ UNCHANGED <<host, lastUp, lastTS, at, rate, calm, fell>>

(* !lastNetTS.IsZero() and dt > 0.  Subtracting a time of which only some   *)
(* words are there yields a large positive duration.                       *)
Check(c) ==
  /\ pc[c] = "check"
  /\ Goto(c, IF lastTS # Zero /\ (lastTS = Half \/ at[c] > lastTS)
             THEN "rate" ELSE "storeUp")
  /\ UNCHANGED <<host, lastUp, lastTS, at, up, rate, calm, fell>>

(* Mutant: a signed difference.                                            *)
RateSigned(c) ==
  /\ pc[c] = "rate"
  /\ rate' = [rate EXCEPT ![c] = up[c] - lastUp]
  /\ Goto(c, "storeUp")
  /\ UNCHANGED <<host, lastUp, lastTS, at, up, calm, fell>>

(* up - lastNetUp, in the bytes the rate is made of.                       *)
Rate(c) ==
  /\ pc[c] = "rate"
  /\ rate' = [rate EXCEPT ![c] = (up[c] + Word - lastUp) % Word]
  /\ Goto(c, "storeUp")
  /\ UNCHANGED <<host, lastUp, lastTS, at, up, calm, fell>>

(* Mutant: the counter is remembered only if it has grown.                 *)
StoreUpGrown(c) ==
  /\ pc[c] = "storeUp"
  /\ lastUp' = IF up[c] > lastUp THEN up[c] ELSE lastUp
  /\ Goto(c, "storeTS")
  /\ UNCHANGED <<host, lastTS, at, up, rate, calm, fell>>

StoreUp(c) ==
  /\ pc[c] = "storeUp"
  /\ lastUp' = up[c]
  /\ Goto(c, "storeTS")
  /\ UNCHANGED <<host, lastTS, at, up, rate, calm, fell>>

StoreTS(c) ==
  /\ \/ pc[c] = "storeTS" /\ lastTS = Zero /\ lastTS' = Half /\ Goto(c, "halfTS")
     \/ pc[c] = "storeTS" /\ lastTS # Zero /\ lastTS' = at[c] /\ Goto(c, "done")
     \/ pc[c] = "halfTS" /\ lastTS' = at[c] /\ Goto(c, "done")
  /\ UNCHANGED <<host, lastUp, at, up, rate, calm, fell>>

(* The response, or the row of metrics_history.                            *)
Return(c) ==
  /\ pc[c] \in {"done", "failed"}
  /\ Goto(c, "idle")
  /\ at' = [at EXCEPT ![c] = 0]
  /\ up' = [up EXCEPT ![c] = 0]
  /\ rate' = [rate EXCEPT ![c] = 0]
  /\ calm' = [d \in Callers |-> calm[d] /\ Running(d)]
  /\ fell' = (fell /\ ~(calm[c] /\ pc[c] = "done"))
  /\ UNCHANGED <<host, lastUp, lastTS>>

(* The agent is killed and started again: NewCollector.                     *)
Restart ==
  /\ lastUp' = 0 /\ lastTS' = Zero
  /\ pc' = [c \in Callers |-> "idle"]
  /\ at' = [c \in Callers |-> 0] /\ up' = [c \in Callers |-> 0]
  /\ rate' = [c \in Callers |-> 0]
  /\ calm' = [c \in Callers |-> FALSE] /\ fell' = FALSE
  /\ UNCHANGED host

Environment == Send \/ Fall \/ Pass \/ Restart

Snapshot(c) ==
  Now(c) \/ Read(c) \/ Check(c) \/ Rate(c) \/ StoreUp(c) \/ StoreTS(c) \/ Return(c)

Next == Environment \/ \E c \in Callers : Snapshot(c)

Spec == Init /\ [][Next]_collectorVars

-----------------------------------------------------------------------------
Labels == {"idle", "read", "check", "rate", "storeUp", "storeTS", "halfTS", "done",
           "failed"}

(* Type correctness; in particular a rate is never negative.               *)
TypeOK ==
  /\ sent \in 0 .. MaxSent /\ clock \in 1 .. MaxClock /\ falls \in Nat
  /\ lastUp \in 0 .. MaxSent /\ lastTS \in Zero .. Half
  /\ pc \in [Callers -> Labels]
  /\ at \in [Callers -> 0 .. MaxClock] /\ up \in [Callers -> 0 .. MaxSent]
  /\ rate \in [Callers -> 0 .. Word - 1]
  /\ calm \in [Callers -> BOOLEAN] /\ fell \in BOOLEAN

(* Snapshots that overlap may report anything, a wrapped difference too.    *)
(* One that ran alone reports no more bytes than the interface has sent,    *)
(* even if earlier ones overlapped and stored their fields in any order;    *)
(* unless the counter fell since the last one that ran alone (Snapshot).   *)
LoneRateSane ==
  \A c \in Callers : pc[c] = "done" /\ calm[c] /\ ~fell => rate[c] <= sent
=============================================================================
