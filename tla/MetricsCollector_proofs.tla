------------------------ MODULE MetricsCollector_proofs ------------------------
(***************************************************************************)
(* The Collector for any number of callers, any counter and any number of   *)
(* falls and restarts: types, and that what overlapping snapshots have left *)
(* in its fields never spoils one that runs alone.                          *)
(***************************************************************************)
EXTENDS MetricsCollector, TLAPS

USE MetricsCollectorAssumption

(* A caller that has read the interface's counter and is not yet done.      *)
HasReading(c) == pc[c] \in {"check", "rate", "storeUp", "storeTS", "halfTS"}

(* A calm caller that runs is the only one.                                *)
Alone ==
  \A c \in Callers : calm[c] /\ Running(c) => \A d \in Callers : Running(d) => d = c

(* Since the counter last fell a calm snapshot was completed, answered or   *)
(* not: from then on the fields and the readings are of the new count.      *)
Recovered == ~fell \/ \E d \in Callers : calm[d] /\ pc[d] = "done"

Recent ==
  Recovered => lastUp <= sent /\ \A d \in Callers : HasReading(d) => up[d] <= sent

CalmReading ==
  \A c \in Callers : calm[c] =>
    /\ HasReading(c) => up[c] <= sent
    /\ pc[c] \in {"storeTS", "halfTS"} => lastUp = up[c]

CalmRate ==
  \A c \in Callers : calm[c] =>
    /\ Recovered /\ pc[c] \in {"check", "rate"} => lastUp <= up[c]
    /\ Recovered /\ pc[c] \in {"storeUp", "storeTS", "halfTS"} => rate[c] <= sent
    /\ ~fell /\ pc[c] = "done" => rate[c] <= sent

NoRateYet ==
  \A c \in Callers : pc[c] \in {"idle", "read", "check", "rate"} => rate[c] = 0

LoneInv == Alone /\ Recent /\ CalmReading /\ CalmRate /\ NoRateYet

-----------------------------------------------------------------------------
(* The difference of two words: in range, and exact if it is not negative.  *)
LEMMA WordDifference ==
  ASSUME NEW a \in 0 .. MaxSent, NEW b \in 0 .. MaxSent
  PROVE  /\ (a + Word - b) % Word \in 0 .. Word - 1
         /\ b <= a => (a + Word - b) % Word = a - b
<1>1. (a + Word - b) \in Int /\ Word \in Nat \ {0}
  OBVIOUS
<1>2. (a + Word - b) % Word \in 0 .. Word - 1
  BY <1>1
<1>3. ASSUME b <= a PROVE (a + Word - b) % Word = a - b
  <2>1. a - b \in 0 .. Word - 1 /\ a + Word - b = (a - b) + Word
    BY <1>3
  <2> QED
    BY <2>1
<1> QED
  BY <1>2, <1>3

LEMMA TypeInit == Init => TypeOK
<1> SUFFICES ASSUME Init PROVE TypeOK
  OBVIOUS
<1>1. 0 \in 0 .. MaxSent /\ 1 \in 1 .. MaxClock /\ 0 \in 0 .. MaxClock
  OBVIOUS
<1>2. 0 \in 0 .. Word - 1 /\ Zero \in Zero .. Half
  BY DEF Zero, Half
<1>3. pc \in [Callers -> Labels] /\ calm \in [Callers -> BOOLEAN] /\ fell \in BOOLEAN
  BY DEF Init, Labels
<1> QED
  BY <1>1, <1>2, <1>3 DEF Init, TypeOK

LEMMA TypeNext == TypeOK /\ [Next]_collectorVars => TypeOK'
<1> SUFFICES ASSUME TypeOK, [Next]_collectorVars PROVE TypeOK'
  OBVIOUS
<1> USE DEF TypeOK, Zero, Half, Labels, Goto, host, memory
<1>0. 0 \in 0 .. MaxSent /\ 0 \in 0 .. MaxClock /\ 0 \in 0 .. Word - 1
  OBVIOUS
<1>1. CASE Environment
  <2>1. CASE Send \/ Pass
    BY <2>1 DEF Send, Pass
  <2>2. CASE Fall
    BY <1>0, <2>2 DEF Fall
  <2>3. CASE Restart
    <3>1. /\ lastUp' \in 0 .. MaxSent /\ lastTS' \in Zero .. Half
          /\ at' \in [Callers -> 0 .. MaxClock] /\ up' \in [Callers -> 0 .. MaxSent]
          /\ rate' \in [Callers -> 0 .. Word - 1]
      BY <1>0, <2>3 DEF Restart
    <3>2. /\ pc' \in [Callers -> Labels] /\ calm' \in [Callers -> BOOLEAN]
          /\ fell' \in BOOLEAN
      BY <2>3 DEF Restart
    <3> QED
      BY <2>3, <3>1, <3>2 DEF Restart
  <2> QED
    BY <1>1, <2>1, <2>2, <2>3 DEF Environment
<1>2. ASSUME NEW c \in Callers, Snapshot(c) PROVE TypeOK'
  <2>1. CASE Rate(c)
    <3>1. (up[c] + Word - lastUp) % Word \in 0 .. Word - 1
      BY WordDifference
    <3> QED
      BY <2>1, <3>1 DEF Rate
  <2>2. CASE Now(c)
    <3>1. clock \in 0 .. MaxClock
      OBVIOUS
    <3>2. calm' \in [Callers -> BOOLEAN]
      BY <2>2 DEF Now, Running
    <3> QED
      BY <2>2, <3>1, <3>2 DEF Now
  <2>3. CASE Read(c) \/ Check(c)
    BY <2>3 DEF Read, Check
  <2>4. CASE StoreUp(c) \/ StoreTS(c)
    BY <2>4 DEF StoreUp, StoreTS
  <2>5. CASE Return(c)
    <3>1. calm' \in [Callers -> BOOLEAN] /\ fell' \in BOOLEAN
      BY <2>5 DEF Return, Running
    <3> QED
      BY <1>0, <2>5, <3>1 DEF Return
  <2> QED
    BY <1>2, <2>1, <2>2, <2>3, <2>4, <2>5 DEF Snapshot
<1>3. CASE UNCHANGED collectorVars
  BY <1>3 DEF collectorVars
<1> QED
  BY <1>1, <1>2, <1>3 DEF Next

(* Types, and: no rate is negative or more than a word (Snapshot).          *)
THEOREM TypeCorrect == Spec => []TypeOK
<1> QED
  BY TypeInit, TypeNext, PTL DEF Spec
-----------------------------------------------------------------------------
(* The environment: bytes only add to what a snapshot may report, a fall     *)
(* leaves nobody calm, a restart leaves nothing of the old process.         *)
LEMMA EnvironmentLone == TypeOK /\ LoneInv /\ Environment => LoneInv'
<1> SUFFICES ASSUME TypeOK, LoneInv, Environment PROVE LoneInv'
  OBVIOUS
<1> USE DEF LoneInv, Alone, Recovered, Recent, CalmReading, CalmRate, NoRateYet,
        HasReading, Running
<1>1. CASE Send
  <2>1. sent \in Nat /\ sent' = sent + 1 /\ UNCHANGED memory
    BY <1>1 DEF Send, TypeOK
  <2>2. /\ lastUp \in Nat /\ \A c \in Callers : up[c] \in Nat /\ rate[c] \in Nat
    BY DEF TypeOK
  <2>3. lastUp <= sent => lastUp <= sent'
    BY <2>1, <2>2
  <2>4. \A c \in Callers : /\ up[c] <= sent => up[c] <= sent'
                           /\ rate[c] <= sent => rate[c] <= sent'
    BY <2>1, <2>2
  <2> HIDE DEF LoneInv, Alone, Recovered, Recent, CalmReading, CalmRate, NoRateYet,
           HasReading, Running
  <2>5. Alone' /\ NoRateYet'
    BY <2>1 DEF memory, LoneInv, Alone, NoRateYet, Running
  <2>6. Recent'
    BY <2>1, <2>3, <2>4 DEF memory, LoneInv, Recent, Recovered, HasReading
  <2>7. CalmReading' /\ CalmRate'
    BY <2>1, <2>4 DEF memory, LoneInv, CalmReading, CalmRate, Recovered, HasReading
  <2> QED
    BY <2>5, <2>6, <2>7 DEF LoneInv
<1>2. CASE Pass
  BY <1>2 DEF Pass, memory
<1>3. CASE Fall
  <2>1. \A c \in Callers : ~calm'[c]
    BY <1>3 DEF Fall
  <2> QED
    BY <1>3, <2>1 DEF Fall
<1>4. CASE Restart
  <2>1. \A c \in Callers : ~calm'[c] /\ pc'[c] = "idle" /\ rate'[c] = 0
    BY <1>4 DEF Restart
  <2>2. lastUp' = 0 /\ sent' = sent /\ sent \in Nat
    BY <1>4 DEF Restart, host, TypeOK
  <2> QED
    BY <2>1, <2>2
<1> QED
  BY <1>1, <1>2, <1>3, <1>4 DEF Environment

(* The steps of a snapshot that change no field of the Collector but at most *)
(* the time stamp.                                                         *)
LEMMA LocalLone ==
  ASSUME TypeOK, LoneInv, NEW c \in Callers, Now(c) \/ Read(c) \/ Check(c) \/ Rate(c)
  PROVE  LoneInv'
<1> USE DEF Goto, host
<1>0. /\ sent \in Nat /\ lastUp \in 0 .. MaxSent
      /\ pc \in [Callers -> Labels] /\ calm \in [Callers -> BOOLEAN]
      /\ up \in [Callers -> 0 .. MaxSent] /\ rate \in [Callers -> 0 .. Word - 1]
  BY DEF TypeOK
<1>1. CASE Now(c)
  <2>1. /\ pc[c] = "idle" /\ pc' = [pc EXCEPT ![c] = "read"]
        /\ UNCHANGED <<sent, lastUp, up, rate, fell>>
        /\ calm'[c] = \A e \in Callers : ~Running(e)
        /\ \A d \in Callers \ {c} : calm'[d] = (calm[d] /\ ~Running(d))
    BY <1>0, <1>1 DEF Now
  <2>2. Recovered' => Recovered
    BY <1>0, <2>1 DEF Recovered, Running
  <2>3. \A d \in Callers : HasReading(d)' => HasReading(d) /\ ~calm'[d]
    BY <1>0, <2>1 DEF HasReading, Running
  <2>4. Alone'
    BY <1>0, <2>1 DEF Alone, Running
  <2>5. Recent' /\ CalmReading'
    BY <2>1, <2>2, <2>3 DEF LoneInv, Recent, CalmReading, HasReading
  <2>6. CalmRate' /\ NoRateYet'
    BY <1>0, <2>1, <2>2, <2>3 DEF LoneInv, CalmRate, NoRateYet, HasReading, Running
  <2> QED
    BY <2>4, <2>5, <2>6 DEF LoneInv
<1>2. CASE Read(c)
  <2>1. /\ pc[c] = "read" /\ UNCHANGED <<sent, lastUp, rate, fell, calm>>
        /\ \A d \in Callers \ {c} : pc'[d] = pc[d] /\ up'[d] = up[d]
        /\ \/ pc'[c] = "check" /\ up'[c] = sent
           \/ pc'[c] = "failed" /\ up'[c] = up[c]
    BY <1>0, <1>2 DEF Read
  <2>2. Recovered' => Recovered
    BY <2>1 DEF Recovered
  <2>3. Alone' /\ NoRateYet'
    BY <2>1 DEF LoneInv, Alone, NoRateYet, Running
  <2>4. Recent' /\ CalmReading'
    BY <1>0, <2>1, <2>2 DEF LoneInv, Recent, CalmReading, HasReading
  <2>5. CalmRate'
    BY <2>1, <2>2 DEF LoneInv, Recent, CalmRate
  <2> QED
    BY <2>3, <2>4, <2>5 DEF LoneInv
<1>3. CASE Check(c)
  <2>1. /\ pc[c] = "check" /\ UNCHANGED <<sent, lastUp, up, rate, fell, calm>>
        /\ \A d \in Callers \ {c} : pc'[d] = pc[d]
        /\ pc'[c] \in {"rate", "storeUp"}
    BY <1>0, <1>3 DEF Check
  <2>2. Recovered' => Recovered
    BY <2>1 DEF Recovered
  <2>3. Alone' /\ NoRateYet'
    BY <2>1 DEF LoneInv, Alone, NoRateYet, Running
  <2>4. Recent' /\ CalmReading'
    BY <2>1, <2>2 DEF LoneInv, Recent, CalmReading, HasReading
  <2>5. rate[c] = 0 /\ 0 <= sent
    BY <1>0, <2>1 DEF LoneInv, NoRateYet
  <2>6. CalmRate'
    BY <2>1, <2>2, <2>5 DEF LoneInv, CalmRate
  <2> QED
    BY <2>3, <2>4, <2>6 DEF LoneInv
<1>4. CASE Rate(c)
  <2>1. /\ pc[c] = "rate" /\ UNCHANGED <<sent, lastUp, up, fell, calm>>
        /\ \A d \in Callers \ {c} : pc'[d] = pc[d] /\ rate'[d] = rate[d]
        /\ pc'[c] = "storeUp" /\ rate'[c] = (up[c] + Word - lastUp) % Word
    BY <1>0, <1>4 DEF Rate
  <2>2. Recovered' => Recovered
    BY <2>1 DEF Recovered
  <2>3. Alone' /\ NoRateYet'
    BY <2>1 DEF LoneInv, Alone, NoRateYet, Running
  <2>4. Recent' /\ CalmReading'
    BY <2>1, <2>2 DEF LoneInv, Recent, CalmReading, HasReading
  <2>5. calm[c] /\ Recovered => rate'[c] = up[c] - lastUp /\ up[c] <= sent
    BY <1>0, <2>1, WordDifference DEF LoneInv, CalmRate, CalmReading, HasReading
  <2>6. calm[c] /\ Recovered => rate'[c] <= sent
    BY <1>0, <2>5
  <2>7. CalmRate'
    BY <2>1, <2>2, <2>6 DEF LoneInv, CalmRate
  <2> QED
    BY <2>3, <2>4, <2>7 DEF LoneInv
<1> QED
  BY <1>1, <1>2, <1>3, <1>4

(* The stores: one that is calm makes the fields recent, and with its end    *)
(* the Collector has recovered.                                            *)
LEMMA StoreLone ==
  ASSUME TypeOK, LoneInv, NEW c \in Callers, StoreUp(c) \/ StoreTS(c)
  PROVE  LoneInv'
<1> USE DEF Goto, host
<1>0. pc \in [Callers -> Labels] /\ sent \in Nat
  BY DEF TypeOK
<1>1. CASE StoreUp(c)
  <2>1. /\ pc[c] = "storeUp" /\ pc'[c] = "storeTS" /\ lastUp' = up[c]
        /\ UNCHANGED <<sent, up, rate, fell, calm>>
        /\ \A d \in Callers \ {c} : pc'[d] = pc[d]
    BY <1>0, <1>1 DEF StoreUp
  <2>2. Recovered' => Recovered
    BY <2>1 DEF Recovered
  <2>3. Alone' /\ NoRateYet'
    BY <2>1 DEF LoneInv, Alone, NoRateYet, Running
  <2>4. \A d \in Callers \ {c} : calm[d] => ~Running(d)
    BY <2>1 DEF LoneInv, Alone, Running
  <2>5. Recent'
    BY <2>1, <2>2 DEF LoneInv, Recent, HasReading
  <2>6. CalmReading' /\ CalmRate'
    BY <2>1, <2>2, <2>4 DEF LoneInv, CalmReading, CalmRate, HasReading, Running
  <2> QED
    BY <2>3, <2>5, <2>6 DEF LoneInv
<1>2. CASE StoreTS(c)
  <2>1. /\ pc[c] \in {"storeTS", "halfTS"} /\ pc'[c] \in {"halfTS", "done"}
        /\ UNCHANGED <<sent, lastUp, up, rate, fell, calm>>
        /\ \A d \in Callers \ {c} : pc'[d] = pc[d]
    BY <1>0, <1>2 DEF StoreTS
  <2>2. Alone' /\ NoRateYet'
    BY <2>1 DEF LoneInv, Alone, NoRateYet, Running
  <2>3. \A d \in Callers \ {c} : calm[d] => ~Running(d)
    BY <2>1 DEF LoneInv, Alone, Running
  <2>4. CalmReading'
    BY <2>1 DEF LoneInv, CalmReading, HasReading
  <2>5. CASE calm[c] /\ pc'[c] = "done"
    <3>1. \A d \in Callers : ~Running(d)'
      BY <2>1, <2>5 DEF LoneInv, Alone, Running
    <3>2. lastUp <= sent
      BY <2>1, <2>5 DEF LoneInv, CalmReading, HasReading
    <3>3. Recent'
      BY <2>1, <3>1, <3>2 DEF Recent, HasReading, Running
    <3>4. ~fell /\ calm[c] => rate[c] <= sent
      BY <2>1 DEF LoneInv, CalmRate, Recovered
    <3>5. CalmRate'
      BY <2>1, <3>1, <3>4 DEF LoneInv, CalmRate, Running
    <3> QED
      BY <2>2, <2>4, <3>3, <3>5 DEF LoneInv
  <2>6. CASE ~(calm[c] /\ pc'[c] = "done")
    <3>1. Recovered' => Recovered
      BY <2>1, <2>6 DEF Recovered
    <3>2. Recent' /\ CalmRate'
      BY <2>1, <2>6, <3>1 DEF LoneInv, Recent, CalmRate, HasReading
    <3> QED
      BY <2>2, <2>4, <3>2 DEF LoneInv
  <2> QED
    BY <2>5, <2>6
<1> QED
  BY <1>1, <1>2

(* The answer: a calm snapshot hands its recovery over to fell.             *)
LEMMA ReturnLone ==
  ASSUME TypeOK, LoneInv, NEW c \in Callers, Return(c)
  PROVE  LoneInv'
<1>1. /\ pc[c] \in {"done", "failed"} /\ pc'[c] = "idle" /\ rate'[c] = 0
      /\ UNCHANGED <<sent, lastUp>>
      /\ \A d \in Callers \ {c} : pc'[d] = pc[d] /\ up'[d] = up[d] /\ rate'[d] = rate[d]
      /\ \A d \in Callers : calm'[d] = (calm[d] /\ Running(d))
      /\ fell' = (fell /\ ~(calm[c] /\ pc[c] = "done"))
  BY DEF Return, Goto, host, TypeOK
<1>2. Recovered' => Recovered
  BY <1>1 DEF Recovered, Running
<1>3. \A d \in Callers : Running(d)' => Running(d) /\ d # c
  BY <1>1 DEF Running
<1>4. Alone' /\ NoRateYet'
  BY <1>1, <1>3 DEF LoneInv, Alone, NoRateYet
<1>5. Recent' /\ CalmReading'
  BY <1>1, <1>2 DEF LoneInv, Recent, CalmReading, HasReading
<1>6. CalmRate'
  BY <1>1, <1>2 DEF LoneInv, CalmRate, Running
<1> QED
  BY <1>4, <1>5, <1>6 DEF LoneInv

LEMMA LoneNext == TypeOK /\ LoneInv /\ [Next]_collectorVars => LoneInv'
<1> SUFFICES ASSUME TypeOK, LoneInv, [Next]_collectorVars PROVE LoneInv'
  OBVIOUS
<1>1. ASSUME NEW c \in Callers, Snapshot(c) PROVE LoneInv'
  BY <1>1, LocalLone, StoreLone, ReturnLone DEF Snapshot
<1>2. CASE UNCHANGED collectorVars
  BY <1>2 DEF collectorVars, LoneInv, Alone, Recovered, Recent, CalmReading, CalmRate,
     NoRateYet, HasReading, Running
<1> QED
  BY <1>1, <1>2, EnvironmentLone DEF Next

(* For any number of overlapping snapshots before it, any word and any       *)
(* restarts: a snapshot that ran alone reports no more than the interface   *)
(* has sent, unless the counter fell since the last such one (Snapshot).    *)
THEOREM OverlapsLeaveNoTrace == Spec => []LoneRateSane
<1>1. Init => TypeOK /\ LoneInv
  <2>1. ASSUME Init PROVE LoneInv
    BY <2>1 DEF Init, LoneInv, Alone, Recovered, Recent, CalmReading, CalmRate, NoRateYet,
       HasReading, Running
  <2> QED
    BY <2>1, TypeInit
<1>2. TypeOK /\ LoneInv /\ [Next]_collectorVars => (TypeOK /\ LoneInv)'
  BY TypeNext, LoneNext
<1>3. LoneInv => LoneRateSane
  BY DEF LoneInv, CalmRate, LoneRateSane
<1> QED
  BY <1>1, <1>2, <1>3, PTL DEF Spec
=============================================================================
