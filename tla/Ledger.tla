-------------------------------- MODULE Ledger --------------------------------
(***************************************************************************)
(* What traffic accounting promises, counter by counter: a byte that is     *)
(* carried may become pending, a pending byte may be billed once or lost,   *)
(* and nothing else is ever billed.                                        *)
(***************************************************************************)
EXTENDS Naturals

CONSTANT Counters

VARIABLES carried, pending, billed

ledger == <<carried, pending, billed>>

Init ==
  /\ carried = [n \in Counters |-> 0]
  /\ pending = [n \in Counters |-> 0]
  /\ billed = [n \in Counters |-> 0]

Carry(n) ==
  /\ carried' = [carried EXCEPT ![n] = @ + 1]
  /\ \/ pending' = [pending EXCEPT ![n] = @ + 1]
     \/ UNCHANGED pending
  /\ UNCHANGED billed

(* Some pending bytes are billed, some are lost.                           *)
Settle ==
  /\ pending' \in [Counters -> Nat] /\ billed' \in [Counters -> Nat]
  /\ \A n \in Counters :
       /\ billed[n] <= billed'[n]
       /\ billed'[n] + pending'[n] <= billed[n] + pending[n]
  /\ UNCHANGED carried

Next == Settle \/ \E n \in Counters : Carry(n)

Spec == Init /\ [][Next]_ledger
=============================================================================
