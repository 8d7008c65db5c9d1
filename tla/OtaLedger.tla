----------------------------- MODULE OtaLedger -----------------------------
(***************************************************************************)
(* What the ota_events table promises to whoever reads it (GET /api/ota,   *)
(* the console), without boards, messages or database sessions: a rollout  *)
(* is entered once and as a whole, an event is changed by one hand at a    *)
(* time, and a cancellation takes every event of a rollout that is still   *)
(* in flight and no other.  OtaPipeline implements it.                     *)
(***************************************************************************)
CONSTANTS
    Devices,
    Rollouts,
    Nobody      \* the hand is empty

VARIABLES
    ledger,     \* status of the event of each rollout and device
    hand        \* the event somebody has read and is about to write

vars == <<ledger, hand>>

Open == {"pending", "downloading", "flashing"}
Verdicts == {"downloading", "flashing", "success", "failed"}

Init ==
    /\ ledger = [r \in Rollouts |-> [d \in Devices |-> "none"]]
    /\ hand = Nobody

\* A rollout is entered, for some of the devices, in one piece.
Enter(r) ==
    /\ \A d \in Devices : ledger[r][d] = "none"
    /\ \E chosen \in SUBSET Devices :
         ledger' = [ledger EXCEPT ![r] =
             [d \in Devices |-> IF d \in chosen THEN "pending" ELSE "none"]]
    /\ UNCHANGED hand

\* Rollouts are cancelled, as far as their events are open.
Cancel ==
    /\ \E cancelled \in SUBSET Rollouts :
         ledger' = [r \in Rollouts |-> [d \in Devices |->
             IF r \in cancelled /\ ledger[r][d] \in Open
               THEN "cancelled" ELSE ledger[r][d]]]
    /\ UNCHANGED hand

\* An open event is taken up ...
TakeUp(r, d) ==
    /\ hand = Nobody
    /\ ledger[r][d] \in Open
    /\ hand' = <<r, d>>
    /\ UNCHANGED ledger

\* ... and written, unless it was settled by a verdict meanwhile, ...
Write(r, d) ==
    /\ hand = <<r, d>>
    /\ ledger[r][d] \in Open \cup {"cancelled"}
    /\ \E verdict \in Verdicts : ledger' = [ledger EXCEPT ![r][d] = verdict]
    /\ hand' = Nobody

\* ... or left as it is.
LetGo ==
    /\ hand # Nobody
    /\ hand' = Nobody
    /\ UNCHANGED ledger

Next ==
    \/ \E r \in Rollouts : Enter(r)
    \/ Cancel
    \/ \E r \in Rollouts, d \in Devices : TakeUp(r, d) \/ Write(r, d)
    \/ LetGo

Spec == Init /\ [][Next]_vars
=============================================================================
