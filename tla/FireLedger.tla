----------------------------- MODULE FireLedger -----------------------------
(***************************************************************************)
(* What the claim protocol of scheduler/store.py promises about every fire *)
(* (a task and the instant it was scheduled for), with no workers, clocks  *)
(* or messages in sight: a fire is open, then owned, then done.  Ownership *)
(* moves only when the lease of the last owner has run out, and a fire     *)
(* that is done is never owned again.                                      *)
(***************************************************************************)
EXTENDS Integers

CONSTANTS Fire,    \* the fires: <<task, scheduled instant>> pairs
          Lease    \* how long an owner is left alone

VARIABLES now,     \* the wall clock
          fire,    \* fire -> "open", "owned" or "done"
          since    \* fire -> the instant its last owner read when it claimed

ledgerVars == <<now, fire, since>>

Init ==
    /\ now = 0
    /\ fire = [f \in Fire |-> "open"]
    /\ since = [f \in Fire |-> 0]

\* A claim is dated by the clock its owner read, which may lag behind.
Own(f) ==
    /\ \/ fire[f] = "open"
          /\ since' \in {[since EXCEPT ![f] = n] : n \in 0..now}
       \/ fire[f] = "owned"
          /\ since' \in {[since EXCEPT ![f] = n] : n \in {m \in 0..now : since[f] + Lease < m}}
    /\ fire' = [fire EXCEPT ![f] = "owned"]
    /\ UNCHANGED now

Close(f) ==
    /\ fire[f] = "owned"
    /\ fire' = [fire EXCEPT ![f] = "done"]
    /\ UNCHANGED <<now, since>>

Advance ==
    /\ now' = now + 1
    /\ UNCHANGED <<fire, since>>

Next == Advance \/ \E f \in Fire : Own(f) \/ Close(f)

Spec == Init /\ [][Next]_ledgerVars
=============================================================================
