---------------------------- MODULE RegisterView ----------------------------
(***************************************************************************)
(* What the integration promises about coordinator.data: the view of the   *)
(* registers that entities show.                                           *)
(*                                                                         *)
(* A register holds a modification count instead of a value: truth[r] is   *)
(* bumped whenever the device's register changes (a confirmed write, an    *)
(* unconfirmed one, somebody at the wall panel), so an older value is a    *)
(* smaller number.  A published value is one the register really had, no   *)
(* older than what was published before, and no older than any write the   *)
(* device has confirmed.                                                   *)
(***************************************************************************)
EXTENDS Integers

CONSTANTS Registers,   \* the registers the coordinator polls
          MaxVersion   \* bound on the modification counts

VARIABLES truth,    \* [Registers -> modification count in the device]
          acked,    \* [Registers -> newest modification the device confirmed]
          shown,    \* [Registers -> modification count last published]
          present   \* [Registers -> is the register a key of coordinator.data]

vars == <<truth, acked, shown, present>>

Version == 0..MaxVersion

\* Counts saturate: past MaxVersion two modifications are not told apart.
Bump(v) == IF v < MaxVersion THEN v + 1 ELSE v

TypeOK == /\ truth \in [Registers -> Version]
          /\ acked \in [Registers -> Version]
          /\ shown \in [Registers -> Version]
          /\ present \in [Registers -> BOOLEAN]

Init == /\ truth = [r \in Registers |-> 0]
        /\ acked = [r \in Registers |-> 0]
        /\ shown = [r \in Registers |-> 0]
        /\ present = [r \in Registers |-> FALSE]

\* The register changes and nobody is told.
Modify(r) == /\ truth' = [truth EXCEPT ![r] = Bump(@)]
             /\ UNCHANGED <<acked, shown, present>>

\* A write is applied and the device's answer reaches the writer.
Confirm(r) == /\ truth' = [truth EXCEPT ![r] = Bump(@)]
              /\ acked' = [acked EXCEPT ![r] = Bump(truth[r])]
              /\ UNCHANGED <<shown, present>>

\* One register is read back and published; the others keep their values.
Observe(r) == /\ shown' = [shown EXCEPT ![r] = truth[r]]
              /\ present' = [present EXCEPT ![r] = TRUE]
              /\ UNCHANGED <<truth, acked>>

\* A value that may be published for r.
Publishable(r, v) == /\ v >= shown[r]
                     /\ v >= acked[r]
                     /\ v <= truth[r]

\* A poll replaces the whole dictionary; what it could not read is absent.
Refresh == /\ shown' \in [Registers -> Version]
           /\ present' \in [Registers -> BOOLEAN]
           /\ \A r \in Registers : IF present'[r] THEN Publishable(r, shown'[r])
                                                  ELSE shown'[r] = shown[r]
           /\ UNCHANGED <<truth, acked>>

Next == \/ \E r \in Registers : Modify(r) \/ Confirm(r) \/ Observe(r)
        \/ Refresh

Spec == Init /\ [][Next]_vars
=============================================================================
