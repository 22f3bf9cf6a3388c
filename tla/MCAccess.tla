------------------------------ MODULE MCAccess ------------------------------
(***************************************************************************)
(* Instances of DeviceAccess for TLC: which background tasks there are, and *)
(* the writers, which the specification treats alike.                      *)
(***************************************************************************)
EXTENDS DeviceAccess, TLC

NoTasks == {}
JustScan == {Scan}
JustStop == {Stop}
ScanAndStop == {Scan, Stop}

\* Writers are compared for equality only.
WriterSymmetry == Permutations(Writers)
=============================================================================
