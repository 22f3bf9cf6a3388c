------------------------------ MODULE MCEntries ------------------------------
(***************************************************************************)
(* Two units at two hosts.                                                 *)
(***************************************************************************)
EXTENDS Entries, TLC

CONSTANTS u1, u2, h1, h2

mcFold == [h \in {h1, h2} |-> h]
mcHome == (u1 :> h1) @@ (u2 :> h2)
==============================================================================
