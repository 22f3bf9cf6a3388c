------------------------------- MODULE MCLinks -------------------------------
(***************************************************************************)
(* Every installation the configuration admits, with and without bits, on  *)
(* the default port and on another one.                                    *)
(***************************************************************************)
EXTENDS Links

mcSites == {x \in SiteType : x.mode = "rtu" <=> x.speaks = "rtu"}
=============================================================================
