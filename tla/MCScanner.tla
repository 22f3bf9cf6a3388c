------------------------------ MODULE MCScanner ------------------------------
(* A small register map, and the units and configurations scanned on it. *)
EXTENDS Scanner, TLC

mcNamed == [input |-> {0, 1, 3}, holding |-> {0, 1, 3}, coil |-> {0, 1}, discrete |-> {0}]
mcTails == {2}
mcMissing == [input |-> {3}, holding |-> {}, coil |-> {}, discrete |-> {}]
mcUartOptional == {0}
mcAlarms == {3}
mcInfoBlock == <<0, 3>>
mcVersion == {0, 1}
mcNameBlock == <<0, 2>>
mcRawAddresses == {2, 3, 4}
mcBoundaries == {1}

AllWords == [input |-> 0 .. 4, holding |-> 0 .. 3]
Complete == [input |-> 0 .. 4, holding |-> 0 .. 3, coil |-> {0, 1}, discrete |-> {0}]
Lacks(kind, addresses) == [Complete EXCEPT ![kind] = @ \ addresses]

Unit(has, sane, full, deep, safe) ==
  {[has |-> has, sane |-> sane, full |-> full, deep |-> deep, safe |-> safe, uart |-> TRUE,
    speaks |-> "tcp", config |-> "tcp", caller |-> "setup"]}

\* Units that lack registers or hold invalid values, scanned at set-up.
ScanSetups ==
  Unit(Complete, AllWords, FALSE, TRUE, FALSE)
    \cup Unit(Lacks("input", {1}), AllWords, FALSE, FALSE, FALSE)
    \cup Unit(Lacks("input", {2, 3}), AllWords, FALSE, TRUE, FALSE)
    \cup Unit(Lacks("holding", {2}), [AllWords EXCEPT !.holding = {0, 3}], FALSE, FALSE, FALSE)
    \cup Unit(Lacks("holding", {0, 3}), AllWords, TRUE, FALSE, FALSE)
    \cup Unit(Complete, [AllWords EXCEPT !.holding = {0, 3}], FALSE, FALSE, FALSE)
    \cup Unit(Lacks("coil", {1}), AllWords, FALSE, FALSE, FALSE)
    \cup Unit(Lacks("input", {1}), AllWords, FALSE, FALSE, TRUE)
    \cup {[u EXCEPT !.uart = FALSE] : u \in Unit(Lacks("holding", {1}), AllWords, FALSE, FALSE, FALSE)}

\* The ways to a link, from the config flow and from set-up.
LinkSetups ==
  {[has |-> Complete, sane |-> AllWords, full |-> FALSE, deep |-> FALSE, safe |-> FALSE, uart |-> TRUE,
    speaks |-> s, config |-> c, caller |-> w] :
   s \in Modes, c \in Modes \cup {"auto"}, w \in {"flow", "setup"}}

AllSetups == ScanSetups \cup LinkSetups
==============================================================================
