--------------------------- MODULE MCMasqueServer ---------------------------
(* An instance of MasqueServe for TLC.  Ports 0 to 4 stand for 0 to 65535   *)
(* and port 2 for 22; a list has at most two entries, each a range (upside  *)
(* down, at either end, of one port) or a service.                          *)
EXTENDS MasqueServe

P(a, b) == Item("range", a, b)
MCItems == {P(0, 0), P(1, 1), P(3, 1), P(3, 4)}
           \cup {Service(s) : s \in {"all", "files", "no-auth-ssh", "exit-node"}}
MCSpecs == {{}} \cup {{i, j} : i, j \in MCItems}

D(n, h, p) == [net |-> n, host |-> h, port |-> p]
MCDests == {D("self", "", p) : p \in 0 .. MaxPort} \cup {D("v4", "h", 2), D("v6", "h", 3), D("nat64", "h", 1)}
=============================================================================
