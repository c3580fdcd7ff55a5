------------------------------ MODULE MCTailcat ------------------------------
(* Two clients, one with an embedded region and one that needs the DERP map; *)
(* two processes that share a cache of DERP maps.                            *)
EXTENDS TailcatDERP

CONSTANTS c1, c2

MCClients == {c1, c2}

Node(h, stun) == [name |-> h, host |-> h, region |-> 7, stunOnly |-> stun]
MCRegion == [id |-> 7, code |-> 7,
             nodes |-> <<Node("h1", TRUE), Node("h2", FALSE), Node("h3", FALSE)>>]
MCDERPMap == [i \in {7} |-> MCRegion]

\* The server's own token embeds its region; a short one names it.
MCTokens ==
  [c \in MCClients |->
     IF c = c1 THEN ConnBlob([server |-> "k", id |-> 0, regions |-> <<MCRegion>>])
     ELSE [server |-> "k", id |-> 7, regions |-> <<>>]]

MCAllowedClients == {{}}
MCDests == {[host |-> "self", port |-> 1], [host |-> "v4", port |-> 1]}
MCServedPorts == {1}
MCEndpoints == {"e1", "e2"}
MCBrowsers == {c2}
=============================================================================
