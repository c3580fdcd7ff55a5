---------------------------- MODULE TailcatToken ----------------------------
(***************************************************************************)
(* The connection tokens of the DERP transport (tailcat.go, wire.go) as    *)
(* pure operators: what ConnBlob leaves out, what ParseConnBlob restores,  *)
(* and how Expand and Resolve fill in the DERP region of a short token.    *)
(* A region is [id, code, nodes], a node [name, host, region, stunOnly],   *)
(* connection info [server, id, regions]; 0 and NoName are Go's zero       *)
(* values, and a code is the ID that it spells.                            *)
(***************************************************************************)
EXTENDS Naturals, Sequences

NoName == ""
DERPNode == [name : STRING, host : STRING, region : Nat, stunOnly : BOOLEAN]

\* wireRegionOf drops the nodes that cannot relay; ConnBlob drops what
\* ParseConnBlob can restore.
WireNode(n) == [n EXCEPT !.region = 0, !.name = IF n.host # NoName THEN NoName ELSE @]
RelayNodes(r) ==
  LET kept[i \in 0..Len(r.nodes)] ==
        IF i = 0 THEN <<>>
        ELSE IF r.nodes[i].stunOnly THEN kept[i - 1] ELSE Append(kept[i - 1], r.nodes[i])
  IN  kept[Len(r.nodes)]
WireRegion(r) ==
  [id |-> 0, code |-> 0,
   nodes |-> [i \in DOMAIN RelayNodes(r) |-> WireNode(RelayNodes(r)[i])]]

ConnBlob(ci) ==
  [ci EXCEPT !.regions = [i \in DOMAIN @ |-> WireRegion(@[i])]]

\* ParseConnBlob numbers the regions and names the nodes after their hosts.
ParsedNode(n, id) ==
  [n EXCEPT !.name = IF @ = NoName THEN n.host ELSE @,
            !.region = IF @ = 0 THEN id ELSE @]
ParsedRegion(r, i) ==
  LET id == IF r.id = 0 THEN i ELSE r.id IN
  [id |-> id, code |-> IF r.code = 0 THEN id ELSE r.code,
   nodes |-> [k \in DOMAIN r.nodes |-> ParsedNode(r.nodes[k], id)]]

ParseConnBlob(b) ==
  [b EXCEPT !.regions = [i \in DOMAIN @ |-> ParsedRegion(@[i], i)]]

\* Expand needs the DERP map dm, a function from region IDs to regions.
NeedsMap(ci) == ci.regions = <<>> /\ ci.id # 0
Expand(ci, dm) ==
  IF NeedsMap(ci) THEN [ci EXCEPT !.regions = <<dm[ci.id]>>] ELSE ci

\* Resolve: the equivalent token that embeds its region, with two nodes.
Shortened(r) == [r EXCEPT !.nodes = SubSeq(@, 1, IF Len(@) < 2 THEN Len(@) ELSE 2)]
Resolve(b, dm) ==
  LET ci == Expand(ParseConnBlob(b), dm) IN
  IF b.regions # <<>> THEN b
  ELSE ConnBlob([server |-> ci.server, id |-> 0,
                 regions |-> [i \in DOMAIN ci.regions |-> Shortened(ci.regions[i])]])
=============================================================================
