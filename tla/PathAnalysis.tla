---------------------------- MODULE PathAnalysis ----------------------------
(***************************************************************************)
(* The graph drawn from the outputs of several devices:                    *)
(* analyzeNetworkPath of src/domain/topology.ts.                           *)
(*                                                                         *)
(* A snapshot is the device it is of, the type of its output, and what the *)
(* expressions of that type find in it, in order: the neighbours of the    *)
(* detailed and of the brief form, the destination and next hop of a       *)
(* route, or the hops of a trace.  The snapshots of a request are read     *)
(* one after the other into one graph.                                     *)
(***************************************************************************)
EXTENDS Naturals, Sequences, FiniteSets, Functions

CONSTANTS
    Snapshots,      \* records [device, type, found, brief]
    Destinations,   \* the destinations a request may name, or NoName
    NoName,
    Silent,         \* a hop that did not answer
    Same(_, _),     \* sameIdentity
    MaxSnapshots    \* bound on the snapshots of a request

Types == {"cdp", "lldp", "route", "traceroute"}

PathAssumption ==
    /\ MaxSnapshots \in Nat /\ NoName \notin Types
    /\ \A s \in Snapshots : s.type = "traceroute" => s.found \in Seq(Range(s.found))

VARIABLES
    destination,   \* of the request, NoName if it names none
    nodes, edges,
    paths,         \* one of each trace: [hops, complete, destination]
    faultDomain,   \* probable_fault_domain, NoName if there is none
    diagnostics    \* parse_diagnostics: the status of each snapshot

pathVars == <<destination, nodes, edges, paths, faultDomain, diagnostics>>

\* A node is its kind and label (both make its id), an edge its ends, protocol
\* and local interface (likewise): what is found again is not added again.
Node(kind, label) == [kind |-> kind, label |-> label]
Link(source, target, protocol, interface) ==
    [source |-> source, target |-> target, protocol |-> protocol, interface |-> interface]

PathInit ==
    /\ destination \in Destinations
    /\ nodes = {} /\ edges = {} /\ paths = {}
    /\ faultDomain = NoName
    /\ diagnostics = <<>>

Nothing == [nodes |-> {}, edges |-> {}, parsed |-> FALSE, warned |-> FALSE]

-----------------------------------------------------------------------------
(* Neighbours.                                                              *)

Others(s, records) == {r \in Range(records) : ~Same(s.device, r.remote)}

Neighbours(s, records) ==
    [nodes |-> {Node("device", r.remote) : r \in Others(s, records)},
     edges |-> {Link(Node("device", s.device), Node("device", r.remote), s.type, r.port) :
                  r \in Others(s, records)},
     parsed |-> Others(s, records) # {},
     warned |-> \E r \in Range(records) : Same(s.device, r.remote)]

\* The brief form is tried where the detailed one gave nothing but the device
\* itself; LLDP has no brief form.
ParseCdp(s) ==
    LET detailed == Neighbours(s, s.found)
        brief == Neighbours(s, s.brief)
    IN IF detailed.parsed THEN detailed
       ELSE [brief EXCEPT !.warned = @ \/ detailed.warned]

ParseLldp(s) == Neighbours(s, s.found)

-----------------------------------------------------------------------------
(* Routes.                                                                  *)

\* found: <<network, next hop or NoName>>, or nothing.
ParseRoutes(s) ==
    LET device == Node("device", s.device)
        network == Node("network", s.found[1])
        hop == Node("hop", s.found[2])
    IN IF s.found = <<>> THEN Nothing
       ELSE IF s.found[2] # NoName
       THEN [nodes |-> {network, hop}, parsed |-> TRUE, warned |-> FALSE,
             edges |-> {Link(device, hop, "route", NoName), Link(hop, network, "route", NoName)}]
       ELSE [nodes |-> {network}, parsed |-> s.brief # <<>>, warned |-> FALSE,
             edges |-> IF s.brief # <<>> THEN {Link(device, network, "route", s.brief[1])}
                                         ELSE {}]

-----------------------------------------------------------------------------
(* Traces.                                                                  *)

\* A hop that does not answer is a node of its number.
HopNode(s, n) ==
    IF s.found[n] = Silent THEN Node("unknown", n) ELSE Node("hop", s.found[n])

Hops(s) == [n \in 1..(Len(s.found) + 1) |->
               IF n = 1 THEN Node("device", s.device) ELSE HopNode(s, n - 1)]

\* Mutant: only the last hop is looked at.
IncompleteAtTheEnd(s) == s.found # <<>> /\ s.found[Len(s.found)] = Silent

Incomplete(s) == Silent \in Range(s.found)

ParseTraceroute(s) ==
    [nodes |-> Range(Hops(s)),
     edges |-> {Link(Hops(s)[n], Hops(s)[n + 1], "traceroute", NoName) :
                  n \in 1..Len(s.found)},
     parsed |-> s.found # <<>>, warned |-> FALSE]

LastHop(s) == Hops(s)[Len(s.found) + 1]

\* The destination asked for is the last hop, by its label or its address (one
\* and the same in the model).
Path(s) ==
    [hops |-> Hops(s),
     destination |-> IF destination # NoName THEN destination ELSE LastHop(s).label,
     complete |-> /\ ~Incomplete(s)
                  /\ destination = NoName \/ Same(LastHop(s).label, destination)]

\* The node before the last of an incomplete trace, if it answered.
Suspect(s) ==
    LET preceding == Hops(s)[Len(s.found)]
    IN IF Incomplete(s) /\ preceding.kind # "unknown" THEN preceding.label ELSE faultDomain

-----------------------------------------------------------------------------

Parse(s) ==
    CASE s.type = "cdp" -> ParseCdp(s)
      [] s.type = "lldp" -> ParseLldp(s)
      [] s.type = "route" -> ParseRoutes(s)
      [] s.type = "traceroute" -> ParseTraceroute(s)
      [] OTHER -> Nothing

\* A snapshot whose type nobody recognises adds nothing, any other the device
\* it is of.
AnalyzeSnapshot(s) ==
    LET parse == Parse(s)
        traced == s.type = "traceroute" /\ s.found # <<>>
    IN /\ Len(diagnostics) < MaxSnapshots
       /\ nodes' = nodes \cup parse.nodes
                   \cup (IF s.type = NoName THEN {} ELSE {Node("device", s.device)})
       /\ edges' = edges \cup parse.edges
       /\ paths' = IF traced THEN paths \cup {Path(s)} ELSE paths
       /\ faultDomain' = IF traced THEN Suspect(s) ELSE faultDomain
       /\ diagnostics' = Append(diagnostics,
              IF ~parse.parsed THEN "unparsed"
              ELSE IF parse.warned THEN "partial" ELSE "parsed")
       /\ UNCHANGED destination

PathNext == \E s \in Snapshots : AnalyzeSnapshot(s)

PathSpec == PathInit /\ [][PathNext]_pathVars
-----------------------------------------------------------------------------
(* Properties.                                                              *)

Kinds == {"device", "hop", "network", "unknown"}
PathTypeOK ==
    /\ \A n \in nodes : n.kind \in Kinds
    /\ \A e \in edges : e.source \in nodes /\ e.target \in nodes
    /\ diagnostics \in Seq({"parsed", "partial", "unparsed"})

\* A path called complete is one the graph shows from end to end: each hop
\* answered, is linked to the next by the trace and the last is the one asked
\* for; and no device is drawn as its own neighbour.
CompletePathsAreDrawn ==
    /\ \A p \in paths :
          p.complete =>
            /\ \A n \in DOMAIN p.hops : p.hops[n] \in nodes /\ p.hops[n].kind # "unknown"
            /\ \A n \in 1..(Len(p.hops) - 1) :
                  Link(p.hops[n], p.hops[n + 1], "traceroute", NoName) \in edges
            /\ destination # NoName => Same(p.hops[Len(p.hops)].label, destination)
    /\ \A e \in edges : e.protocol \in {"cdp", "lldp"} => ~Same(e.source.label, e.target.label)
=============================================================================
