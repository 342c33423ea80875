------------------------------- MODULE MCParts -------------------------------
(***************************************************************************)
(* Small instances of the inputs of the parts MCServices puts together.    *)
(***************************************************************************)
EXTENDS Naturals, Sequences, TLC

CONSTANTS
    nothing,                                      \* None of these parts
    vendor1, vendor2, model1, model2, family1, family2, arch,
    part1, part2, key1, key2,
    hop1, hop2, hop3, silent

-----------------------------------------------------------------------------
(* KnowledgeSearch: two models of one vendor, one with a known architecture; *)
(* a portable family and one that inherits from it and has branches.         *)

MCVendorOf == (model1 :> vendor1) @@ (model2 :> vendor1)
MCArchitectureOf == (model1 :> arch) @@ (model2 :> nothing)
MCSystems == {<<vendor1, family1>>, <<vendor1, family2>>, <<vendor2, family1>>}
MCParents == (family1 :> {}) @@ (family2 :> {family1})
MCVendorFamily == (vendor1 :> nothing) @@ (vendor2 :> nothing)
MCBranchOf == [v \in 0..3 |-> v \div 2]

Candidate(vendor, platform, family, scope, versions, min, max, risk, key) ==
    [vendor |-> vendor, platform |-> platform, family |-> family, scope |-> scope,
     architecture |-> IF scope = "architecture" THEN arch ELSE nothing,
     versions |-> versions, min |-> min, max |-> max, risk |-> risk, key |-> key,
     text |-> 60, parts |-> {part1, part2}]

MCCandidates ==
    {Candidate(vendor1, p, family2, nothing, nothing, b[1], b[2], "dangerous", key1) :
        p \in {nothing, model2}, b \in {<<nothing, nothing>>, <<1, 1>>, <<2, 3>>}}
    \cup {[Candidate(vendor1, model1, family2, "architecture", v, 1, 2, r, key1) EXCEPT
              !.text = t, !.parts = {part1}] :
            v \in {"branch", "exact"}, r \in {"flagged", "dangerous"}, t \in {10, 60}}
    \cup {[Candidate(v, nothing, family1, s, "range", 1, nothing, "read_only", key2) EXCEPT
              !.parts = {part2}] :
            v \in {vendor1, vendor2}, s \in {nothing, "os_family"}}

Context(vendor, sure, model, system, sureSystem, version) ==
    [vendor |-> vendor, sureVendor |-> sure, model |-> model, system |-> system,
     sureSystem |-> sureSystem, version |-> version]

MCRequests == {Context(vendor1, TRUE, model1, family2, TRUE, v) : v \in {nothing, 1}}
              \cup {Context(vendor2, TRUE, nothing, family1, TRUE, 1),
                    Context(vendor2, FALSE, model1, family1, TRUE, 2)}

MCExclusions ==
    {[candidate |-> Candidate(vendor1, model1, family2, nothing, nothing, 2, 3, "dangerous", key1),
      vendor |-> nothing, platform |-> model1, min |-> 2, max |-> nothing]}

-----------------------------------------------------------------------------
(* EvidenceExtraction: a text that is cut in two fragments, the second too   *)
(* large for one, and one whose first fragment is a table of contents.       *)

Block(kind, text, size) == [kind |-> kind, text |-> text, size |-> size]
MCTexts ==
    {<<Block("command", "a", 3), Block("heading", "h", 1), Block("legal", "l", 4),
       Block("prose", "b", 8)>>,
     <<Block("contents", "t", 2), Block("prose", "b", 8)>>}

Claim(command, procedures, level, dangerous) ==
    [command |-> command, procedure |-> procedures, level |-> level,
     dangerous |-> dangerous, evidence |-> "claimed"]
ReadClaim == Claim(nothing, {"safe_read_only"}, nothing, FALSE)

MCAnswers ==
    [candidates :
        {<<>>,
         <<[fragment |-> 1,
            candidate |-> Claim("service_disruptive", {}, "safe_read_only", FALSE)],
           [fragment |-> 2, candidate |-> nothing]>>,
         <<[fragment |-> 0, candidate |-> ReadClaim],
           [fragment |-> 2, candidate |-> ReadClaim]>>},
     rejected : {{}, {2}},
     dispositions :
        {<<>>,
         <<[fragment |-> 1, disposition |-> "continuation_required"]>>,
         <<[fragment |-> 1, disposition |-> "targeted_retry"],
           [fragment |-> 0, disposition |-> "non_knowledge"]>>}]

Repair(changes, clear, fits) == [changes |-> changes, clear |-> clear, fits |-> fits]
Decision(index, decision, repair) ==
    [index |-> index, decision |-> decision, repair |-> repair]

MCReviews ==
    {<<Decision(2, "rejected", nothing), Decision(3, "verified", nothing),
       Decision(2, "verified", nothing)>>,
     <<Decision(1, "unresolved", nothing),
       Decision(2, "verified", Repair([command |-> "firmware_change",
           level |-> "safe_read_only", dangerous |-> FALSE, evidence |-> "other"], {}, TRUE))>>,
     <<Decision(1, "verified", Repair([dangerous |-> FALSE], {"command"}, TRUE)),
       Decision(2, "verified", Repair([dangerous |-> FALSE], {}, FALSE))>>}

MCExtractions ==
    {[handled |-> {1},
      candidates |->
         <<[fragment |-> 2, candidate |-> ReadClaim, ready |-> TRUE, valid |-> TRUE],
           [fragment |-> 1, candidate |-> Claim("boot_change", {}, nothing, FALSE),
            ready |-> FALSE, valid |-> FALSE]>>],
     [handled |-> {2},
      candidates |->
         <<[fragment |-> 2, candidate |-> Claim("boot_change", {}, nothing, FALSE),
            ready |-> FALSE, valid |-> TRUE]>>]}

-----------------------------------------------------------------------------
(* ChangeReview: lines of one rule, of several and of none.                  *)

MCLines ==
    {{}, {"logging_change", "read_only_operation"}, {"static_route_change"},
     {"device_reload", "interface_state_change"},
     {"interface_state_change", "interface_description_change"}}

Output(marks, text, secret) == [marks |-> marks, text |-> text, secret |-> secret]
MCOutputs ==
    {Output({}, "some", FALSE), Output({"interface_state", "routing_state"}, "some", FALSE),
     Output({}, "some", TRUE), Output({"critical"}, "some", FALSE), Output({}, "none", FALSE)}

-----------------------------------------------------------------------------
(* PathAnalysis: neighbours of both protocols that name the device itself,   *)
(* routes with and without a next hop, traces with and without an answer.    *)

MCSame(a, b) == a = b
Neighbour(remote) == [remote |-> remote, port |-> "port"]
Snapshot(device, type, found, brief) ==
    [device |-> device, type |-> type, found |-> found, brief |-> brief]

MCSnapshots ==
    {Snapshot(hop1, "cdp", <<Neighbour(hop1)>>, <<Neighbour(hop2), Neighbour(hop1)>>),
     Snapshot(hop2, "lldp", <<Neighbour(hop1), Neighbour(hop3)>>, <<>>),
     Snapshot(hop1, "route", <<hop3, hop2>>, <<>>),
     Snapshot(hop1, "route", <<hop3, nothing>>, <<"port">>),
     Snapshot(hop1, "route", <<>>, <<>>),
     Snapshot(hop1, nothing, <<>>, <<>>),
     Snapshot(hop1, "traceroute", <<hop2, hop3>>, <<>>),
     Snapshot(hop1, "traceroute", <<hop2, silent, hop3>>, <<>>),
     Snapshot(hop2, "traceroute", <<silent, silent>>, <<>>)}

-----------------------------------------------------------------------------
(* IntakeUploads: a document, a field log, one too large and one that is not *)
(* of the type it claims.                                                     *)

Upload(kind, size, fits) == [kind |-> kind, size |-> size, fits |-> fits]
MCDocuments ==
    {Upload("admin_document", 1, TRUE), Upload("field_log", 1, TRUE),
     Upload("admin_document", 2, TRUE), Upload("admin_document", 1, FALSE)}
MCLimit == [kind \in {"admin_document", "field_log"} |-> 1]

-----------------------------------------------------------------------------
(* ModelSettings: a report with the second model, and a runtime that does not *)
(* fit.                                                                        *)

MCReports ==
    {[models |-> {model2}, error |-> FALSE, fit |-> TRUE],
     [models |-> {}, error |-> TRUE, fit |-> FALSE]}
=============================================================================
