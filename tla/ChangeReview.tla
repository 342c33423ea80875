---------------------------- MODULE ChangeReview ----------------------------
(***************************************************************************)
(* The review of a proposed network change and the verification of its     *)
(* result: src/domain/change.ts, with the redaction of src/domain/         *)
(* snapshot.ts it applies to the outputs a client sends.                    *)
(*                                                                         *)
(* A line of a change is the set of rules whose pattern it matches, an     *)
(* output of the device the markers the checks look for, the text of its   *)
(* own and the secret in it.  A review stores its checks under a handle    *)
(* for half an hour; a client verifies with the handle as often as it      *)
(* likes, with any pair of outputs.                                        *)
(***************************************************************************)
EXTENDS Sequences, FiniteSets, Functions

CONSTANTS
    Handles,      \* the handles of reviews
    Lines,       \* the lines a change may have: sets of rules
    MaxLines,    \* bound on the lines of a change
    Outputs,     \* records [marks, text, secret]
    Empty        \* the text of an output without any

\* The rules in the order they are tried, the ones that destroy first.
DestructiveRules == <<"erase_startup_configuration", "format_device_storage",
    "zeroize_crypto_keys", "disable_aaa", "factory_reset", "device_reload">>
HighRules == <<"interface_state_change", "routing_process_change", "static_route_change",
    "acl_change", "spanning_tree_change", "vlan_change", "software_install",
    "boot_variable_change">>
MediumRules == <<"interface_description_change", "logging_change", "ntp_change",
    "snmp_change">>

Rules == Range(DestructiveRules) \cup Range(HighRules) \cup Range(MediumRules)
         \cup {"read_only_operation", "configuration_context"}

ReviewAssumption ==
    /\ Handles # {} /\ Outputs # {}
    /\ Lines \subseteq SUBSET Rules
    /\ Outputs \subseteq [marks : {o.marks : o \in Outputs}, text : {o.text : o \in Outputs},
                          secret : BOOLEAN]

VARIABLES
    session,   \* session[t]: a row of verification_sessions
    answer     \* the last answer of a verification

reviewVars == <<session, answer>>

Checks == {"no_critical_errors", "output_changed", "interface_state", "routing_state",
           "acl_state"}
Results == {"none", "failed", "passed", "partial", "indeterminate", "expired", "invalid"}

NoReview == [lines |-> {}, checks |-> {}, risk |-> "low"]
Session == [status : {"absent", "open", "expired"},
            review : [lines : SUBSET Lines, checks : SUBSET Checks,
                      risk : {"low", "medium", "high"}]]
Verification == [token : Handles, before : Outputs, after : Outputs, result : Results]

ReviewInit ==
    /\ session = [t \in Handles |-> [status |-> "absent", review |-> NoReview]]
    /\ answer = [token |-> CHOOSE t \in Handles : TRUE, result |-> "none",
                 before |-> CHOOSE o \in Outputs : TRUE,
                 after |-> CHOOSE o \in Outputs : TRUE]

-----------------------------------------------------------------------------
(* The review.                                                              *)

First(rules, line) ==
    {rules[n] : n \in {n \in DOMAIN rules :
        rules[n] \in line /\ \A k \in 1..(n - 1) : rules[k] \notin line}}

Destructive(line) == line \cap Range(DestructiveRules) # {}
High(line) == ~Destructive(line) /\ line \cap Range(HighRules) # {}
Medium(line) == ~Destructive(line) /\ ~High(line) /\ line \cap Range(MediumRules) # {}
KnownLine(line) == Destructive(line) \/ High(line) \/ Medium(line)
ReadOnly(line) == ~KnownLine(line) /\ "read_only_operation" \in line
ContextLine(line) == ~KnownLine(line) /\ ~ReadOnly(line) /\ "configuration_context" \in line
Unknown(line) == ~KnownLine(line) /\ ~ReadOnly(line) /\ ~ContextLine(line)

\* The rule a line is reviewed by: one, or none if it is not recognised.
RuleOf(line) ==
    IF Destructive(line) THEN First(DestructiveRules, line)
    ELSE IF High(line) THEN First(HighRules, line)
    ELSE IF Medium(line) THEN First(MediumRules, line)
    ELSE IF ReadOnly(line) THEN {"read_only_operation"}
    ELSE IF ContextLine(line) THEN {"configuration_context"} ELSE {}

Writes(lines) == {l \in lines : ~ReadOnly(l)}

Risk(lines) ==
    IF \E l \in lines : Destructive(l) \/ High(l) \/ Unknown(l) THEN "high"
    ELSE IF Writes(lines) # {} THEN "medium" ELSE "low"

\* A line that is not recognised adds no rule, and so no check.
VerificationChecksForRules(rules) ==
    {"no_critical_errors"}
    \cup (IF rules \ {"read_only_operation"} # {} THEN {"output_changed"} ELSE {})
    \cup (IF "interface_state_change" \in rules THEN {"interface_state"} ELSE {})
    \cup (IF rules \cap {"routing_process_change", "static_route_change"} # {}
          THEN {"routing_state"} ELSE {})
    \cup (IF "acl_change" \in rules THEN {"acl_state"} ELSE {})

BuildNetworkChangeReview(lines) ==
    [lines |-> lines, risk |-> Risk(lines),
     checks |-> VerificationChecksForRules(UNION {RuleOf(l) : l \in lines})]

ReviewNetworkChange(t, lines) ==
    /\ session[t].status = "absent"
    /\ session' = [session EXCEPT
          ![t] = [status |-> "open", review |-> BuildNetworkChangeReview(lines)]]
    /\ UNCHANGED answer

\* Half an hour passes; a maintenance pass deletes the row a day later, and its
\* handle stands for a new one from then on.
ExpireReview(t) ==
    /\ session[t].status = "open"
    /\ session' = [session EXCEPT ![t].status = "expired"]
    /\ UNCHANGED answer

CleanupExpiredData(t) ==
    /\ session[t].status = "expired"
    /\ session' = [session EXCEPT ![t].status = "absent", ![t].review = NoReview]
    /\ UNCHANGED answer

-----------------------------------------------------------------------------
(* The verification.                                                        *)

\* sanitizeSnapshot, profile secrets_only: two outputs that differ in a secret
\* only are the same afterwards.
SanitizeSnapshot(output) == [output EXCEPT !.secret = FALSE]

CheckStatus(check, before, after) ==
    IF check = "no_critical_errors"
    THEN IF "critical" \in after.marks THEN "failed" ELSE "passed"
    ELSE IF after.text = Empty THEN "indeterminate"
    ELSE IF check = "output_changed"
    THEN IF before # after THEN "passed" ELSE "failed"
    ELSE IF check \in after.marks THEN "passed" ELSE "indeterminate"

\* Mutant: one check that passed is enough.
VerdictIfAnyPassed(statuses) ==
    IF "failed" \in statuses THEN "failed"
    ELSE IF "passed" \in statuses THEN "passed" ELSE "indeterminate"

Verdict(statuses) ==
    IF "failed" \in statuses THEN "failed"
    ELSE IF "indeterminate" \notin statuses THEN "passed"
    ELSE IF "passed" \in statuses THEN "partial" ELSE "indeterminate"

\* An UPDATE takes the checks of an open session; where it finds none, whether
\* the handle has expired or was never given is asked separately.
LoadVerificationPayload(t) ==
    CASE session[t].status = "open" -> "open"
      [] session[t].status = "expired" -> "expired"
      [] OTHER -> "invalid"

VerifyNetworkChange(t, before, after) ==
    LET loaded == LoadVerificationPayload(t)
        b == SanitizeSnapshot(before)
        a == SanitizeSnapshot(after)
        statuses == {CheckStatus(c, b, a) : c \in session[t].review.checks}
    IN /\ answer' = [token |-> t, before |-> before, after |-> after,
                     result |-> IF loaded = "open" THEN Verdict(statuses) ELSE loaded]
       /\ UNCHANGED session

-----------------------------------------------------------------------------

\* Comments and blank lines are dropped, so a change may have no line at all.
NormalizedChangeLines == {lines \in SUBSET Lines : Cardinality(lines) <= MaxLines}

ReviewNext ==
    \E t \in Handles :
        \/ \E lines \in NormalizedChangeLines : ReviewNetworkChange(t, lines)
        \/ ExpireReview(t)
        \/ CleanupExpiredData(t)
        \/ \E before, after \in Outputs : VerifyNetworkChange(t, before, after)

ReviewSpec == ReviewInit /\ [][ReviewNext]_reviewVars
-----------------------------------------------------------------------------
(* Properties.                                                              *)

ReviewTypeOK ==
    /\ session \in [Handles -> Session]
    /\ answer \in Verification

\* A client is told that its change passed only if the outputs show it: no
\* critical error, an output that has changed beyond its secrets if any
\* recognised line writes, and the state each recognised line is about.  (The
\* review of a line that is not recognised asks for nothing more than the first.)
PassedIsShown ==
    [][LET rules == UNION {RuleOf(l) : l \in session[answer'.token].review.lines}
           shown(check) == check \in answer'.after.marks
       IN answer' # answer /\ answer'.result = "passed" =>
            /\ "critical" \notin answer'.after.marks
            /\ rules \ {"read_only_operation"} # {} =>
                  /\ answer'.before.text # answer'.after.text
                     \/ answer'.before.marks # answer'.after.marks
                  /\ answer'.after.text # Empty
            /\ "interface_state_change" \in rules => shown("interface_state")
            /\ {"routing_process_change", "static_route_change"} \cap rules # {} =>
                  shown("routing_state")
            /\ "acl_change" \in rules => shown("acl_state")]_reviewVars
=============================================================================
