---------------------------- MODULE LookupEvidence ----------------------------
(***************************************************************************)
(* The lookup evidence: the diagnostic that looks one node up                *)
(* (daemon/src/bin/iroh_node_lookup.rs) against either the authority         *)
(* (iroh_node_authority.rs) or the fixture that answers with records the     *)
(* authority would refuse (iroh_node_lookup_fixture.rs).  What the lookup    *)
(* makes of an answer is fabric-iroh/src/iroh_node_lookup.rs; NodeLookup     *)
(* has its concurrent side, here every refusal has its name.                 *)
(*                                                                          *)
(* A timer that is due fires before time moves on.  A second has            *)
(* MicrosPerSecond parts, and the wall clock starts at StartSecond.          *)
(***************************************************************************)
EXTENDS Naturals, Sequences, FiniteSets

CONSTANTS EvidenceSetups,    \* how the programs are started
          FixtureLifetime, HangDuration, IoDeadline, SurplusObservation,
          LookupDeadline, CaseTtl, MicrosPerSecond, StartSecond,
          LatestStart        \* when the diagnostic is started at the latest

ASSUME LookupEvidenceAssumption == MicrosPerSecond > 2 /\ StartSecond > 2

VARIABLES supplied,     \* the setup
          caseClock,
          fixture,   \* the fixture's progress
          keeper,    \* the authority's progress
          calls,     \* calls[i]: the connection of the diagnostic's i-th attempt
          tool       \* the diagnostic's progress

caseVars == <<supplied, caseClock, fixture, keeper, calls, tool>>

Earlier(a, b) == IF a < b THEN a ELSE b
NowMicros == (StartSecond + caseClock) * MicrosPerSecond

-----------------------------------------------------------------------------
(* Configurations.                                                         *)

(* is_public_ip and is_local_authority_ip differ on the unspecified address. *)
is_public_ip(ip) == ip \notin {"private", "loopback", "link-local", "unique-local", "unspecified"}
is_local_authority_ip(ip) == ip \in {"private", "loopback", "link-local", "unique-local"}

(* An identity given twice is refused while parsing (insert_signer), and     *)
(* AuthoritySignerAdmission::validate wants some, all canonical.            *)
SignersParse(c) == ~c.repeated
AdmissionOk(c) == c.signers > 0 /\ c.canonical

(* PublicationAuthorityConfig::validate.                                   *)
AuthorityConfigOk(c) ==
    /\ SignersParse(c)
    /\ c.port # 0
    /\ is_local_authority_ip(c.ip) /\ (c.ip = "link-local" => c.scoped)
    /\ c.namesOk /\ c.ownerOk
    /\ AdmissionOk(c)

(* Config::validate of the fixture, with validate_fixture_socket.          *)
FixtureConfigOk(c) ==
    /\ c.port # 0
    /\ is_local_authority_ip(c.ip) /\ (c.ip = "link-local" => c.scoped)
    /\ c.namesOk /\ c.ownerOk
    /\ c.runBound

(* NodeLookupAuthorityAuthorization::validate: an authorization by name      *)
(* is understood, and not supported.                                        *)
LookupAuthorizationRefuses(c) ==
    IF ~c.ownerOk THEN "untrusted_configuration"
    ELSE IF c.external = "none"
    THEN IF is_public_ip(c.ip) THEN "untrusted_configuration" ELSE ""
    ELSE IF c.external = "blank" THEN "untrusted_configuration"
    ELSE "external_authority_unsupported"

(* NodeLookupConfig::new.                                                  *)
LookupConfigRefuses(c) ==
    IF ~c.namesOk \/ c.port = 0 \/ c.ip \in {"unspecified", "multicast"} THEN "untrusted_configuration"
    ELSE LookupAuthorizationRefuses(c)

-----------------------------------------------------------------------------
(* The records the fixture answers with.                                   *)
NothingHeld == [status |-> 0, signed |-> FALSE, seq |-> 0, ttl |-> 0, state |-> "none", at |-> 0]

Planned(seq, ttl, location) ==
    [status |-> 200, signed |-> TRUE, seq |-> seq, ttl |-> ttl, state |-> "live", at |-> location]

Recent == NowMicros - 1

(* responses; the empty place of a live record is 0.                       *)
Responses(scenario) ==
    CASE scenario = "hanging"        -> <<NothingHeld>>
      [] scenario = "bad-signature"  -> <<[Planned(Recent, CaseTtl, 1) EXCEPT !.signed = FALSE]>>
      [] scenario = "stale"          -> <<Planned(Recent, CaseTtl, 1), Planned(Recent - 1, CaseTtl, 1)>>
      [] scenario = "equal-conflict" -> <<Planned(Recent, CaseTtl, 1), Planned(Recent, CaseTtl, 2)>>
      [] scenario = "expired"        -> <<Planned(NowMicros - 2 * MicrosPerSecond, 1, 1)>>
      [] scenario = "live-empty"     -> <<Planned(Recent, CaseTtl, 0)>>
      [] OTHER                       -> <<>>

request_count(scenario) == IF scenario \in {"stale", "equal-conflict"} THEN 2 ELSE 1

-----------------------------------------------------------------------------
(* The fixture.                                                            *)
Attempts == 1..2
NoCall == [at |-> "none", exact |-> TRUE, body |-> NothingHeld]

FixtureEnds(code) == fixture' = [fixture EXCEPT !.at = "done", !.code = code]

Waiting == {i \in Attempts : calls[i].at \in {"request", "gone"} /\ i > fixture.taken}

FixtureStarts ==
    /\ supplied.against = "fixture" /\ fixture.at = "start"
    /\ IF FixtureConfigOk(supplied.fixture)
       THEN \/ fixture' = [fixture EXCEPT !.at = "accept", !.plan = Responses(supplied.scenario)]
            \/ FixtureEnds(1)
       ELSE FixtureEnds(2)
    /\ UNCHANGED <<supplied, caseClock, keeper, calls, tool>>

(* listener.accept() and read_request, until io_deadline.                  *)
FixtureAccepts ==
    /\ fixture.at = "accept" /\ Waiting # {}
    /\ caseClock < FixtureLifetime
    /\ LET i == CHOOSE j \in Waiting : \A k \in Waiting : j <= k
       IN  fixture' = [fixture EXCEPT !.at = "read", !.taken = i,
                                      !.until = Earlier(FixtureLifetime, caseClock + IoDeadline)]
    /\ UNCHANGED <<supplied, caseClock, keeper, calls, tool>>

(* Only the exact GET for the signer is answered; a client that is gone may *)
(* have sent all of it.                                                     *)
FixtureReads ==
    /\ fixture.at = "read"
    /\ LET call == calls[fixture.taken]
       IN  \/ (call.at = "gone" \/ ~call.exact) /\ FixtureEnds(1)
           \/ /\ call.exact
              /\ fixture' = IF fixture.plan[fixture.index].status = 0
                            THEN [fixture EXCEPT !.at = "hang", !.seen = @ + 1,
                                     !.until = Earlier(FixtureLifetime, caseClock + HangDuration)]
                            ELSE [fixture EXCEPT !.at = "write", !.seen = @ + 1]
    /\ UNCHANGED <<supplied, caseClock, keeper, calls, tool>>

Proceed == [fixture EXCEPT !.index = @ + 1,
                           !.at = IF fixture.index = Len(fixture.plan) THEN "surplus" ELSE "accept",
                           !.until = caseClock + SurplusObservation]

(* A client that is gone may be noticed, or the bytes are lost.            *)
FixtureWrites ==
    /\ fixture.at = "write"
    /\ LET i == fixture.taken
       IN  IF calls[i].at = "gone"
           THEN (FixtureEnds(1) \/ fixture' = Proceed) /\ UNCHANGED calls
           ELSE /\ fixture' = Proceed
                /\ calls' = [calls EXCEPT ![i].at = "answered", ![i].body = fixture.plan[fixture.index]]
    /\ UNCHANGED <<supplied, caseClock, keeper, tool>>

(* observe_hanging_cancellation.                                           *)
HangingCancelled ==
    /\ fixture.at = "hang" /\ calls[fixture.taken].at = "gone"
    /\ fixture' = Proceed
    /\ UNCHANGED <<supplied, caseClock, keeper, calls, tool>>

FixtureSeesSurplus ==
    /\ fixture.at = "surplus" /\ Waiting # {}
    /\ FixtureEnds(1)
    /\ UNCHANGED <<supplied, caseClock, keeper, calls, tool>>

FixtureDue ==
    \/ fixture.at = "accept" /\ caseClock >= FixtureLifetime
    \/ fixture.at \in {"read", "write", "hang", "surplus"} /\ caseClock >= fixture.until

FixtureTimesOut ==
    /\ FixtureDue
    /\ FixtureEnds(IF fixture.at = "surplus" THEN 0 ELSE 1)
    /\ UNCHANGED <<supplied, caseClock, keeper, calls, tool>>

-----------------------------------------------------------------------------
(* The authority.                                                          *)
KeeperStarts ==
    /\ supplied.against = "authority" /\ keeper.at = "start"
    /\ keeper' \in IF AuthorityConfigOk(supplied.authority)
                   THEN {[keeper EXCEPT !.at = "ready"], [at |-> "done", code |-> 1]}
                   ELSE {[at |-> "done", code |-> 2]}
    /\ UNCHANGED <<supplied, caseClock, fixture, calls, tool>>

(* A GET is answered with the record that is held, or 404.                 *)
KeeperAnswers(i) ==
    /\ keeper.at = "ready" /\ calls[i].at = "request"
    /\ calls' = [calls EXCEPT ![i].at = "answered", ![i].body = supplied.held]
    /\ UNCHANGED <<supplied, caseClock, fixture, keeper, tool>>

(* A signal and the shutdown, or its listener failed.                      *)
KeeperStops ==
    /\ keeper.at = "ready"
    /\ keeper' \in {[at |-> "done", code |-> 0], [at |-> "done", code |-> 1]}
    /\ UNCHANGED <<supplied, caseClock, fixture, calls, tool>>

-----------------------------------------------------------------------------
(* The diagnostic.                                                         *)
Pass == [verdict |-> "pass", reason |-> "", validated |-> TRUE]
Unavailable(why, validated) == [verdict |-> "unavailable", reason |-> why, validated |-> validated]

ToolEnds(code) == tool' = [tool EXCEPT !.at = "done", !.code = code]

(* Config::parse: every flag once, one or two attempts.                    *)
ToolParses(c) == c.flagsOk /\ c.attempts \in Attempts

(* NodeLookupConfig::new and spawning the node.                            *)
ToolStarts ==
    /\ tool.at = "start"
    /\ IF ~ToolParses(supplied.tool) \/ LookupConfigRefuses(supplied.tool) # ""
       THEN ToolEnds(2)
       ELSE ToolEnds(1) \/ tool' = [tool EXCEPT !.at = "resolve", !.attempt = 1]
    /\ UNCHANGED <<supplied, caseClock, fixture, keeper, calls>>

(* map_http_error.                                                         *)
HttpReason(kind) ==
    CASE kind = "refused" -> "authority_connection_refused"
      [] kind = "read" -> "authority_read"
      [] OTHER -> "deadline"

(* NodeLookupHandle::resolve: the deadline of this attempt, and preflight.  *)
Listening == fixture.at \notin {"start", "done"} \/ keeper.at = "ready"

CaseRecord(result) ==
    LET results == Append(tool.results, result)
    IN  [tool EXCEPT !.results = results, !.attempt = @ + 1,
                     !.at = IF tool.attempt = supplied.tool.attempts THEN "shutdown" ELSE "resolve",
                     !.allPassed = @ /\ result.verdict = "pass"]

Resolve ==
    /\ tool.at = "resolve"
    /\ IF ~supplied.tool.keyOk
       THEN tool' = CaseRecord(Unavailable("invalid_node_id", FALSE)) /\ UNCHANGED calls
       ELSE IF ~Listening
       THEN tool' = CaseRecord(Unavailable(HttpReason("refused"), FALSE)) /\ UNCHANGED calls
       ELSE /\ tool' = [tool EXCEPT !.at = "get", !.until = caseClock + LookupDeadline]
            /\ calls' = [calls EXCEPT ![tool.attempt].at = "request",
                                      ![tool.attempt].exact = supplied.tool.hostMatches]
    /\ UNCHANGED <<supplied, caseClock, fixture, keeper>>

(* The status, then map_signed_packet_error, decode_node_record and the     *)
(* fields; "" is a record that goes on to validate_and_advance.            *)
AnswerRefuses(p) ==
    IF p.status = 404 THEN "empty_namespace"
    ELSE IF p.status # 200 THEN "authority_status"
    ELSE IF ~p.signed THEN "bad_signature"
    ELSE IF p.state = "live" /\ p.at = 0 THEN "no_dialable_candidate"
    ELSE IF ~supplied.tool.namespaceMatches THEN "namespace_mismatch"
    ELSE IF ~supplied.tool.recipientMatches THEN "recipient_mismatch"
    ELSE ""

ExpiresAt(p) == p.seq + p.ttl * MicrosPerSecond

HighWaterRefuses(p) ==
    IF p.seq < tool.high.seq THEN "stale_sequence"
    ELSE IF p.seq = tool.high.seq /\ p # tool.high THEN "conflicting_replay" ELSE ""

(* record_state_error, and the same for a new packet.                      *)
StateRefuses(p) ==
    IF NowMicros >= ExpiresAt(p) THEN "expired"
    ELSE IF p.state = "withdrawn" THEN "withdrawn" ELSE ""

Judge ==
    /\ tool.at = "get" /\ calls[tool.attempt].at = "answered" /\ caseClock < tool.until
    /\ LET p == calls[tool.attempt].body
           early == AnswerRefuses(p)
           mark == HighWaterRefuses(p)
           late == StateRefuses(p)
       IN  IF early # "" THEN tool' = CaseRecord(Unavailable(early, FALSE))
           ELSE IF p.seq > NowMicros + MicrosPerSecond
           THEN tool' = CaseRecord(Unavailable("malformed_or_untrusted_record", TRUE))
           ELSE IF mark # "" THEN tool' = CaseRecord(Unavailable(mark, TRUE))
           ELSE tool' = [CaseRecord(IF late = "" THEN Pass ELSE Unavailable(late, TRUE)) EXCEPT !.high = p]
    /\ calls' = [calls EXCEPT ![tool.attempt].at = "closed"]
    /\ UNCHANGED <<supplied, caseClock, fixture, keeper>>

(* The deadline, or the connection ends without an answer.                 *)
LookupTimesOut ==
    /\ tool.at = "get" /\ caseClock >= tool.until
    /\ tool' = CaseRecord(Unavailable(HttpReason("deadline"), FALSE))
    /\ calls' = [calls EXCEPT ![tool.attempt].at = IF @ = "request" THEN "gone" ELSE "closed"]
    /\ UNCHANGED <<supplied, caseClock, fixture, keeper>>

CallIsCut ==
    /\ tool.at = "get" /\ calls[tool.attempt].at = "request" /\ ~Listening
    /\ tool' = CaseRecord(Unavailable(HttpReason("read"), FALSE))
    /\ calls' = [calls EXCEPT ![tool.attempt].at = "gone"]
    /\ UNCHANGED <<supplied, caseClock, fixture, keeper>>

(* shutdown_policy: only a graceful end keeps a pass.                      *)
ShutdownPolicy(outcome) == outcome = "graceful"

ToolShutsDown ==
    /\ tool.at = "shutdown"
    /\ \E outcome \in {"graceful", "forced", "failed"} :
          tool' = [tool EXCEPT !.at = "done", !.ended = outcome,
                      !.code = IF tool.allPassed /\ ShutdownPolicy(outcome) THEN 0 ELSE 4]
    /\ UNCHANGED <<supplied, caseClock, fixture, keeper, calls>>

-----------------------------------------------------------------------------
CaseInit ==
    /\ supplied \in EvidenceSetups
    /\ caseClock = 0
    /\ fixture = [at |-> IF supplied.against = "fixture" THEN "start" ELSE "done", code |-> 9,
                  plan |-> <<>>, index |-> 1, taken |-> 0, until |-> 0, seen |-> 0]
    /\ keeper = [at |-> IF supplied.against = "authority" THEN "start" ELSE "done", code |-> 9]
    /\ calls = [i \in Attempts |-> NoCall]
    /\ tool = [at |-> "start", code |-> 9, attempt |-> 0, until |-> 0, results |-> <<>>,
               high |-> NothingHeld, allPassed |-> TRUE, ended |-> "not"]

Due == FixtureDue \/ (tool.at = "get" /\ caseClock >= tool.until)

SecondPasses ==
    /\ ~Due
    /\ tool.at # "done" \/ fixture.at # "done"
    /\ fixture.at # "start" /\ keeper.at # "start"
    /\ tool.at = "start" => caseClock < LatestStart
    /\ tool.at \notin {"resolve", "shutdown"}
    /\ caseClock' = caseClock + 1
    /\ UNCHANGED <<supplied, fixture, keeper, calls, tool>>

CaseNext ==
    \/ FixtureStarts \/ FixtureAccepts \/ FixtureReads \/ FixtureWrites \/ HangingCancelled
    \/ FixtureSeesSurplus \/ FixtureTimesOut
    \/ KeeperStarts \/ (\E i \in Attempts : KeeperAnswers(i)) \/ KeeperStops
    \/ ToolStarts \/ Resolve \/ Judge \/ LookupTimesOut \/ CallIsCut \/ ToolShutsDown
    \/ SecondPasses

CaseSpec == CaseInit /\ [][CaseNext]_caseVars

-----------------------------------------------------------------------------
(* What the evidence says of each scenario's answers.                      *)
ExpectedVerdict(scenario, i) ==
    CASE scenario = "hanging" -> "deadline"
      [] scenario = "bad-signature" -> "bad_signature"
      [] scenario = "stale" -> IF i = 1 THEN "" ELSE "stale_sequence"
      [] scenario = "equal-conflict" -> IF i = 1 THEN "" ELSE "conflicting_replay"
      [] scenario = "expired" -> "expired"
      [] OTHER -> "no_dialable_candidate"

Matching ==
    supplied.tool.keyOk /\ supplied.tool.namespaceMatches /\ supplied.tool.recipientMatches

(* The two programs agree on what happened: when the fixture reports that   *)
(* its requests came and nothing more, the diagnostic made of each answer   *)
(* what the scenario is there to show, unless a deadline took that answer   *)
(* or the one it is to be compared with; it exits with 0 only if every      *)
(* attempt passed and the node stopped gracefully; and two attempts that    *)
(* passed never went back or saw two packets at one sequence                *)
(* (iroh_node_lookup_fixture.rs main, iroh_node_lookup.rs main, resolve).   *)
EvidenceAgrees ==
    /\ fixture.code = 0 /\ tool.at = "done" /\ Matching
          /\ supplied.tool.attempts = request_count(supplied.scenario) =>
             \A i \in 1..Len(tool.results) :
                 \/ tool.results[i].reason \in {ExpectedVerdict(supplied.scenario, i), "deadline"}
                 \/ i = 2 /\ tool.results[1].reason = "deadline"
    /\ fixture.code = 0 => fixture.seen = request_count(supplied.scenario)
    /\ tool.code = 0 => /\ tool.ended = "graceful"
                        /\ \A i \in 1..Len(tool.results) : tool.results[i].verdict = "pass"
    /\ \A i, j \in 1..Len(tool.results) :
          i < j /\ tool.results[i].verdict = "pass" /\ tool.results[j].verdict = "pass" =>
              \/ calls[i].body = calls[j].body
              \/ calls[i].body.seq < calls[j].body.seq

(* Neither program outlives its bound, however late the other is: the       *)
(* fixture its lifetime and the look for a surplus request, an attempt its  *)
(* ten seconds (FIXTURE_LIFETIME, NODE_LOOKUP_DEADLINE).                    *)
EvidenceEnds ==
    /\ fixture.at = "done" \/ caseClock <= FixtureLifetime + SurplusObservation
    /\ tool.at \in {"start", "done"} \/ caseClock <= LatestStart + supplied.tool.attempts * LookupDeadline
=============================================================================
