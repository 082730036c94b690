----------------------------- MODULE NodeLookup -----------------------------
(***************************************************************************)
(* The lookup of a node's locations (fabric-iroh/src/iroh_node_lookup.rs)  *)
(* over the pinned HTTP client (pinned_http.rs): what the readers of a     *)
(* publication authority see.                                              *)
(*                                                                         *)
(* A lookup takes the replay state's lock twice, before its GET and after  *)
(* it, so lookups of one node overtake each other between the answer and   *)
(* the validation.  The authority may answer with any packet that a node   *)
(* has ever signed: an answer may be old, and an authority may have been   *)
(* restored.  The wall clock may stand still, run ahead or be set back     *)
(* against the monotonic one.                                              *)
(***************************************************************************)
EXTENDS Naturals, Sequences, FiniteSets, SequencesExt, TLC

CONSTANTS LookupNodes, Askers,
          Signed,          \* packets a node may sign: [seq, body]
          LiveFor,         \* the TTL: a packet expires at seq + LiveFor
          Grace,           \* NODE_LOOKUP_SCHEDULER_GRACE
          TableCapacity,   \* MAX_NODE_LOOKUP_TRACKED_IDS
          MaxMono, MaxWall, MaxLookups   \* bounds of the model

ASSUME LookupAssumption ==
    /\ LiveFor \in Nat \ {0} /\ Grace \in Nat /\ TableCapacity \in Nat \ {0}
    /\ \A p \in Signed : p.seq \in Nat

VARIABLES
    mono, wall,  \* the two clocks
    high,        \* high_water: a function over the tracked nodes
    lastWall,    \* last_wall_unix_micros
    lookupOpen,  \* ~closed
    ask,         \* ask[a]: [at, node, packet] of the lookup that a has under way
    lookups,     \* lookups started
    seen,        \* history: per node, the highest sequence a caller was told of
    given        \* history: the last result, [node, packet, first, until, at]

lookupVars == <<mono, wall, high, lastWall, lookupOpen, ask, lookups, seen, given>>

NoAnswer == [seq |-> 0, body |-> "none"]
Withdrawn == "withdrawn"
Silent == [at |-> "idle", node |-> CHOOSE n \in LookupNodes : TRUE, packet |-> NoAnswer]
NothingGiven == [node |-> Silent.node, packet |-> NoAnswer, until |-> 0, at |-> 0]

LookupInit ==
    /\ mono = 0 /\ wall \in 0..1
    /\ high = [n \in {} |-> NoAnswer]
    /\ lastWall = 0
    /\ lookupOpen = TRUE
    /\ ask = [a \in Askers |-> Silent]
    /\ lookups = 0
    /\ seen = [n \in LookupNodes |-> 0]
    /\ given = NothingGiven

Full == Cardinality(DOMAIN high) >= TableCapacity

(* observe_wall_clock, on every entry into the replay state: a clock that    *)
(* was set back refuses, and does not lower the mark.                        *)
ObserveWallClock == wall >= lastWall /\ lastWall' = wall

Ends(a) == ask' = [ask EXCEPT ![a] = Silent]

(* preflight under the first lock.  Every refusal ends the lookup. *)
Preflight(a, n) ==
    /\ ask[a].at = "idle"
    /\ lookups < MaxLookups
    /\ lookupOpen
    /\ ObserveWallClock
    /\ IF n \notin DOMAIN high /\ Full
       THEN UNCHANGED ask
       ELSE ask' = [ask EXCEPT ![a] = [at |-> "get", node |-> n, packet |-> NoAnswer]]
    /\ lookups' = lookups + 1
    /\ UNCHANGED <<mono, wall, high, lookupOpen, seen, given>>

(* The GET is answered with a packet that the node signed, in the namespace  *)
(* and for the recipient of the configuration.                               *)
Answered(a) ==
    /\ ask[a].at = "get"
    /\ \E p \in Signed : ask' = [ask EXCEPT ![a].at = "lock", ![a].packet = p]
    /\ UNCHANGED <<mono, wall, high, lastWall, lookupOpen, lookups, seen, given>>

(* A refused connection, a bad frame, another status, a packet that does not *)
(* verify, the deadline, the supervisor's cancel: nothing has been changed.  *)
LookupFails(a) ==
    /\ ask[a].at # "idle"
    /\ Ends(a)
    /\ UNCHANGED <<mono, wall, high, lastWall, lookupOpen, lookups, seen, given>>

Expires(p) == p.seq + LiveFor

(* What the entry of a packet seen for the first time is: it holds the       *)
(* result only when there is one, but its sequence in any case.              *)
Observed(p) ==
    LET valid == IF Expires(p) > wall THEN Expires(p) - wall ELSE 0
    IN  [seq |-> p.seq, packet |-> p, since |-> mono, valid |-> valid,
         cached |-> valid > 0 /\ p.body # Withdrawn]

(* validate_and_advance refuses without a trace: from the future, below the  *)
(* mark, another packet at the mark, or no room.                             *)
Refused(n, p) ==
    \/ p.seq > wall + Grace
    \/ n \in DOMAIN high /\ p.seq < high[n].seq
    \/ n \in DOMAIN high /\ p.seq = high[n].seq /\ p # high[n].packet
    \/ n \notin DOMAIN high /\ Full

(* Mutant of Advanced: a packet that gives no result leaves no mark. *)
AdvancedByResult(n, p) ==
    LET before == IF n \in DOMAIN high THEN high[n].seq ELSE 0
    IN  IF p.seq = before THEN high
        ELSE (n :> [Observed(p) EXCEPT !.seq = IF Observed(p).cached THEN @ ELSE before]) @@ high

(* A higher sequence advances the mark whatever the packet says. *)
Advanced(n, p) ==
    IF n \in DOMAIN high /\ p.seq = high[n].seq THEN high ELSE (n :> Observed(p)) @@ high

(* A packet that is known has its result until either clock says otherwise. *)
HasResult(entry, p) ==
    /\ entry.cached
    /\ wall < Expires(p)
    /\ mono - entry.since < entry.valid

(* The second lock: validate, then look at the deadline once more.  A lookup *)
(* that is late has advanced the state and tells nobody.  close is not       *)
(* looked at again.                                                          *)
Validate(a) ==
    /\ ask[a].at = "lock"
    /\ ObserveWallClock
    /\ LET n == ask[a].node
           p == ask[a].packet
       IN  IF Refused(n, p)
           THEN UNCHANGED <<high, seen, given>>
           ELSE /\ high' = Advanced(n, p)
                /\ \/ UNCHANGED <<seen, given>>
                   \/ /\ seen' = [seen EXCEPT ![n] = IF p.seq > @ THEN p.seq ELSE @]
                      /\ IF HasResult(high'[n], p)
                         THEN given' = [node |-> n, packet |-> p, at |-> mono,
                                        until |-> high'[n].since + high'[n].valid]
                         ELSE UNCHANGED given
    /\ Ends(a)
    /\ UNCHANGED <<mono, wall, lookupOpen, lookups>>

CloseLookup ==
    /\ lookupOpen
    /\ lookupOpen' = FALSE
    /\ UNCHANGED <<mono, wall, high, lastWall, ask, lookups, seen, given>>

(* The monotonic clock advances; the wall clock does what it is set to. *)
TickClocks ==
    /\ mono < MaxMono
    /\ mono' = mono + 1
    /\ wall' \in {w \in 0..MaxWall : w + 1 >= wall /\ w <= wall + 2}
    /\ UNCHANGED <<high, lastWall, lookupOpen, ask, lookups, seen, given>>

LookupNext ==
    \/ \E a \in Askers : \/ \E n \in LookupNodes : Preflight(a, n)
                         \/ Answered(a) \/ LookupFails(a) \/ Validate(a)
    \/ CloseLookup \/ TickClocks

LookupSpec == LookupInit /\ [][LookupNext]_lookupVars

----------------------------------------------------------------------------
(* What callers are told of a node never goes back: whatever the authority   *)
(* answers and however lookups overtake each other, a result is at or above  *)
(* every sequence that a caller was told of before, a withdrawal included,   *)
(* and one sequence never has two results (validate_and_advance).            *)
LookupNeverRegresses ==
    given' # given =>
        /\ given'.packet.seq >= seen[given'.node]
        /\ given'.node = given.node /\ given'.packet.seq = given.packet.seq =>
              given'.packet = given.packet

(* A result is handed out within the lifetime that its packet had when it    *)
(* was first seen, even when the wall clock stands still afterwards, and the *)
(* table of tracked nodes keeps its bound although several lookups passed    *)
(* the check before their GETs (MAX_NODE_LOOKUP_TRACKED_IDS).                *)
LookupIsFresh ==
    /\ given # NothingGiven => given.at < given.until
    /\ Cardinality(DOMAIN high) <= TableCapacity

-----------------------------------------------------------------------------
(***************************************************************************)
(* The node record of the rendezvous (fabric-iroh/src/iroh_node_record.rs): *)
(* locations and lifecycle metadata as TXT answers of one signed pkarr      *)
(* packet.  A packet is built by encode_node_record, or by some other       *)
(* program whose answers differ from it in a few places; either is signed   *)
(* and may be altered after that.                                           *)
(*                                                                          *)
(* A location is a socket address or a relay URL, by the parts its checks    *)
(* look at; every other value is a number.  DNS packing and the signature    *)
(* are external: a signature is who signed which timestamp and answers.      *)
(***************************************************************************)

CONSTANTS Signers,      \* node keys, numbered
          Addresses,    \* what an operator may write for a location
          Tokens,       \* the namespaces and recipients that are well formed
          MaxNodeLocations,
          RecordTtls, Stamps, \* seconds, and microseconds as the model counts them
          WholeSecond,       \* microseconds of one second
          MaxMicros,    \* the largest u64
          MaxEdits

ASSUME NodeRecordAssumption ==
    /\ Signers \subseteq Nat /\ Tokens \subseteq Nat
    /\ WholeSecond \in Nat \ {0} /\ MaxMicros \in Nat

VARIABLES draft,       \* the record its publisher meant, and how it was built
          packet,       \* the packet
          signatureOn,  \* what was signed
          edits,
          decoded

recordVars == <<draft, packet, signatureOn, edits, decoded>>

Live == 1
WithdrawnForm == 2
Schema == 1

(* METADATA_KEYS, in their order.                                          *)
MetadataKeys == <<"schema", "namespace", "signer", "node-id", "recipient",
                  "ttl-seconds", "sequence", "expires-unix-micros", "state">>

NotDecoded == [ok |-> FALSE, why |-> "unread", ttl |-> 0, sequence |-> 0, expires |-> 0,
               state |-> 0, locations |-> <<>>, node |-> 0, namespace |-> 0, recipient |-> 0]
Malformed(why) == [NotDecoded EXCEPT !.why = why]

-----------------------------------------------------------------------------
(* record_expiry: both steps are checked.                                  *)
ExpiryOf(sequence, ttl) == sequence + ttl * WholeSecond
ExpiryFits(sequence, ttl) == ExpiryOf(sequence, ttl) <= MaxMicros

-----------------------------------------------------------------------------
(* NodeLocation.  `host` is the class of the address or of the URL's host,   *)
(* `v6` how it is written and `mapped` an IPv6 form of an IPv4 address;      *)
(* `plain` and `exact` are of URLs: no credentials, query, fragment or "=",  *)
(* and written the way the URL library writes it.                           *)
Direct(host, id) ==
    [kind |-> "addr", host |-> host, v6 |-> FALSE, mapped |-> FALSE, port |-> 1, scope |-> 0,
     https |-> FALSE, plain |-> TRUE, exact |-> TRUE, id |-> id]
RelayAt(host, id) == [Direct(host, id) EXCEPT !.kind = "relay", !.https = TRUE]

normalize_socket_addr(a) == IF a.mapped THEN [a EXCEPT !.v6 = FALSE, !.mapped = FALSE] ELSE a

validate_direct_address(a) ==
    /\ normalize_socket_addr(a) = a
    /\ a.port # 0
    /\ a.host \notin {"unspecified", "multicast"}
    /\ a.host = "broadcast" => a.v6
    /\ a.host = "link-local" /\ a.v6 => a.scope # 0

(* A mapped host is judged as the IPv4 address it stands for.              *)
validate_relay_url(u) ==
    /\ u.plain /\ u.https /\ u.port # 0
    /\ u.host \notin {"unspecified", "multicast", "broadcast"}
    /\ ~(u.host = "link-local" /\ u.v6 /\ ~u.mapped)
    /\ u.exact

ValidLocation(l) == IF l.kind = "addr" THEN validate_direct_address(l) ELSE validate_relay_url(l)

(* NodeLocation::direct and NodeLocation::relay: the canonical spelling, to  *)
(* be validated.                                                            *)
Spelled(l) == IF l.kind = "addr" THEN normalize_socket_addr(l) ELSE [l EXCEPT !.exact = TRUE]

(* The order of NodeLocation: addresses before URLs, IPv4 before IPv6.      *)
Rank(l) == (IF l.kind = "addr" THEN 0 ELSE 40) + (IF l.v6 THEN 20 ELSE 0)
           + (IF l.mapped THEN 10 ELSE 0) + l.id
Ordered(a, b) == Rank(a) < Rank(b)

Ascending(s) == \A i \in 1..(Len(s) - 1) : Ordered(s[i], s[i + 1])

CanonicalLocations(locations) == SetToSortSeq(ToSet(locations), Ordered)

validate_namespace(n) == n \in Tokens
validate_recipient(n) == n \in Tokens

EncodeOk(r) ==
    LET locations == CanonicalLocations(r.locations)
    IN  /\ validate_namespace(r.namespace) /\ validate_recipient(r.recipient)
        /\ r.ttl > 0
        /\ ExpiryFits(r.sequence, r.ttl)
        /\ Len(locations) <= MaxNodeLocations
        /\ \A i \in DOMAIN locations : ValidLocation(locations[i])
        /\ IF r.state = Live THEN locations # <<>> ELSE locations = <<>>

Txt(r, zone, key, value) ==
    [zone |-> zone, origin |-> r.node, ttl |-> r.ttl, key |-> key, value |-> value]

(* encode_node_record: locations first, then the metadata.                 *)
Answers(r) ==
    LET locations == CanonicalLocations(r.locations)
        value(k) == IF k = "schema" THEN Schema
                    ELSE IF k \in {"signer", "node-id"} THEN r.node
                    ELSE IF k = "namespace" THEN r.namespace
                    ELSE IF k = "recipient" THEN r.recipient
                    ELSE IF k = "ttl-seconds" THEN r.ttl
                    ELSE IF k = "sequence" THEN r.sequence
                    ELSE IF k = "state" THEN r.state
                    ELSE ExpiryOf(r.sequence, r.ttl)
    IN  [i \in DOMAIN locations |-> Txt(r, "iroh", locations[i].kind, locations[i])]
        \o [i \in DOMAIN MetadataKeys |->
               Txt(r, "metadata", MetadataKeys[i], value(MetadataKeys[i]))]

PacketOf(r) == [signer |-> r.node, stamp |-> r.sequence, answers |-> Answers(r)]

-----------------------------------------------------------------------------
(* decode_node_record.                                                     *)

(* SignedPacket::from_bytes.                                               *)
SignatureHolds(p) == signatureOn = p

Zone(p, zone) == SelectSeq(p.answers, LAMBDA a : a.zone = zone)

(* The answers: names under the signer, one TTL, locations before metadata. *)
AnswersOk(p) ==
    /\ \A i \in DOMAIN p.answers : /\ p.answers[i].origin = p.signer
                                   /\ p.answers[i].ttl = p.answers[1].ttl
                                   /\ p.answers[i].zone \in {"iroh", "metadata"}
    /\ p.answers = Zone(p, "iroh") \o Zone(p, "metadata")

(* A location attribute is in its canonical spelling, and valid.           *)
AttributeOk(a) ==
    /\ a.key = a.value.kind
    /\ Spelled(a.value) = a.value
    /\ ValidLocation(a.value)

LocationsOk(locs) ==
    /\ Len(locs) <= MaxNodeLocations
    /\ \A i \in DOMAIN locs : AttributeOk(locs[i])
    /\ Ascending([i \in DOMAIN locs |-> locs[i].value])

(* The attributes are exactly the known ones in their places.              *)
MetadataInPlace(meta) == [i \in DOMAIN meta |-> meta[i].key] = MetadataKeys

Decoded(p) ==
    LET locs == Zone(p, "iroh")
        meta == Zone(p, "metadata")
        m == [i \in DOMAIN meta |-> meta[i].value]
    IN  IF ~SignatureHolds(p) THEN Malformed("signature")
        ELSE IF ~AnswersOk(p) THEN Malformed("answers")
        ELSE IF ~LocationsOk(locs) THEN Malformed("locations")
        ELSE IF ~MetadataInPlace(meta) THEN Malformed("metadata")
        ELSE IF m[1] # Schema THEN Malformed("schema")
        ELSE IF ~validate_namespace(m[2]) \/ ~validate_recipient(m[5]) THEN Malformed("names")
        ELSE IF m[3] # p.signer \/ m[4] # p.signer THEN Malformed("signer")
        ELSE IF m[6] = 0 \/ p.answers[1].ttl # m[6] THEN Malformed("ttl")
        ELSE IF m[7] # p.stamp THEN Malformed("sequence")
        ELSE IF ~ExpiryFits(m[7], m[6]) \/ m[8] # ExpiryOf(m[7], m[6]) THEN Malformed("expiry")
        ELSE IF m[9] \notin {Live, WithdrawnForm} THEN Malformed("state")
        ELSE IF m[9] = Live /\ locs = <<>> THEN Malformed("no dialable candidate")
        ELSE IF m[9] = WithdrawnForm /\ locs # <<>> THEN Malformed("withdrawn with locations")
        ELSE [ok |-> TRUE, why |-> "accepted", ttl |-> m[6], sequence |-> m[7],
              expires |-> m[8], state |-> m[9], namespace |-> m[2], recipient |-> m[5],
              locations |-> [i \in DOMAIN locs |-> locs[i].value], node |-> p.signer]

-----------------------------------------------------------------------------
(* What a publisher was configured with: `declared` as its operator wrote    *)
(* it, `locations` as NodeLocation's constructors make it.                  *)
Intents ==
    {[node |-> k, namespace |-> 1, recipient |-> 1, ttl |-> t, sequence |-> q, state |-> st,
      declared |-> d, locations |-> [i \in DOMAIN d |-> Spelled(d[i])]] :
        k \in Signers, t \in RecordTtls, q \in Stamps, st \in {Live, WithdrawnForm},
        d \in UNION {[1..n -> Addresses] : n \in 0..2}}

NodeRecordInit ==
    /\ \E r \in Intents : /\ EncodeOk(r)
                          /\ draft = [record |-> r, own |-> TRUE]
                          /\ packet = PacketOf(r)
    /\ signatureOn = packet
    /\ edits = 0
    /\ decoded = NotDecoded

(* Another program writes an answer differently, and signs the result; or   *)
(* the packet is altered after it was signed.                              *)
Edited(p) ==
    /\ edits < MaxEdits
    /\ edits' = edits + 1
    /\ packet' = p
    /\ draft' = [draft EXCEPT !.own = FALSE]
    /\ \/ signatureOn' = p
       \/ UNCHANGED signatureOn
    /\ decoded' = NotDecoded

AnswersEdited ==
    \E i \in DOMAIN packet.answers :
        \/ Edited([packet EXCEPT !.answers = RemoveAt(@, i)])
        \/ Edited([packet EXCEPT !.answers = InsertAt(@, i, @[i])])
        \/ /\ packet.answers[i].zone = "metadata"
           /\ \E v \in 0..2 : Edited([packet EXCEPT !.answers[i].value = v])
        \/ /\ packet.answers[i].zone = "iroh"
           /\ \E v \in Addresses : Edited([packet EXCEPT !.answers[i].value = v])
        \/ Edited([packet EXCEPT !.answers[i].ttl = @ + 1])
        \/ /\ i < Len(packet.answers)
           /\ Edited([packet EXCEPT !.answers[i] = packet.answers[i + 1],
                                    !.answers[i + 1] = packet.answers[i]])

StampEdited == Edited([packet EXCEPT !.stamp = @ + 1])

DecodeNodeRecord ==
    /\ decoded = NotDecoded
    /\ decoded' = Decoded(packet)
    /\ UNCHANGED <<draft, packet, signatureOn, edits>>

NodeRecordNext == AnswersEdited \/ StampEdited \/ DecodeNodeRecord

NodeRecordSpec == NodeRecordInit /\ [][NodeRecordNext]_recordVars

-----------------------------------------------------------------------------
AsRecord(d) ==
    [node |-> d.node, namespace |-> d.namespace, recipient |-> d.recipient, ttl |-> d.ttl,
     sequence |-> d.sequence, state |-> d.state, locations |-> d.locations]

(* A record has one form: whoever built and signed the packet, a packet     *)
(* that is decoded is byte for byte the one encode_node_record makes of the *)
(* record it yields, and that record could be encoded; so comparing packets *)
(* compares records.  Two of its locations are never two spellings of one   *)
(* address (decode_node_record, normalize_socket_addr).                    *)
DecodedIsCanonical ==
    decoded.ok => /\ EncodeOk(AsRecord(decoded))
                  /\ PacketOf(AsRecord(decoded)) = packet
                  /\ decoded.expires = ExpiryOf(decoded.sequence, decoded.ttl)
                  /\ IsInjective([i \in DOMAIN decoded.locations |-> Spelled(decoded.locations[i])])

(* Whatever encode_node_record makes of a publisher's locations, in any     *)
(* order and with repetitions or different spellings, is decoded to those   *)
(* locations (NodeLocation::direct, encode_node_record).                    *)
EncodedIsDecoded ==
    draft.own /\ decoded # NotDecoded =>
        /\ decoded.ok
        /\ ToSet(decoded.locations) = {Spelled(l) : l \in ToSet(draft.record.declared)}
        /\ decoded.state = draft.record.state
        /\ decoded.sequence = draft.record.sequence

-----------------------------------------------------------------------------
(***************************************************************************)
(* One PUT or GET of a signed record at a pinned recipient                  *)
(* (fabric-iroh/src/pinned_http.rs): one connection, exact framing, one     *)
(* absolute deadline.  The recipient is external: it may answer with any    *)
(* headers, send any number of bytes in pieces of any size, close at any    *)
(* point or never.  Byte counts are exact, contents are whose record it is. *)
(***************************************************************************)

CONSTANTS HttpSigners,     \* record signers
          HeaderBytes,     \* header lengths the recipient tries
          BodyBytes,       \* body lengths it declares and sends
          MaxHeaderBytes,  \* MAX_HEADER_BYTES
          MaxPayloadBytes, \* MAX_RELAY_PAYLOAD_BYTES
          ChunkBytes,      \* the read buffer
          Deadline

ASSUME PinnedHttpAssumption ==
    /\ MaxHeaderBytes \in Nat /\ MaxPayloadBytes \in Nat
    /\ ChunkBytes \in Nat \ {0} /\ Deadline \in Nat \ {0}

VARIABLES request,   \* method, signer of the path, signer of the packet put
          reply,     \* what the recipient answers
          httpStage,     \* where request_inner is
          received,  \* header and body bytes read
          elapsed,   \* since the request began
          answer     \* what the caller gets

httpVars == <<request, reply, httpStage, received, elapsed, answer>>

Pending == [ok |-> FALSE, kind |-> "pending", status |-> 0, body |-> 0]

(* The recipient's answer: a content length of BodyBytes or none or two;    *)
(* chunked is a Transfer-Encoding header.                                  *)
Replies ==
    [status : {99, 200, 204, 302, 404}, header : HeaderBytes, lengths : SUBSET BodyBytes,
     chunked : BOOLEAN, body : BodyBytes, signer : HttpSigners, closes : BOOLEAN]

HttpInit ==
    /\ request \in [method : {"PUT", "GET"}, path : HttpSigners, packet : HttpSigners]
    /\ reply \in {r \in Replies : Cardinality(r.lengths) <= 2 /\ (r.chunked => r.lengths = {})}
    /\ httpStage = "start"
    /\ received = [header |-> 0, body |-> 0]
    /\ elapsed = 0
    /\ answer = Pending

Done(kind) ==
    /\ httpStage' = "done"
    /\ answer' = [Pending EXCEPT !.kind = kind]
    /\ UNCHANGED <<request, reply, received, elapsed>>

(* put_record refuses a packet that is not the path's; then the connection. *)
Begin ==
    /\ httpStage = "start"
    /\ IF request.method = "PUT" /\ request.packet # request.path
       THEN Done("protocol")
       ELSE /\ httpStage' = "connecting"
            /\ UNCHANGED <<request, reply, received, elapsed, answer>>

Connect(ok) ==
    /\ httpStage = "connecting"
    /\ IF ok THEN /\ httpStage' = "headers"
                  /\ UNCHANGED <<request, reply, received, elapsed, answer>>
       ELSE Done("connect")

Write == httpStage = "headers" /\ received.header = 0 /\ Done("write")

(* The header loop: up to MAX_HEADER_BYTES are kept before one more read.   *)
ReadHeaders(n) ==
    /\ httpStage = "headers"
    /\ n \in 1..ChunkBytes
    /\ received.header < MaxHeaderBytes
    /\ received.header + n <= reply.header + reply.body
    /\ LET total == received.header + n
       IN  IF total < reply.header
           THEN /\ received' = [received EXCEPT !.header = total]
                /\ UNCHANGED <<request, reply, httpStage, elapsed, answer>>
           ELSE /\ httpStage' = "parsing"
                /\ received' = [header |-> reply.header, body |-> total - reply.header]
                /\ UNCHANGED <<request, reply, elapsed, answer>>

HeadersTooLong ==
    /\ httpStage = "headers"
    /\ received.header >= MaxHeaderBytes
    /\ Done("protocol")

HeadersEnd ==
    /\ httpStage = "headers"
    /\ reply.closes /\ received.header < reply.header
    /\ Done("protocol")

(* parse_response_headers: exactly one Content-Length, or none with 204.    *)
LengthOf(r) == IF Cardinality(r.lengths) = 1 THEN r.lengths
               ELSE IF r.lengths = {} /\ r.status = 204 THEN {0} ELSE {}

Parse ==
    /\ httpStage = "parsing"
    /\ IF \/ received.header > MaxHeaderBytes
          \/ reply.status \notin 200..599
          \/ reply.chunked
          \/ LengthOf(reply) = {}
          \/ reply.status \in 300..399
          \/ \E n \in LengthOf(reply) : n > MaxPayloadBytes \/ received.body > n
       THEN Done("protocol")
       ELSE /\ httpStage' = "body"
            /\ UNCHANGED <<request, reply, received, elapsed, answer>>

ReadBody(n) ==
    /\ httpStage = "body"
    /\ \E length \in LengthOf(reply) :
          /\ received.body < length
          /\ n \in 1..ChunkBytes
          /\ n <= length - received.body
    /\ received.body + n <= reply.body
    /\ received' = [received EXCEPT !.body = @ + n]
    /\ UNCHANGED <<request, reply, httpStage, elapsed, answer>>

BodyEnds ==
    /\ httpStage = "body"
    /\ reply.closes
    /\ \E length \in LengthOf(reply) : received.body < length
    /\ received.body = reply.body
    /\ Done("protocol")

(* One more read: a byte beyond the length is refused; the recipient must   *)
(* close.                                                                  *)
ProveEnd ==
    /\ httpStage = "body"
    /\ received.body \in LengthOf(reply)
    /\ reply.body > received.body \/ reply.closes
    /\ IF reply.body > received.body
       THEN Done("protocol")
       ELSE /\ httpStage' = "record"
            /\ UNCHANGED <<request, reply, received, elapsed, answer>>

(* get_record: a 200 body must be a packet of the signer that was asked.    *)
ReturnResponse ==
    /\ httpStage = "record"
    /\ IF /\ request.method = "GET" /\ reply.status = 200
          /\ reply.signer # request.path
       THEN Done("protocol")
       ELSE /\ httpStage' = "done"
            /\ answer' = [ok |-> TRUE, kind |-> "response", status |-> reply.status,
                          body |-> received.body]
            /\ UNCHANGED <<request, reply, received, elapsed>>

(* timeout_at around the whole request.                                    *)
HttpTimePasses ==
    /\ httpStage \notin {"start", "done"}
    /\ elapsed < Deadline
    /\ elapsed' = elapsed + 1
    /\ UNCHANGED <<request, reply, httpStage, received, answer>>

DeadlineCuts == httpStage \notin {"start", "done"} /\ elapsed = Deadline /\ Done("deadline")

HttpStep ==
    \/ Begin \/ (\E ok \in BOOLEAN : Connect(ok)) \/ Write
    \/ \E n \in 1..ChunkBytes : ReadHeaders(n) \/ ReadBody(n)
    \/ HeadersTooLong \/ HeadersEnd \/ Parse \/ BodyEnds \/ ProveEnd \/ ReturnResponse

HttpNext == HttpStep \/ HttpTimePasses \/ DeadlineCuts

HttpSpec == HttpInit /\ [][HttpNext]_httpVars

-----------------------------------------------------------------------------
(* A response that is returned is whole and exact: the recipient sent one   *)
(* declared length, that many bytes within the cap and not one more, no     *)
(* redirect; a record got with GET is the asked signer's; and no more than  *)
(* one read buffer beyond the header cap and the declared body was ever     *)
(* held (request_inner).                                                   *)
ResponseIsExact ==
    /\ answer.ok => /\ reply.lengths \subseteq {reply.body} /\ answer.body = reply.body
                    /\ reply.body <= MaxPayloadBytes
                    /\ reply.status \notin 300..399
                    /\ request.method = "GET" /\ reply.status = 200
                          => reply.signer = request.path
    /\ received.header + received.body
          <= MaxHeaderBytes + ChunkBytes + MaxPayloadBytes
=============================================================================
