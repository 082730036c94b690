---------------------------- MODULE RecordCodec -----------------------------
(***************************************************************************)
(* The signed provider record on the wire (peer-fabric/src/record_codec.rs):*)
(* a provider signs and encodes an assertion, the bytes may be altered on   *)
(* the way, a reader decodes them for the key it asked for.                 *)
(*                                                                          *)
(* A field is one cell, a number; its width in bytes matters only for the   *)
(* size cap.  Cells of equal place have equal width, so cells order as the  *)
(* bytes do.  A signature (ed25519, external) is what it signs: the signer, *)
(* the body under the signing domain, and whether its scalar is canonical.  *)
(***************************************************************************)
EXTENDS Naturals, Sequences, FiniteSets, SequencesExt

CONSTANTS Nodes,       \* node ids, numbered
          Identities,  \* those that are strict ed25519 keys
          ContentKeys,        \* content keys, numbered
          Drafts,      \* assertions a provider builds
          MaxOffers, MaxRelayHints, MaxRecordBytes,
          MaxClock, MaxFaults

VARIABLES made,        \* the assertions that were signed
          signatures,  \* the signatures that exist
          bytes,       \* the record under way: body and signature
          touched,     \* was it altered?
          faults, readNow,
          reading      \* the last decode

codecVars == <<made, signatures, bytes, touched, faults, readNow, reading>>

Provide == 0
Withdraw == 1
Iroh == 0
BitTorrent == 1
Libp2p == 2
RecordSchema == 1

Unread == [ok |-> FALSE, why |-> "unread", key |-> 0, assertion |-> <<>>]
Failed(why) == [Unread EXCEPT !.why = why]

-----------------------------------------------------------------------------
(* Encoding.                                                               *)

(* write_offer; an offer is [tag, node, version, hash, hints].             *)
OfferEncoding(o) ==
    IF o.tag = Iroh THEN <<Iroh, o.node>>
    ELSE IF o.tag = BitTorrent THEN <<BitTorrent, o.version, o.hash>>
    ELSE <<Libp2p, o.node, Len(o.hints)>> \o o.hints

OfferBytes(o) ==
    IF o.tag = Iroh THEN 33
    ELSE IF o.tag = BitTorrent THEN (IF o.version = 1 THEN 22 ELSE 34)
    ELSE 34 + 32 * Len(o.hints)

Before(a, b) ==
    \/ Len(a) < Len(b) /\ SubSeq(b, 1, Len(a)) = a
    \/ \E i \in 1..Len(a) : /\ i <= Len(b) /\ a[i] < b[i]
                            /\ SubSeq(a, 1, i - 1) = SubSeq(b, 1, i - 1)

OffersAreCanonical(offers) ==
    \A i \in 1..(Len(offers) - 1) :
        Before(OfferEncoding(offers[i]), OfferEncoding(offers[i + 1]))

(* Each offer is the provider's own, and no relay is the provider.         *)
SelfServed(offers, provider) ==
    /\ \A i \in DOMAIN offers :
          /\ offers[i].tag # BitTorrent => offers[i].node = provider
          /\ offers[i].tag = Libp2p => ~Contains(offers[i].hints, provider)
    /\ Cardinality({i \in DOMAIN offers : offers[i].tag = Libp2p}) <= 1

CheckProvideInvariants(a) ==
    /\ Len(a.offers) <= MaxOffers
    /\ OffersAreCanonical(a.offers)
    /\ SelfServed(a.offers, a.provider)

Header(a) == <<RecordSchema, a.kind, a.key, a.provider, a.sequence, a.issued, a.expiry>>

ProvideBody(a) ==
    Header(a) \o <<a.content, Len(a.offers)>>
        \o FlattenSeq([i \in DOMAIN a.offers |-> OfferEncoding(a.offers[i])])

WithdrawBody(a) == Header(a)

Body(a) == IF a.kind = Provide THEN ProvideBody(a) ELSE WithdrawBody(a)

(* Body, header and signature widths.                                      *)
EncodedBytes(a) ==
    91 + 64 + IF a.kind = Withdraw THEN 0
              ELSE 33 + FoldLeft(LAMBDA n, o : n + OfferBytes(o), 0, a.offers)

(* encode_provider_assertion.                                              *)
Encodes(a) ==
    /\ a.kind = Provide => CheckProvideInvariants(a)
    /\ EncodedBytes(a) <= MaxRecordBytes

(* offers.sort_by_key(offer_encoding).                                     *)
Sorted(offers) ==
    SortSeq(offers, LAMBDA a, b : Before(OfferEncoding(a), OfferEncoding(b)))

(* sign_provider_record and sign_provider_withdrawal: the assertions of the *)
(* first are panics, so a draft that breaks one is never signed.           *)
Signable(draft) ==
    draft.kind = Provide =>
        /\ SelfServed(draft.offers, draft.provider)
        /\ Len(draft.offers) <= MaxOffers
        /\ \A i, j \in DOMAIN draft.offers :
              OfferEncoding(draft.offers[i]) = OfferEncoding(draft.offers[j]) => i = j

SignedForm(draft) ==
    IF draft.kind = Provide THEN [draft EXCEPT !.offers = Sorted(@)] ELSE draft

SignatureOf(a) == [by |-> a.provider, of |-> Body(a), canonical |-> TRUE]

-----------------------------------------------------------------------------
(* Decoding.  A parse is the rest of the cells with what was read so far.   *)

Stuck == [ok |-> FALSE, rest |-> <<>>, offers |-> <<>>]

NoOffer == [tag |-> Iroh, node |-> 0, version |-> 0, hash |-> 0, hints |-> <<>>]

(* RelayHints::try_from_nodes.                                             *)
HintsOk(hints) ==
    /\ Len(hints) <= MaxRelayHints
    /\ \A i \in DOMAIN hints : hints[i] \in Identities
    /\ \A i \in 2..Len(hints) : hints[i - 1] < hints[i]

Took(parse, o, n) ==
    [parse EXCEPT !.rest = SubSeq(@, n + 1, Len(@)), !.offers = Append(@, o)]

(* read_offer.                                                             *)
ReadOffer(parse) ==
    LET c == parse.rest
    IN  IF ~parse.ok \/ Len(c) < 2 THEN Stuck
        ELSE IF c[1] = Iroh
        THEN Took(parse, [NoOffer EXCEPT !.node = c[2]], 2)
        ELSE IF Len(c) < 3 THEN Stuck
        ELSE IF c[1] = BitTorrent /\ c[2] \in {1, 2}
        THEN Took(parse, [NoOffer EXCEPT !.tag = BitTorrent, !.version = c[2],
                                         !.hash = c[3]], 3)
        ELSE IF c[1] = Libp2p /\ c[3] <= MaxRelayHints /\ Len(c) >= 3 + c[3]
        THEN LET hints == SubSeq(c, 4, 3 + c[3])
             IN  IF HintsOk(hints)
                 THEN Took(parse, [NoOffer EXCEPT !.tag = Libp2p, !.node = c[2],
                                                  !.hints = hints], 3 + c[3])
                 ELSE Stuck
        ELSE Stuck

ReadOffers(n, cells) ==
    FoldLeft(LAMBDA parse, i : ReadOffer(parse),
             [ok |-> TRUE, rest |-> cells, offers |-> <<>>], [i \in 1..n |-> i])

(* Mutant of Verifies: only the fields of both kinds are covered.          *)
VerifiesHeader(provider, b) ==
    /\ b.sig.canonical
    /\ b.sig \in signatures
    /\ b.sig.by = provider /\ SubSeq(b.sig.of, 1, 7) = SubSeq(b.body, 1, 7)

(* verify: a canonical signature by the provider over this very body.      *)
Verifies(provider, b) ==
    /\ b.sig.canonical
    /\ provider \in Identities
    /\ b.sig \in signatures
    /\ b.sig.by = provider /\ b.sig.of = b.body

(* decode_provider_assertion.                                              *)
Decode(b, expected, t) ==
    LET c == b.body
        head == [kind |-> c[2], key |-> c[3], provider |-> c[4], sequence |-> c[5],
                 issued |-> c[6], expiry |-> c[7]]
        parse == IF c[2] = Provide
                 THEN IF Len(c) < 9 \/ c[9] > MaxOffers THEN Stuck
                      ELSE ReadOffers(c[9], SubSeq(c, 10, Len(c)))
                 ELSE [ok |-> TRUE, rest |-> SubSeq(c, 8, Len(c)), offers |-> <<>>]
        assertion == [kind |-> head.kind, key |-> head.key, provider |-> head.provider,
                      sequence |-> head.sequence, issued |-> head.issued,
                      expiry |-> head.expiry,
                      content |-> IF head.kind = Provide THEN c[8] ELSE 0,
                      offers |-> parse.offers]
    IN  IF Len(c) < 7 THEN Failed("truncated")
        ELSE IF c[1] # RecordSchema THEN Failed("version")
        ELSE IF c[2] \notin {Provide, Withdraw} THEN Failed("kind")
        ELSE IF ~parse.ok THEN Failed("offer")
        ELSE IF c[2] = Provide /\ ~SelfServed(parse.offers, head.provider)
        THEN Failed("delegated")
        ELSE IF ~OffersAreCanonical(parse.offers) THEN Failed("order")
        ELSE IF parse.rest # <<>> THEN Failed("trailing")
        ELSE IF ~Verifies(head.provider, b) THEN Failed("signature")
        ELSE IF head.key # expected THEN Failed("key")
        ELSE IF head.expiry <= t THEN Failed("stale")
        ELSE [ok |-> TRUE, why |-> "accepted", key |-> expected, assertion |-> assertion]

-----------------------------------------------------------------------------
(* Two assertions are signed; one of them is under way.                    *)
CodecInit ==
    /\ \E a, b \in {SignedForm(d) : d \in {d \in Drafts : Signable(d)}} :
          /\ made = {a, b}
          /\ signatures = {SignatureOf(a), SignatureOf(b)}
          /\ bytes = [body |-> Body(a), sig |-> SignatureOf(a)]
    /\ touched = FALSE
    /\ faults = 0 /\ readNow = 0
    /\ reading = Unread

Altered(b) ==
    /\ faults < MaxFaults
    /\ bytes' = b
    /\ touched' = TRUE
    /\ faults' = faults + 1
    /\ reading' = Unread
    /\ UNCHANGED <<made, signatures, readNow>>

Cells == 0..2

(* The network, or a store on the way, hands on something else.            *)
CellChanges == \E i \in DOMAIN bytes.body, c \in Cells :
    Altered([bytes EXCEPT !.body[i] = c])
BytesCut == bytes.body # <<>> /\ Altered([bytes EXCEPT !.body = Front(@)])
BytesAdded == \E c \in Cells : Altered([bytes EXCEPT !.body = Append(@, c)])
SignatureSwapped == \E s \in signatures \ {bytes.sig} : Altered([bytes EXCEPT !.sig = s])
SignatureMalleated == bytes.sig.canonical /\ Altered([bytes EXCEPT !.sig.canonical = FALSE])

Read(expected) ==
    /\ reading = Unread
    /\ reading' = [Decode(bytes, expected, readNow) EXCEPT !.key = expected]
    /\ UNCHANGED <<made, signatures, bytes, touched, faults, readNow>>

TimePasses ==
    /\ readNow < MaxClock
    /\ readNow' = readNow + 1
    /\ reading' = Unread
    /\ UNCHANGED <<made, signatures, bytes, touched, faults>>

CodecNext ==
    \/ CellChanges \/ BytesCut \/ BytesAdded \/ SignatureSwapped \/ SignatureMalleated
    \/ \E k \in ContentKeys : Read(k)
    \/ TimePasses

CodecSpec == CodecInit /\ [][CodecNext]_codecVars

-----------------------------------------------------------------------------
(* A reader takes only what a provider said: an accepted assertion is, down *)
(* to each offer and relay hint, one that its provider signed, for the key  *)
(* asked and not yet expired, and its canonical encoding is the very body   *)
(* that was read, however the bytes were altered on the way                 *)
(* (decode_provider_assertion).                                             *)
AcceptedWasSigned ==
    reading.ok =>
        /\ reading.assertion \in made
        /\ reading.assertion.key = reading.key
        /\ reading.assertion.expiry > readNow
        /\ Body(reading.assertion) = bytes.body

(* Whatever sign_provider_record returns can be published and read: it is   *)
(* encoded without an error, and an unaltered record is refused only for    *)
(* another key or after its expiry (the invariants of signing, of encoding  *)
(* and of decoding agree).                                                  *)
SignedIsReadable ==
    /\ \A a \in made : Encodes(a)
    /\ ~touched /\ reading # Unread /\ ~reading.ok => reading.why \in {"key", "stale"}

-----------------------------------------------------------------------------
(***************************************************************************)
(* The file that carries a node's floors over a restart                     *)
(* (fabric-libp2p/src/persist.rs): one line for each entry, written to a    *)
(* temporary file that replaces the old one.  An active floor's line holds  *)
(* its signed record, a withdrawn floor's only numbers.                     *)
(***************************************************************************)

VARIABLES floors,    \* the entries in memory: set of floors
          saved,     \* what the last completed save was given
          saving,    \* a save under way: its entries, or none
          file,      \* lines of the file; header TRUE if it is readable
          temporary, \* lines of the temporary file
          damage,    \* lines that were damaged since they were written
          loads      \* restarts so far

fileVars == <<floors, saved, saving, file, temporary, damage, loads>>

NoSave == [on |-> FALSE, entries |-> {}]
NoFile == [header |-> FALSE, lines |-> <<>>]

(* The entries: an active floor is its record, a withdrawn one its numbers. *)
Active(a) == [tag |-> "A", key |-> a.key, provider |-> a.provider,
              sequence |-> a.sequence, expiry |-> a.expiry, record |-> a]
WithdrawnFloor(a) == [Active(a) EXCEPT !.tag = "W", !.record = [a EXCEPT !.offers = <<>>,
                                                                        !.content = 0]]

Entries == {Active(a) : a \in {m \in made : m.kind = Provide}}
           \cup {WithdrawnFloor(a) : a \in {m \in made : m.kind = Withdraw}}

(* serialize_floors: a record that cannot be encoded is left out.          *)
LineOf(e) ==
    [tag |-> e.tag, key |-> e.key, provider |-> e.provider, sequence |-> e.sequence,
     expiry |-> e.expiry, record |-> e.record,
     bytes |-> IF e.tag = "A"
               THEN [body |-> Body(e.record), sig |-> SignatureOf(e.record)]
               ELSE [body |-> <<>>, sig |-> SignatureOf(e.record)]]

Writable(e) == e.tag = "W" \/ Encodes(e.record)

SerializeFloors(entries) ==
    [header |-> TRUE, lines |-> SetToSeq({LineOf(e) : e \in {f \in entries : Writable(f)}})]

(* parse_floor_line: the record is decoded as of time 0, so that an expired *)
(* one still counts; a line that does not parse is skipped.                *)
ParseFloorLine(line) ==
    IF line.tag = "W"
    THEN {[tag |-> "W", key |-> line.key, provider |-> line.provider,
           sequence |-> line.sequence, expiry |-> line.expiry, record |-> line.record]}
    ELSE LET d == Decode(line.bytes, line.key, 0)
         IN  IF line.tag = "A" /\ d.ok /\ d.assertion.kind = Provide
             THEN {Active(d.assertion)} ELSE {}

(* deserialize_floors: a file without its header yields nothing.           *)
DeserializeFloors(f) ==
    IF f.header THEN UNION {ParseFloorLine(f.lines[i]) : i \in DOMAIN f.lines} ELSE {}

-----------------------------------------------------------------------------
FileInit ==
    /\ CodecInit
    /\ floors = {} /\ saved = {}
    /\ saving = NoSave
    /\ file = NoFile /\ temporary = NoFile
    /\ damage = {} /\ loads = 0

Changes ==
    /\ ~saving.on
    /\ \E entries \in SUBSET Entries : entries # floors /\ floors' = entries
    /\ UNCHANGED <<codecVars, saved, saving, file, temporary, damage, loads>>

(* write_atomic: the temporary file is written and synced, then renamed.    *)
SaveBegins ==
    /\ ~saving.on /\ saved # floors
    /\ saving' = [on |-> TRUE, entries |-> floors]
    /\ temporary' = SerializeFloors(floors)
    /\ UNCHANGED <<codecVars, floors, saved, file, damage, loads>>

SaveRenames ==
    /\ saving.on
    /\ file' = temporary
    /\ saved' = saving.entries
    /\ saving' = NoSave
    /\ temporary' = NoFile
    /\ damage' = {}
    /\ UNCHANGED <<codecVars, floors, loads>>

(* An I/O error is logged; the old file stays.                             *)
SaveFails ==
    /\ saving.on
    /\ saving' = NoSave
    /\ temporary' \in {temporary, NoFile}
    /\ UNCHANGED <<codecVars, floors, saved, file, damage, loads>>

(* One line of the file is no longer what was written.                     *)
LineDamaged ==
    /\ damage = {}
    /\ \E i \in DOMAIN file.lines :
          /\ damage' = {file.lines[i].record}
          /\ \/ file' = [file EXCEPT !.lines[i].tag = "?"]
             \/ \E c \in DOMAIN file.lines[i].bytes.body, v \in Cells :
                   file' = [file EXCEPT !.lines[i].bytes.body[c] = v]
    /\ UNCHANGED <<codecVars, floors, saved, saving, temporary, loads>>

(* The process stops and starts again: load_floors.                        *)
RestartLoads ==
    /\ loads < 1
    /\ loads' = loads + 1
    /\ floors' = DeserializeFloors(file)
    /\ saving' = NoSave
    /\ UNCHANGED <<codecVars, saved, file, temporary, damage>>

FileNext == Changes \/ SaveBegins \/ SaveRenames \/ SaveFails \/ LineDamaged \/ RestartLoads

FileSpec == FileInit /\ [][FileNext]_<<codecVars, fileVars>>

-----------------------------------------------------------------------------
(* A restart gets back exactly what the last completed save was given,      *)
(* expired records included, whatever happened to a later save; a damaged   *)
(* line costs its own entry and never yields an active floor that no        *)
(* provider signed (load_floors after save_floors).                         *)
LoadIsExact ==
    RestartLoads =>
        /\ {e \in saved : e.record \notin damage} \subseteq floors'
        /\ floors' \subseteq saved

-----------------------------------------------------------------------------
(***************************************************************************)
(* The JSON messages of availability exchange (daemon-core/src/claim.rs)    *)
(* between two builds that may know different transport and payload kinds.  *)
(*                                                                          *)
(* A JSON object is the sequence of its <<name, value>> pairs, so that a    *)
(* name may occur twice.  A value is a string, or one of the values below   *)
(* that is no string; "huge" is a string above the byte cap of an offer.    *)
(* serde_json is external.                                                  *)
(***************************************************************************)

CONSTANTS Builds,            \* each build is the set of kinds it knows
          Locators,          \* locator strings that parse
          HashKeys,
          MaxOffersPerAnswer,\* MAX_OFFERS_PER_ANSWER
          MaxBatchKeys,      \* MAX_BATCH_HOLD_KEYS
          StrayOffers,       \* offer objects that no build writes
          MaxOffersSent      \* bound on the length of a message

VARIABLES sender, receiver,  \* builds
          message,           \* what the sender meant
          wire,              \* the JSON under way
          honest,            \* did the sender's encoder write it?
          outcome            \* what the receiver makes of it

claimVars == <<sender, receiver, message, wire, honest, outcome>>

NoStrings == {"list", "null", "number"}
SchemaVersion == 1

(* The one field of each known transport.                                  *)
LocatorField(kind) ==
    IF kind = "iroh" THEN "node" ELSE IF kind = "bittorrent" THEN "infohash" ELSE "at"

Idle == [kind |-> "none", version |-> 0, offers |-> <<>>, keys |-> <<>>, payload |-> "null"]
Unheard == [ok |-> FALSE, done |-> FALSE, offers |-> <<>>, keys |-> <<>>, payload |-> "null"]
Rejected == [Unheard EXCEPT !.done = TRUE]

-----------------------------------------------------------------------------
(* Offers.                                                                 *)

Names(object) == [i \in DOMAIN object |-> object[i][1]]
Values(object, name) == {object[i][2] : i \in {j \in DOMAIN object : object[j][1] = name}}

(* NoDuplicateKeys, at every depth.                                        *)
NoRepeatedName(object) == IsInjective(Names(object))

WithinByteCap(object) == \A i \in DOMAIN object : object[i][2] # "huge"

KindOf(object) ==
    LET v == Values(object, "transport") IN IF v = {} THEN "null" ELSE CHOOSE x \in v : TRUE

(* serde of KnownTransport, deny_unknown_fields.                           *)
ParsesAsKnown(object) ==
    /\ {object[i][1] : i \in DOMAIN object} = {"transport", LocatorField(KindOf(object))}
    /\ Values(object, LocatorField(KindOf(object))) \subseteq Locators

(* reject_enumeration_shaped_unknown_offer.                                *)
ToleratedUnknown(object) ==
    /\ KindOf(object) \notin NoStrings
    /\ Len(object) <= 2
    /\ \A i \in DOMAIN object : object[i][2] \notin NoStrings

(* deserialize_transport_slots and deserialize_known_transports.           *)
SlotOk(object, build) ==
    /\ WithinByteCap(object)
    /\ IF KindOf(object) \in build THEN ParsesAsKnown(object) ELSE ToleratedUnknown(object)

(* check_single_offer_bindings.                                            *)
KindsAreDistinct(objects, build) == IsInjective([i \in DOMAIN objects |-> KindOf(objects[i])])

BindingsHold(objects, build) ==
    Len(objects) <= MaxOffersPerAnswer /\ KindsAreDistinct(objects, build)

(* keep_known_offers.                                                      *)
KnownOffers(objects, build) ==
    LET known == SelectSeq(objects, LAMBDA o : KindOf(o) \in build)
    IN  [i \in DOMAIN known |->
            [kind |-> KindOf(known[i]),
             locator |-> CHOOSE v \in Values(known[i], LocatorField(KindOf(known[i]))) : TRUE]]

(* check_batch_keys.                                                       *)
BatchKeysOk(keys) == keys # <<>> /\ Len(keys) <= MaxBatchKeys /\ IsInjective(keys)

-----------------------------------------------------------------------------
(* Encoding.                                                               *)

EncodeOffer(o) == << <<"transport", o.kind>>, <<LocatorField(o.kind), o.locator>> >>

(* encode_hold_response, encode_batch_hold_query and encode_claim: the last *)
(* checks nothing but the size.                                            *)
Encodable(m) ==
    /\ m.kind = "hold" => Len(m.offers) <= MaxOffersPerAnswer
                          /\ IsInjective([i \in DOMAIN m.offers |-> m.offers[i].kind])
    /\ m.kind = "batch query" => BatchKeysOk(m.keys)

Encoded(m) == [m EXCEPT !.offers = [i \in DOMAIN m.offers |-> EncodeOffer(m.offers[i])]]

(* Decoding: size, duplicate names, the schema, the version, the bindings.  *)
CommonOk(w) ==
    /\ \A i \in DOMAIN w.offers : NoRepeatedName(w.offers[i])
    /\ w.version = SchemaVersion

(* deserialize_optional_known_payload.                                     *)
PayloadFor(w, build) == IF w.payload \in build THEN w.payload ELSE "null"

DecodeHoldResponse(w, build) ==
    IF /\ CommonOk(w)
       /\ \A i \in DOMAIN w.offers : SlotOk(w.offers[i], build)
       /\ BindingsHold(w.offers, build)
    THEN [Unheard EXCEPT !.ok = TRUE, !.done = TRUE, !.offers = KnownOffers(w.offers, build)]
    ELSE Rejected

DecodeClaim(w, build) ==
    IF CommonOk(w) /\ \A i \in DOMAIN w.offers : SlotOk(w.offers[i], build)
    THEN [Unheard EXCEPT !.ok = TRUE, !.done = TRUE, !.offers = KnownOffers(w.offers, build),
                         !.payload = PayloadFor(w, build)]
    ELSE Rejected

DecodeBatchQuery(w) ==
    IF CommonOk(w) /\ BatchKeysOk(w.keys)
    THEN [Unheard EXCEPT !.ok = TRUE, !.done = TRUE, !.keys = w.keys]
    ELSE Rejected

-----------------------------------------------------------------------------
ClaimInit ==
    /\ sender \in Builds /\ receiver \in Builds
    /\ message = Idle /\ wire = Idle
    /\ honest = FALSE
    /\ outcome = Unheard

OffersOf(build) == [kind : build \cap {"iroh", "bittorrent", "newer", "newest"}, locator : Locators]

Sent(m) ==
    /\ message = Idle
    /\ message' = m
    /\ Encodable(m)
    /\ wire' = Encoded(m)
    /\ honest' = TRUE
    /\ UNCHANGED <<sender, receiver, outcome>>

Upto(S, n) == UNION {[1..k -> S] : k \in 0..n}

SendHold ==
    \E os \in Upto(OffersOf(sender), MaxOffersSent) :
        Sent([Idle EXCEPT !.kind = "hold", !.version = SchemaVersion, !.offers = os])

SendClaim ==
    \E os \in Upto(OffersOf(sender), MaxOffersSent), p \in sender \cap {"whole", "chunked"} :
        Sent([Idle EXCEPT !.kind = "claim", !.version = SchemaVersion, !.offers = os,
                          !.payload = p])

SendBatchQuery ==
    \E keys \in Upto(HashKeys, MaxOffersSent) :
        Sent([Idle EXCEPT !.kind = "batch query", !.version = SchemaVersion, !.keys = keys])

(* Something else arrives in its place.                                    *)
StrayArrives ==
    /\ message = Idle
    /\ \E os \in Upto(StrayOffers, MaxOffersSent), kind \in {"hold", "claim"}, v \in 1..2 :
          wire' = [Idle EXCEPT !.kind = kind, !.version = v, !.offers = os]
    /\ message' = [Idle EXCEPT !.kind = "stray"]
    /\ UNCHANGED <<sender, receiver, honest, outcome>>

Receive ==
    /\ message # Idle /\ ~outcome.done
    /\ outcome' = IF wire.kind = "hold" THEN DecodeHoldResponse(wire, receiver)
                  ELSE IF wire.kind = "claim" THEN DecodeClaim(wire, receiver)
                  ELSE DecodeBatchQuery(wire)
    /\ UNCHANGED <<sender, receiver, message, wire, honest>>

ClaimNext == SendHold \/ SendClaim \/ SendBatchQuery \/ StrayArrives \/ Receive

ClaimSpec == ClaimInit /\ [][ClaimNext]_claimVars

-----------------------------------------------------------------------------
(* Builds of different ages understand each other: whatever one encodes the *)
(* other decodes, and keeps, in order, exactly the offers and the payload   *)
(* of kinds that it knows; the keys of a query arrive as they were          *)
(* (the unknown-kind tolerance of claim.rs).                                *)
BuildsUnderstandEachOther ==
    honest /\ outcome.done =>
        /\ outcome.ok
        /\ outcome.offers = SelectSeq(message.offers, LAMBDA o : o.kind \in receiver)
        /\ outcome.keys = message.keys
        /\ outcome.payload = IF message.payload \in receiver THEN message.payload ELSE "null"

(* An answer that is accepted cannot enumerate: it names at most            *)
(* MAX_OFFERS_PER_ANSWER locators, one for each transport kind, known or    *)
(* not, and no list of them (reject_enumeration_shaped_unknown_offer,       *)
(* check_single_offer_bindings).                                            *)
AnswersDoNotEnumerate ==
    wire.kind = "hold" /\ outcome.ok =>
        LET named == {<<i, j>> \in (DOMAIN wire.offers) \X (1..3) :
                        j \in DOMAIN wire.offers[i] /\ wire.offers[i][j][1] # "transport"}
        IN  /\ Cardinality(named) <= MaxOffersPerAnswer
            /\ \A p \in named : wire.offers[p[1]][p[2]][2] \notin NoStrings
            /\ IsInjective([i \in DOMAIN wire.offers |-> KindOf(wire.offers[i])])
=============================================================================
