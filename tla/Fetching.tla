------------------------------ MODULE Fetching ------------------------------
(***************************************************************************)
(* One fetch of a NAR from a peer: the route, the substream and the header *)
(* (fabric-libp2p/src/transport.rs, swarm.rs), then the body pipeline of   *)
(* nar.rs.                                                                 *)
(*                                                                         *)
(*   peer -> pump -> [wire] -> verifier -> [leaf] -> forwarder -> [out]    *)
(*                                                          -> consumer    *)
(*                                                                         *)
(* The pump and the forwarder are joined in one driver task, the verifier  *)
(* is a blocking thread that holds a permit of the fetch pool, and each    *)
(* [channel] is bounded.  fetch_stream hands the leaves to a consumer that *)
(* may leave at any time; fetch collects them itself.  An absolute         *)
(* deadline drops the driver's work wherever it stands.                    *)
(*                                                                         *)
(* A response body is Leaves frames, then the marker, then the end of the  *)
(* stream.  A frame is right or wrong for its place: what Bao and the      *)
(* framing tell apart.                                                     *)
(***************************************************************************)
EXTENDS Integers, Sequences, FiniteSets, SequencesExt

CONSTANTS Leaves,         \* leaves of the NAR
          OutDepth        \* FETCH_OUT_CHANNEL_DEPTH

ASSUME FetchAssumption == Leaves \in Nat \ {0} /\ OutDepth \in Nat \ {0}

VARIABLES
    mode,       \* "stream" (fetch_stream), "collect" (fetch), "legacy" (fetch through the
                \* adapter for offers of the old tag) or "measured" (no authorized route)
    phase,      \* "offer", "locate", "connect", "open", "request", "header", "permit", "body"
                \* or "over"
    fetchResult,     \* what the caller was told: "none", "ok" or an error
    blame,      \* what the outcome says of the provider: "none" (nothing yet, or a timeout),
                \* "unreachable", "incompatible" or "reached"
    spoke,      \* the provider has answered on the substream
    wrong,      \* the peer has sent a wrong frame, or ended too early
    pump,       \* "idle", "reading", "sending", "failing", "finishing", "ok", "err" or "gone"
    chunk,      \* what the pump is sending: "right" or "wrong"
    fetchWire,       \* BaoWireItem channel, capacity 1
    failure,    \* transport_failure
    verifier,   \* "idle", "reading", "offering", "waiting", "ok" or "err"
    pos,        \* frames the verifier has accepted
    leaf,       \* verified-leaf channel
    released,   \* release_on_next_pull was sent
    forward,    \* "idle", "pulling", "sending", "done", "closed" or "gone"
    out,        \* the hand-off: leaves and "err"
    meter,      \* InflightMeter.current, in leaves
    driver,     \* "idle", "work", "terminal", "deadline" or "over"
    consumer,   \* "none", "open", "eof", "error" or "dropped"
    got         \* leaves the consumer, or the collector, has

wireSide == <<wrong, pump, chunk, fetchWire, failure>>
verifierSide == <<verifier, pos, leaf>>
outSide == <<forward, released, out, meter>>
callSide == <<mode, phase, fetchResult, blame, spoke>>
ends == <<driver, consumer, got>>
fetchVars == <<callSide, wireSide, verifierSide, outSide, ends>>

Errors == {"WrongOffer", "Unavailable", "NotHeld", "TooLarge", "AuthenticationFailed"}

FetchTypeOK ==
    /\ mode \in {"stream", "collect", "legacy", "measured"}
    /\ fetchResult \in {"none", "ok"} \cup Errors
    /\ blame \in {"none", "unreachable", "incompatible", "reached"} /\ spoke \in BOOLEAN
    /\ phase \in {"offer", "locate", "connect", "open", "request", "header", "permit", "body", "over"}
    /\ wrong \in BOOLEAN /\ failure \in BOOLEAN /\ released \in BOOLEAN
    /\ pump \in {"idle", "reading", "sending", "failing", "finishing", "ok", "err", "gone"}
    /\ chunk \in {"right", "wrong"}
    /\ fetchWire \in {<<>>} \cup {<<i>> : i \in {"right", "wrong", "error", "end"}}
    /\ verifier \in {"idle", "reading", "offering", "waiting", "ok", "err"}
    /\ pos \in 0..(Leaves + 1) /\ leaf \in {<<>>, <<"leaf">>}
    /\ forward \in {"idle", "pulling", "sending", "done", "closed", "gone"}
    /\ out \in Seq({"leaf", "err"}) /\ Len(out) <= OutDepth
    /\ meter \in 0..(OutDepth + 1)
    /\ driver \in {"idle", "work", "terminal", "deadline", "over"}
    /\ consumer \in {"none", "open", "eof", "error", "dropped"} /\ got \in 0..Leaves

FetchInit ==
    /\ mode \in {"stream", "collect", "legacy", "measured"}
    /\ phase = IF mode = "measured" THEN "open" ELSE "offer"
    /\ fetchResult = "none" /\ blame = "none" /\ spoke = FALSE
    /\ wrong = FALSE /\ pump = "idle" /\ chunk = "right" /\ fetchWire = <<>> /\ failure = FALSE
    /\ verifier = "idle" /\ pos = 0 /\ leaf = <<>>
    /\ forward = "idle" /\ released = FALSE /\ out = <<>> /\ meter = 0
    /\ driver = "idle" /\ consumer = "none" /\ got = 0

----------------------------------------------------------------------------
(* Before the body.  Each phase may fail, all share the total timeout. *)

bodyVars == <<wireSide, verifierSide, outSide, ends>>

Fails(error, what) ==
    fetchResult' = error /\ phase' = "over" /\ blame' = what /\ UNCHANGED <<mode, spoke, bodyVars>>

Reaches(next) == phase' = next /\ UNCHANGED <<mode, fetchResult, blame, spoke, bodyVars>>

(* The offer is of this transport's kind, its node names a peer.  The        *)
(* adapter takes an offer of the old tag and hands on one without hints.     *)
CollectBegins ==
    /\ phase = "offer" /\ mode = "collect"
    /\ \/ Reaches("locate") \/ \E e \in {"WrongOffer", "Unavailable"} : Fails(e, "none")

StreamBegins ==
    /\ phase = "offer" /\ mode = "stream"
    /\ \/ Reaches("locate") \/ \E e \in {"WrongOffer", "Unavailable"} : Fails(e, "none")

AdapterBegins ==
    /\ phase = "offer" /\ mode = "legacy"
    /\ \/ Reaches("locate") \/ \E e \in {"WrongOffer", "Unavailable"} : Fails(e, "none")

(* establish_authorized_route: a miss, an outage, no route to any candidate. *)
Route ==
    \/ phase = "locate" /\ (Reaches("connect") \/ Fails("Unavailable", "none"))
    \/ phase = "connect" /\ (Reaches("open") \/ Fails("Unavailable", "none"))

(* The substream: unsupported protocol, not opened, timed out; then the      *)
(* request.                                                                  *)
Opens ==
    \/ /\ phase = "open"
       /\ \/ Reaches("request")
          \/ \E what \in {"unreachable", "incompatible"} : Fails("Unavailable", what)
    \/ phase = "request" /\ (Reaches("header") \/ Fails("Unavailable", "reached"))

OpenStream == mode = "stream" /\ Opens

OpenCollecting == mode # "stream" /\ Opens

(* read_nar_header: the status, the codec, the declared size. *)
ReadFetchHeader ==
    /\ phase = "header"
    /\ \/ phase' = "permit" /\ spoke' = TRUE /\ UNCHANGED <<mode, fetchResult, blame, bodyVars>>
       \/ \E e \in {"Unavailable", "NotHeld", "TooLarge"} : Fails(e, "reached")

(* The total timeout of the caller. *)
HeaderDeadline ==
    /\ phase \notin {"offer", "body", "over"}
    /\ mode # "measured"
    /\ Fails("Unavailable", "none")

(* verified_nar_stream_with_pools: the permit, the channels, the verifier;   *)
(* a stream is handed to its consumer, whose driver starts.                  *)
StartBody ==
    /\ phase = "permit"
    /\ phase' = "body"
    /\ pump' = "reading" /\ verifier' = "reading" /\ forward' = "pulling" /\ driver' = "work"
    /\ consumer' = IF mode = "stream" THEN "open" ELSE "none"
    /\ fetchResult' = IF mode = "stream" THEN "ok" ELSE "none"
    /\ UNCHANGED <<mode, blame, spoke, wrong, chunk, fetchWire, failure, pos, leaf, released, out,
                   meter, got>>

----------------------------------------------------------------------------
(* The pump: pump_bao_wire *)

Stopped == verifier \in {"ok", "err"}      \* wire_rx and leaf_tx are gone
WorkLives == driver \in {"work", "terminal"}

pumpOnly == <<callSide, verifierSide, outSide, ends>>

(* A read: a chunk, the end of the stream, an error or the idle timeout.     *)
(* fail() records the failure before it tells the verifier.                  *)
PumpReads ==
    /\ pump = "reading"
    /\ \/ /\ chunk' \in {"right", "wrong"}
          /\ wrong \/ pos + Len(fetchWire) = Leaves + 1 => chunk' = "wrong"
          /\ wrong' = (chunk' = "wrong")
          /\ pump' = "sending"
          /\ UNCHANGED failure
       \/ /\ pump' = "finishing"
          /\ wrong' = (wrong \/ pos + Len(fetchWire) # Leaves + 1)
          /\ UNCHANGED <<chunk, failure>>
       \/ /\ pump' = "failing" /\ failure' = TRUE
          /\ UNCHANGED <<chunk, wrong>>
    /\ UNCHANGED <<fetchWire, pumpOnly>>

StreamItem ==
    CASE pump = "sending" -> chunk
      [] pump = "failing" -> "error"
      [] pump = "finishing" -> "end"

(* Each send waits for room, or learns that the verifier has stopped. *)
PumpSends ==
    /\ pump \in {"sending", "failing", "finishing"}
    /\ \/ Stopped /\ pump' = "err" /\ UNCHANGED fetchWire
       \/ /\ ~Stopped
          /\ fetchWire = <<>>
          /\ fetchWire' = <<StreamItem>>
          /\ pump' = CASE pump = "sending" -> "reading"
                       [] pump = "failing" -> "err"
                       [] pump = "finishing" -> "ok"
    /\ UNCHANGED <<wrong, chunk, failure, pumpOnly>>

PumpSeesStop ==
    /\ pump = "reading"
    /\ Stopped
    /\ pump' = "err"
    /\ UNCHANGED <<wrong, chunk, fetchWire, failure, pumpOnly>>

----------------------------------------------------------------------------
(* The verifier: decode_verified over BlockingBaoWireReader *)

verifierOnly == <<callSide, wrong, pump, chunk, failure, forward, out, meter, ends>>

(* The leaf before which the marker and the end of the stream are read is    *)
(* the last one: it is held back until both were seen.                       *)
Accepts(item) ==
    CASE item = "right" -> [to |-> IF pos + 1 < Leaves THEN "offering" ELSE "reading",
                            pos |-> pos + 1]
      [] item = "end" /\ pos = Leaves + 1 -> [to |-> "offering", pos |-> pos]
      [] OTHER -> [to |-> "err", pos |-> pos]

VerifierReads ==
    /\ verifier = "reading"
    /\ \/ /\ fetchWire # <<>>
          /\ verifier' = Accepts(Head(fetchWire)).to
          /\ pos' = Accepts(Head(fetchWire)).pos
       \/ /\ fetchWire = <<>>
          /\ ~WorkLives
          /\ verifier' = "err"
          /\ UNCHANGED pos
    /\ fetchWire' = <<>>
    /\ UNCHANGED <<leaf, released, verifierOnly>>

(* on_leaf: the leaf is sent and its release awaited. *)
VerifierOffers ==
    /\ verifier = "offering"
    /\ IF WorkLives
       THEN verifier' = "waiting" /\ leaf' = <<"leaf">> /\ released' = FALSE
       ELSE verifier' = "err" /\ UNCHANGED <<leaf, released>>
    /\ UNCHANGED <<pos, fetchWire, verifierOnly>>

(* Mutant of VerifierReleased: a dropped release is not noticed. *)
VerifierAwaitsRelease ==
    /\ verifier = "waiting"
    /\ released /\ verifier' = IF pos = Leaves + 1 THEN "ok" ELSE "reading"
    /\ UNCHANGED <<pos, leaf, released, fetchWire, verifierOnly>>

VerifierReleased ==
    /\ verifier = "waiting"
    /\ \/ released /\ verifier' = IF pos = Leaves + 1 THEN "ok" ELSE "reading"
       \/ ~released /\ ~WorkLives /\ verifier' = "err"
    /\ UNCHANGED <<pos, leaf, released, fetchWire, verifierOnly>>

----------------------------------------------------------------------------
(* The forwarder, or collector: next_leaf *)

forwardOnly == <<callSide, wireSide, verifier, pos, driver, consumer>>

(* A received leaf is charged and sent; the next pull releases it.  The      *)
(* collector pulls again at once.                                            *)
ForwardReceives ==
    /\ forward = "pulling"
    /\ \/ /\ leaf # <<>>
          /\ leaf' = <<>>
          /\ IF mode = "stream"
             THEN forward' = "sending" /\ meter' = meter + 1 /\ UNCHANGED <<got, released>>
             ELSE got' = got + 1 /\ released' = TRUE /\ UNCHANGED <<forward, meter>>
       \/ /\ leaf = <<>>
          /\ Stopped
          /\ forward' = "done"
          /\ UNCHANGED <<leaf, meter, got, released>>
    /\ UNCHANGED <<out, forwardOnly>>

ForwardSends ==
    /\ forward = "sending"
    /\ \/ /\ consumer = "dropped"
          /\ meter' = meter - 1
          /\ forward' = "closed"
          /\ UNCHANGED <<out, released>>
       \/ /\ consumer # "dropped"
          /\ Len(out) < OutDepth
          /\ out' = Append(out, "leaf")
          /\ forward' = "pulling"
          /\ released' = TRUE
          /\ UNCHANGED meter
    /\ UNCHANGED <<leaf, got, forwardOnly>>

----------------------------------------------------------------------------
(* The driver *)

(* Mutant of Verdict: the transport failure is not looked up. *)
VerdictOfVerifier ==
    CASE verifier = "ok" /\ pump = "ok" -> "ok"
      [] verifier = "err" -> "AuthenticationFailed"
      [] OTHER -> "Unavailable"

(* The verdict of finish() and of the pump. *)
Verdict ==
    CASE verifier = "ok" /\ pump = "ok" -> "ok"
      [] verifier = "err" /\ ~failure -> "AuthenticationFailed"
      [] OTHER -> "Unavailable"

(* Pump and forwarder have ended: a stream gets a last error or just ends.   *)
DriverJoins ==
    /\ mode = "stream"
    /\ driver = "work"
    /\ pump \in {"ok", "err"} /\ forward \in {"closed", "done"}
    /\ driver' = IF forward = "done" /\ Verdict # "ok" THEN "terminal" ELSE "over"
    /\ UNCHANGED <<callSide, wireSide, verifierSide, outSide, consumer, got>>

(* The collecting caller gets the bytes and their accounting, or the error   *)
(* of a provider that was reached.                                           *)
CollectorJoins ==
    /\ mode # "stream"
    /\ driver = "work"
    /\ pump \in {"ok", "err"} /\ forward = "done"
    /\ driver' = "over" /\ phase' = "over"
    /\ fetchResult' = Verdict
    /\ blame' = IF Verdict = "ok" THEN "none" ELSE "reached"
    /\ UNCHANGED <<mode, spoke, wireSide, verifierSide, outSide, consumer, got>>

DriverTells ==
    /\ driver \in {"terminal", "deadline"}
    /\ driver' = "over"
    /\ \/ consumer = "dropped" /\ UNCHANGED out
       \/ consumer # "dropped" /\ Len(out) < OutDepth /\ out' = Append(out, "err")
    /\ UNCHANGED <<callSide, wireSide, verifierSide, forward, released, meter, consumer, got>>

(* Everything the driver's work owns is dropped. *)
DropWork ==
    /\ pump' = IF pump \in {"ok", "err"} THEN pump ELSE "gone"
    /\ forward' = IF forward \in {"done", "closed"} THEN forward ELSE "gone"
    /\ leaf' = <<>>
    /\ UNCHANGED <<wrong, chunk, fetchWire, failure, verifier, pos, released, out, meter, consumer, got>>

(* The absolute deadline. *)
Deadline ==
    /\ driver \in {"work", "terminal"}
    /\ mode # "measured"
    /\ driver' = IF mode = "stream" THEN "deadline" ELSE "over"
    /\ fetchResult' = IF mode = "stream" THEN fetchResult ELSE "Unavailable"
    /\ phase' = IF mode = "stream" THEN phase ELSE "over"
    /\ DropWork
    /\ UNCHANGED <<mode, blame, spoke>>

(* The consumer has dropped the stream, which aborts the driver. *)
FetchAbortTakesEffect ==
    /\ consumer = "dropped"
    /\ driver # "over"
    /\ driver' = "over"
    /\ DropWork
    /\ UNCHANGED callSide

----------------------------------------------------------------------------
(* The consumer of a stream *)

consumerOnly == <<callSide, wireSide, verifierSide, forward, released, driver>>

FetchNextChunk ==
    /\ consumer = "open"
    /\ \/ /\ out # <<>>
          /\ out' = Tail(out)
          /\ IF Head(out) = "leaf"
             THEN got' = got + 1 /\ meter' = meter - 1 /\ UNCHANGED consumer
             ELSE consumer' = "error" /\ UNCHANGED <<got, meter>>
       \/ /\ out = <<>>
          /\ driver = "over"
          /\ consumer' = "eof"
          /\ UNCHANGED <<out, got, meter>>
    /\ UNCHANGED consumerOnly

DropStream ==
    /\ consumer \in {"open", "eof", "error"}
    /\ consumer' = "dropped"
    /\ out' = <<>>
    /\ UNCHANGED <<got, meter, consumerOnly>>

----------------------------------------------------------------------------
PumpStep == PumpReads \/ PumpSends \/ PumpSeesStop
VerifierStep == VerifierReads \/ VerifierOffers \/ VerifierReleased
DriverStep ==
    \/ ForwardReceives \/ ForwardSends \/ DriverJoins \/ CollectorJoins \/ DriverTells
    \/ FetchAbortTakesEffect

(* What moves without the deadline, the consumer pulling. *)
Flow == PumpStep \/ VerifierStep \/ DriverStep \/ FetchNextChunk

FetchNext ==
    \/ CollectBegins \/ StreamBegins \/ AdapterBegins
    \/ Route \/ OpenStream \/ OpenCollecting \/ ReadFetchHeader \/ HeaderDeadline \/ StartBody
    \/ PumpStep \/ VerifierStep \/ DriverStep
    \/ Deadline \/ FetchNextChunk \/ DropStream

(* Tasks, the verifier thread and timers run; the consumer need not pull. *)
FetchProgress == PumpStep \/ VerifierStep \/ DriverStep \/ Deadline \/ HeaderDeadline

FetchSpec == FetchInit /\ [][FetchNext]_fetchVars /\ WF_fetchVars(FetchProgress)

----------------------------------------------------------------------------
(* A clean end is a whole NAR: every leaf was delivered, and the peer sent   *)
(* nothing wrong and ended in the right place; the last leaf is out of the   *)
(* verifier only then.  The consumer takes the end of the channel for        *)
(* success (MeteredNarStream: "Clean completion yields None"), and the       *)
(* channel also closes when the driver's work is dropped.                    *)
CleanEndIsWhole ==
    /\ consumer = "eof" \/ (mode # "stream" /\ fetchResult = "ok") =>
         got = Leaves /\ verifier = "ok" /\ pump = "ok"
    /\ got = Leaves => ~wrong /\ ~failure /\ pos = Leaves + 1

(* The leaves resident on the fetch side are the queued ones, the one being  *)
(* sent and the one the verifier holds, whatever the size of the NAR, and    *)
(* the meter counts the first two (FETCH_OUT_CHANNEL_DEPTH).                 *)
HandoffIsBounded ==
    /\ driver = "work" /\ consumer = "open" =>
         meter = Len(out) + (IF forward = "sending" THEN 1 ELSE 0)
    /\ meter <= OutDepth + 1
    /\ forward = "sending" => verifier = "waiting" /\ ~released /\ leaf = <<>>

(* A peer is told to have failed authentication only if it sent a wrong      *)
(* frame or ended too early, never for a reset or a stall, although the      *)
(* verifier sees those too as a failed read; and a provider is unreachable   *)
(* only if it has said nothing at all.                                       *)
BlameIsFair ==
    /\ fetchResult = "AuthenticationFailed" => wrong
    /\ blame \in {"unreachable", "incompatible"} => ~spoke

(* As long as the consumer pulls, nothing in the pipeline waits for          *)
(* everything else: before the end some step other than the deadline can be  *)
(* taken, so that the deadline is never what ends a healthy transfer.        *)
PipelineNeverStuck ==
    /\ phase = "body" /\ driver # "over" => ENABLED Flow
    /\ consumer = "open" /\ driver = "over" => ENABLED FetchNextChunk

(* Where every behaviour ends, whatever the peer and the consumer do: the    *)
(* verifier thread has ended and its permit is back in the fetch pool.       *)
PermitHasReturned == verifier \in {"idle", "ok", "err"}

-----------------------------------------------------------------------------
(***************************************************************************)
(* One /nar/4 exchange: a provider proves and frames a NAR leaf by leaf      *)
(* (fabric-libp2p/src/nar_v4.rs, write_memory_nar_v4 and                     *)
(* write_process_nar_v4 of nar.rs), a fetcher checks and unpacks it          *)
(* (decode_verified, read_response_streamed_since), each leaf raw or as one *)
(* zstd frame (peer-fabric/src/codec.rs).  The NAR is read once to prove it *)
(* and once more to send it, and may differ the second time; the wire may   *)
(* be cut or altered anywhere.                                              *)
(*                                                                          *)
(* A byte of a NAR is 3 or 4; a hash is the sequence of what was hashed,     *)
(* with marks that make it unambiguous.  zstd is external: a frame is a     *)
(* start mark, what it holds and an end mark, and one byte may stand for    *)
(* many.                                                                    *)
(***************************************************************************)

CONSTANTS Nars,        \* the NARs a provider may be asked for
          LeafBytes,   \* bytes in a full leaf
          Slack,       \* how much longer than its leaf a frame may be
          MinCompress, \* ServeCodecPolicy::min_compress_bytes
          MaxAlterations

ASSUME ExchangeAssumption == LeafBytes \in Nat \ {0} /\ Slack \in Nat

VARIABLES ask,       \* what is requested, with what is accepted
          supply,    \* what the provider has: source kind, first and second reading
          sender,    \* the serving side
          wire,      \* tokens under way; closed when the sender is done
          altered,
          fetcher    \* the fetching side

exchangeVars == <<ask, supply, sender, wire, altered, fetcher>>

-----------------------------------------------------------------------------
(* Hashes and the tree: BaoTree over blocks of LeafBytes (external).       *)
Mark(root) == IF root THEN 8 ELSE 9
hash_subtree(start, data, root) == <<1, start>> \o data \o <<Mark(root)>>
parent_hash(left, right, root) == <<2>> \o left \o right \o <<Mark(root)>>

LeafCount(size) == IF size = 0 THEN 1 ELSE (size + LeafBytes - 1) \div LeafBytes
Split(n) == CHOOSE k \in {2^i : i \in 0..3} : k < n /\ 2 * k >= n

Item(kind, from, size, root) == [kind |-> kind, from |-> from, size |-> size, root |-> root]

RECURSIVE ResponseIter(_, _, _, _), TreeHash(_, _, _, _), PairsOf(_, _, _, _)
ResponseIter(size, from, n, root) ==
    IF n = 1
    THEN <<Item("leaf", from, IF size - from < LeafBytes THEN size - from ELSE LeafBytes, root)>>
    ELSE <<Item("parent", from, 0, root)>>
         \o ResponseIter(size, from, Split(n), FALSE)
         \o ResponseIter(size, from + Split(n) * LeafBytes, n - Split(n), FALSE)

TreeHash(data, from, n, root) ==
    IF n = 1 THEN hash_subtree(from, SubSeq(data, from + 1,
                      IF from + LeafBytes < Len(data) THEN from + LeafBytes ELSE Len(data)), root)
    ELSE parent_hash(TreeHash(data, from, Split(n), FALSE),
                     TreeHash(data, from + Split(n) * LeafBytes, n - Split(n), FALSE), root)

PairsOf(data, from, n, root) ==
    IF n = 1 THEN <<>>
    ELSE <<[left |-> TreeHash(data, from, Split(n), FALSE),
            right |-> TreeHash(data, from + Split(n) * LeafBytes, n - Split(n), FALSE)]>>
         \o PairsOf(data, from, Split(n), FALSE)
         \o PairsOf(data, from + Split(n) * LeafBytes, n - Split(n), FALSE)

Items(size) == ResponseIter(size, 0, LeafCount(size), TRUE)
Root(data) == TreeHash(data, 0, LeafCount(Len(data)), TRUE)
Outboard(data) == [root |-> Root(data), pairs |-> PairsOf(data, 0, LeafCount(Len(data)), TRUE)]

-----------------------------------------------------------------------------
(* The codec.                                                              *)
FrameStart == 10
FrameEnd == 11
Skippable == 12
Repeated == 13      \* stands for LeafBytes + 1 bytes

NoCommonCodec == "none"

negotiate_serve_codec(accept, zstdEnabled, rawLen) ==
    IF "zstd" \in accept /\ zstdEnabled /\ rawLen >= MinCompress THEN "zstd"
    ELSE IF "raw" \in accept THEN "raw" ELSE NoCommonCodec

zstd_compress_bound(n) == n + Slack
MaxEncodedLeafBytes == LeafBytes + Slack

(* encoded_leaf.                                                           *)
EncodedLeaf(raw) == <<FrameStart>> \o raw \o <<FrameEnd>>

Undecoded == [why |-> "ok", buf |-> <<>>, started |-> FALSE, complete |-> FALSE]

(* BoundedZstdDecoder::push, a byte of input at a time.                    *)
PushByte(cap, d, byte) ==
    LET more == IF byte = Repeated THEN [i \in 1..(LeafBytes + 1) |-> 3]
               ELSE IF byte \in {3, 4} THEN <<byte>> ELSE <<>>
    IN  IF d.why # "ok" THEN d
        ELSE IF d.complete THEN [d EXCEPT !.why = "trailing"]
        ELSE IF ~d.started /\ byte \notin {FrameStart, Skippable} THEN [d EXCEPT !.why = "zstd"]
        ELSE IF Len(d.buf) + Len(more) > cap THEN [d EXCEPT !.why = "output too large"]
        ELSE [why |-> "ok", buf |-> d.buf \o more, started |-> TRUE,
              complete |-> byte \in {FrameEnd, Skippable}]

Push(cap, frame) ==
    IF Len(frame) > zstd_compress_bound(cap) THEN [Undecoded EXCEPT !.why = "input too large"]
    ELSE FoldLeft(LAMBDA d, b : PushByte(cap, d, b), Undecoded, frame)

(* BoundedZstdDecoder::finish.                                             *)
FinishDecode(d) ==
    IF d.why # "ok" THEN d
    ELSE IF ~d.started \/ ~d.complete THEN [d EXCEPT !.why = "truncated"]
    ELSE IF d.buf = <<>> THEN [d EXCEPT !.why = "empty"] ELSE d

(* read_leaf: what is left of a leaf's bytes, or why it is refused.        *)
ReadLeaf(bytes, size, codec) ==
    LET d == FinishDecode(Push(size, bytes))
        empty == d.why = "empty" /\ size = 0
    IN  IF codec = "raw"
        THEN [ok |-> Len(bytes) = size, raw |-> bytes]
        ELSE [ok |-> /\ Len(bytes) <= MaxEncodedLeafBytes
                     /\ ~(bytes # <<>> /\ bytes[1] = Skippable)
                     /\ d.why = "ok" \/ empty
                     /\ Len(d.buf) = size,
              raw |-> d.buf]

-----------------------------------------------------------------------------
(* Tokens of the wire, and how many bytes each is.                         *)
NoToken == [kind |-> "none", left |-> <<>>, right |-> <<>>, bytes |-> <<>>, size |-> 0, codec |-> "raw"]
HeaderToken(codec, size) == [NoToken EXCEPT !.kind = "nar", !.codec = codec, !.size = size]
StatusToken(kind) == [NoToken EXCEPT !.kind = kind]
PairToken(p) == [NoToken EXCEPT !.kind = "pair", !.left = p.left, !.right = p.right]
LeafToken(bytes) == [NoToken EXCEPT !.kind = "leaf", !.bytes = bytes]

RequestProtocolBytes == 33
ResponseHeaderBytes == 10
CompleteMarkerBytes == 4
PairBytes == 64
PrefixBytes == 4

WireSize(t, codec) ==
    IF t.kind = "nar" THEN ResponseHeaderBytes
    ELSE IF t.kind = "pair" THEN PairBytes
    ELSE IF t.kind = "leaf" THEN Len(t.bytes) + (IF codec = "zstd" THEN PrefixBytes ELSE 0)
    ELSE CompleteMarkerBytes

NoAccount == [ok |-> FALSE, proof |-> 0, leaves |-> 0, response |-> 0, exchange |-> 0]

(* NarV4WireAccounting::from_framed_bao_bytes.                             *)
Accounting(rawSize, codec, framed) ==
    LET leaves == LeafCount(rawSize)
        proof == (leaves - 1) * PairBytes
        fixed == proof + (IF codec = "zstd" THEN leaves * PrefixBytes ELSE 0)
        response == ResponseHeaderBytes + framed + CompleteMarkerBytes
    IN  [ok |-> framed >= fixed /\ (codec = "raw" => framed - fixed = rawSize),
         proof |-> proof, leaves |-> framed - fixed, response |-> response,
         exchange |-> RequestProtocolBytes + response]

-----------------------------------------------------------------------------
(* The sender.                                                             *)
NewSender == [at |-> "request", codec |-> NoCommonCodec, todo |-> <<>>, pairs |-> <<>>,
              expected |-> <<>>, read |-> 0, framed |-> 0, put |-> 0, payload |-> 0, account |-> NoAccount]

Send(t, s) ==
    /\ wire' = [wire EXCEPT !.tokens = Append(@, t)]
    /\ sender' = [s EXCEPT !.put = @ + WireSize(t, s.codec)]

Close(s) == wire' = [wire EXCEPT !.closed = TRUE] /\ sender' = [s EXCEPT !.at = "closed"]

(* A reply without a body: write_response, and the stream is closed.       *)
ExchangeReply(kind) ==
    /\ wire' = [tokens |-> Append(wire.tokens, StatusToken(kind)), closed |-> TRUE]
    /\ sender' = [sender EXCEPT !.at = "closed"]

(* serve_stream_with_process_pools after the request is read.              *)
Admit ==
    /\ sender.at = "request"
    /\ LET codec == negotiate_serve_codec(ask.accept, supply.zstd, supply.declared)
       IN  IF supply.kind = "none" THEN ExchangeReply("not held")
           ELSE IF supply.kind = "memory" /\ Len(supply.first) # supply.declared
           THEN ExchangeReply("declined")
           ELSE IF codec = NoCommonCodec THEN ExchangeReply("declined")
           ELSE sender' = [sender EXCEPT !.at = "prove", !.codec = codec] /\ UNCHANGED wire
    /\ UNCHANGED <<ask, supply, altered, fetcher>>

(* create_outboard on the first reading, and the check of its root.        *)
Prove ==
    /\ sender.at = "prove"
    /\ IF Len(supply.first) # supply.declared \/ Root(supply.first) # ask.root
       THEN Close(sender)
       ELSE LET o == Outboard(supply.first)
            IN  Send(HeaderToken(sender.codec, supply.declared),
                     [sender EXCEPT !.at = "encode", !.todo = Items(supply.declared),
                                    !.pairs = o.pairs, !.expected = <<o.root>>])
    /\ UNCHANGED <<ask, supply, altered, fetcher>>

(* encode_validated: a parent's pair, against the hash that is expected.    *)
EncodeParent ==
    /\ sender.at = "encode" /\ sender.todo # <<>> /\ sender.todo[1].kind = "parent"
    /\ LET p == sender.pairs[1]
           wanted == Last(sender.expected)
       IN  IF parent_hash(p.left, p.right, sender.todo[1].root) # wanted
           THEN Close(sender)
           ELSE Send(PairToken(p),
                     [sender EXCEPT !.todo = Tail(@), !.pairs = Tail(@), !.framed = @ + PairBytes,
                                    !.expected = Front(@) \o <<p.right, p.left>>])
    /\ UNCHANGED <<ask, supply, altered, fetcher>>

LeafHolds(item, raw, wanted) ==
    Len(raw) = item.size /\ hash_subtree(item.from, raw, item.root) = wanted

(* A leaf of the second reading; what is sent is what was just checked.    *)
EncodeLeaf ==
    /\ sender.at = "encode" /\ sender.todo # <<>> /\ sender.todo[1].kind = "leaf"
    /\ LET item == sender.todo[1]
           end == IF item.from + item.size < Len(supply.second)
                  THEN item.from + item.size ELSE Len(supply.second)
           raw == SubSeq(supply.second, item.from + 1, end)
           bytes == IF sender.codec = "zstd" THEN EncodedLeaf(raw) ELSE raw
       IN  IF ~LeafHolds(item, raw, Last(sender.expected)) THEN Close(sender)
           ELSE Send(LeafToken(bytes),
                     [sender EXCEPT !.todo = Tail(@), !.expected = Front(@),
                                    !.read = @ + Len(raw), !.payload = @ + Len(bytes),
                                    !.framed = @ + WireSize(LeafToken(bytes), sender.codec)])
    /\ UNCHANGED <<ask, supply, altered, fetcher>>

(* The end of encode_validated and of encode_validated_reader: every hash    *)
(* used, every byte read, and not one byte more to read.                    *)
ReplayHolds ==
    /\ sender.expected = <<>>
    /\ sender.read = supply.declared
    /\ Len(supply.second) <= supply.declared

(* The accounting and the marker.                                          *)
Complete ==
    /\ sender.at = "encode" /\ sender.todo = <<>>
    /\ IF ~ReplayHolds
       THEN Close(sender)
       ELSE Send(StatusToken("marker"),
                 [sender EXCEPT !.at = "close",
                     !.account = Accounting(supply.declared, sender.codec, sender.framed)])
    /\ UNCHANGED <<ask, supply, altered, fetcher>>

CloseResponse ==
    /\ sender.at = "close"
    /\ Close(sender)
    /\ UNCHANGED <<ask, supply, altered, fetcher>>

-----------------------------------------------------------------------------
(* The wire: a token is lost with all after it, doubled, dropped or changed. *)
Alterations(t) ==
    {[t EXCEPT !.left = t.right, !.right = t.left],
     [t EXCEPT !.size = @ + 1],
     [t EXCEPT !.codec = IF @ = "raw" THEN "zstd" ELSE "raw"],
     [t EXCEPT !.bytes = Append(@, 3)],
     [t EXCEPT !.bytes = Append(@, FrameEnd)],
     [t EXCEPT !.bytes = IF @ = <<>> THEN @ ELSE Front(@)],
     [t EXCEPT !.bytes = IF @ = <<>> THEN @ ELSE Reverse(@)],
     [t EXCEPT !.bytes = <<Skippable>>],
     [t EXCEPT !.bytes = <<FrameStart, Repeated, FrameEnd>>],
     [t EXCEPT !.kind = "marker"], [t EXCEPT !.kind = "leaf"]}

Alter ==
    /\ altered < MaxAlterations /\ wire.tokens # <<>>
    /\ altered' = altered + 1
    /\ wire' \in {[wire EXCEPT !.tokens[1] = t] : t \in Alterations(wire.tokens[1]) \ {wire.tokens[1]}}
                 \cup {[tokens |-> <<>>, closed |-> TRUE],
                       [wire EXCEPT !.tokens = Tail(@)],
                       [wire EXCEPT !.tokens = <<@[1]>> \o @]}
    /\ sender' = IF wire'.closed THEN [sender EXCEPT !.at = "closed"] ELSE sender
    /\ UNCHANGED <<ask, supply, fetcher>>

-----------------------------------------------------------------------------
(* The fetcher.                                                            *)
NewFetcher == [at |-> "header", codec |-> NoCommonCodec, todo |-> <<>>, expected |-> <<>>,
               read |-> 0, size |-> 0, held |-> <<>>, out |-> <<>>, result |-> "none"]

EndOfWire == wire.tokens = <<>> /\ wire.closed

Give(result) == fetcher' = [fetcher EXCEPT !.at = "done", !.result = result]
TakeToken == wire.tokens # <<>> /\ wire' = [wire EXCEPT !.tokens = Tail(@)]

(* read_nar_header.                                                        *)
ReadHeader ==
    /\ fetcher.at = "header"
    /\ TakeToken
    /\ LET t == wire.tokens[1]
       IN  IF t.kind # "nar" THEN Give(IF t.kind = "not held" THEN "not held" ELSE "unavailable")
           ELSE IF t.codec \notin ask.accept \/ t.size # ask.size THEN Give("unavailable")
           ELSE fetcher' = [fetcher EXCEPT !.at = "body", !.codec = t.codec, !.size = t.size,
                                           !.todo = Items(t.size), !.expected = <<ask.root>>]
    /\ UNCHANGED <<ask, supply, sender, altered>>

(* decode_verified.                                                        *)
DecodeParent ==
    /\ fetcher.at = "body" /\ fetcher.todo # <<>> /\ fetcher.todo[1].kind = "parent"
    /\ TakeToken
    /\ LET t == wire.tokens[1]
       IN  IF t.kind # "pair"
              \/ parent_hash(t.left, t.right, fetcher.todo[1].root) # Last(fetcher.expected)
           THEN Give("unavailable")
           ELSE fetcher' = [fetcher EXCEPT !.todo = Tail(@),
                                           !.expected = Front(@) \o <<t.right, t.left>>]
    /\ UNCHANGED <<ask, supply, sender, altered>>

(* The last leaf is kept back until the marker has been seen.              *)
DecodeLeaf ==
    /\ fetcher.at = "body" /\ fetcher.todo # <<>> /\ fetcher.todo[1].kind = "leaf"
    /\ TakeToken
    /\ LET t == wire.tokens[1]
           item == fetcher.todo[1]
           leafRead == ReadLeaf(t.bytes, item.size, fetcher.codec)
           read == fetcher.read + Len(leafRead.raw)
       IN  IF \/ t.kind # "leaf" \/ ~leafRead.ok
              \/ hash_subtree(item.from, leafRead.raw, item.root) # Last(fetcher.expected)
              \/ read > fetcher.size
           THEN Give("unavailable")
           ELSE fetcher' = [fetcher EXCEPT !.todo = Tail(@), !.expected = Front(@), !.read = read,
                                !.held = IF read = fetcher.size THEN leafRead.raw ELSE @,
                                !.out = IF read = fetcher.size THEN @ ELSE @ \o leafRead.raw]
    /\ UNCHANGED <<ask, supply, sender, altered>>

ReadMarker ==
    /\ fetcher.at = "body" /\ fetcher.todo = <<>>
    /\ TakeToken
    /\ IF wire.tokens[1].kind # "marker" \/ fetcher.expected # <<>>
       THEN Give("unavailable")
       ELSE fetcher' = [fetcher EXCEPT !.at = "end"]
    /\ UNCHANGED <<ask, supply, sender, altered>>

(* Nothing may follow the marker; then the last leaf is let go, and         *)
(* read_response_streamed_since returns the whole.                         *)
ReadEnd ==
    /\ fetcher.at = "end"
    /\ wire.tokens # <<>> \/ wire.closed
    /\ fetcher' = IF wire.tokens # <<>> \/ fetcher.read # fetcher.size
                  THEN [fetcher EXCEPT !.at = "done", !.result = "unavailable"]
                  ELSE [fetcher EXCEPT !.at = "done", !.result = "nar", !.out = @ \o fetcher.held]
    /\ UNCHANGED <<ask, supply, sender, wire, altered>>

WireEnds ==
    /\ fetcher.at \in {"header", "body"} /\ EndOfWire
    /\ Give("unavailable")
    /\ UNCHANGED <<ask, supply, sender, wire, altered>>

-----------------------------------------------------------------------------
ExchangeReadings(nar) == {nar, Append(nar, 3), Reverse(nar)} \cup (IF nar = <<>> THEN {} ELSE {Front(nar)})

ExchangeInit ==
    /\ \E nar \in Nars, accept \in SUBSET {"raw", "zstd"} :
          /\ ask = [root |-> Root(nar), size |-> Len(nar), accept |-> accept, nar |-> nar]
          /\ supply \in [kind : {"process"}, first : ExchangeReadings(nar), second : ExchangeReadings(nar),
                         declared : {Len(nar)}, zstd : BOOLEAN]
                        \cup {[kind |-> "none", first |-> nar, second |-> nar,
                               declared |-> Len(nar), zstd |-> TRUE]}
                        \cup {[kind |-> "memory", first |-> d, second |-> d,
                               declared |-> Len(nar), zstd |-> TRUE] : d \in ExchangeReadings(nar)}
    /\ sender = NewSender
    /\ wire = [tokens |-> <<>>, closed |-> FALSE]
    /\ altered = 0
    /\ fetcher = NewFetcher

ExchangeNext ==
    \/ Admit \/ Prove \/ EncodeParent \/ EncodeLeaf \/ Complete \/ CloseResponse
    \/ Alter
    \/ ReadHeader \/ DecodeParent \/ DecodeLeaf \/ ReadMarker \/ ReadEnd \/ WireEnds

ExchangeSpec == ExchangeInit /\ [][ExchangeNext]_exchangeVars

-----------------------------------------------------------------------------
Able == /\ supply.kind # "none"
        /\ supply.first = ask.nar /\ supply.second = ask.nar
        /\ negotiate_serve_codec(ask.accept, supply.zstd, supply.declared) # NoCommonCodec

(* Whatever the provider reads the second time and whatever happens to the  *)
(* wire, the fetcher passes on only leaves of the NAR it asked for, in      *)
(* order, and returns it whole or not at all (decode_verified); and a       *)
(* provider puts no byte of another NAR on the wire (encode_validated).     *)
OnlyTheRequestedNar ==
    /\ IsPrefix(fetcher.out, ask.nar)
    /\ fetcher.result = "nar" => fetcher.out = ask.nar
    /\ fetcher.result # "nar" => fetcher.out = <<>> \/ Len(fetcher.out) < Len(ask.nar)
    /\ sender.read > 0 => IsPrefix(SubSeq(supply.second, 1, sender.read), ask.nar)

(* A provider that has the NAR and shares a codec with the fetcher gets it  *)
(* across an undisturbed wire, and its accounting of the exchange is the    *)
(* bytes that were written (from_framed_bao_bytes).                         *)
ExchangeIsComplete ==
    /\ altered = 0 /\ Able /\ fetcher.at = "done" => fetcher.result = "nar"
    /\ sender.account # NoAccount =>
          /\ sender.account.ok /\ sender.account.response = sender.put
          /\ sender.account.leaves = sender.payload
=============================================================================
