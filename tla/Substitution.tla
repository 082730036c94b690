---------------------------- MODULE Substitution ----------------------------
(***************************************************************************)
(* The substitution path (daemon-core: server.rs, peer_source.rs,          *)
(* discovery.rs, rewrite.rs, catalog.rs, upstream.rs).  A client asks for  *)
(* a narinfo and later, by the token in its URL, for the NAR.  The narinfo *)
(* handler decides by a directory probe whether to describe the raw NAR;   *)
(* the NAR handler correlates the token, tries the peers and falls back to *)
(* the upstream.  Between the two the providers come and go, the daemon    *)
(* may restart with an empty catalog, and the client keeps what it read.   *)
(*                                                                         *)
(* Each handler is split where it awaits.  What becomes of a committed     *)
(* body comes second.  The public allowlist that the narinfo handler also  *)
(* feeds is read by the announcer only and is left to it.                  *)
(***************************************************************************)
EXTENDS Integers, FiniteSets, TLAPS

CONSTANTS
    Docs,           \* the upstream's narinfos
    Nars,           \* NarHash values
    Tokens,         \* what follows /nar/ in a URL
    NarOf,          \* NarOf[d]: the signed NarHash
    TokenOf,        \* TokenOf[d]: the token of its URL
    FormOf,         \* FormOf[d]: its Compression, "raw" or "xz"
    PathOf,         \* PathOf[d]: its StorePath, or NoPath when ambiguous
    Complete,       \* sets of narinfos: those with every field that to_raw
                    \* requires may be any one of them
    RawToken,       \* RawToken[n]: the token <digest>.nar
    Handlers,       \* requests that may run at once
    MaxOffers,      \* bound: offers in a directory answer
    MaxChanges,     \* bound: providers that appear or leave
    MaxRestarts     \* bound: restarts of the daemon

CONSTANTS NoDoc, NoPath, NoMeta

Forms == {"raw", "xz"}

ASSUME SubstitutionAssumption ==
    /\ NarOf \in [Docs -> Nars] /\ TokenOf \in [Docs -> Tokens]
    /\ FormOf \in [Docs -> Forms] /\ Complete \subseteq SUBSET Docs
    /\ RawToken \in [Nars -> Tokens]
    /\ MaxOffers \in Nat \ {0}
    /\ {MaxChanges, MaxRestarts} \subseteq Nat
    /\ NoDoc \notin Docs
    \* the upstream's files are one per token, and a raw token names a raw NAR
    /\ \A d, e \in Docs : TokenOf[d] = TokenOf[e] =>
           NarOf[d] = NarOf[e] /\ FormOf[d] = FormOf[e]
    /\ \A d \in Docs, n \in Nars : TokenOf[d] = RawToken[n] =>
           NarOf[d] = n /\ FormOf[d] = "raw"
    /\ \A m, n \in Nars : RawToken[m] = RawToken[n] => m = n

VARIABLES
    catalog,    \* NarCatalog.by_token
    rewritable, \* the narinfos that to_raw accepts; fixed
    fetched,    \* narinfos the correlation store may hold on disk
    holders,    \* NARs some provider record is found for
    known,      \* narinfos a client holds: the document and whether rewritten
    handler,    \* the state of each request
    changes, restarts

vars == <<catalog, rewritable, fetched, holders, known, handler, changes, restarts>>

Metas == [nar: Nars, form: Forms, path: {PathOf[d] : d \in Docs} \cup {NoPath}]
Narinfos == Docs \X BOOLEAN
Outcomes == {"none", "served", "refused", "too_large"}

(* Mutant: the rewrite keeps the compressed token.                         *)
UrlTokenKept(d, raw) == TokenOf[d]

(* A narinfo as its client reads it: verbatim, or rewritten by to_raw.     *)
UrlToken(d, raw) == IF raw THEN RawToken[NarOf[d]] ELSE TokenOf[d]
Compression(d, raw) == IF raw THEN "raw" ELSE FormOf[d]

(* parse_correlation, and the NarMeta that the catalog keeps of it.        *)
Meta(d, raw) ==
    [nar |-> NarOf[d], form |-> Compression(d, raw), path |-> PathOf[d]]

(* What the upstream serves under a token it knows.                        *)
UpstreamForm(token) ==
    IF \E d \in Docs : TokenOf[d] = token
      THEN FormOf[CHOOSE d \in Docs : TokenOf[d] = token]
      ELSE "raw"

Idle == [pc |-> "idle", doc |-> NoDoc, raw |-> FALSE,
         meta |-> NoMeta, offers |-> 0, asked |-> FALSE, hooked |-> NoPath,
         from |-> "none", form |-> "none", outcome |-> "none"]

Init ==
    /\ catalog = [t \in Tokens |-> NoMeta]
    /\ rewritable \in Complete
    /\ fetched = {}
    /\ holders = {}
    /\ known = {}
    /\ handler = [h \in Handlers |-> Idle]
    /\ changes = 0
    /\ restarts = 0

Token(r) == UrlToken(r.doc, r.raw)
Step(h, r) == handler' = [handler EXCEPT ![h] = r]
environment == <<rewritable, holders, changes, restarts>>

-----------------------------------------------------------------------------
(* GET /<hash>.narinfo.  A HEAD is handled as a GET whose body is dropped. *)

(* The narinfo source answers 200, and the disk cache in front of it may   *)
(* keep the document.  Other answers are forwarded and change nothing.     *)
FetchNarinfo(h, d) ==
    /\ handler[h].pc = "idle"
    /\ Step(h, [Idle EXCEPT !.pc = "probe", !.doc = d])
    /\ fetched' = fetched \cup {d}
    /\ UNCHANGED <<catalog, known, environment>>

(* will_serve_raw: only a Found answer rewrites.                           *)
WillServeRaw(h) ==
    /\ handler[h].pc = "probe"
    /\ \E found \in {NarOf[handler[h].doc] \in holders, FALSE} :
           Step(h, [handler[h] EXCEPT !.pc = "reply", !.raw = found])
    /\ UNCHANGED <<catalog, fetched, known, environment>>

Recorded(d, raw) ==
    [catalog EXCEPT ![UrlToken(d, raw)] = Meta(d, raw)]

(* The rewritten token is correlated as raw, a verbatim one as it is, and  *)
(* a narinfo that to_raw refuses is served verbatim and not correlated.    *)
RespondNarinfo(h) ==
    LET r == handler[h]
        raw == r.raw /\ r.doc \in rewritable
    IN  /\ r.pc = "reply"
        /\ catalog' = IF r.raw /\ ~raw THEN catalog ELSE Recorded(r.doc, raw)
        /\ known' = known \cup {<<r.doc, raw>>}
        /\ Step(h, Idle)
        /\ UNCHANGED <<fetched, environment>>

-----------------------------------------------------------------------------
(* GET /nar/<token>.                                                       *)

(* The in-memory catalog first.                                            *)
RequestNar(h, n) ==
    LET meta == catalog[UrlToken(n[1], n[2])]
    IN  /\ handler[h].pc = "idle" /\ n \in known
        /\ Step(h, [Idle EXCEPT !.doc = n[1], !.raw = n[2], !.meta = meta,
               !.pc = IF meta = NoMeta THEN "correlate" ELSE "lookup"])
        /\ UNCHANGED <<catalog, fetched, known, environment>>

(* What the correlation store may answer: nothing, for the narinfo may not *)
(* have been kept, or what a fetched narinfo says of its token             *)
(* (CorrelationIsTrue of NarinfoCache).                                    *)
StoredMetas(token) ==
    {NoMeta} \cup {Meta(d, FALSE) : d \in {e \in fetched : TokenOf[e] = token}}

(* Both missed: UpstreamPath, which the peer source refuses.               *)
Correlate(h) ==
    LET r == handler[h]
    IN  /\ r.pc = "correlate"
        /\ \E meta \in StoredMetas(Token(r)) :
               Step(h, [r EXCEPT !.meta = meta,
                   !.pc = IF meta = NoMeta THEN "upstream" ELSE "lookup"])
        /\ UNCHANGED <<catalog, fetched, known, environment>>

(* PeerFabricNarSource: the directory lookup.  Miss and Unavailable are    *)
(* Unreachable, which FallbackNarSource answers by the upstream.           *)
Lookup(h) ==
    LET r == handler[h]
    IN  /\ r.pc = "lookup"
        /\ \/ /\ r.meta.nar \in holders
              /\ \E k \in 1..MaxOffers :
                     Step(h, [r EXCEPT !.pc = "offers", !.offers = k])
           \/ Step(h, [r EXCEPT !.pc = "upstream"])
        /\ UNCHANGED <<catalog, fetched, known, environment>>

(* What handle does with a 200, a peer's or the upstream's: that of a      *)
(* correlated NAR goes to the announce-after-fetch hook, and then one that *)
(* cannot be forwarded is refused.                                         *)
Responded(r, from, form, forwardable) ==
    [r EXCEPT !.pc = "done", !.offers = 0, !.from = from, !.form = form,
              !.hooked = IF r.meta = NoMeta THEN NoPath ELSE r.meta.path,
              !.outcome = IF forwardable THEN "served" ELSE "refused"]

(* An offer that yields a stream ends the search.                          *)
OfferAccepted(h) ==
    /\ handler[h].pc = "offers"
    /\ Step(h, Responded(handler[h], "peer", "raw", TRUE))
    /\ UNCHANGED <<catalog, fetched, known, environment>>

(* A size abort is not a miss: it ends the request.                        *)
OfferTooLarge(h) ==
    /\ handler[h].pc = "offers"
    /\ Step(h, [handler[h] EXCEPT !.pc = "done", !.outcome = "too_large"])
    /\ UNCHANGED <<catalog, fetched, known, environment>>

(* Mutant: after the last failure the directory is asked again.            *)
OfferFailedLooksAgain(h) ==
    LET r == handler[h]
    IN  /\ r.pc = "offers"
        /\ Step(h, [r EXCEPT !.offers = r.offers - 1,
                             !.pc = IF r.offers = 1 THEN "lookup" ELSE "offers"])
        /\ UNCHANGED <<catalog, fetched, known, environment>>

(* Any other failure: the next offer, and after the last the upstream.     *)
OfferFailed(h) ==
    LET r == handler[h]
    IN  /\ r.pc = "offers"
        /\ Step(h, [r EXCEPT !.offers = r.offers - 1,
                             !.pc = IF r.offers = 1 THEN "upstream" ELSE "offers"])
        /\ UNCHANGED <<catalog, fetched, known, environment>>

(* The upstream is asked for the exact token.                              *)
UpstreamAnswers(h) ==
    LET r == handler[h]
    IN  /\ r.pc = "upstream"
        /\ \E forwardable \in BOOLEAN :
               Step(h, Responded([r EXCEPT !.asked = TRUE], "upstream",
                                 UpstreamForm(Token(r)), forwardable))
        /\ UNCHANGED <<catalog, fetched, known, environment>>

(* A 404, or an error: 502.                                                *)
UpstreamRefuses(h) ==
    /\ handler[h].pc = "upstream"
    /\ Step(h, [handler[h] EXCEPT !.pc = "done", !.asked = TRUE,
                                  !.outcome = "refused"])
    /\ UNCHANGED <<catalog, fetched, known, environment>>

Finish(h) ==
    /\ handler[h].pc = "done"
    /\ Step(h, Idle)
    /\ UNCHANGED <<catalog, fetched, known, environment>>

-----------------------------------------------------------------------------
(* The environment.                                                        *)

(* The first record for a NAR is found, or the last one lapses.            *)
HoldersChange(n) ==
    /\ changes < MaxChanges
    /\ changes' = changes + 1
    /\ holders' = IF n \in holders THEN holders \ {n} ELSE holders \cup {n}
    /\ UNCHANGED <<catalog, rewritable, fetched, known, handler, restarts>>

(* The catalog is empty again; the clients keep their narinfos.            *)
Restart ==
    /\ restarts < MaxRestarts
    /\ restarts' = restarts + 1
    /\ catalog' = [t \in Tokens |-> NoMeta]
    /\ handler' = [h \in Handlers |-> Idle]
    /\ UNCHANGED <<rewritable, fetched, holders, known, changes>>

Handle(h) ==
    \/ WillServeRaw(h) \/ RespondNarinfo(h)
    \/ Correlate(h) \/ Lookup(h)
    \/ OfferAccepted(h) \/ OfferTooLarge(h) \/ OfferFailed(h)
    \/ UpstreamAnswers(h) \/ UpstreamRefuses(h) \/ Finish(h)

Next ==
    \/ \E h \in Handlers :
           \/ \E d \in Docs : FetchNarinfo(h, d)
           \/ \E n \in known : RequestNar(h, n)
           \/ Handle(h)
    \/ \E n \in Nars : HoldersChange(n)
    \/ Restart

(* A handler's await ends: discovery, dials and header waits run under     *)
(* budgets.                                                                *)
Spec == Init /\ [][Next]_vars /\ \A h \in Handlers : WF_vars(Handle(h))

-----------------------------------------------------------------------------
(* Every variable keeps its declared shape: in particular a token          *)
(* correlates to a well-formed NarMeta, and only a correlated request is   *)
(* put to the peers.                                                       *)
TypeOK ==
    /\ catalog \in [Tokens -> Metas \cup {NoMeta}]
    /\ rewritable \in Complete /\ fetched \subseteq Docs
    /\ holders \subseteq Nars
    /\ known \subseteq Narinfos
    /\ changes \in 0..MaxChanges
    /\ restarts \in 0..MaxRestarts
    /\ \A h \in Handlers :
           LET r == handler[h]
           IN  /\ r.pc \in {"idle", "probe", "reply", "correlate", "lookup",
                             "offers", "upstream", "done"}
               /\ r.doc \in Docs \cup {NoDoc}
               /\ r.meta \in Metas \cup {NoMeta}
               /\ r.offers \in 0..MaxOffers
               /\ r.form \in Forms \cup {"none"} /\ r.outcome \in Outcomes
               /\ r.pc \in {"lookup", "offers"} => r.meta # NoMeta
               /\ r.pc = "offers" => r.offers > 0
               /\ r.from = "peer" => r.meta # NoMeta

Described(r) == r.form = Compression(r.doc, r.raw)

(* The bytes and the narinfo disagree on the compression in one case only: *)
(* a peer's raw stream under a narinfo that was handed out verbatim.  A    *)
(* rewritten narinfo is never answered with compressed bytes, whatever the *)
(* peers, the restarts and the fallback (respond_narinfo, to_raw,          *)
(* resolve_within).                                                        *)
MismatchOnlyByPeer ==
    \A h \in Handlers :
        LET r == handler[h]
        IN  r.outcome = "served" /\ ~Described(r) => r.from = "peer" /\ ~r.raw

(* What run.rs and peer_source.rs say holds by construction: the daemon    *)
(* serves raw bytes exactly under a narinfo that says so.                  *)
ServesAsDescribed ==
    \A h \in Handlers : handler[h].outcome = "served" => Described(handler[h])

(* FallbackNarSource: a request that no peer served was put to the         *)
(* upstream, unless a peer's transfer ended in the size abort; and then,   *)
(* or once a peer's stream is committed, the upstream is not asked.        *)
UpstreamUnlessServedOrAborted ==
    \A h \in Handlers :
        LET r == handler[h]
        IN  r.pc = "done" =>
                (r.asked <=> r.from # "peer" /\ r.outcome # "too_large")

(* The announce-after-fetch hook is told the NAR and the store path of one *)
(* narinfo with the token that the client asked for.                       *)
HookMatchesRequest ==
    \A h \in Handlers :
        LET r == handler[h]
        IN  r.hooked # NoPath =>
                \E d \in Docs :
                    /\ Token(r) \in {TokenOf[d], RawToken[NarOf[d]]}
                    /\ NarOf[d] = r.meta.nar /\ PathOf[d] = r.hooked

(* The bytes and the narinfo disagree only for a peer's raw stream under a *)
(* verbatim narinfo; the upstream is asked exactly when no peer served and *)
(* none was cut off by size; and the announcing hook is told the NAR that  *)
(* was asked for (peer_source.rs, run.rs).                                 *)
AnswerIsExplained ==
    TypeOK /\ MismatchOnlyByPeer /\ UpstreamUnlessServedOrAborted /\ HookMatchesRequest

-----------------------------------------------------------------------------
(***************************************************************************)
(* The streamed body of one NAR response, counted in frames: LoggingBody   *)
(* (server.rs) over BoundedBody (upstream.rs) for an upstream's bytes, or  *)
(* over NarStreamBody (peer_source.rs) for a peer's, whose driver task     *)
(* pulls verified chunks and hands them over a bounded channel.  hyper     *)
(* polls the body and, at any point, drops it.                             *)
(***************************************************************************)

CONSTANTS
    MaxFrames,      \* bound: the length of a body
    ForwardDepth,   \* DAEMON_BODY_FORWARD_DEPTH
    NoCap, NoSize

ASSUME NarBodyAssumption ==
    /\ MaxFrames \in Nat /\ ForwardDepth \in Nat \ {0}
    /\ NoCap \notin Nat /\ NoSize \notin Nat

VARIABLES
    response,   \* what is being streamed; fixed once the head is committed
    driver,     \* NarStreamBody's task
    pulled,     \* chunks that it has taken from the peer's stream
    queue,      \* chunks in the channel
    broken,     \* the channel's last item is the stream's error
    sent,       \* LoggingBody.drained
    outcome,    \* the outcome reported last
    reports,    \* how many were reported
    dropped

bodyVars == <<response, driver, pulled, queue, broken, sent, outcome,
              reports, dropped>>
channel == <<driver, pulled, queue, broken>>

Lengths == 0..MaxFrames
BodyOutcomes == {"none", "complete", "aborted", "over_cap"}

(* honest is the length of the file that the upstream holds, in the unit   *)
(* on the wire; length is what it sends.  Only of a raw, uncoded file is   *)
(* the honest length the signed NarSize.  A response that was not          *)
(* correlated has an unknown compression and no signed size; a peer's is   *)
(* always correlated, raw and of the signed size.                          *)
UpstreamResponses ==
    {u \in [from: {"upstream"}, compression: {"raw", "compressed", "unknown"},
            wire: {"raw", "other"}, honest: Lengths, length: Lengths,
            signed: Lengths \cup {NoSize}, fixed: BOOLEAN] :
        /\ u.compression = "unknown" => u.signed = NoSize
        /\ u.compression # "unknown" => u.signed # NoSize
        /\ u.compression = "compressed" => u.wire = "other"
        /\ u.wire = "raw" /\ u.signed # NoSize => u.honest = u.signed}
PeerResponses ==
    {u \in [from: {"peer"}, compression: {"raw"}, wire: {"raw"},
            honest: Lengths, length: Lengths, signed: Lengths,
            fixed: {TRUE}] :
        u.honest = u.signed /\ u.length = u.signed}

(* Mutant: the signed NarSize bounds any body.                             *)
TransportCapBySigned(u) ==
    LET caps == (IF u.fixed THEN {u.length} ELSE {}) \cup ({u.signed} \ {NoSize})
    IN  IF caps = {} THEN NoCap
        ELSE CHOOSE c \in caps : \A b \in caps : c <= b

(* compute_transport_cap: the declared length, and for a body that is the  *)
(* raw NAR on the wire also the signed NarSize, if smaller.  A raw file    *)
(* under an HTTP Content-Encoding is not raw on the wire.                  *)
TransportCap(u) ==
    LET length == IF u.fixed THEN {u.length} ELSE {}
        raw == u.compression = "raw" /\ u.wire = "raw"
        caps == IF raw THEN length \cup ({u.signed} \ {NoSize}) ELSE length
    IN  IF caps = {} THEN NoCap
        ELSE CHOOSE c \in caps : \A b \in caps : c <= b

(* is_end_stream of the wrapped body: hyper's counts down a declared       *)
(* length; NarStreamBody does not know its end.                            *)
AtEnd(u, n) == u.from = "upstream" /\ u.fixed /\ n = u.length

(* LoggingBody::new: a body that is at its end at once is complete.        *)
BodyInit ==
    /\ response \in UpstreamResponses \cup PeerResponses
    /\ driver = IF response.from = "peer" THEN "pull" ELSE "stopped"
    /\ pulled = 0 /\ queue = 0 /\ broken = FALSE
    /\ sent = 0
    /\ outcome = IF AtEnd(response, 0) THEN "complete" ELSE "none"
    /\ reports = IF AtEnd(response, 0) THEN 1 ELSE 0
    /\ dropped = FALSE

(* LoggingBody::report, with its fuse.                                     *)
Report(what) ==
    IF reports > 0
      THEN UNCHANGED <<outcome, reports>>
      ELSE outcome' = what /\ reports' = 1

(* hyper does not poll a body that says it is at its end.                  *)
Polled == ~dropped /\ reports = 0

-----------------------------------------------------------------------------
(* The driver task of NarStreamBody.                                       *)

(* next_chunk: a verified chunk, the error that ends the stream, or its    *)
(* end, at which the task returns and drops its sender.                    *)
DriverPull ==
    /\ driver = "pull"
    /\ \/ pulled < response.length /\ pulled' = pulled + 1
             /\ driver' = "send"
       \/ driver' = "send_error" /\ UNCHANGED pulled
       \/ pulled = response.length /\ driver' = "stopped" /\ UNCHANGED pulled
    /\ UNCHANGED <<response, queue, broken, sent, outcome, reports, dropped>>

(* tx.send: waits for room, and fails once the body is dropped.            *)
DriverSend ==
    /\ driver \in {"send", "send_error"}
    /\ \/ dropped /\ driver' = "stopped" /\ UNCHANGED <<queue, broken>>
       \/ /\ ~dropped /\ queue < ForwardDepth
          /\ IF driver = "send"
               THEN queue' = queue + 1 /\ driver' = "pull" /\ UNCHANGED broken
               ELSE broken' = TRUE /\ driver' = "stopped" /\ UNCHANGED queue
    /\ UNCHANGED <<response, pulled, sent, outcome, reports, dropped>>

-----------------------------------------------------------------------------
(* poll_frame of LoggingBody over the one or the other body.               *)

(* BoundedBody: a frame over the cap is dropped and the body aborts.       *)
UpstreamFrame ==
    LET cap == TransportCap(response)
    IN  /\ Polled /\ response.from = "upstream" /\ sent < response.length
        /\ IF cap # NoCap /\ sent + 1 > cap
             THEN UNCHANGED sent /\ Report("over_cap")
             ELSE /\ sent' = sent + 1
                  /\ IF AtEnd(response, sent') THEN Report("complete")
                     ELSE UNCHANGED <<outcome, reports>>
        /\ UNCHANGED <<response, channel, dropped>>

UpstreamEnd ==
    /\ Polled /\ response.from = "upstream" /\ sent = response.length
    /\ Report("complete")
    /\ UNCHANGED <<response, channel, sent, dropped>>

(* The connection fails, ends early, or is silent for the idle timeout.    *)
UpstreamError ==
    /\ Polled /\ response.from = "upstream"
    /\ Report("aborted")
    /\ UNCHANGED <<response, channel, sent, dropped>>

PeerFrame ==
    /\ Polled /\ queue > 0
    /\ queue' = queue - 1
    /\ sent' = sent + 1
    /\ UNCHANGED <<response, driver, pulled, broken, outcome, reports, dropped>>

PeerError ==
    /\ Polled /\ queue = 0 /\ broken
    /\ Report("aborted")
    /\ UNCHANGED <<response, channel, sent, dropped>>

PeerEnd ==
    /\ Polled /\ response.from = "peer"
    /\ queue = 0 /\ ~broken /\ driver = "stopped"
    /\ Report("complete")
    /\ UNCHANGED <<response, channel, sent, dropped>>

(* Drop: after the end or an error, when the client hangs up, or when      *)
(* hyper has sent the declared length and polls no more.                   *)
DropBody ==
    /\ ~dropped
    /\ dropped' = TRUE
    /\ Report("aborted")
    /\ UNCHANGED <<response, channel, sent>>

BodyNext ==
    \/ DriverPull \/ DriverSend
    \/ UpstreamFrame \/ UpstreamEnd \/ UpstreamError
    \/ PeerFrame \/ PeerError \/ PeerEnd
    \/ DropBody

BodySpec == BodyInit /\ [][BodyNext]_bodyVars

-----------------------------------------------------------------------------
(* The state of a body keeps its shape, and the channel holds exactly the  *)
(* chunks pulled, not yet sent on, and at most its depth of them.          *)
BodyTypeOK ==
    /\ response \in UpstreamResponses \cup PeerResponses
    /\ driver \in {"pull", "send", "send_error", "stopped"}
    /\ queue \in 0..ForwardDepth
    /\ sent \in Lengths /\ sent <= response.length
    /\ outcome \in BodyOutcomes
    /\ response.from = "peer" /\ ~dropped =>
           pulled = sent + queue + (IF driver = "send" THEN 1 ELSE 0)

(* BoundedBody cuts what it should and no more.  A body of its honest      *)
(* length is never cut: the signed NarSize counts raw bytes, and is not    *)
(* held against a compressed or HTTP-coded body, which may be longer       *)
(* (compute_transport_cap).  Of a correlated body that is the raw NAR on   *)
(* the wire no more than the signed NarSize is forwarded, however much the *)
(* source sends.                                                           *)
CapIsFair ==
    /\ outcome = "over_cap" => response.length > response.honest
    /\ response.compression = "raw" /\ response.wire = "raw" =>
          sent <= response.signed

(* LoggingBody reports a transfer once, whether by its end, an error or    *)
(* the drop, and as complete only when every frame that its source had was *)
(* forwarded.                                                              *)
ReportIsTrue ==
    /\ outcome = "complete" => sent = response.length
    /\ reports <= 1
    /\ dropped => reports = 1

(* A body is cut when it is longer than what was signed and only then, and *)
(* its transfer is reported once and truly (BoundedBody, LoggingBody).     *)
BodyIsFair == BodyTypeOK /\ CapIsFair /\ ReportIsTrue

(* Dropping the body, at whatever point, comes to stop the task that feeds *)
(* it, and with it the transfer from the peer.                             *)
DriverHasStopped == dropped => driver = "stopped"

-----------------------------------------------------------------------------
(***************************************************************************)
(* The proofs.  First the substitution path: what every request satisfies  *)
(* at every stage, and the correlations the catalog holds.                 *)
(***************************************************************************)
(* The state of a request between two awaits.                              *)
Stages == {"idle", "probe", "reply", "correlate", "lookup", "offers", "upstream", "done"}
HandlerStates ==
    [pc: Stages, doc: Docs \cup {NoDoc}, raw: BOOLEAN, meta: Metas \cup {NoMeta},
     offers: 0..MaxOffers, asked: BOOLEAN,
     hooked: {PathOf[d] : d \in Docs} \cup {NoPath},
     from: {"none", "peer", "upstream"}, form: Forms \cup {"none"}, outcome: Outcomes]

(* What a NarMeta says of a token is what one narinfo says of it.          *)
Names(token, meta) ==
    \E d \in Docs :
        /\ token \in {TokenOf[d], RawToken[NarOf[d]]}
        /\ NarOf[d] = meta.nar /\ PathOf[d] = meta.path

(* A request before it is answered.                                        *)
AskInv(r) ==
    /\ r.pc # "idle" => r.doc \in Docs
    /\ r.meta # NoMeta => Names(Token(r), r.meta)
    /\ r.pc \in {"idle", "probe", "reply"} => r.meta = NoMeta
    /\ r.pc \in {"lookup", "offers"} => r.meta # NoMeta
    /\ r.pc = "offers" => r.offers > 0
    /\ r.pc # "done" => /\ r.asked = FALSE /\ r.hooked = NoPath
                        /\ r.from = "none" /\ r.form = "none" /\ r.outcome = "none"

(* A request once it is answered.                                          *)
AnswerInv(r) ==
    /\ r.pc = "done" => (r.asked <=> r.from # "peer" /\ r.outcome # "too_large")
    /\ r.from = "peer" => r.meta # NoMeta /\ r.form = "raw"
    /\ r.from = "upstream" => r.form = Compression(r.doc, r.raw)
    /\ r.outcome = "served" => r.from # "none"
    /\ r.hooked # NoPath => r.meta # NoMeta /\ r.hooked = r.meta.path

RequestInv(r) == r \in HandlerStates /\ AskInv(r) /\ AnswerInv(r)

(* The catalog correlates a token as a narinfo that was handed out does.   *)
CatalogInv ==
    /\ catalog \in [Tokens -> Metas \cup {NoMeta}]
    /\ \A t \in Tokens : catalog[t] # NoMeta => Names(t, catalog[t])

(* What the clients, the disk and the providers hold.                      *)
EnvironmentInv ==
    /\ rewritable \in Complete /\ fetched \subseteq Docs /\ holders \subseteq Nars
    /\ known \subseteq Narinfos
    /\ changes \in 0..MaxChanges /\ restarts \in 0..MaxRestarts

(* The inductive invariant of the path.                                    *)
PathInv ==
    /\ CatalogInv /\ EnvironmentInv
    /\ handler \in [Handlers -> HandlerStates]
    /\ \A h \in Handlers : RequestInv(handler[h])

(* What parse_correlation reads of a narinfo is what the narinfo says.     *)
LEMMA MetaNames ==
    ASSUME NEW d \in Docs, NEW raw \in BOOLEAN
    PROVE  /\ Meta(d, raw) \in Metas /\ UrlToken(d, raw) \in Tokens
           /\ Names(UrlToken(d, raw), Meta(d, raw))
<1>1. NarOf[d] \in Nars /\ FormOf[d] \in Forms /\ TokenOf[d] \in Tokens
      /\ RawToken[NarOf[d]] \in Tokens
  BY SubstitutionAssumption
<1>2. Compression(d, raw) \in Forms
  BY <1>1 DEF Compression, Forms
<1>3. Meta(d, raw) \in Metas
  BY <1>1, <1>2 DEF Meta, Metas
<1>4. UrlToken(d, raw) \in {TokenOf[d], RawToken[NarOf[d]]}
  BY DEF UrlToken
<1>5. Meta(d, raw).nar = NarOf[d] /\ Meta(d, raw).path = PathOf[d]
  BY DEF Meta
<1> QED
  BY <1>1, <1>3, <1>4, <1>5 DEF Names

(* The upstream answers a token as the narinfo with that token says.       *)
LEMMA UpstreamAsDescribed ==
    ASSUME NEW d \in Docs, NEW raw \in BOOLEAN
    PROVE  UpstreamForm(UrlToken(d, raw)) = Compression(d, raw)
<1>1. NarOf[d] \in Nars
  BY SubstitutionAssumption
<1>2. CASE raw
  <2>1. UrlToken(d, raw) = RawToken[NarOf[d]] /\ Compression(d, raw) = "raw"
    BY <1>2 DEF UrlToken, Compression
  <2>2. \A e \in Docs : TokenOf[e] = RawToken[NarOf[d]] => FormOf[e] = "raw"
    BY <1>1, SubstitutionAssumption
  <2> QED
    BY <2>1, <2>2 DEF UpstreamForm
<1>3. CASE ~raw
  <2>1. UrlToken(d, raw) = TokenOf[d] /\ Compression(d, raw) = FormOf[d]
    BY <1>3 DEF UrlToken, Compression
  <2>2. \A e \in Docs : TokenOf[e] = TokenOf[d] => FormOf[e] = FormOf[d]
    BY SubstitutionAssumption
  <2> QED
    BY <2>1, <2>2 DEF UpstreamForm
<1> QED
  BY <1>2, <1>3

(* The invariant gives the property.                                       *)
LEMMA PathInvExplains == PathInv => AnswerIsExplained
<1> SUFFICES ASSUME PathInv PROVE AnswerIsExplained
  OBVIOUS
<1>1. TypeOK
  BY DEF PathInv, CatalogInv, EnvironmentInv, RequestInv, HandlerStates, AskInv, AnswerInv, Stages, TypeOK
<1>2. MismatchOnlyByPeer
  <2> SUFFICES ASSUME NEW h \in Handlers,
                      handler[h].outcome = "served", ~Described(handler[h])
               PROVE  handler[h].from = "peer" /\ ~handler[h].raw
    BY DEF MismatchOnlyByPeer
  <2>1. handler[h] \in HandlerStates /\ AnswerInv(handler[h])
    BY DEF PathInv, RequestInv
  <2>2. handler[h].from \in {"none", "peer", "upstream"}
    BY <2>1 DEF HandlerStates
  <2>3. handler[h].from = "peer" /\ handler[h].form = "raw"
    BY <2>1, <2>2 DEF AnswerInv, Described
  <2> QED
    BY <2>3 DEF Described, Compression
<1>3. UpstreamUnlessServedOrAborted
  BY DEF PathInv, RequestInv, AnswerInv, UpstreamUnlessServedOrAborted
<1>4. HookMatchesRequest
  BY DEF PathInv, RequestInv, AskInv, AnswerInv, Names, HookMatchesRequest
<1> QED
  BY <1>1, <1>2, <1>3, <1>4 DEF AnswerIsExplained

(* A request that has not begun.                                           *)
LEMMA IdleInv == RequestInv(Idle)
<1>1. Idle \in HandlerStates
  BY SubstitutionAssumption DEF Idle, HandlerStates, Stages, Outcomes
<1>2. AskInv(Idle)
  BY DEF Idle, AskInv
<1>3. AnswerInv(Idle)
  BY DEF Idle, AnswerInv
<1> QED
  BY <1>1, <1>2, <1>3 DEF RequestInv

(* A step of one handler that keeps its request's invariant.               *)
LEMMA HandlerStepKept ==
    ASSUME PathInv, NEW h \in Handlers, NEW r, RequestInv(r), Step(h, r),
           CatalogInv', EnvironmentInv'
    PROVE  PathInv'
<1>1. handler \in [Handlers -> HandlerStates] /\ r \in HandlerStates
  BY DEF PathInv, RequestInv
<1>2. handler' \in [Handlers -> HandlerStates]
  BY <1>1 DEF Step
<1>3. ASSUME NEW g \in Handlers PROVE RequestInv(handler'[g])
  <2>1. handler'[g] = IF g = h THEN r ELSE handler[g]
    BY <1>1 DEF Step
  <2> QED
    BY <2>1 DEF PathInv
<1> QED
  BY <1>2, <1>3 DEF PathInv, RequestInv, AskInv, AnswerInv

(* Most of them leave everything else alone.                               *)
LEMMA QuietStepKept ==
    ASSUME PathInv, NEW h \in Handlers, NEW r, RequestInv(r), Step(h, r),
           UNCHANGED <<catalog, fetched, known, environment>>
    PROVE  PathInv'
<1>1. UNCHANGED <<catalog, rewritable, fetched, holders, known, changes, restarts>>
  BY DEF environment
<1>2. CatalogInv'
  BY <1>1 DEF PathInv, CatalogInv
<1>3. EnvironmentInv'
  BY <1>1 DEF PathInv, EnvironmentInv
<1> QED
  BY <1>2, <1>3, HandlerStepKept

(* The narinfo handler.                                                    *)
LEMMA NarinfoKept ==
    ASSUME PathInv, NEW h \in Handlers,
           \/ \E d \in Docs : FetchNarinfo(h, d)
           \/ WillServeRaw(h) \/ RespondNarinfo(h)
    PROVE  PathInv'
<1> DEFINE q == handler[h]
<1>1. q \in HandlerStates /\ AskInv(q) /\ AnswerInv(q)
  BY DEF PathInv, RequestInv
<1>2. CASE \E d \in Docs : FetchNarinfo(h, d)
  <2>1. PICK d \in Docs : FetchNarinfo(h, d)
    BY <1>2
  <2> DEFINE r == [Idle EXCEPT !.pc = "probe", !.doc = d]
  <2>2. RequestInv(r)
    <3>1. Idle \in HandlerStates /\ AskInv(Idle) /\ AnswerInv(Idle)
      BY IdleInv DEF RequestInv
    <3>2. r \in HandlerStates
      BY <3>1 DEF HandlerStates, Stages
    <3>3. AskInv(r)
      BY <2>1 DEF AskInv, Idle
    <3>4. AnswerInv(r)
      BY DEF AnswerInv, Idle
    <3> QED
      BY <3>2, <3>3, <3>4 DEF RequestInv
  <2>3. Step(h, r)
    BY <2>1 DEF FetchNarinfo
  <2>4. CatalogInv'
    BY <2>1 DEF FetchNarinfo, environment, PathInv, CatalogInv
  <2>5. EnvironmentInv'
    BY <2>1 DEF FetchNarinfo, environment, PathInv, EnvironmentInv
  <2> QED
    BY <2>2, <2>3, <2>4, <2>5, HandlerStepKept
<1>3. CASE WillServeRaw(h)
  <2>1. PICK found \in {NarOf[q.doc] \in holders, FALSE} :
            Step(h, [q EXCEPT !.pc = "reply", !.raw = found])
    BY <1>3 DEF WillServeRaw
  <2> DEFINE r == [q EXCEPT !.pc = "reply", !.raw = found]
  <2>2. q.pc = "probe" /\ found \in BOOLEAN
    <3>1. q.pc = "probe"
      BY <1>3 DEF WillServeRaw
    <3>2. found \in BOOLEAN
      <4>1. CASE NarOf[q.doc] \in holders
        BY <2>1, <4>1, Zenon
      <4>2. CASE NarOf[q.doc] \notin holders
        <5>1. (NarOf[q.doc] \in holders) = FALSE
          BY <4>2
        <5>2. found = FALSE
          BY <2>1, <5>1
        <5> QED
          BY <5>2, Zenon
      <4> QED
        BY <4>1, <4>2, Zenon
    <3> QED
      BY <3>1, <3>2
  <2>3. RequestInv(r)
    <3>1. q.meta = NoMeta
      BY <1>1, <2>2 DEF AskInv
    <3>2. r \in HandlerStates
      BY <1>1, <2>2 DEF HandlerStates, Stages
    <3>3. AskInv(r)
      BY <1>1, <2>2, <3>1 DEF AskInv, HandlerStates
    <3>4. AnswerInv(r)
      BY <1>1, <2>2 DEF AskInv, AnswerInv, HandlerStates
    <3> QED
      BY <3>2, <3>3, <3>4 DEF RequestInv
  <2>4. Step(h, r) /\ UNCHANGED <<catalog, fetched, known, environment>>
    BY <1>3, <2>1 DEF WillServeRaw
  <2> QED
    BY <2>3, <2>4, QuietStepKept
<1>4. CASE RespondNarinfo(h)
  <2> DEFINE raw == q.raw /\ q.doc \in rewritable
  <2>1. /\ q.pc = "reply" /\ Step(h, Idle)
        /\ catalog' = IF q.raw /\ ~raw THEN catalog ELSE Recorded(q.doc, raw)
        /\ known' = known \cup {<<q.doc, raw>>}
        /\ UNCHANGED <<rewritable, fetched, holders, changes, restarts>>
    BY <1>4 DEF RespondNarinfo, environment
  <2>2. q.doc \in Docs /\ raw \in BOOLEAN
    BY <1>1, <2>1 DEF AskInv
  <2> DEFINE meta == Meta(q.doc, raw)
             token == UrlToken(q.doc, raw)
  <2>3. meta \in Metas /\ token \in Tokens /\ Names(token, meta)
    BY <2>2, MetaNames
  <2>4. catalog' = catalog \/ catalog' = [catalog EXCEPT ![token] = meta]
    BY <2>1 DEF Recorded
  <2>5. CatalogInv'
    <3> HIDE DEF meta, token
    <3> QED
      BY <2>3, <2>4 DEF PathInv, CatalogInv
  <2>6. EnvironmentInv'
    <3>1. <<q.doc, raw>> \in Narinfos
      BY <2>2 DEF Narinfos
    <3>2. known' \subseteq Narinfos
      <4> HIDE DEF raw
      <4> QED
        BY <2>1, <3>1 DEF PathInv, EnvironmentInv
    <3> QED
      BY <2>1, <3>2 DEF PathInv, EnvironmentInv
  <2> QED
    BY <2>1, <2>5, <2>6, IdleInv, HandlerStepKept
<1> QED
  BY <1>2, <1>3, <1>4

(* The NAR handler up to the offers.                                       *)
LEMMA AskKept ==
    ASSUME PathInv, NEW h \in Handlers,
           \/ \E n \in known : RequestNar(h, n)
           \/ Correlate(h) \/ Lookup(h) \/ OfferFailed(h) \/ Finish(h)
    PROVE  PathInv'
<1> DEFINE q == handler[h]
<1>1. q \in HandlerStates /\ AskInv(q) /\ AnswerInv(q)
  BY DEF PathInv, RequestInv
<1>2. CASE \E n \in known : RequestNar(h, n)
  <2>1. PICK n \in known : RequestNar(h, n)
    BY <1>2
  <2>2. n[1] \in Docs /\ n[2] \in BOOLEAN
    BY DEF PathInv, EnvironmentInv, Narinfos
  <2> DEFINE token == UrlToken(n[1], n[2])
             meta == catalog[token]
             r == [Idle EXCEPT !.doc = n[1], !.raw = n[2], !.meta = meta,
                      !.pc = IF meta = NoMeta THEN "correlate" ELSE "lookup"]
  <2>3. Step(h, r) /\ UNCHANGED <<catalog, fetched, known, environment>>
    BY <2>1 DEF RequestNar
  <2>4. meta \in Metas \cup {NoMeta} /\ (meta # NoMeta => Names(token, meta))
    BY <2>2, MetaNames DEF PathInv, CatalogInv
  <2>5. Token(r) = token
    BY DEF Token, Idle
  <2>6. RequestInv(r)
    <3>1. r \in HandlerStates
      <4> HIDE DEF token, meta
      <4> DEFINE pc == IF meta = NoMeta THEN "correlate" ELSE "lookup"
      <4>1. pc \in Stages
        BY DEF Stages
      <4>2. Idle \in HandlerStates
        BY IdleInv DEF RequestInv
      <4> HIDE DEF pc
      <4>3. [Idle EXCEPT !.doc = n[1], !.raw = n[2], !.meta = meta, !.pc = pc] \in HandlerStates
        BY <2>2, <2>4, <4>1, <4>2 DEF HandlerStates
      <4> QED
        BY <4>3 DEF pc
    <3>2. AskInv(r)
      <4> HIDE DEF token, meta
      <4> QED
        BY <2>2, <2>4, <2>5 DEF AskInv, Idle
    <3>3. AnswerInv(r)
      BY DEF AnswerInv, Idle
    <3> QED
      BY <3>1, <3>2, <3>3 DEF RequestInv
  <2> QED
    BY <2>3, <2>6, QuietStepKept
<1>3. CASE Correlate(h)
  <2>1. PICK meta \in StoredMetas(Token(q)) :
            Step(h, [q EXCEPT !.meta = meta,
                        !.pc = IF meta = NoMeta THEN "upstream" ELSE "lookup"])
    BY <1>3 DEF Correlate
  <2> DEFINE r == [q EXCEPT !.meta = meta,
                      !.pc = IF meta = NoMeta THEN "upstream" ELSE "lookup"]
  <2>2. q.pc = "correlate" /\ UNCHANGED <<catalog, fetched, known, environment>>
    BY <1>3 DEF Correlate
  <2>3. meta \in Metas \cup {NoMeta} /\ (meta # NoMeta => Names(Token(q), meta))
    <3>1. CASE meta = NoMeta
      BY <3>1
    <3>2. ASSUME NEW d \in fetched, TokenOf[d] = Token(q), meta = Meta(d, FALSE)
          PROVE  meta \in Metas /\ Names(Token(q), meta)
      <4>1. d \in Docs /\ UrlToken(d, FALSE) = TokenOf[d]
        BY DEF PathInv, EnvironmentInv, UrlToken
      <4> QED
        BY <3>2, <4>1, MetaNames
    <3> QED
      BY <2>1, <3>1, <3>2 DEF StoredMetas
  <2>4. Token(r) = Token(q)
    BY <1>1 DEF Token, HandlerStates
  <2>5. RequestInv(r)
    <3>1. r \in HandlerStates
      BY <1>1, <2>3 DEF HandlerStates, Stages
    <3>2. AskInv(r)
      BY <1>1, <2>2, <2>3, <2>4 DEF AskInv, HandlerStates
    <3>3. AnswerInv(r)
      BY <1>1, <2>2 DEF AskInv, AnswerInv, HandlerStates
    <3> QED
      BY <3>1, <3>2, <3>3 DEF RequestInv
  <2> QED
    BY <2>1, <2>2, <2>5, QuietStepKept
<1>4. CASE Lookup(h)
  <2>1. q.pc = "lookup" /\ UNCHANGED <<catalog, fetched, known, environment>>
    BY <1>4 DEF Lookup
  <2>2. ASSUME NEW k \in 0..MaxOffers, NEW pc \in {"offers", "upstream"},
               pc = "offers" => k > 0, Step(h, [q EXCEPT !.pc = pc, !.offers = k])
        PROVE  PathInv'
    <3> DEFINE r == [q EXCEPT !.pc = pc, !.offers = k]
    <3>1. r \in HandlerStates
      BY <1>1 DEF HandlerStates, Stages
    <3>2. Token(r) = Token(q)
      BY <1>1 DEF Token, HandlerStates
    <3>3. AskInv(r)
      BY <1>1, <2>1, <2>2, <3>2 DEF AskInv, HandlerStates
    <3>4. AnswerInv(r)
      BY <1>1, <2>1 DEF AskInv, AnswerInv, HandlerStates
    <3> QED
      BY <2>1, <2>2, <3>1, <3>3, <3>4, QuietStepKept DEF RequestInv
  <2>3. \/ \E k \in 1..MaxOffers : Step(h, [q EXCEPT !.pc = "offers", !.offers = k])
        \/ Step(h, [q EXCEPT !.pc = "upstream"])
    BY <1>4 DEF Lookup
  <2>4. CASE \E k \in 1..MaxOffers : Step(h, [q EXCEPT !.pc = "offers", !.offers = k])
    <3>1. PICK k \in 1..MaxOffers : Step(h, [q EXCEPT !.pc = "offers", !.offers = k])
      BY <2>4
    <3>2. k \in 0..MaxOffers /\ k > 0
      BY SubstitutionAssumption
    <3> QED
      BY <2>2, <3>1, <3>2
  <2>5. CASE Step(h, [q EXCEPT !.pc = "upstream"])
    <3>1. /\ q.offers \in 0..MaxOffers
          /\ [q EXCEPT !.pc = "upstream"] = [q EXCEPT !.pc = "upstream", !.offers = q.offers]
      BY <1>1 DEF HandlerStates
    <3> QED
      BY <2>2, <2>5, <3>1
  <2> QED
    BY <2>3, <2>4, <2>5
<1>5. CASE OfferFailed(h)
  <2> DEFINE pc == IF q.offers = 1 THEN "upstream" ELSE "offers"
             r == [q EXCEPT !.offers = q.offers - 1, !.pc = pc]
  <2>1. /\ q.pc = "offers" /\ Step(h, r)
        /\ UNCHANGED <<catalog, fetched, known, environment>>
    BY <1>5 DEF OfferFailed
  <2>2. q.offers - 1 \in 0..MaxOffers /\ (pc = "offers" => q.offers - 1 > 0)
    BY <1>1, <2>1, SubstitutionAssumption DEF AskInv, HandlerStates
  <2>3. r \in HandlerStates
    BY <1>1, <2>2 DEF HandlerStates, Stages
  <2>4. Token(r) = Token(q)
    BY <1>1 DEF Token, HandlerStates
  <2>5. AskInv(r)
    BY <1>1, <2>1, <2>2, <2>4 DEF AskInv, HandlerStates
  <2>6. AnswerInv(r)
    BY <1>1, <2>1 DEF AskInv, AnswerInv, HandlerStates
  <2> QED
    BY <2>1, <2>3, <2>5, <2>6, QuietStepKept DEF RequestInv
<1>6. CASE Finish(h)
  BY <1>6, IdleInv, QuietStepKept DEF Finish
<1> QED
  BY <1>2, <1>3, <1>4, <1>5, <1>6

(* The answers.                                                            *)
LEMMA AnswerKept ==
    ASSUME PathInv, NEW h \in Handlers,
           OfferAccepted(h) \/ OfferTooLarge(h) \/ UpstreamAnswers(h) \/ UpstreamRefuses(h)
    PROVE  PathInv'
<1> DEFINE q == handler[h]
<1>1. q \in HandlerStates /\ AskInv(q) /\ AnswerInv(q)
  BY DEF PathInv, RequestInv
<1>2. UNCHANGED <<catalog, fetched, known, environment>>
  BY DEF OfferAccepted, OfferTooLarge, UpstreamAnswers, UpstreamRefuses
<1>3. q.pc \in {"offers", "upstream"}
  BY DEF OfferAccepted, OfferTooLarge, UpstreamAnswers, UpstreamRefuses
<1>4. ASSUME NEW asked \in BOOLEAN, NEW from \in {"peer", "upstream"},
             NEW form \in Forms, NEW forwardable \in BOOLEAN,
             asked <=> from # "peer",
             from = "peer" => q.meta # NoMeta /\ form = "raw",
             from = "upstream" => form = Compression(q.doc, q.raw),
             Step(h, Responded([q EXCEPT !.asked = asked], from, form, forwardable))
      PROVE  PathInv'
  <2> DEFINE hooked == IF q.meta = NoMeta THEN NoPath ELSE q.meta.path
             said == IF forwardable THEN "served" ELSE "refused"
             r == [q EXCEPT !.pc = "done", !.offers = 0, !.asked = asked, !.from = from,
                            !.form = form, !.hooked = hooked, !.outcome = said]
  <2>1. Responded([q EXCEPT !.asked = asked], from, form, forwardable) = r
    BY <1>1 DEF Responded, HandlerStates
  <2>2. hooked \in {PathOf[d] : d \in Docs} \cup {NoPath} /\ said \in Outcomes
    BY <1>1 DEF HandlerStates, Metas, Outcomes
  <2>3. r \in HandlerStates
    <3>1. /\ "done" \in Stages /\ 0 \in 0..MaxOffers
          /\ from \in {"none", "peer", "upstream"} /\ form \in Forms \cup {"none"}
      BY SubstitutionAssumption DEF Stages
    <3> HIDE DEF hooked, said
    <3> QED
      BY <1>1, <2>2, <3>1 DEF HandlerStates
  <2>4. Token(r) = Token(q)
    BY <1>1 DEF Token, HandlerStates
  <2>5. AskInv(r)
    BY <1>1, <1>3, <2>4 DEF AskInv, HandlerStates
  <2>6. AnswerInv(r)
    BY <1>1, <1>4 DEF AnswerInv, HandlerStates
  <2> QED
    BY <1>2, <1>4, <2>1, <2>3, <2>5, <2>6, QuietStepKept DEF RequestInv
<1>5. ASSUME NEW asked \in BOOLEAN, NEW what \in {"too_large", "refused"},
             asked <=> what # "too_large",
             Step(h, [q EXCEPT !.pc = "done", !.asked = asked, !.outcome = what])
      PROVE  PathInv'
  <2> DEFINE r == [q EXCEPT !.pc = "done", !.asked = asked, !.outcome = what]
  <2>1. r \in HandlerStates
    BY <1>1 DEF HandlerStates, Stages, Outcomes
  <2>2. Token(r) = Token(q)
    BY <1>1 DEF Token, HandlerStates
  <2>3. AskInv(r)
    BY <1>1, <1>3, <2>2 DEF AskInv, HandlerStates
  <2>4. AnswerInv(r)
    BY <1>1, <1>3, <1>5 DEF AskInv, AnswerInv, HandlerStates
  <2> QED
    BY <1>2, <1>5, <2>1, <2>3, <2>4, QuietStepKept DEF RequestInv
<1>6. CASE OfferAccepted(h)
  <2>1. q.pc = "offers" /\ Step(h, Responded(q, "peer", "raw", TRUE))
    BY <1>6 DEF OfferAccepted
  <2>2. q.asked = FALSE /\ q.meta # NoMeta
    BY <1>1, <2>1 DEF AskInv
  <2>3. q = [q EXCEPT !.asked = FALSE] /\ "raw" \in Forms
    BY <1>1, <2>2 DEF HandlerStates, Forms
  <2> QED
    BY <1>4, <2>1, <2>2, <2>3
<1>7. CASE OfferTooLarge(h)
  <2>1. q.pc = "offers" /\ Step(h, [q EXCEPT !.pc = "done", !.outcome = "too_large"])
    BY <1>7 DEF OfferTooLarge
  <2>2. q.asked = FALSE
    BY <1>1, <2>1 DEF AskInv
  <2>3. [q EXCEPT !.pc = "done", !.outcome = "too_large"]
          = [q EXCEPT !.pc = "done", !.asked = FALSE, !.outcome = "too_large"]
    BY <1>1, <2>2 DEF HandlerStates
  <2> QED
    BY <1>5, <2>1, <2>3
<1>8. CASE UpstreamAnswers(h)
  <2>1. q.pc = "upstream"
    BY <1>8 DEF UpstreamAnswers
  <2>2. q.doc \in Docs /\ q.raw \in BOOLEAN
    BY <1>1, <2>1 DEF AskInv, HandlerStates
  <2>3. UpstreamForm(Token(q)) = Compression(q.doc, q.raw)
    BY <2>2, UpstreamAsDescribed DEF Token
  <2>4. Compression(q.doc, q.raw) \in Forms
    BY <2>2, SubstitutionAssumption DEF Compression, Forms
  <2>5. PICK forwardable \in BOOLEAN :
            Step(h, Responded([q EXCEPT !.asked = TRUE], "upstream",
                              UpstreamForm(Token(q)), forwardable))
    BY <1>8 DEF UpstreamAnswers
  <2> QED
    BY <1>4, <2>3, <2>4, <2>5
<1>9. CASE UpstreamRefuses(h)
  <2>1. Step(h, [q EXCEPT !.pc = "done", !.asked = TRUE, !.outcome = "refused"])
    BY <1>9 DEF UpstreamRefuses
  <2> QED
    BY <1>5, <2>1
<1> QED
  BY <1>6, <1>7, <1>8, <1>9

(* The answers are explained for any documents, tokens, NARs and handlers, *)
(* any coming and going of providers and any restarts.                     *)
THEOREM AnswerAlwaysExplained == Spec => []AnswerIsExplained
<1>1. Init => PathInv
  <2> SUFFICES ASSUME Init PROVE PathInv
    OBVIOUS
  <2>1. CatalogInv
    BY DEF Init, CatalogInv
  <2>2. EnvironmentInv
    BY SubstitutionAssumption DEF Init, EnvironmentInv
  <2>3. handler = [h \in Handlers |-> Idle]
    BY DEF Init
  <2> QED
    BY <2>1, <2>2, <2>3, IdleInv DEF PathInv, RequestInv
<1>2. PathInv /\ [Next]_vars => PathInv'
  <2> SUFFICES ASSUME PathInv, [Next]_vars PROVE PathInv'
    OBVIOUS
  <2>1. CASE UNCHANGED vars
    BY <2>1 DEF vars, PathInv, CatalogInv, EnvironmentInv
  <2>2. ASSUME NEW h \in Handlers,
               \/ \E d \in Docs : FetchNarinfo(h, d)
               \/ \E n \in known : RequestNar(h, n)
               \/ Handle(h)
        PROVE  PathInv'
    BY <2>2, NarinfoKept, AskKept, AnswerKept DEF Handle
  <2>3. ASSUME NEW n \in Nars, HoldersChange(n) PROVE PathInv'
    <3>1. CatalogInv'
      BY <2>3 DEF HoldersChange, PathInv, CatalogInv
    <3>2. EnvironmentInv'
      BY <2>3, SubstitutionAssumption DEF HoldersChange, PathInv, EnvironmentInv
    <3> QED
      BY <2>3, <3>1, <3>2 DEF HoldersChange, PathInv
  <2>4. CASE Restart
    <3>1. CatalogInv'
      BY <2>4 DEF Restart, CatalogInv
    <3>2. EnvironmentInv'
      BY <2>4, SubstitutionAssumption DEF Restart, PathInv, EnvironmentInv
    <3>3. handler' = [h \in Handlers |-> Idle]
      BY <2>4 DEF Restart
    <3> QED
      BY <3>1, <3>2, <3>3, IdleInv DEF PathInv, RequestInv
  <2> QED
    BY <2>1, <2>2, <2>3, <2>4 DEF Next
<1> QED
  BY <1>1, <1>2, PathInvExplains, PTL DEF Spec

-----------------------------------------------------------------------------
(***************************************************************************)
(* Second the committed body: where its frames are, and when it is         *)
(* reported.                                                               *)
(***************************************************************************)
(* The number of chunks in the driver's hands.                             *)
InHand == IF driver = "send" THEN 1 ELSE 0

(* How much the source sends.                                              *)
FullLength == response.length

(* A body's counts.                                                        *)
CountsInv ==
    /\ response \in UpstreamResponses \cup PeerResponses
    /\ driver \in {"pull", "send", "send_error", "stopped"}
    /\ pulled \in Nat /\ queue \in Nat /\ queue <= ForwardDepth /\ sent \in Nat

(* A transfer is reported once, and at the latest when it is dropped.      *)
ReportInv ==
    /\ broken \in BOOLEAN /\ dropped \in BOOLEAN
    /\ outcome \in BodyOutcomes /\ reports \in {0, 1}
    /\ reports = 0 <=> outcome = "none"
    /\ dropped => reports = 1

(* An upstream's body has no driver; a peer's stops at the end of the      *)
(* stream, after its error, or after the drop.                             *)
ChannelInv ==
    /\ response.from = "upstream" => driver = "stopped" /\ queue = 0
    /\ response.from = "peer" => pulled <= FullLength
    /\ response.from = "peer" /\ ~dropped => pulled = sent + queue + InHand
    /\ response.from = "peer" /\ driver = "stopped" /\ ~broken /\ ~dropped =>
          pulled = FullLength

(* What was forwarded is within the source and within the cap.             *)
FrameInv ==
    /\ sent <= FullLength
    /\ CapIsFair
    /\ outcome = "complete" => sent = FullLength

(* The inductive invariant of a body.                                      *)
BodyInv == CountsInv /\ ReportInv /\ ChannelInv /\ FrameInv

(* What a response is.                                                     *)
LEMMA ResponseFields ==
    ASSUME NEW u \in UpstreamResponses \cup PeerResponses
    PROVE  /\ u.length \in Nat /\ u.honest \in Nat /\ u.from \in {"upstream", "peer"}
           /\ u.length <= MaxFrames
           /\ u.signed # NoSize => u.signed \in Nat
           /\ u.compression = "raw" => u.signed # NoSize
           /\ u.wire = "raw" /\ u.signed # NoSize => u.honest = u.signed
           /\ u.from = "peer" => u.length = u.signed /\ u.signed \in Nat
<1>1. Lengths \subseteq Nat /\ NoSize \notin Nat /\ \A n \in Lengths : n <= MaxFrames
  BY NarBodyAssumption DEF Lengths
<1>2. CASE u \in UpstreamResponses
  BY <1>1, <1>2 DEF UpstreamResponses
<1>3. CASE u \in PeerResponses
  BY <1>1, <1>3 DEF PeerResponses
<1> QED
  BY <1>2, <1>3

(* The length of a response.                                               *)
LEMMA FullLengthIs ==
    ASSUME response \in UpstreamResponses \cup PeerResponses
    PROVE  /\ FullLength \in Nat /\ FullLength <= MaxFrames
           /\ response.from \in {"upstream", "peer"}
           /\ response.compression = "raw" => response.signed \in Nat
           /\ response.from = "peer" => FullLength = response.signed
BY ResponseFields, Zenon DEF FullLength

(* compute_transport_cap: a bound that is the declared length or, for raw  *)
(* bytes on the wire, the signed size, and is at most that size.           *)
LEMMA CapOf ==
    ASSUME NEW u \in UpstreamResponses \cup PeerResponses
    PROVE  /\ TransportCap(u) # NoCap =>
                 /\ TransportCap(u) \in Nat
                 /\ \/ TransportCap(u) = u.length
                    \/ u.wire = "raw" /\ u.signed # NoSize /\ TransportCap(u) = u.signed
           /\ u.compression = "raw" /\ u.wire = "raw" =>
                 TransportCap(u) # NoCap /\ TransportCap(u) <= u.signed
<1> DEFINE length == IF u.fixed THEN {u.length} ELSE {}
           raw == u.compression = "raw" /\ u.wire = "raw"
           caps == IF raw THEN length \cup ({u.signed} \ {NoSize}) ELSE length
           cap == CHOOSE c \in caps : \A b \in caps : c <= b
<1>1. /\ u.length \in Nat
      /\ u.signed # NoSize => u.signed \in Nat
      /\ u.compression = "raw" => u.signed # NoSize
  BY ResponseFields
<1>2. TransportCap(u) = IF caps = {} THEN NoCap ELSE cap
  BY DEF TransportCap
<1>3. caps # {} => cap \in caps /\ \A b \in caps : cap <= b
  <2>1. caps # {} => \E c \in caps : \A b \in caps : c <= b
    BY <1>1
  <2> HIDE DEF caps
  <2> QED
    BY <2>1
<1>4. \A c \in caps : \/ c = u.length
                      \/ raw /\ u.signed # NoSize /\ c = u.signed
  OBVIOUS
<1>5. raw => u.signed \in caps
  BY <1>1
<1>6. \A c \in caps : c \in Nat /\ c # NoCap
  BY <1>1, <1>4, NarBodyAssumption
<1> HIDE DEF caps, cap
<1> QED
  BY <1>2, <1>3, <1>4, <1>5, <1>6

(* The invariant gives the property.                                       *)
LEMMA BodyInvFair == BodyInv => BodyIsFair
<1> SUFFICES ASSUME BodyInv PROVE BodyIsFair
  OBVIOUS
<1>0. sent \in Nat /\ queue \in Nat /\ queue <= ForwardDepth /\ sent <= FullLength
  BY Zenon DEF BodyInv, CountsInv, FrameInv
<1>1. sent \in Lengths /\ queue \in 0..ForwardDepth
  <2>1. FullLength \in Nat /\ FullLength <= MaxFrames
    BY FullLengthIs DEF BodyInv, CountsInv
  <2> QED
    BY <1>0, <2>1, NarBodyAssumption DEF Lengths
<1>2. BodyTypeOK
  BY <1>1, Zenon
     DEF BodyTypeOK, BodyInv, CountsInv, ReportInv, ChannelInv, FrameInv, InHand, FullLength
<1>3. reports <= 1
  BY DEF BodyInv, ReportInv
<1>4. ReportIsTrue
  BY <1>3, Zenon DEF ReportIsTrue, BodyInv, ReportInv, FrameInv, FullLength
<1> QED
  BY <1>2, <1>4 DEF BodyIsFair, BodyInv, FrameInv

(* A body at its start.                                                    *)
LEMMA BodyInitInv == BodyInit => BodyInv
<1> SUFFICES ASSUME BodyInit PROVE BodyInv
  OBVIOUS
<1>1. response \in UpstreamResponses \cup PeerResponses
  BY DEF BodyInit
<1>2. /\ FullLength \in Nat /\ response.from \in {"upstream", "peer"}
      /\ response.compression = "raw" => response.signed \in Nat
  BY <1>1, FullLengthIs
<1>3. /\ pulled = 0 /\ queue = 0 /\ sent = 0
      /\ driver = IF response.from = "peer" THEN "pull" ELSE "stopped"
  BY Zenon DEF BodyInit
<1>b. broken = FALSE /\ dropped = FALSE
  BY Zenon DEF BodyInit
<1>4. \/ outcome = "complete" /\ reports = 1 /\ FullLength = 0
      \/ outcome = "none" /\ reports = 0
  BY Zenon DEF BodyInit, AtEnd, FullLength
<1>5. CountsInv
  BY <1>1, <1>3, NarBodyAssumption DEF CountsInv
<1>6. ReportInv
  <2>1. /\ outcome \in BodyOutcomes /\ reports \in {0, 1}
        /\ reports = 0 <=> outcome = "none"
    BY <1>4 DEF BodyOutcomes
  <2> QED
    BY <1>b, <2>1, Zenon DEF ReportInv
<1>7. ChannelInv
  <2>1. /\ response.from = "peer" => driver = "pull" /\ driver # "stopped"
        /\ response.from = "upstream" => driver = "stopped"
        /\ pulled <= FullLength /\ pulled = sent + queue + 0
    BY <1>2, <1>3
  <2>2. response.from = "peer" => InHand = 0
    BY <2>1 DEF InHand
  <2> QED
    BY <1>3, <2>1, <2>2, Zenon DEF ChannelInv
<1>8. FrameInv
  <2>1. /\ sent <= FullLength /\ outcome # "over_cap"
        /\ outcome = "complete" => sent = FullLength
    BY <1>2, <1>3, <1>4
  <2>2. response.compression = "raw" => sent <= response.signed
    BY <1>2, <1>3
  <2> QED
    BY <2>1, <2>2, Zenon DEF FrameInv, CapIsFair
<1> QED
  BY <1>5, <1>6, <1>7, <1>8 DEF BodyInv

(* The driver's steps.                                                     *)
LEMMA DriverKept == ASSUME BodyInv, DriverPull \/ DriverSend PROVE BodyInv'
<1>1. UNCHANGED <<response, sent, outcome, reports, dropped>>
  BY DEF DriverPull, DriverSend
<1>2. response \in UpstreamResponses \cup PeerResponses
  BY DEF BodyInv, CountsInv
<1>3. response.from = "peer" /\ FullLength \in Nat
  <2>1. driver # "stopped"
    BY DEF DriverPull, DriverSend
  <2> QED
    BY <1>2, <2>1, FullLengthIs DEF BodyInv, ChannelInv
<1>f. FullLength' = FullLength
  BY <1>1, Zenon DEF FullLength
<1>4. FrameInv'
  BY <1>1, <1>f, Zenon DEF FrameInv, CapIsFair, BodyInv
<1>5. CASE DriverPull
  <2>1. queue' = queue /\ broken' = broken
    BY <1>5 DEF DriverPull
  <2>2. \/ driver' = "send" /\ pulled' = pulled + 1 /\ pulled < FullLength
        \/ driver' = "send_error" /\ pulled' = pulled
        \/ driver' = "stopped" /\ pulled' = pulled /\ pulled = FullLength
    BY <1>5, Zenon DEF DriverPull, FullLength
  <2>3. driver = "pull" /\ InHand = 0
    BY <1>5 DEF DriverPull, InHand
  <2>4. CountsInv'
    <3>1. /\ pulled \in Nat /\ driver' \in {"pull", "send", "send_error", "stopped"}
      BY <2>2 DEF BodyInv, CountsInv
    <3>2. pulled' \in Nat
      BY <2>2, <3>1
    <3> QED
      BY <1>1, <2>1, <3>1, <3>2, Zenon DEF BodyInv, CountsInv
  <2>5. ReportInv'
    BY <1>1, <2>1, Zenon DEF BodyInv, ReportInv
  <2>6. ChannelInv'
    <3>1. pulled' <= FullLength
      <4>1. pulled <= FullLength /\ pulled \in Nat
        BY <1>3, Zenon DEF BodyInv, ChannelInv, CountsInv
      <4> QED
        BY <1>3, <2>2, <4>1
    <3>2. pulled = sent + queue + 0 => pulled' = sent + queue + InHand'
      BY <2>2 DEF BodyInv, CountsInv, InHand
    <3>3. ~dropped => pulled' = sent + queue + InHand'
      BY <1>3, <2>3, <3>2, Zenon DEF BodyInv, ChannelInv
    <3>4. driver' = "stopped" => pulled' = FullLength
      BY <2>2
    <3>5. response.from # "upstream"
      BY <1>3
    <3> QED
      BY <1>1, <1>f, <2>1, <3>1, <3>3, <3>4, <3>5, Zenon DEF ChannelInv
  <2> QED
    BY <1>4, <2>4, <2>5, <2>6 DEF BodyInv
<1>6. CASE DriverSend
  <2>0. pulled' = pulled /\ driver \in {"send", "send_error"}
    BY <1>6 DEF DriverSend
  <2>1. CASE dropped /\ driver' = "stopped" /\ UNCHANGED <<queue, broken>>
    <3>1. CountsInv'
      BY <1>1, <2>0, <2>1 DEF BodyInv, CountsInv
    <3>2. ReportInv'
      BY <1>1, <2>1, Zenon DEF BodyInv, ReportInv
    <3>3. response.from # "upstream"
      BY <1>3
    <3>4. ChannelInv'
      BY <1>1, <2>0, <2>1, <3>3, <1>f, Zenon DEF BodyInv, ChannelInv
    <3> QED
      BY <1>4, <3>1, <3>2, <3>4 DEF BodyInv
  <2>2. CASE /\ ~dropped /\ queue < ForwardDepth
             /\ driver = "send" /\ queue' = queue + 1 /\ driver' = "pull" /\ broken' = broken
    <3>1. CountsInv'
      BY <1>1, <2>0, <2>2, NarBodyAssumption DEF BodyInv, CountsInv
    <3>2. ReportInv'
      BY <1>1, <2>2, Zenon DEF BodyInv, ReportInv
    <3>3. pulled = sent + queue + 1
      <4>1. pulled = sent + queue + InHand
        BY <1>3, <2>2, Zenon DEF BodyInv, ChannelInv
      <4> QED
        BY <2>2, <4>1 DEF InHand
    <3>4. pulled = sent + queue' + InHand'
      BY <2>2, <3>3 DEF BodyInv, CountsInv, InHand
    <3>5. response.from # "upstream" /\ driver' # "stopped"
      BY <1>3, <2>2
    <3>6. ChannelInv'
      BY <1>1, <1>f, <2>0, <3>4, <3>5, Zenon DEF BodyInv, ChannelInv
    <3> QED
      BY <1>4, <3>1, <3>2, <3>6 DEF BodyInv
  <2>3. CASE /\ driver = "send_error" /\ broken' = TRUE /\ driver' = "stopped"
             /\ queue' = queue
    <3>1. CountsInv'
      BY <1>1, <2>0, <2>3 DEF BodyInv, CountsInv
    <3>2. ReportInv'
      BY <1>1, <2>3, Zenon DEF BodyInv, ReportInv
    <3>3. InHand' = InHand
      BY <2>3 DEF InHand
    <3>4. response.from # "upstream"
      BY <1>3
    <3>5. ChannelInv'
      BY <1>1, <1>f, <2>0, <2>3, <3>3, <3>4, Zenon DEF BodyInv, ChannelInv
    <3> QED
      BY <1>4, <3>1, <3>2, <3>5 DEF BodyInv
  <2> QED
    BY <1>6, <2>0, <2>1, <2>2, <2>3, Zenon DEF DriverSend
<1> QED
  BY <1>5, <1>6

(* A body that is dropped stays so.                                        *)
DropsOnly == dropped' \in BOOLEAN /\ (dropped => dropped')

(* A step that leaves the frames alone and reports what is so.             *)
LEMMA ReportKept ==
    ASSUME BodyInv, NEW what \in BodyOutcomes \ {"none"}, Report(what),
           UNCHANGED <<response, driver, pulled, queue, broken, sent>>,
           DropsOnly,
           reports = 0 /\ what = "complete" => sent = FullLength,
           reports = 0 /\ what = "over_cap" => response.length > response.honest
    PROVE  BodyInv'
<1>1. /\ outcome' \in BodyOutcomes /\ reports' = 1 /\ outcome' # "none"
      /\ outcome' = outcome \/ (reports = 0 /\ outcome' = what)
  <2>1. reports \in {0, 1} /\ outcome \in BodyOutcomes /\ (reports = 0 <=> outcome = "none")
    BY DEF BodyInv, ReportInv
  <2>2. CASE reports = 0
    BY <2>1, <2>2 DEF Report
  <2>3. CASE reports = 1
    BY <2>1, <2>3 DEF Report
  <2> QED
    BY <2>1, <2>2, <2>3
<1>2. CountsInv'
  BY DEF BodyInv, CountsInv
<1>3. ReportInv'
  <2>1. reports' \in {0, 1} /\ reports' # 0
    BY <1>1
  <2> QED
    BY <1>1, <2>1, Zenon DEF BodyInv, ReportInv, DropsOnly
<1>4. InHand' = InHand /\ FullLength' = FullLength
  BY Zenon DEF InHand, FullLength
<1>5. ChannelInv'
  BY <1>4, Zenon DEF BodyInv, ChannelInv, DropsOnly
<1>6. FrameInv'
  BY <1>1, <1>4, Zenon DEF BodyInv, FrameInv, CapIsFair
<1> QED
  BY <1>2, <1>3, <1>5, <1>6 DEF BodyInv

(* Frames move only before the report.                                     *)
LEMMA PolledFacts ==
    ASSUME BodyInv, Polled
    PROVE  /\ reports = 0 /\ outcome = "none" /\ ~dropped
           /\ response \in UpstreamResponses \cup PeerResponses
           /\ sent \in Nat /\ sent <= FullLength
BY Zenon DEF BodyInv, CountsInv, ReportInv, FrameInv, Polled

(* A frame of the upstream is forwarded within the cap or ends the body.   *)
LEMMA UpstreamFrameKept == ASSUME BodyInv, UpstreamFrame PROVE BodyInv'
<1> DEFINE cap == TransportCap(response)
<1>1. /\ reports = 0 /\ outcome = "none" /\ ~dropped
      /\ response \in UpstreamResponses \cup PeerResponses /\ sent \in Nat
  BY PolledFacts DEF UpstreamFrame
<1>0. /\ response.from = "upstream" /\ sent < FullLength
      /\ UNCHANGED <<response, driver, pulled, queue, broken, dropped>>
  BY Zenon DEF UpstreamFrame, channel, FullLength
<1>2. /\ FullLength \in Nat /\ response.honest \in Nat
      /\ response.signed # NoSize => response.signed \in Nat
      /\ response.compression = "raw" => response.signed # NoSize
      /\ response.wire = "raw" /\ response.signed # NoSize => response.honest = response.signed
  BY <1>1, ResponseFields, Zenon DEF FullLength
<1>3. /\ cap # NoCap => /\ cap \in Nat
                        /\ \/ cap = FullLength
                           \/ /\ response.wire = "raw" /\ response.signed # NoSize
                              /\ cap = response.signed
      /\ response.compression = "raw" /\ response.wire = "raw" =>
            cap # NoCap /\ cap <= response.signed
  BY <1>1, CapOf, Zenon DEF FullLength
<1>4. CASE cap # NoCap /\ sent + 1 > cap
  <2>1. sent' = sent /\ Report("over_cap")
    BY <1>4 DEF UpstreamFrame
  <2> HIDE DEF cap
  <2>2. FullLength > response.honest
    BY <1>0, <1>1, <1>2, <1>3, <1>4
  <2>3. DropsOnly
    BY <1>0, Zenon DEF BodyInv, ReportInv, DropsOnly
  <2>5. "over_cap" \in BodyOutcomes \ {"none"}
    BY DEF BodyOutcomes
  <2>4. "over_cap" # "complete"
    OBVIOUS
  <2> QED
    BY <1>0, <2>1, <2>2, <2>3, <2>4, <2>5, ReportKept, Zenon DEF FullLength
<1>5. CASE ~(cap # NoCap /\ sent + 1 > cap)
  <2>1. /\ sent' = sent + 1
        /\ IF AtEnd(response, sent') THEN Report("complete")
           ELSE UNCHANGED <<outcome, reports>>
    BY <1>5 DEF UpstreamFrame
  <2> HIDE DEF cap
  <2>2. \/ outcome' = "complete" /\ reports' = 1 /\ sent' = FullLength
        \/ outcome' = "none" /\ reports' = 0
    <3>1. CASE AtEnd(response, sent')
      <4>1. ~(reports > 0) /\ sent' = FullLength
        <5>1. ~(reports > 0)
          BY <1>1
        <5> QED
          BY <3>1, <5>1, Zenon DEF AtEnd, FullLength
      <4> QED
        BY <2>1, <3>1, <4>1, Zenon DEF Report
    <3>2. CASE ~AtEnd(response, sent')
      BY <1>1, <2>1, <3>2, Zenon
    <3> QED
      BY <3>1, <3>2
  <2>3. FrameInv'
    <3>1. /\ sent' <= FullLength /\ outcome' # "over_cap"
          /\ outcome' = "complete" => sent' = FullLength
      BY <1>0, <1>1, <1>2, <2>1, <2>2
    <3>2. response.compression = "raw" /\ response.wire = "raw" => sent' <= response.signed
      BY <1>1, <1>2, <1>3, <1>5, <2>1
    <3>3. FullLength' = FullLength
      BY <1>0, Zenon DEF FullLength
    <3> QED
      BY <1>0, <3>1, <3>2, <3>3, Zenon DEF FrameInv, CapIsFair
  <2>4. CountsInv'
    <3>1. sent' \in Nat
      BY <1>1, <2>1
    <3> QED
      BY <1>0, <3>1, Zenon DEF BodyInv, CountsInv
  <2>5. ReportInv'
    <3>1. /\ outcome' \in BodyOutcomes /\ reports' \in {0, 1}
          /\ reports' = 0 <=> outcome' = "none"
      BY <2>2 DEF BodyOutcomes
    <3> QED
      BY <1>0, <1>1, <3>1, Zenon DEF BodyInv, ReportInv
  <2>6. ChannelInv'
    <3>1. response.from # "peer"
      BY <1>0
    <3> QED
      BY <1>0, <3>1, Zenon DEF BodyInv, ChannelInv
  <2> QED
    BY <2>3, <2>4, <2>5, <2>6 DEF BodyInv
<1> QED
  BY <1>4, <1>5

(* A frame of the peer leaves the channel.                                 *)
LEMMA PeerFrameKept == ASSUME BodyInv, PeerFrame PROVE BodyInv'
<1>1. /\ reports = 0 /\ outcome = "none" /\ ~dropped
      /\ response \in UpstreamResponses \cup PeerResponses /\ sent \in Nat
  BY PolledFacts DEF PeerFrame
<1>2. /\ queue > 0 /\ queue' = queue - 1 /\ sent' = sent + 1
      /\ UNCHANGED <<response, driver, pulled, broken, outcome, reports, dropped>>
  BY DEF PeerFrame
<1>3. response.from = "peer" /\ FullLength \in Nat /\ FullLength = response.signed
  <2>1. queue # 0
    BY <1>2
  <2> QED
    BY <1>1, <2>1, FullLengthIs DEF BodyInv, ChannelInv
<1>f. FullLength' = FullLength
  BY <1>2, Zenon DEF FullLength
<1>4. pulled <= FullLength /\ pulled = sent + queue + InHand
  BY <1>1, <1>3, Zenon DEF BodyInv, ChannelInv
<1>5. /\ InHand' = InHand /\ InHand \in Nat /\ pulled \in Nat /\ queue \in Nat
      /\ queue <= ForwardDepth
  BY <1>2 DEF InHand, BodyInv, CountsInv
<1>6. /\ sent' <= FullLength /\ pulled = sent' + queue' + InHand'
      /\ queue' \in Nat /\ queue' <= ForwardDepth /\ sent' \in Nat
  BY <1>1, <1>2, <1>3, <1>4, <1>5, NarBodyAssumption
<1>7. CountsInv'
  BY <1>2, <1>6 DEF BodyInv, CountsInv
<1>8. ReportInv'
  BY <1>2, Zenon DEF BodyInv, ReportInv
<1>9. ChannelInv'
  <2>1. response.from # "upstream"
    BY <1>3
  <2> QED
    BY <1>2, <1>6, <1>f, <2>1, Zenon DEF BodyInv, ChannelInv
<1>10. FrameInv'
  <2>1. outcome' = "none" /\ "none" \notin {"over_cap", "complete"}
    BY <1>1, <1>2
  <2> QED
    BY <1>2, <1>3, <1>6, <1>f, <2>1, Zenon DEF FrameInv, CapIsFair
<1> QED
  BY <1>7, <1>8, <1>9, <1>10 DEF BodyInv

(* A body is cut only when it is longer than its file, no more than the    *)
(* signed size of a raw NAR is forwarded, and the transfer is reported     *)
(* once and as complete only when it is, for any lengths, any depth of the *)
(* channel and whenever the client, the peer or the upstream goes away     *)
(* (BoundedBody, NarStreamBody and LoggingBody).                           *)
THEOREM BodyAlwaysFair == BodySpec => []BodyIsFair
<1>1. ASSUME BodyInv, [BodyNext]_bodyVars PROVE BodyInv'
  <2>a. \A what \in {"complete", "aborted"} : what \in BodyOutcomes \ {"none"} /\ what # "over_cap"
    BY DEF BodyOutcomes
  <2>b. "aborted" # "complete"
    OBVIOUS
  <2>c. ASSUME dropped' = dropped PROVE DropsOnly
    <3>1. dropped \in BOOLEAN
      BY <1>1 DEF BodyInv, ReportInv
    <3> QED
      BY <2>c, <3>1, Zenon DEF DropsOnly
  <2>1. CASE UNCHANGED bodyVars
    <3>1. UNCHANGED <<response, driver, pulled, queue, broken, sent, outcome, reports, dropped>>
      BY <2>1 DEF bodyVars
    <3> QED
      BY <1>1, <3>1, Zenon
         DEF BodyInv, CountsInv, ReportInv, ChannelInv, FrameInv, CapIsFair, InHand, FullLength
  <2>2. CASE DriverPull \/ DriverSend
    BY <1>1, <2>2, DriverKept
  <2>3. CASE UpstreamFrame
    BY <1>1, <2>3, UpstreamFrameKept
  <2>4. CASE PeerFrame
    BY <1>1, <2>4, PeerFrameKept
  <2>5. CASE UpstreamEnd
    <3>1. /\ sent = FullLength /\ Report("complete")
          /\ UNCHANGED <<response, driver, pulled, queue, broken, sent, dropped>>
      BY <2>5, Zenon DEF UpstreamEnd, channel, FullLength
    <3> QED
      BY <1>1, <2>a, <2>b, <2>c, <3>1, ReportKept, Zenon
  <2>6. CASE UpstreamError \/ PeerError
    <3>1. /\ Report("aborted")
          /\ UNCHANGED <<response, driver, pulled, queue, broken, sent, dropped>>
      BY <2>6 DEF UpstreamError, PeerError, channel
    <3> QED
      BY <1>1, <2>a, <2>b, <2>c, <3>1, ReportKept, Zenon
  <2>7. CASE PeerEnd
    <3>1. /\ Polled /\ response.from = "peer" /\ queue = 0 /\ ~broken /\ driver = "stopped"
          /\ Report("complete")
          /\ UNCHANGED <<response, driver, pulled, queue, broken, sent, dropped>>
      BY <2>7 DEF PeerEnd, channel
    <3>2. pulled = FullLength /\ pulled = sent + queue + InHand
      BY <1>1, <3>1, PolledFacts, Zenon DEF BodyInv, ChannelInv
    <3>3. sent = FullLength
      BY <1>1, <3>1, <3>2 DEF InHand, BodyInv, CountsInv
    <3> QED
      BY <1>1, <2>a, <2>b, <2>c, <3>1, <3>3, ReportKept, Zenon
  <2>8. CASE DropBody
    <3>1. /\ Report("aborted") /\ dropped' = TRUE
          /\ UNCHANGED <<response, driver, pulled, queue, broken, sent>>
      BY <2>8 DEF DropBody, channel
    <3>2. DropsOnly
      BY <3>1, Zenon DEF DropsOnly
    <3> QED
      BY <1>1, <2>a, <2>b, <3>1, <3>2, ReportKept, Zenon
  <2> QED
    BY <1>1, <2>1, <2>2, <2>3, <2>4, <2>5, <2>6, <2>7, <2>8 DEF BodyNext
<1> QED
  BY <1>1, BodyInitInv, BodyInvFair, PTL DEF BodySpec
=============================================================================
