--------------------------- MODULE UpstreamChain ----------------------------
(***************************************************************************)
(* A request that passes through a chain of daemons, each the upstream of   *)
(* the one before it: the HTTP server (daemon-core/src/server.rs) and the   *)
(* upstream client (daemon-core/src/upstream.rs).  Each daemon waits for     *)
(* connect, TLS handshake and response head no longer than its own timeouts *)
(* and what is left of the budget its caller sent along.                    *)
(*                                                                          *)
(* Time is counted in ticks, MsTicks to the millisecond the budget header   *)
(* is written in.  Hop 1 is the one the client talks to; the upstream of    *)
(* hop Depth is a cache outside the chain.                                  *)
(***************************************************************************)
EXTENDS Integers, Sequences, FiniteSets

CONSTANTS Depth, MsTicks, MaxTime,
          Setups,   \* how a daemon's upstream may be configured
          Routes,   \* request paths
          Heads     \* response heads the outside cache may send

ASSUME ChainAssumption == Depth \in Nat \ {0} /\ MsTicks \in Nat \ {0}

VARIABLES setup,    \* per hop: scheme and timeouts
          request,  \* the route of the request
          hop,      \* per hop: where its handler is
          origin,   \* the head the cache sent
          now

chainVars == <<setup, request, hop, origin, now>>

Hops == 1..Depth
NoBudget == -1
NoHead == [te |-> <<>>, listed |-> {}, odd |-> FALSE, length |-> FALSE, private |-> FALSE]
Unasked == [at |-> "idle", budget |-> NoBudget, began |-> 0, until |-> 0, grant |-> 0,
            sent |-> 0, head |-> NoHead, why |-> "none"]

Least(a, b) == IF a < b THEN a ELSE b
Minus(a, b) == IF a > b THEN a - b ELSE 0       \* saturating_sub

-----------------------------------------------------------------------------
(* The upstream's address: parse_authority and is_private_or_loopback_host. *)
IsPrivateOrLoopbackHost(host) ==
    host \in {"loopback", "private-v4", "unique-local-v6", "link-local", "localhost"}

ParseAuthority(base) ==
    IF base.port = "bad" THEN "refused"
    ELSE IF base.scheme # "none" THEN base.scheme
    ELSE IF IsPrivateOrLoopbackHost(base.host) THEN "http" ELSE "https"

(* UpstreamHttp::new, plain and tls: the scheme picks the transport.       *)
TransportOf(s) == IF ParseAuthority(s.base) = "http" THEN "plain" ELSE "tls"

(* The waits: each is the hop's own, cut to what is left of the budget.     *)
ComposedConnectCap(timeout, budget) ==
    IF budget = NoBudget THEN timeout ELSE Least(timeout, budget)

StageBudget(total, elapsed, cap) == Least(Minus(total, elapsed), cap)

TlsStageCap(base, budget, elapsed) ==
    IF budget = NoBudget THEN base ELSE Least(base, Minus(budget, elapsed))

(* Mutant of ComposedHeaderWait: the time spent on connecting is not taken  *)
(* off the budget.                                                          *)
ComposedHeaderWaitFresh(timeout, budget, elapsed) ==
    IF budget = NoBudget THEN timeout ELSE Least(timeout, budget)

ComposedHeaderWait(timeout, budget, elapsed) ==
    IF budget = NoBudget THEN timeout ELSE Least(timeout, Minus(budget, elapsed))

(* The header carries whole milliseconds; parse_hop_budget reads them.     *)
HopBudgetMs(wait) == wait \div MsTicks
ParseHopBudget(ms) == ms * MsTicks

-----------------------------------------------------------------------------
(* Response heads.                                                         *)

HasUnsupportedTransferCoding(head) ==
    \/ Len(head.te) > 1
    \/ Len(head.te) = 1 /\ head.te[1] \notin {"chunked", "identity"}

HasAmbiguousFraming(head) == head.te # <<>> /\ head.length

(* odd: Connection holds a byte no token may have.                         *)
MustFailClosed(head) ==
    HasUnsupportedTransferCoding(head) \/ head.odd \/ HasAmbiguousFraming(head)

(* connection_listed_tokens: what the head's Connection header names.       *)
ConnectionListedTokens(head) == head.listed

ForwardHeaders(head) ==
    [te |-> <<>>, listed |-> {}, odd |-> FALSE,
     length |-> head.length /\ "content-length" \notin ConnectionListedTokens(head),
     private |-> head.private /\ "private" \notin ConnectionListedTokens(head)]

(* A daemon's HTTP library frames what has no length in chunks (external).  *)
Framed(head) ==
    IF head.length THEN head ELSE [head EXCEPT !.te = IF @ = <<>> THEN <<"chunked">> ELSE @]

(* text_status and respond_cache_info: a short body of known length.       *)
TextStatus == [NoHead EXCEPT !.length = TRUE]

-----------------------------------------------------------------------------
Put(h, r) == hop' = [hop EXCEPT ![h] = r]

Fail(h, why) == Put(h, [hop[h] EXCEPT !.at = "failed", !.why = why, !.head = TextStatus])

(* UpstreamHttp::send up to its first wait.                                *)
Sending(h, budget) ==
    LET s == setup[h]
        cap == IF TransportOf(s) = "plain" THEN ComposedConnectCap(s.connect, budget)
               ELSE TlsStageCap(StageBudget(s.tlsTotal, 0, s.tlsConnect), budget, 0)
    IN  [hop[h] EXCEPT !.at = "connecting", !.budget = budget, !.began = now,
                       !.until = now + cap]

(* serve and handle: the connection gets a task, or is dropped when the     *)
(* supervisor is at its limit; a supervisor that is closed ends the server. *)
Carried(h) == IF h = 1 THEN NoBudget ELSE ParseHopBudget(HopBudgetMs(hop[h - 1].grant))

Asked(h) == hop[h].at = "idle" /\ (h > 1 => hop[h - 1].at = "waiting")

Accept(h) ==
    /\ Asked(h)
    /\ Put(h, IF request = "cache-info"
              THEN [hop[h] EXCEPT !.at = "answered", !.head = TextStatus, !.began = now]
              ELSE Sending(h, Carried(h)))
    /\ UNCHANGED <<setup, request, origin, now>>

Decline(h) ==
    /\ Asked(h)
    /\ Put(h, [hop[h] EXCEPT !.at = "dropped", !.why = "declined"])
    /\ UNCHANGED <<setup, request, origin, now>>

(* send_over: the request goes out with what may still be waited.          *)
SendOver(h) ==
    LET wait == ComposedHeaderWait(setup[h].header, hop[h].budget, now - hop[h].began)
    IN  Put(h, [hop[h] EXCEPT !.at = "waiting", !.grant = wait, !.sent = now,
                              !.until = now + wait])

Connected(h) ==
    /\ hop[h].at = "connecting"
    /\ IF TransportOf(setup[h]) = "plain" THEN SendOver(h)
       ELSE LET s == setup[h]
                spent == now - hop[h].began
                cap == TlsStageCap(StageBudget(s.tlsTotal, spent, s.tlsHandshake),
                                   hop[h].budget, spent)
            IN  Put(h, [hop[h] EXCEPT !.at = "handshaking", !.until = now + cap])
    /\ UNCHANGED <<setup, request, origin, now>>

Handshaken(h) ==
    /\ hop[h].at = "handshaking"
    /\ SendOver(h)
    /\ UNCHANGED <<setup, request, origin, now>>

(* A refused connect, a failed handshake, a request that cannot be sent.   *)
StepFails(h) ==
    /\ hop[h].at \in {"connecting", "handshaking", "waiting"}
    /\ Fail(h, IF hop[h].at = "connecting" THEN "unreachable" ELSE "upstream")
    /\ UNCHANGED <<setup, request, origin, now>>

TimesOut(h) ==
    /\ hop[h].at \in {"connecting", "handshaking", "waiting"}
    /\ now >= hop[h].until
    /\ Fail(h, "unreachable")
    /\ UNCHANGED <<setup, request, origin, now>>

(* forward, forward_nar and respond_narinfo on a head that arrived.         *)
Pass(h, head) ==
    IF MustFailClosed(head) THEN Fail(h, "refused")
    ELSE Put(h, [hop[h] EXCEPT !.at = "answered", !.head = Framed(ForwardHeaders(head))])

(* fetch_streaming answers at the head, fetch_buffered after the body.      *)
Receive(h, head) ==
    IF request = "narinfo"
    THEN Put(h, [hop[h] EXCEPT !.at = "reading", !.head = head])
    ELSE Pass(h, head)

HeadArrives(h) ==
    /\ hop[h].at = "waiting"
    /\ IF h = Depth
       THEN \E head \in Heads : origin' = head /\ Receive(h, head)
       ELSE /\ hop[h + 1].at \in {"answered", "failed"}
            /\ Receive(h, hop[h + 1].head)
            /\ UNCHANGED origin
    /\ UNCHANGED <<setup, request, now>>

BodyRead(h) ==
    /\ hop[h].at = "reading"
    /\ Pass(h, hop[h].head)
    /\ UNCHANGED <<setup, request, origin, now>>

(* The body is longer than MAX_BUFFERED_BODY, or breaks off.               *)
BodyFails(h) ==
    /\ hop[h].at = "reading"
    /\ Fail(h, "upstream")
    /\ UNCHANGED <<setup, request, origin, now>>

(* The connection to a caller that gave up is closed and its handler ends.  *)
CallerGone(h) ==
    /\ h > 1 /\ hop[h - 1].at = "failed"
    /\ hop[h].at \in {"connecting", "handshaking", "waiting", "reading"}
    /\ Put(h, [hop[h] EXCEPT !.at = "dropped", !.why = "caller gone"])
    /\ UNCHANGED <<setup, request, origin, now>>

(* Timers fire on time.                                                    *)
TimePassesInChain ==
    /\ now < MaxTime
    /\ \A h \in Hops : hop[h].at \in {"connecting", "handshaking", "waiting"} => now < hop[h].until
    /\ now' = now + 1
    /\ UNCHANGED <<setup, request, hop, origin>>

ChainInit ==
    /\ setup \in [Hops -> {s \in Setups : ParseAuthority(s.base) # "refused"}]
    /\ request \in Routes
    /\ hop = [h \in Hops |-> Unasked]
    /\ origin = NoHead
    /\ now = 0

ChainNext ==
    \/ \E h \in Hops : \/ Accept(h) \/ Decline(h) \/ Connected(h) \/ Handshaken(h)
                       \/ StepFails(h) \/ TimesOut(h) \/ HeadArrives(h)
                       \/ BodyRead(h) \/ BodyFails(h) \/ CallerGone(h)
    \/ TimePassesInChain

ChainSpec == ChainInit /\ [][ChainNext]_chainVars

-----------------------------------------------------------------------------
(* The budget composes: a hop that was given one never tells its upstream   *)
(* it may take longer than what is left of it, is not still waiting for the *)
(* head when it has run out, and so, but for the time the request spent on  *)
(* its way, has ended before any hop above it gives up (composed_*_cap,     *)
(* tls_stage_cap and the truncation to milliseconds).                       *)
BudgetComposes ==
    \A h \in 2..Depth :
        LET r == hop[h]
            transit == r.began - hop[h - 1].sent
        IN  r.at \in {"connecting", "handshaking", "waiting"} =>
                /\ r.budget <= hop[h - 1].grant
                /\ now <= r.began + r.budget
                /\ r.at = "waiting" => r.grant <= r.budget - (r.sent - r.began)
                /\ now <= hop[h - 1].sent + hop[h - 1].grant + transit

(* A response the last daemon of the chain lets through is let through by   *)
(* every daemon above it, and no header meant for one connection goes       *)
(* further than that connection (must_fail_closed, forward_headers).        *)
ForwardedIsEndToEnd ==
    \A h \in Hops :
        /\ hop[h].why = "refused" => h = Depth
        /\ hop[h].at = "answered" => /\ ~MustFailClosed(hop[h].head)
                                     /\ "private" \in origin.listed => ~hop[h].head.private

-----------------------------------------------------------------------------
(***************************************************************************)
(* How the test proxy reaches its upstream cache (testproxy/src/http.rs):   *)
(* DNS and the TCP connection in a worker thread that a deadline may leave   *)
(* behind, the TLS handshake under a watchdog thread that shuts the socket  *)
(* down, then one request and the head of its response.  The plain scheme   *)
(* goes straight to the request.                                            *)
(*                                                                          *)
(* Time is counted in units; DNS, TCP and TLS are external and take as long *)
(* as they like.  A time-out that is due happens before time goes on.       *)
(***************************************************************************)

CONSTANTS TotalBudget, ConnectBudget, HandshakeBudget, MaxTlsTime, Addresses

ASSUME TlsAssumption ==
    /\ {TotalBudget, ConnectBudget, HandshakeBudget, MaxTlsTime, Addresses} \subseteq Nat

VARIABLES https,     \* the scheme of the base URL
          doing,     \* what the calling thread does
          worker,    \* the connecting thread: the addresses it has left, 0 when it is over
          watchdog,  \* "none", "armed", "fired", "over"
          socket,    \* "none", "open", "shut"
          shaken,    \* what the handshake returned
          outcome,   \* what the caller was given
          time,
          begun      \* when the stage began

tls == <<https, doing, worker, watchdog, socket, shaken, outcome, time, begun>>

LeastBudget(a, b) == IF a < b THEN a ELSE b

(* stage_budget, saturating.                                               *)
TlsStageBudget(elapsed, cap) ==
    LeastBudget(IF elapsed > TotalBudget THEN 0 ELSE TotalBudget - elapsed, cap)

ConnectCap == TlsStageBudget(0, ConnectBudget)
HandshakeCap == TlsStageBudget(begun, HandshakeBudget)

Finish(o) == doing' = "done" /\ outcome' = o

-----------------------------------------------------------------------------
(* upstream_get: parse_authority may refuse the base URL.                  *)
UpstreamGet ==
    /\ doing = "start"
    /\ \/ Finish("invalid") /\ UNCHANGED <<worker, socket>>
       \/ /\ https
          /\ IF ConnectCap = 0 THEN Finish("timed out") /\ UNCHANGED worker
             ELSE doing' = "connect" /\ worker' = Addresses /\ UNCHANGED outcome
          /\ UNCHANGED socket
       \/ ~https /\ doing' = "request" /\ socket' = "open" /\ UNCHANGED <<worker, outcome>>
       \/ ~https /\ Finish("error") /\ UNCHANGED <<worker, socket>>
    /\ UNCHANGED <<https, watchdog, shaken, time, begun>>

(* resolve_and_connect tries one address after the other; its result is     *)
(* taken by a caller that still waits.                                     *)
TlsConnected ==
    /\ worker > 0
    /\ worker' = 0
    /\ IF doing = "connect"
       THEN doing' = "connected" /\ socket' = "open" /\ begun' = time
       ELSE UNCHANGED <<doing, socket, begun>>
    /\ UNCHANGED <<https, watchdog, shaken, outcome, time>>

AddressFails ==
    /\ worker > 0
    /\ worker' = worker - 1
    /\ IF worker = 1 /\ doing = "connect" THEN Finish("error") ELSE UNCHANGED <<doing, outcome>>
    /\ UNCHANGED <<https, watchdog, socket, shaken, time, begun>>

(* connect_within: recv_timeout.                                           *)
ConnectTimesOut ==
    /\ doing = "connect" /\ time >= ConnectCap
    /\ Finish("timed out")
    /\ UNCHANGED <<https, worker, watchdog, socket, shaken, time, begun>>

(* fetch_https: the watchdog is started with what is left of the budget.   *)
StartHandshake ==
    /\ doing = "connected"
    /\ IF HandshakeCap = 0 THEN Finish("timed out") /\ UNCHANGED watchdog
       ELSE doing' = "handshake" /\ watchdog' = "armed" /\ UNCHANGED outcome
    /\ UNCHANGED <<https, worker, socket, shaken, time, begun>>

(* The watchdog thread: `fired` first, then the socket.                    *)
WatchdogFires ==
    /\ watchdog = "armed" /\ time >= begun + HandshakeCap
    /\ watchdog' = "fired"
    /\ UNCHANGED <<https, doing, worker, socket, shaken, outcome, time, begun>>

WatchdogShuts ==
    /\ watchdog = "fired" /\ socket = "open"
    /\ socket' = "shut"
    /\ UNCHANGED <<https, doing, worker, watchdog, shaken, outcome, time, begun>>

(* TlsConnector::connect returns; on a socket that was shut it fails.      *)
HandshakeReturns ==
    /\ doing = "handshake"
    /\ \E ok \in BOOLEAN : /\ ok => socket = "open"
                           /\ shaken' = IF ok THEN "ok" ELSE "failed"
    /\ doing' = "join"
    /\ UNCHANGED <<https, worker, watchdog, socket, outcome, time, begun>>

(* The cancellation, then join: a watchdog that had fired shuts the socket  *)
(* first.  `fired` tells a deadline from a refused certificate.            *)
JoinWatchdog ==
    /\ doing = "join"
    /\ watchdog = "fired" => socket = "shut"
    /\ IF shaken = "ok" THEN doing' = "request" /\ UNCHANGED outcome
       ELSE Finish(IF watchdog = "fired" THEN "timed out" ELSE "error")
    /\ watchdog' = IF watchdog = "armed" THEN "over" ELSE watchdog
    /\ UNCHANGED <<https, worker, socket, shaken, time, begun>>

(* fetch_over: the request is written and a head within its limit is read,  *)
(* with a status; the body follows.                                        *)
FetchOver ==
    /\ doing = "request"
    /\ \/ socket = "open" /\ doing' = "body" /\ outcome' = "response"
       \/ Finish("error")
    /\ UNCHANGED <<https, worker, watchdog, socket, shaken, time, begun>>

TimeGoes ==
    /\ time < MaxTlsTime /\ time' = time + 1
    /\ doing = "connect" => time < ConnectCap
    /\ watchdog = "armed" => time < begun + HandshakeCap
    /\ ~(watchdog = "fired" /\ socket = "open") /\ doing \notin {"start", "connected", "join"}
    /\ doing = "handshake" => socket = "open"
    /\ UNCHANGED <<https, doing, worker, watchdog, socket, shaken, outcome, begun>>

TlsInit ==
    /\ https \in BOOLEAN
    /\ doing = "start" /\ worker = 0 /\ watchdog = "none" /\ socket = "none"
    /\ shaken = "none" /\ outcome = "none" /\ time = 0 /\ begun = 0

TlsNext ==
    \/ UpstreamGet \/ TlsConnected \/ AddressFails \/ ConnectTimesOut \/ StartHandshake
    \/ WatchdogFires \/ WatchdogShuts \/ HandshakeReturns \/ JoinWatchdog \/ FetchOver
    \/ TimeGoes

TlsSpec == TlsInit /\ [][TlsNext]_tls

-----------------------------------------------------------------------------
(* Reaching the TLS peer takes at most the whole budget, whatever DNS, TCP   *)
(* and the peer do; a watchdog never shuts down a connection whose response *)
(* is being read ("it can never tear down a live response"); and a failure  *)
(* is called a time-out only when a deadline passed (fetch_https,           *)
(* connect_within).                                                        *)
TlsIsBounded ==
    /\ doing \in {"connect", "connected", "handshake", "join"} => time <= TotalBudget
    /\ doing = "body" => socket = "open" /\ watchdog \in {"none", "over"}
    /\ outcome = "timed out" => time >= ConnectCap \/ watchdog = "fired"
=============================================================================
