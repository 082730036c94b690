---------------------------- MODULE SwarmWorker -----------------------------
(***************************************************************************)
(* The task that owns the libp2p swarm (fabric-libp2p/src/swarm.rs) and    *)
(* the callers of its handle.  A caller queues a command and waits on a    *)
(* one-shot reply under a timeout; when it gives up it may or may not      *)
(* leave a cancel notice, on another channel than the command's.  The      *)
(* worker takes commands, notices, swarm events and its sweep in any       *)
(* order, one at a time.                                                   *)
(*                                                                         *)
(* Three kinds of callers: exact dials (the connection they may use is     *)
(* theirs only if the reply was delivered), Kademlia queries, and          *)
(* listeners.  libp2p is external: a dial ends in a connection or an       *)
(* error, an open connection may close, a query reports until its last     *)
(* event, a listener becomes ready or closes.                              *)
(***************************************************************************)
EXTENDS Naturals, Sequences, FiniteSets, SequencesExt, FiniteSetsExt, TLC

CONSTANTS Dials, Inbound,     \* connections: of exact dials, and all others
          Queries, Listeners,
          CallScenarios,          \* sets of the callers, and other connections, of a behaviour
          KindOf,             \* KindOf[q]: "simple", "bootstrap", "providers", "record", "closest"
          MayRelay,           \* MayRelay[d]: the dial permits the relay
          Providers,          \* numbers: the rank of a provider under the salt of a query
          MaxPeers,           \* max_peers of a provider query
          MaxExactDials       \* MAX_PENDING_EXACT_DIALS

ASSUME SwarmAssumption ==
    /\ Providers \subseteq Nat /\ MaxPeers \in Nat /\ MaxExactDials \in Nat \ {0}
    /\ DOMAIN MayRelay = Dials /\ DOMAIN KindOf = Queries

VARIABLES
    callers,    \* the scenario of this behaviour
    call,       \* call[x]: "idle", "ready", "sent", "waiting", "gone", "ok" or "failed"
    inbox,      \* the command channel
    notices,    \* the cancel channels
    reply,      \* reply[x]: what its one-shot channel holds: "open", "ok" or "err"
    exact,      \* pending_exact_dials: "none", "active" or "tombstone"
    conn,       \* conn[c] in libp2p: "none", "dialing", "open", "closing" or "closed"
    route,      \* route[c]: how it was established
    routes,     \* conn_routes: the connections that may be selected
    lan,        \* lan_serve_conns
    handed,     \* handed[d]: the connection the caller got
    pending,    \* pending: the queries that wait for their end
    kad,        \* kad[q] in libp2p: "none", "running", "finishing" or "over"
    seen,       \* seen[q]: all providers the query has reported
    found, truncated,
    listening,  \* pending_listens
    listener    \* listener[l] in libp2p: "none", "starting", "ready" or "closed"

dialVars == <<exact, conn, route, routes, lan, handed>>
queryVars == <<pending, kad, seen, found, truncated>>
listenVars == <<listening, listener>>
callVars == <<callers, call, inbox, notices, reply>>
swarmVars == <<callVars, dialVars, queryVars, listenVars>>

Conns == Dials \cup Inbound
Callers == Dials \cup Queries \cup Listeners
NoConn == "none"
Established == {"direct", "relayed", "unknown", "stranger"}

SwarmTypeOK ==
    /\ call \in [Callers -> {"idle", "ready", "sent", "waiting", "gone", "ok", "failed"}]
    /\ inbox \subseteq Callers /\ notices \subseteq Callers
    /\ reply \in [Callers -> {"open", "ok", "err"}]
    /\ exact \in [Dials -> {"none", "active", "tombstone"}]
    /\ conn \in [Conns -> {"none", "dialing", "open", "closing", "closed"}]
    /\ route \in [Conns -> Established \cup {"none"}]
    /\ routes \subseteq Conns /\ lan \subseteq Conns
    /\ handed \in [Dials -> Conns \cup {NoConn}]
    /\ pending \subseteq Queries
    /\ kad \in [Queries -> {"none", "running", "finishing", "over"}]
    /\ seen \in [Queries -> SUBSET Providers] /\ found \in [Queries -> SUBSET Providers]
    /\ truncated \in [Queries -> BOOLEAN]
    /\ listening \subseteq Listeners
    /\ listener \in [Listeners -> {"none", "starting", "ready", "closed"}]

SwarmInit ==
    /\ callers \in CallScenarios
    /\ call = [x \in Callers |-> "idle"] /\ inbox = {} /\ notices = {}
    /\ reply = [x \in Callers |-> "open"]
    /\ exact = [d \in Dials |-> "none"] /\ conn = [c \in Conns |-> "none"]
    /\ route = [c \in Conns |-> "none"] /\ routes = {} /\ lan = {}
    /\ handed = [d \in Dials |-> NoConn]
    /\ pending = {} /\ kad = [q \in Queries |-> "none"]
    /\ seen = [q \in Queries |-> {}] /\ found = [q \in Queries |-> {}]
    /\ truncated = [q \in Queries |-> FALSE]
    /\ listening = {} /\ listener = [l \in Listeners |-> "none"]

----------------------------------------------------------------------------
(* One-shot replies: a send to a caller that has gone is lost. *)

Closed(x) == call[x] \notin {"sent", "waiting"}

Answer(x, value) ==
    reply' = IF Closed(x) THEN reply ELSE [reply EXCEPT ![x] = value]

----------------------------------------------------------------------------
(* Callers *)

Allowed(d, r) == r = "direct" \/ (r = "relayed" /\ MayRelay[d])

(* connect_authorized: a live authorized connection is used again, a direct  *)
(* one before a relayed one.                                                 *)
LookUp(d) ==
    /\ call[d] = "idle"
    /\ d \in callers
    /\ LET usable == {c \in routes : Allowed(d, route[c])}
           direct == {c \in usable : route[c] = "direct"}
       IN  IF usable = {}
           THEN call' = [call EXCEPT ![d] = "ready"] /\ UNCHANGED handed
           ELSE /\ call' = [call EXCEPT ![d] = "ok"]
                /\ \E c \in (IF direct # {} THEN direct ELSE usable) :
                     handed' = [handed EXCEPT ![d] = c]
    /\ UNCHANGED <<callers, inbox, notices, reply, exact, conn, route, routes, lan,
                   queryVars, listenVars>>

Send(x) ==
    /\ x \in callers
    /\ call[x] = IF x \in Dials THEN "ready" ELSE "idle"
    /\ call' = [call EXCEPT ![x] = "sent"]
    /\ inbox' = inbox \cup {x}
    /\ UNCHANGED <<callers, notices, reply, dialVars, queryVars, listenVars>>

HasId(q) == KindOf[q] \in {"providers", "record", "closest"}

(* The caller of a query with an id reply has got the id: from here on it    *)
(* holds a CancelOnDrop.                                                     *)
ReceiveId(q) ==
    /\ call[q] = "sent"
    /\ HasId(q)
    /\ kad[q] # "none"
    /\ call' = [call EXCEPT ![q] = "waiting"]
    /\ UNCHANGED <<callers, inbox, notices, reply, dialVars, queryVars, listenVars>>

Receive(x) ==
    /\ call[x] = IF x \in Queries /\ HasId(x) THEN "waiting" ELSE "sent"
    /\ reply[x] # "open"
    /\ call' = [call EXCEPT ![x] = IF reply[x] = "ok" THEN "ok" ELSE "failed"]
    /\ handed' = [d \in Dials |-> IF d = x /\ reply[x] = "ok" THEN d ELSE handed[d]]
    /\ UNCHANGED <<callers, inbox, notices, reply, exact, conn, route, routes, lan,
                   queryVars, listenVars>>

(* The timeout, or the caller is dropped, perhaps with a reply unread.  An   *)
(* armed guard leaves a notice.                                              *)
GiveUp(x) ==
    /\ call[x] \in {"ready", "sent", "waiting"}
    /\ call' = [call EXCEPT ![x] = "gone"]
    /\ notices' = IF (x \in Dials /\ call[x] = "sent") \/ (x \in Queries /\ call[x] = "waiting")
                  THEN notices \cup {x} ELSE notices
    /\ UNCHANGED <<callers, inbox, reply, dialVars, queryVars, listenVars>>

----------------------------------------------------------------------------
(* Exact dials *)

dialOnly == <<callers, call, route, lan, handed, queryVars, listenVars>>

(* DialExact: the cap, the registration, the dial, which may fail at once. *)
OnDialExact(d) ==
    /\ d \in inbox \cap Dials
    /\ inbox' = inbox \ {d}
    /\ \/ /\ Cardinality({e \in Dials : exact[e] # "none"}) < MaxExactDials
          /\ exact' = [exact EXCEPT ![d] = "active"]
          /\ conn' = [conn EXCEPT ![d] = "dialing"]
          /\ UNCHANGED reply
       \/ Answer(d, "err") /\ UNCHANGED <<exact, conn>>
    /\ UNCHANGED <<notices, routes, dialOnly>>

(* apply_exact_dial_cancel, and the close of a connection whose success the  *)
(* caller never read.                                                        *)
Tombstone(d) ==
    /\ exact' = [exact EXCEPT ![d] = IF exact[d] # "none" \/ d \in routes
                                     THEN "tombstone" ELSE "none"]
    /\ routes' = IF exact[d] = "none" THEN routes \ {d} ELSE routes
    /\ conn' = IF exact[d] = "none" /\ d \in routes
               THEN [conn EXCEPT ![d] = "closing"] ELSE conn

OnDialNotice(d) ==
    /\ d \in notices \cap Dials
    /\ notices' = notices \ {d}
    /\ Tombstone(d)
    /\ UNCHANGED <<inbox, reply, dialOnly>>

(* Mutant of OnEstablished: the connection is admitted although nobody took *)
(* the reply.                                                               *)
OnEstablishedUnread(c, r) ==
    /\ c \in callers
    /\ conn[c] = IF c \in Dials THEN "dialing" ELSE "none"
    /\ LET dial == c \in Dials
           keep == ~dial \/ (exact[c] = "active" /\ Allowed(c, r))
       IN  /\ route' = [route EXCEPT ![c] = r]
           /\ conn' = [conn EXCEPT ![c] = IF keep THEN "open" ELSE "closing"]
           /\ routes' = IF keep THEN routes \cup {c} ELSE routes
           /\ \E local \in BOOLEAN :
                lan' = IF keep /\ local THEN lan \cup {c} ELSE lan
           /\ exact' = [d \in Dials |-> IF d = c THEN "none" ELSE exact[d]]
           /\ IF dial /\ exact[c] = "active"
              THEN Answer(c, IF Allowed(c, r) THEN "ok" ELSE "err")
              ELSE UNCHANGED reply
    /\ UNCHANGED <<callers, call, inbox, notices, handed, queryVars, listenVars>>

(* apply_connection_established: delivering the reply admits the connection. *)
OnEstablished(c, r) ==
    /\ c \in callers
    /\ conn[c] = IF c \in Dials THEN "dialing" ELSE "none"
    /\ LET dial == c \in Dials
           keep == ~dial \/ (exact[c] = "active" /\ Allowed(c, r) /\ ~Closed(c))
       IN  /\ route' = [route EXCEPT ![c] = r]
           /\ conn' = [conn EXCEPT ![c] = IF keep THEN "open" ELSE "closing"]
           /\ routes' = IF keep THEN routes \cup {c} ELSE routes
           /\ \E local \in BOOLEAN :
                lan' = IF keep /\ local THEN lan \cup {c} ELSE lan
           /\ exact' = [d \in Dials |-> IF d = c THEN "none" ELSE exact[d]]
           /\ IF dial /\ exact[c] = "active"
              THEN Answer(c, IF Allowed(c, r) THEN "ok" ELSE "err")
              ELSE UNCHANGED reply
    /\ UNCHANGED <<callers, call, inbox, notices, handed, queryVars, listenVars>>

Forget(c) == exact' = [d \in Dials |-> IF d = c THEN "none" ELSE exact[d]]

OnDialError(d) ==
    /\ d \in Dials
    /\ conn[d] = "dialing"
    /\ conn' = [conn EXCEPT ![d] = "closed"]
    /\ IF exact[d] = "active" THEN Answer(d, "err") ELSE UNCHANGED reply
    /\ Forget(d)
    /\ UNCHANGED <<inbox, notices, routes, dialOnly>>

OnClosed(c) ==
    /\ conn[c] \in {"open", "closing"}
    /\ conn' = [conn EXCEPT ![c] = "closed"]
    /\ IF c \in Dials THEN (IF exact[c] = "active" THEN Answer(c, "err") ELSE UNCHANGED reply)
                      ELSE UNCHANGED reply
    /\ Forget(c)
    /\ routes' = routes \ {c}
    /\ lan' = lan \ {c}
    /\ UNCHANGED <<callers, call, inbox, notices, route, handed, queryVars, listenVars>>

----------------------------------------------------------------------------
(* Kademlia queries *)

queryOnly == <<callers, call, dialVars, listenVars>>

(* cancel_query of each query of S. *)
CancelQueries(S) ==
    /\ kad' = [q \in Queries |-> IF q \in S /\ kad[q] = "running" THEN "finishing" ELSE kad[q]]
    /\ pending' = pending \ S

(* A query with an id reply that nobody waits for is cancelled at once; the  *)
(* others may fail at once.                                                  *)
OnQueryCommand(q) ==
    /\ q \in inbox \cap Queries
    /\ inbox' = inbox \ {q}
    /\ \/ /\ kad' = [kad EXCEPT ![q] = IF HasId(q) /\ Closed(q) THEN "finishing" ELSE "running"]
          /\ pending' = IF HasId(q) /\ Closed(q) THEN pending ELSE pending \cup {q}
          /\ UNCHANGED reply
       \/ ~HasId(q) /\ Answer(q, "err") /\ UNCHANGED <<kad, pending>>
    /\ UNCHANGED <<notices, seen, found, truncated, queryOnly>>

OnQueryNotice(q) ==
    /\ q \in notices \cap Queries
    /\ notices' = notices \ {q}
    /\ CancelQueries({q})
    /\ UNCHANGED <<inbox, reply, seen, found, truncated, queryOnly>>

(* retain_bounded_provider. *)
Retain(kept, peer) ==
    LET more == kept.found \cup {peer}
    IN  IF peer \in kept.found \/ Cardinality(more) <= MaxPeers
        THEN [kept EXCEPT !.found = more]
        ELSE [found |-> more \ {Max(more)}, truncated |-> TRUE]

(* Does this event end the wait of the caller? *)
QueryEnds(q, last, failed) ==
    CASE KindOf[q] = "bootstrap" -> last
      [] KindOf[q] = "providers" -> last \/ failed
      [] OTHER -> TRUE

(* on_query: OutboundQueryProgressed, with one provider or none. *)
OnQuery(q, last, failed, peers) ==
    /\ kad[q] \in {"running", "finishing"}
    /\ failed \/ KindOf[q] \in {"simple", "closest"} => last
    /\ peers # {} => KindOf[q] = "providers" /\ ~failed
    /\ LET heard == q \in pending /\ ~Closed(q)
           ends == heard /\ QueryEnds(q, last, failed)
           kept == FoldSet(LAMBDA p, k : Retain(k, p),
                           [found |-> found[q], truncated |-> truncated[q]], peers)
           finish == (q \in pending /\ Closed(q))
                       \/ (KindOf[q] = "record" /\ ~failed)
       IN  /\ seen' = IF heard THEN [seen EXCEPT ![q] = @ \cup peers] ELSE seen
           /\ found' = IF heard THEN [found EXCEPT ![q] = kept.found] ELSE found
           /\ truncated' = IF heard THEN [truncated EXCEPT ![q] = kept.truncated] ELSE truncated
           /\ pending' = IF ends \/ Closed(q) THEN pending \ {q} ELSE pending
           /\ IF ends THEN Answer(q, IF failed THEN "err" ELSE "ok") ELSE UNCHANGED reply
           /\ kad' = [kad EXCEPT ![q] = IF last THEN "over"
                                        ELSE IF finish THEN "finishing" ELSE @]
    /\ UNCHANGED <<inbox, notices, queryOnly>>

----------------------------------------------------------------------------
(* Listeners *)

listenOnly == <<callers, call, notices, dialVars, queryVars>>

OnListen(l) ==
    /\ l \in inbox \cap Listeners
    /\ inbox' = inbox \ {l}
    /\ \/ /\ listening' = listening \cup {l}
          /\ listener' = [listener EXCEPT ![l] = "starting"]
          /\ UNCHANGED reply
       \/ Answer(l, "err") /\ UNCHANGED listenVars
    /\ UNCHANGED listenOnly

(* NewListenAddr and ListenerClosed. *)
OnListener(l, ready) ==
    /\ listener[l] \in {"starting", "ready"}
    /\ ready => listener[l] = "starting"
    /\ listener' = [listener EXCEPT ![l] = IF ready THEN "ready" ELSE "closed"]
    /\ IF l \in listening THEN Answer(l, IF ready THEN "ok" ELSE "err") ELSE UNCHANGED reply
    /\ listening' = listening \ {l}
    /\ UNCHANGED <<inbox, listenOnly>>

----------------------------------------------------------------------------
(* Mutant of Sweep: abandoned queries are left to their own end. *)
SweepOfDials ==
    LET stale == {l \in listening : Closed(l)}
    IN  /\ UNCHANGED <<kad, pending>>
        /\ listening' = listening \ stale
        /\ listener' = [l \in Listeners |-> IF l \in stale THEN "closed" ELSE listener[l]]
        /\ exact' = [d \in Dials |-> IF exact[d] = "active" /\ Closed(d)
                                     THEN "tombstone" ELSE exact[d]]
        /\ UNCHANGED <<callVars, conn, route, routes, lan, handed, seen, found, truncated>>

(* The periodic sweep: reap_abandoned, reap_abandoned_listens,               *)
(* tombstone_abandoned_exact_dials.                                          *)
Sweep ==
    LET stale == {l \in listening : Closed(l)}
    IN  /\ CancelQueries({q \in pending : Closed(q)})
        /\ listening' = listening \ stale
        /\ listener' = [l \in Listeners |-> IF l \in stale THEN "closed" ELSE listener[l]]
        /\ exact' = [d \in Dials |-> IF exact[d] = "active" /\ Closed(d)
                                     THEN "tombstone" ELSE exact[d]]
        /\ UNCHANGED <<callVars, conn, route, routes, lan, handed, seen, found, truncated>>

----------------------------------------------------------------------------
CallerStep(x) == Send(x) \/ Receive(x) \/ GiveUp(x)

WorkerStep ==
    \/ \E d \in Dials : OnDialExact(d) \/ OnDialNotice(d)
    \/ \E q \in Queries : OnQueryCommand(q) \/ OnQueryNotice(q)
    \/ \E l \in Listeners : OnListen(l)
    \/ Sweep

Libp2pStep ==
    \/ \E c \in Conns : OnClosed(c) \/ \E r \in Established : OnEstablished(c, r)
    \/ \E d \in Dials : OnDialError(d)
    \/ \E q \in Queries, last, failed \in BOOLEAN, peers \in {{}} \cup {{p} : p \in Providers} :
         OnQuery(q, last, failed, peers)
    \/ \E l \in Listeners, ready \in BOOLEAN : OnListener(l, ready)

SwarmNext ==
    \/ \E x \in Callers : CallerStep(x)
    \/ \E d \in Dials : LookUp(d)
    \/ \E q \in Queries : ReceiveId(q)
    \/ WorkerStep
    \/ Libp2pStep

(* The worker's loop turns.  Nothing is assumed of libp2p or of the callers. *)
SwarmFairness == WF_swarmVars(WorkerStep)

SwarmSpec == SwarmInit /\ [][SwarmNext]_swarmVars /\ SwarmFairness

----------------------------------------------------------------------------
(* A connection of an exact dial can be selected only if its route is        *)
(* allowed and its success was delivered; when the caller has gone without   *)
(* reading it, the notice that takes the route away is under way.  So a      *)
(* success later than the cancel is never usable, although commands and      *)
(* notices travel on different channels (apply_connection_established:       *)
(* "delivery ... is the admission linearization point").                     *)
RoutesAreAuthorized ==
    /\ \A c \in routes \cup lan : conn[c] \in {"open", "closing"}
    /\ \A d \in routes \cap Dials :
         /\ Allowed(d, route[d]) /\ reply[d] = "ok" /\ exact[d] = "none"
         /\ call[d] = "gone" => d \in notices

(* Every registered dial and every tombstone awaits a terminal event of      *)
(* libp2p, which will remove it: the places under the cap come back.         *)
ExactIsAwaited ==
    \A d \in Dials :
        /\ exact[d] = "active" => conn[d] = "dialing"
        /\ exact[d] = "tombstone" => conn[d] \in {"dialing", "closing"}

(* The fan-out a provider query keeps is the sample its salt selects among   *)
(* all providers reported so far, in whatever batches and order they came,   *)
(* and it says truncated exactly when a provider was left out.               *)
FanOutIsSample ==
    \A q \in Queries : KindOf[q] = "providers" =>
        /\ found[q] = {p \in seen[q] : Cardinality({o \in seen[q] : o < p}) < MaxPeers}
        /\ truncated[q] <=> found[q] # seen[q]

(* What a caller left behind comes to be released, whichever of its command, its *)
(* notice, the events and the sweep come first, and even in the window           *)
(* between the id and the guard: no query runs, no listener is awaited, no       *)
(* dial is active and no route remains for a caller that has gone.               *)
GivenUpIsReleased ==
    \A x \in Callers : call[x] = "gone" =>
        /\ x \notin inbox \cup notices \cup pending \cup listening \cup routes
        /\ x \in Queries => kad[x] # "running"
        /\ x \in Dials => exact[x] # "active"

-----------------------------------------------------------------------------
(***************************************************************************)
(* The Mainline rendezvous: the loop by which a node announces its libp2p   *)
(* port under one well-known infohash, looks the infohash up and dials the  *)
(* addresses it finds (daemon-libp2p/src/mainline_bootstrap.rs), and the    *)
(* announce and discover commands of the measuring tool, over the same      *)
(* bounded lookup (mainline-rendezvous/src/lib.rs).                         *)
(*                                                                          *)
(* The Mainline DHT is external: a set of announced addresses, which it may *)
(* lose, and lookups that deliver it in batches of any size.  Times are     *)
(* ticks; a party counts down what it sleeps for.  At most MaxFaults times  *)
(* an announce fails, a lookup is cut by its deadline or a stored address   *)
(* is lost.                                                                 *)
(***************************************************************************)

CONSTANTS Parties,        \* addresses, numbered in their order
          Strangers,      \* addresses others announced, of nodes that may be gone
          Meetings,         \* what each party is: kind, port (announced or not), natted, hold
          MaxAddrs,
          CycleTime, WarmupTime, WarmupCycles,
          Reannounce,     \* the tool's pause between announces
          MaxFaults

ASSUME RendezvousAssumption ==
    /\ Parties \subseteq Nat /\ Strangers \subseteq Nat \ Parties
    /\ WarmupTime >= 1 /\ WarmupCycles >= 1 /\ MaxAddrs >= 1
    /\ WarmupTime * WarmupCycles <= CycleTime

VARIABLES meeting, party, stored, mainlineFaults

rendezvousVars == <<meeting, party, stored, mainlineFaults>>

(* at: where the party is; left: ticks to its timer; seen: the lookup's     *)
(* addresses; found: those it has yet to dial; since: ticks since its last  *)
(* lookup began, up to CycleTime; fast: lookups begun sooner than that.     *)
NotStarted == [at |-> "bootstrap", left |-> 0, hold |-> 0, seen |-> {}, found |-> <<>>,
              dialedAny |-> FALSE, warmup |-> 0, dialed |-> {}, since |-> CycleTime, fast |-> 0]

Daemon(p) == meeting[p].kind = "daemon"
At(p, places) == party[p].at \in places

(* The party goes on with new fields; others, and the DHT, are unchanged.   *)
Becomes(p, fields) == party' = [party EXCEPT ![p] = fields @@ @]
Quietly == UNCHANGED <<meeting, stored, mainlineFaults>>

-----------------------------------------------------------------------------
(* bootstrapped(), or its time-out: non-fatal either way.                  *)
Bootstrapped(p) ==
    /\ At(p, {"bootstrap"})
    /\ Becomes(p, [at |-> IF meeting[p].port THEN "announce" ELSE "discover",
                   hold |-> meeting[p].hold])
    /\ Quietly

(* After an announce the loop looks up; the tool holds, announcing again.  *)
Announced(p) ==
    IF Daemon(p) THEN [at |-> "discover"] ELSE [at |-> "holding", left |-> Reannounce]

(* announce.                                                               *)
Announce(p) ==
    /\ At(p, {"announce"})
    /\ stored' = stored \cup {p}
    /\ Becomes(p, Announced(p))
    /\ UNCHANGED <<meeting, mainlineFaults>>

(* The loop tries again in its next cycle; the tool's first announce is    *)
(* fatal to it, a later one is not.                                        *)
AnnounceFails(p) ==
    /\ At(p, {"announce"})
    /\ mainlineFaults < MaxFaults
    /\ mainlineFaults' = mainlineFaults + 1
    /\ Becomes(p, IF ~Daemon(p) /\ party[p].hold = meeting[p].hold THEN [at |-> "ended", hold |-> 0]
                  ELSE Announced(p))
    /\ UNCHANGED <<meeting, stored>>

(* discover: the lookup starts.                                            *)
LookupStarts(p) ==
    /\ At(p, {"discover"})
    /\ Becomes(p, [at |-> "lookup", since |-> 0,
                   fast |-> party[p].fast + (IF party[p].since < CycleTime THEN 1 ELSE 0)])
    /\ Quietly

(* The distinct addresses in their order, at most MaxAddrs.                *)
Truncated(heard) ==
    LET addrs == SetToSortSeq(heard, <)
    IN  SubSeq(addrs, 1, IF Len(addrs) < MaxAddrs THEN Len(addrs) ELSE MaxAddrs)

(* The lookup is over, and the loop goes on to dial what it found.         *)
Found(heard) == [at |-> "dial", seen |-> {}, found |-> Truncated(heard)]

BatchArrives(p) ==
    /\ At(p, {"lookup"})
    /\ \E batch \in SUBSET (stored \ party[p].seen) \ {{}} :
          LET heard == party[p].seen \cup batch
          IN  Becomes(p, IF Cardinality(heard) >= MaxAddrs THEN Found(heard) ELSE [seen |-> heard])
    /\ Quietly

(* The stream ends, or the deadline cuts it.                               *)
LookupEnds(p) ==
    /\ At(p, {"lookup"})
    /\ stored \subseteq party[p].seen
    /\ Becomes(p, Found(party[p].seen))
    /\ Quietly

LookupCut(p) ==
    /\ At(p, {"lookup"})
    /\ ~(stored \subseteq party[p].seen)
    /\ mainlineFaults < MaxFaults
    /\ mainlineFaults' = mainlineFaults + 1
    /\ Becomes(p, Found(party[p].seen))
    /\ UNCHANGED <<meeting, stored>>

(* SwarmHandle::dial of the bare address: the swarm starts the dial unless  *)
(* it is one of its own listen addresses, which the address of a party      *)
(* behind a translator is not.                                              *)
Initiates(p, addr) == addr # p \/ meeting[p].natted

DialNext(p) ==
    /\ At(p, {"dial"})
    /\ Daemon(p)
    /\ party[p].found # <<>>
    /\ LET addr == Head(party[p].found)
       IN  Becomes(p, [found |-> Tail(party[p].found)] @@
                      (IF Initiates(p, addr)
                       THEN [dialedAny |-> TRUE, dialed |-> party[p].dialed \cup {addr}]
                       ELSE [dialedAny |-> party[p].dialedAny]))
    /\ Quietly

(* The interval: short while nothing was dialed and the warm-up lasts.     *)
Pause(p) ==
    IF ~party[p].dialedAny /\ party[p].warmup < WarmupCycles
    THEN [at |-> "sleep", left |-> WarmupTime, warmup |-> party[p].warmup + 1]
    ELSE [at |-> "sleep", left |-> CycleTime]

CycleEnds(p) ==
    /\ At(p, {"dial"})
    /\ Daemon(p) /\ party[p].found = <<>>
    /\ Becomes(p, Pause(p))
    /\ Quietly

(* The tool's discover prints what it found and ends.                      *)
ToolPrints(p) ==
    /\ At(p, {"dial"})
    /\ ~Daemon(p)
    /\ Becomes(p, [at |-> "ended", found |-> <<>>, hold |-> 0, since |-> CycleTime])
    /\ Quietly

CycleBegins(p) ==
    /\ At(p, {"sleep"}) /\ party[p].left = 0
    /\ Becomes(p, [at |-> IF meeting[p].port THEN "announce" ELSE "discover"])
    /\ Quietly

(* The tool's announce: again after each pause, until the hold is over.    *)
ToolHolds(p) ==
    /\ At(p, {"holding"})
    /\ party[p].left = 0 \/ party[p].hold = 0
    /\ Becomes(p, IF party[p].hold = 0 THEN [at |-> "ended", left |-> 0] ELSE [at |-> "announce"])
    /\ Quietly

(* A member leaves and its entry ages out, or the DHT forgets one.         *)
EntryLost ==
    /\ mainlineFaults < MaxFaults
    /\ \E p \in stored : stored' = stored \ {p}
    /\ mainlineFaults' = mainlineFaults + 1
    /\ UNCHANGED <<meeting, party>>

(* Time passes for everyone while they wait for the DHT or a timer; a timer *)
(* that is due is handled first.                                            *)
Due(p) ==
    \/ At(p, {"discover", "dial"})
    \/ At(p, {"sleep", "holding"}) /\ party[p].left = 0
    \/ At(p, {"holding"}) /\ party[p].hold = 0
Less(n) == IF n > 0 THEN n - 1 ELSE 0

MainlineTick ==
    /\ ~\E p \in Parties : Due(p)
    /\ \E p \in Parties : party[p].at # "ended"
    /\ party' = [p \in Parties |->
                    [party[p] EXCEPT !.left = Less(@), !.hold = Less(@),
                                     !.since = IF @ < CycleTime THEN @ + 1 ELSE @]]
    /\ Quietly

-----------------------------------------------------------------------------
RendezvousInit ==
    /\ meeting \in Meetings
    /\ party = [p \in Parties |-> NotStarted]
    /\ stored \in {{}, Strangers}
    /\ mainlineFaults = 0

PartyStep(p) ==
    \/ Bootstrapped(p) \/ Announce(p) \/ LookupStarts(p) \/ BatchArrives(p) \/ LookupEnds(p)
    \/ DialNext(p) \/ CycleEnds(p) \/ ToolPrints(p) \/ CycleBegins(p) \/ ToolHolds(p)

Misfortune == EntryLost \/ \E p \in Parties : AnnounceFails(p) \/ LookupCut(p)

RendezvousNext == MainlineTick \/ Misfortune \/ \E p \in Parties : PartyStep(p)

RendezvousSpec ==
    /\ RendezvousInit /\ [][RendezvousNext]_rendezvousVars
    /\ WF_rendezvousVars(MainlineTick)
    /\ \A p \in Parties : WF_rendezvousVars(PartyStep(p))

-----------------------------------------------------------------------------
Announcers == {p \in Parties : meeting[p].port}

(* The shared DHT is not abused: whatever the lookups return or lose, a     *)
(* node begins at most WarmupCycles lookups, ever, sooner than the steady   *)
(* cadence after the one before, and a cycle dials at most MaxAddrs         *)
(* addresses; it dials only what somebody announced, and a node without a   *)
(* listen port is never announced (discover, run_mainline_rendezvous).      *)
RendezvousIsGentle ==
    /\ stored \subseteq Strangers \cup Announcers
    /\ \A p \in Parties :
          /\ party[p].fast <= WarmupCycles
          /\ Len(party[p].found) <= MaxAddrs
          /\ party[p].dialed \subseteq Strangers \cup Announcers

(* Nodes that share only the infohash come to this: as long as the stored   *)
(* addresses are not more than one lookup takes, every node has dialed      *)
(* every other one that keeps announcing, in whatever order they start and  *)
(* whatever the first lookups miss (no cache, no configured bootstrap;      *)
(* run_mainline_rendezvous).                                                *)
MembersHaveMet ==
    Cardinality(Announcers \cup stored) <= MaxAddrs =>
        \A p, q \in {r \in Parties : Daemon(r)} :
            p # q /\ meeting[q].port => q \in party[p].dialed
=============================================================================
