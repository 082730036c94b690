------------------------------ MODULE MCEdges -------------------------------
(* The daemon's edges: the aliases that own what it offers on the LAN, the   *)
(* narinfo it asks LAN peers for, the requests it forwards upstream, plain   *)
(* or over TLS, and what its admin surface reports.  None of them shares     *)
(* state with another, so a behaviour is of one of them (focus), and the     *)
(* variables of the others are off.                                          *)
EXTENDS LanSupply, UpstreamChain, AdminSurface, TLC

(* Model-checking instances of LanSupply.                                  *)

CONSTANTS n1, o1, o2, l1, l2, c1, c2

MCLanPaths == {o1, o2}
MCLanKeys == {n1}
MCKeyOf == [p \in MCLanPaths |-> n1]
MCNone == {}
MCLimits == {1, 2}
MCSmallCrash == [n \in MCLimits |-> IF n = 1 THEN 1 ELSE 0]
MCLanLookups == {l1, l2}
MCAnyOutcome == BOOLEAN

\* The clients of the admin surface are interchangeable too.
MCClients == {c1, c2}

EdgesSymmetry == Permutations(MCLanLookups) \cup Permutations({o1, o2}) \cup Permutations(MCClients)

-----------------------------------------------------------------------------
(* Two paths, one with references, and the signers that a peer may present.*)

MCPathFacts == 1 :> [nar |-> 11, size |-> 2, refs |-> <<3, 1>>] @@ 2 :> [nar |-> 12, size |-> 1, refs |-> <<>>]

MCLanBudgets == {-1, 0, 1, 3}

Signer(n, k) == [name |-> n, key |-> k, named |-> TRUE, pairs |-> TRUE]
Line(n, k) == [name |-> n, key |-> k, ok |-> TRUE]

(* The node and its peers sign under their own names, or two of them under  *)
(* one name; every peer, one of them or the later key of a name is trusted. *)
MCLanSetups ==
    {[signers |-> s, trusted |-> t, holds |-> h, shares |-> b] :
        s \in {"n" :> Signer("home", 1) @@ "p" :> Signer("p", 2) @@ "q" :> Signer(q, 3) :
                  q \in {"q", "p"}},
        t \in {<<Line("home", 1), Line("p", 2), Line("q", 3)>>, <<Line("p", 2), Line("p", 3)>>},
        h \in {"p" :> {1} @@ "q" :> {1, 2}, "p" :> {2} @@ "q" :> {1}},
        b \in BOOLEAN}

-----------------------------------------------------------------------------
(* A chain of daemons with different timeouts, plain and TLS.                 *)

Base(scheme, host, port) == [scheme |-> scheme, host |-> host, port |-> port]
Setup(base, header) ==
    [base |-> base, connect |-> 2, header |-> header, tlsTotal |-> 3, tlsConnect |-> 2,
     tlsHandshake |-> 2]

MCSetups == {Setup(b, 3) : b \in {Base("http", "public", "given"), Base("none", "localhost", "none"),
                                 Base("none", "public", "none"), Base("https", "loopback", "bad")}}
            \cup {Setup(Base("http", "public", "given"), 5)}

MCHeads == {NoHead,
            [NoHead EXCEPT !.te = <<"chunked">>],
            [NoHead EXCEPT !.te = <<"gzip">>],
            [NoHead EXCEPT !.te = <<"chunked">>, !.length = TRUE],
            [NoHead EXCEPT !.length = TRUE, !.listed = {"private"}, !.private = TRUE],
            [NoHead EXCEPT !.length = TRUE, !.listed = {"content-length"}],
            [NoHead EXCEPT !.odd = TRUE]}

-----------------------------------------------------------------------------

VARIABLE focus

Off(x) == x = "off"

AliasesOff == Off(limit) /\ Off(lanStore) /\ Off(backing) /\ Off(lanCatalog)
           /\ Off(indexFile) /\ Off(aliases) /\ Off(aliasFile) /\ Off(lanRecord)
           /\ Off(mutex) /\ Off(look) /\ Off(work) /\ Off(expired) /\ Off(ref)
           /\ Off(crashes) /\ Off(saveFailed) /\ Off(detached) /\ Off(forgot)
NarinfoOff == Off(lanSetup) /\ Off(asking) /\ Off(heldPaths) /\ Off(seeding) /\ Off(offered)
           /\ Off(genuine) /\ Off(served)
ChainOff == Off(setup) /\ Off(request) /\ Off(hop) /\ Off(origin) /\ Off(now)
TlsOff == Off(https) /\ Off(doing) /\ Off(worker) /\ Off(watchdog) /\ Off(socket)
       /\ Off(shaken) /\ Off(outcome) /\ Off(time) /\ Off(begun)
AdminOff == Off(client) /\ Off(counters) /\ Off(last) /\ Off(linked) /\ Off(shifts)
         /\ Off(report) /\ Off(scrape)

EdgesInit ==
    /\ focus \in {"aliases", "narinfo", "upstream", "tls", "admin"}
    /\ IF focus = "aliases" THEN LanSupplyInit ELSE AliasesOff
    /\ IF focus = "narinfo" THEN NarinfoInit ELSE NarinfoOff
    /\ IF focus = "upstream" THEN ChainInit ELSE ChainOff
    /\ IF focus = "tls" THEN TlsInit ELSE TlsOff
    /\ IF focus = "admin" THEN AdminInit ELSE AdminOff

(* The component in focus takes a step and the others do not.              *)
Rests(x, v) == IF focus = x THEN TRUE ELSE UNCHANGED v
Alone ==
    /\ focus' = focus
    /\ Rests("aliases", lanSupplyVars) /\ Rests("narinfo", narinfoVars)
    /\ Rests("upstream", chainVars) /\ Rests("tls", tls) /\ Rests("admin", adminVars)

EdgesNext ==
    \/ focus = "aliases" /\ LanSupplyNext /\ Alone
    \/ focus = "narinfo" /\ NarinfoNext /\ Alone
    \/ focus = "upstream" /\ ChainNext /\ Alone
    \/ focus = "tls" /\ TlsNext /\ Alone
    \/ focus = "admin" /\ AdminNext /\ Alone

edgesVars == <<lanSupplyVars, narinfoVars, chainVars, tls, adminVars, focus>>

EdgesSpec ==
    /\ EdgesInit /\ [][EdgesNext]_edgesVars

(* Every dynamic registration has an alias that owns it, a live record of   *)
(* ours is of a key with an alias, unless a save failed, a worker outlived  *)
(* its lookup or a refresh forgot the alias, and the aliases stay within    *)
(* the path budget (LocalLanMetadata in lan_metadata.rs).                   *)
AliasesAreKept ==
    focus = "aliases" =>
        LanSupplyTypeOK /\ OwnedUnlessDisturbed /\ LiveIsOwnedUnlessForgotten /\ WithinPathLimit

(* A narinfo accepted on the LAN is of the path that was asked and of a key *)
(* trusted for its name; time budgets compose along a chain of daemons and  *)
(* over the stages of a TLS connection, and only end-to-end headers are     *)
(* passed on; and what an operator reads together belongs together          *)
(* (lan_metadata.rs, upstream.rs, testproxy http.rs, observ.rs).            *)
EdgesAreSound ==
    /\ focus = "narinfo" => LanAnswerIsTrue
    /\ focus = "upstream" => BudgetComposes /\ ForwardedIsEndToEnd
    /\ focus = "tls" => TlsIsBounded
    /\ focus = "admin" => ReportsAreCoherent
=============================================================================
