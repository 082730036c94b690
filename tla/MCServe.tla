------------------------------ MODULE MCServe -------------------------------
(* How a request of the local Nix is answered: the path of the request       *)
(* through the catalog, the peers and the upstream, the body it may end in,  *)
(* and the recording proxy that stands for the upstream cache in the tests.  *)
(* None of them shares state with another, so a behaviour is of one of them  *)
(* (focus); the variables of the proxy are off while another one moves, and  *)
(* those of the request's path and of the body keep their initial values.    *)
EXTENDS Substitution, TestProxy, TLC

(* Two narinfos of one NAR: one compressed, which may lack the fields that *)
(* to_raw needs, and one raw, which declares no single store path.         *)

CONSTANTS d1, d2, n1, tx, tr, t0, p1

MCNarOf == [d \in Docs |-> n1]
MCTokenOf == d1 :> tx @@ d2 :> tr
MCFormOf == d1 :> "xz" @@ d2 :> "raw"
MCPathOf == d1 :> p1 @@ d2 :> NoPath
MCComplete == {{d1, d2}, {d2}}
MCRawToken == [n \in Nars |-> t0]

-----------------------------------------------------------------------------
(***************************************************************************)
(* TestProxy with one path of each kind and the faults one by one.          *)
(***************************************************************************)

MCFaults ==
    {NoFaults, [NoFaults EXCEPT !.truncate = TRUE], [NoFaults EXCEPT !.answers = {"nar", "narinfo"}]}

-----------------------------------------------------------------------------

(* The body while another component is in focus: one that never starts.    *)
MCResponse ==
    [from |-> "peer", compression |-> "raw", wire |-> "raw", honest |-> 0, length |-> 0,
     signed |-> 0, fixed |-> TRUE]

VARIABLE focus

Off(x) == x = "off"

ProxyOff == Off(thread) /\ Off(disk) /\ Off(staged) /\ Off(flights) /\ Off(landed)
         /\ Off(armed) /\ Off(log) /\ Off(busy) /\ Off(kills) /\ Off(unsized)

ServeInit ==
    /\ focus \in {"path", "body", "proxy"}
    /\ Init /\ (focus # "path" => rewritable = Docs)
    /\ BodyInit /\ (focus # "body" => response = MCResponse)
    /\ IF focus = "proxy" THEN ProxyInit ELSE ProxyOff

(* The component in focus takes a step and the others do not.              *)
Rests(x, v) == IF focus = x THEN TRUE ELSE UNCHANGED v
Alone ==
    /\ focus' = focus
    /\ Rests("path", vars) /\ Rests("body", bodyVars) /\ Rests("proxy", proxy)

ServeNext ==
    \/ focus = "path" /\ Next /\ Alone
    \/ focus = "body" /\ BodyNext /\ Alone
    \/ focus = "proxy" /\ ProxyNext /\ Alone

serveVars == <<vars, bodyVars, proxy, focus>>

ServeSpec ==
    /\ ServeInit /\ [][ServeNext]_serveVars
    /\ \A h \in Handlers : WF_vars(focus = "path" /\ Handle(h))
    /\ WF_bodyVars(focus = "body" /\ (DriverPull \/ DriverSend))
    /\ \A r \in Requests : WF_proxy(focus = "proxy" /\ ThreadStep(r))

(* The recording proxy caches only whole NARs, fetches a cold one once and  *)
(* its log has every request that ended (testproxy).                        *)
ProxyIsFaithful ==
    focus = "proxy" => CachedNarIsWhole /\ ColdNarIsFetchedOnce /\ LogIsComplete

(* Every request is answered, whatever peers and upstream do; a dropped     *)
(* body's driver stops; and no request of the proxy waits for ever.         *)
RequestsAnswered ==
    /\ \A h \in Handlers : []<>(focus = "path" => handler[h].pc = "idle")
    /\ <>[](/\ focus = "body" => DriverHasStopped
            /\ focus = "proxy" => HerdIsReleased)
=============================================================================
