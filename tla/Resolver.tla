------------------------------ MODULE Resolver ------------------------------
(***************************************************************************)
(* Resolving a batch of keys over several discovery mechanisms under an    *)
(* execution plan (peer-fabric/src/resolve.rs), each mechanism answering   *)
(* through the default resolve_batch (peer-fabric/src/capabilities.rs).    *)
(* The caller's total deadline may pass at any point: the mechanism        *)
(* notices it between or during its lookups, or the registry's own timeout *)
(* drops it.                                                               *)
(***************************************************************************)
EXTENDS Integers, Sequences, FiniteSets, SequencesExt, FiniteSetsExt

CONSTANTS BatchKeys,      \* positions of the request: 1..n
          Registered,     \* sequence of the registered mechanisms
          Plans           \* [order, parallel, stop]; order <<>> is AsRegistered

VARIABLES
    plan,       \* the caller's plan
    stage,      \* "start", "loop", "inner", "done" or "refused"
    at,         \* mechanisms of the plan consulted so far
    asked,      \* keys the current mechanism is asked for
    cursor,     \* the key it looks up
    inner,      \* its accumulators
    innerCut,   \* its view of the deadline
    acc,        \* the registry's accumulators
    expired,    \* the total deadline has passed
    outcome,    \* outcome[k]: the KeyResolution
    resource,   \* the ResourceOutcome
    told        \* told[m][k]: what mechanism m answered about k (history)

resolverVars == <<plan, stage, at, asked, cursor, inner, innerCut, acc, expired,
                  outcome, resource, told>>

Mechanisms == ToSet(Registered)
Nobody == "nobody"

(* KeyAcc: who found it first, and which other observations there were. *)
NoAcc == [found |-> Nobody, down |-> FALSE, miss |-> FALSE, other |-> FALSE]

Note(a, by, verdict) ==
    CASE verdict = "Found" -> [a EXCEPT !.found = IF @ = Nobody THEN by ELSE @]
      [] verdict = "Unavailable" -> [a EXCEPT !.down = TRUE]
      [] verdict = "Miss" -> [a EXCEPT !.miss = TRUE]
      [] verdict = "NotAttempted" -> [a EXCEPT !.other = TRUE]

(* Mutant of Finalize: any miss makes a Miss. *)
FinalizeByMiss(a) ==
    CASE a.found # Nobody -> "Found"
      [] a.miss -> "Miss"
      [] a.down -> "Unavailable"
      [] OTHER -> "NotAttempted"

(* KeyAcc::finalize. *)
Finalize(a) ==
    CASE a.found # Nobody -> "Found"
      [] a.found = Nobody /\ a.down -> "Unavailable"
      [] a.found = Nobody /\ ~a.down /\ ~a.other /\ a.miss -> "Miss"
      [] OTHER -> "NotAttempted"

(* classify_lookup: holders of another key, or none at all, are a fault. *)
ClassifyKey(answer) ==
    CASE answer = "found" -> "Found"
      [] answer = "miss" -> "Miss"
      [] answer \in {"wrong key", "empty", "down"} -> "Unavailable"

Authoritative(verdict) == verdict \in {"Found", "Miss"}

(* finalize_batch. *)
ResourceOf(accs, deadlineCut) ==
    IF deadlineCut THEN "DeadlineCut"
    ELSE IF \A k \in BatchKeys : /\ ~accs[k].down /\ ~accs[k].other
                                 /\ Authoritative(Finalize(accs[k]))
         THEN "Completed"
    ELSE "MechanismDown"

(* MechanismRegistry::ordered; what the plan names and nobody registered is  *)
(* only warned of here.                                                      *)
Order == IF plan.order = <<>> THEN Registered
         ELSE SelectSeq(plan.order, LAMBDA m : m \in Mechanisms)

Missing == ToSet(plan.order) \ Mechanisms

ResolverInit ==
    /\ plan \in Plans
    /\ stage = "start" /\ at = 0 /\ asked = {} /\ cursor = 0
    /\ inner = [k \in BatchKeys |-> NoAcc] /\ innerCut = FALSE
    /\ acc = [k \in BatchKeys |-> NoAcc] /\ expired = FALSE
    /\ outcome = [k \in BatchKeys |-> "none"] /\ resource = "none"
    /\ told = [m \in Mechanisms |-> [k \in BatchKeys |-> "none"]]

----------------------------------------------------------------------------
StartResolve ==
    /\ stage = "start"
    /\ stage' = IF plan.parallel THEN "refused" ELSE "loop"
    /\ UNCHANGED <<plan, at, asked, cursor, inner, innerCut, acc, expired,
                   outcome, resource, told>>

Expire ==
    /\ ~expired
    /\ stage \in {"loop", "inner"}
    /\ expired' = TRUE
    /\ UNCHANGED <<plan, stage, at, asked, cursor, inner, innerCut, acc,
                   outcome, resource, told>>

(* The end of the loop: what could not be consulted, and a cut, are recorded *)
(* before the one finalizer.                                                 *)
FinishResolve(accs, deadlineCut) ==
    LET noted(k) == LET a == accs[k]
                        b == IF Missing # {} THEN Note(a, Nobody, "Unavailable") ELSE a
                    IN  IF deadlineCut /\ a.found = Nobody
                        THEN Note(b, Nobody, "Unavailable") ELSE b
        final == [k \in BatchKeys |-> noted(k)]
    IN  /\ stage' = "done"
        /\ acc' = final
        /\ outcome' = [k \in BatchKeys |-> Finalize(final[k])]
        /\ resource' = ResourceOf(final, deadlineCut)

Unresolved ==
    {k \in BatchKeys : plan.stop = "AllMechanisms" \/ acc[k].found = Nobody}

(* The next mechanism is asked for the keys still pending. *)
Consult ==
    /\ stage = "loop"
    /\ \/ /\ at = Len(Order) \/ Unresolved = {}
          /\ FinishResolve(acc, FALSE)
          /\ UNCHANGED <<at, asked, cursor, inner, innerCut>>
       \/ /\ at < Len(Order) /\ Unresolved # {} /\ expired
          /\ FinishResolve(acc, TRUE)
          /\ UNCHANGED <<at, asked, cursor, inner, innerCut>>
       \/ /\ at < Len(Order) /\ Unresolved # {} /\ ~expired
          /\ stage' = "inner"
          /\ at' = at + 1
          /\ asked' = Unresolved
          /\ cursor' = 1
          /\ inner' = [k \in BatchKeys |-> NoAcc]
          /\ innerCut' = FALSE
          /\ UNCHANGED <<acc, outcome, resource>>
    /\ UNCHANGED <<plan, expired, told>>

Here == Order[at]

(* One key of the default resolve_batch: skipped once the deadline was seen, *)
(* cut by its own timeout, or answered by find_providers.                    *)
LookUpKey(verdict, cutNow) ==
    /\ stage = "inner"
    /\ cursor \in asked
    /\ IF innerCut THEN verdict = "NotAttempted" /\ ~cutNow
       ELSE \/ ~cutNow /\ \E a \in {"found", "wrong key", "empty", "miss", "down"} :
                            verdict = ClassifyKey(a)
            \/ cutNow /\ expired /\ verdict \in {"NotAttempted", "Unavailable"}
    /\ inner' = [inner EXCEPT ![cursor] = Note(@, Here, verdict)]
    /\ innerCut' = (innerCut \/ cutNow)
    /\ told' = [told EXCEPT ![Here][cursor] = verdict]
    /\ cursor' = cursor + 1
    /\ UNCHANGED <<plan, stage, at, asked, acc, expired, outcome, resource>>

SkipKey ==
    /\ stage = "inner"
    /\ cursor \in BatchKeys \ asked
    /\ cursor' = cursor + 1
    /\ UNCHANGED <<plan, stage, at, asked, inner, innerCut, acc, expired,
                   outcome, resource, told>>

(* The reply is folded key by key; one of another length only says that the  *)
(* mechanism failed.                                                         *)
MechanismReturns(aligned) ==
    /\ stage = "inner"
    /\ cursor \notin BatchKeys
    /\ stage' = "loop"
    /\ acc' = [k \in BatchKeys |->
                IF k \notin asked THEN acc[k]
                ELSE Note(acc[k], Here, IF aligned THEN Finalize(inner[k]) ELSE "Unavailable")]
    /\ told' = IF aligned THEN told
               ELSE [told EXCEPT ![Here] =
                       [k \in BatchKeys |-> IF k \in asked THEN "Unavailable" ELSE @[k]]]
    /\ UNCHANGED <<plan, at, asked, cursor, inner, innerCut, expired, outcome, resource>>

(* The registry's own timeout: what the mechanism had is lost. *)
OuterCut ==
    /\ stage = "inner"
    /\ expired
    /\ FinishResolve(acc, TRUE)
    /\ told' = [told EXCEPT ![Here] = [k \in BatchKeys |-> "none"]]
    /\ UNCHANGED <<plan, at, asked, cursor, inner, innerCut, expired>>

ResolverNext ==
    \/ StartResolve \/ Expire \/ Consult \/ SkipKey \/ OuterCut
    \/ \E v \in {"Found", "Miss", "Unavailable", "NotAttempted"}, c \in BOOLEAN : LookUpKey(v, c)
    \/ \E aligned \in BOOLEAN : MechanismReturns(aligned)

----------------------------------------------------------------------------
Planned == (IF plan.order = <<>> THEN Mechanisms ELSE ToSet(plan.order))

(* A key is an authoritative Miss only if every mechanism of the plan was    *)
(* consulted about it and answered Miss; Found means that the first          *)
(* mechanism that found it is credited and, under FirstHolder, that no later *)
(* one was told of the key.  A dead, cut, misaligned or unregistered         *)
(* mechanism never reads as absence.                                         *)
MissIsUnanimous ==
    \A k \in BatchKeys :
        /\ outcome[k] = "Miss" =>
             \A m \in Planned : m \in Mechanisms /\ told[m][k] = "Miss"
        /\ outcome[k] = "Found" => told[acc[k].found][k] = "Found"
        /\ plan.stop = "FirstHolder" =>
             \A i, j \in DOMAIN Order :
                 i < j /\ acc[k].found = Order[i] => told[Order[j]][k] = "none"

(* A batch is reported Completed only if nothing went wrong anywhere: not    *)
(* even a failure that a holder found elsewhere masks in the key's verdict.  *)
CompletedIsHonest ==
    resource = "Completed" =>
        /\ \A k \in BatchKeys : Authoritative(outcome[k])
        /\ Planned \subseteq Mechanisms
        /\ \A m \in Mechanisms, k \in BatchKeys : told[m][k] \in {"none", "Found", "Miss"}

-----------------------------------------------------------------------------
(***************************************************************************)
(* The in-memory claim book: InMemoryDiscovery of                          *)
(* daemon-core/src/discovery.rs.  Holders announce what they hold of one   *)
(* key; a claim lives for ClaimTtl, keeps its place while it is refreshed, *)
(* and a resolution merges the claims that agree on the content id named   *)
(* by most of them with those that name none.                              *)
(***************************************************************************)

CONSTANTS Holders, Contents, ClaimTtl,
          MaxBookTime, MaxPlaces   \* bounds of the model

\* A claim whose payload this build does not know names no content.
Inert == "inert"

VARIABLES
    book,     \* holder -> set of at most one held claim
    places,   \* the sequence counter
    bookNow,
    said,     \* what the last resolution returned
    touched   \* history: a claim was added, changed or expired since then

bookVars == <<book, places, bookNow, said, touched>>

NothingSaid == [content |-> Inert, claim |-> [holders |-> <<>>, offers |-> <<>>]]

BookInit ==
    /\ book = [h \in Holders |-> {}] /\ places = 0 /\ bookNow = 0
    /\ said = NothingSaid /\ touched = FALSE

LiveIn(b, h) == {c \in b[h] : bookNow - c.at < ClaimTtl}

\* HashMap::retain by age, done by announce and by resolve.
Swept(b) == [h \in Holders |-> LiveIn(b, h)]

\* A live claim keeps its place, a new one takes the next.
PlaceOf(b, h) == IF b[h] = {} THEN places ELSE (CHOOSE c \in b[h] : TRUE).place

\* announce.
Announce(h, content, offers) ==
    LET b == Swept(book)
        place == PlaceOf(b, h) IN
    /\ places < MaxPlaces
    /\ book' = [b EXCEPT ![h] = {[content |-> content, offers |-> offers,
                                  at |-> bookNow, place |-> place]}]
    /\ places' = IF place = places THEN places + 1 ELSE places
    /\ touched' = (touched \/ {[c EXCEPT !.at = 0, !.place = 0] : c \in b[h]}
                              # {[content |-> content, offers |-> offers, at |-> 0, place |-> 0]})
    /\ UNCHANGED <<bookNow, said>>

\* merge: the union of holders and transports, each once, in order.
Merge(b, order) ==
    [holders |-> order,
     offers  |-> FoldLeft(LAMBDA seen, h : LET c == CHOOSE c \in b[h] : TRUE IN
                             seen \o SelectSeq(c.offers, LAMBDA o : ~Contains(seen, o)),
                          <<>>, order)]

\* resolve_key on the swept book: partition by content id, the largest group
\* wins, a tie goes to the group seen first, inert claims ride along.
ResolveKey(b) ==
    LET held  == {h \in Holders : b[h] # {}}
        claim(h) == CHOOSE c \in b[h] : TRUE
        naming(c) == {h \in held : claim(h).content = c}
        named == {claim(h).content : h \in held} \ {Inert}
        first(c) == Min({claim(h).place : h \in naming(c)})
        wins(c) == \A d \in named : \/ Cardinality(naming(c)) > Cardinality(naming(d))
                                    \/ /\ Cardinality(naming(c)) = Cardinality(naming(d))
                                       /\ first(c) <= first(d)
        content == IF named = {} THEN Inert ELSE CHOOSE c \in named : wins(c)
        group == naming(content) \cup naming(Inert)
        before(h) == {g \in group : claim(g).place < claim(h).place}
        order == [i \in 1..Cardinality(group) |->
                    CHOOSE h \in group : Cardinality(before(h)) = i - 1]
    IN  [content |-> content, claim |-> Merge(b, order)]

\* resolve drops the expired claims it meets and merges the others.
Resolve ==
    /\ book' = Swept(book)
    /\ said' = ResolveKey(Swept(book))
    /\ touched' = FALSE
    /\ UNCHANGED <<places, bookNow>>

BookTick ==
    /\ bookNow < MaxBookTime /\ bookNow' = bookNow + 1
    /\ touched' = (touched \/ \E h \in Holders : \E c \in LiveIn(book, h) :
                                 bookNow' - c.at >= ClaimTtl)
    /\ UNCHANGED <<book, places, said>>

\* A holder's own locator, and one locator they all share.
OffersOf(h) == <<[kind |-> "iroh", id |-> h], [kind |-> "bittorrent", id |-> "t"]>>

BookNext ==
    \/ \E h \in Holders, c \in Contents \cup {Inert} : Announce(h, c, OffersOf(h))
    \/ Resolve
    \/ BookTick

BookSpec == BookInit /\ [][BookNext]_bookVars

-----------------------------------------------------------------------------
\* A resolution says what the last one said unless a claim was added, changed
\* or expired in between: holders that announce again what they already
\* announced do not make the winning content or the order of holders flap.
RefreshIsNeutral == ~touched /\ ~touched' => said' = said

\* A resolution names a content only with holders that claim it or claim
\* nothing definite, and leaves out no live one of those.
ResolvedIsAgreed ==
    ~touched => ToSet(said.claim.holders) =
      {h \in Holders : \E c \in LiveIn(book, h) : c.content \in {said.content, Inert}}
=============================================================================
