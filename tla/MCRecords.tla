----------------------------- MODULE MCRecords ------------------------------
(* What a provider publishes: the announcer, the list of what it may        *)
(* publish, and the records, floors and claims as bytes.  None of them      *)
(* shares state with another, so a behaviour is of one of them (focus); the *)
(* announcer and the list rest, and the variables of the others are off,    *)
(* while another one runs.                                                  *)
EXTENDS Announcer, PublicAllowlist, RecordCodec, TLC

(* Model-checking instances of Announcer.                                  *)

CONSTANTS k1, k2, t1, t2

MCKeys1 == {k1}
MCKeys2 == {k1, k2}
MCTasks1 == {t1}
MCTasks2 == {t1, t2}
MCTtls == {1, 3}

(* Keys and tasks are interchangeable: nothing orders or distinguishes     *)
(* them.                                                                   *)
Symmetry == Permutations(MCKeys2) \cup Permutations(MCTasks2)

-----------------------------------------------------------------------------
(* Records with up to two offers, and tombstones.                          *)

MCOffers ==
    {[tag |-> Iroh, node |-> n, version |-> 0, hash |-> 0, hints |-> <<>>] : n \in 1..2}
    \cup {[tag |-> BitTorrent, node |-> 0, version |-> v, hash |-> 1, hints |-> <<>>] : v \in 1..2}
    \cup {[tag |-> Libp2p, node |-> 1, version |-> 0, hash |-> 0, hints |-> h] :
             h \in {<<>>, <<2>>, <<1>>}}

MCDrafts ==
    {[kind |-> Provide, key |-> 1, provider |-> 1, sequence |-> 1, issued |-> 0,
      expiry |-> 1, content |-> 1, offers |-> os] :
        os \in UNION {[1..n -> MCOffers] : n \in 0..2}}
    \cup {[kind |-> Withdraw, key |-> k, provider |-> p, sequence |-> 2, issued |-> 0,
           expiry |-> 2, content |-> 0, offers |-> <<>>] : k \in 1..2, p \in 1..2}

-----------------------------------------------------------------------------
(* Two records that differ in their key, and the lines a file may hold.    *)

MCFileDrafts ==
    {[kind |-> Provide, key |-> k, provider |-> 1, sequence |-> 1, issued |-> 0,
      expiry |-> 1, content |-> 1,
      offers |-> <<[tag |-> Iroh, node |-> 1, version |-> 0, hash |-> 0, hints |-> <<>>]>>] :
        k \in 1..2}
    \cup {[kind |-> Withdraw, key |-> 1, provider |-> p, sequence |-> 2, issued |-> 0,
           expiry |-> 2, content |-> 0, offers |-> <<>>] : p \in 1..2}

MCAllDrafts == MCDrafts \cup MCFileDrafts

-----------------------------------------------------------------------------
(* An older and a newer build, and the fields of offers neither knows.     *)

MCBuilds == {{"iroh", "bittorrent", "whole"},
             {"iroh", "bittorrent", "newer", "newest", "whole", "chunked"}}

MCFields == {<<"transport", "iroh">>, <<"transport", "newer">>, <<"transport", "null">>,
             <<"node", "n1">>, <<"at", "n1">>, <<"at", "list">>, <<"too", "n2">>,
             <<"at", "huge">>}

MCStrays == UNION {[1..n -> MCFields] : n \in 1..2}
            \cup {<<f, <<"at", "n1">>, <<"too", "n2">> >> : f \in MCFields}

-----------------------------------------------------------------------------

VARIABLE focus

Off(x) == x = "off"

CodecOff == Off(made) /\ Off(signatures) /\ Off(bytes) /\ Off(touched) /\ Off(faults)
         /\ Off(readNow) /\ Off(reading)
FileOff == Off(floors) /\ Off(saved) /\ Off(saving) /\ Off(file) /\ Off(temporary)
        /\ Off(damage) /\ Off(loads)
ClaimOff == Off(sender) /\ Off(receiver) /\ Off(message) /\ Off(wire) /\ Off(honest)
         /\ Off(outcome)

RecordsInit ==
    /\ focus \in {"announcer", "allowlist", "codec", "file", "claims"}
    /\ Init /\ (focus # "announcer" => eligible = {})
    /\ AllowlistInit
    /\ CASE focus = "codec" -> CodecInit /\ FileOff
         [] focus = "file" -> FileInit /\ made \subseteq {SignedForm(d) : d \in MCFileDrafts}
         [] OTHER -> CodecOff /\ FileOff
    /\ IF focus = "claims" THEN ClaimInit ELSE ClaimOff

(* The component in focus takes a step and the others do not.              *)
Rests(x, v) == IF focus = x THEN TRUE ELSE UNCHANGED v
Alone ==
    /\ focus' = focus
    /\ Rests("announcer", vars) /\ Rests("allowlist", allowlistVars)
    /\ (IF focus = "file" THEN TRUE ELSE Rests("codec", codecVars))
    /\ Rests("file", fileVars) /\ Rests("claims", claimVars)

RecordsNext ==
    \/ focus = "announcer" /\ Next /\ Alone
    \/ focus = "allowlist" /\ AllowlistNext /\ Alone
    \/ focus = "codec" /\ CodecNext /\ Alone
    \/ focus = "file" /\ FileNext /\ Alone
    \/ focus = "claims" /\ ClaimNext /\ Alone

recordsVars == <<vars, allowlistVars, codecVars, fileVars, claimVars, focus>>

RecordsSpec ==
    /\ RecordsInit /\ [][RecordsNext]_recordsVars

(* A record or a claim is read as it was written or not at all: an accepted *)
(* record was signed by its provider for the key asked about, whatever      *)
(* happened to its bytes, and what was signed is readable; claims pass      *)
(* between builds of different ages with the offers both know; and a        *)
(* restart gets back the floors of the last completed save                  *)
(* (record_codec.rs, claim.rs, persist.rs).                                 *)
WrittenIsRead ==
    [][/\ focus = "codec" => (AcceptedWasSigned /\ SignedIsReadable)'
       /\ focus = "claims" => (BuildsUnderstandEachOther /\ AnswersDoNotEnumerate)'
       /\ focus = "file" => LoadIsExact]_<<codecVars, fileVars, claimVars>>
=============================================================================
