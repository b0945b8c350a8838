----------------------------- MODULE MCIndexers -----------------------------
(***************************************************************************)
(* Small instances of the indexer for TLC: a behaviour is of one scan, of  *)
(* two rooms that are discovered or named once or twice by the caller, or  *)
(* of the server's request threads.                                        *)
(***************************************************************************)
EXTENDS LiveIndexer

CONSTANTS lobby, offers, dotdot, k1, k2, k3, r1, r2, r3

Rec(mine, s, dated) == [mine |-> mine, status |-> s, dated |-> dated]
MCRecords == {Rec(TRUE, "VALID", TRUE), Rec(TRUE, "UNSIGNED", TRUE), Rec(FALSE, "VALID", TRUE)}
MCHeld == {{k1, k2}}
MCExplicit == {<< >>, <<lobby>>, <<lobby, offers>>, <<lobby, lobby>>, <<lobby, dotdot>>}

\* Requests are alike until they begin, so they begin in this order; two at a time.
Asks == [r \in Requests |-> IF r = r2 THEN {k1, k3} ELSE {k3}]
Order == <<r1, r2, r3>>
First(r) == \A i, j \in DOMAIN Order : i < j /\ Order[j] = r => pc[Order[i]] # "idle"
May(r) == First(r) /\ Cardinality(InFlight) < 2

-----------------------------------------------------------------------------
MCInit == ScanInit /\ ServerInit

\* The first step says which of the two a behaviour is of.
ScanStep == ServerInit /\ UNCHANGED serverVars
ServerStep == ScanInit /\ UNCHANGED indexerVars

MCNext ==
    \/ Elapse /\ ScanStep
    \/ \E room \in Rooms, r \in Records : Post(room, r) /\ ScanStep
    \/ \E names \in Explicit : Begin(names) /\ ScanStep
    \/ DiscoverJson /\ ScanStep
    \/ DiscoverText /\ ScanStep
    \/ FetchRoom /\ ScanStep
    \/ Finish /\ ScanStep
    \/ Tick /\ ServerStep
    \/ \E r \in Requests, k \in Keys : May(r) /\ k \in Asks[r] /\ Start(r, k) /\ ServerStep
    \/ \E r \in Requests, k \in Keys : Sort(r, k) /\ ServerStep
    \/ \E r \in Requests, k \in Keys : Evict(r, k) /\ ServerStep
    \/ \E r \in Requests :
           \/ May(r) /\ r = r3 /\ Refuse(r) /\ ServerStep
           \/ Copy(r) /\ ServerStep
           \/ Bind(r) /\ ServerStep
           \/ Measure(r) /\ ServerStep
           \/ List(r) /\ ServerStep
           \/ Slice(r) /\ ServerStep
           \/ Evicted(r) /\ ServerStep
           \/ Check(r) /\ ServerStep
           \/ Lookup(r) /\ ServerStep
           \/ ScanFails(r) /\ ServerStep
           \/ Insert(r) /\ ServerStep

MCSpec == MCInit /\ [][MCNext]_<<indexerVars, serverVars>> /\ Fairness
=============================================================================
