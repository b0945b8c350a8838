------------------------------- MODULE Indexer -------------------------------
(***************************************************************************)
(* The live indexer (tc_live_indexer.py): run_indexer reads the retained   *)
(* records of a number of rooms, one room after the other, verifies those  *)
(* of one DID and says whether it is active.  Meanwhile the rooms go on:   *)
(* records are posted, and the oldest dropped.                             *)
(*                                                                         *)
(* A record is what verify_and_index_record makes of its line: whether it  *)
(* is of the DID, its status, and its timestamp, None if that is no ISO    *)
(* timestamp.                                                              *)
(***************************************************************************)
EXTENDS Integers, Sequences, SequencesExt, FiniteSets, FiniteSetsExt

CONSTANTS
    Rooms,      \* names of rooms that pass ROOM_NAME_RE
    BadNames,   \* names that do not
    Records,    \* records that may be posted: [mine, status, dated]
    Explicit,   \* values of the rooms argument, the empty sequence (discover) among them
    MaxRooms,   \* max_rooms
    Window,     \* the activity window, in ticks
    None,
    Retained,   \* how many records a room retains
    MaxPosts, MaxNow \* bounds on the posts and on the clock

Statuses == {"VALID", "INVALID", "UNSIGNED", "MALFORMED"}

ASSUME IndexerAssumption == /\ MaxRooms \in Nat \ {0} /\ Window \in Nat
                            /\ Retained \in Nat /\ MaxPosts \in Nat /\ MaxNow \in Nat
                            /\ IsFiniteSet(Rooms) /\ Explicit \subseteq Seq(Rooms \cup BadNames)
                            /\ Records \subseteq [mine : BOOLEAN, status : Statuses, dated : BOOLEAN]

VARIABLES
    time, posts,
    log,          \* the retained records of each room: [mine, status, ts]
    phase,        \* "start", "plain" (second attempt to discover), "scan", "done", "refused"
    scanned_rooms, next,
    room_details, \* by room: the counts of its records by status
    totals,
    timestamps,   \* of the verified records
    status,       \* "NO DATA", "ACTIVE" or "STALE"
    began,        \* history: when the scan began
    seen          \* history: the records fetched, room by room

roomVars == <<time, posts, log>>
scanVars == <<phase, scanned_rooms, next, room_details, totals, timestamps, status, began, seen>>
indexerVars == <<roomVars, scanVars>>

\* External: the server
Elapse == time < MaxNow /\ time' = time + 1 /\ UNCHANGED <<posts, log, scanVars>>

Post(room, r) ==
    /\ posts < MaxPosts /\ posts' = posts + 1
    /\ LET entry == [mine |-> r.mine, status |-> r.status, ts |-> IF r.dated THEN time ELSE None]
           longer == Append(log[room], entry)
       IN  log' = [log EXCEPT ![room] = IF Len(longer) > Retained THEN Tail(longer) ELSE longer]
    /\ UNCHANGED <<time, scanVars>>

-----------------------------------------------------------------------------

\* Names are stripped and checked before anything is read; one bad name refuses them all.
Begin(names) ==
    /\ phase = "start" /\ names # << >>
    /\ scanned_rooms' = names
    /\ phase' = IF \E i \in DOMAIN names : names[i] \in BadNames THEN "refused" ELSE "scan"
    /\ began' = time
    /\ UNCHANGED <<roomVars, next, room_details, totals, timestamps, status, seen>>

\* The answer to /rooms: the rooms in some order, each once, at most max_rooms of them.
Answers == {SubSeq(s, 1, Min({Len(s), MaxRooms})) : s \in SetToSeqs(Rooms)} \cup {<< >>}

\* /rooms?format=json; when it fails or is empty, /rooms as text.
DiscoverJson ==
    /\ phase = "start" /\ << >> \in Explicit
    /\ \E answer \in Answers :
           /\ scanned_rooms' = answer
           /\ phase' = IF answer = << >> THEN "plain" ELSE "scan"
    /\ began' = time
    /\ UNCHANGED <<roomVars, next, room_details, totals, timestamps, status, seen>>

DiscoverText ==
    /\ phase = "plain"
    /\ \E answer \in Answers : scanned_rooms' = answer
    /\ phase' = "scan"
    /\ UNCHANGED <<roomVars, next, room_details, totals, timestamps, status, began, seen>>

\* A line of another sender is None to verify_and_index_record, and skipped.
Mine(records) == {i \in DOMAIN records : records[i].mine}
Count(records, s) == Cardinality({i \in Mine(records) : records[i].status = s})

\* Mutant: what is not invalid is verified.
counts_lenient(records) ==
    [s \in Statuses |-> IF s = "VALID" THEN Count(records, s) + Count(records, "UNSIGNED")
                        ELSE Count(records, s)]

counts(records) == [s \in Statuses |-> Count(records, s)]

\* One room: fetch its export, index the records of the DID.
Index(room, records) ==
    /\ room_details' = IF Mine(records) = {} THEN room_details
                       ELSE [r \in DOMAIN room_details \cup {room} |->
                                IF r = room THEN counts(records) ELSE room_details[r]]
    /\ totals' = [s \in Statuses |-> totals[s] + counts(records)[s]]
    /\ timestamps' = (timestamps \cup
           {records[i].ts : i \in {k \in Mine(records) : records[k].status = "VALID"}}) \ {None}
    /\ seen' = Append(seen, records)

FetchRoom ==
    /\ phase = "scan" /\ next <= Len(scanned_rooms)
    /\ \/ Index(scanned_rooms[next], log[scanned_rooms[next]])
       \/ Index(scanned_rooms[next], << >>)  \* the request failed: read as an empty room
    /\ next' = next + 1
    /\ UNCHANGED <<roomVars, phase, scanned_rooms, status, began>>

\* Mutant: the age is taken when the scan begins.
age_at_start == began - Max(timestamps)

age == time - Max(timestamps)

Finish == /\ phase = "scan" /\ next > Len(scanned_rooms)
          /\ phase' = "done"
          /\ status' = IF timestamps = {} THEN "NO DATA"
                       ELSE IF age <= Window THEN "ACTIVE" ELSE "STALE"
          /\ UNCHANGED <<time, posts, log, scanned_rooms, next, room_details, totals, timestamps,
                         began, seen>>

ScanInit == /\ time = 0 /\ posts = 0 /\ log = [r \in Rooms |-> << >>]
            /\ phase = "start" /\ scanned_rooms = << >> /\ next = 1
            /\ room_details = << >> /\ totals = [s \in Statuses |-> 0] /\ timestamps = {}
            /\ status = None /\ began = 0 /\ seen = << >>

ScanNext == \/ Elapse
            \/ \E room \in Rooms, r \in Records : Post(room, r)
            \/ \E names \in Explicit : Begin(names)
            \/ DiscoverJson \/ DiscoverText \/ FetchRoom \/ Finish

ScanSpec == ScanInit /\ [][ScanNext]_indexerVars

-----------------------------------------------------------------------------
(* Properties *)

\* Types of the state; at most max_rooms rooms are discovered, and none is read twice
\* unless the caller named it twice.
IndexerTypeOK == /\ phase \in {"start", "plain", "scan", "done", "refused"}
                 /\ \A room \in Rooms : Len(log[room]) <= Retained
                 /\ scanned_rooms \notin Explicit => Len(scanned_rooms) <= MaxRooms /\ IsInjective(scanned_rooms)
                 /\ phase = "refused" => seen = << >>
                 /\ Len(seen) = next - 1

Verified == {v \in (DOMAIN seen) \X (1..Retained) :
                 v[2] \in Mine(seen[v[1]]) /\ seen[v[1]][v[2]].status = "VALID"}

\* The total of verified records is the number of the DID's validly signed records that were
\* fetched,
TotalIsCounted == totals["VALID"] = Cardinality(Verified)

\* and, if no room was named twice, what the details of the rooms add up to: there are
\* as many as there are pairs of a room and a number up to its own.
Detailed == {v \in (DOMAIN room_details) \X (1..Retained) : v[2] <= room_details[v[1]]["VALID"]}

DetailsAddUp == IsInjective(scanned_rooms) => totals["VALID"] = Cardinality(Detailed)

CountsAgree == TotalIsCounted /\ DetailsAddUp

\* When the DID's validly signed records that carry a date were made.
Dates == {seen[v[1]][v[2]].ts : v \in Verified} \ {None}

\* When the scan ends, ACTIVE and STALE say how old the latest dated, validly signed record
\* that was fetched is, however long the scan took.
StatusIsOfTheEnd ==
    [][status' # status =>
           /\ status' = "ACTIVE" => \E t \in Dates : time - t <= Window
           /\ status' = "STALE" => Dates # {} /\ \A t \in Dates : time - t > Window
           /\ status' = "NO DATA" => Dates = {}]_indexerVars
=============================================================================
