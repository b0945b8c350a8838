---------------------------- MODULE IndexerServer ----------------------------
(***************************************************************************)
(* The HTTP adapter of the indexer (tc_indexer_server.py).  A              *)
(* ThreadingHTTPServer runs every request in a thread of its own, and all  *)
(* of them use the global _RESULT_CACHE without a lock: each request makes *)
(* a pruned copy of the dictionary and binds the global to it, evicts from *)
(* whatever dictionary is bound by then, looks its key up, and if it finds *)
(* nothing scans and inserts the result.  An exception before the scan     *)
(* ends the thread without an answer.                                      *)
(*                                                                         *)
(* A dictionary is named after the request that made it, the first one     *)
(* Module; an entry has the time the code dates it by, and the time its    *)
(* request began.  Each read of the global begins a step of its own: the   *)
(* interpreter changes threads between any two of them, and a dictionary   *)
(* that is not bound any more is only read.                                *)
(***************************************************************************)
EXTENDS Integers, Sequences, SequencesExt, FiniteSets, FiniteSetsExt

CONSTANTS
    Requests,
    Keys,           \* did, rooms, max_rooms and window of a request that passes the checks
    Module,
    MAX_CACHE_SIZE,
    CACHE_TTL,      \* in ticks
    Held,           \* sets of keys: what requests before the first of these have left
    MaxClock        \* bound on the clock

ASSUME ServerAssumption ==
    /\ Module \notin Requests /\ MAX_CACHE_SIZE \in Nat \ {0}
    /\ CACHE_TTL \in Nat \ {0} /\ MaxClock \in Nat
    /\ \A S \in Held : S \subseteq Keys /\ IsFiniteSet(S) /\ Cardinality(S) <= MAX_CACHE_SIZE

VARIABLES
    clock,
    cache,    \* the dictionary _RESULT_CACHE is bound to
    heap,     \* the dictionaries
    pc, key, now,
    size,     \* of the dictionary a request iterates over, when it began
    todo,     \* keys to look up for the order, then keys to evict
    times,    \* times of the keys that were looked up
    answer,   \* the latest one: what it says, when its request and that of its scan began
    crowded,  \* history: the requests that overlapped with another
    burst     \* history: those of them that inserted since a request last pruned alone

serverVars == <<clock, cache, heap, pc, key, now, size, todo, times, answer, crowded, burst>>

Dictionaries == Requests \cup {Module}
Bound == heap[cache]
With(f, k, v) == [l \in DOMAIN f \cup {k} |-> IF l = k THEN v ELSE f[l]]
NoLoop == [of |-> Module, len |-> 0]
InFlight == {r \in Requests : pc[r] \notin {"idle", "answered", "dead"}}

Tick == /\ clock < MaxClock /\ clock' = clock + 1
        /\ UNCHANGED <<cache, heap, pc, key, now, size, todo, times, answer, crowded, burst>>

\* A request that ends takes its key and its time with it.
Goto(r, label) ==
    /\ pc' = [pc EXCEPT ![r] = label]
    /\ IF label \in {"answered", "dead"}
       THEN key' = [key EXCEPT ![r] = Module] /\ now' = [now EXCEPT ![r] = 0]
       ELSE UNCHANGED <<key, now>>
Say(r, said, of) == answer' = [said |-> said, at |-> now[r], of |-> of] /\ Goto(r, "answered")
Dies(r) == Goto(r, "dead")

\* No such route, another method, a bad room, max_rooms or window: answered without the cache.
Refuse(r) == /\ pc[r] = "idle" /\ Say(r, "refused", 0)
             /\ UNCHANGED <<clock, cache, heap, size, todo, times, crowded, burst>>

\* do_GET takes the time, and prune_cache begins to iterate over the bound dictionary.
Start(r, k) ==
    /\ pc[r] = "idle" /\ pc' = [pc EXCEPT ![r] = "copy"]
    /\ key' = [key EXCEPT ![r] = k] /\ now' = [now EXCEPT ![r] = clock]
    /\ size' = [size EXCEPT ![r] = [of |-> cache, len |-> Cardinality(DOMAIN Bound)]]
    /\ crowded' = IF InFlight = {} THEN crowded ELSE crowded \cup InFlight \cup {r}
    /\ UNCHANGED <<clock, cache, heap, todo, times, answer, burst>>

live(r, time) == now[r] - time < CACHE_TTL

unexpired(r) == {k \in DOMAIN heap[size[r].of] : live(r, heap[size[r].of][k].time)}

\* Mutant: what has expired is deleted from the dictionary that is iterated over.
resized_by_deletion(r) ==
    Cardinality(DOMAIN heap[size[r].of]) # size[r].len \/ unexpired(r) # DOMAIN heap[size[r].of]

resized(r) == Cardinality(DOMAIN heap[size[r].of]) # size[r].len

\* RuntimeError if the dictionary changed its size meanwhile; otherwise the live entries.
Copy(r) ==
    LET old == heap[size[r].of]
    IN  /\ pc[r] = "copy"
        /\ IF resized(r) THEN Dies(r) /\ UNCHANGED heap
           ELSE Goto(r, "bind") /\ heap' = [heap EXCEPT ![r] = [k \in unexpired(r) |-> old[k]]]
        /\ size' = [size EXCEPT ![r] = NoLoop]
        /\ UNCHANGED <<clock, cache, todo, times, answer, crowded, burst>>

Bind(r) == /\ pc[r] = "bind" /\ Goto(r, "measure") /\ cache' = r
           /\ UNCHANGED <<clock, heap, size, todo, times, answer, crowded, burst>>

Measure(r) ==
    /\ pc[r] = "measure"
    /\ Goto(r, IF Cardinality(DOMAIN Bound) >= MAX_CACHE_SIZE THEN "list" ELSE "check")
    /\ UNCHANGED <<clock, cache, heap, size, todo, times, answer, crowded, burst>>

\* The keys to sort are those of the dictionary that is bound now.
List(r) == /\ pc[r] = "list" /\ Goto(r, "sort") /\ todo' = [todo EXCEPT ![r] = DOMAIN Bound]
           /\ UNCHANGED <<clock, cache, heap, size, times, answer, crowded, burst>>

\* The sort asks for the time of each, in whatever is bound by then; KeyError if it is not there.
Sort(r, k) ==
    /\ pc[r] = "sort" /\ k \in todo[r]
    /\ IF k \notin DOMAIN Bound
       THEN /\ Dies(r) /\ todo' = [todo EXCEPT ![r] = {}]
            /\ times' = [times EXCEPT ![r] = << >>]
       ELSE /\ todo' = [todo EXCEPT ![r] = @ \ {k}]
            /\ times' = [times EXCEPT ![r] = With(@, k, Bound[k].time)]
            /\ UNCHANGED <<pc, key, now>>
    /\ UNCHANGED <<clock, cache, heap, size, answer, crowded, burst>>

\* Mutant: evicts down to the capacity, and then one is inserted.
excess_without_room == Cardinality(DOMAIN Bound) - MAX_CACHE_SIZE

excess == Cardinality(DOMAIN Bound) - MAX_CACHE_SIZE + 1

\* sorted_keys[:n]; a negative n leaves out the last -n.
Taken(n, len) == IF n >= 0 THEN Min({n, len}) ELSE Max({0, len + n})

\* The oldest are marked, as many as the dictionary that is bound now has too many.
Slice(r) ==
    LET keys == DOMAIN times[r]
    IN  /\ pc[r] = "sort" /\ todo[r] = {} /\ Goto(r, "evict")
        /\ \E oldest \in kSubset(Taken(excess, Cardinality(keys)), keys) :
               /\ \A k \in oldest, l \in keys \ oldest : times[r][k] <= times[r][l]
               /\ todo' = [todo EXCEPT ![r] = oldest]
        /\ times' = [times EXCEPT ![r] = << >>]
        /\ UNCHANGED <<clock, cache, heap, size, answer, crowded, burst>>

\* del _RESULT_CACHE[k]; KeyError if it is gone.
Evict(r, k) ==
    /\ pc[r] = "evict" /\ k \in todo[r]
    /\ IF k \notin DOMAIN Bound
       THEN Dies(r) /\ todo' = [todo EXCEPT ![r] = {}] /\ UNCHANGED heap
       ELSE /\ todo' = [todo EXCEPT ![r] = @ \ {k}]
            /\ heap' = [heap EXCEPT ![cache] = [l \in DOMAIN @ \ {k} |-> @[l]]]
            /\ UNCHANGED <<pc, key, now>>
    /\ UNCHANGED <<clock, cache, size, times, answer, crowded, burst>>

Evicted(r) == /\ pc[r] = "evict" /\ todo[r] = {} /\ Goto(r, "check")
              /\ UNCHANGED <<clock, cache, heap, size, todo, times, answer, crowded, burst>>

Check(r) ==
    /\ pc[r] = "check"
    /\ Goto(r, IF key[r] \in DOMAIN Bound THEN "lookup" ELSE "scan")
    /\ burst' = IF r \in crowded THEN burst ELSE {}
    /\ UNCHANGED <<clock, cache, heap, size, todo, times, answer, crowded>>

\* Mutant: an expired entry is looked for once more.
check_again(r) == Goto(r, "check")

on_expired(r) == Goto(r, "scan")

\* KeyError if it went meanwhile; too old if a slow request has just inserted it.
Lookup(r) ==
    /\ pc[r] = "lookup"
    /\ IF key[r] \notin DOMAIN Bound THEN Dies(r) /\ UNCHANGED answer
       ELSE IF live(r, Bound[key[r]].time) THEN Say(r, "cached", Bound[key[r]].began)
       ELSE on_expired(r) /\ UNCHANGED answer
    /\ UNCHANGED <<clock, cache, heap, size, todo, times, crowded, burst>>

\* run_indexer, as long as it takes: 400 or 502,
ScanFails(r) == /\ pc[r] = "scan" /\ Say(r, "error", 0)
                /\ UNCHANGED <<clock, cache, heap, size, todo, times, crowded, burst>>

\* Mutant: the entry is dated by the end of the scan.
inserted_time(r) == clock

cached_time(r) == now[r]

\* ... or a result, dated by the start of the request, inserted and answered.
Insert(r) ==
    LET entry == [time |-> cached_time(r), began |-> now[r]]
    IN  /\ pc[r] = "scan" /\ Say(r, "result", now[r])
        /\ heap' = [heap EXCEPT ![cache] = With(@, key[r], entry)]
        /\ burst' = burst \cup ({r} \cap crowded)
        /\ UNCHANGED <<clock, cache, size, todo, times, crowded>>

Serve(r) == \/ Copy(r) \/ Bind(r) \/ Measure(r) \/ List(r) \/ Slice(r)
            \/ (\E k \in Keys : Sort(r, k) \/ Evict(r, k)) \/ Evicted(r)
            \/ Check(r) \/ Lookup(r) \/ ScanFails(r) \/ Insert(r)

\* Entries of requests that began and ended when the clock was 0.
Kept(keys) == [k \in keys |-> [time |-> 0, began |-> 0]]

ServerInit == /\ clock = 0 /\ cache = Module
              /\ \E keys \in Held : heap = [d \in Dictionaries |-> Kept(IF d = Module THEN keys ELSE {})]
              /\ pc = [r \in Requests |-> "idle"] /\ key = [r \in Requests |-> Module]
              /\ now = [r \in Requests |-> 0] /\ size = [r \in Requests |-> NoLoop]
              /\ todo = [r \in Requests |-> {}] /\ times = [r \in Requests |-> << >>]
              /\ answer = [said |-> "nothing", at |-> 0, of |-> 0]
              /\ crowded = {} /\ burst = {}

ServerNext == \/ Tick
              \/ \E r \in Requests : Refuse(r) \/ Serve(r) \/ \E k \in Keys : Start(r, k)

ServerSpec == ServerInit /\ [][ServerNext]_serverVars

\* The scheduler runs every thread, and the requests of a scan time out.
Fairness == \A r \in Requests : WF_serverVars(Serve(r))
FairServerSpec == ServerSpec /\ Fairness

-----------------------------------------------------------------------------
(* Properties *)

\* The cache has no two entries for a key, none is of the future, and the bound dictionary is
\* one that a request has finished to build.
ServerTypeOK == /\ \A d \in Dictionaries : \A k \in DOMAIN heap[d] : k \in Keys /\ heap[d][k].time <= clock
                /\ cache # Module => pc[cache] \notin {"idle", "copy", "bind"}
                /\ \A r \in Requests : todo[r] \subseteq Keys

\* An answer from the cache is of a scan whose request began less than CACHE_TTL before this one,
\* however long that scan took and however late it inserted its result.
AnswersFresh == answer.said = "cached" => answer.at - answer.of < CACHE_TTL

\* Only requests that overlap take the cache past its capacity, each that inserts by one entry
\* at most, in whatever order they copy, bind, evict and insert; and the next request that is
\* alone until it has pruned takes it back.
NearlyBounded == Cardinality(DOMAIN Bound) <= MAX_CACHE_SIZE + Cardinality(burst)

\* A request loses its answer only to another one it overlapped with.
AloneAnswered == \A r \in Requests : pc[r] = "dead" => r \in crowded

\* Every request ends, with an answer or without.
Ends == \A r \in Requests : r \in InFlight ~> pc[r] \in {"answered", "dead"}
=============================================================================
