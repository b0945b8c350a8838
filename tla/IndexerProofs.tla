---------------------------- MODULE IndexerProofs ----------------------------
(***************************************************************************)
(* What holds of the indexer for all values of its constants.  Of the      *)
(* server, for every number of requests, capacity and time to live: the    *)
(* bound on the cache, the age of what is answered from it, and that a     *)
(* request alone is never left without answer.  Of a scan, whatever is     *)
(* posted meanwhile: what its total counts and what its verdict is about.  *)
(***************************************************************************)
EXTENDS LiveIndexer, FiniteSetTheorems, SequenceTheorems, TLAPS

-----------------------------------------------------------------------------
(* The inductive invariant of the server *)

Pcs == {"idle", "copy", "bind", "measure", "list", "sort", "evict", "check", "lookup", "scan",
        "answered", "dead"}
Said == {"nothing", "refused", "error", "cached", "result"}
Entries(f) == Cardinality(DOMAIN f)
Limit == MAX_CACHE_SIZE + Cardinality(burst)

\* A dictionary of what was inserted until some time: no entry is dated later than the request
\* that scanned for it began.
Dated(entry, c) == /\ entry.time \in Nat /\ entry.began \in Nat
                   /\ entry.time <= entry.began /\ entry.time <= c
Dictionary(f, c) == IsFiniteSet(DOMAIN f) /\ \A k \in DOMAIN f : k \in Keys /\ Dated(f[k], c)

\* Only a request that sorts has read times.
Timed(ts, labels) == /\ DOMAIN ts = Requests
                     /\ \A r \in Requests : /\ DOMAIN ts[r] \subseteq Keys
                                            /\ labels[r] # "sort" => DOMAIN ts[r] = {}

Fresh(a) == /\ a \in [said : Said, at : Nat, of : Nat]
            /\ a.said = "cached" => a.at - a.of < CACHE_TTL

Locals == /\ pc \in [Requests -> Pcs]
          /\ key \in [Requests -> Keys \cup {Module}]
          /\ \A r \in InFlight : key[r] \in Keys
          /\ now \in [Requests -> Nat]
          /\ \A r \in Requests : now[r] <= clock
          /\ size \in [Requests -> [of : Dictionaries, len : Nat]]
          /\ todo \in [Requests -> SUBSET Keys]
          /\ Timed(times, pc)

Globals == /\ clock \in Nat /\ cache \in Dictionaries
           /\ DOMAIN heap = Dictionaries
           /\ \A d \in Dictionaries : Dictionary(heap[d], clock)
           /\ crowded \in SUBSET Requests /\ burst \in SUBSET crowded
           /\ IsFiniteSet(burst)

\* Every dictionary that is bound, or may still be bound, is within the limit.
Within == /\ \A r \in burst : pc[r] = "answered"
          /\ cache # Module => pc[cache] \notin {"idle", "copy", "bind"}
          /\ Entries(heap[cache]) <= Limit
          /\ \A r \in Requests : pc[r] = "bind" => Entries(heap[r]) <= Limit
          /\ \A r \in Requests : pc[r] = "copy" => Entries(heap[size[r].of]) <= Limit

\* What a request finds when no other has overlapped with it so far.
Undisturbed(r) ==
    /\ pc[r] = "copy" => size[r].of = cache /\ size[r].len = Entries(heap[cache])
    /\ pc[r] \in {"list", "sort"} => MAX_CACHE_SIZE <= Entries(heap[cache])
    /\ pc[r] = "sort" => todo[r] \cup DOMAIN times[r] = DOMAIN Bound
    /\ pc[r] = "evict" => /\ todo[r] \subseteq DOMAIN Bound
                          /\ Entries(heap[cache]) - Cardinality(todo[r]) <= MAX_CACHE_SIZE - 1
    /\ pc[r] \in {"check", "lookup", "scan"} => Entries(heap[cache]) <= MAX_CACHE_SIZE - 1
    /\ pc[r] = "lookup" => key[r] \in DOMAIN Bound

Alone == \A r \in InFlight \ crowded : InFlight = {r} /\ Undisturbed(r)

Answered == Fresh(answer) /\ \A r \in Requests : pc[r] = "dead" => r \in crowded

ServerInv == Locals /\ Globals /\ Within /\ Alone /\ Answered

\* A request that moves on is in flight as its new label says; the others are where they were.
LEMMA Moves ==
    ASSUME pc \in [Requests -> Pcs], NEW r \in Requests, NEW l \in Pcs, Goto(r, l)
    PROVE  /\ pc' \in [Requests -> Pcs] /\ pc'[r] = l
           /\ \A s \in Requests : s # r => pc'[s] = pc[s]
           /\ r \in InFlight' <=> l \notin {"idle", "answered", "dead"}
           /\ \A s : s # r => (s \in InFlight' <=> s \in InFlight)
<1>1. pc' = [pc EXCEPT ![r] = l]
  BY DEF Goto
<1>2. /\ pc' \in [Requests -> Pcs] /\ pc'[r] = l
      /\ \A s \in Requests : s # r => pc'[s] = pc[s]
  BY <1>1
<1> QED
  BY <1>2 DEF InFlight

\* A dictionary of what was kept from before, one with fewer entries, one with one entry more, and one that is older.
LEMMA KeptDictionary ==
    ASSUME NEW S \in SUBSET Keys, IsFiniteSet(S)
    PROVE  Dictionary(Kept(S), 0) /\ DOMAIN Kept(S) = S
<1>1. DOMAIN Kept(S) = S /\ \A k \in S : Kept(S)[k] = [time |-> 0, began |-> 0]
  BY DEF Kept
<1>2. Dated([time |-> 0, began |-> 0], 0)
  BY DEF Dated
<1> QED
  BY <1>1, <1>2 DEF Dictionary

LEMMA SmallerDictionary ==
    ASSUME NEW f, NEW c \in Nat, Dictionary(f, c), NEW S \in SUBSET DOMAIN f
    PROVE  /\ Dictionary([k \in S |-> f[k]], c)
           /\ Cardinality(DOMAIN [k \in S |-> f[k]]) <= Cardinality(DOMAIN f)
<1>1. IsFiniteSet(S) /\ Cardinality(S) <= Cardinality(DOMAIN f)
  BY FS_Subset DEF Dictionary
<1>2. DOMAIN [k \in S |-> f[k]] = S
  OBVIOUS
<1> QED
  BY <1>1, <1>2 DEF Dictionary

LEMMA LargerDictionary ==
    ASSUME NEW f, NEW c \in Nat, Dictionary(f, c), NEW k \in Keys, NEW t \in Nat, t <= c,
           NEW g, g = With(f, k, [time |-> t, began |-> t])
    PROVE  /\ Dictionary(g, c)
           /\ Cardinality(DOMAIN g) \in Nat /\ Cardinality(DOMAIN f) \in Nat
           /\ Cardinality(DOMAIN g) <= Cardinality(DOMAIN f) + 1
<1>1. /\ DOMAIN g = DOMAIN f \cup {k}
      /\ \A l \in DOMAIN g : g[l] = IF l = k THEN [time |-> t, began |-> t] ELSE f[l]
  BY DEF With
<1>2. IsFiniteSet(DOMAIN f)
  BY DEF Dictionary
<1>3. /\ IsFiniteSet(DOMAIN f \cup {k})
      /\ Cardinality(DOMAIN f \cup {k}) = IF k \in DOMAIN f THEN Cardinality(DOMAIN f)
                                          ELSE Cardinality(DOMAIN f) + 1
  BY <1>2, FS_AddElement
<1>4. Cardinality(DOMAIN f) \in Nat /\ Cardinality(DOMAIN g) \in Nat
  BY <1>1, <1>2, <1>3, FS_CardinalityType
<1>5. Cardinality(DOMAIN g) <= Cardinality(DOMAIN f) + 1
  BY <1>1, <1>3, <1>4
<1>6. Dictionary(g, c)
  <2>1. Dated([time |-> t, began |-> t], c)
    BY DEF Dated
  <2> QED
    BY <1>1, <1>3, <2>1 DEF Dictionary
<1> QED
  BY <1>4, <1>5, <1>6

LEMMA OlderDictionary ==
    ASSUME NEW f, NEW c \in Nat, NEW d \in Nat, c <= d, Dictionary(f, c)
    PROVE  Dictionary(f, d)
BY DEF Dictionary, Dated

\* The sizes the invariant speaks of are numbers.
LEMMA Counts ==
    ASSUME Globals
    PROVE  /\ \A d \in Dictionaries : Entries(heap[d]) \in Nat /\ IsFiniteSet(DOMAIN heap[d])
           /\ Cardinality(burst) \in Nat
           /\ MAX_CACHE_SIZE \in Nat \ {0} /\ CACHE_TTL \in Nat \ {0}
           /\ Bound = heap[cache] /\ Entries(heap[cache]) = Cardinality(DOMAIN Bound)
BY FS_CardinalityType, ServerAssumption DEF Globals, Entries, Dictionary, Bound

LEMMA InitHolds == ServerInit => ServerInv
<1> SUFFICES ASSUME ServerInit
             PROVE  ServerInv
  OBVIOUS
<1>1. Timed(times, pc)
  <2>1. DOMAIN << >> = {}
    OBVIOUS
  <2> QED
    BY <2>1 DEF ServerInit, Timed
<1>2. Locals
  BY <1>1 DEF ServerInit, Locals, Pcs, InFlight, Dictionaries, NoLoop
<1>3. PICK keys \in Held : heap = [d \in Dictionaries |-> Kept(IF d = Module THEN keys ELSE {})]
  BY DEF ServerInit
<1>4. keys \in SUBSET Keys /\ IsFiniteSet(keys) /\ Cardinality(keys) <= MAX_CACHE_SIZE
  BY ServerAssumption
<1>5. /\ DOMAIN heap = Dictionaries /\ heap[Module] = Kept(keys)
      /\ \A d \in Dictionaries : d # Module => heap[d] = Kept({})
  BY <1>3 DEF Dictionaries
<1>6. \A d \in Dictionaries : Dictionary(heap[d], 0)
  BY <1>4, <1>5, KeptDictionary, FS_EmptySet
<1>7. Globals
  BY <1>5, <1>6, FS_EmptySet DEF ServerInit, Globals, Dictionaries
<1>8. Entries(heap[Module]) <= Limit
  <2>1. Entries(heap[Module]) = Cardinality(keys)
    BY <1>4, <1>5, KeptDictionary DEF Entries
  <2>2. Limit = MAX_CACHE_SIZE
    BY FS_EmptySet, ServerAssumption DEF ServerInit, Limit
  <2> QED
    BY <1>4, <2>1, <2>2
<1>9. Within
  BY <1>8 DEF ServerInit, Within
<1>10. InFlight = {}
  BY DEF ServerInit, InFlight
<1>11. Alone /\ Answered
  BY <1>10 DEF ServerInit, Alone, Answered, Fresh, Said
<1> QED
  BY <1>2, <1>7, <1>9, <1>11 DEF ServerInv

\* When a request is in flight and one in flight is undisturbed, they are the same request.
LEMMA Lone ==
    ASSUME ServerInv, NEW r \in InFlight, NEW s \in InFlight \ crowded
    PROVE  s = r /\ InFlight = {r} /\ r \notin crowded /\ Undisturbed(r)
BY DEF ServerInv, Alone

LEMMA TickHolds == ServerInv /\ Tick => ServerInv'
<1> SUFFICES ASSUME ServerInv, Tick
             PROVE  ServerInv'
  OBVIOUS
<1> USE DEF Tick
<1>1. InFlight' = InFlight
  BY DEF InFlight
<1>2. clock' \in Nat /\ clock <= clock'
  BY DEF ServerInv, Globals
<1>3. Locals'
  BY <1>1, <1>2 DEF ServerInv, Locals, Globals
<1>4. Globals'
  <2>1. \A d \in Dictionaries : Dictionary(heap[d], clock')
    BY <1>2, OlderDictionary DEF ServerInv, Globals
  <2>2. \A d \in Dictionaries : Dictionary(heap[d], clock)'
    BY <2>1 DEF Dictionary, Dated
  <2> QED
    BY <1>2, <2>2 DEF ServerInv, Globals
<1>5. Within'
  BY DEF ServerInv, Within, Entries, Limit
<1>6. Alone'
  BY <1>1 DEF ServerInv, Alone, Undisturbed, Entries, Bound
<1>7. Answered'
  BY DEF ServerInv, Answered
<1> QED
  BY <1>3, <1>4, <1>5, <1>6, <1>7 DEF ServerInv

LEMMA RefuseHolds == ASSUME ServerInv, NEW r \in Requests, Refuse(r) PROVE ServerInv'
<1>1. /\ pc' \in [Requests -> Pcs] /\ pc'[r] = "answered"
      /\ \A s \in Requests : s # r => pc'[s] = pc[s]
      /\ r \notin InFlight'
      /\ \A s : s # r => (s \in InFlight' <=> s \in InFlight)
  <2>1. pc \in [Requests -> Pcs] /\ "answered" \in Pcs /\ Goto(r, "answered")
    BY DEF ServerInv, Locals, Refuse, Say, Pcs
  <2> QED
    BY <2>1, Moves
<1>2. /\ answer' = [said |-> "refused", at |-> now[r], of |-> 0]
      /\ key' = [key EXCEPT ![r] = Module] /\ now' = [now EXCEPT ![r] = 0]
      /\ UNCHANGED <<clock, cache, heap, size, todo, times, crowded, burst>>
      /\ pc[r] = "idle"
  BY DEF Refuse, Say, Goto
<1>3. InFlight' = InFlight
  BY <1>1, <1>2 DEF InFlight
<1>4. Locals'
  <2>1. key' \in [Requests -> Keys \cup {Module}] /\ \A s \in InFlight' : key'[s] \in Keys
    BY <1>1, <1>2, <1>3 DEF ServerInv, Locals
  <2>2. now' \in [Requests -> Nat] /\ \A s \in Requests : now'[s] <= clock'
    BY <1>2 DEF ServerInv, Locals, Globals
  <2>3. Timed(times', pc')
    BY <1>1, <1>2 DEF ServerInv, Locals, Timed
  <2> QED
    BY <1>1, <1>2, <2>1, <2>2, <2>3 DEF ServerInv, Locals, Timed
<1>5. Globals'
  BY <1>2 DEF ServerInv, Globals, Dictionary, Dated
<1>6. Within'
  <2>1. burst \subseteq Requests /\ cache \in Dictionaries
    BY DEF ServerInv, Globals
  <2> QED
    BY <1>1, <1>2, <2>1 DEF ServerInv, Within, Entries, Limit, Dictionaries
<1>7. Alone'
  <2>1. ASSUME NEW s \in InFlight \ crowded
        PROVE  InFlight' = {s} /\ Undisturbed(s)'
    <3>1. key'[s] = key[s] /\ s # r /\ pc'[s] = pc[s] /\ s \in Requests
      BY <1>1, <1>2, <2>1 DEF InFlight, ServerInv, Locals
    <3> QED
      BY <1>2, <1>3, <2>1, <3>1 DEF ServerInv, Alone, Undisturbed, Entries, Bound
  <2> QED
    BY <1>2, <1>3, <2>1 DEF Alone
<1>8. Answered'
  <2>1. Fresh(answer')
    BY <1>2 DEF ServerInv, Locals, Fresh, Said
  <2> QED
    BY <1>1, <1>2, <2>1 DEF ServerInv, Answered, Fresh
<1> QED
  BY <1>4, <1>5, <1>6, <1>7, <1>8 DEF ServerInv

LEMMA StartHolds ==
    ASSUME ServerInv, NEW r \in Requests, NEW k \in Keys, Start(r, k)
    PROVE  ServerInv'
<1>1. /\ pc' \in [Requests -> Pcs] /\ pc'[r] = "copy"
      /\ \A s \in Requests : s # r => pc'[s] = pc[s]
      /\ r \in InFlight'
      /\ \A s : s # r => (s \in InFlight' <=> s \in InFlight)
  <2>1. /\ pc \in [Requests -> Pcs] /\ "copy" \in Pcs
        /\ pc' = [pc EXCEPT ![r] = "copy"]
    BY DEF ServerInv, Locals, Start, Pcs
  <2>2. /\ pc' \in [Requests -> Pcs] /\ pc'[r] = "copy"
        /\ \A s \in Requests : s # r => pc'[s] = pc[s]
    BY <2>1
  <2> QED
    BY <2>2 DEF InFlight
<1>2. /\ UNCHANGED <<clock, cache, heap, todo, times, answer, burst>>
      /\ key' = [key EXCEPT ![r] = k] /\ now' = [now EXCEPT ![r] = clock]
      /\ size' = [size EXCEPT ![r] = [of |-> cache, len |-> Entries(heap[cache])]]
      /\ crowded' = IF InFlight = {} THEN crowded ELSE crowded \cup InFlight \cup {r}
      /\ pc[r] = "idle" /\ r \notin InFlight
  BY DEF Start, Entries, Bound, InFlight
<1>3. Entries(heap[cache]) \in Nat /\ cache \in Dictionaries
  BY Counts DEF ServerInv, Globals
<1>4. /\ size' \in [Requests -> [of : Dictionaries, len : Nat]]
      /\ size'[r].of = cache /\ size'[r].len = Entries(heap[cache])
      /\ \A s \in Requests : s # r => size'[s] = size[s]
  BY <1>2, <1>3 DEF ServerInv, Locals
<1>5. Locals'
  <2>1. key' \in [Requests -> Keys \cup {Module}] /\ \A s \in InFlight' : key'[s] \in Keys
    BY <1>1, <1>2 DEF ServerInv, Locals
  <2>2. now' \in [Requests -> Nat] /\ \A s \in Requests : now'[s] <= clock'
    BY <1>2 DEF ServerInv, Locals, Globals
  <2>3. Timed(times', pc')
    BY <1>1, <1>2 DEF ServerInv, Locals, Timed
  <2> QED
    BY <1>1, <1>2, <1>4, <2>1, <2>2, <2>3 DEF ServerInv, Locals, Timed
<1>6. Globals'
  BY <1>2 DEF ServerInv, Globals, Dictionary, Dated, InFlight
<1>7. heap' = heap /\ Limit' = Limit
  BY <1>2 DEF Limit
<1>8. Within'
  <2>1. burst \subseteq Requests
    BY DEF ServerInv, Globals
  <2>2. \A s \in Requests : pc'[s] = "copy" => Entries(heap'[size'[s].of]) <= Limit'
    BY <1>1, <1>2, <1>4, <1>7 DEF ServerInv, Within
  <2>3. \A s \in Requests : pc'[s] = "bind" => Entries(heap'[s]) <= Limit'
    BY <1>1, <1>2, <1>7 DEF ServerInv, Within
  <2>4. cache' # Module => pc'[cache'] \notin {"idle", "copy", "bind"}
    <3>1. cache # Module => cache \in Requests /\ pc[cache] \notin {"idle", "copy", "bind"}
      BY <1>3 DEF ServerInv, Within, Dictionaries
    <3>2. cache # Module => cache # r /\ pc'[cache] = pc[cache]
      BY <1>1, <1>2, <3>1
    <3> QED
      BY <1>2, <3>1, <3>2
  <2>5. Entries(heap[cache])' <= Limit'
    BY <1>2, <1>7 DEF ServerInv, Within, Entries
  <2>6. \A s \in burst' : pc'[s] = "answered"
    BY <1>1, <1>2, <2>1 DEF ServerInv, Within
  <2> QED
    BY <2>2, <2>3, <2>4, <2>5, <2>6 DEF Within, Entries
<1>9. Alone'
  <2>1. CASE InFlight = {}
    <3>1. InFlight' = {r}
      BY <1>1, <2>1
    <3>2. Undisturbed(r)'
      <4>1. Entries(heap[cache])' = Entries(heap[cache]) /\ cache' = cache
        BY <1>2 DEF Entries
      <4> QED
        BY <1>1, <1>4, <4>1 DEF Undisturbed
    <3> QED
      BY <3>1, <3>2 DEF Alone
  <2>2. CASE InFlight # {}
    <3>1. InFlight' \subseteq crowded'
      BY <1>1, <1>2, <2>2
    <3> QED
      BY <3>1 DEF Alone
  <2> QED
    BY <2>1, <2>2
<1>10. Answered'
  BY <1>1, <1>2 DEF ServerInv, Answered, Fresh
<1> QED
  BY <1>5, <1>6, <1>8, <1>9, <1>10 DEF ServerInv

\* What a step of a request in flight leaves as it was, whatever it does to the dictionaries.
LEMMA ServingStep ==
    ASSUME ServerInv, NEW r \in InFlight, NEW l \in Pcs, l # "idle", Goto(r, l),
           UNCHANGED <<clock, crowded>>,
           size' = size \/ size' \in [Requests -> [of : Dictionaries, len : Nat]],
           todo' \in [Requests -> SUBSET Keys],
           (times' = times /\ pc[r] # "sort") \/ Timed(times', pc'),
           answer' = answer \/ Fresh(answer'),
           l = "dead" => r \in crowded,
           r \notin crowded /\ Undisturbed(r) /\ l \notin {"answered", "dead"} => Undisturbed(r)'
    PROVE  Locals' /\ Alone' /\ Answered'
<1>0. r \in Requests /\ pc[r] \notin {"idle", "answered", "dead"} /\ pc \in [Requests -> Pcs]
  BY DEF InFlight, ServerInv, Locals
<1>1. /\ pc' \in [Requests -> Pcs] /\ pc'[r] = l
      /\ \A s \in Requests : s # r => pc'[s] = pc[s]
      /\ r \in InFlight' <=> l \notin {"idle", "answered", "dead"}
      /\ \A s : s # r => (s \in InFlight' <=> s \in InFlight)
  BY <1>0, Moves
<1>2. Locals'
  <2>1. /\ key' \in [Requests -> Keys \cup {Module}] /\ now' \in [Requests -> Nat]
        /\ \A s \in Requests : now'[s] <= clock
        /\ \A s \in InFlight' : key'[s] \in Keys
    <3>1. CASE l \in {"answered", "dead"}
      <4>1. key' = [key EXCEPT ![r] = Module] /\ now' = [now EXCEPT ![r] = 0]
        BY <3>1 DEF Goto
      <4> QED
        BY <1>0, <1>1, <3>1, <4>1 DEF ServerInv, Locals, Globals
    <3>2. CASE l \notin {"answered", "dead"}
      <4>1. key' = key /\ now' = now
        BY <3>2 DEF Goto
      <4> QED
        BY <1>0, <1>1, <4>1 DEF ServerInv, Locals
    <3> QED
      BY <3>1, <3>2
  <2>2. Timed(times', pc')
    BY <1>0, <1>1 DEF ServerInv, Locals, Timed
  <2> QED
    BY <1>1, <2>1, <2>2 DEF ServerInv, Locals, Timed
<1>3. Alone'
  <2>1. ASSUME NEW s \in InFlight', s \notin crowded'
        PROVE  InFlight' = {s} /\ Undisturbed(s)'
    <3>1. s \in InFlight \ crowded
      BY <1>1, <2>1
    <3>2. s = r /\ InFlight = {r} /\ r \notin crowded /\ Undisturbed(r)
      BY <3>1, Lone
    <3>3. InFlight' = {r} /\ l \notin {"answered", "dead"}
      BY <1>1, <2>1, <3>2
    <3> QED
      BY <3>2, <3>3
  <2> QED
    BY <2>1 DEF Alone
<1>4. Answered'
  <2>1. Fresh(answer')
    BY DEF ServerInv, Answered
  <2> QED
    BY <1>1, <2>1 DEF ServerInv, Answered, Fresh
<1> QED
  BY <1>2, <1>3, <1>4

\* A step that touches neither the dictionaries nor what the cache is bound to.
LEMMA QuietStep ==
    ASSUME ServerInv, NEW r \in InFlight, NEW l \in Pcs \ {"idle", "copy", "bind"}, Goto(r, l),
           UNCHANGED <<clock, cache, heap, crowded, burst>>,
           \A s \in Requests : s # r => size'[s] = size[s]
    PROVE  Globals' /\ Within'
<1>0. r \in Requests /\ pc[r] \notin {"idle", "answered", "dead"} /\ pc \in [Requests -> Pcs]
  BY DEF InFlight, ServerInv, Locals
<1>1. /\ pc'[r] = l
      /\ \A s \in Requests : s # r => pc'[s] = pc[s]
  BY <1>0, Moves
<1>2. Globals'
  BY DEF ServerInv, Globals, Dictionary, Dated
<1>3. Limit' = Limit /\ burst \subseteq Requests /\ cache \in Dictionaries
  BY DEF Limit, ServerInv, Globals
<1>4. Within'
  BY <1>0, <1>1, <1>3 DEF ServerInv, Within, Dictionaries
<1> QED
  BY <1>2, <1>4

LEMMA MeasureHolds == ASSUME ServerInv, NEW r \in Requests, Measure(r) PROVE ServerInv'
<1>1. /\ r \in InFlight /\ pc[r] = "measure"
      /\ UNCHANGED <<clock, cache, heap, size, todo, times, answer, crowded, burst>>
  BY DEF Measure, InFlight
<1>2. Entries(heap[cache]) = Cardinality(DOMAIN Bound)
      /\ Entries(heap[cache]) \in Nat /\ MAX_CACHE_SIZE \in Nat
  BY Counts DEF ServerInv, Globals
<1>3. todo \in [Requests -> SUBSET Keys] /\ pc \in [Requests -> Pcs]
  BY DEF ServerInv, Locals
<1>4. PICK l \in {"list", "check"} :
          l = (IF Entries(heap[cache]) >= MAX_CACHE_SIZE THEN "list" ELSE "check")
  OBVIOUS
<1>5. Goto(r, l) /\ l \in Pcs \ {"idle", "copy", "bind"}
  BY <1>2, <1>4 DEF Measure, Pcs
<1>6. pc'[r] = l
  BY <1>3, <1>5 DEF Goto
<1>7. Undisturbed(r)'
  BY <1>1, <1>2, <1>4, <1>6 DEF Undisturbed
<1>8. Locals' /\ Alone' /\ Answered'
  BY <1>1, <1>3, <1>5, <1>7, ServingStep
<1>9. Globals' /\ Within'
  BY <1>1, <1>5, QuietStep
<1> QED
  BY <1>8, <1>9 DEF ServerInv

LEMMA ListHolds == ASSUME ServerInv, NEW r \in Requests, List(r) PROVE ServerInv'
<1>1. /\ r \in InFlight /\ pc[r] = "list" /\ Goto(r, "sort")
      /\ todo' = [todo EXCEPT ![r] = DOMAIN Bound]
      /\ UNCHANGED <<clock, cache, heap, size, times, answer, crowded, burst>>
  BY DEF List, InFlight
<1>2. DOMAIN Bound \subseteq Keys
  BY Counts DEF ServerInv, Globals, Dictionary
<1>3. todo \in [Requests -> SUBSET Keys] /\ pc \in [Requests -> Pcs]
  BY DEF ServerInv, Locals
<1>4. todo' \in [Requests -> SUBSET Keys] /\ todo'[r] = DOMAIN Bound /\ pc'[r] = "sort"
  BY <1>1, <1>2, <1>3 DEF Goto
<1>5. DOMAIN times'[r] = {} /\ Bound' = Bound /\ Entries(heap[cache])' = Entries(heap[cache])
  BY <1>1 DEF ServerInv, Locals, Timed, Bound, Entries
<1>6. Undisturbed(r) => Undisturbed(r)'
  BY <1>1, <1>4, <1>5 DEF Undisturbed
<1>7. Locals' /\ Alone' /\ Answered'
  BY <1>1, <1>4, <1>6, ServingStep DEF Pcs
<1>8. Globals' /\ Within'
  BY <1>1, QuietStep DEF Pcs
<1> QED
  BY <1>7, <1>8 DEF ServerInv

\* Min and Max of two numbers are those two numbers' smaller and larger.
LEMMA OfTwo ==
    ASSUME NEW a \in Int, NEW b \in Int
    PROVE  /\ a <= b => Min({a, b}) = a
           /\ b <= a => Min({a, b}) = b
           /\ Max({a, b}) \in Int
<1>1. a <= b => Min({a, b}) = a
  BY DEF Min
<1>2. b <= a => Min({a, b}) = b
  BY DEF Min
<1>3. \E x \in {a, b} : \A y \in {a, b} : x >= y
  OBVIOUS
<1>4. Max({a, b}) \in {a, b}
  BY <1>3 DEF Max
<1> QED
  BY <1>1, <1>2, <1>4

\* Alone, it marks as many keys as make room for one.
LEMMA MarksEnough ==
    ASSUME NEW S, IsFiniteSet(S), NEW n \in Nat, n = Cardinality(S), n >= MAX_CACHE_SIZE,
           NEW oldest \in kSubset(Taken(n - MAX_CACHE_SIZE + 1, n), S)
    PROVE  oldest \subseteq S /\ n - Cardinality(oldest) <= MAX_CACHE_SIZE - 1
<1>1. MAX_CACHE_SIZE \in Nat \ {0}
  BY ServerAssumption
<1>2. n - MAX_CACHE_SIZE + 1 \in Int /\ n - MAX_CACHE_SIZE + 1 >= 0 /\ n - MAX_CACHE_SIZE + 1 <= n
  BY <1>1
<1>3. Taken(n - MAX_CACHE_SIZE + 1, n) = n - MAX_CACHE_SIZE + 1
  BY <1>2, OfTwo DEF Taken
<1>4. oldest \subseteq S /\ Cardinality(oldest) = n - MAX_CACHE_SIZE + 1
  BY <1>3 DEF kSubset
<1> QED
  BY <1>1, <1>4

LEMMA SortHolds ==
    ASSUME ServerInv, NEW r \in Requests, NEW k \in Keys, Sort(r, k)
    PROVE  ServerInv'
<1>1. /\ r \in InFlight /\ pc[r] = "sort" /\ k \in todo[r]
      /\ UNCHANGED <<clock, cache, heap, size, answer, crowded, burst>>
  BY DEF Sort, InFlight
<1>2. todo \in [Requests -> SUBSET Keys] /\ pc \in [Requests -> Pcs] /\ Timed(times, pc)
  BY DEF ServerInv, Locals
<1>3. r \notin crowded => Undisturbed(r)
  BY <1>1, Lone
<1>4. CASE k \notin DOMAIN Bound
  <2>1. /\ Goto(r, "dead") /\ todo' = [todo EXCEPT ![r] = {}]
        /\ times' = [times EXCEPT ![r] = << >>]
    BY <1>4 DEF Sort, Dies
  <2>2. r \in crowded
    BY <1>1, <1>3, <1>4 DEF Undisturbed
  <2>3. todo' \in [Requests -> SUBSET Keys]
    BY <1>2, <2>1
  <2>4. Timed(times', pc')
    <3>1. DOMAIN << >> = {}
      OBVIOUS
    <3> QED
      BY <1>2, <2>1, <3>1 DEF Timed, Goto
  <2>5. Locals' /\ Alone' /\ Answered'
    BY <1>1, <2>1, <2>2, <2>3, <2>4, ServingStep DEF Pcs
  <2>6. Globals' /\ Within'
    BY <1>1, <2>1, QuietStep DEF Pcs
  <2> QED
    BY <2>5, <2>6 DEF ServerInv
<1>5. CASE k \in DOMAIN Bound
  <2>1. /\ todo' = [todo EXCEPT ![r] = @ \ {k}]
        /\ times' = [times EXCEPT ![r] = With(@, k, Bound[k].time)]
        /\ UNCHANGED <<pc, key, now>>
    BY <1>5 DEF Sort
  <2>2. Goto(r, "sort")
    BY <1>1, <1>2, <2>1 DEF Goto
  <2>3. todo' \in [Requests -> SUBSET Keys] /\ todo'[r] = todo[r] \ {k}
    BY <1>2, <2>1
  <2>4. /\ DOMAIN times' = Requests /\ DOMAIN times'[r] = DOMAIN times[r] \cup {k}
        /\ \A s \in Requests : s # r => times'[s] = times[s]
    BY <1>2, <2>1 DEF Timed, With
  <2>5. Timed(times', pc')
    BY <1>1, <1>2, <2>1, <2>4 DEF Timed
  <2>6. Undisturbed(r) => Undisturbed(r)'
    <3>1. todo'[r] \cup DOMAIN times'[r] = todo[r] \cup DOMAIN times[r]
      BY <1>1, <2>3, <2>4
    <3>2. Bound' = Bound /\ Entries(heap[cache])' = Entries(heap[cache]) /\ pc'[r] = "sort"
      BY <1>1, <2>1 DEF Bound, Entries
    <3> QED
      BY <1>1, <3>1, <3>2 DEF Undisturbed
  <2>7. Locals' /\ Alone' /\ Answered'
    BY <1>1, <2>2, <2>3, <2>5, <2>6, ServingStep DEF Pcs
  <2>8. Globals' /\ Within'
    BY <1>1, <2>2, QuietStep DEF Pcs
  <2> QED
    BY <2>7, <2>8 DEF ServerInv
<1> QED
  BY <1>4, <1>5

LEMMA SliceHolds == ASSUME ServerInv, NEW r \in Requests, Slice(r) PROVE ServerInv'
<1>1. /\ r \in InFlight /\ pc[r] = "sort" /\ todo[r] = {} /\ Goto(r, "evict")
      /\ times' = [times EXCEPT ![r] = << >>]
      /\ UNCHANGED <<clock, cache, heap, size, answer, crowded, burst>>
  BY DEF Slice, InFlight
<1>2. PICK keys : keys = DOMAIN times[r]
  OBVIOUS
<1>3. PICK oldest \in kSubset(Taken(excess, Cardinality(keys)), keys) :
          todo' = [todo EXCEPT ![r] = oldest]
  BY <1>2 DEF Slice
<1>4. todo \in [Requests -> SUBSET Keys] /\ pc \in [Requests -> Pcs] /\ Timed(times, pc)
  BY DEF ServerInv, Locals
<1>5. oldest \subseteq keys /\ keys \subseteq Keys
  BY <1>2, <1>4 DEF kSubset, Timed
<1>6. todo' \in [Requests -> SUBSET Keys] /\ todo'[r] = oldest /\ pc'[r] = "evict"
  BY <1>1, <1>3, <1>4, <1>5 DEF Goto
<1>7. Timed(times', pc')
  <2>1. DOMAIN << >> = {}
    OBVIOUS
  <2> QED
    BY <1>1, <1>4, <2>1 DEF Timed, Goto
<1>8. ASSUME Undisturbed(r)
      PROVE  Undisturbed(r)'
  <2>1. keys = DOMAIN Bound /\ MAX_CACHE_SIZE <= Entries(heap[cache])
    BY <1>1, <1>2, <1>8 DEF Undisturbed
  <2>2. /\ IsFiniteSet(DOMAIN Bound) /\ Entries(heap[cache]) = Cardinality(DOMAIN Bound)
        /\ Entries(heap[cache]) \in Nat
    BY Counts DEF ServerInv, Globals
  <2>3. excess = Entries(heap[cache]) - MAX_CACHE_SIZE + 1
    BY <2>2 DEF excess
  <2>4. oldest \subseteq DOMAIN Bound
        /\ Entries(heap[cache]) - Cardinality(oldest) <= MAX_CACHE_SIZE - 1
    BY <2>1, <2>2, <2>3, ServerAssumption, MarksEnough
  <2>5. Bound' = Bound /\ Entries(heap[cache])' = Entries(heap[cache])
    BY <1>1 DEF Bound, Entries
  <2> QED
    BY <1>6, <2>4, <2>5 DEF Undisturbed
<1>9. Locals' /\ Alone' /\ Answered'
  BY <1>1, <1>6, <1>7, <1>8, ServingStep DEF Pcs
<1>10. Globals' /\ Within'
  BY <1>1, QuietStep DEF Pcs
<1> QED
  BY <1>9, <1>10 DEF ServerInv

LEMMA EvictedHolds == ASSUME ServerInv, NEW r \in Requests, Evicted(r) PROVE ServerInv'
<1>1. /\ r \in InFlight /\ pc[r] = "evict" /\ todo[r] = {} /\ Goto(r, "check")
      /\ UNCHANGED <<clock, cache, heap, size, todo, times, answer, crowded, burst>>
  BY DEF Evicted, InFlight
<1>2. todo \in [Requests -> SUBSET Keys] /\ pc \in [Requests -> Pcs]
  BY DEF ServerInv, Locals
<1>3. Undisturbed(r) => Undisturbed(r)'
  <2>1. pc'[r] = "check"
    BY <1>1, <1>2 DEF Goto
  <2>2. Entries(heap[cache]) \in Nat /\ MAX_CACHE_SIZE \in Nat /\ Cardinality({}) = 0
    BY Counts, FS_EmptySet DEF ServerInv, Globals
  <2>3. Undisturbed(r) => Entries(heap[cache]) <= MAX_CACHE_SIZE - 1
    BY <1>1, <2>2 DEF Undisturbed
  <2> QED
    BY <1>1, <2>1, <2>3 DEF Undisturbed
<1>4. Locals' /\ Alone' /\ Answered'
  BY <1>1, <1>2, <1>3, ServingStep DEF Pcs
<1>5. Globals' /\ Within'
  BY <1>1, QuietStep DEF Pcs
<1> QED
  BY <1>4, <1>5 DEF ServerInv

LEMMA CheckHolds == ASSUME ServerInv, NEW r \in Requests, Check(r) PROVE ServerInv'
<1>1. /\ r \in InFlight /\ pc[r] = "check"
      /\ UNCHANGED <<clock, cache, heap, size, todo, times, answer, crowded>>
      /\ burst' = IF r \in crowded THEN burst ELSE {}
  BY DEF Check, InFlight
<1>2. todo \in [Requests -> SUBSET Keys] /\ pc \in [Requests -> Pcs]
  BY DEF ServerInv, Locals
<1>3. PICK l \in {"lookup", "scan"} :
          l = (IF key[r] \in DOMAIN Bound THEN "lookup" ELSE "scan")
  OBVIOUS
<1>4. Goto(r, l)
  BY <1>3 DEF Check
<1>5. /\ pc'[r] = l /\ l \in Pcs \ {"idle", "copy", "bind"} /\ l \notin {"answered", "dead"}
      /\ key' = key
  BY <1>2, <1>4 DEF Goto, Pcs
<1>6. Undisturbed(r) => Undisturbed(r)'
  BY <1>1, <1>3, <1>5 DEF Undisturbed, Bound
<1>7. Locals' /\ Alone' /\ Answered'
  BY <1>1, <1>2, <1>4, <1>5, <1>6, ServingStep
<1>8. CASE r \in crowded
  <2>1. Globals' /\ Within'
    BY <1>1, <1>4, <1>5, <1>8, QuietStep
  <2> QED
    BY <1>7, <2>1 DEF ServerInv
<1>9. CASE r \notin crowded
  <2>1. InFlight = {r} /\ Undisturbed(r)
    BY <1>1, <1>9, Lone
  <2>2. Entries(heap[cache]) <= MAX_CACHE_SIZE - 1
    BY <1>1, <2>1 DEF Undisturbed
  <2>3. Globals'
    BY <1>1, <1>9, FS_EmptySet DEF ServerInv, Globals, Dictionary, Dated
  <2>4. Limit' = MAX_CACHE_SIZE
    BY <1>1, <1>9, FS_EmptySet, ServerAssumption DEF Limit
  <2>5. Entries(heap[cache])' <= Limit'
    BY <1>1, <2>2, <2>4, Counts, ServerAssumption DEF ServerInv, Globals
  <2>6. \A s \in Requests : pc'[s] \notin {"copy", "bind"}
    BY <1>2, <1>4, <1>5, <2>1 DEF Goto, InFlight
  <2>7. cache' # Module => pc'[cache'] \notin {"idle", "copy", "bind"}
    <3>1. cache # Module => cache \in Requests /\ pc[cache] \notin {"idle", "copy", "bind"}
      BY DEF ServerInv, Globals, Within, Dictionaries
    <3> QED
      BY <1>1, <1>2, <1>4, <1>5, <3>1 DEF Goto
  <2>8. Within'
    BY <1>1, <1>9, <2>5, <2>6, <2>7 DEF Within
  <2> QED
    BY <1>7, <2>3, <2>8 DEF ServerInv
<1> QED
  BY <1>8, <1>9

LEMMA LookupHolds == ASSUME ServerInv, NEW r \in Requests, Lookup(r) PROVE ServerInv'
<1>1. /\ r \in InFlight /\ pc[r] = "lookup"
      /\ UNCHANGED <<clock, cache, heap, size, todo, times, crowded, burst>>
  BY DEF Lookup, InFlight
<1>2. todo \in [Requests -> SUBSET Keys] /\ pc \in [Requests -> Pcs]
  BY DEF ServerInv, Locals
<1>3. Dictionary(Bound, clock)
  BY DEF ServerInv, Globals, Bound
<1>4. CASE key[r] \notin DOMAIN Bound
  <2>1. Goto(r, "dead") /\ answer' = answer
    BY <1>4 DEF Lookup, Dies
  <2>2. r \in crowded
    BY <1>1, <1>4, Lone DEF Undisturbed
  <2>3. Locals' /\ Alone' /\ Answered'
    BY <1>1, <1>2, <2>1, <2>2, ServingStep DEF Pcs
  <2>4. Globals' /\ Within'
    BY <1>1, <2>1, QuietStep DEF Pcs
  <2> QED
    BY <2>3, <2>4 DEF ServerInv
<1>5. CASE key[r] \in DOMAIN Bound /\ live(r, Bound[key[r]].time)
  <2>1. PICK e : e = Bound[key[r]]
    OBVIOUS
  <2>2. /\ Goto(r, "answered")
        /\ answer' = [said |-> "cached", at |-> now[r], of |-> e.began]
    BY <1>5, <2>1 DEF Lookup, Say
  <2>3. e.time \in Nat /\ e.began \in Nat /\ e.time <= e.began /\ now[r] - e.time < CACHE_TTL
    BY <1>3, <1>5, <2>1 DEF Dictionary, Dated, live
  <2>4. now[r] \in Nat /\ CACHE_TTL \in Nat
    BY ServerAssumption DEF ServerInv, Locals
  <2>5. Fresh(answer')
    BY <2>2, <2>3, <2>4 DEF Fresh, Said
  <2>6. Locals' /\ Alone' /\ Answered'
    BY <1>1, <1>2, <2>2, <2>5, ServingStep DEF Pcs
  <2>7. Globals' /\ Within'
    BY <1>1, <2>2, QuietStep DEF Pcs
  <2> QED
    BY <2>6, <2>7 DEF ServerInv
<1>6. CASE key[r] \in DOMAIN Bound /\ ~ live(r, Bound[key[r]].time)
  <2>1. Goto(r, "scan") /\ answer' = answer
    BY <1>6 DEF Lookup, on_expired
  <2>2. Undisturbed(r) => Undisturbed(r)'
    BY <1>1, <1>2, <2>1 DEF Undisturbed, Goto
  <2>3. Locals' /\ Alone' /\ Answered'
    BY <1>1, <1>2, <2>1, <2>2, ServingStep DEF Pcs
  <2>4. Globals' /\ Within'
    BY <1>1, <2>1, QuietStep DEF Pcs
  <2> QED
    BY <2>3, <2>4 DEF ServerInv
<1> QED
  BY <1>4, <1>5, <1>6

LEMMA ScanFailsHolds == ASSUME ServerInv, NEW r \in Requests, ScanFails(r) PROVE ServerInv'
<1>1. /\ r \in InFlight /\ pc[r] = "scan" /\ Goto(r, "answered")
      /\ answer' = [said |-> "error", at |-> now[r], of |-> 0]
      /\ UNCHANGED <<clock, cache, heap, size, todo, times, crowded, burst>>
  BY DEF ScanFails, Say, InFlight
<1>2. todo \in [Requests -> SUBSET Keys] /\ now[r] \in Nat
  BY DEF ServerInv, Locals
<1>3. Fresh(answer')
  BY <1>1, <1>2 DEF Fresh, Said
<1>4. Locals' /\ Alone' /\ Answered'
  BY <1>1, <1>2, <1>3, ServingStep DEF Pcs
<1>5. Globals' /\ Within'
  BY <1>1, QuietStep DEF Pcs
<1> QED
  BY <1>4, <1>5 DEF ServerInv

LEMMA CopyHolds == ASSUME ServerInv, NEW r \in Requests, Copy(r) PROVE ServerInv'
<1>1. /\ r \in InFlight /\ pc[r] = "copy" /\ size' = [size EXCEPT ![r] = NoLoop]
      /\ UNCHANGED <<clock, cache, todo, times, answer, crowded, burst>>
  BY DEF Copy, InFlight
<1>2. /\ todo \in [Requests -> SUBSET Keys] /\ pc \in [Requests -> Pcs]
      /\ size[r].of \in Dictionaries /\ size' \in [Requests -> [of : Dictionaries, len : Nat]]
      /\ \A s \in Requests : s # r => size'[s] = size[s]
  BY <1>1 DEF ServerInv, Locals, NoLoop, Dictionaries
<1>3. CASE resized(r)
  <2>1. Goto(r, "dead") /\ heap' = heap
    BY <1>3 DEF Copy, Dies
  <2>2. r \in crowded
    <3>1. Undisturbed(r) => size[r].of = cache /\ size[r].len = Entries(heap[cache])
      BY <1>1 DEF Undisturbed
    <3> QED
      BY <1>1, <1>3, <3>1, Lone DEF resized, Entries
  <2>3. Locals' /\ Alone' /\ Answered'
    BY <1>1, <1>2, <2>1, <2>2, ServingStep DEF Pcs
  <2>4. Globals' /\ Within'
    BY <1>1, <1>2, <2>1, QuietStep DEF Pcs
  <2> QED
    BY <2>3, <2>4 DEF ServerInv
<1>4. CASE ~ resized(r)
  <2> DEFINE old == heap[size[r].of]
             new == [k \in unexpired(r) |-> old[k]]
  <2>1. Goto(r, "bind") /\ heap' = [heap EXCEPT ![r] = new]
    BY <1>4 DEF Copy
  <2>2. pc'[r] = "bind" /\ \A s \in Requests : s # r => pc'[s] = pc[s]
    BY <1>2, <2>1 DEF Goto
  <2>3. Undisturbed(r)'
    BY <2>2 DEF Undisturbed
  <2>4. Locals' /\ Alone' /\ Answered'
    BY <1>1, <1>2, <2>1, <2>3, ServingStep DEF Pcs
  <2>5. /\ DOMAIN heap = Dictionaries /\ r \in Dictionaries /\ clock \in Nat
        /\ \A d \in Dictionaries : Dictionary(heap[d], clock)
    BY DEF ServerInv, Globals, Dictionaries
  <2>6. Dictionary(old, clock) /\ unexpired(r) \subseteq DOMAIN old
    BY <1>2, <2>5 DEF unexpired
  <2>7. Dictionary(new, clock) /\ Entries(new) <= Entries(old)
    BY <2>5, <2>6, SmallerDictionary DEF Entries
  <2>8. DOMAIN heap' = Dictionaries /\ heap'[r] = new
        /\ \A d \in Dictionaries : d # r => heap'[d] = heap[d]
    BY <2>1, <2>5
  <2>9. Globals'
    <3>1. \A d \in Dictionaries : Dictionary(heap'[d], clock)
      BY <2>5, <2>7, <2>8
    <3>2. \A d \in Dictionaries : Dictionary(heap[d], clock)'
      BY <1>1, <3>1 DEF Dictionary, Dated
    <3> QED
      BY <1>1, <2>8, <3>2 DEF ServerInv, Globals
  <2>10. Within'
    <3>0. Limit' = Limit /\ Limit \in Int /\ Entries(old) \in Nat /\ Entries(new) \in Nat
      <4>1. Cardinality(burst) \in Nat /\ MAX_CACHE_SIZE \in Nat
        BY Counts DEF ServerInv
      <4>2. Entries(old) \in Nat /\ Entries(new) \in Nat
        BY <2>6, <2>7, FS_CardinalityType DEF Dictionary, Entries
      <4> QED
        BY <1>1, <4>1, <4>2 DEF Limit
    <3>1. Entries(old) <= Limit
      BY <1>1 DEF ServerInv, Within
    <3>2. Entries(new) <= Limit
      BY <2>7, <3>0, <3>1
    <3>3. cache # r /\ cache \in Dictionaries
      BY <1>1, ServerAssumption DEF ServerInv, Globals, Within
    <3>4. cache' # Module => pc'[cache'] \notin {"idle", "copy", "bind"}
      BY <1>1, <2>2, <3>3 DEF ServerInv, Within, Dictionaries
    <3>5. Entries(heap[cache])' <= Limit'
      BY <1>1, <2>8, <3>0, <3>3 DEF ServerInv, Within
    <3>6. \A s \in Requests : pc'[s] = "bind" => Entries(heap'[s]) <= Limit'
      BY <2>2, <2>8, <3>0, <3>2 DEF ServerInv, Within, Dictionaries
    <3>7. \A s \in Requests : pc'[s] = "copy" => Entries(heap'[size'[s].of]) <= Limit'
      <4>1. ASSUME NEW s \in Requests, pc'[s] = "copy"
            PROVE  Entries(heap'[size'[s].of]) <= Limit
        <5>1. /\ s # r /\ pc[s] = "copy" /\ size[s].of \in Dictionaries
              /\ size'[s] = size[s]
          BY <1>2, <2>2, <4>1 DEF ServerInv, Locals
        <5>2. Entries(heap[size[s].of]) <= Limit
          BY <5>1 DEF ServerInv, Within
        <5> QED
          BY <2>8, <3>2, <5>1, <5>2
      <4> QED
        BY <1>1, <3>0, <4>1
    <3>8. \A s \in burst' : pc'[s] = "answered"
      BY <1>1, <2>2 DEF ServerInv, Within, Globals
    <3> QED
      BY <3>4, <3>5, <3>6, <3>7, <3>8 DEF Within
  <2> QED
    BY <2>4, <2>9, <2>10 DEF ServerInv
<1> QED
  BY <1>3, <1>4

LEMMA BindHolds == ASSUME ServerInv, NEW r \in Requests, Bind(r) PROVE ServerInv'
<1>1. /\ r \in InFlight /\ pc[r] = "bind" /\ Goto(r, "measure") /\ cache' = r
      /\ UNCHANGED <<clock, heap, size, todo, times, answer, crowded, burst>>
  BY DEF Bind, InFlight
<1>2. todo \in [Requests -> SUBSET Keys] /\ pc \in [Requests -> Pcs]
  BY DEF ServerInv, Locals
<1>3. pc'[r] = "measure" /\ \A s \in Requests : s # r => pc'[s] = pc[s]
  BY <1>1, <1>2 DEF Goto
<1>4. Locals' /\ Alone' /\ Answered'
  <2>1. Undisturbed(r)'
    BY <1>3 DEF Undisturbed
  <2> QED
    BY <1>1, <1>2, <2>1, ServingStep DEF Pcs
<1>5. Globals'
  BY <1>1 DEF ServerInv, Globals, Dictionary, Dated, Dictionaries
<1>6. Within'
  <2>1. Limit' = Limit /\ burst \subseteq Requests
    BY <1>1 DEF Limit, ServerInv, Globals
  <2> QED
    BY <1>1, <1>3, <2>1 DEF ServerInv, Within
<1> QED
  BY <1>4, <1>5, <1>6 DEF ServerInv

\* A step that changes one dictionary by at most what it adds to the limit.
LEMMA ChangedDictionary ==
    ASSUME ServerInv, NEW r \in InFlight, NEW l \in Pcs \ {"idle", "copy", "bind"}, Goto(r, l),
           UNCHANGED <<clock, cache, size, crowded>>,
           NEW f, heap' = [heap EXCEPT ![cache] = f], Dictionary(f, clock),
           burst' \in SUBSET crowded, IsFiniteSet(burst'), \A s \in burst' : pc'[s] = "answered",
           Entries(f) <= Limit',
           \/ Limit <= Limit'
           \/ InFlight = {r}
    PROVE  Globals' /\ Within'
<1>0. r \in Requests /\ pc[r] \notin {"idle", "answered", "dead"} /\ pc \in [Requests -> Pcs]
  BY DEF InFlight, ServerInv, Locals
<1>1. pc'[r] = l /\ \A s \in Requests : s # r => pc'[s] = pc[s]
  BY <1>0, Moves
<1>2. /\ DOMAIN heap = Dictionaries /\ cache \in Dictionaries /\ clock \in Nat
      /\ \A d \in Dictionaries : Dictionary(heap[d], clock)
      /\ crowded \in SUBSET Requests
  BY DEF ServerInv, Globals
<1>3. DOMAIN heap' = Dictionaries /\ heap'[cache] = f
      /\ \A d \in Dictionaries : d # cache => heap'[d] = heap[d]
  BY <1>2
<1>4. Globals'
  <2>1. \A d \in Dictionaries : Dictionary(heap'[d], clock)
    BY <1>2, <1>3
  <2>2. \A d \in Dictionaries : Dictionary(heap[d], clock)'
    BY <2>1 DEF Dictionary, Dated
  <2> QED
    BY <1>2, <1>3, <2>2 DEF Globals
<1>5. Limit \in Int /\ Limit' \in Int /\ \A d \in Dictionaries : Entries(heap[d]) \in Nat
  <2>1. Cardinality(burst) \in Nat /\ Cardinality(burst') \in Nat /\ MAX_CACHE_SIZE \in Nat
    BY Counts, FS_CardinalityType DEF ServerInv
  <2> QED
    BY <2>1, Counts DEF Limit, ServerInv
<1>6. \A d \in Dictionaries : Entries(heap[d]) <= Limit /\ Limit <= Limit' => Entries(heap'[d]) <= Limit'
  BY <1>3, <1>5
<1>7. ASSUME NEW s \in Requests, pc'[s] \in {"copy", "bind"}
      PROVE  s \in InFlight /\ pc'[s] = pc[s] /\ Limit <= Limit'
  BY <1>0, <1>1, <1>7 DEF InFlight
<1>8. \A s \in Requests : pc'[s] = "bind" => Entries(heap'[s]) <= Limit'
  BY <1>6, <1>7 DEF ServerInv, Within, Dictionaries
<1>9. \A s \in Requests : pc'[s] = "copy" => Entries(heap'[size'[s].of]) <= Limit'
  <2>1. \A s \in Requests : size[s].of \in Dictionaries
    BY DEF ServerInv, Locals
  <2> QED
    BY <1>6, <1>7, <2>1 DEF ServerInv, Within
<1>10. cache' # Module => pc'[cache'] \notin {"idle", "copy", "bind"}
  BY <1>1, <1>2 DEF ServerInv, Within, Dictionaries
<1>11. Entries(heap[cache])' <= Limit'
  BY <1>3
<1>12. Within'
  BY <1>8, <1>9, <1>10, <1>11 DEF Within
<1> QED
  BY <1>4, <1>12

LEMMA EvictHolds ==
    ASSUME ServerInv, NEW r \in Requests, NEW k \in Keys, Evict(r, k)
    PROVE  ServerInv'
<1>1. /\ r \in InFlight /\ pc[r] = "evict" /\ k \in todo[r]
      /\ UNCHANGED <<clock, cache, size, times, answer, crowded, burst>>
  BY DEF Evict, InFlight
<1>2. todo \in [Requests -> SUBSET Keys] /\ pc \in [Requests -> Pcs]
  BY DEF ServerInv, Locals
<1>4. Undisturbed(r) => /\ todo[r] \subseteq DOMAIN Bound
                        /\ Entries(heap[cache]) - Cardinality(todo[r]) <= MAX_CACHE_SIZE - 1
  BY <1>1 DEF Undisturbed
<1>5. CASE k \notin DOMAIN Bound
  <2>1. Goto(r, "dead") /\ heap' = heap /\ todo' = [todo EXCEPT ![r] = {}]
    BY <1>5 DEF Evict, Dies
  <2>2. r \in crowded
    BY <1>1, <1>4, <1>5, Lone
  <2>3. todo' \in [Requests -> SUBSET Keys]
    BY <1>2, <2>1
  <2>4. Locals' /\ Alone' /\ Answered'
    BY <1>1, <2>1, <2>2, <2>3, ServingStep DEF Pcs
  <2>5. Globals' /\ Within'
    BY <1>1, <2>1, QuietStep DEF Pcs
  <2> QED
    BY <2>4, <2>5 DEF ServerInv
<1>6. CASE k \in DOMAIN Bound
  <2> DEFINE fewer == [l \in DOMAIN Bound \ {k} |-> Bound[l]]
  <2>0. /\ heap' = [heap EXCEPT ![cache] = fewer] /\ UNCHANGED <<pc, key, now>>
        /\ todo' = [todo EXCEPT ![r] = @ \ {k}]
    BY <1>6 DEF Evict, Bound
  <2>1. /\ heap' = [heap EXCEPT ![cache] = fewer] /\ UNCHANGED <<pc, key, now>>
        /\ todo' \in [Requests -> SUBSET Keys] /\ todo'[r] = todo[r] \ {k}
    BY <1>2, <2>0
  <2>2. Goto(r, "evict")
    BY <1>1, <1>2, <2>1 DEF Goto
  <2>3. /\ DOMAIN heap = Dictionaries /\ cache \in Dictionaries /\ clock \in Nat
        /\ Dictionary(Bound, clock) /\ IsFiniteSet(DOMAIN Bound)
        /\ burst \in SUBSET crowded /\ IsFiniteSet(burst)
    BY DEF ServerInv, Globals, Bound, Dictionary
  <2>4. Dictionary(fewer, clock) /\ Entries(fewer) <= Entries(Bound)
    BY <2>3, SmallerDictionary DEF Entries
  <2>5. Bound' = fewer
    BY <1>1, <2>1, <2>3 DEF Bound
  <2>6. DOMAIN fewer = DOMAIN Bound \ {k}
    OBVIOUS
  <2>7. Entries(fewer) = Entries(Bound) - 1 /\ Entries(Bound) \in Nat
    BY <1>6, <2>3, <2>6, FS_RemoveElement, FS_CardinalityType DEF Entries
  <2>8. Undisturbed(r) => Undisturbed(r)'
    <3>1. ASSUME Undisturbed(r)
          PROVE  Entries(fewer) - Cardinality(todo[r] \ {k}) <= MAX_CACHE_SIZE - 1
      <4>1. IsFiniteSet(todo[r]) /\ Cardinality(todo[r]) \in Nat
        BY <1>4, <2>3, <3>1, FS_Subset, FS_CardinalityType
      <4>2. Cardinality(todo[r] \ {k}) = Cardinality(todo[r]) - 1
        BY <1>1, <4>1, FS_RemoveElement
      <4> QED
        BY <1>4, <2>7, <3>1, <4>1, <4>2, ServerAssumption DEF Bound
    <3>2. Undisturbed(r) => todo[r] \ {k} \subseteq DOMAIN fewer
      BY <1>4, <2>6
    <3>3. heap'[cache'] = fewer /\ pc'[r] = "evict"
      BY <1>1, <2>1, <2>5 DEF Bound
    <3> HIDE DEF fewer
    <3> QED
      BY <2>1, <2>5, <3>1, <3>2, <3>3 DEF Undisturbed
  <2>9. Locals' /\ Alone' /\ Answered'
    BY <1>1, <2>1, <2>2, <2>8, ServingStep DEF Pcs
  <2>10. Globals' /\ Within'
    <3>1. Limit' = Limit /\ Limit \in Int /\ Entries(Bound) <= Limit /\ Entries(fewer) \in Int
      BY <1>1, <2>7, Counts DEF ServerInv, Limit, Within, Bound
    <3>2. Entries(fewer) <= Limit' /\ Limit <= Limit'
      BY <2>7, <3>1
    <3>3. \A s \in burst' : pc'[s] = "answered"
      BY <1>1, <2>1 DEF ServerInv, Within
    <3> HIDE DEF fewer
    <3> QED
      BY <1>1, <2>1, <2>2, <2>3, <2>4, <3>2, <3>3, ChangedDictionary DEF Pcs
  <2> QED
    BY <2>9, <2>10 DEF ServerInv
<1> QED
  BY <1>5, <1>6

LEMMA InsertHolds == ASSUME ServerInv, NEW r \in Requests, Insert(r) PROVE ServerInv'
<1> DEFINE k == key[r]
           more == With(Bound, k, [time |-> now[r], began |-> now[r]])
<1>1. /\ r \in InFlight /\ pc[r] = "scan" /\ Goto(r, "answered")
      /\ answer' = [said |-> "result", at |-> now[r], of |-> now[r]]
      /\ heap' = [heap EXCEPT ![cache] = more] /\ burst' = burst \cup ({r} \cap crowded)
      /\ UNCHANGED <<clock, cache, size, todo, times, crowded>>
  BY DEF Insert, InFlight, Say, Bound, cached_time
<1>2. /\ todo \in [Requests -> SUBSET Keys]
      /\ pc \in [Requests -> Pcs]
      /\ k \in Keys /\ now[r] \in Nat /\ now[r] <= clock
  BY <1>1 DEF ServerInv, Locals
<1>3. Locals' /\ Alone' /\ Answered'
  <2>1. Fresh(answer')
    BY <1>1, <1>2 DEF Fresh, Said
  <2> QED
    BY <1>1, <1>2, <2>1, ServingStep DEF Pcs
<1>4. /\ Dictionary(Bound, clock) /\ clock \in Nat /\ burst \in SUBSET crowded /\ IsFiniteSet(burst)
      /\ crowded \subseteq Requests
  BY DEF ServerInv, Globals, Bound
<1>5. /\ Dictionary(more, clock) /\ Entries(more) \in Nat /\ Entries(Bound) \in Nat
      /\ Entries(more) <= Entries(Bound) + 1
  <2>1. PICK f : f = Bound
    OBVIOUS
  <2>2. PICK t \in Nat : t = now[r]
    BY <1>2
  <2>3. PICK key_r \in Keys : key_r = key[r]
    BY <1>2
  <2>4. more = With(f, key_r, [time |-> t, began |-> t])
    BY <2>1, <2>2, <2>3
  <2>5. Dictionary(f, clock) /\ t <= clock
    BY <1>2, <1>4, <2>1, <2>2
  <2> HIDE DEF more, k
  <2> QED
    BY <1>4, <2>1, <2>4, <2>5, LargerDictionary DEF Entries
<1>6. pc'[r] = "answered" /\ \A s \in burst : pc'[s] = "answered"
  BY <1>1, <1>2, <1>4 DEF Goto, ServerInv, Within
<1>7. /\ r \notin burst
      /\ Cardinality(burst) \in Nat /\ MAX_CACHE_SIZE \in Nat
      /\ Entries(Bound) <= Limit
  BY <1>1, Counts DEF ServerInv, Within, Bound
<1>8. CASE r \in crowded
  <2>1. burst' = burst \cup {r}
    BY <1>1, <1>8
  <2>2. IsFiniteSet(burst') /\ Cardinality(burst') = Cardinality(burst) + 1
    BY <1>4, <1>7, <2>1, FS_AddElement
  <2>3. Entries(more) <= Limit' /\ Limit <= Limit'
    BY <1>5, <1>7, <2>2 DEF Limit
  <2>4. Globals' /\ Within'
    <3>1. burst' \in SUBSET crowded /\ \A s \in burst' : pc'[s] = "answered"
      BY <1>4, <1>6, <1>8, <2>1
    <3> HIDE DEF more
    <3> QED
      BY <1>1, <1>5, <2>2, <2>3, <3>1, ChangedDictionary DEF Pcs
  <2> QED
    BY <1>3, <2>4 DEF ServerInv
<1>9. CASE r \notin crowded
  <2>1. burst' = burst
    BY <1>1, <1>9
  <2>2. InFlight = {r} /\ Entries(Bound) <= MAX_CACHE_SIZE - 1
    BY <1>1, <1>9, Lone DEF Undisturbed, Bound
  <2>3. Entries(more) <= Limit'
    BY <1>5, <1>7, <2>1, <2>2 DEF Limit
  <2>4. Globals' /\ Within'
    <3> HIDE DEF more
    <3> QED
      BY <1>1, <1>4, <1>5, <1>6, <2>1, <2>2, <2>3, ChangedDictionary DEF Pcs
  <2> QED
    BY <1>3, <2>4 DEF ServerInv
<1> QED
  BY <1>8, <1>9

LEMMA NextHolds == ServerInv /\ [ServerNext]_serverVars => ServerInv'
<1> SUFFICES ASSUME ServerInv, [ServerNext]_serverVars
             PROVE  ServerInv'
  OBVIOUS
<1>1. CASE UNCHANGED serverVars
  <2>1. InFlight' = InFlight /\ Bound' = Bound /\ Limit' = Limit
    BY <1>1 DEF serverVars, InFlight, Bound, Limit
  <2>2. Locals' /\ Globals'
    BY <1>1, <2>1 DEF serverVars, ServerInv, Locals, Globals, Dictionary, Dated, Timed
  <2>3. Within' /\ Answered'
    BY <1>1, <2>1 DEF serverVars, ServerInv, Within, Answered, Fresh
  <2>4. Alone'
    BY <1>1, <2>1 DEF serverVars, ServerInv, Alone, Undisturbed
  <2> QED
    BY <2>2, <2>3, <2>4 DEF ServerInv
<1>2. CASE Tick
  BY <1>2, TickHolds
<1>3. ASSUME NEW r \in Requests, Refuse(r)
      PROVE  ServerInv'
  BY <1>3, RefuseHolds
<1>4. ASSUME NEW r \in Requests, NEW k \in Keys, Start(r, k)
      PROVE  ServerInv'
  BY <1>4, StartHolds
<1>5. ASSUME NEW r \in Requests, Serve(r)
      PROVE  ServerInv'
  <2>1. CASE \E k \in Keys : Sort(r, k) \/ Evict(r, k)
    BY <2>1, SortHolds, EvictHolds
  <2>2. CASE Copy(r) \/ Bind(r) \/ Measure(r) \/ List(r) \/ Slice(r)
    BY <2>2, CopyHolds, BindHolds, MeasureHolds, ListHolds, SliceHolds
  <2>3. CASE Evicted(r) \/ Check(r) \/ Lookup(r) \/ ScanFails(r) \/ Insert(r)
    BY <2>3, EvictedHolds, CheckHolds, LookupHolds, ScanFailsHolds, InsertHolds
  <2> QED
    BY <1>5, <2>1, <2>2, <2>3 DEF Serve
<1> QED
  BY <1>1, <1>2, <1>3, <1>4, <1>5 DEF ServerNext

-----------------------------------------------------------------------------
(* Theorems of the server *)

\* ServerInv holds in every state of the server.
THEOREM ServerInvariance == ServerSpec => []ServerInv
<1> QED
  BY InitHolds, NextHolds, PTL DEF ServerSpec

\* No entry is of the future, and the bound dictionary is one that a request has built.
THEOREM ServerTypeCorrect == ServerSpec => []ServerTypeOK
<1>1. ServerInv => ServerTypeOK
  BY DEF ServerInv, Locals, Globals, Within, Dictionary, Dated, ServerTypeOK
<1> QED
  BY ServerInvariance, <1>1, PTL

\* Whatever the number of requests, the order of their steps and the time a scan takes, an answer
\* from the cache is of a request that began less than CACHE_TTL before the one that gets it.
THEOREM FreshAlways == ServerSpec => []AnswersFresh
<1>1. ServerInv => AnswersFresh
  BY DEF ServerInv, Answered, Fresh, AnswersFresh
<1> QED
  BY ServerInvariance, <1>1, PTL

\* Whatever the capacity and the number of requests, the cache exceeds its capacity by at most
\* one entry for each request that overlapped with another and inserted since one was alone.
THEOREM BoundedAlways == ServerSpec => []NearlyBounded
<1>1. ServerInv => NearlyBounded
  BY DEF ServerInv, Within, NearlyBounded, Entries, Limit, Bound
<1> QED
  BY ServerInvariance, <1>1, PTL

\* A request that is never in flight together with another gets an answer or is still served.
THEOREM AloneAnsweredAlways == ServerSpec => []AloneAnswered
<1>1. ServerInv => AloneAnswered
  BY DEF ServerInv, Answered, AloneAnswered
<1> QED
  BY ServerInvariance, <1>1, PTL

-----------------------------------------------------------------------------
(* The inductive invariant of a scan *)

Entry == [mine : BOOLEAN, status : Statuses, ts : Nat \cup {None}]

\* The records of a room, retained until some time.
Posted(s, c) == /\ s \in Seq(Entry) /\ Len(s) <= Retained
                /\ \A i \in DOMAIN s : s[i].ts # None => s[i].ts <= c

ScanTypes == /\ time \in Nat /\ next \in Nat \ {0}
             /\ log \in [Rooms -> Seq(Entry)] /\ \A room \in Rooms : Posted(log[room], time)
             /\ scanned_rooms \in Seq(Rooms \cup BadNames)
             /\ seen \in Seq(Seq(Entry)) /\ \A i \in DOMAIN seen : Posted(seen[i], time)
             /\ totals \in [Statuses -> Nat]

\* What is known of the scan in each of its phases.
Phases == /\ phase \in {"start", "plain", "scan", "done", "refused"}
          /\ phase \in {"start", "plain", "refused"} => next = 1
          /\ phase \in {"scan", "done"} => scanned_rooms \in Seq(Rooms)
          /\ scanned_rooms \notin Explicit => /\ Len(scanned_rooms) <= MaxRooms
                                              /\ IsInjective(scanned_rooms)
          /\ Len(seen) = next - 1

ScanInv == ScanTypes /\ Phases /\ timestamps = Dates /\ TotalIsCounted

LEMMA PostedLater ==
    ASSUME NEW s, NEW c \in Nat, NEW d \in Nat, c <= d, Posted(s, c)
    PROVE  Posted(s, d)
<1>1. \A i \in DOMAIN s : s[i].ts \in Nat \cup {None}
  <2>1. \A i \in DOMAIN s : s[i] \in Entry
    BY ElementOfSeq DEF Posted
  <2> QED
    BY <2>1 DEF Entry
<1> QED
  BY <1>1 DEF Posted

LEMMA NothingPosted == ASSUME NEW c PROVE Posted(<< >>, c)
BY IndexerAssumption DEF Posted

\* Retaining the last records of a longer log.
LEMMA PostedMore ==
    ASSUME NEW s, NEW c \in Nat, Posted(s, c), NEW e \in Entry, e.ts # None => e.ts <= c
    PROVE  Posted(IF Len(Append(s, e)) > Retained THEN Tail(Append(s, e)) ELSE Append(s, e), c)
<1> DEFINE t == Append(s, e)
<1>1. /\ t \in Seq(Entry) /\ Len(t) = Len(s) + 1 /\ t # << >>
      /\ \A i \in 1..Len(s) : t[i] = s[i]
      /\ t[Len(s) + 1] = e
  BY AppendProperties DEF Posted
<1>2. Len(s) \in Nat /\ Len(s) <= Retained /\ Retained \in Nat
  BY IndexerAssumption DEF Posted
<1>3. \A i \in 1..Len(t) : t[i].ts # None => t[i].ts <= c
  BY <1>1, <1>2 DEF Posted
<1>4. CASE Len(t) > Retained
  <2>1. /\ Tail(t) \in Seq(Entry) /\ Len(Tail(t)) = Len(t) - 1
        /\ \A i \in 1..Len(Tail(t)) : Tail(t)[i] = t[i + 1]
    BY <1>1, HeadTailProperties
  <2>2. \A i \in 1..Len(Tail(t)) : i + 1 \in 1..Len(t)
    BY <1>1, <1>2, <2>1
  <2> HIDE DEF t
  <2>3. \A i \in DOMAIN Tail(t) : Tail(t)[i].ts # None => Tail(t)[i].ts <= c
    BY <1>3, <2>1, <2>2
  <2> QED
    BY <1>1, <1>2, <1>4, <2>1, <2>3 DEF Posted
<1>5. CASE ~ Len(t) > Retained
  <2> HIDE DEF t
  <2>1. \A i \in DOMAIN t : t[i].ts # None => t[i].ts <= c
    BY <1>1, <1>3
  <2> QED
    BY <1>1, <1>2, <1>5, <2>1 DEF Posted
<1> HIDE DEF t
<1> QED
  BY <1>4, <1>5

LEMMA ScanInitHolds == ScanInit => ScanInv
<1> SUFFICES ASSUME ScanInit
             PROVE  ScanInv
  OBVIOUS
<1>1. ScanTypes
  <2>1. Posted(<< >>, 0)
    BY NothingPosted
  <2> QED
    BY <2>1 DEF ScanInit, ScanTypes
<1>2. Phases
  BY IndexerAssumption DEF ScanInit, Phases, IsInjective
<1>3. Verified = {}
  BY DEF ScanInit, Verified
<1>4. timestamps = Dates
  BY <1>3 DEF ScanInit, Dates
<1>5. TotalIsCounted
  BY <1>3, FS_EmptySet DEF ScanInit, TotalIsCounted, Statuses
<1> QED
  BY <1>1, <1>2, <1>4, <1>5 DEF ScanInv

LEMMA ElapseHolds == ScanInv /\ Elapse => ScanInv'
<1> SUFFICES ASSUME ScanInv, Elapse
             PROVE  ScanInv'
  OBVIOUS
<1>1. /\ UNCHANGED <<posts, log, phase, scanned_rooms, next, room_details, totals, timestamps,
                     status, began, seen>>
      /\ time \in Nat /\ time' \in Nat /\ time <= time'
  BY DEF Elapse, scanVars, ScanInv, ScanTypes
<1>2. ScanTypes'
  BY <1>1, PostedLater DEF ScanInv, ScanTypes
<1>3. Phases' /\ (timestamps = Dates)' /\ TotalIsCounted'
  BY <1>1 DEF ScanInv, Phases, Dates, Verified, TotalIsCounted
<1> QED
  BY <1>2, <1>3 DEF ScanInv

LEMMA PostHolds ==
    ASSUME ScanInv, NEW room \in Rooms, NEW r \in Records, Post(room, r)
    PROVE  ScanInv'
<1> DEFINE e == [mine |-> r.mine, status |-> r.status, ts |-> IF r.dated THEN time ELSE None]
           longer == Append(log[room], e)
           kept == IF Len(longer) > Retained THEN Tail(longer) ELSE longer
<1>1. /\ log' = [log EXCEPT ![room] = kept]
      /\ UNCHANGED <<time, phase, scanned_rooms, next, room_details, totals, timestamps,
                     status, began, seen>>
  BY DEF Post, scanVars
<1>2. e \in Entry /\ (e.ts # None => e.ts <= time)
  BY IndexerAssumption DEF Entry, ScanInv, ScanTypes
<1>3. Posted(kept, time)
  <2> HIDE DEF e
  <2>1. Posted(log[room], time) /\ time \in Nat
    BY DEF ScanInv, ScanTypes
  <2> QED
    BY <1>2, <2>1, PostedMore
<1> HIDE DEF e, longer, kept
<1>4. log' \in [Rooms -> Seq(Entry)] /\ \A q \in Rooms : Posted(log'[q], time)
  <2>1. kept \in Seq(Entry)
    BY <1>3 DEF Posted
  <2>2. log \in [Rooms -> Seq(Entry)] /\ \A q \in Rooms : Posted(log[q], time)
    BY DEF ScanInv, ScanTypes
  <2> QED
    BY <1>1, <1>3, <2>1, <2>2
<1>5. ScanTypes'
  BY <1>1, <1>4 DEF ScanInv, ScanTypes
<1>6. Phases' /\ (timestamps = Dates)' /\ TotalIsCounted'
  BY <1>1 DEF ScanInv, Phases, Dates, Verified, TotalIsCounted
<1> QED
  BY <1>5, <1>6 DEF ScanInv

LEMMA BeginHolds ==
    ASSUME ScanInv, NEW names \in Explicit, Begin(names)
    PROVE  ScanInv'
<1>1. /\ phase = "start" /\ scanned_rooms' = names /\ names \in Explicit
      /\ phase' = IF \E i \in DOMAIN names : names[i] \in BadNames THEN "refused" ELSE "scan"
      /\ UNCHANGED <<time, log, next, totals, timestamps, seen>>
  BY DEF Begin, roomVars
<1>2. names \in Seq(Rooms \cup BadNames)
  BY IndexerAssumption
<1>3. (\A i \in DOMAIN names : names[i] \notin BadNames) => names \in Seq(Rooms)
  BY <1>2, IsASeq
<1>4. ScanTypes'
  BY <1>1, <1>2 DEF ScanInv, ScanTypes
<1>5. Phases'
  BY <1>1, <1>3 DEF ScanInv, Phases
<1>6. (timestamps = Dates)' /\ TotalIsCounted'
  BY <1>1 DEF ScanInv, Dates, Verified, TotalIsCounted
<1> QED
  BY <1>4, <1>5, <1>6 DEF ScanInv

\* What /rooms answers names at most max_rooms rooms, none twice.
LEMMA AnswersAreRooms ==
    ASSUME NEW a \in Answers
    PROVE  a \in Seq(Rooms) /\ Len(a) <= MaxRooms /\ IsInjective(a)
<1>0. MaxRooms \in Nat /\ IsFiniteSet(Rooms)
  BY IndexerAssumption
<1>1. CASE a = << >>
  BY <1>0, <1>1 DEF IsInjective
<1>2. ASSUME NEW s \in SetToSeqs(Rooms), a = SubSeq(s, 1, Min({Len(s), MaxRooms}))
      PROVE  a \in Seq(Rooms) /\ Len(a) <= MaxRooms /\ IsInjective(a)
  <2>1. PICK n \in Nat : n = Cardinality(Rooms)
    BY <1>0, FS_CardinalityType
  <2>2. s \in [1..n -> Rooms] /\ \A i, j \in 1..n : i # j => s[i] # s[j]
    BY <2>1 DEF SetToSeqs
  <2>3. Len(s) = n
    BY <2>2
  <2>4. PICK m \in Nat : m = Min({Len(s), MaxRooms}) /\ m <= n /\ m <= MaxRooms
    BY <1>0, <2>3, OfTwo
  <2>5. /\ a \in Seq(Rooms) /\ Len(a) = m
        /\ \A i \in 1..m : a[i] = s[i]
    <3>1. \A i \in 1..m : s[i] \in Rooms
      BY <2>2, <2>4
    <3>2. a = SubSeq(s, 1, m)
      BY <1>2, <2>4
    <3>3. /\ SubSeq(s, 1, m) \in Seq(Rooms)
          /\ Len(SubSeq(s, 1, m)) = IF 1 <= m THEN m - 1 + 1 ELSE 0
          /\ \A i \in 1..(m - 1 + 1) : SubSeq(s, 1, m)[i] = s[1 + i - 1]
      BY <3>1, SubSeqProperties
    <3> QED
      BY <3>2, <3>3
  <2>6. IsInjective(a)
    <3>1. DOMAIN a = 1..m
      BY <2>5
    <3>2. ASSUME NEW i \in 1..m, NEW j \in 1..m, a[i] = a[j]
          PROVE  i = j
      <4>1. i \in 1..n /\ j \in 1..n /\ s[i] = s[j]
        <5>1. m <= n
          BY <2>4
        <5>2. i \in 1..n /\ j \in 1..n
          BY <5>1
        <5>3. a[i] = s[i] /\ a[j] = s[j]
          BY <2>5
        <5> QED
          BY <3>2, <5>2, <5>3
      <4> QED
        BY <2>2, <4>1
    <3> QED
      BY <3>1, <3>2 DEF IsInjective
  <2> QED
    BY <2>4, <2>5, <2>6
<1> QED
  BY <1>1, <1>2 DEF Answers

LEMMA DiscoverHolds == ScanInv /\ (DiscoverJson \/ DiscoverText) => ScanInv'
<1> SUFFICES ASSUME ScanInv, DiscoverJson \/ DiscoverText
             PROVE  ScanInv'
  OBVIOUS
<1>1. /\ phase \in {"start", "plain"} /\ phase' \in {"plain", "scan"}
      /\ scanned_rooms' \in Answers
      /\ UNCHANGED <<time, log, next, totals, timestamps, seen>>
  BY DEF DiscoverJson, DiscoverText, roomVars
<1>2. /\ scanned_rooms' \in Seq(Rooms) /\ Len(scanned_rooms') <= MaxRooms
      /\ IsInjective(scanned_rooms')
  BY <1>1, AnswersAreRooms
<1>3. scanned_rooms' \in Seq(Rooms \cup BadNames)
  BY <1>2, SeqMonotonic
<1>4. ScanTypes'
  BY <1>1, <1>3 DEF ScanInv, ScanTypes
<1>5. Phases'
  BY <1>1, <1>2 DEF ScanInv, Phases
<1>6. (timestamps = Dates)' /\ TotalIsCounted'
  BY <1>1 DEF ScanInv, Dates, Verified, TotalIsCounted
<1> QED
  BY <1>4, <1>5, <1>6 DEF ScanInv

LEMMA FinishHolds == ScanInv /\ Finish => ScanInv'
<1> SUFFICES ASSUME ScanInv, Finish
             PROVE  ScanInv'
  OBVIOUS
<1>1. /\ phase = "scan" /\ phase' = "done"
      /\ UNCHANGED <<time, log, scanned_rooms, next, totals, timestamps, seen>>
  BY DEF Finish
<1>2. ScanTypes' /\ Phases'
  BY <1>1 DEF ScanInv, ScanTypes, Phases
<1>3. (timestamps = Dates)' /\ TotalIsCounted'
  BY <1>1 DEF ScanInv, Dates, Verified, TotalIsCounted
<1> QED
  BY <1>2, <1>3 DEF ScanInv

\* The cells of one room in Verified are as many as its verified records.
LEMMA CellsOfRoom ==
    ASSUME NEW n, NEW J \in SUBSET Nat, IsFiniteSet(J)
    PROVE  /\ IsFiniteSet({<<n, j>> : j \in J})
           /\ Cardinality({<<n, j>> : j \in J}) = Cardinality(J)
<1> DEFINE T == {<<n, j>> : j \in J}
           f == [j \in J |-> <<n, j>>]
<1>1. f \in [J -> T]
  OBVIOUS
<1>2. \A a, b \in J : f[a] = f[b] => a = b
  OBVIOUS
<1>3. \A t \in T : \E j \in J : f[j] = t
  OBVIOUS
<1>4. DOMAIN f = J
  OBVIOUS
<1> HIDE DEF f, T
<1>5. f \in Bijection(J, T)
  BY <1>1, <1>2, <1>3, <1>4 DEF Bijection, Injection, Surjection, IsInjective
<1>6. ExistsBijection(J, T)
  BY <1>5 DEF ExistsBijection
<1>7. IsFiniteSet(T) /\ Cardinality(T) = Cardinality(J)
  BY <1>6, FS_Bijection
<1> QED
  BY <1>7 DEF T

\* Of what was verified nothing is lost, and the records of the room fetched are added.
LEMMA VerifiedGrows ==
    ASSUME ScanInv, NEW records, Posted(records, time), seen' = Append(seen, records),
           NEW J, J = {k \in Mine(records) : records[k].status = "VALID"}
    PROVE  /\ Verified' = Verified \cup {<<Len(seen) + 1, j>> : j \in J}
           /\ Verified \cap {<<Len(seen) + 1, j>> : j \in J} = {}
           /\ \A v \in Verified : seen'[v[1]] = seen[v[1]]
           /\ seen'[Len(seen) + 1] = records
           /\ J \subseteq 1..Retained
<1>1. seen \in Seq(Seq(Entry)) /\ records \in Seq(Entry)
  BY DEF ScanInv, ScanTypes, Posted
<1>2. PICK n \in Nat : n = Len(seen) /\ DOMAIN seen = 1..n
  BY <1>1
<1>3. /\ DOMAIN seen' = 1..(n + 1)
      /\ \A i \in 1..n : seen'[i] = seen[i]
      /\ seen'[n + 1] = records
  BY <1>1, <1>2, AppendProperties
<1>4. J \subseteq 1..Retained
  <2>1. DOMAIN records = 1..Len(records) /\ Len(records) \in Nat /\ Len(records) <= Retained
    BY <1>1 DEF Posted
  <2>2. J \subseteq DOMAIN records
    BY DEF Mine
  <2> QED
    BY <2>1, <2>2, IndexerAssumption
<1> DEFINE cells == {<<n + 1, j>> : j \in J}
<1>5. ASSUME NEW i \in 1..(n + 1), NEW j \in 1..Retained
      PROVE  <<i, j>> \in Verified' <=> <<i, j>> \in Verified \/ <<i, j>> \in cells
  <2>1. CASE i = n + 1
    <3>1. <<i, j>> \in Verified' <=> j \in J
      BY <1>3, <2>1 DEF Verified
    <3>2. <<i, j>> \notin Verified
      BY <1>2, <2>1 DEF Verified
    <3> QED
      BY <2>1, <3>1, <3>2
  <2>2. CASE i # n + 1
    <3>1. i \in 1..n /\ <<i, j>> \notin cells
      BY <2>2
    <3>2. <<i, j>> \in Verified' <=> <<i, j>> \in Verified
      BY <1>2, <1>3, <3>1 DEF Verified
    <3> QED
      BY <3>1, <3>2
  <2> QED
    BY <2>1, <2>2
<1>6. /\ Verified \subseteq (1..n) \X (1..Retained)
      /\ Verified' \subseteq (1..(n + 1)) \X (1..Retained)
  BY <1>2, <1>3 DEF Verified
<1>7. cells \subseteq (1..(n + 1)) \X (1..Retained) /\ \A v \in cells : v[1] = n + 1
  BY <1>4
<1> HIDE DEF cells
<1>8. Verified' = Verified \cup cells
  <2>1. ASSUME NEW v \in (1..(n + 1)) \X (1..Retained)
        PROVE  v \in Verified' <=> v \in Verified \cup cells
    <3>1. PICK i \in 1..(n + 1), j \in 1..Retained : v = <<i, j>>
      OBVIOUS
    <3> QED
      BY <1>5, <3>1
  <2>2. Verified \subseteq (1..(n + 1)) \X (1..Retained)
    BY <1>6
  <2> QED
    BY <1>6, <1>7, <2>1, <2>2
<1>9. Verified \cap cells = {}
  BY <1>6, <1>7
<1>10. \A v \in Verified : seen'[v[1]] = seen[v[1]]
  BY <1>3, <1>6
<1> QED
  BY <1>2, <1>3, <1>4, <1>8, <1>9, <1>10 DEF cells

LEMMA FetchHolds == ScanInv /\ FetchRoom => ScanInv'
<1> SUFFICES ASSUME ScanInv, FetchRoom
             PROVE  ScanInv'
  OBVIOUS
<1>1. /\ phase = "scan" /\ next <= Len(scanned_rooms) /\ next' = next + 1
      /\ UNCHANGED <<time, log, phase, scanned_rooms>>
  BY DEF FetchRoom, roomVars
<1>2. scanned_rooms[next] \in Rooms
  <2>1. next \in 1..Len(scanned_rooms) /\ scanned_rooms \in Seq(Rooms)
    BY <1>1 DEF ScanInv, ScanTypes, Phases
  <2> QED
    BY <2>1
<1>3. PICK records : Index(scanned_rooms[next], records) /\ Posted(records, time)
  BY <1>2, NothingPosted DEF FetchRoom, ScanInv, ScanTypes
<1> DEFINE J == {k \in Mine(records) : records[k].status = "VALID"}
           n == Len(seen) + 1
<1>4. /\ seen' = Append(seen, records)
      /\ totals' = [s \in Statuses |-> totals[s] + counts(records)[s]]
      /\ timestamps' = (timestamps \cup {records[i].ts : i \in J}) \ {None}
  BY <1>3 DEF Index
<1>5. /\ Verified' = Verified \cup {<<n, j>> : j \in J}
      /\ Verified \cap {<<n, j>> : j \in J} = {}
      /\ \A v \in Verified : seen'[v[1]] = seen[v[1]]
      /\ seen'[n] = records
      /\ J \subseteq 1..Retained
  BY <1>3, <1>4, VerifiedGrows
<1>6. records \in Seq(Entry) /\ seen \in Seq(Seq(Entry)) /\ n \in Nat \ {0}
  BY <1>3 DEF ScanInv, ScanTypes, Posted
<1>7. ScanTypes'
  <2>1. /\ seen' \in Seq(Seq(Entry)) /\ \A i \in DOMAIN seen' : Posted(seen'[i], time)
    <3>1. /\ seen' \in Seq(Seq(Entry)) /\ Len(seen') = n
          /\ \A i \in 1..Len(seen) : seen'[i] = seen[i]
          /\ seen'[n] = records
      BY <1>4, <1>6, AppendProperties
    <3>2. \A i \in 1..Len(seen) : Posted(seen[i], time)
      BY DEF ScanInv, ScanTypes
    <3>3. \A i \in 1..n : Posted(seen'[i], time)
      BY <1>3, <1>6, <3>1, <3>2
    <3> QED
      BY <3>1, <3>3
  <2>2. totals' \in [Statuses -> Nat]
    <3>1. ASSUME NEW s \in Statuses
          PROVE  counts(records)[s] \in Nat
      <4>1. IsFiniteSet(DOMAIN records)
        <5>1. DOMAIN records = 1..Len(records) /\ Len(records) \in Nat
          BY <1>6
        <5> QED
          BY <5>1, FS_Interval
      <4>2. {i \in Mine(records) : records[i].status = s} \in SUBSET DOMAIN records
        BY DEF Mine
      <4> QED
        BY <4>1, <4>2, FS_Subset, FS_CardinalityType DEF counts, Count
    <3> QED
      BY <1>4, <3>1 DEF ScanInv, ScanTypes
  <2> QED
    BY <1>1, <2>1, <2>2 DEF ScanInv, ScanTypes
<1>8. Phases'
  <2>1. Len(seen') = n
    BY <1>4, <1>6
  <2> QED
    BY <1>1, <2>1 DEF ScanInv, ScanTypes, Phases
<1>9. (timestamps = Dates)'
  <2>1. {seen'[v[1]][v[2]].ts : v \in Verified'}
            = {seen[v[1]][v[2]].ts : v \in Verified} \cup {records[i].ts : i \in J}
    <3>1. {seen'[v[1]][v[2]].ts : v \in Verified} = {seen[v[1]][v[2]].ts : v \in Verified}
      BY <1>5
    <3>2. {seen'[v[1]][v[2]].ts : v \in {<<n, j>> : j \in J}} = {records[i].ts : i \in J}
      <4> DEFINE C == {<<n, j>> : j \in J}
      <4>1. \A v \in C : v[2] \in J /\ seen'[v[1]][v[2]].ts = records[v[2]].ts
        BY <1>5
      <4>2. \A j \in J : <<n, j>> \in C /\ <<n, j>>[2] = j
        OBVIOUS
      <4> HIDE DEF C, J, n
      <4>3. {seen'[v[1]][v[2]].ts : v \in C} = {records[v[2]].ts : v \in C}
        BY <4>1
      <4>4. {records[v[2]].ts : v \in C} \subseteq {records[i].ts : i \in J}
        BY <4>1
      <4>5. ASSUME NEW i \in J
            PROVE  records[i].ts \in {records[v[2]].ts : v \in C}
        BY <4>2
      <4> QED
        BY <4>3, <4>4, <4>5 DEF C
    <3> QED
      BY <1>5, <3>1, <3>2
  <2> HIDE DEF J
  <2> QED
    BY <1>4, <2>1 DEF ScanInv, Dates
<1>10. TotalIsCounted'
  <2>1. IsFiniteSet(Verified)
    <3>1. IsFiniteSet(DOMAIN seen) /\ IsFiniteSet(1..Retained)
      <4>1. DOMAIN seen = 1..Len(seen) /\ Len(seen) \in Nat
        BY <1>6
      <4> QED
        BY <4>1, FS_Interval, IndexerAssumption
    <3>2. IsFiniteSet((DOMAIN seen) \X (1..Retained))
      BY <3>1, FS_Product
    <3>3. Verified \in SUBSET ((DOMAIN seen) \X (1..Retained))
      BY DEF Verified
    <3> QED
      BY <3>2, <3>3, FS_Subset
  <2>2. IsFiniteSet(J) /\ J \in SUBSET Nat
    <3>1. IsFiniteSet(1..Retained) /\ J \in SUBSET (1..Retained)
      BY <1>5, FS_Interval, IndexerAssumption
    <3> HIDE DEF J
    <3>2. IsFiniteSet(J)
      BY <3>1, FS_Subset
    <3>3. J \in SUBSET Nat
      BY <3>1, IndexerAssumption
    <3> QED
      BY <3>2, <3>3
  <2>3. counts(records)["VALID"] = Cardinality(J)
    BY DEF counts, Count, Statuses
  <2> HIDE DEF J
  <2>4. /\ IsFiniteSet({<<n, j>> : j \in J})
        /\ Cardinality({<<n, j>> : j \in J}) = Cardinality(J)
    BY <1>6, <2>2, CellsOfRoom
  <2>5. Cardinality(Verified') = Cardinality(Verified) + Cardinality(J)
    <3>1. Cardinality(Verified') = Cardinality(Verified) + Cardinality(J) - Cardinality({})
      BY <1>5, <2>1, <2>4, FS_Union
    <3>2. Cardinality(Verified) \in Nat /\ Cardinality(J) \in Nat
      BY <2>1, <2>2, FS_CardinalityType
    <3> QED
      BY <3>1, <3>2, FS_EmptySet
  <2>6. totals'["VALID"] = totals["VALID"] + Cardinality(J)
    BY <1>4, <2>3 DEF Statuses
  <2> QED
    BY <2>5, <2>6 DEF ScanInv, TotalIsCounted
<1> QED
  BY <1>7, <1>8, <1>9, <1>10 DEF ScanInv

LEMMA ScanNextHolds == ScanInv /\ [ScanNext]_indexerVars => ScanInv'
<1> SUFFICES ASSUME ScanInv, [ScanNext]_indexerVars
             PROVE  ScanInv'
  OBVIOUS
<1>1. CASE UNCHANGED indexerVars
  <2>1. ScanTypes' /\ Phases'
    BY <1>1 DEF indexerVars, roomVars, scanVars, ScanInv, ScanTypes, Phases
  <2>2. (timestamps = Dates)' /\ TotalIsCounted'
    BY <1>1 DEF indexerVars, scanVars, ScanInv, Dates, Verified, TotalIsCounted
  <2> QED
    BY <2>1, <2>2 DEF ScanInv
<1>2. ASSUME NEW room \in Rooms, NEW r \in Records, Post(room, r)
      PROVE  ScanInv'
  BY <1>2, PostHolds
<1>3. ASSUME NEW names \in Explicit, Begin(names)
      PROVE  ScanInv'
  BY <1>3, BeginHolds
<1> QED
  BY <1>1, <1>2, <1>3, ElapseHolds, DiscoverHolds, FetchHolds, FinishHolds DEF ScanNext

-----------------------------------------------------------------------------
(* Theorems of the scan *)

\* A non-empty set of times that are past has a latest one.
LEMMA Latest ==
    ASSUME NEW c \in Nat, NEW T, T \subseteq 0..c, T # {}
    PROVE  Max(T) \in T /\ \A t \in T : Max(T) >= t
<1> DEFINE R == OpToRel(<, Nat)
           B == {c - t : t \in T}
<1>1. \A x, y \in Nat : x < y => <<x, y>> \in R
  BY DEF OpToRel
<1>2. IsWellFoundedOn(R, Nat)
  BY NatLessThanWellFounded
<1>3. B \subseteq Nat /\ B # {}
  <2>1. \A t \in T : c - t \in Nat
    OBVIOUS
  <2>2. B \subseteq Nat
    BY <2>1
  <2>3. PICK t \in T : TRUE
    OBVIOUS
  <2>4. c - t \in B
    OBVIOUS
  <2> QED
    BY <2>2, <2>4
<1> HIDE DEF R, B
<1>4. PICK x \in B : \A y \in B : ~ (<<y, x>> \in R)
  BY <1>2, <1>3, WFMin
<1>5. ASSUME NEW y \in B
      PROVE  x <= y
  <2>1. x \in Nat /\ y \in Nat /\ ~ (y < x)
    BY <1>1, <1>3, <1>4
  <2> QED
    BY <2>1
<1>6. PICK last \in T : x = c - last
  BY DEF B
<1>7. \A t \in T : last >= t
  <2>1. ASSUME NEW t \in T
        PROVE  last >= t
    <3>1. x <= c - t
      BY <1>5 DEF B
    <3>2. t \in Int /\ last \in Int
      OBVIOUS
    <3> QED
      BY <1>6, <3>1, <3>2
  <2> QED
    BY <2>1
<1> QED
  BY <1>7 DEF Max

\* ScanInv holds in every state of a scan.
THEOREM ScanInvariance == ScanSpec => []ScanInv
<1> QED
  BY ScanInitHolds, ScanNextHolds, PTL DEF ScanSpec

\* Whatever rooms are discovered or named, however often, the total of verified records is the
\* number of the DID's validly signed records in what was fetched.
THEOREM TotalIsCountedAlways == ScanSpec => []TotalIsCounted
<1>1. ScanInv => TotalIsCounted
  BY DEF ScanInv
<1> QED
  BY ScanInvariance, <1>1, PTL

\* However long the scan takes and whatever is posted meanwhile, the verdict is about the age
\* that the latest verified record has when the scan ends.
THEOREM StatusIsOfTheEndAlways == ScanSpec => StatusIsOfTheEnd
<1>1. ASSUME ScanInv, [ScanNext]_indexerVars, status' # status
      PROVE  /\ status' = "ACTIVE" => \E t \in Dates : time - t <= Window
             /\ status' = "STALE" => Dates # {} /\ \A t \in Dates : time - t > Window
             /\ status' = "NO DATA" => Dates = {}
  <2>1. Finish
    BY <1>1 DEF ScanNext, indexerVars, scanVars, roomVars, Elapse, Post, Begin, DiscoverJson,
                DiscoverText, FetchRoom
  <2>2. Dates \subseteq 0..time /\ time \in Nat /\ Window \in Nat
    <3>1. ASSUME NEW v \in Verified, seen[v[1]][v[2]].ts # None
          PROVE  seen[v[1]][v[2]].ts \in 0..time
      <4>1. v[1] \in DOMAIN seen /\ v[2] \in DOMAIN seen[v[1]]
        BY DEF Verified, Mine
      <4>2. Posted(seen[v[1]], time) /\ time \in Nat
        BY <1>1, <4>1 DEF ScanInv, ScanTypes
      <4>3. seen[v[1]][v[2]] \in Entry
        BY <4>1, <4>2, ElementOfSeq DEF Posted
      <4>4. seen[v[1]][v[2]].ts \in Nat
        BY <3>1, <4>3 DEF Entry
      <4> QED
        BY <3>1, <4>1, <4>2, <4>4 DEF Posted
    <3> QED
      BY <1>1, <3>1, IndexerAssumption DEF Dates, ScanInv, ScanTypes
  <2>3. timestamps = Dates
    BY <1>1 DEF ScanInv
  <2>4. CASE Dates = {}
    BY <2>1, <2>3, <2>4 DEF Finish
  <2>5. CASE Dates # {}
    <3>1. PICK last \in Dates : last = Max(Dates) /\ \A t \in Dates : last >= t
      BY <2>2, <2>5, Latest
    <3>2. status' = IF time - last <= Window THEN "ACTIVE" ELSE "STALE"
      BY <2>1, <2>3, <2>5, <3>1 DEF Finish, age
    <3>3. \A t \in Dates : t \in Int
      BY <2>2
    <3>4. time - last > Window => \A t \in Dates : time - t > Window
      BY <2>2, <3>1, <3>3
    <3> QED
      BY <2>2, <2>5, <3>1, <3>2, <3>3, <3>4
  <2> QED
    BY <2>4, <2>5
<1>2. ScanInv /\ [ScanNext]_indexerVars =>
        [status' # status =>
           /\ status' = "ACTIVE" => \E t \in Dates : time - t <= Window
           /\ status' = "STALE" => Dates # {} /\ \A t \in Dates : time - t > Window
           /\ status' = "NO DATA" => Dates = {}]_indexerVars
  BY <1>1
<1> QED
  BY ScanInvariance, <1>2, PTL DEF ScanSpec, StatusIsOfTheEnd

\* The rooms are read as IndexerTypeOK says: at most max_rooms are discovered, none of them is
\* read twice, and nothing is read once a name is refused.
THEOREM ScanTypeCorrect == ScanSpec => []IndexerTypeOK
<1>1. ScanInv => IndexerTypeOK
  <2> SUFFICES ASSUME ScanInv
               PROVE  IndexerTypeOK
    OBVIOUS
  <2>1. phase = "refused" => seen = << >>
    BY EmptySeq DEF ScanInv, ScanTypes, Phases
  <2>2. \A room \in Rooms : Len(log[room]) <= Retained
    BY DEF ScanInv, ScanTypes, Posted
  <2> QED
    BY <2>1, <2>2 DEF ScanInv, Phases, IndexerTypeOK
<1> QED
  BY ScanInvariance, <1>1, PTL
-----------------------------------------------------------------------------
(* The details of the rooms *)

\* Each room with details has been read, and counts no more than it retained.
Details == /\ IsFiniteSet(DOMAIN room_details)
           /\ \A room \in DOMAIN room_details :
                 /\ room_details[room]["VALID"] \in 0..Retained
                 /\ \E i \in 1..(next - 1) : i \in DOMAIN scanned_rooms /\ scanned_rooms[i] = room
           /\ DetailsAddUp

\* Before the first room is read nothing is counted.
LEMMA NothingRead ==
    ASSUME ScanInv, Details, next = 1
    PROVE  DOMAIN room_details = {} /\ totals["VALID"] = 0 /\ Detailed = {}
<1>1. DOMAIN room_details = {}
  BY DEF Details
<1>2. DOMAIN seen = {}
  BY DEF ScanInv, ScanTypes, Phases
<1>3. totals["VALID"] = 0
  BY <1>2, FS_EmptySet DEF ScanInv, TotalIsCounted, Verified
<1> QED
  BY <1>1, <1>3 DEF Detailed

\* A step that chooses the rooms.
LEMMA ChosenDetails ==
    ASSUME ScanInv, Details, next = 1, next' = next, room_details' = room_details,
           totals' = totals
    PROVE  Details'
<1>1. DOMAIN room_details = {} /\ totals["VALID"] = 0 /\ Detailed = {}
  BY NothingRead
<1>2. Detailed' = {}
  BY <1>1 DEF Detailed
<1> QED
  BY <1>1, <1>2, FS_EmptySet DEF Details, DetailsAddUp

\* A room that is fetched and was not fetched before adds its own records to the details.
LEMMA FetchDetails ==
    ASSUME ScanInv, Details, FetchRoom
    PROVE  Details'
<1>1. /\ phase = "scan" /\ next <= Len(scanned_rooms) /\ next' = next + 1
      /\ scanned_rooms' = scanned_rooms /\ next \in Nat \ {0}
      /\ scanned_rooms \in Seq(Rooms) /\ Retained \in Nat
  BY IndexerAssumption DEF FetchRoom, ScanInv, ScanTypes, Phases
<1>2. PICK room : room = scanned_rooms[next] /\ room \in Rooms
  BY <1>1
<1>3. PICK records : Index(room, records) /\ Posted(records, time)
  BY <1>2, NothingPosted DEF FetchRoom, ScanInv, ScanTypes
<1>4. PICK c : c = counts(records)["VALID"]
  OBVIOUS
<1>5. /\ c \in 0..Retained
      /\ Mine(records) = {} => c = 0
  <2> DEFINE J == {i \in Mine(records) : records[i].status = "VALID"}
  <2>1. c = Cardinality(J)
    BY <1>4 DEF counts, Count, Statuses
  <2>2. PICK len \in Nat : DOMAIN records = 1..len /\ len <= Retained
    BY <1>3 DEF Posted
  <2>3. J \in SUBSET (1..len)
    BY <2>2 DEF Mine
  <2> HIDE DEF J
  <2>4. IsFiniteSet(1..len) /\ Cardinality(1..len) = len
    BY FS_Interval
  <2>5. Cardinality(J) \in Nat /\ Cardinality(J) <= len
    BY <2>3, <2>4, FS_Subset, FS_CardinalityType
  <2>6. Mine(records) = {} => Cardinality(J) = 0
    BY FS_EmptySet DEF J
  <2> QED
    BY <1>1, <2>1, <2>2, <2>5, <2>6
<1>6. totals'["VALID"] = totals["VALID"] + c /\ totals["VALID"] \in Nat
  BY <1>3, <1>4 DEF Index, Statuses, ScanInv, ScanTypes
<1>7. ASSUME NEW r \in DOMAIN room_details
      PROVE  \E i \in 1..(next' - 1) : i \in DOMAIN scanned_rooms' /\ scanned_rooms'[i] = r
  BY <1>1 DEF Details
<1>8. CASE Mine(records) = {}
  <2>1. room_details' = room_details /\ totals'["VALID"] = totals["VALID"]
    BY <1>3, <1>5, <1>6, <1>8 DEF Index
  <2>2. Detailed' = Detailed
    BY <2>1 DEF Detailed
  <2>3. DetailsAddUp'
    BY <1>1, <2>1, <2>2 DEF Details, DetailsAddUp
  <2> QED
    BY <1>7, <2>1, <2>3 DEF Details
<1>9. CASE Mine(records) # {}
  <2>1. /\ DOMAIN room_details' = DOMAIN room_details \cup {room}
        /\ room_details'[room] = counts(records)
        /\ \A r \in DOMAIN room_details : r # room => room_details'[r] = room_details[r]
    BY <1>3, <1>9 DEF Index
  <2>2. IsFiniteSet(DOMAIN room_details')
    BY <2>1, FS_AddElement DEF Details
  <2>3. ASSUME NEW r \in DOMAIN room_details'
        PROVE  /\ room_details'[r]["VALID"] \in 0..Retained
               /\ \E i \in 1..(next' - 1) : i \in DOMAIN scanned_rooms' /\ scanned_rooms'[i] = r
    <3>1. CASE r = room
      <4>1. next \in 1..(next' - 1) /\ next \in DOMAIN scanned_rooms'
        BY <1>1
      <4> QED
        BY <1>1, <1>2, <1>4, <1>5, <2>1, <3>1, <4>1
    <3>2. CASE r # room
      BY <1>7, <2>1, <3>2 DEF Details
    <3> QED
      BY <3>1, <3>2
  <2>4. ASSUME IsInjective(scanned_rooms')
        PROVE  totals'["VALID"] = Cardinality(Detailed')
    <3>1. room \notin DOMAIN room_details
      <4> SUFFICES ASSUME room \in DOMAIN room_details PROVE FALSE
        OBVIOUS
      <4>1. PICK i \in 1..(next - 1) : i \in DOMAIN scanned_rooms /\ scanned_rooms[i] = room
        BY DEF Details
      <4>2. next \in DOMAIN scanned_rooms /\ i # next
        BY <1>1
      <4> QED
        BY <1>1, <1>2, <2>4, <4>1, <4>2 DEF IsInjective
    <3> DEFINE cells == {<<room, k>> : k \in 1..c}
    <3>2. Detailed' = Detailed \cup cells
      <4>1. ASSUME NEW r \in DOMAIN room_details', NEW k \in 1..Retained
            PROVE  <<r, k>> \in Detailed' <=> <<r, k>> \in Detailed \cup cells
        <5>1. CASE r = room
          <6>1. <<r, k>> \in Detailed' <=> k <= c
            BY <1>4, <2>1, <5>1 DEF Detailed
          <6>2. <<r, k>> \notin Detailed
            BY <3>1, <5>1 DEF Detailed
          <6>3. <<r, k>> \in cells <=> k <= c
            BY <1>1, <1>5, <5>1
          <6> QED
            BY <6>1, <6>2, <6>3
        <5>2. CASE r # room
          <6>1. r \in DOMAIN room_details /\ room_details'[r] = room_details[r]
            BY <2>1, <5>2
          <6>2. <<r, k>> \in Detailed' <=> <<r, k>> \in Detailed
            BY <6>1, <2>1 DEF Detailed
          <6>3. <<r, k>> \notin cells
            BY <5>2
          <6> QED
            BY <6>2, <6>3
        <5> QED
          BY <5>1, <5>2
      <4>2. Detailed' \subseteq (DOMAIN room_details') \X (1..Retained)
        BY DEF Detailed
      <4>3. Detailed \subseteq (DOMAIN room_details') \X (1..Retained)
        BY <2>1 DEF Detailed
      <4>4. cells \subseteq (DOMAIN room_details') \X (1..Retained)
        BY <1>1, <1>5, <2>1
      <4> HIDE DEF cells
      <4>5. ASSUME NEW v \in (DOMAIN room_details') \X (1..Retained)
            PROVE  v \in Detailed' <=> v \in Detailed \cup cells
        <5>1. PICK r \in DOMAIN room_details', k \in 1..Retained : v = <<r, k>>
          OBVIOUS
        <5> QED
          BY <4>1, <5>1
      <4> QED
        BY <4>2, <4>3, <4>4, <4>5
    <3>3. Detailed \cap cells = {}
      BY <3>1 DEF Detailed
    <3>4. IsFiniteSet(Detailed)
      <4>1. IsFiniteSet(1..Retained)
        BY <1>1, FS_Interval
      <4>2. IsFiniteSet((DOMAIN room_details) \X (1..Retained))
        BY <4>1, FS_Product DEF Details
      <4>3. Detailed \in SUBSET ((DOMAIN room_details) \X (1..Retained))
        BY DEF Detailed
      <4> QED
        BY <4>2, <4>3, FS_Subset
    <3>5. IsFiniteSet(cells) /\ Cardinality(cells) = c
      <4>1. c \in Nat /\ IsFiniteSet(1..c) /\ Cardinality(1..c) = c /\ 1..c \in SUBSET Nat
        BY <1>5, FS_Interval
      <4> QED
        BY <4>1, CellsOfRoom
    <3> HIDE DEF cells
    <3>6. Cardinality(Detailed') = Cardinality(Detailed) + c
      <4>1. Cardinality(Detailed') = Cardinality(Detailed) + Cardinality(cells) - Cardinality({})
        BY <3>2, <3>3, <3>4, <3>5, FS_Union
      <4>2. Cardinality(Detailed) \in Nat /\ c \in Nat
        BY <1>5, <3>4, FS_CardinalityType
      <4> QED
        BY <3>5, <4>1, <4>2, FS_EmptySet
    <3>7. totals["VALID"] = Cardinality(Detailed)
      BY <1>1, <2>4 DEF Details, DetailsAddUp
    <3> QED
      BY <1>6, <3>6, <3>7
  <2> QED
    BY <2>2, <2>3, <2>4 DEF Details, DetailsAddUp
<1> QED
  BY <1>8, <1>9

LEMMA NextDetails == ScanInv /\ Details /\ [ScanNext]_indexerVars => Details'
<1> SUFFICES ASSUME ScanInv, Details, [ScanNext]_indexerVars
             PROVE  Details'
  OBVIOUS
<1>1. CASE UNCHANGED <<scanned_rooms, next, room_details, totals>>
  BY <1>1 DEF Details, DetailsAddUp, Detailed
<1>2. CASE \/ Elapse \/ Finish \/ UNCHANGED indexerVars
           \/ \E room \in Rooms, r \in Records : Post(room, r)
  BY <1>1, <1>2 DEF Elapse, Finish, Post, indexerVars, scanVars
<1>3. CASE DiscoverJson \/ DiscoverText \/ \E names \in Explicit : Begin(names)
  <2>1. /\ phase \in {"start", "plain"}
        /\ next' = next /\ room_details' = room_details /\ totals' = totals
    BY <1>3 DEF DiscoverJson, DiscoverText, Begin
  <2>2. next = 1
    BY <2>1 DEF ScanInv, Phases
  <2> QED
    BY <2>1, <2>2, ChosenDetails
<1> QED
  BY <1>2, <1>3, FetchDetails DEF ScanNext

\* Whatever rooms are discovered or named: the total of verified records is the number of those
\* that were fetched and, unless a room was named twice, what the details of the rooms add up to.
THEOREM CountsAgreeAlways == ScanSpec => []CountsAgree
<1>1. ScanInit => Details
  <2> SUFFICES ASSUME ScanInit PROVE Details
    OBVIOUS
  <2>1. DOMAIN room_details = {} /\ totals["VALID"] = 0
    BY DEF ScanInit, Statuses
  <2>2. Detailed = {}
    BY <2>1 DEF Detailed
  <2> QED
    BY <2>1, <2>2, FS_EmptySet DEF Details, DetailsAddUp
<1>2. ScanInv /\ Details => CountsAgree
  BY DEF ScanInv, Details, CountsAgree
<1> QED
  BY ScanInvariance, NextDetails, <1>1, <1>2, PTL DEF ScanSpec

\* The types of the state of the scan and of the server, and what a total is of.
THEOREM IndexerTypesCorrect == LiveIndexerSpec => []TypesOK
  BY ScanTypeCorrect, CountsAgreeAlways, ServerTypeCorrect, PTL DEF LiveIndexerSpec, TypesOK
=============================================================================
