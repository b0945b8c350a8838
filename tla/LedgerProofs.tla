---------------------------- MODULE LedgerProofs ----------------------------
(***************************************************************************)
(* The commands of the ledger, for every set of lines and digests, every   *)
(* export and every hash that behaves as HashAssumption says.  What a      *)
(* valid proof proves: one of inclusion for every path, index and size,    *)
(* one of consistency for every pair of sizes and every list of nodes an   *)
(* artifact may claim.  That an honest proof of either is accepted.  And   *)
(* what a commit leaves behind.                                            *)
(***************************************************************************)
EXTENDS LedgerCommands, FiniteSetTheorems, SequenceTheorems, WellFoundedInduction, TLAPS

-----------------------------------------------------------------------------
(* Recursive functions.  A recursive function is some function that satisfies  *)
(* its equation: nothing is known of it before one is shown to exist.  These   *)
(* lemmas show it of all that go up from a place to a smaller one, and allow   *)
(* induction on the way.                                                       *)

\* A set of numbers that is not empty has a least element.
LEMMA Least ==
    ASSUME NEW T, T \subseteq Nat, T # {}
    PROVE  \E x \in T : \A y \in T : x <= y
<1> DEFINE R == OpToRel(<, Nat)
<1>1. \A x, y \in Nat : x < y => <<x, y>> \in R
  BY DEF OpToRel
<1>2. IsWellFoundedOn(R, Nat)
  BY NatLessThanWellFounded
<1> HIDE DEF R
<1>3. PICK x \in T : \A y \in T : ~ (<<y, x>> \in R)
  BY <1>2, WFMin
<1>4. ASSUME NEW y \in T
      PROVE  x <= y
  <2>1. x \in Nat /\ y \in Nat /\ ~(y < x)
    BY <1>1, <1>3
  <2> QED
    BY <2>1
<1> QED
  BY <1>4

\* Places with a measure that falls on the way up, until one stops.
Falls(D, mu, up, Stop) ==
    /\ mu \in [D -> Nat] /\ up \in [D -> D]
    /\ \A x \in D : x \notin Stop => mu[up[x]] < mu[x]

\* What holds of a place when it holds of the next one up, holds of all places.
LEMMA FallsInduction ==
    ASSUME NEW D, NEW mu, NEW up, NEW Stop, Falls(D, mu, up, Stop),
           NEW P, \A x \in D : (x \notin Stop => up[x] \in P) => x \in P
    PROVE  D \subseteq P
<1> DEFINE Bad == {k \in Nat : \E x \in D : mu[x] = k /\ x \notin P}
<1>1. SUFFICES ASSUME Bad # {} PROVE FALSE
  BY DEF Falls
<1>2. PICK k \in Bad : \A j \in Bad : k <= j
  <2>1. Bad \subseteq Nat
    OBVIOUS
  <2> HIDE DEF Bad
  <2> QED
    BY <1>1, <2>1, Least
<1>3. PICK x \in D : mu[x] = k /\ x \notin P
  OBVIOUS
<1>4. x \notin Stop /\ up[x] \notin P
  BY <1>3
<1>5. up[x] \in D /\ mu[up[x]] \in Nat /\ mu[up[x]] < k
  BY <1>3, <1>4 DEF Falls
<1>6. mu[up[x]] \in Bad
  BY <1>4, <1>5
<1>7. k <= mu[up[x]] /\ k \in Nat
  BY <1>2, <1>6
<1> QED
  BY <1>5, <1>7

\* A function whose value comes from its own value at a smaller place.
IsStep(D, R, mu, up, step, base, Stop) ==
    Falls(D, mu, up, Stop) /\ step \in [D \X R -> R] /\ base \in [D -> R]

Recurses(f, D, up, step, base, Stop) ==
    \A x \in D : f[x] = IF x \in Stop THEN base[x] ELSE step[<<x, f[up[x]]>>]

UpTo(D, mu, most) == {x \in D : mu[x] <= most}

\* There is one, on the places of up to any measure.
LEMMA RecursionTo ==
    ASSUME NEW D, NEW R, NEW mu, NEW up, NEW step, NEW base, NEW Stop,
           IsStep(D, R, mu, up, step, base, Stop),
           NEW most \in Nat
    PROVE  \E f \in [UpTo(D, mu, most) -> R] :
              Recurses(f, UpTo(D, mu, most), up, step, base, Stop)
<1> DEFINE To(k) == UpTo(D, mu, k)
           Is(f, k) == f \in [To(k) -> R] /\ Recurses(f, To(k), up, step, base, Stop)
           Bad == {k \in Nat : ~\E f : Is(f, k)}
<1> USE DEF IsStep, Falls, UpTo
<1>1. SUFFICES ASSUME Bad # {} PROVE FALSE
  OBVIOUS
<1>2. PICK k \in Bad : \A j \in Bad : k <= j
  <2>1. Bad \subseteq Nat
    OBVIOUS
  <2> HIDE DEF Bad
  <2> QED
    BY <1>1, <2>1, Least
<1>3. k \in Nat
  OBVIOUS
<1>4. CASE k = 0
  <2>1. \A x \in To(0) : x \in D /\ x \in Stop
    OBVIOUS
  <2>2. PICK f : f = [x \in To(0) |-> base[x]]
    OBVIOUS
  <2>3. f \in [To(0) -> R]
    BY <2>2
  <2>4. Recurses(f, To(0), up, step, base, Stop)
    BY <2>1, <2>2 DEF Recurses
  <2> QED
    BY <1>2, <1>4, <2>3, <2>4
<1>5. CASE k # 0
  <2>1. k - 1 \in Nat /\ ~(k <= k - 1)
    BY <1>3, <1>5
  <2>2. PICK g : Is(g, k - 1)
    BY <1>2, <2>1
  <2>3. g \in [To(k - 1) -> R]
    BY <2>2
  <2>4. \A x \in To(k - 1) : g[x] = IF x \in Stop THEN base[x] ELSE step[<<x, g[up[x]]>>]
    BY <2>2 DEF Recurses
  <2>5. PICK f : f = [x \in To(k) |-> IF x \in Stop THEN base[x] ELSE step[<<x, g[up[x]]>>]]
    OBVIOUS
  <2>6. ASSUME NEW x \in To(k), x \notin Stop PROVE up[x] \in To(k - 1) /\ up[x] \in To(k)
    <3>1. x \in D /\ mu[x] <= k /\ mu[x] \in Nat /\ up[x] \in D /\ mu[up[x]] \in Nat
      OBVIOUS
    <3>2. mu[up[x]] < mu[x]
      BY <2>6, <3>1
    <3>3. mu[up[x]] <= k - 1 /\ mu[up[x]] <= k
      BY <3>1, <3>2, <1>3
    <3> QED
      BY <3>1, <3>3
  <2>7. f \in [To(k) -> R]
    <3>1. ASSUME NEW x \in To(k) PROVE f[x] \in R
      <4>1. CASE x \in Stop
        BY <4>1, <2>5
      <4>2. CASE x \notin Stop
        <5>1. g[up[x]] \in R /\ x \in D
          BY <4>2, <2>6, <2>3
        <5>2. step[<<x, g[up[x]]>>] \in R
          BY <5>1
        <5> QED
          BY <5>2, <4>2, <2>5
      <4> QED
        BY <4>1, <4>2
    <3> QED
      BY <3>1, <2>5
  <2>8. ASSUME NEW x \in To(k - 1) PROVE f[x] = g[x]
    <3>1. x \in To(k)
      BY <1>3
    <3> QED
      BY <3>1, <2>4, <2>5
  <2>9. Recurses(f, To(k), up, step, base, Stop)
    <3>1. ASSUME NEW x \in To(k)
          PROVE  f[x] = IF x \in Stop THEN base[x] ELSE step[<<x, f[up[x]]>>]
      BY <2>5, <2>6, <2>8
    <3> HIDE DEF To
    <3> QED
      BY <3>1 DEF Recurses
  <2>10. Is(f, k)
    BY <2>7, <2>9
  <2> QED
    BY <2>10, <1>2
<1> QED
  BY <1>4, <1>5

\* Two that are both so agree where both are defined.
LEMMA RecursionUnique ==
    ASSUME NEW D, NEW R, NEW mu, NEW up, NEW step, NEW base, NEW Stop,
           IsStep(D, R, mu, up, step, base, Stop),
           NEW most \in Nat, NEW bound \in Nat, NEW f, NEW g,
           Recurses(f, UpTo(D, mu, most), up, step, base, Stop),
           Recurses(g, UpTo(D, mu, bound), up, step, base, Stop),
           NEW y \in D, mu[y] <= most, mu[y] <= bound
    PROVE  f[y] = g[y]
<1> DEFINE P == {x \in D : mu[x] <= most /\ mu[x] <= bound => f[x] = g[x]}
<1>1. ASSUME NEW x \in D, x \notin Stop => up[x] \in P
      PROVE  x \in P
  <2> SUFFICES ASSUME mu[x] <= most, mu[x] <= bound
               PROVE  f[x] = g[x]
    OBVIOUS
  <2>1. x \in UpTo(D, mu, most) /\ x \in UpTo(D, mu, bound)
    BY DEF UpTo
  <2>2. /\ f[x] = IF x \in Stop THEN base[x] ELSE step[<<x, f[up[x]]>>]
        /\ g[x] = IF x \in Stop THEN base[x] ELSE step[<<x, g[up[x]]>>]
    BY <2>1 DEF Recurses
  <2>3. x \notin Stop => f[up[x]] = g[up[x]]
    <3>1. x \notin Stop => /\ mu[x] \in Nat /\ mu[up[x]] \in Nat /\ mu[up[x]] < mu[x]
                           /\ up[x] \in P
      BY <1>1 DEF IsStep, Falls
    <3> QED
      BY <3>1
  <2> QED
    BY <2>2, <2>3
<1> HIDE DEF P
<1>2. D \subseteq P
  BY <1>1, FallsInduction DEF IsStep
<1> QED
  BY <1>2 DEF P

\* There is one on all places.
LEMMA Recursion ==
    ASSUME NEW D, NEW R, NEW mu, NEW up, NEW step, NEW base, NEW Stop,
           IsStep(D, R, mu, up, step, base, Stop)
    PROVE  \E f \in [D -> R] : Recurses(f, D, up, step, base, Stop)
<1> DEFINE To(k) == UpTo(D, mu, k)
           Is(f, k) == f \in [To(k) -> R] /\ Recurses(f, To(k), up, step, base, Stop)
           F(k) == CHOOSE f : Is(f, k)
<1>1. ASSUME NEW k \in Nat PROVE Is(F(k), k)
  <2>1. \E f \in [To(k) -> R] : Recurses(f, To(k), up, step, base, Stop)
    BY RecursionTo
  <2>2. \E f : Is(f, k)
    BY <2>1
  <2> HIDE DEF Is
  <2> QED
    BY <2>2
<1> USE DEF IsStep, Falls
<1>2. PICK f : f = [x \in D |-> F(mu[x])[x]]
  OBVIOUS
<1> HIDE DEF F
<1>3. ASSUME NEW x \in D PROVE f[x] \in R /\ f[x] = F(mu[x])[x]
  <2>1. mu[x] \in Nat /\ x \in To(mu[x])
    BY DEF UpTo
  <2>2. F(mu[x]) \in [To(mu[x]) -> R]
    BY <1>1, <2>1
  <2> QED
    BY <2>1, <2>2, <1>2
<1>4. ASSUME NEW x \in D
      PROVE  f[x] = IF x \in Stop THEN base[x] ELSE step[<<x, f[up[x]]>>]
  <2>1. mu[x] \in Nat /\ up[x] \in D /\ mu[up[x]] \in Nat
    OBVIOUS
  <2>2. F(mu[x])[x] = IF x \in Stop THEN base[x] ELSE step[<<x, F(mu[x])[up[x]]>>]
    <3>1. Recurses(F(mu[x]), To(mu[x]), up, step, base, Stop)
      BY <1>1, <2>1
    <3>2. x \in To(mu[x])
      BY <2>1 DEF UpTo
    <3> QED
      BY <3>1, <3>2 DEF Recurses
  <2>3. CASE x \in Stop
    BY <2>2, <2>3, <1>3
  <2>4. CASE x \notin Stop
    <3>1. mu[up[x]] <= mu[x] /\ mu[up[x]] <= mu[up[x]]
      BY <2>1, <2>4
    <3>2. Recurses(F(mu[x]), UpTo(D, mu, mu[x]), up, step, base, Stop)
      BY <1>1, <2>1
    <3>3. Recurses(F(mu[up[x]]), UpTo(D, mu, mu[up[x]]), up, step, base, Stop)
      BY <1>1, <2>1
    <3> HIDE DEF IsStep, Falls
    <3>4. F(mu[x])[up[x]] = F(mu[up[x]])[up[x]]
      BY <2>1, <3>1, <3>2, <3>3, RecursionUnique
    <3> QED
      BY <2>1, <2>2, <2>4, <3>4, <1>3
  <2> QED
    BY <2>3, <2>4
<1>5. f \in [D -> R]
  BY <1>2, <1>3
<1> QED
  BY <1>4, <1>5 DEF Recurses

\* The same for one that puts something in front of its own value.
IsWay(D, V, mu, up, pre, base, Stop) ==
    Falls(D, mu, up, Stop) /\ pre \in [D -> Seq(V)] /\ base \in [D -> Seq(V)]

Descends(f, D, up, pre, base, Stop) ==
    \A x \in D : f[x] = IF x \in Stop THEN base[x] ELSE pre[x] \o f[up[x]]

LEMMA Descent ==
    ASSUME NEW D, NEW V, NEW mu, NEW up, NEW pre, NEW base, NEW Stop,
           IsWay(D, V, mu, up, pre, base, Stop)
    PROVE  /\ \E f \in [D -> Seq(V)] : Descends(f, D, up, pre, base, Stop)
           /\ \A f : Descends(f, D, up, pre, base, Stop) => \A y \in D : f[y] \in Seq(V)
<1>1. PICK step : step = [xr \in D \X Seq(V) |-> pre[xr[1]] \o xr[2]]
  OBVIOUS
<1>2. IsStep(D, Seq(V), mu, up, step, base, Stop)
  <2>1. ASSUME NEW xr \in D \X Seq(V) PROVE pre[xr[1]] \o xr[2] \in Seq(V)
    <3>1. pre[xr[1]] \in Seq(V) /\ xr[2] \in Seq(V)
      BY DEF IsWay
    <3> QED
      BY <3>1
  <2> QED
    BY <1>1, <2>1 DEF IsWay, IsStep
<1>3. ASSUME NEW x \in D, NEW r \in Seq(V) PROVE step[<<x, r>>] = pre[x] \o r
  BY <1>1
<1>4. ASSUME NEW f, Recurses(f, D, up, step, base, Stop), \A x \in D : f[x] \in Seq(V)
      PROVE  Descends(f, D, up, pre, base, Stop)
  BY <1>3, <1>4 DEF Recurses, Descends, IsWay, Falls
<1>5. \E f \in [D -> Seq(V)] : Descends(f, D, up, pre, base, Stop)
  <2>1. PICK f \in [D -> Seq(V)] : Recurses(f, D, up, step, base, Stop)
    BY <1>2, Recursion
  <2> QED
    BY <2>1, <1>4
<1>6. ASSUME NEW f, Descends(f, D, up, pre, base, Stop), NEW y \in D
      PROVE  f[y] \in Seq(V)
  <2> DEFINE P == {x \in D : f[x] \in Seq(V)}
  <2>1. ASSUME NEW x \in D, x \notin Stop => up[x] \in P PROVE x \in P
    <3>1. pre[x] \in Seq(V) /\ base[x] \in Seq(V)
      BY DEF IsWay
    <3>2. x \notin Stop => pre[x] \o f[up[x]] \in Seq(V)
      BY <2>1, <3>1
    <3> QED
      BY <3>1, <3>2, <1>6 DEF Descends
  <2> HIDE DEF P
  <2>2. D \subseteq P
    BY <2>1, FallsInduction DEF IsWay
  <2> QED
    BY <2>2 DEF P
<1> QED
  BY <1>5, <1>6

-----------------------------------------------------------------------------
(* The recursive functions of Merkle satisfy their equations *)

LEMMA NodeDigest == \A l, r \in Digests : node_hash(l, r) \in Digests
  BY HashAssumption

LEMMA NextLevelType ==
    ASSUME NEW level \in Seq(Digests)
    PROVE  /\ next_level(level) \in Seq(Digests)
           /\ Len(next_level(level)) = (Len(level) + 1) \div 2
           /\ \A i \in 1..((Len(level) + 1) \div 2) :
                 next_level(level)[i] = IF 2 * i > Len(level) THEN level[2 * i - 1]
                                        ELSE node_hash(level[2 * i - 1], level[2 * i])
<1> DEFINE len == Len(level)
           up(i) == IF 2 * i > len THEN level[2 * i - 1] ELSE node_hash(level[2 * i - 1], level[2 * i])
<1>1. len \in Nat /\ (len + 1) \div 2 \in Nat
  OBVIOUS
<1>2. ASSUME NEW i \in 1..((len + 1) \div 2) PROVE up(i) \in Digests
  <2>1. 2 * i - 1 \in 1..len
    BY <1>1
  <2>2. 2 * i <= len => 2 * i \in 1..len
    BY <1>1
  <2>3. level[2 * i - 1] \in Digests
    BY <2>1
  <2>4. 2 * i <= len => node_hash(level[2 * i - 1], level[2 * i]) \in Digests
    BY <2>2, <2>3, NodeDigest
  <2> QED
    BY <2>3, <2>4, <1>1
<1>3. next_level(level) = [i \in 1..((len + 1) \div 2) |-> up(i)]
  BY DEF next_level
<1> HIDE DEF up
<1>4. next_level(level) \in Seq(Digests) /\ Len(next_level(level)) = (len + 1) \div 2
  BY <1>1, <1>2, <1>3
<1>5. \A i \in 1..((len + 1) \div 2) : next_level(level)[i] = up(i)
  BY <1>3
<1> QED
  BY <1>4, <1>5 DEF up

\* A level with more than one node is longer than the next.
LEMMA Shorter ==
    ASSUME NEW len \in Nat, ~(len <= 1)
    PROVE  (len + 1) \div 2 \in Nat /\ (len + 1) \div 2 < len
  OBVIOUS

IsTop(f) == f = [level \in Seq(Digests) |-> IF Len(level) <= 1 THEN level ELSE f[next_level(level)]]

LEMMA TopLevel ==
    /\ IsTop(top_level)
    /\ \A level \in Seq(Digests) : top_level[level] \in Seq(Digests)
<1> DEFINE D == Seq(Digests)
<1>1. PICK mu : mu = [level \in D |-> Len(level)]
  OBVIOUS
<1>2. PICK up : up = [level \in D |-> next_level(level)]
  OBVIOUS
<1>3. PICK pre : pre = [level \in D |-> << >>]
  OBVIOUS
<1>4. PICK base : base = [level \in D |-> level]
  OBVIOUS
<1>5. PICK Stop : Stop = {level \in D : Len(level) <= 1}
  OBVIOUS
<1>6. IsWay(D, Digests, mu, up, pre, base, Stop)
  <2>1. ASSUME NEW x \in D, x \notin Stop PROVE mu[up[x]] < mu[x]
    <3>1. Len(x) \in Nat /\ ~(Len(x) <= 1)
      BY <2>1, <1>5
    <3>2. mu[x] = Len(x) /\ mu[up[x]] = (Len(x) + 1) \div 2
      BY <1>1, <1>2, NextLevelType
    <3> QED
      BY <3>1, <3>2, Shorter
  <2>2. mu \in [D -> Nat] /\ up \in [D -> D] /\ pre \in [D -> Seq(Digests)] /\ base \in [D -> Seq(Digests)]
    BY <1>1, <1>2, <1>3, <1>4, NextLevelType
  <2> HIDE DEF D
  <2> QED
    BY <2>1, <2>2 DEF IsWay, Falls
<1>7. ASSUME NEW x \in D
      PROVE  /\ next_level(x) \in D /\ up[x] = next_level(x) /\ pre[x] = << >> /\ base[x] = x
             /\ x \in Stop <=> Len(x) <= 1
  BY <1>2, <1>3, <1>4, <1>5, NextLevelType
<1>8. PICK g \in [D -> Seq(Digests)] : Descends(g, D, up, pre, base, Stop)
  BY <1>6, Descent
<1>9. IsTop(g)
  <2>1. ASSUME NEW x \in D PROVE g[x] = IF Len(x) <= 1 THEN x ELSE g[next_level(x)]
    <3>1. << >> \o g[next_level(x)] = g[next_level(x)]
      BY <1>7, <1>8
    <3>2. g[x] = IF x \in Stop THEN base[x] ELSE pre[x] \o g[up[x]]
      BY <1>8 DEF Descends
    <3> QED
      BY <3>1, <3>2, <1>7
  <2>2. g = [x \in D |-> g[x]]
    BY <1>8
  <2> QED
    BY <2>1, <2>2 DEF IsTop
<1>10. IsTop(top_level)
  <2>1. top_level = CHOOSE f : IsTop(f)
    BY DEF top_level, IsTop
  <2> QED
    BY <2>1, <1>9
<1>11. D \subseteq {x \in D : top_level[x] \in D}
  <2> DEFINE P == {x \in D : top_level[x] \in D}
  <2>1. ASSUME NEW x \in D, x \notin Stop => up[x] \in P PROVE x \in P
    <3>1. top_level[x] = IF Len(x) <= 1 THEN x ELSE top_level[next_level(x)]
      BY <1>10 DEF IsTop
    <3> QED
      BY <3>1, <2>1, <1>7
  <2> HIDE DEF P, D
  <2>2. D \subseteq P
    BY <2>1, <1>6, FallsInduction DEF IsWay
  <2> QED
    BY <2>2 DEF P
<1> QED
  BY <1>10, <1>11

\* What holds of a level when it holds of the next one, holds of all levels.
LEMMA LevelInduction ==
    ASSUME NEW P, \A level \in Seq(Digests) : (~(Len(level) <= 1) => next_level(level) \in P) => level \in P
    PROVE  \A level \in Seq(Digests) : level \in P
<1> DEFINE D == Seq(Digests)
<1>1. PICK mu : mu = [level \in D |-> Len(level)]
  OBVIOUS
<1>2. PICK up : up = [level \in D |-> next_level(level)]
  OBVIOUS
<1>3. PICK pre : pre = [level \in D |-> << >>]
  OBVIOUS
<1>4. PICK Stop : Stop = {level \in D : Len(level) <= 1}
  OBVIOUS
<1>5. IsWay(D, Digests, mu, up, pre, pre, Stop)
  <2>1. ASSUME NEW x \in D, x \notin Stop PROVE mu[up[x]] < mu[x]
    <3>1. Len(x) \in Nat /\ ~(Len(x) <= 1)
      BY <2>1, <1>4
    <3>2. mu[x] = Len(x) /\ mu[up[x]] = (Len(x) + 1) \div 2
      BY <1>1, <1>2, NextLevelType
    <3> QED
      BY <3>1, <3>2, Shorter
  <2>2. mu \in [D -> Nat] /\ up \in [D -> D] /\ pre \in [D -> Seq(Digests)]
    BY <1>1, <1>2, <1>3, NextLevelType
  <2> HIDE DEF D
  <2> QED
    BY <2>1, <2>2 DEF IsWay, Falls
<1>6. ASSUME NEW x \in D, x \notin Stop => up[x] \in P PROVE x \in P
  <2>1. up[x] = next_level(x) /\ (x \in Stop <=> Len(x) <= 1)
    BY <1>2, <1>4
  <2> QED
    BY <2>1, <1>6
<1> HIDE DEF D
<1>7. D \subseteq P
  BY <1>5, <1>6, FallsInduction DEF IsWay
<1> QED
  BY <1>7 DEF D

\* The equations the recursive functions of Merkle are chosen by.
LEMMA TopStep ==
    ASSUME NEW level \in Seq(Digests)
    PROVE  top_level[level] = IF Len(level) <= 1 THEN level ELSE top_level[next_level(level)]
  BY TopLevel DEF IsTop

LEMMA OneOrNone == \A level, i : Sibling(level, i) = << >> \/ Sibling(level, i) = <<Sibling(level, i)[1]>>
  BY DEF Sibling

LEMMA SideType == \A len, i : SideOf(len, i) \in Seq({"left", "right"})
<1>1. << >> \in Seq({"left", "right"})
  OBVIOUS
<1>2. <<"left">> \in Seq({"left", "right"})
  OBVIOUS
<1>3. <<"right">> \in Seq({"left", "right"})
  OBVIOUS
<1> QED
  BY <1>1, <1>2, <1>3, Zenon DEF SideOf

IsPath(f) == f = [at \in Seq(Digests) \X Nat |->
                    IF Len(at[1]) <= 1 THEN << >>
                    ELSE Sibling(at[1], at[2]) \o f[<<next_level(at[1]), at[2] \div 2>>]]

LEMMA PathStep ==
    ASSUME NEW level \in Seq(Digests), NEW i \in Nat
    PROVE  path_above[<<level, i>>] =
              IF Len(level) <= 1 THEN << >>
              ELSE Sibling(level, i) \o path_above[<<next_level(level), i \div 2>>]
<1> DEFINE D == Seq(Digests) \X Nat
           V == {Sibling(at[1], at[2])[1] : at \in D}
<1>1. PICK mu : mu = [at \in D |-> Len(at[1])]
  OBVIOUS
<1>2. PICK up : up = [at \in D |-> <<next_level(at[1]), at[2] \div 2>>]
  OBVIOUS
<1>3. PICK pre : pre = [at \in D |-> Sibling(at[1], at[2])]
  OBVIOUS
<1>4. PICK base : base = [at \in D |-> << >>]
  OBVIOUS
<1>5. PICK Stop : Stop = {at \in D : Len(at[1]) <= 1}
  OBVIOUS
<1>6. ASSUME NEW x \in D
      PROVE  /\ x[1] \in Seq(Digests) /\ x[2] \in Nat /\ x[2] \div 2 \in Nat
             /\ next_level(x[1]) \in Seq(Digests)
             /\ up[x] = <<next_level(x[1]), x[2] \div 2>> /\ up[x] \in D
             /\ mu[x] = Len(x[1]) /\ mu[up[x]] = (Len(x[1]) + 1) \div 2
             /\ pre[x] = Sibling(x[1], x[2]) /\ base[x] = << >>
             /\ x \in Stop <=> Len(x[1]) <= 1
  <2>1. x[1] \in Seq(Digests) /\ x[2] \in Nat /\ x[2] \div 2 \in Nat
    OBVIOUS
  <2>2. next_level(x[1]) \in Seq(Digests) /\ Len(next_level(x[1])) = (Len(x[1]) + 1) \div 2
    BY <2>1, NextLevelType
  <2>3. up[x] = <<next_level(x[1]), x[2] \div 2>> /\ up[x] \in D
    BY <2>1, <2>2, <1>2
  <2>4. mu[up[x]] = (Len(x[1]) + 1) \div 2 /\ mu[x] = Len(x[1])
    BY <2>2, <2>3, <1>1
  <2> QED
    BY <2>1, <2>2, <2>3, <2>4, <1>3, <1>4, <1>5
<1>7. IsWay(D, V, mu, up, pre, base, Stop)
  <2> HIDE DEF D
  <2>1. ASSUME NEW x \in D, x \notin Stop PROVE mu[up[x]] < mu[x]
    <3>a. x[1] \in Seq(Digests) /\ (x \in Stop <=> Len(x[1]) <= 1)
      BY <1>6
    <3>1. Len(x[1]) \in Nat /\ ~(Len(x[1]) <= 1)
      BY <2>1, <3>a
    <3>2. mu[x] = Len(x[1]) /\ mu[up[x]] = (Len(x[1]) + 1) \div 2
      BY <1>6
    <3> QED
      BY <3>1, <3>2, Shorter
  <2>2. ASSUME NEW x \in D PROVE pre[x] \in Seq(V)
    <3>1. PICK s : s = Sibling(x[1], x[2])[1]
      OBVIOUS
    <3>2. s \in V
      BY <3>1 DEF V
    <3>3. pre[x] = Sibling(x[1], x[2])
      BY <1>6
    <3>4. pre[x] = << >> \/ pre[x] = <<s>>
      BY <3>1, <3>3, OneOrNone
    <3> HIDE DEF V
    <3>5. << >> \in Seq(V) /\ <<s>> \in Seq(V)
      BY <3>2
    <3> QED
      BY <3>4, <3>5
  <2>3. mu \in [D -> Nat]
    BY <1>1 DEF D
  <2>4. up \in [D -> D]
    BY <1>2, <1>6
  <2> HIDE DEF V
  <2>5. pre \in [D -> Seq(V)] /\ base \in [D -> Seq(V)]
    BY <1>3, <1>4, <2>2
  <2> QED
    BY <2>1, <2>3, <2>4, <2>5 DEF IsWay, Falls
<1>8. PICK g \in [D -> Seq(V)] : Descends(g, D, up, pre, base, Stop)
  <2> HIDE DEF D, V
  <2> QED
    BY <1>7, Descent
<1>9. IsPath(g)
  <2>1. ASSUME NEW x \in D
        PROVE g[x] = IF Len(x[1]) <= 1 THEN << >>
                     ELSE Sibling(x[1], x[2]) \o g[<<next_level(x[1]), x[2] \div 2>>]
    BY <1>6, <1>8 DEF Descends
  <2>2. g = [x \in D |-> g[x]]
    BY <1>8
  <2> QED
    BY <2>1, <2>2 DEF IsPath
<1>10. IsPath(path_above)
  <2>1. path_above = CHOOSE f : IsPath(f)
    BY DEF path_above, IsPath
  <2> QED
    BY <2>1, <1>9
<1>11. PICK at : at = <<level, i>>
  OBVIOUS
<1>12. at \in D /\ at[1] = level /\ at[2] = i
  BY <1>11
<1>13. path_above[at] = IF Len(at[1]) <= 1 THEN << >>
                        ELSE Sibling(at[1], at[2]) \o path_above[<<next_level(at[1]), at[2] \div 2>>]
  BY <1>10, <1>12 DEF IsPath
<1> QED
  BY <1>11, <1>12, <1>13

IsSides(f) == f = [at \in Nat \X Nat |->
                     IF at[1] <= 1 THEN << >>
                     ELSE SideOf(at[1], at[2]) \o f[<<(at[1] + 1) \div 2, at[2] \div 2>>]]

LEMMA SidesOf ==
    ASSUME NEW len \in Nat, NEW i \in Nat
    PROVE  /\ sides_above[<<len, i>>] \in Seq({"left", "right"})
           /\ sides_above[<<len, i>>] =
                 IF len <= 1 THEN << >>
                 ELSE SideOf(len, i) \o sides_above[<<(len + 1) \div 2, i \div 2>>]
<1> DEFINE D == Nat \X Nat
           V == {"left", "right"}
<1>1. PICK mu : mu = [at \in D |-> at[1]]
  OBVIOUS
<1>2. PICK up : up = [at \in D |-> <<(at[1] + 1) \div 2, at[2] \div 2>>]
  OBVIOUS
<1>3. PICK pre : pre = [at \in D |-> SideOf(at[1], at[2])]
  OBVIOUS
<1>4. PICK base : base = [at \in D |-> << >>]
  OBVIOUS
<1>5. PICK Stop : Stop = {at \in D : at[1] <= 1}
  OBVIOUS
<1>6. ASSUME NEW x \in D
      PROVE  /\ x[1] \in Nat /\ x[2] \in Nat
             /\ up[x] = <<(x[1] + 1) \div 2, x[2] \div 2>> /\ up[x] \in D
             /\ mu[x] = x[1] /\ mu[up[x]] = (x[1] + 1) \div 2
             /\ pre[x] = SideOf(x[1], x[2]) /\ base[x] = << >>
             /\ x \in Stop <=> x[1] <= 1
  <2>1. x[1] \in Nat /\ x[2] \in Nat /\ x[2] \div 2 \in Nat /\ (x[1] + 1) \div 2 \in Nat
    OBVIOUS
  <2>2. up[x] = <<(x[1] + 1) \div 2, x[2] \div 2>> /\ up[x] \in D
    BY <2>1, <1>2
  <2>3. mu[up[x]] = (x[1] + 1) \div 2 /\ mu[x] = x[1]
    BY <2>2, <1>1
  <2> QED
    BY <2>1, <2>2, <2>3, <1>3, <1>4, <1>5
<1>7. IsWay(D, V, mu, up, pre, base, Stop)
  <2> HIDE DEF D
  <2>1. ASSUME NEW x \in D, x \notin Stop PROVE mu[up[x]] < mu[x]
    <3>1. x[1] \in Nat /\ ~(x[1] <= 1)
      BY <2>1, <1>6
    <3> QED
      BY <3>1, <1>6, Shorter
  <2>2. ASSUME NEW x \in D PROVE pre[x] \in Seq(V)
    BY <1>6, SideType
  <2>3. mu \in [D -> Nat]
    BY <1>1 DEF D
  <2>4. up \in [D -> D]
    BY <1>2, <1>6
  <2> HIDE DEF V
  <2>5. pre \in [D -> Seq(V)] /\ base \in [D -> Seq(V)]
    BY <1>3, <1>4, <2>2
  <2> QED
    BY <2>1, <2>3, <2>4, <2>5 DEF IsWay, Falls
<1>8. PICK g \in [D -> Seq(V)] : Descends(g, D, up, pre, base, Stop)
  <2> HIDE DEF D, V
  <2> QED
    BY <1>7, Descent
<1>9. IsSides(g)
  <2>1. ASSUME NEW x \in D
        PROVE g[x] = IF x[1] <= 1 THEN << >>
                     ELSE SideOf(x[1], x[2]) \o g[<<(x[1] + 1) \div 2, x[2] \div 2>>]
    <3>1. g[x] = IF x \in Stop THEN base[x] ELSE pre[x] \o g[up[x]]
      BY <1>8 DEF Descends
    <3> QED
      BY <3>1, <1>6
  <2>2. g = [x \in D |-> g[x]]
    BY <1>8
  <2> QED
    BY <2>1, <2>2 DEF IsSides
<1>10. IsSides(sides_above)
  <2>1. sides_above = CHOOSE f : IsSides(f)
    BY DEF sides_above, IsSides
  <2> QED
    BY <2>1, <1>9
<1>11. ASSUME NEW x \in D
       PROVE sides_above[x] = IF x[1] <= 1 THEN << >>
                              ELSE SideOf(x[1], x[2]) \o sides_above[<<(x[1] + 1) \div 2, x[2] \div 2>>]
  BY <1>10 DEF IsSides
<1>12. PICK at : at = <<len, i>>
  OBVIOUS
<1>13. at \in D /\ at[1] = len /\ at[2] = i
  BY <1>12
<1>14. Descends(sides_above, D, up, pre, base, Stop)
  <2>1. ASSUME NEW x \in D
        PROVE sides_above[x] = IF x \in Stop THEN base[x] ELSE pre[x] \o sides_above[up[x]]
    <3> HIDE DEF D
    <3>1. pre[x] = SideOf(x[1], x[2]) /\ base[x] = << >> /\ (x \in Stop <=> x[1] <= 1)
      BY <1>6
    <3>2. up[x] = <<(x[1] + 1) \div 2, x[2] \div 2>>
      BY <1>6
    <3> QED
      BY <3>1, <3>2, <1>11
  <2> HIDE DEF D
  <2> QED
    BY <2>1 DEF Descends
<1>15. sides_above[at] \in Seq(V)
  <2> HIDE DEF D, V
  <2> QED
    BY <1>7, <1>13, <1>14, Descent
<1> QED
  BY <1>11, <1>12, <1>13, <1>15

-----------------------------------------------------------------------------
(* The tree of an export, node by node *)

LEMMA Preimage ==
    ASSUME NEW l \in Digests, NEW r \in Digests, node_hash(l, r) \in Committed
    PROVE  /\ l \in Committed /\ r \in Committed
           /\ Span[node_hash(l, r)] = Span[l] \o Span[r]
           /\ \A x, y \in Digests : node_hash(x, y) = node_hash(l, r) => x = l /\ y = r
  BY HashAssumption

Root(level) == top_level[level][1]

LEMMA RootUp ==
    ASSUME NEW level \in Seq(Digests)
    PROVE  /\ Len(level) <= 1 => Root(level) = level[1]
           /\ ~(Len(level) <= 1) => Root(level) = Root(next_level(level))
  BY TopStep DEF Root

\* The two nodes of a place, and its own place on the next level.
LEMMA Places ==
    ASSUME NEW len \in Nat, NEW i \in Nat, i < len, ~(len <= 1)
    PROVE  /\ i \div 2 \in Nat /\ (len + 1) \div 2 \in Nat /\ i \div 2 < (len + 1) \div 2
           /\ i \div 2 + 1 \in 1..((len + 1) \div 2)
           /\ i % 2 = 1 => 2 * (i \div 2 + 1) = i + 1 /\ i \in 1..len /\ i + 1 \in 1..len
           /\ i % 2 # 1 => 2 * (i \div 2 + 1) = i + 2 /\ i + 1 \in 1..len
  OBVIOUS

\* The root is a digest.
LEMMA RootType ==
    ASSUME NEW level \in Seq(Digests), level # << >>
    PROVE  Root(level) \in Digests
<1> DEFINE P == {v \in Seq(Digests) : ~(Len(v) = 0) => Root(v) \in Digests}
<1>1. ASSUME NEW v \in Seq(Digests), ~(Len(v) <= 1) => next_level(v) \in P
      PROVE  v \in P
  <2>1. CASE Len(v) <= 1
    BY <2>1, RootUp
  <2>2. CASE ~(Len(v) <= 1)
    <3>1. PICK u \in Seq(Digests) : u = next_level(v) /\ Len(u) = (Len(v) + 1) \div 2
      BY NextLevelType
    <3>2. ~(Len(u) = 0)
      BY <2>2, <3>1
    <3> QED
      BY <1>1, <2>2, <3>1, <3>2, RootUp
  <2> QED
    BY <2>1, <2>2
<1> HIDE DEF P
<1>2. level \in P
  BY <1>1, LevelInduction
<1> QED
  BY <1>2 DEF P

\* Below a root that is an honest one, all nodes are.
LEMMA AllCommitted ==
    ASSUME NEW level \in Seq(Digests), Root(level) \in Committed, NEW k \in 1..Len(level)
    PROVE  level[k] \in Committed
<1> DEFINE P == {v \in Seq(Digests) : Root(v) \in Committed => \A j \in 1..Len(v) : v[j] \in Committed}
<1>1. ASSUME NEW v \in Seq(Digests), ~(Len(v) <= 1) => next_level(v) \in P
      PROVE  v \in P
  <2> SUFFICES ASSUME Root(v) \in Committed, NEW j \in 1..Len(v)
               PROVE  v[j] \in Committed
    OBVIOUS
  <2>1. CASE Len(v) <= 1
    <3>1. j = 1
      BY <2>1
    <3> QED
      BY <2>1, <3>1, RootUp
  <2>2. CASE ~(Len(v) <= 1)
    <3>1. PICK len \in Nat : len = Len(v)
      OBVIOUS
    <3>2. PICK u \in Seq(Digests) : /\ u = next_level(v) /\ Len(u) = (len + 1) \div 2
                                    /\ \A i \in 1..((len + 1) \div 2) :
                                          u[i] = IF 2 * i > len THEN v[2 * i - 1]
                                                 ELSE node_hash(v[2 * i - 1], v[2 * i])
      BY <3>1, NextLevelType
    <3>3. PICK i : i = (j + 1) \div 2
      OBVIOUS
    <3>4. i \in 1..((len + 1) \div 2) /\ (j = 2 * i - 1 \/ j = 2 * i) /\ j <= len /\ i \in Nat
      BY <3>1, <3>3
    <3>5. u[i] \in Committed
      <4>1. Root(u) \in Committed /\ u \in P
        BY <1>1, <2>2, <3>2, RootUp
      <4>2. i \in 1..Len(u)
        BY <3>2, <3>4
      <4> QED
        BY <4>1, <4>2
    <3>6. CASE 2 * i > len
      <4>1. j = 2 * i - 1
        BY <3>1, <3>4, <3>6
      <4> QED
        BY <3>2, <3>4, <3>5, <3>6, <4>1
    <3>7. CASE ~(2 * i > len)
      <4>1. 2 * i - 1 \in 1..len /\ 2 * i \in 1..len
        BY <3>4, <3>7
      <4>2. v[2 * i - 1] \in Digests /\ v[2 * i] \in Digests
        BY <3>1, <4>1
      <4>3. node_hash(v[2 * i - 1], v[2 * i]) \in Committed
        BY <3>2, <3>4, <3>5, <3>7
      <4>4. v[2 * i - 1] \in Committed /\ v[2 * i] \in Committed
        BY <4>2, <4>3, Preimage
      <4> QED
        BY <3>4, <4>4
    <3> QED
      BY <3>6, <3>7
  <2> QED
    BY <2>1, <2>2
<1> HIDE DEF P
<1>2. level \in P
  BY <1>1, LevelInduction
<1> QED
  BY <1>2 DEF P

\* A node without a sibling is promoted as it is.
LEMMA Promoted ==
    ASSUME NEW level \in Seq(Digests), NEW i \in Nat, i < Len(level), ~(Len(level) <= 1),
           SideOf(Len(level), i) = << >>
    PROVE  /\ next_level(level) \in Seq(Digests) /\ i \div 2 \in Nat
           /\ i \div 2 < Len(next_level(level))
           /\ next_level(level)[i \div 2 + 1] = level[i + 1]
           /\ Root(next_level(level)) = Root(level)
           /\ sides_above[<<Len(level), i>>] = sides_above[<<Len(next_level(level)), i \div 2>>]
           /\ path_above[<<level, i>>] = Sibling(level, i) \o path_above[<<next_level(level), i \div 2>>]
           /\ Sibling(level, i) = << >>
<1>1. PICK len \in Nat : len = Len(level)
  OBVIOUS
<1>2. i % 2 # 1 /\ ~(i + 1 < len)
  BY <1>1 DEF SideOf
<1>3. PICK j \in Nat : j = i \div 2
  OBVIOUS
<1>4. /\ j < (len + 1) \div 2 /\ j + 1 \in 1..((len + 1) \div 2)
      /\ 2 * (j + 1) = i + 2 /\ (len + 1) \div 2 \in Nat
  BY <1>1, <1>2, <1>3, Places
<1>5. PICK u \in Seq(Digests) : /\ u = next_level(level) /\ Len(u) = (len + 1) \div 2
                                /\ \A k \in 1..((len + 1) \div 2) :
                                      u[k] = IF 2 * k > len THEN level[2 * k - 1]
                                             ELSE node_hash(level[2 * k - 1], level[2 * k])
  BY <1>1, NextLevelType
<1>6. u[j + 1] = level[i + 1]
  <2>1. 2 * (j + 1) > len /\ 2 * (j + 1) - 1 = i + 1
    BY <1>1, <1>2, <1>4
  <2> QED
    BY <2>1, <1>4, <1>5
<1>7. sides_above[<<len, i>>] = sides_above[<<(len + 1) \div 2, j>>]
  <2>1. sides_above[<<(len + 1) \div 2, j>>] \in Seq({"left", "right"})
    BY <1>4, SidesOf
  <2>2. sides_above[<<len, i>>] = << >> \o sides_above[<<(len + 1) \div 2, j>>]
    BY <1>1, <1>3, SidesOf
  <2> QED
    BY <2>1, <2>2
<1>8. Sibling(level, i) = << >>
  BY <1>1, <1>2 DEF Sibling
<1>9. path_above[<<level, i>>] = Sibling(level, i) \o path_above[<<u, j>>]
  BY <1>3, <1>5, PathStep
<1>10. Root(u) = Root(level)
  BY <1>5, RootUp
<1> QED
  BY <1>1, <1>3, <1>4, <1>5, <1>6, <1>7, <1>8, <1>9, <1>10

\* A node with a sibling s is hashed with it, on the side that SideOf tells.
JoinsUp(level, i, u, j, s, side) ==
    /\ u = next_level(level) /\ j = i \div 2
    /\ j < Len(u) /\ Root(u) = Root(level)
    /\ level[i + 1] \in Digests
    /\ u[j + 1] = IF side = "left" THEN node_hash(s, level[i + 1]) ELSE node_hash(level[i + 1], s)
    /\ sides_above[<<Len(level), i>>] = << side >> \o sides_above[<<Len(u), j>>]
    /\ path_above[<<level, i>>] = << [sibling |-> s, position |-> side] >> \o path_above[<<u, j>>]

LEMMA Joined ==
    ASSUME NEW level \in Seq(Digests), NEW i \in Nat, i < Len(level), ~(Len(level) <= 1),
           SideOf(Len(level), i) # << >>
    PROVE  \E u \in Seq(Digests), j \in Nat, s \in Digests, side \in {"left", "right"} :
              JoinsUp(level, i, u, j, s, side)
<1>1. PICK len \in Nat : len = Len(level)
  OBVIOUS
<1>2. PICK j \in Nat : j = i \div 2
  OBVIOUS
<1>3. PICK u \in Seq(Digests) : /\ u = next_level(level) /\ Len(u) = (len + 1) \div 2
                                /\ \A k \in 1..((len + 1) \div 2) :
                                      u[k] = IF 2 * k > len THEN level[2 * k - 1]
                                             ELSE node_hash(level[2 * k - 1], level[2 * k])
  BY <1>1, NextLevelType
<1>4. j < Len(u) /\ j + 1 \in 1..((len + 1) \div 2)
  BY <1>1, <1>2, <1>3, Places
<1>5. Root(u) = Root(level)
  BY <1>3, RootUp
<1>6. i + 1 \in 1..len /\ level[i + 1] \in Digests
  BY <1>1
<1>7. /\ sides_above[<<len, i>>] = SideOf(len, i) \o sides_above[<<Len(u), j>>]
      /\ path_above[<<level, i>>] = Sibling(level, i) \o path_above[<<u, j>>]
  <2>1. sides_above[<<len, i>>] = SideOf(len, i) \o sides_above[<<(len + 1) \div 2, i \div 2>>]
    BY <1>1, SidesOf
  <2>2. path_above[<<level, i>>] = Sibling(level, i) \o path_above[<<next_level(level), i \div 2>>]
    BY <1>1, PathStep
  <2> QED
    BY <2>1, <2>2, <1>2, <1>3
<1>8. u[j + 1] = IF 2 * (j + 1) > len THEN level[2 * (j + 1) - 1]
                 ELSE node_hash(level[2 * (j + 1) - 1], level[2 * (j + 1)])
  BY <1>3, <1>4
<1>9. CASE i % 2 = 1
  <2>1. 2 * (j + 1) = i + 1 /\ i \in 1..len
    BY <1>1, <1>2, <1>9, Places
  <2>2. ~(2 * (j + 1) > len) /\ 2 * (j + 1) - 1 = i
    BY <1>1, <2>1
  <2>3. u[j + 1] = node_hash(level[i], level[i + 1])
    BY <1>8, <2>1, <2>2
  <2>4. PICK s \in Digests : s = level[i]
    BY <1>1, <2>1
  <2>5. SideOf(len, i) = << "left" >>
        /\ Sibling(level, i) = << [sibling |-> s, position |-> "left"] >>
    BY <1>9, <2>4 DEF SideOf, Sibling
  <2>9. JoinsUp(level, i, u, j, s, "left")
    BY <1>1, <1>2, <1>3, <1>4, <1>5, <1>6, <1>7, <2>3, <2>4, <2>5 DEF JoinsUp
  <2> QED
    BY <2>9
<1>10. CASE i % 2 # 1
  <2>1. i + 1 < len
    BY <1>1, <1>10 DEF SideOf
  <2>2. 2 * (j + 1) = i + 2
    BY <1>1, <1>2, <1>10, Places
  <2>3. ~(2 * (j + 1) > len) /\ 2 * (j + 1) - 1 = i + 1 /\ i + 2 \in 1..len
    BY <1>1, <2>1, <2>2
  <2>4. u[j + 1] = node_hash(level[i + 1], level[i + 2])
    BY <1>8, <2>2, <2>3
  <2>5. PICK s \in Digests : s = level[i + 2]
    BY <1>1, <2>3
  <2>6. SideOf(len, i) = << "right" >>
        /\ Sibling(level, i) = << [sibling |-> s, position |-> "right"] >>
    BY <1>1, <1>10, <2>1, <2>5 DEF SideOf, Sibling
  <2>9. JoinsUp(level, i, u, j, s, "right")
    BY <1>1, <1>2, <1>3, <1>4, <1>5, <1>6, <1>7, <2>4, <2>5, <2>6 DEF JoinsUp
  <2> QED
    BY <2>9
<1> QED
  BY <1>9, <1>10

-----------------------------------------------------------------------------
(* The audit path of an honest prover *)

Node == [sibling : Digests, position : {"left", "right"}]

Positions(path) == [k \in DOMAIN path |-> path[k].position]

LEMMA PositionsCons ==
    ASSUME NEW q \in Seq(Node), NEW e \in Node
    PROVE  /\ << e >> \o q \in Seq(Node)
           /\ Positions(<< e >> \o q) = << e.position >> \o Positions(q)
           /\ Positions(q) \in Seq({"left", "right"}) /\ Len(Positions(q)) = Len(q)
<1>1. PICK len \in Nat : len = Len(q) /\ DOMAIN q = 1..len
  OBVIOUS
<1>2. PICK p \in Seq(Node) : p = << e >> \o q
  <2>1. << e >> \in Seq(Node)
    OBVIOUS
  <2>2. << e >> \o q \in Seq(Node)
    BY <2>1, ConcatProperties
  <2> QED
    BY <2>2
<1>3. /\ Len(p) = len + 1 /\ DOMAIN p = 1..(len + 1) /\ p[1] = e
      /\ \A k \in 1..(len + 1) : k # 1 => p[k] = q[k - 1]
  BY <1>1, <1>2
<1>4. PICK z : z = [k \in 1..len |-> q[k].position]
  OBVIOUS
<1>5. \A k \in 1..len : q[k].position \in {"left", "right"}
  <2>1. \A k \in 1..len : q[k] \in Node
    BY <1>1
  <2>2. \A x \in Node : x.position \in {"left", "right"}
    BY DEF Node
  <2> QED
    BY <2>1, <2>2
<1>6. z \in Seq({"left", "right"}) /\ Len(z) = len
  BY <1>1, <1>4, <1>5
<1>7. z = Positions(q)
  BY <1>1, <1>4 DEF Positions
<1>8. e.position \in {"left", "right"}
  BY DEF Node
<1>9. PICK a \in {"left", "right"} : a = e.position
  BY <1>8
<1>10. PICK y : y = << a >> \o z
  OBVIOUS
<1>11. y = [k \in 1..(len + 1) |-> p[k].position]
  <2>1. Len(y) = len + 1 /\ y \in Seq({"left", "right"}) /\ y[1] = a
    BY <1>6, <1>9, <1>10
  <2>2. ASSUME NEW k \in 1..(len + 1) PROVE y[k] = p[k].position
    <3>1. CASE k = 1
      BY <2>1, <3>1, <1>3, <1>9
    <3>2. CASE k # 1
      <4>1. k - 1 \in 1..len /\ y[k] = z[k - 1]
        BY <3>2, <1>6, <1>10
      <4>2. z[k - 1] = q[k - 1].position /\ p[k] = q[k - 1]
        BY <4>1, <3>2, <1>3, <1>4
      <4> QED
        BY <4>1, <4>2
    <3> QED
      BY <3>1, <3>2
  <2> QED
    BY <2>1, <2>2
<1>12. y = Positions(p)
  BY <1>3, <1>11 DEF Positions
<1> QED
  BY <1>1, <1>2, <1>6, <1>7, <1>9, <1>10, <1>12

\* export_merkle_proof finds a sibling where expected_proof_directions expects one, and
\* on that side.
LEMMA PathOfSides ==
    ASSUME NEW level \in Seq(Digests), NEW i \in Nat, i < Len(level)
    PROVE  /\ path_above[<<level, i>>] \in Seq(Node)
           /\ Positions(path_above[<<level, i>>]) = sides_above[<<Len(level), i>>]
<1> DEFINE Q(v, k) == /\ path_above[<<v, k>>] \in Seq(Node)
                      /\ Positions(path_above[<<v, k>>]) = sides_above[<<Len(v), k>>]
           P == {v \in Seq(Digests) : \A k \in Nat : k < Len(v) => Q(v, k)}
<1>1. ASSUME NEW v \in Seq(Digests), ~(Len(v) <= 1) => next_level(v) \in P
      PROVE  v \in P
  <2> SUFFICES ASSUME NEW k \in Nat, k < Len(v)
               PROVE  Q(v, k)
    OBVIOUS
  <2>1. CASE Len(v) <= 1
    <3>1. path_above[<<v, k>>] = << >> /\ sides_above[<<Len(v), k>>] = << >>
      <4>1. Len(v) \in Nat
        OBVIOUS
      <4> QED
        BY <2>1, <4>1, PathStep, SidesOf
    <3>2. << >> \in Seq(Node) /\ Positions(<< >>) = << >>
      BY DEF Positions
    <3> QED
      BY <3>1, <3>2
  <2>2. CASE ~(Len(v) <= 1) /\ SideOf(Len(v), k) = << >>
    <3>1. PICK u \in Seq(Digests) : u = next_level(v)
      BY NextLevelType
    <3>2. PICK h \in Nat : h = k \div 2
      OBVIOUS
    <3>3. /\ h < Len(u)
          /\ sides_above[<<Len(v), k>>] = sides_above[<<Len(u), h>>]
          /\ path_above[<<v, k>>] = << >> \o path_above[<<u, h>>]
      <4>1. PICK t : t = Sibling(v, k)
        OBVIOUS
      <4>2. /\ h < Len(u) /\ t = << >>
            /\ sides_above[<<Len(v), k>>] = sides_above[<<Len(u), h>>]
            /\ path_above[<<v, k>>] = t \o path_above[<<u, h>>]
        BY <2>2, <3>1, <3>2, <4>1, Promoted
      <4> QED
        BY <4>2
    <3>4. Q(u, h)
      BY <1>1, <2>2, <3>1, <3>3
    <3>5. << >> \o path_above[<<u, h>>] = path_above[<<u, h>>]
      BY <3>4
    <3> QED
      BY <3>3, <3>4, <3>5
  <2>3. CASE ~(Len(v) <= 1) /\ SideOf(Len(v), k) # << >>
    <3>1. PICK u \in Seq(Digests), h \in Nat, s \in Digests, side \in {"left", "right"} :
             JoinsUp(v, k, u, h, s, side)
      BY <2>3, Joined
    <3>0. /\ h < Len(u) /\ u = next_level(v)
          /\ sides_above[<<Len(v), k>>] = << side >> \o sides_above[<<Len(u), h>>]
          /\ path_above[<<v, k>>] = << [sibling |-> s, position |-> side] >> \o path_above[<<u, h>>]
      BY <3>1 DEF JoinsUp
    <3>2. Q(u, h)
      BY <1>1, <2>3, <3>0
    <3>3. PICK e \in Node : e = [sibling |-> s, position |-> side] /\ e.position = side
      <4>1. [sibling |-> s, position |-> side] \in Node
        BY DEF Node
      <4> QED
        BY <4>1
    <3>4. PICK q \in Seq(Node) : q = path_above[<<u, h>>]
      BY <3>2
    <3>5. << e >> \o q \in Seq(Node) /\ Positions(<< e >> \o q) = << side >> \o Positions(q)
      BY <3>3, PositionsCons
    <3> QED
      BY <3>0, <3>2, <3>3, <3>4, <3>5
  <2> QED
    BY <2>1, <2>2, <2>3
<1> HIDE DEF P
<1>2. level \in P
  BY <1>1, LevelInduction
<1> HIDE DEF Q
<1>3. Q(level, i)
  BY <1>2 DEF P
<1> QED
  BY <1>3 DEF Q

\* Two places on the same way up.
SameWay(level, i, lv, j) ==
    /\ Root(lv) = Root(level)
    /\ lv[j + 1] = level[i + 1]
    /\ sides_above[<<Len(lv), j>>] = sides_above[<<Len(level), i>>]
    /\ path_above[<<lv, j>>] = path_above[<<level, i>>]

LEMMA SidesPromoted ==
    ASSUME NEW level \in Seq(Digests), NEW i \in Nat, i < Len(level), ~(Len(level) <= 1),
           SideOf(Len(level), i) = << >>
    PROVE  /\ SameWay(level, i, next_level(level), i \div 2)
           /\ next_level(level) \in Seq(Digests) /\ i \div 2 \in Nat /\ i \div 2 < Len(next_level(level))
<1>1. PICK u \in Seq(Digests) : u = next_level(level)
  BY NextLevelType
<1>2. PICK j \in Nat : j = i \div 2
  OBVIOUS
<1>3. /\ j < Len(u) /\ u[j + 1] = level[i + 1] /\ Root(u) = Root(level)
      /\ sides_above[<<Len(u), j>>] = sides_above[<<Len(level), i>>]
      /\ path_above[<<level, i>>] = << >> \o path_above[<<u, j>>]
  <2>1. PICK t : t = Sibling(level, i)
    OBVIOUS
  <2>2. /\ j < Len(u) /\ u[j + 1] = level[i + 1] /\ Root(u) = Root(level) /\ t = << >>
        /\ sides_above[<<Len(u), j>>] = sides_above[<<Len(level), i>>]
        /\ path_above[<<level, i>>] = t \o path_above[<<u, j>>]
    BY <1>1, <1>2, <2>1, Promoted
  <2> QED
    BY <2>2
<1>4. path_above[<<u, j>>] = << >> \o path_above[<<u, j>>]
  BY PathOfSides, <1>3
<1> QED
  BY <1>1, <1>2, <1>3, <1>4 DEF SameWay

\* Where sides are left, the way leads through a node with a sibling.
LEMMA Ascend ==
    ASSUME NEW level \in Seq(Digests), NEW i \in Nat, i < Len(level),
           sides_above[<<Len(level), i>>] # << >>
    PROVE  \E lv \in Seq(Digests), j \in Nat :
              /\ j < Len(lv) /\ ~(Len(lv) <= 1) /\ SideOf(Len(lv), j) # << >>
              /\ SameWay(level, i, lv, j)
<1> DEFINE Q(v, k) == \E lv \in Seq(Digests), j \in Nat :
                         /\ j < Len(lv) /\ ~(Len(lv) <= 1) /\ SideOf(Len(lv), j) # << >>
                         /\ SameWay(v, k, lv, j)
           P == {v \in Seq(Digests) : \A k \in Nat :
                    k < Len(v) /\ sides_above[<<Len(v), k>>] # << >> => Q(v, k)}
<1>1. ASSUME NEW v \in Seq(Digests), ~(Len(v) <= 1) => next_level(v) \in P
      PROVE  v \in P
  <2> SUFFICES ASSUME NEW k \in Nat, k < Len(v), sides_above[<<Len(v), k>>] # << >>
               PROVE  Q(v, k)
    OBVIOUS
  <2>1. ~(Len(v) <= 1)
    <3>1. Len(v) \in Nat
      OBVIOUS
    <3> QED
      BY <3>1, SidesOf
  <2>2. CASE SideOf(Len(v), k) # << >>
    <3>1. SameWay(v, k, v, k)
      BY DEF SameWay
    <3> QED
      BY <2>1, <2>2, <3>1
  <2>3. CASE SideOf(Len(v), k) = << >>
    <3>1. PICK u \in Seq(Digests) : u = next_level(v)
      BY NextLevelType
    <3>2. PICK h \in Nat : h = k \div 2
      OBVIOUS
    <3>3. SameWay(v, k, u, h) /\ h < Len(u)
      BY <2>1, <2>3, <3>1, <3>2, SidesPromoted
    <3>4. sides_above[<<Len(u), h>>] # << >>
      BY <3>3 DEF SameWay
    <3>5. u \in P
      BY <1>1, <2>1, <3>1
    <3>6. Q(u, h)
      BY <3>3, <3>4, <3>5
    <3>7. PICK lv \in Seq(Digests), j \in Nat :
             /\ j < Len(lv) /\ ~(Len(lv) <= 1) /\ SideOf(Len(lv), j) # << >>
             /\ SameWay(u, h, lv, j)
      BY <3>6
    <3>8. SameWay(v, k, lv, j)
      BY <3>3, <3>7 DEF SameWay
    <3> QED
      BY <3>7, <3>8
  <2> QED
    BY <2>2, <2>3
<1> HIDE DEF P
<1>2. level \in P
  BY <1>1, LevelInduction
<1> HIDE DEF Q
<1>3. Q(level, i)
  BY <1>2 DEF P
<1> QED
  BY <1>3 DEF Q

\* Where none are left, the node is the root.
LEMMA NoSidesLeft ==
    ASSUME NEW level \in Seq(Digests), NEW i \in Nat, i < Len(level),
           sides_above[<<Len(level), i>>] = << >>
    PROVE  level[i + 1] = Root(level)
<1> DEFINE P == {v \in Seq(Digests) : \A k \in Nat :
                    k < Len(v) /\ sides_above[<<Len(v), k>>] = << >> => v[k + 1] = Root(v)}
<1>1. ASSUME NEW v \in Seq(Digests), ~(Len(v) <= 1) => next_level(v) \in P
      PROVE  v \in P
  <2> SUFFICES ASSUME NEW k \in Nat, k < Len(v), sides_above[<<Len(v), k>>] = << >>
               PROVE  v[k + 1] = Root(v)
    OBVIOUS
  <2>1. CASE Len(v) <= 1
    <3>1. k + 1 = 1
      BY <2>1
    <3> QED
      BY <2>1, <3>1, RootUp
  <2>2. CASE ~(Len(v) <= 1)
    <3>1. SideOf(Len(v), k) = << >>
      <4> SUFFICES ASSUME SideOf(Len(v), k) # << >> PROVE FALSE
        OBVIOUS
      <4>1. PICK u \in Seq(Digests), j \in Nat, s \in Digests, side \in {"left", "right"} :
               JoinsUp(v, k, u, j, s, side)
        BY <2>2, Joined
      <4>2. PICK len \in Nat : len = Len(u)
        OBVIOUS
      <4>3. PICK rest \in Seq({"left", "right"}) : rest = sides_above[<<len, j>>]
        BY SidesOf
      <4>4. << side >> \o rest = << >>
        BY <4>1, <4>2, <4>3 DEF JoinsUp
      <4>5. Len(<< side >> \o rest) = 1 + Len(rest)
        OBVIOUS
      <4>6. Len(rest) \in Nat /\ 1 + Len(rest) = 0
        BY <4>4, <4>5
      <4> QED
        BY <4>6
    <3>2. PICK u \in Seq(Digests) : u = next_level(v)
      BY NextLevelType
    <3>3. PICK h \in Nat : h = k \div 2
      OBVIOUS
    <3>4. SameWay(v, k, u, h) /\ h < Len(u)
      BY <2>2, <3>1, <3>2, <3>3, SidesPromoted
    <3>5. sides_above[<<Len(u), h>>] = << >>
      BY <3>4 DEF SameWay
    <3>6. u[h + 1] = Root(u)
      BY <1>1, <2>2, <3>2, <3>4, <3>5
    <3> QED
      BY <3>4, <3>6 DEF SameWay
  <2> QED
    BY <2>1, <2>2
<1> HIDE DEF P
<1>2. level \in P
  BY <1>1, LevelInduction
<1> QED
  BY <1>2 DEF P

-----------------------------------------------------------------------------
(* Inclusion *)

\* A line stays among the lines under a digest that others are hashed onto.
LEMMA AmongJoined ==
    ASSUME NEW x, NEW s \in Seq(Lines), NEW t \in Seq(Lines), Among(x, s) \/ Among(x, t)
    PROVE  Among(x, s \o t)
<1>1. CASE Among(x, s)
  <2>1. PICK i \in DOMAIN s : s[i] = x
    BY <1>1 DEF Among
  <2>2. i \in DOMAIN (s \o t) /\ (s \o t)[i] = x
    BY <2>1
  <2> QED
    BY <2>2 DEF Among
<1>2. CASE Among(x, t)
  <2>1. PICK i \in DOMAIN t : t[i] = x
    BY <1>2 DEF Among
  <2>2. PICK a \in Nat : a = Len(s)
    OBVIOUS
  <2>3. /\ i + a \in DOMAIN (s \o t)
        /\ (s \o t)[i + a] = x
    BY <2>1, <2>2
  <2> QED
    BY <2>3 DEF Among
<1> QED
  BY <1>1, <1>2

\* The line is known to be under the digest x, if x is of an honest tree.
Traces(y, x) == x \in Committed => Among(y, Span[x])

\* Hashing any node in, on either side, keeps it so.
LEMMA HashKeepsTrace ==
    ASSUME NEW y \in Lines, NEW x \in Digests, NEW d \in Digests, Traces(y, x)
    PROVE  /\ node_hash(d, x) \in Digests /\ node_hash(x, d) \in Digests
           /\ Traces(y, node_hash(d, x)) /\ Traces(y, node_hash(x, d))
<1>1. node_hash(d, x) \in Digests /\ node_hash(x, d) \in Digests
  BY HashAssumption
<1>2. Traces(y, node_hash(d, x))
  <2> SUFFICES ASSUME node_hash(d, x) \in Committed
               PROVE  Among(y, Span[node_hash(d, x)])
    BY DEF Traces
  <2>1. /\ d \in Committed /\ x \in Committed
        /\ Span[node_hash(d, x)] = Span[d] \o Span[x]
    BY HashAssumption
  <2>2. Span[d] \in Seq(Lines) /\ Span[x] \in Seq(Lines)
    BY <2>1, HashAssumption
  <2>3. Among(y, Span[x])
    BY <2>1 DEF Traces
  <2> QED
    BY <2>1, <2>2, <2>3, AmongJoined
<1>3. Traces(y, node_hash(x, d))
  <2> SUFFICES ASSUME node_hash(x, d) \in Committed
               PROVE  Among(y, Span[node_hash(x, d)])
    BY DEF Traces
  <2>1. /\ d \in Committed /\ x \in Committed
        /\ Span[node_hash(x, d)] = Span[x] \o Span[d]
    BY HashAssumption
  <2>2. Span[d] \in Seq(Lines) /\ Span[x] \in Seq(Lines)
    BY <2>1, HashAssumption
  <2>3. Among(y, Span[x])
    BY <2>1 DEF Traces
  <2> QED
    BY <2>1, <2>2, <2>3, AmongJoined
<1> QED
  BY <1>1, <1>2, <1>3

\* A leaf is under its own digest.
LEMMA LeafTraces ==
    ASSUME NEW y \in Lines
    PROVE  export_leaf_hash(y) \in Digests /\ Traces(y, export_leaf_hash(y))
<1>1. export_leaf_hash(y) \in Committed => Span[export_leaf_hash(y)] = <<y>>
  BY HashAssumption
<1>2. Among(y, <<y>>)
  BY DEF Among
<1> QED
  BY <1>1, <1>2, HashAssumption DEF Traces

\* The inductive invariant: the digest recomputed so far traces the line, and
\* the verdict came from the comparison with the root.
InclusionInv == /\ line \in Lines
                /\ inclusion \in {"path", "valid"} => current \in Digests /\ Traces(line, current)
                /\ inclusion = "valid" => current = root

LEMMA InclusionInitInv == InclusionInit => InclusionInv
<1> SUFFICES ASSUME InclusionInit
             PROVE  line \in Lines
  BY DEF InclusionInit, InclusionInv
<1>1. export \in Seq(Lines)
  BY ExportsAssumption DEF InclusionInit, positions
<1>2. CASE honestPath
  <2>1. PICK k \in Nat : k = Len(export)
    BY <1>1
  <2>2. index + 1 \in 1..k
    BY <1>2, <2>1 DEF InclusionInit, positions
  <2>3. export[index + 1] \in Lines
    BY <1>1, <2>1, <2>2
  <2> QED
    BY <1>2, <2>3 DEF InclusionInit, positions
<1>3. CASE ~honestPath
  BY <1>3 DEF InclusionInit, positions
<1> QED
  BY <1>2, <1>3

LEMMA InclusionNextInv == InclusionInv /\ [InclusionNext]_inclusionVars => InclusionInv'
<1> SUFFICES ASSUME InclusionInv, [InclusionNext]_inclusionVars
             PROVE  InclusionInv'
  OBVIOUS
<1>1. CASE Shape
  <2>1. line' = line /\ line \in Lines
    BY <1>1 DEF Shape, claimed, InclusionInv
  <2>2. CASE inclusion' = "path"
    <3>1. current' = export_leaf_hash(line)
      BY <1>1, <2>2 DEF Shape
    <3> QED
      BY <2>1, <2>2, <3>1, LeafTraces DEF InclusionInv
  <2>3. CASE inclusion' = "invalid"
    BY <2>1, <2>3 DEF InclusionInv
  <2> QED
    BY <1>1, <2>2, <2>3 DEF Shape
<1>2. ASSUME NEW node \in Digests, Step(node)
      PROVE  InclusionInv'
  <2>1. /\ line' = line /\ inclusion' = inclusion /\ inclusion = "path"
        /\ current' = HashIn(node)
    BY <1>2 DEF Step, claimed
  <2>2. line \in Lines /\ current \in Digests /\ Traces(line, current)
    BY <2>1 DEF InclusionInv
  <2>3. current' \in Digests /\ Traces(line, current')
    BY <2>1, <2>2, HashKeepsTrace DEF HashIn
  <2> QED
    BY <2>1, <2>2, <2>3 DEF InclusionInv
<1>3. CASE CompareRoot
  <2>1. line' = line /\ current' = current /\ export' = export /\ inclusion = "path"
    BY <1>3 DEF CompareRoot, claimed
  <2>2. inclusion' = "valid" => current = root
    BY <1>3 DEF CompareRoot, ReachesRoot
  <2>3. root' = root
    BY <2>1 DEF root
  <2> QED
    BY <2>1, <2>2, <2>3 DEF InclusionInv
<1>4. CASE WrongPath
  BY <1>4 DEF WrongPath, claimed, InclusionInv
<1>5. CASE UNCHANGED inclusionVars
  BY <1>5 DEF inclusionVars, claimed, InclusionInv, root
<1> QED
  BY <1>1, <1>2, <1>3, <1>4, <1>5 DEF InclusionNext

-----------------------------------------------------------------------------
(* The invariant of a verification *)

\* How far a verification has come on its way up the tree of the export, if the
\* tree size it was told is the right one: it is at node i of a level; if it has
\* recomputed that very node, it began with the line of the index; and it follows
\* an honest prover's path.
At(level, i) ==
    /\ i < Len(level) /\ Root(level) = root
    /\ sides = sides_above[<<Len(level), i>>]
    /\ root \in Committed /\ current = level[i + 1] => line = export[index + 1]
    /\ honestPath => /\ current = level[i + 1]
                     /\ \E done \in Seq(Node) : HonestPath = done \o path_above[<<level, i>>]

ClaimInv ==
    /\ export \in Exports /\ export # << >>
    /\ line \in Lines
    /\ index \in Nat /\ size \in Nat /\ index < size
    /\ honestPath => size = Len(export) /\ line = export[index + 1]

ClimbInv ==
    /\ ClaimInv
    /\ inclusion = "path" /\ size = Len(export) => \E level \in Seq(Digests), i \in Nat : At(level, i)
    /\ inclusion = "valid" /\ size = Len(export) /\ root \in Committed => line = export[index + 1]
    /\ honestPath => inclusion # "invalid"

\* The leaves of an export, and the digest of each.
LEMMA Leaves ==
    ASSUME NEW lines \in Seq(Lines)
    PROVE  /\ _export_leaves(lines) \in Seq(Digests) /\ Len(_export_leaves(lines)) = Len(lines)
           /\ \A k \in 1..Len(lines) : _export_leaves(lines)[k] = export_leaf_hash(lines[k])
<1>1. PICK len \in Nat : len = Len(lines) /\ DOMAIN lines = 1..len
  OBVIOUS
<1>2. \A k \in 1..len : export_leaf_hash(lines[k]) \in Digests
  BY <1>1, LeafTraces
<1> QED
  BY <1>1, <1>2 DEF _export_leaves

LEMMA LeafPreimage ==
    ASSUME NEW x \in Lines, NEW y \in Lines, export_leaf_hash(x) = export_leaf_hash(y),
           export_leaf_hash(x) \in Committed
    PROVE  x = y
<1>1. Span[export_leaf_hash(x)] = <<x>> /\ Span[export_leaf_hash(y)] = <<y>>
  BY HashAssumption
<1>2. <<x>>[1] = <<y>>[1]
  BY <1>1
<1> QED
  BY <1>2

\* The directions of an honest path are the expected ones.
LEMMA HonestFits ==
    ASSUME ClaimInv, honestPath
    PROVE  PathFits
<1>1. export \in Seq(Lines)
  BY ExportsAssumption DEF ClaimInv
<1>2. PICK leaves \in Seq(Digests) : leaves = _export_leaves(export) /\ Len(leaves) = size
  BY <1>1, Leaves DEF ClaimInv
<1>3. HonestPath = path_above[<<leaves, index>>]
  BY <1>2 DEF HonestPath, export_merkle_proof
<1>4. Positions(HonestPath) = sides_above[<<size, index>>]
  BY <1>2, <1>3, PathOfSides DEF ClaimInv
<1> QED
  BY <1>4 DEF PathFits, Positions, expected_proof_directions

LEMMA ClimbInit == InclusionInit => ClimbInv
<1> SUFFICES ASSUME InclusionInit
             PROVE  ClimbInv
  OBVIOUS
<1>1. export \in Exports /\ export # << >> /\ export \in Seq(Lines) /\ inclusion = "shape"
  BY ExportsAssumption DEF InclusionInit
<1>2. size \in Nat
  BY <1>1, ExportsAssumption DEF InclusionInit
<1>3. index \in Nat /\ index < size
  BY <1>2 DEF InclusionInit, positions
<1>4. honestPath => size = Len(export) /\ line = export[index + 1]
  BY DEF InclusionInit
<1>5. line \in Lines
  BY InclusionInitInv DEF InclusionInv
<1> QED
  BY <1>1, <1>2, <1>3, <1>4, <1>5 DEF ClimbInv, ClaimInv

LEMMA ClaimKept ==
    ASSUME ClaimInv, UNCHANGED claimed
    PROVE  /\ ClaimInv' /\ root' = root /\ HonestPath' = HonestPath
           /\ export' = export /\ line' = line /\ index' = index /\ size' = size /\ honestPath' = honestPath
<1>1. /\ export' = export /\ line' = line /\ index' = index /\ size' = size /\ honestPath' = honestPath
  BY DEF claimed
<1> QED
  BY <1>1 DEF ClaimInv, root, HonestPath

LEMMA ConsIsSequence ==
    ASSUME NEW S, NEW e \in S, NEW q \in Seq(S)
    PROVE  /\ << e >> \o q \in Seq(S) /\ Len(<< e >> \o q) = Len(q) + 1
           /\ Head(<< e >> \o q) = e /\ (<< e >> \o q)[1] = e /\ Tail(<< e >> \o q) = q
  OBVIOUS

\* The node an honest prover's path goes on with.
IsPathThrough(path, done, e, left) == path = done \o (<< e >> \o left)

LEMMA NextOfPath ==
    ASSUME NEW done \in Seq(Node), NEW e \in Node, NEW left \in Seq(Node),
           NEW path, IsPathThrough(path, done, e, left)
    PROVE  /\ path[Len(path) - (Len(left) + 1) + 1] = e
           /\ done \o << e >> \in Seq(Node) /\ path = (done \o << e >>) \o left
<1> USE DEF IsPathThrough
<1>1. PICK a \in Nat, b \in Nat : a = Len(done) /\ b = Len(left)
  OBVIOUS
<1>2. PICK q \in Seq(Node) : q = << e >> \o left /\ Len(q) = b + 1 /\ q[1] = e
  <2>1. PICK q : q = << e >> \o left
    OBVIOUS
  <2>2. q \in Seq(Node) /\ Len(q) = b + 1 /\ q[1] = e
    BY <1>1, <2>1, ConsIsSequence
  <2> QED
    BY <2>1, <2>2
<1>3. path \in Seq(Node) /\ Len(path) = a + b + 1 /\ path[a + 1] = q[1]
  BY <1>1, <1>2
<1>4. Len(path) - (Len(left) + 1) + 1 = a + 1
  BY <1>1, <1>3
<1>5. << e >> \in Seq(Node)
  OBVIOUS
<1>6. done \o << e >> \in Seq(Node)
  BY <1>5, ConcatProperties
<1>7. (done \o << e >>) \o left = done \o (<< e >> \o left)
  BY <1>5, ConcatAssociative
<1> QED
  BY <1>2, <1>3, <1>4, <1>6, <1>7

\* The verification begins at the leaf of the index.
LEMMA ClimbShape == ASSUME ClimbInv, Shape PROVE ClimbInv'
<1>1. ClaimInv /\ UNCHANGED claimed
  BY DEF ClimbInv, Shape
<1>2. /\ ClaimInv' /\ root' = root /\ HonestPath' = HonestPath
      /\ export' = export /\ line' = line /\ index' = index /\ size' = size /\ honestPath' = honestPath
  BY <1>1, ClaimKept
<1>3. export \in Seq(Lines) /\ export # << >>
  BY <1>1, ExportsAssumption DEF ClaimInv
<1>4. CASE ~FitsExport
  <2>1. inclusion' = "invalid"
    BY <1>4 DEF Shape
  <2>2. ~honestPath
    BY <1>1, <1>4 DEF FitsExport, ClaimInv
  <2> QED
    BY <1>2, <2>1, <2>2 DEF ClimbInv
<1>5. CASE FitsExport
  <2>1. /\ inclusion' = "path" /\ sides' = expected_proof_directions(size, index)
        /\ current' = export_leaf_hash(line)
    BY <1>5 DEF Shape
  <2> SUFFICES ASSUME size = Len(export)
               PROVE  \E level \in Seq(Digests), i \in Nat : At(level, i)'
    BY <1>2, <2>1 DEF ClimbInv
  <2>2. PICK leaves \in Seq(Digests) :
           /\ leaves = _export_leaves(export) /\ Len(leaves) = size
           /\ \A k \in 1..size : leaves[k] = export_leaf_hash(export[k])
    BY <1>3, Leaves
  <2>3. index \in Nat /\ index + 1 \in 1..size /\ index < size
    BY <1>1 DEF ClaimInv
  <2>4. PICK own : own = export[index + 1]
    OBVIOUS
  <2>5. own \in Lines /\ leaves[index + 1] = export_leaf_hash(own)
    BY <1>3, <2>2, <2>3, <2>4
  <2>6. Root(leaves) = root
    <3>1. leaves # << >>
      BY <2>2, <2>3
    <3> QED
      BY <2>2, <3>1 DEF root, export_merkle_root, root_of, Root
  <2>7. root \in Committed /\ current' = leaves[index + 1] => line = own
    <3> SUFFICES ASSUME root \in Committed, export_leaf_hash(line) = export_leaf_hash(own)
                 PROVE  line = own
      BY <2>1, <2>5
    <3>1. leaves[index + 1] \in Committed
      BY <2>2, <2>3, <2>6, AllCommitted
    <3> QED
      BY <1>1, <2>5, <3>1, LeafPreimage DEF ClaimInv
  <2>8. honestPath => /\ current' = leaves[index + 1]
                      /\ \E done \in Seq(Node) : HonestPath = done \o path_above[<<leaves, index>>]
    <3> SUFFICES ASSUME honestPath
                 PROVE  /\ current' = leaves[index + 1]
                        /\ \E done \in Seq(Node) : HonestPath = done \o path_above[<<leaves, index>>]
      OBVIOUS
    <3>1. line = own
      BY <1>1, <2>4 DEF ClaimInv
    <3>2. PICK path \in Seq(Node) : path = path_above[<<leaves, index>>]
      BY <2>2, <2>3, PathOfSides
    <3>3. HonestPath = path
      BY <2>2, <3>2 DEF HonestPath, export_merkle_proof
    <3>4. << >> \in Seq(Node) /\ path = << >> \o path
      OBVIOUS
    <3> QED
      BY <2>1, <2>5, <3>1, <3>2, <3>3, <3>4
  <2>9. sides' = sides_above[<<Len(leaves), index>>]
    BY <2>1, <2>2 DEF expected_proof_directions
  <2>10. PICK i \in Nat : i = index
    BY <2>3
  <2>11. At(leaves, i)'
    BY <1>2, <2>2, <2>3, <2>4, <2>6, <2>7, <2>8, <2>9, <2>10 DEF At, Root
  <2> QED
    BY <2>11
<1> QED
  BY <1>4, <1>5

\* Of two hashes of which one is below an honest root, what went in is the same.
LEMMA SameHash ==
    ASSUME NEW l \in Digests, NEW r \in Digests, NEW x \in Digests, NEW y \in Digests,
           node_hash(l, r) \in Committed, node_hash(x, y) = node_hash(l, r)
    PROVE  x = l /\ y = r
  BY Preimage

\* A node read from the proof takes it one level up.
LEMMA ClimbStep ==
    ASSUME ClimbInv, NEW node \in Digests, Step(node), current \in Digests
    PROVE  ClimbInv'
<1>1. ClaimInv /\ UNCHANGED claimed /\ inclusion' = inclusion /\ inclusion = "path"
  BY DEF ClimbInv, Step
<1>2. /\ ClaimInv' /\ root' = root /\ HonestPath' = HonestPath
      /\ export' = export /\ line' = line /\ index' = index /\ size' = size /\ honestPath' = honestPath
  BY <1>1, ClaimKept
<1>3. sides # << >> /\ sides' = Tail(sides) /\ current' = HashIn(node)
  BY DEF Step
<1> SUFFICES ASSUME size = Len(export)
             PROVE  \E level \in Seq(Digests), i \in Nat : At(level, i)'
  BY <1>1, <1>2 DEF ClimbInv
<1>4. PICK low \in Seq(Digests), below \in Nat : At(low, below)
  BY <1>1 DEF ClimbInv
<1>5. PICK level \in Seq(Digests), i \in Nat :
         /\ i < Len(level) /\ ~(Len(level) <= 1) /\ SideOf(Len(level), i) # << >>
         /\ SameWay(low, below, level, i)
  <2>1. below < Len(low) /\ sides_above[<<Len(low), below>>] # << >>
    BY <1>3, <1>4 DEF At
  <2> QED
    BY <2>1, Ascend
<1>6. At(level, i)
  BY <1>4, <1>5 DEF At, SameWay
<1>7. PICK u \in Seq(Digests), j \in Nat, s \in Digests, side \in {"left", "right"} :
         JoinsUp(level, i, u, j, s, side)
  BY <1>5, Joined
<1>8. PICK rest : rest = sides_above[<<Len(u), j>>] /\ rest \in Seq({"left", "right"})
  <2>1. Len(u) \in Nat
    OBVIOUS
  <2> QED
    BY <2>1, SidesOf
<1>9. Head(sides) = side /\ sides' = rest
  <2>1. sides = << side >> \o rest
    BY <1>6, <1>7, <1>8 DEF At, JoinsUp
  <2>2. Head(<< side >> \o rest) = side /\ Tail(<< side >> \o rest) = rest
    BY <1>8, ConsIsSequence
  <2> QED
    BY <2>1, <2>2, <1>3
<1>10. PICK own \in Digests : own = level[i + 1]
  BY <1>7 DEF JoinsUp
<1>11. current' = IF side = "left" THEN node_hash(node, current) ELSE node_hash(current, node)
  BY <1>3, <1>9 DEF HashIn
<1>12. u[j + 1] = IF side = "left" THEN node_hash(s, own) ELSE node_hash(own, s)
  BY <1>7, <1>10 DEF JoinsUp
<1>13. j < Len(u) /\ Root(u) = root
  BY <1>6, <1>7 DEF JoinsUp, At
<1>14. root \in Committed /\ current' = u[j + 1] => line = export[index + 1]
  <2> SUFFICES ASSUME root \in Committed, current' = u[j + 1]
               PROVE  line = export[index + 1]
    OBVIOUS
  <2>1. j + 1 \in 1..Len(u)
    BY <1>13
  <2>2. u[j + 1] \in Committed
    BY <1>13, <2>1, AllCommitted
  <2>3. current = own
    BY <1>11, <1>12, <2>2, SameHash
  <2> QED
    BY <2>3, <1>6, <1>10 DEF At
<1>15. honestPath => /\ current' = u[j + 1]
                     /\ \E done \in Seq(Node) : HonestPath = done \o path_above[<<u, j>>]
  <2> SUFFICES ASSUME honestPath
               PROVE  /\ current' = u[j + 1]
                      /\ \E done \in Seq(Node) : HonestPath = done \o path_above[<<u, j>>]
    OBVIOUS
  <2>1. PICK done \in Seq(Node) : HonestPath = done \o path_above[<<level, i>>]
    BY <1>6 DEF At
  <2>2. PICK e \in Node : e = [sibling |-> s, position |-> side] /\ e.sibling = s
    <3>1. [sibling |-> s, position |-> side] \in Node
      BY DEF Node
    <3> QED
      BY <3>1
  <2>3. PICK left \in Seq(Node) : left = path_above[<<u, j>>] /\ Len(left) = Len(rest)
    <3>1. path_above[<<u, j>>] \in Seq(Node) /\ Positions(path_above[<<u, j>>]) = rest
      BY <1>8, <1>13, PathOfSides
    <3>2. PICK q \in Seq(Node) : q = path_above[<<u, j>>]
      BY <3>1
    <3>3. Len(Positions(q)) = Len(q)
      BY <2>2, PositionsCons
    <3> QED
      BY <3>1, <3>2, <3>3
  <2>4. HonestPath = done \o (<< e >> \o left)
    BY <1>7, <2>1, <2>2, <2>3 DEF JoinsUp
  <2>5. Len(sides) = Len(left) + 1
    <3>1. sides = << side >> \o rest
      BY <1>6, <1>7, <1>8 DEF At, JoinsUp
    <3>2. Len(<< side >> \o rest) = Len(rest) + 1
      BY <1>8, ConsIsSequence
    <3> QED
      BY <2>3, <3>1, <3>2
  <2>6. /\ HonestPath[Len(HonestPath) - (Len(left) + 1) + 1] = e
        /\ (done \o << e >>) \in Seq(Node) /\ HonestPath = (done \o << e >>) \o left
    <3>1. PICK path : path = HonestPath
      OBVIOUS
    <3>2. IsPathThrough(path, done, e, left)
      BY <2>4, <3>1 DEF IsPathThrough
    <3>3. /\ path[Len(path) - (Len(left) + 1) + 1] = e
          /\ done \o << e >> \in Seq(Node) /\ path = (done \o << e >>) \o left
      BY <3>2, NextOfPath
    <3> QED
      BY <3>1, <3>3
  <2>7. node = s
    BY <2>2, <2>5, <2>6 DEF Step, HonestNext
  <2>8. current = own
    BY <1>6, <1>10 DEF At
  <2>9. current' = u[j + 1]
    BY <1>11, <1>12, <2>7, <2>8
  <2> QED
    BY <2>3, <2>6, <2>9
<1>16. At(u, j)'
  BY <1>2, <1>8, <1>9, <1>13, <1>14, <1>15 DEF At, Root
<1> QED
  BY <1>16

\* The comparison with the root, and the paths that are refused.
LEMMA ClimbEnds ==
    ASSUME ClimbInv, CompareRoot \/ WrongPath
    PROVE  ClimbInv'
<1>1. ClaimInv /\ UNCHANGED claimed /\ inclusion = "path" /\ sides' = sides /\ current' = current
  BY DEF ClimbInv, CompareRoot, WrongPath
<1>2. /\ ClaimInv' /\ root' = root
      /\ export' = export /\ line' = line /\ index' = index /\ size' = size /\ honestPath' = honestPath
  BY <1>1, ClaimKept
<1>3. CASE WrongPath
  <2>1. inclusion' = "invalid" /\ ~honestPath
    BY <1>1, <1>3, HonestFits DEF WrongPath
  <2> QED
    BY <1>2, <2>1 DEF ClimbInv
<1>4. CASE CompareRoot
  <2>1. ASSUME size = Len(export)
        PROVE  /\ root \in Committed /\ current = root => line = export[index + 1]
               /\ honestPath => current = root
    <3>1. PICK level \in Seq(Digests), i \in Nat : At(level, i)
      BY <1>1, <2>1 DEF ClimbInv
    <3>2. i < Len(level) /\ sides_above[<<Len(level), i>>] = << >>
      BY <1>4, <3>1 DEF At, CompareRoot
    <3>3. level[i + 1] = root
      BY <3>1, <3>2, NoSidesLeft DEF At
    <3> QED
      BY <3>1, <3>3 DEF At
  <2>2. inclusion' = IF current = root THEN "valid" ELSE "invalid"
    BY <1>4 DEF CompareRoot, ReachesRoot
  <2>3. honestPath => size = Len(export)
    BY <1>1 DEF ClaimInv
  <2> QED
    BY <1>2, <2>1, <2>2, <2>3 DEF ClimbInv
<1> QED
  BY <1>3, <1>4

InclusionInductive == InclusionTypeOK /\ InclusionInv /\ ClimbInv

LEMMA InclusionTypeInit == InclusionInit => InclusionTypeOK
<1> SUFFICES ASSUME InclusionInit
             PROVE  InclusionTypeOK
  OBVIOUS
<1>1. ClaimInv
  BY ClimbInit DEF ClimbInv
<1>2. sides = << >> /\ << >> \in Seq({"left", "right"})
  BY DEF InclusionInit
<1>3. EmptyDigest \in Digests
  BY HashAssumption
<1> QED
  BY <1>1, <1>2, <1>3 DEF InclusionInit, InclusionTypeOK, ClaimInv

LEMMA InclusionTypeNext ==
    ASSUME InclusionTypeOK, [InclusionNext]_inclusionVars
    PROVE  InclusionTypeOK'
<1>1. UNCHANGED claimed
  BY DEF InclusionNext, Shape, Step, CompareRoot, WrongPath, inclusionVars
<1>2. /\ export' = export /\ line' = line /\ index' = index /\ size' = size
      /\ wholeExport' = wholeExport /\ honestPath' = honestPath
  BY <1>1 DEF claimed
<1> SUFFICES /\ inclusion' \in {"shape", "path", "valid", "invalid"}
             /\ sides' \in Seq({"left", "right"}) /\ current' \in Digests
  BY <1>2 DEF InclusionTypeOK
<1>3. CASE Shape
  <2>1. sides_above[<<size, index>>] \in Seq({"left", "right"})
    BY SidesOf DEF InclusionTypeOK
  <2>2. export_leaf_hash(line) \in Digests
    BY LeafTraces DEF InclusionTypeOK
  <2> QED
    BY <1>3, <2>1, <2>2 DEF Shape, InclusionTypeOK, expected_proof_directions
<1>4. ASSUME NEW node \in Digests, Step(node)
      PROVE  /\ inclusion' \in {"shape", "path", "valid", "invalid"}
             /\ sides' \in Seq({"left", "right"}) /\ current' \in Digests
  <2>1. sides \in Seq({"left", "right"}) /\ sides # << >> /\ current \in Digests
        /\ sides' = Tail(sides) /\ current' = HashIn(node) /\ inclusion' = inclusion
    BY <1>4 DEF Step, InclusionTypeOK
  <2>2. Tail(sides) \in Seq({"left", "right"})
    BY <2>1, HeadTailProperties
  <2>3. HashIn(node) \in Digests
    BY <2>1, NodeDigest DEF HashIn
  <2> QED
    BY <2>1, <2>2, <2>3 DEF InclusionTypeOK
<1>5. CASE CompareRoot \/ WrongPath
  BY <1>5 DEF CompareRoot, WrongPath, InclusionTypeOK
<1>6. CASE UNCHANGED inclusionVars
  BY <1>6 DEF inclusionVars, InclusionTypeOK
<1> QED
  BY <1>3, <1>4, <1>5, <1>6 DEF InclusionNext

LEMMA InclusionInductiveInit == InclusionInit => InclusionInductive
  BY InclusionTypeInit, InclusionInitInv, ClimbInit DEF InclusionInductive

LEMMA InclusionInductiveNext == InclusionInductive /\ [InclusionNext]_inclusionVars => InclusionInductive'
<1> SUFFICES ASSUME InclusionInductive, [InclusionNext]_inclusionVars
             PROVE  ClimbInv'
  BY InclusionTypeNext, InclusionNextInv DEF InclusionInductive
<1>1. ClimbInv /\ current \in Digests
  BY DEF InclusionInductive, InclusionTypeOK
<1>2. CASE Shape
  BY <1>1, <1>2, ClimbShape
<1>3. ASSUME NEW node \in Digests, Step(node)
      PROVE  ClimbInv'
  BY <1>1, <1>3, ClimbStep
<1>4. CASE CompareRoot \/ WrongPath
  BY <1>1, <1>4, ClimbEnds
<1>5. CASE UNCHANGED inclusionVars
  <2>1. UNCHANGED claimed /\ inclusion' = inclusion /\ sides' = sides /\ current' = current
    BY <1>5 DEF inclusionVars
  <2>2. /\ ClaimInv' /\ root' = root /\ HonestPath' = HonestPath
        /\ export' = export /\ line' = line /\ index' = index /\ size' = size /\ honestPath' = honestPath
    BY <1>1, <2>1, ClaimKept DEF ClimbInv
  <2>3. ASSUME NEW level \in Seq(Digests), NEW i \in Nat, At(level, i)
        PROVE  At(level, i)'
    BY <2>1, <2>2, <2>3 DEF At, Root
  <2> QED
    BY <1>1, <2>1, <2>2, <2>3 DEF ClimbInv
<1> QED
  BY <1>2, <1>3, <1>4, <1>5 DEF InclusionNext

\* The types of a verification's state.
THEOREM InclusionTypeCorrect == InclusionSpec => []InclusionTypeOK
<1>1. InclusionInductive => InclusionTypeOK
  BY DEF InclusionInductive
<1> QED
  BY InclusionInductiveInit, InclusionInductiveNext, <1>1, PTL DEF InclusionSpec

\* verify_export_inclusion_proof: whatever path, index and size a proof claims, it is valid
\* under a trusted root only for a line of the export; and if the size is that of the
\* export, only for the line at that index.
THEOREM IncludedAlways == InclusionSpec => []Included
<1>1. InclusionInductive => Included
  BY DEF InclusionInductive, InclusionInv, ClimbInv, Included, Traces
<1> QED
  BY InclusionInductiveInit, InclusionInductiveNext, <1>1, PTL DEF InclusionSpec

\* build_inclusion_proof_artifact: the proof it makes of any line of any export is accepted.
THEOREM InclusionCompleteAlways == InclusionSpec => []InclusionComplete
<1>1. InclusionInductive => InclusionComplete
  BY DEF InclusionInductive, ClimbInv, InclusionComplete
<1> QED
  BY InclusionInductiveInit, InclusionInductiveNext, <1>1, PTL DEF InclusionSpec

-----------------------------------------------------------------------------
(* Consistency *)

\* A sequence is extended by whatever is appended to it.
LEMMA ExtendedByAppending ==
    ASSUME NEW s \in Seq(Lines), NEW t \in Seq(Lines), NEW u \in Seq(Lines), Extends(s, t)
    PROVE  Extends(s, t \o u)
<1>1. PICK a \in Nat : a = Len(s)
  OBVIOUS
<1>2. PICK b \in Nat : b = Len(t)
  OBVIOUS
<1>3. PICK c \in Nat : c = Len(u)
  OBVIOUS
<1>4. a <= b
  BY <1>1, <1>2 DEF Extends
<1>5. Len(t \o u) = b + c
  BY <1>2, <1>3
<1>6. ASSUME NEW i \in 1..a
      PROVE  (t \o u)[i] = s[i]
  <2>1. i \in 1..b
    BY <1>4
  <2>2. (t \o u)[i] = t[i]
    BY <2>1, <1>2
  <2> QED
    BY <2>2, <1>1 DEF Extends
<1> QED
  BY <1>1, <1>4, <1>5, <1>6 DEF Extends

\* Putting the same lines in front of both keeps one an extension of the other.
LEMMA ExtendsBehind ==
    ASSUME NEW s \in Seq(Lines), NEW t \in Seq(Lines), NEW u \in Seq(Lines), Extends(s, t)
    PROVE  Extends(u \o s, u \o t)
<1>1. PICK a \in Nat : a = Len(s)
  OBVIOUS
<1>2. PICK b \in Nat : b = Len(t)
  OBVIOUS
<1>3. PICK c \in Nat : c = Len(u)
  OBVIOUS
<1>4. a <= b
  BY <1>1, <1>2 DEF Extends
<1>5. Len(u \o s) = c + a /\ Len(u \o t) = c + b
  BY <1>1, <1>2, <1>3
<1>6. ASSUME NEW i \in 1..(c + a)
      PROVE  (u \o t)[i] = (u \o s)[i]
  <2>1. CASE i <= c
    <3>1. (u \o s)[i] = u[i]
      BY <2>1, <1>1, <1>3
    <3>2. (u \o t)[i] = u[i]
      BY <2>1, <1>2, <1>3, <1>4
    <3> QED
      BY <3>1, <3>2
  <2>2. CASE i > c
    <3>1. i - c \in 1..a /\ i - c \in 1..b
      BY <2>2, <1>4
    <3>2. (u \o s)[i] = s[i - c] /\ (u \o t)[i] = t[i - c]
      BY <2>2, <1>1, <1>2, <1>3, <1>4
    <3>3. t[i - c] = s[i - c]
      BY <3>1, <1>1 DEF Extends
    <3> QED
      BY <3>2, <3>3
  <2>3. i <= c \/ i > c
    OBVIOUS
  <2> QED
    BY <2>1, <2>2, <2>3
<1>7. \A i \in 1..Len(u \o s) : (u \o t)[i] = (u \o s)[i]
  <2> DEFINE p == u \o s
             q == u \o t
  <2>1. \A i \in 1..(c + a) : q[i] = p[i]
    BY <1>6
  <2>2. Len(p) = c + a
    BY <1>5
  <2> QED
    BY <2>1, <2>2
<1>8. Len(u \o s) <= Len(u \o t)
  BY <1>4, <1>5
<1> QED
  BY <1>7, <1>8 DEF Extends

\* Of two recomputed digests, f of the old and s of the new tree: if both are of
\* honest trees, the lines under the second extend those under the first.
Tracks(f, s) == f \in Committed /\ s \in Committed => Extends(Span[f], Span[s])

LEMMA SameTracks == ASSUME NEW f \in Digests PROVE Tracks(f, f)
<1> SUFFICES ASSUME f \in Committed PROVE Extends(Span[f], Span[f])
  BY DEF Tracks
<1>1. Span[f] \in Seq(Lines)
  BY HashAssumption
<1> QED
  BY <1>1 DEF Extends

LEMMA JoinTracks ==
    ASSUME NEW f \in Digests, NEW s \in Digests, NEW d \in Digests, Tracks(f, s)
    PROVE  Tracks(node_hash(d, f), node_hash(d, s))
<1> SUFFICES ASSUME node_hash(d, f) \in Committed, node_hash(d, s) \in Committed
             PROVE  Extends(Span[node_hash(d, f)], Span[node_hash(d, s)])
  BY DEF Tracks
<1>1. /\ d \in Committed /\ f \in Committed /\ s \in Committed
      /\ Span[node_hash(d, f)] = Span[d] \o Span[f]
      /\ Span[node_hash(d, s)] = Span[d] \o Span[s]
  BY HashAssumption
<1>2. Span[d] \in Seq(Lines) /\ Span[f] \in Seq(Lines) /\ Span[s] \in Seq(Lines)
  BY <1>1, HashAssumption
<1>3. Extends(Span[f], Span[s])
  BY <1>1 DEF Tracks
<1> QED
  BY <1>1, <1>2, <1>3, ExtendsBehind

LEMMA GrowTracks ==
    ASSUME NEW f \in Digests, NEW s \in Digests, NEW d \in Digests, Tracks(f, s)
    PROVE  Tracks(f, node_hash(s, d))
<1> SUFFICES ASSUME f \in Committed, node_hash(s, d) \in Committed
             PROVE  Extends(Span[f], Span[node_hash(s, d)])
  BY DEF Tracks
<1>1. /\ d \in Committed /\ s \in Committed
      /\ Span[node_hash(s, d)] = Span[s] \o Span[d]
  BY HashAssumption
<1>2. Span[d] \in Seq(Lines) /\ Span[f] \in Seq(Lines) /\ Span[s] \in Seq(Lines)
  BY <1>1, HashAssumption
<1>3. Extends(Span[f], Span[s])
  BY <1>1 DEF Tracks
<1> QED
  BY <1>1, <1>2, <1>3, ExtendedByAppending

\* The inductive invariant.  A trusted root starts the two digests of a perfect
\* old tree, so all of it is conditional on that root being an honest one.
ConsistencyInv == old_root \in Committed =>
          /\ consistency = "path" => fn \in Digests /\ sn \in Digests /\ Tracks(fn, sn)
          /\ consistency = "valid" => Tracks(old_root, new_root)

\* The empty tree is extended by every other.
LEMMA TrivialTracks == Trivial /\ old_root \in Committed => Tracks(old_root, new_root)
<1> SUFFICES ASSUME Trivial, old_root \in Committed
             PROVE  Tracks(old_root, new_root)
  OBVIOUS
<1>1. CASE old_root = new_root
  BY <1>1, SameTracks, HashAssumption
<1>2. CASE old_root = EmptyDigest
  <2> SUFFICES ASSUME new_root \in Committed
               PROVE  Extends(Span[old_root], Span[new_root])
    BY DEF Tracks
  <2>1. Span[old_root] = << >>
    BY <1>2, HashAssumption
  <2>2. PICK t \in Seq(Lines) : t = Span[new_root]
    BY HashAssumption
  <2>3. Extends(<< >>, t)
    BY <2>2 DEF Extends
  <2> QED
    BY <2>1, <2>2, <2>3
<1> QED
  BY <1>1, <1>2 DEF Trivial

LEMMA ConsistencyInitInv == ConsistencyInit => ConsistencyInv
  BY DEF ConsistencyInit, ConsistencyInv

LEMMA ConsistencyNextInv == ConsistencyInv /\ [ConsistencyNext]_consistencyVars => ConsistencyInv'
<1> SUFFICES ASSUME ConsistencyInv, [ConsistencyNext]_consistencyVars
             PROVE  ConsistencyInv'
  OBVIOUS
<1>1. old_root' = old_root /\ new_root' = new_root
  BY DEF ConsistencyNext, Equal, Begin, Read, CompareRoots, Refuse, consistencyVars, given, old_root, new_root
<1> SUFFICES ASSUME old_root \in Committed
             PROVE  ConsistencyInv'
  BY <1>1 DEF ConsistencyInv
<1>2. CASE Equal
  BY <1>1, <1>2, TrivialTracks DEF Equal, ConsistencyInv
<1>3. ASSUME NEW node \in Digests, Begin(node)
      PROVE  ConsistencyInv'
  <2>1. PICK d \in Digests : fn' = d /\ sn' = d
    BY <1>3, HashAssumption DEF Begin
  <2>2. consistency' = "path"
    BY <1>3 DEF Begin
  <2>3. Tracks(fn', sn')
    BY <2>1, SameTracks
  <2> QED
    BY <1>1, <2>1, <2>2, <2>3 DEF ConsistencyInv
<1>4. ASSUME NEW node \in Digests, Read(node)
      PROVE  ConsistencyInv'
  <2>1. consistency = "path" /\ consistency' = "path"
    BY <1>4 DEF Read
  <2>2. fn \in Digests /\ sn \in Digests /\ Tracks(fn, sn)
    BY <2>1 DEF ConsistencyInv
  <2>3. CASE JoinsBoth
    <3>1. fn' = node_hash(node, fn) /\ sn' = node_hash(node, sn)
      BY <1>4, <2>3 DEF Read
    <3>2. fn' \in Digests /\ sn' \in Digests
      BY <2>2, <3>1, HashAssumption
    <3>3. Tracks(fn', sn')
      BY <2>2, <3>1, JoinTracks
    <3> QED
      BY <1>1, <2>1, <3>2, <3>3 DEF ConsistencyInv
  <2>4. CASE ~JoinsBoth
    <3>1. fn' = fn /\ sn' = node_hash(sn, node)
      BY <1>4, <2>4 DEF Read
    <3>2. fn' \in Digests /\ sn' \in Digests
      BY <2>2, <3>1, HashAssumption
    <3>3. Tracks(fn', sn')
      BY <2>2, <3>1, GrowTracks
    <3> QED
      BY <1>1, <2>1, <3>2, <3>3 DEF ConsistencyInv
  <2> QED
    BY <2>3, <2>4
<1>5. CASE CompareRoots
  <2>1. consistency' = "valid" => fn = old_root /\ sn = new_root
    BY <1>5 DEF CompareRoots, ReachesBoth
  <2>2. consistency = "path" /\ consistency' \in {"valid", "invalid"}
    BY <1>5 DEF CompareRoots
  <2> QED
    BY <1>1, <2>1, <2>2 DEF ConsistencyInv
<1>6. CASE Refuse
  BY <1>6 DEF Refuse, ConsistencyInv
<1>7. CASE UNCHANGED consistencyVars
  BY <1>1, <1>7 DEF consistencyVars, ConsistencyInv
<1> QED
  BY <1>2, <1>3, <1>4, <1>5, <1>6, <1>7 DEF ConsistencyNext

\* verify_consistency_proof_artifact: whatever sizes and nodes an artifact holds,
\* it is valid between two trusted roots only if the new export extends the old.
THEOREM ExtensionAlways == ConsistencySpec => []Extension
<1>1. ConsistencyInv => Extension
  BY DEF ConsistencyInv, Extension, Tracks
<1> QED
  BY ConsistencyInitInv, ConsistencyNextInv, <1>1, PTL DEF ConsistencySpec

-----------------------------------------------------------------------------
(* The types of a consistency verification *)

Halved(at) == <<at[1] \div 2, at[2] \div 2>>

IsStrip(f, Stop) == f = [at \in Nat \X Nat |-> IF at \in Stop THEN at ELSE f[Halved(at)]]

\* Going up by halves, the first index stays no greater than the second.
LEMMA Stripping ==
    ASSUME NEW Stop, \A at \in Nat \X Nat : at \notin Stop => at[1] # 0
    PROVE  /\ \E f : IsStrip(f, Stop)
           /\ \A f : IsStrip(f, Stop) =>
                 \A at \in Nat \X Nat : at[1] <= at[2] =>
                    f[at] \in Nat \X Nat /\ f[at][1] <= f[at][2]
<1> DEFINE D == Nat \X Nat
<1>1. PICK mu : mu = [at \in D |-> at[1]]
  OBVIOUS
<1>2. PICK up : up = [at \in D |-> Halved(at)]
  OBVIOUS
<1>3. PICK pre : pre = [at \in D |-> << >>]
  OBVIOUS
<1>4. PICK base : base = [at \in D |-> at]
  OBVIOUS
<1>5. ASSUME NEW x \in D
      PROVE  /\ Halved(x) \in D /\ up[x] = Halved(x) /\ mu[x] = x[1] /\ mu[up[x]] = x[1] \div 2
             /\ x[1] \in Nat /\ x[2] \in Nat /\ x[1] \div 2 <= x[1]
             /\ x[1] # 0 => x[1] \div 2 < x[1]
             /\ x[1] <= x[2] => Halved(x)[1] <= Halved(x)[2]
             /\ pre[x] = << >> /\ base[x] = x /\ x \in Seq(Nat)
  <2>1. x[1] \in Nat /\ x[2] \in Nat /\ x[1] \div 2 \in Nat /\ x[2] \div 2 \in Nat /\ x = <<x[1], x[2]>>
    OBVIOUS
  <2>2. PICK a \in Nat, b \in Nat : a = x[1] /\ b = x[2]
    BY <2>1
  <2>3. Halved(x) = <<a \div 2, b \div 2>> /\ a \div 2 \in Nat /\ b \div 2 \in Nat
    BY <2>2 DEF Halved
  <2>4. Halved(x) \in D /\ Halved(x)[1] = a \div 2 /\ Halved(x)[2] = b \div 2
    BY <2>3
  <2>5. /\ a \div 2 <= a /\ (a # 0 => a \div 2 < a) /\ (a <= b => a \div 2 <= b \div 2)
    OBVIOUS
  <2>6. x = <<a, b>> /\ <<a, b>> \in Seq(Nat)
    BY <2>1, <2>2
  <2>7. up[x] = Halved(x) /\ mu[x] = a /\ mu[up[x]] = a \div 2
    BY <1>1, <1>2, <2>2, <2>4
  <2> QED
    BY <1>3, <1>4, <2>2, <2>4, <2>5, <2>6, <2>7
<1>6. IsWay(D, Nat, mu, up, pre, base, Stop)
  <2>1. ASSUME NEW x \in D, x \notin Stop PROVE mu[up[x]] < mu[x]
    BY <1>5, <2>1
  <2>2. mu \in [D -> Nat] /\ base \in [D -> Seq(Nat)] /\ pre \in [D -> Seq(Nat)]
    <3>1. \A x \in D : x[1] \in Nat /\ x \in Seq(Nat) /\ << >> \in Seq(Nat)
      BY <1>5
    <3> HIDE DEF D
    <3> QED
      BY <3>1, <1>1, <1>3, <1>4
  <2>3. up \in [D -> D]
    <3>1. \A x \in D : Halved(x) \in D
      BY <1>5
    <3> HIDE DEF D
    <3> QED
      BY <3>1, <1>2
  <2> HIDE DEF D
  <2> QED
    BY <2>1, <2>2, <2>3 DEF IsWay, Falls
<1>7. \E f : IsStrip(f, Stop)
  <2>1. PICK g \in [D -> Seq(Nat)] : Descends(g, D, up, pre, base, Stop)
    <3> HIDE DEF D
    <3> QED
      BY <1>6, Descent
  <2>2. ASSUME NEW x \in D PROVE g[x] = IF x \in Stop THEN x ELSE g[Halved(x)]
    <3>1. g[x] = IF x \in Stop THEN base[x] ELSE pre[x] \o g[up[x]]
      BY <2>1 DEF Descends
    <3>2. Halved(x) \in D /\ up[x] = Halved(x) /\ pre[x] = << >> /\ base[x] = x
      BY <1>5
    <3>3. << >> \o g[Halved(x)] = g[Halved(x)]
      BY <2>1, <3>2
    <3> QED
      BY <3>1, <3>2, <3>3
  <2>3. g = [x \in D |-> g[x]]
    BY <2>1
  <2>4. IsStrip(g, Stop)
    BY <2>2, <2>3 DEF IsStrip
  <2> QED
    BY <2>4
<1>8. ASSUME NEW f, IsStrip(f, Stop), NEW y \in D, y[1] <= y[2]
      PROVE  f[y] \in D /\ f[y][1] <= f[y][2]
  <2> DEFINE P == {x \in D : x[1] <= x[2] => f[x] \in D /\ f[x][1] <= f[x][2]}
  <2>1. ASSUME NEW x \in D, x \notin Stop => up[x] \in P PROVE x \in P
    <3>1. f[x] = IF x \in Stop THEN x ELSE f[Halved(x)]
      BY <1>8 DEF IsStrip
    <3>2. up[x] = Halved(x) /\ (x[1] <= x[2] => Halved(x)[1] <= Halved(x)[2])
      BY <1>5
    <3> QED
      BY <2>1, <3>1, <3>2
  <2> HIDE DEF P
  <2>2. D \subseteq P
    <3> HIDE DEF D
    <3> QED
      BY <2>1, <1>6, FallsInduction DEF IsWay
  <2> QED
    BY <2>2, <1>8 DEF P
<1> QED
  BY <1>7, <1>8

Ordered(at) == at \in Nat \X Nat /\ at[1] <= at[2]

LEMMA StripOddOrdered == ASSUME NEW at, Ordered(at) PROVE Ordered(StripOdd[at])
<1> DEFINE Stop == {x \in Nat \X Nat : ~(x[1] % 2 = 1)}
<1>1. \A x \in Nat \X Nat : x \notin Stop => x[1] # 0
  OBVIOUS
<1>2. \A f : IsStrip(f, Stop) <=>
         f = [x \in Nat \X Nat |-> IF x[1] % 2 = 1 THEN f[<<x[1] \div 2, x[2] \div 2>>] ELSE x]
  BY DEF IsStrip, Halved
<1>3. StripOdd = CHOOSE f : IsStrip(f, Stop)
  BY <1>2 DEF StripOdd
<1> HIDE DEF Stop
<1>4. IsStrip(StripOdd, Stop)
  BY <1>1, <1>3, Stripping
<1> QED
  BY <1>1, <1>4, Stripping DEF Ordered

LEMMA StripEvenOrdered == ASSUME NEW at, Ordered(at) PROVE Ordered(StripEven[at])
<1> DEFINE Stop == {x \in Nat \X Nat : ~(x[1] % 2 = 0 /\ x[1] # 0)}
<1>1. \A x \in Nat \X Nat : x \notin Stop => x[1] # 0
  OBVIOUS
<1>2. \A f : IsStrip(f, Stop) <=>
         f = [x \in Nat \X Nat |-> IF x[1] % 2 = 0 /\ x[1] # 0 THEN f[<<x[1] \div 2, x[2] \div 2>>] ELSE x]
  BY DEF IsStrip, Halved
<1>3. StripEven = CHOOSE f : IsStrip(f, Stop)
  BY <1>2 DEF StripEven
<1> HIDE DEF Stop
<1>4. IsStrip(StripEven, Stop)
  BY <1>1, <1>3, Stripping
<1> QED
  BY <1>1, <1>4, Stripping DEF Ordered

\* The root of every export is a digest.
LEMMA RootDigest ==
    ASSUME NEW lines \in Exports
    PROVE  export_merkle_root(lines) \in Digests
<1>1. lines \in Seq(Lines)
  BY ExportsAssumption
<1>2. PICK leaves \in Seq(Digests) : leaves = _export_leaves(lines)
  BY <1>1, Leaves
<1>3. CASE leaves = << >>
  BY <1>2, <1>3, HashAssumption DEF export_merkle_root, root_of
<1>4. CASE leaves # << >>
  BY <1>2, <1>4, RootType DEF export_merkle_root, root_of, Root
<1> QED
  BY <1>3, <1>4

LEMMA HalvesOrdered ==
    ASSUME NEW at, Ordered(at)
    PROVE  /\ at[1] \div 2 \in Nat /\ at[2] \div 2 \in Nat
           /\ at[1] \div 2 <= at[2] \div 2
<1>1. PICK a \in Nat, b \in Nat : a = at[1] /\ b = at[2] /\ a <= b
  BY DEF Ordered
<1>2. a \div 2 \in Nat /\ b \div 2 \in Nat /\ a \div 2 <= b \div 2
  BY <1>1
<1> QED
  BY <1>1, <1>2

LEMMA ConsistencyTypeInit == ConsistencyInit => ConsistencyTypeOK
<1> SUFFICES ASSUME ConsistencyInit
             PROVE  ConsistencyTypeOK
  OBVIOUS
<1>1. EmptyDigest \in Digests
  BY HashAssumption
<1>2. m \in Nat /\ n \in Nat
  BY ExportsAssumption DEF ConsistencyInit
<1> QED
  BY <1>1, <1>2 DEF ConsistencyInit, ConsistencyTypeOK

LEMMA ConsistencyTypeNext ==
    ASSUME ConsistencyTypeOK, [ConsistencyNext]_consistencyVars
    PROVE  ConsistencyTypeOK'
<1>1. UNCHANGED given
  BY DEF ConsistencyNext, Equal, Begin, Read, CompareRoots, Refuse, consistencyVars
<1>2. /\ old' = old /\ new' = new /\ m' = m /\ n' = n
      /\ sizesGiven' = sizesGiven /\ honestProof' = honestProof
  BY <1>1 DEF given
<1>3. /\ old \in Exports /\ new \in Exports /\ m \in Nat /\ n \in Nat
      /\ read \in Nat /\ fn \in Digests /\ sn \in Digests
      /\ fi \in Nat /\ si \in Nat /\ fi <= si
      /\ consistency \in {"sizes", "path", "valid", "invalid"}
  BY DEF ConsistencyTypeOK
<1> SUFFICES /\ consistency' \in {"sizes", "path", "valid", "invalid"}
             /\ read' \in Nat /\ fn' \in Digests /\ sn' \in Digests
             /\ fi' \in Nat /\ si' \in Nat /\ fi' <= si'
  BY <1>2 DEF ConsistencyTypeOK
<1>4. CASE Equal \/ CompareRoots \/ Refuse
  BY <1>3, <1>4 DEF Equal, CompareRoots, Refuse
<1>5. ASSUME NEW node \in Digests, Begin(node)
      PROVE  /\ consistency' \in {"sizes", "path", "valid", "invalid"}
             /\ read' \in Nat /\ fn' \in Digests /\ sn' \in Digests
             /\ fi' \in Nat /\ si' \in Nat /\ fi' <= si'
  <2>1. m <= n /\ m # 0 /\ consistency' = "path" /\ fi' = Indices[1] /\ si' = Indices[2]
    BY <1>5 DEF Begin
  <2>2. Ordered(<<m - 1, n - 1>>)
    BY <1>3, <2>1 DEF Ordered
  <2>3. Ordered(Indices)
    BY <2>2, StripOddOrdered DEF Indices
  <2>4. old_root \in Digests
    BY <1>3, RootDigest DEF old_root
  <2>5. read' \in Nat /\ fn' \in Digests /\ sn' \in Digests
    BY <1>5, <2>4 DEF Begin
  <2> QED
    BY <2>1, <2>3, <2>5 DEF Ordered
<1>6. ASSUME NEW node \in Digests, Read(node)
      PROVE  /\ consistency' \in {"sizes", "path", "valid", "invalid"}
             /\ read' \in Nat /\ fn' \in Digests /\ sn' \in Digests
             /\ fi' \in Nat /\ si' \in Nat /\ fi' <= si'
  <2>1. read' = read + 1 /\ consistency' = consistency
    BY <1>6 DEF Read
  <2>2. CASE JoinsBoth
    <3>1. PICK at : at = StripEven[<<fi, si>>]
      OBVIOUS
    <3>2. /\ fn' = node_hash(node, fn) /\ sn' = node_hash(node, sn)
          /\ fi' = at[1] \div 2 /\ si' = at[2] \div 2
      BY <1>6, <2>2, <3>1 DEF Read
    <3>3. Ordered(<<fi, si>>)
      BY <1>3 DEF Ordered
    <3>4. Ordered(at)
      BY <3>1, <3>3, StripEvenOrdered
    <3>5. fi' \in Nat /\ si' \in Nat /\ fi' <= si'
      BY <3>2, <3>4, HalvesOrdered
    <3>6. fn' \in Digests /\ sn' \in Digests
      BY <1>3, <3>2, NodeDigest
    <3> QED
      BY <1>3, <2>1, <3>5, <3>6
  <2>3. CASE ~JoinsBoth
    <3>1. fn' = fn /\ sn' = node_hash(sn, node) /\ fi' = fi \div 2 /\ si' = si \div 2
      BY <1>6, <2>3 DEF Read
    <3>2. fi' \in Nat /\ si' \in Nat /\ fi' <= si'
      BY <1>3, <3>1
    <3>3. sn' \in Digests
      BY <1>3, <3>1, NodeDigest
    <3> QED
      BY <1>3, <2>1, <3>1, <3>2, <3>3
  <2> QED
    BY <2>2, <2>3
<1>7. CASE UNCHANGED consistencyVars
  BY <1>3, <1>7 DEF consistencyVars
<1> QED
  BY <1>4, <1>5, <1>6, <1>7 DEF ConsistencyNext

\* The types of a verification's state: the old tree's index stays behind the new one's.
THEOREM ConsistencyTypeCorrect == ConsistencySpec => []ConsistencyTypeOK
  BY ConsistencyTypeInit, ConsistencyTypeNext, PTL DEF ConsistencySpec

-----------------------------------------------------------------------------
(* The recursive functions of consistency proofs satisfy their equations *)

IsSplit(f) == f = [k \in Nat |-> IF k <= 2 THEN 1 ELSE 2 * f[(k + 1) \div 2]]

LEMMA SplitStep ==
    ASSUME NEW len \in Nat
    PROVE  split_point[len] = IF len <= 2 THEN 1 ELSE 2 * split_point[(len + 1) \div 2]
<1>1. PICK mu : mu = [x \in Nat |-> x]
  OBVIOUS
<1>2. PICK up : up = [x \in Nat |-> (x + 1) \div 2]
  OBVIOUS
<1>3. PICK step : step = [xr \in Nat \X Nat |-> 2 * xr[2]]
  OBVIOUS
<1>4. PICK base : base = [x \in Nat |-> 1]
  OBVIOUS
<1>5. PICK Stop : Stop = {x \in Nat : x <= 2}
  OBVIOUS
<1>6. IsStep(Nat, Nat, mu, up, step, base, Stop)
  <2>1. \A x \in Nat : (x + 1) \div 2 \in Nat /\ (~(x <= 2) => (x + 1) \div 2 < x)
    OBVIOUS
  <2>2. Falls(Nat, mu, up, Stop)
    BY <1>1, <1>2, <1>5, <2>1 DEF Falls
  <2>3. step \in [Nat \X Nat -> Nat]
    BY <1>3
  <2>4. base \in [Nat -> Nat]
    BY <1>4
  <2> QED
    BY <2>2, <2>3, <2>4 DEF IsStep
<1>7. PICK g \in [Nat -> Nat] : Recurses(g, Nat, up, step, base, Stop)
  BY <1>6, Recursion
<1>8. IsSplit(g)
  <2>1. ASSUME NEW x \in Nat PROVE g[x] = IF x <= 2 THEN 1 ELSE 2 * g[(x + 1) \div 2]
    <3>1. g[x] = IF x \in Stop THEN base[x] ELSE step[<<x, g[up[x]]>>]
      BY <1>7 DEF Recurses
    <3>2. up[x] = (x + 1) \div 2 /\ (x + 1) \div 2 \in Nat /\ base[x] = 1
      BY <1>2, <1>4
    <3>3. step[<<x, g[up[x]]>>] = 2 * g[up[x]]
      BY <1>3, <1>7, <3>2
    <3> QED
      BY <3>1, <3>2, <3>3, <1>5
  <2>2. g = [x \in Nat |-> g[x]]
    BY <1>7
  <2> QED
    BY <2>1, <2>2 DEF IsSplit
<1>9. IsSplit(split_point)
  <2>1. split_point = CHOOSE f : IsSplit(f)
    BY DEF split_point, IsSplit
  <2> QED
    BY <2>1, <1>8
<1> QED
  BY <1>9 DEF IsSplit

\* What holds of a number when it holds of about half of it, holds of all.
LEMMA HalvingInduction ==
    ASSUME NEW P, \A x \in Nat : (~(x <= 2) => (x + 1) \div 2 \in P) => x \in P
    PROVE  Nat \subseteq P
<1>1. PICK mu : mu = [x \in Nat |-> x]
  OBVIOUS
<1>2. PICK up : up = [x \in Nat |-> (x + 1) \div 2]
  OBVIOUS
<1>3. PICK Stop : Stop = {x \in Nat : x <= 2}
  OBVIOUS
<1>4. Falls(Nat, mu, up, Stop)
  <2>1. \A x \in Nat : (x + 1) \div 2 \in Nat /\ (~(x <= 2) => (x + 1) \div 2 < x)
    OBVIOUS
  <2> QED
    BY <1>1, <1>2, <1>3, <2>1 DEF Falls
<1>5. ASSUME NEW x \in Nat, x \notin Stop => up[x] \in P PROVE x \in P
  BY <1>2, <1>3, <1>5
<1> QED
  BY <1>4, <1>5, FallsInduction

\* Both halves of a tree have a node, and the first is as large as the second.
IsHalf(k, len) == k \in Nat /\ 1 <= k /\ k < len /\ len <= 2 * k /\ (k = 1 \/ k % 2 = 0)

LEMMA SplitHalves ==
    ASSUME NEW len \in Nat, len >= 2
    PROVE  IsHalf(split_point[len], len)
<1> DEFINE P == {x \in Nat : x >= 2 => IsHalf(split_point[x], x)}
<1>1. ASSUME NEW x \in Nat, ~(x <= 2) => (x + 1) \div 2 \in P
      PROVE  x \in P
  <2>1. CASE x <= 2
    <3>1. split_point[x] = 1
      BY <2>1, SplitStep
    <3> QED
      BY <2>1, <3>1 DEF IsHalf
  <2>2. CASE ~(x <= 2)
    <3>1. PICK h \in Nat : h = (x + 1) \div 2
      OBVIOUS
    <3>2. h >= 2 /\ x <= 2 * h /\ 2 * h <= x + 1
      BY <2>2, <3>1
    <3>3. PICK k : k = split_point[h]
      OBVIOUS
    <3>4. IsHalf(k, h)
      BY <1>1, <2>2, <3>1, <3>2, <3>3
    <3>5. split_point[x] = 2 * k
      BY <2>2, <3>1, <3>3, SplitStep
    <3>6. k \in Nat /\ 1 <= k /\ k < h /\ h <= 2 * k
      BY <3>4 DEF IsHalf
    <3>7. 2 * k \in Nat /\ 1 <= 2 * k /\ 2 * k < x /\ x <= 2 * (2 * k) /\ (2 * k) % 2 = 0
      BY <3>2, <3>6
    <3>8. IsHalf(split_point[x], x)
      BY <3>5, <3>7 DEF IsHalf
    <3> QED
      BY <3>8
  <2> QED
    BY <2>1, <2>2
<1> HIDE DEF P
<1>2. Nat \subseteq P
  BY <1>1, HalvingInduction
<1> QED
  BY <1>2 DEF P

IsOneBit(f) == f = [k \in Nat |-> IF k <= 1 THEN k = 1 ELSE k % 2 = 0 /\ f[k \div 2]]

LEMMA OneBit ==
    ASSUME NEW k \in Nat
    PROVE  IsPowerOfTwo[k] = IF k <= 1 THEN k = 1 ELSE k % 2 = 0 /\ IsPowerOfTwo[k \div 2]
<1>1. PICK mu : mu = [x \in Nat |-> x]
  OBVIOUS
<1>2. PICK up : up = [x \in Nat |-> x \div 2]
  OBVIOUS
<1>3. PICK step : step = [xr \in Nat \X BOOLEAN |-> xr[1] % 2 = 0 /\ xr[2]]
  OBVIOUS
<1>4. PICK base : base = [x \in Nat |-> x = 1]
  OBVIOUS
<1>5. PICK Stop : Stop = {x \in Nat : x <= 1}
  OBVIOUS
<1>6. IsStep(Nat, BOOLEAN, mu, up, step, base, Stop)
  <2>1. \A x \in Nat : x \div 2 \in Nat /\ (~(x <= 1) => x \div 2 < x)
    OBVIOUS
  <2>2. Falls(Nat, mu, up, Stop)
    BY <1>1, <1>2, <1>5, <2>1 DEF Falls
  <2>3. step \in [Nat \X BOOLEAN -> BOOLEAN]
    <3>1. \A xr \in Nat \X BOOLEAN : (xr[1] % 2 = 0 /\ xr[2]) \in BOOLEAN
      OBVIOUS
    <3> QED
      BY <1>3, <3>1
  <2>4. base \in [Nat -> BOOLEAN]
    <3>1. \A x \in Nat : (x = 1) \in BOOLEAN
      OBVIOUS
    <3> QED
      BY <1>4, <3>1
  <2> QED
    BY <2>2, <2>3, <2>4 DEF IsStep
<1>7. PICK g \in [Nat -> BOOLEAN] : Recurses(g, Nat, up, step, base, Stop)
  BY <1>6, Recursion
<1>8. IsOneBit(g)
  <2>1. ASSUME NEW x \in Nat PROVE g[x] = IF x <= 1 THEN x = 1 ELSE x % 2 = 0 /\ g[x \div 2]
    <3>1. g[x] = IF x \in Stop THEN base[x] ELSE step[<<x, g[up[x]]>>]
      BY <1>7 DEF Recurses
    <3>2. up[x] = x \div 2 /\ x \div 2 \in Nat /\ base[x] = (x = 1)
      BY <1>2, <1>4
    <3>3. step[<<x, g[up[x]]>>] = (x % 2 = 0 /\ g[up[x]])
      BY <1>3, <1>7, <3>2
    <3> QED
      BY <3>1, <3>2, <3>3, <1>5
  <2>2. g = [x \in Nat |-> g[x]]
    BY <1>7
  <2> QED
    BY <2>1, <2>2 DEF IsOneBit
<1>9. IsOneBit(IsPowerOfTwo)
  <2>1. IsPowerOfTwo = CHOOSE f : IsOneBit(f)
    BY DEF IsPowerOfTwo, IsOneBit
  <2> QED
    BY <2>1, <1>8
<1> QED
  BY <1>9 DEF IsOneBit

-----------------------------------------------------------------------------
(* The siblings on the way up *)

Siblings(path) == [k \in DOMAIN path |-> path[k].sibling]

\* What a node is hashed with, if it is not promoted.
Beside(level, i) == IF i % 2 = 1 THEN << level[i] >>
                    ELSE IF i + 1 < Len(level) THEN << level[i + 2] >> ELSE << >>

Above(level, i) == Siblings(path_above[<<level, i>>])

LEMMA SiblingsType ==
    ASSUME NEW q \in Seq(Node)
    PROVE  /\ Siblings(q) \in Seq(Digests) /\ Len(Siblings(q)) = Len(q)
           /\ \A k \in 1..Len(q) : Siblings(q)[k] = q[k].sibling
<1>1. PICK len \in Nat : len = Len(q) /\ DOMAIN q = 1..len
  OBVIOUS
<1>2. \A k \in 1..len : q[k].sibling \in Digests
  <2>1. \A k \in 1..len : q[k] \in Node
    BY <1>1
  <2>2. \A x \in Node : x.sibling \in Digests
    BY DEF Node
  <2> QED
    BY <2>1, <2>2
<1>3. PICK z : z = [k \in 1..len |-> q[k].sibling]
  OBVIOUS
<1>4. z \in Seq(Digests) /\ Len(z) = len /\ \A k \in 1..len : z[k] = q[k].sibling
  BY <1>2, <1>3
<1>5. z = Siblings(q)
  BY <1>1, <1>3 DEF Siblings
<1> QED
  BY <1>1, <1>4, <1>5

LEMMA SiblingsConcat ==
    ASSUME NEW p \in Seq(Node), NEW q \in Seq(Node)
    PROVE  Siblings(p \o q) = Siblings(p) \o Siblings(q)
<1>1. PICK t \in Seq(Node) : t = p \o q
  BY ConcatProperties
<1>2. PICK a \in Nat, b \in Nat : a = Len(p) /\ b = Len(q)
  OBVIOUS
<1>3. /\ Len(t) = a + b
      /\ \A i \in 1..(a + b) : t[i] = IF i <= a THEN p[i] ELSE q[i - a]
  BY <1>1, <1>2, ConcatProperties
<1>4. PICK x \in Seq(Digests), y \in Seq(Digests), z \in Seq(Digests) :
         x = Siblings(p) /\ y = Siblings(q) /\ z = Siblings(t)
  BY SiblingsType
<1>5. /\ Len(x) = a /\ Len(y) = b /\ Len(z) = a + b
      /\ \A i \in 1..a : x[i] = p[i].sibling
      /\ \A i \in 1..b : y[i] = q[i].sibling
      /\ \A i \in 1..(a + b) : z[i] = t[i].sibling
  BY <1>2, <1>3, <1>4, SiblingsType
<1>6. /\ x \o y \in Seq(Digests) /\ Len(x \o y) = a + b
      /\ \A i \in 1..(a + b) : (x \o y)[i] = IF i <= a THEN x[i] ELSE y[i - a]
  BY <1>5, ConcatProperties
<1>7. ASSUME NEW i \in 1..(a + b) PROVE z[i] = (x \o y)[i]
  <2>1. CASE i <= a
    <3>1. i \in 1..a
      BY <2>1
    <3>2. t[i] = p[i] /\ (x \o y)[i] = x[i]
      BY <2>1, <1>3, <1>6
    <3>3. z[i] = t[i].sibling /\ x[i] = p[i].sibling
      BY <3>1, <1>5
    <3> QED
      BY <3>2, <3>3
  <2>2. CASE ~(i <= a)
    <3>1. i - a \in 1..b
      BY <2>2
    <3> QED
      BY <2>2, <3>1, <1>3, <1>5, <1>6
  <2> QED
    BY <2>1, <2>2
<1>8. z = x \o y
  BY <1>5, <1>6, <1>7, SeqEqual
<1> QED
  BY <1>1, <1>4, <1>8

LEMMA BesideType ==
    ASSUME NEW level \in Seq(Digests), NEW i \in Nat, i < Len(level)
    PROVE  /\ Beside(level, i) \in Seq(Digests)
           /\ Sibling(level, i) \in Seq(Node)
           /\ Siblings(Sibling(level, i)) = Beside(level, i)
<1>1. PICK len \in Nat : len = Len(level)
  OBVIOUS
<1>2. ASSUME NEW d \in Digests, NEW side \in {"left", "right"}
      PROVE  /\ << d >> \in Seq(Digests)
             /\ << [sibling |-> d, position |-> side] >> \in Seq(Node)
             /\ Siblings(<< [sibling |-> d, position |-> side] >>) = << d >>
  <2>1. PICK e \in Node : e = [sibling |-> d, position |-> side]
    <3>1. [sibling |-> d, position |-> side] \in Node
      BY DEF Node
    <3> QED
      BY <3>1
  <2>2. << e >> \in Seq(Node) /\ << d >> \in Seq(Digests) /\ e.sibling = d
    BY <2>1
  <2>3. PICK q \in Seq(Node) : q = << e >>
    BY <2>2
  <2>4. Len(q) = 1 /\ q[1] = e
    BY <2>3
  <2>5. Siblings(q) \in Seq(Digests) /\ Len(Siblings(q)) = 1 /\ Siblings(q)[1] = d
    BY <2>2, <2>4, SiblingsType
  <2>6. Siblings(q) = << d >>
    BY <2>5
  <2> QED
    BY <2>1, <2>2, <2>3, <2>6
<1>3. CASE i % 2 = 1
  <2>1. i \in 1..len
    BY <1>1, <1>3
  <2>2. PICK d \in Digests : d = level[i]
    BY <2>1, <1>1
  <2>3. Beside(level, i) = << d >> /\ Sibling(level, i) = << [sibling |-> d, position |-> "left"] >>
    BY <2>2, <1>3 DEF Beside, Sibling
  <2> QED
    BY <2>3, <1>2
<1>4. CASE ~(i % 2 = 1) /\ i + 1 < len
  <2>1. i + 2 \in 1..len
    BY <1>4
  <2>2. PICK d \in Digests : d = level[i + 2]
    BY <2>1, <1>1
  <2>3. Beside(level, i) = << d >> /\ Sibling(level, i) = << [sibling |-> d, position |-> "right"] >>
    BY <2>2, <1>1, <1>4 DEF Beside, Sibling
  <2> QED
    BY <2>3, <1>2
<1>5. CASE ~(i % 2 = 1) /\ ~(i + 1 < len)
  <2>1. Beside(level, i) = << >> /\ Sibling(level, i) = << >>
    BY <1>1, <1>5 DEF Beside, Sibling
  <2>2. << >> \in Seq(Digests) /\ << >> \in Seq(Node) /\ Siblings(<< >>) = << >>
    BY DEF Siblings
  <2> QED
    BY <2>1, <2>2
<1> QED
  BY <1>3, <1>4, <1>5

\* The next level up from any that has a node: of a single one, it is that node.
LEMMA LevelUp ==
    ASSUME NEW level \in Seq(Digests), NEW i \in Nat, i < Len(level)
    PROVE  /\ next_level(level) \in Seq(Digests) /\ i \div 2 \in Nat
           /\ i \div 2 < Len(next_level(level))
           /\ Root(next_level(level)) = Root(level)
           /\ Above(level, i) \in Seq(Digests)
           /\ Above(next_level(level), i \div 2) \in Seq(Digests)
           /\ Above(level, i) = Beside(level, i) \o Above(next_level(level), i \div 2)
           /\ Len(level) <= 1 => Above(level, i) = << >>
<1>1. PICK len \in Nat : len = Len(level) /\ len # 0
  OBVIOUS
<1>2. PICK u \in Seq(Digests) : u = next_level(level) /\ Len(u) = (len + 1) \div 2
  BY <1>1, NextLevelType
<1>3. PICK h \in Nat : h = i \div 2 /\ h < Len(u)
  BY <1>1, <1>2
<1>4. PICK p \in Seq(Node), q \in Seq(Node) : p = path_above[<<level, i>>] /\ q = path_above[<<u, h>>]
  BY <1>3, PathOfSides
<1>5. Siblings(p) \in Seq(Digests) /\ Siblings(q) \in Seq(Digests)
  BY SiblingsType
<1>6. Siblings(<< >>) = << >>
  BY DEF Siblings
<1>7. CASE len <= 1
  <2>2. len = 1 /\ i = 0 /\ Len(u) = 1
    BY <1>1, <1>2, <1>7
  <2>1. p = << >> /\ q = << >>
    <3>1. Len(level) <= 1 /\ Len(u) <= 1
      BY <1>1, <2>2
    <3>2. path_above[<<level, i>>] = << >> /\ path_above[<<u, h>>] = << >>
      BY <3>1, PathStep
    <3> QED
      BY <1>4, <3>2
  <2>3. Beside(level, i) = << >>
    BY <1>1, <2>2 DEF Beside
  <2>4. Root(u) = Root(level)
    <3>1. u[1] = IF 2 * 1 > len THEN level[2 * 1 - 1] ELSE node_hash(level[2 * 1 - 1], level[2 * 1])
      <4>1. 1 \in 1..((len + 1) \div 2)
        BY <2>2
      <4> QED
        BY <4>1, <1>1, <1>2, NextLevelType
    <3>2. u[1] = level[1]
      BY <2>2, <3>1
    <3>3. Root(u) = u[1] /\ Root(level) = level[1]
      <4>1. Len(level) <= 1 /\ Len(u) <= 1
        BY <1>1, <2>2
      <4> QED
        BY <4>1, RootUp
    <3> QED
      BY <3>2, <3>3
  <2> QED
    BY <1>2, <1>3, <1>4, <1>5, <1>6, <2>1, <2>3, <2>4 DEF Above
<1>8. CASE ~(len <= 1)
  <2>1. PICK s : s = Sibling(level, i)
    OBVIOUS
  <2>2. p = s \o q
    BY <1>1, <1>2, <1>3, <1>4, <1>8, <2>1, PathStep
  <2>3. s \in Seq(Node) /\ Siblings(s) = Beside(level, i)
    BY <2>1, BesideType
  <2>4. Siblings(p) = Beside(level, i) \o Siblings(q)
    BY <2>2, <2>3, SiblingsConcat
  <2>5. Root(u) = Root(level)
    BY <1>1, <1>2, <1>8, RootUp
  <2> QED
    BY <1>1, <1>2, <1>3, <1>4, <1>5, <1>8, <2>4, <2>5 DEF Above
<1> QED
  BY <1>7, <1>8

-----------------------------------------------------------------------------
(* The tree in halves.  The code cuts a tree at the largest power of two below *)
(* its size; nodes are paired from the left, so on every level the cut goes    *)
(* between two pairs, until each half is a node.                               *)

LEMMA Slice ==
    ASSUME NEW S, NEW s \in Seq(S), NEW a \in Nat, NEW d \in Nat, a + d <= Len(s)
    PROVE  /\ SubSeq(s, a + 1, a + d) \in Seq(S) /\ Len(SubSeq(s, a + 1, a + d)) = d
           /\ \A i \in 1..d : SubSeq(s, a + 1, a + d)[i] = s[a + i]
<1>1. PICK b \in Nat, e \in Nat : b = a + 1 /\ e = a + d
  OBVIOUS
<1>2. \A i \in b..e : s[i] \in S
  BY <1>1
<1>3. /\ SubSeq(s, b, e) \in Seq(S)
      /\ Len(SubSeq(s, b, e)) = IF b <= e THEN e - b + 1 ELSE 0
      /\ \A i \in 1..(e - b + 1) : SubSeq(s, b, e)[i] = s[b + i - 1]
  BY <1>2, SubSeqProperties
<1>4. e - b + 1 = d /\ (b <= e <=> d # 0)
  BY <1>1
<1>5. ASSUME NEW i \in 1..d PROVE b + i - 1 = a + i
  BY <1>1
<1> QED
  BY <1>1, <1>3, <1>4, <1>5

\* A slice between pairs goes up as a slice.
LEMMA EvenSlice ==
    ASSUME NEW level \in Seq(Digests), NEW c \in Nat, NEW e \in Nat,
           2 * c < e, e <= Len(level), e = Len(level) \/ e % 2 = 0
    PROVE  next_level(SubSeq(level, 2 * c + 1, e)) = SubSeq(next_level(level), c + 1, (e + 1) \div 2)
<1>1. PICK len \in Nat : len = Len(level)
  OBVIOUS
<1>2. PICK top \in Nat : top = (e + 1) \div 2
  OBVIOUS
<1>3. PICK half \in Nat : half = (len + 1) \div 2
  OBVIOUS
<1>4. top <= half /\ c < top /\ 2 * top <= e + 1 /\ e <= 2 * top
  BY <1>1, <1>2, <1>3
<1>5. PICK u \in Seq(Digests) :
         /\ u = next_level(level) /\ Len(u) = half
         /\ \A i \in 1..half : u[i] = IF 2 * i > len THEN level[2 * i - 1]
                                      ELSE node_hash(level[2 * i - 1], level[2 * i])
  BY <1>1, <1>3, NextLevelType
<1>6. PICK v \in Seq(Digests) :
         /\ v = SubSeq(level, 2 * c + 1, e) /\ Len(v) = e - 2 * c
         /\ \A i \in 1..(e - 2 * c) : v[i] = level[2 * c + i]
  <2>1. PICK a \in Nat, d \in Nat : a = 2 * c /\ d = e - 2 * c /\ a + d = e /\ a + d <= Len(level)
    OBVIOUS
  <2>2. /\ SubSeq(level, a + 1, a + d) \in Seq(Digests) /\ Len(SubSeq(level, a + 1, a + d)) = d
        /\ \A i \in 1..d : SubSeq(level, a + 1, a + d)[i] = level[a + i]
    BY <2>1, Slice, SMTT(30)
  <2> QED
    BY <2>1, <2>2
<1>7. PICK w \in Seq(Digests) :
         /\ w = next_level(v) /\ Len(w) = top - c
         /\ \A i \in 1..(top - c) : w[i] = IF 2 * i > e - 2 * c THEN v[2 * i - 1]
                                           ELSE node_hash(v[2 * i - 1], v[2 * i])
  <2>1. PICK d \in Nat, z \in Nat : d = e - 2 * c /\ z = top - c /\ (d + 1) \div 2 = z
    BY <1>2, <1>4
  <2>2. /\ next_level(v) \in Seq(Digests) /\ Len(next_level(v)) = z
        /\ \A i \in 1..z : next_level(v)[i] = IF 2 * i > d THEN v[2 * i - 1]
                                              ELSE node_hash(v[2 * i - 1], v[2 * i])
    BY <1>6, <2>1, NextLevelType
  <2> QED
    BY <2>1, <2>2
<1>8. PICK x \in Seq(Digests) :
         /\ x = SubSeq(u, c + 1, top) /\ Len(x) = top - c
         /\ \A i \in 1..(top - c) : x[i] = u[c + i]
  <2>1. PICK d \in Nat : d = top - c /\ c + d = top /\ c + d <= Len(u)
    BY <1>4, <1>5
  <2>2. /\ SubSeq(u, c + 1, c + d) \in Seq(Digests) /\ Len(SubSeq(u, c + 1, c + d)) = d
        /\ \A i \in 1..d : SubSeq(u, c + 1, c + d)[i] = u[c + i]
    BY <2>1, Slice
  <2> QED
    BY <2>1, <2>2
<1>9. ASSUME NEW i \in 1..(top - c) PROVE w[i] = x[i]
  <2>1. c + i \in 1..half /\ 2 * (c + i) <= e + 1
    BY <1>4
  <2>2. x[i] = IF 2 * (c + i) > len THEN level[2 * (c + i) - 1]
               ELSE node_hash(level[2 * (c + i) - 1], level[2 * (c + i)])
    BY <1>5, <1>8, <2>1
  <2>3. 2 * i > e - 2 * c <=> 2 * (c + i) > len
    <3>1. e % 2 = 0 => 2 * (c + i) <= e
      <4>1. PICK f \in Nat : f = e \div 2
        OBVIOUS
      <4>2. e % 2 = 0 => e = 2 * f
        BY <4>1
      <4>3. PICK g \in Nat : g = c + i
        OBVIOUS
      <4>4. 2 * g <= 2 * f + 1 => g <= f
        OBVIOUS
      <4> QED
        BY <2>1, <4>2, <4>3, <4>4
    <3> QED
      BY <1>1, <2>1, <3>1
  <2>4. 2 * i - 1 \in 1..(e - 2 * c)
    BY <2>1
  <2>5. v[2 * i - 1] = level[2 * (c + i) - 1]
    <3>1. v[2 * i - 1] = level[2 * c + (2 * i - 1)]
      BY <1>6, <2>4
    <3>2. 2 * c + (2 * i - 1) = 2 * (c + i) - 1
      OBVIOUS
    <3> QED
      BY <3>1, <3>2
  <2>6. ~(2 * i > e - 2 * c) => v[2 * i] = level[2 * (c + i)]
    <3>1. ~(2 * i > e - 2 * c) => 2 * i \in 1..(e - 2 * c)
      OBVIOUS
    <3>2. 2 * c + 2 * i = 2 * (c + i)
      OBVIOUS
    <3> QED
      BY <1>6, <3>1, <3>2
  <2>7. w[i] = IF 2 * i > e - 2 * c THEN v[2 * i - 1] ELSE node_hash(v[2 * i - 1], v[2 * i])
    BY <1>7
  <2> QED
    BY <2>2, <2>3, <2>5, <2>6, <2>7
<1>10. w = x
  BY <1>7, <1>8, <1>9, SeqEqual
<1> QED
  BY <1>2, <1>5, <1>6, <1>7, <1>8, <1>10

\* The halves of a tree, left and right.
AreHalves(level, left, right) ==
    /\ left \in Seq(Digests) /\ right \in Seq(Digests)
    /\ IsHalf(Len(left), Len(level)) /\ Len(left) = split_point[Len(level)]
    /\ Len(left) + Len(right) = Len(level) /\ Len(right) # 0
    /\ \A i \in 1..Len(left) : left[i] = level[i]
    /\ \A i \in 1..Len(right) : right[i] = level[Len(left) + i]

LEMMA HalvesOf ==
    ASSUME NEW level \in Seq(Digests), ~(Len(level) <= 1)
    PROVE  AreHalves(level, FirstHalf(level), SecondHalf(level))
<1>1. PICK len \in Nat : len = Len(level) /\ len >= 2
  OBVIOUS
<1>3. IsHalf(split_point[len], len)
  BY <1>1, SplitHalves
<1>2. PICK k \in Nat : k = split_point[len]
  BY <1>3 DEF IsHalf
<1>4. 1 <= k /\ k < len
  BY <1>2, <1>3 DEF IsHalf
<1>5. PICK l \in Seq(Digests) : l = SubSeq(level, 1, k) /\ Len(l) = k /\ \A i \in 1..k : l[i] = level[i]
  <2>1. PICK a \in Nat : a = 0
    OBVIOUS
  <2>2. /\ SubSeq(level, a + 1, a + k) \in Seq(Digests) /\ Len(SubSeq(level, a + 1, a + k)) = k
        /\ \A i \in 1..k : SubSeq(level, a + 1, a + k)[i] = level[a + i]
    BY <1>1, <1>4, <2>1, Slice
  <2>3. SubSeq(level, a + 1, a + k) = SubSeq(level, 1, k) /\ \A i \in 1..k : a + i = i
    BY <2>1
  <2> QED
    BY <2>2, <2>3
<1>6. PICK r \in Seq(Digests) : /\ r = SubSeq(level, k + 1, len) /\ Len(r) = len - k
                                /\ \A i \in 1..(len - k) : r[i] = level[k + i]
  <2>0. len - k \in Nat /\ k + (len - k) = len
    BY <1>4
  <2>1. PICK d \in Nat : d = len - k /\ k + d = len
    BY <2>0
  <2>2. /\ SubSeq(level, k + 1, k + d) \in Seq(Digests) /\ Len(SubSeq(level, k + 1, k + d)) = d
        /\ \A i \in 1..d : SubSeq(level, k + 1, k + d)[i] = level[k + i]
    BY <1>1, <1>4, <2>1, Slice
  <2> QED
    BY <2>1, <2>2
<1>7. FirstHalf(level) = l /\ SecondHalf(level) = r
  BY <1>1, <1>2, <1>5, <1>6 DEF FirstHalf, SecondHalf
<1>8. AreHalves(level, l, r)
  <2>1. IsHalf(Len(l), Len(level)) /\ Len(l) = split_point[Len(level)]
    BY <1>1, <1>2, <1>3, <1>5
  <2>2. Len(l) + Len(r) = Len(level) /\ Len(r) # 0
    BY <1>1, <1>4, <1>5, <1>6
  <2>3. \A i \in 1..Len(r) : r[i] = level[Len(l) + i]
    BY <1>5, <1>6
  <2> QED
    BY <1>5, <2>1, <2>2, <2>3 DEF AreHalves
<1> QED
  BY <1>7, <1>8

\* The halves of the next level are the next levels of the halves.
LEMMA HalvesUp ==
    ASSUME NEW level \in Seq(Digests), ~(Len(level) <= 2)
    PROVE  /\ FirstHalf(next_level(level)) = next_level(FirstHalf(level))
           /\ SecondHalf(next_level(level)) = next_level(SecondHalf(level))
           /\ split_point[Len(level)] = 2 * split_point[Len(next_level(level))]
           /\ ~(Len(next_level(level)) <= 1)
<1>1. PICK len \in Nat : len = Len(level) /\ len > 2
  OBVIOUS
<1>2. PICK u \in Seq(Digests), half \in Nat : u = next_level(level) /\ half = (len + 1) \div 2 /\ Len(u) = half
  BY <1>1, NextLevelType
<1>3. half >= 2
  BY <1>1, <1>2
<1>4. PICK h : h = split_point[half]
  OBVIOUS
<1>5. h \in Nat /\ 1 <= h /\ h < half
  BY <1>3, <1>4, SplitHalves DEF IsHalf
<1>6. split_point[len] = 2 * h
  BY <1>1, <1>2, <1>4, SplitStep
<1>7. 2 * h < len /\ (2 * h + 1) \div 2 = h /\ (2 * h) % 2 = 0 /\ 2 * h \in Nat
  BY <1>1, <1>2, <1>5
<1>8. next_level(SubSeq(level, 1, 2 * h)) = SubSeq(u, 1, h)
  <2>1. next_level(SubSeq(level, 2 * 0 + 1, 2 * h)) = SubSeq(next_level(level), 0 + 1, (2 * h + 1) \div 2)
    <3>1. 2 * 0 < 2 * h /\ 2 * h <= Len(level)
      BY <1>1, <1>5, <1>7
    <3> QED
      BY <3>1, <1>7, EvenSlice
  <2>2. 2 * 0 + 1 = 1 /\ 0 + 1 = 1
    OBVIOUS
  <2> QED
    BY <2>1, <2>2, <1>2, <1>7
<1>9. next_level(SubSeq(level, 2 * h + 1, len)) = SubSeq(u, h + 1, half)
  <2>1. next_level(SubSeq(level, 2 * h + 1, len)) = SubSeq(next_level(level), h + 1, (len + 1) \div 2)
    BY <1>1, <1>5, <1>7, EvenSlice
  <2> QED
    BY <2>1, <1>2
<1> QED
  BY <1>1, <1>2, <1>3, <1>4, <1>6, <1>8, <1>9 DEF FirstHalf, SecondHalf

\* The root of a tree is made of the roots of its halves.
LEMMA RootSplit ==
    ASSUME NEW level \in Seq(Digests), ~(Len(level) <= 1)
    PROVE  Root(level) = node_hash(Root(FirstHalf(level)), Root(SecondHalf(level)))
<1> DEFINE Is(v) == Root(v) = node_hash(Root(FirstHalf(v)), Root(SecondHalf(v)))
           P == {v \in Seq(Digests) : ~(Len(v) <= 1) => Is(v)}
<1>1. ASSUME NEW v \in Seq(Digests), ~(Len(v) <= 1) => next_level(v) \in P
      PROVE  v \in P
  <2> SUFFICES ASSUME ~(Len(v) <= 1) PROVE Is(v)
    OBVIOUS
  <2>1. PICK len \in Nat : len = Len(v) /\ len >= 2
    OBVIOUS
  <2>2. PICK l \in Seq(Digests), r \in Seq(Digests) :
           l = FirstHalf(v) /\ r = SecondHalf(v) /\ AreHalves(v, l, r)
    BY HalvesOf DEF AreHalves
  <2>3. PICK a \in Nat, b \in Nat : a = Len(l) /\ b = Len(r)
    OBVIOUS
  <2>4. /\ 1 <= a /\ a < len /\ a + b = len /\ b # 0
        /\ \A i \in 1..a : l[i] = v[i]
        /\ \A i \in 1..b : r[i] = v[a + i]
    BY <2>1, <2>2, <2>3 DEF AreHalves, IsHalf
  <2>5. PICK u \in Seq(Digests) : u = next_level(v) /\ Root(u) = Root(v)
    BY <2>1, RootUp, NextLevelType
  <2>6. CASE len = 2
    <3>1. a = 1 /\ b = 1 /\ l[1] = v[1] /\ r[1] = v[2]
      BY <2>4, <2>6
    <3>2. Root(l) = l[1] /\ Root(r) = r[1]
      <4>1. Len(l) <= 1 /\ Len(r) <= 1
        BY <2>3, <3>1
      <4> QED
        BY <4>1, RootUp
    <3>3. Len(u) = 1 /\ u[1] = node_hash(v[1], v[2])
      <4>1. 1 \in 1..((len + 1) \div 2) /\ (len + 1) \div 2 = 1
        BY <2>6
      <4>2. u[1] = IF 2 * 1 > len THEN v[2 * 1 - 1] ELSE node_hash(v[2 * 1 - 1], v[2 * 1])
        BY <4>1, <2>1, <2>5, NextLevelType
      <4>3. Len(u) = (len + 1) \div 2
        BY <2>1, <2>5, NextLevelType
      <4> QED
        BY <4>1, <4>2, <4>3, <2>6
    <3>4. Root(u) = u[1]
      <4>1. Len(u) <= 1
        BY <3>3
      <4> QED
        BY <4>1, RootUp
    <3> QED
      BY <2>2, <2>5, <3>1, <3>2, <3>3, <3>4
  <2>7. CASE len # 2
    <3>1. ~(Len(v) <= 2)
      BY <2>1, <2>7
    <3>2. FirstHalf(u) = next_level(l) /\ SecondHalf(u) = next_level(r) /\ ~(Len(u) <= 1)
      BY <2>2, <2>5, <3>1, HalvesUp
    <3>3. Is(u)
      BY <1>1, <2>5, <3>2
    <3>4. 0 \in Nat /\ 0 < Len(l) /\ 0 < Len(r)
      BY <2>3, <2>4
    <3>5. Root(next_level(l)) = Root(l) /\ Root(next_level(r)) = Root(r)
      BY <3>4, LevelUp
    <3> QED
      BY <2>2, <2>5, <3>2, <3>3, <3>5
  <2> QED
    BY <2>6, <2>7
<1> HIDE DEF P
<1>2. level \in P
  BY <1>1, LevelInduction
<1> QED
  BY <1>2 DEF P

LEMMA BesideHalves ==
    ASSUME NEW level \in Seq(Digests), NEW l, NEW r, AreHalves(level, l, r), Len(l) % 2 = 0
    PROVE  /\ \A i \in Nat : i < Len(l) => Beside(l, i) = Beside(level, i)
           /\ \A i \in Nat : i < Len(r) => Beside(r, i) = Beside(level, Len(l) + i)
<1>1. PICK a \in Nat, b \in Nat, h \in Nat : a = Len(l) /\ b = Len(r) /\ h = a \div 2
  <2>1. Len(l) \in Nat /\ Len(r) \in Nat
    BY DEF AreHalves
  <2> QED
    BY <2>1
<1>2. a = 2 * h
  BY <1>1
<1>3. /\ Len(level) = a + b /\ a < a + b
      /\ \A i \in 1..a : l[i] = level[i]
      /\ \A i \in 1..b : r[i] = level[a + i]
  BY <1>1 DEF AreHalves, IsHalf
<1>4. ASSUME NEW i \in Nat, i < a
      PROVE  Beside(l, i) = Beside(level, i)
  <2>1. CASE i % 2 = 1
    <3>1. i \in 1..a
      BY <1>4, <2>1
    <3> QED
      BY <2>1, <3>1, <1>3 DEF Beside
  <2>2. CASE ~(i % 2 = 1)
    <3>1. i + 1 < a
      <4>1. PICK j \in Nat : j = i \div 2
        OBVIOUS
      <4>2. i = 2 * j
        BY <2>2, <4>1
      <4> QED
        BY <4>2, <1>2, <1>4
    <3>2. i + 1 < a + b /\ i + 2 \in 1..a
      BY <3>1
    <3> QED
      BY <2>2, <3>1, <3>2, <1>1, <1>3 DEF Beside
  <2> QED
    BY <2>1, <2>2
<1>5. ASSUME NEW i \in Nat, i < b
      PROVE  Beside(r, i) = Beside(level, a + i)
  <2>1. PICK j \in Nat : j = a + i
    OBVIOUS
  <2>2. j % 2 = i % 2
    BY <2>1, <1>2
  <2>3. CASE i % 2 = 1
    <3>1. i \in 1..b
      BY <1>5, <2>3
    <3> QED
      BY <2>1, <2>2, <2>3, <3>1, <1>3 DEF Beside
  <2>4. CASE ~(i % 2 = 1)
    <3>1. i + 1 < b <=> j + 1 < a + b
      BY <2>1
    <3>2. i + 1 < b => r[i + 2] = level[j + 2]
      <4>1. i + 1 < b => i + 2 \in 1..b
        OBVIOUS
      <4>2. a + (i + 2) = j + 2
        BY <2>1
      <4> QED
        BY <4>1, <4>2, <1>3
    <3> QED
      BY <2>1, <2>2, <2>4, <3>1, <3>2, <1>1, <1>3 DEF Beside
  <2> QED
    BY <2>3, <2>4
<1> QED
  BY <1>1, <1>4, <1>5

LEMMA OneMoreBehind ==
    ASSUME NEW s \in Seq(Digests), NEW t \in Seq(Digests), NEW e \in Digests
    PROVE  s \o (t \o << e >>) = (s \o t) \o << e >>
<1>1. << e >> \in Seq(Digests)
  OBVIOUS
<1> QED
  BY <1>1, ConcatAssociative

\* The siblings above a node are those in its half, then the root of the other half.
AboveInHalves(level, i) ==
    LET l == FirstHalf(level)
        r == SecondHalf(level)
    IN  /\ i < Len(l) => Above(level, i) = Above(l, i) \o << Root(r) >>
        /\ ~(i < Len(l)) => Above(level, i) = Above(r, i - Len(l)) \o << Root(l) >>

LEMMA AboveSplit ==
    ASSUME NEW level \in Seq(Digests), ~(Len(level) <= 1), NEW i \in Nat, i < Len(level)
    PROVE  AboveInHalves(level, i)
<1> DEFINE P == {v \in Seq(Digests) : ~(Len(v) <= 1) => \A j \in Nat : j < Len(v) => AboveInHalves(v, j)}
<1>1. ASSUME NEW v \in Seq(Digests), ~(Len(v) <= 1) => next_level(v) \in P
      PROVE  v \in P
  <2> SUFFICES ASSUME ~(Len(v) <= 1), NEW j \in Nat, j < Len(v) PROVE AboveInHalves(v, j)
    OBVIOUS
  <2>1. PICK len \in Nat : len = Len(v) /\ len >= 2
    OBVIOUS
  <2>2. PICK l \in Seq(Digests), r \in Seq(Digests) :
           l = FirstHalf(v) /\ r = SecondHalf(v) /\ AreHalves(v, l, r)
    BY HalvesOf DEF AreHalves
  <2>3. PICK a \in Nat, b \in Nat : a = Len(l) /\ b = Len(r)
    OBVIOUS
  <2>4. /\ 1 <= a /\ a < len /\ a + b = len /\ b # 0 /\ (a = 1 \/ a % 2 = 0) /\ len <= 2 * a
        /\ a = split_point[len]
        /\ \A k \in 1..a : l[k] = v[k]
        /\ \A k \in 1..b : r[k] = v[a + k]
    BY <2>1, <2>2, <2>3 DEF AreHalves, IsHalf
  <2>5. PICK x \in Digests, y \in Digests : x = Root(l) /\ y = Root(r)
    <3>1. l # << >> /\ r # << >>
      <4>1. Len(l) # 0 /\ Len(r) # 0
        BY <2>3, <2>4
      <4> QED
        BY <4>1
    <3> QED
      BY <3>1, RootType
  <2>6. PICK u \in Seq(Digests), h \in Nat :
           /\ u = next_level(v) /\ h = j \div 2 /\ h < Len(u)
           /\ Above(v, j) = Beside(v, j) \o Above(u, h)
           /\ Above(u, h) \in Seq(Digests)
    BY LevelUp
  <2>u. ~(Len(u) <= 1) => AboveInHalves(u, h)
    BY <1>1, <2>6
  <2> HIDE DEF P
  <2> SUFFICES /\ j < a => Above(v, j) = Above(l, j) \o << y >>
               /\ ~(j < a) => Above(v, j) = Above(r, j - a) \o << x >>
    BY <2>2, <2>3, <2>5 DEF AboveInHalves
  <2>7. CASE len = 2
    <3>1. a = 1 /\ b = 1 /\ l[1] = v[1] /\ r[1] = v[2]
      BY <2>4, <2>7
    <3>2. Len(l) <= 1 /\ Len(r) <= 1 /\ 0 < Len(l) /\ 0 < Len(r) /\ 0 \in Nat
      BY <2>3, <3>1
    <3>3. x = v[1] /\ y = v[2]
      BY <2>5, <3>1, <3>2, RootUp
    <3>4. Above(l, 0) = << >> /\ Above(r, 0) = << >>
      BY <3>2, LevelUp
    <3>5. Len(u) <= 1 /\ h = 0
      <4>1. Len(u) = (len + 1) \div 2
        BY <2>1, <2>6, NextLevelType
      <4> QED
        BY <4>1, <2>1, <2>6, <2>7
    <3>6. Above(u, h) = << >>
      BY <2>6, <3>5, LevelUp
    <3>7. j = 0 => Beside(v, j) = << y >>
      BY <2>1, <2>7, <3>3 DEF Beside
    <3>8. j = 1 => Beside(v, j) = << x >>
      BY <2>1, <2>7, <3>3 DEF Beside
    <3>9. << x >> \o << >> = << >> \o << x >> /\ << y >> \o << >> = << >> \o << y >>
      OBVIOUS
    <3>10. j = 0 \/ j = 1
      BY <2>1, <2>7
    <3>11. CASE j = 0
      <4>1. j < a
        BY <3>1, <3>11
      <4> QED
        BY <4>1, <2>6, <3>4, <3>6, <3>7, <3>9, <3>11
    <3>12. CASE j = 1
      <4>1. j - a = 0 /\ ~(j < a)
        BY <3>1, <3>12
      <4> QED
        BY <4>1, <2>6, <3>4, <3>6, <3>8, <3>9, <3>12
    <3> QED
      BY <3>10, <3>11, <3>12
  <2>8. CASE len # 2
    <3>1. ~(Len(v) <= 2)
      BY <2>1, <2>8
    <3>2. FirstHalf(u) = next_level(l) /\ SecondHalf(u) = next_level(r) /\ ~(Len(u) <= 1)
      BY <2>2, <2>6, <3>1, HalvesUp
    <3>3. AboveInHalves(u, h)
      BY <2>u, <3>2
    <3>4. a % 2 = 0
      <4>0. len <= 2 * a /\ len >= 2
        BY <2>1, <2>4
      <4>1. a # 1
        BY <4>0, <2>8
      <4> QED
        BY <4>1, <2>4
    <3>5. PICK c \in Nat : c = a \div 2 /\ a = 2 * c
      BY <3>4
    <3>6. Len(next_level(l)) = c
      <4>1. (2 * c + 1) \div 2 = c
        OBVIOUS
      <4>2. Len(next_level(l)) = (Len(l) + 1) \div 2
        BY NextLevelType
      <4> QED
        BY <4>1, <4>2, <2>3, <3>5
    <3>7. Root(next_level(l)) = x /\ Root(next_level(r)) = y
      <4>1. 0 \in Nat /\ 0 < Len(l) /\ 0 < Len(r)
        BY <2>3, <2>4
      <4> QED
        BY <4>1, <2>5, LevelUp
    <3>8. /\ h < c => Above(u, h) = Above(next_level(l), h) \o << y >>
          /\ ~(h < c) => Above(u, h) = Above(next_level(r), h - c) \o << x >>
      BY <3>2, <3>3, <3>6, <3>7 DEF AboveInHalves
    <3>10. CASE j < a
      <4>1. h < c
        BY <2>6, <3>5, <3>10
      <4>5. j < Len(l)
        BY <2>3, <3>10
      <4>2. PICK s \in Seq(Digests), t \in Seq(Digests) :
               s = Beside(l, j) /\ t = Above(next_level(l), h) /\ Above(l, j) = s \o t
        <5>1. Beside(l, j) \in Seq(Digests)
          BY <4>5, BesideType
        <5>2. /\ Above(next_level(l), j \div 2) \in Seq(Digests)
              /\ Above(l, j) = Beside(l, j) \o Above(next_level(l), j \div 2)
          BY <4>5, LevelUp
        <5> QED
          BY <2>6, <5>1, <5>2
      <4>3. Beside(v, j) = s
        BY <2>2, <2>3, <3>4, <3>10, <4>2, BesideHalves
      <4>4. s \o (t \o << y >>) = (s \o t) \o << y >>
        BY OneMoreBehind
      <4> QED
        BY <2>6, <3>8, <3>10, <4>1, <4>2, <4>3, <4>4
    <3>11. CASE ~(j < a)
      <4>1. PICK k \in Nat : k = j - a /\ j = a + k
        BY <3>11
      <4>2. k < b /\ k < Len(r)
        <5>1. j < a + b
          BY <2>1, <2>4
        <5> QED
          BY <2>3, <4>1, <5>1
      <4>3. ~(h < c) /\ h - c = k \div 2
        BY <2>6, <3>5, <4>1
      <4>4. PICK s \in Seq(Digests), t \in Seq(Digests) :
               s = Beside(r, k) /\ t = Above(next_level(r), k \div 2) /\ Above(r, k) = s \o t
        <5>1. Beside(r, k) \in Seq(Digests)
          BY <4>2, BesideType
        <5>2. /\ Above(next_level(r), k \div 2) \in Seq(Digests)
              /\ Above(r, k) = Beside(r, k) \o Above(next_level(r), k \div 2)
          BY <4>2, LevelUp
        <5> QED
          BY <5>1, <5>2
      <4>5. Beside(v, j) = s
        <5>1. Len(l) % 2 = 0
          BY <2>3, <3>4
        <5>2. Beside(r, k) = Beside(v, Len(l) + k)
          BY <2>2, <4>2, <5>1, BesideHalves
        <5> QED
          BY <2>3, <4>1, <4>4, <5>2
      <4>6. s \o (t \o << x >>) = (s \o t) \o << x >>
        BY OneMoreBehind
      <4> QED
        BY <2>6, <3>8, <3>11, <4>1, <4>3, <4>4, <4>5, <4>6
    <3> QED
      BY <3>10, <3>11
  <2> QED
    BY <2>7, <2>8
<1> HIDE DEF P
<1>2. level \in P
  BY <1>1, LevelInduction
<1> QED
  BY <1>2 DEF P

-----------------------------------------------------------------------------
(* The proof that the ledger builds *)

\* The half of a part that the old tree ends in, and the root of the other half.
PartIn(at) == IF at[2] <= split_point[Len(at[1])]
              THEN <<FirstHalf(at[1]), at[2], at[3]>>
              ELSE <<SecondHalf(at[1]), at[2] - split_point[Len(at[1])], FALSE>>
RootBeside(at) == IF at[2] <= split_point[Len(at[1])] THEN Root(SecondHalf(at[1]))
                  ELSE Root(FirstHalf(at[1]))

LEMMA PartType ==
    ASSUME NEW at \in Parts
    PROVE  /\ at = <<at[1], at[2], at[3]>>
           /\ at[1] \in Seq(Digests) /\ at[2] \in Nat /\ at[3] \in BOOLEAN
           /\ 1 <= at[2] /\ at[2] <= Len(at[1]) /\ Len(at[1]) # 0
           /\ root_of(at[1]) = Root(at[1]) /\ Root(at[1]) \in Digests
<1>1. /\ at = <<at[1], at[2], at[3]>>
      /\ at[1] \in Seq(Digests) /\ at[2] \in Nat /\ at[3] \in BOOLEAN
      /\ at[2] \in 1..Len(at[1])
  BY DEF Parts
<1>2. PICK level \in Seq(Digests), len \in Nat : level = at[1] /\ len = Len(level)
  BY <1>1
<1>3. 1 <= at[2] /\ at[2] <= len /\ len # 0
  BY <1>1, <1>2
<1>4. level # << >>
  BY <1>2, <1>3
<1>5. Root(level) \in Digests
  BY <1>4, RootType
<1>6. root_of(level) = Root(level)
  BY <1>4 DEF root_of, Root
<1> QED
  BY <1>1, <1>2, <1>3, <1>5, <1>6

LEMMA PartOf ==
    ASSUME NEW level \in Seq(Digests), NEW k \in Nat, NEW b \in BOOLEAN, 1 <= k, k <= Len(level)
    PROVE  <<level, k, b>> \in Parts
<1>1. k \in 1..Len(level)
  OBVIOUS
<1>2. PICK at \in Seq(Digests) \X Nat \X BOOLEAN : at = <<level, k, b>> /\ at[1] = level /\ at[2] = k
  <2>1. <<level, k, b>> \in Seq(Digests) \X Nat \X BOOLEAN
    OBVIOUS
  <2>2. <<level, k, b>>[1] = level /\ <<level, k, b>>[2] = k
    OBVIOUS
  <2> QED
    BY <2>1, <2>2
<1> QED
  BY <1>1, <1>2 DEF Parts

LEMMA PartHalves ==
    ASSUME NEW at \in Parts, at[2] # Len(at[1])
    PROVE  /\ PartIn(at) \in Parts /\ RootBeside(at) \in Digests
           /\ Len(PartIn(at)[1]) < Len(at[1])
           /\ root_of(FirstHalf(at[1])) = Root(FirstHalf(at[1]))
           /\ root_of(SecondHalf(at[1])) = Root(SecondHalf(at[1]))
<1>1. PICK level \in Seq(Digests), k \in Nat, b \in BOOLEAN :
         level = at[1] /\ k = at[2] /\ b = at[3]
  BY PartType
<1>2. PICK len \in Nat : len = Len(level) /\ 1 <= k /\ k < len
  <2>1. 1 <= k /\ k <= Len(level) /\ k # Len(level)
    BY <1>1, PartType
  <2> QED
    BY <2>1
<1>3. PICK l \in Seq(Digests), r \in Seq(Digests) :
         l = FirstHalf(level) /\ r = SecondHalf(level) /\ AreHalves(level, l, r)
  <2>1. ~(Len(level) <= 1)
    BY <1>2
  <2> QED
    BY <2>1, HalvesOf DEF AreHalves
<1>4. PICK a \in Nat, c \in Nat : a = Len(l) /\ c = Len(r)
  OBVIOUS
<1>5. 1 <= a /\ a < len /\ a + c = len /\ c # 0 /\ a = split_point[len]
  BY <1>2, <1>3, <1>4 DEF AreHalves, IsHalf
<1>6. <<l, 1, TRUE>> \in Parts /\ <<r, 1, TRUE>> \in Parts
  <2>1. 1 <= Len(l) /\ 1 <= Len(r) /\ 1 \in Nat /\ 1 <= 1
    BY <1>4, <1>5
  <2> QED
    BY <2>1, PartOf
<1>7. /\ root_of(l) = Root(l) /\ Root(l) \in Digests
      /\ root_of(r) = Root(r) /\ Root(r) \in Digests
  <2>1. PICK x \in Parts, y \in Parts : x[1] = l /\ y[1] = r
    <3>1. <<l, 1, TRUE>>[1] = l /\ <<r, 1, TRUE>>[1] = r
      OBVIOUS
    <3> QED
      BY <1>6, <3>1
  <2> QED
    BY <2>1, PartType
<1>8. CASE k <= a
  <2>1. PartIn(at) = <<l, k, b>> /\ RootBeside(at) = Root(r)
    BY <1>1, <1>2, <1>3, <1>5, <1>8 DEF PartIn, RootBeside
  <2>2. <<l, k, b>> \in Parts
    BY <1>2, <1>4, <1>8, PartOf
  <2>3. PartIn(at)[1] = l
    BY <2>1
  <2> QED
    BY <1>1, <1>2, <1>3, <1>4, <1>5, <1>7, <2>1, <2>2, <2>3
<1>9. CASE ~(k <= a)
  <2>1. PartIn(at) = <<r, k - a, FALSE>> /\ RootBeside(at) = Root(l)
    BY <1>1, <1>2, <1>3, <1>5, <1>9 DEF PartIn, RootBeside
  <2>2. <<r, k - a, FALSE>> \in Parts
    <3>1. PICK j \in Nat : j = k - a /\ 1 <= j /\ j <= c
      BY <1>2, <1>5, <1>9
    <3> QED
      BY <3>1, <1>4, PartOf
  <2>3. PartIn(at)[1] = r
    BY <2>1
  <2>4. c < len
    BY <1>5
  <2> QED
    BY <1>1, <1>2, <1>3, <1>4, <1>7, <2>1, <2>2, <2>3, <2>4
<1> QED
  BY <1>8, <1>9

IsSubproof(f) ==
    f = [at \in Parts |->
            LET k == split_point[Len(at[1])]
            IN  IF at[2] = Len(at[1])
                THEN IF at[3] THEN << >> ELSE << root_of(at[1]) >>
                ELSE IF at[2] <= k
                THEN f[<<FirstHalf(at[1]), at[2], at[3]>>] \o << root_of(SecondHalf(at[1])) >>
                ELSE f[<<SecondHalf(at[1]), at[2] - k, FALSE>>] \o << root_of(FirstHalf(at[1])) >>]

\* One part of a tree: the proof for the half the old tree ends in, then the other half.
SubproofOf(f, at) == IF at[2] = Len(at[1]) THEN IF at[3] THEN << >> ELSE << Root(at[1]) >>
                     ELSE f[PartIn(at)] \o << RootBeside(at) >>

LEMMA SubproofBody ==
    ASSUME NEW f, f = [at \in Parts |-> f[at]]
    PROVE  IsSubproof(f) <=> \A at \in Parts : f[at] = SubproofOf(f, at)
<1> DEFINE Body(at) == LET k == split_point[Len(at[1])]
            IN  IF at[2] = Len(at[1])
                THEN IF at[3] THEN << >> ELSE << root_of(at[1]) >>
                ELSE IF at[2] <= k
                THEN f[<<FirstHalf(at[1]), at[2], at[3]>>] \o << root_of(SecondHalf(at[1])) >>
                ELSE f[<<SecondHalf(at[1]), at[2] - k, FALSE>>] \o << root_of(FirstHalf(at[1])) >>
<1>1. ASSUME NEW at \in Parts
      PROVE  Body(at) = SubproofOf(f, at)
  <2>1. CASE at[2] = Len(at[1])
    BY <2>1, PartType DEF SubproofOf
  <2>2. CASE at[2] # Len(at[1])
    BY <2>2, PartHalves DEF SubproofOf, PartIn, RootBeside
  <2> QED
    BY <2>1, <2>2
<1>2. IsSubproof(f) <=> f = [at \in Parts |-> Body(at)]
  BY DEF IsSubproof
<1> HIDE DEF Body
<1> QED
  BY <1>1, <1>2

\* What holds of a part when it holds of the half the old tree ends in, holds of all.
LEMMA PartInduction ==
    ASSUME NEW P, \A x \in Parts : (x[2] # Len(x[1]) => PartIn(x) \in P) => x \in P
    PROVE  Parts \subseteq P
<1>1. PICK mu : mu = [x \in Parts |-> Len(x[1])]
  OBVIOUS
<1>2. PICK up : up = [x \in Parts |-> IF x[2] = Len(x[1]) THEN x ELSE PartIn(x)]
  OBVIOUS
<1>3. PICK Stop : Stop = {x \in Parts : x[2] = Len(x[1])}
  OBVIOUS
<1>4. Falls(Parts, mu, up, Stop)
  <2>1. mu \in [Parts -> Nat]
    BY <1>1, PartType
  <2>2. up \in [Parts -> Parts]
    BY <1>2, PartHalves
  <2>3. \A x \in Parts : x \notin Stop => mu[up[x]] < mu[x]
    BY <1>1, <1>2, <1>3, PartHalves
  <2> QED
    BY <2>1, <2>2, <2>3 DEF Falls
<1>5. ASSUME NEW x \in Parts, x \notin Stop => up[x] \in P PROVE x \in P
  BY <1>2, <1>3, <1>5
<1> QED
  BY <1>4, <1>5, FallsInduction

LEMMA SubproofStep ==
    ASSUME NEW y \in Parts
    PROVE  _subproof[y] = SubproofOf(_subproof, y)
<1> DEFINE R == Seq(Digests)
<1>1. PICK mu : mu = [x \in Parts |-> Len(x[1])]
  OBVIOUS
<1>2. PICK up : up = [x \in Parts |-> IF x[2] = Len(x[1]) THEN x ELSE PartIn(x)]
  OBVIOUS
<1>3. PICK Stop : Stop = {x \in Parts : x[2] = Len(x[1])}
  OBVIOUS
<1>4. PICK step : step = [xr \in Parts \X R |-> IF xr[1] \in Stop THEN xr[2]
                                                ELSE xr[2] \o << RootBeside(xr[1]) >>]
  OBVIOUS
<1>5. PICK base : base = [x \in Parts |-> IF x[3] THEN << >> ELSE << Root(x[1]) >>]
  OBVIOUS
<1>6. IsStep(Parts, R, mu, up, step, base, Stop)
  <2>1. mu \in [Parts -> Nat]
    BY <1>1, PartType
  <2>2. up \in [Parts -> Parts]
    BY <1>2, PartHalves
  <2>3. \A x \in Parts : x \notin Stop => mu[up[x]] < mu[x]
    BY <1>1, <1>2, <1>3, PartHalves
  <2>4. step \in [Parts \X R -> R]
    <3>1. ASSUME NEW xr \in Parts \X R
          PROVE (IF xr[1] \in Stop THEN xr[2] ELSE xr[2] \o << RootBeside(xr[1]) >>) \in R
      <4>1. PICK x \in Parts, q \in Seq(Digests) : x = xr[1] /\ q = xr[2]
        OBVIOUS
      <4>2. CASE x \in Stop
        BY <4>1, <4>2
      <4>3. CASE x \notin Stop
        <5>1. PICK d \in Digests : d = RootBeside(x)
          BY <1>3, <4>3, PartHalves
        <5>2. q \o << d >> \in Seq(Digests)
          OBVIOUS
        <5> QED
          BY <4>1, <4>3, <5>1, <5>2
      <4> QED
        BY <4>2, <4>3
    <3> HIDE DEF R
    <3> QED
      BY <1>4, <3>1
  <2>5. base \in [Parts -> R]
    <3>1. ASSUME NEW x \in Parts PROVE (IF x[3] THEN << >> ELSE << Root(x[1]) >>) \in R
      <4>1. PICK d \in Digests : d = Root(x[1])
        BY PartType
      <4>2. << >> \in Seq(Digests) /\ << d >> \in Seq(Digests)
        OBVIOUS
      <4> QED
        BY <4>1, <4>2
    <3> HIDE DEF R
    <3> QED
      BY <1>5, <3>1
  <2> HIDE DEF R
  <2> QED
    BY <2>1, <2>2, <2>3, <2>4, <2>5 DEF IsStep, Falls
<1> HIDE DEF R
<1>7. PICK g \in [Parts -> R] : Recurses(g, Parts, up, step, base, Stop)
  BY <1>6, Recursion
<1>8. IsSubproof(g)
  <2>1. ASSUME NEW x \in Parts PROVE g[x] = SubproofOf(g, x)
    <3>1. g[x] = IF x \in Stop THEN base[x] ELSE step[<<x, g[up[x]]>>]
      BY <1>7 DEF Recurses
    <3>2. CASE x \in Stop
      BY <3>1, <3>2, <1>3, <1>5 DEF SubproofOf
    <3>3. CASE x \notin Stop
      <4>1. x[2] # Len(x[1]) /\ up[x] = PartIn(x) /\ PartIn(x) \in Parts
        BY <3>3, <1>2, <1>3, PartHalves
      <4>2. PICK q \in R : q = g[PartIn(x)]
        BY <4>1, <1>7
      <4>3. step[<<x, q>>] = q \o << RootBeside(x) >>
        BY <1>4, <3>3
      <4> QED
        BY <3>1, <3>3, <4>1, <4>2, <4>3 DEF SubproofOf
    <3> QED
      BY <3>2, <3>3
  <2>2. g = [x \in Parts |-> g[x]]
    BY <1>7
  <2> QED
    BY <2>1, <2>2, SubproofBody
<1>9. IsSubproof(_subproof)
  <2>1. _subproof = CHOOSE f : IsSubproof(f)
    BY DEF _subproof, IsSubproof
  <2> QED
    BY <2>1, <1>8
<1>10. _subproof = [at \in Parts |-> _subproof[at]]
  BY <1>9 DEF IsSubproof
<1> QED
  BY <1>9, <1>10, SubproofBody

\* A part that is cut, with its halves.
IsCut(at, level, k, b, len, l, r, a) ==
    /\ at = <<level, k, b>> /\ len = Len(level) /\ 1 <= k /\ k < len
    /\ l = FirstHalf(level) /\ r = SecondHalf(level) /\ AreHalves(level, l, r)
    /\ a = Len(l) /\ 1 <= a /\ a < len /\ Len(r) = len - a /\ (a = 1 \/ a % 2 = 0) /\ len <= 2 * a
    /\ Root(l) \in Digests /\ Root(r) \in Digests
    /\ k <= a => PartIn(at) = <<l, k, b>> /\ RootBeside(at) = Root(r)
    /\ ~(k <= a) => PartIn(at) = <<r, k - a, FALSE>> /\ RootBeside(at) = Root(l)

LEMMA Cut ==
    ASSUME NEW at \in Parts, at[2] # Len(at[1])
    PROVE  \E level \in Seq(Digests), k \in Nat, b \in BOOLEAN, len \in Nat,
              l \in Seq(Digests), r \in Seq(Digests), a \in Nat :
              IsCut(at, level, k, b, len, l, r, a)
<1>1. PICK level \in Seq(Digests), k \in Nat, b \in BOOLEAN :
         level = at[1] /\ k = at[2] /\ b = at[3] /\ at = <<level, k, b>>
  BY PartType
<1>2. PICK len \in Nat : len = Len(level) /\ 1 <= k /\ k < len
  <2>1. 1 <= k /\ k <= Len(level) /\ k # Len(level)
    BY <1>1, PartType
  <2> QED
    BY <2>1
<1>3. PICK l \in Seq(Digests), r \in Seq(Digests) :
         l = FirstHalf(level) /\ r = SecondHalf(level) /\ AreHalves(level, l, r)
  <2>1. ~(Len(level) <= 1)
    BY <1>2
  <2> QED
    BY <2>1, HalvesOf DEF AreHalves
<1>4. PICK a \in Nat, c \in Nat : a = Len(l) /\ c = Len(r)
  OBVIOUS
<1>5. /\ 1 <= a /\ a < len /\ a + c = len /\ c # 0 /\ a = split_point[len]
      /\ (a = 1 \/ a % 2 = 0) /\ len <= 2 * a
  BY <1>2, <1>3, <1>4 DEF AreHalves, IsHalf
<1>6. Root(l) \in Digests /\ Root(r) \in Digests
  <2>1. Len(l) # 0 /\ Len(r) # 0
    BY <1>4, <1>5
  <2>2. l # << >> /\ r # << >>
    BY <2>1
  <2> QED
    BY <2>2, RootType
<1>7. /\ k <= a => PartIn(at) = <<l, k, b>> /\ RootBeside(at) = Root(r)
      /\ ~(k <= a) => PartIn(at) = <<r, k - a, FALSE>> /\ RootBeside(at) = Root(l)
  BY <1>1, <1>2, <1>3, <1>5 DEF PartIn, RootBeside
<1>8. c = len - a
  BY <1>5
<1>9. IsCut(at, level, k, b, len, l, r, a)
  BY <1>1, <1>2, <1>3, <1>4, <1>5, <1>6, <1>7, <1>8 DEF IsCut
<1> QED
  BY <1>9

\* The node an old tree of an odd size ends with, if the verifier does not know it.
EndsWith(level, k, b) == IF b /\ k = 1 THEN << >> ELSE << level[k] >>

\* A proof for an old tree of an odd size is its last node, and the siblings above it.
IsAudit(level, k, b) == _subproof[<<level, k, b>>] = EndsWith(level, k, b) \o Above(level, k - 1)

LEMMA OddPart ==
    ASSUME NEW y \in Parts, y[2] % 2 = 1, y[2] < Len(y[1]) \/ Len(y[1]) = 1
    PROVE  IsAudit(y[1], y[2], y[3])
<1> DEFINE Fits(x) == x[2] % 2 = 1 /\ (x[2] < Len(x[1]) \/ Len(x[1]) = 1)
           P == {x \in Parts : Fits(x) => IsAudit(x[1], x[2], x[3])}
<1>1. ASSUME NEW x \in Parts, x[2] # Len(x[1]) => PartIn(x) \in P
      PROVE  x \in P
  <2> SUFFICES ASSUME Fits(x) PROVE IsAudit(x[1], x[2], x[3])
    OBVIOUS
  <2>a. \A z \in Parts : z \in P <=> (Fits(z) => IsAudit(z[1], z[2], z[3]))
    OBVIOUS
  <2>b. x[2] % 2 = 1 /\ (x[2] < Len(x[1]) \/ Len(x[1]) = 1)
    OBVIOUS
  <2> HIDE DEF P, Fits
  <2>1. CASE x[2] = Len(x[1])
    <3>0. x[2] = 1 /\ Len(x[1]) = 1
      BY <2>1, <2>b, PartType
    <3>a. PICK level \in Seq(Digests), b \in BOOLEAN : level = x[1] /\ b = x[3]
      BY PartType
    <3>b. Len(level) = 1
      BY <3>0, <3>a
    <3>1. x = <<level, 1, b>>
      BY <3>0, <3>a, PartType
    <3>2. Len(level) <= 1 /\ 0 < Len(level) /\ 0 \in Nat
      BY <3>b
    <3>3. Root(level) = level[1] /\ Above(level, 0) = << >>
      BY <3>2, RootUp, LevelUp
    <3>4. _subproof[x] = IF b THEN << >> ELSE << level[1] >>
      BY <2>1, <3>a, <3>3, SubproofStep DEF SubproofOf
    <3>5. EndsWith(level, 1, b) = IF b THEN << >> ELSE << level[1] >>
      BY DEF EndsWith
    <3>6. << >> \o << >> = << >> /\ << level[1] >> \o << >> = << level[1] >>
      <4>1. 1 \in 1..Len(level)
        BY <3>b
      <4>2. << level[1] >> \in Seq(Digests) /\ << >> \in Seq(Digests)
        BY <4>1
      <4> QED
        BY <4>2, ConcatEmptySeq
    <3>7. 1 - 1 = 0
      OBVIOUS
    <3> QED
      BY <3>0, <3>a, <3>1, <3>3, <3>4, <3>5, <3>6, <3>7 DEF IsAudit
  <2>2. CASE x[2] # Len(x[1])
    <3>1. PICK level \in Seq(Digests), k \in Nat, b \in BOOLEAN, len \in Nat,
               l \in Seq(Digests), r \in Seq(Digests), a \in Nat :
               IsCut(x, level, k, b, len, l, r, a)
      BY <2>2, Cut
    <3>2. x = <<level, k, b>> /\ x[1] = level /\ x[2] = k /\ x[3] = b
      BY <3>1 DEF IsCut
    <3>3. k % 2 = 1
      BY <2>b, <3>2
    <3>4. PICK z : z = PartIn(x)
      OBVIOUS
    <3>5. z \in Parts /\ (Fits(z) => IsAudit(z[1], z[2], z[3]))
      BY <1>1, <2>2, <2>a, <3>4, PartHalves
    <3>6. PICK j \in Nat : j = k - 1 /\ j < Len(level)
      <4>1. 1 <= k /\ k < Len(level)
        BY <3>1 DEF IsCut
      <4>2. k - 1 \in Nat /\ k - 1 < Len(level)
        BY <4>1
      <4> QED
        BY <4>2
    <3>7. AboveInHalves(level, j)
      <4>1. len = Len(level) /\ 1 <= k /\ k < len
        BY <3>1 DEF IsCut
      <4>2. ~(Len(level) <= 1)
        BY <4>1
      <4> QED
        BY <4>2, <3>6, AboveSplit
    <3>8. _subproof[x] = _subproof[z] \o << RootBeside(x) >>
      BY <2>2, <3>4, SubproofStep DEF SubproofOf
    <3>9. CASE k <= a
      <4>1. z = <<l, k, b>> /\ z[1] = l /\ z[2] = k /\ z[3] = b /\ RootBeside(x) = Root(r)
        BY <3>1, <3>4, <3>9 DEF IsCut
      <4>2. a = Len(l) /\ (a = 1 \/ a % 2 = 0)
        BY <3>1 DEF IsCut
      <4>3. k < Len(l) \/ Len(l) = 1
        <5>1. k # a \/ a = 1
          BY <3>3, <4>2
        <5> QED
          BY <3>9, <4>2, <5>1
      <4>4. IsAudit(l, k, b)
        BY <3>3, <3>5, <4>1, <4>3 DEF Fits
      <4>5. l[k] = level[k] /\ k \in 1..Len(l)
        <5>1. 1 <= k /\ \A i \in 1..Len(l) : l[i] = level[i]
          BY <3>1 DEF IsCut, AreHalves
        <5>2. k \in 1..Len(l)
          BY <3>9, <4>2, <5>1
        <5> QED
          BY <5>1, <5>2
      <4>6. PICK s \in Seq(Digests), d \in Digests :
               s = EndsWith(l, k, b) /\ d = Root(r) /\ EndsWith(level, k, b) = s
        <5>1. << l[k] >> \in Seq(Digests) /\ << >> \in Seq(Digests)
          BY <4>5
        <5>2. EndsWith(l, k, b) \in Seq(Digests) /\ EndsWith(level, k, b) = EndsWith(l, k, b)
          BY <4>5, <5>1 DEF EndsWith
        <5>3. Root(r) \in Digests
          BY <3>1 DEF IsCut
        <5> QED
          BY <5>2, <5>3
      <4>7. j < Len(l)
        BY <3>6, <3>9, <4>2
      <4>8. PICK t \in Seq(Digests) : t = Above(l, j)
        BY <4>7, LevelUp
      <4>9. Above(level, j) = t \o << d >>
        <5>1. l = FirstHalf(level) /\ r = SecondHalf(level)
          BY <3>1 DEF IsCut
        <5> QED
          BY <3>7, <4>6, <4>7, <4>8, <5>1 DEF AboveInHalves
      <4>10. _subproof[z] = s \o t
        BY <3>6, <4>1, <4>4, <4>6, <4>8 DEF IsAudit
      <4>11. s \o (t \o << d >>) = (s \o t) \o << d >>
        BY OneMoreBehind
      <4> QED
        BY <3>2, <3>6, <3>8, <4>1, <4>6, <4>9, <4>10, <4>11 DEF IsAudit
    <3>10. CASE ~(k <= a)
      <4>1. PICK h \in Nat : h = k - a /\ k = a + h /\ h # 0
        BY <3>10
      <4>2. z = <<r, h, FALSE>> /\ z[1] = r /\ z[2] = h /\ z[3] = FALSE /\ RootBeside(x) = Root(l)
        <5>1. PartIn(x) = <<r, k - a, FALSE>> /\ RootBeside(x) = Root(l)
          BY <3>1, <3>10 DEF IsCut
        <5>2. z = <<r, h, FALSE>>
          BY <3>4, <4>1, <5>1
        <5> QED
          BY <5>1, <5>2
      <4>3. /\ a = Len(l) /\ (a = 1 \/ a % 2 = 0) /\ len <= 2 * a /\ 1 <= k /\ k < len /\ 1 <= a
            /\ Len(r) = len - a
        BY <3>1 DEF IsCut
      <4>4. a % 2 = 0
        <5>1. a # 1
          BY <3>10, <4>3
        <5> QED
          BY <4>3, <5>1
      <4>5. h % 2 = 1 /\ h < Len(r) /\ k # 1
        <5>1. h % 2 = 1
          BY <3>3, <4>1, <4>4
        <5>2. h < Len(r) /\ k # 1
          BY <3>10, <4>1, <4>3
        <5> QED
          BY <5>1, <5>2
      <4>6. IsAudit(r, h, FALSE)
        BY <3>5, <4>2, <4>5 DEF Fits
      <4>7. r[h] = level[k] /\ h \in 1..Len(r)
        <5>1. \A i \in 1..Len(r) : r[i] = level[Len(l) + i]
          BY <3>1 DEF IsCut, AreHalves
        <5>2. h \in 1..Len(r)
          BY <4>1, <4>5
        <5> QED
          BY <4>1, <4>3, <5>1, <5>2
      <4>8. PICK s \in Seq(Digests), d \in Digests :
               s = << level[k] >> /\ d = Root(l) /\ EndsWith(level, k, b) = s /\ EndsWith(r, h, FALSE) = s
        <5>1. << r[h] >> \in Seq(Digests)
          BY <4>7
        <5>2. EndsWith(level, k, b) = << level[k] >> /\ EndsWith(r, h, FALSE) = << level[k] >>
          BY <4>5, <4>7 DEF EndsWith
        <5>3. Root(l) \in Digests
          BY <3>1 DEF IsCut
        <5> QED
          BY <4>7, <5>1, <5>2, <5>3
      <4>9. ~(j < Len(l)) /\ j - Len(l) = h - 1 /\ h - 1 \in Nat /\ h - 1 < Len(r)
        BY <3>6, <4>1, <4>3, <4>5
      <4>10. PICK t \in Seq(Digests) : t = Above(r, h - 1)
        BY <4>9, LevelUp
      <4>11. Above(level, j) = t \o << d >>
        <5>1. l = FirstHalf(level) /\ r = SecondHalf(level)
          BY <3>1 DEF IsCut
        <5> QED
          BY <3>7, <4>8, <4>9, <4>10, <5>1 DEF AboveInHalves
      <4>12. _subproof[z] = s \o t
        BY <4>2, <4>6, <4>8, <4>10 DEF IsAudit
      <4>13. s \o (t \o << d >>) = (s \o t) \o << d >>
        BY OneMoreBehind
      <4> QED
        BY <3>2, <3>6, <3>8, <4>2, <4>8, <4>11, <4>12, <4>13 DEF IsAudit
    <3> QED
      BY <3>9, <3>10
  <2> QED
    BY <2>1, <2>2
<1> HIDE DEF P
<1>2. Parts \subseteq P
  BY <1>1, PartInduction
<1>3. y \in P
  BY <1>2
<1> QED
  BY <1>3 DEF P

\* A proof for an old tree of an even size is the proof on the next level up.
IsProofAbove(level, k, b) == _subproof[<<level, k, b>>] = _subproof[<<next_level(level), k \div 2, b>>]

LEMMA EvenUp ==
    ASSUME NEW level \in Seq(Digests), NEW k \in Nat, NEW b \in BOOLEAN,
           1 <= k, k <= Len(level), k % 2 = 0
    PROVE  /\ <<next_level(level), k \div 2, b>> \in Parts
           /\ k < Len(level) => k \div 2 < Len(next_level(level)) /\ ~(Len(level) <= 2)
           /\ k = Len(level) => k \div 2 = Len(next_level(level))
           /\ Root(next_level(level)) = Root(level)
<1>1. PICK len \in Nat, j \in Nat, half \in Nat :
         len = Len(level) /\ j = k \div 2 /\ half = (len + 1) \div 2
  OBVIOUS
<1>2. k = 2 * j /\ 1 <= j
  BY <1>1
<1>3. next_level(level) \in Seq(Digests) /\ Len(next_level(level)) = half
  BY <1>1, NextLevelType
<1>4. j <= half /\ (k < len => j < half /\ ~(len <= 2)) /\ (k = len => j = half)
  BY <1>1, <1>2
<1>5. <<next_level(level), j, b>> \in Parts
  BY <1>2, <1>3, <1>4, PartOf
<1>6. Root(next_level(level)) = Root(level)
  <2>1. 0 \in Nat /\ 0 < Len(level)
    BY <1>1, <1>2
  <2> QED
    BY <2>1, LevelUp
<1> QED
  BY <1>1, <1>3, <1>4, <1>5, <1>6

LEMMA EvenPart ==
    ASSUME NEW y \in Parts, y[2] % 2 = 0
    PROVE  IsProofAbove(y[1], y[2], y[3])
<1> DEFINE P == {x \in Parts : x[2] % 2 = 0 => IsProofAbove(x[1], x[2], x[3])}
<1>1. ASSUME NEW x \in Parts, x[2] # Len(x[1]) => PartIn(x) \in P
      PROVE  x \in P
  <2> SUFFICES ASSUME x[2] % 2 = 0 PROVE IsProofAbove(x[1], x[2], x[3])
    OBVIOUS
  <2>a. \A z \in Parts : z \in P <=> (z[2] % 2 = 0 => IsProofAbove(z[1], z[2], z[3]))
    OBVIOUS
  <2> HIDE DEF P
  <2>b. PICK level \in Seq(Digests), k \in Nat, b \in BOOLEAN :
           /\ x = <<level, k, b>> /\ level = x[1] /\ k = x[2] /\ b = x[3]
           /\ 1 <= k /\ k <= Len(level) /\ k % 2 = 0
    BY PartType
  <2>c. PICK u \in Seq(Digests), j \in Nat, w \in Parts :
           /\ u = next_level(level) /\ j = k \div 2 /\ w = <<u, j, b>>
           /\ w[1] = u /\ w[2] = j /\ w[3] = b
    <3>1. PICK u \in Seq(Digests), j \in Nat : u = next_level(level) /\ j = k \div 2
      BY NextLevelType
    <3>2. PICK w \in Parts : w = <<u, j, b>>
      BY <2>b, <3>1, EvenUp
    <3> QED
      BY <3>1, <3>2
  <2>d. /\ k < Len(level) => j < Len(u) /\ ~(Len(level) <= 2)
        /\ k = Len(level) => j = Len(u)
        /\ Root(u) = Root(level)
    BY <2>b, <2>c, EvenUp
  <2> SUFFICES _subproof[x] = _subproof[w]
    BY <2>b, <2>c DEF IsProofAbove
  <2>1. CASE k = Len(level)
    <3>1. _subproof[x] = IF b THEN << >> ELSE << Root(level) >>
      BY <2>1, <2>b, SubproofStep DEF SubproofOf
    <3>2. _subproof[w] = IF b THEN << >> ELSE << Root(u) >>
      BY <2>1, <2>c, <2>d, SubproofStep DEF SubproofOf
    <3> QED
      BY <2>d, <3>1, <3>2
  <2>2. CASE k # Len(level)
    <3>0. x[2] # Len(x[1]) /\ w[2] # Len(w[1]) /\ ~(Len(level) <= 2)
      <4>1. k < Len(level)
        BY <2>2, <2>b
      <4>2. j < Len(u) /\ ~(Len(level) <= 2)
        BY <4>1, <2>d
      <4>3. j # Len(u)
        BY <4>2
      <4> QED
        BY <2>2, <2>b, <2>c, <4>2, <4>3
    <3>1. PICK l \in Seq(Digests), r \in Seq(Digests), a \in Nat, len \in Nat :
               IsCut(x, level, k, b, len, l, r, a)
      <4>1. PICK level_ \in Seq(Digests), k_ \in Nat, b_ \in BOOLEAN, len \in Nat,
                 l \in Seq(Digests), r \in Seq(Digests), a \in Nat :
                 IsCut(x, level_, k_, b_, len, l, r, a)
        BY <3>0, Cut
      <4>2. x = <<level_, k_, b_>>
        BY <4>1 DEF IsCut
      <4>3. level_ = level /\ k_ = k /\ b_ = b
        BY <4>2, <2>b
      <4> QED
        BY <4>1, <4>3
    <3>2. PICK v \in Seq(Digests), t \in Seq(Digests), c \in Nat, half \in Nat :
               IsCut(w, u, j, b, half, v, t, c)
      <4>1. PICK level_ \in Seq(Digests), k_ \in Nat, b_ \in BOOLEAN, half \in Nat,
                 v \in Seq(Digests), t \in Seq(Digests), c \in Nat :
                 IsCut(w, level_, k_, b_, half, v, t, c)
        BY <3>0, Cut
      <4>2. w = <<level_, k_, b_>>
        BY <4>1 DEF IsCut
      <4>3. level_ = u /\ k_ = j /\ b_ = b
        BY <4>2, <2>c
      <4> QED
        BY <4>1, <4>3
    <3>3. v = next_level(l) /\ t = next_level(r) /\ a = 2 * c
      <4>1. /\ FirstHalf(u) = next_level(FirstHalf(level))
            /\ SecondHalf(u) = next_level(SecondHalf(level))
            /\ split_point[Len(level)] = 2 * split_point[Len(u)]
        BY <2>c, <3>0, HalvesUp
      <4>2. /\ l = FirstHalf(level) /\ r = SecondHalf(level) /\ a = split_point[Len(level)]
            /\ v = FirstHalf(u) /\ t = SecondHalf(u) /\ c = split_point[Len(u)]
        BY <3>1, <3>2 DEF IsCut, AreHalves
      <4> QED
        BY <4>1, <4>2
    <3>4. Root(v) = Root(l) /\ Root(t) = Root(r)
      <4>1. a = Len(l) /\ 1 <= a /\ a < len /\ Len(r) = len - a
        BY <3>1 DEF IsCut
      <4>2. 0 \in Nat /\ 0 < Len(l) /\ 0 < Len(r)
        BY <4>1
      <4> QED
        BY <3>3, <4>2, LevelUp
    <3>5. k = 2 * j
      BY <2>b, <2>c
    <3>6. k <= a <=> j <= c
      BY <3>3, <3>5
    <3>7. PICK z \in Parts : z = PartIn(x) /\ z \in P
      BY <1>1, <3>0, PartHalves
    <3>8. PICK y_ \in Parts : y_ = PartIn(w)
      BY <3>0, PartHalves
    <3>9. /\ _subproof[x] = _subproof[z] \o << RootBeside(x) >>
          /\ _subproof[w] = _subproof[y_] \o << RootBeside(w) >>
      BY <3>0, <3>7, <3>8, SubproofStep DEF SubproofOf
    <3>10. CASE k <= a
      <4>1. z = <<l, k, b>> /\ RootBeside(x) = Root(r)
        BY <3>1, <3>7, <3>10 DEF IsCut
      <4>2. y_ = <<v, j, b>> /\ RootBeside(w) = Root(t)
        BY <3>2, <3>6, <3>8, <3>10 DEF IsCut
      <4>3. z[1] = l /\ z[2] = k /\ z[3] = b
        BY <4>1
      <4>4. IsProofAbove(l, k, b)
        BY <2>a, <2>b, <3>7, <4>3
      <4>5. _subproof[z] = _subproof[y_]
        BY <2>c, <3>3, <4>1, <4>2, <4>4 DEF IsProofAbove
      <4> QED
        BY <3>4, <3>9, <4>1, <4>2, <4>5
    <3>11. CASE ~(k <= a)
      <4>1. PICK h \in Nat, i \in Nat : h = k - a /\ i = j - c /\ h % 2 = 0 /\ h \div 2 = i
        <5>1. k - a \in Nat /\ j - c \in Nat
          BY <3>6, <3>11
        <5>2. k - a = 2 * (j - c)
          BY <3>3, <3>5
        <5>3. (k - a) % 2 = 0 /\ (k - a) \div 2 = j - c
          BY <5>1, <5>2
        <5> QED
          BY <5>1, <5>3
      <4>2. z = <<r, h, FALSE>> /\ RootBeside(x) = Root(l)
        BY <3>1, <3>7, <3>11, <4>1 DEF IsCut
      <4>3. y_ = <<t, i, FALSE>> /\ RootBeside(w) = Root(v)
        BY <3>2, <3>6, <3>8, <3>11, <4>1 DEF IsCut
      <4>4. z[1] = r /\ z[2] = h /\ z[3] = FALSE
        BY <4>2
      <4>5. IsProofAbove(r, h, FALSE)
        BY <2>a, <3>7, <4>1, <4>4
      <4>6. _subproof[z] = _subproof[y_]
        BY <3>3, <4>1, <4>2, <4>3, <4>5 DEF IsProofAbove
      <4> QED
        BY <3>4, <3>9, <4>2, <4>3, <4>6
    <3> QED
      BY <3>10, <3>11
  <2> QED
    BY <2>1, <2>2
<1> HIDE DEF P
<1>2. Parts \subseteq P
  BY <1>1, PartInduction
<1>3. y \in P
  BY <1>2
<1> QED
  BY <1>3 DEF P

-----------------------------------------------------------------------------
(* Where the verification of an honest proof begins *)

LEMMA StripOddStep ==
    ASSUME NEW f \in Nat, NEW s \in Nat
    PROVE  StripOdd[<<f, s>>] = IF f % 2 = 1 THEN StripOdd[<<f \div 2, s \div 2>>] ELSE <<f, s>>
<1> DEFINE Stop == {x \in Nat \X Nat : ~(x[1] % 2 = 1)}
<1>1. \A x \in Nat \X Nat : x \notin Stop => x[1] # 0
  OBVIOUS
<1>2. \A g : IsStrip(g, Stop) <=>
         g = [x \in Nat \X Nat |-> IF x[1] % 2 = 1 THEN g[<<x[1] \div 2, x[2] \div 2>>] ELSE x]
  BY DEF IsStrip, Halved
<1>3. StripOdd = CHOOSE g : IsStrip(g, Stop)
  BY <1>2 DEF StripOdd
<1> HIDE DEF Stop
<1>4. IsStrip(StripOdd, Stop)
  BY <1>1, <1>3, Stripping
<1>5. StripOdd = [x \in Nat \X Nat |-> IF x[1] % 2 = 1 THEN StripOdd[<<x[1] \div 2, x[2] \div 2>>] ELSE x]
  BY <1>2, <1>4
<1>6. PICK at \in Nat \X Nat : at = <<f, s>> /\ at[1] = f /\ at[2] = s
  <2>1. <<f, s>> \in Nat \X Nat /\ <<f, s>>[1] = f /\ <<f, s>>[2] = s
    OBVIOUS
  <2> QED
    BY <2>1
<1>7. StripOdd[at] = IF at[1] % 2 = 1 THEN StripOdd[<<at[1] \div 2, at[2] \div 2>>] ELSE at
  BY <1>5
<1> QED
  BY <1>6, <1>7

LEMMA StripEvenStep ==
    ASSUME NEW f \in Nat, NEW s \in Nat
    PROVE  StripEven[<<f, s>>] = IF f % 2 = 0 /\ f # 0 THEN StripEven[<<f \div 2, s \div 2>>] ELSE <<f, s>>
<1> DEFINE Stop == {x \in Nat \X Nat : ~(x[1] % 2 = 0 /\ x[1] # 0)}
<1>1. \A x \in Nat \X Nat : x \notin Stop => x[1] # 0
  OBVIOUS
<1>2. \A g : IsStrip(g, Stop) <=>
         g = [x \in Nat \X Nat |-> IF x[1] % 2 = 0 /\ x[1] # 0 THEN g[<<x[1] \div 2, x[2] \div 2>>] ELSE x]
  BY DEF IsStrip, Halved
<1>3. StripEven = CHOOSE g : IsStrip(g, Stop)
  BY <1>2 DEF StripEven
<1> HIDE DEF Stop
<1>4. IsStrip(StripEven, Stop)
  BY <1>1, <1>3, Stripping
<1>5. StripEven = [x \in Nat \X Nat |->
                     IF x[1] % 2 = 0 /\ x[1] # 0 THEN StripEven[<<x[1] \div 2, x[2] \div 2>>] ELSE x]
  BY <1>2, <1>4
<1>6. PICK at \in Nat \X Nat : at = <<f, s>> /\ at[1] = f /\ at[2] = s
  <2>1. <<f, s>> \in Nat \X Nat /\ <<f, s>>[1] = f /\ <<f, s>>[2] = s
    OBVIOUS
  <2> QED
    BY <2>1
<1>7. StripEven[at] = IF at[1] % 2 = 0 /\ at[1] # 0 THEN StripEven[<<at[1] \div 2, at[2] \div 2>>] ELSE at
  BY <1>5
<1> QED
  BY <1>6, <1>7

LEMMA FirstOf ==
    ASSUME NEW level \in Seq(Digests), NEW k \in Nat, 1 <= k, k <= Len(level)
    PROVE  /\ SubSeq(level, 1, k) \in Seq(Digests) /\ Len(SubSeq(level, 1, k)) = k
           /\ \A i \in 1..k : SubSeq(level, 1, k)[i] = level[i]
<1>1. PICK a \in Nat : a = 0 /\ a + k <= Len(level)
  OBVIOUS
<1>2. /\ SubSeq(level, a + 1, a + k) \in Seq(Digests) /\ Len(SubSeq(level, a + 1, a + k)) = k
      /\ \A i \in 1..k : SubSeq(level, a + 1, a + k)[i] = level[a + i]
  BY <1>1, Slice
<1>3. SubSeq(level, a + 1, a + k) = SubSeq(level, 1, k) /\ \A i \in 1..k : a + i = i
  BY <1>1
<1> QED
  BY <1>2, <1>3

\* The verification of a proof for k of the leaves goes on as one for h of the nodes
\* of a level, h odd.
GoesOn(level, k, v, h) ==
    /\ h % 2 = 1 /\ 1 <= h /\ h < Len(v)
    /\ StripOdd[<<k - 1, Len(level) - 1>>] = <<h - 1, Len(v) - 1>>
    /\ Root(v) = Root(level)
    /\ Root(SubSeq(v, 1, h)) = Root(SubSeq(level, 1, k))
    /\ _subproof[<<level, k, TRUE>>] = _subproof[<<v, h, TRUE>>]
    /\ IsPowerOfTwo[k] <=> IsPowerOfTwo[h]

LEMMA GoesOnAbove ==
    ASSUME NEW level \in Seq(Digests), NEW k \in Nat, 1 <= k, k < Len(level), k % 2 = 0,
           NEW v \in Seq(Digests), NEW h \in Nat, GoesOn(next_level(level), k \div 2, v, h)
    PROVE  GoesOn(level, k, v, h)
<1>1. PICK len \in Nat, j \in Nat, half \in Nat :
         len = Len(level) /\ j = k \div 2 /\ half = (len + 1) \div 2
  OBVIOUS
<1>2. k = 2 * j /\ 1 <= j /\ ~(k <= 1)
  BY <1>1
<1>3. PICK u \in Seq(Digests) : u = next_level(level) /\ Len(u) = half /\ Root(u) = Root(level)
  <2>1. 0 \in Nat /\ 0 < Len(level)
    BY <1>1, <1>2
  <2> QED
    BY <1>1, <2>1, NextLevelType, LevelUp
<1>4. StripOdd[<<k - 1, len - 1>>] = StripOdd[<<j - 1, half - 1>>]
  <2>1. PICK f \in Nat, s \in Nat : f = k - 1 /\ s = len - 1
    <3>1. k - 1 \in Nat /\ len - 1 \in Nat
      BY <1>1, <1>2
    <3> QED
      BY <3>1
  <2>2. f % 2 = 1 /\ f \div 2 = j - 1 /\ s \div 2 = half - 1
    BY <1>1, <1>2, <2>1
  <2> QED
    BY <2>1, <2>2, StripOddStep
<1>5. Root(SubSeq(u, 1, j)) = Root(SubSeq(level, 1, k))
  <2>1. PICK x \in Seq(Digests) : x = SubSeq(level, 1, k) /\ Len(x) = k
    <3>1. k <= Len(level)
      OBVIOUS
    <3> QED
      BY <3>1, FirstOf
  <2>2. next_level(SubSeq(level, 2 * 0 + 1, k)) = SubSeq(next_level(level), 0 + 1, (k + 1) \div 2)
    <3>1. 2 * 0 < k /\ k <= Len(level) /\ 0 \in Nat
      OBVIOUS
    <3> QED
      BY <3>1, EvenSlice
  <2>3. 2 * 0 + 1 = 1 /\ 0 + 1 = 1 /\ (k + 1) \div 2 = j
    BY <1>2
  <2>4. next_level(x) = SubSeq(u, 1, j)
    BY <1>3, <2>1, <2>2, <2>3
  <2>5. Root(next_level(x)) = Root(x)
    <3>1. 0 \in Nat /\ 0 < Len(x)
      BY <2>1
    <3> QED
      BY <3>1, LevelUp
  <2> QED
    BY <2>1, <2>4, <2>5
<1>6. _subproof[<<level, k, TRUE>>] = _subproof[<<u, j, TRUE>>]
  <2>1. <<level, k, TRUE>> \in Parts
    <3>1. k <= Len(level)
      BY <1>1
    <3> QED
      BY <3>1, PartOf
  <2>2. PICK y \in Parts : y = <<level, k, TRUE>> /\ y[1] = level /\ y[2] = k /\ y[3] = TRUE
    BY <2>1
  <2>3. IsProofAbove(level, k, TRUE)
    BY <2>2, EvenPart
  <2> QED
    BY <1>1, <1>3, <2>3 DEF IsProofAbove
<1>7. IsPowerOfTwo[k] <=> IsPowerOfTwo[j]
  BY <1>1, <1>2, OneBit
<1>8. GoesOn(u, j, v, h)
  BY <1>1, <1>3
<1> QED
  BY <1>1, <1>3, <1>4, <1>5, <1>6, <1>7, <1>8 DEF GoesOn

LEMMA Beginning ==
    ASSUME NEW level \in Seq(Digests), NEW k \in Nat, 1 <= k, k < Len(level)
    PROVE  \E v \in Seq(Digests), h \in Nat : GoesOn(level, k, v, h)
<1> DEFINE P == {v \in Seq(Digests) : \A j \in Nat : 1 <= j /\ j < Len(v) =>
                    \E w \in Seq(Digests), h \in Nat : GoesOn(v, j, w, h)}
<1>1. ASSUME NEW v \in Seq(Digests), ~(Len(v) <= 1) => next_level(v) \in P
      PROVE  v \in P
  <2> SUFFICES ASSUME NEW j \in Nat, 1 <= j, j < Len(v)
               PROVE  \E w \in Seq(Digests), h \in Nat : GoesOn(v, j, w, h)
    OBVIOUS
  <2>1. CASE j % 2 = 1
    <3>1. PICK f \in Nat, s \in Nat : f = j - 1 /\ s = Len(v) - 1 /\ f % 2 # 1
      <4>1. j - 1 \in Nat /\ Len(v) - 1 \in Nat /\ (j - 1) % 2 # 1
        BY <2>1
      <4> QED
        BY <4>1
    <3>2. StripOdd[<<f, s>>] = <<f, s>>
      BY <3>1, StripOddStep
    <3>3. GoesOn(v, j, v, j)
      BY <2>1, <3>1, <3>2 DEF GoesOn
    <3> QED
      BY <3>3
  <2>2. CASE j % 2 # 1
    <3>1. j % 2 = 0 /\ 1 <= j \div 2 /\ j \div 2 \in Nat /\ ~(Len(v) <= 1)
      BY <2>2
    <3>2. j \div 2 < Len(next_level(v))
      <4>1. 1 <= j /\ j <= Len(v) /\ TRUE \in BOOLEAN
        OBVIOUS
      <4> QED
        BY <3>1, <4>1, EvenUp
    <3>3. PICK w \in Seq(Digests), h \in Nat : GoesOn(next_level(v), j \div 2, w, h)
      BY <1>1, <3>1, <3>2
    <3>4. GoesOn(v, j, w, h)
      BY <3>1, <3>3, GoesOnAbove
    <3> QED
      BY <3>4
  <2> QED
    BY <2>1, <2>2
<1> HIDE DEF P
<1>2. level \in P
  BY <1>1, LevelInduction
<1> QED
  BY <1>2 DEF P

-----------------------------------------------------------------------------
(* The two trees, level by level *)

\* The last node x of a level of the old tree, and the node y in its place in the new
\* tree.  Left of them the levels are the same.
InBoth(O, K, f, s, x, y) ==
    /\ Len(O) = f + 1 /\ Len(K) = s + 1 /\ f <= s
    /\ \A i \in 1..f : O[i] = K[i]
    /\ x = O[f + 1] /\ y = K[f + 1] /\ x \in Digests /\ y \in Digests

\* The next level, where the last node is u and the other one v.
BothAbove(O, K, f, s, u, v) ==
    /\ InBoth(next_level(O), next_level(K), f \div 2, s \div 2, u, v)
    /\ next_level(O) \in Seq(Digests) /\ next_level(K) \in Seq(Digests)
    /\ f \div 2 \in Nat /\ s \div 2 \in Nat
    /\ Root(next_level(O)) = Root(O) /\ Root(next_level(K)) = Root(K)

LEMMA BothUp ==
    ASSUME NEW O \in Seq(Digests), NEW K \in Seq(Digests), NEW f \in Nat, NEW s \in Nat,
           NEW x, NEW y, InBoth(O, K, f, s, x, y)
    PROVE  /\ f % 2 = 1 => /\ Beside(K, f) = << K[f] >> /\ K[f] \in Digests
                           /\ BothAbove(O, K, f, s, node_hash(K[f], x), node_hash(K[f], y))
           /\ f % 2 = 0 /\ f < s => /\ Beside(K, f) = << K[f + 2] >> /\ K[f + 2] \in Digests
                                    /\ BothAbove(O, K, f, s, x, node_hash(y, K[f + 2]))
           /\ f % 2 = 0 /\ f = s => Beside(K, f) = << >> /\ BothAbove(O, K, f, s, x, y)
<1>1. /\ Len(O) = f + 1 /\ Len(K) = s + 1 /\ f <= s
      /\ \A i \in 1..f : O[i] = K[i]
      /\ x = O[f + 1] /\ y = K[f + 1] /\ x \in Digests /\ y \in Digests
  BY DEF InBoth
<1>2. PICK g \in Nat, t \in Nat : g = f \div 2 /\ t = s \div 2 /\ g <= t
  BY <1>1
<1>3. PICK U \in Seq(Digests) :
         /\ U = next_level(O) /\ Len(U) = g + 1
         /\ \A i \in 1..(g + 1) : U[i] = IF 2 * i > f + 1 THEN O[2 * i - 1]
                                         ELSE node_hash(O[2 * i - 1], O[2 * i])
  <2>1. (f + 1 + 1) \div 2 = g + 1
    BY <1>2
  <2>2. /\ next_level(O) \in Seq(Digests) /\ Len(next_level(O)) = (Len(O) + 1) \div 2
        /\ \A i \in 1..((Len(O) + 1) \div 2) :
              next_level(O)[i] = IF 2 * i > Len(O) THEN O[2 * i - 1] ELSE node_hash(O[2 * i - 1], O[2 * i])
    BY NextLevelType
  <2> QED
    BY <1>1, <2>1, <2>2
<1>4. PICK V \in Seq(Digests) :
         /\ V = next_level(K) /\ Len(V) = t + 1
         /\ \A i \in 1..(t + 1) : V[i] = IF 2 * i > s + 1 THEN K[2 * i - 1]
                                         ELSE node_hash(K[2 * i - 1], K[2 * i])
  <2>1. (s + 1 + 1) \div 2 = t + 1
    BY <1>2
  <2>2. /\ next_level(K) \in Seq(Digests) /\ Len(next_level(K)) = (Len(K) + 1) \div 2
        /\ \A i \in 1..((Len(K) + 1) \div 2) :
              next_level(K)[i] = IF 2 * i > Len(K) THEN K[2 * i - 1] ELSE node_hash(K[2 * i - 1], K[2 * i])
    BY NextLevelType
  <2> QED
    BY <1>1, <2>1, <2>2
<1>5. ASSUME NEW i \in 1..g PROVE U[i] = V[i]
  <2>1. 2 * i - 1 \in 1..f /\ 2 * i \in 1..f
    BY <1>2
  <2>2. ~(2 * i > f + 1) /\ ~(2 * i > s + 1) /\ i \in 1..(g + 1) /\ i \in 1..(t + 1)
    BY <1>1, <1>2, <2>1
  <2>3. O[2 * i - 1] = K[2 * i - 1] /\ O[2 * i] = K[2 * i]
    BY <1>1, <2>1
  <2> QED
    BY <1>3, <1>4, <2>2, <2>3
<1>6. Root(U) = Root(O) /\ Root(V) = Root(K)
  <2>1. 0 \in Nat /\ 0 < Len(O) /\ 0 < Len(K)
    BY <1>1
  <2> QED
    BY <1>3, <1>4, <2>1, LevelUp
<1>7. /\ U[g + 1] = IF 2 * (g + 1) > f + 1 THEN O[2 * (g + 1) - 1]
                    ELSE node_hash(O[2 * (g + 1) - 1], O[2 * (g + 1)])
      /\ V[g + 1] = IF 2 * (g + 1) > s + 1 THEN K[2 * (g + 1) - 1]
                    ELSE node_hash(K[2 * (g + 1) - 1], K[2 * (g + 1)])
  <2>1. g + 1 \in 1..(g + 1) /\ g + 1 \in 1..(t + 1)
    BY <1>2
  <2> QED
    BY <2>1, <1>3, <1>4
<1>8. ASSUME NEW u \in Digests, NEW v \in Digests, U[g + 1] = u, V[g + 1] = v
      PROVE  BothAbove(O, K, f, s, u, v)
  <2>1. InBoth(U, V, g, t, u, v)
    BY <1>2, <1>3, <1>4, <1>5, <1>8 DEF InBoth
  <2> QED
    BY <1>2, <1>3, <1>4, <1>6, <2>1 DEF BothAbove
<1>9. CASE f % 2 = 1
  <2>1. f = 2 * g + 1 /\ f \in 1..f
    BY <1>2, <1>9
  <2>2. O[f] = K[f] /\ K[f] \in Digests
    <3>1. f \in 1..Len(K)
      BY <1>1, <2>1
    <3> QED
      BY <1>1, <2>1, <3>1
  <2>3. 2 * (g + 1) = f + 1 /\ 2 * (g + 1) - 1 = f /\ ~(f + 1 > f + 1) /\ ~(f + 1 > s + 1)
    BY <1>1, <2>1
  <2>4. U[g + 1] = node_hash(K[f], x) /\ V[g + 1] = node_hash(K[f], y)
    BY <1>1, <1>7, <2>2, <2>3
  <2>5. Beside(K, f) = << K[f] >>
    BY <1>9 DEF Beside
  <2>6. node_hash(K[f], x) \in Digests /\ node_hash(K[f], y) \in Digests
    BY <1>1, <2>2, NodeDigest
  <2>7. BothAbove(O, K, f, s, node_hash(K[f], x), node_hash(K[f], y))
    BY <1>8, <2>4, <2>6
  <2> QED
    BY <1>9, <2>2, <2>5, <2>7
<1>10. CASE f % 2 = 0
  <2>1. f = 2 * g
    BY <1>2, <1>10
  <2>2. 2 * (g + 1) = f + 2 /\ 2 * (g + 1) - 1 = f + 1 /\ f + 2 > f + 1 /\ (f + 2 > s + 1 <=> f = s)
    BY <1>1, <2>1
  <2>3. U[g + 1] = x
    BY <1>1, <1>7, <2>2
  <2>4. CASE f < s
    <3>1. f + 2 \in 1..Len(K) /\ f + 1 < Len(K)
      BY <1>1, <2>4
    <3>2. K[f + 2] \in Digests
      BY <3>1
    <3>3. V[g + 1] = node_hash(y, K[f + 2])
      BY <1>1, <1>7, <2>2, <2>4
    <3>4. Beside(K, f) = << K[f + 2] >>
      BY <1>10, <3>1 DEF Beside
    <3>5. BothAbove(O, K, f, s, x, node_hash(y, K[f + 2]))
      BY <1>1, <1>8, <2>3, <3>2, <3>3, NodeDigest
    <3> QED
      BY <1>10, <2>4, <3>2, <3>4, <3>5
  <2>5. CASE f = s
    <3>1. V[g + 1] = y
      BY <1>1, <1>7, <2>2, <2>5
    <3>2. Beside(K, f) = << >>
      BY <1>1, <1>10, <2>5 DEF Beside
    <3>3. BothAbove(O, K, f, s, x, y)
      BY <1>1, <1>8, <2>3, <3>1
    <3> QED
      BY <1>10, <2>5, <3>2, <3>3
  <2> QED
    BY <1>1, <1>10, <2>4, <2>5
<1> QED
  BY <1>9, <1>10

\* Where the trees end in the same place, both go up until there is a node on the left.
Skipped(O, K, f, x, y, U, V, g) ==
    /\ g % 2 = 1 /\ InBoth(U, V, g, g, x, y)
    /\ Root(U) = Root(O) /\ Root(V) = Root(K)
    /\ Above(V, g) = Above(K, f)
    /\ StripEven[<<f, f>>] = <<g, g>>

LEMMA Skip ==
    ASSUME NEW O \in Seq(Digests), NEW K \in Seq(Digests), NEW f \in Nat, f # 0,
           NEW x, NEW y, InBoth(O, K, f, f, x, y)
    PROVE  \E U \in Seq(Digests), V \in Seq(Digests), g \in Nat : Skipped(O, K, f, x, y, U, V, g)
<1> DEFINE Does(L, k) == \E U \in Seq(Digests), V \in Seq(Digests), g \in Nat : Skipped(L, k[1], k[2], x, y, U, V, g)
           P == {k \in Seq(Digests) : \A L \in Seq(Digests), h \in Nat :
                   h # 0 /\ InBoth(L, k, h, h, x, y) => Does(L, <<k, h>>)}
<1>1. ASSUME NEW k \in Seq(Digests), ~(Len(k) <= 1) => next_level(k) \in P
      PROVE  k \in P
  <2> SUFFICES ASSUME NEW L \in Seq(Digests), NEW h \in Nat, h # 0, InBoth(L, k, h, h, x, y)
               PROVE  \E U \in Seq(Digests), V \in Seq(Digests), g \in Nat : Skipped(L, k, h, x, y, U, V, g)
    OBVIOUS
  <2>1. CASE h % 2 = 1
    <3>1. StripEven[<<h, h>>] = <<h, h>>
      <4>1. ~(h % 2 = 0 /\ h # 0)
        BY <2>1
      <4> QED
        BY <4>1, StripEvenStep
    <3>2. Skipped(L, k, h, x, y, L, k, h)
      BY <2>1, <3>1 DEF Skipped
    <3> QED
      BY <3>2
  <2>2. CASE h % 2 # 1
    <3>1. h % 2 = 0 /\ h \div 2 # 0 /\ h \div 2 \in Nat
      BY <2>2
    <3>2. Beside(k, h) = << >> /\ BothAbove(L, k, h, h, x, y)
      BY <3>1, BothUp
    <3>3. ~(Len(k) <= 1) /\ h < Len(k)
      <4>1. Len(k) = h + 1
        BY DEF InBoth
      <4> QED
        BY <4>1
    <3>4. PICK A \in Seq(Digests), B \in Seq(Digests), j \in Nat :
             /\ A = next_level(L) /\ B = next_level(k) /\ j = h \div 2
             /\ InBoth(A, B, j, j, x, y) /\ Root(A) = Root(L) /\ Root(B) = Root(k)
      BY <3>2 DEF BothAbove
    <3>5. PICK U \in Seq(Digests), V \in Seq(Digests), g \in Nat : Skipped(A, B, j, x, y, U, V, g)
      <4>1. B \in P
        BY <1>1, <3>3, <3>4
      <4>2. Does(A, <<B, j>>)
        BY <3>1, <3>4, <4>1
      <4> QED
        BY <4>2
    <3>6. Above(k, h) = Above(B, j)
      <4>1. PICK q \in Seq(Digests) : q = Above(B, j) /\ Above(k, h) = Beside(k, h) \o q
        BY <3>3, <3>4, LevelUp
      <4>2. << >> \o q = q
        OBVIOUS
      <4> QED
        BY <3>2, <4>1, <4>2
    <3>7. StripEven[<<h, h>>] = StripEven[<<j, j>>]
      BY <3>1, <3>4, StripEvenStep
    <3>8. Skipped(L, k, h, x, y, U, V, g)
      BY <3>4, <3>5, <3>6, <3>7 DEF Skipped
    <3> QED
      BY <3>8
  <2> QED
    BY <2>1, <2>2
<1> HIDE DEF P
<1>2. K \in P
  BY <1>1, LevelInduction
<1>3. Does(O, <<K, f>>)
  BY <1>2 DEF P
<1> QED
  BY <1>3

\* With no sibling left, the node is the root of the new tree.
LEMMA AtTop ==
    ASSUME NEW level \in Seq(Digests), NEW i \in Nat, i < Len(level), Above(level, i) = << >>
    PROVE  Len(level) = 1
<1> DEFINE P == {v \in Seq(Digests) : \A j \in Nat : j < Len(v) /\ Above(v, j) = << >> => Len(v) = 1}
<1>1. ASSUME NEW v \in Seq(Digests), ~(Len(v) <= 1) => next_level(v) \in P
      PROVE  v \in P
  <2> SUFFICES ASSUME NEW j \in Nat, j < Len(v), Above(v, j) = << >>
               PROVE  Len(v) = 1
    OBVIOUS
  <2>a. ~(Len(v) <= 1) =>
           \A k \in Nat : k < Len(next_level(v)) /\ Above(next_level(v), k) = << >> => Len(next_level(v)) = 1
    BY <1>1
  <2> HIDE DEF P
  <2>1. PICK len \in Nat : len = Len(v)
    OBVIOUS
  <2>2. PICK s \in Seq(Digests), q \in Seq(Digests), k \in Nat :
           /\ s = Beside(v, j) /\ k = j \div 2 /\ q = Above(next_level(v), k)
           /\ k < Len(next_level(v)) /\ Above(v, j) = s \o q
    <3>1. Beside(v, j) \in Seq(Digests)
      BY BesideType
    <3>2. /\ j \div 2 \in Nat /\ j \div 2 < Len(next_level(v))
          /\ Above(next_level(v), j \div 2) \in Seq(Digests)
          /\ Above(v, j) = Beside(v, j) \o Above(next_level(v), j \div 2)
      BY LevelUp
    <3> QED
      BY <3>1, <3>2
  <2>3. s = << >> /\ q = << >>
    <3>1. PICK a \in Nat, b \in Nat : a = Len(s) /\ b = Len(q)
      OBVIOUS
    <3>2. Len(s \o q) = a + b
      BY <3>1, ConcatProperties
    <3>3. Len(s \o q) = 0
      <4>1. s \o q = << >>
        BY <2>2
      <4>2. Len(<< >>) = 0
        OBVIOUS
      <4> QED
        BY <4>1, <4>2
    <3>4. a = 0 /\ b = 0
      BY <3>2, <3>3
    <3> QED
      BY <3>1, <3>4, EmptySeq
  <2>4. SUFFICES ASSUME ~(len <= 1) PROVE FALSE
    BY <2>1
  <2>5. Len(next_level(v)) = 1
    BY <2>a, <2>1, <2>2, <2>3, <2>4
  <2>6. Len(next_level(v)) = (len + 1) \div 2
    BY <2>1, NextLevelType
  <2>7. len = 2
    <3>1. (len + 1) \div 2 = 1
      BY <2>5, <2>6
    <3> QED
      BY <2>4, <3>1
  <2>8. j = 0 \/ j = 1
    BY <2>1, <2>7
  <2>9. Beside(v, j) # << >>
    <3>1. CASE j = 0
      <4>1. Beside(v, j) = << v[j + 2] >>
        BY <2>1, <2>7, <3>1 DEF Beside
      <4> QED
        BY <4>1
    <3>2. CASE j = 1
      <4>1. Beside(v, j) = << v[j] >>
        BY <3>2 DEF Beside
      <4> QED
        BY <4>1
    <3> QED
      BY <2>8, <3>1, <3>2
  <2> QED
    BY <2>2, <2>3, <2>9
<1> HIDE DEF P
<1>2. level \in P
  BY <1>1, LevelInduction
<1> QED
  BY <1>2 DEF P

-----------------------------------------------------------------------------
(* A proof that was built is accepted *)

\* What is left of a proof when some of its nodes have been read.
IsLeft(proof, done, left) ==
    /\ Len(proof) = done + Len(left)
    /\ \A i \in 1..Len(left) : proof[done + i] = left[i]

LEMMA ReadOne ==
    ASSUME NEW proof, NEW done \in Nat, NEW d \in Digests, NEW left \in Seq(Digests),
           IsLeft(proof, done, << d >> \o left)
    PROVE  proof[done + 1] = d /\ IsLeft(proof, done + 1, left)
<1>1. PICK len \in Nat : len = Len(left)
  OBVIOUS
<1>2. PICK q \in Seq(Digests) : q = << d >> \o left
  <2>1. << d >> \in Seq(Digests)
    OBVIOUS
  <2> QED
    BY <2>1, ConcatProperties
<1>3. Len(q) = len + 1 /\ q[1] = d /\ \A i \in 1..len : q[i + 1] = left[i]
  BY <1>1, <1>2
<1>4. Len(proof) = done + (len + 1) /\ \A i \in 1..(len + 1) : proof[done + i] = q[i]
  BY <1>2, <1>3 DEF IsLeft
<1>5. ASSUME NEW i \in 1..len PROVE proof[done + 1 + i] = left[i]
  <2>1. i + 1 \in 1..(len + 1) /\ done + (i + 1) = done + 1 + i
    OBVIOUS
  <2> QED
    BY <1>3, <1>4, <2>1
<1>6. proof[done + 1] = d
  <2>1. 1 \in 1..(len + 1)
    OBVIOUS
  <2> QED
    BY <1>3, <1>4, <2>1
<1>7. Len(proof) = done + 1 + len
  BY <1>4
<1> QED
  BY <1>1, <1>5, <1>6, <1>7 DEF IsLeft

\* The levels the verification of an honest proof is at.
HonestAt(O, K) ==
    /\ InBoth(O, K, fi, si, fn, sn)
    /\ Root(O) = old_root /\ Root(K) = new_root
    /\ IsLeft(Proof, read, Above(K, fi))

HonestInv ==
    honestProof => /\ IsBuilt
                   /\ consistency # "invalid"
                   /\ consistency = "path" => /\ read = 0 => si # 0
                                              /\ \E O, K \in Seq(Digests) : HonestAt(O, K)

\* The leaves of the old tree are the first of the new one's.
LEMMA BuiltLeaves ==
    ASSUME ConsistencyTypeOK, IsBuilt, m # 0
    PROVE  \E level \in Seq(Digests) :
              /\ level = _export_leaves(new) /\ Len(level) = n /\ 1 <= m /\ m <= n
              /\ new_root = Root(level) /\ old_root = Root(SubSeq(level, 1, m))
<1>1. old \in Seq(Lines) /\ new \in Seq(Lines) /\ m \in Nat /\ n \in Nat
  BY ExportsAssumption DEF ConsistencyTypeOK
<1>2. m = Len(old) /\ n = Len(new) /\ m <= n /\ \A i \in 1..m : new[i] = old[i]
  BY DEF IsBuilt
<1>3. PICK level \in Seq(Digests) : /\ level = _export_leaves(new) /\ Len(level) = n
                                    /\ \A i \in 1..n : level[i] = export_leaf_hash(new[i])
  BY <1>1, <1>2, Leaves
<1>4. PICK first \in Seq(Digests) : /\ first = _export_leaves(old) /\ Len(first) = m
                                    /\ \A i \in 1..m : first[i] = export_leaf_hash(old[i])
  BY <1>1, <1>2, Leaves
<1>5. PICK part \in Seq(Digests) : /\ part = SubSeq(level, 1, m) /\ Len(part) = m
                                   /\ \A i \in 1..m : part[i] = level[i]
  <2>1. 1 <= m /\ m <= Len(level)
    BY <1>1, <1>2, <1>3
  <2> QED
    BY <1>1, <2>1, FirstOf
<1>6. part = first
  <2>1. \A i \in 1..m : part[i] = first[i]
    <3>1. \A i \in 1..m : i \in 1..n
      BY <1>1, <1>2
    <3> QED
      BY <3>1, <1>2, <1>3, <1>4, <1>5
  <2> QED
    BY <2>1, <1>4, <1>5, SeqEqual
<1>7. level # << >> /\ first # << >>
  <2>1. Len(level) # 0 /\ Len(first) # 0
    BY <1>1, <1>2, <1>3, <1>4
  <2> QED
    BY <2>1
<1>8. new_root = Root(level) /\ old_root = Root(first)
  BY <1>3, <1>4, <1>7 DEF new_root, old_root, export_merkle_root, root_of, Root
<1>9. 1 <= m
  BY <1>1
<1> QED
  BY <1>2, <1>3, <1>5, <1>6, <1>8, <1>9

\* Equal trees have equal roots, and an empty one has that of nothing.
LEMMA HonestTrivial ==
    ASSUME ConsistencyTypeOK, IsBuilt, m \in {0, n}
    PROVE  Trivial
<1>1. old \in Seq(Lines) /\ new \in Seq(Lines) /\ m \in Nat /\ n \in Nat
  BY ExportsAssumption DEF ConsistencyTypeOK
<1>2. m = Len(old) /\ n = Len(new) /\ \A i \in 1..m : new[i] = old[i]
  BY DEF IsBuilt
<1>3. CASE m = n
  <2>1. old = new
    BY <1>1, <1>2, <1>3, SeqEqual
  <2> QED
    BY <1>3, <2>1 DEF Trivial, old_root, new_root
<1>4. CASE m # n
  <2>1. m = 0
    BY <1>4
  <2>2. PICK leaves \in Seq(Digests) : leaves = _export_leaves(old) /\ Len(leaves) = 0
    BY <1>1, <1>2, <2>1, Leaves
  <2>3. leaves = << >>
    BY <2>2, EmptySeq
  <2>4. old_root = EmptyDigest
    BY <2>2, <2>3 DEF old_root, export_merkle_root, root_of
  <2> QED
    BY <1>4, <2>1, <2>4 DEF Trivial
<1> QED
  BY <1>3, <1>4

LEMMA HonestBegins ==
    ASSUME ConsistencyTypeOK, IsBuilt, honestProof, NEW node \in Digests, Begin(node)
    PROVE  /\ read' = 0 => si' # 0
           /\ \E O, K \in Seq(Digests) : HonestAt(O, K)'
<1>1. m \in Nat /\ n \in Nat /\ m # 0 /\ m < n
  BY DEF Begin, ConsistencyTypeOK
<1>2. PICK level \in Seq(Digests) :
         /\ level = _export_leaves(new) /\ Len(level) = n /\ 1 <= m
         /\ new_root = Root(level) /\ old_root = Root(SubSeq(level, 1, m))
  BY <1>1, BuiltLeaves
<1>3. PICK k \in Nat : k = m
  BY <1>1
<1>4. Proof = _subproof[<<level, k, TRUE>>]
  BY <1>1, <1>2, <1>3 DEF Proof, consistency_proof, IsBuilt
<1>5. PICK v \in Seq(Digests), h \in Nat : GoesOn(level, k, v, h)
  BY <1>1, <1>2, <1>3, Beginning
<1>6. h % 2 = 1 /\ 1 <= h /\ h < Len(v) /\ (IsPowerOfTwo[k] <=> IsPowerOfTwo[h])
  BY <1>5 DEF GoesOn
<1>7. PICK O \in Seq(Digests) : O = SubSeq(v, 1, h) /\ Len(O) = h /\ \A i \in 1..h : O[i] = v[i]
  <2>1. h <= Len(v)
    BY <1>6
  <2> QED
    BY <1>6, <2>1, FirstOf
<1>8. Root(v) = new_root /\ Root(O) = old_root
  BY <1>2, <1>3, <1>5, <1>7 DEF GoesOn
<1>9. PICK f \in Nat, s \in Nat : f = h - 1 /\ s = Len(v) - 1 /\ f < s
  <2>1. h - 1 \in Nat /\ Len(v) - 1 \in Nat /\ h - 1 < Len(v) - 1
    BY <1>6
  <2> QED
    BY <2>1
<1>10. fi' = f /\ si' = s
  <2>1. StripOdd[<<k - 1, Len(level) - 1>>] = <<f, s>>
    BY <1>5, <1>9 DEF GoesOn
  <2>2. Indices = <<f, s>>
    BY <1>2, <1>3, <2>1 DEF Indices
  <2>3. fi' = Indices[1] /\ si' = Indices[2]
    BY DEF Begin
  <2> QED
    BY <2>2, <2>3
<1>11. v[h] \in Digests
  <2>1. h \in 1..Len(v)
    BY <1>6
  <2> QED
    BY <2>1
<1>12. PICK left \in Seq(Digests) : left = Above(v, f)
  <2>1. f < Len(v)
    BY <1>9
  <2> QED
    BY <2>1, LevelUp
<1>13. _subproof[<<level, k, TRUE>>] = EndsWith(v, h, TRUE) \o left
  <2>1. <<v, h, TRUE>> \in Parts
    <3>1. h <= Len(v)
      BY <1>6
    <3> QED
      BY <1>6, <3>1, PartOf
  <2>2. PICK y \in Parts : y = <<v, h, TRUE>> /\ y[1] = v /\ y[2] = h /\ y[3] = TRUE
    BY <2>1
  <2>3. IsAudit(v, h, TRUE)
    BY <1>6, <2>2, OddPart
  <2> QED
    BY <1>5, <1>9, <1>12, <2>3 DEF IsAudit, GoesOn
<1>14. IsPowerOfTwo[m] <=> h = 1
  <2>1. IsPowerOfTwo[h] <=> h = 1
    <3>1. IsPowerOfTwo[h] = IF h <= 1 THEN h = 1 ELSE h % 2 = 0 /\ IsPowerOfTwo[h \div 2]
      BY OneBit
    <3>2. ~(h % 2 = 0)
      BY <1>6
    <3>3. CASE h <= 1
      BY <3>1, <3>3
    <3>4. CASE ~(h <= 1)
      <4>1. ~IsPowerOfTwo[h]
        BY <3>1, <3>2, <3>4
      <4> QED
        BY <3>4, <4>1
    <3> QED
      BY <3>3, <3>4
  <2> QED
    BY <1>3, <1>6, <2>1
<1>15. fn' = v[h] /\ sn' = v[h] /\ IsLeft(Proof, read', left)
  <2>1. CASE h = 1
    <3>1. fn' = old_root /\ sn' = old_root /\ read' = 0
      BY <1>14, <2>1 DEF Begin
    <3>2. Root(O) = O[1] /\ O[1] = v[1]
      <4>1. Len(O) <= 1 /\ 1 \in 1..h
        BY <1>7, <2>1
      <4> QED
        BY <1>7, <4>1, RootUp
    <3>3. Proof = left
      <4>1. EndsWith(v, h, TRUE) = << >> /\ << >> \o left = left
        BY <2>1 DEF EndsWith
      <4> QED
        BY <1>4, <1>13, <4>1
    <3>4. IsLeft(left, 0, left)
      <4>1. Len(left) \in Nat /\ \A i \in 1..Len(left) : 0 + i = i
        OBVIOUS
      <4> QED
        BY <4>1 DEF IsLeft
    <3> QED
      BY <1>8, <2>1, <3>1, <3>2, <3>3, <3>4
  <2>2. CASE h # 1
    <3>1. fn' = node /\ sn' = node /\ read' = 1 /\ node = Proof[1]
      BY <1>14, <2>2 DEF Begin
    <3>a. PICK d \in Digests : d = v[h]
      BY <1>11
    <3>2. PICK p : d = v[h] /\ p = << d >> \o left
      BY <3>a
    <3>3. Proof = p
      BY <1>4, <1>13, <2>2, <3>2 DEF EndsWith
    <3>4. IsLeft(p, 0, << d >> \o left)
      <4>1. PICK q \in Seq(Digests) : q = << d >> \o left
        <5>1. << d >> \in Seq(Digests)
          OBVIOUS
        <5> QED
          BY <5>1, ConcatProperties
      <4>2. Len(q) \in Nat /\ \A i \in 1..Len(q) : 0 + i = i
        OBVIOUS
      <4> QED
        BY <3>2, <4>1, <4>2 DEF IsLeft
    <3>5. p[0 + 1] = d /\ IsLeft(p, 0 + 1, left)
      BY <3>4, ReadOne
    <3>6. 0 + 1 = 1
      OBVIOUS
    <3> QED
      BY <3>1, <3>2, <3>3, <3>5, <3>6
  <2> QED
    BY <2>1, <2>2
<1>16. /\ old' = old /\ new' = new /\ m' = m /\ n' = n
  BY DEF Begin, given
<1>17. Proof' = Proof /\ old_root' = old_root /\ new_root' = new_root
  BY <1>16 DEF Proof, old_root, new_root
<1>18. InBoth(O, v, f, s, v[h], v[h])
  <2>1. Len(O) = f + 1 /\ Len(v) = s + 1 /\ f <= s /\ f + 1 = h /\ \A i \in 1..f : i \in 1..h
    BY <1>7, <1>9
  <2>2. O[h] = v[h]
    <3>1. h \in 1..h
      BY <1>6
    <3> QED
      BY <1>7, <3>1
  <2> QED
    BY <1>7, <1>11, <2>1, <2>2 DEF InBoth
<1>19. HonestAt(O, v)'
  BY <1>8, <1>10, <1>12, <1>15, <1>17, <1>18 DEF HonestAt
<1>20. si' # 0
  BY <1>9, <1>10
<1> QED
  BY <1>19, <1>20

\* A node on a level that goes up to the next: the sibling is the node the proof has next.
LEMMA HonestReads ==
    ASSUME ConsistencyTypeOK, honestProof, NEW O \in Seq(Digests), NEW K \in Seq(Digests), HonestAt(O, K),
           NEW node \in Digests, Read(node)
    PROVE  \E U, V \in Seq(Digests) : HonestAt(U, V)'
<1>1. PICK f \in Nat, s \in Nat, done \in Nat : f = fi /\ s = si /\ done = read /\ f <= s /\ s # 0
  BY DEF Read, ConsistencyTypeOK
<1>2. PICK x \in Digests, y \in Digests : x = fn /\ y = sn
  BY DEF ConsistencyTypeOK
<1>3. /\ InBoth(O, K, f, s, x, y) /\ Root(O) = old_root /\ Root(K) = new_root
      /\ IsLeft(Proof, done, Above(K, f))
  BY <1>1, <1>2 DEF HonestAt
<1>4. node = Proof[done + 1] /\ read' = done + 1
  BY <1>1 DEF Read
<1>5. Proof' = Proof /\ old_root' = old_root /\ new_root' = new_root
  <2>1. old' = old /\ new' = new /\ m' = m /\ n' = n
    BY DEF Read, given
  <2> QED
    BY <2>1 DEF Proof, old_root, new_root
\* One level up from L and M, past the node d.
<1>6. ASSUME NEW L \in Seq(Digests), NEW M \in Seq(Digests), NEW h \in Nat, NEW t \in Nat,
             NEW d \in Digests, NEW u \in Digests, NEW v \in Digests,
             h < Len(M), Root(L) = old_root, Root(M) = new_root, IsLeft(Proof, done, Above(M, h)),
             Beside(M, h) = << d >>, BothAbove(L, M, h, t, u, v),
             fi' = h \div 2, si' = t \div 2, node = d => fn' = u /\ sn' = v
      PROVE  \E U, V \in Seq(Digests) : HonestAt(U, V)'
  <2>1. PICK U \in Seq(Digests), V \in Seq(Digests), i \in Nat :
           /\ U = next_level(L) /\ V = next_level(M) /\ i = h \div 2
           /\ InBoth(U, V, i, t \div 2, u, v)
           /\ Root(U) = Root(L) /\ Root(V) = Root(M)
    BY <1>6 DEF BothAbove
  <2>2. PICK left \in Seq(Digests) : left = Above(V, i) /\ Above(M, h) = << d >> \o left
    <3>1. Above(V, i) \in Seq(Digests) /\ Above(M, h) = Beside(M, h) \o Above(V, i)
      BY <1>6, <2>1, LevelUp
    <3> QED
      BY <1>6, <3>1
  <2>3. Proof[done + 1] = d /\ IsLeft(Proof, done + 1, left)
    <3>1. IsLeft(Proof, done, << d >> \o left)
      BY <1>6, <2>2
    <3>2. PICK proof : proof = Proof
      OBVIOUS
    <3> QED
      BY <3>1, <3>2, ReadOne
  <2>4. fn' = u /\ sn' = v
    BY <1>4, <1>6, <2>3
  <2>5. HonestAt(U, V)'
    BY <1>4, <1>5, <1>6, <2>1, <2>2, <2>3, <2>4 DEF HonestAt
  <2> QED
    BY <2>5
<1>7. Len(K) = s + 1
  BY <1>3 DEF InBoth
<1>8. CASE ~JoinsBoth
  <2>1. f % 2 # 1 /\ f # s
    BY <1>1, <1>8 DEF JoinsBoth
  <2>2. f % 2 = 0 /\ f < s
    BY <1>1, <2>1
  <2>3. PICK d \in Digests : /\ d = K[f + 2] /\ Beside(K, f) = << d >>
                             /\ BothAbove(O, K, f, s, x, node_hash(y, d))
    BY <1>3, <2>2, BothUp
  <2>4. fi' = f \div 2 /\ si' = s \div 2 /\ fn' = x /\ sn' = node_hash(y, node)
    BY <1>1, <1>2, <1>8 DEF Read
  <2>5. f < Len(K)
    BY <1>1, <1>7
  <2>6. node_hash(y, d) \in Digests
    BY NodeDigest
  <2> QED
    BY <1>3, <1>6, <2>3, <2>4, <2>5, <2>6
<1>9. CASE JoinsBoth
  <2>1. \E U \in Seq(Digests), V \in Seq(Digests), g \in Nat, t \in Nat :
           /\ g % 2 = 1 /\ InBoth(U, V, g, t, x, y)
           /\ Root(U) = Root(O) /\ Root(V) = Root(K) /\ Above(V, g) = Above(K, f)
           /\ StripEven[<<f, s>>] = <<g, t>>
    <3>1. CASE f % 2 = 1
      <4>1. StripEven[<<f, s>>] = <<f, s>>
        <5>1. ~(f % 2 = 0 /\ f # 0)
          BY <3>1
        <5> QED
          BY <5>1, StripEvenStep
      <4> QED
        BY <1>3, <3>1, <4>1
    <3>2. CASE f % 2 # 1
      <4>1. f = s /\ f # 0
        BY <1>1, <1>9, <3>2 DEF JoinsBoth
      <4>2. PICK U \in Seq(Digests), V \in Seq(Digests), g \in Nat : Skipped(O, K, f, x, y, U, V, g)
        BY <1>3, <4>1, Skip
      <4> QED
        BY <4>1, <4>2 DEF Skipped
    <3> QED
      BY <3>1, <3>2
  <2>2. PICK U \in Seq(Digests), V \in Seq(Digests), g \in Nat, t \in Nat :
           /\ g % 2 = 1 /\ InBoth(U, V, g, t, x, y)
           /\ Root(U) = Root(O) /\ Root(V) = Root(K) /\ Above(V, g) = Above(K, f)
           /\ StripEven[<<f, s>>] = <<g, t>>
    BY <2>1
  <2>3. PICK d \in Digests : /\ d = V[g] /\ Beside(V, g) = << d >>
                             /\ BothAbove(U, V, g, t, node_hash(d, x), node_hash(d, y))
    BY <2>2, BothUp
  <2>4. fi' = g \div 2 /\ si' = t \div 2 /\ fn' = node_hash(node, x) /\ sn' = node_hash(node, y)
    <3>1. StripEven[<<fi, si>>] = <<g, t>>
      BY <1>1, <2>2
    <3>2. StripEven[<<fi, si>>][1] = g /\ StripEven[<<fi, si>>][2] = t
      BY <3>1
    <3>3. /\ fi' = StripEven[<<fi, si>>][1] \div 2 /\ si' = StripEven[<<fi, si>>][2] \div 2
          /\ fn' = node_hash(node, fn) /\ sn' = node_hash(node, sn)
      BY <1>9 DEF Read
    <3> QED
      BY <1>2, <3>2, <3>3
  <2>5. g < Len(V)
    <3>1. Len(V) = t + 1 /\ g <= t
      BY <2>2 DEF InBoth
    <3> QED
      BY <3>1
  <2>6. node_hash(d, x) \in Digests /\ node_hash(d, y) \in Digests
    BY NodeDigest
  <2>7. Root(U) = old_root /\ Root(V) = new_root /\ IsLeft(Proof, done, Above(V, g))
    BY <1>3, <2>2
  <2> QED
    BY <1>6, <2>3, <2>4, <2>5, <2>6, <2>7
<1> QED
  BY <1>8, <1>9

\* With no node left, both roots have been recomputed.
LEMMA HonestEnds ==
    ASSUME ConsistencyTypeOK, NEW O \in Seq(Digests), NEW K \in Seq(Digests), HonestAt(O, K),
           read = Len(Proof)
    PROVE  ReachesBoth
<1>1. PICK f \in Nat, s \in Nat, done \in Nat : f = fi /\ s = si /\ done = read /\ f <= s
  BY DEF ConsistencyTypeOK
<1>2. InBoth(O, K, f, s, fn, sn) /\ Len(K) = s + 1 /\ Len(O) = f + 1 /\ fn = O[f + 1] /\ sn = K[f + 1]
  BY <1>1 DEF HonestAt, InBoth
<1>3. f < Len(K)
  BY <1>1, <1>2
<1>4. PICK left \in Seq(Digests) : left = Above(K, f) /\ IsLeft(Proof, done, left)
  <2>1. Above(K, f) \in Seq(Digests)
    BY <1>3, LevelUp
  <2> QED
    BY <1>1, <2>1 DEF HonestAt
<1>5. left = << >>
  <2>1. PICK len \in Nat : len = Len(left)
    OBVIOUS
  <2>2. done = done + len
    BY <1>1, <1>4, <2>1 DEF IsLeft
  <2>3. len = 0
    BY <2>2
  <2> QED
    BY <2>1, <2>3, EmptySeq
<1>6. Len(K) = 1
  BY <1>3, <1>4, <1>5, AtTop
<1>7. s = 0 /\ f = 0
  <2>1. s = 0
    <3>1. s + 1 = 1
      BY <1>2, <1>6
    <3> QED
      BY <3>1
  <2> QED
    BY <1>1, <2>1
<1>8. fn = O[1] /\ sn = K[1] /\ Len(O) <= 1 /\ Len(K) <= 1
  BY <1>2, <1>7
<1>9. Root(O) = fn /\ Root(K) = sn
  BY <1>8, RootUp
<1> QED
  BY <1>1, <1>7, <1>9 DEF ReachesBoth, HonestAt

LEMMA AcceptedInit == ConsistencyInit => HonestInv
  BY DEF ConsistencyInit, HonestInv

LEMMA AcceptedNext ==
    ASSUME ConsistencyTypeOK, HonestInv, [ConsistencyNext]_consistencyVars
    PROVE  HonestInv'
<1>1. old' = old /\ new' = new /\ m' = m /\ n' = n /\ honestProof' = honestProof
  BY DEF ConsistencyNext, Equal, Begin, Read, CompareRoots, Refuse, consistencyVars, given
<1> SUFFICES ASSUME honestProof PROVE HonestInv'
  BY <1>1 DEF HonestInv
<1>2. IsBuilt /\ IsBuilt' /\ consistency # "invalid" /\ m \in Nat /\ n \in Nat /\ m <= n
  BY <1>1 DEF HonestInv, IsBuilt, ConsistencyTypeOK
\* A verification that ends does so with what it should.
<1>3. ASSUME consistency' = "valid" PROVE HonestInv'
  BY <1>2, <1>3 DEF HonestInv
<1>4. CASE Equal
  <2>1. Trivial
    BY <1>2, <1>4, HonestTrivial DEF Equal
  <2> QED
    BY <1>3, <1>4, <2>1 DEF Equal
<1>5. ASSUME NEW node \in Digests, Begin(node) PROVE HonestInv'
  <2>1. (read' = 0 => si' # 0) /\ \E O, K \in Seq(Digests) : HonestAt(O, K)'
    BY <1>2, <1>5, HonestBegins
  <2>2. consistency' = "path"
    BY <1>5 DEF Begin
  <2> QED
    BY <1>2, <2>1, <2>2 DEF HonestInv
<1>6. ASSUME NEW node \in Digests, Read(node) PROVE HonestInv'
  <2>1. consistency = "path" /\ consistency' = "path" /\ read' = read + 1 /\ read \in Nat
    BY <1>6 DEF Read, ConsistencyTypeOK
  <2>2. PICK O \in Seq(Digests), K \in Seq(Digests) : HonestAt(O, K)
    BY <2>1 DEF HonestInv
  <2>3. \E U, V \in Seq(Digests) : HonestAt(U, V)'
    BY <1>6, <2>2, HonestReads
  <2>4. read' # 0
    BY <2>1
  <2> QED
    BY <1>2, <2>1, <2>3, <2>4 DEF HonestInv
<1>7. CASE CompareRoots
  <2>1. consistency = "path" /\ read = Len(Proof) /\ read \in Nat
    BY <1>7 DEF CompareRoots, ConsistencyTypeOK
  <2>2. PICK O \in Seq(Digests), K \in Seq(Digests) : HonestAt(O, K)
    BY <2>1 DEF HonestInv
  <2>3. ReachesBoth
    BY <2>1, <2>2, HonestEnds
  <2>4. read # 0
    BY <2>1, <2>3 DEF HonestInv, ReachesBoth
  <2>5. read > 0
    BY <2>1, <2>4
  <2>6. consistency' = "valid"
    BY <1>7, <2>3, <2>5 DEF CompareRoots
  <2> QED
    BY <1>3, <2>6
<1>8. CASE Refuse
  <2>1. SizesMatch
    BY <1>2 DEF IsBuilt, SizesMatch
  <2>2. ~(m > n)
    BY <1>2
  <2> QED
    BY <1>8, <2>1, <2>2 DEF Refuse
<1>9. CASE UNCHANGED consistencyVars
  <2>1. /\ consistency' = consistency /\ read' = read /\ fn' = fn /\ sn' = sn
        /\ fi' = fi /\ si' = si
    BY <1>9 DEF consistencyVars
  <2>2. Proof' = Proof /\ old_root' = old_root /\ new_root' = new_root
    BY <1>1 DEF Proof, old_root, new_root
  <2>3. ASSUME NEW O \in Seq(Digests), NEW K \in Seq(Digests), HonestAt(O, K) PROVE HonestAt(O, K)'
    BY <2>1, <2>2, <2>3 DEF HonestAt
  <2> QED
    BY <1>2, <2>1, <2>3 DEF HonestInv
<1> QED
  BY <1>4, <1>5, <1>6, <1>7, <1>8, <1>9 DEF ConsistencyNext

\* A consistency proof that build_consistency_proof_artifact made is accepted, whatever
\* the exports and their sizes: _subproof, which halves the tree and works its way down,
\* and verify_consistency_proof_artifact, which goes up bit by bit, agree on every proof.
THEOREM ConsistencyCompleteAlways == ConsistencySpec => []ConsistencyComplete
<1>1. ConsistencyInit => ConsistencyTypeOK /\ HonestInv
  BY ConsistencyTypeInit, AcceptedInit
<1>2. ConsistencyTypeOK /\ HonestInv /\ [ConsistencyNext]_consistencyVars
      => ConsistencyTypeOK' /\ HonestInv'
  BY ConsistencyTypeNext, AcceptedNext
<1>3. HonestInv => ConsistencyComplete
  BY DEF HonestInv, ConsistencyComplete
<1> QED
  BY <1>1, <1>2, <1>3, PTL DEF ConsistencySpec

-----------------------------------------------------------------------------
(* Commitments *)

LEMMA VerifyClass == \A record \in Line : verify_signed_record(record) \in Classes
<1> SUFFICES ASSUME NEW record \in Line
             PROVE  verify_signed_record(record) \in Classes
  OBVIOUS
<1>1. /\ record.fields \in {"all", "missing", "mistyped"}
      /\ record.key \in {"ed25519", "other", "malformed"}
      /\ record.sig \in {"none", "misencoded", "forged", "good"}
  BY DEF Line
<1> QED
  BY <1>1 DEF verify_signed_record, Classes

\* Both readers make the same of a line that is read alike, and neither makes a record
\* of a blank one.
LEMMA SameClass ==
    ASSUME NEW l \in Line, ReadAlike(l)
    PROVE  \/ OfBytes(l) \notin Classes /\ OfText(l) = << >>
           \/ OfBytes(l) \in Classes /\ OfText(l) = << OfBytes(l) >>
<1>1. l.form \in {"json", "blank", "notJson", "notUtf8"}
  BY DEF Line, ReadAlike
<1>2. verify_signed_record(l) \in Classes /\ "MALFORMED" \in Classes /\ "none" \notin Classes
  BY VerifyClass DEF Classes
<1>3. CASE l.form = "json"
  BY <1>2, <1>3 DEF OfBytes, OfText
<1>4. CASE l.form = "blank"
  <2>1. OfBytes(l) = "none"
    BY <1>4 DEF OfBytes
  <2>2. OfText(l) = << >>
    BY <1>4 DEF OfText
  <2> QED
    BY <1>2, <2>1, <2>2
<1>5. CASE l.form = "notJson" \/ l.form = "notUtf8"
  BY <1>2, <1>5 DEF OfBytes, OfText
<1> QED
  BY <1>1, <1>3, <1>4, <1>5

\* The places of the text of some lines that are of class c.
Found(lines, c) == {at \in (DOMAIN lines) \X {1, 2} :
                       /\ at[2] \in DOMAIN OfText(lines[at[1]])
                       /\ OfText(lines[at[1]])[at[2]] = c}

LEMMA FoundFinite ==
    ASSUME NEW lines \in Seq(CapturedLines), NEW c
    PROVE  IsFiniteSet(Found(lines, c)) /\ Cardinality(Found(lines, c)) \in Nat
<1>1. PICK len \in Nat : len = Len(lines) /\ DOMAIN lines = 1..len
  OBVIOUS
<1>2. IsFiniteSet(1..len)
  BY FS_Interval
<1>3. IsFiniteSet({1, 2})
  <2>1. PICK two \in Nat : two = 2
    OBVIOUS
  <2>2. IsFiniteSet(1..two)
    BY FS_Interval
  <2>3. {1, 2} = 1..two
    BY <2>1
  <2> QED
    BY <2>2, <2>3
<1>4. IsFiniteSet((1..len) \X {1, 2})
  BY <1>2, <1>3, FS_Product
<1>5. Found(lines, c) \subseteq (1..len) \X {1, 2}
  BY <1>1 DEF Found
<1>6. IsFiniteSet(Found(lines, c))
  BY <1>4, <1>5, FS_Subset
<1> QED
  BY <1>6, FS_CardinalityType

LEMMA CountsType ==
    ASSUME NEW lines \in Seq(CapturedLines)
    PROVE  /\ verify_export(lines) \in [Classes -> Nat]
           /\ \A c \in Classes : verify_export(lines)[c] = Cardinality(Found(lines, c))
<1>1. verify_export(lines) = [c \in Classes |-> Cardinality(Found(lines, c))]
  BY DEF verify_export, Found
<1>2. \A c \in Classes : Cardinality(Found(lines, c)) \in Nat
  BY FoundFinite
<1> QED
  BY <1>1, <1>2

\* On lines that are all read alike, the readers count the same.
LEMMA SameCounts ==
    ASSUME NEW lines \in Seq(CapturedLines), \A i \in DOMAIN lines : ReadAlike(lines[i])
    PROVE  verify_export(lines) = classify_export_lines(lines)
<1>1. PICK len \in Nat : len = Len(lines) /\ DOMAIN lines = 1..len
  OBVIOUS
<1>2. \A i \in 1..len : lines[i] \in Line /\ ReadAlike(lines[i])
  BY <1>1, CommitmentAssumption
<1> DEFINE Classed(c) == {i \in 1..len : OfBytes(lines[i]) = c}
<1>3. ASSUME NEW c \in Classes
      PROVE  Cardinality(Found(lines, c)) = Cardinality(Classed(c))
  <2>1. Found(lines, c) = {<<i, 1>> : i \in Classed(c)}
    <3>1. ASSUME NEW i \in 1..len, NEW k \in {1, 2}
          PROVE  k \in DOMAIN OfText(lines[i]) /\ OfText(lines[i])[k] = c
                    <=> k = 1 /\ OfBytes(lines[i]) = c
      <4>1. PICK x : x = OfBytes(lines[i])
        OBVIOUS
      <4>2. \/ x \notin Classes /\ OfText(lines[i]) = << >>
            \/ x \in Classes /\ OfText(lines[i]) = << x >>
        BY <1>2, <4>1, SameClass
      <4>3. DOMAIN << >> = {} /\ DOMAIN << x >> = {1} /\ << x >>[1] = x
        OBVIOUS
      <4> QED
        BY <4>1, <4>2, <4>3
    <3>2. ASSUME NEW at \in Found(lines, c) PROVE at \in {<<i, 1>> : i \in Classed(c)}
      <4>1. PICK i \in 1..len, k \in {1, 2} : at = <<i, k>> /\ at[1] = i /\ at[2] = k
        BY <1>1 DEF Found
      <4>2. k \in DOMAIN OfText(lines[i]) /\ OfText(lines[i])[k] = c
        BY <4>1 DEF Found
      <4>3. k = 1 /\ i \in Classed(c)
        BY <3>1, <4>2
      <4> QED
        BY <4>1, <4>3
    <3>3. ASSUME NEW i \in Classed(c) PROVE <<i, 1>> \in Found(lines, c)
      <4>1. 1 \in DOMAIN OfText(lines[i]) /\ OfText(lines[i])[1] = c
        BY <3>1
      <4>2. PICK at \in (1..len) \X {1, 2} : at[1] = i /\ at[2] = 1 /\ at = <<i, 1>>
        OBVIOUS
      <4> QED
        BY <1>1, <4>1, <4>2 DEF Found
    <3> QED
      BY <3>2, <3>3
  <2>2. IsFiniteSet(Classed(c))
    <3>1. Classed(c) \subseteq 1..len
      OBVIOUS
    <3>2. IsFiniteSet(1..len)
      BY FS_Interval
    <3> QED
      BY <3>1, <3>2, FS_Subset
  <2>3. PICK f : f = [i \in Classed(c) |-> <<i, 1>>]
    OBVIOUS
  <2>4. f \in Bijection(Classed(c), Found(lines, c))
    BY <2>1, <2>3 DEF Bijection, Injection, Surjection, IsInjective
  <2>5. ExistsBijection(Classed(c), Found(lines, c))
    BY <2>4 DEF ExistsBijection
  <2> QED
    BY <2>2, <2>5, FS_Bijection
<1>4. classify_export_lines(lines) = [c \in Classes |-> Cardinality(Classed(c))]
  <2>1. PICK classes : classes = [i \in 1..len |-> OfBytes(lines[i])]
    OBVIOUS
  <2>2. classify_export_lines(lines) = CountOf(classes)
    BY <1>1, <2>1 DEF classify_export_lines
  <2>3. \A c \in Classes : {i \in DOMAIN classes : classes[i] = c} = Classed(c)
    BY <2>1
  <2>4. CountOf(classes) = [c \in Classes |-> Cardinality({i \in DOMAIN classes : classes[i] = c})]
    BY DEF CountOf
  <2> HIDE DEF Classed
  <2> QED
    BY <2>2, <2>3, <2>4
<1>5. verify_export(lines) = [c \in Classes |-> Cardinality(Found(lines, c))]
  BY DEF verify_export, Found
<1> HIDE DEF Classed
<1> QED
  BY <1>3, <1>4, <1>5

\* If no record of a class is counted, no line read alike is of that class.
LEMMA NoneOfClass ==
    ASSUME NEW lines \in Seq(CapturedLines), NEW c \in Classes, verify_export(lines)[c] = 0,
           NEW i \in DOMAIN lines, ReadAlike(lines[i])
    PROVE  OfBytes(lines[i]) # c
<1> SUFFICES ASSUME OfBytes(lines[i]) = c PROVE FALSE
  OBVIOUS
<1>1. Found(lines, c) = {}
  <2>1. Cardinality(Found(lines, c)) = 0
    BY CountsType
  <2> QED
    BY <2>1, FoundFinite, FS_EmptySet
<1>2. lines[i] \in Line
  BY CommitmentAssumption
<1>3. OfText(lines[i]) = << c >>
  BY <1>2, SameClass
<1>4. 1 \in DOMAIN OfText(lines[i]) /\ OfText(lines[i])[1] = c
  BY <1>3
<1>5. PICK at \in (DOMAIN lines) \X {1, 2} : at[1] = i /\ at[2] = 1
  <2>1. <<i, 1>> \in (DOMAIN lines) \X {1, 2}
    OBVIOUS
  <2> QED
    BY <2>1
<1>6. at \in Found(lines, c)
  BY <1>4, <1>5 DEF Found
<1> QED
  BY <1>1, <1>6

\* What some lines become while the export is captured: those that have ended stay.
Grown(xs, ys) == /\ Len(xs) <= Len(ys)
                 /\ \A i \in 1..Len(xs) : xs[i].ended => ys[i] = xs[i]

\* What was counted: what the lines read before have become, and they are the same
\* unless the export grew in between.
Counted(lines) == /\ Grown(raw, lines) /\ (~overtaken => lines = raw)
                  /\ counts = verify_export(lines)

\* An artifact says of its lines what one of the readers found, and if it was not
\* overtaken also what the other found.
Stated(a) == /\ a.line_count = Len(a.export_root)
             /\ a.anomaly_indices = anomaly_indices(a.export_root)
             /\ ~mixed => a.verification = verify_export(a.export_root)

CommitInv ==
    /\ CommitTypeOK
    /\ IsComplete(artifact) => Stated(artifact)
    /\ pc = "read" => Grown(raw, captured)
    /\ pc \in {"counted", "truncated"} => \E lines \in Seq(CapturedLines) : Counted(lines)
    /\ pc # "idle" => exit = "none"
    /\ exit \in {"valid", "anomalies"} =>
          /\ artifact = build_commitment_artifact
          /\ exit = "valid" => is_valid
          /\ mixed = overtaken
          /\ \E lines \in Seq(CapturedLines) : Counted(lines)

LEMMA CommitInitInv == CommitInit => CommitInv
<1> SUFFICES ASSUME CommitInit
             PROVE  CommitInv
  OBVIOUS
<1>1. << >> \in Seq(CapturedLines) /\ ~IsComplete(artifact)
  BY DEF CommitInit, NoFile, IsComplete
<1>2. counts \in [Classes -> Nat]
  BY DEF CommitInit, NoCounts
<1> QED
  BY <1>1, <1>2 DEF CommitInit, CommitInv, CommitTypeOK

\* The capture leaves the lines that have ended as they are.
LEMMA CapturedGrows ==
    ASSUME CommitTypeOK, NEW l \in CapturedLines, Capture(l)
    PROVE  captured' \in Seq(CapturedLines) /\ (Grown(raw, captured) => Grown(raw, captured'))
<1>1. captured \in Seq(CapturedLines) /\ raw \in Seq(CapturedLines)
  BY DEF CommitTypeOK
<1>2. PICK a \in Nat, b \in Nat : a = Len(raw) /\ b = Len(captured)
  BY <1>1
<1>3. CASE captured = << >> \/ captured[Len(captured)].ended
  <2>1. captured' = Append(captured, l)
    BY <1>3 DEF Capture
  <2>2. /\ Append(captured, l) \in Seq(CapturedLines)
        /\ Len(Append(captured, l)) = b + 1
        /\ \A i \in 1..b : Append(captured, l)[i] = captured[i]
    BY <1>1, <1>2, AppendProperties
  <2> QED
    BY <1>2, <2>1, <2>2 DEF Grown
<1>4. CASE ~(captured = << >> \/ captured[Len(captured)].ended)
  <2>1. captured' = [captured EXCEPT ![b] = l] /\ captured # << >> /\ ~captured[b].ended
    BY <1>2, <1>4 DEF Capture
  <2>2. [captured EXCEPT ![b] = l] \in Seq(CapturedLines)
        /\ Len([captured EXCEPT ![b] = l]) = b
    BY <1>1, <1>2, <2>1
  <2>3. ASSUME Grown(raw, captured), NEW i \in 1..a, raw[i].ended
        PROVE  [captured EXCEPT ![b] = l][i] = raw[i]
    <3>1. a <= b /\ captured[i] = raw[i]
      BY <1>2, <2>3 DEF Grown
    <3>2. i # b
      BY <2>1, <2>3, <3>1
    <3>3. i \in 1..b /\ DOMAIN captured = 1..b
      BY <1>1, <1>2, <3>1
    <3> QED
      BY <3>1, <3>2, <3>3
  <2>4. Grown(raw, captured) => a <= b
    BY <1>2 DEF Grown
  <2> QED
    BY <1>2, <2>1, <2>2, <2>3, <2>4 DEF Grown
<1> QED
  BY <1>3, <1>4

LEMMA CommitTypeNext ==
    ASSUME CommitTypeOK, [CommitNext]_commitVars
    PROVE  CommitTypeOK'
<1>1. ASSUME NEW l \in CapturedLines, Capture(l)
      PROVE  CommitTypeOK'
  <2>1. captured' \in Seq(CapturedLines)
    BY <1>1, CapturedGrows
  <2> QED
    BY <1>1, <2>1 DEF Capture, CommitTypeOK
<1>2. CASE ReadRaw
  BY <1>2 DEF ReadRaw, CommitTypeOK
<1>3. CASE Count
  <2>1. verify_export(captured) \in [Classes -> Nat]
    BY CountsType DEF CommitTypeOK
  <2>2. counts' \in [Classes -> Nat]
    BY <1>3, <2>1 DEF Count, CommitTypeOK
  <2> QED
    BY <1>3, <2>2 DEF Count, CommitTypeOK
<1>4. CASE Open
  BY <1>4 DEF Open, CommitTypeOK, Partial, IsComplete
<1>5. CASE Write
  <2>1. artifact'.export_root = raw
    BY <1>5 DEF Write, build_commitment_artifact
  <2> QED
    BY <1>5, <2>1 DEF Write, CommitTypeOK
<1>6. CASE Crash
  BY <1>6 DEF Crash, CommitTypeOK
<1>7. CASE UNCHANGED commitVars
  BY <1>7 DEF commitVars, CommitTypeOK
<1> QED
  BY <1>1, <1>2, <1>3, <1>4, <1>5, <1>6, <1>7 DEF CommitNext

LEMMA CommitNextInv == CommitInv /\ [CommitNext]_commitVars => CommitInv'
<1> SUFFICES ASSUME CommitInv, [CommitNext]_commitVars
             PROVE  CommitInv'
  OBVIOUS
<1>1. CommitTypeOK /\ CommitTypeOK'
  BY CommitTypeNext DEF CommitInv
<1>2. ASSUME UNCHANGED <<raw, counts, overtaken>>, NEW lines, Counted(lines)
      PROVE  Counted(lines)'
  BY <1>2 DEF Counted
<1>3. UNCHANGED <<artifact, raw, counts>> => build_commitment_artifact' = build_commitment_artifact
                                             /\ is_valid' = is_valid
  BY DEF build_commitment_artifact, is_valid
<1>11. UNCHANGED <<artifact, mixed>> => (IsComplete(artifact) => Stated(artifact))'
  <2> SUFFICES ASSUME UNCHANGED <<artifact, mixed>>, IsComplete(artifact)
               PROVE  Stated(artifact)'
    BY DEF IsComplete
  <2>1. Stated(artifact)
    BY DEF CommitInv
  <2> QED
    BY <2>1 DEF Stated
<1>4. ASSUME NEW l \in CapturedLines, Capture(l)
      PROVE  CommitInv'
  <2>1. UNCHANGED <<artifact, pc, raw, counts, exit, overtaken, mixed>>
    BY <1>4 DEF Capture
  <2>2. Grown(raw, captured) => Grown(raw, captured')
    BY <1>1, <1>4, CapturedGrows
  <2>3. pc' = "read" => Grown(raw', captured')
    BY <2>1, <2>2 DEF CommitInv
  <2>4. build_commitment_artifact' = build_commitment_artifact /\ is_valid' = is_valid
    BY <2>1, <1>3
  <2>5. (IsComplete(artifact) => Stated(artifact))'
    BY <1>11, <2>1
  <2> QED
    BY <1>1, <1>2, <2>1, <2>3, <2>4, <2>5 DEF CommitInv
<1>5. CASE ReadRaw
  <2>1. pc' = "read" /\ raw' = captured /\ captured' = captured /\ exit' = "none"
        /\ UNCHANGED <<artifact, mixed>>
    BY <1>5 DEF ReadRaw
  <2>2. Grown(raw', captured')
    BY <1>1, <2>1 DEF Grown, CommitTypeOK
  <2> QED
    BY <1>1, <1>11, <2>1, <2>2 DEF CommitInv
<1>6. CASE Count
  <2>1. pc = "read" /\ exit = "none" /\ Grown(raw, captured) /\ raw' = raw
        /\ captured \in Seq(CapturedLines) /\ UNCHANGED <<artifact, mixed>>
    BY <1>1, <1>6 DEF Count, CommitInv, CommitTypeOK
  <2>2. CASE IsText(captured) /\ counts' = verify_export(captured) /\ pc' = "counted" /\ UNCHANGED exit
    <3>1. PICK lines \in Seq(CapturedLines) : lines = captured
      BY <2>1
    <3>2. counts' = verify_export(lines)
      BY <2>2, <3>1
    <3>3. Grown(raw', lines) /\ (~overtaken' => lines = raw')
      BY <1>6, <2>1, <3>1 DEF Count
    <3>4. Counted(lines)'
      BY <3>2, <3>3 DEF Counted
    <3> QED
      BY <1>1, <1>11, <2>1, <2>2, <3>4 DEF CommitInv
  <2>3. CASE exit' = "failed" /\ pc' = "idle"
    BY <1>1, <1>11, <2>1, <2>3 DEF CommitInv
  <2> QED
    BY <1>6, <2>2, <2>3 DEF Count
<1>7. CASE Open
  <2>1. pc = "counted" /\ pc' = "truncated" /\ UNCHANGED <<raw, counts, exit, overtaken>> /\ exit = "none"
    BY <1>7 DEF Open, CommitInv
  <2>2. ~IsComplete(artifact')
    BY <1>7 DEF Open, Partial, IsComplete
  <2> QED
    BY <1>1, <1>2, <2>1, <2>2 DEF CommitInv, IsComplete
<1>8. CASE Write
  <2>1. /\ pc = "truncated" /\ pc' = "idle" /\ UNCHANGED <<raw, counts, overtaken>>
        /\ artifact' = build_commitment_artifact
        /\ exit' = IF is_valid THEN "valid" ELSE "anomalies"
        /\ mixed' = overtaken
    BY <1>8 DEF Write
  <2>2. PICK lines \in Seq(CapturedLines) : Counted(lines)
    BY <2>1 DEF CommitInv
  <2>3. Counted(lines)'
    BY <1>2, <2>1, <2>2
  <2>4. build_commitment_artifact' = build_commitment_artifact /\ is_valid' = is_valid
    BY <2>1 DEF build_commitment_artifact, is_valid
  <2>5. Stated(artifact)'
    <3>1. ~mixed' => counts = verify_export(raw)
      BY <2>1, <2>2 DEF Counted
    <3>2. PICK a : a = build_commitment_artifact
      OBVIOUS
    <3>3. /\ a.line_count = Len(raw) /\ a.export_root = raw /\ a.verification = counts
          /\ a.anomaly_indices = anomaly_indices(raw)
      BY <3>2 DEF build_commitment_artifact
    <3>4. artifact' = a
      BY <2>1, <3>2
    <3> QED
      BY <3>1, <3>3, <3>4 DEF Stated
  <2> QED
    BY <1>1, <2>1, <2>3, <2>4, <2>5 DEF CommitInv
<1>9. CASE Crash
  <2>1. pc' = "idle" /\ exit' = "none" /\ UNCHANGED <<artifact, mixed>>
    BY <1>9 DEF Crash
  <2> QED
    BY <1>1, <1>11, <2>1 DEF CommitInv
<1>10. CASE UNCHANGED commitVars
  <2>1. UNCHANGED <<captured, artifact, pc, raw, counts, exit, overtaken, mixed>>
    BY <1>10 DEF commitVars
  <2>2. build_commitment_artifact' = build_commitment_artifact /\ is_valid' = is_valid
    BY <2>1, <1>3
  <2>3. Grown(raw, captured)' <=> Grown(raw, captured)
    BY <2>1
  <2> QED
    BY <1>1, <1>2, <1>11, <2>1, <2>2, <2>3 DEF CommitInv
<1> QED
  BY <1>4, <1>5, <1>6, <1>7, <1>8, <1>9, <1>10 DEF CommitNext

LEMMA CommitInvHolds == CommitInv => CommitHolds
<1> SUFFICES ASSUME CommitInv
             PROVE  CommitHolds
  OBVIOUS
<1>1. raw \in Seq(CapturedLines)
  BY DEF CommitInv, CommitTypeOK
<1>2. Reproducible
  <2>1. ASSUME IsComplete(artifact), ~mixed,
               \A i \in DOMAIN artifact.export_root : ReadAlike(artifact.export_root[i])
        PROVE  verify_commitment_artifact(artifact.export_root, artifact)
    <3>1. Stated(artifact) /\ artifact.export_root \in Seq(CapturedLines)
      BY <2>1 DEF CommitInv, CommitTypeOK
    <3>2. PICK lines \in Seq(CapturedLines) : lines = artifact.export_root
      BY <3>1
    <3>3. verify_export(lines) = classify_export_lines(lines)
      BY <2>1, <3>2, SameCounts
    <3>4. artifact.verification = verify_export(lines)
      BY <2>1, <3>1, <3>2 DEF Stated
    <3> QED
      BY <2>1, <3>1, <3>2, <3>3, <3>4 DEF Stated, verify_commitment_artifact
  <2>2. ASSUME exit \in {"valid", "anomalies"}
        PROVE  IsComplete(artifact) /\ artifact.export_root = raw
    <3>1. PICK a : a = build_commitment_artifact
      OBVIOUS
    <3>2. a.file = "complete" /\ a.export_root = raw
      BY <3>1 DEF build_commitment_artifact
    <3>3. artifact = a
      BY <2>2, <3>1 DEF CommitInv
    <3> QED
      BY <3>2, <3>3 DEF IsComplete
  <2> QED
    BY <2>1, <2>2 DEF Reproducible
<1>3. ZeroMeansValid
  <2> SUFFICES ASSUME exit = "valid", NEW i \in DOMAIN artifact.export_root,
                      ReadAlike(artifact.export_root[i]),
                      artifact.export_root[i].ended \/ ~mixed
               PROVE  OfBytes(artifact.export_root[i]) \notin {"INVALID", "MALFORMED"}
    BY DEF ZeroMeansValid
  <2>1. artifact = build_commitment_artifact /\ is_valid /\ mixed = overtaken
    BY DEF CommitInv
  <2>2. PICK lines \in Seq(CapturedLines) : Counted(lines)
    BY DEF CommitInv
  <2>3. artifact.export_root = raw
    BY <2>1 DEF build_commitment_artifact
  <2>4. i \in DOMAIN lines /\ lines[i] = raw[i]
    <3>1. PICK a \in Nat, b \in Nat : a = Len(raw) /\ b = Len(lines) /\ a <= b
      BY <1>1, <2>2 DEF Counted, Grown
    <3>2. i \in 1..a
      BY <1>1, <2>3, <3>1
    <3>3. i \in 1..b
      BY <3>1, <3>2
    <3>4. CASE raw[i].ended
      BY <2>2, <3>1, <3>2, <3>3, <3>4 DEF Counted, Grown
    <3>5. CASE ~mixed
      BY <2>1, <2>2, <3>1, <3>3, <3>5 DEF Counted
    <3> QED
      BY <2>3, <3>4, <3>5
  <2>5. verify_export(lines)["INVALID"] = 0 /\ verify_export(lines)["MALFORMED"] = 0
    BY <2>1, <2>2 DEF is_valid, Counted
  <2>6. "INVALID" \in Classes /\ "MALFORMED" \in Classes
    BY DEF Classes
  <2>7. ReadAlike(lines[i])
    BY <2>3, <2>4
  <2>8. OfBytes(lines[i]) # "INVALID" /\ OfBytes(lines[i]) # "MALFORMED"
    BY <2>4, <2>5, <2>6, <2>7, NoneOfClass
  <2> QED
    BY <2>3, <2>4, <2>8
<1> QED
  BY <1>2, <1>3 DEF CommitHolds

\* The types of a commit's state.
THEOREM CommitTypeCorrect == CommitSpec => []CommitTypeOK
<1>1. CommitInv => CommitTypeOK
  BY DEF CommitInv
<1> QED
  BY CommitInitInv, CommitNextInv, <1>1, PTL DEF CommitSpec

\* The commit command of ledger.py: for exports of any lines and length, captured at any
\* moment of it and stopped anywhere, an artifact that was written says what
\* verify_commitment_artifact finds, and a commit that exits with 0 covers no line that is
\* found invalid, but a last one that was captured in part.
THEOREM CommitHoldsAlways == CommitSpec => []CommitHolds
  BY CommitInitInv, CommitNextInv, CommitInvHolds, PTL DEF CommitSpec

-----------------------------------------------------------------------------
(* The commands together *)

\* The types of the state of all commands.
THEOREM LedgerTypesCorrect == CommandsSpec => []TypesOK
  BY InclusionTypeCorrect, ConsistencyTypeCorrect, CommitTypeCorrect, PTL DEF CommandsSpec, TypesOK

\* What build_inclusion_proof_artifact and build_consistency_proof_artifact make is accepted
\* by the commands that verify it, whatever the exports, the index and the sizes.
THEOREM HonestAcceptedAlways == CommandsSpec => []HonestAccepted
  BY InclusionCompleteAlways, ConsistencyCompleteAlways, PTL DEF CommandsSpec, HonestAccepted
=============================================================================
