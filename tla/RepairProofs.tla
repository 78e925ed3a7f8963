----------------------------- MODULE RepairProofs -----------------------------
(***************************************************************************)
(* Repairs one after the other write back the blocks that were there and   *)
(* leave nothing behind, for every code, placement and order in which the  *)
(* proxies' threads run; any number of repairs reads from as few clusters  *)
(* as possible.                                                            *)
(***************************************************************************)
EXTENDS Repair, LrcStripeProofs, FiniteSetTheorems, FunctionTheorems,
        SequenceTheorems, TLAPS

\* Whatever the walk over the clusters picks determines the failed block, and
\* the failed block itself is not read unless it has a copy
\* (generate_repair_plan_CACHED and the combination in main_repair).
THEOREM PlansDetermine ==
  ASSUME NEW w, NEW f \in Blocks, NEW reads \in Plans(w, f)
  PROVE  /\ Determines(reads, f)
         /\ IsCached(f) => reads = {f}
         /\ ~IsCached(f) => f \notin reads
<1>1. CASE f < K
  <2>1. reads = GroupReads(f) /\ ~IsCached(f)
    BY <1>1, StripeAssumption DEF Plans, IsCached, Blocks, NumBlocks
  <2> QED
    BY <1>1, <2>1 DEF GroupReads, Determines
<1>2. CASE ~(f < K) /\ IsCached(f)
  <2>1. reads = {f}
    BY <1>2 DEF Plans
  <2> QED
    BY <1>2, <2>1 DEF Determines
<1>3. CASE ~(f < K) /\ ~IsCached(f)
  <2>1. reads \in GlobalReads(w, f)
    BY <1>3 DEF Plans
  <2>2. reads \subseteq LiveBlocks(f) /\ Cardinality(reads) = K
    BY <2>1 DEF GlobalReads
  <2>3. LiveBlocks(f) \subseteq (DataBlocks \cup GlobalBlocks) \ {f}
    BY StripeAssumption
       DEF LiveBlocks, IsCached, DataBlocks, GlobalBlocks, Blocks, NumBlocks
  <2> QED
    BY <1>3, <2>2, <2>3 DEF Determines
<1> QED
  BY <1>1, <1>2, <1>3

-----------------------------------------------------------------------------
\* Counting by functions into a set.

LEMMA SmallerMapsInto ==
  ASSUME NEW S, NEW T, IsFiniteSet(S), IsFiniteSet(T),
         Cardinality(S) <= Cardinality(T)
  PROVE  \E g \in [S -> T] : \A x, y \in S : g[x] = g[y] => x = y
<1> DEFINE m == Cardinality(S)
           n == Cardinality(T)
<1>1. m \in Nat /\ n \in Nat /\ m <= n
  BY FS_CardinalityType
<1>2. PICK s \in Bijection(1 .. m, S) : TRUE
  BY FS_CardinalityType DEF ExistsBijection
<1>3. PICK t \in Bijection(1 .. n, T) : TRUE
  BY FS_CardinalityType DEF ExistsBijection
<1> HIDE DEF m, n
<1>4. /\ \A x \in S : \E i \in 1 .. m : s[i] = x
      /\ t \in [1 .. n -> T]
      /\ \A i, j \in 1 .. n : t[i] = t[j] => i = j
  <2>1. \A x \in S : \E i \in 1 .. m : s[i] = x
    BY DEF Bijection, Surjection
  <2>2. t \in [1 .. n -> T] /\ \A i, j \in 1 .. n : t[i] = t[j] => i = j
    BY Fun_BijectionProperties
  <2> QED
    BY <2>1, <2>2
<1> DEFINE number == [x \in S |-> CHOOSE i \in 1 .. m : s[i] = x]
           g      == [x \in S |-> t[number[x]]]
<1>5. \A x \in S : number[x] \in 1 .. n /\ s[number[x]] = x
  <2> SUFFICES ASSUME NEW x \in S
               PROVE  number[x] \in 1 .. n /\ s[number[x]] = x
    OBVIOUS
  <2>1. number[x] \in 1 .. m /\ s[number[x]] = x
    BY <1>4
  <2> QED
    BY <1>1, <2>1
<1> HIDE DEF number
<1>6. g \in [S -> T]
  BY <1>4, <1>5
<1>7. ASSUME NEW x \in S, NEW y \in S, g[x] = g[y]
      PROVE  x = y
  <2>1. number[x] = number[y]
    BY <1>4, <1>5, <1>7
  <2> QED
    BY <1>5, <2>1
<1> QED
  BY <1>6, <1>7

LEMMA MapsIntoSmaller ==
  ASSUME NEW S, NEW T, IsFiniteSet(T), NEW g \in [S -> T],
         \A x, y \in S : g[x] = g[y] => x = y
  PROVE  IsFiniteSet(S) /\ Cardinality(S) <= Cardinality(T)
<1>1. g \in Injection(S, T)
  BY Fun_IsInj
<1> QED
  BY <1>1, FS_Injection

-----------------------------------------------------------------------------
\* The walk over the clusters.

LEMMA LiveBlocksAreFinite ==
  ASSUME NEW f \in Blocks
  PROVE  LiveBlocks(f) \subseteq Blocks /\ IsFiniteSet(LiveBlocks(f))
<1>1. LiveBlocks(f) \subseteq Blocks
  BY DEF LiveBlocks
<1> QED
  BY <1>1, StripeSizes, FS_Subset

LEMMA SpanIsFinite ==
  ASSUME NEW C, IsFiniteSet(C), NEW w \in [Blocks -> C], NEW f \in Blocks,
         NEW S \in SUBSET Blocks
  PROVE  /\ IsFiniteSet(Span(w, f, S))
         /\ Cardinality(Span(w, f, S)) \in Nat
         /\ w[f] \in Span(w, f, S)
<1>1. Span(w, f, S) \subseteq C /\ w[f] \in Span(w, f, S)
  BY DEF Span
<1> QED
  BY <1>1, FS_Subset, FS_CardinalityType

\* If other blocks did with fewer clusters, the walk was in clusters that they
\* do without, and each of these has as many live blocks as any cluster the
\* walk was not in; so what the walk read outnumbers them all.
LEMMA WalkNeedsFewest ==
  ASSUME NEW C, IsFiniteSet(C), NEW w \in [Blocks -> C], NEW f \in Blocks,
         NEW reads \in GlobalReads(w, f),
         NEW other \in SUBSET LiveBlocks(f), Cardinality(other) = K
  PROVE  Cardinality(Span(w, f, reads)) <= Cardinality(Span(w, f, other))
<1> SUFFICES ASSUME Cardinality(Span(w, f, other)) < Cardinality(Span(w, f, reads))
             PROVE  FALSE
  <2>1. reads \subseteq Blocks /\ other \subseteq Blocks
    BY LiveBlocksAreFinite DEF GlobalReads
  <2> QED
    BY <2>1, SpanIsFinite
<1> DEFINE L       == LiveBlocks(f)
           D       == Span(w, f, reads)
           E       == Span(w, f, other)
           In(c)   == LiveIn(w, f, c)
           inOther == {i \in L : w[i] \in E}
<1>1. /\ L \subseteq Blocks /\ IsFiniteSet(L)
      /\ reads \subseteq L /\ IsFiniteSet(reads) /\ Cardinality(reads) = K
      /\ other \subseteq inOther /\ IsFiniteSet(inOther)
  <2>1. L \subseteq Blocks /\ IsFiniteSet(L)
    BY LiveBlocksAreFinite
  <2>2. reads \subseteq L /\ Cardinality(reads) = K
    BY DEF GlobalReads
  <2>3. other \subseteq inOther /\ inOther \subseteq L
    BY DEF Span
  <2> QED
    BY <2>1, <2>2, <2>3, FS_Subset
<1>2. /\ IsFiniteSet(D) /\ IsFiniteSet(E)
      /\ Cardinality(D) \in Nat /\ Cardinality(E) \in Nat
      /\ w[f] \in D /\ w[f] \in E
      /\ \A i \in reads : w[i] \in D
      /\ \A d \in D : d = w[f] \/ \E i \in reads : w[i] = d
  <2>1. reads \in SUBSET Blocks /\ other \in SUBSET Blocks
    BY <1>1
  <2>2. /\ IsFiniteSet(D) /\ Cardinality(D) \in Nat /\ w[f] \in D
    BY <2>1, SpanIsFinite
  <2>3. /\ IsFiniteSet(E) /\ Cardinality(E) \in Nat /\ w[f] \in E
    BY <2>1, SpanIsFinite
  <2>4. /\ \A i \in reads : w[i] \in D
        /\ \A d \in D : d = w[f] \/ \E i \in reads : w[i] = d
    BY DEF Span
  <2> QED
    BY <2>2, <2>3, <2>4
<1>3. /\ \A c : In(c) \subseteq L /\ IsFiniteSet(In(c)) /\ Cardinality(In(c)) \in Nat
      /\ \A i \in L : i \in In(w[i])
      /\ \A c : \A i \in In(c) : w[i] = c
  <2>1. \A c : In(c) \subseteq L
    BY DEF LiveIn
  <2> QED
    BY <1>1, <2>1, FS_Subset, FS_CardinalityType DEF LiveIn
<1>4. /\ In(w[f]) \subseteq reads \/ \A i \in reads : w[i] = w[f]
      /\ \A i \in reads, j \in L \ reads :
            w[f] \notin {w[i], w[j]} =>
                Cardinality(In(w[i])) >= Cardinality(In(w[j]))
      /\ \A i, j \in L \ reads :
            In(w[i]) \cap reads # {} /\ In(w[j]) \cap reads # {} => w[i] = w[j]
  BY DEF GlobalReads, MainFirst, MoreLiveFirst, InOrder
<1>0. Cardinality(E) < Cardinality(D)
  OBVIOUS
<1> HIDE DEF L, D, E, In
\* The cluster that the walk has left half-read is the only one of its kind.
<1>5. /\ In(w[f]) \subseteq reads
      /\ Cardinality(E \ D) <= Cardinality(D \ E) - 1
      /\ IsFiniteSet(E \ D) /\ IsFiniteSet(D \ E)
      /\ Cardinality(D \ E) \in Nat
      /\ D \ E # {}
  <2>1. In(w[f]) \subseteq reads
    <3>1. SUFFICES ASSUME \A i \in reads : w[i] = w[f] PROVE FALSE
      BY <1>4
    <3>2. D \subseteq E
      BY <1>2, <3>1
    <3> QED
      BY <1>0, <1>2, <3>2, FS_Subset
  <2>2. /\ IsFiniteSet(E \ D) /\ IsFiniteSet(D \ E)
        /\ Cardinality(E \ D) = Cardinality(E) - Cardinality(E \cap D)
        /\ Cardinality(D \ E) = Cardinality(D) - Cardinality(D \cap E)
    BY <1>2, FS_Difference
  <2>3. Cardinality(E \cap D) = Cardinality(D \cap E)
    <3>1. E \cap D = D \cap E
      OBVIOUS
    <3> QED
      BY <3>1
  <2>4. Cardinality(D \ E) \in Nat /\ Cardinality(E \ D) \in Nat
    BY <2>2, FS_CardinalityType
  <2>5. Cardinality(E \ D) <= Cardinality(D \ E) - 1
    <3>1. Cardinality(D \cap E) \in Nat
      BY <1>2, FS_Intersection, FS_CardinalityType
    <3> QED
      BY <1>0, <1>2, <2>2, <2>3, <2>4, <3>1
  <2>6. D \ E # {}
    <3>1. Cardinality(D \ E) # 0
      BY <2>4, <2>5
    <3> QED
      BY <3>1, FS_EmptySet
  <2> QED
    BY <2>1, <2>2, <2>4, <2>5, <2>6
<1>6. \A d \in D \ E : \E i \in reads : w[i] = d
  BY <1>2
<1>7. \A d \in D : In(d) \cap reads # {}  \/ d = w[f]
  BY <1>1, <1>2, <1>3
<1>8. \A j \in L \ reads : w[j] # w[f]
  BY <1>3, <1>5
<1>9. PICK half \in D \ E :
         \A j \in L \ reads : w[j] \in D => w[j] = half \/ w[j] \in E
  <2>1. CASE \E j \in L \ reads : w[j] \in D \ E
    <3>1. PICK j \in L \ reads : w[j] \in D \ E
      BY <2>1
    <3>2. \A i \in L \ reads : w[i] \in D => w[i] = w[j]
      BY <1>4, <1>7, <1>8, <3>1
    <3> QED
      BY <3>1, <3>2
  <2>2. CASE \A j \in L \ reads : w[j] \notin D \ E
    BY <1>5, <2>2
  <2> QED
    BY <2>1, <2>2
<1> DEFINE rest == {j \in L \ reads : w[j] \in D \cap E}
           more == In(half) \cap reads
\* What is unread where both are is less than what was read where the walk was
\* alone.
<1>10. /\ more # {} /\ IsFiniteSet(more) /\ more \subseteq reads
       /\ \A i \in more : w[i] = half
       /\ IsFiniteSet(rest)
       /\ Cardinality(rest) <= Cardinality(more) - 1
       /\ Cardinality(more) \in Nat
  <2>1. /\ more # {} /\ more \subseteq reads
        /\ \A i \in more : w[i] = half
    BY <1>1, <1>3, <1>6
  <2>2. IsFiniteSet(more) /\ Cardinality(more) \in Nat \ {0}
    BY <1>1, <2>1, FS_Subset, FS_CardinalityType, FS_EmptySet
  <2>3. IsFiniteSet(rest) /\ Cardinality(rest) \in Nat
    BY <1>1, FS_Subset, FS_CardinalityType
  <2>4. CASE rest = {}
    BY <2>1, <2>2, <2>4, FS_EmptySet
  <2>5. CASE rest # {}
    <3>1. PICK j \in L \ reads : w[j] \in D \cap E
      BY <2>5
    <3>2. \A i \in rest : w[i] = w[j]
      BY <1>4, <1>7, <1>8, <3>1
    <3>3. In(half) \subseteq reads
      <4>1. SUFFICES ASSUME NEW i \in In(half), i \notin reads PROVE FALSE
        OBVIOUS
      <4>2. i \in L \ reads /\ w[i] = half
        BY <1>3, <4>1
      <4>3. w[i] = w[j]
        BY <1>4, <1>7, <1>8, <1>9, <3>1, <4>2
      <4> QED
        BY <1>9, <3>1, <4>2, <4>3
    <3>4. Cardinality(In(w[j])) <= Cardinality(more)
      <4>1. PICK i \in reads : w[i] = half
        BY <1>6, <1>9
      <4>2. w[f] # half /\ w[f] # w[j]
        BY <1>2, <1>8, <1>9, <3>1
      <4>3. more = In(half)
        BY <3>3
      <4>4. Cardinality(In(w[i])) >= Cardinality(In(w[j]))
        BY <1>4, <3>1, <4>1, <4>2
      <4> QED
        BY <1>3, <4>1, <4>3, <4>4
    <3>5. PICK r \in In(w[j]) : r \in reads
      BY <1>7, <1>8, <3>1
    <3>6. rest \subseteq In(w[j]) \ {r}
      BY <1>3, <3>2, <3>5
    <3>7. /\ IsFiniteSet(In(w[j]) \ {r})
          /\ Cardinality(In(w[j]) \ {r}) = Cardinality(In(w[j])) - 1
      BY <1>3, <3>5, FS_RemoveElement
    <3>8. Cardinality(rest) <= Cardinality(In(w[j]) \ {r})
      BY <3>6, <3>7, FS_Subset
    <3> QED
      BY <1>3, <2>1, <2>2, <2>3, <3>4, <3>7, <3>8
  <2> QED
    BY <2>4, <2>5
<1>11. PICK kept \in more : TRUE
  BY <1>10
<1>12. PICK toMore \in [rest -> more \ {kept}] :
          \A x, y \in rest : toMore[x] = toMore[y] => x = y
  <2>1. IsFiniteSet(more \ {kept}) /\ Cardinality(rest) <= Cardinality(more \ {kept})
    BY <1>10, <1>11, FS_RemoveElement
  <2> HIDE DEF rest, more
  <2> QED
    BY <1>10, <2>1, SmallerMapsInto
\* A cluster of the others that the walk was not in has no more blocks than
\* one, of its own, that the walk read in full.
<1>13. PICK against \in [E \ D -> (D \ E) \ {half}] :
          \A x, y \in E \ D : against[x] = against[y] => x = y
  <2>1. /\ IsFiniteSet((D \ E) \ {half})
        /\ Cardinality((D \ E) \ {half}) = Cardinality(D \ E) - 1
    BY <1>5, <1>9, FS_RemoveElement
  <2>2. Cardinality(E \ D) <= Cardinality((D \ E) \ {half})
    BY <1>5, <2>1
  <2> QED
    BY <1>5, <2>1, <2>2, SmallerMapsInto
<1>14. \A e \in E \ D :
          \E g \in [In(e) -> In(against[e])] :
             \A x, y \in In(e) : g[x] = g[y] => x = y
  <2> SUFFICES ASSUME NEW e \in E \ D
               PROVE  \E g \in [In(e) -> In(against[e])] :
                         \A x, y \in In(e) : g[x] = g[y] => x = y
    OBVIOUS
  <2>1. against[e] \in D \ E
    BY <1>13
  <2>2. Cardinality(In(e)) <= Cardinality(In(against[e]))
    <3>1. CASE In(e) = {}
      BY <1>3, <3>1, FS_EmptySet
    <3>2. CASE In(e) # {}
      <4>1. PICK j \in In(e) : TRUE
        BY <3>2
      <4>2. PICK i \in reads : w[i] = against[e]
        BY <1>6, <2>1
      <4>3. j \in L \ reads /\ w[j] = e
        BY <1>2, <1>3, <4>1
      <4>4. w[f] # against[e] /\ w[f] # e
        BY <1>2, <2>1
      <4>5. Cardinality(In(w[i])) >= Cardinality(In(w[j]))
        BY <1>4, <4>2, <4>3, <4>4
      <4> QED
        BY <1>3, <4>2, <4>3, <4>5
    <3> QED
      BY <3>1, <3>2
  <2> QED
    BY <1>3, <2>2, SmallerMapsInto
<1> DEFINE across ==
             [e \in E \ D |->
                CHOOSE g \in [In(e) -> In(against[e])] :
                   \A x, y \in In(e) : g[x] = g[y] => x = y]
           swap ==
             [i \in inOther |->
                IF i \in reads THEN i
                ELSE IF w[i] \in D THEN toMore[i] ELSE across[w[i]][i]]
<1>15. \A e \in E \ D :
          /\ across[e] \in [In(e) -> In(against[e])]
          /\ \A x, y \in In(e) : across[e][x] = across[e][y] => x = y
  BY <1>14
<1> HIDE DEF across
<1>16. ASSUME NEW i \in inOther
       PROVE  /\ swap[i] \in reads \ {kept}
              /\ i \in reads => swap[i] = i /\ w[swap[i]] \in E
              /\ i \notin reads /\ w[i] \in D =>
                    i \in rest /\ swap[i] = toMore[i] /\ w[swap[i]] = half
              /\ i \notin reads /\ w[i] \notin D =>
                    /\ w[i] \in E \ D
                    /\ i \in In(w[i])
                    /\ swap[i] = across[w[i]][i]
                    /\ w[swap[i]] = against[w[i]]
  <2>1. i \in L /\ w[i] \in E
    OBVIOUS
  <2>2. w[kept] = half /\ half \in D \ E
    BY <1>9, <1>10, <1>11
  <2>3. CASE i \in reads
    BY <2>1, <2>2, <2>3
  <2>4. CASE i \notin reads /\ w[i] \in D
    <3>1. i \in rest /\ swap[i] = toMore[i]
      BY <2>1, <2>4
    <3>2. toMore[i] \in more \ {kept}
      BY <1>12, <3>1
    <3> QED
      BY <1>10, <2>4, <3>1, <3>2
  <2>5. CASE i \notin reads /\ w[i] \notin D
    <3>1. w[i] \in E \ D /\ i \in In(w[i]) /\ swap[i] = across[w[i]][i]
      BY <1>3, <2>1, <2>5
    <3>2. swap[i] \in In(against[w[i]])
      BY <1>15, <3>1
    <3>3. against[w[i]] \in (D \ E) \ {half}
      BY <1>13, <3>1
    <3>4. swap[i] \in L /\ w[swap[i]] = against[w[i]]
      BY <1>3, <3>2
    <3>5. swap[i] \in reads
      BY <1>9, <3>3, <3>4
    <3> QED
      BY <2>2, <2>5, <3>1, <3>3, <3>4, <3>5
  <2> QED
    BY <2>3, <2>4, <2>5
<1>17. swap \in [inOther -> reads \ {kept}]
  BY <1>16
<1>18. ASSUME NEW x \in inOther, NEW y \in inOther, swap[x] = swap[y]
       PROVE  x = y
  <2>1. half \notin E /\ \A e \in E \ D : against[e] \in (D \ E) \ {half}
    BY <1>9, <1>13
  <2> HIDE DEF swap, inOther, rest
  <2>2. CASE x \in reads
    BY <1>16, <1>18, <2>1, <2>2
  <2>3. CASE x \notin reads /\ w[x] \in D
    <3>1. y \notin reads /\ w[y] \in D
      BY <1>16, <1>18, <2>1, <2>3
    <3> QED
      BY <1>12, <1>16, <1>18, <2>3, <3>1
  <2>4. CASE x \notin reads /\ w[x] \notin D
    <3>1. y \notin reads /\ w[y] \notin D
      BY <1>16, <1>18, <2>1, <2>4
    <3>2. w[x] = w[y]
      BY <1>13, <1>16, <1>18, <2>4, <3>1
    <3> QED
      BY <1>15, <1>16, <1>18, <2>4, <3>1, <3>2
  <2> QED
    BY <2>2, <2>3, <2>4
<1> HIDE DEF swap
<1>19. /\ IsFiniteSet(reads \ {kept})
       /\ Cardinality(reads \ {kept}) = K - 1
  BY <1>1, <1>10, <1>11, FS_RemoveElement
<1>20. Cardinality(inOther) <= K - 1
  BY <1>17, <1>18, <1>19, MapsIntoSmaller
<1>21. K <= Cardinality(inOther) /\ Cardinality(inOther) \in Nat
  BY <1>1, FS_Subset, FS_CardinalityType
<1> QED
  BY <1>20, <1>21, StripeAssumption

-----------------------------------------------------------------------------

\* The calls of a handler are queued at the proxies or still to be made, and a
\* proxy that is at work is at work for the first call of its queue.
Queued(s) == {s[i] : i \in DOMAIN s}

NoneTwice(s) == \A i, j \in DOMAIN s : s[i] = s[j] => i = j

CallsOK ==
    /\ \A h \in Handlers :
          /\ handler[h].to_call \subseteq handler[h].waiting
          /\ handler[h].job = None <=> handler[h].waiting = {}
          /\ \A c \in Clusters :
                h \in Queued(rpc[c]) <=>
                    c \in handler[h].waiting \ handler[h].to_call
    /\ \A c \in Clusters :
          /\ NoneTwice(rpc[c])
          /\ proxy[c].pc # "idle" => rpc[c] # <<>>

\* With one handler every helper of a repair sends one part of what is read,
\* and the part is either queued at the main proxy or was taken from there.
Part(h, c) ==
    {<<Stripe(h), i>> :
        i \in {j \in handler[h].reads : where[Stripe(h)][j] = c}}

HelpOf(h, c) == [from |-> c, content |-> Part(h, c)]

Taken(h) ==
    {c \in Helpers(h) \ handler[h].waiting :
        HelpOf(h, c) \notin Queued(backlog[MainCluster(h)])}

HelperOK(h, c) ==
    /\ backlog[c] = <<>>
    /\ proxy[c] \in {IdleProxy, [IdleProxy EXCEPT !.pc = "inner"],
                     [IdleProxy EXCEPT !.pc = "connect", !.blocks[c] = Part(h, c)]}

BacklogOK(h) ==
    LET m == MainCluster(h)
    IN  /\ NoneTwice(backlog[m])
        /\ Queued(backlog[m]) \subseteq
              {HelpOf(h, c) : c \in Helpers(h) \ handler[h].waiting}

MainState(h, p, taken) ==
    LET m == MainCluster(h)
    IN  /\ p.pc \in {"idle", "outer", "inner", "write"}
        /\ p.pc = "idle" => p = IdleProxy /\ taken = {}
        /\ p.pc = "outer" =>
              p.to_accept + (IF p.accepting THEN 1 ELSE 0)
                  + Cardinality(taken) = Cardinality(Helpers(h))
        /\ p.pc \in {"inner", "write"} =>
              /\ p.to_accept = 0 /\ ~p.accepting /\ p.received = {}
              /\ taken = Helpers(h)
        /\ p.received \subseteq {HelpOf(h, c) : c \in taken}
        /\ \A c \in Clusters \ {m} :
              p.blocks[c] = IF c \in taken /\ HelpOf(h, c) \notin p.received
                            THEN Part(h, c) ELSE {}
        /\ p.blocks[m] = IF p.pc = "write" THEN Part(h, m) ELSE {}

MainOK(h) == MainState(h, proxy[MainCluster(h)], Taken(h))

JobOK(h) ==
    LET m == MainCluster(h)
    IN  /\ handler[h].reads \in Plans(where[Stripe(h)], Failed(h))
        /\ m \in handler[h].waiting
        /\ handler[h].waiting \subseteq Helpers(h) \cup {m}
        /\ \A c \in Clusters \ {m} : HelperOK(h, c)
        /\ BacklogOK(h)
        /\ MainOK(h)

JobsOK == \A h \in Handlers : handler[h].job # None => JobOK(h)

\* A block is missing only if its repair is still to be done, and it is the
\* only one of its stripe.
Jobs(h) == handler[h].todo \cup ({handler[h].job} \ {None})

DiskOK ==
    /\ \A s \in Stripes, i \in Blocks :
          /\ disk[s][i] # "wrong"
          /\ disk[s][i] = "lost" => \E h \in Handlers : <<s, i>> \in Jobs(h)
    /\ \A h \in Handlers : \A x, y \in Jobs(h) : x[1] = y[1] => x = y

OneHandler == \E h : Handlers = {h}

IInv == TypeOK /\ CallsOK /\ NothingLeftBehind /\ JobsOK /\ DiskOK

-----------------------------------------------------------------------------
\* Queues in which nothing is twice.

LEMMA QueueTail ==
  ASSUME NEW S, NEW q \in Seq(S), q # <<>>, NoneTwice(q)
  PROVE  /\ Head(q) \in S
         /\ Head(q) \in Queued(q)
         /\ Tail(q) \in Seq(S)
         /\ NoneTwice(Tail(q))
         /\ Queued(Tail(q)) = Queued(q) \ {Head(q)}
<1>1. /\ Len(q) \in Nat \ {0}
      /\ DOMAIN q = 1 .. Len(q)
      /\ Head(q) = q[1]
  OBVIOUS
<1>2. /\ Tail(q) \in Seq(S)
      /\ DOMAIN Tail(q) = 1 .. Len(q) - 1
      /\ \A i \in 1 .. Len(q) - 1 : Tail(q)[i] = q[i + 1]
  OBVIOUS
<1>3. NoneTwice(Tail(q))
  <2>1. SUFFICES ASSUME NEW i \in 1 .. Len(q) - 1, NEW j \in 1 .. Len(q) - 1,
                        Tail(q)[i] = Tail(q)[j]
                 PROVE  i = j
    BY <1>2 DEF NoneTwice
  <2>2. /\ q[i + 1] = q[j + 1]
        /\ i + 1 \in DOMAIN q /\ j + 1 \in DOMAIN q
    BY <1>1, <1>2, <2>1
  <2>3. i + 1 = j + 1
    BY <2>2 DEF NoneTwice
  <2> QED
    BY <2>3
<1>4. Queued(Tail(q)) = Queued(q) \ {Head(q)}
  <2>1. ASSUME NEW x \in Queued(Tail(q))
        PROVE  x \in Queued(q) \ {Head(q)}
    <3>1. PICK i \in 1 .. Len(q) - 1 : x = q[i + 1]
      BY <1>2 DEF Queued
    <3>2. /\ i + 1 \in DOMAIN q /\ 1 \in DOMAIN q
          /\ i + 1 # 1
      BY <1>1
    <3>3. q[i + 1] # q[1]
      BY <3>2 DEF NoneTwice
    <3> QED
      BY <1>1, <3>1, <3>2, <3>3 DEF Queued
  <2>2. ASSUME NEW x \in Queued(q) \ {Head(q)}
        PROVE  x \in Queued(Tail(q))
    <3>1. PICK i \in 1 .. Len(q) : x = q[i]
      BY <1>1 DEF Queued
    <3>2. i # 1
      BY <1>1, <3>1
    <3>3. i - 1 \in 1 .. Len(q) - 1 /\ (i - 1) + 1 = i
      BY <1>1, <3>2
    <3> QED
      BY <1>2, <3>1, <3>3 DEF Queued
  <2> QED
    BY <2>1, <2>2
<1>5. Head(q) \in S /\ Head(q) \in Queued(q)
  BY <1>1 DEF Queued
<1> QED
  BY <1>2, <1>3, <1>4, <1>5

LEMMA QueueAppend ==
  ASSUME NEW S, NEW q \in Seq(S), NEW x \in S, x \notin Queued(q), NoneTwice(q)
  PROVE  /\ Append(q, x) \in Seq(S)
         /\ Append(q, x) # <<>>
         /\ NoneTwice(Append(q, x))
         /\ Queued(Append(q, x)) = Queued(q) \cup {x}
<1> DEFINE a == Append(q, x)
<1>1. Len(q) \in Nat /\ DOMAIN q = 1 .. Len(q)
  OBVIOUS
<1>2. /\ a \in Seq(S)
      /\ Len(a) = Len(q) + 1
      /\ DOMAIN a = 1 .. Len(q) + 1
      /\ \A i \in 1 .. Len(q) : a[i] = q[i]
      /\ a[Len(q) + 1] = x
  OBVIOUS
<1> HIDE DEF a
<1>3. NoneTwice(a)
  <2>1. SUFFICES ASSUME NEW i \in 1 .. Len(q) + 1, NEW j \in 1 .. Len(q) + 1,
                        a[i] = a[j]
                 PROVE  i = j
    BY <1>2 DEF NoneTwice
  <2>2. CASE i \in DOMAIN q /\ j \in DOMAIN q
    BY <1>1, <1>2, <2>1, <2>2 DEF NoneTwice
  <2>3. CASE i = Len(q) + 1 \/ j = Len(q) + 1
    BY <1>1, <1>2, <2>1, <2>3 DEF Queued
  <2> QED
    BY <1>1, <2>2, <2>3
<1>4. Queued(a) = Queued(q) \cup {x}
  <2>1. \A y \in Queued(a) : y \in Queued(q) \cup {x}
    BY <1>1, <1>2 DEF Queued
  <2>2. \A y \in Queued(q) \cup {x} : y \in Queued(a)
    BY <1>1, <1>2 DEF Queued
  <2> QED
    BY <2>1, <2>2
<1>5. a # <<>>
  BY <1>1, <1>2
<1> QED
  BY <1>2, <1>3, <1>4, <1>5 DEF a

LEMMA NothingQueued == Queued(<<>>) = {} /\ NoneTwice(<<>>)
  BY DEF Queued, NoneTwice

LEMMA QueueIsEmpty ==
  ASSUME NEW S, NEW q \in Seq(S), Queued(q) = {}
  PROVE  q = <<>>
<1>1. SUFFICES ASSUME q # <<>> PROVE FALSE
  OBVIOUS
<1>2. 1 \in DOMAIN q
  BY <1>1
<1> QED
  BY <1>2 DEF Queued

-----------------------------------------------------------------------------
\* Types.

HandlerState ==
    [todo : SUBSET (Stripes \X Blocks),
     job : (Stripes \X Blocks) \cup {None}, reads : SUBSET Blocks,
     to_call : SUBSET Clusters, waiting : SUBSET Clusters]

ProxyState ==
    [pc : {"idle", "outer", "inner", "connect", "write"},
     to_accept : 0 .. NumClusters - 1, accepting : BOOLEAN,
     received : SUBSET Help, blocks : [Clusters -> Content]]

LEMMA StateTypes ==
  ASSUME TypeOK
  PROVE  /\ handler \in [Handlers -> HandlerState]
         /\ proxy \in [Clusters -> ProxyState]
  BY DEF TypeOK, HandlerState, ProxyState

LEMMA ClustersAreFinite ==
  /\ IsFiniteSet(Clusters)
  /\ Cardinality(Clusters) = NumClusters
  BY FS_Interval, RepairAssumption DEF Clusters

\* What a handler with a job knows of it.
LEMMA JobTypes ==
  ASSUME TypeOK, NEW h \in Handlers, handler[h].job # None
  PROVE  /\ handler[h].job = <<Stripe(h), Failed(h)>>
         /\ Stripe(h) \in Stripes
         /\ Failed(h) \in Blocks
         /\ where[Stripe(h)] \in [Blocks -> Clusters]
         /\ MainCluster(h) \in Clusters
         /\ handler[h].reads \subseteq Blocks
         /\ Helpers(h) \subseteq Clusters \ {MainCluster(h)}
         /\ IsFiniteSet(Helpers(h))
         /\ Cardinality(Helpers(h)) \in 0 .. NumClusters - 1
<1>1. handler[h].job \in Stripes \X Blocks /\ handler[h].reads \subseteq Blocks
  BY StateTypes DEF HandlerState
<1>2. /\ handler[h].job = <<Stripe(h), Failed(h)>>
      /\ Stripe(h) \in Stripes
      /\ Failed(h) \in Blocks
  BY <1>1 DEF Stripe, Failed
<1>3. where[Stripe(h)] \in [Blocks -> Clusters]
  BY <1>2 DEF TypeOK
<1>4. MainCluster(h) \in Clusters
  BY <1>2, <1>3 DEF MainCluster
<1>5. Helpers(h) \subseteq Clusters \ {MainCluster(h)}
  BY <1>1, <1>2, <1>3, <1>4 DEF Helpers, Span, MainCluster
<1>6. /\ IsFiniteSet(Clusters \ {MainCluster(h)})
      /\ Cardinality(Clusters \ {MainCluster(h)}) = NumClusters - 1
  BY <1>4, ClustersAreFinite, FS_RemoveElement
<1>7. /\ IsFiniteSet(Helpers(h))
      /\ Cardinality(Helpers(h)) \in Nat
      /\ Cardinality(Helpers(h)) <= NumClusters - 1
  BY <1>5, <1>6, FS_Subset, FS_CardinalityType
<1> QED
  BY <1>1, <1>2, <1>3, <1>4, <1>5, <1>7, RepairAssumption

\* A call in a proxy's queue is one of a handler that waits for it.
LEMMA CallerWaits ==
  ASSUME TypeOK, CallsOK, NEW c \in Clusters, rpc[c] # <<>>
  PROVE  /\ Caller(c) \in Handlers
         /\ handler[Caller(c)].job # None
         /\ c \in handler[Caller(c)].waiting \ handler[Caller(c)].to_call
<1>1. rpc[c] \in Seq(Handlers) /\ NoneTwice(rpc[c])
  BY DEF TypeOK, CallsOK
<1>2. Caller(c) \in Handlers /\ Caller(c) \in Queued(rpc[c])
  BY <1>1, QueueTail DEF Caller
<1> QED
  BY <1>2 DEF CallsOK

LEMMA ReturnedState ==
  ASSUME TypeOK, CallsOK, NEW c \in Clusters, rpc[c] # <<>>
  PROVE  LET h == Caller(c)
             r == Returned(h, c)
         IN  /\ r \in HandlerState
             /\ r.todo = handler[h].todo
             /\ r.waiting = handler[h].waiting \ {c}
             /\ r.to_call = handler[h].to_call
             /\ r.job = IF handler[h].waiting = {c} THEN None ELSE handler[h].job
             /\ r.job # None => r.reads = handler[h].reads
<1> DEFINE h == Caller(c)
<1>1. /\ h \in Handlers
      /\ c \in handler[h].waiting \ handler[h].to_call
      /\ handler[h].to_call \subseteq handler[h].waiting
      /\ handler[h] \in HandlerState
  BY CallerWaits, StateTypes DEF CallsOK
<1> HIDE DEF h
<1>2. CASE handler[h].waiting = {c}
  <2>1. Returned(h, c) = [IdleHandler EXCEPT !.todo = handler[h].todo]
    BY <1>2 DEF Returned
  <2>2. handler[h].to_call = {}
    BY <1>1, <1>2
  <2> QED
    BY <1>1, <1>2, <2>1, <2>2 DEF IdleHandler, HandlerState, h
<1>3. CASE handler[h].waiting # {c}
  <2>1. Returned(h, c) = [handler[h] EXCEPT !.waiting = @ \ {c}]
    BY <1>3 DEF Returned
  <2> QED
    BY <1>1, <1>3, <2>1 DEF HandlerState, h
<1> QED
  BY <1>2, <1>3

LEMMA OneProxyChanges ==
  ASSUME TypeOK, NEW c \in Clusters, NEW new \in ProxyState
  PROVE  [proxy EXCEPT ![c] = new] \in [Clusters -> ProxyState]
  BY StateTypes

LEMMA OneHandlerChanges ==
  ASSUME TypeOK, NEW h \in Handlers, NEW new \in HandlerState
  PROVE  [handler EXCEPT ![h] = new] \in [Handlers -> HandlerState]
  BY StateTypes

\* The end of a call, which three actions share.
CallReturns(c) ==
    /\ rpc[c] # <<>>
    /\ rpc' = [rpc EXCEPT ![c] = Tail(@)]
    /\ handler' = [handler EXCEPT ![Caller(c)] = Returned(Caller(c), c)]

LEMMA CallReturnsTypes ==
  ASSUME TypeOK, CallsOK, NEW c \in Clusters, CallReturns(c)
  PROVE  /\ handler' \in [Handlers -> HandlerState]
         /\ rpc' \in [Clusters -> Seq(Handlers)]
<1>1. Caller(c) \in Handlers /\ Returned(Caller(c), c) \in HandlerState
  BY CallerWaits, ReturnedState DEF CallReturns
<1>2. handler' \in [Handlers -> HandlerState]
  BY <1>1, OneHandlerChanges DEF CallReturns
<1>3. rpc[c] \in Seq(Handlers) /\ NoneTwice(rpc[c])
  BY DEF TypeOK, CallsOK
<1>4. Tail(rpc[c]) \in Seq(Handlers)
  BY <1>3, QueueTail DEF CallReturns
<1> QED
  BY <1>2, <1>4 DEF CallReturns, TypeOK

\* The calls of the other handlers and the other proxies stay as they were.
LEMMA CallReturnsCalls ==
  ASSUME TypeOK, CallsOK, NEW c \in Clusters, CallReturns(c),
         proxy'[c].pc = "idle",
         \A d \in Clusters \ {c} : proxy'[d] = proxy[d]
  PROVE  CallsOK'
<1> DEFINE h == Caller(c)
           r == Returned(h, c)
<1>1. /\ h \in Handlers
      /\ handler[h].job # None
      /\ c \in handler[h].waiting \ handler[h].to_call
      /\ r \in HandlerState
      /\ r.waiting = handler[h].waiting \ {c}
      /\ r.to_call = handler[h].to_call
      /\ r.job = IF handler[h].waiting = {c} THEN None ELSE handler[h].job
  BY CallerWaits, ReturnedState DEF CallReturns
<1>2. /\ rpc[c] \in Seq(Handlers) /\ NoneTwice(rpc[c])
      /\ rpc \in [Clusters -> Seq(Handlers)]
      /\ handler \in [Handlers -> HandlerState]
  BY StateTypes DEF TypeOK, CallsOK
<1>3. /\ NoneTwice(rpc'[c])
      /\ Queued(rpc'[c]) = Queued(rpc[c]) \ {h}
      /\ \A d \in Clusters \ {c} : rpc'[d] = rpc[d]
  BY <1>2, QueueTail DEF CallReturns, Caller
<1>4. /\ handler'[h] = r
      /\ \A g \in Handlers \ {h} : handler'[g] = handler[g]
  BY <1>1, <1>2 DEF CallReturns
<1> HIDE DEF h, r
<1>5. ASSUME NEW g \in Handlers
      PROVE  /\ handler'[g].to_call \subseteq handler'[g].waiting
             /\ handler'[g].job = None <=> handler'[g].waiting = {}
             /\ \A d \in Clusters :
                   g \in Queued(rpc'[d]) <=>
                       d \in handler'[g].waiting \ handler'[g].to_call
  <2>1. CASE g = h
    <3>1. handler'[h].to_call \subseteq handler'[h].waiting
      BY <1>1, <1>4 DEF CallsOK
    <3>2. handler'[h].job = None <=> handler'[h].waiting = {}
      BY <1>1, <1>4
    <3>3. ASSUME NEW d \in Clusters
          PROVE  h \in Queued(rpc'[d]) <=>
                       d \in handler'[h].waiting \ handler'[h].to_call
      <4>1. CASE d = c
        BY <1>1, <1>3, <1>4, <4>1
      <4>2. CASE d # c
        BY <1>1, <1>3, <1>4, <4>2 DEF CallsOK
      <4> QED
        BY <4>1, <4>2
    <3> QED
      BY <2>1, <3>1, <3>2, <3>3
  <2>2. CASE g # h
    <3>1. handler'[g] = handler[g]
      BY <1>4, <2>2
    <3>2. \A d \in Clusters : g \in Queued(rpc'[d]) <=> g \in Queued(rpc[d])
      BY <1>3, <2>2
    <3> QED
      BY <3>1, <3>2 DEF CallsOK
  <2> QED
    BY <2>1, <2>2
<1>6. ASSUME NEW d \in Clusters
      PROVE  /\ NoneTwice(rpc'[d])
             /\ proxy'[d].pc # "idle" => rpc'[d] # <<>>
  BY <1>3 DEF CallsOK
<1> QED
  BY <1>5, <1>6 DEF CallsOK

\* A step of a proxy that ends no call.
LEMMA ProxyCalls ==
  ASSUME CallsOK, NEW c \in Clusters,
         handler' = handler, rpc' = rpc,
         proxy'[c].pc # "idle" => rpc[c] # <<>>,
         \A d \in Clusters \ {c} : proxy'[d] = proxy[d]
  PROVE  CallsOK'
<1>1. ASSUME NEW d \in Clusters
      PROVE  /\ NoneTwice(rpc'[d])
             /\ proxy'[d].pc # "idle" => rpc'[d] # <<>>
  BY DEF CallsOK
<1>2. \A h \in Handlers :
          /\ handler'[h].to_call \subseteq handler'[h].waiting
          /\ handler'[h].job = None <=> handler'[h].waiting = {}
          /\ \A d \in Clusters :
                h \in Queued(rpc'[d]) <=>
                    d \in handler'[h].waiting \ handler'[h].to_call
  BY DEF CallsOK
<1> QED
  BY <1>1, <1>2 DEF CallsOK

\* Each operation keeps the types and the calls.
LEMMA AskForRepairTypes ==
  ASSUME TypeOK, CallsOK, NEW h \in Handlers, NEW failed \in NodeBlocks,
         AskForRepair(h, failed)
  PROVE  TypeOK' /\ CallsOK'
<1>1. /\ handler[h] = IdleHandler
      /\ handler' = [handler EXCEPT ![h].todo = failed]
      /\ failed \in SUBSET (Stripes \X Blocks)
      /\ handler \in [Handlers -> HandlerState]
  BY RepairAssumption, StateTypes DEF AskForRepair, Idle
<1>2. /\ handler' \in [Handlers -> HandlerState]
      /\ \A g \in Handlers : /\ handler'[g].to_call = handler[g].to_call
                             /\ handler'[g].waiting = handler[g].waiting
                             /\ handler'[g].job = handler[g].job
  BY <1>1 DEF HandlerState
<1>3. disk' \in [Stripes -> [Blocks -> {"right", "lost", "wrong"}]]
  BY DEF AskForRepair, TypeOK
<1>4. asks' \in 0 .. MaxAsks
  <2>1. asks \in 0 .. MaxAsks /\ asks < MaxAsks /\ asks' = asks + 1
    BY DEF AskForRepair, TypeOK
  <2> QED
    BY <2>1, RepairAssumption
<1>5. TypeOK'
  BY <1>2, <1>3, <1>4 DEF AskForRepair, TypeOK, HandlerState
<1>6. CallsOK'
  <2>1. \A d \in Clusters : /\ NoneTwice(rpc'[d])
                            /\ proxy'[d].pc # "idle" => rpc'[d] # <<>>
    BY DEF AskForRepair, CallsOK
  <2>2. \A g \in Handlers :
          /\ handler'[g].to_call \subseteq handler'[g].waiting
          /\ handler'[g].job = None <=> handler'[g].waiting = {}
          /\ \A d \in Clusters :
                g \in Queued(rpc'[d]) <=>
                    d \in handler'[g].waiting \ handler'[g].to_call
    BY <1>2 DEF AskForRepair, CallsOK
  <2> QED
    BY <2>1, <2>2 DEF CallsOK
<1> QED
  BY <1>5, <1>6

LEMMA DataIsNotCached ==
  ASSUME NEW f \in Blocks, f < K
  PROVE  ~IsCached(f)
  BY StripeAssumption DEF IsCached, Blocks, NumBlocks

LEMMA PlanTypes ==
  ASSUME NEW w \in [Blocks -> Clusters], NEW f \in Blocks, NEW reads \in Plans(w, f)
  PROVE  /\ reads \subseteq Blocks
         /\ Span(w, f, reads) \subseteq Clusters
         /\ w[f] \in Span(w, f, reads)
<1>1. CASE f < K
  <2>1. reads = GroupReads(f)
    BY <1>1, DataIsNotCached DEF Plans
  <2> QED
    BY <2>1 DEF GroupReads, GroupBlocks, Span
<1>2. CASE ~(f < K) /\ IsCached(f)
  <2>1. reads = {f}
    BY <1>2 DEF Plans
  <2> QED
    BY <2>1 DEF Span
<1>3. CASE ~(f < K) /\ ~IsCached(f)
  <2>1. reads \in GlobalReads(w, f)
    BY <1>3 DEF Plans
  <2> QED
    BY <2>1 DEF GlobalReads, LiveBlocks, Span
<1> QED
  BY <1>1, <1>2, <1>3

LEMMA PlanRepairTypes ==
  ASSUME TypeOK, CallsOK, NEW h \in Handlers, NEW job \in handler[h].todo,
         NEW reads \in Plans(where[job[1]], job[2]), PlanRepair(h, job, reads)
  PROVE  TypeOK' /\ CallsOK'
<1> DEFINE w    == where[job[1]]
           span == Span(w, job[2], reads)
           new  == [todo |-> handler[h].todo \ {job}, job |-> job,
                    reads |-> reads, to_call |-> span, waiting |-> span]
<1>1. /\ handler \in [Handlers -> HandlerState]
      /\ job \in Stripes \X Blocks
      /\ job # None
  BY StateTypes, RepairAssumption DEF HandlerState
<1>2. w \in [Blocks -> Clusters]
  BY <1>1 DEF TypeOK
<1>3. /\ reads \subseteq Blocks
      /\ span \subseteq Clusters
      /\ span # {}
  BY <1>1, <1>2, PlanTypes
<1>4. handler' = [handler EXCEPT ![h] = new] /\ handler[h].job = None
  BY DEF PlanRepair
<1> HIDE DEF span, w
<1>5. new \in HandlerState
  BY <1>1, <1>3 DEF HandlerState
<1>6. /\ handler' \in [Handlers -> HandlerState]
      /\ handler'[h] = new
      /\ \A g \in Handlers \ {h} : handler'[g] = handler[g]
  BY <1>1, <1>4, <1>5
<1>7. TypeOK'
  BY <1>6 DEF PlanRepair, TypeOK, HandlerState
<1>8. CallsOK'
  <2>1. \A d \in Clusters : /\ NoneTwice(rpc'[d])
                            /\ proxy'[d].pc # "idle" => rpc'[d] # <<>>
    BY DEF PlanRepair, CallsOK
  <2>2. ASSUME NEW g \in Handlers
        PROVE  /\ handler'[g].to_call \subseteq handler'[g].waiting
               /\ handler'[g].job = None <=> handler'[g].waiting = {}
               /\ \A d \in Clusters :
                     g \in Queued(rpc'[d]) <=>
                         d \in handler'[g].waiting \ handler'[g].to_call
    <3>1. rpc' = rpc
      BY DEF PlanRepair
    <3>2. CASE g = h
      <4>1. \A d \in Clusters : h \notin Queued(rpc[d])
        BY <1>4 DEF CallsOK
      <4> QED
        BY <1>1, <1>3, <1>6, <3>1, <3>2, <4>1
    <3>3. CASE g # h
      BY <1>6, <3>1, <3>3 DEF CallsOK
    <3> QED
      BY <3>2, <3>3
  <2> QED
    BY <2>1, <2>2 DEF CallsOK
<1> QED
  BY <1>7, <1>8

LEMMA CallProxyTypes ==
  ASSUME TypeOK, CallsOK, NEW h \in Handlers, NEW c \in Clusters,
         CallProxy(h, c)
  PROVE  /\ TypeOK' /\ CallsOK'
         /\ handler'[h] = [handler[h] EXCEPT !.to_call = @ \ {c}]
         /\ \A d \in Clusters \ {c} : rpc'[d] = rpc[d]
         /\ c \in handler[h].waiting /\ h \notin Queued(rpc[c])
<1>1. /\ handler \in [Handlers -> HandlerState]
      /\ c \in handler[h].to_call
      /\ handler' = [handler EXCEPT ![h].to_call = @ \ {c}]
      /\ rpc \in [Clusters -> Seq(Handlers)]
      /\ rpc' = [rpc EXCEPT ![c] = Append(@, h)]
  BY StateTypes DEF CallProxy, TypeOK
<1>2. /\ handler'[h] = [handler[h] EXCEPT !.to_call = @ \ {c}]
      /\ handler' \in [Handlers -> HandlerState]
      /\ handler'[h].to_call = handler[h].to_call \ {c}
      /\ handler'[h].waiting = handler[h].waiting
      /\ handler'[h].job = handler[h].job
      /\ \A g \in Handlers \ {h} : handler'[g] = handler[g]
  <2>1. /\ handler'[h] = [handler[h] EXCEPT !.to_call = @ \ {c}]
        /\ \A g \in Handlers \ {h} : handler'[g] = handler[g]
    BY <1>1
  <2>2. handler[h] \in HandlerState
    BY <1>1
  <2>3. handler'[h] \in HandlerState
    BY <2>1, <2>2 DEF HandlerState
  <2>4. handler' \in [Handlers -> HandlerState]
    BY <1>1, <2>1, <2>3
  <2> QED
    BY <2>1, <2>2, <2>4 DEF HandlerState
<1>3. c \in handler[h].waiting /\ h \notin Queued(rpc[c])
  BY <1>1 DEF CallsOK
<1>4. /\ rpc[c] \in Seq(Handlers)
      /\ NoneTwice(rpc[c])
  BY <1>1 DEF CallsOK
<1>5. /\ Append(rpc[c], h) \in Seq(Handlers)
      /\ Append(rpc[c], h) # <<>>
      /\ NoneTwice(Append(rpc[c], h))
      /\ Queued(Append(rpc[c], h)) = Queued(rpc[c]) \cup {h}
  BY <1>3, <1>4, QueueAppend
<1>6. /\ rpc' \in [Clusters -> Seq(Handlers)]
      /\ rpc'[c] = Append(rpc[c], h)
      /\ \A d \in Clusters \ {c} : rpc'[d] = rpc[d]
  BY <1>1, <1>5
<1>7. TypeOK'
  BY <1>2, <1>6 DEF CallProxy, TypeOK, HandlerState
<1>8. CallsOK'
  <2>1. \A d \in Clusters : /\ NoneTwice(rpc'[d])
                            /\ proxy'[d].pc # "idle" => rpc'[d] # <<>>
    BY <1>5, <1>6 DEF CallProxy, CallsOK
  <2>2. ASSUME NEW g \in Handlers
        PROVE  /\ handler'[g].to_call \subseteq handler'[g].waiting
               /\ handler'[g].job = None <=> handler'[g].waiting = {}
               /\ \A d \in Clusters :
                     g \in Queued(rpc'[d]) <=>
                         d \in handler'[g].waiting \ handler'[g].to_call
    <3>1. CASE g = h
      <4>1. \A d \in Clusters : h \in Queued(rpc'[d]) <=>
                                   h \in Queued(rpc[d]) \/ d = c
        BY <1>5, <1>6
      <4> QED
        BY <1>2, <1>3, <3>1, <4>1 DEF CallsOK
    <3>2. CASE g # h
      <4>1. \A d \in Clusters : g \in Queued(rpc'[d]) <=> g \in Queued(rpc[d])
        BY <1>5, <1>6, <3>2
      <4> QED
        BY <1>2, <3>2, <4>1 DEF CallsOK
    <3> QED
      BY <3>1, <3>2
  <2> QED
    BY <2>1, <2>2 DEF CallsOK
<1> QED
  BY <1>2, <1>3, <1>6, <1>7, <1>8

\* The steps of a proxy: what it becomes is a state of a proxy.
LEMMA ProxyStepTypes ==
  ASSUME TypeOK, CallsOK, NEW c \in Clusters, NEW new \in ProxyState,
         proxy' = [proxy EXCEPT ![c] = new],
         new.pc # "idle" => rpc[c] # <<>>,
         backlog' \in [Clusters -> Seq(Help)],
         UNCHANGED <<where, disk, handler, rpc, asks>>
  PROVE  TypeOK' /\ CallsOK'
<1>1. proxy' \in [Clusters -> ProxyState]
  BY OneProxyChanges
<1>2. TypeOK'
  BY <1>1 DEF TypeOK, ProxyState
<1>3. /\ proxy'[c] = new
      /\ \A d \in Clusters \ {c} : proxy'[d] = proxy[d]
  BY StateTypes
<1>4. CallsOK'
  BY <1>3, ProxyCalls
<1> QED
  BY <1>2, <1>4

LEMMA BeginCallTypes ==
  ASSUME TypeOK, CallsOK, NEW c \in Clusters, BeginCall(c)
  PROVE  TypeOK' /\ CallsOK'
<1> DEFINE h   == Caller(c)
           new == IF c = MainCluster(h)
                  THEN [proxy[c] EXCEPT !.pc = "outer",
                                        !.to_accept = Cardinality(Helpers(h))]
                  ELSE [proxy[c] EXCEPT !.pc = "inner"]
<1>1. /\ rpc[c] # <<>>
      /\ proxy' = [proxy EXCEPT ![c] = new]
      /\ UNCHANGED <<where, disk, handler, rpc, backlog, asks>>
  BY DEF BeginCall
<1>2. Cardinality(Helpers(h)) \in 0 .. NumClusters - 1
  BY <1>1, CallerWaits, JobTypes
<1>3. new \in ProxyState
  BY <1>2, StateTypes DEF ProxyState
<1>4. backlog' \in [Clusters -> Seq(Help)]
  BY <1>1 DEF TypeOK
<1> HIDE DEF new
<1> QED
  BY <1>1, <1>3, <1>4, ProxyStepTypes

LEMMA EnterAcceptTypes ==
  ASSUME TypeOK, CallsOK, NEW c \in Clusters, EnterAccept(c)
  PROVE  TypeOK' /\ CallsOK'
<1> DEFINE new == [proxy[c] EXCEPT !.to_accept = @ - 1, !.accepting = TRUE]
<1>1. /\ proxy' = [proxy EXCEPT ![c] = new]
      /\ proxy[c].to_accept > 0
      /\ UNCHANGED <<where, disk, handler, rpc, backlog, asks>>
  BY StateTypes DEF EnterAccept, ProxyState
<1>2. proxy[c].to_accept - 1 \in 0 .. NumClusters - 1
  BY <1>1, StateTypes, RepairAssumption DEF ProxyState
<1>3. new \in ProxyState /\ new.pc = proxy[c].pc
  BY <1>2, StateTypes DEF ProxyState
<1>4. backlog' \in [Clusters -> Seq(Help)]
  BY <1>1 DEF TypeOK
<1> HIDE DEF new
<1> QED
  BY <1>1, <1>3, <1>4, ProxyStepTypes DEF CallsOK

LEMMA AcceptHelpTypes ==
  ASSUME TypeOK, CallsOK, NEW c \in Clusters, AcceptHelp(c)
  PROVE  TypeOK' /\ CallsOK'
<1> DEFINE new == [proxy[c] EXCEPT !.accepting = FALSE,
                                   !.received = @ \cup {Head(backlog[c])}]
<1>1. /\ proxy' = [proxy EXCEPT ![c] = new]
      /\ backlog[c] # <<>>
      /\ backlog' = [backlog EXCEPT ![c] = Tail(@)]
      /\ UNCHANGED <<where, disk, handler, rpc, asks>>
  BY StateTypes DEF AcceptHelp, ProxyState
<1>2. backlog[c] \in Seq(Help)
  BY DEF TypeOK
<1>3. Head(backlog[c]) \in Help /\ Tail(backlog[c]) \in Seq(Help)
  BY <1>1, <1>2, HeadTailProperties
<1>4. new \in ProxyState /\ new.pc = proxy[c].pc
  BY <1>3, StateTypes DEF ProxyState
<1>5. backlog' \in [Clusters -> Seq(Help)]
  BY <1>1, <1>3 DEF TypeOK
<1> HIDE DEF new
<1> QED
  BY <1>1, <1>4, <1>5, ProxyStepTypes DEF CallsOK

LEMMA StoreHelpTypes ==
  ASSUME TypeOK, CallsOK, NEW c \in Clusters, NEW help \in proxy[c].received,
         StoreHelp(c, help)
  PROVE  TypeOK' /\ CallsOK'
<1> DEFINE new == [proxy[c] EXCEPT !.received = @ \ {help},
                                   !.blocks[help.from] = help.content]
<1>1. /\ proxy' = [proxy EXCEPT ![c] = new]
      /\ UNCHANGED <<where, disk, handler, rpc, backlog, asks>>
  BY StateTypes DEF StoreHelp, ProxyState
<1>2. help.from \in Clusters /\ help.content \in Content
  BY StateTypes DEF ProxyState, Help
<1>3. new \in ProxyState /\ new.pc = proxy[c].pc
  BY <1>2, StateTypes DEF ProxyState
<1>4. backlog' \in [Clusters -> Seq(Help)]
  BY <1>1 DEF TypeOK
<1> HIDE DEF new
<1> QED
  BY <1>1, <1>3, <1>4, ProxyStepTypes DEF CallsOK

LEMMA JoinOuterTypes ==
  ASSUME TypeOK, CallsOK, NEW c \in Clusters, JoinOuter(c)
  PROVE  TypeOK' /\ CallsOK'
<1> DEFINE new == [proxy[c] EXCEPT !.pc = "inner"]
<1>1. /\ proxy' = [proxy EXCEPT ![c] = new]
      /\ proxy[c].pc = "outer"
      /\ UNCHANGED <<where, disk, handler, rpc, backlog, asks>>
  BY DEF JoinOuter
<1>2. new \in ProxyState /\ rpc[c] # <<>>
  BY <1>1, StateTypes DEF ProxyState, CallsOK
<1>3. backlog' \in [Clusters -> Seq(Help)]
  BY <1>1 DEF TypeOK
<1> HIDE DEF new
<1> QED
  BY <1>1, <1>2, <1>3, ProxyStepTypes

LEMMA ReadInnerTypes ==
  ASSUME TypeOK, CallsOK, NEW c \in Clusters, ReadInner(c)
  PROVE  TypeOK' /\ CallsOK'
<1> DEFINE h    == Caller(c)
           s    == Stripe(h)
           pc   == IF c = MainCluster(h) THEN "write" ELSE "connect"
           read == {BlockRead(s, i) :
                       i \in {j \in handler[h].reads : where[s][j] = c}}
           new  == [proxy[c] EXCEPT !.pc = pc, !.blocks[c] = read]
<1>1. /\ proxy' = [proxy EXCEPT ![c] = new]
      /\ proxy[c].pc = "inner"
      /\ UNCHANGED <<where, disk, handler, rpc, backlog, asks>>
  BY StateTypes DEF ReadInner, ProxyState
<1>2. rpc[c] # <<>>
  BY <1>1 DEF CallsOK
<1>3. s \in Stripes /\ handler[h].reads \subseteq Blocks
  BY <1>2, CallerWaits, JobTypes
<1>4. read \in Content
  BY <1>3 DEF Content, BlockRead
<1> HIDE DEF read
<1>5. new \in ProxyState
  BY <1>4, StateTypes DEF ProxyState
<1>6. backlog' \in [Clusters -> Seq(Help)]
  BY <1>1 DEF TypeOK
<1> HIDE DEF new
<1> QED
  BY <1>1, <1>2, <1>5, <1>6, ProxyStepTypes

LEMMA IdleProxyType == IdleProxy \in ProxyState /\ IdleProxy.pc = "idle"
<1>1. 0 \in 0 .. NumClusters - 1 /\ {} \in Content
  BY RepairAssumption DEF Content
<1> QED
  BY <1>1 DEF IdleProxy, ProxyState

LEMMA ConnectToMainTypes ==
  ASSUME TypeOK, CallsOK, NEW c \in Clusters, ConnectToMain(c)
  PROVE  TypeOK' /\ CallsOK'
<1> DEFINE h    == Caller(c)
           help == [from |-> c, content |-> proxy[c].blocks[c]]
<1>1. /\ proxy[c].pc = "connect"
      /\ proxy' = [proxy EXCEPT ![c] = IdleProxy]
      /\ backlog' = [backlog EXCEPT ![MainCluster(h)] = Append(@, help)]
      /\ UNCHANGED <<where, disk, asks>>
  BY DEF ConnectToMain
<1>2. rpc[c] # <<>>
  BY <1>1 DEF CallsOK
<1>3. CallReturns(c)
  BY <1>2 DEF ConnectToMain, CallReturns
<1>4. MainCluster(h) \in Clusters
  BY <1>2, CallerWaits, JobTypes
<1>5. help \in Help
  BY StateTypes DEF ProxyState, Help
<1> HIDE DEF help
<1>6. backlog' \in [Clusters -> Seq(Help)]
  BY <1>1, <1>4, <1>5 DEF TypeOK
<1>7. proxy' \in [Clusters -> ProxyState]
  BY <1>1, IdleProxyType, OneProxyChanges
<1>8. TypeOK'
  BY <1>1, <1>3, <1>6, <1>7, CallReturnsTypes
     DEF TypeOK, ProxyState, HandlerState
<1>9. CallsOK'
  BY <1>1, <1>3, IdleProxyType, StateTypes, CallReturnsCalls
<1> QED
  BY <1>8, <1>9

LEMMA WrittenDisk ==
  ASSUME TypeOK, NEW s \in Stripes, NEW f \in Blocks, NEW new \in {"right", "wrong"},
         disk' = [disk EXCEPT ![s][f] = new]
  PROVE  /\ disk' \in [Stripes -> [Blocks -> {"right", "lost", "wrong"}]]
         /\ disk'[s][f] = new
         /\ \A r \in Stripes, i \in Blocks :
               <<r, i>> # <<s, f>> => disk'[r][i] = disk[r][i]
<1>1. /\ disk \in [Stripes -> [Blocks -> {"right", "lost", "wrong"}]]
      /\ disk[s] \in [Blocks -> {"right", "lost", "wrong"}]
  BY DEF TypeOK
<1>2. disk' = [disk EXCEPT ![s] = [disk[s] EXCEPT ![f] = new]]
  BY <1>1
<1>3. [disk[s] EXCEPT ![f] = new] \in [Blocks -> {"right", "lost", "wrong"}]
  BY <1>1
<1>4. disk' \in [Stripes -> [Blocks -> {"right", "lost", "wrong"}]]
  BY <1>1, <1>2, <1>3
<1>5. /\ disk'[s] = [disk[s] EXCEPT ![f] = new]
      /\ \A r \in Stripes \ {s} : disk'[r] = disk[r]
  BY <1>1, <1>2
<1> QED
  BY <1>1, <1>4, <1>5

LEMMA WriteRepairedTypes ==
  ASSUME TypeOK, CallsOK, NEW c \in Clusters, WriteRepaired(c)
  PROVE  TypeOK' /\ CallsOK'
<1>1. /\ proxy[c].pc = "write"
      /\ proxy' = [proxy EXCEPT ![c] = IdleProxy]
      /\ \E new \in {"right", "wrong"} :
            disk' = [disk EXCEPT ![Stripe(Caller(c))][Failed(Caller(c))] = new]
      /\ UNCHANGED <<where, backlog, asks>>
  BY DEF WriteRepaired
<1>2. rpc[c] # <<>>
  BY <1>1 DEF CallsOK
<1>3. CallReturns(c)
  BY <1>2 DEF WriteRepaired, CallReturns
<1>4. disk' \in [Stripes -> [Blocks -> {"right", "lost", "wrong"}]]
  BY <1>1, <1>2, CallerWaits, JobTypes, WrittenDisk
<1>5. proxy' \in [Clusters -> ProxyState]
  BY <1>1, IdleProxyType, OneProxyChanges
<1>6. TypeOK'
  BY <1>1, <1>3, <1>4, <1>5, CallReturnsTypes
     DEF TypeOK, ProxyState, HandlerState
<1>7. CallsOK'
  BY <1>1, <1>3, IdleProxyType, StateTypes, CallReturnsCalls
<1> QED
  BY <1>6, <1>7

LEMMA CacheRepairTypes ==
  ASSUME TypeOK, CallsOK, NEW c \in Clusters, CacheRepair(c)
  PROVE  TypeOK' /\ CallsOK'
<1>1. /\ proxy[c].pc = "idle"
      /\ \E new \in {"right", "wrong"} :
            disk' = [disk EXCEPT ![Stripe(Caller(c))][Failed(Caller(c))] = new]
      /\ UNCHANGED <<where, proxy, backlog, asks>>
  BY DEF CacheRepair
<1>2. CallReturns(c)
  BY DEF CacheRepair, CallReturns
<1>3. disk' \in [Stripes -> [Blocks -> {"right", "lost", "wrong"}]]
  BY <1>1, <1>2, CallerWaits, JobTypes, WrittenDisk DEF CallReturns
<1>4. TypeOK'
  BY <1>1, <1>2, <1>3, CallReturnsTypes DEF TypeOK, HandlerState
<1>5. CallsOK'
  BY <1>1, <1>2, CallReturnsCalls
<1> QED
  BY <1>4, <1>5

LEMMA InitTypes == Init => TypeOK /\ CallsOK
<1> SUFFICES ASSUME Init PROVE TypeOK /\ CallsOK
  OBVIOUS
<1>1. TypeOK
  <2>1. IdleHandler \in HandlerState
    BY DEF IdleHandler, HandlerState
  <2>2. /\ handler \in [Handlers -> HandlerState]
        /\ proxy \in [Clusters -> ProxyState]
    BY <2>1, IdleProxyType DEF Init
  <2>3. where \in [Stripes -> [Blocks -> Clusters]]
    BY RepairAssumption DEF Init
  <2> QED
    BY <2>2, <2>3, RepairAssumption DEF Init, TypeOK, HandlerState, ProxyState
<1>2. CallsOK
  BY NothingQueued, IdleProxyType DEF Init, CallsOK, IdleHandler
<1> QED
  BY <1>1, <1>2

LEMMA NextTypes ==
  ASSUME TypeOK, CallsOK, [Next]_vars
  PROVE  TypeOK' /\ CallsOK'
<1>1. ASSUME UNCHANGED vars PROVE TypeOK' /\ CallsOK'
  <2>1. TypeOK'
    BY <1>1 DEF vars, TypeOK
  <2>2. CallsOK'
    BY <1>1 DEF vars, CallsOK
  <2> QED
    BY <2>1, <2>2
<1>2. ASSUME NEW h \in Handlers, HandlerStep(h) PROVE TypeOK' /\ CallsOK'
  BY <1>2, PlanRepairTypes, CallProxyTypes DEF HandlerStep
<1>3. ASSUME NEW c \in Clusters, ProxyStep(c) PROVE TypeOK' /\ CallsOK'
  BY <1>3, CacheRepairTypes, BeginCallTypes, EnterAcceptTypes,
     AcceptHelpTypes, StoreHelpTypes, JoinOuterTypes, ReadInnerTypes,
     ConnectToMainTypes, WriteRepairedTypes DEF ProxyStep
<1> QED
  BY <1>1, <1>2, <1>3, AskForRepairTypes DEF Next, Finished

\* Types and calls, with any number of handlers: no repair ever waits for a
\* call that was not made, and no proxy works without one.
THEOREM RepairTypes == Spec => []TypeOK
<1>1. Init => TypeOK /\ CallsOK
  BY InitTypes
<1>2. TypeOK /\ CallsOK /\ [Next]_vars => (TypeOK /\ CallsOK)'
  BY NextTypes
<1> QED
  BY <1>1, <1>2, PTL DEF Spec

-----------------------------------------------------------------------------
\* The plans, with any number of handlers.

PlansOK ==
    \A h \in Handlers : handler[h].job # None =>
        handler[h].reads \in Plans(where[Stripe(h)], Failed(h))

\* A step gives a handler a new plan, or keeps its job and plan, or ends the job.
LEMMA PlansStay ==
  ASSUME PlansOK, where' = where,
         \A h \in Handlers :
            \/ handler'[h].job = None
            \/ /\ handler'[h].job = handler[h].job
               /\ handler'[h].reads = handler[h].reads
            \/ LET job == handler'[h].job
               IN  handler'[h].reads \in Plans(where[job[1]], job[2])
  PROVE  PlansOK'
<1> SUFFICES ASSUME NEW h \in Handlers, handler'[h].job # None
             PROVE  handler'[h].reads
                       \in Plans(where'[Stripe(h)'], Failed(h)')
  BY DEF PlansOK
<1>1. CASE /\ handler'[h].job = handler[h].job
           /\ handler'[h].reads = handler[h].reads
  BY <1>1 DEF PlansOK, Stripe, Failed
<1>2. CASE LET job == handler'[h].job
           IN  handler'[h].reads \in Plans(where[job[1]], job[2])
  BY <1>2 DEF Stripe, Failed
<1> QED
  BY <1>1, <1>2

LEMMA NextPlans ==
  ASSUME TypeOK, CallsOK, PlansOK, [Next]_vars
  PROVE  PlansOK'
<1> DEFINE Same(g) == /\ handler'[g].job = handler[g].job
                      /\ handler'[g].reads = handler[g].reads
<1>1. handler \in [Handlers -> HandlerState]
  BY StateTypes
<1>2. ASSUME NEW h \in Handlers, NEW failed \in NodeBlocks,
             AskForRepair(h, failed)
      PROVE  PlansOK'
  <2>1. where' = where /\ \A g \in Handlers : Same(g)
    BY <1>1, <1>2 DEF AskForRepair, HandlerState
  <2> QED
    BY <2>1, PlansStay
<1>3. ASSUME NEW h \in Handlers, NEW job \in handler[h].todo,
             NEW reads \in Plans(where[job[1]], job[2]),
             PlanRepair(h, job, reads)
      PROVE  PlansOK'
  <2>1. /\ where' = where
        /\ handler'[h].job = job /\ handler'[h].reads = reads
        /\ \A g \in Handlers \ {h} : Same(g)
    BY <1>1, <1>3 DEF PlanRepair
  <2> QED
    BY <2>1, PlansStay
<1>4. ASSUME NEW h \in Handlers, NEW c \in Clusters, CallProxy(h, c)
      PROVE  PlansOK'
  <2>1. where' = where /\ \A g \in Handlers : Same(g)
    BY <1>1, <1>4 DEF CallProxy, HandlerState
  <2> QED
    BY <2>1, PlansStay
<1>5. ASSUME NEW c \in Clusters, CallReturns(c), where' = where
      PROVE  PlansOK'
  <2>1. Caller(c) \in Handlers
    BY <1>5, CallerWaits DEF CallReturns
  <2>2. /\ handler'[Caller(c)] = Returned(Caller(c), c)
        /\ \A g \in Handlers \ {Caller(c)} : handler'[g] = handler[g]
    BY <1>1, <1>5, <2>1 DEF CallReturns
  <2>3. handler'[Caller(c)].job = None \/ Same(Caller(c))
    BY <1>5, <2>2, ReturnedState DEF CallReturns
  <2> QED
    BY <1>5, <2>2, <2>3, PlansStay
<1>6. ASSUME NEW c \in Clusters, ProxyStep(c)
      PROVE  PlansOK'
  <2>1. CASE CacheRepair(c) \/ ConnectToMain(c) \/ WriteRepaired(c)
    <3>1. CallReturns(c) /\ where' = where
      BY <2>1 DEF CacheRepair, ConnectToMain, WriteRepaired, CallReturns, CallsOK
    <3> QED
      BY <1>5, <3>1
  <2>2. CASE handler' = handler /\ where' = where
    BY <2>2, PlansStay
  <2> QED
    BY <1>6, <2>1, <2>2
       DEF ProxyStep, BeginCall, EnterAccept, AcceptHelp, StoreHelp, JoinOuter,
           ReadInner
<1>7. ASSUME UNCHANGED vars PROVE PlansOK'
  BY <1>7, PlansStay DEF vars
<1> QED
  BY <1>2, <1>3, <1>4, <1>6, <1>7 DEF Next, HandlerStep, Finished

\* Reading first in the failed block's cluster and then where most live blocks
\* are involves as few other clusters as any k of the live blocks would, for
\* every placement and with any number of handlers.
THEOREM FewestAreRead == Spec => []FewestClusters
<1>1. Init => TypeOK /\ CallsOK /\ PlansOK
  BY InitTypes DEF Init, PlansOK, IdleHandler
<1>2. TypeOK /\ CallsOK /\ PlansOK /\ [Next]_vars
         => (TypeOK /\ CallsOK /\ PlansOK)'
  BY NextTypes, NextPlans
<1>3. TypeOK /\ PlansOK => FewestClusters
  <2> SUFFICES ASSUME TypeOK, PlansOK, NEW h \in Handlers,
                      handler[h].job # None, ~IsCached(Failed(h)),
                      Failed(h) >= K,
                      NEW other \in SUBSET LiveBlocks(Failed(h)),
                      Cardinality(other) = K
               PROVE  Cardinality(Helpers(h)) <=
                         Cardinality(Span(where[Stripe(h)], Failed(h), other)) - 1
    BY DEF FewestClusters
  <2> DEFINE w == where[Stripe(h)]
             f == Failed(h)
             D == Span(w, f, handler[h].reads)
  <2>1. f \in Blocks /\ w \in [Blocks -> Clusters] /\ IsFiniteSet(Clusters)
    BY JobTypes, ClustersAreFinite
  <2>2. handler[h].reads \in GlobalReads(w, f)
    <3>1. ~(f < K)
      BY <2>1, StripeAssumption DEF Blocks, NumBlocks
    <3> QED
      BY <3>1 DEF PlansOK, Plans
  <2>3. Cardinality(D) <= Cardinality(Span(w, f, other))
    BY <2>1, <2>2, WalkNeedsFewest
  <2>4. handler[h].reads \subseteq Blocks /\ other \subseteq Blocks
    BY JobTypes, LiveBlocksAreFinite, <2>1
  <2>5. /\ IsFiniteSet(D) /\ w[f] \in D /\ Cardinality(D) \in Nat
        /\ Cardinality(Span(w, f, other)) \in Nat
    BY <2>1, <2>4, SpanIsFinite
  <2>6. Helpers(h) = D \ {w[f]}
    BY DEF Helpers, MainCluster
  <2> HIDE DEF D, w, f
  <2>7. Cardinality(D \ {w[f]}) = Cardinality(D) - 1
    BY <2>5, FS_RemoveElement
  <2> QED
    BY <2>3, <2>5, <2>6, <2>7 DEF f, w
<1> QED
  BY <1>1, <1>2, <1>3, PTL DEF Spec

-----------------------------------------------------------------------------
\* One handler.

LEMMA HelpsDiffer ==
  ASSUME NEW h, NEW c, NEW d, HelpOf(h, c) = HelpOf(h, d)
  PROVE  c = d
  BY DEF HelpOf

\* What is said of a job depends on its stripe, its plan and the placement.
LEMMA SameJob ==
  ASSUME NEW h, where' = where,
         handler'[h].job = handler[h].job, handler'[h].reads = handler[h].reads
  PROVE  /\ Stripe(h)' = Stripe(h)
         /\ Failed(h)' = Failed(h)
         /\ MainCluster(h)' = MainCluster(h)
         /\ Helpers(h)' = Helpers(h)
         /\ \A c : Part(h, c)' = Part(h, c)
         /\ \A c : HelpOf(h, c)' = HelpOf(h, c)
<1>1. Stripe(h)' = Stripe(h) /\ Failed(h)' = Failed(h)
  BY DEF Stripe, Failed
<1>2. MainCluster(h)' = MainCluster(h)
  BY <1>1 DEF MainCluster
<1>3. Helpers(h)' = Helpers(h)
  BY <1>1, <1>2 DEF Helpers, Span
<1>4. \A c : Part(h, c)' = Part(h, c)
  BY <1>1 DEF Part
<1>5. \A c : HelpOf(h, c)' = HelpOf(h, c)
  BY <1>4 DEF HelpOf
<1> QED
  BY <1>1, <1>2, <1>3, <1>4, <1>5

\* A part of a job changes only when its variables do.
LEMMA SameTaken ==
  ASSUME NEW h, where' = where, handler'[h].job = handler[h].job,
         handler'[h].reads = handler[h].reads,
         handler'[h].waiting = handler[h].waiting,
         backlog'[MainCluster(h)] = backlog[MainCluster(h)]
  PROVE  /\ Taken(h)' = Taken(h)
         /\ BacklogOK(h)' <=> BacklogOK(h)
         /\ proxy'[MainCluster(h)] = proxy[MainCluster(h)]
               => (MainOK(h)' <=> MainOK(h))
<1>1. Taken(h)' = Taken(h)
  BY SameJob DEF Taken
<1>2. BacklogOK(h)' <=> BacklogOK(h)
  BY SameJob DEF BacklogOK
<1>3. ASSUME proxy'[MainCluster(h)] = proxy[MainCluster(h)]
      PROVE  MainOK(h)' <=> MainOK(h)
  BY <1>1, <1>3, SameJob DEF MainOK, MainState
<1> QED
  BY <1>1, <1>2, <1>3

\* The main proxy after a step.
LEMMA MainAfter ==
  ASSUME NEW h, where' = where,
         handler'[h].job = handler[h].job, handler'[h].reads = handler[h].reads,
         MainState(h, proxy'[MainCluster(h)], Taken(h)')
  PROVE  MainOK(h)'
  BY SameJob DEF MainOK, MainState

LEMMA SameHelper ==
  ASSUME NEW h, where' = where, handler'[h].job = handler[h].job,
         handler'[h].reads = handler[h].reads,
         NEW c, backlog'[c] = backlog[c], proxy'[c] = proxy[c], HelperOK(h, c)
  PROVE  HelperOK(h, c)'
<1>1. Part(h, c)' = Part(h, c)
  BY SameJob
<1> QED
  BY <1>1 DEF HelperOK

\* What a helper's proxy may be.
LEMMA HelperStates ==
  ASSUME NEW h, NEW c \in Clusters, HelperOK(h, c)
  PROVE  /\ proxy[c].pc \in {"idle", "inner", "connect"}
         /\ proxy[c].to_accept = 0
         /\ ~proxy[c].accepting
         /\ proxy[c].received = {}
         /\ proxy[c].pc = "idle" => proxy[c] = IdleProxy
         /\ proxy[c].pc = "inner" => proxy[c] = [IdleProxy EXCEPT !.pc = "inner"]
         /\ proxy[c].pc = "connect" => proxy[c].blocks[c] = Part(h, c)
<1>1. CASE proxy[c] = IdleProxy
  BY <1>1 DEF IdleProxy
<1>2. CASE proxy[c] = [IdleProxy EXCEPT !.pc = "inner"]
  BY <1>2 DEF IdleProxy
<1>3. CASE proxy[c] = [IdleProxy EXCEPT !.pc = "connect", !.blocks[c] = Part(h, c)]
  BY <1>3 DEF IdleProxy
<1> QED
  BY <1>1, <1>2, <1>3 DEF HelperOK

\* DiskOK depends on the disks and on what is to be repaired.
LEMMA SameDisk ==
  ASSUME DiskOK, disk' = disk, \A h \in Handlers : Jobs(h)' = Jobs(h)
  PROVE  DiskOK'
  BY DEF DiskOK

LEMMA SameJobs ==
  ASSUME NEW h, handler'[h].job = handler[h].job, handler'[h].todo = handler[h].todo
  PROVE  Jobs(h)' = Jobs(h)
  BY DEF Jobs

\* The step of the main proxy alone.
LEMMA MainStep ==
  ASSUME IInv, NEW h, Handlers = {h}, handler[h].job # None, TypeOK',
         UNCHANGED <<where, disk, handler, rpc, asks>>,
         \A c \in Clusters \ {MainCluster(h)} :
            proxy'[c] = proxy[c] /\ backlog'[c] = backlog[c],
         BacklogOK(h)', MainOK(h)'
  PROVE  NothingLeftBehind' /\ JobsOK' /\ DiskOK'
<1>1. /\ JobOK(h)
      /\ handler' = handler /\ where' = where
  BY DEF IInv, JobsOK
<1>2. JobOK(h)'
  <2>1. \A c \in Clusters \ {MainCluster(h)} : HelperOK(h, c)'
    BY <1>1, SameHelper DEF JobOK
  <2> QED
    BY <1>1, <2>1, SameJob DEF JobOK
<1>3. NothingLeftBehind'
  BY DEF NothingLeftBehind
<1>4. DiskOK'
  BY SameDisk, SameJobs DEF IInv
<1> QED
  BY <1>2, <1>3, <1>4 DEF JobsOK

\* The step of a helper's proxy alone.
LEMMA HelperStep ==
  ASSUME IInv, NEW h, Handlers = {h}, handler[h].job # None, TypeOK',
         UNCHANGED <<where, disk, handler, rpc, backlog, asks>>,
         NEW c \in Clusters \ {MainCluster(h)},
         \A d \in Clusters \ {c} : proxy'[d] = proxy[d],
         HelperOK(h, c)'
  PROVE  NothingLeftBehind' /\ JobsOK' /\ DiskOK'
<1>1. /\ JobOK(h)
      /\ handler' = handler /\ where' = where /\ backlog' = backlog
      /\ MainCluster(h) \in Clusters
  BY JobTypes DEF IInv, JobsOK
<1>2. JobOK(h)'
  <2>1. \A d \in Clusters \ {MainCluster(h)} : HelperOK(h, d)'
    BY <1>1, SameHelper DEF JobOK
  <2>2. BacklogOK(h)' /\ MainOK(h)'
    BY <1>1, SameTaken DEF JobOK
  <2> QED
    BY <1>1, <2>1, <2>2, SameJob DEF JobOK
<1>3. NothingLeftBehind'
  BY DEF NothingLeftBehind
<1>4. DiskOK'
  BY SameDisk, SameJobs DEF IInv
<1> QED
  BY <1>2, <1>3, <1>4 DEF JobsOK

\* A proxy that is not idle works for the job; which part of the work it is
\* at says whether it is the main proxy.
LEMMA WorkIsForJob ==
  ASSUME IInv, NEW h, Handlers = {h}, NEW c \in Clusters,
         proxy[c] # IdleProxy
  PROVE  /\ handler[h].job # None
         /\ JobOK(h)
         /\ proxy[c].pc \in {"outer", "write"} \/ proxy[c].to_accept > 0
               \/ proxy[c].accepting \/ proxy[c].received # {}
            => c = MainCluster(h)
         /\ proxy[c].pc = "connect" => c # MainCluster(h)
<1>1. handler[h].job # None
  BY DEF IInv, NothingLeftBehind
<1>2. JobOK(h)
  BY <1>1 DEF IInv, JobsOK
<1>3. ASSUME c # MainCluster(h)
      PROVE  /\ proxy[c].pc \in {"idle", "inner", "connect"}
             /\ proxy[c].to_accept = 0
             /\ ~proxy[c].accepting
             /\ proxy[c].received = {}
  BY <1>2, <1>3, HelperStates DEF JobOK
<1>4. c = MainCluster(h) => proxy[c].pc # "connect"
  BY <1>2 DEF JobOK, MainOK, MainState
<1> QED
  BY <1>1, <1>2, <1>3, <1>4

\* The main proxy while it is accepting its helpers.
LEMMA MainIsOuter ==
  ASSUME IInv, NEW h, Handlers = {h}, NEW c \in Clusters,
         proxy[c].to_accept > 0 \/ proxy[c].accepting \/ proxy[c].received # {}
  PROVE  /\ handler[h].job # None
         /\ JobOK(h)
         /\ c = MainCluster(h)
         /\ proxy[c].pc = "outer"
<1>1. proxy[c] # IdleProxy
  BY DEF IdleProxy
<1>2. handler[h].job # None /\ JobOK(h) /\ c = MainCluster(h)
  BY <1>1, WorkIsForJob
<1>3. proxy[c].pc = "outer"
  BY <1>1, <1>2 DEF JobOK, MainOK, MainState
<1> QED
  BY <1>2, <1>3

-----------------------------------------------------------------------------
\* The steps of the coordinator.

LEMMA AskForRepairInv ==
  ASSUME IInv, NEW h, Handlers = {h}, NEW failed \in NodeBlocks,
         AskForRepair(h, failed), TypeOK'
  PROVE  NothingLeftBehind' /\ JobsOK' /\ DiskOK'
<1>1. /\ handler[h] = IdleHandler
      /\ handler' = [handler EXCEPT ![h].todo = failed]
      /\ handler \in [Handlers -> HandlerState]
      /\ failed \subseteq Stripes \X Blocks
      /\ OnOneNode(failed)
      /\ UNCHANGED <<rpc, proxy, backlog>>
  BY StateTypes, RepairAssumption DEF AskForRepair, Idle, IInv
<1>2. /\ handler'[h].job = None /\ handler'[h].todo = failed
      /\ handler[h].job = None /\ handler[h].todo = {}
  BY <1>1 DEF HandlerState, IdleHandler
<1>3. Jobs(h) = {} /\ Jobs(h)' = failed
  BY <1>2 DEF Jobs
<1>4. NothingLeftBehind'
  BY <1>1, <1>2 DEF IInv, NothingLeftBehind
<1>5. ASSUME NEW s \in Stripes, NEW i \in Blocks
      PROVE  disk[s][i] = "right"
  <2>1. disk[s][i] # "wrong" /\ disk[s][i] # "lost"
    BY <1>3 DEF IInv, DiskOK
  <2>2. disk[s][i] \in {"right", "lost", "wrong"}
    BY DEF IInv, TypeOK
  <2> QED
    BY <2>1, <2>2
<1>6. DiskOK'
  <2>1. ASSUME NEW s \in Stripes, NEW i \in Blocks
        PROVE  /\ disk'[s][i] # "wrong"
               /\ disk'[s][i] = "lost" => <<s, i>> \in failed
    <3>1. CASE BlocksLost
      BY <1>5, <3>1 DEF AskForRepair
    <3>2. CASE ~BlocksLost
      BY <1>5, <3>2 DEF AskForRepair
    <3> QED
      BY <3>1, <3>2
  <2>2. \A x, y \in failed : x[1] = y[1] => x = y
    BY <1>1 DEF OnOneNode
  <2> QED
    BY <1>3, <2>1, <2>2 DEF DiskOK
<1> QED
  BY <1>2, <1>4, <1>6 DEF JobsOK

LEMMA PlanRepairInv ==
  ASSUME IInv, NEW h, Handlers = {h}, NEW job \in handler[h].todo,
         NEW reads \in Plans(where[job[1]], job[2]), PlanRepair(h, job, reads),
         TypeOK'
  PROVE  NothingLeftBehind' /\ JobsOK' /\ DiskOK'
<1> DEFINE span == Span(where[job[1]], job[2], reads)
<1>1. /\ handler[h].job = None
      /\ handler \in [Handlers -> HandlerState]
      /\ job \in Stripes \X Blocks
      /\ job # None
      /\ handler' = [handler EXCEPT ![h] =
            [todo |-> handler[h].todo \ {job}, job |-> job, reads |-> reads,
             to_call |-> span, waiting |-> span]]
      /\ UNCHANGED <<where, disk, rpc, proxy, backlog>>
  BY StateTypes, RepairAssumption DEF IInv, PlanRepair, HandlerState
<1>2. /\ handler'[h].job = job
      /\ handler'[h].todo = handler[h].todo \ {job}
      /\ handler'[h].reads = reads
      /\ handler'[h].waiting = span
  BY <1>1
<1>3. \A c \in Clusters : backlog'[c] = <<>> /\ proxy'[c] = IdleProxy
  BY <1>1 DEF IInv, NothingLeftBehind
<1>4. /\ Stripe(h)' = job[1]
      /\ Failed(h)' = job[2]
      /\ MainCluster(h)' = where[job[1]][job[2]]
      /\ Helpers(h)' = span \ {MainCluster(h)'}
      /\ MainCluster(h)' \in span
      /\ MainCluster(h)' \in Clusters
  <2>1. Stripe(h)' = job[1] /\ Failed(h)' = job[2]
    BY <1>2 DEF Stripe, Failed
  <2>2. MainCluster(h)' = where[job[1]][job[2]]
    BY <1>1, <2>1 DEF MainCluster
  <2>3. Helpers(h)' = span \ {MainCluster(h)'}
    BY <1>1, <1>2, <2>1 DEF Helpers
  <2>4. MainCluster(h)' \in span /\ MainCluster(h)' \in Clusters
    BY <1>1, <2>2 DEF Span, IInv, TypeOK
  <2> QED
    BY <2>1, <2>2, <2>3, <2>4
<1>5. JobOK(h)'
  <2>1. handler'[h].reads \in Plans(where'[Stripe(h)'], Failed(h)')
    BY <1>1, <1>2, <1>4
  <2>2. \A c \in Clusters \ {MainCluster(h)'} : HelperOK(h, c)'
    BY <1>3 DEF HelperOK
  <2>3. BacklogOK(h)'
    BY <1>3, <1>4, NothingQueued DEF BacklogOK
  <2>4. Taken(h)' = {}
    BY <1>2, <1>4 DEF Taken
  <2>5. MainOK(h)'
    <3>1. proxy'[MainCluster(h)'] = IdleProxy
      BY <1>3, <1>4
    <3> QED
      BY <1>4, <2>4, <3>1 DEF MainOK, MainState, IdleProxy
  <2> QED
    BY <1>2, <1>4, <2>1, <2>2, <2>3, <2>5 DEF JobOK
<1>6. Jobs(h)' = Jobs(h)
  BY <1>1, <1>2 DEF Jobs
<1>7. DiskOK'
  BY <1>1, <1>6, SameDisk DEF IInv
<1>8. NothingLeftBehind'
  BY <1>1, <1>2 DEF NothingLeftBehind
<1> QED
  BY <1>5, <1>7, <1>8 DEF JobsOK

LEMMA CallProxyInv ==
  ASSUME IInv, NEW h, Handlers = {h}, NEW c \in Clusters, CallProxy(h, c),
         TypeOK'
  PROVE  NothingLeftBehind' /\ JobsOK' /\ DiskOK'
<1>1. /\ handler'[h] = [handler[h] EXCEPT !.to_call = @ \ {c}]
      /\ c \in handler[h].waiting
      /\ handler[h] \in HandlerState
      /\ UNCHANGED <<where, disk, proxy, backlog>>
  BY CallProxyTypes, StateTypes DEF IInv, CallProxy
<1>2. /\ handler'[h].job = handler[h].job
      /\ handler'[h].reads = handler[h].reads
      /\ handler'[h].waiting = handler[h].waiting
      /\ handler'[h].todo = handler[h].todo
      /\ handler[h].job # None
  BY <1>1 DEF HandlerState, IInv, CallsOK
<1>3. JobOK(h)
  BY <1>2 DEF IInv, JobsOK
<1>4. JobOK(h)'
  <2>1. \A d \in Clusters \ {MainCluster(h)} : HelperOK(h, d)'
    BY <1>1, <1>2, <1>3, SameHelper DEF JobOK
  <2>2. BacklogOK(h)' /\ MainOK(h)'
    BY <1>1, <1>2, <1>3, SameTaken DEF JobOK
  <2> QED
    BY <1>1, <1>2, <1>3, <2>1, <2>2, SameJob DEF JobOK
<1>5. DiskOK'
  BY <1>1, <1>2, SameJobs, SameDisk DEF IInv
<1>6. NothingLeftBehind'
  BY <1>2 DEF NothingLeftBehind
<1> QED
  BY <1>4, <1>5, <1>6 DEF JobsOK

-----------------------------------------------------------------------------
\* The steps of the proxies that end no call.

LEMMA BeginCallInv ==
  ASSUME IInv, NEW h, Handlers = {h}, NEW c \in Clusters, BeginCall(c), TypeOK'
  PROVE  NothingLeftBehind' /\ JobsOK' /\ DiskOK'
<1>1. /\ Caller(c) = h
      /\ handler[h].job # None
      /\ proxy[c].pc = "idle"
      /\ UNCHANGED <<where, disk, handler, rpc, backlog, asks>>
      /\ proxy \in [Clusters -> ProxyState]
  BY CallerWaits, StateTypes DEF IInv, BeginCall
<1>2. /\ JobOK(h)
      /\ MainCluster(h) \in Clusters
      /\ Cardinality(Helpers(h)) \in Nat
  BY <1>1, JobTypes DEF IInv, JobsOK
<1>3. CASE c = MainCluster(h)
  <2>1. proxy[c] = IdleProxy /\ Taken(h) = {} /\ BacklogOK(h) /\ MainOK(h)
    BY <1>1, <1>2, <1>3 DEF JobOK, MainOK, MainState
  <2>2. /\ proxy'[c] = [IdleProxy EXCEPT !.pc = "outer",
                                         !.to_accept = Cardinality(Helpers(h))]
        /\ \A d \in Clusters \ {c} : proxy'[d] = proxy[d]
    BY <1>1, <1>3, <2>1 DEF BeginCall
  <2>3. Taken(h)' = {} /\ BacklogOK(h)'
    BY <1>1, <2>1, SameTaken
  <2>4. MainOK(h)'
    <3>1. /\ proxy'[c].pc = "outer"
          /\ proxy'[c].to_accept = Cardinality(Helpers(h))
          /\ proxy'[c].accepting = FALSE
          /\ proxy'[c].received = {}
          /\ \A d \in Clusters : proxy'[c].blocks[d] = {}
      BY <2>2 DEF IdleProxy
    <3>2. Cardinality({}) = 0
      BY FS_EmptySet
    <3>3. MainState(h, proxy'[c], {})
      BY <1>2, <1>3, <3>1, <3>2 DEF MainState
    <3> QED
      BY <1>1, <1>3, <2>3, <3>3, MainAfter
  <2> QED
    BY <1>1, <1>3, <2>2, <2>3, <2>4, MainStep
<1>4. CASE c # MainCluster(h)
  <2>1. HelperOK(h, c)
    BY <1>2, <1>4 DEF JobOK
  <2>2. proxy[c] = IdleProxy
    BY <1>1, <2>1, HelperStates
  <2>3. /\ proxy'[c] = [IdleProxy EXCEPT !.pc = "inner"]
        /\ \A d \in Clusters \ {c} : proxy'[d] = proxy[d]
    BY <1>1, <1>4, <2>2 DEF BeginCall
  <2>4. HelperOK(h, c)'
    BY <1>1, <2>1, <2>3 DEF HelperOK
  <2> QED
    BY <1>1, <1>4, <2>3, <2>4, HelperStep
<1> QED
  BY <1>3, <1>4

LEMMA EnterAcceptInv ==
  ASSUME IInv, NEW h, Handlers = {h}, NEW c \in Clusters, EnterAccept(c), TypeOK'
  PROVE  NothingLeftBehind' /\ JobsOK' /\ DiskOK'
<1>1. /\ handler[h].job # None
      /\ JobOK(h)
      /\ c = MainCluster(h)
      /\ proxy[c].pc = "outer"
  BY MainIsOuter DEF EnterAccept
<1>2. /\ UNCHANGED <<where, disk, handler, rpc, backlog, asks>>
      /\ proxy[c] \in ProxyState
      /\ ~proxy[c].accepting
      /\ proxy'[c] = [proxy[c] EXCEPT !.to_accept = @ - 1, !.accepting = TRUE]
      /\ \A d \in Clusters \ {c} : proxy'[d] = proxy[d]
  BY StateTypes DEF IInv, EnterAccept, ProxyState
<1>3. Taken(h)' = Taken(h) /\ BacklogOK(h)' /\ MainOK(h)
  BY <1>1, <1>2, SameTaken DEF JobOK
<1>4. MainOK(h)'
  <2>1. /\ proxy'[c].pc = "outer"
        /\ proxy'[c].to_accept = proxy[c].to_accept - 1
        /\ proxy'[c].accepting = TRUE
        /\ proxy'[c].received = proxy[c].received
        /\ proxy'[c].blocks = proxy[c].blocks
    BY <1>1, <1>2 DEF ProxyState
  <2>2. proxy'[c].to_accept + 1 = proxy[c].to_accept + 0
    BY <1>2, <2>1 DEF ProxyState
  <2>3. MainState(h, proxy[c], Taken(h))
    BY <1>1, <1>3 DEF MainOK
  <2>4. MainState(h, proxy'[c], Taken(h))
    BY <1>1, <1>2, <2>1, <2>2, <2>3 DEF MainState
  <2> QED
    BY <1>1, <1>2, <1>3, <2>4, MainAfter
<1> QED
  BY <1>1, <1>2, <1>3, <1>4, MainStep

LEMMA TakenIsFinite ==
  ASSUME TypeOK, NEW h \in Handlers, handler[h].job # None
  PROVE  /\ IsFiniteSet(Taken(h))
         /\ Cardinality(Taken(h)) \in Nat
         /\ Cardinality(Taken(h)) = Cardinality(Helpers(h)) => Taken(h) = Helpers(h)
<1>1. Taken(h) \subseteq Helpers(h) /\ IsFiniteSet(Helpers(h))
  BY JobTypes DEF Taken
<1> QED
  BY <1>1, FS_Subset, FS_CardinalityType

LEMMA AcceptHelpInv ==
  ASSUME IInv, NEW h, Handlers = {h}, NEW c \in Clusters, AcceptHelp(c), TypeOK'
  PROVE  NothingLeftBehind' /\ JobsOK' /\ DiskOK'
<1>1. /\ handler[h].job # None
      /\ JobOK(h)
      /\ c = MainCluster(h)
      /\ proxy[c].pc = "outer"
  BY MainIsOuter DEF AcceptHelp
<1>2. /\ UNCHANGED <<where, disk, handler, rpc, asks>>
      /\ proxy[c] \in ProxyState
      /\ proxy[c].accepting
      /\ proxy'[c] = [proxy[c] EXCEPT !.accepting = FALSE,
                                      !.received = @ \cup {Head(backlog[c])}]
      /\ \A d \in Clusters \ {c} : proxy'[d] = proxy[d] /\ backlog'[d] = backlog[d]
      /\ backlog[c] # <<>>
      /\ backlog[c] \in Seq(Help)
      /\ backlog'[c] = Tail(backlog[c])
  BY StateTypes DEF IInv, AcceptHelp, ProxyState, TypeOK
<1>3. /\ NoneTwice(backlog[c])
      /\ Queued(backlog[c]) \subseteq
            {HelpOf(h, d) : d \in Helpers(h) \ handler[h].waiting}
  BY <1>1 DEF JobOK, BacklogOK
<1>4. /\ Head(backlog[c]) \in Queued(backlog[c])
      /\ NoneTwice(backlog'[c])
      /\ Queued(backlog'[c]) = Queued(backlog[c]) \ {Head(backlog[c])}
  BY <1>2, <1>3, QueueTail
<1>5. PICK d \in Helpers(h) \ handler[h].waiting : Head(backlog[c]) = HelpOf(h, d)
  BY <1>3, <1>4
<1>6. d \notin Taken(h)
  BY <1>1, <1>4, <1>5 DEF Taken
<1>7. Taken(h)' = Taken(h) \cup {d}
  <2>1. Taken(h)' = {e \in Helpers(h) \ handler[h].waiting :
                        HelpOf(h, e) \notin Queued(backlog'[c])}
    BY <1>1, <1>2, SameJob DEF Taken
  <2>2. \A e : HelpOf(h, e) = HelpOf(h, d) <=> e = d
    BY HelpsDiffer
  <2> QED
    BY <1>1, <1>4, <1>5, <2>1, <2>2 DEF Taken
<1>8. BacklogOK(h)'
  BY <1>1, <1>2, <1>3, <1>4, SameJob DEF BacklogOK
<1>9. MainOK(h)'
  <2>1. /\ proxy'[c].pc = "outer"
        /\ proxy'[c].to_accept = proxy[c].to_accept
        /\ proxy'[c].accepting = FALSE
        /\ proxy'[c].received = proxy[c].received \cup {HelpOf(h, d)}
        /\ proxy'[c].blocks = proxy[c].blocks
        /\ proxy[c].to_accept \in Nat
    BY <1>1, <1>2, <1>5 DEF ProxyState
  <2>2. Cardinality(Taken(h) \cup {d}) = Cardinality(Taken(h)) + 1
        /\ Cardinality(Taken(h)) \in Nat
    BY <1>1, <1>6, TakenIsFinite, FS_AddElement DEF IInv
  <2>3. MainState(h, proxy[c], Taken(h))
    BY <1>1 DEF JobOK, MainOK
  <2>4. proxy'[c].to_accept + 0 + Cardinality(Taken(h) \cup {d})
            = Cardinality(Helpers(h))
    <3>1. proxy[c].to_accept + 1 + Cardinality(Taken(h)) = Cardinality(Helpers(h))
      BY <1>1, <1>2, <2>3 DEF MainState
    <3> QED
      BY <2>1, <2>2, <3>1
  <2>5. proxy'[c].received \subseteq {HelpOf(h, e) : e \in Taken(h) \cup {d}}
    BY <2>1, <2>3 DEF MainState
  <2>6. ASSUME NEW e \in Clusters \ {c}
        PROVE  proxy'[c].blocks[e] =
                   IF e \in Taken(h) \cup {d} /\ HelpOf(h, e) \notin proxy'[c].received
                   THEN Part(h, e) ELSE {}
    <3>1. HelpOf(h, e) = HelpOf(h, d) => e = d
      BY HelpsDiffer
    <3>2. proxy[c].blocks[e] =
              IF e \in Taken(h) /\ HelpOf(h, e) \notin proxy[c].received
              THEN Part(h, e) ELSE {}
      BY <1>1, <2>3 DEF MainState
    <3> QED
      BY <1>6, <2>1, <3>1, <3>2
  <2>7. proxy'[c].blocks[c] = {}
    BY <1>1, <2>1, <2>3 DEF MainState
  <2>8. MainState(h, proxy'[c], Taken(h) \cup {d})
    BY <1>1, <2>1, <2>4, <2>5, <2>6, <2>7 DEF MainState
  <2> QED
    BY <1>1, <1>2, <1>7, <2>8, MainAfter
<1> QED
  BY <1>1, <1>2, <1>8, <1>9, MainStep

LEMMA StoreHelpInv ==
  ASSUME IInv, NEW h, Handlers = {h}, NEW c \in Clusters,
         NEW help \in proxy[c].received, StoreHelp(c, help), TypeOK'
  PROVE  NothingLeftBehind' /\ JobsOK' /\ DiskOK'
<1>1. /\ handler[h].job # None
      /\ JobOK(h)
      /\ c = MainCluster(h)
      /\ proxy[c].pc = "outer"
  BY MainIsOuter
<1>2. /\ UNCHANGED <<where, disk, handler, rpc, backlog, asks>>
      /\ proxy[c] \in ProxyState
      /\ proxy'[c] = [proxy[c] EXCEPT !.received = @ \ {help},
                                      !.blocks[help.from] = help.content]
      /\ \A d \in Clusters \ {c} : proxy'[d] = proxy[d]
  BY StateTypes DEF IInv, StoreHelp, ProxyState
<1>3. MainState(h, proxy[c], Taken(h)) /\ BacklogOK(h)
  BY <1>1 DEF JobOK, MainOK
<1>4. Taken(h)' = Taken(h) /\ BacklogOK(h)'
  BY <1>1, <1>2, <1>3, SameTaken
<1>5. PICK d \in Taken(h) : help = HelpOf(h, d)
  BY <1>3 DEF MainState
<1>6. d \in Clusters /\ d # c
  BY <1>1, JobTypes DEF IInv, Taken
<1>7. /\ proxy'[c].pc = proxy[c].pc
      /\ proxy'[c].to_accept = proxy[c].to_accept
      /\ proxy'[c].accepting = proxy[c].accepting
      /\ proxy'[c].received = proxy[c].received \ {help}
      /\ proxy'[c].blocks[d] = Part(h, d)
      /\ \A e \in Clusters \ {d} : proxy'[c].blocks[e] = proxy[c].blocks[e]
  BY <1>2, <1>5, <1>6 DEF ProxyState, HelpOf
<1>8. ASSUME NEW e \in Clusters \ {c}
      PROVE  proxy'[c].blocks[e] =
                 IF e \in Taken(h) /\ HelpOf(h, e) \notin proxy'[c].received
                 THEN Part(h, e) ELSE {}
  <2>1. HelpOf(h, e) = HelpOf(h, d) => e = d
    BY HelpsDiffer
  <2>2. proxy[c].blocks[e] =
            IF e \in Taken(h) /\ HelpOf(h, e) \notin proxy[c].received
            THEN Part(h, e) ELSE {}
    BY <1>1, <1>3 DEF MainState
  <2> QED
    BY <1>5, <1>7, <2>1, <2>2
<1>9. proxy'[c].blocks[c] = {}
  BY <1>1, <1>3, <1>6, <1>7 DEF MainState
<1>10. MainState(h, proxy'[c], Taken(h))
  BY <1>1, <1>3, <1>7, <1>8, <1>9 DEF MainState
<1>11. MainOK(h)'
  BY <1>1, <1>2, <1>4, <1>10, MainAfter
<1> QED
  BY <1>1, <1>2, <1>4, <1>11, MainStep

\* When all its threads are joined the main proxy has the part of every
\* helper: none is waited for any more.
LEMMA JoinOuterInv ==
  ASSUME IInv, NEW h, Handlers = {h}, NEW c \in Clusters, JoinOuter(c), TypeOK'
  PROVE  NothingLeftBehind' /\ JobsOK' /\ DiskOK'
<1>1. /\ UNCHANGED <<where, disk, handler, rpc, backlog, asks>>
      /\ proxy[c] \in ProxyState
      /\ proxy[c].pc = "outer" /\ proxy[c].to_accept = 0
      /\ ~proxy[c].accepting /\ proxy[c].received = {}
      /\ proxy'[c] = [proxy[c] EXCEPT !.pc = "inner"]
      /\ \A d \in Clusters \ {c} : proxy'[d] = proxy[d]
  BY StateTypes DEF IInv, JoinOuter
<1>2. proxy[c] # IdleProxy
  BY <1>1 DEF IdleProxy
<1>3. handler[h].job # None /\ JobOK(h) /\ c = MainCluster(h)
  BY <1>1, <1>2, WorkIsForJob
<1>4. MainState(h, proxy[c], Taken(h)) /\ BacklogOK(h)
  BY <1>3 DEF JobOK, MainOK
<1>5. Taken(h)' = Taken(h) /\ BacklogOK(h)'
  BY <1>1, <1>3, <1>4, SameTaken
<1>6. Taken(h) = Helpers(h)
  <2>1. 0 + 0 + Cardinality(Taken(h)) = Cardinality(Helpers(h))
    BY <1>1, <1>4 DEF MainState
  <2> QED
    BY <1>3, <2>1, TakenIsFinite DEF IInv
<1>7. /\ proxy'[c].pc = "inner"
      /\ proxy'[c].to_accept = 0
      /\ ~proxy'[c].accepting
      /\ proxy'[c].received = {}
      /\ proxy'[c].blocks = proxy[c].blocks
  BY <1>1 DEF ProxyState
<1>8. MainState(h, proxy'[c], Taken(h))
  BY <1>1, <1>3, <1>4, <1>6, <1>7 DEF MainState
<1>9. MainOK(h)'
  BY <1>1, <1>3, <1>5, <1>8, MainAfter
<1> QED
  BY <1>1, <1>3, <1>5, <1>9, MainStep

\* What is read for a repair is there: the plan leaves the failed block out,
\* and no other block of the stripe is missing.
LEMMA ReadsAreRight ==
  ASSUME IInv, NEW h, Handlers = {h}, handler[h].job # None, JobOK(h),
         NEW i \in handler[h].reads
  PROVE  BlockRead(Stripe(h), i) = <<Stripe(h), i>>
<1>1. /\ handler[h].job = <<Stripe(h), Failed(h)>>
      /\ Stripe(h) \in Stripes /\ Failed(h) \in Blocks /\ i \in Blocks
      /\ where[Stripe(h)] \in [Blocks -> Clusters]
  BY JobTypes DEF IInv
<1>2. CASE IsCached(i)
  BY <1>2 DEF BlockRead
<1>3. CASE ~IsCached(i)
  <2>1. i # Failed(h)
    BY <1>1, <1>3, PlansDetermine DEF JobOK
  <2>2. disk[Stripe(h)][i] # "lost"
    <3>1. SUFFICES ASSUME disk[Stripe(h)][i] = "lost" PROVE FALSE
      OBVIOUS
    <3>2. PICK g \in Handlers : <<Stripe(h), i>> \in Jobs(g)
      BY <1>1, <3>1 DEF IInv, DiskOK
    <3>3. g = h
      OBVIOUS
    <3>4. <<Stripe(h), Failed(h)>> \in Jobs(h)
      BY <1>1 DEF Jobs
    <3> QED
      BY <2>1, <3>2, <3>3, <3>4 DEF IInv, DiskOK
  <2>3. disk[Stripe(h)][i] = "right"
    <3>1. disk[Stripe(h)][i] \in {"right", "lost", "wrong"}
      BY <1>1 DEF IInv, TypeOK
    <3>2. disk[Stripe(h)][i] # "wrong"
      BY <1>1 DEF IInv, DiskOK
    <3> QED
      BY <2>2, <3>1, <3>2
  <2> QED
    BY <2>3 DEF BlockRead
<1> QED
  BY <1>2, <1>3

LEMMA ReadInnerInv ==
  ASSUME IInv, NEW h, Handlers = {h}, NEW c \in Clusters, ReadInner(c), TypeOK'
  PROVE  NothingLeftBehind' /\ JobsOK' /\ DiskOK'
<1> DEFINE read == {BlockRead(Stripe(h), i) :
                       i \in {j \in handler[h].reads : where[Stripe(h)][j] = c}}
<1>1. /\ UNCHANGED <<where, disk, handler, rpc, backlog, asks>>
      /\ proxy[c] \in ProxyState
      /\ proxy[c].pc = "inner"
      /\ rpc[c] # <<>>
  BY StateTypes DEF IInv, ReadInner, CallsOK
<1>2. proxy[c] # IdleProxy
  BY <1>1 DEF IdleProxy
<1>3. /\ handler[h].job # None /\ JobOK(h)
      /\ Caller(c) = h
      /\ MainCluster(h) \in Clusters
  BY <1>1, <1>2, WorkIsForJob, CallerWaits, JobTypes DEF IInv
<1>4. read = Part(h, c)
  <2>1. \A i \in handler[h].reads : BlockRead(Stripe(h), i) = <<Stripe(h), i>>
    BY <1>3, ReadsAreRight
  <2> QED
    BY <2>1 DEF Part
<1>5. /\ proxy'[c] = [proxy[c] EXCEPT
            !.pc = IF c = MainCluster(h) THEN "write" ELSE "connect",
            !.blocks[c] = Part(h, c)]
      /\ \A d \in Clusters \ {c} : proxy'[d] = proxy[d]
  <2>1. proxy' = [proxy EXCEPT
            ![c].pc = IF c = MainCluster(h) THEN "write" ELSE "connect",
            ![c].blocks[c] = read]
    BY <1>3 DEF ReadInner
  <2>2. proxy \in [Clusters -> ProxyState]
    BY StateTypes DEF IInv
  <2> HIDE DEF read
  <2> QED
    BY <1>4, <2>1, <2>2 DEF ProxyState
<1>6. CASE c = MainCluster(h)
  <2>1. MainState(h, proxy[c], Taken(h)) /\ BacklogOK(h)
    BY <1>3, <1>6 DEF JobOK, MainOK
  <2>2. Taken(h)' = Taken(h) /\ BacklogOK(h)'
    BY <1>1, <1>6, <2>1, SameTaken
  <2>3. /\ proxy'[c].pc = "write"
        /\ proxy'[c].to_accept = proxy[c].to_accept
        /\ proxy'[c].accepting = proxy[c].accepting
        /\ proxy'[c].received = proxy[c].received
        /\ proxy'[c].blocks[c] = Part(h, c)
        /\ \A d \in Clusters \ {c} : proxy'[c].blocks[d] = proxy[c].blocks[d]
    BY <1>1, <1>5, <1>6 DEF ProxyState
  <2>4. MainState(h, proxy'[c], Taken(h))
    BY <1>1, <1>6, <2>1, <2>3 DEF MainState
  <2>5. MainOK(h)'
    BY <1>1, <1>6, <2>2, <2>4, MainAfter
  <2> QED
    BY <1>1, <1>3, <1>5, <1>6, <2>2, <2>5, MainStep
<1>7. CASE c # MainCluster(h)
  <2>1. HelperOK(h, c)
    BY <1>3, <1>7 DEF JobOK
  <2>2. proxy[c] = [IdleProxy EXCEPT !.pc = "inner"]
    BY <1>1, <2>1, HelperStates
  <2>3. proxy'[c] = [IdleProxy EXCEPT !.pc = "connect", !.blocks[c] = Part(h, c)]
    BY <1>5, <1>7, <2>2 DEF IdleProxy
  <2>4. HelperOK(h, c)'
    <3>1. Part(h, c)' = Part(h, c)
      BY <1>1, SameJob
    <3> QED
      BY <1>1, <2>1, <2>3, <3>1 DEF HelperOK
  <2> QED
    BY <1>1, <1>3, <1>5, <1>7, <2>4, HelperStep
<1> QED
  BY <1>6, <1>7

-----------------------------------------------------------------------------
\* The steps that end a call.

\* A helper's part goes to the end of the main proxy's queue.
LEMMA ConnectToMainInv ==
  ASSUME IInv, NEW h, Handlers = {h}, NEW c \in Clusters, ConnectToMain(c),
         TypeOK'
  PROVE  NothingLeftBehind' /\ JobsOK' /\ DiskOK'
<1> DEFINE m == MainCluster(h)
<1>1. /\ proxy[c].pc = "connect"
      /\ rpc[c] # <<>>
      /\ proxy[c] # IdleProxy
  BY DEF IInv, ConnectToMain, CallsOK, IdleProxy
<1>2. /\ handler[h].job # None /\ JobOK(h)
      /\ c # m
      /\ m \in Clusters
      /\ Caller(c) = h
      /\ c \in handler[h].waiting
  BY <1>1, WorkIsForJob, CallerWaits, JobTypes DEF IInv
<1>3. proxy[c].blocks[c] = Part(h, c)
  BY <1>1, <1>2, HelperStates DEF JobOK
<1>4. /\ backlog' = [backlog EXCEPT ![m] = Append(@, HelpOf(h, c))]
      /\ proxy' = [proxy EXCEPT ![c] = IdleProxy]
      /\ handler' = [handler EXCEPT ![h] = Returned(h, c)]
      /\ UNCHANGED <<where, disk, asks>>
  BY <1>2, <1>3 DEF ConnectToMain, HelpOf
<1> HIDE DEF m
<1>5. /\ m \in handler[h].waiting
      /\ handler[h].waiting \subseteq Helpers(h) \cup {m}
      /\ c \in Helpers(h)
      /\ handler[h].waiting # {c}
  BY <1>2 DEF JobOK, m
<1>6. /\ handler'[h].job = handler[h].job
      /\ handler'[h].reads = handler[h].reads
      /\ handler'[h].waiting = handler[h].waiting \ {c}
      /\ handler'[h].todo = handler[h].todo
  BY <1>1, <1>2, <1>4, <1>5, ReturnedState, StateTypes DEF IInv
<1>7. /\ NoneTwice(backlog[m])
      /\ Queued(backlog[m]) \subseteq
            {HelpOf(h, d) : d \in Helpers(h) \ handler[h].waiting}
      /\ backlog[m] \in Seq(Help)
      /\ HelpOf(h, c) \in Help
  <2>1. HelpOf(h, c) \in Help
    BY <1>3, StateTypes DEF IInv, ProxyState, Help, HelpOf
  <2> QED
    BY <1>2, <2>1 DEF JobOK, BacklogOK, m, IInv, TypeOK
<1>8. HelpOf(h, c) \notin Queued(backlog[m])
  BY <1>2, <1>7, HelpsDiffer
<1>9. /\ NoneTwice(backlog'[m])
      /\ Queued(backlog'[m]) = Queued(backlog[m]) \cup {HelpOf(h, c)}
      /\ \A d \in Clusters \ {m} : backlog'[d] = backlog[d]
  <2>1. /\ backlog'[m] = Append(backlog[m], HelpOf(h, c))
        /\ \A d \in Clusters \ {m} : backlog'[d] = backlog[d]
    BY <1>2, <1>4 DEF IInv, TypeOK
  <2> QED
    BY <1>7, <1>8, <2>1, QueueAppend
<1>10. /\ MainCluster(h)' = m /\ Helpers(h)' = Helpers(h)
       /\ Stripe(h)' = Stripe(h) /\ Failed(h)' = Failed(h)
       /\ \A d : HelpOf(h, d)' = HelpOf(h, d)
  BY <1>4, <1>6, SameJob DEF m
<1>11. Taken(h)' = Taken(h)
  <2>1. Taken(h)' = {d \in Helpers(h) \ (handler[h].waiting \ {c}) :
                        HelpOf(h, d) \notin Queued(backlog[m]) \cup {HelpOf(h, c)}}
    BY <1>6, <1>9, <1>10 DEF Taken
  <2>2. \A d : HelpOf(h, d) = HelpOf(h, c) <=> d = c
    BY HelpsDiffer
  <2> QED
    BY <1>2, <2>1, <2>2 DEF Taken, m
<1>12. BacklogOK(h)'
  <2>1. Queued(backlog'[m]) \subseteq
            {HelpOf(h, d) : d \in Helpers(h) \ (handler[h].waiting \ {c})}
    BY <1>5, <1>7, <1>9
  <2> QED
    BY <1>6, <1>9, <1>10, <2>1 DEF BacklogOK
<1>13. /\ proxy'[c] = IdleProxy
       /\ \A d \in Clusters \ {c} : proxy'[d] = proxy[d]
  BY <1>4, StateTypes DEF IInv
<1>14. MainOK(h)'
  <2>1. MainState(h, proxy'[m], Taken(h)')
    BY <1>2, <1>11, <1>13 DEF JobOK, MainOK, m
  <2> QED
    BY <1>4, <1>6, <2>1, MainAfter DEF m
<1>15. \A d \in Clusters \ {m} : HelperOK(h, d)'
  <2>1. backlog'[c] = <<>>
    BY <1>2, <1>9 DEF JobOK, HelperOK, m
  <2>2. HelperOK(h, c)'
    BY <1>13, <2>1 DEF HelperOK
  <2>3. ASSUME NEW d \in Clusters \ {m}, d # c PROVE HelperOK(h, d)'
    BY <1>2, <1>4, <1>6, <1>9, <1>13, <2>3, SameHelper DEF JobOK, m
  <2> QED
    BY <2>2, <2>3
<1>16. JobOK(h)'
  <2>1. handler'[h].reads \in Plans(where'[Stripe(h)'], Failed(h)')
    BY <1>2, <1>4, <1>6, <1>10 DEF JobOK
  <2>2. m \in handler'[h].waiting /\ handler'[h].waiting \subseteq Helpers(h) \cup {m}
    BY <1>2, <1>5, <1>6 DEF m
  <2> QED
    BY <1>10, <1>12, <1>14, <1>15, <2>1, <2>2 DEF JobOK
<1>17. DiskOK'
  BY <1>4, <1>6, SameJobs, SameDisk DEF IInv
<1>18. NothingLeftBehind'
  BY <1>2, <1>6 DEF NothingLeftBehind
<1> QED
  BY <1>16, <1>17, <1>18 DEF JobsOK

\* The end of a job: every helper is done, nothing is queued, and the block is
\* back.
LEMMA JobEnds ==
  ASSUME IInv, NEW h, Handlers = {h}, TypeOK', CallsOK',
         handler[h].job # None, JobOK(h),
         handler[h].waiting = {MainCluster(h)},
         Caller(MainCluster(h)) = h,
         CallReturns(MainCluster(h)),
         Queued(backlog[MainCluster(h)]) = {},
         backlog' = backlog,
         proxy'[MainCluster(h)] = IdleProxy,
         \A d \in Clusters \ {MainCluster(h)} : proxy'[d] = proxy[d],
         disk' = [disk EXCEPT ![Stripe(h)][Failed(h)] = "right"]
  PROVE  NothingLeftBehind' /\ JobsOK' /\ DiskOK'
<1> DEFINE m == MainCluster(h)
<1>1. /\ m \in Clusters
      /\ handler[h].job = <<Stripe(h), Failed(h)>>
      /\ Stripe(h) \in Stripes /\ Failed(h) \in Blocks
      /\ rpc[m] # <<>>
  BY JobTypes DEF IInv, CallReturns
<1>2. /\ handler'[h].job = None
      /\ handler'[h].waiting = {}
      /\ handler'[h].todo = handler[h].todo
  BY <1>1, ReturnedState, StateTypes DEF IInv, CallReturns
<1>3. \A c \in Clusters : rpc'[c] = <<>>
  <2>1. ASSUME NEW c \in Clusters PROVE rpc'[c] = <<>>
    <3>1. rpc'[c] \in Seq(Handlers)
      BY DEF TypeOK
    <3>2. h \notin Queued(rpc'[c])
      BY <1>2 DEF CallsOK
    <3>3. Queued(rpc'[c]) \subseteq Handlers
      BY <3>1 DEF Queued
    <3>4. Queued(rpc'[c]) = {}
      BY <3>2, <3>3
    <3> QED
      BY <3>1, <3>4, QueueIsEmpty
  <2> QED
    BY <2>1
<1>4. \A c \in Clusters : proxy'[c] = IdleProxy
  <2>1. ASSUME NEW c \in Clusters \ {m} PROVE proxy'[c] = IdleProxy
    <3>1. proxy'[c].pc = "idle"
      BY <1>3 DEF CallsOK
    <3> QED
      BY <3>1, HelperStates DEF JobOK
  <2> QED
    BY <2>1
<1>5. \A c \in Clusters : backlog'[c] = <<>>
  <2>1. backlog[m] = <<>>
    BY <1>1, QueueIsEmpty DEF IInv, TypeOK
  <2> QED
    BY <2>1 DEF JobOK, HelperOK
<1>6. NothingLeftBehind'
  BY <1>3, <1>4, <1>5 DEF NothingLeftBehind
<1>7. DiskOK'
  <2>1. Jobs(h) = handler[h].todo \cup {<<Stripe(h), Failed(h)>>}
    BY <1>1 DEF Jobs
  <2>2. Jobs(h)' = handler[h].todo
    BY <1>2 DEF Jobs
  <2>3. ASSUME NEW s \in Stripes, NEW i \in Blocks
        PROVE  /\ disk'[s][i] # "wrong"
               /\ disk'[s][i] = "lost" => <<s, i>> \in Jobs(h)'
    <3>1. CASE <<s, i>> = <<Stripe(h), Failed(h)>>
      BY <1>1, <3>1, WrittenDisk DEF IInv
    <3>2. CASE <<s, i>> # <<Stripe(h), Failed(h)>>
      <4>1. disk'[s][i] = disk[s][i]
        BY <1>1, <3>2, WrittenDisk DEF IInv
      <4> QED
        BY <2>1, <2>2, <3>2, <4>1 DEF IInv, DiskOK
    <3> QED
      BY <3>1, <3>2
  <2>4. \A x, y \in Jobs(h)' : x[1] = y[1] => x = y
    BY <2>1, <2>2 DEF IInv, DiskOK
  <2> QED
    BY <2>3, <2>4 DEF DiskOK
<1> QED
  BY <1>2, <1>6, <1>7 DEF JobsOK

LEMMA CacheRepairInv ==
  ASSUME IInv, NEW h, Handlers = {h}, NEW c \in Clusters, CacheRepair(c),
         TypeOK', CallsOK'
  PROVE  NothingLeftBehind' /\ JobsOK' /\ DiskOK'
<1>1. /\ CallReturns(c)
      /\ Caller(c) = h
      /\ handler[h].job # None
      /\ c \in handler[h].waiting
      /\ proxy[c].pc = "idle"
      /\ IsCached(Failed(h))
      /\ UNCHANGED <<proxy, backlog>>
  BY CallerWaits DEF IInv, CacheRepair, CallReturns
<1>2. /\ JobOK(h)
      /\ Failed(h) \in Blocks
      /\ where[Stripe(h)] \in [Blocks -> Clusters]
      /\ MainCluster(h) \in Clusters
  BY <1>1, JobTypes DEF IInv, JobsOK
<1>3. handler[h].reads = {Failed(h)} /\ Determines(handler[h].reads, Failed(h))
  BY <1>1, <1>2, PlansDetermine DEF JobOK
<1>4. Helpers(h) = {}
  BY <1>3 DEF Helpers, Span, MainCluster
<1>5. handler[h].waiting = {MainCluster(h)} /\ c = MainCluster(h)
  BY <1>1, <1>2, <1>4 DEF JobOK
<1>6. Queued(backlog[MainCluster(h)]) = {}
  BY <1>2, <1>4 DEF JobOK, BacklogOK
<1>7. proxy'[MainCluster(h)] = IdleProxy
  BY <1>1, <1>2, <1>5 DEF JobOK, MainOK, MainState
<1>8. disk' = [disk EXCEPT ![Stripe(h)][Failed(h)] = "right"]
  BY <1>1, <1>3 DEF CacheRepair
<1> QED
  BY <1>1, <1>2, <1>5, <1>6, <1>7, <1>8, JobEnds

LEMMA WriteRepairedInv ==
  ASSUME IInv, NEW h, Handlers = {h}, NEW c \in Clusters, WriteRepaired(c),
         TypeOK', CallsOK'
  PROVE  NothingLeftBehind' /\ JobsOK' /\ DiskOK'
<1> DEFINE m == MainCluster(h)
           combined == UNION {proxy[c].blocks[d] : d \in Clusters}
<1>1. proxy[c].pc = "write" /\ proxy[c] # IdleProxy /\ rpc[c] # <<>>
  BY DEF IInv, WriteRepaired, IdleProxy, CallsOK
<1>2. /\ handler[h].job # None /\ JobOK(h) /\ c = m
      /\ Caller(c) = h
      /\ Failed(h) \in Blocks
      /\ handler[h].reads \subseteq Blocks
      /\ where[Stripe(h)] \in [Blocks -> Clusters]
      /\ m \in Clusters
      /\ Helpers(h) \subseteq Clusters \ {m}
  BY <1>1, WorkIsForJob, CallerWaits, JobTypes DEF IInv
<1>3. /\ MainState(h, proxy[c], Taken(h))
      /\ Taken(h) = Helpers(h)
  BY <1>1, <1>2 DEF JobOK, MainOK, MainState
<1>4. /\ handler[h].waiting = {m}
      /\ Queued(backlog[m]) = {}
  <2>1. /\ handler[h].waiting \cap Helpers(h) = {}
        /\ \A d \in Helpers(h) : HelpOf(h, d) \notin Queued(backlog[m])
    BY <1>3 DEF Taken
  <2> QED
    BY <1>2, <2>1 DEF JobOK, BacklogOK
<1>5. \A d \in Clusters : proxy[c].blocks[d] = Part(h, d)
  <2>1. ASSUME NEW d \in Clusters, d # m, d \notin Helpers(h)
        PROVE  Part(h, d) = {}
    BY <1>2, <2>1 DEF Helpers, Span, Part
  <2>2. ASSUME NEW d \in Clusters, d # m
        PROVE  proxy[c].blocks[d] = IF d \in Helpers(h) THEN Part(h, d) ELSE {}
    BY <1>1, <1>3, <2>2 DEF MainState
  <2>3. proxy[c].blocks[m] = Part(h, m)
    BY <1>1, <1>3 DEF MainState
  <2> QED
    BY <2>1, <2>2, <2>3
<1>6. combined = {Stripe(h)} \X handler[h].reads
  <2>1. combined = UNION {Part(h, d) : d \in Clusters}
    BY <1>5
  <2>2. ASSUME NEW i \in handler[h].reads
        PROVE  <<Stripe(h), i>> \in combined
    <3>1. where[Stripe(h)][i] \in Clusters
      BY <1>2
    <3>2. <<Stripe(h), i>> \in Part(h, where[Stripe(h)][i])
      BY DEF Part
    <3> QED
      BY <2>1, <3>1, <3>2
  <2>3. \A x \in combined : x \in {Stripe(h)} \X handler[h].reads
    BY <2>1 DEF Part
  <2> QED
    BY <2>2, <2>3
<1>7. Determines(handler[h].reads, Failed(h))
  BY <1>2, PlansDetermine DEF JobOK
<1> HIDE DEF combined
<1>8. disk' = [disk EXCEPT ![Stripe(h)][Failed(h)] = "right"]
  BY <1>2, <1>6, <1>7 DEF WriteRepaired, combined
<1>9. /\ proxy'[m] = IdleProxy
      /\ \A d \in Clusters \ {m} : proxy'[d] = proxy[d]
      /\ backlog' = backlog
  BY <1>2, StateTypes DEF IInv, WriteRepaired
<1>10. CallReturns(m)
  BY <1>1, <1>2 DEF WriteRepaired, CallReturns
<1> QED
  BY <1>2, <1>4, <1>8, <1>9, <1>10, JobEnds

-----------------------------------------------------------------------------
LEMMA InitIInv == Init /\ OneHandler => IInv
<1> SUFFICES ASSUME Init PROVE IInv
  OBVIOUS
<1>1. TypeOK /\ CallsOK
  BY InitTypes
<1>2. NothingLeftBehind /\ JobsOK
  BY DEF Init, NothingLeftBehind, JobsOK, IdleHandler
<1>3. DiskOK
  <2>1. \A h \in Handlers : Jobs(h) = {}
    BY DEF Init, IdleHandler, Jobs
  <2> QED
    BY <2>1 DEF Init, DiskOK
<1> QED
  BY <1>1, <1>2, <1>3 DEF IInv

LEMMA NextIInv == OneHandler /\ IInv /\ [Next]_vars => IInv'
<1> SUFFICES ASSUME NEW h, Handlers = {h}, IInv, [Next]_vars
             PROVE  IInv'
  BY DEF OneHandler
<1>1. TypeOK' /\ CallsOK'
  BY NextTypes DEF IInv
<1>2. ASSUME NEW failed \in NodeBlocks, AskForRepair(h, failed)
      PROVE  NothingLeftBehind' /\ JobsOK' /\ DiskOK'
  BY <1>1, <1>2, AskForRepairInv
<1>3. ASSUME HandlerStep(h)
      PROVE  NothingLeftBehind' /\ JobsOK' /\ DiskOK'
  BY <1>1, <1>3, PlanRepairInv, CallProxyInv DEF HandlerStep
<1>4. ASSUME NEW c \in Clusters, ProxyStep(c)
      PROVE  NothingLeftBehind' /\ JobsOK' /\ DiskOK'
  BY <1>1, <1>4, CacheRepairInv, BeginCallInv, EnterAcceptInv, AcceptHelpInv,
     StoreHelpInv, JoinOuterInv, ReadInnerInv, ConnectToMainInv,
     WriteRepairedInv DEF ProxyStep
<1>5. ASSUME UNCHANGED vars
      PROVE  NothingLeftBehind' /\ JobsOK' /\ DiskOK'
  <2>1. /\ where' = where /\ handler' = handler /\ backlog' = backlog
        /\ proxy' = proxy /\ rpc' = rpc /\ disk' = disk
    BY <1>5 DEF vars
  <2>2. NothingLeftBehind'
    BY <2>1 DEF IInv, NothingLeftBehind
  <2>3. DiskOK'
    BY <2>1, SameJobs, SameDisk DEF IInv
  <2>4. ASSUME handler[h].job # None
        PROVE  JobOK(h)'
    <3>1. JobOK(h)
      BY <2>4 DEF IInv, JobsOK
    <3>2. \A c \in Clusters \ {MainCluster(h)} : HelperOK(h, c)'
      BY <2>1, <3>1, SameHelper DEF JobOK
    <3>3. BacklogOK(h)' /\ MainOK(h)'
      BY <2>1, <3>1, SameTaken DEF JobOK
    <3> QED
      BY <2>1, <3>1, <3>2, <3>3, SameJob DEF JobOK
  <2> QED
    BY <2>1, <2>2, <2>3, <2>4 DEF JobsOK
<1> QED
  BY <1>1, <1>2, <1>3, <1>4, <1>5 DEF Next, Finished, IInv

LEMMA Invariance ==
  ASSUME OneHandler
  PROVE  Spec => []IInv
<1>1. Init => IInv
  BY InitIInv
<1>2. IInv /\ [Next]_vars => IInv'
  BY NextIInv
<1> QED
  BY <1>1, <1>2, PTL DEF Spec

\* "The repaired block is put back in its place": with repairs one after the
\* other what main_repair and cache_repair write back is the block, for every
\* code, every placement within the bound and every order in which the helpers
\* and the proxies' threads run.
THEOREM RepairsAreRight ==
  ASSUME OneHandler
  PROVE  Spec => []RepairedRight
<1>1. IInv => RepairedRight
  <2> SUFFICES ASSUME IInv PROVE RepairedRight
    OBVIOUS
  <2>1. \A h \in Handlers : Idle(h) => Jobs(h) = {}
    BY DEF Idle, IdleHandler, Jobs
  <2> QED
    BY <2>1 DEF IInv, DiskOK, RepairedRight
<1> QED
  BY <1>1, Invariance, PTL

\* Nothing of a repair is left at the proxies when ask_for_repair goes on to
\* the next stripe.
THEOREM RepairsLeaveNothing ==
  ASSUME OneHandler
  PROVE  Spec => []NothingLeftBehind
<1>1. IInv => NothingLeftBehind
  BY DEF IInv
<1> QED
  BY <1>1, Invariance, PTL
=============================================================================
