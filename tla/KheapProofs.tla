----------------------------- MODULE KheapProofs -----------------------------
(***************************************************************************)
(* Proofs about kernel/kheap.c for every arena size, header size and       *)
(* alignment: as long as no request wraps around 32 bits, the block list   *)
(* tiles the arena, free neighbours are merged, every held block is as     *)
(* long as its caller asked, and the first-fit walk passes no usable block.*)
(***************************************************************************)
EXTENDS Kheap, FiniteSetTheorems, WellFoundedInduction, TLAPS

\* The minimum of a set of naturals that is not empty.
LEMMA MinNat ==
    ASSUME NEW S, S \subseteq Nat, S # {}
    PROVE  Min(S) \in S /\ \A y \in S : Min(S) <= y
<1> DEFINE R == OpToRel(<, Nat)
<1>1. \A x, y \in Nat : <<y, x>> \in R <=> y < x
  BY DEF OpToRel
<1>2. IsWellFoundedOn(R, Nat)
  BY NatLessThanWellFounded, Zenon
<1> HIDE DEF R
<1>3. PICK x \in S : \A y \in S : ~(<<y, x>> \in R)
  BY <1>2, WFMin, Zenon
<1>4. ASSUME NEW y \in S PROVE ~(y < x)
  <2>1. x \in Nat /\ y \in Nat
    OBVIOUS
  <2> QED
    BY <1>1, <1>3, <2>1, Zenon
<1>5. \A y \in S : x <= y
  BY <1>4
<1> QED
  BY <1>5 DEF Min

\* A list of headers of the right type in the arena.
HeapType(h) ==
    /\ DOMAIN h \subseteq HeapStart..(HeapEnd - 1)
    /\ h \in [DOMAIN h -> Headers]
Good(h) == HeapType(h) /\ WellFormed(h)

\* The arithmetic facts about the arena that every proof below needs.
LEMMA Arena ==
    /\ HeapStart \in Nat /\ HeapEnd \in Nat /\ HDR \in Nat /\ HDR > 0
    /\ HeapStart > 0 /\ HeapStart + HDR <= HeapEnd
    /\ NULL \in Nat /\ NULL \notin HeapStart..(HeapEnd - 1)
  BY HeapAssumption DEF HeapEnd, NULL

\* Every block of a good list lies in the arena, and its fields are typed.
LEMMA BlockBounds ==
    ASSUME NEW h, Good(h), NEW b \in DOMAIN h
    PROVE  /\ b \in Nat /\ b # NULL /\ HeapStart <= b /\ b < HeapEnd
           /\ h[b].size \in Nat /\ h[b].size >= HDR /\ h[b].is_free \in BOOLEAN
           /\ h[b].next \in Nat /\ h[b].prev \in Nat
           /\ b + h[b].size <= HeapEnd
<1>1. b \in HeapStart..(HeapEnd - 1) /\ h[b] \in Headers
  BY DEF Good, HeapType
<1>2. b \in Nat /\ b # NULL /\ HeapStart <= b /\ b < HeapEnd
  BY <1>1, Arena
<1>3. /\ h[b].size \in Nat /\ h[b].is_free \in BOOLEAN
      /\ h[b].next \in Nat /\ h[b].prev \in Nat
  BY <1>1 DEF Headers
<1>4. h[b].size >= HDR
  BY DEF Good, WellFormed
<1>5. b + h[b].size <= HeapEnd
  <2>1. CASE b + h[b].size = HeapEnd
    BY <2>1, Arena
  <2>2. CASE b + h[b].size # HeapEnd
    <3>1. b + h[b].size \in DOMAIN h
      BY <2>2 DEF Good, WellFormed, Linked
    <3> QED
      BY <3>1, Arena DEF Good, HeapType
  <2> QED
    BY <2>1, <2>2
<1> QED
  BY <1>2, <1>3, <1>4, <1>5

\* Following next and then prev leads back; so does prev and then next.
LEMMA NextPrev ==
    ASSUME NEW h, Good(h), NEW b \in DOMAIN h
    PROVE  /\ h[b].next # NULL => /\ h[b].next \in DOMAIN h
                                  /\ h[b].next = b + h[b].size
                                  /\ h[h[b].next].prev = b
           /\ h[b].next = NULL => b + h[b].size = HeapEnd
           /\ h[b].prev # NULL => /\ h[b].prev \in DOMAIN h
                                  /\ h[h[b].prev].next = b
                                  /\ h[b].prev + h[h[b].prev].size = b
           /\ h[b].prev = NULL => b = HeapStart
<1>1. h[b].next = NULL => b + h[b].size = HeapEnd
  BY BlockBounds, Arena DEF Good, WellFormed, Linked
<1>2. h[b].next # NULL => h[b].next \in DOMAIN h /\ h[b].next = b + h[b].size
  BY DEF Good, WellFormed, Linked
<1>3. h[b].prev = NULL => b = HeapStart
  BY BlockBounds DEF Good, WellFormed, LinkedBack
<1>4. h[b].prev # NULL => h[b].prev \in DOMAIN h /\ h[b].prev + h[h[b].prev].size = b
  BY DEF Good, WellFormed, LinkedBack
<1>5. ASSUME h[b].prev # NULL PROVE h[h[b].prev].next = b
  <2> DEFINE p == h[b].prev
  <2>1. p \in DOMAIN h /\ p + h[p].size = b
    BY <1>4, <1>5
  <2>2. b # HeapEnd
    BY BlockBounds, Arena
  <2> QED
    BY <2>1, <2>2 DEF Good, WellFormed, Linked
<1>6. ASSUME h[b].next # NULL PROVE h[h[b].next].prev = b
  <2> DEFINE n == h[b].next
             p == h[n].prev
  <2>1. n \in DOMAIN h /\ n = b + h[b].size
    BY <1>2, <1>6
  <2>2. b \in Nat /\ n \in Nat /\ h[b].size \in Nat /\ h[b].size > 0 /\ b >= HeapStart
    BY <2>1, BlockBounds, Arena
  <2>3. n # HeapStart
    BY <2>1, <2>2, Arena
  <2>4. p \in DOMAIN h /\ p + h[p].size = n
    BY <2>1, <2>3 DEF Good, WellFormed, LinkedBack
  <2>5. p \in Nat /\ h[p].size \in Nat /\ h[p].size > 0
    BY <2>4, BlockBounds, Arena
  <2>6. ~(p < b) /\ ~(b < p)
    BY <2>1, <2>2, <2>4, <2>5 DEF Good, WellFormed, Apart
  <2> QED
    BY <2>2, <2>5, <2>6
<1> QED
  BY <1>1, <1>2, <1>3, <1>4, <1>5, <1>6
-----------------------------------------------------------------------------
\* Changing only is_free of one block keeps the list good.
FlagSet(h, b, v) == Write(h, b, [h[b] EXCEPT !.is_free = v])
MarkShape(h, b, v, g) ==
    /\ DOMAIN g = DOMAIN h
    /\ g[b] = [h[b] EXCEPT !.is_free = v]
    /\ \A c \in DOMAIN h : c # b => g[c] = h[c]

LEMMA MarkGood ==
    ASSUME NEW h, Good(h), NEW b \in DOMAIN h, NEW v \in BOOLEAN
    PROVE  Good(FlagSet(h, b, v)) /\ MarkShape(h, b, v, FlagSet(h, b, v))
<1> DEFINE g == FlagSet(h, b, v)
<1>1. DOMAIN g = DOMAIN h
  BY DEF FlagSet, Write
<1>2. g[b] = [h[b] EXCEPT !.is_free = v] /\ \A c \in DOMAIN h : c # b => g[c] = h[c]
  BY DEF FlagSet, Write
<1>3. h[b] \in Headers /\ \A c \in DOMAIN h : h[c] \in Headers
  BY DEF Good, HeapType
<1>4. /\ g[b].size = h[b].size /\ g[b].next = h[b].next /\ g[b].prev = h[b].prev
      /\ g[b].is_free = v /\ g[b] \in Headers
  BY <1>2, <1>3 DEF Headers
<1>5. \A c \in DOMAIN h : /\ g[c].size = h[c].size /\ g[c].next = h[c].next
                          /\ g[c].prev = h[c].prev /\ g[c] \in Headers
  BY <1>2, <1>3, <1>4
<1>6. HeapType(g)
  <2>1. g \in [DOMAIN g -> Headers]
    BY <1>1, <1>5 DEF FlagSet, Write
  <2> QED
    BY <1>1, <2>1 DEF Good, HeapType
<1> HIDE DEF g
<1>7. WellFormed(g)
  <2>1. Linked(g)
    BY <1>1, <1>5 DEF Good, WellFormed, Linked
  <2>2. LinkedBack(g)
    BY <1>1, <1>5 DEF Good, WellFormed, LinkedBack
  <2>3. Apart(g)
    BY <1>1, <1>5 DEF Good, WellFormed, Apart
  <2> QED
    BY <1>1, <1>5, <2>1, <2>2, <2>3 DEF Good, WellFormed
<1>8. Good(g) /\ MarkShape(h, b, v, g)
  BY <1>1, <1>2, <1>6, <1>7 DEF Good, MarkShape
<1> QED
  BY <1>8 DEF g

\* What kmalloc's split does to the headers (kheap.c:80-96).
SplitShape(h, b, need, g) ==
    /\ b + need \notin DOMAIN h /\ b + need \in HeapStart..(HeapEnd - 1)
    /\ DOMAIN g = DOMAIN h \cup {b + need}
    /\ g[b] = [size |-> need, is_free |-> FALSE, next |-> b + need, prev |-> h[b].prev]
    /\ g[b + need] = [size |-> h[b].size - need, is_free |-> TRUE,
                      next |-> h[b].next, prev |-> b]
    /\ \A c \in DOMAIN h \ {b} :
         g[c] = [size |-> h[c].size, is_free |-> h[c].is_free, next |-> h[c].next,
                 prev |-> IF c = h[b].next THEN b + need ELSE h[c].prev]

\* kmalloc's split has that shape.
LEMMA CarveSplits ==
    ASSUME NEW h, Good(h), NEW b \in DOMAIN h, NEW need \in Nat, need >= HDR,
           Splits(h, b, need)
    PROVE  SplitShape(h, b, need, Carve(h, b, need))
<1> DEFINE new == b + need
           nx == h[b].next
           rest == [size |-> h[b].size - need, is_free |-> TRUE, next |-> nx, prev |-> b]
           h0 == Write(h, new, rest)
           h1 == SetPrev(h0, nx, new)
           g == Write(h1, b, [h1[b] EXCEPT !.size = need, !.next = new, !.is_free = FALSE])
<1>1. g = Carve(h, b, need)
  BY DEF Carve
<1>2. \A c \in DOMAIN h : /\ c \in Nat /\ c # NULL /\ h[c].size \in Nat /\ h[c].size >= HDR
                          /\ HeapStart <= c
  BY BlockBounds
<1>3. h[b].size >= need + HDR + ALIGN /\ b + h[b].size <= HeapEnd /\ ALIGN \in Nat
  BY BlockBounds, HeapAssumption DEF Splits
<1>4. new \in HeapStart..(HeapEnd - 1) /\ new > b /\ new < b + h[b].size
  BY <1>2, <1>3, Arena
<1>5. new \notin DOMAIN h
  <2> SUFFICES ASSUME new \in DOMAIN h PROVE FALSE
    OBVIOUS
  <2>1. b + h[b].size <= new
    BY <1>4 DEF Good, WellFormed, Apart
  <2> QED
    BY <2>1, <1>2, <1>4
<1>6. DOMAIN h0 = DOMAIN h \cup {new} /\ h0[new] = rest
      /\ \A c \in DOMAIN h : h0[c] = h[c]
  BY <1>5 DEF Write
<1>7. nx # NULL => nx \in DOMAIN h /\ nx # b
  BY NextPrev, <1>2, Arena
<1>8. /\ DOMAIN h1 = DOMAIN h \cup {new} /\ h1[new] = rest /\ h1[b] = h[b]
      /\ \A c \in DOMAIN h :
            h1[c] = IF c = nx THEN [h[c] EXCEPT !.prev = new] ELSE h[c]
  <2>1. CASE nx = NULL
    BY <2>1, <1>2, <1>6 DEF SetPrev
  <2>2. CASE nx # NULL
    BY <2>2, <1>5, <1>6, <1>7 DEF SetPrev, Write
  <2> QED
    BY <2>1, <2>2
<1> HIDE DEF h1
<1>9. /\ DOMAIN g = DOMAIN h \cup {new}
      /\ g[b] = [h[b] EXCEPT !.size = need, !.next = new, !.is_free = FALSE]
      /\ g[new] = rest
      /\ \A c \in DOMAIN h \ {b} :
           g[c] = IF c = nx THEN [h[c] EXCEPT !.prev = new] ELSE h[c]
  BY <1>5, <1>8 DEF Write
<1> HIDE DEF g
<1>10. \A c \in DOMAIN h : h[c] \in Headers
  BY DEF Good, HeapType
<1>11. g[b] = [size |-> need, is_free |-> FALSE, next |-> new, prev |-> h[b].prev]
  BY <1>9, <1>10 DEF Headers
<1>12. \A c \in DOMAIN h \ {b} :
         g[c] = [size |-> h[c].size, is_free |-> h[c].is_free, next |-> h[c].next,
                 prev |-> IF c = h[b].next THEN b + need ELSE h[c].prev]
  <2> TAKE c \in DOMAIN h \ {b}
  <2> QED
    BY <1>9, <1>10 DEF Headers
<1>13. SplitShape(h, b, need, g)
  BY <1>4, <1>5, <1>9, <1>11, <1>12 DEF SplitShape
<1> QED
  BY <1>1, <1>13

\* A split keeps the list good.
LEMMA CarveSplitGood ==
    ASSUME NEW h, Good(h), NEW b \in DOMAIN h, NEW need \in Nat, need >= HDR,
           Splits(h, b, need)
    PROVE  Good(Carve(h, b, need))
<1> DEFINE new == b + need
           nx == h[b].next
           g == Carve(h, b, need)
<1>0. SplitShape(h, b, need, g)
  BY CarveSplits
<1>1. /\ new \notin DOMAIN h /\ new \in HeapStart..(HeapEnd - 1)
      /\ DOMAIN g = DOMAIN h \cup {new}
      /\ g[b] = [size |-> need, is_free |-> FALSE, next |-> new, prev |-> h[b].prev]
      /\ g[new] = [size |-> h[b].size - need, is_free |-> TRUE, next |-> nx, prev |-> b]
      /\ \A c \in DOMAIN h \ {b} :
           g[c] = [size |-> h[c].size, is_free |-> h[c].is_free, next |-> h[c].next,
                   prev |-> IF c = nx THEN new ELSE h[c].prev]
  BY <1>0 DEF SplitShape
<1>2. \A c \in DOMAIN h :
         /\ c \in Nat /\ c # NULL /\ HeapStart <= c /\ c < HeapEnd
         /\ h[c].size \in Nat /\ h[c].size >= HDR /\ h[c].is_free \in BOOLEAN
         /\ h[c].next \in Nat /\ h[c].prev \in Nat /\ c + h[c].size <= HeapEnd
  BY BlockBounds
<1>3. h[b].size - need \in Nat /\ h[b].size - need >= HDR /\ new \in Nat /\ new > b
  BY <1>2, Arena, HeapAssumption DEF Splits
<1>4. g = [c \in DOMAIN g |-> g[c]]
  BY DEF Carve, Write
<1> HIDE DEF g, new, nx
<1>5. /\ g[b].size = need /\ g[b].next = new /\ g[b].prev = h[b].prev
      /\ g[new].size = h[b].size - need /\ g[new].next = nx /\ g[new].prev = b
      /\ \A c \in DOMAIN h \ {b} :
           /\ g[c].size = h[c].size /\ g[c].next = h[c].next
           /\ g[c].prev = IF c = nx THEN new ELSE h[c].prev
  BY <1>1
<1>6. HeapType(g)
  <2>1. \A c \in DOMAIN g : g[c] \in Headers
    <3>1. g[b] \in Headers
      BY <1>1, <1>2, <1>3 DEF Headers
    <3>2. g[new] \in Headers
      BY <1>1, <1>2, <1>3 DEF Headers, nx
    <3>3. \A c \in DOMAIN h \ {b} : g[c] \in Headers
      BY <1>1, <1>2, <1>3 DEF Headers
    <3> QED
      BY <3>1, <3>2, <3>3, <1>1
  <2>2. g \in [DOMAIN g -> Headers]
    BY <1>4, <2>1
  <2>3. DOMAIN g \subseteq HeapStart..(HeapEnd - 1)
    BY <1>1 DEF Good, HeapType
  <2> QED
    BY <2>2, <2>3 DEF HeapType
<1>7. Linked(g)
  <2>1. b + need # HeapEnd
    BY <1>1, <1>3, Arena DEF new
  <2>2. ASSUME NEW c \in DOMAIN g
        PROVE  IF c + g[c].size = HeapEnd THEN g[c].next = NULL
               ELSE g[c].next = c + g[c].size /\ g[c].next \in DOMAIN g
    <3>1. CASE c = b
      BY <3>1, <2>1, <1>1, <1>5 DEF new
    <3>2. CASE c = new
      <4>1. new + g[new].size = b + h[b].size
        BY <1>2, <1>3, <1>5 DEF new
      <4> QED
        BY <3>2, <4>1, <1>1, <1>5 DEF Good, WellFormed, Linked, nx
    <3>3. CASE c \in DOMAIN h \ {b}
      BY <3>3, <1>1, <1>5 DEF Good, WellFormed, Linked
    <3> QED
      BY <3>1, <3>2, <3>3, <1>1
  <2> QED
    BY <2>2 DEF Linked
<1>8. LinkedBack(g)
  <2>1. new # HeapStart /\ b \in DOMAIN g
    BY <1>1, <1>2, <1>3
  <2>2. ASSUME NEW c \in DOMAIN g
        PROVE  IF c = HeapStart THEN g[c].prev = NULL
               ELSE g[c].prev \in DOMAIN g /\ g[c].prev + g[g[c].prev].size = c
    <3>1. CASE c = new
      BY <3>1, <2>1, <1>1, <1>5 DEF new
    <3>2. CASE c # new /\ c = nx
      <4>1. c \in DOMAIN h \ {b} /\ c = b + h[b].size
        BY <3>2, <1>1, <1>2, NextPrev, Arena DEF nx
      <4>2. c # HeapStart
        BY <4>1, <1>2, Arena
      <4>3. g[c].prev = new
        BY <3>2, <4>1, <1>5
      <4>4. new + g[new].size = c
        BY <4>1, <1>2, <1>3, <1>5 DEF new
      <4> QED
        BY <4>2, <4>3, <4>4, <1>1
    <3>3. CASE c # new /\ c # nx
      <4>1. c \in DOMAIN h /\ g[c].prev = h[c].prev
        BY <3>3, <1>1, <1>5
      <4>2. CASE c = HeapStart
        BY <4>1, <4>2 DEF Good, WellFormed, LinkedBack
      <4>3. CASE c # HeapStart
        <5>1. h[c].prev \in DOMAIN h /\ h[c].prev + h[h[c].prev].size = c
          BY <4>1, <4>3 DEF Good, WellFormed, LinkedBack
        <5>2. h[c].prev # b
          <6> SUFFICES ASSUME h[c].prev = b PROVE FALSE
            OBVIOUS
          <6>1. h[b].next = c
            BY <4>1, <5>1, <1>2, NextPrev
          <6> QED
            BY <6>1, <3>3 DEF nx
        <5> QED
          BY <4>1, <4>3, <5>1, <5>2, <1>1, <1>5
      <4> QED
        BY <4>2, <4>3
    <3> QED
      BY <3>1, <3>2, <3>3
  <2> QED
    BY <2>2 DEF LinkedBack
<1>9. Apart(g)
  <2>1. ASSUME NEW c \in DOMAIN g, NEW d \in DOMAIN g, c < d
        PROVE  c + g[c].size <= d
    <3>0. \A e, f \in DOMAIN h : e < f => e + h[e].size <= f
      BY DEF Good, WellFormed, Apart
    <3>1. CASE c = b
      <4>1. CASE d = new
        BY <3>1, <4>1, <1>2, <1>3, <1>5 DEF new
      <4>2. CASE d # new
        BY <3>1, <4>2, <2>1, <3>0, <1>1, <1>2, <1>3, <1>5 DEF new
      <4> QED
        BY <4>1, <4>2
    <3>2. CASE c = new
      <4>1. d \in DOMAIN h /\ b < d
        BY <3>2, <2>1, <1>1, <1>2, <1>3
      <4>2. b + h[b].size <= d
        BY <4>1, <3>0
      <4> QED
        BY <3>2, <4>1, <4>2, <1>2, <1>3, <1>5 DEF new
    <3>3. CASE c \in DOMAIN h \ {b} /\ d = new
      <4>1. CASE c < b
        BY <3>3, <4>1, <3>0, <1>2, <1>3, <1>5 DEF new
      <4>2. CASE b < c
        <5>1. b + h[b].size <= c
          BY <3>3, <4>2, <3>0
        <5> QED
          BY <5>1, <3>3, <2>1, <1>2, <1>3, HeapAssumption DEF new, Splits
      <4> QED
        BY <4>1, <4>2, <3>3, <1>2
    <3>4. CASE c \in DOMAIN h \ {b} /\ d \in DOMAIN h
      BY <3>4, <2>1, <3>0, <1>5
    <3> QED
      BY <3>1, <3>2, <3>3, <3>4, <1>1
  <2> QED
    BY <2>1 DEF Apart
<1>10. HeapStart \in DOMAIN g /\ \A c \in DOMAIN g : g[c].size >= HDR
  BY <1>1, <1>2, <1>3, <1>5 DEF Good, WellFormed
<1> QED
  BY <1>6, <1>7, <1>8, <1>9, <1>10 DEF Good, WellFormed, g
-----------------------------------------------------------------------------
\* What a merge does to the headers (kheap.c:183-188 and 193-198).
MergeShape(h, a, b, g) ==
    /\ DOMAIN g = DOMAIN h \ {b}
    /\ g[a] = [size |-> h[a].size + h[b].size, is_free |-> h[a].is_free,
               next |-> h[b].next, prev |-> h[a].prev]
    /\ \A c \in DOMAIN h \ {a, b} :
         g[c] = [size |-> h[c].size, is_free |-> h[c].is_free, next |-> h[c].next,
                 prev |-> IF c = h[b].next THEN a ELSE h[c].prev]

\* kfree's merge of a block with its successor has that shape.
LEMMA AbsorbMerges ==
    ASSUME NEW h, Good(h), NEW a \in DOMAIN h, NEW b \in DOMAIN h, h[a].next = b
    PROVE  /\ MergeShape(h, a, b, Absorb(h, a, b))
           /\ a # b /\ h[b].next # a /\ h[b].next # b
<1> DEFINE nx == h[b].next
           h1 == Write(h, a, [h[a] EXCEPT !.size = @ + h[b].size, !.next = nx])
           h2 == Unlink(h1, b)
           g == SetPrev(h2, nx, a)
<1>1. g = Absorb(h, a, b)
  BY DEF Absorb
<1>2. \A c \in DOMAIN h : /\ c \in Nat /\ c # NULL /\ h[c].size \in Nat /\ h[c].size > 0
                          /\ h[c] \in Headers
  BY BlockBounds, Arena DEF Good, HeapType
<1>3. b = a + h[a].size
  BY <1>2, NextPrev
<1>4. nx # NULL => nx \in DOMAIN h /\ nx = b + h[b].size
  BY NextPrev
<1>5. a # b /\ nx # a /\ nx # b
  BY <1>2, <1>3, <1>4
<1>6. /\ DOMAIN h1 = DOMAIN h
      /\ h1[a] = [h[a] EXCEPT !.size = @ + h[b].size, !.next = nx]
      /\ \A c \in DOMAIN h : c # a => h1[c] = h[c]
  BY DEF Write
<1> HIDE DEF h1
<1>7. /\ DOMAIN h2 = DOMAIN h \ {b}
      /\ \A c \in DOMAIN h \ {b} : h2[c] = h1[c]
  BY <1>6 DEF Unlink
<1> HIDE DEF h2
<1>8. /\ DOMAIN g = DOMAIN h \ {b}
      /\ \A c \in DOMAIN h \ {b} :
           g[c] = IF c = nx THEN [h1[c] EXCEPT !.prev = a] ELSE h1[c]
  <2>1. CASE nx = NULL
    BY <2>1, <1>2, <1>7 DEF SetPrev
  <2>2. CASE nx # NULL
    <3>1. nx \in DOMAIN h2
      BY <2>2, <1>4, <1>5, <1>7
    <3>2. g = [c \in DOMAIN h2 \cup {nx} |-> IF c = nx THEN [h2[nx] EXCEPT !.prev = a] ELSE h2[c]]
      BY <2>2 DEF SetPrev, Write
    <3> QED
      BY <3>1, <3>2, <1>7
  <2> QED
    BY <2>1, <2>2
<1> HIDE DEF g
<1>9. g[a] = [size |-> h[a].size + h[b].size, is_free |-> h[a].is_free,
              next |-> h[b].next, prev |-> h[a].prev]
  BY <1>2, <1>5, <1>6, <1>8 DEF Headers
<1>10. \A c \in DOMAIN h \ {a, b} :
         g[c] = [size |-> h[c].size, is_free |-> h[c].is_free, next |-> h[c].next,
                 prev |-> IF c = h[b].next THEN a ELSE h[c].prev]
  <2> TAKE c \in DOMAIN h \ {a, b}
  <2>1. h1[c] = h[c] /\ h[c] \in Headers
    BY <1>2, <1>6
  <2> QED
    BY <2>1, <1>8 DEF Headers
<1>11. MergeShape(h, a, b, g)
  BY <1>8, <1>9, <1>10 DEF MergeShape
<1> QED
  BY <1>1, <1>5, <1>11

\* A merge keeps the list good.
LEMMA AbsorbGood ==
    ASSUME NEW h, Good(h), NEW a \in DOMAIN h, NEW b \in DOMAIN h, h[a].next = b
    PROVE  Good(Absorb(h, a, b))
<1> DEFINE nx == h[b].next
           g == Absorb(h, a, b)
<1>0. MergeShape(h, a, b, g) /\ a # b /\ nx # a /\ nx # b
  BY AbsorbMerges
<1>1. \A c \in DOMAIN h :
         /\ c \in Nat /\ c # NULL /\ HeapStart <= c /\ c < HeapEnd
         /\ h[c].size \in Nat /\ h[c].size >= HDR /\ h[c].size > 0
         /\ h[c].is_free \in BOOLEAN
         /\ h[c].next \in Nat /\ h[c].prev \in Nat /\ c + h[c].size <= HeapEnd
  BY BlockBounds, Arena
<1>2. b = a + h[a].size
  BY <1>1, NextPrev
<1>3. g = [c \in DOMAIN g |-> g[c]]
  <2>1. CASE nx = NULL
    BY <2>1 DEF Absorb, SetPrev, Unlink
  <2>2. CASE nx # NULL
    BY <2>2 DEF Absorb, SetPrev, Write
  <2> QED
    BY <2>1, <2>2
<1> HIDE DEF g
<1>m. /\ DOMAIN g = DOMAIN h \ {b}
      /\ g[a] = [size |-> h[a].size + h[b].size, is_free |-> h[a].is_free,
                 next |-> nx, prev |-> h[a].prev]
      /\ \A c \in DOMAIN h \ {a, b} :
           g[c] = [size |-> h[c].size, is_free |-> h[c].is_free, next |-> h[c].next,
                   prev |-> IF c = nx THEN a ELSE h[c].prev]
  BY <1>0 DEF MergeShape
<1>n. nx \in Nat
  BY <1>1
<1> HIDE DEF nx
<1>o. \A c \in DOMAIN h \ {a, b} :
         /\ g[c].size = h[c].size /\ g[c].next = h[c].next
         /\ g[c].is_free = h[c].is_free
         /\ g[c].prev = IF c = nx THEN a ELSE h[c].prev
  <2> TAKE c \in DOMAIN h \ {a, b}
  <2>1. g[c] = [size |-> h[c].size, is_free |-> h[c].is_free, next |-> h[c].next,
                prev |-> IF c = nx THEN a ELSE h[c].prev]
    BY <1>m
  <2> QED
    BY <2>1
<1>4. /\ DOMAIN g = DOMAIN h \ {b}
      /\ g[a].size = h[a].size + h[b].size /\ g[a].next = nx /\ g[a].prev = h[a].prev
      /\ g[a].is_free = h[a].is_free
      /\ \A c \in DOMAIN h \ {a, b} :
           /\ g[c].size = h[c].size /\ g[c].next = h[c].next
           /\ g[c].prev = IF c = nx THEN a ELSE h[c].prev
  BY <1>m, <1>o
<1>5. HeapType(g)
  <2>1. g[a] \in Headers
    BY <1>m, <1>n, <1>1 DEF Headers
  <2>2. \A c \in DOMAIN h \ {a, b} : g[c] \in Headers
    <3> TAKE c \in DOMAIN h \ {a, b}
    <3>1. g[c] = [size |-> h[c].size, is_free |-> h[c].is_free, next |-> h[c].next,
                  prev |-> IF c = nx THEN a ELSE h[c].prev]
      BY <1>m
    <3> QED
      BY <3>1, <1>1 DEF Headers
  <2>3. g \in [DOMAIN g -> Headers]
    BY <2>1, <2>2, <1>3, <1>4
  <2> QED
    BY <2>3, <1>4 DEF Good, HeapType
<1>6. Linked(g)
  <2>1. ASSUME NEW c \in DOMAIN g
        PROVE  IF c + g[c].size = HeapEnd THEN g[c].next = NULL
               ELSE g[c].next = c + g[c].size /\ g[c].next \in DOMAIN g
    <3>1. CASE c = a
      <4>1. a + g[a].size = b + h[b].size
        BY <1>1, <1>2, <1>4
      <4> QED
        BY <3>1, <4>1, <1>0, <1>4 DEF Good, WellFormed, Linked, nx
    <3>2. CASE c # a
      <4>1. c \in DOMAIN h /\ c # b /\ g[c].size = h[c].size /\ g[c].next = h[c].next
        BY <3>2, <1>4
      <4>2. h[c].next # b
        <5> SUFFICES ASSUME h[c].next = b PROVE FALSE
          OBVIOUS
        <5>1. h[b].prev = c /\ h[b].prev = a
          BY <4>1, <1>1, NextPrev
        <5> QED
          BY <5>1, <3>2
      <4> QED
        BY <4>1, <4>2, <1>4 DEF Good, WellFormed, Linked
    <3> QED
      BY <3>1, <3>2
  <2> QED
    BY <2>1 DEF Linked
<1>7. LinkedBack(g)
  <2>1. ASSUME NEW c \in DOMAIN g
        PROVE  IF c = HeapStart THEN g[c].prev = NULL
               ELSE g[c].prev \in DOMAIN g /\ g[c].prev + g[g[c].prev].size = c
    <3>0. c \in DOMAIN h /\ c # b /\ a \in DOMAIN g
      BY <1>0, <1>4
    <3>1. CASE c = nx
      <4>1. c = b + h[b].size
        BY <3>0, <3>1, <1>1, NextPrev DEF nx
      <4>2. c # HeapStart
        BY <4>1, <1>1
      <4>3. g[c].prev = a
        BY <3>0, <3>1, <1>0, <1>4
      <4>4. a + g[a].size = c
        BY <4>1, <1>1, <1>2, <1>4
      <4> QED
        BY <3>0, <4>2, <4>3, <4>4
    <3>2. CASE c # nx
      <4>1. g[c].prev = h[c].prev
        BY <3>0, <3>2, <1>4
      <4>2. CASE c = HeapStart
        BY <3>0, <4>1, <4>2 DEF Good, WellFormed, LinkedBack
      <4>3. CASE c # HeapStart
        <5>1. h[c].prev \in DOMAIN h /\ h[c].prev + h[h[c].prev].size = c
          BY <3>0, <4>3 DEF Good, WellFormed, LinkedBack
        <5>2. h[c].prev # b
          BY <3>0, <3>2, <5>1, <1>1, NextPrev DEF nx
        <5>3. h[c].prev # a
          BY <3>0, <5>1, <1>1, <1>2
        <5> QED
          BY <4>1, <4>3, <5>1, <5>2, <5>3, <1>4
      <4> QED
        BY <4>2, <4>3
    <3> QED
      BY <3>1, <3>2
  <2> QED
    BY <2>1 DEF LinkedBack
<1>8. Apart(g)
  <2>1. ASSUME NEW c \in DOMAIN g, NEW d \in DOMAIN g, c < d
        PROVE  c + g[c].size <= d
    <3>0. \A e, f \in DOMAIN h : e < f => e + h[e].size <= f
      BY DEF Good, WellFormed, Apart
    <3>1. c \in DOMAIN h /\ d \in DOMAIN h /\ c # b /\ d # b
      BY <1>4
    <3>2. CASE c = a
      <4>1. b <= d
        BY <3>0, <3>1, <3>2, <2>1, <1>2
      <4>2. b + h[b].size <= d
        BY <4>1, <3>0, <3>1, <1>1
      <4> QED
        BY <3>2, <4>2, <1>1, <1>2, <1>4
    <3>3. CASE c # a
      BY <3>0, <3>1, <3>3, <2>1, <1>4
    <3> QED
      BY <3>2, <3>3
  <2> QED
    BY <2>1 DEF Apart
<1>9. HeapStart \in DOMAIN g /\ \A c \in DOMAIN g : g[c].size >= HDR
  <2>1. b # HeapStart
    BY <1>1, <1>2
  <2>2. \A c \in DOMAIN g : g[c].size >= HDR
    BY <1>1, <1>4, Arena
  <2> QED
    BY <2>1, <2>2, <1>4 DEF Good, WellFormed
<1> QED
  BY <1>5, <1>6, <1>7, <1>8, <1>9 DEF Good, WellFormed, g
-----------------------------------------------------------------------------
\* From h to g no used block appears, moves or changes size, other than those
\* in D, which are given back.
Keeps(h, g, D) ==
    /\ DOMAIN g \subseteq DOMAIN h
    /\ \A c \in DOMAIN h : ~h[c].is_free /\ c \notin D =>
          c \in DOMAIN g /\ ~g[c].is_free /\ g[c].size = h[c].size
    /\ \A c \in DOMAIN g : ~g[c].is_free => ~h[c].is_free /\ c \notin D

\* Every byte of a free block of h is in a free block of g.
Covers(h, g) ==
    \A c \in DOMAIN h : h[c].is_free =>
        \E d \in DOMAIN g : /\ g[d].is_free
                            /\ d <= c /\ c + h[c].size <= d + g[d].size

\* Two free neighbours can only be found at b's two ends, or only before b.
FreePairsAt(h, b) ==
    \A c \in DOMAIN h : h[c].is_free /\ IsFree(h, h[c].next) => c = b \/ h[c].next = b
FreePairsBefore(h, b) ==
    \A c \in DOMAIN h : h[c].is_free /\ IsFree(h, h[c].next) => h[c].next = b

\* Merging two free neighbours keeps used blocks and free bytes.
LEMMA AbsorbKeeps ==
    ASSUME NEW h, Good(h), NEW a \in DOMAIN h, NEW b \in DOMAIN h, h[a].next = b,
           h[a].is_free, h[b].is_free
    PROVE  LET g == Absorb(h, a, b) IN
           /\ Keeps(h, g, {}) /\ Covers(h, g)
           /\ DOMAIN g = DOMAIN h \ {b} /\ a # b
           /\ g[a].is_free /\ g[a].next = h[b].next /\ g[a].prev = h[a].prev
           /\ \A c \in DOMAIN h \ {a, b} :
                g[c].is_free = h[c].is_free /\ g[c].next = h[c].next /\ g[c].size = h[c].size
<1> DEFINE g == Absorb(h, a, b)
<1>0. MergeShape(h, a, b, g) /\ a # b
  BY AbsorbMerges
<1> HIDE DEF g
<1>1. /\ DOMAIN g = DOMAIN h \ {b}
      /\ g[a].size = h[a].size + h[b].size /\ g[a].is_free = h[a].is_free
      /\ g[a].next = h[b].next /\ g[a].prev = h[a].prev
  BY <1>0 DEF MergeShape
<1>2. \A c \in DOMAIN h \ {a, b} :
         g[c].is_free = h[c].is_free /\ g[c].next = h[c].next /\ g[c].size = h[c].size
  <2> TAKE c \in DOMAIN h \ {a, b}
  <2>1. g[c] = [size |-> h[c].size, is_free |-> h[c].is_free, next |-> h[c].next,
                prev |-> IF c = h[b].next THEN a ELSE h[c].prev]
    BY <1>0 DEF MergeShape
  <2> QED
    BY <2>1
<1>3. Keeps(h, g, {})
  BY <1>0, <1>1, <1>2 DEF Keeps
<1>4. Covers(h, g)
  <2> SUFFICES ASSUME NEW c \in DOMAIN h, h[c].is_free
               PROVE  \E d \in DOMAIN g : /\ g[d].is_free
                                          /\ d <= c /\ c + h[c].size <= d + g[d].size
    BY DEF Covers
  <2>1. /\ a \in Nat /\ b \in Nat /\ c \in Nat /\ b = a + h[a].size
        /\ h[a].size \in Nat /\ h[b].size \in Nat /\ h[c].size \in Nat
    BY BlockBounds, NextPrev
  <2>2. CASE c \in {a, b}
    <3>1. a \in DOMAIN g /\ g[a].is_free /\ a <= c /\ c + h[c].size <= a + g[a].size
      BY <2>1, <2>2, <1>0, <1>1
    <3> QED
      BY <3>1
  <2>3. CASE c \notin {a, b}
    <3>1. c \in DOMAIN g /\ g[c].is_free /\ g[c].size = h[c].size
      BY <2>3, <1>1, <1>2
    <3> QED
      BY <3>1, <2>1
  <2> QED
    BY <2>2, <2>3
<1> QED
  BY <1>0, <1>1, <1>2, <1>3, <1>4 DEF g

\* Two lists one after the other.
LEMMA KeepsTrans ==
    ASSUME NEW h, NEW g, NEW f, NEW D, Good(h), Good(g), Good(f),
           Keeps(h, g, D), Keeps(g, f, {}), Covers(h, g), Covers(g, f)
    PROVE  Keeps(h, f, D) /\ Covers(h, f)
<1>1. Keeps(h, f, D)
  BY DEF Keeps
<1>2. Covers(h, f)
  <2> SUFFICES ASSUME NEW c \in DOMAIN h, h[c].is_free
               PROVE  \E e \in DOMAIN f : /\ f[e].is_free
                                          /\ e <= c /\ c + h[c].size <= e + f[e].size
    BY DEF Covers
  <2>1. PICK d \in DOMAIN g : /\ g[d].is_free
                              /\ d <= c /\ c + h[c].size <= d + g[d].size
    BY DEF Covers
  <2>2. PICK e \in DOMAIN f : /\ f[e].is_free
                              /\ e <= d /\ d + g[d].size <= e + f[e].size
    BY <2>1 DEF Covers
  <2>3. /\ c \in Nat /\ d \in Nat /\ e \in Nat
        /\ h[c].size \in Nat /\ g[d].size \in Nat /\ f[e].size \in Nat
    BY BlockBounds
  <2>4. e <= c /\ c + h[c].size <= e + f[e].size
    BY <2>1, <2>2, <2>3
  <2> QED
    BY <2>2, <2>4
<1> QED
  BY <1>1, <1>2

\* The first merge of kfree (kheap.c:182-189).
LEMMA MergeForwardGood ==
    ASSUME NEW h, Good(h), NEW b \in DOMAIN h, h[b].is_free, FreePairsAt(h, b),
           IsFree(h, h[b].next) => ~IsFree(h, h[h[b].next].next)
    PROVE  LET g == MergeForward(h, b) IN
           /\ Good(g) /\ Keeps(h, g, {}) /\ Covers(h, g)
           /\ b \in DOMAIN g /\ g[b].is_free /\ FreePairsBefore(g, b)
<1> DEFINE g == MergeForward(h, b)
           n == h[b].next
<1>1. CASE ~IsFree(h, n)
  <2>1. g = h
    BY <1>1 DEF MergeForward
  <2>2. FreePairsBefore(h, b)
    BY <1>1 DEF FreePairsAt, FreePairsBefore
  <2>3. Keeps(h, h, {})
    BY DEF Keeps
  <2>4. Covers(h, h)
    BY BlockBounds DEF Covers
  <2> QED
    BY <2>1, <2>2, <2>3, <2>4
<1>2. CASE IsFree(h, n)
  <2>1. g = Absorb(h, b, n)
    BY <1>2 DEF MergeForward
  <2>2. n # NULL /\ n \in DOMAIN h /\ h[n].is_free
    BY <1>2, NextPrev DEF IsFree
  <2>3. Good(g)
    BY <2>1, <2>2, AbsorbGood
  <2> HIDE DEF g
  <2>4. /\ Keeps(h, g, {}) /\ Covers(h, g)
        /\ DOMAIN g = DOMAIN h \ {n} /\ b # n
        /\ g[b].is_free /\ g[b].next = h[n].next
        /\ \A c \in DOMAIN h \ {b, n} : g[c].is_free = h[c].is_free /\ g[c].next = h[c].next
    BY <2>1, <2>2, AbsorbKeeps
  <2>5. ~IsFree(h, h[n].next)
    BY <1>2
  <2>6. FreePairsBefore(g, b)
    <3> SUFFICES ASSUME NEW c \in DOMAIN g, g[c].is_free, IsFree(g, g[c].next)
                 PROVE  g[c].next = b
      BY DEF FreePairsBefore
    <3>1. g[c].next # NULL /\ g[g[c].next].is_free
      BY DEF IsFree
    <3>2. g[c].next \in DOMAIN g
      BY <3>1, <2>3, NextPrev
    <3>3. CASE c = b
      <4>1. g[c].next = h[n].next /\ h[n].next \in DOMAIN h
        BY <3>2, <3>3, <2>4
      <4>2. h[n].next # n /\ h[n].next # b
        BY <2>2, AbsorbMerges
      <4>3. h[h[n].next].is_free
        BY <4>1, <4>2, <3>1, <3>2, <2>4
      <4> QED
        BY <4>1, <4>3, <2>5, <3>1 DEF IsFree
    <3>4. CASE c # b
      <4>1. c \in DOMAIN h /\ h[c].is_free /\ g[c].next = h[c].next
        BY <3>4, <2>4
      <4>2. h[c].next \in DOMAIN h /\ h[h[c].next].is_free
        BY <4>1, <3>1, <3>2, <2>4, <2>2
      <4> QED
        BY <4>1, <4>2, <3>1, <3>4 DEF FreePairsAt, IsFree
    <3> QED
      BY <3>3, <3>4
  <2> QED
    BY <2>2, <2>3, <2>4, <2>6 DEF g
<1> QED
  BY <1>1, <1>2

\* The second merge of kfree (kheap.c:192-199).
LEMMA MergeBackwardGood ==
    ASSUME NEW h, Good(h), NEW b \in DOMAIN h, h[b].is_free, FreePairsBefore(h, b)
    PROVE  LET g == MergeBackward(h, b) IN
           Good(g) /\ Keeps(h, g, {}) /\ Covers(h, g) /\ Coalesced(g)
<1> DEFINE g == MergeBackward(h, b)
           p == h[b].prev
<1>1. CASE ~IsFree(h, p)
  <2>1. g = h
    BY <1>1 DEF MergeBackward
  <2>2. Coalesced(h)
    <3> SUFFICES ASSUME NEW c \in DOMAIN h, h[c].is_free, IsFree(h, h[c].next)
                 PROVE  FALSE
      BY DEF Coalesced
    <3>1. h[c].next = b
      BY DEF FreePairsBefore
    <3>2. p = c
      BY <3>1, NextPrev, BlockBounds
    <3> QED
      BY <3>2, <1>1, BlockBounds DEF IsFree
  <2>3. Keeps(h, h, {})
    BY DEF Keeps
  <2>4. Covers(h, h)
    BY BlockBounds DEF Covers
  <2> QED
    BY <2>1, <2>2, <2>3, <2>4
<1>2. CASE IsFree(h, p)
  <2>1. g = Absorb(h, p, b)
    BY <1>2 DEF MergeBackward
  <2>2. p # NULL /\ p \in DOMAIN h /\ h[p].is_free /\ h[p].next = b
    BY <1>2, NextPrev DEF IsFree
  <2>3. Good(g)
    BY <2>1, <2>2, AbsorbGood
  <2> HIDE DEF g
  <2>4. /\ Keeps(h, g, {}) /\ Covers(h, g)
        /\ DOMAIN g = DOMAIN h \ {b} /\ p # b
        /\ g[p].is_free /\ g[p].next = h[b].next
        /\ \A c \in DOMAIN h \ {p, b} : g[c].is_free = h[c].is_free /\ g[c].next = h[c].next
    BY <2>1, <2>2, AbsorbKeeps
  <2>5. h[b].next # b /\ h[b].next # p
    BY <2>2, AbsorbMerges
  <2>6. Coalesced(g)
    <3> SUFFICES ASSUME NEW c \in DOMAIN g, g[c].is_free, IsFree(g, g[c].next)
                 PROVE  FALSE
      BY DEF Coalesced
    <3>1. g[c].next # NULL /\ g[g[c].next].is_free
      BY DEF IsFree
    <3>2. g[c].next \in DOMAIN g
      BY <3>1, <2>3, NextPrev
    <3>3. CASE c = p
      <4>1. h[b].next \in DOMAIN h /\ h[h[b].next].is_free
        BY <3>1, <3>2, <3>3, <2>4, <2>5
      <4> QED
        BY <4>1, <3>1, <3>3, <2>4, <2>5 DEF FreePairsBefore, IsFree
    <3>4. CASE c # p
      <4>1. c \in DOMAIN h /\ h[c].is_free /\ g[c].next = h[c].next
        BY <3>4, <2>4
      <4>2. h[c].next \in DOMAIN h /\ h[h[c].next].is_free /\ h[c].next # b
        BY <4>1, <3>1, <3>2, <2>4, <2>2
      <4> QED
        BY <4>1, <4>2, <3>1 DEF FreePairsBefore, IsFree
    <3> QED
      BY <3>3, <3>4
  <2> QED
    BY <2>3, <2>4, <2>6 DEF g
<1> QED
  BY <1>1, <1>2

\* kfree's effect on the list: good, merged, and nobody else's block touched.
LEMMA ReleaseGood ==
    ASSUME NEW h, Good(h), Coalesced(h), NEW b \in DOMAIN h, ~h[b].is_free
    PROVE  LET g == Release(h, b) IN
           /\ Good(g) /\ Coalesced(g) /\ Keeps(h, g, {b}) /\ Covers(h, g)
           /\ \E d \in DOMAIN g : /\ g[d].is_free
                                  /\ d <= b /\ b + h[b].size <= d + g[d].size
<1> DEFINE h1 == Write(h, b, [h[b] EXCEPT !.is_free = TRUE])
           h2 == MergeForward(h1, b)
           g == MergeBackward(h2, b)
<1>1. /\ Good(h1) /\ DOMAIN h1 = DOMAIN h
      /\ h1[b] = [h[b] EXCEPT !.is_free = TRUE]
      /\ \A c \in DOMAIN h : c # b => h1[c] = h[c]
  <2>1. h1 = FlagSet(h, b, TRUE)
    BY DEF FlagSet
  <2> HIDE DEF h1, h2, g
  <2>2. Good(h1) /\ MarkShape(h, b, TRUE, h1)
    BY <2>1, MarkGood
  <2> QED
    BY <2>2 DEF MarkShape
<1> HIDE DEF h1
<1>2. /\ h1[b].is_free /\ h1[b].next = h[b].next /\ h1[b].size = h[b].size
  BY <1>1 DEF Good, HeapType, Headers
<1>3. Keeps(h, h1, {b})
  BY <1>1, <1>2 DEF Keeps
<1>4. Covers(h, h1)
  BY <1>1, <1>2, BlockBounds DEF Covers
<1>5. FreePairsAt(h1, b)
  <2> SUFFICES ASSUME NEW c \in DOMAIN h1, h1[c].is_free, IsFree(h1, h1[c].next),
                      c # b, h1[c].next # b
               PROVE  FALSE
    BY DEF FreePairsAt
  <2>1. h1[c].next \in DOMAIN h
    BY <1>1, NextPrev DEF IsFree
  <2>2. h[c].is_free /\ IsFree(h, h[c].next)
    BY <2>1, <1>1 DEF IsFree
  <2> QED
    BY <2>2, <1>1 DEF Coalesced
<1>6. IsFree(h1, h1[b].next) => ~IsFree(h1, h1[h1[b].next].next)
  <2> SUFFICES ASSUME IsFree(h1, h1[b].next), IsFree(h1, h1[h1[b].next].next)
               PROVE  FALSE
    OBVIOUS
  <2> DEFINE n == h1[b].next
             m == h1[n].next
  <2>0. n \in DOMAIN h1 /\ h1[n].is_free
    BY <1>1, NextPrev DEF IsFree
  <2>1. n # b /\ m # b /\ m # NULL
    BY <1>1, <2>0, AbsorbMerges DEF IsFree
  <2>2. m \in DOMAIN h1
    BY <1>1, <2>0, <2>1, NextPrev
  <2>3. h[n].is_free /\ h[n].next = m /\ h[m].is_free /\ n \in DOMAIN h
    BY <2>0, <2>1, <2>2, <1>1 DEF IsFree
  <2> QED
    BY <2>1, <2>3, <1>1 DEF Coalesced, IsFree
<1>7. /\ Good(h2) /\ Keeps(h1, h2, {}) /\ Covers(h1, h2)
      /\ b \in DOMAIN h2 /\ h2[b].is_free /\ FreePairsBefore(h2, b)
  BY <1>1, <1>2, <1>5, <1>6, MergeForwardGood
<1> HIDE DEF h2
<1>8. Good(g) /\ Keeps(h2, g, {}) /\ Covers(h2, g) /\ Coalesced(g)
  BY <1>7, MergeBackwardGood
<1>9. g = Release(h, b)
  BY DEF Release, Marked, g, h2, h1
<1> HIDE DEF g
<1>10. Keeps(h, h2, {b}) /\ Covers(h, h2)
  BY <1>1, <1>3, <1>4, <1>7, KeepsTrans
<1>11. Keeps(h, g, {b}) /\ Covers(h, g)
  BY <1>7, <1>8, <1>10, KeepsTrans
<1>12. Covers(h1, g)
  BY <1>1, <1>7, <1>8, KeepsTrans
<1>13. \E d \in DOMAIN g : /\ g[d].is_free
                           /\ d <= b /\ b + h[b].size <= d + g[d].size
  BY <1>1, <1>2, <1>12 DEF Covers
<1> QED
  BY <1>8, <1>9, <1>11, <1>13
\* kmalloc's effect on the list, split or not (kheap.c:76-97).
LEMMA CarveGood ==
    ASSUME NEW h, Good(h), Coalesced(h), NEW b \in DOMAIN h, h[b].is_free,
           NEW need \in Nat, need >= HDR, need <= h[b].size
    PROVE  LET g == Carve(h, b, need) IN
           /\ Good(g) /\ Coalesced(g)
           /\ b \in DOMAIN g /\ ~g[b].is_free /\ g[b].size >= need
           /\ \A c \in DOMAIN h \ {b} :
                c \in DOMAIN g /\ g[c].is_free = h[c].is_free /\ g[c].size = h[c].size
           /\ \A c \in DOMAIN g : ~g[c].is_free => c \in DOMAIN h
           /\ IF Splits(h, b, need)
              THEN /\ g[b].size = need /\ b + need \in DOMAIN g
                   /\ g[b + need].is_free /\ g[b + need].size = h[b].size - need
              ELSE g[b].size = h[b].size
<1> DEFINE g == Carve(h, b, need)
<1>0. \A c \in DOMAIN h : h[c].is_free => ~IsFree(h, h[c].next)
  BY DEF Coalesced
<1>1. CASE Splits(h, b, need)
  <2>1. SplitShape(h, b, need, g) /\ Good(g)
    BY <1>1, CarveSplits, CarveSplitGood
  <2> HIDE DEF g
  <2> DEFINE new == b + need
  <2>2. /\ new \notin DOMAIN h /\ DOMAIN g = DOMAIN h \cup {new}
        /\ g[b].size = need /\ ~g[b].is_free /\ g[b].next = new
        /\ g[new].size = h[b].size - need /\ g[new].is_free /\ g[new].next = h[b].next
    BY <2>1 DEF SplitShape
  <2>3. \A c \in DOMAIN h \ {b} :
           g[c].is_free = h[c].is_free /\ g[c].size = h[c].size /\ g[c].next = h[c].next
    <3> TAKE c \in DOMAIN h \ {b}
    <3>1. g[c] = [size |-> h[c].size, is_free |-> h[c].is_free, next |-> h[c].next,
                  prev |-> IF c = h[b].next THEN b + need ELSE h[c].prev]
      BY <2>1 DEF SplitShape
    <3> QED
      BY <3>1
  <2> HIDE DEF new
  <2>4. Coalesced(g)
    <3> SUFFICES ASSUME NEW c \in DOMAIN g, g[c].is_free, IsFree(g, g[c].next)
                 PROVE  FALSE
      BY DEF Coalesced
    <3>1. g[c].next # NULL /\ g[g[c].next].is_free
      BY DEF IsFree
    <3>2. PICK e \in DOMAIN h : h[e].is_free /\ g[c].next = h[e].next
      <4>1. CASE c = new
        BY <4>1, <2>2
      <4>2. CASE c # new
        BY <4>2, <2>2, <2>3
      <4> QED
        BY <4>1, <4>2
    <3>3. h[e].next \in DOMAIN h /\ h[e].next # b
      BY <3>1, <3>2, <2>2, NextPrev
    <3> QED
      BY <3>1, <3>2, <3>3, <2>3, <1>0 DEF IsFree
  <2>5. \A c \in DOMAIN g : ~g[c].is_free => c \in DOMAIN h
    BY <2>2
  <2>6. \A c \in DOMAIN h \ {b} :
           c \in DOMAIN g /\ g[c].is_free = h[c].is_free /\ g[c].size = h[c].size
    BY <2>2, <2>3
  <2>7. b \in DOMAIN g /\ g[b].size >= need
    BY <2>2
  <2>8. /\ g[b].size = need /\ ~g[b].is_free /\ b + need \in DOMAIN g
        /\ g[b + need].is_free /\ g[b + need].size = h[b].size - need
    BY <2>2 DEF new
  <2> QED
    BY <1>1, <2>1, <2>4, <2>5, <2>6, <2>7, <2>8 DEF g
<1>2. CASE ~Splits(h, b, need)
  <2> DEFINE w == Write(h, b, [h[b] EXCEPT !.is_free = FALSE])
  <2>0. /\ Good(w) /\ DOMAIN w = DOMAIN h
        /\ w[b] = [h[b] EXCEPT !.is_free = FALSE]
        /\ \A c \in DOMAIN h : c # b => w[c] = h[c]
    <3>1. w = FlagSet(h, b, FALSE)
      BY DEF FlagSet
    <3> HIDE DEF g, w
    <3>2. Good(w) /\ MarkShape(h, b, FALSE, w)
      BY <3>1, MarkGood
    <3> QED
      BY <3>2 DEF MarkShape
  <2>1. g = w
    BY <1>2 DEF Carve
  <2> HIDE DEF g, w
  <2>2. /\ Good(g) /\ DOMAIN g = DOMAIN h
        /\ g[b] = [h[b] EXCEPT !.is_free = FALSE]
        /\ \A c \in DOMAIN h : c # b => g[c] = h[c]
    BY <2>0, <2>1
  <2>3. g[b].size = h[b].size /\ ~g[b].is_free /\ g[b].next = h[b].next
    BY <2>2 DEF Good, HeapType, Headers
  <2>4. Coalesced(g)
    <3> SUFFICES ASSUME NEW c \in DOMAIN g, g[c].is_free, IsFree(g, g[c].next)
                 PROVE  FALSE
      BY DEF Coalesced
    <3>1. g[c].next # NULL /\ g[g[c].next].is_free /\ c # b
      BY <2>3 DEF IsFree
    <3>2. h[c].next \in DOMAIN h /\ h[c].next = g[c].next
      BY <3>1, <2>2, NextPrev
    <3> QED
      BY <3>1, <3>2, <2>2, <2>3, <1>0 DEF IsFree
  <2> QED
    BY <1>2, <2>2, <2>3, <2>4 DEF g
<1> QED
  BY <1>1, <1>2
-----------------------------------------------------------------------------
\* A pending request asks for a block that holds its header and its bytes.
CallOK ==
    call # Idle => /\ call \in Calls
                   /\ call.need >= HDR /\ call.need >= call.asked + HDR

\* The header of a freed block lies inside some free block.
FreedInside ==
    \A a \in DOMAIN freed : \E d \in Blocks : /\ hdr[d].is_free
                                              /\ d <= a /\ a + HDR <= d + hdr[d].size

\* The flag last written in the header of a freed block says free.
FlagsLeft == \A a \in DOMAIN freed : freed[a] = TRUE

\* The inductive invariant.
HeapInv ==
    /\ TypeOK /\ Tiled /\ NoAdjacentFree /\ LiveExact
    /\ WalkSound /\ CallOK /\ FreedInside /\ FlagsLeft

\* The size computation of kmalloc never gives a block that is too small.
LEMMA NeedCovers ==
    ASSUME NEW s \in Nat, s + ALIGN + HDR <= WORD
    PROVE  Need(s) \in Nat /\ Need(s) >= s + HDR
<1>1. /\ ALIGN \in Nat /\ ALIGN > 0 /\ HDR \in Nat /\ HDR > 0 /\ WORD \in Nat /\ WORD > 0
  BY HeapAssumption
<1> DEFINE t == s + ALIGN - 1
           q == t \div ALIGN
<1>2. t \in Nat /\ t < WORD
  BY <1>1
<1>3. t % WORD = t
  BY <1>1, <1>2
<1>4. q \in Nat /\ q * ALIGN <= t /\ t < (q + 1) * ALIGN
  BY <1>1, <1>2
<1>5. (q + 1) * ALIGN = q * ALIGN + ALIGN /\ q * ALIGN \in Nat
  BY <1>1, <1>4
<1>6. q * ALIGN >= s /\ q * ALIGN + HDR < WORD
  BY <1>1, <1>4, <1>5
<1>7. RoundUp(s) = q * ALIGN
  BY <1>3 DEF RoundUp
<1>8. (q * ALIGN + HDR) % WORD = q * ALIGN + HDR
  BY <1>1, <1>5, <1>6
<1> QED
  BY <1>1, <1>5, <1>6, <1>7, <1>8 DEF Need

\* The single free block that init_kheap leaves satisfies the invariant.
LEMMA HeapInit == Init => HeapInv
<1> SUFFICES ASSUME Init PROVE HeapInv
  OBVIOUS
<1> DEFINE first == [size |-> HeapSize, is_free |-> TRUE, next |-> NULL, prev |-> NULL]
<1>1. /\ hdr = [b \in {HeapStart} |-> first] /\ Blocks = {HeapStart} /\ hdr[HeapStart] = first
      /\ hdr[HeapStart].size = HeapSize /\ hdr[HeapStart].next = NULL
      /\ hdr[HeapStart].prev = NULL /\ hdr[HeapStart].is_free
  BY DEF Init, Blocks
<1>2. HeapStart \in HeapStart..(HeapEnd - 1) /\ HeapStart + HeapSize = HeapEnd
  BY HeapAssumption DEF HeapEnd
<1>3. TypeOK
  <2>1. first \in Headers
    BY HeapAssumption DEF Headers, NULL
  <2>2. hdr \in [Blocks -> Headers]
    BY <1>1, <2>1
  <2>3. used \in Int /\ call = Idle
    BY HeapAssumption DEF Init
  <2>5. DOMAIN freed = {} /\ freed \in [{} -> BOOLEAN]
    BY DEF Init
  <2>4. DOMAIN live = {} /\ live \in [{} -> Nat]
    BY DEF Init
  <2> QED
    BY <1>1, <1>2, <2>2, <2>3, <2>4, <2>5 DEF TypeOK
<1>4. Tiled
  BY <1>1, <1>2, HeapAssumption
     DEF Tiled, WellFormed, Linked, LinkedBack, Apart, Blocks
<1>5. NoAdjacentFree
  BY <1>1 DEF NoAdjacentFree, Coalesced, IsFree, Blocks
<1>6. LiveExact
  <2>1. DOMAIN live = {}
    BY DEF Init
  <2> QED
    BY <1>1, <2>1 DEF LiveExact
<1>7. WalkSound /\ CallOK
  BY DEF Init, WalkSound, CallOK
<1>8. FreedInside /\ FlagsLeft
  <2>1. DOMAIN freed = {}
    BY DEF Init
  <2> QED
    BY <2>1 DEF FreedInside, FlagsLeft
<1> QED
  BY <1>3, <1>4, <1>5, <1>6, <1>7, <1>8 DEF HeapInv

\* The invariant speaks of a good, merged list.
LEMMA InvGood ==
    ASSUME HeapInv
    PROVE  Good(hdr) /\ Coalesced(hdr)
  BY DEF HeapInv, TypeOK, Tiled, NoAdjacentFree, Good, HeapType, Blocks

\* A step that leaves the heap alone and keeps the walk sound.
LEMMA SameHeap ==
    ASSUME HeapInv, UNCHANGED <<hdr, used, live, freed>>,
           call' = Idle \/ call' \in Calls, WalkSound', CallOK'
    PROVE  HeapInv'
<1>1. TypeOK'
  BY DEF HeapInv, TypeOK, Blocks
<1>2. Tiled' /\ NoAdjacentFree'
  BY DEF HeapInv, Tiled, NoAdjacentFree
<1>3. LiveExact'
  BY DEF HeapInv, LiveExact, Blocks
<1>4. FreedInside' /\ FlagsLeft'
  BY DEF HeapInv, FreedInside, FlagsLeft, Blocks
<1> QED
  BY <1>1, <1>2, <1>3, <1>4 DEF HeapInv

\* Any allocation begins: the walk stands at the first block.
LEMMA StartInv ==
    ASSUME HeapInv, NEW op \in {"kmalloc", "kcalloc", "krealloc"},
           NEW s \in Nat, NEW asked \in Nat, NEW old \in DOMAIN live \cup {NULL},
           Need(s) \in Nat, Need(s) >= asked + HDR,
           old # NULL => hdr[old].size < asked + HDR,
           Start(op, s, asked, old)
    PROVE  HeapInv'
<1> DEFINE c == [op |-> op, need |-> Need(s), asked |-> asked, old |-> old, cur |-> HeapStart]
<1>0. call' = c /\ UNCHANGED <<hdr, used, live, freed>>
  BY DEF Start
<1>1. old \in Nat
  <2>1. CASE old = NULL
    BY <2>1 DEF NULL
  <2>2. CASE old \in DOMAIN live
    BY <2>2, BlockBounds, InvGood DEF HeapInv, TypeOK, Blocks
  <2> QED
    BY <2>1, <2>2
<1>2. c \in Calls
  BY <1>1, Arena DEF Calls
<1>3. CallOK'
  BY <1>0, <1>2, Arena DEF CallOK
<1>4. WalkSound'
  <2>1. call'.cur = HeapStart /\ call'.old = old /\ call'.need = Need(s) /\ call'.asked = asked
    BY <1>0
  <2>2. HeapStart \in Blocks
    BY DEF HeapInv, Tiled, WellFormed, Blocks
  <2>3. \A b \in Blocks : ~(b < HeapStart)
    BY BlockBounds, InvGood, Arena DEF Blocks
  <2>4. HeapStart # NULL
    BY Arena, HeapAssumption DEF NULL
  <2> QED
    BY <1>0, <2>1, <2>2, <2>3, <2>4 DEF WalkSound, Blocks
<1> QED
  BY <1>0, <1>2, <1>3, <1>4, SameHeap

\* The walk moves on to the next block.
LEMMA WalkOnInv ==
    ASSUME HeapInv, WalkOn
    PROVE  HeapInv'
<1> DEFINE b == call.cur
<1>1. /\ call # Idle /\ b # NULL /\ ~(hdr[b].is_free /\ hdr[b].size >= call.need)
      /\ call' = [call EXCEPT !.cur = hdr[b].next]
      /\ UNCHANGED <<hdr, used, live, freed>>
  BY DEF WalkOn, Fits
<1>2. call \in Calls /\ b \in Blocks /\ call.need \in Nat
  BY <1>1 DEF HeapInv, CallOK, WalkSound, Calls
<1>3. /\ call'.cur = hdr[b].next /\ call'.need = call.need /\ call'.asked = call.asked
      /\ call'.old = call.old /\ call' \in Calls
  BY <1>1, <1>2, BlockBounds, InvGood DEF Calls, Blocks
<1>4. CallOK'
  BY <1>1, <1>3 DEF HeapInv, CallOK
<1>5. call'.cur \in Blocks \cup {NULL}
  BY <1>2, <1>3, NextPrev, InvGood DEF Blocks
<1>6. ASSUME NEW c \in Blocks, call'.cur = NULL \/ c < call'.cur, hdr[c].is_free
      PROVE  hdr[c].size < call.need
  <2>1. /\ c \in Nat /\ b \in Nat /\ hdr[b].size \in Nat /\ hdr[c].size \in Nat /\ c < HeapEnd
        /\ HeapEnd \in Nat
    BY <1>2, BlockBounds, InvGood, Arena DEF Blocks
  <2>2. CASE b < c
    <3>1. b + hdr[b].size <= c
      BY <2>2, <1>2 DEF HeapInv, Tiled, WellFormed, Apart, Blocks
    <3>2. hdr[b].next = NULL \/ hdr[b].next = b + hdr[b].size
      BY <1>2, NextPrev, InvGood DEF Blocks
    <3>3. hdr[b].next = NULL => b + hdr[b].size = HeapEnd
      BY <1>2, NextPrev, InvGood DEF Blocks
    <3> QED
      BY <3>1, <3>2, <3>3, <2>1, <1>3, <1>6
  <2>3. CASE c = b
    BY <2>3, <1>1, <1>2, <1>6, <2>1
  <2>4. CASE c < b
    BY <2>4, <1>1, <1>2, <1>6 DEF HeapInv, WalkSound
  <2> QED
    BY <2>1, <2>2, <2>3, <2>4
<1>7. call.old # NULL =>
         call.old \in DOMAIN live /\ hdr[call.old].size < call.asked + HDR
  BY <1>1 DEF HeapInv, WalkSound
<1>8. WalkSound'
  BY <1>1, <1>3, <1>5, <1>6, <1>7 DEF WalkSound, Blocks
<1> QED
  BY <1>1, <1>3, <1>4, <1>8, SameHeap

\* The walk ends without a block.
LEMMA WalkFailsInv ==
    ASSUME HeapInv, WalkFails
    PROVE  HeapInv'
<1>1. call' = Idle /\ UNCHANGED <<hdr, used, live, freed>>
  BY DEF WalkFails
<1>2. WalkSound' /\ CallOK'
  BY <1>1 DEF WalkSound, CallOK
<1> QED
  BY <1>1, <1>2, SameHeap
\* A step that ends idle with a good, merged list whose used blocks are held.
LEMMA NewHeap ==
    ASSUME Good(hdr'), Coalesced(hdr'), call' = Idle, used' \in Int, LiveExact',
           live' \in [DOMAIN live' -> Nat], FreedInside', FlagsLeft',
           freed' \in [DOMAIN freed' -> BOOLEAN], DOMAIN freed' \subseteq HeapStart..(HeapEnd - 1)
    PROVE  HeapInv'
<1>1. TypeOK'
  BY DEF TypeOK, Good, HeapType, LiveExact, Blocks
<1>2. Tiled' /\ NoAdjacentFree'
  BY DEF Good, Tiled, NoAdjacentFree
<1>3. WalkSound' /\ CallOK'
  BY DEF WalkSound, CallOK
<1> QED
  BY <1>1, <1>2, <1>3 DEF HeapInv

\* A linked header inside a free block is the header of that block.
LEMMA LinkedInsideFree ==
    ASSUME NEW h, Good(h), NEW b \in DOMAIN h, NEW d \in DOMAIN h, h[d].is_free,
           d <= b, b + HDR <= d + h[d].size
    PROVE  h[b].is_free
<1>1. b \in Nat /\ d \in Nat /\ h[d].size \in Nat /\ HDR \in Nat /\ HDR > 0
  BY BlockBounds, Arena
<1>2. d < b => d + h[d].size <= b
  BY DEF Good, WellFormed, Apart
<1>3. d = b
  BY <1>1, <1>2
<1> QED
  BY <1>3

\* kfree of a held block: the rest of the callers keep what they hold.
LEMMA kfreeHeap ==
    ASSUME NEW h, Good(h), Coalesced(h), NEW b \in DOMAIN h, ~h[b].is_free,
           NEW l, l \in [DOMAIN l -> Nat], DOMAIN l = {c \in DOMAIN h : ~h[c].is_free},
           \A c \in DOMAIN l : l[c] + HDR <= h[c].size,
           NEW F, F \subseteq DOMAIN freed, F \subseteq HeapStart..(HeapEnd - 1), FlagsLeft,
           \A a \in F : \E d \in DOMAIN h : /\ h[d].is_free
                                            /\ d <= a /\ a + HDR <= d + h[d].size,
           hdr' = Release(h, b), live' = [a \in DOMAIN l \ {b} |-> l[a]],
           freed' = Flags(Marked(h, b), F \cup {b}), call' = Idle, used' \in Int
    PROVE  HeapInv'
<1> DEFINE g == Release(h, b)
<1>1. /\ Good(g) /\ Coalesced(g) /\ Keeps(h, g, {b}) /\ Covers(h, g)
      /\ \E d \in DOMAIN g : /\ g[d].is_free
                             /\ d <= b /\ b + h[b].size <= d + g[d].size
  BY ReleaseGood
<1>2. hdr' = g
  OBVIOUS
<1> HIDE DEF g
<1>3. /\ DOMAIN live' = DOMAIN l \ {b}
      /\ \A c \in DOMAIN l \ {b} : live'[c] = l[c]
      /\ live' \in [DOMAIN live' -> Nat]
  OBVIOUS
<1>4. LiveExact'
  <2>1. DOMAIN live' = {c \in DOMAIN g : ~g[c].is_free}
    BY <1>1, <1>3 DEF Keeps
  <2>2. \A c \in DOMAIN live' : live'[c] + HDR <= g[c].size
    BY <1>1, <1>3 DEF Keeps
  <2> QED
    BY <2>1, <2>2, <1>2 DEF LiveExact, Blocks
<1>5. FreedInside'
  <2>1. ASSUME NEW a \in F
        PROVE  \E d \in DOMAIN g : g[d].is_free /\ d <= a /\ a + HDR <= d + g[d].size
    <3>1. PICK d \in DOMAIN h : h[d].is_free /\ d <= a /\ a + HDR <= d + h[d].size
      OBVIOUS
    <3>2. PICK e \in DOMAIN g : g[e].is_free /\ e <= d /\ d + h[d].size <= e + g[e].size
      BY <3>1, <1>1 DEF Covers
    <3>3. /\ d \in Nat /\ e \in Nat /\ h[d].size \in Nat /\ g[e].size \in Nat
          /\ a \in Nat /\ HDR \in Nat
      BY <1>1, BlockBounds, Arena
    <3>4. e <= a /\ a + HDR <= e + g[e].size
      BY <3>1, <3>2, <3>3
    <3> QED
      BY <3>2, <3>4
  <2>2. \E d \in DOMAIN g : g[d].is_free /\ d <= b /\ b + HDR <= d + g[d].size
    <3>1. PICK d \in DOMAIN g : g[d].is_free /\ d <= b /\ b + h[b].size <= d + g[d].size
      BY <1>1
    <3>2. d \in Nat /\ b \in Nat /\ g[d].size \in Nat /\ h[b].size \in Nat /\ h[b].size >= HDR
          /\ HDR \in Nat
      BY <1>1, BlockBounds, Arena
    <3> QED
      BY <3>1, <3>2
  <2>3. DOMAIN freed' = F \cup {b}
    BY DEF Flags
  <2> QED
    BY <2>1, <2>2, <2>3, <1>2 DEF FreedInside, Blocks
<1>6. DOMAIN freed' \subseteq HeapStart..(HeapEnd - 1)
  BY DEF Good, HeapType, Flags
<1>7. \A a \in F \cup {b} : freed'[a] = TRUE
  <2> DEFINE m == Marked(h, b)
  <2>1. /\ DOMAIN m = DOMAIN h /\ m[b] = [h[b] EXCEPT !.is_free = TRUE]
        /\ \A c \in DOMAIN h : c # b => m[c] = h[c]
    BY DEF Marked, Write
  <2>2. freed' = [a \in F \cup {b} |-> IF a \in DOMAIN m THEN m[a].is_free ELSE freed[a]]
    BY DEF Flags
  <2> HIDE DEF m
  <2>3. m[b].is_free = TRUE
    BY <2>1 DEF Good, HeapType, Headers
  <2>4. ASSUME NEW a \in F, a \in DOMAIN h, a # b
        PROVE  m[a].is_free = TRUE
    <3>1. h[a].is_free
      BY <2>4, LinkedInsideFree
    <3>2. h[a].is_free \in BOOLEAN
      BY <2>4 DEF Good, HeapType, Headers
    <3> QED
      BY <3>1, <3>2, <2>1, <2>4
  <2>5. ASSUME NEW a \in F, a \notin DOMAIN h
        PROVE  freed[a] = TRUE
    BY <2>5 DEF FlagsLeft
  <2> QED
    BY <2>1, <2>2, <2>3, <2>4, <2>5
<1>8. FlagsLeft' /\ freed' \in [DOMAIN freed' -> BOOLEAN]
  <2>1. DOMAIN freed' = F \cup {b} /\ freed' = [a \in DOMAIN freed' |-> freed'[a]]
    BY DEF Flags
  <2>2. FlagsLeft'
    BY <2>1, <1>7 DEF FlagsLeft
  <2> QED
    BY <2>1, <2>2, <1>7
<1> QED
  BY <1>1, <1>2, <1>3, <1>4, <1>5, <1>6, <1>8, NewHeap

\* A block that reads as free is not held; one that does not is held.
LEMMA ReadsFreeMeans ==
    ASSUME HeapInv, NEW b \in DOMAIN live \cup DOMAIN freed, ~ReadsFree(b)
    PROVE  b \in Blocks /\ ~hdr[b].is_free /\ b \in DOMAIN live
  BY DEF ReadsFree, HeapInv, LiveExact, FlagsLeft

\* kfree keeps the invariant, whether the block is held or freed before.
LEMMA kfreeInv ==
    ASSUME HeapInv, NEW b \in DOMAIN live \cup DOMAIN freed, kfree(b)
    PROVE  HeapInv'
<1>1. CASE ReadsFree(b)
  <2>1. UNCHANGED heapVars
    BY <1>1 DEF kfree
  <2>2. UNCHANGED <<hdr, used, live, freed>> /\ call' = call
    BY <2>1 DEF heapVars
  <2>3. WalkSound' /\ CallOK'
    BY <2>2 DEF HeapInv, WalkSound, CallOK, Blocks
  <2> QED
    BY <2>2, <2>3, SameHeap DEF HeapInv, TypeOK
<1>2. CASE ~ReadsFree(b)
  <2>1. /\ hdr' = Release(hdr, b) /\ used' = used - hdr[b].size
        /\ live' = [a \in DOMAIN live \ {b} |-> live[a]]
        /\ freed' = Flags(Marked(hdr, b), DOMAIN freed \cup {b}) /\ call' = Idle
    BY <1>2 DEF kfree
  <2>2. b \in DOMAIN hdr /\ ~hdr[b].is_free
    BY <1>2, ReadsFreeMeans DEF Blocks
  <2>3. Good(hdr) /\ Coalesced(hdr)
    BY InvGood
  <2>4. used' \in Int
    BY <2>1, <2>2, <2>3, BlockBounds DEF HeapInv, TypeOK
  <2>5. /\ live \in [DOMAIN live -> Nat] /\ DOMAIN live = {c \in DOMAIN hdr : ~hdr[c].is_free}
        /\ \A c \in DOMAIN live : live[c] + HDR <= hdr[c].size
        /\ DOMAIN freed \subseteq HeapStart..(HeapEnd - 1) /\ FlagsLeft
    BY DEF HeapInv, TypeOK, LiveExact, Blocks
  <2>6. \A a \in DOMAIN freed : \E d \in DOMAIN hdr : /\ hdr[d].is_free
                                                      /\ d <= a /\ a + HDR <= d + hdr[d].size
    BY DEF HeapInv, FreedInside, Blocks
  <2> QED
    BY <2>1, <2>2, <2>3, <2>4, <2>5, <2>6, kfreeHeap
<1> QED
  BY <1>1, <1>2

\* krealloc within the old block: the caller's claim changes, the list does not.
LEMMA KeepInv ==
    ASSUME HeapInv, NEW b \in DOMAIN live, NEW s \in Nat, KeepsBlock(b, s), call = Idle,
           live' = [live EXCEPT ![b] = s], UNCHANGED <<hdr, used, call, freed>>
    PROVE  HeapInv'
<1>1. DOMAIN live' = DOMAIN live /\ live' \in [DOMAIN live' -> Nat]
      /\ live'[b] = s /\ \A c \in DOMAIN live : c # b => live'[c] = live[c]
  BY DEF HeapInv, TypeOK
<1>2. s + HDR <= hdr[b].size
  <2>1. b \in DOMAIN hdr
    BY DEF HeapInv, TypeOK, Blocks
  <2>2. hdr[b].size \in Nat /\ HDR \in Nat
    BY <2>1, InvGood, BlockBounds, Arena
  <2> QED
    BY <2>2 DEF KeepsBlock
<1>3. LiveExact'
  BY <1>1, <1>2 DEF HeapInv, LiveExact, Blocks
<1>4. FreedInside' /\ FlagsLeft'
  BY DEF HeapInv, FreedInside, FlagsLeft, Blocks
<1>5. Good(hdr') /\ Coalesced(hdr')
  BY InvGood
<1> QED
  BY <1>1, <1>3, <1>4, <1>5, NewHeap DEF HeapInv, TypeOK

\* The block found by the walk becomes the caller's.
LEMMA WalkTakesInv ==
    ASSUME HeapInv, WalkTakes
    PROVE  HeapInv'
<1> DEFINE b == call.cur
           h == Carve(hdr, b, call.need)
           l == [a \in DOMAIN live \cup {b} |-> IF a = b THEN call.asked ELSE live[a]]
           K == Spared(b, b + h[b].size + (IF Splits(hdr, b, call.need) THEN HDR ELSE 0))
<1>1. /\ call # Idle /\ b # NULL /\ hdr[b].is_free /\ hdr[b].size >= call.need /\ call' = Idle
  BY DEF WalkTakes, Fits
<1>2. /\ call \in Calls /\ call.need \in Nat /\ call.asked \in Nat
      /\ call.need >= HDR /\ call.need >= call.asked + HDR
  BY <1>1 DEF HeapInv, CallOK, Calls
<1>3. b \in DOMAIN hdr /\ Good(hdr) /\ Coalesced(hdr)
  BY <1>1, InvGood DEF HeapInv, WalkSound, Blocks
<1>4. /\ Good(h) /\ Coalesced(h)
      /\ b \in DOMAIN h /\ ~h[b].is_free /\ h[b].size >= call.need
      /\ \A c \in DOMAIN hdr \ {b} :
           c \in DOMAIN h /\ h[c].is_free = hdr[c].is_free /\ h[c].size = hdr[c].size
      /\ \A c \in DOMAIN h : ~h[c].is_free => c \in DOMAIN hdr
      /\ IF Splits(hdr, b, call.need)
         THEN /\ h[b].size = call.need /\ b + call.need \in DOMAIN h
              /\ h[b + call.need].is_free
              /\ h[b + call.need].size = hdr[b].size - call.need
         ELSE h[b].size = hdr[b].size
  BY <1>1, <1>2, <1>3, CarveGood
<1>5. IF call.old = NULL
      THEN hdr' = h /\ used' = used + h[b].size /\ live' = l /\ freed' = [a \in K |-> freed[a]]
      ELSE /\ hdr' = Release(h, call.old)
           /\ used' = used + h[b].size - h[call.old].size
           /\ live' = [a \in DOMAIN l \ {call.old} |-> l[a]]
           /\ freed' = Flags(Marked(h, call.old), K \cup {call.old})
  BY DEF WalkTakes
<1> HIDE DEF h
<1>6. /\ DOMAIN live = {c \in DOMAIN hdr : ~hdr[c].is_free}
      /\ \A c \in DOMAIN live : live[c] + HDR <= hdr[c].size
      /\ live \in [DOMAIN live -> Nat] /\ used \in Int
  BY DEF HeapInv, TypeOK, LiveExact, Blocks
<1>7. /\ DOMAIN l = DOMAIN live \cup {b} /\ l \in [DOMAIN l -> Nat]
      /\ l[b] = call.asked /\ \A c \in DOMAIN live : c # b => l[c] = live[c]
  BY <1>2, <1>6
<1>8. K \subseteq DOMAIN freed /\ DOMAIN freed \subseteq HeapStart..(HeapEnd - 1)
  BY DEF Spared, HeapInv, TypeOK
<1>9. ASSUME NEW a \in K
      PROVE  \E d \in DOMAIN h : h[d].is_free /\ d <= a /\ a + HDR <= d + h[d].size
  <2>1. a \in DOMAIN freed
    BY <1>8, <1>9
  <2>2. PICK d \in DOMAIN hdr : hdr[d].is_free /\ d <= a /\ a + HDR <= d + hdr[d].size
    BY <2>1 DEF HeapInv, FreedInside, Blocks
  <2>3. CASE d # b
    <3>1. d \in DOMAIN h /\ h[d].is_free /\ h[d].size = hdr[d].size
      BY <2>2, <2>3, <1>4
    <3> QED
      BY <2>2, <3>1
  <2>4. CASE d = b
    <3>1. /\ a \in Nat /\ b \in Nat /\ hdr[b].size \in Nat /\ HDR \in Nat /\ HDR > 0
          /\ h[b].size \in Nat
      BY <2>1, <1>3, <1>4, <1>8, BlockBounds, Arena
    <3>2. CASE Splits(hdr, b, call.need)
      <4>1. K = Spared(b, b + call.need + HDR)
        BY <3>2, <1>4
      <4>2. a + HDR <= b \/ a >= b + call.need + HDR
        BY <4>1, <1>9 DEF Spared
      <4>3. a >= b + call.need + HDR
        BY <4>2, <2>2, <2>4, <3>1
      <4>4. /\ b + call.need <= a
            /\ a + HDR <= (b + call.need) + (hdr[b].size - call.need)
        BY <4>3, <2>2, <2>4, <3>1, <1>2
      <4> QED
        BY <4>4, <3>2, <1>4
    <3>3. CASE ~Splits(hdr, b, call.need)
      <4>1. K = Spared(b, b + hdr[b].size + 0)
        BY <3>3, <1>4
      <4>2. a + HDR <= b \/ a >= b + hdr[b].size + 0
        BY <4>1, <1>9 DEF Spared
      <4> QED
        BY <4>2, <2>2, <2>4, <3>1
    <3> QED
      BY <3>2, <3>3
  <2> QED
    BY <2>3, <2>4
<1>10. DOMAIN l = {c \in DOMAIN h : ~h[c].is_free}
  BY <1>4, <1>6, <1>7
<1>11. \A c \in DOMAIN l : l[c] + HDR <= h[c].size
  <2>1. h[b].size \in Nat /\ HDR \in Nat
    BY <1>4, BlockBounds, Arena
  <2>2. l[b] + HDR <= h[b].size
    BY <2>1, <1>2, <1>4, <1>7
  <2> QED
    BY <2>2, <1>4, <1>6, <1>7
<1>12. h[b].size \in Int
  BY <1>4, BlockBounds
<1> HIDE DEF l, K
<1>13. CASE call.old = NULL
  <2>1. hdr' = h /\ used' = used + h[b].size /\ live' = l /\ freed' = [a \in K |-> freed[a]]
    BY <1>5, <1>13
  <2>2. LiveExact'
    BY <2>1, <1>10, <1>11 DEF LiveExact, Blocks
  <2>3. FreedInside'
    BY <2>1, <1>9 DEF FreedInside, Blocks
  <2>4. used' \in Int /\ DOMAIN freed' \subseteq HeapStart..(HeapEnd - 1)
    BY <2>1, <1>6, <1>8, <1>12
  <2>5. FlagsLeft'
    BY <2>1, <1>8 DEF HeapInv, FlagsLeft
  <2>6. freed' \in [DOMAIN freed' -> BOOLEAN]
    BY <2>1, <1>8 DEF HeapInv, TypeOK
  <2> QED
    BY <2>1, <2>2, <2>3, <2>4, <2>5, <2>6, <1>1, <1>4, <1>7, NewHeap
<1>14. CASE call.old # NULL
  <2> DEFINE o == call.old
  <2>1. /\ hdr' = Release(h, o) /\ used' = used + h[b].size - h[o].size
        /\ live' = [a \in DOMAIN l \ {o} |-> l[a]]
        /\ freed' = Flags(Marked(h, o), K \cup {o})
    BY <1>5, <1>14
  <2>2. o \in DOMAIN live
    BY <1>1, <1>14 DEF HeapInv, WalkSound
  <2>3. o \in DOMAIN h /\ ~h[o].is_free
    BY <2>2, <1>7, <1>10
  <2>4. used' \in Int
    <3>1. h[o].size \in Int
      BY <2>3, <1>4, BlockBounds
    <3> QED
      BY <2>1, <3>1, <1>6, <1>12
  <2>5. K \subseteq DOMAIN freed /\ K \subseteq HeapStart..(HeapEnd - 1) /\ FlagsLeft
    BY <1>8 DEF HeapInv
  <2>6. \A a \in K : \E d \in DOMAIN h : h[d].is_free /\ d <= a /\ a + HDR <= d + h[d].size
    BY <1>9
  <2> HIDE DEF o
  <2> QED
    BY <2>1, <2>3, <2>4, <2>5, <2>6, <1>1, <1>4, <1>7, <1>10, <1>11, kfreeHeap
<1> QED
  BY <1>13, <1>14
-----------------------------------------------------------------------------
\* A kmalloc begins: the block size it computes covers the request.
LEMMA kmallocInv ==
    ASSUME NoWrap, HeapInv, NEW size \in Sizes, kmalloc(size)
    PROVE  HeapInv'
<1>1. size \in Nat /\ size + ALIGN + HDR <= WORD
  BY HeapAssumption DEF NoWrap
<1>2. Need(size) \in Nat /\ Need(size) >= size + HDR
  BY <1>1, NeedCovers
<1> QED
  BY <1>1, <1>2, StartInv DEF kmalloc

\* A kcalloc begins: the product does not wrap, so it is a kmalloc of it.
LEMMA kcallocInv ==
    ASSUME NoWrap, HeapInv, NEW num \in Nums, NEW size \in Sizes, kcalloc(num, size)
    PROVE  HeapInv'
<1> DEFINE total == num * size
<1>1. num \in Nat /\ size \in Nat /\ ALIGN \in Nat /\ HDR \in Nat /\ WORD \in Nat
      /\ HDR > 0 /\ WORD > 0
  BY HeapAssumption
<1>2. total \in Nat /\ total + ALIGN + HDR <= WORD
  BY <1>1 DEF NoWrap
<1>3. Start("kcalloc", total % WORD, total, NULL)
  BY DEF kcalloc
<1> HIDE DEF total
<1>4. total % WORD = total
  BY <1>1, <1>2
<1>5. Need(total) \in Nat /\ Need(total) >= total + HDR
  BY <1>2, NeedCovers
<1> QED
  BY <1>2, <1>3, <1>4, <1>5, StartInv

\* The four ways through krealloc.
LEMMA kreallocInv ==
    ASSUME NoWrap, HeapInv, NEW b \in DOMAIN live \cup {NULL}, NEW size \in Sizes,
           krealloc(b, size)
    PROVE  HeapInv'
<1>1. size \in Nat /\ size + ALIGN + HDR <= WORD
  BY HeapAssumption DEF NoWrap
<1>2. CASE b = NULL /\ kmalloc(size)
  BY <1>2, kmallocInv
<1>3. CASE b # NULL /\ kfree(b)
  BY <1>3, kfreeInv
<1>4. CASE /\ b # NULL /\ KeepsBlock(b, size) /\ call = Idle
           /\ live' = [live EXCEPT ![b] = size] /\ UNCHANGED <<hdr, used, call, freed>>
  BY <1>1, <1>4, KeepInv
<1>5. CASE b # NULL /\ size # 0 /\ ~KeepsBlock(b, size) /\ Start("krealloc", size, size, b)
  <2>1. Need(size) \in Nat /\ Need(size) >= size + HDR
    BY <1>1, NeedCovers
  <2>2. b \in DOMAIN hdr
    BY <1>5 DEF HeapInv, TypeOK, Blocks
  <2>3. hdr[b].size \in Nat /\ HDR \in Nat
    BY <2>2, InvGood, BlockBounds, Arena
  <2>4. hdr[b].size < size + HDR
    BY <1>1, <1>5, <2>3 DEF KeepsBlock
  <2> QED
    BY <1>1, <1>5, <2>1, <2>4, StartInv
<1> QED
  BY <1>2, <1>3, <1>4, <1>5 DEF krealloc

\* Every step of the heap keeps the inductive invariant.
LEMMA NextInv ==
    ASSUME NoWrap, HeapInv, [Next]_heapVars
    PROVE  HeapInv'
<1>1. CASE UNCHANGED heapVars
  <2>1. UNCHANGED <<hdr, used, live, freed>> /\ call' = call
    BY <1>1 DEF heapVars
  <2>2. WalkSound' /\ CallOK'
    BY <2>1 DEF HeapInv, WalkSound, CallOK, Blocks
  <2> QED
    BY <2>1, <2>2, SameHeap DEF HeapInv, TypeOK
<1>2. CASE \E size \in Sizes : kmalloc(size)
  BY <1>2, kmallocInv
<1>3. CASE \E num \in Nums, size \in Sizes : kcalloc(num, size)
  BY <1>3, kcallocInv
<1>4. CASE \E b \in DOMAIN live \cup {NULL}, size \in Sizes : krealloc(b, size)
  BY <1>4, kreallocInv
<1>5. CASE \E b \in DOMAIN live \cup DOMAIN freed : kfree(b)
  BY <1>5, kfreeInv
<1>6. CASE Walk
  BY <1>6, WalkOnInv, WalkFailsInv, WalkTakesInv DEF Walk
<1> QED
  BY <1>1, <1>2, <1>3, <1>4, <1>5, <1>6 DEF Next

\* The inductive invariant holds in every reachable state of kheap.c.
THEOREM KheapInvariant == NoWrap => (Spec => []HeapInv)
<1> SUFFICES ASSUME NoWrap PROVE Spec => []HeapInv
  OBVIOUS
<1>1. Init => HeapInv
  BY HeapInit
<1>2. HeapInv /\ [Next]_heapVars => HeapInv'
  BY NextInv
<1> QED
  BY <1>1, <1>2, PTL DEF Spec

\* Headers, the call in progress and the callers' claims keep their types.
THEOREM KheapTypeCorrect == NoWrap => (Spec => []TypeOK)
<1> SUFFICES ASSUME NoWrap PROVE Spec => []TypeOK
  OBVIOUS
<1>1. HeapInv => TypeOK
  BY DEF HeapInv
<1>2. Spec => []HeapInv
  BY KheapInvariant
<1> QED
  BY <1>1, <1>2, PTL

\* The block list always tiles the arena: kmalloc's split and kfree's merges
\* leave no gap, no overlap and no cycle.
THEOREM KheapTiled == NoWrap => (Spec => []Tiled)
<1> SUFFICES ASSUME NoWrap PROVE Spec => []Tiled
  OBVIOUS
<1>1. HeapInv => Tiled
  BY DEF HeapInv
<1>2. Spec => []HeapInv
  BY KheapInvariant
<1> QED
  BY <1>1, <1>2, PTL

\* kfree's two merges never leave two free blocks side by side.
THEOREM KheapNoAdjacentFree == NoWrap => (Spec => []NoAdjacentFree)
<1> SUFFICES ASSUME NoWrap PROVE Spec => []NoAdjacentFree
  OBVIOUS
<1>1. HeapInv => NoAdjacentFree
  BY DEF HeapInv
<1>2. Spec => []HeapInv
  BY KheapInvariant
<1> QED
  BY <1>1, <1>2, PTL

\* A block is marked used exactly while a caller holds it, and its payload is
\* as long as kmalloc, kcalloc or krealloc was asked for.
THEOREM KheapLiveExact == NoWrap => (Spec => []LiveExact)
<1> SUFFICES ASSUME NoWrap PROVE Spec => []LiveExact
  OBVIOUS
<1>1. HeapInv => LiveExact
  BY DEF HeapInv
<1>2. Spec => []HeapInv
  BY KheapInvariant
<1> QED
  BY <1>1, <1>2, PTL

\* kmalloc's first-fit walk stays on the list and passes no block that would
\* have served, so it returns NULL only when there is none.
THEOREM KheapWalkSound == NoWrap => (Spec => []WalkSound)
<1> SUFFICES ASSUME NoWrap PROVE Spec => []WalkSound
  OBVIOUS
<1>1. HeapInv => WalkSound
  BY DEF HeapInv
<1>2. Spec => []HeapInv
  BY KheapInvariant
<1> QED
  BY <1>1, <1>2, PTL

\* kfree's check of is_free catches every double free of a block whose bytes
\* have not been reused, also after its header was merged away.
THEOREM KheapFreedStaysFree == NoWrap => (Spec => []FreedStaysFree)
<1> SUFFICES ASSUME NoWrap PROVE Spec => []FreedStaysFree
  OBVIOUS
<1>1. ASSUME HeapInv PROVE FreedStaysFree
  <2> SUFFICES ASSUME NEW b \in DOMAIN freed, b \in Blocks PROVE hdr[b].is_free
    BY <1>1 DEF FreedStaysFree, ReadsFree, HeapInv, FlagsLeft
  <2>1. PICK d \in Blocks : hdr[d].is_free /\ d <= b /\ b + HDR <= d + hdr[d].size
    BY <1>1 DEF HeapInv, FreedInside
  <2> QED
    BY <1>1, <2>1, InvGood, LinkedInsideFree DEF Blocks
<1>2. Spec => []HeapInv
  BY KheapInvariant
<1> QED
  BY <1>1, <1>2, PTL

\* Taking a block changes the size of no block that is held before and after.
LEMMA WalkTakesStays ==
    ASSUME HeapInv, WalkTakes, NEW c \in DOMAIN live, c \in DOMAIN live'
    PROVE  hdr'[c].size = hdr[c].size
<1> DEFINE b == call.cur
           h == Carve(hdr, b, call.need)
           l == [a \in DOMAIN live \cup {b} |-> IF a = b THEN call.asked ELSE live[a]]
<1>1. call # Idle /\ b # NULL /\ hdr[b].is_free /\ hdr[b].size >= call.need
  BY DEF WalkTakes, Fits
<1>2. call \in Calls /\ call.need \in Nat /\ call.need >= HDR
  BY <1>1 DEF HeapInv, CallOK, Calls
<1>3. b \in DOMAIN hdr /\ Good(hdr) /\ Coalesced(hdr)
  BY <1>1, InvGood DEF HeapInv, WalkSound, Blocks
<1>4. /\ Good(h) /\ Coalesced(h)
      /\ \A d \in DOMAIN hdr \ {b} :
           d \in DOMAIN h /\ h[d].is_free = hdr[d].is_free /\ h[d].size = hdr[d].size
  BY <1>1, <1>2, <1>3, CarveGood
<1>5. c \in DOMAIN hdr /\ ~hdr[c].is_free
  BY DEF HeapInv, LiveExact, Blocks
<1>6. c \in DOMAIN h /\ ~h[c].is_free /\ h[c].size = hdr[c].size
  BY <1>1, <1>4, <1>5
<1>7. IF call.old = NULL
      THEN hdr' = h
      ELSE hdr' = Release(h, call.old) /\ live' = [a \in DOMAIN l \ {call.old} |-> l[a]]
  BY DEF WalkTakes
<1> HIDE DEF h
<1>8. CASE call.old = NULL
  BY <1>6, <1>7, <1>8
<1>9. CASE call.old # NULL
  <2> DEFINE o == call.old
  <2>1. o \in DOMAIN live
    BY <1>1, <1>9 DEF HeapInv, WalkSound
  <2>2. o \in DOMAIN hdr /\ ~hdr[o].is_free /\ o # b
    BY <2>1, <1>1 DEF HeapInv, LiveExact, Blocks
  <2>3. o \in DOMAIN h /\ ~h[o].is_free
    BY <2>2, <1>4
  <2>4. Keeps(h, Release(h, o), {o})
    BY <2>3, <1>4, ReleaseGood
  <2>5. c # o
    BY <1>7, <1>9
  <2> QED
    BY <2>4, <2>5, <1>6, <1>7, <1>9 DEF Keeps
<1> QED
  BY <1>8, <1>9

\* Freeing a block changes the size of no block that is held before and after.
LEMMA kfreeStays ==
    ASSUME HeapInv, NEW b \in DOMAIN live \cup DOMAIN freed, kfree(b),
           NEW c \in DOMAIN live, c \in DOMAIN live'
    PROVE  hdr'[c].size = hdr[c].size
<1>1. CASE ReadsFree(b)
  BY <1>1 DEF kfree, heapVars
<1>2. CASE ~ReadsFree(b)
  <2>1. hdr' = Release(hdr, b) /\ live' = [a \in DOMAIN live \ {b} |-> live[a]]
    BY <1>2 DEF kfree
  <2>2. b \in DOMAIN hdr /\ ~hdr[b].is_free
    BY <1>2, ReadsFreeMeans DEF Blocks
  <2>3. Keeps(hdr, Release(hdr, b), {b})
    BY <2>2, InvGood, ReleaseGood
  <2>4. c # b /\ c \in DOMAIN hdr /\ ~hdr[c].is_free
    BY <2>1 DEF HeapInv, LiveExact, Blocks
  <2> QED
    BY <2>1, <2>3, <2>4 DEF Keeps
<1> QED
  BY <1>1, <1>2

\* No operation of kheap.c moves, shrinks or grows a block under its holder.
THEOREM KheapHeldBlocksStay == NoWrap => (Spec => HeldBlocksStay)
<1> SUFFICES ASSUME NoWrap PROVE Spec => HeldBlocksStay
  OBVIOUS
<1> DEFINE Stay == \A b \in DOMAIN live \cap DOMAIN live' : hdr'[b].size = hdr[b].size
<1>1. ASSUME HeapInv, [Next]_heapVars PROVE [Stay]_heapVars
  <2> SUFFICES ASSUME NEW c \in DOMAIN live, c \in DOMAIN live', Next
               PROVE  hdr'[c].size = hdr[c].size
    BY <1>1
  <2>1. CASE \E size \in Sizes : kmalloc(size)
    BY <2>1 DEF kmalloc, Start
  <2>2. CASE \E num \in Nums, size \in Sizes : kcalloc(num, size)
    BY <2>2 DEF kcalloc, Start
  <2>3. CASE \E b \in DOMAIN live \cup {NULL}, size \in Sizes : krealloc(b, size)
    <3>1. PICK b \in DOMAIN live \cup {NULL}, size \in Sizes : krealloc(b, size)
      BY <2>3
    <3>2. CASE b # NULL /\ kfree(b)
      BY <1>1, <3>2, kfreeStays
    <3>3. CASE UNCHANGED hdr
      BY <3>3
    <3> QED
      BY <3>1, <3>2, <3>3 DEF krealloc, kmalloc, Start
  <2>4. CASE \E b \in DOMAIN live \cup DOMAIN freed : kfree(b)
    BY <1>1, <2>4, kfreeStays
  <2>5. CASE Walk
    <3>1. CASE WalkTakes
      BY <1>1, <3>1, WalkTakesStays
    <3>2. CASE WalkOn \/ WalkFails
      BY <3>2 DEF WalkOn, WalkFails
    <3> QED
      BY <2>5, <3>1, <3>2 DEF Walk
  <2> QED
    BY <2>1, <2>2, <2>3, <2>4, <2>5 DEF Next
<1>2. Spec => []HeapInv
  BY KheapInvariant
<1> QED
  BY <1>1, <1>2, PTL DEF Spec, HeldBlocksStay

-----------------------------------------------------------------------------
\* Every byte of the arena is in a block: the blocks leave no gap.
LEMMA ByteInBlock ==
    ASSUME NEW h, Good(h), NEW a \in HeapStart..(HeapEnd - 1)
    PROVE  \E b \in DOMAIN h : b <= a /\ a < b + h[b].size
<1> DEFINE S == {a - c : c \in {d \in DOMAIN h : d <= a}}
<1>1. a \in Nat /\ HeapStart <= a /\ a < HeapEnd /\ HeapStart \in DOMAIN h
  BY Arena DEF Good, WellFormed
<1>2. \A d \in DOMAIN h : d \in Nat /\ h[d].size \in Nat /\ h[d].size >= HDR
  BY BlockBounds
<1>3. S \subseteq Nat /\ S # {}
  <2>1. \A d \in DOMAIN h : d <= a => a - d \in Nat
    BY <1>1, <1>2
  <2>2. a - HeapStart \in S
    BY <1>1
  <2> QED
    BY <2>1, <2>2
<1>4. PICK m \in S : \A y \in S : m <= y
  BY <1>3, MinNat
<1>5. PICK b \in DOMAIN h : b <= a /\ m = a - b
  BY <1>4
<1>6. ASSUME b + h[b].size <= a PROVE FALSE
  <2> DEFINE c == b + h[b].size
  <2>1. c # HeapEnd
    BY <1>1, <1>2, <1>5, <1>6, Arena
  <2>2. c \in DOMAIN h
    BY <2>1, <1>5 DEF Good, WellFormed, Linked
  <2>3. a - c \in S
    BY <2>2, <1>6
  <2>4. m <= a - c
    BY <2>3, <1>4
  <2> QED
    BY <2>4, <1>1, <1>2, <1>5, Arena
<1> QED
  BY <1>1, <1>2, <1>5, <1>6

\* The abstract heap's view of a state.
LEMMA AbstractView ==
    ASSUME HeapInv
    PROVE  /\ DOMAIN Extent = DOMAIN live /\ \A c \in DOMAIN live : Extent[c] = hdr[c].size
           /\ Abstract!ArenaEnd = HeapEnd
           /\ call = Idle => Asking = 0
           /\ call # Idle => Asking = call.need /\ call.need \in Nat /\ call.need > 0
<1>1. call # Idle => call.need \in Nat /\ call.need > 0
  BY Arena DEF HeapInv, CallOK, Calls
<1> QED
  BY <1>1 DEF Extent, Asking, Abstract!ArenaEnd, HeapEnd

\* When the walk ends at NULL no hole is left for the request: a hole would start
\* in a free block, which is too small, and end in or behind the next block, which
\* is not free.
LEMMA WalkFailsRefines ==
    ASSUME HeapInv, WalkFails
    PROVE  Abstract!Refuse
<1> DEFINE n == call.need
<1>1. call # Idle /\ call.cur = NULL /\ call' = Idle /\ UNCHANGED <<hdr, live>>
  BY DEF WalkFails
<1>2. /\ DOMAIN Extent = DOMAIN live /\ \A c \in DOMAIN live : Extent[c] = hdr[c].size
      /\ Abstract!ArenaEnd = HeapEnd /\ Asking = n /\ n \in Nat /\ n > 0
  BY <1>1, AbstractView
<1>3. Asking' = 0 /\ Extent' = Extent
  BY <1>1 DEF Asking, Extent
<1>4. Good(hdr) /\ Coalesced(hdr)
  BY InvGood
<1>5. /\ \A b \in DOMAIN hdr : hdr[b].is_free => hdr[b].size < n
      /\ \A b \in DOMAIN hdr : ~hdr[b].is_free <=> b \in DOMAIN live
      /\ DOMAIN live \subseteq DOMAIN hdr
  BY <1>1 DEF HeapInv, WalkSound, LiveExact, Blocks
<1> HIDE DEF n
<1>6. ASSUME NEW a \in HeapStart..HeapEnd, Abstract!Vacant(a, n) PROVE FALSE
  <2>1. /\ a \in Nat /\ a + n <= HeapEnd
        /\ \A c \in DOMAIN live : a + n <= c \/ c + hdr[c].size <= a
    BY <1>2, <1>6, Arena DEF Abstract!Vacant
  <2>2. a \in HeapStart..(HeapEnd - 1)
    BY <2>1, <1>2, <1>6, Arena
  <2>3. PICK b \in DOMAIN hdr : b <= a /\ a < b + hdr[b].size
    BY <2>2, <1>4, ByteInBlock
  <2>4. b \in Nat /\ hdr[b].size \in Nat
    BY <1>4, BlockBounds
  <2>5. hdr[b].is_free
    BY <2>1, <2>3, <2>4, <1>2, <1>5
  <2>6. hdr[b].size < n
    BY <2>5, <1>5
  <2> DEFINE c == b + hdr[b].size
  <2>7. c < HeapEnd /\ c < a + n /\ a < c /\ c \in Nat
    BY <2>1, <2>3, <2>4, <2>6, <1>2, Arena
  <2>8. hdr[b].next = c /\ c \in DOMAIN hdr
    BY <2>7, <1>4, Arena DEF Good, WellFormed, Linked
  <2> HIDE DEF c
  <2>9. ~hdr[c].is_free
    BY <2>5, <2>8, <1>4, BlockBounds DEF Coalesced, IsFree
  <2>10. hdr[c].size \in Nat /\ c \in DOMAIN live
    BY <2>8, <2>9, <1>4, <1>5, BlockBounds
  <2> QED
    BY <2>1, <2>7, <2>10, <1>2
<1> QED
  BY <1>2, <1>3, <1>6 DEF Abstract!Refuse, Abstract!ArenaEnd, HeapEnd

\* The block taken lies in the arena and touches no held block; krealloc gives the
\* old block back in the same step.
LEMMA WalkTakesRefines ==
    ASSUME HeapInv, HeapInv', WalkTakes
    PROVE  Abstract!Grant
<1> DEFINE b == call.cur
           h == Carve(hdr, b, call.need)
           l == [a \in DOMAIN live \cup {b} |-> IF a = b THEN call.asked ELSE live[a]]
           o == call.old
           n == hdr'[b].size
           old == IF o = NULL THEN {} ELSE {o}
<1>1. call # Idle /\ b # NULL /\ hdr[b].is_free /\ hdr[b].size >= call.need /\ call' = Idle
  BY DEF WalkTakes, Fits
<1>2. call \in Calls /\ call.need \in Nat /\ call.need >= HDR
  BY <1>1 DEF HeapInv, CallOK, Calls
<1>3. b \in DOMAIN hdr /\ Good(hdr) /\ Coalesced(hdr) /\ Good(hdr')
  BY <1>1, InvGood DEF HeapInv, WalkSound, Blocks, TypeOK, Tiled, Good, HeapType
<1>4. /\ Good(h) /\ Coalesced(h) /\ b \in DOMAIN h /\ ~h[b].is_free /\ h[b].size >= call.need
      /\ \A d \in DOMAIN hdr \ {b} : d \in DOMAIN h /\ h[d].is_free = hdr[d].is_free
      /\ h[b].size = call.need \/ h[b].size = hdr[b].size
  BY <1>1, <1>2, <1>3, CarveGood
<1>5. IF o = NULL
      THEN hdr' = h /\ live' = l
      ELSE hdr' = Release(h, o) /\ live' = [a \in DOMAIN l \ {o} |-> l[a]]
  BY DEF WalkTakes
<1>6. /\ DOMAIN live \subseteq DOMAIN hdr /\ \A c \in DOMAIN live : ~hdr[c].is_free
      /\ o # NULL => o \in DOMAIN live
  BY <1>1 DEF HeapInv, LiveExact, Blocks, WalkSound
<1>7. b \notin DOMAIN live
  BY <1>1, <1>6
<1>8. DOMAIN live' = (DOMAIN live \cup {b}) \ old /\ b \in DOMAIN live'
  BY <1>5, <1>6, <1>7
<1> HIDE DEF h, l
<1>9. b \in DOMAIN hdr' /\ n = h[b].size
  <2>1. CASE o = NULL
    BY <2>1, <1>4, <1>5
  <2>2. CASE o # NULL
    <3>1. o \in DOMAIN h /\ ~h[o].is_free /\ o # b
      BY <2>2, <1>4, <1>6, <1>7
    <3>2. Keeps(h, Release(h, o), {o})
      BY <3>1, <1>4, ReleaseGood
    <3> QED
      BY <3>1, <3>2, <2>2, <1>4, <1>5 DEF Keeps
  <2> QED
    BY <2>1, <2>2
<1>10. /\ b \in Nat /\ n \in Nat /\ HeapStart <= b /\ b + n <= HeapEnd
       /\ hdr[b].size \in Nat
  BY <1>3, <1>9, BlockBounds
<1>11. n >= call.need /\ n <= hdr[b].size
  BY <1>1, <1>2, <1>4, <1>9, <1>10
<1>12. /\ DOMAIN Extent = DOMAIN live /\ \A c \in DOMAIN live : Extent[c] = hdr[c].size
       /\ Abstract!ArenaEnd = HeapEnd /\ Asking = call.need /\ Asking > 0
  BY <1>1, AbstractView
<1>13. Asking' = 0 /\ Extent' = [c \in DOMAIN live' |-> hdr'[c].size]
  BY <1>1 DEF Asking, Extent
<1> HIDE DEF n
<1>14. Abstract!Vacant(b, n)
  <2>1. ASSUME NEW c \in DOMAIN live PROVE b + n <= c \/ c + hdr[c].size <= b
    <3>1. c \in DOMAIN hdr /\ c # b /\ c \in Nat /\ hdr[c].size \in Nat
      BY <1>3, <1>6, <1>7, BlockBounds
    <3>2. b + hdr[b].size <= c \/ c + hdr[c].size <= b
      BY <3>1, <1>3, <1>10 DEF Good, WellFormed, Apart
    <3> QED
      BY <3>1, <3>2, <1>10, <1>11
  <2> QED
    BY <2>1, <1>10, <1>12 DEF Abstract!Vacant
<1>15. \A c \in DOMAIN live : c \in DOMAIN live' => hdr'[c].size = hdr[c].size
  BY WalkTakesStays
<1>16. Extent' = [c \in (DOMAIN Extent \cup {b}) \ old |-> IF c = b THEN n ELSE Extent[c]]
  <2>1. DOMAIN live' = (DOMAIN Extent \cup {b}) \ old
    BY <1>8, <1>12
  <2>2. ASSUME NEW c \in DOMAIN live' PROVE hdr'[c].size = IF c = b THEN n ELSE Extent[c]
    <3>1. CASE c = b
      BY <3>1 DEF n
    <3>2. CASE c # b
      <4>1. c \in DOMAIN live
        BY <3>2, <1>8
      <4> QED
        BY <4>1, <3>2, <1>12, <1>15
    <3> QED
      BY <3>1, <3>2
  <2> QED
    BY <2>1, <2>2, <1>13
<1>17. old \in {{}} \cup {{c} : c \in DOMAIN Extent}
  BY <1>6, <1>12
<1>18. b \in DOMAIN Extent' /\ Extent'[b] = n
  BY <1>8, <1>13 DEF n
<1> HIDE DEF b, old
<1>19. /\ Extent'[b] >= Asking /\ Abstract!Vacant(b, Extent'[b])
       /\ Extent' = [c \in (DOMAIN Extent \cup {b}) \ old |-> IF c = b THEN Extent'[b] ELSE Extent[c]]
  BY <1>11, <1>12, <1>14, <1>16, <1>18
<1> QED
  BY <1>12, <1>13, <1>17, <1>18, <1>19 DEF Abstract!Grant

\* A block given back is one extent less; a second kfree changes nothing.
LEMMA kfreeRefines ==
    ASSUME HeapInv, NEW b \in DOMAIN live \cup DOMAIN freed, kfree(b)
    PROVE  Abstract!GiveBack \/ UNCHANGED <<Extent, Asking>>
<1>1. CASE ReadsFree(b)
  BY <1>1 DEF kfree, heapVars, Extent, Asking
<1>2. CASE ~ReadsFree(b)
  <2>1. call = Idle /\ call' = call /\ live' = [a \in DOMAIN live \ {b} |-> live[a]]
    BY <1>2 DEF kfree
  <2>2. b \in DOMAIN live
    BY <1>2, ReadsFreeMeans
  <2>3. \A c \in DOMAIN live : c \in DOMAIN live' => hdr'[c].size = hdr[c].size
    BY kfreeStays
  <2>4. Asking = 0 /\ Asking' = Asking
    BY <2>1 DEF Asking
  <2>5. Extent' = [a \in DOMAIN Extent \ {b} |-> Extent[a]] /\ b \in DOMAIN Extent
    BY <2>1, <2>2, <2>3 DEF Extent
  <2> QED
    BY <2>4, <2>5 DEF Abstract!GiveBack
<1> QED
  BY <1>1, <1>2

\* A call that begins is a request of the abstract heap.
LEMMA StartRefines ==
    ASSUME HeapInv', NEW op \in {"kmalloc", "kcalloc", "krealloc"}, NEW s, NEW asked, NEW old,
           Start(op, s, asked, old)
    PROVE  Abstract!Ask
<1>1. call = Idle /\ call'.op = op /\ UNCHANGED <<hdr, live>>
  BY DEF Start
<1>2. call' # Idle
  BY <1>1 DEF Idle
<1>3. call'.need \in Nat /\ call'.need > 0
  BY <1>2, Arena DEF HeapInv, CallOK, Calls
<1> QED
  BY <1>1, <1>2, <1>3 DEF Abstract!Ask, Asking, Extent

\* Every step of the heap is a step of the abstract one, or leaves it alone.
LEMMA HeapStepRefines ==
    ASSUME HeapInv, HeapInv', Next
    PROVE  Abstract!Next \/ UNCHANGED <<Extent, Asking>>
<1>1. CASE \E size \in Sizes : kmalloc(size)
  BY <1>1, StartRefines DEF kmalloc, Abstract!Next
<1>2. CASE \E num \in Nums, size \in Sizes : kcalloc(num, size)
  BY <1>2, StartRefines DEF kcalloc, Abstract!Next
<1>3. CASE \E b \in DOMAIN live \cup {NULL}, size \in Sizes : krealloc(b, size)
  <2>1. PICK b \in DOMAIN live \cup {NULL}, size \in Sizes : krealloc(b, size)
    BY <1>3
  <2>2. CASE b = NULL /\ kmalloc(size)
    BY <2>2, StartRefines DEF kmalloc, Abstract!Next
  <2>3. CASE b # NULL /\ kfree(b)
    BY <2>3, kfreeRefines DEF Abstract!Next
  <2>4. CASE /\ b # NULL /\ live' = [live EXCEPT ![b] = size] /\ UNCHANGED <<hdr, used, call, freed>>
    BY <2>4 DEF Extent, Asking
  <2>5. CASE Start("krealloc", size, size, b)
    BY <2>5, StartRefines DEF Abstract!Next
  <2> QED
    BY <2>1, <2>2, <2>3, <2>4, <2>5 DEF krealloc
<1>4. CASE \E b \in DOMAIN live \cup DOMAIN freed : kfree(b)
  BY <1>4, kfreeRefines DEF Abstract!Next
<1>5. CASE WalkOn
  <2>1. /\ call # Idle /\ call' = [call EXCEPT !.cur = hdr[call.cur].next] /\ UNCHANGED <<hdr, live>>
    BY <1>5 DEF WalkOn
  <2>2. call \in Calls
    BY <2>1 DEF HeapInv, CallOK
  <2>3. call'.need = call.need /\ call'.op # "idle"
    BY <2>1, <2>2 DEF Calls
  <2>4. call' # Idle
    BY <2>3 DEF Idle
  <2> QED
    BY <2>1, <2>3, <2>4 DEF Extent, Asking
<1>6. CASE WalkFails
  BY <1>6, WalkFailsRefines DEF Abstract!Next
<1>7. CASE WalkTakes
  BY <1>7, WalkTakesRefines DEF Abstract!Next
<1> QED
  BY <1>1, <1>2, <1>3, <1>4, <1>5, <1>6, <1>7 DEF Next, Walk

\* kheap.c implements the abstract heap: what kmalloc grants touches nothing anybody
\* holds, and it answers NULL only when no hole in the whole arena is big enough.
THEOREM KheapImplementsHeap == NoWrap => (Spec => ImplementsHeap)
<1> SUFFICES ASSUME NoWrap PROVE Spec => ImplementsHeap
  OBVIOUS
<1>1. Init => Abstract!Init
  BY DEF Init, Abstract!Init, Extent, Asking
<1>2. HeapInv /\ HeapInv' /\ [Next]_heapVars => [Abstract!Next]_(Abstract!vars)
  <2>1. UNCHANGED heapVars => UNCHANGED <<Extent, Asking>>
    BY DEF heapVars, Extent, Asking
  <2> QED
    BY <2>1, HeapStepRefines DEF Abstract!vars
<1>3. Spec => []HeapInv
  BY KheapInvariant
<1> QED
  BY <1>1, <1>2, <1>3, PTL DEF Spec, ImplementsHeap, Abstract!Spec

-----------------------------------------------------------------------------
(* Sums of sizes.  The sum over a set takes its elements in the order of a *)
(* CHOOSE; that the order does not matter is shown by least counterexamples *)
(* on the number of elements. *)

\* The sum over S, and what one step of it says.
SizeSum(h, S) == MapThenSumSet(LAMBDA b : h[b].size, S)
Some(s) == CHOOSE x \in s : TRUE
SumStep(g, h, s) == IF s = {} THEN 0 ELSE h[Some(s)].size + g[s \ {Some(s)}]
StepsOn(g, h, S) == \A s \in SUBSET S : g[s] = SumStep(g, h, s)
Sums(g, h, S) == g \in [SUBSET S -> Int] /\ StepsOn(g, h, S)
IntSizes(h, S) == \A x \in S : h[x].size \in Int

\* Counting the elements of a part of a finite set.
LEMMA PartCard ==
    ASSUME NEW S, IsFiniteSet(S), NEW s \in SUBSET S
    PROVE  /\ Cardinality(s) \in Nat /\ Cardinality(s) <= Cardinality(S)
           /\ Cardinality(s) = 0 <=> s = {}
           /\ \A x \in s : Cardinality(s \ {x}) = Cardinality(s) - 1
           /\ s # {} => Some(s) \in s
<1>1. IsFiniteSet(s) /\ Cardinality(s) <= Cardinality(S)
  BY FS_Subset
<1>2. Cardinality(s) \in Nat /\ (Cardinality(s) = 0 <=> s = {})
  BY <1>1, FS_CardinalityType, FS_EmptySet
<1>3. \A x \in s : Cardinality(s \ {x}) = Cardinality(s) - 1
  BY <1>1, FS_RemoveElement
<1> QED
  BY <1>1, <1>2, <1>3 DEF Some

\* There is a function that sums the sizes of every part of a finite set.
LEMMA SumsExist ==
    ASSUME NEW h, NEW S, IsFiniteSet(S), IntSizes(h, S)
    PROVE  \E g : Sums(g, h, S)
<1> DEFINE UpTo(g, n) == /\ g \in [SUBSET S -> Int]
                         /\ \A s \in SUBSET S : Cardinality(s) <= n => g[s] = SumStep(g, h, s)
           T == {n \in Nat : ~\E g : UpTo(g, n)}
<1>1. T = {}
  <2> SUFFICES ASSUME T # {} PROVE FALSE
    OBVIOUS
  <2> DEFINE m == Min(T)
  <2>1. m \in T /\ \A y \in T : m <= y
    BY MinNat
  <2> HIDE DEF m
  <2>2. m \in Nat
    BY <2>1
  <2> HIDE DEF T
  <2>3. CASE m = 0
    <3> DEFINE g == [s \in SUBSET S |-> 0]
    <3>1. UpTo(g, 0)
      <4>1. \A s \in SUBSET S : Cardinality(s) <= 0 => s = {}
        BY PartCard
      <4> QED
        BY <4>1 DEF SumStep
    <3> QED
      BY <2>1, <2>3, <3>1 DEF T
  <2>4. CASE m # 0
    <3>1. m - 1 \in Nat /\ m - 1 \notin T
      BY <2>1, <2>2, <2>4
    <3>2. PICK f : UpTo(f, m - 1)
      BY <3>1 DEF T
    <3> DEFINE g == [s \in SUBSET S |-> SumStep(f, h, s)]
    <3>3. ASSUME NEW s \in SUBSET S PROVE SumStep(f, h, s) \in Int
      <4>1. s # {} => Some(s) \in s /\ s \ {Some(s)} \in SUBSET S
        BY PartCard
      <4> QED
        BY <4>1, <3>2 DEF SumStep, IntSizes
    <3>4. g \in [SUBSET S -> Int]
      BY <3>3
    <3>5. ASSUME NEW s \in SUBSET S, Cardinality(s) <= m - 1 PROVE g[s] = f[s]
      BY <3>2, <3>5
    <3>6. ASSUME NEW s \in SUBSET S, Cardinality(s) <= m PROVE g[s] = SumStep(g, h, s)
      <4>1. CASE s = {}
        BY <4>1 DEF SumStep
      <4>2. CASE s # {}
        <5>1. Some(s) \in s /\ s \ {Some(s)} \in SUBSET S /\ Cardinality(s \ {Some(s)}) <= m - 1
          BY <2>2, <3>6, <4>2, PartCard
        <5>2. g[s \ {Some(s)}] = f[s \ {Some(s)}]
          BY <5>1, <3>5
        <5>3. g[s] = SumStep(f, h, s)
          OBVIOUS
        <5> QED
          BY <5>2, <5>3 DEF SumStep
      <4> QED
        BY <4>1, <4>2
    <3> HIDE DEF g
    <3>7. UpTo(g, m)
      BY <3>4, <3>6
    <3> QED
      BY <2>1, <3>7 DEF T
  <2> QED
    BY <2>3, <2>4
<1>2. Cardinality(S) \in Nat
  BY FS_CardinalityType
<1>3. PICK g : UpTo(g, Cardinality(S))
  BY <1>1, <1>2
<1>4. Sums(g, h, S)
  BY <1>3, PartCard DEF Sums, StepsOn
<1> QED
  BY <1>4

\* Two such functions agree on a set whose elements have the same sizes in both lists.
LEMMA SumsAgree ==
    ASSUME NEW g, NEW h, NEW S, NEW f, NEW k, NEW R, IsFiniteSet(S),
           StepsOn(g, h, S), StepsOn(f, k, R),
           NEW t \in SUBSET (S \cap R), \A x \in t : h[x].size = k[x].size
    PROVE  g[t] = f[t]
<1> DEFINE T == {n \in Nat : \E s \in SUBSET t : Cardinality(s) = n /\ g[s] # f[s]}
<1>1. T = {}
  <2> SUFFICES ASSUME T # {} PROVE FALSE
    OBVIOUS
  <2> DEFINE m == Min(T)
  <2>1. m \in T /\ \A y \in T : m <= y
    BY MinNat
  <2> HIDE DEF m
  <2>2. PICK s \in SUBSET t : Cardinality(s) = m /\ g[s] # f[s]
    BY <2>1
  <2>3. g[s] = SumStep(g, h, s) /\ f[s] = SumStep(f, k, s)
    BY DEF StepsOn
  <2>4. s # {}
    BY <2>2, <2>3 DEF SumStep
  <2>5. /\ Some(s) \in s /\ s \ {Some(s)} \in SUBSET t
        /\ Cardinality(s) \in Nat /\ Cardinality(s \ {Some(s)}) = m - 1
        /\ Cardinality(s \ {Some(s)}) \in Nat
    BY <2>2, <2>4, PartCard
  <2>6. m - 1 \notin T
    BY <2>1, <2>2, <2>5
  <2>7. g[s \ {Some(s)}] = f[s \ {Some(s)}]
    BY <2>5, <2>6
  <2>8. h[Some(s)].size = k[Some(s)].size
    BY <2>5
  <2> QED
    BY <2>2, <2>3, <2>4, <2>7, <2>8 DEF SumStep
<1>2. Cardinality(t) \in Nat
  BY PartCard
<1> QED
  BY <1>1, <1>2

\* The library's sum is such a function's value.
LEMMA SizeSumIs ==
    ASSUME NEW h, NEW S, IsFiniteSet(S), IntSizes(h, S)
    PROVE  \E g : Sums(g, h, S) /\ SizeSum(h, S) = g[S]
<1> DEFINE IsIter(g) == g = [s \in SUBSET S |-> IF s = {} THEN 0
                              ELSE h[CHOOSE x \in s : TRUE].size + g[s \ {CHOOSE x \in s : TRUE}]]
           c == CHOOSE g : IsIter(g)
<1>1. SizeSum(h, S) = c[S]
  BY DEF SizeSum, MapThenSumSet, MapThenFoldSet
<1>2. PICK g : Sums(g, h, S)
  BY SumsExist
<1>3. IsIter(g)
  <2>1. g = [s \in SUBSET S |-> SumStep(g, h, s)]
    BY <1>2 DEF Sums, StepsOn
  <2> QED
    BY <2>1 DEF SumStep, Some
<1> HIDE DEF IsIter
<1>4. IsIter(c)
  BY <1>3
<1> HIDE DEF c
<1>5. c = [s \in SUBSET S |-> SumStep(c, h, s)]
  BY <1>4 DEF IsIter, SumStep, Some
<1>6. StepsOn(c, h, S) /\ StepsOn(g, h, S)
  BY <1>2, <1>5 DEF StepsOn, Sums
<1>7. S \in SUBSET (S \cap S)
  OBVIOUS
<1>8. c[S] = g[S]
  BY <1>6, <1>7, SumsAgree
<1> QED
  BY <1>1, <1>2, <1>8

\* Any element can be taken out first.
LEMMA SumsTake ==
    ASSUME NEW g, NEW h, NEW S, IsFiniteSet(S), IntSizes(h, S), Sums(g, h, S)
    PROVE  \A s \in SUBSET S : \A x \in s : g[s] = h[x].size + g[s \ {x}]
<1> DEFINE Bad(s, x) == g[s] # h[x].size + g[s \ {x}]
           T == {n \in Nat : \E s \in SUBSET S : Cardinality(s) = n /\ \E x \in s : Bad(s, x)}
<1>1. T = {}
  <2> SUFFICES ASSUME T # {} PROVE FALSE
    OBVIOUS
  <2> DEFINE m == Min(T)
  <2>1. m \in T /\ \A y \in T : m <= y
    BY MinNat
  <2> HIDE DEF m
  <2>2. PICK s \in SUBSET S : Cardinality(s) = m /\ \E x \in s : Bad(s, x)
    BY <2>1
  <2>3. PICK x \in s : Bad(s, x)
    BY <2>2
  <2> DEFINE c == Some(s)
             sc == s \ {c}
             sx == s \ {x}
             r == sc \ {x}
  <2>4. c \in s /\ m \in Nat /\ Cardinality(sc) = m - 1 /\ Cardinality(sx) = m - 1
    BY <2>2, <2>3, PartCard
  <2>5. g[s] = h[c].size + g[sc]
    BY <2>3 DEF Sums, StepsOn, SumStep
  <2>6. c # x
    BY <2>3, <2>5
  <2>7. /\ x \in sc /\ c \in sx /\ sc \in SUBSET S /\ sx \in SUBSET S
        /\ sx \ {c} = r /\ r \in SUBSET S
    BY <2>4, <2>6
  <2>8. m - 1 \in Nat /\ m - 1 \notin T
    <3>1. Cardinality(sc) \in Nat
      BY <2>7, PartCard
    <3> QED
      BY <2>1, <2>4, <3>1
  <2> HIDE DEF c, sc, sx, r
  <2>9. ~Bad(sc, x) /\ ~Bad(sx, c)
    BY <2>4, <2>7, <2>8
  <2>10. /\ g[s] \in Int /\ g[sc] \in Int /\ g[sx] \in Int /\ g[r] \in Int
         /\ h[c].size \in Int /\ h[x].size \in Int
    BY <2>3, <2>4, <2>7 DEF Sums, IntSizes
  <2>11. g[sc] = h[x].size + g[r]
    BY <2>9 DEF r
  <2>12. g[sx] = h[c].size + g[r]
    BY <2>7, <2>9
  <2>13. g[s] = h[x].size + g[sx]
    BY <2>5, <2>10, <2>11, <2>12
  <2> QED
    BY <2>3, <2>13 DEF sx
<1>2. ASSUME NEW s \in SUBSET S, NEW x \in s, Bad(s, x) PROVE FALSE
  <2>1. Cardinality(s) \in Nat
    BY PartCard
  <2> QED
    BY <1>1, <1>2, <2>1
<1> QED
  BY <1>2

\* The sum over one element more.
LEMMA SizeSumAdd ==
    ASSUME NEW h, NEW k, NEW S, IsFiniteSet(S), NEW x, x \notin S, k[x].size \in Int,
           IntSizes(h, S), \A y \in S : k[y].size = h[y].size
    PROVE  SizeSum(k, S \cup {x}) = SizeSum(h, S) + k[x].size
<1> DEFINE R == S \cup {x}
<1>1. IsFiniteSet(R) /\ IntSizes(k, R)
  BY FS_AddElement DEF IntSizes
<1>2. PICK g : Sums(g, h, S) /\ SizeSum(h, S) = g[S]
  BY SizeSumIs
<1>3. PICK f : Sums(f, k, R) /\ SizeSum(k, R) = f[R]
  BY <1>1, SizeSumIs
<1>4. R \in SUBSET R /\ x \in R /\ R \ {x} = S /\ S \in SUBSET (S \cap R)
  OBVIOUS
<1> HIDE DEF R
<1>5. f[R] = k[x].size + f[R \ {x}]
  BY <1>1, <1>3, <1>4, SumsTake
<1>6. g[S] = f[S]
  <2>1. StepsOn(g, h, S) /\ StepsOn(f, k, R)
    BY <1>2, <1>3 DEF Sums
  <2> QED
    BY <2>1, <1>4, SumsAgree
<1>7. g[S] \in Int
  BY <1>2 DEF Sums
<1>8. k[x].size + g[S] = g[S] + k[x].size
  BY <1>7
<1>9. SizeSum(k, R) = SizeSum(h, S) + k[x].size
  BY <1>2, <1>3, <1>4, <1>5, <1>6, <1>8
<1> QED
  BY <1>9 DEF R

-----------------------------------------------------------------------------
\* The blocks that are not free, and what they add up to.
Taken(h) == {b \in DOMAIN h : ~h[b].is_free}
TakenSizes(h) == SizeSum(h, Taken(h))
UsedSum == used = HDR + TakenSizes(hdr)

\* There are finitely many of them, and each has a size.
LEMMA TakenFinite ==
    ASSUME NEW h, Good(h)
    PROVE  IsFiniteSet(Taken(h)) /\ IntSizes(h, Taken(h)) /\ TakenSizes(h) \in Int
<1>1. IsFiniteSet(HeapStart..(HeapEnd - 1))
  <2>1. HeapStart \in Int /\ HeapEnd - 1 \in Int
    BY Arena
  <2> QED
    BY <2>1, FS_Interval
<1>2. Taken(h) \subseteq HeapStart..(HeapEnd - 1)
  BY DEF Good, HeapType, Taken
<1>3. IsFiniteSet(Taken(h))
  BY <1>1, <1>2, FS_Subset
<1>4. IntSizes(h, Taken(h))
  BY BlockBounds DEF IntSizes, Taken
<1>5. PICK g : Sums(g, h, Taken(h)) /\ SizeSum(h, Taken(h)) = g[Taken(h)]
  BY <1>3, <1>4, SizeSumIs
<1> QED
  BY <1>3, <1>4, <1>5 DEF Sums, TakenSizes

\* When one block more is taken, the sum grows by its size.
LEMMA TakenMore ==
    ASSUME NEW h, NEW g, Good(h), Good(g), NEW b \in DOMAIN g,
           b \notin Taken(h), Taken(g) = Taken(h) \cup {b},
           \A c \in Taken(h) : g[c].size = h[c].size
    PROVE  TakenSizes(g) = TakenSizes(h) + g[b].size
<1>1. IsFiniteSet(Taken(h)) /\ IntSizes(h, Taken(h)) /\ g[b].size \in Int
  BY TakenFinite, BlockBounds
<1>2. SizeSum(g, Taken(h) \cup {b}) = SizeSum(h, Taken(h)) + g[b].size
  BY <1>1, SizeSumAdd
<1> QED
  BY <1>2 DEF TakenSizes

\* kfree's merges take the size of the freed block, and nothing else, off the sum.
LEMMA ReleaseSum ==
    ASSUME NEW h, Good(h), Coalesced(h), NEW b \in DOMAIN h, ~h[b].is_free
    PROVE  /\ TakenSizes(h) = TakenSizes(Release(h, b)) + h[b].size
           /\ TakenSizes(Release(h, b)) \in Int /\ h[b].size \in Int
<1> DEFINE g == Release(h, b)
<1>1. Good(g) /\ Keeps(h, g, {b})
  BY ReleaseGood
<1> HIDE DEF g
<1>2. b \notin Taken(g) /\ Taken(h) = Taken(g) \cup {b}
  BY <1>1 DEF Keeps, Taken
<1>3. \A c \in Taken(g) : h[c].size = g[c].size
  BY <1>1, <1>2 DEF Keeps, Taken
<1>4. TakenSizes(h) = TakenSizes(g) + h[b].size
  BY <1>1, <1>2, <1>3, TakenMore
<1>5. TakenSizes(g) \in Int /\ h[b].size \in Int
  BY <1>1, BlockBounds, TakenFinite
<1> QED
  BY <1>4, <1>5 DEF g

\* At start no block is taken.
LEMMA UsedInit == Init => UsedSum
<1> SUFFICES ASSUME Init PROVE UsedSum
  OBVIOUS
<1>1. Taken(hdr) = {}
  BY DEF Init, Taken
<1>2. IsFiniteSet({}) /\ IntSizes(hdr, {})
  BY FS_EmptySet DEF IntSizes
<1>3. PICK g : Sums(g, hdr, {}) /\ SizeSum(hdr, {}) = g[{}]
  BY <1>2, SizeSumIs
<1>4. g[{}] = 0
  BY <1>3 DEF Sums, StepsOn, SumStep
<1>5. TakenSizes(hdr) = 0
  BY <1>1, <1>3, <1>4 DEF TakenSizes
<1> QED
  BY <1>5, Arena DEF Init, UsedSum

\* kfree reduces used by what leaves the sum.
LEMMA kfreeUsed ==
    ASSUME HeapInv, UsedSum, NEW b \in DOMAIN live \cup DOMAIN freed, kfree(b)
    PROVE  UsedSum'
<1>1. CASE ReadsFree(b)
  <2>1. hdr' = hdr /\ used' = used
    BY <1>1 DEF kfree, heapVars
  <2> QED
    BY <2>1 DEF UsedSum
<1>2. CASE ~ReadsFree(b)
  <2>1. hdr' = Release(hdr, b) /\ used' = used - hdr[b].size
    BY <1>2 DEF kfree
  <2>2. b \in DOMAIN hdr /\ ~hdr[b].is_free /\ Good(hdr) /\ Coalesced(hdr)
    BY <1>2, ReadsFreeMeans, InvGood DEF Blocks
  <2>3. /\ TakenSizes(hdr) = TakenSizes(hdr') + hdr[b].size
        /\ TakenSizes(hdr') \in Int /\ hdr[b].size \in Int
    BY <2>1, <2>2, ReleaseSum
  <2>4. used' = HDR + TakenSizes(hdr')
    BY <2>1, <2>3, Arena DEF UsedSum
  <2> QED
    BY <2>4 DEF UsedSum
<1> QED
  BY <1>1, <1>2

\* kmalloc adds the block it hands out; krealloc takes the old one off as well.
LEMMA WalkTakesUsed ==
    ASSUME HeapInv, UsedSum, WalkTakes
    PROVE  UsedSum'
<1> DEFINE b == call.cur
           h == Carve(hdr, b, call.need)
           o == call.old
<1>1. call # Idle /\ b # NULL /\ hdr[b].is_free /\ hdr[b].size >= call.need
  BY DEF WalkTakes, Fits
<1>2. call \in Calls /\ call.need \in Nat /\ call.need >= HDR
  BY <1>1 DEF HeapInv, CallOK, Calls
<1>3. b \in DOMAIN hdr /\ Good(hdr) /\ Coalesced(hdr)
  BY <1>1, InvGood DEF HeapInv, WalkSound, Blocks
<1>4. /\ Good(h) /\ Coalesced(h) /\ b \in DOMAIN h /\ ~h[b].is_free
      /\ \A d \in DOMAIN hdr \ {b} :
           d \in DOMAIN h /\ h[d].is_free = hdr[d].is_free /\ h[d].size = hdr[d].size
      /\ \A d \in DOMAIN h : ~h[d].is_free => d \in DOMAIN hdr
  BY <1>1, <1>2, <1>3, CarveGood
<1>5. IF o = NULL
      THEN hdr' = h /\ used' = used + h[b].size
      ELSE hdr' = Release(h, o) /\ used' = used + h[b].size - h[o].size
  BY DEF WalkTakes
<1> HIDE DEF h, b
<1>6. b \notin Taken(hdr) /\ Taken(h) = Taken(hdr) \cup {b}
  BY <1>1, <1>4 DEF Taken
<1>7. \A c \in Taken(hdr) : h[c].size = hdr[c].size
  BY <1>1, <1>4 DEF Taken
<1>8. TakenSizes(h) = TakenSizes(hdr) + h[b].size
  BY <1>3, <1>4, <1>6, <1>7, TakenMore
<1>9. h[b].size \in Int /\ TakenSizes(hdr) \in Int /\ HDR \in Int
  BY <1>3, <1>4, BlockBounds, TakenFinite, Arena
<1>10. used = HDR + TakenSizes(hdr)
  BY DEF UsedSum
<1>11. CASE o = NULL
  <2>1. used' = HDR + TakenSizes(hdr')
    BY <1>5, <1>8, <1>9, <1>10, <1>11
  <2> QED
    BY <2>1 DEF UsedSum
<1>12. CASE o # NULL
  <2>1. o \in Taken(hdr)
    BY <1>1, <1>12 DEF HeapInv, WalkSound, LiveExact, Blocks, Taken
  <2>2. o \in DOMAIN h /\ ~h[o].is_free
    BY <2>1, <1>6 DEF Taken
  <2>3. /\ TakenSizes(h) = TakenSizes(Release(h, o)) + h[o].size
        /\ TakenSizes(Release(h, o)) \in Int /\ h[o].size \in Int
    BY <2>2, <1>4, ReleaseSum
  <2> DEFINE t == TakenSizes(hdr)
             r == TakenSizes(Release(h, o))
  <2>4. r = t + h[b].size - h[o].size
    <3> HIDE DEF t, r
    <3> QED
      BY <2>3, <1>8, <1>9 DEF t, r
  <2>5. used' = HDR + TakenSizes(hdr')
    BY <2>3, <2>4, <1>5, <1>9, <1>10, <1>12
  <2> QED
    BY <2>5 DEF UsedSum
<1> QED
  BY <1>11, <1>12

\* No step lets used drift from the sum.
LEMMA NextUsed ==
    ASSUME HeapInv, UsedSum, [Next]_heapVars
    PROVE  UsedSum'
<1>1. CASE UNCHANGED <<hdr, used>>
  <2>1. hdr' = hdr /\ used' = used
    BY <1>1
  <2> QED
    BY <2>1 DEF UsedSum
<1>2. CASE UNCHANGED heapVars
  BY <1>1, <1>2 DEF heapVars
<1>3. CASE \E size \in Sizes : kmalloc(size)
  BY <1>1, <1>3 DEF kmalloc, Start
<1>4. CASE \E num \in Nums, size \in Sizes : kcalloc(num, size)
  BY <1>1, <1>4 DEF kcalloc, Start
<1>5. CASE \E b \in DOMAIN live \cup {NULL}, size \in Sizes : krealloc(b, size)
  <2>1. PICK b \in DOMAIN live \cup {NULL}, size \in Sizes : krealloc(b, size)
    BY <1>5
  <2>2. (b # NULL /\ kfree(b)) \/ UNCHANGED <<hdr, used>>
    BY <2>1 DEF krealloc, kmalloc, Start
  <2> QED
    BY <2>2, <1>1, kfreeUsed
<1>6. CASE \E b \in DOMAIN live \cup DOMAIN freed : kfree(b)
  BY <1>6, kfreeUsed
<1>7. CASE WalkOn \/ WalkFails
  BY <1>1, <1>7 DEF WalkOn, WalkFails
<1>8. CASE WalkTakes
  BY <1>8, WalkTakesUsed
<1> QED
  BY <1>2, <1>3, <1>4, <1>5, <1>6, <1>7, <1>8 DEF Next, Walk

\* kernel_heap.used always is the first header plus every block in use: no
\* sequence of kmalloc, kcalloc, krealloc and kfree makes the counter drift.
THEOREM KheapUsedExact == NoWrap => (Spec => []UsedExact)
<1> SUFFICES ASSUME NoWrap PROVE Spec => []UsedExact
  OBVIOUS
<1>1. Init => UsedSum
  BY UsedInit
<1>2. HeapInv /\ UsedSum /\ [Next]_heapVars => UsedSum'
  BY NextUsed
<1>3. UsedSum => UsedExact
  BY DEF UsedSum, UsedExact, TakenSizes, SizeSum, Taken, Blocks
<1>4. Spec => []HeapInv
  BY KheapInvariant
<1> QED
  BY <1>1, <1>2, <1>3, <1>4, PTL DEF Spec
==============================================================================
