-------------------------- MODULE BlockBufferProofs --------------------------
(***************************************************************************)
(* Proofs about BlockBuffer for images, chunks and sets of requests of any *)
(* size.                                                                   *)
(***************************************************************************)
EXTENDS BlockBuffer, TLAPS

\* The blocks of a request lie in the image, and correspond to the positions of
\* the data that is written or answered.
LEMMA SpanFacts ==
    ASSUME NEW r \in Requests
    PROVE  /\ Span(r) \subseteq Blocks
           /\ \A i \in 1 .. r.len : r.start + i - 1 \in Span(r)
           /\ \A b \in Span(r) : b - r.start + 1 \in 1 .. r.len
BY SizeAssumption DEF Span, Requests, Blocks

\* Whole chunks lie inside an image that is cut into whole chunks.
LEMMA ChunkInImage ==
    ASSUME Chunk > 0, NEW x \in Blocks, NEW y \in Blocks, x <= y
    PROVE  ChunkRange(x \div Chunk, y \div Chunk) \in Requests
<1> DEFINE k == NBlocks \div Chunk
           p == x \div Chunk
           q == y \div Chunk
<1>1. /\ Chunk \in Nat \ {0} /\ NBlocks \in Nat \ {0}
      /\ NBlocks = k * Chunk /\ k \in Int
  BY SizeAssumption, KindAssumption
<1>2. /\ p \in Int /\ q \in Int
      /\ p * Chunk <= x /\ x < (p + 1) * Chunk
      /\ q * Chunk <= y /\ y < (q + 1) * Chunk
  BY <1>1 DEF Blocks
<1>3. p >= 0
  BY <1>1 DEF Blocks
<1>4. p <= q
  <2> SUFFICES ASSUME q + 1 <= p PROVE FALSE
    BY <1>2
  <2>1. (q + 1) * Chunk <= p * Chunk
    BY <1>1, <1>2
  <2> QED BY <2>1, <1>1, <1>2 DEF Blocks
<1>5. q + 1 <= k
  <2> SUFFICES ASSUME k <= q PROVE FALSE
    BY <1>1, <1>2
  <2>1. k * Chunk <= q * Chunk
    BY <1>1, <1>2
  <2> QED BY <2>1, <1>1, <1>2 DEF Blocks
<1>6. (q + 1) * Chunk <= NBlocks
  BY <1>1, <1>2, <1>5
<1>7. p * Chunk >= 0 /\ p * Chunk \in Int
  BY <1>1, <1>2, <1>3
<1>8. (q - p + 1) * Chunk = (q + 1) * Chunk - p * Chunk
  BY <1>1, <1>2
<1>9. (q - p + 1) * Chunk >= Chunk
  BY <1>1, <1>2, <1>4
<1> HIDE DEF p, q
<1>10. (q - p + 1) * Chunk \in 1 .. NBlocks /\ p * Chunk \in Blocks
  BY <1>1, <1>2, <1>6, <1>7, <1>8, <1>9 DEF Blocks
<1>11. p * Chunk + (q - p + 1) * Chunk <= NBlocks
  BY <1>1, <1>2, <1>6, <1>7, <1>8
<1> QED BY <1>10, <1>11 DEF ChunkRange, Requests, p, q

\* What a get that misses loads is a set of ranges inside the image.
LEMMA LoadsInImage ==
    ASSUME NEW r \in Requests PROVE LoadsFor(r) \subseteq Requests
<1>1. /\ r.start \in Blocks /\ r.len \in 1 .. NBlocks
      /\ r.start + r.len - 1 \in Blocks /\ r.start <= r.start + r.len - 1
  BY SizeAssumption DEF Requests, Blocks
<1>2. ASSUME Chunk > 0 PROVE Aligned(r) \in Requests
  BY <1>1, <1>2, ChunkInImage DEF Aligned
<1>3. ASSUME Chunk > 0, NEW c \in r.start \div Chunk .. (r.start + r.len - 1) \div Chunk
      PROVE  ChunkRange(c, c) \in Requests
  <2> DEFINE x == c * Chunk
  <2>1. Chunk \in Nat \ {0} /\ NBlocks \in Nat \ {0}
    BY SizeAssumption, <1>3
  <2>2. /\ r.start \div Chunk \in Int /\ r.start \div Chunk >= 0 /\ c \in Int
        /\ (r.start + r.len - 1) \div Chunk \in Int
        /\ ((r.start + r.len - 1) \div Chunk) * Chunk <= r.start + r.len - 1
    BY <1>1, <2>1, <1>3 DEF Blocks
  <2>3. x <= ((r.start + r.len - 1) \div Chunk) * Chunk /\ x >= 0 /\ x \in Int
    BY <2>1, <2>2, <1>3
  <2>4. x \in Blocks
    BY <1>1, <2>1, <2>2, <2>3 DEF Blocks
  <2>5. x \div Chunk = c
    BY <2>1, <2>2
  <2> QED BY <2>4, <2>5, ChunkInImage, <1>3 DEF Blocks
<1> QED BY <1>2, <1>3, SizeAssumption DEF LoadsFor, ChunksOf, Chunked

\* Every variable keeps its type.
THEOREM TypeCorrect == Spec => []TypeOK
<1>1. Init => TypeOK
  BY DEF Init, TypeOK, NoBlocks
<1>2. TypeOK /\ [Next]_vars => TypeOK'
  <2> SUFFICES ASSUME TypeOK, [Next]_vars PROVE TypeOK'
    OBVIOUS
  <2> USE DEF TypeOK
  <2>i. \A b \in Blocks : Image[b] \in Data
    BY DEF Data
  <2>1. ASSUME NEW r \in Requests, NEW data \in [1 .. r.len -> Vals], Set(r, data)
        PROVE  TypeOK'
    <3>1. \A b \in Span(r) : b - r.start + 1 \in 1 .. r.len
      BY SpanFacts
    <3>2. Span(r) \subseteq Blocks
      BY SpanFacts
    <3>3. cache' \in [Blocks -> Data \cup {None}]
      BY <2>1, <3>1 DEF Set, Data
    <3> QED BY <2>1, <3>2, <3>3 DEF Set
  <2>2. ASSUME NEW s \in Slots, NEW r \in Requests, GetCached(s, r) PROVE TypeOK'
    BY <2>2 DEF GetCached
  <2>3. ASSUME NEW s \in Slots, NEW r \in Requests, GetMiss(s, r) PROVE TypeOK'
    BY <2>3, LoadsInImage DEF GetMiss, Assembled
  <2>4. ASSUME NEW s \in Slots, NEW l \in loads[s], Loaded(s, l) PROVE TypeOK'
    <3>1. CacheAfter(l) \in [Blocks -> Data \cup {None}]
      BY <2>i DEF CacheAfter, Overlay
    <3>2. BlocksAfter(s, l) \in [Blocks -> Data \cup {None}]
      BY <2>i DEF BlocksAfter, Delivered, Overlay
    <3>3. cache' \in [Blocks -> Data \cup {None}]
      BY <2>4, <3>1 DEF Loaded
    <3>4. blocks' \in [Slots -> [Blocks -> Data \cup {None}]]
      BY <2>4, <3>2 DEF Loaded, NoBlocks
    <3>5. want' \in [Slots -> Requests \cup {None}]
      BY <2>4 DEF Loaded
    <3> QED BY <2>4, <3>3, <3>4, <3>5 DEF Loaded
  <2>5. ASSUME SaveState PROVE TypeOK'
    BY <2>5 DEF SaveState
  <2>6. ASSUME RestoreState PROVE TypeOK'
    BY <2>6 DEF RestoreState
  <2>7. ASSUME UNCHANGED vars PROVE TypeOK'
    BY <2>7 DEF vars
  <2> QED BY <2>1, <2>2, <2>3, <2>4, <2>5, <2>6, <2>7 DEF Next
<1> QED BY <1>1, <1>2, PTL DEF Spec

-----------------------------------------------------------------------------
(* CacheAgrees is inductive once every variable has its type: set marks    *)
(* what it stores, handle_read stores the file's own bytes, and set_state  *)
(* installs what get_state kept, which was marked.                         *)

\* A cached block that is not marked as written is the file's own block, so
\* that get_state may drop it.
THEOREM CacheAgreement == Spec => []CacheAgrees
<1>1. Init => CacheAgrees
  BY DEF Init, CacheAgrees, NoBlocks
<1>2. TypeOK /\ CacheAgrees /\ [Next]_vars => CacheAgrees'
  <2> SUFFICES ASSUME TypeOK, CacheAgrees, [Next]_vars PROVE CacheAgrees'
    OBVIOUS
  <2> USE DEF CacheAgrees
  <2>1. ASSUME NEW r \in Requests, NEW data \in [1 .. r.len -> Vals], Set(r, data)
        PROVE  CacheAgrees'
    <3>1. \A b \in Span(r) : b - r.start + 1 \in 1 .. r.len
      BY SpanFacts
    <3>2. \A b \in Span(r) \cap Blocks : b \in written' /\ cache'[b] \in Vals
      BY <2>1, <3>1 DEF Set
    <3>3. \A b \in Blocks \ Span(r) : cache'[b] = cache[b] /\ (b \in written' <=> b \in written)
      BY <2>1 DEF Set
    <3>4. None \notin Vals
      BY NoneAssumption DEF Data
    <3>5. written' \subseteq Blocks
      BY <2>1, SpanFacts DEF Set, TypeOK
    <3> QED BY <3>2, <3>3, <3>4, <3>5
  <2>2. ASSUME NEW s \in Slots, NEW l \in loads[s], Loaded(s, l) PROVE CacheAgrees'
    <3>1. ASSUME cache' = CacheAfter(l) PROVE CacheAgrees'
      <4>1. ASSUME NEW b \in Blocks
            PROVE  \/ cache'[b] = cache[b]
                   \/ cache[b] = None /\ Chunk > 0 /\ cache'[b] = Image[b]
        <5>1. cache'[b] = IF Chunk > 0 /\ b \in Span(l) THEN Overlay(b) ELSE cache[b]
          BY <3>1 DEF CacheAfter, CacheReads
        <5> QED BY <5>1 DEF Overlay
      <4>2. written' = written /\ written \subseteq Blocks
        BY <2>2 DEF Loaded, TypeOK
      <4>3. Chunk > 0 => ~ (Chunk = 0)
        BY SizeAssumption
      <4> QED BY <4>1, <4>2, <4>3
    <3> QED BY <2>2, <3>1 DEF Loaded
  <2>3. ASSUME RestoreState PROVE CacheAgrees'
    BY <2>3 DEF RestoreState
  <2>4. ASSUME \/ \E s \in Slots, r \in Requests : GetCached(s, r) \/ GetMiss(s, r)
               \/ SaveState
               \/ UNCHANGED vars
        PROVE CacheAgrees'
    BY <2>4 DEF GetCached, GetMiss, SaveState, vars
  <2> QED BY <2>1, <2>2, <2>3, <2>4 DEF Next
<1> QED BY <1>1, <1>2, TypeCorrect, PTL DEF Spec

-----------------------------------------------------------------------------
(* Without chunks a get makes one load, of exactly the range it asked for. *)

OneLoad == \A s \in Slots : loads[s] \subseteq IF want[s] = None THEN {} ELSE {want[s]}

LEMMA OneLoadInvariant == ASSUME Chunk = 0 PROVE Spec => []OneLoad
<1>1. Init => OneLoad
  BY DEF Init, OneLoad
<1>2. TypeOK /\ OneLoad /\ [Next]_vars => OneLoad'
  <2> SUFFICES ASSUME TypeOK, OneLoad, [Next]_vars PROVE OneLoad'
    OBVIOUS
  <2> USE DEF OneLoad
  <2>1. ASSUME NEW s \in Slots, NEW r \in Requests, GetMiss(s, r) PROVE OneLoad'
    <3>1. LoadsFor(r) = {r} /\ r # None
      BY NoneAssumption DEF LoadsFor, Chunked
    <3> QED BY <2>1, <3>1 DEF GetMiss, TypeOK
  <2>2. ASSUME NEW s \in Slots, NEW l \in loads[s], Loaded(s, l) PROVE OneLoad'
    <3>1. loads' = [loads EXCEPT ![s] = @ \ {l}]
      BY <2>2 DEF Loaded
    <3>2. want' = want \/ (loads[s] = {l} /\ want' = [want EXCEPT ![s] = None])
      BY <2>2 DEF Loaded
    <3> QED BY <3>1, <3>2 DEF TypeOK
  <2>3. ASSUME UNCHANGED <<want, loads>> PROVE OneLoad'
    BY <2>3
  <2> QED BY <2>1, <2>2, <2>3 DEF Next, Set, GetCached, SaveState, RestoreState, vars
<1> QED BY <1>1, <1>2, TypeCorrect, PTL DEF Spec

\* A buffer that does not cut its image into chunks is the disk of module Disk:
\* whatever is written, restored or answered while a read is under way, the
\* read returns the content of the moment of its answer.
THEOREM ImplementsDisk == ASSUME Chunk = 0 PROVE Spec => RefinesDisk
<1> D!Blocks = Blocks /\ D!Requests = Requests
  BY DEF D!Blocks, D!Requests, Blocks, Requests
<1> USE DEF D!Blocks, Blocks
<1>1. Init => D!Init
  <2> SUFFICES ASSUME Init PROVE D!Init
    OBVIOUS
  <2>1. Effective = Image /\ SavedContent = Image
    BY ImageAssumption DEF Init, Effective, SavedContent, Overlay, NoBlocks
  <2> QED BY <2>1 DEF Init, D!Init
<1>2. TypeOK /\ CacheAgrees /\ OneLoad /\ [Next]_vars => [D!Next]_D!vars
  <2> SUFFICES ASSUME TypeOK, CacheAgrees, OneLoad, [Next]_vars PROVE [D!Next]_D!vars
    OBVIOUS
  <2>1. ASSUME NEW r \in Requests, NEW data \in [1 .. r.len -> Vals], Set(r, data)
        PROVE  D!Next
    <3>1. data \in [1 .. r.len -> Data]
      BY DEF Data
    <3>2. Effective' = [b \in Blocks |-> IF b \in Span(r) THEN data[b - r.start + 1]
                                         ELSE Effective[b]]
      <4>1. \A b \in Span(r) : data[b - r.start + 1] # None
        BY SpanFacts, NoneAssumption DEF Data
      <4> QED BY <2>1, <4>1 DEF Set, Effective, Overlay
    <3>3. D!Write(r, data)
      BY <2>1, <3>2 DEF D!Write, Set, Span, SavedContent
    <3> QED BY <3>1, <3>3 DEF D!Next
  <2>2. ASSUME NEW s \in Slots, NEW r \in Requests, GetCached(s, r) PROVE D!Next
    <3>1. Content(r, cache) = D!Content(r)
      BY <2>2, SpanFacts DEF GetCached, Cached, Content, D!Content, Effective, Overlay
    <3> QED BY <2>2, <3>1 DEF D!Next, D!AnswerNow, GetCached, Effective, Overlay, SavedContent
  <2>3. ASSUME NEW s \in Slots, NEW r \in Requests, GetMiss(s, r) PROVE D!Next
    BY <2>3 DEF D!Next, D!Request, GetMiss, Effective, Overlay, SavedContent
  <2>4. ASSUME NEW s \in Slots, NEW l \in loads[s], Loaded(s, l) PROVE [D!Next]_D!vars
    <3>1. loads[s] = {l} /\ l = want[s] /\ want[s] # None /\ l \in Requests
      BY DEF OneLoad, TypeOK
    <3>2. CASE DoneThrows
      BY <2>4, <3>2 DEF Loaded, D!vars, Effective, Overlay, SavedContent
    <3>3. CASE ~ DoneThrows
      <4>1. CacheAfter(l) = cache
        BY DEF CacheAfter, CacheReads, TypeOK
      <4>2. cache' = cache /\ saved' = saved
        BY <2>4, <3>3, <4>1 DEF Loaded
      <4>3. Effective' = Effective /\ SavedContent' = SavedContent
        BY <4>2 DEF Effective, Overlay, SavedContent
      <4>4. Content(want[s], BlocksAfter(s, l)) = D!Content(want[s])
        <5>1. \A b \in Span(l) : b \in Blocks /\ BlocksAfter(s, l)[b] = Effective[b]
          BY <3>1, SpanFacts DEF BlocksAfter, Delivered, Chunked, Effective
        <5> QED BY <3>1, <5>1, SpanFacts DEF Content, D!Content
      <4>5. D!Answer(s)
        BY <2>4, <3>1, <3>3, <4>3, <4>4 DEF Loaded, D!Answer
      <4> QED BY <4>5 DEF D!Next
    <3> QED BY <3>2, <3>3
  <2>5. ASSUME SaveState PROVE D!Next
    <3>1. SavedContent' = Effective
      BY <2>5 DEF SaveState, SavedContent, Effective, Overlay, CacheAgrees
    <3> QED BY <2>5, <3>1 DEF SaveState, D!Next, D!Save, Effective, Overlay
  <2>6. ASSUME RestoreState PROVE D!Next
    BY <2>6 DEF RestoreState, D!Next, D!Restore, SavedContent, Effective, Overlay
  <2>7. ASSUME UNCHANGED vars PROVE UNCHANGED D!vars
    BY <2>7 DEF vars, D!vars, Effective, Overlay, SavedContent
  <2> QED BY <2>1, <2>2, <2>3, <2>4, <2>5, <2>6, <2>7 DEF Next
<1> QED BY <1>1, <1>2, TypeCorrect, CacheAgreement, OneLoadInvariant, PTL
        DEF Spec, RefinesDisk, D!Spec

-----------------------------------------------------------------------------
(* With chunks a get makes several loads, or takes some from the cache.    *)
(* Every block it wants is in the answer already or will come with a load  *)
(* still under way, and nothing is ever at another block's place.          *)

InPlace(f) == \A b \in Blocks : f[b] \in Vals \cup {Image[b], None}

AllInPlace == InPlace(cache) /\ InPlace(saved) /\ \A s \in Slots : InPlace(blocks[s])

Covered(s) == \A b \in Span(want[s]) : blocks[s][b] # None \/ \E l \in loads[s] : b \in Span(l)

AllCovered == \A s \in Slots : want[s] # None => Covered(s)

\* A block lies in the chunk that its number divided by the chunk's size gives.
LEMMA InItsChunk ==
    ASSUME Chunk > 0, NEW x \in Blocks, NEW b \in Blocks, NEW y \in Blocks, x <= b, b <= y
    PROVE  /\ b \div Chunk \in x \div Chunk .. y \div Chunk
           /\ b \in Span(ChunkRange(b \div Chunk, b \div Chunk))
           /\ b \in Span(ChunkRange(x \div Chunk, y \div Chunk))
<1> DEFINE p == x \div Chunk
           c == b \div Chunk
           q == y \div Chunk
<1>1. /\ Chunk \in Nat \ {0} /\ x \in Nat /\ b \in Nat /\ y \in Nat
  BY SizeAssumption DEF Blocks
<1>2. /\ p \in Int /\ c \in Int /\ q \in Int
      /\ p * Chunk <= x /\ x < (p + 1) * Chunk
      /\ c * Chunk <= b /\ b < (c + 1) * Chunk
      /\ q * Chunk <= y /\ y < (q + 1) * Chunk
  BY <1>1
<1> HIDE DEF p, c, q
<1>3. ASSUME NEW i \in Int, NEW j \in Int, j + 1 <= i
      PROVE  (j + 1) * Chunk <= i * Chunk
  BY <1>1, <1>3
<1>4. p <= c /\ c <= q
  <2>1. ~ (c + 1 <= p)
    BY <1>1, <1>2, <1>3
  <2>2. ~ (q + 1 <= c)
    BY <1>1, <1>2, <1>3
  <2> QED
    BY <1>2, <2>1, <2>2
<1>5. /\ (c - c + 1) * Chunk = (c + 1) * Chunk - c * Chunk
      /\ (q - p + 1) * Chunk = (q + 1) * Chunk - p * Chunk
      /\ {c * Chunk, (c + 1) * Chunk, p * Chunk, (q + 1) * Chunk} \subseteq Int
  BY <1>1, <1>2
<1>6. ASSUME NEW i \in Int, NEW j \in Int, i * Chunk <= b, b < (j + 1) * Chunk,
             (j - i + 1) * Chunk = (j + 1) * Chunk - i * Chunk,
             i * Chunk \in Int, (j + 1) * Chunk \in Int
      PROVE  b \in Span(ChunkRange(i, j))
  BY <1>1, <1>6 DEF Span, ChunkRange
<1>7. b \in Span(ChunkRange(c, c))
  BY <1>2, <1>5, <1>6
<1>8. p * Chunk <= b /\ b < (q + 1) * Chunk
  BY <1>1, <1>2, <1>5
<1>9. b \in Span(ChunkRange(p, q))
  BY <1>2, <1>5, <1>6, <1>8
<1> QED
  BY <1>2, <1>4, <1>7, <1>9 DEF p, c, q

\* A get that misses finds every block in the cache or asks for it.
LEMMA MissCovers ==
    ASSUME NEW r \in Requests, NEW b \in Span(r)
    PROVE  Assembled(r)[b] # None \/ \E l \in LoadsFor(r) : b \in Span(l)
<1>1. /\ r.start \in Blocks /\ r.start + r.len - 1 \in Blocks /\ b \in Blocks
      /\ r.start <= b /\ b <= r.start + r.len - 1
  BY SizeAssumption DEF Requests, Blocks, Span
<1> DEFINE k == ChunkRange(b \div Chunk, b \div Chunk)
<1>2. ASSUME Chunk > 0 PROVE k \in ChunksOf(r) /\ b \in Span(k) /\ b \in Span(Aligned(r))
  BY <1>1, <1>2, InItsChunk DEF ChunksOf, Aligned
<1>3. CASE Chunked
  <2>1. k \in ChunksOf(r) /\ b \in Span(k)
    BY <1>2, <1>3 DEF Chunked
  <2>2. CASE Cached(k)
    <3>1. Assembled(r)[b] = cache[b]
      BY <1>1, <1>3, <2>1, <2>2 DEF Assembled
    <3> QED
      BY <2>1, <2>2, <3>1 DEF Cached
  <2>3. CASE ~ Cached(k)
    BY <1>3, <2>1, <2>3 DEF LoadsFor
  <2> QED
    BY <2>2, <2>3
<1>4. CASE ~ Chunked /\ Chunk > 0
  BY <1>2, <1>4 DEF LoadsFor
<1>5. CASE ~ Chunked /\ ~ (Chunk > 0)
  BY <1>5 DEF LoadsFor
<1> QED
  BY <1>3, <1>4, <1>5

\* What a load brings for a block is the file's or was written, and is there.
LEMMA DeliveredIs ==
    ASSUME AllInPlace, NEW b \in Blocks
    PROVE  /\ Overlay(b) \in Vals \cup {Image[b]} /\ Delivered(b) \in Vals \cup {Image[b]}
           /\ Overlay(b) # None /\ Delivered(b) # None
<1>1. Image[b] # None /\ None \notin Vals /\ cache[b] \in Vals \cup {Image[b], None}
  BY NoneAssumption DEF Data, AllInPlace, InPlace
<1> QED
  BY <1>1 DEF Overlay, Delivered

LEMMA InPlaceKept ==
    ASSUME TypeOK, AllInPlace, [Next]_vars
    PROVE  AllInPlace'
<1>0. InPlace(cache) /\ InPlace(saved) /\ \A s \in Slots : InPlace(blocks[s])
  BY DEF AllInPlace
<1>1. ASSUME NEW r \in Requests, NEW data \in [1 .. r.len -> Vals], Set(r, data)
      PROVE  AllInPlace'
  <2>1. InPlace(cache')
    <3> SUFFICES ASSUME NEW b \in Blocks PROVE cache'[b] \in Vals \cup {Image[b], None}
      BY DEF InPlace
    <3>1. cache'[b] = IF b \in Span(r) THEN data[b - r.start + 1] ELSE cache[b]
      BY <1>1 DEF Set
    <3>2. b \in Span(r) => data[b - r.start + 1] \in Vals
      BY SpanFacts
    <3> QED
      BY <1>0, <3>1, <3>2 DEF InPlace
  <2>2. saved' = saved /\ blocks' = blocks
    BY <1>1 DEF Set
  <2> QED
    BY <1>0, <2>1, <2>2 DEF AllInPlace
<1>2. ASSUME NEW s \in Slots, NEW r \in Requests, GetMiss(s, r)
      PROVE  AllInPlace'
  <2>1. cache' = cache /\ saved' = saved /\ blocks' = [blocks EXCEPT ![s] = Assembled(r)]
    BY <1>2 DEF GetMiss
  <2>2. InPlace(Assembled(r))
    BY <1>0 DEF InPlace, Assembled
  <2>3. \A t \in Slots : InPlace(blocks'[t])
    BY <1>0, <2>1, <2>2 DEF TypeOK
  <2> QED
    BY <1>0, <2>1, <2>3 DEF AllInPlace
<1>3. ASSUME NEW s \in Slots, NEW l \in loads[s], Loaded(s, l)
      PROVE  AllInPlace'
  <2>1. saved' = saved
    BY <1>3 DEF Loaded
  <2>2. InPlace(CacheAfter(l))
    BY <1>0, DeliveredIs DEF InPlace, CacheAfter
  <2>3. InPlace(BlocksAfter(s, l))
    BY <1>0, DeliveredIs DEF InPlace, BlocksAfter
  <2>4. InPlace(NoBlocks)
    BY DEF InPlace, NoBlocks
  <2>5. cache' = cache \/ cache' = CacheAfter(l)
    BY <1>3 DEF Loaded
  <2>6. \/ blocks' = blocks
        \/ blocks' = [blocks EXCEPT ![s] = NoBlocks]
        \/ blocks' = [blocks EXCEPT ![s] = BlocksAfter(s, l)]
    BY <1>3 DEF Loaded
  <2>7. \A t \in Slots : InPlace(blocks'[t])
    BY <1>0, <2>3, <2>4, <2>6 DEF TypeOK
  <2>8. InPlace(cache')
    BY <1>0, <2>2, <2>5
  <2> QED
    BY <1>0, <2>1, <2>7, <2>8 DEF AllInPlace
<1>4. ASSUME SaveState \/ RestoreState
      PROVE  AllInPlace'
  <2>1. InPlace(cache') /\ InPlace(saved') /\ blocks' = blocks
    BY <1>0, <1>4 DEF SaveState, RestoreState, InPlace
  <2> QED
    BY <1>0, <2>1 DEF AllInPlace
<1>5. ASSUME UNCHANGED <<cache, saved, blocks>>
      PROVE  AllInPlace'
  BY <1>0, <1>5 DEF AllInPlace
<1> QED
  BY <1>1, <1>2, <1>3, <1>4, <1>5 DEF Next, GetCached, vars

LEMMA CoveredKept ==
    ASSUME ~ DoneThrows, TypeOK, AllInPlace, AllCovered, [Next]_vars
    PROVE  AllCovered'
<1> SUFFICES ASSUME NEW t \in Slots, want'[t] # None, NEW b \in Span(want'[t])
             PROVE  blocks'[t][b] # None \/ \E l \in loads'[t] : b \in Span(l)
  BY DEF AllCovered, Covered
<1>1. ASSUME NEW s \in Slots, NEW r \in Requests, GetMiss(s, r)
      PROVE  blocks'[t][b] # None \/ \E l \in loads'[t] : b \in Span(l)
  <2>1. CASE t = s
    <3>1. want'[t] = r /\ loads'[t] = LoadsFor(r) /\ blocks'[t] = Assembled(r)
      BY <1>1, <2>1 DEF GetMiss, TypeOK
    <3> QED
      BY <3>1, MissCovers
  <2>2. CASE t # s
    <3>1. want'[t] = want[t] /\ loads'[t] = loads[t] /\ blocks'[t] = blocks[t]
      BY <1>1, <2>2 DEF GetMiss, TypeOK
    <3> QED
      BY <3>1 DEF AllCovered, Covered
  <2> QED
    BY <2>1, <2>2
<1>2. ASSUME NEW s \in Slots, NEW l \in loads[s], Loaded(s, l)
      PROVE  blocks'[t][b] # None \/ \E k \in loads'[t] : b \in Span(k)
  <2>1. CASE t = s
    <3>1. /\ want' = want /\ loads'[t] = loads[t] \ {l}
          /\ blocks'[t] = BlocksAfter(s, l)
      BY <1>2, <2>1 DEF Loaded, TypeOK
    <3>2. b \in Blocks
      BY <3>1, SpanFacts DEF TypeOK
    <3>3. blocks'[t][b] = IF b \in Span(l) THEN Delivered(b) ELSE blocks[t][b]
      BY <2>1, <3>1, <3>2 DEF BlocksAfter
    <3>4. Delivered(b) # None
      BY <3>2, DeliveredIs
    <3>5. blocks[t][b] # None \/ \E k \in loads[t] : b \in Span(k)
      BY <3>1 DEF AllCovered, Covered
    <3> QED
      BY <2>1, <3>1, <3>3, <3>4, <3>5
  <2>2. CASE t # s
    <3>1. want'[t] = want[t] /\ loads'[t] = loads[t] /\ blocks'[t] = blocks[t]
      BY <1>2, <2>2 DEF Loaded, TypeOK
    <3> QED
      BY <3>1 DEF AllCovered, Covered
  <2> QED
    BY <2>1, <2>2
<1>3. ASSUME UNCHANGED <<want, loads, blocks>>
      PROVE  blocks'[t][b] # None \/ \E l \in loads'[t] : b \in Span(l)
  BY <1>3 DEF AllCovered, Covered
<1> QED
  BY <1>1, <1>2, <1>3 DEF Next, Set, GetCached, SaveState, RestoreState, vars

LEMMA AnswerInPlace ==
    ASSUME ~ DoneThrows, TypeOK, AllInPlace, AllCovered, CacheAgrees, [Next]_vars,
           NEW t \in Slots, want[t] # None, want'[t] = None
    PROVE  /\ DOMAIN answer'.data = 1 .. want[t].len
           /\ \A b \in Span(want[t]) :
                  /\ answer'.data[Position(t, b)] \in Vals \cup {Image[b]}
                  /\ b \notin written /\ blocks[t][b] = None =>
                         answer'.data[Position(t, b)] = Image[b]
<1> DEFINE w == want[t]
<1>1. w \in Requests
  BY DEF TypeOK
<1>2. \E s \in Slots : \E l \in loads[s] : Loaded(s, l)
  <2>1. ASSUME NEW s \in Slots, NEW r \in Requests, GetMiss(s, r) PROVE FALSE
    <3>1. want' = [want EXCEPT ![s] = r] /\ r # None
      BY <2>1, NoneAssumption DEF GetMiss
    <3> QED
      BY <3>1 DEF TypeOK
  <2>2. want' # want
    OBVIOUS
  <2> QED
    BY <2>1, <2>2 DEF Next, Set, GetCached, SaveState, RestoreState, vars
<1>3. PICK s \in Slots : \E l \in loads[s] : Loaded(s, l)
  BY <1>2
<1> PICK l \in loads[s] : Loaded(s, l)
  BY <1>3
<1>4. s = t /\ loads[t] = {l}
  <2>1. want' = want \/ (loads[s] = {l} /\ want' = [want EXCEPT ![s] = None])
    BY DEF Loaded
  <2> QED
    BY <2>1 DEF TypeOK
<1>5. answer'.data = [i \in 1 .. w.len |-> BlocksAfter(t, l)[w.start + i - 1]]
  BY <1>4 DEF Loaded, Content
<1>6. ASSUME NEW b \in Span(w)
      PROVE  /\ answer'.data[Position(t, b)] \in Vals \cup {Image[b]}
             /\ b \notin written /\ blocks[t][b] = None => answer'.data[Position(t, b)] = Image[b]
  <2>1. b \in Blocks /\ Position(t, b) \in 1 .. w.len /\ w.start + Position(t, b) - 1 = b
    <3>1. b \in Blocks /\ b - w.start + 1 \in 1 .. w.len
      BY <1>1, SpanFacts
    <3>2. w.start + (b - w.start + 1) - 1 = b
      BY <1>1, <3>1 DEF Requests, Blocks
    <3> QED
      BY <3>1, <3>2 DEF Position
  <2>2. answer'.data[Position(t, b)] = IF b \in Span(l) THEN Delivered(b) ELSE blocks[t][b]
    BY <1>5, <2>1 DEF BlocksAfter
  <2>3. b \in Span(l) \/ blocks[t][b] # None
    BY <1>4 DEF AllCovered, Covered
  <2>4. blocks[t][b] \in Vals \cup {Image[b], None}
    BY <2>1 DEF AllInPlace, InPlace
  <2>5. Delivered(b) \in Vals \cup {Image[b]}
    BY <2>1, DeliveredIs
  <2>6. b \notin written => Delivered(b) = Image[b]
    BY <2>1 DEF Delivered, Overlay, CacheAgrees
  <2> QED
    BY <2>2, <2>3, <2>4, <2>5, <2>6
<1> QED
  BY <1>5, <1>6

\* Every block of an answer is its own: what was written there or what the file
\* has there, and the latter if it is not written.  For images cut into chunks
\* of any size or none, and for any number of reads and loads under way.
THEOREM AnswersAreInPlace == Spec => UnwrittenReadsExact
<1>1. Init => AllInPlace /\ AllCovered
  BY DEF Init, AllInPlace, InPlace, AllCovered, NoBlocks
<1>2. TypeOK /\ AllInPlace /\ [Next]_vars => AllInPlace'
  BY InPlaceKept
<1>3. CASE ~ DoneThrows
  <2>1. TypeOK /\ AllInPlace /\ AllCovered /\ [Next]_vars => AllCovered'
    BY <1>3, CoveredKept
  <2>2. TypeOK /\ AllInPlace /\ AllCovered /\ CacheAgrees /\ [Next]_vars
        => [\A s \in Slots : Answers(s) =>
              /\ DOMAIN answer'.data = 1 .. want[s].len
              /\ \A b \in Span(want[s]) :
                     /\ answer'.data[Position(s, b)] \in Vals \cup {Image[b]}
                     /\ b \notin written /\ blocks[s][b] = None =>
                            answer'.data[Position(s, b)] = Image[b]]_vars
    BY <1>3, AnswerInPlace DEF Answers
  <2> QED
    BY <1>1, <1>2, <2>1, <2>2, TypeCorrect, CacheAgreement, PTL DEF Spec, UnwrittenReadsExact
<1>4. CASE DoneThrows
  <2>1. TypeOK /\ [Next]_vars => \A s \in Slots : ~ Answers(s)
    <3> SUFFICES ASSUME TypeOK, [Next]_vars, NEW t \in Slots, want[t] # None, want'[t] = None PROVE FALSE
      BY DEF Answers
    <3>1. want' = want \/ \E s \in Slots, r \in Requests : want' = [want EXCEPT ![s] = r]
      BY <1>4 DEF Next, Set, GetCached, GetMiss, Loaded, SaveState, RestoreState, vars
    <3> QED
      BY <3>1, NoneAssumption DEF TypeOK
  <2>2. TypeOK /\ [Next]_vars
        => [\A s \in Slots : Answers(s) =>
              /\ DOMAIN answer'.data = 1 .. want[s].len
              /\ \A b \in Span(want[s]) :
                     /\ answer'.data[Position(s, b)] \in Vals \cup {Image[b]}
                     /\ b \notin written /\ blocks[s][b] = None =>
                            answer'.data[Position(s, b)] = Image[b]]_vars
    BY <2>1
  <2> QED
    BY <2>2, TypeCorrect, PTL DEF Spec, UnwrittenReadsExact
<1> QED
  BY <1>3, <1>4
=============================================================================
