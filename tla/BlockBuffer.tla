----------------------------- MODULE BlockBuffer -----------------------------
(***************************************************************************)
(* The lazily loaded disk images of buffer.ts.  A buffer keeps the blocks  *)
(* the guest has written in block_cache and fetches every other block from *)
(* the image, asynchronously.  One module for the three classes:           *)
(*   "xhr"   AsyncXHRBuffer          ranged requests to one file           *)
(*   "part"  AsyncXHRPartfileBuffer  one request per part file             *)
(*   "file"  AsyncFileBuffer         slices of a local file                *)
(* Everything is counted in blocks (BLOCK_SIZE bytes).  Image is the file, *)
(* which nobody changes; a load delivers its blocks some time later, and   *)
(* loads complete in any order.                                            *)
(***************************************************************************)
EXTENDS Integers, Sequences, FiniteSets

CONSTANTS NBlocks,   \* byteLength / BLOCK_SIZE
          Vals,      \* the contents a guest may write into a block
          Image,     \* the content of the image file, block by block
          Kind,      \* "xhr", "part" or "file"
          Chunk,     \* fixed_chunk_size / BLOCK_SIZE, 0 when it is undefined
          Slots,     \* gets that may be outstanding at the same time
          None       \* an absent block, no request

Blocks == 0 .. NBlocks - 1

\* The arguments get and set accept (the four dbg_asserts at their head).
Requests == {r \in [start : Blocks, len : 1 .. NBlocks] : r.start + r.len <= NBlocks}

Data == Vals \cup {Image[b] : b \in Blocks}

ASSUME SizeAssumption == NBlocks \in Nat \ {0} /\ Chunk \in Nat
ASSUME ImageAssumption == Image = [b \in Blocks |-> Image[b]]
ASSUME NoneAssumption == None \notin Data /\ None \notin Requests
ASSUME KindAssumption == /\ Kind \in {"xhr", "part", "file"}
                         /\ Kind = "file" => Chunk = 0
                         /\ Chunk > 0 => NBlocks % Chunk = 0

VARIABLES cache,     \* block_cache
          written,   \* block_cache_is_write
          want,      \* want[s]: the range the get in slot s asked for
          loads,     \* loads[s]: the loads of that get that have not completed
          blocks,    \* blocks[s]: what the completed loads of that get delivered
          answer,    \* history: the last argument of a callback fn of get
          saved      \* the block_cache entries of the last get_state

vars == <<cache, written, want, loads, blocks, answer, saved>>

Span(r) == r.start .. r.start + r.len - 1

Content(r, f) == [i \in 1 .. r.len |-> f[r.start + i - 1]]

TypeOK ==
    /\ cache \in [Blocks -> Data \cup {None}]
    /\ written \in SUBSET Blocks
    /\ want \in [Slots -> Requests \cup {None}]
    /\ loads \in [Slots -> SUBSET Requests]
    /\ blocks \in [Slots -> [Blocks -> Data \cup {None}]]
    /\ saved \in [Blocks -> Data \cup {None}]

-----------------------------------------------------------------------------
(* Cache and loads.                                                        *)

CacheReads == Chunk > 0

\* get_from_cache: the range is served from the cache only when it is all there.
Cached(r) == \A b \in Span(r) : cache[b] # None

ChunkRange(first, last) == [start |-> first * Chunk, len |-> (last - first + 1) * Chunk]

\* The smallest range of whole chunks that contains r.
Aligned(r) == ChunkRange(r.start \div Chunk, (r.start + r.len - 1) \div Chunk)

\* A mutant of ChunksOf: the last chunk is left out.
ChunksOfExclusive(r) ==
    {ChunkRange(c, c) : c \in r.start \div Chunk .. (r.start + r.len - 1) \div Chunk - 1}

\* The chunk files that hold r.
ChunksOf(r) == {ChunkRange(c, c) : c \in r.start \div Chunk .. (r.start + r.len - 1) \div Chunk}

Chunked == Kind = "part" /\ Chunk > 0

\* What a get that misses the cache loads, and what it takes from the cache at
\* that moment: a chunk that is cached completely is not loaded again.
LoadsFor(r) == IF Chunked THEN {c \in ChunksOf(r) : ~ Cached(c)}
               ELSE IF Chunk > 0 THEN {Aligned(r)} ELSE {r}

Assembled(r) == [b \in Blocks |->
    IF Chunked /\ \E c \in ChunksOf(r) : b \in Span(c) /\ Cached(c)
    THEN cache[b] ELSE None]

\* handle_read: a block written meanwhile hides the block of the file ...
Overlay(b) == IF cache[b] # None THEN cache[b] ELSE Image[b]

\* ... and the others are remembered when cache_reads is set.
CacheAfter(l) == [b \in Blocks |->
    IF CacheReads /\ b \in Span(l) THEN Overlay(b) ELSE cache[b]]

\* A mutant of Delivered: the file's bytes are delivered over what was written.
DeliveredFromFile(b) == Image[b]

\* What a completed load contributes to the answer.  The chunked get copies the
\* file's bytes into its result before it calls handle_read.
Delivered(b) == IF Chunked THEN Image[b] ELSE Overlay(b)

BlocksAfter(s, l) == [b \in Blocks |-> IF b \in Span(l) THEN Delivered(b) ELSE blocks[s][b]]

\* A mutant of DoneThrows: every kind passes a plain function.
DoneAlwaysThrows == TRUE

\* AsyncXHRBuffer.get passes its done callback as a plain function: called as
\* options.done(...), this is the options object and this.handle_read throws.
DoneThrows == Kind = "xhr"

-----------------------------------------------------------------------------
(* Operations.                                                             *)

NoBlocks == [b \in Blocks |-> None]

Init == /\ cache = NoBlocks
        /\ written = {}
        /\ want = [s \in Slots |-> None]
        /\ loads = [s \in Slots |-> {}]
        /\ blocks = [s \in Slots |-> NoBlocks]
        /\ answer = None
        /\ saved = NoBlocks

\* A mutant of Set: the blocks are not marked as written.
SetUnmarked(r, data) ==
    /\ cache' = [b \in Blocks |-> IF b \in Span(r) THEN data[b - r.start + 1] ELSE cache[b]]
    /\ UNCHANGED <<written, want, loads, blocks, answer, saved>>

\* set: into the cache, and marked as written.
Set(r, data) ==
    /\ cache' = [b \in Blocks |-> IF b \in Span(r) THEN data[b - r.start + 1] ELSE cache[b]]
    /\ written' = written \cup Span(r)
    /\ UNCHANGED <<want, loads, blocks, answer, saved>>

GetCached(s, r) ==
    /\ want[s] = None
    /\ Cached(r)
    /\ answer' = [slot |-> s, data |-> Content(r, cache)]
    /\ UNCHANGED <<cache, written, want, loads, blocks, saved>>

GetMiss(s, r) ==
    /\ want[s] = None
    /\ ~ Cached(r)
    /\ want' = [want EXCEPT ![s] = r]
    /\ loads' = [loads EXCEPT ![s] = LoadsFor(r)]
    /\ blocks' = [blocks EXCEPT ![s] = Assembled(r)]
    /\ UNCHANGED <<cache, written, answer, saved>>

\* A load of the get in slot s completes; the last one calls fn.
Loaded(s, l) ==
    /\ l \in loads[s]
    /\ loads' = [loads EXCEPT ![s] = @ \ {l}]
    /\ IF DoneThrows
       THEN UNCHANGED <<cache, want, blocks, answer>>
       ELSE /\ cache' = CacheAfter(l)
            /\ IF loads[s] = {l}
               THEN /\ answer' = [slot |-> s, data |-> Content(want[s], BlocksAfter(s, l))]
                    /\ want' = [want EXCEPT ![s] = None]
                    /\ blocks' = [blocks EXCEPT ![s] = NoBlocks]
               ELSE /\ blocks' = [blocks EXCEPT ![s] = BlocksAfter(s, l)]
                    /\ UNCHANGED <<answer, want>>
    /\ UNCHANGED <<written, saved>>

\* get_state keeps the written blocks only; set_state replaces the cache and
\* does nothing about the gets that are still outstanding.
SaveState ==
    /\ saved' = [b \in Blocks |-> IF b \in written THEN cache[b] ELSE None]
    /\ UNCHANGED <<cache, written, want, loads, blocks, answer>>

RestoreState ==
    /\ cache' = saved
    /\ written' = {b \in Blocks : saved[b] # None}
    /\ UNCHANGED <<want, loads, blocks, answer, saved>>

Next == \/ \E r \in Requests : \E data \in [1 .. r.len -> Vals] : Set(r, data)
        \/ \E s \in Slots, r \in Requests : GetCached(s, r) \/ GetMiss(s, r)
        \/ \E s \in Slots : \E l \in loads[s] : Loaded(s, l)
        \/ SaveState
        \/ RestoreState

Spec == Init /\ [][Next]_vars

\* Every load completes in the end: a local file always does, and load_file
\* tries again after a network error or a status of 500 and above.
Fairness == \A s \in Slots : \A l \in Requests : WF_vars(Loaded(s, l))

FairSpec == Spec /\ Fairness

-----------------------------------------------------------------------------
(* Properties.                                                             *)

\* The content of the image as the guest has made it.
Effective == [b \in Blocks |-> Overlay(b)]

\* A cached block nobody has written is the block of the file, and a written
\* block is cached, so that dropping the others in get_state loses nothing.
CacheAgrees == /\ \A b \in Blocks : b \notin written /\ cache[b] # None => cache[b] = Image[b]
               /\ \A b \in written : cache[b] # None
               /\ \A b \in Blocks : cache[b] # None /\ Chunk = 0 => b \in written

\* The saved state, applied to the file again.
SavedContent == [b \in Blocks |-> IF saved[b] # None THEN saved[b] ELSE Image[b]]

\* The buffer is the disk its devices believe in: reads return the content of
\* the moment of the answer whatever was written or restored while they were
\* under way, and saving and restoring keep the whole content.
D == INSTANCE Disk WITH disk <- Effective, waiting <- want, saved <- SavedContent
RefinesDisk == D!Spec

\* handle_read "overwrites blocks from the original source that have been
\* written since" (buffer.ts:200-201): an answer never holds the file's bytes
\* for a block that is written, and that was written when it was asked for.
Answers(s) == want[s] # None /\ want'[s] = None
Position(s, b) == b - want[s].start + 1
WritesOverlayReads ==
    [][\A s \in Slots : Answers(s) =>
          \A b \in Span(want[s]) \cap written :
             answer'.data[Position(s, b)] \in Vals]_vars

\* However a range was cut into chunks, each block of an answer is at its own
\* place: what was written there or the bytes the file has there.  A block that
\* is not written, and was not taken from the cache, is the file's.
UnwrittenReadsExact ==
    [][\A s \in Slots : Answers(s) =>
          /\ DOMAIN answer'.data = 1 .. want[s].len
          /\ \A b \in Span(want[s]) :
                 /\ answer'.data[Position(s, b)] \in Vals \cup {Image[b]}
                 /\ b \notin written /\ blocks[s][b] = None =>
                        answer'.data[Position(s, b)] = Image[b]]_vars

\* Every read is answered: the drive waits for the callback with BSY set.
EveryReadAnswered == \A s \in Slots : want[s] # None ~> want[s] = None

=============================================================================
