------------------------------ MODULE RknpuGem ------------------------------
(***************************************************************************)
(* GEM buffers (rknpu_gem.c): what a buffer is made of, on which paths it  *)
(* is acquired and given back, who holds a reference to it, and which      *)
(* memory a cache synchronisation reaches.                                 *)
(*                                                                         *)
(* A buffer is [cache | DDR]: pages of the SRAM or the NBUF, if it asked   *)
(* for some, then pages of memory.  All sizes and offsets are in pages.    *)
(* The allocation paths are sequences of acquisitions any of which may     *)
(* fail.  Until it has a handle a buffer is known to its creator only, so  *)
(* an allocation path is one action; what DRM, the IOMMU and the SRAM      *)
(* allocator do is modelled from their use here.                           *)
(***************************************************************************)
EXTENDS Integers, FiniteSets, Sequences, SequencesExt

CONSTANTS
    Threads,             \* threads that share one DRM file
    Objs,                \* buffers; an identity is used once
    NoObj,
    Requests,            \* what users ask for, see Request
    Shapes,              \* how memory of each size can fall into segments
    iommu_en,            \* rknpu_dev->iommu_en
    funcs_mmap,          \* DRM calls obj->funcs->mmap (kernels from 6.1 on)
    SramChunks,          \* the chunks of the SRAM
    NbufLimit,           \* NBUF pages one core may use
    cache_sgt,           \* the NBUF blocks of the core, <<>> without a table
    ULong,               \* unsigned long wraps here
    MaxVmas              \* bound: mappings of one buffer

Request == [try : {"no", "sram", "nbuf"}, size : Nat \ {0}, sram_size : Nat,
            noncontig : BOOLEAN, kmap : BOOLEAN]

ASSUME GemAssumption ==
    /\ NoObj \notin Objs
    /\ Requests \subseteq Request
    /\ \A r \in Requests : r.size \in DOMAIN Shapes
    /\ \A n \in DOMAIN Shapes : Shapes[n] \subseteq Seq(Nat)
    /\ {iommu_en, funcs_mmap} \subseteq BOOLEAN
    /\ IsFiniteSet(SramChunks) /\ SramChunks \subseteq Nat
    /\ NbufLimit \in Nat
    /\ cache_sgt \in Seq([offset : Nat, length : Nat])
    /\ ULong \in Nat \ {0} /\ MaxVmas \in Nat

VARIABLES
    obj,                 \* the buffers, see Blank
    op,                  \* what each thread does: its step and its pointer
    sram_free,           \* the free chunks of the SRAM
    leaks, wrong,        \* ghosts: resources lost, and released without being held
    lost,                \* ghost: SRAM chunks of buffers whose domain was out of reach
    broken               \* ghost: buffers freed under a reference, or mapped over the end

vars == <<obj, op, sram_free, leaks, wrong, lost, broken>>
ghosts == <<leaks, wrong, lost, broken>>

Blank ==
    [life |-> "unborn", mem |-> "none", held |-> {}, size |-> 0, noncontig |-> FALSE,
     kmap |-> FALSE, fellback |-> FALSE, refs |-> 0, handle |-> FALSE,
     exported |-> FALSE, vmas |-> 0, over |-> 0, csize |-> 0, sram |-> {}, chunks |-> <<>>,
     segs |-> <<>>, nents |-> 0]

\* n: the chunks asked for.
Idle == [pc |-> "out", b |-> NoObj, n |-> 0]
At(p, b) == [Idle EXCEPT !.pc = p, !.b = b]

Resources == {"object", "sram", "pages", "page_array", "dma", "sgt", "sg_map", "vmap", "iova",
              "cache_map", "cache_blocks", "ddr_map", "attach"}

\* The values of a buffer.  exported: there is a dma-buf of it; over: references
\* that failed mmaps have dropped although they are still in use.
Buffer ==
    [life : {"unborn", "live", "dead"},
     mem : {"none", "pages", "dma", "sram", "nbuf", "import"},
     held : SUBSET Resources, size : Nat, noncontig : BOOLEAN, kmap : BOOLEAN,
     fellback : BOOLEAN, refs : Nat, handle : BOOLEAN, exported : BOOLEAN, vmas : Nat,
     over : Nat, csize : Nat, sram : SUBSET SramChunks, chunks : {<<>>, cache_sgt},
     segs : Seq(Nat), nents : Nat]

\* Steps with a pointer that no reference comes with: what the creator has left,
\* what rknpu_gem_object_find() has returned, and what user space has passed in.
Bare == {"fill", "found", "switch", "delete", "sync"}

\* Where a thread can be in a call.
Call == [pc : {"out", "sram", "alloc", "handle", "put"} \cup Bare, b : Objs \cup {NoObj},
         n : Nat]

TypeOK ==
    /\ obj \in [Objs -> Buffer]
    /\ \A b \in Objs : obj[b].csize <= obj[b].size /\ obj[b].nents <= Len(obj[b].segs)
    /\ op \in [Threads -> Call]
    /\ sram_free \subseteq SramChunks
    /\ leaks \subseteq Resources /\ wrong \subseteq Resources
    /\ lost \subseteq SramChunks
    /\ broken \subseteq Objs

Init ==
    /\ obj = [b \in Objs |-> Blank]
    /\ op = [t \in Threads |-> Idle]
    /\ sram_free = SramChunks
    /\ leaks = {} /\ wrong = {} /\ lost = {} /\ broken = {}

Least(x, y) == IF x < y THEN x ELSE y

Goto(t, p) == op' = [op EXCEPT ![t].pc = p]
Return(t) == op' = [op EXCEPT ![t] = Idle]

-----------------------------------------------------------------------------
(* What each kind of buffer acquires, in order, and gives back *)

\* rknpu_gem_get_pages().
PagesPath(kmap) ==
    IF kmap THEN <<"pages", "sgt", "sg_map", "vmap">> ELSE <<"pages", "sgt", "sg_map">>

\* rknpu_gem_alloc_buf(); "fill" is drm_prime_sg_to_page_array(), which may fail.
DmaPath == <<"page_array", "dma", "sgt", "fill">>

\* rknpu_gem_alloc_buf_with_cache(); for the blocks of cache_map see MapCalls.
CachePath == <<"iova", "cache_map", "pages", "sgt", "ddr_map">>

Path(mem, kmap) ==
    CASE mem = "pages" -> PagesPath(kmap)
      [] mem = "dma" -> DmaPath
      [] OTHER -> CachePath

\* The labels a path that fails at f jumps through.
PagesUnwind ==
    [pages |-> {}, sgt |-> {"pages"}, sg_map |-> {"sgt", "pages"},
     vmap |-> {"sg_map", "sgt", "pages"}]

DmaUnwind ==
    [page_array |-> {}, dma |-> {"page_array"}, sgt |-> {"dma", "page_array"},
     fill |-> {"sgt", "dma", "page_array"}]

\* Mutant: the mapping of the cache part is forgotten.
CacheUnwindMutant ==
    [iova |-> {}, cache_map |-> {"iova"}, pages |-> {"iova"}, sgt |-> {"pages", "iova"},
     ddr_map |-> {"sgt", "pages", "iova"}]

\* With ddr_map go the pages of the DDR part that were mapped already.
CacheUnwind ==
    [iova |-> {}, cache_map |-> {"iova"}, pages |-> {"cache_map", "iova"},
     sgt |-> {"pages", "cache_map", "iova"},
     ddr_map |-> {"sgt", "pages", "cache_map", "iova"}]

Unwind(mem, f) ==
    CASE mem = "pages" -> PagesUnwind[f]
      [] mem = "dma" -> DmaUnwind[f]
      [] OTHER -> CacheUnwind[f]

\* rknpu_gem_put_pages().
PutPages(o) == {"sg_map", "sgt", "pages"} \cup (IF o.kmap THEN {"vmap"} ELSE {})

\* rknpu_gem_free_buf(): the flags decide, not the path that was taken.
FreeBuf(o) ==
    IF o.noncontig /\ iommu_en THEN PutPages(o) ELSE {"sgt", "dma", "page_array"}

\* rknpu_gem_free_buf_with_cache().
FreeCache == {"cache_map", "ddr_map", "iova", "pages", "sgt"}

\* rknpu_gem_object_destroy().
Released(o) ==
    {"object"} \cup CASE o.mem = "import" -> {"attach", "page_array"}
                      [] o.mem = "sram" -> {"sram"} \cup FreeCache
                      [] o.mem = "nbuf" -> FreeCache
                      [] OTHER -> FreeBuf(o)

Dead == [Blank EXCEPT !.life = "dead"]

\* The last reference of o is gone: everything is released, or, when the domain
\* cannot be switched to in three attempts, nothing is.  What is done with a buffer
\* that is still referred to is not followed further.
Destroy(b, o) ==
    /\ obj' = [obj EXCEPT ![b] = Dead]
    /\ broken' = IF o.over > 0 THEN broken \cup {b} ELSE broken
    /\ \/ /\ leaks' = IF o.fellback THEN leaks ELSE leaks \cup (o.held \ Released(o))
          /\ wrong' = IF o.fellback THEN wrong ELSE wrong \cup (Released(o) \ o.held)
          /\ sram_free' = sram_free \cup o.sram
          /\ UNCHANGED lost
       \/ /\ lost' = lost \cup o.sram
          /\ UNCHANGED <<sram_free, leaks, wrong>>

\* rknpu_gem_object_put(), with the changes to the buffer that go with it.
Put(b, o) ==
    IF o.refs > 1
    THEN obj' = [obj EXCEPT ![b] = [o EXCEPT !.refs = @ - 1]] /\ UNCHANGED <<sram_free, ghosts>>
    ELSE Destroy(b, o)

-----------------------------------------------------------------------------
(* rknpu_gem_create_ioctl(), rknpu_gem_dumb_create() *)

\* The SRAM part a buffer should have: its size, or less if the user says so.
SramPart(r) == IF r.sram_size # 0 THEN Least(r.size, r.sram_size) ELSE r.size

\* The flag is dropped when there is no IOMMU.
NonContig(r) == r.noncontig /\ iommu_en

\* The memory a buffer gets when it has no cache part.
Plain(o) == IF o.noncontig /\ iommu_en THEN "pages" ELSE "dma"

\* Mutant: the NBUF part is not limited to the size of the buffer.
CreateStartsMutant(t) ==
    /\ op[t].pc = "out"
    /\ \E b \in Objs, r \in Requests :
           /\ obj[b].life = "unborn" /\ r.try = "nbuf"
           /\ obj' = [obj EXCEPT ![b] =
                  [Blank EXCEPT !.life = "live", !.held = {"object"}, !.size = r.size, !.refs = 1,
                                !.mem = "nbuf", !.csize = NbufLimit, !.chunks = cache_sgt]]
           /\ op' = [op EXCEPT ![t] = At("alloc", b)]
    /\ UNCHANGED <<sram_free, ghosts>>

\* rknpu_gem_object_create() up to where memory is taken; rknpu_gem_init() or the
\* switch of the domain may fail.
CreateStarts(t) ==
    /\ op[t].pc = "out"
    /\ \E b \in Objs, r \in Requests :
           LET o == [Blank EXCEPT !.life = "live", !.held = {"object"}, !.size = r.size,
                                  !.noncontig = NonContig(r), !.kmap = r.kmap, !.refs = 1]
               nbuf == Least(r.size, NbufLimit)
           IN /\ obj[b].life = "unborn"
              /\ \/ /\ r.try = "sram" /\ sram_free # {}
                    /\ obj' = [obj EXCEPT ![b] = o]
                    /\ op' = [op EXCEPT ![t] = [At("sram", b) EXCEPT
                                      !.n = Least(SramPart(r), Cardinality(sram_free))]]
                 \/ /\ r.try = "nbuf" /\ nbuf > 0
                    /\ obj' = [obj EXCEPT ![b] = [o EXCEPT !.mem = "nbuf", !.csize = nbuf,
                                                           !.chunks = cache_sgt]]
                    /\ op' = [op EXCEPT ![t] = At("alloc", b)]
                 \/ /\ ~(r.try = "sram" /\ sram_free # {}) /\ ~(r.try = "nbuf" /\ nbuf > 0)
                    /\ obj' = [obj EXCEPT ![b] = [o EXCEPT !.mem = Plain(o)]]
                    /\ op' = [op EXCEPT ![t] = At("alloc", b)]
                 \/ /\ obj' = [obj EXCEPT ![b] = Dead]
                    /\ UNCHANGED op
    /\ UNCHANGED <<sram_free, ghosts>>

\* rknpu_mm_alloc() of the size computed before: n chunks in a row, or none, and
\* then the buffer is made of memory alone.
SramAllocs(t) ==
    LET b == op[t].b IN
    /\ op[t].pc = "sram"
    /\ \/ \E i \in sram_free :
              LET range == i .. i + op[t].n - 1 IN
              /\ range \subseteq sram_free
              /\ sram_free' = sram_free \ range
              /\ obj' = [obj EXCEPT ![b].mem = "sram", ![b].csize = op[t].n, ![b].sram = range,
                                    ![b].held = @ \cup {"sram"}]
       \/ /\ obj' = [obj EXCEPT ![b].mem = Plain(obj[b])]
          /\ UNCHANGED sram_free
    /\ op' = [op EXCEPT ![t] = At("alloc", b)]
    /\ UNCHANGED ghosts

\* The buffer once its path is complete.
WithMemory(o, segs, nents, falls) ==
    [o EXCEPT !.held = @ \cup (Range(Path(o.mem, o.kmap)) \ {"fill"}),
              !.segs = segs, !.nents = nents,
              !.noncontig = @ \/ falls, !.fellback = falls]

\* The memory is there.  dma_map_sg() may merge segments, and only the pages path
\* maps with it.  A contiguous allocation may fall back to a scattered one, which
\* also sets the flag the release goes by.
Allocs(t) ==
    LET b == op[t].b
        o == obj[b]
    IN
    /\ op[t].pc = "alloc"
    /\ \E segs \in Shapes[o.size], falls \in BOOLEAN :
           /\ falls => o.mem = "dma" /\ ~o.noncontig /\ iommu_en
           /\ \E nents \in 1 .. Len(segs) :
                  /\ o.mem # "pages" => nents = Len(segs)
                  /\ o.mem = "dma" /\ ~falls => Len(segs) = 1
                  /\ obj' = [obj EXCEPT ![b] = WithMemory(o, segs, nents, falls)]
    /\ Goto(t, "handle")
    /\ UNCHANGED <<sram_free, ghosts>>

\* The iommu_map() calls for the cache part: one, or in
\* rknpu_iommu_map_with_cache_sgt() one for each block until the part is covered.
MapCalls(o) ==
    IF o.chunks = <<>> THEN {1}
    ELSE {k \in DOMAIN o.chunks :
             FoldLeft(LAMBDA sum, s : sum + s.length, 0, SubSeq(o.chunks, 1, k - 1)) < o.csize}

\* The resources the path has when acquiring f fails, in call k for the cache part.
Acquired(o, f, k) ==
    LET path == Path(o.mem, o.kmap) IN
    {path[i] : i \in {j \in DOMAIN path : \A m \in 1 .. j : path[m] # f}}
        \cup (IF f = "cache_map" /\ k > 1 THEN {"cache_blocks"} ELSE {})

\* Mutant: the error path does not give the SRAM back.
AllocFailsMutant(t) ==
    LET b == op[t].b
        o == obj[b]
    IN
    /\ op[t].pc = "alloc"
    /\ \E f \in Range(Path(o.mem, o.kmap)), k \in MapCalls(o) :
           leaks' = leaks \cup (Acquired(o, f, k) \ Unwind(o.mem, f))
    /\ obj' = [obj EXCEPT ![b] = Dead]
    /\ Return(t)
    /\ UNCHANGED <<sram_free, wrong, lost, broken>>

\* Any acquisition fails and the error path is taken, to mm_free and gem_release.
AllocFails(t) ==
    LET b == op[t].b
        o == obj[b]
    IN
    /\ op[t].pc = "alloc"
    /\ \E f \in Range(Path(o.mem, o.kmap)), k \in MapCalls(o) :
           leaks' = leaks \cup (Acquired(o, f, k) \ Unwind(o.mem, f))
    /\ sram_free' = sram_free \cup o.sram
    /\ obj' = [obj EXCEPT ![b] = Dead]
    /\ Return(t)
    /\ UNCHANGED <<wrong, lost, broken>>

\* drm_gem_handle_create(), or its failure and rknpu_gem_object_destroy().
HandleCreates(t) ==
    LET b == op[t].b IN
    /\ op[t].pc = "handle"
    /\ \/ /\ obj' = [obj EXCEPT ![b].handle = TRUE, ![b].refs = @ + 1]
          /\ Goto(t, "put")
          /\ UNCHANGED <<sram_free, ghosts>>
       \/ Destroy(b, obj[b]) /\ Return(t)

\* Mutant: the creator keeps its reference.
CreatorPutsMutant(t) ==
    /\ op[t].pc = "put"
    /\ Goto(t, "fill")
    /\ UNCHANGED <<obj, sram_free, ghosts>>

\* "drop reference from allocate - handle holds it now."
CreatorPuts(t) ==
    LET b == op[t].b IN
    /\ op[t].pc = "put"
    /\ IF obj[b].life = "live" THEN Put(b, obj[b]) ELSE UNCHANGED <<obj, sram_free, ghosts>>
    /\ Goto(t, "fill")

\* A buffer that is what its references say.
Sound(b) == obj[b].life = "live" /\ b \notin broken

\* rknpu_gem_object_find(): the reference of the lookup is dropped again.
Finds(t, p) ==
    /\ op[t].pc = "out"
    /\ \E b \in Objs :
           /\ Sound(b) /\ obj[b].handle
           /\ op' = [op EXCEPT ![t] = At(p, b)]
    /\ UNCHANGED <<obj, sram_free, ghosts>>

\* A create call for a handle that exists already.
CreateFinds(t) == Finds(t, "found")

\* The answer is read from the buffer, which nothing keeps alive.
Fills(t) ==
    /\ op[t].pc \in {"fill", "found"}
    /\ Return(t)
    /\ UNCHANGED <<obj, sram_free, ghosts>>

\* rknpu_gem_prime_import_sg_table(), which DRM gives a handle, or its failure.
Imports(t) ==
    /\ op[t].pc = "out"
    /\ \E b \in Objs :
           /\ obj[b].life = "unborn"
           /\ \/ obj' = [obj EXCEPT ![b] = Dead]
              \/ obj' = [obj EXCEPT ![b] =
                     [Blank EXCEPT !.life = "live", !.mem = "import", !.size = 1, !.refs = 1,
                                   !.held = {"object", "page_array", "attach"}, !.handle = TRUE]]
    /\ UNCHANGED <<op, sram_free, ghosts>>

-----------------------------------------------------------------------------
(* rknpu_gem_destroy_ioctl(), DRM_IOCTL_GEM_CLOSE and closing the file *)

DestroyFinds(t) == Finds(t, "switch")

\* The domain of the buffer is switched to, or after three attempts it is not.
DestroySwitches(t) ==
    /\ op[t].pc = "switch"
    /\ Goto(t, "delete") \/ Return(t)
    /\ UNCHANGED <<obj, sram_free, ghosts>>

\* The handle goes, under the pointers that others have in hand.
Deletes(b) == Put(b, [obj[b] EXCEPT !.handle = FALSE])

\* drm_gem_handle_delete() looks the handle up again.
DestroyDeletes(t) ==
    LET b == op[t].b IN
    /\ op[t].pc = "delete"
    /\ IF Sound(b) /\ obj[b].handle THEN Deletes(b) ELSE UNCHANGED <<obj, sram_free, ghosts>>
    /\ Return(t)

\* The user closes the handle, or the file, which closes them all.
HandleCloses ==
    /\ \E b \in Objs : Sound(b) /\ obj[b].handle /\ Deletes(b)
    /\ UNCHANGED op

-----------------------------------------------------------------------------
(* Sharing: drm_gem_prime_export(), rknpu_gem_prime_import() *)

\* The dma-buf has a reference to the buffer; there is one per buffer, and an
\* imported buffer gives back the one it came from.
Exports ==
    /\ \E b \in Objs :
           /\ Sound(b) /\ obj[b].handle /\ ~obj[b].exported /\ obj[b].mem # "import"
           /\ obj' = [obj EXCEPT ![b].exported = TRUE, ![b].refs = @ + 1]
    /\ UNCHANGED <<op, sram_free, ghosts>>

\* Its own dma-buf is imported again: a new handle.
ExportReopens ==
    /\ \E b \in Objs :
           /\ Sound(b) /\ obj[b].exported /\ ~obj[b].handle
           /\ obj' = [obj EXCEPT ![b].handle = TRUE, ![b].refs = @ + 1]
    /\ UNCHANGED <<op, sram_free, ghosts>>

\* The last user of the dma-buf closes it; the handle, as long as there is one, is
\* a user.
ExportReleases ==
    /\ \E b \in Objs :
           /\ Sound(b) /\ obj[b].exported /\ ~obj[b].handle
           /\ Put(b, [obj[b] EXCEPT !.exported = FALSE])
    /\ UNCHANGED op

-----------------------------------------------------------------------------
(* rknpu_gem_mmap_obj() *)

\* __vm_map_pages(): num_pages, which only the two paths with pages set.
NumPages(o) == IF o.mem = "dma" THEN 0 ELSE o.size

\* rknpu_gem_mmap_cache() maps the whole cache part, whatever the size of the
\* mapping, and then vm_size - cache_size pages.
MmapCacheFits(o, vm_size) == vm_size >= o.csize

\* rknpu_gem_mmap_buffer(): a cache part, pages, or one area of the DMA API.
Mmaps ==
    /\ \E b \in Objs :
           LET o == obj[b] IN
           /\ Sound(b) /\ (o.handle \/ o.exported) /\ o.mem # "import"
           /\ o.vmas < MaxVmas
           /\ \E vm_size \in 1 .. o.size :
                  /\ o.csize = 0 /\ o.noncontig /\ iommu_en => vm_size <= NumPages(o)
                  /\ broken' = IF MmapCacheFits(o, vm_size) THEN broken ELSE broken \cup {b}
           /\ obj' = [obj EXCEPT ![b].vmas = @ + 1, ![b].refs = @ + 1]
    /\ UNCHANGED <<op, sram_free, leaks, wrong, lost>>

\* drm_gem_vm_close() drops the reference of the mapping that is not to be, and so
\* does DRM when it has called through obj->funcs: then one that is in use goes.
MmapFails ==
    /\ \E b \in Objs :
           /\ Sound(b) /\ (obj[b].handle \/ obj[b].exported) /\ obj[b].mem # "import"
           /\ IF funcs_mmap THEN Put(b, [obj[b] EXCEPT !.over = @ + 1])
              ELSE UNCHANGED <<obj, sram_free, ghosts>>
    /\ UNCHANGED op

\* drm_gem_vm_close().
Munmaps ==
    /\ \E b \in Objs :
           /\ Sound(b) /\ obj[b].vmas > 0
           /\ Put(b, [obj[b] EXCEPT !.vmas = @ - 1])
    /\ UNCHANGED op

-----------------------------------------------------------------------------
(* rknpu_gem_sync_ioctl() *)

\* The page of the device's view at offset i: what rknpu_gem_alloc_buf_with_cache()
\* and rknpu_iommu_map_with_cache_sgt() have mapped there.
CachePages(o) ==
    IF o.chunks = <<>>
    THEN SetToSortSeq(IF o.sram # {} THEN o.sram ELSE 0 .. o.csize - 1, <)
    ELSE FlattenSeq([k \in DOMAIN o.chunks |->
                        [i \in 1 .. o.chunks[k].length |-> o.chunks[k].offset + i - 1]])

PageAt(o, i) ==
    IF i < o.csize THEN <<"cache", CachePages(o)[i + 1]>> ELSE <<"ddr", i - o.csize>>

Pages(area, start, n) == {<<area, start + i>> : i \in 0 .. n - 1}

\* rknpu_cache_sync_with_sg(): block by block, each from its start.
SyncBlock(acc, s) ==
    IF acc.done THEN acc
    ELSE LET all == acc.offset + acc.length <= s.length
             n == IF all THEN acc.length ELSE (s.length - acc.offset) % ULong
             left == IF all THEN 0 ELSE (acc.length - n) % ULong
         IN [got |-> acc.got \cup Pages("cache", s.offset, n),
             length |-> left, offset |-> 0, done |-> left = 0]

\* rknpu_cache_sync(): the cache part of a request.
SyncCache(o, offset, length) ==
    IF offset >= o.csize
    THEN [got |-> {}, offset |-> offset - o.csize, length |-> length]
    ELSE IF o.chunks = <<>>
    THEN LET all == offset + length <= o.csize
             n == IF all THEN length ELSE o.csize - offset
         IN [got |-> Pages("cache", CachePages(o)[1], n),
             offset |-> 0, length |-> IF all THEN 0 ELSE length - n]
    ELSE FoldLeft(SyncBlock, [got |-> {}, offset |-> offset, length |-> length, done |-> FALSE],
                  o.chunks)

\* Mutant: the offset into a segment is not subtracted.
SyncSegmentMutant(acc, len) ==
    IF acc.length = 0 \/ acc.len + len <= acc.offset THEN [acc EXCEPT !.len = @ + len]
    ELSE LET size == Least(acc.length, len)
         IN [got |-> acc.got \cup Pages("ddr", acc.len, size), len |-> acc.len + len,
             offset |-> acc.offset + size, length |-> acc.length - size]

\* One segment of the DDR part; len is where it ends.
SyncSegment(acc, len) ==
    IF acc.length = 0 \/ acc.len + len <= acc.offset THEN [acc EXCEPT !.len = @ + len]
    ELSE LET sg_left == acc.len + len - acc.offset
             sg_offset == len - sg_left
             size == Least(acc.length, sg_left)
         IN [got |-> acc.got \cup Pages("ddr", acc.len + sg_offset, size), len |-> acc.len + len,
             offset |-> acc.offset + size, length |-> acc.length - size]

\* The pages that are cleaned or invalidated.  A contiguous buffer is one call of
\* the DMA API, which translates the first address.
Reached(o, offset, length) ==
    IF ~o.noncontig
    THEN Pages(PageAt(o, offset)[1], PageAt(o, offset)[2], length)
    ELSE LET c == IF o.csize > 0 THEN SyncCache(o, offset, length)
                  ELSE [got |-> {}, offset |-> offset, length |-> length]
         IN FoldLeft(SyncSegment,
                     [got |-> c.got, offset |-> c.offset, length |-> c.length, len |-> 0],
                     SubSeq(o.segs, 1, o.nents)).got

\* A request the code serves as rknpu_ioctl.h describes it: the segments are not
\* merged; with a cache part the buffer is flagged scattered and the request starts
\* at the buffer's start or behind the cache part; and it does not run past the end
\* of an NBUF part that is smaller than the blocks of the core.
Served(o, offset, length) ==
    /\ o.nents = Len(o.segs)
    /\ o.csize > 0 => o.noncontig /\ (offset = 0 \/ offset >= o.csize)
    /\ o.chunks # <<>> /\ offset < o.csize /\ offset + length > o.csize
           => Len(CachePages(o)) = o.csize

\* args->obj_addr is taken for a buffer's address: whatever buffer was there, in the
\* making, in use or freed.  (Any other number is not followed.)
SyncCasts(t) ==
    /\ op[t].pc = "out"
    /\ \E b \in Objs :
           /\ obj[b].life # "unborn"
           /\ op' = [op EXCEPT ![t] = At("sync", b)]
    /\ UNCHANGED <<obj, sram_free, ghosts>>

\* The caches are cleaned or invalidated, see Reached; or the buffer is not cacheable,
\* or its domain cannot be switched to, and nothing is done.
Syncs(t) ==
    /\ op[t].pc = "sync"
    /\ Return(t)
    /\ UNCHANGED <<obj, sram_free, ghosts>>

-----------------------------------------------------------------------------

Next ==
    \/ \E t \in Threads :
           \/ CreateStarts(t) \/ SramAllocs(t) \/ Allocs(t) \/ AllocFails(t)
           \/ HandleCreates(t) \/ CreatorPuts(t) \/ Fills(t) \/ CreateFinds(t) \/ Imports(t)
           \/ DestroyFinds(t) \/ DestroySwitches(t) \/ DestroyDeletes(t)
           \/ SyncCasts(t) \/ Syncs(t)
    \/ HandleCloses
    \/ Exports
    \/ ExportReopens
    \/ ExportReleases
    \/ Mmaps
    \/ MmapFails
    \/ Munmaps

Spec == Init /\ [][Next]_vars

-----------------------------------------------------------------------------
(* Properties *)

Count(P) == IF P THEN 1 ELSE 0

Creators(b) ==
    {t \in Threads : op[t].b = b /\ op[t].pc \in {"sram", "alloc", "handle", "put"}}

\* A buffer's reference count is what refers to it - its creator until the handle
\* is made, the handle, its dma-buf and each mapping - less one for every mmap that
\* failed on a kernel whose DRM drops the reference as well, in every order of
\* create, destroy, close, export, import, mmap and munmap.  A buffer is freed when
\* this count is gone, so without such a failure exactly when nothing refers to it;
\* only one that was freed too early is exempt (rknpu_gem.c:328-347, 364, 902-979,
\* 1386-1434).
RefsExact ==
    \A b \in Objs :
        LET o == obj[b] IN
        /\ o.life = "live" \/ b \notin broken =>
               o.refs + o.over = Cardinality(Creators(b)) + Count(o.handle) + Count(o.exported)
                                 + o.vmas
        /\ o.life = "live" <=> o.refs > 0
        /\ o.over > 0 => funcs_mmap

\* The buffer that rknpu_gem_object_find() has returned is there as long as the
\* caller works with it, as it would be if "gem object reference count would be
\* increased" by the call (rknpu_gem.h:121-140, rknpu_gem.c:909, 960).
FoundIsLive ==
    \A t \in Threads : op[t].pc \in {"found", "switch"} => obj[op[t].b].life = "live"

\* Whatever a buffer has acquired is released, once, by the path that ends it,
\* whichever step of its creation fails; except for a buffer that fell back to
\* scattered memory, one whose domain cannot be switched to, and a cache part of
\* several blocks: the blocks mapped before the one that fails stay mapped, while
\* their IOVA is given back (rknpu_gem.c:34-326, 424-702, 704-900).
EverythingReleased ==
    /\ leaks \subseteq IF Len(cache_sgt) > 1 THEN {"cache_blocks"} ELSE {}
    /\ wrong = {}

\* The SRAM is conserved: each chunk is free or belongs to one buffer, through
\* failed creations and stale readings of the free size, and all that is ever lost
\* is what a destroyed buffer had whose domain was out of reach
\* (rknpu_gem.c:746-784, 834-845, 873-900).
SramConserved ==
    /\ sram_free \cup lost \cup UNION {obj[b].sram : b \in Objs} = SramChunks
    /\ sram_free \cap lost = {}
    /\ \A b \in Objs : obj[b].sram \cap (sram_free \cup lost) = {}
    /\ \A b, c \in Objs : b # c => obj[b].sram \cap obj[c].sram = {}

\* A synchronisation that is served reaches the pages of the device's view from
\* offset to offset + size and no other, across the cache part, its blocks and the
\* segments (rknpu_gem.c:1573-1797).
SyncExact ==
    \A t \in Threads :
        LET o == obj[op[t].b]
            last == o.csize + o.size
        IN  op[t].pc = "sync" /\ Sound(op[t].b) /\ o.segs # <<>> =>
                \A offset \in 0 .. last - 1 : \A length \in 1 .. last - offset :
                    Served(o, offset, length) =>
                        Reached(o, offset, length) =
                            {PageAt(o, i) : i \in offset .. offset + length - 1}
=============================================================================
