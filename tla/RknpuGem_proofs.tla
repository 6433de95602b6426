-------------------------- MODULE RknpuGem_proofs ---------------------------
(***************************************************************************)
(* Theorems about RknpuGem, for any number of threads and buffers, any     *)
(* requests and any SRAM and NBUF.                                         *)
(***************************************************************************)
EXTENDS RknpuGem, FiniteSetTheorems, TLAPS

-----------------------------------------------------------------------------
(* The invariant *)

\* A thread that holds the reference of the allocation.
Creator(t, b) == op[t].b = b /\ op[t].pc \in {"sram", "alloc", "handle", "put"}

\* What refers to a buffer, its creator aside.
Uses(o) == Count(o.handle) + Count(o.exported) + o.vmas

\* The reference of its creator, until the handle is made.
Made(b) == Count(\E t \in Threads : Creator(t, b))

\* What a thread at step p may rely on of its buffer o: before the handle is made
\* nobody else can use the buffer, and memory is taken once.
StageInv(p, o) ==
    /\ p.pc \in {"sram", "alloc", "handle"} =>
          o.life = "live" /\ ~o.handle /\ ~o.exported /\ o.vmas = 0 /\ o.over = 0
    /\ p.pc \in {"sram", "alloc"} => ~o.fellback /\ o.size \in DOMAIN Shapes
    /\ p.pc = "sram" => o.held = {"object"} /\ o.sram = {} /\ p.n <= o.size
    /\ p.pc = "alloc" =>
          /\ o.mem \in {"pages", "dma", "sram", "nbuf"}
          /\ o.held = {"object"} \cup (IF o.mem = "sram" THEN {"sram"} ELSE {})
          /\ o.mem \in {"pages", "dma"} => o.mem = Plain(o)

\* The references to a buffer, and what it has when it is complete: exactly what
\* rknpu_gem_object_destroy() will release.
BufferInv(b) ==
    /\ obj[b].life = "unborn" => obj[b] = Blank /\ b \notin broken
    /\ obj[b].life = "dead" => obj[b] = Dead
    /\ \A t, u \in Threads : Creator(t, b) /\ Creator(u, b) => t = u
    /\ obj[b].life = "live" \/ b \notin broken =>
          obj[b].refs + obj[b].over = Made(b) + Uses(obj[b])
    /\ obj[b].life = "live" <=> obj[b].refs > 0
    /\ obj[b].over > 0 => funcs_mmap
    /\ \A t \in Threads : op[t].b = b => StageInv(op[t], obj[b])
    /\ \/ obj[b].life # "live" \/ obj[b].fellback
       \/ \E t \in Threads : op[t].b = b /\ op[t].pc \in {"sram", "alloc"}
       \/ obj[b].held = Released(obj[b])

\* A thread has a buffer exactly while it is in a call.
CallInv == \A t \in Threads : op[t].pc = "out" <=> op[t].b = NoObj

GInv ==
    /\ TypeOK /\ CallInv /\ SramConserved /\ EverythingReleased
    /\ \A b \in Objs : BufferInv(b)

-----------------------------------------------------------------------------
(* Types, paths and steps that do not concern a buffer *)

\* A buffer before and after its life.
LEMMA BlankType ==
  /\ Blank \in Buffer /\ Dead \in Buffer
  /\ Blank.life = "unborn" /\ Dead.life = "dead"
  /\ \A o \in {Blank, Dead} :
        /\ ~o.handle /\ ~o.exported /\ o.vmas = 0 /\ o.over = 0 /\ o.refs = 0
        /\ o.sram = {} /\ o.csize = 0 /\ o.size = 0 /\ o.nents = 0 /\ o.segs = <<>>
<1>1. Blank \in Buffer
  BY DEF Blank, Buffer
<1>2. Dead \in Buffer
  BY <1>1 DEF Dead, Buffer
<1>3. Blank.life = "unborn" /\ Dead.life = "dead"
  BY DEF Blank, Dead
<1>4. /\ ~Blank.handle /\ ~Blank.exported /\ Blank.vmas = 0 /\ Blank.over = 0
      /\ Blank.refs = 0 /\ Blank.sram = {}
      /\ Blank.csize = 0 /\ Blank.size = 0 /\ Blank.nents = 0 /\ Blank.segs = <<>>
  BY DEF Blank
<1>5. /\ ~Dead.handle /\ ~Dead.exported /\ Dead.vmas = 0 /\ Dead.over = 0
      /\ Dead.refs = 0 /\ Dead.sram = {}
      /\ Dead.csize = 0 /\ Dead.size = 0 /\ Dead.nents = 0 /\ Dead.segs = <<>>
  BY DEF Blank, Dead
<1>6. QED
  BY <1>1, <1>2, <1>3, <1>4, <1>5

\* The resources on each allocation path.
LEMMA PathRange ==
  ASSUME NEW mem, NEW kmap \in BOOLEAN
  PROVE  Range(Path(mem, kmap)) =
            CASE mem = "pages" -> {"pages", "sgt", "sg_map"} \cup (IF kmap THEN {"vmap"} ELSE {})
              [] mem = "dma" -> {"page_array", "dma", "sgt", "fill"}
              [] OTHER -> {"iova", "cache_map", "pages", "sgt", "ddr_map"}
<1>1. CASE mem = "pages" /\ kmap
  BY <1>1 DEF Range, Path, PagesPath
<1>2. CASE mem = "pages" /\ ~kmap
  BY <1>2 DEF Range, Path, PagesPath
<1>3. CASE mem = "dma"
  BY <1>3 DEF Range, Path, DmaPath
<1>4. CASE mem # "pages" /\ mem # "dma"
  BY <1>4 DEF Range, Path, CachePath
<1>5. QED
  BY <1>1, <1>2, <1>3, <1>4

\* What a path has acquired, step by step, when it fails at f.
Before(o, f) ==
    LET path == Path(o.mem, o.kmap) IN
    {path[i] : i \in {j \in DOMAIN path : \A m \in 1 .. j : path[m] # f}}

\* The error labels of every path release the steps that were done before the failure.
LEMMA UnwindComplete ==
  ASSUME NEW o, o.kmap \in BOOLEAN, NEW f \in Range(Path(o.mem, o.kmap))
  PROVE  Before(o, f) \ Unwind(o.mem, f) = {}
<1>1. CASE o.mem = "pages" /\ o.kmap
  <2>1. /\ Path(o.mem, o.kmap) = <<"pages", "sgt", "sg_map", "vmap">>
        /\ Unwind(o.mem, f) = PagesUnwind[f]
    BY <1>1 DEF Path, PagesPath, Unwind
  <2>2. f \in {"pages", "sgt", "sg_map", "vmap"}
    BY <2>1 DEF Range
  <2>3. QED
    BY <2>1, <2>2 DEF Before, PagesUnwind
<1>2. CASE o.mem = "pages" /\ ~o.kmap
  <2>1. /\ Path(o.mem, o.kmap) = <<"pages", "sgt", "sg_map">>
        /\ Unwind(o.mem, f) = PagesUnwind[f]
    BY <1>2 DEF Path, PagesPath, Unwind
  <2>2. f \in {"pages", "sgt", "sg_map"}
    BY <2>1 DEF Range
  <2>3. QED
    BY <2>1, <2>2 DEF Before, PagesUnwind
<1>3. CASE o.mem = "dma"
  <2>1. Path(o.mem, o.kmap) = DmaPath /\ Unwind(o.mem, f) = DmaUnwind[f]
    BY <1>3 DEF Path, Unwind
  <2>2. f \in {"page_array", "dma", "sgt", "fill"}
    BY <2>1 DEF Range, DmaPath
  <2>3. QED
    BY <2>1, <2>2 DEF Before, DmaUnwind, DmaPath
<1>4. CASE o.mem # "pages" /\ o.mem # "dma"
  <2>1. Path(o.mem, o.kmap) = CachePath /\ Unwind(o.mem, f) = CacheUnwind[f]
    BY <1>4 DEF Path, Unwind
  <2>2. f \in {"iova", "cache_map", "pages", "sgt", "ddr_map"}
    BY <2>1 DEF Range, CachePath
  <2>3. QED
    BY <2>1, <2>2 DEF Before, CacheUnwind, CachePath
<1>5. QED
  BY <1>1, <1>2, <1>3, <1>4

\* All that an error path can leave behind are blocks of a cache part of several.
LEMMA OnlyBlocksStay ==
  ASSUME NEW o \in Buffer, NEW f \in Range(Path(o.mem, o.kmap)), NEW k \in MapCalls(o)
  PROVE  Acquired(o, f, k) \ Unwind(o.mem, f)
            \subseteq IF Len(cache_sgt) > 1 THEN {"cache_blocks"} ELSE {}
<1>1. o.kmap \in BOOLEAN /\ o.chunks \in {<<>>, cache_sgt}
  BY DEF Buffer
<1>2. Before(o, f) \ Unwind(o.mem, f) = {}
  BY <1>1, UnwindComplete
<1>3. Acquired(o, f, k) =
         Before(o, f) \cup (IF f = "cache_map" /\ k > 1 THEN {"cache_blocks"} ELSE {})
  BY DEF Acquired, Before
<1>4. k > 1 => Len(cache_sgt) > 1
  <2>1. CASE o.chunks = <<>>
    <3>1. k \in {1}
      BY <2>1, Zenon DEF MapCalls
    <3>2. QED
      BY <3>1
  <2>2. CASE o.chunks # <<>>
    <3>1. k \in DOMAIN o.chunks
      BY <2>2, Zenon DEF MapCalls
    <3>2. k \in 1 .. Len(cache_sgt) /\ Len(cache_sgt) \in Nat
      BY <1>1, <2>2, <3>1, GemAssumption
    <3>3. QED
      BY <3>2
  <2>3. QED
    BY <2>1, <2>2
<1>5. QED
  BY <1>2, <1>3, <1>4

\* A buffer that a step and the threads that change do not refer to.
LEMMA BufferSame ==
  ASSUME NEW b \in Objs, BufferInv(b), obj'[b] = obj[b],
         \A t \in Threads : op[t].b = b \/ op'[t].b = b => op'[t] = op[t],
         b \in broken' <=> b \in broken
  PROVE  BufferInv(b)'
<1>1. \A t \in Threads :
         /\ Creator(t, b)' <=> Creator(t, b)
         /\ (op'[t].b = b /\ op'[t].pc \in {"sram", "alloc"})
            <=> (op[t].b = b /\ op[t].pc \in {"sram", "alloc"})
  BY DEF Creator
<1>2. \A t \in Threads : op'[t].b = b => StageInv(op'[t], obj'[b])
  BY DEF BufferInv
<1>3. Made(b)' = Made(b)
  BY <1>1 DEF Count, Made
<1>4. Uses(obj[b])' = Uses(obj[b])
  BY DEF Uses, Count
<1>5. QED
  BY <1>1, <1>2, <1>3, <1>4 DEF BufferInv

\* Where the SRAM of a buffer goes and comes from.
LEMMA SramMoves ==
  ASSUME TypeOK, SramConserved, NEW b \in Objs,
         \A d \in Objs \ {b} : obj'[d].sram = obj[d].sram,
         \/ obj'[b].sram = obj[b].sram /\ UNCHANGED <<sram_free, lost>>
         \/ obj'[b].sram = {} /\ sram_free' = sram_free \cup obj[b].sram /\ lost' = lost
         \/ obj'[b].sram = {} /\ lost' = lost \cup obj[b].sram /\ sram_free' = sram_free
         \/ /\ obj[b].sram = {} /\ obj'[b].sram \subseteq sram_free
            /\ sram_free' = sram_free \ obj'[b].sram /\ lost' = lost
  PROVE  SramConserved'
<1>1. \A x : x \in SramChunks <=>
         x \in sram_free \/ x \in lost \/ \E d \in Objs : x \in obj[d].sram
  BY DEF SramConserved
<1>2. \A x : x \in SramChunks <=>
         x \in sram_free' \/ x \in lost' \/ \E d \in Objs : x \in obj'[d].sram
  BY <1>1
<1>3. sram_free' \cup lost' \cup UNION {obj'[d].sram : d \in Objs} = SramChunks
  BY <1>2
<1>4. sram_free' \cap lost' = {}
  BY DEF SramConserved
<1>5. \A d \in Objs : obj'[d].sram \cap (sram_free' \cup lost') = {}
  BY DEF SramConserved
<1>6. \A d, e \in Objs : d # e => obj'[d].sram \cap obj'[e].sram = {}
  BY DEF SramConserved
<1>7. QED
  BY <1>3, <1>4, <1>5, <1>6 DEF SramConserved

\* The steps of a call.
LEMMA CallType ==
  /\ Idle \in Call /\ Idle.pc = "out" /\ Idle.b = NoObj
  /\ \A p \in {"sram", "alloc", "handle", "put"} \cup Bare, b \in Objs :
        At(p, b) \in Call /\ At(p, b).pc = p /\ At(p, b).b = b
<1>1. Idle \in Call /\ Idle.pc = "out" /\ Idle.b = NoObj
  BY DEF Idle, Call
<1>2. ASSUME NEW p \in {"sram", "alloc", "handle", "put"} \cup Bare, NEW b \in Objs
      PROVE  At(p, b) \in Call /\ At(p, b).pc = p /\ At(p, b).b = b
  BY <1>1 DEF At, Call
<1>3. QED
  BY <1>1, <1>2

\* One thread goes on, with its buffer.
LEMMA OneCall ==
  ASSUME TypeOK, CallInv, NEW t \in Threads, NEW b \in Objs, NEW q \in Call,
         op' = [op EXCEPT ![t] = q], op[t].b \in {b, NoObj}, q.b \in {b, NoObj},
         q.pc = "out" <=> q.b = NoObj
  PROVE  /\ op' \in [Threads -> Call] /\ CallInv' /\ op'[t] = q
         /\ \A u \in Threads \ {t} : op'[u] = op[u]
         /\ \A u \in Threads, d \in Objs \ {b} : op[u].b = d \/ op'[u].b = d => op'[u] = op[u]
<1>1. op \in [Threads -> Call]
  BY DEF TypeOK
<1>2. /\ op' \in [Threads -> Call] /\ op'[t] = q
      /\ \A u \in Threads \ {t} : op'[u] = op[u]
  BY <1>1
<1>3. CallInv'
  BY <1>2 DEF CallInv
<1>4. \A d \in Objs \ {b} : d # NoObj
  BY GemAssumption
<1>5. QED
  BY <1>2, <1>3, <1>4

\* Nothing is lost but what may be, and no other buffer breaks.
Kept(b) ==
    /\ EverythingReleased' /\ leaks' \subseteq Resources /\ wrong' \subseteq Resources
    /\ broken' = broken \/ broken' = broken \cup {b}

\* A step that changes one buffer and the threads that refer to it.
LEMMA OneBuffer ==
  ASSUME GInv, NEW b \in Objs, NEW o \in Buffer, o.csize <= o.size, o.nents <= Len(o.segs),
         obj' = [obj EXCEPT ![b] = o], op' \in [Threads -> Call], CallInv',
         \A u \in Threads, d \in Objs \ {b} : op[u].b = d \/ op'[u].b = d => op'[u] = op[u],
         BufferInv(b)', Kept(b),
         \/ o.sram = obj[b].sram /\ UNCHANGED <<sram_free, lost>>
         \/ o.sram = {} /\ sram_free' = sram_free \cup obj[b].sram /\ lost' = lost
         \/ o.sram = {} /\ lost' = lost \cup obj[b].sram /\ sram_free' = sram_free
         \/ /\ obj[b].sram = {} /\ o.sram \subseteq sram_free
            /\ sram_free' = sram_free \ o.sram /\ lost' = lost
  PROVE  GInv'
<1>1. TypeOK /\ SramConserved /\ obj \in [Objs -> Buffer]
  BY DEF GInv, TypeOK
<1>2. obj' \in [Objs -> Buffer] /\ obj'[b] = o /\ \A d \in Objs \ {b} : obj'[d] = obj[d]
  BY <1>1
<1>3. \A d \in Objs : BufferInv(d)'
  <2>1. ASSUME NEW d \in Objs \ {b}
        PROVE  BufferInv(d)'
    <3>1. BufferInv(d) /\ obj'[d] = obj[d] /\ (d \in broken' <=> d \in broken)
      BY <1>2 DEF GInv, Kept
    <3>2. QED
      BY <3>1, BufferSame
  <2>2. QED
    BY <2>1
<1>4. SramConserved'
  BY <1>1, <1>2, SramMoves
<1>5. /\ obj[b].sram \subseteq SramChunks
      /\ sram_free \subseteq SramChunks /\ lost \subseteq SramChunks
  BY <1>1 DEF TypeOK, Buffer
<1>6. sram_free' \subseteq SramChunks /\ lost' \subseteq SramChunks
  BY <1>5
<1>7. \A d \in Objs : obj'[d].csize <= obj'[d].size /\ obj'[d].nents <= Len(obj'[d].segs)
  BY <1>1, <1>2 DEF TypeOK
<1>8. TypeOK'
  <2>1. leaks' \subseteq Resources /\ wrong' \subseteq Resources /\ broken' \subseteq Objs
    BY <1>1 DEF Kept, TypeOK
  <2>2. QED
    BY <1>2, <1>6, <1>7, <2>1 DEF TypeOK
<1>9. EverythingReleased'
  BY DEF Kept
<1>10. QED
  BY <1>3, <1>4, <1>8, <1>9 DEF GInv

\* The ghosts of a step that loses nothing.
LEMMA GhostsSame ==
  ASSUME GInv, UNCHANGED <<leaks, wrong>>, NEW b \in Objs,
         broken' = broken \/ broken' = broken \cup {b}
  PROVE  Kept(b)
  BY DEF GInv, EverythingReleased, TypeOK, Kept

\* Who has a buffer in hand: its creator, and pointers without a reference.
LEMMA Strangers ==
  ASSUME GInv, NEW b \in Objs, NEW t \in Threads, op[t].b = b, ~Creator(t, b)
  PROVE  op[t].pc \in Bare
<1>1. op[t] \in Call /\ op[t].pc # "out"
  BY GemAssumption DEF GInv, TypeOK, CallInv
<1>2. QED
  BY <1>1 DEF Call, Creator

\* The end of a buffer: who still has it in hand has nothing to rely on, and its
\* creator is one of them only if it was freed too early.
LEMMA Gone ==
  ASSUME NEW b \in Objs, obj'[b] = Dead,
         \A t \in Threads : op'[t].b = b => op'[t].pc \notin {"sram", "alloc", "handle"},
         \A t, u \in Threads : Creator(t, b)' /\ Creator(u, b)' => t = u,
         b \in broken' \/ \A t \in Threads : ~Creator(t, b)'
  PROVE  BufferInv(b)'
<1>1. \A t \in Threads : op'[t].b = b => StageInv(op'[t], obj'[b])
  BY DEF StageInv
<1>2. Uses(Dead) = 0
  BY BlankType DEF Uses, Count
<1>3. Uses(obj[b])' = 0
  BY <1>2 DEF Uses, Count
<1>4. b \notin broken' => Made(b)' = 0
  BY DEF Count, Made
<1>5. obj'[b].life = "dead" /\ obj'[b].refs = 0 /\ obj'[b].over = 0
  BY BlankType
<1>6. QED
  BY <1>1, <1>3, <1>4, <1>5 DEF BufferInv

\* A buffer that lives on: the references, the stages, and what it has.
LEMMA Lives ==
  ASSUME NEW b \in Objs, NEW o \in Buffer, obj'[b] = o, o.life = "live", NEW n \in Nat,
         \A t, u \in Threads : Creator(t, b)' /\ Creator(u, b)' => t = u,
         Made(b)' = n,
         o.refs + o.over = n + Uses(o), o.refs > 0, o.over > 0 => funcs_mmap,
         \A t \in Threads : op'[t].b = b => StageInv(op'[t], o),
         \/ o.fellback \/ o.held = Released(o)
         \/ \E t \in Threads : op'[t].b = b /\ op'[t].pc \in {"sram", "alloc"}
  PROVE  BufferInv(b)'
<1>1. Uses(obj[b])' = Uses(o)
  BY DEF Uses, Count
<1>2. obj'[b].life = "live" /\ (obj'[b].life = "live" <=> obj'[b].refs > 0)
  OBVIOUS
<1>3. obj'[b].refs + obj'[b].over = Made(b)' + Uses(obj[b])'
  BY <1>1
<1>4. \A t \in Threads : op'[t].b = b => StageInv(op'[t], obj'[b])
  OBVIOUS
<1>5. \/ obj'[b].fellback \/ obj'[b].held = Released(obj'[b])
      \/ \E t \in Threads : op'[t].b = b /\ op'[t].pc \in {"sram", "alloc"}
  OBVIOUS
<1>6. QED
  BY <1>2, <1>3, <1>4, <1>5 DEF BufferInv

-----------------------------------------------------------------------------
(* Calls that look a buffer up, and leave *)

\* A thread takes, keeps or drops a pointer without a reference.
LEMMA PointerMoves ==
  ASSUME GInv, NEW t \in Threads, NEW b \in Objs, NEW q \in Call,
         op' = [op EXCEPT ![t] = q], op[t].b \in {b, NoObj}, q.b \in {b, NoObj},
         op[t].pc \in Bare \cup {"out"}, q.pc \in Bare \cup {"out"},
         q.pc = "out" <=> q.b = NoObj,
         UNCHANGED <<obj, sram_free, ghosts>>
  PROVE  GInv'
<1>0. /\ TypeOK /\ CallInv /\ BufferInv(b) /\ obj \in [Objs -> Buffer]
      /\ UNCHANGED <<leaks, wrong, lost, broken>>
  BY DEF GInv, TypeOK, ghosts
<1>1. /\ op' \in [Threads -> Call] /\ CallInv' /\ op'[t] = q
      /\ \A u \in Threads \ {t} : op'[u] = op[u]
      /\ \A u \in Threads, d \in Objs \ {b} : op[u].b = d \/ op'[u].b = d => op'[u] = op[u]
  BY <1>0, OneCall
<1>2. \A u \in Threads :
         /\ Creator(u, b)' <=> Creator(u, b)
         /\ (op'[u].b = b /\ op'[u].pc \in {"sram", "alloc"})
            <=> (op[u].b = b /\ op[u].pc \in {"sram", "alloc"})
  BY <1>1 DEF Creator, Bare
<1>3. \A u \in Threads : op'[u].b = b => StageInv(op'[u], obj[b])
  <2>1. q.b = b => StageInv(q, obj[b])
    BY GemAssumption DEF StageInv, Bare
  <2>2. QED
    BY <1>0, <1>1, <2>1 DEF BufferInv
<1>4. Made(b)' = Made(b)
  BY <1>2 DEF Count, Made
<1>5. BufferInv(b)'
  <2>1. Uses(obj[b])' = Uses(obj[b])
    BY DEF Uses, Count
  <2>2. QED
    BY <1>0, <1>2, <1>3, <1>4, <2>1 DEF BufferInv
<1>6. /\ obj' = [obj EXCEPT ![b] = obj[b]] /\ obj[b] \in Buffer
      /\ obj[b].csize <= obj[b].size /\ obj[b].nents <= Len(obj[b].segs)
  BY <1>0 DEF TypeOK
<1>7. Kept(b)
  BY <1>0, GhostsSame
<1>8. QED
  BY <1>0, <1>1, <1>5, <1>6, <1>7, OneBuffer

\* rknpu_gem_object_find() and the ends of the calls that use it.
LEMMA PointersKeep ==
  ASSUME GInv, NEW t \in Threads,
         \/ Fills(t) \/ Syncs(t) \/ CreateFinds(t) \/ DestroyFinds(t) \/ SyncCasts(t)
         \/ DestroySwitches(t)
  PROVE  GInv'
<1>0. op \in [Threads -> Call] /\ op[t] \in Call /\ CallInv /\ NoObj \notin Objs
  BY GemAssumption DEF GInv, TypeOK
<1>1. CASE Fills(t) \/ Syncs(t) \/ (DestroySwitches(t) /\ Return(t))
  <2>1. /\ op[t].pc \in Bare /\ op' = [op EXCEPT ![t] = Idle]
        /\ UNCHANGED <<obj, sram_free, ghosts>>
    BY <1>1 DEF Fills, Syncs, DestroySwitches, Return, Bare
  <2>2. op[t].b \in Objs
    BY <1>0, <2>1 DEF CallInv, Call, Bare
  <2>3. QED
    BY <2>1, <2>2, CallType, PointerMoves
<1>2. CASE CreateFinds(t) \/ DestroyFinds(t) \/ SyncCasts(t)
  <2>1. PICK p \in {"found", "switch", "sync"}, b \in Objs : op' = [op EXCEPT ![t] = At(p, b)]
    BY <1>2 DEF CreateFinds, DestroyFinds, SyncCasts, Finds
  <2>2. op[t].pc = "out" /\ UNCHANGED <<obj, sram_free, ghosts>>
    BY <1>2 DEF CreateFinds, DestroyFinds, SyncCasts, Finds
  <2>3. op[t].b = NoObj
    BY <1>0, <2>2 DEF CallInv
  <2>4. At(p, b) \in Call /\ At(p, b).pc = p /\ At(p, b).b = b /\ p \in Bare
    BY CallType DEF Bare
  <2>5. QED
    BY <1>0, <2>1, <2>2, <2>3, <2>4, PointerMoves DEF Bare
<1>3. CASE DestroySwitches(t) /\ Goto(t, "delete")
  <2> DEFINE q == [op[t] EXCEPT !.pc = "delete"]
  <2>1. /\ op[t].pc = "switch" /\ op' = [op EXCEPT ![t] = q]
        /\ UNCHANGED <<obj, sram_free, ghosts>>
    BY <1>0, <1>3 DEF DestroySwitches, Goto
  <2>2. q \in Call /\ q.pc = "delete" /\ q.b = op[t].b
    BY <1>0 DEF Call, Bare
  <2>3. op[t].b \in Objs
    BY <1>0, <2>1 DEF CallInv, Call
  <2> HIDE DEF q
  <2>4. QED
    BY <1>0, <2>1, <2>2, <2>3, PointerMoves DEF Bare
<1>4. QED
  BY <1>1, <1>2, <1>3 DEF DestroySwitches

-----------------------------------------------------------------------------
(* Creation *)

\* A buffer nobody has seen.
LEMMA Unseen ==
  ASSUME GInv, NEW b \in Objs, obj[b].life = "unborn"
  PROVE  /\ obj[b].sram = {}
         /\ \A t \in Threads : ~Creator(t, b)
         /\ \A t \in Threads : op[t].b = b => op[t].pc \in Bare
<1>1. BufferInv(b)
  BY DEF GInv
<1>2. obj[b] = Blank /\ b \notin broken
  BY <1>1 DEF BufferInv
<1>3. Uses(obj[b]) = 0 /\ obj[b].refs = 0 /\ obj[b].over = 0 /\ obj[b].sram = {}
  BY <1>2, BlankType DEF Uses, Count
<1>4. Made(b) \in Nat
  BY DEF Count, Made
<1>5. Made(b) = 0
  BY <1>1, <1>2, <1>3, <1>4 DEF BufferInv
<1>6. \A t \in Threads : ~Creator(t, b)
  BY <1>5 DEF Count, Made
<1>7. QED
  BY <1>3, <1>6, Strangers

\* rknpu_gem_object_create() has its object; memory is to come.
LEMMA Born ==
  ASSUME GInv, NEW t \in Threads, NEW b \in Objs, obj[b].life = "unborn", op[t].pc = "out",
         NEW o \in Buffer, o.csize <= o.size, o.nents <= Len(o.segs), o.sram = {},
         o.life = "live", o.refs = 1, ~o.handle, ~o.exported, o.vmas = 0, o.over = 0,
         NEW q \in Call, q.b = b, q.pc \in {"sram", "alloc"}, StageInv(q, o),
         obj' = [obj EXCEPT ![b] = o], op' = [op EXCEPT ![t] = q],
         UNCHANGED <<sram_free, ghosts>>
  PROVE  GInv'
<1>0. /\ TypeOK /\ CallInv /\ obj \in [Objs -> Buffer] /\ NoObj \notin Objs
      /\ UNCHANGED <<leaks, wrong, lost, broken>>
  BY GemAssumption DEF GInv, TypeOK, ghosts
<1>1. /\ op' \in [Threads -> Call] /\ CallInv' /\ op'[t] = q
      /\ \A u \in Threads \ {t} : op'[u] = op[u]
      /\ \A u \in Threads, d \in Objs \ {b} : op[u].b = d \/ op'[u].b = d => op'[u] = op[u]
  <2>1. op[t].b = NoObj
    BY <1>0 DEF CallInv
  <2>2. QED
    BY <1>0, <2>1, OneCall
<1>2. /\ obj[b].sram = {} /\ \A u \in Threads : ~Creator(u, b)
      /\ \A u \in Threads : op[u].b = b => op[u].pc \in Bare
  BY Unseen
<1>3. obj'[b] = o
  BY <1>0
<1>4. BufferInv(b)'
  <2>1. \A u \in Threads : Creator(u, b)' <=> u = t
    BY <1>1, <1>2 DEF Creator
  <2>2. \A u \in Threads : op'[u].b = b => StageInv(op'[u], o)
    BY <1>1, <1>2 DEF StageInv, Bare
  <2>3. Made(b)' = 1 /\ Uses(o) = 0
    BY <2>1 DEF Uses, Count, Made
  <2>4. op'[t].b = b /\ op'[t].pc \in {"sram", "alloc"}
    BY <1>1
  <2>5. \A u, v \in Threads : Creator(u, b)' /\ Creator(v, b)' => u = v
    BY <2>1
  <2>6. o.refs + o.over = 1 + Uses(o) /\ o.refs > 0 /\ 1 \in Nat /\ ~(o.over > 0)
    BY <2>3
  <2>7. QED
    BY <1>3, <2>2, <2>3, <2>4, <2>5, <2>6, Lives
<1>5. Kept(b)
  BY <1>0, GhostsSame
<1>6. QED
  BY <1>0, <1>1, <1>2, <1>4, <1>5, OneBuffer

\* A creation that fails at once.
LEMMA Stillborn ==
  ASSUME GInv, NEW b \in Objs, obj[b].life = "unborn", obj' = [obj EXCEPT ![b] = Dead],
         UNCHANGED <<op, sram_free, ghosts>>
  PROVE  GInv'
<1>0. /\ TypeOK /\ CallInv /\ obj \in [Objs -> Buffer] /\ op \in [Threads -> Call]
      /\ UNCHANGED <<leaks, wrong, lost, broken>>
  BY DEF GInv, TypeOK, ghosts
<1>1. obj'[b] = Dead /\ obj[b].sram = {}
  BY <1>0, Unseen
<1>2. BufferInv(b)'
  <2>1. \A t \in Threads : ~Creator(t, b)' /\ (op'[t].b = b => op'[t].pc \in Bare)
    BY <1>0, Unseen DEF Creator
  <2>2. QED
    BY <1>1, <2>1, Gone DEF Bare
<1>3. CallInv'
  BY <1>0 DEF CallInv
<1>4. Kept(b)
  BY <1>0, GhostsSame
<1>5. /\ Dead \in Buffer /\ Dead.sram = {} /\ Dead.csize <= Dead.size
      /\ Dead.nents <= Len(Dead.segs)
  BY BlankType
<1>6. QED
  BY <1>0, <1>1, <1>2, <1>3, <1>4, <1>5, OneBuffer

\* The object rknpu_gem_init() sets up for a request.
Fresh(r) ==
    [Blank EXCEPT !.life = "live", !.held = {"object"}, !.size = r.size,
                  !.noncontig = NonContig(r), !.kmap = r.kmap, !.refs = 1]

\* Its fields.
LEMMA FreshType ==
  ASSUME NEW r \in Requests
  PROVE  /\ Fresh(r) \in Buffer /\ Fresh(r).life = "live" /\ Fresh(r).held = {"object"}
         /\ Fresh(r).size = r.size /\ Fresh(r).size > 0 /\ Fresh(r).size \in DOMAIN Shapes
         /\ Fresh(r).refs = 1 /\ Fresh(r).csize = 0 /\ Fresh(r).nents = 0
         /\ Fresh(r).segs = <<>> /\ Fresh(r).sram = {} /\ ~Fresh(r).handle
         /\ Fresh(r).vmas = 0 /\ ~Fresh(r).fellback /\ ~Fresh(r).exported
         /\ Fresh(r).over = 0
<1>1. /\ r.size \in Nat /\ r.size > 0 /\ r.size \in DOMAIN Shapes
      /\ r.kmap \in BOOLEAN /\ NonContig(r) \in BOOLEAN
  BY GemAssumption DEF Request, NonContig
<1>2. "live" \in {"unborn", "live", "dead"} /\ {"object"} \in SUBSET Resources
  BY DEF Resources
<1>3. Fresh(r) \in Buffer
  BY <1>1, <1>2, BlankType DEF Fresh, Buffer
<1>4. /\ Fresh(r).life = "live" /\ Fresh(r).held = {"object"}
      /\ Fresh(r).size = r.size /\ Fresh(r).refs = 1
  BY DEF Fresh, Blank
<1>5. /\ Fresh(r).csize = 0 /\ Fresh(r).nents = 0 /\ Fresh(r).segs = <<>>
      /\ Fresh(r).sram = {} /\ ~Fresh(r).handle /\ Fresh(r).vmas = 0 /\ ~Fresh(r).fellback
      /\ ~Fresh(r).exported /\ Fresh(r).over = 0
  BY DEF Fresh, Blank
<1>6. QED
  BY <1>1, <1>3, <1>4, <1>5

\* rknpu_gem_object_create() up to where memory is taken.
LEMMA CreateStartsKeeps ==
  ASSUME GInv, NEW t \in Threads, CreateStarts(t)
  PROVE  GInv'
<1>0. PICK b \in Objs, r \in Requests :
         /\ obj[b].life = "unborn"
         /\ \/ /\ obj' = [obj EXCEPT ![b] = Fresh(r)]
               /\ op' = [op EXCEPT ![t] = [At("sram", b) EXCEPT
                             !.n = Least(SramPart(r), Cardinality(sram_free))]]
            \/ /\ Least(r.size, NbufLimit) > 0
               /\ obj' = [obj EXCEPT ![b] = [Fresh(r) EXCEPT
                              !.mem = "nbuf", !.csize = Least(r.size, NbufLimit),
                              !.chunks = cache_sgt]]
               /\ op' = [op EXCEPT ![t] = At("alloc", b)]
            \/ /\ obj' = [obj EXCEPT ![b] = [Fresh(r) EXCEPT !.mem = Plain(Fresh(r))]]
               /\ op' = [op EXCEPT ![t] = At("alloc", b)]
            \/ obj' = [obj EXCEPT ![b] = Dead] /\ UNCHANGED op
  BY DEF CreateStarts, Fresh
<1>1. op[t].pc = "out" /\ UNCHANGED <<sram_free, ghosts>>
  BY DEF CreateStarts
<1>2. /\ Fresh(r) \in Buffer /\ Fresh(r).life = "live" /\ Fresh(r).held = {"object"}
      /\ Fresh(r).size = r.size /\ Fresh(r).size > 0 /\ Fresh(r).size \in DOMAIN Shapes
      /\ Fresh(r).refs = 1 /\ Fresh(r).csize = 0 /\ Fresh(r).nents = 0
      /\ Fresh(r).segs = <<>> /\ Fresh(r).sram = {} /\ ~Fresh(r).handle
      /\ Fresh(r).vmas = 0 /\ ~Fresh(r).fellback /\ ~Fresh(r).exported
      /\ Fresh(r).over = 0
  BY FreshType
<1>3. r.size \in Nat /\ r.sram_size \in Nat /\ NbufLimit \in Nat
  BY GemAssumption DEF Request
<1>4. CASE /\ obj' = [obj EXCEPT ![b] = Fresh(r)]
           /\ op' = [op EXCEPT ![t] = [At("sram", b) EXCEPT
                         !.n = Least(SramPart(r), Cardinality(sram_free))]]
  <2>1. Cardinality(sram_free) \in Nat
    BY GemAssumption, FS_Subset, FS_CardinalityType DEF GInv, TypeOK
  <2>2. SramPart(r) \in Nat /\ SramPart(r) <= r.size
    BY <1>3 DEF SramPart, Least
  <2>3. PICK n \in Nat : n = Least(SramPart(r), Cardinality(sram_free)) /\ n <= r.size
    BY <1>3, <2>1, <2>2 DEF Least
  <2>4. PICK q : q = [At("sram", b) EXCEPT !.n = n]
    OBVIOUS
  <2>5. q \in Call /\ q.pc = "sram" /\ q.b = b /\ q.n = n
    <3>1. At("sram", b) \in Call /\ At("sram", b).pc = "sram" /\ At("sram", b).b = b
      BY CallType
    <3>2. QED
      BY <2>4, <3>1 DEF Call
  <2>6. StageInv(q, Fresh(r))
    BY <1>2, <2>3, <2>5 DEF StageInv, Bare
  <2>7. Fresh(r).csize <= Fresh(r).size /\ Fresh(r).nents <= Len(Fresh(r).segs)
    BY <1>2, <1>3
  <2>8. op' = [op EXCEPT ![t] = q]
    BY <1>4, <2>3, <2>4
  <2>9. QED
    BY <1>0, <1>1, <1>2, <1>4, <2>5, <2>6, <2>7, <2>8, Born
<1>5. CASE /\ Least(r.size, NbufLimit) > 0
           /\ obj' = [obj EXCEPT ![b] = [Fresh(r) EXCEPT
                          !.mem = "nbuf", !.csize = Least(r.size, NbufLimit),
                          !.chunks = cache_sgt]]
           /\ op' = [op EXCEPT ![t] = At("alloc", b)]
  <2>1. PICK n \in Nat : n = Least(r.size, NbufLimit) /\ n <= r.size
    BY <1>3 DEF Least
  <2>2. PICK o : o = [Fresh(r) EXCEPT !.mem = "nbuf", !.csize = n, !.chunks = cache_sgt]
    OBVIOUS
  <2>3. o \in Buffer
    BY <1>2, <2>1, <2>2 DEF Buffer
  <2>4. /\ o.mem = "nbuf" /\ o.csize = n /\ o.size = r.size /\ o.life = "live"
        /\ o.held = {"object"} /\ o.refs = 1 /\ o.nents = 0 /\ o.segs = <<>>
        /\ o.sram = {} /\ ~o.handle /\ o.vmas = 0 /\ ~o.fellback /\ o.size \in DOMAIN Shapes
        /\ ~o.exported /\ o.over = 0
    BY <1>2, <2>1, <2>2 DEF Buffer
  <2>5. PICK q \in Call : q = At("alloc", b) /\ q.pc = "alloc" /\ q.b = b
    BY CallType
  <2>6. StageInv(q, o)
    BY <2>4, <2>5 DEF StageInv, Bare
  <2>7. o.csize <= o.size /\ o.nents <= Len(o.segs)
    BY <2>1, <2>4
  <2>8. obj' = [obj EXCEPT ![b] = o] /\ op' = [op EXCEPT ![t] = q]
    BY <1>5, <2>1, <2>2, <2>5
  <2>9. QED
    BY <1>0, <1>1, <2>3, <2>4, <2>5, <2>6, <2>7, <2>8, Born
<1>6. CASE /\ obj' = [obj EXCEPT ![b] = [Fresh(r) EXCEPT !.mem = Plain(Fresh(r))]]
           /\ op' = [op EXCEPT ![t] = At("alloc", b)]
  <2>1. PICK m \in {"pages", "dma"} : m = Plain(Fresh(r))
    BY DEF Plain
  <2>2. PICK o : o = [Fresh(r) EXCEPT !.mem = m]
    OBVIOUS
  <2>3. o \in Buffer
    BY <1>2, <2>1, <2>2 DEF Buffer
  <2>4. /\ o.mem = m /\ o.csize = 0 /\ o.size = r.size /\ o.life = "live"
        /\ o.held = {"object"} /\ o.refs = 1 /\ o.nents = 0 /\ o.segs = <<>>
        /\ o.sram = {} /\ ~o.handle /\ o.vmas = 0 /\ ~o.fellback /\ o.size \in DOMAIN Shapes
        /\ ~o.exported /\ o.over = 0
        /\ o.noncontig = Fresh(r).noncontig
    BY <1>2, <2>1, <2>2 DEF Buffer
  <2>5. PICK q \in Call : q = At("alloc", b) /\ q.pc = "alloc" /\ q.b = b
    BY CallType
  <2>6. o.mem = Plain(o)
    BY <2>1, <2>4 DEF Plain
  <2>7. StageInv(q, o)
    BY <2>1, <2>4, <2>5, <2>6 DEF StageInv, Bare
  <2>8. o.csize <= o.size /\ o.nents <= Len(o.segs)
    BY <1>3, <2>4
  <2>9. obj' = [obj EXCEPT ![b] = o] /\ op' = [op EXCEPT ![t] = q]
    BY <1>6, <2>1, <2>2, <2>5
  <2>10. QED
    BY <1>0, <1>1, <2>3, <2>4, <2>5, <2>7, <2>8, <2>9, Born
<1>7. CASE obj' = [obj EXCEPT ![b] = Dead] /\ UNCHANGED op
  BY <1>0, <1>1, <1>7, Stillborn
<1>8. QED
  BY <1>0, <1>4, <1>5, <1>6, <1>7

-----------------------------------------------------------------------------
(* Memory *)

\* Before the handle is made the only reference is the creator's.
LEMMA OnlyCreator ==
  ASSUME NEW t \in Threads, NEW b \in Objs, BufferInv(b), Creator(t, b), obj[b] \in Buffer,
         op[t].pc \in {"sram", "alloc", "handle"}, StageInv(op[t], obj[b])
  PROVE  obj[b].refs = 1 /\ obj[b].life = "live"
<1>1. /\ obj[b].life = "live" /\ ~obj[b].handle /\ ~obj[b].exported /\ obj[b].vmas = 0
      /\ obj[b].over = 0 /\ obj[b].refs \in Nat
  BY DEF StageInv, Buffer
<1>2. Uses(obj[b]) = 0 /\ Made(b) = 1
  BY <1>1 DEF Uses, Count, Made
<1>3. obj[b].refs + obj[b].over = Made(b) + Uses(obj[b])
  BY <1>1 DEF BufferInv
<1>4. QED
  BY <1>1, <1>2, <1>3

\* A creator goes on with a buffer nobody else can reach.
LEMMA CreatorMoves ==
  ASSUME GInv, NEW t \in Threads, NEW b \in Objs, op[t].b = b, op[t].pc \in {"sram", "alloc"},
         NEW o \in Buffer, o.csize <= o.size, o.nents <= Len(o.segs),
         o.life = obj[b].life, o.refs = obj[b].refs, ~o.handle, ~o.exported, o.vmas = 0,
         o.over = 0,
         NEW q \in Call, q.b = b, q.pc \in {"alloc", "handle"}, StageInv(q, o),
         q.pc = "handle" => o.fellback \/ o.held = Released(o),
         obj' = [obj EXCEPT ![b] = o], op' = [op EXCEPT ![t] = q],
         \/ o.sram = obj[b].sram /\ UNCHANGED <<sram_free, lost>>
         \/ /\ obj[b].sram = {} /\ o.sram \subseteq sram_free
            /\ sram_free' = sram_free \ o.sram /\ lost' = lost,
         UNCHANGED <<leaks, wrong, broken>>
  PROVE  GInv'
<1>0. /\ TypeOK /\ CallInv /\ BufferInv(b) /\ obj \in [Objs -> Buffer] /\ NoObj \notin Objs
  BY GemAssumption DEF GInv, TypeOK
<1>1. /\ op' \in [Threads -> Call] /\ CallInv' /\ op'[t] = q
      /\ \A u \in Threads \ {t} : op'[u] = op[u]
      /\ \A u \in Threads, d \in Objs \ {b} : op[u].b = d \/ op'[u].b = d => op'[u] = op[u]
  BY <1>0, OneCall
<1>2. Creator(t, b) /\ \A u \in Threads : Creator(u, b) => u = t
  BY <1>0 DEF BufferInv, Creator
<1>3. StageInv(op[t], obj[b])
  BY <1>0 DEF BufferInv
<1>4. \A u \in Threads \ {t} : op[u].b = b => op[u].pc \in Bare
  BY <1>2, Strangers
<1>5. obj[b].refs = 1 /\ obj[b].life = "live"
  BY <1>0, <1>2, <1>3, OnlyCreator
<1>6. BufferInv(b)'
  <2>1. \A u \in Threads : Creator(u, b)' <=> u = t
    BY <1>1, <1>2 DEF Creator
  <2>2. \A u \in Threads : op'[u].b = b => StageInv(op'[u], o)
    <3>1. ASSUME NEW u \in Threads \ {t}, op[u].b = b
          PROVE  StageInv(op[u], o)
      BY <1>4, <3>1 DEF StageInv, Bare
    <3>2. QED
      BY <1>1, <3>1
  <2>3. Made(b)' = 1 /\ Uses(o) = 0
    BY <2>1 DEF Uses, Count, Made
  <2>4. \A u, v \in Threads : Creator(u, b)' /\ Creator(v, b)' => u = v
    BY <2>1
  <2>5. o.refs + o.over = 1 + Uses(o) /\ o.refs > 0 /\ 1 \in Nat /\ o.life = "live"
        /\ ~(o.over > 0)
    BY <1>5, <2>3
  <2>6. \/ o.fellback \/ o.held = Released(o)
        \/ \E u \in Threads : op'[u].b = b /\ op'[u].pc \in {"sram", "alloc"}
    BY <1>1
  <2>7. obj'[b] = o
    BY <1>0
  <2>8. QED
    BY <2>2, <2>3, <2>4, <2>5, <2>6, <2>7, Lives
<1>7. Kept(b)
  BY GhostsSame
<1>8. QED
  BY <1>1, <1>6, <1>7, OneBuffer

\* The step of a thread that has a buffer.
LEMMA HasBuffer ==
  ASSUME GInv, NEW t \in Threads, op[t].pc # "out"
  PROVE  /\ op[t].b \in Objs /\ obj[op[t].b] \in Buffer /\ op[t] \in Call
         /\ StageInv(op[t], obj[op[t].b]) /\ BufferInv(op[t].b)
         /\ obj[op[t].b].csize <= obj[op[t].b].size
         /\ obj[op[t].b].nents <= Len(obj[op[t].b].segs)
<1>1. op[t] \in Call /\ op[t].b \in Objs
  BY DEF GInv, TypeOK, CallInv, Call
<1>2. QED
  BY <1>1 DEF GInv, TypeOK, BufferInv

\* rknpu_mm_alloc() of the size computed before.
LEMMA SramAllocsKeeps ==
  ASSUME GInv, NEW t \in Threads, SramAllocs(t)
  PROVE  GInv'
<1>0. PICK b : b = op[t].b
  OBVIOUS
<1>1. PICK o : o = obj[b]
  OBVIOUS
<1>2. /\ op[t].pc = "sram" /\ op' = [op EXCEPT ![t] = At("alloc", b)]
      /\ UNCHANGED <<leaks, wrong, lost, broken>>
  BY <1>0 DEF SramAllocs, ghosts
<1>3. /\ b \in Objs /\ o \in Buffer /\ op[t] \in Call /\ StageInv(op[t], o)
      /\ o.csize <= o.size /\ o.nents <= Len(o.segs)
  BY <1>0, <1>1, <1>2, HasBuffer
<1>4. /\ ~o.handle /\ ~o.exported /\ o.vmas = 0 /\ o.over = 0 /\ o.life = "live"
      /\ ~o.fellback /\ o.size \in DOMAIN Shapes
      /\ o.held = {"object"} /\ o.sram = {} /\ op[t].n <= o.size /\ op[t].n \in Nat
  BY <1>2, <1>3 DEF StageInv, Call
<1>5. PICK q \in Call : q = At("alloc", b) /\ q.pc = "alloc" /\ q.b = b
  BY <1>3, CallType
<1>6. obj \in [Objs -> Buffer] /\ sram_free \subseteq SramChunks
  BY DEF GInv, TypeOK
<1>7. ASSUME NEW i \in sram_free,
             i .. i + op[t].n - 1 \subseteq sram_free,
             sram_free' = sram_free \ (i .. i + op[t].n - 1),
             obj' = [obj EXCEPT ![b].mem = "sram", ![b].csize = op[t].n,
                                ![b].sram = i .. i + op[t].n - 1,
                                ![b].held = @ \cup {"sram"}]
      PROVE  GInv'
  <2>1. PICK S \in SUBSET SramChunks : S = i .. i + op[t].n - 1 /\ S \subseteq sram_free
    BY <1>6, <1>7
  <2>2. PICK w : w = [o EXCEPT !.mem = "sram", !.csize = op[t].n, !.sram = S,
                               !.held = {"object", "sram"}]
    OBVIOUS
  <2>3. w \in Buffer
    BY <1>3, <1>4, <2>1, <2>2 DEF Buffer, Resources
  <2>4. /\ w.mem = "sram" /\ w.csize = op[t].n /\ w.sram = S /\ w.held = {"object", "sram"}
        /\ w.life = o.life /\ w.refs = o.refs /\ w.size = o.size /\ ~w.handle /\ w.vmas = 0
        /\ ~w.fellback /\ w.nents = o.nents /\ w.segs = o.segs /\ ~w.exported /\ w.over = 0
    BY <1>3, <1>4, <2>2 DEF Buffer
  <2>5. obj' = [obj EXCEPT ![b] = w]
    <3>1. o.held \cup {"sram"} = {"object", "sram"}
      BY <1>4
    <3>2. w = [o EXCEPT !.mem = "sram", !.csize = op[t].n, !.sram = i .. i + op[t].n - 1,
                        !.held = @ \cup {"sram"}]
      BY <2>1, <2>2, <3>1
    <3>3. QED
      BY <1>1, <1>3, <1>6, <1>7, <3>2 DEF Buffer
  <2>6. StageInv(q, w)
    BY <1>4, <1>5, <2>4 DEF StageInv, Bare
  <2>7. /\ w.csize <= w.size /\ w.nents <= Len(w.segs) /\ obj[b].sram = {}
        /\ w.life = obj[b].life /\ w.refs = obj[b].refs
    BY <1>1, <1>3, <1>4, <2>4
  <2>8. w.sram \subseteq sram_free /\ sram_free' = sram_free \ w.sram
    BY <1>7, <2>1, <2>4
  <2>9. op' = [op EXCEPT ![t] = q]
    BY <1>2, <1>5
  <2>10. QED
    BY <1>0, <1>2, <1>3, <1>5, <2>3, <2>4, <2>5, <2>6, <2>7, <2>8, <2>9, CreatorMoves
<1>8. ASSUME obj' = [obj EXCEPT ![b].mem = Plain(obj[b])], UNCHANGED sram_free
      PROVE  GInv'
  <2>1. PICK m \in {"pages", "dma"} : m = Plain(o)
    BY DEF Plain
  <2>2. PICK w : w = [o EXCEPT !.mem = m]
    OBVIOUS
  <2>3. w \in Buffer
    BY <1>3, <2>1, <2>2 DEF Buffer
  <2>4. /\ w.mem = m /\ w.csize = o.csize /\ w.sram = o.sram /\ w.held = {"object"}
        /\ w.life = o.life /\ w.refs = o.refs /\ w.size = o.size /\ ~w.handle /\ w.vmas = 0
        /\ ~w.fellback /\ w.nents = o.nents /\ w.segs = o.segs /\ w.noncontig = o.noncontig
        /\ ~w.exported /\ w.over = 0
    BY <1>3, <1>4, <2>2 DEF Buffer
  <2>5. obj' = [obj EXCEPT ![b] = w]
    BY <1>1, <1>3, <1>6, <1>8, <2>1, <2>2 DEF Buffer
  <2>6. w.mem = Plain(w)
    BY <2>1, <2>4 DEF Plain
  <2>7. StageInv(q, w)
    BY <1>4, <1>5, <2>1, <2>4, <2>6 DEF StageInv, Bare
  <2>8. /\ w.csize <= w.size /\ w.nents <= Len(w.segs) /\ w.sram = obj[b].sram
        /\ w.life = obj[b].life /\ w.refs = obj[b].refs
    BY <1>1, <1>3, <2>4
  <2>9. op' = [op EXCEPT ![t] = q]
    BY <1>2, <1>5
  <2>10. QED
    BY <1>0, <1>2, <1>3, <1>5, <1>8, <2>3, <2>4, <2>5, <2>7, <2>8, <2>9, CreatorMoves
<1>9. QED
  BY <1>0, <1>7, <1>8 DEF SramAllocs

\* What a buffer has once its path is complete is what its destruction releases.
LEMMA PathComplete ==
  ASSUME NEW o \in Buffer, NEW w \in Buffer,
         o.mem \in {"pages", "dma", "sram", "nbuf"},
         o.held = {"object"} \cup (IF o.mem = "sram" THEN {"sram"} ELSE {}),
         o.mem \in {"pages", "dma"} => o.mem = Plain(o),
         w.held = o.held \cup (Range(Path(o.mem, o.kmap)) \ {"fill"}),
         w.mem = o.mem, w.kmap = o.kmap, w.noncontig = o.noncontig
  PROVE  w.held = Released(w)
<1>0. o.kmap \in BOOLEAN /\ o.noncontig \in BOOLEAN
  BY DEF Buffer
<1>1. CASE o.mem = "pages"
  <2>1. Range(Path(o.mem, o.kmap)) =
           {"pages", "sgt", "sg_map"} \cup (IF o.kmap THEN {"vmap"} ELSE {})
    BY <1>0, <1>1, PathRange
  <2>2. w.noncontig /\ iommu_en
    BY <1>0, <1>1 DEF Plain
  <2>3. Released(w) = {"object"} \cup PutPages(w)
    BY <1>1, <2>2 DEF Released, FreeBuf
  <2>4. QED
    BY <1>1, <2>1, <2>3 DEF PutPages
<1>2. CASE o.mem = "dma"
  <2>1. Range(Path(o.mem, o.kmap)) = {"page_array", "dma", "sgt", "fill"}
    BY <1>0, <1>2, PathRange
  <2>2. ~(w.noncontig /\ iommu_en)
    BY <1>0, <1>2 DEF Plain
  <2>3. Released(w) = {"object"} \cup {"sgt", "dma", "page_array"}
    BY <1>2, <2>2 DEF Released, FreeBuf
  <2>4. QED
    BY <1>2, <2>1, <2>3
<1>3. CASE o.mem = "sram"
  <2>1. Range(Path(o.mem, o.kmap)) = {"iova", "cache_map", "pages", "sgt", "ddr_map"}
    BY <1>0, <1>3, PathRange
  <2>2. QED
    BY <1>3, <2>1 DEF Released, FreeCache
<1>4. CASE o.mem = "nbuf"
  <2>1. Range(Path(o.mem, o.kmap)) = {"iova", "cache_map", "pages", "sgt", "ddr_map"}
    BY <1>0, <1>4, PathRange
  <2>2. QED
    BY <1>4, <2>1 DEF Released, FreeCache
<1>5. QED
  BY <1>1, <1>2, <1>3, <1>4

\* A path acquires resources.
LEMMA PathResources ==
  ASSUME NEW mem, NEW kmap \in BOOLEAN
  PROVE  Range(Path(mem, kmap)) \ {"fill"} \subseteq Resources
<1>1. \/ Range(Path(mem, kmap)) \subseteq {"pages", "sgt", "sg_map", "vmap"}
      \/ Range(Path(mem, kmap)) = {"page_array", "dma", "sgt", "fill"}
      \/ Range(Path(mem, kmap)) = {"iova", "cache_map", "pages", "sgt", "ddr_map"}
  BY PathRange
<1>2. QED
  BY <1>1 DEF Resources

\* The memory is there.
LEMMA AllocsKeeps ==
  ASSUME GInv, NEW t \in Threads, Allocs(t)
  PROVE  GInv'
<1>0. PICK b : b = op[t].b
  OBVIOUS
<1>1. PICK o : o = obj[b]
  OBVIOUS
<1>2. op[t].pc = "alloc"
  BY DEF Allocs
<1>3. /\ b \in Objs /\ o \in Buffer /\ op[t] \in Call /\ StageInv(op[t], o)
      /\ o.csize <= o.size /\ obj \in [Objs -> Buffer] /\ op \in [Threads -> Call]
  BY <1>0, <1>1, <1>2, HasBuffer DEF GInv, TypeOK
<1>4. /\ ~o.handle /\ ~o.exported /\ o.vmas = 0 /\ o.over = 0 /\ o.life = "live"
      /\ ~o.fellback /\ o.size \in DOMAIN Shapes
      /\ o.mem \in {"pages", "dma", "sram", "nbuf"}
      /\ o.held = {"object"} \cup (IF o.mem = "sram" THEN {"sram"} ELSE {})
      /\ o.mem \in {"pages", "dma"} => o.mem = Plain(o)
      /\ o.kmap \in BOOLEAN /\ o.noncontig \in BOOLEAN
  BY <1>2, <1>3 DEF StageInv, Buffer
<1>5. PICK H : H = o.held \cup (Range(Path(o.mem, o.kmap)) \ {"fill"})
  OBVIOUS
<1>6. H \in SUBSET Resources
  BY <1>3, <1>4, <1>5, PathResources DEF Buffer
<1>7. PICK segs \in Shapes[o.size], falls \in BOOLEAN : \E nents \in 1 .. Len(segs) :
         obj' = [obj EXCEPT ![b] = WithMemory(o, segs, nents, falls)]
  <2>1. \E segs \in Shapes[obj[op[t].b].size], falls \in BOOLEAN :
            \E nents \in 1 .. Len(segs) :
               obj' = [obj EXCEPT ![op[t].b] = WithMemory(obj[op[t].b], segs, nents, falls)]
    BY Zenon DEF Allocs
  <2>2. QED
    BY <1>0, <1>1, <2>1
<1>8. PICK nents \in 1 .. Len(segs) :
         obj' = [obj EXCEPT ![b] = WithMemory(o, segs, nents, falls)]
  BY <1>7
<1>9. segs \in Seq(Nat) /\ nents \in Nat /\ nents <= Len(segs)
  BY <1>4, <1>7, <1>8, GemAssumption
<1>10. PICK w : w = WithMemory(o, segs, nents, falls)
  OBVIOUS
<1>11. w = [o EXCEPT !.held = H, !.segs = segs, !.nents = nents,
                     !.noncontig = o.noncontig \/ falls, !.fellback = falls]
  BY <1>5, <1>10 DEF WithMemory
<1>12. w \in Buffer
  BY <1>3, <1>4, <1>6, <1>9, <1>11 DEF Buffer
<1>13. /\ w.held = H /\ w.segs = segs /\ w.nents = nents /\ w.fellback = falls
       /\ w.noncontig = (o.noncontig \/ falls)
       /\ w.mem = o.mem /\ w.kmap = o.kmap /\ w.life = o.life /\ w.refs = o.refs
       /\ w.handle = o.handle /\ w.vmas = o.vmas /\ w.csize = o.csize /\ w.size = o.size
       /\ w.sram = o.sram /\ w.exported = o.exported /\ w.over = o.over
  BY <1>3, <1>11 DEF Buffer
<1>14. w.fellback \/ w.held = Released(w)
  <2>1. ASSUME ~falls
        PROVE  w.held = Released(w)
    <3>1. w.noncontig = o.noncontig
      BY <1>4, <1>13, <2>1
    <3>2. w.held = o.held \cup (Range(Path(o.mem, o.kmap)) \ {"fill"})
      BY <1>5, <1>13
    <3>3. QED
      BY <1>3, <1>4, <1>12, <1>13, <3>1, <3>2, PathComplete
  <2>2. QED
    BY <1>13, <2>1
<1>15. obj' = [obj EXCEPT ![b] = w]
  BY <1>8, <1>10
<1>16. PICK q : q = [op[t] EXCEPT !.pc = "handle"]
  OBVIOUS
<1>17. q \in Call /\ q.pc = "handle" /\ q.b = b
  BY <1>0, <1>3, <1>16 DEF Call
<1>18. op' = [op EXCEPT ![t] = q]
  BY <1>3, <1>16 DEF Allocs, Goto
<1>19. StageInv(q, w)
  BY <1>4, <1>13, <1>17 DEF StageInv, Bare
<1>20. UNCHANGED <<sram_free, leaks, wrong, lost, broken>>
  BY DEF Allocs, ghosts
<1>21. /\ w.csize <= w.size /\ w.nents <= Len(w.segs) /\ w.life = obj[b].life
       /\ w.refs = obj[b].refs /\ ~w.handle /\ w.vmas = 0 /\ w.sram = obj[b].sram
       /\ ~w.exported /\ w.over = 0
  BY <1>1, <1>3, <1>4, <1>9, <1>13
<1>22. QED
  BY <1>0, <1>2, <1>3, <1>12, <1>14, <1>15, <1>17, <1>18, <1>19, <1>20, <1>21, CreatorMoves

\* Any acquisition fails and the error path is taken.
LEMMA AllocFailsKeeps ==
  ASSUME GInv, NEW t \in Threads, AllocFails(t)
  PROVE  GInv'
<1>0. PICK b : b = op[t].b
  OBVIOUS
<1>1. /\ op[t].pc = "alloc" /\ obj' = [obj EXCEPT ![b] = Dead] /\ op' = [op EXCEPT ![t] = Idle]
      /\ sram_free' = sram_free \cup obj[b].sram /\ UNCHANGED <<wrong, lost, broken>>
  BY <1>0 DEF AllocFails, Return
<1>2. /\ b \in Objs /\ obj[b] \in Buffer /\ StageInv(op[t], obj[b]) /\ BufferInv(b)
      /\ obj \in [Objs -> Buffer] /\ TypeOK /\ CallInv /\ NoObj \notin Objs
  BY <1>0, <1>1, HasBuffer, GemAssumption DEF GInv, TypeOK
<1>3. Kept(b)
  <2>1. PICK f \in Range(Path(obj[b].mem, obj[b].kmap)), k \in MapCalls(obj[b]) :
           leaks' = leaks \cup (Acquired(obj[b], f, k) \ Unwind(obj[b].mem, f))
    BY <1>0 DEF AllocFails
  <2>2. Acquired(obj[b], f, k) \ Unwind(obj[b].mem, f)
           \subseteq IF Len(cache_sgt) > 1 THEN {"cache_blocks"} ELSE {}
    BY <1>2, <2>1, OnlyBlocksStay
  <2>3. leaks' \subseteq IF Len(cache_sgt) > 1 THEN {"cache_blocks"} ELSE {}
    BY <2>1, <2>2 DEF GInv, EverythingReleased
  <2>4. leaks' \subseteq Resources
    BY <2>3 DEF Resources
  <2>5. wrong' = {} /\ wrong' \subseteq Resources
    BY <1>1 DEF GInv, EverythingReleased
  <2>6. QED
    BY <1>1, <2>3, <2>4, <2>5 DEF Kept, EverythingReleased
<1>5. /\ op' \in [Threads -> Call] /\ CallInv' /\ op'[t] = Idle
      /\ \A u \in Threads \ {t} : op'[u] = op[u]
      /\ \A u \in Threads, d \in Objs \ {b} : op[u].b = d \/ op'[u].b = d => op'[u] = op[u]
  BY <1>0, <1>1, <1>2, CallType, OneCall
<1>6. \A u \in Threads : ~Creator(u, b)' /\ (op'[u].b = b => op'[u].pc \in Bare)
  <2>1. \A u \in Threads \ {t} : ~Creator(u, b)
    BY <1>0, <1>1, <1>2 DEF BufferInv, Creator
  <2>2. \A u \in Threads \ {t} : op[u].b = b => op[u].pc \in Bare
    BY <1>2, <2>1, Strangers
  <2>3. op'[t].b # b
    BY <1>2, <1>5, CallType
  <2>4. QED
    BY <1>5, <2>1, <2>2, <2>3 DEF Creator
<1>7. obj'[b] = Dead
  BY <1>1, <1>2
<1>8. BufferInv(b)'
  BY <1>2, <1>6, <1>7, Gone DEF Bare
<1>9. /\ Dead \in Buffer /\ Dead.sram = {} /\ Dead.csize <= Dead.size
      /\ Dead.nents <= Len(Dead.segs)
  BY BlankType
<1>10. QED
  BY <1>1, <1>2, <1>3, <1>5, <1>8, <1>9, OneBuffer

-----------------------------------------------------------------------------
(* References *)

\* w is o with other references.
SameMemory(w, o) ==
    /\ w.life = o.life /\ w.mem = o.mem /\ w.kmap = o.kmap /\ w.noncontig = o.noncontig
    /\ w.held = o.held /\ w.fellback = o.fellback /\ w.size = o.size /\ w.csize = o.csize
    /\ w.sram = o.sram /\ w.nents = o.nents /\ w.segs = o.segs

\* A buffer is released by its memory.
LEMMA SameReleased ==
  ASSUME NEW w, NEW o, SameMemory(w, o)
  PROVE  Released(w) = Released(o)
  BY DEF SameMemory, Released, FreeBuf, PutPages

\* A buffer that has its memory, or fell back to other memory than its flags said.
LEMMA Complete ==
  ASSUME GInv, NEW b \in Objs, obj[b].life = "live",
         \A t \in Threads : op[t].b = b => op[t].pc \notin {"sram", "alloc"}
  PROVE  obj[b].fellback \/ obj[b].held = Released(obj[b])
  BY DEF GInv, BufferInv

\* The references of a buffer change; its memory does not.
LEMMA RefsMove ==
  ASSUME GInv, NEW b \in Objs, obj[b].life = "live",
         \A t \in Threads : op[t].b = b => op[t].pc \notin {"sram", "alloc"},
         NEW w \in Buffer, SameMemory(w, obj[b]),
         obj' = [obj EXCEPT ![b] = w], op' \in [Threads -> Call], CallInv',
         \A u \in Threads, d \in Objs \ {b} : op[u].b = d \/ op'[u].b = d => op'[u] = op[u],
         NEW n \in Nat, \A t, u \in Threads : Creator(t, b)' /\ Creator(u, b)' => t = u,
         Made(b)' = n, w.refs + w.over = n + Uses(w), w.refs > 0, w.over > 0 => funcs_mmap,
         \A t \in Threads : op'[t].b = b => op'[t].pc \notin {"sram", "alloc", "handle"},
         UNCHANGED <<sram_free, leaks, wrong, lost>>,
         broken' = broken \/ broken' = broken \cup {b}
  PROVE  GInv'
<1>1. w.fellback \/ w.held = Released(w)
  <2>1. Released(w) = Released(obj[b])
    BY SameReleased
  <2>2. QED
    BY <2>1, Complete DEF SameMemory
<1>2. obj'[b] = w
  BY DEF GInv, TypeOK
<1>3. \A t \in Threads : op'[t].b = b => StageInv(op'[t], w)
  BY DEF StageInv
<1>4. w.life = "live" /\ w.sram = obj[b].sram
  BY DEF SameMemory
<1>5. BufferInv(b)'
  BY <1>1, <1>2, <1>3, <1>4, Lives
<1>6. w.csize <= w.size /\ w.nents <= Len(w.segs)
  BY DEF GInv, TypeOK, SameMemory
<1>7. Kept(b)
  BY GhostsSame
<1>8. QED
  BY <1>4, <1>5, <1>6, <1>7, OneBuffer

\* rknpu_gem_object_destroy() of a complete buffer; whoever created it is done with
\* it, unless the buffer is freed too early.
LEMMA Destroyed ==
  ASSUME GInv, NEW b \in Objs, obj[b].life = "live", NEW v, SameMemory(v, obj[b]), Destroy(b, v),
         \A t \in Threads : op[t].b = b => op[t].pc \notin {"sram", "alloc"},
         op' \in [Threads -> Call], CallInv',
         \A u \in Threads, d \in Objs \ {b} : op[u].b = d \/ op'[u].b = d => op'[u] = op[u],
         \A t \in Threads : op'[t].b = b => op'[t].pc \notin {"sram", "alloc", "handle"},
         \A t, u \in Threads : Creator(t, b)' /\ Creator(u, b)' => t = u,
         v.over > 0 \/ \A t \in Threads : ~Creator(t, b)'
  PROVE  GInv'
<1>1. /\ obj' = [obj EXCEPT ![b] = Dead] /\ obj \in [Objs -> Buffer]
      /\ broken' = IF v.over > 0 THEN broken \cup {b} ELSE broken
  BY DEF Destroy, GInv, TypeOK
<1>2. v.fellback \/ v.held = Released(v)
  BY Complete, SameReleased DEF SameMemory
<1>3. leaks' = leaks /\ wrong' = wrong
  BY <1>2 DEF Destroy
<1>4. \/ sram_free' = sram_free \cup obj[b].sram /\ lost' = lost
      \/ lost' = lost \cup obj[b].sram /\ sram_free' = sram_free
  BY DEF Destroy, SameMemory
<1>5. obj'[b] = Dead
  BY <1>1
<1>6. BufferInv(b)'
  BY <1>1, <1>5, Gone
<1>7. Kept(b)
  BY <1>1, <1>3, GhostsSame
<1>8. /\ Dead \in Buffer /\ Dead.sram = {} /\ Dead.csize <= Dead.size
      /\ Dead.nents <= Len(Dead.segs)
  BY BlankType
<1>9. QED
  BY <1>1, <1>4, <1>6, <1>7, <1>8, OneBuffer

\* The references to a buffer, counted.
LEMMA RefsCounted ==
  ASSUME GInv, NEW b \in Objs
  PROVE  /\ obj[b] \in Buffer /\ obj[b].refs \in Nat /\ obj[b].over \in Nat
         /\ Made(b) \in Nat /\ Uses(obj[b]) \in Nat
         /\ obj[b].life = "live" => obj[b].refs + obj[b].over = Made(b) + Uses(obj[b])
         /\ obj[b].life = "live" <=> obj[b].refs > 0
         /\ obj[b].over > 0 => funcs_mmap
<1>1. BufferInv(b) /\ obj[b] \in Buffer
  BY DEF GInv, TypeOK
<1>2. obj[b].refs \in Nat /\ obj[b].over \in Nat /\ obj[b].vmas \in Nat
  BY <1>1 DEF Buffer
<1>3. Made(b) \in Nat /\ Uses(obj[b]) \in Nat
  BY <1>2 DEF Made, Uses, Count
<1>4. QED
  BY <1>1, <1>2, <1>3 DEF BufferInv

\* rknpu_gem_object_put() of a buffer that is past its creation, with other changes
\* to its references.
LEMMA PutKeeps ==
  ASSUME GInv, NEW b \in Objs, obj[b].life = "live",
         \A t \in Threads : op[t].b = b => op[t].pc \notin {"sram", "alloc"},
         NEW v \in Buffer, SameMemory(v, obj[b]), v.refs = obj[b].refs, Put(b, v),
         v.over > 0 => funcs_mmap,
         op' \in [Threads -> Call], CallInv',
         \A u \in Threads, d \in Objs \ {b} : op[u].b = d \/ op'[u].b = d => op'[u] = op[u],
         \A t \in Threads : op'[t].b = b => op'[t].pc \notin {"sram", "alloc", "handle"},
         \A t, u \in Threads : Creator(t, b)' /\ Creator(u, b)' => t = u,
         NEW n \in Nat, Made(b)' = n, v.refs + v.over = n + Uses(v) + 1
  PROVE  GInv'
<1>1. obj[b].refs \in Nat /\ obj[b].refs > 0
  BY RefsCounted
<1>2. v.refs \in Nat /\ v.over \in Nat /\ Uses(v) \in Nat
  BY DEF Buffer, Uses, Count
<1>3. CASE v.refs > 1
  <2>1. PICK w : w = [v EXCEPT !.refs = v.refs - 1]
    OBVIOUS
  <2>2. w \in Buffer
    <3>1. v.refs - 1 \in Nat
      BY <1>2, <1>3
    <3>2. QED
      BY <2>1, <3>1 DEF Buffer
  <2>3. SameMemory(w, obj[b])
    BY <2>1 DEF Buffer, SameMemory
  <2>4. /\ w.handle = v.handle /\ w.exported = v.exported /\ w.vmas = v.vmas
        /\ w.refs = v.refs - 1 /\ w.over = v.over
    BY <2>1 DEF Buffer
  <2>5. Uses(w) = Uses(v)
    BY <2>4 DEF Uses, Count
  <2>6. w.refs + w.over = n + Uses(w) /\ w.refs > 0 /\ (w.over > 0 => funcs_mmap)
    BY <1>2, <1>3, <2>4, <2>5
  <2>7. obj' = [obj EXCEPT ![b] = w] /\ UNCHANGED <<sram_free, leaks, wrong, lost, broken>>
    BY <1>3, <2>1 DEF Put, ghosts
  <2>8. QED
    BY <2>2, <2>3, <2>6, <2>7, RefsMove
<1>4. CASE ~(v.refs > 1)
  <2>1. Destroy(b, v)
    BY <1>4 DEF Put
  <2>2. v.over > 0 \/ n = 0
    BY <1>1, <1>2, <1>4
  <2>3. n = 0 => \A t \in Threads : ~Creator(t, b)'
    BY DEF Made, Count
  <2>4. QED
    BY <2>1, <2>2, <2>3, Destroyed
<1>5. QED
  BY <1>3, <1>4

\* A buffer that is in use is past its creation.
LEMMA PastCreation ==
  ASSUME GInv, NEW b \in Objs, obj[b].handle \/ obj[b].exported \/ obj[b].vmas > 0,
         NEW t \in Threads, op[t].b = b
  PROVE  op[t].pc \notin {"sram", "alloc", "handle"}
<1>1. StageInv(op[t], obj[b])
  BY DEF GInv, BufferInv
<1>2. QED
  BY <1>1 DEF StageInv

\* The use of a buffer changes, while no call is concerned or one ends.
LEMMA OthersPut ==
  ASSUME GInv, NEW b \in Objs, obj[b].life = "live",
         obj[b].handle \/ obj[b].exported \/ obj[b].vmas > 0,
         NEW v \in Buffer, SameMemory(v, obj[b]), v.refs = obj[b].refs, Put(b, v),
         v.over > 0 => funcs_mmap,
         v.over + Uses(obj[b]) = obj[b].over + Uses(v) + 1,
         op' \in [Threads -> Call],
         \A u \in Threads : \/ op'[u] = op[u]
                            \/ op[u].b = b /\ op[u].pc \in Bare /\ op'[u] = Idle
  PROVE  GInv'
<1>0. NoObj \notin Objs /\ Idle.pc = "out" /\ Idle.b = NoObj
  BY GemAssumption, CallType
<1>1. \A u \in Threads : Creator(u, b)' <=> Creator(u, b)
  BY <1>0 DEF Creator, Bare
<1>2. CallInv'
  BY <1>0 DEF GInv, CallInv
<1>3. \A u \in Threads, d \in Objs \ {b} : op[u].b = d \/ op'[u].b = d => op'[u] = op[u]
  BY <1>0
<1>4. \A u \in Threads : op[u].b = b => op[u].pc \notin {"sram", "alloc", "handle"}
  BY PastCreation
<1>5. \A u \in Threads : op'[u].b = b => op'[u].pc \notin {"sram", "alloc", "handle"}
  BY <1>0, <1>4
<1>6. \A t, u \in Threads : Creator(t, b)' /\ Creator(u, b)' => t = u
  BY <1>1 DEF GInv, BufferInv
<1>7. PICK n : n = Made(b)
  OBVIOUS
<1>8. Made(b)' = n
  BY <1>1, <1>7 DEF Made, Count
<1>9. n \in Nat /\ v.refs + v.over = n + Uses(v) + 1
  <2>1. v.over \in Nat /\ Uses(v) \in Nat
    BY DEF Buffer, Uses, Count
  <2>2. QED
    BY <1>7, <2>1, RefsCounted
<1>10. QED
  BY <1>2, <1>3, <1>4, <1>5, <1>6, <1>8, <1>9, PutKeeps

\* A buffer gets one more use, and a reference for it.
LEMMA UseAdded ==
  ASSUME GInv, NEW b \in Objs, obj[b].life = "live",
         obj[b].handle \/ obj[b].exported \/ obj[b].vmas > 0,
         NEW w \in Buffer, SameMemory(w, obj[b]), w.refs = obj[b].refs + 1,
         w.over = obj[b].over, Uses(w) = Uses(obj[b]) + 1,
         obj' = [obj EXCEPT ![b] = w], UNCHANGED <<sram_free, leaks, wrong, lost>>,
         op' \in [Threads -> Call], \A u \in Threads : op'[u] = op[u],
         broken' = broken \/ broken' = broken \cup {b}
  PROVE  GInv'
<1>1. \A u \in Threads : Creator(u, b)' <=> Creator(u, b)
  BY DEF Creator
<1>2. CallInv'
  BY DEF GInv, CallInv
<1>3. \A u \in Threads : op[u].b = b => op[u].pc \notin {"sram", "alloc", "handle"}
  BY PastCreation
<1>4. \A t, u \in Threads : Creator(t, b)' /\ Creator(u, b)' => t = u
  BY <1>1 DEF GInv, BufferInv
<1>5. PICK n : n = Made(b)
  OBVIOUS
<1>6. Made(b)' = n
  BY <1>1, <1>5 DEF Made, Count
<1>7. /\ n \in Nat /\ w.refs + w.over = n + Uses(w) /\ w.refs > 0
      /\ w.over > 0 => funcs_mmap
  BY <1>5, RefsCounted
<1>8. \A u \in Threads : op[u].b = b => op[u].pc \notin {"sram", "alloc"}
  BY <1>3
<1>9. \A u \in Threads : op'[u].b = b => op'[u].pc \notin {"sram", "alloc", "handle"}
  BY <1>3
<1>10. \A u \in Threads, d \in Objs \ {b} : op[u].b = d \/ op'[u].b = d => op'[u] = op[u]
  OBVIOUS
<1>11. QED
  BY <1>2, <1>4, <1>6, <1>7, <1>8, <1>9, <1>10, RefsMove

\* drm_gem_handle_create(), or its failure.
LEMMA HandleCreatesKeeps ==
  ASSUME GInv, NEW t \in Threads, HandleCreates(t)
  PROVE  GInv'
<1>0. PICK b : b = op[t].b
  OBVIOUS
<1>1. op[t].pc = "handle"
  BY DEF HandleCreates
<1>2. /\ b \in Objs /\ obj[b] \in Buffer /\ StageInv(op[t], obj[b]) /\ BufferInv(b)
      /\ op[t] \in Call /\ obj \in [Objs -> Buffer] /\ op \in [Threads -> Call]
      /\ TypeOK /\ CallInv /\ NoObj \notin Objs
  BY <1>0, <1>1, HasBuffer, GemAssumption DEF GInv, TypeOK
<1>3. Creator(t, b) /\ \A u \in Threads : Creator(u, b) => u = t
  BY <1>0, <1>1, <1>2 DEF BufferInv, Creator
<1>4. ~obj[b].handle /\ ~obj[b].exported /\ obj[b].vmas = 0 /\ obj[b].over = 0
  BY <1>1, <1>2 DEF StageInv
<1>5. \A u \in Threads \ {t} : op[u].b = b => op[u].pc \in Bare
  BY <1>2, <1>3, Strangers
<1>6. \A u \in Threads : op[u].b = b => op[u].pc \notin {"sram", "alloc"}
  BY <1>1, <1>5 DEF Bare
<1>7. obj[b].refs = 1 /\ obj[b].life = "live"
  BY <1>1, <1>2, <1>3, OnlyCreator
<1>8. CASE /\ obj' = [obj EXCEPT ![b].handle = TRUE, ![b].refs = @ + 1]
           /\ Goto(t, "put") /\ UNCHANGED <<sram_free, leaks, wrong, lost, broken>>
  <2>1. PICK q : q = [op[t] EXCEPT !.pc = "put"]
    OBVIOUS
  <2>2. q \in Call /\ q.pc = "put" /\ q.b = b
    BY <1>0, <1>2, <2>1 DEF Call
  <2>3. op' = [op EXCEPT ![t] = q]
    BY <1>2, <1>8, <2>1 DEF Goto
  <2>4. /\ op' \in [Threads -> Call] /\ CallInv' /\ op'[t] = q
        /\ \A u \in Threads \ {t} : op'[u] = op[u]
        /\ \A u \in Threads, d \in Objs \ {b} : op[u].b = d \/ op'[u].b = d => op'[u] = op[u]
    BY <1>0, <1>2, <2>2, <2>3, OneCall
  <2>5. PICK w : w = [obj[b] EXCEPT !.handle = TRUE, !.refs = 2]
    OBVIOUS
  <2>6. w \in Buffer /\ SameMemory(w, obj[b])
    BY <1>2, <2>5 DEF Buffer, SameMemory
  <2>7. w.handle /\ ~w.exported /\ w.vmas = 0 /\ w.over = 0 /\ w.refs = 2
    BY <1>2, <1>4, <2>5 DEF Buffer
  <2>8. obj' = [obj EXCEPT ![b] = w]
    <3>1. obj' = [obj EXCEPT ![b].handle = TRUE, ![b].refs = @ + 1] /\ obj[b].refs + 1 = 2
      BY <1>7, <1>8
    <3>2. w = [obj[b] EXCEPT !.handle = TRUE, !.refs = @ + 1]
      BY <1>2, <2>5, <3>1 DEF Buffer
    <3>3. QED
      BY <1>2, <3>1, <3>2 DEF Buffer
  <2>9. \A u \in Threads : Creator(u, b)' <=> u = t
    BY <1>3, <2>2, <2>4 DEF Creator
  <2>10. \A u, v \in Threads : Creator(u, b)' /\ Creator(v, b)' => u = v
    BY <2>9
  <2>11. Made(b)' = 1 /\ Uses(w) = 1 /\ 1 \in Nat
    BY <2>7, <2>9 DEF Made, Uses, Count
  <2>12. w.refs + w.over = 1 + Uses(w) /\ w.refs > 0 /\ ~(w.over > 0)
    BY <2>7, <2>11
  <2>13. \A u \in Threads : op'[u].b = b => op'[u].pc \notin {"sram", "alloc", "handle"}
    BY <1>5, <2>2, <2>4 DEF Bare
  <2>14. UNCHANGED <<sram_free, leaks, wrong, lost, broken>>
    BY <1>8
  <2>15. QED
    BY <1>2, <1>6, <1>7, <2>4, <2>6, <2>8, <2>10, <2>11, <2>12, <2>13, <2>14, RefsMove
<1>9. CASE Destroy(b, obj[b]) /\ Return(t)
  <2>1. op' = [op EXCEPT ![t] = Idle]
    BY <1>9 DEF Return
  <2>2. /\ op' \in [Threads -> Call] /\ CallInv' /\ op'[t] = Idle
        /\ \A u \in Threads \ {t} : op'[u] = op[u]
        /\ \A u \in Threads, d \in Objs \ {b} : op[u].b = d \/ op'[u].b = d => op'[u] = op[u]
    BY <1>0, <1>2, <2>1, CallType, OneCall
  <2>3. \A u \in Threads : op'[u].b = b => op'[u].pc \in Bare
    BY <1>2, <1>5, <2>2, CallType
  <2>4. \A u \in Threads : op'[u].b = b => op'[u].pc \notin {"sram", "alloc", "handle"}
    BY <2>3 DEF Bare
  <2>5. \A u \in Threads : ~Creator(u, b)'
    BY <2>3 DEF Creator, Bare
  <2>6. SameMemory(obj[b], obj[b])
    BY DEF SameMemory
  <2>7. QED
    BY <1>2, <1>6, <1>7, <1>9, <2>2, <2>4, <2>5, <2>6, Destroyed
<1>10. QED
  BY <1>0, <1>8, <1>9 DEF HandleCreates, ghosts

\* "drop reference from allocate - handle holds it now."
LEMMA CreatorPutsKeeps ==
  ASSUME GInv, NEW t \in Threads, CreatorPuts(t)
  PROVE  GInv'
<1>0. PICK b : b = op[t].b
  OBVIOUS
<1>1. /\ op[t].pc = "put" /\ Goto(t, "fill")
      /\ IF obj[b].life = "live" THEN Put(b, obj[b]) ELSE UNCHANGED <<obj, sram_free, ghosts>>
  BY <1>0 DEF CreatorPuts
<1>2. /\ b \in Objs /\ obj[b] \in Buffer /\ BufferInv(b)
      /\ op[t] \in Call /\ obj \in [Objs -> Buffer] /\ op \in [Threads -> Call]
      /\ TypeOK /\ CallInv /\ NoObj \notin Objs
  BY <1>0, <1>1, HasBuffer, GemAssumption DEF GInv, TypeOK
<1>3. Creator(t, b) /\ \A u \in Threads : Creator(u, b) => u = t
  BY <1>0, <1>1, <1>2 DEF BufferInv, Creator
<1>4. \A u \in Threads \ {t} : op[u].b = b => op[u].pc \in Bare
  BY <1>2, <1>3, Strangers
<1>5. \A u \in Threads : op[u].b = b => op[u].pc \notin {"sram", "alloc"}
  BY <1>1, <1>4 DEF Bare
<1>6. PICK q : q = [op[t] EXCEPT !.pc = "fill"]
  OBVIOUS
<1>7. q \in Call /\ q.pc = "fill" /\ q.b = b
  BY <1>0, <1>2, <1>6 DEF Call, Bare
<1>8. op' = [op EXCEPT ![t] = q]
  BY <1>1, <1>2, <1>6 DEF Goto
<1>9. /\ op' \in [Threads -> Call] /\ CallInv' /\ op'[t] = q
      /\ \A u \in Threads \ {t} : op'[u] = op[u]
      /\ \A u \in Threads, d \in Objs \ {b} : op[u].b = d \/ op'[u].b = d => op'[u] = op[u]
  BY <1>0, <1>2, <1>7, <1>8, OneCall
<1>10. \A u \in Threads : op'[u].b = b => op'[u].pc \in Bare
  BY <1>4, <1>7, <1>9 DEF Bare
<1>11. /\ \A u \in Threads : ~Creator(u, b)'
       /\ \A u \in Threads : op'[u].b = b => op'[u].pc \notin {"sram", "alloc", "handle"}
  BY <1>10 DEF Creator, Bare
<1>12. Made(b) = 1 /\ Made(b)' = 0 /\ 0 \in Nat
  BY <1>3, <1>11 DEF Made, Count
<1>13. CASE obj[b].life = "live"
  <2>1. Put(b, obj[b]) /\ SameMemory(obj[b], obj[b])
    BY <1>1, <1>13 DEF SameMemory
  <2>2. /\ obj[b].refs + obj[b].over = 0 + Uses(obj[b]) + 1
        /\ obj[b].over > 0 => funcs_mmap
    BY <1>2, <1>12, <1>13, RefsCounted
  <2>3. QED
    BY <1>2, <1>5, <1>9, <1>11, <1>12, <1>13, <2>1, <2>2, PutKeeps
<1>14. CASE obj[b].life # "live"
  <2>1. UNCHANGED <<obj, sram_free, leaks, wrong, lost, broken>>
    BY <1>1, <1>14 DEF ghosts
  <2>2. obj[b].life = "dead"
    BY <1>2, <1>3, <1>14, Unseen DEF Buffer
  <2>3. obj[b] = Dead /\ obj'[b] = Dead
    BY <1>2, <2>1, <2>2 DEF BufferInv
  <2>4. BufferInv(b)'
    BY <1>2, <1>11, <2>3, Gone
  <2>5. Kept(b)
    BY <1>2, <2>1, GhostsSame
  <2>6. /\ obj' = [obj EXCEPT ![b] = obj[b]] /\ obj[b].csize <= obj[b].size
        /\ obj[b].nents <= Len(obj[b].segs)
    BY <1>2, <2>1 DEF TypeOK
  <2>7. QED
    BY <1>2, <1>9, <2>1, <2>4, <2>5, <2>6, OneBuffer
<1>15. QED
  BY <1>13, <1>14

\* A buffer that was imported, with its handle.
Imported ==
    [Blank EXCEPT !.life = "live", !.mem = "import", !.size = 1, !.refs = 1,
                  !.held = {"object", "page_array", "attach"}, !.handle = TRUE]

\* rknpu_gem_prime_import_sg_table(), or its failure.
LEMMA ImportsKeeps ==
  ASSUME GInv, NEW t \in Threads, Imports(t)
  PROVE  GInv'
<1>1. PICK b \in Objs :
         /\ obj[b].life = "unborn"
         /\ obj' = [obj EXCEPT ![b] = Dead] \/ obj' = [obj EXCEPT ![b] = Imported]
  BY DEF Imports, Imported
<1>2. UNCHANGED <<op, sram_free, ghosts>>
  BY DEF Imports
<1>3. CASE obj' = [obj EXCEPT ![b] = Dead]
  BY <1>1, <1>2, <1>3, Stillborn
<1>4. CASE obj' = [obj EXCEPT ![b] = Imported]
  <2>1. Imported \in Buffer
    BY BlankType DEF Imported, Buffer, Resources
  <2>2. /\ Imported.life = "live" /\ Imported.mem = "import" /\ Imported.size = 1
        /\ Imported.refs = 1 /\ Imported.held = {"object", "page_array", "attach"}
        /\ Imported.handle = TRUE /\ Imported.vmas = 0 /\ Imported.csize = 0
        /\ Imported.sram = {} /\ Imported.nents = 0 /\ Imported.segs = <<>>
        /\ ~Imported.exported /\ Imported.over = 0
    BY DEF Imported, Blank
  <2>3. Imported.held = Released(Imported)
    BY <2>2 DEF Released
  <2>4. /\ obj \in [Objs -> Buffer] /\ op' \in [Threads -> Call] /\ CallInv'
        /\ UNCHANGED <<leaks, wrong, lost, broken>>
    BY <1>2 DEF GInv, TypeOK, CallInv, ghosts
  <2>5. /\ obj[b].sram = {} /\ \A u \in Threads : ~Creator(u, b)
        /\ \A u \in Threads : op[u].b = b => op[u].pc \in Bare
    BY <1>1, Unseen
  <2>6. obj'[b] = Imported
    BY <1>4, <2>4
  <2>7. \A u \in Threads : ~Creator(u, b)'
    BY <1>2, <2>5 DEF Creator
  <2>8. Made(b)' = 0 /\ Uses(Imported) = 1
    BY <2>2, <2>7 DEF Made, Uses, Count
  <2>9. \A u \in Threads : op'[u].b = b => StageInv(op'[u], Imported)
    BY <1>2, <2>5 DEF StageInv, Bare
  <2>10. /\ Imported.refs + Imported.over = 0 + Uses(Imported) /\ Imported.refs > 0
         /\ ~(Imported.over > 0)
    BY <2>2, <2>8
  <2>11. BufferInv(b)'
    <3>1. \A u, v \in Threads : Creator(u, b)' /\ Creator(v, b)' => u = v
      BY <2>7
    <3>2. 0 \in Nat
      OBVIOUS
    <3>3. QED
      BY <2>1, <2>2, <2>3, <2>6, <2>8, <2>9, <2>10, <3>1, <3>2, Lives
  <2>12. Kept(b)
    BY <2>4, GhostsSame
  <2>13. Imported.csize <= Imported.size /\ Imported.nents <= Len(Imported.segs)
    BY <2>2
  <2>14. QED
    BY <1>2, <1>4, <2>1, <2>2, <2>4, <2>5, <2>11, <2>12, <2>13, OneBuffer
<1>5. QED
  BY <1>1, <1>3, <1>4

\* drm_gem_handle_delete(), from the destroy call and from closing the handle or the
\* file.
LEMMA DeletesKeeps ==
  ASSUME GInv, NEW b \in Objs, Sound(b), obj[b].handle, Deletes(b), op' \in [Threads -> Call],
         \A u \in Threads : \/ op'[u] = op[u]
                            \/ op[u].b = b /\ op[u].pc \in Bare /\ op'[u] = Idle
  PROVE  GInv'
<1>1. obj[b] \in Buffer /\ obj[b].life = "live" /\ (obj[b].over > 0 => funcs_mmap)
  BY RefsCounted DEF Sound
<1>2. PICK v : v = [obj[b] EXCEPT !.handle = FALSE]
  OBVIOUS
<1>3. v \in Buffer /\ SameMemory(v, obj[b])
  BY <1>1, <1>2 DEF Buffer, SameMemory
<1>4. /\ ~v.handle /\ v.exported = obj[b].exported /\ v.vmas = obj[b].vmas
      /\ v.refs = obj[b].refs /\ v.over = obj[b].over
      /\ v.over \in Nat /\ v.vmas \in Nat
  BY <1>1, <1>2 DEF Buffer
<1>5. v.over + Uses(obj[b]) = obj[b].over + Uses(v) + 1
  BY <1>4 DEF Uses, Count
<1>6. Put(b, v)
  BY <1>2 DEF Deletes
<1>7. QED
  BY <1>1, <1>3, <1>4, <1>5, <1>6, OthersPut

\* The two callers of drm_gem_handle_delete().
LEMMA DeletionsKeep ==
  ASSUME GInv, HandleCloses \/ \E t \in Threads : DestroyDeletes(t)
  PROVE  GInv'
<1>0. op \in [Threads -> Call]
  BY DEF GInv, TypeOK
<1>1. CASE HandleCloses
  BY <1>0, <1>1, DeletesKeeps DEF HandleCloses
<1>2. ASSUME NEW t \in Threads, DestroyDeletes(t)
      PROVE  GInv'
  <2>1. op[t].pc = "delete" /\ op' = [op EXCEPT ![t] = Idle]
    BY <1>2 DEF DestroyDeletes, Return
  <2>2. PICK b \in Objs : b = op[t].b
    BY <2>1, HasBuffer
  <2>3. CASE Sound(b) /\ obj[b].handle
    <3>1. Deletes(b)
      BY <1>2, <2>2, <2>3 DEF DestroyDeletes
    <3>2. op' \in [Threads -> Call] /\ op'[t] = Idle /\ \A u \in Threads \ {t} : op'[u] = op[u]
      BY <1>0, <2>1, CallType
    <3>3. \A u \in Threads : \/ op'[u] = op[u]
                             \/ op[u].b = b /\ op[u].pc \in Bare /\ op'[u] = Idle
      BY <2>1, <2>2, <3>2 DEF Bare
    <3>4. QED
      BY <2>3, <3>1, <3>2, <3>3, DeletesKeeps
  <2>4. CASE ~(Sound(b) /\ obj[b].handle)
    <3>1. UNCHANGED <<obj, sram_free, ghosts>>
      BY <1>2, <2>2, <2>4 DEF DestroyDeletes
    <3>2. QED
      BY <2>1, <2>2, <3>1, CallType, PointerMoves DEF Bare
  <2>5. QED
    BY <2>3, <2>4
<1>3. QED
  BY <1>1, <1>2

\* drm_gem_prime_export(), and the import of the buffer's own dma-buf.
LEMMA SharesKeep ==
  ASSUME GInv, Exports \/ ExportReopens
  PROVE  GInv'
<1>0. /\ obj \in [Objs -> Buffer] /\ op' \in [Threads -> Call]
      /\ \A u \in Threads : op'[u] = op[u]
      /\ UNCHANGED <<sram_free, leaks, wrong, lost, broken>>
  BY DEF GInv, TypeOK, Exports, ExportReopens, ghosts
<1>1. PICK b \in Objs :
         /\ Sound(b)
         /\ \/ /\ obj[b].handle /\ ~obj[b].exported
               /\ obj' = [obj EXCEPT ![b].exported = TRUE, ![b].refs = @ + 1]
            \/ /\ obj[b].exported /\ ~obj[b].handle
               /\ obj' = [obj EXCEPT ![b].handle = TRUE, ![b].refs = @ + 1]
  BY DEF Exports, ExportReopens
<1>2. obj[b] \in Buffer /\ obj[b].life = "live" /\ obj[b].refs \in Nat /\ obj[b].vmas \in Nat
  BY <1>0, <1>1 DEF Sound, Buffer
<1>3. PICK w : w = [obj[b] EXCEPT !.handle = TRUE, !.exported = TRUE, !.refs = obj[b].refs + 1]
  OBVIOUS
<1>4. w \in Buffer /\ SameMemory(w, obj[b])
  <2>1. obj[b].refs + 1 \in Nat
    BY <1>2
  <2>2. w \in Buffer
    BY <1>2, <1>3, <2>1 DEF Buffer
  <2>3. QED
    BY <1>2, <1>3, <2>2 DEF Buffer, SameMemory
<1>5. /\ w.handle /\ w.exported /\ w.vmas = obj[b].vmas /\ w.refs = obj[b].refs + 1
      /\ w.over = obj[b].over
  BY <1>2, <1>3 DEF Buffer
<1>6. Uses(w) = Uses(obj[b]) + 1
  BY <1>1, <1>2, <1>5 DEF Uses, Count
<1>7. obj' = [obj EXCEPT ![b] = w]
  <2>1. CASE obj[b].handle /\ ~obj[b].exported
    <3>1. obj' = [obj EXCEPT ![b].exported = TRUE, ![b].refs = @ + 1]
      BY <1>1, <2>1
    <3>2. w = [obj[b] EXCEPT !.exported = TRUE, !.refs = @ + 1]
      BY <1>2, <1>3, <2>1 DEF Buffer
    <3>3. QED
      BY <1>0, <1>2, <3>1, <3>2 DEF Buffer
  <2>2. CASE obj[b].exported /\ ~obj[b].handle
    <3>1. obj' = [obj EXCEPT ![b].handle = TRUE, ![b].refs = @ + 1]
      BY <1>1, <2>2
    <3>2. w = [obj[b] EXCEPT !.handle = TRUE, !.refs = @ + 1]
      BY <1>2, <1>3, <2>2 DEF Buffer
    <3>3. QED
      BY <1>0, <1>2, <3>1, <3>2 DEF Buffer
  <2>3. QED
    BY <1>1, <2>1, <2>2
<1>8. QED
  BY <1>0, <1>1, <1>2, <1>4, <1>5, <1>6, <1>7, UseAdded

\* The dma-buf is closed.
LEMMA ExportReleasesKeeps ==
  ASSUME GInv, ExportReleases
  PROVE  GInv'
<1>0. op \in [Threads -> Call] /\ op' = op
  BY DEF GInv, TypeOK, ExportReleases
<1>1. PICK b \in Objs : /\ Sound(b) /\ obj[b].exported
                        /\ Put(b, [obj[b] EXCEPT !.exported = FALSE])
  BY DEF ExportReleases
<1>2. obj[b] \in Buffer /\ obj[b].life = "live" /\ (obj[b].over > 0 => funcs_mmap)
  BY <1>1, RefsCounted DEF Sound
<1>3. PICK v : v = [obj[b] EXCEPT !.exported = FALSE]
  OBVIOUS
<1>4. v \in Buffer /\ SameMemory(v, obj[b])
  BY <1>2, <1>3 DEF Buffer, SameMemory
<1>5. /\ ~v.exported /\ v.handle = obj[b].handle /\ v.vmas = obj[b].vmas
      /\ v.refs = obj[b].refs /\ v.over = obj[b].over
      /\ v.over \in Nat /\ v.vmas \in Nat
  BY <1>2, <1>3 DEF Buffer
<1>6. v.over + Uses(obj[b]) = obj[b].over + Uses(v) + 1
  BY <1>1, <1>5 DEF Uses, Count
<1>7. Put(b, v)
  BY <1>1, <1>3
<1>8. QED
  BY <1>0, <1>1, <1>2, <1>4, <1>5, <1>6, <1>7, OthersPut

\* rknpu_gem_mmap_obj(): a mapping comes with a reference.
LEMMA MmapsKeeps ==
  ASSUME GInv, Mmaps
  PROVE  GInv'
<1>0. /\ obj \in [Objs -> Buffer] /\ op' \in [Threads -> Call]
      /\ \A u \in Threads : op'[u] = op[u]
      /\ UNCHANGED <<sram_free, leaks, wrong, lost>>
  BY DEF GInv, TypeOK, Mmaps
<1>1. PICK b \in Objs :
         /\ Sound(b) /\ (obj[b].handle \/ obj[b].exported)
         /\ broken' = broken \/ broken' = broken \cup {b}
         /\ obj' = [obj EXCEPT ![b].vmas = @ + 1, ![b].refs = @ + 1]
  BY DEF Mmaps
<1>2. /\ obj[b] \in Buffer /\ obj[b].life = "live"
      /\ obj[b].vmas \in Nat /\ obj[b].refs \in Nat
      /\ obj[b].vmas + 1 \in Nat /\ obj[b].refs + 1 \in Nat
  BY <1>0, <1>1 DEF Sound, Buffer
<1>3. PICK w : w = [obj[b] EXCEPT !.vmas = obj[b].vmas + 1, !.refs = obj[b].refs + 1]
  OBVIOUS
<1>4. w \in Buffer /\ SameMemory(w, obj[b])
  BY <1>2, <1>3 DEF Buffer, SameMemory
<1>5. /\ w.handle = obj[b].handle /\ w.exported = obj[b].exported
      /\ w.vmas = obj[b].vmas + 1 /\ w.refs = obj[b].refs + 1 /\ w.over = obj[b].over
  BY <1>2, <1>3 DEF Buffer
<1>6. Uses(w) = Uses(obj[b]) + 1
  BY <1>2, <1>5 DEF Uses, Count
<1>7. obj' = [obj EXCEPT ![b] = w]
  BY <1>0, <1>1, <1>2, <1>3 DEF Buffer
<1>8. QED
  BY <1>0, <1>1, <1>2, <1>4, <1>5, <1>6, <1>7, UseAdded

\* An mmap that fails, where DRM drops the reference a second time.
LEMMA MmapFailsKeeps ==
  ASSUME GInv, MmapFails
  PROVE  GInv'
<1>0. op \in [Threads -> Call] /\ op' = op
  BY DEF GInv, TypeOK, MmapFails
<1>1. CASE ~funcs_mmap
  <2>1. UNCHANGED <<obj, op, sram_free, leaks, wrong, lost, broken>>
    BY <1>0, <1>1 DEF MmapFails, ghosts
  <2>2. \A b \in Objs : BufferInv(b)'
    BY <2>1, BufferSame DEF GInv
  <2>3. TypeOK' /\ CallInv' /\ SramConserved' /\ EverythingReleased'
    BY <2>1 DEF GInv, TypeOK, CallInv, SramConserved, EverythingReleased
  <2>4. QED
    BY <2>2, <2>3 DEF GInv
<1>2. CASE funcs_mmap
  <2>1. PICK b \in Objs : /\ Sound(b) /\ (obj[b].handle \/ obj[b].exported)
                          /\ Put(b, [obj[b] EXCEPT !.over = obj[b].over + 1])
    BY <1>2 DEF MmapFails
  <2>2. obj[b] \in Buffer /\ obj[b].life = "live" /\ obj[b].over + 1 \in Nat
    BY <2>1, RefsCounted DEF Sound
  <2>3. PICK v : v = [obj[b] EXCEPT !.over = obj[b].over + 1]
    OBVIOUS
  <2>4. v \in Buffer /\ SameMemory(v, obj[b])
    BY <2>2, <2>3 DEF Buffer, SameMemory
  <2>5. /\ v.handle = obj[b].handle /\ v.exported = obj[b].exported /\ v.vmas = obj[b].vmas
        /\ v.refs = obj[b].refs /\ v.over = obj[b].over + 1 /\ obj[b].over \in Nat
        /\ v.vmas \in Nat
    BY <2>2, <2>3 DEF Buffer
  <2>6. v.over + Uses(obj[b]) = obj[b].over + Uses(v) + 1
    BY <2>5 DEF Uses, Count
  <2>7. Put(b, v)
    BY <2>1, <2>3
  <2>8. QED
    BY <1>0, <1>2, <2>1, <2>2, <2>4, <2>5, <2>6, <2>7, OthersPut
<1>3. QED
  BY <1>1, <1>2

\* drm_gem_vm_close().
LEMMA MunmapsKeeps ==
  ASSUME GInv, Munmaps
  PROVE  GInv'
<1>0. op \in [Threads -> Call] /\ op' = op
  BY DEF GInv, TypeOK, Munmaps
<1>1. PICK b \in Objs : /\ Sound(b) /\ obj[b].vmas > 0
                        /\ Put(b, [obj[b] EXCEPT !.vmas = obj[b].vmas - 1])
  BY DEF Munmaps
<1>2. /\ obj[b] \in Buffer /\ obj[b].life = "live" /\ (obj[b].over > 0 => funcs_mmap)
  BY <1>1, RefsCounted DEF Sound
<1>3. obj[b].vmas \in Nat /\ obj[b].vmas - 1 \in Nat
  BY <1>1, <1>2 DEF Buffer
<1>4. PICK v : v = [obj[b] EXCEPT !.vmas = obj[b].vmas - 1]
  OBVIOUS
<1>5. v \in Buffer /\ SameMemory(v, obj[b])
  BY <1>2, <1>3, <1>4 DEF Buffer, SameMemory
<1>6. /\ v.handle = obj[b].handle /\ v.exported = obj[b].exported
      /\ v.vmas = obj[b].vmas - 1 /\ v.refs = obj[b].refs /\ v.over = obj[b].over
      /\ v.over \in Nat
  BY <1>2, <1>4 DEF Buffer
<1>7. v.over + Uses(obj[b]) = obj[b].over + Uses(v) + 1
  BY <1>3, <1>6 DEF Uses, Count
<1>8. Put(b, v)
  BY <1>1, <1>4
<1>9. QED
  BY <1>0, <1>1, <1>2, <1>5, <1>6, <1>7, <1>8, OthersPut

-----------------------------------------------------------------------------
(* The theorems *)

\* rknpu_probe() leaves no buffer and a free SRAM.
LEMMA GemInit ==
  ASSUME Init
  PROVE  GInv
<1>1. /\ obj \in [Objs -> Buffer] /\ \A b \in Objs : obj[b] = Blank
      /\ op \in [Threads -> Call] /\ \A t \in Threads : op[t] = Idle
  BY BlankType, CallType DEF Init
<1>2. \A b \in Objs : obj[b].csize <= obj[b].size /\ obj[b].nents <= Len(obj[b].segs)
  BY <1>1, BlankType
<1>3. TypeOK
  BY <1>1, <1>2 DEF Init, TypeOK
<1>4. CallInv
  BY <1>1, CallType DEF CallInv
<1>5. SramConserved
  <2>1. \A b \in Objs : obj[b].sram = {}
    BY <1>1, BlankType
  <2>2. QED
    BY <2>1 DEF Init, SramConserved
<1>6. EverythingReleased
  BY DEF Init, EverythingReleased
<1>7. ASSUME NEW b \in Objs
      PROVE  BufferInv(b)
  <2>1. \A t \in Threads : op[t].b # b /\ ~Creator(t, b)
    BY <1>1, CallType, GemAssumption DEF Creator
  <2>2. Made(b) = 0 /\ Uses(Blank) = 0
    BY <2>1, BlankType DEF Made, Uses, Count
  <2>3. obj[b] = Blank /\ b \notin broken
    BY <1>1 DEF Init
  <2>4. QED
    BY <2>1, <2>2, <2>3, BlankType DEF BufferInv
<1>8. QED
  BY <1>3, <1>4, <1>5, <1>6, <1>7 DEF GInv

\* Every step keeps the invariant.
LEMMA GemStep ==
  ASSUME GInv, [Next]_vars
  PROVE  GInv'
<1>1. CASE UNCHANGED vars
  <2>1. UNCHANGED <<obj, op, sram_free, leaks, wrong, lost, broken>>
    BY <1>1 DEF vars
  <2>2. \A b \in Objs : BufferInv(b)'
    BY <2>1, BufferSame DEF GInv
  <2>3. TypeOK' /\ CallInv' /\ SramConserved' /\ EverythingReleased'
    BY <2>1 DEF GInv, TypeOK, CallInv, SramConserved, EverythingReleased
  <2>4. QED
    BY <2>2, <2>3 DEF GInv
<1>2. ASSUME NEW t \in Threads, CreateStarts(t)
      PROVE  GInv'
  BY <1>2, CreateStartsKeeps
<1>3. ASSUME NEW t \in Threads, SramAllocs(t)
      PROVE  GInv'
  BY <1>3, SramAllocsKeeps
<1>4. ASSUME NEW t \in Threads, Allocs(t)
      PROVE  GInv'
  BY <1>4, AllocsKeeps
<1>5. ASSUME NEW t \in Threads, AllocFails(t)
      PROVE  GInv'
  BY <1>5, AllocFailsKeeps
<1>6. ASSUME NEW t \in Threads, HandleCreates(t)
      PROVE  GInv'
  BY <1>6, HandleCreatesKeeps
<1>7. ASSUME NEW t \in Threads, CreatorPuts(t)
      PROVE  GInv'
  BY <1>7, CreatorPutsKeeps
<1>8. ASSUME NEW t \in Threads, Imports(t)
      PROVE  GInv'
  BY <1>8, ImportsKeeps
<1>9. ASSUME NEW t \in Threads,
             \/ Fills(t) \/ Syncs(t) \/ CreateFinds(t) \/ DestroyFinds(t) \/ SyncCasts(t)
             \/ DestroySwitches(t)
      PROVE  GInv'
  BY <1>9, PointersKeep
<1>10. ASSUME NEW t \in Threads, DestroyDeletes(t)
       PROVE  GInv'
  BY <1>10, DeletionsKeep
<1>11. CASE HandleCloses
  BY <1>11, DeletionsKeep
<1>12. CASE Exports \/ ExportReopens
  BY <1>12, SharesKeep
<1>13. CASE ExportReleases
  BY <1>13, ExportReleasesKeeps
<1>14. CASE Mmaps
  BY <1>14, MmapsKeeps
<1>15. CASE MmapFails
  BY <1>15, MmapFailsKeeps
<1>16. CASE Munmaps
  BY <1>16, MunmapsKeeps
<1>17. QED
  BY <1>1, <1>2, <1>3, <1>4, <1>5, <1>6, <1>7, <1>8, <1>9, <1>10, <1>11, <1>12, <1>13,
     <1>14, <1>15, <1>16 DEF Next

\* The invariant holds throughout.
LEMMA GemInvariant == Spec => []GInv
<1>1. Init => GInv
  BY GemInit
<1>2. GInv /\ [Next]_vars => GInv'
  BY GemStep
<1>3. QED
  BY <1>1, <1>2, PTL DEF Spec

\* Every buffer stays within its type: the cache part is no larger than the buffer,
\* and no more segments are mapped than there are (rknpu_gem.c:473-702, 704-900).
THEOREM TypeCorrect == Spec => []TypeOK
<1>1. GInv => TypeOK
  BY DEF GInv
<1>2. QED
  BY <1>1, GemInvariant, PTL

\* No chunk of the SRAM is ever lost or given to two buffers, whatever creation
\* fails and however stale the free size it was computed from; only a destruction
\* whose domain is out of reach loses its chunks (rknpu_gem.c:746-784, 834-845,
\* 873-900).
THEOREM SramIsConserved == Spec => []SramConserved
<1>1. GInv => SramConserved
  BY DEF GInv
<1>2. QED
  BY <1>1, GemInvariant, PTL

\* An acquisition path that fails at any step is unwound, and a buffer's end
\* releases exactly what its beginning acquired, unless it fell back to scattered
\* memory or its domain is out of reach; all that a failed path ever leaves behind
\* are mapped blocks of a cache part, and only where the core has several
\* (rknpu_gem.c:34-326, 424-702, 704-900).
THEOREM ResourcesBalance == Spec => []EverythingReleased
<1>1. GInv => EverythingReleased
  BY DEF GInv
<1>2. QED
  BY <1>1, GemInvariant, PTL

\* The creators of a buffer are none or one.
LEMMA CreatorsCounted ==
  ASSUME GInv, NEW b \in Objs
  PROVE  Cardinality(Creators(b)) = Made(b)
<1>1. \A t \in Threads : t \in Creators(b) <=> Creator(t, b)
  BY DEF Creators, Creator
<1>2. \A t \in Creators(b) : t \in Threads
  BY DEF Creators
<1>3. CASE \E t \in Threads : Creator(t, b)
  <2>1. PICK t \in Threads : Creator(t, b)
    BY <1>3
  <2>2. \A u \in Threads : Creator(u, b) => u = t
    BY <2>1 DEF GInv, BufferInv
  <2>3. Creators(b) = {t}
    BY <1>1, <1>2, <2>1, <2>2
  <2>4. Cardinality({t}) = 1
    BY FS_Singleton
  <2>5. QED
    BY <1>3, <2>3, <2>4 DEF Made, Count
<1>4. CASE ~\E t \in Threads : Creator(t, b)
  <2>1. Creators(b) = {}
    BY <1>1, <1>2, <1>4
  <2>2. Cardinality({}) = 0
    BY FS_EmptySet
  <2>3. QED
    BY <1>4, <2>1, <2>2 DEF Made, Count
<1>5. QED
  BY <1>3, <1>4

\* The reference count of every buffer is its creator, its handle, its dma-buf and
\* its mappings, less the references that failed mmaps have dropped; the buffer
\* lives exactly as long as this is above zero, in every order of create, destroy,
\* close, export, import, mmap and munmap, and only where DRM calls the driver's
\* mmap is anything dropped that way (rknpu_gem.c:328-347, 364, 902-979, 1386-1434).
THEOREM RefsAreExact == Spec => []RefsExact
<1>1. GInv => RefsExact
  <2>1. ASSUME GInv, NEW b \in Objs
        PROVE  /\ obj[b].life = "live" \/ b \notin broken =>
                     obj[b].refs + obj[b].over =
                        Cardinality(Creators(b)) + Count(obj[b].handle)
                        + Count(obj[b].exported) + obj[b].vmas
               /\ obj[b].life = "live" <=> obj[b].refs > 0
               /\ obj[b].over > 0 => funcs_mmap
    <3>1. obj[b].life = "live" \/ b \notin broken =>
             obj[b].refs + obj[b].over = Made(b) + Uses(obj[b])
      BY <2>1 DEF GInv, BufferInv
    <3>2. /\ obj[b].life = "live" <=> obj[b].refs > 0
          /\ obj[b].over > 0 => funcs_mmap
      BY <2>1 DEF GInv, BufferInv
    <3>3. Cardinality(Creators(b)) = Made(b)
      BY <2>1, CreatorsCounted
    <3>4. PICK h \in Nat, e \in Nat, m \in Nat :
             h = Count(obj[b].handle) /\ e = Count(obj[b].exported) /\ m = Made(b)
      BY DEF Count, Made
    <3>5. obj[b].vmas \in Nat
      BY <2>1 DEF GInv, TypeOK, Buffer
    <3>6. Made(b) + Uses(obj[b]) =
             Made(b) + Count(obj[b].handle) + Count(obj[b].exported) + obj[b].vmas
      BY <3>4, <3>5 DEF Uses
    <3>7. Made(b) + Uses(obj[b]) =
             Cardinality(Creators(b)) + Count(obj[b].handle) + Count(obj[b].exported)
             + obj[b].vmas
      BY <3>3, <3>6, Zenon
    <3>8. QED
      BY <3>1, <3>2, <3>7, Zenon
  <2>2. QED
    BY <2>1 DEF RefsExact
<1>2. QED
  BY <1>1, GemInvariant, PTL
=============================================================================
