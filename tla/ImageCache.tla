----------------------------- MODULE ImageCache -----------------------------
(***************************************************************************)
(* The image cache (grocy_image_cache.c) between its two users: the Grocy  *)
(* task on core 0 fills it, product by product, before it publishes a      *)
(* list; the LVGL task on core 1 looks images up and keeps, in the cell's  *)
(* image widget, the address of the slot it found.  Nothing locks it.      *)
(*                                                                         *)
(* A slot is what s_entries[i] holds: a product, its header's size (0 for  *)
(* a PNG) and the buffer its data pointer names.  A buffer holds the       *)
(* picture of a product, which is that product's id.  Every fetch may bring *)
(* other products; the pictures of those that left stay in the cache.      *)
(***************************************************************************)
EXTENDS Integers, FiniteSets, Sequences

CONSTANTS
    Orders,      \* the lists a fetch may bring: product ids, in their order
    Max          \* CONFIG_GROCY_IMAGE_CACHE_SIZE

ProductsOf(l) == {l[n] : n \in 1 .. Len(l)}
Ids == UNION {ProductsOf(l) : l \in Orders}

ASSUME MaxAssumption    == Max \in Nat \ {0}
ASSUME OrdersAssumption == Orders \subseteq Seq(Nat \ {0}) /\ IsFiniteSet(Ids)

Bufs == 1 .. Max + 2      \* enough for the cache and the image being decoded
NoBuf == 0

VARIABLES
    slots, count,  \* s_entries, s_count
    psram,          \* the product pictured in every PSRAM buffer, None if it is free
    pc, i,         \* where the Grocy task is, and in which product of the list
    tmp,           \* the decoded buffer about to be stored
    order,         \* the list fetched last, <<>> before the first
    listed,        \* the list in g_product_list_queue, <<>> if there is none
    grid,          \* the list that is shown: the products with a cell
    cell,          \* the slot each cell's image widget points to, or NoBuf
    kind           \* the kind of picture each product has: it never changes

slotVars == <<slots, count, psram>>
taskVars  == <<pc, i, tmp>>
msgVars   == <<order, listed, grid>>
cacheVars == <<slotVars, taskVars, msgVars, cell, kind>>

Kinds  == [Ids -> {"none", "png", "jpeg"}]
Slot   == [id : Ids, sized : BOOLEAN, data : Bufs]
NoSlot == [id |-> NoBuf]

CacheTypeOK ==
    /\ slots \in [1 .. Max -> Slot \cup {NoSlot}] /\ count \in 0 .. Max
    /\ psram \in [Bufs -> Ids \cup {NoBuf}]
    /\ pc \in {"idle", "fetch", "store", "move", "fill", "bump"}
    /\ i \in 1 .. Len(order) + 1
    /\ tmp \in Bufs \cup {NoBuf}
    /\ {order, listed, grid} \subseteq Orders \cup {<<>>}
    /\ cell \in [Ids -> 0 .. Max]
    /\ kind \in Kinds

CacheInit ==
    /\ slots = [s \in 1 .. Max |-> NoSlot] /\ count = 0
    /\ psram = [b \in Bufs |-> NoBuf]
    /\ pc = "idle" /\ i = 1 /\ tmp = NoBuf
    /\ order = <<>> /\ listed = <<>> /\ grid = <<>>
    /\ cell = [p \in Ids |-> NoBuf]
    /\ kind \in Kinds

\* Mutated Hits: the loop stops one entry early.
HitsShort(p) == {s \in 1 .. count - 1 : slots[s].id = p}

\* image_cache_get: the first of the s_count slots that holds the product.
Hits(p) == {s \in 1 .. count : slots[s].id = p}
Get(p)  == IF Hits(p) = {} THEN NoBuf
           ELSE CHOOSE s \in Hits(p) : \A t \in Hits(p) : s <= t

-----------------------------------------------------------------------------
(* The Grocy task: image_cache_fetch_and_store for every product fetched   *)

FetchList ==
    /\ pc = "idle"
    /\ pc' = "fetch" /\ i' = 1
    /\ order' \in Orders
    /\ UNCHANGED <<slotVars, tmp, listed, grid, cell, kind>>

Cur == order[i]

\* No file name, or a picture that is cached already.
Skip ==
    /\ pc = "fetch" /\ i <= Len(order)
    /\ kind[Cur] = "none" \/ Get(Cur) # NoBuf
    /\ i' = i + 1
    /\ UNCHANGED <<slotVars, pc, tmp, msgVars, cell, kind>>

\* The download fails, or the picture cannot be decoded: nothing is stored.
DownloadFails ==
    /\ pc = "fetch" /\ i <= Len(order)
    /\ kind[Cur] # "none" /\ Get(Cur) = NoBuf
    /\ i' = i + 1
    /\ UNCHANGED <<slotVars, pc, tmp, msgVars, cell, kind>>

\* The picture is in a buffer of its own.
Download ==
    /\ pc = "fetch" /\ i <= Len(order)
    /\ kind[Cur] # "none" /\ Get(Cur) = NoBuf
    /\ tmp' = CHOOSE b \in Bufs : psram[b] = NoBuf
    /\ psram' = [psram EXCEPT ![tmp'] = Cur]
    /\ pc' = "store"
    /\ UNCHANGED <<slots, count, i, msgVars, cell, kind>>

\* Mutated EvictFirst: the evicted picture is not freed ...
EvictNoFree ==
    /\ pc = "store" /\ count >= Max
    /\ pc' = "move"
    /\ UNCHANGED <<slotVars, i, tmp, msgVars, cell, kind>>

\* ... or the cache counts as full one entry too early.
EvictEarly ==
    /\ pc = "store" /\ count >= Max - 1 /\ count > 0
    /\ psram' = [psram EXCEPT ![slots[1].data] = NoBuf]
    /\ pc' = "move"
    /\ UNCHANGED <<slots, count, i, tmp, msgVars, cell, kind>>

\* image_cache_put and its inlined copy for JPEG: when the cache is full, the
\* data of slot 1 is freed ...
EvictFirst ==
    /\ pc = "store" /\ count >= Max
    /\ psram' = [psram EXCEPT ![slots[1].data] = NoBuf]
    /\ pc' = "move"
    /\ UNCHANGED <<slots, count, i, tmp, msgVars, cell, kind>>

\* Mutated MoveDown: s_count is not decremented.
MoveDownKeepsCount ==
    /\ pc = "move"
    /\ slots' = [s \in 1 .. Max |-> IF s < Max THEN slots[s + 1] ELSE slots[s]]
    /\ pc' = "fill"
    /\ UNCHANGED <<count, psram, i, tmp, msgVars, cell, kind>>

\* ... and every slot moves down by one.  The last slot keeps its bytes, so that
\* a lookup between memmove and s_count-- finds what it finds after both.
MoveDown ==
    /\ pc = "move"
    /\ slots' = [s \in 1 .. Max |-> IF s < Max THEN slots[s + 1] ELSE slots[s]]
    /\ count' = count - 1
    /\ pc' = "fill"
    /\ UNCHANGED <<psram, i, tmp, msgVars, cell, kind>>

HasRoom ==
    /\ pc = "store" /\ count < Max
    /\ pc' = "fill"
    /\ UNCHANGED <<slotVars, i, tmp, msgVars, cell, kind>>

\* The slot at s_count is written ...
Fill ==
    /\ pc = "fill"
    /\ slots' = [slots EXCEPT ![count + 1] =
                    [id |-> Cur, sized |-> kind[Cur] = "jpeg", data |-> tmp]]
    /\ pc' = "bump"
    /\ UNCHANGED <<count, psram, i, tmp, msgVars, cell, kind>>

\* ... and counted.
Bump ==
    /\ pc = "bump"
    /\ count' = count + 1
    /\ tmp' = NoBuf
    /\ i' = i + 1 /\ pc' = "fetch"
    /\ UNCHANGED <<slots, psram, msgVars, cell, kind>>

\* grocy_task.c:62
PublishList ==
    /\ pc = "fetch" /\ i > Len(order)
    /\ pc' = "idle" /\ i' = 1
    /\ listed' = order
    /\ UNCHANGED <<slotVars, tmp, order, grid, cell, kind>>

-----------------------------------------------------------------------------
(* The LVGL task                                                           *)

\* ui_product_cell_create for every product: the widget points at the slot
\* when the header has a size, and is a grey placeholder otherwise.
RebuildCells ==
    /\ listed # <<>>
    /\ listed' = <<>> /\ grid' = listed
    /\ cell' = [p \in Ids |->
                   IF p \in ProductsOf(listed) /\ Get(p) # NoBuf /\ slots[Get(p)].sized
                      THEN Get(p) ELSE NoBuf]
    /\ UNCHANGED <<slotVars, taskVars, order, kind>>

\* ui_product_cell_update after a tap: no look at the size.
TapUpdate(p) ==
    /\ p \in ProductsOf(grid)
    /\ cell' = [cell EXCEPT ![p] = IF Get(p) # NoBuf THEN Get(p) ELSE @]
    /\ UNCHANGED <<slotVars, taskVars, msgVars, kind>>

GrocyTask == \/ FetchList \/ Skip \/ DownloadFails \/ Download \/ EvictFirst
             \/ MoveDown \/ HasRoom \/ Fill \/ Bump \/ PublishList

CacheNext == \/ GrocyTask \/ RebuildCells
             \/ \E p \in Ids : TapUpdate(p)

CacheSpec == CacheInit /\ [][CacheNext]_cacheVars

\* The two tasks run, and no product's download fails for ever.
CacheFairness ==
    /\ WF_cacheVars(GrocyTask)
    /\ WF_cacheVars(RebuildCells)
    /\ \A p \in Ids : SF_cacheVars(Download /\ Cur = p)

CacheFairSpec == CacheSpec /\ CacheFairness

-----------------------------------------------------------------------------
\* Between two stores the cache owns its memory exactly: every counted slot
\* has a product and a live buffer of its own with that product's picture,
\* and no live buffer belongs to nobody (grocy_image_cache.c:58-78, 278-297).
CacheOwnsHeap ==
    pc \in {"idle", "fetch"} =>
        /\ \A s \in 1 .. count : psram[slots[s].data] = slots[s].id
        /\ \A s, t \in 1 .. count : slots[s].id = slots[t].id => s = t
        /\ {b \in Bufs : psram[b] # NoBuf} = {slots[s].data : s \in 1 .. count}

\* What the widget of p draws: the buffer its slot names, now.
DrawsOwn(p) == cell[p] # NoBuf => psram[slots[cell[p]].data] = p

PicturesFit == Cardinality({p \in Ids : kind[p] # "none"}) <= Max

\* As long as the products that ever come and go have no more pictures than the
\* cache has slots, every cell draws its own product's live picture, whatever the
\* Grocy task is doing to the cache meanwhile (ui_product_cell.c:67-69, 253-256).
\* That each single list fits is not enough: the pictures of products that left
\* are never given up before the cache is full.
OwnPicture == PicturesFit => \A p \in Ids : DrawsOwn(p)

\* As long as the pictures fit, every product with a JPEG that stays listed shows
\* it in the end and keeps it, whatever downloads failed and whichever other
\* products came and went on the way (grocy_task.c:53-62,
\* ui_product_cell.c:67-69).
JpegsCome ==
    \A p \in Ids : PicturesFit /\ kind[p] = "jpeg" =>
                      (<>[](p \in ProductsOf(order)) => <>[](cell[p] # NoBuf))

\* "Safe to call from a non-LVGL task." (grocy_image_cache.h:48): filling the
\* cache never takes a picture, or the slot that names it, from a cell that is
\* on the screen.
SafeFromOtherTask == \A p \in Ids : DrawsOwn(p)
=============================================================================
