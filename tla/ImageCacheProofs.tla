-------------------------- MODULE ImageCacheProofs --------------------------
(***************************************************************************)
(* The image cache owns its memory, and a cell draws its own product; and  *)
(* what is proved of the screen, the grid and the cache holds of the three *)
(* put together, as MCScreen checks them.                                  *)
(***************************************************************************)
EXTENDS MCScreen, ScreenProofs

\* The slots whose data is a live buffer: while a slot is being evicted not the
\* first one, and a slot that is filled before it is counted.
Held == (IF pc = "move" THEN 2 ELSE 1) .. (IF pc = "bump" THEN count + 1 ELSE count)

\* The image being stored is in a buffer that no slot names yet.
Pending == pc \in {"store", "move", "fill"}

PhaseInv ==
    /\ pc \in {"store", "move", "fill", "bump"} =>
         i <= Len(order) /\ tmp \in Bufs /\ kind[Cur] # "none"
    /\ pc = "move" => count = Max
    /\ pc \in {"fill", "bump"} => count < Max
    /\ Pending => psram[tmp] = Cur

SlotInv == \A s \in 1 .. count \cup Held : slots[s] \in Slot /\ kind[slots[s].id] # "none"

UniqueInv ==
    /\ \A s, t \in 1 .. count : slots[s].id = slots[t].id => s = t
    /\ pc \in {"store", "move", "fill", "bump"} => \A s \in 1 .. count : slots[s].id # Cur
    /\ pc = "bump" => slots[count + 1].id = Cur

OwnInv == \A s \in Held : psram[slots[s].data] = slots[s].id

\* No live buffer belongs to nobody.
LiveInv == \A b \in Bufs : psram[b] # NoBuf =>
               \/ Pending /\ b = tmp
               \/ \E s \in Held : slots[s].data = b

HeapInv == CacheTypeOK /\ PhaseInv /\ SlotInv /\ UniqueInv /\ OwnInv /\ LiveInv

\* While the pictures fit, nothing is evicted, and the slot a cell points at
\* goes on holding the cell's product.
CellInv ==
    PicturesFit =>
        \A p \in Ids : cell[p] # NoBuf => cell[p] \in 1 .. count /\ slots[cell[p]].id = p

LEMMA IdsFacts ==
  /\ Ids \subseteq Nat \ {0} /\ IsFiniteSet(Ids)
  /\ \A l \in Orders \cup {<<>>} : /\ Len(l) \in Nat
                                 /\ \A n \in 1 .. Len(l) : l[n] \in Ids
<1>1. ASSUME NEW l \in Orders
      PROVE  /\ Len(l) \in Nat /\ ProductsOf(l) \subseteq Nat \ {0}
             /\ \A n \in 1 .. Len(l) : l[n] \in Ids
  <2>1. l \in Seq(Nat \ {0})
    BY OrdersAssumption
  <2> QED
    BY <2>1 DEF ProductsOf, Ids
<1>2. Len(<<>>) = 0
  OBVIOUS
<1> QED
  BY <1>1, <1>2, OrdersAssumption DEF Ids

LEMMA CurListed ==
  ASSUME CacheTypeOK, i <= Len(order)
  PROVE  i \in 1 .. Len(order) /\ Cur \in Ids /\ Cur # NoBuf
<1>1. Len(order) \in Nat /\ i \in 1 .. Len(order) + 1 /\ order \in Orders \cup {<<>>}
  BY IdsFacts DEF CacheTypeOK
<1>2. i \in 1 .. Len(order)
  BY <1>1
<1>3. Cur \in Ids
  BY <1>1, <1>2, IdsFacts DEF Cur
<1> QED
  BY <1>2, <1>3, IdsFacts DEF NoBuf

\* A product has at most one counted slot, and the lookup finds it.
LEMMA GetFinds ==
  ASSUME \A s, t \in 1 .. count : slots[s].id = slots[t].id => s = t, count \in Nat,
         NEW p \in Ids
  PROVE  /\ Get(p) # NoBuf => Get(p) \in 1 .. count /\ slots[Get(p)].id = p
         /\ Get(p) = NoBuf => \A s \in 1 .. count : slots[s].id # p
<1>1. CASE Hits(p) = {}
  BY <1>1 DEF Get, Hits
<1>2. CASE Hits(p) # {}
  <2>1. \E s \in Hits(p) : \A t \in Hits(p) : s <= t
    BY <1>2 DEF Hits
  <2>2. Get(p) \in Hits(p)
    BY <1>2, <2>1 DEF Get
  <2> QED
    BY <2>2 DEF Hits, NoBuf
<1> QED
  BY <1>1, <1>2

\* The counted slots hold at most as many buffers as the cache has slots.
LEMMA FreeBuffer ==
  ASSUME CacheTypeOK, LiveInv, ~Pending, pc # "bump"
  PROVE  \E b \in Bufs : psram[b] = NoBuf
<1> SUFFICES ASSUME \A b \in Bufs : psram[b] # NoBuf PROVE FALSE
  OBVIOUS
<1>1. Max \in Nat /\ count \in 0 .. Max
  BY MaxAssumption DEF CacheTypeOK
<1>2. \A b \in Bufs : \E s \in 1 .. count : slots[s].data = b
  BY DEF LiveInv, Held, Pending
<1>3. PICK f \in [Bufs -> 1 .. count] : \A b \in Bufs : slots[f[b]].data = b
  <2> DEFINE g == [b \in Bufs |-> CHOOSE s \in 1 .. count : slots[s].data = b]
  <2>1. g \in [Bufs -> 1 .. count] /\ \A b \in Bufs : slots[g[b]].data = b
    BY <1>2
  <2> QED
    BY <2>1
<1>4. IsFiniteSet(Bufs) /\ Cardinality(Bufs) = Max + 2
  BY <1>1, FS_Interval DEF Bufs
<1>5. IsFiniteSet(1 .. count) /\ Cardinality(1 .. count) = count
  BY <1>1, FS_Interval
<1>6. Cardinality(1 .. count) < Cardinality(Bufs)
  BY <1>1, <1>4, <1>5
<1>7. \E x, y \in Bufs : x # y /\ f[x] = f[y]
  <2>1. f \in [Bufs -> 1 .. count]
    OBVIOUS
  <2> QED
    BY <2>1, <1>4, <1>5, <1>6, FS_PigeonHole
<1> QED
  BY <1>3, <1>7

LEMMA CacheStarts == CacheInit => HeapInv /\ CellInv
<1> SUFFICES ASSUME CacheInit PROVE HeapInv /\ CellInv
  OBVIOUS
<1>1. CacheTypeOK
  <2>1. /\ slots \in [1 .. Max -> Slot \cup {NoSlot}] /\ count \in 0 .. Max
        /\ psram \in [Bufs -> Ids \cup {NoBuf}] /\ cell \in [Ids -> 0 .. Max]
    BY MaxAssumption DEF CacheInit, NoBuf
  <2>2. i \in 1 .. Len(order) + 1
    BY IdsFacts DEF CacheInit
  <2> QED
    BY <2>1, <2>2 DEF CacheInit, CacheTypeOK
<1>2. PhaseInv /\ SlotInv /\ UniqueInv /\ OwnInv /\ LiveInv /\ CellInv
  BY DEF CacheInit, PhaseInv, SlotInv, UniqueInv, OwnInv, LiveInv, CellInv, Held, Pending
<1> QED
  BY <1>1, <1>2 DEF HeapInv

-----------------------------------------------------------------------------
(* The steps that write the cache                                          *)

LEMMA DownloadStep == HeapInv /\ Download => HeapInv'
<1> SUFFICES ASSUME HeapInv, Download PROVE HeapInv'
  OBVIOUS
<1>1. /\ CacheTypeOK /\ SlotInv /\ UniqueInv /\ OwnInv /\ LiveInv
      /\ pc = "fetch" /\ i \in 1 .. Len(order) /\ kind[Cur] # "none" /\ Get(Cur) = NoBuf
      /\ psram' = [psram EXCEPT ![tmp'] = Cur] /\ pc' = "store"
      /\ slots' = slots /\ count' = count /\ i' = i /\ kind' = kind
      /\ UNCHANGED <<order, listed, grid, cell>>
  BY IdsFacts DEF HeapInv, Download, CacheTypeOK, msgVars
<1>2. tmp' \in Bufs /\ psram[tmp'] = NoBuf
  <2>1. \E b \in Bufs : psram[b] = NoBuf
    BY <1>1, FreeBuffer DEF Pending
  <2> QED
    BY <2>1 DEF Download
<1>3. Cur \in Ids /\ Cur # NoBuf /\ Cur' = Cur
  <2>1. i <= Len(order)
    BY DEF Download
  <2> QED
    BY <1>1, <2>1, CurListed DEF Cur
<1>4. /\ count \in Nat /\ Held = 1 .. count /\ Held' = 1 .. count
      /\ \A s \in 1 .. count : slots[s] \in Slot /\ psram[slots[s].data] = slots[s].id
      /\ \A s \in 1 .. count : slots[s].id \in Ids /\ slots[s].data \in Bufs
  BY <1>1, MaxAssumption DEF Held, SlotInv, OwnInv, Slot, CacheTypeOK
<1>5. \A s \in 1 .. count : slots[s].id # Cur
  BY <1>1, <1>3, <1>4, GetFinds DEF UniqueInv
<1>6. CacheTypeOK'
  BY <1>1, <1>2, <1>3 DEF CacheTypeOK
<1>7. PhaseInv'
  BY <1>1, <1>2, <1>3 DEF PhaseInv, CacheTypeOK, Pending
<1>8. SlotInv' /\ UniqueInv'
  BY <1>1, <1>3, <1>4, <1>5 DEF SlotInv, UniqueInv
<1>9. OwnInv'
  <2>1. \A s \in 1 .. count : slots[s].data # tmp'
    BY <1>2, <1>4, IdsFacts DEF NoBuf
  <2> QED
    BY <1>1, <1>2, <1>4, <2>1 DEF OwnInv, CacheTypeOK
<1>10. LiveInv'
  BY <1>1, <1>2, <1>4 DEF LiveInv, CacheTypeOK, Pending
<1> QED
  BY <1>6, <1>7, <1>8, <1>9, <1>10 DEF HeapInv

LEMMA EvictStep == HeapInv /\ EvictFirst => HeapInv'
<1> SUFFICES ASSUME HeapInv, EvictFirst PROVE HeapInv'
  OBVIOUS
<1>1. /\ CacheTypeOK /\ PhaseInv /\ SlotInv /\ UniqueInv /\ OwnInv /\ LiveInv
      /\ pc = "store" /\ count = Max /\ i' = i /\ tmp' = tmp /\ kind' = kind
      /\ psram' = [psram EXCEPT ![slots[1].data] = NoBuf] /\ pc' = "move"
      /\ slots' = slots /\ count' = count
      /\ UNCHANGED <<order, listed, grid, cell>>
  BY MaxAssumption DEF HeapInv, EvictFirst, CacheTypeOK, msgVars
<1>2. /\ count \in Nat \ {0} /\ Held = 1 .. count /\ Held' = 2 .. count
      /\ \A s \in 1 .. count : slots[s] \in Slot /\ psram[slots[s].data] = slots[s].id
      /\ \A s \in 1 .. count : slots[s].id \in Ids /\ slots[s].data \in Bufs
  BY <1>1, MaxAssumption DEF Held, SlotInv, OwnInv, Slot
<1>3. Cur' = Cur /\ tmp \in Bufs /\ psram[tmp] = Cur /\ \A s \in 1 .. count : slots[s].id # Cur
  BY <1>1 DEF Cur, PhaseInv, UniqueInv, Pending
<1>4. CacheTypeOK'
  BY <1>1, <1>2 DEF CacheTypeOK
<1>5. PhaseInv'
  <2>1. tmp # slots[1].data
    BY <1>2, <1>3
  <2> QED
    BY <1>1, <1>2, <1>3, <2>1 DEF PhaseInv, CacheTypeOK, Pending
<1>6. SlotInv' /\ UniqueInv'
  BY <1>1, <1>2, <1>3 DEF SlotInv, UniqueInv
<1>7. \A s \in 2 .. count : slots[s].data # slots[1].data
  BY <1>1, <1>2 DEF UniqueInv
<1>8. OwnInv'
  BY <1>1, <1>2, <1>7 DEF OwnInv, CacheTypeOK
<1>9. LiveInv'
  <2> SUFFICES ASSUME NEW b \in Bufs, psram'[b] # NoBuf, b # tmp
               PROVE  \E s \in 2 .. count : slots[s].data = b
    BY <1>1, <1>2 DEF LiveInv, Pending
  <2>1. psram[b] # NoBuf /\ b # slots[1].data
    BY <1>1 DEF CacheTypeOK
  <2>2. PICK s \in 1 .. count : slots[s].data = b
    BY <1>1, <1>2, <2>1 DEF LiveInv
  <2> QED
    BY <1>2, <2>1, <2>2
<1> QED
  BY <1>4, <1>5, <1>6, <1>8, <1>9 DEF HeapInv

\* Once the slots have moved, the first one is gone and the others are one
\* place lower.
LEMMA MoveStep == HeapInv /\ MoveDown => HeapInv'
<1> SUFFICES ASSUME HeapInv, MoveDown PROVE HeapInv'
  OBVIOUS
<1>1. /\ CacheTypeOK /\ PhaseInv /\ SlotInv /\ UniqueInv /\ OwnInv /\ LiveInv
      /\ pc = "move" /\ count = Max /\ i' = i /\ tmp' = tmp /\ kind' = kind
      /\ slots' = [s \in 1 .. Max |-> IF s < Max THEN slots[s + 1] ELSE slots[s]]
      /\ psram' = psram /\ pc' = "fill" /\ count' = count - 1
      /\ UNCHANGED <<order, listed, grid, cell>>
  BY DEF HeapInv, MoveDown, PhaseInv, msgVars
<1>2. /\ count \in Nat \ {0} /\ Held = 2 .. count /\ Held' = 1 .. count'
      /\ \A s \in 2 .. count : slots[s] \in Slot /\ psram[slots[s].data] = slots[s].id
      /\ \A s \in 1 .. count : kind[slots[s].id] # "none"
      /\ \A s \in 1 .. count' : slots'[s] = slots[s + 1] /\ s + 1 \in 2 .. count
  BY <1>1, MaxAssumption DEF Held, SlotInv, OwnInv
<1>3. Cur' = Cur /\ tmp \in Bufs /\ psram[tmp] = Cur /\ \A s \in 1 .. count : slots[s].id # Cur
  BY <1>1 DEF Cur, PhaseInv, UniqueInv, Pending
<1>4. CacheTypeOK'
  <2>1. slots' \in [1 .. Max -> Slot \cup {NoSlot}]
    BY <1>1, MaxAssumption DEF CacheTypeOK
  <2>2. count' \in 0 .. Max
    BY <1>1, MaxAssumption
  <2> QED
    BY <1>1, <2>1, <2>2 DEF CacheTypeOK
<1>5. PhaseInv'
  BY <1>1, <1>2, <1>3 DEF PhaseInv, Pending
<1>6. SlotInv'
  BY <1>1, <1>2 DEF SlotInv
<1>7. UniqueInv'
  <2>1. \A s, t \in 1 .. count' : slots'[s].id = slots'[t].id => s = t
    <3> SUFFICES ASSUME NEW s \in 1 .. count', NEW t \in 1 .. count',
                        slots'[s].id = slots'[t].id
                 PROVE  s = t
      OBVIOUS
    <3>1. s + 1 \in 1 .. count /\ t + 1 \in 1 .. count /\ slots[s + 1].id = slots[t + 1].id
      BY <1>2
    <3>2. s + 1 = t + 1
      BY <3>1, <1>1 DEF UniqueInv
    <3> QED
      BY <3>2
  <2>2. \A s \in 1 .. count' : slots'[s].id # Cur
    BY <1>2, <1>3
  <2> QED
    BY <1>1, <1>3, <2>1, <2>2 DEF UniqueInv
<1>8. OwnInv'
  BY <1>1, <1>2 DEF OwnInv
<1>9. LiveInv'
  <2> SUFFICES ASSUME NEW b \in Bufs, psram[b] # NoBuf, b # tmp
               PROVE  \E s \in 1 .. count' : slots'[s].data = b
    BY <1>1, <1>2 DEF LiveInv, Pending
  <2>1. PICK t \in 2 .. count : slots[t].data = b
    BY <1>1, <1>2 DEF LiveInv
  <2>2. t - 1 \in 1 .. count' /\ slots'[t - 1] = slots[t]
    BY <1>1, <1>2
  <2> QED
    BY <2>1, <2>2
<1> QED
  BY <1>4, <1>5, <1>6, <1>7, <1>8, <1>9 DEF HeapInv

LEMMA FillStep == HeapInv /\ Fill => HeapInv'
<1> SUFFICES ASSUME HeapInv, Fill PROVE HeapInv'
  OBVIOUS
<1> DEFINE new == [id |-> Cur, sized |-> kind[Cur] = "jpeg", data |-> tmp]
<1>1. /\ CacheTypeOK /\ PhaseInv /\ SlotInv /\ UniqueInv /\ OwnInv /\ LiveInv
      /\ pc = "fill" /\ count < Max /\ i' = i /\ tmp' = tmp /\ kind' = kind
      /\ slots' = [slots EXCEPT ![count + 1] = new]
      /\ psram' = psram /\ pc' = "bump" /\ count' = count
      /\ UNCHANGED <<order, listed, grid, cell>>
  BY DEF HeapInv, Fill, PhaseInv, msgVars
<1>2. /\ count \in Nat /\ Held = 1 .. count /\ Held' = 1 .. count + 1
      /\ \A s \in 1 .. count : slots[s] \in Slot /\ psram[slots[s].data] = slots[s].id
                               /\ kind[slots[s].id] # "none"
      /\ count + 1 \in 1 .. Max
      /\ \A s \in 1 .. count : slots'[s] = slots[s]
      /\ slots'[count + 1] = new
  BY <1>1, MaxAssumption DEF Held, SlotInv, OwnInv, CacheTypeOK
<1>3. /\ Cur' = Cur /\ tmp \in Bufs /\ psram[tmp] = Cur /\ kind[Cur] # "none"
      /\ \A s \in 1 .. count : slots[s].id # Cur
  BY <1>1 DEF Cur, PhaseInv, UniqueInv, Pending
<1>4. new \in Slot /\ new.id = Cur /\ new.data = tmp
  <2>1. Cur \in Ids
    BY <1>1, CurListed DEF PhaseInv
  <2> QED
    BY <1>3, <2>1 DEF Slot
<1> HIDE DEF new
<1>5. CacheTypeOK'
  BY <1>1, <1>2, <1>4 DEF CacheTypeOK
<1>6. PhaseInv'
  BY <1>1, <1>2, <1>3 DEF PhaseInv, Pending
<1>7. SlotInv'
  BY <1>1, <1>2, <1>3, <1>4 DEF SlotInv
<1>8. UniqueInv'
  BY <1>1, <1>2, <1>3, <1>4 DEF UniqueInv
<1>9. OwnInv'
  BY <1>1, <1>2, <1>3, <1>4 DEF OwnInv
<1>10. LiveInv'
  BY <1>1, <1>2, <1>4 DEF LiveInv, Pending
<1> QED
  BY <1>5, <1>6, <1>7, <1>8, <1>9, <1>10 DEF HeapInv

LEMMA BumpStep == HeapInv /\ Bump => HeapInv'
<1> SUFFICES ASSUME HeapInv, Bump PROVE HeapInv'
  OBVIOUS
<1>1. /\ CacheTypeOK /\ PhaseInv /\ SlotInv /\ UniqueInv /\ OwnInv /\ LiveInv
      /\ pc = "bump" /\ count < Max /\ i' = i + 1 /\ tmp' = NoBuf /\ kind' = kind
      /\ slots' = slots /\ psram' = psram /\ pc' = "fetch" /\ count' = count + 1
      /\ UNCHANGED <<order, listed, grid, cell>>
  BY DEF HeapInv, Bump, PhaseInv, msgVars
<1>2. count \in Nat /\ Held = 1 .. count + 1 /\ Held' = 1 .. count + 1
  BY <1>1, MaxAssumption DEF Held, CacheTypeOK
<1>3. i <= Len(order) /\ \A s \in 1 .. count : slots[s].id # slots[count + 1].id
  BY <1>1 DEF PhaseInv, UniqueInv
<1>4. CacheTypeOK'
  <2>1. i' \in 1 .. Len(order) + 1 /\ count' \in 0 .. Max
    BY <1>1, <1>3, IdsFacts, MaxAssumption DEF CacheTypeOK
  <2> QED
    BY <1>1, <2>1 DEF CacheTypeOK
<1>5. PhaseInv' /\ SlotInv' /\ OwnInv'
  BY <1>1, <1>2 DEF PhaseInv, SlotInv, OwnInv, Pending
<1>6. UniqueInv'
  BY <1>1, <1>2, <1>3 DEF UniqueInv
<1>7. LiveInv'
  BY <1>1, <1>2 DEF LiveInv, Pending
<1> QED
  BY <1>4, <1>5, <1>6, <1>7 DEF HeapInv

LEMMA HeapStep == HeapInv /\ [CacheNext]_cacheVars => HeapInv'
<1> SUFFICES ASSUME HeapInv, [CacheNext]_cacheVars PROVE HeapInv'
  OBVIOUS
<1>1. CASE FetchList \/ Skip \/ DownloadFails \/ PublishList
  <2>1. /\ slots' = slots /\ count' = count /\ psram' = psram /\ tmp' = tmp
        /\ cell' = cell /\ kind' = kind /\ grid' = grid
        /\ listed' \in Orders \cup {<<>>} /\ order' \in Orders \cup {<<>>}
        /\ pc \in {"idle", "fetch"} /\ pc' \in {"idle", "fetch"}
        /\ i' \in 1 .. Len(order') + 1
    <3>1. /\ Len(order) \in Nat /\ i \in 1 .. Len(order) + 1
          /\ listed \in Orders \cup {<<>>} /\ order \in Orders \cup {<<>>}
      BY IdsFacts DEF HeapInv, CacheTypeOK
    <3>2. CASE FetchList
      <4>1. order' \in Orders /\ Len(order') \in Nat
        BY <3>2, IdsFacts DEF FetchList
      <4> QED
        BY <3>1, <3>2, <4>1 DEF FetchList, slotVars
    <3>3. CASE PublishList
      BY <3>1, <3>3 DEF PublishList, slotVars
    <3>4. CASE Skip
      BY <3>1, <3>4 DEF Skip, slotVars, msgVars
    <3>5. CASE DownloadFails
      BY <3>1, <3>5 DEF DownloadFails, slotVars, msgVars
    <3> QED
      BY <1>1, <3>2, <3>3, <3>4, <3>5
  <2>2. CacheTypeOK'
    BY <2>1 DEF HeapInv, CacheTypeOK
  <2>3. Held' = Held
    BY <2>1 DEF Held
  <2> QED
    BY <2>1, <2>2, <2>3 DEF HeapInv, PhaseInv, SlotInv, UniqueInv, OwnInv, LiveInv, Pending
<1>2. CASE HasRoom
  <2>1. /\ slots' = slots /\ count' = count /\ psram' = psram /\ tmp' = tmp /\ i' = i
        /\ UNCHANGED <<cell, kind, order, grid, listed>>
        /\ pc = "store" /\ pc' = "fill" /\ count < Max
    BY <1>2 DEF HasRoom, slotVars, msgVars
  <2>2. CacheTypeOK' /\ Held' = Held /\ Cur' = Cur
    BY <2>1 DEF HeapInv, CacheTypeOK, Held, Cur
  <2> QED
    BY <2>1, <2>2 DEF HeapInv, PhaseInv, SlotInv, UniqueInv, OwnInv, LiveInv, Pending
<1>3. CASE Download \/ EvictFirst \/ MoveDown \/ Fill \/ Bump
  BY <1>3, DownloadStep, EvictStep, MoveStep, FillStep, BumpStep
<1>4. CASE RebuildCells \/ (\E p \in Ids : TapUpdate(p)) \/ UNCHANGED cacheVars
  <2>1. /\ slots' = slots /\ count' = count /\ psram' = psram /\ tmp' = tmp /\ i' = i
        /\ pc' = pc /\ kind' = kind /\ order' = order
    BY <1>4 DEF RebuildCells, TapUpdate, slotVars, taskVars, msgVars, cacheVars
  <2>2. \A p \in Ids : Get(p) \in 0 .. Max
    <3>1. count \in 0 .. Max /\ count \in Nat
      BY MaxAssumption DEF HeapInv, CacheTypeOK
    <3>2. \A s, t \in 1 .. count : slots[s].id = slots[t].id => s = t
      BY DEF HeapInv, UniqueInv
    <3>3. \A p \in Ids : Get(p) # NoBuf => Get(p) \in 1 .. count
      BY <3>1, <3>2, GetFinds
    <3> QED
      BY <3>1, <3>3, MaxAssumption DEF NoBuf
  <2>3. /\ cell' \in [Ids -> 0 .. Max]
        /\ grid' \in Orders \cup {<<>>} /\ listed' \in Orders \cup {<<>>}
    <3>1. /\ cell \in [Ids -> 0 .. Max] /\ NoBuf \in 0 .. Max
          /\ grid \in Orders \cup {<<>>} /\ listed \in Orders \cup {<<>>}
      BY MaxAssumption DEF HeapInv, CacheTypeOK, NoBuf
    <3>2. CASE RebuildCells
      BY <3>1, <3>2, <2>2 DEF RebuildCells
    <3>3. ASSUME NEW p \in Ids, TapUpdate(p) PROVE cell' \in [Ids -> 0 .. Max] /\ UNCHANGED <<grid, listed>>
      BY <3>1, <3>3, <2>2 DEF TapUpdate, msgVars
    <3>4. CASE UNCHANGED cacheVars
      BY <3>1, <3>4 DEF cacheVars, msgVars
    <3> QED
      BY <1>4, <3>1, <3>2, <3>3, <3>4
  <2>4. CacheTypeOK' /\ Held' = Held /\ Cur' = Cur
    BY <2>1, <2>3 DEF HeapInv, CacheTypeOK, Held, Cur
  <2> QED
    BY <2>1, <2>4 DEF HeapInv, PhaseInv, SlotInv, UniqueInv, OwnInv, LiveInv, Pending
<1> QED
  BY <1>1, <1>2, <1>3, <1>4 DEF CacheNext, GrocyTask

\* The cache's buffers are right at every step of every store.
THEOREM CacheHeap == CacheSpec => []HeapInv
<1> QED
  BY CacheStarts, HeapStep, PTL DEF CacheSpec

\* Between two stores the cache owns its memory exactly, for lists of any
\* length that change at every fetch and a cache of any size (grocy_image_cache.c:58-78, 278-297).
THEOREM CacheMemory == CacheSpec => []CacheOwnsHeap
<1>1. HeapInv => CacheOwnsHeap
  <2> SUFFICES ASSUME HeapInv, pc \in {"idle", "fetch"} PROVE CacheOwnsHeap
    BY DEF CacheOwnsHeap
  <2>1. /\ Held = 1 .. count /\ ~Pending
        /\ \A s \in 1 .. count : slots[s].id \in Ids /\ slots[s].data \in Bufs
        /\ \A s \in 1 .. count : psram[slots[s].data] = slots[s].id
    BY DEF HeapInv, SlotInv, OwnInv, Held, Pending, Slot
  <2>2. \A s \in 1 .. count : psram[slots[s].data] # NoBuf
    BY <2>1, IdsFacts DEF NoBuf
  <2>3. \A b \in Bufs : psram[b] # NoBuf => \E s \in 1 .. count : slots[s].data = b
    BY <2>1 DEF HeapInv, LiveInv
  <2>4. {b \in Bufs : psram[b] # NoBuf} = {slots[s].data : s \in 1 .. count}
    BY <2>1, <2>2, <2>3
  <2>5. \A s, t \in 1 .. count : slots[s].id = slots[t].id => s = t
    BY DEF HeapInv, UniqueInv
  <2> QED
    BY <2>1, <2>4, <2>5 DEF CacheOwnsHeap
<1> QED
  BY <1>1, CacheHeap, PTL

-----------------------------------------------------------------------------
(* What a cell draws                                                       *)

\* While the pictures fit, there is room for the image being stored: the
\* counted slots hold different pictures, and none of them is the new one.
LEMMA NoEviction == HeapInv /\ PicturesFit /\ pc = "store" => count < Max
<1> SUFFICES ASSUME HeapInv, PicturesFit, pc = "store" PROVE count < Max
  OBVIOUS
<1> DEFINE P == {p \in Ids : kind[p] # "none"}
           R == P \ {Cur}
           f == [s \in 1 .. count |-> slots[s].id]
<1>1. Max \in Nat /\ count \in Nat
  BY MaxAssumption DEF HeapInv, CacheTypeOK
<1>2. Cur \in P
  BY CurListed DEF HeapInv, PhaseInv
<1>3. IsFiniteSet(P) /\ Cardinality(P) <= Max
  <2>1. P \in SUBSET Ids
    OBVIOUS
  <2> QED
    BY <2>1, IdsFacts, FS_Subset DEF PicturesFit
<1>4. IsFiniteSet(R) /\ Cardinality(R) = Cardinality(P) - 1 /\ Cardinality(P) \in Nat
  BY <1>2, <1>3, FS_RemoveElement, FS_CardinalityType
<1>5. f \in Injection(1 .. count, R)
  <2>1. \A s \in 1 .. count : slots[s].id \in Ids /\ kind[slots[s].id] # "none"
    BY DEF HeapInv, SlotInv, Slot
  <2>2. \A s \in 1 .. count : slots[s].id # Cur
    BY DEF HeapInv, UniqueInv
  <2>3. \A s, t \in 1 .. count : slots[s].id = slots[t].id => s = t
    BY DEF HeapInv, UniqueInv
  <2> QED
    BY <2>1, <2>2, <2>3 DEF Injection, IsInjective
<1>6. Cardinality(1 .. count) <= Cardinality(R)
  BY <1>4, <1>5, FS_Injection
<1>7. Cardinality(1 .. count) = count
  BY <1>1, FS_Interval
<1> QED
  BY <1>1, <1>3, <1>4, <1>6, <1>7

\* While the pictures fit, nothing is ever moved.
RoomInv == PicturesFit => pc # "move"

LEMMA RoomStep == HeapInv /\ RoomInv /\ [CacheNext]_cacheVars => RoomInv'
<1> SUFFICES ASSUME HeapInv, RoomInv, [CacheNext]_cacheVars, PicturesFit' PROVE pc' # "move"
  BY DEF RoomInv
<1>1. kind' = kind
  BY DEF CacheNext, GrocyTask, FetchList, Skip, DownloadFails, Download, EvictFirst, MoveDown,
         HasRoom, Fill, Bump, PublishList, RebuildCells, TapUpdate, cacheVars
<1>2. PicturesFit
  BY <1>1 DEF PicturesFit
<1>3. ~EvictFirst
  <2>1. count \in 0 .. Max /\ Max \in Nat
    BY MaxAssumption DEF HeapInv, CacheTypeOK
  <2> QED
    BY <1>2, <2>1, NoEviction DEF EvictFirst
<1>4. pc' = "move" => pc = "move" \/ EvictFirst
  BY DEF CacheNext, GrocyTask, FetchList, Skip, DownloadFails, Download, MoveDown,
         HasRoom, Fill, Bump, PublishList, RebuildCells, TapUpdate, cacheVars, taskVars
<1> QED
  BY <1>2, <1>3, <1>4 DEF RoomInv

LEMMA CellStep == HeapInv /\ RoomInv /\ CellInv /\ [CacheNext]_cacheVars => CellInv'
<1> SUFFICES ASSUME HeapInv, RoomInv, CellInv, [CacheNext]_cacheVars, PicturesFit',
                    NEW p \in Ids, cell'[p] # NoBuf
             PROVE  cell'[p] \in 1 .. count' /\ slots'[cell'[p]].id = p
  BY DEF CellInv
<1>1. kind' = kind
  BY DEF CacheNext, GrocyTask, FetchList, Skip, DownloadFails, Download, EvictFirst, MoveDown,
         HasRoom, Fill, Bump, PublishList, RebuildCells, TapUpdate, cacheVars
<1>2. PicturesFit /\ pc # "move"
  BY <1>1 DEF PicturesFit, RoomInv
<1>3. cell[p] # NoBuf => cell[p] \in 1 .. count /\ slots[cell[p]].id = p
  BY <1>2 DEF CellInv
<1>4. count \in Nat /\ \A s, t \in 1 .. count : slots[s].id = slots[t].id => s = t
  BY MaxAssumption DEF HeapInv, CacheTypeOK, UniqueInv
<1>5. Get(p) # NoBuf => Get(p) \in 1 .. count /\ slots[Get(p)].id = p
  BY <1>4, GetFinds
<1>6. CASE UNCHANGED <<slots, count, cell>>
  BY <1>3, <1>6
<1>7. CASE Fill
  <2>1. /\ cell' = cell /\ count' = count
        /\ slots' = [slots EXCEPT ![count + 1] = [id |-> Cur, sized |-> kind[Cur] = "jpeg",
                                                  data |-> tmp]]
    BY <1>7 DEF Fill
  <2>2. \A s \in 1 .. count : slots'[s] = slots[s]
    BY <1>4, <2>1 DEF HeapInv, CacheTypeOK
  <2> QED
    BY <1>3, <2>1, <2>2
<1>8. CASE Bump
  <2>1. cell' = cell /\ count' = count + 1 /\ slots' = slots
    BY <1>8 DEF Bump
  <2> QED
    BY <1>3, <1>4, <2>1
<1>9. CASE RebuildCells
  <2>1. cell'[p] = Get(p) \/ cell'[p] = NoBuf
    BY <1>9 DEF RebuildCells
  <2>2. count' = count /\ slots' = slots
    BY <1>9 DEF RebuildCells, slotVars
  <2> QED
    BY <1>5, <2>1, <2>2
<1>10. CASE \E q \in Ids : TapUpdate(q)
  <2>1. cell'[p] = cell[p] \/ (Get(p) # NoBuf /\ cell'[p] = Get(p))
    BY <1>10 DEF TapUpdate, HeapInv, CacheTypeOK
  <2>2. count' = count /\ slots' = slots
    BY <1>10 DEF TapUpdate, slotVars
  <2> QED
    BY <1>3, <1>5, <2>1, <2>2
<1> QED
  BY <1>2, <1>6, <1>7, <1>8, <1>9, <1>10
     DEF CacheNext, GrocyTask, FetchList, Skip, DownloadFails, Download, EvictFirst, MoveDown,
         HasRoom, PublishList, cacheVars, slotVars

\* As long as the products that ever come and go have no more pictures than the
\* cache has slots, every cell draws its own product's live picture, for any lists
\* and any cache (grocy_task.c:53-60, ui_product_cell.c:67-69, 253-256).
THEOREM CellPicture == CacheSpec => []OwnPicture
<1>1. CacheInit => RoomInv
  BY DEF CacheInit, RoomInv
<1>2. HeapInv /\ RoomInv /\ CellInv => OwnPicture
  <2> SUFFICES ASSUME HeapInv, RoomInv, CellInv, PicturesFit, NEW p \in Ids, cell[p] # NoBuf
               PROVE  psram[slots[cell[p]].data] = p
    BY DEF OwnPicture, DrawsOwn
  <2>1. cell[p] \in 1 .. count /\ slots[cell[p]].id = p /\ pc # "move"
    BY DEF CellInv, RoomInv
  <2>2. cell[p] \in Held
    BY <2>1, MaxAssumption DEF Held, HeapInv, CacheTypeOK
  <2> QED
    BY <2>1, <2>2 DEF HeapInv, OwnInv
<1> QED
  BY <1>1, <1>2, CacheStarts, HeapStep, RoomStep, CellStep, PTL DEF CacheSpec

-----------------------------------------------------------------------------
(* The display's parts together                                            *)

\* MCScreen implements the specification of each of its three parts, so that what
\* its run shows of a part in its bounds is what the theorems say without them
\* (ui_main.c as a device, ui_main.c's grid, grocy_image_cache.c).
THEOREM DisplayBehaves == Spec => ScreenSpec /\ GridSpec /\ CacheSpec
<1>1. Init => ScreenInit /\ GridInit /\ CacheInit
  BY DEF Init
<1>2. [Next]_partsVars => [ScreenNext]_screenVars /\ [GridNext]_uigridVars /\ [CacheNext]_cacheVars
  BY DEF Next, partsVars
<1> QED
  BY <1>1, <1>2, PTL DEF Spec, ScreenSpec, GridSpec, CacheSpec

\* The types of the screen, the grid and the cache (ui_main.c, screen_ctrl.c,
\* grocy_image_cache.c): no index leaves its array, and no overlay is on a cell
\* that was not made.
THEOREM DisplayTyped == Spec => []DisplayTypeOK
<1>1. ScreenTypeOK /\ GridTypeOK /\ HeapInv => DisplayTypeOK
  BY DEF DisplayTypeOK, HeapInv
<1> QED
  BY <1>1, DisplayBehaves, ScreenTypes, GridTypes, CacheHeap, PTL
=============================================================================
