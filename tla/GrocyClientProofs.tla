------------------------- MODULE GrocyClientProofs --------------------------
(***************************************************************************)
(* The Grocy client, for any transfer and any product table: every body is *)
(* received whole into a buffer that holds it, and what the list is made of is *)
(* what was asked for, inside the array that was measured for it.          *)
(***************************************************************************)
EXTENDS HttpClient, ProductList, FiniteSetTheorems, TLAPS

-----------------------------------------------------------------------------
(* The transport                                                           *)

\* The strengthening.  A request runs on an open connection of a client; between
\* requests a connection left open has its time stamp.
Connected == /\ phase # "idle" => client /\ open
             /\ phase = "idle" /\ open => used

\* What was not lost to a failed realloc is all in the buffer, and the buffer
\* has room for the terminator.
BodyKept == /\ client => len + 1 <= cap
            /\ ~client => len = 0
            /\ phase # "idle" /\ oom = FALSE => len = received
            /\ WholeBody

ClientInv == HttpTypeOK /\ Connected /\ BodyKept /\ FreshConnection

LEMMA ClientStarts == HttpInit => ClientInv
<1> SUFFICES ASSUME HttpInit PROVE ClientInv
  OBVIOUS
<1> USE DEF HttpInit
<1>1. idle \in 0 .. IdleClose + 1 /\ reusedAt \in 0 .. IdleClose + 1
  BY RequestAssumption
<1>2. HttpTypeOK
  BY <1>1 DEF HttpTypeOK
<1>3. Connected
  BY DEF Connected
<1>4. BodyKept
  BY DEF BodyKept, WholeBody
<1>5. FreshConnection
  BY DEF FreshConnection
<1> QED
  BY <1>2, <1>3, <1>4, <1>5 DEF ClientInv

\* The connection.
LEMMA ConnectedStep == ClientInv /\ [HttpNext]_httpVars => Connected'
<1> SUFFICES ASSUME ClientInv, [HttpNext]_httpVars PROVE Connected'
  OBVIOUS
<1> USE BodyAssumption, RequestAssumption DEF ClientInv, HttpTypeOK, Connected
<1>1. CASE ClientInit
  BY <1>1 DEF ClientInit, connVars
<1>2. CASE Tick
  BY <1>2 DEF Tick, bodyVars
<1>3. CASE NoClient
  BY <1>3 DEF NoClient, connVars, bodyVars
<1>4. ASSUME NEW m \in {"GET", "POST"}, Start(m) PROVE Connected'
  BY <1>4 DEF Start, ResetBody
<1>5. ASSUME NEW d \in Chunks, OnData(d) PROVE Connected'
  BY <1>5 DEF OnData, connVars
<1>6. ASSUME NEW reached \in BOOLEAN, RetryRequest(reached) PROVE Connected'
  BY <1>6 DEF RetryRequest, ResetBody
<1>7. ASSUME NEW reached \in BOOLEAN, GiveUp(reached) PROVE Connected'
  BY <1>7 DEF GiveUp, Fail, bodyVars
<1>8. ASSUME NEW is200 \in BOOLEAN, NEW copied \in BOOLEAN, Answer(is200, copied) PROVE Connected'
  BY <1>8 DEF Answer, Fail, Done, bodyVars
<1>9. CASE UNCHANGED httpVars
  BY <1>9 DEF httpVars, connVars, bodyVars
<1> QED
  BY <1>1, <1>2, <1>3, <1>4, <1>5, <1>6, <1>7, <1>8, <1>9 DEF HttpNext

\* Only Start and RetryRequest take a connection.
LEMMA FreshStep == ClientInv /\ [HttpNext]_httpVars => FreshConnection'
<1> SUFFICES ASSUME ClientInv, [HttpNext]_httpVars PROVE FreshConnection'
  OBVIOUS
<1> USE BodyAssumption, RequestAssumption DEF ClientInv, HttpTypeOK, Connected, FreshConnection
<1>1. CASE ClientInit
  BY <1>1 DEF ClientInit, connVars
<1>2. CASE Tick
  BY <1>2 DEF Tick, bodyVars
<1>3. CASE NoClient
  BY <1>3 DEF NoClient, connVars, bodyVars
<1>4. ASSUME NEW m \in {"GET", "POST"}, Start(m) PROVE FreshConnection'
  BY <1>4 DEF Start, ResetBody
<1>5. ASSUME NEW d \in Chunks, OnData(d) PROVE FreshConnection'
  BY <1>5 DEF OnData, connVars
<1>6. ASSUME NEW reached \in BOOLEAN, RetryRequest(reached) PROVE FreshConnection'
  BY <1>6 DEF RetryRequest, ResetBody
<1>7. ASSUME NEW reached \in BOOLEAN, GiveUp(reached) PROVE FreshConnection'
  BY <1>7 DEF GiveUp, Fail, bodyVars
<1>8. ASSUME NEW is200 \in BOOLEAN, NEW copied \in BOOLEAN, Answer(is200, copied) PROVE FreshConnection'
  BY <1>8 DEF Answer, Fail, Done, bodyVars
<1>9. CASE UNCHANGED httpVars
  BY <1>9 DEF httpVars, connVars, bodyVars
<1> QED
  BY <1>1, <1>2, <1>3, <1>4, <1>5, <1>6, <1>7, <1>8, <1>9 DEF HttpNext

\* The body.
LEMMA BodyStep == ClientInv /\ [HttpNext]_httpVars => BodyKept'
<1> SUFFICES ASSUME ClientInv, [HttpNext]_httpVars PROVE BodyKept'
  OBVIOUS
<1> USE BodyAssumption, RequestAssumption DEF ClientInv, HttpTypeOK, Connected, BodyKept, WholeBody
<1>1. CASE ClientInit
  BY <1>1 DEF ClientInit, connVars
<1>2. CASE Tick
  BY <1>2 DEF Tick, bodyVars
<1>3. CASE NoClient
  BY <1>3 DEF NoClient, connVars, bodyVars
<1>4. ASSUME NEW m \in {"GET", "POST"}, Start(m) PROVE BodyKept'
  BY <1>4 DEF Start, ResetBody
<1>5. ASSUME NEW d \in Chunks, OnData(d) PROVE BodyKept'
  BY <1>5 DEF OnData, connVars
<1>6. ASSUME NEW reached \in BOOLEAN, RetryRequest(reached) PROVE BodyKept'
  BY <1>6 DEF RetryRequest, ResetBody
<1>7. ASSUME NEW reached \in BOOLEAN, GiveUp(reached) PROVE BodyKept'
  BY <1>7 DEF GiveUp, Fail, bodyVars
<1>8. ASSUME NEW is200 \in BOOLEAN, NEW copied \in BOOLEAN, Answer(is200, copied) PROVE BodyKept'
  BY <1>8 DEF Answer, Fail, Done, bodyVars
<1>9. CASE UNCHANGED httpVars
  BY <1>9 DEF httpVars, connVars, bodyVars
<1> QED
  BY <1>1, <1>2, <1>3, <1>4, <1>5, <1>6, <1>7, <1>8, <1>9 DEF HttpNext

\* The types.
LEMMA TypeStep == ClientInv /\ [HttpNext]_httpVars => HttpTypeOK'
<1> SUFFICES ASSUME ClientInv, [HttpNext]_httpVars PROVE HttpTypeOK'
  OBVIOUS
<1> USE BodyAssumption, RequestAssumption DEF ClientInv, HttpTypeOK, Connected
<1> DEFINE Numbers == /\ idle \in 0 .. IdleClose + 1 /\ reusedAt \in 0 .. IdleClose + 1
                      /\ cap \in Nat /\ len \in Nat /\ received \in Nat
                      /\ outLen \in Nat /\ applied \in Nat
           Words   == /\ phase \in {"idle", "first", "second"} /\ method \in {"GET", "POST"}
                      /\ result \in {"none", "ok", "fail"}
           Flags   == /\ client \in BOOLEAN /\ open \in BOOLEAN /\ used \in BOOLEAN /\ oom \in BOOLEAN
                      /\ used => open
<1>1. CASE ClientInit
  BY <1>1 DEF ClientInit, connVars
<1>2. CASE Tick
  BY <1>2 DEF Tick, bodyVars
<1>3. CASE NoClient
  BY <1>3 DEF NoClient, connVars, bodyVars
<1>4. ASSUME NEW m \in {"GET", "POST"}, Start(m) PROVE HttpTypeOK'
  <2>1. Numbers'
    BY <1>4 DEF Start, ResetBody
  <2>2. Words'
    BY <1>4 DEF Start, ResetBody
  <2>3. Flags'
    BY <1>4 DEF Start, ResetBody
  <2> QED
    BY <2>1, <2>2, <2>3
<1>5. ASSUME NEW d \in Chunks, OnData(d) PROVE HttpTypeOK'
  <2>1. Numbers'
    BY <1>5 DEF OnData, connVars
  <2>2. Words'
    BY <1>5 DEF OnData, connVars
  <2>3. Flags'
    BY <1>5 DEF OnData, connVars
  <2> QED
    BY <2>1, <2>2, <2>3
<1>6. ASSUME NEW reached \in BOOLEAN, RetryRequest(reached) PROVE HttpTypeOK'
  <2>1. Numbers'
    BY <1>6 DEF RetryRequest, ResetBody
  <2>2. Words'
    BY <1>6 DEF RetryRequest, ResetBody
  <2>3. Flags'
    BY <1>6 DEF RetryRequest, ResetBody
  <2> QED
    BY <2>1, <2>2, <2>3
<1>7. ASSUME NEW reached \in BOOLEAN, GiveUp(reached) PROVE HttpTypeOK'
  <2>1. Numbers'
    BY <1>7 DEF GiveUp, Fail, bodyVars
  <2>2. Words'
    BY <1>7 DEF GiveUp, Fail, bodyVars
  <2>3. Flags'
    BY <1>7 DEF GiveUp, Fail, bodyVars
  <2> QED
    BY <2>1, <2>2, <2>3
<1>8. ASSUME NEW is200 \in BOOLEAN, NEW copied \in BOOLEAN, Answer(is200, copied) PROVE HttpTypeOK'
  <2>1. (Fail \/ Done) /\ reusedAt' = reusedAt /\ UNCHANGED bodyVars
    BY <1>8 DEF Answer
  <2>2. idle' \in {0, idle}
    BY <2>1 DEF Fail, Done
  <2>3. outLen' \in {outLen, len}
    <3>1. CASE method = "GET" /\ (~is200 \/ oom)
      BY <1>8, <3>1 DEF Answer, Fail
    <3>2. CASE ~(method = "GET" /\ (~is200 \/ oom))
      BY <1>8, <3>2 DEF Answer
    <3> QED
      BY <3>1, <3>2
  <2>4. applied' \in {applied, applied + 1}
    BY <1>8 DEF Answer
  <2>5. Numbers'
    BY <2>1, <2>2, <2>3, <2>4 DEF bodyVars
  <2>6. Words'
    BY <1>8 DEF Answer, Fail, Done, bodyVars
  <2>7. Flags'
    BY <1>8 DEF Answer, Fail, Done, bodyVars
  <2> QED
    BY <2>5, <2>6, <2>7
<1>9. CASE UNCHANGED httpVars
  BY <1>9 DEF httpVars, connVars, bodyVars
<1> QED
  BY <1>1, <1>2, <1>3, <1>4, <1>5, <1>6, <1>7, <1>8, <1>9 DEF HttpNext

LEMMA ClientStep == ClientInv /\ [HttpNext]_httpVars => ClientInv'
  BY ConnectedStep, FreshStep, BodyStep, TypeStep DEF ClientInv

LEMMA ClientInvariant == HttpSpec => []ClientInv
  BY ClientStarts, ClientStep, PTL DEF HttpSpec

\* The types, and that the time stamp always is that of an open connection
\* (grocy_client.c:71-119).
THEOREM HttpTypes == HttpSpec => []HttpTypeOK
<1>1. ClientInv => HttpTypeOK
  BY DEF ClientInv
<1> QED
  BY <1>1, ClientInvariant, PTL

\* The growth rule of http_event_handler leaves room for the terminator after
\* every chunk, whatever its size (grocy_client.c:37-65).
THEOREM BodyAlwaysFits == HttpSpec => []BodyFits
<1>1. ClientInv => BodyFits
  BY DEF ClientInv, BodyKept, BodyFits
<1> QED
  BY <1>1, ClientInvariant, PTL

\* A GET never returns bytes of a failed attempt nor a body cut short
\* (grocy_client.c:82-119).
THEOREM BodyIsWhole == HttpSpec => []WholeBody
<1>1. ClientInv => WholeBody
  BY DEF ClientInv, BodyKept
<1> QED
  BY <1>1, ClientInvariant, PTL

\* No request takes a connection that was idle for longer than the limit
\* (grocy_client.c:75-80).
THEOREM ConnectionIsFresh == HttpSpec => []FreshConnection
<1>1. ClientInv => FreshConnection
  BY DEF ClientInv
<1> QED
  BY <1>1, ClientInvariant, PTL

-----------------------------------------------------------------------------
(* The product list: the two passes agree on the size of the array.  The   *)
(* first pass has counted the rows of MatchSet(i - 1); what the second has *)
(* kept of the same rows is a subset of them.                              *)

MatchSet(n) == {k \in 1 .. n : Matches(table[k])}

Reading == step \in {"products", "groups", "entries", "parents"} =>
              at = 1 /\ match_count = 0 /\ products = <<>>
Counting == step = "count" => match_count = Cardinality(MatchSet(at - 1)) /\ products = <<>>
Counted  == step \in {"alloc", "fill"} => match_count = Cardinality(MatchSet(Len(table)))
Unfilled == step = "alloc" => products = <<>>
Filling  == step = "fill" => Len(products) <= Cardinality(MatchSet(at - 1))
Filled   == step \in {"sort", "done"} => Len(products) <= match_count

ListInv == ListTypeOK /\ Reading /\ Counting /\ Counted /\ Unfilled /\ Filling /\ Filled

-----------------------------------------------------------------------------
\* The rows counted so far are finitely many, and no more than were looked at.
LEMMA MatchesBounded ==
    ASSUME NEW n \in Nat
    PROVE  IsFiniteSet(MatchSet(n)) /\ Cardinality(MatchSet(n)) \in 0 .. n
<1>1. IsFiniteSet(1 .. n) /\ Cardinality(1 .. n) = n
  BY FS_Interval
<1>2. MatchSet(n) \subseteq 1 .. n
  BY DEF MatchSet
<1> QED BY <1>1, <1>2, FS_Subset, FS_CardinalityType

\* One more row counts for one if it matches and for nothing if it does not.
LEMMA MatchStep ==
    ASSUME NEW n \in Nat
    PROVE  Cardinality(MatchSet(n + 1)) =
             IF Matches(table[n + 1]) THEN Cardinality(MatchSet(n)) + 1
                                      ELSE Cardinality(MatchSet(n))
<1>1. CASE Matches(table[n + 1])
  <2>1. MatchSet(n + 1) = MatchSet(n) \cup {n + 1}
    BY <1>1 DEF MatchSet
  <2>2. n + 1 \notin MatchSet(n)
    BY DEF MatchSet
  <2> QED BY <1>1, <2>1, <2>2, MatchesBounded, FS_AddElement
<1>2. CASE ~ Matches(table[n + 1])
  <2>1. MatchSet(n + 1) = MatchSet(n)
    BY <1>2 DEF MatchSet
  <2> QED BY <1>2, <2>1
<1> QED BY <1>1, <1>2

\* A permutation of a sequence is a sequence of the same items and length.
LEMMA PermutedType ==
    ASSUME NEW S, NEW s \in Seq(S), NEW t \in Permuted(s)
    PROVE  t \in Seq(S) /\ Len(t) = Len(s)
<1>1. PICK f \in [1 .. Len(s) -> 1 .. Len(s)] : t = [k \in 1 .. Len(s) |-> s[f[k]]]
  BY DEF Permuted
<1>2. \A k \in 1 .. Len(s) : s[f[k]] \in S
  BY <1>1
<1>3. t \in [1 .. Len(s) -> S]
  BY <1>1, <1>2
<1> QED BY <1>3

\* The row that a pass looks at is one of Rows.
LEMMA RowType ==
    ASSUME ListTypeOK, NEW k \in 1 .. Len(table)
    PROVE  /\ table[k] \in Rows
           /\ table[k].id \in Nat /\ table[k].parent \in Nat
<1>1. table \in Seq(Rows)
  BY DEF ListTypeOK
<1>2. table[k] \in Rows
  BY <1>1
<1> QED
  BY <1>2, RowsAssumption

\* What the list shows of a row is well typed.
LEMMA ItemType ==
    ASSUME ListTypeOK, NEW k \in 1 .. Len(table)
    PROVE  ItemOf(table[k]) \in Item
<1>1. table[k] \in Rows
  BY RowType
<1>2. table[k] \in [id : Nat, here : BOOLEAN, parent : Nat, group : Nat, name : Nat]
  BY <1>1, RowsAssumption
<1>3. Entries[table[k].id] \in Nat
  BY <1>1, EntriesAssumption
<1> QED BY <1>2, <1>3, BoundAssumption DEF ItemOf, Item

-----------------------------------------------------------------------------
\* The invariant holds before the first request is sent.
LEMMA ListStarts == ListInit => ListInv
<1> SUFFICES ASSUME ListInit PROVE ListInv
  OBVIOUS
<1>1. table \in Seq(Rows) /\ Len(table) <= MaxRows /\ Len(table) \in Nat
  BY BoundAssumption DEF ListInit
<1>2. ListTypeOK
  <2>1. at \in 1 .. Len(table) + 1 /\ match_count \in 0 .. Len(table)
    BY <1>1 DEF ListInit
  <2>2. products \in Seq(Item) /\ parent_ids \subseteq Nat \ {0}
    BY DEF ListInit
  <2>3. live \subseteq Buffers
    BY DEF ListInit
  <2> QED BY <1>1, <2>1, <2>2, <2>3 DEF ListInit, ListTypeOK
<1> QED BY <1>2 DEF ListInit, ListInv, Reading, Counting, Counted, Unfilled, Filling, Filled

\* Every step of the function keeps the types: the counts stay within the table.
LEMMA ListTypeStep == ListInv /\ [ListNext]_listVars => ListTypeOK'
<1> SUFFICES ASSUME ListInv, [ListNext]_listVars PROVE ListTypeOK'
  OBVIOUS
<1> USE DEF ListInv
<1>1. CASE GetProducts
  BY <1>1 DEF GetProducts, Return, ListTypeOK, inputVars, Buffers
<1>2. CASE GetGroups
  BY <1>2 DEF GetGroups, ListTypeOK, Buffers
<1>3. CASE GetEntries
  BY <1>3 DEF GetEntries, ListTypeOK, Buffers
<1>4. CASE Parents
  <2>1. {table[k].parent : k \in 1 .. Len(table)} \subseteq Nat
    BY RowType
  <2> QED BY <1>4, <2>1 DEF Parents, ListTypeOK, Buffers
<1>5. CASE CountRow
  <2>1. Len(table) \in Nat /\ at - 1 \in Nat /\ at - 1 <= Len(table)
    BY DEF ListTypeOK
  <2>2. match_count <= at - 1
    BY <1>5, <2>1, MatchesBounded DEF CountRow, Counting
  <2>3. at' \in 1 .. Len(table)' + 1 /\ match_count' \in 0 .. Len(table)'
    BY <1>5, <2>1, <2>2 DEF CountRow, ListTypeOK, inputVars
  <2> QED BY <1>5, <2>3 DEF CountRow, ListTypeOK, inputVars
<1>6. CASE Allocate
  <2>1. live' \subseteq Buffers
    BY <1>6 DEF Allocate, ListTypeOK, Buffers
  <2>2. step' \in {"done", "fill"} /\ ret' \in {"none", "ok", "fail"}
    BY <1>6 DEF Allocate, Return, ListTypeOK
  <2>3. at' \in 1 .. Len(table)' + 1
    BY <1>6 DEF Allocate, ListTypeOK
  <2> QED BY <1>6, <2>1, <2>2, <2>3 DEF Allocate, ListTypeOK, inputVars
<1>7. CASE FillRow
  <2>1. products' \in Seq(Item)
    <3>1. CASE at <= Len(table)
      <4>1. at \in 1 .. Len(table)
        BY <3>1 DEF ListTypeOK
      <4>2. ItemOf(table[at]) \in Item
        BY <4>1, ItemType
      <4>3. products' \in {products, Append(products, ItemOf(table[at]))}
        BY <1>7, <3>1, Zenon DEF FillRow
      <4> QED BY <4>2, <4>3 DEF ListTypeOK
    <3>2. CASE ~ (at <= Len(table))
      BY <1>7, <3>2 DEF FillRow, ListTypeOK
    <3> QED BY <3>1, <3>2
  <2>2. at' \in 1 .. Len(table)' + 1
    BY <1>7 DEF FillRow, ListTypeOK
  <2> QED BY <1>7, <2>1, <2>2 DEF FillRow, ListTypeOK, inputVars, Buffers
<1>8. CASE Sort
  <2>1. products' \in Seq(Item)
    BY <1>8, PermutedType DEF Sort, ListTypeOK
  <2> QED BY <1>8, <2>1 DEF Sort, Return, ListTypeOK, inputVars
<1>9. CASE UNCHANGED listVars
  BY <1>9 DEF listVars, inputVars, ListTypeOK
<1> QED BY <1>1, <1>2, <1>3, <1>4, <1>5, <1>6, <1>7, <1>8, <1>9 DEF ListNext

\* Every step keeps what the counts and the list mean.
LEMMA ListCounts ==
    ListInv /\ [ListNext]_listVars =>
        Reading' /\ Counting' /\ Counted' /\ Unfilled' /\ Filling' /\ Filled'
<1> SUFFICES ASSUME ListInv, [ListNext]_listVars
             PROVE  Reading' /\ Counting' /\ Counted' /\ Unfilled' /\ Filling' /\ Filled'
  OBVIOUS
<1> USE DEF ListInv
<1>t. Len(table) \in Nat /\ at \in 1 .. Len(table) + 1 /\ Len(products) \in Nat /\ match_count \in Nat
  BY DEF ListTypeOK
<1>1. CASE GetProducts
  BY <1>1 DEF GetProducts, Return, Reading, Counting, Counted, Unfilled, Filling, Filled
<1>2. CASE GetGroups
  BY <1>2 DEF GetGroups, Reading, Counting, Counted, Unfilled, Filling, Filled
<1>3. CASE GetEntries
  BY <1>3 DEF GetEntries, Reading, Counting, Counted, Unfilled, Filling, Filled
<1>4. CASE Parents
  <2>1. Cardinality(MatchSet(0))' = 0
    <3>1. MatchSet(0)' = {}
      BY DEF MatchSet
    <3> QED BY <3>1, FS_EmptySet
  <2>2. at' = 1 /\ match_count' = 0 /\ products' = <<>>
    BY <1>4 DEF Parents, Reading
  <2>3. Cardinality(MatchSet(at - 1))' = 0
    <3>1. MatchSet(at - 1)' = {}
      BY <2>2 DEF MatchSet
    <3> QED BY <3>1, FS_EmptySet
  <2> QED BY <1>4, <2>2, <2>3 DEF Parents, Reading, Counting, Counted, Unfilled, Filling,
                                    Filled
<1>5. CASE CountRow
  <2>1. CASE at <= Len(table)
    <3>1. MatchSet(at - 1)' = MatchSet(at)
      BY <1>5, <2>1, <1>t DEF CountRow, MatchSet, Matches, inputVars
    <3>2. Cardinality(MatchSet(at)) = IF Matches(table[at]) THEN Cardinality(MatchSet(at - 1)) + 1
                                     ELSE Cardinality(MatchSet(at - 1))
      <4>1. at - 1 \in Nat /\ (at - 1) + 1 = at
        BY <1>t
      <4> QED BY <4>1, MatchStep
    <3>3. Counting'
      BY <1>5, <2>1, <3>1, <3>2 DEF CountRow, Counting
    <3> QED BY <1>5, <2>1, <3>3 DEF CountRow, Reading, Counted, Unfilled, Filling, Filled
  <2>2. CASE ~ (at <= Len(table))
    <3>1. at - 1 = Len(table)
      BY <2>2, <1>t
    <3>2. MatchSet(Len(table))' = MatchSet(at - 1)
      BY <1>5, <3>1 DEF CountRow, MatchSet, Matches, inputVars
    <3> QED BY <1>5, <2>2, <3>2 DEF CountRow, Reading, Counting, Counted, Unfilled, Filling,
                                    Filled
  <2> QED BY <2>1, <2>2
<1>6. CASE Allocate
  <2>1. MatchSet(Len(table))' = MatchSet(Len(table))
    BY <1>6 DEF Allocate, MatchSet, Matches, inputVars
  <2>2. MatchSet(at - 1)' = {}
    BY <1>6 DEF Allocate, MatchSet
  <2>3. products' = <<>> /\ match_count' = match_count
    BY <1>6 DEF Allocate, Unfilled
  <2> QED BY <1>6, <1>t, <2>1, <2>2, <2>3, FS_EmptySet
          DEF Allocate, Return, Reading, Counting, Counted, Unfilled, Filling, Filled
<1>7. CASE FillRow
  <2>0. MatchSet(Len(table))' = MatchSet(Len(table)) /\ match_count' = match_count
    BY <1>7 DEF FillRow, MatchSet, Matches, inputVars
  <2>1. CASE at <= Len(table)
    <3>1. MatchSet(at - 1)' = MatchSet(at)
      BY <1>7, <2>1, <1>t DEF FillRow, MatchSet, Matches, inputVars
    <3>2. Cardinality(MatchSet(at)) = IF Matches(table[at]) THEN Cardinality(MatchSet(at - 1)) + 1
                                     ELSE Cardinality(MatchSet(at - 1))
      <4>1. at - 1 \in Nat /\ (at - 1) + 1 = at
        BY <1>t
      <4> QED BY <4>1, MatchStep
    <3>3. Cardinality(MatchSet(at - 1)) \in Nat
      BY <1>t, MatchesBounded
    <3>4. Fills(table[at]) => Matches(table[at])
      BY DEF Fills, Matches
    <3>5. Len(products') = IF Fills(table[at]) THEN Len(products) + 1 ELSE Len(products)
      <4>1. products \in Seq(Item)
        BY DEF ListTypeOK
      <4>2. CASE Fills(table[at])
        BY <1>7, <2>1, <4>1, <4>2 DEF FillRow
      <4>3. CASE ~Fills(table[at])
        BY <1>7, <2>1, <4>1, <4>3 DEF FillRow
      <4> QED
        BY <4>2, <4>3
    <3>6. Filling'
      BY <1>7, <1>t, <3>1, <3>2, <3>3, <3>4, <3>5 DEF FillRow, Filling
    <3> QED BY <1>7, <2>0, <2>1, <3>6 DEF FillRow, Reading, Counting, Counted, Unfilled,
                                          Filled
  <2>2. CASE ~ (at <= Len(table))
    <3>1. at - 1 = Len(table)
      BY <2>2, <1>t
    <3> QED BY <1>7, <2>2, <3>1 DEF FillRow, Reading, Counting, Counted, Unfilled, Filling,
                                    Filled
  <2> QED BY <2>1, <2>2
<1>8. CASE Sort
  <2>1. Len(products') = Len(products)
    BY <1>8, PermutedType DEF Sort, ListTypeOK
  <2> QED BY <1>8, <2>1 DEF Sort, Return, Reading, Counting, Counted, Unfilled, Filling, Filled
<1>9. CASE UNCHANGED listVars
  <2>1. MatchSet(at - 1)' = MatchSet(at - 1) /\ MatchSet(Len(table))' = MatchSet(Len(table))
    BY <1>9 DEF listVars, inputVars, MatchSet, Matches
  <2> QED BY <1>9, <2>1 DEF listVars, inputVars, Reading, Counting, Counted, Unfilled, Filling,
                            Filled
<1> QED BY <1>1, <1>2, <1>3, <1>4, <1>5, <1>6, <1>7, <1>8, <1>9 DEF ListNext

\* What the invariant says of the counts implies that the list is inside its array.
LEMMA ListInBounds == ListInv => InBounds
<1> SUFFICES ASSUME ListInv PROVE InBounds
  OBVIOUS
<1>t. Len(table) \in Nat /\ at - 1 \in Nat /\ at - 1 <= Len(table) /\ match_count \in Nat
  BY DEF ListInv, ListTypeOK
<1>1. CASE step = "fill"
  <2>1. MatchSet(at - 1) \subseteq MatchSet(Len(table))
    BY <1>t DEF MatchSet
  <2>2. Cardinality(MatchSet(at - 1)) <= Cardinality(MatchSet(Len(table)))
    BY <1>t, <2>1, MatchesBounded, FS_Subset
  <2>3. Cardinality(MatchSet(at - 1)) \in Nat /\ Cardinality(MatchSet(Len(table))) \in Nat
    BY <1>t, MatchesBounded
  <2> QED BY <1>1, <1>t, <2>2, <2>3 DEF ListInv, ListTypeOK, Filling, Counted, InBounds
<1>2. CASE step \in {"sort", "done"}
  BY <1>2 DEF ListInv, Filled, InBounds
<1>3. CASE step \in {"products", "groups", "entries", "parents", "count", "alloc"}
  BY <1>3, <1>t DEF ListInv, Reading, Counting, Unfilled, InBounds
<1> QED BY <1>1, <1>2, <1>3 DEF ListInv, ListTypeOK

\* The invariant holds throughout every run of the function.
LEMMA ListInvariant == ListSpec => []ListInv
<1>1. ListInv /\ [ListNext]_listVars => ListInv'
  BY ListTypeStep, ListCounts DEF ListInv
<1> QED BY ListStarts, <1>1, PTL DEF ListSpec

\* Type correctness of grocy_fetch_location_products.
THEOREM ListTypes == ListSpec => []ListTypeOK
BY ListInvariant, PTL DEF ListInv

\* No product table makes the second pass write outside the array that the first
\* pass measured (grocy_client.c:346-436).
THEOREM WritesInBounds == ListSpec => []InBounds
BY ListInvariant, ListInBounds, PTL

-----------------------------------------------------------------------------
(* What is in the list                                                     *)

Kept(n) == {m \in 1 .. n : Fills(table[m])}

\* ps is the list of the rows kept among the first n, in any order.
Gathers(ps, n) ==
    /\ \A k \in 1 .. Len(ps) : \E m \in Kept(n) : Shows(ps[k], table[m])
    /\ \A m \in Kept(n) : \E k \in 1 .. Len(ps) : Shows(ps[k], table[m])
    /\ \A a, b \in 1 .. Len(ps) : ps[a].id = ps[b].id => a = b

\* None of the first n rows is counted.
NoMatch(n) == \A m \in 1 .. n : ~Matches(table[m])

ContentInv ==
    /\ NoDuplicate(table)
    /\ step \in {"products", "groups", "entries", "parents"} => ~hidden
    /\ hidden =>
         parent_ids = {table[k].parent : k \in 1 .. Len(table)} \ {0}
    /\ step # "done" => ret = "none"
    /\ step = "count" /\ match_count = 0 => NoMatch(at - 1)
    /\ step = "alloc" /\ match_count = 0 => NoMatch(Len(table))
    /\ step = "fill" => Gathers(products, at - 1)
    /\ step = "sort" => Gathers(products, Len(table))
    /\ ret = "ok" => Gathers(products, Len(table))

\* The second pass looks at one more row, and appends it if it keeps it: no
\* earlier row has its id.
LEMMA GathersNext ==
    ASSUME ListTypeOK, NoDuplicate(table), NEW n \in 0 .. Len(table) - 1, Gathers(products, n),
           NEW ps, ps = IF Fills(table[n + 1]) THEN Append(products, ItemOf(table[n + 1]))
                                               ELSE products
    PROVE  Gathers(ps, n + 1)
<1>1. products \in Seq(Item) /\ Len(products) \in Nat /\ n + 1 \in 1 .. Len(table)
  BY DEF ListTypeOK
<1> DEFINE L == Len(products)  item == ItemOf(table[n + 1])
<1>2. CASE ~Fills(table[n + 1])
  <2>1. Kept(n + 1) = Kept(n) /\ ps = products
    BY <1>2 DEF Kept
  <2> QED
    BY <2>1 DEF Gathers
<1>3. CASE Fills(table[n + 1])
  <2>1. /\ item \in Item /\ item.id = table[n + 1].id
        /\ Shows(item, table[n + 1])
    BY <1>1, ItemType DEF ItemOf, Shows
  <2> HIDE DEF item
  <2>2. /\ Len(ps) = L + 1 /\ ps[L + 1] = item /\ \A k \in 1 .. L : ps[k] = products[k]
    BY <1>1, <1>3, <2>1 DEF item
  <2>3. Kept(n + 1) = Kept(n) \cup {n + 1}
    BY <1>3 DEF Kept
  <2>4. \A m \in Kept(n) : table[m].id # item.id
    <3> SUFFICES ASSUME NEW m \in Kept(n), table[m].id = table[n + 1].id PROVE FALSE
      BY <2>1
    <3>1. m \in 1 .. n /\ m \in 1 .. Len(table) /\ table[m].id # 0
      BY <1>1 DEF Kept, Fills
    <3>2. m = n + 1
      BY <1>1, <3>1 DEF NoDuplicate
    <3> QED
      BY <1>1, <3>1, <3>2
  <2>5. \A k \in 1 .. L : products[k].id # item.id
    BY <2>4 DEF Gathers, Shows
  <2>6. \A k \in 1 .. L + 1 : \E m \in Kept(n + 1) : Shows(ps[k], table[m])
    <3> SUFFICES ASSUME NEW k \in 1 .. L + 1 PROVE \E m \in Kept(n + 1) : Shows(ps[k], table[m])
      OBVIOUS
    <3>1. CASE k \in 1 .. L
      BY <2>2, <2>3, <3>1 DEF Gathers
    <3>2. CASE k = L + 1
      <4>1. ps[k] = item /\ n + 1 \in Kept(n + 1)
        BY <1>1, <2>2, <2>3, <3>2
      <4> QED
        BY <2>1, <4>1
    <3> QED
      BY <1>1, <3>1, <3>2
  <2>7. \A m \in Kept(n + 1) : \E k \in 1 .. L + 1 : Shows(ps[k], table[m])
    <3> SUFFICES ASSUME NEW m \in Kept(n + 1) PROVE \E k \in 1 .. L + 1 : Shows(ps[k], table[m])
      OBVIOUS
    <3>1. CASE m \in Kept(n)
      <4>1. PICK k \in 1 .. L : Shows(products[k], table[m])
        BY <3>1 DEF Gathers
      <4> QED
        BY <1>1, <2>2, <4>1
    <3>2. CASE m = n + 1
      <4>1. L + 1 \in 1 .. L + 1 /\ Shows(ps[L + 1], table[m])
        BY <1>1, <2>1, <2>2, <3>2
      <4> QED
        BY <4>1
    <3> QED
      BY <2>3, <3>1, <3>2
  <2>8. \A a, b \in 1 .. L + 1 : ps[a].id = ps[b].id => a = b
    <3> SUFFICES ASSUME NEW a \in 1 .. L + 1, NEW b \in 1 .. L + 1, ps[a].id = ps[b].id
                 PROVE  a = b
      OBVIOUS
    <3>1. CASE a \in 1 .. L /\ b \in 1 .. L
      BY <2>2, <3>1 DEF Gathers
    <3>2. CASE a = L + 1 \/ b = L + 1
      BY <1>1, <2>2, <2>5, <3>2
    <3> QED
      BY <1>1, <3>1, <3>2
  <2> QED
    BY <2>2, <2>6, <2>7, <2>8 DEF Gathers
<1> QED
  BY <1>2, <1>3

\* Sorting changes the order only: an injection of a finite set into itself
\* leaves none of its elements out.
LEMMA GathersPermuted ==
    ASSUME NEW ps \in Seq(Item), NEW qs \in Permuted(ps), NEW n, Gathers(ps, n)
    PROVE  Gathers(qs, n)
<1> DEFINE D == 1 .. Len(ps)
<1>1. PICK f \in [D -> D] : /\ \A a, b \in D : f[a] = f[b] => a = b
                            /\ qs = [k \in D |-> ps[f[k]]]
  BY DEF Permuted
<1>2. IsFiniteSet(D)
  BY FS_Interval
<1>3. f \in Injection(D, D)
  BY <1>1 DEF Injection, IsInjective
<1>4. f \in Surjection(D, D)
  BY <1>2, <1>3, FS_Injection
<1>5. \A k \in D : \E j \in D : f[j] = k
  BY <1>4 DEF Surjection
<1>6. Len(qs) = Len(ps) /\ \A k \in D : qs[k] = ps[f[k]] /\ f[k] \in D
  BY <1>1, PermutedType
<1>7. \A k \in D : \E m \in Kept(n) : Shows(qs[k], table[m])
  <2> SUFFICES ASSUME NEW k \in D PROVE \E m \in Kept(n) : Shows(qs[k], table[m])
    OBVIOUS
  <2>1. qs[k] = ps[f[k]] /\ f[k] \in 1 .. Len(ps)
    BY <1>6
  <2> QED
    BY <2>1 DEF Gathers
<1>8. \A m \in Kept(n) : \E k \in D : Shows(qs[k], table[m])
  <2> SUFFICES ASSUME NEW m \in Kept(n) PROVE \E k \in D : Shows(qs[k], table[m])
    OBVIOUS
  <2>1. PICK k \in D : Shows(ps[k], table[m])
    BY DEF Gathers
  <2>2. PICK j \in D : f[j] = k
    BY <1>5
  <2> QED
    BY <1>6, <2>1, <2>2
<1>9. \A a, b \in D : qs[a].id = qs[b].id => a = b
  <2> SUFFICES ASSUME NEW a \in D, NEW b \in D, qs[a].id = qs[b].id PROVE a = b
    OBVIOUS
  <2>1. ps[f[a]].id = ps[f[b]].id /\ f[a] \in D /\ f[b] \in D
    BY <1>6
  <2>2. f[a] = f[b]
    BY <2>1 DEF Gathers
  <2> QED
    BY <1>1, <2>2
<1> QED
  BY <1>6, <1>7, <1>8, <1>9 DEF Gathers

LEMMA ContentStep == ListInv /\ ContentInv /\ [ListNext]_listVars => ContentInv'
<1> SUFFICES ASSUME ListTypeOK, Reading, Unfilled, ContentInv, [ListNext]_listVars
             PROVE  ContentInv'
  BY DEF ListInv
<1>1. CASE GetProducts \/ GetGroups \/ GetEntries
  <2>1. /\ step \in {"products", "groups", "entries"} /\ hidden' = hidden /\ table' = table
        /\ \/ step' \in {"groups", "entries", "parents"} /\ ret' = ret
           \/ step' = "done" /\ ret' = "fail"
    BY <1>1 DEF GetProducts, GetGroups, GetEntries, Return, inputVars
  <2>2. ret = "none"
    BY <2>1 DEF ContentInv
  <2> QED
    BY <2>1, <2>2 DEF ContentInv
<1>2. CASE Parents
  <2>1. at' = 1 /\ step' = "count"
    BY <1>2 DEF Parents, Reading
  <2>2. NoMatch(at - 1)'
    BY <2>1 DEF NoMatch
  <2>3. /\ step = "parents" /\ UNCHANGED <<table, ret>>
        /\ hidden' => parent_ids' = {table[k].parent : k \in 1 .. Len(table)} \ {0}
    BY <1>2 DEF Parents
  <2>4. ret = "none"
    BY <2>3 DEF ContentInv
  <2> QED
    BY <2>1, <2>2, <2>3, <2>4 DEF ContentInv
<1>3. CASE CountRow
  <2>1. /\ step = "count" /\ step' \in {"count", "alloc"} /\ ret = "none"
        /\ UNCHANGED <<table, hidden, parent_ids, ret>>
    BY <1>3 DEF CountRow, inputVars, ContentInv
  <2>2. \A n : NoMatch(n)' <=> NoMatch(n')
    BY <2>1 DEF NoMatch, Matches
  <2>3. at \in 1 .. Len(table) + 1 /\ Len(table) \in Nat /\ match_count \in Nat
    BY DEF ListTypeOK
  <2>4. CASE at <= Len(table)
    <3>1. /\ step' = "count" /\ at' = at + 1
          /\ match_count' = IF Matches(table[at]) THEN match_count + 1 ELSE match_count
      BY <1>3, <2>1, <2>4 DEF CountRow
    <3>2. ASSUME match_count' = 0 PROVE NoMatch(at)
      <4>1. match_count = 0 /\ ~Matches(table[at])
        BY <2>3, <3>1, <3>2
      <4>2. NoMatch(at - 1)
        BY <2>1, <4>1 DEF ContentInv
      <4>3. \A m \in 1 .. at : m = at \/ m \in 1 .. at - 1
        BY <2>3
      <4> QED
        BY <4>1, <4>2, <4>3 DEF NoMatch
    <3>3. match_count' = 0 => NoMatch(at - 1)'
      BY <2>1, <2>3, <3>1, <3>2 DEF NoMatch, Matches
    <3> QED
      BY <2>1, <3>1, <3>3 DEF ContentInv
  <2>5. CASE ~(at <= Len(table))
    <3>1. step' = "alloc" /\ match_count' = match_count /\ at - 1 = Len(table)
      BY <1>3, <2>3, <2>5 DEF CountRow
    <3>2. match_count' = 0 => NoMatch(Len(table))'
      BY <2>1, <3>1 DEF ContentInv, NoMatch, Matches
    <3> QED
      BY <2>1, <3>1, <3>2 DEF ContentInv
  <2> QED
    BY <2>4, <2>5
<1>4. CASE Allocate
  <2>1. /\ step = "alloc" /\ step' \in {"done", "fill"} /\ at' = 1
        /\ products' = <<>> /\ match_count' = match_count
        /\ UNCHANGED <<table, hidden, parent_ids, entries, groups>>
        /\ step' # "done" => ret' = "none"
        /\ ret' = "ok" => match_count = 0
    BY <1>4 DEF Allocate, Return, inputVars, ContentInv, Unfilled
  <2>2. Gathers(<<>>, 0)
    <3>1. Kept(0) = {}
      BY DEF Kept
    <3> QED
      BY <3>1 DEF Gathers
  <2>3. Gathers(products, at - 1)'
    BY <2>1, <2>2 DEF Gathers, Kept, Fills
  <2>4. ret' = "ok" => Gathers(products, Len(table))'
    <3> SUFFICES ASSUME ret' = "ok" PROVE Gathers(products, Len(table))'
      OBVIOUS
    <3>1. NoMatch(Len(table))
      BY <2>1 DEF ContentInv
    <3>2. Kept(Len(table)) = {}
      BY <3>1 DEF NoMatch, Matches, Fills, Kept
    <3>3. Gathers(<<>>, Len(table))
      BY <3>2 DEF Gathers
    <3> QED
      BY <2>1, <3>3 DEF Gathers, Kept, Fills, Shows
  <2> QED
    BY <2>1, <2>3, <2>4 DEF ContentInv
<1>5. CASE FillRow
  <2>1. /\ step = "fill" /\ ret = "none"
        /\ UNCHANGED <<table, hidden, parent_ids, entries, groups, ret, match_count>>
    BY <1>5 DEF FillRow, inputVars, ContentInv
  <2>3. at \in 1 .. Len(table) + 1 /\ Len(table) \in Nat /\ Gathers(products, at - 1)
        /\ NoDuplicate(table)
    BY <2>1 DEF ListTypeOK, ContentInv
  <2>4. CASE at <= Len(table)
    <3>1. /\ step' = "fill" /\ at' = at + 1
          /\ products' = IF Fills(table[at]) THEN Append(products, ItemOf(table[at])) ELSE products
      BY <1>5, <2>4 DEF FillRow
    <3>2. at - 1 \in 0 .. Len(table) - 1 /\ (at - 1) + 1 = at /\ at' - 1 = at
      BY <2>3, <2>4, <3>1
    <3>3. Gathers(products', at)
      BY <2>3, <3>1, <3>2, GathersNext
    <3>4. Gathers(products, at - 1)'
      BY <2>1, <3>2, <3>3 DEF Gathers, Kept, Fills, Shows
    <3> QED
      BY <2>1, <3>1, <3>4 DEF ContentInv
  <2>5. CASE ~(at <= Len(table))
    <3>1. step' = "sort" /\ products' = products /\ at - 1 = Len(table)
      BY <1>5, <2>3, <2>5 DEF FillRow
    <3>3. Gathers(products, Len(table))
      BY <2>3, <3>1
    <3>2. Gathers(products, Len(table))'
      BY <2>1, <3>1, <3>3 DEF Gathers, Kept, Fills, Shows
    <3> QED
      BY <2>1, <3>1, <3>2 DEF ContentInv
  <2> QED
    BY <2>4, <2>5
<1>6. CASE Sort
  <2>1. /\ step = "sort" /\ step' = "done" /\ products' \in Permuted(products)
        /\ UNCHANGED <<table, hidden, parent_ids, entries, groups, match_count>>
    BY <1>6 DEF Sort, Return, inputVars
  <2>2. Gathers(products', Len(table))
    BY <2>1, GathersPermuted DEF ContentInv, ListTypeOK
  <2>3. Gathers(products, Len(table))'
    BY <2>1, <2>2 DEF Gathers, Kept, Fills, Shows
  <2> QED
    BY <2>1, <2>3 DEF ContentInv
<1>7. CASE UNCHANGED listVars
  <2>1. /\ UNCHANGED <<table, step, at, hidden, parent_ids, entries, groups>>
        /\ UNCHANGED <<match_count, products, ret>>
    BY <1>7 DEF listVars, inputVars
  <2>2. /\ Gathers(products, at - 1)' <=> Gathers(products, at - 1)
        /\ Gathers(products, Len(table))' <=> Gathers(products, Len(table))
        /\ NoMatch(at - 1)' <=> NoMatch(at - 1)
        /\ NoMatch(Len(table))' <=> NoMatch(Len(table))
    BY <2>1 DEF Gathers, Kept, Fills, Shows, NoMatch, Matches
  <2> QED
    BY <2>1, <2>2 DEF ContentInv
<1> QED
  BY <1>1, <1>2, <1>3, <1>4, <1>5, <1>6, <1>7 DEF ListNext

\* The list is every product of the location that is nobody's parent, once, with
\* its own name, category and stock, or "Other" and 0 where a GET failed, for
\* every product table without a duplicate id (grocy_client.c:323-436).
THEOREM ListIsLeaves == ListSpec => []LeafList
<1>1. ListInit => ContentInv
  BY DEF ListInit, ContentInv
<1>2. ListTypeOK /\ ContentInv => LeafList
  <2> SUFFICES ASSUME ListTypeOK, ContentInv, ret = "ok", hidden
               PROVE  LeafList
    BY DEF LeafList
  <2>1. /\ Gathers(products, Len(table))
        /\ parent_ids = {table[k].parent : k \in 1 .. Len(table)} \ {0}
    BY DEF ContentInv
  <2>2. \A m \in 1 .. Len(table) : Fills(table[m]) <=> Leaf(table[m])
    BY <2>1 DEF Fills, Leaf
  <2>3. Kept(Len(table)) = {m \in 1 .. Len(table) : Leaf(table[m])}
    BY <2>2 DEF Kept
  <2> QED
    BY <2>1, <2>3 DEF Gathers, LeafList
<1>3. ListInv => ListTypeOK
  BY DEF ListInv
<1> QED
  BY <1>1, <1>2, <1>3, ListInvariant, ContentStep, PTL DEF ListSpec
=============================================================================
