---------------------------- MODULE ProductList ----------------------------
(***************************************************************************)
(* grocy_fetch_location_products (grocy_client.c): three GETs, the set of  *)
(* parent products, one pass over the product table that counts the rows  *)
(* to show, an allocation of that size, a second pass that fills it, a     *)
(* sort, and what ui_main.c makes of the order: one header per category.   *)
(*                                                                         *)
(* A row stands for a JSON object of the product table: id 0 for a row     *)
(* without an id, here for a matching location_id, parent 0 for none,      *)
(* group 0 for none.  Names and categories are their rank in the           *)
(* case-insensitive order; OtherRank is that of "Other".                   *)
(***************************************************************************)
EXTENDS Integers, Sequences, FiniteSets

CONSTANTS
    Rows,        \* the rows the table can have
    MaxRows,     \* bound on their number
    Entries,     \* the stock at the location, by product id
    OtherRank    \* the rank of "Other" among the categories

ASSUME RowsAssumption ==
    Rows \subseteq [id : Nat, here : BOOLEAN, parent : Nat, group : Nat, name : Nat]
ASSUME EntriesAssumption == Entries \in [{r.id : r \in Rows} -> Nat]
ASSUME BoundAssumption   == MaxRows \in Nat /\ OtherRank \in Nat

VARIABLES
    table,        \* all_products
    step,           \* where the function is
    at,            \* the row the pass is at
    groups,       \* the product groups were read
    entries,      \* the stock entries were read
    parent_ids,   \* the ids collected in step 3
    hidden,       \* parent_ids could be allocated
    match_count,  \* of the first pass
    products,     \* products[0 .. valid - 1]
    ret,          \* "none" while running, "ok", "fail"
    live          \* the buffers allocated and not freed

inputVars == <<groups, entries, parent_ids, hidden>>
listVars == <<table, step, at, inputVars, match_count, products, ret, live>>

Item == [id : Nat, name : Nat, category : Nat, stock : Nat]
Buffers == {"table", "groups", "entries", "parent_ids", "products"}
NoDuplicate(t) == \A a, b \in 1 .. Len(t) : t[a].id = t[b].id /\ t[a].id # 0 => a = b

ListTypeOK ==
    /\ table \in Seq(Rows) /\ Len(table) <= MaxRows
    /\ step \in {"products", "groups", "entries", "parents", "count", "alloc", "fill",
               "sort", "done"}
    /\ at \in 1 .. Len(table) + 1
    /\ groups \in BOOLEAN /\ entries \in BOOLEAN /\ hidden \in BOOLEAN
    /\ parent_ids \subseteq Nat \ {0}
    /\ match_count \in 0 .. Len(table)
    /\ products \in Seq(Item)
    /\ ret \in {"none", "ok", "fail"}
    /\ live \subseteq Buffers

ListInit ==
    /\ table \in UNION {[1 .. n -> Rows] : n \in 0 .. MaxRows} /\ NoDuplicate(table)
    /\ step = "products" /\ at = 1
    /\ groups = FALSE /\ entries = FALSE /\ parent_ids = {} /\ hidden = FALSE
    /\ match_count = 0 /\ products = <<>> /\ ret = "none" /\ live = {}

Return(r) == step' = "done" /\ ret' = r

\* Step 1: without the product table there is no list.
GetProducts ==
    /\ step = "products"
    /\ \/ step' = "groups" /\ live' = {"table"} /\ UNCHANGED ret
       \/ Return("fail") /\ UNCHANGED live
    /\ UNCHANGED <<table, at, inputVars, match_count, products>>

\* Step 1b: without the groups every category is "Other".
GetGroups ==
    /\ step = "groups" /\ step' = "entries"
    /\ groups' \in BOOLEAN
    /\ live' = IF groups' THEN live \cup {"groups"} ELSE live
    /\ UNCHANGED <<table, at, entries, parent_ids, hidden, match_count, products, ret>>

\* Step 2: without the entries every amount is 0.
GetEntries ==
    /\ step = "entries" /\ step' = "parents"
    /\ entries' \in BOOLEAN
    /\ live' = IF entries' THEN live \cup {"entries"} ELSE live
    /\ UNCHANGED <<table, at, groups, parent_ids, hidden, match_count, products, ret>>

\* Mutated Parents: only the rows at this location are looked at.
ParentsHere ==
    /\ step = "parents" /\ step' = "count"
    /\ hidden' \in BOOLEAN
    /\ parent_ids' = IF hidden'
          THEN {table[k].parent : k \in {m \in 1 .. Len(table) : table[m].here}} \ {0} ELSE {}
    /\ live' = IF hidden' THEN live \cup {"parent_ids"} ELSE live
    /\ UNCHANGED <<table, at, groups, entries, match_count, products, ret>>

\* Step 3: the ids that other rows name as parent; none if there is no memory.
Parents ==
    /\ step = "parents" /\ step' = "count"
    /\ hidden' \in BOOLEAN
    /\ parent_ids' = IF hidden' THEN {table[k].parent : k \in 1 .. Len(table)} \ {0} ELSE {}
    /\ live' = IF hidden' THEN live \cup {"parent_ids"} ELSE live
    /\ UNCHANGED <<table, at, groups, entries, match_count, products, ret>>

\* Mutated Matches: children are skipped, not parents.
MatchesNoParent(row) == row.here /\ row.parent = 0

\* What the first pass counts: a row without an id counts as product 0.
Matches(row) == row.here /\ row.id \notin parent_ids

\* What the second pass keeps.
Fills(row) == row.here /\ row.id # 0 /\ row.id \notin parent_ids

CountRow ==
    /\ step = "count"
    /\ IF at <= Len(table)
          THEN /\ match_count' = IF Matches(table[at]) THEN match_count + 1 ELSE match_count
               /\ at' = at + 1 /\ UNCHANGED step
          ELSE step' = "alloc" /\ UNCHANGED <<at, match_count>>
    /\ UNCHANGED <<table, inputVars, products, ret, live>>

\* Nothing matches: an empty list.  No memory: an error, and parent_ids stays.
Allocate ==
    /\ step = "alloc"
    /\ at' = 1
    /\ \/ match_count = 0 /\ Return("ok") /\ live' \in {{}, {"products"}}
       \/ match_count > 0 /\ Return("fail") /\ live' = live \ {"table", "entries", "groups"}
       \/ match_count > 0 /\ step' = "fill" /\ live' = live \cup {"products"} /\ UNCHANGED ret
    /\ UNCHANGED <<table, inputVars, match_count, products>>

ItemOf(row) ==
    [id |-> row.id, name |-> row.name,
     category |-> IF groups /\ row.group # 0 THEN row.group ELSE OtherRank,
     stock |-> IF entries THEN Entries[row.id] ELSE 0]

FillRow ==
    /\ step = "fill"
    /\ IF at <= Len(table)
          THEN /\ products' = IF Fills(table[at]) THEN Append(products, ItemOf(table[at]))
                                                 ELSE products
               /\ at' = at + 1 /\ UNCHANGED <<step, live>>
          ELSE /\ step' = "sort"
               /\ live' = {"products"}
               /\ UNCHANGED <<at, products>>
    /\ UNCHANGED <<table, inputVars, match_count, ret>>

\* product_compare
Before(a, b) == a.category < b.category \/ (a.category = b.category /\ a.name <= b.name)

Permuted(s) == LET D == 1 .. Len(s)
               IN  {[k \in D |-> s[f[k]]] :
                      f \in {g \in [D -> D] : \A a, b \in D : g[a] = g[b] => a = b}}

\* qsort: any order of equal products.  The list's count is a uint16_t, which a
\* location of 65536 products would overflow.
Sort ==
    /\ step = "sort"
    /\ products' \in {s \in Permuted(products) :
                        \A a \in 1 .. Len(s) - 1 : Before(s[a], s[a + 1])}
    /\ Return("ok")
    /\ UNCHANGED <<table, at, inputVars, match_count, live>>

ListNext == GetProducts \/ GetGroups \/ GetEntries \/ Parents \/ CountRow \/ Allocate
            \/ FillRow \/ Sort

ListSpec == ListInit /\ [][ListNext]_listVars

-----------------------------------------------------------------------------
\* Every write of the second pass is inside the array that the first pass
\* measured (grocy_client.c:346-436), although the two passes do not test the
\* same thing.
InBounds == Len(products) <= match_count

\* The list is the one asked for: every product of the location that is
\* nobody's parent, once, with its own name, its category, or "Other" without
\* one or without the groups, and its own amount, or 0 for every product when the
\* entries could not be read (grocy_client.c:323-436); also after rows without an
\* id, in every order of equal rows, and empty only if there is no such product.
Leaf(row) == /\ row.here /\ row.id # 0
             /\ \A k \in 1 .. Len(table) : table[k].parent # row.id
Shows(item, row) ==
    /\ item.id = row.id /\ item.name = row.name
    /\ item.category = IF groups /\ row.group # 0 THEN row.group ELSE OtherRank
    /\ item.stock = IF entries THEN Entries[row.id] ELSE 0
LeafList ==
    ret = "ok" /\ hidden =>
        /\ \A k \in 1 .. Len(products) :
               \E m \in 1 .. Len(table) : Leaf(table[m]) /\ Shows(products[k], table[m])
        /\ \A m \in 1 .. Len(table) :
               Leaf(table[m]) => \E k \in 1 .. Len(products) : Shows(products[k], table[m])
        /\ \A a, b \in 1 .. Len(products) : products[a].id = products[b].id => a = b

=============================================================================
