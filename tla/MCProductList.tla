--------------------------- MODULE MCProductList ---------------------------
(***************************************************************************)
(* Product tables for ProductList: products 1 to 3 and rows without an id, *)
(* in any order, in a group or not, each possibly elsewhere or a child of  *)
(* product 1.  "Other" sorts before the group; names run against the ids,  *)
(* except that products 1 and 3 have the same name.                        *)
(***************************************************************************)
EXTENDS ProductList

NameRank == <<2, 1, 2>>
SmallRows ==
    {[id |-> n, here |-> h, parent |-> p, group |-> g, name |-> NameRank[n]] :
        n \in 2 .. 3, h \in BOOLEAN, p \in 0 .. 1, g \in {0, 3}}
    \cup {[id |-> 1, here |-> h, parent |-> 0, group |-> g, name |-> NameRank[1]] :
        h \in BOOLEAN, g \in {0, 3}}
    \cup {[id |-> 0, here |-> h, parent |-> p, group |-> 0, name |-> 1] :
        h \in BOOLEAN, p \in 0 .. 1}
SmallEntries == [n \in 0 .. 3 |-> n]
=============================================================================
