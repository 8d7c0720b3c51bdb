------------------------------ MODULE MCParts ------------------------------
(***************************************************************************)
(* Five parts of the terminal that share no state, explored one at a time  *)
(* as Init chooses: the HTTP client, the product list, the picture scaler, *)
(* the configuration and the grid.  Interleaved, each would reach just the *)
(* states it reaches alone, so the parts that are not chosen stand still   *)
(* in one of their initial states.                                         *)
(***************************************************************************)
EXTENDS HttpClient, MCProductList, ImageScale, Provisioning, UiGrid

VARIABLE part
partsVars == <<part, httpVars, listVars, scaleVars, setupVars, uigridVars>>

Init == /\ part \in {"http", "list", "scale", "setup", "grid"}
        /\ HttpInit /\ ListInit /\ ScaleInit /\ SetupInit /\ GridInit
        /\ part # "list"  => table = <<>>
        /\ part # "setup" => ~byKconfig

\* The call has returned.
ListReturned == step = "done" /\ UNCHANGED listVars

Next == /\ UNCHANGED part
        /\ \/ /\ part = "http" /\ HttpNext
              /\ UNCHANGED <<listVars, scaleVars, setupVars, uigridVars>>
           \/ /\ part = "list" /\ (ListNext \/ ListReturned)
              /\ UNCHANGED <<httpVars, scaleVars, setupVars, uigridVars>>
           \/ /\ part = "scale" /\ ScaleNext
              /\ UNCHANGED <<httpVars, listVars, setupVars, uigridVars>>
           \/ /\ part = "setup" /\ SetupNext
              /\ UNCHANGED <<httpVars, listVars, scaleVars, uigridVars>>
           \/ /\ part = "grid" /\ GridNext
              /\ UNCHANGED <<httpVars, listVars, scaleVars, setupVars>>

Spec == Init /\ [][Next]_partsVars

-----------------------------------------------------------------------------
\* The types of the parts: every variable of grocy_client.c, config.c and the
\* grid stays in its range, and every integer of the scaler in its width.
PartsTypeOK == HttpTypeOK /\ ListTypeOK /\ ScaleTypeOK /\ SetupTypeOK /\ GridTypeOK
=============================================================================
