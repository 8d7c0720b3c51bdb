------------------------------ MODULE MCScreen ------------------------------
(***************************************************************************)
(* Three parts of the screen that share no state as they are modelled,     *)
(* explored one at a time as Init chooses: the screen as a device, the     *)
(* grid with its overlays, and the image cache with the cells that draw    *)
(* from it.  The parts that are not chosen stand still in an initial       *)
(* state.                                                                  *)
(***************************************************************************)
EXTENDS Screen, UiGrid, MCImageCache

VARIABLE part
partsVars == <<part, screenVars, uigridVars, cacheVars>>

Init == /\ part \in {"screen", "grid", "cache"}
        /\ ScreenInit /\ GridInit /\ CacheInit
        /\ part # "screen" => \A p \in Shown : stock[p] = 0
        /\ part # "grid"   => link = "up"
        /\ part # "cache"  => \A p \in Ids : kind[p] = "none"

Next == /\ UNCHANGED part
        /\ \/ part = "screen" /\ ScreenNext /\ UNCHANGED <<uigridVars, cacheVars>>
           \/ part = "grid"   /\ GridNext   /\ UNCHANGED <<screenVars, cacheVars>>
           \/ part = "cache"  /\ CacheNext  /\ UNCHANGED <<screenVars, uigridVars>>

Spec == Init /\ [][Next]_partsVars

\* GridFairness and CacheFairness, each where its part runs.
Fairness ==
    /\ WF_uigridVars(part = "grid" /\ Poll)
    /\ WF_uigridVars(part = "grid" /\ BannerExpires)
    /\ WF_uigridVars(part = "grid" /\ PanicRestart)
    /\ SF_uigridVars(part = "grid" /\ ErrorClear)
    /\ \A k \in Flashes : SF_uigridVars(part = "grid" /\ FlashFires(k))
    /\ WF_cacheVars(part = "cache" /\ GrocyTask)
    /\ WF_cacheVars(part = "cache" /\ RebuildCells)
    /\ \A p \in Ids : SF_cacheVars(part = "cache" /\ Download /\ Cur = p)

FairSpec == Spec /\ Fairness

-----------------------------------------------------------------------------
\* The types of the parts: every variable of ui_main.c, screen_ctrl.c and
\* grocy_image_cache.c stays in its range.
DisplayTypeOK == ScreenTypeOK /\ GridTypeOK /\ CacheTypeOK

\* LabelReturns, of the runs in which the grid is at work.
LabelSettles == part = "grid" => LabelReturns
=============================================================================
