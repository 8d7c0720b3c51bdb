---------------------------- MODULE MCStockSync ----------------------------
(***************************************************************************)
(* StockSync with a bounded environment: MaxTaps accepted taps,            *)
(* MaxPostFaults POSTs with a transport error, MaxFetchFaults fetches that *)
(* fail or lack their entries, no more than MaxFaults of both, and         *)
(* MaxOthers changes by other clients.  RefreshButton says whether the     *)
(* button is pressed at all, Moves what taps and other clients do.  The    *)
(* terminal itself is not bounded.                                         *)
(***************************************************************************)
EXTENDS StockSync, TLC

CONSTANTS MaxTaps, MaxPostFaults, MaxFetchFaults, MaxFaults, MaxOthers, RefreshButton,
          Moves

VARIABLES taps, lost, failed, others
budget == <<taps, lost, failed, others>>
mcvars == <<vars, budget>>

OneEach == [p \in Products |-> 1]
Symmetry == Permutations(Products)

Fault == lost + failed < MaxFaults

MCInit == Init /\ taps = 0 /\ lost = 0 /\ failed = 0 /\ others = 0

Tapped == /\ taps < MaxTaps
          /\ \E p \in Products, op \in Moves : TapSend(p, op)
          /\ taps' = taps + 1
          /\ UNCHANGED <<lost, failed, others>>

\* A POST whose first attempt is not answered is one fault, however the
\* second one ends.
Post == \E a1, a2 \in Attempt :
            /\ a1 = "answered" => a2 = "answered"
            /\ a1 # "answered" => lost < MaxPostFaults /\ Fault
            /\ PostCommand(a1, a2)
            /\ lost' = IF a1 = "answered" THEN lost ELSE lost + 1
            /\ UNCHANGED <<taps, failed, others>>

FetchFault == /\ failed < MaxFetchFaults /\ Fault
              /\ FetchNothing \/ \E l \in Snapshots : FetchOk(l)
              /\ failed' = failed + 1
              /\ UNCHANGED <<taps, lost, others>>

Other == /\ others < MaxOthers
         /\ \E p \in Products, op \in Moves : OtherClient(p, op)
         /\ others' = others + 1
         /\ UNCHANGED <<taps, lost, failed>>

Fetched == FetchOk([stock |-> server, miss |-> Queued])

MCTask == \/ (Fetched \/ Publish \/ Receive \/ Drained \/ Wake \/ Timeout) /\ UNCHANGED budget
          \/ Post \/ FetchFault
MCUi == UiStep /\ UNCHANGED budget

MCNext == \/ MCTask \/ MCUi \/ Tapped \/ Other
          \/ Dispatch /\ UNCHANGED budget
          \/ RefreshButton /\ RefreshPress /\ UNCHANGED budget

\* The FreeRTOS tasks run whenever they can; the LVGL task runs every timer
\* that is due.  Users and other clients owe nothing.
Fairness == /\ WF_mcvars(MCTask)
            /\ WF_mcvars(MCUi)
            /\ WF_mcvars(Dispatch /\ UNCHANGED budget)
            /\ SF_mcvars(ErrorClear /\ UNCHANGED budget)

MCSpec  == MCInit /\ [][MCNext]_mcvars
MCLive  == MCSpec /\ Fairness
=============================================================================
