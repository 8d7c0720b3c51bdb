-------------------------- MODULE StockSyncProofs --------------------------
(***************************************************************************)
(* Proofs about StockSync for every set of products, every initial stock   *)
(* and every depth of the two queues, with no bound on taps, faults or     *)
(* other clients.                                                          *)
(***************************************************************************)
EXTENDS StockSync, FiniteSetTheorems, TLAPS

\* Init establishes the type invariant.
LEMMA InitTypeOK == Init => TypeOK
<1> SUFFICES ASSUME Init PROVE TypeOK
  OBVIOUS
<1>1. <<>> \in Seq(Command) /\ <<>> \in Seq(Event) /\ Len(<<>>) = 0
  OBVIOUS
<1>2. stockq \in Seq(Command) /\ Len(stockq) <= StockQueueDepth
  BY <1>1, DepthAssumption DEF Init
<1>3. evq \in Seq(Event) /\ Len(evq) <= EventQueueDepth
  BY <1>1, DepthAssumption DEF Init
<1>4. server \in [Products -> Nat] /\ shown \in [Products -> Int]
  BY StockAssumption DEF Init
<1>5. /\ gpc \in {"fetch", "images", "drain", "post", "wait"}
      /\ hand \in IF gpc = "post" THEN Command ELSE {NoCommand}
      /\ upc \in {"idle", "notify", "paint", "error"}
      /\ tap \in IF upc \in {"notify", "paint"} THEN Command ELSE {NoCommand}
  BY DEF Init
<1>6. /\ postFailed \in BOOLEAN /\ grid \in BOOLEAN
      /\ msg \in List \cup {NoList} /\ listq \in List \cup {NoList}
      /\ bits \subseteq {"REFRESH", "STOCK_CMD"}
      /\ failedId \in Products \cup {NoProduct}
      /\ overlay \subseteq Products
      /\ clearTimer \in Products \cup {NoProduct}
      /\ owed \subseteq {"refresh", "resync"}
      /\ mixed \subseteq Products
  BY DEF Init
<1> QED BY <1>2, <1>3, <1>4, <1>5, <1>6 DEF TypeOK

\* Posting an event keeps the event queue a bounded sequence of events.
LEMMA PostEventType ==
    ASSUME TypeOK, NEW e \in Event, PostEvent(e)
    PROVE  evq' \in Seq(Event) /\ Len(evq') <= EventQueueDepth
<1>1. CASE Len(evq) < EventQueueDepth
  <2>1. evq' = Append(evq, e)
    BY <1>1 DEF PostEvent
  <2>2. evq' \in Seq(Event) /\ Len(evq') = Len(evq) + 1
    BY <2>1 DEF TypeOK
  <2> QED BY <1>1, <2>2, DepthAssumption DEF TypeOK
<1>2. CASE ~(Len(evq) < EventQueueDepth)
  BY <1>2 DEF PostEvent, TypeOK
<1> QED BY <1>1, <1>2

\* Marking products in a list in flight gives a list again.
LEMMA MissType ==
    ASSUME NEW l \in List \cup {NoList}, NEW ps \in SUBSET Products
    PROVE  Miss(l, ps) \in List \cup {NoList}
BY DEF Miss, List

\* What an attempt leaves on the server is again a natural number.
LEMMA ReachType ==
    ASSUME NEW n \in Nat, NEW c \in Command, NEW a \in Attempt
    PROVE  Reach(n, c, a) \in Nat
BY DEF Reach, Applied, Accepts, Delta, Command, Ops

\* Every step of the Grocy task preserves the type invariant.
LEMMA TaskTypeOK == TypeOK /\ TaskStep => TypeOK'
<1> SUFFICES ASSUME TypeOK, TaskStep PROVE TypeOK'
  OBVIOUS
<1> USE DEF TypeOK, uiVars
<1>1. ASSUME NEW l \in Snapshots, FetchOk(l) PROVE TypeOK'
  <2>1. Queued \subseteq Products
    <3>1. \A i \in 1 .. Len(stockq) : stockq[i] \in Command
      OBVIOUS
    <3> QED BY <3>1 DEF Queued, Command
  <2>2. l \in List
    BY <2>1 DEF Snapshots, List
  <2> QED BY <1>1, <2>2 DEF FetchOk
<1>2. CASE FetchNothing
  BY <1>2 DEF FetchNothing
<1>3. CASE Publish
  <2>1. [kind |-> "ready"] \in Event
    BY DEF Event
  <2>2. evq' \in Seq(Event) /\ Len(evq') <= EventQueueDepth
    BY <1>3, <2>1, PostEventType DEF Publish
  <2>3. NoList \in List \cup {NoList}
    OBVIOUS
  <2> QED BY <1>3, <2>2, <2>3 DEF Publish
<1>4. CASE Receive
  <2>1. Head(stockq) \in Command /\ Tail(stockq) \in Seq(Command)
        /\ Len(Tail(stockq)) <= StockQueueDepth
    BY <1>4, DepthAssumption DEF Receive
  <2> QED BY <1>4, <2>1 DEF Receive
<1>5. ASSUME NEW a1 \in Attempt, NEW a2 \in Attempt, PostCommand(a1, a2)
      PROVE TypeOK'
  <2> DEFINE p  == hand.prod
             n1 == Reach(server[p], hand, a1)
             n2 == IF a1 = "answered" THEN n1 ELSE Reach(n1, hand, a2)
  <2>1. hand \in Command /\ p \in Products /\ server[p] \in Nat
    BY <1>5 DEF PostCommand, Command
  <2>2. n1 \in Nat /\ n2 \in Nat
    BY <2>1, ReachType
  <2>3. server' = [server EXCEPT ![p] = n2]
    BY <1>5 DEF PostCommand
  <2>4. server' \in [Products -> Nat]
    BY <2>1, <2>2, <2>3
  <2>5. [kind |-> "change"] \in Event /\ [kind |-> "failed", prod |-> p] \in Event
    BY <2>1 DEF Event
  <2>6. \/ PostEvent([kind |-> "change"])
        \/ PostEvent([kind |-> "failed", prod |-> p])
    BY <1>5 DEF PostCommand
  <2>7. evq' \in Seq(Event) /\ Len(evq') <= EventQueueDepth
    BY <2>5, <2>6, PostEventType
  <2>8. /\ gpc' = "drain" /\ hand' = NoCommand /\ postFailed' \in BOOLEAN
        /\ owed' \in {owed, owed \cup {"resync"}}
        /\ mixed' \in {mixed, mixed \cup {p}}
        /\ UNCHANGED <<msg, stockq, listq, bits, failedId, uiVars>>
    BY <1>5 DEF PostCommand
  <2> QED BY <2>1, <2>4, <2>7, <2>8
<1>6. CASE Drained
  BY <1>6 DEF Drained
<1>7. CASE LeaveWait
  BY <1>7 DEF LeaveWait
<1> QED BY <1>1, <1>2, <1>3, <1>4, <1>5, <1>6, <1>7 DEF TaskStep, Wake, Timeout

\* Every other step preserves it too.
LEMMA OtherTypeOK ==
    ASSUME TypeOK,
           \/ Dispatch \/ UserStep \/ UiStep
           \/ \E p \in Products, op \in Ops : OtherClient(p, op)
    PROVE  TypeOK'
<1> USE DEF TypeOK, taskVars
<1>1. CASE Dispatch
  <2>1. Head(evq) \in Event /\ Tail(evq) \in Seq(Event)
        /\ Len(Tail(evq)) <= EventQueueDepth
    BY <1>1, DepthAssumption DEF Dispatch
  <2>2. Head(evq).kind = "failed" => Head(evq).prod \in Products
    BY <2>1 DEF Event
  <2> QED BY <1>1, <2>1, <2>2 DEF Dispatch, uiVars
<1>2. ASSUME NEW p \in Products, NEW op \in Ops, TapSend(p, op) PROVE TypeOK'
  <2>1. tap' \in Command
    BY <1>2 DEF TapSend, Command
  <2>2. stockq' \in Seq(Command) /\ Len(stockq') = Len(stockq) + 1
    BY <1>2, <2>1 DEF TapSend
  <2>3. msg' \in List \cup {NoList} /\ listq' \in List \cup {NoList}
    BY <1>2, MissType DEF TapSend
  <2> QED BY <1>2, <2>1, <2>2, <2>3, DepthAssumption DEF TapSend
<1>3. CASE RefreshPress
  BY <1>3 DEF RefreshPress, uiVars
<1>4. CASE TapNotify
  BY <1>4 DEF TapNotify
<1>5. CASE TapPaint
  <2>1. tap \in Command /\ tap.prod \in Products /\ Delta(tap) \in Int
    BY <1>5 DEF TapPaint, Command, Delta
  <2>2. shown' \in [Products -> Int]
    BY <1>5, <2>1 DEF TapPaint
  <2> QED BY <1>5, <2>2 DEF TapPaint
<1>6. CASE PollList
  <2>1. listq # NoList => listq.stock \in [Products -> Int] /\ listq.miss \subseteq Products
    BY DEF List
  <2>2. NoList \in List \cup {NoList}
    OBVIOUS
  <2> QED BY <1>6, <2>1, <2>2 DEF PollList
<1>7. CASE PollError
  BY <1>7 DEF PollError
<1>8. CASE ErrorClear
  BY <1>8 DEF ErrorClear
<1>9. ASSUME NEW p \in Products, NEW op \in Ops, OtherClient(p, op) PROVE TypeOK'
  <2>1. server[p] + Delta([op |-> op]) \in Nat
    BY <1>9 DEF OtherClient, Accepts, Delta, Ops
  <2>2. server' \in [Products -> Nat]
    BY <1>9, <2>1 DEF OtherClient
  <2>3. msg' \in List \cup {NoList} /\ listq' \in List \cup {NoList}
    BY <1>9, MissType DEF OtherClient
  <2> QED BY <1>9, <2>2, <2>3 DEF OtherClient, uiVars
<1> QED BY <1>1, <1>2, <1>3, <1>4, <1>5, <1>6, <1>7, <1>8, <1>9 DEF UserStep, UiStep

\* Type correctness of the stock path: in particular the task holds a command
\* exactly while it posts one, and both queues keep within their depth.
THEOREM TypeCorrect == Spec => []TypeOK
<1>1. Init => TypeOK
  BY InitTypeOK
<1>2. TypeOK /\ [Next]_vars => TypeOK'
  <2> SUFFICES ASSUME TypeOK, [Next]_vars PROVE TypeOK'
    OBVIOUS
  <2>1. CASE Next
    BY <2>1, TaskTypeOK, OtherTypeOK DEF Next
  <2>2. CASE UNCHANGED vars
    BY <2>2 DEF vars, taskVars, uiVars, TypeOK
  <2> QED BY <2>1, <2>2
<1> QED BY <1>1, <1>2, PTL DEF Spec

-----------------------------------------------------------------------------
\* A step of the Grocy task keeps the wakeup promise: it only starts to wait
\* on an empty queue, and it clears the bits only by leaving the wait.
LEMMA TaskNoLostWakeup == NoLostWakeup /\ TaskStep => NoLostWakeup'
<1> SUFFICES ASSUME NoLostWakeup, TaskStep PROVE NoLostWakeup'
  OBVIOUS
<1> USE DEF NoLostWakeup
<1>1. ASSUME NEW l \in Snapshots, FetchOk(l) PROVE NoLostWakeup'
  BY <1>1 DEF FetchOk
<1>2. CASE FetchNothing
  BY <1>2 DEF FetchNothing
<1>3. CASE Publish
  BY <1>3 DEF Publish
<1>4. CASE Receive
  BY <1>4 DEF Receive
<1>5. ASSUME NEW a1 \in Attempt, NEW a2 \in Attempt, PostCommand(a1, a2)
      PROVE NoLostWakeup'
  BY <1>5 DEF PostCommand
<1>6. CASE Drained
  BY <1>6 DEF Drained
<1>7. CASE LeaveWait
  BY <1>7 DEF LeaveWait
<1> QED BY <1>1, <1>2, <1>3, <1>4, <1>5, <1>6, <1>7 DEF TaskStep, Wake, Timeout

\* So does every other step: a tap queues its command before it sets the bit.
LEMMA OtherNoLostWakeup ==
    ASSUME NoLostWakeup,
           \/ Dispatch \/ UserStep \/ UiStep
           \/ \E p \in Products, op \in Ops : OtherClient(p, op)
    PROVE  NoLostWakeup'
<1> USE DEF NoLostWakeup, taskVars, uiVars
<1>1. CASE Dispatch
  BY <1>1 DEF Dispatch
<1>2. CASE UserStep
  BY <1>2 DEF UserStep, TapSend, RefreshPress
<1>3. CASE UiStep
  <2>1. CASE TapNotify
    BY <2>1 DEF TapNotify
  <2>2. CASE TapPaint
    BY <2>2 DEF TapPaint
  <2>3. CASE PollList
    BY <2>3 DEF PollList
  <2>4. CASE PollError \/ ErrorClear
    BY <2>4 DEF PollError, ErrorClear
  <2> QED BY <1>3, <2>1, <2>2, <2>3, <2>4 DEF UiStep
<1>4. CASE \E p \in Products, op \in Ops : OtherClient(p, op)
  BY <1>4 DEF OtherClient
<1> QED BY <1>1, <1>2, <1>3, <1>4

\* No tap is left in the queue while the task sleeps: for every queue depth
\* and every interleaving of the two cores.
THEOREM WakeupNeverLost == Spec => []NoLostWakeup
<1>1. Init => NoLostWakeup
  BY DEF Init, NoLostWakeup
<1>2. NoLostWakeup /\ [Next]_vars => NoLostWakeup'
  <2>1. NoLostWakeup /\ Next => NoLostWakeup'
    BY TaskNoLostWakeup, OtherNoLostWakeup DEF Next
  <2>2. NoLostWakeup /\ UNCHANGED vars => NoLostWakeup'
    BY DEF vars, taskVars, uiVars, NoLostWakeup
  <2> QED BY <2>1, <2>2
<1> QED BY <1>1, <1>2, PTL DEF Spec

-----------------------------------------------------------------------------
\* A step of the Grocy task pays what it owes or keeps it on record: a failed
\* POST sets stock_post_failed, and only a fetch clears the debt.
LEMMA TaskFetchOwed == TypeOK /\ FetchOwed /\ TaskStep => FetchOwed'
<1> SUFFICES ASSUME TypeOK, FetchOwed, TaskStep PROVE FetchOwed'
  OBVIOUS
<1> USE DEF FetchOwed
<1>1. ASSUME NEW l \in Snapshots, FetchOk(l) PROVE FetchOwed'
  BY <1>1 DEF FetchOk
<1>2. CASE FetchNothing
  BY <1>2 DEF FetchNothing
<1>3. CASE Publish
  BY <1>3 DEF Publish
<1>4. CASE Receive
  BY <1>4 DEF Receive
<1>5. ASSUME NEW a1 \in Attempt, NEW a2 \in Attempt, PostCommand(a1, a2)
      PROVE FetchOwed'
  <2>1. /\ gpc = "post" /\ gpc' = "drain" /\ bits' = bits
        /\ \/ owed' = owed /\ (postFailed => postFailed')
           \/ owed' = owed \cup {"resync"} /\ postFailed'
    BY <1>5 DEF PostCommand
  <2> QED BY <2>1
<1>6. CASE Drained
  BY <1>6 DEF Drained
<1>7. CASE LeaveWait
  BY <1>7 DEF LeaveWait, DoFetch
<1> QED BY <1>1, <1>2, <1>3, <1>4, <1>5, <1>6, <1>7 DEF TaskStep, Wake, Timeout

\* A failed POST is resynchronised before the next wait, and a press of the
\* refresh button is never swallowed by a stock command raised with it.
THEOREM FetchIsOwed == Spec => []FetchOwed
<1>1. Init => FetchOwed
  BY DEF Init, FetchOwed
<1>2. TypeOK /\ FetchOwed /\ [Next]_vars => FetchOwed'
  <2> SUFFICES ASSUME TypeOK, FetchOwed, [Next]_vars PROVE FetchOwed'
    OBVIOUS
  <2> USE DEF FetchOwed, taskVars, uiVars
  <2>1. CASE TaskStep
    BY <2>1, TaskFetchOwed
  <2>2. CASE Dispatch
    BY <2>2 DEF Dispatch
  <2>3. CASE UserStep
    BY <2>3 DEF UserStep, TapSend, RefreshPress
  <2>4. CASE UiStep
    BY <2>4 DEF UiStep, TapNotify, TapPaint, PollList, PollError, ErrorClear
  <2>5. CASE \E p \in Products, op \in Ops : OtherClient(p, op)
    BY <2>5 DEF OtherClient
  <2>6. CASE UNCHANGED vars
    BY <2>6 DEF vars
  <2> QED BY <2>1, <2>2, <2>3, <2>4, <2>5, <2>6 DEF Next
<1> QED BY <1>1, <1>2, TypeCorrect, PTL DEF Spec

-----------------------------------------------------------------------------
(* The optimistic number                                                   *)

\* How often c is in s.
Occ(s, c) == Cardinality({i \in 1 .. Len(s) : s[i] = c})

\* Counting in a queue: what joins, leaves or is not there.
LEMMA OccNat ==
  ASSUME NEW C, NEW s \in Seq(C), NEW c
  PROVE  IsFiniteSet({i \in 1 .. Len(s) : s[i] = c}) /\ Occ(s, c) \in Nat
<1>1. IsFiniteSet(1 .. Len(s)) /\ {i \in 1 .. Len(s) : s[i] = c} \in SUBSET (1 .. Len(s))
  BY FS_Interval
<1>2. IsFiniteSet({i \in 1 .. Len(s) : s[i] = c})
  BY <1>1, FS_Subset
<1> QED
  BY <1>2, FS_CardinalityType DEF Occ

LEMMA OccAppend ==
  ASSUME NEW C, NEW s \in Seq(C), NEW x \in C, NEW c
  PROVE  Occ(Append(s, x), c) = Occ(s, c) + IF x = c THEN 1 ELSE 0
<1> DEFINE S == {i \in 1 .. Len(s) : s[i] = c}
           T == {i \in 1 .. Len(Append(s, x)) : Append(s, x)[i] = c}
           n == Len(s) + 1
<1>1. Len(s) \in Nat /\ Len(Append(s, x)) = n /\ Append(s, x)[n] = x
  OBVIOUS
<1>2. \A i \in 1 .. Len(s) : Append(s, x)[i] = s[i]
  OBVIOUS
<1>a. Occ(s, c) = Cardinality(S) /\ Occ(Append(s, x), c) = Cardinality(T)
  BY Zenon DEF Occ
<1>3. IsFiniteSet(S) /\ Cardinality(S) \in Nat /\ n \notin S
  <2>1. IsFiniteSet(S) /\ Occ(s, c) \in Nat
    BY OccNat, Zenon
  <2>2. n \notin S
    BY <1>1
  <2> QED
    BY <1>a, <2>1, <2>2, Zenon
<1>4. CASE x = c
  <2>1. T = S \cup {n}
    BY <1>1, <1>2, <1>4
  <2>2. Cardinality(T) = Cardinality(S) + 1
    BY <1>3, <2>1, FS_AddElement
  <2> QED
    <3> HIDE DEF S, T
    <3> QED
      BY <1>a, <1>4, <2>2
<1>5. CASE x # c
  <2>1. \A i : i \in T <=> i \in S
    BY <1>1, <1>2, <1>5
  <2>2. T = S
    BY <2>1, Zenon
  <2> QED
    <3> HIDE DEF S, T
    <3> QED
      BY <1>a, <1>3, <1>5, <2>2
<1> QED
  BY <1>4, <1>5

LEMMA OccTail ==
  ASSUME NEW C, NEW s \in Seq(C), s # <<>>, NEW c
  PROVE  Occ(s, c) = Occ(Tail(s), c) + IF Head(s) = c THEN 1 ELSE 0
<1> DEFINE S == {i \in 1 .. Len(s) : s[i] = c}
           T == {i \in 1 .. Len(Tail(s)) : Tail(s)[i] = c}
           f == [i \in T |-> i + 1]
<1>1. Len(s) \in Nat \ {0} /\ Len(Tail(s)) = Len(s) - 1 /\ Head(s) = s[1] /\ Tail(s) \in Seq(C)
  OBVIOUS
<1>2. \A i \in 1 .. Len(s) - 1 : Tail(s)[i] = s[i + 1]
  OBVIOUS
<1>a. Occ(s, c) = Cardinality(S) /\ Occ(Tail(s), c) = Cardinality(T)
  BY Zenon DEF Occ
<1>3. IsFiniteSet(T) /\ IsFiniteSet(S) /\ Cardinality(T) \in Nat /\ Cardinality(S) \in Nat
  BY <1>a, <1>1, OccNat, Zenon
<1>4. f \in [T -> S \ {1}]
  BY <1>1, <1>2
<1>5. \A a, b \in T : f[a] = f[b] => a = b
  BY <1>1
<1>6. \A j \in S \ {1} : j - 1 \in T /\ f[j - 1] = j
  <2> SUFFICES ASSUME NEW j \in S \ {1} PROVE j - 1 \in T /\ f[j - 1] = j
    OBVIOUS
  <2>1. j - 1 \in 1 .. Len(s) - 1 /\ (j - 1) + 1 = j
    BY <1>1
  <2>2. Tail(s)[j - 1] = s[j]
    BY <1>2, <2>1
  <2> QED
    BY <1>1, <2>1, <2>2
<1>7. f \in Bijection(T, S \ {1})
  BY <1>4, <1>5, <1>6 DEF Bijection, Injection, Surjection, IsInjective
<1>8. Cardinality(S \ {1}) = Cardinality(T)
  BY <1>3, <1>7, FS_Bijection DEF ExistsBijection
<1>9. Cardinality(S \ {1}) = IF 1 \in S THEN Cardinality(S) - 1 ELSE Cardinality(S)
  BY <1>3, FS_RemoveElement
<1>10. 1 \in S <=> Head(s) = c
  BY <1>1
<1> HIDE DEF S, T
<1> QED
  BY <1>a, <1>3, <1>8, <1>9, <1>10

LEMMA OccNone ==
  ASSUME NEW s, NEW c, \A i \in 1 .. Len(s) : s[i] # c
  PROVE  Occ(s, c) = 0
<1>1. {i \in 1 .. Len(s) : s[i] = c} = {}
  OBVIOUS
<1> QED
  BY <1>1, FS_EmptySet, Zenon DEF Occ

-----------------------------------------------------------------------------
\* What the commands in q and h will move the stock of p by.
Cmd(p, op) == [prod |-> p, op |-> op]
Held(h, c) == IF h = c THEN 1 ELSE 0
Moving(q, h, p) == (Occ(q, Cmd(p, "add")) + Held(h, Cmd(p, "add")))
                       - (Occ(q, Cmd(p, "consume")) + Held(h, Cmd(p, "consume")))

\* Pending is Moving of the stock queue and the command in hand.
LEMMA PendingMoves ==
  ASSUME NEW p
  PROVE  Pending(p) = Moving(stockq, hand, p) /\ Pending(p)' = Moving(stockq', hand', p)
BY DEF Pending, Count, Moving, Occ, Held, Cmd

LEMMA OfProduct ==
  ASSUME NEW c \in Command, NEW p \in Products
  PROVE  /\ c = Cmd(p, "add") <=> c.prod = p /\ Delta(c) = 1
         /\ c = Cmd(p, "consume") <=> c.prod = p /\ Delta(c) = -1
         /\ Delta(c) \in {1, -1}
         /\ NoCommand # Cmd(p, "add") /\ NoCommand # Cmd(p, "consume")
BY NoProductAssumption DEF Command, Ops, Cmd, Delta, NoCommand

\* A tap adds its step, taking a command from the queue moves nothing, and a
\* command that has been posted no longer counts.
LEMMA MovingAppend ==
  ASSUME NEW q \in Seq(Command), NEW h, NEW c \in Command, NEW p \in Products
  PROVE  Moving(Append(q, c), h, p) = Moving(q, h, p) + IF c.prod = p THEN Delta(c) ELSE 0
<1>1. /\ Occ(Append(q, c), Cmd(p, "add")) =
            Occ(q, Cmd(p, "add")) + IF c = Cmd(p, "add") THEN 1 ELSE 0
      /\ Occ(Append(q, c), Cmd(p, "consume")) =
            Occ(q, Cmd(p, "consume")) + IF c = Cmd(p, "consume") THEN 1 ELSE 0
  BY OccAppend
<1>2. Occ(q, Cmd(p, "add")) \in Nat /\ Occ(q, Cmd(p, "consume")) \in Nat
  BY OccNat
<1> QED
  BY <1>1, <1>2, OfProduct DEF Moving, Held

LEMMA MovingTaken ==
  ASSUME NEW q \in Seq(Command), q # <<>>, NEW p \in Products
  PROVE  Moving(Tail(q), Head(q), p) = Moving(q, NoCommand, p)
<1>1. /\ Occ(q, Cmd(p, "add")) =
            Occ(Tail(q), Cmd(p, "add")) + IF Head(q) = Cmd(p, "add") THEN 1 ELSE 0
      /\ Occ(q, Cmd(p, "consume")) =
            Occ(Tail(q), Cmd(p, "consume")) + IF Head(q) = Cmd(p, "consume") THEN 1 ELSE 0
  BY OccTail
<1>2. Tail(q) \in Seq(Command) /\ Head(q) \in Command
  OBVIOUS
<1>3. Occ(Tail(q), Cmd(p, "add")) \in Nat /\ Occ(Tail(q), Cmd(p, "consume")) \in Nat
  BY <1>2, OccNat
<1> QED
  BY <1>1, <1>2, <1>3, OfProduct DEF Moving, Held

LEMMA MovingPosted ==
  ASSUME NEW q \in Seq(Command), NEW h \in Command, NEW p \in Products
  PROVE  Moving(q, h, p) = Moving(q, NoCommand, p) + IF h.prod = p THEN Delta(h) ELSE 0
<1>1. Occ(q, Cmd(p, "add")) \in Nat /\ Occ(q, Cmd(p, "consume")) \in Nat
  BY OccNat
<1> QED
  BY <1>1, OfProduct DEF Moving, Held

LEMMA MovingInt ==
  ASSUME NEW q \in Seq(Command), NEW h, NEW p
  PROVE  Moving(q, h, p) \in Int
<1>1. Occ(q, Cmd(p, "add")) \in Nat /\ Occ(q, Cmd(p, "consume")) \in Nat
  BY OccNat
<1> QED
  BY <1>1 DEF Moving, Held

LEMMA MovingNone ==
  ASSUME NEW q \in Seq(Command), NEW h, NEW p, h.prod # p, \A i \in 1 .. Len(q) : q[i].prod # p
  PROVE  Moving(q, h, p) = 0
<1>1. Cmd(p, "add").prod = p /\ Cmd(p, "consume").prod = p
  BY DEF Cmd
<1>2. Occ(q, Cmd(p, "add")) = 0 /\ Occ(q, Cmd(p, "consume")) = 0
  BY <1>1, OccNone
<1>3. Held(h, Cmd(p, "add")) = 0 /\ Held(h, Cmd(p, "consume")) = 0
  BY <1>1 DEF Held
<1> QED
  BY <1>2, <1>3 DEF Moving

-----------------------------------------------------------------------------
\* Products with a command accepted and not yet applied.
UnderWay == Queued \cup ({hand.prod} \cap Products)

\* A list in flight is right about every product it does not miss.
RightIn(l, st, moving) ==
    l # NoList => \A p \in Products \ l.miss : l.stock[p] = st[p] /\ p \notin moving

Flight == RightIn(msg, server, UnderWay) /\ RightIn(listq, server, UnderWay)

\* A list stays right as long as what changes is marked in it.
LEMMA StaysRight ==
  ASSUME NEW l \in List \cup {NoList}, NEW ps \in SUBSET Products,
         NEW st, NEW st2, NEW moving, NEW moving2,
         RightIn(l, st, moving),
         \A p \in Products \ ps : p \notin moving => st2[p] = st[p] /\ p \notin moving2
  PROVE  RightIn(Miss(l, ps), st2, moving2)
<1>1. CASE l = NoList
  BY <1>1 DEF Miss, RightIn
<1>2. CASE l # NoList
  <2>1. Miss(l, ps).stock = l.stock /\ Miss(l, ps).miss = l.miss \cup ps
    BY <1>2 DEF Miss, List
  <2> QED
    BY <1>2, <2>1 DEF RightIn
<1> QED
  BY <1>1, <1>2

\* The products of a queue, when its head is taken and when a command joins it.
LEMMA QueuedTaken ==
  ASSUME stockq \in Seq(Command), stockq # <<>>, stockq' = Tail(stockq)
  PROVE  Queued' \subseteq Queued /\ Head(stockq).prod \in Queued
BY DEF Queued

LEMMA QueuedJoined ==
  ASSUME stockq \in Seq(Command), NEW c \in Command, stockq' = Append(stockq, c)
  PROVE  Queued' \subseteq Queued \cup {c.prod}
<1>1. ASSUME NEW i \in 1 .. Len(stockq') PROVE stockq'[i].prod \in Queued \cup {c.prod}
  <2>1. CASE i \in 1 .. Len(stockq)
    BY <2>1 DEF Queued
  <2>2. CASE i = Len(stockq) + 1
    BY <2>2
  <2> QED
    BY <2>1, <2>2
<1> QED
  BY <1>1 DEF Queued

LEMMA FlightStarts == Init => Flight
BY DEF Init, Flight, RightIn

\* What a fetch answers is right; and whoever changes a product after it has
\* the product marked in every list that is in flight.
LEMMA FlightStep == TypeOK /\ Flight /\ [Next]_vars => Flight'
<1> SUFFICES ASSUME TypeOK, Flight, [Next]_vars PROVE Flight'
  OBVIOUS
<1>t. /\ msg \in List \cup {NoList} /\ listq \in List \cup {NoList}
      /\ stockq \in Seq(Command) /\ server \in [Products -> Nat]
      /\ hand \in IF gpc = "post" THEN Command ELSE {NoCommand}
  BY DEF TypeOK
<1>n. NoCommand.prod \notin Products
  BY NoProductAssumption DEF NoCommand
<1>0. CASE UNCHANGED <<server, stockq, hand>> /\ msg' = msg /\ listq' \in {listq, NoList}
  <2>1. UnderWay' = UnderWay
    BY <1>0 DEF UnderWay, Queued
  <2> QED
    BY <1>0, <2>1 DEF Flight, RightIn
\* What the server answers is right but for the commands under way.
<1>1. ASSUME NEW l \in Snapshots, FetchOk(l) PROVE Flight'
  <2>1. /\ UNCHANGED <<server, stockq, hand, listq>> /\ msg' = l /\ hand = NoCommand
    BY <1>1, <1>t DEF FetchOk
  <2>2. UnderWay' = UnderWay /\ UnderWay = Queued
    BY <1>n, <2>1 DEF UnderWay, Queued
  <2>3. RightIn(l, server, UnderWay)
    BY <2>2 DEF Snapshots, RightIn
  <2> QED
    BY <2>1, <2>2, <2>3 DEF Flight
<1>2. CASE Publish
  <2>1. UNCHANGED <<server, stockq, hand>> /\ listq' = msg /\ msg' = NoList
    BY <1>2 DEF Publish
  <2>2. UnderWay' = UnderWay
    BY <2>1 DEF UnderWay, Queued
  <2> QED
    BY <2>1, <2>2 DEF Flight, RightIn
<1>3. CASE Receive
  <2>1. /\ stockq # <<>> /\ stockq' = Tail(stockq) /\ hand' = Head(stockq)
        /\ UNCHANGED <<server, msg, listq>>
    BY <1>3 DEF Receive
  <2>2. UnderWay' \subseteq UnderWay
    BY <1>t, <2>1, QueuedTaken DEF UnderWay
  <2> QED
    BY <2>1, <2>2 DEF Flight, RightIn
\* A POST only moves a product that no list in flight claims to be right about.
<1>4. ASSUME NEW a1 \in Attempt, NEW a2 \in Attempt, PostCommand(a1, a2) PROVE Flight'
  <2>1. /\ hand \in Command /\ hand' = NoCommand /\ UNCHANGED <<msg, listq, stockq>>
        /\ \A p \in Products \ {hand.prod} : server'[p] = server[p]
    BY <1>4, <1>t DEF PostCommand
  <2>2. UnderWay' \subseteq UnderWay /\ hand.prod \in UnderWay
    BY <1>n, <2>1 DEF UnderWay, Queued, Command
  <2> QED
    BY <2>1, <2>2 DEF Flight, RightIn
<1>5. ASSUME NEW p \in Products, NEW op \in Ops, TapSend(p, op) PROVE Flight'
  <2>1. /\ stockq' = Append(stockq, tap') /\ tap' = [prod |-> p, op |-> op]
        /\ msg' = Miss(msg, {p}) /\ listq' = Miss(listq, {p}) /\ UNCHANGED <<server, hand>>
    BY <1>5 DEF TapSend
  <2>2. tap' \in Command /\ tap'.prod = p
    BY <2>1 DEF Command
  <2>3. Queued' \subseteq Queued \cup {p}
    BY <1>t, <2>1, <2>2, QueuedJoined
  <2>4. \A q \in Products \ {p} : q \notin UnderWay => server'[q] = server[q] /\ q \notin UnderWay'
    BY <2>1, <2>3 DEF UnderWay
  <2> QED
    BY <1>t, <2>1, <2>4, StaysRight DEF Flight
<1>6. ASSUME NEW p \in Products, NEW op \in Ops, OtherClient(p, op) PROVE Flight'
  <2>1. /\ msg' = Miss(msg, {p}) /\ listq' = Miss(listq, {p}) /\ UNCHANGED <<stockq, hand>>
        /\ \A q \in Products \ {p} : server'[q] = server[q]
    BY <1>6, <1>t DEF OtherClient
  <2>2. UnderWay' = UnderWay
    BY <2>1 DEF UnderWay, Queued
  <2> QED
    BY <1>t, <2>1, <2>2, StaysRight DEF Flight
<1>7. CASE FetchNothing \/ Drained \/ LeaveWait \/ Dispatch \/ TapNotify \/ TapPaint
  BY <1>0, <1>7 DEF FetchNothing, Drained, LeaveWait, Dispatch, TapNotify, TapPaint, taskVars
<1>8. CASE RefreshPress \/ PollList \/ PollError \/ ErrorClear \/ UNCHANGED vars
  BY <1>0, <1>8 DEF RefreshPress, PollList, PollError, ErrorClear, taskVars, vars
<1> QED
  BY <1>1, <1>2, <1>3, <1>4, <1>5, <1>6, <1>7, <1>8
     DEF Next, TaskStep, UserStep, UiStep, Wake, Timeout

-----------------------------------------------------------------------------
\* What DisplayExact says of one product.
ExactAt(p) == shown[p] + Unpainted(p) = server[p] + Pending(p)

\* Every step moves both sides of the equation by the same.
LEMMA DisplayStep == TypeOK /\ Flight /\ DisplayExact /\ [Next]_vars => DisplayExact'
<1> SUFFICES ASSUME TypeOK, Flight, DisplayExact, [Next]_vars,
                    grid', NEW p \in Products, p \notin mixed'
             PROVE  ExactAt(p)'
  BY DEF DisplayExact, ExactAt
<1>t. /\ stockq \in Seq(Command) /\ server \in [Products -> Nat] /\ shown \in [Products -> Int]
      /\ hand \in IF gpc = "post" THEN Command ELSE {NoCommand}
      /\ tap \in IF upc \in {"notify", "paint"} THEN Command ELSE {NoCommand}
      /\ listq \in List \cup {NoList}
  BY DEF TypeOK
<1>n. NoCommand.prod \notin Products
  BY NoProductAssumption DEF NoCommand
<1>p. Pending(p) = Moving(stockq, hand, p) /\ Pending(p)' = Moving(stockq', hand', p)
  BY PendingMoves
<1>i. Moving(stockq, hand, p) \in Int /\ Moving(stockq, NoCommand, p) \in Int
  BY <1>t, MovingInt
<1>e. grid /\ p \notin mixed => shown[p] + Unpainted(p) = server[p] + Moving(stockq, hand, p)
  BY <1>p DEF DisplayExact
<1>0. CASE UNCHANGED <<server, stockq, hand, grid, shown, tap, mixed>>
  <2>1. Unpainted(p)' = Unpainted(p)
    BY <1>0 DEF Unpainted, Delta
  <2> QED
    BY <1>0, <1>p, <1>e, <2>1 DEF ExactAt
<1>1. CASE Receive
  <2>1. /\ stockq # <<>> /\ stockq' = Tail(stockq) /\ hand' = Head(stockq) /\ hand = NoCommand
        /\ UNCHANGED <<server, grid, shown, tap, mixed>>
    BY <1>1, <1>t DEF Receive, uiVars
  <2>2. Moving(stockq', hand', p) = Moving(stockq, hand, p)
    BY <1>t, <2>1, MovingTaken
  <2>3. Unpainted(p)' = Unpainted(p)
    BY <2>1 DEF Unpainted, Delta
  <2> QED
    BY <1>p, <1>e, <2>1, <2>2, <2>3 DEF ExactAt
\* An exact POST moves the server by what is no longer pending.
<1>2. ASSUME NEW a1 \in Attempt, NEW a2 \in Attempt, PostCommand(a1, a2) PROVE ExactAt(p)'
  <2> DEFINE n1 == Reach(server[hand.prod], hand, a1)
             n2 == IF a1 = "answered" THEN n1 ELSE Reach(n1, hand, a2)
  <2>1. /\ hand \in Command /\ hand' = NoCommand /\ UNCHANGED <<stockq, grid, shown, tap>>
        /\ server' = [server EXCEPT ![hand.prod] = n2]
        /\ mixed' = IF n2 = server[hand.prod] + Delta(hand) THEN mixed
                                                            ELSE mixed \cup {hand.prod}
    BY <1>2, <1>t DEF PostCommand, uiVars
  <2>2. Moving(stockq, hand, p) =
            Moving(stockq, NoCommand, p) + IF hand.prod = p THEN Delta(hand) ELSE 0
    BY <1>t, <2>1, MovingPosted
  <2>3. p \notin mixed /\ server'[p] = IF hand.prod = p THEN server[p] + Delta(hand) ELSE server[p]
    <3> HIDE DEF n2
    <3> QED
      BY <1>t, <2>1
  <2>4. Unpainted(p)' = Unpainted(p)
    BY <2>1 DEF Unpainted, Delta
  <2>5. Delta(hand) \in Int /\ server[p] \in Int
    BY <1>t DEF Delta
  <2> HIDE DEF n2
  <2> QED
    BY <1>p, <1>i, <1>e, <2>1, <2>2, <2>3, <2>4, <2>5 DEF ExactAt
<1>3. ASSUME NEW q \in Products, NEW op \in Ops, TapSend(q, op) PROVE ExactAt(p)'
  <2>1. /\ stockq' = Append(stockq, tap') /\ tap' = [prod |-> q, op |-> op] /\ tap = NoCommand
        /\ UNCHANGED <<server, hand, grid, shown, mixed>>
    BY <1>3, <1>t DEF TapSend
  <2>2. tap' \in Command
    BY <2>1 DEF Command
  <2>3. Moving(stockq', hand', p) =
            Moving(stockq, hand, p) + IF tap'.prod = p THEN Delta(tap') ELSE 0
    BY <1>t, <2>1, <2>2, MovingAppend
  <2>4. Unpainted(p) = 0 /\ Unpainted(p)' = IF tap'.prod = p THEN Delta(tap') ELSE 0
    BY <1>n, <2>1 DEF Unpainted, Delta
  <2>5. Delta(tap') \in Int
    BY DEF Delta
  <2> QED
    BY <1>p, <1>i, <1>e, <1>t, <2>1, <2>3, <2>4, <2>5 DEF ExactAt
<1>4. CASE TapPaint
  <2>1. /\ tap \in Command /\ tap' = NoCommand /\ shown' = [shown EXCEPT ![tap.prod] = @ + Delta(tap)]
        /\ UNCHANGED <<server, stockq, hand, grid, mixed>>
    BY <1>4, <1>t DEF TapPaint, taskVars
  <2>2. shown'[p] = IF tap.prod = p THEN shown[p] + Delta(tap) ELSE shown[p]
    BY <1>t, <2>1
  <2>3. Unpainted(p) = (IF tap.prod = p THEN Delta(tap) ELSE 0) /\ Unpainted(p)' = 0
    BY <1>n, <2>1 DEF Unpainted, Delta
  <2>4. Delta(tap) \in Int /\ shown[p] \in Int
    BY <1>t DEF Delta
  <2> QED
    BY <1>p, <1>i, <1>e, <1>t, <2>1, <2>2, <2>3, <2>4 DEF ExactAt
\* A list that is shown is right about p, and nothing for p is under way.
<1>5. CASE PollList
  <2>1. tap = NoCommand /\ UNCHANGED <<tap, server, stockq, hand>>
    BY <1>5, <1>t DEF PollList, taskVars
  <2>2. CASE listq = NoList
    BY <1>0, <1>5, <2>1, <2>2 DEF PollList
  <2>3. CASE listq # NoList
    <3>1. shown' = listq.stock /\ mixed' = listq.miss
      BY <1>5, <2>3 DEF PollList
    <3>2. listq.stock[p] = server[p] /\ p \notin UnderWay
      BY <2>3, <3>1 DEF Flight, RightIn
    <3>3. hand.prod # p /\ \A i \in 1 .. Len(stockq) : stockq[i].prod # p
      BY <3>2 DEF UnderWay, Queued
    <3>4. Moving(stockq, hand, p) = 0
      BY <1>t, <3>3, MovingNone
    <3>5. Unpainted(p)' = 0
      BY <1>n, <2>1 DEF Unpainted
    <3> QED
      BY <1>p, <1>t, <2>1, <3>1, <3>2, <3>4, <3>5 DEF ExactAt
  <2> QED
    BY <2>2, <2>3
<1>6. ASSUME NEW q \in Products, NEW op \in Ops, OtherClient(q, op) PROVE ExactAt(p)'
  <2>1. /\ mixed' = mixed \cup {q} /\ UNCHANGED <<stockq, hand, grid, shown, tap>>
        /\ server' = [server EXCEPT ![q] = @ + Delta([op |-> op])]
    BY <1>6 DEF OtherClient, uiVars
  <2>2. p # q /\ p \notin mixed /\ server'[p] = server[p]
    BY <1>t, <2>1
  <2>3. Unpainted(p)' = Unpainted(p)
    BY <2>1 DEF Unpainted, Delta
  <2> QED
    BY <1>p, <1>e, <2>1, <2>2, <2>3 DEF ExactAt
<1>7. ASSUME NEW l \in Snapshots, FetchOk(l) PROVE ExactAt(p)'
  BY <1>0, <1>7 DEF FetchOk, uiVars
<1>8. CASE FetchNothing \/ Publish \/ Drained \/ LeaveWait \/ Dispatch \/ TapNotify
  BY <1>0, <1>8 DEF FetchNothing, Publish, Drained, LeaveWait, Dispatch, TapNotify, taskVars, uiVars
<1>9. CASE RefreshPress \/ PollError \/ ErrorClear \/ UNCHANGED vars
  BY <1>0, <1>9 DEF RefreshPress, PollError, ErrorClear, taskVars, uiVars, vars
<1> QED
  BY <1>1, <1>2, <1>3, <1>4, <1>5, <1>6, <1>7, <1>8, <1>9
     DEF Next, TaskStep, UserStep, UiStep, Wake, Timeout

\* The optimistic number is exact in every interleaving of tap, poll, drain and
\* fetch, for every product that no known hazard touched: for any number of
\* products, taps, faults and other clients (ui_main.c:177-187,
\* grocy_task.c:108-109).
THEOREM NumbersAreExact == Spec => []DisplayExact
<1>1. Init => DisplayExact
  BY DEF Init, DisplayExact
<1> QED
  BY <1>1, FlightStarts, FlightStep, DisplayStep, TypeCorrect, PTL DEF Spec
=============================================================================
