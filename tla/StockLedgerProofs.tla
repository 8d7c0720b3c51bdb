------------------------- MODULE StockLedgerProofs -------------------------
(***************************************************************************)
(* StockSync implements StockLedger, for every set of products, stock and  *)
(* queue depth: each step of the detailed specification is a step of the   *)
(* ledger, or leaves it unchanged.                                         *)
(***************************************************************************)
EXTENDS StockSyncProofs

\* The value that stands for "no command" is not one.
LEMMA NoCommandIsNone == NoCommand \notin Command
BY NoProductAssumption DEF NoCommand, Command

\* Putting the head back in front of the tail gives the queue again.
LEMMA HeadThenTail ==
    ASSUME NEW q \in Seq(Command), q # <<>>
    PROVE  <<Head(q)>> \o Tail(q) = q
OBVIOUS

\* What is in front of a queue stays in front when something is appended,
LEMMA ConsAppend ==
    ASSUME NEW q \in Seq(Command), NEW h \in Command, NEW c \in Command
    PROVE  /\ <<h>> \o Append(q, c) = Append(<<h>> \o q, c)
           /\ Len(<<h>> \o q) = Len(q) + 1
OBVIOUS

\* and is what is taken from it first.
LEMMA ConsHead ==
    ASSUME NEW q \in Seq(Command), NEW h \in Command
    PROVE  /\ <<h>> \o q # <<>>
           /\ Head(<<h>> \o q) = h
           /\ Tail(<<h>> \o q) = q
OBVIOUS

\* Two attempts, each of which reaches the server or not, move the stock as n of
\* them that do: n = 0, 1 or 2, whatever was refused on the way.
LEMMA TwoAttempts ==
    ASSUME NEW s \in Nat, NEW c \in Command, NEW a1 \in Attempt, NEW a2 \in Attempt
    PROVE  LET n1 == Reach(s, c, a1)
               n2 == IF a1 = "answered" THEN n1 ELSE Reach(n1, c, a2)
               ok == \/ a1 = "answered" /\ Accepts(s, c)
                     \/ a1 # "answered" /\ a2 = "answered" /\ Accepts(n1, c)
           IN  \E n \in 0 .. 2 : n2 = Ledger!After(s, c, n) /\ (ok => n2 # s)
<1> DEFINE n1 == Reach(s, c, a1)
           n2 == IF a1 = "answered" THEN n1 ELSE Reach(n1, c, a2)
           ok == \/ a1 = "answered" /\ Accepts(s, c)
                 \/ a1 # "answered" /\ a2 = "answered" /\ Accepts(n1, c)
           n  == (IF a1 = "unreached" THEN 0 ELSE 1)
                 + (IF a1 = "answered" \/ a2 = "unreached" THEN 0 ELSE 1)
<1>1. c.op \in {"add", "consume"}
  BY DEF Command, Ops
<1> USE <1>1 DEF Reach, Applied, Accepts, Delta, Ledger!After, Ledger!Delta
<1>2. n \in 0 .. 2
  OBVIOUS
<1>3. n2 = Ledger!After(s, c, n) /\ (ok => n2 # s)
  <2>1. CASE a1 = "answered"
    BY <2>1
  <2>2. CASE a1 = "lost"
    BY <2>2 DEF Attempt
  <2>3. CASE a1 = "unreached"
    BY <2>3 DEF Attempt
  <2> QED BY <2>1, <2>2, <2>3 DEF Attempt
<1> QED BY <1>2, <1>3

-----------------------------------------------------------------------------
LedgerVars == <<server, Unsettled, "resync" \in owed>>

\* The steps of the Grocy task: a fetch is a Refetch, a POST settles the oldest
\* command, and taking a command from the queue changes nothing.
LEMMA TaskRefines ==
    ASSUME TypeOK, TypeOK', TaskStep
    PROVE  Ledger!Next \/ UNCHANGED LedgerVars
<1> USE DEF Unsettled, LedgerVars
<1>1. ASSUME NEW l \in Snapshots, FetchOk(l) PROVE Ledger!Refetch
  BY <1>1 DEF FetchOk, Ledger!Refetch
<1>2. CASE FetchNothing
  <2>1. Ledger!Refetch
    BY <1>2 DEF FetchNothing, Ledger!Refetch
  <2> QED BY <2>1 DEF Ledger!Next
<1>3. CASE Publish
  BY <1>3 DEF Publish
<1>4. CASE Receive
  <2>1. stockq \in Seq(Command) /\ stockq # <<>> /\ Head(stockq) \in Command
    BY <1>4 DEF Receive, TypeOK
  <2>2. hand = NoCommand /\ hand' # NoCommand
    BY <1>4, <2>1, NoCommandIsNone DEF Receive, TypeOK
  <2>3. Unsettled' = Unsettled
    BY <1>4, <2>1, <2>2, HeadThenTail DEF Receive
  <2> QED BY <1>4, <2>3 DEF Receive
<1>5. ASSUME NEW a1 \in Attempt, NEW a2 \in Attempt, PostCommand(a1, a2)
      PROVE  Ledger!SomeSettle
  <2> DEFINE p  == hand.prod
             n1 == Reach(server[p], hand, a1)
             n2 == IF a1 = "answered" THEN n1 ELSE Reach(n1, hand, a2)
             ok == \/ a1 = "answered" /\ Accepts(server[p], hand)
                   \/ a1 # "answered" /\ a2 = "answered" /\ Accepts(n1, hand)
  <2>1. hand \in Command /\ hand # NoCommand /\ p \in Products /\ server[p] \in Nat
        /\ stockq \in Seq(Command) /\ server \in [Products -> Nat]
    BY <1>5, NoCommandIsNone DEF PostCommand, TypeOK, Command
  <2>2. PICK n \in 0 .. 2 : n2 = Ledger!After(server[p], hand, n) /\ (ok => n2 # server[p])
    BY <2>1, TwoAttempts
  <2>3. Unsettled # <<>> /\ Head(Unsettled) = hand /\ Tail(Unsettled) = stockq
    BY <2>1, ConsHead
  <2>4. Unsettled' = Tail(Unsettled)
    BY <1>5, <2>3 DEF PostCommand
  <2>5. server' = [server EXCEPT ![p] = n2] /\ server'[p] = n2
    BY <1>5, <2>1 DEF PostCommand
  <2>6. ("resync" \in owed)' = ("resync" \in owed \/ ~ok)
    BY <1>5 DEF PostCommand
  <2>7. Ledger!Settle(n, ok)
    BY <2>2, <2>3, <2>4, <2>5, <2>6 DEF Ledger!Settle
  <2> QED BY <2>2, <2>7 DEF Ledger!SomeSettle
<1>6. CASE Drained
  BY <1>6 DEF Drained
<1>7. CASE LeaveWait
  BY <1>7 DEF LeaveWait
<1> QED BY <1>1, <1>2, <1>3, <1>4, <1>5, <1>6, <1>7
        DEF TaskStep, Wake, Timeout, Ledger!Next

\* Of the other steps, a tap is accepted by the ledger, another client moves the
\* stock, and the rest does not concern it.
LEMMA OtherRefines ==
    ASSUME TypeOK,
           \/ Dispatch \/ UserStep \/ UiStep
           \/ \E p \in Products, op \in Ops : OtherClient(p, op)
    PROVE  Ledger!Next \/ UNCHANGED LedgerVars
<1> USE DEF Unsettled, LedgerVars, taskVars, uiVars
<1>1. CASE Dispatch
  BY <1>1 DEF Dispatch
<1>2. ASSUME NEW p \in Products, NEW op \in Ops, TapSend(p, op)
      PROVE  \E c \in Ledger!Command : Ledger!Accept(c)
  <2>1. tap' \in Command /\ tap' \in Ledger!Command
    BY <1>2 DEF TapSend, Command, Ops, Ledger!Command
  <2>2. stockq \in Seq(Command) /\ stockq' = Append(stockq, tap') /\ hand' = hand
        /\ Len(stockq) < StockQueueDepth /\ UNCHANGED <<server, owed>>
    BY <1>2 DEF TapSend, TypeOK
  <2>3. hand \in Command \cup {NoCommand}
    BY DEF TypeOK
  <2>4. Unsettled' = Append(Unsettled, tap') /\ Len(Unsettled) < StockQueueDepth + 1
    BY <2>1, <2>2, <2>3, ConsAppend, DepthAssumption
  <2>5. Ledger!Accept(tap')
    BY <2>2, <2>4 DEF Ledger!Accept
  <2> QED BY <2>1, <2>5
<1>3. CASE RefreshPress
  BY <1>3 DEF RefreshPress
<1>4. CASE UiStep
  BY <1>4 DEF UiStep, TapNotify, TapPaint, PollList, PollError, ErrorClear
<1>5. ASSUME NEW p \in Products, NEW op \in Ops, OtherClient(p, op)
      PROVE  \E q \in Products, d \in {-1, 1} : Ledger!OtherClient(q, d)
  <2> DEFINE d == Delta([op |-> op])
  <2>1. d \in {-1, 1} /\ server[p] \in Nat /\ server[p] + d >= 0
    BY <1>5 DEF OtherClient, Accepts, Delta, Ops, TypeOK
  <2>2. Ledger!OtherClient(p, d)
    BY <1>5, <2>1 DEF OtherClient, Ledger!OtherClient
  <2> QED BY <2>1, <2>2
<1> QED BY <1>1, <1>2, <1>3, <1>4, <1>5 DEF UserStep, Ledger!Next

\* The tasks, queues and event bits of the stock path implement the ledger: no
\* tap is lost, doubled or overtaken between the two cores, for any number of
\* taps, faults and other clients.
THEOREM ImplementsTheLedger == Spec => ImplementsLedger
<1>1. Init => Ledger!Init
  BY DEF Init, Ledger!Init, Unsettled
<1>2. TypeOK /\ TypeOK' /\ [Next]_vars => [Ledger!Next]_LedgerVars
  <2>1. TypeOK /\ TypeOK' /\ Next => Ledger!Next \/ UNCHANGED LedgerVars
    BY TaskRefines, OtherRefines DEF Next
  <2>2. UNCHANGED vars => UNCHANGED LedgerVars
    BY DEF vars, taskVars, LedgerVars, Unsettled
  <2> QED BY <2>1, <2>2
<1> QED BY <1>1, <1>2, TypeCorrect, PTL
        DEF Spec, ImplementsLedger, Ledger!Spec, Ledger!vars, LedgerVars
=============================================================================
