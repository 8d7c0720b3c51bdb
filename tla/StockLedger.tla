---------------------------- MODULE StockLedger ----------------------------
(***************************************************************************)
(* What the stock path promises, without its tasks, queues and event bits: *)
(* the commands that were accepted are settled one by one, in the order of *)
(* the taps, each once.  To settle a command is to make one or two         *)
(* attempts at it, and to know at the end whether one succeeded; when none *)
(* did, the stock has to be read again.  StockSync implements this module. *)
(***************************************************************************)
EXTENDS Integers, Sequences

CONSTANTS
    Products, InitialStock,
    Capacity    \* commands that can be accepted and not yet settled

VARIABLES
    server,     \* stock of every product
    pending,    \* commands accepted and not settled
    resync      \* a command failed, and the stock was not read since

vars == <<server, pending, resync>>

Command  == [prod : Products, op : {"add", "consume"}]
Delta(c) == IF c.op = "add" THEN 1 ELSE -1

\* What n attempts at c that reach the server may leave of a stock of s.
After(s, c, n) == IF c.op = "add" \/ s >= n THEN s + n * Delta(c) ELSE 0

Init == /\ server = InitialStock
        /\ pending = <<>>
        /\ resync = FALSE

Accept(c) == /\ Len(pending) < Capacity
             /\ pending' = Append(pending, c)
             /\ UNCHANGED <<server, resync>>

\* The oldest command reached the server n times and ended well or not; it
\* ended well only if it reached it and was not refused.
Settle(n, ok) ==
    /\ pending # <<>>
    /\ LET c == Head(pending) IN
       /\ server' = [server EXCEPT ![c.prod] = After(@, c, n)]
       /\ ok => server'[c.prod] # server[c.prod]
    /\ pending' = Tail(pending)
    /\ resync' = (resync \/ ~ok)

Refetch == /\ resync' = FALSE
           /\ UNCHANGED <<server, pending>>

OtherClient(p, d) == /\ server[p] + d >= 0
                     /\ server' = [server EXCEPT ![p] = @ + d]
                     /\ UNCHANGED <<pending, resync>>

SomeSettle == \E n \in 0 .. 2, ok \in BOOLEAN : Settle(n, ok)

Next == \/ \E c \in Command : Accept(c)
        \/ SomeSettle \/ Refetch
        \/ \E p \in Products, d \in {-1, 1} : OtherClient(p, d)

Spec == Init /\ [][Next]_vars

\* Weak fairness of SomeSettle and of Refetch, with their guards spelt out.
Fairness == /\ []<>(pending = <<>>) \/ []<><<SomeSettle>>_vars
            /\ []<>(~resync)
=============================================================================
