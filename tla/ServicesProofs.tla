--------------------------- MODULE ServicesProofs ---------------------------
(***************************************************************************)
(* The terminal comes up and stays up, for any limits and any number of    *)
(* drops, failures and restarts: there is always exactly one connection    *)
(* attempt, what runs during the boot finds what it uses, and both hold of *)
(* the two together; the broker's log topic repeats and reorders nothing;  *)
(* and the next boot is from a whole image, announced as a newer version.  *)
(***************************************************************************)
EXTENDS MCServices, FiniteSetTheorems, TLAPS

-----------------------------------------------------------------------------
(* WiFi                                                                    *)

(***************************************************************************)
(* Counting attempts is not inductive: where the attempt is decides which  *)
(* events can be queued.  It goes round from the driver (Tried) to an      *)
(* event (Told), and from there at once back to the driver or to a         *)
(* reconnect task (Waiting), unless it ends (GivenUp).                     *)
(***************************************************************************)
Names == {"start", "disconnected", "got_ip"}

OnlyAddresses(n) == \A i \in 1 .. n : events[i] = "got_ip"

Tried ==
    /\ link \in {"connecting", "up"} /\ pending = <<>> /\ portal = FALSE /\ stranded = FALSE
    /\ OnlyAddresses(Len(events))
    /\ events # <<>> => link = "up"
    /\ events = <<>> => (connected = TRUE <=> link = "up")

Told ==
    /\ link \in {"off", "down"} /\ pending = <<>> /\ portal = FALSE /\ stranded = FALSE
    /\ events # <<>> /\ OnlyAddresses(Len(events) - 1)
    /\ events[Len(events)] \in {"start", "disconnected"}
    /\ events[Len(events)] = "start" => Len(events) = 1 /\ connected = FALSE

Waiting ==
    /\ link \in {"off", "down"} /\ portal = FALSE /\ stranded = FALSE
    /\ events = <<>> /\ connected = FALSE
    /\ \E delay : pending = <<delay>>

GivenUp ==
    /\ link \in {"off", "down"}
    /\ \/ portal = TRUE  /\ stranded = FALSE
       \/ portal = FALSE /\ stranded = TRUE
    /\ events = <<>> /\ connected = FALSE /\ pending = <<>>

AttemptInv ==
    /\ events \in Seq(Names)
    /\ Tried \/ Told \/ Waiting \/ GivenUp
    /\ everConnected = TRUE => portal = FALSE

LEMMA BootShape ==
  ASSUME events' = <<"start">>, link' = "off", connected' = FALSE, pending' = <<>>,
         portal' = FALSE, stranded' = FALSE
  PROVE  AttemptInv'
  BY DEF AttemptInv, Told, OnlyAddresses, Names

LEMMA WifiStarts == WifiInit => AttemptInv
  BY DEF WifiInit, AttemptInv, Told, OnlyAddresses, Names

\* The queue when an event was put into it, and when one was taken out.
LEMMA PostedShape ==
  ASSUME events \in Seq(Names), NEW e \in Names, Posted(e)
  PROVE  /\ events' \in Seq(Names) /\ events' # <<>>
         /\ Len(events') = Len(events) + 1
         /\ events'[Len(events')] = e
         /\ \A i \in 1 .. Len(events) : events'[i] = events[i]
  BY DEF Posted

LEMMA TakenShape ==
  ASSUME events \in Seq(Names), NEW e \in Names, Take(e)
  PROVE  /\ events' \in Seq(Names) /\ Len(events) >= 1
         /\ Len(events') = Len(events) - 1
         /\ events[1] = e
         /\ \A i \in 1 .. Len(events) - 1 : events'[i] = events[i + 1]
  BY DEF Take

\* Sequences of no element and of one.
LEMMA Singles == /\ Len(<<>>) = 0
                 /\ \A x : Append(<<>>, x) = <<x>> /\ Tail(<<x>>) = <<>> /\ Len(<<x>>) = 1
  OBVIOUS

\* The event that ends an attempt is the last in the queue, and so the only one
\* when its turn comes.
LEMMA LastTaken ==
  ASSUME AttemptInv, NEW e \in {"start", "disconnected"}, Take(e)
  PROVE  Told /\ events' = <<>> /\ Len(events) = 1 /\ events[1] = e
<1>1. /\ events \in Seq(Names) /\ events # <<>> /\ events[1] = e
      /\ Len(events) \in Nat /\ Len(events) >= 1
  BY TakenShape DEF AttemptInv, Take, Names
<1>2. ~Tried
  BY <1>1 DEF Tried, OnlyAddresses
<1>3. Told
  BY <1>1, <1>2 DEF AttemptInv, Waiting, GivenUp
<1>4. Len(events) = 1
  <2> SUFFICES ASSUME Len(events) # 1 PROVE FALSE
    OBVIOUS
  <2>1. \A n \in Nat : n >= 1 /\ n # 1 => 1 \in 1 .. n - 1
    OBVIOUS
  <2>2. 1 \in 1 .. Len(events) - 1
    BY <1>1, <2>1
  <2> QED
    BY <1>1, <1>3, <2>2 DEF Told, OnlyAddresses
<1> QED
  BY <1>1, <1>3, <1>4 DEF Take

\* esp_wifi_connect gives the attempt to the driver, or ends it.
LEMMA ConnectsShape ==
  ASSUME Connects, link \in {"off", "down"}, events' = <<>>, pending' = <<>>,
         connected' = FALSE, portal = FALSE, portal' = portal, stranded = FALSE,
         everConnected' = everConnected
  PROVE  AttemptInv'
<1>1. OnlyAddresses(Len(events))'
  BY Singles DEF OnlyAddresses
<1>2. CASE link' = "connecting" /\ UNCHANGED stranded
  BY <1>1, <1>2 DEF AttemptInv, Tried
<1>3. CASE stranded' = TRUE /\ UNCHANGED link
  BY <1>3 DEF AttemptInv, GivenUp
<1> QED
  BY <1>2, <1>3 DEF Connects

LEMMA WifiStep == AttemptInv /\ [WifiNext]_wifiVars => AttemptInv'
<1> SUFFICES ASSUME AttemptInv, [WifiNext]_wifiVars PROVE AttemptInv'
  OBVIOUS
<1>1. CASE LinkDown
  <2>1. Tried /\ Posted("disconnected")
    BY <1>1 DEF LinkDown, AttemptInv, Told, Waiting, GivenUp
  <2>2. Told' /\ events' \in Seq(Names)
    BY <1>1, <2>1, PostedShape DEF LinkDown, AttemptInv, Tried, Told, OnlyAddresses, Names
  <2> QED
    BY <1>1, <2>2 DEF LinkDown, AttemptInv
<1>2. CASE LinkUp
  <2>1. Tried /\ Posted("got_ip")
    BY <1>2 DEF LinkUp, AttemptInv, Told, Waiting, GivenUp
  <2>2. Tried' /\ events' \in Seq(Names)
    BY <1>2, <2>1, PostedShape DEF LinkUp, AttemptInv, Tried, OnlyAddresses, Names
  <2> QED
    BY <1>2, <2>2 DEF LinkUp, AttemptInv
<1>3. CASE OnStart
  <2>1. Told /\ events' = <<>> /\ connected = FALSE
    BY <1>3, LastTaken DEF OnStart, Told, Take
  <2> QED
    BY <1>3, <2>1, ConnectsShape DEF OnStart, Told, AttemptInv
<1>4. CASE RetryNow
  <2>1. Told /\ events' = <<>>
    BY <1>4, LastTaken DEF RetryNow, Disconnected
  <2> QED
    BY <1>4, <2>1, ConnectsShape DEF RetryNow, Disconnected, Told, AttemptInv
<1>5. CASE RetryLater
  <2>1. Told /\ events' = <<>>
    BY <1>5, LastTaken DEF RetryLater, Disconnected
  <2>2. CASE pending' = Append(pending, Backoff(retry')) /\ UNCHANGED stranded
    <3>1. pending' = <<Backoff(retry')>>
      BY <2>1, <2>2, Singles DEF Told
    <3> QED
      BY <1>5, <2>1, <2>2, <3>1 DEF RetryLater, Disconnected, Told, Waiting, AttemptInv
  <2>3. CASE stranded' = TRUE /\ UNCHANGED pending
    BY <1>5, <2>1, <2>3 DEF RetryLater, Disconnected, Told, GivenUp, AttemptInv
  <2> QED
    BY <1>5, <2>2, <2>3 DEF RetryLater
<1>6. CASE StartPortal
  <2>1. Told /\ events' = <<>>
    BY <1>6, LastTaken DEF StartPortal, Disconnected
  <2>2. GivenUp'
    BY <1>6, <2>1 DEF StartPortal, Disconnected, Told, GivenUp
  <2>3. events' \in Seq(Names)
    BY <2>1
  <2>4. everConnected' # TRUE
    BY <1>6 DEF StartPortal
  <2> QED
    BY <2>2, <2>3, <2>4 DEF AttemptInv
<1>7. CASE OnGotIp
  <2>1. /\ events \in Seq(Names) /\ events' \in Seq(Names) /\ Len(events') = Len(events) - 1
        /\ Len(events) >= 1 /\ events[1] = "got_ip"
        /\ \A i \in 1 .. Len(events) - 1 : events'[i] = events[i + 1]
    BY <1>7, TakenShape DEF OnGotIp, AttemptInv, Names
  <2>2. CASE Tried
    <3>1. link = "up" /\ events # <<>>
      BY <2>1, <2>2, Singles DEF Tried
    <3>2. OnlyAddresses(Len(events))'
      BY <2>1, <2>2 DEF Tried, OnlyAddresses
    <3> QED
      BY <1>7, <2>1, <2>2, <3>1, <3>2 DEF OnGotIp, AttemptInv, Tried
  <2>3. CASE Told
    BY <1>7, <2>1, <2>3 DEF OnGotIp, AttemptInv, Told, OnlyAddresses
  <2>4. ~Waiting /\ ~GivenUp
    BY <1>7 DEF OnGotIp, Take, Waiting, GivenUp
  <2> QED
    BY <2>2, <2>3, <2>4 DEF AttemptInv
<1>8. CASE Reconnect
  <2>1. Waiting
    BY <1>8 DEF Reconnect, AttemptInv, Tried, Told, GivenUp
  <2>2. pending' = <<>>
    BY <1>8, <2>1, Singles DEF Reconnect, Waiting
  <2> QED
    BY <1>8, <2>1, <2>2, ConnectsShape DEF Reconnect, AttemptInv, Waiting
<1>9. CASE PortalSave \/ WifiPowerCut
  BY <1>9, BootShape DEF PortalSave, WifiPowerCut, WifiBoot
<1>10. CASE UNCHANGED wifiVars
  BY <1>10 DEF wifiVars, AttemptInv, Tried, Told, Waiting, GivenUp, OnlyAddresses
<1> QED
  BY <1>1, <1>2, <1>3, <1>4, <1>5, <1>6, <1>7, <1>8, <1>9, <1>10 DEF WifiNext

LEMMA WifiInvariant == WifiSpec => []AttemptInv
  BY WifiStarts, WifiStep, PTL DEF WifiSpec

LEMMA AttemptCounted == AttemptInv => OneAttempt
<1> SUFFICES ASSUME AttemptInv PROVE OneAttempt
  OBVIOUS
<1>1. Len(events) \in Nat
  BY DEF AttemptInv
<1>2. ASSUME NEW e, \A i \in 1 .. Len(events) : events[i] # e PROVE Ones(e) = 0
  <2>1. {i \in 1 .. Len(events) : events[i] = e} = {}
    BY <1>2
  <2> QED
    BY <2>1, FS_EmptySet DEF Ones
<1>3. CASE Tried
  <2>1. Ones("start") = 0 /\ Ones("disconnected") = 0
    BY <1>2, <1>3 DEF Tried, OnlyAddresses
  <2> QED
    BY <1>3, <2>1 DEF Tried, OneAttempt, Token
<1>4. CASE Told
  <2> DEFINE last == events[Len(events)]
             end  == {Len(events)}
  <2>1. Len(events) >= 1 /\ \A i \in 1 .. Len(events) : events[i] = last <=> i = Len(events)
    BY <1>1, <1>4 DEF Told, OnlyAddresses, AttemptInv
  <2>2. {i \in 1 .. Len(events) : events[i] = last} = end
    BY <1>1, <2>1
  <2>3. Ones(last) = 1
    BY <2>2, FS_Singleton DEF Ones
  <2>4. \A e \in {"start", "disconnected"} : e # last => Ones(e) = 0
    BY <1>2, <1>4, <2>1 DEF Told, OnlyAddresses
  <2>5. \/ Ones("start") = 1 /\ Ones("disconnected") = 0
        \/ Ones("start") = 0 /\ Ones("disconnected") = 1
    BY <1>4, <2>3, <2>4 DEF Told
  <2>6. /\ Token(link \in {"connecting", "up"}) = 0 /\ Token(portal) = 0 /\ Token(stranded) = 0
        /\ Len(pending) = 0
    BY <1>4, Singles DEF Told, Token
  <2> QED
    BY <2>5, <2>6 DEF OneAttempt
<1>5. CASE Waiting \/ GivenUp
  <2>1. Ones("start") = 0 /\ Ones("disconnected") = 0
    BY <1>2, <1>5 DEF Waiting, GivenUp
  <2>2. Token(link \in {"connecting", "up"}) = 0
    BY <1>5 DEF Waiting, GivenUp, Token
  <2>3. CASE Waiting
    <3>1. Len(pending) = 1 /\ Token(portal) = 0 /\ Token(stranded) = 0
      BY <2>3, Singles DEF Waiting, Token
    <3> QED
      BY <2>1, <2>2, <3>1 DEF OneAttempt
  <2>4. CASE GivenUp
    <3>1. /\ Len(pending) = 0
          /\ \/ Token(portal) = 1 /\ Token(stranded) = 0
             \/ Token(portal) = 0 /\ Token(stranded) = 1
      BY <2>4, Singles DEF GivenUp, Token
    <3> QED
      BY <2>1, <2>2, <3>1 DEF OneAttempt
  <2> QED
    BY <1>5, <2>3, <2>4
<1> QED
  BY <1>3, <1>4, <1>5 DEF AttemptInv

\* Exactly one connection attempt exists, until it ends in the portal or in a
\* call whose failure nobody looks at (wifi_manager.c:34-40, 154-188).
THEOREM AttemptIsUnique == WifiSpec => []OneAttempt
  BY AttemptCounted, WifiInvariant, PTL

\* "Never fall back to SoftAP; credentials are known-good."
\* (wifi_manager.c:168), in any order of events.
THEOREM PortalIsForNewcomers == WifiSpec => []NoPortalOnceConnected
<1>1. AttemptInv => NoPortalOnceConnected
  BY DEF AttemptInv, NoPortalOnceConnected, Tried, Told, Waiting, GivenUp
<1> QED
  BY <1>1, WifiInvariant, PTL

\* s_connected lags behind the driver only by the events not handled yet
\* (wifi_manager.c:158-201).
THEOREM StatusIsCurrent == WifiSpec => []StatusSettles
<1>1. AttemptInv => StatusSettles
  BY DEF AttemptInv, StatusSettles, Tried, Told, Waiting, GivenUp
<1> QED
  BY <1>1, WifiInvariant, PTL

\* A delay is one that the backoff gives, and there is one reconnect task at most.
LEMMA WifiTypeStep == WifiTypeOK /\ AttemptInv /\ [WifiNext]_wifiVars => WifiTypeOK'
<1> SUFFICES ASSUME WifiTypeOK, AttemptInv, AttemptInv', [WifiNext]_wifiVars PROVE WifiTypeOK'
  BY WifiStep
<1> DEFINE Rest == /\ link \in {"off", "down", "connecting", "up"}
                   /\ Len(events) <= QueueBound /\ retry \in 0 .. RetryBound
                   /\ connected \in BOOLEAN /\ everConnected \in BOOLEAN
                   /\ portal \in BOOLEAN /\ pending \in Seq(Delays) /\ stranded \in BOOLEAN
<1>0. Rest /\ events \in Seq(Names) /\ Len(events) \in Nat /\ RetryBound \in Nat \ {0}
      /\ QueueBound \in Nat \ {0}
  BY BoundAssumption DEF WifiTypeOK, Names
<1>1. Rest' => WifiTypeOK'
  <2>1. Len(pending') <= 1 /\ events' \in Seq(Names)
    BY DEF AttemptInv, Tried, Told, Waiting, GivenUp
  <2> QED
    BY <2>1 DEF WifiTypeOK, Names
<1>2. \A e \in Names : Posted(e) => Len(events') <= QueueBound
  BY <1>0 DEF Posted
<1>3. \A e \in Names : Take(e) => Len(events') <= QueueBound
  BY <1>0 DEF Take
<1>4. Disconnected => /\ retry' \in 1 .. RetryBound /\ connected' = FALSE
                      /\ Len(events') <= QueueBound
  BY <1>0, <1>3 DEF Disconnected, Names
<1>5. CASE LinkDown \/ LinkUp
  BY <1>0, <1>1, <1>2, <1>5 DEF LinkDown, LinkUp, Names
<1>6. CASE OnStart \/ OnGotIp
  <2>1. Len(events') <= QueueBound
    BY <1>3, <1>6 DEF OnStart, OnGotIp, Names
  <2>2. 0 \in 0 .. RetryBound
    BY <1>0
  <2> QED
    BY <1>0, <1>1, <1>6, <2>1, <2>2 DEF OnStart, OnGotIp, Connects
<1>7. CASE RetryLater
  <2>1. Backoff(retry') \in Delays
    BY <1>4, <1>7 DEF RetryLater, Delays
  <2>2. pending' \in Seq(Delays)
    BY <1>0, <1>7, <2>1 DEF RetryLater
  <2>3. retry' \in 0 .. RetryBound
    BY <1>4, <1>7 DEF RetryLater
  <2> QED
    BY <1>0, <1>1, <1>4, <1>7, <2>2, <2>3 DEF RetryLater
<1>8. CASE RetryNow \/ StartPortal
  <2>1. retry' \in 0 .. RetryBound
    BY <1>4, <1>8 DEF RetryNow, StartPortal
  <2> QED
    BY <1>0, <1>1, <1>4, <1>8, <2>1 DEF RetryNow, StartPortal, Connects
<1>9. CASE Reconnect
  <2>1. pending' \in Seq(Delays)
    BY <1>0, <1>9 DEF Reconnect
  <2>2. /\ link' \in {"off", "down", "connecting", "up"} /\ stranded' \in BOOLEAN
        /\ UNCHANGED <<events, retry, connected, everConnected, portal>>
    BY <1>0, <1>9 DEF Reconnect, Connects
  <2> QED
    BY <1>0, <1>1, <2>1, <2>2
<1>10. CASE WifiBoot
  <2>1. Len(<<"start">>) = 1 /\ <<>> \in Seq(Delays)
    OBVIOUS
  <2>2. Len(events') <= QueueBound
    BY <1>0, <1>10, <2>1 DEF WifiBoot
  <2>3. 0 \in 0 .. RetryBound
    BY <1>0
  <2> QED
    BY <1>0, <1>1, <1>10, <2>1, <2>2, <2>3 DEF WifiBoot
<1>11. CASE UNCHANGED wifiVars
  BY <1>0, <1>1, <1>11 DEF wifiVars
<1> QED
  BY <1>5, <1>6, <1>7, <1>8, <1>9, <1>10, <1>11 DEF WifiNext, PortalSave, WifiPowerCut

\* Type correctness of the WiFi manager: every delay waited for is one that the
\* backoff gives for some number of failures (wifi_manager.c:170-178).
THEOREM WifiTypes == WifiSpec => []WifiTypeOK
<1>1. WifiInit => WifiTypeOK
  <2> SUFFICES ASSUME WifiInit PROVE WifiTypeOK
    OBVIOUS
  <2>1. /\ events = <<"start">> /\ Len(<<"start">>) = 1 /\ pending = <<>> /\ Len(<<>>) = 0
        /\ <<"start">> \in Seq({"start", "disconnected", "got_ip"}) /\ <<>> \in Seq(Delays)
    BY DEF WifiInit
  <2>2. 0 \in 0 .. RetryBound /\ 1 <= QueueBound
    BY BoundAssumption
  <2>3. /\ events \in Seq({"start", "disconnected", "got_ip"}) /\ Len(events) <= QueueBound
        /\ pending \in Seq(Delays) /\ Len(pending) <= 1
    BY <2>1, <2>2
  <2> QED
    BY <2>2, <2>3 DEF WifiInit, WifiTypeOK
<1> QED
  BY <1>1, WifiTypeStep, WifiInvariant, PTL DEF WifiSpec

-----------------------------------------------------------------------------
(* The boot sequence                                                       *)

\* The place in Order of the step that gives a thing.
Home == [bus |-> 1, board |-> 2, touch |-> 2, ctrl |-> 3, lvgl |-> 4, display |-> 5,
         wifi |-> 7, client |-> 9, cache |-> 10, list |-> 11, cmd |-> 11, flags |-> 11,
         task |-> 11, screen |-> 12, mqtt |-> 13, ring |-> 14, hook |-> 14,
         telemetry |-> 15, ota |-> 16]

LEMMA Places == \A i \in 1 .. 17 : Place(Order[i]) = i
<1>1. Len(Order) = 17
  BY DEF Order
<1>2. \A i, j \in 1 .. 17 : Order[i] = Order[j] => i = j
  BY DEF Order
<1> QED
  BY <1>1, <1>2 DEF Place

LEMMA StepPlaces ==
  /\ Place("bus") = 1 /\ Place("board") = 2 /\ Place("ctrl") = 3 /\ Place("lvgl") = 4
  /\ Place("register") = 5 /\ Place("connecting") = 6 /\ Place("wifi") = 7
  /\ Place("offline") = 8 /\ Place("client") = 9 /\ Place("cache") = 10
  /\ Place("task") = 11 /\ Place("screen") = 12 /\ Place("mqtt") = 13 /\ Place("log") = 14
  /\ Place("events") = 15 /\ Place("ota") = 16 /\ Place("online") = 17
BY Places DEF Order

LEMMA StepNames ==
  Steps = {"bus", "board", "ctrl", "lvgl", "register", "connecting", "wifi", "client",
           "cache", "task", "screen", "mqtt", "log", "events", "ota"}
BY DEF Steps, Gives

\* Every thing is given by one step only.
LEMMA GivenAtHome == \A s \in Steps : \A t \in Gives[s] : Home[t] = Place(s)
BY StepNames, StepPlaces DEF Gives, Home

LEMMA Afters == \A i \in 1 .. 16 : After(Order[i]) = Order[i + 1]
BY Places DEF After

LEMMA NextSteps ==
  /\ After("bus") = "board" /\ After("board") = "ctrl" /\ After("ctrl") = "lvgl"
  /\ After("lvgl") = "register" /\ After("register") = "connecting"
  /\ After("connecting") = "wifi" /\ After("wifi") = "offline" /\ After("client") = "cache"
  /\ After("cache") = "task" /\ After("task") = "screen" /\ After("screen") = "mqtt"
  /\ After("mqtt") = "log" /\ After("log") = "events" /\ After("events") = "ota"
  /\ After("ota") = "online"
BY Places DEF After, Order

\* What has been made is the work of steps already done, and the services are
\* started from "offline" only.
MadeInv ==
    pc # "restart" => /\ \A t \in made : Home[t] < Place(pc)
                      /\ started <=> Place(pc) > 8

BootInv == BootTypeOK /\ MadeInv

LEMMA BootStarts == BootInit => BootInv
<1> SUFFICES ASSUME BootInit PROVE BootInv
  OBVIOUS
<1>1. BootTypeOK
  <2>1. pc \in Steps /\ 0 \in 0 .. MaxFaults /\ {} \subseteq Things
    BY StepNames, FaultsAssumption DEF BootInit
  <2> QED
    BY <2>1 DEF BootInit, BootTypeOK
<1>2. MadeInv
  BY StepPlaces DEF BootInit, MadeInv
<1> QED
  BY <1>1, <1>2 DEF BootInv

\* A step that goes on has created some of what it gives, or all of it.
LEMMA StepGoesOn ==
  ASSUME BootInv, NEW step \in Steps, NEW next \in Steps \cup {"offline", "online"},
         pc = step, pc' = next, Place(next) = Place(step) + 1, step # "offline",
         made' \subseteq made \cup Gives[step],
         made \subseteq made',
         "task" \in made' => {"list", "cmd", "flags"} \subseteq made',
         "hook" \in made' => "ring" \in made',
         faults' \in 0 .. MaxFaults, started' = started, rendering' = rendering,
         clean' \in BOOLEAN
  PROVE  BootInv'
<1>1. step # "restart" /\ Place(step) \in 1 .. 16 /\ Place(step) # 8
  BY StepNames, StepPlaces
<1>2. BootTypeOK'
  <2>1. Gives[step] \subseteq Things
    BY DEF Things
  <2> QED
    BY <2>1 DEF BootInv, BootTypeOK
<1>3. \A t \in made' : Home[t] < Place(next)
  <2> SUFFICES ASSUME NEW t \in made' PROVE Home[t] < Place(next)
    OBVIOUS
  <2>1. CASE t \in made
    <3>1. Home[t] < Place(step) /\ t \in Things
      BY <1>1, <2>1 DEF BootInv, MadeInv, BootTypeOK
    <3>2. Home[t] \in Nat
      BY <3>1, GivenAtHome, StepNames, StepPlaces DEF Things
    <3> QED
      BY <1>1, <3>1, <3>2
  <2>2. CASE t \in Gives[step]
    BY <1>1, <2>2, GivenAtHome
  <2> QED
    BY <2>1, <2>2
<1>4. started <=> Place(next) > 8
  BY <1>1 DEF BootInv, MadeInv
<1>5. next # "restart"
  BY StepNames
<1> QED
  BY <1>2, <1>3, <1>4, <1>5 DEF BootInv, MadeInv

\* A restart keeps the number of faults and nothing else.
LEMMA BootAgain ==
  ASSUME BootInv, faults' \in 0 .. MaxFaults, clean' \in BOOLEAN,
         \/ pc' = "restart" /\ made' = made /\ UNCHANGED <<rendering, started>>
         \/ pc' = "bus" /\ made' = {} /\ rendering' = FALSE /\ started' = FALSE
  PROVE  BootInv'
<1>1. BootTypeOK'
  BY StepNames DEF BootInv, BootTypeOK
<1>2. MadeInv'
  BY StepPlaces DEF MadeInv
<1> QED
  BY <1>1, <1>2 DEF BootInv

LEMMA CleanTyped == BootInv => clean \in BOOLEAN
BY DEF BootInv, BootTypeOK

LEMMA FaultCounts == BootInv /\ (Fault \/ UNCHANGED faults) => faults' \in 0 .. MaxFaults
BY FaultsAssumption DEF BootInv, BootTypeOK, Fault

LEMMA BootStep == BootInv /\ [BootNext]_bootVars => BootInv'
<1> SUFFICES ASSUME BootInv, [BootNext]_bootVars PROVE BootInv'
  OBVIOUS
<1>1. ASSUME NEW step \in Steps, At(step), Steady, ~(step \in {"task", "log"}),
             Whole(step) \/ Short(step, {}) \/ (step = "board" /\ Short(step, {"board"}))
      PROVE  BootInv'
  <2>1. faults' \in 0 .. MaxFaults /\ clean' \in BOOLEAN
    BY <1>1, FaultCounts, CleanTyped DEF Whole, Short
  <2>2. made' \subseteq made \cup Gives[step] /\ made \subseteq made'
    BY <1>1 DEF Whole, Short, Gives
  <2>3. {"task", "hook"} \cap Gives[step] = {}
    BY <1>1, StepNames DEF Gives
  <2>4. /\ "task" \in made' => {"list", "cmd", "flags"} \subseteq made'
        /\ "hook" \in made' => "ring" \in made'
    BY <2>2, <2>3 DEF BootInv, BootTypeOK
  <2>5. After(step) \in Steps \cup {"offline", "online"} /\ Place(After(step)) = Place(step) + 1
    BY StepNames, StepPlaces, NextSteps
  <2>6. pc = step /\ pc' = After(step) /\ started' = started /\ rendering' = rendering
    BY <1>1 DEF At, Steady
  <2>7. step # "offline"
    BY StepNames
  <2> QED
    BY <2>1, <2>2, <2>4, <2>5, <2>6, <2>7, StepGoesOn
<1>2. CASE EventBusInit \/ ScreenCtrlInit \/ WifiManagerStart \/ GrocyClientInit
           \/ ImageCacheInit \/ MqttManagerInit \/ MqttEventsInit \/ OtaTaskStart
  <2>1. \E step \in {"bus", "ctrl", "wifi", "client", "cache", "mqtt", "events", "ota"} :
            At(step) /\ Steady /\ (Whole(step) \/ Short(step, {}))
    BY <1>2 DEF EventBusInit, ScreenCtrlInit, WifiManagerStart, GrocyClientInit,
       ImageCacheInit, MqttManagerInit, MqttEventsInit, OtaTaskStart
  <2>2. {"bus", "ctrl", "wifi", "client", "cache", "mqtt", "events", "ota"} \subseteq Steps
    BY StepNames
  <2> QED
    BY <1>1, <2>1, <2>2
<1>3. CASE pc' # "restart" /\ (BoardInit \/ LvglPortInit \/ LvglRegister)
  <2>1. \E step \in {"board", "lvgl", "register"} :
            /\ At(step) /\ Steady
            /\ Whole(step) \/ (step = "board" /\ Short(step, {"board"}))
    BY <1>3 DEF BoardInit, LvglPortInit, LvglRegister, At
  <2>2. {"board", "lvgl", "register"} \subseteq Steps
    BY StepNames
  <2> QED
    BY <1>1, <2>1, <2>2
<1>4. CASE ConnectingScreen
  <2>1. pc = "connecting" /\ pc' = "wifi" /\ UNCHANGED <<made, faults, rendering, started, clean>>
    BY <1>4, NextSteps DEF ConnectingScreen, At, Steady
  <2>2. made \subseteq made \cup Gives["connecting"]
    OBVIOUS
  <2>3. Place("wifi") = Place("connecting") + 1 /\ "connecting" \in Steps /\ "wifi" \in Steps
    BY StepNames, StepPlaces
  <2>4. /\ "task" \in made => {"list", "cmd", "flags"} \subseteq made
        /\ "hook" \in made => "ring" \in made
    BY DEF BootInv, BootTypeOK
  <2>5. faults' \in 0 .. MaxFaults /\ clean' \in BOOLEAN
    BY <2>1, FaultCounts, CleanTyped
  <2> QED
    BY <2>1, <2>2, <2>3, <2>4, <2>5, StepGoesOn
<1>5. CASE GrocyTaskStart
  <2>1. /\ pc = "task" /\ pc' = "screen" /\ UNCHANGED <<rendering, started>>
        /\ made \subseteq made' /\ made' \subseteq made \cup Gives["task"]
    <3>1. CASE Whole("task")
      BY <1>5, <3>1, NextSteps DEF GrocyTaskStart, Whole, At, Steady
    <3>2. ASSUME NEW left \in SUBSET {"list", "cmd", "flags"}, Short("task", left)
          PROVE  made \subseteq made' /\ made' \subseteq made \cup Gives["task"]
      BY <3>2 DEF Short, Gives
    <3> QED
      BY <1>5, <3>1, <3>2, NextSteps DEF GrocyTaskStart, At, Steady
  <2>2. faults' \in 0 .. MaxFaults /\ clean' \in BOOLEAN
    BY <1>5, FaultCounts, CleanTyped DEF GrocyTaskStart, Whole, Short
  <2>3. "task" \in made' => {"list", "cmd", "flags"} \subseteq made'
    <3>1. "task" \notin made
      BY <2>1, StepPlaces DEF BootInv, MadeInv, Home
    <3>2. CASE Whole("task")
      BY <3>2 DEF Whole, Gives
    <3>3. ASSUME NEW left \in SUBSET {"list", "cmd", "flags"}, Short("task", left)
          PROVE  "task" \notin made'
      BY <3>1, <3>3 DEF Short
    <3> QED
      BY <1>5, <3>2, <3>3 DEF GrocyTaskStart
  <2>4. "hook" \in made' => "ring" \in made'
    <3>1. "hook" \notin Gives["task"]
      BY DEF Gives
    <3> QED
      BY <2>1, <3>1 DEF BootInv, BootTypeOK
  <2>5. Place("screen") = Place("task") + 1 /\ "task" \in Steps /\ "screen" \in Steps
    BY StepNames, StepPlaces
  <2> QED
    BY <2>1, <2>2, <2>3, <2>4, <2>5, StepGoesOn
<1>6. CASE MqttLogInit
  <2>1. /\ pc = "log" /\ pc' = "events" /\ UNCHANGED <<rendering, started>>
        /\ made' = made \cup Gives["log"] \/ made' = made
    BY <1>6, NextSteps DEF MqttLogInit, Whole, Short, At, Steady
  <2>2. faults' \in 0 .. MaxFaults /\ clean' \in BOOLEAN
    BY <1>6, FaultCounts, CleanTyped DEF MqttLogInit, Whole, Short
  <2>3. /\ "task" \in made' => {"list", "cmd", "flags"} \subseteq made'
        /\ "hook" \in made' => "ring" \in made'
    BY <2>1 DEF BootInv, BootTypeOK, Gives
  <2>4. Place("events") = Place("log") + 1 /\ "log" \in Steps /\ "events" \in Steps
    BY StepNames, StepPlaces
  <2> QED
    BY <2>1, <2>2, <2>3, <2>4, StepGoesOn
<1>7. CASE UiMainInit
  <2>1. /\ pc = "screen" /\ pc' = "mqtt" /\ UNCHANGED <<rendering, started, faults, clean>>
        /\ made' = made \cup Gives["screen"] \/ made' = made
    BY <1>7, NextSteps DEF UiMainInit, Whole, At, Steady
  <2>2. faults' \in 0 .. MaxFaults /\ clean' \in BOOLEAN
    BY <2>1, FaultCounts, CleanTyped
  <2>3. /\ "task" \in made' => {"list", "cmd", "flags"} \subseteq made'
        /\ "hook" \in made' => "ring" \in made'
    BY <2>1 DEF BootInv, BootTypeOK, Gives
  <2>4. Place("mqtt") = Place("screen") + 1 /\ "screen" \in Steps /\ "mqtt" \in Steps
    BY StepNames, StepPlaces
  <2> QED
    BY <2>1, <2>2, <2>3, <2>4, StepGoesOn
<1>8. CASE OnWifiConnected
  <2>1. /\ pc \in {"offline", "online"} /\ pc' = IF started THEN pc ELSE "client"
        /\ started' = TRUE /\ UNCHANGED <<made, rendering, faults, clean>>
    BY <1>8 DEF OnWifiConnected
  <2>2. started <=> pc = "online"
    BY <2>1, StepPlaces DEF BootInv, MadeInv
  <2>3. BootTypeOK'
    BY <2>1, StepNames DEF BootInv, BootTypeOK
  <2>4. MadeInv'
    <3>1. \A t \in made : Home[t] < Place(pc) /\ Home[t] \in Nat
      BY <2>1, GivenAtHome, StepNames, StepPlaces DEF BootInv, BootTypeOK, MadeInv, Things
    <3>2. CASE pc = "online"
      BY <2>1, <2>2, <3>1, <3>2, StepPlaces DEF MadeInv
    <3>3. CASE pc = "offline"
      <4>1. pc' = "client" /\ Place("client") = 9 /\ Place(pc) = 8
        BY <2>1, <2>2, <3>3, StepPlaces
      <4>2. \A t \in made' : Home[t] < Place(pc')
        BY <2>1, <3>1, <4>1
      <4> QED
        BY <2>1, <4>1, <4>2 DEF MadeInv
    <3> QED
      BY <2>1, <3>2, <3>3
  <2> QED
    BY <2>3, <2>4 DEF BootInv
<1>9. CASE pc' = "restart" /\ (BoardInit \/ LvglPortInit \/ LvglRegister)
  <2>1. made' = made /\ Fault /\ clean' = FALSE
    BY <1>9, NextSteps DEF BoardInit, LvglPortInit, LvglRegister, Short, At, Steady
  <2> QED
    BY <1>9, <2>1, FaultCounts, BootAgain DEF BoardInit, LvglPortInit, LvglRegister, Steady
<1>10. CASE Panic \/ PowerCut
  BY <1>10, FaultCounts, CleanTyped, BootAgain DEF Panic, PowerCut
<1>11. CASE Restart
  BY <1>11, FaultCounts, BootAgain DEF Restart
<1>12. CASE UNCHANGED <<pc, made, started, faults, clean>> /\ rendering' \in BOOLEAN
  BY <1>12 DEF BootInv, BootTypeOK, MadeInv
<1>13. CASE LvglDraws \/ UNCHANGED bootVars
  BY <1>12, <1>13 DEF LvglDraws, bootVars, BootInv, BootTypeOK
<1> QED
  BY <1>2, <1>3, <1>4, <1>5, <1>6, <1>7, <1>8, <1>9, <1>10, <1>11, <1>13
     DEF BootNext, BootSteps, Services

LEMMA BootRuns == BootSpec => []BootInv
BY BootStarts, BootStep, PTL DEF BootSpec

\* Types of the boot sequence: no task without its queues, no hook without its
\* ring.
THEOREM BootTypes == BootSpec => []BootTypeOK
<1>1. BootInv => BootTypeOK
  BY DEF BootInv
<1> QED
  BY <1>1, BootRuns, PTL

LEMMA UsesAreHome == BootInv => UsesReady
<1> SUFFICES ASSUME BootInv, NEW step \in Steps, pc # "restart", Place(step) >= Place(pc),
                    NEW t \in Missing, t \in Gives[step]
             PROVE  FALSE
  BY DEF UsesReady
<1>1. Home[t] = Place(step) /\ Place(step) \in Nat /\ Place(pc) \in Nat
  BY GivenAtHome, StepNames, StepPlaces DEF BootInv, BootTypeOK
<1>2. \A s \in made : Home[s] < Place(pc)
  BY DEF BootInv, MadeInv
<1>3. CASE t \in TaskUses
  <2>1. "task" \in made /\ t \in {"client", "cache", "bus", "list", "cmd", "flags"}
    BY <1>3 DEF TaskUses
  <2> QED
    BY <1>1, <1>2, <2>1 DEF Home
<1>4. CASE t \in ScreenUses
  <2>1. "screen" \in made /\ t \in {"list", "bus", "board", "cmd"}
    BY <1>4 DEF ScreenUses
  <2> QED
    BY <1>1, <1>2, <2>1 DEF Home
<1>5. CASE t \in HandlerUses
  <2>1. \/ "ctrl" \in made /\ t \in {"bus", "board"}
        \/ "mqtt" \in made /\ t = "bus"
        \/ "hook" \in made /\ t = "ring"
    BY <1>5 DEF HandlerUses
  <2>2. ~("hook" \in made /\ t = "ring")
    BY DEF BootInv, BootTypeOK, Missing
  <2> QED
    BY <1>1, <1>2, <2>1, <2>2 DEF Home
<1>6. CASE t \in StepUses
  <2>1. \/ pc = "ctrl" /\ t = "bus"
        \/ pc = "register" /\ t \in {"board", "lvgl"}
        \/ pc = "screen" /\ t \in {"bus", "display"}
        \/ pc \in {"mqtt", "events"} /\ t = "bus"
    BY <1>6 DEF StepUses
  <2> QED
    BY <1>1, <2>1, StepPlaces DEF Home
<1> QED
  BY <1>3, <1>4, <1>5, <1>6 DEF Missing

\* What a running task uses is never the work of a step still ahead, for any
\* number of failures and restarts (app_main.c:35-74, 87-161).
THEOREM OrderIsRight == BootSpec => []UsesReady
BY BootRuns, UsesAreHome, PTL

-----------------------------------------------------------------------------
(* The whole terminal                                                      *)

\* A step of the terminal is a step of the boot sequence, or leaves it alone ...
LEMMA TerminalBoots == [TerminalNext]_terminalVars => [BootNext]_bootVars
<1> SUFFICES ASSUME [TerminalNext]_terminalVars PROVE BootNext \/ UNCHANGED bootVars
  OBVIOUS
<1>1. CASE BootSide \/ Address \/ TerminalRestart
  BY <1>1 DEF BootSide, Address, TerminalRestart, BootNext
<1>2. CASE Driver \/ Handler
  BY <1>2 DEF Driver, Handler
<1>3. CASE PortalRestart
  BY <1>3 DEF PortalRestart, LoopFree, WifiStarted, PowerCut, BootNext
<1> QED
  BY <1>1, <1>2, <1>3 DEF TerminalNext, terminalVars

\* ... and a step of the WiFi manager, or leaves it alone: a power cut and the
\* portal's restart take effect on WiFi when the terminal starts again.
LEMMA TerminalConnects == [TerminalNext]_terminalVars => [WifiNext]_wifiVars
<1> SUFFICES ASSUME [TerminalNext]_terminalVars PROVE WifiNext \/ UNCHANGED wifiVars
  OBVIOUS
<1>1. CASE BootSide
  BY <1>1 DEF BootSide
<1>2. CASE Driver \/ Handler \/ Address
  BY <1>2 DEF Driver, Handler, Address, WifiNext
<1>3. CASE PortalRestart
  BY <1>3 DEF PortalRestart, wifiVars
<1>4. CASE TerminalRestart
  BY <1>4 DEF TerminalRestart, WifiNext, WifiPowerCut
<1> QED
  BY <1>1, <1>2, <1>3, <1>4 DEF TerminalNext, terminalVars

\* Put together with the WiFi manager, the boot sequence behaves as it does by
\* itself: the handler that starts the services (app_main.c:97-161) and the
\* restarts do nothing that Startup does not have.
THEOREM TerminalRefinesBoot == TerminalSpec => BootSpec
BY TerminalBoots, PTL DEF TerminalSpec, TerminalInit, BootSpec

\* So does the WiFi manager: services started from within its handler only delay
\* the next event (wifi_manager.c:190-201), and every restart loses its state.
THEOREM TerminalRefinesWifi == TerminalSpec => WifiSpec
BY TerminalConnects, PTL DEF TerminalSpec, TerminalInit, WifiSpec

\* What is proved of the parts holds of the terminal: nothing is used before it is
\* made (app_main.c:35-161), there is one connection attempt, no portal after a
\* connection, and the status is current (wifi_manager.c:154-201).
THEOREM TerminalIsSafe ==
  TerminalSpec => [](UsesReady /\ OneAttempt /\ NoPortalOnceConnected /\ StatusSettles)
BY TerminalRefinesBoot, TerminalRefinesWifi, OrderIsRight, AttemptIsUnique,
   PortalIsForNewcomers, StatusIsCurrent, PTL

\* The services run in the terminals that have been connected, and in no other
\* (app_main.c:97-104, wifi_manager.c:190-201) ...
StartedOnce == pc # "restart" => (started = TRUE <=> everConnected = TRUE)

\* ... so they never share the device with the portal, whose save handler
\* restarts it.
PortalAlone == pc # "restart" /\ started = TRUE => portal = FALSE

LEMMA StartedStep == StartedOnce /\ [TerminalNext]_terminalVars => StartedOnce'
<1> SUFFICES ASSUME StartedOnce, [TerminalNext]_terminalVars, pc' # "restart"
             PROVE  started' = TRUE <=> everConnected' = TRUE
  BY DEF StartedOnce
<1>1. CASE BootSide
  <2>1. pc # "restart" /\ started' = started /\ everConnected' = everConnected
    BY <1>1 DEF BootSide, BootSteps, Services, EventBusInit, BoardInit, ScreenCtrlInit,
       LvglPortInit, LvglRegister, ConnectingScreen, WifiManagerStart, GrocyClientInit,
       ImageCacheInit, GrocyTaskStart, UiMainInit, MqttManagerInit, MqttLogInit,
       MqttEventsInit, OtaTaskStart, LvglDraws, Panic, PowerCut, At, Steady, wifiVars
  <2> QED
    BY <2>1 DEF StartedOnce
<1>2. CASE Driver \/ Handler
  <2>1. pc' = pc /\ started' = started /\ everConnected' = everConnected
    BY <1>2 DEF Driver, Handler, LinkDown, LinkUp, Reconnect, OnStart, RetryLater, RetryNow,
       StartPortal, Disconnected, bootVars
  <2> QED
    BY <2>1 DEF StartedOnce
<1>3. CASE Address
  BY <1>3 DEF Address, OnGotIp, OnWifiConnected
<1>4. CASE PortalRestart
  BY <1>4 DEF PortalRestart
<1>5. CASE TerminalRestart
  BY <1>5 DEF TerminalRestart, Restart, WifiBoot
<1>6. CASE UNCHANGED terminalVars
  BY <1>6 DEF terminalVars, bootVars, wifiVars, StartedOnce
<1> QED
  BY <1>1, <1>2, <1>3, <1>4, <1>5, <1>6 DEF TerminalNext

\* In every terminal the services and the portal exclude each other, through any
\* drops, renewed addresses and restarts (app_main.c:97-104, wifi_manager.c:166-201).
THEOREM PortalOrServices == TerminalSpec => [](StartedOnce /\ PortalAlone)
<1>1. TerminalInit => StartedOnce
  BY DEF TerminalInit, BootInit, WifiInit, StartedOnce
<1>2. StartedOnce /\ NoPortalOnceConnected /\ AttemptInv => PortalAlone
  BY DEF StartedOnce, NoPortalOnceConnected, PortalAlone, AttemptInv, Tried, Told, Waiting,
         GivenUp
<1> QED
  BY <1>1, <1>2, StartedStep, TerminalRefinesWifi, TerminalIsSafe, WifiInvariant, PTL
     DEF TerminalSpec

-----------------------------------------------------------------------------
(* Log lines                                                               *)

\* Lines move from the log over the ring and the drain task to the topic, and
\* each of these places holds later lines than the next; warnings are between
\* them anywhere but in the topic.
Before(m, n) == m = Warning \/ n = Warning \/ m < n

LineInv ==
    /\ logged \in 0 .. MaxLines
    /\ held \in 0 .. Warning /\ ring \in Seq(Nat) /\ topic \in Seq(Nat)
    /\ held = Warning \/ held <= logged
    /\ \A i \in 1 .. Len(ring) : /\ 0 < ring[i] /\ (ring[i] = Warning \/ ring[i] <= logged)
                                 /\ Before(held, ring[i])
    /\ \A i, j \in 1 .. Len(ring) : i < j => Before(ring[i], ring[j])
    /\ \A i \in 1 .. Len(topic) : /\ topic[i] <= logged
                                  /\ held # 0 => Before(topic[i], held)
    /\ LogInOrder

LEMMA WarningIsLast == Warning \in Nat /\ Warning = MaxLines + 1 /\ MaxLines \in Nat
BY LogAssumption DEF Warning

LEMMA LogStarts == MqttInit => LineInv
<1> SUFFICES ASSUME MqttInit PROVE LineInv
  OBVIOUS
<1>1. ring = <<>> /\ topic = <<>> /\ held = 0 /\ logged = 0
  BY DEF MqttInit
<1>2. Len(<<>>) = 0 /\ <<>> \in Seq(Nat)
  OBVIOUS
<1> QED
  BY <1>1, <1>2, WarningIsLast DEF LineInv, LogInOrder

\* What is where when something has joined a sequence.
LEMMA Joined ==
  ASSUME NEW s \in Seq(Nat), NEW n \in Nat
  PROVE  /\ Append(s, n) \in Seq(Nat)
         /\ \A k \in 1 .. Len(Append(s, n)) :
                \/ k \in 1 .. Len(s) /\ Append(s, n)[k] = s[k]
                \/ k = Len(s) + 1 /\ Append(s, n)[k] = n
<1>1. /\ Append(s, n) \in Seq(Nat) /\ Len(Append(s, n)) = Len(s) + 1 /\ Len(s) \in Nat
      /\ Append(s, n)[Len(s) + 1] = n /\ \A i \in 1 .. Len(s) : Append(s, n)[i] = s[i]
  OBVIOUS
<1>2. \A k \in 1 .. Len(s) + 1 : k \in 1 .. Len(s) \/ k = Len(s) + 1
  BY <1>1
<1> QED
  BY <1>1, <1>2

\* What joins the ring is the latest line or a warning.
LEMMA RingGrows ==
  ASSUME LineInv, NEW n \in Nat, n = Warning \/ n = logged', ring' = Append(ring, n),
         \/ n = Warning /\ logged' = logged
         \/ logged' = logged + 1 /\ logged < MaxLines,
         held' \in {0, held}, topic' = topic
  PROVE  LineInv'
<1>1. /\ logged \in Nat /\ logged <= logged' /\ logged' \in 0 .. MaxLines /\ held \in Nat
      /\ ring \in Seq(Nat) /\ Len(ring) \in Nat /\ 0 < n
      /\ n = Warning \/ (n = logged' /\ logged < n)
  BY WarningIsLast DEF LineInv
<1>2. /\ ring' \in Seq(Nat)
      /\ \A k \in 1 .. Len(ring') : \/ k \in 1 .. Len(ring) /\ ring'[k] = ring[k]
                                    \/ k = Len(ring) + 1 /\ ring'[k] = n
  BY <1>1, Joined
<1>3. /\ \A i \in 1 .. Len(ring) : /\ ring[i] \in Nat /\ 0 < ring[i]
                                   /\ ring[i] = Warning \/ ring[i] <= logged
                                   /\ Before(held, ring[i])
      /\ \A i, j \in 1 .. Len(ring) : i < j => Before(ring[i], ring[j])
      /\ \A j \in 1 .. Len(topic) : topic[j] \in Nat /\ topic[j] <= logged
      /\ \A i \in 1 .. Len(ring), j \in 1 .. Len(topic) : topic[j] < ring[i]
      /\ held = Warning \/ held <= logged
  BY DEF LineInv, LogInOrder
<1>4. ASSUME NEW k \in 1 .. Len(ring')
      PROVE  /\ 0 < ring'[k] /\ (ring'[k] = Warning \/ ring'[k] <= logged')
             /\ Before(held', ring'[k])
             /\ \A j \in 1 .. Len(topic) : topic[j] < ring'[k]
  <2>1. CASE k \in 1 .. Len(ring) /\ ring'[k] = ring[k]
    BY <1>1, <1>3, <2>1 DEF Before
  <2>2. CASE ring'[k] = n
    BY <1>1, <1>3, <2>2, WarningIsLast DEF Before
  <2> QED
    BY <1>2, <2>1, <2>2
<1>5. ASSUME NEW i \in 1 .. Len(ring'), NEW j \in 1 .. Len(ring'), i < j
      PROVE  Before(ring'[i], ring'[j])
  <2>1. i \in 1 .. Len(ring) /\ ring'[i] = ring[i]
    BY <1>1, <1>2, <1>5
  <2>2. CASE j \in 1 .. Len(ring) /\ ring'[j] = ring[j]
    BY <1>3, <1>5, <2>1, <2>2
  <2>3. CASE ring'[j] = n
    BY <1>1, <1>3, <2>1, <2>3 DEF Before
  <2> QED
    BY <1>2, <2>2, <2>3
<1>6. /\ topic' \in Seq(Nat) /\ \A j \in 1 .. Len(topic') : topic'[j] <= logged'
      /\ held' # 0 => \A j \in 1 .. Len(topic') : Before(topic'[j], held')
  BY <1>1, <1>3 DEF LineInv
<1>7. LogInOrder'
  BY <1>4 DEF LineInv, LogInOrder
<1>8. held' \in 0 .. Warning /\ (held' = Warning \/ held' <= logged')
  BY <1>1, <1>3, WarningIsLast DEF LineInv
<1> QED
  BY <1>1, <1>2, <1>4, <1>5, <1>6, <1>7, <1>8 DEF LineInv

\* A line that is logged is the latest, whether the ring takes it or not.
LEMMA LineLogged ==
  ASSUME LineInv, NEW level, Line(level), logged < MaxLines, held' = held, topic' = topic
  PROVE  LineInv'
<1>1. logged' = logged + 1 /\ logged' \in Nat
  BY DEF Line, LineInv
<1>2. CASE ring' = ring
  <2>1. /\ logged \in Nat /\ logged' \in 0 .. MaxLines
        /\ \A i \in 1 .. Len(ring) : ring[i] \in Nat
        /\ \A i \in 1 .. Len(topic) : topic[i] \in Nat
        /\ held \in Nat
    BY <1>1, WarningIsLast DEF LineInv
  <2>2. /\ held = Warning \/ held <= logged'
        /\ \A i \in 1 .. Len(ring) : ring[i] = Warning \/ ring[i] <= logged'
        /\ \A i \in 1 .. Len(topic) : topic[i] <= logged'
    BY <1>1, <2>1 DEF LineInv
  <2> QED
    BY <1>2, <2>1, <2>2 DEF LineInv, LogInOrder, Before
<1>3. CASE ring' = Append(ring, logged')
  BY <1>1, <1>3, RingGrows
<1> QED
  BY <1>2, <1>3 DEF Line

\* The drain task takes the oldest line ...
LEMMA LineReceived == ASSUME LineInv, Receive PROVE LineInv'
<1>1. /\ held = 0 /\ ring # <<>> /\ held' = ring[1] /\ ring' = Tail(ring)
      /\ logged' = logged /\ topic' = topic
  BY DEF Receive, LineInv
<1>2. /\ ring' \in Seq(Nat) /\ Len(ring') = Len(ring) - 1 /\ Len(ring) \in Nat \ {0}
      /\ \A i \in 1 .. Len(ring') : ring'[i] = ring[i + 1] /\ i + 1 \in 1 .. Len(ring)
      /\ 1 \in 1 .. Len(ring)
  BY <1>1 DEF LineInv
<1>3. /\ \A i \in 1 .. Len(ring') : /\ 0 < ring'[i] /\ (ring'[i] = Warning \/ ring'[i] <= logged')
                                    /\ Before(held', ring'[i])
      /\ \A i, j \in 1 .. Len(ring') : i < j => Before(ring'[i], ring'[j])
  <2>1. \A i \in 1 .. Len(ring') : 1 < i + 1
    BY <1>2
  <2>2. \A i, j \in 1 .. Len(ring') : i < j => i + 1 < j + 1
    BY <1>2
  <2> QED
    BY <1>1, <1>2, <2>1, <2>2 DEF LineInv
<1>4. /\ \A j \in 1 .. Len(topic) : topic[j] < ring[1]
      /\ \A i \in 1 .. Len(ring'), j \in 1 .. Len(topic) : topic[j] < ring'[i]
  <2>1. \A i \in 1 .. Len(ring), j \in 1 .. Len(topic) : topic[j] < ring[i]
    BY DEF LineInv, LogInOrder
  <2> QED
    BY <1>2, <2>1
<1>5. LogInOrder'
  BY <1>1, <1>4 DEF LineInv, LogInOrder
<1>6. 0 < ring[1] /\ (ring[1] = Warning \/ ring[1] <= logged) /\ ring[1] \in Nat
  BY <1>2 DEF LineInv
<1>7. ring[1] \in 0 .. Warning
  BY <1>6, WarningIsLast DEF LineInv
<1>8. \A j \in 1 .. Len(topic) : Before(topic[j], ring[1])
  BY <1>4 DEF Before
<1> QED
  BY <1>1, <1>2, <1>3, <1>5, <1>6, <1>7, <1>8 DEF LineInv

\* ... and publishes it, or not, and gives it back.
LEMMA LineForwarded ==
  ASSUME LineInv, held # 0, held' = 0, logged' = logged, ring' = ring,
         topic' = topic \/ (held # Warning /\ topic' = Append(topic, held))
  PROVE  LineInv'
<1>1. /\ 0 \in 0 .. Warning /\ 0 <= logged' /\ logged' \in 0 .. MaxLines
      /\ \A i \in 1 .. Len(ring') : Before(0, ring'[i])
  BY WarningIsLast DEF LineInv, Before
<1>2. CASE topic' = topic
  BY <1>1, <1>2 DEF LineInv, LogInOrder
<1>3. CASE held # Warning /\ topic' = Append(topic, held)
  <2>1. /\ held \in Nat /\ held <= logged /\ logged \in Nat /\ topic \in Seq(Nat)
        /\ logged < Warning /\ Len(topic) \in Nat
        /\ \A i \in 1 .. Len(topic) : topic[i] \in Nat /\ topic[i] <= logged
        /\ \A i \in 1 .. Len(topic) : topic[i] < held
        /\ \A i, j \in 1 .. Len(topic) : i < j => topic[i] < topic[j]
        /\ \A i \in 1 .. Len(ring), j \in 1 .. Len(topic) : topic[j] < ring[i]
        /\ \A i \in 1 .. Len(ring) : ring[i] \in Nat /\ held < ring[i]
    <3>1. /\ held \in Nat /\ held <= logged /\ logged \in Nat /\ topic \in Seq(Nat)
          /\ logged < Warning /\ Len(topic) \in Nat
          /\ \A i \in 1 .. Len(topic) : topic[i] \in Nat /\ topic[i] <= logged
          /\ \A i \in 1 .. Len(ring) : ring[i] \in Nat
      BY <1>3, WarningIsLast DEF LineInv
    <3>2. \A i \in 1 .. Len(topic) : topic[i] < held
      BY <1>3, <3>1 DEF LineInv, Before
    <3>3. \A i \in 1 .. Len(ring) : held < ring[i]
      BY <1>3, <3>1 DEF LineInv, Before
    <3> QED
      BY <3>1, <3>2, <3>3 DEF LineInv, LogInOrder
  <2>2. /\ topic' \in Seq(Nat)
        /\ \A k \in 1 .. Len(topic') : \/ k \in 1 .. Len(topic) /\ topic'[k] = topic[k]
                                       \/ k = Len(topic) + 1 /\ topic'[k] = held
    BY <1>3, <2>1, Joined
  <2>3. \A i \in 1 .. Len(topic') : topic'[i] <= logged
    BY <2>1, <2>2
  <2>4. \A i \in 1 .. Len(ring), j \in 1 .. Len(topic') : topic'[j] < ring[i]
    BY <2>1, <2>2
  <2>5. ASSUME NEW i \in 1 .. Len(topic'), NEW j \in 1 .. Len(topic'), i < j
        PROVE  topic'[i] < topic'[j]
    <3>1. i \in 1 .. Len(topic) /\ topic'[i] = topic[i]
      BY <2>1, <2>2, <2>5
    <3>2. CASE j \in 1 .. Len(topic) /\ topic'[j] = topic[j]
      BY <2>1, <2>5, <3>1, <3>2
    <3>3. CASE topic'[j] = held
      BY <2>1, <3>1, <3>3
    <3> QED
      BY <2>2, <3>2, <3>3
  <2>6. LogInOrder'
    BY <2>4, <2>5 DEF LogInOrder
  <2> QED
    BY <1>1, <2>2, <2>3, <2>6 DEF LineInv
<1> QED
  BY <1>2, <1>3

\* A restart loses the lines that were on their way.
LEMMA LinesLost ==
  ASSUME LineInv, ring' = <<>>, held' = 0, UNCHANGED <<logged, topic>>
  PROVE  LineInv'
<1>1. Len(<<>>) = 0 /\ <<>> \in Seq(Nat) /\ 0 \in 0 .. Warning
  BY WarningIsLast
<1>2. LogInOrder'
  BY <1>1 DEF LineInv, LogInOrder
<1>3. 0 <= logged
  BY DEF LineInv
<1> QED
  BY <1>1, <1>2, <1>3 DEF LineInv

\* Connecting and losing the connection touches no line.
LEMMA LineStep == LineInv /\ [MqttNext]_mqttVars => LineInv'
<1> SUFFICES ASSUME LineInv, [MqttNext]_mqttVars PROVE LineInv'
  OBVIOUS
<1>0. CASE UNCHANGED <<ring, held, logged, topic>>
  BY <1>0 DEF LineInv, LogInOrder, Before
<1>1. ASSUME NEW level \in 1 .. 4, Log(level) PROVE LineInv'
  BY <1>1, LineLogged DEF Log
<1>2. CASE Receive
  BY <1>2, LineReceived
<1>3. CASE Forward
  <2>1. held # 0 /\ held' = 0 /\ logged' = logged
    BY <1>3 DEF Forward, Returned
  <2>2. CASE mqttConnected /\ client # "up" /\ Accepted(2)
    <3>1. /\ ring' = Append(ring, Warning) /\ topic' = topic
          /\ Warning \in Nat /\ held' \in {0, held}
      BY <1>3, <2>1, <2>2, WarningIsLast DEF Forward, Reaches
    <3> QED
      BY <2>1, <3>1, RingGrows
  <2>3. CASE ~(mqttConnected /\ client # "up" /\ Accepted(2))
    <3>1. ring' = ring /\ (topic' = topic \/ (held # Warning /\ topic' = Append(topic, held)))
      BY <1>3, <2>3 DEF Forward
    <3> QED
      BY <2>1, <3>1, LineForwarded
  <2> QED
    BY <2>2, <2>3
<1>4. CASE ServiceSteps
  BY <1>0, <1>4 DEF ServiceSteps, ManagerInit, RingCreate, HookLog, LogTask, RegisterEvents,
                    BootEvent, logVars
<1>5. CASE MqttTask \/ Connect \/ LinkLost \/ BrokerNotices \/ PowerOn
           \/ (\E kind \in Events : EventsHandler(kind)) \/ UNCHANGED mqttVars
  BY <1>0, <1>5 DEF MqttTask, OnConnected, ClientNotices, OnDisconnected, Connect, LinkLost,
                    BrokerNotices, PowerOn, EventsHandler, logVars, mqttVars
<1>6. CASE PowerOff
  BY <1>6, LinesLost DEF PowerOff
<1> QED
  BY <1>1, <1>2, <1>3, <1>4, <1>5, <1>6 DEF MqttNext

\* The log topic repeats and reorders nothing (mqtt_log.c:100-121): for any
\* ring buffer, threshold and number of lines, and any loss of the connection
\* or of power.
THEOREM LinesInOrder == MqttSpec => []LogInOrder
<1>1. LineInv => LogInOrder
  BY DEF LineInv
<1> QED
  BY <1>1, LogStarts, LineStep, PTL DEF MqttSpec

-----------------------------------------------------------------------------
(* The types of the broker link                                            *)

Items == Lines \cup {Warning}

LinkTypeOK ==
    /\ ipc \in {"off", "manager", "ring", "hook", "task", "events", "boot", "done"}
    /\ session \in {"none", "alive", "dead"} /\ client \in {"off", "down", "up"}
    /\ handler \in {"none", "connected", "disconnected"} /\ mqttConnected \in BOOLEAN
    /\ status \in {"none", "online", "offline"} /\ sent \subseteq Events \cup {"boot"}
    /\ hooked \in BOOLEAN /\ drainer \in BOOLEAN /\ drops \in 0 .. MaxDrops

LogTypeOK ==
    /\ ring \in Seq(Items) /\ held \in {0, Warning} \cup Lines
    /\ Len(ring) + (IF held = 0 THEN 0 ELSE 1) <= RingSize
    /\ logged \in 0 .. MaxLines /\ topic \in Seq(Lines)

LEMMA LinkTypeStep == LinkTypeOK /\ [MqttNext]_mqttVars => LinkTypeOK'
<1> SUFFICES ASSUME LinkTypeOK, [MqttNext]_mqttVars PROVE LinkTypeOK'
  OBVIOUS
<1> USE DEF LinkTypeOK
<1>1. CASE ServiceSteps
  <2>1. ASSUME NEW ok \in BOOLEAN, ManagerInit(ok) \/ RingCreate(ok) PROVE LinkTypeOK'
    BY <2>1 DEF ManagerInit, RingCreate, linkVars, logVars
  <2>2. ASSUME NEW ok \in BOOLEAN, LogTask(ok) PROVE LinkTypeOK'
    BY <2>2 DEF LogTask, linkVars
  <2>3. CASE HookLog \/ RegisterEvents
    BY <2>3 DEF HookLog, RegisterEvents, linkVars, logVars
  <2>4. CASE BootEvent
    BY <2>4 DEF BootEvent, Telemetry, linkVars, logVars
  <2> QED
    BY <1>1, <2>1, <2>2, <2>3, <2>4 DEF ServiceSteps
<1>2. CASE MqttTask
  BY <1>2 DEF MqttTask, OnConnected, ClientNotices, OnDisconnected, Greeting, logVars
<1>3. CASE LinkLost
  BY <1>3, LogAssumption DEF LinkLost, logVars
<1>4. CASE Connect \/ BrokerNotices
  BY <1>4 DEF Connect, BrokerNotices, LastWill, logVars
<1>5. CASE Receive \/ Forward
  BY <1>5 DEF Receive, Forward, linkVars
<1>6. ASSUME NEW kind \in Events, EventsHandler(kind) PROVE LinkTypeOK'
  BY <1>6 DEF EventsHandler, Telemetry, linkVars, logVars
<1>7. ASSUME NEW level \in 1 .. 4, Log(level) PROVE LinkTypeOK'
  BY <1>7 DEF Log, linkVars
<1>8. CASE UNCHANGED mqttVars
  BY <1>8 DEF mqttVars, linkVars, logVars
<1>9. CASE PowerOff
  <2>1. drops' \in 0 .. MaxDrops
    BY <1>9, LogAssumption DEF PowerOff
  <2> QED
    BY <1>9, <2>1 DEF PowerOff
<1>10. CASE PowerOn
  BY <1>10 DEF PowerOn, linkVars, logVars
<1> QED
  BY <1>1, <1>2, <1>3, <1>4, <1>5, <1>6, <1>7, <1>8, <1>9, <1>10 DEF MqttNext

\* What joins the ring has a number or is a warning, and finds room.
LEMMA ItemTyped ==
  ASSUME LogTypeOK, NEW level, Accepted(level), NEW item \in Items,
         ring' = Append(ring, item), held' \in {0, held}
  PROVE  /\ ring' \in Seq(Items)
         /\ Len(ring') + (IF held' = 0 THEN 0 ELSE 1) <= RingSize
<1>1. ring' \in Seq(Items) /\ Len(ring') = Len(ring) + 1 /\ Len(ring) \in Nat /\ RingSize \in Nat
  BY LogAssumption DEF LogTypeOK
<1>2. Len(ring) + (IF held = 0 THEN 0 ELSE 1) < RingSize
  BY DEF Accepted
<1> QED
  BY <1>1, <1>2

LEMMA LogTypeStep == LogTypeOK /\ [MqttNext]_mqttVars => LogTypeOK'
<1> SUFFICES ASSUME LogTypeOK, [MqttNext]_mqttVars PROVE LogTypeOK'
  OBVIOUS
<1>0. CASE UNCHANGED <<ring, held, logged, topic>>
  BY <1>0 DEF LogTypeOK
<1>1. ASSUME NEW level \in 1 .. 4, Log(level) PROVE LogTypeOK'
  <2>1. /\ logged' = logged + 1 /\ logged < MaxLines /\ UNCHANGED <<held, topic>>
        /\ ring' = ring \/ (Accepted(level) /\ ring' = Append(ring, logged'))
    BY <1>1 DEF Log, Line
  <2>2. logged' \in 0 .. MaxLines /\ logged' \in Items
    BY <2>1, WarningIsLast DEF LogTypeOK, Items, Lines
  <2>3. /\ ring' \in Seq(Items)
        /\ Len(ring') + (IF held' = 0 THEN 0 ELSE 1) <= RingSize
    BY <2>1, <2>2, ItemTyped DEF LogTypeOK
  <2> QED
    BY <2>1, <2>2, <2>3 DEF LogTypeOK
<1>2. CASE Receive
  <2>1. /\ held = 0 /\ ring # <<>> /\ held' = Head(ring) /\ ring' = Tail(ring)
        /\ UNCHANGED <<logged, topic>>
    BY <1>2 DEF Receive
  <2>2. /\ ring' \in Seq(Items) /\ Len(ring') = Len(ring) - 1 /\ Len(ring) \in Nat
        /\ held' \in Items
    BY <2>1 DEF LogTypeOK
  <2>3. held' \in {0, Warning} \cup Lines
    BY <2>2 DEF Items
  <2>4. Len(ring') + 1 <= RingSize /\ Len(ring') <= RingSize
    BY <2>1, <2>2, LogAssumption DEF LogTypeOK
  <2> QED
    BY <2>1, <2>2, <2>3, <2>4 DEF LogTypeOK
<1>3. CASE Forward
  <2>1. held # 0 /\ held' = 0 /\ held \in Items /\ logged' = logged
    BY <1>3 DEF Forward, Returned, LogTypeOK, Items
  <2>2. topic' \in Seq(Lines)
    <3>1. held # Warning => held \in Lines
      BY <2>1 DEF Items
    <3>2. topic' = topic \/ (held # Warning /\ topic' = Append(topic, held))
      BY <1>3 DEF Forward
    <3> QED
      BY <3>1, <3>2 DEF LogTypeOK
  <2>3. CASE ring' = ring
    <3>1. Len(ring) \in Nat /\ Len(ring) + 1 <= RingSize
      BY <2>1 DEF LogTypeOK
    <3> QED
      BY <2>1, <2>2, <2>3, <3>1, LogAssumption DEF LogTypeOK
  <2>4. CASE Accepted(2) /\ ring' = Append(ring, Warning)
    <3>1. /\ ring' \in Seq(Items)
          /\ Len(ring') + (IF held' = 0 THEN 0 ELSE 1) <= RingSize
      BY <2>1, <2>4, ItemTyped DEF Items
    <3> QED
      BY <2>1, <2>2, <3>1 DEF LogTypeOK
  <2> QED
    BY <1>3, <2>3, <2>4 DEF Forward
<1>4. CASE ServiceSteps
  BY <1>0, <1>4 DEF ServiceSteps, ManagerInit, RingCreate, HookLog, LogTask, RegisterEvents,
                    BootEvent, logVars
<1>5. CASE MqttTask \/ Connect \/ LinkLost \/ BrokerNotices \/ PowerOn
           \/ (\E kind \in Events : EventsHandler(kind)) \/ UNCHANGED mqttVars
  BY <1>0, <1>5 DEF MqttTask, OnConnected, ClientNotices, OnDisconnected, Connect, LinkLost,
                    BrokerNotices, PowerOn, EventsHandler, logVars, mqttVars
<1>6. CASE PowerOff
  <2>1. Len(<<>>) = 0 /\ <<>> \in Seq(Items)
    OBVIOUS
  <2> QED
    BY <1>6, <2>1, LogAssumption DEF PowerOff, LogTypeOK
<1> QED
  BY <1>1, <1>2, <1>3, <1>4, <1>5, <1>6 DEF MqttNext

\* The types of the link to the broker, for any threshold, ring buffer and number
\* of lines: the ring never holds more than it has room for, also while publishing
\* a line logs another one (mqtt_log.c:100-121).
THEOREM MqttTypes == MqttSpec => []MqttTypeOK
<1>1. MqttInit => LinkTypeOK /\ LogTypeOK
  <2> SUFFICES ASSUME MqttInit PROVE LinkTypeOK /\ LogTypeOK
    OBVIOUS
  <2>1. LinkTypeOK
    <3>1. drops \in 0 .. MaxDrops
      BY LogAssumption DEF MqttInit
    <3> QED
      BY <3>1 DEF MqttInit, LinkTypeOK
  <2>2. ring = <<>> /\ topic = <<>> /\ held = 0 /\ logged = 0 /\ Len(<<>>) = 0
        /\ <<>> \in Seq(Lines) /\ <<>> \in Seq(Items)
    BY DEF MqttInit
  <2> QED
    BY <2>1, <2>2, LogAssumption DEF LogTypeOK
<1>2. LinkTypeOK /\ LogTypeOK => MqttTypeOK
  BY DEF LinkTypeOK, LogTypeOK, MqttTypeOK, Items
<1> QED
  BY <1>1, <1>2, LinkTypeStep, LogTypeStep, PTL DEF MqttSpec

-----------------------------------------------------------------------------
(* Updates                                                                 *)

Image == [rel : Releases, whole : BOOLEAN, state : States]

\* Where a boot may go.  The running image is whole and was tried before; the
\* other one is selected between the switch and the restart only; and an image
\* in its trial keeps the one it would be rolled back to.
SlotInv ==
    /\ running \in {0, 1} /\ boot \in {0, 1}
    /\ slots \in [{0, 1} -> Image] /\ manifest \in Releases /\ served \in Releases
    /\ slots[running].whole = TRUE /\ slots[running].state # "new"
    /\ IF otaPc = "restart"
          THEN boot = Other /\ slots[Other].whole = TRUE /\ slots[Other].state = "new"
          ELSE boot = running
    /\ otaPc \in {"write", "restart"} => slots[running].state # "pending"
    /\ slots[running].state = "pending" =>
           slots[Other].whole = TRUE /\ slots[Other].state \notin {"new", "pending"}

LEMMA SlotsStart == OtaInit => SlotInv
  BY ReleaseAssumption DEF OtaInit, SlotInv, Image, States

\* Every way into a new boot: a finished update, the end of a trial, or a
\* restart of the same image.
LEMMA BootKeepsSlots == ASSUME SlotInv, Booted PROVE SlotInv'
<1>1. running' \in {0, 1} /\ boot' = running' /\ otaPc' = "delay"
      /\ manifest' = manifest /\ served' = served
  BY DEF Booted, Bootloader, SlotInv, server
<1>2. CASE slots[boot].state = "new"
  <2>1. boot = Other /\ running' = Other /\ slots' = [slots EXCEPT ![boot].state = "pending"]
    BY <1>2 DEF Booted, Bootloader, SlotInv
  <2> QED
    BY <1>1, <1>2, <2>1 DEF SlotInv, Image, States, Other
<1>3. CASE slots[boot].state = "pending"
  <2>1. boot = running /\ running' = 1 - running
        /\ slots' = [slots EXCEPT ![boot].state = "aborted"]
    BY <1>3 DEF Booted, Bootloader, SlotInv
  <2> QED
    BY <1>1, <1>3, <2>1 DEF SlotInv, Image, States, Other
<1>4. CASE slots[boot].state \notin {"new", "pending"}
  <2>1. boot = running /\ running' = running /\ slots' = slots
    BY <1>4 DEF Booted, Bootloader, SlotInv
  <2> QED
    BY <1>1, <1>4, <2>1 DEF SlotInv, Other
<1> QED
  BY <1>2, <1>3, <1>4

\* A download first spoils the other slot, and selects it when it is whole.
LEMMA SlotStep == SlotInv /\ [OtaNext]_otaVars => SlotInv'
<1> SUFFICES ASSUME SlotInv, [OtaNext]_otaVars PROVE SlotInv'
  OBVIOUS
<1>1. CASE Booted
  BY <1>1, BootKeepsSlots
<1>2. CASE UNCHANGED <<devVars, manifest, served>> /\ otaPc # "restart" /\ otaPc' \notin {"write", "restart"}
  BY <1>2 DEF SlotInv, Other, devVars
<1>3. ASSUME NEW r \in Releases, FetchOk(r) PROVE SlotInv'
  BY <1>3 DEF FetchOk, SlotInv, Other, devVars, server
<1>4. CASE Begin
  <2>1. /\ slots' = [slots EXCEPT ![Other].whole = FALSE] /\ slots[running].state # "pending"
        /\ otaPc = "begin" /\ otaPc' = "write"
        /\ boot' = boot /\ running' = running /\ manifest' = manifest /\ served' = served
    BY <1>4 DEF Begin, server
  <2>2. Other \in {0, 1} /\ Other # running
    BY DEF SlotInv, Other
  <2>3. Other' = Other
    BY <2>1 DEF Other
  <2>4. slots' \in [{0, 1} -> Image] /\ slots'[running] = slots[running]
    BY <2>1, <2>2 DEF SlotInv, Image
  <2> QED
    BY <2>1, <2>2, <2>3, <2>4 DEF SlotInv
<1>5. CASE WriteDone
  <2>1. /\ slots' = [slots EXCEPT ![Other] = [rel |-> served, whole |-> TRUE, state |-> "new"]]
        /\ boot' = Other /\ otaPc = "write" /\ otaPc' = "restart"
        /\ running' = running /\ manifest' = manifest /\ served' = served
    BY <1>5 DEF WriteDone, server
  <2>2. Other \in {0, 1} /\ Other # running
    BY DEF SlotInv, Other
  <2>5. Other' = Other
    BY <2>1 DEF Other
  <2>3. [rel |-> served, whole |-> TRUE, state |-> "new"] \in Image
    BY DEF SlotInv, Image, States
  <2>4. /\ slots' \in [{0, 1} -> Image] /\ slots'[running] = slots[running]
        /\ slots'[Other] = [rel |-> served, whole |-> TRUE, state |-> "new"]
    BY <2>1, <2>2, <2>3 DEF SlotInv
  <2> QED
    BY <2>1, <2>2, <2>4, <2>5 DEF SlotInv
<1>6. CASE OtaRestart \/ Crash \/ OtaPowerCut
  BY <1>1, <1>6 DEF OtaRestart, Crash, OtaPowerCut
<1>7. CASE Poll \/ FetchFails \/ UpToDate \/ Update \/ BeginRefused \/ WriteFails
           \/ \E n \in Chunks : Chunk(n)
  BY <1>2, <1>7 DEF Poll, FetchFails, UpToDate, Update, BeginRefused, WriteFails, Chunk, server
<1>8. CASE (\E r \in Releases : Release(r)) \/ UNCHANGED otaVars
  BY <1>8 DEF Release, otaVars, SlotInv, Other, devVars, server
<1> QED
  BY <1>3, <1>4, <1>5, <1>6, <1>7, <1>8 DEF OtaNext, Task, FetchAny

LEMMA SlotsInvariant == OtaSpec => []SlotInv
  BY SlotsStart, SlotStep, PTL DEF OtaSpec

\* Whenever the power goes the image that is booted next is whole
\* (ota_task.c:54-61): for any releases, and any number of cuts, failed
\* downloads and rollbacks.
THEOREM NextBootIsWhole == OtaSpec => []BootsWhole
<1>1. SlotInv => BootsWhole
  BY DEF SlotInv, BootsWhole, NextBoot, Other
<1> QED
  BY <1>1, SlotsInvariant, PTL

\* The comparison of versions is the order of their parts.
LEMMA CompareIsNewer ==
  ASSUME NEW a \in Releases, NEW b \in Releases, Compare(a.ver, b.ver) > 0
  PROVE  Newer(a.ver, b.ver)
<1>1. \A i \in 1 .. 3 : Part(a.ver, i) \in Nat /\ Part(b.ver, i) \in Nat
  BY ReleaseAssumption DEF Part
<1>2. CASE Part(a.ver, 1) # Part(b.ver, 1)
  BY <1>1, <1>2 DEF Compare, Newer
<1>3. CASE Part(a.ver, 1) = Part(b.ver, 1) /\ Part(a.ver, 2) # Part(b.ver, 2)
  BY <1>1, <1>3 DEF Compare, Newer
<1>4. CASE Part(a.ver, 1) = Part(b.ver, 1) /\ Part(a.ver, 2) = Part(b.ver, 2)
  BY <1>1, <1>4 DEF Compare, Newer
<1> QED
  BY <1>2, <1>3, <1>4

\* What the manifest announced stays newer than the running image from the
\* comparison to the restart.
NewerInv == otaPc \in {"begin", "write", "restart"} => Newer(manifest.ver, Current.ver)

\* The steps that write the slots leave the running image alone.
LEMMA NewerStep == SlotInv /\ NewerInv /\ [OtaNext]_otaVars => NewerInv'
<1> SUFFICES ASSUME SlotInv, NewerInv, [OtaNext]_otaVars PROVE NewerInv'
  OBVIOUS
<1>0. CASE UNCHANGED <<slots, running, manifest>> /\ otaPc' = otaPc
  BY <1>0 DEF NewerInv, Current
<1>1. CASE otaPc' \in {"delay", "body", "compare"}
  BY <1>1 DEF NewerInv
<1>2. CASE Update
  <2>1. manifest \in Releases /\ slots[running].rel \in Releases
    BY DEF SlotInv, Image
  <2>2. Newer(manifest.ver, Current.ver)
    BY <1>2, <2>1, CompareIsNewer DEF Update, IsNewer, Current
  <2> QED
    BY <1>2, <2>2 DEF Update, NewerInv, Current, devVars
<1>3. CASE Begin
  <2>1. /\ slots' = [slots EXCEPT ![Other].whole = FALSE] /\ otaPc = "begin" /\ otaPc' = "write"
        /\ UNCHANGED <<running, manifest>>
    BY <1>3 DEF Begin
  <2>2. Current' = Current
    BY <2>1 DEF Current, SlotInv, Image, Other
  <2> QED
    BY <2>1, <2>2 DEF NewerInv
<1>4. CASE WriteDone
  <2>1. /\ slots' = [slots EXCEPT ![Other] = [rel |-> served, whole |-> TRUE, state |-> "new"]]
        /\ otaPc = "write" /\ otaPc' = "restart" /\ UNCHANGED <<running, manifest>>
    BY <1>4 DEF WriteDone
  <2>2. Current' = Current
    BY <2>1 DEF Current, SlotInv, Other
  <2> QED
    BY <2>1, <2>2 DEF NewerInv
<1>5. CASE \/ Poll \/ FetchFails \/ UpToDate \/ BeginRefused \/ WriteFails
           \/ OtaRestart \/ Crash \/ OtaPowerCut \/ \E r \in Releases : FetchOk(r)
  BY <1>1, <1>5 DEF Poll, FetchFails, UpToDate, BeginRefused, WriteFails, OtaRestart, Crash,
                    OtaPowerCut, FetchOk, Booted
<1>6. CASE (\E n \in Chunks : Chunk(n)) \/ (\E r \in Releases : Release(r)) \/ UNCHANGED otaVars
  BY <1>0, <1>6 DEF Chunk, Release, otaVars, devVars
<1> QED
  BY <1>2, <1>3, <1>4, <1>5, <1>6 DEF OtaNext, Task, FetchAny

\* "OTA should not apply when manifest is same or older" (test_ota_semver.c:47):
\* for every two versions, and with power cuts and new releases in between.  It
\* is about what the manifest announced; nothing in ota_task.c:46-54 lets it be
\* said of the image that the URL turns out to serve.
THEOREM OnlyNewer == OtaSpec => []InstallsNewer
<1>1. OtaInit => NewerInv
  BY DEF OtaInit, NewerInv
<1>2. NewerInv => InstallsNewer
  BY DEF NewerInv, InstallsNewer
<1> QED
  BY <1>1, <1>2, NewerStep, SlotsInvariant, PTL DEF OtaSpec

-----------------------------------------------------------------------------
(* The types of the update task                                            *)

\* The bootloader takes a slot and sets no state that otadata does not have.
LEMMA BootTyped ==
  ASSUME slots \in [{0, 1} -> [rel : Releases, whole : BOOLEAN, state : States]],
         boot \in {0, 1}, running \in {0, 1}, Bootloader
  PROVE  /\ slots' \in [{0, 1} -> [rel : Releases, whole : BOOLEAN, state : States]]
         /\ boot' \in {0, 1} /\ running' \in {0, 1}
<1>1. CASE slots[boot].state = "new"
  BY <1>1 DEF Bootloader, States
<1>2. CASE slots[boot].state = "pending"
  BY <1>2 DEF Bootloader, States
<1>3. CASE slots[boot].state \notin {"new", "pending"}
  BY <1>3 DEF Bootloader
<1> QED
  BY <1>1, <1>2, <1>3

LEMMA EmptyBody == NoBody \in [len : 0 .. BufSize - 1, seen : 0 .. MaxChunks, holed : BOOLEAN]
  BY BufAssumption DEF NoBody

LEMMA OtaTypeStep == OtaTypeOK /\ [OtaNext]_otaVars => OtaTypeOK'
<1> SUFFICES ASSUME OtaTypeOK, [OtaNext]_otaVars PROVE OtaTypeOK'
  OBVIOUS
<1> USE DEF OtaTypeOK
<1>1. CASE Poll
  BY <1>1, EmptyBody DEF Poll, devVars, server
<1>2. ASSUME NEW n \in Chunks, Chunk(n) PROVE OtaTypeOK'
  <2> DEFINE b == [len   |-> IF Fits(n) THEN body.len + n ELSE body.len,
                   seen  |-> body.seen + 1,
                   holed |-> body.holed \/ ~Fits(n)]
  <2>1. n \in Nat /\ body.len \in 0 .. BufSize - 1 /\ body.seen \in 0 .. MaxChunks
        /\ body.seen < MaxChunks /\ body.holed \in BOOLEAN
    BY <1>2, BufAssumption DEF Chunk
  <2>2. (IF Fits(n) THEN body.len + n ELSE body.len) \in 0 .. BufSize - 1
    BY <2>1, BufAssumption DEF Fits
  <2>3. body.seen + 1 \in 0 .. MaxChunks
    BY <2>1, BufAssumption
  <2>4. b \in [len : 0 .. BufSize - 1, seen : 0 .. MaxChunks, holed : BOOLEAN]
    BY <2>1, <2>2, <2>3
  <2>5. body' = b /\ UNCHANGED <<devVars, otaPc, manifest, server, cuts>>
    BY <1>2 DEF Chunk
  <2> HIDE DEF b
  <2> QED
    BY <2>4, <2>5 DEF devVars, server
<1>3. ASSUME NEW r \in Releases, FetchOk(r) \/ Release(r) PROVE OtaTypeOK'
  BY <1>3 DEF FetchOk, Release, devVars, server
<1>4. CASE FetchFails \/ UpToDate \/ Update \/ BeginRefused \/ WriteFails
  BY <1>4 DEF FetchFails, UpToDate, Update, BeginRefused, WriteFails, devVars, server
<1>5. CASE Begin
  BY <1>5 DEF Begin, Other, server
<1>6. CASE WriteDone
  <2>1. Other \in {0, 1}
    BY DEF Other
  <2>2. [rel |-> served, whole |-> TRUE, state |-> "new"]
            \in [rel : Releases, whole : BOOLEAN, state : States]
    BY DEF States
  <2> QED
    BY <1>6, <2>1, <2>2 DEF WriteDone, server
<1>7. CASE OtaRestart \/ Crash \/ OtaPowerCut
  <2>1. Booted /\ cuts' \in 0 .. MaxCuts
    BY <1>7, BufAssumption DEF OtaRestart, Crash, OtaPowerCut
  <2> QED
    BY <2>1, BootTyped, EmptyBody DEF Booted, server
<1>8. CASE UNCHANGED otaVars
  BY <1>8 DEF otaVars, devVars, server
<1> QED
  BY <1>1, <1>2, <1>3, <1>4, <1>5, <1>6, <1>7, <1>8 DEF OtaNext, Task, FetchAny

\* The types of the update task: among them that the manifest's body never fills
\* its buffer, which keeps room for the terminator, whatever the pieces it comes
\* in (ota_manifest.c:19-31).
THEOREM OtaTypes == OtaSpec => []OtaTypeOK
<1>1. OtaInit => OtaTypeOK
  BY ReleaseAssumption, BufAssumption, EmptyBody DEF OtaInit, OtaTypeOK, States
<1> QED
  BY <1>1, OtaTypeStep, PTL DEF OtaSpec

-----------------------------------------------------------------------------
(* The services together                                                   *)

\* MCServices implements the specification of each of its three parts, so that
\* what its run shows of a part in its bounds is what the theorems say without
\* them (app_main.c with wifi_manager.c, the MQTT modules and ota_task.c share no
\* state as they are modelled).
THEOREM ServicesBehave == Spec => TerminalSpec /\ MqttSpec /\ OtaSpec
<1>1. Init => TerminalInit /\ MqttInit /\ OtaInit
  BY DEF Init
<1>2. [Next]_servicesVars => [TerminalNext]_terminalVars /\ [MqttNext]_mqttVars /\ [OtaNext]_otaVars
  BY DEF Next, servicesVars
<1> QED
  BY <1>1, <1>2, PTL DEF Spec, TerminalSpec, MqttSpec, OtaSpec

\* The types of the boot sequence, WiFi, the broker link and the updates: among
\* them that the log ring and the manifest's body never hold more than they have
\* room for (mqtt_log.c:100-121, ota_manifest.c:19-31).
THEOREM ServicesTyped == Spec => []ServicesTypeOK
<1>1. BootTypeOK /\ WifiTypeOK /\ MqttTypeOK /\ OtaTypeOK => ServicesTypeOK
  BY DEF ServicesTypeOK
<1> QED
  BY <1>1, ServicesBehave, TerminalRefinesBoot, TerminalRefinesWifi, BootTypes, WifiTypes,
     MqttTypes, OtaTypes, PTL
=============================================================================
