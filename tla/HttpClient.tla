----------------------------- MODULE HttpClient -----------------------------
(***************************************************************************)
(* The persistent HTTP client of grocy_client.c: one connection and one    *)
(* body buffer, reused by every GET and POST of the Grocy task.  A request *)
(* is one or two calls of esp_http_client_perform; while one runs, the     *)
(* library hands the body to http_event_handler chunk by chunk.            *)
(*                                                                         *)
(* "idle" is the time since s_last_used_us, in ticks, saturating one tick  *)
(* beyond IdleClose.  Only the gap between requests is timed.              *)
(***************************************************************************)
EXTENDS Integers

CONSTANTS
    RecvBufSize,   \* HTTP_RECV_BUF_SIZE, the first capacity of the buffer
    IdleClose,     \* HTTP_IDLE_CLOSE_US
    Chunks,        \* the sizes a chunk of a body can have
    MaxBody,       \* bound on the bytes of one response
    MaxCap         \* the capacity at which psram_realloc runs out of memory

ASSUME BodyAssumption  == RecvBufSize \in Nat \ {0} /\ Chunks \subseteq Nat
ASSUME RequestAssumption == IdleClose \in Nat /\ MaxBody \in Nat /\ MaxCap \in Nat

VARIABLES
    client,    \* s_client # NULL
    open,      \* esp_http_client holds a connection
    used,      \* s_last_used_us > 0
    idle,      \* ticks since s_last_used_us
    phase,        \* "idle", or which perform runs: "first", "second"
    method,    \* of the request in progress
    cap, len, oom,  \* s_body
    result,    \* what the last request returned: "none", "ok", "fail"
    outLen,    \* *out_len of the last successful GET
    received,  \* history: the bytes of the response being received
    reusedAt,  \* history: how idle the connection was when this request took it
    applied    \* history: how often the server carried out this request

connVars == <<open, used, idle>>
bodyVars == <<cap, len, oom, received>>
httpVars == <<client, connVars, phase, method, bodyVars, result, outLen, reusedAt, applied>>

HttpTypeOK ==
    /\ client \in BOOLEAN /\ open \in BOOLEAN /\ used \in BOOLEAN
    /\ idle \in 0 .. IdleClose + 1
    /\ phase \in {"idle", "first", "second"}
    /\ method \in {"GET", "POST"}
    /\ cap \in Nat /\ len \in Nat /\ received \in Nat /\ oom \in BOOLEAN
    /\ result \in {"none", "ok", "fail"}
    /\ outLen \in Nat
    /\ reusedAt \in 0 .. IdleClose + 1
    /\ applied \in Nat
    /\ used => open        \* the time stamp is of the connection that is open

HttpInit ==
    /\ client = FALSE /\ open = FALSE /\ used = FALSE /\ idle = 0
    /\ phase = "idle" /\ method = "GET"
    /\ cap = 0 /\ len = 0 /\ oom = FALSE /\ received = 0
    /\ result = "none" /\ outLen = 0 /\ reusedAt = 0 /\ applied = 0

\* grocy_client_init: the buffer, then the client.  (When the client cannot be
\* created the buffer is freed and every request fails.)
ClientInit ==
    /\ ~client /\ phase = "idle"
    /\ client' = TRUE
    /\ cap' = RecvBufSize
    /\ UNCHANGED <<connVars, phase, method, len, oom, received, result, outLen,
                   reusedAt, applied>>

Tick ==
    /\ phase = "idle" /\ idle <= IdleClose
    /\ idle' = idle + 1
    /\ UNCHANGED <<client, open, used, phase, method, bodyVars, result, outLen,
                   reusedAt, applied>>

-----------------------------------------------------------------------------
(* A request                                                               *)

ResetBody == len' = 0 /\ oom' = FALSE /\ received' = 0

\* http_get and http_post_json without a client.
NoClient ==
    /\ phase = "idle" /\ ~client
    /\ result' = "fail"
    /\ UNCHANGED <<client, connVars, phase, method, bodyVars, outLen, reusedAt, applied>>

\* Up to the first perform: a connection idle for too long is closed, the body
\* reset; perform reuses the connection left open or opens a new one.
Start(m) ==
    LET keep == open /\ ~(used /\ idle > IdleClose)
    IN  /\ phase = "idle" /\ client
        /\ open' = TRUE
        /\ reusedAt' = IF keep THEN idle ELSE 0
        /\ ResetBody
        /\ phase' = "first" /\ method' = m /\ result' = "none" /\ applied' = 0
        /\ UNCHANGED <<client, used, idle, cap, outLen>>

\* Mutated OnData: room for the bytes, not for the terminator.
OnDataTight(d) ==
    LET new_cap == cap * 2 + d
        grows   == len + d > cap
    IN  /\ phase # "idle" /\ received + d <= MaxBody
        /\ received' = received + d
        /\ IF oom \/ (grows /\ new_cap > MaxCap)
              THEN oom' = TRUE /\ UNCHANGED <<cap, len>>
              ELSE /\ cap' = IF grows THEN new_cap ELSE cap
                   /\ len' = len + d
                   /\ UNCHANGED oom
        /\ UNCHANGED <<client, connVars, phase, method, result, outLen, reusedAt, applied>>

\* http_event_handler, HTTP_EVENT_ON_DATA: grow when the chunk and a
\* terminator do not fit; after an allocation failure drop the rest.
OnData(d) ==
    LET new_cap == cap * 2 + d
        grows   == len + d + 1 > cap
    IN  /\ phase # "idle" /\ received + d <= MaxBody
        /\ received' = received + d
        /\ IF oom \/ (grows /\ new_cap > MaxCap)
              THEN oom' = TRUE /\ UNCHANGED <<cap, len>>
              ELSE /\ cap' = IF grows THEN new_cap ELSE cap
                   /\ len' = len + d
                   /\ UNCHANGED oom
        /\ UNCHANGED <<client, connVars, phase, method, result, outLen, reusedAt, applied>>

\* Mutated RetryRequest: the second attempt appends to the first one's body.
RetryKeepsBody(reached) ==
    /\ phase = "first"
    /\ open' = TRUE /\ reusedAt' = 0
    /\ oom' = FALSE /\ received' = 0
    /\ applied' = IF reached THEN applied + 1 ELSE applied
    /\ phase' = "second"
    /\ UNCHANGED <<client, used, idle, method, cap, len, result, outLen>>

\* The first perform ended in a transport error (err # ESP_OK), with the server
\* having carried out the request or not: close, reset, perform again.
RetryRequest(reached) ==
    /\ phase = "first"
    /\ open' = TRUE /\ reusedAt' = 0
    /\ ResetBody
    /\ applied' = IF reached THEN applied + 1 ELSE applied
    /\ phase' = "second"
    /\ UNCHANGED <<client, used, idle, method, cap, result, outLen>>

\* Mutated Fail: the time stamp of the closed connection stays.
FailKeepsStamp ==
        /\ open' = FALSE
        /\ result' = "fail"
        /\ UNCHANGED <<used, idle, outLen>>

\* Leave with an error: close and forget the connection.
Fail == /\ open' = FALSE /\ used' = FALSE
        /\ result' = "fail"
        /\ UNCHANGED <<idle, outLen>>

\* The second perform fails too.
GiveUp(reached) ==
    /\ phase = "second"
    /\ phase' = "idle"
    /\ applied' = IF reached THEN applied + 1 ELSE applied
    /\ Fail
    /\ UNCHANGED <<client, method, bodyVars, reusedAt>>

\* Leave with an answer: the connection stays open for the next request.
Done == /\ used' = TRUE /\ idle' = 0
        /\ UNCHANGED open

\* perform returned ESP_OK.  A GET needs status 200, a whole body and memory
\* for the copy it returns; a POST returns the status, whatever it is, and
\* does not look at the body.
Answer(is200, copied) ==
    /\ phase # "idle"
    /\ phase' = "idle"
    /\ applied' = IF is200 THEN applied + 1 ELSE applied
    /\ IF method = "GET" /\ (~is200 \/ oom)
          THEN Fail
          ELSE /\ Done
               /\ IF method = "GET" /\ copied
                     THEN result' = "ok" /\ outLen' = len
                     ELSE /\ result' = IF method = "POST" /\ is200 THEN "ok" ELSE "fail"
                          /\ UNCHANGED outLen
    /\ UNCHANGED <<client, method, bodyVars, reusedAt>>

HttpNext == \/ ClientInit \/ Tick \/ NoClient
            \/ \E m \in {"GET", "POST"} : Start(m)
            \/ \E d \in Chunks : OnData(d)
            \/ \E reached \in BOOLEAN : RetryRequest(reached) \/ GiveUp(reached)
            \/ \E is200, copied \in BOOLEAN : Answer(is200, copied)

HttpSpec == HttpInit /\ [][HttpNext]_httpVars

-----------------------------------------------------------------------------
\* The body always leaves room for its terminator (grocy_client.c:44-56): the
\* growth rule is enough for every chunk size, and a buffer that could not
\* grow is not written past its end.
BodyFits == client => len + 1 <= cap

\* A GET returns the body of the attempt that succeeded, whole: nothing of a
\* failed first attempt, and never a body cut short by a failed realloc
\* (grocy_client.c:82-103).
WholeBody ==
    phase = "idle" /\ method = "GET" /\ result = "ok" => outLen = received

\* "Proactively close if idle too long so we never hit a server-side reset"
\* (grocy_client.c:75-80): no request goes out on a connection that was idle
\* for more than IdleClose.
FreshConnection == phase # "idle" => reusedAt <= IdleClose

\* "Tap a product to add or consume one unit of stock" (README.md:5): a stock
\* POST that is reported as done was carried out once.
PostedOnce == method = "POST" /\ result = "ok" => applied = 1
=============================================================================
