----------------------------- MODULE RateLimiter -----------------------------
(***************************************************************************)
(* api.rateLimiter: how many requests of one client the API server serves. *)
(* Each key, what clientIP makes of a request, has one counter and the     *)
(* moment it is reset; every request is a critical section of the          *)
(* limiter's mutex, and a goroutine deletes what is past its reset once a  *)
(* minute.                                                                 *)
(*                                                                         *)
(* Time is relative: a visitor carries the ticks left until its reset, and *)
(* "recent" is a history variable of the specification, not of the code:   *)
(* the requests served within the last Window ticks, each the nth of the   *)
(* tick it was served in.                                                  *)
(***************************************************************************)
EXTENDS Integers, FiniteSets

CONSTANTS
    Connections,    \* how requests come: [ip, remote, forwarded], whose they are,
                    \* RemoteAddr, and the first address of X-Forwarded-For
    MaxRequests,    \* RateLimitPerMin
    Window          \* the minute, in ticks

ASSUME LimiterAssumption ==
    /\ MaxRequests \in Nat \ {0}
    /\ Window \in Nat \ {0}

\* The key of a request: the header (web/nginx.conf sets it), or else
\* RemoteAddr, which is the address and the port of the connection.
NoHeader == ""
clientIP(c) == IF c.forwarded # NoHeader THEN c.forwarded ELSE c.remote
keys == {clientIP(c) : c \in Connections}
keysOf(ip) == {clientIP(c) : c \in {d \in Connections : d.ip = ip}}

VARIABLES visitors, recent

limiterVars == <<visitors, recent>>

Past == -1          \* left of a visitor after its reset time
None == [requests |-> 0, left |-> Past]     \* no entry in the map
Visitor == [requests : 1..MaxRequests, left : Past..Window] \cup {None}

Served == [age : 0..Window, nth : Nat]

LimiterTypeOK ==
    /\ visitors \in [keys -> Visitor]
    /\ DOMAIN recent = keys
    /\ \A a \in keys : recent[a] \subseteq Served

LimiterInit ==
    /\ visitors = [a \in keys |-> None]
    /\ recent = [a \in keys |-> {}]

-----------------------------------------------------------------------------
exists(a) == visitors[a] # None
resetPassed(v) == v.left = Past         \* now.After(resetTime)

\* Would allow(a) return true now?
Allows(a) ==
    \/ ~exists(a)
    \/ resetPassed(visitors[a])
    \/ visitors[a].requests < MaxRequests

\* BUG: the window slides with every request that is served.
BugWindowSlides(v) == [requests |-> IF v = None \/ resetPassed(v) THEN 1 ELSE v.requests + 1,
                       left |-> Window]

\* The fixed window starts with the first request after the last one ended.
Counted(v) == IF v = None \/ resetPassed(v)
              THEN [requests |-> 1, left |-> Window]
              ELSE [v EXCEPT !.requests = @ + 1]

ServedNow(a) == {r \in recent[a] : r.age = 0}

Allow(a) ==
    /\ Allows(a)
    /\ visitors' = [visitors EXCEPT ![a] = Counted(@)]
    /\ recent' = [recent EXCEPT ![a] = @ \cup {[age |-> 0, nth |-> Cardinality(ServedNow(a))]}]

\* allow(a) returns false and changes nothing; the client gets a 429.
Refuse(a) ==
    /\ ~Allows(a)
    /\ UNCHANGED limiterVars

\* The goroutine of newRateLimiter, at any time.
Cleanup ==
    /\ visitors' = [a \in keys |->
                      IF resetPassed(visitors[a]) THEN None ELSE visitors[a]]
    /\ UNCHANGED recent

\* The requests of a history a tick later.
Older(requests) == {[r EXCEPT !.age = @ + 1] : r \in {q \in requests : q.age < Window}}

LimiterTick ==
    /\ visitors' = [a \in keys |->
                      [visitors[a] EXCEPT !.left = IF @ = Past THEN Past ELSE @ - 1]]
    /\ recent' = [a \in keys |-> Older(recent[a])]

-----------------------------------------------------------------------------
ServedWithin(a) == Cardinality(recent[a])

\* A client that keeps asking is never shut out for longer than the limiter
\* means to: while its requests are refused, MaxRequests of its key were
\* served within the last minute (ratelimiter.go:59-61: a refusal does not
\* move the reset time).
RefusedOnlyWhenFull ==
    \A a \in keys : ~Allows(a) => ServedWithin(a) >= MaxRequests

-----------------------------------------------------------------------------
(* What the documentation says, and the code does not do. *)

ServedTo(ip) == Cardinality(UNION {{<<a, r>> : r \in recent[a]} : a \in keysOf(ip)})

\* ratelimiter.go:10-11: "a simple per-IP rate limiter using a sliding window
\* ... 100 req/min per IP"; docs/api.md:234: "100 requests per minute per IP".
\* No minute sees more than the limit of an address served (in an instance
\* where no two addresses have a key in common).
LimitPerIP == \A c \in Connections : ServedTo(c.ip) <= MaxRequests
=============================================================================
