----------------------------- MODULE RateLimit -----------------------------
(***************************************************************************)
(* The limiter of server/src/ratelimit.rs, in front of register, login and *)
(* recover.  `check` reads the clock and only then waits for the mutex of  *)
(* its map; what follows runs under it and is one step.  Callers may hence *)
(* be admitted in another order than that of their clock readings, and a   *)
(* sweep may run with a reading older than the attempts it meets.          *)
(*                                                                         *)
(* The map of vectors is one set of attempts: the vector of an address are *)
(* those with its ip, and an address without any is not in the map.  When  *)
(* an attempt took the mutex is history that the code does not keep.       *)
(***************************************************************************)
EXTENDS Integers, FiniteSets

CONSTANTS Addresses,         \* peer addresses
          Callers,           \* requests that may be in `check` at once
          None,              \* no call
          Window, Limit,     \* RateLimit.window and RateLimit.max
          MaxNow, MaxCalls   \* bounds: the clock, the calls made

ASSUME RateLimitAssumption ==
    /\ Window \in Nat \ {0} /\ Limit \in Nat \ {0}
    /\ MaxNow \in Nat /\ MaxCalls \in Nat

VARIABLES clock,             \* the monotonic clock
          hits,              \* the attempts in the map
          call,              \* per caller: the locals of `check`, or None
          calls,             \* how many there were; the next one's id
          admitted           \* history: every attempt that was let through

vars == <<clock, hits, call, calls, admitted>>

\* `read` is the instant the vector holds, `at` when the mutex was taken.
Attempt == [id : Nat, ip : Addresses, read : Nat, at : Nat]
Call == [id : Nat, ip : Addresses, read : Nat]

ASSUME NoneIsNoCall == None \notin Call

Init ==
    /\ clock = 0 /\ hits = {} /\ calls = 0 /\ admitted = {}
    /\ call = [c \in Callers |-> None]

\* let now = Instant::now();
ReadClock(c, ip) ==
    /\ call[c] = None /\ calls < MaxCalls
    /\ call' = [call EXCEPT ![c] = [id |-> calls, ip |-> ip, read |-> clock]]
    /\ calls' = calls + 1
    /\ UNCHANGED <<clock, hits, admitted>>

\* Instant::duration_since, which is zero for an instant in the future.
Since(now, earlier) == IF earlier > now THEN 0 ELSE now - earlier

\* Broken: an attempt is forgotten one tick early.
BrokenFresh(now) == {a \in hits : Since(now, a.read) < Window - 1}

\* What the sweep of the whole map retains.
Fresh(now) == {a \in hits : Since(now, a.read) < Window}

\* Broken: all addresses share one count.
BrokenOwn(attempts, ip) == attempts

Own(attempts, ip) == {a \in attempts : a.ip = ip}

\* The rest of `check`: sweep, count, and record the attempt or refuse it.
Check(c) ==
    /\ call[c] # None
    /\ LET fresh == Fresh(call[c].read)
           this  == [id |-> call[c].id, ip |-> call[c].ip,
                     read |-> call[c].read, at |-> clock]
       IN  IF Cardinality(Own(fresh, call[c].ip)) >= Limit
           THEN hits' = fresh /\ UNCHANGED admitted
           ELSE hits' = fresh \cup {this} /\ admitted' = admitted \cup {this}
    /\ call' = [call EXCEPT ![c] = None]
    /\ UNCHANGED <<clock, calls>>

Tick == /\ clock < MaxNow /\ clock' = clock + 1
        /\ UNCHANGED <<hits, call, calls, admitted>>

Next == \/ \E c \in Callers : Check(c) \/ \E ip \in Addresses : ReadClock(c, ip)
        \/ Tick

Spec == Init /\ [][Next]_vars

-----------------------------------------------------------------------------
\* An attempt never took the mutex before it read the clock.
TypeOK ==
    /\ clock \in Nat /\ calls \in Nat
    /\ call \in [Callers -> Call \cup {None}]
    /\ \A c \in Callers : call[c] # None => call[c].read <= clock
    /\ hits \subseteq admitted
    /\ admitted \subseteq Attempt /\ IsFiniteSet(admitted)
    /\ \A a \in admitted : a.read <= a.at /\ a.at <= clock

(***************************************************************************)
(* The limit, and what it costs that the clock is read before the mutex is *)
(* taken: in any `span` ticks no address is let through more than Limit    *)
(* times, as long as none of these attempts waited for the mutex for more  *)
(* than the rest of the window.  Without waiting, span is the whole window *)
(* ("the caller has had enough", ratelimit.rs).                            *)
(***************************************************************************)
Burst(ip, start, span) ==
    {a \in admitted : a.ip = ip /\ start <= a.at /\ a.at < start + span}

LimitHolds ==
    \A ip \in Addresses, start \in 0..clock, span \in 0..Window :
        (\A a \in Burst(ip, start, span) : a.at - a.read <= Window - span)
        => Cardinality(Burst(ip, start, span)) <= Limit

(***************************************************************************)
(* Only an address that was itself let through Limit times, none of them a *)
(* window before this call's instant, is refused: neither another address  *)
(* nor an attempt that expired locks it out (tests of ratelimit.rs).       *)
(***************************************************************************)
RefusalsAreEarned ==
    [][\A c \in Callers :
          call[c] # None /\ call'[c] = None /\ admitted' = admitted =>
              Cardinality({a \in admitted : a.ip = call[c].ip
                                            /\ a.read > call[c].read - Window}) >= Limit]_vars

\* What was let through is in the map until it is a window old.
Remembered == \A a \in admitted : a \in hits \/ a.read + Window <= clock

\* Every attempt is counted as one: no two share an id.
Numbered ==
    /\ \A a \in admitted : a.id < calls
    /\ \A c \in Callers : call[c] # None =>
          /\ call[c].id < calls
          /\ \A a \in admitted : a.id # call[c].id
          /\ \A d \in Callers : call[d] # None /\ call[d].id = call[c].id => d = c

(***************************************************************************)
(* The inductive invariant.                                                *)
(***************************************************************************)
IInv == TypeOK /\ Numbered /\ Remembered /\ LimitHolds
=============================================================================
