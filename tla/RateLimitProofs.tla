-------------------------- MODULE RateLimitProofs --------------------------
(***************************************************************************)
(* Any number of callers and addresses, any window and any limit.          *)
(***************************************************************************)
EXTENDS RateLimit, FiniteSetTheorems, TLAPS

(***************************************************************************)
(* What `check` counts are attempts of the address that the map held.      *)
(***************************************************************************)
LEMMA OwnFreshFact ==
    ASSUME NEW now, NEW ip
    PROVE  Own(Fresh(now), ip) = {a \in hits : a.ip = ip /\ Since(now, a.read) < Window}
BY Zenon DEF Own, Fresh

(***************************************************************************)
(* The initial state: an empty map.                                        *)
(***************************************************************************)
LEMMA InitFact == Init => IInv
<1> SUFFICES ASSUME Init PROVE IInv
  OBVIOUS
<1> USE DEF Init
<1>1. TypeOK
  BY FS_EmptySet DEF TypeOK
<1>2. Numbered /\ Remembered
  BY DEF Numbered, Remembered
<1>3. LimitHolds
  <2> SUFFICES ASSUME NEW ip \in Addresses, NEW start \in 0..clock, NEW span \in 0..Window
               PROVE  Cardinality(Burst(ip, start, span)) <= Limit
    BY DEF LimitHolds
  <2>1. Burst(ip, start, span) = {}
    BY DEF Burst
  <2> QED BY <2>1, FS_EmptySet, RateLimitAssumption
<1> QED BY <1>1, <1>2, <1>3 DEF IInv

(***************************************************************************)
(* Reading the clock: the call gets an id nobody has.                      *)
(***************************************************************************)
LEMMA ReadClockStep ==
    ASSUME IInv, NEW c \in Callers, NEW ip \in Addresses, ReadClock(c, ip)
    PROVE  IInv'
<1> USE DEF IInv, ReadClock
<1> DEFINE new == [id |-> calls, ip |-> ip, read |-> clock]
<1>0. /\ new \in Call /\ new # None
      /\ call' = [call EXCEPT ![c] = new]
      /\ call'[c] = new
      /\ \A d \in Callers \ {c} : call'[d] = call[d]
  BY NoneIsNoCall DEF TypeOK, Call
<1>1. TypeOK'
  <2>1. call' \in [Callers -> Call \cup {None}]
    BY <1>0 DEF TypeOK
  <2>2. \A d \in Callers : call'[d] # None => call'[d].read <= clock
    BY <1>0 DEF TypeOK
  <2> QED BY <2>1, <2>2 DEF TypeOK
<1>2. Numbered'
  BY <1>0 DEF Numbered, TypeOK, Attempt, Call
<1>3. Remembered'
  BY DEF Remembered
<1>4. LimitHolds'
  BY DEF LimitHolds, Burst
<1> QED BY <1>1, <1>2, <1>3, <1>4

(***************************************************************************)
(* Time passes: no attempt took the mutex after the new instant.           *)
(***************************************************************************)
LEMMA TickStep ==
    ASSUME IInv, Tick
    PROVE  IInv'
<1> USE DEF IInv, Tick
<1>1. TypeOK'
  BY DEF TypeOK, Call, Attempt
<1>2. Numbered'
  BY DEF Numbered
<1>3. Remembered'
  BY RateLimitAssumption DEF Remembered, TypeOK, Attempt
<1>4. LimitHolds'
  <2> SUFFICES ASSUME NEW ip \in Addresses, NEW start \in 0..(clock + 1),
                      NEW span \in 0..Window,
                      \A a \in Burst(ip, start, span) : a.at - a.read <= Window - span
               PROVE  Cardinality(Burst(ip, start, span)) <= Limit
    BY DEF LimitHolds, Burst
  <2>1. CASE start <= clock
    BY <2>1 DEF LimitHolds, TypeOK
  <2>2. CASE start > clock
    <3>1. Burst(ip, start, span) = {}
      BY <2>2 DEF Burst, TypeOK, Attempt
    <3> QED BY <3>1, FS_EmptySet, RateLimitAssumption
  <2> QED BY <2>1, <2>2 DEF TypeOK
<1> QED BY <1>1, <1>2, <1>3, <1>4

(***************************************************************************)
(* A call that is let through: the attempts of a burst it would overfill   *)
(* are all among those it counted.                                         *)
(***************************************************************************)
LEMMA CheckStep ==
    ASSUME IInv, NEW c \in Callers, Check(c)
    PROVE  IInv'
<1> DEFINE now == call[c].read
           own == Own(Fresh(now), call[c].ip)
           this == [id |-> call[c].id, ip |-> call[c].ip, read |-> now, at |-> clock]
<1>1. /\ call[c] # None /\ call[c] \in Call
      /\ now \in Nat /\ now <= clock /\ clock \in Nat
      /\ clock' = clock /\ calls' = calls
      /\ call' = [call EXCEPT ![c] = None]
      /\ \/ Cardinality(own) >= Limit /\ hits' = Fresh(now) /\ admitted' = admitted
         \/ /\ ~(Cardinality(own) >= Limit)
            /\ hits' = Fresh(now) \cup {this} /\ admitted' = admitted \cup {this}
  BY DEF IInv, TypeOK, Check, Call
<1>2. this \in Attempt
  BY <1>1 DEF Attempt, Call
<1>3. Fresh(now) \subseteq hits
  BY DEF Fresh
<1>4. call'[c] = None /\ \A d \in Callers : call'[d] # None => d # c /\ call'[d] = call[d]
  BY <1>1 DEF IInv, TypeOK
<1>5. TypeOK'
  <2>1. IsFiniteSet(admitted \cup {this}) /\ IsFiniteSet(admitted)
    BY FS_AddElement DEF IInv, TypeOK
  <2>2. call' \in [Callers -> Call \cup {None}]
    BY <1>1 DEF IInv, TypeOK
  <2>3. hits' \subseteq admitted' /\ admitted' \subseteq Attempt
    BY <1>1, <1>2, <1>3 DEF IInv, TypeOK
  <2>4. \A a \in admitted' : a.read <= a.at /\ a.at <= clock
    BY <1>1 DEF IInv, TypeOK
  <2> HIDE DEF this
  <2>5. IsFiniteSet(admitted')
    BY <1>1, <2>1
  <2> QED BY <1>1, <1>4, <2>2, <2>3, <2>4, <2>5 DEF IInv, TypeOK
<1>6. Numbered'
  <2>1. \A a \in admitted' : a \in admitted \/ a.id = call[c].id
    BY <1>1
  <2>2. \A d \in Callers : call'[d] # None => call[d].id # call[c].id
    BY <1>1, <1>4 DEF IInv, Numbered
  <2> QED BY <1>1, <1>4, <2>1, <2>2 DEF IInv, Numbered
<1>7. Remembered'
  <2>1. \A a \in hits : a \in Fresh(now) \/ a.read + Window <= clock
    BY <1>1, RateLimitAssumption DEF Fresh, Since, IInv, TypeOK, Attempt
  <2> QED BY <1>1, <2>1 DEF Remembered, IInv
<1>8. LimitHolds'
  <2> SUFFICES ASSUME NEW ip \in Addresses, NEW start \in 0..clock, NEW span \in 0..Window,
                      \A a \in Burst(ip, start, span)' : a.at - a.read <= Window - span
               PROVE  Cardinality(Burst(ip, start, span)') <= Limit
    BY <1>1 DEF LimitHolds, Burst
  <2> DEFINE old == Burst(ip, start, span)
  <2>1. old \subseteq Burst(ip, start, span)'
    BY <1>1 DEF Burst
  <2>2. CASE Burst(ip, start, span)' = old
    BY <2>2 DEF LimitHolds, IInv
  <2>3. CASE Burst(ip, start, span)' # old
    <3>1. /\ Burst(ip, start, span)' = old \cup {this}
          /\ ip = call[c].ip /\ start <= clock /\ clock < start + span
          /\ ~(Cardinality(own) >= Limit)
      BY <1>1, <2>3 DEF Burst
    <3>2. old \subseteq own
      <4> SUFFICES ASSUME NEW a \in old PROVE a \in own
        OBVIOUS
      <4>1. a \in admitted /\ a.ip = ip /\ start <= a.at /\ a.at - a.read <= Window - span
        BY <2>1 DEF Burst
      <4>2. a \in Attempt /\ a.read \in Nat /\ a.at \in Nat
        BY <4>1 DEF IInv, TypeOK, Attempt
      <4>3. clock < a.read + Window
        BY <3>1, <4>1, <4>2, <1>1, RateLimitAssumption
      <4>4. a \in hits
        BY <4>1, <4>2, <4>3, <1>1, RateLimitAssumption DEF IInv, Remembered
      <4>5. Since(now, a.read) < Window
        BY <4>2, <4>3, <1>1, RateLimitAssumption DEF Since
      <4> QED BY <3>1, <4>1, <4>4, <4>5 DEF Own, Fresh
    <3>3. IsFiniteSet(own)
      <4>1. own \subseteq admitted
        BY <1>3 DEF Own, IInv, TypeOK
      <4> QED BY <4>1, FS_Subset DEF IInv, TypeOK
    <3> HIDE DEF own, old, this
    <3>4. /\ IsFiniteSet(old) /\ Cardinality(old) <= Cardinality(own)
          /\ Cardinality(old) \in Nat /\ Cardinality(own) \in Nat
      BY <3>2, <3>3, FS_Subset, FS_CardinalityType
    <3>5. Cardinality(old \cup {this}) <= Cardinality(old) + 1
      <4>1. Cardinality(old \cup {this})
              = IF this \in old THEN Cardinality(old) ELSE Cardinality(old) + 1
        BY <3>4, FS_AddElement
      <4> HIDE DEF old, this
      <4> QED BY <4>1, <3>4
    <3>6. Cardinality(old \cup {this}) \in Nat
      BY <3>4, FS_AddElement, FS_CardinalityType
    <3> QED BY <3>1, <3>4, <3>5, <3>6, RateLimitAssumption
  <2> QED BY <2>2, <2>3
<1> QED BY <1>5, <1>6, <1>7, <1>8 DEF IInv

(***************************************************************************)
(* The limiter keeps its inductive invariant: LimitHolds for any number of *)
(* callers that wait for its mutex for any time (ratelimit.rs, check).     *)
(***************************************************************************)
THEOREM RateLimitInvariant == Spec => []IInv
<1>1. IInv /\ [Next]_vars => IInv'
  <2> SUFFICES ASSUME IInv, [Next]_vars PROVE IInv'
    OBVIOUS
  <2>1. CASE UNCHANGED vars
    BY <2>1 DEF vars, IInv, TypeOK, Numbered, Remembered, LimitHolds, Burst
  <2>2. CASE \E c \in Callers : Check(c)
    BY <2>2, CheckStep
  <2>3. CASE \E c \in Callers, ip \in Addresses : ReadClock(c, ip)
    BY <2>3, ReadClockStep
  <2>4. CASE Tick
    BY <2>4, TickStep
  <2> QED BY <2>1, <2>2, <2>3, <2>4 DEF Next
<1> QED BY <1>1, InitFact, PTL DEF Spec

(***************************************************************************)
(* Nobody is refused for what another address did, or for attempts that    *)
(* have expired (ratelimit.rs, `times.len() >= self.max`).                 *)
(***************************************************************************)
THEOREM RefusalsTheorem == Spec => RefusalsAreEarned
<1> DEFINE Counted(c) == {a \in admitted : a.ip = call[c].ip
                                           /\ a.read > call[c].read - Window}
<1>1. ASSUME IInv, [Next]_vars, NEW c \in Callers,
             call[c] # None, call'[c] = None, admitted' = admitted
      PROVE  Cardinality(Counted(c)) >= Limit
  <2> DEFINE own == Own(Fresh(call[c].read), call[c].ip)
  <2>1. Check(c)
    <3>1. ~ UNCHANGED vars /\ ~ Tick
      BY <1>1 DEF vars, Tick
    <3>2. \A d \in Callers, ip \in Addresses : ~ ReadClock(d, ip)
      BY <1>1, NoneIsNoCall DEF ReadClock, IInv, TypeOK, Call
    <3>3. \A d \in Callers : Check(d) => d = c
      BY <1>1 DEF Check, IInv, TypeOK
    <3> QED BY <1>1, <3>1, <3>2, <3>3 DEF Next
  <2>2. Cardinality(own) >= Limit
    <3> DEFINE this == [id |-> call[c].id, ip |-> call[c].ip,
                        read |-> call[c].read, at |-> clock]
    <3>1. this \notin admitted
      BY <1>1 DEF IInv, Numbered
    <3>2. ~(Cardinality(own) >= Limit) => admitted' = admitted \cup {this}
      BY <2>1 DEF Check
    <3> QED BY <1>1, <3>1, <3>2
  <2>3. own \subseteq Counted(c)
    <3>1. call[c].read \in Nat
      BY <1>1 DEF IInv, TypeOK, Call
    <3> SUFFICES ASSUME NEW a \in own PROVE a \in Counted(c)
      OBVIOUS
    <3>2. a \in hits /\ a.ip = call[c].ip /\ Since(call[c].read, a.read) < Window
      BY DEF Own, Fresh
    <3>3. a \in admitted /\ a.read \in Nat
      BY <1>1, <3>2 DEF IInv, TypeOK, Attempt
    <3>4. a.read > call[c].read - Window
      BY <3>1, <3>2, <3>3, RateLimitAssumption DEF Since
    <3> QED BY <3>2, <3>3, <3>4
  <2>4. IsFiniteSet(Counted(c))
    BY <1>1, FS_Subset DEF IInv, TypeOK
  <2> HIDE DEF own, Counted
  <2>5. Cardinality(own) <= Cardinality(Counted(c))
    BY <2>3, <2>4, FS_Subset
  <2>6. Cardinality(own) \in Nat /\ Cardinality(Counted(c)) \in Nat
    BY <2>3, <2>4, FS_Subset, FS_CardinalityType
  <2> QED BY <2>2, <2>5, <2>6, RateLimitAssumption
<1>2. IInv /\ [Next]_vars =>
        [\A c \in Callers :
            call[c] # None /\ call'[c] = None /\ admitted' = admitted =>
               Cardinality({a \in admitted : a.ip = call[c].ip
                                             /\ a.read > call[c].read - Window}) >= Limit]_vars
  BY <1>1
<1> QED BY <1>2, RateLimitInvariant, PTL DEF RefusalsAreEarned, Spec
=============================================================================
