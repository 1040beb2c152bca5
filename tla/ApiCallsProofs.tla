-------------------------- MODULE ApiCallsProofs ---------------------------
(* For every number of threads, every length of token life and every bound on
   retries: no call carries an expired token, threads that find the token due
   mint one between them, and a listing reported without an error misses no row
   that was there throughout.

   None is inductive.  What a call carries depends on what the cache promised when
   it was sent (CacheMargin), and a call on its way spends its own margin with the
   clock (CallMargin).  What a listing reports at its end depends on what each of
   its pages left for the next (Covered), and that on places without gaps.      *)
EXTENDS ApiCalls, FiniteSetTheorems, WellFoundedInduction, TLAPS

Clocks ==
    /\ cached \in [fresh : Nat, life : Nat]
    /\ pc \in [Workers -> States]
    /\ DOMAIN timer = Workers /\ DOMAIN carried = Workers

(* A token still taken for fresh outlives its freshness by the skew, less the time
   its own answer took.                                                        *)
CacheMargin == cached.fresh > 0 => cached.life >= cached.fresh + Skew - Transit

(* A call that can still be on its way for a while carries a token for as long. *)
CallMargin ==
    \A w \in Workers :
        /\ pc[w] \in InFlight => timer[w] \in 0..Transit
        /\ pc[w] = "sent" => carried[w] \in Nat /\ carried[w] + timer[w] > Transit

ClockInv == Clocks /\ CacheMargin /\ CallMargin /\ OneMintPerExpiry

(* A step of thread w that leaves it off the wire and lets the cache be. *)
Quiet(w, at) ==
    /\ at \in {"idle", "token", "wait", "mint_wait"}
    /\ pc' = [pc EXCEPT ![w] = at]
    /\ cached' = cached
    /\ DOMAIN timer' = Workers /\ DOMAIN carried' = Workers
    /\ \A v \in Workers \ {w} : timer'[v] = timer[v] /\ carried'[v] = carried[v]

LEMMA QuietKeeps ==
    ASSUME NEW w \in Workers, NEW at, ClockInv, Quiet(w, at),
           at = "mint_wait" => pc[w] \in HoldsLock
    PROVE  ClockInv'
<1>1. Clocks'
  BY DEF ClockInv, Clocks, Quiet, States, InFlight, Asleep
<1>2. CacheMargin'
  BY DEF ClockInv, CacheMargin, Quiet
<1>3. CallMargin'
  BY DEF ClockInv, Clocks, CallMargin, Quiet, InFlight
<1>4. OneMintPerExpiry'
  BY DEF ClockInv, Clocks, OneMintPerExpiry, Quiet, HoldsLock, Due
<1> QED BY <1>1, <1>2, <1>3, <1>4 DEF ClockInv

(* A call leaves with a token that lasts longer than its way. *)
LEMMA SendKeeps ==
    ASSUME NEW w \in Workers, ClockInv, NEW life \in Nat, life > Transit,
           Send(w, life), CacheMargin', cached' \in [fresh : Nat, life : Nat],
           \A v \in Workers \ {w} : pc[v] \notin HoldsLock \/ cached' = cached
    PROVE  ClockInv'
<1> USE TimingAssumption
<1>1. Clocks'
  BY DEF ClockInv, Clocks, Send, States, InFlight
<1>2. CallMargin'
  BY DEF ClockInv, Clocks, CallMargin, Send, InFlight
<1>3. OneMintPerExpiry'
  BY DEF ClockInv, Clocks, OneMintPerExpiry, Send, HoldsLock, Due
<1> QED BY <1>1, <1>2, <1>3 DEF ClockInv

LEMMA ThrottledIsQuiet ==
    ASSUME NEW w \in Workers, ClockInv, Throttled(w), cached' = cached,
           DOMAIN carried' = Workers,
           \A v \in Workers \ {w} : carried'[v] = carried[v]
    PROVE  ClockInv'
<1>1. \E at \in {"idle", "wait"} : Quiet(w, at)
  BY DEF Throttled, Raise, EndJob, CallOver, Sleep, Quiet, ClockInv, Clocks
<1> QED BY <1>1, QuietKeeps

LEMMA RaiseIsQuiet ==
    ASSUME NEW w \in Workers, ClockInv, Raise(w), cached' = cached,
           DOMAIN carried' = Workers,
           \A v \in Workers \ {w} : carried'[v] = carried[v]
    PROVE  ClockInv'
<1>1. Quiet(w, "idle")
  BY DEF Raise, EndJob, CallOver, Quiet, ClockInv, Clocks
<1> QED BY <1>1, QuietKeeps

LEMMA InitKeeps == Init => ClockInv
  BY TimingAssumption DEF Init, ClockInv, Clocks, CacheMargin, CallMargin, OneMintPerExpiry,
     States, InFlight, Asleep, HoldsLock

LEMMA TakeTokenKeeps ==
    ASSUME NEW w \in Workers, ClockInv, TakeToken(w)
    PROVE  ClockInv'
<1> USE TimingAssumption DEF TakeToken, UseToken
<1>1. CASE Due
  <2>1. Clocks'
    BY <1>1 DEF ClockInv, Clocks, States, InFlight
  <2>2. CacheMargin' /\ CallMargin'
    BY <1>1 DEF ClockInv, Clocks, CacheMargin, CallMargin, InFlight
  <2>3. OneMintPerExpiry'
    BY <1>1 DEF ClockInv, Clocks, OneMintPerExpiry, Minting, HoldsLock, Due
  <2> QED BY <2>1, <2>2, <2>3 DEF ClockInv
<1>2. CASE ~Due
  <2>1. cached.life \in Nat /\ cached.life > Transit
    BY <1>2 DEF ClockInv, Clocks, CacheMargin, Due
  <2>2. CacheMargin' /\ cached' \in [fresh : Nat, life : Nat]
    BY DEF ClockInv, Clocks, CacheMargin
  <2>3. Send(w, cached.life) /\ cached' = cached
    BY <1>2
  <2> QED BY <2>1, <2>2, <2>3, SendKeeps
<1> QED BY <1>1, <1>2

LEMMA MintedKeeps ==
    ASSUME NEW w \in Workers, ClockInv, pc[w] = "mint", Minted(w)
    PROVE  ClockInv'
<1> USE TimingAssumption
<1>1. PICK age \in 0..timer[w] :
        /\ cached' = [fresh |-> Fresh(Lifetime), life |-> Lifetime - age]
        /\ Send(w, Lifetime - age)
  BY DEF Minted
<1>2. age \in 0..Transit
  BY <1>1 DEF ClockInv, CallMargin, InFlight
<1>3. Fresh(Lifetime) = Lifetime - Skew /\ Lifetime - Skew \in Nat
  BY DEF Fresh, Larger
<1>4. Lifetime - age \in Nat /\ Lifetime - age > Transit
  BY <1>2
<1>5. CacheMargin' /\ cached' \in [fresh : Nat, life : Nat]
  BY <1>1, <1>2, <1>3, <1>4 DEF CacheMargin
<1>6. \A v \in Workers \ {w} : pc[v] \notin HoldsLock
  BY DEF ClockInv, OneMintPerExpiry, HoldsLock
<1> QED BY <1>1, <1>4, <1>5, <1>6, SendKeeps

LEMMA MintAnsweredKeeps ==
    ASSUME NEW w \in Workers, ClockInv, MintAnswered(w)
    PROVE  ClockInv'
<1>0. pc[w] = "mint"
  BY DEF MintAnswered
<1>1. CASE Minted(w)
  BY <1>0, <1>1, MintedKeeps
<1>2. CASE MintThrottled(w)
  <2>1. Quiet(w, "mint_wait")
    BY <1>2 DEF MintThrottled, Sleep, Quiet, ClockInv, Clocks
  <2> QED BY <1>0, <2>1, QuietKeeps DEF HoldsLock
<1>3. CASE MintGivesUp(w)
  BY <1>3, ThrottledIsQuiet DEF MintGivesUp, ClockInv, Clocks
<1>4. CASE MintRefused(w)
  BY <1>4, RaiseIsQuiet DEF MintRefused, ClockInv, Clocks
<1> QED BY <1>1, <1>2, <1>3, <1>4 DEF MintAnswered

LEMMA MintAgainKeeps ==
    ASSUME NEW w \in Workers, ClockInv, MintAgain(w)
    PROVE  ClockInv'
<1> USE TimingAssumption DEF MintAgain
<1>1. Clocks' /\ CacheMargin'
  BY DEF ClockInv, Clocks, CacheMargin, States, InFlight
<1>2. CallMargin'
  BY DEF ClockInv, Clocks, CallMargin, InFlight
<1>3. OneMintPerExpiry'
  BY DEF ClockInv, Clocks, OneMintPerExpiry, HoldsLock, Due
<1> QED BY <1>1, <1>2, <1>3 DEF ClockInv

LEMMA CallAnsweredKeeps ==
    ASSUME NEW w \in Workers, ClockInv, CallAnswered(w)
    PROVE  ClockInv'
<1>0. /\ cached' = cached
      /\ DOMAIN carried' = Workers
      /\ \A v \in Workers \ {w} : carried'[v] = carried[v]
  BY DEF CallAnswered, ClockInv, Clocks
<1>1. CASE PageArrived(w) /\ CallOver(w)
  <2>1. \E at \in {"idle", "token"} : pc' = [pc EXCEPT ![w] = at]
    <3>1. CASE Job(w) = "scim"
      BY <1>1, <3>1 DEF PageArrived, ScimPage, EndJob, NextPage
    <3>2. CASE Job(w) = "cursor"
      BY <1>1, <3>2 DEF PageArrived, CursorPage, EndJob, NextPage
    <3>3. CASE Job(w) = "content"
      BY <1>1, <3>3 DEF PageArrived, ContentArrived, EndJob
    <3> QED BY <1>1, <3>1, <3>2, <3>3 DEF PageArrived
  <2>2. \E at \in {"idle", "token"} : Quiet(w, at)
    BY <1>0, <1>1, <2>1 DEF CallOver, Quiet, ClockInv, Clocks
  <2> QED BY <2>2, QuietKeeps
<1>2. CASE Throttled(w)
  BY <1>0, <1>2, ThrottledIsQuiet
<1>3. CASE Raise(w)
  BY <1>0, <1>3, RaiseIsQuiet
<1> QED BY <1>1, <1>2, <1>3 DEF CallAnswered

(* The clock: a call spends as much of its token as of its way. *)
LEMMA TickKeeps ==
    ASSUME ClockInv, Tick
    PROVE  ClockInv'
<1> USE TimingAssumption DEF Tick, Less
<1>1. Clocks'
  BY DEF ClockInv, Clocks
<1>2. CacheMargin'
  BY DEF ClockInv, Clocks, CacheMargin
<1>3. CallMargin'
  <2> SUFFICES ASSUME NEW w \in Workers
               PROVE /\ pc[w] \in InFlight => timer'[w] \in 0..Transit
                     /\ pc[w] = "sent" => carried'[w] \in Nat /\ carried'[w] + timer'[w] > Transit
    BY DEF CallMargin
  <2>1. CASE pc[w] \in InFlight
    BY <2>1 DEF ClockInv, CallMargin, InFlight
  <2>2. CASE pc[w] \notin InFlight
    BY <2>2 DEF InFlight
  <2> QED BY <2>1, <2>2
<1>4. OneMintPerExpiry'
  BY DEF ClockInv, OneMintPerExpiry, Due
<1> QED BY <1>1, <1>2, <1>3, <1>4 DEF ClockInv

LEMMA StepKeeps == ClockInv /\ [Next]_vars => ClockInv'
<1> SUFFICES ASSUME ClockInv, [Next]_vars
             PROVE  ClockInv'
  OBVIOUS
<1>1. ASSUME NEW w \in Workers, Step(w)
      PROVE  ClockInv'
  <2>1. CASE Begin(w)
    <3>1. Quiet(w, "token")
      BY <2>1 DEF Begin, Quiet, ClockInv, Clocks
    <3> QED BY <3>1, QuietKeeps
  <2>2. CASE TakeToken(w)
    BY <2>2, TakeTokenKeeps
  <2>3. CASE MintAnswered(w)
    BY <2>3, MintAnsweredKeeps
  <2>4. CASE MintAgain(w)
    BY <2>4, MintAgainKeeps
  <2>5. CASE CallAnswered(w)
    BY <2>5, CallAnsweredKeeps
  <2>6. CASE Again(w)
    <3>1. Quiet(w, "token")
      BY <2>6 DEF Again, Quiet, ClockInv, Clocks
    <3> QED BY <3>1, QuietKeeps
  <2> QED BY <1>1, <2>1, <2>2, <2>3, <2>4, <2>5, <2>6 DEF Step
<1>2. CASE Tick
  BY <1>2, TickKeeps
<1>3. CASE AddRow \/ RemoveRow \/ UNCHANGED vars
  <2>1. UNCHANGED clocks
    BY <1>3 DEF AddRow, RemoveRow, vars
  <2> QED BY <2>1 DEF clocks, ClockInv, Clocks, CacheMargin, CallMargin, OneMintPerExpiry, Due
<1> QED BY <1>1, <1>2, <1>3 DEF Next

THEOREM ClocksKeepTheirMargins == Spec => []ClockInv
<1> QED BY InitKeeps, StepKeeps, PTL DEF Spec

THEOREM NoExpiredToken == Spec => []NoCallCarriesAnExpiredToken
<1>1. ClockInv => NoCallCarriesAnExpiredToken
  BY TimingAssumption DEF ClockInv, CallMargin, NoCallCarriesAnExpiredToken, InFlight
<1> QED BY <1>1, ClocksKeepTheirMargins, PTL

THEOREM OneMint == Spec => []OneMintPerExpiry
<1>1. ClockInv => OneMintPerExpiry
  BY DEF ClockInv
<1> QED BY <1>1, ClocksKeepTheirMargins, PTL

(* --- types and tries ---------------------------------------------------------- *)

Timed == ClockInv /\ ClocksTypeOK /\ CountsTypeOK

LEMMA WaitIsATime ==
    ASSUME NEW n \in Nat \ {0}, NEW after \in RetryAfters
    PROVE  Wait(n, after) \in Nat
<1>1. after \in Nat /\ MaxSleep \in Nat
  BY RetryAssumption
<1>2. 2 ^ (n - 1) \in Int
  OBVIOUS
<1>3. Backoff(n) \in Int
  BY <1>1, <1>2 DEF Backoff, Smaller
<1> QED BY <1>1, <1>3 DEF Wait, Larger

LEMMA SleepIsTimed ==
    ASSUME NEW w \in Workers, NEW where \in Asleep, NEW n \in Nat \ {0},
           Timed, Sleep(w, where, n)
    PROVE  pc' \in [Workers -> States] /\ timer' \in [Workers -> Nat]
<1>1. PICK after \in RetryAfters : /\ pc' = [pc EXCEPT ![w] = where]
                                   /\ timer' = [timer EXCEPT ![w] = Wait(n, after)]
  BY DEF Sleep
<1>2. Wait(n, after) \in Nat
  BY WaitIsATime
<1> QED BY <1>1, <1>2 DEF Timed, ClocksTypeOK, States

LEMMA RaiseIsTimed ==
    ASSUME NEW w \in Workers, Timed, Raise(w)
    PROVE  /\ pc' \in [Workers -> States]
           /\ timer' \in [Workers -> Nat]
           /\ attempt' \in [Workers -> 1..MaxAttempts]
  BY RetryAssumption DEF Timed, ClocksTypeOK, CountsTypeOK, Raise, EndJob, CallOver, States

LEMMA ThrottledIsTimed ==
    ASSUME NEW w \in Workers, Timed, Throttled(w)
    PROVE  /\ pc' \in [Workers -> States]
           /\ timer' \in [Workers -> Nat]
           /\ attempt' \in [Workers -> 1..MaxAttempts]
<1>1. CASE GivesUp(attempt[w])
  BY <1>1, RaiseIsTimed DEF Throttled
<1>2. CASE ~GivesUp(attempt[w])
  <2>1. /\ attempt[w] \in Nat \ {0}
        /\ attempt' \in [Workers -> 1..MaxAttempts]
    BY <1>2, RetryAssumption DEF Throttled, GivesUp, Timed, CountsTypeOK
  <2> QED BY <1>2, <2>1, SleepIsTimed DEF Throttled, Asleep
<1> QED BY <1>1, <1>2

LEMMA MintAnsweredIsTimed ==
    ASSUME NEW w \in Workers, Timed, MintAnswered(w)
    PROVE  ClocksTypeOK' /\ CountsTypeOK'
<1> USE TimingAssumption, RetryAssumption
<1>1. CASE Minted(w)
  <2>1. PICK age \in 0..timer[w] :
          /\ cached' = [fresh |-> Fresh(Lifetime), life |-> Lifetime - age]
          /\ Send(w, Lifetime - age)
          /\ mints' = [mints EXCEPT ![w] = 1]
          /\ attempt' = attempt
    BY <1>1 DEF Minted
  <2>2. Lifetime - age \in Nat
    BY DEF MintAnswered, Timed, ClockInv, CallMargin, InFlight
  <2>3. Fresh(Lifetime) \in Nat
    BY DEF Fresh, Larger
  <2> QED BY <2>1, <2>2, <2>3 DEF Timed, ClocksTypeOK, CountsTypeOK, Send, States, InFlight
<1>2. CASE MintThrottled(w)
  <2>1. /\ mints[w] \in Nat \ {0}
        /\ mints' \in [Workers -> 1..MaxAttempts]
    BY <1>2 DEF MintThrottled, GivesUp, Timed, CountsTypeOK
  <2>2. Sleep(w, "mint_wait", mints[w])
    BY <1>2 DEF MintThrottled
  <2>3. pc' \in [Workers -> States] /\ timer' \in [Workers -> Nat]
    BY <2>1, <2>2, SleepIsTimed DEF Asleep
  <2> QED BY <1>2, <2>1, <2>3 DEF MintThrottled, Timed, ClocksTypeOK, CountsTypeOK
<1>3. CASE MintGivesUp(w)
  BY <1>3, ThrottledIsTimed DEF MintGivesUp, Timed, ClocksTypeOK, CountsTypeOK
<1>4. CASE MintRefused(w)
  BY <1>4, RaiseIsTimed DEF MintRefused, Timed, ClocksTypeOK, CountsTypeOK
<1> QED BY <1>1, <1>2, <1>3, <1>4 DEF MintAnswered

LEMMA CallAnsweredIsTimed ==
    ASSUME NEW w \in Workers, Timed, CallAnswered(w)
    PROVE  ClocksTypeOK' /\ CountsTypeOK'
<1>0. /\ cached' = cached /\ mints' = mints
      /\ carried' \in [Workers -> Nat]
  BY DEF CallAnswered, Timed, ClocksTypeOK
<1>1. CASE PageArrived(w) /\ CallOver(w)
  <2>1. \E at \in {"idle", "token"} : pc' = [pc EXCEPT ![w] = at]
    <3>1. CASE Job(w) = "scim"
      BY <1>1, <3>1 DEF PageArrived, ScimPage, EndJob, NextPage
    <3>2. CASE Job(w) = "cursor"
      BY <1>1, <3>2 DEF PageArrived, CursorPage, EndJob, NextPage
    <3>3. CASE Job(w) = "content"
      BY <1>1, <3>3 DEF PageArrived, ContentArrived, EndJob
    <3> QED BY <1>1, <3>1, <3>2, <3>3 DEF PageArrived
  <2>2. pc' \in [Workers -> States]
    BY <2>1 DEF Timed, ClocksTypeOK, States
  <2>3. timer' \in [Workers -> Nat]
    BY <1>1 DEF CallOver, Timed, ClocksTypeOK
  <2>4. attempt' \in [Workers -> 1..MaxAttempts]
    BY <1>1, RetryAssumption DEF CallOver, Timed, CountsTypeOK
  <2> QED BY <1>0, <2>2, <2>3, <2>4 DEF Timed, ClocksTypeOK, CountsTypeOK
<1>2. CASE Throttled(w)
  BY <1>0, <1>2, ThrottledIsTimed DEF Timed, ClocksTypeOK, CountsTypeOK
<1>3. CASE Raise(w)
  BY <1>0, <1>3, RaiseIsTimed DEF Timed, ClocksTypeOK, CountsTypeOK
<1> QED BY <1>1, <1>2, <1>3 DEF CallAnswered

LEMMA TimedStep == Timed /\ [Next]_vars => Timed'
<1> SUFFICES ASSUME Timed, [Next]_vars
             PROVE  ClocksTypeOK' /\ CountsTypeOK'
  BY StepKeeps DEF Timed
<1>1. ASSUME NEW w \in Workers, Step(w)
      PROVE  ClocksTypeOK' /\ CountsTypeOK'
  <2>1. CASE Begin(w) \/ MintAgain(w) \/ Again(w)
    BY <2>1 DEF Begin, MintAgain, Again, Timed, ClocksTypeOK, CountsTypeOK, States, InFlight
  <2>2. CASE TakeToken(w)
    BY <2>2 DEF TakeToken, UseToken, Send, Timed, ClocksTypeOK, CountsTypeOK, States, InFlight
  <2>3. CASE MintAnswered(w)
    BY <2>3, MintAnsweredIsTimed
  <2>4. CASE CallAnswered(w)
    BY <2>4, CallAnsweredIsTimed
  <2> QED BY <1>1, <2>1, <2>2, <2>3, <2>4 DEF Step
<1>2. CASE Tick
  BY <1>2 DEF Tick, Less, Timed, ClocksTypeOK, CountsTypeOK
<1>3. CASE AddRow \/ RemoveRow \/ UNCHANGED vars
  BY <1>3 DEF AddRow, RemoveRow, vars, clocks, Timed, ClocksTypeOK, CountsTypeOK
<1> QED BY <1>1, <1>2, <1>3 DEF Next

LEMMA TimedInit == Init => Timed
<1>1. Init => ClocksTypeOK /\ CountsTypeOK
  BY RetryAssumption DEF Init, ClocksTypeOK, CountsTypeOK, States
<1> QED BY <1>1, InitKeeps DEF Timed

(* --- places in a listing --------------------------------------------------------- *)

LEMMA LeastOf ==
    ASSUME NEW T, T \subseteq Nat, T # {}
    PROVE  \E m \in T : \A r \in T : m <= r
<1>1. PICK m \in T : \A r \in T : <<r, m>> \notin OpToRel(<, Nat)
  BY NatLessThanWellFounded, WFMin
<1>2. ASSUME NEW r \in T
      PROVE  m <= r
  <2>1. m \in Nat /\ r \in Nat
    OBVIOUS
  <2>2. CASE r < m
    <3>1. <<r, m>> \in OpToRel(<, Nat)
      BY <2>1, <2>2 DEF OpToRel
    <3> QED BY <1>1, <3>1
  <2> QED BY <2>1, <2>2
<1> QED BY <1>2

(* The row of a finite set with the fewest rows above it is the last. *)
LEMMA LastOf ==
    ASSUME NEW T, T \subseteq Nat, T # {}, IsFiniteSet(T)
    PROVE  \E m \in T : \A r \in T : r <= m
<1> DEFINE Above(r) == {q \in T : q > r}
           Counts == {Cardinality(Above(r)) : r \in T}
<1>1. \A r \in T : IsFiniteSet(Above(r)) /\ Cardinality(Above(r)) \in Nat
  BY FS_Subset, FS_CardinalityType
<1>2. Counts \subseteq Nat /\ Counts # {}
  BY <1>1
<1>3. PICK least \in Counts : \A c \in Counts : least <= c
  <2> HIDE DEF Counts
  <2> QED BY <1>2, LeastOf
<1>4. PICK m \in T : least = Cardinality(Above(m))
  BY <1>3
<1>5. ASSUME NEW r \in T, ~(r <= m)
      PROVE  FALSE
  <2>0. r \in Nat /\ m \in Nat /\ r > m
    BY <1>5
  <2>1. r \in Above(m) /\ r \notin Above(r) /\ Above(r) \subseteq Above(m)
    <3>1. ASSUME NEW q \in Above(r)
          PROVE  q \in Above(m)
      <4>1. q \in T /\ q \in Nat /\ q > r
        OBVIOUS
      <4>2. q > m
        BY <2>0, <4>1
      <4> QED BY <4>1, <4>2
    <3>2. r \in Above(m) /\ r \notin Above(r)
      BY <2>0
    <3> QED BY <3>1, <3>2
  <2>2. /\ Cardinality(Above(r)) <= Cardinality(Above(m))
        /\ Cardinality(Above(r)) # Cardinality(Above(m))
    <3> HIDE DEF Above
    <3> QED BY <1>1, <2>1, FS_Subset
  <2>3. Cardinality(Above(m)) <= Cardinality(Above(r))
    BY <1>3, <1>4
  <2>4. Cardinality(Above(r)) \in Nat /\ Cardinality(Above(m)) \in Nat
    BY <1>1
  <2> HIDE DEF Above
  <2> QED BY <2>2, <2>3, <2>4
<1> QED BY <1>5

LEMMA PlaceIsANumber ==
    ASSUME roster \subseteq Keys, NEW r
    PROVE  /\ IsFiniteSet(roster)
           /\ IsFiniteSet({q \in roster : q <= r})
           /\ Place(r) \in Nat
           /\ Cardinality(roster) \in Nat
           /\ Place(r) <= Cardinality(roster)
<1>1. IsFiniteSet(roster)
  BY FS_Subset, PageAssumption
<1>2. {q \in roster : q <= r} \in SUBSET roster
  OBVIOUS
<1> QED BY <1>1, <1>2, FS_Subset, FS_CardinalityType DEF Place

(* Places leave no gap: below a row at or past `start`, some row is at `start`. *)
LEMMA SomeRowIsAtEveryPlace ==
    ASSUME roster \subseteq Keys, NEW start \in Nat \ {0},
           NEW r \in roster, Place(r) >= start
    PROVE  \E m \in roster : Place(m) = start
<1> DEFINE Past == {q \in roster : Place(q) >= start}
           Upto(m) == {q \in roster : q <= m}
           Below(m) == {q \in roster : q < m}
<1>0. roster \subseteq Nat
  BY PageAssumption
<1>1. PICK m \in Past : \A q \in Past : m <= q
  <2>1. Past \subseteq Nat /\ Past # {}
    BY <1>0
  <2> HIDE DEF Past
  <2> QED BY <2>1, LeastOf
<1>2. Place(m) \in Nat /\ Place(m) >= start
  BY PlaceIsANumber
<1>a. m \in roster /\ m \in Nat
  BY <1>0
<1>3. Below(m) = Upto(m) \ {m} /\ m \in Upto(m)
  <2>1. m \in Upto(m)
    BY <1>a
  <2>2. ASSUME NEW q \in roster
        PROVE  q \in Below(m) <=> q \in Upto(m) \ {m}
    <3>1. q \in Nat
      BY <1>0
    <3>2. q < m <=> q <= m /\ q # m
      BY <1>a, <3>1
    <3> QED BY <3>2
  <2>3. Below(m) \subseteq roster /\ Upto(m) \subseteq roster
    OBVIOUS
  <2> HIDE DEF Below, Upto
  <2> QED BY <2>1, <2>2, <2>3
<1>4. IsFiniteSet(Upto(m)) /\ Place(m) = Cardinality(Upto(m))
  BY PlaceIsANumber DEF Place
<1>5. IsFiniteSet(Below(m)) /\ Cardinality(Below(m)) = Place(m) - 1
  <2> HIDE DEF Upto, Below
  <2> QED BY <1>3, <1>4, FS_RemoveElement
<1>6. CASE Below(m) = {}
  <2>1. Cardinality(Below(m)) = 0
    BY <1>6, FS_EmptySet
  <2> QED BY <1>2, <1>5, <2>1
<1>7. CASE Below(m) # {}
  <2>1. PICK p \in Below(m) : \A q \in Below(m) : q <= p
    <3>1. Below(m) \subseteq Nat
      BY <1>0
    <3> HIDE DEF Below
    <3> QED BY <1>5, <1>7, <3>1, LastOf
  <2>2. p < m /\ p \in roster /\ m \in Nat /\ p \in Nat
    BY <1>0, <1>a
  <2>3. Upto(p) = Below(m)
    <3>1. ASSUME NEW q \in roster
          PROVE  q \in Upto(p) <=> q \in Below(m)
      <4>1. q \in Nat
        BY <1>0
      <4>2. q <= p => q < m
        BY <2>2, <4>1
      <4>3. q < m => q <= p
        BY <2>1
      <4> QED BY <4>2, <4>3
    <3>2. Below(m) \subseteq roster /\ Upto(p) \subseteq roster
      OBVIOUS
    <3> HIDE DEF Below, Upto
    <3> QED BY <3>1, <3>2
  <2>4. Place(p) = Cardinality(Below(m))
    BY <2>3 DEF Place
  <2>5. p \notin Past
    BY <1>1, <2>2
  <2>6. Place(p) < start
    <3>1. Place(p) \in Nat
      BY PlaceIsANumber
    <3>2. ~(Place(p) >= start)
      BY <2>2, <2>5
    <3> QED BY <3>1, <3>2
  <2> QED BY <1>2, <1>5, <2>4, <2>6
<1> QED BY <1>6, <1>7

(* --- listings -------------------------------------------------------------------- *)

ReadingTypeOK ==
    /\ pc \in [Workers -> States]
    /\ plan \in [Workers -> Seq(Jobs)]
    /\ listing \in [Workers -> [next : Nat \cup {NoCursor}, pages : 0..MaxPages,
                                items : SUBSET Keys, warned : Nat]]
    /\ ended \in [Workers -> [kind : Jobs, clean : BOOLEAN, items : SUBSET Keys]]
    /\ warnings \in Nat
    /\ roster \subseteq Keys /\ edits \in 0..MaxEdits
    /\ steady \in [Workers -> SUBSET Keys] /\ shrunk \in [Workers -> BOOLEAN]

(* What a thread in the middle of a job has. *)
Underway(w) ==
    pc[w] # "idle" =>
        /\ plan[w] # <<>>
        /\ Job(w) = "scim" => listing[w].next \in Nat \ {0}
        /\ steady[w] \subseteq roster
        /\ listing[w].warned <= warnings

(* No row that was there all along is lost between the pages read and those to
   come: it has been read, or it lies past the reader's cursor or position.   *)
Covered(w) ==
    pc[w] # "idle" =>
        /\ Job(w) = "cursor" =>
               \A r \in steady[w] : r \in listing[w].items \/ r \in Rest(listing[w].next)
        /\ Job(w) = "scim" /\ ~shrunk[w] =>
               \A r \in steady[w] : r \in listing[w].items \/ Place(r) >= listing[w].next

Complete(w) ==
    /\ pc[w] = "idle" /\ ended[w].clean
    /\ ended[w].kind = "cursor" \/ (ended[w].kind = "scim" /\ ~shrunk[w])
    => steady[w] \subseteq ended[w].items

Reader(w) == Underway(w) /\ Covered(w) /\ Complete(w)

Reads == ReadingTypeOK /\ \A w \in Workers : Reader(w)

LEMMA ReadsInit == Init => Reads
<1> SUFFICES ASSUME Init
             PROVE  Reads
  OBVIOUS
<1>1. ReadingTypeOK
  BY PageAssumption, PlansAssumption
  DEF Init, ReadingTypeOK, States, NoListing, NoResult, Jobs
<1>2. ASSUME NEW w \in Workers
      PROVE  Reader(w)
  BY DEF Init, Reader, Underway, Covered, Complete, NoResult
<1> QED BY <1>1, <1>2 DEF Reads

(* What a thread leaves alone. *)
Untouched(v) ==
    /\ pc'[v] = pc[v] /\ plan'[v] = plan[v] /\ listing'[v] = listing[v]
    /\ ended'[v] = ended[v] /\ steady'[v] = steady[v] /\ shrunk'[v] = shrunk[v]

LEMMA UntouchedReads ==
    ASSUME NEW v \in Workers, Reads, Untouched(v), roster' = roster,
           warnings' \in Nat, warnings' >= warnings
    PROVE  Reader(v)'
<1>1. listing[v].warned \in Nat /\ warnings \in Nat
  BY DEF Reads, ReadingTypeOK
<1>2. Underway(v)'
  BY <1>1 DEF Reads, Reader, Underway, Untouched, Job
<1>3. \A r : Place(r)' = Place(r)
  BY DEF Place
<1>4. \A c : Rest(c)' = Rest(c)
  BY DEF Rest
<1>5. Covered(v)'
  BY <1>3, <1>4 DEF Reads, Reader, Covered, Untouched, Job
<1>6. Complete(v)'
  BY DEF Reads, Reader, Complete, Untouched
<1> QED BY <1>2, <1>5, <1>6 DEF Reader

(* A thread waiting, sleeping or taking a token reads nothing. *)
LEMMA WaitingReads ==
    ASSUME NEW w \in Workers, NEW at \in States \ {"idle"}, Reads, pc[w] # "idle",
           pc' = [pc EXCEPT ![w] = at], UNCHANGED <<reading, source>>
    PROVE  Reads'
<1> USE DEF reading, source
<1>1. ReadingTypeOK'
  BY DEF Reads, ReadingTypeOK
<1>2. ASSUME NEW v \in Workers \ {w}
      PROVE  Reader(v)'
  <2>1. Untouched(v)
    BY DEF Untouched, Reads, ReadingTypeOK
  <2>2. roster' = roster /\ warnings' \in Nat /\ warnings' >= warnings
    BY DEF Reads, ReadingTypeOK
  <2> QED BY <2>1, <2>2, UntouchedReads
<1>3. pc'[w] = at /\ at # "idle"
  BY DEF Reads, ReadingTypeOK
<1>4. Underway(w)' /\ Complete(w)'
  BY <1>3 DEF Reads, Reader, Underway, Complete, Job
<1>5. \A r : Place(r)' = Place(r)
  BY DEF Place
<1>6. \A c : Rest(c)' = Rest(c)
  BY DEF Rest
<1>7. Covered(w)'
  <2>1. Covered(w)
    BY DEF Reads, Reader
  <2>2. /\ listing'[w] = listing[w] /\ steady'[w] = steady[w]
        /\ shrunk'[w] = shrunk[w] /\ Job(w)' = Job(w)
    BY DEF Job
  <2> QED BY <1>3, <1>5, <1>6, <2>1, <2>2 DEF Covered
<1> QED BY <1>1, <1>2, <1>4, <1>7 DEF Reads, Reader

LEMMA BeginReads ==
    ASSUME NEW w \in Workers, Reads, Begin(w)
    PROVE  Reads'
<1> DEFINE start == [next |-> IF Job(w) = "cursor" THEN NoCursor ELSE 1,
                     pages |-> 0, items |-> {}, warned |-> warnings]
<1>0. /\ pc' = [pc EXCEPT ![w] = "token"]
      /\ listing' = [listing EXCEPT ![w] = start]
      /\ ended' = [ended EXCEPT ![w] = NoResult]
      /\ steady' = [steady EXCEPT ![w] = roster]
      /\ shrunk' = [shrunk EXCEPT ![w] = FALSE]
      /\ plan' = plan /\ warnings' = warnings /\ roster' = roster /\ edits' = edits
      /\ plan[w] # <<>>
  BY DEF Begin, source
<1>1. start \in [next : Nat \cup {NoCursor}, pages : 0..MaxPages,
                 items : SUBSET Keys, warned : Nat]
  BY PageAssumption DEF Reads, ReadingTypeOK
<1>2. NoResult \in [kind : Jobs, clean : BOOLEAN, items : SUBSET Keys]
  BY DEF NoResult, Jobs
<1>3. ReadingTypeOK'
  <2> HIDE DEF start
  <2> QED BY <1>0, <1>1, <1>2 DEF Reads, ReadingTypeOK, States
<1>4. ASSUME NEW v \in Workers \ {w}
      PROVE  Reader(v)'
  <2>1. Untouched(v)
    BY <1>0 DEF Untouched, Reads, ReadingTypeOK
  <2>2. roster' = roster /\ warnings' \in Nat /\ warnings' >= warnings
    BY <1>0 DEF Reads, ReadingTypeOK
  <2> QED BY <2>1, <2>2, UntouchedReads
<1>5. /\ pc'[w] = "token" /\ listing'[w] = start /\ steady'[w] = roster
      /\ roster \subseteq Nat \ {0}
  BY <1>0, PageAssumption DEF Reads, ReadingTypeOK
<1>6. Underway(w)'
  <2>2. Job(w) # "cursor" => listing'[w].next = 1
    BY <1>5
  <2>3. listing'[w].warned = warnings' /\ warnings' \in Nat
    BY <1>0, <1>5 DEF Reads, ReadingTypeOK
  <2>4. Job(w)' = Job(w) /\ plan'[w] # <<>>
    BY <1>0 DEF Job
  <2>5. steady'[w] \subseteq roster'
    BY <1>0, <1>5
  <2>6. Job(w) = "scim" => listing'[w].next \in Nat \ {0}
    BY <2>2
  <2> HIDE DEF start
  <2> QED BY <2>3, <2>4, <2>5, <2>6 DEF Underway
<1>7. Complete(w)'
  BY <1>5 DEF Complete
<1>8. ASSUME NEW r \in roster
      PROVE  Place(r)' >= 1
  <2>1. Place(r) \in Nat
    BY PlaceIsANumber DEF Reads, ReadingTypeOK
  <2>2. Place(r) # 0
    <3>1. r \in {q \in roster : q <= r}
      BY <1>5
    <3> QED BY <3>1, PlaceIsANumber, FS_EmptySet DEF Place, Reads, ReadingTypeOK
  <2>3. Place(r)' = Place(r)
    BY <1>0 DEF Place
  <2> QED BY <2>1, <2>2, <2>3
<1>9. Covered(w)'
  <2>1. Job(w)' = Job(w) /\ steady'[w] = roster /\ roster' = roster
    BY <1>0, <1>5 DEF Job
  <2>2. Job(w) = "cursor" => listing'[w].next = NoCursor
    BY <1>5
  <2>3. Job(w) = "scim" => listing'[w].next = 1
    BY <1>5
  <2>4. Rest(NoCursor)' = roster
    BY <2>1 DEF Rest
  <2> HIDE DEF start
  <2> QED BY <1>8, <2>1, <2>2, <2>3, <2>4 DEF Covered
<1> QED BY <1>3, <1>4, <1>6, <1>7, <1>9 DEF Reads, Reader

(* A thread at the end of its job: what it reports clean holds what it should. *)
LEMMA EndJobReads ==
    ASSUME NEW w \in Workers, Reads, pc[w] # "idle",
           NEW items \in SUBSET Keys, NEW warned \in BOOLEAN, NEW raised \in BOOLEAN,
           EndJob(w, items, warned, raised), UNCHANGED source,
           /\ ~raised /\ ~warned
           /\ Job(w) = "cursor" \/ (Job(w) = "scim" /\ ~shrunk[w])
           => steady[w] \subseteq items
    PROVE  Reads'
<1> DEFINE over == [kind |-> Job(w), clean |-> ~raised /\ warnings' = listing[w].warned,
                    items |-> IF raised THEN {} ELSE items]
<1>0. /\ pc' = [pc EXCEPT ![w] = "idle"]
      /\ plan' = [plan EXCEPT ![w] = Tail(plan[w])]
      /\ warnings' = warnings + (IF warned THEN 1 ELSE 0)
      /\ ended' = [ended EXCEPT ![w] = over]
      /\ listing' = [listing EXCEPT ![w] = NoListing]
      /\ steady' = steady /\ shrunk' = shrunk /\ roster' = roster /\ edits' = edits
  BY DEF EndJob, source
<1>1. plan[w] \in Seq(Jobs) /\ plan[w] # <<>> /\ listing[w].warned \in Nat
      /\ listing[w].warned <= warnings /\ warnings \in Nat
  BY DEF Reads, ReadingTypeOK, Reader, Underway
<1>2. Job(w) \in Jobs /\ Tail(plan[w]) \in Seq(Jobs)
  BY <1>1 DEF Job
<1>3. over \in [kind : Jobs, clean : BOOLEAN, items : SUBSET Keys]
  BY <1>2
<1>4. NoListing \in [next : Nat \cup {NoCursor}, pages : 0..MaxPages,
                     items : SUBSET Keys, warned : Nat]
  BY PageAssumption DEF NoListing
<1>5. warnings' \in Nat /\ warnings' >= warnings /\ (warned => warnings' > warnings)
  BY <1>0, <1>1
<1>6. ReadingTypeOK'
  <2> HIDE DEF over
  <2> QED BY <1>0, <1>2, <1>3, <1>4, <1>5 DEF Reads, ReadingTypeOK, States
<1>7. ASSUME NEW v \in Workers \ {w}
      PROVE  Reader(v)'
  <2>1. Untouched(v)
    BY <1>0 DEF Untouched, Reads, ReadingTypeOK
  <2> QED BY <1>0, <1>5, <2>1, UntouchedReads
<1>8. /\ pc'[w] = "idle" /\ ended'[w] = over
      /\ steady'[w] = steady[w] /\ shrunk'[w] = shrunk[w]
  BY <1>0 DEF Reads, ReadingTypeOK
<1>9. over.clean => ~raised /\ ~warned
  <2>1. over.clean = (~raised /\ warnings' = listing[w].warned)
    BY Zenon
  <2>2. over.clean => ~raised /\ warnings' = listing[w].warned
    BY <2>1, Zenon
  <2>3. warned => warnings' # listing[w].warned
    BY <1>1, <1>5
  <2> QED BY <2>2, <2>3, Zenon
<1>10. over.kind = Job(w) /\ (~raised => over.items = items)
  OBVIOUS
<1>11. Complete(w)'
  <2> HIDE DEF over
  <2> QED BY <1>8, <1>9, <1>10 DEF Complete
<1>12. Underway(w)' /\ Covered(w)'
  BY <1>8 DEF Underway, Covered
<1> QED BY <1>6, <1>7, <1>11, <1>12 DEF Reads, Reader

LEMMA RaiseReads ==
    ASSUME NEW w \in Workers, Reads, pc[w] # "idle", Raise(w), UNCHANGED source
    PROVE  Reads'
  BY EndJobReads DEF Raise

LEMMA ThrottledReads ==
    ASSUME NEW w \in Workers, Reads, pc[w] # "idle", Throttled(w), UNCHANGED source
    PROVE  Reads'
<1>1. CASE GivesUp(attempt[w])
  BY <1>1, RaiseReads DEF Throttled
<1>2. CASE ~GivesUp(attempt[w])
  <2>1. pc' = [pc EXCEPT ![w] = "wait"] /\ UNCHANGED <<reading, source>>
    BY <1>2 DEF Throttled, Sleep
  <2> QED BY <2>1, WaitingReads DEF States, Asleep
<1> QED BY <1>1, <1>2

(* A thread between two pages. *)
LEMMA NextPageReads ==
    ASSUME NEW w \in Workers, Reads, pc[w] # "idle",
           NEW next \in Nat \cup {NoCursor}, NEW items \in SUBSET Keys,
           NEW pages \in 0..MaxPages,
           NextPage(w, next, items, pages), UNCHANGED source,
           Job(w) = "scim" => next \in Nat \ {0},
           Job(w) = "cursor" => \A r \in steady[w] : r \in items \/ r \in Rest(next),
           Job(w) = "scim" /\ ~shrunk[w] =>
               \A r \in steady[w] : r \in items \/ Place(r) >= next
    PROVE  Reads'
<1>0. /\ pc' = [pc EXCEPT ![w] = "token"]
      /\ plan' = plan /\ ended' = ended /\ warnings' = warnings
      /\ steady' = steady /\ shrunk' = shrunk /\ roster' = roster /\ edits' = edits
  BY DEF NextPage, source
<1>1. /\ \A v \in Workers \ {w} : listing'[v] = listing[v]
      /\ listing'[w] = [next |-> next, pages |-> pages, items |-> items,
                        warned |-> listing[w].warned]
      /\ listing' = [listing EXCEPT ![w] = listing'[w]]
  <2>1. listing[w] \in [next : Nat \cup {NoCursor}, pages : 0..MaxPages,
                        items : SUBSET Keys, warned : Nat]
    BY DEF Reads, ReadingTypeOK
  <2>2. /\ DOMAIN listing = Workers
        /\ listing' = [listing EXCEPT ![w] =
               [[[listing[w] EXCEPT !.next = next] EXCEPT !.items = items]
                   EXCEPT !.pages = pages]]
    BY DEF NextPage, Reads, ReadingTypeOK
  <2>3. listing'[w] = [[[listing[w] EXCEPT !.next = next] EXCEPT !.items = items]
                          EXCEPT !.pages = pages]
    BY <2>2
  <2>4. listing'[w] = [next |-> next, pages |-> pages, items |-> items,
                       warned |-> listing[w].warned]
    BY <2>1, <2>3
  <2> QED BY <2>2, <2>3, <2>4
<1>2. listing'[w] \in [next : Nat \cup {NoCursor}, pages : 0..MaxPages,
                       items : SUBSET Keys, warned : Nat]
  BY <1>1 DEF Reads, ReadingTypeOK
<1>3. ReadingTypeOK'
  BY <1>0, <1>1, <1>2 DEF Reads, ReadingTypeOK, States
<1>4. ASSUME NEW v \in Workers \ {w}
      PROVE  Reader(v)'
  <2>1. Untouched(v)
    BY <1>0, <1>1 DEF Untouched, Reads, ReadingTypeOK
  <2>2. warnings' \in Nat /\ warnings' >= warnings
    BY <1>0 DEF Reads, ReadingTypeOK
  <2> QED BY <1>0, <2>1, <2>2, UntouchedReads
<1>5. /\ pc'[w] = "token" /\ Job(w)' = Job(w)
      /\ listing'[w].next = next /\ listing'[w].items = items
      /\ listing'[w].warned = listing[w].warned
  BY <1>0, <1>1 DEF Job, Reads, ReadingTypeOK
<1>6. Underway(w)
  BY DEF Reads, Reader
<1>7. Underway(w)'
  BY <1>0, <1>5, <1>6 DEF Underway
<1>8. Complete(w)'
  BY <1>5 DEF Complete
<1>9. Rest(next)' = Rest(next) /\ \A r : Place(r)' = Place(r)
  BY <1>0 DEF Rest, Place
<1>10. Covered(w)'
  BY <1>0, <1>5, <1>9 DEF Covered
<1> QED BY <1>3, <1>4, <1>7, <1>8, <1>10 DEF Reads, Reader

LEMMA ScimPageReads ==
    ASSUME NEW w \in Workers, Reads, pc[w] # "idle", Job(w) = "scim",
           ScimPage(w), UNCHANGED source
    PROVE  Reads'
<1> DEFINE start == listing[w].next
           rows == ScimRows(start)
           items == listing[w].items \cup rows
<1>0. /\ start \in Nat \ {0} /\ steady[w] \subseteq roster /\ roster \subseteq Keys
      /\ listing[w].items \in SUBSET Keys /\ Count \in Nat \ {0}
      /\ shrunk[w] \in BOOLEAN
  BY PageAssumption DEF Reads, ReadingTypeOK, Reader, Underway
<1>1. items \in SUBSET Keys
  BY <1>0 DEF ScimRows
<1>2. \A r : Place(r) \in Nat /\ Place(r) <= Cardinality(roster)
  BY <1>0, PlaceIsANumber
<1>a. Cardinality(roster) \in Nat
  BY <1>0, PlaceIsANumber
(* The rows of a page are those from its start to its end. *)
<1>3. ASSUME NEW r \in steady[w], ~shrunk[w]
      PROVE  r \in items \/ Place(r) >= start + Count
  <2>1. r \in listing[w].items \/ Place(r) >= start
    BY <1>3 DEF Reads, Reader, Covered
  <2>2. CASE Place(r) >= start /\ ~(Place(r) >= start + Count)
    <3>1. Place(r) \in start..(start + Count - 1)
      <4> HIDE DEF start
      <4> QED BY <1>0, <1>2, <2>2
    <3>2. r \in rows
      BY <1>0, <3>1 DEF ScimRows
    <3> QED BY <3>2
  <2> QED BY <2>1, <2>2
<1>4. CASE LastScimPage(start, rows)
  <2>1. EndJob(w, items, FALSE, FALSE)
    BY <1>4 DEF ScimPage
  <2>2. ASSUME NEW r \in steady[w], ~shrunk[w]
        PROVE  r \in items
    <3>1. CASE Place(r) >= start + Count
      <4>1. r \in roster /\ Place(r) >= start
        <5> HIDE DEF start
        <5> QED BY <1>0, <1>2, <3>1
      <4>2. PICK m \in roster : Place(m) = start
        <5> HIDE DEF start
        <5> QED BY <1>0, <4>1, SomeRowIsAtEveryPlace
      <4>3. m \in rows
        <5>1. start \in start..(start + Count - 1)
          <6> HIDE DEF start
          <6> QED BY <1>0
        <5> QED BY <4>2, <5>1 DEF ScimRows
      <4>4. start + Count - 1 >= Cardinality(roster)
        BY <1>4, <4>3 DEF LastScimPage
      <4> HIDE DEF start
      <4> QED BY <1>0, <1>2, <1>a, <3>1, <4>4
    <3> QED BY <1>3, <2>2, <3>1
  <2> HIDE DEF items
  <2> QED BY <1>1, <2>1, <2>2, EndJobReads
<1>5. CASE ~LastScimPage(start, rows)
  <2>1. NextPage(w, start + Count, items, 0)
    BY <1>5 DEF ScimPage
  <2>2. start + Count \in Nat \ {0} /\ 0 \in 0..MaxPages
    <3> HIDE DEF start
    <3> QED BY <1>0, PageAssumption
  <2> DEFINE next == start + Count
  <2>3. next \in Nat \ {0} /\ NextPage(w, next, items, 0)
    BY <2>1, <2>2
  <2>4. ~shrunk[w] => \A r \in steady[w] : r \in items \/ Place(r) >= next
    BY <1>3
  <2> HIDE DEF items, next
  <2> QED BY <1>1, <2>2, <2>3, <2>4, NextPageReads
<1> QED BY <1>4, <1>5

LEMMA CursorPageReads ==
    ASSUME NEW w \in Workers, Reads, pc[w] # "idle", Job(w) = "cursor",
           CursorPage(w), UNCHANGED source
    PROVE  Reads'
<1> DEFINE cursor == listing[w].next
<1>0. /\ cursor \in Nat \cup {NoCursor} /\ listing[w].pages \in 0..MaxPages
      /\ listing[w].items \in SUBSET Keys
      /\ roster \subseteq Keys /\ roster \subseteq Nat \ {0} /\ steady[w] \subseteq roster
      /\ MaxPages \in Nat
  BY PageAssumption DEF Reads, ReadingTypeOK, Reader, Underway
<1>1. PICK rows \in CursorPages(cursor) :
        LET items == listing[w].items \cup rows
            pages == listing[w].pages + 1
            more == HasMore(rows, cursor)
        IN IF more /\ pages < MaxPages
           THEN NextPage(w, Continuation(cursor, rows), items, pages)
           ELSE EndJob(w, items, more, FALSE)
  BY DEF CursorPage
<1> DEFINE items == listing[w].items \cup rows
           pages == listing[w].pages + 1
           next == Continuation(cursor, rows)
<1>2. rows \subseteq Rest(cursor) /\ \A r \in rows, q \in Rest(cursor) \ rows : r < q
  BY DEF CursorPages
<1>3. Rest(cursor) \subseteq roster /\ items \in SUBSET Keys
  BY <1>0, <1>2 DEF Rest
<1>4. \A r \in steady[w] : r \in listing[w].items \/ r \in Rest(cursor)
  BY DEF Reads, Reader, Covered
<1>5. CASE HasMore(rows, cursor) /\ pages < MaxPages
  <2>1. NextPage(w, next, items, pages)
    BY <1>1, <1>5
  <2>2. pages \in 0..MaxPages
    BY <1>0, <1>5
  (* What is left is what lies past the last row sent. *)
  <2>3. next \in Nat \cup {NoCursor} /\ \A q \in Rest(cursor) \ rows : q \in Rest(next)
    <3>1. CASE rows = {} /\ cursor = NoCursor
      <4>1. next = 0
        BY <3>1 DEF Continuation
      <4> QED BY <1>0, <1>3, <4>1 DEF Rest
    <3>2. CASE rows = {} /\ cursor # NoCursor
      <4>1. next = cursor
        BY <3>2 DEF Continuation
      <4> QED BY <1>0, <4>1
    <3>3. CASE rows # {}
      <4>1. next = CHOOSE r \in rows : \A q \in rows : q <= r
        BY <3>3 DEF Continuation
      <4>2. IsFiniteSet(rows) /\ rows \subseteq Nat
        BY <1>0, <1>2, <1>3, FS_Subset, PageAssumption
      <4>3. next \in rows
        <5>1. \E r \in rows : \A q \in rows : q <= r
          BY <3>3, <4>2, LastOf
        <5> HIDE DEF next
        <5> QED BY <4>1, <5>1
      <4>4. next \in Nat /\ next # NoCursor
        BY <4>2, <4>3, PageAssumption
      <4>5. \A q \in Rest(cursor) \ rows : q \in roster /\ q > next
        <5> HIDE DEF next
        <5> QED BY <1>0, <1>2, <1>3, <4>3, <4>4
      <4> HIDE DEF next
      <4> QED BY <4>4, <4>5 DEF Rest
    <3> QED BY <3>1, <3>2, <3>3
  <2>4. \A r \in steady[w] : r \in items \/ r \in Rest(next)
    <3> HIDE DEF next
    <3> QED BY <1>4, <2>3
  <2> HIDE DEF next, items, pages
  <2> QED BY <1>3, <2>1, <2>2, <2>3, <2>4, NextPageReads
<1>6. CASE ~(HasMore(rows, cursor) /\ pages < MaxPages)
  <2>1. PICK more \in BOOLEAN : /\ more <=> HasMore(rows, cursor)
                                /\ EndJob(w, items, more, FALSE)
    <3>1. HasMore(rows, cursor) \in BOOLEAN
      BY DEF HasMore
    <3> QED BY <1>1, <1>6, <3>1
  <2>2. ~more => \A r \in steady[w] : r \in items
    BY <1>4, <2>1 DEF HasMore
  <2> HIDE DEF items
  <2> QED BY <1>3, <2>1, <2>2, EndJobReads
<1> QED BY <1>5, <1>6

(* A row added meanwhile moves the others away from the reader's position... *)
LEMMA AddRowReads == Reads /\ AddRow => Reads'
<1> SUFFICES ASSUME Reads, AddRow
             PROVE  Reads'
  OBVIOUS
<1>0. PICK r \in Keys \ roster : /\ edits < MaxEdits /\ edits' = edits + 1
                                 /\ roster' = roster \cup {r}
                                 /\ pc' = pc /\ UNCHANGED reading
  BY DEF AddRow, clocks
<1>1. ReadingTypeOK'
  <2>1. edits \in 0..MaxEdits /\ MaxEdits \in Nat
    BY PageAssumption DEF Reads, ReadingTypeOK
  <2>2. edits' \in 0..MaxEdits
    BY <1>0, <2>1
  <2> QED BY <1>0, <2>2 DEF Reads, ReadingTypeOK, reading
<1>2. ASSUME NEW x
      PROVE  Place(x) \in Nat /\ Place(x)' \in Nat /\ Place(x)' >= Place(x)
  <2>1. IsFiniteSet({q \in roster' : q <= x}) /\ Cardinality({q \in roster' : q <= x}) \in Nat
    <3>1. IsFiniteSet(roster') /\ {q \in roster' : q <= x} \in SUBSET roster'
      BY <1>1, FS_Subset, PageAssumption DEF ReadingTypeOK
    <3> QED BY <3>1, FS_Subset, FS_CardinalityType
  <2>2. {q \in roster : q <= x} \subseteq {q \in roster' : q <= x}
    BY <1>0
  <2>3. Cardinality({q \in roster : q <= x}) <= Cardinality({q \in roster' : q <= x})
    BY <2>1, <2>2, FS_Subset
  <2>4. Place(x) \in Nat
    BY PlaceIsANumber DEF Reads, ReadingTypeOK
  <2> QED BY <2>1, <2>3, <2>4 DEF Place
<1>3. \A c : Rest(c) \subseteq Rest(c)'
  BY <1>0 DEF Rest
<1>4. ASSUME NEW v \in Workers
      PROVE  Reader(v)'
  <2>0. Reader(v) /\ Untouched(v) /\ warnings' = warnings
    BY <1>0 DEF Reads, Untouched, reading
  <2>1. Underway(v)'
    BY <1>0, <2>0 DEF Reader, Underway, Untouched, Job
  <2>2. Complete(v)'
    BY <2>0 DEF Reader, Complete, Untouched
  <2>3. Covered(v)'
    <3> SUFFICES ASSUME pc[v] # "idle"
                 PROVE  Covered(v)'
      BY <2>0 DEF Untouched, Covered
    <3>1. /\ Job(v)' = Job(v) /\ steady'[v] = steady[v]
          /\ listing'[v] = listing[v] /\ shrunk'[v] = shrunk[v]
      BY <2>0 DEF Untouched, Job
    <3>2. Covered(v)
      BY <2>0 DEF Reader
    <3>3. Job(v) = "cursor" =>
            \A x \in steady[v] : x \in listing[v].items \/ x \in Rest(listing[v].next)'
      BY <1>3, <3>1, <3>2 DEF Covered
    <3>4. ASSUME Job(v) = "scim", ~shrunk[v], NEW x \in steady[v], x \notin listing[v].items
          PROVE  Place(x)' >= listing[v].next
      <4>1. listing[v].next \in Nat
        BY <2>0, <3>4 DEF Reader, Underway
      <4>2. Place(x) >= listing[v].next
        BY <3>2, <3>4 DEF Covered
      <4> QED BY <1>2, <4>1, <4>2
    <3> QED BY <3>1, <3>3, <3>4 DEF Covered
  <2> QED BY <2>1, <2>2, <2>3 DEF Reader
<1> QED BY <1>1, <1>4 DEF Reads

(* ... and a row removed is no longer owed to anyone. *)
LEMMA RemoveRowReads == Reads /\ RemoveRow => Reads'
<1> SUFFICES ASSUME Reads, RemoveRow
             PROVE  Reads'
  OBVIOUS
<1>0. PICK r \in roster :
        /\ edits < MaxEdits /\ edits' = edits + 1
        /\ roster' = roster \ {r}
        /\ steady' = [w \in Workers |-> IF Listing(w) THEN steady[w] \ {r} ELSE steady[w]]
        /\ shrunk' = [w \in Workers |-> shrunk[w] \/ Listing(w)]
        /\ pc' = pc /\ plan' = plan /\ listing' = listing /\ ended' = ended
        /\ warnings' = warnings
  BY DEF RemoveRow, clocks
<1>1. ReadingTypeOK'
  <2>1. edits \in 0..MaxEdits /\ MaxEdits \in Nat
    BY PageAssumption DEF Reads, ReadingTypeOK
  <2>2. edits' \in 0..MaxEdits
    BY <1>0, <2>1
  <2>3. steady' \in [Workers -> SUBSET Keys]
    BY <1>0 DEF Reads, ReadingTypeOK
  <2>4. shrunk' \in [Workers -> BOOLEAN]
    BY <1>0 DEF Reads, ReadingTypeOK
  <2> QED BY <1>0, <2>2, <2>3, <2>4 DEF Reads, ReadingTypeOK
<1>2. ASSUME NEW v \in Workers
      PROVE  Reader(v)'
  <2>0. Reader(v)
    BY DEF Reads
  <2>1. CASE pc[v] = "idle"
    <3>1. steady'[v] = steady[v]
      BY <1>0, <2>1 DEF Listing
    <3>2. shrunk'[v] <=> shrunk[v]
      BY <1>0, <2>1 DEF Listing
    <3> QED BY <1>0, <2>0, <2>1, <3>1, <3>2 DEF Reader, Underway, Covered, Complete
  <2>2. CASE pc[v] # "idle"
    <3>1. /\ steady'[v] = steady[v] \ {r} /\ steady[v] \subseteq roster /\ shrunk'[v]
          /\ Job(v)' = Job(v)
      BY <1>0, <2>0, <2>2 DEF Listing, Reader, Underway, Job
    <3>2. Underway(v)'
      BY <1>0, <2>0, <2>2, <3>1 DEF Reader, Underway
    <3>3. Complete(v)'
      BY <1>0, <2>2 DEF Complete
    <3>4. ASSUME Job(v) = "cursor", NEW x \in steady'[v], x \notin listing[v].items
          PROVE  x \in Rest(listing[v].next)'
      <4>1. x \in Rest(listing[v].next)
        BY <2>0, <2>2, <3>1, <3>4 DEF Reader, Covered
      <4> QED BY <1>0, <3>1, <4>1 DEF Rest
    <3>5. Covered(v)'
      BY <1>0, <3>1, <3>4 DEF Covered
    <3> QED BY <3>2, <3>3, <3>5 DEF Reader
  <2> QED BY <2>1, <2>2
<1> QED BY <1>1, <1>2 DEF Reads

LEMMA CallAnsweredReads ==
    ASSUME NEW w \in Workers, Reads, CallAnswered(w)
    PROVE  Reads'
<1>0. pc[w] # "idle" /\ UNCHANGED source
  BY DEF CallAnswered
<1>1. CASE PageArrived(w)
  <2>1. CASE Job(w) = "content" /\ ContentArrived(w)
    <3>1. Job(w) # "cursor" /\ Job(w) # "scim"
      BY <2>1
    <3> QED BY <1>0, <2>1, <3>1, EndJobReads DEF ContentArrived
  <2> QED BY <1>0, <1>1, <2>1, ScimPageReads, CursorPageReads DEF PageArrived
<1>2. CASE Throttled(w)
  BY <1>0, <1>2, ThrottledReads
<1>3. CASE Raise(w)
  BY <1>0, <1>3, RaiseReads
<1> QED BY <1>1, <1>2, <1>3 DEF CallAnswered

LEMMA MintAnsweredReads ==
    ASSUME NEW w \in Workers, Reads, MintAnswered(w)
    PROVE  Reads'
<1>0. pc[w] # "idle" /\ UNCHANGED source
  BY DEF MintAnswered
<1>1. CASE Minted(w) \/ MintThrottled(w)
  <2>1. PICK at \in States \ {"idle"} : pc' = [pc EXCEPT ![w] = at] /\ UNCHANGED reading
    BY <1>1 DEF Minted, MintThrottled, Send, Sleep, States, InFlight, Asleep
  <2>2. UNCHANGED <<reading, source>>
    BY <1>0, <2>1
  <2> QED BY <1>0, <2>1, <2>2, WaitingReads
<1>2. CASE MintGivesUp(w)
  BY <1>0, <1>2, ThrottledReads DEF MintGivesUp
<1>3. CASE MintRefused(w)
  BY <1>0, <1>3, RaiseReads DEF MintRefused
<1> QED BY <1>1, <1>2, <1>3 DEF MintAnswered

LEMMA ReadsStep == Reads /\ [Next]_vars => Reads'
<1> SUFFICES ASSUME Reads, [Next]_vars
             PROVE  Reads'
  OBVIOUS
<1>1. ASSUME NEW w \in Workers, Step(w)
      PROVE  Reads'
  <2>1. CASE Begin(w)
    BY <2>1, BeginReads
  <2>2. CASE TakeToken(w) \/ MintAgain(w) \/ Again(w)
    <3>1. PICK at \in States \ {"idle"} : pc' = [pc EXCEPT ![w] = at]
      BY <2>2 DEF TakeToken, UseToken, Send, MintAgain, Again, States, InFlight
    <3>2. pc[w] # "idle" /\ UNCHANGED <<reading, source>>
      BY <2>2 DEF TakeToken, UseToken, MintAgain, Again
    <3> QED BY <3>1, <3>2, WaitingReads
  <2>3. CASE MintAnswered(w)
    BY <2>3, MintAnsweredReads
  <2>4. CASE CallAnswered(w)
    BY <2>4, CallAnsweredReads
  <2> QED BY <1>1, <2>1, <2>2, <2>3, <2>4 DEF Step
<1>2. CASE Tick \/ UNCHANGED vars
  <2>1. pc' = pc /\ UNCHANGED <<reading, source>>
    BY <1>2 DEF Tick, vars, clocks
  <2>2. ReadingTypeOK'
    BY <2>1 DEF Reads, ReadingTypeOK, reading, source
  <2>3. ASSUME NEW v \in Workers
        PROVE  Reader(v)'
    <3>1. Untouched(v) /\ roster' = roster /\ warnings' = warnings /\ warnings \in Nat
      BY <2>1 DEF Untouched, reading, source, Reads, ReadingTypeOK
    <3>2. warnings' \in Nat /\ warnings' >= warnings
      BY <3>1
    <3> QED BY <3>1, <3>2, UntouchedReads
  <2> QED BY <2>2, <2>3 DEF Reads
<1> QED BY <1>1, <1>2, AddRowReads, RemoveRowReads DEF Next

(* --- what the calls promise -------------------------------------------------------- *)

(* The state has its types, and no call makes more than MaxAttempts tries: the
   loops of with_retry, one inside the other.                                  *)
THEOREM ApiIsTyped == Spec => []ApiTypeOK
<1>1. Timed /\ Reads => ApiTypeOK
  BY DEF Timed, Reads, ReadingTypeOK, ApiTypeOK
<1> QED BY <1>1, TimedInit, TimedStep, ReadsInit, ReadsStep, PTL DEF Spec

(* A listing reported without an error has every row that was there throughout,
   however its pages were cut and whatever was added meanwhile.               *)
THEOREM ListingsMissNothing == Spec => []ListingsAreComplete
<1>1. Reads => ListingsAreComplete
  BY DEF Reads, Reader, Complete, ListingsAreComplete
<1> QED BY <1>1, ReadsInit, ReadsStep, PTL DEF Spec
=============================================================================
