------------------------------ MODULE ApiCalls ------------------------------
(* The calls the tool makes: a client whose worker threads share one
   self-refreshing token, retry throttled calls, and page through listings that
   people change meanwhile.

   Time is discrete and only differences of times are kept: how long the cached
   token is still taken for fresh, how long the server still honours it, how long
   a call has been on its way, how long a thread still sleeps.

   The server is the environment: an answer is a success, a throttle (429 or 5xx),
   or anything the client does not retry (a 4xx, a lost connection, a Retry-After
   that is a date).  It honours the `count` a SCIM page asks for.

   Left out: the static token of the notebook, bodies, sizes and wording.      *)
EXTENDS Integers, FiniteSets, Sequences

CONSTANTS Workers,
          Plans,        \* what the threads may have to do: [Workers -> Seq(Jobs)]
          Keys,         \* rows of the listed collection, by their place in its order
          MaxAttempts,  \* with_retry's max_attempts
          MaxSleep,     \* with_retry's max_sleep
          RetryAfters,  \* what a throttle's Retry-After may say; 0 for none
          Lifetime,     \* expires_in of a new token
          Skew,         \* _TOKEN_REFRESH_SKEW
          Floor,        \* the least time a token is kept
          Transit,      \* the longest a request and its answer take
          Count,        \* page size
          MaxPages,     \* get_paginated's max_pages
          MaxEdits,     \* bound: rows added or removed by others
          NoCursor

(* What the code relies on: an exchange takes at most half the skew, and tokens
   live longer than the skew and the floor together.                          *)
ASSUME TimingAssumption ==
    /\ Lifetime \in Nat /\ Skew \in Nat /\ Transit \in Nat
    /\ Floor \in Nat \ {0}
    /\ 2 * Transit <= Skew
    /\ Lifetime >= Skew + Floor

ASSUME RetryAssumption ==
    /\ MaxAttempts \in Nat \ {0} /\ MaxSleep \in Nat /\ RetryAfters \subseteq Nat

ASSUME PageAssumption ==
    /\ Keys \subseteq Nat \ {0} /\ IsFiniteSet(Keys)
    /\ Count \in Nat \ {0} /\ MaxPages \in Nat \ {0} /\ MaxEdits \in Nat
    /\ NoCursor \notin Nat

VARIABLES
    cached,    \* [fresh, life]: time to _expires_at, and to the server's own expiry
    pc,        \* what each thread is doing
    timer,     \* on its way: time since it left; asleep: time still to sleep
    attempt,   \* with_retry around the call
    mints,     \* with_retry around the token request
    carried,   \* how long the server still honours the token in the call's header
    plan,      \* the jobs each thread still has
    listing,   \* the listing a thread is reading
    ended,     \* its last job: [kind, clean, items]
    warnings,  \* ApiClient.warnings, counted
    roster,    \* the collection on the server
    steady,    \* rows there since the listing began
    shrunk,    \* whether a row was removed since
    edits

clocks == <<cached, pc, timer, carried>>
reading == <<plan, listing, ended, warnings, steady, shrunk>>
source == <<roster, edits>>
vars == <<clocks, attempt, mints, reading, source>>

Jobs == {"content", "scim", "cursor"}

ASSUME PlansAssumption == Plans \subseteq [Workers -> Seq(Jobs)]

InFlight == {"mint", "sent"}
Asleep == {"mint_wait", "wait"}
HoldsLock == {"mint", "mint_wait"}

Larger(a, b) == IF a >= b THEN a ELSE b
Smaller(a, b) == IF a <= b THEN a ELSE b

NoListing == [next |-> 1, pages |-> 0, items |-> {}, warned |-> 0]
NoResult == [kind |-> "content", clean |-> FALSE, items |-> {}]

Init ==
    /\ cached = [fresh |-> 0, life |-> 0]
    /\ pc = [w \in Workers |-> "idle"]
    /\ timer = [w \in Workers |-> 0]
    /\ carried = [w \in Workers |-> 0]
    /\ attempt = [w \in Workers |-> 1]
    /\ mints = [w \in Workers |-> 1]
    /\ plan \in Plans
    /\ listing = [w \in Workers |-> NoListing]
    /\ ended = [w \in Workers |-> NoResult]
    /\ warnings = 0
    /\ roster \in SUBSET Keys
    /\ steady = [w \in Workers |-> {}]
    /\ shrunk = [w \in Workers |-> FALSE]
    /\ edits = 0

(* --- retries ---------------------------------------------------------------- *)

Backoff(n) == Smaller(2 ^ (n - 1), MaxSleep)

Wait(n, retryAfter) == Larger(Backoff(n), retryAfter)

Sleep(w, where, n) ==
    \E after \in RetryAfters :
        /\ pc' = [pc EXCEPT ![w] = where]
        /\ timer' = [timer EXCEPT ![w] = Wait(n, after)]

(* The next call starts anew. *)
CallOver(w) ==
    /\ timer' = [timer EXCEPT ![w] = 0]
    /\ attempt' = [attempt EXCEPT ![w] = 1]

(* --- jobs and their ends ------------------------------------------------------ *)

Job(w) == Head(plan[w])

Begin(w) ==
    /\ pc[w] = "idle" /\ plan[w] # <<>>
    /\ pc' = [pc EXCEPT ![w] = "token"]
    /\ listing' = [listing EXCEPT ![w] = 
                      [next |-> IF Job(w) = "cursor" THEN NoCursor ELSE 1,
                       pages |-> 0, items |-> {}, warned |-> warnings]]
    /\ ended' = [ended EXCEPT ![w] = NoResult]
    /\ steady' = [steady EXCEPT ![w] = roster]
    /\ shrunk' = [shrunk EXCEPT ![w] = FALSE]
    /\ UNCHANGED <<cached, timer, carried, attempt, mints, plan, warnings, source>>

(* A collector that raised, or during whose run the client warned, says so. *)
EndJob(w, items, warned, raised) ==
    /\ pc' = [pc EXCEPT ![w] = "idle"]
    /\ plan' = [plan EXCEPT ![w] = Tail(@)]
    /\ warnings' = warnings + (IF warned THEN 1 ELSE 0)
    /\ ended' = [ended EXCEPT ![w] =
                    [kind |-> Job(w), clean |-> ~raised /\ warnings' = listing[w].warned,
                     items |-> IF raised THEN {} ELSE items]]
    /\ listing' = [listing EXCEPT ![w] = NoListing]
    /\ UNCHANGED <<steady, shrunk>>

Raise(w) ==
    /\ EndJob(w, {}, FALSE, TRUE)
    /\ CallOver(w)

(* Defect: one try too many. *)
GivesUpLate(tries) == tries > MaxAttempts

GivesUp(tries) == tries = MaxAttempts

(* Defect: each try counts as the first. *)
ThrottledForever(w) ==
    Sleep(w, "wait", attempt[w]) /\ UNCHANGED <<attempt, reading>>

(* A throttled call sleeps and is made again with a new header, or gives up. *)
Throttled(w) ==
    IF GivesUp(attempt[w])
    THEN Raise(w)
    ELSE /\ attempt' = [attempt EXCEPT ![w] = @ + 1]
         /\ Sleep(w, "wait", attempt[w])
         /\ UNCHANGED reading

(* --- the token ---------------------------------------------------------------- *)

Send(w, life) ==
    /\ pc' = [pc EXCEPT ![w] = "sent"]
    /\ timer' = [timer EXCEPT ![w] = 0]
    /\ carried' = [carried EXCEPT ![w] = life]

Minting == \E v \in Workers : pc[v] \in HoldsLock

Due == cached.fresh = 0

UseToken(w) ==
    /\ pc[w] = "token"
    /\ IF Due
       THEN /\ pc' = [pc EXCEPT ![w] = "mint"]
            /\ timer' = [timer EXCEPT ![w] = 0]
            /\ UNCHANGED carried
       ELSE Send(w, cached.life)
    /\ UNCHANGED <<cached, attempt, mints, reading, source>>

(* Under the provider's lock: the cached token, or a request for a new one. *)
TakeToken(w) == ~Minting /\ UseToken(w)

(* Defect: no skew. *)
FreshToTheEnd(expiresIn) == Larger(expiresIn, Floor)

Fresh(expiresIn) == Larger(expiresIn - Skew, Floor)

(* The token may be as old as its request when the answer comes. *)
Minted(w) ==
    \E age \in 0..timer[w] :
        /\ cached' = [fresh |-> Fresh(Lifetime), life |-> Lifetime - age]
        /\ Send(w, Lifetime - age)
        /\ mints' = [mints EXCEPT ![w] = 1]
        /\ UNCHANGED <<attempt, reading>>

MintThrottled(w) ==
    /\ ~GivesUp(mints[w])
    /\ mints' = [mints EXCEPT ![w] = @ + 1]
    /\ Sleep(w, "mint_wait", mints[w])
    /\ UNCHANGED <<cached, carried, attempt, reading>>

(* The lock is let go; the error is one the call's own with_retry retries. *)
MintGivesUp(w) ==
    /\ GivesUp(mints[w])
    /\ mints' = [mints EXCEPT ![w] = 1]
    /\ Throttled(w)
    /\ UNCHANGED <<cached, carried>>

MintRefused(w) ==
    /\ mints' = [mints EXCEPT ![w] = 1]
    /\ Raise(w)
    /\ UNCHANGED <<cached, carried>>

MintAnswered(w) ==
    /\ pc[w] = "mint"
    /\ Minted(w) \/ MintThrottled(w) \/ MintGivesUp(w) \/ MintRefused(w)
    /\ UNCHANGED source

(* The lock is held through the sleep. *)
MintAgain(w) ==
    /\ pc[w] = "mint_wait" /\ timer[w] = 0
    /\ pc' = [pc EXCEPT ![w] = "mint"]
    /\ UNCHANGED <<cached, timer, carried, attempt, mints, reading, source>>

(* --- pages -------------------------------------------------------------------- *)

Place(r) == Cardinality({q \in roster : q <= r})

NextPage(w, next, items, pages) ==
    /\ listing' = [listing EXCEPT ![w].next = next, ![w].items = items,
                                  ![w].pages = pages]
    /\ pc' = [pc EXCEPT ![w] = "token"]
    /\ UNCHANGED <<plan, ended, warnings, steady, shrunk>>

ScimRows(start) == {r \in roster : Place(r) \in start..(start + Count - 1)}

(* Defect: a full last page is not counted in. *)
LastScimPageEarly(start, rows) == rows = {} \/ start + Count >= Cardinality(roster)

(* The total is read anew with every page. *)
LastScimPage(start, rows) == rows = {} \/ start + Count - 1 >= Cardinality(roster)

ScimPage(w) ==
    LET start == listing[w].next
        rows == ScimRows(start)
        items == listing[w].items \cup rows
    IN IF LastScimPage(start, rows)
       THEN EndJob(w, items, FALSE, FALSE)
       ELSE NextPage(w, start + Count, items, 0)

Rest(cursor) == {r \in roster : cursor = NoCursor \/ r > cursor}

(* The server may cut a page short, or send none of the rows, and give a cursor. *)
CursorPages(cursor) ==
    {rows \in SUBSET Rest(cursor) :
        /\ Cardinality(rows) <= Count
        /\ \A r \in rows, q \in Rest(cursor) \ rows : r < q}

Continuation(cursor, rows) ==
    IF rows = {} THEN (IF cursor = NoCursor THEN 0 ELSE cursor)
    ELSE CHOOSE r \in rows : \A q \in rows : q <= r

(* Defect: an empty page is taken for the end. *)
HasMoreRows(rows, cursor) == rows # {} /\ Rest(cursor) # rows

(* Whether the reader goes on: on the cursor alone. *)
HasMore(rows, cursor) == Rest(cursor) # rows

CursorPage(w) ==
    \E rows \in CursorPages(listing[w].next) :
        LET items == listing[w].items \cup rows
            pages == listing[w].pages + 1
            more == HasMore(rows, listing[w].next)
        IN IF more /\ pages < MaxPages
           THEN NextPage(w, Continuation(listing[w].next, rows), items, pages)
           ELSE EndJob(w, items, more, FALSE)

ContentArrived(w) == EndJob(w, {}, FALSE, FALSE)

PageArrived(w) ==
    \/ Job(w) = "scim" /\ ScimPage(w)
    \/ Job(w) = "cursor" /\ CursorPage(w)
    \/ Job(w) = "content" /\ ContentArrived(w)

(* --- calls -------------------------------------------------------------------- *)

(* The server refuses an expired token with a 401, which is not retried. *)
CallAnswered(w) ==
    /\ pc[w] = "sent"
    /\ \/ carried[w] > 0 /\ PageArrived(w) /\ CallOver(w)
       \/ Throttled(w)
       \/ Raise(w)
    /\ carried' = [carried EXCEPT ![w] = 0]
    /\ UNCHANGED <<cached, mints, source>>

Again(w) ==
    /\ pc[w] = "wait" /\ timer[w] = 0
    /\ pc' = [pc EXCEPT ![w] = "token"]
    /\ UNCHANGED <<cached, timer, carried, attempt, mints, reading, source>>

Step(w) ==
    \/ Begin(w) \/ TakeToken(w) \/ MintAnswered(w) \/ MintAgain(w)
    \/ CallAnswered(w) \/ Again(w)

(* --- time and other people ------------------------------------------------------ *)

Less(n) == IF n = 0 THEN 0 ELSE n - 1

(* An exchange is over within Transit; a sleeper may oversleep. *)
Tick ==
    /\ \A w \in Workers : pc[w] \in InFlight => timer[w] < Transit
    /\ cached' = [fresh |-> Less(cached.fresh), life |-> Less(cached.life)]
    /\ carried' = [w \in Workers |-> Less(carried[w])]
    /\ timer' = [w \in Workers |-> IF pc[w] \in InFlight THEN timer[w] + 1 ELSE Less(timer[w])]
    /\ UNCHANGED <<pc, attempt, mints, reading, source>>

Listing(w) == pc[w] # "idle"

AddRow ==
    \E r \in Keys \ roster :
        /\ edits < MaxEdits /\ edits' = edits + 1
        /\ roster' = roster \cup {r}
        /\ UNCHANGED <<clocks, attempt, mints, reading>>

RemoveRow ==
    \E r \in roster :
        /\ edits < MaxEdits /\ edits' = edits + 1
        /\ roster' = roster \ {r}
        /\ steady' = [w \in Workers |-> IF Listing(w) THEN steady[w] \ {r} ELSE steady[w]]
        /\ shrunk' = [w \in Workers |-> shrunk[w] \/ Listing(w)]
        /\ UNCHANGED <<clocks, attempt, mints, plan, listing, ended, warnings>>

Next == (\E w \in Workers : Step(w)) \/ Tick \/ AddRow \/ RemoveRow

(* Threads are scheduled, requests are answered or time out, and time passes. *)
Spec == Init /\ [][Next]_vars /\ WF_vars(Tick) /\ \A w \in Workers : WF_vars(Step(w))

(* --- properties ----------------------------------------------------------------- *)

States == {"idle", "token"} \cup InFlight \cup Asleep

ClocksTypeOK ==
    /\ cached \in [fresh : Nat, life : Nat]
    /\ pc \in [Workers -> States]
    /\ timer \in [Workers -> Nat]
    /\ carried \in [Workers -> Nat]

CountsTypeOK ==
    /\ attempt \in [Workers -> 1..MaxAttempts]
    /\ mints \in [Workers -> 1..MaxAttempts]

(* Types, and the bounds on tries: a call makes at most MaxAttempts tries, each
   with at most MaxAttempts requests for a token.                             *)
ApiTypeOK ==
    /\ ClocksTypeOK
    /\ CountsTypeOK
    /\ plan \in [Workers -> Seq(Jobs)]
    /\ listing \in [Workers -> [next : Nat \cup {NoCursor}, pages : 0..MaxPages,
                                items : SUBSET Keys, warned : Nat]]
    /\ ended \in [Workers -> [kind : Jobs, clean : BOOLEAN, items : SUBSET Keys]]
    /\ warnings \in Nat
    /\ roster \subseteq Keys /\ edits \in 0..MaxEdits
    /\ steady \in [Workers -> SUBSET Keys] /\ shrunk \in [Workers -> BOOLEAN]

(* No call reaches the server with a token that has expired, however long the
   thread waited for the lock, slept between tries or was on its way: "so a long
   phase can't have a call fail on a token that aged out mid-flight".         *)
NoCallCarriesAnExpiredToken ==
    \A w \in Workers : pc[w] = "sent" => carried[w] > 0

(* Threads that find the token due together cost one new token between them: no
   token is requested while the cached one is fresh, and no two at a time.    *)
OneMintPerExpiry ==
    \A w \in Workers : pc[w] \in HoldsLock =>
        Due /\ \A v \in Workers \ {w} : pc[v] \notin HoldsLock

(* A listing reported without an error holds every row that was there from its
   first page to its last.  A SCIM listing is by position: a row removed meanwhile
   moves the others, so that case is excepted.                                *)
ListingsAreComplete ==
    \A w \in Workers :
        /\ pc[w] = "idle" /\ ended[w].clean
        /\ ended[w].kind = "cursor" \/ (ended[w].kind = "scim" /\ ~shrunk[w])
        => steady[w] \subseteq ended[w].items

(* Every job of every thread ends, with an answer or an error. *)
EveryJobEnds == <>(\A w \in Workers : pc[w] = "idle" /\ plan[w] = <<>>)
=============================================================================
