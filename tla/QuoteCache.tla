----------------------------- MODULE QuoteCache -----------------------------
(***************************************************************************)
(* MarketDataService.get_quote (app/data/service.py) behind its TTLCache   *)
(* (app/core/cache.py), with the persisted quotes of                       *)
(* app/data/quote_store.py.                                                *)
(*                                                                         *)
(* The callers are coroutines of one event loop: the monitor, the push     *)
(* loops of the web sockets and the quote routes.  They give up the loop   *)
(* while they wait for the cache's lock, which is one for all symbols and  *)
(* first come first served, and while an adapter is being asked.           *)
(*                                                                         *)
(* A quote is the time it was asked for.  `answered`, `joined`, `served`   *)
(* and `lost` are read by the properties only.                             *)
(***************************************************************************)
EXTENDS Integers, Sequences, FiniteSets, SequencesExt

CONSTANTS
    Callers,
    Keys,          \* normalized symbols
    Adapters,      \* how many adapters the chain has
    Ttl,           \* quote_cache_ttl, in ticks of `clock`
    MaxSize,       \* the cache's maxsize
    MayLosePersist,\* TRUE: upsert may fail, and so may get; both swallow it
    MaxTime        \* bound: the clock

ASSUME CacheConstants ==
    /\ Adapters \in Nat \ {0}      \* "requires at least one adapter"
    /\ Ttl \in Nat
    /\ MaxSize \in Nat \ {0}
    /\ MayLosePersist \in BOOLEAN
    /\ MaxTime \in Nat

NoQuote == -1      \* None
Never   == -1

VARIABLES
    clock,     \* time.monotonic()
    store,     \* TTLCache._store: a function on some of the keys
    saved,     \* table quotes_cache
    task,      \* each caller: idle, waiting for the lock, or fetching
    queue,     \* TTLCache._lock's waiters
    answered,  \* per key, when an adapter last answered with the quote that
               \* is in the cache; Never once it was evicted
    joined,    \* waiting callers whose symbol was fetched while they waited
    served,    \* per key, the last quote get_quote returned
    lost       \* keys whose last upsert failed

aux  == <<answered, joined, served, lost>>
cacheVars == <<clock, store, saved, task, queue, aux>>

Times  == 0..MaxTime
Quotes == Times \cup {NoQuote}

(* A fetching caller is asking adapter number `tried` since `asked`. *)
Idle           == [at |-> "idle"]
Waiting(k)     == [at |-> "wait", key |-> k]
Fetching(k, n) == [at |-> "fetch", key |-> k, tried |-> n, asked |-> clock]

(***************************************************************************)
(* TTLCache.                                                               *)
(***************************************************************************)

(* get: an entry lives up to and including its expiry, and a cached None   *)
(* cannot be told from no entry.                                           *)
Fresh(k) ==
    /\ k \in DOMAIN store
    /\ store[k].expires >= clock
    /\ store[k].quote # NoQuote

Without(s, k) == [j \in DOMAIN s \ {k} |-> s[j]]

(* get also pops an entry it finds expired. *)
Popped(k) ==
    IF k \in DOMAIN store /\ store[k].expires < clock THEN Without(store, k) ELSE store

(* Mutant: room is made one entry too late. *)
MadeRoom_Late(s) ==
    IF Cardinality(DOMAIN s) > MaxSize
      THEN {Without(s, k) : k \in {o \in DOMAIN s :
                \A j \in DOMAIN s : s[o].expires <= s[j].expires}}
      ELSE {s}

(* set makes room by the size alone, be the key in the cache or not. *)
MadeRoom(s) ==
    IF Cardinality(DOMAIN s) >= MaxSize
      THEN {Without(s, k) : k \in {o \in DOMAIN s :
                \A j \in DOMAIN s : s[o].expires <= s[j].expires}}
      ELSE {s}

Put(s, k, quote) ==
    [j \in DOMAIN s \cup {k} |->
        IF j = k THEN [expires |-> clock + Ttl, quote |-> quote] ELSE s[j]]

Set(k, quote) == store' \in {Put(s, k, quote) : s \in MadeRoom(store)}

LockHeld == \E c \in Callers : task[c].at = "fetch"

(***************************************************************************)
(* get_quote.                                                              *)
(***************************************************************************)

Become(c, t) == task' = [task EXCEPT ![c] = t]

Return(c, k, quote) ==
    /\ Become(c, Idle)
    /\ served' = [served EXCEPT ![k] = IF quote = NoQuote THEN @ ELSE quote]

(* The first look into the cache takes no lock. *)
CallHit(c, k) ==
    /\ task[c] = Idle
    /\ Fresh(k)
    /\ Return(c, k, store[k].quote)
    /\ UNCHANGED <<clock, store, saved, queue, answered, joined, lost>>

(* Mutant: the last caller to wait is the first to be served. *)
CallMiss_Lifo(c, k) ==
    /\ task[c] = Idle
    /\ ~Fresh(k)
    /\ store' = Popped(k)
    /\ \/ /\ LockHeld \/ queue # <<>>
          /\ Become(c, Waiting(k))
          /\ queue' = <<c>> \o queue
       \/ /\ ~LockHeld /\ queue = <<>>
          /\ Become(c, Fetching(k, 1))
          /\ UNCHANGED queue
    /\ UNCHANGED <<clock, saved, aux>>

(* A free lock without waiters is taken at once, and nothing can have      *)
(* changed when the cache is looked at again.                              *)
CallMiss(c, k) ==
    /\ task[c] = Idle
    /\ ~Fresh(k)
    /\ store' = Popped(k)
    /\ \/ /\ LockHeld \/ queue # <<>>
          /\ Become(c, Waiting(k))
          /\ queue' = Append(queue, c)
       \/ /\ ~LockHeld /\ queue = <<>>
          /\ Become(c, Fetching(k, 1))
          /\ UNCHANGED queue
    /\ UNCHANGED <<clock, saved, aux>>

(* Mutant: the cache is not looked at again under the lock. *)
Wake_Blind(c) ==
    /\ ~LockHeld
    /\ queue # <<>> /\ c = Head(queue)
    /\ queue' = Tail(queue)
    /\ joined' = joined \ {c}
    /\ Become(c, Fetching(task[c].key, 1))
    /\ UNCHANGED <<clock, store, saved, answered, served, lost>>

(* The lock is free and the first waiter runs: it looks again. *)
Wake(c) ==
    /\ ~LockHeld
    /\ queue # <<>> /\ c = Head(queue)
    /\ queue' = Tail(queue)
    /\ joined' = joined \ {c}
    /\ LET k == task[c].key
       IN  /\ store' = Popped(k)
           /\ \/ Fresh(k) /\ Return(c, k, store[k].quote)
              \/ ~Fresh(k) /\ Become(c, Fetching(k, 1)) /\ UNCHANGED served
    /\ UNCHANGED <<clock, saved, answered, lost>>

(* The end of the fetch: the value goes to the cache, None too, and to the *)
(* caller, and the lock is released.                                       *)
Finish(c, quote) ==
    LET k == task[c].key
    IN  /\ Set(k, quote)
        /\ Return(c, k, quote)
        /\ joined' = joined \cup {d \in Callers : task[d] = Waiting(k)}

Evicted == [k \in Keys |-> IF k \in DOMAIN store' THEN answered[k] ELSE Never]

(* Mutant: the upsert keeps the row that is there. *)
AdapterAnswers_KeepsRow(c) ==
    /\ task[c].at = "fetch"
    /\ LET k == task[c].key
           quote == task[c].asked
       IN  /\ Finish(c, quote)
           /\ answered' = [Evicted EXCEPT ![k] = clock]
           /\ saved' = [saved EXCEPT ![k] = IF @ = NoQuote THEN quote ELSE @]
           /\ lost' = lost \ {k}
    /\ UNCHANGED <<clock, queue>>

AdapterAnswers(c) ==
    /\ task[c].at = "fetch"
    /\ LET k == task[c].key
           quote == task[c].asked
       IN  /\ Finish(c, quote)
           /\ answered' = [Evicted EXCEPT ![k] = clock]
           /\ \/ saved' = [saved EXCEPT ![k] = quote] /\ lost' = lost \ {k}
              \/ MayLosePersist /\ lost' = lost \cup {k} /\ UNCHANGED saved
    /\ UNCHANGED <<clock, queue>>

(* An adapter that has no quote is followed by the next one ...            *)
NextAdapter(c) ==
    /\ task[c].at = "fetch"
    /\ task[c].tried < Adapters
    /\ Become(c, Fetching(task[c].key, task[c].tried + 1))
    /\ UNCHANGED <<clock, store, saved, queue, aux>>

(* ... and the last one by the persisted quote.                            *)
FallBack(c) ==
    /\ task[c].at = "fetch"
    /\ task[c].tried = Adapters
    /\ \/ Finish(c, saved[task[c].key])
       \/ MayLosePersist /\ Finish(c, NoQuote)
    /\ answered' = Evicted
    /\ UNCHANGED <<clock, saved, queue, lost>>

(* A waiter that is cancelled leaves the lock's queue. *)
Left(c) == RemoveAt(queue, CHOOSE i \in 1..Len(queue) : queue[i] = c)

(* The task of the caller is cancelled at its await (ws.py cancels the     *)
(* push loop of a closed connection): async with releases the lock.        *)
Cancel(c) ==
    /\ task[c] # Idle
    /\ Become(c, Idle)
    /\ queue' = IF task[c].at = "wait" THEN Left(c) ELSE queue
    /\ joined' = joined \ {c}
    /\ UNCHANGED <<clock, store, saved, answered, served, lost>>

Advance ==
    /\ clock < MaxTime
    /\ clock' = clock + 1
    /\ UNCHANGED <<store, saved, task, queue, aux>>

(***************************************************************************)
(* The specification.                                                      *)
(***************************************************************************)

CacheInit ==
    /\ clock = 0
    /\ store = [k \in {} |-> NoQuote]
    /\ saved = [k \in Keys |-> NoQuote]
    /\ task = [c \in Callers |-> Idle]
    /\ queue = <<>>
    /\ answered = [k \in Keys |-> Never]
    /\ joined = {}
    /\ served = [k \in Keys |-> NoQuote]
    /\ lost = {}

(* The steps a caller takes once the event loop runs it again. *)
Proceed(c) == Wake(c) \/ AdapterAnswers(c) \/ NextAdapter(c) \/ FallBack(c)

CacheNext ==
    \/ \E c \in Callers :
         \/ \E k \in Keys : CallHit(c, k) \/ CallMiss(c, k)
         \/ Proceed(c)
         \/ Cancel(c)
    \/ Advance

CacheSpec == CacheInit /\ [][CacheNext]_cacheVars

(* The event loop runs every coroutine that is ready, and every adapter    *)
(* answers or gives up (httpx has a timeout of 10 s, yfinance runs in a    *)
(* thread and its exceptions are caught).                                  *)
CacheFairness == \A c \in Callers : WF_cacheVars(Proceed(c))

CacheLiveSpec == CacheSpec /\ CacheFairness

(***************************************************************************)
(* Properties.                                                             *)
(***************************************************************************)

(* Every variable holds what its declaration says. *)
CacheTypeOK ==
    /\ clock \in Times
    /\ DOMAIN store \subseteq Keys
    /\ \A k \in DOMAIN store : store[k] \in [expires : 0..(MaxTime + Ttl), quote : Quotes]
    /\ saved \in [Keys -> Quotes]
    /\ DOMAIN task = Callers
    /\ \A c \in Callers :
         \/ task[c] = Idle
         \/ \E k \in Keys : task[c] = Waiting(k)
         \/ task[c] \in [at : {"fetch"}, key : Keys, tried : 1..Adapters, asked : Times]
    /\ queue \in Seq(Callers)
    /\ answered \in [Keys -> Times \cup {Never}]
    /\ joined \subseteq Callers
    /\ served \in [Keys -> Quotes]
    /\ lost \subseteq Keys

Starts(c) == task[c].at # "fetch" /\ task'[c].at = "fetch"

(* Once an adapter has answered for a symbol, no adapter is asked for that *)
(* symbol again before the ttl is over, unless the quote had to make room  *)
(* for another: however the callers interleave and whoever is cancelled.   *)
(* It is what keeps the engine within the rate limits of the free tiers.   *)
RateLimited ==
    [][\A c \in Callers : Starts(c) =>
         \/ answered[task'[c].key] = Never
         \/ clock - answered[task'[c].key] > Ttl]_cacheVars

(* The cache never outgrows its maxsize, whatever is set and expires. *)
SizeBounded == Cardinality(DOMAIN store) <= MaxSize

(* The quotes returned for a symbol never go back in time, whichever       *)
(* adapters fail in between and whatever was evicted: the fallback is the  *)
(* quote last answered, unless its upsert was lost.                        *)
NeverGoesBack == [][\A k \in Keys : k \notin lost => served'[k] >= served[k]]_cacheVars

(* A caller whose symbol was fetched while it waited does not fetch it     *)
(* again: concurrent requests for one symbol coalesce.                     *)
Coalesced == [][\A c \in joined : ~Starts(c)]_cacheVars

(* A call returns, unless it is cancelled: neither the lock nor the queue  *)
(* keeps a caller for ever, whatever becomes of the callers before it.     *)
EveryCallReturns == \A c \in Callers : task[c] # Idle ~> task[c] = Idle

(* At most one caller fetches, and whoever waits is in the queue, once. *)
LockSound ==
    /\ \A c, d \in Callers : task[c].at = "fetch" /\ task[d].at = "fetch" => c = d
    /\ \A i \in 1..Len(queue) : task[queue[i]].at = "wait"
    /\ \A i, j \in 1..Len(queue) : queue[i] = queue[j] => i = j
    /\ \A c \in Callers : task[c].at = "wait" => \E i \in 1..Len(queue) : queue[i] = c

Spent(k) == answered[k] = Never \/ clock > answered[k] + Ttl

(* An answer whose ttl runs is in the cache, and nobody fetches that symbol. *)
AnswersKept ==
    /\ \A k \in Keys :
         \/ Spent(k)
         \/ k \in DOMAIN store /\ store[k].quote # NoQuote /\ store[k].expires >= answered[k] + Ttl
    /\ \A c \in Callers : task[c].at = "fetch" => Spent(task[c].key)

(* What was returned is no newer than what is cached, saved or fetched. *)
QuotesOrdered ==
    /\ \A k \in Keys : saved[k] <= clock /\ served[k] <= clock
    /\ \A k \in DOMAIN store : store[k].quote <= clock
    /\ \A c \in Callers : task[c].at = "fetch" =>
         LET k == task[c].key
         IN  /\ served[k] <= task[c].asked /\ saved[k] <= task[c].asked /\ task[c].asked <= clock
             /\ k \in DOMAIN store => store[k].quote <= task[c].asked
    /\ \A k \in Keys \ lost :
         /\ served[k] <= saved[k]
         /\ k \in DOMAIN store /\ store[k].quote # NoQuote =>
              served[k] <= store[k].quote /\ store[k].quote <= saved[k]

(* The cache is bounded, its lock is exclusive, an answer stays for its ttl, *)
(* and quotes are ordered by the time they were asked for: the inductive     *)
(* invariant behind RateLimited and NeverGoesBack.                           *)
CacheSound ==
    /\ CacheTypeOK
    /\ SizeBounded
    /\ LockSound
    /\ AnswersKept
    /\ QuotesOrdered
=============================================================================
