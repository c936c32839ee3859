---------------------------- MODULE WatchlistSync ----------------------------
(***************************************************************************)
(* The watchlists: the renderer's store (store/useWatchlistStore.ts), its  *)
(* requests, and the engine's tables (app/watchlists/service.py).          *)
(*                                                                         *)
(* The store changes at once and is reconciled with the response.  Each    *)
(* call is a chain of promises that nothing orders against the others: the *)
(* requests run in worker threads of the engine, which read a list in one  *)
(* statement and write it in a later one (SQLite locks writers only), and  *)
(* the responses arrive in any order.                                      *)
(*                                                                         *)
(* Names are left out: a rename matters for the symbols its response       *)
(* carries.  So is activeSymbol, on which nothing else depends.            *)
(* `alone` and `suspect` are read by the properties only.                  *)
(***************************************************************************)
EXTENDS Integers, Sequences, FiniteSets, Lists

CONSTANTS
    Symbols,
    Seed,       \* DEFAULT_SYMBOLS
    MayFail,    \* TRUE: a request may fail on its way, in the engine, or back
    Calls,      \* bound: the promise chains that can be under way
    MaxId,      \* bound: the largest list id
    MaxPos,     \* bound: the largest position of an item
    MaxReady,   \* bound: how often the engine's status turns to "ready"
    MaxOps      \* bound: calls of the store's operations

ASSUME WatchlistConstants ==
    /\ Seed \in Seq(Symbols)
    /\ \A i, j \in DOMAIN Seed : Seed[i] = Seed[j] => i = j
    /\ MayFail \in BOOLEAN
    /\ MaxId \in Nat \ {0} /\ MaxPos \in Nat
    /\ MaxReady \in Nat /\ MaxOps \in Nat

VARIABLES
    items,      \* the tables: per existing list, the positions of its symbols
    lists,      \* watchlists, as records of id and symbols
    active,     \* activeWatchlistId
    symbols,    \* the derived view of the active list
    loaded,
    chain,      \* per call, where its chain of promises stands
    suspect,    \* calls have overlapped or failed since the last quiet load
    readies,    \* times the status has turned to "ready" before the first load
                \* was done
    ops         \* calls made so far

store == <<lists, active, symbols, loaded>>
vars  == <<items, store, chain, suspect, readies, ops>>

None == 0       \* null; ids start at 1
Ids  == 1..MaxId
Idle == [at |-> "idle"]

Busy == {c \in Calls : chain[c] # Idle}

(***************************************************************************)
(* The engine.                                                             *)
(***************************************************************************)

(* _to_schema: ORDER BY position leaves the order of equal positions open. *)
ToSchema(positions) ==
    {s \in [1..Cardinality(DOMAIN positions) -> DOMAIN positions] :
        \A i, j \in DOMAIN s : i < j =>
            s[i] # s[j] /\ positions[s[i]] <= positions[s[j]]}

(* list(): in order of position, which is the order of the ids. *)
AllLists ==
    {l \in [1..Cardinality(DOMAIN items) -> [id : DOMAIN items,
                symbols : UNION {ToSchema(items[i]) : i \in DOMAIN items}]] :
        /\ \A i \in DOMAIN l : l[i].symbols \in ToSchema(items[l[i].id])
        /\ \A i, j \in DOMAIN l : i < j => l[i].id < l[j].id}

(* Mutant: the position is left at the default of its column. *)
NextPos_Default(positions) == 0

NextPos(positions) ==
    IF DOMAIN positions = {} THEN 0
    ELSE 1 + CHOOSE p \in {positions[s] : s \in DOMAIN positions} :
                \A s \in DOMAIN positions : positions[s] <= p

With(positions, sym, p) ==
    [s \in DOMAIN positions \cup {sym} |-> IF s = sym THEN p ELSE positions[s]]

Without(positions, sym) == [s \in DOMAIN positions \ {sym} |-> positions[s]]

PlaceOf(order, s) == CHOOSE i \in DOMAIN order : order[i] = s

(* The symbols that are not in `order` keep their positions. *)
Reordered(positions, order) ==
    [s \in DOMAIN positions |->
        IF \E i \in DOMAIN order : order[i] = s THEN PlaceOf(order, s) - 1
        ELSE positions[s]]

(* A response carries all the lists, or the one the request is about. *)
Reply(c, ls) == [chain[c] EXCEPT !.at = "replied", !.reply = ls]
Failed(c)    == [chain[c] EXCEPT !.at = "failed"]

(* GET / and POST / are one statement as far as the lists go. *)
ListAll(c) ==
    /\ chain[c].at = "sent" /\ chain[c].kind = "load"
    /\ \E all \in AllLists : chain' = [chain EXCEPT ![c] = Reply(c, all)]
    /\ UNCHANGED <<items, store, suspect, readies, ops>>

(* SQLite gives the smallest id above those in the table. *)
Create(c) ==
    /\ chain[c].at = "sent" /\ chain[c].kind = "create"
    /\ \E id \in Ids :
         /\ id = 1 \/ id - 1 \in DOMAIN items
         /\ \A i \in DOMAIN items : i < id
         /\ items' = [i \in DOMAIN items \cup {id} |->
                        IF i = id THEN [s \in {} |-> 0] ELSE items[i]]
         /\ chain' = [chain EXCEPT ![c] = Reply(c, <<[id |-> id, symbols |-> <<>>]>>)]
    /\ UNCHANGED <<store, suspect, readies, ops>>

(* s.get(WatchlistRow, id) and row.items; a list that is gone is a 404. *)
ReadList(c) ==
    /\ chain[c].at = "sent" /\ chain[c].kind \notin {"load", "create"}
    /\ chain' = [chain EXCEPT ![c] =
                   IF chain[c].list \in DOMAIN items
                     THEN [chain[c] EXCEPT !.at = "read", !.seen = items[chain[c].list]]
                     ELSE Failed(c)]
    /\ UNCHANGED <<items, store, suspect, readies, ops>>

(* The write of a request, over what it has read: `new` is the list as the *)
(* thread sees it, which is what the response shows.                       *)
Writes(c, new, ok, table) ==
    /\ \/ /\ ok
          /\ \E s \in ToSchema(new) :
               chain' = [chain EXCEPT ![c] = Reply(c, <<[id |-> chain[c].list, symbols |-> s]>>)]
          /\ items' = table
       \/ /\ ~ok
          /\ chain' = [chain EXCEPT ![c] = Failed(c)]
          /\ UNCHANGED items
    /\ UNCHANGED <<store, suspect, readies, ops>>

Reading(c, kind) == chain[c].at = "read" /\ chain[c].kind = kind

InTable(id) == IF id \in DOMAIN items THEN items[id] ELSE [s \in {} |-> 0]

(* The INSERT violates uq_watchlist_symbol, or the foreign key, when       *)
(* another thread got there first.                                         *)
AddItem(c) ==
    LET id  == chain[c].list
        sym == chain[c].arg[1]
        p   == NextPos(chain[c].seen)
    IN  /\ Reading(c, "add")
        /\ IF sym \in DOMAIN chain[c].seen
             THEN Writes(c, chain[c].seen, TRUE, items)
             ELSE Writes(c, With(chain[c].seen, sym, p),
                         id \in DOMAIN items /\ sym \notin DOMAIN InTable(id),
                         [items EXCEPT ![id] = With(@, sym, p)])

(* A DELETE of a row that is gone is only warned about. *)
RemoveItem(c) ==
    LET id  == chain[c].list
        sym == chain[c].arg[1]
    IN  /\ Reading(c, "remove")
        /\ Writes(c, Without(chain[c].seen, sym), TRUE,
                  IF sym \in DOMAIN chain[c].seen
                    THEN [i \in DOMAIN items |->
                            IF i = id THEN Without(items[i], sym) ELSE items[i]]
                    ELSE items)

(* An UPDATE of an item that is gone raises StaleDataError; an item whose  *)
(* position is what it was is not updated.                                 *)
ReorderItems(c) ==
    LET id    == chain[c].list
        new   == Reordered(chain[c].seen, chain[c].arg)
        dirty == {s \in DOMAIN new : new[s] # chain[c].seen[s]}
    IN  /\ Reading(c, "reorder")
        /\ Writes(c, new, dirty \subseteq DOMAIN InTable(id),
                  [i \in DOMAIN items |->
                     IF i = id
                       THEN [s \in DOMAIN items[i] |-> IF s \in dirty THEN new[s] ELSE items[i][s]]
                       ELSE items[i]])

Rename(c) ==
    /\ Reading(c, "rename")
    /\ Writes(c, chain[c].seen, chain[c].list \in DOMAIN items, items)

(* The items go with their list. *)
DeleteList(c) ==
    /\ Reading(c, "delete")
    /\ Writes(c, chain[c].seen, TRUE, [i \in DOMAIN items \ {chain[c].list} |-> items[i]])

(* The engine is down, the database is locked, the response is lost. *)
Fail(c) ==
    /\ MayFail
    /\ chain[c].at \in {"sent", "read", "replied"}
    /\ chain' = [chain EXCEPT ![c] = Failed(c)]
    /\ UNCHANGED <<items, store, suspect, readies, ops>>

EngineStep ==
    \E c \in Calls :
       \/ ListAll(c) \/ Create(c) \/ ReadList(c)
       \/ AddItem(c) \/ RemoveItem(c) \/ ReorderItems(c) \/ Rename(c) \/ DeleteList(c)
       \/ Fail(c)

(***************************************************************************)
(* The store.                                                              *)
(***************************************************************************)

Has(ls, id) == \E i \in DOMAIN ls : ls[i].id = id

(* symbolsOf *)
SymbolsOf(ls, id) ==
    IF Has(ls, id)
      THEN ls[CHOOSE i \in DOMAIN ls :
                 ls[i].id = id /\ \A j \in 1..(i - 1) : ls[j].id # id].symbols
      ELSE <<>>

FirstId(ls) == IF ls = <<>> THEN None ELSE ls[1].id

(* A request goes out while others may be under way. *)
Call(c, kind, list, arg) ==
    LET others == Busy \ {c}
        req    == [at |-> "sent", kind |-> kind, list |-> list, arg |-> arg,
                   seen |-> <<>>, reply |-> <<>>, alone |-> others = {}]
    IN  /\ chain' = [d \in Calls |->
                       IF d = c THEN req
                       ELSE IF d \in others THEN [chain[d] EXCEPT !.alone = FALSE]
                       ELSE chain[d]]
        /\ suspect' = (suspect \/ others # {})

(* A call of the user's: a free chain, and the bound. *)
Begin(c, kind, list, arg) ==
    /\ chain[c] = Idle
    /\ ops < MaxOps
    /\ ops' = ops + 1
    /\ Call(c, kind, list, arg)
    /\ UNCHANGED items

(* The optimistic update of the active list. *)
Shown(new) ==
    /\ lists' = [i \in DOMAIN lists |->
                   IF lists[i].id = active
                     THEN [lists[i] EXCEPT !.symbols = new[i]] ELSE lists[i]]
    /\ symbols' = SymbolsOf(lists', active)
    /\ UNCHANGED <<active, loaded, readies>>

In(s, seq) == \E i \in DOMAIN seq : seq[i] = s

(* Bound: the positions the requests under way may still take. *)
RoomFor(id) == NextPos(InTable(id)) + Cardinality(Busy) <= MaxPos

Add(c, sym) ==
    /\ active # None
    /\ RoomFor(active)
    /\ Begin(c, "add", active, <<sym>>)
    /\ Shown([i \in DOMAIN lists |->
                IF In(sym, lists[i].symbols) THEN lists[i].symbols
                ELSE Append(lists[i].symbols, sym)])

Remove(c, sym) ==
    /\ active # None
    /\ Begin(c, "remove", active, <<sym>>)
    /\ Shown([i \in DOMAIN lists |-> Keep(lists[i].symbols, Symbols \ {sym})])

(* move: two neighbours change places in the view. *)
Swapped(i) == [symbols EXCEPT ![i] = symbols[i + 1], ![i + 1] = symbols[i]]

Reorder(c) ==
    /\ active # None
    /\ \E i \in 1..(Len(symbols) - 1) :
         /\ Begin(c, "reorder", active, Swapped(i))
         /\ lists' = [j \in DOMAIN lists |->
                        IF lists[j].id = active
                          THEN [lists[j] EXCEPT !.symbols = Swapped(i)] ELSE lists[j]]
         /\ symbols' = Swapped(i)
    /\ UNCHANGED <<active, loaded, readies>>

(* Bound: the ids the requests under way may still take. *)
CreateWatchlist(c) ==
    /\ \A i \in DOMAIN items : i + Cardinality(Busy) < MaxId
    /\ Begin(c, "create", None, <<>>)
    /\ UNCHANGED <<store, readies>>

RenameWatchlist(c, id) == Begin(c, "rename", id, <<>>) /\ UNCHANGED <<store, readies>>

DeleteWatchlist(c, id) == Begin(c, "delete", id, <<>>) /\ UNCHANGED <<store, readies>>

(* The status turns to "ready" and useWatchlistBootstrap runs its effect:  *)
(* one load for each turn, until one is done.                              *)
Bootstrap(c) ==
    /\ ~loaded
    /\ readies < MaxReady
    /\ readies' = readies + 1
    /\ Begin(c, "load", None, <<>>)
    /\ UNCHANGED store

SetActiveWatchlist(id) ==
    /\ active' = id
    /\ symbols' = SymbolsOf(lists, id)
    /\ UNCHANGED <<items, lists, loaded, chain, suspect, readies, ops>>

(***************************************************************************)
(* The continuations.                                                      *)
(***************************************************************************)

ApplyList(wl) ==
    /\ lists' = [i \in DOMAIN lists |-> IF lists[i].id = wl.id THEN wl ELSE lists[i]]
    /\ symbols' = IF wl.id = active THEN wl.symbols ELSE symbols
    /\ UNCHANGED <<active, loaded>>

Loaded(all) ==
    /\ lists' = all
    /\ active' = IF active # None /\ Has(all, active) THEN active ELSE FirstId(all)
    /\ symbols' = SymbolsOf(all, active')
    /\ loaded' = TRUE

Created(wl) ==
    /\ lists' = Append(lists, wl)
    /\ active' = wl.id
    /\ symbols' = wl.symbols
    /\ UNCHANGED loaded

Deleted(id) ==
    /\ lists' = AtPlaces(lists, {i \in DOMAIN lists : lists[i].id # id})
    /\ \/ active # id /\ UNCHANGED <<active, symbols>>
       \/ /\ active = id
          /\ active' = FirstId(lists')
          /\ symbols' = SymbolsOf(lists', active')
    /\ UNCHANGED loaded

(* The response arrives. *)
Resolve(c) ==
    LET kind  == chain[c].kind
        reply == chain[c].reply
    IN  /\ chain[c].at = "replied"
        /\ \/ kind \in {"add", "remove", "reorder", "rename"} /\ ApplyList(reply[1])
           \/ kind = "load" /\ Loaded(reply)
           \/ kind = "create" /\ Created(reply[1])
           \/ kind = "delete" /\ Deleted(chain[c].list)
        /\ suspect' = (suspect /\ ~(kind = "load" /\ chain[c].alone))
        /\ chain' = [chain EXCEPT ![c] = Idle]
        /\ UNCHANGED <<items, readies, ops>>

(* Mutant: a failed request leaves the optimistic update as it is. *)
Reject_Shrugs(c) ==
    /\ chain[c].at = "failed"
    /\ chain' = [chain EXCEPT ![c] = Idle]
    /\ suspect' = (suspect \/ chain[c].kind \notin {"add", "remove", "reorder"})
    /\ UNCHANGED <<items, store, readies, ops>>

(* The optimistic operations load everything again; a load that fails, and *)
(* the other operations, leave the store as it is.                         *)
Reject(c) ==
    /\ chain[c].at = "failed"
    /\ \/ /\ chain[c].kind \in {"add", "remove", "reorder"}
          /\ Call(c, "load", None, <<>>)
       \/ /\ chain[c].kind \notin {"add", "remove", "reorder"}
          /\ chain' = [chain EXCEPT ![c] = Idle]
          /\ suspect' = TRUE
    /\ UNCHANGED <<items, store, readies, ops>>

(***************************************************************************)
(* The specification.                                                      *)
(***************************************************************************)

(* ensure_default has seeded the first list. *)
Init ==
    /\ items = [i \in {1} |-> [s \in {Seed[j] : j \in DOMAIN Seed} |-> PlaceOf(Seed, s) - 1]]
    /\ lists = <<>> /\ active = None /\ symbols = <<>> /\ loaded = FALSE
    /\ chain = [c \in Calls |-> Idle]
    /\ suspect = FALSE
    /\ readies = 0
    /\ ops = 0

StoreStep ==
    \/ \E c \in Calls :
         \/ \E s \in Symbols : Add(c, s) \/ Remove(c, s)
         \/ Reorder(c) \/ CreateWatchlist(c) \/ Bootstrap(c)
         \/ \E i \in DOMAIN lists :
              RenameWatchlist(c, lists[i].id) \/ DeleteWatchlist(c, lists[i].id)
         \/ Resolve(c) \/ Reject(c)
    \/ \E i \in DOMAIN lists : SetActiveWatchlist(lists[i].id)

Next == EngineStep \/ StoreStep

Spec == Init /\ [][Next]_vars

(***************************************************************************)
(* Properties.                                                             *)
(***************************************************************************)

List == [id : Ids, symbols : Seq(Symbols)]

IsTable(positions) ==
    DOMAIN positions \subseteq Symbols /\ positions \in [DOMAIN positions -> Nat]

IsRequest(r) ==
    /\ r \in [at    : {"sent", "read", "replied", "failed"},
              kind  : {"load", "create", "rename", "delete", "add", "remove", "reorder"},
              list  : Ids \cup {None},
              arg   : Seq(Symbols),
              seen  : {r.seen},
              reply : Seq(List),
              alone : BOOLEAN]
    /\ IsTable(r.seen)

(* Every variable holds what its declaration says. *)
TypeOK ==
    /\ DOMAIN items \subseteq Ids
    /\ \A i \in DOMAIN items : IsTable(items[i])
    /\ lists \in Seq(List)
    /\ active \in Ids \cup {None}
    /\ symbols \in Seq(Symbols)
    /\ loaded \in BOOLEAN
    /\ DOMAIN chain = Calls
    /\ \A c \in Calls : chain[c] = Idle \/ IsRequest(chain[c])
    /\ suspect \in BOOLEAN
    /\ readies \in 0..MaxReady
    /\ ops \in 0..MaxOps

(* The derived view is that of the active list, which is one of the lists  *)
(* ("kept in sync after every change", line 20), in whatever order the     *)
(* responses arrive.  A list created while a load runs is in the store     *)
(* twice: the view is then that of either copy.                            *)
DerivedInSync ==
    IF active = None THEN symbols = <<>>
    ELSE \E i \in DOMAIN lists : lists[i] = [id |-> active, symbols |-> symbols]

Mirrored == lists \in AllLists

Quiet == loaded /\ Busy = {}

(* With no request under way the store shows what the engine has, unless   *)
(* calls have overlapped or failed for good since the last load that ran   *)
(* by itself: one call at a time reconciles, failed requests included.     *)
ReconciledOneByOne == Quiet /\ ~suspect => Mirrored

(* "This store mirrors the server state" (lines 6, 13): with no request    *)
(* under way it shows what the engine has.                                 *)
MirrorsServer == Quiet => Mirrored

Untied(positions) ==
    \A s, t \in DOMAIN positions : positions[s] = positions[t] => s = t

(* The optimistic update is what the engine answers: a call that runs by   *)
(* itself does not change the view a second time.                          *)
OptimismIsRight ==
    [][\A c \in Calls :
         /\ chain[c] # Idle /\ chain'[c] = Idle
         /\ chain[c].at = "replied" /\ chain[c].kind \in {"add", "remove", "reorder"}
         /\ chain[c].alone /\ ~suspect
         /\ chain[c].list \in DOMAIN items => Untied(items[chain[c].list])
         => UNCHANGED store]_vars
(* The store is well typed, its view is that of the active list, and one   *)
(* call at a time reconciles it with the engine.                           *)
StoreSound == TypeOK /\ DerivedInSync /\ ReconciledOneByOne
=============================================================================
