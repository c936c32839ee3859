---------------------------- MODULE MarketStream ----------------------------
(***************************************************************************)
(* Live quotes: the renderer's hooks useMarketStream and useQuoteSeeder,   *)
(* its reconnecting QuoteStream (lib/ws.ts), and the sessions the engine   *)
(* keeps for it (app/api/ws.py).                                           *)
(*                                                                         *)
(* The renderer is one event loop, the engine another.  Between them are   *)
(* the web socket, whose frames arrive in order or not at all, and one     *)
(* REST request per symbol.  Either side learns late that the socket is    *)
(* gone.  The engine's URL does not change while the app runs.             *)
(***************************************************************************)
EXTENDS Integers, Sequences, FiniteSets

CONSTANTS
    Symbols,
    Quoted,      \* the symbols a provider has a quote for
    Conns,       \* identities of sockets, reused once both ends are through
    NoConn,
    MaxChanges,  \* bound: changes of the symbols the user watches
    MaxTroubles  \* bound: crashes of the engine and broken sockets

ASSUME StreamConstants ==
    /\ Quoted \subseteq Symbols
    /\ NoConn \notin Conns
    /\ MaxChanges \in Nat /\ MaxTroubles \in Nat

VARIABLES
    up,         \* the engine serves
    engineStatus, \* "before" it is "ready", "ready", and "after"
    wanted,     \* symbols and activeSymbol of the watchlist store
    ws,         \* QuoteStream.ws, or NoConn
    link,       \* its readyState: "none", "connecting", "open" or "closed"
    symbols,    \* QuoteStream.symbols
    timer,      \* reconnectTimer is set
    delay,      \* reconnectDelay, in seconds
    connected,  \* streamConnected
    wire,       \* messages under way to the engine on ws
    intact,     \* the socket carries frames
    session,    \* the engine's session of each socket: "none", "live", or
                \* "mute" when its push loop has died
    subs,       \* StreamSession._symbols
    round,      \* symbols the push loop has still to push in this round
    seeded,     \* useQuoteSeeder's ref
    seed,       \* per symbol, its REST request: "none", "asked" or "cancelled"
    quotes,     \* symbols with a quote in the quotes store
    aligned,    \* the symbols have changed since the stream exists
    changes, troubles

client == <<ws, link, symbols, timer, delay, connected>>
server == <<session, subs, round>>
seeder == <<seeded, seed>>
bounds == <<changes, troubles>>
vars   == <<up, engineStatus, wanted, client, wire, intact, server, seeder, quotes, aligned, bounds>>

MaxDelay == 15

Subscribe(s)   == [action |-> "subscribe", symbols |-> s]
Unsubscribe(s) == [action |-> "unsubscribe", symbols |-> s]

(***************************************************************************)
(* QuoteStream.                                                            *)
(***************************************************************************)

(* open() *)
Open ==
    /\ \E c \in Conns : c # ws /\ session[c] = "none" /\ ws' = c
    /\ link' = "connecting"
    /\ wire' = <<>>
    /\ intact' = TRUE

(* Messages for which send() finds the socket open. *)
Sent(messages) == wire' = IF link = "open" THEN wire \o messages ELSE wire

(* setSymbols: first the symbols that are dropped, then the new ones. *)
SetSymbols(next) ==
    LET remove == symbols \ next
        add    == next \ symbols
    IN  /\ symbols' = next
        /\ Sent((IF remove = {} THEN <<>> ELSE <<Unsubscribe(remove)>>) \o
                (IF add = {} THEN <<>> ELSE <<Subscribe(add)>>))

(* emitStatus, to the listener the hook has while the engine is ready. *)
EmitStatus(c) == connected' = IF engineStatus = "ready" THEN c ELSE connected

(* Mutant: the subscription is not applied again. *)
OnOpen_Bare ==
    /\ link = "connecting" /\ intact /\ session[ws] # "none"
    /\ link' = "open"
    /\ delay' = 1
    /\ EmitStatus(TRUE)
    /\ UNCHANGED <<up, engineStatus, wanted, ws, symbols, timer, wire, intact, server, seeder,
                   quotes, aligned, bounds>>

(* onopen, with applySubscription *)
OnOpen ==
    /\ link = "connecting" /\ intact /\ session[ws] # "none"
    /\ link' = "open"
    /\ delay' = 1
    /\ EmitStatus(TRUE)
    /\ wire' = IF symbols = {} THEN <<>> ELSE <<Subscribe(symbols)>>
    /\ UNCHANGED <<up, engineStatus, wanted, ws, symbols, timer, intact, server, seeder,
                   quotes, aligned, bounds>>

Gone == link \in {"connecting", "open"} /\ (~intact \/ (~up /\ session[ws] = "none"))

(* Mutant: only a connection that never opened is tried again. *)
OnClose_NoRetry ==
    /\ Gone
    /\ link' = "closed"
    /\ wire' = <<>>
    /\ EmitStatus(FALSE)
    /\ timer' = (timer \/ link = "connecting")
    /\ UNCHANGED <<up, engineStatus, wanted, ws, symbols, delay, intact, server, seeder,
                   quotes, aligned, bounds>>

(* onclose (after onerror or not), with scheduleReconnect *)
OnClose ==
    /\ Gone
    /\ link' = "closed"
    /\ wire' = <<>>
    /\ EmitStatus(FALSE)
    /\ timer' = TRUE
    /\ UNCHANGED <<up, engineStatus, wanted, ws, symbols, delay, intact, server, seeder,
                   quotes, aligned, bounds>>

TimerFires ==
    /\ timer
    /\ timer' = FALSE
    /\ delay' = IF 2 * delay < MaxDelay THEN 2 * delay ELSE MaxDelay
    /\ Open
    /\ UNCHANGED <<up, engineStatus, wanted, symbols, connected, server, seeder, quotes,
                   aligned, bounds>>

(***************************************************************************)
(* The hooks.                                                              *)
(***************************************************************************)

(* Mutant: every symbol without a quote is asked for, asked for already or not. *)
Seed_Present(ready, want) ==
    LET missing == IF ready THEN want \ quotes ELSE {}
    IN  /\ seeded' = seeded \cup missing
        /\ seed' = [s \in Symbols |-> IF s \in missing THEN "asked"
                                      ELSE IF seed[s] = "asked" THEN "cancelled"
                                      ELSE seed[s]]

(* useQuoteSeeder's effect: its cleanup cancels the requests of the run    *)
(* before, and only symbols never asked for are asked for.                 *)
Seed(ready, want) ==
    LET missing == IF ready THEN want \ seeded ELSE {}
    IN  /\ seeded' = seeded \cup missing
        /\ seed' = [s \in Symbols |-> IF s \in missing THEN "asked"
                                      ELSE IF seed[s] = "asked" THEN "cancelled"
                                      ELSE seed[s]]

(* The status turns to "ready": the stream is created and connects. *)
BecomesReady ==
    /\ engineStatus = "before"
    /\ engineStatus' = "ready"
    /\ Open
    /\ Seed(TRUE, wanted)
    /\ UNCHANGED <<up, wanted, symbols, timer, delay, connected, server, quotes, aligned, bounds>>

(* The engine is reported lost: the hook's listeners go, the stream stays. *)
LeavesReady ==
    /\ engineStatus = "ready"
    /\ engineStatus' = "after"
    /\ Seed(FALSE, wanted)
    /\ UNCHANGED <<up, wanted, client, wire, intact, server, quotes, aligned, bounds>>

(* The watchlist store changes: both hooks run their effects. *)
Watch(next) ==
    /\ changes < MaxChanges
    /\ changes' = changes + 1
    /\ wanted' = next
    /\ IF engineStatus = "before" THEN UNCHANGED <<symbols, wire>> ELSE SetSymbols(next)
    /\ aligned' = (engineStatus # "before")
    /\ Seed(engineStatus = "ready", next)
    /\ UNCHANGED <<up, engineStatus, ws, link, timer, delay, connected, intact, server,
                   quotes, troubles>>

(* The REST request of the seeder ends, with a quote or with an error. *)
SeedEnds(s) ==
    /\ seed[s] # "none"
    /\ seed' = [seed EXCEPT ![s] = "none"]
    /\ \/ /\ up /\ s \in Quoted
          /\ quotes' = IF seed[s] = "asked" THEN quotes \cup {s} ELSE quotes
          /\ UNCHANGED seeded
       \/ /\ seeded' = seeded \ {s}
          /\ UNCHANGED quotes
    /\ UNCHANGED <<up, engineStatus, wanted, client, wire, intact, server, aligned, bounds>>

(***************************************************************************)
(* The sessions of the engine.                                             *)
(***************************************************************************)

(* accept(), hub.add and the push loop's first snapshot of no symbols *)
Accept ==
    /\ up /\ intact
    /\ link = "connecting" /\ session[ws] = "none"
    /\ session' = [session EXCEPT ![ws] = "live"]
    /\ subs' = [subs EXCEPT ![ws] = {}]
    /\ round' = [round EXCEPT ![ws] = {}]
    /\ UNCHANGED <<up, engineStatus, wanted, client, wire, intact, seeder, quotes, aligned, bounds>>

(* update_subscription *)
Updated(have, message) ==
    IF message.action = "subscribe" THEN have \cup message.symbols
    ELSE have \ message.symbols

Receive ==
    /\ wire # <<>> /\ intact
    /\ session[ws] # "none"
    /\ subs' = [subs EXCEPT ![ws] = Updated(@, Head(wire))]
    /\ wire' = Tail(wire)
    /\ UNCHANGED <<up, engineStatus, wanted, client, intact, session, round, seeder, quotes,
                   aligned, bounds>>

StartRound(c) ==
    /\ session[c] = "live" /\ round[c] = {} /\ subs[c] # {}
    /\ round' = [round EXCEPT ![c] = subs[c]]
    /\ UNCHANGED <<up, engineStatus, wanted, client, wire, intact, session, subs, seeder,
                   quotes, aligned, bounds>>

Reaches(c) == c = ws /\ intact /\ link = "open"

(* Mutant: the loop over the symbols ends after the first one. *)
Push_FirstOnly(c, s) ==
    /\ session[c] = "live" /\ s \in round[c]
    /\ s = CHOOSE t \in round[c] : TRUE
    /\ round' = [round EXCEPT ![c] = {}]
    /\ quotes' = IF Reaches(c) /\ s \in Quoted /\ engineStatus = "ready"
                   THEN quotes \cup {s} ELSE quotes
    /\ UNCHANGED <<up, engineStatus, wanted, client, wire, intact, session, subs, seeder,
                   aligned, bounds>>

(* get_quote, and send_json if there is a quote: on a socket that is gone  *)
(* it is buffered, or it raises and ends the push loop.                    *)
Push(c, s) ==
    /\ session[c] = "live" /\ s \in round[c]
    /\ round' = [round EXCEPT ![c] = @ \ {s}]
    /\ \/ /\ quotes' = IF Reaches(c) /\ s \in Quoted /\ engineStatus = "ready"
                         THEN quotes \cup {s} ELSE quotes
          /\ UNCHANGED session
       \/ /\ s \in Quoted /\ ~(c = ws /\ intact)
          /\ session' = [session EXCEPT ![c] = "mute"]
          /\ UNCHANGED quotes
    /\ UNCHANGED <<up, engineStatus, wanted, client, wire, intact, subs, seeder, aligned, bounds>>

(* receive_json raises: hub.remove, and the push loop is cancelled. *)
EndSession(c) ==
    /\ session[c] # "none"
    /\ ~(c = ws /\ intact)
    /\ session' = [session EXCEPT ![c] = "none"]
    /\ subs' = [subs EXCEPT ![c] = {}]
    /\ round' = [round EXCEPT ![c] = {}]
    /\ UNCHANGED <<up, engineStatus, wanted, client, wire, intact, seeder, quotes, aligned, bounds>>

(***************************************************************************)
(* The engine's process and the network.                                   *)
(***************************************************************************)

Trouble == troubles < MaxTroubles /\ troubles' = troubles + 1 /\ UNCHANGED changes

EngineStops ==
    /\ up
    /\ Trouble
    /\ up' = FALSE
    /\ session' = [c \in Conns |-> "none"]
    /\ subs' = [c \in Conns |-> {}]
    /\ round' = [c \in Conns |-> {}]
    /\ intact' = FALSE
    /\ UNCHANGED <<engineStatus, wanted, client, wire, seeder, quotes, aligned>>

EngineStarts ==
    /\ ~up
    /\ up' = TRUE
    /\ UNCHANGED <<engineStatus, wanted, client, wire, intact, server, seeder, quotes, aligned, bounds>>

SocketBreaks ==
    /\ intact /\ ws # NoConn
    /\ Trouble
    /\ intact' = FALSE
    /\ UNCHANGED <<up, engineStatus, wanted, client, wire, server, seeder, quotes, aligned>>

(***************************************************************************)
(* The specification.                                                      *)
(***************************************************************************)

Init ==
    /\ up \in BOOLEAN
    /\ engineStatus = "before" /\ wanted = {}
    /\ ws = NoConn /\ link = "none" /\ symbols = {}
    /\ timer = FALSE /\ delay = 1 /\ connected = FALSE
    /\ wire = <<>> /\ intact = FALSE
    /\ session = [c \in Conns |-> "none"]
    /\ subs = [c \in Conns |-> {}] /\ round = [c \in Conns |-> {}]
    /\ seeded = {} /\ seed = [s \in Symbols |-> "none"]
    /\ quotes = {}
    /\ aligned = FALSE
    /\ changes = 0 /\ troubles = 0

StreamStep == OnOpen \/ OnClose \/ TimerFires

HookStep ==
    \/ BecomesReady \/ LeavesReady
    \/ \E next \in SUBSET Symbols : Watch(next)

SeedStep == \E s \in Symbols : SeedEnds(s)

PushStep(c) == StartRound(c) \/ \E s \in Symbols : Push(c, s)

EngineStep == Accept \/ Receive \/ (\E c \in Conns : PushStep(c) \/ EndSession(c))

OutsideStep == EngineStops \/ EngineStarts \/ SocketBreaks

Next == StreamStep \/ HookStep \/ SeedStep \/ EngineStep \/ OutsideStep

Spec == Init /\ [][Next]_vars

(* Both event loops run what is ready, timers fire, requests end, and the  *)
(* engine notices a dead socket (the server pings its peers).              *)
Fairness ==
    /\ WF_vars(StreamStep) /\ WF_vars(SeedStep)
    /\ WF_vars(Accept) /\ WF_vars(Receive)
    /\ \A c \in Conns : WF_vars(PushStep(c)) /\ WF_vars(EndSession(c))

LiveSpec == Spec /\ Fairness

(***************************************************************************)
(* Properties.                                                             *)
(***************************************************************************)

Messages == [action : {"subscribe", "unsubscribe"}, symbols : SUBSET Symbols]

(* Every variable holds what its declaration says. *)
TypeOK ==
    /\ up \in BOOLEAN
    /\ engineStatus \in {"before", "ready", "after"}
    /\ wanted \subseteq Symbols /\ symbols \subseteq Symbols
    /\ ws \in Conns \cup {NoConn}
    /\ link \in {"none", "connecting", "open", "closed"}
    /\ timer \in BOOLEAN /\ delay \in 1..MaxDelay /\ connected \in BOOLEAN
    /\ wire \in Seq(Messages)
    /\ intact \in BOOLEAN
    /\ session \in [Conns -> {"none", "live", "mute"}]
    /\ subs \in [Conns -> SUBSET Symbols] /\ round \in [Conns -> SUBSET Symbols]
    /\ seeded \subseteq Symbols /\ seed \in [Symbols -> {"none", "asked", "cancelled"}]
    /\ quotes \subseteq Symbols
    /\ aligned \in BOOLEAN
    /\ changes \in 0..MaxChanges /\ troubles \in 0..MaxTroubles

(* What a session that has the symbols `have` will have once it has read    *)
(* the messages: for each symbol the last message that names it decides.   *)
After(have, messages) ==
    {s \in Symbols :
       \/ s \in have /\ \A i \in 1..Len(messages) : s \notin messages[i].symbols
       \/ \E i \in 1..Len(messages) :
            /\ messages[i].action = "subscribe" /\ s \in messages[i].symbols
            /\ \A j \in (i + 1)..Len(messages) : s \notin messages[j].symbols}

(* On a socket that is open at both ends, what the engine has and what is  *)
(* on its way to it add up to the stream's symbols, which are the symbols  *)
(* wanted: no change is lost between two connections, or while one opens   *)
(* ("keeps the subscription in sync", useMarketStream.ts:10-11).           *)
SubscriptionKept ==
    /\ (link = "open" /\ intact) => After(subs[ws], wire) = symbols
    /\ aligned => symbols = wanted

(* While the engine is ready, streamConnected tells the state of the       *)
(* socket, and a socket that is closed will be tried again.                *)
StatusTruthful ==
    engineStatus = "ready" =>
        /\ connected <=> (link = "open")
        /\ (link = "closed") => timer

(* A socket that connects carries nothing yet, and the session that accepts *)
(* it begins without symbols; before the engine is ready there is none.     *)
ConnectsClean ==
    /\ link = "connecting" => wire = <<>> /\ (session[ws] # "none" => subs[ws] = {})
    /\ engineStatus = "before" => link = "none" /\ ~connected
    /\ timer => link = "closed"
    /\ link # "none" => ws # NoConn

(* "Each symbol is fetched at most once here" (useQuoteSeeder.ts:10): no    *)
(* second request for a symbol starts while one is under way, cancelled or *)
(* not; an effect that runs again only cancels it.                         *)
SeededOnce ==
    [][\A s \in Symbols : seed[s] # "none" =>
          \/ seed'[s] \in {"cancelled", "none"}
          \/ seed'[s] = seed[s] /\ UNCHANGED <<engineStatus, wanted>>]_vars

(* When the engine serves for good, the stream finds it again and its      *)
(* session has what the user wants.                                        *)
SubscriptionRestored ==
    <>[](up /\ aligned) => <>[](link = "open" /\ subs[ws] = wanted)

(* Every symbol the user keeps on watching gets a quote, if a provider has *)
(* one: from the stream when the seeder's answer was cancelled.            *)
EveryQuoteShows ==
    \A s \in Quoted :
        <>[](up /\ engineStatus = "ready" /\ aligned /\ s \in wanted) => <>(s \in quotes)

(* The stream is well typed, keeps its subscription and shows its status:   *)
(* an inductive invariant.                                                  *)
StreamSound == TypeOK /\ ConnectsClean /\ SubscriptionKept /\ StatusTruthful
=============================================================================
