------------------------- MODULE MarketStreamProofs -------------------------
(***************************************************************************)
(* Theorems about MarketStream: any symbols, sockets, changes and troubles. *)
(***************************************************************************)
EXTENDS MarketStream, SequenceTheorems, TLAPS

USE StreamConstants DEF StreamConstants

-----------------------------------------------------------------------------
(* What the messages on the wire amount to                                 *)

LEMMA AfterNothing ==
    ASSUME NEW have \in SUBSET Symbols
    PROVE  After(have, <<>>) = have
BY DEF After

(* A message that is sent counts for the symbols it names. *)
LEMMA AfterSent ==
    ASSUME NEW have \in SUBSET Symbols, NEW messages \in Seq(Messages), NEW m \in Messages
    PROVE  /\ Append(messages, m) \in Seq(Messages)
           /\ After(have, Append(messages, m)) = Updated(After(have, messages), m)
<1> DEFINE longer == Append(messages, m)
           n == Len(messages)
<1>1. /\ n \in Nat /\ longer \in Seq(Messages) /\ Len(longer) = n + 1
      /\ longer[n + 1] = m /\ \A i \in 1..n : longer[i] = messages[i]
  OBVIOUS
<1>2. m.symbols \subseteq Symbols /\ (m.action = "subscribe" \/ m.action = "unsubscribe")
  BY DEF Messages
<1> HIDE DEF longer, n
<1>3. ASSUME NEW s \in Symbols, s \in m.symbols
      PROVE  s \in After(have, longer) <=> m.action = "subscribe"
  <2>1. n + 1 \in 1..Len(longer) /\ \A j \in (n + 1 + 1)..Len(longer) : s \notin longer[j].symbols
    BY <1>1
  <2>2. \A i \in 1..n : n + 1 \in (i + 1)..Len(longer)
    BY <1>1
  <2>3. \A i \in 1..Len(longer) : i = n + 1 \/ i \in 1..n
    BY <1>1
  <2> QED
    BY <1>1, <1>3, <2>1, <2>2, <2>3 DEF After
<1>4. ASSUME NEW s \in Symbols, s \notin m.symbols
      PROVE  s \in After(have, longer) <=> s \in After(have, messages)
  <2>1. \A i \in 1..Len(longer) : i = n + 1 \/ i \in 1..n
    BY <1>1
  <2>2. \A i \in 1..n : i \in 1..Len(longer)
    BY <1>1
  <2>3. \A i \in 1..n : \A j \in (i + 1)..Len(longer) : j = n + 1 \/ j \in (i + 1)..n
    BY <1>1
  <2>4. \A i \in 1..n : \A j \in (i + 1)..n : j \in (i + 1)..Len(longer) /\ j \in 1..n
    BY <1>1
  <2>5. (\A i \in 1..Len(longer) : s \notin longer[i].symbols) <=> (\A i \in 1..n : s \notin messages[i].symbols)
    BY <1>1, <1>4, <2>1, <2>2
  <2>6. \A i \in 1..n : (\A j \in (i + 1)..Len(longer) : s \notin longer[j].symbols)
                          <=> (\A j \in (i + 1)..n : s \notin messages[j].symbols)
    BY <1>1, <1>4, <2>3, <2>4
  <2>7. (\E i \in 1..Len(longer) :
            /\ longer[i].action = "subscribe" /\ s \in longer[i].symbols
            /\ \A j \in (i + 1)..Len(longer) : s \notin longer[j].symbols)
        <=> (\E i \in 1..n :
            /\ messages[i].action = "subscribe" /\ s \in messages[i].symbols
            /\ \A j \in (i + 1)..n : s \notin messages[j].symbols)
    BY <1>1, <1>4, <2>1, <2>2, <2>6
  <2> QED
    BY <2>5, <2>7 DEF After, n
<1>5. After(have, longer) \subseteq Symbols /\ After(have, messages) \subseteq Symbols
  BY DEF After
<1>6. After(have, longer) = Updated(After(have, messages), m)
  BY <1>2, <1>3, <1>4, <1>5 DEF Updated
<1> QED
  BY <1>1, <1>6 DEF longer

(* The message that is read first counts for what no later one names. *)
LEMMA AfterRead ==
    ASSUME NEW have \in SUBSET Symbols, NEW messages \in Seq(Messages), messages # <<>>
    PROVE  After(Updated(have, Head(messages)), Tail(messages)) = After(have, messages)
<1> DEFINE m == Head(messages)
           rest == Tail(messages)
           n == Len(messages)
<1>1. /\ n \in Nat \ {0} /\ m = messages[1] /\ m \in Messages
      /\ rest \in Seq(Messages) /\ Len(rest) = n - 1
      /\ \A i \in 1..(n - 1) : rest[i] = messages[i + 1]
  OBVIOUS
<1>2. m.symbols \subseteq Symbols /\ (m.action = "subscribe" \/ m.action = "unsubscribe")
  BY <1>1 DEF Messages
<1> HIDE DEF m, rest, n
<1> SUFFICES ASSUME NEW s \in Symbols
             PROVE  s \in After(Updated(have, m), rest) <=> s \in After(have, messages)
  BY DEF After, m, rest
<1> DEFINE Quiet(from) == \A j \in from..n : s \notin messages[j].symbols
           Decides(i) == messages[i].action = "subscribe" /\ s \in messages[i].symbols /\ Quiet(i + 1)
<1>3. \A i \in 1..(n - 1) : (\A j \in (i + 1)..(n - 1) : s \notin rest[j].symbols) <=> Quiet(i + 2)
  <2> SUFFICES ASSUME NEW i \in 1..(n - 1)
               PROVE  (\A j \in (i + 1)..(n - 1) : s \notin rest[j].symbols) <=> Quiet(i + 2)
    OBVIOUS
  <2>1. \A j \in (i + 1)..(n - 1) : j \in 1..(n - 1) /\ j + 1 \in (i + 2)..n
    BY <1>1
  <2>2. \A j \in (i + 2)..n : j - 1 \in (i + 1)..(n - 1) /\ (j - 1) + 1 = j /\ j - 1 \in 1..(n - 1)
    BY <1>1
  <2> QED
    BY <1>1, <2>1, <2>2
<1>4. (\A i \in 1..(n - 1) : s \notin rest[i].symbols) <=> Quiet(2)
  <2>1. \A j \in 1..(n - 1) : j + 1 \in 2..n
    BY <1>1
  <2>2. \A j \in 2..n : j - 1 \in 1..(n - 1) /\ (j - 1) + 1 = j
    BY <1>1
  <2> QED
    BY <1>1, <2>1, <2>2
<1>5. (\E i \in 1..(n - 1) : /\ rest[i].action = "subscribe" /\ s \in rest[i].symbols
                            /\ \A j \in (i + 1)..(n - 1) : s \notin rest[j].symbols)
      <=> \E i \in 2..n : Decides(i)
  <2>1. \A i \in 1..(n - 1) : i + 1 \in 2..n /\ i + 1 + 1 = i + 2
    BY <1>1
  <2>2. \A i \in 2..n : i - 1 \in 1..(n - 1) /\ (i - 1) + 1 = i /\ (i - 1) + 2 = i + 1
    BY <1>1
  <2> DEFINE Last(i) == /\ rest[i].action = "subscribe" /\ s \in rest[i].symbols
                        /\ \A j \in (i + 1)..(n - 1) : s \notin rest[j].symbols
  <2>3. ASSUME NEW i \in 1..(n - 1)
        PROVE  Last(i) <=> Decides(i + 1)
    <3>1. Quiet(i + 1 + 1) <=> Quiet(i + 2)
      BY <2>1
    <3> HIDE DEF Quiet
    <3> QED
      BY <1>1, <1>3, <3>1
  <2>4. ASSUME NEW i \in 1..(n - 1), Last(i)
        PROVE  \E k \in 2..n : Decides(k)
    <3> HIDE DEF Last, Decides
    <3> QED
      BY <2>1, <2>3, <2>4
  <2>5. ASSUME NEW i \in 2..n, Decides(i)
        PROVE  \E k \in 1..(n - 1) : Last(k)
    <3>1. i - 1 \in 1..(n - 1) /\ (i - 1) + 1 = i
      BY <2>2
    <3> HIDE DEF Last, Decides
    <3>2. Last(i - 1) <=> Decides((i - 1) + 1)
      BY <2>3, <3>1
    <3> QED
      BY <2>5, <3>1, <3>2
  <2> QED
    BY <2>4, <2>5
<1>6. s \in After(Updated(have, m), rest) <=> (s \in Updated(have, m) /\ Quiet(2)) \/ \E i \in 2..n : Decides(i)
  <2> HIDE DEF Quiet, Decides
  <2> QED
    BY <1>1, <1>4, <1>5 DEF After
<1>7. s \in After(have, messages) <=> (s \in have /\ Quiet(1)) \/ \E i \in 1..n : Decides(i)
  BY DEF After, n
<1>8. 1..n = {1} \cup 2..n
  BY <1>1
<1>9. Quiet(1) <=> s \notin m.symbols /\ Quiet(2)
  BY <1>1, <1>8
<1>10. (\E i \in 1..n : Decides(i)) <=> Decides(1) \/ \E i \in 2..n : Decides(i)
  <2> HIDE DEF Decides
  <2> QED
    BY <1>8
<1>11. Decides(1) <=> m.action = "subscribe" /\ s \in m.symbols /\ Quiet(2)
  BY <1>1
<1>12. s \in Updated(have, m) <=> \/ s \in have /\ s \notin m.symbols
                                  \/ m.action = "subscribe" /\ s \in m.symbols
  BY <1>2 DEF Updated
<1> HIDE DEF Quiet, Decides
<1> QED
  BY <1>6, <1>7, <1>9, <1>10, <1>11, <1>12

-----------------------------------------------------------------------------
(* The invariant                                                           *)

(* setSymbols tells an open socket what is dropped and what is new. *)
LEMMA SetSymbolsStep ==
    ASSUME TypeOK, SubscriptionKept, NEW next \in SUBSET Symbols, SetSymbols(next),
           UNCHANGED <<ws, link, intact, subs>>, ws # NoConn
    PROVE  /\ symbols' = next
           /\ wire' \in Seq(Messages)
           /\ link # "open" => wire' = wire
           /\ (link = "open" /\ intact) => After(subs[ws], wire') = next
<1> DEFINE remove == symbols \ next
           add == next \ symbols
<1>1. /\ symbols' = next
      /\ wire' = IF link = "open"
                   THEN wire \o ((IF remove = {} THEN <<>> ELSE <<Unsubscribe(remove)>>)
                                 \o (IF add = {} THEN <<>> ELSE <<Subscribe(add)>>))
                   ELSE wire
  BY DEF SetSymbols, Sent
<1>2. /\ wire \in Seq(Messages) /\ subs[ws] \in SUBSET Symbols
      /\ symbols \subseteq Symbols
  BY DEF TypeOK
<1>3. CASE link # "open"
  BY <1>1, <1>2, <1>3
<1>4. CASE link = "open"
  <2> DEFINE u == Unsubscribe(remove)
             a == Subscribe(add)
             first == IF remove = {} THEN wire ELSE Append(wire, u)
             second == IF add = {} THEN first ELSE Append(first, a)
  <2>1. u \in Messages /\ a \in Messages
    BY <1>2 DEF Messages, Unsubscribe, Subscribe
  <2>2. wire' = second
    <3> HIDE DEF u, a
    <3>1. wire' = wire \o ((IF remove = {} THEN <<>> ELSE <<u>>) \o (IF add = {} THEN <<>> ELSE <<a>>))
      BY <1>1, <1>4 DEF u, a
    <3> HIDE DEF remove, add
    <3>2. CASE remove = {} /\ add = {}
      BY <1>2, <3>1, <3>2
    <3>3. CASE remove = {} /\ add # {}
      BY <1>2, <2>1, <3>1, <3>3
    <3>4. CASE remove # {} /\ add = {}
      BY <1>2, <2>1, <3>1, <3>4
    <3>5. CASE remove # {} /\ add # {}
      BY <1>2, <2>1, <3>1, <3>5
    <3> QED
      BY <3>2, <3>3, <3>4, <3>5
  <2>3. /\ first \in Seq(Messages)
        /\ After(subs[ws], first) = After(subs[ws], wire) \ remove
    <3>1. CASE remove = {}
      BY <1>2, <3>1
    <3>2. CASE remove # {}
      <4>1. /\ first \in Seq(Messages)
            /\ After(subs[ws], first) = Updated(After(subs[ws], wire), u)
        BY <1>2, <2>1, <3>2, AfterSent
      <4> QED
        BY <4>1 DEF Updated, Unsubscribe
    <3> QED
      BY <3>1, <3>2
  <2>4. /\ second \in Seq(Messages)
        /\ After(subs[ws], second) = After(subs[ws], first) \cup add
    <3> HIDE DEF first
    <3>1. CASE add = {}
      BY <2>3, <3>1
    <3>2. CASE add # {}
      <4>1. /\ second \in Seq(Messages)
            /\ After(subs[ws], second) = Updated(After(subs[ws], first), a)
        BY <1>2, <2>1, <2>3, <3>2, AfterSent
      <4> QED
        BY <4>1 DEF Updated, Subscribe
    <3> QED
      BY <3>1, <3>2
  <2>5. intact => After(subs[ws], wire) = symbols
    BY <1>4 DEF SubscriptionKept
  <2> HIDE DEF first, second
  <2> QED
    BY <1>1, <1>4, <2>2, <2>3, <2>4, <2>5
<1> QED
  BY <1>3, <1>4

(* useQuoteSeeder keeps its own types. *)
LEMMA SeedTyped ==
    ASSUME TypeOK, NEW ready \in BOOLEAN, NEW want \in SUBSET Symbols, Seed(ready, want)
    PROVE  seeded' \subseteq Symbols /\ seed' \in [Symbols -> {"none", "asked", "cancelled"}]
<1> DEFINE missing == IF ready THEN want \ seeded ELSE {}
<1>1. missing \subseteq Symbols /\ seed \in [Symbols -> {"none", "asked", "cancelled"}]
  BY DEF TypeOK
<1>2. /\ seeded' = seeded \cup missing
      /\ seed' = [s \in Symbols |-> IF s \in missing THEN "asked"
                                     ELSE IF seed[s] = "asked" THEN "cancelled"
                                     ELSE seed[s]]
  BY DEF Seed
<1> HIDE DEF missing
<1> QED
  BY <1>1, <1>2 DEF TypeOK

-----------------------------------------------------------------------------
(* The steps                                                               *)

(* A new socket has nothing on its wire and no session yet. *)
LEMMA OpenStep ==
    ASSUME TypeOK, Open
    PROVE  /\ ws' \in Conns /\ ws' # NoConn /\ session[ws'] = "none"
           /\ link' = "connecting" /\ wire' = <<>> /\ wire' \in Seq(Messages) /\ intact' = TRUE
BY DEF Open

(* The first message of an open socket is the whole subscription. *)
LEMMA OnOpenKeeps ==
    ASSUME StreamSound, OnOpen
    PROVE  StreamSound'
<1> USE DEF StreamSound
<1>5. Subscribe(symbols) \in Messages /\ subs[ws] \in SUBSET Symbols
  BY DEF OnOpen, TypeOK, ConnectsClean, Subscribe, Messages
<1>6. /\ wire' \in Seq(Messages)
      /\ After(subs[ws], wire') = symbols
  <2>1. wire = <<>> /\ subs[ws] = {}
    BY DEF OnOpen, ConnectsClean
  <2>2. CASE symbols = {}
    BY <1>5, <2>1, <2>2, AfterNothing DEF OnOpen
  <2>3. CASE symbols # {}
    <3>1. wire' = Append(<<>>, Subscribe(symbols))
      BY <2>3 DEF OnOpen
    <3>2. /\ wire' \in Seq(Messages)
          /\ After(subs[ws], wire') = Updated(After(subs[ws], <<>>), Subscribe(symbols))
      <4>1. <<>> \in Seq(Messages)
        OBVIOUS
      <4> QED
        BY <1>5, <3>1, <4>1, AfterSent
    <3>3. After(subs[ws], <<>>) = {}
      BY <1>5, <2>1, AfterNothing
    <3> QED
      BY <3>2, <3>3 DEF Updated, Subscribe
  <2> QED
    BY <2>2, <2>3
<1>1. TypeOK'
  <2>1. connected' \in BOOLEAN
    BY DEF OnOpen, EmitStatus, TypeOK
  <2>2. delay' \in 1..MaxDelay
    BY DEF OnOpen, MaxDelay
  <2> QED
    BY <1>6, <2>1, <2>2 DEF OnOpen, server, seeder, bounds, TypeOK
<1>2. ConnectsClean'
  BY DEF OnOpen, TypeOK, ConnectsClean
<1>3. SubscriptionKept'
  BY <1>6 DEF OnOpen, server, SubscriptionKept
<1>4. StatusTruthful'
  BY DEF OnOpen, EmitStatus, TypeOK, ConnectsClean, StatusTruthful
<1> QED
  BY <1>1, <1>2, <1>3, <1>4

(* A socket that closes sets the timer. *)
LEMMA OnCloseKeeps ==
    ASSUME StreamSound, OnClose
    PROVE  StreamSound'
<1> USE DEF StreamSound
<1>1. TypeOK'
  <2>1. connected' \in BOOLEAN
    BY DEF OnClose, EmitStatus, TypeOK
  <2>2. wire' \in Seq(Messages)
    BY DEF OnClose
  <2> QED
    BY <2>1, <2>2 DEF OnClose, server, seeder, bounds, TypeOK
<1>2. ConnectsClean'
  BY DEF OnClose, Gone, EmitStatus, TypeOK, ConnectsClean
<1>3. SubscriptionKept'
  BY DEF OnClose, SubscriptionKept
<1>4. StatusTruthful'
  BY DEF OnClose, EmitStatus, TypeOK, StatusTruthful
<1> QED
  BY <1>1, <1>2, <1>3, <1>4

(* The timer opens a new socket. *)
LEMMA TimerFiresKeeps ==
    ASSUME StreamSound, TimerFires
    PROVE  StreamSound'
<1> USE DEF StreamSound
<1>5. /\ ws' \in Conns /\ ws' # NoConn /\ session[ws'] = "none"
      /\ link' = "connecting" /\ wire' = <<>> /\ wire' \in Seq(Messages) /\ intact' = TRUE
  BY OpenStep DEF TimerFires
<1>6. delay' \in 1..MaxDelay
  BY DEF TimerFires, TypeOK, MaxDelay
<1>7. engineStatus # "before" /\ (engineStatus = "ready" => link # "open" /\ ~connected)
  BY DEF TimerFires, TypeOK, ConnectsClean, StatusTruthful
<1>1. TypeOK'
  BY <1>5, <1>6 DEF TimerFires, server, seeder, bounds, TypeOK
<1>2. ConnectsClean'
  BY <1>5, <1>7 DEF TimerFires, server, ConnectsClean
<1>3. SubscriptionKept'
  BY <1>5 DEF TimerFires, SubscriptionKept
<1>4. StatusTruthful'
  BY <1>5, <1>7 DEF TimerFires, StatusTruthful
<1> QED
  BY <1>1, <1>2, <1>3, <1>4

(* The stream is created with the status. *)
LEMMA BecomesReadyKeeps ==
    ASSUME StreamSound, BecomesReady
    PROVE  StreamSound'
<1> USE DEF StreamSound
<1>5. /\ ws' \in Conns /\ ws' # NoConn /\ session[ws'] = "none"
      /\ link' = "connecting" /\ wire' = <<>> /\ wire' \in Seq(Messages) /\ intact' = TRUE
  BY OpenStep DEF BecomesReady
<1>6. seeded' \subseteq Symbols /\ seed' \in [Symbols -> {"none", "asked", "cancelled"}]
  BY SeedTyped DEF BecomesReady, TypeOK
<1>1. TypeOK'
  BY <1>5, <1>6 DEF BecomesReady, server, bounds, TypeOK
<1>2. ConnectsClean'
  BY <1>5 DEF BecomesReady, server, ConnectsClean
<1>3. SubscriptionKept'
  BY <1>5 DEF BecomesReady, SubscriptionKept
<1>4. StatusTruthful'
  BY <1>5 DEF BecomesReady, ConnectsClean, StatusTruthful
<1> QED
  BY <1>1, <1>2, <1>3, <1>4

(* The stream stays when the engine is reported lost. *)
LEMMA LeavesReadyKeeps ==
    ASSUME StreamSound, LeavesReady
    PROVE  StreamSound'
<1> USE DEF StreamSound
<1>5. seeded' \subseteq Symbols /\ seed' \in [Symbols -> {"none", "asked", "cancelled"}]
  BY SeedTyped DEF LeavesReady, TypeOK
<1>1. TypeOK'
  BY <1>5 DEF LeavesReady, client, server, bounds, TypeOK
<1>2. ConnectsClean'
  BY DEF LeavesReady, client, server, ConnectsClean
<1>3. SubscriptionKept'
  BY DEF LeavesReady, client, server, SubscriptionKept
<1>4. StatusTruthful'
  BY DEF LeavesReady, StatusTruthful
<1> QED
  BY <1>1, <1>2, <1>3, <1>4

(* Both hooks follow the watchlist store. *)
LEMMA WatchKeeps ==
    ASSUME StreamSound, NEW next \in SUBSET Symbols, Watch(next)
    PROVE  StreamSound'
<1> USE DEF StreamSound
<1>5. seeded' \subseteq Symbols /\ seed' \in [Symbols -> {"none", "asked", "cancelled"}]
  BY SeedTyped DEF Watch
<1>6. /\ UNCHANGED <<up, engineStatus, ws, link, timer, delay, connected, intact, session, subs, round, quotes, troubles>>
      /\ wanted' = next /\ aligned' = (engineStatus # "before") /\ changes < MaxChanges /\ changes' = changes + 1
  BY DEF Watch, server
<1>7. CASE engineStatus = "before"
  BY <1>5, <1>6, <1>7 DEF Watch, TypeOK, ConnectsClean, SubscriptionKept, StatusTruthful
<1>8. CASE engineStatus # "before" /\ link = "none"
  <2>1. SetSymbols(next)
    BY <1>8 DEF Watch
  <2>2. symbols' = next /\ wire' = wire
    BY <1>8, <2>1 DEF SetSymbols, Sent
  <2> QED
    BY <1>5, <1>6, <1>8, <2>2 DEF TypeOK, ConnectsClean, SubscriptionKept, StatusTruthful
<1>9. CASE engineStatus # "before" /\ link # "none"
  <2>1. SetSymbols(next) /\ ws # NoConn
    BY <1>9 DEF Watch, ConnectsClean
  <2>2. /\ symbols' = next /\ wire' \in Seq(Messages)
        /\ link # "open" => wire' = wire
        /\ (link = "open" /\ intact) => After(subs[ws], wire') = next
    BY <1>6, <2>1, SetSymbolsStep
  <2> QED
    BY <1>5, <1>6, <1>9, <2>2 DEF TypeOK, ConnectsClean, SubscriptionKept, StatusTruthful
<1> QED
  BY <1>7, <1>8, <1>9

(* A seed request ends. *)
LEMMA SeedEndsKeeps ==
    ASSUME StreamSound, NEW s \in Symbols, SeedEnds(s)
    PROVE  StreamSound'
<1> USE DEF StreamSound
<1>1. TypeOK'
  BY DEF SeedEnds, client, server, bounds, TypeOK
<1>2. ConnectsClean'
  BY DEF SeedEnds, client, server, ConnectsClean
<1>3. SubscriptionKept'
  BY DEF SeedEnds, client, server, SubscriptionKept
<1>4. StatusTruthful'
  BY DEF SeedEnds, client, StatusTruthful
<1> QED
  BY <1>1, <1>2, <1>3, <1>4

(* A session begins without symbols. *)
LEMMA AcceptKeeps ==
    ASSUME StreamSound, Accept
    PROVE  StreamSound'
<1> USE DEF StreamSound
<1>1. TypeOK'
  BY DEF Accept, client, seeder, bounds, TypeOK
<1>2. ConnectsClean'
  BY DEF Accept, client, TypeOK, ConnectsClean
<1>3. SubscriptionKept'
  BY DEF Accept, client, SubscriptionKept
<1>4. StatusTruthful'
  BY DEF Accept, client, StatusTruthful
<1> QED
  BY <1>1, <1>2, <1>3, <1>4

(* The session reads the first message. *)
LEMMA ReceiveKeeps ==
    ASSUME StreamSound, Receive
    PROVE  StreamSound'
<1> USE DEF StreamSound
<1>5. /\ wire \in Seq(Messages) /\ wire # <<>> /\ Head(wire) \in Messages /\ Tail(wire) \in Seq(Messages)
      /\ link # "connecting"
  BY DEF Receive, TypeOK, ConnectsClean
<1>6. ASSUME link = "open"
      PROVE  /\ ws \in Conns /\ subs[ws] \in SUBSET Symbols
             /\ subs'[ws] = Updated(subs[ws], Head(wire))
  BY <1>6 DEF Receive, TypeOK, ConnectsClean
<1>7. \A have \in SUBSET Symbols : Updated(have, Head(wire)) \in SUBSET Symbols
  BY <1>5 DEF Updated, Messages
<1>8. link = "open" => After(subs'[ws], wire') = After(subs[ws], wire)
  BY <1>5, <1>6, AfterRead DEF Receive
<1>1. TypeOK'
  BY <1>5, <1>7 DEF Receive, client, seeder, bounds, TypeOK
<1>2. ConnectsClean'
  BY <1>5 DEF Receive, client, ConnectsClean
<1>3. SubscriptionKept'
  BY <1>8 DEF Receive, client, SubscriptionKept
<1>4. StatusTruthful'
  BY DEF Receive, client, StatusTruthful
<1> QED
  BY <1>1, <1>2, <1>3, <1>4

(* A round of pushes begins. *)
LEMMA StartRoundKeeps ==
    ASSUME StreamSound, NEW c \in Conns, StartRound(c)
    PROVE  StreamSound'
<1> USE DEF StreamSound
<1>1. TypeOK'
  BY DEF StartRound, client, seeder, bounds, TypeOK
<1>2. ConnectsClean'
  BY DEF StartRound, client, TypeOK, ConnectsClean
<1>3. SubscriptionKept'
  BY DEF StartRound, client, SubscriptionKept
<1>4. StatusTruthful'
  BY DEF StartRound, client, StatusTruthful
<1> QED
  BY <1>1, <1>2, <1>3, <1>4

(* A push touches no subscription. *)
LEMMA PushKeeps ==
    ASSUME StreamSound, NEW c \in Conns, NEW s \in Symbols, Push(c, s)
    PROVE  StreamSound'
<1> USE DEF StreamSound
<1>1. TypeOK'
  BY DEF Push, client, seeder, bounds, TypeOK
<1>2. ConnectsClean'
  BY DEF Push, client, TypeOK, ConnectsClean
<1>3. SubscriptionKept'
  BY DEF Push, client, SubscriptionKept
<1>4. StatusTruthful'
  BY DEF Push, client, StatusTruthful
<1> QED
  BY <1>1, <1>2, <1>3, <1>4

(* A session ends on a socket that no longer carries frames. *)
LEMMA EndSessionKeeps ==
    ASSUME StreamSound, NEW c \in Conns, EndSession(c)
    PROVE  StreamSound'
<1> USE DEF StreamSound
<1>1. TypeOK'
  BY DEF EndSession, client, seeder, bounds, TypeOK
<1>2. ConnectsClean'
  BY DEF EndSession, client, TypeOK, ConnectsClean
<1>3. SubscriptionKept'
  BY DEF EndSession, client, TypeOK, ConnectsClean, SubscriptionKept
<1>4. StatusTruthful'
  BY DEF EndSession, client, StatusTruthful
<1> QED
  BY <1>1, <1>2, <1>3, <1>4

(* The engine goes with all of its sessions. *)
LEMMA EngineStopsKeeps ==
    ASSUME StreamSound, EngineStops
    PROVE  StreamSound'
<1> USE DEF StreamSound
<1>1. TypeOK'
  <2>1. changes' \in 0..MaxChanges /\ troubles' \in 0..MaxTroubles
    BY DEF EngineStops, Trouble, TypeOK
  <2>2. wire' \in Seq(Messages) /\ delay' \in 1..MaxDelay
    BY DEF EngineStops, client, TypeOK
  <2> QED
    BY <2>1, <2>2 DEF EngineStops, client, server, seeder, TypeOK
<1>2. ConnectsClean'
  BY DEF EngineStops, Trouble, client, server, TypeOK, ConnectsClean
<1>3. SubscriptionKept'
  BY DEF EngineStops, Trouble, client, server, SubscriptionKept
<1>4. StatusTruthful'
  BY DEF EngineStops, client, StatusTruthful
<1> QED
  BY <1>1, <1>2, <1>3, <1>4

(* The engine comes back. *)
LEMMA EngineStartsKeeps ==
    ASSUME StreamSound, EngineStarts
    PROVE  StreamSound'
<1> USE DEF StreamSound
<1>1. TypeOK'
  BY DEF EngineStarts, Trouble, client, server, seeder, bounds, TypeOK
<1>2. ConnectsClean'
  BY DEF EngineStarts, Trouble, client, server, TypeOK, ConnectsClean
<1>3. SubscriptionKept'
  BY DEF EngineStarts, Trouble, client, server, SubscriptionKept
<1>4. StatusTruthful'
  BY DEF EngineStarts, client, StatusTruthful
<1> QED
  BY <1>1, <1>2, <1>3, <1>4

(* The socket stops carrying frames. *)
LEMMA SocketBreaksKeeps ==
    ASSUME StreamSound, SocketBreaks
    PROVE  StreamSound'
<1> USE DEF StreamSound
<1>1. TypeOK'
  <2>1. changes' \in 0..MaxChanges /\ troubles' \in 0..MaxTroubles
    BY DEF SocketBreaks, Trouble, TypeOK
  <2>2. wire' \in Seq(Messages) /\ delay' \in 1..MaxDelay
    BY DEF SocketBreaks, client, TypeOK
  <2> QED
    BY <2>1, <2>2 DEF SocketBreaks, client, server, seeder, TypeOK
<1>2. ConnectsClean'
  BY DEF SocketBreaks, Trouble, client, server, TypeOK, ConnectsClean
<1>3. SubscriptionKept'
  BY DEF SocketBreaks, Trouble, client, server, SubscriptionKept
<1>4. StatusTruthful'
  BY DEF SocketBreaks, client, StatusTruthful
<1> QED
  BY <1>1, <1>2, <1>3, <1>4

-----------------------------------------------------------------------------
(* The theorem                                                             *)

LEMMA StreamInit == Init => StreamSound
<1> SUFFICES ASSUME Init PROVE StreamSound
  OBVIOUS
<1>1. TypeOK
  <2>1. wire \in Seq(Messages) /\ delay \in 1..MaxDelay /\ changes \in 0..MaxChanges /\ troubles \in 0..MaxTroubles
    BY DEF Init, MaxDelay
  <2> QED
    BY <2>1 DEF Init, TypeOK
<1>2. ConnectsClean /\ SubscriptionKept /\ StatusTruthful
  BY DEF Init, ConnectsClean, SubscriptionKept, StatusTruthful
<1> QED
  BY <1>1, <1>2 DEF StreamSound

LEMMA StreamKeeps ==
    ASSUME StreamSound, [Next]_vars
    PROVE  StreamSound'
<1>1. CASE UNCHANGED vars
  BY <1>1 DEF vars, client, server, seeder, bounds, StreamSound, TypeOK, ConnectsClean, SubscriptionKept,
              StatusTruthful
<1>2. CASE StreamStep
  BY <1>2, OnOpenKeeps, OnCloseKeeps, TimerFiresKeeps DEF StreamStep
<1>3. CASE HookStep
  BY <1>3, BecomesReadyKeeps, LeavesReadyKeeps, WatchKeeps DEF HookStep
<1>4. CASE SeedStep
  BY <1>4, SeedEndsKeeps DEF SeedStep
<1>5. CASE EngineStep
  BY <1>5, AcceptKeeps, ReceiveKeeps, StartRoundKeeps, PushKeeps, EndSessionKeeps DEF EngineStep, PushStep
<1>6. CASE OutsideStep
  BY <1>6, EngineStopsKeeps, EngineStartsKeeps, SocketBreaksKeeps DEF OutsideStep
<1> QED
  BY <1>1, <1>2, <1>3, <1>4, <1>5, <1>6 DEF Next

(* The subscription survives every reconnection and every change of the     *)
(* watchlist, and streamConnected tells the state of the socket (lib/ws.ts, *)
(* useMarketStream.ts), however often the engine or the socket fails.       *)
THEOREM StreamSoundCorrect == Spec => []StreamSound
<1>1. Init => StreamSound
  BY StreamInit
<1>2. StreamSound /\ [Next]_vars => StreamSound'
  BY StreamKeeps
<1> QED
  BY <1>1, <1>2, PTL DEF Spec

-----------------------------------------------------------------------------
(* The seeder                                                              *)

(* A request that is under way, cancelled or not, is in the seeder's ref. *)
Underway == \A s \in Symbols : seed[s] # "none" => s \in seeded

(* No effect asks for a symbol that is asked for already. *)
NeverTwice ==
    \A s \in Symbols : seed[s] # "none" =>
        \/ seed'[s] \in {"cancelled", "none"}
        \/ seed'[s] = seed[s] /\ UNCHANGED <<engineStatus, wanted>>

LEMMA SeedAsksOnce ==
    ASSUME TypeOK, Underway, NEW ready \in BOOLEAN, NEW want \in SUBSET Symbols, Seed(ready, want)
    PROVE  Underway' /\ NeverTwice
<1> DEFINE missing == IF ready THEN want \ seeded ELSE {}
<1>1. missing \cap seeded = {} /\ seed \in [Symbols -> {"none", "asked", "cancelled"}]
  BY DEF TypeOK
<1>2. /\ seeded' = seeded \cup missing
      /\ seed' = [s \in Symbols |-> IF s \in missing THEN "asked"
                                     ELSE IF seed[s] = "asked" THEN "cancelled"
                                     ELSE seed[s]]
  BY DEF Seed
<1> HIDE DEF missing
<1> QED
  BY <1>1, <1>2 DEF Underway, NeverTwice

LEMMA UnderwayStep ==
    ASSUME StreamSound, Underway, [Next]_vars
    PROVE  Underway' /\ (NeverTwice \/ UNCHANGED vars)
<1> USE DEF StreamSound
<1>1. CASE BecomesReady
  BY <1>1, SeedAsksOnce DEF BecomesReady, TypeOK
<1>2. CASE LeavesReady
  BY <1>2, SeedAsksOnce DEF LeavesReady, TypeOK
<1>3. ASSUME NEW next \in SUBSET Symbols, Watch(next)
      PROVE  Underway' /\ NeverTwice
  BY <1>3, SeedAsksOnce DEF Watch
<1>4. ASSUME NEW s \in Symbols, SeedEnds(s)
      PROVE  Underway' /\ NeverTwice
  <2>1. seed' = [seed EXCEPT ![s] = "none"] /\ seed \in [Symbols -> {"none", "asked", "cancelled"}]
    BY <1>4 DEF SeedEnds, TypeOK
  <2>2. UNCHANGED <<engineStatus, wanted>> /\ (seeded' = seeded \/ seeded' = seeded \ {s})
    BY <1>4 DEF SeedEnds
  <2> QED
    BY <2>1, <2>2 DEF Underway, NeverTwice
<1>5. CASE UNCHANGED <<seeded, seed, engineStatus, wanted>>
  BY <1>5 DEF Underway, NeverTwice
<1>6. StreamStep => UNCHANGED <<seeded, seed, engineStatus, wanted>>
  BY DEF StreamStep, OnOpen, OnClose, TimerFires, seeder
<1>7. EngineStep => UNCHANGED <<seeded, seed, engineStatus, wanted>>
  BY DEF EngineStep, Accept, Receive, PushStep, StartRound, Push, EndSession, seeder
<1>8. OutsideStep => UNCHANGED <<seeded, seed, engineStatus, wanted>>
  BY DEF OutsideStep, EngineStops, EngineStarts, SocketBreaks, seeder
<1>9. UNCHANGED vars => UNCHANGED <<seeded, seed, engineStatus, wanted>>
  BY DEF vars, seeder
<1> QED
  BY <1>1, <1>2, <1>3, <1>4, <1>5, <1>6, <1>7, <1>8, <1>9 DEF Next, HookStep, SeedStep

(* A symbol is not asked for again while its request is under way, whatever *)
(* the status and the watchlist do meanwhile (useQuoteSeeder.ts).           *)
THEOREM SeededOnceCorrect == Spec => SeededOnce
<1>1. Init => Underway
  BY DEF Init, Underway
<1>2. StreamSound /\ Underway /\ [Next]_vars => Underway'
  BY UnderwayStep
<1>3. StreamSound /\ Underway /\ [Next]_vars => [NeverTwice]_vars
  BY UnderwayStep
<1>4. SeededOnce <=> [][NeverTwice]_vars
  BY PTL DEF SeededOnce, NeverTwice
<1> QED
  BY <1>1, <1>2, <1>3, <1>4, StreamSoundCorrect, PTL DEF Spec
=============================================================================
