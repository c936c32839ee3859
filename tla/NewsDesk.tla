------------------------------ MODULE NewsDesk ------------------------------
(***************************************************************************)
(* News, its classification by the AI and the commentary built on it:       *)
(* app/news, AIService.classify_news and app/commentator.  Feeds answer or  *)
(* fail independently; the AI's answer is text that may or may not hold the *)
(* array it was asked for.  Between reading articles and using the answer   *)
(* other requests store news.                                               *)
(***************************************************************************)
EXTENDS Integers, Sequences, FiniteSets, SequencesExt, FiniteSetsExt, Lists

CONSTANTS
    Feeds,          \* general sources, in order: source -> documents it may answer
    SymbolFeed,     \* documents the feed of the symbol may answer
    Cut,            \* url -> its first 1024 characters
    NoLink,         \* an attribute, a text or a field that is missing
    AiReplies,      \* answers of the AI: sequences of verdicts and other values
    Unparsable,     \* an answer without a JSON array
    Raised,         \* an exception
    NotANumber, Infinite,   \* what the AI may give for a rating, NotANumber for an index too
    NotAnObject,    \* an element of the array that is not an object
    NewsLimit,      \* "limit" of the requests
    MaxFetches      \* bound: stores of a behaviour

VARIABLES
    news,       \* NewsRow by id: [url, tagged, published]; tagged with the symbol or not
    delivered,  \* urls of the articles that sources delivered in a storable batch
    desk,       \* the commentary request in progress
    report,     \* the report it answered last, with what it was built from
    fetches     \* bounded counter

newsVars == <<news, delivered, desk, report, fetches>>

Quiet == [pc |-> "idle", articles |-> <<>>, listed |-> <<>>]
NoReport == [articles |-> <<>>, listed |-> <<>>, reply |-> Unparsable, opinions |-> <<>>]

-----------------------------------------------------------------------------
(* parser.py.  An element is [item, title, links, published]; a link has    *)
(* its text (RSS) or its href and rel (Atom).                               *)

\* The first link that is a text or an alternate; else the first href.
_child_link(links) ==
    LET direct == {i \in DOMAIN links : \/ links[i].text # NoLink
                                        \/ links[i].href # NoLink /\ links[i].rel \in {NoLink, "alternate"}}
        others == {i \in DOMAIN links : links[i].href # NoLink}
        Of(i) == IF links[i].text # NoLink THEN links[i].text ELSE links[i].href
    IN  IF direct # {} THEN Of(Min(direct)) ELSE IF others # {} THEN links[Min(others)].href ELSE NoLink

\* A document that is no XML has no elements.
parse_feed(elements, tagged) ==
    LET articles == AtPlaces(elements, {i \in DOMAIN elements :
            elements[i].item /\ elements[i].title /\ _child_link(elements[i].links) # NoLink})
    IN  [i \in DOMAIN articles |->
            [url |-> _child_link(articles[i].links), tagged |-> tagged, published |-> articles[i].published]]

-----------------------------------------------------------------------------
(* service.py                                                              *)

\* The articles of the sources that answered.
\* Mutant: one source that fails fails the refresh.
Gathered_AllOrNone(results) ==
    IF \E s \in DOMAIN results : results[s] = Raised THEN <<>>
    ELSE Concat([s \in DOMAIN results |-> parse_feed(results[s], FALSE)])

Gathered(results) ==
    Concat([s \in DOMAIN results |-> IF results[s] = Raised THEN <<>> ELSE parse_feed(results[s], FALSE)])

\* _store: of two items with a url the place of the first and the content of
\* the last; a url is looked up whole and stored cut, so an over-long one may
\* violate the unique index, which loses the batch.
Fresh(items) ==
    LET first == {i \in DOMAIN items : \A j \in 1 .. i - 1 : items[j].url # items[i].url}
        last == [i \in DOMAIN items |-> items[Max({j \in DOMAIN items : items[j].url = items[i].url})]]
    IN  AtPlaces(last, {i \in first : \A r \in DOMAIN news : news[r].url # items[i].url})

UniqueUrls(table) == IsInjective([i \in DOMAIN table |-> table[i].url])

_store(items) ==
    LET fresh == Fresh(items)
        all == news \o [i \in DOMAIN fresh |-> [fresh[i] EXCEPT !.url = Cut[fresh[i].url]]]
    IN  IF UniqueUrls(all) THEN all ELSE Raised

\* ORDER BY published_at DESC, id DESC: without a date last.
Newest(table, ids, limit) ==
    LET newer == {pair \in ids \X ids :
                    \/ table[pair[1]].published > table[pair[2]].published
                    \/ table[pair[1]].published = table[pair[2]].published /\ pair[1] > pair[2]}
    IN  Upto(limit, InOrder(ids, newer))

\* get_for_symbol: what the feed lists, or what is stored for the symbol.
SymbolArticles(table, items) ==
    Newest(table, {i \in DOMAIN table : IF items = <<>> THEN table[i].tagged
                                        ELSE \E k \in DOMAIN items : items[k].url = table[i].url}, NewsLimit)

-----------------------------------------------------------------------------
(* AIService.classify_news.  A verdict is [index, about, sentiment, rating]; *)
(* "about", the article the AI means (from 0), is for the properties only:  *)
(* the one of the index or, without an index, of the place in the answer.   *)

_coerce_sentiment(value) == IF value \in {"bullish", "bearish"} THEN value ELSE "neutral"

\* float("inf") rounds to no integer and raises OverflowError.
_coerce_rating(value) ==
    CASE value = NotANumber -> 3
      [] value = Infinite -> Raised
      [] OTHER -> IF value < 1 THEN 1 ELSE IF value > 5 THEN 5 ELSE value

_parse_json_array(reply) ==
    IF reply = Unparsable THEN <<>> ELSE AtPlaces(reply, {k \in DOMAIN reply : reply[k] # NotAnObject})

NoVerdict == [index |-> NoLink, about |-> NoLink, sentiment |-> NoLink, rating |-> NotANumber]

\* The verdict of the article with number i: the last one with that index; a
\* verdict without an index has its place.
\* Mutant: verdicts are taken in their order.
VerdictOf_ByPlace(verdicts, i) == IF i + 1 \in DOMAIN verdicts THEN verdicts[i + 1] ELSE NoVerdict

VerdictOf(verdicts, i) ==
    LET at == {k \in DOMAIN verdicts : (IF verdicts[k].index = NoLink THEN k - 1 ELSE verdicts[k].index) = i}
    IN  IF at = {} THEN NoVerdict ELSE verdicts[Max(at)]

\* int() of an index that is no number raises, as the rating "inf" does.
classify_news(articles, reply) ==
    LET verdicts == _parse_json_array(reply)
        out == [i \in DOMAIN articles |->
                  LET v == VerdictOf(verdicts, i - 1)
                  IN  [article |-> articles[i], about |-> v.about,
                       sentiment |-> _coerce_sentiment(v.sentiment), rating |-> _coerce_rating(v.rating)]]
    IN  IF \/ \E k \in DOMAIN verdicts : verdicts[k].index = NotANumber
           \/ \E i \in DOMAIN out : out[i].rating = Raised
        THEN Raised ELSE out

-----------------------------------------------------------------------------
(* commentator                                                             *)

\* The verdict of the article with the same url; articles without one are left out.
_merge_opinions(articles, verdicts) ==
    LET judged == AtPlaces(articles, {i \in DOMAIN articles : \E k \in DOMAIN verdicts : verdicts[k].article = articles[i]})
    IN  [i \in DOMAIN judged |-> verdicts[CHOOSE k \in DOMAIN verdicts : verdicts[k].article = judged[i]]]

_neutral_opinions(articles) ==
    [i \in 1 .. Min({Len(articles), 8}) |->
        [article |-> articles[i], about |-> NoLink, sentiment |-> "neutral", rating |-> 2]]

Weight(opinions, sentiment) ==
    ListSum([i \in DOMAIN opinions |-> IF opinions[i].sentiment = sentiment THEN opinions[i].rating ELSE 0])

\* Mutant: the larger of two sides is named however near they are.
compute_consensus_Nearest(opinions) ==
    LET w == [s \in {"bullish", "bearish", "neutral"} |-> Weight(opinions, s)]
    IN  IF opinions = <<>> THEN "neutral" ELSE CHOOSE s \in DOMAIN w : \A r \in DOMAIN w : w[r] <= w[s]

\* Shares of the weight, exact where the code rounds floats; "mixed" if the first two are
\* nearer than 15.
compute_consensus(opinions) ==
    LET w == [s \in {"bullish", "bearish", "neutral"} |-> Weight(opinions, s)]
        total == w["bullish"] + w["bearish"] + w["neutral"]
        top == CHOOSE s \in DOMAIN w : \A r \in DOMAIN w : w[r] <= w[s]
    IN  IF opinions = <<>> THEN "neutral"
        ELSE IF \E r \in DOMAIN w \ {top} : 100 * (w[top] - w[r]) < 15 * total THEN "mixed" ELSE top

\* What the constants say: documents are lists of elements with urls that can
\* be cut; the AI, asked for one object per article in the same order, means the
\* article of the index or, without an index, of the place in its whole answer,
\* elements that are no objects counted; no table is an exception.
Urls == DOMAIN Cut
FeedLinks == [text : Urls \cup {NoLink}, href : Urls \cup {NoLink}, rel : STRING \cup {NoLink}]
FeedElements == [item : BOOLEAN, title : BOOLEAN, links : Seq(FeedLinks), published : Int]
NewsRows == [url : {Cut[u] : u \in Urls}, tagged : BOOLEAN, published : Int]
AiVerdicts == [index : Int \cup {NoLink, NotANumber}, about : Int, sentiment : STRING, rating : Int \cup {NotANumber, Infinite}]

ASSUME NewsAssumption ==
    /\ Feeds \in Seq(SUBSET Seq(FeedElements)) /\ SymbolFeed \in SUBSET Seq(FeedElements)
    /\ AiReplies \in SUBSET Seq(AiVerdicts \cup {NotAnObject})
    /\ \A reply \in AiReplies : \A k \in DOMAIN reply :
          reply[k] # NotAnObject /\ reply[k].index # NotANumber =>
             reply[k].about = IF reply[k].index = NoLink THEN k - 1 ELSE reply[k].index
    /\ Raised \notin Seq(NewsRows) /\ Raised \notin AiReplies
    /\ NewsLimit \in Nat

-----------------------------------------------------------------------------
(* Requests                                                                *)

\* A store of the items; a batch that violates the index is lost.
Store(items) ==
    /\ fetches < MaxFetches /\ fetches' = fetches + 1
    /\ news' = IF _store(items) = Raised THEN news ELSE _store(items)

\* refresh, by POST or by the first GET; Refresh answers 500 when it raises.
Refresh ==
    \E results \in [DOMAIN Feeds -> UNION {Feeds[s] : s \in DOMAIN Feeds} \cup {Raised}] :
        /\ \A s \in DOMAIN Feeds : results[s] \in Feeds[s] \cup {Raised}
        /\ Store(Gathered(results))
        /\ LET urls == {it.url : it \in UNION {ToSet(parse_feed(results[s], FALSE)) :
                                               s \in {t \in DOMAIN results : results[t] # Raised}}}
           IN  delivered' = IF \A u \in urls : Cut[u] = u THEN delivered \cup urls ELSE delivered
        /\ UNCHANGED <<desk, report>>

\* get_for_symbol of a commentary or, after it, of its classify_news: the feed
\* answers or fails; a lost batch fails the first and makes the second neutral.
ReadArticles ==
    /\ desk.pc = "idle"
    /\ \E elements \in SymbolFeed \cup {<<>>} :
        LET items == parse_feed(elements, TRUE)
        IN  /\ Store(items)
            /\ desk' = IF _store(items) = Raised \/ SymbolArticles(news', items) = <<>> THEN Quiet
                       ELSE [pc |-> "list", articles |-> SymbolArticles(news', items), listed |-> <<>>]
    /\ UNCHANGED <<delivered, report>>

Answer(articles, listed, reply, opinions) ==
    /\ report' = [articles |-> articles, listed |-> listed, reply |-> reply, opinions |-> opinions]
    /\ desk' = Quiet

ListArticles ==
    /\ desk.pc = "list"
    /\ \E elements \in SymbolFeed \cup {<<>>} :
        LET items == parse_feed(elements, TRUE)
        IN  /\ Store(items)
            /\ IF _store(items) = Raised
               THEN Answer(desk.articles, <<>>, Unparsable, _neutral_opinions(desk.articles))
               ELSE /\ desk' = [desk EXCEPT !.pc = "ask", !.listed = SymbolArticles(news', items)]
                    /\ UNCHANGED report
    /\ UNCHANGED delivered

\* The AI answers, or there is no provider, or it fails.
AskAi ==
    /\ desk.pc = "ask"
    /\ \E reply \in AiReplies \cup {Unparsable, Raised} :
        LET verdicts == IF reply = Raised THEN Raised ELSE classify_news(desk.listed, reply)
        IN  Answer(desk.articles, desk.listed, reply,
                   IF verdicts = Raised THEN _neutral_opinions(desk.articles)
                   ELSE _merge_opinions(desk.articles, verdicts))
    /\ UNCHANGED <<news, delivered, fetches>>

NewsInit ==
    /\ news = <<>> /\ delivered = {} /\ desk = Quiet /\ report = NoReport /\ fetches = 0

NewsNext == Refresh \/ ReadArticles \/ ListArticles \/ AskAi

NewsSpec == NewsInit /\ [][NewsNext]_newsVars

-----------------------------------------------------------------------------
(* Properties                                                              *)

\* A source that fails, or delivers again what is stored already, costs the
\* articles of no other source, unless the batch holds an over-long url.
DeliveredStored == \A u \in delivered : \E i \in DOMAIN news : news[i].url = u

\* An object of the answer without an index, behind an element that is none.
Misplaced(reply) ==
    /\ reply \notin {Unparsable, Raised}
    /\ \E k \in DOMAIN reply : /\ reply[k] # NotAnObject /\ reply[k].index = NoLink
                              /\ \E j \in 1 .. k - 1 : reply[j] = NotAnObject

\* The verdict that an opinion carries is the one the AI gave on its article.
OnItsArticle(o) ==
    o.about # NoLink => o.about + 1 \in DOMAIN report.listed /\ report.listed[o.about + 1] = o.article

\* Whatever the AI answers and whatever is stored between the two lists, an
\* opinion is about an article the report has read, with the verdict the AI gave
\* on that very article; an answer with a misplaced object is exempt.
OpinionsBelong ==
    \A i \in DOMAIN report.opinions :
        LET o == report.opinions[i]
        IN  /\ o.article \in ToSet(report.articles)
            /\ ~ Misplaced(report.reply) => OnItsArticle(o)

\* No answer of the AI yields a rating outside 1 to 5.
RatingsInRange == \A i \in DOMAIN report.opinions : report.opinions[i].rating \in 1 .. 5

\* The consensus takes no side by itself: where the opinions are turned into
\* their opposites, so is it, ties and near ties included; and a side that has
\* more than three fifths of the weight is named.  (The comment of the code
\* promises "mixed" whenever no side exceeds one half, which it does not keep.)
ConsensusFair ==
    LET opposite == [bullish |-> "bearish", bearish |-> "bullish", neutral |-> "neutral", mixed |-> "mixed"]
        opinions == report.opinions
        turned == [i \in DOMAIN opinions |-> [opinions[i] EXCEPT !.sentiment = opposite[@]]]
        total == ListSum([i \in DOMAIN opinions |-> opinions[i].rating])
    IN  /\ compute_consensus(turned) = opposite[compute_consensus(opinions)]
        /\ \A s \in {"bullish", "bearish", "neutral"} :
              5 * Weight(opinions, s) > 3 * total => compute_consensus(opinions) = s

\* The commentator's report says what the AI said of the articles it names.
VerdictsSound == OpinionsBelong /\ RatingsInRange
=============================================================================
