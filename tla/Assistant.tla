------------------------------ MODULE Assistant ------------------------------
(***************************************************************************)
(* Settings, secrets and the life of an AI provider: app/settings,          *)
(* app/core/security.py, app/ai/factory.py and app/ai/service.py.           *)
(* PUT handlers run in threads of their own and use a transaction per       *)
(* setting; an AI request reads the settings one after the other, builds a  *)
(* provider, asks it once and closes it.  The engine may stop at any point  *)
(* and start again with the keychain available or not.                      *)
(***************************************************************************)
EXTENDS Naturals, Sequences, FiniteSets, SequencesExt, Lists

CONSTANTS
    Threads,        \* threads of the pool that run PUT handlers
    AiModels,       \* model names a user may select
    Orders,         \* data provider orders a user may send
    Null,           \* no row, no value
    Junk,           \* a JSON value of a type the engine does not expect, or a key
    JsonNull,       \* the JSON value null, stored in a row
    Unhashable,     \* a JSON list that holds a list
    BlankKey,          \* a key of blanks, which strip() leaves empty
    Raises,         \* what a reader that raises returns
    MaxPuts,        \* bound: PUT requests of a behaviour
    MaxRestarts,    \* bound: restarts of a behaviour
    MaxRequests     \* bound: AI requests of a behaviour

\* Master keys are numbered, and "no key" is none of them; the body of a PUT
\* holds a list of names.
ASSUME AstAssumption ==
    /\ Null \notin Nat /\ Null # BlankKey
    /\ Orders \subseteq Seq(STRING)

DATA_PROVIDERS == {"finnhub", "yfinance"}
\* "openai" differs from "anthropic" in nothing that this module keeps.
AI_PROVIDERS == {"anthropic", "gemini", "ollama"}
NeedsKey == {"finnhub", "anthropic", "gemini"}
DEFAULT_PROVIDER_ORDER == <<"finnhub", "yfinance">>
DEFAULT_AI_PROVIDER == "anthropic"

SettingKeys == {"data.provider_order", "ai.active_provider", "ai.model"}
SecretKeys == {"anthropic"}

VARIABLES
    rows,       \* SettingRow.value and SecretRow.ciphertext by primary key
    thread,     \* per thread: the settings still to write and what s.get found
    chosen,     \* the pairs of provider and model that PUT /ai/provider was asked to store
    running,    \* whether the lifespan came to its yield
    box,        \* master key of the SecretBox of this process
    keychainUp, \* whether the keychain answered when the process started
    keychain,   \* master key in the keychain
    keyFile,    \* master key in .master.key
    request,    \* the AI request in progress
    openClients,\* network clients of AI providers not closed yet
    analyses,   \* AiReportRow: (provider, model) of the stored reports
    puts, restarts, requests    \* bounded counters

astVars == <<rows, thread, chosen, running, box, keychainUp, keychain, keyFile,
             request, openClients, analyses, puts, restarts, requests>>

NoRequest == [pc |-> "none", name |-> Null, model |-> Null, replied |-> FALSE]
Resting == [todo |-> <<>>, found |-> Null]

-----------------------------------------------------------------------------
(* Reading the settings                                                    *)

\* Both look the stored value up in a dict, which raises for a value that
\* cannot be hashed; of a list, each element is looked up.
get_provider_order ==
    LET order == rows["data.provider_order"]
        known == Keep(order, DATA_PROVIDERS)
    IN  IF order = Unhashable THEN Raises
        ELSE IF order \in {Null, Junk, <<>>} \/ known = <<>> THEN DEFAULT_PROVIDER_ORDER
        ELSE known

get_active_ai_provider ==
    LET provider == rows["ai.active_provider"]
    IN  IF provider = Unhashable THEN Raises
        ELSE IF provider \in AI_PROVIDERS THEN provider
        ELSE DEFAULT_AI_PROVIDER

get_ai_model == IF rows["ai.model"] \in AiModels THEN rows["ai.model"] ELSE Null

is_configured(provider) == provider \in SecretKeys /\ rows[provider] # Null

\* SecretsService.get: None when there is no row or the box cannot decrypt it.
SecretOf(provider) ==
    IF ~(is_configured(provider) /\ rows[provider].masterKey = box) THEN Null
    ELSE IF rows[provider].blank THEN BlankKey
    ELSE rows[provider]

\* build_ai_provider finds no key, or an empty one.
NoKey(provider) == provider \in NeedsKey /\ (SecretOf(provider) = Null \/ rows[provider].blank)

\* AIService.status: "ready", if it answers at all.
\* Mutant: any stored key makes the active provider ready.
AiReady_AnyKey ==
    /\ get_active_ai_provider # Raises
    /\ get_active_ai_provider \in NeedsKey => \E p \in AI_PROVIDERS : is_configured(p)

AiReady ==
    /\ get_active_ai_provider # Raises
    /\ get_active_ai_provider \in NeedsKey => is_configured(get_active_ai_provider)

\* The lifespan builds the data layer from the provider order and logs the
\* status of the assistant: an exception of either ends the start.
StartsUp == get_provider_order # Raises /\ get_active_ai_provider # Raises

-----------------------------------------------------------------------------
(* Writing: one transaction per setting, s.get and then INSERT or UPDATE   *)

\* The handlers: which settings they write, in which order.
SetProvider(p, model) == << <<"ai.active_provider", p>>, <<"ai.model", model>> >>
SetProviderOrder(order) == << <<"data.provider_order", Keep(order, DATA_PROVIDERS)>> >>
SetSetting(key, value) == << <<key, value>> >>
SetSecret(p, blank) == << <<p, [masterKey |-> box, up |-> keychainUp, blank |-> blank]>> >>

Handlers == {SetProvider(p, m) : p \in AI_PROVIDERS, m \in AiModels \cup {JsonNull}}
            \cup {SetProviderOrder(o) : o \in Orders}
            \cup {SetSetting(k, v) : k \in SettingKeys \ {"ai.model"}, v \in {Junk, Unhashable}}
            \cup {SetSecret(p, blank) : p \in SecretKeys, blank \in BOOLEAN}

Put(t, job) ==
    /\ running /\ thread[t].todo = <<>> /\ puts < MaxPuts
    /\ thread' = [thread EXCEPT ![t] = [todo |-> job, found |-> Null]]
    /\ chosen' = IF job[1][1] = "ai.active_provider" /\ Len(job) = 2
                 THEN chosen \cup {<<job[1][2], job[2][2]>>} ELSE chosen
    /\ puts' = puts + 1
    /\ UNCHANGED <<rows, running, box, keychainUp, keychain, keyFile, request, openClients,
                   analyses, restarts, requests>>

ReadRow(t) ==
    /\ thread[t].todo # <<>> /\ thread[t].found = Null
    /\ thread' = [thread EXCEPT ![t].found = IF rows[Head(thread[t].todo)[1]] = Null THEN "none" ELSE "row"]
    /\ UNCHANGED <<rows, chosen, running, box, keychainUp, keychain, keyFile, request, openClients,
                   analyses, puts, restarts, requests>>

\* An INSERT of a key that another thread has inserted meanwhile, and an UPDATE
\* of a row that is gone, raise: the rest of the handler is not run.
WriteRow(t) ==
    LET key == Head(thread[t].todo)[1]
        value == Head(thread[t].todo)[2]
        fails == (thread[t].found = "none") # (rows[key] = Null)
    IN  /\ thread[t].todo # <<>> /\ thread[t].found # Null
        /\ rows' = IF fails THEN rows ELSE [rows EXCEPT ![key] = value]
        /\ thread' = [thread EXCEPT ![t] = IF fails THEN Resting ELSE [todo |-> Tail(@.todo), found |-> Null]]
        /\ UNCHANGED <<chosen, running, box, keychainUp, keychain, keyFile, request, openClients,
                       analyses, puts, restarts, requests>>

DeleteSecret(p) ==
    /\ running /\ rows[p] # Null
    /\ rows' = [rows EXCEPT ![p] = Null]
    /\ UNCHANGED <<thread, chosen, running, box, keychainUp, keychain, keyFile, request, openClients,
                   analyses, puts, restarts, requests>>

-----------------------------------------------------------------------------
(* The master key                                                          *)

\* _load_or_create_master_key: n names a key that was never used before.
\* Mutant: without a keychain, a new key is written over the file's.
LoadMasterKey_Overwrites(up, n) ==
    /\ box' = IF up /\ keychain # Null THEN keychain ELSE n
    /\ keychain' = IF up THEN box' ELSE keychain
    /\ keyFile' = IF up THEN keyFile ELSE box'

LoadMasterKey(up, n) ==
    /\ box' = IF up THEN (IF keychain # Null THEN keychain ELSE n)
              ELSE (IF keyFile # Null THEN keyFile ELSE n)
    /\ keychain' = IF up THEN box' ELSE keychain
    /\ keyFile' = IF up THEN keyFile ELSE box'

\* The engine stops, whatever it was doing, and starts again.
Restart(up) ==
    /\ restarts < MaxRestarts
    /\ restarts' = restarts + 1
    /\ LoadMasterKey(up, restarts + 1)
    /\ keychainUp' = up
    /\ thread' = [t \in Threads |-> Resting]
    /\ request' = NoRequest
    /\ openClients' = 0
    /\ running' = StartsUp
    /\ UNCHANGED <<rows, chosen, analyses, puts, requests>>

-----------------------------------------------------------------------------
(* An AI request: analyze, classify_news or chat                           *)

Request(pc, name, model, replied) == [pc |-> pc, name |-> name, model |-> model, replied |-> replied]

BeginRequest ==
    /\ running /\ request.pc = "none" /\ requests < MaxRequests
    /\ requests' = requests + 1
    /\ request' = Request("name", Null, Null, FALSE)
    /\ UNCHANGED <<rows, thread, chosen, running, box, keychainUp, keychain, keyFile, openClients,
                   analyses, puts, restarts>>

ReadProvider ==
    /\ request.pc = "name"
    /\ request' = IF get_active_ai_provider = Raises THEN NoRequest
                  ELSE Request("model", get_active_ai_provider, Null, FALSE)
    /\ UNCHANGED <<rows, thread, chosen, running, box, keychainUp, keychain, keyFile, openClients,
                   analyses, puts, restarts, requests>>

ReadModel ==
    /\ request.pc = "model"
    /\ request' = Request("key", request.name, get_ai_model, FALSE)
    /\ UNCHANGED <<rows, thread, chosen, running, box, keychainUp, keychain, keyFile, openClients,
                   analyses, puts, restarts, requests>>

\* build_ai_provider: without a key there is no provider; the request is
\* answered with 503 (and with 500 where reading the settings raised).
BuildProvider ==
    /\ request.pc = "key"
    /\ IF NoKey(request.name)
       THEN request' = NoRequest /\ UNCHANGED openClients
       ELSE request' = [request EXCEPT !.pc = "complete"] /\ openClients' = openClients + 1
    /\ UNCHANGED <<rows, thread, chosen, running, box, keychainUp, keychain, keyFile, analyses,
                   puts, restarts, requests>>

\* The provider answers, fails (ProviderError), or the client goes away while
\* a chat streams; "finally" closes the network client in all three cases.
Complete(replied) ==
    /\ request.pc = "complete"
    /\ request' = [request EXCEPT !.pc = "close", !.replied = replied]
    /\ UNCHANGED <<rows, thread, chosen, running, box, keychainUp, keychain, keyFile, openClients,
                   analyses, puts, restarts, requests>>

\* aclose(); an analysis that was answered is then stored.
CloseProvider(stored) ==
    /\ request.pc = "close"
    /\ stored => request.replied
    /\ openClients' = openClients - 1
    /\ analyses' = IF stored THEN analyses \cup {<<request.name, request.model>>} ELSE analyses
    /\ request' = NoRequest
    /\ UNCHANGED <<rows, thread, chosen, running, box, keychainUp, keychain, keyFile, puts, restarts, requests>>

-----------------------------------------------------------------------------
(* Testing a key                                                           *)

Replies == {"accepted", "limited", "denied", "error", "empty", "unreachable"}

\* A rate limit shows that the key was accepted; a failing connection raises.
_verify_finnhub(key, reply) ==
    [tested |-> key,
     raised |-> reply = "unreachable", ok |-> reply \in {"accepted", "limited"}]

\* The SDKs of the AI providers raise for every reply that is no list of
\* models; Gemini's list must not be empty.
_verify_sdk(key, reply) == [tested |-> key, raised |-> FALSE, ok |-> reply \in {"accepted", "empty"}]

_verify_gemini(key, reply) == [tested |-> key, raised |-> FALSE, ok |-> reply = "accepted"]

_verify_ollama(reply) == [tested |-> Null, raised |-> FALSE, ok |-> reply = "accepted"]

NotTested(ok) == [tested |-> Null, raised |-> FALSE, ok |-> ok]

verify_provider_key(provider, key, reply) ==
    CASE provider \notin DATA_PROVIDERS \cup AI_PROVIDERS -> NotTested(FALSE)
      [] provider = "ollama" -> _verify_ollama(reply)
      [] provider = "yfinance" -> NotTested(TRUE)
      [] provider \in NeedsKey /\ key \in {Null, BlankKey} -> NotTested(FALSE)
      [] provider = "finnhub" /\ key \notin {Null, BlankKey} -> _verify_finnhub(key, reply)
      [] provider = "gemini" /\ key \notin {Null, BlankKey} -> _verify_gemini(key, reply)
      [] OTHER -> _verify_sdk(key, reply)

\* POST /secrets/{provider}/verify: the key of the body, else the stored one.
verify_secret(provider, supplied, reply) ==
    verify_provider_key(provider, IF supplied # Null THEN supplied ELSE SecretOf(provider), reply)

-----------------------------------------------------------------------------
(* Specification                                                           *)

AstInit ==
    /\ rows = [k \in SettingKeys \cup SecretKeys |-> Null]
    /\ chosen = {} /\ running = TRUE
    /\ thread = [t \in Threads |-> Resting]
    /\ box = 0
    /\ \/ keychainUp = TRUE /\ keychain = 0 /\ keyFile = Null
       \/ keychainUp = FALSE /\ keychain = Null /\ keyFile = 0
    /\ request = NoRequest /\ openClients = 0 /\ analyses = {}
    /\ puts = 0 /\ restarts = 0 /\ requests = 0

AiStep ==
    \/ BeginRequest \/ ReadProvider \/ ReadModel \/ BuildProvider
    \/ \E replied \in BOOLEAN : Complete(replied)
    \/ \E stored \in BOOLEAN : CloseProvider(stored)

AstNext ==
    \/ \E t \in Threads : (\E job \in Handlers : Put(t, job)) \/ ReadRow(t) \/ WriteRow(t)
    \/ \E p \in SecretKeys : DeleteSecret(p)
    \/ \E up \in BOOLEAN : Restart(up)
    \/ AiStep

AstSpec == AstInit /\ [][AstNext]_astVars

-----------------------------------------------------------------------------
(* Properties                                                              *)

\* The network client of a provider is open exactly while its request runs,
\* whether the provider answers, fails or the client goes away.
ClientsClosed == openClients = IF request.pc \in {"complete", "close"} THEN 1 ELSE 0

\* What ai/factory.py says of a missing key: the status is "not ready" whenever
\* a request made now would get no provider.  It is not so of two kinds of stored
\* keys: one of blanks, which is stripped to nothing after its length was checked,
\* and one stored while the keychain was there that the engine now runs without,
\* or the other way round.
ReadyUnlessOdd ==
    LET name == get_active_ai_provider
    IN  AiReady => \/ ~NoKey(name)
                   \/ is_configured(name) /\ (rows[name].blank \/ rows[name].up # keychainUp)

\* "Verified" is said only of a key that the provider accepted: the one the
\* user typed if there is one, else the stored one, which a secret that cannot
\* be decrypted is not.
VerifiedMeansAccepted ==
    \A provider \in NeedsKey, supplied \in {Null, BlankKey, Junk}, reply \in Replies :
        LET result == verify_secret(provider, supplied, reply)
        IN  result.ok = TRUE =>
                /\ reply \in {"accepted", "limited"} \/ (reply = "empty" /\ provider = "anthropic")
                /\ result.tested \notin {Null, BlankKey}
                /\ IF supplied # Null THEN result.tested = supplied
                   ELSE result.tested = rows[provider] /\ result.tested.masterKey = box

\* A secret outlives restarts: while the keychain is as available as when the
\* secret was stored, it can be decrypted.
SecretsSurviveRestart ==
    \A p \in SecretKeys : is_configured(p) /\ rows[p].up = keychainUp => SecretOf(p) # Null

\* What the engine says of an AI provider is true of the one a request gets.
AssistantSound ==
    /\ ReadyUnlessOdd
    /\ VerifiedMeansAccepted
    /\ ClientsClosed

\* The model of the settings is an override "for the active provider"
\* (settings/service.py:85): whenever no PUT is under way, the stored provider
\* and model are a pair that some PUT was asked to store.
ModelOfProvider ==
    LET pair == <<rows["ai.active_provider"], rows["ai.model"]>>
    IN  (\A t \in Threads : thread[t] = Resting) /\ pair[1] \in AI_PROVIDERS => pair \in chosen
=============================================================================
