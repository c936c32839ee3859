--------------------------- MODULE ServicesProofs ---------------------------
(***************************************************************************)
(* Theorems about the services of the engine that MCServices checks in one  *)
(* run, a part of this module for each: Assistant, Startup, Symbols,        *)
(* Providers, Portfolio, Reports, NewsDesk, Calendar.  They hold for any    *)
(* values of the constants that the named assumptions allow, and any bounds.*)
(***************************************************************************)
EXTENDS Assistant, Startup, Symbols, Providers, Portfolio, Reports, NewsDesk, Calendar, ListLemmas

-----------------------------------------------------------------------------
(* Assistant                                                               *)

KeyOf(up) == IF up THEN keychain ELSE keyFile

\* What a PUT handler of a setting may still have to write.
SettingJobs ==
    {SetProvider(p, m) : p \in AI_PROVIDERS, m \in AiModels \cup {JsonNull}}
    \cup {<< <<"ai.model", m>> >> : m \in AiModels \cup {JsonNull}}
    \cup {SetProviderOrder(o) : o \in Orders}
    \cup {SetSetting(k, v) : k \in SettingKeys \ {"ai.model"}, v \in {Junk, Unhashable}}

-----------------------------------------------------------------------------
(* The inductive invariant                                                 *)

(* The process uses the master key of the place it found available. *)
MasterKeys ==
    /\ restarts \in Nat
    /\ keychainUp \in BOOLEAN
    /\ box = KeyOf(keychainUp)
    /\ box # Null

(* A secret was encrypted with the key that its place still holds. *)
Decryptable(secret) ==
    /\ secret.up \in BOOLEAN
    /\ KeyOf(secret.up) # Null
    /\ secret.masterKey = KeyOf(secret.up)

(* So is every stored secret, and every one a thread is about to store. *)
StoredSecrets ==
    /\ DOMAIN rows = SettingKeys \cup SecretKeys
    /\ \A p \in SecretKeys : rows[p] # Null => Decryptable(rows[p])

SettingJob(job) == job = <<>> \/ job \in SettingJobs
SecretJob(job) == \E p \in SecretKeys : \E secret : job = << <<p, secret>> >> /\ Decryptable(secret)

PendingSecrets ==
    /\ DOMAIN thread = Threads
    /\ \A t \in Threads :
         /\ thread[t] = [todo |-> thread[t].todo, found |-> thread[t].found]
         /\ SettingJob(thread[t].todo) \/ SecretJob(thread[t].todo)

ClientOpen ==
    /\ request = Request(request.pc, request.name, request.model, request.replied)
    /\ ClientsClosed

AssistantInv == MasterKeys /\ StoredSecrets /\ PendingSecrets /\ ClientOpen

-----------------------------------------------------------------------------
(* Lemmas                                                                  *)

(* A handler of settings writes settings, one after the other. *)
LEMMA SettingJobShrinks ==
    ASSUME NEW job \in SettingJobs
    PROVE  /\ Head(job)[1] \in SettingKeys
           /\ SettingJob(Tail(job))
<1> DEFINE Good(j) == /\ Head(j)[1] \in SettingKeys
                      /\ SettingJob(Tail(j))
<1>1. ASSUME NEW p \in AI_PROVIDERS, NEW m \in AiModels \cup {JsonNull}
      PROVE  Good(SetProvider(p, m))
  <2>1. SetProvider(p, m) = << <<"ai.active_provider", p>>, <<"ai.model", m>> >>
    BY DEF SetProvider
  <2>2. Head(SetProvider(p, m)) = <<"ai.active_provider", p>> /\ Tail(SetProvider(p, m)) = << <<"ai.model", m>> >>
    BY <2>1
  <2>3. << <<"ai.model", m>> >> \in SettingJobs
    BY DEF SettingJobs
  <2>4. Head(SetProvider(p, m))[1] = "ai.active_provider"
    BY <2>2
  <2>5. SettingJob(Tail(SetProvider(p, m)))
    BY <2>2, <2>3 DEF SettingJob
  <2> QED
    BY <2>4, <2>5 DEF SettingKeys
<1>2. ASSUME NEW key \in SettingKeys, NEW value
      PROVE  Good(<< <<key, value>> >>)
  <2>1. Head(<< <<key, value>> >>) = <<key, value>> /\ Tail(<< <<key, value>> >>) = <<>>
    OBVIOUS
  <2> QED
    BY <1>2, <2>1 DEF SettingJob
<1>3. ASSUME NEW m \in AiModels \cup {JsonNull}
      PROVE  Good(<< <<"ai.model", m>> >>)
  BY <1>2 DEF SettingKeys
<1>4. ASSUME NEW o \in Orders
      PROVE  Good(SetProviderOrder(o))
  BY <1>2 DEF SetProviderOrder, SettingKeys
<1>5. ASSUME NEW k \in SettingKeys \ {"ai.model"}, NEW v \in {Junk, Unhashable}
      PROVE  Good(SetSetting(k, v))
  BY <1>2 DEF SetSetting
<1>6. Good(job)
  <2> HIDE DEF Good
  <2> QED
    BY <1>1, <1>3, <1>4, <1>5 DEF SettingJobs
<1> QED
  BY <1>6

(* What a handler is given to write: settings, or a secret encrypted with *)
(* the key of this process.                                               *)
LEMMA HandlerJobs ==
    ASSUME MasterKeys, NEW job \in Handlers
    PROVE  SettingJob(job) \/ SecretJob(job)
<1>1. CASE job \in {SetSecret(p, blank) : p \in SecretKeys, blank \in BOOLEAN}
  <2>1. PICK p \in SecretKeys, blank \in BOOLEAN : job = SetSecret(p, blank)
    BY <1>1
  <2>2. job = << <<p, [masterKey |-> box, up |-> keychainUp, blank |-> blank]>> >>
    BY <2>1 DEF SetSecret
  <2>3. Decryptable([masterKey |-> box, up |-> keychainUp, blank |-> blank])
    BY DEF MasterKeys, Decryptable
  <2> QED
    BY <2>2, <2>3 DEF SecretJob
<1>2. CASE job \notin {SetSecret(p, blank) : p \in SecretKeys, blank \in BOOLEAN}
  BY <1>2 DEF Handlers, SettingJob, SettingJobs
<1> QED
  BY <1>1, <1>2

(* A key that is in its place stays there, and the process that starts has *)
(* one.                                                                    *)
LEMMA KeysStay ==
    ASSUME MasterKeys, NEW up \in BOOLEAN, Restart(up)
    PROVE  /\ MasterKeys'
           /\ \A b \in BOOLEAN : KeyOf(b) # Null => KeyOf(b)' = KeyOf(b)
<1>1. restarts + 1 \in Nat /\ restarts + 1 # Null /\ restarts' = restarts + 1
  BY AstAssumption DEF MasterKeys, Restart
<1>2. keychainUp' = up /\ LoadMasterKey(up, restarts + 1)
  BY DEF Restart
<1>3. CASE up = TRUE
  BY <1>1, <1>2, <1>3 DEF MasterKeys, KeyOf, LoadMasterKey
<1>4. CASE up = FALSE
  BY <1>1, <1>2, <1>4 DEF MasterKeys, KeyOf, LoadMasterKey
<1> QED
  BY <1>3, <1>4

-----------------------------------------------------------------------------
(* The invariant is inductive                                              *)

LEMMA AssistantStarts == AstInit => AssistantInv
<1> SUFFICES ASSUME AstInit PROVE AssistantInv
  OBVIOUS
<1>1. MasterKeys
  <2>1. 0 # Null /\ box = 0 /\ restarts = 0
    BY AstAssumption DEF AstInit
  <2>2. CASE keychainUp = TRUE /\ keychain = 0
    BY <2>1, <2>2 DEF MasterKeys, KeyOf
  <2>3. CASE keychainUp = FALSE /\ keyFile = 0
    BY <2>1, <2>3 DEF MasterKeys, KeyOf
  <2> QED
    BY <2>2, <2>3 DEF AstInit
<1>2. StoredSecrets
  <2>1. DOMAIN rows = SettingKeys \cup SecretKeys
    BY DEF AstInit
  <2>2. \A p \in SecretKeys : rows[p] = Null
    BY DEF AstInit
  <2> QED
    BY <2>1, <2>2 DEF StoredSecrets
<1>3. PendingSecrets
  BY DEF AstInit, PendingSecrets, Resting, SettingJob
<1>4. ClientOpen
  BY DEF AstInit, ClientOpen, NoRequest, Request, ClientsClosed
<1> QED
  BY <1>1, <1>2, <1>3, <1>4 DEF AssistantInv

(* A restart keeps the secrets decryptable where they were stored. *)
LEMMA RestartKeeps ==
    ASSUME AssistantInv, NEW up \in BOOLEAN, Restart(up)
    PROVE  AssistantInv'
<1>1. MasterKeys' /\ \A b \in BOOLEAN : KeyOf(b) # Null => KeyOf(b)' = KeyOf(b)
  BY KeysStay DEF AssistantInv
<1>2. UNCHANGED rows /\ thread' = [t \in Threads |-> Resting]
  BY DEF Restart
<1>3. StoredSecrets'
  <2>1. ASSUME NEW p \in SecretKeys, rows[p] # Null
        PROVE  Decryptable(rows[p])'
    <3>1. Decryptable(rows[p])
      BY <2>1 DEF AssistantInv, StoredSecrets
    <3>2. rows[p].up \in BOOLEAN /\ KeyOf(rows[p].up) # Null
      BY <3>1 DEF Decryptable
    <3>3. KeyOf(rows[p].up)' = KeyOf(rows[p].up)
      BY <1>1, <1>2, <3>2 DEF KeyOf
    <3> QED
      BY <1>2, <3>1, <3>3 DEF Decryptable
  <2> QED
    BY <1>2, <2>1 DEF AssistantInv, StoredSecrets
<1>4. PendingSecrets'
  BY <1>2 DEF PendingSecrets, Resting, SettingJob
<1>5. ClientOpen'
  BY DEF Restart, ClientOpen, NoRequest, Request, ClientsClosed
<1> QED
  BY <1>1, <1>3, <1>4, <1>5 DEF AssistantInv

(* An AI request touches neither keys nor secrets, and closes its client. *)
LEMMA RequestKeeps ==
    ASSUME AssistantInv, AiStep
    PROVE  AssistantInv'
<1>1. UNCHANGED <<rows, thread, box, keychainUp, keychain, keyFile, restarts>>
  BY DEF AiStep, BeginRequest, ReadProvider, ReadModel, BuildProvider, Complete, CloseProvider
<1>2. MasterKeys' /\ StoredSecrets' /\ PendingSecrets'
  <2>1. \A secret : Decryptable(secret)' <=> Decryptable(secret)
    BY <1>1 DEF Decryptable, KeyOf
  <2>2. MasterKeys'
    BY <1>1 DEF AssistantInv, MasterKeys, KeyOf
  <2>3. StoredSecrets'
    BY <1>1, <2>1 DEF AssistantInv, StoredSecrets, Decryptable, KeyOf
  <2>4. PendingSecrets'
    BY <1>1, <2>1 DEF AssistantInv, PendingSecrets, SecretJob, SettingJob, Decryptable, KeyOf
  <2> QED
    BY <2>2, <2>3, <2>4
<1>3. ClientOpen'
  <2> USE DEF AssistantInv, ClientOpen, ClientsClosed, Request
  <2>1. CASE BeginRequest
    BY <2>1 DEF BeginRequest
  <2>2. CASE ReadProvider
    <3> DEFINE name == get_active_ai_provider
    <3>1. request.pc = "name" /\ UNCHANGED openClients
      BY <2>2 DEF ReadProvider
    <3>2. request' = NoRequest \/ request' = Request("model", name, Null, FALSE)
      BY <2>2 DEF ReadProvider
    <3> HIDE DEF name
    <3>3. CASE request' = NoRequest
      BY <3>1, <3>3 DEF NoRequest
    <3>4. CASE request' = Request("model", name, Null, FALSE)
      BY <3>1, <3>4
    <3> QED
      BY <3>2, <3>3, <3>4
  <2>3. CASE ReadModel
    BY <2>3 DEF ReadModel
  <2>4. CASE BuildProvider
    <3>1. CASE request' = NoRequest /\ UNCHANGED openClients
      BY <2>4, <3>1 DEF BuildProvider, NoRequest
    <3>2. CASE request' = [request EXCEPT !.pc = "complete"] /\ openClients' = openClients + 1
      BY <2>4, <3>2 DEF BuildProvider
    <3> QED
      BY <2>4, <3>1, <3>2 DEF BuildProvider
  <2>5. ASSUME NEW replied \in BOOLEAN, Complete(replied) PROVE ClientOpen'
    BY <2>5 DEF Complete
  <2>6. ASSUME NEW finished \in BOOLEAN, CloseProvider(finished) PROVE ClientOpen'
    BY <2>6 DEF CloseProvider, NoRequest
  <2> QED
    BY <2>1, <2>2, <2>3, <2>4, <2>5, <2>6 DEF AiStep
<1> QED
  BY <1>2, <1>3 DEF AssistantInv

(* Threads store settings, and secrets that can be decrypted. *)
LEMMA HandlersKeep ==
    ASSUME AssistantInv,
           \/ \E t \in Threads : (\E job \in Handlers : Put(t, job)) \/ ReadRow(t) \/ WriteRow(t)
           \/ \E p \in SecretKeys : DeleteSecret(p)
    PROVE  AssistantInv'
<1>1. UNCHANGED <<box, keychainUp, keychain, keyFile, request, openClients, restarts>>
  BY DEF Put, ReadRow, WriteRow, DeleteSecret
<1>2. MasterKeys' /\ ClientOpen'
  BY <1>1 DEF AssistantInv, MasterKeys, KeyOf, ClientOpen, ClientsClosed, Request
<1>3. \A secret : Decryptable(secret)' <=> Decryptable(secret)
  BY <1>1 DEF Decryptable, KeyOf
<1>4. ASSUME NEW t \in Threads, NEW job \in Handlers, Put(t, job)
      PROVE  StoredSecrets' /\ PendingSecrets'
  <2>1. SettingJob(job) \/ SecretJob(job)
    BY HandlerJobs DEF AssistantInv
  <2>2. UNCHANGED rows /\ thread' = [thread EXCEPT ![t] = [todo |-> job, found |-> Null]]
    BY <1>4 DEF Put
  <2>3. StoredSecrets'
    BY <1>1, <2>2 DEF AssistantInv, StoredSecrets, Decryptable, KeyOf
  <2>4. PendingSecrets'
    BY <1>1, <2>1, <2>2 DEF AssistantInv, PendingSecrets, SettingJob, SecretJob, Decryptable, KeyOf
  <2> QED
    BY <2>3, <2>4
<1>5. ASSUME NEW t \in Threads, ReadRow(t)
      PROVE  StoredSecrets' /\ PendingSecrets'
  <2>1. UNCHANGED rows
    BY <1>5 DEF ReadRow
  <2>2. StoredSecrets'
    BY <1>1, <2>1 DEF AssistantInv, StoredSecrets, Decryptable, KeyOf
  <2>3. /\ DOMAIN thread' = Threads
        /\ \A u \in Threads : /\ thread'[u].todo = thread[u].todo
                              /\ thread'[u] = [todo |-> thread'[u].todo, found |-> thread'[u].found]
    BY <1>5 DEF ReadRow, AssistantInv, PendingSecrets
  <2>4. PendingSecrets'
    BY <1>1, <2>3 DEF AssistantInv, PendingSecrets, SettingJob, SecretJob, Decryptable, KeyOf
  <2> QED
    BY <2>2, <2>4
<1>6. ASSUME NEW t \in Threads, WriteRow(t)
      PROVE  StoredSecrets' /\ PendingSecrets'
  <2> DEFINE todo == thread[t].todo
             key == Head(todo)[1]
             value == Head(todo)[2]
  <2>1. \/ UNCHANGED rows /\ thread' = [thread EXCEPT ![t] = Resting]
        \/ /\ rows' = [rows EXCEPT ![key] = value]
           /\ thread' = [thread EXCEPT ![t] = [todo |-> Tail(todo), found |-> Null]]
    BY <1>6 DEF WriteRow, AssistantInv, PendingSecrets
  <2>3. \/ key \in SettingKeys /\ SettingJob(Tail(todo))
        \/ key \in SecretKeys /\ Decryptable(value) /\ Tail(todo) = <<>>
    <3>1. todo # <<>>
      BY <1>6 DEF WriteRow
    <3>2. CASE SettingJob(todo)
      BY <3>1, <3>2, SettingJobShrinks DEF SettingJob
    <3>3. CASE SecretJob(todo)
      <4>1. PICK p \in SecretKeys : \E secret : todo = << <<p, secret>> >> /\ Decryptable(secret)
        BY <3>3 DEF SecretJob
      <4>2. PICK secret : todo = << <<p, secret>> >> /\ Decryptable(secret)
        BY <4>1
      <4>3. Head(todo) = <<p, secret>> /\ Tail(todo) = <<>>
        BY <4>2
      <4> QED
        BY <4>2, <4>3
    <3> QED
      BY <3>2, <3>3 DEF AssistantInv, PendingSecrets
  <2>4. PendingSecrets'
    <3>1. ASSUME NEW job, SettingJob(job),
                 thread' = [thread EXCEPT ![t] = [todo |-> job, found |-> Null]]
          PROVE  PendingSecrets'
      BY <1>1, <3>1 DEF AssistantInv, PendingSecrets, SettingJob, SecretJob, Decryptable, KeyOf
    <3> QED
      BY <2>1, <2>3, <3>1 DEF Resting, SettingJob
  <2>5. StoredSecrets'
    <3>1. CASE UNCHANGED rows
      BY <1>1, <3>1 DEF AssistantInv, StoredSecrets, Decryptable, KeyOf
    <3>2. CASE rows' = [rows EXCEPT ![key] = value]
      <4>1. SettingKeys \cap SecretKeys = {}
        BY DEF SettingKeys, SecretKeys
      <4> HIDE DEF key, value, todo
      <4> QED
        BY <1>1, <2>3, <3>2, <4>1 DEF AssistantInv, StoredSecrets, Decryptable, KeyOf
    <3> QED
      BY <2>1, <3>1, <3>2
  <2> QED
    BY <2>4, <2>5
<1>7. ASSUME NEW p \in SecretKeys, DeleteSecret(p)
      PROVE  StoredSecrets' /\ PendingSecrets'
  <2>1. rows' = [rows EXCEPT ![p] = Null] /\ UNCHANGED thread
    BY <1>7 DEF DeleteSecret
  <2>2. StoredSecrets'
    BY <1>1, <2>1 DEF AssistantInv, StoredSecrets, Decryptable, KeyOf, SecretKeys
  <2>3. PendingSecrets'
    BY <1>1, <2>1 DEF AssistantInv, PendingSecrets, SettingJob, SecretJob, Decryptable, KeyOf
  <2> QED
    BY <2>2, <2>3
<1>8. StoredSecrets' /\ PendingSecrets'
  BY <1>4, <1>5, <1>6, <1>7
<1> QED
  BY <1>2, <1>8 DEF AssistantInv

LEMMA AssistantStep == AssistantInv /\ [AstNext]_astVars => AssistantInv'
<1> SUFFICES ASSUME AssistantInv, [AstNext]_astVars PROVE AssistantInv'
  OBVIOUS
<1>1. CASE AiStep
  BY <1>1, RequestKeeps
<1>2. ASSUME NEW up \in BOOLEAN, Restart(up) PROVE AssistantInv'
  BY <1>2, RestartKeeps
<1>3. CASE UNCHANGED astVars
  BY <1>3 DEF astVars, AssistantInv, MasterKeys, StoredSecrets, PendingSecrets, ClientOpen,
      ClientsClosed, KeyOf, Decryptable, SettingJob, SecretJob, Request
<1> QED
  BY <1>1, <1>2, <1>3, HandlersKeep DEF AstNext

LEMMA AssistantInvariant == AstSpec => []AssistantInv
  BY AssistantStarts, AssistantStep, PTL DEF AstSpec

-----------------------------------------------------------------------------
(* The theorems                                                            *)

(* A stored secret can be decrypted by the process that runs, as often as   *)
(* the engine was restarted in between, as long as the keychain is there,   *)
(* or not there, as it was when the secret was stored.                      *)
LEMMA DecryptableRead == AssistantInv => SecretsSurviveRestart
<1> SUFFICES ASSUME AssistantInv, NEW p \in SecretKeys, is_configured(p), rows[p].up = keychainUp
             PROVE  SecretOf(p) # Null
  BY DEF SecretsSurviveRestart
<1>1. rows[p] # Null
  BY DEF is_configured
<1>2. Decryptable(rows[p])
  BY <1>1 DEF AssistantInv, StoredSecrets
<1>3. rows[p].masterKey = box
  BY <1>2 DEF AssistantInv, MasterKeys, Decryptable
<1> QED
  BY <1>1, <1>3, AstAssumption DEF SecretOf

(* Restarts never cost a secret (SecretsService and SecretBox). *)
THEOREM SecretsOutliveRestarts == AstSpec => []SecretsSurviveRestart
  BY AssistantInvariant, DecryptableRead, PTL

(* A key is called verified only when the provider accepted that very key.  *)
LEMMA VerifiedAccepted == VerifiedMeansAccepted
<1> SUFFICES ASSUME NEW provider \in NeedsKey, NEW supplied \in {Null, BlankKey, Junk}, NEW reply \in Replies,
                    verify_secret(provider, supplied, reply).ok = TRUE
             PROVE  LET result == verify_secret(provider, supplied, reply)
                    IN  /\ reply \in {"accepted", "limited"} \/ (reply = "empty" /\ provider = "anthropic")
                        /\ result.tested \notin {Null, BlankKey}
                        /\ IF supplied # Null THEN result.tested = supplied
                           ELSE result.tested = rows[provider] /\ result.tested.masterKey = box
  BY DEF VerifiedMeansAccepted
<1> DEFINE key == IF supplied # Null THEN supplied ELSE SecretOf(provider)
           result == verify_secret(provider, supplied, reply)
<1>1. provider \in {"finnhub", "anthropic", "gemini"} /\ provider \in DATA_PROVIDERS \cup AI_PROVIDERS
  BY DEF NeedsKey, DATA_PROVIDERS, AI_PROVIDERS
<1>2. result = IF key \in {Null, BlankKey} THEN NotTested(FALSE)
               ELSE IF provider = "finnhub" THEN _verify_finnhub(key, reply)
               ELSE IF provider = "gemini" THEN _verify_gemini(key, reply)
               ELSE _verify_sdk(key, reply)
  <2>1. CASE key \in {Null, BlankKey}
    BY <1>1, <2>1 DEF verify_secret, verify_provider_key, NeedsKey
  <2>2. CASE key \notin {Null, BlankKey}
    BY <1>1, <2>2 DEF verify_secret, verify_provider_key, NeedsKey
  <2> QED
    BY <2>1, <2>2
<1>3. key \notin {Null, BlankKey}
  BY <1>2 DEF NotTested
<1>4. /\ result.tested = key
      /\ reply \in {"accepted", "limited"} \/ (reply = "empty" /\ provider = "anthropic")
  <2>0. result.ok = TRUE
    OBVIOUS
  <2> HIDE DEF key, result
  <2>1. CASE provider = "finnhub"
    BY <1>2, <1>3, <2>0, <2>1 DEF _verify_finnhub
  <2>2. CASE provider = "gemini"
    BY <1>2, <1>3, <2>0, <2>2 DEF _verify_gemini
  <2>3. CASE provider = "anthropic"
    BY <1>2, <1>3, <2>0, <2>3 DEF _verify_sdk
  <2> QED
    BY <1>1, <2>1, <2>2, <2>3
<1>5. supplied = Null => key = rows[provider] /\ rows[provider].masterKey = box
  BY <1>3 DEF SecretOf
<1> QED
  BY <1>3, <1>4, <1>5

(* What the engine says of an AI provider holds for the one a request gets: *)
(* ready means that a request gets a provider, but for a key of blanks and   *)
(* one of the other place for master keys.                                   *)
LEMMA ReadyUsable == AssistantInv => ReadyUnlessOdd
<1> DEFINE name == get_active_ai_provider
<1> SUFFICES ASSUME AssistantInv, AiReady, NoKey(name)
             PROVE  is_configured(name) /\ (rows[name].blank \/ rows[name].up # keychainUp)
  BY DEF ReadyUnlessOdd
<1>1. is_configured(name) /\ name \in SecretKeys
  BY DEF AiReady, is_configured, NoKey
<1>2. rows[name].up = keychainUp => SecretOf(name) # Null
  BY <1>1, DecryptableRead DEF SecretsSurviveRestart
<1> QED
  BY <1>1, <1>2 DEF NoKey

(* Ready means that a request gets a provider, but for the two odd kinds of  *)
(* key; verified means that the provider accepted the very key; a network    *)
(* client is open only while its request runs.                               *)
THEOREM AssistantTruthful == AstSpec => []AssistantSound
<1>1. AssistantInv => AssistantSound
  BY ReadyUsable, VerifiedAccepted DEF AssistantSound, AssistantInv, ClientOpen
<1> QED
  BY <1>1, AssistantInvariant, PTL

-----------------------------------------------------------------------------
(* Startup: any clients, any number of kills, with or without the scheduler *)

Phases == {"down", "migrating", "failed", "seeding", "building", "aborted", "serving", "stopping", "jobs stopped",
           "jobs cancelled", "monitor stopped", "closing"}

\* What runs in which phase of the lifespan: requests only while the engine
\* serves, jobs until the scheduler has stopped, the monitor until it has.
TasksByPhase ==
    /\ phase \in Phases
    /\ inFlight # 0 => phase = "serving"
    /\ jobs \in {"waiting", "working"} => phase \in {"serving", "stopping", "jobs stopped"}
    /\ jobs \in {"cancelled", "cleaning"} => phase \in {"jobs cancelled", "monitor stopped", "closing"}
    /\ jobs = "cancelled" => phase # "closing"
    /\ jobs \in {"none", "waiting", "working", "cancelled", "cleaning"}
    /\ monitor # "none" => phase \in {"serving", "stopping", "jobs stopped", "jobs cancelled"}
    /\ open # {} => phase \notin {"down", "migrating", "failed", "seeding", "building"}

(* Every phase of the lifespan runs only the tasks that TasksByPhase names. *)
THEOREM TasksByPhaseCorrect == StartSpec => []TasksByPhase
<1>1. StartInit => TasksByPhase
  BY DEF StartInit, TasksByPhase, Phases
<1>2. TasksByPhase /\ [StartNext]_startVars => TasksByPhase'
  <2> SUFFICES ASSUME TasksByPhase, [StartNext]_startVars PROVE TasksByPhase'
    OBVIOUS
  <2> USE DEF TasksByPhase, Phases, database, process
  <2>1. CASE Launch \/ Migrate \/ Stamp \/ InitDbDone \/ EnsureDefault
    BY <2>1 DEF Launch, Migrate, Stamp, InitDbDone, EnsureDefault
  <2>2. CASE StartServices \/ StartFails
    BY <2>2 DEF StartServices, StartFails
  <2>3. CASE TakeRequest \/ AnswerRequest \/ Poll \/ Job
    BY <2>3 DEF TakeRequest, AnswerRequest, Poll, Job
  <2>4. CASE BeginShutdown \/ StopJobs \/ CancelJobs \/ StopMonitor \/ LifespanResumes
    BY <2>4 DEF BeginShutdown, StopJobs, CancelJobs, StopMonitor, LifespanResumes
  <2>5. CASE \E c \in Clients : CloseClient(c)
    BY <2>5 DEF CloseClient
  <2>6. CASE Exit \/ Kill
    BY <2>6 DEF Exit, Kill, Reset
  <2>7. CASE JobCancelled \/ JobCleaned
    BY <2>7 DEF JobCancelled, JobCleaned
  <2>8. CASE UNCHANGED startVars
    BY <2>8 DEF startVars
  <2> QED
    BY <2>1, <2>2, <2>3, <2>4, <2>5, <2>6, <2>7, <2>8 DEF StartNext
<1> QED
  BY <1>1, <1>2, PTL DEF StartSpec

(* Shutdown in main.py closes a network client only when no request, job or *)
(* poll of the monitor is left that may use it.                             *)
THEOREM ClientsOutliveTasksCorrect == StartSpec => ClientsOutliveTasks
<1> DEFINE Closed ==
             \A c \in open \ open' :
               phase' # "down" => monitor = "none" /\ jobs \in {"none", "cleaning"} /\ inFlight = 0
<1>1. TasksByPhase /\ [StartNext]_startVars => [Closed]_startVars
  <2> SUFFICES ASSUME TasksByPhase, StartNext, NEW c \in open \ open', phase' # "down"
               PROVE  monitor = "none" /\ jobs \in {"none", "cleaning"} /\ inFlight = 0
    OBVIOUS
  <2> USE DEF TasksByPhase, database, process
  <2>1. phase = "closing" \/ phase = "building"
    BY DEF StartNext, Launch, Migrate, Stamp, InitDbDone, EnsureDefault, StartServices, TakeRequest, AnswerRequest,
           Poll, Job, BeginShutdown, StopJobs, CancelJobs, JobCancelled, JobCleaned, StopMonitor, LifespanResumes,
           StartFails, CloseClient, Exit, Kill, Reset
  <2> QED
    BY <2>1
<1>2. StartSpec => []TasksByPhase
  BY TasksByPhaseCorrect
<1> QED
  BY <1>1, <1>2, PTL DEF StartSpec, ClientsOutliveTasks

-----------------------------------------------------------------------------
(* The migrations                                                          *)

\* The objects of the first n revisions and of d statements of the next one.
Before(n, d) ==
    {o \in Created(LastRevision) : \E r \in 1 .. LastRevision : \E i \in 1 .. Len(Revisions[r]) :
        o = Revisions[r][i] /\ (r <= n \/ (r = n + 1 /\ i <= d))}

\* Without a kill inside a revision the database holds what has run so far, no
\* less and no more; after one it holds at least what is stamped.
Migrated ==
    /\ phase \in Phases
    /\ version \in 0 .. LastRevision
    /\ done \in Nat /\ torn \in Nat
    /\ phase \notin {"migrating", "failed"} => done = 0
    /\ done > 0 => version < LastRevision /\ done <= Len(Revisions[version + 1])
    /\ Before(version, done) \subseteq schema
    /\ schema \subseteq Created(LastRevision)
    /\ torn = 0 => schema = Before(version, done)
    /\ torn # 0 => torn = version + 1 /\ torn <= LastRevision /\ done = 0 /\ Revisions[torn][1] \in schema
    /\ phase \notin {"down", "migrating", "failed"} => version = LastRevision
    /\ phase = "failed" => torn # 0

(* There are six revisions. *)
LEMMA RevisionList ==
    /\ LastRevision = 6
    /\ Revisions[1] = initial_schema
    /\ Revisions[2] = watchlists_and_portfolio
    /\ Revisions[3] = news_revision
    /\ Revisions[4] = ai_reports_revision
    /\ Revisions[5] = alerts_revision
    /\ Revisions[6] = scheduled_reports_revision
<1>1. Len(Revisions) = 6
  BY DEF Revisions
<1> QED
  BY <1>1 DEF LastRevision, Revisions

(* Every revision creates some objects. *)
LEMMA RevisionLengths ==
    /\ Len(Revisions[1]) = 7
    /\ Len(Revisions[2]) = 5
    /\ Len(Revisions[3]) = 3
    /\ Len(Revisions[4]) = 3
    /\ Len(Revisions[5]) = 6
    /\ Len(Revisions[6]) = 3
BY RevisionList DEF initial_schema, watchlists_and_portfolio, news_revision,
                    ai_reports_revision, alerts_revision, scheduled_reports_revision

(* No revision is empty. *)
LEMMA LengthsPositive == \A r \in 1 .. LastRevision : Len(Revisions[r]) \in Nat \ {0}
<1> SUFFICES ASSUME NEW r \in 1 .. LastRevision PROVE Len(Revisions[r]) \in Nat \ {0}
  OBVIOUS
<1>1. r = 1 \/ r = 2 \/ r = 3 \/ r = 4 \/ r = 5 \/ r = 6
  BY RevisionList
<1>2. Len(Revisions[r]) \in {3, 5, 6, 7}
  BY <1>1, RevisionLengths, Zenon
<1> QED
  BY <1>2

(* What each revision creates. *)
LEMMA RevisionObjects ==
    /\ Revisions[1][1] = "quotes_cache" /\ Revisions[1][2] = "secrets" /\ Revisions[1][3] = "settings"
    /\ Revisions[1][4] = "symbols" /\ Revisions[1][5] = "ix_symbols_display_exchange"
    /\ Revisions[1][6] = "ix_symbols_display_symbol" /\ Revisions[1][7] = "ix_symbols_exchange"
    /\ Revisions[2][1] = "holdings" /\ Revisions[2][2] = "ix_holdings_symbol"
    /\ Revisions[2][3] = "watchlists" /\ Revisions[2][4] = "watchlist_items"
    /\ Revisions[2][5] = "ix_watchlist_items_watchlist_id"
    /\ Revisions[3][1] = "news" /\ Revisions[3][2] = "ix_news_published_at"
    /\ Revisions[3][3] = "ix_news_url"
    /\ Revisions[4][1] = "ai_reports" /\ Revisions[4][2] = "ix_ai_reports_symbol"
    /\ Revisions[4][3] = "ix_ai_reports_created_at"
    /\ Revisions[5][1] = "alerts" /\ Revisions[5][2] = "ix_alerts_symbol" /\ Revisions[5][3] = "alert_events"
    /\ Revisions[5][4] = "ix_alert_events_alert_id" /\ Revisions[5][5] = "ix_alert_events_symbol"
    /\ Revisions[5][6] = "ix_alert_events_created_at"
    /\ Revisions[6][1] = "scheduled_reports" /\ Revisions[6][2] = "ix_scheduled_reports_kind"
    /\ Revisions[6][3] = "ix_scheduled_reports_created_at"
BY RevisionList DEF initial_schema, watchlists_and_portfolio, news_revision,
                    ai_reports_revision, alerts_revision, scheduled_reports_revision

\* The objects in the order of their creation.
Number(o) ==
    CASE o = "quotes_cache" -> 1
      [] o = "secrets" -> 2
      [] o = "settings" -> 3
      [] o = "symbols" -> 4
      [] o = "ix_symbols_display_exchange" -> 5
      [] o = "ix_symbols_display_symbol" -> 6
      [] o = "ix_symbols_exchange" -> 7
      [] o = "holdings" -> 8
      [] o = "ix_holdings_symbol" -> 9
      [] o = "watchlists" -> 10
      [] o = "watchlist_items" -> 11
      [] o = "ix_watchlist_items_watchlist_id" -> 12
      [] o = "news" -> 13
      [] o = "ix_news_published_at" -> 14
      [] o = "ix_news_url" -> 15
      [] o = "ai_reports" -> 16
      [] o = "ix_ai_reports_symbol" -> 17
      [] o = "ix_ai_reports_created_at" -> 18
      [] o = "alerts" -> 19
      [] o = "ix_alerts_symbol" -> 20
      [] o = "alert_events" -> 21
      [] o = "ix_alert_events_alert_id" -> 22
      [] o = "ix_alert_events_symbol" -> 23
      [] o = "ix_alert_events_created_at" -> 24
      [] o = "scheduled_reports" -> 25
      [] o = "ix_scheduled_reports_kind" -> 26
      [] o = "ix_scheduled_reports_created_at" -> 27

(* Each object has its own number. *)
LEMMA Numbered ==
    /\ \A i \in 1 .. 7 : Number(Revisions[1][i]) = i
    /\ \A i \in 1 .. 5 : Number(Revisions[2][i]) = 7 + i
    /\ \A i \in 1 .. 3 : Number(Revisions[3][i]) = 12 + i
    /\ \A i \in 1 .. 3 : Number(Revisions[4][i]) = 15 + i
    /\ \A i \in 1 .. 6 : Number(Revisions[5][i]) = 18 + i
    /\ \A i \in 1 .. 3 : Number(Revisions[6][i]) = 24 + i
<1>1. \A i \in 1 .. 7 : Number(Revisions[1][i]) = i
  <2>1. \A i \in 1 .. 7 : i \in {1, 2, 3, 4, 5, 6, 7}
    OBVIOUS
  <2> QED
    BY <2>1, RevisionObjects DEF Number
<1>2. \A i \in 1 .. 5 : Number(Revisions[2][i]) = 7 + i
  <2>1. \A i \in 1 .. 5 : i \in {1, 2, 3, 4, 5}
    OBVIOUS
  <2> QED
    BY <2>1, RevisionObjects DEF Number
<1>3. \A i \in 1 .. 3 : Number(Revisions[3][i]) = 12 + i
  <2>1. \A i \in 1 .. 3 : i \in {1, 2, 3}
    OBVIOUS
  <2> QED
    BY <2>1, RevisionObjects DEF Number
<1>4. \A i \in 1 .. 3 : Number(Revisions[4][i]) = 15 + i
  <2>1. \A i \in 1 .. 3 : i \in {1, 2, 3}
    OBVIOUS
  <2> QED
    BY <2>1, RevisionObjects DEF Number
<1>5. \A i \in 1 .. 6 : Number(Revisions[5][i]) = 18 + i
  <2>1. \A i \in 1 .. 6 : i \in {1, 2, 3, 4, 5, 6}
    OBVIOUS
  <2> QED
    BY <2>1, RevisionObjects DEF Number
<1>6. \A i \in 1 .. 3 : Number(Revisions[6][i]) = 24 + i
  <2>1. \A i \in 1 .. 3 : i \in {1, 2, 3}
    OBVIOUS
  <2> QED
    BY <2>1, RevisionObjects DEF Number
<1> QED
  BY <1>1, <1>2, <1>3, <1>4, <1>5, <1>6

(* No object is created twice. *)
LEMMA NoObjectTwice ==
    ASSUME NEW r \in 1 .. LastRevision, NEW q \in 1 .. LastRevision,
           NEW i \in 1 .. Len(Revisions[r]), NEW j \in 1 .. Len(Revisions[q]),
           Revisions[r][i] = Revisions[q][j]
    PROVE  r = q /\ i = j
<1> DEFINE n == Number(Revisions[r][i])
           Places(s, k) == \/ s = 1 /\ k \in 1 .. 7 /\ n = k
                           \/ s = 2 /\ k \in 1 .. 5 /\ n = 7 + k
                           \/ s = 3 /\ k \in 1 .. 3 /\ n = 12 + k
                           \/ s = 4 /\ k \in 1 .. 3 /\ n = 15 + k
                           \/ s = 5 /\ k \in 1 .. 6 /\ n = 18 + k
                           \/ s = 6 /\ k \in 1 .. 3 /\ n = 24 + k
<1>1. r \in {1, 2, 3, 4, 5, 6} /\ q \in {1, 2, 3, 4, 5, 6}
  BY RevisionList
<1>2. Places(r, i)
  BY <1>1, Numbered, RevisionLengths
<1>3. Places(q, j)
  BY <1>1, Numbered, RevisionLengths
<1> HIDE DEF n
<1>4. i \in Int /\ j \in Int /\ n \in Int
  BY <1>2, <1>3
<1> QED
  BY <1>2, <1>3, <1>4

(* What some revisions create, object by object. *)
LEMMA CreatedObjects ==
    ASSUME NEW n \in 0 .. LastRevision, NEW o
    PROVE  o \in Created(n) <=> \E r \in 1 .. n : \E i \in 1 .. Len(Revisions[r]) : o = Revisions[r][i]
<1>1. \A r \in 1 .. LastRevision : DOMAIN Revisions[r] = 1 .. Len(Revisions[r])
  <2>1. \A r \in 1 .. LastRevision : r \in {1, 2, 3, 4, 5, 6}
    BY RevisionList
  <2> QED
    BY <2>1, RevisionList, RevisionLengths DEF initial_schema, watchlists_and_portfolio, news_revision,
       ai_reports_revision, alerts_revision, scheduled_reports_revision
<1>2. 1 .. n \subseteq 1 .. LastRevision
  BY RevisionList
<1> QED
  BY <1>1, <1>2 DEF Created, ToSet

(* The objects of whole revisions. *)
LEMMA BeforeWhole ==
    ASSUME NEW n \in 0 .. LastRevision
    PROVE  Before(n, 0) = Created(n)
<1>1. \A r \in 1 .. LastRevision : \A i \in 1 .. Len(Revisions[r]) : ~(i <= 0)
  BY LengthsPositive
<1>2. ASSUME NEW o \in Created(n) PROVE o \in Before(n, 0)
  <2>1. PICK r \in 1 .. n : \E i \in 1 .. Len(Revisions[r]) : o = Revisions[r][i]
    BY CreatedObjects
  <2>2. r \in 1 .. LastRevision /\ r <= n
    BY RevisionList
  <2>3. o \in Created(LastRevision)
    BY <2>1, <2>2, RevisionList, CreatedObjects
  <2> QED
    BY <2>1, <2>2, <2>3 DEF Before
<1>3. ASSUME NEW o \in Before(n, 0) PROVE o \in Created(n)
  <2>1. PICK r \in 1 .. LastRevision : r <= n /\ \E i \in 1 .. Len(Revisions[r]) : o = Revisions[r][i]
    BY <1>1 DEF Before
  <2>2. r \in 1 .. n
    BY <2>1, RevisionList
  <2> QED
    BY <2>1, <2>2, CreatedObjects
<1> QED
  BY <1>2, <1>3

(* Whole revisions are part of what has run. *)
LEMMA BeforeGrows ==
    ASSUME NEW n \in 0 .. LastRevision, NEW d \in Nat
    PROVE  Before(n, 0) \subseteq Before(n, d)
<1>1. \A r \in 1 .. LastRevision : \A i \in 1 .. Len(Revisions[r]) : ~(i <= 0)
  BY LengthsPositive
<1> QED
  BY <1>1 DEF Before

(* What has run grows by the statement that runs ... *)
LEMMA BeforeNext ==
    ASSUME NEW n \in 0 .. LastRevision - 1, NEW d \in Nat, d < Len(Revisions[n + 1])
    PROVE  /\ Before(n, d + 1) = Before(n, d) \cup {Revisions[n + 1][d + 1]}
           /\ Revisions[n + 1][d + 1] \in Created(LastRevision)
           /\ Revisions[n + 1][d + 1] \notin Before(n, d)
<1> DEFINE object == Revisions[n + 1][d + 1]
<1>1. /\ n \in Nat /\ n + 1 \in 1 .. LastRevision
      /\ d + 1 \in 1 .. Len(Revisions[n + 1])
      /\ \A r \in 1 .. LastRevision : Len(Revisions[r]) \in Nat
  BY RevisionList, RevisionLengths
<1>2. object \in Created(LastRevision)
  <2>1. LastRevision \in 0 .. LastRevision
    BY RevisionList
  <2>2. \E r \in 1 .. LastRevision : \E i \in 1 .. Len(Revisions[r]) : object = Revisions[r][i]
    BY <1>1
  <2> HIDE DEF object
  <2> QED
    BY ONLY <2>1, <2>2, CreatedObjects
<1>3. object \notin Before(n, d)
  BY <1>1, NoObjectTwice DEF Before
<1>4. object \in Before(n, d + 1)
  BY <1>1, <1>2 DEF Before
<1>5. Before(n, d + 1) \subseteq Before(n, d) \cup {object}
  <2> SUFFICES ASSUME NEW o \in Created(LastRevision),
                      NEW r \in 1 .. LastRevision, NEW i \in 1 .. Len(Revisions[r]),
                      o = Revisions[r][i], r <= n \/ (r = n + 1 /\ i <= d + 1), o # object
               PROVE  o \in Before(n, d)
    BY DEF Before
  <2>1. r <= n \/ (r = n + 1 /\ i <= d)
    BY <1>1
  <2> QED
    BY <2>1 DEF Before
<1>6. Before(n, d) \subseteq Before(n, d + 1)
  BY <1>1 DEF Before
<1> QED
  BY <1>2, <1>3, <1>4, <1>5, <1>6

(* ... and is the same when all of a revision has run and it is stamped. *)
LEMMA BeforeStamp ==
    ASSUME NEW n \in 0 .. LastRevision - 1
    PROVE  Before(n + 1, 0) = Before(n, Len(Revisions[n + 1]))
<1>1. n \in Nat /\ LastRevision \in Nat /\ \A r \in 1 .. LastRevision : Len(Revisions[r]) \in Nat
  BY RevisionList, RevisionLengths
<1>2. Before(n + 1, 0) \subseteq Before(n, Len(Revisions[n + 1]))
  <2> SUFFICES ASSUME NEW o \in Created(LastRevision),
                      NEW r \in 1 .. LastRevision, NEW i \in 1 .. Len(Revisions[r]),
                      o = Revisions[r][i], r <= n + 1
               PROVE  o \in Before(n, Len(Revisions[n + 1]))
    BY <1>1 DEF Before
  <2>1. r <= n \/ (r = n + 1 /\ i <= Len(Revisions[n + 1]))
    BY <1>1
  <2> QED
    BY <2>1 DEF Before
<1>3. Before(n, Len(Revisions[n + 1])) \subseteq Before(n + 1, 0)
  <2> SUFFICES ASSUME NEW o \in Created(LastRevision),
                      NEW r \in 1 .. LastRevision, NEW i \in 1 .. Len(Revisions[r]),
                      o = Revisions[r][i], r <= n \/ r = n + 1
               PROVE  o \in Before(n + 1, 0)
    BY <1>1 DEF Before
  <2>1. r <= n + 1
    BY <1>1
  <2> QED
    BY <2>1 DEF Before
<1> QED
  BY <1>2, <1>3

(* A revision that has begun has created its first object. *)
LEMMA FirstRun ==
    ASSUME NEW n \in 0 .. LastRevision - 1, NEW d \in Nat \ {0}
    PROVE  Revisions[n + 1][1] \in Before(n, d)
<1>1. n \in 0 .. LastRevision /\ n + 1 \in 1 .. LastRevision
  BY RevisionList
<1>3. 1 \in 1 .. Len(Revisions[n + 1])
  BY <1>1, LengthsPositive
<1>2. Revisions[n + 1][1] \in Created(LastRevision)
  BY <1>1, <1>3, RevisionList, CreatedObjects
<1> QED
  BY <1>1, <1>2, <1>3 DEF Before

(* Each step of the engine preserves what Migrated says. *)
LEMMA MigratedStep ==
    ASSUME Migrated, [StartNext]_startVars
    PROVE  Migrated'
<1> USE DEF database, process
<1>1. CASE Launch
  BY <1>1 DEF Launch, Migrated, Phases
<1>2. CASE Migrate
  <2> DEFINE object == Revisions[version + 1][done + 1]
  <2>1. /\ version \in 0 .. LastRevision - 1 /\ done \in Nat /\ done < Len(Revisions[version + 1])
        /\ UNCHANGED <<version, torn>> /\ phase = "migrating"
    BY <1>2, RevisionList DEF Migrate, Migrated
  <2>2. /\ Before(version, done + 1) = Before(version, done) \cup {object}
        /\ object \in Created(LastRevision)
        /\ object \notin Before(version, done)
    BY <2>1, BeforeNext
  <2>3. torn # 0 => object \in schema
    <3>1. torn # 0 => torn = version + 1 /\ done = 0 /\ Revisions[torn][1] \in schema
      BY DEF Migrated
    <3>2. done = 0 => done + 1 = 1
      BY <2>1
    <3> QED
      BY <3>1, <3>2
  <2>4. CASE object \in schema
    <3>1. UNCHANGED <<schema, done>> /\ phase' = "failed"
      BY <1>2, <2>4 DEF Migrate
    <3> QED
      BY <2>1, <2>2, <2>4, <3>1 DEF Migrated, Phases
  <2>5. CASE object \notin schema
    <3>1. schema' = schema \cup {object} /\ done' = done + 1 /\ phase' = phase
      BY <1>2, <2>5 DEF Migrate
    <3>2. Len(Revisions[version + 1]) \in Nat
      BY <2>1, RevisionList, RevisionLengths
    <3>3. version' < LastRevision /\ done' <= Len(Revisions[version' + 1])
      BY <2>1, <3>1, <3>2, RevisionList
    <3> QED
      BY <2>1, <2>2, <2>3, <2>5, <3>1, <3>3 DEF Migrated, Phases
  <2> QED
    BY <2>4, <2>5
<1>3. CASE Stamp
  <2>1. /\ version \in 0 .. LastRevision - 1 /\ version' \in 0 .. LastRevision
        /\ done = Len(Revisions[version + 1]) /\ version' = version + 1 /\ done' = 0
        /\ UNCHANGED <<schema, torn>> /\ phase = "migrating" /\ phase' = "migrating"
    BY <1>3, RevisionList DEF Stamp, Migrated
  <2>2. Before(version', done') = Before(version, done)
    BY <2>1, BeforeStamp
  <2>3. torn = 0
    <3>1. done # 0
      BY <2>1, RevisionList, LengthsPositive
    <3> QED
      BY <3>1 DEF Migrated
  <2> QED
    BY <2>1, <2>2, <2>3 DEF Migrated, Phases
<1>4. CASE InitDbDone
  <2>1. done = 0 /\ torn = 0
    BY <1>4, RevisionList DEF InitDbDone, Migrated
  <2> QED
    BY <1>4, <2>1 DEF InitDbDone, Migrated, Phases
<1>5. CASE EnsureDefault \/ StartServices \/ StartFails \/ TakeRequest \/ AnswerRequest \/ Poll \/ Job
  BY <1>5 DEF EnsureDefault, StartServices, StartFails, TakeRequest, AnswerRequest, Poll, Job, Migrated, Phases
<1>6. CASE \/ BeginShutdown \/ StopJobs \/ CancelJobs \/ JobCancelled \/ JobCleaned
           \/ StopMonitor \/ LifespanResumes \/ \E c \in Clients : CloseClient(c)
  BY <1>6 DEF BeginShutdown, StopJobs, CancelJobs, JobCancelled, JobCleaned, StopMonitor, LifespanResumes, CloseClient,
     Migrated, Phases
<1>7. CASE Exit \/ Kill
  <2>1. UNCHANGED <<schema, version>> /\ phase' = "down" /\ done' = 0
    BY <1>7 DEF Exit, Kill, Reset
  <2>2. /\ done \in Nat
        /\ phase \notin {"migrating", "failed"} => done = 0
        /\ phase = "failed" => torn # 0
    BY DEF Migrated
  <2>3. \/ torn' = torn /\ done = 0
        \/ torn' = torn /\ torn # 0
        \/ torn' = version + 1 /\ done > 0
    <3>1. CASE Exit
      BY <2>2, <3>1 DEF Exit
    <3>2. CASE Kill
      BY <2>2, <3>2 DEF Kill
    <3> QED
      BY <1>7, <3>1, <3>2
  <2>4. Before(version, 0) \subseteq Before(version, done)
    BY BeforeGrows DEF Migrated
  <2>5. CASE torn' = torn /\ done = 0
    BY <2>1, <2>5 DEF Migrated, Phases
  <2>6. CASE torn' = torn /\ torn # 0
    BY <2>1, <2>4, <2>6 DEF Migrated, Phases
  <2>7. CASE torn' = version + 1 /\ done > 0
    <3>1. version \in 0 .. LastRevision - 1 /\ done \in Nat \ {0}
      BY <2>2, <2>7, RevisionList DEF Migrated
    <3>2. Revisions[version + 1][1] \in schema
      BY <3>1, FirstRun DEF Migrated
    <3>3. /\ torn' \in Nat /\ torn' # 0 /\ torn' = version' + 1 /\ torn' <= LastRevision
          /\ Revisions[torn'][1] \in schema'
      BY <2>1, <2>7, <3>1, <3>2, RevisionList
    <3>4. Before(version', done') \subseteq schema' /\ schema' \subseteq Created(LastRevision)
      BY <2>1, <2>4 DEF Migrated
    <3>5. version' \in 0 .. LastRevision
      BY <2>1 DEF Migrated
    <3>6. done' \in Nat /\ ~(done' > 0) /\ phase' \in Phases
      BY <2>1 DEF Phases
    <3> QED
      BY <2>1, <3>3, <3>4, <3>5, <3>6 DEF Migrated
  <2> QED
    BY <2>3, <2>5, <2>6, <2>7
<1>8. CASE UNCHANGED startVars
  BY <1>8 DEF startVars, Migrated, Phases
<1> QED
  BY <1>1, <1>2, <1>3, <1>4, <1>5, <1>6, <1>7, <1>8 DEF StartNext

(* However often the process is killed and started again, the version never *)
(* claims a revision that is not there, services run on the newest schema   *)
(* only, and the upgrade fails only after a kill inside a revision.          *)
THEOREM MigrationSafeCorrect == StartSpec => []MigrationSafe
<1>1. StartInit => Migrated
  <2> SUFFICES ASSUME StartInit PROVE Migrated
    OBVIOUS
  <2>1. Before(0, 0) = {}
    BY RevisionList, RevisionLengths DEF Before
  <2> QED
    BY <2>1, RevisionList DEF StartInit, Migrated, Phases
<1>2. Migrated /\ [StartNext]_startVars => Migrated'
  BY MigratedStep
<1>3. Migrated => MigrationSafe
  <2> SUFFICES ASSUME Migrated PROVE MigrationSafe
    OBVIOUS
  <2>1. Created(version) \subseteq Before(version, done)
    <3>1. Before(version, 0) = Created(version)
      BY BeforeWhole DEF Migrated
    <3> QED
      BY <3>1, BeforeGrows DEF Migrated
  <2> QED
    BY <2>1 DEF Migrated, MigrationSafe, VersionNeverAhead, ServesLatestSchema, UpgradeFailsOnlyTorn
<1> QED
  BY <1>1, <1>2, <1>3, PTL DEF StartSpec

-----------------------------------------------------------------------------
(* Symbols                                                                 *)

\* What a loader answers, and what the one for Borsa Istanbul does.
SymbolRows == [symbol : AllSymbols, exchange : STRING \cup {"BIST"}, source : {"nasdaqtrader", "kap", "bist_seed"},
               sector : STRING \cup {NoSector}]
SymbolsIn(found) == {found[i].symbol : i \in DOMAIN found}

\* Every share of the seed, or every company that KAP has listed as traded.
FullIn(symbols) ==
    \/ \A i \in DOMAIN Seed : Seed[i].symbol \in symbols
    \/ \E items \in KapAnswers : TradedIn(items) # {} /\ TradedIn(items) \subseteq symbols
BistRows == {found \in Seq(SymbolRows) : FullIn(SymbolsIn(found))}

(* The inductive invariant: a refresh that comes to storing has all shares of *)
(* Borsa Istanbul to store, so that a table with a symbol has them.           *)
RefreshLoaded ==
    \A t \in DOMAIN refresh :
        /\ refresh[t] \in [pc : {"idle", "us", "bist", "store"}, us : Seq(SymbolRows), bist : Seq(SymbolRows)]
        /\ refresh[t].pc = "store" => refresh[t].bist \in BistRows

TableSeeded ==
    /\ DOMAIN table # {} => FullIn(DOMAIN table)
    /\ seeding = "done" => FullIn(DOMAIN table)

UniverseInv == DOMAIN refresh = Tasks /\ RefreshLoaded /\ TableSeeded

(* Max of the community modules is the greatest element. *)
LEMMA MaxGreatest ==
    ASSUME NEW n \in Nat, NEW S \in SUBSET (1 .. n), S # {}
    PROVE  Max(S) \in S /\ \A m \in S : m <= Max(S)
<1>1. IsFiniteSet(1 .. n)
  BY FS_Interval
<1>2. IsFiniteSet(S) /\ S \in SUBSET Nat
  <2>1. IsFiniteSet(S)
    BY <1>1, FS_Subset
  <2> QED
    BY <2>1
<1>3. PICK m \in S : \A k \in S : k <= m
  BY <1>2, GreatestNatural
<1>4. \A k \in S : m >= k
  BY <1>2, <1>3
<1>5. Max(S) \in S /\ \A k \in S : Max(S) >= k
  BY <1>4 DEF Max
<1> QED
  BY <1>2, <1>5

(* What the loaders make of a line, a company or an entry of the seed. *)
LEMMA RowTyped ==
    ASSUME NEW symbol \in AllSymbols, NEW exchange \in STRING \cup {"BIST"},
           NEW source \in {"nasdaqtrader", "kap", "bist_seed"}, NEW sector \in STRING \cup {NoSector}
    PROVE  /\ _row(symbol, exchange, source, sector) \in SymbolRows
           /\ _row(symbol, exchange, source, sector).symbol = symbol
           /\ _row(symbol, exchange, source, sector).exchange = exchange
  BY DEF _row, SymbolRows

(* A listing yields rows, whatever lines it has. *)
LEMMA ListingRows ==
    ASSUME NEW lines \in Seq(ListingLine)
    PROVE  Listing(lines) \in Seq(SymbolRows)
<1> DEFINE fetched == _parse_pipe_table(lines)
           listed == AtPlaces(fetched, {i \in DOMAIN fetched : fetched[i].kind = "ok"})
<1>1. fetched \in Seq(ListingLine)
  <2> DEFINE places == {i \in 2 .. Len(lines) : \A j \in 2 .. i : lines[j].kind # "footer"}
  <2>1. places \in SUBSET DOMAIN lines
    OBVIOUS
  <2> HIDE DEF places
  <2>2. AtPlaces(lines, places) \in Seq(ListingLine)
    BY <2>1, PlacesKept
  <2> QED
    BY <2>2 DEF places, _parse_pipe_table
<1> HIDE DEF fetched
<1>2. listed \in Seq(ListingLine)
  <2> DEFINE places == {i \in DOMAIN fetched : fetched[i].kind = "ok"}
  <2>1. places \in SUBSET DOMAIN fetched
    OBVIOUS
  <2> HIDE DEF places
  <2>2. AtPlaces(fetched, places) \in Seq(ListingLine)
    BY <1>1, <2>1, PlacesKept
  <2> QED
    BY <2>2 DEF places
<1>3. Listing(lines) = [i \in DOMAIN listed |-> _row(listed[i].symbol, listed[i].exchange, "nasdaqtrader", NoSector)]
  BY DEF Listing, fetched
<1> HIDE DEF listed
<1>4. \A i \in DOMAIN listed : _row(listed[i].symbol, listed[i].exchange, "nasdaqtrader", NoSector) \in SymbolRows
  <2> SUFFICES ASSUME NEW i \in DOMAIN listed
               PROVE  _row(listed[i].symbol, listed[i].exchange, "nasdaqtrader", NoSector) \in SymbolRows
    OBVIOUS
  <2>1. listed[i] \in ListingLine
    BY <1>2
  <2>2. listed[i].symbol \in AllSymbols /\ listed[i].exchange \in STRING
    BY <2>1 DEF ListingLine
  <2> QED
    BY <2>2, RowTyped
<1>5. DOMAIN listed = 1 .. Len(listed) /\ Len(listed) \in Nat
  BY <1>2
<1> QED
  BY <1>3, <1>4, <1>5

(* The US symbols are rows, whichever listing failed. *)
LEMMA UsRows ==
    ASSUME NEW nasdaq \in NasdaqAnswers \cup {Unreachable}, NEW other \in OtherAnswers \cup {Unreachable}
    PROVE  load_us_symbols(nasdaq, other) \in Seq(SymbolRows)
<1>1. nasdaq # Unreachable => Listing(nasdaq) \in Seq(SymbolRows)
  BY ListingRows, SymAssumption
<1>2. other # Unreachable => Listing(other) \in Seq(SymbolRows)
  BY ListingRows, SymAssumption
<1>3. <<>> \in Seq(SymbolRows)
  OBVIOUS
<1> QED
  BY <1>1, <1>2, <1>3 DEF load_us_symbols

(* More symbols hold what fewer hold. *)
LEMMA FullGrows ==
    ASSUME NEW S, NEW T, S \subseteq T, FullIn(S)
    PROVE  FullIn(T) /\ T # {}
<1>1. FullIn(T)
  BY DEF FullIn
<1>2. T # {}
  <2>1. 1 \in DOMAIN Seed
    BY SymAssumption
  <2> QED
    BY <1>1, <2>1 DEF FullIn
<1> QED
  BY <1>1, <1>2

(* The shares of the seed are all of the seed. *)
LEMMA SeedRows == load_bist_symbols \in BistRows
<1>1. Seed \in Seq(Entry)
  BY SymAssumption
<1>2. load_bist_symbols = [i \in DOMAIN Seed |-> _row(Seed[i].symbol, "BIST", "bist_seed", Seed[i].sector)]
  BY DEF load_bist_symbols
<1>3. DOMAIN Seed = 1 .. Len(Seed) /\ Len(Seed) \in Nat
  BY <1>1
<1>4. \A i \in DOMAIN Seed : /\ _row(Seed[i].symbol, "BIST", "bist_seed", Seed[i].sector) \in SymbolRows
                            /\ _row(Seed[i].symbol, "BIST", "bist_seed", Seed[i].sector).symbol = Seed[i].symbol
  <2> SUFFICES ASSUME NEW i \in DOMAIN Seed
               PROVE  /\ _row(Seed[i].symbol, "BIST", "bist_seed", Seed[i].sector) \in SymbolRows
                      /\ _row(Seed[i].symbol, "BIST", "bist_seed", Seed[i].sector).symbol = Seed[i].symbol
    OBVIOUS
  <2>1. Seed[i] \in Entry
    BY <1>1, <1>3
  <2>2. Seed[i].symbol \in AllSymbols /\ Seed[i].sector \in STRING \cup {NoSector}
    BY <2>1 DEF Entry
  <2>3. "BIST" \in STRING \cup {"BIST"} /\ "bist_seed" \in {"nasdaqtrader", "kap", "bist_seed"}
    OBVIOUS
  <2> QED
    BY <2>2, <2>3, RowTyped
<1>5. load_bist_symbols \in Seq(SymbolRows)
  BY <1>2, <1>3, <1>4
<1>6. \A i \in DOMAIN Seed : Seed[i].symbol \in SymbolsIn(load_bist_symbols)
  BY <1>2, <1>4 DEF SymbolsIn
<1> QED
  BY <1>5, <1>6 DEF BistRows, FullIn

(* What KAP lists as traded is loaded exactly once. *)
LEMMA KapRows ==
    ASSUME NEW items \in Seq(Company)
    PROVE  LET fetched == load_bist_full(items)
           IN  /\ fetched \in Seq(SymbolRows)
               /\ {fetched[i].symbol : i \in DOMAIN fetched} = TradedIn(items)
               /\ \A i, j \in DOMAIN fetched : fetched[i].symbol = fetched[j].symbol => i = j
<1> DEFINE named(i) == items[i].active /\ items[i].symbol # ""
           keep(i) == named(i) /\ \A j \in 1 .. i - 1 : named(j) => items[j].symbol # items[i].symbol
           places == {i \in DOMAIN items : keep(i)}
           kept == AtPlaces(items, places)
           fetched == load_bist_full(items)
<1>1. places \in SUBSET DOMAIN items
  OBVIOUS
<1>2. \A i \in DOMAIN items : i \in places <=> keep(i)
  OBVIOUS
<1>3. fetched = [k \in DOMAIN kept |-> _row(kept[k].symbol, "BIST", "kap", NoSector)]
  BY DEF load_bist_full
<1> HIDE DEF places, fetched
<1>4. /\ kept \in Seq(Company)
      /\ \E at \in [DOMAIN kept -> places] :
           /\ \A k \in DOMAIN at : kept[k] = items[at[k]]
           /\ \A j, k \in DOMAIN at : j < k => at[j] < at[k]
           /\ \A i \in places : \E k \in DOMAIN at : at[k] = i
  BY <1>1, PlacesKept
<1> HIDE DEF kept, named, keep
<1>5. PICK at \in [DOMAIN kept -> places] :
           /\ \A k \in DOMAIN at : kept[k] = items[at[k]]
           /\ \A j, k \in DOMAIN at : j < k => at[j] < at[k]
           /\ \A i \in places : \E k \in DOMAIN at : at[k] = i
  BY <1>4
<1>6. DOMAIN kept = 1 .. Len(kept) /\ Len(kept) \in Nat /\ DOMAIN items = 1 .. Len(items) /\ Len(items) \in Nat
  BY <1>4
<1>7. \A k \in DOMAIN kept : kept[k] \in Company
  BY <1>4
<1>8. fetched \in Seq(SymbolRows)
  <2>1. \A k \in DOMAIN kept : _row(kept[k].symbol, "BIST", "kap", NoSector) \in SymbolRows
    <3>1. \A k \in DOMAIN kept : kept[k].symbol \in AllSymbols
      BY <1>7 DEF Company
    <3> QED
      BY <3>1, RowTyped
  <2> QED
    BY <1>3, <1>6, <2>1
<1>9. DOMAIN fetched = DOMAIN kept /\ \A k \in DOMAIN fetched : /\ fetched[k].symbol = items[at[k]].symbol
                                                        /\ at[k] \in places /\ at[k] \in DOMAIN items
  BY <1>1, <1>3, <1>5 DEF _row
<1>10. \A i, j \in DOMAIN items : keep(j) /\ named(i) /\ i < j => items[i].symbol # items[j].symbol
  BY <1>6 DEF keep
<1>11. \A i \in DOMAIN items : keep(i) => named(i)
  BY DEF keep
<1>12. ASSUME NEW i \in DOMAIN fetched, NEW j \in DOMAIN fetched, i < j
       PROVE  fetched[i].symbol # fetched[j].symbol
  <2>1. at[i] < at[j]
    BY <1>5, <1>9, <1>12
  <2>2. keep(at[i]) /\ keep(at[j])
    BY <1>2, <1>9
  <2> QED
    BY <1>9, <1>10, <1>11, <2>1, <2>2
<1>13. \A i, j \in DOMAIN fetched : fetched[i].symbol = fetched[j].symbol => i = j
  <2> SUFFICES ASSUME NEW i \in DOMAIN fetched, NEW j \in DOMAIN fetched, fetched[i].symbol = fetched[j].symbol, i # j
               PROVE  FALSE
    OBVIOUS
  <2>1. i < j \/ j < i
    BY <1>6, <1>9
  <2> QED
    BY <1>12, <2>1
<1>14. ASSUME NEW j \in DOMAIN items, named(j)
       PROVE  \E i \in DOMAIN fetched : fetched[i].symbol = items[j].symbol
  <2> DEFINE Same == {i \in DOMAIN items : named(i) /\ items[i].symbol = items[j].symbol}
  <2>1. Same \in SUBSET Nat /\ Same # {}
    BY <1>6, <1>14
  <2>2. PICK m \in Same : \A n \in Same : m <= n
    <3> HIDE DEF Same
    <3> QED
      BY <2>1, LeastNatural
  <2>3. m \in DOMAIN items /\ named(m) /\ items[m].symbol = items[j].symbol
    OBVIOUS
  <2>4. keep(m)
    <3> SUFFICES ASSUME NEW k \in 1 .. m - 1, named(k), items[k].symbol = items[m].symbol PROVE FALSE
      BY <2>3 DEF keep
    <3>1. k \in Same /\ k < m /\ ~(m <= k)
      BY <1>6, <2>3
    <3> QED
      BY <2>2, <3>1
  <2>5. PICK k \in DOMAIN at : at[k] = m
    BY <1>2, <1>5, <2>3, <2>4
  <2> QED
    BY <1>5, <1>9, <2>3, <2>5
<1>15. {fetched[i].symbol : i \in DOMAIN fetched}
       = {items[i].symbol : i \in {j \in DOMAIN items : items[j].active}} \ {""}
  <2>1. ASSUME NEW k \in DOMAIN fetched
        PROVE  fetched[k].symbol \in {items[i].symbol : i \in {j \in DOMAIN items : items[j].active}} \ {""}
    <3>1. named(at[k])
      BY <1>2, <1>9, <1>11
    <3> QED
      BY <1>9, <3>1 DEF named
  <2>2. ASSUME NEW j \in DOMAIN items, items[j].active, items[j].symbol # ""
        PROVE  items[j].symbol \in {fetched[i].symbol : i \in DOMAIN fetched}
    <3>1. named(j)
      BY <2>2 DEF named
    <3> QED
      BY <1>14, <3>1
  <2> QED
    BY <2>1, <2>2
<1> QED
  BY <1>8, <1>13, <1>15 DEF fetched, TradedIn

(* What KAP answers lists all of its traded companies, unless there is none. *)
LEMMA KapFull ==
    ASSUME NEW items \in KapAnswers \cup {<<>>}, load_bist_full(items) # <<>>
    PROVE  load_bist_full(items) \in BistRows
<1>1. items \in Seq(Company)
  <2>1. CASE items = <<>>
    BY <2>1
  <2>2. CASE items \in KapAnswers
    BY <2>2, SymAssumption
  <2> QED
    BY <2>1, <2>2
<1>2. PICK fetched : fetched = load_bist_full(items)
  OBVIOUS
<1>3. fetched \in Seq(SymbolRows) /\ SymbolsIn(fetched) = TradedIn(items)
  BY <1>1, <1>2, KapRows DEF SymbolsIn
<1>4. TradedIn(items) # {}
  <2>1. 1 \in DOMAIN fetched
    BY <1>2, <1>3
  <2> QED
    BY <1>3, <2>1 DEF SymbolsIn
<1>5. items \in KapAnswers
  <2>1. DOMAIN <<>> = {}
    OBVIOUS
  <2>2. TradedIn(<<>>) = {}
    BY <2>1 DEF TradedIn
  <2> QED
    BY <1>4, <2>2
<1> QED
  BY <1>2, <1>3, <1>4, <1>5 DEF BistRows, FullIn

(* A load that ends with all shares brings them into the table, and so does *)
(* the seed.                                                                *)
LEMMA StoreBist ==
    /\ \A us \in Seq(SymbolRows), bist \in BistRows : FullIn(DOMAIN bulk_upsert(us \o bist))
    /\ FullIn(DOMAIN bulk_upsert(load_bist_symbols))
<1>1. ASSUME NEW us \in Seq(SymbolRows), NEW bist \in BistRows
      PROVE  FullIn(DOMAIN bulk_upsert(us \o bist))
  <2>1. bist \in Seq(SymbolRows) /\ FullIn(SymbolsIn(bist))
    BY DEF BistRows
  <2>2. PICK both : both = us \o bist
    OBVIOUS
  <2>3. \A i \in DOMAIN bist : Len(us) + i \in DOMAIN both /\ both[Len(us) + i] = bist[i]
    BY <2>1, <2>2
  <2>4. SymbolsIn(bist) \subseteq SymbolsIn(both)
    BY <2>3 DEF SymbolsIn
  <2>5. SymbolsIn(both) \subseteq DOMAIN bulk_upsert(both)
    BY DEF bulk_upsert, SymbolsIn
  <2> QED
    BY <2>1, <2>2, <2>4, <2>5, FullGrows
<1>2. FullIn(DOMAIN bulk_upsert(load_bist_symbols))
  <2>1. SymbolsIn(load_bist_symbols) \subseteq DOMAIN bulk_upsert(load_bist_symbols)
    BY DEF bulk_upsert, SymbolsIn
  <2> QED
    BY <2>1, SeedRows, FullGrows DEF BistRows
<1> QED
  BY <1>1, <1>2

Loads == [pc : {"idle", "us", "bist", "store"}, us : Seq(SymbolRows), bist : Seq(SymbolRows)]

(* A task that goes on with rows leaves the others as they were. *)
LEMMA LoadGoesOn ==
    ASSUME UniverseInv, NEW t \in Tasks, NEW load \in Loads, load.pc = "store" => load.bist \in BistRows,
           refresh' = [refresh EXCEPT ![t] = load]
    PROVE  DOMAIN refresh' = Tasks /\ RefreshLoaded'
<1>1. DOMAIN refresh' = Tasks
  BY DEF UniverseInv
<1>2. ASSUME NEW u \in Tasks
      PROVE  /\ refresh'[u] \in Loads
             /\ refresh'[u].pc = "store" => refresh'[u].bist \in BistRows
  <2>1. CASE u = t
    <3>1. refresh'[u] = load
      BY <2>1 DEF UniverseInv
    <3> QED
      BY <3>1
  <2>2. CASE u # t
    <3>1. refresh'[u] = refresh[u]
      BY <2>2 DEF UniverseInv
    <3> QED
      BY <3>1 DEF UniverseInv, RefreshLoaded, Loads
  <2> QED
    BY <2>1, <2>2
<1> QED
  BY <1>1, <1>2 DEF RefreshLoaded, Loads

(* A task begins, and loads what the sources answer. *)
LEMMA LoadingKeeps ==
    ASSUME UniverseInv, NEW t \in Tasks,
           BeginRefresh(t) \/ LoadUs(t)
    PROVE  DOMAIN refresh' = Tasks /\ RefreshLoaded'
<1>1. refresh[t] \in Loads
  BY DEF UniverseInv, RefreshLoaded, Loads
<1>2. refresh[t].us \in Seq(SymbolRows) /\ refresh[t].bist \in Seq(SymbolRows)
  BY <1>1 DEF Loads
<1>3. CASE BeginRefresh(t)
  <2> DEFINE load == [refresh[t] EXCEPT !.pc = "us"]
  <2>1. load \in Loads /\ load.pc = "us"
    BY <1>1 DEF Loads
  <2>2. refresh' = [refresh EXCEPT ![t] = load]
    BY <1>3 DEF BeginRefresh
  <2> HIDE DEF load
  <2> QED
    BY <2>1, <2>2, LoadGoesOn
<1>4. CASE LoadUs(t)
  <2>1. PICK nasdaq \in NasdaqAnswers \cup {Unreachable}, other \in OtherAnswers \cup {Unreachable} :
             refresh' = [refresh EXCEPT ![t].us = load_us_symbols(nasdaq, other), ![t].pc = "bist"]
    BY <1>4 DEF LoadUs
  <2> DEFINE fetched == load_us_symbols(nasdaq, other)
             load == [[refresh[t] EXCEPT !.us = fetched] EXCEPT !.pc = "bist"]
  <2>2. fetched \in Seq(SymbolRows)
    BY UsRows
  <2>3. refresh' = [refresh EXCEPT ![t] = load]
    BY <2>1 DEF UniverseInv
  <2> HIDE DEF fetched
  <2>4. load \in Loads /\ load.pc = "bist"
    BY <1>1, <2>2 DEF Loads
  <2> HIDE DEF load
  <2> QED
    BY <2>3, <2>4, LoadGoesOn
<1> QED
  BY <1>3, <1>4

(* A task that ends forgets what it has loaded. *)
LEMMA EndedKeeps ==
    ASSUME UniverseInv, NEW t \in Tasks, Ended(t)
    PROVE  DOMAIN refresh' = Tasks /\ RefreshLoaded'
<1>1. NotRefreshing \in Loads /\ NotRefreshing.pc = "idle"
  BY DEF NotRefreshing, Loads
<1>2. refresh' = [refresh EXCEPT ![t] = NotRefreshing]
  BY DEF Ended
<1> QED
  BY <1>1, <1>2, LoadGoesOn

(* When a refresh raises, the table gets the seed or stays as it was. *)
LEMMA RaisesKeeps ==
    ASSUME UniverseInv, NEW t \in Tasks, RefreshRaises(t)
    PROVE  UniverseInv'
<1>1. DOMAIN refresh' = Tasks /\ RefreshLoaded'
  BY EndedKeeps DEF RefreshRaises
<1>2. CASE UNCHANGED table /\ (UNCHANGED seeding \/ seeding' = "failed")
  BY <1>1, <1>2 DEF UniverseInv, TableSeeded
<1>3. CASE table' = bulk_upsert(load_bist_symbols)
  BY <1>1, <1>3, StoreBist DEF UniverseInv, TableSeeded
<1> QED
  BY <1>2, <1>3 DEF RefreshRaises

(* The shares of Borsa Istanbul are loaded from KAP or from the seed. *)
LEMMA LoadBistKeeps ==
    ASSUME UniverseInv, NEW t \in Tasks, LoadBist(t)
    PROVE  UniverseInv'
<1>1. CASE \E items \in KapAnswers \cup {<<>>} :
            /\ refresh' = [refresh EXCEPT ![t].pc = "store", ![t].bist =
                    IF load_bist_full(items) = <<>> THEN load_bist_symbols ELSE load_bist_full(items)]
            /\ UNCHANGED <<table, seeding>>
  <2>1. PICK items \in KapAnswers \cup {<<>>} :
            refresh' = [refresh EXCEPT ![t].pc = "store", ![t].bist =
                    IF load_bist_full(items) = <<>> THEN load_bist_symbols ELSE load_bist_full(items)]
    BY <1>1
  <2> DEFINE fetched == IF load_bist_full(items) = <<>> THEN load_bist_symbols ELSE load_bist_full(items)
             load == [[refresh[t] EXCEPT !.pc = "store"] EXCEPT !.bist = fetched]
  <2>4. fetched \in BistRows
    BY KapFull, SeedRows
  <2>5. refresh' = [refresh EXCEPT ![t] = load]
    BY <2>1 DEF UniverseInv
  <2> HIDE DEF fetched
  <2>6. refresh[t] \in Loads /\ fetched \in Seq(SymbolRows)
    BY <2>4 DEF UniverseInv, RefreshLoaded, Loads, BistRows
  <2>7. load \in Loads /\ load.bist = fetched
    BY <2>6 DEF Loads
  <2> HIDE DEF load
  <2>8. DOMAIN refresh' = Tasks /\ RefreshLoaded'
    BY <2>4, <2>5, <2>7, LoadGoesOn
  <2> QED
    BY <1>1, <2>8 DEF UniverseInv, TableSeeded
<1> QED
  BY <1>1, RaisesKeeps DEF LoadBist

(* What is stored holds all shares of Borsa Istanbul. *)
LEMMA StoreKeeps ==
    ASSUME UniverseInv, NEW t \in Tasks, StoreUniverse(t)
    PROVE  UniverseInv'
<1>1. refresh[t].us \in Seq(SymbolRows) /\ refresh[t].bist \in BistRows
  BY DEF StoreUniverse, UniverseInv, RefreshLoaded
<1>2. CASE Ended(t) /\ table' = bulk_upsert(refresh[t].us \o refresh[t].bist)
  <2>1. FullIn(DOMAIN table')
    BY <1>1, <1>2, StoreBist
  <2>2. DOMAIN refresh' = Tasks /\ RefreshLoaded'
    BY <1>2, EndedKeeps
  <2> QED
    BY <2>1, <2>2 DEF UniverseInv, TableSeeded
<1> QED
  BY <1>2, RaisesKeeps DEF StoreUniverse

(* The invariant holds at first, and every step keeps it. *)
LEMMA UniverseStarts == SymInit => UniverseInv
<1> SUFFICES ASSUME SymInit PROVE UniverseInv
  OBVIOUS
<1>1. NotRefreshing \in Loads /\ NotRefreshing.pc = "idle"
  BY DEF NotRefreshing, Loads
<1>2. DOMAIN refresh = Tasks /\ RefreshLoaded
  BY <1>1 DEF SymInit, RefreshLoaded, Loads
<1>3. DOMAIN table = {} /\ seeding = "new"
  BY DEF SymInit
<1> QED
  BY <1>2, <1>3 DEF UniverseInv, TableSeeded

LEMMA UniverseStep == UniverseInv /\ [SymNext]_symVars => UniverseInv'
<1> SUFFICES ASSUME UniverseInv, [SymNext]_symVars PROVE UniverseInv'
  OBVIOUS
<1>1. CASE StartSeeding
  <2>1. CASE DOMAIN table # {}
    BY <1>1, <2>1 DEF StartSeeding, UniverseInv, TableSeeded, RefreshLoaded
  <2>2. CASE DOMAIN table = {}
    <3>1. BeginRefresh(Seeder) /\ seeding' = "running" /\ UNCHANGED table
      BY <1>1, <2>2 DEF StartSeeding
    <3>2. DOMAIN refresh' = Tasks /\ RefreshLoaded'
      BY <3>1, LoadingKeeps, SymAssumption
    <3> QED
      BY <3>1, <3>2 DEF UniverseInv, TableSeeded
  <2> QED
    BY <2>1, <2>2
<1>2. ASSUME NEW t \in Tasks, PostRefresh(t) PROVE UniverseInv'
  <2>1. DOMAIN refresh' = Tasks /\ RefreshLoaded'
    BY <1>2, LoadingKeeps DEF PostRefresh
  <2> QED
    BY <1>2, <2>1 DEF UniverseInv, TableSeeded, PostRefresh
<1>3. ASSUME NEW t \in Tasks, LoadUs(t) PROVE UniverseInv'
  <2>1. DOMAIN refresh' = Tasks /\ RefreshLoaded'
    BY <1>3, LoadingKeeps
  <2> QED
    BY <1>3, <2>1 DEF UniverseInv, TableSeeded, LoadUs
<1>4. CASE Relaunch
  <2>1. NotRefreshing \in Loads /\ NotRefreshing.pc = "idle"
    BY DEF NotRefreshing, Loads
  <2>2. DOMAIN refresh' = Tasks /\ RefreshLoaded'
    BY <1>4, <2>1 DEF Relaunch, RefreshLoaded, Loads
  <2> QED
    BY <1>4, <2>2 DEF Relaunch, UniverseInv, TableSeeded
<1>5. CASE UNCHANGED symVars
  BY <1>5 DEF symVars, UniverseInv, TableSeeded, RefreshLoaded
<1> QED
  BY <1>1, <1>2, <1>3, <1>4, <1>5, LoadBistKeeps, StoreKeeps DEF SymNext

(* An engine that serves, and any table that holds a symbol, has every share *)
(* of the seed or every company that KAP has listed as traded, whichever     *)
(* source or transaction failed and whenever the engine was killed; and what *)
(* KAP lists as traded is loaded exactly once.                               *)
THEOREM UniverseSoundCorrect == SymSpec => []UniverseSound
<1>1. TradedListedOnce
  BY KapRows, SymAssumption DEF TradedListedOnce
<1>2. UniverseInv => UniverseSound
  <2>1. FullIn(DOMAIN table) => FullySeeded
    BY DEF FullIn, FullySeeded
  <2> QED
    BY <1>1, <2>1 DEF UniverseSound, UniverseInv, TableSeeded, SeededOffline
<1>3. SymInit => UniverseInv
  BY UniverseStarts
<1>4. UniverseInv /\ [SymNext]_symVars => UniverseInv'
  BY UniverseStep
<1> QED
  BY <1>2, <1>3, <1>4, PTL DEF SymSpec

-----------------------------------------------------------------------------
(* What a search finds                                                     *)

\* Symbols that have a display symbol, and finitely many of them.
Finite(symbols) == IsFiniteSet(symbols) /\ symbols \subseteq AllSymbols

(* The table holds finitely many symbols: a list names finitely many. *)
LEMMA UpsertFinite ==
    ASSUME Finite(DOMAIN table), NEW found \in Seq(SymbolRows)
    PROVE  Finite(DOMAIN bulk_upsert(found))
<1> DEFINE new == {found[i].symbol : i \in DOMAIN found}
<1>1. DOMAIN found = 1 .. Len(found) /\ Len(found) \in Nat
  OBVIOUS
<1>2. IsFiniteSet(DOMAIN found)
  BY <1>1, FS_Interval
<1>3. new \subseteq AllSymbols
  <2>1. \A i \in DOMAIN found : found[i] \in SymbolRows
    OBVIOUS
  <2> QED
    BY <2>1 DEF SymbolRows
<1>4. IsFiniteSet(new)
  <2>1. PICK f : f = [i \in DOMAIN found |-> found[i].symbol]
    OBVIOUS
  <2>2. f \in Surjection(DOMAIN found, new)
    BY <2>1 DEF Surjection
  <2> HIDE DEF new
  <2> QED
    BY <1>2, <2>2, FS_Surjection
<1>5. DOMAIN bulk_upsert(found) = DOMAIN table \cup new
  BY DEF bulk_upsert
<1> HIDE DEF new
<1> QED
  BY <1>3, <1>4, <1>5, FS_Union DEF Finite

FiniteUniverse == UniverseInv /\ Finite(DOMAIN table)

(* Every step keeps that. *)
LEMMA FiniteStep == FiniteUniverse /\ [SymNext]_symVars => FiniteUniverse'
<1> SUFFICES ASSUME FiniteUniverse, [SymNext]_symVars PROVE Finite(DOMAIN table)'
  BY UniverseStep DEF FiniteUniverse
<1>1. \A found \in Seq(SymbolRows) : Finite(DOMAIN bulk_upsert(found))
  BY UpsertFinite DEF FiniteUniverse
<1>2. load_bist_symbols \in Seq(SymbolRows)
  BY SeedRows DEF BistRows
<1>3. ASSUME NEW t \in Tasks, LoadBist(t) PROVE Finite(DOMAIN table)'
  <2>1. table' = bulk_upsert(load_bist_symbols) \/ table' = table
    BY <1>3 DEF LoadBist, RefreshRaises
  <2> QED
    BY <1>1, <1>2, <2>1 DEF FiniteUniverse
<1>4. ASSUME NEW t \in Tasks, StoreUniverse(t) PROVE Finite(DOMAIN table)'
  <2>1. refresh[t].us \in Seq(SymbolRows) /\ refresh[t].bist \in Seq(SymbolRows)
    BY DEF FiniteUniverse, UniverseInv, RefreshLoaded
  <2>2. refresh[t].us \o refresh[t].bist \in Seq(SymbolRows)
    BY <2>1
  <2>3. table' = bulk_upsert(refresh[t].us \o refresh[t].bist) \/ table' = bulk_upsert(load_bist_symbols) \/ table' = table
    BY <1>4 DEF StoreUniverse, RefreshRaises
  <2> QED
    BY <1>1, <1>2, <2>2, <2>3 DEF FiniteUniverse
<1>5. ASSUME UNCHANGED table PROVE Finite(DOMAIN table)'
  BY <1>5 DEF FiniteUniverse
<1> QED
  BY <1>3, <1>4, <1>5 DEF SymNext, symVars, StartSeeding, PostRefresh, LoadUs, Relaunch

(* The rank of a search orders the symbols. *)
LEMMA RankOrders ==
    ASSUME NEW q \in Queries, NEW found \in SUBSET AllSymbols
    PROVE  IsOrderOf({pair \in found \X found : Ranked(q, pair[1], pair[2])}, found)
<1> DEFINE before == {pair \in found \X found : Ranked(q, pair[1], pair[2])}
<1>1. \A a, b \in found : <<a, b>> \in before <=> Ranked(q, a, b)
  OBVIOUS
<1>2. \A a, b, c \in found : ~ByDisplay(a, a) /\ (ByDisplay(a, b) /\ ByDisplay(b, c) => ByDisplay(a, c))
  BY SearchAssumption
<1> DEFINE exact(s) == Display[s] = q
           prefix(s) == s \in Ticker[q]
<1>3. \A a, b \in found : Ranked(q, a, b) <=> IF exact(a) # exact(b) THEN exact(a)
                                             ELSE IF prefix(a) # prefix(b) THEN prefix(a) ELSE ByDisplay(a, b)
  BY DEF Ranked
<1>4. \A a \in found : ~Ranked(q, a, a)
  BY <1>2, <1>3
<1>5. ASSUME NEW a \in found, NEW b \in found, NEW c \in found, Ranked(q, a, b), Ranked(q, b, c)
      PROVE  Ranked(q, a, c)
  <2>1. ByDisplay(a, b) /\ ByDisplay(b, c) => ByDisplay(a, c)
    BY <1>2
  <2>2. /\ Ranked(q, a, b) <=> IF exact(a) # exact(b) THEN exact(a) ELSE IF prefix(a) # prefix(b) THEN prefix(a) ELSE ByDisplay(a, b)
        /\ Ranked(q, b, c) <=> IF exact(b) # exact(c) THEN exact(b) ELSE IF prefix(b) # prefix(c) THEN prefix(b) ELSE ByDisplay(b, c)
        /\ Ranked(q, a, c) <=> IF exact(a) # exact(c) THEN exact(a) ELSE IF prefix(a) # prefix(c) THEN prefix(a) ELSE ByDisplay(a, c)
    BY <1>3
  <2> HIDE DEF exact, prefix
  <2> QED
    BY <1>5, <2>1, <2>2
<1> HIDE DEF before, exact, prefix
<1>6. IsOrderOf(before, found)
  BY <1>1, <1>4, <1>5 DEF IsOrderOf
<1> QED
  BY <1>6 DEF before

(* The local symbols: each once, an exact ticker first, tickers before names. *)
LEMMA LocalFound ==
    ASSUME IsFiniteSet(DOMAIN table), NEW q \in Queries, NEW limit \in Nat \ {0}
    PROVE  LET local == SearchLocal(q, limit)
           IN  /\ local \in Seq(AllSymbols)
               /\ \A j, k \in DOMAIN local : local[j] = local[k] => j = k
               /\ DOMAIN table \cap Ticker[q] # {} => local # <<>> /\ local[1] \in Ticker[q]
               /\ (\E s \in DOMAIN table \cap Ticker[q] : Display[s] = q) => Display[local[1]] = q
<1> DEFINE found == DOMAIN table \cap (Ticker[q] \cup Named[q])
           before == {pair \in found \X found : Ranked(q, pair[1], pair[2])}
<1>1. found \subseteq AllSymbols /\ IsFiniteSet(found)
  <2>1. found \subseteq AllSymbols
    BY SearchAssumption
  <2>2. found \subseteq DOMAIN table
    OBVIOUS
  <2> HIDE DEF found
  <2> QED
    BY <2>1, <2>2, FS_Subset
<1>2. SearchLocal(q, limit) = Upto(limit, InOrder(found, before))
  BY DEF SearchLocal
<1>3. \A s \in DOMAIN table \cap Ticker[q] : s \in found
  OBVIOUS
<1>4. \A a, b \in found : <<a, b>> \in before <=> Ranked(q, a, b)
  OBVIOUS
<1> HIDE DEF found
<1>5. IsOrderOf(before, found)
  BY <1>1, RankOrders
<1> HIDE DEF before
<1>6. PICK all : all = InOrder(found, before)
  OBVIOUS
<1>7. /\ all \in Seq(found)
      /\ \A j, k \in DOMAIN all : all[j] = all[k] => j = k
      /\ \A x \in found : \E k \in DOMAIN all : all[k] = x
      /\ \A j, k \in DOMAIN all : j < k => <<all[k], all[j]>> \notin before
  BY <1>1, <1>5, <1>6, InOrderListed
<1>8. PICK local : local = SearchLocal(q, limit)
  OBVIOUS
<1>9. /\ local \in Seq(found)
      /\ Len(local) = IF Len(all) < limit THEN Len(all) ELSE limit
      /\ \A k \in 1 .. Len(local) : k \in 1 .. Len(all) /\ local[k] = all[k]
  BY <1>2, <1>6, <1>7, <1>8, UptoKept
<1>10. /\ DOMAIN all = 1 .. Len(all) /\ Len(all) \in Nat
       /\ DOMAIN local = 1 .. Len(local) /\ Len(local) \in Nat
  BY <1>7, <1>9
<1>11. \A j, k \in DOMAIN local : local[j] = local[k] => j = k
  BY <1>7, <1>9, <1>10
<1>12. ASSUME NEW s \in found
       PROVE  /\ local # <<>> /\ local[1] \in found
              /\ local[1] = s \/ ~Ranked(q, s, local[1])
  <2>1. PICK k \in DOMAIN all : all[k] = s
    BY <1>7
  <2>2. 1 \in DOMAIN all /\ 1 \in DOMAIN local /\ local[1] = all[1] /\ all[1] \in found
    BY <1>7, <1>9, <1>10, <2>1
  <2>3. k = 1 \/ <<all[k], all[1]>> \notin before
    <3>1. k = 1 \/ 1 < k
      BY <1>10, <2>1
    <3>2. 1 < k => <<all[k], all[1]>> \notin before
      BY <1>7, <2>1, <2>2
    <3> QED
      BY <3>1, <3>2
  <2> QED
    BY <1>4, <1>9, <1>10, <2>1, <2>2, <2>3
<1>13. ASSUME NEW s \in DOMAIN table \cap Ticker[q], Display[s] = q
       PROVE  Display[local[1]] = q
  <2>1. s \in found
    BY <1>3
  <2>2. local[1] = s \/ ~Ranked(q, s, local[1])
    BY <1>12, <2>1
  <2> QED
    BY <1>13, <2>2 DEF Ranked
<1>14. ASSUME NEW s \in DOMAIN table \cap Ticker[q]
       PROVE  local # <<>> /\ local[1] \in Ticker[q]
  <2>1. s \in found
    BY <1>3
  <2>2. /\ local # <<>> /\ local[1] \in found
        /\ local[1] = s \/ ~Ranked(q, s, local[1])
    BY <1>12, <2>1
  <2>3. local[1] \in AllSymbols
    BY <1>1, <2>2
  <2>4. CASE Display[local[1]] = q
    BY <2>2, <2>3, <2>4, SearchAssumption
  <2>5. CASE Display[local[1]] # q
    BY <2>2, <2>5 DEF Ranked
  <2> QED
    BY <2>2, <2>4, <2>5
<1>15. local \in Seq(AllSymbols)
  BY <1>1, <1>9
<1> QED
  BY <1>8, <1>11, <1>13, <1>14, <1>15

(* A ticker typed in full is the first answer to a search. *)
LEMMA TickerFirst == IsFiniteSet(DOMAIN table) => ExactTickerFirst
<1> SUFFICES ASSUME IsFiniteSet(DOMAIN table), NEW q \in Queries, NEW limit \in 1 .. SearchLimit
             PROVE  LET found == search_symbols(q, limit)
                    IN  /\ \A i, j \in DOMAIN found : found[i] = found[j] => i = j
                        /\ (\E s \in DOMAIN table \cap Ticker[q] : Display[s] = q) => Display[found[1]] = q
                        /\ DOMAIN table \cap Ticker[q] # {} => found[1] \in Ticker[q]
  BY DEF ExactTickerFirst
<1>1. limit \in Nat \ {0}
  BY SearchAssumption
<1>2. PICK local : local = SearchLocal(q, limit)
  OBVIOUS
<1>3. /\ local \in Seq(AllSymbols)
      /\ \A j, k \in DOMAIN local : local[j] = local[k] => j = k
      /\ DOMAIN table \cap Ticker[q] # {} => local # <<>> /\ local[1] \in Ticker[q]
      /\ (\E s \in DOMAIN table \cap Ticker[q] : Display[s] = q) => Display[local[1]] = q
  BY <1>1, <1>2, LocalFound
<1>4. market_search(q) \in Seq(STRING)
  <2>1. Live[q] \in Seq(Seq(STRING))
    BY SearchAssumption
  <2>2. Concat(Live[q]) \in Seq(STRING)
    BY <2>1, ConcatHolds
  <2> QED
    BY <2>2, FirstsKept DEF market_search
<1> DEFINE S == AllSymbols \cup STRING
<1>5. PICK both : both = local \o market_search(q)
  OBVIOUS
<1>6. both \in Seq(S) /\ (local # <<>> => both # <<>> /\ both[1] = local[1]) /\ local \in Seq(S)
  <2>1. local \in Seq(S) /\ market_search(q) \in Seq(S)
    BY <1>3, <1>4
  <2>2. PICK more : more = market_search(q)
    OBVIOUS
  <2> HIDE DEF S
  <2>3. both \in Seq(S) /\ Len(both) = Len(local) + Len(more) /\ Len(local) \in Nat /\ Len(more) \in Nat
        /\ \A k \in 1 .. Len(local) : both[k] = local[k]
    BY <1>5, <2>1, <2>2
  <2>4. local # <<>> => 1 \in 1 .. Len(local)
    BY <2>1
  <2> QED
    BY <2>1, <2>3, <2>4
<1> HIDE DEF S
<1>7. PICK all : all = IF Len(local) < FewResults THEN Firsts(both) ELSE local
  OBVIOUS
<1>8. /\ all \in Seq(S)
      /\ \A j, k \in DOMAIN all : all[j] = all[k] => j = k
      /\ local # <<>> => all # <<>> /\ all[1] = local[1]
  <2>1. CASE Len(local) < FewResults
    <3>1. all = Firsts(both)
      BY <1>7, <2>1
    <3> QED
      BY <1>6, <3>1, FirstsKept
  <2>2. CASE ~(Len(local) < FewResults)
    BY <1>3, <1>6, <1>7, <2>2
  <2> QED
    BY <2>1, <2>2
<1>9. PICK found : found = search_symbols(q, limit)
  OBVIOUS
<1>10. found = Upto(limit, all)
  BY <1>2, <1>5, <1>7, <1>9 DEF search_symbols
<1>11. /\ found \in Seq(S)
       /\ Len(found) = IF Len(all) < limit THEN Len(all) ELSE limit
       /\ \A k \in 1 .. Len(found) : k \in 1 .. Len(all) /\ found[k] = all[k]
  BY <1>1, <1>8, <1>10, UptoKept
<1>12. /\ DOMAIN found = 1 .. Len(found) /\ Len(found) \in Nat
       /\ DOMAIN all = 1 .. Len(all) /\ Len(all) \in Nat
       /\ all # <<>> => Len(all) # 0
  BY <1>8, <1>11
<1>13. \A i, j \in DOMAIN found : found[i] = found[j] => i = j
  BY <1>8, <1>11, <1>12
<1>14. local # <<>> => found[1] = local[1]
  <2>1. local # <<>> => 1 \in 1 .. Len(found)
    BY <1>1, <1>8, <1>11, <1>12
  <2> QED
    BY <1>8, <1>11, <2>1
<1>15. (\E s \in DOMAIN table \cap Ticker[q] : Display[s] = q) => Display[found[1]] = q
  BY <1>3, <1>14
<1> QED
  BY <1>3, <1>9, <1>13, <1>14, <1>15

(* The countries of the search: the keys of a label lead to the same listings. *)
Country == {_COUNTRY_EXCHANGES[key] : key \in DOMAIN _COUNTRY_EXCHANGES}

(* The countries on offer, each once, with what they lead to. *)
LEMMA CountryFacets ==
    ASSUME NEW c \in Country
    PROVE  /\ _country_exchanges(c.label) = c.exchanges
           /\ \A d \in Country : d.label = c.label => d = c
<1> DEFINE names == {"united states", "us", "usa", "america", "turkey", "tr", "bist"}
           turkey == [label |-> "Turkey", exchanges |-> {"BIST"}]
           states == [label |-> "United States", exchanges |-> {"NYSE", "NASDAQ", "AMEX"}]
<1>1. /\ DOMAIN _COUNTRY_EXCHANGES = names
      /\ \A key \in names : _COUNTRY_EXCHANGES[key] = IF key \in {"turkey", "tr", "bist"} THEN turkey ELSE states
  BY DEF _COUNTRY_EXCHANGES
<1>2. turkey.label = "Turkey" /\ states.label = "United States"
  OBVIOUS
<1>3. \A d \in Country : d = turkey \/ d = states
  <2> HIDE DEF turkey, states
  <2> QED
    BY <1>1 DEF Country
<1>4. \A d \in Country : d.label = c.label => d = c
  <2> HIDE DEF turkey, states
  <2> QED
    BY <1>2, <1>3
<1>5. PICK key \in names : c = _COUNTRY_EXCHANGES[key]
  BY <1>1 DEF Country
<1> DEFINE keys == {k \in DOMAIN _COUNTRY_EXCHANGES : k = c.label \/ _COUNTRY_EXCHANGES[k].label = c.label}
<1>6. key \in keys
  BY <1>1, <1>5
<1>7. \A k \in keys : _COUNTRY_EXCHANGES[k] = c
  <2> SUFFICES ASSUME NEW k \in keys PROVE _COUNTRY_EXCHANGES[k] = c
    OBVIOUS
  <2>1. k \in names /\ k # "Turkey" /\ k # "United States"
    BY <1>1
  <2>2. c.label = "Turkey" \/ c.label = "United States"
    <3> HIDE DEF turkey, states
    <3> QED
      BY <1>2, <1>3
  <2>3. _COUNTRY_EXCHANGES[k].label = c.label
    BY <2>1, <2>2
  <2>4. _COUNTRY_EXCHANGES[k] \in Country
    BY <1>1, <2>1 DEF Country
  <2> QED
    BY <1>4, <2>3, <2>4
<1>8. _country_exchanges(c.label) = IF keys = {} THEN {} ELSE _COUNTRY_EXCHANGES[CHOOSE k \in keys : TRUE].exchanges
  BY DEF _country_exchanges
<1> HIDE DEF keys
<1>9. _country_exchanges(c.label) = c.exchanges
  <2>1. keys # {} /\ (CHOOSE k \in keys : TRUE) \in keys
    BY <1>6
  <2> QED
    BY <1>7, <1>8, <2>1
<1> QED
  BY <1>4, <1>9

(* A page of symbols holds as many as there are or as it may, each once. *)
LEMMA PageHolds ==
    ASSUME NEW symbols, Finite(symbols), symbols # {}, NEW limit \in Nat \ {0}
    PROVE  LET page == Page(symbols, limit)
           IN  /\ page # <<>> /\ IsInjective(page)
               /\ Len(page) = IF Cardinality(symbols) < limit THEN Cardinality(symbols) ELSE limit
<1> DEFINE before == {pair \in symbols \X symbols : Alphabet(Display[pair[1]], Display[pair[2]])}
<1>1. IsOrderOf(before, symbols)
  <2>1. \A a, b \in symbols : <<a, b>> \in before <=> Alphabet(Display[a], Display[b])
    OBVIOUS
  <2>2. \A a, b, c \in symbols :
          /\ ~Alphabet(Display[a], Display[a])
          /\ Alphabet(Display[a], Display[b]) /\ Alphabet(Display[b], Display[c]) => Alphabet(Display[a], Display[c])
    BY SearchAssumption DEF Finite
  <2> HIDE DEF before
  <2> QED
    BY <2>1, <2>2 DEF IsOrderOf
<1> HIDE DEF before
<1>2. PICK all : all = InOrder(symbols, before)
  OBVIOUS
<1>3. /\ all \in Seq(symbols) /\ Len(all) = Cardinality(symbols)
      /\ \A j, k \in DOMAIN all : all[j] = all[k] => j = k
  BY <1>1, <1>2, InOrderListed DEF Finite
<1>4. PICK page : page = Page(symbols, limit)
  OBVIOUS
<1>5. /\ page \in Seq(symbols)
      /\ Len(page) = IF Len(all) < limit THEN Len(all) ELSE limit
      /\ \A k \in 1 .. Len(page) : k \in 1 .. Len(all) /\ page[k] = all[k]
  BY <1>2, <1>3, <1>4, UptoKept DEF Page, before
<1>6. Cardinality(symbols) \in Nat \ {0}
  BY FS_CardinalityType, FS_EmptySet DEF Finite
<1>7. IsInjective(page)
  BY <1>3, <1>5 DEF IsInjective
<1>8. page # <<>>
  BY <1>3, <1>5, <1>6
<1> QED
  BY <1>3, <1>4, <1>5, <1>7, <1>8

(* The sectors of a search: each once, and none that is empty. *)
LEMMA SectorsFound ==
    ASSUME Finite(DOMAIN table), NEW q \in Queries
    PROVE  LET labels == search_sectors(q, FacetLimit)
           IN  /\ labels \in Seq(STRING)
               /\ \A i, j \in DOMAIN labels : labels[i] = labels[j] => i = j
               /\ \A i \in DOMAIN labels : SectorSymbols(labels[i]) # {}
<1> DEFINE sectors == {x \in SectorsOf[q] : SectorSymbols(x) # {}}
           size(x) == Cardinality(SectorSymbols(x))
           larger == {pair \in sectors \X sectors : size(pair[1]) > size(pair[2])}
<1>1. IsFiniteSet(sectors) /\ sectors \subseteq STRING
  BY SearchAssumption, FS_Subset
<1>2. search_sectors(q, FacetLimit) = Upto(FacetLimit, InOrder(sectors, larger))
  BY DEF search_sectors
<1>3. \A x \in sectors : SectorSymbols(x) # {}
  OBVIOUS
<1>4. \A x \in sectors : size(x) \in Nat
  <2>1. \A x : SectorSymbols(x) \subseteq DOMAIN table
    BY DEF SectorSymbols
  <2> QED
    BY <2>1, FS_Subset, FS_CardinalityType DEF Finite
<1>5. \A x, y \in sectors : <<x, y>> \in larger <=> size(x) > size(y)
  OBVIOUS
<1> HIDE DEF sectors, size, larger
<1>6. IsOrderOf(larger, sectors)
  BY <1>4, <1>5 DEF IsOrderOf
<1>7. PICK all : all = InOrder(sectors, larger)
  OBVIOUS
<1>8. all \in Seq(sectors) /\ \A j, k \in DOMAIN all : all[j] = all[k] => j = k
  BY <1>1, <1>6, <1>7, InOrderListed
<1>9. PICK labels : labels = search_sectors(q, FacetLimit)
  OBVIOUS
<1>10. /\ labels \in Seq(sectors)
       /\ \A k \in 1 .. Len(labels) : k \in 1 .. Len(all) /\ labels[k] = all[k]
  BY <1>2, <1>7, <1>8, <1>9, UptoKept, SearchAssumption
<1>11. /\ labels \in Seq(STRING)
       /\ \A i, j \in DOMAIN labels : labels[i] = labels[j] => i = j
  BY <1>1, <1>8, <1>10
<1>12. \A i \in DOMAIN labels : SectorSymbols(labels[i]) # {}
  BY <1>3, <1>10
<1> QED
  BY <1>9, <1>11, <1>12

(* The countries of a search: each once, and none that is empty. *)
LEMMA CountriesFound ==
    ASSUME NEW q \in Queries
    PROVE  LET lands == AtPlaces(_matching_countries(q), {i \in DOMAIN _matching_countries(q) :
                                    ExchangeSymbols(_matching_countries(q)[i].exchanges) # {}})
           IN  /\ lands \in Seq(Country)
               /\ \A i, j \in DOMAIN lands : lands[i] = lands[j] => i = j
               /\ \A i \in DOMAIN lands : ExchangeSymbols(lands[i].exchanges) # {}
<1>1. PICK found : found = [i \in DOMAIN CountryKeys[q] |-> _COUNTRY_EXCHANGES[CountryKeys[q][i]]]
  OBVIOUS
<1>2. CountryKeys[q] \in Seq(DOMAIN _COUNTRY_EXCHANGES)
  BY SearchAssumption
<1>3. \A i \in DOMAIN CountryKeys[q] : _COUNTRY_EXCHANGES[CountryKeys[q][i]] \in Country
  BY <1>2 DEF Country
<1>4. found \in Seq(Country)
  <2>1. DOMAIN CountryKeys[q] = 1 .. Len(CountryKeys[q]) /\ Len(CountryKeys[q]) \in Nat
    BY <1>2
  <2> QED
    BY <1>1, <1>3, <2>1
<1>5. PICK matching : matching = _matching_countries(q)
  OBVIOUS
<1>6. matching = Firsts(found)
  BY <1>1, <1>5 DEF _matching_countries
<1>7. matching \in Seq(Country) /\ \A i, j \in DOMAIN matching : matching[i] = matching[j] => i = j
  BY <1>4, <1>6, FirstsKept
<1> DEFINE places == {i \in DOMAIN matching : ExchangeSymbols(matching[i].exchanges) # {}}
<1>8. places \in SUBSET DOMAIN matching /\ \A i \in places : ExchangeSymbols(matching[i].exchanges) # {}
  OBVIOUS
<1>9. PICK lands : lands = AtPlaces(matching, places)
  OBVIOUS
<1> HIDE DEF places
<1>10. /\ lands \in Seq(Country)
       /\ \E at \in [DOMAIN lands -> places] :
            /\ \A k \in DOMAIN at : lands[k] = matching[at[k]]
            /\ \A j, k \in DOMAIN at : j < k => at[j] < at[k]
  BY <1>7, <1>8, <1>9, PlacesKept
<1>11. PICK at \in [DOMAIN lands -> places] :
            /\ \A k \in DOMAIN at : lands[k] = matching[at[k]]
            /\ \A j, k \in DOMAIN at : j < k => at[j] < at[k]
  BY <1>10
<1>12. DOMAIN lands = 1 .. Len(lands) /\ Len(lands) \in Nat /\ DOMAIN matching = 1 .. Len(matching) /\ Len(matching) \in Nat
  BY <1>7, <1>10
<1>13. ASSUME NEW i \in DOMAIN lands, NEW j \in DOMAIN lands, lands[i] = lands[j]
       PROVE  i = j
  <2>1. at[i] = at[j]
    BY <1>7, <1>8, <1>11, <1>13
  <2>2. at[i] \in Nat /\ at[j] \in Nat
    BY <1>8, <1>11, <1>12
  <2>3. ~(i < j) /\ ~(j < i)
    BY <1>11, <2>1, <2>2
  <2> QED
    BY <1>12, <2>3
<1>14. \A i \in DOMAIN lands : ExchangeSymbols(lands[i].exchanges) # {}
  BY <1>8, <1>11
<1> QED
  BY <1>5, <1>9, <1>10, <1>13, <1>14 DEF places

(* Each facet of a search is offered once and leads to the symbols it counts, *)
(* as many of them as a page may hold.                                        *)
LEMMA FacetsLead == Finite(DOMAIN table) => FacetsLeadSomewhere
<1> DEFINE Leads(f, limit) ==
             LET page == symbols_for_facet(f.kind, f.label, limit)
             IN  /\ page # <<>> /\ IsInjective(page)
                 /\ Len(page) = IF f.count < limit THEN f.count ELSE limit
<1> SUFFICES ASSUME Finite(DOMAIN table), NEW q \in Queries, NEW limit \in 1 .. SearchLimit
             PROVE  LET facets == _search_facets(q, FacetLimit)
                    IN  \A i \in DOMAIN facets :
                           /\ Leads(facets[i], limit)
                           /\ \A j \in 1 .. i - 1 :
                                <<facets[j].kind, facets[j].label>> # <<facets[i].kind, facets[i].label>>
  BY DEF FacetsLeadSomewhere
<1>0. limit \in Nat \ {0} /\ FacetLimit \in Nat
  BY SearchAssumption
<1> DEFINE Facet(kind, label, symbols) == [kind |-> kind, label |-> label, count |-> Cardinality(symbols)]
<1>1. PICK labels : labels = search_sectors(q, FacetLimit)
  OBVIOUS
<1>2. PICK lands : lands = AtPlaces(_matching_countries(q), {i \in DOMAIN _matching_countries(q) :
                                    ExchangeSymbols(_matching_countries(q)[i].exchanges) # {}})
  OBVIOUS
<1>3. /\ labels \in Seq(STRING) /\ \A i, j \in DOMAIN labels : labels[i] = labels[j] => i = j
      /\ \A i \in DOMAIN labels : SectorSymbols(labels[i]) # {}
  BY <1>1, SectorsFound
<1>4. /\ lands \in Seq(Country) /\ \A i, j \in DOMAIN lands : lands[i] = lands[j] => i = j
      /\ \A i \in DOMAIN lands : ExchangeSymbols(lands[i].exchanges) # {}
  BY <1>2, CountriesFound
<1>5. PICK sectors : sectors = [i \in DOMAIN labels |-> Facet("sector", labels[i], SectorSymbols(labels[i]))]
  OBVIOUS
<1>6. PICK countries : countries = [i \in DOMAIN lands |-> Facet("country", lands[i].label, ExchangeSymbols(lands[i].exchanges))]
  OBVIOUS
<1>7. PICK facets : facets = _search_facets(q, FacetLimit)
  OBVIOUS
<1>8. PICK offered : offered = sectors \o countries
  OBVIOUS
<1>9. facets = Upto(FacetLimit, offered)
  BY <1>1, <1>2, <1>5, <1>6, <1>7, <1>8 DEF _search_facets
<1>a. \A x : Finite(SectorSymbols(x)) /\ Finite(ExchangeSymbols(x))
  <2>1. \A x : SectorSymbols(x) \subseteq DOMAIN table /\ ExchangeSymbols(x) \subseteq DOMAIN table
    BY DEF SectorSymbols, ExchangeSymbols
  <2> QED
    BY <2>1, FS_Subset DEF Finite
<1>10. ASSUME NEW i \in DOMAIN labels
       PROVE  sectors[i].kind = "sector" /\ sectors[i].label = labels[i] /\ Leads(sectors[i], limit)
  <2>1. /\ sectors[i].kind = "sector" /\ sectors[i].label = labels[i]
        /\ sectors[i].count = Cardinality(SectorSymbols(labels[i]))
    BY <1>5
  <2>2. symbols_for_facet("sector", labels[i], limit) = Page(SectorSymbols(labels[i]), limit)
    BY DEF symbols_for_facet, symbols_by_sector
  <2> QED
    BY <1>0, <1>3, <1>a, <2>1, <2>2, PageHolds
<1>11. ASSUME NEW i \in DOMAIN lands
       PROVE  countries[i].kind = "country" /\ countries[i].label = lands[i].label /\ Leads(countries[i], limit)
  <2>1. /\ countries[i].kind = "country" /\ countries[i].label = lands[i].label
        /\ countries[i].count = Cardinality(ExchangeSymbols(lands[i].exchanges))
    BY <1>6
  <2>2. _country_exchanges(lands[i].label) = lands[i].exchanges
    BY <1>4, CountryFacets
  <2>3. symbols_for_facet("country", lands[i].label, limit) = Page(ExchangeSymbols(lands[i].exchanges), limit)
    BY <2>2 DEF symbols_for_facet, symbols_by_exchanges
  <2> QED
    BY <1>0, <1>4, <1>a, <2>1, <2>3, PageHolds
<1> HIDE DEF Leads, Facet
<1>12. PICK n \in Nat, m \in Nat : /\ n = Len(labels) /\ DOMAIN labels = 1 .. n /\ DOMAIN sectors = 1 .. n
                                   /\ m = Len(lands) /\ DOMAIN lands = 1 .. m /\ DOMAIN countries = 1 .. m
  BY <1>3, <1>4, <1>5, <1>6
<1>13. PICK F : F = {sectors[i] : i \in 1 .. n} \cup {countries[i] : i \in 1 .. m}
  OBVIOUS
<1>14. sectors \in Seq(F) /\ Len(sectors) = n /\ countries \in Seq(F) /\ Len(countries) = m
  <2>1. sectors = [i \in 1 .. n |-> sectors[i]] /\ countries = [i \in 1 .. m |-> countries[i]]
    BY <1>5, <1>6, <1>12
  <2>2. \A i \in 1 .. n : sectors[i] \in F
    BY <1>13
  <2>3. \A i \in 1 .. m : countries[i] \in F
    BY <1>13
  <2>4. sectors \in [1 .. n -> F] /\ countries \in [1 .. m -> F]
    BY <2>1, <2>2, <2>3
  <2> QED
    BY <2>4, FunctionIsList
<1>15. /\ offered \in Seq(F) /\ DOMAIN offered = 1 .. (n + m)
       /\ \A i \in 1 .. n : offered[i] = sectors[i]
       /\ \A i \in 1 .. m : offered[n + i] = countries[i]
  <2>1. sectors \o countries \in Seq(F) /\ DOMAIN (sectors \o countries) = 1 .. (n + m)
    BY <1>12, <1>14, OneBehindOther
  <2>2. \A i \in 1 .. n : (sectors \o countries)[i] = sectors[i]
    BY <1>12, <1>14, OneBehindOther
  <2>3. \A i \in 1 .. m : (sectors \o countries)[n + i] = countries[i]
    BY <1>12, <1>14, OneBehindOther
  <2> QED
    BY <1>8, <2>1, <2>2, <2>3
<1>b. \A i \in 1 .. n : offered[i].kind = "sector" /\ offered[i].label = labels[i] /\ Leads(offered[i], limit)
  BY <1>10, <1>12, <1>15
<1>c. \A i \in 1 .. m : offered[n + i].kind = "country" /\ offered[n + i].label = lands[i].label /\ Leads(offered[n + i], limit)
  BY <1>11, <1>12, <1>15
<1>d. \A i \in DOMAIN offered : i \in 1 .. n \/ \E a \in 1 .. m : i = n + a
  <2>1. \A i \in DOMAIN offered : i \in 1 .. n \/ (i - n \in 1 .. m /\ i = n + (i - n))
    BY <1>15
  <2> QED
    BY <2>1
<1>e. \A i \in DOMAIN offered : Leads(offered[i], limit)
  BY <1>b, <1>c, <1>d
<1>16. ASSUME NEW i \in DOMAIN offered, NEW j \in DOMAIN offered,
              offered[i].kind = offered[j].kind, offered[i].label = offered[j].label
       PROVE  i = j
  <2>1. CASE i \in 1 .. n /\ j \in 1 .. n
    <3>1. labels[i] = labels[j]
      BY <1>b, <1>16, <2>1
    <3> QED
      BY <1>3, <1>12, <2>1, <3>1
  <2>2. CASE (\E a \in 1 .. m : i = n + a) /\ (\E a \in 1 .. m : j = n + a)
    <3>1. PICK a \in 1 .. m : i = n + a
      BY <2>2
    <3>2. PICK b \in 1 .. m : j = n + b
      BY <2>2
    <3>3. lands[a].label = lands[b].label
      BY <1>c, <1>16, <3>1, <3>2
    <3>4. lands[a] \in Country /\ lands[b] \in Country
      BY <1>4, <1>12
    <3>5. lands[a] = lands[b]
      BY <3>3, <3>4, CountryFacets
    <3> QED
      BY <1>4, <1>12, <3>1, <3>2, <3>5
  <2>3. ASSUME NEW a \in 1 .. n, NEW b \in 1 .. m
        PROVE  offered[a].kind # offered[n + b].kind
    <3>1. offered[a].kind = "sector" /\ offered[n + b].kind = "country"
      BY <1>b, <1>c
    <3> QED
      BY <3>1
  <2> QED
    BY <1>d, <1>16, <2>1, <2>2, <2>3
<1>17. /\ facets \in Seq(F)
       /\ \A k \in 1 .. Len(facets) : k \in 1 .. Len(offered) /\ facets[k] = offered[k]
  BY <1>0, <1>9, <1>15, UptoKept
<1>18. /\ DOMAIN facets = 1 .. Len(facets) /\ Len(facets) \in Nat
       /\ \A k \in DOMAIN facets : k \in DOMAIN offered /\ facets[k] = offered[k]
  <2>1. DOMAIN offered = 1 .. Len(offered)
    BY <1>15
  <2>2. DOMAIN facets = 1 .. Len(facets) /\ Len(facets) \in Nat
    BY <1>17
  <2> QED
    BY <1>17, <2>1, <2>2
<1>19. ASSUME NEW i \in DOMAIN facets
       PROVE  /\ Leads(facets[i], limit)
              /\ \A j \in 1 .. i - 1 : <<facets[j].kind, facets[j].label>> # <<facets[i].kind, facets[i].label>>
  <2>1. ASSUME NEW j \in 1 .. i - 1, facets[j].kind = facets[i].kind, facets[j].label = facets[i].label
        PROVE  FALSE
    <3>1. j \in DOMAIN facets /\ j # i
      BY <1>18
    <3> QED
      BY <1>16, <1>18, <2>1, <3>1
  <2> QED
    BY <1>e, <1>18, <2>1
<1> QED
  BY <1>7, <1>19

(* Whatever has been loaded, a ticker typed in full is found first, no symbol *)
(* is found twice, and every facet of a search is offered once and leads to   *)
(* as many of the symbols it counts as a page may hold.                       *)
THEOREM SearchSoundCorrect == SymSpec => []SearchSound
<1>1. SymInit => FiniteUniverse
  BY UniverseStarts, FS_EmptySet DEF SymInit, FiniteUniverse, Finite
<1>2. FiniteUniverse => SearchSound
  BY TickerFirst, FacetsLead DEF FiniteUniverse, Finite, SearchSound
<1> QED
  BY <1>1, <1>2, FiniteStep, PTL DEF SymSpec

-----------------------------------------------------------------------------
(* Providers                                                               *)

(* The chain of adapters, once built, always holds yfinance. *)
ChainBuilt == adapters \in Seq(STRING \cup {"yfinance"}) /\ (adapters # <<>> => "yfinance" \in ToSet(adapters))

QuotesInv == ChainBuilt /\ QuotesSound

(* Whatever order was stored, with a key or without. *)
LEMMA YahooInChain ==
    ASSUME NEW order \in OrdersStored, NEW key \in BOOLEAN
    PROVE  /\ build_market_data_service(order, key) \in Seq(STRING \cup {"yfinance"})
           /\ "yfinance" \in ToSet(build_market_data_service(order, key))
<1> DEFINE places == {i \in DOMAIN order : order[i] = "yfinance" \/ key}
           known == AtPlaces(order, places)
<1>1. order \in Seq(STRING) /\ places \in SUBSET DOMAIN order
  BY ProvAssumption
<1>2. known \in Seq(STRING)
  <2> HIDE DEF places
  <2> QED
    BY <1>1, PlacesKept
<1>3. build_market_data_service(order, key) = IF "yfinance" \in ToSet(known) THEN known ELSE Append(known, "yfinance")
  BY DEF build_market_data_service
<1> HIDE DEF known
<1>4. known \in Seq(STRING \cup {"yfinance"})
  BY <1>2
<1>5. CASE "yfinance" \in ToSet(known)
  BY <1>3, <1>4, <1>5
<1>6. CASE "yfinance" \notin ToSet(known)
  <2> DEFINE chain == Append(known, "yfinance")
  <2>1. chain \in Seq(STRING \cup {"yfinance"})
    BY <1>4
  <2>2. Len(known) + 1 \in DOMAIN chain /\ chain[Len(known) + 1] = "yfinance"
    BY <1>4
  <2> QED
    BY <1>3, <1>6, <2>1, <2>2 DEF ToSet
<1> QED
  BY <1>5, <1>6

(* The first place of a chain where something is found. *)
LEMMA FirstFound ==
    ASSUME NEW n \in Nat, NEW found \in SUBSET (1 .. n), found # {}
    PROVE  (CHOOSE i \in found : \A j \in found : i <= j) \in found
<1>1. found \in SUBSET Nat
  OBVIOUS
<1>2. \E i \in found : \A j \in found : i <= j
  BY <1>1, LeastNatural
<1> QED
  BY <1>2

(* What the chain answers is the answer of one of its adapters, and there is *)
(* one if yfinance has one.                                                  *)
LEMMA QuoteOfChain ==
    ASSUME ChainBuilt, adapters # <<>>, NEW symbol, NEW finnhub, NEW yahoo
    PROVE  LET quote == get_quote(symbol, finnhub, yahoo)
           IN  /\ quote # None => \E name \in STRING \cup {"yfinance"} :
                        quote = quote_of(name, symbol, finnhub, yahoo)
               /\ _get_quote_sync(yahoo) # None => quote # None
<1> DEFINE found == {i \in DOMAIN adapters : quote_of(adapters[i], symbol, finnhub, yahoo) # None}
           first == CHOOSE i \in found : \A j \in found : i <= j
           quote == get_quote(symbol, finnhub, yahoo)
<1>1. DOMAIN adapters = 1 .. Len(adapters) /\ Len(adapters) \in Nat
  BY DEF ChainBuilt
<1>2. quote = IF found = {} THEN None ELSE quote_of(adapters[first], symbol, finnhub, yahoo)
  BY DEF get_quote
<1>3. found # {} => first \in found
  <2>1. found \in SUBSET (1 .. Len(adapters))
    BY <1>1
  <2> HIDE DEF found
  <2> QED
    BY <1>1, <2>1, FirstFound
<1>4. quote # None => \E name \in STRING \cup {"yfinance"} : quote = quote_of(name, symbol, finnhub, yahoo)
  <2> HIDE DEF first, quote
  <2> SUFFICES ASSUME quote # None
               PROVE  \E name \in STRING \cup {"yfinance"} : quote = quote_of(name, symbol, finnhub, yahoo)
    OBVIOUS
  <2>1. found # {} /\ first \in DOMAIN adapters /\ quote = quote_of(adapters[first], symbol, finnhub, yahoo)
    BY <1>2, <1>3
  <2>2. adapters[first] \in STRING \cup {"yfinance"}
    BY <1>1, <2>1 DEF ChainBuilt
  <2> QED
    BY <2>1, <2>2
<1>5. _get_quote_sync(yahoo) # None => quote # None
  <2> SUFFICES ASSUME _get_quote_sync(yahoo) # None PROVE quote # None
    OBVIOUS
  <2>1. PICK i \in DOMAIN adapters : adapters[i] = "yfinance"
    BY DEF ChainBuilt, ToSet
  <2>2. quote_of(adapters[i], symbol, finnhub, yahoo) = _get_quote_sync(yahoo)
    BY <2>1 DEF quote_of
  <2>3. found # {}
    BY <2>2
  <2> HIDE DEF first, quote
  <2> QED
    BY <1>2, <1>3, <2>3
<1> QED
  BY <1>4, <1>5

(* Finnhub answers nothing for a share of Borsa Istanbul. *)
LEMMA BistQuote ==
    ASSUME NEW name, NEW symbol \in BistSymbols, NEW finnhub, NEW yahoo,
           quote_of(name, symbol, finnhub, yahoo) # None
    PROVE  quote_of(name, symbol, finnhub, yahoo).source = "yfinance"
<1>1. finnhub_quote(symbol, finnhub) = None
  BY DEF finnhub_quote, _is_bist
<1>2. _get_quote_sync(yahoo) # None => _get_quote_sync(yahoo).source = "yfinance"
  BY DEF _get_quote_sync, Quote
<1> QED
  BY <1>1, <1>2 DEF quote_of

(* A price of yfinance makes a quote with a price other than 0. *)
LEMMA YahooPrice ==
    ASSUME NEW yahoo \in YahooReplies, yahoo # Failed, HasPrice(yahoo)
    PROVE  /\ _get_quote_sync(yahoo) # None
           /\ _get_quote_sync(yahoo).price \notin {None, 0}
           /\ _get_quote_sync(yahoo).source = "yfinance"
<1> DEFINE info == InfoOf(yahoo)
           price == Or(_clean(yahoo.price), info.price)
           previous == Or(yahoo.previous, info.previous)
           change == IF price = None \/ previous \in {None, 0} THEN None ELSE price - previous
<1>1. /\ yahoo.price \in Numbers \cup {NotFinite, None}
      /\ yahoo.previous \in {None, 0, 1}
      /\ yahoo.info \in {Failed} \cup Infos
  BY DEF YahooReplies, Fields
<1>2. info.price \in {None, 0, 2} /\ info.previous \in {None, 0, 1}
  BY <1>1 DEF InfoOf, Infos
<1>3. yahoo.price \in Numbers \ {0} \/ info.price = 2
  BY <1>2 DEF HasPrice
<1> HIDE DEF info
<1>4. price \in Int \ {0} /\ price # None
  <2>1. CASE yahoo.price \in Numbers \ {0}
    BY <2>1, ProvAssumption DEF Or, _clean
  <2>2. CASE yahoo.price \notin Numbers \ {0}
    <3>1. info.price = 2
      BY <1>3, <2>2
    <3>2. _clean(yahoo.price) \in {None, 0}
      BY <1>1, <2>2 DEF _clean
    <3> QED
      BY <3>1, <3>2, ProvAssumption DEF Or
  <2> QED
    BY <2>1, <2>2
<1>5. previous \in {None, 0, 1}
  BY <1>1, <1>2 DEF Or
<1>6. _get_quote_sync(yahoo) = Quote("yfinance", price, previous, change)
  BY <1>4 DEF _get_quote_sync, info
<1> HIDE DEF price, previous
<1>7. change \in Int \cup {None}
  BY <1>4, <1>5
<1> HIDE DEF change
<1>8. Quote("yfinance", price, previous, change)
      \in [source : {"finnhub", "yfinance"}, price : Int \cup {None},
           previous : Int \cup {None}, change : Int \cup {None}]
  BY <1>4, <1>5, <1>7 DEF Quote
<1>9. /\ Quote("yfinance", price, previous, change).price = price
      /\ Quote("yfinance", price, previous, change).source = "yfinance"
  BY DEF Quote
<1> QED
  BY <1>4, <1>6, <1>8, <1>9, ProvAssumption

(* A quote that there is has a price as soon as yfinance has one: Finnhub   *)
(* answers with a price or not at all.                                      *)
LEMMA QuotePrice ==
    ASSUME NEW name, NEW symbol, NEW finnhub, NEW yahoo \in YahooReplies,
           yahoo # Failed, HasPrice(yahoo),
           quote_of(name, symbol, finnhub, yahoo) # None
    PROVE  /\ quote_of(name, symbol, finnhub, yahoo).price # None
           /\ quote_of(name, symbol, finnhub, yahoo).price = 0 =>
                quote_of(name, symbol, finnhub, yahoo).source = "finnhub" /\ finnhub.c = 0
<1>1. CASE name = "finnhub"
  <2>1. quote_of(name, symbol, finnhub, yahoo) = Quote("finnhub", finnhub.c, finnhub.pc, finnhub.d)
        /\ _clean(finnhub.c) # None
    BY <1>1 DEF quote_of, finnhub_quote
  <2>2. finnhub.c # None
    BY <2>1 DEF _clean
  <2> QED
    BY <2>1, <2>2 DEF Quote
<1>2. CASE name # "finnhub"
  BY <1>2, YahooPrice DEF quote_of
<1> QED
  BY <1>1, <1>2

(* History comes from yfinance, wherever it is in the chain. *)
LEMMA HistoryOfChain ==
    ASSUME ChainBuilt, adapters # <<>>, NEW yahoo \in YahooReplies, yahoo # Failed
    PROVE  Len(_fetch_history(yahoo)) = yahoo.bars
<1> DEFINE found == {i \in DOMAIN adapters : history_of(adapters[i], yahoo) # <<>>}
           first == CHOOSE i \in found : \A j \in found : i <= j
           bars == [i \in 1 .. yahoo.bars |-> i]
<1>1. DOMAIN adapters = 1 .. Len(adapters) /\ Len(adapters) \in Nat
  BY DEF ChainBuilt
<1>2. yahoo.bars \in 0 .. 1
  BY DEF YahooReplies
<1>3. Len(bars) = yahoo.bars /\ (yahoo.bars = 0 => bars = <<>>) /\ (yahoo.bars # 0 => bars # <<>>)
  <2>1. bars \in Seq(Nat) /\ Len(bars) = yahoo.bars
    BY <1>2
  <2> HIDE DEF bars
  <2> QED
    BY <2>1
<1>4. \A name : history_of(name, yahoo) = IF name = "finnhub" THEN <<>> ELSE bars
  BY DEF history_of
<1>5. _fetch_history(yahoo) = IF found = {} THEN <<>> ELSE history_of(adapters[first], yahoo)
  BY DEF _fetch_history
<1>6. found # {} => first \in found
  <2>1. found \in SUBSET (1 .. Len(adapters))
    BY <1>1
  <2> HIDE DEF found
  <2> QED
    BY <1>1, <2>1, FirstFound
<1> HIDE DEF first, bars
<1>7. CASE yahoo.bars = 0
  <2>1. found = {}
    BY <1>3, <1>4, <1>7
  <2> QED
    BY <1>5, <1>7, <2>1
<1>8. CASE yahoo.bars # 0
  <2>1. PICK i \in DOMAIN adapters : adapters[i] = "yfinance"
    BY DEF ChainBuilt, ToSet
  <2>2. history_of(adapters[i], yahoo) = bars
    BY <1>4, <2>1
  <2>3. i \in found
    BY <1>3, <1>8, <2>2
  <2>4. history_of(adapters[first], yahoo) # <<>>
    BY <1>6, <2>3
  <2>5. history_of(adapters[first], yahoo) = bars
    BY <1>4, <2>4
  <2> QED
    BY <1>3, <1>5, <2>3, <2>5
<1> QED
  BY <1>7, <1>8

(* A quote of Borsa Istanbul never comes from Finnhub, history is served    *)
(* whenever yfinance has it, and a price that yfinance gives is not lost:   *)
(* the price served is 0 only where Finnhub, asked first, said so.          *)
THEOREM QuotesSoundCorrect == ProvSpec => []QuotesSound
<1>1. ProvInit => QuotesInv
  BY DEF ProvInit, QuotesInv, ChainBuilt, QuotesSound, BistFromYahooOnly, HistoryAlwaysReachable, PriceNotLost
<1>2. QuotesInv /\ [ProvNext]_provVars => QuotesInv'
  <2> SUFFICES ASSUME QuotesInv, [ProvNext]_provVars PROVE QuotesInv'
    OBVIOUS
  <2> USE DEF QuotesInv
  <2>1. CASE BuildService
    <3>1. PICK order \in OrdersStored, key \in BOOLEAN : adapters' = build_market_data_service(order, key)
      BY <2>1 DEF BuildService
    <3>2. ChainBuilt'
      BY <3>1, YahooInChain DEF ChainBuilt
    <3> QED
      BY <2>1, <3>2 DEF BuildService, QuotesSound, BistFromYahooOnly, HistoryAlwaysReachable, PriceNotLost
  <2>2. CASE Ask
    <3>1. PICK symbol \in AnySymbol, finnhub \in FinnhubReplies, yahoo \in YahooReplies :
            asked' = [symbol |-> symbol, finnhub |-> finnhub, yahoo |-> yahoo,
                      quote |-> get_quote(symbol, finnhub, yahoo), history |-> _fetch_history(yahoo)]
      BY <2>2 DEF Ask
    <3>2. ChainBuilt /\ adapters # <<>> /\ UNCHANGED adapters
      BY <2>2 DEF Ask
    <3> DEFINE quote == get_quote(symbol, finnhub, yahoo)
               history == _fetch_history(yahoo)
    <3>3. quote # None => \E name \in STRING \cup {"yfinance"} : quote = quote_of(name, symbol, finnhub, yahoo)
      BY <3>2, QuoteOfChain
    <3>4. symbol \in BistSymbols /\ quote # None => quote.source = "yfinance"
      BY <3>3, BistQuote
    <3>5. yahoo # Failed => Len(history) = yahoo.bars
      BY <3>2, HistoryOfChain
    <3>6. ASSUME yahoo # Failed, HasPrice(yahoo)
          PROVE  /\ quote # None /\ quote.price # None
                 /\ quote.price = 0 => quote.source = "finnhub" /\ finnhub.c = 0
      <4>1. quote # None
        BY <3>2, <3>6, QuoteOfChain, YahooPrice
      <4> QED
        BY <3>3, <3>6, <4>1, QuotePrice
    <3> HIDE DEF quote, history
    <3>7. asked' = [symbol |-> symbol, finnhub |-> finnhub, yahoo |-> yahoo, quote |-> quote, history |-> history]
      BY <3>1 DEF quote, history
    <3>8. BistFromYahooOnly' /\ HistoryAlwaysReachable' /\ PriceNotLost'
      BY <3>4, <3>5, <3>6, <3>7 DEF BistFromYahooOnly, HistoryAlwaysReachable, PriceNotLost
    <3> QED
      BY <3>2, <3>8 DEF ChainBuilt, QuotesSound
  <2>3. CASE UNCHANGED provVars
    BY <2>3 DEF provVars, ChainBuilt, QuotesSound, BistFromYahooOnly, HistoryAlwaysReachable, PriceNotLost
  <2> QED
    BY <2>1, <2>2, <2>3 DEF ProvNext
<1>3. QuotesInv => QuotesSound
  BY DEF QuotesInv
<1> QED
  BY <1>1, <1>2, <1>3, PTL DEF ProvSpec

-----------------------------------------------------------------------------
(* Portfolio                                                               *)

(* The inductive invariant: rows are holdings or deleted, a request has     *)
(* holdings, and what was answered is right.                                *)
PortTyped ==
    /\ holdings \in Seq(Holding \cup {NoField})
    /\ summary.holdings \in Seq(Holding)

PortInv == PortTyped /\ PortfolioSound

\* The symbols of a request.
SymbolsOf(held) == {held[i].symbol : i \in DOMAIN held}

(* What position_from makes of the holdings and the quotes of a request. *)
LEMMA PositionOf ==
    ASSUME NEW held \in Seq(Holding), NEW quotes \in [Shares -> Prices \cup {NoPrice}]
    PROVE  LET positions == Positions(held, SymbolsOf(held), quotes)
           IN  /\ DOMAIN positions = DOMAIN held
               /\ \A i \in DOMAIN held :
                    /\ positions[i].holding = held[i] /\ held[i] \in Holding
                    /\ positions[i].basis \in Int
                    /\ positions[i].value \in Int \cup {NoPrice}
                    /\ positions[i].value = NoPrice <=> quotes[held[i].symbol] = NoPrice
                    /\ positions[i].pnl = IF positions[i].value = NoPrice THEN NoPrice
                                          ELSE positions[i].value - positions[i].basis
<1> DEFINE positions == Positions(held, SymbolsOf(held), quotes)
<1>1. DOMAIN positions = DOMAIN held
  BY DEF Positions
<1>2. ASSUME NEW i \in DOMAIN held
      PROVE  /\ positions[i].holding = held[i] /\ held[i] \in Holding
             /\ positions[i].basis \in Int
             /\ positions[i].value \in Int \cup {NoPrice}
             /\ positions[i].value = NoPrice <=> quotes[held[i].symbol] = NoPrice
             /\ positions[i].pnl = IF positions[i].value = NoPrice THEN NoPrice
                                   ELSE positions[i].value - positions[i].basis
  <2>1. held[i] \in Holding
    OBVIOUS
  <2>2. held[i].symbol \in SymbolsOf(held) /\ held[i].symbol \in Shares
    BY <2>1 DEF Holding, SymbolsOf
  <2>3. positions[i] = position_from(held[i], quotes[held[i].symbol])
    BY <2>2 DEF Positions
  <2>4. PICK price \in Prices \cup {NoPrice} : price = quotes[held[i].symbol]
    BY <2>2
  <2>5. PICK cost \in Int, quantity \in Int : cost = held[i].cost /\ quantity = held[i].quantity
    BY <2>1 DEF Holding
  <2>6. cost * quantity \in Int /\ (price # NoPrice => price \in Int /\ price * quantity \in Int)
    BY PortAssumption
  <2>7. price # NoPrice => price * quantity # NoPrice
    BY <2>6, PortAssumption
  <2>8. /\ positions[i].holding = held[i]
        /\ positions[i].basis = cost * quantity
        /\ positions[i].value = IF price = NoPrice THEN NoPrice ELSE price * quantity
        /\ positions[i].pnl = IF price = NoPrice THEN NoPrice ELSE price * quantity - cost * quantity
    BY <2>3, <2>4, <2>5 DEF position_from
  <2> HIDE DEF positions
  <2> QED
    BY <2>1, <2>4, <2>6, <2>7, <2>8
<1> QED
  BY <1>1, <1>2

(* The totals of positions that are priced or not, one for each currency. *)
LEMMA TotalOf ==
    ASSUME NEW n \in Nat, NEW positions, DOMAIN positions = 1 .. n,
           \A i \in 1 .. n : /\ positions[i].basis \in Int
                            /\ positions[i].value \in Int \cup {NoPrice}
                            /\ positions[i].pnl = IF positions[i].value = NoPrice THEN NoPrice
                                                  ELSE positions[i].value - positions[i].basis,
           NEW t \in summarize(positions)
    PROVE  LET own == {i \in DOMAIN positions : positions[i].holding.currency = t.currency}
               priced == {i \in own : positions[i].value # NoPrice}
               CostOf(S) == ListSum([i \in DOMAIN positions |-> IF i \in S THEN positions[i].basis ELSE 0])
           IN  /\ t.basis = CostOf(own)
               /\ t.pnl = t.value - CostOf(priced)
<1> DEFINE own(c) == {i \in DOMAIN positions : positions[i].holding.currency = c}
           priced(c) == {i \in own(c) : positions[i].value # NoPrice}
           In(c, i) == positions[i].holding.currency = c
           Known(v) == IF v = NoPrice THEN 0 ELSE v
           Bases(c) == [i \in DOMAIN positions |-> IF In(c, i) THEN positions[i].basis ELSE 0]
           Values(c) == [i \in DOMAIN positions |-> IF In(c, i) THEN Known(positions[i].value) ELSE 0]
           Profits(c) == [i \in DOMAIN positions |-> IF In(c, i) THEN Known(positions[i].pnl) ELSE 0]
           Costs(S) == [i \in DOMAIN positions |-> IF i \in S THEN positions[i].basis ELSE 0]
<1>0. n \in Nat
  OBVIOUS
<1>1. PICK c : t = [currency |-> c, basis |-> ListSum(Bases(c)), value |-> ListSum(Values(c)), pnl |-> ListSum(Profits(c))]
  BY DEF summarize, total
<1>2. t.currency = c /\ t.basis = ListSum(Bases(c)) /\ t.value = ListSum(Values(c)) /\ t.pnl = ListSum(Profits(c))
  BY <1>1
<1>3. Bases(c) = Costs(own(c))
  OBVIOUS
<1>4. \A i \in 1 .. n : /\ Values(c)[i] \in Int /\ Profits(c)[i] \in Int /\ Costs(priced(c))[i] \in Int
                       /\ Profits(c)[i] = Values(c)[i] - Costs(priced(c))[i]
  <2> SUFFICES ASSUME NEW i \in 1 .. n
               PROVE  /\ Values(c)[i] \in Int /\ Profits(c)[i] \in Int /\ Costs(priced(c))[i] \in Int
                      /\ Profits(c)[i] = Values(c)[i] - Costs(priced(c))[i]
    OBVIOUS
  <2>1. CASE ~In(c, i)
    BY <2>1
  <2>2. CASE In(c, i) /\ positions[i].value = NoPrice
    BY <2>2
  <2>3. CASE In(c, i) /\ positions[i].value # NoPrice
    <3>1. positions[i].basis \in Int /\ positions[i].value \in Int
      BY <2>3
    <3>2. positions[i].pnl = positions[i].value - positions[i].basis /\ positions[i].pnl # NoPrice
      BY <2>3, <3>1, PortAssumption
    <3>3. /\ Values(c)[i] = positions[i].value
          /\ Profits(c)[i] = positions[i].pnl
          /\ Costs(priced(c))[i] = positions[i].basis
      BY <2>3, <3>2
    <3> QED
      BY <3>1, <3>2, <3>3
  <2> QED
    BY <2>1, <2>2, <2>3
<1>5. DOMAIN Values(c) = 1 .. n /\ DOMAIN Profits(c) = 1 .. n /\ DOMAIN Costs(priced(c)) = 1 .. n
  OBVIOUS
<1>6. PICK values : values = Values(c)
  OBVIOUS
<1>7. PICK profits : profits = Profits(c)
  OBVIOUS
<1>8. PICK costs : costs = Costs(priced(c))
  OBVIOUS
<1>9. /\ values = [i \in 1 .. n |-> values[i]] /\ profits = [i \in 1 .. n |-> profits[i]]
      /\ costs = [i \in 1 .. n |-> costs[i]]
  BY <1>6, <1>7, <1>8
<1> HIDE DEF Values, Profits, Costs, Bases, own, priced
<1>10. values \in Seq(Int) /\ profits \in Seq(Int) /\ costs \in Seq(Int)
       /\ Len(values) = n /\ Len(profits) = n /\ Len(costs) = n
  <2>1. \A i \in 1 .. n : values[i] \in Int /\ profits[i] \in Int /\ costs[i] \in Int
    BY <1>4, <1>6, <1>7, <1>8
  <2>2. values \in [1 .. n -> Int] /\ profits \in [1 .. n -> Int] /\ costs \in [1 .. n -> Int]
    BY ONLY <1>9, <2>1
  <2> QED
    BY ONLY <1>0, <2>2, FunctionIsList
<1>11. ListSum(profits) = ListSum(values) - ListSum(costs)
  <2>1. \A i \in 1 .. n : profits[i] = values[i] - costs[i]
    BY <1>4, <1>6, <1>7, <1>8
  <2>2. Len(values) = Len(profits) /\ Len(costs) = Len(profits) /\ \A i \in 1 .. Len(profits) : profits[i] = values[i] - costs[i]
    BY ONLY <1>10, <2>1
  <2>3. values \in Seq(Int) /\ profits \in Seq(Int) /\ costs \in Seq(Int)
    BY ONLY <1>10
  <2> QED
    BY ONLY <2>2, <2>3, SumOfDifferences
<1>12. t.basis = ListSum(Costs(own(c)))
  BY <1>2, <1>3
<1>13. t.pnl = t.value - ListSum(Costs(priced(c)))
  BY <1>2, <1>6, <1>7, <1>8, <1>11
<1> QED
  BY <1>2, <1>12, <1>13 DEF Costs, own, priced

(* The answer to a request is right, whatever the quotes. *)
LEMMA AnswerRight ==
    ASSUME NEW held \in Seq(Holding), NEW quotes \in [Shares -> Prices \cup {NoPrice}],
           NEW positions, positions = Positions(held, SymbolsOf(held), quotes),
           answered'.positions = positions, answered'.totals = summarize(positions),
           answered'.quotes = quotes
    PROVE  PortfolioSound'
<1>1. PICK n \in Nat : DOMAIN held = 1 .. n
  OBVIOUS
<1>0. n \in Nat
  BY <1>1
<1>2. DOMAIN positions = 1 .. n
  BY <1>1, PositionOf
<1>3. ASSUME NEW i \in 1 .. n
      PROVE  /\ positions[i].holding = held[i] /\ held[i] \in Holding
             /\ positions[i].basis \in Int
             /\ positions[i].value \in Int \cup {NoPrice}
             /\ positions[i].value = NoPrice <=> quotes[held[i].symbol] = NoPrice
             /\ positions[i].pnl = IF positions[i].value = NoPrice THEN NoPrice
                                   ELSE positions[i].value - positions[i].basis
  BY <1>1, PositionOf
<1>5. PricedIfQuoted'
  BY <1>2, <1>3 DEF PricedIfQuoted
<1>4. /\ \A c : total(positions, c).currency = c
      /\ summarize(positions) = {total(positions, c) : c \in {positions[i].holding.currency : i \in 1 .. n}}
  <2>1. \A c : total(positions, c).currency = c
    BY DEF total
  <2> QED
    BY <1>2, <2>1 DEF summarize
<1>6. \A t \in summarize(positions) : \E i \in 1 .. n : t.currency = positions[i].holding.currency
  BY ONLY <1>4
<1>7. \A i \in 1 .. n : \E t \in summarize(positions) : t.currency = positions[i].holding.currency
  BY ONLY <1>4
<1>8. \A t, u \in summarize(positions) : u.currency = t.currency => u = t
  BY ONLY <1>4
<1>9. TotalsDivide'
  <2>1. ASSUME NEW t \in summarize(positions)
        PROVE  LET own == {i \in DOMAIN positions : positions[i].holding.currency = t.currency}
                   priced == {i \in own : positions[i].value # NoPrice}
                   CostOf(S) == ListSum([i \in DOMAIN positions |-> IF i \in S THEN positions[i].basis ELSE 0])
               IN  /\ t.basis = CostOf(own)
                   /\ t.pnl = t.value - CostOf(priced)
    <3>1. \A i \in 1 .. n : /\ positions[i].basis \in Int
                           /\ positions[i].value \in Int \cup {NoPrice}
                           /\ positions[i].pnl = IF positions[i].value = NoPrice THEN NoPrice
                                                 ELSE positions[i].value - positions[i].basis
      BY <1>3
    <3> QED
      BY ONLY <1>0, <1>2, <2>1, <3>1, TotalOf
  <2> QED
    BY <1>2, <1>7, <1>8, <2>1 DEF TotalsDivide
<1>10. CurrenciesMerged'
  <2>1. \A i \in 1 .. n : Upper[positions[i].holding.currency] = positions[i].holding.currency
    <3>1. \A row \in Holding : Upper[row.currency] = row.currency
      BY ONLY PortAssumption DEF Holding, PortAssumption
    <3>2. \A i \in 1 .. n : positions[i].holding \in Holding
      BY <1>3
    <3> QED
      BY ONLY <3>1, <3>2
  <2> QED
    BY <1>6, <2>1 DEF CurrenciesMerged
<1> QED
  BY <1>5, <1>9, <1>10 DEF PortfolioSound

(* The rows that are read are holdings. *)
LEMMA RowsAreHoldings ==
    ASSUME PortTyped
    PROVE  Rows \in Seq(Holding)
<1> DEFINE kept == {i \in DOMAIN holdings : holdings[i] # NoField}
<1>1. PICK held : held = holdings
  OBVIOUS
<1>2. PICK places : places = kept
  OBVIOUS
<1>3. held \in Seq(Holding \cup {NoField}) /\ places \in SUBSET DOMAIN held
  BY <1>1, <1>2 DEF PortTyped
<1>4. \A i \in places : held[i] \in Holding
  BY <1>1, <1>2, <1>3
<1>5. PICK list : list = AtPlaces(held, places)
  OBVIOUS
<1>6. /\ list \in Seq(Holding \cup {NoField})
      /\ \E at \in [DOMAIN list -> places] : \A k \in DOMAIN at : list[k] = held[at[k]]
  BY ONLY <1>3, <1>5, PlacesKept
<1>7. \A k \in DOMAIN list : list[k] \in Holding
  BY ONLY <1>4, <1>6
<1>8. list \in Seq(Holding)
  BY ONLY <1>6, <1>7
<1> QED
  BY <1>1, <1>2, <1>5, <1>8 DEF Rows

(* A summary prices every position whose symbol has a quote, its totals divide *)
(* the positions by currency, and no currency is totalled twice: however the   *)
(* holdings change between the read of the rows and the answer, which is of    *)
(* the rows that were read.                                                    *)
THEOREM PortfolioSoundCorrect == PortSpec => []PortfolioSound
<1>1. PortInit => PortInv
  <2> SUFFICES ASSUME PortInit PROVE PortInv
    OBVIOUS
  <2>1. answered.positions = <<>> /\ answered.totals = {} /\ summary.holdings = <<>> /\ holdings = <<>>
    BY DEF PortInit, NoSummary, NoAnswer
  <2>2. PortTyped
    BY <2>1 DEF PortTyped
  <2>3. PortfolioSound
    BY <2>1 DEF PortfolioSound, PricedIfQuoted, TotalsDivide, CurrenciesMerged
  <2> QED
    BY <2>2, <2>3 DEF PortInv
<1>2. PortInv /\ [PortNext]_portVars => PortInv'
  <2> SUFFICES ASSUME PortInv, [PortNext]_portVars PROVE PortInv'
    OBVIOUS
  <2> USE DEF PortInv
  <2>1. ASSUME answered' = NoAnswer PROVE PortfolioSound'
    <3>1. answered'.positions = <<>> /\ answered'.totals = {}
      BY <2>1 DEF NoAnswer
    <3> QED
      BY <3>1 DEF PortfolioSound, PricedIfQuoted, TotalsDivide, CurrenciesMerged
  <2>2. CASE AddHolding
    <3>1. PICK s \in Shares, lot \in {l \in Lots : l.quantity # NoField /\ l.cost # NoField} :
            holdings' = Append(holdings, add(s, lot))
      BY <2>2 DEF AddHolding
    <3>2. PICK row : row = add(s, lot)
      OBVIOUS
    <3>3. row \in Holding
      <4>1. /\ lot.quantity \in Int /\ lot.cost \in Int /\ lot.currency \in DOMAIN Upper \cup {NoField}
        BY PortAssumption
      <4>2. (IF lot.currency \in {NoField, ""} THEN "USD" ELSE Upper[lot.currency]) \in {Upper[c] : c \in DOMAIN Upper}
        BY <4>1, PortAssumption
      <4> QED
        BY <3>2, <4>1, <4>2 DEF add, Holding
    <3>4. holdings' \in Seq(Holding \cup {NoField})
      BY <3>1, <3>2, <3>3 DEF PortTyped
    <3> QED
      BY <2>1, <2>2, <3>4 DEF AddHolding, PortTyped
  <2>3. CASE UpdateHolding
    <3>1. PICK i \in DOMAIN holdings, lot \in Lots :
            holdings[i] # NoField /\ holdings' = [holdings EXCEPT ![i] = update(holdings[i], lot)]
      BY <2>3 DEF UpdateHolding
    <3>2. PICK old \in Holding : old = holdings[i]
      BY <3>1 DEF PortTyped
    <3>3. PICK row : row = update(old, lot)
      OBVIOUS
    <3>4. row \in Holding
      <4>1. /\ lot.quantity \in Int \cup {NoField} /\ lot.cost \in Int \cup {NoField}
            /\ lot.currency \in DOMAIN Upper \cup {NoField}
        BY PortAssumption
      <4>2. (IF lot.currency = NoField THEN old.currency ELSE Upper[lot.currency]) \in {Upper[c] : c \in DOMAIN Upper}
        BY <4>1 DEF Holding
      <4>3. /\ (IF lot.quantity = NoField THEN old.quantity ELSE lot.quantity) \in Int
            /\ (IF lot.cost = NoField THEN old.cost ELSE lot.cost) \in Int
        BY <4>1 DEF Holding
      <4> QED
        BY <3>3, <4>2, <4>3 DEF update, Holding
    <3>5. holdings' = [holdings EXCEPT ![i] = row]
      BY <3>1, <3>2, <3>3
    <3>6. holdings' \in Seq(Holding \cup {NoField})
      BY <3>4, <3>5 DEF PortTyped
    <3> QED
      BY <2>1, <2>3, <3>6 DEF UpdateHolding, PortTyped
  <2>4. CASE DeleteHolding
    BY <2>1, <2>4 DEF DeleteHolding, PortTyped
  <2>5. CASE ReadHoldings
    BY <2>1, <2>5, RowsAreHoldings DEF ReadHoldings, PortTyped
  <2>6. CASE AnswerPortfolio
    <3>1. PICK held \in Seq(Holding) : held = summary.holdings
      BY DEF PortTyped
    <3>2. PICK quotes \in [Shares -> Prices \cup {NoPrice}] :
            LET positions == Positions(held, SymbolsOf(held), quotes)
            IN  answered' = [positions |-> positions, totals |-> summarize(positions), quotes |-> quotes]
      BY <2>6, <3>1 DEF AnswerPortfolio, SymbolsOf
    <3>3. PICK positions : positions = Positions(held, SymbolsOf(held), quotes)
      OBVIOUS
    <3>4. answered'.positions = positions /\ answered'.totals = summarize(positions) /\ answered'.quotes = quotes
      BY <3>2, <3>3
    <3>5. PortfolioSound'
      BY <3>3, <3>4, AnswerRight
    <3>6. PortTyped'
      BY <2>6 DEF AnswerPortfolio, PortTyped, NoSummary
    <3> QED
      BY <3>5, <3>6
  <2>7. CASE UNCHANGED portVars
    BY <2>7 DEF portVars, PortTyped, PortfolioSound, PricedIfQuoted, TotalsDivide, CurrenciesMerged
  <2> QED
    BY <2>2, <2>3, <2>4, <2>5, <2>6, <2>7 DEF PortNext
<1>3. PortInv => PortfolioSound
  BY DEF PortInv
<1> QED
  BY <1>1, <1>2, <1>3, PTL DEF PortSpec

-----------------------------------------------------------------------------
(* Reports                                                                 *)

Origins == {"get", "post", "job"}

Payloads == {build_stocks_to_watch(market) : market \in Markets}
            \cup {build_morning_summary(market, has, answer) :
                    market \in Markets, has \in BOOLEAN, answer \in AiAnswers}

ReportRows == [kind : Kinds, payload : Payloads, at : Nat, origin : Origins, asked : Nat]

\* A worker that is at pc, with a report of the set made.
WorkerAt(pc, made) ==
    [pc : {pc}, kind : Kinds, origin : Origins, asked : Nat, report : made, generated_at : Nat]

WorkerStates ==
    {RptIdle} \cup WorkerAt("gather", {Missing}) \cup WorkerAt("persist", Payloads) \cup WorkerAt("broadcast", Nat)

-----------------------------------------------------------------------------
(* The inductive invariant                                                 *)

(* The table, the frames and the workers hold what they should. *)
ReportsTyped ==
    /\ stored \in Seq(ReportRows)
    /\ broadcasts \in Seq(Nat)
    /\ work \in [Workers -> WorkerStates]

(* A report that is still to be announced is stored, was not announced yet, *)
(* and is announced by one worker.                                          *)
ToldOnce ==
    /\ IsFiniteSet(ToSet(broadcasts))
    /\ AnnouncedOnceStored
    /\ \A w \in Workers : work[w].pc = "broadcast" =>
         work[w].report \in DOMAIN stored \ ToSet(broadcasts)
    /\ \A v, w \in Workers :
         work[v].pc = "broadcast" /\ work[w].pc = "broadcast" /\ work[v].report = work[w].report => v = w

(* A GET that generates asked before the first report of its kind. *)
AskedBefore ==
    /\ \A w \in Workers : RptBusy(w) => work[w].asked <= Len(stored)
    /\ \A w \in Workers : work[w].pc \in {"gather", "persist"} /\ work[w].origin = "get" =>
         \A j \in DOMAIN stored : stored[j].kind = work[w].kind => work[w].asked < j
    /\ \A i \in DOMAIN stored : stored[i].asked < i
    /\ GetsDoNotPileUp

ReportsInv == ReportsTyped /\ ToldOnce /\ AskedBefore

-----------------------------------------------------------------------------
(* The steps of a worker                                                   *)

(* A worker begins: what asks by GET has found no report of the kind. *)
LEMMA GenerateStep ==
    ASSUME ReportsInv, NEW w \in Workers, NEW kind \in Kinds, NEW origin \in Origins,
           Generate(w, kind, origin),
           origin = "get" => \A j \in DOMAIN stored : stored[j].kind # kind
    PROVE  ReportsInv'
<1> DEFINE task == [pc |-> "gather", kind |-> kind, origin |-> origin, asked |-> Len(stored), report |-> Missing, generated_at |-> 0]
<1>1. /\ work' = [work EXCEPT ![w] = task]
      /\ UNCHANGED <<stored, broadcasts>>
  BY DEF Generate
<1>2. /\ stored \in Seq(ReportRows) /\ Len(stored) \in Nat /\ work \in [Workers -> WorkerStates]
      /\ task \in WorkerStates
  BY DEF ReportsInv, ReportsTyped, WorkerStates, WorkerAt
<1>3. work'[w] = task /\ \A v \in Workers \ {w} : work'[v] = work[v]
  BY <1>1, <1>2
<1>4. ReportsTyped'
  BY <1>1, <1>2 DEF ReportsInv, ReportsTyped
<1>5. ToldOnce'
  BY <1>1, <1>3 DEF ReportsInv, ToldOnce, AnnouncedOnceStored
<1>6. AskedBefore'
  BY <1>1, <1>2, <1>3 DEF ReportsInv, AskedBefore, GetsDoNotPileUp, RptBusy
<1> QED
  BY <1>4, <1>5, <1>6 DEF ReportsInv

(* A report is stored: it becomes the last row, and is not announced yet. *)
LEMMA PersistStep ==
    ASSUME ReportsInv, clock \in Nat, NEW w \in Workers, Persist(w)
    PROVE  ReportsInv'
<1> DEFINE row == RowOf(w, clock)
           last == Len(stored) + 1
<1>1. /\ work[w].pc = "persist"
      /\ stored' = Append(stored, row)
      /\ work' = [work EXCEPT ![w].pc = "broadcast", ![w].report = last]
      /\ UNCHANGED broadcasts
  BY DEF Persist
<1>2. /\ stored \in Seq(ReportRows) /\ Len(stored) \in Nat /\ work \in [Workers -> WorkerStates]
      /\ work[w] \in WorkerAt("persist", Payloads)
  BY <1>1 DEF ReportsInv, ReportsTyped, WorkerStates, WorkerAt, RptIdle
<1>3. /\ row \in ReportRows
      /\ row.kind = work[w].kind /\ row.origin = work[w].origin /\ row.asked = work[w].asked
  BY <1>2 DEF ReportRows, RowOf, WorkerAt
<1> HIDE DEF row
<1>4. /\ stored' \in Seq(ReportRows) /\ Len(stored') = last
      /\ DOMAIN stored = 1 .. Len(stored) /\ DOMAIN stored' = 1 .. last
      /\ stored'[last] = row /\ \A i \in DOMAIN stored : stored'[i] = stored[i]
  BY <1>1, <1>2, <1>3
<1>5. /\ work'[w] \in WorkerAt("broadcast", Nat)
      /\ work'[w].report = last /\ work'[w].pc = "broadcast" /\ work'[w].asked = work[w].asked
      /\ \A v \in Workers \ {w} : work'[v] = work[v]
      /\ work' \in [Workers -> WorkerStates]
  <2>1. work'[w] = [work[w] EXCEPT !.pc = "broadcast", !.report = last]
    BY <1>1, <1>2
  <2>2. /\ work'[w] \in WorkerAt("broadcast", Nat)
        /\ work'[w].report = last /\ work'[w].pc = "broadcast" /\ work'[w].asked = work[w].asked
    <3> HIDE DEF last
    <3>1. last \in Nat
      BY <1>2 DEF last
    <3> QED
      BY <1>2, <2>1, <3>1 DEF WorkerAt
  <2>3. \A v \in Workers \ {w} : work'[v] = work[v]
    BY <1>1, <1>2
  <2>4. work'[w] \in WorkerStates
    BY <2>2 DEF WorkerStates
  <2>5. work' \in [Workers -> WorkerStates]
    BY <1>1, <1>2, <2>3, <2>4
  <2> QED
    BY <2>2, <2>3, <2>5
<1>6. ReportsTyped'
  BY <1>1, <1>4, <1>5 DEF ReportsInv, ReportsTyped
<1>7. ToldOnce'
  <2>1. last \notin ToSet(broadcasts) /\ ToSet(broadcasts) \subseteq DOMAIN stored
    BY <1>2, <1>4 DEF ReportsInv, ToldOnce, AnnouncedOnceStored
  <2>2. DOMAIN stored \subseteq DOMAIN stored' /\ last \in DOMAIN stored' /\ last \notin DOMAIN stored
    BY <1>2, <1>4
  <2> QED
    BY <1>1, <1>5, <2>1, <2>2 DEF ReportsInv, ToldOnce, AnnouncedOnceStored
<1>8. AskedBefore'
  <2>1. \A v \in Workers : RptBusy(v)' => work'[v].asked <= Len(stored')
    <3>1. \A v \in Workers : work[v].asked \in Nat
      BY <1>2 DEF WorkerStates, WorkerAt, RptIdle
    <3>2. \A v \in Workers : RptBusy(v)' => RptBusy(v) /\ work'[v].asked = work[v].asked
      BY <1>1, <1>5 DEF RptBusy
    <3> QED
      BY <1>2, <1>4, <3>1, <3>2 DEF ReportsInv, AskedBefore
  <2>2. work[w].asked <= Len(stored)
    BY <1>1 DEF ReportsInv, AskedBefore, RptBusy
  <2>3. \A i \in DOMAIN stored' : stored'[i].asked < i
    <3>1. \A i \in DOMAIN stored : stored'[i].asked < i
      BY <1>4 DEF ReportsInv, AskedBefore
    <3>2. stored'[last].asked = work[w].asked /\ work[w].asked \in Nat
      BY <1>2, <1>3, <1>4 DEF WorkerAt
    <3>3. stored'[last].asked < last
      BY <1>2, <2>2, <3>2
    <3>4. \A i \in DOMAIN stored' : i \in DOMAIN stored \/ i = last
      BY <1>2, <1>4
    <3> HIDE DEF last
    <3> QED
      BY <3>1, <3>3, <3>4
  <2>4. ASSUME NEW v \in Workers, work'[v].pc \in {"gather", "persist"}, work'[v].origin = "get",
               NEW j \in DOMAIN stored', stored'[j].kind = work'[v].kind
        PROVE  work'[v].asked < j
    <3>1. v # w /\ work'[v] = work[v]
      BY <1>5, <2>4
    <3>2. work[v].asked <= Len(stored) /\ work[v].asked \in Nat
      BY <1>2, <2>4, <3>1 DEF ReportsInv, AskedBefore, RptBusy, WorkerStates, WorkerAt, RptIdle
    <3> QED
      BY <1>2, <1>4, <2>4, <3>1, <3>2 DEF ReportsInv, AskedBefore
  <2>5. ASSUME NEW i \in DOMAIN stored', NEW j \in DOMAIN stored',
               stored'[i].origin = "get", stored'[j].kind = stored'[i].kind
        PROVE  stored'[i].asked < j
    <3>1. CASE i = last /\ j = last
      BY <1>4, <2>3, <3>1
    <3>2. CASE i = last /\ j # last
      BY <1>1, <1>2, <1>3, <1>4, <2>5, <3>2 DEF ReportsInv, AskedBefore
    <3>3. CASE i # last /\ j = last
      <4>1. i \in DOMAIN stored /\ i < j /\ stored'[i].asked < i /\ stored'[i].asked \in Nat
        <5>1. stored'[i] \in ReportRows /\ i \in DOMAIN stored /\ i < j
          BY <1>2, <1>4, <3>3
        <5> QED
          BY <2>3, <5>1 DEF ReportRows
      <4> QED
        BY <1>4, <4>1
    <3>4. CASE i # last /\ j # last
      BY <1>2, <1>4, <2>5, <3>4 DEF ReportsInv, AskedBefore, GetsDoNotPileUp
    <3> QED
      BY <3>1, <3>2, <3>3, <3>4
  <2> QED
    BY <2>1, <2>3, <2>4, <2>5 DEF AskedBefore, GetsDoNotPileUp
<1> QED
  BY <1>6, <1>7, <1>8 DEF ReportsInv

(* Workers that return to rest owe nothing. *)
LEMMA RestStep ==
    ASSUME ReportsInv, NEW resting \in SUBSET Workers,
           work' = [v \in Workers |-> IF v \in resting THEN RptIdle ELSE work[v]],
           UNCHANGED <<stored, broadcasts>>
    PROVE  ReportsInv'
<1>1. \A v \in Workers : work'[v] = RptIdle \/ work'[v] = work[v]
  OBVIOUS
<1>2. RptIdle.pc = "idle" /\ RptIdle \in WorkerStates
  BY DEF RptIdle, WorkerStates
<1>3. ReportsTyped'
  BY <1>1, <1>2 DEF ReportsInv, ReportsTyped
<1>4. ToldOnce'
  BY <1>1, <1>2 DEF ReportsInv, ToldOnce, AnnouncedOnceStored
<1>5. AskedBefore'
  BY <1>1, <1>2 DEF ReportsInv, AskedBefore, GetsDoNotPileUp, RptBusy
<1> QED
  BY <1>3, <1>4, <1>5 DEF ReportsInv

(* The report is complete; nothing else changes. *)
LEMMA GatherStep ==
    ASSUME ReportsInv, clock \in Nat, NEW w \in Workers, Gather(w)
    PROVE  ReportsInv'
<1>1. PICK made \in Payloads :
        work' = [work EXCEPT ![w].pc = "persist", ![w].generated_at = clock, ![w].report = made]
  <2>1. PICK market \in Markets, has \in BOOLEAN, answer \in AiAnswers :
          work' = [work EXCEPT ![w].pc = "persist", ![w].generated_at = clock, ![w].report =
                    IF work[w].kind = Digest THEN build_stocks_to_watch(market)
                    ELSE build_morning_summary(market, has, answer)]
    BY DEF Gather
  <2>2. build_stocks_to_watch(market) \in Payloads
    BY DEF Payloads
  <2>3. build_morning_summary(market, has, answer) \in Payloads
    BY DEF Payloads
  <2>4. CASE work[w].kind = Digest
    <3>1. work' = [work EXCEPT ![w].pc = "persist", ![w].generated_at = clock, ![w].report = build_stocks_to_watch(market)]
      BY <2>1, <2>4
    <3> QED
      BY <2>2, <3>1
  <2>5. CASE work[w].kind # Digest
    <3>1. work' = [work EXCEPT ![w].pc = "persist", ![w].generated_at = clock, ![w].report = build_morning_summary(market, has, answer)]
      BY <2>1, <2>5
    <3> QED
      BY <2>3, <3>1
  <2> QED
    BY <2>4, <2>5
<1>2. work[w].pc = "gather" /\ UNCHANGED <<stored, broadcasts>>
  BY DEF Gather
<1>3. /\ work \in [Workers -> WorkerStates]
      /\ work[w] \in WorkerAt("gather", {Missing})
  BY <1>2 DEF ReportsInv, ReportsTyped, WorkerStates, WorkerAt, RptIdle
<1>4. /\ work'[w] \in WorkerAt("persist", Payloads)
      /\ work'[w].kind = work[w].kind /\ work'[w].origin = work[w].origin /\ work'[w].asked = work[w].asked
      /\ work'[w].pc = "persist"
      /\ \A v \in Workers \ {w} : work'[v] = work[v]
      /\ work' \in [Workers -> WorkerStates]
  <2>1. clock \in Nat
    OBVIOUS
  <2>2. /\ work'[w] \in WorkerAt("persist", Payloads)
        /\ work'[w].kind = work[w].kind /\ work'[w].origin = work[w].origin /\ work'[w].asked = work[w].asked
        /\ work'[w].pc = "persist"
    BY <1>1, <1>3, <2>1 DEF WorkerAt
  <2>3. \A v \in Workers \ {w} : work'[v] = work[v]
    BY <1>1, <1>3
  <2>4. work'[w] \in WorkerStates
    BY <2>2 DEF WorkerStates
  <2>5. work' \in [Workers -> WorkerStates]
    BY <1>1, <1>3, <2>3, <2>4
  <2> QED
    BY <2>2, <2>3, <2>5
<1>5. ReportsTyped'
  BY <1>2, <1>4 DEF ReportsInv, ReportsTyped
<1>6. ToldOnce'
  BY <1>2, <1>4 DEF ReportsInv, ToldOnce, AnnouncedOnceStored
<1>7. AskedBefore'
  BY <1>2, <1>4 DEF ReportsInv, AskedBefore, GetsDoNotPileUp, RptBusy
<1> QED
  BY <1>5, <1>6, <1>7 DEF ReportsInv

(* A frame tells the clients of a report that none has told them of. *)
LEMMA BroadcastStep ==
    ASSUME ReportsInv, NEW w \in Workers, _broadcast_report(w)
    PROVE  ReportsInv'
<1> DEFINE made == work[w].report
<1>1. /\ work[w].pc = "broadcast"
      /\ broadcasts' = Append(broadcasts, made)
      /\ work' = [work EXCEPT ![w] = RptIdle]
      /\ UNCHANGED stored
  BY DEF _broadcast_report
<1>2. /\ work \in [Workers -> WorkerStates] /\ broadcasts \in Seq(Nat) /\ Len(broadcasts) \in Nat
      /\ made \in Nat
      /\ made \in DOMAIN stored \ ToSet(broadcasts)
  BY <1>1 DEF ReportsInv, ReportsTyped, ToldOnce, WorkerStates, WorkerAt, RptIdle
<1>3. /\ broadcasts' \in Seq(Nat) /\ Len(broadcasts') = Len(broadcasts) + 1
      /\ ToSet(broadcasts') = ToSet(broadcasts) \cup {made}
  BY <1>1, <1>2 DEF ToSet
<1>4. work'[w] = RptIdle /\ (\A v \in Workers \ {w} : work'[v] = work[v]) /\ work' \in [Workers -> WorkerStates]
  BY <1>1, <1>2 DEF WorkerStates
<1>5. RptIdle.pc = "idle"
  BY DEF RptIdle
<1>6. ReportsTyped'
  BY <1>1, <1>3, <1>4 DEF ReportsInv, ReportsTyped
<1>7. ToldOnce'
  <2>1. IsFiniteSet(ToSet(broadcasts)) /\ Cardinality(ToSet(broadcasts)) = Len(broadcasts)
    BY DEF ReportsInv, ToldOnce, AnnouncedOnceStored
  <2>2. IsFiniteSet(ToSet(broadcasts')) /\ Cardinality(ToSet(broadcasts')) = Len(broadcasts')
    <3>1. made \notin ToSet(broadcasts)
      BY <1>2
    <3>2. /\ IsFiniteSet(ToSet(broadcasts) \cup {made})
          /\ Cardinality(ToSet(broadcasts) \cup {made}) = Cardinality(ToSet(broadcasts)) + 1
      BY <2>1, <3>1, FS_AddElement
    <3> QED
      BY <1>3, <2>1, <3>2
  <2>3. ToSet(broadcasts') \subseteq DOMAIN stored'
    BY <1>1, <1>2, <1>3 DEF ReportsInv, ToldOnce, AnnouncedOnceStored
  <2>4. \A v \in Workers : work'[v].pc = "broadcast" =>
          v # w /\ work'[v] = work[v] /\ work[v].report # made
    BY <1>1, <1>4, <1>5 DEF ReportsInv, ToldOnce
  <2>5. \A v \in Workers : work'[v].pc = "broadcast" => work'[v].report \in DOMAIN stored' \ ToSet(broadcasts')
    BY <1>1, <1>3, <2>4 DEF ReportsInv, ToldOnce
  <2>6. \A u, v \in Workers :
          work'[u].pc = "broadcast" /\ work'[v].pc = "broadcast" /\ work'[u].report = work'[v].report => u = v
    BY <2>4 DEF ReportsInv, ToldOnce
  <2> QED
    BY <2>2, <2>3, <2>5, <2>6 DEF ToldOnce, AnnouncedOnceStored
<1>8. AskedBefore'
  BY <1>1, <1>4, <1>5 DEF ReportsInv, AskedBefore, GetsDoNotPileUp, RptBusy
<1> QED
  BY <1>6, <1>7, <1>8 DEF ReportsInv

-----------------------------------------------------------------------------
(* The theorems                                                            *)

(* The clock stands at an instant. *)
ClockTyped == clock \in Nat

LEMMA ClockStep == ClockTyped /\ [RptNext]_rptVars => ClockTyped'
<1>1. ClockTyped /\ Tick => ClockTyped'
  BY DEF ClockTyped, Tick
<1>2. ClockTyped /\ SetClockBack => ClockTyped'
  BY DEF ClockTyped, SetClockBack
<1>3. [RptNext]_rptVars => Tick \/ SetClockBack \/ UNCHANGED clock
  BY DEF RptNext, rptVars, rptClock, GetReport, PostReport, RunJob, Generate, Gather, Persist, _broadcast_report,
         Fail, StartScheduler, StopScheduler, CancelJob
<1> QED
  BY <1>1, <1>2, <1>3 DEF ClockTyped

LEMMA ReportsInit == RptInit => ReportsInv
<1> SUFFICES ASSUME RptInit PROVE ReportsInv
  OBVIOUS
<1>1. /\ stored = <<>> /\ broadcasts = <<>> /\ work = [w \in Workers |-> RptIdle]
      /\ RptIdle.pc = "idle" /\ RptIdle \in WorkerStates
  BY DEF RptInit, RptIdle, WorkerStates
<1>2. ReportsTyped
  BY <1>1 DEF ReportsTyped
<1>3. ToldOnce
  <2>1. ToSet(broadcasts) = {} /\ Len(broadcasts) = 0
    BY <1>1 DEF ToSet
  <2> QED
    BY <1>1, <2>1, FS_EmptySet DEF ToldOnce, AnnouncedOnceStored
<1>4. AskedBefore
  BY <1>1 DEF AskedBefore, GetsDoNotPileUp, RptBusy
<1> QED
  BY <1>2, <1>3, <1>4 DEF ReportsInv

LEMMA ReportsStep ==
    ASSUME ReportsInv, ClockTyped, [RptNext]_rptVars
    PROVE  ReportsInv'
<1>0. clock \in Nat /\ work \in [Workers -> WorkerStates]
  BY DEF ReportsInv, ReportsTyped, ClockTyped
<1>1. ASSUME NEW w \in Workers, NEW kind \in Kinds, GetReport(w, kind)
      PROVE  ReportsInv'
  <2>1. CASE Indexes(kind) = {} /\ Generate(w, kind, "get")
    <3>1. \A j \in DOMAIN stored : stored[j].kind # kind
      BY <2>1 DEF Indexes
    <3> QED
      BY <2>1, <3>1, GenerateStep DEF Origins
  <2>2. CASE UNCHANGED <<stored, broadcasts, work>>
    BY <2>2 DEF ReportsInv, ReportsTyped, ToldOnce, AnnouncedOnceStored, AskedBefore, GetsDoNotPileUp, RptBusy
  <2> QED
    BY <1>1, <2>1, <2>2 DEF GetReport
<1>2. ASSUME NEW w \in Workers, NEW kind \in Kinds, PostReport(w, kind)
      PROVE  ReportsInv'
  BY <1>2, GenerateStep DEF PostReport, Origins
<1>3. ASSUME NEW w \in Workers, NEW kind \in Kinds, RunJob(w, kind)
      PROVE  ReportsInv'
  BY <1>3, GenerateStep DEF RunJob, Origins
<1>4. ASSUME NEW w \in Workers, Fail(w) \/ CancelJob(w)
      PROVE  ReportsInv'
  <2>1. work' = [v \in Workers |-> IF v \in {w} THEN RptIdle ELSE work[v]] /\ UNCHANGED <<stored, broadcasts>>
    BY <1>0, <1>4 DEF Fail, CancelJob
  <2> QED
    BY <2>1, RestStep
<1>5. ASSUME UNCHANGED <<stored, broadcasts, work>>
      PROVE  ReportsInv'
  BY <1>5 DEF ReportsInv, ReportsTyped, ToldOnce, AnnouncedOnceStored, AskedBefore, GetsDoNotPileUp, RptBusy
<1>6. CASE \E w \in Workers : Gather(w) \/ Persist(w) \/ _broadcast_report(w)
  BY <1>0, <1>6, GatherStep, PersistStep, BroadcastStep
<1> QED
  BY <1>1, <1>2, <1>3, <1>4, <1>5, <1>6
     DEF RptNext, rptVars, StartScheduler, StopScheduler, Tick, SetClockBack

(* The invariant: what is announced is stored, what a worker holds is not   *)
(* announced, and a GET that generates asked before the first report.       *)
THEOREM ReportsInvCorrect == RptSpec => []ReportsInv
<1>1. RptInit => ReportsInv /\ ClockTyped
  BY ReportsInit DEF RptInit, ClockTyped
<1>2. ReportsInv /\ ClockTyped /\ [RptNext]_rptVars => (ReportsInv /\ ClockTyped)'
  BY ReportsStep, ClockStep
<1> QED
  BY <1>1, <1>2, PTL DEF RptSpec

(* Reports are announced once, after they are stored, and GETs never pile   *)
(* them up (_persist, _broadcast_report and the GET routes), however many   *)
(* jobs and requests generate at once.                                       *)
THEOREM ReportsAnnouncedCorrect == RptSpec => []ReportsAnnounced
<1>1. ReportsInv => ReportsAnnounced
  BY DEF ReportsInv, ToldOnce, AskedBefore, ReportsAnnounced
<1> QED
  BY <1>1, ReportsInvCorrect, PTL

(* As long as the clock is not set back, rows are stamped in the order of their *)
(* ids and not after now, and what was answered last is one of them.            *)
StampsInOrder ==
    /\ ClockTyped
    /\ ~setBack => /\ \A i \in DOMAIN stored : stored[i].at <= clock
                   /\ \A i, j \in DOMAIN stored : i < j => stored[i].at <= stored[j].at
    /\ served # 0 => served \in DOMAIN stored

(* A stamp is an instant. *)
LEMMA RowStamped ==
    ASSUME ReportsTyped, NEW i \in DOMAIN stored
    PROVE  stored[i].at \in Nat
<1>1. stored[i] \in ReportRows
  BY DEF ReportsTyped
<1> QED
  BY <1>1 DEF ReportRows

(* A report that is stored gets the latest stamp of all. *)
LEMMA StampedLast ==
    ASSUME ReportsTyped, StampsInOrder, NEW w \in Workers, Persist(w)
    PROVE  StampsInOrder'
<1> DEFINE row == RowOf(w, clock)
           last == Len(stored) + 1
<1>1. stored' = Append(stored, row) /\ served' = 0 /\ UNCHANGED <<clock, setBack>>
  BY DEF Persist, rptClock
<1>2. row.at = clock /\ clock \in Nat /\ stored \in Seq(ReportRows) /\ Len(stored) \in Nat
  BY DEF RowOf, ReportsTyped, StampsInOrder, ClockTyped
<1> HIDE DEF row
<1>3. /\ DOMAIN stored = 1 .. Len(stored) /\ DOMAIN stored' = 1 .. last
      /\ stored'[last] = row /\ \A i \in DOMAIN stored : stored'[i] = stored[i]
  BY <1>1, <1>2
<1>4. ASSUME ~setBack'
      PROVE  /\ \A i \in DOMAIN stored' : stored'[i].at <= clock'
             /\ \A i, j \in DOMAIN stored' : i < j => stored'[i].at <= stored'[j].at
  BY <1>1, <1>2, <1>3, <1>4 DEF StampsInOrder
<1> QED
  BY <1>1, <1>4 DEF StampsInOrder, ClockTyped

(* A GET that finds a report answers one with the latest stamp of its kind. *)
LEMMA LatestAnswered ==
    ASSUME ReportsTyped, StampsInOrder, NEW kind, NEW i \in _latest_row(kind), served' = i,
           UNCHANGED <<stored, rptClock>>
    PROVE  StampsInOrder' /\ NewestServed'
<1>1. i \in DOMAIN stored /\ i # 0 /\ stored[i].kind = kind
  BY DEF _latest_row, Indexes, ReportsTyped
<1>2. ASSUME ~setBack, NEW j \in Indexes(kind), j > i
      PROVE  stored[j].at = stored[i].at
  <2>1. j \in DOMAIN stored /\ stored[i].at >= stored[j].at
    BY <1>2 DEF _latest_row, Indexes
  <2>2. stored[i].at <= stored[j].at
    BY <1>1, <1>2, <2>1 DEF StampsInOrder
  <2>3. stored[i].at \in Nat /\ stored[j].at \in Nat
    BY <1>1, <2>1, RowStamped
  <2> QED
    BY <2>1, <2>2, <2>3
<1>3. StampsInOrder'
  BY <1>1 DEF StampsInOrder, ClockTyped, rptClock
<1>4. NewestServed'
  BY <1>1, <1>2 DEF NewestServed, Indexes, rptClock
<1> QED
  BY <1>3, <1>4

(* Every other step leaves the table and what was answered, or the clock, alone. *)
LEMMA StampsStep ==
    ASSUME ReportsTyped, StampsInOrder, NewestServed, [RptNext]_rptVars
    PROVE  StampsInOrder' /\ NewestServed'
<1>1. ASSUME NEW w \in Workers, Persist(w)
      PROVE  StampsInOrder' /\ NewestServed'
  BY <1>1, StampedLast DEF Persist, NewestServed
<1>2. ASSUME NEW w \in Workers, NEW kind \in Kinds, GetReport(w, kind), ~Generate(w, kind, "get")
      PROVE  StampsInOrder' /\ NewestServed'
  BY <1>2, LatestAnswered DEF GetReport
<1>3. ASSUME UNCHANGED <<stored, served>>, ClockTyped', setBack => setBack',
             ~setBack' => clock <= clock'
      PROVE  StampsInOrder' /\ NewestServed'
  <2>1. \A i \in DOMAIN stored : stored[i].at \in Nat
    BY RowStamped
  <2>2. clock \in Nat /\ clock' \in Nat
    BY <1>3 DEF StampsInOrder, ClockTyped
  <2>3. StampsInOrder'
    BY <1>3, <2>1, <2>2 DEF StampsInOrder
  <2>4. NewestServed'
    BY <1>3 DEF NewestServed, Indexes
  <2> QED
    BY <2>3, <2>4
<1>4. ClockTyped'
  BY ClockStep DEF StampsInOrder
<1>5. CASE UNCHANGED <<stored, served, rptClock>>
  BY <1>3, <1>4, <1>5 DEF rptClock, StampsInOrder, ClockTyped
<1>6. CASE Tick
  BY <1>3, <1>4, <1>6 DEF Tick, StampsInOrder, ClockTyped
<1>7. CASE SetClockBack
  BY <1>3, <1>4, <1>7 DEF SetClockBack
<1> QED
  BY <1>1, <1>2, <1>5, <1>6, <1>7
     DEF RptNext, rptVars, rptClock, PostReport, RunJob, Generate, Gather, _broadcast_report, Fail, CancelJob,
         StartScheduler, StopScheduler

LEMMA StampsCorrect == RptSpec => [](StampsInOrder /\ NewestServed)
<1>1. RptInit => StampsInOrder /\ NewestServed
  BY DEF RptInit, StampsInOrder, ClockTyped, NewestServed
<1>2. ReportsInv /\ StampsInOrder /\ NewestServed /\ [RptNext]_rptVars => (StampsInOrder /\ NewestServed)'
  BY StampsStep DEF ReportsInv
<1> QED
  BY <1>1, <1>2, ReportsInvCorrect, PTL DEF RptSpec

(* What a GET answers (_latest_row) is the last report of its kind that was   *)
(* stored by then, up to rows of the same instant, unless the clock was set   *)
(* back: rows are stamped when they are stored (_persist), not when they were *)
(* begun.                                                                     *)
THEOREM NewestServedCorrect == RptSpec => []NewestServed
  BY StampsCorrect, PTL

-----------------------------------------------------------------------------
(* What a stored report says                                               *)

(* The reports of a kind that the builders can make. *)
PayloadsOf(kind) ==
    IF kind = Digest THEN {build_stocks_to_watch(market) : market \in Markets}
    ELSE {build_morning_summary(market, has, answer) : market \in Markets, has \in BOOLEAN, answer \in AiAnswers}

(* A report is one of its kind. *)
PayloadsFit ==
    /\ \A i \in DOMAIN stored : stored[i].payload \in PayloadsOf(stored[i].kind)
    /\ \A w \in Workers : work[w].pc = "persist" => work[w].report \in PayloadsOf(work[w].kind)

(* Every step keeps that: only a worker that has gathered stores a report. *)
LEMMA PayloadsFitStep ==
    ASSUME ReportsTyped, ClockTyped, PayloadsFit, [RptNext]_rptVars
    PROVE  PayloadsFit'
<1>0. clock \in Nat
  BY DEF ClockTyped
<1>1. stored \in Seq(ReportRows) /\ work \in [Workers -> WorkerStates]
  BY DEF ReportsTyped
<1>2. ASSUME UNCHANGED stored,
             \A w \in Workers : work'[w] = work[w] \/ work'[w].pc # "persist"
      PROVE  PayloadsFit'
  BY <1>2 DEF PayloadsFit
<1>3. ASSUME NEW w \in Workers, NEW kind, NEW origin, Generate(w, kind, origin)
      PROVE  PayloadsFit'
  <2> DEFINE task == [pc |-> "gather", kind |-> kind, origin |-> origin, asked |-> Len(stored), report |-> Missing, generated_at |-> 0]
  <2>1. work' = [work EXCEPT ![w] = task] /\ UNCHANGED stored /\ task.pc # "persist"
    BY <1>3 DEF Generate
  <2> HIDE DEF task
  <2> QED
    BY <1>1, <1>2, <2>1
<1>4. ASSUME NEW w \in Workers, Gather(w)
      PROVE  PayloadsFit'
  <2>1. PICK market \in Markets, has \in BOOLEAN, answer \in AiAnswers :
          work' = [work EXCEPT ![w].pc = "persist", ![w].generated_at = clock, ![w].report =
                    IF work[w].kind = Digest THEN build_stocks_to_watch(market)
                    ELSE build_morning_summary(market, has, answer)]
    BY <1>4 DEF Gather
  <2> DEFINE made == IF work[w].kind = Digest THEN build_stocks_to_watch(market)
                       ELSE build_morning_summary(market, has, answer)
  <2>2. made \in PayloadsOf(work[w].kind)
    BY DEF PayloadsOf
  <2>3. work' = [work EXCEPT ![w].pc = "persist", ![w].generated_at = clock, ![w].report = made]
    BY <2>1
  <2> HIDE DEF made
  <2>4. work[w].pc = "gather" /\ UNCHANGED stored
    BY <1>4 DEF Gather
  <2>5. work[w] \in WorkerAt("gather", {Missing})
    BY <1>1, <2>4 DEF WorkerStates, WorkerAt, RptIdle
  <2>6. work'[w].report = made /\ work'[w].kind = work[w].kind /\ \A v \in Workers \ {w} : work'[v] = work[v]
    BY <1>1, <2>3, <2>5
  <2> QED
    BY <2>2, <2>4, <2>6 DEF PayloadsFit
<1>5. ASSUME NEW w \in Workers, Persist(w)
      PROVE  PayloadsFit'
  <2> DEFINE row == RowOf(w, clock)
  <2>1. /\ work[w].pc = "persist"
        /\ stored' = Append(stored, row)
        /\ work' = [work EXCEPT ![w].pc = "broadcast", ![w].report = Len(stored) + 1]
    BY <1>5 DEF Persist
  <2>2. row.payload \in PayloadsOf(row.kind)
    BY <2>1 DEF PayloadsFit, RowOf
  <2>3. row \in ReportRows
    <3>1. work[w] \in WorkerAt("persist", Payloads)
      BY <1>1, <2>1 DEF WorkerStates, WorkerAt, RptIdle
    <3> QED
      BY <1>0, <3>1 DEF ReportRows, RowOf, WorkerAt
  <2>4. work[w] \in WorkerAt("persist", Payloads)
    BY <1>1, <2>1 DEF WorkerStates, WorkerAt, RptIdle
  <2>5. work'[w].pc = "broadcast" /\ \A v \in Workers \ {w} : work'[v] = work[v]
    BY <1>1, <2>1, <2>4
  <2> HIDE DEF row
  <2>6. \A i \in DOMAIN stored' : stored'[i] = row \/ (i \in DOMAIN stored /\ stored'[i] = stored[i])
    BY <1>1, <2>1, <2>3
  <2> QED
    BY <2>2, <2>5, <2>6 DEF PayloadsFit
<1>6. RptIdle.pc # "persist"
  BY DEF RptIdle
<1>7. ASSUME NEW w \in Workers, _broadcast_report(w) \/ Fail(w) \/ CancelJob(w)
      PROVE  PayloadsFit'
  BY <1>1, <1>2, <1>6, <1>7 DEF _broadcast_report, Fail, CancelJob
<1>8. ASSUME UNCHANGED <<stored, work>>
      PROVE  PayloadsFit'
  BY <1>2, <1>8
<1> QED
  BY <1>3, <1>4, <1>5, <1>7, <1>8
     DEF RptNext, rptVars, GetReport, PostReport, RunJob, StartScheduler, StopScheduler, Tick, SetClockBack

(* Symbols by the size of their move: all of them, the largest first. *)
LEMMA ByMoveSorts ==
    ASSUME NEW S, NEW symbols \in Seq(S), NEW size \in [DOMAIN symbols -> Int]
    PROVE  /\ ByMove(symbols, size) \in Seq(S)
           /\ Len(ByMove(symbols, size)) = Len(symbols)
           /\ \E at \in [DOMAIN symbols -> DOMAIN symbols] :
                 /\ \A j, k \in DOMAIN symbols : at[j] = at[k] => j = k
                 /\ \A i \in DOMAIN symbols : \E k \in DOMAIN symbols : at[k] = i
                 /\ \A k \in DOMAIN symbols : ByMove(symbols, size)[k] = symbols[at[k]]
                 /\ \A j, k \in DOMAIN symbols : j < k => size[at[k]] <= size[at[j]]
<1> DEFINE n == Len(symbols)
           D == DOMAIN symbols
           before == LargerMove(size)
<1>1. n \in Nat /\ D = 1 .. n /\ DOMAIN size = D
  OBVIOUS
<1>2. IsFiniteSet(D) /\ Cardinality(D) = n
  <2> HIDE DEF D, n
  <2>1. IsFiniteSet(1 .. n) /\ Cardinality(1 .. n) = n
    BY <1>1, FS_Interval
  <2> QED
    BY <1>1, <2>1
<1>3. \A i, j \in D : <<i, j>> \in before <=> (size[i] > size[j] \/ (size[i] = size[j] /\ i < j))
  BY <1>1 DEF LargerMove
<1>4. \A i \in D : size[i] \in Int /\ i \in Nat
  BY <1>1
<1> HIDE DEF before, D, n
<1>5. IsOrderOf(before, D)
  <2>1. \A i \in D : <<i, i>> \notin before
    BY <1>3, <1>4
  <2>2. ASSUME NEW i \in D, NEW j \in D, NEW k \in D, <<i, j>> \in before, <<j, k>> \in before
        PROVE  <<i, k>> \in before
    <3>1. size[i] \in Int /\ size[j] \in Int /\ size[k] \in Int /\ i \in Nat /\ j \in Nat /\ k \in Nat
      BY <1>4
    <3>2. /\ size[i] > size[j] \/ (size[i] = size[j] /\ i < j)
          /\ size[j] > size[k] \/ (size[j] = size[k] /\ j < k)
      BY <1>3, <2>2
    <3>3. size[i] > size[k] \/ (size[i] = size[k] /\ i < k)
      BY <3>1, <3>2
    <3> QED
      BY <1>3, <3>3
  <2> QED
    BY <2>1, <2>2 DEF IsOrderOf
<1>6. PICK at : at = InOrder(D, before)
  OBVIOUS
<1>7. /\ at \in Seq(D) /\ Len(at) = n
      /\ \A j, k \in DOMAIN at : at[j] = at[k] => j = k
      /\ \A i \in D : \E k \in DOMAIN at : at[k] = i
      /\ \A j, k \in DOMAIN at : j < k => <<at[k], at[j]>> \notin before
  BY <1>2, <1>5, <1>6, InOrderListed
<1>8. DOMAIN at = D /\ \A k \in D : at[k] \in D
  BY <1>1, <1>7
<1>9. at \in [D -> D]
  <2>1. at = [k \in 1 .. n |-> at[k]]
    BY <1>7
  <2> QED
    BY <1>1, <1>8, <2>1
<1>10. ByMove(symbols, size) = [k \in D |-> symbols[at[k]]]
  BY <1>6, <1>8 DEF ByMove, before, D
<1>11. \A k \in D : symbols[at[k]] \in S
  <2>1. \A i \in D : symbols[i] \in S
    BY <1>1 DEF D
  <2> QED
    BY <1>8, <2>1
<1>12. ByMove(symbols, size) \in Seq(S) /\ Len(ByMove(symbols, size)) = n
  <2>1. PICK f : f = [k \in 1 .. n |-> symbols[at[k]]]
    OBVIOUS
  <2>2. f \in [1 .. n -> S]
    BY <1>1, <1>11, <2>1
  <2>3. f \in Seq(S) /\ Len(f) = n
    BY <1>1, <2>2, FunctionIsList
  <2> QED
    BY <1>1, <1>10, <2>1, <2>3
<1>13. ASSUME NEW j \in D, NEW k \in D, j < k
       PROVE  size[at[k]] <= size[at[j]]
  <2>1. <<at[k], at[j]>> \notin before /\ at[k] \in D /\ at[j] \in D
    BY <1>7, <1>8, <1>13
  <2>2. ~(size[at[k]] > size[at[j]]) /\ size[at[k]] \in Int /\ size[at[j]] \in Int
    BY <1>3, <1>4, <2>1
  <2> QED
    BY <2>2
<1> QED
  BY <1>7, <1>8, <1>9, <1>10, <1>12, <1>13 DEF D, n

(* The symbols of a list that have a quote. *)
LEMMA QuotedKept ==
    ASSUME NEW S, NEW symbols \in Seq(S), NEW market
    PROVE  /\ Quoted(symbols, market) \in Seq(S)
           /\ \A k \in DOMAIN Quoted(symbols, market) :
                 /\ \E i \in DOMAIN symbols : Quoted(symbols, market)[k] = symbols[i]
                 /\ market[Quoted(symbols, market)[k]] # NoQuote
           /\ \A i \in DOMAIN symbols : market[symbols[i]] # NoQuote =>
                 \E k \in DOMAIN Quoted(symbols, market) : Quoted(symbols, market)[k] = symbols[i]
           /\ (\A i, j \in DOMAIN symbols : symbols[i] = symbols[j] => i = j) =>
                 \A j, k \in DOMAIN Quoted(symbols, market) : Quoted(symbols, market)[j] = Quoted(symbols, market)[k] => j = k
<1> DEFINE places == {i \in DOMAIN symbols : market[symbols[i]] # NoQuote}
<1>1. places \in SUBSET DOMAIN symbols /\ Quoted(symbols, market) = AtPlaces(symbols, places)
  BY DEF Quoted
<1>4. \A i \in DOMAIN symbols : i \in places <=> market[symbols[i]] # NoQuote
  OBVIOUS
<1> HIDE DEF places
<1>2. PICK kept : kept = AtPlaces(symbols, places)
  OBVIOUS
<1>3. /\ kept \in Seq(S)
      /\ \A k \in DOMAIN kept : \E i \in places : kept[k] = symbols[i]
      /\ \A i \in places : \E k \in DOMAIN kept : kept[k] = symbols[i]
      /\ (\A i, j \in DOMAIN symbols : symbols[i] = symbols[j] => i = j) =>
            \A j, k \in DOMAIN kept : kept[j] = kept[k] => j = k
  BY <1>1, <1>2, PlacesChosen
<1>5. \A k \in DOMAIN kept : (\E i \in DOMAIN symbols : kept[k] = symbols[i]) /\ market[kept[k]] # NoQuote
  BY <1>1, <1>3, <1>4
<1>6. \A i \in DOMAIN symbols : market[symbols[i]] # NoQuote => \E k \in DOMAIN kept : kept[k] = symbols[i]
  BY <1>1, <1>3, <1>4
<1> QED
  BY <1>1, <1>2, <1>3, <1>5, <1>6

(* The size of a move is a number. *)
LEMMA MoveSize == \A n \in Int : AbsOf(n) \in Int /\ AbsOf(n) >= 0
  BY DEF AbsOf

(* A summary is never empty: its text is the AI's, or names the benchmark   *)
(* with the largest move, or says that no benchmark has one.                *)
LEMMA MorningTold ==
    ASSUME NEW market \in Markets, NEW has \in BOOLEAN, NEW answer \in AiAnswers,
           NEW r, r = build_morning_summary(market, has, answer)
    PROVE  IF r.ai_enhanced THEN r.overview = "ai"
           ELSE IF r.overview = "no data" THEN \A s \in ToSet(r.symbols) : ~HasChange(r.market, s)
           ELSE /\ r.overview \in ToSet(r.symbols)
                /\ \A s \in ToSet(r.symbols) : MoveIn(r, s) <= MoveIn(r, r.overview)
<1>1. PICK list : list = Quoted(Benchmarks, market)
  OBVIOUS
<1>2. PICK enhanced : enhanced = IF has THEN _ai_enhance(answer) ELSE Missing
  OBVIOUS
<1>3. PICK told : told = _template_overview(list, market)
  OBVIOUS
<1>4. PICK text : text = IF enhanced # Missing THEN enhanced ELSE told
  OBVIOUS
<1>5. r = [market |-> market, symbols |-> list, overview |-> text.overview,
           highlights |-> text.highlights, ai_enhanced |-> enhanced # Missing]
  BY <1>1, <1>2, <1>3, <1>4 DEF build_morning_summary
<1>6. r.market = market /\ r.symbols = list /\ r.overview = text.overview /\ (r.ai_enhanced <=> enhanced # Missing)
  <2>1. r.market = market /\ r.symbols = list /\ r.overview = text.overview
    BY <1>5
  <2>2. r.ai_enhanced = (enhanced # Missing)
    BY <1>5
  <2> QED
    BY <2>1, <2>2
<1>7. enhanced # Missing => enhanced.overview = "ai"
  BY <1>2 DEF _ai_enhance
<1>8. /\ list \in Seq(STRING)
      /\ \A k \in DOMAIN list : (\E i \in DOMAIN Benchmarks : list[k] = Benchmarks[i]) /\ market[list[k]] # NoQuote
  <2>1. Benchmarks \in Seq(STRING)
    BY RptAssumption
  <2> QED
    BY <1>1, <2>1, QuotedKept
<1>9. ToSet(list) = {list[k] : k \in DOMAIN list}
  BY DEF ToSet
<1>10. ASSUME NEW k \in DOMAIN list
       PROVE  list[k] # "no data" /\ market[list[k]] \in QuoteFields
  <2>1. PICK i \in DOMAIN Benchmarks : list[k] = Benchmarks[i]
    BY <1>8
  <2>2. list[k] \in ToSet(Benchmarks)
    BY <2>1 DEF ToSet
  <2>3. market[list[k]] = NoQuote \/ market[list[k]] \in QuoteFields
    BY <2>2, RptAssumption
  <2> QED
    BY <1>8, <2>2, <2>3, RptAssumption
<1> DEFINE spots == {i \in DOMAIN list : HasChange(market, list[i])}
<1>11. PICK moving : moving = AtPlaces(list, spots)
  OBVIOUS
<1>12. spots \in SUBSET DOMAIN list /\ \A i \in DOMAIN list : i \in spots <=> HasChange(market, list[i])
  OBVIOUS
<1>13. PICK size : size = [i \in DOMAIN moving |-> AbsOf(market[moving[i]].change)]
  OBVIOUS
<1>14. told = IF moving = <<>> THEN [overview |-> "no data", highlights |-> <<>>]
              ELSE [overview |-> ByMove(moving, size)[1], highlights |-> moving]
  BY <1>3, <1>11, <1>13 DEF _template_overview
<1> HIDE DEF spots
<1>15. /\ moving \in Seq(STRING)
       /\ \A k \in DOMAIN moving : \E i \in spots : moving[k] = list[i]
       /\ \A i \in spots : \E k \in DOMAIN moving : moving[k] = list[i]
  BY <1>8, <1>11, <1>12, PlacesChosen
<1>16. ASSUME NEW k \in DOMAIN moving
       PROVE  /\ \E i \in DOMAIN list : moving[k] = list[i]
              /\ HasChange(market, moving[k]) /\ size[k] \in Int /\ size[k] >= 0
              /\ MoveIn(r, moving[k]) = size[k]
  <2>1. PICK i \in DOMAIN list : moving[k] = list[i] /\ HasChange(market, list[i])
    BY <1>12, <1>15
  <2>2. market[moving[k]] \in QuoteFields
    BY <1>10, <2>1
  <2>3. market[moving[k]].change \in Int
    BY <2>1, <2>2 DEF HasChange, QuoteFields
  <2>4. size[k] = AbsOf(market[moving[k]].change)
    BY <1>13
  <2> QED
    BY <1>6, <2>1, <2>3, <2>4, MoveSize DEF MoveIn
<1>17. CASE enhanced # Missing
  BY <1>4, <1>6, <1>7, <1>17
<1>18. CASE enhanced = Missing /\ moving = <<>>
  <2>1. text.overview = "no data"
    BY <1>4, <1>14, <1>18
  <2>2. ASSUME NEW s \in ToSet(list), HasChange(market, s)
        PROVE  FALSE
    <3>1. PICK i \in DOMAIN list : s = list[i]
      BY <1>9
    <3>2. PICK k \in DOMAIN moving : moving[k] = list[i]
      BY <1>12, <1>15, <2>2, <3>1
    <3> QED
      BY <1>18
  <2> QED
    BY <1>6, <1>18, <2>1, <2>2
<1>19. CASE enhanced = Missing /\ moving # <<>>
  <2>1. PICK sorted : sorted = ByMove(moving, size)
    OBVIOUS
  <2>2. size \in [DOMAIN moving -> Int]
    BY <1>13, <1>16
  <2>3. \E at \in [DOMAIN moving -> DOMAIN moving] :
           /\ \A j, k \in DOMAIN moving : at[j] = at[k] => j = k
           /\ \A i \in DOMAIN moving : \E k \in DOMAIN moving : at[k] = i
           /\ \A k \in DOMAIN moving : ByMove(moving, size)[k] = moving[at[k]]
           /\ \A j, k \in DOMAIN moving : j < k => size[at[k]] <= size[at[j]]
    BY <1>15, <2>2, ByMoveSorts
  <2>4. PICK at \in [DOMAIN moving -> DOMAIN moving] :
           /\ \A i \in DOMAIN moving : \E k \in DOMAIN moving : at[k] = i
           /\ \A k \in DOMAIN moving : sorted[k] = moving[at[k]]
           /\ \A j, k \in DOMAIN moving : j < k => size[at[k]] <= size[at[j]]
    BY <2>1, <2>3
  <2>5. DOMAIN moving = 1 .. Len(moving) /\ Len(moving) \in Nat /\ 1 \in DOMAIN moving
    BY <1>15, <1>19
  <2>6. text.overview = sorted[1] /\ sorted[1] = moving[at[1]] /\ at[1] \in DOMAIN moving
    BY <1>4, <1>14, <1>19, <2>1, <2>4, <2>5
  <2>7. ASSUME NEW k \in DOMAIN moving
        PROVE  size[k] <= size[at[1]]
    <3>1. PICK j \in DOMAIN moving : at[j] = k
      BY <2>4
    <3>2. j = 1 \/ 1 < j
      BY <2>5
    <3>3. size[k] \in Int /\ size[at[1]] \in Int
      BY <1>16, <2>6
    <3>4. CASE j = 1
      BY <3>1, <3>3, <3>4
    <3>5. CASE 1 < j
      BY <2>4, <2>5, <3>1, <3>5
    <3> QED
      BY <3>2, <3>4, <3>5
  <2>8. PICK lead : lead = text.overview
    OBVIOUS
  <2>9. /\ MoveIn(r, lead) = size[at[1]] /\ size[at[1]] \in Int /\ size[at[1]] >= 0
        /\ \E i \in DOMAIN list : lead = list[i]
    BY <1>16, <2>6, <2>8
  <2>10. lead \in ToSet(list) /\ lead # "no data"
    BY <1>9, <1>10, <2>9
  <2>11. ASSUME NEW s \in ToSet(list)
        PROVE  MoveIn(r, s) <= MoveIn(r, lead)
    <3>1. PICK i \in DOMAIN list : s = list[i]
      BY <1>9
    <3>2. CASE ~HasChange(market, s)
      BY <1>6, <2>9, <3>2 DEF MoveIn
    <3>3. CASE HasChange(market, s)
      <4>1. PICK k \in DOMAIN moving : moving[k] = s
        BY <1>12, <1>15, <3>1, <3>3
      <4>2. MoveIn(r, s) = size[k]
        BY <1>16, <4>1
      <4> QED
        BY <2>7, <2>9, <4>2
    <3> QED
      BY <3>2, <3>3
  <2> QED
    BY <1>6, <1>19, <2>8, <2>10, <2>11
<1> QED
  BY <1>17, <1>18, <1>19

(* The symbols of the watchlists and of the portfolio, each once. *)
LEMMA SymbolsCollected ==
    /\ _collect_symbols \in Seq(STRING)
    /\ \A j, k \in DOMAIN _collect_symbols : _collect_symbols[j] = _collect_symbols[k] => j = k
<1>1. PICK watched : watched = Concat(WatchlistSymbols)
  OBVIOUS
<1>2. watched \in Seq(STRING)
  <2>1. WatchlistSymbols \in Seq(Seq(STRING))
    BY RptAssumption
  <2> QED
    BY <1>1, <2>1, ConcatHolds
<1>3. PICK held : held = HoldingSymbols
  OBVIOUS
<1>4. held \in Seq(STRING)
  BY <1>3, RptAssumption
<1>5. PICK whole : whole = watched \o held
  OBVIOUS
<1>6. whole \in Seq(STRING)
  BY <1>2, <1>4, <1>5, OneBehindOther
<1>7. _collect_symbols = Firsts(whole)
  BY <1>1, <1>3, <1>5 DEF _collect_symbols
<1> QED
  BY <1>6, <1>7, FirstsKept

(* The digest holds every symbol that has a price once, the largest moves   *)
(* first, up to its limit.                                                  *)
LEMMA DigestListed ==
    ASSUME NEW market \in Markets, NEW r, r = build_stocks_to_watch(market)
    PROVE  /\ IsInjective(r.symbols)
           /\ \A j \in 2 .. Len(r.symbols) : MoveIn(r, r.symbols[j]) <= MoveIn(r, r.symbols[j - 1])
           /\ \A s \in ToSet(_collect_symbols) :
               r.market[s] # NoQuote =>
                   (r.market[s].price # Missing /\ s \notin ToSet(r.symbols) =>
                       /\ Len(r.symbols) = DigestLimit
                       /\ MoveIn(r, s) <= MoveIn(r, r.symbols[DigestLimit]))
<1>1. PICK symbols : symbols = _collect_symbols
  OBVIOUS
<1>2. symbols \in Seq(STRING) /\ \A j, k \in DOMAIN symbols : symbols[j] = symbols[k] => j = k
  BY <1>1, SymbolsCollected
<1>3. PICK quoted : quoted = Quoted(symbols, market)
  OBVIOUS
<1>4. /\ quoted \in Seq(STRING)
      /\ \A k \in DOMAIN quoted : (\E i \in DOMAIN symbols : quoted[k] = symbols[i]) /\ market[quoted[k]] # NoQuote
      /\ \A i \in DOMAIN symbols : market[symbols[i]] # NoQuote => \E k \in DOMAIN quoted : quoted[k] = symbols[i]
      /\ \A j, k \in DOMAIN quoted : quoted[j] = quoted[k] => j = k
  BY <1>2, <1>3, QuotedKept
<1> DEFINE spots == {i \in DOMAIN quoted : market[quoted[i]].price # Missing}
<1>5. PICK priced : priced = AtPlaces(quoted, spots)
  OBVIOUS
<1>6. spots \in SUBSET DOMAIN quoted /\ \A i \in DOMAIN quoted : i \in spots <=> market[quoted[i]].price # Missing
  OBVIOUS
<1>7. PICK size : size = [i \in DOMAIN priced |-> IF HasChange(market, priced[i]) THEN AbsOf(market[priced[i]].change) ELSE 0]
  OBVIOUS
<1>8. PICK sorted : sorted = ByMove(priced, size)
  OBVIOUS
<1>9. PICK picks : picks = Upto(DigestLimit, sorted)
  OBVIOUS
<1>10. r.market = market /\ r.symbols = picks
  BY <1>1, <1>3, <1>5, <1>7, <1>8, <1>9 DEF build_stocks_to_watch
<1> HIDE DEF spots
<1>11. /\ priced \in Seq(STRING)
       /\ \A k \in DOMAIN priced : \E i \in spots : priced[k] = quoted[i]
       /\ \A i \in spots : \E k \in DOMAIN priced : priced[k] = quoted[i]
       /\ \A j, k \in DOMAIN priced : priced[j] = priced[k] => j = k
  BY <1>4, <1>5, <1>6, PlacesChosen
<1>12. ASSUME NEW k \in DOMAIN priced
       PROVE  size[k] \in Int /\ MoveIn(r, priced[k]) = size[k]
  <2>1. PICK j \in DOMAIN quoted : priced[k] = quoted[j]
    BY <1>6, <1>11
  <2>2. PICK i \in DOMAIN symbols : priced[k] = symbols[i] /\ market[priced[k]] # NoQuote
    BY <1>4, <2>1
  <2>3. priced[k] \in ToSet(_collect_symbols)
    BY <1>1, <2>2 DEF ToSet
  <2>4. market[priced[k]] \in QuoteFields
    BY <2>2, <2>3, RptAssumption
  <2>5. HasChange(market, priced[k]) => market[priced[k]].change \in Int
    BY <2>4 DEF HasChange, QuoteFields
  <2>6. size[k] = IF HasChange(market, priced[k]) THEN AbsOf(market[priced[k]].change) ELSE 0
    BY <1>7
  <2>7. MoveIn(r, priced[k]) = size[k]
    BY <1>10, <2>6 DEF MoveIn
  <2> QED
    BY <2>5, <2>6, <2>7, MoveSize
<1>13. size \in [DOMAIN priced -> Int]
  BY <1>7, <1>12
<1>14. /\ ByMove(priced, size) \in Seq(STRING)
       /\ Len(ByMove(priced, size)) = Len(priced)
       /\ \E at \in [DOMAIN priced -> DOMAIN priced] :
             /\ \A j, k \in DOMAIN priced : at[j] = at[k] => j = k
             /\ \A i \in DOMAIN priced : \E k \in DOMAIN priced : at[k] = i
             /\ \A k \in DOMAIN priced : ByMove(priced, size)[k] = priced[at[k]]
             /\ \A j, k \in DOMAIN priced : j < k => size[at[k]] <= size[at[j]]
  BY <1>11, <1>13, ByMoveSorts
<1>15. PICK at \in [DOMAIN priced -> DOMAIN priced] :
         /\ \A j, k \in DOMAIN priced : at[j] = at[k] => j = k
         /\ \A i \in DOMAIN priced : \E k \in DOMAIN priced : at[k] = i
         /\ \A k \in DOMAIN priced : sorted[k] = priced[at[k]]
         /\ \A j, k \in DOMAIN priced : j < k => size[at[k]] <= size[at[j]]
  BY <1>8, <1>14
<1>16. sorted \in Seq(STRING) /\ Len(sorted) = Len(priced) /\ Len(priced) \in Nat /\ DOMAIN priced = 1 .. Len(priced)
  BY <1>8, <1>11, <1>14
<1>17. DigestLimit \in Nat /\ DigestLimit > 0
  <2>1. DigestLimit \in Nat \ {0}
    BY Zenon, RptAssumption
  <2> QED
    BY <2>1
<1>18. /\ picks \in Seq(STRING)
       /\ Len(picks) = IF Len(sorted) < DigestLimit THEN Len(sorted) ELSE DigestLimit
       /\ \A k \in 1 .. Len(picks) : k \in 1 .. Len(sorted) /\ picks[k] = sorted[k]
  BY <1>9, <1>16, <1>17, UptoKept
<1>19. Len(picks) \in Nat /\ DOMAIN picks = 1 .. Len(picks)
  BY <1>18
<1>20. ASSUME NEW k \in DOMAIN picks
       PROVE  k \in DOMAIN priced /\ picks[k] = priced[at[k]] /\ at[k] \in DOMAIN priced /\ MoveIn(r, picks[k]) = size[at[k]]
  <2>1. k \in DOMAIN priced /\ picks[k] = sorted[k]
    BY <1>16, <1>18, <1>19
  <2>2. sorted[k] = priced[at[k]] /\ at[k] \in DOMAIN priced
    BY <1>15, <2>1
  <2> QED
    BY <1>12, <2>1, <2>2
<1>21. ASSUME NEW j \in DOMAIN picks, NEW k \in DOMAIN picks, picks[j] = picks[k]
       PROVE  j = k
  <2>1. priced[at[j]] = priced[at[k]]
    BY <1>20, <1>21
  <2>2. at[j] = at[k]
    BY <1>11, <1>20, <2>1
  <2> QED
    BY <1>15, <1>20, <2>2
<1>22. ASSUME NEW j \in 2 .. Len(picks)
       PROVE  MoveIn(r, picks[j]) <= MoveIn(r, picks[j - 1])
  <2>1. PICK i : i = j - 1
    OBVIOUS
  <2>2. i \in DOMAIN picks /\ j \in DOMAIN picks /\ i < j
    BY <1>19, <2>1
  <2>3. size[at[j]] <= size[at[i]]
    BY <1>15, <1>20, <2>2
  <2> QED
    BY <1>20, <2>1, <2>2, <2>3
<1>23. ASSUME NEW s \in ToSet(symbols), market[s] # NoQuote, market[s].price # Missing, s \notin ToSet(picks)
       PROVE  Len(picks) = DigestLimit /\ MoveIn(r, s) <= MoveIn(r, picks[DigestLimit])
  <2>1. PICK i \in DOMAIN symbols : s = symbols[i]
    BY DEF ToSet
  <2>2. PICK j \in DOMAIN quoted : quoted[j] = s
    BY <1>4, <1>23, <2>1
  <2>3. PICK k \in DOMAIN priced : priced[k] = s
    BY <1>6, <1>11, <1>23, <2>2
  <2>4. PICK place \in DOMAIN priced : at[place] = k
    BY <1>15, <2>3
  <2>5. sorted[place] = s /\ MoveIn(r, s) = size[at[place]]
    BY <1>12, <1>15, <2>3, <2>4
  <2>6. place \notin DOMAIN picks
    <3>1. ASSUME place \in DOMAIN picks
          PROVE  FALSE
      <4>1. picks[place] = s
        BY <1>20, <2>3, <2>4, <3>1
      <4> QED
        BY <1>23, <3>1, <4>1 DEF ToSet
    <3> QED
      BY <3>1
  <2>7. Len(picks) = DigestLimit /\ DigestLimit < place /\ DigestLimit \in DOMAIN picks
    BY <1>16, <1>17, <1>18, <1>19, <2>6
  <2>8. size[at[place]] <= size[at[DigestLimit]]
    BY <1>15, <1>20, <2>7
  <2> QED
    BY <1>20, <2>5, <2>7, <2>8
<1>24. IsInjective(picks)
  BY <1>21 DEF IsInjective
<1> QED
  BY <1>1, <1>10, <1>22, <1>23, <1>24

(* Every stored report is one of its kind, whatever the workers do. *)
THEOREM SummariesSoundCorrect == RptSpec => []SummariesSound
<1>1. RptInit => PayloadsFit
  BY DEF RptInit, PayloadsFit, RptIdle
<1>2. ReportsInv /\ StampsInOrder /\ PayloadsFit /\ [RptNext]_rptVars => PayloadsFit'
  BY PayloadsFitStep DEF ReportsInv, StampsInOrder
<1>3. PayloadsFit => SummariesSound
  <2> SUFFICES ASSUME PayloadsFit PROVE SummariesSound
    OBVIOUS
  <2>1. ASSUME NEW i \in DOMAIN stored, stored[i].kind # Digest,
               NEW r, r = stored[i].payload
        PROVE  IF r.ai_enhanced THEN r.overview = "ai"
               ELSE IF r.overview = "no data" THEN \A s \in ToSet(r.symbols) : ~HasChange(r.market, s)
               ELSE /\ r.overview \in ToSet(r.symbols)
                    /\ \A s \in ToSet(r.symbols) : MoveIn(r, s) <= MoveIn(r, r.overview)
    <3>1. r \in PayloadsOf(stored[i].kind)
      BY <2>1 DEF PayloadsFit
    <3>2. PICK market \in Markets, has \in BOOLEAN, answer \in AiAnswers : r = build_morning_summary(market, has, answer)
      BY <2>1, <3>1 DEF PayloadsOf
    <3> QED
      BY <3>2, MorningTold
  <2>2. ASSUME NEW i \in DOMAIN stored, stored[i].kind = Digest,
               NEW r, r = stored[i].payload
        PROVE  /\ IsInjective(r.symbols)
               /\ \A j \in 2 .. Len(r.symbols) : MoveIn(r, r.symbols[j]) <= MoveIn(r, r.symbols[j - 1])
               /\ \A s \in ToSet(_collect_symbols) :
                   r.market[s] # NoQuote =>
                       (r.market[s].price # Missing /\ s \notin ToSet(r.symbols) =>
                           /\ Len(r.symbols) = DigestLimit
                           /\ MoveIn(r, s) <= MoveIn(r, r.symbols[DigestLimit]))
    <3>1. r \in PayloadsOf(stored[i].kind)
      BY <2>2 DEF PayloadsFit
    <3>2. PICK market \in Markets : r = build_stocks_to_watch(market)
      BY <2>2, <3>1 DEF PayloadsOf
    <3> QED
      BY <3>2, DigestListed
  <2>3. SummaryTold
    BY <2>1 DEF SummaryTold
  <2>4. DigestRanked
    BY <2>2 DEF DigestRanked
  <2> QED
    BY <2>3, <2>4 DEF SummariesSound
<1>4. RptSpec => []PayloadsFit
  BY <1>1, <1>2, ReportsInvCorrect, StampsCorrect, PTL DEF RptSpec
<1> QED
  BY <1>3, <1>4, PTL

-----------------------------------------------------------------------------
(* News                                                                    *)

(* What a source delivers: articles with a url. *)
NewsItems == [url : Urls, tagged : BOOLEAN, published : Int]

(* Min of the community modules is the least element. *)
LEMMA MinChosen ==
    ASSUME NEW S \in SUBSET Nat, S # {}
    PROVE  Min(S) \in S /\ \A n \in S : Min(S) <= n
<1>1. PICK m \in S : \A n \in S : m <= n
  BY LeastNatural
<1> QED
  BY <1>1 DEF Min

(* The link of an element is a url, if it has one. *)
LEMMA LinkOfElement ==
    ASSUME NEW links \in Seq(FeedLinks)
    PROVE  _child_link(links) \in Urls \cup {NoLink}
<1> DEFINE direct == {i \in DOMAIN links : \/ links[i].text # NoLink
                                           \/ links[i].href # NoLink /\ links[i].rel \in {NoLink, "alternate"}}
           others == {i \in DOMAIN links : links[i].href # NoLink}
           Of(i) == IF links[i].text # NoLink THEN links[i].text ELSE links[i].href
<1>1. \A i \in DOMAIN links : i \in Nat /\ links[i].text \in Urls \cup {NoLink} /\ links[i].href \in Urls \cup {NoLink}
  <2> SUFFICES ASSUME NEW i \in DOMAIN links
               PROVE  i \in Nat /\ links[i].text \in Urls \cup {NoLink} /\ links[i].href \in Urls \cup {NoLink}
    OBVIOUS
  <2>1. links[i] \in FeedLinks /\ i \in Nat
    OBVIOUS
  <2> QED
    BY <2>1 DEF FeedLinks
<1>2. direct \in SUBSET Nat /\ others \in SUBSET Nat /\ direct \subseteq DOMAIN links /\ others \subseteq DOMAIN links
  BY <1>1
<1>3. _child_link(links) = IF direct # {} THEN Of(Min(direct)) ELSE IF others # {} THEN links[Min(others)].href ELSE NoLink
  BY DEF _child_link
<1> HIDE DEF direct, others
<1>4. direct # {} => Min(direct) \in DOMAIN links
  BY <1>2, MinChosen
<1>5. others # {} => Min(others) \in DOMAIN links
  BY <1>2, MinChosen
<1> QED
  BY <1>1, <1>3, <1>4, <1>5

(* What is read from a document has a url. *)
LEMMA FeedParsed ==
    ASSUME NEW elements \in Seq(FeedElements), NEW tagged \in BOOLEAN
    PROVE  parse_feed(elements, tagged) \in Seq(NewsItems)
<1> DEFINE spots == {i \in DOMAIN elements :
             elements[i].item /\ elements[i].title /\ _child_link(elements[i].links) # NoLink}
<1>1. PICK kept : kept = AtPlaces(elements, spots)
  OBVIOUS
<1>2. spots \in SUBSET DOMAIN elements /\ \A i \in spots : _child_link(elements[i].links) # NoLink
  OBVIOUS
<1>3. parse_feed(elements, tagged) =
        [i \in DOMAIN kept |-> [url |-> _child_link(kept[i].links), tagged |-> tagged, published |-> kept[i].published]]
  BY <1>1 DEF parse_feed
<1> HIDE DEF spots
<1>4. kept \in Seq(FeedElements) /\ \A k \in DOMAIN kept : \E i \in spots : kept[k] = elements[i]
  BY <1>1, <1>2, PlacesChosen
<1>5. ASSUME NEW k \in DOMAIN kept
      PROVE  [url |-> _child_link(kept[k].links), tagged |-> tagged, published |-> kept[k].published] \in NewsItems
  <2>1. kept[k] \in FeedElements
    BY <1>4
  <2>2. kept[k].links \in Seq(FeedLinks) /\ kept[k].published \in Int
    BY <2>1 DEF FeedElements
  <2>3. _child_link(kept[k].links) \in Urls \cup {NoLink}
    BY <2>2, LinkOfElement
  <2>4. _child_link(kept[k].links) # NoLink
    BY <1>2, <1>4
  <2> QED
    BY <2>2, <2>3, <2>4 DEF NewsItems
<1>6. PICK f : f = [i \in DOMAIN kept |-> [url |-> _child_link(kept[i].links), tagged |-> tagged, published |-> kept[i].published]]
  OBVIOUS
<1>7. DOMAIN kept = 1 .. Len(kept) /\ Len(kept) \in Nat
  BY <1>4
<1>8. f \in [1 .. Len(kept) -> NewsItems]
  BY <1>5, <1>6, <1>7
<1> QED
  BY <1>3, <1>6, <1>7, <1>8, FunctionIsList

(* The new articles of a batch: each url once, none that is stored already, *)
(* none missing.                                                            *)
LEMMA FreshChosen ==
    ASSUME NEW items \in Seq(NewsItems), NEW fresh, fresh = Fresh(items)
    PROVE  /\ fresh \in Seq(NewsItems)
           /\ \A k \in DOMAIN fresh : \E i \in DOMAIN items : fresh[k].url = items[i].url
           /\ \A k \in DOMAIN fresh : \A r \in DOMAIN news : news[r].url # fresh[k].url
           /\ \A j, k \in DOMAIN fresh : fresh[j].url = fresh[k].url => j = k
           /\ \A i \in DOMAIN items : \/ \E r \in DOMAIN news : news[r].url = items[i].url
                                      \/ \E k \in DOMAIN fresh : fresh[k].url = items[i].url
<1> DEFINE Same(i) == {j \in DOMAIN items : items[j].url = items[i].url}
           first == {i \in DOMAIN items : \A j \in 1 .. i - 1 : items[j].url # items[i].url}
<1>0. PICK spots : spots = {i \in first : \A r \in DOMAIN news : news[r].url # items[i].url}
  OBVIOUS
<1>1. DOMAIN items = 1 .. Len(items) /\ Len(items) \in Nat /\ \A i \in DOMAIN items : i \in Nat /\ items[i] \in NewsItems
  OBVIOUS
<1>2. PICK last : last = [i \in DOMAIN items |-> items[Max(Same(i))]]
  OBVIOUS
<1>3. Fresh(items) = AtPlaces(last, spots)
  BY <1>0, <1>2 DEF Fresh
<1>4. ASSUME NEW i \in DOMAIN items
      PROVE  last[i] \in NewsItems /\ last[i].url = items[i].url
  <2>1. Same(i) # {} /\ Same(i) \in SUBSET (1 .. Len(items)) /\ \A j \in Same(i) : j \in DOMAIN items /\ items[j].url = items[i].url
    BY <1>1
  <2>2. last[i] = items[Max(Same(i))]
    BY <1>2
  <2> HIDE DEF Same
  <2>3. Max(Same(i)) \in Same(i)
    BY <1>1, <2>1, MaxGreatest
  <2> QED
    BY <1>1, <2>1, <2>2, <2>3
<1>5. last \in Seq(NewsItems) /\ DOMAIN last = DOMAIN items
  <2>1. last \in [1 .. Len(items) -> NewsItems]
    BY <1>1, <1>2, <1>4
  <2> QED
    BY <1>1, <2>1, FunctionIsList
<1>6. spots \in SUBSET DOMAIN last
  BY <1>0, <1>5
<1>7. \A i \in spots : /\ i \in DOMAIN items
                       /\ \A j \in 1 .. i - 1 : items[j].url # items[i].url
                       /\ \A r \in DOMAIN news : news[r].url # items[i].url
  BY <1>0
<1>8. ASSUME NEW i \in DOMAIN items, \A r \in DOMAIN news : news[r].url # items[i].url
      PROVE  \E m \in spots : items[m].url = items[i].url
  <2>1. Same(i) # {} /\ Same(i) \in SUBSET Nat /\ \A j \in DOMAIN items : j \in Same(i) <=> items[j].url = items[i].url
    BY <1>1
  <2>2. PICK m \in Same(i) : \A j \in Same(i) : m <= j
    <3> HIDE DEF Same
    <3> QED
      BY <2>1, LeastNatural
  <2>3. m \in DOMAIN items /\ items[m].url = items[i].url
    OBVIOUS
  <2>4. ASSUME NEW j \in 1 .. m - 1, items[j].url = items[m].url
        PROVE  FALSE
    <3>1. j \in DOMAIN items /\ j < m /\ m \in Nat /\ j \in Nat
      BY <1>1, <2>3
    <3>2. m <= j
      BY <2>1, <2>2, <2>3, <2>4, <3>1
    <3> QED
      BY <3>1, <3>2
  <2> QED
    BY <1>0, <1>8, <2>3, <2>4
<1> HIDE DEF first, Same
<1>9. fresh = AtPlaces(last, spots)
  BY <1>3
<1>10. fresh \in Seq(NewsItems) /\ \E at : KeptAt(at, fresh, last, spots)
  <2>1. last \in Seq(NewsItems) /\ spots \in SUBSET DOMAIN last
    BY <1>5, <1>6
  <2> QED
    BY <1>9, <2>1, KeptAtPlaces
<1>11. PICK at \in [DOMAIN fresh -> spots] :
         /\ \A k \in DOMAIN at : fresh[k] = last[at[k]]
         /\ \A j, k \in DOMAIN at : j < k => at[j] < at[k]
         /\ \A i \in spots : \E k \in DOMAIN at : at[k] = i
  BY <1>10 DEF KeptAt
<1>12. fresh \in Seq(NewsItems)
  BY <1>10
<1>13. ASSUME NEW k \in DOMAIN fresh
       PROVE  at[k] \in spots /\ at[k] \in DOMAIN items /\ fresh[k].url = items[at[k]].url /\ k \in Nat /\ at[k] \in Nat
  <2>1. at[k] \in spots /\ fresh[k] = last[at[k]]
    BY <1>11
  <2>2. at[k] \in DOMAIN items
    BY <1>7, <2>1
  <2> QED
    BY <1>1, <1>4, <1>12, <2>1, <2>2
<1>14. ASSUME NEW j \in DOMAIN fresh, NEW k \in DOMAIN fresh, fresh[j].url = fresh[k].url, j < k
       PROVE  FALSE
  <2>1. at[j] < at[k]
    BY <1>11, <1>14
  <2>2. at[j] \in 1 .. at[k] - 1
    BY <1>1, <1>13, <2>1
  <2>3. items[at[j]].url # items[at[k]].url
    BY <1>7, <1>13, <2>2
  <2> QED
    BY <1>13, <1>14, <2>3
<1>15. ASSUME NEW j \in DOMAIN fresh, NEW k \in DOMAIN fresh, fresh[j].url = fresh[k].url
       PROVE  j = k
  <2>1. ~(j < k) /\ ~(k < j) /\ j \in Nat /\ k \in Nat
    BY <1>13, <1>14, <1>15
  <2> QED
    BY <2>1
<1>16. \A k \in DOMAIN fresh : \A r \in DOMAIN news : news[r].url # fresh[k].url
  BY <1>7, <1>13
<1>17. ASSUME NEW i \in DOMAIN items, \A r \in DOMAIN news : news[r].url # items[i].url
       PROVE  \E k \in DOMAIN fresh : fresh[k].url = items[i].url
  <2>1. PICK m \in spots : items[m].url = items[i].url
    BY <1>8, <1>17
  <2>2. PICK k \in DOMAIN fresh : at[k] = m
    BY <1>11
  <2> QED
    BY <1>13, <2>1, <2>2
<1> QED
  BY <1>12, <1>13, <1>15, <1>16, <1>17

(* When no two rows have the same url. *)
LEMMA UrlsUnique ==
    ASSUME NEW x
    PROVE  UniqueUrls(x) <=> \A i, j \in DOMAIN x : x[i].url = x[j].url => i = j
  BY DEF UniqueUrls, IsInjective

(* A store keeps what there was and no url twice; if no url of the batch is *)
(* too long, all of the batch is in the table then.                         *)
LEMMA BatchStored ==
    ASSUME news \in Seq(NewsRows), UniqueUrls(news), NEW items \in Seq(NewsItems), NEW later,
           later = IF _store(items) = Raised THEN news ELSE _store(items)
    PROVE  /\ later \in Seq(NewsRows) /\ UniqueUrls(later)
           /\ \A i \in DOMAIN news : i \in DOMAIN later /\ later[i] = news[i]
           /\ (\A i \in DOMAIN items : Cut[items[i].url] = items[i].url) =>
                 \A i \in DOMAIN items : \E r \in DOMAIN later : later[r].url = items[i].url
<1>1. PICK fresh : fresh = Fresh(items)
  OBVIOUS
<1>2. /\ fresh \in Seq(NewsItems)
      /\ \A k \in DOMAIN fresh : \E i \in DOMAIN items : fresh[k].url = items[i].url
      /\ \A k \in DOMAIN fresh : \A r \in DOMAIN news : news[r].url # fresh[k].url
      /\ \A j, k \in DOMAIN fresh : fresh[j].url = fresh[k].url => j = k
      /\ \A i \in DOMAIN items : \/ \E r \in DOMAIN news : news[r].url = items[i].url
                                 \/ \E k \in DOMAIN fresh : fresh[k].url = items[i].url
  BY <1>1, FreshChosen
<1>3. PICK n \in Nat, m \in Nat : n = Len(news) /\ m = Len(fresh)
  BY <1>2
<1>4. DOMAIN news = 1 .. n /\ DOMAIN fresh = 1 .. m
  BY <1>2, <1>3
<1>5. PICK short : short = [i \in DOMAIN fresh |-> [fresh[i] EXCEPT !.url = Cut[fresh[i].url]]]
  OBVIOUS
<1>6. ASSUME NEW k \in 1 .. m
      PROVE  short[k] \in NewsRows /\ short[k].url = Cut[fresh[k].url]
  <2>1. fresh[k] \in NewsItems
    BY <1>2, <1>4
  <2>2. short[k] = [fresh[k] EXCEPT !.url = Cut[fresh[k].url]]
    BY <1>4, <1>5
  <2> QED
    BY <2>1, <2>2 DEF NewsItems, NewsRows
<1>7. short \in Seq(NewsRows) /\ Len(short) = m
  <2>1. short \in [1 .. m -> NewsRows]
    BY <1>4, <1>5, <1>6
  <2> QED
    BY <2>1, FunctionIsList
<1>8. PICK before : before = news
  OBVIOUS
<1>9. PICK both : both = before \o short
  OBVIOUS
<1>10. before \in Seq(NewsRows) /\ Len(before) = n
  BY <1>3, <1>8
<1>11. /\ both \in Seq(NewsRows) /\ DOMAIN both = 1 .. (n + m)
       /\ \A i \in 1 .. n : both[i] = before[i]
       /\ \A i \in 1 .. m : both[n + i] = short[i]
  <2>1. before \in Seq(NewsRows) /\ short \in Seq(NewsRows)
    BY <1>7, <1>10
  <2>2. /\ before \o short \in Seq(NewsRows) /\ DOMAIN (before \o short) = 1 .. (Len(before) + Len(short))
        /\ \A i \in 1 .. Len(before) : (before \o short)[i] = before[i]
        /\ \A i \in 1 .. Len(short) : (before \o short)[Len(before) + i] = short[i]
    BY <2>1, OneBehindOther
  <2> QED
    BY <1>7, <1>9, <1>10, <2>2
<1>12. _store(items) = IF UniqueUrls(both) THEN both ELSE Raised
  BY <1>1, <1>5, <1>8, <1>9 DEF _store
<1>13. both # Raised
  BY <1>11, NewsAssumption
<1>14. later = IF UniqueUrls(both) THEN both ELSE before
  BY <1>8, <1>12, <1>13
<1>15. \A i \in DOMAIN before : i \in DOMAIN both /\ both[i] = before[i]
  BY <1>3, <1>10, <1>11
<1>16. ASSUME \A i \in DOMAIN items : Cut[items[i].url] = items[i].url
       PROVE  /\ UniqueUrls(both)
              /\ \A i \in DOMAIN items : \E r \in DOMAIN both : both[r].url = items[i].url
  <2>1. \A k \in 1 .. m : both[n + k].url = fresh[k].url
    <3> SUFFICES ASSUME NEW k \in 1 .. m PROVE both[n + k].url = fresh[k].url
      OBVIOUS
    <3>1. PICK i \in DOMAIN items : fresh[k].url = items[i].url
      BY <1>2, <1>4
    <3>2. Cut[fresh[k].url] = fresh[k].url
      BY <1>16, <3>1
    <3> QED
      BY <1>6, <1>11, <3>2
  <2>2. \A i \in 1 .. n : both[i].url = news[i].url
    BY <1>8, <1>11
  <2>3. ASSUME NEW i \in 1 .. n + m, NEW j \in 1 .. n + m, both[i].url = both[j].url
        PROVE  i = j
    <3>1. (i \in 1 .. n \/ (i - n \in 1 .. m /\ i = n + (i - n))) /\ (j \in 1 .. n \/ (j - n \in 1 .. m /\ j = n + (j - n)))
      BY <1>3
    <3>2. \A r, s \in 1 .. n : news[r].url = news[s].url => r = s
      BY <1>4, UrlsUnique
    <3>3. \A r \in 1 .. n, k \in 1 .. m : news[r].url # fresh[k].url
      BY <1>2, <1>4
    <3>4. CASE i \in 1 .. n /\ j \in 1 .. n
      BY <2>2, <2>3, <3>2, <3>4
    <3>5. CASE i \in 1 .. n /\ j - n \in 1 .. m /\ j = n + (j - n)
      <4>1. PICK k \in 1 .. m : j = n + k
        BY <3>5
      <4> QED
        BY <2>1, <2>2, <2>3, <3>3, <3>5, <4>1
    <3>6. CASE j \in 1 .. n /\ i - n \in 1 .. m /\ i = n + (i - n)
      <4>1. PICK k \in 1 .. m : i = n + k
        BY <3>6
      <4> QED
        BY <2>1, <2>2, <2>3, <3>3, <3>6, <4>1
    <3>7. CASE i - n \in 1 .. m /\ i = n + (i - n) /\ j - n \in 1 .. m /\ j = n + (j - n)
      <4>1. PICK k \in 1 .. m : i = n + k
        BY <3>7
      <4>2. PICK l \in 1 .. m : j = n + l
        BY <3>7
      <4>3. fresh[k].url = fresh[l].url
        BY <2>1, <2>3, <4>1, <4>2
      <4> QED
        BY <1>2, <1>4, <4>1, <4>2, <4>3
    <3> QED
      BY <3>1, <3>4, <3>5, <3>6, <3>7
  <2>4. UniqueUrls(both)
    BY <1>11, <2>3, UrlsUnique
  <2>5. ASSUME NEW i \in DOMAIN items
        PROVE  \E r \in DOMAIN both : both[r].url = items[i].url
    <3>1. CASE \E r \in DOMAIN news : news[r].url = items[i].url
      <4>1. PICK r \in 1 .. n : news[r].url = items[i].url
        BY <1>4, <3>1
      <4>2. r \in DOMAIN both /\ both[r].url = items[i].url
        BY <1>3, <1>11, <2>2, <4>1
      <4> QED
        BY <4>2
    <3>2. CASE \E k \in DOMAIN fresh : fresh[k].url = items[i].url
      <4>1. PICK k \in 1 .. m : fresh[k].url = items[i].url
        BY <1>4, <3>2
      <4>2. n + k \in DOMAIN both /\ both[n + k].url = items[i].url
        BY <1>3, <1>11, <2>1, <4>1
      <4> QED
        BY <4>2
    <3> QED
      BY <1>2, <3>1, <3>2
  <2> QED
    BY <2>4, <2>5
<1>17. UniqueUrls(before)
  BY <1>8
<1>18. later = both \/ later = before
  BY <1>14
<1>19. later \in Seq(NewsRows)
  BY <1>10, <1>11, <1>18
<1>20. UniqueUrls(later)
  BY <1>14, <1>17
<1>21. \A i \in DOMAIN before : i \in DOMAIN later /\ later[i] = before[i]
  BY <1>15, <1>18
<1>22. (\A i \in DOMAIN items : Cut[items[i].url] = items[i].url) =>
         \A i \in DOMAIN items : \E r \in DOMAIN later : later[r].url = items[i].url
  BY <1>14, <1>16
<1> QED
  BY <1>8, <1>19, <1>20, <1>21, <1>22

(* A list of what the sources that answered have delivered. *)
HoldsAll(items, results) ==
    /\ items \in Seq(NewsItems)
    /\ \A k \in DOMAIN items : \E s \in DOMAIN results :
          results[s] # Raised /\ items[k] \in ToSet(parse_feed(results[s], FALSE))
    /\ \A s \in DOMAIN results : results[s] # Raised =>
          \A it \in ToSet(parse_feed(results[s], FALSE)) : \E k \in DOMAIN items : items[k] = it

(* A refresh gathers all of it. *)
LEMMA AllGathered ==
    ASSUME NEW results, DOMAIN results = DOMAIN Feeds,
           \A s \in DOMAIN Feeds : results[s] \in Feeds[s] \cup {Raised},
           NEW items, items = Gathered(results)
    PROVE  HoldsAll(items, results)
<1>1. PICK parts : parts = [s \in DOMAIN results |-> IF results[s] = Raised THEN <<>> ELSE parse_feed(results[s], FALSE)]
  OBVIOUS
<1>2. items = Concat(parts)
  BY <1>1 DEF Gathered
<1>3. Feeds \in Seq(SUBSET Seq(FeedElements))
  BY NewsAssumption
<1>4. DOMAIN Feeds = 1 .. Len(Feeds) /\ Len(Feeds) \in Nat /\ \A s \in DOMAIN Feeds : Feeds[s] \subseteq Seq(FeedElements)
  BY <1>3
<1>5. ASSUME NEW s \in DOMAIN results
      PROVE  parts[s] \in Seq(NewsItems)
  <2>1. CASE results[s] = Raised
    BY <1>1, <2>1
  <2>2. CASE results[s] # Raised
    <3>1. results[s] \in Seq(FeedElements)
      BY <1>4, <2>2
    <3>2. parse_feed(results[s], FALSE) \in Seq(NewsItems)
      BY <3>1, FeedParsed
    <3> QED
      BY <1>1, <2>2, <3>2
  <2> QED
    BY <2>1, <2>2
<1>6. parts \in Seq(Seq(NewsItems)) /\ DOMAIN parts = DOMAIN results
  <2>1. parts \in [1 .. Len(Feeds) -> Seq(NewsItems)]
    BY <1>1, <1>4, <1>5
  <2> QED
    BY <1>1, <1>4, <2>1, FunctionIsList
<1>7. PICK whole : whole = Concat(parts)
  OBVIOUS
<1>8. /\ whole \in Seq(NewsItems)
      /\ \A k \in DOMAIN whole : \E s \in DOMAIN parts : \E j \in DOMAIN parts[s] : whole[k] = parts[s][j]
      /\ \A s \in DOMAIN parts : \A j \in DOMAIN parts[s] : \E k \in DOMAIN whole : whole[k] = parts[s][j]
  BY <1>6, <1>7, ConcatHolds
<1>9. whole = items
  BY <1>2, <1>7
<1>10. ASSUME NEW k \in DOMAIN whole
       PROVE  \E s \in DOMAIN results : results[s] # Raised /\ whole[k] \in ToSet(parse_feed(results[s], FALSE))
  <2>1. PICK s \in DOMAIN parts : \E j \in DOMAIN parts[s] : whole[k] = parts[s][j]
    BY <1>8
  <2>2. PICK j \in DOMAIN parts[s] : whole[k] = parts[s][j]
    BY <2>1
  <2>3. s \in DOMAIN results /\ parts[s] = IF results[s] = Raised THEN <<>> ELSE parse_feed(results[s], FALSE)
    BY <1>1, <1>6
  <2>4. results[s] # Raised
    <3>1. DOMAIN <<>> = {}
      OBVIOUS
    <3> QED
      BY <2>3, <3>1
  <2>5. whole[k] \in ToSet(parts[s])
    BY <2>2 DEF ToSet
  <2> QED
    BY <2>3, <2>4, <2>5
<1>11. ASSUME NEW s \in DOMAIN results, results[s] # Raised, NEW it \in ToSet(parse_feed(results[s], FALSE))
       PROVE  \E k \in DOMAIN whole : whole[k] = it
  <2>1. parts[s] = parse_feed(results[s], FALSE)
    BY <1>1, <1>11
  <2>2. PICK j \in DOMAIN parts[s] : it = parts[s][j]
    BY <2>1 DEF ToSet
  <2> QED
    BY <1>6, <1>8, <2>2
<1> QED
  BY <1>8, <1>9, <1>10, <1>11 DEF HoldsAll

(* What is stored stays stored, with a url that no other article has; so    *)
(* does every article that was delivered in a batch that could be stored.   *)
NewsKept ==
    /\ news \in Seq(NewsRows)
    /\ UniqueUrls(news)
    /\ DeliveredStored

(* A store adds to the table, and loses none of what was delivered. *)
LEMMA NewsStoreKeeps ==
    ASSUME NewsKept, NEW items \in Seq(NewsItems), Store(items)
    PROVE  /\ news' \in Seq(NewsRows) /\ UniqueUrls(news')
           /\ \A u \in delivered : \E i \in DOMAIN news' : news'[i].url = u
           /\ (\A i \in DOMAIN items : Cut[items[i].url] = items[i].url) =>
                 \A i \in DOMAIN items : \E r \in DOMAIN news' : news'[r].url = items[i].url
<1>1. news \in Seq(NewsRows) /\ UniqueUrls(news) /\ \A u \in delivered : \E i \in DOMAIN news : news[i].url = u
  BY DEF NewsKept, DeliveredStored
<1>2. PICK later : later = IF _store(items) = Raised THEN news ELSE _store(items)
  OBVIOUS
<1>3. news' = later
  BY <1>2 DEF Store
<1>4. /\ later \in Seq(NewsRows) /\ UniqueUrls(later)
      /\ \A i \in DOMAIN news : i \in DOMAIN later /\ later[i] = news[i]
      /\ (\A i \in DOMAIN items : Cut[items[i].url] = items[i].url) =>
            \A i \in DOMAIN items : \E r \in DOMAIN later : later[r].url = items[i].url
  BY <1>1, <1>2, BatchStored
<1>5. \A u \in delivered : \E i \in DOMAIN later : later[i].url = u
  BY <1>1, <1>4
<1> QED
  BY <1>3, <1>4, <1>5

(* Every step keeps that. *)
LEMMA NewsKeptStep == NewsKept /\ [NewsNext]_newsVars => NewsKept'
<1> SUFFICES ASSUME NewsKept, [NewsNext]_newsVars PROVE NewsKept'
  OBVIOUS
<1>1. ASSUME Refresh
      PROVE  NewsKept'
  <2>1. PICK results \in [DOMAIN Feeds -> UNION {Feeds[s] : s \in DOMAIN Feeds} \cup {Raised}] :
          /\ \A s \in DOMAIN Feeds : results[s] \in Feeds[s] \cup {Raised}
          /\ Store(Gathered(results))
          /\ LET urls == {it.url : it \in UNION {ToSet(parse_feed(results[s], FALSE)) :
                                                 s \in {t \in DOMAIN results : results[t] # Raised}}}
             IN  delivered' = IF \A u \in urls : Cut[u] = u THEN delivered \cup urls ELSE delivered
    BY <1>1 DEF Refresh
  <2>2. PICK items : items = Gathered(results)
    OBVIOUS
  <2>3. PICK urls : urls = {it.url : it \in UNION {ToSet(parse_feed(results[s], FALSE)) :
                                                   s \in {t \in DOMAIN results : results[t] # Raised}}}
    OBVIOUS
  <2>4. /\ items \in Seq(NewsItems)
        /\ \A k \in DOMAIN items : \E s \in DOMAIN results :
              results[s] # Raised /\ items[k] \in ToSet(parse_feed(results[s], FALSE))
        /\ \A s \in DOMAIN results : results[s] # Raised =>
              \A it \in ToSet(parse_feed(results[s], FALSE)) : \E k \in DOMAIN items : items[k] = it
    <3>1. DOMAIN results = DOMAIN Feeds /\ \A s \in DOMAIN Feeds : results[s] \in Feeds[s] \cup {Raised}
      BY <2>1
    <3>2. HoldsAll(items, results)
      BY <2>2, <3>1, AllGathered
    <3> QED
      BY <3>2 DEF HoldsAll
  <2>5. \A k \in DOMAIN items : items[k].url \in urls
    BY <2>3, <2>4
  <2>6. ASSUME NEW u \in urls
        PROVE  \E k \in DOMAIN items : items[k].url = u
    <3>1. PICK s \in DOMAIN results : results[s] # Raised /\ \E it \in ToSet(parse_feed(results[s], FALSE)) : u = it.url
      BY <2>3
    <3>2. PICK it \in ToSet(parse_feed(results[s], FALSE)) : u = it.url
      BY <3>1
    <3>3. PICK k \in DOMAIN items : items[k] = it
      BY <2>4, <3>1
    <3> QED
      BY <3>2, <3>3
  <2>7. Store(items)
    BY <2>1, <2>2
  <2>8. /\ news' \in Seq(NewsRows) /\ UniqueUrls(news')
        /\ \A u \in delivered : \E i \in DOMAIN news' : news'[i].url = u
        /\ (\A i \in DOMAIN items : Cut[items[i].url] = items[i].url) =>
              \A i \in DOMAIN items : \E r \in DOMAIN news' : news'[r].url = items[i].url
    BY <2>4, <2>7, NewsStoreKeeps
  <2>9. delivered' = IF \A u \in urls : Cut[u] = u THEN delivered \cup urls ELSE delivered
    BY <2>1, <2>3
  <2>10. (\A u \in urls : Cut[u] = u) => \A u \in urls : \E i \in DOMAIN news' : news'[i].url = u
    BY <2>5, <2>6, <2>8
  <2>11. DeliveredStored'
    BY <2>8, <2>9, <2>10 DEF DeliveredStored
  <2> QED
    BY <2>8, <2>11 DEF NewsKept, UniqueUrls
<1>2. ASSUME NEW elements \in SymbolFeed \cup {<<>>}, Store(parse_feed(elements, TRUE)), UNCHANGED delivered
      PROVE  NewsKept'
  <2>1. elements \in Seq(FeedElements)
    <3>1. SymbolFeed \in SUBSET Seq(FeedElements)
      BY NewsAssumption
    <3>2. CASE elements \in SymbolFeed
      BY <3>1, <3>2
    <3>3. CASE elements = <<>>
      BY <3>3
    <3> QED
      BY <3>2, <3>3
  <2>2. PICK items : items = parse_feed(elements, TRUE)
    OBVIOUS
  <2>3. items \in Seq(NewsItems)
    BY <2>1, <2>2, FeedParsed
  <2>4. Store(items)
    BY <1>2, <2>2
  <2>5. /\ news' \in Seq(NewsRows) /\ UniqueUrls(news')
        /\ \A u \in delivered : \E i \in DOMAIN news' : news'[i].url = u
    BY <2>3, <2>4, NewsStoreKeeps
  <2>6. DeliveredStored'
    BY <1>2, <2>5 DEF DeliveredStored
  <2> QED
    BY <2>5, <2>6 DEF NewsKept, UniqueUrls
<1>3. ASSUME ReadArticles \/ ListArticles
      PROVE  NewsKept'
  <2>1. PICK elements \in SymbolFeed \cup {<<>>} : Store(parse_feed(elements, TRUE)) /\ UNCHANGED delivered
    BY <1>3 DEF ReadArticles, ListArticles
  <2> QED
    BY <1>2, <2>1
<1>4. ASSUME UNCHANGED <<news, delivered>>
      PROVE  NewsKept'
  BY <1>4 DEF NewsKept, DeliveredStored, UniqueUrls
<1> QED
  BY <1>1, <1>3, <1>4 DEF NewsNext, newsVars, AskAi

(* Every article of a batch that could be stored is stored, and stays: a     *)
(* source that fails costs the others nothing (refresh and _store).         *)
THEOREM DeliveredStoredCorrect == NewsSpec => []DeliveredStored
<1>1. NewsInit => NewsKept
  BY DEF NewsInit, NewsKept, DeliveredStored, UniqueUrls, IsInjective
<1>2. NewsKept => DeliveredStored
  BY DEF NewsKept
<1> QED
  BY <1>1, <1>2, NewsKeptStep, PTL DEF NewsSpec

-----------------------------------------------------------------------------
(* What the commentator reports                                            *)

(* The articles of a symbol are rows of the table, the newest first. *)
LEMMA ArticlesRead ==
    ASSUME NEW x \in Seq(NewsRows), NEW items
    PROVE  SymbolArticles(x, items) \in Seq(Nat)
<1>1. PICK ids : ids = {i \in DOMAIN x : IF items = <<>> THEN x[i].tagged
                                         ELSE \E k \in DOMAIN items : items[k].url = x[i].url}
  OBVIOUS
<1>2. PICK newer : newer = {pair \in ids \X ids :
                              \/ x[pair[1]].published > x[pair[2]].published
                              \/ x[pair[1]].published = x[pair[2]].published /\ pair[1] > pair[2]}
  OBVIOUS
<1>3. PICK sorted : sorted = InOrder(ids, newer)
  OBVIOUS
<1>4. SymbolArticles(x, items) = Upto(NewsLimit, sorted)
  BY <1>1, <1>2, <1>3 DEF SymbolArticles, Newest
<1>5. Len(x) \in Nat /\ DOMAIN x = 1 .. Len(x) /\ ids \subseteq 1 .. Len(x)
  BY <1>1
<1>6. IsFiniteSet(ids)
  <2>1. IsFiniteSet(1 .. Len(x))
    BY <1>5, FS_Interval
  <2> QED
    BY <1>5, <2>1, FS_Subset
<1>7. \A i \in ids : i \in Nat /\ x[i].published \in Int
  <2> SUFFICES ASSUME NEW i \in ids PROVE i \in Nat /\ x[i].published \in Int
    OBVIOUS
  <2>1. x[i] \in NewsRows /\ i \in Nat
    BY <1>5
  <2> QED
    BY <2>1 DEF NewsRows
<1>8. \A i, j \in ids : <<i, j>> \in newer <=> \/ x[i].published > x[j].published
                                               \/ x[i].published = x[j].published /\ i > j
  BY <1>2
<1>9. IsOrderOf(newer, ids)
  <2>1. \A i \in ids : <<i, i>> \notin newer
    BY <1>7, <1>8
  <2>2. ASSUME NEW i \in ids, NEW j \in ids, NEW k \in ids, <<i, j>> \in newer, <<j, k>> \in newer
        PROVE  <<i, k>> \in newer
    <3>1. /\ x[i].published \in Int /\ x[j].published \in Int /\ x[k].published \in Int
          /\ i \in Nat /\ j \in Nat /\ k \in Nat
      BY <1>7
    <3>2. /\ x[i].published > x[j].published \/ (x[i].published = x[j].published /\ i > j)
          /\ x[j].published > x[k].published \/ (x[j].published = x[k].published /\ j > k)
      BY <1>8, <2>2
    <3>3. x[i].published > x[k].published \/ (x[i].published = x[k].published /\ i > k)
      BY <3>1, <3>2
    <3> QED
      BY <1>8, <3>3
  <2> QED
    BY <2>1, <2>2 DEF IsOrderOf
<1>10. sorted \in Seq(ids)
  BY <1>3, <1>6, <1>9, InOrderListed
<1>11. sorted \in Seq(Nat)
  <2>1. DOMAIN sorted = 1 .. Len(sorted) /\ Len(sorted) \in Nat /\ sorted = [k \in 1 .. Len(sorted) |-> sorted[k]]
    BY <1>10
  <2>2. \A k \in DOMAIN sorted : sorted[k] \in Nat
    BY <1>7, <1>10
  <2>3. sorted \in [1 .. Len(sorted) -> Nat]
    BY <2>1, <2>2
  <2> QED
    BY <2>1, <2>3, FunctionIsList
<1>12. NewsLimit \in Nat
  BY NewsAssumption
<1> QED
  BY <1>4, <1>11, <1>12, UptoKept

(* A verdict, or none, is on the article with a number of the list. *)
IsOn(about, listed, article) == about # NoLink => about + 1 \in DOMAIN listed /\ listed[about + 1] = article

(* Opinions that say of articles what the AI said of them in its reply. *)
OpinionsFit(opinions, articles, listed, reply) ==
    \A i \in DOMAIN opinions :
          /\ opinions[i].article \in ToSet(articles)
          /\ ~ Misplaced(reply) => IsOn(opinions[i].about, listed, opinions[i].article)
          /\ opinions[i].rating \in 1 .. 5

(* Without an answer of the AI every opinion is neutral. *)
LEMMA NeutralFits ==
    ASSUME NEW articles \in Seq(Nat), NEW listed, NEW reply
    PROVE  OpinionsFit(_neutral_opinions(articles), articles, listed, reply)
<1>1. PICK n : n = Min({Len(articles), 8})
  OBVIOUS
<1>2. n \in Nat /\ n <= Len(articles)
  <2>1. {Len(articles), 8} \in SUBSET Nat /\ {Len(articles), 8} # {}
    OBVIOUS
  <2> QED
    BY <1>1, <2>1, MinChosen
<1>3. PICK opinions : opinions = [i \in 1 .. n |->
        [article |-> articles[i], about |-> NoLink, sentiment |-> "neutral", rating |-> 2]]
  OBVIOUS
<1>4. opinions = _neutral_opinions(articles)
  BY <1>1, <1>3 DEF _neutral_opinions
<1>5. ASSUME NEW i \in DOMAIN opinions
      PROVE  /\ opinions[i].article \in ToSet(articles)
             /\ opinions[i].about = NoLink
             /\ opinions[i].rating \in 1 .. 5
  <2>1. i \in DOMAIN articles
    BY <1>2, <1>3
  <2> QED
    BY <1>3, <2>1 DEF ToSet
<1> QED
  BY <1>4, <1>5 DEF OpinionsFit, IsOn

(* Verdicts that are about the article of their index or of their place. *)
AboutTheirOwn(verdicts) ==
    \A k \in DOMAIN verdicts :
        verdicts[k].index # NotANumber =>
            verdicts[k].about = IF verdicts[k].index = NoLink THEN k - 1 ELSE verdicts[k].index

(* The objects of an answer are verdicts.  Those of an answer without a      *)
(* misplaced object are about their own articles: one that has no index has *)
(* no gap before it, and keeps its place.                                   *)
LEMMA VerdictsParsed ==
    ASSUME NEW reply \in AiReplies \cup {Unparsable},
           NEW verdicts, verdicts = _parse_json_array(reply)
    PROVE  /\ verdicts \in Seq(AiVerdicts)
           /\ ~ Misplaced(reply) => AboutTheirOwn(verdicts)
<1>1. CASE reply = Unparsable
  BY <1>1 DEF _parse_json_array, AboutTheirOwn
<1>2. CASE reply # Unparsable
  <2> DEFINE objects == {k \in DOMAIN reply : reply[k] # NotAnObject}
  <2>1. PICK spots : spots = objects
    OBVIOUS
  <2>2. PICK S : S = AiVerdicts \cup {NotAnObject}
    OBVIOUS
  <2>3. reply \in Seq(S)
    BY <1>2, <2>2, NewsAssumption
  <2>4. verdicts = AtPlaces(reply, spots)
    BY <1>2, <2>1 DEF _parse_json_array
  <2>5. spots \in SUBSET DOMAIN reply /\ \A i \in spots : reply[i] # NotAnObject
    BY <2>1
  <2>6. verdicts \in Seq(S) /\ \A k \in DOMAIN verdicts : \E i \in spots : verdicts[k] = reply[i]
    BY <2>3, <2>4, <2>5, PlacesChosen
  <2>7. \A k \in DOMAIN verdicts : verdicts[k] \in AiVerdicts
    <3> SUFFICES ASSUME NEW k \in DOMAIN verdicts PROVE verdicts[k] \in AiVerdicts
      OBVIOUS
    <3>1. verdicts[k] \in S /\ verdicts[k] # NotAnObject
      BY <2>5, <2>6
    <3> QED
      BY <2>2, <3>1
  <2>8. verdicts \in Seq(AiVerdicts)
    <3>1. DOMAIN verdicts = 1 .. Len(verdicts) /\ Len(verdicts) \in Nat /\ verdicts = [k \in 1 .. Len(verdicts) |-> verdicts[k]]
      BY <2>6
    <3>2. verdicts \in [1 .. Len(verdicts) -> AiVerdicts]
      BY <2>7, <3>1
    <3> QED
      BY <3>1, <3>2, FunctionIsList
  <2>9. reply \in AiReplies
    BY <1>2
  <2>10. reply # Raised
    <3>1. Raised \notin AiReplies
      BY NewsAssumption
    <3> QED
      BY <2>9, <3>1
  <2>11. PICK at : KeptAt(at, verdicts, reply, spots)
    BY <2>3, <2>4, <2>5, KeptAtPlaces
  <2>12. ASSUME ~ Misplaced(reply), NEW k \in DOMAIN verdicts, verdicts[k].index # NotANumber
         PROVE  verdicts[k].about = IF verdicts[k].index = NoLink THEN k - 1 ELSE verdicts[k].index
    <3>1. at[k] \in DOMAIN reply /\ verdicts[k] = reply[at[k]] /\ reply[at[k]] # NotAnObject
      BY <2>5, <2>11 DEF KeptAt
    <3>2. verdicts[k].about = IF verdicts[k].index = NoLink THEN at[k] - 1 ELSE verdicts[k].index
      BY <2>9, <2>12, <3>1, NewsAssumption
    <3>3. ASSUME verdicts[k].index = NoLink
          PROVE  at[k] = k
      <4>1. \A j \in 1 .. at[k] - 1 : reply[j] # NotAnObject
        BY <1>2, <2>10, <2>12, <3>1, <3>3 DEF Misplaced
      <4>2. DOMAIN reply = 1 .. Len(reply) /\ Len(reply) \in Nat /\ at[k] \in Nat
        BY <2>3, <3>1
      <4>3. 1 .. at[k] \subseteq spots
        <5> SUFFICES ASSUME NEW j \in 1 .. at[k] PROVE j \in spots
          OBVIOUS
        <5>1. j \in DOMAIN reply /\ reply[j] # NotAnObject
          BY <3>1, <4>1, <4>2
        <5> QED
          BY <2>1, <5>1
      <4>4. spots \in SUBSET (Nat \ {0})
        BY <2>5, <4>2
      <4>5. PICK n \in Nat : DOMAIN verdicts = 1 .. n
        BY <2>8
      <4>6. NoGap(at[k], spots)
        BY <4>3, <4>4 DEF NoGap
      <4> HIDE DEF objects
      <4> QED
        BY <2>11, <4>5, <4>6, KeptInPlace
    <3> QED
      BY <3>2, <3>3
  <2> QED
    BY <2>8, <2>12 DEF AboutTheirOwn
<1> QED
  BY <1>1, <1>2

(* Whatever the AI gives as a rating becomes one from 1 to 5, or raises. *)
LEMMA RatingCoerced ==
    ASSUME NEW value \in Int \cup {NotANumber, Infinite}, _coerce_rating(value) # Raised
    PROVE  _coerce_rating(value) \in 1 .. 5
<1>1. CASE value = NotANumber \/ value = Infinite
  BY <1>1 DEF _coerce_rating
<1>2. CASE value \in Int /\ value # NotANumber /\ value # Infinite
  BY <1>2 DEF _coerce_rating
<1> QED
  BY <1>1, <1>2

(* The verdict of an article is about that article. *)
LEMMA VerdictChosen ==
    ASSUME NEW verdicts \in Seq(AiVerdicts), NEW i \in Nat,
           \A k \in DOMAIN verdicts : verdicts[k].index # NotANumber,
           NEW v, v = VerdictOf(verdicts, i)
    PROVE  /\ v.rating \in Int \cup {NotANumber, Infinite}
           /\ AboutTheirOwn(verdicts) => v.about = NoLink \/ v.about = i
<1>1. PICK at : at = {k \in DOMAIN verdicts : (IF verdicts[k].index = NoLink THEN k - 1 ELSE verdicts[k].index) = i}
  OBVIOUS
<1>2. v = IF at = {} THEN NoVerdict ELSE verdicts[Max(at)]
  BY <1>1 DEF VerdictOf
<1>3. CASE at = {}
  BY <1>2, <1>3 DEF NoVerdict
<1>4. CASE at # {}
  <2>1. at \in SUBSET (1 .. Len(verdicts)) /\ Len(verdicts) \in Nat
    BY <1>1
  <2>2. Max(at) \in at
    BY <1>4, <2>1, MaxGreatest
  <2>3. PICK m \in DOMAIN verdicts : m = Max(at)
    BY <1>1, <2>2
  <2>4. v = verdicts[m] /\ (AboutTheirOwn(verdicts) => verdicts[m].about = i)
    BY <1>1, <1>2, <1>4, <2>2, <2>3 DEF AboutTheirOwn
  <2>5. verdicts[m] \in AiVerdicts
    OBVIOUS
  <2>6. v.rating \in Int \cup {NotANumber, Infinite}
    BY <2>4, <2>5 DEF AiVerdicts
  <2> QED
    BY <2>4, <2>6
<1> QED
  BY <1>3, <1>4

(* Every article gets a verdict of its own, with a rating in range, unless  *)
(* the whole answer is dropped.                                             *)
LEMMA ArticlesJudged ==
    ASSUME NEW listed \in Seq(Nat), NEW reply \in AiReplies \cup {Unparsable},
           NEW judged, judged = classify_news(listed, reply), judged # Raised
    PROVE  /\ DOMAIN judged = DOMAIN listed
           /\ \A k \in DOMAIN judged :
                 /\ judged[k].article = listed[k]
                 /\ ~ Misplaced(reply) => judged[k].about = NoLink \/ judged[k].about = k - 1
                 /\ judged[k].rating \in 1 .. 5
<1>1. PICK verdicts : verdicts = _parse_json_array(reply)
  OBVIOUS
<1>2. verdicts \in Seq(AiVerdicts) /\ (~ Misplaced(reply) => AboutTheirOwn(verdicts))
  BY <1>1, VerdictsParsed
<1>3. PICK out : out = [i \in DOMAIN listed |->
                  LET v == VerdictOf(verdicts, i - 1)
                  IN  [article |-> listed[i], about |-> v.about,
                       sentiment |-> _coerce_sentiment(v.sentiment), rating |-> _coerce_rating(v.rating)]]
  OBVIOUS
<1>4. classify_news(listed, reply) =
        IF (\E k \in DOMAIN verdicts : verdicts[k].index = NotANumber) \/ \E i \in DOMAIN out : out[i].rating = Raised
        THEN Raised ELSE out
  BY <1>1, <1>3 DEF classify_news
<1>5. /\ judged = out /\ \A i \in DOMAIN out : out[i].rating # Raised
      /\ \A k \in DOMAIN verdicts : verdicts[k].index # NotANumber
  BY <1>4
<1>6. DOMAIN out = DOMAIN listed
  BY <1>3
<1>7. ASSUME NEW k \in DOMAIN out
      PROVE  /\ out[k].article = listed[k]
             /\ ~ Misplaced(reply) => out[k].about = NoLink \/ out[k].about = k - 1
             /\ out[k].rating \in 1 .. 5
  <2>1. PICK v : v = VerdictOf(verdicts, k - 1)
    OBVIOUS
  <2>2. out[k] = [article |-> listed[k], about |-> v.about,
                  sentiment |-> _coerce_sentiment(v.sentiment), rating |-> _coerce_rating(v.rating)]
    BY <1>3, <1>6, <2>1
  <2>3. k - 1 \in Nat
    BY <1>6
  <2>4. /\ v.rating \in Int \cup {NotANumber, Infinite}
        /\ ~ Misplaced(reply) => v.about = NoLink \/ v.about = k - 1
    BY <1>2, <1>5, <2>1, <2>3, VerdictChosen
  <2>5. _coerce_rating(v.rating) # Raised
    BY <1>5, <2>2
  <2>6. _coerce_rating(v.rating) \in 1 .. 5
    BY <2>4, <2>5, RatingCoerced
  <2> QED
    BY <2>2, <2>4, <2>6
<1> QED
  BY <1>5, <1>6, <1>7

(* Merging gives an article the verdict on that article. *)
LEMMA MergedFits ==
    ASSUME NEW articles \in Seq(Nat), NEW listed \in Seq(Nat), NEW reply, NEW judged, DOMAIN judged = DOMAIN listed,
           \A k \in DOMAIN judged :
              /\ judged[k].article = listed[k]
              /\ ~ Misplaced(reply) => judged[k].about = NoLink \/ judged[k].about = k - 1
              /\ judged[k].rating \in 1 .. 5
    PROVE  OpinionsFit(_merge_opinions(articles, judged), articles, listed, reply)
<1>1. PICK spots : spots = {i \in DOMAIN articles : \E k \in DOMAIN judged : judged[k].article = articles[i]}
  OBVIOUS
<1>2. PICK kept : kept = AtPlaces(articles, spots)
  OBVIOUS
<1>3. PICK opinions : opinions = [i \in DOMAIN kept |-> judged[CHOOSE k \in DOMAIN judged : judged[k].article = kept[i]]]
  OBVIOUS
<1>4. _merge_opinions(articles, judged) = opinions
  BY <1>1, <1>2, <1>3 DEF _merge_opinions
<1>5. /\ spots \in SUBSET DOMAIN articles
      /\ \A i \in spots : \E k \in DOMAIN judged : judged[k].article = articles[i]
  BY <1>1
<1>6. kept \in Seq(Nat) /\ \E at : KeptAt(at, kept, articles, spots)
  BY <1>2, <1>5, KeptAtPlaces
<1>7. PICK at : KeptAt(at, kept, articles, spots)
  BY <1>6
<1>8. ASSUME NEW i \in DOMAIN kept
      PROVE  /\ kept[i] \in ToSet(articles)
             /\ \E k \in DOMAIN judged : judged[k].article = kept[i]
  <2>1. at[i] \in spots /\ kept[i] = articles[at[i]]
    BY <1>7 DEF KeptAt
  <2> QED
    BY <1>5, <2>1 DEF ToSet
<1>9. ASSUME NEW i \in DOMAIN opinions
      PROVE  /\ opinions[i].article \in ToSet(articles)
             /\ ~ Misplaced(reply) => IsOn(opinions[i].about, listed, opinions[i].article)
             /\ opinions[i].rating \in 1 .. 5
  <2>1. PICK k \in DOMAIN judged : judged[k].article = kept[i] /\ opinions[i] = judged[k]
    BY <1>3, <1>8
  <2>2. kept[i] \in ToSet(articles)
    BY <1>3, <1>8
  <2>3. k \in DOMAIN listed /\ (k - 1) + 1 = k
    <3>1. k \in DOMAIN listed
      OBVIOUS
    <3> QED
      BY <3>1
  <2> QED
    BY <2>1, <2>2, <2>3 DEF IsOn
<1> QED
  BY <1>4, <1>9 DEF OpinionsFit

Desks == [pc : {"idle", "list", "ask"}, articles : Seq(Nat), listed : Seq(Nat)]

(* The lists of a request are lists of ids, and what it answered fits what  *)
(* it was built from.                                                       *)
DeskFits ==
    /\ desk \in Desks
    /\ OpinionsFit(report.opinions, report.articles, report.listed, report.reply)

(* So it stays, whatever is stored and answered meanwhile. *)
LEMMA DeskStep == NewsKept /\ DeskFits /\ [NewsNext]_newsVars => DeskFits'
<1> SUFFICES ASSUME NewsKept, DeskFits, [NewsNext]_newsVars PROVE DeskFits'
  OBVIOUS
<1>1. news' \in Seq(NewsRows)
  BY NewsKeptStep DEF NewsKept
<1>2. desk \in Desks
  BY DEF DeskFits
<1>3. Quiet \in Desks
  BY DEF Quiet, Desks
<1>4. ASSUME desk' \in Desks, UNCHANGED report
      PROVE  DeskFits'
  BY <1>4 DEF DeskFits, OpinionsFit
<1>5. ASSUME NEW articles \in Seq(Nat), NEW listed, NEW reply, NEW opinions, OpinionsFit(opinions, articles, listed, reply),
             Answer(articles, listed, reply, opinions)
      PROVE  DeskFits'
  <2>1. report'.opinions = opinions /\ report'.articles = articles /\ report'.listed = listed /\ report'.reply = reply /\ desk' = Quiet
    BY <1>5 DEF Answer
  <2>2. OpinionsFit(opinions, articles, listed, reply)'
    BY <1>5 DEF OpinionsFit
  <2> QED
    BY <1>3, <2>1, <1>5 DEF DeskFits, OpinionsFit
<1>6. ASSUME ReadArticles
      PROVE  DeskFits'
  <2>1. PICK elements \in SymbolFeed \cup {<<>>} :
          LET items == parse_feed(elements, TRUE)
          IN  desk' = IF _store(items) = Raised \/ SymbolArticles(news', items) = <<>> THEN Quiet
                      ELSE [pc |-> "list", articles |-> SymbolArticles(news', items), listed |-> <<>>]
    BY <1>6 DEF ReadArticles
  <2>2. PICK items : items = parse_feed(elements, TRUE)
    OBVIOUS
  <2>3. PICK found : found = SymbolArticles(news', items)
    OBVIOUS
  <2>4. found \in Seq(Nat)
    <3>1. PICK x : x = news'
      OBVIOUS
    <3>2. SymbolArticles(x, items) \in Seq(Nat)
      BY <1>1, <3>1, ArticlesRead
    <3> QED
      BY <2>3, <3>1, <3>2
  <2>5. desk' = Quiet \/ desk' = [pc |-> "list", articles |-> found, listed |-> <<>>]
    BY <2>1, <2>2, <2>3
  <2>6. UNCHANGED report
    BY <1>6 DEF ReadArticles
  <2> QED
    <3>1. [pc |-> "list", articles |-> found, listed |-> <<>>] \in Desks
      BY <2>4 DEF Desks
    <3> QED
      BY <1>3, <1>4, <2>5, <2>6, <3>1
<1>7. ASSUME ListArticles
      PROVE  DeskFits'
  <2>1. PICK elements \in SymbolFeed \cup {<<>>} :
          LET items == parse_feed(elements, TRUE)
          IN  IF _store(items) = Raised
              THEN Answer(desk.articles, <<>>, Unparsable, _neutral_opinions(desk.articles))
              ELSE /\ desk' = [desk EXCEPT !.pc = "ask", !.listed = SymbolArticles(news', items)]
                   /\ UNCHANGED report
    BY <1>7 DEF ListArticles
  <2>2. PICK items : items = parse_feed(elements, TRUE)
    OBVIOUS
  <2>3. PICK found : found = SymbolArticles(news', items)
    OBVIOUS
  <2>4. found \in Seq(Nat)
    <3>1. PICK x : x = news'
      OBVIOUS
    <3>2. SymbolArticles(x, items) \in Seq(Nat)
      BY <1>1, <3>1, ArticlesRead
    <3> QED
      BY <2>3, <3>1, <3>2
  <2>5. CASE _store(items) = Raised
    <3>1. PICK articles : articles = desk.articles
      OBVIOUS
    <3>2. articles \in Seq(Nat)
      BY <1>2, <3>1 DEF Desks
    <3>3. PICK opinions : opinions = _neutral_opinions(articles)
      OBVIOUS
    <3>4. Answer(articles, <<>>, Unparsable, opinions)
      BY <2>1, <2>2, <2>5, <3>1, <3>3
    <3>5. OpinionsFit(opinions, articles, <<>>, Unparsable)
      BY <3>2, <3>3, NeutralFits
    <3> QED
      BY <1>5, <3>2, <3>4, <3>5
  <2>6. CASE _store(items) # Raised
    <3>1. desk' = [desk EXCEPT !.pc = "ask", !.listed = found] /\ UNCHANGED report
      BY <2>1, <2>2, <2>3, <2>6
    <3>2. desk' = [pc |-> "ask", articles |-> desk.articles, listed |-> found]
      BY <1>2, <3>1 DEF Desks
    <3>3. desk' \in Desks
      BY <1>2, <2>4, <3>2 DEF Desks
    <3> QED
      BY <1>4, <3>1, <3>3
  <2> QED
    BY <2>5, <2>6
<1>8. ASSUME AskAi
      PROVE  DeskFits'
  <2>1. PICK reply \in AiReplies \cup {Unparsable, Raised} :
          LET verdicts == IF reply = Raised THEN Raised ELSE classify_news(desk.listed, reply)
          IN  Answer(desk.articles, desk.listed, reply,
                     IF verdicts = Raised THEN _neutral_opinions(desk.articles)
                     ELSE _merge_opinions(desk.articles, verdicts))
    BY <1>8 DEF AskAi
  <2>2. PICK articles : articles = desk.articles
    OBVIOUS
  <2>3. PICK listed : listed = desk.listed
    OBVIOUS
  <2>4. articles \in Seq(Nat) /\ listed \in Seq(Nat)
    BY <1>2, <2>2, <2>3 DEF Desks
  <2>5. PICK judged : judged = IF reply = Raised THEN Raised ELSE classify_news(listed, reply)
    OBVIOUS
  <2>6. PICK opinions : opinions = IF judged = Raised THEN _neutral_opinions(articles) ELSE _merge_opinions(articles, judged)
    OBVIOUS
  <2>7. Answer(articles, listed, reply, opinions)
    BY <2>1, <2>2, <2>3, <2>5, <2>6
  <2>8. OpinionsFit(opinions, articles, listed, reply)
    <3>1. CASE judged = Raised
      BY <2>4, <2>6, <3>1, NeutralFits
    <3>2. CASE judged # Raised
      <4>1. reply \in AiReplies \cup {Unparsable} /\ judged = classify_news(listed, reply)
        BY <2>5, <3>2
      <4>2. /\ DOMAIN judged = DOMAIN listed
            /\ \A k \in DOMAIN judged :
                  /\ judged[k].article = listed[k]
                  /\ ~ Misplaced(reply) => judged[k].about = NoLink \/ judged[k].about = k - 1
                  /\ judged[k].rating \in 1 .. 5
        BY <2>4, <3>2, <4>1, ArticlesJudged
      <4> QED
        BY <2>4, <2>6, <3>2, <4>2, MergedFits
    <3> QED
      BY <3>1, <3>2
  <2> QED
    BY <1>5, <2>4, <2>7, <2>8
<1>9. ASSUME UNCHANGED <<desk, report>>
      PROVE  DeskFits'
  BY <1>2, <1>4, <1>9
<1> QED
  BY <1>6, <1>7, <1>8, <1>9 DEF NewsNext, newsVars, Refresh

(* Whatever the AI answers and whatever is stored in between, the report    *)
(* says of an article what the AI said of it, with a rating in range, unless *)
(* the answer holds an object without an index behind an element that is    *)
(* none (classify_news and _merge_opinions).                                *)
THEOREM VerdictsSoundCorrect == NewsSpec => []VerdictsSound
<1>1. NewsInit => NewsKept /\ DeskFits
  <2> SUFFICES ASSUME NewsInit PROVE NewsKept /\ DeskFits
    OBVIOUS
  <2>1. NewsKept
    BY DEF NewsInit, NewsKept, DeliveredStored, UniqueUrls, IsInjective
  <2>2. desk \in Desks
    BY DEF NewsInit, Quiet, Desks
  <2>3. report.opinions = <<>>
    BY DEF NewsInit, NoReport
  <2>4. OpinionsFit(report.opinions, report.articles, report.listed, report.reply)
    <3>1. DOMAIN <<>> = 1 .. 0 /\ 1 .. 0 = {}
      OBVIOUS
    <3> QED
      BY <2>3, <3>1 DEF OpinionsFit
  <2> QED
    BY <2>1, <2>2, <2>4 DEF DeskFits
<1>2. DeskFits => VerdictsSound
  <2> SUFFICES ASSUME DeskFits PROVE VerdictsSound
    OBVIOUS
  <2>1. OpinionsFit(report.opinions, report.articles, report.listed, report.reply)
    BY DEF DeskFits
  <2>2. OpinionsBelong
    BY <2>1 DEF OpinionsFit, OpinionsBelong, OnItsArticle, IsOn
  <2>3. RatingsInRange
    BY <2>1 DEF OpinionsFit, RatingsInRange
  <2> QED
    BY <2>2, <2>3 DEF VerdictsSound
<1> QED
  BY <1>1, <1>2, NewsKeptStep, DeskStep, PTL DEF NewsSpec

-----------------------------------------------------------------------------
(* Calendar                                                                *)

-----------------------------------------------------------------------------
(* The days of a year                                                      *)

(* A day is its place in its year. *)
LEMMA DayOfYear ==
    ASSUME NEW d \in Nat
    PROVE  /\ d = 365 * (d \div 365) + (d % 365)
           /\ d % 365 \in 0 .. 364 /\ d \div 365 \in Nat
<1>1. d = 365 * (d \div 365) + (d % 365)
  OBVIOUS
<1>2. d % 365 \in 0 .. 364
  OBVIOUS
<1>3. d \div 365 \in Nat
  OBVIOUS
<1> QED
  BY <1>1, <1>2, <1>3

(* The first days of the months, by their place in the year. *)
LEMMA MonthStartsAre ==
    /\ MonthStarts[1] = 0 /\ MonthStarts[2] = 31 /\ MonthStarts[3] = 59 /\ MonthStarts[4] = 90
    /\ MonthStarts[5] = 120 /\ MonthStarts[6] = 151 /\ MonthStarts[7] = 181 /\ MonthStarts[8] = 212
    /\ MonthStarts[9] = 243 /\ MonthStarts[10] = 273 /\ MonthStarts[11] = 304 /\ MonthStarts[12] = 334
    /\ MonthStarts[13] = 365
BY DEF MonthStarts

(* Months are 28 days long at least and 31 at most. *)
LEMMA MonthLengths ==
    \A m \in 1 .. 12 :
        /\ MonthStarts[m] \in Nat /\ MonthStarts[m + 1] \in Nat /\ MonthStarts[m + 1] <= 365
        /\ MonthStarts[m] + 28 <= MonthStarts[m + 1] /\ MonthStarts[m + 1] <= MonthStarts[m] + 31
<1> SUFFICES ASSUME NEW m \in 1 .. 12
             PROVE  /\ MonthStarts[m] \in Nat /\ MonthStarts[m + 1] \in Nat /\ MonthStarts[m + 1] <= 365
                    /\ MonthStarts[m] + 28 <= MonthStarts[m + 1] /\ MonthStarts[m + 1] <= MonthStarts[m] + 31
  OBVIOUS
<1>1. m = 1 \/ m = 2 \/ m = 3 \/ m = 4 \/ m = 5 \/ m = 6 \/ m = 7 \/ m = 8 \/ m = 9 \/ m = 10 \/ m = 11 \/ m = 12
  OBVIOUS
<1> QED
  BY <1>1, MonthStartsAre

(* A later month starts later. *)
LEMMA MonthsInOrder ==
    \A m, n \in 1 .. 12 : m < n => MonthStarts[m + 1] <= MonthStarts[n]
<1> SUFFICES ASSUME NEW m \in 1 .. 12, NEW n \in 1 .. 12, m < n
             PROVE  MonthStarts[m + 1] <= MonthStarts[n]
  OBVIOUS
<1>1. m = 1 \/ m = 2 \/ m = 3 \/ m = 4 \/ m = 5 \/ m = 6 \/ m = 7 \/ m = 8 \/ m = 9 \/ m = 10 \/ m = 11 \/ m = 12
  OBVIOUS
<1>2. n = 1 \/ n = 2 \/ n = 3 \/ n = 4 \/ n = 5 \/ n = 6 \/ n = 7 \/ n = 8 \/ n = 9 \/ n = 10 \/ n = 11 \/ n = 12
  OBVIOUS
<1> QED
  BY <1>1, <1>2, MonthStartsAre

(* No day is in two months. *)
LEMMA OneMonth ==
    ASSUME NEW r \in Nat, NEW m \in 1 .. 12, NEW n \in 1 .. 12,
           MonthStarts[m] <= r, r < MonthStarts[m + 1], MonthStarts[n] <= r, r < MonthStarts[n + 1]
    PROVE  ~(m < n) /\ ~(n < m)
<1>1. PICK a \in Nat, b \in Nat : a = MonthStarts[m] /\ b = MonthStarts[m + 1]
  BY  MonthLengths
<1>2. PICK c \in Nat, e \in Nat : c = MonthStarts[n] /\ e = MonthStarts[n + 1]
  BY MonthLengths
<1>3. (m < n => b <= c) /\ (n < m => e <= a)
  BY <1>1, <1>2, MonthsInOrder
<1> QED
  BY <1>1, <1>2, <1>3

(* Every day is in one month. *)
LEMMA MonthOfDay ==
    ASSUME NEW d \in Nat
    PROVE  /\ MonthOf(d) \in 1 .. 12
           /\ MonthStarts[MonthOf(d)] <= d % 365 /\ d % 365 < MonthStarts[MonthOf(d) + 1]
<1>1. PICK r \in 0 .. 364 : r = d % 365
  BY DayOfYear
<1>2. \E m \in 1 .. 12 : MonthStarts[m] <= r /\ r < MonthStarts[m + 1]
  <2>1. \/ (0 <= r /\ r < 31) \/ (31 <= r /\ r < 59) \/ (59 <= r /\ r < 90) \/ (90 <= r /\ r < 120)
        \/ (120 <= r /\ r < 151) \/ (151 <= r /\ r < 181) \/ (181 <= r /\ r < 212) \/ (212 <= r /\ r < 243)
        \/ (243 <= r /\ r < 273) \/ (273 <= r /\ r < 304) \/ (304 <= r /\ r < 334) \/ (334 <= r /\ r < 365)
    OBVIOUS
  <2>2. 1 \in 1 .. 12 /\ 2 \in 1 .. 12 /\ 3 \in 1 .. 12 /\ 4 \in 1 .. 12 /\ 5 \in 1 .. 12 /\ 6 \in 1 .. 12
        /\ 7 \in 1 .. 12 /\ 8 \in 1 .. 12 /\ 9 \in 1 .. 12 /\ 10 \in 1 .. 12 /\ 11 \in 1 .. 12 /\ 12 \in 1 .. 12
    OBVIOUS
  <2>3. 1 + 1 = 2 /\ 2 + 1 = 3 /\ 3 + 1 = 4 /\ 4 + 1 = 5 /\ 5 + 1 = 6 /\ 6 + 1 = 7 /\ 7 + 1 = 8
        /\ 8 + 1 = 9 /\ 9 + 1 = 10 /\ 10 + 1 = 11 /\ 11 + 1 = 12 /\ 12 + 1 = 13
    OBVIOUS
  <2> QED
    BY <2>1, <2>2, <2>3, MonthStartsAre
<1>3. MonthOf(d) = CHOOSE m \in 1 .. 12 : MonthStarts[m] <= r /\ r < MonthStarts[m + 1]
  BY <1>1 DEF MonthOf
<1> QED
  BY <1>1, <1>2, <1>3

(* A day between the first days of two months is in the first of them. *)
LEMMA InMonth ==
    ASSUME NEW year \in Nat, year >= 2025, NEW m \in 1 .. 12, NEW d \in Int,
           365 * (year - 2025) + MonthStarts[m] <= d, d < 365 * (year - 2025) + MonthStarts[m + 1]
    PROVE  d \in Nat /\ YearOf(d) = year /\ MonthOf(d) = m /\ MonthStart(d) = Day(year, m, 1)
<1>1. MonthStarts[m] \in Nat /\ MonthStarts[m + 1] \in Nat /\ MonthStarts[m + 1] <= 365
  BY MonthLengths
<1>2. PICK q \in Nat : q = year - 2025
  OBVIOUS
<1>3. 365 * q <= d /\ d < 365 * (q + 1) /\ d \in Nat
  BY <1>1, <1>2
<1>4. d \div 365 = q
  BY <1>3
<1>5. d = 365 * q + (d % 365)
  BY <1>3, <1>4, DayOfYear
<1>6. MonthStarts[m] <= d % 365 /\ d % 365 < MonthStarts[m + 1] /\ d % 365 \in 0 .. 364
  BY <1>1, <1>2, <1>3, <1>5, DayOfYear
<1>7. MonthOf(d) = m
  <2>1. PICK n \in 1 .. 12 : n = MonthOf(d)
    BY <1>3, MonthOfDay
  <2>2. MonthStarts[n] <= d % 365 /\ d % 365 < MonthStarts[n + 1]
    BY <1>3, <2>1, MonthOfDay
  <2>3. PICK r \in Nat : r = d % 365
    BY <1>6
  <2>4. MonthStarts[m] <= r /\ r < MonthStarts[m + 1] /\ MonthStarts[n] <= r /\ r < MonthStarts[n + 1]
    BY <1>6, <2>2, <2>3
  <2>5. ~(m < n) /\ ~(n < m)
    BY <2>3, <2>4, OneMonth
  <2> QED
    BY <2>1, <2>5
<1>8. YearOf(d) = year
  BY <1>2, <1>4 DEF YearOf
<1> QED
  BY <1>3, <1>7, <1>8 DEF MonthStart

(* The first day of a month is at most 30 days ago, and the days since then *)
(* and the first 28 of the month have the same.                             *)
LEMMA MonthStartIs ==
    ASSUME NEW d \in Nat
    PROVE  /\ MonthStart(d) \in Nat /\ MonthStart(d) <= d /\ YearOf(d) \in Nat /\ YearOf(d) >= 2025
           /\ MonthStart(d) = Day(YearOf(d), MonthOf(d), 1)
           /\ \A e \in Int : MonthStart(d) <= e /\ (e <= d \/ e < MonthStart(d) + 28) => MonthStart(e) = MonthStart(d)
<1>1. PICK m \in 1 .. 12 : m = MonthOf(d) /\ MonthStarts[m] <= d % 365 /\ d % 365 < MonthStarts[m + 1]
  BY MonthOfDay
<1>2. PICK q \in Nat : q = d \div 365
  BY DayOfYear
<1>3. d = 365 * q + (d % 365) /\ d % 365 \in 0 .. 364
  BY <1>2, DayOfYear
<1>4. YearOf(d) = 2025 + q
  BY <1>2 DEF YearOf
<1>5. MonthStarts[m] \in Nat /\ MonthStarts[m + 1] \in Nat /\ MonthStarts[m] + 28 <= MonthStarts[m + 1]
  BY MonthLengths
<1>6. MonthStart(d) = Day(YearOf(d), m, 1)
  BY <1>1 DEF MonthStart
<1>7. MonthStart(d) = 365 * q + MonthStarts[m]
  BY <1>4, <1>5, <1>6 DEF Day
<1>8. ASSUME NEW e \in Int, MonthStart(d) <= e, e <= d \/ e < MonthStart(d) + 28
      PROVE  MonthStart(e) = MonthStart(d)
  <2>1. PICK year \in Nat : year = 2025 + q
    OBVIOUS
  <2>2. PICK a \in Nat, b \in Nat, r \in Nat : a = MonthStarts[m] /\ b = MonthStarts[m + 1] /\ r = d % 365
    BY <1>3, <1>5
  <2>3. d = 365 * q + r /\ a <= r /\ r < b /\ a + 28 <= b /\ MonthStart(d) = 365 * q + a
    BY <1>1, <1>3, <1>5, <1>7, <2>2
  <2>4. 365 * q + a <= e /\ e < 365 * q + b
    BY <1>8, <2>3
  <2>5. year >= 2025 /\ year - 2025 = q
    BY <2>1
  <2>6. 365 * (year - 2025) + MonthStarts[m] <= e /\ e < 365 * (year - 2025) + MonthStarts[m + 1]
    BY <2>2, <2>4, <2>5
  <2>7. MonthStart(e) = Day(year, m, 1)
    BY <2>5, <2>6, InMonth
  <2> QED
    BY <1>4, <1>6, <2>1, <2>7
<1>9. MonthStart(d) \in Nat /\ MonthStart(d) <= d
  BY <1>1, <1>3, <1>5, <1>7
<1> QED
  BY <1>1, <1>4, <1>6, <1>8, <1>9

(* An earlier day has no later first day of its month. *)
LEMMA MonthStartsOrdered ==
    ASSUME NEW d \in Nat, NEW e \in Nat, d <= e
    PROVE  MonthStart(d) <= MonthStart(e)
<1>1. MonthStart(d) \in Nat /\ MonthStart(d) <= d /\ MonthStart(e) \in Nat
  BY MonthStartIs
<1>2. MonthStart(e) <= d => MonthStart(d) = MonthStart(e)
  BY MonthStartIs
<1> QED
  BY <1>1, <1>2

(* Of seven days in a row just one falls on a weekday. *)
LEMMA FirstFromIs ==
    ASSUME NEW d \in Nat, NEW weekday \in 0 .. 6
    PROVE  /\ FirstFrom(d, weekday) \in d .. d + 6 /\ Weekday(FirstFrom(d, weekday)) = weekday
           /\ \A e \in d .. d + 6 : Weekday(e) = weekday => e = FirstFrom(d, weekday)
<1>1. \A e \in d .. d + 6 : Weekday(e) = (e + 2) % 7
  BY DEF Weekday
<1>2. PICK q \in Nat, r \in 0 .. 6 : d + 2 = 7 * q + r
  <2>1. (d + 2) \div 7 \in Nat
    OBVIOUS
  <2>2. (d + 2) % 7 \in 0 .. 6
    OBVIOUS
  <2>3. d + 2 = 7 * ((d + 2) \div 7) + ((d + 2) % 7)
    OBVIOUS
  <2> QED
    BY <2>1, <2>2, <2>3
<1>3. \A k \in 0 .. 6 : Weekday(d + k) = IF r + k < 7 THEN r + k ELSE r + k - 7
  <2> SUFFICES ASSUME NEW k \in 0 .. 6 PROVE Weekday(d + k) = IF r + k < 7 THEN r + k ELSE r + k - 7
    OBVIOUS
  <2>1. Weekday(d + k) = (7 * q + r + k) % 7
    BY <1>2 DEF Weekday
  <2>2. CASE r + k < 7
    BY <2>1, <2>2
  <2>3. CASE ~(r + k < 7)
    BY <2>1, <2>3
  <2> QED
    BY <2>2, <2>3
<1>4. PICK k \in 0 .. 6 : k = IF r <= weekday THEN weekday - r ELSE weekday - r + 7
  OBVIOUS
<1>5. d + k \in d .. d + 6 /\ Weekday(d + k) = weekday
  BY <1>3, <1>4
<1>6. FirstFrom(d, weekday) \in d .. d + 6 /\ Weekday(FirstFrom(d, weekday)) = weekday
  BY <1>5 DEF FirstFrom
<1>7. \A e, f \in d .. d + 6 : Weekday(e) = weekday /\ Weekday(f) = weekday => e = f
  <2> SUFFICES ASSUME NEW e \in d .. d + 6, NEW f \in d .. d + 6, Weekday(e) = weekday, Weekday(f) = weekday
               PROVE  e = f
    OBVIOUS
  <2>1. PICK i \in 0 .. 6 : e = d + i
    <3>1. e - d \in 0 .. 6 /\ e = d + (e - d)
      OBVIOUS
    <3> QED
      BY <3>1
  <2>2. PICK j \in 0 .. 6 : f = d + j
    <3>1. f - d \in 0 .. 6 /\ f = d + (f - d)
      OBVIOUS
    <3> QED
      BY <3>1
  <2>3. (IF r + i < 7 THEN r + i ELSE r + i - 7) = (IF r + j < 7 THEN r + j ELSE r + j - 7)
    BY <1>3, <2>1, <2>2
  <2> QED
    BY <2>1, <2>2, <2>3
<1> QED
  BY <1>6, <1>7

-----------------------------------------------------------------------------
(* What is in a list                                                       *)

(* What is in a listing is what it lists. *)
LEMMA ListingHolds ==
    ASSUME NEW list, NEW S, Enumerates(list, S)
    PROVE  \A x : x \in ToSet(list) <=> x \in S
<1>1. \A i \in DOMAIN list : list[i] \in S
  BY DEF Enumerates
<1>2. \A x \in S : \E i \in DOMAIN list : list[i] = x
  BY DEF Enumerates
<1> QED
  BY <1>1, <1>2 DEF ToSet

(* A list without repetitions enumerates what is in it. *)
LEMMA ListEnumerates ==
    ASSUME NEW T, NEW list \in Seq(T), \A i, j \in DOMAIN list : list[i] = list[j] => i = j
    PROVE  Enumerates(list, ToSet(list))
<1>1. PICK S : S = ToSet(list)
  OBVIOUS
<1>2. list = [i \in 1 .. Len(list) |-> list[i]] /\ Len(list) \in Nat /\ DOMAIN list = 1 .. Len(list)
  OBVIOUS
<1>3. \A i \in 1 .. Len(list) : list[i] \in S
  BY <1>1, <1>2 DEF ToSet
<1>4. \A x \in S : \E i \in DOMAIN list : list[i] = x
  BY <1>1 DEF ToSet
<1>5. list \in [1 .. Len(list) -> S]
  BY <1>2, <1>3
<1>6. list \in Seq(S)
  BY <1>2, <1>5, FunctionIsList
<1> QED
  BY <1>1, <1>4, <1>6 DEF Enumerates

-----------------------------------------------------------------------------
(* The events of a window                                                  *)

EventsOn(title, days, minute) == {Event(title, d, minute) : d \in days}

(* A list of dates becomes the events on those in the window. *)
LEMMA ScheduledListed ==
    ASSUME NEW D, NEW dates, Enumerates(dates, D), NEW title, NEW minute, NEW from, NEW end
    PROVE  Enumerates(Scheduled(title, dates, minute, from, end), EventsOn(title, D \cap (from .. end), minute))
<1>1. PICK due : due = Keep(dates, from .. end)
  OBVIOUS
<1>2. PICK W : W = D \cap (from .. end)
  OBVIOUS
<1>3. Enumerates(due, W)
  BY <1>1, <1>2, EnumeratedKept
<1>4. PICK f : f = [d \in W |-> Event(title, d, minute)]
  OBVIOUS
<1>5. PICK T : T = {f[d] : d \in W}
  OBVIOUS
<1>6. f \in [W -> T]
  BY <1>4, <1>5
<1>7. \A d, e \in W : f[d] = f[e] => d = e
  BY <1>4 DEF Event
<1>8. Enumerates([i \in DOMAIN due |-> f[due[i]]], T)
  BY <1>3, <1>5, <1>6, <1>7, EnumeratedMapped
<1>9. \A i \in DOMAIN due : due[i] \in W
  BY <1>3 DEF Enumerates
<1>10. [i \in DOMAIN due |-> f[due[i]]] = Scheduled(title, dates, minute, from, end)
  <2>1. \A i \in DOMAIN due : f[due[i]] = Event(title, due[i], minute)
    BY <1>4, <1>9
  <2>2. Scheduled(title, dates, minute, from, end) = [i \in DOMAIN due |-> Event(title, due[i], minute)]
    BY <1>1 DEF Scheduled
  <2> QED
    BY <2>1, <2>2
<1>11. T = EventsOn(title, W, minute)
  BY <1>4, <1>5 DEF EventsOn
<1> QED
  BY <1>2, <1>8, <1>10, <1>11

(* The days from one to another. *)
LEMMA DaysListed ==
    ASSUME NEW from \in Int, NEW end \in Int, from <= end
    PROVE  Enumerates(DaysIn(from, end), from .. end)
<1>1. PICK n \in Nat : n = end - from + 1
  OBVIOUS
<1>2. DaysIn(from, end) = [i \in 1 .. n |-> from + i - 1]
  BY <1>1 DEF DaysIn
<1>3. DaysIn(from, end) \in [1 .. n -> from .. end]
  BY <1>1, <1>2
<1>4. DaysIn(from, end) \in Seq(from .. end) /\ DOMAIN DaysIn(from, end) = 1 .. n
  BY <1>1, <1>3, FunctionIsList
<1>5. \A i, j \in 1 .. n : DaysIn(from, end)[i] = DaysIn(from, end)[j] => i = j
  BY <1>2
<1>6. ASSUME NEW d \in from .. end PROVE \E i \in 1 .. n : DaysIn(from, end)[i] = d
  <2>1. d - from + 1 \in 1 .. n /\ from + (d - from + 1) - 1 = d
    BY <1>1
  <2> QED
    BY <1>2, <2>1
<1> QED
  BY <1>4, <1>5, <1>6 DEF Enumerates

(* Jobless claims come on every Thursday. *)
LEMMA ClaimsListed ==
    ASSUME NEW from \in Nat, NEW end \in Nat, from <= end,
           NEW S, S = {d \in from .. end : Weekday(d) = 3}
    PROVE  Enumerates(JoblessClaims(from, end), EventsOn(UsClaims, S, 810))
<1>1. PICK days : days = DaysIn(from, end)
  OBVIOUS
<1>2. Enumerates(days, from .. end)
  BY <1>1, DaysListed
<1>3. PICK rule : rule = {d \in ToSet(days) : Weekday(d) = 3}
  OBVIOUS
<1>4. Enumerates(Keep(days, rule), (from .. end) \cap rule)
  BY <1>2, EnumeratedKept
<1>5. (from .. end) \cap rule = S /\ S \cap (from .. end) = S
  <2>1. \A d : d \in ToSet(days) <=> d \in from .. end
    BY <1>2, ListingHolds
  <2> QED
    BY <1>3, <2>1
<1>6. Enumerates(Keep(days, rule), S)
  BY <1>4, <1>5
<1>7. Enumerates(Scheduled(UsClaims, Keep(days, rule), 810, from, end), EventsOn(UsClaims, S \cap (from .. end), 810))
  BY <1>6, ScheduledListed
<1>8. JoblessClaims(from, end) = Scheduled(UsClaims, Keep(days, rule), 810, from, end)
  BY <1>1, <1>3 DEF JoblessClaims
<1> QED
  BY <1>5, <1>7, <1>8

PayrollDay(d) == Weekday(d) = 4 /\ d - MonthStart(d) + 1 <= 7

(* The first Friday from the first day of a month on is one of the first    *)
(* seven days of that month, and the only Friday of these.                  *)
LEMMA FirstFridayIs ==
    ASSUME NEW s \in Nat, s = MonthStart(s)
    PROVE  /\ FirstFrom(s, 4) \in s .. s + 6 /\ MonthStart(FirstFrom(s, 4)) = s /\ PayrollDay(FirstFrom(s, 4))
           /\ \A d \in s .. s + 6 : Weekday(d) = 4 => d = FirstFrom(s, 4)
<1>1. PICK f : f = FirstFrom(s, 4)
  OBVIOUS
<1>2. f \in s .. s + 6 /\ Weekday(f) = 4 /\ \A d \in s .. s + 6 : Weekday(d) = 4 => d = f
  BY <1>1, FirstFromIs
<1>3. MonthStart(f) = s
  <2>1. \A e \in Int : s <= e /\ e < s + 28 => MonthStart(e) = s
    BY MonthStartIs
  <2> QED
    BY <1>2, <2>1
<1>4. f - s + 1 <= 7
  BY <1>2
<1> QED
  BY <1>1, <1>2, <1>3, <1>4 DEF PayrollDay

(* The payrolls of a window are all those of the months it touches. *)
LEMMA PayrollsListed ==
    ASSUME NEW from \in Nat, NEW end \in Nat, from <= end,
           NEW S, S = {d \in from .. end : PayrollDay(d)}
    PROVE  Enumerates(NonFarmPayrolls(from, end), EventsOn(UsPayrolls, S, 810))
<1>1. PICK start \in Nat : start = MonthStart(from) /\ start <= from
  BY MonthStartIs
<1>2. PICK M : M = {d \in start .. end : d = MonthStart(d)}
  OBVIOUS
<1>3. \A s : s \in M <=> s \in Nat /\ start <= s /\ s <= end /\ s = MonthStart(s)
  BY <1>2
<1>4. PICK months : months = MonthsUntil(from, end)
  OBVIOUS
<1>5. Enumerates(months, M)
  <2>1. Enumerates(DaysIn(start, end), start .. end)
    BY <1>1, DaysListed
  <2>2. PICK days, rule : days = DaysIn(start, end) /\ rule = {d \in ToSet(days) : d = MonthStart(d)}
    OBVIOUS
  <2>3. months = Keep(days, rule)
    BY <1>1, <1>4, <2>2 DEF MonthsUntil
  <2>4. Enumerates(months, (start .. end) \cap rule)
    BY <2>1, <2>2, <2>3, EnumeratedKept
  <2>5. \A d : d \in ToSet(days) <=> d \in start .. end
    BY <2>1, <2>2, ListingHolds
  <2>6. (start .. end) \cap rule = M
    BY <1>2, <2>2, <2>5
  <2> QED
    BY <2>4, <2>6
<1>6. PICK f : f = [s \in M |-> FirstFrom(s, 4)]
  OBVIOUS
<1>7. PICK R : R = {f[s] : s \in M}
  OBVIOUS
<1>8. f \in [M -> R]
  BY <1>6, <1>7
<1>9. \A s \in M : /\ f[s] \in s .. s + 6 /\ MonthStart(f[s]) = s /\ PayrollDay(f[s])
                   /\ \A d \in s .. s + 6 : Weekday(d) = 4 => d = f[s]
  BY <1>3, <1>6, FirstFridayIs
<1>10. \A s, t \in M : f[s] = f[t] => s = t
  BY <1>9
<1>11. PICK dates : dates = [i \in DOMAIN months |-> f[months[i]]]
  OBVIOUS
<1>12. Enumerates(dates, R)
  BY <1>5, <1>7, <1>8, <1>10, <1>11, EnumeratedMapped
<1>13. dates = [i \in DOMAIN months |-> FirstFrom(months[i], 4)]
  <2>1. \A i \in DOMAIN months : months[i] \in M
    BY <1>5 DEF Enumerates
  <2> QED
    BY <1>6, <1>11, <2>1
<1>14. Enumerates(Scheduled(UsPayrolls, dates, 810, from, end), EventsOn(UsPayrolls, R \cap (from .. end), 810))
  BY <1>12, ScheduledListed
<1>15. NonFarmPayrolls(from, end) = Scheduled(UsPayrolls, dates, 810, from, end)
  BY <1>4, <1>13 DEF NonFarmPayrolls
<1>16. ASSUME NEW d \in from .. end, PayrollDay(d)
       PROVE  d \in R
  <2>1. d \in Nat /\ from <= d /\ d <= end
    OBVIOUS
  <2>2. PICK s \in Nat : s = MonthStart(d) /\ s <= d
    BY <2>1, MonthStartIs
  <2>3. MonthStart(s) = s
    BY <2>1, <2>2, MonthStartIs
  <2>4. start <= s
    BY <1>1, <2>1, <2>2, MonthStartsOrdered
  <2>5. s \in M
    BY <1>3, <2>1, <2>2, <2>3, <2>4
  <2>6. d \in s .. s + 6 /\ Weekday(d) = 4
    BY <1>16, <2>1, <2>2 DEF PayrollDay
  <2>7. d = f[s]
    BY <1>9, <2>5, <2>6
  <2> QED
    BY <1>7, <2>5, <2>7
<1>17. R \cap (from .. end) = S
  <2>1. \A d \in R : PayrollDay(d)
    BY <1>7, <1>9
  <2> QED
    BY <1>16, <2>1
<1> QED
  BY <1>14, <1>15, <1>17

CpiDay(d) == Weekday(d) = 1 /\ d - MonthStart(d) + 1 \in 8 .. 14

(* A week later is the same weekday. *)
LEMMA WeekLater == \A d \in Nat : Weekday(d + 7) = Weekday(d)
<1> SUFFICES ASSUME NEW d \in Nat PROVE Weekday(d + 7) = Weekday(d)
  OBVIOUS
<1>1. Weekday(d + 7) = (d + 9) % 7 /\ Weekday(d) = (d + 2) % 7
  BY DEF Weekday
<1> QED
  BY <1>1

(* The second Tuesday of a month is in that month, in its second week. *)
LEMMA SecondTuesdayIs ==
    ASSUME NEW year \in Nat, year >= 2025, NEW m \in 1 .. 12
    PROVE  /\ Day(year, m, 1) \in Nat /\ _second_tuesday(year, m) \in Nat
           /\ YearOf(_second_tuesday(year, m)) = year /\ MonthOf(_second_tuesday(year, m)) = m
           /\ MonthStart(_second_tuesday(year, m)) = Day(year, m, 1) /\ CpiDay(_second_tuesday(year, m))
           /\ \A d \in Nat : d - Day(year, m, 1) + 1 \in 8 .. 14 /\ Weekday(d) = 1 => d = _second_tuesday(year, m)
<1>1. PICK a \in Nat, b \in Nat : a = MonthStarts[m] /\ b = MonthStarts[m + 1] /\ a + 28 <= b
  BY MonthLengths
<1>2. PICK y \in Nat : y = 365 * (year - 2025)
  OBVIOUS
<1>3. PICK s \in Nat : s = y + a
  OBVIOUS
<1>4. Day(year, m, 1) = s
  BY <1>1, <1>2, <1>3 DEF Day
<1>5. PICK f \in s .. s + 6 : /\ f = FirstFrom(s, 1) /\ Weekday(f) = 1
                              /\ \A e \in s .. s + 6 : Weekday(e) = 1 => e = f
  <2>1. 1 \in 0 .. 6
    OBVIOUS
  <2> QED
    BY <2>1, FirstFromIs
<1>6. PICK t \in Nat : t = f + 7
  OBVIOUS
<1>7. _second_tuesday(year, m) = t
  BY <1>4, <1>5, <1>6 DEF _second_tuesday
<1>8. y + a <= t /\ t < y + b /\ t \in Int
  BY <1>1, <1>3, <1>5, <1>6
<1>9. YearOf(t) = year /\ MonthOf(t) = m /\ MonthStart(t) = s
  <2>1. 365 * (year - 2025) + MonthStarts[m] <= t /\ t < 365 * (year - 2025) + MonthStarts[m + 1]
    BY <1>1, <1>2, <1>8
  <2> QED
    BY <1>4, <1>8, <2>1, InMonth
<1>10. Weekday(t) = 1
  BY <1>5, <1>6, WeekLater
<1>11. t - s + 1 \in 8 .. 14
  BY <1>5, <1>6
<1>12. ASSUME NEW d \in Nat, d - s + 1 \in 8 .. 14, Weekday(d) = 1
       PROVE  d = t
  <2>1. PICK e \in s .. s + 6 : d = e + 7
    <3>1. d - 7 \in s .. s + 6 /\ d = (d - 7) + 7
      BY <1>12
    <3> QED
      BY <3>1
  <2>2. e \in Nat /\ Weekday(e) = 1
    BY <1>12, <2>1, WeekLater
  <2> QED
    BY <1>5, <1>6, <2>1, <2>2
<1> QED
  BY <1>4, <1>7, <1>9, <1>10, <1>11, <1>12 DEF CpiDay

SecondTuesdays(year) == {_second_tuesday(year, m) : m \in 1 .. 12}

(* A year has one release a month. *)
LEMMA ReleasesListed ==
    ASSUME NEW year \in Nat, year >= 2025
    PROVE  Enumerates([m \in 1 .. 12 |-> _second_tuesday(year, m)], SecondTuesdays(year))
<1> DEFINE list == [m \in 1 .. 12 |-> _second_tuesday(year, m)]
<1>1. \A m \in 1 .. 12 : list[m] = _second_tuesday(year, m)
  OBVIOUS
<1>2. \A m \in 1 .. 12 : list[m] \in Nat /\ MonthOf(list[m]) = m
  BY <1>1, SecondTuesdayIs
<1>3. list \in [1 .. 12 -> SecondTuesdays(year)]
  BY <1>1 DEF SecondTuesdays
<1> HIDE DEF list
<1>4. list \in Seq(SecondTuesdays(year)) /\ DOMAIN list = 1 .. 12
  <2>1. PICK R : R = SecondTuesdays(year)
    OBVIOUS
  <2>2. PICK n \in Nat : n = 12
    OBVIOUS
  <2>3. list \in [1 .. n -> R]
    BY <1>3, <2>1, <2>2
  <2>4. list \in Seq(R) /\ DOMAIN list = 1 .. n
    BY <2>3
  <2> QED
    BY <2>1, <2>2, <2>4
<1>5. \A i, j \in DOMAIN list : list[i] = list[j] => i = j
  <2> SUFFICES ASSUME NEW i \in 1 .. 12, NEW j \in 1 .. 12, list[i] = list[j] PROVE i = j
    BY <1>4
  <2>1. i = MonthOf(list[i]) /\ j = MonthOf(list[j])
    BY <1>2
  <2> QED
    BY <2>1
<1>6. \A d \in SecondTuesdays(year) : \E i \in DOMAIN list : list[i] = d
  BY <1>1, <1>4 DEF SecondTuesdays
<1>7. Enumerates(list, SecondTuesdays(year))
  BY <1>4, <1>5, <1>6 DEF Enumerates
<1> QED
  BY <1>7 DEF list

(* The years of a window are those of its first and its last day. *)
LEMMA YearsOfWindow ==
    ASSUME NEW from \in Nat, NEW end \in Nat, end <= from + 365, NEW d \in from .. end
    PROVE  YearOf(d) = YearOf(from) \/ YearOf(d) = YearOf(end)
<1>1. PICK p \in Nat, q \in Nat, r \in Nat : p = from \div 365 /\ q = d \div 365 /\ r = end \div 365
  <2>1. d \in Nat
    OBVIOUS
  <2> QED
    BY <2>1, DayOfYear
<1>2. d \in Nat /\ from <= d /\ d <= end
  OBVIOUS
<1>3. PICK i \in 0 .. 364 : from = 365 * p + i
  BY <1>1, DayOfYear
<1>4. PICK j \in 0 .. 364 : d = 365 * q + j
  BY <1>1, <1>2, DayOfYear
<1>5. PICK k \in 0 .. 364 : end = 365 * r + k
  BY <1>1, DayOfYear
<1>6. q = p \/ q = r
  BY <1>2, <1>3, <1>4, <1>5
<1> QED
  BY <1>1, <1>6 DEF YearOf

(* The releases of a window are all the second Tuesdays in it. *)
LEMMA TurkeyListed ==
    ASSUME NEW from \in Nat, NEW end \in Nat, from <= end, end <= from + 365,
           NEW S, S = {d \in from .. end : CpiDay(d)}
    PROVE  Enumerates(TurkeyCpi(from, end), EventsOn(TrCpi, S, 420))
<1>1. PICK first \in Nat, last \in Nat : first = YearOf(from) /\ last = YearOf(end) /\ first >= 2025 /\ last >= 2025
  BY MonthStartIs
<1>2. PICK one, two : /\ one = [m \in 1 .. 12 |-> _second_tuesday(first, m)]
                      /\ two = [m \in 1 .. 12 |-> _second_tuesday(last, m)]
  OBVIOUS
<1>3. Enumerates(one, SecondTuesdays(first)) /\ Enumerates(two, SecondTuesdays(last))
  BY <1>1, <1>2, ReleasesListed
<1>4. PICK dates : dates = one \o (IF first = last THEN <<>> ELSE two)
  OBVIOUS
<1>5. PICK R : R = SecondTuesdays(first) \cup SecondTuesdays(last)
  OBVIOUS
<1>6. Enumerates(dates, R)
  <2>1. CASE first = last
    <3>1. one \in Seq(SecondTuesdays(first))
      BY <1>3 DEF Enumerates
    <3>2. dates = one
      BY <1>4, <2>1, <3>1
    <3> QED
      BY <1>3, <1>5, <2>1, <3>2
  <2>2. CASE first # last
    <3>1. \A d \in SecondTuesdays(first) : YearOf(d) = first
      BY <1>1, SecondTuesdayIs DEF SecondTuesdays
    <3>2. \A d \in SecondTuesdays(last) : YearOf(d) = last
      BY <1>1, SecondTuesdayIs DEF SecondTuesdays
    <3>3. SecondTuesdays(first) \cap SecondTuesdays(last) = {}
      BY <2>2, <3>1, <3>2
    <3>4. dates = one \o two
      BY <1>4, <2>2
    <3> QED
      BY <1>3, <1>5, <3>3, <3>4, EnumeratedJoined
  <2> QED
    BY <2>1, <2>2
<1>7. Enumerates(Scheduled(TrCpi, dates, 420, from, end), EventsOn(TrCpi, R \cap (from .. end), 420))
  BY <1>6, ScheduledListed
<1>8. TurkeyCpi(from, end) = Scheduled(TrCpi, dates, 420, from, end)
  <2>1. /\ one = [m \in 1 .. 12 |-> _second_tuesday(YearOf(from), m)]
        /\ two = [m \in 1 .. 12 |-> _second_tuesday(YearOf(end), m)]
    BY <1>1, <1>2
  <2>2. dates = one \o (IF YearOf(from) = YearOf(end) THEN <<>> ELSE two)
    BY <1>1, <1>4
  <2> QED
    BY <2>1, <2>2 DEF TurkeyCpi
<1>9. \A d \in R : CpiDay(d)
  BY <1>1, <1>5, SecondTuesdayIs DEF SecondTuesdays
<1>10. ASSUME NEW d \in from .. end, CpiDay(d)
       PROVE  d \in R
  <2>1. d \in Nat
    OBVIOUS
  <2>2. PICK year \in Nat, m \in 1 .. 12 : year = YearOf(d) /\ year >= 2025 /\ m = MonthOf(d)
    <3>1. YearOf(d) \in Nat /\ YearOf(d) >= 2025
      BY <2>1, MonthStartIs
    <3>2. MonthOf(d) \in 1 .. 12
      BY <2>1, MonthOfDay
    <3> QED
      BY <3>1, <3>2
  <2>3. MonthStart(d) = Day(year, m, 1)
    BY <2>1, <2>2, MonthStartIs
  <2>4. d - Day(year, m, 1) + 1 \in 8 .. 14 /\ Weekday(d) = 1
    BY <1>10, <2>3 DEF CpiDay
  <2>5. d = _second_tuesday(year, m)
    BY <2>1, <2>2, <2>4, SecondTuesdayIs
  <2>6. year = first \/ year = last
    BY <1>1, <2>2, YearsOfWindow
  <2> QED
    BY <1>5, <2>5, <2>6 DEF SecondTuesdays
<1>11. R \cap (from .. end) = S
  BY <1>9, <1>10
<1> QED
  BY <1>7, <1>8, <1>11

-----------------------------------------------------------------------------
(* The tables                                                              *)

(* Days that grow within a year and then within the next come once each. *)
LEMMA TwoYears ==
    ASSUME NEW s \in Seq(Int), NEW t \in Seq(Int),
           \A i, j \in DOMAIN s : s[i] = s[j] => i = j,
           \A i, j \in DOMAIN t : t[i] = t[j] => i = j,
           \A i \in DOMAIN s : s[i] < 365, \A i \in DOMAIN t : t[i] >= 365
    PROVE  Enumerates(s \o t, ToSet(s \o t))
<1>1. Enumerates(s, ToSet(s)) /\ Enumerates(t, ToSet(t))
  BY ListEnumerates
<1>2. ToSet(s) \cap ToSet(t) = {}
  <2>1. \A i \in DOMAIN s, j \in DOMAIN t : s[i] # t[j]
    <3>1. \A i \in DOMAIN s : s[i] \in Int /\ s[i] < 365
      OBVIOUS
    <3>2. \A i \in DOMAIN t : t[i] \in Int /\ t[i] >= 365
      OBVIOUS
    <3> QED
      BY <3>1, <3>2
  <2> QED
    BY <2>1 DEF ToSet
<1>3. Enumerates(s \o t, ToSet(s) \cup ToSet(t))
  BY <1>1, <1>2, EnumeratedJoined
<1>4. ToSet(s) \cup ToSet(t) = ToSet(s \o t)
  BY <1>3, ListingHolds
<1> QED
  BY <1>3, <1>4

(* No table has a date twice. *)
LEMMA FomcListed == Enumerates(_FOMC_DATES, ToSet(_FOMC_DATES))
<1> DEFINE s == InYear(2025, <<<<1, 29>>, <<3, 19>>, <<5, 7>>, <<6, 18>>, <<7, 30>>, <<9, 17>>, <<11, 5>>, <<12, 17>>>>)
           t == InYear(2026, <<<<1, 28>>, <<3, 18>>, <<4, 29>>, <<6, 17>>, <<7, 29>>, <<9, 16>>, <<11, 4>>, <<12, 16>>>>)
<1>1. s = <<28, 77, 126, 168, 210, 259, 308, 350>>
  BY MonthStartsAre DEF InYear, Day
<1>2. t = <<392, 441, 483, 532, 574, 623, 672, 714>>
  BY MonthStartsAre DEF InYear, Day
<1>3. _FOMC_DATES = s \o t
  BY DEF _FOMC_DATES
<1> HIDE DEF s, t
<1>4. s \in Seq(Int) /\ DOMAIN s = 1 .. 8 /\ \A i \in 1 .. 8 : s[i] < 365
  BY <1>1
<1>5. t \in Seq(Int) /\ DOMAIN t = 1 .. 8 /\ \A i \in 1 .. 8 : t[i] >= 365
  BY <1>2
<1>6. \A i, j \in 1 .. 8 : s[i] = s[j] => i = j
  BY <1>1
<1>7. \A i, j \in 1 .. 8 : t[i] = t[j] => i = j
  BY <1>2
<1>8. /\ \A i, j \in DOMAIN s : s[i] = s[j] => i = j
      /\ \A i, j \in DOMAIN t : t[i] = t[j] => i = j
      /\ \A i \in DOMAIN s : s[i] < 365
      /\ \A i \in DOMAIN t : t[i] >= 365
  BY <1>4, <1>5, <1>6, <1>7
<1>9. Enumerates(s \o t, ToSet(s \o t))
  BY <1>4, <1>5, <1>8, TwoYears
<1> QED
  BY <1>3, <1>9

(* The same of the prices in the US. *)
LEMMA CpiListed == Enumerates(_CPI_DATES, ToSet(_CPI_DATES))
<1> DEFINE s == InYear(2025, <<<<1, 15>>, <<2, 12>>, <<3, 12>>, <<4, 10>>, <<5, 13>>, <<6, 11>>, <<7, 15>>,
                          <<8, 12>>, <<9, 11>>, <<10, 15>>, <<11, 13>>, <<12, 10>>>>)
           t == InYear(2026, <<<<1, 14>>, <<2, 11>>, <<3, 11>>, <<4, 14>>, <<5, 12>>, <<6, 10>>>>)
<1>1. s = <<14, 42, 70, 99, 132, 161, 195, 223, 253, 287, 316, 343>>
  BY MonthStartsAre DEF InYear, Day
<1>2. t = <<378, 406, 434, 468, 496, 525>>
  BY MonthStartsAre DEF InYear, Day
<1>3. _CPI_DATES = s \o t
  BY DEF _CPI_DATES
<1> HIDE DEF s, t
<1>4. s \in Seq(Int) /\ DOMAIN s = 1 .. 12 /\ \A i \in 1 .. 12 : s[i] < 365
  BY <1>1
<1>5. t \in Seq(Int) /\ DOMAIN t = 1 .. 6 /\ \A i \in 1 .. 6 : t[i] >= 365
  BY <1>2
<1>6. \A i, j \in 1 .. 12 : s[i] = s[j] => i = j
  BY <1>1
<1>7. \A i, j \in 1 .. 6 : t[i] = t[j] => i = j
  BY <1>2
<1>8. /\ \A i, j \in DOMAIN s : s[i] = s[j] => i = j
      /\ \A i, j \in DOMAIN t : t[i] = t[j] => i = j
      /\ \A i \in DOMAIN s : s[i] < 365
      /\ \A i \in DOMAIN t : t[i] >= 365
  BY <1>4, <1>5, <1>6, <1>7
<1>9. Enumerates(s \o t, ToSet(s \o t))
  BY <1>4, <1>5, <1>8, TwoYears
<1> QED
  BY <1>3, <1>9

(* And of the decisions in Europe. *)
LEMMA EcbListed == Enumerates(_ECB_DATES, ToSet(_ECB_DATES))
<1> DEFINE s == InYear(2025, <<<<1, 30>>, <<3, 6>>, <<4, 17>>, <<6, 5>>, <<7, 24>>, <<9, 11>>, <<10, 30>>, <<12, 18>>>>)
           t == InYear(2026, <<<<1, 29>>, <<3, 5>>, <<4, 16>>, <<6, 4>>>>)
<1>1. s = <<29, 64, 106, 155, 204, 253, 302, 351>>
  BY MonthStartsAre DEF InYear, Day
<1>2. t = <<393, 428, 470, 519>>
  BY MonthStartsAre DEF InYear, Day
<1>3. _ECB_DATES = s \o t
  BY DEF _ECB_DATES
<1> HIDE DEF s, t
<1>4. s \in Seq(Int) /\ DOMAIN s = 1 .. 8 /\ \A i \in 1 .. 8 : s[i] < 365
  BY <1>1
<1>5. t \in Seq(Int) /\ DOMAIN t = 1 .. 4 /\ \A i \in 1 .. 4 : t[i] >= 365
  BY <1>2
<1>6. \A i, j \in 1 .. 8 : s[i] = s[j] => i = j
  BY <1>1
<1>7. \A i, j \in 1 .. 4 : t[i] = t[j] => i = j
  BY <1>2
<1>8. /\ \A i, j \in DOMAIN s : s[i] = s[j] => i = j
      /\ \A i, j \in DOMAIN t : t[i] = t[j] => i = j
      /\ \A i \in DOMAIN s : s[i] < 365
      /\ \A i \in DOMAIN t : t[i] >= 365
  BY <1>4, <1>5, <1>6, <1>7
<1>9. Enumerates(s \o t, ToSet(s \o t))
  BY <1>4, <1>5, <1>8, TwoYears
<1> QED
  BY <1>3, <1>9

-----------------------------------------------------------------------------
(* The answer                                                              *)

Dated(S) == \A e \in S : e.day \in Int /\ e.minute \in 0 .. 1439

(* The events come in the order of their times, each as often as before. *)
LEMMA ByTimeSorts ==
    ASSUME NEW S, Dated(S), NEW events, Enumerates(events, S),
           NEW list, list = ByTime(events)
    PROVE  /\ Enumerates(list, S)
           /\ \A j, k \in DOMAIN list : j < k =>
                 \/ list[j].day < list[k].day
                 \/ list[j].day = list[k].day /\ list[j].minute <= list[k].minute
<1>1. events \in Seq(S)
  BY DEF Enumerates
<1>2. PICK n \in Nat : n = Len(events) /\ DOMAIN events = 1 .. n
  BY <1>1
<1>3. PICK D : D = 1 .. n
  OBVIOUS
<1>4. IsFiniteSet(D) /\ Cardinality(D) = n
  <2>1. IsFiniteSet(1 .. n) /\ Cardinality(1 .. n) = n
    BY FS_Interval
  <2> QED
    BY <1>3, <2>1
<1>5. \A i \in D : events[i] \in S /\ events[i].day \in Int /\ events[i].minute \in 0 .. 1439
  <2> SUFFICES ASSUME NEW i \in D
               PROVE  events[i] \in S /\ events[i].day \in Int /\ events[i].minute \in 0 .. 1439
    OBVIOUS
  <2>1. events[i] \in S
    BY <1>1, <1>2, <1>3
  <2> QED
    BY <2>1 DEF Dated
<1>6. PICK at : at = [i \in D |-> 1440 * events[i].day + events[i].minute]
  OBVIOUS
<1>7. \A i \in D : at[i] \in Int /\ i \in Nat
  <2> SUFFICES ASSUME NEW i \in D PROVE at[i] \in Int /\ i \in Nat
    OBVIOUS
  <2>1. PICK x \in Int : x = events[i].day
    BY <1>5
  <2>2. PICK y \in 0 .. 1439 : y = events[i].minute
    BY <1>5
  <2>3. at[i] = 1440 * x + y
    BY <1>6, <2>1, <2>2
  <2> QED
    BY <1>3, <2>3
<1>8. PICK before : before = Earlier(at)
  OBVIOUS
<1>9. \A i, j \in D : <<i, j>> \in before <=> (at[i] < at[j] \/ (at[i] = at[j] /\ i < j))
  BY <1>6, <1>8 DEF Earlier
<1>10. IsOrderOf(before, D)
  <2>1. \A i \in D : <<i, i>> \notin before
    BY <1>7, <1>9
  <2>2. ASSUME NEW i \in D, NEW j \in D, NEW k \in D, <<i, j>> \in before, <<j, k>> \in before
        PROVE  <<i, k>> \in before
    <3>1. at[i] \in Int /\ at[j] \in Int /\ at[k] \in Int /\ i \in Nat /\ j \in Nat /\ k \in Nat
      BY <1>7
    <3>2. /\ at[i] < at[j] \/ (at[i] = at[j] /\ i < j)
          /\ at[j] < at[k] \/ (at[j] = at[k] /\ j < k)
      BY <1>9, <2>2
    <3>3. at[i] < at[k] \/ (at[i] = at[k] /\ i < k)
      BY <3>1, <3>2
    <3> QED
      BY <1>9, <3>3
  <2> QED
    BY <2>1, <2>2 DEF IsOrderOf
<1>11. PICK sorted : sorted = InOrder(D, before)
  OBVIOUS
<1>12. /\ sorted \in Seq(D) /\ Len(sorted) = n
       /\ \A j, k \in DOMAIN sorted : sorted[j] = sorted[k] => j = k
       /\ \A i \in D : \E k \in DOMAIN sorted : sorted[k] = i
       /\ \A j, k \in DOMAIN sorted : j < k => <<sorted[k], sorted[j]>> \notin before
  BY <1>4, <1>10, <1>11, InOrderListed
<1>13. DOMAIN sorted = D /\ \A k \in D : sorted[k] \in D
  BY <1>3, <1>12
<1>14. list = [k \in D |-> events[sorted[k]]]
  BY <1>2, <1>3, <1>6, <1>8, <1>11, <1>13 DEF ByTime
<1>15. list \in Seq(S) /\ DOMAIN list = D
  <2>1. list \in [1 .. n -> S]
    BY <1>3, <1>5, <1>13, <1>14
  <2> QED
    BY <1>3, <2>1, FunctionIsList
<1>16. \A j, k \in D : list[j] = list[k] => j = k
  <2> SUFFICES ASSUME NEW j \in D, NEW k \in D, list[j] = list[k] PROVE j = k
    OBVIOUS
  <2>1. events[sorted[j]] = events[sorted[k]] /\ sorted[j] \in D /\ sorted[k] \in D
    BY <1>13, <1>14
  <2>2. sorted[j] = sorted[k]
    BY <1>2, <1>3, <2>1 DEF Enumerates
  <2> QED
    BY <1>12, <1>13, <2>2
<1>17. \A x \in S : \E k \in D : list[k] = x
  <2> SUFFICES ASSUME NEW x \in S PROVE \E k \in D : list[k] = x
    OBVIOUS
  <2>1. PICK i \in D : events[i] = x
    BY <1>2, <1>3 DEF Enumerates
  <2>2. PICK k \in D : sorted[k] = i
    BY <1>12, <1>13
  <2> QED
    BY <1>14, <2>1, <2>2
<1>18. ASSUME NEW j \in D, NEW k \in D, j < k
       PROVE  \/ list[j].day < list[k].day
              \/ list[j].day = list[k].day /\ list[j].minute <= list[k].minute
  <2>1. sorted[j] \in D /\ sorted[k] \in D /\ <<sorted[k], sorted[j]>> \notin before
    BY <1>12, <1>13, <1>18
  <2>2. PICK a \in D, b \in D : a = sorted[j] /\ b = sorted[k] /\ <<b, a>> \notin before
    BY <2>1
  <2>3. ~(at[b] < at[a]) /\ at[a] \in Int /\ at[b] \in Int
    BY <1>7, <1>9, <2>2
  <2>4. PICK x \in Int, y \in Int : x = events[a].day /\ y = events[b].day
    BY <1>5
  <2>5. PICK p \in 0 .. 1439 : p = events[a].minute
    BY <1>5
  <2>6. PICK q \in 0 .. 1439 : q = events[b].minute
    BY <1>5
  <2>7. 1440 * x + p <= 1440 * y + q
    BY <1>6, <2>3, <2>4, <2>5, <2>6
  <2>8. x < y \/ (x = y /\ p <= q)
    BY <2>7
  <2> QED
    BY <1>14, <2>2, <2>4, <2>5, <2>8, <2>6
<1> QED
  BY <1>15, <1>16, <1>17, <1>18 DEF Enumerates

(* The events of a title, by what they are. *)
LEMMA EventsOnAre ==
    ASSUME NEW title, NEW days \in SUBSET Int, NEW minute \in 0 .. 1439,
           NEW S, S = EventsOn(title, days, minute)
    PROVE  /\ Dated(S)
           /\ \A x \in S : x.title = title
           /\ \A x : x \in S <=> x = Event(title, x.day, minute) /\ x.day \in days
<1>1. \A x \in S : \E d \in days : x = Event(title, d, minute)
  BY DEF EventsOn
<1>2. \A d \in days : Event(title, d, minute) \in S
  BY DEF EventsOn
<1>3. \A d \in days : /\ Event(title, d, minute).title = title /\ Event(title, d, minute).day = d
                       /\ Event(title, d, minute).minute = minute
  BY DEF Event
<1>4. ASSUME NEW x \in S
      PROVE  x.title = title /\ x.day \in days /\ x.minute = minute /\ x = Event(title, x.day, minute)
  <2>1. PICK d \in days : x = Event(title, d, minute)
    BY <1>1
  <2>2. x.day = d
    BY <1>3, <2>1
  <2> QED
    BY <1>3, <2>1, <2>2
<1>5. ASSUME NEW x \in S PROVE x.day \in Int /\ x.minute \in 0 .. 1439
  <2>1. x.day \in days /\ x.minute = minute
    BY <1>4
  <2>2. x.day \in Int
    BY <2>1
  <2> QED
    BY <2>1, <2>2
<1>6. ASSUME NEW x, x = Event(title, x.day, minute), x.day \in days PROVE x \in S
  <2>1. PICK d \in days : d = x.day
    BY <1>6
  <2>2. Event(title, d, minute) \in S
    BY <1>2
  <2> QED
    BY <1>6, <2>1, <2>2
<1> QED
  BY <1>4, <1>5, <1>6 DEF Dated

(* What the calendar knows of, whenever it is asked. *)
Released(e) ==
    \/ e = Event(FomcDecision, e.day, 1080) /\ e.day \in ToSet(_FOMC_DATES)
    \/ e = Event(UsCpi, e.day, 810) /\ e.day \in ToSet(_CPI_DATES)
    \/ e = Event(UsPayrolls, e.day, 810) /\ PayrollDay(e.day)
    \/ e = Event(UsClaims, e.day, 810) /\ Weekday(e.day) = 3
    \/ e = Event(TrCpi, e.day, 420) /\ CpiDay(e.day)
    \/ e = Event(EcbDecision, e.day, 795) /\ e.day \in ToSet(_ECB_DATES)

(* An answer for a window holds just that, each once and in order.         *)
Calendared(list, from, days) ==
    /\ \A i, j \in DOMAIN list : list[i] = list[j] => i = j
    /\ \A e : e \in ToSet(list) <=> Released(e) /\ e.day \in from .. from + days
    /\ \E n \in Nat : n = Len(list) /\ DOMAIN list = 1 .. n
    /\ \A j, k \in DOMAIN list : j < k =>
          \/ list[j].day < list[k].day
          \/ list[j].day = list[k].day /\ list[j].minute <= list[k].minute

(* The calendar built for a window is such an answer. *)
LEMMA CalendarBuilt ==
    ASSUME NEW from \in Nat, NEW days \in 1 .. 60
    PROVE  Calendared(build_economic_calendar(from, days), from, days)
<1>1. PICK end \in Nat : end = from + days /\ from <= end /\ end <= from + 365
  OBVIOUS
<1>2. 1080 \in 0 .. 1439 /\ 810 \in 0 .. 1439 /\ 420 \in 0 .. 1439 /\ 795 \in 0 .. 1439
  OBVIOUS
<1>3. /\ FomcDecision # UsCpi /\ FomcDecision # UsPayrolls /\ FomcDecision # UsClaims /\ FomcDecision # TrCpi
      /\ FomcDecision # EcbDecision /\ UsCpi # UsPayrolls /\ UsCpi # UsClaims /\ UsCpi # TrCpi /\ UsCpi # EcbDecision
      /\ UsPayrolls # UsClaims /\ UsPayrolls # TrCpi /\ UsPayrolls # EcbDecision /\ UsClaims # TrCpi
      /\ UsClaims # EcbDecision /\ TrCpi # EcbDecision
  BY DEF FomcDecision, UsCpi, UsPayrolls, UsClaims, TrCpi, EcbDecision
<1>4. PICK list : list = build_economic_calendar(from, days)
  OBVIOUS
<1>5. PICK daysA : daysA = ToSet(_FOMC_DATES) \cap (from .. end)
  OBVIOUS
<1>6. PICK A : A = EventsOn(FomcDecision, daysA, 1080)
  OBVIOUS
<1>7. PICK a : a = Scheduled(FomcDecision, _FOMC_DATES, 1080, from, end)
  OBVIOUS
<1>8. Enumerates(a, A)
  BY ScheduledListed, <1>5, <1>6, <1>7, FomcListed
<1>9. /\ Dated(A) /\ \A x \in A : x.title = FomcDecision
      /\ \A x : x \in A <=> x = Event(FomcDecision, x.day, 1080) /\ x.day \in daysA
  <2>1. daysA \in SUBSET Int
    BY <1>5
  <2> QED
    BY <2>1, <1>2, <1>6, EventsOnAre
<1>10. PICK daysB : daysB = ToSet(_CPI_DATES) \cap (from .. end)
  OBVIOUS
<1>11. PICK B : B = EventsOn(UsCpi, daysB, 810)
  OBVIOUS
<1>12. PICK b : b = Scheduled(UsCpi, _CPI_DATES, 810, from, end)
  OBVIOUS
<1>13. Enumerates(b, B)
  BY ScheduledListed, <1>10, <1>11, <1>12, CpiListed
<1>14. /\ Dated(B) /\ \A x \in B : x.title = UsCpi
       /\ \A x : x \in B <=> x = Event(UsCpi, x.day, 810) /\ x.day \in daysB
  <2>1. daysB \in SUBSET Int
    BY <1>10
  <2> QED
    BY <2>1, <1>2, <1>11, EventsOnAre
<1>15. PICK daysC : daysC = {x \in from .. end : PayrollDay(x)}
  OBVIOUS
<1>16. PICK C : C = EventsOn(UsPayrolls, daysC, 810)
  OBVIOUS
<1>17. PICK c : c = NonFarmPayrolls(from, end)
  OBVIOUS
<1>18. Enumerates(c, C)
  BY <1>1, <1>15, <1>16, <1>17, PayrollsListed
<1>19. /\ Dated(C) /\ \A x \in C : x.title = UsPayrolls
       /\ \A x : x \in C <=> x = Event(UsPayrolls, x.day, 810) /\ x.day \in daysC
  <2>1. daysC \in SUBSET Int
    BY <1>15
  <2> QED
    BY <2>1, <1>2, <1>16, EventsOnAre
<1>20. PICK daysD : daysD = {x \in from .. end : Weekday(x) = 3}
  OBVIOUS
<1>21. PICK D : D = EventsOn(UsClaims, daysD, 810)
  OBVIOUS
<1>22. PICK d : d = JoblessClaims(from, end)
  OBVIOUS
<1>23. Enumerates(d, D)
  BY <1>1, <1>20, <1>21, <1>22, ClaimsListed
<1>24. /\ Dated(D) /\ \A x \in D : x.title = UsClaims
       /\ \A x : x \in D <=> x = Event(UsClaims, x.day, 810) /\ x.day \in daysD
  <2>1. daysD \in SUBSET Int
    BY <1>20
  <2> QED
    BY <2>1, <1>2, <1>21, EventsOnAre
<1>25. PICK daysE : daysE = {x \in from .. end : CpiDay(x)}
  OBVIOUS
<1>26. PICK E : E = EventsOn(TrCpi, daysE, 420)
  OBVIOUS
<1>27. PICK e : e = TurkeyCpi(from, end)
  OBVIOUS
<1>28. Enumerates(e, E)
  BY <1>1, <1>25, <1>26, <1>27, TurkeyListed
<1>29. /\ Dated(E) /\ \A x \in E : x.title = TrCpi
       /\ \A x : x \in E <=> x = Event(TrCpi, x.day, 420) /\ x.day \in daysE
  <2>1. daysE \in SUBSET Int
    BY <1>25
  <2> QED
    BY <2>1, <1>2, <1>26, EventsOnAre
<1>30. PICK daysF : daysF = ToSet(_ECB_DATES) \cap (from .. end)
  OBVIOUS
<1>31. PICK F : F = EventsOn(EcbDecision, daysF, 795)
  OBVIOUS
<1>32. PICK f : f = Scheduled(EcbDecision, _ECB_DATES, 795, from, end)
  OBVIOUS
<1>33. Enumerates(f, F)
  BY ScheduledListed, <1>30, <1>31, <1>32, EcbListed
<1>34. /\ Dated(F) /\ \A x \in F : x.title = EcbDecision
       /\ \A x : x \in F <=> x = Event(EcbDecision, x.day, 795) /\ x.day \in daysF
  <2>1. daysF \in SUBSET Int
    BY <1>30
  <2> QED
    BY <2>1, <1>2, <1>31, EventsOnAre
<1>35. /\ A \cap B = {} /\ (A \cup B) \cap C = {} /\ (A \cup B \cup C) \cap D = {}
       /\ (A \cup B \cup C \cup D) \cap E = {} /\ (A \cup B \cup C \cup D \cup E) \cap F = {}
  BY <1>3, <1>9, <1>14, <1>19, <1>24, <1>29, <1>34
<1>36. PICK events, S : /\ events = a \o b \o c \o d \o e \o f
                        /\ S = A \cup B \cup C \cup D \cup E \cup F
  OBVIOUS
<1>37. Enumerates(events, S)
  <2>1. Enumerates(a \o b, A \cup B)
    BY <1>8, <1>13, <1>35, EnumeratedJoined
  <2>2. Enumerates(a \o b \o c, A \cup B \cup C)
    BY <1>18, <1>35, <2>1, EnumeratedJoined
  <2>3. Enumerates(a \o b \o c \o d, A \cup B \cup C \cup D)
    BY <1>23, <1>35, <2>2, EnumeratedJoined
  <2>4. Enumerates(a \o b \o c \o d \o e, A \cup B \cup C \cup D \cup E)
    BY <1>28, <1>35, <2>3, EnumeratedJoined
  <2>5. Enumerates(a \o b \o c \o d \o e \o f, A \cup B \cup C \cup D \cup E \cup F)
    BY <1>33, <1>35, <2>4, EnumeratedJoined
  <2> QED
    BY <1>36, <2>5
<1>38. Dated(S)
  <2>1. /\ \A x \in A : x.day \in Int /\ x.minute \in 0 .. 1439
        /\ \A x \in B : x.day \in Int /\ x.minute \in 0 .. 1439
        /\ \A x \in C : x.day \in Int /\ x.minute \in 0 .. 1439
        /\ \A x \in D : x.day \in Int /\ x.minute \in 0 .. 1439
        /\ \A x \in E : x.day \in Int /\ x.minute \in 0 .. 1439
        /\ \A x \in F : x.day \in Int /\ x.minute \in 0 .. 1439
    BY <1>9, <1>14, <1>19, <1>24, <1>29, <1>34 DEF Dated
  <2> QED
    BY <1>36, <2>1 DEF Dated
<1>39. list = ByTime(events)
  BY <1>1, <1>4, <1>7, <1>12, <1>17, <1>22, <1>27, <1>32, <1>36 DEF build_economic_calendar
<1>40. /\ Enumerates(list, S)
       /\ \A j, k \in DOMAIN list : j < k =>
             \/ list[j].day < list[k].day
             \/ list[j].day = list[k].day /\ list[j].minute <= list[k].minute
  BY <1>37, <1>38, <1>39, ByTimeSorts
<1>41. ASSUME NEW x
       PROVE  x \in S <=> Released(x) /\ x.day \in from .. end
  <2>1. x \in A <=> x = Event(FomcDecision, x.day, 1080) /\ x.day \in ToSet(_FOMC_DATES) /\ x.day \in from .. end
    BY <1>5, <1>9
  <2>2. x \in B <=> x = Event(UsCpi, x.day, 810) /\ x.day \in ToSet(_CPI_DATES) /\ x.day \in from .. end
    BY <1>10, <1>14
  <2>3. x \in C <=> x = Event(UsPayrolls, x.day, 810) /\ PayrollDay(x.day) /\ x.day \in from .. end
    BY <1>15, <1>19
  <2>4. x \in D <=> x = Event(UsClaims, x.day, 810) /\ Weekday(x.day) = 3 /\ x.day \in from .. end
    BY <1>20, <1>24
  <2>5. x \in E <=> x = Event(TrCpi, x.day, 420) /\ CpiDay(x.day) /\ x.day \in from .. end
    BY <1>25, <1>29
  <2>6. x \in F <=> x = Event(EcbDecision, x.day, 795) /\ x.day \in ToSet(_ECB_DATES) /\ x.day \in from .. end
    BY <1>30, <1>34
  <2>7. x \in S <=> x \in A \/ x \in B \/ x \in C \/ x \in D \/ x \in E \/ x \in F
    BY <1>36
  <2> QED
    BY <2>1, <2>2, <2>3, <2>4, <2>5, <2>6, <2>7 DEF Released
<1>42. \A x : x \in ToSet(list) <=> Released(x) /\ x.day \in from .. end
  BY <1>40, <1>41, ListingHolds
<1>43. /\ \A i, j \in DOMAIN list : list[i] = list[j] => i = j
       /\ \E k \in Nat : k = Len(list) /\ DOMAIN list = 1 .. k
  <2>1. list \in Seq(S)
    BY <1>40 DEF Enumerates
  <2>2. \E k \in Nat : k = Len(list) /\ DOMAIN list = 1 .. k
    BY <2>1
  <2> QED
    BY <1>40, <2>2 DEF Enumerates
<1> QED
  BY <1>1, <1>4, <1>40, <1>42, <1>43 DEF Calendared

(* The events of a title in an answer are on the days its rule names. *)
LEMMA MonthlyIn ==
    ASSUME NEW from \in Nat, NEW days \in 1 .. 60, NEW list, Calendared(list, from, days),
           NEW d \in from .. from + days
    PROVE  /\ (\E e \in ToSet(list) : e.title = UsPayrolls /\ e.day = d) <=> PayrollDay(d)
           /\ (\E e \in ToSet(list) : e.title = TrCpi /\ e.day = d) <=> CpiDay(d)
<1>1. \A e : e \in ToSet(list) <=> Released(e) /\ e.day \in from .. from + days
  BY DEF Calendared
<1>2. /\ FomcDecision # UsPayrolls /\ UsCpi # UsPayrolls /\ UsClaims # UsPayrolls /\ TrCpi # UsPayrolls
      /\ EcbDecision # UsPayrolls /\ FomcDecision # TrCpi /\ UsCpi # TrCpi /\ UsClaims # TrCpi /\ EcbDecision # TrCpi
  BY DEF FomcDecision, UsCpi, UsPayrolls, UsClaims, TrCpi, EcbDecision
<1>3. \A title, day, minute : /\ Event(title, day, minute).title = title
                              /\ Event(title, day, minute).day = day
  BY DEF Event
<1>4. ASSUME NEW e \in ToSet(list), e.title = UsPayrolls PROVE PayrollDay(e.day)
  BY <1>1, <1>2, <1>3, <1>4 DEF Released
<1>5. ASSUME NEW e \in ToSet(list), e.title = TrCpi PROVE CpiDay(e.day)
  BY <1>1, <1>2, <1>3, <1>5 DEF Released
<1>6. ASSUME PayrollDay(d) PROVE \E e \in ToSet(list) : e.title = UsPayrolls /\ e.day = d
  <2>1. PICK e : e = Event(UsPayrolls, d, 810)
    OBVIOUS
  <2>2. e.title = UsPayrolls /\ e.day = d
    BY <1>3, <2>1
  <2>3. Released(e)
    BY <1>6, <2>1, <2>2 DEF Released
  <2> QED
    BY <1>1, <2>2, <2>3
<1>7. ASSUME CpiDay(d) PROVE \E e \in ToSet(list) : e.title = TrCpi /\ e.day = d
  <2>1. PICK e : e = Event(TrCpi, d, 420)
    OBVIOUS
  <2>2. e.title = TrCpi /\ e.day = d
    BY <1>3, <2>1
  <2>3. Released(e)
    BY <1>7, <2>1, <2>2 DEF Released
  <2> QED
    BY <1>1, <2>2, <2>3
<1> QED
  BY <1>4, <1>5, <1>6, <1>7

(* No event stands twice in an answer, and none before an earlier one. *)
LEMMA AnswerInOrder ==
    ASSUME NEW from \in Nat, NEW days \in 1 .. 60, NEW list, Calendared(list, from, days),
           NEW i \in 2 .. Len(list)
    PROVE  /\ \/ list[i - 1].day < list[i].day
              \/ list[i - 1].day = list[i].day /\ list[i - 1].minute <= list[i].minute
           /\ \A j \in 1 .. i - 1 : list[j] # list[i]
<1>1. \A j, k \in DOMAIN list : list[j] = list[k] => j = k
  BY DEF Calendared
<1>2. \A j, k \in DOMAIN list : j < k =>
         \/ list[j].day < list[k].day
         \/ list[j].day = list[k].day /\ list[j].minute <= list[k].minute
  BY DEF Calendared
<1>3. PICK n \in Nat : n = Len(list) /\ DOMAIN list = 1 .. n
  BY DEF Calendared
<1>4. i \in 1 .. n /\ i - 1 \in 1 .. n /\ i - 1 < i
  BY <1>3
<1>5. \A j \in 1 .. i - 1 : j \in 1 .. n /\ j # i
  BY <1>3, <1>4
<1> QED
  BY <1>1, <1>2, <1>3, <1>4, <1>5

-----------------------------------------------------------------------------
(* From one answer to the next                                             *)

(* The last answer is today's or yesterday's, or there is none yet. *)
NoCalendar == [from |-> FirstDay, days |-> -1, events |-> <<>>]
CalendarOf(f, n) == [from |-> f, days |-> n, events |-> build_economic_calendar(f, n)]

CalInv ==
    /\ today \in Nat
    /\ \/ shown = NoCalendar /\ today = FirstDay
       \/ \E f \in Nat, n \in 1 .. 60 : (f = today \/ f = today - 1) /\ shown = CalendarOf(f, n)

LEMMA CalInvInit == CalInit => CalInv
  BY CalAssumption DEF CalInit, CalInv, NoCalendar

LEMMA CalInvNext == CalInv /\ [CalNext]_calVars => CalInv'
<1> SUFFICES ASSUME CalInv, [CalNext]_calVars PROVE CalInv'
  OBVIOUS
<1>1. today \in Nat
  BY DEF CalInv
<1>2. CASE EconomicCalendar
  <2>1. PICK n \in 1 .. 60 : shown' = CalendarOf(today, n) /\ today' = today
    BY <1>2, CalAssumption DEF EconomicCalendar, CalendarOf
  <2> QED
    BY <1>1, <2>1 DEF CalInv
<1>3. CASE Midnight
  <2>1. shown' = shown /\ shown.days # -1 /\ shown.from = today /\ today' = today + 1
    BY <1>3 DEF Midnight
  <2>2. shown # NoCalendar
    BY <2>1 DEF NoCalendar
  <2>3. PICK f \in Nat, n \in 1 .. 60 : shown = CalendarOf(f, n)
    BY <2>2 DEF CalInv
  <2>4. f = today' - 1 /\ today' \in Nat
    BY <1>1, <2>1, <2>3 DEF CalendarOf
  <2> QED
    BY <2>1, <2>3, <2>4 DEF CalInv
<1>4. CASE UNCHANGED calVars
  BY <1>4 DEF CalInv, calVars
<1> QED
  BY <1>2, <1>3, <1>4 DEF CalNext

(* The events of two answers that lie ahead of the later one and within     *)
(* both are the same.                                                      *)
LEMMA AheadAgrees ==
    ASSUME NEW f \in Nat, NEW n \in 1 .. 60, NEW g \in Nat, NEW m \in 1 .. 60, f <= g,
           NEW old, Calendared(old, f, n), NEW new, Calendared(new, g, m),
           NEW e, e.day >= g, e.day <= f + n, e.day <= g + m
    PROVE  e \in ToSet(old) <=> e \in ToSet(new)
<1>1. e \in ToSet(old) <=> Released(e) /\ e.day \in f .. f + n
  BY DEF Calendared
<1>2. e \in ToSet(new) <=> Released(e) /\ e.day \in g .. g + m
  BY DEF Calendared
<1> QED
  BY <1>1, <1>2

(* Each step keeps to what CalendarSteady says of two answers. *)
LEMMA CalStepSteady ==
    ASSUME CalInv, CalNext, shown' # shown
    PROVE  /\ LET ends == {shown.from + shown.days, shown'.from + shown'.days}
                  Ahead(events) == {e \in ToSet(events) : e.day >= shown'.from /\ \A last \in ends : e.day <= last}
              IN  Ahead(shown.events) = Ahead(shown'.events)
           /\ NoEventTwice'
           /\ MonthlyReleases'
<1>1. PICK g \in Nat, m \in 1 .. 60 : shown' = CalendarOf(g, m) /\ g = today
  BY CalAssumption DEF CalInv, CalNext, EconomicCalendar, Midnight, CalendarOf
<1>2. PICK new : new = build_economic_calendar(g, m)
  OBVIOUS
<1>3. Calendared(new, g, m)
  BY <1>2, CalendarBuilt
<1>4. shown'.from = g /\ shown'.days = m /\ shown'.events = new
  BY <1>1, <1>2 DEF CalendarOf
<1>5. LET ends == {shown.from + shown.days, shown'.from + shown'.days}
          Ahead(events) == {e \in ToSet(events) : e.day >= shown'.from /\ \A last \in ends : e.day <= last}
      IN  Ahead(shown.events) = Ahead(shown'.events)
  <2>1. CASE shown = NoCalendar /\ today = FirstDay
    <3>1. shown.from = g /\ shown.days = -1 /\ shown.events = <<>>
      BY <1>1, <2>1 DEF NoCalendar
    <3>2. ToSet(shown.events) = {}
      BY <3>1 DEF ToSet
    <3>3. \A e \in ToSet(new) : e.day \in g .. g + m
      BY <1>3 DEF Calendared
    <3>4. \A e \in ToSet(new) : ~(e.day <= g + (-1))
      BY <3>3
    <3>5. {e \in ToSet(new) : e.day >= g /\ \A last \in {g + (-1), g + m} : e.day <= last} = {}
      BY <3>4
    <3> QED
      BY <1>4, <3>1, <3>2, <3>5
  <2>2. ASSUME NEW f \in Nat, NEW n \in 1 .. 60, f = today \/ f = today - 1, shown = CalendarOf(f, n)
        PROVE  LET ends == {shown.from + shown.days, shown'.from + shown'.days}
                   Ahead(events) == {e \in ToSet(events) : e.day >= shown'.from /\ \A last \in ends : e.day <= last}
               IN  Ahead(shown.events) = Ahead(shown'.events)
    <3>1. PICK old : old = build_economic_calendar(f, n)
      OBVIOUS
    <3>2. Calendared(old, f, n)
      BY <3>1, CalendarBuilt
    <3>3. shown.from = f /\ shown.days = n /\ shown.events = old /\ f <= g
      BY <1>1, <2>2, <3>1 DEF CalendarOf
    <3>4. {e \in ToSet(old) : e.day >= g /\ \A last \in {f + n, g + m} : e.day <= last}
          = {e \in ToSet(new) : e.day >= g /\ \A last \in {f + n, g + m} : e.day <= last}
      <4>1. ASSUME NEW e, e.day >= g, \A last \in {f + n, g + m} : e.day <= last
            PROVE  e \in ToSet(old) <=> e \in ToSet(new)
        <5>1. e.day <= f + n /\ e.day <= g + m
          BY <4>1
        <5> QED
          BY <1>3, <3>3, <3>2, <4>1, <5>1, AheadAgrees
      <4> QED
        BY <4>1
    <3> QED
      BY <1>4, <3>3, <3>4
  <2> QED
    BY <2>1, <2>2 DEF CalInv
<1>6. NoEventTwice'
  <2> SUFFICES ASSUME NEW i \in 2 .. Len(new)
               PROVE  /\ \/ new[i - 1].day < new[i].day
                         \/ new[i - 1].day = new[i].day /\ new[i - 1].minute <= new[i].minute
                      /\ \A j \in 1 .. i - 1 : new[j] # new[i]
    BY <1>4 DEF NoEventTwice
  <2> QED
    BY <1>3, AnswerInOrder
<1>7. MonthlyReleases'
  <2> SUFFICES ASSUME NEW d \in g .. g + m
               PROVE  /\ d \in {e.day : e \in {f \in ToSet(new) : f.title = UsPayrolls}}
                         <=> Weekday(d) = 4 /\ d - MonthStart(d) + 1 <= 7
                      /\ d \in {e.day : e \in {f \in ToSet(new) : f.title = TrCpi}}
                         <=> Weekday(d) = 1 /\ d - MonthStart(d) + 1 \in 8 .. 14
    BY <1>4 DEF MonthlyReleases
  <2>1. /\ (\E e \in ToSet(new) : e.title = UsPayrolls /\ e.day = d) <=> PayrollDay(d)
        /\ (\E e \in ToSet(new) : e.title = TrCpi /\ e.day = d) <=> CpiDay(d)
    BY <1>3, MonthlyIn
  <2>2. d \in {e.day : e \in {f \in ToSet(new) : f.title = UsPayrolls}} <=> PayrollDay(d)
    BY <2>1
  <2>3. d \in {e.day : e \in {f \in ToSet(new) : f.title = TrCpi}} <=> CpiDay(d)
    BY <2>1
  <2> QED
    BY <2>2, <2>3 DEF PayrollDay, CpiDay
<1> QED
  BY <1>5, <1>6, <1>7

THEOREM CalendarSteadyCorrect == CalSpec => CalendarSteady
<1>1. CalSpec => []CalInv
  BY CalInvInit, CalInvNext, PTL DEF CalSpec
<1>2. CalInv /\ [CalNext]_calVars => [LET ends == {shown.from + shown.days, shown'.from + shown'.days}
           Ahead(events) == {e \in ToSet(events) : e.day >= shown'.from /\ \A last \in ends : e.day <= last}
       IN  /\ Ahead(shown.events) = Ahead(shown'.events)
           /\ NoEventTwice'
           /\ MonthlyReleases']_shown
  BY CalStepSteady DEF calVars
<1> QED
  BY <1>1, <1>2, PTL DEF CalSpec, CalendarSteady
=============================================================================
