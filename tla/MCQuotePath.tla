----------------------------- MODULE MCQuotePath -----------------------------
(***************************************************************************)
(* What a quote on the screen needs: the supervisor that brings the engine *)
(* up, the cache that fetches it and the stream that carries it.  They     *)
(* share no variable, so a behaviour picks one of them and follows it      *)
(* alone; the run is as large as their sum, not their product.             *)
(***************************************************************************)
EXTENDS EngineManager, QuoteCache, MarketStream

VARIABLE focus      \* the part this behaviour follows

MCInit ==
    /\ focus \in {"supervisor", "cache", "stream"}
    /\ SupInit /\ CacheInit /\ Init
    /\ focus # "supervisor" => ~other /\ ~dev
    /\ focus # "stream" => up

MCNext ==
    \/ focus = "supervisor" /\ SupNext /\ UNCHANGED <<focus, cacheVars, vars>>
    \/ focus = "cache" /\ CacheNext /\ UNCHANGED <<focus, supVars, vars>>
    \/ focus = "stream" /\ Next /\ UNCHANGED <<focus, supVars, cacheVars>>

(* The fairness of each part.  At rest only the supervisor has something to *)
(* do by itself, so only its fairness asks whether it is followed.          *)
MCSpec ==
    /\ MCInit /\ [][MCNext]_<<focus, supVars, cacheVars, vars>>
    /\ WF_supVars(focus = "supervisor" /\ ManagerStep)
    /\ CacheFairness /\ Fairness
=============================================================================
