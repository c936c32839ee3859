---------------------------- MODULE EngineManager ----------------------------
(***************************************************************************)
(* The supervisor of the engine in the Electron main process               *)
(* (apps/desktop/src/main/engine/manager.ts), with the processes that can  *)
(* serve its port: the one it spawns and one it does not own.              *)
(*                                                                         *)
(* start() is one async function that awaits health probes; the exit       *)
(* handler of the child awaits one of its own; stop() runs between any two *)
(* of their steps.  A probe takes its answer at one moment and its         *)
(* continuation acts on it at a later one.                                 *)
(***************************************************************************)
EXTENDS Integers

CONSTANTS
    DevModes,    \* the values of BORSA_DEV_ENGINE = "1" (an orchestrator owns
                 \* the engine) to consider
    MayOther,    \* TRUE: somebody else may run an engine on the port
    MayCrash,    \* TRUE: the child may die by itself
    MaxPolls     \* bound: probes before the deadline of waitForHealth

ASSUME ManagerConstants ==
    /\ DevModes \subseteq BOOLEAN /\ MayOther \in BOOLEAN /\ MayCrash \in BOOLEAN
    /\ MaxPolls \in Nat \ {0}

VARIABLES
    status,     \* "starting", "ready", "error" or "stopped"
    child,      \* this.child is set
    external,   \* this.external
    start,      \* where start() stands
    polls,      \* probes waitForHealth has made
    exit,       \* where the exit handler's re-probe stands
    own,        \* the process spawned; "failed" when there is a handle only
    other,      \* an engine of somebody else serves the port
    dev,        \* the environment's BORSA_DEV_ENGINE = "1"
    quit        \* stop() was called: "no", "early" or "settled" (with nothing of
                \* start() or of the exit handler left to run); for properties

mgrVars  == <<status, child, external>>
procVars == <<own, other>>
supVars == <<mgrVars, start, polls, exit, procVars, dev, quit>>

(* GET /health answers. *)
Healthy == own = "up" \/ other

(***************************************************************************)
(* start()                                                                 *)
(***************************************************************************)

(* An awaited probe: its answer, then the continuation. *)
Answer(asking, yes, no) ==
    /\ start = asking
    /\ start' = IF Healthy THEN yes ELSE no
    /\ UNCHANGED <<mgrVars, polls, exit, procVars, dev, quit>>

StartCalled ==
    /\ start = "idle"
    /\ status' = "starting"
    /\ start' = IF dev THEN "poll" ELSE "probe"
    /\ UNCHANGED <<child, external, polls, exit, procVars, dev, quit>>

ProbeAnswered == Answer("probe", "found", "absent")

Attach ==
    /\ start = "found"
    /\ external' = TRUE
    /\ status' = "ready"
    /\ start' = "done"
    /\ UNCHANGED <<child, polls, exit, procVars, dev, quit>>

(* spawnEngine: resolveLaunch throws when the packaged binary is missing;   *)
(* spawn itself throws nothing.  An interpreter that is not there or may    *)
(* not be run comes as an "error" event, which nobody listens to: the       *)
(* handle stays, there is no process, and no "exit" will come.              *)
Spawn ==
    /\ start = "absent"
    /\ \/ /\ child' = TRUE
          /\ own' \in {"booting", "failed"}
          /\ start' = "poll"
          /\ UNCHANGED status
       \/ /\ status' = "error"
          /\ start' = "done"
          /\ UNCHANGED <<child, own>>
    /\ UNCHANGED <<external, polls, exit, other, dev, quit>>

(* waitForHealth *)
PollAnswered == Answer("poll", "pollYes", "pollNo")

PollYes ==
    /\ start = "pollYes"
    /\ status' = "ready"
    /\ external' = (external \/ dev)
    /\ start' = "done"
    /\ UNCHANGED <<child, polls, exit, procVars, dev, quit>>

(* Mutant: the deadline moves with every probe. *)
PollNo_Forever ==
    /\ start = "pollNo"
    /\ start' = "poll"
    /\ UNCHANGED <<mgrVars, polls, exit, procVars, dev, quit>>

(* After the pause the deadline is looked at, not the engine. *)
PollNo ==
    /\ start = "pollNo"
    /\ polls < MaxPolls
    /\ polls' = polls + 1
    /\ start' = "poll"
    /\ UNCHANGED <<mgrVars, exit, procVars, dev, quit>>

Deadline ==
    /\ start = "pollNo"
    /\ polls = MaxPolls
    /\ status' = "error"
    /\ external' = (external \/ dev)
    /\ start' = "done"
    /\ UNCHANGED <<child, polls, exit, procVars, dev, quit>>

(***************************************************************************)
(* The exit handler of the child.                                          *)
(***************************************************************************)

(* Mutant: the handler does not ask whether stop() was called. *)
Exited_Always ==
    /\ own = "exited"
    /\ own' = "gone"
    /\ child' = FALSE
    /\ exit' = "probe"
    /\ UNCHANGED <<status, external, start, polls, other, dev, quit>>

(* Mutant: the handler keeps the handle of the dead child. *)
Exited_KeepsChild ==
    /\ own = "exited"
    /\ own' = "gone"
    /\ exit' = IF status = "stopped" THEN exit ELSE "probe"
    /\ UNCHANGED <<mgrVars, start, polls, other, dev, quit>>

Exited ==
    /\ own = "exited"
    /\ own' = "gone"
    /\ child' = FALSE
    /\ exit' = IF status = "stopped" THEN exit ELSE "probe"
    /\ UNCHANGED <<status, external, start, polls, other, dev, quit>>

ReprobeAnswered ==
    /\ exit = "probe"
    /\ exit' = IF Healthy THEN "yes" ELSE "no"
    /\ UNCHANGED <<mgrVars, start, polls, procVars, dev, quit>>

ReprobeDone ==
    /\ exit \in {"yes", "no"}
    /\ exit' = "done"
    /\ external' = (external \/ exit = "yes")
    /\ status' = IF exit = "yes" THEN "ready" ELSE "error"
    /\ UNCHANGED <<child, start, polls, procVars, dev, quit>>

(***************************************************************************)
(* stop(), on before-quit.                                                 *)
(***************************************************************************)

(* Nothing of start() or of the exit handler is still to run. *)
Settled == start = "done" /\ exit \in {"none", "done"}

Stop ==
    /\ start # "idle" /\ quit = "no"
    /\ status' = "stopped"
    /\ LET kills == child /\ ~external
       IN  /\ child' = (child /\ ~kills)
           /\ own' = IF kills /\ own \in {"booting", "up"} THEN "killed" ELSE own
    /\ quit' = IF Settled THEN "settled" ELSE "early"
    /\ UNCHANGED <<external, start, polls, exit, other, dev>>

(***************************************************************************)
(* The processes.  Two engines cannot serve one port.                      *)
(***************************************************************************)

OwnUp ==
    /\ own = "booting" /\ ~other
    /\ own' = "up"
    /\ UNCHANGED <<mgrVars, start, polls, exit, other, dev, quit>>

(* It was killed, could not bind, or crashed. *)
OwnExits ==
    /\ \/ own = "killed"
       \/ own = "booting" /\ other
       \/ own \in {"booting", "up"} /\ MayCrash
    /\ own' = "exited"
    /\ UNCHANGED <<mgrVars, start, polls, exit, other, dev, quit>>

OtherChanges ==
    /\ MayOther
    /\ other' = ~other
    /\ other' => own # "up"
    /\ UNCHANGED <<mgrVars, start, polls, exit, own, dev, quit>>

(***************************************************************************)
(* The specification.                                                      *)
(***************************************************************************)

SupInit ==
    /\ status = "stopped" /\ child = FALSE /\ external = FALSE
    /\ start = "idle" /\ polls = 0 /\ exit = "none"
    /\ own = "none"
    /\ other \in {FALSE, MayOther}
    /\ dev \in DevModes
    /\ quit = "no"

ManagerStep ==
    \/ StartCalled \/ ProbeAnswered \/ Attach \/ Spawn
    \/ PollAnswered \/ PollYes \/ PollNo \/ Deadline
    \/ Exited \/ ReprobeAnswered \/ ReprobeDone

ProcessStep == OwnUp \/ OwnExits \/ OtherChanges

SupNext == ManagerStep \/ Stop \/ ProcessStep

SupSpec == SupInit /\ [][SupNext]_supVars

(* Probes are answered or time out (AbortSignal.timeout), and the event    *)
(* loop of the main process runs what is ready.                            *)
SupLiveSpec == SupSpec /\ WF_supVars(ManagerStep)

(***************************************************************************)
(* Properties.                                                             *)
(***************************************************************************)

(* Every variable holds what its declaration says. *)
SupTypeOK ==
    /\ status \in {"starting", "ready", "error", "stopped"}
    /\ child \in BOOLEAN /\ external \in BOOLEAN
    /\ start \in {"idle", "probe", "found", "absent", "poll", "pollYes", "pollNo", "done"}
    /\ polls \in 0..MaxPolls
    /\ exit \in {"none", "probe", "yes", "no", "done"}
    /\ own \in {"none", "booting", "failed", "up", "killed", "exited", "gone"}
    /\ other \in BOOLEAN
    /\ dev \in BOOLEAN /\ quit \in {"no", "early", "settled"}

(* Until stop() is called, whatever runs of ours is in this.child, so that *)
(* nothing escapes it; and a handle without a process is that of a spawn   *)
(* that failed, which no exit event clears, or of a process whose exit     *)
(* event is about to.                                                      *)
ChildIsOwn ==
    quit = "no" => (child <=> own \in {"booting", "up", "exited", "failed"})

(* stop() after start() has settled leaves no engine of ours behind and    *)
(* the status "stopped", whatever exit events are still to come.           *)
CleanStop == quit = "settled" => own \notin {"booting", "up"} /\ status = "stopped"

(* The inductive invariant behind them: before a spawn there is no child,  *)
(* an orchestrated engine is never ours, the exit handler runs for a dead  *)
(* child only, and a child is never taken for somebody else's engine.      *)
SupervisorInv ==
    /\ SupTypeOK
    /\ ChildIsOwn
    /\ CleanStop
    /\ start \in {"idle", "probe", "found", "absent"} => own = "none" /\ ~external
    /\ dev => own = "none" /\ start \notin {"probe", "found", "absent"}
    /\ exit # "none" => own = "gone"
    /\ quit = "no" /\ child => ~external
    /\ quit = "no" => own # "killed"
    /\ quit = "settled" => Settled

(* start() always settles on a status. *)
StartSettles == start # "idle" ~> Settled

(* The main process supervises the lifecycle of the engine it spawns       *)
(* (app/main.py:6-7): none is left running once stop() has been called and *)
(* start() has come to its end.                                            *)
NoOrphan == quit # "no" /\ start = "done" => own \notin {"booting", "up"}
=============================================================================
