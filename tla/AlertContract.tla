---------------------------- MODULE AlertContract ----------------------------
(***************************************************************************)
(* What the alert monitor promises to whoever creates an alert, with no    *)
(* ticks, snapshots, threads, ids or sockets (app/alerts/schemas.py:3-5:   *)
(* an alert is evaluated "respecting a cooldown" and emits events).        *)
(*                                                                         *)
(* An alert is on, or it has been switched off (or deleted) and may still  *)
(* fire once ("closing"), or it is off.  It fires at a time that keeps its *)
(* distance from every earlier one, by a cooldown it has had.              *)
(***************************************************************************)
EXTENDS Integers, Sequences

CONSTANTS Alerts, Cooldowns

VARIABLES
    status,   \* each alert: "none", "on", "closing" or "off"
    had,      \* the cooldowns each alert has had
    log,      \* the events, in order
    time

vars == <<status, had, log, time>>

Init ==
    /\ status = [a \in Alerts |-> "none"]
    /\ had = [a \in Alerts |-> {}]
    /\ log = <<>>
    /\ time = 0

(* The user creates an alert, or sets its cooldown and its switch. *)
Configure(a, cooldown, on) ==
    /\ had' = [had EXCEPT ![a] = @ \cup {cooldown}]
    /\ status' = [status EXCEPT ![a] =
                    IF on THEN "on" ELSE IF @ = "on" THEN "closing" ELSE @]
    /\ UNCHANGED <<log, time>>

Remove(a) ==
    /\ status[a] = "on"
    /\ status' = [status EXCEPT ![a] = "closing"]
    /\ UNCHANGED <<had, log, time>>

Fire(a, at, cooldown) ==
    /\ status[a] \in {"on", "closing"}
    /\ cooldown \in had[a]
    /\ at <= time
    /\ \A i \in DOMAIN log : log[i].owner = a => at - log[i].at >= cooldown
    /\ log' = Append(log, [owner |-> a, at |-> at, cooldown |-> cooldown])
    /\ status' = [status EXCEPT ![a] = IF @ = "closing" THEN "off" ELSE @]
    /\ UNCHANGED <<had, time>>

Pass ==
    /\ time' = time + 1
    /\ UNCHANGED <<status, had, log>>

Next ==
    \/ \E a \in Alerts, d \in Cooldowns :
         \/ \E on \in BOOLEAN : Configure(a, d, on)
         \/ \E at \in 0..time : Fire(a, at, d)
    \/ \E a \in Alerts : Remove(a)
    \/ Pass

Spec == Init /\ [][Next]_vars
=============================================================================
