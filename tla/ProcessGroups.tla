---------------------------- MODULE ProcessGroups ----------------------------
(* A child process, the group that it leads, and the runtime that owns it: a *)
(* time limit, a cancellation or the leader's own exit starts one termination, *)
(* SIGTERM and after a grace SIGKILL, and the outcome is returned when the    *)
(* group is gone and the output is closed. POSIX only.                        *)
(*                                                                            *)
(* Sources: runtime/proc/run, runtime/proc/termination.                       *)
EXTENDS Naturals

CONSTANT Owners     \* who runs children, one at a time each
VARIABLE proc       \* per owner: its latest child

(* A member of the group that outlives the leader may keep the output open.  *)
Child(limited, crew, keeps) ==
    [at |-> "running", limited |-> limited, leader |-> "alive", code |-> "none", crew |-> crew, keeps |-> keeps,
     seen |-> FALSE, stop |-> "none", term |-> "none", killed |-> FALSE]
NoChild == [Child(FALSE, FALSE, FALSE) EXCEPT !.at = "none", !.leader = "none"]

Running(o) == proc[o].at = "running"
Alive(o) == proc[o].leader = "alive" \/ proc[o].crew

(* A leader that exited stays in its group until the runtime has seen it.    *)
GroupExists(o) == ~proc[o].seen \/ proc[o].crew

-----------------------------------------------------------------------------
(* What processes do by themselves                                           *)

LeaderExits(o) ==
    /\ proc[o].leader = "alive"
    /\ \E code \in {"zero", "other", "killed"} :
         proc' = [proc EXCEPT ![o].leader = "exited", ![o].code = code]
CrewEnds(o) ==
    /\ proc[o].crew
    /\ proc' = [proc EXCEPT ![o].crew = FALSE]

(* SIGKILL reaches every member.                                             *)
KernelKills(o) ==
    /\ proc[o].killed /\ Alive(o)
    /\ proc' = [proc EXCEPT ![o].leader = "exited", ![o].crew = FALSE,
                            ![o].code = IF proc[o].leader = "alive" THEN "killed" ELSE @]

-----------------------------------------------------------------------------
(* The termination, of which there is one. Where a signal may fail, "sent"   *)
(* says how it went: delivered, refused (EPERM), or failed.                   *)

Terminating(r, sent) == IF r.term = "none" THEN [r EXCEPT !.term = sent] ELSE r

(* Who stops a child first says what it is stopped for; nobody does once its *)
(* exit was seen.                                                            *)
Stoppable(o) == Running(o) /\ ~proc[o].seen /\ proc[o].stop = "none"
RequestStop(o, reason, sent) ==
    proc' = [proc EXCEPT ![o] = Terminating([@ EXCEPT !.stop = reason], sent)]
LimitPasses(o, sent) == Stoppable(o) /\ proc[o].limited /\ RequestStop(o, "timeout", sent)

(* Mutation: the group is left to itself when its leader exits.              *)
SeeExitOnly(o, sent) ==
    /\ Running(o) /\ proc[o].leader = "exited" /\ ~proc[o].seen
    /\ proc' = [proc EXCEPT ![o].seen = TRUE, ![o].term = IF @ = "none" THEN "done" ELSE @]
(* The leader's exit starts the termination of the rest, for the rest may    *)
(* keep the output from being closed.                                        *)
SeeExit(o, sent) ==
    /\ Running(o) /\ proc[o].leader = "exited" /\ ~proc[o].seen
    /\ proc' = [proc EXCEPT ![o] = Terminating([@ EXCEPT !.seen = TRUE], sent)]

To(o, stage) == proc' = [proc EXCEPT ![o].term = stage]

(* A refused signal is forgiven if the leader exits within the grace.        *)
Refused(o) ==
    /\ Running(o) /\ proc[o].term = "refused"
    /\ To(o, IF proc[o].seen THEN IF proc[o].killed THEN "polling" ELSE "sent" ELSE "failed")
AfterSignal(o) ==
    /\ Running(o) /\ proc[o].term = "sent"
    /\ To(o, IF GroupExists(o) THEN "grace" ELSE "leader")

(* Mutation: who does not heed SIGTERM is waited for.                        *)
NeverKill(o, sent) ==
    /\ Running(o) /\ proc[o].term = "grace" /\ ~GroupExists(o)
    /\ To(o, "leader")
GraceOver(o, sent) ==
    /\ Running(o) /\ proc[o].term = "grace"
    /\ IF GroupExists(o)
         THEN proc' = [proc EXCEPT ![o].killed = sent # "failed",
                                   ![o].term = IF sent = "sent" THEN "polling" ELSE sent]
         ELSE To(o, "leader")

(* The group is polled for as long as the grace, then given up.              *)
GroupGone(o) ==
    /\ Running(o) /\ proc[o].term = "polling" /\ ~GroupExists(o)
    /\ To(o, "leader")
GiveUp(o) ==
    /\ Running(o) /\ proc[o].term = "polling" /\ GroupExists(o)
    /\ To(o, "failed")
LeaderSeen(o) ==
    /\ Running(o) /\ proc[o].term = "leader" /\ proc[o].seen
    /\ To(o, "done")

Stage(o) == Refused(o) \/ AfterSignal(o) \/ GroupGone(o) \/ LeaderSeen(o)

-----------------------------------------------------------------------------
(* The outcome                                                               *)

Closed(o) == proc[o].seen /\ ~(proc[o].crew /\ proc[o].keeps)
Returns(o) == Running(o) /\ (proc[o].term = "failed" \/ (Closed(o) /\ proc[o].term = "done"))

(* A failed termination is thrown; a stop counts for more than the status.   *)
Outcome(o) ==
    IF proc[o].term = "failed" THEN "thrown"
    ELSE IF proc[o].stop # "none" THEN proc[o].stop
    ELSE IF proc[o].code = "killed" THEN "unknown"
    ELSE IF proc[o].code = "zero" THEN "zero" ELSE "other"
(* What is left of a child is whether any of its group lives.                *)
Reap(o) ==
    proc' = [proc EXCEPT ![o] = [NoChild EXCEPT !.at = "over", !.leader = proc[o].leader, !.crew = proc[o].crew,
                                                !.term = proc[o].term, !.killed = proc[o].killed /\ Alive(o)]]
=============================================================================
