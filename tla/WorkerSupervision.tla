------------------------- MODULE WorkerSupervision -------------------------
(***************************************************************************)
(* Who is allowed to trade.  A container runs a shell supervisor and one   *)
(* autonomy worker.  Containers share a volume, which holds the flock of   *)
(* the single-instance guard and the STOP file of the scheduler.  During a *)
(* rolling redeploy two containers overlap on that volume.                 *)
(*                                                                         *)
(* The pid metadata beside the lock is left out: it only words the error   *)
(* of a refused worker and decides nothing.                                *)
(***************************************************************************)
EXTENDS Naturals

CONSTANTS
    Containers,     \* container instances that may be wanted by the platform
    None,           \* nobody holds the lock
    MaxDisruptions  \* bound on redeploys, failed boots and deaths

ASSUME ContainersAssumption ==
    /\ None \notin Containers
    /\ Containers # {}
    /\ MaxDisruptions \in Nat

VARIABLES
    wanted,       \* the container the platform keeps running
    sup,          \* container -> where its supervisor is
    wrk,          \* container -> where its worker is
    owner,        \* holder of the flock
    stop,         \* the STOP file exists
    asked,        \* observer: a supervisor touched STOP since the last start
    disruptions   \* disruptions so far

vars == <<wanted, sup, wrk, owner, stop, asked, disruptions>>

SupStates == {"off", "watch", "cleanup", "touch", "term"}
Alive     == {"lock", "boot", "start", "loop", "enter", "tick", "stopped", "release"}
Holding   == Alive \ {"lock"}
WrkStates == Alive \cup {"none", "exit"}

Init ==
    /\ wanted \in Containers
    /\ sup = [c \in Containers |-> "off"]
    /\ wrk = [c \in Containers |-> "none"]
    /\ owner = None
    /\ stop = FALSE
    /\ asked = FALSE
    /\ disruptions = 0

WrkGoes(c, from, to) == wrk[c] = from /\ wrk' = [wrk EXCEPT ![c] = to]
SupGoes(c, from, to) == sup[c] = from /\ sup' = [sup EXCEPT ![c] = to]

Disrupt == disruptions < MaxDisruptions /\ disruptions' = disruptions + 1

(* The kernel drops the flock of a process that ends.                      *)
Ends(c) ==
    /\ wrk' = [wrk EXCEPT ![c] = "exit"]
    /\ owner' = IF owner = c THEN None ELSE owner

-----------------------------------------------------------------------------
(* The worker: run_forever.                                                *)

Acquire(c) ==
    /\ WrkGoes(c, "lock", "boot")
    /\ owner = None /\ owner' = c
    /\ UNCHANGED <<wanted, sup, stop, asked, disruptions>>
\* Mutant: a refused lock is logged and the worker goes on.
AcquireIgnored(c) ==
    /\ WrkGoes(c, "lock", "boot")
    /\ owner # None
    /\ UNCHANGED <<wanted, sup, owner, stop, asked, disruptions>>

(* DUPLICATE_WORKER: the guard does not wait, the process returns.         *)
AcquireRefused(c) ==
    /\ WrkGoes(c, "lock", "exit")
    /\ owner # None
    /\ UNCHANGED <<wanted, sup, owner, stop, asked, disruptions>>

BootReady(c) ==
    /\ WrkGoes(c, "boot", "start")
    /\ UNCHANGED <<wanted, sup, owner, stop, asked, disruptions>>

BootFailed(c) ==
    /\ wrk[c] = "boot" /\ Disrupt
    /\ Ends(c)
    /\ UNCHANGED <<wanted, sup, stop, asked>>
\* Mutant: a STOP file left by an earlier life stays.
StartKeepsStop(c) ==
    /\ WrkGoes(c, "start", "loop")
    /\ asked' = FALSE
    /\ UNCHANGED <<wanted, sup, owner, stop, disruptions>>

(* A STOP file left by an earlier life is removed.                         *)
StartScheduler(c) ==
    /\ WrkGoes(c, "start", "loop")
    /\ stop' = FALSE
    /\ asked' = FALSE
    /\ UNCHANGED <<wanted, sup, owner, disruptions>>

LoopContinues(c) ==
    /\ WrkGoes(c, "loop", "enter")
    /\ ~stop
    /\ UNCHANGED <<wanted, sup, owner, stop, asked, disruptions>>
\* Mutant: the lock is given back before scheduler.stop().
LoopBreaksReleasing(c) ==
    /\ WrkGoes(c, "loop", "stopped")
    /\ stop
    /\ owner' = None
    /\ UNCHANGED <<wanted, sup, stop, asked, disruptions>>

LoopBreaks(c) ==
    /\ WrkGoes(c, "loop", "stopped")
    /\ stop
    /\ UNCHANGED <<wanted, sup, owner, stop, asked, disruptions>>

\* Mutant: the tick trusts the look at STOP its loop had.
TickBeginsUnchecked(c) ==
    /\ WrkGoes(c, "enter", "tick")
    /\ UNCHANGED <<wanted, sup, owner, stop, asked, disruptions>>

(* The tick looks at STOP again, after the AI probes.                      *)
TickBegins(c) ==
    /\ WrkGoes(c, "enter", "tick")
    /\ ~stop
    /\ UNCHANGED <<wanted, sup, owner, stop, asked, disruptions>>

TickStopped(c) ==
    /\ WrkGoes(c, "enter", "loop")
    /\ stop
    /\ UNCHANGED <<wanted, sup, owner, stop, asked, disruptions>>

TickEnds(c) ==
    /\ WrkGoes(c, "tick", "loop")
    /\ UNCHANGED <<wanted, sup, owner, stop, asked, disruptions>>

(* scheduler.stop() writes STOP itself ...                                 *)
StopScheduler(c) ==
    /\ WrkGoes(c, "stopped", "release")
    /\ stop' = TRUE
    /\ UNCHANGED <<wanted, sup, owner, asked, disruptions>>

(* ... and only then is the lock given back.                               *)
Release(c) ==
    /\ wrk[c] = "release"
    /\ Ends(c)
    /\ UNCHANGED <<wanted, sup, stop, asked, disruptions>>

Worker(c) ==
    \/ Acquire(c) \/ AcquireRefused(c) \/ BootReady(c) \/ StartScheduler(c)
    \/ LoopContinues(c) \/ LoopBreaks(c)
    \/ TickBegins(c) \/ TickStopped(c) \/ TickEnds(c)
    \/ StopScheduler(c) \/ Release(c)

-----------------------------------------------------------------------------
(* The supervisor: start.sh.                                               *)

Launch(c) ==
    /\ c = wanted
    /\ SupGoes(c, "off", "watch")
    /\ WrkGoes(c, "none", "lock")
    /\ UNCHANGED <<wanted, owner, stop, asked, disruptions>>

(* Either child is gone: tear the other one down and exit non-zero.        *)
WorkerGone(c) ==
    /\ SupGoes(c, "watch", "cleanup")
    /\ wrk[c] = "exit"
    /\ UNCHANGED <<wanted, wrk, owner, stop, asked, disruptions>>

WebGone(c) ==
    /\ SupGoes(c, "watch", "cleanup")
    /\ Disrupt
    /\ UNCHANGED <<wanted, wrk, owner, stop, asked>>

(* The platform retires a container that is no longer wanted.              *)
Retired(c) ==
    /\ SupGoes(c, "watch", "cleanup")
    /\ c # wanted
    /\ UNCHANGED <<wanted, wrk, owner, stop, asked, disruptions>>

(* kill -0 on the worker decides whether STOP is touched at all.           *)
SeesWorker(c) ==
    /\ SupGoes(c, "cleanup", "touch")
    /\ wrk[c] \in Alive
    /\ UNCHANGED <<wanted, wrk, owner, stop, asked, disruptions>>

SeesNoWorker(c) ==
    /\ SupGoes(c, "cleanup", "off")
    /\ WrkGoes(c, "exit", "none")
    /\ UNCHANGED <<wanted, owner, stop, asked, disruptions>>

TouchStop(c) ==
    /\ SupGoes(c, "touch", "term")
    /\ stop' = TRUE
    /\ asked' = TRUE
    /\ UNCHANGED <<wanted, wrk, owner, disruptions>>
\* Mutant: a dead child is not reaped, and its lock is kept.
SendTermUnreaped(c) ==
    /\ SupGoes(c, "term", "off")
    /\ wrk' = [wrk EXCEPT ![c] = "zombie"]
    /\ UNCHANGED <<wanted, owner, stop, asked, disruptions>>

(* SIGTERM follows at once.  The worker installs no handler, so it ends    *)
(* wherever it is.                                                         *)
SendTerm(c) ==
    /\ SupGoes(c, "term", "off")
    /\ wrk' = [wrk EXCEPT ![c] = "none"]
    /\ owner' = IF owner = c THEN None ELSE owner
    /\ UNCHANGED <<wanted, stop, asked, disruptions>>

Supervisor(c) ==
    \/ Launch(c) \/ WorkerGone(c) \/ Retired(c)
    \/ SeesWorker(c) \/ SeesNoWorker(c) \/ TouchStop(c) \/ SendTerm(c)

-----------------------------------------------------------------------------
(* The environment.                                                        *)

Redeploy ==
    /\ Disrupt
    /\ wanted' \in Containers \ {wanted}
    /\ UNCHANGED <<sup, wrk, owner, stop, asked>>

Dies(c) ==
    /\ wrk[c] \in Alive /\ Disrupt
    /\ Ends(c)
    /\ UNCHANGED <<wanted, sup, stop, asked>>

Next ==
    \/ Redeploy
    \/ \E c \in Containers :
          Worker(c) \/ Supervisor(c) \/ BootFailed(c) \/ WebGone(c) \/ Dies(c)

Spec == Init /\ [][Next]_vars

(* Processes are scheduled; the platform restarts the wanted container and *)
(* retires the others.                                                     *)
Fairness ==
    \A c \in Containers : WF_vars(Worker(c)) /\ WF_vars(Supervisor(c))

FairSpec == Spec /\ Fairness

-----------------------------------------------------------------------------
(* Properties.                                                             *)

(* Every variable stays in its type.                                       *)
TypeOK ==
    /\ wanted \in Containers
    /\ sup \in [Containers -> SupStates]
    /\ wrk \in [Containers -> WrkStates]
    /\ owner \in Containers \cup {None}
    /\ stop \in BOOLEAN
    /\ asked \in BOOLEAN
    /\ disruptions \in 0 .. MaxDisruptions

(* "One trading engine": no two containers have a worker between its lock  *)
(* and its exit, however deploys overlap and processes die.                *)
OneTrader ==
    \A c, d \in Containers : wrk[c] \in Holding /\ wrk[d] \in Holding => c = d

(* A worker leaves its loop only because some supervisor has asked for a   *)
(* stop since that worker started: neither a STOP file of an earlier life  *)
(* nor the one a retiring worker writes for itself stops its successor.    *)
StopsOnlyWhenAsked ==
    \A c \in Containers : wrk[c] = "stopped" => asked

(* Redeploys, deaths, failed boots and leftover files never lock trading   *)
(* out: once disruptions cease, ticks go on.                               *)
TradingResumes == []<>(\E c \in Containers : wrk[c] = "tick")

(* What TradingTerm sees of the flock's owner.                             *)
TermPhase ==
    IF owner = None THEN "vacant"
    ELSE IF wrk[owner] \in {"boot", "start"} THEN "preparing"
    ELSE IF wrk[owner] \in {"loop", "enter"} THEN "serving"
    ELSE IF wrk[owner] = "tick" THEN "ticking" ELSE "leaving"

Term == INSTANCE TradingTerm WITH Candidates <- Containers, Nobody <- None,
                                  holder <- owner, phase <- TermPhase,
                                  notice <- asked

(* Through overlapping containers, STOP files and deaths, the workers hold *)
(* the one office of TradingTerm: a tick never begins once a stop was      *)
(* asked of the worker that serves, and it serves until then or until it   *)
(* dies.                                                                   *)
ImplementsTerm == Term!TSpec

(* "Prefer graceful STOP file": a supervisor does not end a worker in the  *)
(* middle of a tick.                                                       *)
GracefulShutdown ==
    [][\A c \in Containers :
          sup[c] = "term" /\ sup'[c] = "off" => wrk[c] # "tick"]_vars

=============================================================================
