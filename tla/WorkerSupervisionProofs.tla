---------------------- MODULE WorkerSupervisionProofs ----------------------
(***************************************************************************)
(* Theorems about WorkerSupervision, for any number of containers,         *)
(* redeploys, failed boots and deaths.                                     *)
(***************************************************************************)
EXTENDS WorkerSupervision, TLAPS

(* A worker past its lock is the one the kernel knows as the owner.        *)
OwnerInv == \A c \in Containers : wrk[c] \in Holding => owner = c

(* A STOP file seen by a worker that has started was asked for since.      *)
StopInv ==
    \A c \in Containers :
        /\ wrk[c] \in {"loop", "enter", "tick"} /\ stop => asked
        /\ wrk[c] = "stopped" => asked

(* Every variable of the supervisors and workers keeps its type, through   *)
(* every step of a worker, a supervisor or the platform.                   *)
THEOREM SupervisionTypeCorrect == Spec => []TypeOK
<1>. USE ContainersAssumption DEF SupStates, WrkStates, Alive
<1>1. Init => TypeOK
  <2>. SUFFICES ASSUME Init PROVE TypeOK
    OBVIOUS
  <2>1. stop \in BOOLEAN /\ asked \in BOOLEAN
    BY Zenon DEF Init
  <2>2. /\ wanted \in Containers /\ owner \in Containers \cup {None}
        /\ sup \in [Containers -> SupStates]
        /\ wrk \in [Containers -> WrkStates]
        /\ disruptions \in 0 .. MaxDisruptions
    BY DEF Init
  <2>. QED BY <2>1, <2>2 DEF TypeOK
<1>2. TypeOK /\ [Next]_vars => TypeOK'
  <2>. SUFFICES ASSUME TypeOK, [Next]_vars PROVE TypeOK'
    OBVIOUS
  <2>. USE DEF TypeOK, WrkGoes, SupGoes, Disrupt, Ends
  <2>1. ASSUME NEW c \in Containers, Worker(c) PROVE TypeOK'
    BY <2>1
    DEF Worker, Acquire, AcquireRefused, BootReady, StartScheduler,
        LoopContinues, LoopBreaks, TickBegins, TickStopped, TickEnds,
        StopScheduler, Release
  <2>2. ASSUME NEW c \in Containers, Supervisor(c) PROVE TypeOK'
    BY <2>2
    DEF Supervisor, Launch, WorkerGone, Retired, SeesWorker, SeesNoWorker,
        TouchStop, SendTerm
  <2>3. ASSUME NEW c \in Containers, BootFailed(c) \/ WebGone(c) \/ Dies(c)
        PROVE  TypeOK'
    BY <2>3 DEF BootFailed, WebGone, Dies
  <2>4. CASE Redeploy
    BY <2>4 DEF Redeploy
  <2>5. CASE UNCHANGED vars
    BY <2>5 DEF vars
  <2>. QED BY <2>1, <2>2, <2>3, <2>4, <2>5 DEF Next
<1>. QED
  BY <1>1, <1>2, PTL DEF Spec

(* The flock follows the worker through boot, loop, stop and death. *)
LEMMA OwnerInvariant == Spec => []OwnerInv
<1>. USE DEF Holding, Alive
<1>1. Init => OwnerInv
  BY DEF Init, OwnerInv
<1>2. TypeOK /\ OwnerInv /\ [Next]_vars => OwnerInv'
  <2>. SUFFICES ASSUME TypeOK, OwnerInv, [Next]_vars PROVE OwnerInv'
    OBVIOUS
  <2>. USE DEF TypeOK, OwnerInv, WrkGoes, SupGoes, Ends
  <2>1. ASSUME NEW c \in Containers, Worker(c) PROVE OwnerInv'
    <3>1. CASE Acquire(c)
      BY <3>1, ContainersAssumption DEF Acquire
    <3>2. CASE Release(c)
      BY <3>2 DEF Release
    <3>3. CASE ~Acquire(c) /\ ~Release(c)
      BY <2>1, <3>3
      DEF Worker, AcquireRefused, BootReady, StartScheduler, LoopContinues,
          LoopBreaks, TickBegins, TickStopped, TickEnds, StopScheduler
    <3>. QED BY <3>1, <3>2, <3>3
  <2>2. ASSUME NEW c \in Containers, Supervisor(c) PROVE OwnerInv'
    BY <2>2
    DEF Supervisor, Launch, WorkerGone, Retired, SeesWorker, SeesNoWorker,
        TouchStop, SendTerm
  <2>3. ASSUME NEW c \in Containers, BootFailed(c) \/ WebGone(c) \/ Dies(c)
        PROVE  OwnerInv'
    BY <2>3 DEF BootFailed, WebGone, Dies
  <2>4. CASE Redeploy
    BY <2>4 DEF Redeploy
  <2>5. CASE UNCHANGED vars
    BY <2>5 DEF vars
  <2>. QED BY <2>1, <2>2, <2>3, <2>4, <2>5 DEF Next
<1>. QED
  BY <1>1, <1>2, SupervisionTypeCorrect, PTL DEF Spec

(* "One trading engine": whatever the number of overlapping containers and *)
(* however they die, only one worker is between its lock and its exit.     *)
THEOREM SingleTrader == Spec => []OneTrader
<1>1. OwnerInv => OneTrader
  BY DEF OwnerInv, OneTrader
<1>. QED
  BY <1>1, OwnerInvariant, PTL

(* What a worker that has started sees of STOP was asked for since. *)
LEMMA StopInvariant == Spec => []StopInv
<1>1. Init => StopInv
  BY DEF Init, StopInv
<1>2. TypeOK /\ OneTrader /\ StopInv /\ [Next]_vars => StopInv'
  <2>. SUFFICES ASSUME TypeOK, OneTrader, StopInv, [Next]_vars PROVE StopInv'
    OBVIOUS
  <2>. USE DEF TypeOK, StopInv, WrkGoes, SupGoes, Ends
  <2>1. ASSUME NEW c \in Containers, Worker(c) PROVE StopInv'
    <3>1. CASE StartScheduler(c) \/ StopScheduler(c)
      BY <3>1 DEF StartScheduler, StopScheduler, OneTrader, Holding, Alive
    <3>2. CASE ~StartScheduler(c) /\ ~StopScheduler(c)
      BY <2>1, <3>2
      DEF Worker, Acquire, AcquireRefused, BootReady, LoopContinues,
          LoopBreaks, TickBegins, TickStopped, TickEnds, Release
    <3>. QED BY <3>1, <3>2
  <2>2. ASSUME NEW c \in Containers, Supervisor(c) PROVE StopInv'
    BY <2>2
    DEF Supervisor, Launch, WorkerGone, Retired, SeesWorker, SeesNoWorker,
        TouchStop, SendTerm
  <2>3. ASSUME NEW c \in Containers, BootFailed(c) \/ WebGone(c) \/ Dies(c)
        PROVE  StopInv'
    BY <2>3 DEF BootFailed, WebGone, Dies
  <2>4. CASE Redeploy
    BY <2>4 DEF Redeploy
  <2>5. CASE UNCHANGED vars
    BY <2>5 DEF vars
  <2>. QED BY <2>1, <2>2, <2>3, <2>4, <2>5 DEF Next
<1>. QED
  BY <1>1, <1>2, SupervisionTypeCorrect, SingleTrader, PTL DEF Spec

(* A worker leaves its loop only when a supervisor asked for it since that *)
(* worker started: the STOP file its predecessor wrote for itself, or that *)
(* was left on the volume, cannot stop it.                                 *)
THEOREM StopIsAskedFor == Spec => []StopsOnlyWhenAsked
<1>1. StopInv => StopsOnlyWhenAsked
  BY DEF StopInv, StopsOnlyWhenAsked
<1>. QED BY <1>1, StopInvariant, PTL

-----------------------------------------------------------------------------
(* The refinement of TradingTerm *)

(* The flock is held by a live worker past its lock. *)
HeldInv == owner # None => wrk[owner] \in Holding

(* A stop that was asked for is still to be seen on the volume. *)
NoticeInv == asked => stop

TermInv == TypeOK /\ OwnerInv /\ OneTrader /\ StopInv /\ HeldInv /\ NoticeInv

LEMMA TermInvariant == Spec => []TermInv
<1>. USE DEF Holding, Alive
<1>1. Init => HeldInv /\ NoticeInv
  BY DEF Init, HeldInv, NoticeInv
<1>2. ASSUME TypeOK, OwnerInv, HeldInv, NoticeInv, [Next]_vars
      PROVE  HeldInv' /\ NoticeInv'
  <2>. USE <1>2 DEF TypeOK, OwnerInv, HeldInv, NoticeInv, WrkGoes, SupGoes, Ends
  <2>1. ASSUME NEW c \in Containers, Worker(c) PROVE HeldInv' /\ NoticeInv'
    <3>1. CASE Acquire(c) \/ Release(c) \/ AcquireRefused(c)
      BY <3>1, ContainersAssumption DEF Acquire, Release, AcquireRefused
    <3>2. CASE StartScheduler(c) \/ StopScheduler(c)
      BY <3>2 DEF StartScheduler, StopScheduler
    <3>3. CASE \/ BootReady(c) \/ LoopContinues(c) \/ LoopBreaks(c)
               \/ TickBegins(c) \/ TickStopped(c) \/ TickEnds(c)
      BY <3>3
      DEF BootReady, LoopContinues, LoopBreaks, TickBegins, TickStopped, TickEnds
    <3>. QED BY <2>1, <3>1, <3>2, <3>3 DEF Worker
  <2>2. ASSUME NEW c \in Containers, Supervisor(c) PROVE HeldInv' /\ NoticeInv'
    BY <2>2
    DEF Supervisor, Launch, WorkerGone, Retired, SeesWorker, SeesNoWorker,
        TouchStop, SendTerm
  <2>3. ASSUME NEW c \in Containers, BootFailed(c) \/ WebGone(c) \/ Dies(c)
        PROVE  HeldInv' /\ NoticeInv'
    BY <2>3 DEF BootFailed, WebGone, Dies
  <2>4. CASE Redeploy \/ UNCHANGED vars
    BY <2>4 DEF Redeploy, vars
  <2>. QED BY <1>2, <2>1, <2>2, <2>3, <2>4 DEF Next
<1>3. TypeOK /\ OwnerInv /\ HeldInv /\ NoticeInv /\ [Next]_vars => (HeldInv /\ NoticeInv)'
  BY <1>2
<1>4. TypeOK /\ OwnerInv /\ OneTrader /\ StopInv /\ HeldInv /\ NoticeInv <=> TermInv
  BY DEF TermInv
<1>. QED
  BY <1>1, <1>3, <1>4, SupervisionTypeCorrect, OwnerInvariant, SingleTrader, StopInvariant,
     PTL DEF Spec

(* A step of the owner's worker is one of its term, or nothing to it. *)
LEMMA OwnerMoves ==
  ASSUME TermInv, NEW c \in Containers, Worker(c)
  PROVE  Term!TNext \/ UNCHANGED Term!tvars
<1>. USE DEF TermInv, TypeOK, OwnerInv, HeldInv, Holding, Alive, WrkGoes, Ends, TermPhase,
         Term!TNext, Term!tvars
<1>0. c # None
  BY ContainersAssumption
<1>1. CASE Acquire(c)
  BY <1>0, <1>1 DEF Acquire, Term!Take
<1>2. CASE Release(c)
  BY <1>0, <1>2 DEF Release, Term!Vacate
<1>3. CASE StartScheduler(c)
  BY <1>0, <1>3 DEF StartScheduler, Term!BeginService, Term!Goes
<1>4. CASE LoopBreaks(c)
  BY <1>0, <1>4 DEF LoopBreaks, Term!Resign, Term!Goes, StopInv
<1>5. CASE TickBegins(c)
  BY <1>0, <1>5 DEF TickBegins, Term!BeginTick, Term!Goes, NoticeInv
<1>6. CASE TickEnds(c)
  BY <1>0, <1>6 DEF TickEnds, Term!EndTick, Term!Goes
<1>7. CASE AcquireRefused(c)
  BY <1>0, <1>7 DEF AcquireRefused
<1>8. CASE BootReady(c) \/ LoopContinues(c) \/ TickStopped(c) \/ StopScheduler(c)
  BY <1>0, <1>8 DEF BootReady, LoopContinues, TickStopped, StopScheduler
<1>. QED BY <1>1, <1>2, <1>3, <1>4, <1>5, <1>6, <1>7, <1>8 DEF Worker

(* The supervisors give notice and end terms. *)
LEMMA SupervisorMoves ==
  ASSUME TermInv, NEW c \in Containers, Supervisor(c)
  PROVE  Term!TNext \/ UNCHANGED Term!tvars
<1>. USE DEF TermInv, TypeOK, OwnerInv, HeldInv, Holding, Alive, WrkGoes, SupGoes, TermPhase,
         Term!TNext, Term!tvars
<1>0. c # None
  BY ContainersAssumption
<1>1. CASE TouchStop(c)
  BY <1>0, <1>1 DEF TouchStop, Term!GiveNotice
<1>2. CASE SendTerm(c)
  BY <1>0, <1>2 DEF SendTerm, Term!Vacate
<1>3. CASE Launch(c) \/ SeesNoWorker(c)
  BY <1>0, <1>3 DEF Launch, SeesNoWorker
<1>4. CASE WorkerGone(c) \/ Retired(c) \/ SeesWorker(c)
  BY <1>0, <1>4 DEF WorkerGone, Retired, SeesWorker
<1>. QED BY <1>1, <1>2, <1>3, <1>4 DEF Supervisor

(* The workers of any number of containers hold one office, a term at a    *)
(* time, and no tick begins in it after a stop was asked for.              *)
THEOREM SupervisionRefinesTerm == Spec => ImplementsTerm
<1>1. Init => Term!TInit
  BY DEF Init, Term!TInit, TermPhase
<1>2. ASSUME TermInv, [Next]_vars
      PROVE  [Term!TNext]_(Term!tvars)
  <2>1. ASSUME NEW c \in Containers, Worker(c)
        PROVE  Term!TNext \/ UNCHANGED Term!tvars
    BY <1>2, <2>1, OwnerMoves
  <2>2. ASSUME NEW c \in Containers, Supervisor(c)
        PROVE  Term!TNext \/ UNCHANGED Term!tvars
    BY <1>2, <2>2, SupervisorMoves
  <2>3. ASSUME NEW c \in Containers, BootFailed(c) \/ Dies(c)
        PROVE  Term!TNext \/ UNCHANGED Term!tvars
    BY <1>2, <2>3, ContainersAssumption
    DEF BootFailed, Dies, Ends, TermInv, TypeOK, OwnerInv, HeldInv, Holding, Alive,
        TermPhase, Term!TNext, Term!tvars, Term!Vacate
  <2>4. CASE UNCHANGED vars \/ Redeploy \/ \E c \in Containers : WebGone(c)
    BY <2>4 DEF vars, Redeploy, WebGone, TermPhase, Term!tvars
  <2>. QED BY <1>2, <2>1, <2>2, <2>3, <2>4 DEF Next
<1>. QED BY <1>1, <1>2, TermInvariant, PTL DEF Spec, ImplementsTerm, Term!TSpec

=============================================================================
