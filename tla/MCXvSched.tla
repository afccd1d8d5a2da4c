------------------------------ MODULE MCXvSched ------------------------------
(* The scheduler in each of the builds in Builds: the build is chosen in   *)
(* the initial state and never changes, so one run covers every build.    *)
(*                                                                         *)
(* Three proc[] entries: two CPUs can scan at once and each run a process  *)
(* while a third waits.  MLFQ has two queues with slices 1 and 2, so       *)
(* demotion, the bottom queue and the boost are all reached.  CFS uses a   *)
(* target latency of 6 and a minimum slice of 3, so usertrap's slice is 6  *)
(* or 3 and is reached within the runtime bound.                           *)
EXTENDS Integers

CONSTANTS CPUs, NoCPU,
          Builds,          \* the builds checked: "RR", "FCFS", "CFS", "MLFQ"
          BoostInterval    \* BOOST_INTERVAL of the MLFQ build

VARIABLES build, state, lock, ctime, runtime, vruntime, queue, time_slice,
          spc, idx, q, cand, cproc, start_time, elapsed, ticks, since_boost

Build(b) == INSTANCE XvSched WITH Policy <- b, NPROC <- 3,
                                  QueueTimeSlices <- <<1, 2>>,
                                  TargetLatency <- 6, MinSlice <- 3

\* for the definitions that do not depend on the build
Any == INSTANCE XvSched WITH Policy <- CHOOSE b \in Builds : TRUE, NPROC <- 3,
                             QueueTimeSlices <- <<1, 2>>,
                             TargetLatency <- 6, MinSlice <- 3

vars == <<build, Any!vars>>

Init == build \in Builds /\ Any!Init

Next == \E b \in Builds : build = b /\ Build(b)!Next /\ UNCHANGED build

Spec == Init /\ [][Next]_vars

\* XvSched's FairSpec, for a run of a single build
schedVars == Any!vars

FairSpec ==
    /\ Spec
    /\ \A c \in CPUs : WF_schedVars(Any!Sched(c)) /\ SF_schedVars(Any!TimerTrap(c))
    /\ SF_schedVars(Any!IdleTick \/ Any!TimerTrap(Any!BootCPU))

\* bounds on the counters FCFS (ticks, through ctime) and CFS (runtime)
\* read as absolute values
MaxTicks == 3
MaxRuntime == 4
CounterBound == ticks <= MaxTicks /\ \A p \in Any!Procs : runtime[p] <= MaxRuntime

-----------------------------------------------------------------------------
\* The variables keep their types, the build fixed.
TypeOK == build \in Builds /\ Any!TypeOK

\* No process runs on two CPUs, and a process is RUNNING exactly while a
\* CPU has switched to it: in FCFS and CFS, the scan keeps the candidate's
\* lock from its test until swtch.
MutualExclusion == Any!MutualExclusion

\* MLFQ: a live process's remaining time slice is positive and at most its
\* queue's slice, across demotions and boosts by other CPUs.
TimeSliceInRange == Any!TimeSliceInRange

\* No CPU panics: the CFS scheduler logs its choice and then runs
\* min_proc, and its log loop must not acquire the lock it holds.
NoPanic == Any!NoPanic

\* A RUNNABLE process is eventually run; the MLFQ boost is there "to
\* prevent starvation".
StarvationFree == Any!StarvationFree
=============================================================================
