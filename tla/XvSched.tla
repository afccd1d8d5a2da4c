------------------------------- MODULE XvSched -------------------------------
(***************************************************************************)
(* The xv6 scheduler patch: the per-CPU scheduler() loop of the four       *)
(* builds (src/xv6/kernel/proc.c: round robin, FCFS and CFS;               *)
(* mlfq_scheduler.c: MLFQ), allocproc's initialisation of the scheduling   *)
(* fields (proc_init.c) and the scheduling part of usertrap (trap.c).      *)
(*                                                                         *)
(* Each CPU runs scheduler() on its own.  A step of a CPU is the work      *)
(* done under one p->lock, from acquire to release.  Locks are kept in     *)
(* `lock` only where the code holds one across steps: the FCFS and CFS     *)
(* scans keep the best candidate's lock while they acquire the next        *)
(* process's, and the CFS log loop acquires every lock while it still     *)
(* holds min_proc's.  acquire() (kernel/spinlock.c, stock xv6) waits while *)
(* another CPU holds the lock and panics when its own CPU does; panic()    *)
(* ends in for(;;), and once it has, a CPU that prints spins as well.      *)
(*                                                                         *)
(* A CPU in state "run" has swtch()ed to cproc[c].  That process leaves    *)
(* the CPU through usertrap: a timer interrupt yields, and a system call   *)
(* may sleep or exit.  It then returns into the scheduler after swtch.     *)
(* fork, wait, sleep and wakeup are xv6 code outside this patch, and are   *)
(* the environment of the scheduler.                                       *)
(*                                                                         *)
(* Only CPU BootCPU's timer increments ticks (clockintr).  Each build      *)
(* reads ticks in its own way:                                             *)
(* - FCFS reads its absolute value, through ctime.                         *)
(* - MLFQ reads only differences: the time since the last boost, and the   *)
(*   time since each dispatch.  They are kept as since_boost and elapsed,  *)
(*   saturating where comparisons no longer change.                        *)
(* A build updates only the ticks variables it reads.                      *)
(***************************************************************************)
EXTENDS Integers, Sequences, FiniteSets

CONSTANTS CPUs,            \* the harts running scheduler()
          NoCPU,           \* owner of a free lock
          NPROC,           \* size of proc[]
          Policy,          \* "RR", "FCFS", "CFS" or "MLFQ": the build
          QueueTimeSlices, \* queue_time_slices, one per queue (MLFQ)
          BoostInterval,   \* BOOST_INTERVAL (MLFQ)
          TargetLatency,   \* target_latency of usertrap (CFS)
          MinSlice         \* the least time slice of usertrap (CFS)

Procs == 0..NPROC-1
NoProc == -1
QueueCount == Len(QueueTimeSlices)
MaxSlice == QueueTimeSlices[QueueCount]
BootCPU == CHOOSE c \in CPUs : TRUE

VARIABLES state,        \* p->state
          lock,         \* owner of p->lock, where held across steps
          ctime,        \* p->ctime (FCFS)
          runtime,      \* p->runtime (CFS)
          vruntime,     \* p->vruntime (CFS)
          queue,        \* p->queue (MLFQ)
          time_slice,   \* p->time_slice (MLFQ)
          spc,          \* where scheduler() is: "top", "scan", "log" (CFS),
                        \* "run", or "panic" after acquire panicked
          idx,          \* the scan's p, as an index of proc[]
          q,            \* the queue the MLFQ selection is scanning
          cand,         \* earliest / min_proc of the FCFS and CFS scans
          cproc,        \* c->proc
          start_time,   \* start_time of the CFS scheduler
          elapsed,      \* ticks since dispatch, up to MaxSlice (MLFQ)
          ticks,        \* ticks (read by FCFS only)
          since_boost   \* ticks - last_boost, up to BoostInterval (MLFQ)

procVars == <<state, lock, ctime, runtime, vruntime, queue, time_slice>>
cpuVars == <<spc, idx, q, cand, cproc, start_time, elapsed>>
vars == <<procVars, cpuVars, ticks, since_boost>>

MinOf(a, b) == IF a < b THEN a ELSE b

\* calculate_weight: 1024 scaled by 1.25 per nice level, at least 15
RECURSIVE CalculateWeight(_)
CalculateWeight(nice) ==
    IF nice = 0 THEN 1024
    ELSE IF nice < 0 THEN (CalculateWeight(nice + 1) * 5) \div 4
    ELSE LET w == (CalculateWeight(nice - 1) * 4) \div 5
         IN IF w < 15 THEN 15 ELSE w

\* nice is 0 for every process: nothing in the patch changes it
Weight == CalculateWeight(0)

\* the init process, made by userinit through allocproc
Init ==
    /\ state = [p \in Procs |-> IF p = 0 THEN "RUNNABLE" ELSE "UNUSED"]
    /\ lock = [p \in Procs |-> NoCPU]
    /\ ctime = [p \in Procs |-> 0]
    /\ runtime = [p \in Procs |-> 0]
    /\ vruntime = [p \in Procs |-> 0]
    /\ queue = [p \in Procs |-> 0]
    /\ time_slice = [p \in Procs |-> 1]
    /\ spc = [c \in CPUs |-> "top"]
    /\ idx = [c \in CPUs |-> 0]
    /\ q = [c \in CPUs |-> 0]
    /\ cand = [c \in CPUs |-> NoProc]
    /\ cproc = [c \in CPUs |-> NoProc]
    /\ start_time = [c \in CPUs |-> 0]
    /\ elapsed = [c \in CPUs |-> 0]
    /\ ticks = 0
    /\ since_boost = 0

-----------------------------------------------------------------------------
(* Ticks.                                                                  *)

\* clockintr on BootCPU: ticks++, seen by every build as it reads ticks
TickEffects ==
    /\ ticks' = IF Policy = "FCFS" THEN ticks + 1 ELSE ticks
    /\ since_boost' = IF Policy = "MLFQ"
                      THEN MinOf(since_boost + 1, BoostInterval)
                      ELSE since_boost
    /\ elapsed' = IF Policy = "MLFQ"
                  THEN [d \in CPUs |-> IF spc[d] = "run"
                                       THEN MinOf(elapsed[d] + 1, MaxSlice)
                                       ELSE elapsed[d]]
                  ELSE elapsed

\* a timer interrupt on BootCPU while it runs scheduler() itself.  A pass
\* of the scan takes far less than a tick, so a tick falls in the
\* scheduler only while there is nothing RUNNABLE to run.
IdleTick ==
    /\ Policy \in {"FCFS", "MLFQ"}
    /\ spc[BootCPU] # "run"
    /\ \A p \in Procs : state[p] # "RUNNABLE"
    /\ TickEffects
    /\ UNCHANGED <<procVars, spc, idx, q, cand, cproc, start_time>>

-----------------------------------------------------------------------------
(* The scheduler loops.                                                    *)

\* the top of for(;;): intr_on(), and in the MLFQ build the priority boost
\* of every RUNNABLE or RUNNING process, once BOOST_INTERVAL ticks have passed
SchedTop(c) ==
    /\ spc[c] = "top"
    /\ IF Policy = "MLFQ" /\ since_boost >= BoostInterval
       THEN LET B == {p \in Procs : state[p] \in {"RUNNABLE", "RUNNING"}}
            IN /\ queue' = [p \in Procs |-> IF p \in B THEN 0 ELSE queue[p]]
               /\ time_slice' = [p \in Procs |->
                                   IF p \in B THEN QueueTimeSlices[1]
                                   ELSE time_slice[p]]
               /\ since_boost' = 0
       ELSE UNCHANGED <<queue, time_slice, since_boost>>
    /\ spc' = [spc EXCEPT ![c] = "scan"]
    /\ idx' = [idx EXCEPT ![c] = 0]
    /\ q' = [q EXCEPT ![c] = 0]
    /\ cand' = [cand EXCEPT ![c] = NoProc]
    /\ UNCHANGED <<state, lock, ctime, runtime, vruntime, cproc, start_time,
                   elapsed, ticks>>

\* p->state = RUNNING; c->proc = p; swtch.  The lock the scheduler holds
\* across swtch is released by the process (forkret, or yield and sleep
\* after sched), so it is free while p runs.
Dispatch(c, p) ==
    /\ state' = [state EXCEPT ![p] = "RUNNING"]
    /\ lock' = [lock EXCEPT ![p] = NoCPU]
    /\ cproc' = [cproc EXCEPT ![c] = p]
    /\ spc' = [spc EXCEPT ![c] = "run"]
    /\ start_time' = [start_time EXCEPT ![c] = runtime[p]]
    /\ elapsed' = [elapsed EXCEPT ![c] = 0]

\* Round robin: acquire proc[idx]; run it if RUNNABLE; release; next.
RRScan(c) ==
    /\ Policy = "RR"
    /\ spc[c] = "scan"
    /\ idx[c] < NPROC
    /\ IF state[idx[c]] = "RUNNABLE"
       THEN Dispatch(c, idx[c]) /\ UNCHANGED idx
       ELSE /\ idx' = [idx EXCEPT ![c] = @ + 1]
            /\ UNCHANGED <<state, lock, cproc, spc, start_time, elapsed>>
    /\ UNCHANGED <<ctime, runtime, vruntime, queue, time_slice, q, cand,
                   ticks, since_boost>>

\* the end of the round robin's pass over proc[]
RREnd(c) ==
    /\ Policy = "RR"
    /\ spc[c] = "scan"
    /\ idx[c] = NPROC
    /\ spc' = [spc EXCEPT ![c] = "top"]
    /\ UNCHANGED <<procVars, idx, q, cand, cproc, start_time, elapsed,
                   ticks, since_boost>>

\* FCFS compares ctime, CFS vruntime; both keep the first of equals
Precedes(p, e) ==
    IF Policy = "FCFS" THEN ctime[p] < ctime[e] ELSE vruntime[p] < vruntime[e]

\* Releases the candidate's lock as soon as it has been chosen.
CandidateScanUnlocked(c) ==
    /\ Policy \in {"FCFS", "CFS"}
    /\ spc[c] = "scan"
    /\ idx[c] < NPROC
    /\ LET p == idx[c]
           e == cand[c]
       IN /\ lock[p] = NoCPU
          /\ IF state[p] = "RUNNABLE" /\ (e = NoProc \/ Precedes(p, e))
             THEN /\ cand' = [cand EXCEPT ![c] = p]
                  /\ lock' = IF e = NoProc THEN lock
                             ELSE [lock EXCEPT ![e] = NoCPU]
             ELSE UNCHANGED <<cand, lock>>
    /\ idx' = [idx EXCEPT ![c] = @ + 1]
    /\ UNCHANGED <<state, ctime, runtime, vruntime, queue, time_slice, spc,
                   q, cproc, start_time, elapsed, ticks, since_boost>>

\* One iteration of the FCFS / CFS scan: acquire(&p->lock), waiting while
\* another CPU holds it.  A RUNNABLE p that precedes the candidate becomes
\* the candidate, keeping its lock, and the old candidate's lock is
\* released.  Otherwise p's lock is released.
CandidateScan(c) ==
    /\ Policy \in {"FCFS", "CFS"}
    /\ spc[c] = "scan"
    /\ idx[c] < NPROC
    /\ LET p == idx[c]
           e == cand[c]
       IN /\ lock[p] = NoCPU
          /\ IF state[p] = "RUNNABLE" /\ (e = NoProc \/ Precedes(p, e))
             THEN /\ cand' = [cand EXCEPT ![c] = p]
                  /\ lock' = IF e = NoProc THEN [lock EXCEPT ![p] = c]
                             ELSE [lock EXCEPT ![p] = c, ![e] = NoCPU]
             ELSE UNCHANGED <<cand, lock>>
    /\ idx' = [idx EXCEPT ![c] = @ + 1]
    /\ UNCHANGED <<state, ctime, runtime, vruntime, queue, time_slice, spc,
                   q, cproc, start_time, elapsed, ticks, since_boost>>

\* some CPU has panicked: printing (consputc) spins from then on
Panicked == \E d \in CPUs : spc[d] = "panic"

\* After the scan, with a candidate whose lock is still held: FCFS runs
\* it; CFS prints "[Scheduler Tick]" and starts its log loop.  Without a
\* candidate both go round the loop again.
CandidatePick(c) ==
    /\ Policy \in {"FCFS", "CFS"}
    /\ spc[c] = "scan"
    /\ idx[c] = NPROC
    /\ CASE cand[c] = NoProc ->
              /\ spc' = [spc EXCEPT ![c] = "top"]
              /\ UNCHANGED <<state, lock, cproc, start_time, elapsed, idx>>
        [] Policy = "FCFS" ->
              Dispatch(c, cand[c]) /\ UNCHANGED idx
        [] OTHER ->
              /\ ~Panicked
              /\ spc' = [spc EXCEPT ![c] = "log"]
              /\ idx' = [idx EXCEPT ![c] = 0]
              /\ UNCHANGED <<state, lock, cproc, start_time, elapsed>>
    /\ UNCHANGED <<ctime, runtime, vruntime, queue, time_slice, q, cand,
                   ticks, since_boost>>

\* One iteration of the CFS log loop: acquire(&p->lock), print p if it is
\* RUNNABLE, release.  min_proc's lock is still held by this CPU, so at
\* p = min_proc acquire panics.  After the loop (which min_proc, being in
\* proc[], never lets it reach) min_proc would run; the time_slice local
\* is not used.
CfsLog(c) ==
    /\ Policy = "CFS"
    /\ spc[c] = "log"
    /\ LET p == idx[c] IN
       IF p = NPROC THEN Dispatch(c, cand[c]) /\ UNCHANGED idx
       ELSE /\ lock[p] \in {c, NoCPU}
            /\ IF lock[p] = c
               THEN /\ spc' = [spc EXCEPT ![c] = "panic"]
                    /\ UNCHANGED <<state, lock, cproc, start_time, elapsed, idx>>
               ELSE /\ state[p] = "RUNNABLE" => ~Panicked
                    /\ idx' = [idx EXCEPT ![c] = p + 1]
                    /\ UNCHANGED <<state, lock, cproc, spc, start_time, elapsed>>
    /\ UNCHANGED <<ctime, runtime, vruntime, queue, time_slice, q, cand,
                   ticks, since_boost>>

\* panic()'s for(;;): the CPU spins and nothing changes
PanicSpin(c) ==
    /\ spc[c] = "panic"
    /\ UNCHANGED vars

\* The selection's queue loop runs one queue too far.
MlfqScanPastLastQueue(c) ==
    /\ Policy = "MLFQ"
    /\ spc[c] = "scan"
    /\ LET p == idx[c] IN
       IF q[c] < QueueCount /\ state[p] = "RUNNABLE" /\ queue[p] = q[c]
       THEN Dispatch(c, p) /\ UNCHANGED <<idx, q>>
       ELSE /\ IF p + 1 < NPROC
               THEN idx' = [idx EXCEPT ![c] = p + 1] /\ UNCHANGED <<q, spc>>
               ELSE /\ idx' = [idx EXCEPT ![c] = 0]
                    /\ q' = [q EXCEPT ![c] = @ + 1]
                    /\ spc' = [spc EXCEPT ![c] =
                                 IF q[c] < QueueCount THEN "scan" ELSE "top"]
            /\ UNCHANGED <<state, lock, cproc, start_time, elapsed>>
    /\ UNCHANGED <<ctime, runtime, vruntime, queue, time_slice, cand,
                   ticks, since_boost>>

\* One iteration of the MLFQ selection: the first RUNNABLE process of
\* queue q[c] is run, its lock kept from the `break` to swtch.  After the
\* last process of the last queue, the loop goes round again.
MlfqScan(c) ==
    /\ Policy = "MLFQ"
    /\ spc[c] = "scan"
    /\ LET p == idx[c] IN
       IF state[p] = "RUNNABLE" /\ queue[p] = q[c]
       THEN Dispatch(c, p) /\ UNCHANGED <<idx, q>>
       ELSE /\ IF p + 1 < NPROC
               THEN idx' = [idx EXCEPT ![c] = p + 1] /\ UNCHANGED <<q, spc>>
               ELSE /\ idx' = [idx EXCEPT ![c] = 0]
                    /\ q' = [q EXCEPT ![c] = @ + 1]
                    /\ spc' = [spc EXCEPT ![c] =
                                 IF q[c] + 1 < QueueCount THEN "scan" ELSE "top"]
            /\ UNCHANGED <<state, lock, cproc, start_time, elapsed>>
    /\ UNCHANGED <<ctime, runtime, vruntime, queue, time_slice, cand,
                   ticks, since_boost>>
-----------------------------------------------------------------------------
(* Leaving the CPU.  The process has acquired its own lock, set its state  *)
(* and called sched().  No other CPU holds that lock, because a held       *)
(* candidate is RUNNABLE.                                                  *)

\* Charges the run to time_slice without demoting when it is used up.
AfterSwitchNoDemote(c, p, rt, el) ==
    /\ cproc' = [cproc EXCEPT ![c] = NoProc]
    /\ spc' = [spc EXCEPT ![c] = IF Policy = "RR" THEN "scan" ELSE "top"]
    /\ idx' = IF Policy = "RR" THEN [idx EXCEPT ![c] = @ + 1] ELSE idx
    /\ vruntime' = IF Policy = "CFS"
                   THEN [vruntime EXCEPT ![p] =
                           @ + ((rt - start_time[c]) * 1024) \div Weight]
                   ELSE vruntime
    /\ IF Policy = "MLFQ"
       THEN /\ time_slice' = [time_slice EXCEPT ![p] = @ - el]
            /\ UNCHANGED queue
       ELSE UNCHANGED <<queue, time_slice>>

\* scheduler() after swtch returns, with p's lock held.  c->proc = 0 and
\* the lock is released.  Round robin goes on to the next process, the
\* other builds go round their loop.  CFS adds the run's runtime, scaled
\* by the weight, to vruntime.  MLFQ takes the ticks elapsed from
\* time_slice, and at the end of the slice moves p one queue down, with
\* that queue's slice.
AfterSwitch(c, p, rt, el) ==
    /\ cproc' = [cproc EXCEPT ![c] = NoProc]
    /\ spc' = [spc EXCEPT ![c] = IF Policy = "RR" THEN "scan" ELSE "top"]
    /\ idx' = IF Policy = "RR" THEN [idx EXCEPT ![c] = @ + 1] ELSE idx
    /\ vruntime' = IF Policy = "CFS"
                   THEN [vruntime EXCEPT ![p] =
                           @ + ((rt - start_time[c]) * 1024) \div Weight]
                   ELSE vruntime
    /\ IF Policy = "MLFQ"
       THEN LET ts == time_slice[p] - el
                nq == IF queue[p] < QueueCount - 1 THEN queue[p] + 1 ELSE queue[p]
            IN IF ts <= 0
               THEN /\ queue' = [queue EXCEPT ![p] = nq]
                    /\ time_slice' = [time_slice EXCEPT ![p] = QueueTimeSlices[nq + 1]]
               ELSE /\ time_slice' = [time_slice EXCEPT ![p] = ts]
                    /\ UNCHANGED queue
       ELSE UNCHANGED <<queue, time_slice>>

\* p moves to state s and returns into scheduler(); rt is its runtime
\* after usertrap, el the ticks since its dispatch
Leave(c, s, rt, el) ==
    LET p == cproc[c] IN
    /\ state' = [state EXCEPT ![p] = s]
    /\ runtime' = [runtime EXCEPT ![p] = rt]
    /\ AfterSwitch(c, p, rt, el)
    /\ UNCHANGED <<lock, ctime, q, cand, start_time>>

\* usertrap's p->runtime++ (CFS build)
Charged(p) == IF Policy = "CFS" THEN runtime[p] + 1 ELSE runtime[p]

\* the time slice usertrap computes: target_latency over the RUNNABLE
\* processes, at least MinSlice
CfsSlice ==
    LET n == Cardinality({p \in Procs : state[p] = "RUNNABLE"})
        s == TargetLatency \div (IF n > 0 THEN n ELSE 1)
    IN IF s < MinSlice THEN MinSlice ELSE s

\* usertrap on a timer interrupt (which_dev == 2) while cproc[c] runs.
\* On BootCPU, clockintr first increments ticks.  Every build but CFS
\* yields.  CFS counts the RUNNABLE processes, acquiring each lock in
\* turn, and yields when runtime is a multiple of the slice.
TimerTrap(c) ==
    /\ spc[c] = "run"
    /\ Policy = "CFS" => \A p \in Procs : lock[p] = NoCPU
    /\ LET p == cproc[c]
           rt == Charged(p)
           tick == c = BootCPU
           el == IF tick /\ Policy = "MLFQ"
                 THEN MinOf(elapsed[c] + 1, MaxSlice) ELSE elapsed[c]
       IN /\ IF tick THEN TickEffects ELSE UNCHANGED <<ticks, since_boost, elapsed>>
          /\ IF Policy # "CFS" \/ rt % CfsSlice = 0
             THEN Leave(c, "RUNNABLE", rt, el)
             ELSE /\ runtime' = [runtime EXCEPT ![p] = rt]
                  /\ UNCHANGED <<state, lock, ctime, vruntime, queue,
                                 time_slice, spc, idx, q, cand, cproc,
                                 start_time>>

\* a system call that sleeps (read of a pipe, wait, pause ...)
SysSleep(c) ==
    /\ spc[c] = "run"
    /\ Leave(c, "SLEEPING", Charged(cproc[c]), elapsed[c])
    /\ UNCHANGED <<ticks, since_boost, elapsed>>

\* exit(); the init process never exits
SysExit(c) ==
    /\ spc[c] = "run"
    /\ cproc[c] # 0
    /\ Leave(c, "ZOMBIE", Charged(cproc[c]), elapsed[c])
    /\ UNCHANGED <<ticks, since_boost, elapsed>>

\* fork(): allocproc takes the first UNUSED proc[] entry, acquiring each
\* lock on the way, and sets the scheduling fields; fork makes the child
\* RUNNABLE.  Without a free entry fork fails.  allocproc's kalloc and
\* page-table failures free the entry again and change nothing here.
SysFork(c) ==
    /\ spc[c] = "run"
    /\ LET p == cproc[c]
           Free == {np \in Procs : state[np] = "UNUSED"}
       IN IF Free = {}
          THEN /\ \A i \in Procs : lock[i] = NoCPU
               /\ runtime' = [runtime EXCEPT ![p] = Charged(p)]
               /\ UNCHANGED <<state, ctime, vruntime, queue, time_slice>>
          ELSE LET np == CHOOSE i \in Free : \A j \in Free : i <= j IN
               /\ \A i \in 0..np : lock[i] = NoCPU
               /\ runtime' = [runtime EXCEPT ![p] = Charged(p), ![np] = 0]
               /\ state' = [state EXCEPT ![np] = "RUNNABLE"]
               /\ ctime' = [ctime EXCEPT ![np] = ticks]
               /\ vruntime' = [vruntime EXCEPT ![np] = 0]
               /\ queue' = [queue EXCEPT ![np] = 0]
               /\ time_slice' = [time_slice EXCEPT ![np] = 1]
    /\ UNCHANGED <<lock, cpuVars, ticks, since_boost>>

\* wait(): freeproc of a ZOMBIE child (parenthood is not modelled)
SysWait(c) ==
    /\ spc[c] = "run"
    /\ \E z \in Procs :
         /\ state[z] = "ZOMBIE"
         /\ state' = [state EXCEPT ![z] = "UNUSED"]
    /\ runtime' = [runtime EXCEPT ![cproc[c]] = Charged(cproc[c])]
    /\ UNCHANGED <<lock, ctime, vruntime, queue, time_slice, cpuVars, ticks,
                   since_boost>>

\* wakeup() from an interrupt or another process, under p->lock
Wakeup(p) ==
    /\ state[p] = "SLEEPING"
    /\ lock[p] = NoCPU
    /\ state' = [state EXCEPT ![p] = "RUNNABLE"]
    /\ UNCHANGED <<lock, ctime, runtime, vruntime, queue, time_slice, cpuVars,
                   ticks, since_boost>>

-----------------------------------------------------------------------------
\* the steps of scheduler() on c
Sched(c) ==
    \/ SchedTop(c)
    \/ RRScan(c) \/ RREnd(c)
    \/ CandidateScan(c) \/ CandidatePick(c) \/ CfsLog(c)
    \/ MlfqScan(c)

\* the running process's traps and system calls on c
Proc(c) == TimerTrap(c) \/ SysSleep(c) \/ SysExit(c) \/ SysFork(c) \/ SysWait(c)

Next ==
    \/ IdleTick
    \/ \E c \in CPUs : Sched(c) \/ Proc(c) \/ PanicSpin(c)
    \/ \E p \in Procs : Wakeup(p)

Spec == Init /\ [][Next]_vars

\* Each CPU's scheduler() keeps running.  The timers are periodic, and
\* all time is spent in runs, since a scan takes far less than a tick
\* when there is work.  So a CPU that keeps dispatching processes is
\* eventually interrupted during a run (strong fairness), and BootCPU
\* keeps incrementing ticks.  Processes' system calls and wakeups are not
\* forced.
FairSpec ==
    /\ Spec
    /\ \A c \in CPUs : WF_vars(Sched(c)) /\ SF_vars(TimerTrap(c))
    /\ SF_vars(IdleTick \/ TimerTrap(BootCPU))

-----------------------------------------------------------------------------
TypeOK ==
    /\ state \in [Procs -> {"UNUSED", "RUNNABLE", "RUNNING", "SLEEPING", "ZOMBIE"}]
    /\ lock \in [Procs -> CPUs \cup {NoCPU}]
    /\ ctime \in [Procs -> Nat]
    /\ runtime \in [Procs -> Nat]
    /\ vruntime \in [Procs -> Nat]
    /\ queue \in [Procs -> 0..QueueCount-1]
    /\ time_slice \in [Procs -> Int]
    /\ spc \in [CPUs -> {"top", "scan", "log", "run", "panic"}]
    /\ idx \in [CPUs -> 0..NPROC]
    /\ q \in [CPUs -> 0..QueueCount]
    /\ cand \in [CPUs -> Procs \cup {NoProc}]
    /\ cproc \in [CPUs -> Procs \cup {NoProc}]
    /\ start_time \in [CPUs -> Nat]
    /\ elapsed \in [CPUs -> 0..MaxSlice]
    /\ since_boost \in 0..BoostInterval

\* No process runs on two CPUs, and a process is RUNNING exactly while a
\* CPU has switched to it.  In the FCFS build this rests on the scan
\* keeping the candidate's lock from its test until swtch: another CPU
\* scanning at the same time must not choose it too.
MutualExclusion ==
    /\ \A c, d \in CPUs : c # d /\ cproc[c] # NoProc => cproc[c] # cproc[d]
    /\ \A p \in Procs : state[p] = "RUNNING" <=> \E c \in CPUs : cproc[c] = p

\* MLFQ: a live process's remaining time slice is positive and at most its
\* queue's slice, across dispatches on several CPUs, demotions, and boosts
\* that reset a process while another CPU runs it.
TimeSliceInRange ==
    \A p \in Procs :
        state[p] \in {"RUNNABLE", "RUNNING", "SLEEPING"} =>
            time_slice[p] \in 1..QueueTimeSlices[queue[p] + 1]

\* No CPU panics.  The CFS scheduler logs its decision and then runs
\* min_proc ("--> Scheduling PID %d", proc.c:106); acquire() must not be
\* called on a lock its CPU holds.
NoPanic == \A c \in CPUs : spc[c] # "panic"

\* A RUNNABLE process is eventually run.  The MLFQ comment says the boost
\* every BOOST_INTERVAL ticks is there "to prevent starvation".
StarvationFree ==
    \A p \in Procs : state[p] = "RUNNABLE" ~> state[p] = "RUNNING"
=============================================================================
