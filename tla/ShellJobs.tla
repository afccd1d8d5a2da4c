------------------------------ MODULE ShellJobs ------------------------------
(***************************************************************************)
(* Job control of the shell: the job table (src/shell/src/jobs.c), the     *)
(* fg/bg/ping intrinsics (job_control.c), the SIGINT/SIGTSTP handlers      *)
(* (signals.c), and the fork/wait steps of executor.c and main.c.          *)
(*                                                                         *)
(* The shell is one thread; the signal handlers run between any two of its *)
(* steps.  A step of the main thread is everything between two blocking    *)
(* points (fgets, waitpid).  The handlers only act while foreground_pid is *)
(* set, i.e. while the shell waits on a foreground child, so they only     *)
(* interleave with the waits, which are steps of their own.                *)
(*                                                                         *)
(* The children are the kernel's: proc[p] is the state of child p,         *)
(* notify[p] its unreported stop or continue (what WUNTRACED/WCONTINUED    *)
(* report, the latest replacing an earlier one), sigint_pending the        *)
(* stopped children a SIGINT waits on.  No child calls setpgid, so the     *)
(* terminal's Ctrl-C/Ctrl-Z go to every child of the shell.                *)
(***************************************************************************)
EXTENDS Integers, Sequences, FiniteSets

CONSTANTS MaxJobs,      \* MAX_JOBS, the size of the job table
          MaxForks,     \* bound: fork() calls the model makes
          ForkCanFail   \* whether fork() may return -1 (EAGAIN)

NoPid == -1
Slots == 1..MaxJobs
Pids == 1..MaxForks
Signals == {"STOP", "CONT", "INT", "KILL"}

VARIABLES jobs, next_job_id, foreground_pid,   \* statics of jobs.c
          proc, notify, sigint_pending,         \* the kernel's view of the children
          forks,                                \* fork() calls so far
          sh,                                   \* where the main thread is
          wpid, fgslot, pipe                    \* what it waits on

jobVars == <<jobs, next_job_id, foreground_pid>>
kernelVars == <<proc, notify, sigint_pending>>
vars == <<jobVars, kernelVars, forks, sh, wpid, fgslot, pipe>>

-----------------------------------------------------------------------------
(* The job table (jobs.c).  get_job and get_job_by_pid return the first    *)
(* in-use slot that matches; slot 0 stands for NULL.                       *)

InUse == {s \in Slots : jobs[s].in_use}
First(S) == IF S = {} THEN 0 ELSE CHOOSE s \in S : \A t \in S : s <= t
GetJob(id) == First({s \in InUse : jobs[s].job_id = id})
GetJobByPid(p) == First({s \in InUse : jobs[s].pid = p})

AddJob(p, st) ==
    LET s == First(Slots \ InUse) IN
    IF s = 0 THEN UNCHANGED <<jobs, next_job_id>>      \* table full: returns -1
    ELSE /\ jobs' = [jobs EXCEPT ![s] = [in_use |-> TRUE, job_id |-> next_job_id,
                                         pid |-> p, status |-> st]]
         /\ next_job_id' = next_job_id + 1

RemoveJob(id) ==
    IF GetJob(id) = 0 THEN jobs ELSE [jobs EXCEPT ![GetJob(id)].in_use = FALSE]

MostRecentJobId ==
    IF InUse = {} THEN -1
    ELSE CHOOSE id \in {jobs[s].job_id : s \in InUse} :
             \A s \in InUse : jobs[s].job_id <= id

-----------------------------------------------------------------------------
(* Kernel semantics the code relies on.                                    *)

Children == {p \in Pids : proc[p] \in {"run", "stop", "zombie"}}

\* kill(p, ...) reaches child p, or every child when p = -1
Targets(p) == IF p = NoPid THEN Children ELSE {p} \cap Children

\* the default action of sig on child p
After(p, sig) ==
    CASE proc[p] = "run" /\ sig = "STOP"          -> "stop"
      [] proc[p] = "run" /\ sig \in {"INT", "KILL"} -> "zombie"
      [] proc[p] = "stop" /\ sig = "KILL"         -> "zombie"
      [] proc[p] = "stop" /\ sig = "CONT"         ->
             IF p \in sigint_pending THEN "zombie" ELSE "run"
      [] OTHER                                    -> proc[p]

Deliver(T, sig) ==
    LET new(p) == IF p \in T THEN After(p, sig) ELSE proc[p] IN
    /\ proc' = [p \in Pids |-> new(p)]
    /\ notify' = [p \in Pids |->
                    CASE new(p) = proc[p] -> notify[p]
                      [] new(p) = "stop"  -> "stopped"
                      [] new(p) = "run"   -> "continued"
                      [] OTHER            -> "none"]
    /\ sigint_pending' = {p \in Pids : new(p) = "stop" /\
                            (p \in sigint_pending \/ (p \in T /\ sig = "INT"))}

\* waitpid(p, ...) waits on child p, or on any child when p = -1
Matching(p) == IF p = NoPid THEN Children ELSE {p} \cap Children
\* the children a waitpid with WUNTRACED can report
Untraced(M) == {c \in M : proc[c] = "zombie" \/ notify[c] = "stopped"}
Waitable(p) == proc[p] = "zombie" \/ notify[p] # "none"

\* waitpid reports c: a zombie is reaped, a notification consumed
Consume(c) ==
    /\ proc' = [proc EXCEPT ![c] = IF @ = "zombie" THEN "reaped" ELSE @]
    /\ notify' = [notify EXCEPT ![c] = "none"]

ForkOutcome(p) == IF ForkCanFail THEN {p, NoPid} ELSE {p}

\* the children fork() created (-1 entries failed)
Spawn(ps) == [p \in Pids |-> IF p \in ps THEN "run" ELSE proc[p]]

-----------------------------------------------------------------------------
Init ==
    /\ jobs = [s \in Slots |-> [in_use |-> FALSE, job_id |-> 0, pid |-> 0,
                                status |-> "RUNNING"]]
    /\ next_job_id = 1
    /\ foreground_pid = NoPid
    /\ proc = [p \in Pids |-> "unused"]
    /\ notify = [p \in Pids |-> "none"]
    /\ sigint_pending = {}
    /\ forks = 0
    /\ sh = "Check"
    /\ wpid = NoPid /\ fgslot = 0 /\ pipe = <<>>

-----------------------------------------------------------------------------
(* main(): check_background_jobs before each prompt, one waitpid(-1,       *)
(* WNOHANG|WUNTRACED|WCONTINUED) per loop iteration.                       *)

\* Reaps an exited job's process but keeps the job.
CheckBgReportKeepJob(p) ==
    LET s == GetJobByPid(p) IN
    /\ sh = "Check"
    /\ Waitable(p)
    /\ Consume(p)
    /\ jobs' = CASE s = 0 \/ proc[p] = "zombie" -> jobs
                 [] notify[p] = "stopped"      -> [jobs EXCEPT ![s].status = "STOPPED"]
                 [] OTHER                      -> [jobs EXCEPT ![s].status = "RUNNING"]
    /\ UNCHANGED <<next_job_id, foreground_pid, sigint_pending, forks, sh, wpid, fgslot, pipe>>

\* Without the WIFCONTINUED branch.
CheckBgReportNoContinued(p) ==
    LET s == GetJobByPid(p) IN
    /\ sh = "Check"
    /\ Waitable(p)
    /\ Consume(p)
    /\ jobs' = CASE s = 0                 -> jobs
                 [] proc[p] = "zombie"     -> RemoveJob(jobs[s].job_id)
                 [] notify[p] = "stopped"  -> [jobs EXCEPT ![s].status = "STOPPED"]
                 [] OTHER                  -> jobs
    /\ UNCHANGED <<next_job_id, foreground_pid, sigint_pending, forks, sh, wpid, fgslot, pipe>>

CheckBgReport(p) ==
    LET s == GetJobByPid(p) IN
    /\ sh = "Check"
    /\ Waitable(p)
    /\ Consume(p)
    /\ jobs' = CASE s = 0                 -> jobs     \* not a job: continue
                 [] proc[p] = "zombie"     -> RemoveJob(jobs[s].job_id)
                 [] notify[p] = "stopped"  -> [jobs EXCEPT ![s].status = "STOPPED"]
                 [] OTHER                  -> [jobs EXCEPT ![s].status = "RUNNING"]
    /\ UNCHANGED <<next_job_id, foreground_pid, sigint_pending, forks, sh, wpid, fgslot, pipe>>

\* waitpid returns 0 or -1: the prompt is shown and fgets blocks
CheckBgDone ==
    /\ sh = "Check"
    /\ \A p \in Pids : ~Waitable(p)
    /\ sh' = "Read"
    /\ UNCHANGED <<jobVars, kernelVars, forks, wpid, fgslot, pipe>>

-----------------------------------------------------------------------------
(* execute_single_command: fork, then either add_job (background) or       *)
(* set_foreground_pid and waitpid(pid, WUNTRACED).                         *)

RunFg ==
    /\ sh = "Read" /\ forks + 1 <= MaxForks
    /\ forks' = forks + 1
    /\ \E r \in ForkOutcome(forks + 1) :
         IF r = NoPid                        \* perror("fork"); return -1
         THEN /\ sh' = "Check"
              /\ UNCHANGED <<proc, foreground_pid, wpid>>
         ELSE /\ proc' = Spawn({r})
              /\ foreground_pid' = r
              /\ wpid' = r
              /\ sh' = "WaitFg"
    /\ UNCHANGED <<jobs, next_job_id, notify, sigint_pending, fgslot, pipe>>

RunBg ==
    /\ sh = "Read" /\ forks + 1 <= MaxForks
    /\ forks' = forks + 1
    /\ \E r \in ForkOutcome(forks + 1) :
         IF r = NoPid
         THEN UNCHANGED <<proc, jobs, next_job_id>>
         ELSE /\ proc' = Spawn({r})
              /\ AddJob(r, "RUNNING")
    /\ sh' = "Check"
    /\ UNCHANGED <<foreground_pid, notify, sigint_pending, wpid, fgslot, pipe>>

\* Without WUNTRACED: the wait ends only when the child exits.
WaitFgReturnNoUntraced ==
    /\ sh = "WaitFg"
    /\ proc[wpid] = "zombie"
    /\ Consume(wpid)
    /\ foreground_pid' = NoPid
    /\ UNCHANGED <<jobs, next_job_id>>
    /\ sh' = "Check" /\ wpid' = NoPid
    /\ UNCHANGED <<sigint_pending, forks, fgslot, pipe>>

\* Resets foreground_pid to 0 instead of -1.
WaitFgReturnResetZero ==
    /\ sh = "WaitFg"
    /\ wpid \in Untraced({wpid})
    /\ Consume(wpid)
    /\ foreground_pid' = 0
    /\ IF proc[wpid] = "zombie" THEN UNCHANGED <<jobs, next_job_id>>
       ELSE AddJob(wpid, "STOPPED")
    /\ sh' = "Check" /\ wpid' = NoPid
    /\ UNCHANGED <<sigint_pending, forks, fgslot, pipe>>

WaitFgReturn ==
    /\ sh = "WaitFg"
    /\ wpid \in Untraced({wpid})
    /\ Consume(wpid)
    /\ foreground_pid' = NoPid
    /\ IF proc[wpid] = "zombie" THEN UNCHANGED <<jobs, next_job_id>>
       ELSE AddJob(wpid, "STOPPED")              \* WIFSTOPPED
    /\ sh' = "Check" /\ wpid' = NoPid
    /\ UNCHANGED <<sigint_pending, forks, fgslot, pipe>>

-----------------------------------------------------------------------------
(* execute_pipeline with two commands: fork each (pids[i] = -1 when fork   *)
(* fails), then add_job of the last pid, or waitpid(pids[i], 0) for each.  *)

RunPipe(background) ==
    /\ sh = "Read" /\ forks + 2 <= MaxForks
    /\ forks' = forks + 2
    /\ \E r1 \in ForkOutcome(forks + 1), r2 \in ForkOutcome(forks + 2) :
         /\ proc' = Spawn({r1, r2} \ {NoPid})
         /\ IF background
            THEN /\ AddJob(r2, "RUNNING")
                 /\ sh' = "Check" /\ pipe' = <<>>
            ELSE /\ UNCHANGED <<jobs, next_job_id>>
                 /\ sh' = "WaitPipe" /\ pipe' = <<r1, r2>>
    /\ UNCHANGED <<foreground_pid, notify, sigint_pending, wpid, fgslot>>

\* waitpid(pids[i], &status, 0): returns at once when there is no such
\* child, else when a matching child has exited.
PipeWait ==
    LET M == Matching(Head(pipe)) IN
    /\ sh = "WaitPipe"
    /\ IF M = {} THEN UNCHANGED <<proc, notify>>
       ELSE \E c \in M : proc[c] = "zombie" /\ Consume(c)
    /\ pipe' = Tail(pipe)
    /\ sh' = IF Len(pipe) = 1 THEN "Check" ELSE "WaitPipe"
    /\ UNCHANGED <<jobVars, sigint_pending, forks, wpid, fgslot>>

-----------------------------------------------------------------------------
(* cmd_fg / cmd_bg (job_control.c).  The argument is a job number or, with *)
(* none, the most recent job.                                              *)

\* 0 stands for no argument (an argument <= 0 is rejected by the code)
JobArgs == {0} \cup Pids

ArgSlot(arg) ==
    LET id == IF arg = 0 THEN MostRecentJobId ELSE arg IN
    IF id = -1 THEN 0 ELSE GetJob(id)

FgCmd(arg) ==
    LET s == ArgSlot(arg) IN
    /\ sh = "Read"
    /\ IF s = 0                                      \* "No such job"
       THEN /\ sh' = "Check"
            /\ UNCHANGED <<jobVars, kernelVars, fgslot>>
       ELSE /\ IF jobs[s].status = "STOPPED"
               THEN Deliver(Targets(jobs[s].pid), "CONT")
               ELSE UNCHANGED kernelVars
            /\ jobs' = [jobs EXCEPT ![s].status = "RUNNING"]
            /\ foreground_pid' = jobs[s].pid
            /\ fgslot' = s /\ sh' = "FgWait"
            /\ UNCHANGED next_job_id
    /\ UNCHANGED <<forks, wpid, pipe>>

\* Without set_foreground_pid(-1) after the wait.
FgFinishKeepFg(r) ==
    /\ UNCHANGED foreground_pid
    /\ jobs' = CASE r = "exited"  -> RemoveJob(jobs[fgslot].job_id)
                 [] r = "stopped" -> [jobs EXCEPT ![fgslot].status = "STOPPED"]
                 [] OTHER         -> jobs
    /\ sh' = "Check" /\ fgslot' = 0

\* the outcome waitpid left in status, read by WIFEXITED/WIFSTOPPED
FgFinish(r) ==
    /\ foreground_pid' = NoPid
    /\ jobs' = CASE r = "exited"  -> RemoveJob(jobs[fgslot].job_id)
                 [] r = "stopped" -> [jobs EXCEPT ![fgslot].status = "STOPPED"]
                 [] OTHER         -> jobs
    /\ sh' = "Check" /\ fgslot' = 0

\* waitpid(job->pid, &status, WUNTRACED).  With no such child it fails
\* at once and status is read uninitialized: any outcome.
FgWaitReturn ==
    LET M == Matching(jobs[fgslot].pid) IN
    /\ sh = "FgWait"
    /\ IF M = {}
       THEN /\ UNCHANGED <<proc, notify>>
            /\ \E r \in {"exited", "stopped", "other"} : FgFinish(r)
       ELSE \E c \in Untraced(M) :
               /\ Consume(c)
               /\ FgFinish(IF proc[c] = "zombie" THEN "exited" ELSE "stopped")
    /\ UNCHANGED <<next_job_id, sigint_pending, forks, wpid, pipe>>

BgCmd(arg) ==
    LET s == ArgSlot(arg) IN
    /\ sh = "Read"
    /\ IF s = 0 \/ jobs[s].status = "RUNNING"       \* "No such job" / "Job already running"
       THEN UNCHANGED <<jobs, kernelVars>>
       ELSE /\ Deliver(Targets(jobs[s].pid), "CONT")
            /\ jobs' = [jobs EXCEPT ![s].status = "RUNNING"]
    /\ sh' = "Check"
    /\ UNCHANGED <<next_job_id, foreground_pid, forks, wpid, fgslot, pipe>>

\* cmd_ping: kill(pid, signal % 32); "No such process found" when it fails
Ping(p, sig) ==
    /\ sh = "Read"
    /\ IF p \in Children THEN Deliver({p}, sig) ELSE UNCHANGED kernelVars
    /\ sh' = "Check"
    /\ UNCHANGED <<jobVars, forks, wpid, fgslot, pipe>>

\* fgets returns EOF: kill(0, SIGKILL) ends the whole process group
Logout ==
    /\ sh = "Read"
    /\ Deliver(Children, "KILL")
    /\ sh' = "Exit"
    /\ UNCHANGED <<jobVars, forks, wpid, fgslot, pipe>>

-----------------------------------------------------------------------------
(* The terminal: Ctrl-Z / Ctrl-C signal the shell's process group, which   *)
(* holds every child, then the shell's handler runs.                       *)

CtrlZ ==
    LET s == GetJobByPid(foreground_pid) IN
    /\ sh # "Exit"
    /\ Deliver(Children, "STOP")
    /\ IF foreground_pid > 0                       \* sigtstp_handler
       THEN /\ jobs' = IF s = 0 THEN jobs ELSE [jobs EXCEPT ![s].status = "STOPPED"]
            /\ foreground_pid' = NoPid
       ELSE UNCHANGED <<jobs, foreground_pid>>
    /\ UNCHANGED <<next_job_id, forks, sh, wpid, fgslot, pipe>>

\* sigint_handler's kill(fg_pid, SIGINT) reaches a child the group signal
\* already reached.
CtrlC ==
    /\ sh # "Exit"
    /\ Deliver(Children, "INT")
    /\ UNCHANGED <<jobVars, forks, sh, wpid, fgslot, pipe>>

\* a child's program runs to its end
ChildExit(p) ==
    /\ proc[p] = "run"
    /\ proc' = [proc EXCEPT ![p] = "zombie"]
    /\ notify' = [notify EXCEPT ![p] = "none"]
    /\ UNCHANGED <<jobVars, sigint_pending, forks, sh, wpid, fgslot, pipe>>

-----------------------------------------------------------------------------
\* the main thread's steps that follow a return from the kernel
ShellSteps ==
    \/ \E p \in Pids : CheckBgReport(p)
    \/ CheckBgDone \/ WaitFgReturn \/ PipeWait \/ FgWaitReturn

\* the commands a user types at the prompt
Commands ==
    \/ RunFg \/ RunBg \/ RunPipe(FALSE) \/ RunPipe(TRUE)
    \/ \E a \in JobArgs : FgCmd(a) \/ BgCmd(a)
    \/ \E p \in Pids, sig \in Signals : Ping(p, sig)
    \/ Logout

Environment == CtrlZ \/ CtrlC \/ \E p \in Pids : ChildExit(p)

Next == ShellSteps \/ Commands \/ Environment

Spec == Init /\ [][Next]_vars

\* The shell's own steps happen once the kernel lets them; nothing forces
\* the user to type or a child to finish.
FairSpec == Spec /\ WF_vars(ShellSteps)

-----------------------------------------------------------------------------
Job == [in_use : BOOLEAN, job_id : Nat, pid : Pids \cup {0, NoPid},
        status : {"RUNNING", "STOPPED"}]

TypeOK ==
    /\ jobs \in [Slots -> Job]
    /\ next_job_id \in 1..MaxForks + 1
    /\ foreground_pid \in Pids \cup {NoPid}
    /\ proc \in [Pids -> {"unused", "run", "stop", "zombie", "reaped"}]
    /\ notify \in [Pids -> {"none", "stopped", "continued"}]
    /\ sigint_pending \subseteq {p \in Pids : proc[p] = "stop"}
    /\ forks \in 0..MaxForks
    /\ sh \in {"Check", "Read", "WaitFg", "FgWait", "WaitPipe", "Exit"}
    /\ fgslot \in Slots \cup {0}
    /\ pipe \in Seq(Pids \cup {NoPid})

\* Every job in the table stands for a child the shell has not reaped:
\* check_background_jobs and fg remove a job when they reap its process,
\* and no other waitpid reaps a job's process.
JobsHaveChildren ==
    \A s \in InUse : jobs[s].pid \in Children

\* The Running/Stopped status that activities prints and fg/bg act on is
\* the child's real state, unless the kernel still holds a notification
\* check_background_jobs has not read yet.
JobStatusConsistent ==
    \A s \in InUse :
        LET p == jobs[s].pid IN
        p \in Children /\ ~Waitable(p) =>
            ((jobs[s].status = "STOPPED") <=> (proc[p] = "stop"))

\* foreground_pid, which both signal handlers act on, is set only while
\* the shell waits on a foreground command, and names that command's child.
HandlerTargetsAwaited ==
    foreground_pid # NoPid =>
        \/ sh = "WaitFg" /\ foreground_pid = wpid
        \/ sh = "FgWait" /\ foreground_pid = jobs[fgslot].pid

\* the children the current foreground wait is waiting on
Awaited ==
    CASE sh = "WaitFg"   -> {wpid}
      [] sh = "FgWait"   -> Matching(jobs[fgslot].pid)
      [] sh = "WaitPipe" -> {pipe[i] : i \in 1..Len(pipe)} \cap Pids
      [] OTHER           -> {}

\* Once the foreground command of execute_single_command or fg has stopped
\* or exited, the shell gets back to the prompt (waitpid with WUNTRACED).
ForegroundReturns ==
    (sh \in {"WaitFg", "FgWait"} /\ \A c \in Awaited : proc[c] # "run")
        ~> sh = "Check"

\* Once no process of a foreground pipeline is running (all stopped or
\* exited), the shell gets back to the prompt.
PipelineReturns ==
    (sh = "WaitPipe" /\ \A c \in Awaited : proc[c] # "run") ~> sh = "Check"
=============================================================================
