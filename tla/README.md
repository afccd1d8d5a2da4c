# TLA+ models of the operating-systems-and-networks mini project

This directory holds TLA+ models of the repository's concurrent and
protocol code, together with the TLC configurations that check them. The
models are written from the C sources under `src/`. `PROJECT.json` lists
the components, the runs, the mutants, the line map and the hazards.

## 1. Inventory

The repository has three independent programs.

### 1.1 SHAM: reliable transfer over UDP (`src/networking`)

The system this project is mainly about (spec.md). It has two programs,
each a single thread, that talk only through a UDP socket pair.

| component | code | state | operations |
|---|---|---|---|
| Packet codec | `sham.h`, `send_packet`, `recv_packet(_timeout)` | none | encode a header plus payload; decode, where the payload length is the datagram length minus the header |
| Handshake, client | `perform_handshake` | `next_seq_num`, `window_base` | send SYN(100); wait 500 ms for SYN-ACK; send ACK |
| Handshake, server | `handle_handshake` | `next_expected_seq` | wait forever for SYN; send SYN-ACK(5000); wait forever for ACK |
| Sliding-window sender | `send_file` | `window[10]` (segment, length, send time, retries, acked), `done_sending`, file position | fill loop; 100 ms ACK poll; retransmission scan; abort after `SHAM_MAX_RETRIES` |
| In-order receiver | `handle_data_transfer` | `recv_buffer`, `next_expected_seq` | append the segment at `next_expected_seq` and ACK it; drop anything else silently |
| Loss simulator | `should_drop_packet` | `loss_rate`, rand state | drop an inbound data segment |
| Teardown | `perform_termination`, FIN branch of `handle_data_transfer` | none | FIN, ACK, FIN, ACK, each wait bounded or not |
| Chat mode | `handle_chat_mode` (both) | `next_seq_num` / `next_expected_seq` | best-effort lines, no ACKs |
| Event log, CLI, file output, MD5 | `log_event`, `main`, end of `handle_data_transfer` | log file | I/O only |

**How they interact.** The two programs share nothing but datagrams.
The channel loses datagrams, reorders them, and drops them when a socket
buffer is full. The client is one loop: fill, then poll for an ACK, then
scan for timed-out slots. Each receive has a timeout, so the loop never
blocks for long. The server blocks in `recvfrom` with a 2 s timeout and
simply re-enters it when the timeout fires.

**What is hard.**
- Interleaving the client loop with the server's receive loop.
- Loss and reordering of data, ACKs and control segments.
- Timeouts that fire while an answer is still on its way.
- The retry bound.
- Cumulative ACKs that arrive out of order.
- Mapping segments to window slots as the base slides.
- The teardown, in which each wait accepts whatever datagram comes first.

**What makes the system correct.**
- The receiver holds exactly a prefix of the file.
- The sender counts a byte as acknowledged only after the receiver has it.
- Both counters only ever grow.
- The sender always terminates.
- The retransmission scan resends the segment that is actually missing.
- Teardown exchanges FIN/ACK correctly, and both sides close.

### 1.2 The shell (`src/shell`)

- **REPL, parser and executor.** These parse a line into groups separated
  by `;` and `&`, and split each group into pipelines. They fork and exec
  the commands with the redirections applied, and wait for foreground
  commands.
- **Job table** (`jobs.c`). It holds `MAX_JOBS` slots, each with a job id,
  pid, command and status (Running or Stopped), plus a global
  `next_job_id` and `foreground_pid`. `check_background_jobs` reaps
  children with `waitpid(-1, WNOHANG|WUNTRACED|WCONTINUED)` before each
  prompt.
- **Job control** (`job_control.c`). This covers `activities`, `ping`,
  `fg` and `bg`.
- **Signal handlers** (`signals.c`). The SIGINT and SIGTSTP handlers run
  asynchronously to the main loop. They forward the signal to
  `foreground_pid`, and the SIGTSTP handler also marks the job as stopped.
- **History** (`log.c`). A 15-entry ring buffer that is persisted to
  `~/.shell_log`. It suppresses consecutive duplicates, never records
  `log` commands, and supports `log purge` and `log execute i`.
- **hop** (`hop.c`) maintains the current directory and `prev_dir`.
- **reveal** (`reveal.c`) lists a directory: flags `-a` and `-l`, at
  most one target resolved like hop's, entries read with `readdir`,
  hidden ones skipped without `-a`, sorted with `qsort` by `strcmp`.
- **The prompt** (`display_prompt`) shows the working directory with
  `home_dir` replaced by `~`.

What is hard here:
- The signal handlers interleave with the main loop's job-table updates.
- The children share the shell's process group, so terminal signals reach
  them directly.
- `waitpid` results arrive in an order the code does not control.
- The table can fill up.
- The ring buffer wraps around.

### 1.3 xv6 kernel patches (`src/xv6/kernel`)

- **Schedulers.** Four per-CPU loops over the process table: round robin,
  FCFS by `ctime`, CFS by `vruntime` with a weight derived from `nice`,
  and MLFQ with 4 queues, slices of 1, 4, 8 and 16 ticks, and a boost
  every 48 ticks. Each `proc` has its own spinlock.
  - The FCFS and CFS loops hold the best candidate's lock while they scan
    the others. CFS then logs the RUNNABLE processes, acquiring every
    lock again while it still holds the candidate's.
  - `allocproc` initialises the scheduling fields.
  - `usertrap` counts runtime and yields at the end of a slice.
- **getreadcount.** A global `total_bytes_read` that `fileread` increments
  without holding a lock.

What is hard here:
- Several CPUs run the scheduler loop at once.
- Lock ordering in the scan.
- Starvation freedom, which depends on the boost.
- The unlocked counter.

## 2. Plan

The modules in the order they are written, the most important behaviour
first:

1. **SHAM core, done in this sitting.**
   - `ShamNet` declares the connection's variables and the channel.
   - `ShamClient` and `ShamServer` model the two programs.
   - `Sham` composes them.
   - `StreamSpec` is the abstract in-order stream that `Sham` refines.
   - `MCSham` instantiates them for TLC.
2. **SHAM extensions.**
   - Transfer completion under a channel that eventually delivers resent
     segments. This is a liveness property; it is expected to fail through
     the slot-index bug and the missing re-ACK.
   - A handshake agreement property, done: `SuccessMeansDelivered`.
   - Teardown segment matching.
   - A configuration with an empty file.
   - Chat mode, done: folded into `ShamClient`, `ShamServer` and `Sham`
     with `chat_mode` chosen at the start.
3. **`ShellJobs`, done (section 4).** The job table, fg/bg/ping, the
   signal handlers, the fork and wait steps of the executor, and the
   kernel's side: child states and wait notifications.
4. **`ShellLog` and `HistorySpec`, done (section 4).** The ring buffer
   across restarts, shown to implement the history of the newest
   `MAX_LOG_ENTRIES` commands.
5. **`XvSched`, done (section 5).** The four scheduler builds on two
   CPUs with per-process locks, in one module with the build as a
   constant, and `MCXvSched`, which checks every build in one run:
   - mutual exclusion of running processes, and deadlock freedom of the
     FCFS lock order;
   - the CFS log loop acquiring a lock its CPU holds (violated,
     section 5);
   - MLFQ time slices within their queue's slice;
   - MLFQ starvation under the boost (violated, section 5).
6. **`ShellParser` and `ShellRepl`, done (section 4).** The syntax
   check, checked against the grammar of its comments; the main loop,
   the executor's own splitting, `hop`, `reveal`, the prompt, and `log
   execute` running `execute_full_command` recursively, composed with
   `ShellLog`.
7. **Not taken up: `getreadcount`.** Its defect is a lost update on one
   word, plain from the code; section 6 describes it.

## 3. SHAM: modules and correspondence

| module | models |
|---|---|
| `ShamNet` | the variables of both programs, the segment record, `Sendto` (`send_packet` into a bag that drops datagrams when full) and `Lose` |
| `ShamClient` | `perform_handshake`, `send_file`, `perform_termination`, `handle_chat_mode` |
| `ShamServer` | `handle_handshake`, `handle_data_transfer`, `handle_chat_mode` |
| `Sham` | the composition, fairness and properties |
| `StreamSpec` | the abstract stream of `sent`, `delivered` and `acked` prefix lengths |

**Control points.** `cpc` and `spc` are the points each thread blocks at,
or the phase its loop is in.
- Client: `Start`, `SynSent`, `Fill`, `Poll`, `Scan`, `Chat`,
  `FinWait1`, `FinWait2`, `Closed`, `Failed`.
- Server: `WaitSyn`, `WaitAck`, `Data`, `Chat`, `LastAck`, `Closed`,
  `Aborted`.

**Chat mode.** `chat_mode` is each program's `--chat` global. It is
chosen in `Init` and never changes, and both programs are given the
same value. After the handshake, `main` enters `handle_chat_mode`
instead of the transfer (the branch is in `ClientRecvSynAck` and
`ServerRecvAck`).
- Each side's user may type a line (`ClientChatLine`,
  `ServerChatLine`). The line is sent once at the side's counter and
  is never acknowledged.
- On the client, `/quit` runs `perform_termination` (`ClientChatQuit`,
  then the teardown actions). On the server, `/quit` sends a bare FIN
  and leaves.
- A received FIN ends either loop; other datagrams are printed.
- The users' steps carry no fairness.
- `ChatLines` bounds the lines each user types: one line of one byte
  (`fgets` reads at most `SHAM_DATA_SIZE - 1` bytes).
- The server's counter starts at the `seq_num` of the ACK that ended its
  handshake. This can be 0: if the client's FIN is lost, the client's
  final ACK, sent after it has left, is taken for the handshake ACK.
  `ChatSeqs` bounds the counter from either start.

No property is stated of chat: spec.md section 1 excludes it as
best-effort. The file-transfer properties are stated for
`~chat_mode`, and the run explores both modes.

**Actions.** There is one action per path through a loop iteration or
receive.
- One fill-loop iteration is `ClientFillSegment`, `ClientFillEof` or
  `ClientFillStop`.
- The scan is `ClientScanIdle`, `ClientRetransmit`,
  `ClientRetriesExhausted` or `ClientSendFin`. The last one is the
  loop's break followed by the FIN that `perform_termination` sends.
- The scan is one atomic step. It chooses the set of slots that have
  timed out and resends them in slot order. The first timed-out slot
  that is at its retry limit aborts the transfer, after the slots before
  it have been resent.
- Every bounded receive has a "receive" action and a "timeout" action.
  The server's blocking receives only have the receive action, since the
  code loops on their timeout.

**Data.**
- Sequence numbers are the code's own: client ISN 100, server ISN 5000.
- A payload is the sequence of file offsets it carries. So
  `recv_buffer = <<0, 1, ..., k-1>>` says the receiver holds the first
  k bytes of the file.
- The `acked` flag of a slot is left out, because no code ever sets it.
- `window_size` and `peer_window` are left out: the value is always
  65535, and it is never read for flow control (spec.md section 9).
- The handshake checks for a non-SYN first datagram and for a reply
  without SYN-ACK are kept as IF expressions. With a single peer they
  cannot fail, because only the peer's SYN or SYN-ACK is in flight at
  that point.

**Time.** Time is abstract. A bounded receive may time out at any point
where it waits, and any scan may find any scanned slot timed out. This
over-approximates every real timing.

**Fairness** (`FairSpec`).
- Weak fairness of each thread's next step. Each thread always runs,
  since a bounded receive always returns.
- Strong fairness of `ClientTimeout`. A slot that a scan keeps finding
  unacknowledged eventually times out, because real time passes during
  every 100 ms poll.
- No fairness for the channel, which may lose everything.

### Runs

All runs use `MCSham`: window 3, segments of 2 bytes, a 7-byte file
(segments of 2, 2, 2 and 1 bytes), 2 retries, channel capacity 3, and
the loss simulator on. These bounds let the window fill, slide past its
start and wrap, exercise a short last segment, and exhaust the retries.
In chat mode each user types one line before `/quit`. The passing run
has 244k distinct states and takes about 20 s.

| run | cfg | expect | shows |
|---|---|---|---|
| `sham_transfer` | `MCSham.cfg` | pass | `TypeOK`; `StreamIntegrity`: the receiver's buffer is the file prefix and `next_expected_seq` is in step with it; `StreamRefinement`: `Sham` implements `StreamSpec` (sent, delivered and acked grow, acked <= delivered <= sent), and a byte is never acked before it is delivered; `SuccessMeansDelivered`: once `send_file` has returned success (FIN sent), the server has accepted the handshake and holds the whole file, so a server that aborted on a segment overtaking the handshake ACK (`server.c:156`) leaves the client failing; `ClientTerminates`: the client of a file transfer always ends, closed or failed |
| `sham_scan_slot` | `MCSham_SlotHoldsScannedSegment.cfg` | violation | after an ACK moves the base, slot i no longer holds offset `window_base + i*DataSize`; the scan resends an acknowledged segment and never the missing one |
| `sham_final_ack` | `MCSham_FinalAckAcksPeerFin.cfg` | violation | the final ACK carries `ack_num` 1 |
| `sham_server_close` | `MCSham_ServerClosesAfterClient.cfg` | violation | a lost FIN leaves the server in its data loop forever |

`CHECK_DEADLOCK FALSE`: both programs really do stop. The client stops
closed or failed; the server stops closed, aborted, or blocked in a
receive on an empty channel. A program blocked forever is caught by the
liveness properties instead.

Each property of the passing run has a mutant, a plausible bug in the
code it depends on, that TLC catches (see `PROJECT.json`):
- a fill that ignores fread's short count;
- a receiver that accepts `seq >= next_expected_seq`;
- a cumulative ACK without its `>` test;
- a resend that is not counted against the retries;
- a `send_file` loop that breaks once all input is read, before it is
  acknowledged.

## 4. Shell: modules and correspondence

### `ShellJobs` (`jobs.c`, `job_control.c`, `signals.c`, `executor.c`, `main.c`)

The shell is one thread. Its two signal handlers run between any two of
its steps. The model keeps its control in `sh`, which records where
`main` is blocked or about to act:
- `Check` is `check_background_jobs` before the prompt.
- `Read` is the prompt.
- `WaitFg` is `waitpid(pid, WUNTRACED)` in `execute_single_command`.
- `FgWait` is the same wait in `cmd_fg`.
- `WaitPipe` is the `waitpid(pids[i], 0)` loop of `execute_pipeline`.
- `Exit` is after the EOF logout.

A step from the prompt runs a whole command up to its next blocking
wait. The step that returns from a wait includes everything the code
does after it: `add_job` for a stopped command, `remove_job`, and the
reset of `foreground_pid`.

The kernel's side is explicit:
- `proc[p]` is a child's state: running, stopped, exited but unreaped,
  or reaped.
- `notify[p]` is the stopped or continued report that `waitpid`
  (WUNTRACED, WCONTINUED) has not yet consumed.
- `sigint_pending` is a Ctrl-C the shell itself has ignored.

A fork uses a fresh pid from `1..MaxForks`. With `ForkCanFail` it may
return -1, and the code then carries -1 into `add_job`, `waitpid`
and `kill`. The model keeps that: `waitpid(-1)` waits for any child,
and `kill(-1)` signals every child.

Because no child is given its own process group, `CtrlZ` and `CtrlC`
deliver to every child, and then run the handler, which forwards the
signal to `foreground_pid`. `sigtstp_handler` also marks the job
stopped and clears `foreground_pid`. `ChildExit` is a child's program
ending. `Ping` is `ping <pid> <sig>` with a small set of signals.

Fairness: `WF_vars(ShellSteps)` only. These are the shell's own steps
once the kernel has something to report: reaping, and returning from
a wait whose child has stopped or exited. Neither the user nor a
child's program is ever forced to act.

### `ShellLog` and `HistorySpec` (`log.c`)

`log_entries`, `log_count` and `log_start` are the statics. `log_loaded`
records whether `load_log` has run, and `file` is `~/.shell_log`.
Commands are model values.

Each action is a whole function:
- `AddCommand` loads on first use, skips a duplicate of the newest
  entry, pushes onto the ring (overwriting the oldest when full) and
  saves.
- `LogPurge` and `LogExecute(i)` are the branches of `cmd_log`.
  `LogExecute` covers indices 0..MaxLog+1, including the invalid ones.
- `Restart` is a new shell process: the statics are reset and the file
  is kept.

`HistorySpec` is the promise: a list of the newest `MaxLog` commands,
without consecutive duplicates, that `log execute i` reads from the
newest end. `ShellLog` maps to it with `hist <- Contents(Loaded)`, the
buffer as it is after a load. The refinement is checked with the log driven by
`ShellRepl`, so that the commands, purges and `log execute`s are the ones
the shell's lines produce.

### `ShellParser` (`parser.c`)

`parse_input` and the functions it calls are operators over a line given
as a sequence of characters. A function that returns the pointer past
what it read returns a position, and 0 where it returns NULL. Each loop
(`parse_atomic`'s, `parse_cmd_group`'s, `parse_input`'s) is a RECURSIVE
operator (`AtomicRest`, `GroupRest`, `InputRest`).

`GrammarAccepts` is the reference. It is the grammar written in the
comments of `parser.c`, over tokens (names, `<`, `>`, `>>`, `|`, `&`,
`;`), and it does not share code with the recursive descent except
the character classes.

### `ShellRepl` (`main.c`, `executor.c`, `hop.c`, `log.c`, `reveal.c`)

The shell process's own state, composed with `ShellLog` through
`Log == INSTANCE ShellLog`:
- `cwd` and `prev_dir` are the process's directory and `hop.c`'s
  `prev_dir`. A directory is a sequence of names, over a fixed tree
  `Dirs`.
- `frames` is the C call stack of `execute_full_command`. It holds one
  frame per active call, with the command groups that call has not run
  yet. A typed line runs in one frame; `log execute` pushes another.
- `crashed`: a push beyond `MaxDepth` frames overflows the stack.
- `printed` is what the last step wrote: a `reveal` error, or the
  directory it listed and its names in print order.
- `file_exists` is whether the log file exists. It decides whether the
  home directory holds the hidden entry `LogFile`.

Words such as `hop` or `execute` are single characters of a line. This
is exact for the parser and the splitters: all letters of a word are
name characters, so each function reads the word as it reads its
letters.

Actions, each a whole handler:
- `ReadLine(l)` is one turn of `main`'s loop. It trims the line and
  skips an empty line or a comment. `log_add_command` records the
  line, or only loads the log for a line that starts with `log`.
  `process_input` then parses it and, when it is valid, pushes its
  groups (`CommandGroups`, the split of `execute_full_command`).
- `RunHop` and `RunLog` run the next group when `execute_pipeline`
  finds a single command and `execute_single_command` runs an
  intrinsic without redirection in the shell. `RunLog` covers every
  branch of `cmd_log`, and for a valid `log execute` whose entry
  parses it pushes the entry's groups.
- `RunReveal` runs `cmd_reveal`. It reads the flags, rejects a second
  target or an unknown flag, and resolves the target like hop. It then
  lists the directory: `readdir` order is free (every order of the
  entries, `.` and `..` included), hidden entries are dropped without
  `-a`, and `qsort` with `strcmp` sorts the rest. `StrcmpFrom` is
  `strcmp`, a byte comparison over `CharCode`.
- `RunElsewhere` is every other group. If the group's command (the
  last one of a pipeline) has an output file, the forked child opens it
  with `O_CREAT` in the shell's directory before it execs. The file goes
  into `created`, where `reveal` sees it. The model takes the open at
  the fork: for a background group the real child may open it a little
  later, after the shell's next step. A failed fork or input open is
  not modelled here (ShellJobs models fork failure).
  `RunElsewhere` covers a pipeline, an external
  command, a redirected intrinsic, or another intrinsic. These run in
  a child or touch only the job table (`ShellJobs`), so none of this
  module's state changes.
- `Return` is `execute_full_command` returning after its last group.
- `Restart` is EOF at the prompt (logout) or the shell having died,
  followed by a new shell in the home directory.

The parsing of a line depends only on the line, so `Syntax`,
`GroupsOf`, `ArgsOf`, `RunsHop`, `RunsLog` and `RunsReveal` tabulate
it once over `Lines`. `RevealTable` tabulates `cmd_reveal` over the
reveal groups, the directories and `file_exists`.

`DisplayPath` is `display_prompt`'s path. The path is `home_dir`
followed by a `/`: `~` and the rest. It is `home_dir` itself: `~`.
Otherwise it is the full path. `PathChars` is `getcwd`'s string.

Fairness: `WF_vars(Step)`. These are the shell's own steps once a line
has been read; the user is never forced to type, or to restart a shell
that died.

### Runs

Bounds:
- `MCShellJobs`: 2 job slots and 4 forks. This lets a table fill and
  refuse a job, and lets two jobs and a foreground command coexist
  with a pipeline of two.
- `MCShellRepl`: `MAX_LOG_ENTRIES` is 3, and four of the nine lines
  are recorded (five with the recursive one), and two more lines run
  `reveal`. This makes the ring wrap,
  skip duplicates and be purged, across a restart. The directories are
  `/`, `/h` (home), `/h/a`, `/h/B` and `/hh`, so `hop a` works once and
  then fails, and `..` and `-` move between them. `B` sorts before `a`
  by byte and `hh` shares the home path's characters, which are the
  cases a wrong comparison or a prefix test gets wrong. The log file
  `.shell_log` is a hidden entry of home that `-a` must show. The line
  `hop;a|b;hop a>b&` goes home first, so its background child creates
  `b` in home, where `reveal -a ~` lists it. Starting it with a bare
  `hop` keeps the file to one directory; a file in each of the five
  directories makes the run too large. A stack of 3 frames is one more
  than a typed `log execute` needs. The parser is checked on every
  string of up to six characters over `a`, a blank, and the five
  special characters: 137,257 strings, which include every two-operator
  combination, `>>`, and trailing `&`.

| run | cfg | expect | shows |
|---|---|---|---|
| `shell_jobs` | `MCShellJobs.cfg` | pass (78k states) | `JobsHaveChildren`: every job names an unreaped child. `JobStatusConsistent`: RUNNING/STOPPED in the table is the child's state, unless a report is pending. `HandlerTargetsAwaited`: `foreground_pid` is set only while the shell waits on that foreground command. `ForegroundReturns`: a command that stops or exits gives the prompt back. Fork never fails in this run. |
| `shell_fork_failure_jobs` | `MCShellJobs_JobsHaveChildren.cfg` | violation | a background pipeline whose forks failed calls `add_job(-1)` (`executor.c:312`) |
| `shell_pipeline_stop` | `MCShellJobs_PipelineReturns.cfg` | violation | Ctrl-Z during a foreground pipeline hangs the shell: `waitpid(pids[i], 0)` without WUNTRACED (`executor.c:318`) |
| `shell_repl` | `MCShellRepl.cfg` | pass (338k states, about 2 min) | `ParserMatchesGrammar`: `parse_input` accepts exactly the grammar. `ExecutorAgreesWithParser`: on every accepted string, `execute_full_command` runs exactly the grammar's groups, each a whole `cmd_group`, and no pipeline command is empty. `HistoryRefinement`: with the log driven by the lines read, including the nested `log execute` and a crash, the log implements `HistorySpec`. `RevealListsTarget`: `reveal` lists the directory hop would enter for the same argument, exactly its visible entries (all with `-a`, the child-created `b` once it exists), in strictly increasing byte order, whatever order `readdir` returns. `PromptShowsHome`: the prompt shows `~` exactly when the shell is in home or below it, and then the rest of the path. |
| `shell_log_recursion` | `MCShellRepl_LogExecuteRecursion.cfg` | violation | `LineReturns`: the shell does not come back to the prompt. `a ; log execute 1` is recorded (only a leading `log` is skipped, `log.c:91`) and then runs itself again until the stack overflows. |

Every `ShellJobs` cfg sets `CHECK_DEADLOCK FALSE`. The shell really does stop after logout, and a
shell blocked on a wait is a liveness question, not a deadlock. `MCShellRepl.cfg` checks for
deadlock: a shell can always read another line, or be started again.

Children are forked without `setpgid` (`executor.c:132`), so they stay in the shell's process
group. `CtrlC` and `CtrlZ` send the terminal's signal to every child, and `shell_jobs` checks that
the table stays consistent even so. One consequence is a bug: Ctrl-C kills background jobs, and the
handlers, which forward only to `foreground_pid`, show that this is not intended. No run states
it, because all the run slots are in use; the trace is two steps, `RunBg` and then `CtrlC`.

The fork-failure variant is covered by `shell_fork_failure_jobs`. `HandlerTargetsAwaited` is
checked in `shell_jobs`, where fork succeeds.

`hop` is modelled as the code has it. A bare `hop` copies `getcwd` after `chdir(home_dir)` into
`prev_dir`, which is home itself (`hop.c:22`). The branch for arguments saves the directory left
(`hop.c:67`). So `hop -` after a bare `hop` does not go back. `shell_repl` reaches this with
`hop .. - ; hop`. No property is stated for it, because no comment or test of the code says what
`prev_dir` must hold.

`PromptShowsHome` holds only when home is not `/`. A shell started in `/` has `home_dir` "/", and a
subdirectory `/a` does not start with "//", so the prompt shows `/a`, not `~/a` (`main.c:57`). The
run's home is `/h`. This is recorded as a hazard.

## 5. xv6 schedulers: `XvSched` (`proc.c`, `mlfq_scheduler.c`, `proc_init.c`, `trap.c`)

`XvSched` models `scheduler()` of the four builds, with the constant
`Policy` choosing the build as the `#ifdef`s do.

State:
- Per process: `state`, `ctime`, `runtime`, `vruntime`, `queue`,
  `time_slice`, the fields of `struct proc`, and `lock`, the owner of
  `p->lock`.
- Per CPU: `cproc` (`c->proc`), and where its loop is: `spc` (top of
  `for(;;)`, scanning, CFS's log loop, switched to a process, or
  stopped in `panic`), the scan index `idx`,
  the MLFQ queue `q`, the FCFS/CFS candidate `cand`, CFS's `start_time`
  and MLFQ's `elapsed`.

A step is the work a CPU does under one `p->lock`.
- `lock` records only locks held across steps. These are the FCFS and
  CFS candidates, held while the scan acquires the next process
  (`CandidateScan`, `proc.c:15-29`).
- `CandidatePick` ends the scan. FCFS dispatches the candidate. CFS
  prints "[Scheduler Tick]" and enters its log loop (`CfsLog`,
  `proc.c:99-105`). That loop acquires each `p->lock`, waiting while
  another CPU holds it, while this CPU still holds `min_proc`'s. At
  `p == min_proc` it acquires a lock its own CPU holds. Stock xv6's
  `acquire` panics then (`spinlock.c` is not in this repository;
  without the check the CPU would spin on itself). `panic` ends in
  `for(;;)` (`PanicSpin`, a step that changes nothing). From then on,
  a CPU that prints spins as well (`Panicked`).
- Round robin and MLFQ hold one lock at a time, so each of their
  iterations is a single step (`RRScan`, `MlfqScan`).
- `Dispatch` is `state = RUNNING; c->proc = p; swtch`.
- `AfterSwitch` is the code after `swtch` returns: CFS's `vruntime`
  update and MLFQ's slice and demotion (`mlfq_scheduler.c:55-68`).
- `SchedTop` is the top of the loop, with MLFQ's boost.

The running process leaves the CPU through `TimerTrap`, `usertrap`'s
timer branch (`trap.c`). CFS counts the RUNNABLE processes there, lock by
lock, and yields when `runtime` is a multiple of the slice; the other
builds always yield.

`SysFork` is `allocproc`'s choice of the first UNUSED entry and its
initialisation of the scheduling fields (`proc_init.c:44-54`). Sleep,
exit, wait, wakeup and `clockintr` are stock xv6, not in this repository,
and are the scheduler's environment (`spec_modelled` in the map).

Ticks. Only the boot CPU's timer increments `ticks`. Each build keeps
only what it reads:
- FCFS reads the absolute value, through `ctime`. `ticks` is bounded by
  the constraint `CounterBound`.
- MLFQ reads only differences: `since_boost` (`ticks - last_boost`) and
  `elapsed` (`ticks - start_ticks`). Both saturate where no comparison
  changes any more, so they are exact.
- CFS's `runtime` is bounded by `CounterBound`.

A scan takes far less than a tick. So a tick is taken inside the
scheduler (`IdleTick`) only while nothing is RUNNABLE.

### `MCXvSched`

`MCXvSched` instantiates `XvSched` once per build:
`Build(b) == INSTANCE XvSched WITH Policy <- b`. It picks the build in
the initial state, so one run covers a set of builds `Builds`.

Bounds:
- 3 `proc[]` entries, which lets two CPUs each run a process while a
  third waits.
- MLFQ queue slices `<<1, 2>>`, so demotion and the bottom queue are
  reached.
- CFS target latency 6 and minimum slice 3, so both outcomes of the
  slice computation are reached.
- `ticks <= 3` and `runtime <= 4`.

Fairness (`FairSpec`, used by the liveness run):
- Weak fairness on each CPU's scheduler steps.
- Strong fairness on `TimerTrap`, and on the boot CPU's ticks. The timer
  is periodic and a CPU that keeps dispatching spends its time in runs,
  so an interrupt that is enabled again and again does come.
- System calls and wakeups are not forced.

| run | cfg | expect | shows |
|---|---|---|---|
| `xv_sched` | `MCXvSched.cfg` | pass (2.5M states, about 45 s) | All four builds on 2 CPUs. `MutualExclusion`: no process runs on two CPUs, and RUNNING means some CPU switched to it. In FCFS this rests on the scan keeping the candidate's lock until `swtch`. The deadlock check shows that the FCFS scans of two CPUs and fork's lock-by-lock search never wait on each other. CFS never dispatches, because it stops in `panic` at its first decision. The panic's `for(;;)` is a step of the model, so the deadlock check does not report this; `xv_cfs_panic` does. For CFS, `MutualExclusion` therefore holds without a process ever running. `TimeSliceInRange`: an MLFQ process's remaining slice is always between 1 and its queue's slice. |
| `xv_mlfq_starvation` | `MCXvSched_MlfqStarvation.cfg` | violation | `StarvationFree` fails under MLFQ with 1 CPU, 3 processes and a boost every 2 ticks. |
| `xv_cfs_panic` | `MCXvSched_NoPanic.cfg` | violation | `NoPanic` fails in CFS: scan, pick `init`, enter the log loop, acquire `proc[0]`'s lock, which the CPU holds. The CFS kernel stops before it runs anything (`proc.c:100`). |

The `xv_mlfq_starvation` counterexample:
- A boost puts every process in queue 0 with a 1-tick slice.
- The selection always scans from `proc[0]`.
- When the other processes' turns add up to the boost interval, the next
  boost comes before the scan reaches the last process, which never
  runs.
- With the same bounds and an interval of 3, the property holds. In the
  real build, `NPROC` is 64 and the interval 48, so about 48 CPU-bound
  processes on one CPU are enough.
- The code's comment says the boost is there "to prevent starvation"
  (`mlfq_scheduler.c:21`).

Not checked:
- Liveness of FCFS and CFS. FCFS's counters are unbounded, and FCFS
  favours the oldest process by design. CFS never runs a process.
- CFS's new processes start at `vruntime` 0 (`proc_init.c:47`), so a
  stream of forks could hold back old processes once the log loop is
  fixed. This is listed as a hazard.

## 6. Not modelled

- The byte layout of the header.
- Malformed datagrams: no peer produces them.
- Flow control: the window size is never used.
- Sequence-number wraparound: a non-goal in the spec.
- Logging, argument parsing, the file write and MD5: I/O only.
- Chat mode's text, and any property of it: the spec calls it
  best-effort. Its control is modelled.
- Shell: what is written to or read from redirection files (their
  creation is modelled), the pipes' data, `activities`,
  `reveal -l`'s long format, and the user and host names of the prompt.
  These are file I/O and output, and no other part reads them.
  `reveal -l` is modelled as it selects entries; the format is not.
  reveal's `malloc`, `realloc` and `strdup` failures are not modelled. `tokenize_and_execute` is declared but never
  called.
- Shell: the capacity of `cmd_groups[100]` and `commands[MAX_PIPES]`.
  Filling them takes lines of hundreds of characters, which the string
  operators cannot enumerate. This is listed as a hazard.
- Shell: `isspace` is modelled as blank and tab. main strips the
  newline, and the other whitespace characters are not typed at a
  prompt.
- Shell: pid reuse, and the window between `waitpid` returning and
  `foreground_pid` being reset. The model never reuses a pid.
- Shell: a `save_log` that fails or is torn, and two shells sharing one
  log file. These are listed as hazards in `PROJECT.json`.
- xv6 `getreadcount`. `fileread` increments `total_bytes_read` without a
  lock (`file.c:22`). Two CPUs that load it before either stores lose one
  read's bytes, so the count can only under-report. This is a plain lost
  update on one word.
- xv6 stock code: `fork`, `exit`, `wait`, `sleep` and `wakeup` appear in
  `XvSched` only as the scheduler's environment.
