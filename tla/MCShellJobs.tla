----------------------------- MODULE MCShellJobs -----------------------------
(* Job control with a two-slot job table (so add_job can find it full) and *)
(* four fork() calls: enough for a background job, a stopped foreground   *)
(* command and a two-process pipeline in one behaviour.                    *)
EXTENDS ShellJobs

MCMaxJobs == 2
MCMaxForks == 4
=============================================================================
