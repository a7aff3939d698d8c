----------------------------- MODULE NobProcsMC -----------------------------
(* Three commands, so that with two slots one waits in the queue while two  *)
(* run, and one can be left over when a call has raised.                    *)
EXTENDS NobProcs

CONSTANTS cc, ld, test

MCCmds == {cc, ld, test}

MCMaxJobs == 0 .. 3

\* Success, exit 1, exit 127 as after a failed exec, SIGKILL, and SIGSEGV
\* with a core dump.
MCStatuses == {0, 256, 127 * 256, 9, 128 + 11}
=============================================================================
