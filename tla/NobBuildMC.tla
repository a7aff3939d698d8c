----------------------------- MODULE NobBuildMC -----------------------------
(* Two objects that share a header, and the program linked from them.       *)
EXTENDS NobBuild

CONSTANTS mainc, utilc, header, maino, utilo, app

MCCmds == {maino, utilo, app}
MCObjects == <<maino, utilo>>
MCSources == {mainc, utilc, header}
MCInputs == (maino :> <<mainc, header>>) @@ (utilo :> <<utilc, header>>)
              @@ (app :> <<maino, utilo>>)

\* With one slot the second object waits for the first.
MCMaxJobs == {1, 2}

\* Success, a compile error, and SIGKILL.
MCStatuses == {0, 256, 9}
=============================================================================
