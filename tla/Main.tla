-------------------------------- MODULE Main --------------------------------
(***************************************************************************)
(* A run of the program, from the command line to the exit status: main    *)
(* (main.c), parse_args (argparse.c), and set_arg_table, around the search *)
(* path of LibPath, which main sets up before the script runs and which    *)
(* the script uses.                                                        *)
(***************************************************************************)
EXTENDS LibPath

CONSTANTS
  Inputs,      \* the command lines and the values of TMG_LIB_PATH
  Scripts,     \* the arguments that name a file luaL_loadfile loads
  StackRoom    \* arguments that luaL_checkstack makes room for

ASSUME InputsAssumption ==
  /\ \A in \in Inputs : in.argv \in Seq(STRING) /\ in.env \in Strings
  /\ StackRoom \in Nat

VARIABLES
  argv,        \* argv[1] is the program, C's argv[0]
  stage,       \* where main is
  script_idx,  \* C's index in argv of the script
  arg,         \* the global table arg
  varargs,     \* ... of the script's main chunk
  status       \* exit status, -1 while the program runs

mainvars == <<argv, stage, script_idx, arg, varargs, status>>
vars == <<libvars, mainvars>>

argc == Len(argv)

NoArg == <<>>

Init ==
  /\ \E in \in Inputs : argv = in.argv /\ env = in.env
  /\ LibInit
  /\ stage = "args" /\ script_idx = 0 /\ status = -1
  /\ arg = NoArg /\ varargs = <<>>

At(s) == stage = s /\ UNCHANGED argv

Goto(s) == stage' = s /\ UNCHANGED status

Exit(code) == stage' = "ended" /\ status' = code

----------------------------------------------------------------------------

IsOption(a) == a \in {"-h", "-v"}

\* parse_args; every branch of its loop leaves it in the first round.
HelpOrVersion ==
  /\ At("args") /\ argc > 1 /\ IsOption(argv[2])
  /\ Exit(0)
  /\ UNCHANGED <<libvars, script_idx, arg, varargs>>

NoScript ==
  /\ At("args") /\ argc <= 1
  /\ Exit(1)
  /\ UNCHANGED <<libvars, script_idx, arg, varargs>>

TakeScript ==
  /\ At("args") /\ argc > 1 /\ ~IsOption(argv[2])
  /\ script_idx' = 1
  /\ Goto("state")
  /\ UNCHANGED <<libvars, arg, varargs>>

\* luaL_newstate.
NewState ==
  /\ At("state")
  /\ Goto("paths")
  /\ UNCHANGED <<libvars, script_idx, arg, varargs>>

NewStateFails ==
  /\ At("state")
  /\ Exit(1)
  /\ UNCHANGED <<libvars, script_idx, arg, varargs>>

\* setup_lib_path.
SetupEntry ==
  /\ At("paths") /\ Goto("paths")
  /\ ParseEntry
  /\ UNCHANGED <<script_idx, arg, varargs>>

SetupDone ==
  /\ At("paths") /\ Goto("arg")
  /\ StorePaths
  /\ UNCHANGED <<script_idx, arg, varargs>>

\* Defect: the table begins with the program.
SetArgTableFromProgram ==
  /\ At("arg")
  /\ arg' = [k \in 0 .. argc - 1 |-> argv[k + 1]]
  /\ Goto("load")
  /\ UNCHANGED <<libvars, script_idx, varargs>>

\* set_arg_table, and luaopen_tmg, which only names what is there.
SetArgTable ==
  /\ At("arg")
  /\ arg' = [k \in 0 - script_idx .. argc - 1 - script_idx |->
               argv[k + script_idx + 1]]
  /\ Goto("load")
  /\ UNCHANGED <<libvars, script_idx, varargs>>

Script == argv[script_idx + 1]
nargs  == argc - script_idx - 1

LoadFails ==
  /\ At("load") /\ Script \notin Scripts
  /\ Exit(1)
  /\ UNCHANGED <<libvars, script_idx, arg, varargs>>

\* luaL_checkstack raises outside of any pcall: the panic function returns
\* and the process exits.
Panic ==
  /\ At("load") /\ Script \in Scripts /\ nargs > StackRoom
  /\ Exit(1)
  /\ UNCHANGED <<libvars, script_idx, arg, varargs>>

\* The arguments are pushed and the script is called.
PushArgs ==
  /\ At("load") /\ Script \in Scripts /\ nargs <= StackRoom
  /\ varargs' = [n \in 1 .. nargs |-> argv[script_idx + 1 + n]]
  /\ Goto("run")
  /\ UNCHANGED <<libvars, script_idx, arg>>

----------------------------------------------------------------------------
(* The script, and lua_pcall.                                              *)

Running == At("run") /\ Goto("run") /\ UNCHANGED <<script_idx, arg, varargs>>

CallFindLib == Running /\ \E name \in Names : FindLib(name)

InFindLib == Running /\ (TooLong \/ Match \/ NoMatch \/ NotFound)

GoOn == Running /\ TakeResult

Outside == Running /\ FileChanges

EditLibPath == Running /\ ChangeLibPath

\* It returns, fails, or calls os.exit.
ScriptReturns ==
  /\ At("run") /\ Idle
  /\ Exit(0)
  /\ UNCHANGED <<libvars, script_idx, arg, varargs>>

ScriptFails ==
  /\ At("run") /\ Idle
  /\ Exit(1)
  /\ UNCHANGED <<libvars, script_idx, arg, varargs>>

Next ==
  \/ HelpOrVersion \/ NoScript \/ TakeScript
  \/ NewState \/ NewStateFails
  \/ SetupEntry \/ SetupDone
  \/ SetArgTable \/ LoadFails \/ Panic \/ PushArgs
  \/ CallFindLib \/ InFindLib \/ GoOn \/ Outside \/ EditLibPath
  \/ ScriptReturns \/ ScriptFails

Spec == Init /\ [][Next]_vars

----------------------------------------------------------------------------
(* Properties.                                                             *)

Stages == {"args", "state", "paths", "arg", "load", "run", "ended"}

\* Types and ranges.
TypeOK ==
  /\ LibTypeOK
  /\ argv \in Seq(STRING)
  /\ stage \in Stages /\ script_idx \in {0, 1} /\ status \in {-1, 0, 1}
  /\ status = -1 <=> stage # "ended"
  /\ varargs \in Seq(STRING)

\* What the script sees of its command line is what was written after its
\* name: arg[0] is the script, arg[n] the n-th of `...' and of the command
\* line, also if it looks like an option of tmg, and arg[-1] is the program
\* (README.md 53-72, comment at main.c 606-608).
ArgsAgree ==
  stage = "run" =>
    /\ arg[0] \in Scripts
    /\ arg[-1] = argv[1]
    /\ Len(varargs) = argc - 2
    /\ DOMAIN arg = -1 .. Len(varargs)
    /\ \A n \in 1 .. Len(varargs) : arg[n] = varargs[n] /\ arg[n] = argv[n + 2]

\* The search path is complete before the script runs, and stays.
PathsReady ==
  EntriesTaken /\ (stage \in {"arg", "load", "run"} => SearchOrder)

=============================================================================
