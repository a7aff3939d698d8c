----------------------------- MODULE MainProofs -----------------------------
(***************************************************************************)
(* Proofs about Main: what a script sees of its command line, what         *)
(* find_lib returns to it while files come and go, and what is in the      *)
(* search path, for every command line and every TMG_LIB_PATH, whatever    *)
(* the script does with the table of directories.                          *)
(***************************************************************************)
EXTENDS Main, ListTheorems, SequenceTheorems, FiniteSetTheorems

Words == argv \in Seq(STRING)

\* From TakeScript on there is a script, and it is the first argument.
HasScript ==
  stage \in {"state", "paths", "arg", "load", "run"} =>
    script_idx = 1 /\ argc > 1

\* The global table, once set_arg_table has run.
ArgTable ==
  stage \in {"load", "run"} => arg = [k \in -1 .. argc - 2 |-> argv[k + 2]]

\* The arguments of the main chunk, once it is called.
Varargs ==
  stage = "run" =>
    argv[2] \in Scripts /\ varargs = [n \in 1 .. argc - 2 |-> argv[n + 2]]

AInv == Words /\ HasScript /\ ArgTable /\ Varargs

LEMMA InitArgs == Init => AInv
BY InputsAssumption DEF Init, AInv, Words, HasScript, ArgTable, Varargs

LEMMA StepArgs ==
  ASSUME AInv, [Next]_vars
  PROVE  AInv'
<1>. USE DEF At, Goto, Exit
<1>1. CASE HelpOrVersion \/ NoScript
  BY <1>1 DEF HelpOrVersion, NoScript, AInv, Words, HasScript, ArgTable, Varargs
<1>2. CASE TakeScript
  BY <1>2 DEF TakeScript, AInv, Words, HasScript, ArgTable, Varargs, argc
<1>3. CASE NewState \/ NewStateFails
  BY <1>3 DEF NewState, NewStateFails, AInv, Words, HasScript, ArgTable,
     Varargs, argc
<1>4. CASE SetupEntry \/ SetupDone
  BY <1>4 DEF SetupEntry, SetupDone, AInv, Words, HasScript, ArgTable,
     Varargs, argc
<1>5. CASE SetArgTable
  <2>1. /\ Words' /\ stage' = "load" /\ argv' = argv
        /\ script_idx' = script_idx /\ script_idx = 1 /\ argc > 1
    BY <1>5 DEF SetArgTable, AInv, Words, HasScript
  <2>2. arg' = [k \in 0 - script_idx .. argc - 1 - script_idx |->
                  argv[k + script_idx + 1]]
    BY <1>5 DEF SetArgTable
  <2>3. arg' = [k \in -1 .. argc - 2 |-> argv[k + 2]]
    <3>1. argc \in Int
      BY DEF AInv, Words, argc
    <3>2. 0 - script_idx = -1 /\ argc - 1 - script_idx = argc - 2
      BY <2>1, <3>1
    <3>3. \A k \in -1 .. argc - 2 : k + script_idx + 1 = k + 2
      BY <2>1, <3>1
    <3>. QED
      BY <2>2, <3>2, <3>3
  <2>. QED
    BY <2>1, <2>3 DEF AInv, HasScript, ArgTable, Varargs, argc
<1>6. CASE LoadFails \/ Panic
  BY <1>6 DEF LoadFails, Panic, AInv, Words, HasScript, ArgTable, Varargs
<1>7. CASE PushArgs
  <2>1. /\ Words' /\ stage' = "run" /\ argv' = argv /\ stage = "load"
        /\ arg' = arg /\ script_idx' = script_idx
        /\ script_idx = 1 /\ argc > 1
    BY <1>7 DEF PushArgs, AInv, Words, HasScript
  <2>2. /\ argv[script_idx + 1] \in Scripts
        /\ varargs' = [n \in 1 .. argc - script_idx - 1 |->
                         argv[script_idx + 1 + n]]
    BY <1>7 DEF PushArgs, Script, nargs
  <2>3. argv[2] \in Scripts /\ varargs' = [n \in 1 .. argc - 2 |-> argv[n + 2]]
    <3>1. argc \in Int
      BY DEF AInv, Words, argc
    <3>2. script_idx + 1 = 2 /\ argc - script_idx - 1 = argc - 2
      BY <2>1, <3>1
    <3>3. \A n \in 1 .. argc - 2 : script_idx + 1 + n = n + 2
      BY <2>1, <3>1
    <3>. QED
      BY <2>2, <3>2, <3>3
  <2>. QED
    BY <2>1, <2>3 DEF AInv, HasScript, ArgTable, Varargs, argc
<1>8. CASE CallFindLib \/ InFindLib \/ GoOn \/ Outside \/ EditLibPath
  <2>1. Running
    BY <1>8 DEF CallFindLib, InFindLib, GoOn, Outside, EditLibPath
  <2>. QED
    BY <2>1 DEF Running, AInv, Words, HasScript, ArgTable, Varargs, argc
<1>9. CASE ScriptReturns \/ ScriptFails
  BY <1>9 DEF ScriptReturns, ScriptFails, AInv, Words, HasScript, ArgTable,
     Varargs
<1>10. CASE UNCHANGED vars
  BY <1>10 DEF vars, mainvars, AInv, Words, HasScript, ArgTable, Varargs, argc
<1>. QED
  BY <1>1, <1>2, <1>3, <1>4, <1>5, <1>6, <1>7, <1>8, <1>9, <1>10 DEF Next

\* For every command line, arg and the varargs of the script are what was
\* written after its name, whatever it does with find_lib and tmg.lib_path
\* (main.c 609-617, 656-661, argparse.c 33-52).
THEOREM MainArgs == Spec => []ArgsAgree
<1>1. AInv => ArgsAgree
  <2>. SUFFICES ASSUME AInv, stage = "run" PROVE ArgsAgree
    BY DEF ArgsAgree
  <2>1. /\ argc \in Nat /\ argc > 1 /\ argv[2] \in Scripts
        /\ arg = [k \in -1 .. argc - 2 |-> argv[k + 2]]
        /\ varargs = [n \in 1 .. argc - 2 |-> argv[n + 2]]
    BY DEF AInv, Words, HasScript, ArgTable, Varargs, argc
  <2>2. \A n \in 1 .. argc - 2 : argv[n + 2] \in STRING
    BY DEF AInv, Words, argc
  <2>3. varargs \in Seq(STRING) /\ Len(varargs) = argc - 2
    BY <2>1, <2>2
  <2>4. \A n \in 1 .. argc - 2 : arg[n] = varargs[n] /\ arg[n] = argv[n + 2]
    BY <2>1
  <2>5. arg[0] = argv[2] /\ arg[-1] = argv[1] /\ DOMAIN arg = -1 .. argc - 2
    <3>1. 0 \in -1 .. argc - 2 /\ -1 \in -1 .. argc - 2
      BY <2>1
    <3>2. 0 + 2 = 2 /\ -1 + 2 = 1
      OBVIOUS
    <3>. QED
      BY <2>1, <3>1, <3>2
  <2>. QED
    BY <2>1, <2>3, <2>4, <2>5 DEF ArgsAgree
<1>2. Spec => []AInv
  BY InitArgs, StepArgs, PTL DEF Spec
<1>. QED
  BY <1>1, <1>2, PTL

----------------------------------------------------------------------------
(* Types.                                                                  *)

Dirs == Strings \cup {NotString}

\* setup_lib_path, and find_lib.
LibTypes ==
  /\ env \in Strings /\ p \in 1 .. Len(env) + 2
  /\ libdirs \in Seq(Dirs)
  /\ lpath \in Seq(TemplateSet) /\ cpath \in Seq(TemplateSet)
  /\ path \in Seq(TemplateSet) /\ cpackage \in Seq(TemplateSet)
  /\ files \subseteq LibFiles
  /\ seen \in [there : SUBSET LibFiles, gone : SUBSET LibFiles]
  /\ call \in [name : Strings, i : Nat, f : Nat]
  /\ tried \in Seq(Strings)
  /\ result \in [kind : Kinds, name : Strings, path : Strings]

\* A call of find_lib is in its loop.
CallOK ==
  call # NoCall =>
    /\ call.i \in 1 .. Len(libdirs) + 1 /\ call.f \in 1 .. Forms(call.name)
    /\ Relative(call.name)
    /\ result = NoResult

\* main.
StageOK ==
  /\ stage \in Stages /\ script_idx \in {0, 1} /\ status \in {-1, 0, 1}
  /\ status = -1 <=> stage # "ended"
  /\ varargs \in Seq(STRING)
  /\ stage # "run" => Idle

LEMMA LastSlashType ==
  ASSUME NEW name \in Strings
  PROVE  LastSlash(name) \in 0 .. Len(name)
<1>. DEFINE T == {0} \cup {n \in 1 .. Len(name) : name[n] = "/"}
<1>1. Len(name) \in Nat /\ T \subseteq 0 .. Len(name) /\ T # {}
  BY DEF Strings
<1>. HIDE DEF T
<1>2. \E x \in T : \A y \in T : x >= y
  BY <1>1, GreatestElement
<1>3. Max(T) \in T
  BY <1>2 DEF Max
<1>. QED
  BY <1>1, <1>3 DEF LastSlash, T

LEMMA SubBaseType ==
  ASSUME NEW name \in Strings
  PROVE  Sub(name) \in Strings /\ Base(name) \in Strings
<1>1. LastSlash(name) \in 0 .. Len(name) /\ Len(name) \in Nat
  BY LastSlashType DEF Strings
<1>. DEFINE k == LastSlash(name)
<1>. HIDE DEF k
<1>2. SubSeq(name, 1, k) \in Seq(Tokens) /\ SubSeq(name, k + 1, Len(name)) \in Seq(Tokens)
  BY <1>1 DEF Strings, k
<1>. QED
  BY <1>2 DEF Sub, Base, Strings, k

LEMMA FormsType ==
  ASSUME NEW name
  PROVE  /\ Forms(name) \in 1 .. 2 /\ Len(Spellings(name)) = Forms(name)
         /\ \A f \in 1 .. Forms(name) : Spellings(name)[f] = FileName(name, f)
<1>1. CASE Literal(name)
  <2>1. Spellings(name) = <<Base(name)>> /\ Forms(name) = 1
    BY <1>1 DEF Spellings, Literal, Forms
  <2>. QED
    BY <1>1, <2>1 DEF FileName
<1>2. CASE ~Literal(name)
  <2>. DEFINE a == <<"lib">> \o Base(name) \o <<".so">>
              b == Base(name) \o <<".so">>
  <2>1. Spellings(name) = <<a, b>> /\ Forms(name) = 2
    BY <1>2 DEF Spellings, Literal, Forms
  <2>2. FileName(name, 1) = a /\ FileName(name, 2) = b
    BY <1>2 DEF FileName
  <2>. HIDE DEF a, b
  <2>. QED
    BY <2>1, <2>2
<1>. QED
  BY <1>1, <1>2

LEMMA CandidateType ==
  ASSUME NEW dir \in Dirs, NEW name \in Strings, NEW f
  PROVE  Candidate(dir, name, f) \in Strings
<1>1. Sub(name) \in Seq(Tokens) /\ Base(name) \in Seq(Tokens)
  BY SubBaseType DEF Strings
<1>0. /\ "lib" \in Tokens /\ ".so" \in Tokens /\ "/" \in Tokens /\ "(null)" \in Tokens
  BY TokensAssumption
<1>9. /\ <<"lib">> \in Seq(Tokens) /\ <<".so">> \in Seq(Tokens) /\ <<"/">> \in Seq(Tokens)
      /\ <<"(null)">> \in Seq(Tokens)
  BY <1>0
<1>2. DirText(dir) \in Seq(Tokens)
  BY <1>9 DEF DirText, Dirs, Strings
<1>3. FileName(name, f) \in Seq(Tokens)
  <2>1. /\ Base(name) \o <<".so">> \in Seq(Tokens)
        /\ <<"lib">> \o Base(name) \in Seq(Tokens)
    BY <1>1, <1>9
  <2>2. (<<"lib">> \o Base(name)) \o <<".so">> \in Seq(Tokens)
    BY <2>1, <1>9
  <2>. QED
    BY <1>1, <2>1, <2>2 DEF FileName
<1>4. DirText(dir) \o <<"/">> \in Seq(Tokens)
  BY <1>2, <1>9
<1>5. (DirText(dir) \o <<"/">>) \o Sub(name) \in Seq(Tokens)
  BY <1>1, <1>4
<1>6. ((DirText(dir) \o <<"/">>) \o Sub(name)) \o FileName(name, f) \in Seq(Tokens)
  BY <1>3, <1>5
<1>. QED
  BY <1>6 DEF Candidate, Strings

\* The candidate of the loop is the path of the properties.
LEMMA CandidateIsPath ==
  ASSUME NEW name, NEW i, NEW f \in 1 .. Forms(name)
  PROVE  Candidate(libdirs[i], name, f) = PathOf(name, <<i, f>>)
<1>1. Spellings(name)[f] = FileName(name, f)
  BY FormsType
<1>2. <<i, f>>[1] = i /\ <<i, f>>[2] = f
  OBVIOUS
<1>. QED
  BY <1>1, <1>2 DEF Candidate, PathOf

\* The entry at p, and where it ends.
LEMMA EntryFacts ==
  ASSUME env \in Strings, p \in 1 .. Len(env)
  PROVE  /\ EntryEnd \in p .. Len(env) + 1
         /\ \A n \in p .. EntryEnd - 1 : env[n] # ":"
         /\ EntryEnd <= Len(env) => env[EntryEnd] = ":"
         /\ Entry \in Strings /\ Len(Entry) = EntryEnd - p
         /\ \A n \in 1 .. Len(Entry) : Entry[n] = env[p + n - 1]
<1>. DEFINE T == {n \in p .. Len(env) : env[n] = ":"} \cup {Len(env) + 1}
            e == EntryEnd
<1>0. Len(env) \in Nat /\ env \in Seq(Tokens)
  BY DEF Strings
<1>1. T \subseteq Nat /\ T # {} /\ T \subseteq p .. Len(env) + 1
  BY <1>0
<1>. HIDE DEF T
<1>2. \E x \in T : \A y \in T : x <= y
  BY <1>1, SmallestElement
<1>3. e \in T /\ \A y \in T : e <= y
  BY <1>2 DEF Min, EntryEnd, T
<1>. HIDE DEF e
<1>4. e \in p .. Len(env) + 1 /\ (e <= Len(env) => env[e] = ":")
  BY <1>0, <1>1, <1>3 DEF T
<1>5. ASSUME NEW n \in p .. e - 1 PROVE env[n] # ":"
  <2>1. n \in p .. Len(env) /\ ~(e <= n)
    BY <1>0, <1>4, <1>5
  <2>. QED
    BY <1>3, <2>1 DEF T
<1>6. /\ SubSeq(env, p, e - 1) \in Seq(Tokens)
      /\ Len(SubSeq(env, p, e - 1)) = e - p
      /\ \A n \in 1 .. e - p : SubSeq(env, p, e - 1)[n] = env[p + n - 1]
  <2>. DEFINE t == SubSeq(env, p, e - 1)
  <2>1. p \in Int /\ e - 1 \in Int /\ \A i \in p .. e - 1 : env[i] \in Tokens
    BY <1>0, <1>4
  <2>2. /\ t \in Seq(Tokens) /\ Len(t) = IF p <= e - 1 THEN e - 1 - p + 1 ELSE 0
        /\ \A i \in 1 .. e - 1 - p + 1 : t[i] = env[p + i - 1]
    BY <2>1, SubSeqProperties
  <2>. HIDE DEF t
  <2>3. Len(t) = e - p /\ e - 1 - p + 1 = e - p
    BY <1>0, <1>4, <2>2
  <2>. QED
    BY <2>2, <2>3 DEF t
<1>. QED
  BY <1>4, <1>5, <1>6 DEF Entry, Strings, e

\* What trimming leaves of an entry.
LEMMA TrimFacts ==
  ASSUME NEW s \in Strings, s # <<>>
  PROVE  /\ Trim(s) \in Strings /\ Len(Trim(s)) \in 1 .. Len(s)
         /\ \A n \in 1 .. Len(Trim(s)) : Trim(s)[n] = s[n]
         /\ Len(Trim(s)) > 1 => s[Len(Trim(s))] # "/"
         /\ \A n \in Len(Trim(s)) + 1 .. Len(s) : s[n] = "/"
<1>. DEFINE T == {1} \cup {n \in 1 .. Len(s) : s[n] # "/"}
            k == Max(T)
<1>0. Len(s) \in Nat \ {0} /\ s \in Seq(Tokens)
  BY DEF Strings
<1>1. T \subseteq 0 .. Len(s) /\ T # {} /\ T \subseteq 1 .. Len(s)
  BY <1>0
<1>. HIDE DEF T
<1>2. \E x \in T : \A y \in T : x >= y
  <2>1. Len(s) \in Nat
    BY <1>0
  <2>. QED
    BY <1>1, <2>1, GreatestElement
<1>3. k \in T /\ \A y \in T : k >= y
  BY <1>2 DEF Max
<1>. HIDE DEF k
<1>4. k \in 1 .. Len(s) /\ (k > 1 => s[k] # "/")
  BY <1>1, <1>3 DEF T
<1>5. ASSUME NEW n \in k + 1 .. Len(s) PROVE s[n] = "/"
  <2>1. n \in 1 .. Len(s) /\ ~(k >= n)
    BY <1>0, <1>4, <1>5
  <2>. QED
    BY <1>3, <2>1 DEF T
<1>6. Trim(s) = SubSeq(s, 1, k)
  BY DEF Trim, T, k
<1>7. /\ SubSeq(s, 1, k) \in Seq(Tokens) /\ Len(SubSeq(s, 1, k)) = k
      /\ \A n \in 1 .. k : SubSeq(s, 1, k)[n] = s[n]
  BY <1>0, <1>4
<1>. QED
  BY <1>4, <1>5, <1>6, <1>7 DEF Strings

TInv == LibTypes /\ CallOK /\ StageOK

LEMMA NoTypes ==
  /\ NoCall \in [name : Strings, i : Nat, f : Nat]
  /\ NoResult \in [kind : Kinds, name : Strings, path : Strings]
  /\ <<>> \in Strings
<1>1. <<>> \in Strings
  BY DEF Strings
<1>. QED
  BY <1>1 DEF NoCall, NoResult, Kinds

\* The call goes on to its next candidate.
LEMMA NextOK ==
  ASSUME LibTypes, CallOK, InLoop, NextCandidate, libdirs' = libdirs
  PROVE  /\ call' \in [name : Strings, i : Nat, f : Nat] /\ call' # NoCall
         /\ call'.name = call.name
         /\ call'.i \in 1 .. Len(libdirs) + 1 /\ call'.f \in 1 .. Forms(call.name)
         /\ \/ call'.i = call.i /\ call'.f = call.f + 1 /\ call.f < Forms(call.name)
            \/ call'.i = call.i + 1 /\ call'.f = 1 /\ call.f = Forms(call.name)
<1>1. /\ call.i \in 1 .. Len(libdirs) /\ call.f \in 1 .. Forms(call.name)
      /\ Len(libdirs) \in Nat /\ call \in [name : Strings, i : Nat, f : Nat]
  BY DEF LibTypes, CallOK, InLoop
<1>2. Forms(call.name) \in 1 .. 2
  BY FormsType
<1>3. CASE call.f < Forms(call.name)
  <2>1. call' = [call EXCEPT !.f = call.f + 1]
    BY <1>3 DEF NextCandidate
  <2>2. /\ call' \in [name : Strings, i : Nat, f : Nat]
        /\ call'.name = call.name /\ call'.i = call.i /\ call'.f = call.f + 1
    BY <1>1, <2>1
  <2>. QED
    BY <1>1, <1>2, <1>3, <2>2 DEF NoCall
<1>4. CASE ~(call.f < Forms(call.name))
  <2>1. call' = [call EXCEPT !.i = call.i + 1, !.f = 1]
    BY <1>4 DEF NextCandidate
  <2>2. /\ call' \in [name : Strings, i : Nat, f : Nat]
        /\ call'.name = call.name /\ call'.i = call.i + 1 /\ call'.f = 1
    <3>. DEFINE c == [call EXCEPT !.i = call.i + 1]
    <3>1. /\ c \in [name : Strings, i : Nat, f : Nat]
          /\ c.name = call.name /\ c.i = call.i + 1
      BY <1>1
    <3>2. call' = [c EXCEPT !.f = 1]
      BY <2>1
    <3>. HIDE DEF c
    <3>. QED
      BY <3>1, <3>2
  <2>. QED
    BY <1>1, <1>2, <1>4, <2>2 DEF NoCall
<1>. QED
  BY <1>3, <1>4

LEMMA CandType ==
  ASSUME LibTypes, CallOK, InLoop
  PROVE  Cand \in Strings
<1>1. libdirs[call.i] \in Dirs /\ call.name \in Strings
  <2>1. call.i \in 1 .. Len(libdirs) /\ call.name \in Strings
    BY DEF LibTypes, CallOK, InLoop
  <2>2. libdirs \in Seq(Dirs)
    BY DEF LibTypes
  <2>. HIDE DEF Dirs, Strings
  <2>. QED
    BY <2>1, <2>2
<1>. QED
  BY <1>1, CandidateType DEF Cand

LEMMA InitTypes == Init => TInv
<1>. SUFFICES ASSUME Init PROVE TInv
  OBVIOUS
<1>1. env \in Strings
  BY InputsAssumption DEF Init
<1>2. /\ p = 1 /\ libdirs = <<>> /\ lpath = <<>> /\ cpath = <<>>
      /\ path = OldPath /\ cpackage = OldCPath /\ files = {}
      /\ call = NoCall /\ tried = <<>> /\ result = NoResult
      /\ seen = [there |-> {}, gone |-> {}]
      /\ stage = "args" /\ script_idx = 0 /\ status = -1 /\ varargs = <<>>
  BY DEF Init, LibInit
<1>3. p \in 1 .. Len(env) + 2
  BY <1>1, <1>2 DEF Strings
<1>4. LibTypes
  BY <1>1, <1>2, <1>3, NoTypes, OldAssumption DEF LibTypes
<1>5. CallOK
  BY <1>2 DEF CallOK
<1>6. StageOK
  BY <1>2 DEF StageOK, Stages, Idle
<1>. QED
  BY <1>4, <1>5, <1>6 DEF TInv

\* The loop of setup_lib_path.
LEMMA ParseTypes ==
  ASSUME LibTypes, call = NoCall, ParseEntry
  PROVE  LibTypes' /\ CallOK'
<1>1. /\ env' = env /\ path' = path /\ cpackage' = cpackage /\ files' = files /\ call' = call
      /\ tried' = tried /\ result' = result /\ seen' = seen /\ p' = EntryEnd + 1
      /\ p \in 1 .. Len(env) /\ env \in Strings
  BY DEF ParseEntry, findvars, LibTypes
<1>2. Len(env) \in Nat
  BY <1>1 DEF Strings
<1>3. EntryEnd \in p .. Len(env) + 1 /\ Entry \in Strings
  BY <1>1, EntryFacts
<1>4. p' \in 1 .. Len(env) + 2
  BY <1>1, <1>2, <1>3
<1>5. libdirs' \in Seq(Dirs) /\ lpath' \in Seq(TemplateSet) /\ cpath' \in Seq(TemplateSet)
  <2>1. CASE Entry = <<>>
    BY <2>1 DEF ParseEntry, LibTypes
  <2>2. CASE Entry # <<>>
    <3>. DEFINE dir == Trim(Entry)
    <3>1. dir \in Strings
      BY <1>3, <2>2, TrimFacts
    <3>2. /\ libdirs' = Append(libdirs, dir)
          /\ lpath' = lpath \o <<Template(dir, "?.lua"), Template(dir, "?/init.lua")>>
          /\ cpath' = Append(cpath, Template(dir, "?.so"))
      BY <2>2 DEF ParseEntry
    <3>. HIDE DEF dir
    <3>3. /\ Template(dir, "?.lua") \in TemplateSet /\ Template(dir, "?/init.lua") \in TemplateSet
          /\ Template(dir, "?.so") \in TemplateSet /\ dir \in Dirs
      BY <3>1 DEF Template, TemplateSet, Dirs
    <3>4. libdirs \in Seq(Dirs) /\ lpath \in Seq(TemplateSet) /\ cpath \in Seq(TemplateSet)
      BY DEF LibTypes
    <3>. HIDE DEF Dirs, TemplateSet
    <3>. QED
      BY <3>2, <3>3, <3>4
  <2>. QED
    BY <2>1, <2>2
<1>6. LibTypes'
  BY <1>1, <1>4, <1>5 DEF LibTypes
<1>. QED
  BY <1>1, <1>6 DEF CallOK

LEMMA StoreTypes ==
  ASSUME LibTypes, call = NoCall, StorePaths
  PROVE  LibTypes' /\ CallOK'
<1>1. /\ env' = env /\ p' = p /\ libdirs' = libdirs /\ lpath' = lpath /\ cpath' = cpath
      /\ files' = files /\ call' = call /\ tried' = tried /\ result' = result /\ seen' = seen
      /\ path' = lpath \o path /\ cpackage' = cpath \o cpackage
  BY DEF StorePaths, findvars
<1>2. path' \in Seq(TemplateSet) /\ cpackage' \in Seq(TemplateSet)
  <2>1. /\ lpath \in Seq(TemplateSet) /\ cpath \in Seq(TemplateSet)
        /\ path \in Seq(TemplateSet) /\ cpackage \in Seq(TemplateSet)
    BY DEF LibTypes
  <2>. HIDE DEF TemplateSet
  <2>. QED
    BY <1>1, <2>1
<1>3. LibTypes'
  BY <1>1, <1>2 DEF LibTypes
<1>. QED
  BY <1>1, <1>3 DEF CallOK

\* A call of find_lib begins, and may end at once.
LEMMA FindTypes ==
  ASSUME LibTypes, NEW name \in Names, FindLib(name)
  PROVE  LibTypes' /\ CallOK'
<1>1. /\ UNCHANGED <<env, p, lpath, cpath, path, cpackage>> /\ libdirs' = libdirs
      /\ files' \subseteq LibFiles
      /\ seen' = [there |-> files', gone |-> LibFiles \ files'] /\ tried' = <<>>
  BY DEF FindLib, setupvars
<1>2. name \in Strings
  BY StringsAssumption
<1>3. /\ env' \in Strings /\ p' \in 1 .. Len(env') + 2 /\ libdirs' \in Seq(Dirs)
      /\ lpath' \in Seq(TemplateSet) /\ cpath' \in Seq(TemplateSet)
      /\ path' \in Seq(TemplateSet) /\ cpackage' \in Seq(TemplateSet)
      /\ files' \subseteq LibFiles
      /\ seen' \in [there : SUBSET LibFiles, gone : SUBSET LibFiles]
      /\ tried' \in Seq(Strings)
  BY <1>1 DEF LibTypes
<1>4. CASE Raise(name) \/ NilError(name) \/ Return(name, name)
  <2>1. call' = NoCall /\ result' \in [kind : Kinds, name : Strings, path : Strings]
    BY <1>2, <1>4, NoTypes DEF Raise, NilError, Return, Answer, Kinds
  <2>2. LibTypes'
    BY <1>3, <2>1, NoTypes DEF LibTypes
  <2>. QED
    BY <2>1, <2>2 DEF CallOK
<1>5. CASE /\ name = <<>> \/ name[1] # "/"
           /\ call' = [name |-> name, i |-> 1, f |-> 1] /\ result' = NoResult
  <2>1. call' \in [name : Strings, i : Nat, f : Nat]
    BY <1>2, <1>5
  <2>2. LibTypes'
    BY <1>3, <1>5, <2>1, NoTypes DEF LibTypes
  <2>3. 1 \in 1 .. Len(libdirs') + 1
    BY <1>1 DEF LibTypes
  <2>4. 1 \in 1 .. Forms(name)
    BY FormsType
  <2>5. call'.name = name /\ call'.i = 1 /\ call'.f = 1 /\ Relative(name)
    BY <1>5 DEF Relative
  <2>. QED
    BY <1>5, <2>2, <2>3, <2>4, <2>5 DEF CallOK
<1>. QED
  BY <1>4, <1>5 DEF FindLib

LEMMA LoopTypes ==
  ASSUME LibTypes, CallOK, TooLong \/ Match \/ NoMatch \/ NotFound
  PROVE  LibTypes' /\ CallOK'
<1>1. /\ UNCHANGED <<env, p, lpath, cpath, path, cpackage, libdirs, files, seen>>
      /\ call # NoCall
  BY DEF TooLong, Match, NoMatch, NotFound, setupvars, InLoop
<1>2. CASE TooLong
  <2>1. InLoop /\ NextCandidate /\ libdirs' = libdirs /\ UNCHANGED <<tried, result>>
    BY <1>2 DEF TooLong
  <2>2. /\ call' \in [name : Strings, i : Nat, f : Nat] /\ call'.name = call.name
        /\ call'.i \in 1 .. Len(libdirs) + 1 /\ call'.f \in 1 .. Forms(call.name)
    BY <2>1, NextOK
  <2>3. LibTypes'
    BY <1>1, <2>1, <2>2 DEF LibTypes
  <2>. QED
    BY <1>1, <2>1, <2>2, <2>3 DEF CallOK
<1>3. CASE NoMatch
  <2>1. InLoop /\ NextCandidate /\ libdirs' = libdirs /\ tried' = Append(tried, Cand) /\ result' = result
    BY <1>3 DEF NoMatch
  <2>2. /\ call' \in [name : Strings, i : Nat, f : Nat] /\ call'.name = call.name
        /\ call'.i \in 1 .. Len(libdirs) + 1 /\ call'.f \in 1 .. Forms(call.name)
    BY <2>1, NextOK
  <2>3. tried' \in Seq(Strings)
    <3>1. Cand \in Strings /\ tried \in Seq(Strings)
      BY <2>1, CandType DEF LibTypes
    <3>. HIDE DEF Strings
    <3>. QED
      BY <2>1, <3>1
  <2>4. LibTypes'
    BY <1>1, <2>1, <2>2, <2>3 DEF LibTypes
  <2>. QED
    BY <1>1, <2>1, <2>2, <2>4 DEF CallOK
<1>4. CASE Match \/ NotFound
  <2>1. call' = NoCall /\ tried' = tried
    BY <1>4 DEF Match, NotFound, Return, NilError, Answer
  <2>2. result' \in [kind : Kinds, name : Strings, path : Strings]
    <3>1. call.name \in Strings
      BY DEF LibTypes
    <3>2. CASE Match
      <4>1. Cand \in Strings
        BY <3>2, CandType DEF Match
      <4>. QED
        BY <3>1, <3>2, <4>1 DEF Match, Return, Answer, Kinds
    <3>3. CASE NotFound
      BY <3>1, <3>3, NoTypes DEF NotFound, NilError, Answer, Kinds
    <3>. QED
      BY <1>4, <3>2, <3>3
  <2>3. LibTypes'
    BY <1>1, <2>1, <2>2, NoTypes DEF LibTypes
  <2>. QED
    BY <2>1, <2>3 DEF CallOK
<1>. QED
  BY <1>2, <1>3, <1>4

\* The surroundings of a call: other processes, and the script.
LEMMA OutsideTypes ==
  ASSUME LibTypes, CallOK, FileChanges \/ TakeResult \/ ChangeLibPath
  PROVE  LibTypes' /\ CallOK'
<1>1. CASE FileChanges
  <2>1. /\ UNCHANGED <<env, p, lpath, cpath, path, cpackage, libdirs, call, tried, result>>
        /\ files' \subseteq LibFiles
        /\ seen' \in [there : SUBSET LibFiles, gone : SUBSET LibFiles]
    BY <1>1 DEF FileChanges, setupvars, LibTypes
  <2>2. LibTypes'
    BY <2>1 DEF LibTypes
  <2>. QED
    BY <2>1, <2>2 DEF CallOK
<1>2. CASE TakeResult
  <2>1. /\ UNCHANGED <<env, p, lpath, cpath, path, cpackage, libdirs, call>>
        /\ result' = NoResult /\ tried' = <<>> /\ files' = {}
        /\ seen' = [there |-> {}, gone |-> {}]
    BY <1>2 DEF TakeResult, setupvars
  <2>2. LibTypes'
    BY <2>1, NoTypes DEF LibTypes
  <2>. QED
    BY <2>1, <2>2 DEF CallOK
<1>3. CASE ChangeLibPath
  <2>1. /\ UNCHANGED <<env, p, lpath, cpath, path, cpackage, files, call, tried, result, seen>>
        /\ call = NoCall
    BY <1>3 DEF ChangeLibPath, setupvars, findvars, Idle
  <2>2. libdirs' \in Seq(Dirs)
    <3>0. libdirs \in Seq(Dirs) /\ Entries \subseteq Dirs
      BY StringsAssumption DEF LibTypes, Dirs
    <3>. HIDE DEF Dirs
    <3>1. ASSUME NEW n \in 1 .. Len(libdirs) + 1, NEW d \in Entries,
                 libdirs' = InsertAt(libdirs, n, d)
          PROVE  libdirs' \in Seq(Dirs)
      <4>1. SubSeq(libdirs, 1, n - 1) \in Seq(Dirs) /\ SubSeq(libdirs, n, Len(libdirs)) \in Seq(Dirs)
        BY <3>0, <3>1
      <4>2. <<d>> \in Seq(Dirs)
        BY <3>0, <3>1
      <4>3. SubSeq(libdirs, 1, n - 1) \o <<d>> \in Seq(Dirs)
        BY <4>1, <4>2
      <4>. QED
        BY <3>1, <4>1, <4>3 DEF InsertAt
    <3>2. ASSUME NEW n \in 1 .. Len(libdirs), libdirs' = RemoveAt(libdirs, n)
          PROVE  libdirs' \in Seq(Dirs)
      <4>1. SubSeq(libdirs, 1, n - 1) \in Seq(Dirs) /\ SubSeq(libdirs, n + 1, Len(libdirs)) \in Seq(Dirs)
        BY <3>0, <3>2
      <4>. QED
        BY <3>2, <4>1 DEF RemoveAt
    <3>. QED
      BY <1>3, <3>1, <3>2 DEF ChangeLibPath
  <2>3. LibTypes'
    BY <2>1, <2>2 DEF LibTypes
  <2>. QED
    BY <2>1, <2>3 DEF CallOK
<1>. QED
  BY <1>1, <1>2, <1>3

LEMMA SameTypes ==
  ASSUME LibTypes, CallOK, UNCHANGED libvars
  PROVE  LibTypes' /\ CallOK'
BY DEF libvars, setupvars, findvars, LibTypes, CallOK

LEMMA StepTypes ==
  ASSUME TInv, AInv, [Next]_vars
  PROVE  TInv'
<1>. USE DEF At, Goto, Exit
<1>0. LibTypes /\ CallOK /\ StageOK
  BY DEF TInv
<1>1. CASE HelpOrVersion \/ NoScript
  <2>1. UNCHANGED libvars /\ StageOK'
    BY <1>0, <1>1 DEF HelpOrVersion, NoScript, StageOK, Stages, Idle, libvars, findvars
  <2>. QED
    BY <1>0, <2>1, SameTypes DEF TInv
<1>2. CASE TakeScript
  <2>1. UNCHANGED libvars /\ StageOK'
    BY <1>0, <1>2 DEF TakeScript, StageOK, Stages, Idle, libvars, findvars
  <2>. QED
    BY <1>0, <2>1, SameTypes DEF TInv
<1>3. CASE NewState \/ NewStateFails
  <2>1. UNCHANGED libvars /\ StageOK'
    BY <1>0, <1>3 DEF NewState, NewStateFails, StageOK, Stages, Idle, libvars, findvars
  <2>. QED
    BY <1>0, <2>1, SameTypes DEF TInv
<1>4. CASE SetupEntry
  <2>1. ParseEntry /\ StageOK' /\ call = NoCall
    BY <1>0, <1>4 DEF SetupEntry, ParseEntry, StageOK, Stages, Idle, findvars
  <2>. QED
    BY <1>0, <2>1, ParseTypes DEF TInv
<1>5. CASE SetupDone
  <2>1. StorePaths /\ StageOK' /\ call = NoCall
    BY <1>0, <1>5 DEF SetupDone, StorePaths, StageOK, Stages, Idle, findvars
  <2>. QED
    BY <1>0, <2>1, StoreTypes DEF TInv
<1>6. CASE SetArgTable
  <2>1. UNCHANGED libvars /\ StageOK'
    BY <1>0, <1>6 DEF SetArgTable, StageOK, Stages, Idle, libvars, findvars
  <2>. QED
    BY <1>0, <2>1, SameTypes DEF TInv
<1>7. CASE LoadFails \/ Panic
  <2>1. UNCHANGED libvars /\ StageOK'
    BY <1>0, <1>7 DEF LoadFails, Panic, StageOK, Stages, Idle, libvars, findvars
  <2>. QED
    BY <1>0, <2>1, SameTypes DEF TInv
<1>8. CASE PushArgs
  <2>1. UNCHANGED libvars
    BY <1>8 DEF PushArgs
  <2>2. varargs' \in Seq(STRING)
    <3>1. /\ varargs' = [n \in 1 .. nargs |-> argv[script_idx + 1 + n]]
          /\ stage = "load" /\ argv \in Seq(STRING)
      BY <1>8 DEF PushArgs, AInv, Words
    <3>2. script_idx = 1 /\ argc > 1 /\ argc \in Nat
      BY <3>1 DEF AInv, HasScript, argc
    <3>3. nargs \in Nat /\ \A n \in 1 .. nargs : script_idx + 1 + n \in 1 .. argc
      BY <3>2 DEF nargs
    <3>4. \A n \in 1 .. nargs : argv[script_idx + 1 + n] \in STRING
      BY <3>1, <3>3 DEF argc
    <3>. QED
      BY <3>1, <3>3, <3>4
  <2>3. StageOK'
    BY <1>0, <1>8, <2>2 DEF PushArgs, StageOK, Stages, Idle
  <2>. QED
    BY <1>0, <2>1, <2>3, SameTypes DEF TInv
<1>9. ASSUME Running PROVE StageOK'
  BY <1>0, <1>9 DEF Running, StageOK, Stages
<1>10. CASE CallFindLib
  <2>1. PICK name \in Names : FindLib(name)
    BY <1>10 DEF CallFindLib
  <2>. QED
    BY <1>0, <1>9, <1>10, <2>1, FindTypes DEF CallFindLib, TInv
<1>11. CASE InFindLib
  BY <1>0, <1>9, <1>11, LoopTypes DEF InFindLib, TInv
<1>12. CASE GoOn \/ Outside \/ EditLibPath
  BY <1>0, <1>9, <1>12, OutsideTypes DEF GoOn, Outside, EditLibPath, TInv
<1>13. CASE ScriptReturns \/ ScriptFails
  <2>1. UNCHANGED libvars /\ StageOK'
    BY <1>0, <1>13 DEF ScriptReturns, ScriptFails, StageOK, Stages, Idle, libvars, findvars
  <2>. QED
    BY <1>0, <2>1, SameTypes DEF TInv
<1>14. CASE UNCHANGED vars
  <2>1. UNCHANGED libvars /\ StageOK'
    BY <1>0, <1>14 DEF vars, mainvars, StageOK, Idle, libvars, findvars
  <2>. QED
    BY <1>0, <2>1, SameTypes DEF TInv
<1>. QED
  BY <1>1, <1>2, <1>3, <1>4, <1>5, <1>6, <1>7, <1>8, <1>10, <1>11, <1>12, <1>13, <1>14 DEF Next

LEMMA TypesAlways == Spec => [](TInv /\ AInv)
<1>1. Init => TInv /\ AInv
  BY InitTypes, InitArgs
<1>2. (TInv /\ AInv) /\ [Next]_vars => (TInv /\ AInv)'
  BY StepTypes, StepArgs
<1>. QED
  BY <1>1, <1>2, PTL DEF Spec

\* Types, and: the position in the environment variable, the directory and
\* the spelling of find_lib stay in range, and the status is set at the end
\* and only there (main.c 393-437, 456-513, 564-639).
THEOREM MainType == Spec => []TypeOK
<1>1. TInv /\ AInv => TypeOK
  <2>. SUFFICES ASSUME TInv, AInv PROVE TypeOK
    OBVIOUS
  <2>1. \A n \in 1 .. Len(libdirs) : libdirs[n] = NotString \/ libdirs[n] \in Strings
    <3>1. libdirs \in Seq(Dirs)
      BY DEF TInv, LibTypes
    <3>2. \A n \in 1 .. Len(libdirs) : libdirs[n] \in Dirs
      <4>. HIDE DEF Dirs
      <4>. QED
        BY <3>1
    <3>. QED
      BY <3>2 DEF Dirs
  <2>2. call # NoCall => call.i \in 1 .. Len(libdirs) + 1 /\ call.f \in 1 .. 2
    BY FormsType DEF TInv, CallOK
  <2>. QED
    BY <2>1, <2>2 DEF TInv, LibTypes, StageOK, AInv, Words, TypeOK, LibTypeOK
<1>. QED
  BY <1>1, TypesAlways, PTL

----------------------------------------------------------------------------
(* What find_lib finds.                                                    *)

\* A file that was never gone during the call is there.
FilesSeen ==
  call # NoCall =>
    \A c \in LibFiles : (c \in files => c \in seen.there) /\ (c \notin files => c \in seen.gone)

\* The candidates before t that fit were missing and have been noted.
Missing(name, t) ==
  \A u \in Tries(name) :
    Earlier(u, t) /\ Fits(PathOf(name, u)) =>
      Absent(PathOf(name, u)) /\ \E n \in 1 .. Len(tried) : tried[n] = PathOf(name, u)

Missed == call # NoCall => Missing(call.name, <<call.i, call.f>>)

FInv == FilesSeen /\ Missed /\ FirstMatch /\ NothingOverlooked

\* The tries before the next candidate are those before this one, and it.
LEMMA EarlierNext ==
  ASSUME LibTypes, CallOK, InLoop, NextCandidate, libdirs' = libdirs,
         NEW u \in Tries(call.name), Earlier(u, <<call'.i, call'.f>>)
  PROVE  Earlier(u, <<call.i, call.f>>) \/ u = <<call.i, call.f>>
<1>1. /\ call.i \in Nat /\ call.f \in 1 .. Forms(call.name)
      /\ \/ call'.i = call.i /\ call'.f = call.f + 1
         \/ call'.i = call.i + 1 /\ call'.f = 1 /\ call.f = Forms(call.name)
  BY NextOK DEF LibTypes, CallOK, InLoop
<1>2. /\ Forms(call.name) \in 1 .. 2 /\ Len(Spellings(call.name)) = Forms(call.name)
      /\ Len(libdirs) \in Nat
  BY FormsType DEF LibTypes
<1>3. /\ u = <<u[1], u[2]>> /\ u[1] \in 1 .. Len(libdirs) /\ u[2] \in 1 .. Forms(call.name)
  BY <1>2 DEF Tries
<1>. QED
  BY <1>1, <1>2, <1>3 DEF Earlier

\* No call, and no result.
LEMMA FindIdle ==
  ASSUME call' = NoCall, result' = NoResult
  PROVE  FInv'
BY DEF FInv, FilesSeen, Missed, FirstMatch, NothingOverlooked, NoResult

LEMMA FindSame ==
  ASSUME FInv, UNCHANGED <<libdirs, files, call, tried, result, seen>>
  PROVE  FInv'
<1>1. FilesSeen'
  BY DEF FInv, FilesSeen
<1>2. Missed'
  BY DEF FInv, Missed, Missing, Tries, PathOf, Absent
<1>3. FirstMatch'
  BY DEF FInv, FirstMatch, Tries, PathOf, Absent
<1>4. NothingOverlooked'
  BY DEF FInv, NothingOverlooked, Tries, PathOf, Absent
<1>. QED
  BY <1>1, <1>2, <1>3, <1>4 DEF FInv

\* A file comes or goes.
LEMMA FindChanges ==
  ASSUME LibTypes, CallOK, FInv, FileChanges
  PROVE  FInv'
<1>1. /\ call # NoCall /\ UNCHANGED <<libdirs, call, tried, result>> /\ result = NoResult
  BY DEF FileChanges, CallOK
<1>2. \A c \in LibFiles :
        /\ c \in seen.there => c \in seen'.there
        /\ c \in seen.gone => c \in seen'.gone
        /\ c \in files' => c \in files \/ c \in seen'.there
        /\ c \notin files' => c \notin files \/ c \in seen'.gone
  BY DEF FileChanges, LibTypes
<1>3. FilesSeen'
  BY <1>1, <1>2 DEF FInv, FilesSeen
<1>4. Missed'
  <2>1. Missing(call.name, <<call.i, call.f>>)
    BY <1>1 DEF FInv, Missed
  <2>2. ASSUME NEW u \in Tries(call.name), Earlier(u, <<call.i, call.f>>),
               Fits(PathOf(call.name, u))
        PROVE  /\ Absent(PathOf(call.name, u))'
               /\ \E n \in 1 .. Len(tried) : tried[n] = PathOf(call.name, u)
    <3>1. /\ Absent(PathOf(call.name, u))
          /\ \E n \in 1 .. Len(tried) : tried[n] = PathOf(call.name, u)
      BY <2>1, <2>2 DEF Missing
    <3>2. PathOf(call.name, u)' = PathOf(call.name, u)
      BY <1>1 DEF PathOf
    <3>. QED
      BY <1>2, <3>1, <3>2 DEF Absent
  <2>. QED
    BY <1>1, <2>2 DEF Missed, Missing, Tries, PathOf
<1>5. FirstMatch' /\ NothingOverlooked'
  BY <1>1 DEF FirstMatch, NothingOverlooked, NoResult
<1>. QED
  BY <1>3, <1>4, <1>5 DEF FInv

\* A call begins, or ends at once.
LEMMA FindBegins ==
  ASSUME LibTypes, NEW name \in Names, FindLib(name)
  PROVE  FInv'
<1>1. /\ files' \subseteq LibFiles /\ libdirs' = libdirs /\ tried' = <<>>
      /\ seen' = [there |-> files', gone |-> LibFiles \ files']
  BY DEF FindLib
<1>2. CASE Raise(name)
  BY <1>2 DEF Raise, Answer, FInv, FilesSeen, Missed, FirstMatch, NothingOverlooked
<1>3. CASE /\ name # <<>> /\ name[1] = "/"
           /\ IF name \in files' THEN Return(name, name) ELSE NilError(name)
  <2>1. call' = NoCall /\ result'.name = name /\ ~Relative(name)
    BY <1>3 DEF Return, NilError, Answer, Relative
  <2>2. result'.kind = "path" => name \in files' /\ result'.path = name
    BY <1>3 DEF Return, NilError, Answer
  <2>3. FirstMatch'
    BY <1>1, <2>1, <2>2 DEF FirstMatch, Relative
  <2>4. NothingOverlooked'
    BY <2>1 DEF NothingOverlooked, Relative
  <2>. QED
    BY <2>1, <2>3, <2>4 DEF FInv, FilesSeen, Missed
<1>4. CASE call' = [name |-> name, i |-> 1, f |-> 1] /\ result' = NoResult
  <2>1. FilesSeen'
    BY <1>1 DEF FilesSeen
  <2>2. ASSUME NEW u \in Tries(name) PROVE ~Earlier(u, <<1, 1>>)
    <3>1. /\ Len(libdirs) \in Nat /\ Len(Spellings(name)) \in Nat
      BY FormsType DEF LibTypes
    <3>. QED
      BY <3>1 DEF Tries, Earlier
  <2>3. Tries(name)' = Tries(name)
    BY <1>1 DEF Tries
  <2>4. Missed'
    <3>1. call'.name = name /\ <<call'.i, call'.f>> = <<1, 1>>
      BY <1>4
    <3>2. Missing(name, <<1, 1>>)'
      BY <2>2, <2>3 DEF Missing, Earlier
    <3>. QED
      BY <3>1, <3>2 DEF Missed
  <2>5. FirstMatch' /\ NothingOverlooked'
    BY <1>4 DEF FirstMatch, NothingOverlooked, NoResult
  <2>. QED
    BY <2>1, <2>4, <2>5 DEF FInv
<1>. QED
  BY <1>2, <1>3, <1>4 DEF FindLib

\* The next candidate: this one was missing, or does not fit.
LEMMA MissedNext ==
  ASSUME LibTypes, CallOK, Missed, InLoop, NextCandidate, UNCHANGED <<libdirs, seen>>,
         tried' = tried \/ tried' = Append(tried, Cand),
         Fits(Cand) => Absent(Cand) /\ tried' = Append(tried, Cand)
  PROVE  Missed'
<1>1. call.name = call'.name /\ call.f \in 1 .. Forms(call.name)
  BY NextOK DEF CallOK, InLoop
<1>2. Cand = PathOf(call.name, <<call.i, call.f>>)
  BY <1>1, CandidateIsPath DEF Cand
<1>3. Missing(call.name, <<call.i, call.f>>)
  BY DEF Missed, InLoop
<1>4. /\ \A n \in 1 .. Len(tried) : n \in 1 .. Len(tried') /\ tried'[n] = tried[n]
      /\ tried' = Append(tried, Cand) => \E n \in 1 .. Len(tried') : tried'[n] = Cand
  <2>1. tried \in Seq(Strings) /\ Cand \in Strings
    BY CandType DEF LibTypes
  <2>. HIDE DEF Strings, Cand
  <2>2. /\ Len(tried) \in Nat /\ Len(Append(tried, Cand)) = Len(tried) + 1
        /\ Append(tried, Cand)[Len(tried) + 1] = Cand
        /\ \A n \in 1 .. Len(tried) : Append(tried, Cand)[n] = tried[n]
    BY <2>1
  <2>3. Len(tried) + 1 \in 1 .. Len(Append(tried, Cand))
    BY <2>2
  <2>. QED
    BY <2>2, <2>3
<1>5. ASSUME NEW u \in Tries(call.name), Earlier(u, <<call'.i, call'.f>>),
             Fits(PathOf(call.name, u))
      PROVE  /\ Absent(PathOf(call.name, u))
             /\ \E n \in 1 .. Len(tried') : tried'[n] = PathOf(call.name, u)
  <2>1. CASE Earlier(u, <<call.i, call.f>>)
    BY <1>3, <1>4, <1>5, <2>1 DEF Missing
  <2>2. CASE u = <<call.i, call.f>>
    BY <1>2, <1>4, <1>5, <2>2
  <2>. QED
    BY <1>5, <2>1, <2>2, EarlierNext
<1>6. /\ Tries(call.name)' = Tries(call.name)
      /\ \A u : PathOf(call.name, u)' = PathOf(call.name, u)
      /\ \A c : Absent(c)' <=> Absent(c)
  BY <1>1 DEF Tries, PathOf, Absent
<1>7. Missing(call.name, <<call.i, call.f>>)'
  BY <1>1, <1>5, <1>6 DEF Missing, Tries, PathOf, Absent
<1>. QED
  BY <1>7 DEF Missed

\* The loop of find_lib.
LEMMA FindLoop ==
  ASSUME LibTypes, CallOK, FInv, TooLong \/ Match \/ NoMatch \/ NotFound
  PROVE  FInv'
<1>1. call # NoCall /\ result = NoResult /\ UNCHANGED <<libdirs, files, seen>>
  BY DEF TooLong, Match, NoMatch, NotFound, InLoop, CallOK
<1>2. CASE TooLong \/ NoMatch
  <2>1. InLoop /\ NextCandidate /\ result' = NoResult
    BY <1>1, <1>2 DEF TooLong, NoMatch
  <2>2. tried' = tried \/ tried' = Append(tried, Cand)
    BY <1>2 DEF TooLong, NoMatch
  <2>3. Fits(Cand) => Absent(Cand) /\ tried' = Append(tried, Cand)
    <3>1. Fits(Cand) => NoMatch
      BY <1>2 DEF TooLong
    <3>2. NoMatch => Absent(Cand) /\ tried' = Append(tried, Cand)
      BY <1>1 DEF NoMatch, FInv, FilesSeen, Absent
    <3>. QED
      BY <3>1, <3>2
  <2>4. Missed'
    BY <1>1, <2>1, <2>2, <2>3, MissedNext DEF FInv
  <2>5. FilesSeen'
    BY <1>1 DEF FInv, FilesSeen
  <2>6. FirstMatch' /\ NothingOverlooked'
    BY <2>1 DEF FirstMatch, NothingOverlooked, NoResult
  <2>. QED
    BY <2>4, <2>5, <2>6 DEF FInv
<1>3. CASE Match
  <2>1. /\ InLoop /\ Fits(Cand) /\ Cand \in files /\ call' = NoCall
        /\ result' = [kind |-> "path", name |-> call.name, path |-> Cand]
    BY <1>3 DEF Match, Return, Answer
  <2>2. /\ call.i \in 1 .. Len(libdirs) /\ call.f \in 1 .. Forms(call.name)
        /\ Relative(call.name)
    BY <2>1 DEF CallOK, InLoop
  <2>. DEFINE t == <<call.i, call.f>>
  <2>3. Cand = PathOf(call.name, t)
    BY <2>2, CandidateIsPath DEF Cand
  <2>4. t \in Tries(call.name)
    BY <2>2, FormsType DEF Tries
  <2>5. Cand \in seen.there
    BY <1>1, <2>1 DEF FInv, FilesSeen, LibTypes
  <2>6. \A u \in Tries(call.name) :
          Earlier(u, t) /\ Fits(PathOf(call.name, u)) => Absent(PathOf(call.name, u))
    BY <1>1 DEF FInv, Missed, Missing
  <2>. HIDE DEF t
  <2>7. /\ result'.kind = "path" /\ result'.name = call.name /\ result'.path = Cand
    BY <2>1
  <2>8. FirstMatch'
    BY <1>1, <2>2, <2>3, <2>4, <2>5, <2>6, <2>7 DEF FirstMatch, Tries, PathOf, Absent, Relative
  <2>9. NothingOverlooked'
    BY <2>7 DEF NothingOverlooked
  <2>. QED
    BY <2>1, <2>8, <2>9 DEF FInv, FilesSeen, Missed
<1>4. CASE NotFound
  <2>1. /\ call.i > Len(libdirs) /\ call' = NoCall /\ tried' = tried
        /\ result'.kind = "nil" /\ result'.name = call.name
    BY <1>4 DEF NotFound, NilError, Answer
  <2>2. ASSUME NEW u \in Tries(call.name), Fits(PathOf(call.name, u))
        PROVE  /\ Absent(PathOf(call.name, u))
               /\ \E n \in 1 .. Len(tried) : tried[n] = PathOf(call.name, u)
    <3>1. u[1] \in 1 .. Len(libdirs) /\ Len(libdirs) \in Nat /\ call.i \in Nat
      BY DEF Tries, LibTypes
    <3>2. Earlier(u, <<call.i, call.f>>)
      BY <2>1, <3>1 DEF Earlier
    <3>. QED
      BY <1>1, <2>2, <3>2 DEF FInv, Missed, Missing
  <2>3. NothingOverlooked'
    BY <1>1, <2>1, <2>2 DEF NothingOverlooked, Tries, PathOf, Absent
  <2>4. FirstMatch'
    BY <2>1 DEF FirstMatch
  <2>. QED
    BY <2>1, <2>3, <2>4 DEF FInv, FilesSeen, Missed
<1>. QED
  BY <1>2, <1>3, <1>4

LEMMA StepFind ==
  ASSUME TInv, FInv, [Next]_vars
  PROVE  FInv'
<1>. USE DEF At, Goto, Exit
<1>0. LibTypes /\ CallOK /\ StageOK
  BY DEF TInv
<1>1. CASE UNCHANGED libvars
  BY <1>1, FindSame DEF libvars, findvars
<1>2. CASE SetupEntry
  <2>1. call' = NoCall /\ result' = NoResult
    BY <1>0, <1>2 DEF SetupEntry, ParseEntry, StageOK, Idle, findvars
  <2>. QED
    BY <2>1, FindIdle
<1>3. CASE SetupDone
  BY <1>3, FindSame DEF SetupDone, StorePaths, findvars
<1>4. CASE CallFindLib
  <2>1. PICK name \in Names : FindLib(name)
    BY <1>4 DEF CallFindLib
  <2>. QED
    BY <1>0, <2>1, FindBegins
<1>5. CASE InFindLib
  BY <1>0, <1>5, FindLoop DEF InFindLib
<1>6. CASE GoOn
  <2>1. TakeResult
    BY <1>6 DEF GoOn
  <2>2. CASE call = NoCall
    BY <2>1, <2>2, FindIdle DEF TakeResult
  <2>3. CASE call # NoCall
    BY <1>0, <2>1, <2>3 DEF TakeResult, CallOK
  <2>. QED
    BY <2>2, <2>3
<1>7. CASE Outside
  BY <1>0, <1>7, FindChanges DEF Outside
<1>8. CASE EditLibPath
  <2>1. call' = NoCall /\ result' = NoResult
    BY <1>8 DEF EditLibPath, ChangeLibPath, Idle, findvars
  <2>. QED
    BY <2>1, FindIdle
<1>9. CASE UNCHANGED vars
  BY <1>1, <1>9 DEF vars
<1>. QED
  BY <1>1, <1>2, <1>3, <1>4, <1>5, <1>6, <1>7, <1>8, <1>9 DEF Next, HelpOrVersion, NoScript,
     TakeScript, NewState, NewStateFails, SetArgTable, LoadFails, Panic, PushArgs,
     ScriptReturns, ScriptFails

LEMMA FindAlways == Spec => [](TInv /\ AInv /\ FInv)
<1>1. Init => FInv
  BY DEF Init, LibInit, FInv, FilesSeen, Missed, FirstMatch, NothingOverlooked, NoResult
<1>2. TInv /\ AInv /\ FInv /\ [Next]_vars => FInv'
  BY StepFind
<1>3. Spec => [](TInv /\ AInv)
  BY TypesAlways
<1>. QED
  BY <1>1, <1>2, <1>3, PTL DEF Spec

\* For every search path, name and size of the buffers, what find_lib returns
\* is a file of the first directory and spelling that has one, whatever other
\* processes do to the files meanwhile (main.c 456-513).
THEOREM MainFirstMatch == Spec => []FirstMatch
<1>1. FInv => FirstMatch
  BY DEF FInv
<1>. QED
  BY <1>1, FindAlways, PTL

\* When find_lib returns nil, every candidate that fits was missing when it
\* was looked at, and is in the message (main.c 500-511).
THEOREM MainNothingOverlooked == Spec => []NothingOverlooked
<1>1. FInv => NothingOverlooked
  BY DEF FInv
<1>. QED
  BY <1>1, FindAlways, PTL

----------------------------------------------------------------------------
(* The search path.                                                        *)

\* The loop of setup_lib_path is at the beginning of an entry.
AtEntry == p = 1 \/ p > Len(env) \/ env[p - 1] = ":"

Before(q) == {a \in Starts : a < q}

\* Of two templates for a directory, name.lua comes first.
LuaFirst == \A k \in 1 .. Len(cpath) : lpath[2 * k - 1].form = "?.lua"

PathsStored ==
  /\ stage \in {"args", "state", "paths"} => path = OldPath /\ cpackage = OldCPath
  /\ stage \in {"arg", "load", "run"} =>
       p > Len(env) /\ path = lpath \o OldPath /\ cpackage = cpath \o OldCPath

EInv == AtEntry /\ EntriesTaken /\ LuaFirst /\ PathsStored

LEMMA BeforeFinite ==
  ASSUME env \in Strings, NEW q \in Nat
  PROVE  /\ IsFiniteSet(Before(q)) /\ Cardinality(Before(q)) \in Nat
         /\ Starts \subseteq 1 .. Len(env) /\ Len(env) \in Nat
         /\ \A a \in Starts : a \in Nat
<1>1. Starts \subseteq 1 .. Len(env) /\ Len(env) \in Nat
  BY DEF Starts, Strings
<1>0. \A a \in Starts : a \in Nat
  BY <1>1
<1>2. Before(q) \in SUBSET Nat /\ \A a \in Before(q) : a <= q
  <2>1. \A a \in Before(q) : a \in Nat /\ a <= q
    BY <1>0 DEF Before
  <2>. HIDE DEF Before
  <2>. QED
    BY <2>1
<1>3. IsFiniteSet(Before(q))
  <2>. HIDE DEF Before
  <2>. QED
    BY <1>2, FS_BoundedSetOfNaturals
<1>. QED
  BY <1>0, <1>1, <1>3, FS_CardinalityType

LEMMA PlaceIs ==
  ASSUME env \in Strings, NEW a \in Starts
  PROVE  /\ Place(a) = Cardinality(Before(a)) + 1
         /\ \A q \in Nat : a < q => Place(a) \in 1 .. Cardinality(Before(q))
<1>1. a \in Nat /\ a \notin Before(a) /\ IsFiniteSet(Before(a)) /\ Cardinality(Before(a)) \in Nat
  <2>1. a \in Nat
    BY BeforeFinite
  <2>. QED
    BY <2>1, BeforeFinite DEF Before
<1>2. {b \in Starts : b <= a} = Before(a) \cup {a}
  <2>1. \A b \in Starts : b \in Nat
    BY BeforeFinite
  <2>2. \A b \in Starts : b <= a <=> b < a \/ b = a
    BY <1>1, <2>1
  <2>. QED
    BY <2>2, Zenon DEF Before
<1>3. Place(a) = Cardinality(Before(a)) + 1
  <2>1. Cardinality(Before(a) \cup {a}) = Cardinality(Before(a)) + 1
    BY <1>1, FS_AddElement
  <2>. QED
    BY <1>2, <2>1 DEF Place
<1>4. ASSUME NEW q \in Nat, a < q PROVE Place(a) \in 1 .. Cardinality(Before(q))
  <2>1. \A b \in Starts : b \in Nat
    BY BeforeFinite
  <2>2. Before(a) \cup {a} \in SUBSET Before(q)
    <3>1. \A b \in Starts : b < a => b < q
      BY <1>1, <1>4, <2>1
    <3>. QED
      BY <1>4, <3>1, Zenon DEF Before
  <2>3. IsFiniteSet(Before(q)) /\ Cardinality(Before(q)) \in Nat
    BY BeforeFinite
  <2>4. Cardinality(Before(a) \cup {a}) <= Cardinality(Before(q))
    BY <2>2, <2>3, FS_Subset
  <2>5. Cardinality(Before(a) \cup {a}) = Place(a)
    BY <1>2, Zenon DEF Place
  <2>. QED
    BY <1>1, <1>3, <2>3, <2>4, <2>5
<1>. QED
  BY <1>3, <1>4

\* The entry at p is the next one, if it is not empty.
LEMMA NextStart ==
  ASSUME env \in Strings, p \in 1 .. Len(env), AtEntry
  PROVE  /\ Entry = <<>> => Before(EntryEnd + 1) = Before(p)
         /\ Entry # <<>> => p \in Starts /\ Before(EntryEnd + 1) = Before(p) \cup {p}
<1>. DEFINE e == EntryEnd
<1>1. /\ e \in p .. Len(env) + 1 /\ \A n \in p .. e - 1 : env[n] # ":"
      /\ e <= Len(env) => env[e] = ":"
      /\ Entry \in Strings /\ Len(Entry) = e - p
  BY EntryFacts
<1>2. /\ Starts \subseteq 1 .. Len(env) /\ Len(env) \in Nat
      /\ \A a \in Starts : a \in Nat
  BY BeforeFinite
<1>. HIDE DEF e
<1>4. CASE Entry = <<>>
  <2>1. e = p /\ env[p] = ":"
    <3>1. Len(Entry) = 0
      BY <1>4
    <3>. QED
      BY <1>1, <1>2, <3>1
  <2>2. p \notin Starts
    BY <2>1 DEF Starts
  <2>3. Before(e + 1) = Before(p)
    <3>1. \A a \in Starts : a < e + 1 <=> a < p
      BY <1>2, <2>1, <2>2
    <3>. QED
      BY <3>1, Zenon DEF Before
  <2>. QED
    BY <1>4, <2>3 DEF e
<1>5. CASE Entry # <<>>
  <2>1. e > p
    <3>1. Len(Entry) # 0
      BY <1>1, <1>5 DEF Strings
    <3>. QED
      BY <1>1, <1>2, <3>1
  <2>2. p \in Starts
    BY <1>1, <1>2, <2>1 DEF Starts, AtEntry
  <2>3. ASSUME NEW a \in Starts, a < e + 1, ~(a < p), a # p PROVE FALSE
    <3>1. a \in p + 1 .. e /\ a - 1 \in p .. e - 1 /\ a # 1
      BY <1>1, <1>2, <2>3
    <3>. QED
      BY <1>1, <3>1 DEF Starts
  <2>4. Before(e + 1) = Before(p) \cup {p}
    <3>1. \A a \in Starts : a < e + 1 <=> a < p \/ a = p
      BY <1>1, <1>2, <2>1, <2>3
    <3>. QED
      BY <2>2, <3>1, Zenon DEF Before
  <2>. QED
    BY <1>5, <2>2, <2>4 DEF e
<1>. QED
  BY <1>4, <1>5

\* It is taken without the '/' at its end.
LEMMA EntryIsTaken ==
  ASSUME env \in Strings, p \in 1 .. Len(env), Entry # <<>>
  PROVE  IsEntryAt(Trim(Entry), p)
<1>. DEFINE e == EntryEnd
            d == Trim(Entry)
<1>1. /\ e \in p .. Len(env) + 1 /\ \A n \in p .. e - 1 : env[n] # ":"
      /\ e <= Len(env) => env[e] = ":"
      /\ Entry \in Strings /\ Len(Entry) = e - p
      /\ \A n \in 1 .. Len(Entry) : Entry[n] = env[p + n - 1]
  BY EntryFacts
<1>2. /\ d \in Strings /\ Len(d) \in 1 .. Len(Entry)
      /\ \A n \in 1 .. Len(d) : d[n] = Entry[n]
      /\ Len(d) > 1 => Entry[Len(d)] # "/"
      /\ \A n \in Len(d) + 1 .. Len(Entry) : Entry[n] = "/"
  BY <1>1, TrimFacts
<1>0. Len(env) \in Nat /\ Len(d) \in Nat
  BY <1>2 DEF Strings
<1>. HIDE DEF e, d
<1>3. d # <<>> /\ (Len(d) > 1 => d[Len(d)] # "/")
  <2>1. d # <<>>
    <3>1. Len(d) # 0
      BY <1>0, <1>1, <1>2
    <3>. QED
      BY <3>1
  <2>. QED
    BY <1>0, <1>2, <2>1
<1>4. ASSUME NEW n \in 1 .. Len(d) PROVE d[n] # ":" /\ d[n] = env[p + n - 1]
  <2>1. n \in 1 .. Len(Entry) /\ p + n - 1 \in p .. e - 1
    BY <1>0, <1>1, <1>2
  <2>. QED
    BY <1>1, <1>2, <2>1
<1>5. ASSUME NEW n \in p + Len(d) .. Len(env), \A m \in p .. n : env[m] # ":"
      PROVE  env[n] = "/"
  <2>1. n < e
    <3>1. ~(e <= Len(env) /\ e \in p .. n)
      BY <1>1, <1>5
    <3>. QED
      BY <1>0, <1>1, <3>1
  <2>2. n - p + 1 \in Len(d) + 1 .. Len(Entry) /\ n - p + 1 \in 1 .. Len(Entry)
    BY <1>0, <1>1, <2>1
  <2>3. p + (n - p + 1) - 1 = n
    BY <1>0, <1>1
  <2>. QED
    BY <1>1, <1>2, <2>2, <2>3
<1>. QED
  BY <1>3, <1>4, <1>5 DEF IsEntryAt, d

LEMMA AppendTwo ==
  ASSUME NEW S, NEW s \in Seq(S), NEW x \in S, NEW y \in S
  PROVE  /\ Len(s \o <<x, y>>) = Len(s) + 2 /\ Len(s) \in Nat
         /\ (s \o <<x, y>>)[Len(s) + 1] = x /\ (s \o <<x, y>>)[Len(s) + 2] = y
         /\ \A k \in 1 .. Len(s) : (s \o <<x, y>>)[k] = s[k]
OBVIOUS

\* The next directory and its templates.
LEMMA TakenNext ==
  ASSUME LibTypes, AtEntry, EntriesTaken, LuaFirst, ParseEntry
  PROVE  AtEntry' /\ EntriesTaken' /\ LuaFirst'
<1>1. /\ env' = env /\ p' = EntryEnd + 1 /\ p \in 1 .. Len(env) /\ env \in Strings
      /\ lpath \in Seq(TemplateSet) /\ cpath \in Seq(TemplateSet)
  BY DEF ParseEntry, LibTypes
<1>2. /\ Entry = <<>> => Before(EntryEnd + 1) = Before(p)
      /\ Entry # <<>> => p \in Starts /\ Before(EntryEnd + 1) = Before(p) \cup {p}
  BY <1>1, NextStart
<1>3. AtEntry'
  <2>. DEFINE e == EntryEnd
  <2>1. /\ e \in p .. Len(env) + 1 /\ (e <= Len(env) => env[e] = ":")
        /\ p' = e + 1 /\ env' = env /\ p \in Nat /\ Len(env) \in Nat
    BY <1>1, EntryFacts DEF Strings
  <2>. HIDE DEF e
  <2>2. e + 1 > Len(env) \/ env[e] = ":"
    BY <2>1
  <2>3. p' - 1 = e
    BY <2>1
  <2>4. p' > Len(env') \/ env'[p' - 1] = ":"
    BY <2>1, <2>2, <2>3
  <2>. QED
    BY <2>4 DEF AtEntry
<1>4. EntryEnd + 1 \in Nat /\ Len(env) \in Nat /\ p \in Nat
  <2>1. EntryEnd \in p .. Len(env) + 1
    BY <1>1, EntryFacts
  <2>. QED
    BY <1>1, <2>1 DEF Strings
<1>5. /\ Starts' = Starts /\ \A a : Place(a)' = Place(a)
      /\ \A d, a : IsEntryAt(d, a)' <=> IsEntryAt(d, a)
  BY <1>1 DEF Starts, Place, IsEntryAt
<1>6. /\ Len(cpath) = Cardinality(Before(p)) /\ Len(lpath) = 2 * Len(cpath)
      /\ \A a \in Before(p) : IsEntryAt(cpath[Place(a)].dir, a)
      /\ \A k \in 1 .. Len(cpath) :
           lpath[2 * k - 1].dir = cpath[k].dir /\ lpath[2 * k].dir = cpath[k].dir
  BY DEF EntriesTaken, Before
<1>. DEFINE q == EntryEnd + 1
<1>. HIDE DEF q
<1>7. ASSUME /\ Len(cpath') = Cardinality(Before(q)) /\ Len(lpath') = 2 * Len(cpath')
             /\ \A a \in Before(q) : IsEntryAt(cpath'[Place(a)].dir, a)
             /\ \A k \in 1 .. Len(cpath') :
                  /\ lpath'[2 * k - 1].dir = cpath'[k].dir
                  /\ lpath'[2 * k].dir = cpath'[k].dir
                  /\ lpath'[2 * k - 1].form = "?.lua"
      PROVE  EntriesTaken' /\ LuaFirst'
  <2>1. p' = q
    BY <1>1 DEF q
  <2>2. {a \in Starts : a < p}' = Before(q)
    BY <1>5, <2>1, Zenon DEF Before
  <2>3. Len(cpath') = Cardinality({a \in Starts : a < p})'
    BY <1>7, <2>2, Zenon
  <2>4. (\A a \in Starts : a < p => IsEntryAt(cpath[Place(a)].dir, a))'
    BY <1>5, <1>7, <2>1, Zenon DEF Before
  <2>5. EntriesTaken'
    BY <1>7, <2>3, <2>4, Zenon DEF EntriesTaken
  <2>6. LuaFirst'
    BY <1>7 DEF LuaFirst
  <2>. QED
    BY <2>5, <2>6
<1>8. ASSUME Entry = <<>> PROVE EntriesTaken' /\ LuaFirst'
  <2>1. lpath' = lpath /\ cpath' = cpath
    BY <1>8 DEF ParseEntry
  <2>2. Before(q) = Before(p)
    BY <1>2, <1>8 DEF q
  <2>3. Len(cpath') = Cardinality(Before(q)) /\ Len(lpath') = 2 * Len(cpath')
    BY <1>6, <2>1, <2>2
  <2>4. \A a \in Before(q) : IsEntryAt(cpath'[Place(a)].dir, a)
    BY <1>6, <2>1, <2>2, Zenon
  <2>5. \A k \in 1 .. Len(cpath') :
          /\ lpath'[2 * k - 1].dir = cpath'[k].dir
          /\ lpath'[2 * k].dir = cpath'[k].dir
          /\ lpath'[2 * k - 1].form = "?.lua"
    BY <1>6, <2>1, Zenon DEF LuaFirst
  <2>. QED
    BY <1>3, <1>7, <2>3, <2>4, <2>5, Zenon
<1>9. ASSUME Entry # <<>> PROVE EntriesTaken' /\ LuaFirst'
  <2>. DEFINE d == Trim(Entry)
              x == Template(d, "?.lua")
              y == Template(d, "?/init.lua")
              z == Template(d, "?.so")
              n == Len(cpath)
  <2>1. lpath' = lpath \o <<x, y>> /\ cpath' = Append(cpath, z)
    BY <1>9 DEF ParseEntry
  <2>2. d \in Strings /\ IsEntryAt(d, p)
    <3>1. Entry \in Strings
      BY <1>1, EntryFacts
    <3>. QED
      BY <1>1, <1>9, <3>1, TrimFacts, EntryIsTaken
  <2>3. /\ x \in TemplateSet /\ y \in TemplateSet /\ z \in TemplateSet
        /\ x.dir = d /\ y.dir = d /\ z.dir = d /\ x.form = "?.lua"
    BY <2>2 DEF Template, TemplateSet
  <2>. HIDE DEF d, x, y, z, TemplateSet
  <2>4. /\ Len(cpath') = n + 1 /\ n \in Nat /\ cpath'[n + 1] = z
        /\ \A k \in 1 .. n : cpath'[k] = cpath[k]
    BY <1>1, <2>1, <2>3, AppendIs
  <2>5. /\ Len(lpath') = Len(lpath) + 2 /\ Len(lpath) \in Nat
        /\ lpath'[Len(lpath) + 1] = x /\ lpath'[Len(lpath) + 2] = y
        /\ \A k \in 1 .. Len(lpath) : lpath'[k] = lpath[k]
    BY <1>1, <2>1, <2>3, AppendTwo
  <2>. HIDE DEF n
  <2>6. Len(lpath) = 2 * n /\ Cardinality(Before(p)) = n
    BY <1>6 DEF n
  <2>7. /\ Cardinality(Before(q)) = n + 1 /\ p \in Starts
        /\ Before(q) = Before(p) \cup {p} /\ p \notin Before(p)
    <3>1. Before(q) = Before(p) \cup {p} /\ p \notin Before(p) /\ p \in Starts
      BY <1>2, <1>4, <1>9 DEF Before, q
    <3>2. IsFiniteSet(Before(p))
      BY <1>1, <1>4, BeforeFinite
    <3>3. Cardinality(Before(p) \cup {p}) = Cardinality(Before(p)) + 1
      BY <3>1, <3>2, FS_AddElement
    <3>. QED
      BY <2>6, <3>1, <3>3
  <2>8. Len(lpath') = 2 * Len(cpath')
    BY <2>4, <2>5, <2>6
  <2>9. ASSUME NEW a \in Before(q) PROVE IsEntryAt(cpath'[Place(a)].dir, a)
    <3>1. CASE a \in Before(p)
      <4>1. a \in Starts /\ a < p
        BY <3>1 DEF Before
      <4>2. Place(a) \in 1 .. Cardinality(Before(p))
        BY <1>1, <1>4, <4>1, PlaceIs
      <4>. QED
        BY <1>6, <2>4, <2>6, <3>1, <4>2
    <3>2. CASE a = p
      <4>1. Place(p) = Cardinality(Before(p)) + 1
        BY <1>1, <2>7, PlaceIs
      <4>. QED
        BY <2>2, <2>3, <2>4, <2>6, <3>2, <4>1
    <3>. QED
      BY <2>7, <2>9, <3>1, <3>2
  <2>10. ASSUME NEW k \in 1 .. Len(cpath')
         PROVE  /\ lpath'[2 * k - 1].dir = cpath'[k].dir
                /\ lpath'[2 * k].dir = cpath'[k].dir
                /\ lpath'[2 * k - 1].form = "?.lua"
    <3>1. CASE k \in 1 .. n
      <4>1. 2 * k - 1 \in 1 .. Len(lpath) /\ 2 * k \in 1 .. Len(lpath)
        BY <2>4, <2>6, <3>1
      <4>2. k \in 1 .. Len(cpath)
        BY <3>1 DEF n
      <4>. QED
        BY <1>6, <2>4, <2>5, <3>1, <4>1, <4>2 DEF LuaFirst
    <3>2. CASE k = n + 1
      <4>1. 2 * k - 1 = Len(lpath) + 1 /\ 2 * k = Len(lpath) + 2
        BY <2>4, <2>6, <3>2
      <4>. QED
        BY <2>3, <2>4, <2>5, <3>2, <4>1
    <3>. QED
      BY <2>4, <2>10, <3>1, <3>2
  <2>11. Len(cpath') = Cardinality(Before(q))
    BY <2>4, <2>7
  <2>. QED
    BY <1>3, <1>7, <2>8, <2>9, <2>10, <2>11, Zenon
<1>. QED
  BY <1>3, <1>8, <1>9

LEMMA StartsPositive ==
  ASSUME NEW a \in Starts, env \in Strings
  PROVE  a >= 1 /\ a \in Nat
BY DEF Starts, Strings

LEMMA ConcatIs ==
  ASSUME NEW S, NEW s \in Seq(S), NEW t \in Seq(S)
  PROVE  /\ Len(s \o t) = Len(s) + Len(t)
         /\ \A k \in 1 .. Len(s) : (s \o t)[k] = s[k]
         /\ \A k \in 1 .. Len(t) : (s \o t)[Len(s) + k] = t[k]
OBVIOUS

LEMMA InitEntries == Init => EInv
<1>. SUFFICES ASSUME Init PROVE EInv
  OBVIOUS
<1>1. /\ p = 1 /\ lpath = <<>> /\ cpath = <<>> /\ env \in Strings
      /\ path = OldPath /\ cpackage = OldCPath /\ stage = "args"
  BY InputsAssumption DEF Init, LibInit
<1>2. ~(\E a \in Starts : a < p)
  BY <1>1, BeforeFinite, StartsPositive
<1>3. {a \in Starts : a < p} = {}
  BY <1>2, Zenon
<1>4. EntriesTaken
  <2>1. Len(cpath) = 0 /\ Len(lpath) = 0 /\ Cardinality({}) = 0
    BY <1>1, FS_EmptySet
  <2>2. Len(cpath) = Cardinality({a \in Starts : a < p})
    BY <1>3, <2>1, Zenon
  <2>3. Len(lpath) = 2 * Len(cpath) /\ ~(\E k \in 1 .. Len(cpath) : TRUE)
    BY <2>1
  <2>. QED
    BY <1>2, <2>2, <2>3, Zenon DEF EntriesTaken
<1>5. AtEntry /\ LuaFirst /\ PathsStored
  BY <1>1 DEF AtEntry, LuaFirst, PathsStored
<1>. QED
  BY <1>4, <1>5 DEF EInv

\* Only setup_lib_path has to do with the search path.
LEMMA EntriesSame ==
  ASSUME EInv, UNCHANGED setupvars,
         stage' \in {"args", "state", "paths"} => stage \in {"args", "state", "paths"},
         stage' \in {"arg", "load", "run"} => stage \in {"arg", "load", "run"}
  PROVE  EInv'
<1>1. /\ env' = env /\ p' = p /\ lpath' = lpath /\ cpath' = cpath
      /\ path' = path /\ cpackage' = cpackage
  BY DEF setupvars
<1>2. AtEntry' /\ LuaFirst'
  BY <1>1 DEF EInv, AtEntry, LuaFirst
<1>3. EntriesTaken' = EntriesTaken
  BY <1>1 DEF EntriesTaken, Starts, Place, IsEntryAt
<1>4. PathsStored'
  BY <1>1 DEF EInv, PathsStored
<1>. QED
  BY <1>2, <1>3, <1>4 DEF EInv

LEMMA StepEntries ==
  ASSUME TInv, EInv, [Next]_vars
  PROVE  EInv'
<1>. USE DEF At, Goto, Exit
<1>0. LibTypes /\ StageOK
  BY DEF TInv
<1>1. CASE SetupEntry
  <2>1. ParseEntry /\ stage = "paths" /\ stage' = "paths"
    BY <1>1 DEF SetupEntry
  <2>2. AtEntry' /\ EntriesTaken' /\ LuaFirst'
    BY <1>0, <2>1, TakenNext DEF EInv
  <2>3. PathsStored'
    BY <2>1 DEF EInv, PathsStored, ParseEntry
  <2>. QED
    BY <2>2, <2>3 DEF EInv
<1>2. CASE SetupDone
  <2>1. /\ stage = "paths" /\ stage' = "arg" /\ p > Len(env)
        /\ path' = lpath \o path /\ cpackage' = cpath \o cpackage
        /\ env' = env /\ p' = p /\ lpath' = lpath /\ cpath' = cpath
    BY <1>2 DEF SetupDone, StorePaths
  <2>2. AtEntry' /\ LuaFirst'
    BY <2>1 DEF EInv, AtEntry, LuaFirst
  <2>3. EntriesTaken' = EntriesTaken
    BY <2>1 DEF EntriesTaken, Starts, Place, IsEntryAt
  <2>4. PathsStored'
    BY <2>1 DEF EInv, PathsStored
  <2>. QED
    BY <2>2, <2>3, <2>4 DEF EInv
<1>3. CASE HelpOrVersion \/ NoScript \/ NewStateFails \/ LoadFails \/ Panic
           \/ ScriptReturns \/ ScriptFails
  BY <1>3, EntriesSame DEF HelpOrVersion, NoScript, NewStateFails, LoadFails,
     Panic, ScriptReturns, ScriptFails, libvars
<1>4. CASE TakeScript \/ NewState \/ SetArgTable \/ PushArgs
  BY <1>4, EntriesSame DEF TakeScript, NewState, SetArgTable, PushArgs, libvars
<1>5. CASE CallFindLib \/ InFindLib \/ GoOn \/ Outside \/ EditLibPath
  <2>1. UNCHANGED setupvars /\ stage = "run" /\ stage' = "run"
    BY <1>5 DEF CallFindLib, InFindLib, GoOn, Outside, EditLibPath, Running,
       FindLib, TooLong, Match, NoMatch, NotFound, TakeResult, FileChanges,
       ChangeLibPath
  <2>. QED
    BY <2>1, EntriesSame
<1>6. CASE UNCHANGED vars
  BY <1>6, EntriesSame DEF vars, libvars, mainvars
<1>. QED
  BY <1>1, <1>2, <1>3, <1>4, <1>5, <1>6 DEF Next

\* Once all is taken and stored, require looks where it should.
LEMMA OrderFromEntries ==
  ASSUME LibTypes, EInv, stage \in {"arg", "load", "run"}
  PROVE  SearchOrder
<1>. DEFINE n == Cardinality(Starts)
<1>1. /\ env \in Strings /\ lpath \in Seq(TemplateSet) /\ cpath \in Seq(TemplateSet)
      /\ p > Len(env) /\ p \in Nat /\ Len(env) \in Nat
      /\ path = lpath \o OldPath /\ cpackage = cpath \o OldCPath
  <2>1. p > Len(env) /\ path = lpath \o OldPath /\ cpackage = cpath \o OldCPath
    BY DEF EInv, PathsStored
  <2>2. /\ env \in Strings /\ p \in 1 .. Len(env) + 2
        /\ lpath \in Seq(TemplateSet) /\ cpath \in Seq(TemplateSet)
    BY DEF LibTypes
  <2>3. Len(env) \in Nat
    BY <2>2 DEF Strings
  <2>. QED
    BY <2>1, <2>2, <2>3
<1>2. /\ Starts \subseteq 1 .. Len(env)
      /\ \A a \in Starts : a \in Nat
  BY <1>1, BeforeFinite
<1>3. \A a \in Starts : a < p
  BY <1>1, <1>2
<1>4. {a \in Starts : a < p} = Starts
  BY <1>3, Zenon
<1>5. Len(cpath) = n /\ Len(lpath) = 2 * Len(cpath) /\ Len(cpath) \in Nat
  <2>1. Len(cpath) = Cardinality({a \in Starts : a < p})
        /\ Len(lpath) = 2 * Len(cpath)
    BY DEF EInv, EntriesTaken
  <2>2. Len(cpath) = n
    BY <1>4, <2>1, Zenon
  <2>. QED
    BY <1>1, <2>1, <2>2
<1>6. \A a \in Starts : Place(a) \in 1 .. n
  <2>1. Before(p) = Starts
    BY <1>4, Zenon DEF Before
  <2>2. \A a \in Starts : Place(a) \in 1 .. Cardinality(Before(p))
    BY <1>1, <1>3, PlaceIs
  <2>. QED
    BY <2>1, <2>2
<1>. HIDE DEF n
<1>7. /\ Len(path) = 2 * n + Len(OldPath)
      /\ \A k \in 1 .. 2 * n : path[k] = lpath[k]
      /\ \A k \in 1 .. Len(OldPath) : path[2 * n + k] = OldPath[k]
  <2>1. OldPath \in Seq(TemplateSet)
    BY OldAssumption
  <2>2. /\ Len(lpath \o OldPath) = Len(lpath) + Len(OldPath)
        /\ \A k \in 1 .. Len(lpath) : (lpath \o OldPath)[k] = lpath[k]
        /\ \A k \in 1 .. Len(OldPath) :
             (lpath \o OldPath)[Len(lpath) + k] = OldPath[k]
    <3>. HIDE DEF TemplateSet
    <3>. QED
      BY <1>1, <2>1, ConcatIs
  <2>3. Len(lpath) = 2 * n
    BY <1>5
  <2>. QED
    BY <1>1, <2>2, <2>3, Zenon
<1>8. /\ \A k \in 1 .. n : cpackage[k] = cpath[k]
      /\ \A k \in 1 .. Len(OldCPath) : cpackage[n + k] = OldCPath[k]
  <2>1. OldCPath \in Seq(TemplateSet)
    BY OldAssumption
  <2>2. /\ \A k \in 1 .. Len(cpath) : (cpath \o OldCPath)[k] = cpath[k]
        /\ \A k \in 1 .. Len(OldCPath) :
             (cpath \o OldCPath)[Len(cpath) + k] = OldCPath[k]
    <3>. HIDE DEF TemplateSet
    <3>. QED
      BY <1>1, <2>1, ConcatIs
  <2>. QED
    BY <1>1, <1>5, <2>2, Zenon
<1>9. ASSUME NEW a \in Starts
      PROVE  /\ IsEntryAt(path[2 * Place(a) - 1].dir, a)
             /\ IsEntryAt(path[2 * Place(a)].dir, a)
             /\ path[2 * Place(a) - 1].form = "?.lua"
             /\ IsEntryAt(cpackage[Place(a)].dir, a)
  <2>. DEFINE k == Place(a)
  <2>1. k \in 1 .. n /\ k \in 1 .. Len(cpath) /\ n \in Nat
    BY <1>5, <1>6
  <2>2. /\ IsEntryAt(cpath[k].dir, a)
        /\ lpath[2 * k - 1].dir = cpath[k].dir /\ lpath[2 * k].dir = cpath[k].dir
        /\ lpath[2 * k - 1].form = "?.lua"
    BY <1>3, <2>1 DEF EInv, EntriesTaken, LuaFirst
  <2>. HIDE DEF k
  <2>3. 2 * k - 1 \in 1 .. 2 * n /\ 2 * k \in 1 .. 2 * n
    BY <2>1
  <2>4. /\ path[2 * k - 1] = lpath[2 * k - 1] /\ path[2 * k] = lpath[2 * k]
        /\ cpackage[k] = cpath[k]
    BY <1>7, <1>8, <2>1, <2>3
  <2>5. /\ IsEntryAt(path[2 * k - 1].dir, a) /\ IsEntryAt(path[2 * k].dir, a)
        /\ path[2 * k - 1].form = "?.lua" /\ IsEntryAt(cpackage[k].dir, a)
    BY <2>2, <2>4
  <2>. QED
    BY <2>5 DEF k
<1>. QED
  BY <1>7, <1>8, <1>9 DEF SearchOrder, n

\* For every value of TMG_LIB_PATH, package.path and package.cpath begin with
\* its entries in their order, before the script is loaded and while it runs
\* (main.c 389-435).
THEOREM MainPathsReady == Spec => []PathsReady
<1>1. TInv /\ EInv => PathsReady
  BY OrderFromEntries DEF TInv, EInv, PathsReady
<1>2. TInv /\ EInv /\ [Next]_vars => EInv'
  BY StepEntries
<1>3. Spec => []TInv
  BY TypesAlways, PTL
<1>. QED
  BY <1>1, <1>2, <1>3, InitEntries, PTL DEF Spec

=============================================================================
