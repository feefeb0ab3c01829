------------------------ MODULE RuntimeLauncher_proofs ------------------------
(***************************************************************************)
(* Theorems about nested launches, for any tools, sidecars and starting    *)
(* environments, and for chains of any depth.                              *)
(***************************************************************************)
EXTENDS RuntimeLauncher, TLAPS

-----------------------------------------------------------------------------
(* The inductive invariant.                                                *)

\* Types, and how deep a chain is where it stands.
ChainTyped ==
  /\ TypeOK
  /\ depth = 0 => run = None /\ stage = "program"
  /\ stage # "program" => depth > 0 /\ tool \in Tools
  /\ why \in Reasons \cup {None}

\* Some launch has published the environment at hand, or one that a sidecar
\* has since been applied to.
Published == depth > 1 \/ (depth = 1 /\ stage = "program")

\* Who is settled: the environment is the one inherited, or has the sidecar
\* applied over it.
Inherited == stage \in {"program", "sidecar"} \/ (stage = "prepare" /\ SidecarOwner = None)
Applied == stage = "prepare" /\ SidecarOwner # None

\* The loader and the libraries at hand belong together.
Paired == env.LOADER # None /\ env.LIBRARY # None => env.LOADER.of = env.LIBRARY.of

\* A launch leaves no controls to its descendants, and absolute paths, but for
\* the loader and the libraries that a static launch does not look at.
Unlooked(v) == run.mode = "static" /\ ~Static /\ v \in {"LOADER", "LIBRARY"}
HandedDown ==
  Published /\ Inherited =>
    /\ env.COUNT \in {0, None}
    /\ env.ARGV0 = None
    /\ run.mode = "static" \/ ~Static
    /\ \A v \in Required : env[v] # None => env[v].form = "absolute" \/ Unlooked(v)

\* A sidecar that was read decides over all that it names, over the mode and
\* over the fixed arguments; the explicit name is its own.
SidecarApplied ==
  Applied =>
    LET sidecar == Sidecar[SidecarOwner] IN
    /\ sidecar # Malformed
    /\ \A v \in DOMAIN sidecar : env[v] = sidecar[v]
    /\ "STATIC" \notin DOMAIN sidecar => env.STATIC = "false"
    /\ "COUNT" \notin DOMAIN sidecar => env.COUNT = 0
    /\ Published /\ "ARGV0" \notin DOMAIN sidecar => env.ARGV0 = None

ChainInv ==
  /\ ChainTyped /\ Paired /\ HandedDown /\ SidecarApplied
  /\ SidecarOverridesRuntime /\ RuntimeNeverMixed /\ ControlsConsumedOnce
  /\ InheritedRuntimeSurvivesChdir

-----------------------------------------------------------------------------
(* Values and environments.                                                *)

\* The values of each variable.
LEMMA ValueOf ==
  /\ \A v \in RuntimeTriple \cup {"DECLARED"} : Value(v) = File \cup {None}
  /\ \A v \in {"FIXED_ARG_0", "FIXED_ARG_1", "ARGV0"} : Value(v) = Tools \cup {None}
  /\ \A v \in {"STATIC", "INHIBIT_CACHE"} : Value(v) = {"true", "false", None, Malformed}
  /\ Value("COUNT") = {0, 1, 2, None, Malformed}
  /\ Value("PATH_ENVIRONMENT") = {"names", None}
  BY DEF Value, RuntimeTriple

\* An environment, variable by variable.
LEMMA EnvironmentIs ==
  ASSUME NEW e, DOMAIN e = Variables
  PROVE  (\A v \in Variables : e[v] \in Value(v)) <=>
           /\ e.LOADER \in File \cup {None} /\ e.LIBRARY \in File \cup {None}
           /\ e.PROGRAM \in File \cup {None} /\ e.DECLARED \in File \cup {None}
           /\ e.FIXED_ARG_0 \in Tools \cup {None} /\ e.FIXED_ARG_1 \in Tools \cup {None}
           /\ e.ARGV0 \in Tools \cup {None}
           /\ e.STATIC \in {"true", "false", None, Malformed}
           /\ e.INHIBIT_CACHE \in {"true", "false", None, Malformed}
           /\ e.COUNT \in {0, 1, 2, None, Malformed}
           /\ e.PATH_ENVIRONMENT \in {"names", None}
<1>1. /\ Value("LOADER") = File \cup {None} /\ Value("LIBRARY") = File \cup {None}
      /\ Value("PROGRAM") = File \cup {None} /\ Value("DECLARED") = File \cup {None}
      /\ Value("FIXED_ARG_0") = Tools \cup {None} /\ Value("FIXED_ARG_1") = Tools \cup {None}
      /\ Value("ARGV0") = Tools \cup {None}
      /\ Value("STATIC") = {"true", "false", None, Malformed}
      /\ Value("INHIBIT_CACHE") = {"true", "false", None, Malformed}
      /\ Value("COUNT") = {0, 1, 2, None, Malformed}
      /\ Value("PATH_ENVIRONMENT") = {"names", None}
  BY ValueOf DEF RuntimeTriple
<1>2. Variables = {"LOADER", "LIBRARY", "PROGRAM", "STATIC", "COUNT", "FIXED_ARG_0", "FIXED_ARG_1", "ARGV0",
                   "INHIBIT_CACHE", "PATH_ENVIRONMENT", "DECLARED"}
  BY DEF Variables, RuntimeTriple
<1> QED
  BY <1>1, <1>2

\* What making a path absolute keeps.
LEMMA AbsoluteIs ==
  ASSUME NEW f \in File \cup {None}
  PROVE  /\ Absolute(f) \in File \cup {None}
         /\ f = None => Absolute(f) = None
         /\ f # None => /\ Absolute(f) # None /\ Absolute(f).form = "absolute"
                        /\ Absolute(f).of = f.of /\ Absolute(f).hidden = f.hidden
<1>1. CASE f = None
  BY <1>1 DEF Absolute
<1>2. CASE f # None
  <2>1. f \in File /\ Absolute(f) = [f EXCEPT !.form = "absolute"]
    BY <1>2 DEF Absolute
  <2>2. Absolute(f) \in File /\ Absolute(f).form = "absolute" /\ Absolute(f).of = f.of /\ Absolute(f).hidden = f.hidden
    BY <2>1 DEF File
  <2> QED
    BY <1>2, <2>2, LauncherAssumption
<1> QED
  BY <1>1, <1>2

\* The owner of the sidecar is a tool that has one.
LEMMA OwnerIs ==
  ASSUME TypeOK, tool \in Tools
  PROVE  SidecarOwner # None => SidecarOwner \in Tools /\ Sidecar[SidecarOwner] # None
  BY DEF SidecarOwner, TypeOK

\* What the published environment is.
LEMMA PreparedIs ==
  ASSUME TypeOK
  PROVE  /\ DOMAIN PreparedEnvironment = Variables
         /\ PreparedEnvironment.COUNT = 0 /\ PreparedEnvironment.ARGV0 = None
         /\ PreparedEnvironment.PROGRAM = Absolute(env.PROGRAM)
         /\ PreparedEnvironment.DECLARED =
              IF env.PATH_ENVIRONMENT = None THEN env.DECLARED ELSE Absolute(env.DECLARED)
         /\ \A v \in Variables \ {"COUNT", "ARGV0", "PROGRAM", "DECLARED"} : PreparedEnvironment[v] = env[v]
<1> DEFINE e == [[env EXCEPT !.COUNT = 0, !.ARGV0 = None] EXCEPT !.PROGRAM = Absolute(@)]
<1>1. DOMAIN env = Variables
  BY DEF TypeOK
<1>2. {"COUNT", "ARGV0", "PROGRAM", "DECLARED", "PATH_ENVIRONMENT"} \subseteq Variables
  BY DEF Variables, RuntimeTriple
<1>3. /\ DOMAIN e = Variables /\ e.COUNT = 0 /\ e.ARGV0 = None /\ e.PROGRAM = Absolute(env.PROGRAM)
      /\ e.DECLARED = env.DECLARED /\ e.PATH_ENVIRONMENT = env.PATH_ENVIRONMENT
      /\ \A v \in Variables \ {"COUNT", "ARGV0", "PROGRAM", "DECLARED"} : e[v] = env[v]
  BY <1>1, <1>2
<1>4. PreparedEnvironment = ResolvePathEnvironment(e)
  BY DEF PreparedEnvironment, ConsumeInvocationControls
<1> HIDE DEF e
<1>5. CASE env.PATH_ENVIRONMENT = None
  <2>1. PreparedEnvironment = e
    BY <1>3, <1>4, <1>5 DEF ResolvePathEnvironment
  <2> QED
    BY <1>3, <1>5, <2>1
<1>6. CASE env.PATH_ENVIRONMENT # None
  <2>1. PreparedEnvironment = [e EXCEPT !.DECLARED = Absolute(e.DECLARED)]
    BY <1>3, <1>4, <1>6 DEF ResolvePathEnvironment
  <2> QED
    BY <1>2, <1>3, <1>6, <2>1
<1> QED
  BY <1>5, <1>6

\* What a launchable environment has.
LEMMA LaunchableIs ==
  ASSUME TypeOK, Launchable
  PROVE  /\ env.PROGRAM \in File /\ (~Static => env.LOADER \in File /\ env.LIBRARY \in File)
         /\ env.PATH_ENVIRONMENT # None => env.DECLARED \in File
         /\ env.COUNT = None \/ \E n \in 0..2 : env.COUNT = n /\ \A i \in 1..n : env[FixedArg[i]] # None
<1>1. /\ env.LOADER \in File \cup {None} /\ env.LIBRARY \in File \cup {None}
      /\ env.PROGRAM \in File \cup {None} /\ env.DECLARED \in File \cup {None}
  BY EnvironmentIs DEF TypeOK
<1>2. /\ env.PROGRAM # None /\ (~Static => env.LOADER # None /\ env.LIBRARY # None)
      /\ env.PATH_ENVIRONMENT # None => env.DECLARED # None
  BY DEF Launchable, Required, Found
<1>3. Len(FixedArg) = 2
  BY DEF FixedArg
<1>4. env.COUNT = None \/ \E n \in 0..2 : env.COUNT = n /\ \A i \in 1..n : env[FixedArg[i]] # None
  BY <1>3 DEF Launchable, WellFormed, FixedArgumentsOK
<1> QED
  BY <1>1, <1>2, <1>4

\* The program that is selected.
LEMMA SelectedIs ==
  ASSUME TypeOK, tool \in Tools, env.PROGRAM \in File
  PROVE  /\ SelectedProgram \in File /\ SelectedProgram.form = "absolute"
         /\ SelectedProgram.of = IF tool \in Real THEN tool ELSE env.PROGRAM.of
<1>1. CASE tool \in Real
  BY <1>1 DEF SelectedProgram, File
<1>2. CASE tool \notin Real
  <2>1. SelectedProgram = Absolute(env.PROGRAM)
    BY <1>2 DEF SelectedProgram
  <2>2. env.PROGRAM # None
    BY LauncherAssumption
  <2>3. Absolute(env.PROGRAM) # None /\ Absolute(env.PROGRAM) \in File \cup {None}
    BY <2>2, AbsoluteIs
  <2> QED
    BY <1>2, <2>1, <2>2, <2>3, AbsoluteIs
<1> QED
  BY <1>1, <1>2

\* A chain is one launch deep or deeper.
LEMMA BeyondOne ==
  ASSUME NEW d \in 0..MaxDepth, d > 0, d # 1
  PROVE  d > 1
<1>1. MaxDepth \in Nat
  BY LauncherAssumption
<1> QED
  BY <1>1

-----------------------------------------------------------------------------
(* Every step keeps the invariant.                                         *)

\* A chain begins with the environment of the consumer.
LEMMA ChainInit == Init => ChainInv
<1> SUFFICES ASSUME Init PROVE ChainInv
  OBVIOUS
<1>1. StartOK(env) /\ stage = "program" /\ depth = 0 /\ run = None /\ why = None /\ tool = None /\ arg = None
  BY LauncherAssumption DEF Init
<1>2. ChainTyped /\ Paired
  BY <1>1, LauncherAssumption DEF Init, ChainTyped, TypeOK, StartOK, Paired
<1>3. HandedDown /\ SidecarApplied /\ InheritedRuntimeSurvivesChdir
  <2>1. None # "not found"
    BY LauncherAssumption DEF Reasons
  <2>2. ~Published /\ ~Applied
    BY <1>1 DEF Published, Applied
  <2> QED
    BY <1>1, <2>1, <2>2 DEF HandedDown, SidecarApplied, InheritedRuntimeSurvivesChdir
<1>4. SidecarOverridesRuntime /\ RuntimeNeverMixed /\ ControlsConsumedOnce
  BY <1>1 DEF SidecarOverridesRuntime, RuntimeNeverMixed, ControlsConsumedOnce, Launched, Dynamic
<1> QED
  BY <1>2, <1>3, <1>4 DEF ChainInv

\* A launcher that gives up touches nothing; only a path that is relative is
\* not found, and a descendant's inherited paths are not.
LEMMA ChainRefuses ==
  ASSUME ChainInv, NEW reason \in Reasons, GiveUp(reason), stage \in {"sidecar", "prepare"},
         reason = "not found" => RefuseNotFound
  PROVE  ChainInv'
<1>1. /\ stage' = "exit78" /\ why' = reason /\ UNCHANGED <<env, cwd, tool, arg, depth, run>>
      /\ ChainTyped /\ Paired /\ HandedDown
  BY DEF GiveUp, ChainInv
<1>2. reason # None /\ "not found" # None
  BY LauncherAssumption DEF Reasons
<1>3. ChainTyped' /\ Paired'
  BY <1>1, <1>2 DEF ChainTyped, TypeOK, Paired
<1>4. HandedDown' /\ SidecarApplied'
  BY <1>1 DEF HandedDown, Inherited, SidecarApplied, Applied
<1>5. SidecarOverridesRuntime' /\ RuntimeNeverMixed' /\ ControlsConsumedOnce'
  BY <1>1 DEF SidecarOverridesRuntime, RuntimeNeverMixed, ControlsConsumedOnce, Launched, Dynamic
<1>6. InheritedRuntimeSurvivesChdir'
  <2> SUFFICES ASSUME reason = "not found", depth # 1, SidecarOwner = None
               PROVE  /\ run.mode = "static" /\ ~Static
                      /\ \A v \in Required \ {"LOADER", "LIBRARY"} : env[v] # None => Found(env[v])
    BY <1>1 DEF InheritedRuntimeSurvivesChdir, SidecarOwner, Static, Required, Found
  <2>1. stage = "prepare" /\ \E v \in Required : env[v] # None /\ ~Found(env[v])
    BY DEF RefuseNotFound
  <2>2. PICK v \in Required : env[v] # None /\ env[v].form # "absolute"
    BY <2>1 DEF Found
  <2>3. depth > 1
    <3>1. depth \in 0..MaxDepth /\ depth > 0 /\ depth # 1
      BY <1>1 DEF ChainTyped, TypeOK
    <3> QED
      BY <3>1, BeyondOne
  <2>4. \A w \in Required : env[w] # None => env[w].form = "absolute" \/ Unlooked(w)
    BY <1>1, <2>1, <2>3 DEF HandedDown, Published, Inherited
  <2> QED
    BY <2>2, <2>4 DEF Unlooked, Found
<1> QED
  BY <1>3, <1>4, <1>5, <1>6 DEF ChainInv

\* A program spawns a tool, changes directory or loses a variable.
LEMMA ChainRuns ==
  ASSUME ChainInv, Program
  PROVE  ChainInv'
<1>0. /\ stage = "program" /\ why' = why /\ run' = run /\ why = None /\ Inherited
      /\ ChainTyped /\ Paired /\ HandedDown
      /\ SidecarOverridesRuntime /\ RuntimeNeverMixed /\ ControlsConsumedOnce
  BY DEF Program, Spawn, ChangeDirectory, Unset, ChainInv, ChainTyped, TypeOK, Inherited
<1>1. InheritedRuntimeSurvivesChdir'
  BY <1>0, LauncherAssumption DEF InheritedRuntimeSurvivesChdir, Reasons
<1>2. ASSUME NEW t \in Tools, NEW a \in Tools \cup {None}, Spawn(t, a) PROVE ChainInv'
  <2>1. /\ depth < MaxDepth /\ stage' = "sidecar" /\ tool' = t /\ arg' = a /\ depth' = depth + 1
        /\ UNCHANGED <<env, cwd>> /\ depth \in 0..MaxDepth /\ MaxDepth \in Nat
    BY <1>0, <1>2, LauncherAssumption DEF Spawn, ChainTyped, TypeOK
  <2>2. ChainTyped' /\ Paired'
    BY <1>0, <2>1 DEF ChainTyped, TypeOK, Paired
  <2>3. HandedDown'
    <3>1. Published' => Published
      BY <1>0, <2>1 DEF Published
    <3> QED
      BY <1>0, <2>1, <3>1 DEF HandedDown, Unlooked, Required, Static
  <2>4. SidecarApplied'
    BY <2>1 DEF SidecarApplied, Applied
  <2>5. SidecarOverridesRuntime' /\ RuntimeNeverMixed' /\ ControlsConsumedOnce'
    BY <2>1 DEF SidecarOverridesRuntime, RuntimeNeverMixed, ControlsConsumedOnce, Launched, Dynamic
  <2> QED
    BY <1>1, <2>2, <2>3, <2>4, <2>5 DEF ChainInv
<1>3. ASSUME UNCHANGED <<stage, tool, arg, depth>>, cwd' \in {"execroot", "elsewhere"}, DOMAIN env' = Variables,
             \A v \in Variables : env'[v] \in {env[v], None}
      PROVE  ChainInv'
  <2>1. ChainTyped'
    <3>1. \A v \in Variables : None \in Value(v)
      BY ValueOf DEF Variables, RuntimeTriple
    <3>2. \A v \in Variables : env'[v] \in Value(v)
      BY <1>0, <1>3, <3>1 DEF ChainTyped, TypeOK
    <3> QED
      BY <1>0, <1>3, <3>2 DEF ChainTyped, TypeOK
  <2>2. RuntimeTriple \cup {"DECLARED", "COUNT", "ARGV0", "STATIC", "PATH_ENVIRONMENT"} \subseteq Variables
    BY DEF Variables
  <2>3. Paired'
    BY <1>0, <1>3, <2>2 DEF Paired, RuntimeTriple
  <2>4. /\ env'.COUNT \in {env.COUNT, None} /\ env'.ARGV0 \in {env.ARGV0, None}
        /\ env'.PATH_ENVIRONMENT # None => env.PATH_ENVIRONMENT # None
        /\ Static' => Static
    <3>1. env'.STATIC \in {env.STATIC, None} /\ None # "true"
      BY <1>3, <2>2, LauncherAssumption
    <3> QED
      BY <1>3, <2>2, <3>1 DEF Static
  <2>5. /\ Required' \subseteq Required \cup {"LOADER", "LIBRARY"} /\ Required' \subseteq Variables
        /\ ~Static => Required' \subseteq Required
    BY <2>4 DEF Required, Variables, RuntimeTriple
  <2>6. HandedDown'
    <3> SUFFICES ASSUME Published, NEW v \in Required', env'[v] # None
                 PROVE  /\ env'.COUNT \in {0, None} /\ env'.ARGV0 = None /\ (run.mode = "static" \/ ~Static')
                        /\ env'[v].form = "absolute" \/ Unlooked(v)'
      <4>1. Published' <=> Published
        BY <1>3 DEF Published
      <4>2. Published => env'.COUNT \in {0, None} /\ env'.ARGV0 = None /\ (run.mode = "static" \/ ~Static')
        BY <1>0, <2>4 DEF HandedDown
      <4> QED
        BY <1>0, <4>1, <4>2 DEF HandedDown
    <3>1. /\ env.COUNT \in {0, None} /\ env.ARGV0 = None /\ (run.mode = "static" \/ ~Static)
          /\ \A w \in Required : env[w] # None => env[w].form = "absolute" \/ Unlooked(w)
      BY <1>0 DEF HandedDown
    <3>2. env'[v] = env[v] /\ env[v] # None
      BY <1>3, <2>5
    <3>3. Unlooked(v) => Unlooked(v)'
      BY <1>0, <2>4 DEF Unlooked
    <3>4. CASE v \in Required
      BY <2>4, <3>1, <3>2, <3>3, <3>4
    <3>5. CASE v \notin Required
      <4>1. v \in {"LOADER", "LIBRARY"} /\ Static /\ v \in Required'
        BY <2>5, <3>5
      <4>2. ~Static'
        BY <3>5, <4>1, <2>4 DEF Required
      <4> QED
        BY <1>0, <2>4, <3>1, <4>1, <4>2 DEF Unlooked
    <3> QED
      BY <3>4, <3>5
  <2>7. SidecarApplied'
    BY <1>0, <1>3 DEF SidecarApplied, Applied
  <2>8. SidecarOverridesRuntime' /\ RuntimeNeverMixed' /\ ControlsConsumedOnce'
    BY <1>0, <1>3 DEF SidecarOverridesRuntime, RuntimeNeverMixed, ControlsConsumedOnce, Launched, Dynamic
  <2> QED
    BY <1>1, <2>1, <2>3, <2>6, <2>7, <2>8 DEF ChainInv
<1>4. CASE ChangeDirectory
  BY <1>0, <1>3, <1>4 DEF ChangeDirectory, ChainTyped, TypeOK
<1>5. ASSUME NEW v \in Variables, Unset(v) PROVE ChainInv'
  BY <1>0, <1>3, <1>5 DEF Unset, ChainTyped, TypeOK
<1> QED
  BY <1>2, <1>4, <1>5 DEF Program

\* A sidecar is applied over what is at hand.
LEMMA ChainReads ==
  ASSUME ChainInv, ReadSidecar
  PROVE  ChainInv'
<1> DEFINE sidecar == Sidecar[SidecarOwner]
           reset == [env EXCEPT !.STATIC = "false", !.COUNT = 0]
<1>0. /\ stage = "sidecar" /\ SidecarOwner # None /\ stage' = "prepare"
      /\ env' = Assign(sidecar, reset)
      /\ UNCHANGED <<cwd, tool, arg, depth, run, why>>
      /\ ChainTyped /\ Paired /\ HandedDown /\ tool \in Tools /\ TypeOK /\ DOMAIN env = Variables
  BY DEF ReadSidecar, ChainInv, ChainTyped, TypeOK
<1>1. sidecar # Malformed /\ SidecarOK(sidecar)
  BY <1>0, OwnerIs, LauncherAssumption DEF ReadSidecar
<1>2. {"STATIC", "COUNT", "LOADER", "LIBRARY", "ARGV0"} \subseteq Variables
  BY DEF Variables, RuntimeTriple
<1>3. /\ DOMAIN reset = Variables /\ reset.STATIC = "false" /\ reset.COUNT = 0
      /\ \A v \in Variables \ {"STATIC", "COUNT"} : reset[v] = env[v]
  BY <1>0, <1>2
<1> HIDE DEF reset, sidecar
<1>4. /\ DOMAIN env' = Variables
      /\ \A v \in Variables : v \in DOMAIN sidecar => env'[v] = sidecar[v]
      /\ \A v \in Variables : v \notin DOMAIN sidecar => env'[v] = reset[v]
  BY <1>0 DEF Assign
<1>5. SidecarOwner' = SidecarOwner /\ sidecar' = sidecar
  BY <1>0 DEF SidecarOwner, sidecar
<1>6. ChainTyped'
  <2>1. \A v \in Variables : env'[v] \in Value(v)
    <3> TAKE v \in Variables
    <3>1. CASE v \in DOMAIN sidecar
      BY <1>1, <1>4, <3>1 DEF SidecarOK
    <3>2. CASE v \notin DOMAIN sidecar
      <4>1. env'[v] = reset[v]
        BY <1>4, <3>2
      <4>2. CASE v \in {"STATIC", "COUNT"}
        BY <1>3, <4>1, <4>2, ValueOf
      <4>3. CASE v \notin {"STATIC", "COUNT"}
        BY <1>0, <1>3, <4>1, <4>3 DEF TypeOK
      <4> QED
        BY <4>2, <4>3
    <3> QED
      BY <3>1, <3>2
  <2> QED
    BY <1>0, <1>4, <2>1 DEF ChainTyped, TypeOK
<1>7. Paired'
  <2>1. CASE RuntimeTriple \subseteq DOMAIN sidecar /\ sidecar.LOADER.of = sidecar.LIBRARY.of
    BY <1>2, <1>4, <2>1 DEF Paired, RuntimeTriple
  <2>2. CASE {"LOADER", "LIBRARY"} \cap DOMAIN sidecar = {}
    <3>1. env'.LOADER = env.LOADER /\ env'.LIBRARY = env.LIBRARY
      BY <1>2, <1>3, <1>4, <2>2
    <3> QED
      BY <1>0, <3>1 DEF Paired
  <2> QED
    BY <1>1, <2>1, <2>2 DEF SidecarOK
<1>8. HandedDown'
  BY <1>0, <1>5 DEF HandedDown, Inherited
<1>9. SidecarApplied'
  <2>1. DOMAIN sidecar \subseteq Variables
    BY <1>1 DEF SidecarOK
  <2>2. Published' => Published /\ Inherited
    BY <1>0 DEF Published, Inherited
  <2>3. Published' => env.ARGV0 = None
    BY <1>0, <2>2 DEF HandedDown
  <2>4. /\ \A v \in DOMAIN sidecar : env'[v] = sidecar[v]
        /\ "STATIC" \notin DOMAIN sidecar => env'.STATIC = "false"
        /\ "COUNT" \notin DOMAIN sidecar => env'.COUNT = 0
        /\ Published' /\ "ARGV0" \notin DOMAIN sidecar => env'.ARGV0 = None
    BY <1>2, <1>3, <1>4, <2>1, <2>3
  <2> QED
    BY <1>0, <1>1, <1>5, <2>4 DEF SidecarApplied, sidecar
<1>10. SidecarOverridesRuntime' /\ RuntimeNeverMixed' /\ ControlsConsumedOnce'
  BY <1>0 DEF SidecarOverridesRuntime, RuntimeNeverMixed, ControlsConsumedOnce, Launched, Dynamic
<1>11. InheritedRuntimeSurvivesChdir'
  BY <1>0, <1>5 DEF ChainInv, InheritedRuntimeSurvivesChdir
<1> QED
  BY <1>6, <1>7, <1>8, <1>9, <1>10, <1>11 DEF ChainInv

\* A launcher without sidecar goes on with what it inherits.
LEMMA ChainInherits ==
  ASSUME ChainInv, Inherit
  PROVE  ChainInv'
<1>0. /\ stage = "sidecar" /\ SidecarOwner = None /\ stage' = "prepare"
      /\ UNCHANGED <<env, cwd, tool, arg, depth, run, why>>
      /\ ChainTyped /\ Paired /\ HandedDown /\ Inherited
  BY DEF Inherit, ChainInv, Inherited
<1>1. SidecarOwner' = None
  BY <1>0 DEF SidecarOwner
<1>2. ChainTyped' /\ Paired'
  BY <1>0 DEF ChainTyped, TypeOK, Paired
<1>3. HandedDown' /\ SidecarApplied'
  BY <1>0, <1>1 DEF HandedDown, Unlooked, Published, Required, Static, SidecarApplied, Applied
<1>4. SidecarOverridesRuntime' /\ RuntimeNeverMixed' /\ ControlsConsumedOnce'
  BY <1>0 DEF SidecarOverridesRuntime, RuntimeNeverMixed, ControlsConsumedOnce, Launched, Dynamic
<1>5. InheritedRuntimeSurvivesChdir'
  BY <1>0, LauncherAssumption DEF ChainTyped, TypeOK, InheritedRuntimeSurvivesChdir, Reasons
<1> QED
  BY <1>2, <1>3, <1>4, <1>5 DEF ChainInv

\* The fixed arguments of a launch are the sidecar's own, or none when an
\* ancestor has had its turn.
LEMMA FixedAreOwn ==
  ASSUME ChainInv, stage = "prepare", Launchable, depth > 1
  PROVE  LET own == IF SidecarOwner = None THEN <<>> ELSE Sidecar[SidecarOwner] IN
         /\ Len(FixedArguments) = IF "COUNT" \in DOMAIN own THEN own.COUNT ELSE 0
         /\ \A i \in DOMAIN FixedArguments : FixedArguments[i] = own[FixedArg[i]]
         /\ env.ARGV0 # None => "ARGV0" \in DOMAIN own
<1>0. TypeOK /\ tool \in Tools /\ HandedDown /\ SidecarApplied /\ Published
  BY DEF ChainInv, ChainTyped, Published
<1>1. 0 # None /\ 1 # None /\ 2 # None /\ 0 # Malformed /\ 1 # Malformed /\ 2 # Malformed
  BY LauncherAssumption
<1>2. CASE SidecarOwner = None
  <2>1. env.COUNT \in {0, None} /\ env.ARGV0 = None
    BY <1>0, <1>2 DEF HandedDown, Inherited
  <2>2. CASE env.COUNT = None
    <3>1. FixedArguments = <<>>
      BY <2>2 DEF FixedArguments
    <3> QED
      BY <1>2, <2>1, <3>1
  <2>3. CASE env.COUNT = 0
    <3>1. FixedArguments = [i \in 1..0 |-> env[FixedArg[i]]]
      BY <1>1, <2>3 DEF FixedArguments
    <3>2. Len(FixedArguments) = 0 /\ DOMAIN FixedArguments = {}
      BY <3>1
    <3>3. "COUNT" \notin DOMAIN <<>>
      OBVIOUS
    <3> QED
      BY <1>2, <2>1, <3>2, <3>3
  <2> QED
    BY <2>1, <2>2, <2>3
<1>3. CASE SidecarOwner # None
  <2> DEFINE own == Sidecar[SidecarOwner]
  <2>1. /\ own # Malformed /\ \A v \in DOMAIN own : env[v] = own[v]
        /\ "COUNT" \notin DOMAIN own => env.COUNT = 0
        /\ "ARGV0" \notin DOMAIN own => env.ARGV0 = None
    BY <1>0, <1>3 DEF SidecarApplied, Applied
  <2>2. SidecarOK(own)
    BY <1>0, <1>3, <2>1, OwnerIs, LauncherAssumption
  <2> HIDE DEF own
  <2>3. env.COUNT # None
    BY <1>1, <2>1, <2>2 DEF SidecarOK
  <2>4. PICK n \in 0..2 : env.COUNT = n
    BY <1>0, <2>3, LaunchableIs
  <2>5. n = IF "COUNT" \in DOMAIN own THEN own.COUNT ELSE 0
    BY <2>1, <2>4
  <2>6. FixedArguments = [i \in 1..n |-> env[FixedArg[i]]]
    BY <2>3, <2>4 DEF FixedArguments
  <2>7. Len(FixedArguments) = n /\ DOMAIN FixedArguments = 1..n
    BY <2>6
  <2>8. ASSUME NEW i \in 1..n PROVE FixedArguments[i] = own[FixedArg[i]]
    <3>1. "COUNT" \in DOMAIN own /\ i \in 1..2 /\ own.COUNT \in i..2
      BY <2>5
    <3>2. FixedArg[i] \in DOMAIN own
      BY <2>2, <3>1 DEF SidecarOK
    <3> QED
      BY <2>1, <2>6, <3>2
  <2> QED
    BY <1>3, <2>1, <2>5, <2>7, <2>8 DEF own
<1> QED
  BY <1>2, <1>3

\* A sidecar that was read decides over the mode and the runtime.
LEMMA OwnRuntime ==
  ASSUME ChainInv, stage = "prepare", SidecarOwner # None
  PROVE  LET sidecar == Sidecar[SidecarOwner] IN
         /\ Static <=> "STATIC" \in DOMAIN sidecar /\ sidecar.STATIC = "true"
         /\ env.PROGRAM = sidecar.PROGRAM
         /\ ~Static => env.LOADER = sidecar.LOADER /\ env.LIBRARY = sidecar.LIBRARY
<1> DEFINE sidecar == Sidecar[SidecarOwner]
<1>1. /\ sidecar # Malformed /\ \A v \in DOMAIN sidecar : env[v] = sidecar[v]
      /\ "STATIC" \notin DOMAIN sidecar => env.STATIC = "false"
  BY DEF ChainInv, SidecarApplied, Applied
<1>2. SidecarOK(sidecar)
  BY <1>1, OwnerIs, LauncherAssumption DEF ChainInv, ChainTyped
<1> HIDE DEF sidecar
<1>3. Static <=> "STATIC" \in DOMAIN sidecar /\ sidecar.STATIC = "true"
  BY <1>1 DEF Static
<1>4. "PROGRAM" \in DOMAIN sidecar /\ (~Static => "LOADER" \in DOMAIN sidecar /\ "LIBRARY" \in DOMAIN sidecar)
  BY <1>2, <1>3 DEF SidecarOK, RuntimeTriple
<1> QED
  BY <1>1, <1>3, <1>4 DEF sidecar

\* What an exec of either kind leaves to its descendants.
LEMMA ExecPublishes ==
  ASSUME ChainInv, stage = "prepare", stage' = "program", UNCHANGED <<cwd, tool, arg, depth, why>>,
         DOMAIN env' = Variables, Static => run'.mode = "static",
         env'.PROGRAM \in File, env'.PROGRAM.form = "absolute",
         \A v \in {"LOADER", "LIBRARY"} :
           env'[v] = env[v] \/ (~Static /\ env'[v] = Absolute(env[v])),
         ~Static => env'.LOADER = Absolute(env.LOADER) /\ env'.LIBRARY = Absolute(env.LIBRARY),
         \A v \in Variables \ {"LOADER", "LIBRARY", "PROGRAM"} : env'[v] = PreparedEnvironment[v],
         Launchable
  PROVE  ChainTyped' /\ Paired' /\ HandedDown' /\ SidecarApplied' /\ InheritedRuntimeSurvivesChdir'
<1>0. /\ ChainTyped /\ Paired /\ TypeOK /\ DOMAIN env = Variables /\ depth > 0
      /\ InheritedRuntimeSurvivesChdir
  BY DEF ChainInv, ChainTyped, TypeOK
<1>1. Variables = {"LOADER", "LIBRARY", "PROGRAM", "STATIC", "COUNT", "FIXED_ARG_0", "FIXED_ARG_1", "ARGV0",
                   "INHIBIT_CACHE", "PATH_ENVIRONMENT", "DECLARED"}
  BY DEF Variables, RuntimeTriple
<1>2. /\ env'.COUNT = 0 /\ env'.ARGV0 = None
      /\ env'.DECLARED = IF env.PATH_ENVIRONMENT = None THEN env.DECLARED ELSE Absolute(env.DECLARED)
      /\ env'.STATIC = env.STATIC /\ env'.PATH_ENVIRONMENT = env.PATH_ENVIRONMENT
      /\ env'.FIXED_ARG_0 = env.FIXED_ARG_0 /\ env'.FIXED_ARG_1 = env.FIXED_ARG_1
      /\ env'.INHIBIT_CACHE = env.INHIBIT_CACHE
  BY <1>0, <1>1, PreparedIs
<1>3. /\ env.LOADER \in File \cup {None} /\ env.LIBRARY \in File \cup {None}
      /\ env.DECLARED \in File \cup {None}
      /\ env.FIXED_ARG_0 \in Tools \cup {None} /\ env.FIXED_ARG_1 \in Tools \cup {None}
      /\ env.STATIC \in {"true", "false", None, Malformed}
      /\ env.INHIBIT_CACHE \in {"true", "false", None, Malformed}
      /\ env.PATH_ENVIRONMENT \in {"names", None}
  BY <1>0, EnvironmentIs DEF TypeOK
<1>4. /\ env'.LOADER \in File \cup {None} /\ env'.LIBRARY \in File \cup {None} /\ env'.DECLARED \in File \cup {None}
  BY <1>2, <1>3, AbsoluteIs
<1>5. ChainTyped'
  <2>1. \A v \in Variables : env'[v] \in Value(v)
    BY <1>2, <1>3, <1>4, EnvironmentIs
  <2> QED
    BY <1>0, <2>1 DEF ChainTyped, TypeOK
<1>6. Paired'
  <2>1. CASE Static
    BY <1>0, <2>1 DEF Paired
  <2>2. CASE ~Static
    <3>1. env'.LOADER = Absolute(env.LOADER) /\ env'.LIBRARY = Absolute(env.LIBRARY)
      BY <2>2
    <3> QED
      BY <1>0, <1>3, <3>1, AbsoluteIs DEF Paired
  <2> QED
    BY <2>1, <2>2
<1>7. HandedDown'
  <2>1. Required' = Required
    BY <1>2 DEF Required, Static
  <2>2. ASSUME NEW v \in Required, env'[v] # None PROVE env'[v].form = "absolute"
    <3>1. \/ v = "PROGRAM"
          \/ ~Static /\ v \in {"LOADER", "LIBRARY"}
          \/ env.PATH_ENVIRONMENT # None /\ v = "DECLARED"
      BY DEF Required
    <3>2. CASE v = "PROGRAM"
      BY <3>2
    <3>3. CASE ~Static /\ v \in {"LOADER", "LIBRARY"}
      <4>1. env'[v] = Absolute(env[v]) /\ env[v] \in File \cup {None}
        BY <1>3, <3>3
      <4> QED
        BY <2>2, <4>1, AbsoluteIs
    <3>4. CASE env.PATH_ENVIRONMENT # None /\ v = "DECLARED"
      <4>1. env'[v] = Absolute(env[v]) /\ env[v] \in File \cup {None}
        BY <1>2, <1>3, <3>4
      <4> QED
        BY <2>2, <4>1, AbsoluteIs
    <3> QED
      BY <3>1, <3>2, <3>3, <3>4
  <2> QED
    <3>1. Static' <=> Static
      BY <1>2 DEF Static
    <3> QED
      BY <1>2, <2>1, <2>2, <3>1 DEF HandedDown
<1>8. SidecarApplied'
  BY DEF SidecarApplied, Applied
<1>9. InheritedRuntimeSurvivesChdir'
  BY <1>0, LauncherAssumption DEF TypeOK, InheritedRuntimeSurvivesChdir, Reasons
<1> QED
  BY <1>5, <1>6, <1>7, <1>8, <1>9

\* A static program is executed.
LEMMA ChainExecsStatic ==
  ASSUME ChainInv, ExecStatic
  PROVE  ChainInv'
<1>0. /\ stage = "prepare" /\ Launchable /\ Static /\ stage' = "program" /\ env' = PreparedEnvironment
      /\ UNCHANGED <<cwd, tool, arg, depth, why>>
      /\ run' = [mode |-> "static", source |-> SidecarOwner, program |-> env.PROGRAM.of,
                 fixed |-> FixedArguments,
                 argv0 |-> [of |-> env.PROGRAM.of, hidden |-> env.PROGRAM.hidden]]
      /\ TypeOK /\ tool \in Tools
  BY DEF ExecStatic, ChainInv, ChainTyped
<1>1. /\ run'.mode = "static" /\ run'.source = SidecarOwner /\ run'.program = env.PROGRAM.of
      /\ run'.fixed = FixedArguments /\ run'.argv0.of = env.PROGRAM.of
      /\ SidecarOwner' = SidecarOwner
  BY <1>0 DEF SidecarOwner
<1>2. /\ env.PROGRAM \in File /\ Absolute(env.PROGRAM) \in File /\ Absolute(env.PROGRAM).form = "absolute"
  <2>1. env.PROGRAM \in File /\ env.PROGRAM # None
    BY <1>0, LaunchableIs, LauncherAssumption
  <2> QED
    BY <2>1, AbsoluteIs
<1>3. ChainTyped' /\ Paired' /\ HandedDown' /\ SidecarApplied' /\ InheritedRuntimeSurvivesChdir'
  <2>1. {"LOADER", "LIBRARY", "PROGRAM"} \subseteq Variables
    BY DEF Variables, RuntimeTriple
  <2>2. DOMAIN env' = Variables /\ env'.PROGRAM = Absolute(env.PROGRAM)
        /\ env'.LOADER = env.LOADER /\ env'.LIBRARY = env.LIBRARY
    BY <1>0, <2>1, PreparedIs
  <2> QED
    BY <1>0, <1>2, <2>2, ExecPublishes
<1>4. SidecarOverridesRuntime'
  BY <1>0, <1>1, OwnRuntime DEF SidecarOverridesRuntime
<1>5. RuntimeNeverMixed'
  BY <1>1 DEF RuntimeNeverMixed, Dynamic
<1>6. ControlsConsumedOnce'
  BY <1>0, <1>1, FixedAreOwn DEF ControlsConsumedOnce
<1> QED
  BY <1>3, <1>4, <1>5, <1>6 DEF ChainInv

\* A program is executed through the loader of its runtime.
LEMMA ChainExecsDynamic ==
  ASSUME ChainInv, ExecDynamic
  PROVE  ChainInv'
<1>0. /\ stage = "prepare" /\ Launchable /\ ~Static /\ stage' = "program"
      /\ env' = [PreparedEnvironment EXCEPT !.LOADER = Absolute(@),
                                            !.LIBRARY = Absolute(@),
                                            !.PROGRAM = SelectedProgram]
      /\ UNCHANGED <<cwd, tool, arg, depth, why>>
      /\ run' = [mode |-> "dynamic", source |-> SidecarOwner, program |-> SelectedProgram.of,
                 fixed |-> FixedArguments, argv0 |-> SelectedArgv0,
                 loader |-> env.LOADER.of, library |-> env.LIBRARY.of,
                 inhibitCache |-> env.INHIBIT_CACHE = "true"]
      /\ TypeOK /\ tool \in Tools /\ Paired
  BY DEF ExecDynamic, ChainInv, ChainTyped
<1>1. /\ run'.mode = "dynamic" /\ run'.source = SidecarOwner /\ run'.program = SelectedProgram.of
      /\ run'.fixed = FixedArguments /\ run'.argv0 = SelectedArgv0
      /\ run'.loader = env.LOADER.of /\ run'.library = env.LIBRARY.of
      /\ SidecarOwner' = SidecarOwner
  BY <1>0 DEF SidecarOwner
<1>2. /\ env.PROGRAM \in File /\ env.LOADER \in File /\ env.LIBRARY \in File
      /\ SelectedProgram \in File /\ SelectedProgram.form = "absolute"
      /\ SelectedProgram.of = IF tool \in Real THEN tool ELSE env.PROGRAM.of
  BY <1>0, LaunchableIs, SelectedIs
<1>3. ChainTyped' /\ Paired' /\ HandedDown' /\ SidecarApplied' /\ InheritedRuntimeSurvivesChdir'
  <2>1. {"LOADER", "LIBRARY", "PROGRAM"} \subseteq Variables
    BY DEF Variables, RuntimeTriple
  <2>2. /\ DOMAIN PreparedEnvironment = Variables
        /\ PreparedEnvironment.LOADER = env.LOADER /\ PreparedEnvironment.LIBRARY = env.LIBRARY
    BY <1>0, <2>1, PreparedIs
  <2>3. /\ DOMAIN env' = Variables /\ env'.PROGRAM = SelectedProgram
        /\ env'.LOADER = Absolute(env.LOADER) /\ env'.LIBRARY = Absolute(env.LIBRARY)
        /\ \A v \in Variables \ {"LOADER", "LIBRARY", "PROGRAM"} : env'[v] = PreparedEnvironment[v]
    BY <1>0, <2>1, <2>2
  <2> QED
    BY <1>0, <1>2, <2>3, ExecPublishes
<1>4. SidecarOverridesRuntime'
  BY <1>0, <1>1, <1>2, OwnRuntime DEF SidecarOverridesRuntime
<1>5. RuntimeNeverMixed'
  <2>1. env.LOADER # None /\ env.LIBRARY # None
    BY <1>2, LauncherAssumption
  <2> QED
    BY <1>0, <1>1, <2>1 DEF RuntimeNeverMixed, Paired
<1>6. ControlsConsumedOnce'
  <2>1. SelectedArgv0.of # SelectedProgram.of => env.ARGV0 # None
    <3> SUFFICES ASSUME env.ARGV0 = None PROVE SelectedArgv0.of = SelectedProgram.of
      OBVIOUS
    <3>1. SelectedProgram # Absolute(env.PROGRAM) => SelectedProgram.of = tool
      BY <1>2 DEF SelectedProgram
    <3> QED
      BY <3>1 DEF SelectedArgv0
  <2> QED
    BY <1>0, <1>1, <2>1, FixedAreOwn DEF ControlsConsumedOnce
<1> QED
  BY <1>3, <1>4, <1>5, <1>6 DEF ChainInv

\* Every step keeps the invariant.
LEMMA ChainStep == ChainInv /\ [Next]_vars => ChainInv'
<1> SUFFICES ASSUME ChainInv, [Next]_vars PROVE ChainInv'
  OBVIOUS
<1>1. CASE Program
  BY <1>1, ChainRuns
<1>2. CASE Launcher
  <2>0. Reasons = {"owner", "sidecar", "incomplete", "malformed", "required", "not found", "program"}
    BY DEF Reasons
  <2>1. CASE RefuseOwner
    BY <2>0, <2>1, ChainRefuses DEF RefuseOwner
  <2>2. CASE ReadSidecar
    BY <2>2, ChainReads
  <2>3. CASE RefuseSidecar
    BY <2>0, <2>3, ChainRefuses DEF RefuseSidecar
  <2>4. CASE Inherit
    BY <2>4, ChainInherits
  <2>5. CASE RefuseInheritance
    BY <2>0, <2>5, ChainRefuses DEF RefuseInheritance
  <2>6. CASE RefuseMalformed
    BY <2>0, <2>6, ChainRefuses DEF RefuseMalformed
  <2>7. CASE RefuseMissing
    BY <2>0, <2>7, ChainRefuses DEF RefuseMissing
  <2>8. CASE RefuseNotFound
    <3>1. GiveUp("not found") /\ stage = "prepare" /\ "not found" \in Reasons
      BY <2>0, <2>8 DEF RefuseNotFound
    <3> QED
      BY <2>8, <3>1, ChainRefuses
  <2>9. CASE RefuseProgram
    BY <2>0, <2>9, ChainRefuses DEF RefuseProgram
  <2>10. CASE ExecStatic
    BY <2>10, ChainExecsStatic
  <2>11. CASE ExecDynamic
    BY <2>11, ChainExecsDynamic
  <2> QED
    BY <1>2, <2>1, <2>2, <2>3, <2>4, <2>5, <2>6, <2>7, <2>8, <2>9, <2>10, <2>11 DEF Launcher
<1>3. CASE UNCHANGED vars
  <2>1. UNCHANGED <<stage, env, cwd, tool, arg, depth, run, why>> /\ SidecarOwner' = SidecarOwner
    BY <1>3 DEF vars, SidecarOwner
  <2>2. ChainTyped' /\ Paired' /\ HandedDown' /\ SidecarApplied'
    BY <2>1 DEF ChainInv, ChainTyped, TypeOK, Paired, HandedDown, Unlooked, Published, Inherited, Required, Static,
                SidecarApplied, Applied
  <2>3. SidecarOverridesRuntime' /\ RuntimeNeverMixed' /\ ControlsConsumedOnce' /\ InheritedRuntimeSurvivesChdir'
    BY <2>1 DEF ChainInv, SidecarOverridesRuntime, RuntimeNeverMixed, ControlsConsumedOnce,
                InheritedRuntimeSurvivesChdir, Launched, Dynamic, SidecarOwner, Static, Required, Found
  <2> QED
    BY <2>2, <2>3 DEF ChainInv
<1> QED
  BY <1>1, <1>2, <1>3 DEF Next

-----------------------------------------------------------------------------
(* The theorems.                                                           *)

\* Chains of launches of any depth keep the invariant.
LEMMA ChainInvariant == Spec => []ChainInv
  BY ChainInit, ChainStep, PTL DEF Spec

\* Every environment of a chain is well formed, and a launcher that gives up
\* has a reason (main.go of runtime_launcher).
THEOREM TypeCorrect == Spec => []TypeOK
<1>1. ChainInv => TypeOK
  BY DEF ChainInv, ChainTyped
<1> QED
  BY <1>1, ChainInvariant, PTL

\* The mode, the loader, the libraries and the program of a tool with a sidecar
\* are the sidecar's, whatever the ancestors were (environmentWithSidecar).
THEOREM SidecarDecides == Spec => []SidecarOverridesRuntime
<1>1. ChainInv => SidecarOverridesRuntime
  BY DEF ChainInv
<1> QED
  BY <1>1, ChainInvariant, PTL

\* No chain of launches and lost variables pairs the loader of one runtime
\* with the libraries of another (environmentWithSidecar, prepare).
THEOREM LoaderKeepsItsLibraries == Spec => []RuntimeNeverMixed
<1>1. ChainInv => RuntimeNeverMixed
  BY DEF ChainInv
<1> QED
  BY <1>1, ChainInvariant, PTL

\* A nested launch takes fixed arguments and an explicit argv[0] from its own
\* sidecar or has none (consumeInvocationControls).
THEOREM ControlsAreConsumed == Spec => []ControlsConsumedOnce
<1>1. ChainInv => ControlsConsumedOnce
  BY DEF ChainInv
<1> QED
  BY <1>1, ChainInvariant, PTL

\* A nested launch that inherits its runtime finds it from any directory
\* (absoluteBeforeChdir, resolvePathEnvironment), but for the loader and the
\* libraries of a program that has lost STATIC below a static launch.
THEOREM InheritedIsFound == Spec => []InheritedRuntimeSurvivesChdir
<1>1. ChainInv => InheritedRuntimeSurvivesChdir
  BY DEF ChainInv
<1> QED
  BY <1>1, ChainInvariant, PTL
=============================================================================
