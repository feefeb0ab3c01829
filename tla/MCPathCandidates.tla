--------------------------- MODULE MCPathCandidates ---------------------------
(* An execution root with a runfiles tree of links, a runfiles tree of       *)
(* copies, each with an output of another repository, tools of one name in   *)
(* all of them and outside, and PATHs that are relative, ambiguous, empty,   *)
(* or run through a file.                                                    *)
EXTENDS PathCandidates

ER == <<"/", "er">>
Bin == <<"bazel-out", "cfg", "bin">>
Links == ER \o Bin \o <<"cc.runfiles">>
Copies == <<"/", "copy", "t.runfiles">>
MCTrees == {"cc.runfiles", "t.runfiles"}

Lib == Bin \o <<"lib">>
Emu == <<"external", "repo", "emu">>
Out == Bin \o <<"external", "repo", "out">>
Data == <<"share", "data">>

Plain(path, x, c) == [path |-> path, exec |-> x, content |-> c, real |-> path]
Link(path, x, c, to) == [path |-> path, exec |-> x, content |-> c, real |-> to]
All ==
  {Plain(ER \o Bin \o <<"cc">>, TRUE, "cc"), Plain(ER \o Lib, FALSE, "lib"),
   Plain(ER \o Emu, TRUE, "emu"), Plain(ER \o Data, FALSE, "data"), Plain(ER \o Out, FALSE, "out"),
   Plain(ER \o <<"tools", "cc">>, TRUE, "host"), Plain(<<"/", "away", "tools", "cc">>, TRUE, "other"),
   Plain(<<"/", "opt", "cc">>, TRUE, "opt"), Plain(<<"/", "opt", "bin", "cc">>, FALSE, "text"),
   Link(Links \o <<"_main", "cc">>, TRUE, "cc", ER \o Bin \o <<"cc">>),
   Link(Links \o <<"_main", "tools", "cc">>, TRUE, "host", ER \o <<"tools", "cc">>),
   Link(Links \o <<"_main", "lib">>, FALSE, "lib", ER \o Lib),
   Link(Links \o <<"repo", "emu">>, TRUE, "emu", ER \o Emu),
   Link(Links \o <<"repo", "out">>, FALSE, "out", ER \o Out),
   Plain(Copies \o <<"_main", "cc">>, TRUE, "cc"), Plain(Copies \o <<"_main", "lib">>, FALSE, "lib"),
   Plain(Copies \o <<"repo", "emu">>, TRUE, "emu"), Plain(Copies \o <<"repo", "out">>, FALSE, "out"),
   Plain(Copies \o <<"_main", "share", "data">>, FALSE, "data")}
MCFiles ==
  [p \in {f.path : f \in All} |->
     LET f == CHOOSE g \in All : g.path = p IN [exec |-> f.exec, content |-> f.content, real |-> f.real]]

MCMeans == (Lib :> "lib") @@ (Emu :> "emu") @@ (Out :> "out") @@ (Data :> "data")
Given(file, argument, foreign, names) ==
  [file |-> file, emulator |-> Emu, argument |-> argument, foreign |-> foreign, names |-> names]
MCConfigs ==
  {Given(Lib, Emu, TRUE, TRUE), Given(Data, Lib, FALSE, FALSE), Given(Emu, Data, TRUE, FALSE),
   Given(Out, Out, FALSE, FALSE)}
Tools == <<"tools">>
Opt == <<"/", "opt">>
MCPaths ==
  {<<>>, <<<<>>, Opt>>, <<Data, Bin>>, <<Tools, Tools>>, <<Tools, Bin>>, <<Opt, Tools>>,
   <<Tools, Links \o <<"_main">>>>, <<Bin, Opt \o <<"bin">>>>, <<Opt \o <<"bin">>, Opt>>,
   <<Copies \o <<"_main">>>>, <<Bin, <<"/", "none">>>>}
MCDirs == {ER, <<"/", "away">>, Links \o <<"_main">>, Copies \o <<"_main">>}
MCRunfiles == {Links, Copies}
=============================================================================
