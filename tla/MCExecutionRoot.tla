--------------------------- MODULE MCExecutionRoot ---------------------------
(* Every kind of launcher, a musl tool under a name it refuses, directories  *)
(* in and out of the output tree, a root of links, arguments of every        *)
(* rewritten form and of another (-Iexternal/include), and executables that  *)
(* are absolute, relative to the root, and absent.                           *)
EXTENDS ExecutionRoot

MCRoot == <<"/", "root">>
MCOrigin == <<"/", "origin">>
MCDirs == {MCRoot, MCRoot \o <<"bazel-out", "build">>, MCRoot \o <<"source">>, <<"/", "tmp">>}
At(name, k) == [path |-> <<"bazel-out", "bin", name>>, kind |-> k]
MCLaunchers ==
  {At("bash", "bash"), At("make", "make"), At("sh", "busybox"), At("erl", "exec"),
   At("clang", "musl"), At("cc", "musl"),
   [path |-> <<"bazel-out", "bin", "bazel-out", "ar">>, kind |-> "musl"]}
MCArguments ==
  {<<>>,
   <<[form |-> "joined", path |-> <<"external", "sysroot">>],
     [form |-> "following", path |-> <<"bazel-out", "include">>],
     [form |-> "archive", path |-> <<"external", "libz.a">>],
     [form |-> "joined", path |-> <<"lib">>],
     [form |-> "other", path |-> <<"external", "include">>]>>}
MCExecutables == {MCRoot \o Embedded("exec"), Embedded("exec"), <<"/", "absent">>}
=============================================================================
