-------------------------- MODULE MCRuntimeLauncher --------------------------
(* One tool of each shape: glibc and musl tools and a static tool as        *)
(* hermetic_runtime_tool writes their sidecars, an escript with the sidecar *)
(* an OTP rule writes (no COUNT, an ARGV0), a frontend with a .real-        *)
(* sibling and no sidecar, and a tool with a broken sidecar.                *)
EXTENDS RuntimeLauncher, TLC

MCTools == {"glibc", "musl", "static", "escript", "frontend", "broken"}

RelativeTo(t) == [of |-> t, hidden |-> FALSE, form |-> "relative"]
Runtime(t) == [LOADER |-> RelativeTo(t), LIBRARY |-> RelativeTo(t), PROGRAM |-> RelativeTo(t)]

MCSidecar ==
  "glibc" :> (Runtime("glibc") @@ [COUNT |-> 1, FIXED_ARG_0 |-> "glibc",
                                   PATH_ENVIRONMENT |-> "names",
                                   DECLARED |-> RelativeTo("glibc")])
  @@ "musl" :> (Runtime("musl") @@ [COUNT |-> 0])
  @@ "static" :> [STATIC |-> "true", PROGRAM |-> RelativeTo("static"), COUNT |-> 2,
                  FIXED_ARG_0 |-> "static", FIXED_ARG_1 |-> "static"]
  @@ "escript" :> (Runtime("escript") @@ [ARGV0 |-> "escript"])
  @@ "frontend" :> None
  @@ "broken" :> Malformed

Empty == [v \in Variables |-> None]

\* The wrapper environment an SDK gives a glibc consumer, started with
\* explicit controls, or with a variable missing or malformed; and nothing.
Wrapper == Assign(Runtime("glibc") @@ [INHIBIT_CACHE |-> "true"], Empty)
MCConsumerEnv == {Wrapper}
MCStartEnvs ==
  {Empty, Wrapper,
   [Wrapper EXCEPT !.COUNT = 2, !.FIXED_ARG_0 = "musl", !.FIXED_ARG_1 = "musl",
                   !.ARGV0 = "musl"],
   [Wrapper EXCEPT !.COUNT = 2, !.FIXED_ARG_0 = "musl"],
   [Wrapper EXCEPT !.LIBRARY = None],
   [Wrapper EXCEPT !.STATIC = Malformed],
   [Wrapper EXCEPT !.INHIBIT_CACHE = Malformed]}
=============================================================================
