--------------------------- MODULE MCForeignBuild ---------------------------
(* Builds of two targets with file and directory outputs, and builds that   *)
(* cannot succeed: no target, an empty one, a refused entry, an entry no    *)
(* target installs, two outputs at one destination, paths that lead out.     *)
EXTENDS ForeignBuild

CONSTANTS lib, bin, include

Output(p, k, t) == [path |-> p, kind |-> k, by |-> t, local |-> TRUE]
Two == <<"target", "target">>
Library == Output(lib, "file", 1)

Build(ts, es) == [targets |-> ts, entries |-> es, paths |-> {"inside"}]

MCConfigs ==
  {Build(Two, <<Library, Output(bin, "file", 2)>>),
   Build(Two, <<Output(include, "dir", 2), Library, Output(bin, "link", 2)>>),
   Build(<<>>, <<Library>>),
   Build(<<"target", "">>, <<Library>>),
   Build(Two, <<Library, Output(bin, "bad link", 2)>>),
   Build(Two, <<Library, Output(bin, "other", 2)>>),
   Build(Two, <<Library, Output(bin, "file", 3)>>),
   Build(Two, <<Library, Output(lib, "file", 2)>>),
   Build(Two, <<Output(lib, "dir", 1), Output(lib, "dir", 2)>>),
   [Build(Two, <<Library>>) EXCEPT !.paths = {"inside", "outside"}],
   Build(Two, <<Library, [Output(bin, "file", 2) EXCEPT !.local = FALSE]>>),
   Build(Two, <<>>)}
=============================================================================
