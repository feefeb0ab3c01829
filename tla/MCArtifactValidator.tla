------------------------- MODULE MCArtifactValidator -------------------------
(* Jobs of the four modes: sound artifacts and artifacts that fail at each   *)
(* kind of check, an SDK staged from two versions of its inputs, files sent  *)
(* to one place, and arguments and declared files that must be refused.      *)
EXTENDS ArtifactValidator

Empty ==
  [mode |-> "elf-closure", programs |-> <<>>, runtime |-> <<>>, headers |-> <<>>,
   pkgconfig |-> <<>>, host |-> "amd64", arch |-> "amd64", emulator |-> FALSE, holds |-> {}]

Closures == [Empty EXCEPT !.programs = <<"bash", "make">>]
OpenSsl == [Empty EXCEPT !.mode = "openssl"]
All ==
  {<<"closure", "bash">>, <<"closure", "make">>, <<"closure", "openssl">>, <<"closure", "fips.so">>,
   <<"machine", "openssl">>, <<"machine", "fips.so">>, <<"fipsinstall", "fips.so">>, <<"providers", "openssl">>}
AllOf(j) == [j EXCEPT !.holds = All]
But(j, c) == [j EXCEPT !.holds = All \ {c}]

Runtime(f, n) == [from |-> f, name |-> n, base |-> TRUE]
Declared(n) == [name |-> n, inside |-> TRUE]
Loader == Runtime("musl", "ld-runtime.so.1")
Sdk ==
  [Empty EXCEPT !.mode = "stage-crypto-sdk", !.runtime = <<Loader>>,
                !.headers = <<Declared("aes.h")>>, !.pkgconfig = <<Declared("libcrypto.pc")>>]
Runtimes == [Empty EXCEPT !.mode = "stage-runtime", !.runtime = <<Loader, Runtime("libc", "libc.so.6")>>]

MCJobs ==
  {AllOf(Closures), But(Closures, <<"closure", "make">>),
   AllOf(OpenSsl), But(OpenSsl, <<"machine", "fips.so">>), But(OpenSsl, <<"providers", "openssl">>),
   AllOf([OpenSsl EXCEPT !.arch = "arm64"]),
   Sdk,
   [Sdk EXCEPT !.headers = <<Declared("evp.h")>>, !.runtime = <<Runtime("glibc", "ld-runtime.so.1"), Runtime("libc", "libc.so.6")>>],
   [Sdk EXCEPT !.runtime = <<Runtime("libc", "libcrypto.a")>>],
   [Sdk EXCEPT !.headers = <<Declared("aes.h"), [name |-> "outside.h", inside |-> FALSE]>>],
   [Sdk EXCEPT !.runtime = <<[Loader EXCEPT !.base = FALSE]>>],
   [Sdk EXCEPT !.pkgconfig = <<>>],
   Runtimes}

MCPlaces ==
  {Elsewhere} \cup UNION {{t.to : t \in Range(Tasks[j])} : j \in MCJobs}
=============================================================================
