---------------------------- MODULE MCEnvMirror ----------------------------
EXTENDS EnvMirror

\* 1.0.0, 1.0.0.1, which ocx cannot parse, and 1.1.0.
MCVersions == 1..3
MCSemver == {1, 3}

\* One platform with an environment per libc.
Glibc == [base |-> "linux/amd64", libc |-> "glibc"]
Musl == [base |-> "linux/amd64", libc |-> "musl"]
Plain == [base |-> "linux/arm64", libc |-> "none"]
Native == [base |-> "linux/arm64", libc |-> "native"]
DualKeys == <<Glibc, Musl, Plain>>
DualLegs == {Glibc, Musl, Native}
DualWheels == <<{"pure", "gnu"}, {"pure"}, {"pure"}>>
=============================================================================
