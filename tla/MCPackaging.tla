---------------------------- MODULE MCPackaging ----------------------------
(***************************************************************************)
(* Model-checking instance of Packaging: the platforms postinstall.js      *)
(* names, both Linux C libraries, and one platform it does not name.       *)
(***************************************************************************)
EXTENDS Packaging

MCMachines ==
    { [os |-> "linux",  arch |-> "x64",   libc |-> "glibc"],
      [os |-> "linux",  arch |-> "x64",   libc |-> "musl"],
      [os |-> "linux",  arch |-> "arm64", libc |-> "glibc"],
      [os |-> "darwin", arch |-> "arm64", libc |-> "none"],
      [os |-> "win32",  arch |-> "x64",   libc |-> "none"] }
===========================================================================
