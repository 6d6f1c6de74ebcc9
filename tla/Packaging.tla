----------------------------- MODULE Packaging -----------------------------
(***************************************************************************)
(* The two install scripts of the npm package (src/stax_js):               *)
(*   prebuild.js, run on a build machine before publishing, compiles the   *)
(*   native module and stages it under prebuilds/<platformDir>/;           *)
(*   postinstall.js, run on the user's machine by `npm install`, either    *)
(*   compiles from source (binding.gyp present) or copies                  *)
(*   prebuilds/<platform>/staxdb.node into build/Release/.                 *)
(* The package is published after prebuild.js has run on any number of    *)
(* build machines (prebuilds/ is never cleaned, only build/), and is then  *)
(* installed on any machine.  The two scripts name a platform each in its  *)
(* own way; the names are modelled as the strings the code puts together.  *)
(*                                                                         *)
(* `ldd --version` is an external program: what execSync makes of it is a  *)
(* choice among LddResults(m) (a glibc ldd prints its GNU banner; a musl   *)
(* ldd may print "musl" on stdout, or print to stderr and exit non-zero,   *)
(* which makes execSync throw).  Compilation may succeed or fail.          *)
(***************************************************************************)
EXTENDS Naturals, Sequences

CONSTANTS
    Machines    \* [os, arch, libc] of build and install machines

VARIABLES
    prebuilds,  \* the directory names under prebuilds/ in the package
    built,      \* the machines whose binary prebuild.js has staged
    published,  \* TRUE once the package has been published
    last        \* <<the outcome of the last postinstall.js run>>, or <<>>

vars == <<prebuilds, built, published, last>>

\* What execSync('ldd --version') gives on machine m: "gnu" (stdout holds
\* the glibc banner), "musl" (stdout names musl) or "throws".
LddResults(m) ==
    CASE m.libc = "glibc" -> {"gnu"}
      [] m.libc = "musl"  -> {"musl", "throws"}
      [] OTHER            -> {"throws"}

\* lddOutput.includes('musl'), with a throw caught and ignored.
SaysMusl(ldd) == ldd = "musl"

---------------------------------------------------------------------------
(* prebuild.js                                                             *)

\* Step 3: `${os.platform()}-${os.arch()}`, with "-musl" appended on a
\* Linux whose ldd says musl.
PlatformDir(m, ldd) ==
    m.os \o "-" \o m.arch
        \o (IF m.os = "linux" /\ SaysMusl(ldd) THEN "-musl" ELSE "")

\* The whole script on build machine m: clean build/, npm install and
\* node-gyp rebuild (a failure is caught: exit 1, nothing staged), then
\* mkdir -p prebuilds/<platformDir> and copy the binary there.
Prebuild(m, ldd, compiles) ==
    /\ ~published
    /\ \/ /\ compiles
          /\ prebuilds' = prebuilds \cup {PlatformDir(m, ldd)}
          /\ built' = built \cup {m}
       \/ /\ ~compiles
          /\ UNCHANGED <<prebuilds, built>>
    /\ UNCHANGED <<published, last>>

\* `npm publish`: the package, prebuilds/ included, is frozen.
Publish ==
    /\ ~published
    /\ published' = TRUE
    /\ UNCHANGED <<prebuilds, built, last>>

---------------------------------------------------------------------------
(* postinstall.js                                                          *)

Unsupported == "unsupported"

\* getPlatformIdentifier(): the four names the script knows; any other
\* os/arch throws "Unsupported platform".
PlatformIdentifier(m, ldd) ==
    CASE m.os = "win32"  /\ m.arch = "x64"   -> "win32-x64"
      [] m.os = "darwin" /\ m.arch = "x64"   -> "darwin-x64"
      [] m.os = "darwin" /\ m.arch = "arm64" -> "darwin-arm64"
      [] m.os = "linux"  /\ m.arch = "x64"   ->
            IF SaysMusl(ldd) THEN "linux-x64-musl" ELSE "linux-x64-glibc"
      [] OTHER -> Unsupported

Outcome(m, exit, from) == [machine |-> m, exit |-> exit, from |-> from]

\* The whole script on install machine m.  With binding.gyp in the package
\* it runs node-gyp rebuild and exits 0 or 1.  Otherwise findAndCopyBinary:
\* an unsupported platform throws and is caught (exit 1); a missing
\* prebuilds/<platform>/staxdb.node exits 1; else the binary is copied to
\* build/Release and the script ends with exit 0.
Postinstall(m, ldd, hasGyp, compiles) ==
    /\ published
    /\ LET platform == PlatformIdentifier(m, ldd) IN
       last' = <<CASE hasGyp -> Outcome(m, IF compiles THEN 0 ELSE 1, "source")
                 [] platform = Unsupported -> Outcome(m, 1, "none")
                 [] platform \notin prebuilds -> Outcome(m, 1, "none")
                 [] OTHER -> Outcome(m, 0, platform)>>
    /\ UNCHANGED <<prebuilds, built, published>>

---------------------------------------------------------------------------

Init ==
    /\ prebuilds = {}
    /\ built = {}
    /\ published = FALSE
    /\ last = <<>>

Next ==
    \/ Publish
    \/ \E m \in Machines, compiles \in BOOLEAN :
          \E ldd \in LddResults(m) :
              \/ Prebuild(m, ldd, compiles)
              \/ \E hasGyp \in BOOLEAN : Postinstall(m, ldd, hasGyp, compiles)

Spec == Init /\ [][Next]_vars

---------------------------------------------------------------------------
(* Properties                                                              *)

TypeOK ==
    /\ built \subseteq Machines
    /\ published \in BOOLEAN
    /\ \A k \in DOMAIN last : last[k].exit \in {0, 1}

\* The package is "distributed with binaries" (postinstall.js): an install
\* from pre-compiled binaries on a machine for which prebuild.js has staged
\* a binary finds that binary and succeeds.
InstallFindsPublishedBinary ==
    \A k \in DOMAIN last :
        (last[k].machine \in built /\ last[k].from # "source") => last[k].exit = 0
===========================================================================
