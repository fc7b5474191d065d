----------------------------- MODULE ControlFile -----------------------------
(***************************************************************************)
(* How settings get from the web console to the simulator: write_control() *)
(* of tools/smartair2_simulator/console/haier_v1_console.py, whose server  *)
(* runs each request in a thread of its own, and the reading side of       *)
(* load_control() in smartair2_sim_control.cpp.                            *)
(*                                                                         *)
(* Each request writes the file <control>.tmp and renames it to <control>. *)
(* Opening the path for writing truncates the file that has that name; the *)
(* text gets into it when it is closed.  An open file stays the same file  *)
(* when its name changes.  Times of files are compared in whole seconds.   *)
(***************************************************************************)
EXTENDS Integers, FiniteSets

CONSTANTS
  Thread,    \* threads of the console's server
  Posts,     \* bound: requests in all
  Seconds,   \* bound: the clock stops there
  MinGap,    \* seconds between the text of a request and the next request
  None

ASSUME BoundsAssumption == Posts \in Nat /\ Seconds \in Nat \ {0} /\ MinGap \in Nat
\* None is no file: files are numbered.
ASSUME NoneAssumption == None \notin Nat

\* A file is named by the request that created it, and so is a text.
File == 1 .. Posts
Empty == 0

VARIABLES
  clock,
  text, mtime,   \* of every file
  tmp, ctl,      \* the files of the two names, or None
  posts,         \* requests begun
  step, post, fd,   \* of every thread: where it is, its request, its open file
  control_mtime, \* rt.control_mtime
  reading,       \* load_control has read the time and not yet the text
  applied,       \* the request whose settings the simulator has
  \* history
  overlapped,    \* two requests were carried out at the same time
  failed, torn   \* a rename found no file; a file was read before its text

console == <<tmp, ctl, text, mtime, posts, step, post, fd>>
simulator == <<control_mtime, reading, applied>>
file_vars == <<clock, console, simulator, overlapped, failed, torn>>

-----------------------------------------------------------------------------
(* write_control()                                                         *)

LastWrite == CHOOSE s \in 0 .. Seconds :
               /\ \A f \in File : mtime[f] <= s
               /\ s = 0 \/ \E f \in File : mtime[f] = s

\* Mutant: the control file itself is opened.
OpenInPlace(t) ==
  LET f == IF ctl = None THEN posts + 1 ELSE ctl
  IN  ctl' = f /\ fd' = [fd EXCEPT ![t] = f] /\ tmp' = f

\* open(tmp, "w")
Open(t) ==
  LET f == IF tmp = None THEN posts + 1 ELSE tmp
  IN  tmp' = f /\ fd' = [fd EXCEPT ![t] = f] /\ UNCHANGED ctl

Begin(t) ==
  /\ step[t] = "ready" /\ posts < Posts
  /\ posts = 0 \/ clock >= LastWrite + MinGap
  /\ Open(t)
  /\ posts' = posts + 1
  /\ post' = [post EXCEPT ![t] = posts + 1]
  /\ step' = [step EXCEPT ![t] = "write"]
  /\ text' = [text EXCEPT ![fd'[t]] = Empty]
  /\ mtime' = [mtime EXCEPT ![fd'[t]] = clock]
  /\ overlapped' = (overlapped \/ \E u \in Thread : step[u] # "ready")
  /\ UNCHANGED <<clock, simulator, failed, torn>>

Write(t) ==
  /\ step[t] = "write"
  /\ step' = [step EXCEPT ![t] = "replace"]
  /\ text' = [text EXCEPT ![fd[t]] = post[t]]
  /\ mtime' = [mtime EXCEPT ![fd[t]] = clock]
  /\ UNCHANGED <<clock, tmp, ctl, posts, post, fd, simulator, overlapped, failed, torn>>

\* Mutant: the file keeps its temporary name, as with os.link.
ReplaceByLink(t) ==
  /\ step[t] = "replace"
  /\ step' = [step EXCEPT ![t] = "ready"]
  /\ ctl' = IF tmp = None THEN ctl ELSE tmp
  /\ failed' = (failed \/ tmp = None)
  /\ UNCHANGED <<clock, tmp, text, mtime, posts, post, fd, simulator, overlapped, torn>>

\* os.replace: it takes the file that has the name now.
Replace(t) ==
  /\ step[t] = "replace"
  /\ step' = [step EXCEPT ![t] = "ready"]
  /\ tmp' = None
  /\ ctl' = IF tmp = None THEN ctl ELSE tmp
  /\ failed' = (failed \/ tmp = None)
  /\ UNCHANGED <<clock, text, mtime, posts, post, fd, simulator, overlapped, torn>>

Console(t) == Begin(t) \/ Write(t) \/ Replace(t)

-----------------------------------------------------------------------------
(* load_control()                                                          *)

\* Mutant: the times are compared in units of two seconds.
CoarselyNewer == ctl # None /\ mtime[ctl] \div 2 # control_mtime \div 2

Newer == ctl # None /\ mtime[ctl] # control_mtime

Stat ==
  /\ ~reading /\ Newer
  /\ control_mtime' = mtime[ctl]
  /\ reading' = TRUE
  /\ UNCHANGED <<clock, console, applied, overlapped, failed, torn>>

\* A text that is not there yet has no key, so nothing is applied.
Read ==
  /\ reading
  /\ reading' = FALSE
  /\ applied' = IF text[ctl] = Empty THEN applied ELSE text[ctl]
  /\ torn' = (torn \/ text[ctl] = Empty)
  /\ UNCHANGED <<clock, console, control_mtime, overlapped, failed>>

Tick ==
  /\ clock < Seconds
  /\ clock' = clock + 1
  /\ UNCHANGED <<console, simulator, overlapped, failed, torn>>

\* The clock starts at 1: control_mtime = 0 is the time of no file.
FileInit ==
  /\ clock = 1
  /\ text = [f \in File |-> Empty] /\ mtime = [f \in File |-> 0]
  /\ tmp = None /\ ctl = None
  /\ posts = 0
  /\ step = [t \in Thread |-> "ready"]
  /\ post = [t \in Thread |-> None] /\ fd = [t \in Thread |-> None]
  /\ control_mtime = 0 /\ reading = FALSE /\ applied = None
  /\ overlapped = FALSE /\ failed = FALSE /\ torn = FALSE

FileNext == \/ \E t \in Thread : Console(t)
            \/ Stat \/ Read \/ Tick

FileSpec == FileInit /\ [][FileNext]_file_vars

\* The simulator polls for ever, and a request that was begun is carried out.
FileFairSpec ==
  /\ FileSpec
  /\ WF_file_vars(Stat \/ Read)
  /\ \A t \in Thread : WF_file_vars(Write(t) \/ Replace(t))

-----------------------------------------------------------------------------
(* Properties                                                              *)

\* Files, names and threads fit together: a thread between its steps has an open
\* file, and the control file has its text, unless requests overlapped.
FilesFitTogether ==
  /\ {tmp, ctl} \subseteq File \cup {None}
  /\ \A t \in Thread : step[t] \in {"write", "replace"} => fd[t] \in 1 .. posts
  /\ reading => ctl # None
  /\ control_mtime <= clock
  /\ ctl # None /\ ~overlapped => text[ctl] # Empty

\* The name is replaced and never written through, so the simulator reads a file
\* without its text, or a rename fails, only if two requests overlapped: they
\* share the name of the temporary file.
TroubleNeedsOverlap == torn \/ failed => overlapped

InFile == IF ctl = None THEN None ELSE text[ctl]

Shared == INSTANCE SharedSettings WITH
            Settings <- File, current <- InFile, applied <- applied

\* As long as requests did not overlap, the file is what SharedSettings says:
\* settings are put and applied as a whole.
ImplementsSharedSettings ==
  Shared!Init /\ [][~overlapped' => [Shared!Next]_<<InFile, applied>>]_file_vars

\* With a second between requests that do not overlap, the simulator applies what
\* the file says last: the time it compares tells any two texts apart.  Within a
\* second it does not, and nothing is applied again until the next request.
FollowsFile == MinGap > 0 => <>[](overlapped \/ applied = InFile)
=============================================================================
