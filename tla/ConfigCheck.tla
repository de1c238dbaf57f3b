----------------------------- MODULE ConfigCheck -----------------------------
(***************************************************************************)
(* lrun's start-up, src/src/lrun.cc lines 263-679 and 993-999: the         *)
(* default configuration, the loop of parse_cli_options over the options   *)
(* that check_config judges, check_config with follow_binds and            *)
(* check_path_permission, and check_environment.  The supervisor that      *)
(* follows is the module Supervisor.                                       *)
(*                                                                         *)
(* Data abstraction.  A path is a record [abs, seg]: whether it starts     *)
(* with "/", and its components, a sequence over a small set of names.    *)
(* The empty string is [abs |-> FALSE, seg |-> <<>>].  An argv word list   *)
(* is a sequence of tokens [opt, vals]: an option and the words it took,   *)
(* or opt = "arg" for the first word that is not an option, and "--" for  *)
(* the word "--" (the empty option of line 512).  A token with fewer      *)
(* words than its option needs can only be the last one.                  *)
(***************************************************************************)
EXTENDS Integers, Sequences, FiniteSets

CONSTANTS
    Argvs,           \* the argument lists lrun may be started with
    Callers,         \* the callers: records [uid, gid] of getuid()/getgid()
    Cwd,             \* the components of the caller's working directory
    Accessible,      \* host paths (component sequences) the caller may read
    Bits             \* the width of uid_t, gid_t and int (32 on Linux)

\* Paths: absolute or relative, with their components.
Path == [abs : BOOLEAN, seg : Seq(STRING)]

\* The empty string, and the path "/".
Empty == [abs |-> FALSE, seg |-> << >>]
Root == [abs |-> TRUE, seg |-> << >>]

\* The options parse_cli_options knows of that check_config judges, and how
\* many words each takes (REQUIRE_NARGV).
Arity ==
    [o \in {"chroot", "chdir", "nice", "uid", "gid", "no-new-privs", "syscalls",
           "group", "cmd", "remount-ro", "bindfs", "bindfs-ro", "--", "other", "arg"} |->
        IF o \in {"bindfs", "bindfs-ro"} THEN 2
        ELSE IF o \in {"--", "other", "arg"} THEN 0 ELSE 1]

\* The tokens of argv: an option lrun knows, with its words as strconv
\* reads them: paths, integers (to_longlong), Booleans (to_bool), the
\* syscall filter's leading character and whether it lists anything, or
\* plain strings.
Tokens ==
    [opt : {"chroot", "chdir", "remount-ro", "bindfs", "bindfs-ro"}, vals : Seq(Path)]
    \cup [opt : {"nice", "uid", "gid", "group"}, vals : Seq(Int)]
    \cup [opt : {"no-new-privs"}, vals : Seq(BOOLEAN)]
    \cup [opt : {"syscalls"}, vals : Seq([lead : STRING, body : BOOLEAN])]
    \cup [opt : {"cmd", "--", "other", "arg"}, vals : Seq(STRING)]

\* argv holds at least the program's name, so lrun sees a nonempty list of
\* tokens; uid_t, gid_t and int are at least one bit wide.
ASSUME ArgvAssumption ==
    /\ Bits \in Nat \ {0}
    /\ Argvs \subseteq Seq(Tokens) \ {<< >>}

\* 2^Bits is an even number of at least 2, as it is for every Bits >= 1;
\* stated for the provers, which cannot do the induction behind it.
ASSUME WrapAssumption == 2^Bits \in Nat /\ 2^Bits >= 2 /\ 2^Bits % 2 = 0

\* getuid() and getgid() return a uid_t and a gid_t.
ASSUME CallerAssumption == Callers \subseteq [uid : 0..(2^Bits - 1), gid : 0..(2^Bits - 1)]

VARIABLES
    argv,    \* the argument list (fixed)
    caller,  \* getuid() and getgid()
    euid,    \* geteuid(): 0 when lrun is installed setuid root
    seccomp, \* seccomp::supported(): whether the kernel has seccomp
    i,       \* parse_cli_options' loop index
    conf,    \* the fields of config that check_config reads
    phase    \* where main is

vars == <<argv, caller, euid, seccomp, i, conf, phase>>

\* The integer casts of lines 388, 394, 397 and 418: uid_t, gid_t and int
\* are Bits wide; uid_t and gid_t are unsigned.
Wrap == 2^Bits
\* Mutant: the uid_t and gid_t casts are left out.
UidTWide(v) == v
UidT(v) == v % Wrap
IntT(v) == ((v + Wrap \div 2) % Wrap) - Wrap \div 2

\* fs::expand: a relative path is taken from the working directory.
Expand(p) == IF p.abs THEN p ELSE [abs |-> TRUE, seg |-> Cwd \o p.seg]

\* fs::join(chroot_path, chdir_path): a path under an empty chroot is the
\* chdir path itself.
Join(a, b) == IF a = Empty THEN b ELSE [abs |-> a.abs, seg |-> a.seg \o b.seg]

\* The path strictly below the directory d (the test of line 559 against
\* d + "/"), and the rest of p after d.
Below(d, p) == Len(p.seg) > Len(d.seg) /\ SubSeq(p.seg, 1, Len(d.seg)) = d.seg
Rest(d, p) == SubSeq(p.seg, Len(d.seg) + 1, Len(p.seg))

\* Mutant: follow_binds scans the binds from the first one on.
FollowBindsFirst(binds, path) ==
    LET result == Expand(path)
        hits == {k \in DOMAIN binds : binds[k][1] # Root /\ Below(binds[k][1], result)}
        k == CHOOSE j \in hits : \A j2 \in hits : j <= j2
    IN  IF ~path.abs THEN path
        ELSE IF hits = {} THEN result
        ELSE [abs |-> TRUE, seg |-> binds[k][2].seg \o Rest(binds[k][1], result)]

\* Mutant: the binds vector keeps each src as given, not followed.
BindsAfterRaw(list) ==
    [k \in 0..Len(list) |-> [j \in 1..k |-> <<Expand(list[j][1]), Expand(list[j][2])>>]]

(***************************************************************************)
(* follow_binds, lines 553-566.  With dest "/" the prefix is "//", which   *)
(* no expanded path starts with, so a bind onto "/" is never followed.     *)
(***************************************************************************)
FollowBinds(binds, path) ==
    LET result == Expand(path)
        hits == {k \in DOMAIN binds : binds[k][1] # Root /\ Below(binds[k][1], result)}
        k == CHOOSE j \in hits : \A j2 \in hits : j2 <= j
    IN  IF ~path.abs THEN path
        ELSE IF hits = {} THEN result
        ELSE [abs |-> TRUE, seg |-> binds[k][2].seg \o Rest(binds[k][1], result)]

\* check_path_permission, lines 536-551: the error it adds for path, if any.
PathErrors(path) ==
    IF ~path.abs THEN {"relative"}
    ELSE IF path.seg \notin Accessible THEN {"permission"}
    ELSE {}

\* The binds vector check_config builds at lines 608-615, after each prefix
\* of the bind list: the k-th entry is the expanded dest and the src
\* followed through the entries before it.
BindsAfter(list) ==
    LET t[k \in 0..Len(list)] ==
            IF k = 0 THEN << >>
            ELSE Append(t[k - 1], <<Expand(list[k][1]),
                                    FollowBinds(t[k - 1], Expand(list[k][2]))>>)
    IN  t

(***************************************************************************)
(* check_config, lines 568-665: the errors it collects for configuration   *)
(* c when getuid() and getgid() are those of caller u.                     *)
(***************************************************************************)
ConfigErrors(c, u) ==
    LET isRoot == u.uid = 0
        t == BindsAfter(c.binds)
        bindErrs == UNION {PathErrors(FollowBinds(t[k - 1], c.binds[k][2])) :
                             k \in DOMAIN c.binds}
        chrootErrs == IF c.chroot = Empty THEN {}
                      ELSE PathErrors(FollowBinds(t[Len(c.binds)], c.chroot))
        chdirErrs == IF c.chdir = Empty THEN {}
                     ELSE PathErrors(FollowBinds(t[Len(c.binds)], Join(c.chroot, c.chdir)))
    IN  {e \in {"uid0"} : c.uid = 0}
        \cup {e \in {"uid"} : c.uid # 0 /\ ~isRoot /\ c.uid # u.uid}
        \cup {e \in {"gid0"} : c.gid = 0}
        \cup {e \in {"gid"} : c.gid # 0 /\ ~isRoot /\ c.gid # u.gid}
        \cup {e \in {"argc"} : c.argc <= 0}
        \cup (IF isRoot THEN {}
              ELSE {e \in {"cmd"} : c.cmds > 0}
                   \cup {e \in {"group"} : c.groups > 0}
                   \cup bindErrs \cup chrootErrs \cup chdirErrs
                   \cup {e \in {"remount"} : ~(c.remount \subseteq c.destSet)}
                   \cup {e \in {"nnp"} : ~c.nnp}
                   \cup {e \in {"nice"} : c.nice < 0})
        \cup {e \in {"syscalls"} : ~c.sysList /\ c.sysAction = "DEFAULT_EPERM"}

\* init_default_config, lines 263-296, for the fields check_config reads.
DefaultConfig(u) ==
    [uid |-> u.uid, gid |-> u.gid, nice |-> 0, nnp |-> TRUE,
     chroot |-> Empty, chdir |-> Empty, binds |-> << >>, destSet |-> {},
     remount |-> {}, cmds |-> 0, groups |-> 0,
     sysAction |-> "OTHERS_EPERM", sysList |-> FALSE, argc |-> 0]

\* main, lines 993-997: lrun starts with the default configuration.
Init ==
    /\ argv \in Argvs
    /\ caller \in Callers
    /\ euid \in {0, caller.uid}
    /\ seccomp \in BOOLEAN
    /\ i = 1
    /\ conf = DefaultConfig(caller)
    /\ phase = "parse"

\* The words left after the token at n (config.arg.argc, lines 317-322).
Left(n) == Len(argv) - n

\* What an option with its words does to the configuration, lines 380-495.
Apply(c, o, v) ==
    CASE o = "chroot" -> [c EXCEPT !.chroot = v[1]]
      [] o = "chdir" -> [c EXCEPT !.chdir = v[1]]
      [] o = "nice" -> [c EXCEPT !.nice = IntT(v[1])]
      [] o = "uid" -> [c EXCEPT !.uid = UidT(v[1])]
      [] o = "gid" -> [c EXCEPT !.gid = UidT(v[1])]
      [] o = "no-new-privs" -> [c EXCEPT !.nnp = v[1]]
      [] o = "syscalls" ->
            [c EXCEPT !.sysAction = IF v[1].lead \in {"!", "-"}
                                    THEN "OTHERS_EPERM" ELSE "DEFAULT_EPERM",
                      !.sysList = v[1].body]
      [] o = "group" -> [c EXCEPT !.groups = IF UidT(v[1]) # 0 THEN @ + 1 ELSE @]
      [] o = "cmd" -> [c EXCEPT !.cmds = @ + 1]
      [] o = "remount-ro" -> [c EXCEPT !.remount = @ \cup {v[1]}]
      [] o = "bindfs" -> [c EXCEPT !.binds = Append(@, <<v[1], v[2]>>),
                                   !.destSet = @ \cup {v[1]}]
      [] o = "bindfs-ro" -> [c EXCEPT !.binds = Append(@, <<v[1], v[2]>>),
                                      !.destSet = @ \cup {v[1]},
                                      !.remount = @ \cup {v[1]}]

\* One turn of parse_cli_options' loop, lines 314-519, on an option lrun
\* knows: REQUIRE_NARGV exits with 1 when the option's words are missing.
ParseOption ==
    LET tok == argv[i] IN
    /\ phase = "parse"
    /\ i <= Len(argv)
    /\ tok.opt \notin {"--", "other", "arg"}
    /\ tok.opt = "syscalls" => seccomp
    /\ IF Len(tok.vals) < Arity[tok.opt]
       THEN phase' = "exit1" /\ UNCHANGED <<i, conf>>
       ELSE /\ conf' = [Apply(conf, tok.opt, tok.vals) EXCEPT !.argc = Left(i)]
            /\ i' = i + 1
            /\ UNCHANGED phase
    /\ UNCHANGED <<argv, caller, euid, seccomp>>

\* The loop ends at the first word that is not an option (lines 316-319),
\* at "--" (line 512), or when the words run out; an unknown option (and
\* --syscalls without seccomp) exits with 1 (line 516).
ParseEnd ==
    /\ phase = "parse"
    /\ \/ i > Len(argv) /\ phase' = "check" /\ UNCHANGED conf
       \/ /\ i <= Len(argv)
          /\ argv[i].opt = "arg"
          /\ conf' = [conf EXCEPT !.argc = Left(i) + 1]
          /\ phase' = "check"
       \/ /\ i <= Len(argv)
          /\ argv[i].opt = "--"
          /\ conf' = [conf EXCEPT !.argc = Left(i)]
          /\ phase' = "check"
       \/ /\ i <= Len(argv)
          /\ \/ argv[i].opt = "other"
             \/ argv[i].opt = "syscalls" /\ ~seccomp
          /\ phase' = "exit1"
          /\ UNCHANGED conf
    /\ UNCHANGED <<argv, caller, euid, seccomp, i>>

\* Mutant: check_config asks geteuid(), which is 0 in a setuid lrun,
\* instead of getuid() whether the caller is root.
CheckConfigEuid ==
    /\ phase = "check"
    /\ phase' = IF ConfigErrors(conf, [caller EXCEPT !.uid = euid]) = {}
                THEN "env" ELSE "exit1"
    /\ UNCHANGED <<argv, caller, euid, seccomp, i, conf>>

\* check_config, lines 568-665: any error prints and exits with 1.
CheckConfig ==
    /\ phase = "check"
    /\ phase' = IF ConfigErrors(conf, caller) = {} THEN "env" ELSE "exit1"
    /\ UNCHANGED <<argv, caller, euid, seccomp, i, conf>>

\* check_environment, lines 667-679: lrun must run with euid 0; with it,
\* setuid(0) succeeds, and the failures of setgid and setgroups are only
\* logged.  Then main goes on to create_cgroup (module Supervisor).
CheckEnvironment ==
    /\ phase = "env"
    /\ phase' = IF euid # 0 THEN "fatal" ELSE "supervise"
    /\ UNCHANGED <<argv, caller, euid, seccomp, i, conf>>

Next == ParseOption \/ ParseEnd \/ CheckConfig \/ CheckEnvironment

Spec == Init /\ [][Next]_vars /\ WF_vars(Next)

(***************************************************************************)
(* Properties.                                                             *)
(***************************************************************************)

\* The fields of config that check_config reads, with their C types: uid,
\* gid and nice hold what uid_t, gid_t and int can (the casts at lines 388,
\* 394 and 397).
Config ==
    [uid : 0..(Wrap - 1), gid : 0..(Wrap - 1),
     nice : (-(Wrap \div 2))..(Wrap \div 2 - 1),
     nnp : BOOLEAN, sysList : BOOLEAN,
     sysAction : {"DEFAULT_EPERM", "OTHERS_EPERM"},
     chroot : Path, chdir : Path, binds : Seq(Path \X Path),
     destSet : SUBSET Path, remount : SUBSET Path,
     cmds : Nat, groups : Nat, argc : Nat]

\* main's state has its type: the parse index stays within argv and the
\* configuration within what its C types hold.
TypeOK ==
    /\ phase \in {"parse", "check", "env", "supervise", "exit1", "fatal"}
    /\ i \in 1..(Len(argv) + 1)
    /\ conf \in Config

\* The path p is d or lies below it.
Covers(d, p) == Len(p.seg) >= Len(d.seg) /\ SubSeq(p.seg, 1, Len(d.seg)) = d.seg

(***************************************************************************)
(* What the bind mounts do (spec section 4.3, step 1: each src is bind-    *)
(* mounted over its dest, in order): the host path that the absolute path *)
(* p names once the first k binds of list are mounted.  The latest mount  *)
(* whose dest covers p, p itself included, hides the ones before it, and  *)
(* its src is looked up in the tree the mounts before it made.            *)
(***************************************************************************)
HostAt(list, k, p) ==
    LET host[n \in 0..Len(list), q \in Path] ==
            IF n = 0 THEN q
            ELSE LET d == Expand(list[n][1]) IN
                 IF Covers(d, q)
                 THEN [abs |-> TRUE,
                       seg |-> host[n - 1, Expand(list[n][2])].seg \o Rest(d, q)]
                 ELSE host[n - 1, q]
    IN  host[k, p]

\* The host directories a sandbox built from configuration c hands to the
\* child with root's access: each bind's source, the chroot and the chdir.
Exposed(c) ==
    {HostAt(c.binds, k - 1, Expand(c.binds[k][2])) : k \in DOMAIN c.binds}
    \cup (IF c.chroot = Empty THEN {}
          ELSE {HostAt(c.binds, Len(c.binds), Expand(c.chroot))})
    \cup (IF c.chdir = Empty THEN {}
          ELSE {HostAt(c.binds, Len(c.binds), Expand(Join(c.chroot, c.chdir)))})

\* check_config accepted the configuration.
Accepted == phase \in {"env", "supervise", "fatal"}

\* The paths check_config hands to follow_binds for configuration c, each
\* with the number of binds before it (lines 611, 618 and 624).
Checked(c) ==
    {<<Expand(c.binds[k][2]), k - 1>> : k \in DOMAIN c.binds}
    \cup {<<Expand(x), Len(c.binds)>> :
            x \in {y \in {c.chroot, Join(c.chroot, c.chdir)} : y # Empty}}

\* No bind of c is mounted onto "/", and no checked path is exactly the
\* dest of a bind before it: the two cases follow_binds' test against
\* dest + "/" leaves out.
Unambiguous(c) ==
    /\ \A k \in DOMAIN c.binds : Expand(c.binds[k][1]) # Root
    /\ \A q \in Checked(c) : \A j \in 1..q[2] : Expand(c.binds[j][1]) # q[1]

(***************************************************************************)
(* The guarantee check_config's path checks exist for (lines 605-629): a  *)
(* non-root caller's configuration that is accepted exposes only host     *)
(* paths the caller may read, as the mounts really resolve them.  Checked *)
(* here for the configurations follow_binds is written for: binds onto    *)
(* one another, onto the same dest, below earlier dests, relative dests.  *)
(***************************************************************************)
BindsCheckedReadable ==
    Accepted /\ caller.uid # 0 /\ Unambiguous(conf)
        => \A p \in Exposed(conf) : p.seg \in Accessible

RootOnlyRequested(a, u) ==
    \E n \in DOMAIN a :
        \/ a[n].opt \in {"cmd", "group"}
        \/ a[n].opt = "nice" /\ Len(a[n].vals) = 1 /\ a[n].vals[1] < 0
        \/ a[n].opt = "no-new-privs" /\ a[n].vals = <<FALSE>>
RootOnlyRejected ==
    caller.uid # 0 /\ RootOnlyRequested(argv, caller) => ~Accepted

\* What check_config's is_root tests (lines 569-628) secure: a run lrun
\* goes on to supervise for a non-root caller keeps the caller's own uid
\* and gid (never 0), no_new_privs, a nice value of at least 0, no --cmd
\* and no nonzero --group, and remounts read-only only its own bind dests.
NonRootConfined ==
    Accepted /\ caller.uid # 0 =>
        /\ conf.uid = caller.uid /\ conf.gid = caller.gid
        /\ conf.uid # 0 /\ conf.gid # 0
        /\ conf.nnp /\ conf.nice >= 0
        /\ conf.cmds = 0 /\ conf.groups = 0
        /\ conf.remount \subseteq conf.destSet
====
