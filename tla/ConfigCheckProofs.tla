-------------------------- MODULE ConfigCheckProofs --------------------------
(***************************************************************************)
(* Type correctness of lrun's start-up (module ConfigCheck) for every     *)
(* width of uid_t and int, every set of callers and every set of argument *)
(* lists of the right type.                                               *)
(***************************************************************************)
EXTENDS ConfigCheck, SequenceTheorems, TLAPS

\* 2^Bits is an even number of at least 2.
LEMMA WrapFacts == Wrap \in Nat /\ Wrap >= 2 /\ Wrap % 2 = 0
  BY WrapAssumption DEF Wrap

\* The uid_t and gid_t cast of line 394 lands in 0 .. 2^Bits - 1.
LEMMA UidTRange ==
  ASSUME NEW v \in Int
  PROVE  UidT(v) \in 0..(Wrap - 1)
  BY WrapFacts DEF UidT

\* The int cast of line 388 lands in -2^(Bits-1) .. 2^(Bits-1) - 1.
LEMMA IntTRange ==
  ASSUME NEW v \in Int
  PROVE  IntT(v) \in (-(Wrap \div 2))..(Wrap \div 2 - 1)
<1>1. (v + Wrap \div 2) % Wrap \in 0..(Wrap - 1)
  BY WrapFacts
<1>2. Wrap - Wrap \div 2 = Wrap \div 2
  BY WrapFacts
<1>3. QED
  BY <1>1, <1>2, WrapFacts DEF IntT

\* Every option parse_cli_options hands to check_config, with the words
\* it requires, keeps the configuration within its C types.
LEMMA ApplyType ==
  ASSUME NEW c \in Config, NEW t \in Tokens,
         t.opt \notin {"--", "other", "arg"},
         Len(t.vals) >= Arity[t.opt]
  PROVE  Apply(c, t.opt, t.vals) \in Config
<1> DEFINE o == t.opt
           v == t.vals
<1>1. CASE t \in [opt : {"chroot", "chdir", "remount-ro", "bindfs", "bindfs-ro"},
                  vals : Seq(Path)]
  <2>1. v[1] \in Path
    BY <1>1 DEF Arity
  <2>2. CASE o \in {"chroot", "chdir", "remount-ro"}
    BY <1>1, <2>1, <2>2 DEF Apply, Config
  <2>3. CASE o \in {"bindfs", "bindfs-ro"}
    <3>1. v[2] \in Path
      BY <1>1, <2>3 DEF Arity
    <3>2. <<v[1], v[2]>> \in Path \X Path
      BY <2>1, <3>1
    <3>3. Append(c.binds, <<v[1], v[2]>>) \in Seq(Path \X Path)
      BY <3>2 DEF Config
    <3>4. QED
      BY <1>1, <2>1, <2>3, <3>3 DEF Apply, Config
  <2>4. QED
    BY <1>1, <2>2, <2>3
<1>2. CASE t \in [opt : {"nice", "uid", "gid", "group"}, vals : Seq(Int)]
  <2>1. v[1] \in Int
    BY <1>2 DEF Arity
  <2>2. UidT(v[1]) \in 0..(Wrap - 1) /\ IntT(v[1]) \in (-(Wrap \div 2))..(Wrap \div 2 - 1)
    BY <2>1, UidTRange, IntTRange
  <2>3. CASE o = "nice"
    <3>1. Apply(c, o, v) = [c EXCEPT !.nice = IntT(v[1])]
      BY <2>3 DEF Apply
    <3>2. QED
      BY <2>2, <3>1 DEF Config
  <2>4. CASE o = "uid"
    <3>1. Apply(c, o, v) = [c EXCEPT !.uid = UidT(v[1])]
      BY <2>4 DEF Apply
    <3>2. QED
      BY <2>2, <3>1 DEF Config
  <2>5. CASE o = "gid"
    <3>1. Apply(c, o, v) = [c EXCEPT !.gid = UidT(v[1])]
      BY <2>5 DEF Apply
    <3>2. QED
      BY <2>2, <3>1 DEF Config
  <2>6. CASE o = "group"
    <3>1. Apply(c, o, v) = [c EXCEPT !.groups = IF UidT(v[1]) # 0 THEN c.groups + 1
                                                ELSE c.groups]
      BY <2>6 DEF Apply
    <3>2. (IF UidT(v[1]) # 0 THEN c.groups + 1 ELSE c.groups) \in Nat
      BY DEF Config
    <3>3. QED
      BY <3>1, <3>2 DEF Config
  <2>7. QED
    BY <1>2, <2>3, <2>4, <2>5, <2>6
<1>3. CASE t \in [opt : {"no-new-privs"}, vals : Seq(BOOLEAN)]
  <2>1. v[1] \in BOOLEAN
    BY <1>3 DEF Arity
  <2>2. QED
    BY <1>3, <2>1 DEF Apply, Config
<1>4. CASE t \in [opt : {"syscalls"}, vals : Seq([lead : STRING, body : BOOLEAN])]
  <2>1. v[1] \in [lead : STRING, body : BOOLEAN]
    <3>1. v \in Seq([lead : STRING, body : BOOLEAN]) /\ 1 \in 1..Len(v)
      BY <1>4 DEF Arity
    <3>2. QED
      BY <3>1, ElementOfSeq
  <2>2. v[1].body \in BOOLEAN
    BY <2>1, Zenon
  <2>3. Apply(c, o, v) = [c EXCEPT !.sysAction = IF v[1].lead \in {"!", "-"}
                                                 THEN "OTHERS_EPERM" ELSE "DEFAULT_EPERM",
                                   !.sysList = v[1].body]
    BY <1>4 DEF Apply
  <2>4. QED
    BY <2>2, <2>3 DEF Config
<1>5. CASE t \in [opt : {"cmd", "--", "other", "arg"}, vals : Seq(STRING)]
  <2>1. o = "cmd"
    BY <1>5
  <2>2. Apply(c, o, v) = [c EXCEPT !.cmds = c.cmds + 1]
    BY <2>1 DEF Apply
  <2>3. c.cmds + 1 \in Nat
    BY DEF Config
  <2>4. QED
    BY <2>2, <2>3 DEF Config
<1>6. QED
  BY <1>1, <1>2, <1>3, <1>4, <1>5 DEF Tokens

\* The typing invariant: TypeOK, with argv and the caller (which no step
\* changes) among the constants' values.
TypeInv == TypeOK /\ argv \in Argvs /\ caller \in Callers

\* Setting config.arg.argc to a count keeps the configuration in Config.
LEMMA ArgcType ==
  ASSUME NEW c \in Config, NEW n \in Nat
  PROVE  [c EXCEPT !.argc = n] \in Config
  BY DEF Config

\* main starts from init_default_config's configuration, which has its type.
LEMMA InitTypeInv == Init => TypeInv
<1> SUFFICES ASSUME Init PROVE TypeInv
  OBVIOUS
<1>1. argv \in Seq(Tokens) /\ caller \in [uid : 0..(Wrap - 1), gid : 0..(Wrap - 1)]
  BY ArgvAssumption, CallerAssumption DEF Init, Wrap
<1>2. Empty \in Path /\ << >> \in Seq(Path \X Path)
  BY DEF Empty, Path
<1>3. 0 \in (-(Wrap \div 2))..(Wrap \div 2 - 1)
  BY WrapFacts
<1>4. conf \in Config
  BY <1>1, <1>2, <1>3 DEF Init, DefaultConfig, Config
<1>5. QED
  BY <1>1, <1>4 DEF Init, TypeInv, TypeOK

\* Every step of parse_cli_options, check_config and check_environment
\* keeps the typing invariant.
LEMMA TypeInvStep == TypeInv /\ [Next]_vars => TypeInv'
<1> SUFFICES ASSUME TypeInv, [Next]_vars PROVE TypeInv'
  OBVIOUS
<1>0. argv \in Seq(Tokens) /\ Len(argv) \in Nat /\ conf \in Config
      /\ i \in 1..(Len(argv) + 1)
  BY ArgvAssumption DEF TypeInv, TypeOK
<1>1. CASE ParseOption
  <2> DEFINE tok == argv[i]
  <2>1. i \in 1..Len(argv) /\ tok \in Tokens
    BY <1>0, <1>1, ElementOfSeq DEF ParseOption
  <2>2. CASE Len(tok.vals) < Arity[tok.opt]
    BY <1>1, <2>2 DEF ParseOption, TypeInv, TypeOK
  <2>3. CASE ~(Len(tok.vals) < Arity[tok.opt])
    <3>1. Len(tok.vals) >= Arity[tok.opt] /\ Arity[tok.opt] \in Nat
      BY <2>1, <2>3 DEF Arity, Tokens
    <3>2. Apply(conf, tok.opt, tok.vals) \in Config
      BY <1>0, <1>1, <2>1, <3>1, ApplyType DEF ParseOption
    <3>3. Left(i) \in Nat
      BY <1>0, <2>1 DEF Left
    <3>4. conf' \in Config
      BY <1>1, <2>3, <3>2, <3>3, ArgcType DEF ParseOption
    <3>5. QED
      BY <1>0, <1>1, <2>1, <2>3, <3>4 DEF ParseOption, TypeInv, TypeOK
  <2>4. QED
    BY <2>2, <2>3
<1>2. CASE ParseEnd
  <2>1. conf' \in Config
    <3>1. i <= Len(argv) => Left(i) \in Nat /\ Left(i) + 1 \in Nat
      BY <1>0 DEF Left
    <3>2. QED
      BY <1>0, <1>2, <3>1, ArgcType DEF ParseEnd
  <2>2. QED
    BY <1>2, <2>1 DEF ParseEnd, TypeInv, TypeOK
<1>3. CASE CheckConfig \/ CheckEnvironment
  BY <1>3 DEF CheckConfig, CheckEnvironment, TypeInv, TypeOK
<1>4. CASE UNCHANGED vars
  BY <1>4 DEF vars, TypeInv, TypeOK
<1>5. QED
  BY <1>1, <1>2, <1>3, <1>4 DEF Next

\* Whatever argument list lrun is started with, and whatever the width of
\* uid_t and int, parse_cli_options keeps its index within argv and builds
\* a configuration whose uid, gid and nice fit their C types (the casts of
\* lines 388-397), and whose paths and binds are well formed.
THEOREM TypeCorrect == Spec => []TypeOK
<1>1. TypeInv => TypeOK
  BY DEF TypeInv
<1>2. QED
  BY <1>1, InitTypeInv, TypeInvStep, PTL DEF Spec

\* A configuration check_config finds no error in, for a non-root caller,
\* has what NonRootConfined asks of it.
LEMMA NoErrorsConfined ==
  ASSUME NEW c \in Config, NEW u, u.uid # 0, ConfigErrors(c, u) = {}
  PROVE  /\ c.uid = u.uid /\ c.gid = u.gid /\ c.uid # 0 /\ c.gid # 0
         /\ c.nnp /\ c.nice >= 0 /\ c.cmds = 0 /\ c.groups = 0
         /\ c.remount \subseteq c.destSet
<1> USE DEF Config
<1>1. "uid0" \notin ConfigErrors(c, u) /\ "uid" \notin ConfigErrors(c, u)
      /\ "gid0" \notin ConfigErrors(c, u) /\ "gid" \notin ConfigErrors(c, u)
  OBVIOUS
<1>2. c.uid = u.uid /\ c.gid = u.gid /\ c.uid # 0 /\ c.gid # 0
  BY <1>1, Zenon DEF ConfigErrors
<1>3. "cmd" \notin ConfigErrors(c, u) /\ "group" \notin ConfigErrors(c, u)
      /\ "nnp" \notin ConfigErrors(c, u) /\ "nice" \notin ConfigErrors(c, u)
      /\ "remount" \notin ConfigErrors(c, u)
  OBVIOUS
<1>4. ~(c.cmds > 0) /\ ~(c.groups > 0) /\ c.nnp /\ ~(c.nice < 0)
      /\ c.remount \subseteq c.destSet
  BY <1>3, Zenon DEF ConfigErrors
<1>5. QED
  BY <1>2, <1>4

\* Once check_config has passed, the configuration and the caller no
\* longer change, so check_config's verdict stays true.
CheckedInv == TypeInv /\ (Accepted => ConfigErrors(conf, caller) = {})

\* Every step keeps CheckedInv: only check_config enters the accepted
\* phases, and it does so only without errors.
LEMMA CheckedInvStep == CheckedInv /\ [Next]_vars => CheckedInv'
<1> SUFFICES ASSUME CheckedInv, [Next]_vars PROVE CheckedInv'
  OBVIOUS
<1>1. TypeInv'
  BY TypeInvStep DEF CheckedInv
<1>2. (Accepted => ConfigErrors(conf, caller) = {})'
  <2>1. CASE ParseOption \/ ParseEnd
    <3>1. phase' \in {"parse", "check", "exit1"}
      BY <2>1 DEF ParseOption, ParseEnd
    <3>2. QED
      BY <3>1 DEF Accepted
  <2>2. CASE CheckConfig
    BY <2>2 DEF CheckConfig, Accepted
  <2>3. CASE CheckEnvironment \/ UNCHANGED vars
    <3>1. conf' = conf /\ caller' = caller /\ (Accepted' => Accepted)
      BY <2>3 DEF CheckEnvironment, vars, Accepted
    <3>2. QED
      BY <3>1 DEF CheckedInv
  <2>4. QED
    BY <2>1, <2>2, <2>3 DEF Next
<1>3. QED
  BY <1>1, <1>2 DEF CheckedInv

\* For every width, caller and argument list: a run lrun goes on with for
\* a non-root caller runs as the caller's own uid and gid, with
\* no_new_privs, nice >= 0, no --cmd, no nonzero --group, and read-only
\* remounts of its own bind dests only.
THEOREM NonRootConfinedHolds == Spec => []NonRootConfined
<1>1. Init => CheckedInv
  BY InitTypeInv DEF CheckedInv, Init, Accepted
<1>2. CheckedInv => NonRootConfined
  BY NoErrorsConfined DEF CheckedInv, TypeInv, TypeOK, NonRootConfined
<1>3. QED
  BY <1>1, <1>2, CheckedInvStep, PTL DEF Spec
====
