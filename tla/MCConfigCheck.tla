---------------------------- MODULE MCConfigCheck ----------------------------
(***************************************************************************)
(* Small instances of ConfigCheck for TLC.  Names are "a" and "b"; the    *)
(* caller works in /b and may read /a, /b and some paths below /b, but     *)
(* not /a/b.                                                               *)
(***************************************************************************)
EXTENDS ConfigCheck

\* An absolute and a relative path.
Abs(s) == [abs |-> TRUE, seg |-> s]
Rel(s) == [abs |-> FALSE, seg |-> s]

\* A token of argv, and the first word that is not an option.
Tok(o, v) == [opt |-> o, vals |-> v]
Cmd == Tok("arg", << >>)

MCCwd == <<"b">>
MCAccessible == {<<"a">>, <<"a", "a">>, <<"b">>, <<"b", "a">>, <<"b", "b">>, <<"b", "a", "b">>}
\* uid_t and int are taken 16 bits wide, so that 65536 wraps to 0 and 65535
\* to -1 as 2^32 and 2^32 - 1 do on Linux.
MCBits == 16
\* Root and a non-root user 1000.
MCCallers == {[uid |-> 0, gid |-> 0], [uid |-> 1000, gid |-> 1000]}

\* Where binds may go and what they may take.
Dests == {Abs(<< >>), Abs(<<"a">>), Abs(<<"b">>), Abs(<<"a", "b">>), Rel(<<"a">>)}
Srcs == {Abs(<<"a">>), Abs(<<"b">>), Abs(<<"a", "b">>), Abs(<<"b", "a">>), Rel(<<"a">>)}
Binds == {Tok("bindfs", <<d, s>>) : d \in Dests, s \in Srcs}

\* Up to three binds, then a chroot (or none) and the command.
PathArgvs ==
    {b \o c \o <<Cmd>> :
        b \in {<<x>> : x \in Binds} \cup {<<x, y>> : x, y \in Binds}
              \cup {<<x, y, z>> : x \in Binds, y \in Binds, z \in Binds},
        c \in {<< >>, <<Tok("chroot", <<Abs(<<"a">>)>>)>>}}

\* The options without paths, each with the values that matter, followed
\* by the command, by "--" and the command, or by nothing; and a few cut
\* short, remount-ro, chdir and unknown options.
Values == [uid |-> {0, 1000, 1001, 65536}, gid |-> {0, 1000, 65536},
           nice |-> {-1, 65535}, group |-> {0, 5}, cmd |-> {"true"},
           syscalls |-> {[lead |-> l, body |-> b] : l \in {"!", "=", "none"}, b \in BOOLEAN}]
Flags ==
    UNION {{Tok(o, <<v>>) : v \in Values[o]} : o \in DOMAIN Values}
    \cup {Tok("no-new-privs", <<b>>) : b \in BOOLEAN}
    \cup {Tok("remount-ro", <<p>>) : p \in {Abs(<<"a">>), Abs(<< >>)}}
    \cup {Tok("chdir", <<p>>) : p \in {Abs(<<"a">>), Rel(<<"a">>)}}
FlagArgvs ==
    {<<f>> \o t : f \in Flags, t \in {<<Cmd>>, <<Tok("--", << >>), Cmd>>, << >>}}
    \cup {<<Tok("uid", << >>)>>, <<Tok("bindfs", <<Abs(<<"a">>)>>)>>,
          <<Tok("other", << >>), Cmd>>, <<Tok("--", << >>)>>,
          <<Tok("bindfs-ro", <<Abs(<<"a">>), Abs(<<"a">>)>>),
            Tok("remount-ro", <<Abs(<<"a">>)>>), Cmd>>}

MCArgvs == PathArgvs \cup FlagArgvs
====
