------------------------------ MODULE Sandbox ------------------------------
(***************************************************************************)
(* The mounts sandbox gives to nsjail (src/sandbox/main.rs), and what the  *)
(* jail then shows at a path.  A path is the sequence of its names.  What  *)
(* the kernel does with a list of mounts is external: of the mounts at a   *)
(* path or above it, the last one counts.                                  *)
(***************************************************************************)
EXTENDS SequencesExt, FiniteSetsExt, Functions, Naturals

CONSTANTS
    Dirs,        \* the directories of the host, by their canonical paths
    Links,       \* symbolic links to directories: path -> canonical path
    Homes,       \* what $HOME may be
    MaxMounts    \* --rw and --ro mounts of the runs

Tmpfs == <<"tmpfs">>

\* The names that paths are made of.
Entries == UNION {Range(p) : p \in Dirs \cup Homes \cup DOMAIN Links}

VARIABLE cli     \* the command line (home, rw, ro) and $HOME (env)

Beyond(p, prefix) == SubSeq(p, Len(prefix) + 1, Len(p))

canonicalize(p) ==
    LET above == {l \in DOMAIN Links : IsPrefix(l, p)}
    IN IF above = {} THEN p
       ELSE LET l == CHOOSE l \in above : TRUE IN Links[l] \o Beyond(p, l)

Exists(p) == canonicalize(p) \in Dirs

\* USR_LAYOUT_DIRS, and the directory of the DNS resolver.
LayoutDirs ==
    {<<"bin">>, <<"sbin">>, <<"lib">>, <<"lib32">>, <<"lib64">>, <<"run", "systemd", "resolve">>}

\* The directories that every jail shows where they are on the host.
HostDirectories == {<<"usr">>, <<"etc">>, <<"dev">>} \cup LayoutDirs

\* A directory has one canonical path, links are in the root directory, as
\* /home to /var/home, and $HOME is there.  The links of a merged /usr, which
\* the jail repeats, are not among them.
ASSUME SandboxAssumption ==
    /\ MaxMounts \in Nat
    /\ Dirs \cup Homes \cup DOMAIN Links \subseteq Seq(Entries)
    /\ "tmpfs" \notin Entries
    /\ \A l \in DOMAIN Links : Len(l) = 1 /\ Links[l] \in Dirs
    /\ \A d \in Dirs \cup HostDirectories, l \in DOMAIN Links : ~IsPrefix(l, d)
    /\ Homes # {} /\ \A h \in Homes : Exists(h)

\* Paths by which the directories of the host can be named, and one more.
Paths == Dirs \cup {<<"missing">>} \cup UNION
    {{l \o Beyond(d, Links[l]) : d \in {e \in Dirs : IsPrefix(Links[l], e)}} : l \in DOMAIN Links}

\* MUTANT: the paths are compared as they are given.
exposes_home_literally(path, home) == Exists(path) /\ Exists(home) /\ IsPrefix(path, home)

exposes_home(path, home) ==
    Exists(path) /\ Exists(home) /\ IsPrefix(canonicalize(path), canonicalize(home))

bind_mount(path, rw) == [src |-> path, dst |-> path, rw |-> rw]

\* A filesystem of the jail's own, whatever its type.
own_mount(path) == [src |-> Tmpfs, dst |-> path, rw |-> path # <<"proc">>]

\* Those of LayoutDirs that the host has; none of them is within another.
get_host_layout_mounts ==
    LET found == SetToSeq(LayoutDirs \cap Dirs)
    IN [i \in DOMAIN found |-> bind_mount(found[i], FALSE)]

\* The directories of jail.txtpb, and those of the host's layout.
JailMounts == <<bind_mount(<<"usr">>, FALSE), bind_mount(<<"etc">>, FALSE),
                bind_mount(<<"dev">>, FALSE), own_mount(<<"proc">>),
                own_mount(<<"tmp">>), own_mount(<<"dev", "shm">>)>>

BaseMounts == JailMounts \o get_host_layout_mounts

HomeMount == [src |-> cli.home, dst |-> cli.env, rw |-> TRUE]

\* MUTANT: the home is mounted over what was asked for.
MountsHomeLast ==
    BaseMounts \o [i \in DOMAIN cli.rw |-> bind_mount(cli.rw[i], TRUE)]
               \o [i \in DOMAIN cli.ro |-> bind_mount(cli.ro[i], FALSE)] \o <<HomeMount>>

Mounts ==
    BaseMounts \o <<HomeMount>>
               \o [i \in DOMAIN cli.rw |-> bind_mount(cli.rw[i], TRUE)]
               \o [i \in DOMAIN cli.ro |-> bind_mount(cli.ro[i], FALSE)]

Asked == Range(cli.rw) \cup Range(cli.ro)

Refused == \E path \in Asked : exposes_home(path, cli.env)

\* Every mount is mandatory.
Starts == \A mount \in Range(Mounts) : mount.src # Tmpfs => Exists(mount.src)

(***************************************************************************)
(* The jail                                                                *)
(***************************************************************************)
Covering(p) == {i \in DOMAIN Mounts : IsPrefix(Mounts[i].dst, p)}

MountAt(p) == Mounts[Max(Covering(p))]

\* What is found at p: a directory of the host or of a tmpfs.
Shown(p) == canonicalize(MountAt(p).src) \o Beyond(p, MountAt(p).dst)

(***************************************************************************)
(* All command lines, grown option by option.                              *)
(***************************************************************************)
Default == [home |-> Tmpfs, env |-> CHOOSE h \in Homes : TRUE, rw |-> <<>>, ro |-> <<>>]

CliInit == cli = Default

SetHome == \E env \in Homes, home \in {Tmpfs} \cup Paths :
    /\ cli = Default
    /\ cli' = [cli EXCEPT !.home = home, !.env = env]

AddMount == \E path \in Paths :
    /\ Len(cli.rw) + Len(cli.ro) < MaxMounts
    /\ \/ cli' = [cli EXCEPT !.rw = Append(@, path)]
       \/ cli' = [cli EXCEPT !.ro = Append(@, path)]

CliNext == SetHome \/ AddMount

CliSpec == CliInit /\ [][CliNext]_cli

\* A mount of the path shows the real home.
Holds(path) == IsPrefix(canonicalize(path), canonicalize(cli.env))

\* What the program does not check: that --home is beside the real home, and
\* that no link leads from $HOME into a directory that every jail shows.
HomeIsApart ==
    /\ ~Holds(cli.home)
    /\ \/ canonicalize(cli.env) = cli.env
       \/ \A mount \in Range(BaseMounts) : ~Holds(mount.src)

\* The real home is hidden, and the jail's own is at $HOME, read-write, ...
HomeIsPrivate ==
    /\ HomeIsApart => \A p \in Paths : Covering(p) # {} => Shown(p) # canonicalize(cli.env)
    /\ Shown(cli.env) = canonicalize(cli.home) /\ MountAt(cli.env).rw

\* ... what was asked for is at its own path, also below $HOME or /tmp, ...
AskedIsShown == \A p \in Asked : Shown(p) = canonicalize(p)

\* ... and may be written unless a --ro mount includes it.
RightsAreKept == \A p \in Asked :
    MountAt(p).rw <=> \A q \in Range(cli.ro) : ~IsPrefix(q, p)

\* A jail that starts shows what its command line asks for, whatever is
\* mounted within what, by whatever path it is named (main.rs:63-69, 204-236;
\* sandbox_test.rs: persistent_home, rw_mount, ro_mount, rejects_mount_of_home,
\* allows_mount_of_home_child).
JailShowsWhatWasAsked ==
    ~Refused /\ Starts => HomeIsPrivate /\ AskedIsShown /\ RightsAreKept
=============================================================================
