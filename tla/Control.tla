------------------------------- MODULE Control -------------------------------
(***************************************************************************)
(* One daemon and the commands of its control socket: what a command does  *)
(* to the configuration, the log level, the CPU affinity and the flags of  *)
(* the loop, what it answers, and what is left of it after a restart.      *)
(* A file is a map here (ConfigText has its lines, ConfigSave its I/O); a  *)
(* relative -c names another one after the chdir("/") of rss_daemonize.    *)
(***************************************************************************)
EXTENDS ConfigEntries, Integers

CONSTANTS
    NoFile,         \* a config file that does not exist
    Dirs, Root,     \* working directories, and "/"
    Relative,       \* a -c path that is relative; an absolute one names the
                    \* config file of a directory
    LogLevel,       \* the item [log] level
    CpuAffinity,    \* the item cpu_affinity of the daemon's section
    Levels,         \* Value -> the log level it names (default_level for others)
    Cpus,           \* Value -> the number it spells
    NCpus,          \* processors online
    Inputs,         \* item and value pairs that are set
    Edits,          \* item and value pairs that others put in a file
    Lines,          \* command lines it is started with
    Info, Trace,    \* log levels: the default, and the one of -d
    InfoValue, AnyCpuValue,    \* the defaults of the getters, "info" and -1
    None

Args == [debug : BOOLEAN, foreground : BOOLEAN, path : Dirs \cup {Relative}]

ASSUME ControlAssumption ==
    /\ {LogLevel, CpuAffinity} \subseteq Item
    /\ Inputs \subseteq (Item \X Value)
    /\ Edits \subseteq (Item \X Value)
    /\ NCpus \in Nat \ {0}
    /\ InfoValue \in Value /\ AnyCpuValue \in Value
    /\ DOMAIN Cpus \subseteq Value
    /\ Root \in Dirs /\ Relative \notin Dirs
    /\ Lines \subseteq Args

VARIABLES
    file,           \* of a directory: what its config file says, or NoFile
    up,             \* the daemon runs
    cfg,            \* its running configuration
    running, restart,   \* g_running, g_restart
    args,           \* its arguments: -d, -f and the path of -c
    cwd,            \* its working directory
    home,           \* the directory of the file it has loaded
    s_level,        \* the log level
    affinity,       \* the CPU it is pinned to, or None
    answer,         \* to the last command: "ok", "error", or None
    owing,          \* the keys changed since the last save that answered "ok"
    promised        \* of a file: the keys, with their values, a config-save has
                    \* answered "ok" for, until somebody changes them

flags == <<running, restart>>
place == <<args, cwd, home>>
settings == <<s_level, affinity>>
history == <<owing, promised>>
vars == <<file, up, cfg, flags, place, settings, answer, history>>

NoArgs == [debug |-> FALSE, foreground |-> FALSE, path |-> Root]

Init ==
    /\ file \in [Dirs -> {EmptyContents, NoFile}]
    /\ up = FALSE
    /\ cfg = NoConfig
    /\ running = FALSE /\ restart = FALSE
    /\ args = NoArgs /\ cwd = Root /\ home = Root
    /\ s_level = Info
    /\ affinity = None
    /\ answer = None
    /\ owing = {}
    /\ promised = [d \in Dirs |-> <<>>]

-----------------------------------------------------------------------------
(* A life of the daemon.                                                   *)

LevelOf(v) == IF v \in DOMAIN Levels THEN Levels[v] ELSE Info

InRange(n) == NCpus > 1 /\ 0 <= n /\ n < NCpus

\* The level rss_log_init is given the second time: -d overrides the file.
Logged(c, d) ==
    IF d THEN Trace
    ELSE IF Lookup(c, LogLevel) = Missing THEN Info ELSE LevelOf(Lookup(c, LogLevel))

\* apply_scheduling: a pin that is not configured, or out of range, is left
\* as it was inherited.
Pinned(c, inherited) ==
    LET v == Lookup(c, CpuAffinity) IN
    IF v # Missing /\ v \in DOMAIN Cpus /\ InRange(Cpus[v]) THEN Cpus[v] ELSE inherited

\* The file a path leads to from a working directory.
Meant(path, dir) == IF path = Relative THEN dir ELSE path

\* rss_daemon_init of an image with these arguments, in this directory, on the
\* CPUs it inherits: the getters store their defaults.  One that is not kept in
\* the foreground leaves the directory after the load; the chdir may fail.
Starts(a, dir, inherited) ==
    LET from   == Meant(a.path, dir)
        loaded == Parsed(file[from])
        logged == Get(loaded, LogLevel, InfoValue)
    IN /\ file[from] # NoFile
       /\ up' = TRUE
       /\ cfg' = Get(logged, CpuAffinity, AnyCpuValue)
       /\ running' = TRUE /\ restart' = FALSE
       /\ args' = a /\ home' = from
       /\ cwd' \in IF a.foreground THEN {dir} ELSE {Root, dir}
       /\ s_level' = Logged(loaded, a.debug)
       /\ affinity' = Pinned(loaded, inherited)

Ends ==
    /\ up' = FALSE
    /\ cfg' = NoConfig
    /\ running' = FALSE /\ restart' = FALSE
    /\ args' = NoArgs /\ cwd' = Root /\ home' = Root
    /\ s_level' = Info
    /\ affinity' = None

Launch ==
    /\ ~up
    /\ \E a \in Lines, dir \in Dirs : Starts(a, dir, None)
    /\ answer' = None /\ owing' = {}
    /\ UNCHANGED <<file, promised>>

\* execv with the arguments of this image: its working directory and its CPUs
\* are inherited.
Exec == Starts(args, cwd, affinity)

\* The loop ends: rss_daemon_cleanup, then rss_daemon_exec if a restart is
\* pending.  The execv may fail, or the load when the path leads to no file now.
LeaveLoop ==
    /\ up
    /\ ~running
    /\ (restart /\ Exec) \/ Ends
    /\ answer' = None /\ owing' = {}
    /\ UNCHANGED <<file, promised>>

Terminate ==
    /\ up
    /\ running' = FALSE
    /\ answer' = None
    /\ UNCHANGED <<file, up, cfg, restart, place, settings, history>>

Crash ==
    /\ up
    /\ Ends
    /\ answer' = None /\ owing' = {}
    /\ UNCHANGED <<file, promised>>

-----------------------------------------------------------------------------
(* Commands of rss_ctrl_handle_common.  One that comes with others in a    *)
(* batch is still handled after the loop was told to end.                  *)

Answers(a) == up /\ answer' = a

\* config-get and config-get-section, get-log-level and get-affinity, which
\* change nothing; a section may be too large to answer.
ConfigGet ==
    /\ \E a \in {"ok", "error"} : Answers(a)
    /\ UNCHANGED <<file, up, cfg, flags, place, settings, history>>

\* Malformed JSON, a missing argument, an unknown level, a CPU out of range,
\* or any CPU of a single-core system.
Refuse ==
    /\ Answers("error")
    /\ UNCHANGED <<file, up, cfg, flags, place, settings, history>>

\* The file config_path leads to, now.
Here == Meant(args.path, cwd)

\* rss_config_save: a missing file is written from the memory.
SavedFile ==
    IF file[Here] = NoFile THEN MemoryOf(cfg).view ELSE Overlay(file[Here], MemoryOf(cfg))

\* The items a save of this memory writes or takes out.
Saved ==
    IF file[Here] = NoFile THEN Item
    ELSE Owed(cfg) \cup {i \in Item : i[1] \in OwedHeaders(cfg)}

\* What the save promises of the file, and what was promised before.
Promising(items) ==
    [i \in items \cup DOMAIN promised[Here] |->
        IF i \in items THEN Lookup(cfg, i) ELSE promised[Here][i]]

\* config-save
ConfigSave ==
    /\ Answers("ok")
    /\ file' = [file EXCEPT ![Here] = SavedFile]
    /\ cfg' = Clean(cfg)
    /\ promised' = [promised EXCEPT ![Here] = Promising(Saved \cup owing)]
    /\ owing' = {}
    /\ UNCHANGED <<up, flags, place, settings>>

\* (mutant: a save that failed clears the dirty flags)
ConfigSaveFailsClean ==
    /\ Answers("error")
    /\ IsDirty(cfg) \/ file[Here] = NoFile
    /\ cfg' = Clean(cfg)
    /\ UNCHANGED <<file, up, flags, place, settings, history>>

ConfigSaveFails ==
    /\ Answers("error")
    /\ IsDirty(cfg) \/ file[Here] = NoFile
    /\ UNCHANGED <<file, up, cfg, flags, place, settings, history>>

SetLogLevel ==
    /\ Answers("ok")
    /\ \E v \in DOMAIN Levels : s_level' = Levels[v]
    /\ UNCHANGED <<file, up, cfg, flags, place, affinity, history>>

\* set-affinity
SetAffinity ==
    /\ Answers("ok")
    /\ \E v \in DOMAIN Cpus : InRange(Cpus[v]) /\ affinity' = Cpus[v]
    /\ UNCHANGED <<file, up, cfg, flags, place, s_level, history>>

Restart ==
    /\ Answers("ok")
    /\ restart' = TRUE /\ running' = FALSE
    /\ UNCHANGED <<file, up, cfg, place, settings, history>>

Shutdown ==
    /\ Answers("ok")
    /\ running' = FALSE
    /\ UNCHANGED <<file, up, cfg, restart, place, settings, history>>

\* What is promised of a file but of these keys.
Without(dir, items) == [i \in DOMAIN promised[dir] \ items |-> promised[dir][i]]

Changed(items) ==
    /\ promised' = [promised EXCEPT ![home] = Without(home, items)]
    /\ owing' = owing \cup items

\* What a daemon's own commands do to the configuration.
Change ==
    /\ up
    /\ \E p \in Inputs :
         \/ /\ cfg' = SetStr(cfg, p[1], p[2])
            /\ Changed({p[1]})
         \/ /\ CanUnset(cfg, p[1])
            /\ cfg' = UnsetKey(cfg, p[1])
            /\ Changed({p[1]})
         \/ /\ CanRemove(cfg, p[1][1])
            /\ cfg' = DropSection(cfg, p[1][1])
            /\ Changed({i \in Item : i[1] = p[1][1] /\ Lookup(cfg, i) # Missing})
    /\ answer' = None
    /\ UNCHANGED <<file, up, flags, place, settings>>

\* Another daemon saves a key, or somebody deletes a file or puts it back.
EditFile ==
    /\ \E dir \in Dirs :
         \/ /\ file[dir] # NoFile
            /\ \E p \in Edits :
                 /\ file' = [file EXCEPT ![dir][p[1]] = p[2]]
                 /\ promised' = [promised EXCEPT ![dir] = Without(dir, {p[1]})]
         \/ /\ file' = [file EXCEPT ![dir] = IF @ = NoFile THEN EmptyContents ELSE NoFile]
            /\ promised' = [promised EXCEPT ![dir] = <<>>]
    /\ answer' = None
    /\ UNCHANGED <<up, cfg, flags, place, settings, owing>>

Next ==
    \/ Launch \/ LeaveLoop \/ Terminate \/ Crash
    \/ ConfigGet \/ Refuse \/ ConfigSave \/ ConfigSaveFails
    \/ SetLogLevel \/ SetAffinity \/ Restart \/ Shutdown
    \/ Change \/ EditFile

Spec == Init /\ [][Next]_vars

-----------------------------------------------------------------------------
(* Properties.                                                             *)

\* Once config-save has answered "ok", every key the daemon changed before is,
\* in every life that loads the file it wrote, what it says until somebody
\* changes that key: after a restart or a crash, whatever other daemons save,
\* and if an earlier save had failed.
SavedOutlivesRestart ==
    up => \A i \in DOMAIN promised[home] : Lookup(cfg, i) = promised[home][i]

\* config-get-section lists every key config-get answers, and else only what
\* a getter has resolved to its default: no key that was unset, none of a
\* section that was removed.
ShowsWhatIsSet ==
    \A i \in Item :
        /\ Lookup(cfg, i) # Missing => i[2] \in Shown(cfg, i[1])
        /\ i[2] \in Shown(cfg, i[1]) /\ Lookup(cfg, i) = Missing => cfg.ents[i].defaulted
=============================================================================
