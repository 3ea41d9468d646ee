# raptor-common: a verification project

TLA+ models of raptor-common, the C library the daemons of the Raptor camera
software link: configuration, daemon life cycle and control commands, signing
key, TLS and HTTP authentication, media clock, MPEG-TS muxer, and the formats it
builds, reads and edits in place. The modules say what the code does, TLC checks
them on small instances, and TLAPS proves the configuration with its save and its control
commands, the daemon's life cycle, the signing key, the TLS connections, the muxer and the
media clock for every instance. Paths below are
those of the repository (`src/rss_config.c` and so on); `PROJECT.json` maps every
definition to its lines.

## 1. Inventory

| Component | State | Operations | Interacts with | What is hard |
|---|---|---|---|---|
| Config entries (`rss_config.c`) | a list of entries with `dirty`, `defaulted`, `removed`, a list of sections with `dirty`, `removed` | load, get (stores its default), set, unset, remove_section, has_dirty, walks, free | every daemon's main thread and its control commands | four flags in every order of calls; defaults stored beside configuration |
| Config text (`rss_config.c`) | the lines of one file | parse, `config_write_surgical`, `config_write` | people who edit the file, other daemons' keys | keys written twice, sections opened twice, comments, line lengths |
| Config save (`rss_config.c`, `rss_util.c`) | the file, `path.tmp`, `path.lock`, dirty flags | flock, read, write, fsync, rename, fsync of the directory | all daemons of the camera, the disk | interleaving, crash and power loss between any two system calls, failing calls |
| Daemon life cycle (`rss_daemon.c`) | pidfile and its flock, `g_running`, `g_restart` | daemonize, signal_init, requests, cleanup, exec, check | init scripts, signals, control commands | two starts at once, a restart into one's own lock, signals during start |
| Control commands (`rss_ctrl_cmds.c`) | none of their own; the configuration, the log level, the CPU mask and the flags of the loop | config-*, log level, affinity, restart, shutdown | config, daemon, log | what is left of a command after a failed save, a restart, a crash |
| Signing key (`rss_sign.c`) | key file, its public half | load or create | several daemons at first boot | O_EXCL race, empty files, failing fsync, retries |
| MPEG-TS muxer (`rss_ts.c`) | four continuity counters, `last_pcr`, `pat_counter` | tables, video, audio | a streaming daemon | stuffing to the byte, counters over short buffers, PCR at stream heads |
| Media clock (`rss_media_clock.c`) | 16 per-second minima, filtered error, offset | map a time stamp | streaming daemons | median over a moving window, pauses, an integer filter |
| TLS (`rss_tls.c`) | contexts, connections | accept, connect, read, write, close | mbedTLS, sockets | a record layer that wants to be called again, a timeout all connections share |
| HTTP (`rss_http.c`) | the decoder's table | base64, basic auth | HTTP threads | first use by two threads |
| VUI (`rss_vui.c`) | none | set the range, set the matrix, in place | encoders' SPSs | every optional part of an SPS, emulation prevention |
| SEI (`rss_sei.c`) | none | build and parse a time stamp | muxers, receivers | the end of the messages, sizes of 255 and more |
| JPEG (`rss_jpeg.c`) | none | insert EXIF, sign, verify, read the time | signing key, other programs | order of edits, capacity, several signatures |
| AAC (`rss_aac.c`), Shadow (`rss_shadow.c`) | none | AudioSpecificConfig; state and hash of an account | muxers, HTTP | bit fields; names that begin alike, locked fields |
| Log (`rss_log.c`), utilities (`rss_util.c`), sockets (`rss_net.h`), control client (`rss_ctrl_client.c`) | log target and level | one call each | - | - |
| cJSON, monocypher | third-party code | | | not modelled |

What makes each correct, in a sentence: *config entries* - a default is never
configuration, the flags agree, lookups, walks and saves tell one story; *text* -
a save reads back and leaves every other line alone; *save* - no update is
lost, no reader sees a part of a text, a power loss brings back no file older than
the last synced one, and nobody waits for ever; *daemon* - one instance, named by its pidfile, that
hears every request; *control* - an "ok" holds in every life that loads the file it wrote; *key* -
one key per device; *TLS and HTTP* - bytes once and in order, true reports, no stale
timeout, right verdicts, and every call comes back; *media clock* - jitter moves nothing,
a lasting change is followed and the loop comes to rest; *muxer* - receivers can put
the frames together and follow the clock; *formats* - what is written reads back,
an edit changes what it is for and nothing else, within its buffer.

## 2. Modules

    ConfigMemory <- SharedConfig            what daemons are promised (abstract)
         ^   ^
         |   +---- ConfigSave <- MCConfigSave, ConfigSaveProofs
         |              (SharedConfig INSTANCEd as Shared, refined)
         +-- ConfigEntries --+-- Control <- MCControl, ControlProofs
         |         ^         |
         |         +-- ConfigEntriesProofs <- ControlProofs, ConfigProofs
         |                   |
         +-- ConfigText -----+-- Config <- MCConfig, ConfigProofs   (refines SharedConfig)
                   ^
                   +-- ConfigEdit --+
    BitStrings <- Vui, Sps, Sei, Aac -+-- Formats <- MCFormats
    Jpeg, Base64, Shadow -------------+
    MinimaWindow (abstract) <- MediaClock <- MCMediaClock, MediaProofs   (INSTANCEd as Window, refined)
    Daemon <- MCDaemon, DaemonProofs     SignKey <- MCSignKey, SignKeyProofs
    Https <- MCHttps, HttpsProofs        TsMux <- MCTsMux, MediaProofs

**ConfigMemory** is the view both sides of the configuration share. A memory has
the effective value of each item (section and key), the items it owes the file
(`touched`) and the sections it has removed (`dropped`). `Overlay(text, m)` is
what a save makes of a file. Names, values and their spelling are model values;
"the global section" is the section `""`, which takes no writes.

**SharedConfig** is the abstract specification: a save is one step that lays what
a daemon owes over whatever the file says *at that moment*. Two detailed
specifications implement it, from two sides:

* **ConfigSave** has `rss_config_save` and `rss_write_file_atomic` one system call
  at a time. `pc` is the place in the two functions, `node` the data of inodes,
  `path`, `tmp` and `dpath` the names (the last one as a power loss would find
  it), `lock` the flock, `image`, `left` and `fd` the locals. `Write` takes any part
  of what is left; `Crash` frees descriptors and lock and leaves `path.tmp`;
  `PowerLoss` drops what no fsync has reached; `SyncDirFails` is the sync of the directory that is
  skipped or fails, after which the save returns 0 all the same, and `Writeback` the kernel that writes
  the directory in its own time. `since` is history: the inodes the file has had since a sync
  of the directory last passed. What can go wrong is the constant `Faults`.
* **Config** puts **ConfigEntries** (the flags of entries and sections, one operator
  per function) and **ConfigText** (the file as a sequence of lines: comment,
  blank, header, key line with its width and comment) together: one action per
  API call, a save in one step that rewrites the lines as
  `config_write_surgical` does, or writes a missing file as `config_write` does: the sections in the
  order they were made (`made`), the one without a name without a header.

**ConfigEdit** is `config_write_surgical` alone (`EditSpec`: the same save again and again), run over
*every* file of a few lines and every set of owed changes (as part of **Formats**). In `ConfigText`
`Surgical` is the function's pass over the lines: what becomes of line n (`Edited`: gone, replaced for
its `Owner`, or as it was), the new keys behind it (`Appended`), the new sections at the end
(`WithSections`); `Whole` is `config_write`, in the order of the list of sections (`Listing`, `LoadOrder`).

**Control** composes the entries with a life of the daemon: `Launch`, `LeaveLoop`
(cleanup, and `execv` if a restart is pending), `Terminate`, `Crash`, and one action
per command of `rss_ctrl_handle_common`. A file is a map, one in each of two directories. An image has
arguments (`args`: `-d`, `-f` and the path of `-c`, relative or not), a working directory (`cwd`) and the
directory of the file it has loaded (`home`). `Starts` is `rss_daemon_init` with its `chdir("/")`, for
a launch and, with what it inherits, for `Exec`; `Meant` is the file a path leads to from a directory. `answer` is what the last
command said; `owing` and `promised` are history: what was changed since the last "ok"
of a config-save, and what that "ok" covers in the file it wrote.

**Daemon** is the life of the processes of one daemon name: a process goes through
`rss_daemonize` call by call (`Open`, `Lock`, `Truncate`, `WritePid`), then
`rss_signal_init`, its loop, `rss_daemon_cleanup` and `rss_daemon_exec`. The two
forks hand the lock on and end in one process, which is the one modelled.
`asked` is a history variable.

**SignKey** is `rss_sign_key_load` call by call, with inodes, so that an unlinked
file stays readable for who has it open. The `unlink` after a failed write or fsync may fail too, and
the file stays. `reported` and `withdrawn` (keys whose file was taken away) are history.

**Https** is a server (and client) whose connections are threads: `Open`, `Setup`,
`Handshake` (or `Refused`) of `rss_tls_accept` and `rss_tls_connect`, the loop of
`rss_tls_write` (`Write`, `Send`, `Sent`, `Want`, `Poll`, `Broken`, `Written`), the
lazily filled base64 table (`Test`, `Clear`, `Fill`, `Flag`) and the verdict: `AuthOff` (an empty user),
`AuthOn` and `CheckAuth`, which says anything while another thread empties or fills the table (a data race).
Connections of a context are opened in any order and at the same time, and the table is filled before
them by `rss_base64_init` or not (`Init`). `since` is history: the timeouts connections were opened with
since this one was. NULL arguments are left out. mbedTLS is
external: it makes records, keeps a pending one, and asks to be called again. Peers say
hello, ask, take bytes from the socket and leave.

**MediaClock** is `rss_media_clock_map` with the ring of minima, the median, the filter
with C's division, and the slew. Times are relative to the last frame, so that the
state is finite. **MinimaWindow** is what the ring is for: the minima of the last
seconds, the running one first. `steady` is history: the delay all later frames have.

**TsMux** has each call of the muxer as an action, packets as records of their
header fields and of the bytes of the PES packet they carry: `Space` is what a packet has room
for, `From` where it goes on in the PES packet. A time line starts at any of `FirstDts`. `out` is what the last call wrote, `shown` and
`dts` are history.

**Formats** starts with one subject - an SPS, a stamp, a JPEG, an
AudioSpecificConfig, base64, a shadow file, a config file - and calls the functions on
it: SPSs are corrected and corrected again, JPEGs get times and signatures, lose
segments and images. The functions are operators of their own modules:

* **Vui** reads bit by bit: a reader `c` has the bits and the place (`vb_read`, `vb_ue`,
  `vb_se`), and each operator takes it over a part of the SPS. A read past the end
  leaves it past the end. **Sps** is the other side, an encoder that writes by the syntax tables.
* **Sei**, **Aac** and **Base64** work on bytes; **Jpeg** on segments with their sizes (`Verify` is
  that a signature covers what is before it; ed25519 is ideal); **Shadow** on characters, by the
  buffer `fgets` fills.

Definitions marked `(mutant: ...)` are variants of the definition after them with a
plausible bug in it. No specification uses them: they are there to check that
a property would notice.

## 3. Runs

| Run | Instance | Shows |
|---|---|---|
| `config_save` | 2 daemons, 3 inodes; crashes, power losses, disk and memory failures, a directory that is not synced | the inductive invariant `Inv`, `StoredSinceSync`, `NoLostUpdate`, `NoForgottenChange`, refinement `SharedSpec` |
| `config_save_live` | as above, one first file; crashes, memory failures, deletions, unreadable files | `SaveReturns` |
| `config` | one and two daemons, 3 sections, 2 values, hand-kept files | `FlagsAgree`, `DefaultsAreNotConfiguration`, `SaveKeepsOthers`, refinement `SharedSpec` by flags and lines together |
| `control` | one daemon, 2 processors, 2 directories with a file each, absolute and relative paths | `SavedOutlivesRestart`, `ShowsWhatIsSet` |
| `daemon` | 3 processes, 4 inodes | `OneInstance`, `CheckAnswers`, `NoRequestIsLost`, `RestartIsNotRefused`, `RequestEnds` |
| `sign_key` | 2 processes, 3 inodes, 3 keys, crashes and failing calls | `KeysAgree`, `ReportedStays`, `LoadReturns` |
| `https` | 2 connections, 3 bytes in records of 2, a socket that takes 1 | `WritesAreTrue`, `NoStaleTimeout`, `AuthAnswers`, `CallsReturn` |
| `media_clock` | 3 buckets of 2 ticks, divisors and slew of 2 | refinement `WindowSpec`, `JitterMovesNothing`, `SettlesNearby` |
| `ts_mux` | frames around one and two packets of 188 bytes | `PacketsReassemble`, `CountersContinue`, `ClockHolds` |
| `formats` | the sets of `MCFormats` | `SpsEdits`, `SeiReadsBack`, `JpegVerified`, `JpegEdits`, `AscReadsBack`, `Base64Inverts`, `ShadowFirstLine`, `EditHolds` |
| `config_save_eintr` (violation) | the wait for the lock may be interrupted | finding 1 |
| `daemon_overlap` (violation) | a stop and a start overlap | finding 2 |

*Bounds.*

* *Saves*: two daemons are enough for a lost update (a reader and a writer between its
  read and its rename); three inodes are the file, a left-over `path.tmp`, and the one a
  power loss brings back; of two sections one is `""`. Steps of a save are not bounded.
* *config*: one daemon from a file with a key above the first header, a key written
  twice, a section opened twice, and comments of both kinds; the same with removals;
  two daemons on smaller files. All sequences of calls are explored.
* *control*: settings are a level, a CPU that exists and one that does not; two processors,
  because with one every pin is refused. A daemon starts in `/` or elsewhere, in the foreground or not,
  with an absolute path or one that means another file after the `chdir`. Sequences of commands are not bounded.
* *daemon*: with three processes one runs, one leaves and one starts; four inodes are
  more than can be open and named at a time.
* *sign_key*: a process that starts again stands for a third one. Three attempts as in the
  code (`Retries`). `FreshKeys` runs out after three keys: later creations fail.
* *https*: a response of two records, the second one shorter, sent byte by byte, has every
  place where the record layer can interrupt; two connections are enough for one to
  set the shared timeout, or find the table, between two steps of the other. Timeouts 0 and 5.
* *media_clock*: delays 0, 5 and 12 are within, at and beyond what one slew covers;
  steps of 1, 3 and 7 ticks stay in a bucket, pass one over, and pass the window.
  Three buckets have medians of one, two and three minima.
* *ts_mux*: packet size as in the code; counters modulo 3 instead of 16, a lead of 2 ticks
  and time lines from 0 or 3 to 4, in which the clock is clamped, guarded and free. `MaxTime` is the
  bound in the guard of `WriteVideo`.
* *formats*: SPSs with each optional part absent, present and repeated (sub-layers,
  scaling lists, predicted and explicit picture sets, long-term pictures, cropping, PCM),
  with values that make runs of zeros where emulation prevention works; stamps of
  extreme times between messages of 0 to 300 bytes and in every capacity around their size;
  buffers with room for one edit, two and three (`MaxSignatures` 2); all nine channel counts
  and all rates; byte strings up to 4 bytes; shadow files of up to three lines, one of them longer than
  the buffer (`LineSize` 20 instead of 512); every config file of up to 4 lines (sections) and 3
  lines (keys), with widths (key 1 or 3, value 1 to 4, comment 0 to 4, `MaxLine` 10) for which each of
  the two shortening rules applies alone and together.

*Deadlock* is checked in all runs but `config` and `formats`. In `config`, with the file deleted
and no daemon up, nothing is left to do; in `formats`, a stamp or a configuration is built once.

*Symmetry* is used for safety only (daemons and inodes of `config_save`, the two daemons of
`config`).

*Fairness.* `ConfigSave`: a daemon's thread goes on (weak fairness of its save
steps), and a daemon that finds the lock free again and again gets it (strong
fairness of `Acquire`; the kernel wakes the waiters of a flock in turn). `Daemon`: each
process takes its next step; its loop looks at `g_running` again, which is what
`rss_signal_init` hands it the pointer for. No fairness of requests, of starts, of
crashes, or of anything that fails. `SignKey`: a load takes its next system call. `Https`:
a connection's thread is scheduled, and a peer that stays takes the bytes that are on the wire; it need not
say anything, stay, or be quick. Without the second, a stalled peer holds `rss_tls_write` for ever (section 5).
`MediaClock`: the stream goes on.

## 4. Proofs

`ConfigSaveProofs` proves, for all daemons, inodes, sections, keys, values and all
faults but the two named below:

* `TypeCorrect`: `Spec => []TypeOK` (with every fault).
* `Invariance`: `Spec => []Inv`. The safety properties are not inductive: that the
  file changes only to an overlay of *its present* contents needs that a daemon between
  its read and its rename holds the lock (`LockHeld`), that the image it made is
  still the overlay of the file (`Writing`, which needs that nobody else has renamed
  since), that `path.tmp` holds what has been written of the image and is an inode of its
  own (`TmpApart`: or an O_TRUNC of a left-over file would empty the live one), and
  that the names a power loss can bring back are on disk and are of files no older than the last sync of
  the directory that passed (`StoredSinceSync`, which needs `path \in since`). `Inv` is their conjunction; the
  proof has one step per system call, with `OthersKeep` for what the other
  daemons' parts of it need.
* `LockExcludes`, `SavesAreDurable`, `NothingLost`, `NothingForgotten`: the safety and
  action properties of the runs, from `Inv`. `SavesAreDurable` says what the code can keep: a sync of the
  directory that passed is for good. That *every* save that returned 0 is stored is false (section 5).
* `Refinement`: `Spec => SharedSpec`. A save takes effect at the rename; from there to
  the clearing of its flags `SharedMem` shows the memory as settled. The fsync of the
  directory, and its writeback, are the abstract `Flush`. The proof needs `Inv` and that an overlay
  laid twice is an overlay (`OverlayIdempotent`, `OverlayOfView`).

All but the first assume that the faults are not `"eintr"` (the wait for the lock
ends without it) and not `"read"` (a file that exists cannot be read): with either
the theorem is false, see below. Assumptions on constants are those the modules name.

`DaemonProofs` proves, for any number of processes and inodes:

* whatever overlaps: `TypeCorrect`, `RequestsAreHeard` (`NoRequestIsLost`) and `RestartPasses`
  (`RestartIsNotRefused`), from `Always`. That no request is lost is not inductive: it
  needs that nobody is asked anything before the handlers are there (`Heard`); that a
  restart does not meet its own lock needs that a process before the lock holds none
  (`HoldsNothing`).
* when a start and the end of a stop are kept apart (`~Overlapping`): `Invariance`, and from it
  `LockGivesOneInstance` and `CheckFindsIt`. `Inv` ties the lock of whoever is past it
  to the inode the name still points to (`OwnsFile`), and needs the same of whoever has
  opened the file and not locked it; finding 2 is what happens without.

`SignKeyProofs` proves, for any daemons, inodes, keys and number of retries, with crashes and
failing calls, that `Spec => []Inv` (`Invariance`), and from it `OneKey` (`KeysAgree`) and `KeysStay`
(`ReportedStays`). Neither is inductive. That a load overwrites
no reported key needs that the file belongs to its maker from its creation to its fsync or to the
call of unlink, and that nothing was reported while it does (`Owned`): the unlink after a failed fsync
removes the maker's own file, or leaves it, key and all, for later loads. That readers agree with the file
needs that the inode a reader has open is the file, or is short, or holds a key whose file was taken away (`Reading`),
that a key being made is nobody else's (`Fresh`), and that a key that was taken away
does not come back (`WithdrawnIsGone`). A daemon whose step
changes only its own memory is settled by one lemma (`Elsewhere`), a step of the file's owner by another
(`Owner`). `FreshKeys` says that 32 random bytes are new; the proof rests on it.

`HttpsProofs` proves, for any connections, timeouts, and sizes of responses, records and
socket buffers, that `Spec => []Inv` (`Invariance`), and from it:

* `WritesTrue` (`WritesAreTrue`). The bytes on the wire are in order because the pending record
  goes on where the stream ends, and what `rss_tls_write` reports is right because stream and
  pending record together are what is counted and what the pending call was given (`Pends`).
  So a call that is made again, with bytes it has to ignore, returns the right count.
* `TimeoutsAreNotStale` (`NoStaleTimeout`), for connections opened one by one or at the same time: each
  sets the conf's timeout when it is opened, whatever it is, so that what the conf has while a
  connection waits was set by that one or by one opened later. It is what the comment at `rss_tls.c:160`
  promises; that it is one's own is not the case (section 5).
* `VerdictsAreRight` (`AuthAnswers`), for threads that meet the table untouched, while it is filled, or
  after. Where the table is relied on it is filled, or a thread has yet to write to it
  (`TableIsFilled`), and then the verdict is `raced`. Credentials do not change once judged.

`ConfigEntriesProofs` has lemmas only: each function of `rss_config.c` keeps the flags of its
entries and sections in agreement (`Agrees`), and does to the map they stand for what
`ConfigMemory` says of it. The next two rest on it.

`ControlProofs` proves, for any sections, keys, values, processors and sequences of commands,
restarts and crashes, that `Spec => []Inv` (`ControlInvariance`), and from it:

* `SaveOutlivesRestart` (`SavedOutlivesRestart`), for any directories and paths. It is not inductive: that a
  life answers what was promised of the file it loads needs that the file says so (`PromisesKept`, for every
  directory), also when a save of a daemon that has left its directory goes to another file than the one it
  loaded; and that an "ok" promises what it should,
  after earlier saves that failed, needs that all changed since the last "ok" is still dirty
  (`ChangesAreOwed`).
* `SectionShowsWhatIsSet` (`ShowsWhatIsSet`), from the agreement of the flags.

`ConfigProofs` proves, for any daemons, items, values and files:

* `FlagsNeverContradict` (`FlagsAgree`) and `DefaultsStayDefaults` (`DefaultsAreNotConfiguration`), whatever
  the files hold: the values a daemon meets are any set that grows with each load (`FlagsInv`).
* `SurgicalReadsBack` and `WholeReadsBack`: for every file and every memory, a load of what a save writes
  answers the overlay. `WholeReadsBack` assumes that the list of sections has each that is needed and has
  the one without a name, if it has keys, in front (`Writable`): behind another its keys would read back as
  that one's (section 5). The edit is a recursion over the lines of the file `T`, so the invariant is
  about its prefixes: what has been written for the first n lines says, of every key the save does not own,
  what those n lines say; ends in the same section; and binds each key that is put once its own line,
  or the place its new line goes to, is among the n (`BodyFollows`). New keys behind line n do no
  harm as the next line of that section is blank or a header (`AnchorIs`).
* `EditsHold`: `EditSpec => []EditHolds`, and `SavesKeepOthers` (`SaveKeepsOthers`). What else an edit keeps is
  proved with one induction: `Carried(R, T, m)` says that no single step of an edit of `T` -
  a line left out, written, replaced, a new key, a new header - leaves the set `R` of pairs of a
  written text and a number of lines read, and `EditCarried` that then the edited file is in `R`. Each property
  is a choice of `R`: the foreign lines of both are the same (`OthersCarried`); nothing visible is left
  under a removed header (`BareCarried`) and each key that is put has the line a second save would write
  (`SettledCarried`), so that the second save changes nothing (`EditTwice`); there are no more notes
  (`NotesCarried`); and the shape of a file with a section that came (`SectionComes`), which goes
  again (`SectionGoes`).
* `FlagsAndLinesRefine`: `PlainCameras /\ Spec => SharedSpec`. Every call of the library is a step of
  the shared map or a stutter. That the lines read back is `SurgicalReadsBack`; its hypothesis
  on the memory needs the invariant `SaysInv`: no daemon's memory has a value the file would
  not give back, the lines are such as a load can make, and the list of sections is `Writable`: sections are
  made by a load, a getter or a set, and without a header `[]` only the first can be the one without a name.

Assumptions: `ConfigAssumption` (a camera's daemons, items, values and first files are those of the
constants, its files are lines as a load classifies them, `Default` is a value or missing), `NamesAssumption` (names
are kept in fields of a fixed size, so there are finitely many), `WidthAssumption` (a stored key and a
value fit a line, as the field sizes ensure), `CutAssumption` (what `find_inline_comment` leaves of
a value has no " #" any more), `CasesAssumption` (the same of `ConfigEdit`) and `ControlAssumption` (settings,
inputs and CPU spellings are values). Three theorems are about values and files of which a save keeps everything: `PlainCameras` (`SavesKeepOthers`,
`FlagsAndLinesRefine`) has no value with " #" inside and not "", and no header `[]`; `PlainCases` (`EditsHold`) not "".
Without them they are false, by the code: the first comes back cut, the second, on a line with a comment, as the
comment; the third may put keys behind another section.

`MediaProofs` proves two components, which share its lemmas on remainders and finite sets. Of the muxer,
for any packet size over 32, modulus over 1, lead, frame sizes and buffers:

* `NoCounterGap` (`CountersContinue`): the next packet of a pid has the counter after the last one shown
  (`CountersInv`), also behind a frame of which the buffer took a part or nothing.
* `FramesReassemble` (`PacketsReassemble`): each packet's field and payload make up the packet size,
  and the packets carry the PES packet without gap or overlap. The packets of a frame are a prefix
  of those it needs (`Prefix`), as far as the buffer goes.
* `ClockIsKept` (`ClockHolds`): the PCR stays within the lead, on time lines that start anywhere; it goes
  on from a frame to the next one if no tables came between them or it has left the head of the time line.

Of the media clock (`Media`, an instance of its module), assuming only that module's `ClockAssumption`:

* `RingIsTheWindow`: `Media!Spec => Media!WindowSpec`. The b-th of the last seconds is at `Place(bucket, b)` of the
  ring; a frame n seconds on has emptied the slots of exactly the n new seconds and left each
  older one where its new index finds it (`PlaceMoves`).
* `JitterIsIgnored` (`JitterMovesNothing`): the median of `rss_media_clock_map` exists
  (`MedianExists`), is the only one (`OneMedian`), and is what most of the seconds have (`MostIsMedian`);
  on a clock at rest the filter then stays where it is. That the offset stays an integer
  needs the median's existence as well (`MediaInv`).

Every inductive invariant was checked by TLC on the instance of its run before it was proved.

Only model-checked: liveness (`SaveReturns`, `RequestEnds`, `LoadReturns`, `CallsReturn`,
`SettlesNearby`; fairness is out of the prover's reach); what functions on bits, bytes and segments
compute (the properties of `Formats` but `EditHolds`): they thread a reader or a remainder through
recursive functions and folds, and the provers have no rule for either. That the recursive functions
over the lines of a config file exist is itself proved (`Iterated`, from `Least`); the same
would have to be done for each of these.

## 5. Findings and observations

Findings, each with a run that shows it:

1. `rss_config.c:1037`: the result of `flock` is not looked at. SIGTERM is installed without
   SA_RESTART, so a daemon told to stop while it waits to save goes on
   without the lock. It opens the `path.tmp` they share with O_TRUNC (`rss_util.c:291`) when the holder has
   written and synced it; the holder then renames the emptied file over the configuration, which has
   nothing in it any more. (In longer behaviours each renames a whole text, and the later takes the
   earlier one's update back.)
2. `rss_daemon.c:149`: the pidfile is unlinked while its lock is held. A process that opened it
   before locks a nameless file afterwards, and the next start makes another one.

Observations, which no run states:

* Configuration: a config file that cannot be read for a moment (`open`, `malloc`, `read` fail) is
  taken for a missing one and replaced by the memory of one daemon (`rss_config.c:1044`).
* A save returns 0 also when the directory could not be synced: no memory for its name, a path without a
  slash, a failing open or fsync (`rss_util.c:327-342`). A power loss then brings back the file as it was at the
  last sync that passed, though the comment there says "so the rename survives a power loss" and
  `rss_common.h:155` promises an atomic save. `StoredSinceSync` says what holds.
* A file with the header `[]`, below another section, puts keys into the global section after that section was made.
  When such a file is deleted and saved anew, `config_write` prints sections in the order they were made and the
  global one without a header, so that its keys read back as those of the section above (`rss_config.c:582-640`).
  The comment in `rss_config_set_str` that such keys are emitted above the first header is not true of it.
* A default resolved after an unset keeps `removed` and is shown by no walk, although
  the comment at `rss_config.c:388` says it comes back.
* A getter on a section that does not exist creates it: `rss_config_foreach_section` lists it
  and `rss_config_remove_section` answers true for it (comments at 414 and 506).
* The value `""` on a line with a comment reads back as the comment. A value with ` #` in it is
  read back cut, and each save adds its tail to the line's comment.
* `rss_config_get_str` hands out a pointer into the entry, which a later set overwrites
  (`rss_config.c:299`).
* Daemon and control: SIGTERM after a restart was asked for restarts the daemon (`rss_daemon.c:151`).
  `set-log-level` and `set-affinity` are not persisted; the affinity is inherited by a restart all the same.
  A daemon with a relative `-c` path leaves the directory (`rss_daemon.c:119`)
  after the load: config-save writes, and a restart loads, another file of the same name below `/`, or the restart
  finds none and ends. The answers to restart and shutdown are plain text, for which `rss_ctrl_resp_is_ok` says false.
* Key: a daemon that dies between creating the key file and writing it leaves an empty
  file that no later load repairs; a slow creator makes the other daemon fail after
  three tries (`rss_sign.c:75`), though the comment promises that it re-reads the seed; after a
  failing fsync a reader may go on with a key whose file is taken away; and the result of that `unlink` is not
  looked at (`rss_sign.c:101`): if it fails, too, a key that was never synced, or a short file that no load
  repairs, stays.
* Muxer: tables lift the guard of the PCR also between frames in the first 33 ms of a time line, where the PCR
  then repeats, or goes back to 0 (`rss_ts.c:378`).
* TLS: a timeout of 0 makes the wait for input fail at once, though `rss_tls.h` says "0 = blocking"; later
  accepts change the read timeout of open connections, and of handshakes in progress on other threads
  (`rss_tls.c:163`: mbedTLS keeps a pointer to the conf, though the comment at 160 says it copies it, so that the
  timeout is not "for the handshake" as `rss_tls.h` has it); `rss_tls_read` returns -1 for WANT_READ; a peer that stays and takes nothing holds `rss_tls_write`
  for ever (`rss_tls.c:222`).
* HTTP: without `rss_base64_init` ("call once at startup", `rss_http.h`) two threads may empty and fill the table
  at the same time, and the verdict of one is anything while another does. An empty user turns the
  authentication off (`rss_http.c:64`, as `rss_http.h:27` says). Credentials longer than the buffer fail, though the comment at `rss_http.c:87` says
  they are truncated.
* VUI: an SPS cut right behind an emulation prevention byte takes that byte for data. `vb_ue` with 32 leading
  zeros shifts by 32 (undefined); no field of an SPS is that large.
* AAC: the comment at `rss_aac.c:4-7` says "explicit hierarchical SBR signaling (AOT 5 wrapping an LC core)"; the
  code (45-69), its comment there and `tests/test_aac.c` have the backward-compatible form, AOT 2 first and the
  extension behind it, which is what `Aac` has and `AscReadsBack` reads.
* JPEG: an EXIF segment of another program, if at least as large as ours, is read at our offsets.
* Shadow: a line over 511 characters is read in parts, and a later part is looked at like a line.
* Media clock: an error of less than about 15 + 15 us is never corrected, by the two truncations.

## 6. Not modelled, and why

Third-party code (cJSON, monocypher, mbedTLS beyond what its callers see); helpers without
state (strings, time stamps, sockets, `rss_mkdir_p`, the control client's one round trip);
parsing of single values (`strtol`, booleans); lengths of names; the JSON of the control
commands; creation and release of TLS contexts; real-time priority; log targets and the layout
of lines; the bytes of TS tables, CRC and 33-bit time stamps; the layout of EXIF; the constant-time comparison
of credentials; pids of other programs; a daemon's threads inside one configuration (`rss_config.c`
has no lock and its header asks for one thread).

## 7. Plan

Done: 1. configuration, daemon, signing key, muxer; 2. media clock, TLS and HTTP, formats, control
commands with the configuration over restarts; 3. proofs of all components with a state: every safety
invariant and action property of the runs but those of bits, bytes and segments; the lines of a config file.

Left, in this order:

1. *Composition*: Daemon with the save that a SIGTERM interrupts, so that finding 1 follows from the
   handler instead of from a fault; SignKey with Jpeg, for signatures across a withdrawn key.
2. *Media clock*: the offset crosses to a lasting change within half a window, on a larger window.
3. *Proofs*: `Base64Inverts` and `ShadowFirstLine`, once their recursions are functions over positions
   as those of `ConfigText` are.
