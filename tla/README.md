# dmapd: models, checks and proofs

TLA+ modules for dmapd, a daemon that shares music and photographs over DAAP
and DPAP.  The source is `src/src/` of the repository; a line number below is a
line of a file there unless another path is given.  `PROJECT.json` maps every
definition that models code to its lines.

## The system

dmapd is one process with one thread of its own (GStreamer has more).  `main ()`
reads a configuration file and a command line, becomes a daemon, builds one
share for music and one for pictures, publishes them through libdmapsharing
and runs a GLib main loop in which clients and remote controls are answered.

| Component | Source | State | Operations |
|---|---|---|---|
| Media database | `dmapd-dmap-db-ghashtable.c` | a table id -> record; the static `nextid` | constructor (loads cached records), add, add_path, lookups, foreach, count |
| Record cache | `util.c` (`cache_path`, `cache_store`), `cache_read` | `<hash>.record`, `<hash>.data`, `<hash>.thumb` in `db_dir` | store, read, unlink |
| Directory walk | `db-builder-gdir.c` | one call per directory level | open, read, recurse, skip, add |
| Containers | `dmapd-dmap-container-*.c` | container records, their ids, their entries | add_entry, get_entries, count |
| Transcoding | `util-gst.c`, `dmapd-transcode.c` | `.data` files, the records' location, format, size | transcode_cache, do_transcode; the tool that runs them alone |
| Shared strings | `util.c` (`stringleton_*`) | string -> count | ref, unref |
| Records | `dmapd-daap-record.c`, `dmapd-dpap-record.c` | properties | set_property, to_blob, set_from_blob, finalize |
| Tag reader | `av-meta-reader-gst.c` | a pipeline, a loop, idle sources, timers | read |
| AirPlay renderer | `av-render-gst.c` | pipeline, cue, play state, a nested loop | cue_play, cue_clear, pause, play_pause, next_item, bus messages |
| Daemon life | `dmapd.c` | lock file, pid file, user, `loop` | daemonize, drop_root, SIGTERM, exit |
| Options and shares | `dmapd.c` | the globals, the shares, the remote's share, `_guid` | read_keyfile, option parsing, serve, RAOP callback, pairing callbacks |
| Berkeley DB database | `dmapd-dmap-db-bdb.c` | a file id -> record, the static `nextid` | as the media database |
| Disk database | `dmapd-dmap-db-disk.c` | a table id -> hash, record files, the static `nextid` | as the media database |
| Photograph readers | `photo-meta-reader-*.c` | VIPS images of one read; the record and its thumbnail | read |
| Module loader | `dmapd-module.c`, `util.c` | table of modules | object_from_module, parse_plugin_option |
| Other tools, tests | `dmapd-hashgen.c`, `dmapd-*-test*.c` | none | not modelled |

How they interact: `main ()` (Startup) decides which shares there are;
`serve ()` makes a database, whose constructor loads the cache, walks the
directories into it (MediaDb; the recursion is in Containers), has each record's
tags read (MetaReader, or PhotoReader for pictures), lets `transcode_cache`
replace records (Transcode), and only then publishes.  Records of all databases share strings (Stringleton).
Remotes reach the renderer (Render) through callbacks of the main loop and the
share that `main ()` has created for them (Daemon composes the two); the start and
end of that loop is Lifecycle's.

What is hard here: files change between the times they are hashed and read;
the daemon can die between any two steps and the next one starts from what is
on the disk; caches are keyed by content while records are looked up by
location; a counter is shared by two databases; timers and idle sources outlive
the operation that made them; a callback runs a loop in which further callbacks
run; starts race for a lock and a pid file; signals arrive before the loop they
end.  These are the `hazards` of `PROJECT.json`, each at its line.

## The modules

| Module | Models | Proofs | Run (passing) |
|---|---|---|---|
| DmapDb | what any database promises: new ids, records that stay, nothing changes once published | | (as `Contract`) |
| MediaDb | cache loading, walk, add_path, cache_store, publication, crashes, upgrades | MediaDbProofs | MCMediaDb_build |
| Transcode | transcode_cache and do_transcode over any number of runs of the daemon and the tool | TranscodeProofs | MCTranscode_cache |
| Stringleton | reference counts of shared strings | StringletonProofs | MCStringleton_shared |
| Lifecycle | processes, lock, pid file, user, SIGTERM | LifecycleProofs | MCLifecycle_daemons |
| Render | the player with its nested loops | DaemonProofs | MCDaemon_remote |
| MetaReader | reads of music, one after another on one loop | ReadersProofs | MCReaders_reads |
| PhotoReader | reads of a photograph, its thumbnail, its cached record | ReadersProofs | MCReaders_reads |
| Readers | the two readers of a daemon (composes MetaReader and PhotoReader) | ReadersProofs | MCReaders_reads |
| Containers | nested walks that fill containers | ContainersProofs | MCContainers_walk |
| BdbDb | a database in a file that outlives processes | DbModulesProofs | MCDbModules_shares |
| DiskDb | a database of hashes and of files nobody finds | DbModulesProofs | MCDbModules_shares |
| DbModules | the module loader with either of the two (composes BdbDb and DiskDb) | DbModulesProofs | MCDbModules_shares |
| Startup | options, shares, the remote's share, pairing | DaemonProofs | MCStartup_options |
| Daemon | main () with the player it hands to remotes (composes Startup and Render) | DaemonProofs | MCDaemon_remote |

State and actions carry the source's names where they can.  A variable's comment
names the C variable; an action's comment names its function.  In each module a
section "Slips" holds mistakes that could plausibly be made in the code; each
property of a passing run is violated when the slip named for it in
`PROJECT.json` takes the definition's place.

### MediaDb

One action for each step between which something else can happen: `Start`,
`LoadEntry` / `UnlinkEntry` / `PassEntry` / `EndLoad` (the constructor), `OpenDir`,
`SkipFile`, `HashFile` (a record is made and the file hashed), `ReadMeta` (tags
are read from the file, opened again), `StoreRecord` (the file is hashed a third
time to name the cache entry), `InsertRecord` (an id is given), `Serve`, `Stop`
(at any step) and `WriteFile` (somebody else).  A content is its own hash, so
collisions of the hash are left out, and what is read of a content is determined
by it.  A path is a location as the builder spells it: two spellings of one
directory make two locations of each file, here and in the code.

`Moving` is the set of files that may change at any step; the others change only
while the daemon is down.  A moving file can be filed under a content its record
was not made from, because `cache_store` hashes once more, and it can do so in
the entry of another file.  The properties about contents are therefore about
each file that keeps still, *whatever the moving ones do*; `IdsContiguous`,
`Contract` and `CacheServed` are about all files.  The proofs are for every set
`Moving`, the empty one and all of `Paths` included.

What the constructor leaves behind is kept in two histories: `unread`, entries
that could not be read, and `stuck`, stale ones that could not be unlinked
(nobody looks at what `g_unlink` returns).  `CacheServed` says that nothing else is in the
cache after loading that is not served; `CacheUsed` excepts entries that could
not be read.

The instance has two files, of which one moves, two media contents, an
overlapping second directory, a version upgrade, a change of the acceptable
formats, and a cache that can be written, is full or is missing: two files are enough for equal contents, for a file that
takes the place of another and for an order of adding, and six ids for every
addition a run can make.

`Contract` is DmapDb with the table as its catalogue: loading and walking are
its `Add`s, `Serve` its `Publish`, `Stop` its `Restart`.

### Transcode

`<hash>.data` is written in place, block by block, and only its existence is
tested.  What holds all the same: it is written by one visit only
(`NeverRewritten`) and a record that points at it has its length
(`LengthsAgree`); while files keep still under the daemon (`Frozen`) it is made
from the content it is filed under (`DataCoherent`) and a record points at that
of its own.  With files that change it need not be.
`clean` is a history variable: nothing has failed and no run was cut short so
far.  As long as it is TRUE, and there is one target, all that is served is whole
and in the target format (`AllTranscoded`).  That it may not be whole otherwise
is the run MCTranscode_crash; with several targets it may have the format of a
former one.  `Formless` targets are MIME types that
`dmap_mime_to_format` has no format for: every record is passed over.
`do_transcode` jumps over the initialisation of `outfile`
when the original cannot be opened; closing it may end the process, which is one
of the cases of `Stop`.

`tool` tells whether a run is the daemon's or dmapd-transcode's, which visits
the records in the same way and ends (`ToolEnds`) instead of serving.  Without
`-t` it aborts at the first record that has a format (`NoTarget`).  Its output
directory is taken to be the daemon's cache, as its use is meant, and the two
not to run at the same time.

### Stringleton

Properties of records are set, cleared and finalized in any order.  Finalize
does not unref the sort fields (`Unreleased`), so counts can get too high, never
too low: `NoneFreed` holds always, `NothingKept` (exact counts) until such a
record is finalized (`tidy`, a history).  `MaxCount` stands for the width of the
counter; the instance stops counting at 7, above the 6 slots there are, so the
bound is met only by strings that leaked.

### Lifecycle

Every pid has a place in `main ()`.  Starts, forks, kills and SIGTERM come at
any time and a pid is reused.  All processes have the same `-l` and `-i`;
processes with other lock files have nothing to do with each other.
`running` is the loop's own flag: quitting a loop that does not run yet is
forgotten by `g_main_loop_run`, which is why `AlwaysStops` fails
(MCLifecycle_sigterm).  The loop is left between callbacks only
(`EnterCallback`, `LeaveCallback`), and `AlwaysStops` asks no more than that:
what keeps a callback of the renderer or of pairing from returning is in Daemon.
Writing the pid file may fail, unnoticed; `written` is a history of who has
written it.  A process that stays in the foreground takes no lock and keeps its
user.  Pids of one and two digits let a shorter pid
follow a longer one.  Fairness: a process that can go on does
(`WF_vars(Step(p))`); the walk of `serve ()` ends, since `RunLoop` is among the
steps; nobody has to be started, signalled or killed, and no callback has to
return.

### Render

`cue_play` is two actions: `CuePlay`, up to `g_main_loop_run`, and `Return`;
what happens between them, further cues included, happens inside it.  All the
loops are one object, so `running` is one flag, `depth` is the number of calls
that wait and `quits` the idle sources that will call `g_main_loop_quit`.  That
function returns nothing but is used as an idle callback, whose return value
tells GLib whether to keep it: `QuitStays` is the set of outcomes a build can
have, both in the run.  Requests that dereference a NULL song end in "crashed";
`MessagesHarmless` says that no message of GStreamer's does.

`transition_pipeline` goes through GStreamer's states in order.  Each step may
be refused, so a pipeline ends up anywhere on its `Way`; and on the way up
(`Raise`) GStreamer may never answer, which leaves the process in "hung": the
callback waits, and nothing is dispatched.  On the way down (`Lower`) GStreamer
answers at once, but may refuse.  The caller sets `play_state` after the wait,
whatever came of it.  `orderly` is a history: the remote has cleared each cue
before the next, and no pipeline has refused to come down.  As long as it is
TRUE nothing is orphaned and what is said to be stopped is silent, whatever has
been refused or waits on the way up.

### Daemon

Startup and Render in one process.  Requests come through the remote's share
alone (`Requested`), and whatever arrives at `main ()` in its loop is dispatched
by that loop or a nested one (`Serving` asks for `Player!Listening`).  While the
terminal is asked for a passcode nothing is dispatched: the player's songs play
on, but no idle source, message or request is answered; only the signal handler
still runs (`Terminated`).  That is why `CueReturns` lets a cue wait for a passcode.
The logout and login of remotes do not restrict requests: whether a request
needs a session is libdmapsharing's to say, so the model admits it from anybody.

Fairness: while the main context is dispatched idle sources are, and a loop that
was quit returns (`Return`, `Quit`, `Exit`; all are disabled when the process is
hung or asks for a passcode).  No song has to come to its end, GStreamer need not
answer, nobody has to enter a passcode, find a remote or request anything.  So
`CueReturns` and `SigtermEnds` name what may keep a callback for ever: GStreamer,
the terminal, and for SIGTERM a cue that is not over.  The last is an exception
that the documents do not make (see "Differences").

Bounds: 2 pipelines, 2 songs, 2 nested cues, 2 quits that are told
apart, one option on the command line (`-o` is the one that matters; the
music directory comes from the configuration file), one host with one port, one
remote.  Two pipelines are the least with which one can be lost hold of, two
nested cues the least with which one returns into another.
The safety properties are proved for any number of each.

### MetaReader

An iteration of a GLib loop dispatches the timers that are due or else all idle
sources there are at that moment, and looks at `is_running` between iterations;
`here` to `last` is the rest of the iteration (a source that stays lets `here` move
on, one that is removed makes the rest shorter).  Three reads let a timer or a quit outlive
its own read and the next.  `PausedInTime` holds in spite of those; `QuitInTime`
does not (MCMetaReader_timer).  With `Hangs` a pipeline may never reach its
state, which the code waits for without limit; and a paused pipeline that does
not stop ends the daemon (`g_error`).  `ReadEnds` says that a read ends in one of
these ways.  Fairness: the loop goes on and timers fall due; a decoder owes
nothing.

### Containers

The stack of calls of the walk, each with the container record it fills.
`Refused` files get no id; `Unreadable` directories yield nothing.  The
instance has three levels, an unreadable directory, and media directories given
twice, in either order and inside one another.

Media and containers share one space of ids, from its two ends.  `IdsApart` says
that neither side issues an id twice and that the sides do not meet as long as
all ids taken fit.  `Base` is 10, so that in the longest walks they just do: a
file that is refused and takes an id all the same would make them meet.

### PhotoReader, Readers

One photograph over any number of runs.  Each step of
`photo_meta_reader_vips_read` that can fail or choose is an action: the header,
the embedded thumbnail, the version libjpeg shrinks while loading, the whole;
then the shrink by an integer and the residual scale.  Sizes are the code's
integer arithmetic (`Shrink`, `Whole`, `JpegShrink`); where a library may round
either way the model takes every size it may return (`Loaded`, `Shorter`).
`refs` are the references to VIPS images with their holders: everything hangs on
`process` and goes with it, in any order in which nobody holds it any more.
`ReadWand` is the GraphicsMagick reader, which keeps no images.

`limit` and `source` in a record are histories.  `ThumbnailFits` and
`NeverEnlarged` are about them for every record there is, so that a thumbnail
cached for one width and served under another is not blamed on the second.
`ReadOnce` is about restarts: what is in the cache is in the table before the
walk begins.

The instance has photographs larger than, as large as and smaller than the
widths, wide, tall and one too thin to be shrunk, with embedded thumbnails that
do for one width and not for another; the proofs are for all sizes.

Readers puts the two kinds of readers side by side: `serve ()` is through with
one kind before it begins the other, so each behaviour is of one kind.

### BdbDb, DiskDb, DbModules

The Berkeley DB file outlives the process, the counter does not.  The databases
are never closed, so at the end of a process any part of what it put may have
reached the file (`Stop`).  With two databases in a process only `IssuedKept`
holds, because `count` and the scans of one use the counter of both, and a lookup
that comes across an old record whose file has changed ends the process by an
assertion (`LookupAborts`).  `OnlyFresh` (which includes that `count` is right)
and `Contract` hold as long as the process has opened one (`Single`).  The two
songs and the two versions are each
interchangeable (SYMMETRY; all the run's properties are safety properties).
`Base` is 3: there are 3 files, and with Berkeley DB a process adds each once.

The disk module keeps the hash of a location and compares it with the location
itself (`Found`), and reads a record under that hash while `cache_store` named
it after the content: nothing is ever found, what `db_dir` holds makes no
difference, and a file under two directories is added twice (`AddPath` may
leave it in `todo`; at `Base` the model stops adding).  What it keeps of DmapDb
is about ids, and that it keeps for both databases of a process together:
`DiskContract`.

`UseModule` is the table of `dmapd-module.c`: the second share finds the module
there.  `LoadFails` is the assertion of `serve ()`.

### Startup

All configuration files with lists of up to one member, all command lines of up
to two options (`MaxArgs`), four sets of modules, and six options of the
renderer's module: none, one host, two of which the last counts, another key, a
word that swallows the key behind it, and a word at the end, which is an error.
`-u` stands for all string options.  Services are announced in any order and
number.  The model has the order in which the sources are read, which is what
decides who wins.

Two remotes are found, answered on the terminal with a right or wrong passcode
(the main loop stands still in `scanf`, state "asking"), report that they were
paired with at any later time, and come and go.  There is one `guid`.  An entry
of more than four characters is stored past its buffer (`OverrunPasscode`): the
process dies, or goes on as after any entry.

## The runs

| Run | Shows |
|---|---|
| MCMediaDb_build | one id per file, contiguous; fresh records; a coherent cache that is used and holds what is served; a complete share; the contract; startup ends |
| MCTranscode_cache | daemon and tool in turns: data coherent, written once, lengths right, all transcoded when nothing fails, the loop ends |
| MCStringleton_shared | no string in use is freed, none is kept |
| MCLifecycle_daemons | one daemon for a lock file, its pid file kept, a second start ends |
| MCDaemon_remote | a daemon that renders, from its options to the remote: nothing orphaned, stopped is silent, messages harmless, cues return, SIGTERM ends it, each with its premises |
| MCReaders_reads | music: no read pauses another's pipeline, every read ends, or hangs or aborts in GStreamer; photographs: thumbnails fit and are made of enough pixels, images are held and let go, what is cached is not read again |
| MCContainers_walk | entries in place, counts right, all contained, ids apart |
| MCDbModules_shares | Berkeley DB: issued ids kept; with one database fresh, counted right, the contract; disk: ids keep the contract |
| MCStartup_options | what was asked for is served, the command line wins, the renderer stays and lets in whom it paired with |
| MCTranscode_crash | *violated*: a piece is taken for the whole file (`util-gst.c:222`) |
| MCLifecycle_sigterm | *violated*: SIGTERM while the shares are built is lost (`distro/dmapd.openwrt:14`) |
| MCMetaReader_timer | *violated*: a late timer ends a later read (`av-meta-reader-gst.c:431`) |

Deadlock is checked except in Daemon and the readers (the process may exit,
crash or hang) and Startup (it ends or waits).

## Differences that no run shows

Met while modelling; the models have this behaviour, and the properties above
are stated so as to be true of it.

- `distro/dmapd.conf:21` "Restrict (pre-transcode) formats that will be served":
  only `add_path` asks for them, not the constructor (`LoadEntry`), so that
  records of a format that is no longer acceptable are served as long as they
  are cached (`dmapd-dmap-db-ghashtable.c:155`).
- `distro/dmapd.conf:25` "Mimetype to transcode to before streaming": the name
  of a `.data` file does not say its target, so that what a run with another
  target made is taken for the present one (`util-gst.c:202`).
- `util-gst.c:222` "Replace previous location with URI to transcoded file": an
  original that is written after it was hashed and before it is opened again is
  filed under the hash of another content, whose files then get it.
- `distro/dmapd.openwrt:14` stops the daemon with `killall dmapd`: SIGTERM quits
  the loop of `main ()`, but not the one that `cue_play` runs in a callback of it
  (`av-render-gst.c:328`).  With a paused cue the daemon never ends.
- `av-render-gst.c:44` "Song currently playing": when a cue has come to its end
  (line 332) `song_current` still names its last song, and a remote is told so.
- `distro/dmapd.conf:38` "Restrict formats that will be served" of pictures: the
  value is appended to the directories of pictures (`dmapd.c:387`).
- `README:22` "Caching of photograph thumbnails to avoid regenerating them each
  time": of two files with one content only one has its record cached, and the
  other is read again at every start (`util.c:314`).
- `README:70` "Path to PID file": the file is not truncated (`dmapd.c:251`), so
  after a longer pid it does not name the daemon.
- `README:76` "User to run as": with `-f` it is ignored, as is the option of the
  configuration file (`distro/dmapd.conf:8`): only `daemonize ()` calls
  `drop_root ()` (`dmapd.c:617`).
- `TODO:134` asks whether ids of an existing database are right: in BDB they are
  given again from the top (`dmapd-dmap-db-bdb.c:221`); and a second database
  counts the first one's records (line 121), and may end the daemon by the
  assertion of line 90 when an old record among them is stale.
- `dmapd.c:422`: a passcode is read into five bytes without a limit.
- `util-gst.c:79`: transitions are waited for without a limit; a remote's request
  can keep the whole daemon waiting.
- A media directory given in two spellings (`/music`, `/music/`) is served twice:
  locations are compared as strings (`db-builder-gdir.c:90`).
- `README:54` "--music-dir": the long names end in `g_error` (`dmapd.c:139`).
- `dmapd.c:611` lets `-o` through without `-m`: the remote's share gets a
  database nobody set (`dmapd.c:460`).
- `dmapd.c:405` "handle multiple remotes?": with one `_guid` the remote that is
  paired with last is the only one that is let in again.
- `util.c:42` on the form of a plugin option: a word without "=" is not refused
  unless it is the last; it becomes part of the key behind it, whose option is
  then not seen (line 54).
- `photo-meta-reader-vips.c:250` "libjpeg handles multiscan JPEGs differently.
  Avoid this because of memory use on small devices": the header's image is
  returned and shrunk all the same, so that the JPEG is decoded in full.
- The thumbnail of a photograph that is too thin to be shrunk, or whose
  shrinking failed once, is empty, and is cached like that for good
  (`photo-meta-reader-vips.c:513`); changing `-w` does not touch what is cached.
  GraphicsMagick keeps the whole picture in these cases
  (`photo-meta-reader-graphicsmagick.c:127`).
- `photo-meta-reader-graphicsmagick.c:94` gives records a location that is no
  URI: they cannot be cached, found by location, or fetched.
- The disk database does not find what was added
  (`dmapd-dmap-db-disk.c:130`, and line 50 against `util.c:314`), adds a file
  under two directories twice, and does not ask for acceptable formats.
- `dmapd-transcode.c:133`: the tool's SIGTERM handler quits a loop that is never
  run, so the signal does nothing.

## What is proved

TLAPS checks the following for every value of the constants that satisfies the
module's ASSUME.  Each follows from an inductive invariant, one step per action.

- **MediaDbProofs.** `TypeInv` adds to the types what an addition in progress
  has in hand at each step.  `IdsInv` ties `nextid`, `base` and the table, and
  gives `IdsAlwaysContiguous`; from it and `TypeInv`, `ImplementsDmapDb`: every
  step is a step of DmapDb or a stutter.  For `ExactlyOnce` the inductive part
  is `Steady`: besides the property itself that what is in hand is of the file
  as it is, that what is still to be loaded is not in the table, and that cache
  entries are coherent, from which distinct entries have distinct locations
  (`CacheStaysCoherent`, `RecordsAreFresh`, `EachFileOnce`): all for each file that
  keeps still, beside others that do not.  `Kept` follows each
  cache entry from its name to the table or to the histories of what could not
  be read or removed (`CacheAlwaysServed`, and with `HandFresh` and `StuckStale`
  `CacheAlwaysUsed`); `Walked` says that `dirs` is a suffix of the
  configured directories and every file of those before it is in the table or on
  its way there (`SharesAreComplete`).
- **TranscodeProofs.** `Safe`: data a record names exists, and the visit in
  progress owns what it writes; hence `DataNeverRewritten`.  `SameContent`,
  under `Frozen`: key, data and file agree; hence `DataStaysCoherent` and
  `LengthsAlwaysAgree`.  `AllAlwaysTranscoded` adds what is known while `clean`:
  finished data is whole and in the target format.
- **StringletonProofs.** `NoneFreed` is not inductive (it says nothing of a
  string with two holders and a count of one); `Counted` is: counts cover the
  number of holders, and equal it while `tidy`.
- **LifecycleProofs.** `Alone`: every daemon past the lock holds it, and one that
  has written the pid file finds its pid there.
- **DaemonProofs.** Of the player, `Kept`: the two properties of an orderly remote
  and the types are inductive together (`Lowered`, `Raised` say once what a
  transition can do).  `PlayerSurvivesMessages` needs no
  invariant: it holds of each message from any state.  Of `main ()`, `StartInv`
  follows the options from their sources to the shares: while the command line
  is parsed each list is that of the file and behind it what the options so far
  have added, in order (`Adding`; `AddsUp` counts where the value of each
  option is to be found, so that no recursion is needed), and the user is what
  was said last (`Saying`); what the checks found stays true, since no option
  changes after them (`Checks`); and each share has what `serve ()` was given
  (`Served`).  Hence `EverythingAskedFor`, for command lines and lists of any
  length.  `RemoteInv` says that `_guid` is of a remote that was paired with, and
  that a share for remotes is there only for a renderer that was asked for and
  has its host: `RemoteSideKept`.  Of both, `EachPart`: the steps of each part
  leave the other's state alone, so what is proved of either holds of the
  daemon.  `PlaysForItsHost` relates them: until there is a share nothing has
  been played (`QuietInv`), and there is one for the right host alone.  It is a
  theorem only and has no run.
- **ContainersProofs.** `Placed`: every frame of the stack and every container
  has entries of its own directory (`EntriesAlwaysInPlace`).  `Numbered`: the
  container ids on the stack and in the database lie below the counter and
  belong to one record each; `Counts`: media ids lie above theirs, and no file
  that a frame has still to read is among its entries, from which no container
  lists a file twice (`CountsAlwaysAgree`); as many media ids were taken as there
  are files, so that the two counters have not met while all ids taken fit
  (`IdsAlwaysApart`).  `Promised`: a file
  due in a container has its directory still below what is pending, or to be
  read, or open, or closed with the file in it; opening a directory moves what is
  below it from the first to the second (`Opened`).  What is reached is the least
  set closed under reading, so that no induction is needed
  (`AllAlwaysContained`).
- **ReadersProofs.** Of photographs, `IInv` has four parts besides the types: the sizes at
  each step of a read (`SizesInv`), where the arithmetic is: that the integer
  shrink leaves at least the width and the residual scale brings the longer side
  to it; who holds which image (`HoldInv`); and that what is cached is known
  while the walk goes on (`CacheInv`).  Hence the four properties of
  photographs, for all sizes and widths.  Of music, `PauseInv`: a read that has
  not paused its pipeline has exactly one source that will, which the iteration
  in progress, if there is one, still comes to; nobody else has any; and between
  iterations the loop of such a read has not been quit.  The last part is why
  late timers do no harm here: a quit that was left behind by an earlier read is
  dispatched in the iteration that pauses as well, one that is added later comes
  behind, and `is_running` is not looked at before the iteration is over.  Hence `PausedInTimeTheorem`, for any number of
  reads and whatever GLib makes of the callback's missing return value.
  `EachReader`: the readers of a daemon refine both modules.
- **DbModulesProofs.** For Berkeley DB, `Safe`: issued ids lie between the
  counter and the base and in the store; `Fresh`: all that is scanned was
  issued, while one database is open; with `Waiting` (no database is opened
  twice, the walk comes to files that are there) every step is one of DmapDb,
  and opening a second database is its Restart.  `OneModule`: a daemon that loads
  either module behaves as BdbDb, or its Berkeley DB state is never touched; so
  that the three results (`IssuedAlwaysKept`, `OnlyEverFresh`,
  `BdbImplementsDmapDb`) hold under `ModulesSpec`, which the run checks.  For the disk
  module, that ids of all tables lie above the counter and belong to one table,
  from which every step is one of DmapDb or a stutter
  (`DiskImplementsDmapDb`).

Assumed: the named ASSUMEs (sentinels differ from data, sets have the types
their comments say), and for IsFiniteSet what FiniteSetTheorems states.

Only model-checked: liveness (`Started`, `Published`, `SecondStartEnds`,
`CueReturns`, `SigtermEnds`, `ReadEnds`), because fairness is defined with ENABLED,
which the prover cannot expand.  Every other property of a passing run is a
theorem.

## What is assumed of the surroundings

- `readdir` does not return a name twice because its file is rewritten while
  the directory is read (POSIX leaves it open); a *new* name may or may not be
  returned.
- `g_file_set_contents` replaces a file in one step.
- GLib dispatches as described under MetaReader.
- Ids do not run out: 2^31 - 1 of them.

## What is not modelled, and why

- The layout of blobs, tags (`insert_tag` is a table from tags to properties),
  Exif and pixels: the models keep what a record was made from.
- How GStreamer's elements are made and linked; volume and time of the renderer.
- A tool and a daemon that transcode into one directory at the same time:
  nothing in the code or its documents speaks of it.
- Symbolic links that make the directory tree infinite.
- `dmapd-hashgen.c`, `usage_dmapd.c` (one library call, one text) and the tests.

## Plan

All of the daemon and of the transcoding tool that changes state is written
down and checked.  The order was: the database and its cache (MediaDb, DmapDb),
transcoding, shared strings, the daemon's life, the renderer, the readers,
containers, the database modules, the command line with pairing, and last
the daemon as a whole with its player.

What could be added:

- a composition of Containers with MediaDb, so that the cache of earlier runs and
  the tree meet in one run: today the walk of MediaDb has a list of directories
  and that of Containers has no cache.
