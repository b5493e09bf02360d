# Specifications of shvapp

shvapp is a collection of programs around the SHV message broker: history
providers that cache the logs of devices, a device agent with a remote shell, a
provider of site descriptions, bridges, monitors and user interfaces. The
programs are event driven (one Qt event loop, callbacks, timers, futures) and
talk by RPC calls and signals through the broker; broker, journals and RPC
classes are in libshv, which is not part of the repository.

This directory holds TLA+ modules of the parts with state and protocols worth
checking, TLC configurations, and TLAPS proofs. Paths below are relative to the
repository; `hp3` is `historyprovider3/src`.

## Inventory

| part | state | operations | talks to |
| --- | --- | --- | --- |
| hp3 file synchronisation (`shvjournalnode.cpp`) | journal files of every site, `dirtylog`, syncer with queue, buffers, counter | sync, list, read chunk, write, trim, record a signal | devices and slave providers (`lsfiles`, `read`), signals |
| hp3 scheduling (`shvjournalnode.cpp`) | round robin position, age cache, `syncInProgress` flags, groups of futures | timer, `syncLog`, mount signal, record, end of a sync | file synchronisation, callers |
| hp3 legacy sync (`shvjournalnode.cpp`) | downloaded entries, file name hint, `since` | batch, split, finish | devices (`getLog`) |
| hp3 cache sanitizer (`shvjournalnode.cpp`) | files below the cache directory | delete the oldest files | the same files |
| hp3 push log (`sitenode.cpp`) | journal files of the site | `pushLog` | devices that call it |
| hp3 site state (`sitenode.cpp`) | alarms with staleness, overall alarm, online status, type info | value change, `dir` answers, type info load, `getLog`, `alarmLog` | value cache, devices |
| hp3 value cache (`valuecachenode.cpp`) | path -> value | signals, `get`, unmount | site state, callers |
| hp3 life cycle (`historyapp.cpp`) | connection, loading flag, tree of nodes and slaves, subscriptions | connect, disconnect, `reloadSites`, `getSites`, retry | sites provider, all nodes |
| shvhistoryprovider (older provider) | log files and dirty log per device, tasks, monitor lists | check log, request log, sanitize, clean disk, merge logs | devices, sites provider |
| shvagent | commands, scripted tester, launched shells | `runCmd`, `launchRexec`, test steps | broker, processes |
| shvrsh, shvrexec | two ends of a tunnel | open, data, close | each other through the broker |
| shvsitesprovider | directory of sites, archive and its hash | timer, `reloadSites`, git, tar | clients, git |
| shv2mqtt, shvbrclabprovider, brcgate, revitestdevice | bridge, file server with users, simulated devices | forward, users file, device commands | broker |
| hscope (Lua), hscope-old (C++) | tables of handlers; tree of statuses and tests | evaluate, subscribe, timers; run tests, alert | broker, telegram |
| bfsview, jn50view, flatline, shvsites and small tools | widgets | show values | broker |
| shvbroker | none of its own | starts libshv's broker | |

What is hard, and what makes each part correct:

* **File synchronisation.** Files grow while chunks of them are read; chunks,
  listings and whole syncs fail; a reload drops a sync; the process may die
  between two writes; signals are recorded meanwhile. Correct means: a cached
  file is a prefix of the remote one, there are no holes below the newest
  cached file (no later sync would fill them), and trimming the dirty log loses
  nothing that is not in a cached file.
* **Scheduling.** Three sources start syncs of overlapping sets of slaves, the
  flags are cleared by queued continuations. Correct: one syncer per slave, no
  flag set for ever, every slave has its turn, a caller that waits is answered.
* **Legacy sync.** A batch may end between two entries of one millisecond; the
  next starts at a time. Correct: the cache holds the device's entries without
  gap or repetition at every cut, each file begins with a snapshot.
* **Push log.** The acknowledgement is lost, the process dies in a piece.
  Correct: what is acknowledged is stored, once, in order.
* **Site state.** Values, type info, `dir` answers and timeouts come in any
  order. Correct: alarms are those of the last values, site-offline is there
  exactly while Offline, every change is signalled.
* **Life cycle.** Connection changes, requests and retries reload the tree.
  Correct: one load at a time, a tree never outlives the connection its
  subscriptions belong to, loading ends when the sites provider answers.
* **Sites provider.** git clones and tars overlap, fail and are killed, a merge
  may stop half way. Correct: what is merged is as in git, files that users put
  there stay, archive and hash are those of the directory, every version arrives.
* **Tunnel.** Three processes find each other by request ids that different
  processes count, callbacks expire, either end goes away. Correct: one shell
  behind one client, data in order and unmixed, no process left for ever.

* **Value cache and requests.** Changes, answers and mounts overtake a get;
  which file a request begins with depends on times at the borders of files.
  Correct: the cached value is the site's, the chosen files hold what is asked
  for, and all parts agree on the directory of a site.
* **Older provider.** Downloads come in chunks while signals go to the dirty log,
  files are damaged, the connection is lost, the process dies; a scheduler picks
  the next device. Correct: a file holds its whole interval, an entry leaves the
  dirty log only for a file, a check that finds nothing wrong is right, one task
  per device, what was acknowledged is kept until the cleaner takes it.
* **Agent, shvrexec, revitestdevice.** Steps go on by answers, signals and
  timers; a process can fail to start, crash or end with output unread. Correct:
  steps in order, one response per request, no output lost before the end.
* **Bridge, users, hscope.** Either connection is lost, a file is cut before it is
  written, handlers run again at every connection. Correct: no old value after a
  new one, grants as acknowledged, the status follows the device.
* **hscope-old and views.** Late answers, polls that overlap, files read half
  written. Correct: the worst status is shown above, no update is skipped, what
  is drawn is what the device had a moment ago.

PROJECT.json lists the hazards at their lines, with the properties that would
show each going wrong.

## Modules

| module | models | root of its runs | proofs |
| --- | --- | --- | --- |
| `FileSync` | hp3: `FileSyncer`, `trimDirtyLog`, recording of signals | itself | `FileSyncProofs` |
| `Replica` | what `FileSync` promises: an abstract replicated journal | `FileSync` (refinement) | `FileSyncProofs` |
| `SyncSchedule` | hp3: timer, `syncLog`, mounts, flags, waiting callers | itself | `SyncScheduleProofs` |
| `SitesReload` | hp3: `reloadSites`, `initializeShvTree`, `deinitializeShvTree`, requests | `MCRequests` | `RequestsProofs` |
| `ValueCache` | hp3: `valuecachenode.cpp` | `MCRequests` | `RequestsProofs` |
| `SitesTree` | hp3: `createTree`, slaves, directories of signals and files | `MCRequests` | `RequestsProofs` |
| `GetLog` | hp3: `SiteNode::getLog`, `alarmLog` | `MCRequests` | `RequestsProofs` |
| `PushLog` | hp3: `pushLog` | `MCRequests` | `RequestsProofs` |
| `SiteAlarms` | hp3: alarms, status, signals of `SiteNode` | `MCRequests` | `RequestsProofs` |
| `Sanitizer` | hp3: `sanitizeSize` | `MCRequests`; itself | `RequestsProofs` |
| `LegacySync` | hp3: `LegacyFileSyncerImpl` | `MCDownloads` | `DownloadsProofs` |
| `CheckLog` | shvhistoryprovider: `CheckLogTask`, `DirConsistencyCheckTask`, `DeviceLogRequest`, `DirtyLogManager`, `LogDir`, `LogDirReader` | `MCDownloads` | `DownloadsProofs` |
| `LogSanitizer` | shvhistoryprovider: which device is checked when | `MCMonitors` | |
| `DeviceMonitor` | shvhistoryprovider: monitored and online devices, tree of nodes | `MCMonitors` | |
| `PushedCache` | shvhistoryprovider: `pushLog`, `DiskCleaner` | `MCMonitors` | |
| `LogMerge` | shvhistoryprovider: `GetLogMerge` | `MCMonitors` | |
| `SitesProvider` | shvsitesprovider: `mergeSitesDirs`, `downloadSites`, `createSitesTgz`, `saveSitesTgz` | `MCProviders` | `ProvidersProofs` |
| `SitesReader` | shvsitesprovider: `ls`, `dir`, `get`, `read`, `getSites` | `MCProviders` | |
| `BrclabUsers` | shvbrclabprovider: `brclabusersnode.cpp` | `MCProviders` | `ProvidersProofs` |
| `MqttBridge` | shv2mqtt | `MCProviders` | `ProvidersProofs` |
| `AgentCommands` | shvagent: `runCmd`, `runScript`, `SessionProcess` | `MCProviders` | `ProvidersProofs` |
| `AgentTester` | shvagent: tester | `MCProviders` | |
| `ShellProcess` | shvrexec: the process behind a tunnel | `MCProviders` | `ProvidersProofs` |
| `CallRunner` | revitestdevice: `processShvCalls` | `MCProviders` | |
| `HolyScope` | hscope (Lua) | `MCProviders` | |
| `Tunnel` | shvrsh, `launchRexec` of shvagent, shvrexec | itself | `TunnelProofs` |
| `StatusTree`, `Telegram` | hscope-old | `MCMonitors` | `MonitorsProofs` |
| `PlcView` | bfsview: the switches of the PLC | `MCMonitors` | `MonitorsProofs` |
| `PowerStatus` | bfsview: the status it publishes | `MCMonitors` | `MonitorsProofs` |
| `DeviceView` | jn50view | `MCMonitors` | `MonitorsProofs` |
| `ShortTimes` | flatline | `MCMonitors` | `MonitorsProofs` |
| `SitesMap` | shvsites | `MCMonitors` | `MonitorsProofs` |
| `Lublicator` | brcgate, revitestdevice | `MCMonitors` | `MonitorsProofs` |

The MC modules that hold several components instantiate each with names of its
own for the variables and a variable `part` that says which of them a behaviour
is about: the components share no state (they are different programs, or parts
of one that touch different files), so their product has no behaviour that the
parts do not have. Their properties are conjunctions of the properties of the
modules, type invariants included, and name the module that says more.

### FileSync and Replica

A file is a pair of a site directory and a time (its name); entries are numbers
in the order they happen, with a stamp each, and a size is a number of entries.
`local` and `dirty` are the cached files and the dirty log. The syncer has the
phases of the code: idle, listing (`m_counter` outstanding `lsfiles` calls),
downloading (`m_downloadQueue`, one outstanding `read`), and its buffers
(`m_downloadedFiles`, written when they exceed the limit or at the end).
`ListFiles` is `impl_doSync`'s continuation with the choice of files to download
and to trim, `ReadOk` and `ReadFail` the continuation of a chunk, `Finish` the
writing and trimming at the end, `DieWriting` a death in the middle of it,
`Abort` a reload. `horizon` is now - cacheInitMaxAge. The remote appends, opens
and drops files at any time.

`Replica` knows nothing of chunks, buffers and queues: a source of files of
which only the newest of a directory grows, and a copy that takes any parts of
any files in one step, if nothing is taken back, nothing comes that the source
does not have at that place, and no file comes before the older ones are whole.
The mapping takes the remote files for the source and the cached ones for the
copy; `Replicates` is checked and proved.

Not modelled: answers to calls of a syncer deleted by a reload, blobs of length
zero, names that are not times, disk errors, local files longer than remote
ones, int overflow of sizes.

### SyncSchedule

Slaves have paths given as sequences, so that prefixes of siblings occur. The
recursion over mount points is given by position and order of prefixes.
`Group` is `syncLog` over a set of slaves, `FutureDone` the end of one sync,
`ClearFlags` the queued continuation, `Answer` the response of waitForFinished.
`RootIsCwd` says whether the cache root is the working directory: the timer
joins the root to a path that already starts with it, finds no dirty log
elsewhere and so syncs a slave at every visit (run `schedule_young`); the
proofs cover both cases.

### SitesReload, SitesTree

`connected`, the number of the connection, `loading`, the loads on their way
(with their chain of retries) and the tree: none, bare (the root a load makes)
or sites. A request in a state without a tree would be the null dereference at
historyapp.cpp:481.

`SitesTree` is what a load builds, for every choice of the kind of each path
(site, provider, legacy provider, push log, none): the slaves, and the directory
that the node of a site, the sync of its slave and the notifications each work
out for it. Names are compared as strings in the code, hence `NamePrefixes`.

### ValueCache, GetLog, Sanitizer

`ValueCache` has the queue of messages to and from the broker, the requests
forwarded by it, and the cache. `GetLog` has a directory that grows as syncs and
signals let it: `records` is what its files hold, read in the order of their
names, `journals` says where each of them begins and `dirtyAt` where the dirty
log does. A sync (`Synced`) takes what it brought out of the dirty log; the code
leaves the entries of the last time of the newest file in it, where they are read
once more. `Answer` and `AlarmLog` are `getLog` and `alarmLog` as functions of the
files chosen (`FirstRead`), compared with what all records say. In `Sanitizer` sizes and times
are numbers, the order of files of one time is any, and `SanitizeSize` removes them
one by one, dirty logs never.

### LegacySync

Entries have milliseconds; a batch is the answer of `getLog` with the record
limit, and may be computed for any state of the device's log between call and
answer. It is assumed that a snapshot and the entries of one millisecond fit in
a batch: otherwise the code asks for the same batch again for ever.

### PushLog, SiteAlarms

The device sends everything after what was acknowledged, at least as far as it
sent before. Answers are lost; the process may die while it writes.
`SiteAlarms` is one site with a few values, each of which is an alarm or not;
the table is the sequence of the code, with stale flags and overall alarm.
`std::ranges::sort` leaves the order of alarms of one severity open; here it is kept.
`dir` calls are outstanding together, each with the outcomes still possible.

### SitesProvider, SitesReader

A tree gives every path its content, and `Merge` is
`mergeSitesDirs` told path by path instead of by recursion into directories. A
path is `Taken` from the clone, `Removed` with a directory the clone does not
have, or left; it is `Blocked` where a file and a directory meet, since
`QFile::remove`, `rename` and `mkdir` then fail. Then there is what runs:
the clone, the tars (any number, ending in any order) and the files they leave.
That an archive or a hash is `latest`, and whether a merge came while tar was
reading (`torn`), is history kept for the properties. `PartlyMerged` are the
directories a killed merge can leave. `SitesReader` is a client that walks the
tree of nodes and compares what it sees with `getSites`; a directory may hold no
`_meta.json`, a broken one, or one with any of a few maps. Not modelled: a
provider without --sync-sites, unreadable files, disks that are full.

### CheckLog, LogSanitizer, DeviceMonitor, PushedCache, LogMerge

The older provider. In `CheckLog` an entry is its time; a regular file has since,
until and entries and may be damaged; the dirty log is the time it begins at,
its entries, whether it ends with a mark of missing data, and its number of
lines. A task is one of the kinds of `CheckType` and goes through check, requests
(a set of intervals, asked for in the order of time), chunks and trim, every one
of which may be the last before a death. `getLog` reads the dirty log after the
files only: what it alone has of a hole between files, which takes a damaged
file and two deaths to make, is not promised to be read (`ReadsAll`). `LogSanitizer` leaves out what a task does and models which one runs:
round robin timer, queue of new devices, trims and checks on request.
`DeviceMonitor` has the wire between broker and provider, in order, and the tree
of `SiteItem`s; paths are compared as text, as `startsWith` does (`NamePrefixes`),
and `taken` is the history of devices that another mount's end took from the list
of those online. `PushedCache` lets pieces be pushed while `DiskCleaner` scans,
since `scanDir` calls `processEvents`; its files have at least two entries (the code:
10000), for full files of one entry, split again, would have one name. `LogMerge` runs the loop of `GetLogMerge`
and compares the answer with the merge as a set.

### Tunnel, ShellProcess, AgentCommands

A shvrexec is named by the client whose request started it, and each client
counts its request ids from any number on. Messages between
two connections of the broker stay in order; those for a connection that is
gone are dropped. `WriteOut` takes any part of the data, as `write(2)` may.
`ShellProcess` counts the bytes between shvrexec and its process. `AgentCommands`
has a process per request, which may fail to start, crash or end.

### AgentTester, CallRunner, HolyScope

Scripts are constants; a step succeeds, fails, expires, or is set off by a
signal. The traps of both testers are taken away with `deleteLater`: until the event
loop comes to that (`TrapsDeleted`, `EndOfTurn`) another signal passes them again and
starts steps out of turn. `strayed` is the history of that, and `StepsInTurn` speaks
of the behaviours without; with it, it does not hold. `HolyScope` has the handler tables of the Lua registry as sets and
sequences, one queue to and one from the broker, and the height of the Lua stack,
which handlers address from the bottom: once an error handler leaves a value,
what follows is not defined by the program, and `StatusFollows` says so.

### MqttBridge, BrclabUsers

Two connections, the wire, and the topics; the users file, the cached users,
what was acknowledged, and what calls that got no answer of success may have left
(`tried`): a change is answered after the file was written whole and read back, so
a death or a failing read between leaves it there unanswered.

### StatusTree, Telegram, views and simulators

`StatusTree` has one broker with one agent and its tests; calls are answered, refused
or lost. `Telegram` has the server, which forgets what an offset passes; its updates
are messages or callback queries, and the id of a sender fits an int or does not. A
commit of the configuration is taken to be whole. `SitesMap` has both calls of
shvsites fail as well, `getSites` and `dir`, neither of which is repeated; `silent` is
the history of the sites this hides.
`PlcView` and `DeviceView` keep what the device had in the last exchanges, as
history for the properties. `PowerStatus` has a file that is written line by
line or renamed over, but never missing, and timers of 50 ms against ticks of 15 s.
`ShortTimes` has a wrap of a few milliseconds instead of 65536, and a device whose
counter is in phase with its clock.

## Runs, bounds and fairness

PROJECT.json says for each run what it shows. Bounds are CONSTANTS of the
configuration files, or of the INSTANCEs in the MC modules.

* `device_sync`: one directory, three file names, four entries of which two share
  a millisecond, chunks of two entries, one fault. An entry is lost only if it
  is recorded before a listing and trimmed after it, or if a file is skipped
  while a newer one is read: both fit.
* `hp3_killed`: two directories, two file names, two entries each, deaths in every
  write, no other faults but files that vanish at the remote. A hole needs two
  files of which the newer is written alone; the order of directories needs two.
  The directories are interchangeable, hence the symmetry.
* `schedule`: three slaves, one a prefix of another, two requests.
* `requests`: three connections, two errors and two requests for reloads (a reload
  within a load, a load that spans a lost connection, and a second one); two
  sites that mount together, two values and one get (a change or a mount between
  a get and its answer); three times and entries in a directory (a request at,
  before and between the files); four paths of which one begins another's name;
  six pushed entries in four milliseconds with four lost answers or deaths; four
  times and two directories for the size limit; two properties with three alarms
  and two `dir` calls.
* `downloads`: six entries, two of them in one millisecond, batches of four, files
  of about two (a batch that ends between those two, a file that is full at once
  and one that takes two batches), a horizon that moves over the first two
  milliseconds (entries that need not be fetched any more); four instants, chunks of three, one fault for
  the older provider (a file of more than one chunk, a death between file and
  trim).
* `providers`: two sites, three versions that change, add, remove and replace a
  directory by a file, two local directories to begin with, two tars at a time,
  two faults (a merge overtaken by the next, a merge killed and repeated, an
  archive saved after a newer one); for the others two users, topics, requests
  or directories, scripts with each kind of step, and two or three connections.
* `tunnel`: two clients whose request ids are 1 or 2, equal or different, one fault or expired
  callback, two chunks of output: the second client is what makes ids collide,
  the second chunk what makes order visible.
* `monitors`: safety only. Two devices and two disturbances for the scheduler, two
  versions of the sites and three mounts for the monitor, five instants and one
  death for the cache, two devices with two entries for the merge, one fault and
  one reload for the tree of statuses, four updates (a callback query, a /restart, a
  message of each kind of sender) and two faults for the bot,
  and a few values, connections and writes for the views.
* `device_aged_file`, `schedule_waiter`, `schedule_young`, `sanitizer_snapshot` show
  the disagreements below, each with the smallest bounds that show it.

Fairness is weak fairness of the steps the program or its environment has to
take: continuations in the event loop run, timers fire, calls are answered or
time out (RpcCall has a timeout). Nothing is assumed of faults, of devices that
produce data, of users, or of the order in which answers come. Faults are
bounded, for a sync that always fails never catches up. Where a run says
CHECK_DEADLOCK FALSE the modelled processes may all have ended, or the log may
have been pushed to its end.

Some modules state more than the runs check. `Telegram.AllProcessed` and
`StatusTree.FirstRunsDone` are meant for readers who run those modules alone;
`LogSanitizer.CheckedAgain` and `QueueServed`, `HolyScope.StackEmpty`,
`AgentTester.AbortStays` and `AgentCommands.ArgumentsPassed` do not hold, see below.

## Proofs

All proof modules but `Induction` follow one scheme: an inductive invariant, the lemma
that a step keeps it (one step per action), and the theorems from it by PTL.
The invariants were model-checked before they were proved. PROJECT.json lists
the theorems. The runs that pass check 39 properties (one of them in two runs), and
27 of them are stated by a theorem, for every value of the constants; the other
four runs check one property each that does not hold.

* `FileSyncProofs`: `TypeCorrect`, `ListingFirst`, `PrefixKept`, `HoleFree`,
  `AlwaysRecoverable` and, without deaths in the middle of writing, `Lossless`,
  for any files, sizes, chunks and numbers of faults. The invariant relates the
  job list to the listing: jobs of a directory are in the order of names, each
  starts where the cached file ends, and what is buffered continues it; so
  writing keeps prefixes, and a failure that drops the rest of a directory
  leaves no hole. That a recorded entry is dirty, cached, or in a file a later
  sync fetches needs the order of names and stamps. `CacheIsReplica` is the
  refinement of `Replica`: what the environment does are steps of the source,
  what the syncer does leaves the source alone and only lengthens the copy
  (`SyncerLonger`), and the invariant says of the next state that files before a
  cached one are whole (`SyncerFetches`).
* `SyncScheduleProofs`: `ScheduleTypes`, `NeverTwoSyncers`, `FlagHeld`. The
  strengthening says that a running syncer belongs to exactly one group whose
  flags are not yet cleared, and that pending clearings are of finished groups.
* `RequestsProofs`. `OneLoad`, `FlagIsLoad`, `SignalsSubscribed`,
  `RequestsFindTree` of the reloads: the strengthening adds that the tree is bare
  while a load is on its way. `CacheIsCurrent` of the value cache: of the messages
  about a site on their way only the last one counts, and what it will leave in
  the cache is the value of the site; so a change that overtakes an answer, or a
  mount between them, leaves nothing stale. `PushLogStoredOnce`: what is stored is
  a beginning of the device's log, cut into files in the order of their names,
  and what was stored but not acknowledged is in the newest file, the only one
  by which `pushLog` judges what it knows. `RemovedOldest` of the size limit.
  `AlarmsTold` and `AlarmModTold` of the table of alarms: taking alarms out of the
  list, putting new ones at its end and sorting it keep each alarm once, and what
  a value of one property does leaves the alarms of all others as they are, so
  the table stays that of the last values while the log is replayed (by induction
  over the properties). No run lists `SiteAlarms.AlarmModSent`, the statement of
  `AlarmModTold`; TLC checked it with the constants of `Requests.cfg` before it
  was proved. `LogsAreFound` of the directories. In the tree of the sites the paths
  that begin a path are ordered by length, so the longest one is the one owner
  of an entry, whoever asks. Of the records of a site the invariant says that
  they are in the order of time and that a snapshot says nothing new, and of each
  file that its snapshot, at the time of its name, covers every path recorded
  before. So records before the chosen file are followed by one of the same path
  that is read too (`SameState`). For `alarmLog` the steps of its loop are told
  apart by how many records have been gone through (`OneMoreRead`): the alarms it
  keeps are those of the state there, and the changes it has written lead to them.
* `ProvidersProofs`. `ProviderTypes`, `MergedAsInGit`, `ArchiveIsLocal`,
  `NoFileLost` of the sites. First what a merge makes of two trees, for any set of paths: it
  is a tree again, has git's files, and no directories but git's and those of
  files (of the directories left out, the topmost is the one removed). The
  invariant adds that tars of the last merge have read the local directory as
  it is, and that there is room for the tar of a running clone. `GrantsHold`: memory
  and file hold for each user what the last call answered with success left, or what
  one after it without such an answer tried. For the proof each user is looked at
  alone, though every call writes all of them: what it writes of the others is what
  memory holds of them. `CommandsAnswered`: a request is responded to only with the end of its
  process, and what was sent of the output of a shell, followed by what waits, is
  what was written while it was connected. `PublishedOrdered`: the signals of a
  topic under way lie, in order, between what was published last and the value.
* `TunnelProofs`: `TunnelsTrue`, `DataInOrder`, for any number of clients, whatever
  ids they count from. A request for a tunnel and the answer to it exist at most
  once, and only with a shvrexec that has found its peer, so that no second shell
  is opened for a client; of the messages to a client, data follow data up to the
  first message that ends the session, so that the terminal shows what the shell
  wrote without a gap.
* `DownloadsProofs`. `BatchesAreWhole` of `LegacySync`: the files hold all entries
  from a time at or before the horizon to the millisecond after their last one, a
  running sync has got all from there to the time it asks from next, and that
  time is never in the middle of a millisecond of which only a part was got.
  `FilesAreTrue` and `TrimmingIsSafe` of `CheckLog`: readable files hold exactly
  their intervals and do not overlap; the requests are for stretches apart from
  the files and from each other; and whatever the dirty log has of the time
  before a request is in a file already or is asked for by another request,
  so that the trim to the end of a chunk drops nothing that is not stored.
* `Induction`: induction over the natural numbers, and the existence of the
  functions that folds and tail recursions are defined by. The library's theorems
  on this take operators as parameters; here it all comes from the order of the
  finite sets of numbers, which the library proves well-founded for any one set.
  Then the places of a finite set in a linear order (`Ranking`), of numbers
  (`NumbersArranged`) and of numbers with weights (`WeighedLinear`): what it needs
  to know what a filter or a sort makes of a sequence of any length.
  `Stepwise`: for every sequence there is the function that computes a result
  along it step by step, such as the alarms `GetLog` rebuilds event by event.
* `MonitorsProofs`. `ViewsHold`, the three views of the devices, for any number of
  sites, values, switches and messages. Messages come one after the other while
  what they tell of goes on changing; the invariants say that the last message
  about a thing tells what it is, that with no message under way what is shown is
  what it is, but for a site a call about which failed, and of the PLC, whose answers may be of the time before the last
  change, that from the answer to the last request on everything is of this
  period. `DevicesHold`, for any wrap, lines, limits and voltages: what is read
  of a whole file, line by line, is what its lines say together or an Unknown for
  an old one (by induction over the lines), and while the file is watched and no
  signal is on its way the status is of this file; between a recorded
  time and the sum of wraps and short time there is always less than one wrap, so
  the wrap that is counted or overlooked is the one the samples show; and the
  bits of the lublicator were right when the battery was last checked, and the
  commands leave them alone. `ScopesHold`, the tree of statuses and the bot of
  hscope-old, for any tests, people, updates and faults: a node that takes a new level
  tells its parent, which may leave the parent alone wrong, until the telling
  stops at a node whose level does not change or at the root (by induction over the
  height, `TailRecursion`); and the offset of the bot's next poll is behind nothing
  that was not processed, for a poll can only bring what follows those before it.

Assumptions are the ASSUMEs of the modules, which TLC evaluates in every run
whose module extends them; the assumptions of modules that are only instantiated
are operators, and the MC modules assume some of them with their constants.

The theorems about one component of `MCRequests`, `MCDownloads` or `MCProviders`
start from the composed specification MCSpec, whose steps outside the component
are stutters of it; those of `SitesReload` and `SitesProvider` start from the
specification of the module, and the runs check the same definitions in the
composition.

Only model-checked: liveness (fairness and ENABLED are beyond the prover). Of the
invariants `StepsInTurn` and `WalkFindsSites`, which are about scripts and trees of
certain shapes, and `DevicesChecked` of `MCMonitors`.

## Disagreements between code and documents

The runs with `expect: violation`; PROJECT.json quotes the lines. A journal file
opened before the age limit that holds the oldest dirty entry is skipped by the
first sync and its entries are trimmed with the next; a waiting `syncLog` call
that starts no sync is never answered; a dirty log younger than logMaxAge does
not keep the timer from syncing; the size limit of the cache can remove all
files of a directory although one is to stay.

## Seen in the code, without a run of their own

Newer history provider:

* `setOnlineStatus` appends site-offline behind less severe alarms and does not
  sort (sitenode.cpp:152).
* A piece pushed again that begins before the newest file is stored again, for
  what is known is judged by the newest file only (sitenode.cpp:541).
* `alarmLog` saves its snapshot only when an event follows the begin (497-520).
* `sanitizeSize` runs at every tick of the sync timer too: of the journal node's own
  sanitizer timer only the interval is set, and the timer of the syncs is
  connected (shvjournalnode.cpp:127-131). The one with journalSanitizerInterval
  is historyapp.cpp:446-450.
* The value cache keeps values of paths nobody subscribed and erases by the prefix
  of the string. `parse_size_option` tests a pointer (`!success`).
* A notification with just the path of a site below a slave throws
  (shvjournalnode.cpp:217). alarmLog for many sites reads, in a worker thread,
  nodes that a reload may delete.

Older history provider:

* BrokerLost writes no mark of missing data, since DeviceMonitor has cleared the
  devices before; `trimDirtyLog` drops such marks after until; the entry at
  exactly until is in neither file nor dirty log till the next download.
* `fixFirstLogFile` cannot be reached (devicelogrequest.cpp:171-175). An unreadable
  last file makes CheckDirtyLogState, or the constructor without a dirty log,
  throw. getLog reads no dirty log while there is no regular file.
* A device appears twice in `m_onlineDevices`, or stays though no longer
  monitored; `isDeviceOnline` goes on after callback(false) (devicemonitor.cpp:
  206-222); an `ls` that times out is not asked again; `brokerId` may come after
  the sites. When "a/b1" is unmounted, the still mounted "a/b10" leaves the list
  too, and so does a device that another mount still covers (159-168).
* The periodic check does not come to every device (`CheckedAgain`): setupTimer
  restarts the timer only if the interval has changed (logsanitizer.cpp:30-49;
  checktype.h:5 promises the check). A device that waits for the replacement of its
  dirty log while it is trimmed may wait for ever (`QueueServed`): the end of a
  trim does not look at the queue (69-73 against 203-208; checktype.h:4).
* `pushLog` reads `first_file.entry()` in the loop over the last file (rootnode.cpp:
  228); a death between 300 and 308 leaves acknowledged entries in `.new` files
  which nobody reads, and which the next push may write over: joined with what has
  come since, the pieces break at another entry, a file begins where the temporary
  one begins and ends before it (7 instants, files of two entries; `overwritten` of
  `PushedCache`). `findChild` of line 151 is recursive.
* DiskCleaner: the second oldest file is lost by a death between truncation and
  write; the share is cast to int (diskcleaner.cpp:85); the loop does not end when
  the cache is full though nobody is over its share; it removes even the only
  file. Signals of "a/b10" are taken for "a/b1" (application.cpp:216).

Agent and tunnel:

* Nothing relates the request id for reading a tunnel to the one for writing,
  which a comment says differ (shvrexecapp.cpp:174). A start that fails is only
  logged; an invalid command closes the tunnel and goes on; output of a terminal
  unread at the end is lost; a partial write loses the rest; output after
  closeAndQuit may follow CloseTunnel.
* `runScript` drops the arguments (`ArgumentsPassed`; shvagentapp.cpp:77, 88 against
  189-195, 236-253). A script's file is truncated and written again while a
  process may read it, its write unchecked; after a death it may be empty.
* After a failed step with "abort", the default (tests.cpon:11-12), a late success of
  another step goes on (`AbortStays`). The success of a sigTrap starts the step
  after it once more.
* revitestapp.cpp:117 tests callFile_isset twice. `deleteLater` lets a second signal of
  one turn pass a trap twice (213; shvagentapp.cpp:669), and a signal of another
  origin passes it before its step is started; traps outlive the connection. `cmdOff` of the
  lublicator never sets PosInternalOff; the two copies of the file are identical.

Sites, bridge, users, hscope:

* An older tar that ends after a newer one leaves the older archive with the hash
  of the newer directory; `_meta.json` of a site that git no longer describes is
  meant to be removed, but `removeRecursively` does nothing for a file
  (shvsitesprovider/src/nodes.cpp:605). A broken `_meta.json` makes `metaValue` throw; a
  directory whose name begins with `_meta` hides the meta below it.
* Changes while one of its connections is missing are never published by shv2mqtt.
* A deletion of a user that failed takes effect with the next change that succeeds,
  and a change that was refused or never answered may be in the file all the same
  (brclabusersnode.cpp:114-120). A first start that dies while it makes the file
  leaves an empty one, and no start succeeds after that.
* hscope: a reconnection doubles the subscriptions' handlers and the timers;
  handlers of calls are never taken out; `lua_pop(-1)` in evalLuaFile empties the
  stack; a timer whose script errs leaves a value on it (`StackEmpty`,
  hscopeapp.cpp:1063-1067).
* hscope-old: `runTest` answers twice on an error of the script (hnodetest.cpp:
  196-198, 246-247); runAllTests runs disabled tests; a late timeout of an old run
  overwrites a newer result; a reload leaves the overall status stale; runs of a
  deleted node are never answered; the number 0 is Error but the string "0" is Ok
  (hnode.cpp:28-40). Who only presses buttons, or has an id beyond an int, gets no
  alerts (telegram.cpp:160-180, 196).

Views:

* bfsview: the blinking never stops once a required status was reached in between;
  a lost broker leaves the PLC connected; the watcher is lost when the file is
  renamed over. jn50view: after a short loss of the broker only `status` is
  refreshed. flatline: a resynchronised time is off by the short time. shvsites: a
  mount of a broker above sites changes no mark; an error of `getSites` leaves the
  map empty until the next connection (shvsitesapp.cpp:71-74), and one of `dir` a
  mounted site unmarked until it is mounted again (101).

## Not modelled

`shvbroker` (its code is libshv's), the small tools, option parsing, the drawing and
dialogs of the user interfaces, `GitPushTask` (commented out), file formats and
conversions between value types, the parser and the file server of
shvbrclabprovider, log files of simulated devices. The components that PROJECT.json
calls partly modelled name what is left out of each.

## Plan

1. Proofs for the rest of `MCMonitors`: the scheduler, the monitor, the pushed
   cache and the merge.
   `StepsInTurn` for scripts of any steps.
2. `LegacySync` and `PushLog` as implementations of `Replica`.
3. `CheckLog` with snapshots, and together with `LogSanitizer` instead of beside it.
4. The tables of `HolyScope` with more than one agent.
