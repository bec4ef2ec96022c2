# Verification of the EHF Fellows directory

The program is a local-first web app: a directory of fellows that a member
installs in the browser, browses off-line, and annotates with private groups
and settings. A page (`src/app/static/app.js`) talks to one dedicated worker
(`src/app/static/vendor/sqlite-worker.js`), which owns every database; a service
worker (`src/app/static/sw.js`) keeps the app's own files; a small server
(`src/deploy/server.py`) hands out the shell, the directory database and
one-time sign-in links.

This directory holds TLA+ models of the parts that keep state and can lose it,
the TLC runs that check them on small instances, and TLAPS proofs of the
theorems that hold for every instance.

## 1. The system and its parts

| part | state it keeps | operations | what makes it correct |
|---|---|---|---|
| private-data store, `sqlite-worker.js` | `/relationships.db` in an OPFS slot, `relDb`, the folder file `relationships.db` of a `Fellows*` subfolder, `folderRecord` in memory and in IndexedDB, the backup ring, the Web Lock | edits (`createGroup`, `updateGroup`, `deleteGroup`, `setSetting`), import, restore, pick a folder, save now, read back, disconnect, start-up | an edit the member was told is saved is in the file; the file never goes back; a replace can be undone; the badge tells the truth; a start always ends |
| directory data, `sqlite-worker.js` | `/fellows.db` slot, a staging slot, `fellows.db.meta.json`, `pendingFellowsDbSwap` | `ensureFellowsDb`, `compareFellowsDbSha`, `previewFellowsDbSwap`, `applyFellowsDbSwap`, `cancelFellowsDbSwap` | what is installed is what was previewed; a failed download leaves the old data open; the recorded SHA is that of the data |
| backup ring, `sqlite-worker.js` | `relationships.db.bak.*` files | debounced backup at start, snapshot before a replace, rotation to the newest 5 | rotation drops the oldest; the debounce never skips a backup that is due |
| service worker, `sw.js`, and `auditShellCaches` of `app.js` | one shell cache per build label, the image cache | verified install, activate, fetch, audit at every start of a page | an active worker can start the app off-line once it has met the start page; what it answers from the cache is of one build; an install that fails changes nothing that is served; the last build arrives |
| sign-in, `deploy/magic_link_auth.py`, `deploy/server.py` | tokens, consumed tokens, sessions, rate buckets (all in memory) | send-unlock, verify-token, auth status, logout, restart | a link works for its 30 minutes whoever opens it first |
| worker client of the page, `app.js` | the warm worker, whether a boot has consumed it, the provider | spawn, init with a timeout, give up, spawn again | no boot waits for a worker that was terminated; a gate lets go of the OPFS handles |
| page start-up and e-mail gate, `app.js` | the URL's overrides, the install marker, the panels on the screen, the IndexedDB mirror | dispatch, link, status answer, provider, list, full rows, watchdog, Clear App Cache, Reset Everything | a start comes to an end, or shows the ways out |
| private-data gate, banner, Settings, `app.js` | what the page believes of the folder: gate, banner, badge | the questions to the worker, the flows of Settings, Lock | what the page says of the folder is so once nothing is under way; a member with a folder keeps their page; a dismissal or an old answer does not take a warning away |
| group composer and edit mode, `app.js` | the draft in the rail and in localStorage, the edited group, the delayed rename, PATCHes nobody awaits | toggle, rename, enter, leave, cancel, create, reload | the draft survives; the rail edits the URL's group; edits land; a cancel restores what was |
| directory view, `app.js` | list, full rows, search box, filters, bulk bar, pane, orphans | search, filter, navigate, update, remove a departed member | the list is what was asked for; a bulk action takes the rows shown; the pane is the URL's; who was removed stays removed |
| development server, MCP servers, build, scripts, deployment | none beyond a request or a run | | |

How they interact: the page calls the worker by messages that carry an id, and
the worker answers each in any order, for its dispatcher awaits each handler on
its own. The worker shares the folder with nothing but the operating system; it
shares OPFS with no second worker, because the SAH-pool files are exclusive.
The page polls `getFolderState` for its badge. The service worker serves both
scripts and must not pair a new page with an old worker. The server sets the
session cookie that the download of `/fellows.db` needs.

What is hard here: the worker is one thread, yet every `await` in a handler lets
another handler run, so two edits, an edit and a disconnection, or a download
and a second download interleave; the folder can refuse a write at any moment;
the tab can be closed between any two awaits, and the next start decides which
of two databases survives; the permission for the folder lapses without notice.

PROJECT.json lists every component with its status, and under `hazards` the
forty lines where these bite hardest; the others are in the descriptions below
and under "What does not hold".

## 2. The modules

| module | what it is |
|---|---|
| `DurableStore` | abstract: a working set and a durable set of edits, with commit, save and restart |
| `FolderStore` | the private-data store, at the grain of the worker's awaits |
| `MCFolderStore` | instances of `FolderStore` for TLC |
| `FolderStoreProofs` | theorems about `FolderStore`, for every value of its constants |
| `DirectoryUpdate` | the directory data: install at the first start, opt-in update through a staging slot |
| `MCDirectoryUpdate` | its instances |
| `DirectoryUpdateProofs` | its theorems |
| `ShellCache` | the service worker and the page's audit of its caches, over several deploys |
| `MCShellCache` | its instances |
| `ShellCacheProofs` | its theorems |
| `PageStart` | one page after another: dispatcher, gate, link, landing, warm worker, boot, watchdog, resets |
| `MCPageStart` | its instance |
| `PageStartProofs` | its theorems |
| `GroupComposer` | the rail of the directory: a draft, or a saved group in edit mode |
| `MCGroupComposer` | its instance |
| `GroupComposerProofs` | its theorems |
| `DirectoryView` | the list, its search and filters, the bulk bar, the pane of a fellow or a group |
| `MCDirectoryView` | its instance |
| `DirectoryViewProofs` | its theorems |
| `PrivateDataGate` | what the page knows of the folder: gate, banner, badge, and the flows of Settings |
| `MCPrivateDataGate` | its instance |
| `PrivateDataGateProofs` | its theorems |
| `CallQueues` | a fact about sequences that two of the proof modules share |

The stores of `FolderStore`, `DirectoryUpdate` and `ShellCache` are different,
and the worker's handlers for the first two touch no variable of each other
(`DirectoryUpdate` reads the membership of the groups, which is a variable of its
own, changed at any moment). The four modules of the page see the worker through
what it answers: `PrivateDataGate` has a four-flag summary of `FolderStore`
(attached, granted, last write failed, anything in it), `DirectoryView` the
database that `DirectoryUpdate` installs, `GroupComposer` the groups, `PageStart`
the existence of each store. Each of them leaves the worker every freedom that
the detailed module has.

In the page's modules `rash` is a history variable: the set of mishaps that have
happened, each named at the action that notes it. A property that does not hold
after a mishap says so by `Without({...})`, and "What does not hold" says what
goes wrong. The bound `MaxRash` limits the kinds of mishap in one behaviour; a
mishap may happen any number of times.

### FolderStore

One action is one stretch of a handler between two awaits; `pc[o]` names the
await at which call `o` is suspended and `frame[o]` holds what the handler keeps
in local variables over it (the bytes it exported, the subfolder it opened). A
start is one sequence of steps, `boot`, which no call meets: the page sends
nothing before `init` has answered.

| variable | code |
|---|---|
| `slot`, `relOpen` | the OPFS slot `/relationships.db`, `relDb` |
| `file`, `rings` | `relationships.db` and `relationships.db.bak.*` of each subfolder; `rings[Opfs]` is the ring outside any folder |
| `rec`, `idb` | `folderRecord` and its copy in IndexedDB |
| `granted` | what `queryPermission` answers |
| `mode` | `_storageMode` |
| `lock` | the holder of `FOLDER_WRITE_LOCK_NAME` |

Calls: an edit is `StartMutate`, `Commit`, `PostCommitExports`, `EnterLocked`,
`FileReplaced` or `WriteFails`, `WriteRecorded`, `Release`. An import or restore
puts `ImportInspected`, the snapshot and `Replace` before the same post-commit
steps. Picking a folder is `StartPick`, `ProbeConnects`, then `SaveNow` for a new
store or `ReadNow` and an import for an existing one. `ClearFolderHandle`
disconnects.

Abstractions:

- A database is the set of edits it contains, with one token for the workspace
  identity rows. An edit is never undone by another edit, so an edit missing
  from a set was lost, not deleted. The write generation is not modelled.
- The timestamps `lastSavedAt` and `lastError.at` are compared only by the
  badge; they become the flags `saved` and `err`. Two stamps of one millisecond
  and a clock set back are not modelled.
- An IndexedDB put takes effect with the change it persists and does not fail.
- The Web Lock manager serves requests in order, so a request is granted or
  refused when it is made. Between granting and the callback another handler can
  run (`EnterLocked` is its own step).
- The answer to a permission query and what the handler does with it are one
  step; the change of permission before it is another, and so is a disconnection.
- Failures the code does not record are faults of their own, and leave the badge
  as it is: `missing`, a subfolder or a file whose handle cannot be had at a start
  (2266-2278), in a read (2965-2981, `ReadMissing`) or in the pivot; `schema`, a
  schema step that throws after an import; `lapse`. With `replace` the import or
  the reopening throws (`ReplaceFails`): the database stays closed, and the slot
  holds the old database, the new one, or none (a torn file counts as none).
  `ExportFails` is a commit that another call has lost the database to; its failure
  is noted in memory only.
- The pivot migration, the backup migration, the start's backup and its first
  write are one step each: nothing else runs during a start but a crash.
- The clock is not modelled: a ring that holds a backup may hold one that is
  recent enough to skip the next.
- A folder file that is present but invalid is treated like one that cannot be
  read; the code does the same with both.

Not modelled: the retirement of a surviving folder handle on phones, `wipeAll`,
`setFolderHandle` (no caller is left), the marker and sentinel files, several
browsers on one folder.

### DirectoryUpdate

A flow `o` is one click on 'Update directory data' (app.js
`handleUpdateDirectoryDataClick`) with the handlers it calls: `pc[o]` is where it
waits, `frame[o]` what the handler and the page hold of it (the bytes that were
received, the members a group would lose, and `owed`, a history of the fellows
the count came too early for). The button is drawn anew with every rendering of
the About page, so two flows may be under way.

| variable | code |
|---|---|
| `published` | what GET `/fellows.db` returns now |
| `live`, `open` | the slot `/fellows.db`, `fellowsDb` |
| `staging`, `pending` | the slot `/fellows.db.swap-staging`, `pendingFellowsDbSwap` |
| `meta` | the SHA in `fellows.db.meta.json` |
| `boot`, `incoming` | the start with its `ensureFellowsDb`, the bytes that one received |
| `grouped`, `queued` | the fellows who are in the member's groups; those in an edit that waits for its permission guard |

A start is `BootOpen`, and for an empty device `InstallServed`, `InstallImports`
or `InstallFails`, `InstallRecorded`. A flow is `StartUpdate`, `Served` or
`FetchFails`, `Staged` or `StagingFails`, `Digested` or `DigestedTooLate` (both
count whom the groups lose), `Offer`, then (without a dialog, or after `Confirm`;
`Cancel` ends it) `Apply`,
`ApplyRefused`, `ApplyFindsNothing` or `ApplyFails`, and `MetaWritten`.

Abstractions: a database is its version, and equal versions have equal SHAs; a
staging slot read while another flow rewrites it yields the bytes of either. An
edit is `GroupEdit`, which only an open dialog prevents, and `EditSettles`, its
handler resuming from the guard at any moment, whatever a flow has counted or is
about to replace.
`Reload` is a reload of the page or the end of the worker at any await.

### ShellCache

An action is a stretch of an event handler of `sw.js` between two awaits.

| variable | code |
|---|---|
| `deployed` | the build the server hands out; a deploy is one step |
| `active` | the label (`CACHE_VERSION`) of the worker that answers fetches |
| `phase`, `label`, `manifest`, `done` | the installing worker: where its install is, its label, the build whose manifest it fetched, the files it has cached |
| `caches`, `before`, `cache` | the shell caches that exist, the order of their creation, their entries |
| `stripped` | workers whose cache a page deleted while they used it: the writes of such an install reach nobody |
| `page` | the build of a page that starts and has not run `auditShellCaches` yet |
| `puts` | writes of `safeCachePut`, which nobody awaits |
| `visited` | history: the active worker has stored the start page in its cache |

The browser is part of the model where the code relies on it: one worker
installs at a time, the old worker ends before the new one activates, and
`caches.match` asks the caches in the order of their creation. A file's bytes are
a blob, a manifest is the build it was made for, and a signature verifies when it
is of the manifest's build. An install fetches the files of its manifest one after
the other, in the order of `Rank`. The path `Start` ('/', the `start_url` of the
web manifest) is not among them: `/index.html` is, and `caches.match` tells the
two apart. It is answered from the network and stored then, so a worker has it only
once a page has asked that worker for it, and an activation drops the old one.

Not modelled: the image cache and its sweep, the requests to `/api/`, and the two
buttons that delete every cache and registration (Clear App Cache and Reset
Everything, which `PageStart` has).

### PageStart

An action is the stretch of script between two awaits; `page.pc` is the await at
which the start of the page waits.

| variable | code |
|---|---|
| `page` | the JavaScript state of the open page, which dies with it: `url` (the overrides of the hash and the query), `shown` (the panels), `watch` (the start-up watchdog), `init`, `dead`, `warmRef`, `consumed`, `doomed` (the workers it spawned), `awaits`, `adopted` (the worker of the boot, of the provider), `conflict`, `cached`, `resetting` |
| `disk` | the install marker in localStorage, the mirror in IndexedDB, `fellows.db` in OPFS |
| `session`, `link`, `fresh` | the session and the last link at the server; `fresh` says that the link is younger than its thirty minutes and the server still runs |
| `standalone` | an installed window, and whether `matchMedia` says so yet |
| `holder` | the context whose worker owns the OPFS handles |

A start is `RunDispatcher` (after `tryUnlockFromHash` for a link), then either the
status request (`StatusAnswers` with the decision tree `Verdict`, `StatusFails`)
and a gate, a landing or a boot, or the boot at once. A boot is
`ProviderSettles`, `EnsureAnswers`, `ListAnswers`, `FullAnswers`; each can fail
into `BootFails`, whose order of tests is the code's. `WorkerAttaches`,
`WorkerReady` and `WorkerFails` are the init of a worker, whose timeout is one of
its failures; a gate may give the warm worker up meanwhile
(`terminateWarmWorkerIfStillWarm`). `Visit` is the member opening the app in any
way at any moment; `OtherWindow` another window of it.

Not modelled: the prompts of each browser for a first visit, the wording of the
gate, the rate limiter and the syntax of the cookie.

### GroupComposer

| variable | code |
|---|---|
| `rail` | the composer's draft, title and `editing` group, `entry` (the group as it was when edit mode began), `backup` (`composeDraftSnapshot`), `timer` (the rename that waits 600 ms), `busy` |
| `stored` | the draft in localStorage |
| `url`, `due` | the route, and whether the boot's second call of `route` is to come |
| `calls`, `loads` | writes in flight in the order they were sent; reads of `enterEditMode` under way |
| `saved` | the groups in the store |
| `mine` | history: the new group as the member has composed it |

A write commits when the worker's guard has found the folder's permission, in any
order (`Commit`). A group's name and its note are one title, for both are saved,
edited and reverted in the same way; a draft's members and title are one set.
Mishaps: `early` (the rail used while it waits for a group), `crossed` (the
answer of a group that was left, or of a second entry), `stale` (a group read before
an earlier PATCH committed), `meddled` (anything done between a cancel or a
create and its answer), `overtaken` (a later write of a group commits first),
`failed`.

Not modelled: the has-email filter that edit mode resets, the composer sheet of
phones, the deletion of a group on its page.

### DirectoryView

| variable | code |
|---|---|
| `source`, `db` | the provider (worker or API) and the directory it answers from |
| `folder` | what the page was last told of the folder (`GateResolves`); with the worker it is `privateDataEnabled()` |
| `members`, `setting` | the group and the has-email setting of the private-data store |
| `page` | `url`, `box` and `due` (the search box and its 250 ms), `mail`, `filter`, `list`, `known` (full rows), `cache` (the mirror in memory), `displayed` (`displayedList`), `shown` (the rows on the screen), `bar` (the bulk bar), `pane`, `orphans`, `boot`, `calls` |
| `updates`, `removed` | a bound, and the history of the removals |
| `unsaved` | history: the has-email box was last set, or the missing setting last read, while it could not be saved |

Reads of the worker are answered in their order and may overtake a write; fetches
are answered in any order. Mishaps: `crossed` (an answer that the box no longer
asks for, with nothing under way that will repair it), `early` (the filter is on
when the full rows arrive), `swapped` (an update while the box holds a query),
`failed`, `uncached` (a local search without rows), `strayed` (a group's answer
after the URL has left it), `returned` (a flagged fellow is back), `overtaken`
(an earlier save of the setting commits later), `twice` (a second Remove while
one is in flight), `lapsed` (the folder that was known is out of reach). `unsaved`
counts as a kind of mishap for `MaxRash` while it is so. What a page without a
folder refuses (Remove, the soft scan, saving the box) is guarded by
`privateDataEnabled`; a store that cannot be reached answers that nothing was
saved (`Stored`).

Not modelled: the natural-language search, the page's other filters (the
structured filter stands for all), edit mode's reset of the box, phones, PDF and
contact export, the chips of the rail, About, diagnostics and statistics.

### PrivateDataGate

| variable | code |
|---|---|
| `worker` | `FolderStore` as the page can tell it: attached, granted, last write failed, rows at stake |
| `boot`, `url`, `settings` | how far the boot is, the page, the badge of the Settings on the screen |
| `gate` | `privateDataTier` with whether it has been resolved |
| `banner`, `dismissed`, `timer` | the banner, whether the nag was dismissed, the look 1.5 s after the script started |
| `asks` | the `getFolderState` and `countRelationships` questions in flight |
| `edits`, `flows` | writes in flight, and the flows of Settings with their stage |
| `missed` | history: whether a failure was on record when a write or a read of the folder last ended, if the folder was not locked since |

Abstractions: the worker reads the folder's state as a question arrives and the
answer arrives in any order; two questions of a kind that were overtaken and
have the same answer are one, which is why `asks` is a set; "pending" and
"saved" are one badge; writes that are refused are left out; the picker, the
scan, the chooser and the probe of a pick are one stage; the list and the full
rows are one step of the boot.
Mishaps: `lapsed` (the browser withdraws its permission), `astray` (an answer
that arrives after a later one of its kind, or a question that fails), `early`
(the banner's one look comes before the app is shown), `hasty` (the member opens
the groups while a flow or a look at the gate is under way), `quiet` (a write
whose outcome nobody looks at), `behind` (the badge on the screen is not told),
`late` (the nag is dismissed while its count is under way), `raced` (Lock while
something is being written).

Not modelled: phones and browsers without folders, a page without a worker, the
download of a backup, the set-up of Claude Desktop.

## 3. The runs

The runs of `FolderStore`, `DirectoryUpdate` and `ShellCache` say CHECK_DEADLOCK
FALSE: when the budget of calls, clicks or deploys is used up nobody need do
anything more. The others check for deadlock: in them the member can always go
somewhere.

| run | instance | checks |
|---|---|---|
| `folder_commits` | 2 calls, 1 store, 3 edits; crash, failed write, backup or read, missing handle, lapse | `ImplementsDurableStore` |
| `folder_calls` | 2 calls, 2 stores, edits, import, open, create, disconnect; every fault | `LockDiscipline`, `EveryCallReturns` |
| `folder_serial` | 1 call, 2 stores, every flow but disconnect; crash, failed write, read or replacement | `BadgeHonest`, `ReplaceIsUndoable` |
| `folder_trust` | 1 call, 2 stores, edits, create, disconnect; every fault but those of a replacement | `TypeOK`, `TrustedEditsOnDisk`, `FolderNeverRegresses` |
| `directory_one_flow` | 1 flow, 3 versions, 3 clicks; failed download, validation, opening, import | `CheckIsHonest`, `AppliedAsConfirmed` |
| `directory_two_flows` | 2 flows, 2 versions, 1 fellow, 3 clicks, 1 reload; every fault but a failed import | `TypeOK`, `DirectoryKept`, `EveryFlowEnds` |
| `shell_updates` | 3 builds, 3 files and the start page, 1 page and 1 cache write at a time, 1 failure of network, storage or pruning | `TypeOK`, `StartsOffline`, `OneBuild`, `UpToDateIsCoherent`, `FailedInstallHarmless`, `UpdateArrives` |
| `page_start` | the production origin, 2 workers a page, any number of pages | `BootsOnLiveWorker`, `LinkOpensUntilItAges`, `BootIsWatched`, `GateLetsGo` |
| `group_composer` | 2 groups, 1 fellow, 2 names, 2 writes in flight, 1 kind of mishap | `TypeOK`, `DraftSurvives`, `EditsWhatTheUrlNames`, `EditsLand`, `CancelRestores` |
| `directory_view` | 2 fellows, 1 query, 2 directories, 2 calls in flight when the member acts, 1 update, 1 kind of mishap | `TypeOK`, `ListIsWhatWasAsked`, `BulkSelectsWhatIsShown`, `PaneIsTheUrls`, `RemovedStaysRemoved`, `SettingAgrees` |
| `private_data_gate` | 3 questions, 1 write, 1 flow at a time, 1 kind of mishap | `TypeOK`, `PageKnowsTheFolder`, `BannerIsTrue`, `FolderUserKeepsTheirPage`, `WarningStays` |

The bounds. `FolderStore`: calls in flight (`Ops`), stores, edits, restarts
(`MaxBoots`), calls other than edits (`MaxCalls`), and `Keep` = 2 where the code
keeps 5 backups, so that rotation happens within the bound. Two calls are enough
for the interleavings: the handlers share one lock and one record, and a third
call can only meet what the second already met. Two stores are enough for a
switch from one to another and back. With the kind "lock" in `folder_serial`
and without `ReplaceIsUndoable`, `BadgeHonest` passes too. `DirectoryUpdate`:
flows at once, versions, `MaxDeploys`, `MaxClicks`, `MaxBoots`; there is one
staging slot, so two flows show every way to cross in it, and the second click of
the third flow follows an end of the first. `ShellCache`: three builds let a
failed install leave a cache of a build between the active one and the last; the
page and its script change with every build and the SQLite files only with the
third, so that an update may find some files unchanged; `MaxFailures` is 1,
because a deploy makes an install fail without any failure of the environment.
`PageStart`: a page that has spawned a second worker has met every state of the
first; pages, links and sessions are unbounded. The instance with all three hosts
("dev" and "staging" switch the sign-in off) takes more than five minutes.
`GroupComposer`: two groups let one be left for the other, two writes overtake
each other; with `MaxRash` = 2 no violation shows in the first five million states, and
the run does not finish in five minutes. `DirectoryView`: each of
the two fellows passes another filter, and the directories differ by one fellow;
the page's own calls exceed `MaxCalls`, which limits the member only. With two
queries, no violation shows in the first eight million states and the run does not
finish in five minutes. `PrivateDataGate`: two flows at once (`MaxFlows` = 2) show no
violation in the first six million states and do not finish in that time. Its constraint `NoneAstray` explores nothing beyond an answer that goes
astray: every property there excepts what follows one, but for `TypeOK`, which is
proved. `NoCrowd` explores nothing beyond a third question in flight once a lapse,
a race with Lock or a badge left behind has happened: two are enough to cross, and
without it the run takes up to twice as long.

Fairness. In `FolderStore` and `DirectoryUpdate`, `FairSpec` asks that a
suspended handler resumes (`WF` on the steps of each call or flow) and that a
start goes on: the browser settles every promise the handlers await, with success
or failure, and the event loop runs their continuations; none of these awaits
waits for the member. A dialog does wait for the member, and nothing is asked of
them. Neither a crash nor a new call is owed; restarts are bounded, or a start
could be interrupted for ever. In `ShellCache` `FairSpec` asks that an install is
begun when the server has another build and goes on: the browser looks for a new
`sw.js` at every start of the app. Failures are bounded, deploys only go up. In
`PageStart` `FairSpec` asks for three things only: the init of the warm worker
ends, for a timer of 8 seconds ends it if nothing else does; the watchdog's timer
fires; the browser closes the handles of a worker that is gone. A fetch or a call
of the boot may hang for ever, and that is what the watchdog is for. The other
modules of the page state no liveness: their calls may stay unanswered.

### What does not hold

One statement has a run that ends in a counterexample:

| run | statement | what happens |
|---|---|---|
| `lost_edit` | `BadgeHonest` | two edits in quick succession: the second one's write finds the lock held by the first, and the first one's success clears the failure; the badge reads 'saved', the file lacks the edit |

The properties of the passing runs hold within the flows, faults and mishaps of
their run, and those are part of each claim. Outside them the following fail;
where a run is named, the change to its cfg shows it.

The folder:

- `folder_serial` with the fault "backup", or with the kind "lock": the snapshot
  before a restore fails, or the folder is disconnected while it is written, and
  the restore goes on, so `ReplaceIsUndoable` fails
  (docs/persistence_and_upgrades.md:255).
- `folder_serial` with `FolderNeverRegresses`: an existing store is connected
  before its file is read, the read fails, and the next edit overwrites it.
- `folder_serial` with the fault "missing": a start that cannot open the subfolder
  or the file goes on with the slot it has, a read fails before it has looked, and
  neither is recorded (sqlite-worker.js:2266-2278, 2965-2981), so the badge reads
  'saved' over a file with other edits and `BadgeHonest` fails. It fails with the
  fault "schema" too: the import is in the slot, its write to the folder is not
  begun. 'Save now' throws without a record as well when the permission or the
  subfolder is gone (2866-2891). `BadgeHonest` is about failures on record, over
  a database that is open; after a replacement that failed there is none.
- The guard of an edit awaits the permission, and the folder may be disconnected
  meanwhile: the edit is committed with no folder behind it
  (sqlite-worker.js:964). It is not acknowledged under a badge that reads 'saved'.
- The pivot migration keeps the older folder file over a newer slot
  (plans/user_folder_storage.md:339).
- 'Save now' writes the file without the Web Lock (sqlite-worker.js:2897), and
  a mutation between the snapshot and the `importDb` of an import is in no backup
  (1118); the runs with two calls do not mix those flows.

The directory data:

- `directory_two_flows` with `AppliedAsConfirmed`: the bytes one flow staged are
  installed under the other's id and SHA.
- `directory_one_flow` with the fault "meta": an install whose meta file could
  not be written is never offered an update, and `CheckIsHonest` fails
  (app.js:785).
- `directory_two_flows` with the fault "disk": the slot is unlinked before the
  new bytes are written, and `DirectoryKept` fails (app.js:861 speaks of an
  atomic replace).
- An edit that waits for its permission guard while the worker counts who is lost
  (sqlite-worker.js:1632), or that is made before the dialog opens or after an
  answer without one (app.js:885), is not counted: the fellow it adds can be lost
  unannounced. `AppliedAsConfirmed` says that nobody else is.
- A second dialog takes the place of the first without settling it (app.js:984).

The shell:

- A page of the new build deletes the cache of the worker that is still active
  (`stripped`), which `StartsOffline` excepts.
- The app does not start off-line right after an install or an update: '/' is not
  among the precached keys (sw.js:150-175), is answered network-first and is found
  by `caches.match` only under '/' (304-390), and an activation deletes the
  old cache with the one that was stored. A first install does not reload the
  window it came from (277-284), so one start on-line through the worker is needed;
  `StartsOffline` speaks of '/' once it was stored.
- `shell_updates` with the faults "prune" and "rollback" and `MaxFailures` = 3: the
  cache of an older build could not be deleted and answers first; the build is
  put back, its install writes to that cache, and `FailedInstallHarmless` fails.
- `shell_updates` with the fault "rollback": an older build that is put back
  finds its cache with files of a newer one, and `UpToDateIsCoherent` fails.
- `OneBuild` and `UpToDateIsCoherent` exclude a device on which an older cache
  could not be deleted (`NothingOlder`); without that they fail, which is the
  incident sw.js:212 reports.
- `OneBuild` is about the files answered from the cache. Off-line, the whole
  shell can be of two builds: `networkFirst` puts the deployed build's `app.js`
  beside the active build's other files, although
  docs/persistence_and_upgrades.md:132 says the scripts are replaced as one unit.

The start of a page:

- `page_start` with `CacheServesOffline`: README.md:14 of the repository says
  that neither a stale session nor an off-line server locks the member out, but
  the list is served from the mirror only when the server refuses
  (app.js:12080, 12161); a fetch that fails otherwise ends the boot.
- `page_start` with `SPECIFICATION ResetSpec` and `ResetCompletes`: a warm worker that was
  terminated after its init is still the one that 'Reset Everything' asks to wipe
  OPFS (app.js:12457, 2392), and nobody answers; docs/Architecture.md:53 (AC-6)
  promises the reload. When a later boot has spawned another worker and then
  fallen back on the API, OPFS is not wiped.
- A page may come to need a third worker (docs/email_gate.md:296 says at most
  two); `MaxSpawns` stops the model there.
- The watchdog is armed once per page, so `BootIsWatched` speaks of the first
  boot; the panel it shows stays. A link whose verification fails for want of a
  network is taken for an invalid one.

The rail:

- `group_composer` with `TypedNameIsSaved`: a name typed less than 600 ms before
  edit mode is left is dropped (app.js:6861), though the design says the name
  saves itself (plans/group_feature/design_handoff_groups_feature/README.md:311).
- Each exception of the composer's properties is real: what is toggled while a
  group is read is in neither draft (app.js:6788); a group's answer fills the
  rail under another URL (6799); a rail used before a cancel is answered shows
  what the store does not have (6907), and the answer to a new group clears what
  the rail holds by then (6941); PATCHes that commit out of order leave the
  older membership (6723).

The directory's page:

- A search answer that comes late replaces newer results, or the list of a box
  that was cleared (app.js:11692).
- A shared link with filters shows nobody until something renders the list again
  after the full rows have come (6036, 12242).
- An update of the directory renders the whole list while the box holds a query
  (950).
- An off-line search without a mirror empties the list but not `displayedList`,
  so 'select all' takes rows that are not shown (11733).
- A group's answer fills the pane of another URL (8323). Before the full rows
  have come, every member is offered for removal (8289), and a fellow who is back
  after an update stays flagged (927).
- Two quick Removes bring the first one back (11255).
- The has-email box that differs from the setting at the start is changed but
  the list is not rendered: the function the code looks for does not exist (5550).
- The box is saved only if `privateDataEnabled()` (5515, 5541), which is false
  off-folder and often still false when the boot's `getSetting` answers, for the
  gate is asked first and answered any time. A box set then is in localStorage
  only, and the setting, if there is one, takes it back at the next boot; an empty
  one stays empty. `SettingAgrees` excepts both (`unsaved`).

The page's view of the folder:

- The comment at app.js:9379 says that the warning "must persist until the next
  write succeeds". The code hides it with nothing written when the permission
  lapses (it is back after a reconnect), with Lock, and with a new pick, whose probe
  clears the failure on record (sqlite-worker.js:2839, app.js:9485-9487). When the
  write that follows such a probe fails without a record (2866-2891), the badge
  reads 'saved' and nothing warns. `WarningStays` says what is left of the promise:
  no dismissal, nag or old answer takes the warning away while the folder can be
  reached and no pick is about to write or read it.
- A gate that was asked before Lock and is answered after it leaves private data
  offered until the next look; the worker's guard still refuses.
- Saving a setting and restoring a backup are followed by no look at the folder,
  although the comment at app.js:4198 says so of every edit: the form's submit
  (10270) asks nothing. A write of a group that is refused asks nothing either.
- The banner is looked at once, 1.5 s after the script started (9571): in a slower
  boot it never shows what the last session left.
- A late count paints the nag over a dismissal or a folder attached since (9497).
- A flow started in a Settings page that was left and opened again ends on the
  page that was left (10962).
- Lock while a restore or an edit is still being written (`raced`): the nag that
  follows Lock counted the rows before the write landed, and nothing looks again.
- After Lock the nag says that the groups live only in this browser, though the
  folder has them. Opening the groups right after a pick leads to Settings.

## 4. The proofs

Checked by TLAPS, for any sets and bounds. No theorem assumes anything but the
named ASSUMEs of its module (bounds are natural numbers, and not 0 where the code
does a thing at least once; `None` and the names of states are not data; the
script of the page changes with every build) and the condition it states.

`FolderStoreProofs`:

- `TypeCorrect`: `Spec => []TypeOK`. The type invariant is not inductive alone.
  `Typed` adds that a start that writes or hydrates has a database and a
  connected store, and that a call that is about to read a file has named its
  store; `BootOrder` says that no call is in flight while a start runs.
- `LockDisciplined`: `Spec => []LockDiscipline`, from the type invariant: the
  lock changes only where a call enters or leaves the guarded steps.
- `CommitsMoveForward` (`FolderNeverRegresses`) and `CommitsAreDurable`
  (`ImplementsDurableStore`), for instances whose only flow is edits on a
  connected store. The inductive invariant `CommitInv` says that only that store
  is ever connected (`OneStore`), that no call but an edit is in flight
  (`OnlyEdits`), that the bytes a write holds lie between the file and the slot
  (`ExportsBetween`), and that the slot contains the file (`Covers`). That the
  exported bytes still contain the file when they are written needs
  `LockDiscipline`: no other write can come between.
- `SavedEditsAreOnDisk` (`TrustedEditsOnDisk`), for the same instances.
  `CommitTrust` adds to `CommitInv` where an edit is between its commit and its
  answer (`EditOnItsWay`): in the slot, in the bytes of its write, and in the file
  once these are written and no failure is recorded.
- `BadgeIsHonest` (`BadgeHonest`), with one call at a time and a first folder file
  that exists, for every flow and every fault but the three whose failure the code
  does not record ("lapse", "missing", "schema"). `BadgeInv` says at each point of
  a call what the badge and the slot are going to say of the file. With two calls
  it fails (`lost_edit`), and with each of the three faults too.
- `NewStoresMoveForward` (`FolderNeverRegresses`) and `NewStoresKeepEdits`
  (`TrustedEditsOnDisk`), with one call at a time and edits, new stores and
  disconnects, under every fault. `TrustInv` says that the slot contains the file
  of the connected store and that the bytes in a write contain the slot. Opening
  a store that exists, restores and imports replace what is there, and are the
  subject of the next one.
- `ReplacementsAreUndoable` (`ReplaceIsUndoable`), with one call at a time, no
  disconnect, no lapse, backups that can be written, and `MaxBoots` < `Keep`.
  `UndoInv` follows the snapshot through the rotation of its ring (`Rings`: a
  ring has no more pre-pivot backups than there were starts, `SnapshotOk`: the
  snapshot of the call is in it). The bound on `Keep` is needed: pre-pivot
  backups sort after every date, so a ring full of them drops a snapshot at once
  (sqlite-worker.js:2515).

The last four extend `StoreInv`: typing, the order of a
start and of each flow (`BootOrder`, `Flows`, `BootFolder`) and the lock.

`DirectoryUpdateProofs`:

- `TypeCorrect`; `Typed` adds that bytes on their way are bytes and that an open
  directory is one.
- `DirectoryIsKept`: without the fault "disk", `DirectoryKept`, for any number of
  flows.
- `SwapIsAsConfirmed`: with one flow at a time, `AppliedAsConfirmed` under every
  fault and for edits that commit at any moment. `OneAtWork` ties what the flow
  holds to the pending swap and the staging slot, and says that whoever is in a
  group or on the way to one and is missing from the new directory was counted or
  came too late; two flows break it (see "What does not hold").
- `CheckIsTrue`: with one flow, a meta file that can be written and no reload,
  `CheckIsHonest`. `MetaFollows` ties the recorded SHA to the slot at every step.

`ShellCacheProofs`:

- `TypeCorrect`; `Typed` adds that an install has its label and its manifest, and
  that only a worker that is active has writes under way.
- `AppStartsOffline` (`StartsOffline`) and `CacheIsOneBuild` (`OneBuild`), for
  any builds, contents, pages and faults, failed deletions and roll back
  included. The inductive invariant `Sound` says that the caches are in a line
  and every set of them has an oldest one (`Lined`), that the worker that
  installs is another one than the active one (`Apart`), that what an install
  has cached is what its manifest lists (`Precached`), and that the active
  worker's cache, unless a page took it, has every file, has the start page once
  one was stored, has its cache-first
  files from one build, and has no write to one of those under way (`Whole`). That
  no write to a cache-first file starts needs `WholeAnswers`: a file that the
  active worker's cache has is always answered from some cache.
- `InstallsAreHarmless` (`FailedInstallHarmless`), unless deletions may fail and
  older builds be put back both. The invariant is `Aside`: an install writes to
  no cache older than the active worker's. `Alone` gives it while deletions
  succeed (there is no older cache), `Climbs` while no older build is put back
  (caches are made in the order of their builds).
- `UpToDateCoherent` (`UpToDateIsCoherent`), while no older build is put back,
  under every other failure. `Forwards` says that the device has nothing of a
  build before it is deployed (`Fresh`), that no worker is ahead of the server or
  of the worker that installs (`Newer`), and that a cache a page took from the
  worker of the deployed build is made again after all the others (`Taken`).

`PageStartProofs`:

- `TypeCorrect`.
- `BootsAreLive` (`BootsOnLiveWorker`), for any number of workers and any hosts.
  `Sound` ties the workers of a page to how far its start is: whoever has booted
  has consumed the warm worker; a page whose gate gave the worker up will not
  boot, and shows nothing that could; a worker that is dead without having been
  given up never answered its init; a boot that asks a worker, or has adopted
  one, has one that answered.
- `LinkOpens` (`LinkOpensUntilItAges`): a fresh link is one that was sent and
  whose token is kept, opened or not.

`GroupComposerProofs`:

- `TypeCorrect`; `Typed` adds that a write that names a group gives it a name.
- `EditsTheUrlsGroup` (`EditsWhatTheUrlNames`), from the type invariant: no state
  but the rail and the URL is needed, once answers for a group that was left
  (`crossed`) are set apart.
- `DraftIsKept` (`DraftSurvives`). `Kept` says where the draft is at every moment:
  in the rail, or in the backup of the edit mode the rail is in or the URL has
  asked for, and always in localStorage.
- `EditsReachTheStore` (`EditsLand`). `Landing` says, while a group is edited and
  nothing overtook, failed or crossed its load, that the last write in flight of
  its members carries the rail's members and, without one, that the store has
  them; likewise for its name, once the delayed rename has been sent. `Sending`
  says that a rename waits only in edit mode, and that only the answers to a
  cancel and to a new group are waited for once they have committed.
- `CancelsRestore` (`CancelRestores`). `Reverting` says that a cancel under way is
  the last write of its group: no rename waits, nothing is sent after it but a
  new group, and once it has committed every earlier write of the group has too.

`DirectoryViewProofs`:

- `TypeCorrect`.
- `BulkTakesWhatIsShown` (`BulkSelectsWhatIsShown`). `Bulk` says that
  `displayedList` is what is on the screen whatever rendered it last; `Listed`,
  that full rows are read only for a list that has come.
- `RemovalsLast` (`RemovedStaysRemoved`). `Removing` says that the removal in
  flight, of which there is one, sends a membership without anyone who was
  removed before, and that the rows of the pane contain none of them. The
  members a second removal sends come from the rows the first one left, and
  that is why they must have been drawn without it.
- `ListIsAsAsked` (`ListIsWhatWasAsked`), `PaneIsAsNamed` (`PaneIsTheUrls`) and
  `SettingIsTheBox` (`SettingAgrees`). A page at rest shows what was asked, so
  the invariant `Follows` is about pages that are not: each part of the page is
  what it is to be, or the call whose answer will make it so is due or in flight
  (`RowsFollow`, `ListFollows`, `PaneFollows`, `OrphansFollow`,
  `SettingFollows`). The setting follows only a box that could be saved when it was
  last set or read (`unsaved`).

`PrivateDataGateProofs`, for any number of questions, writes, flows and mishaps:

- `TypeCorrect`, `FolderIsKnown` (`PageKnowsTheFolder`), `BannerTellsTruth`
  (`BannerIsTrue`), `FolderUsersStay` (`FolderUserKeepsTheirPage`), `WarningsLast`
  (`WarningStays`). At rest nothing is in flight, so each follows from an
  invariant of one form: what the page shows is right, or somebody will look
  again. `GateKept`, `NagKept`, `WarningKept` and `BadgeKept` are that invariant
  for the gate, the nag, the warning and the badge; "will look again" is a
  question that no later one has overtaken (`Fresh`), one about the badge whose
  answer looks at the banner too (`Looking`), or a flow that ends with a look
  (`Ending`). `GroupsKept` says that on the pages of the groups the folder changes
  only by lapsing, for the flows that change it start in Settings; `OnePage`
  says that what belongs to a Settings page that was left knows it; `Importing`
  says that a restore began with a folder; `Booted` says what cannot happen
  before the app is shown. `WarningsLast` needs one more, `MissedKept`: a failure that
  was on record when a write or a read ended still is, until a pick has probed the
  folder and is about to write or read it.

Every invariant and action property of the passing runs is stated by a theorem.
Checked by TLC only: the liveness properties `EveryCallReturns`, `EveryFlowEnds`,
`UpdateArrives`, `BootIsWatched` and `GateLetsGo` (fairness and ENABLED are beyond
the prover). The constants of each run satisfy the hypotheses of the theorems about
its properties, so no run claims more of its instance than is proved of all.

## 5. What is left

Not modelled, and why:

- The rate limiter, the hashing of tokens and the cookie: counters and formats
  behind one lock of one process, which its unit tests reach. The production
  server apart from sign-in, the development server and the MCP servers answer
  one request at a time from a database they do not change, or in one
  transaction.
- The arithmetic of the backup ring's names and of its debounce; `FolderStore`
  has the ring as a set with an order and the debounce as a free choice. A module
  `BackupRing` with the names as values would check that 'pre-pivot-' sorts where
  rotation expects it.
- The image cache, the search cache and the prewarm: they are rebuilt from what
  the server has. PDF and contact export, vCards, statistics, diagnostics and the
  About page read and format.
- Build, signing, ETL and deployment scripts keep no state between runs.
- Phones, and browsers without a folder picker: the page then stays in the tier
  for browsing, which `PrivateDataGate` has as the member without a folder.

Next modules: `BackupRing`; the retirement of a folder handle on phones in
`FolderStore`; then `FolderStore` composed with `PrivateDataGate`, whose `worker`
is a summary of it, by a refinement mapping.

Next theorems: a refinement of an abstract 'one directory, replaced by consent' by
`DirectoryUpdate` with one flow; the theorems of `FolderStore` that ask for one
call at a time, for two calls of flows that take the lock.
