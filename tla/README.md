# Specifications of OpenCloudConfig and of the pages of PSWriteHTML

`src/Modules` holds some thirty PowerShell modules and tools. Most of them are
libraries of independent commands. Two of them are systems in their own right,
with state that several actors share and that outlives a call:

- **OpenCloudConfig** (OCC): scripts that start each other on Windows machines,
  talk through files, scheduled tasks and processes, and are interrupted by the
  reboots they ask for.
- **The pages of PSWriteHTML**: the JavaScript in
  `PSWriteHTML/Resources/JS` that a generated report carries. Handlers, timers,
  redraws and saved states share the tables, the menus and the tabs of a page,
  and the user calls them in any order.

These specifications are about both. Line numbers without a file refer to
`src/Modules/OpenCloudConfig/userdata/OCC-Bootstrap.psm1` in the parts about
OCC, and to the script that is named in the parts about pages.

Contents: 1 inventory, 2 modules, 3 runs, 4 what the violated runs show, 5 proofs,
6 what is not modelled.

## 1. Inventory

### OpenCloudConfig: components that keep state

| component | state | operations | talks to |
| --- | --- | --- | --- |
| **Manifest provider** (226-407) | records of applied components (local variable); what is in place on the host | fetch a manifest, pass over it, postpone / skip / invoke / fail an entry, finish | called by a run; a reboot anywhere ends it |
| **Launch hand-over** (666-710, 1084-1122, 2412-2431, 2846-2896; `ci/userdata`) | plugin `Ec2HandleUserData`, scheduled task `RunDesiredStateConfigurationAtStartup`, `C:\dsc\rundsc.ps1`, host name | rename, read the task, save the plugin, unregister, delete, download, register, ask for a shutdown | decides who starts the next run; the CI pipeline captures the builder it halts |
| **Worker instance**: a run's lock (2474-2503, 2952-2955), `Wait-GenericWorkerStart` (2051-2200), `run-generic-worker-and-reboot.bat`, `HaltOnIdle.ps1` | `in-progress.lock`, `task-claim-state.valid`, the HaltOnIdle task, the processes, the ages of two logs | test and make the lock, prepare, claim, wait for the worker; take the semaphore and run generic-worker; judge whether the instance works | the three share the two files and shut down the machine under each other |
| **Chain of trust key** (`Set-ChainOfTrustKey`, 1861-2050) | `ed25519-private.key`, `ed25519-public.key`, access rights, sessions | wait for a user, re-check, seal, generate, shut down | users; the CI pipeline captures the builder |
| Hardware boot: `hw-startup-check.ps1`, `run-hw-generic-worker-10-and-reboot.bat` | `EndOfManifest.semaphore`, `task-claim-state.valid`, `in-progress.lock`, a reboot counter | remove old flags, wait for the end of the manifest, run, count failures, reboot | runs of OCC in the data centres |
| Self-update: `MaintainSystem.ps1` | `rundsc.ps1`, `MaintainSystem.ps1`, generic-worker configuration, old task directories | replace scripts, decrypt the configuration, delete directories | runs at startup beside OCC |
| Drives and page file (716-1010, 2640-2760) | volumes, letters Y: and Z:, page file setting | mount, resize, remap, restart | its restarts land in every other component |
| AMI pipeline and rollback: `ci/update-workertype.sh`, `ci/rollback.py` | images and snapshots per region, provisioner definition, secrets | build, capture, copy, retire, record; roll back | starts the builder and waits for it to stop |
| DSC provider `xDynamicConfig.ps1` | in Windows (Local Configuration Manager) | declarative | called by a run instead of the manifest provider |

```
 CI pipeline --starts--> builder (user data) --run of OCC--> halt --> image --> workers
 boot --user data plugin | startup task--> run of OCC
 run of OCC: rename -> lock -> drives -> HaltOnIdle task -> manifest -> claim -> hand-over -> key/halt
 claim --task-claim-state.valid--> wrapper --> generic-worker --exit code--> restart | halt | nothing
 HaltOnIdle (every 2 min) --reads lock, processes, logs--> halt | restart
```

(On a builder there is no claim, and on a worker no key and no halt.)

### The pages: components that keep state

| component | state | operations | talks to |
| --- | --- | --- | --- |
| **Search builder** (`dataTables.searchBuilder.js`, `Group` and `SearchBuilder`, 2862-4658) | a tree of groups and criteria, each with an index and a depth; logic of each group; the title, Clear All; the saved state | add, delete, indent, outdent, clear, toggle the logic, choose, search, redraw, save, rebuild by a script, reload | one event bubbles up the tree per change; draws the table, is called back for each row |
| **Criterion** (the same file, `Criteria`, 1412-3480) | column, condition, value; the elements on the page and their listeners; a throttled call | pick a column, a condition; pick or type a value; search a cell; save; rebuild | its group sets its arrows and empties its elements; the table draws and saves |
| **Date picker** (the same file, `DateTime`, 30-1398) | the value, the month on view, bounds, the text, what was drawn, listeners, two timers | show, hide, type, turn pages, select, click a day, an hour, a minute, set bounds | the input of a criterion; scripts that set bounds while it is open |
| **Search of a table** (`dataTables.fuzzySearch.js`) | text, mode, a verdict for each row, the tooltip and its handlers, the saved state | type, search, toggle, hover, pick a mode, search by a script, reload | the library's own search, which runs as well |
| **Charts of a table** (`apexchartsEvents.js`) | the point that was clicked, highlighted cells | click on a bar, a slice, a marker, beside all; clear | filters the same rows as the searches do |
| **Conditional formatting** (`dataTables.conditions.js`) | the style of each row | read a cell, compare, judge, style | each draw calls it for each row |
| **Tabs** (`tabbis.js`, `tabbisAdditional.js`) | the active tab of each group, what is remembered, local storage | select, remember, restore | pages of a site share the storage; calls the redraw |
| **Sections and redraw** (`HideSection.js`, `redrawObjects.js`) | sections on view, objects that fit, headers that float | show, hide, find what to redraw, resize, fix headers | tables, calendars and diagrams, which must have been made |
| **Menus** (`jquery.hsmenu.js`, `-dropdown.js`, `-sidepenal.js`) | open menus, submenus, panels; overlays; marks; animations that wait | open, close, reveal, raise, widen, unfold, click outside | each is "outside" for the others |

```
 click -> handler of a criterion -> event -> its group -> ... -> top group -> redraw -> draw of the table
 draw  -> exact search | fuzzy verdicts | filter of a chart | criteria -> rows on view -> formatting -> saved state
 reload <- saved state (search builder, search box and mode) and local storage (tabs)
 click -> handler of the menu it is in, and "outside" of every other menu
 tab | section -> redraw of what came into view
```

The rest (host settings, service control, bootstrap and log, checksums,
robustcheckout, 7Zip4Powershell, Pscx, PSEventViewer, IPv4Toolbox, Carbon,
PSPrivilege, PoshInternals, the document generators apart from these scripts, the
toolboxes, the remote access clients, the frameworks) keeps no state that is
shared or resumed, with the few exceptions of section 6. Each is listed in
`PROJECT.json` with the reason why it is not modelled.

### What is hard

- **Crashes, restarts, reloads.** OCC is interrupted by reboots, its own
  included: `shutdown.exe` returns at once and the script goes on for as long as
  Windows takes. A page is left and opened again at any moment, and comes back
  from what the last handler happened to save.
- **Interleaving without locks.** Runs, wrapper and monitor test a file or a
  process and act on the answer later; timers, throttled calls and the ends of
  animations run after handlers that have changed what they were started for.
- **Identity by position.** The search builder removes and replaces its parts by
  an index that is kept in two places and changed to find things.
- **Partial failure.** Downloads, `schtasks`, the saving of a configuration file
  and components of a manifest may fail, and the script goes on; an exception in
  a draw leaves the half of a handler that came before it.
- **Progress.** The provider loops until it is done; three loops poll for a user;
  a machine that does nothing has to be found; a picker has to close.
- **Boundaries.** Months of different lengths, leap years, noon and midnight;
  blank cells that would be zero; ranges with their bounds in either order.

### What makes each component correct

- Manifest provider: every entry recorded once, after what it depends on; the
  run ends, and then with everything recorded; a reboot replays safely.
- Launch hand-over: whenever power is lost, the next boot starts OCC once.
- Worker instance: one run prepares at a time, and is visible to HaltOnIdle; no
  task is claimed on an instance under preparation; an instance that does not
  work is reclaimed.
- Chain of trust key: a level 3 image has its key and is taken once the user is
  done.
- Search builder: the tree keeps its shape under every sequence of moves, the
  rows on view are those that pass the complete criteria, what is saved is what
  is there.
- Criterion: what is searched for is what its elements show, through redraws and
  reloads.
- Date picker: the calendar is that of the month and its bounds; a click writes
  the day that was clicked; it closes.
- Tables: the rows on view are those of the text, of the mode that is shown and
  of the point that was clicked, styled as the conditions say; a reload brings
  them back.
- Contents of a page: what is on view fits, whatever was opened, in whichever
  order, and also before the objects existed; a reload opens the same tabs.
- Menus: they exclude one another; the overlay and the marks are true.

`PROJECT.json` lists the hazards of what is modelled, each at its line, with the properties that watch it,
or the reason why none does.

## 2. Modules

| module | role |
| --- | --- |
| `DesiredState` | abstract: what one run of the manifest provider promises |
| `ManifestApply` | the provider as coded; implements `DesiredState` |
| `LaunchHandover` | plugin, startup task and script, from builder to worker |
| `WorkerInstance` | lock, semaphore, runs, wrapper, generic-worker, HaltOnIdle |
| `ChainOfTrustKey` | the key of a builder and the sessions of its users |
| `SearchBuilder` | the tree of criteria, its search, its saved state, its handlers |
| `Criterion` | one criterion: elements, listeners, conditions, conversions |
| `DatePicker` | the calendar and the clock at a date input |
| `FuzzyMatch`, `RowConditions` | pure: words against rows; conditions against rows |
| `DataTable` | composes them: search box, charts, formatting, reloads of a table |
| `PageContent`, `PageMenus` | tabs, sections and redraw; the three menus |
| `Page` | composes them: one click is in one of them and outside of the others |
| `MC*` | the instances for TLC |
| `*Proofs` | the theorems about the module of that name; `LaunchHandoverProofs` has those about `ChainOfTrustKey` too |

In each of them a definition marked *Variant* is a plausible bug of the code (a
dropped test, a swapped order, a missing reset). It is used by no specification:
it is there to show that a property would notice.

### Views of OCC

Each of the four modules is a view of the same run from a different side, and
what belongs to another view is reduced to its effect: in `WorkerInstance` the
manifest is one step (`Apply`) that may ask for a restart; in `LaunchHandover`
the drives, the page file and the transcript are one step (`Provision`) that may
ask for a restart or give the instance up; the shutdown at the end of
`ChainOfTrustKey` is `Finish` of `LaunchHandover`. Except `LaunchHandover` and
`WorkerInstance`, which are about a whole machine and overlap in the rename and
the shutdowns, no two views share a variable, so they are checked apart.

**ManifestApply.** State: the document (`manifest`), the records (`applied`, a
sequence as in the code), the snapshot of the current pass (`todo`), `passes`,
and across reboots `inPlace` and `boots`. Entries are positions of the document,
so that two entries for one component are two entries. `IsApplied` is
`Get-ComponentAppliedState` (226-232), which matches type and name and not the
outcome; `DependenciesApplied` is `Get-AllDependenciesAppliedState` (233-242).
`Fetch` (254-258) may fail, after which the document is empty and the run ends
at once. `StartPass` evaluates the filter of line 262 once, while `Postpone`,
`Skip`, `Invoke` and `Fail` look at the live records, in the order of the
document. `Skip` is the answer of a `Confirm-` function; the types without one
are invoked each time; `WindowsFeatureInstall` only logs. `Fail` is the `catch`
of 394, after a component that took effect or did not. `ServiceControl` is `Quiet`:
`Set-ServiceState` (1535-1574) catches what a service throws and only logs a service
that is missing, so that a success is recorded with or without the component in
place. The other branches of the switch differ in what they do to Windows, and no
property here tells them apart: they are one action, which throws or has "in place"
as its result. What they call is in a module that is not in this repository
(`DynamicConfig`); it is taken to have the component in place when it returns.

**LaunchHandover.** `plugin`, `startupTask`, `script` and `named` survive power
loss (and capture: the image has them); `asked` is the shutdown Windows has
accepted. A run is started by either launcher, and each has its own `pc`: that
two runs never overlap is a property, not an assumption. `Rename`, `ReadTask` and
`SaveConfig` (the three calls of `Set-Ec2ConfigSettings`), `RemoveLegacyStuff` (2580,
2588: a builder of a `gecko-t-win7-*` or `gecko-t-win10-*` image deletes the task,
553-589), `Provision`, then the four steps of `New-PowershellScheduledTask`, then
`Finish`. `Shutdown` may come at any moment after it was asked for, and `Outage` at
any moment at all. What went wrong is remembered in `mishaps`, so that a property can
say which failures it tolerates, and `bare` remembers that the task was deleted while
the plugin may still be disabled because of it. When `stage` is `captured`, the next
`Boot` is that of a worker launched from the image: its user data is the JSON of the
provisioner (2549) and starts nothing, whatever the plugin's state (`Launches`).

**WorkerInstance.** Three kinds of process on one machine. A run is at the step
`pc` names; between the two halves of `Invoke-Shutdown -unlock` (the lock is
removed, then `shutdown.exe` is called) it is held in `intent`. `Runs` are the
ways to start a run (the startup task, operators); `ByHand` those whose command
line the test at 2482 compares equal. The wrapper and generic-worker are
`worker`; HaltOnIdle reads the processes (`CheckProductive`), then the lock
(`CheckInitialising`), then the clocks (`ReclaimIdle`, `ReclaimStuck`), and
anything may happen in between: that is where its answers get stale. Time is
three booleans, which turn when the ages the code compares with (eight minutes,
an hour, an hour) are passed. `Die` is a run that is killed or throws, with the
lock in place. Not in the module: the branch of `Wait-GenericWorkerStart` for
worker-runner (2062-2149) and the data centres' variant (2167).

**ChainOfTrustKey.** `Set-ChainOfTrustKey` with its three branches. The waits are
disabled actions rather than loops that poll, since a poll that finds nothing
changes nothing. Each look at the file (`AwaitKey`, `AwaitContent`, `Recheck`,
`Seal`) is a step of its own. A user opens and closes a session at any time and,
in one, creates the file and then fills it; the module assumes that nobody takes
away a key that was put in place. On level 3 a restart is never asked for, the
other kinds may restart and begin again (`PowerDown`).

### Views of a page

One action is one event handler with everything it calls, since a browser runs a
handler to its end; what waits (timers, throttled calls, ends of animations) is an
action of its own that may come at any later moment. The four views share no
variable. Where one needs another it takes it as a parameter: `SearchBuilder` has
`Passes`, what a condition says of a cell, and `Criterion` says it.

**SearchBuilder** (`dataTables.searchBuilder.js`, 2862-4658, and what of a
criterion concerns the tree). `sb` is the tree: the entries of each group with
their index, and of each node its own index and depth, as the code keeps both;
`page` is what is outside of it: rows on view, saved state, title, Clear All and
the listener that looks for it. Every handler ends in one of few sequences:
`Tidy` (empty groups are removed, from the inside out), `Pruned`, `Rebuilt`
(criteria are made anew from their details), `Redraw`. `Indent` and
`Outdent` are the moves through temporary objects, `ClearGroup`, `ClearTop` and
`ClearAll` the three ways to clear, `ApiRebuild` the call of a script, and
`Reload` a new page that is restored from what was saved, or from the option
`preDefined`. `page.cleared` is a history: the clear button of a sub group does not
draw, so that the rows are late until something else does. `Add` leaves the
siblings of the new criterion without the listeners of their delete and arrow
buttons (`page.deafButtons`) and of their value selectors (`page.deafValues`), since
`updateArrows` (1545-1549) empties their containers and only the new one gets
listeners again (3771); `Redraw` and everything that makes a criterion anew give
them back. A flip of the layout in the middle of an `Add` is `Add` and then
`Relayout`.

**Criterion** (1412-3480). The tree around it is reduced to what it does to one
criterion: `SiblingAdded` empties its container and puts its elements back,
`Redrawn` makes it anew from what was saved, `OtherDraw` draws the table. Values
are texts, and a text is a sequence of characters, because the properties are
about conversions: separators, minus signs, currency, blanks, formats of dates.
All conditions of the seven types are here (`Passes`), with the form of their
elements, what is read from these (`LocalEntry`) and when they are complete
(`Valid`). `ui.heard` says whether the value elements still have their listeners,
`late` that a throttled call is to come. moment.js and luxon are external: a text
that has the format is a date, and what has not is nothing for moment.js and the
present for luxon (`Now`, taken for one instant in the life of a page). A blank cell
of a column of arrays reaches the conditions as an array of one blank text (1621),
which is not empty.

**DatePicker** (30-1398). `d` is the value, `display` the first of the month on
view; `drawn` is what the calendar was drawn for, so that a click can only be on
what is on the screen, also when value, month or bounds are others by now. Dates are
computed as JavaScript does (`SetDay`, `SetMonth`, `SetYear` carry over what a month
does not have), which is what makes the order of the calls in `SetClicked` and
`CorrectMonth` matter. `timers.hide` is the hiding ten milliseconds after a click
on a day, `timers.body` counts the calls that will bind the listener for clicks
outside. `picked` is a history: the day of the last click. Inputs that are hidden
have the picker for good (`inline`). `Min` and `Max` set a bound or, with null, take
it away; `stuck` are the icons that stay hidden then, because `_htmlMonth` (813-825)
only looks at an icon for a bound there is.

**FuzzyMatch, RowConditions, DataTable.** The first two are pure: the Levenshtein
distance, the best of a cell, the collation over a row (`Collate` has the lookup
that is always undefined); the twelve operators over texts, numbers and dates with
JavaScript's `NaN` and `undefined`, the three logics, the style. `DataTable` has
the handlers around them: a draw (`Drawn`, `Redrawn`) passes each row through the
library's exact search, the verdicts and the filter of a chart, and then
highlights and formats what is left; `SearchFor` is `triggerSearchFunction`, which
the box, the toggle and the tooltip call, and `Heard` the handler of the library's
event, which runs whoever searched; `Hover` binds the handlers of the tooltip once
more for every visit of the mouse, and `Pick` is a click on a button with all of
them: the first changes the mode and highlights the button, the others see that and
return. `lower` says that the cells the filters look at are in lower case, which a
fuzzy search does to them in place (`fuzzySearch.js:108`), so that a chart's filter
compares a name with what became of it. `Reload` draws with the library's saved
search first and restores the mode by a click after it.
`DrawFails` is the draw that throws because a point of value 0 was not kept: what
came before it in the handler stays. `byScript` is a history: a script searched
without the box.

**PageContent** (`tabbis.js`, `tabbisAdditional.js`, `HideSection.js`,
`redrawObjects.js`). A page is a record of its groups of tabs, how they are nested,
and its objects with the tab and the sections they are in; a site is a set of
pages. `fitted` are the objects that fit the space they have: what is redrawn while
it is hidden does not. `OtherWindow` is a click on a tab in another window of the
site, which writes the storage the pages share; that window had found there what is
there now, or nothing. `Reached` has the exceptions of the redraws: what is broken,
and what does not exist yet because the document is not ready, ends the loop over
its kind. `Remembered` is what a load makes of the memory, `Restored` the way
through JSON, and `foreign` (a history) that another window wrote last.

**PageMenus.** Three menus of three plugins with the state each keeps in classes
of its elements. jQuery queues the effects on one element, so a click that starts
an effect has its result; only where the code acts when an effect *ends* is there
an action for it: `Raised` and `Moved`, with the queues `raising` and `moves`.
`Setting` is what the option `fixedMenu` overrides.

**Page** composes them by the clicks they share: a click in one menu is outside of
the others (`InSide`, `InTop`, `InFloat`), a click in the contents is outside of
all (`Outside`), and a `Load` begins both anew. `Next` is the user; `Library` is
what the libraries do on their own.

## 3. Runs

| run | question | bounds | states |
| --- | --- | --- | --- |
| `manifest_apply` | records complete, in order, gaps explained; few passes; it ends; it implements `DesiredState` | 3 components, one of them quiet, documents below, 1 reboot | 4,434 |
| `launch_handover` | OCC is started once per boot; runs do not overlap | 4 power cycles | 729,927 |
| `worker_instance` | a run is marked by its lock; no task during preparation | 2 runs per boot, 3 boots | 1,962,154 |
| `worker_live` | an instance that does not work is reclaimed | 1 run per boot, 3 boots, AWS | 78,306 |
| `cot_key` | a level 3 image has its key; the wait for the user ends | all kinds, locations, switches; 2 restarts | 838 |
| `search_builder` | tree, rows, saved state; moves and rebuilds | 3 criteria, 2 sub groups, 2 values, one incomplete at a time | 18,920 |
| `criterion` | what is shown is searched for, also after a redraw | 7 columns, 19 texts, all conditions | 13,925 |
| `criterion_listeners` | *violated*: the same, once a sibling was added | the same | |
| `date_picker` | calendar, bounds, clicks; it closes | 3 months, days 1 and 31, one hour, two minutes, one bound that is set and taken away, one timer | 85,333 |
| `table` | rows, highlights, styles; a reload brings them back | 4 rows, 3 texts, 3 points, names with and without capitals, 2 sets of conditions | 37,044 |
| `fuzzy_prefix` | *violated*: does a word that begins a word always pass? | the same with another row | |
| `page` | what is on view fits; menus exclude one another; tabs are kept | 8 pages, 3 groups, 4 objects, 3 submenus, 2 animations, another window | 131,248 |

A property that a run checks is often a conjunction of named parts that are about
one question (`TreeIsSound`, `ContentFits`, `PagesTurn`, `OfferIsComplete`): the
theorems and the comments speak of the parts.

Why the bounds are enough:

- *Documents.* Every document of at most two entries over two components,
  self-dependencies included, and six on three components that two entries
  cannot show: a chain listed backwards (three passes), a fork, a duplicate
  apart from its twin, a duplicate that is postponed once, a cycle beside an
  entry that can be applied, a dangling dependency. Length is not what makes a
  document hard: the order of entries against dependencies, and duplicates are.
  The theorems cover every document. `passes` saturates one above the length.
- *`MaxBoots`*. Four power cycles for the hand-over: the rename restarts the
  builder, a run is interrupted, a run completes and is captured, the worker
  boots. Three for a worker: the rename, a boot that leaves lock, semaphore or
  task behind in whatever state, and the boot that meets them. Two restarts for
  the key (`MaxKeyBoots`). The theorems hold for any number.
- *Runs.* Two runs are what a test of one against the other needs.
- *The tree.* Three criteria and two sub groups reach depth 3, which is the limit
  of the instance, a group between two criteria, a group in a group, and groups
  that become empty by any kind of removal. A criterion more adds neighbours that
  every handler treats alike. `OneAtATime` keeps one criterion incomplete, since
  two incomplete ones of one group are passed over alike. Criteria and groups are
  interchangeable (symmetry; no liveness is checked here).
- *Columns.* One of each type with blank, negative and formatted cells and ties,
  values that equal a cell, lie between cells, and are not of the type.
- *Dates.* January to February of a leap year, February of a common one, and
  December to January, with days 1 and 31: every carry and every length of month
  that the calls can meet, months that begin on the first day of the week, noon and
  midnight. The theorems cover every date and bound.
- *Table.* A row that passes by each kind of match and one that does not, names in
  lower case, and a name that is another row's once it is in lower case, points
  with one row, two rows and the value 0; conditions of each kind and both logics
  that differ.
- *Site.* The page of nested tabs has a group without an active tab, and its
  groups remember with holes; pages share the storage; a calendar that is broken
  stands before one that is not. Each combination of menus that the generator
  makes, both sizes of screen, and the options that change what a click does. Two
  animations can wait for each other; the theorems hold for any number.

`RecordsAreComplete` is not obvious: line 260 compares *lengths*, so that one entry
recorded twice would make up for one never recorded. `GapsAreExplained` says
why a dependent may have been applied on a host without its dependency, given
that `catch` records a failure as an application: only a dependency that failed
in this run, or one of a type whose record says nothing, because it does nothing
(`WindowsFeatureInstall`) or logs its failures (`ServiceControl`). `RestartsOnce`
allows, on a builder, failed downloads and failed creations of the task, after which
the user data takes over; once the image is taken none, because a worker has no user
data to fall back on. It also leaves out the builders whose run deletes the task at
its start while the plugin is disabled (`bare`): section 4.
`RunIsMarked` and `NoTaskWhileApplying` speak of a boot with one run and no
semaphore left from an earlier one (`Undisturbed`): with a second run, or with a
semaphore that was left when the two minutes of 2156 ran out, both fail, which
is why the condition is there. `IdleIsReclaimed` says that there is no behaviour in
which the machine is for ever on, without generic-worker, renamed, with
HaltOnIdle installed and no session open. `RowsAreMeant` compares the code's search,
which skips incomplete criteria on its way, with a second definition that looks
only at what is complete (`Meant`). `PageFollowsTree` says that "Add Condition" never
leaves a group with nothing but deaf buttons, so that there is always a click that
brings all of them back. `PagesTurn` speaks of bounds that are set and taken away in
any order, and names the icon that a removed bound leaves hidden. `ReloadKeepsTabs` is
about a window that was the last to write the storage. `ShownIsSearched` leaves out
the states in which a fuzzy search has made other names of those a chart filters by
(`Renamed`).

### Fairness

- `ManifestApply`: `WF(Run)`. The provider is one thread of one script; nothing
  is assumed about which entries fail or when a reboot comes. `Terminates` is
  about well-formed documents: the others keep it spinning (section 4).
- `WorkerInstance`: weak fairness of the steps of each run (`RunStep`), of
  `Monitor` (the task scheduler starts HaltOnIdle every two minutes; "already idle"
  is part of the guard), of the three clocks together, and of `Shutdown` (Windows
  carries out what it accepted). Logons, sessions, operators, the wrapper and what
  generic-worker does are left free: the machine may never start its wrapper, the
  wrapper may stop at any of its steps, and a task may run for ever.
- `ChainOfTrustKey`: `WF(KeyRun)`, as the loops poll every minute. The condition of
  `InterventionEnds` is that the user has, from some point on, filled the key
  and left.
- `DatePicker`: weak fairness of the two timers, which the browser fires. The user
  need not do anything: `PickerCloses` says that a click on a day closes the
  picker of a date, and that a picker that stays open listens to clicks elsewhere.
- Nothing else on a page has to happen, so the other modules state no fairness.

Deadlock is checked in every run; where the system stops (a finished run, a halted
machine, the bound on power cycles) there is an explicit stuttering action
(`Done`, `Stopped`). On a page the user can always do something.

## 4. What the violated runs show

1. `criterion_listeners`: `updateArrows` (`dataTables.searchBuilder.js:1547`) empties
   the container of a criterion and appends its elements again. jQuery's `empty()`
   takes the listeners of what it removes away, and only those of the column and
   the condition are set again (1751). Once a second criterion was added, a value
   that is picked or typed in the first is shown and not searched for, until
   something draws the builder anew. The comment at 2540: "When the value is
   changed the criteria is now complete so can be included in searches".
2. `fuzzy_prefix`: `dataTables.fuzzySearch.js:152` reads `highestCollated.pass`, a
   property of the array and always undefined, in place of
   `highestCollated[x].pass`. A later cell that is more similar, but not enough,
   takes the pass away that an earlier cell gave, and the row is hidden; 131 says
   "If this search Term word is the beginning of the word in the cell we want to
   pass this word". It is also why `ExactPasses` is about the *last* cell with a
  word that the searched one begins: an exact word in an earlier cell is not enough.

Other places where the code differs from what one may expect are part of the
models and left out by conditions of the properties or by the instances, each
named in the comment of the definition:

- An entry of a manifest whose dependency has no entry keeps the provider spinning
  without a pause, where 259 promises a loop "until all components have been
  applied"; `Manifest/gecko-1-b-win2016-gamma.json` is such a document
  (`Terminates` is about well-formed ones).
- A builder that asks for a restart at 2851 goes on to delete the startup task at
  1087 while the plugin has just been saved as disabled, *because the task was
  there*: if the restart takes effect before the task is created again, the next
  boot starts nothing, which 2847 says the call is there to avoid (a mishap in
  `RestartsOnce`).
- A builder that `Remove-LegacyStuff` is for deletes the startup task at the start
  of its run (588). If the run was started by that task, the plugin is disabled, and
  stays so until the next save: an outage anywhere in between, the whole manifest
  included, leaves nothing that starts OCC (`bare`).
- A builder that is halted after a failed download or a failed creation of the task
  is captured all the same, and workers launched from the image start nothing: the
  plugin may be enabled there, but the user data of a worker is no script
  (`Tolerated` ends with the capture). Builders on which no generic-worker was put in
  place, or with a session open, are not halted by the run (`Finish`).
- `Set-ServiceState` returns whatever became of the service (1535-1574), so that line
  388 records a success. A component may then depend on a service that is not there
  (`Quiet`).
- The test at 2482 compares the command line with one that the startup task
  (1114) does not have, so a run by hand goes on beside it (`ByHand`).
- HaltOnIdle reads processes, lock and clocks one after the other: generic-worker
  that starts in between is shut down at work.
- On the default branch of `Set-ChainOfTrustKey` a builder without a key is shut
  down, where 2019 announces "awaiting timeout or cancellation", and the shutdown
  is asked for (1988) before it looks for sessions, where 2041 announces "awaiting
  manual shutdown". `Level3HasKey` is about the branch that waits.
- "Add Condition" takes the listeners of the delete and arrow buttons and of the value
  selectors of all siblings away (1545-1549 called from 3765-3770; the same code as in
  the first run above). The buttons do nothing until a redraw; text that is typed in
  a selector without a listener is on the page and not in the criterion, which is
  `Criterion`'s subject (`ui.heard`): `SearchBuilder` has no text on the page.
- `rebuild()` with an empty list takes away the look at Clear All of the button
  that adds (`page.addChecks`): Clear All is late then, and a second `rebuild()`
  keeps what was there.
- A list without a logic that is given to `rebuild()` (3557) leaves a group without one,
  which is searched as an OR when it has more than one part.
- "!=" of texts (3250) is complete before anything is picked (`Unchecked`); "=" of
  arrays matches nothing after a redraw (2248, `Removed`); with "." for thousands
  and "," for decimals a saved value changes its separators each time it is read
  (2557, the instance has one separator).
- A throttled call that comes after a condition without elements was picked throws
  before it draws (2556 or 2572), which changes nothing on view; the value it leaves
  is `undefined`, and saving the state of a column of numbers then throws too (1656),
  where the model saves it as it is.
- `min(null)` and `max(null)` leave an icon hidden that the bound had hidden (813-825),
  and nothing shows it again until a bound is set (`stuck`).
- The comment at `tabbisAdditional.js:14` says of the handler of `unload` that it "in
  theory should take care of removing local storage for tabbis". It does not:
  `tabbis.remove` does not exist and nothing is ever removed. `ReloadKeepsTabs` states
  what the memory of `tabbis.js` (55-64, 74-95) is written for, that a reload brings
  the tabs back, and so the opposite of what that comment has in mind. Nor does the storage know which page
  wrote it: pages of a site open the tabs of one another by their numbers, and a click
  in another window after the last one here does change the tabs (`foreign`).
- A fuzzy search leaves the cells it looked at in lower case (`fuzzySearch.js:108`) until
  the page is reloaded, and the filter of the charts compares these with the name that
  was clicked (`apexchartsEvents.js:144`, `159`): a point whose name has a capital
  passes no row then, and one in lower case also passes rows whose name has
  capitals (`Renamed`). What is highlighted is highlighted among the rows that pass.
- A diagram in a collapsed section is not redrawn by `show()` (`HideSection.js:12`), and
  the floating header of a table whose section is hidden waits for the next tab or scroll.
- The overlay of a side menu that is open from the start is the wrong way round
  (`jquery.hsmenu.js:89`); a second click on the hamburger takes its mark away and
  leaves the drawer open, and clicks outside then do not close it
  (`jquery.hsmenu-dropdown.js:168`).
- While a point of value 0 filters a table, every draw of it fails
  (`apexchartsEvents.js:117`; `Stuck`).

## 5. Proofs

All proofs are for every value of the constants. The assumptions are those of
the modules and say what the values are, not what happens: documents are sequences
of entries and no confirmable component is unimplemented (`ManifestsAssumption`),
bounds are naturals (`MaxBootsAssumption`, `MaxKeyBootsAssumption`, `MenusAssumption`), runs by hand are runs
(`ConstantsAssumption`), dates are dates (`Assumptions` of `DatePicker`), the tabs of
a page are numbered and it begins with tabs it has (`PagesAssumption`), the tab
around a tab is on the same page (`NestingAssumption`), submenus are a tree
(`SubmenusAssumption`), the words of a table are not empty and its conditions are
ones the generator writes (`TableAssumptions`), the texts of a builder are of the
characters of the instance (`Assumptions` of `Criterion`), and a search builder has
finitely many nodes, a top group, a depth limit that is a number, and lists of
criteria with its own columns and conditions (`Assumptions` of `SearchBuilder`). TLC
evaluates each of them on the instances.

The type invariant of each module with a state of its own is a theorem here, and so
is every safety property of a passing run, some under conditions that are named with
the theorem and below.

**ManifestApplyProofs.** `TypeCorrect`, `RecordedOnceHolds`, `EndsCompleteHolds`
(together `RecordsAreCompleteHolds`), `DependencyOrderHolds`,
`GapsAreExplainedHolds`, `PassesAreFewHolds`, `Refinement`. None of the first
properties is inductive. The stop test compares lengths, so the argument counts:
`IInv` adds to the type invariant that a record carries the component of its
entry (`Linked`), that an entry still to be visited has no record (`Fresh`: the
filter guarantees it at the start of a pass, and a visit keeps it by leaving
`todo`), and that there are as many records as recorded entries (`Counted`).
From `Counted` and equal lengths, a subset of the positions with as many members
is all of them. `GapsAreExplained` follows from `Effective`: what is recorded as a
success, and is of a type that reports its failures, is in place. The bound on passes is
proved with ranks: if `rank` numbers the entries so that each has its dependencies
below it, then in pass *p* every entry of rank below *p* is recorded and those of
rank *p* are recorded or still to come (`PassProgress`); so a pass *n+1* would
find nothing. It is what termination rests on, without time. `Refinement` maps the
phases and takes the set of recorded entries for `recorded`.

**LaunchHandoverProofs.** `TypeCorrect`, `RestartsOnceHolds`, `OneRunHolds`.
Outside a hand-over the plugin is enabled exactly when there is no task, unless the
clean-up has just deleted one (`Exclusive`), and where there is a task there is its
script (`Backed`); within a hand-over the step of the run tells what is there
(`StepInv`); what is captured was left by a complete run, with the task in place if
nothing went wrong, and a worker has the plugin disabled (`ImageInv`). `OneRun` is needed to prove this (`SingleRun`),
and the other way round: two runs start only from an inconsistent state, and two
runs make one. All of it is conditional on `Undisturbed`, and the step lemmas
first show that a mishap never heals.
The module also has the theorems about `ChainOfTrustKey`, which is a step of the
hand-over: `KeyTypeCorrect` and `Level3HasKeyHolds`. Their invariant (`Level3Inv`)
says what the waits passed so far have seen; users only add to the file, so it stays
seen.

**WorkerInstanceProofs.** `TypeCorrect`, `RunIsMarkedHolds`,
`NoTaskWhileApplyingHolds`, for any set of runs. A run makes the lock because it
does not find generic-worker, and generic-worker is not there because only the
claim at the end of a run creates the semaphore (`ClaimedFirst`): neither holds
without the other.

**DatePickerProofs.** `TypeCorrect`, `CalendarIsCurrentHolds`,
`PickedIsWrittenHolds`, `PagesTurnHolds` (from `IconsTurnOnePageHolds` and
`IconsFollowBoundsHolds`), `OfferIsCompleteHolds` (from `HoursOfTheHalfHolds` and
`CalendarIsAMonthHolds`), for every date, bound, first day of the week and option.
The handlers have one thing in common, which is the lemma `EveryStep`: each of them
redraws the calendar for what is then the value, the month and the bounds
(`Redraws`), or keeps all of these and what was drawn (`Keeps`), or writes a value
and waits to be hidden (`Waits`). `IInv` is about the calendar (`CalInv`: the
month on view is its first day, and the icons are those of what was drawn, or are
stuck on a side without a bound: `BareSide`) and the life of the picker (`Life`). Below it is the arithmetic: a date set to a year, a
month and a day is a date, and the one that was meant when the month has the day
(`NormalIsDate`); from the first of a month to the first of the next are as many days
as it has (`NextFirst`, over the rules of leap years); the cells of a month are
whole weeks and each is under its weekday.

**PageProofs.** `TypeCorrect`, `ContentIsFitted` (from `VisibleIsFitted` and
`HeadersAreSafe`), `MenusAreOverPage` (from `FixedMenuIsSafe` and `DimIsSafe`),
`MenusAreExclusive` (from `OneMenuIsSafe` and `SubmenusAreSafe`), `MarksAreSafe`,
`ReloadIsSafe`, for every site and every list of waiting animations. The menus
have one invariant (`MenuInv`), and the lemma `ClicksKeep` shows it for a handler
of one menu together with the handlers for clicks outside of the others.
`TabInv` says that the active tabs are the ones that are remembered, and that the
storage is what is remembered as long as no other window wrote last, which is
stronger than `ReloadKeepsTabs` asks and is what makes it inductive. For
`VisibleIsFitted` a step has to bring into view only what it redraws: what a
click on a tab makes visible is inside that tab (`OpenedInside`), and what
`Reached` leaves out has something broken before it.

**DataTableProofs.** `TypeCorrect`, `ShownIsSearchedHolds`,
`FilterIsHighlightedHolds`, `SearchIsKeptHolds`, `FormatIsMeantHolds`,
`ComparisonsAreSoundHolds`, `ExactPassesHolds`, for every table.

The first four never open how two texts are compared. `SearchInv` says what each
place that keeps a text (the box, the library, the verdicts, two variables, the saved
state) has to do with the others as long as no script has searched past the box; rows
and saved state are part of it only while draws do not fail. `Lighted` is
`FilterIsHighlighted` without its exception for draws that fail, which makes it
inductive: a draw fails for a point whose value was not kept, and no row shows that.

`FormatIsMeant` is about rows that are formatted again and again, whatever style they
have by then. It is inductive with what hidden rows have (`StyleInv`): no style yet,
or the one that drawing the row for the first time would give. Formatting is a fold
over the containers, and the lemma is that after any number of them the style is the
one of the last container that judges, or what there was before.
`ComparisonsAreSound` rests on the order of texts: the place of the first difference
decides, so that of two texts exactly one is before the other, or they are equal.
`ExactPasses` needs the distance itself. That the matrix exists is an induction over
*i + j*; from "a cell is the least of its three steps" follow its bounds, its
symmetry, that it is 0 for the same texts only, and 1 for one edit. The scores of a
cell are fractions and have a best one; the fold over the cells of a row keeps an exact
word to the end when no later cell has a word that the searched one begins.

**CriterionProofs.** `TypeCorrect`, `HeardIsSearchedHolds`, `BetweenIsBothBoundsHolds`
under `DefaultSeparators`, `HiddenIsCurrentHolds` and `RedrawKeepsSearchHolds` under
`DefaultSeparators` and `NoWholeArrays`, for every table of any columns, and all texts
and conditions. The two hypotheses are where the code does otherwise (section 4), and
are about the options of a table: its numbers are written with "." for decimals and ","
or nothing for thousands, as DataTables writes them unless it is told another
language, since other separators are exchanged each time a value is read (2557); and
arrays are not compared as a whole with "=" or "!=", which find nothing after a
redraw (2248). Pages that the generator writes have no other separators and no column
of arrays. `HeardIsSearched` is not inductive: a value that is searched for must be one
that new elements would show again (`Fits`), and the criterion is complete exactly when
it would be complete with them. `SearchInv` adds both, and the lemma `KeptFits` is
that a redraw, which writes the value into new elements, localises it and reads it back,
ends with the value it began with. `BetweenIsBothBounds` is about the conditions
themselves: the two bounds in either order, over numbers, formatted numbers and dates
(`OrderedPasses`).

**SearchBuilderProofs.** `Inductive`, `TypeCorrect`, `TreeIsSoundHolds`,
`PageFollowsTreeHolds`, `ShownHolds`, `SavedIsCurrentHolds`, `RowsAreMeantHolds`,
`MovesKeepCriteriaHolds`, `RebuildGivesStateHolds`, for any number of criteria and
groups, any depth limit, any lists and options.

*The tree.* `TreeIsSound` speaks of the nodes that are in the tree, and a handler
takes new ones: it is inductive only with what is known of those outside. `TreeInv`
says that a node is in one group at most (`Single`, `Apart`), as deep as it is nested
(`Nested`), at the index it is removed by (`Placed`), that what left the tree is as
good as new and no sub group in it is empty (`Kept`), that no criterion is below the
limit (`Limited`) and that the right arrows are where siblings and limit allow them
(`Arrows`).
`IInv` adds what is outside of the tree (`PageOf`: what is saved, counted, offered).
Hardly a handler keeps `TreeInv` before its last step: indices are late, groups empty,
and what left is not as good as new. `Ready` is what each may leave, with the set of nodes
that will stay, and the lemmas about `Pruned` and `Rebuilt` show for all of them that
the redraw restores `TreeInv`. What is left for a handler is its own moves.

*Recursion.* The search, the details, the restoring of a tree and the climb that
removes empty groups are recursive functions over the tree, which need the tree to be
one before anything can be said of them. Depths decrease downwards (`Layered`), so
they are functions over a rank: that they exist, unfold, and agree on trees of the same
shape is proved once for ranks, and used for each. `RestoreInv` is that what is
restored from the details of a tree with the invariant has the invariant, and these
details.

*What is searched.* `KInv` adds that a criterion is taken for complete exactly when
it is (`Known`) and that the rows on view are those that pass, until a sub group is
cleared (`Shows`). Then the search that skips what is incomplete on its way and `Meant`,
which looks at what is complete only, agree by induction from the leaves. That a new
group lets the same rows pass (`MovesKeepCriteria`) is the lemma `GrownRows`: a group of
one part is that part, under AND and under OR. That no other step makes a group is
`Ungrouped`, and that a criterion which takes over the state of another is the same
after the redraw is `PopulatedAgain`.

*Conditions.* `TreeIsSound` and `PageFollowsTree` have none. The others are under
`EveryInputIsChecked`, which says that `Unchecked` is empty: a criterion with "!=" of
texts (3250) passes for complete with nothing picked, from the next redraw on, so that
they are about builders where no such condition is chosen.
`RowsAreMeant` is also under `EveryListHasLogic`: `rebuild()` with a list that has no
logic (3557) leaves a group that neither ANDs nor ORs. Both are where the code does
otherwise (section 4); the instance of the run meets both.

Induction over data is needed in three modules (folds, the matrix, numbers of texts,
trees).
The library's induction theorems cannot be instantiated here, so it is done with
sets of numbers: a non-empty set of naturals has a least member (`Least`), and a set
that has 0 and with each number the next one has all (`Induction`), both from
`WFMin` of `WellFoundedInduction`; that a fold exists and unfolds from its last
element (`FoldExists`, `FoldInduction`) is proved from these.

**Only model-checked.** Liveness (`Terminates`, `IdleIsReclaimed`,
`InterventionEnds`, `PickerCloses`) is out of the prover's reach: each needs
fairness. The violated runs are
counterexamples and need no proof.

## 6. What is not modelled

In OpenCloudConfig:

- **Hardware boot.** Two batch files and a startup check in the data centres, over
  flags and a counter. The loops of `hw-startup-check.ps1:29` run over `$flagss`,
  which is never set, so that flags survive a boot; the counter of
  `run-hw-generic-worker-10-and-reboot.bat:117` is read from one file and written
  to another, and `set /a` prints nothing, so that its limit is never reached. The
  flag the wrapper waits for is a component of five manifests
  (`EndOfManifest.semaphore`), which `ManifestApply` has as any other. What the two
  scripts then promise each other was not settled enough in the code to be stated.
- **worker-runner** in `Wait-GenericWorkerStart` (2062-2149), which logs what it
  finds and starts two services that are stopped. It uses no lock, semaphore or
  wrapper.
- **Self-update** (`MaintainSystem.ps1`): deletion and replacement of the script
  that starts OCC (356). `LaunchHandover` has the same window in the code of a run.
  The second writer is not in the model: it would add the same loss of the script,
  at a moment an administrator chooses.
- **Drives and page file**: what they ask of the others, restarts, is in
  `Provision` and `Setup`. The rest is about volumes, which Windows keeps; letters are
  remapped in the order of a hash table (949), with no way to see what is in use.
- **AMI pipeline and rollback**: what matters of it to a machine, the capture of a
  halted builder, is in `LaunchHandover` and `ChainOfTrustKey`. A failing
  `create-image` ends the task by the `detach-volume` of its retry
  (`update-workertype.sh:268`), and `rollback.py:144` looks for names that the
  pipeline does not give.
- **DSC provider**: the loop is in Windows. **What each type of component does** to
  the host: twenty calls of Windows commands.

In the pages:

- Of the *date picker*: seconds (the handler of minutes), week numbers, disabled
  hours and minutes, formats of other libraries, the position on the page.
- Of the *menus*: ripples and list animations, the trigger of the search box (it is
  commented out where the generator writes it), the number of links that fit a
  width, the buttons of a panel that no generated page has.
- Of the *search builder*: texts and their translation, styles, the timers that
  remove elements which were replaced at once otherwise.
- Small scripts without state (highlighting, percentages, bars, dates, images),
  `Sortable.js`, which no feature of the generator uses, the coordinates of maps,
  and the minified libraries. DataTables, jQuery and moment.js are external: the
  models have what the scripts here use of them.

Elsewhere: `7Zip4Powershell` has a worker thread and a queue, and an abort that may
come before the `try` whose `finally` completes the queue
(`ThreadedCmdlet.cs:55`); the ping of `Pscx` is asynchronous. Both are a few lines
around a class of .NET. All other modules are libraries of independent commands,
declarations and formatting, without state that is shared, resumed or awaited.
