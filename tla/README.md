# A TLA+ development for Zlyme

Zlyme is a firmware for one handheld (the my355): a kernel and a read-only
squashfs root on a FAT volume, an initramfs that replaces that root on update,
BusyBox init scripts, small programs around the NextUI frontend, and the
larger tools the paks are made of (minui-list, minui-presenter, the Apostrophe
toolkit, ZcrapeGoat). It has few tests for power loss, for two tools or threads
at once, for a device that comes and goes or for a process that dies at the
wrong moment; that is what the modules here are about.

## The system

| Part | State it keeps | Operations | What is hard |
|---|---|---|---|
| `zlyme-boot-write` | flock on `/run`, mount mode of `/boot`, poison marker | run one command with `/boot` writable | concurrent and nested callers, signals, SIGKILL, a remount that fails |
| `zlyme-update`, `S18zlymeupdate` | tars, `WANT`, `pending/`, `FAILED`, the boot files | queue, apply, cancel, fail, reapply | power loss anywhere, several files copied in place, tar names |
| `zlyme-initramfs/init` | `/boot/zlyme`, `pending/` | commit the staged root, mount it | the only root is overwritten in place |
| `zlyme-keylidmon`, `lid_policy.h` | the lid policy, an ignore window | react to lid and power events | events that are stale when read, who owns the screen |
| `zlyme-pak-spawn`, `zlyme-pak-hotkey`, `pak-launch.sh`, `nextui-session` | a session of processes, the leader file | start a pak, stop it, prove that it is gone | `/proc` is not a snapshot, pids are used again, signals race `waitpid` |
| `zlyme-input` | what it believes of InputPlumber, libdbus' queue | apply the policy, release and reclaim the built-in pad | hotplug and a restart of InputPlumber between two calls |
| gamepad driver | a frame buffer, centers and ranges, a motor level, works | cut frames, calibrate, report, rumble, suspend | a noisy line, sysfs writes between frames, works that outlive a close |
| memory frequency driver | the rate it set, the voltage | change the rate, suspend | a transition that failed may still happen; late interrupts |
| `zlyme_prefs` and the cleanup script | one file, a cache in each program, an flock | look up, set, clear, save | whole-file rewrites by several programs, kills |
| `zlyme-usb-enter` | a mount namespace | confine the MTP responder | directories replaced by links meanwhile; any mount can fail |
| ZcrapeGoat | a queue of items, four kinds of threads; `queue.json`, `daemon.pid`, `daemon.control` | add, cancel, clear, hand over to a daemon and back | indices kept over unlocks, kills during a hand-over |
| minui-list, minui-presenter | rows, window, selection, filter; slides | one frame at a time | windows over filtered lists, redraws that are lost |
| Apostrophe | widgets, an input ring, combos, a footer, a pool of threads | screens, downloads | repeats and sleeps, chords, rows that change under the cursor |
| `zlyme-preloader` | the 2 MiB preloader in NAND, backups | arm, disarm, restore, erase | one copy; erase or write fails and so does the rollback |
| `zlyme-storage` and its udev helper | mounts, libraries, the bios generation | hotplug of cards | two events at once, a card pulled during a mount |
| `zlyme-logs`, `zlyme-ctl` | requested, marked and effective log state | toggle, latch at boot | three copies of one setting |
| audio, wifi, samba, ssh, proxy, LED, governor, HDMI | configuration files, external daemons | apply settings | little control state of their own |

They interact through files and signals. `zlyme-update` and every other tool
that changes `/boot` does so through `zlyme-boot-write`. `zlyme-update` leaves
`pending/zlyme` for the initramfs of the next boot. `nextui-session` runs a
pak through `zlyme-pak-spawn` and starts the frontend again on its status;
the hotkey signals that waiter. `zlyme-keylidmon` finds out from `/proc`
whether the frontend or a pak has the screen. The paks ask the user through
minui-list and minui-presenter; ZcrapeGoat is written on Apostrophe and leaves
a daemon behind that owns its queue until the application asks for it back.
Several programs share the preferences file.

`PROJECT.json` lists every component, and under `hazards` the places
where these things bite hardest, with the properties that cover them.

## Modules

**BootWrite** is `zlyme-boot-write`. Each caller (`Writers`) has a program
counter through the script; `owner` is the flock, `fat` the mount mode,
`poison` the marker, `cmd` the wrapped command, `dirty` what is not synced,
`abandoned` records that a wrapper was SIGKILLed, `unmarked` that a volume
stayed writable and its marker could not be made (`mark_poison` ends in
`|| true`; such a call fails all the same, and the next one closes the volume
first). `TryLock`/`PollLock` are `acquire_lock`, `Check` the poison and device tests, `CloseStale` the volume
that was found writable, `OpenRw` trap and remount, then `RunCommand`,
`CommandReturned`, `Sync` and `Restore`. A command may call the tool again
(`Nest`), a signal may come at any step (`Signal`), and SIGKILL leaves the
command running with the inherited descriptor (`Kill`, `Orphan`): the lock is
then held by the orphan, in spite of the header's "the kernel drops that lock
when this process exits".

**OsUpdate** is one update across boots, with one thread of control (`pc`).
`i_*` is the initramfs (`init`), `s18` the init script, `a_*` is `apply_files`,
`f_*` the failure path, `c_*` is cancel. `root` is `/boot/zlyme`, `boot[i]` the
boot files, `pend` the `VERSION` and `zlyme` of `pending/`, `tars` the queued
tars by kind of name (`update`, `versioned`, `other`). A release is a model
value; its `Kind` stands for what the tar and superblock checks find, and a
delta has a `Base`. `Part` is a file with the bytes of no release. A staged
root is checked again when it is reused and before its kernel is copied, and
may be turned down then (`TurnDown`, the fault `check`), also when an earlier
boot copied its kernel: the code then leaves the new kernel over the old root,
which `turned` records. `bytes`
says whether the staged root is on the card, only in the page cache, or torn.
Assumed of the card: directory operations reach it in order, file contents
only with `sync`; a partial root does not mount and a partial kernel or dtb
does not start.

**RootStore** is what ADR 0006 promises, without files: one installed root, at
most one staged root that passed the checks, replaced whole. OsUpdate
implements it with the mapping `installed <- EffectiveRoot`: a half-written
root counts as the staged one that the next boot writes again.

**KeyLid** is the loop of `zlyme-keylidmon` with the policy of `lid_policy.h`.
`Top` is one look at `/proc` and at the switch (`sync_owner`), `ReadHall` and
`ReadPower` the drain loops, `Suspend` and `Resume` the two halves of
`do_mem_sleep`. The evdev queues are bounded and drop events when full, and
`EVIOCGSW` discards the unread switch events of its reader, as the kernel's
evdev does. `guard` is the ignore window; it can run out in an idle `poll` or
during the slow commands of `do_mem_sleep`, not within one pass over queued
events. NextUI's own suspends are not part of it: keylidmon cannot see them.

**PakSpawn** is `zlyme-pak-spawn`, with the kernel's process table around it.
A process is live or a zombie, in the session, out of it by `setsid`, or
foreign; `gen` tells users of one pid apart, as the start time does.
`Collect`, `GetDents`, `ReadStat` and `ScanEnd` are `collect_members`: batches
of `/proc` entries in ascending order, and the stat of each entry when
`readdir` returns it. `young` remembers who was forked in the session since the
`opendir`: nobody promises that a scan sees them. `OpenPidfd` and `SendSignal` are
`signal_verified`; `BusyResult` and `SignalResult` the callers' reactions. The
frontend (`front`) is restarted unless the status is 125.

**PakHotkey** is `zlyme-pak-hotkey`: the scan of `/dev/input`, `poll`,
`read_pad`, hangups and inotify, with controllers that are plugged, unplugged
and given each other's nodes between any two system calls. `read_pad` reads one
event at a time (`ReadEvent`, `NextPad`), so keys and hangups come in between. What the waiter does
with the one SIGTERM is PakSpawn.

**PadPolicy** is `zlyme-input`, one step per D-Bus call. `ip` is InputPlumber as
the calls show it, `wire` the signals on the socket, `inq` those in libdbus'
queue. Plugging, InputPlumber's restart and the release, reclaim and ensure
commands run between any two calls.

**FlipLine**, **FlipPad** and **FlipIO** are the gamepad driver: the byte
stream and `mf_feed`; sticks, boot centers and calibrations, where every entry
point holds `pad->lock` and is one action; motor, buttons, open, close, suspend
and removal, where the work queue, ff-memless and the input core are modelled
as the driver uses them.

**DdrFreq** is `rk3568_dmc.c`: `ddr` is what the memory runs at, `rate` and
`volt` what the driver believes and has set, `mcu` and `irq` the controller and
its interrupt, which may come in the next transition.

**Prefs** is `zlyme_prefs.c` with the `orphan-prefs` command of
`zlyme-game-cleanup.sh`: lookups and changes by two programs step by step
(`Stat`, `OpenFile`, `Note`, `Lock`, `Edit`, `Rename`, `DirSync`, ...), a cache
smaller than the file, failing reads and writes, and kills.

**UsbJail** is `zlyme-usb-enter`: the walk of each export path component by
component, the binds, the new root; links are swapped in and out meanwhile
(`swaps`), and each step may fail.

**ScrapeQueue** is ZcrapeGoat's queue inside one process: the UI thread, the
manager, workers and the cheat thread, one step per locked section; a thread
keeps array indices between them (`th`). **ScrapeDaemon** is who owns the
queue: the application and the daemon, `queue.json`, `daemon.pid` and
`daemon.control`, with kills at any step, failing saves, reads and starts, and
a pid file that is not written. Inside an owner only "works on items" is left,
and beside a daemon that it does not see the application launches no second one
(a bound). A rename is durable when it returns.

**MinuiList** (with **ListKeyboard**, the cursor of its filter keyboard) is
minui-list, one step per iteration of the frame loop: `vis` is the filtered
view, `first`/`last` the window, `shown` what the last flip put on the screen,
`active` and `loaded` the paths tried and the images that did load, `backSeen`
the backgrounds found. Images and backgrounds are files that come and go between
frames. `backLost` says that the background changed and no frame drew it.
**MinuiPresenter** is minui-presenter in the same way, with SIGUSR1, the clock
and pictures that appear later.

**ApList**, **ApOptions**, **ApKeyboard**, **ApPicker**, **ApQueueViewer** and
**ApDialogs** are the Apostrophe widgets, each with its state in one record `w`
of its own kind; an action is one event of the ring or the end of a frame.
**ApDownload** is the download manager with its threads and the one lock.
**ApInput** (with **ApCombo** and **ApFooter**) is the input loop under them:
SDL events, the ring, repeats, debounce, combos, the chord of an overflowing
footer, and the idle sleep of `ap_present`. Deadlines are kept as the time
left.

**MCSession** (PakSpawn, KeyLid, BootWrite) and **MCDevices** extend components
that do not interact and let one of them run while the others stay where they
start, so that one run checks the properties of all of them, under the names
the components and the theorems give them; **MCScrape** (ScrapeQueue,
ScrapeDaemon), **MCLoops** (ApDownload, ApInput) and
**MCUi** (minui-list, minui-presenter, Widgets) do the same. **Widgets** is a
call of any of the widgets: they have one state variable and many names in
common, so it instantiates them, says what their callers, the screen and the
file system may give them (`WidgetsAssumption`), and `WidgetsWhole` what each of
them promises; it is vacuous in the frames of the others.
**MCUpdate** runs OsUpdate under three assumptions about faults. **MCOsUpdate**
and **MCMinuiList** hold the values of constants.

The theorems are in **OsUpdateProofs**, **SessionProofs** (PakSpawn, KeyLid),
**DriverProofs** (DdrFreq, FlipLine, FlipPad, FlipIO, PadPolicy),
**HelperProofs** (BootWrite, Prefs, UsbJail, PakHotkey), **ScrapeProofs**
(ScrapeQueue, ScrapeDaemon), **LoopProofs** (ApDownload, ApInput with ApCombo
and ApFooter), **UiProofs** (MinuiList, MinuiPresenter) and **WidgetProofs**
(Widgets).

Definitions commented "Mutant" are plausible wrong versions of the definition
after them; they are not part of any specification and show that each
property can fail.

## Runs

| Run | Bounds | Shows |
|---|---|---|
| `update` | faults: 4 releases, 3 names, 2 boot files, 2 drops, 2 losses, all faults but `torn`; crash: 3 losses, boot volume writes succeed; live: 3 drops, power holds | recoverable root, only checked images, RootStore; while power holds kernel and root agree or the kernel's root is staged, and `post-update.sh` runs before its staged root is removed, both as long as no write to `/boot` has failed and no staged root was turned down (for the pair: after its kernel was copied); every boot ends in the frontend |
| `session` | PakSpawn: 3 pids used again, 2 forks, batches of 2; KeyLid: 3 queued events; BootWrite: 2 callers, 2 polls | no foreign process is signalled; the waiter returns; one suspend per closed period and none by the waking press; an opened lid ends the period; a command of zlyme-boot-write runs only in its own transaction on a writable volume; the volume is not left writable without marker unless a wrapper was SIGKILLed or the marker could not be made; after the marker no command starts; status 0 is durable and read-only; every call returns |
| `devices` | PadPolicy: 1 external pad, 3 changes, 1 timeout; FlipLine: 2 faults; FlipPad: 2 frames, 2 calibrations; FlipIO: 6 events; DdrFreq: 3 rates, 4 calls, 2 errors; Prefs: 2 programs, 3 operations, 1 failure; UsbJail: 5 programs, 5 export lists, 2 swaps; PakHotkey: 2 nodes, 3 keys; PakSpawn: 3 pids used again, 2 forks, batches of 2 | the policy holds whenever the daemon waits; the driver gets in step again; centers stay usable and reports true; no motor is left on, no button wrong; the voltage suffices and sleep is at the boot rate; no other row of the preferences changes, but for rows a writer could not read or copy, which are gone; the responder is confined; only a chord of one controller fires; the frontend comes back only when nobody is left of the session who lived at the last `opendir` of `/proc`, and the pak runs only when published |
| `scrape` | ScrapeQueue: 2 roms, 3 kinds, 1 worker beside manager and cheat thread, 2 items; ScrapeDaemon: 2 items, 2 kills, all faults but a full card and a pid used again | threads keep what they claimed; snapshots are final; the queue drains; one owner, but for an application opened while `daemon.pid` does not name the daemon; background work survives, and comes back if it can be read |
| `ui` | some 1700 inputs of minui-list (up to 9 rows, window of 3), 196 starts of minui-presenter, small instances of the widgets | the selection is in the window, only rows of the window hold an image, and the screen shows the list as it is, but for a background whose redraw was dropped (`ListShown`), the slide is shown (`SlideShown`), the cursor of a widget is on the screen and rows, texts, paths and workers are whole (`WidgetsWhole`) |
| `loops` | 3 downloads, 2 at a time, 3 slots, all faults; 6 devices of the input loop, 1 or 2 events at a time, ring of 3, 85 footers of up to 3 hints | results are exact and no thread is left; the manager ends; no button, chord or combo stays held; no deadline is slept over; every hint is drawn or listed; held directions keep repeating. `Off`, an unarmed deadline, is 99: later than any that is armed |
| `update_loop` (violation) | one tar with another name | applied at every boot, for ever |
| `update_torn` (violation) | one full update, one loss | a torn staged root replaces the good one |
| `pakspawn_outrun` (violation) | 4 pids not used again, 2 forks, batches of 2 | a member forked behind the batch that was read is missed, and the frontend starts beside it |
| `pakspawn_stop` (violation) | 3 pids, 2 forks | a SIGTERM between the flag test and `waitpid` is lost |
| `hotkey_replug` (violation) | 2 nodes, 3 plugs | a controller that takes a used node is not watched |
| `scrape_handoff` (violation) | 2 items, 1 worker | a hand-off turns the manager's own download into an error |

Why the bounds are enough: two callers are a holder and a waiter, nested or
not, and the safety part is proved for any number. Two boot files are the
least with a partial set; two drops let a second tar meet what the first left
behind; the third loss hits the retry of a retry. Three queued events hold a
close, an open and a close. The leader, a member and its child are what a scan
can be outrun by, behind the batch or in a pid used again; polls only matter as
"some" and "last". One worker beside the manager is enough for two threads on
one array, and two items for an index that moves. A window of three rows over
lists of up to nine has a middle, partial last pages and every wrap; headers
and pinned rows come in every position of lists of up to four. A third plug is
the least that uses a node again while its old owner is still open. Three
downloads, two at a time, have one that waits. `CHECK_DEADLOCK FALSE` stands
in the runs with components that end: a session, a screen, a tool, a bounded
number of device events.

The violated runs are disagreements between the code and its own comments or
documents, quoted under `findings`. More were met while modelling and have no
run of their own:

- `cp -f` of the root truncates it before the log says "keeping current zlyme"
  (`init`, 200-201); a failed copy of `Image.gz` leaves a partial kernel while
  the frontend comes up (fault `boot_copy`); a power loss between publishing
  `pending` and `install_boot` lets the initramfs install a root whose kernel
  was never copied.
- `prefsReload` takes a failed `fopen` and a read error for the end of the file
  (150, 154), and `prefsSet` then renames the shorter file over all rows; the
  appends of `zlyme-game-cleanup.sh` (678) are not checked before its rename.
- `prefsReload` reads the rows and only then stats the path: rows of a file
  that was replaced in between are kept under the new file's identity, which
  `scripts/tests/test_prefs_reload.c` takes for an error.
- `rk3568_dmc.c`: a transition that fails after the clock has changed leaves
  `rate` at the boot rate, and suspend (383) then restores nothing.
- `daemon.c` (284): any live process with the number in `daemon.pid` is taken
  for the daemon, also after a reboot; the application then never takes the
  queue back. `fputs` and `fflush` of `queue.json` are not checked (175), nor
  is writing `daemon.pid` (557): an application that is opened then works
  beside the daemon. After a take-over `ui.c` (2682, 2694, 2705) deletes the
  queue when it could not be read, also for want of memory.
- `apostrophe.h` (1794): a strict sequence is refused only for a press with the
  same or a later stamp, not within the window as the comment says.
- minui-list marks a background as found (1891) before it is drawn: the filter
  keyboard drops that redraw (1876) and it is not looked for again. A picture that
  did not load is not tried again until its path changes (3227).
- `apostrophe_widgets.h` (4219): the `fclose` of a download is not checked, so on
  a full card a complete download may be short.
- minui-list resets `redraw` after main has set it for the wifi icon (1884) and
  reads `visible[-1]` before it wraps (2090); minui-presenter draws
  `items[item_count]` when SIGUSR1 ends it (524) and lets the timeout replace
  the exit code of a button pressed in the same frame (1838). The models have
  these behaviours; undefined reads take every outcome.
- With more downloads than slots Apostrophe detaches threads nobody waits for
  ("fallback"); `ResultExact` is checked up to the number of slots.

### Fairness

BootWrite: a live wrapper is scheduled (WF) and a wrapped command ends (SF,
because nested calls interrupt it); SIGKILL and signals are never forced.
OsUpdate: the boot chain and the scripts go on while there is power (WF on
`System`); the user is never forced to do anything. KeyLid: the daemon is
scheduled and `poll` has a timeout (WF); a drain loop that finds its queue empty
again and again ends (SF), and `QueuesRunDry` says that nobody moves the lid or
presses a key faster than events are read. PakSpawn: waiter and child are
scheduled and a process that was sent SIGKILL dies; a pak never has to end,
and SIGTERM has to have no effect. PakHotkey: the helper is scheduled (WF).
ScrapeQueue: its threads run (WF), and creating a thread, which may fail, does
not fail for ever (SF); the UI never has to do anything but end a stop or a
cache clear it began. ScrapeDaemon: application and daemon run when they live,
and the user opens the application again (WF). ApDownload: the loop runs (WF)
and each thread gets the contended lock (SF). ApInput: the thread moves on
from place to place and the clock ticks (WF); the property speaks of a pad left
alone, since endless input may keep the loop in the queue. The other components
are checked for safety only and need none.

## Proofs

`OsUpdateProofs` holds for all releases, names, numbers of boot files, drops
and losses and every fault set without `torn`; `update_torn` shows that this
hypothesis is needed. `UpdateInv` is the strengthening: a half-written root
is met only before the mount, the commit only cleans up once root and staged
root are the same, and what `apply_files` works on has passed the checks.
`RootRecoverableThm` and `OnlyCheckedImagesThm` follow, and
`ReplacesWholeThm` proves step simulation of `RootStore`.

`KernelFollowsRootThm` needs `KernelInv`: at each point of the script, which
release the boot files are of while some of them are copied (`copied`), and
that all of them go with the staged root if there is one, with the installed
root otherwise. `HookFirstThm` needs `HookInv`: a staged root that lost its
`VERSION`, or that is being removed, has run its hook; this survives any
number of power losses. Both speak of a card no write to whose `/boot` volume
has failed so far (the history variable `refused`) and on which no staged root
was turned down by the checks that are repeated, for the pair of kernel and
root after its kernel had been copied (`turned`), and say so themselves.

`SessionProofs`. `SleepsWhenAskedThm` for queues of any length above
zero. `Inv` says where in a drained queue the events of the current period can
still be: an open lid whose `close` is unread has it as the last switch event
(`CloseIsLast`), a served period has none left (`PeriodServed`), and the press
that woke the device is either unread with the window open or gone
(`WakeGuarded`). Without them a second suspend could be read from a queue that
nothing says anything about.

Of PakSpawn `TypeOKThm`; `NoStraySignalThm` for any pids, used again at
any moment; `FrontendAloneThm` likewise, with `ExecAfterPublish` as its first
part. `SessionInv` has the reason: when a scan that has found nobody stands at
`pos`, every member with a smaller pid is in the batch or was forked since the
`opendir` (`ScanTrue`), and the leader's pid is given to nobody else while the
session has a process (`LeaderKept`). That nobody at all is left is false of the
code, also for pids that only grow (`pakspawn_outrun`).

`DriverProofs`. `MemorySafeThm` for every table in which a higher rate has no
lower voltage (`OppTable`), any number of calls and errors; `DdrInv` bounds the
rate the memory can have by what the driver believes, what it asked for, and a
transition whose interrupt may still come. `InStepThm` for any number of
faults and any data bytes but the end marker (`LineBytes`): `LineInv` says that what `mf_feed` holds is
the tail of what the pad sent, counted from the last damaged byte; if the end
marker can be data, a frame boundary can be taken for data again and again and
no number of bytes is enough. `SticksTrueThm` for every pad that
`PadAssumption` admits: where a center came from (`source`) is part of `PadInv`,
since it decides which checks a restore makes; that a report has the sign of the
deflection and reaches the ends rests on lemmas about the median (a count of
the smaller samples), the integer square root and quotients of products.
`ReportedThm`: the last report of every axis is computed from the present
state. `PolicyAppliedThm` for any pads, orders and command lists:
`PolicyInv` says what InputPlumber has while the daemon is between two calls
(`IpSound`), that an active daemon hears its signals (`ActiveHears`), that work
still to be done is on its list (`ManageDue`, `OrderDue`) and that the list it
walks is the current one. The order of the pads is `Wanted`, a sequence built by
recursion; a least counterexample to `Among` shows what it keeps. `MotorAndButtonsThm` without hypotheses; `MotorInv` and `ButtonInv`
say, for each stage of open, close, suspend and removal, which work may still
be queued or running, because a work queued before a close would start the
motor after it.

`HelperProofs`. The theorems about BootWrite hold for every set of callers and
every number of polls.
`TransactionInv` is the strengthening: whoever is past the lock owns it, the
owner is past the lock or an orphan, what the volume is at each point of the
script, and no transaction is past the check with the marker set. Without it
`WritesAreOwned` is not inductive: a second wrapper might restore the volume
under the first. From `WriteTypeOK /\ TransactionInv /\ WritesAreOwned /\
NeverSilentlyWritable` follow `TypeCorrect`, `WritesAreOwnedThm`,
`NeverSilentlyWritableThm` and the action properties `PoisonRefusesThm` and
`SuccessIsDurableThm`.

`KeepsRowsThm`: the holder of the lock has read the rows the file has, or its
first rows and knows no more (`short`), and every program that is about to write
differs from what it read in one key (`PrefInv`). `ConfinedThm`: whatever the responder needs is bound or still
on the list (`JailInv`); it holds for any programs and export lists whose
scripts have an interpreter in the table (`JailSetting`). `ChordHonestThm` for
any number of nodes, pads, keys and plugs: what the watcher believes of a pad
is what held at some prefix of the events it has yet to read (`HotInv`, with
`Held`), so that both keys of a chord are known to have been down on one
controller at one time.

`ScrapeProofs`. `ClaimsHoldThm` and `SnapshotIsFinalThm`, for any
number of roms, workers and items. `QueueInv` adds to the claim that an index
kept over an unlock still names the item a thread works on, which is so because
nothing moves items while the manager runs, and that a queue that was handed
over has no thread. Of the daemon `OneOwnerThm` (the pid file goes
last, so an opening application and a leaving daemon never overlap; `PidHeld`:
a daemon with the lock is named by its file, or `unnamed` says that it is not);
`BackgroundSurvivesThm` for a card that is not full (`CardSetting`):
with a full card `serialize_queue` renames a truncated file into place, and the
property fails. It speaks of no queue that could not be read back (`misread`)
and of nothing that follows on two owners (`CardIs`). `CardInv` says of each place of the two processes what the queue
in memory, the file and the work done know of each other (`Recorded`, `Exact`,
`Snapshot`): the daemon's queue is exact while it works, cancelling and handing
over turn it into the final state of every item, and the file has that state
from the save to the exit.

`LoopProofs`. `ResultExactThm` for any number of downloads, slots and threads
at a time: the counters agree with the statuses (`StatusFits`, `Uncancelled`),
the last frame has seen every end (`LastFrames`), and what the joins do not wait
for is beyond `Slots` (`Joined`); what a transfer that ended well leaves is
`Written`, short also where the flush may fail. `NothingLeftHeldThm`, `FooterHonestThm` and
`WakesInTimeThm` for any devices, rings, delays, combos and footers: `InInv`
says that every held direction is asserted by a key, the hat or the stick that
was heard last (`HeldHasSource`), that a chord's swallowed buttons are down
(`ChordClean`), that a combo that is on is in the table with its buttons down
(`ComboClean`, which has to survive a removal that moves the entries behind it),
that a ring is read before it is slept on (`RingRead`), and that the sleep ends
before every deadline (`SleepsBefore`). The footer's layout is a fold over the
hints; its lemmas climb along the recursive functions it is written with
(`Climb`, `StepByStep`).

`UiProofs`. `SlideShownThm` for any arguments (`PresenterInv`: `SlideSelected`,
`Page1`). `ListShownThm` for any lists, texts and rows: `ListInv` describes the
window of a filtered list with rows that cannot be selected (`WindowFramed`), of
a list of which nothing was read, and of the keyboard (`ListTyped`); every
action either draws (`FirstDrawn`) or leaves what is drawn alone (`StillKeeps`),
and an image is held only for a row of the window with a path that was tried
(`CacheBounded`).

`WidgetProofs`. `WidgetsWholeThm` for any lists, options, texts, file systems,
jobs, details and sizes. `WidgetInv` has one part for each widget, and only the
widget whose frame `w` is takes a step (`FrameOf`, `OwnSteps`). `ListInv`: the
jump index is the one of the order shown outside the reorder mode, and leads
into the list (`AlphaIs`), so that a jump stays among the rows. `KbInv`: the
cursor stands between two characters of the text (`IsBetween`), where a text can
be cut and joined without breaking one (`Cuts`, `Joins`), and on a key of the
layout. `PickInv`: the directory that is shown is below the root and was reached
without a link (`Grounded`, `NoLink`); a path without links is its own real path
(`RealSame`), also after something above it was removed or made (`RealLess`), so
that it cannot come to lead elsewhere while it is shown. `ViewInv`: the cursor is
on a row of the list between snapshot and drawing (`ViewFits`), and what a frame
drew fits the list it was drawn from (`DrawnFull`). `DialogInv`: a thread is
joined only when it is done; that details scroll to their end compares, section
by section, the heights as counted with the heights as drawn (`DetailHolds`).

Some attempts were findings about the model. `MemorySafe` as it stood was not an
invariant beyond the bounds of its run: after several failed transitions a
suspend and a resume make `rate` equal to the clock but not to its voltage, and
a lower target whose regulator call fails is then taken as reached. The
property allows for one failed transition in a row; the ghost `failed` is
now reset only by a call that succeeded. In FlipIO, effects can also be
played while the device is being removed (`Frozen`). In PadPolicy the built-in
pad was put first in an order that does not list it; the code moves it only
within the list.

The encoding for the SMT solver that tlapm 1.4.5 uses has as an axiom that a
value has the domain `1 .. n` if and only if its `Len` is `n`. For functions that
are no sequences (`[0 .. n -> V]`, say) the direction from right to left
contradicts their domain, and with such a function and a `Len` in one obligation
anything could follow. All proofs have therefore been checked a second time with
that direction left out of the axiom; they do not depend on it.

What the theorems assume of the constants is named where the constants are
declared (`DlAssumption`, `TimingAssumption`, `SetupAssumption`,
`GapAssumption`, `FooterAssumption`, `RowsAssumption`, `InputsAssumption`,
`ArgsAssumption`, `PadAssumption`, `PolicyAssumption`, `QueueAssumption`,
`WidgetsAssumption` and others); TLC evaluates it in the runs. The remaining hypotheses (`OppTable`,
`LineBytes`, `PrefsSetting`, `JailSetting`, `HotSetting`, `CardSetting`,
no `torn`) hold of the constants of the runs that check the same
properties.

Only model-checked: liveness (`EveryCallReturns`, `BootEnds`, `PeriodEnds`,
`WaiterReturns`, `WorkDrains`, `Reopens`, `ManagerEnds`, `KeepsRepeating`),
which TLAPS does not handle with fairness. Every invariant and every action
property of the passing runs is a theorem.

## Not modelled

The contents of tars, hashes and superblocks (the `Kind` of a release), the
splash, log texts and status output, `zlyme-update uboot`, the volume keys of
`zlyme-keylidmon`, threads of a pak (a process whose first thread has exited
shows as a zombie), wall-clock jumps in the timeout of `zlyme-boot-write`, and
the components with status `not_modelled` in `PROJECT.json`, each with its
reason. Of the larger tools: pixels, fonts, themes and text layout below the
line; HTTP, JSON, git and matching in ZcrapeGoat, whose outcomes are chosen
freely; the screens of its `ui.c` other than the hand-over; parson, which is a
library. Two hazards lie wholly in parts that are not modelled:
`zlyme-preloader` (485), where erase, write or verify of the one NAND preloader
fails and the rollback too; and `zlyme-storage` (229), where two udev events
raise the bios generation at the same time. The wall clock of the presenter's
timeout and of `zlyme-boot-write` does not jump. A close of the lid served by
NextUI leaves no trace in keylidmon, and a restart of keylidmon while a pak runs
is not modelled.

## Plan

1. Done: BootWrite, OsUpdate, RootStore and their proofs; KeyLid, PakSpawn,
   PakHotkey; PadPolicy and the two drivers; Prefs; UsbJail; ScrapeQueue and
   ScrapeDaemon; minui-list, minui-presenter and Apostrophe.
2. Proofs. Done: every safety invariant and action property the passing runs
   check. Left: type correctness of OsUpdate as a theorem of its own.
3. Preloader: `zlyme-preloader` with erase, write, verify, retry and rollback,
   against an abstract "NAND holds one known image or the tool says so".
4. Storage: hotplug events, the mount lock and the bios generation of
   `zlyme-storage`; then the reaper of `zlyme-usb-transfer`.
5. A composition of OsUpdate with BootWrite in place of its atomic boot copy.
