# pispot in TLA+

Models, model-checking instances and machine-checked proofs for pispot, a
Raspberry Pi hotspot with a web dashboard. Paths below are relative to the root
of the repository; `authz/` and the like are short for `dashboard/internal/authz/`,
`wifi/` and the like for `host/internal/wifi/`.

Contents: [Inventory](#inventory), [Modules](#modules), [Runs](#runs),
[Findings](#findings), [Proofs](#proofs), [Model-checked only](#model-checked-only),
[Not modelled](#not-modelled), [Order of work](#order-of-work), [How to run](#how-to-run).

## Inventory

Two long-running programs and one command-line tool. **pispot-ui** (a container,
unprivileged) serves the dashboard; **pispot-authd** (a systemd service, root) does
everything that needs privileges, and answers JSON requests on a Unix socket, one
per connection; **pispotctl** is run by an operator on the host and uses the same
Go packages directly. There is no database: state is one configuration file, the
units of systemd and the processes of dhcpcd, and in-memory caches.

```
 browser: app.js, wifi.js
    |  HTTPS, Basic Auth, polls /api/stats
 pispot-ui: authz middleware + verdict cache
    |          \-- collectors (hotspot, wan, admin) and samplers (netstats, system)
    |  Unix socket, one request per connection
 pispot-authd: socket.Serve -> handleRequest -> PAM | groups | wan.Up/Down | wifi.*
    |                                              pispotctl: wan.Up/Down, wifi.List
 host: systemd (wpa_supplicant@wlan1), dhcpcd, wpa_supplicant-wlan1.conf
```

| Component | State it keeps | Operations | What is hard | What makes it correct |
|---|---|---|---|---|
| Wi-Fi store, `wifi/config.go` | `wpa_supplicant-wlan1.conf` and its `.tmp` | `List`, `Add`, `Remove` (read, edit, open, write, rename, remove on failure) | a goroutine per request and no lock; one name for every temporary; full disk; the daemon dies | a request takes effect at once or not at all; nothing saved is lost, doubled or invented |
| WAN control, `wan/ops.go`, `wifi.Reload`, `pispotctl` | none of its own: unit, dhcpcd, systemd's job | `Up`, `Down`, `Reload`, `wan-up`, `wan-down` | two commands per operation and nothing between operations; a killed `systemctl` leaves its job; operations without a timeout | an ok reply is true; every operation is answered; nothing changes later without an error |
| Authentication, `authz/`, `authd` `handleAuth`, `groups/` | verdict cache by hashed credentials, five minutes | middleware, cache get and set, PAM, groups, admin checks of the handlers | the account changes between the checks, verdicts are written out of order, groups are passed over, restarts | revocation takes effect within a bound; only admins change anything; empty passwords open nothing |
| Socket server, `socket/server.go` | listener, one goroutine per connection | accept, decode, dispatch, reply, stop | stops without draining; accept errors that persist; stale socket file | each request has one reply or a closed connection |
| File format, `wifi/config.go` parse and write | none | parse, write, unquote | quoting on one side only, unknown lines, a header that ends in an empty line or does not | what is written reads back, as far as it does; the header survives |
| Lazy collectors, `hotspot/`, `wan/`, `admin/` | one snapshot, its age, a mutex | `Snapshot`, `refresh` | requests queue behind each other's refresh; commands hang; partial failures keep old data | answers are fresh, old data is shown as such, commands are not run more often than promised |
| Samplers, `netstats/`, `system/` | last counters, a published snapshot, a ticking goroutine | `Run`, `tick`, `Snapshot` | counters restart, interfaces vanish, some readings fail, ticks are late or dropped, the sampler stops before the server | a rate stands for the bytes that were carried; a failure is not taken for a reading; an answer is recent |
| Stats API, `api/handlers.go` | none | `Stats`, `...FromCollector` | one response mixes collectors of different ages | every error is passed on |
| Dashboard page, `web/static/app.js` | `wanPending`, `lastSupplicantActive`, timer | `tick`, `wanOp`, `renderWAN` | polls that overlap and answer out of order, clicks while an operation is pending | buttons match the link in the end |
| Wi-Fi page, `web/static/wifi.js` | the list shown | load, add, remove, restart | two pages at once | the last network is not removed |
| Setup, `scripts/init.py`, `scripts/check_secrets.py` | generated files | prompts, writing | re-runs with earlier answers | what was asked for is written |
| Deployment, `ansible/`, `Makefile`, `docker/` | the installed host | provisioning | overwrites what the dashboard saved | idempotent |

How they meet: the handlers call `authz.CallWifi*` and `CallWan*`, each a socket
round trip; the middleware calls `CallAuthd` on a cache miss; `Stats` calls the
three lazy collectors one after the other and reads what the samplers published;
the WAN collector sees what WAN control did only through `iw`, `ip` and `/proc`;
`wifi.Add` changes a file that the supplicant reads at its next start, which
`Reload` forces. `PROJECT.json` lists the hazards of this code one by one, each at
its line, with the properties that would catch it or the reason why there is none.

## Modules

| Module | Models | Built on |
|---|---|---|
| `WifiDoc` | contents of the configuration: parse, validation, edit, render, replies | |
| `WifiStore` | **abstract**: an atomic store of networks with the same requests | `WifiDoc` |
| `WifiConfig` | the file-level store, one action per system call, refines `WifiStore` | `WifiDoc`, `INSTANCE WifiStore` |
| `WanControl` | Up, Down, Reload and pispotctl against systemd and dhcpcd | |
| `WanSolo` | `WanControl` with a record of which operations overlapped | `EXTENDS WanControl` |
| `AuthGate` | a request from the cache lookup to the privileged operation | |
| `LazyCollector` | the three on-demand collectors behind `/api/stats` | |
| `Samplers` | the two sampling goroutines, the requests that read them, SIGTERM | |
| `WifiFormat` | the configuration file line by line, under rewrites | `INSTANCE WifiDoc` |
| `WanPage` | the refresh loop and the WAN buttons of the page, over `WanControl` | `EXTENDS WanControl` |
| `MC...` | instances for TLC: initial contents, symmetry | the module named; `MCWanControl` is of `WanSolo` |
| `InductionLemmas` | induction over numbers and sequences, for the two `Wifi...Proofs` | |
| `...Proofs` | the theorems of the module named | `WanControlProofs` is of `WanSolo` as well |

Operators that begin with "Mutant:" in their comment are altered forms of the
definition after them; no specification uses them. They are what a plausible bug
in that piece of code looks like, and each property is known to be violated when
its mutant (`PROJECT.json`, "mutants") takes the definition's place.

### WifiDoc, WifiStore, WifiConfig

A file is a sequence of cells, a header and one cell per network block; a block is
its SSID, because the passphrase is carried along and never looked at. `Nets` is
`parse`, `Render` is `write`'s buffer, `Refused` and `Edited` are the two halves of
`Add` and `Remove`, before and after their decision to write.

The file system has inodes. `dir` says which inode the names `config` and `tmp`
have, `fd` which one each goroutine has open. This matters: `os.WriteFile` opens
with `O_TRUNC` and writes later, and an open file follows its inode through a
rename. `pc` names the system call that comes next: `read`, `open`, `write`,
`rename`, `unlink`, `reply`. `Accept` is the accept loop with the decoded request;
`Crash` is a killed daemon and also a stopped one, since `Serve` returns without
waiting for its handlers, and takes effect between two system calls. With `Faults`
any system call may fail. `Serial` makes clients wait for each other.

A write starts at offset 0 and what the file holds beyond its end stays, as in the
code. How long the lines are is left open: `Overlaid` are the contents that a
complete write over other contents can leave, where the end of the new text may fall
anywhere in the old (a block that it cuts is no longer one for `parse`); `Torn` are
those of a write that stops anywhere, also inside a block, whose beginning then stands
before the end of an older block (`Mixed`).

`WifiStore` has the same requests and replies, and a store that each request reads
or changes in one step. The refinement mapping takes the store to the contents of
the file named `config` and merges the labels between `read` and `reply` into
"open": a request takes effect at its `Rename`.

### WifiFormat

The same file with its text: a line is a field with its value, an opening or closing
line, an empty one or another; a value is a sequence of characters of which a
quotation mark, a backslash and the rest are told apart. `Parsed` folds `Scan`, the
body of `parse`'s loop, over the lines (`Scanned` has the state after each of them);
`Render` is `write`, whose `%q` is `Quoted`; `Unquote` takes off the outer marks only,
as the code does; `Without` is what `Remove`'s loop leaves. `book` is a history
variable: what was installed and what was asked for since, as it was given, and how
often the file has been written with it (`age`, never more than `writes`). Its initial value comes from `Blocks`, a
definition of a network block that does not scan (from a line that opens one to the
next line that opens or closes one), so that the fold is compared with something
else than itself. `CellsSuffice` relates the two views of the file: as long as names
are plain, a rewrite changes the cells of `WifiDoc` the way `Doc!Edited` says.

### WanControl and WanSolo

Every caller (a connection, or a run of pispotctl) makes one operation. Up: look
at the adapter, `systemctl start`, `dhcpcd`. Down: `systemctl stop`, `dhcpcd
--release`. Reload: stop, release whose failure is ignored, start, `dhcpcd`.
Submitting a job and hearing of its end are two actions. `Timeout` is the context
of Up and Down, which covers both commands; `DaemonStops` kills the daemon's own
operations and not those of pispotctl. systemd is external and modelled from how
`systemctl` is used: one job per unit, a job of the same verb is joined, one of the
other verb replaces it and fails those who wait, and a killed client leaves its job.
`WanSolo` adds `met`, the callers whose operation was in flight together with
another. It changes no step, and lets `OkMeansReached` say what an ok is worth to an
operation that had the link to itself, while others overlap before and after it.

### AuthGate

A request goes through `Lookup` (the cache), `Pam`, `Resolve` (the groups, any of
which may fail to resolve), `Store` (the cache) and `Handle`, `Act` (the admin
handlers' check, then the request to the helper). `Change` gives an account another
password or groups at any moment. `last` is a history variable: the last instant
at which each claim about an account ("this is its password", "it is in this
group") was true, which lets properties speak of the past. `guarded` is whether
`AUTH_SOCKET` is set: without it every page is open, and the handlers refuse what
needs the role. The cache is indexed by credentials; the code indexes it by their
SHA-256.

### LazyCollector

The three collectors share their structure and differ in what they ask the host
and in what a failure does; `kind` chooses one, and `After`, `Fatal`, `Reported`,
`PassedOver` and `Kept` say how they differ. What the host answers is left out: a
reading is known by the start of the refresh that took it, 0 for a blank. So "last-
good data is preserved" and "nothing old is passed off as new" become statements
about numbers. A request takes the mutex to look at the age (`Check`), takes it
again to refresh (`Start`, which looks again), asks the host step by step (`Read`,
`GoOn`, `GiveUp`, `Absent`, `Finish`) and loads what is published by then (`Load`).
The mutex is held by the request in `refreshing`. Time passes in commands and
between requests, not in reads of files.

### Samplers

`netstats` and `system` have the same loop (a tick at once, then one for each tick of
a `time.Ticker`) and share no state; `kind` chooses one. `fire`, `pending` and `due`
are the ticker: a tick that is not taken before the next one is dropped, as Go's
tickers do. `Take` and `Done` are the two arms of the `select`. `Stamp`,
`ReadSource` and `PublishNet` are the three moments of a netstats tick at which the
outside matters: the clock is read, then `/proc/net/dev`, then `operstate`; `Stamp`,
`ReadFiles` and `PublishSys` are those of a system tick, of whose readings the
temperature has a value and the three others may only fail.
The host's counters are words that wrap, restart at zero on `Replug`, and grow by at
most `Line` between instants; its temperature changes at any moment (`Warm`). A rate is
kept as bytes and time, so that no division is rounded. `moved`, `span` and `intact`
are history: the bytes carried and the time between the two readings, and whether the
counter only counted up; so is `since`, the moment at which the host came to its side
of the throttling limit. `Stop` is SIGTERM, after
which the sampler may end at any time and requests arrive until the server is told
too. A request is `Arrive`, which reads the netstats snapshot, and `Answer`, before
which it reads the one of system, with the lazy collectors' time `Wait` in between.

### WanPage

The WAN buttons of `app.js` for an admin, composed with `WanControl`: `Serve` and
`Work` are the steps of the host, which a click has to start; `Replug` and
`SupplicantExits` are what happens to the link by itself. The page sees the link
only through `seen`, the WAN collector's snapshot, which `Collect` renews at any
time, and `poll`, the snapshots on their way, which `Render` takes in any order.
`page` holds the variables of the script and of the two buttons: `wanPending`,
`lastSupplicantActive`, visible, disabled. `web` is the page's own view of each
click: the answer may be lost (`Fails`) while the operation goes on. The freshness
that `LazyCollector` establishes is not assumed: snapshots here may be older.

## Runs

| Run | Instance | Shows |
|---|---|---|
| `wifi_serial` | 3 requests one at a time, 3 SSIDs (two installed), failing calls, crashes | the file implements `WifiStore`; no network reported as saved is missing, none nobody removed is gone, none has two blocks |
| `wifi_concurrent` | 3 requests at once, 2 SSIDs, 4 inodes, faults | what holds without any lock: the two names never share a file, nothing is invented as long as no write fails, a temporary left behind has a cause |
| `wifi_lost_update` | 2 requests at once, 3 SSIDs (one installed), no faults | **violation** of `OkAddsSaved` |
| `wifi_lost_networks` | 3 requests at once, 2 SSIDs (one installed), no faults | **violation** of `OthersSurvive` |
| `wifi_format` | 6 files as they are found, 4 names, 2 passphrases, 3 rewrites | one layer of escapes for each rewrite and nothing else; headers and hand-made blocks; when the cells are right |
| `wan_concurrent` | 2 operations of any kind, one after the other or overlapping, faults, fairness | an ok that no other operation overlapped is true; late jobs are explained by an error of their kind of operation; Up and Down never wait for systemd for ever, and end once a killed dhcpcd's output is closed; every operation ends if the host answers |
| `wan_up_down` | an Up and a Down, no faults | **violation** of `OkRepliesAgree` |
| `auth_revocation` | 2 requests, 1 user, a password and the empty one, lifetime and delay of 1, instants up to 8, faults | how long revoked credentials and groups still open pages; who can act |
| `collectors` | 2 polls at a time of each collector, lifetime 1, timeout 2, faults, fairness | freshness, what outlives a failure, pacing, and that a hung command delays and does not stop |
| `samplers` | 1 interface or the system files, 1 request, words of 4, lateness 1, instants up to 6 (system: 8), 2 temperatures, faults | what a rate stands for, how old an answer is, and that a host which has been hot for a while is not reported as cool without an error |
| `page_settles` | 1 click and 2 polls over any operation of the host, faults, fairness | which button can be clicked and what the page waits for; once the link is left alone, the buttons come to agree with it |
| `page_locked` | 1 click of WAN Up, no faults | **violation** of `LockedInFlight` |

**Bounds and why they are enough.** Requests in the Wi-Fi runs happen once per
connection; three let two interfere while a third sees the result, and let one
repeat what an earlier one did. SSIDs matter only as equal or different: three
are one that is installed and named, one that is installed and not named, one that
is new. An inode is needed for each open file and each of the names, four with
three writers, of which one has always renamed before the next can need another;
the absence of deadlock shows that none runs out. In
`wifi_format` a third rewrite is the first at which a value that is added first is
written three times, which tells 2^n - 1 from 2n - 1 (1 and 1, 3 and 3, 7 and 5), and
the files are the ones a deploy writes and one edited by hand with every kind of
line in every position that `parse` distinguishes. WAN state is finite; the second
of two operations meets whatever the first left, and the theorem has any number. In
`AuthGate` the clock starts at `Epoch`, late enough that instant 0 is outside every
bound, and the instance covers a fill of the cache, its whole life and a request
served from it. In `LazyCollector` the timeout is longer than the lifetime, as in
the code (two seconds and one), so that a refresh outlives its own snapshot;
`Horizon` is the last arrival and `End` the end of the clock, later than the last
refresh can last: the number of states does not change when it is raised. In
`Samplers` a word of 4 wraps and five steps of the clock take a counter round it,
and are enough for a late tick, a dropped one, and a stop; larger words only put the
wrap out of reach. The temperature needs a clock of 8, since it has to stay on its side
for five instants before an answer is judged by it. In `WanPage` two polls are enough for an older snapshot to be
rendered after a newer one; the run has one click, since liveness speaks of a page
nobody clicks any more, and the link is moved by `Replug`, `SupplicantExits` and a
Reload. Clicks that cross are not exercised by a run (two clicks and two polls have ten
million states): `PendingHasCause` covers them as a theorem, for any number. The
theorems lift these bounds where there is one.

Symmetry is used for connections, inodes and requests, in runs that check no temporal
formula with fairness.

**Fairness and why the code justifies it.** `WanSolo!FairSolo`: goroutines are
scheduled (`Proceed`), and when the context ends while `systemctl` runs, `systemctl` is
killed and returns (`Timeout` in `InSystemctl`): it starts no process that outlives it.
That is not assumed of dhcpcd, which forks: `CombinedOutput` (`wan/ops.go:77`, `:86`)
returns when nobody holds the output any more, and the code sets no `WaitDelay`. So
`WanOpAnswered` says without condition that Up and Down do not stay in `systemctl`, and
that they are answered under `OutputCloses`, that the output of a killed dhcpcd is
closed in the end. Nothing else is assumed of systemd and dhcpcd. `EveryOpEnds` has the assumption `HostAnswers`,
that they answer, in its statement, because Reload and pispotctl have no timeout.
`LazyCollector!FairSpec`: time passes; a refresh goes on when what it asks is a
file, or a command whose context has expired (`exec.CommandContext` kills it), so
a command may hang for the whole timeout; waiting for the mutex has strong
fairness, which Go's mutexes give (they hand over to a waiter that has starved).
`WanPage!FairPage`: the page's timer fires, the collector refreshes, and a poll gets
through again and again (strong fairness of `Render`, without which the page would
be offline for ever). The timer's fairness is that of a page whose refresh interval is
not "off" (`index.html:22`), and the collector's that `iw` and `ip` answer on the
adapter again and again. An adapter that is not wireless, on which `iw` fails and the
snapshot stays as it is (`wan/collector.go:140-145`), has its buttons judged by nothing:
`Collect` is not enabled and `ButtonsSettle` has a wireless adapter in its premise.
Nobody has to click, and the host has no duties.
`Samplers` needs none: `Delay` is in its guards as a bound on how late a step can be,
and its properties are about what is published and not about publishing.
`DaemonStops` and `Crash` are never required to happen. Systems that stop: every
module has a step that stutters when all of its requests have been served, so
deadlock is checked in every run.

## Findings

1. **Lost update** (`wifi_lost_update`). Two `wifi_add` of different networks are read
   against the same file. The first writes and renames, then the second, whose contents
   were made before that. Both answer ok, and the file lacks the first one's network.
   `wifi/config.go:32` promises to append.
2. **Lost networks** (`wifi_lost_networks`). All writers use one temporary name. In the
   trace three `wifi_add` name the same network, and no call fails by itself: the first
   has written the temporary when the second's open empties it; the first renames the
   empty file over the configuration and answers ok; the third reads it, so that nothing
   refuses its network and nothing else is in what it publishes; the second writes into
   the file that was published meanwhile and finds nothing to rename. The installed
   network is gone. With a write that fails or a daemon that stops after the first
   one's rename, the empty file is what stays. The rename does not protect, because the
   file that another writer has open is the one that is published.
3. **Half a link** (`wan_up_down`). Down runs between Up's two commands; both are ok,
   dhcpcd runs without a supplicant.
4. **Unlocked in flight** (`page_locked`). Up makes the supplicant active before it
   answers, since dhcpcd is still to come. The first poll that sees it clears
   `wanPending`, the second enables WAN Down while the request is under way, which
   is how a user gets to finding 3. `app.js:360` says that any tick during the
   request keeps both buttons locked.

Seen while modelling, without a run of their own:

- `authz/client.go:128` says that a reload is `wpa_cli reconfigure`;
  `wifi/config.go:90-114` stops the unit, releases the lease and starts both again,
  so the link is down in between.
- A name or passphrase with a quotation mark or a backslash changes whenever *any*
  network is added or removed, because `%q` escapes it and `unquote` does not undo
  that (`ReadsAsWritten` says by how much). From the rewrite that adds it on, the same name can be
  added again, since it no longer equals the stored one, and cannot be removed by the
  name it was given; after several, wpa_supplicant no longer has the passphrase.
  `TestRoundTrip` (`wifi/config_test.go`) tries plain values only.
- A rewrite drops what `parse` does not keep: comments after the first block, other
  fields of a block, blocks that are not closed. An open network comes back with
  `psk=""`, and a passphrase in hexadecimal without quotation marks gets them.
- The clock of a netstats tick is read before the counters (`throughput.go:131`), so
  a tick that is held up in between shows a rate above the line's; `LineSpeed` says
  by how much. A failed `/proc/net/dev` is published as totals of zero without an
  error; the rates of that tick and of the next one are zero, and never wrong.

- Up and Down are not bound to the ten seconds of `wan/ops.go:13`: see the fairness of
  `WanOpAnswered` above.
- A failed temperature reading is reported as "not throttled" with an error beside it
  (`system/info.go:168-178`); the page shows "no" for it (`app.js:288`).

A mutex in pispot-authd around the wifi operations is what `Serial` stands for, under
which `wifi_serial` and its theorems hold; around the WAN operations it would make
every operation one that no other has met, unless pispotctl is run at the same time.

## Proofs

All are checked by TLAPS for every value of the constants that satisfies the named
assumptions (`DocAssumption`, `FsAssumption`, `WanAssumption`, `AuthAssumption`,
`CollectorAssumption`, `SamplerAssumption`, `FormatAssumption`), which say only that
constants have their types and that the special values differ from the others (for
`WifiFormat`: installed files are lines of characters, and no name is empty).

**WifiConfigProofs.** `NamesInv` (the published name resolves, and not to the
temporary's file) is inductive and gives `ConfigStaysAlone`. `StrayInv` adds that a
reply is computed once, which is needed to explain a stray temporary by its dead or
failed owner (`TempAccountedFor`). `FilesInv` says of every inode and buffer, named
or not, that it is a header and blocks that were installed or asked for: the file
that is published may be one that another request wrote, so nothing less than all
of them is inductive; it gives `TypeCorrect` and `NothingInvented`. Once a write has failed any name may be
there, since it may have stopped inside a block; `FilesInv` therefore includes
`StrayInv`, by which an answer that says so stays. It rests on
`OverlaidFacts` and `TornFacts` (what a write over older contents leaves) and on what parse, edit and
render return, with which the module begins; `Remove`'s loop is a recursive function,
whose facts are proved by a least counterexample.
`SerialImplementsStore` is the refinement: given `Serial`, `SerialInv` says that the
one request in flight holds, at each step, exactly the contents the abstract store
would have after it, and every step is then one of the store's or a stutter. The
last part is about what is saved: `ConfigMoves` shows that the published contents
change in a `Rename` alone, and to what its request asked for; `KeepInv` adds to
`SerialInv` and `FilesInv` that installed networks nobody asked to remove are there
and that saved ones are, since a saved network is only safe because the next request
edits what is published and not what it once read. It gives `SavedStaysSaved` and
`InstalledSurvive`; `OnceInv`, for an installed list without doubles, gives
`NamedOnce`. All three fail without `Serial`, as the violations show.

**InductionLemmas.** The library states induction of a predicate, which the provers
cannot instantiate. Here it is stated of sets: `LeastNat`, from the well-foundedness
of < on the naturals; `NatStep` and `SeqStep`, where the set that a proof names is the
one of the values for which its claim holds; `Recursion` and `Agreement`, by which a
function that is defined by recursion over positions exists and is the only one.

**WifiFormatProofs.** With these, what the model's folds compute is proved for every
input. Part 1 gives the recursion of `FlattenSeq` (`FlattenAppend`) and of a function
applied along a sequence (`FlatMapConcat`); part 2 what escaping does, of which the
central fact is `EscapeAged`: to escape a value that was written n times is to have
written it n + 1 times, since 2^n - 1 backslashes and a mark become 2^(n+1) - 1 and a
mark. Part 3 turns `Scanned` into a step for each line (`ParsedAppend`), and part 4
parses what write writes (`RenderParsed`), which needs that the header of a parsed
file never holds an opening line, whatever was in the file. `Inv` is `TypeOK` and
`ReadsAsWritten`: the second is inductive once every network has a name, because a
nameless block would be written and not read again. It is `Inv` that makes `Writing`
true of both operations (what is written is what the book reads as), from which
`InvStep`, `HeaderKept` and `CellsAreEnough` follow. The installed file is the harder
half. `Found` relates the state of the scan after *any* number of lines to the
definition of blocks: the block that is open is the one whose opening line `Stands`,
its fields are the last ones of their kind since, and those before it are `Pieces`.
`ParseFindsBlocks` is the consequence for whole files, and gives `InitInv`.

**WanControlProofs.** `Attended` (a caller that waits for a job has no answer yet, and
only callers inside `systemctl` have one) strengthens the types. `LateInv` adds, for each
caller (`Matching`), that the job it waits for is of the verb it submitted, that its
kind of operation submits that verb, and that a running operation has no result; with it
`LateJobsExplained` is inductive: who leaves a job behind is of the kind that asked for
it, and what has ended badly stays so. Its second
part is about `WanSolo`. `SoloInv` records, for every operation in flight that has met
no other, that it is alone (`Alone`) and what it has achieved at its label (`Achieved`):
in particular that a job left behind by an earlier one was joined or replaced by its
own, so that the job it hears of is the last one. An operation that begins while another
runs puts both into `met` in that step, so the invariant says nothing more of either. It
gives `SoloOkIsTrue` for any number of callers.

**AuthGateProofs.** `History` says what `last` is: true claims are true now, nothing
was last true in the future. `RequestInv` dates what each request knows at each
label from its own lookup, and `EntryInv` dates a cache entry from its expiry. Of
the two, entries are the reason for the bound: an entry is written up to `Delay`
after the lookup whose checks it holds, lives for `TTL`, and is used by a request
that may take another `Delay`. `RevocationBounded`, `AdminOnlyHolds` and
`BlankNeverServed` follow.

**LazyCollectorProofs.** `OneRefresher` (the mutex) and `Clock` (the refresh under way
is the latest start, a lifetime after the one before) give `RefreshesArePaced`; with
`Arrivals` (who refreshes came before his refresh) they give `AnswersAreFresh`.
`OwnReadings` (a draft holds only what its refresh has read) gives `OldIsFlagged`.
`Remembered` says of the snapshot *whatever its error* that the readings a failure
keeps are those of the last refresh without one; `LastGood` alone is not inductive,
because the next failure starts from a snapshot without an error.

**SamplersProofs.** `Timing` relates the sampler's label, its ticker and the age of
the published snapshot; `Seen` carries that to the requests, and together they give
`AnswersAreCurrent`, whose three delays are a late end of one tick, a late start of
the next, and a server that is still serving after the sampler has stopped.
`Counting` bounds each counter by the last sample and the bytes carried since, with
equality while the interface is intact: a rate is about two samples, so the
invariant has to speak of the counter in between. `Carrying` bounds the bytes by the
clock. From both, `NeverOverstated`, `ExactInOneLife` and `WithinTheLine`.
`HeatKnown` says of the temperature a tick has read, and of the published one, that it
is on the host's side of the limit unless the host changed sides after that tick began;
`AnswerStep` dates the tick that an answer is from, and the two give `HeatIsReported`.

**WanPageProofs.** `PageTypeOK`, `OneWay` and `PendingHasCause` are inductive
together. The steps of the host are those of `WanControl`, whose `TypeStep` is
cited for them; `OpKept` says that they leave alone which button each click was of.

## Model-checked only

- Liveness: `WanOpAnswered`, `EveryOpEnds`, `EveryPollAnswered`, `ButtonsSettle`. The prover does not
  reason about fairness and `ENABLED`.
- That the models terminate where they should and do not deadlock, which TLC checks in
  every run. Every invariant and every action property of a passing run is proved.
- The violations, which are counterexamples by nature.

## Not modelled

- Text that two overlaid writes join to a name that is none of the instance's. A reader
  that has the configuration open while it is replaced: it reads what it opened, like a
  reader that came before, and `ReadFile` is one step. Characters that `%q` escapes besides the two of `WifiFormat`, blanks at the
  ends of a line, CRLF, and lines beyond the scanner's 64 KB, which make `parse`
  fail as a failing read does.
- The parsers of what the host prints (`/proc/net/dev`, `meminfo`, thermal zones, `iw
  dev`, `iw link`, station dumps, leases, `ip`): functions from one text to one
  record, without state, that a table of inputs tests well. A reading here is a time
  or a number. Receive and transmit are one direction.
- The Wi-Fi page: a list and a form. Its last-network guard judges the list on the
  screen (see the hazards); nothing promises that the last network stays.
- The setup wizard: a dialogue with one user before anything runs.
- The life of the helper's socket (a stale file, its mode and group, accept errors
  that persist) and the five seconds in which the dashboard shuts down: no state of
  the operations depends on them, and where one stops, `Crash`, `DaemonStops`,
  `Restart` and `Stop` are nondeterministic.
- Of the dashboard page, panels that only show what a poll brings, and users without
  the admin role, who have no buttons.
- A composition of two collectors in one answer: they share no state, so that it would
  be the product of the modules that are here.
- Handlers of `pispotctl` that only print, the reading of environment variables,
  TLS, static files and headers: configuration and pure I/O.
- The wait for the helper's reply, which has no deadline (`authz/client.go:38`):
  `Delay` in `AuthGate` stands for how long a request takes, and is a bound of the
  model and not of the code.
- PAM, NSS, systemd, dhcpcd, `iw` and `ip`: external, modelled from how the code
  uses them. Deployment is declarative; only the file it installs is used.
- The log lines of the collectors and the state kept only for them (`prevAbsent`,
  `prevConnected`, `prevLink`, `prevClientCount`, `prevThrottled`).

## Order of work

Written in the order of what a fault would cost: the Wi-Fi store with its abstract
specification and refinement; WAN control; authentication; the lazy collectors; the
dashboard's WAN buttons; the samplers; the text of the configuration file; the proofs
of each where the provers reach.

What would come next: `WifiConfig` and `WanControl` together, where a start of the unit
reads the file, so that after an ok of Reload the supplicant's networks are the saved
ones; a deploy as an outside writer of the configuration.

## How to run

In this directory, with TLC, the community modules and TLAPS installed:

```
tlc -workers 2 -config WifiSerial.cfg MCWifiConfig
tlapm WifiConfigProofs.tla
```

`PROJECT.json` names the module and the `.cfg` of every run. The longest are
`auth_revocation` (1.1 million states, a minute and a half), `samplers` (4.4 million,
two minutes), `wifi_concurrent` (260 thousand) and `collectors` (120 thousand with a
temporal property); the others take about half a minute or less.
