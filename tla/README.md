# ichnos in TLA+

ichnos scans the IPv4 Internet for a handful of protocols and publishes what it
finds. cron starts short-lived commands on one machine (`scan`, `refresh`,
`publish`, `responsive-refresh`, `jurisdiction-refresh`); they share files on
that machine, three DynamoDB tables, one S3 object and the published datasets,
and drive two external programs, ZMap and ZGrab2. This directory holds a
specification of that system, the instances TLC checks, and theorems TLAPS
proves. Line numbers are those of the files named in `PROJECT.json`.

## 1. The system

| component | state it keeps | operations | talks to |
|---|---|---|---|
| Streaming grabber (`scanner._StreamingGrabber`, `_record_grab_result`) | `_pending`, the run's outcome, a ZGrab2 process with two pipes, a reader thread | `submit`, `_drain`, `close` | ZGrab2 (pipes), version index, the run that owns it |
| Discovery run (`_stream_discover_and_grab`, `run_scan`) | ZMap process, watchdog timer, status | the loop over ZMap's rows, teardown | ZMap, grabber |
| Refresh run (`cmd_refresh`, `run_refresh_scan`, `advance_responsive_cursor`) | the responsive list, which is target list and cursor | walk, stage, rotate | grabber, list, pending files |
| Derivation (`cmd_responsive_refresh`, `responsive.py`, `odata.py`) | the same list | two queries, sort, rewrite | OData feed of the published observations |
| Staging and publishing (`publish.py`, `cmd_publish`) | pending NDJSON files, staged Parquet files | append; read, stage, upload, inspect, commit, clear | every run; the Upload Service; the register |
| Blocklist (`_rebuild_blocklist`, `blocklist.py`) | one file for all runs of all protocols | rebuild, read back by ZMap, ZGrab2 and refresh | register, jurisdiction list, responsive list |
| Jurisdiction list (`jurisdiction.py`, `s3sync.py`) | local file, S3 copy | fetch, write, upload; pull by a new instance | registries, S3 |
| Version index (`storage/`) | one item per fingerprint | `claim`, a conditional put | every run |
| Opt-out application (`webapp/`) | the exclusion register | add | DynamoDB |
| Rate limiter (`ratelimit.TokenBucket`) | tokens, time of the last refill | `wait` | refresh and targeted runs |
| Targeted run (`run_scan` with `target_ip`) | the run's outcome | look up, grab, record, stage | blocklist file, a ZGrab2 of its own, version index, pending files |
| Normalisation and fingerprint (`normalize.py`, `fingerprint.py`) | none: functions of a ZGrab2 result | six normalizers, one hash | every run |
| Parquet, configuration, logging | none that is shared | - | - |

What is hard about it:

* *Inside a run*: a main thread, a reader thread, ZGrab2 and a timer share a set
  of pending hosts and an outcome; two bounded pipes form a circle; ZGrab2 may
  die, hang or write half a line; a store call may raise or be slow.
* *Between commands*: they are processes that read a file, work, and replace or
  remove it later. Some pairs are kept apart by `flock`, some by their minute in
  the crontab, some by nothing.
* *Between cycles*: a failed publish must hold its rows and not send the others
  again; a host list must rotate through all hosts over many runs; an opt-out
  must reach every later run.

What makes each part right (the names are the properties below): every host
handed to ZGrab2 gets exactly one row (`Custody`, `NoHostLost`, `NoHostTwice`),
the outcome is final when it is reported (`ReportIsFinal`), a completed run is
whole (`CompletedIsWhole`), it ends (`RunEnds`, `RunReports`); staged rows are
neither dropped nor sent twice and arrive (`NoRowDropped`, `NoRowTwice`,
`RowsArrive`); no host of the list is forgotten, brought back or starved
(`NoneForgotten`, `NoneReinstated`, `RoundRobin`, `Rechecked`); no run probes
what was protected before it started (`SettledHonoured`), and the list blocks
what its layers cover (`BlockedExactly`); submissions are paced (`NoCatchUp`,
`ImplementsLimit`); an unchanged service keeps its fingerprint, a changed one
gets another, and each has one version row (`OneVersionPerService`,
`DriftSeen`, `VersionRowOnce`, `VersionOwed`).

## 2. Modules

| module | models | composes |
|---|---|---|
| `RunLedger` | the abstract promise of a run: one row per host owed, then the report; a run may waive it | |
| `Grabber` | the grabber, its reader, ZGrab2 and its pipes | implements `RunLedger` |
| `GrabberProofs` | the proofs about it | extends `Grabber` |
| `Discovery` | a discovery run with ZMap and the watchdog | drives `Grabber` |
| `DiscoveryProofs` | the proofs about it | extends `Discovery`, takes `GrabberProofs` as `P` |
| `RateLimit` | the abstract promise of a rate limiter: a budget that grows with time | |
| `TokenBucket` | the bucket with its lazy refill, and `wait()` | implements `RateLimit` |
| `Refresh` | a refresh run | drives `Grabber`, extends `TokenBucket` |
| `RefreshProofs` | the proofs about it and `TokenBucket` | extends `Refresh` |
| `Publish` | pending files, publishers, the Upload Service, the register's snapshot | |
| `PublishProofs` | the proofs about it | extends `Publish` |
| `Responsive` | the responsive list, its refresh run and its derivation | |
| `ResponsiveProofs` | the proofs about it | extends `Responsive` |
| `Blocklist` | the shared blocklist file, the register, the jurisdiction list and its copy | |
| `BlocklistProofs` | the proofs about it | extends `Blocklist` |
| `Normalize` | the six normalizers and the fingerprint, as operators | |
| `Services` | what ZGrab2 reports of a service (external) | extends `Normalize` |
| `ServicesProofs` | the proofs about normalisation and services | extends `Services` |
| `Targeted` | targeted runs: the layers of the list, the look-up, grab, record, claim, stage | extends `Services` |
| `TargetedProofs` | the proofs about it | extends `Targeted` and `ServicesProofs` |
| `MC...` | the constants and symmetry of the instances | extend their module |

In a module, the definitions named `Mut...` are not part of the model. Each is
the definition that follows it with one plausible bug; it is there to show that
a property notices that bug.

**Grabber.** `main`, `reader` and `zgrab` are program counters of three actors.
`submit()` is `Submit` (add to `_pending`), then `WriteStdin`, which blocks
while the pipe is full, or `BrokenPipe`. `_drain` is `ReadLine` (which discards
the host from `_pending`), then `RecordFailed`, or `CountResponsive` followed by
`NormalizeRaises` or `RecordSuccess`, then `ClaimWon`, `ClaimLost` or
`ClaimRaises`. `close()` is `CloseStdin`, the two joins and the kill between
them (`ReaderJoined`, `DrainGraceExpires`, `RejoinExpires`), `WaitOrKill`,
`Reconcile`, one `ReportUnanswered` per host left, `Closed`. ZGrab2 is external:
it takes, emits, finishes, dies, wedges. A pipe is a set with a capacity: ZGrab2
answers in any order, so nothing can tell the order. Timeouts may expire at any
moment. Actors that hold `record_lock` exclude each other through `LockFree`.

**Discovery** instantiates `Grabber` and is its caller: `ReadRow` records a
closed host or submits an open one, `EndOfOutput` closes the grabber,
`ZMapWaited`/`ZMapGraceExpires` reap ZMap, `Judge` sets the status,
`WatchdogFires` kills ZMap, `SpawnRaises` is the failure to start ZGrab2. The
property `UsesGrabber` says that every step of it is a step of `Grabber` or
leaves it alone.

**TokenBucket** counts in ticks of the monotonic clock: `tokens` is the code's
`_tokens` times its interval, `idle` the distance of the clock to
`_last_refill`. `wait()` is `BeginWait`, then rounds of `Acquire`, or `Refuse`
(`try_acquire` fails), `Sleep` (`seconds_until_next_token`, which refills once
more) and `Awake`. `Tick` may come between any two of them, so a thread may
oversleep or be held up. `RateLimit` is a budget that earns one with each tick
and of which a request spends an interval; the refinement maps it to what the
bucket would hold if it were refilled now.

**Refresh** is the other caller of `Grabber`: `Stop` (list or budget over),
`Skip` (blocked by now), `StartWait` and `Wait` (the bucket), `Submit`, then
`Grabber`'s own steps of `submit()` and `close()`, and `Report`. `late` stands
for the deadline, which may pass at any look at the clock. Time ticks where the
main thread is held up, in `wait()` or in a write on a full pipe; ticks at its
other steps would only make the next wait shorter, which a tick before the
first refill of that wait does, too. `fed` is a history variable: the age of the
last two writes to ZGrab2.

**Normalize** works on JSON values with their kinds (absent, text, number, list,
object). What regular expressions look at is kept, the rest of a text is not: a
banner is lines of words, a word a "token", a "number" or neither, and the masks
are applied in the code's order. A JSON string is its value, a sorted list the
bag of its items, sha256 is taken as injective. **Services** varies the stable
fields of a service one at a time, and for each grab the volatile rest all at
once: date and unknown headers, spelling of header names, page text, TLS and
SSH randoms, session, clock, chat and blank lines of a greeting, order of
options and capabilities. `Get` is a loop over its path, as in the code, and the
lines of a text are looked up by their place, blank ones left out.

**Targeted.** An address is a number of `Width` bits, a network its base and
length; `Summarize` is the standard library's smallest set of CIDRs. `Rebuild`
is `_rebuild_blocklist`, `Check` the look-up, `Grab` the five ways ZGrab2's
process ends, then `RecordFailed`, `NormalizeRaises` or `RecordSuccess`, the
claim as in `Grabber`, and `Stage`, one append for each dataset of the batch.
`Crash` ends a run anywhere. A `world` is what does not change during a
behaviour: the protocol, the services behind the addresses, the ranges of the
registries, the known-responsive list, and what may be entered in the form.
Opt-outs come before the runs here; those that come while a run rebuilds are the
subject of `Blocklist`.

**Publish.** One write of Python's buffer is one item of a pending file. A run
appends dataset after dataset (`WriteSome`, `WriteLast`; `WriteTorn` when the
disk is full); a file is there from its first write on. A publisher lists the
directory (`Start`), reads the files in sorted order (`ReadFile`, `ReadRaises`),
snapshots the register, then takes each dataset through its steps: `OpenTmp` cuts
the NDJSON file in `tmp_dir`, `WriteTmp` fills it write by write, `Convert` reads
it back, `OpenParquet` and `WriteParquet` replace the Parquet file, `Upload` sends
what that holds; then inspect, commit, `Clear` (is the pending file there?) and
`Remove`. The exclusions come last and replace what is published. `part` is how
far the dataset in hand has come: what is written of it, then what the conversion
found, then what was uploaded. Publishers share `tmp_dir`, so each of these steps
may meet another's file there. A snapshot of the register is one item, its
generation.

**Responsive.** The published feed holds the newest observation per host and
status, oldest first: positions stand for times. `Fetched` is
`fetch_responsive_hosts` with both its queries and the page limit; a sort is
`Arranged`, the items at some positions in the order of their keys. Both writers
go through `Open`, `WriteLine`, `Replace` with one temporary name, as
`write_responsive_file` does; `target` says where an already open file has
moved. `Check` covers one host, `StageRows` stages, `Rotate` reads the file
again.

**Blocklist.** A list is the set of addresses it covers. A run pulls the copy
if it has no local list, reads the register, merges, writes a temporary file,
replaces the shared one, and reads it back twice (ZMap or `run_refresh_scan`,
then ZGrab2). `jurisdiction-refresh` fetches, writes, uploads. `settled`, `due`
are history variables: what was protected when no run was rebuilding, and what
of it a run owes.

## 3. What the runs show

All passing runs are exhaustive.

| run | instance | shows |
|---|---|---|
| `grabber_failures` | 3 hosts, 2 fingerprints, stdin 3, stdout 1, 2 senders; ZGrab2 dies or wedges, the store fails, claims may outlast `close()` | types, custody, one row per host, the count, a final report, `RunLedger` is implemented |
| `refresh_paced` | 4 hosts and a blocked one, pipes and senders of 1, interval of 2 ticks; ZGrab2 wedges, claims may outlast `close()` | what is reported as covered is recorded, no burst, `RateLimit` is implemented, a blocked write ends unless ZGrab2 hangs, the run reports |
| `discovery_whole` | 2 hosts; ZMap, ZGrab2 and the spawning of ZGrab2 fail; room in stdin for both | a completed run is whole, what was read is recorded, new fingerprints are published, the run ends, ZMap is reaped, `Grabber` is used as it allows |
| `discovery_wedge` | the same with stdin 1 and a ZGrab2 that hangs | **violation**: `RunEnds` |
| `publish_retry` | 1 run of 2 writes, 2 publishers one at a time, 2 faults of four kinds; staging and publishing keep apart | no row dropped, rows and exclusions arrive |
| `publish_once` | 2 runs, 1 publisher, a flagged dataset, a full disk, rejections | no row twice, exclusions never go back |
| `publish_race` | 2 runs, 1 publisher, no faults, staging at any moment | **violation**: `NoRowDropped` |
| `responsive_cursor` | 3 hosts (one fails, one is blocked), pages of 2, 1 event | nothing forgotten, nothing brought back, round robin |
| `responsive_rechecked` | 2 hosts (one fails), 1 event, writers may meet | every host is tried again and again |
| `blocklist_settled` | 2 scans of one minute, a refresh, 3 addresses (one IPv6), 1 replacement | what was settled is honoured; refresh sees its hosts |
| `blocklist_family` | 1 scan, an IPv6 opt-out | **violation**: `NoEntryBlocks` |
| `targeted_whole` | 2 runs against 2 hosts, every service of 6 protocols; 1 run against 8 addresses, every range and every opt-out; store failures, crashes | the list blocks exactly what its layers cover; fingerprints tell services apart and nothing else; one version row each; staged rows agree; columns fit the schemas |

**Why the bounds are enough.** In the grabber, four hosts are the least that
fill stdin, the sender, stdout and the blocked write at once, and so close the
circle; two fingerprints let hosts share one or not. A publisher has to fail
and retry with two datasets and the exclusions behind them: the second dataset
makes "an earlier one landed, a later one failed" possible, two writes leave
files of which a part is written, and two faults let the retry fail as well. Three hosts with pages of two leave one
host beyond the page; a covered prefix, a covered whole and a remainder all
occur. Two scans of the same minute are the least that overwrite each other,
and the refresh is the run that must not meet them. `MaxFaults`, `MaxEvents`,
`MaxRegister` and `MaxReplacements` bound how many such things happen in one
behaviour. In `refresh_paced` an interval of two ticks tells early, on time and
late apart, and `IdleMost`, twice the capacity, is where a longer pause makes no
difference (the theorems hold for any). In `targeted_whole` three bits of
address give ranges of every alignment, sizes that are no power of two, ranges
that are empty, end at the last address or leave the space, and prefixes of every
length, valid or not; two runs are the least that race for a claim; services
differ in one respect because normalizers treat columns one by one. Nothing
else is bounded, except that in `Responsive` a scan does not
find a host twice (`Discover`).

**Findings.**

1. `discovery_wedge`: `submit()` writes to ZGrab2 without a bound and nothing
   kills ZGrab2 before `close()`. Once it hangs with a full pipe the run, and
   its cron lock, are held for ever; the watchdog kills only ZMap.
2. `publish_race`: `clear_pending` removes a file as it is after the commit,
   with the rows a run staged since it was read.
3. `blocklist_family`: merging networks of two IP versions raises. The opt-out
   form takes IPv6 addresses, so that one of them ends every later run. With
   `OtherFamily = {}` the property holds.

**What holds only under an assumption**, and how to see it:

* `~abandoned` (grabber): no claim took longer than the ten seconds `close()`
  waits after its kill. `abandoned` is a history variable that `RejoinExpires`
  sets. After that step the reader may record a host that `close()` has already
  reported, or add to an outcome already handed over: without `~abandoned`,
  `NoHostLost`, `NoHostTwice` and `ReportIsFinal` fail in `grabber_failures`.
  `discovery_whole` leaves the step out (`SlowStore = FALSE`), since its
  properties speak of whole runs.
* `Apart` (publish): staging and publishing do not overlap; without it, finding
  2.
* `~Overlap` (publish): one publish at a time. The cron entry has no `flock`, so
  a cycle of more than an hour meets the next one, and both use the same two
  files in `tmp_dir`. With `Overlap = TRUE` TLC refutes `NoRowDropped` even with
  `Apart` and without a fault: one publish has written the NDJSON file of a
  dataset, the other cuts it and has refilled it by half, the first converts and
  commits that half, and removes the pending file with all of the batch. That
  is against `publish.py:14-15` as finding 2 is. `NoRowTwice` fails as well, since
  both publishes commit what both have read. A publish may also end
  because the other has removed a file between the listing and the `open`, or
  between `os.path.exists` and `os.remove` (`ReadRaises`, `Remove`).
* `NoRowTwice` fails with a crash or a lost answer after a commit, too;
  `publish_once` has neither.
* `Poison`, `"disk_full"` (publish): `ExclusionsArrive` fails when a dataset is
  flagged for ever, or a line is cut short, since the exclusions are last and
  reading comes first.
* `Apart` (responsive): a rotation and a derivation never write the list at
  once. Nothing in the program keeps them apart: `advance_responsive_cursor`
  reads the list and replaces it later, under the temporary name that the
  derivation uses too. With `Apart = FALSE` TLC refutes `NoneForgotten` and
  `NoneReinstated`, against its docstring ("a derivation that landed mid-run is
  not clobbered"). `Rechecked` does not need it, and `responsive_rechecked` runs
  without.
* `VersionOwed` (targeted) excepts the fingerprints whose claim was made by a
  run that died, or whose put was applied and not answered: the index holds
  them, no version row is ever staged for them, and observations point at
  nothing. `run_scan` says that a repeated run "converges to the same end
  state"; after the claim it does not.
* `OneVersionPerService` (targeted) is about what the code means to strip. A
  counter that grows from one digit to two, a header such as `etag` or
  `set-cookie`, or a greeting with a quotation of the day still make new
  versions; `DriftSeen` is about changes outside runs of two digits, which are
  masked on purpose. What `_mask_volatile` says of that (`normalize.py:241-243`)
  does not all hold: of the versions it names as passing untouched, `Exim 4.94`
  becomes `Exim 4.#`, since `94` is a run of two digits, and a change to
  `Exim 4.95` is not seen. `vsftpd 3.0.3` does pass.
* `NoCatchUp` speaks of writes to ZGrab2's stdin with a burst of one. Two may
  come at once (one that was held up, and the next one); how fast ZGrab2 takes
  them off the pipe, and probes, is up to ZGrab2.
* `PullApart` (blocklist): no `jurisdiction-refresh` is in flight while a run
  pulls the S3 copy. The boot script runs it before it installs cron, and it is
  weekly; no lock enforces it. Without it a pull puts an older copy over the
  newer local list.
* `MinuteAssumption` (blocklist): scans and refreshes start at different
  minutes, as the crontab has it, and a rebuild takes less than a minute.
* `SettledHonoured` speaks of what was protected in a quiet moment. An opt-out
  recorded while the runs of one minute rebuild may be missed by a run that
  starts after it, if another run's older list lands last.

## 4. Fairness

* `Grabber`, `Discovery`: weak fairness of the main thread, of the reader, of
  ZGrab2's work while it has not hung, and of the watchdog. Threads are
  scheduled, timeouts expire, calls of the store return or raise. Nothing makes
  ZMap progress, and nothing makes ZGrab2 hang or die.
* `Publish`: cron starts a publish every hour and its process runs (weak). A
  writer gets its turn though publishes come and go (strong): under `Apart` it
  waits for a gap between cycles, of which there is one every hour.
* `Responsive`: the derivation and publish run (weak); the run's steps have
  strong fairness, because a derivation that writes, once a day, may disable
  its rotation for a moment.
* `Blocklist`: only `FairSpec`, used for `NoEntryBlocks`, has any. cron starts
  every run again and again (strong: a start waits while another minute's run
  or a `jurisdiction-refresh` is at work).

* `Refresh`: as `Grabber`, and the clock goes on (weak). A deadline need not
  pass.
* `Targeted` has safety properties only.

Deadlock is checked, except in `discovery_wedge`: a ZGrab2 that hangs behind a
full pipe really stops the system (in `refresh_paced` the clock goes on).

## 5. Proofs

Every theorem holds for any values of the constants that the module's `ASSUME`
admits; a hypothesis of its own is named with it. Each rests on an inductive
invariant that TLC checked on the instances above before it was proved
(`ClaimInv` with a store that answers).

`GrabberProofs` (any hosts, fingerprints, capacities, senders):

* `TypeCorrect`, from `TypeInv`: `TypeOK` with what each actor holds at each of
  its steps.
* `CustodyKept`, `NoneLost`, `NoneTwice`, `ReportFinal`, slow stores included,
  from `IInv == TypeInv /\ Custody /\ Phases /\ NoHostTwice`. `Custody` alone is
  not inductive: that `close()` reconciles only when the reader no longer holds
  a line (`Phases`) is what keeps a host from being in two places. All but the
  types lasts until the reader is abandoned, and only the second join does that
  (`AbandonedOnce`).
* `GrabberImplementsLedger`: under the same invariant every step is a step of
  `RunLedger` or a stutter, with `owed` the submitted hosts, `tally` the number
  of rows and `waived` the abandoned reader.
* `Counted`, for `ResponsiveCounted`, from `CountInv`: a host that ZGrab2 is
  still to answer for has no row of an answer yet (`OnePlace`), so that each
  row of one adds one host to the set that is counted. This needs no
  `~abandoned`: `close()` adds rows of hosts that did not answer only.
* `FingerprintsClaimed` (`~StoreFails`), from `ClaimInv`: a row's fingerprint is
  in the index, or in the hands of the reader that is about to claim it.

`DiscoveryProofs` (any hosts, pipes, failures of ZMap and ZGrab2):

* `TypeCorrect`; `Uses`, for `UsesGrabber`. The module takes the lemmas of
  `GrabberProofs` by `INSTANCE`, so the grabber's half of each invariant costs
  one citation.
* `Recorded` and `Whole` (`~SlowStore`), for `ReadIsRecorded` and
  `CompletedIsWhole`, from `RunInv`: the grabber's `IInv`, what a phase of the
  run says of ZMap, its pipe and the grabber (`PhaseInv`), and for each host
  where it is: submitted and never given the row of a closed port, recorded as
  closed, or not read yet (`RowInv`). That ZMap names an address once is part of
  it.
* `Published` (`~StoreFails`), for `FingerprintsPublished`, from `ClaimInv`.

`RefreshProofs` (any list, pipes, failures, interval, burst):

* `BucketTypes`: the bucket holds between nothing and a burst.
* `BucketImplementsLimit`: from `BucketOK`, which is inductive. A refill changes
  `tokens` and `idle` but not `Refilled`, the budget; `Acquire` spends an
  interval of it, `Tick` earns one or finds it full, all else stutters.
* `WritesArePaced`, for `NoCatchUp`. The invariant relates the age of the last
  writes to the bucket: since the write before the last one, either an interval
  has passed, or the bucket is short of it by what has not passed yet; a token
  for a third write can only be granted when the first is an interval old.
* `RefreshUsesGrabber`, for `UsesGrabber`: each step is one of `Grabber`'s or
  leaves its variables alone, so that the theorems about `Grabber` are theorems
  about a refresh.
* `Covers`, for `CoveredIsRecorded`, from `CoverInv`: what was submitted is what
  the loop has passed and not skipped (`HandedOver`), and what was submitted is
  pending, unanswered, in the reader's hands or has a row (`Served`). A covered
  host in the hands of an abandoned reader is in the property itself, so it
  needs no `~abandoned`.

`PublishProofs` (any runs, publishers, datasets in any two orders, writes to a
batch, faults):

* `TypeCorrect`, with what is in a publisher's batch at each step (`BatchOK`).
* `Kept` (`Apart`, `~Overlap`), for `NoRowDropped`, from `KeptInv`: what goes
  through the files in `tmp_dir` to the service is the batch, whole (`Alone`);
  while a publisher works no run stages (`Parted`); and what it holds covers the
  file at every step, so that it removes only rows that were committed
  (`Custody`). It allows crashes at any step, and lost answers. Neither
  premise can go (section 3).
* `Once` (`~Overlap`, no crash of a publisher and no lost answer), for
  `NoRowTwice`, from `OnceInv`: one publisher at a time (`Alone`), what it has
  not committed yet is fresh (`ToCommit`), and a committed row is still in its
  file only while the publisher clears it (`Cleared`). Both faults break the
  last one, as the runs show.
* `NeverRevert` (`~Overlap`), for `ExclusionsNeverRevert`: the snapshot in hand
  is no older than what is published (`NewerInv`).

`ResponsiveProofs` (any hosts, pages, bounds):

* `ArrangedFact`, `NewestFact`, `RotatedFact`, `FetchedFact`: what the sort, the
  upsert, the rotation and the derivation return, for any list. The first says
  that a sort by distinct keys lists every position once, in order.
* `TypeCorrect`, also where the two writers meet.
* `Forgetting`, `Reinstating` (`Apart`), for `NoneForgotten` and
  `NoneReinstated`, from `ListInv`: the list has exactly the hosts of the last
  derivation, each once; what is being written is such a list; the temporary
  file is the part of it that is written.
* `Lapping` (`Apart`), for `RoundRobin`, from `LapInv`. The hosts of the current
  lap stand behind the others in the file, and while a run walks, its lap is one
  that it has joined, one that it has begun, or one that a derivation has cut
  short; only in the first can the next host be of the lap, and then all are.

`TargetedProofs` (any runs, targets, services at any addresses, ranges, opt-outs,
widths):

* `Inductive`: `IInv`, types with what a run has done at each step (`PhaseInv`,
  `RowInv`, `StageInv`), how index and version rows agree (`IndexInv`) and what
  is still to stage (`OwedInv`).
* `OneRow`, `Owed`, `Backing` from it: the index names the one run that may
  stage a version, a claim without a version row is that of a dead run.
* `Blocking`, for `BlockedExactly`. `SummarizeFact` says that the CIDRs cover
  exactly the addresses they summarise (a largest aligned block around an
  address exists, by well-founded descent), `ParseFact` that a registry's range
  becomes the addresses it names, `ExclusionsFact` that the look-up covers the
  layers and nothing else; `BlockInv` carries that to the decision of a run.
* `Fingerprinted`: a recorded success has the fingerprint of the service behind
  its target (`FingerprintInv`). It needs `BlockInv`, since what was grabbed is
  an address, and `PhaseInv`, since only then does no `Begin` move the target
  of a run that has a row. `Stable`, `Drift` and `Columns`, for
  `OneVersionPerService`, `DriftSeen` and `SchemaFits`, follow from it and the
  facts of `ServicesProofs`.

`ServicesProofs`: what the six normalizers make of an answer.

* `SshForm`, `TlsForm`, `HttpForm`, `FtpForm`, `TelnetForm`, `SmtpForm`: the
  version of a service in closed form (`SshVersion` and so on), from its stable
  fields alone. They hold of any service: any software, comment, key or title,
  redirects, options and capabilities of any number. `GetReaches` unfolds the
  path look-up, `HeadersFact` the two spellings of a header, `GreetingFact` the
  first full line and its masks, `SortedReverse` that a sorted list does not
  show the order of its items (a bijection of their places).
* `VersionForm` and `VersionsApart` put them together for the services of
  `Services`: the version does not depend on the grab, and differs where the
  service does. For lists the second counts (`OptionsApart`,
  `CapabilitiesApart`): an item that one list has and the other lacks changes a
  count of the bag, even if it is spelled as the number of an unnamed option.

`BlocklistProofs` (any runs, crontab, addresses):

* `TypeCorrect`.
* `ProtectionHonoured`, assuming `PullApart`, for `SettledHonoured`. The
  invariant: `settled` is known from the register and the copy (both only
  grow); the local list is never behind its copy once a run is past its pull
  (`LocalAhead`, which needs `JobAhead` about the job in flight); and what a run
  has in hand covers `settled` at each of its steps (`RunCovers`). The step that
  matters is `Install`: another run's list covers as much as one's own.
* `RefreshUnhindered`, for `RefreshSeesItsHosts`, from the invariant that runs
  that rebuild share a minute (`OneMinute`), so that whoever replaces the file
  beside a refresh is a refresh and adds nothing.

**Assumptions on the constants.** A pipe holds something, there are senders, an
interval and a burst are positive; faults and toggles are of the sets they name;
`WriteOrder` and `PublishOrder` list every dataset once. `Discovery` repeats the
grabber's assumptions for the constants it passes on. In `Responsive` the hosts
are finitely many, since they are counted, and `None`, "no temporary file", is
no list of lines.

**Only model-checked.** All liveness properties (fairness and ENABLED are out of
the prover's reach): `RunEnds`, `ZMapIsReaped`, `SubmitReturns`, `RunReports`,
`RowsArrive`, `ExclusionsArrive`, `Rechecked`. Every invariant and every
action property of the runs is a theorem. What sha256 and `json.dumps` do is
taken, not proved: equal payloads have equal fingerprints and different ones
different fingerprints.

## 6. What is not modelled

* The choice between the registries and their fallback, and the format of their
  files; paging of the OData feed and its token; the form's pages and challenge.
* Regular expressions and Unicode below the level of words, the rounding of the
  bucket's floating point, Parquet; configuration, logging.
* A result line whose `data` is no object, which raises out of `grab_one`; a
  targeted run's token bucket, which is new and full and lets it pass at once.
* That a targeted run refuses a host of its protocol's known-responsive list,
  since `cmd_scan` adds that list to the exclusions, is in the model (`known` is
  a layer of `Protected`); `run_scan` recommends such a run "for verifying the
  pipeline against a known-responsive host".
* In the grabber, an exception of the reader outside the `try` of `_drain`. In
  `Responsive`, the grabber is the row it leaves for each host (its promise,
  `RunLedger`), and staged rows are published at once.

## 7. Plan

What is left:

1. More fields of a service in `Services` (several headers of a name, a chain of
   certificates), whose closed forms the lemmas of `ServicesProofs` make short.
2. The properties of `Grabber` that hold of a caller, stated once for any module
   that drives it, as `DiscoveryProofs` does with `P`.
3. `NoneForgotten` without `Apart`, in the weaker form that a later derivation
   restores what a meeting of the writers has lost.
4. What overlapping publishes still keep, now that `Publish` has their steps on
   the shared files: for instance that whatever is committed was staged.
