# A TLA+ model of cimtest

cimtest is the functional test suite of libvirt-cim: a runner (`main.py`), a
library (`lib/XenKvmLib`, `src/lib`) and some 190 test scripts. It drives a
hypervisor host from the outside, by `virsh` over ssh and by CIM calls, and it
has to leave that host as it found it, whichever call fails and whenever
somebody presses Ctrl-C. What can go wrong is therefore not in a data structure
but on the host: guests nobody remembers, pools that belonged to someone else,
a configuration file that was moved aside and never put back. The modules here
model the parts of the suite that carry such state, check them with TLC and
prove their main properties with TLAPS.

Paths below are relative to `src/suites/libvirt-cim/`; the library is `lib/XenKvmLib/`.

## 1. Inventory

| Component | State it keeps | Operations | Talks to | What is hard | What makes it correct |
|---|---|---|---|---|---|
| **Guest ledger** (`test_doms.py`, `const.do_main`, guest commands of `vxml.py`) | the file `CIM_FUUID`, the domains of the host | `set_uuid`, `get_uuid_list`, `destroy_and_undefine_all`, `define/create/start/destroy/undefine`, `cim_define`, `cim_destroy` | virsh over ssh, CIMOM | killed between reading and using the ledger, lookups that fail silently, names reused by the administrator | no guest is forgotten, no foreign domain is touched, each body starts clean |
| **Suite runner** (`main.py`, pools in `common_util.py`) | the network and disk pool, `diskpool.conf` and its backup | `setup_env`, the test loop, `cleanup_env`, the interrupt handler | virsh, the file system, the test scripts as processes | interrupts and failures between steps, repeated runs, other users of libvirt | tests have their pools; PASS means clean; others are spared; the host's file comes back |
| **Indication tester** (`indications.py`, `indication_tester.py`, scripts of `RASDIndications`, `ComputerSystemIndication`) | subscriptions at the CIMOM, a forked child and its listener | `sub_ind`, `handle_request`, `poll_for_ind`, `unsubscribe` | CIMOM, parent and child processes | late, lost, repeated, foreign indications; timeouts; two processes unsubscribing | PASS means every indication came; no child and no subscription is left |
| **Migration** (`vsmigrations.py`, scripts of `VirtualSystemMigrationService`) | image and backup on the target, the guest on two hosts, the job | `local_remote_migrate`, `check_migration_job`, `cleanup_image`, `cleanup_guest_netpool` | CIMOM, ssh to the target, libvirt's migration | the job outlives the script; failures between moving and restoring the image | PASS means moved; the image comes back; no guest is left |
| **Test scripts** (`cimtest/*`, `misc_cimtests/*`, with the calls of `vxml.py`, `pool.py`, `common_util.py` they are made of) | what each has made on the host: guests, pools, networks, volumes, directories, subscriptions | define, start, compare, destroy; return, raise, catch | all of the above | some 190 programs of a dozen steps with a way out at each | PASS means everything worked; nothing is left behind; what others have stays |
| **State changes** (`common_util.py` 60-153, `vxml.py` 717-811) | the state of one guest | `cim_state_change`, `check_guest_state`, `call_` and `try_request_state_change`, `poll_for_state_change` | CIMOM | a guest that comes late, never, or goes down; looks that show the old state | PASS means the change is over; each call returns |
| **NFS pools** (`common_util.py` 494-692) | `/etc/exports` and its backup, the NFS server, two directories | `nfs_netfs_setup`, `netfs_cleanup` | NFS server, name resolution | a failure or a kill between two steps, then another script | the host's exports come back; other hosts' directories stay |
| **Resource pools** (`pool.py`) | pools made through CIM | `create_pool`, `verify_pool`, `undefine_*` | CIMOM, virsh | partial failure | what was made is removed |
| Reporting (`reporting.py`, `CimExt.py`) | counts of a log | parse, mail | files, SMTP | output that looks like a result | counts agree with the results |
| Test selection (`VirtLib/groups.py`) | none | list scripts | file system | - | each script once |
| CIM wrappers (`enumclass.py`, `assoc.py`) | `Globals.CIM_NS` | Enumerate, Get, Associators | CIMOM | early returns | the namespace is restored |
| Expected values (`rasd.py`, `logicaldevices.py`, `devices.py`) | none | compare | - | - | - |

The runner starts one script at a time as a process; a script's `main` is
wrapped by `do_main`, which cleans the host by the ledger first; the scripts use
the pools the runner made; the indication and the migration scripts have
protocols of their own beside other processes (a forked child, a migration job).

## 2. Modules

| Module | Models | Code |
|---|---|---|
| `Libvirt` | external: what virsh commands do to the domains of a host | used through `vxml.Virsh`, `test_doms` |
| `GuestLedger` | the ledger, `do_main` with its cleanup loop, the body as any legal sequence of guest commands, other people's domains | `test_doms.py` 30-137, `const.py` 127-149, `vxml.py` 158-193, 445-461, 645-715 |
| `CleanHost` | the abstract promise of `do_main`: a body is never entered on a host with guests of the suite | `const.py` 139-141 |
| `PoolLease` | the abstract promise of the runner to those who share the host: pools taken when free, given back only by who holds them, tests only while all are held | `main.py` 123-155 |
| `SetAside` | the abstract promise about a file of the host that the suite puts its own in the place of | `common_util.py` 301-339, 598-660, `vsmigrations.py` 152-182, 401-422 |
| `SuiteRun` | launches of `main.py` | `main.py` 127-335, `common_util.py` 239-443 |
| `Indications` | one indication script: parent, child, CIMOM | `indications.py` 33-105, `indication_tester.py` 524-589, `RASDIndications/01` |
| `Migration` | one remote migration and its cleaning up | `vsmigrations.py` 152-476, `VirtualSystemMigrationService/06` |
| `ScriptLang` | the words scripts are written in: steps, exits, sections | `vxml.py`, `test_doms.py`, `common_util.py` as the scripts call them |
| `ScriptsVsms`, `ScriptsPool`, `ScriptsHost`, `ScriptsGuest`, `ScriptsAssoc`, `ScriptsDevice`, `ScriptsService` | 193 scripts, one definition each | the scripts' files |
| `ScriptRules` | five rules that can be read off a script's text | |
| `ScriptRun` | one script of a table on a host, any call failing | `const.py` 127-149, `vxml.py` |
| `NetfsPool` | scripts that set up and take down an NFS mount, one after another | `common_util.py` 494-692, `ResourcePoolConfigurationService/12` |
| `StateChange` | calls that change the state of a guest | `common_util.py` 60-153, `vxml.py` 717-811 |
| `MC...` | TLC instances of the above | |
| `...Proofs` | theorems about the above | |

### GuestLedger
`doms` is the host (a name to a domain with uuid, activity and persistence),
`ledger` the lines of `CIM_FUUID`, `pc` the place of the one test process. The
three calls that begin `destroy_and_undefine_all` are three actions
(`ListNames`, `ListIds`, `ReadLedger`), since guests may power off and the
administrator may act between them; `Visit` is the lookup of an entry,
`DestroyCur` and `UndefineCur` the two halves of its virsh command. Names come
before ids as in the code; an id is written as the uuid of the domain it was
listed for and denotes nothing once that domain is off. A lookup returns the
uuid, an empty string (virsh failed, sed did not) or 0 (ssh failed), as
`viruuid` does. The administrator may take a name of the suite while no script
runs and during a cleanup (`AdminStep`), but not while a body works under it, nor
between the lookup of a domain, which is by uuid, and its removal, which is by
name: there the code has no protection. `Reclean` is the call of `destroy_and_undefine_all(options.ip)`,
with the virt default "Xen", at the head of some bodies. `CleanHost` is
implemented under the mapping *guests* = uuids of the suite on the host, *phase*
= idle, cleaning or testing by `pc`.

### SuiteRun
`net` and `disk` say who made the pool of the suite's name (nobody, a launch, a
stranger), `conf` and `backup` what the two files hold. `old`, which never
changes, says whether the disk pool is libvirt's or `diskpool.conf`. Each virsh call is an action of
its own, so a stranger or an interrupt can come in between. The handler of
`__main__` sends any interrupted place to `cleanup_env`; a second Ctrl-C ends the
process. `NetXML`, which calls `sys.exit` when no bridge name is free, is
`BridgeExits`. A call of virsh may also do its work and its answer be lost
(fault "lost"). Where virsh tells no version, `virsh_version_cmp` raises outside of
every `try` and main is gone (`VersionUnknown`); so it is when the unlink or the
move of `create_diskpool_file` fails. `RunTest` leaves the runner's pools alone but
for one script, `ResourcePoolConfigurationService/14`, which may destroy the disk
pool under the other tests; `spoilt` remembers that. `SuiteRun` implements `PoolLease` (holders = `net` and `disk`, phase by
`pc`) and, for `diskpool.conf`, `SetAside`; each where the sections below say.

### Indications
`reg[k]` holds which instances (filter, handler, subscription) the CIMOM has of a
kind; scripts that were cut short may have left any of them. `flight[j][k]` counts
the indications of kind k under way to the listener of kind j. `PostCreate` and
`PostDelete` are calls of `__do_cimpost`, which throws the reply away: a call that
the CIMOM refuses goes on like one that worked (fault "refuse"), and the parent
does not know. `todo` and `ctodo` count the calls that parent and child have still
to make, kind by kind. `kept` collects what the CIMOM refused to delete in the
parent's last loop. `Deliver` is the CIMOM (external): to the own listener unless
lost, and, as the comment in the code says of sfcb, to any other. `Poll` is one
round of `poll_for_ind`. A child that an exception sends through the end of the
parent's `main` (place "tail") unsubscribes every kind there.

### Migration
`img` and `bak` hold whose file lies under the image's name and under the
backup's, `bkup` whether the script knows of a backup. `job` is libvirt's job,
`seen` the script's last look at it. `JobRuns`, `JobCompletes` and `JobFails` are
libvirt and go on after the script has given up or ended. Modelled is the remote
case (`remote_migrate` 1, target another host). `MakeNet` may end in the
`sys.exit(SKIP)` of `NetXML`, which no handler of the script catches: place "exit",
where nothing has been cleaned up. The image and its backup
implement `SetAside` as long as the commands that clean up work.

### ScriptRun and its tables
A script is a record of five sections: `main`, `more` and `tail` follow each
other, `undo` and `undo2` are handlers it jumps to. A section is a sequence of
steps. A step makes things, removes them, looks at something, or waits to be
refused; its `ok` and `fail` are the exits by which it may be left, each a verdict
(or "same") and a place to go on at. So `Define({ToTail})` is a `cim_define` in a
`try` whose `except` sets FAIL and runs the cleaning up, `Define({Out})` one that
returns FAIL or raises where nothing catches it, `Define({Go})` one whose result
nobody looks at. Calls in a row that leave by the same exits are one step, and a
loop over cases is two rounds of its body (`Twice`): a second round is what meets
the first one's leavings. The names are those of the directories and files:
`VSMS_19` is `VirtualSystemManagementService/19_*.py`, the map has them all; two
files of one number are `a` and `b`.

`ScriptRun` runs any script of a table: `mine` is what it has made and is still
there, `theirs` what somebody else had under the same names before (any subset),
`wrong` says that a call has failed and `stuck` what a failing removal has left.
`Late` are things that come up after the call that asked for them has reported a
failure: the guest whose poll ended too early, or what should have been refused.
That is why `Start` and `Boot` differ. `MakeNet` has `NetXML`'s `sys.exit` among its
exits, `Subscribe` and `Unsubscribe` the refusal that nobody reads, `DestroyPool`
the `TypeError` of a version that virsh does not tell.

`ScriptRules` says when a script is in order, without running it: `Sound` (no
failure is followed by PASS), `Forthright` (without a failure it cannot end with
FAIL; every script keeps it), `Tidy` (from where a thing is made to where it is
removed every way out leads to the removal) and `Gentle` (nothing is removed or
written over before the script has made it under that name) and `Thorough` (no
way through the text leads from where a thing is made round its removal to an end
with PASS; the status is walked along, so a way that has failed for certain does
not count). `MCScripts` lists the
scripts that break one of the other rules; the assumption `RulesAssumption`, which TLC
evaluates for the whole table, says that no other does.

### NetfsPool
`exports` and `backup` are the two files, `serves` what the running server took
from them, `tmp` the two temporary directories. Each call of `netfs_config` is an
action, each with its failure; `Undo` is the `except` clause. `Body` is the script
between setup and cleanup, which may return without the cleanup. `unclean` remembers
that a script has. A host may have come with `/etc/exports` or without it (`had`),
with an NFS mount from elsewhere, from this very host or with none. Up to and with
the first script that is cut short they implement `SetAside` for `/etc/exports`,
which stays *busy* after it.

### StateChange
`enabled` and `requested` are the two properties of the instance, `moving` the
requests the provider has taken and the guest has not followed yet; `Arrive` and
`Crash` are the guest (external). A call is `Get`, `Accept` or `Refuse`, then `Look`
and `Compare` until the looks are used up. A refusal is an exception, or a
`ReturnValue` that the code throws away: then the call goes on (`Proceed`) as if the
provider had taken it; and the answer to a request that was taken may be lost. Between a look and its comparison the
guest may go on, which is the second of sleep in `poll_for_state_change`. `doubt`
follows what a reader of the verdicts knows: "this" while a request for another
state has not been seen carried out, "ever" once two were under way together or one
asked for the state the guest was in, as `cim_reboot` and `cim_reset` of a running
guest do.

## 3. Runs

| Run | Question | Bounds |
|---|---|---|
| `ledger_clean` | Is no guest forgotten, does each body start clean (refinement of `CleanHost`)? | 2 suite names (one also the administrator's), 1 more of the administrator, 3 uuids of the suite, 1 foreign; ssh fails in a listing; kills where nothing is lost |
| `ledger_faults` | With all but silent lookup failures and kills anywhere: types, foreign domains, termination of the cleanup | the same |
| `runner_faults` | Pools under tests; PASS means clean; others' pools (`SparesOthers`, and the steps of `PoolLease`); every run ends | 3 launches, 3 tests, both kinds of libvirt, all faults, Ctrl-C and kill anywhere |
| `runner_whole` | Does a host get everything back, and does `diskpool.conf` move as `SetAside` says? | the faults `MostFaults`: a run that is refused, pools that cannot be made, an old backup that cannot be unlinked, no free bridge, a test that destroys the disk pool; not: destroying a pool, asking for the version, moving, writing or restoring `diskpool.conf`, a lost answer; Ctrl-C everywhere but in that writing and the cleanup; kill while no pool is made |
| `ind_faults` | Verdict, children, subscriptions, termination | 2 kinds, 2 deliveries a kind and listener, 2 polls, any instances at the CIMOM before, all faults |
| `mig_faults` | Verdict, termination | 3 looks, all faults |
| `mig_clean` | The target's image (also as a refinement of `SetAside`), guests and pools after the migration | every fault but those of the commands that clean up |
| `scripts` | Which scripts may pass though something failed, leave something, touch what is not theirs? | all 193 scripts, every failure of the tables, every subset of the names in use |
| `netfs` | Does `/etc/exports` survive and move as `SetAside` says, is a mount served, what is removed? | 3 scripts, every call failing, kill anywhere |
| `state` | What does a verdict on a state change promise? Does each call return? | 3 calls, 2 looks each, every fault |

Two names and three uuids are enough for a guest that is replaced while an
older one's uuid is still in the ledger, and for a name that passes from the
suite to the administrator between listing and lookup (the guest powers off, the
administrator defines a domain of that name); a third uuid lets the
body make another guest. Three launches let a first one leave something, a
second one break it and a third one meet the result. With two deliveries a
child's loop can be used up by the other kind; two polls are one that finds the
child at work and one that may find it gone. Three looks have a first, a middle
and a last one. `FreshUuids` picks a uuid in use nowhere; when the bound runs out
no new guest is made.

A script has a dozen steps, so `scripts` has no bound but the two rounds of a
loop. Three NFS scripts let a first one fail, a second one meet what it left and a
third one run after both. Three state changes are two requests under way together
and a look after them; two looks are one too early and one in time.

Runs with CHECK_DEADLOCK FALSE stop for good reasons: the last launch has
returned, or the script has. `Migration` has an explicit `Rest` step and
`GuestLedger` never stops, so deadlock is checked there.

### What `scripts` shows
A script outside of `HidingScripts` passes only when nothing has failed, one
outside of `LeavingScripts` leaves nothing but guests (which the next script's
`do_main` removes, `GuestLedger`), one outside of `GrabbingScripts` spares what
others have, and of all but `LitteringScripts` a pass leaves nothing at all. Each
script on a list breaks its property on some run of its table. So the lists are
those of the tables, and as good as these: a table has the exits its author found
in the script, and leaves out

* a look whose failure does not enter what the script compares (a `dumpxml` inside
  of a helper that returns an empty answer, which then differs or agrees by chance);
* a disk image that is missing on the host, for which `vxml.py` 596 and 873 to 1009
  end the program with status 1: the image is taken to be there;
* what a call of a removed or changed guest does to the host outside of the
  `Things` of `ScriptLang`.

The causes:

* *Hiding* (52 of 193). A result that is never looked at (`cim_define` in
  `LogicalDisk/01`, `Memory/01`, `NetworkPort/01`; `ElementConforms/02` tests
  `sys` for None and means `cs`); a status set by a later call over that of an
  earlier one (`misc_cimtests/create_verify_storagepool.py` 473 says a pool "was
  successfully verified" when its verification failed and its removal worked);
  loops that keep the last case's verdict; `return` in a loop after its first
  case (`ResourceAllocationFromPool`); a loop over an enumeration that came back
  empty; tests that wait for a failure and take any (`ComputerSystem/22`, `27`);
  a look for `/domain/@devices`, which no domain has
  (`VirtualSystemManagementService/16`, which passes whatever became of the
  device); a subscription that the CIMOM refuses to make or to delete.
* *Leaving* (18). A `return` between making and removing
  (`ResourcePoolConfigurationService` 04, 07, 08, 11, 12, 15), an exception
  outside of the `try` (`RASDIndications`, `RASD/04`,
  `VirtualSystemManagementService/06`), one in the handler itself
  (`ResourcePoolConfigurationService/09`, `ResourceAllocationFromPool/05`), or the
  `sys.exit` of `NetXML` (`VirtualSystemManagementService/22`). `ResourcePool/01`
  makes a network for good.
* *Grabbing* (62). The cleaning up undefines a guest of the script's name also
  when the define failed because there was one. `ResourcePoolConfigurationService/14`
  hands `clean_vol` to `cleanup_pool_vol` in the place of `clean_pool` and may
  remove the suite's disk pool (under the runner: fault "pool-test" of `SuiteRun`); `VirtualSystemMigrationService` 07 and 08 destroy
  the network "default" of the target; `VirtualSystemManagementService/14`
  writes an image over.
* *Littering* (4). `Processor/01` stops its guest by a virsh command that does
  not exist.

### Where code and words differ
Two runs expect a violation, each of a sentence in the repository:

* `ledger_killed`: the ledger is unlinked before the guests are destroyed
  (`test_doms.py` 103); a kill in between leaves guests that no later script
  removes, against "clean env for next testcase".
* `runner_lost`: `diskpool.conf` is moved aside, `conf_file` fails, `setup_env`
  returns; the next launch unlinks the backup, the only copy.

Both sentences hold under conditions that are proved to be enough (`BodyStartsClean`,
`OriginalSafe`) and are no narrower than the model asks: when any single fault,
interrupt or kill point of the model more is allowed, TLC finds the property violated.
A body starts on a clean host if only ssh fails, in the listings, and no kill comes
between the unlinking of the ledger and the end of the cleanup, or between a guest's
definition and its recording. `diskpool.conf` survives if the suite's own file can be
written and removed again, the move back works, the network pool can be destroyed,
virsh tells its version and its answers arrive, and between the move to the backup and
the move back nothing but a Ctrl-C in the tests disturbs the run. Likewise everything a run
makes is taken down again (`AllTakenDown`) under the conditions of `runner_whole`, and
with one more of them dropped it is not. The lease of the pools breaks when no
bridge name is free or Ctrl-C strikes outside of the tests: the handler destroys by
name, also before the run has made anything. It breaks, too, when a test has destroyed
the runner's disk pool and a stranger has taken its name: `cleanup_env` destroys the
stranger's. And of two NFS scripts the
second, after one that was cut short, loses what the first had set aside.

Others, which the models contain and no run states: "Make sure all subscriptions are
really unsubscribed" (`RASDIndications/01` 152) is not so where the CIMOM refuses a
`DeleteInstance`, which is why `Unsubscribed` excepts what was refused;
`call_request_state_change` says PASS to a request that the provider refused by its
`ReturnValue`, and so does `cim_state_change` when an earlier request of the same
state is carried out, or was (`RefusalNoticed` says that it is then the last one); in `poll_for_ind` `i < timeout`
always holds, so the branch that kills the child (`indications.py` 94-98) is never
reached (its callers kill the child, which is why `NoStrayChild` holds all the
same); a failing backup of the migration target's image is followed by `rm -rf` of
that image, and a pool of the suite's name that was on the target before is
destroyed (`vsmigrations.py` 334 and 471); `handle_request` counts
deliveries, not kinds, so one event that brings two indications of another kind
can use its loop up; the cleaning up of a migration runs beside a job that is still
at work (`NothingLate` says what it can see to); a job seen before it runs counts
as timed out at the first look. `netfs_config` that fails leaves the host with its
own exports only in the backup, which the next setup unlinks once there is an
exports file again: hence the bound `run <= 1` in `OriginalKept`. A host that came
without `/etc/exports` keeps the suite's. `cim_reboot` may pass before the guest
has gone down.

## 4. Fairness

All fairness is weak fairness of the one sequential process under study: the
cleanup loop (`Cleanup`), the runner (`Step`), the parent of an indication script
(`Parent`), the migration script (`Script`), the calls for state changes (`Script`
of `StateChange`). Each of these runs calls that return,
and sleeps of fixed length; none waits for a condition. Nothing is assumed of
guests, administrators, the CIMOM, the forked child or the migration job: the
scripts must end without them. The other half of each liveness property, that the
process has only so many steps to do, is proved for all values of the constants
(section 5); fairness only says that it does them. `ScriptRun` and `NetfsPool` state no liveness:
their scripts are loop-free, and end when their calls return.

## 5. Proofs

All theorems hold for every value of the constants that satisfies the modules'
assumptions.

* **GuestLedger.** `TypeCorrect` is an invariant of its own. `SparesForeign`
  needs that what is in the ledger or in `uuid_list` is a uuid of the suite, never
  the empty line: so the fault "virsh-lookup" is excluded, and `SpareInv` ties the
  domain at hand between lookup and destroy to a suite uuid, which the
  administrator cannot take over because they keep off the suite's names there
  (`AdminStep`); in the rest of the cleanup they need not. `NoneForgotten` is proved under `Benign` (faults and kill points):
  `TrackInv` adds to `Tracked` what the listings have found so far, since between
  `ListNames` and `ReadLedger` a guest may stop but none may appear. `HostKeptClean`
  is the refinement of `CleanHost`: an empty list of entries to visit and `Tracked`
  leave no guest on the host when a body is entered. `BodyStartsClean` is that
  for the sentence of `ledger_killed`, under the same `Benign`. `CleanupIsShort`:
  the set of what the loop has still to do is finite
  and shrinks with every step of the cleanup, for any finite sets of names and
  uuids, although domains come, go and change names meanwhile.
* **SuiteRun.** `RunInv` says for each place of the program which of the run's
  pools exist; `PoolsForTests` and `PassIsClean` follow from it whatever fails
  and wherever the run is interrupted or killed; a disk pool that a test has
  destroyed is gone (`spoilt`), any other is there. `OthersSpared` covers main in
  every case, and the handler if it is entered from the tests only
  (`OnlyInTests`): it destroys by name, also before this run made anything. It
  excepts the disk pool after a test has destroyed the run's own.
  `AllTakenDown` (under `Whole`, the faults, interrupts and kills of `runner_whole`)
  follows the run's pools (`PoolPlaces`) and the host's file (`ConfPlaces`) from
  place to place: `cleanup_env` stops at a network pool it does not find, so at its
  beginning a disk pool or a file set aside must come with a network pool.
  `OriginalSafe` and `ConfKept` use the same places of the file under `Undisturbed`,
  which allows almost every fault, interrupt and kill outside of the stretch in
  which it is aside; `HandlerCleans` says that the handler is
  never anywhere but in the cleanup. `LeaseKept` maps
  every step but those of a handler that was called elsewhere than in the tests
  to one of `PoolLease`, except while a stranger has the name of a disk pool that a
  test has destroyed (with `OnlyInTests`, and no such test, every step,
  `LeaseImplemented`): `CleanupOwns` gives that what is destroyed
  is the run's own, `TestsHavePools` that testing needs its pools. `RunIsShort` is the
  variant: `ToGo`, at most `NTests` + 17, falls with every step of the run, and an
  interrupt or a kill brings the end nearer too.
* **Indications.** `IndInv` relates the place of the parent, the child and the
  kinds gone through, and says of each call of the parent's last loop that what it
  was to delete is gone or was refused (`Deleted`); `NoChildOutlives`,
  `AllUnsubscribed` and `PassIsSeen` follow, for any number of kinds, polls,
  deliveries and faults, and whatever the CIMOM had before. `TypesKept` adds the
  bounds of the two loops: a child that serves has a round left. `ParentIsShort`:
  each step of the parent takes something from a finite set of things to do,
  to which child and CIMOM add nothing.
* **Migration.** `MigInv` ties a verdict to a job that is over; `TypesKept` and
  `PassIsMoved` follow. `ImageComesBack` is an induction over the places of the
  script (`ImageInv`); it names the four commands that must work.
  `NoGuestStays` uses that a job seen over stays over, and is about scripts that
  return: one that `NetXML` ends leaves its guest on the source, which the next
  script's `do_main` removes; `NothingAfterPass` adds the
  network pool, under the faults of `mig_clean`. `ImageSetAside` maps each step to
  one of `SetAside` under the assumption of `ImageComesBack`; it needs that
  no write ever finds the target's own image, which `ImageInv` knows from where it lies. `ScriptIsShort`: at most 2 * `Timeout` + 17 steps.
* **ScriptRun.** The theorems are about any table, so also about scripts not
  written yet: what keeps the rules of `ScriptRules` has the properties. The
  assumption that ties the rules to the lists is `RulesAssumption`. For
  `NothingHidden` the invariant says of a script in which something has failed
  that its place is one of those `Carries` names and its status is not PASS
  (`Tainted` sections are closed under jumps, `Unset` holds up to the first PASS).
  `NothingInvented` is about the runs without a failure, which take only `Good`
  exits: `Lags` names the places where the status may be FAIL all the same, because
  it began so and nothing has set it yet, and `Forthright` forbids to end there.
  For `NothingButGuests` it says of each thing the script has made that the place
  lies between a step that `Puts` it, with no `Takes` in between, and a removal that is
  still to come; `stuck` takes the things whose removal failed. `OthersSpared`
  carries the negation of a claim: where a name is not claimed yet, its section
  may be entered unclaimed, and `Gentle` forbids its removal there.
  `NothingLeftByPass` follows one thing: while it is there after it was made, the
  script is at a place of the walk of `Thorough` with a status the walk has there
  (`WalkInv`), and no end of the walk is a PASS.
* **NetfsPool.** `Placed` says for each place of the script where the host's file
  is; it holds while every script has cleaned up, and `FirstKept` continues it
  over the end of a first script that has not. `ExportsSetAside` (as
  long as no earlier script was cut short) maps the steps to those of `SetAside`: the move is `Away`, the move back `Back`,
  and every other write or removal hits what is not the host's.
* **StateChange.** `Doubtful` is the core: a request in doubt is the only one and
  under way only while the guest is in another state than the one it leads to; so
  a look that shows that state (`Fresh`, as old as the look) shows the end of it.
  `RefusalsNoticed` needs `TypeOK` alone: no step but the answer itself changes what
  `requested` says of the last request, so a PASS is never that of a refused one.
  `CallsAreShort`: at most 2 * `MaxPolls` + 4 steps a call, whatever the guest does.

Only model-checked: that the scripts, runs and calls do end (`CleanupEnds`,
`RunEnds`, `ScriptEnds`, `CallsEnd`), since the last step from the variants above to
`~>` needs fairness and ENABLED, which the provers do not have; that the
tables of scripts keep the rules (`RulesAssumption`, a finite computation); and the
two violations. Every safety property, action property and refinement that a passing
run checks is also a theorem.

## 6. Not modelled

Left out for good: XML and MOF texts, comparison of CIM properties with
expected values (`rasd.py`, `logicaldevices.py`, `devices.py`, and in the scripts
all but the exits a mismatch takes), mail, log layout, the contents of sockets,
the counting of results in a log (`reporting.py`, `CimExt.py`), the listing of
scripts (`groups.py`), the comparison of version numbers (both outcomes are
taken).

* `Globals.CIM_NS` is not followed: `AssociatorNames` (`assoc.py` 60-93) may leave it
  switched, for the rest of one process.
* Migration is in detail for a remote target; of the local case and the scripts
  01-08 around it only what they make and remove (`ScriptsService`).
* The scripts run on a host of their own in `ScriptRun`; that a script runs with
  the pools of the runner is `SuiteRun`'s `TestsHavePools`, that it starts without
  guests of another `GuestLedger`'s `CleanStart`.
* The NFS mounts of a host do not change under `NetfsPool`; so a pool that an
  earlier script has left mounted is not found as a mount by the next one.
* A snapshot whose job outlives the script (`VirtualSystemSnapshotService/03`) is
  made or not when the call returns.
